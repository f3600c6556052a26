------------------------------ MODULE MC_Sched ------------------------------
EXTENDS Sched, TLC

CONSTANTS w1, w2, s1, i1, n1, n2, n3, n4, n5

MC_Workers == {w1, w2}
MC_Fibers == {s1, i1}
MC_IoFibers == {i1}
MC_Variants == {"shr_locking", "steal_locking", "shr_simple_mpmc"}
\* The dummy, a node per fiber and a cached node per worker.
MC_Nodes == {n1, n2, n3, n4, n5}
\* Two timer buckets, so the unwinding closes an earlier bucket's timerfd.
MC_TimerFds == <<"timer_fd0", "timer_fd1">>

=============================================================================
