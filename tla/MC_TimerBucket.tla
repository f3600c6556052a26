----------------------------- MODULE MC_TimerBucket -----------------------------
EXTENDS TimerBucket, TimeSpec, TLC

CONSTANTS t1, t2, t3

MC_Timers == {t1, t2, t3}

\* Two timers due at 1, one at 2: the due ones can be expired together by
\* one fev_timers_process() while the later one stays in the heap.
MC_Time == (t1 :> 1) @@ (t2 :> 1) @@ (t3 :> 2)

\* The waiters' addresses order t1 and t2, which are due at the same time,
\* against the order of the names, for fev_timers_cmp() of the tree.
MC_Addr == (t1 :> 2) @@ (t2 :> 1) @@ (t3 :> 3)

MC_Impls == {"binheap", "rbtree"}

=============================================================================
