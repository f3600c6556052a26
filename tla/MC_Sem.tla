------------------------------- MODULE MC_Sem -------------------------------
EXTENDS Sem, TLC

CONSTANTS w1, w2, p1

MC_Waiters == {w1, w2}
MC_TimedWaiters == {w2}
MC_Posters == {p1}
MC_Kinds == {"spinlock", "mutex"}

=============================================================================
