---------------------------- MODULE MC_MutexCond ----------------------------
EXTENDS MutexCond, TLC

CONSTANTS l1, l2, p, c1, c2

MC_Lockers == {l1}
MC_TimedLockers == {l1}
MC_Consumers == {c1, c2}

=============================================================================
