\* A timed locker, a producer using notify_all and two consumers
\* using fev_cond_wait_until() from C.
CONSTANTS
    l1 = l1
    l2 = l2
    p = p
    c1 = c1
    c2 = c2
    Lockers <- MC_Lockers
    TimedLockers <- MC_TimedLockers
    Producer = p
    Consumers <- MC_Consumers
    CondTimed = TRUE
    NotifyAll = TRUE
    CppWrapper = FALSE
    AddCanFail = FALSE
SPECIFICATION Spec
INVARIANT TypeOK
INVARIANT MutualExclusion
INVARIANT MutexStateMatches
INVARIANT LockResultMatchesMutex
INVARIANT NotifyNotLost
