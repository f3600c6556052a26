\* An untimed and a timed waiter, one poster, initial value 0, all three
\* contending for the waiters queue's ilock, built with either inner lock.
CONSTANTS
    w1 = w1
    w2 = w2
    p1 = p1
    NoFiber = NoFiber
    Waiters <- MC_Waiters
    TimedWaiters <- MC_TimedWaiters
    Posters <- MC_Posters
    InitValue = 0
    Kinds <- MC_Kinds
SPECIFICATION Spec
INVARIANT TypeOK
INVARIANT SemConservation
INVARIANT GrantsMatchWaiters
INVARIANT NoStrandedWaiter
INVARIANT LockMutualExclusion
INVARIANT LockHandedToSaved
INVARIANT LockInnerNoLostWakeup
PROPERTY LockRefinesILockSpec
PROPERTY LockSlowLockerAcquires
