\* Two workers, a fiber that spins with fev_yield() and one that waits on a
\* socket; num_run_fibers and poller_backoff are 3 bits wide.
CONSTANTS
    w1 = w1
    w2 = w2
    s1 = s1
    i1 = i1
    n1 = n1
    n2 = n2
    n3 = n3
    n4 = n4
    n5 = n5
    NullNode = NullNode
    NoFiber = NoFiber
    Workers <- MC_Workers
    Fibers <- MC_Fibers
    IoFibers <- MC_IoFibers
    Variants <- MC_Variants
    StealCount = 1
    MaxYields = 1
    Bits = 3
    LocalPoolSize = 1
    PutCanFail = TRUE
    Nodes <- MC_Nodes
    TimerFds <- MC_TimerFds
SPECIFICATION Spec
INVARIANT TypeOK
INVARIANT NrfMatches
INVARIANT OnePollerWaiter
INVARIANT RunQueueHoldsQueued
INVARIANT ResourcesReleased
PROPERTY AllFibersDone
PROPERTY WorkersTerminate
\* The only state with no successor is the hang after a failed
\* fev_sched_put() (every worker asleep, num_fibers stuck above 0); every
\* other stop before fev_sched_destroy() violates WorkersTerminate.
CHECK_DEADLOCK FALSE
