\* A timed locker, a producer using notify_all and two consumers
\* using condition_variable::wait_until(lock, abs_time, pred) of fev++.hpp.
CONSTANTS
    l1 = l1
    l2 = l2
    p = p
    c1 = c1
    c2 = c2
    Lockers <- MC_Lockers
    TimedLockers <- MC_TimedLockers
    Producer = p
    Consumers <- MC_Consumers
    CondTimed = TRUE
    NotifyAll = TRUE
    CppWrapper = TRUE
    AddCanFail = FALSE
SPECIFICATION Spec
INVARIANT MutualExclusion
