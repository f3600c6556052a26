CONSTANTS
    t1 = t1
    t2 = t2
    t3 = t3
    NoTimer = NoTimer
    Timers <- MC_Timers
    Time <- MC_Time
    Addr <- MC_Addr
    Impls <- MC_Impls
    MaxLen = 4
    MaxTime = 2
    \* the binary heap built without FEV_ASSUME_MALLOC_NEVER_FAILS
    AddCanFail = TRUE
    \* fev_time.h at small widths: 3 ns per second, a 4-bit time_t, a 4-bit
    \* uint64_t, so that both saturations of fev_timespec_to_ns() happen.
    NsPerSec = 3
    TimeBits = 4
    U64Bits = 4
    \* every heap shape of up to six timers, for HeapOpsSound
    HeapCheckSize = 6

SPECIFICATION Spec

INVARIANT TypeOK
INVARIANT NoDanglingTimer
INVARIANT MinMatchesHeap
 
INVARIANT TimedWaitResultSound
INVARIANT TimeArithmeticCorrect
PROPERTY AllWaitsReturn
