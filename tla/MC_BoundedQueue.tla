--------------------------- MODULE MC_BoundedQueue ---------------------------
(***************************************************************************)
(* The two bounded lock-free run queues, each checked against QueueSpec:   *)
(* impl, chosen at the start, selects fev_bounded_mpmc_queue.h with three  *)
(* threads that all push and pop, or fev_bounded_spmc_queue.h with its     *)
(* owner and two stealers.  Both start two pushes short of the wrap of     *)
(* their indexes, so the run crosses it.                                   *)
(***************************************************************************)
EXTENDS Integers

CONSTANTS t1, t2, t3, NULL, Impls

VARIABLES impl, head, tail, pc, pos, val, out, next,
          seq, data,                    \* MPMC only
          buf, stolen, batch            \* SPMC only

mpmcOnly == <<seq, data>>
spmcOnly == <<buf, stolen, batch>>
vars == <<impl, head, tail, pc, pos, val, out, next, mpmcOnly, spmcOnly>>

MC_Bits == 4
MC_Start == 14

M == INSTANCE MpmcQueue WITH Threads <- {t1, t2, t3}, Cap <- 2,
        Bits <- MC_Bits, Start <- MC_Start, NItems <- 3
S == INSTANCE SpmcQueue WITH Owner <- t1, Stealers <- {t2, t3}, Cap <- 2,
        Bits <- MC_Bits, Start <- MC_Start, NItems <- 3, StealCount <- 1

Init ==
    /\ impl \in Impls
    /\ \/ impl = "mpmc" /\ M!Init
          /\ buf = 0 /\ stolen = 0 /\ batch = 0
       \/ impl = "spmc" /\ S!Init /\ seq = 0 /\ data = 0

Next ==
    \/ impl = "mpmc" /\ M!Next /\ UNCHANGED <<impl, spmcOnly>>
    \/ impl = "spmc" /\ S!Next /\ UNCHANGED <<impl, mpmcOnly>>

Spec == Init /\ [][Next]_vars

\* Each queue implements the atomic bounded FIFO (see MpmcQueue and
\* SpmcQueue).
RefinesQueueSpec ==
    /\ impl = "mpmc" => M!Abs!Init
    /\ impl = "spmc" => S!Abs!Init
    /\ [][/\ impl = "mpmc" => [M!Abs!Next]_(M!Abs!vars)
          /\ impl = "spmc" => [S!Abs!Next]_(S!Abs!vars)]_vars

\* Each queue returns false only for the reasons its module states.
FailuresJustified ==
    [][/\ impl = "mpmc" => M!FailuresJustifiedStep
       /\ impl = "spmc" => S!FailuresJustifiedStep]_vars

====
