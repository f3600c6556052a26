------------------------------ MODULE QueueSpec ------------------------------
(***************************************************************************)
(* What the bounded run queues of the lock-free schedulers promise         *)
(* (spec.md section 3): an atomic FIFO of at most Cap fibers.  A push      *)
(* appends when there is room, a pop hands the oldest fiber to the thread  *)
(* that popped; a push of a list (fev_push_stq()) appends its fibers at  *)
(* once.  Either may also return false and leave the queue alone:        *)
(* the lock-free queues report full or empty in states where the atomic    *)
(* FIFO would not, and the callers fall back (fev_push_one_fallback(),     *)
(* check_poller), so failures are stuttering steps here and their grounds  *)
(* are stated of each implementation separately.                           *)
(***************************************************************************)
EXTENDS Naturals, Sequences, SequencesExt

CONSTANTS
    Threads,    \* the worker threads using the queue
    Cap,        \* the capacity, FEV_SCHED_*_QUEUE_CAPACITY
    Items,      \* the fibers that may be pushed
    NULL        \* no fiber popped yet

VARIABLES
    aq,         \* the fibers in the queue, oldest first
    out         \* out[t]: the fiber t's last successful pop returned

vars == <<aq, out>>

Init == aq = <<>> /\ out = [t \in Threads |-> NULL]

Push(s) ==
    /\ s # <<>>
    /\ Len(aq) + Len(s) <= Cap
    /\ aq' = aq \o s
    /\ UNCHANGED out

Pop(t) ==
    /\ aq # <<>>
    /\ out' = [out EXCEPT ![t] = Head(aq)]
    /\ aq' = Tail(aq)

Next == (\E s \in SeqOf(Items, Cap) : Push(s)) \/ (\E t \in Threads : Pop(t))

Spec == Init /\ [][Next]_vars

====
