------------------------------ MODULE SpmcQueue ------------------------------
(***************************************************************************)
(* The bounded SPMC queue of fev_bounded_spmc_queue.h, the per-worker run  *)
(* queue of the steal_bounded_spmc scheduler.  Only the owning worker      *)
(* pushes (fev_push_one(), fev_push_stq(), fev_move_from_fallback()); the  *)
(* owner pops its own queue and the other workers pop it in                *)
(* fev_sched_steal().  Each atomic load and CAS of the code is a step; the *)
(* owner's writes of the buffer are one step with its release of tail.    *)
(*                                                                         *)
(* A pop loads tail relaxed and then reads the slot with a plain load.  On *)
(* x86, the only architecture fev_arch.h builds for, loads are not         *)
(* reordered with earlier loads, so the slot read sees the owner's write   *)
(* that preceded the tail it loaded: the steps are sequentially           *)
(* consistent.                                                             *)
(***************************************************************************)
EXTENDS Integers

CONSTANTS
    Owner,      \* the worker owning the queue
    Stealers,   \* the other workers
    Cap,        \* FEV_SCHED_STEAL_BOUNDED_SPMC_QUEUE_CAPACITY, a power of 2
    Bits,       \* the width of head and tail
    Start,      \* head = tail at the start
    NItems,     \* the fibers pushed: 1..NItems
    StealCount, \* FEV_SCHED_STEAL_BOUNDED_SPMC_STEAL_COUNT
    NULL        \* an unwritten slot

ASSUME /\ Cap >= 2 /\ 2^Bits % Cap = 0 /\ Start \in 0..2^Bits - 1
       /\ NItems + Cap < 2^(Bits - 1)
       /\ StealCount \in 1..Cap - 1

Threads == {Owner} \cup Stealers
Modulus == 2^Bits
U32(x) == x % Modulus
Cells == 0..Cap - 1
Mask == Cap - 1
CellOf(i) == i % Cap

VARIABLES
    head, tail,     \* queue->head, queue->tail
    buf,            \* queue->buffer
    pc,
    pos,            \* the thread's local head
    val,            \* the fiber a popping thread read from the slot
    out,            \* the fiber the thread's last pop returned
    stolen,         \* num_stolen of a stealer's fev_sched_steal()
    batch,          \* n of the owner's fev_bounded_spmc_queue_push_stq()
    next            \* the fibers pushed so far

vars == <<head, tail, buf, pc, pos, val, out, stolen, batch, next>>

\* fev_bounded_spmc_queue_init() and Start pushes and pops since; the slots
\* hold no fiber the model will pop.
Init ==
    /\ head = Start /\ tail = Start
    /\ buf = [c \in Cells |-> NULL]
    /\ pc = [t \in Threads |-> "idle"]
    /\ pos = [t \in Threads |-> Start]
    /\ val = [t \in Threads |-> NULL]
    /\ out = [t \in Threads |-> NULL]
    /\ stolen = [t \in Threads |-> 0]
    /\ batch = 0
    /\ next = 0

Goto(t, l) == pc' = [pc EXCEPT ![t] = l]

----------------------------------------------------------------------------
(* Owner: fev_bounded_spmc_queue_push() and _push_stq()                    *)

\* head = load(&queue->head, acquire) of a push of one fiber (n = 1) or of
\* a list of n fibers (fev_push_stq(), fev_move_from_fallback()).
PushLoadHead ==
    /\ pc[Owner] = "idle" /\ next < NItems
    /\ \E n \in 1..NItems - next : batch' = n
    /\ pos' = [pos EXCEPT ![Owner] = head]
    /\ Goto(Owner, "push_store")
    /\ UNCHANGED <<head, tail, buf, val, out, stolen, next>>

\* Room for free = size - (tail - head) fibers by the loaded head: write
\* min(n, free) of them at tail.. and store(&queue->tail, release).  The
\* rest stay on the caller's list (the fallback queue); a push of one
\* fiber that finds no room returns false.
PushStore ==
    LET free == Cap - U32(tail - pos[Owner])
        n    == IF free < batch THEN free ELSE batch
    IN
    /\ pc[Owner] = "push_store"
    /\ buf' = [c \in Cells |->
                 IF \E i \in 0..n - 1 : CellOf(U32(tail + i)) = c
                 THEN next + 1 + CHOOSE i \in 0..n - 1 : CellOf(U32(tail + i)) = c
                 ELSE buf[c]]
    /\ tail' = U32(tail + n)
    /\ next' = next + n
    /\ batch' = 0
    /\ Goto(Owner, "idle")
    /\ UNCHANGED <<head, pos, val, out, stolen>>

----------------------------------------------------------------------------
(* fev_bounded_spmc_queue_pop(), by the owner (get_local) or a stealer     *)
(* (fev_sched_steal(): up to StealCount pops from the victim)              *)

PopStart(t) ==
    /\ pc[t] = "idle"
    /\ stolen' = [stolen EXCEPT ![t] = 0]
    /\ Goto(t, "pop_head")
    /\ UNCHANGED <<head, tail, buf, pos, val, out, batch, next>>

\* head = load(&queue->head, acquire).
PopLoadHead(t) ==
    /\ pc[t] = "pop_head"
    /\ pos' = [pos EXCEPT ![t] = head]
    /\ Goto(t, "pop_tail")
    /\ UNCHANGED <<head, tail, buf, val, out, stolen, batch, next>>

\* tail = load(&queue->tail, relaxed); head == tail returns false, which
\* ends a steal.
PopLoadTail(t) ==
    /\ pc[t] = "pop_tail"
    /\ Goto(t, IF pos[t] = tail THEN "idle" ELSE "pop_read")
    /\ UNCHANGED <<head, tail, buf, pos, val, out, stolen, batch, next>>

\* data = buffer[head & buffer_mask].
PopRead(t) ==
    /\ pc[t] = "pop_read"
    /\ val' = [val EXCEPT ![t] = buf[CellOf(pos[t])]]
    /\ Goto(t, "pop_cas")
    /\ UNCHANGED <<head, tail, buf, pos, out, stolen, batch, next>>

\* compare_exchange_weak(&queue->head, &head, head + 1): success returns
\* the fiber read, and a stealer goes on while num_stolen < StealCount;
\* failure reloads tail with the current head.
PopCas(t) ==
    /\ pc[t] = "pop_cas"
    /\ \/ /\ head = pos[t]
          /\ head' = U32(head + 1)
          /\ out' = [out EXCEPT ![t] = val[t]]
          /\ stolen' = [stolen EXCEPT ![t] = @ + 1]
          /\ Goto(t, IF t # Owner /\ stolen[t] + 1 < StealCount
                     THEN "pop_head" ELSE "idle")
          /\ UNCHANGED pos
       \/ /\ pos' = [pos EXCEPT ![t] = head]
          /\ Goto(t, "pop_tail")
          /\ UNCHANGED <<head, out, stolen>>
    /\ UNCHANGED <<tail, buf, val, batch, next>>

Next ==
    \/ PushLoadHead \/ PushStore
    \/ \E t \in Threads :
          PopStart(t) \/ PopLoadHead(t) \/ PopLoadTail(t) \/ PopRead(t)
          \/ PopCas(t)

Spec == Init /\ [][Next]_vars

----------------------------------------------------------------------------
(* The queue as an atomic FIFO: the fibers of head..tail-1.  A push takes   *)
(* effect at its release of tail, a pop at its CAS of head.                *)

Size == U32(tail - head)

AbsQueue == [k \in 1..Size |-> buf[CellOf(U32(head + k - 1))]]

Abs == INSTANCE QueueSpec WITH aq <- AbsQueue, Items <- 1..NItems

\* The queue is linearizable to the atomic FIFO of capacity Cap: a pop by
\* the owner or a stealer returns the oldest fiber not yet popped, none is
\* lost or returned twice, and the owner never overwrites an unpopped one.
RefinesQueueSpec == Abs!Spec

\* A pop returns false only when the queue is empty.
PopFails(t) == pc[t] = "pop_tail" /\ pc'[t] = "idle"
FailuresJustifiedStep == \A t \in Threads : PopFails(t) => Size = 0
FailuresJustified == [][FailuresJustifiedStep]_vars

====
