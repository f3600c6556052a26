------------------------------ MODULE MpmcQueue ------------------------------
(***************************************************************************)
(* The bounded MPMC queue of fev_bounded_mpmc_queue.h (Vyukov's cell      *)
(* array), the run queue of the shr_bounded_mpmc scheduler.  Every thread  *)
(* may push and pop; each atomic load, CAS and release store of the code   *)
(* is a step.  head, tail and the cells' sequence numbers are uint32_t,    *)
(* here of Bits bits, and the differences are cast to int32_t.  The plain  *)
(* write of cell->data before the release of sequence, and its read after  *)
(* the CAS of head, are one step with the store that follows them: no      *)
(* other thread touches the cell in between.                               *)
(***************************************************************************)
EXTENDS Integers

CONSTANTS
    Threads,    \* the worker threads
    Cap,        \* capacity, a power of 2 (buffer_mask = Cap - 1)
    Bits,       \* the width of head, tail and sequence
    Start,      \* head = tail at the start: the queue has run before
    NItems,     \* the fibers pushed: 1..NItems
    NULL

\* No thread falls 2^(Bits-1) indexes behind: the int32_t differences are
\* then exact, as they are in 32 bits short of 2^31 operations of others.
ASSUME /\ Cap >= 2 /\ 2^Bits % Cap = 0 /\ Start \in 0..2^Bits - 1
       /\ NItems + Cap < 2^(Bits - 1)

Modulus == 2^Bits
U32(x) == x % Modulus
\* (int32_t)x for an unsigned x.
Int32(x) == IF U32(x) >= Modulus \div 2 THEN U32(x) - Modulus ELSE U32(x)
Cells == 0..Cap - 1
Mask == Cap - 1
\* &buffer[i & buffer_mask]
CellOf(i) == i % Cap

VARIABLES
    head, tail,     \* queue->head, queue->tail
    seq, data,      \* seq[c], data[c]: cell c's sequence and data
    pc,             \* where each thread is in push or pop
    pos,            \* the thread's local head or tail
    val,            \* the fiber a pushing thread pushes
    out,            \* the fiber the thread's last pop returned
    next            \* the fibers handed to pushers so far

vars == <<head, tail, seq, data, pc, pos, val, out, next>>

\* fev_bounded_mpmc_queue_init() followed by Start pushes and pops: an
\* empty queue whose cell c waits for the next index equal to c modulo Cap.
Init ==
    /\ head = Start /\ tail = Start
    /\ seq = [c \in Cells |-> U32(Start + ((c - Start) % Cap))]
    /\ data = [c \in Cells |-> NULL]
    /\ pc = [t \in Threads |-> "idle"]
    /\ pos = [t \in Threads |-> Start]
    /\ val = [t \in Threads |-> NULL]
    /\ out = [t \in Threads |-> NULL]
    /\ next = 0

Goto(t, l) == pc' = [pc EXCEPT ![t] = l]

----------------------------------------------------------------------------
(* fev_bounded_mpmc_queue_push()                                           *)

\* tail = load(&queue->tail).
PushStart(t) ==
    /\ pc[t] = "idle" /\ next < NItems
    /\ next' = next + 1
    /\ val' = [val EXCEPT ![t] = next + 1]
    /\ pos' = [pos EXCEPT ![t] = tail]
    /\ Goto(t, "push_seq")
    /\ UNCHANGED <<head, tail, seq, data, out>>

\* seq = load(&cell->sequence); diff = seq - tail: 0 tries the CAS, < 0
\* returns false (the cell still holds the fiber of tail - Cap), > 0
\* reloads tail.
PushSeq(t) ==
    LET diff == Int32(seq[CellOf(pos[t])] - pos[t]) IN
    /\ pc[t] = "push_seq"
    /\ Goto(t, CASE diff = 0 -> "push_cas"
                 [] diff < 0 -> "idle"
                 [] OTHER    -> "push_reload")
    /\ UNCHANGED <<head, tail, seq, data, pos, val, out, next>>

PushReload(t) ==
    /\ pc[t] = "push_reload"
    /\ pos' = [pos EXCEPT ![t] = tail]
    /\ Goto(t, "push_seq")
    /\ UNCHANGED <<head, tail, seq, data, val, out, next>>

\* compare_exchange_weak(&queue->tail, &tail, tail + 1): on failure, which
\* may be spurious, tail holds the current value and the loop goes on.
PushCas(t) ==
    /\ pc[t] = "push_cas"
    /\ \/ /\ tail = pos[t]
          /\ tail' = U32(tail + 1)
          /\ Goto(t, "push_publish")
          /\ UNCHANGED pos
       \/ /\ pos' = [pos EXCEPT ![t] = tail]
          /\ Goto(t, "push_seq")
          /\ UNCHANGED tail
    /\ UNCHANGED <<head, seq, data, val, out, next>>

\* cell->data = data; store(&cell->sequence, tail + 1, release).
PushPublish(t) ==
    LET c == CellOf(pos[t]) IN
    /\ pc[t] = "push_publish"
    /\ data' = [data EXCEPT ![c] = val[t]]
    /\ seq' = [seq EXCEPT ![c] = U32(pos[t] + 1)]
    /\ Goto(t, "idle")
    /\ UNCHANGED <<head, tail, pos, val, out, next>>

----------------------------------------------------------------------------
(* fev_bounded_mpmc_queue_pop()                                            *)

\* head = load(&queue->head).
PopStart(t) ==
    /\ pc[t] = "idle"
    /\ pos' = [pos EXCEPT ![t] = head]
    /\ Goto(t, "pop_seq")
    /\ UNCHANGED <<head, tail, seq, data, val, out, next>>

\* diff = seq - (head + 1): 0 tries the CAS, < 0 returns false (the cell's
\* fiber is not published yet), > 0 reloads head.
PopSeq(t) ==
    LET diff == Int32(seq[CellOf(pos[t])] - (pos[t] + 1)) IN
    /\ pc[t] = "pop_seq"
    /\ Goto(t, CASE diff = 0 -> "pop_cas"
                 [] diff < 0 -> "idle"
                 [] OTHER    -> "pop_reload")
    /\ UNCHANGED <<head, tail, seq, data, pos, val, out, next>>

PopReload(t) ==
    /\ pc[t] = "pop_reload"
    /\ pos' = [pos EXCEPT ![t] = head]
    /\ Goto(t, "pop_seq")
    /\ UNCHANGED <<head, tail, seq, data, val, out, next>>

\* Mutant: head advanced by a plain store instead of the CAS.
PopCasStore(t) ==
    /\ pc[t] = "pop_cas"
    /\ head' = U32(pos[t] + 1)
    /\ Goto(t, "pop_release")
    /\ UNCHANGED <<tail, seq, data, pos, val, out, next>>

\* compare_exchange_weak(&queue->head, &head, head + 1).
PopCas(t) ==
    /\ pc[t] = "pop_cas"
    /\ \/ /\ head = pos[t]
          /\ head' = U32(head + 1)
          /\ Goto(t, "pop_release")
          /\ UNCHANGED pos
       \/ /\ pos' = [pos EXCEPT ![t] = head]
          /\ Goto(t, "pop_seq")
          /\ UNCHANGED head
    /\ UNCHANGED <<tail, seq, data, val, out, next>>

\* Mutant: the cell released for index head + buffer_mask, one short.
PopReleaseShort(t) ==
    LET c == CellOf(pos[t]) IN
    /\ pc[t] = "pop_release"
    /\ out' = [out EXCEPT ![t] = data[c]]
    /\ seq' = [seq EXCEPT ![c] = U32(pos[t] + Mask)]
    /\ Goto(t, "idle")
    /\ UNCHANGED <<head, tail, data, pos, val, next>>

\* data = cell->data; store(&cell->sequence, head + buffer_mask + 1,
\* release); *data_ptr = data.
PopRelease(t) ==
    LET c == CellOf(pos[t]) IN
    /\ pc[t] = "pop_release"
    /\ out' = [out EXCEPT ![t] = data[c]]
    /\ seq' = [seq EXCEPT ![c] = U32(pos[t] + Mask + 1)]
    /\ Goto(t, "idle")
    /\ UNCHANGED <<head, tail, data, pos, val, next>>

Next ==
    \E t \in Threads :
        \/ PushStart(t) \/ PushSeq(t) \/ PushReload(t) \/ PushCas(t)
        \/ PushPublish(t)
        \/ PopStart(t) \/ PopSeq(t) \/ PopReload(t) \/ PopCas(t)
        \/ PopRelease(t)

Spec == Init /\ [][Next]_vars

----------------------------------------------------------------------------
(* The queue as an atomic FIFO: the fibers of the indexes head..tail-1,     *)
(* the one of an index whose pusher has not published yet taken from the  *)
(* pusher.  A push takes effect at its CAS of tail, a pop at its CAS of    *)
(* head.                                                                   *)

Size == U32(tail - head)

ItemAt(i) ==
    IF \E p \in Threads : pc[p] = "push_publish" /\ pos[p] = i
    THEN val[CHOOSE p \in Threads : pc[p] = "push_publish" /\ pos[p] = i]
    ELSE data[CellOf(i)]

AbsQueue == [k \in 1..Size |-> ItemAt(U32(head + k - 1))]

AbsOut == [t \in Threads |->
              IF pc[t] = "pop_release" THEN data[CellOf(pos[t])] ELSE out[t]]

Abs == INSTANCE QueueSpec WITH aq <- AbsQueue, out <- AbsOut, Items <- 1..NItems

\* The queue is linearizable to the atomic FIFO of capacity Cap, across the
\* wrap of the uint32_t indexes: every successful pop returns the oldest
\* fiber pushed and not yet popped, none is lost or returned twice, and a
\* push never overwrites a cell whose fiber is not popped.
RefinesQueueSpec == Abs!Spec

\* A push returns false only when the queue is full or a pop is between
\* its CAS of head and its release of the cell; a pop returns false only
\* when the queue is empty or a push is between its CAS of tail and its
\* release of the cell (the spurious full and empty that
\* fev_bounded_mpmc_queue_size() warns of, and no other).
PushFails(t) == pc[t] = "push_seq" /\ pc'[t] = "idle"
PopFails(t) == pc[t] = "pop_seq" /\ pc'[t] = "idle"
FailuresJustifiedStep ==
    \A t \in Threads :
        /\ PushFails(t) =>
              Size = Cap \/ \E p \in Threads : pc[p] = "pop_release"
        /\ PopFails(t) =>
              Size = 0 \/ \E p \in Threads : pc[p] = "push_publish"
FailuresJustified == [][FailuresJustifiedStep]_vars

====
