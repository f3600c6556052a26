--------------------------------- MODULE Qsbr ---------------------------------
(***************************************************************************)
(* Deferred freeing of sockets by quiescent-state-based reclamation:       *)
(* fev_qsbr.h, used by fev_poller_reactor.c.  A fiber that destroys a      *)
(* socket calls fev_poller_free_socket() -> fev_qsbr_free() on its worker; *)
(* each worker calls fev_poller_quiescent() -> fev_qsbr_quiescent() at the *)
(* end of fev_poller_process(), after handling the events epoll_wait()     *)
(* returned.  Until then those events hold pointers to their sockets.      *)
(*                                                                         *)
(* Every atomic load, store, CAS and fetch_sub on the global state is a    *)
(* step of its own; stores to the worker's local epoch and to an entry not *)
(* yet published are folded into the neighbouring step.  The lists        *)
(* to_free1 and to_free2 are linked through next[], as in the code.        *)
(* num_threads > 1: with one worker, fev_poller_free_socket() frees at     *)
(* once and QSBR is not used.                                              *)
(***************************************************************************)
EXTENDS Integers, FiniteSets

CONSTANTS
    Workers,    \* the scheduler's workers (num_threads = |Workers| > 1)
    Sockets,    \* the struct fev_socket objects
    NULL

VARIABLES
    epoch,          \* global->epoch
    numRemaining,   \* global->num_remaining
    toFree1,        \* global->to_free1
    toFree2,        \* global->to_free2
    next,           \* entry->next of every socket's qsbr_entry
    local,          \* local->epoch of every worker
    status,         \* per socket: "open", "retired" (logically freed), "freed"
    refs,           \* sockets whose events a worker is handling
    pc,             \* per worker: where it is in its loop
    ent,            \* per worker: the entry fev_qsbr_free() is publishing
    ep,             \* per worker: the epoch it loaded
    nf1,            \* per worker: new_to_free1 in fev_qsbr_quiescent()
    tofree          \* per worker: to_free returned by fev_qsbr_quiescent()

vars == <<epoch, numRemaining, toFree1, toFree2, next, local, status, refs,
          pc, ent, ep, nf1, tofree>>

NumThreads == Cardinality(Workers)

\* The entries of the list starting at h, following next[].
RECURSIVE ListFrom(_, _)
ListFrom(h, n) ==
    IF h = NULL \/ n = 0 THEN {} ELSE {h} \cup ListFrom(next[h], n - 1)

List(h) == ListFrom(h, Cardinality(Sockets))

FreeStates == {"f_cas1", "f_epoch", "f_rem", "f_bump", "f_load2", "f_cas2"}

\* fev_qsbr_init_global() and fev_qsbr_init_local(): epoch 0, no list.
QsbrInit ==
    /\ epoch = 0
    /\ numRemaining = 0
    /\ toFree1 = NULL
    /\ toFree2 = NULL
    /\ local = [w \in Workers |-> 0]

\* fev_poller_init() sets up the poller's QSBR state and each worker's;
\* the sockets are then open and no worker is in the poller loop.
Init ==
    /\ QsbrInit
    /\ next = [s \in Sockets |-> NULL]
    /\ status = [s \in Sockets |-> "open"]
    /\ refs = [w \in Workers |-> {}]
    /\ pc = [w \in Workers |-> "idle"]
    /\ ent = [w \in Workers |-> NULL]
    /\ ep = [w \in Workers |-> 0]
    /\ nf1 = [w \in Workers |-> NULL]
    /\ tofree = [w \in Workers |-> NULL]

Goto(w, l) == pc' = [pc EXCEPT ![w] = l]

(***************************************************************************)
(* The worker's loop: epoll_wait() returns events for some open sockets,   *)
(* or a fiber on the worker closes a socket and destroys it.               *)
(***************************************************************************)
EpollWait(w) ==
    /\ pc[w] = "idle"
    /\ \E r \in SUBSET {s \in Sockets : status[s] = "open"} : refs' = [refs EXCEPT ![w] = r]
    /\ Goto(w, "q_load")
    /\ UNCHANGED <<epoch, numRemaining, toFree1, toFree2, next, local, status, ent, ep, nf1, tofree>>

\* fev_socket_close() and fev_socket_destroy(): no event for the socket
\* is returned after the close; then fev_qsbr_free().
Destroy(w) ==
    /\ pc[w] = "idle"
    /\ \E s \in Sockets :
         /\ status[s] = "open"
         /\ status' = [status EXCEPT ![s] = "retired"]
         /\ ent' = [ent EXCEPT ![w] = s]
    /\ Goto(w, "f_cas1")
    /\ UNCHANGED <<epoch, numRemaining, toFree1, toFree2, next, local, refs, ep, nf1, tofree>>

(***************************************************************************)
(* fev_qsbr_free().                                                        *)
(***************************************************************************)
\* entry->next = NULL; CAS to_free1 from NULL to the entry.
FreeCas1(w) ==
    /\ pc[w] = "f_cas1"
    /\ next' = [next EXCEPT ![ent[w]] = NULL]
    /\ IF toFree1 = NULL
       THEN toFree1' = ent[w] /\ Goto(w, "f_epoch")
       ELSE UNCHANGED toFree1 /\ Goto(w, "f_load2")
    /\ UNCHANGED <<epoch, numRemaining, toFree2, local, status, refs, ent, ep, nf1, tofree>>

\* A new generation: load the epoch,
FreeLoadEpoch(w) ==
    /\ pc[w] = "f_epoch"
    /\ ep' = [ep EXCEPT ![w] = epoch]
    /\ Goto(w, "f_rem")
    /\ UNCHANGED <<epoch, numRemaining, toFree1, toFree2, next, local, status, refs, ent, nf1, tofree>>

\* Mutant: the worker starting the generation counts itself.
FreeStoreRemainingAll(w) ==
    /\ pc[w] = "f_rem"
    /\ numRemaining' = NumThreads
    /\ Goto(w, "f_bump")
    /\ UNCHANGED <<epoch, toFree1, toFree2, next, local, status, refs, ent, ep, nf1, tofree>>

\* store num_remaining = num_threads - 1,
FreeStoreRemaining(w) ==
    /\ pc[w] = "f_rem"
    /\ numRemaining' = NumThreads - 1
    /\ Goto(w, "f_bump")
    /\ UNCHANGED <<epoch, toFree1, toFree2, next, local, status, refs, ent, ep, nf1, tofree>>

\* store epoch + 1, and set the local epoch to it.
FreeBumpEpoch(w) ==
    /\ pc[w] = "f_bump"
    /\ epoch' = ep[w] + 1
    /\ local' = [local EXCEPT ![w] = ep[w] + 1]
    /\ ent' = [ent EXCEPT ![w] = NULL]
    /\ Goto(w, "idle")
    /\ UNCHANGED <<numRemaining, toFree1, toFree2, next, status, refs, ep, nf1, tofree>>

\* to_free1 was taken: entry->next = to_free2,
FreeLoad2(w) ==
    /\ pc[w] = "f_load2"
    /\ next' = [next EXCEPT ![ent[w]] = toFree2]
    /\ Goto(w, "f_cas2")
    /\ UNCHANGED <<epoch, numRemaining, toFree1, toFree2, local, status, refs, ent, ep, nf1, tofree>>

\* and CAS to_free2 from entry->next to the entry; a failed CAS stores the
\* current to_free2 in entry->next and tries again.
FreeCas2(w) ==
    /\ pc[w] = "f_cas2"
    /\ IF toFree2 = next[ent[w]]
       THEN /\ toFree2' = ent[w]
            /\ ent' = [ent EXCEPT ![w] = NULL]
            /\ Goto(w, "idle")
            /\ UNCHANGED next
       ELSE /\ next' = [next EXCEPT ![ent[w]] = toFree2]
            /\ UNCHANGED <<toFree2, ent, pc>>
    /\ UNCHANGED <<epoch, numRemaining, toFree1, local, status, refs, ep, nf1, tofree>>

(***************************************************************************)
(* fev_poller_quiescent() -> fev_qsbr_quiescent(), once the events are     *)
(* handled: the worker drops its pointers and loads the global epoch.      *)
(***************************************************************************)
QLoadEpoch(w) ==
    /\ pc[w] = "q_load"
    /\ refs' = [refs EXCEPT ![w] = {}]
    /\ ep' = [ep EXCEPT ![w] = epoch]
    /\ Goto(w, IF epoch = local[w] THEN "idle" ELSE "q_sub")
    /\ UNCHANGED <<epoch, numRemaining, toFree1, toFree2, next, local, status, ent, nf1, tofree>>

\* Mutant: a worker that is not the last keeps its old local epoch.
QFetchSubNoLocal(w) ==
    /\ pc[w] = "q_sub"
    /\ numRemaining' = numRemaining - 1
    /\ IF numRemaining = 1 THEN Goto(w, "q_load1") ELSE Goto(w, "idle")
    /\ UNCHANGED <<epoch, toFree1, toFree2, next, local, status, refs, ent, ep, nf1, tofree>>

\* fetch_sub on num_remaining; the worker that took it from 1 to 0 ends the
\* generation, the others set their local epoch and return NULL.
QFetchSub(w) ==
    /\ pc[w] = "q_sub"
    /\ numRemaining' = numRemaining - 1
    /\ IF numRemaining = 1
       THEN Goto(w, "q_load1") /\ UNCHANGED local
       ELSE Goto(w, "idle") /\ local' = [local EXCEPT ![w] = ep[w]]
    /\ UNCHANGED <<epoch, toFree1, toFree2, next, status, refs, ent, ep, nf1, tofree>>

\* to_free = to_free1.
QLoad1(w) ==
    /\ pc[w] = "q_load1"
    /\ tofree' = [tofree EXCEPT ![w] = toFree1]
    /\ Goto(w, "q_load2")
    /\ UNCHANGED <<epoch, numRemaining, toFree1, toFree2, next, local, status, refs, ent, ep, nf1>>

\* new_to_free1 = to_free2.
QLoad2(w) ==
    /\ pc[w] = "q_load2"
    /\ nf1' = [nf1 EXCEPT ![w] = toFree2]
    /\ Goto(w, IF toFree2 = NULL THEN "q_clear1" ELSE "q_cas2")
    /\ UNCHANGED <<epoch, numRemaining, toFree1, toFree2, next, local, status, refs, ent, ep, tofree>>

\* CAS to_free2 from new_to_free1 to NULL; a failure reloads new_to_free1.
QCas2(w) ==
    /\ pc[w] = "q_cas2"
    /\ IF toFree2 = nf1[w]
       THEN toFree2' = NULL /\ Goto(w, "q_store1") /\ UNCHANGED nf1
       ELSE nf1' = [nf1 EXCEPT ![w] = toFree2] /\ UNCHANGED <<toFree2, pc>>
    /\ UNCHANGED <<epoch, numRemaining, toFree1, next, local, status, refs, ent, ep, tofree>>

\* Mutant: the rotated list is not published as to_free1.
QStore1Lost(w) ==
    /\ pc[w] = "q_store1"
    /\ Goto(w, "q_storerem")
    /\ UNCHANGED <<epoch, numRemaining, toFree1, toFree2, next, local, status, refs, ent, ep, nf1, tofree>>

\* to_free1 = new_to_free1,
QStore1(w) ==
    /\ pc[w] = "q_store1"
    /\ toFree1' = nf1[w]
    /\ Goto(w, "q_storerem")
    /\ UNCHANGED <<epoch, numRemaining, toFree2, next, local, status, refs, ent, ep, nf1, tofree>>

\* num_remaining = num_threads - 1,
QStoreRemaining(w) ==
    /\ pc[w] = "q_storerem"
    /\ numRemaining' = NumThreads - 1
    /\ Goto(w, "q_bump")
    /\ UNCHANGED <<epoch, toFree1, toFree2, next, local, status, refs, ent, ep, nf1, tofree>>

\* epoch = epoch + 1, and the local epoch follows.
QBumpEpoch(w) ==
    /\ pc[w] = "q_bump"
    /\ epoch' = ep[w] + 1
    /\ local' = [local EXCEPT ![w] = ep[w] + 1]
    /\ Goto(w, "q_free")
    /\ UNCHANGED <<numRemaining, toFree1, toFree2, next, status, refs, ent, ep, nf1, tofree>>

\* No to_free2 to rotate: to_free1 = NULL.
QClear1(w) ==
    /\ pc[w] = "q_clear1"
    /\ toFree1' = NULL
    /\ local' = [local EXCEPT ![w] = ep[w]]
    /\ Goto(w, "q_free")
    /\ UNCHANGED <<epoch, numRemaining, toFree2, next, status, refs, ent, ep, nf1, tofree>>

\* fev_poller_free_socket_list(): fev_free() every socket of the list,
\* which nobody else can reach any more.
QFree(w) ==
    /\ pc[w] = "q_free"
    /\ status' = [s \in Sockets |-> IF s \in List(tofree[w]) THEN "freed" ELSE status[s]]
    /\ tofree' = [tofree EXCEPT ![w] = NULL]
    /\ Goto(w, "idle")
    /\ UNCHANGED <<epoch, numRemaining, toFree1, toFree2, next, local, refs, ent, ep, nf1>>

Free(w) ==
    \/ FreeCas1(w) \/ FreeLoadEpoch(w) \/ FreeStoreRemaining(w) \/ FreeBumpEpoch(w)
    \/ FreeLoad2(w) \/ FreeCas2(w)

Quiescent(w) ==
    \/ QLoadEpoch(w) \/ QFetchSub(w) \/ QLoad1(w) \/ QLoad2(w) \/ QCas2(w)
    \/ QStore1(w) \/ QStoreRemaining(w) \/ QBumpEpoch(w) \/ QClear1(w) \/ QFree(w)

Worker(w) == EpollWait(w) \/ Destroy(w) \/ Free(w) \/ Quiescent(w)

Next == \E w \in Workers : Worker(w)

\* No fairness: only safety is checked.  A worker asleep in epoll_wait()
\* passes no quiescent point, and the poller wakes sleeping workers only
\* when 64, 96, 128, ... frees have been counted (fev_poller_reactor.c),
\* so no bound a small model keeps tells when a generation is reclaimed.
Spec == Init /\ [][Next]_vars

-----------------------------------------------------------------------------
(* Properties.                                                             *)

TypeOK ==
    /\ epoch \in 0 .. Cardinality(Sockets)
    /\ numRemaining \in 0 .. NumThreads - 1
    /\ toFree1 \in Sockets \cup {NULL} /\ toFree2 \in Sockets \cup {NULL}
    /\ next \in [Sockets -> Sockets \cup {NULL}]
    /\ local \in [Workers -> 0 .. Cardinality(Sockets)]
    /\ status \in [Sockets -> {"open", "retired", "freed"}]
    /\ refs \in [Workers -> SUBSET Sockets]
    /\ ent \in [Workers -> Sockets \cup {NULL}]
    /\ nf1 \in [Workers -> Sockets \cup {NULL}]
    /\ tofree \in [Workers -> Sockets \cup {NULL}]

\* No socket is fev_free()d while a worker still handles an event that
\* epoll_wait() returned for it (the spec's invariant 7).
NoFreeWhileReferenced ==
    \A w \in Workers : \A s \in refs[w] : status[s] # "freed"

\* Every destroyed socket not yet freed is on exactly the lists that lead to
\* its free: being published by fev_qsbr_free(), on to_free1 or to_free2,
\* taken off to_free2 by a worker rotating it into to_free1, or on a
\* to_free list a worker is about to free; nothing on those lists
\* was freed already.
Reclaimable ==
    {ent[w] : w \in {v \in Workers : pc[v] \in FreeStates}}
    \cup List(toFree1) \cup List(toFree2)
    \cup UNION {List(nf1[w]) : w \in {v \in Workers : pc[v] = "q_store1"}}
    \cup UNION {List(tofree[w]) : w \in Workers}

RetiredAccounted ==
    Reclaimable = {s \in Sockets : status[s] = "retired"}

====
