-------------------------- MODULE SimpleMpmcQueue --------------------------
(***************************************************************************)
(* The lock-free run queue of the shr_simple_mpmc scheduler: the           *)
(* Michael-Scott queue of fev_simple_mpmc_queue.h, whose (pointer, count)  *)
(* pairs are swapped with a double-width compare-and-swap, and the node    *)
(* pool of fev_simple_mpmc_pool.h (a per-worker cache of at most           *)
(* LocalPoolSize nodes, spilling into a global free stack).  Nodes are the *)
(* addresses malloc() may return, and are never returned to the allocator, *)
(* so a thread may read a node that has been freed and reused meanwhile.   *)
(*                                                                         *)
(* Steps.  A push is four: LoadTail (prepare the node, load the tail),     *)
(* LoadNext (load tail->next and recheck the tail's count: start over,    *)
(* help a lagging tail, or go on), Link (the CAS of tail->next, which may *)
(* act on a node that is no longer the tail) and Swing (the CAS of the    *)
(* tail to the node).  A pop is two: LoadHead, and Take (load the tail    *)
(* and head->next, then return empty, help the tail, retry, or CAS the    *)
(* head); the loads folded into Take are validated by the CAS of the head *)
(* that follows them.  The free stack of fev_simple_mpmc_stack.h is taken *)
(* as atomic.                                                              *)
(*                                                                         *)
(* Counts.  Every swap of a (pointer, count) pair increments the count,    *)
(* and a CAS compares the count with one loaded earlier from the same      *)
(* pair, so (with 64-bit counts that do not wrap) it succeeds if and only  *)
(* if the pair has not been swapped since that load.  The model keeps,     *)
(* with each loaded pointer, whether the pair has been swapped since       *)
(* (`cur`), in place of the counts.  The count of node->next is not kept:  *)
(* it is 0 exactly while the next is null (see PushLinkOk).                *)
(*                                                                         *)
(* The module has no Next of its own: the scheduler (Sched) composes these *)
(* steps into the loop of its workers.                                     *)
(***************************************************************************)
EXTENDS Naturals, Sequences, SequencesExt, FiniteSetsExt

CONSTANTS Workers, Values, NoValue, Nodes, Null, LocalPoolSize

\* A loaded pointer: the node, and whether its pair is unswapped since.
NoLoad == [ptr |-> Null, cur |-> FALSE]

VARIABLES
    head, tail, \* queue->head.ptr and queue->tail.ptr
    nval,       \* node->value
    nnext,      \* node->next.ptr
    lpool,      \* each worker's pool_local, top first
    gpool,      \* pool_global's free stack, top first
    fresh,      \* nodes never allocated yet
    lhead,      \* each popper's loaded head
    ltail,      \* each pusher's tail, loaded when its node was linked
    pnode       \* each pusher's node

qvars == <<head, tail, nval, nnext, lpool, gpool, fresh, lhead, ltail, pnode>>

\* Before fev_sched_init(): no queue yet (head and tail null), an empty
\* free stack (fev_simple_mpmc_pool_init_global()), no node allocated.
QStart ==
    /\ head = Null /\ tail = Null
    /\ nval = [n \in Nodes |-> NoValue]
    /\ nnext = [n \in Nodes |-> Null]
    /\ fresh = Nodes
    /\ lpool = [w \in Workers |-> <<>>]
    /\ gpool = <<>>
    /\ lhead = [w \in Workers |-> NoLoad]
    /\ ltail = [w \in Workers |-> NoLoad]
    /\ pnode = [w \in Workers |-> Null]

\* fev_simple_mpmc_pool_alloc_global() before any node is freed: the free
\* stack is empty, so a newly allocated node.
NewNode == CHOOSE n \in fresh : TRUE

\* fev_simple_mpmc_queue_init() with a new node as the dummy: its next
\* null, its value null, head and tail at it.
QueueInit ==
    /\ gpool = <<>> /\ fresh # {}
    /\ head' = NewNode /\ tail' = NewNode
    /\ fresh' = fresh \ {NewNode}
    /\ UNCHANGED <<nval, nnext, lpool, gpool, lhead, ltail, pnode>>

\* fev_sched_put() before fev_sched_run(): a new node from the global pool,
\* pushed alone, so link and swing both succeed at once.
PutNode(v) ==
    /\ gpool = <<>> /\ fresh # {}
    /\ nval' = [nval EXCEPT ![NewNode] = v]
    /\ nnext' = [nnext EXCEPT ![tail] = NewNode, ![NewNode] = Null]
    /\ tail' = NewNode
    /\ fresh' = fresh \ {NewNode}
    /\ UNCHANGED <<head, lpool, gpool, lhead, ltail, pnode>>

\* A swap of queue->tail to n: every earlier load of it is out of date.
SwapTail(n) ==
    /\ tail' = n
    /\ ltail' = [v \in Workers |-> [ltail[v] EXCEPT !.cur = FALSE]]

\* fev_simple_mpmc_stack_push() and fev_simple_mpmc_stack_pop(): top and
\* count are swapped by one counted CAS (push counts too), so each takes
\* effect at once and a retried CAS repeats its loads.
StackPush(s, n) == <<n>> \o s
StackPop(s) == Tail(s)

\* fev_simple_mpmc_pool_alloc_local(): the top of the local cache, else
\* fev_simple_mpmc_pool_alloc_global(): the top of the free stack, else a
\* newly allocated node (any address not in use: the fresh nodes are alike).
AllocNode(w) ==
    CASE lpool[w] # <<>> -> Head(lpool[w])
      [] gpool # <<>>    -> Head(gpool)
      [] OTHER           -> CHOOSE n \in fresh : TRUE

AllocTake(w) ==
    CASE lpool[w] # <<>> -> lpool' = [lpool EXCEPT ![w] = Tail(@)] /\ UNCHANGED <<gpool, fresh>>
      [] gpool # <<>>    -> gpool' = StackPop(gpool) /\ UNCHANGED <<lpool, fresh>>
      [] OTHER           -> fresh' = fresh \ {AllocNode(w)} /\ UNCHANGED <<lpool, gpool>>

\* fev_simple_mpmc_pool_free_local(): onto the local cache, or onto the
\* global free stack when the cache holds LocalPoolSize nodes.
FreeLocal(w, n) ==
    IF Len(lpool[w]) = LocalPoolSize
      THEN gpool' = StackPush(gpool, n) /\ UNCHANGED lpool
      ELSE lpool' = [lpool EXCEPT ![w] = <<n>> \o @] /\ UNCHANGED gpool

\* The pusher's node: allocated (fev_push_one()) and given its value and a
\* null next on the first Link step of the push.
PushNode(w) == IF pnode[w] # Null THEN pnode[w] ELSE AllocNode(w)

PrepareNode(w, v) ==
    IF pnode[w] # Null
      THEN UNCHANGED <<nval, lpool, gpool, fresh>>
      ELSE /\ (fresh # {} \/ lpool[w] # <<>> \/ gpool # <<>>)
           /\ AllocTake(w)
           /\ nval' = [nval EXCEPT ![AllocNode(w)] = v]

\* Mutant: the node keeps the next pointer it had when it was last freed.
PushLoadTailKeepNext(w, v) ==
    LET n == PushNode(w) IN
    /\ PrepareNode(w, v)
    /\ nnext' = nnext
    /\ ltail' = [ltail EXCEPT ![w] = [ptr |-> tail, cur |-> TRUE]]
    /\ pnode' = [pnode EXCEPT ![w] = n]
    /\ UNCHANGED <<head, tail, lhead>>

\* fev_simple_mpmc_queue_push(), load_tail: load queue->tail (the node is
\* allocated and prepared first, on the push's first step).
PushLoadTail(w, v) ==
    LET n == PushNode(w) IN
    /\ PrepareNode(w, v)
    /\ nnext' = IF pnode[w] # Null THEN nnext ELSE [nnext EXCEPT ![n] = Null]
    /\ ltail' = [ltail EXCEPT ![w] = [ptr |-> tail, cur |-> TRUE]]
    /\ pnode' = [pnode EXCEPT ![w] = n]
    /\ UNCHANGED <<head, tail, lhead>>

\* load_next: load tail->next, then reload the count of queue->tail.  The
\* tail swapped since load_tail: back to load_tail.
PushNextStale(w) ==
    /\ ~ltail[w].cur
    /\ UNCHANGED qvars

\* The tail is current but has a next: CAS the tail forward (it succeeds,
\* the tail being current) and start over from a fresh tail.
PushHelp(w) ==
    LET t == ltail[w].ptr IN
    /\ ltail[w].cur /\ nnext[t] # Null
    /\ SwapTail(nnext[t])
    /\ UNCHANGED <<head, nval, nnext, lpool, gpool, fresh, lhead, pnode>>

\* The tail is current and its next is null: go on to the CAS of
\* tail->next, expecting (null, count) with the count just loaded.
PushNextNull(w) ==
    /\ ltail[w].cur /\ nnext[ltail[w].ptr] = Null
    /\ UNCHANGED qvars

\* The CAS of tail->next from (null, count) to (node, count + 1).  The
\* pair of a node's next is (null, 0) when fev_simple_mpmc_queue_push()
\* prepares it and (x, 1) once a node is linked after it, and nothing
\* else writes it; so the CAS succeeds exactly when the next is null now,
\* whether or not the node loaded at load_tail is still the tail, or has
\* been popped, freed and prepared again by another push meanwhile.  On
\* failure the push goes back to load_tail.
PushLinkOk(w) ==
    nnext[ltail[w].ptr] = Null

PushLink(w) ==
    IF PushLinkOk(w)
      THEN /\ nnext' = [nnext EXCEPT ![ltail[w].ptr] = pnode[w]]
           /\ UNCHANGED <<head, tail, nval, lpool, gpool, fresh, lhead, ltail, pnode>>
      ELSE /\ ltail' = [ltail EXCEPT ![w] = NoLoad]
           /\ UNCHANGED <<head, tail, nval, nnext, lpool, gpool, fresh, lhead, pnode>>

\* The last CAS of the push: the tail from the loaded one to the node; it
\* fails, and is ignored, when another thread has swapped the tail since.
PushSwing(w) ==
    LET swapped == [v \in Workers |-> [ltail[v] EXCEPT !.cur = FALSE]] IN
    /\ tail' = IF ltail[w].cur THEN pnode[w] ELSE tail
    /\ ltail' = [(IF ltail[w].cur THEN swapped ELSE ltail) EXCEPT ![w] = NoLoad]
    /\ pnode' = [pnode EXCEPT ![w] = Null]
    /\ UNCHANGED <<head, nval, nnext, lpool, gpool, fresh, lhead>>

\* fev_simple_mpmc_queue_pop(), load_head.
LoadHead(w) ==
    /\ lhead' = [lhead EXCEPT ![w] = [ptr |-> head, cur |-> TRUE]]
    /\ UNCHANGED <<head, tail, nval, nnext, lpool, gpool, fresh, ltail, pnode>>

\* load_tail: with the loaded head h, next = h.ptr->next.ptr.
TakeNext(w) == nnext[lhead[w].ptr]

\* The head is the tail and has no next: return false.
PopEmpty(w) ==
    /\ lhead[w].ptr = tail /\ TakeNext(w) = Null
    /\ lhead' = [lhead EXCEPT ![w] = NoLoad]
    /\ UNCHANGED <<head, tail, nval, nnext, lpool, gpool, fresh, ltail, pnode>>

\* The head is the tail but has a next: CAS the tail forward and go back to
\* load_head; or the head is not the tail and its next is null (the head
\* was stale): go back to load_head.
PopRetry(w) ==
    /\ TakeNext(w) # Null \/ lhead[w].ptr # tail
    /\ IF lhead[w].ptr = tail
         THEN SwapTail(TakeNext(w))
         ELSE TakeNext(w) = Null /\ UNCHANGED <<tail, ltail>>
    /\ lhead' = [lhead EXCEPT ![w] = NoLoad]
    /\ UNCHANGED <<head, nval, nnext, lpool, gpool, fresh, pnode>>

\* The CAS of the head fails: the current head becomes the loaded one and
\* the pop goes back to load_tail.
PopCasFail(w) ==
    /\ lhead[w].ptr # tail /\ TakeNext(w) # Null
    /\ ~lhead[w].cur
    /\ lhead' = [lhead EXCEPT ![w] = [ptr |-> head, cur |-> TRUE]]
    /\ UNCHANGED <<head, tail, nval, nnext, lpool, gpool, fresh, ltail, pnode>>

\* The value of next is read and the head CASed to next; the old head (the
\* dummy) is returned as freed_node, and fev_sched_work() puts it in the
\* worker's pool (fev_simple_mpmc_pool_free_local()).  The value left in
\* the new dummy is never read again, and the model forgets it.
PopHit(w) ==
    /\ lhead[w].ptr # tail /\ TakeNext(w) # Null
    /\ lhead[w].cur
    /\ head' = TakeNext(w)
    /\ lhead' = [v \in Workers |-> IF v = w THEN NoLoad ELSE [lhead[v] EXCEPT !.cur = FALSE]]
    /\ FreeLocal(w, head)
    /\ nval' = [nval EXCEPT ![TakeNext(w)] = NoValue]
    /\ UNCHANGED <<tail, nnext, fresh, ltail, pnode>>

Popped(w) == nval[TakeNext(w)]

-----------------------------------------------------------------------------

\* The nodes after the dummy, following next pointers (at most |Nodes|).
RECURSIVE ChainFrom(_, _)
ChainFrom(n, k) ==
    IF k = 0 \/ nnext[n] = Null THEN <<>>
    ELSE <<nnext[n]>> \o ChainFrom(nnext[n], k - 1)

Chain == IF head = Null THEN <<>> ELSE ChainFrom(head, Cardinality(Nodes))

\* The values queued, in order.
Contents == [i \in 1..Len(Chain) |-> nval[Chain[i]]]

FreeNodes == fresh \cup ToSet(gpool) \cup UNION {ToSet(lpool[w]) : w \in Workers}

\* The values on the nodes hanging after the node n, which is not linked.
Hanging(n) == [i \in 1..Len(ChainFrom(n, Cardinality(Nodes))) |->
                  nval[ChainFrom(n, Cardinality(Nodes))[i]]]

\* With U the pushers' nodes that are not linked yet: the list from the
\* head is acyclic and ends in null, the tail is on it, and no node on it,
\* being pushed, or hanging after one being pushed, is free in a pool.
WellFormed(U) ==
    LET InUse == {head} \cup ToSet(Chain) \cup U
                   \cup UNION {ToSet(ChainFrom(n, Cardinality(Nodes))) : n \in U}
    IN
    head # Null =>
    /\ IsInjective(<<head>> \o Chain)
    /\ nnext[IF Chain = <<>> THEN head ELSE Last(Chain)] = Null
    /\ tail \in {head} \cup ToSet(Chain)
    /\ FreeNodes \cap InUse = {}
    /\ IsInjective(gpool) /\ \A w \in Workers : IsInjective(lpool[w])

QTypeOK ==
    /\ head \in Nodes \cup {Null} /\ tail \in Nodes \cup {Null}
    /\ nval \in [Nodes -> Values \cup {NoValue}]
    /\ nnext \in [Nodes -> Nodes \cup {Null}]
    /\ lpool \in [Workers -> Seq(Nodes)] /\ gpool \in Seq(Nodes) /\ fresh \subseteq Nodes
    /\ \A w \in Workers : Len(lpool[w]) <= LocalPoolSize
    /\ lhead \in [Workers -> [ptr : Nodes \cup {Null}, cur : BOOLEAN]]
    /\ ltail \in [Workers -> [ptr : Nodes \cup {Null}, cur : BOOLEAN]]
    /\ pnode \in [Workers -> Nodes \cup {Null}]

=============================================================================
