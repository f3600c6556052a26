------------------------------- MODULE MsQueue -------------------------------
(***************************************************************************)
(* The run queue of the shr_simple_mpmc scheduler (SimpleMpmcQueue) on its *)
(* own, under the two operations the workers of fev_sched_work() apply to  *)
(* it: fev_push_one() (a fiber made runnable: allocate a node from the     *)
(* worker's pool, push) and the pop at get_fiber (pop, and free the old    *)
(* dummy into the worker's pool).  Each push carries a fiber of its own    *)
(* (1..NumPushes), so that a fiber pushed and not popped can be looked for *)
(* in the queue.  Every worker may do either at any time, as in the        *)
(* scheduler, where a fiber running on any worker may wake another.        *)
(***************************************************************************)
EXTENDS Naturals, Sequences, SequencesExt

CONSTANTS Workers, Nodes, Null, NumPushes, LocalPoolSize

VARIABLES head, tail, nval, nnext, lpool, gpool, fresh, lhead, ltail, pnode,
          pc,       \* each worker's place in its push or pop
          pushing,  \* the fiber each worker is pushing
          started,  \* the number of pushes started
          pushed,   \* the fibers whose push has returned
          popped    \* the fibers popped

Q == INSTANCE SimpleMpmcQueue WITH Values <- 1..NumPushes, NoValue <- 0

qvars == <<head, tail, nval, nnext, lpool, gpool, fresh, lhead, ltail, pnode>>
tvars == <<pushing, started, pushed, popped>>
vars == <<qvars, pc, tvars>>

Dummy == CHOOSE n \in Nodes : TRUE

\* fev_sched_init(): the queue is made with its dummy node before any
\* worker runs.
Init ==
    /\ head = Dummy /\ tail = Dummy /\ fresh = Nodes \ {Dummy}
    /\ nval = [n \in Nodes |-> 0] /\ nnext = [n \in Nodes |-> Null]
    /\ lpool = [w \in Workers |-> <<>>] /\ gpool = <<>>
    /\ lhead = [w \in Workers |-> Q!NoLoad] /\ ltail = [w \in Workers |-> Q!NoLoad]
    /\ pnode = [w \in Workers |-> Null]
    /\ pc = [w \in Workers |-> "idle"]
    /\ pushing = [w \in Workers |-> 0]
    /\ started = 0 /\ pushed = {} /\ popped = {}

\* fev_push_one(): a new fiber becomes runnable on worker w.
StartPush(w) ==
    /\ pc[w] = "idle" /\ started < NumPushes
    /\ started' = started + 1
    /\ pushing' = [pushing EXCEPT ![w] = started + 1]
    /\ pc' = [pc EXCEPT ![w] = "load_tail"]
    /\ UNCHANGED <<qvars, pushed, popped>>

LoadTail(w) ==
    /\ pc[w] = "load_tail"
    /\ Q!PushLoadTail(w, pushing[w])
    /\ pc' = [pc EXCEPT ![w] = "load_next"]
    /\ UNCHANGED tvars

LoadNext(w) ==
    /\ pc[w] = "load_next"
    /\ \/ Q!PushNextStale(w) /\ pc' = [pc EXCEPT ![w] = "load_tail"]
       \/ Q!PushHelp(w) /\ pc' = [pc EXCEPT ![w] = "load_tail"]
       \/ Q!PushNextNull(w) /\ pc' = [pc EXCEPT ![w] = "link"]
    /\ UNCHANGED tvars

Link(w) ==
    /\ pc[w] = "link"
    /\ Q!PushLink(w)
    /\ pc' = [pc EXCEPT ![w] = IF Q!PushLinkOk(w) THEN "swing" ELSE "load_tail"]
    /\ UNCHANGED tvars

\* The last step of the push: fev_push_one() returns.
Swing(w) ==
    /\ pc[w] = "swing"
    /\ Q!PushSwing(w)
    /\ pushed' = pushed \cup {pushing[w]}
    /\ pc' = [pc EXCEPT ![w] = "idle"]
    /\ UNCHANGED <<pushing, started, popped>>

\* get_fiber: fev_simple_mpmc_queue_pop().
StartPop(w) ==
    /\ pc[w] = "idle"
    /\ Q!LoadHead(w)
    /\ pc' = [pc EXCEPT ![w] = "pop"]
    /\ UNCHANGED tvars

Pop(w) ==
    /\ pc[w] = "pop"
    /\ \/ (Q!PopEmpty(w) \/ Q!PopRetry(w)) /\ pc' = [pc EXCEPT ![w] = "idle"]
                                           /\ UNCHANGED popped
       \/ Q!PopCasFail(w) /\ UNCHANGED <<pc, popped>>
       \/ Q!PopHit(w) /\ popped' = popped \cup {Q!Popped(w)}
                      /\ pc' = [pc EXCEPT ![w] = "idle"]
    /\ UNCHANGED <<pushing, started, pushed>>

Next ==
    \E w \in Workers :
        \/ StartPush(w) \/ LoadTail(w) \/ LoadNext(w) \/ Link(w) \/ Swing(w)
        \/ StartPop(w) \/ Pop(w)

Spec == Init /\ [][Next]_vars

-----------------------------------------------------------------------------

TypeOK ==
    /\ Q!QTypeOK
    /\ pc \in [Workers -> {"idle", "load_tail", "load_next", "link", "swing", "pop"}]
    /\ pushing \in [Workers -> 0..NumPushes]
    /\ started \in 0..NumPushes
    /\ pushed \subseteq 1..NumPushes /\ popped \subseteq 1..NumPushes

\* A push is linearizable: once fev_simple_mpmc_queue_push() has returned,
\* its fiber is in the queue from the head until it is popped, so that a
\* worker's pop at get_fiber finds it.  Broken when the CAS of tail->next
\* links the node after a node that was popped and freed since the tail
\* was loaded, and has been given a null next again by another push.
PushedVisible ==
    \A f \in pushed \ popped : f \in ToSet(Q!Contents)

=============================================================================
