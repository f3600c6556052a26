-------------------------------- MODULE Sem ---------------------------------
(***************************************************************************)
(* The fiber semaphore of libfev (fev_sem.c) on top of its waiters queue   *)
(* (fev_waiters_queue_impl.h), composed with the queue's ilock: the lock   *)
(* is the ILock module instantiated on the semaphore's fibers, so every    *)
(* fev_ilock_lock() and fev_ilock_unlock_and_wake() around a section runs  *)
(* the fast and slow paths of the ilock step by step, and the section      *)
(* itself, run while the fiber holds the ilock, is one step.  The waiter   *)
(* handshake is abstracted to its outcome (Waiter checks it): a parked     *)
(* fiber whose reason is set runs again.  Timers of timed waits may fire   *)
(* at any time while the reason is unset.                                  *)
(*                                                                         *)
(* Each of the Waiters calls fev_sem_wait() once (those in TimedWaiters    *)
(* fev_sem_wait_until()); each of the Posters calls fev_sem_post() once.   *)
(***************************************************************************)
EXTENDS Integers, Sequences, SequencesExt, FiniteSets

CONSTANTS
    Waiters, TimedWaiters, Posters,
    InitValue,      \* the value passed to fev_sem_create()
    NoFiber,        \* NULL
    Kinds           \* the ilock's inner lock strategies (InnerLock)

ASSUME /\ TimedWaiters \subseteq Waiters
       /\ Waiters \cap Posters = {}
       /\ NoFiber \notin Waiters \cup Posters
       /\ InitValue \in Nat

Fibers == Waiters \cup Posters

NONE == "NONE"
READY == "READY"
TimedOut == {"TIMED_OUT_CHECK", "TIMED_OUT_NO_CHECK"}

VARIABLES
    value,      \* sem->value
    wq,         \* sem->wq.nodes, the fibers whose node is linked
    reason,     \* node.waiter.reason of each fiber's current node
    deleted,    \* node.deleted
    pc,
    res,        \* the result of fev_timed_wait()
    grants,     \* history: units handed out, by the recheck or by a post
    lstate, linner, lwaiters, lpc, lnext, lnrf, \* sem->wq.lock, see ILock
    lkind, lword, lipc, liwake

svars == <<value, wq, reason, deleted, pc, res, grants>>
ilock == <<lstate, linner, lwaiters, lpc, lnext, lnrf, lkind, lword, lipc, liwake>>
vars == <<svars, ilock>>

L == INSTANCE ILock WITH state <- lstate, inner <- linner, waiters <- lwaiters,
                          pc <- lpc, next <- lnext, num_run_fibers <- lnrf,
                          kind <- lkind, word <- lword, ipc <- lipc, iwake <- liwake

Init ==
    /\ value = InitValue                    \* fev_sem_init()
    /\ wq = <<>>
    /\ reason = [f \in Fibers |-> NONE]
    /\ deleted = [f \in Fibers |-> TRUE]
    /\ pc = [f \in Fibers |-> IF f \in Waiters THEN "recheck" ELSE "post"]
    /\ res = [f \in Fibers |-> "ETIMEDOUT"]
    /\ grants = 0
    /\ L!Init

Goto(f, to) == pc' = [pc EXCEPT ![f] = to]

-----------------------------------------------------------------------------
(* fev_sem_wait() and fev_sem_wait_until().                                *)

\* Mutant: the recheck takes a unit when the value is 0.
WaitRecheckGe0(f) ==
    /\ pc[f] = "recheck"
    /\ IF value >= 0
         THEN /\ value' = value - 1
              /\ grants' = grants + 1
              /\ Goto(f, "done")
              /\ UNCHANGED <<wq, deleted>>
         ELSE /\ wq' = Append(wq, f)
              /\ deleted' = [deleted EXCEPT ![f] = FALSE]
              /\ Goto(f, "parked")
              /\ UNCHANGED <<value, grants>>
    /\ reason' = [reason EXCEPT ![f] = NONE]
    /\ UNCHANGED res

\* fev_waiters_queue_wait() under the ilock with fev_sem_wait_recheck(): take
\* a unit if there is one and do not wait, else link the node.
WaitRecheck(f) ==
    /\ pc[f] = "recheck"
    /\ IF value > 0
         THEN /\ value' = value - 1
              /\ grants' = grants + 1
              /\ Goto(f, "done")
              /\ UNCHANGED <<wq, deleted>>
         ELSE /\ wq' = Append(wq, f)
              /\ deleted' = [deleted EXCEPT ![f] = FALSE]
              /\ Goto(f, "parked")
              /\ UNCHANGED <<value, grants>>
    /\ reason' = [reason EXCEPT ![f] = NONE]
    /\ UNCHANGED res

\* fev_waiter_wait() (untimed, whose reason can only be READY) or
\* fev_timed_wait() returns once the reason is set.
WaitResume(f) ==
    /\ pc[f] = "parked"
    /\ reason[f] # NONE
    /\ IF reason[f] = READY
         THEN Goto(f, "done") /\ UNCHANGED res
         ELSE /\ Goto(f, "not_ready")
              /\ \E r \in IF reason[f] = "TIMED_OUT_NO_CHECK" THEN {"ETIMEDOUT"}
                          ELSE {"ETIMEDOUT", "EAGAIN"} :
                    res' = [res EXCEPT ![f] = r]
    /\ UNCHANGED <<value, wq, reason, deleted, grants>>

\* not_ready: unlink the node unless a post did; fev_sem_wait_until()
\* waits again after -EAGAIN and returns -ETIMEDOUT.
WaitNotReady(f) ==
    /\ pc[f] = "not_ready"
    /\ wq' = IF deleted[f] THEN wq ELSE Remove(wq, f)
    /\ Goto(f, IF res[f] = "EAGAIN" THEN "again" ELSE "timed_out")
    /\ UNCHANGED <<value, reason, deleted, res, grants>>

\* The do-while loop of fev_sem_wait_until() calls fev_waiters_queue_wait()
\* again once the ilock is released.
Again(f) ==
    /\ pc[f] = "again"
    /\ Goto(f, "recheck")
    /\ UNCHANGED <<value, wq, reason, deleted, res, grants>>

\* Mutant: the timer overwrites a reason that is already set (a store in
\* place of the CAS of fev_waiter_wake()).
TimeoutNoCas(f) ==
    /\ pc[f] = "parked"
    /\ f \in TimedWaiters
    /\ \E r \in TimedOut : reason' = [reason EXCEPT ![f] = r]
    /\ UNCHANGED <<value, wq, deleted, pc, res, grants>>

\* A timer of a timed wait fires (fev_timers_wake_expired()).
Timeout(f) ==
    /\ pc[f] = "parked"
    /\ f \in TimedWaiters
    /\ reason[f] = NONE
    /\ \E r \in TimedOut : reason' = [reason EXCEPT ![f] = r]
    /\ UNCHANGED <<value, wq, deleted, pc, res, grants>>

-----------------------------------------------------------------------------
(* fev_sem_post(): fev_waiters_queue_wake(wq, 1, fev_sem_post_callback).  *)

\* Mutant: only the head node is considered; a timed-out head makes the post
\* pop every node without waking any.
FirstLiveHead(q) == IF q # <<>> /\ reason[Head(q)] = NONE THEN 1 ELSE 0

\* The position of the first node whose reason a post can still set, or 0.
FirstLive(q) == SelectInSeq(q, LAMBDA g : reason[g] = NONE)

\* The nodes a post pops: up to the first live one, or all of them.
PostPopped(q) == IF FirstLive(q) = 0 THEN q ELSE SubSeq(q, 1, FirstLive(q))

\* Mutant: the callback ignores num_woken.
PostValueAlways(q) == value + 1

\* fev_sem_post_callback(): with no waiter woken the value goes up.
PostValue(q) == IF FirstLive(q) = 0 THEN value + 1 ELSE value

Post(f) ==
    /\ pc[f] = "post"
    /\ LET live == FirstLive(wq)
           popped == ToSet(PostPopped(wq))
       IN /\ wq' = SubSeq(wq, Len(PostPopped(wq)) + 1, Len(wq))
          /\ deleted' = [g \in Fibers |-> IF g \in popped THEN TRUE ELSE deleted[g]]
          /\ reason' = IF live = 0 THEN reason ELSE [reason EXCEPT ![wq[live]] = READY]
          /\ grants' = IF live = 0 THEN grants ELSE grants + 1
    /\ value' = PostValue(wq)
    /\ Goto(f, "done")
    /\ UNCHANGED res

-----------------------------------------------------------------------------

\* The ilock is idle for f (pc "idle" of ILock) or held by it ("cs").
LockFree(f) == lpc[f] = "idle"
LockHeld(f) == lpc[f] = "cs"

\* Where a fiber waits for the ilock to run the next section.
Acquiring == {"recheck", "not_ready", "post"}

\* ILock's pcs of fev_ilock_unlock_and_wake() (from "cs" back to "idle").
Releasing == {"cs", "slow_unlock", "dequeue", "unlock_inner2", "wake"}

\* f is in fev_ilock_lock() before a section or in
\* fev_ilock_unlock_and_wake() after one.
InLockCall(f) ==
    \/ pc[f] \in Acquiring /\ ~LockHeld(f)
    \/ pc[f] \notin Acquiring /\ lpc[f] \in Releasing

\* A step of the ilock code run by f.
LockStep(f) == InLockCall(f) /\ L!Step(f) /\ UNCHANGED svars
LockTakeInner(f) == InLockCall(f) /\ L!TakeInner(f) /\ UNCHANGED svars
LockContend(f) == InLockCall(f) /\ L!InnerContend(f) /\ UNCHANGED svars
LockWake(f) == L!InnerWake(f) /\ UNCHANGED svars
LockInterrupted(f) == L!InnerInterrupted(f) /\ UNCHANGED svars

\* A section run under the ilock.
Section(f) ==
    /\ LockHeld(f)
    /\ WaitRecheck(f) \/ WaitNotReady(f) \/ Post(f)
    /\ UNCHANGED ilock

\* A step of f outside the ilock: the wait returns, or the loop goes on.
Outside(f) ==
    /\ LockFree(f)
    /\ WaitResume(f) \/ Again(f)
    /\ UNCHANGED ilock

\* The timer is armed by fev_timed_wait() after the unlock.
TimerFires(f) == LockFree(f) /\ Timeout(f) /\ UNCHANGED ilock

\* Every call has returned, except untimed waits that no post is left to
\* end: those block for ever, as fev_sem_wait() does.
Terminated ==
    /\ \A f \in Fibers : LockFree(f) /\ ~L!WakePending(f)
    /\ \A f \in Fibers :
        \/ pc[f] \in {"done", "timed_out"}
        \/ pc[f] = "parked" /\ f \notin TimedWaiters /\ reason[f] = NONE

\* A step of f's thread, which first does any FUTEX_WAKE it owes.
Step(f) == ~L!WakePending(f) /\ (Section(f) \/ Outside(f) \/ LockStep(f))

Next ==
    \/ \E f \in Fibers : \/ Step(f) \/ LockTakeInner(f) \/ LockContend(f)
                        \/ TimerFires(f)
                        \/ LockWake(f) \/ LockInterrupted(f)
    \/ Terminated /\ UNCHANGED vars

\* Runnable fibers are eventually run, threads owing a FUTEX_WAKE make it,
\* and the fairness of ILock for the inner lock; timers need not fire.
Spec ==
    /\ Init /\ [][Next]_vars
    /\ \A f \in Fibers : /\ WF_vars(Step(f)) /\ WF_vars(LockWake(f))
                         /\ SF_vars(LockContend(f)) /\ SF_vars(LockTakeInner(f))

-----------------------------------------------------------------------------
(* Properties.                                                             *)

TypeOK ==
    /\ value \in Nat
    /\ wq \in Seq(Waiters)
    /\ reason \in [Fibers -> {NONE, READY} \cup TimedOut]
    /\ deleted \in [Fibers -> BOOLEAN]
    /\ pc \in [Fibers -> {"recheck", "parked", "not_ready", "again", "timed_out",
                          "post", "done"}]
    /\ res \in [Fibers -> {"ETIMEDOUT", "EAGAIN"}]
    /\ grants \in Nat
    /\ L!TypeOK

Posted == Cardinality({f \in Posters : pc[f] = "done"})

\* Units are conserved: every fev_sem_post() either raises the value or hands
\* its unit to one waiter (never both, never neither), whatever timed-out
\* nodes the post pops on the way, and every unit taken by a recheck lowers
\* the value.
SemConservation == value + grants = InitValue + Posted

\* Every unit handed out reaches exactly one waiter that returns 0: a waiter
\* that was given READY keeps it (a late timer cannot overwrite it) and
\* returns from fev_sem_wait*() with it.
GrantsMatchWaiters ==
    grants = Cardinality({w \in Waiters :
                             \/ pc[w] = "done"
                             \/ pc[w] = "parked" /\ reason[w] = READY})

\* No waiter is stranded: while the value is positive no fiber is parked
\* with its reason unset, so a post never raises the value while a live
\* waiter is queued behind timed-out nodes.
NoStrandedWaiter ==
    value > 0 => \A w \in Waiters : pc[w] = "parked" => reason[w] # NONE

\* At most one fiber owns sem->wq.lock, however the fast and slow paths of
\* fev_ilock_lock() and fev_ilock_unlock() of waiters and posters
\* interleave, so the sections above are mutually exclusive.
LockMutualExclusion == L!MutualExclusion

\* The ilock of the waiters queue hands itself only to a fiber whose
\* context fev_ilock_lock_post() has saved (ILock).
LockHandedToSaved == L!HandedToSaved

\* The ilock implements ILockSpec: FIFO handoff, never free while fibers
\* are queued on it.
LockRefinesILockSpec == L!RefinesILockSpec

\* A fiber that enters fev_ilock_lock_slow() owns the lock in the end.
LockSlowLockerAcquires == L!SlowLockerAcquires

\* With the futex mutex as the ilock's inner lock, no worker thread is left
\* asleep in fev_futex_wait() while every holder has unlocked without a
\* wake: the 2 of fev_thr_mutex_lock_slow() and the FUTEX_WAKE of
\* fev_thr_mutex_unlock() always cover a sleeper.
LockInnerNoLostWakeup == L!InnerNoLostWakeup

=============================================================================
