------------------------------ MODULE MutexCond ------------------------------
(***************************************************************************)
(* The fiber mutex and condition variable of libfev (fev_mutex.c,          *)
(* fev_cond.c) on top of their waiters queues (fev_waiters_queue_impl.h).  *)
(*                                                                         *)
(* Every section a waiters-queue function runs under its ilock is one      *)
(* step (ILock checks that the ilock is a mutual-exclusion lock).  The     *)
(* waiter handshake is abstracted to its outcome (Waiter checks it): a     *)
(* successful fev_waiter_wake() sets `reason` of the node, and a parked    *)
(* fiber whose reason is set runs again.  A timer of a timed wait may fire *)
(* at any time while the fiber is queued and its reason is unset.          *)
(*                                                                         *)
(* The fibers: each of the Lockers locks and unlocks once (those in       *)
(* TimedLockers with fev_mutex_try_lock_until(), giving up on timeout);   *)
(* the Producer locks, sets the shared                                      *)
(* flag, notifies and unlocks; each Consumer locks and waits on the        *)
(* condition until the flag is set, as condition_variable::wait(lock,      *)
(* pred) or, if CondTimed, wait_until(lock, abs_time, pred) of fev++.hpp   *)
(* does, then unlocks.  Without CppWrapper a timed consumer is a C caller  *)
(* that treats -ETIMEDOUT of fev_cond_wait_until() as "mutex not held" and *)
(* stops without unlocking.                                                *)
(***************************************************************************)
EXTENDS Naturals, Sequences, SequencesExt, FiniteSets

CONSTANTS
    Lockers, TimedLockers, Producer, Consumers,
    CondTimed,      \* consumers use wait_until instead of wait
    NotifyAll,      \* the producer calls notify_all instead of notify_one
    CppWrapper,     \* consumers use fev++.hpp rather than the C functions
    AddCanFail      \* FEV_TIMERS_ADD_CAN_FAIL: the binary-heap bucket built
                    \* without FEV_ASSUME_MALLOC_NEVER_FAILS

Fibers == Lockers \cup {Producer} \cup Consumers

ASSUME /\ TimedLockers \subseteq Lockers
       /\ Producer \notin Lockers \cup Consumers
       /\ Lockers \cap Consumers = {}
       /\ CondTimed \in BOOLEAN /\ NotifyAll \in BOOLEAN
       /\ CppWrapper \in BOOLEAN /\ AddCanFail \in BOOLEAN

NONE == "NONE"
READY == "READY"
TimedOut == {"TIMED_OUT_CHECK", "TIMED_OUT_NO_CHECK"}

VARIABLES
    mstate,     \* mutex->state: 0 unlocked, 1 locked, 2 locked with waiters
    mq,         \* mutex->wq.nodes, the fibers whose node is linked
    cq,         \* cond->wq.nodes
    reason,     \* node.waiter.reason of each fiber's current node
    deleted,    \* node.deleted
    flag,       \* the predicate shared by producer and consumers
    pc,
    ok, fail,   \* where the lock subroutine returns on success / on timeout
    timed,      \* the lock subroutine is fev_mutex_try_lock_until()
    res,        \* the result of fev_timed_wait(): "ETIMEDOUT", "EAGAIN" or
                \* "ENOMEM"
    holders     \* history: the fibers that acquired the mutex and have not
                \* released it yet

vars == <<mstate, mq, cq, reason, deleted, flag, pc, ok, fail, timed, res,
          holders>>

StartPC(f) == IF f \in Lockers THEN "l_start"
              ELSE IF f = Producer THEN "p_start" ELSE "c_start"

Init ==
    /\ mstate = 0                         \* fev_mutex_init()
    /\ mq = <<>> /\ cq = <<>>
    /\ reason = [f \in Fibers |-> NONE]
    /\ deleted = [f \in Fibers |-> TRUE]
    /\ flag = FALSE
    /\ pc = [f \in Fibers |-> StartPC(f)]
    /\ ok = [f \in Fibers |-> "l_start"]
    /\ fail = [f \in Fibers |-> "l_start"]
    /\ timed = [f \in Fibers |-> FALSE]
    /\ res = [f \in Fibers |-> "ETIMEDOUT"]
    /\ holders = {}

Goto(f, to) == pc' = [pc EXCEPT ![f] = to]

\* Enter the lock subroutine, returning to `okpc` with the mutex or, for a
\* timed lock, to `failpc` on -ETIMEDOUT.
CallLock(f, isTimed, okpc, failpc) ==
    /\ Goto(f, "lock")
    /\ ok' = [ok EXCEPT ![f] = okpc]
    /\ fail' = [fail EXCEPT ![f] = failpc]
    /\ timed' = [timed EXCEPT ![f] = isTimed]

\* The nodes popped by fev_waiters_queue_wake(queue, max, ...): the loop
\* stops after `max` successful fev_waiter_wake() calls or when the queue
\* is empty; a node whose reason is already set (a timed-out waiter) is
\* popped and marked deleted but not counted.
RECURSIVE PopCount(_, _)
PopCount(q, max) ==
    IF q = <<>> \/ max = 0 THEN 0
    ELSE 1 + PopCount(Tail(q), IF reason[Head(q)] = NONE THEN max - 1 ELSE max)

Popped(q, max) == SubSeq(q, 1, PopCount(q, max))
Woken(q, max) == {g \in ToSet(Popped(q, max)) : reason[g] = NONE}

-----------------------------------------------------------------------------
(* fev_mutex_unlock(): the CAS 1 -> 0, else fev_waiters_queue_wake(wq, 1,  *)
(* fev_mutex_unlock_callback).  The primed values are also used by the     *)
(* recheck of fev_cond_wait(), which unlocks the mutex.                    *)

USlow == mstate # 1
UWoken == IF USlow THEN Woken(mq, 1) ELSE {}
URest == SubSeq(mq, PopCount(mq, 1) + 1, Len(mq))
\* Mutant: the callback stores 0 instead of 1 when the woken waiter was the
\* last one.
UMstateEmptyZero == IF ~USlow \/ UWoken = {} \/ URest = <<>> THEN 0 ELSE mstate
UMstate == IF ~USlow \/ UWoken = {} THEN 0
           ELSE IF URest = <<>> THEN 1 ELSE mstate
UMq == IF USlow THEN URest ELSE mq
UReason == [g \in Fibers |-> IF g \in UWoken THEN READY ELSE reason[g]]
UDeleted == [g \in Fibers |-> IF USlow /\ g \in ToSet(Popped(mq, 1)) THEN TRUE
                              ELSE deleted[g]]
\* The unlocker gives the mutex up; a woken waiter gets it (handoff).
UHolders(f) == (holders \ {f}) \cup UWoken

AfterUnlock(f) == IF f \in Lockers THEN "l_done"
                  ELSE IF f = Producer THEN "p_done" ELSE "c_done"

MutexUnlock(f) ==
    /\ pc[f] = "unlock"
    /\ mstate' = UMstate
    /\ mq' = UMq
    /\ reason' = UReason
    /\ deleted' = UDeleted
    /\ holders' = UHolders(f)
    /\ Goto(f, AfterUnlock(f))
    /\ UNCHANGED <<cq, flag, ok, fail, timed, res>>

-----------------------------------------------------------------------------
(* fev_mutex_lock() and fev_mutex_try_lock_until().                        *)

\* fev_mutex_try_lock(): CAS 0 -> 1.
MutexTryLock(f) ==
    /\ pc[f] = "lock"
    /\ IF mstate = 0
         THEN /\ mstate' = 1
              /\ holders' = holders \cup {f}
              /\ Goto(f, ok[f])
         ELSE /\ Goto(f, "m_recheck")
              /\ UNCHANGED <<mstate, holders>>
    /\ UNCHANGED <<mq, cq, reason, deleted, flag, ok, fail, timed, res>>

\* Mutant: atomic_fetch_add of 1 in place of the exchange to 2.
MutexRecheckAdd(f) ==
    /\ pc[f] = "m_recheck"
    /\ IF mstate = 0
         THEN /\ mstate' = 1
              /\ holders' = holders \cup {f}
              /\ Goto(f, ok[f])
              /\ UNCHANGED <<mq, deleted>>
         ELSE /\ mstate' = mstate + 1
              /\ mq' = Append(mq, f)
              /\ deleted' = [deleted EXCEPT ![f] = FALSE]
              /\ Goto(f, IF timed[f] THEN "m_timer" ELSE "m_parked")
              /\ UNCHANGED holders
    /\ reason' = [reason EXCEPT ![f] = NONE]
    /\ UNCHANGED <<cq, flag, ok, fail, timed, res>>

\* Mutant: the waiter is linked without marking the state 2.
MutexRecheckNoExchange(f) ==
    /\ pc[f] = "m_recheck"
    /\ IF mstate = 0
         THEN /\ mstate' = 1
              /\ holders' = holders \cup {f}
              /\ Goto(f, ok[f])
              /\ UNCHANGED <<mq, deleted>>
         ELSE /\ mq' = Append(mq, f)
              /\ deleted' = [deleted EXCEPT ![f] = FALSE]
              /\ Goto(f, IF timed[f] THEN "m_timer" ELSE "m_parked")
              /\ UNCHANGED <<mstate, holders>>
    /\ reason' = [reason EXCEPT ![f] = NONE]
    /\ UNCHANGED <<cq, flag, ok, fail, timed, res>>

\* fev_waiters_queue_wait(): prepare the node, take the ilock, run
\* fev_mutex_lock_recheck() (exchange the state to 2; if it was 0 store 1
\* and do not wait), else link the node and release the ilock.
MutexRecheck(f) ==
    /\ pc[f] = "m_recheck"
    /\ IF mstate = 0
         THEN /\ mstate' = 1
              /\ holders' = holders \cup {f}
              /\ Goto(f, ok[f])
              /\ UNCHANGED <<mq, deleted>>
         ELSE /\ mstate' = 2
              /\ mq' = Append(mq, f)
              /\ deleted' = [deleted EXCEPT ![f] = FALSE]
              /\ Goto(f, IF timed[f] THEN "m_timer" ELSE "m_parked")
              /\ UNCHANGED holders
    /\ reason' = [reason EXCEPT ![f] = NONE]
    /\ UNCHANGED <<cq, flag, ok, fail, timed, res>>

\* fev_timed_wait() of a linked node first adds its timer with
\* fev_timers_add(), after the queue's ilock is released, so a waker may
\* already have popped the node and set READY.  Where the add can fail it
\* returns -ENOMEM without waiting, and fev_waiters_queue_wait() takes the
\* not_ready path whatever the reason.
AddResults == IF AddCanFail THEN {"OK", "ENOMEM"} ELSE {"OK"}

TimedWaitAddTimer(f) ==
    /\ pc[f] \in {"m_timer", "c_timer"}
    /\ \E r \in AddResults :
         IF r = "OK"
           THEN /\ Goto(f, IF pc[f] = "m_timer" THEN "m_parked" ELSE "c_parked")
                /\ UNCHANGED res
           ELSE /\ Goto(f, IF pc[f] = "m_timer" THEN "m_notready" ELSE "c_notready")
                /\ res' = [res EXCEPT ![f] = "ENOMEM"]
    /\ UNCHANGED <<mstate, mq, cq, reason, deleted, flag, ok, fail, timed,
                   holders>>

\* The wait of a parked node ends once its reason is set.  READY means the
\* unlocker handed the mutex over; a timeout of fev_timed_wait() gives
\* -ETIMEDOUT, or -EAGAIN when the poller woke it (TIMED_OUT_CHECK) before
\* fev_timers_process() found the timer expired.
TimedWaitResult(f) ==
    IF reason[f] = "TIMED_OUT_NO_CHECK" THEN {"ETIMEDOUT"}
    ELSE {"ETIMEDOUT", "EAGAIN"}

MutexResume(f) ==
    /\ pc[f] = "m_parked"
    /\ reason[f] # NONE
    /\ IF reason[f] = READY
         THEN Goto(f, ok[f]) /\ UNCHANGED res
         ELSE /\ Goto(f, "m_notready")
              /\ \E r \in TimedWaitResult(f) : res' = [res EXCEPT ![f] = r]
    /\ UNCHANGED <<mstate, mq, cq, reason, deleted, flag, ok, fail, timed,
                   holders>>

\* fev_waiters_queue_wait() not_ready: unlink the node unless a waker did;
\* fev_mutex_try_lock_until_slow() retries on -EAGAIN.
MutexNotReady(f) ==
    /\ pc[f] = "m_notready"
    /\ mq' = IF deleted[f] THEN mq ELSE Remove(mq, f)
    /\ Goto(f, IF res[f] = "EAGAIN" THEN "m_recheck" ELSE fail[f])
    /\ UNCHANGED <<mstate, cq, reason, deleted, flag, ok, fail, timed, res,
                   holders>>

\* The timer of a timed wait fires: fev_waiter_wake() with a timeout
\* reason, which succeeds only if no reason is set yet.
Timeout(f) ==
    /\ \/ pc[f] = "m_parked" /\ timed[f]
       \/ pc[f] = "c_parked" /\ CondTimed
    /\ reason[f] = NONE
    /\ \E r \in TimedOut : reason' = [reason EXCEPT ![f] = r]
    /\ UNCHANGED <<mstate, mq, cq, deleted, flag, pc, ok, fail, timed, res,
                   holders>>

-----------------------------------------------------------------------------
(* fev_cond_wait() and fev_cond_wait_until() (fev_cond.c lines 57-81).     *)

\* fev_waiters_queue_wait(&cond->wq, ...) with fev_cond_wait_recheck():
\* under the condition's ilock the mutex is unlocked (fev_mutex_unlock())
\* and the node linked, so no notify can come between the two.
CondWait(f) ==
    /\ pc[f] = "c_wait"
    /\ mstate' = UMstate
    /\ mq' = UMq
    /\ reason' = [UReason EXCEPT ![f] = NONE]
    /\ deleted' = [UDeleted EXCEPT ![f] = FALSE]
    /\ holders' = UHolders(f)
    /\ cq' = Append(cq, f)
    /\ Goto(f, IF CondTimed THEN "c_timer" ELSE "c_parked")
    /\ UNCHANGED <<flag, ok, fail, timed, res>>

\* Mutant: a notified waiter returns without relocking the mutex.
CondResumeNoRelock(f) ==
    /\ pc[f] = "c_parked"
    /\ reason[f] # NONE
    /\ IF reason[f] = READY
         THEN /\ Goto(f, "c_check")
              /\ UNCHANGED <<ok, fail, timed, res>>
         ELSE /\ Goto(f, "c_notready")
              /\ \E r \in TimedWaitResult(f) : res' = [res EXCEPT ![f] = r]
              /\ UNCHANGED <<ok, fail, timed>>
    /\ UNCHANGED <<mstate, mq, cq, reason, deleted, flag, holders>>

\* Woken: fev_cond_wait() relocks with fev_mutex_lock(); fev_cond_wait_until()
\* with fev_mutex_try_lock_until() and returns its result.  On a timeout
\* fev_cond_wait_until() goes to the not_ready path of the waiters queue.
CondResume(f) ==
    /\ pc[f] = "c_parked"
    /\ reason[f] # NONE
    /\ IF reason[f] = READY
         THEN /\ CallLock(f, CondTimed, "c_check", "c_timedout")
              /\ UNCHANGED res
         ELSE /\ Goto(f, "c_notready")
              /\ \E r \in TimedWaitResult(f) : res' = [res EXCEPT ![f] = r]
              /\ UNCHANGED <<ok, fail, timed>>
    /\ UNCHANGED <<mstate, mq, cq, reason, deleted, flag, holders>>

\* Unlink the node unless notify did; fev_cond_wait_until() returns
\* -ETIMEDOUT and -ENOMEM as they are (lines 72-73) and relocks only after
\* -EAGAIN.
CondNotReady(f) ==
    /\ pc[f] = "c_notready"
    /\ cq' = IF deleted[f] THEN cq ELSE Remove(cq, f)
    /\ IF res[f] \in {"ETIMEDOUT", "ENOMEM"}
         THEN Goto(f, "c_timedout") /\ UNCHANGED <<ok, fail, timed>>
         ELSE CallLock(f, TRUE, "c_check", "c_timedout")
    /\ UNCHANGED <<mstate, mq, reason, deleted, flag, res, holders>>

\* fev_cond_notify_one() / fev_cond_notify_all(): fev_waiters_queue_wake()
\* with max 1 or UINT32_MAX and no callback.
\* Mutant: notify_all wakes a single waiter.
NotifyMaxOne == 1

NotifyMax == IF NotifyAll THEN Cardinality(Fibers) ELSE 1

CondNotify(f) ==
    /\ pc[f] = "p_notify"
    /\ LET woken == Woken(cq, NotifyMax)
           popped == ToSet(Popped(cq, NotifyMax))
       IN /\ cq' = SubSeq(cq, PopCount(cq, NotifyMax) + 1, Len(cq))
          /\ reason' = [g \in Fibers |-> IF g \in woken THEN READY ELSE reason[g]]
          /\ deleted' = [g \in Fibers |-> IF g \in popped THEN TRUE ELSE deleted[g]]
    /\ Goto(f, "unlock")
    /\ UNCHANGED <<mstate, mq, flag, ok, fail, timed, res, holders>>

-----------------------------------------------------------------------------
(* The fibers' programs.                                                   *)

LockerStart(f) ==
    /\ pc[f] = "l_start"
    /\ CallLock(f, f \in TimedLockers, "l_cs", "l_done")
    /\ UNCHANGED <<mstate, mq, cq, reason, deleted, flag, res, holders>>

LockerCs(f) ==
    /\ pc[f] = "l_cs"
    /\ Goto(f, "unlock")
    /\ UNCHANGED <<mstate, mq, cq, reason, deleted, flag, ok, fail, timed, res,
                   holders>>

ProducerStart(f) ==
    /\ pc[f] = "p_start"
    /\ CallLock(f, FALSE, "p_set", "p_start")
    /\ UNCHANGED <<mstate, mq, cq, reason, deleted, flag, res, holders>>

ProducerSet(f) ==
    /\ pc[f] = "p_set"
    /\ flag' = TRUE
    /\ Goto(f, "p_notify")
    /\ UNCHANGED <<mstate, mq, cq, reason, deleted, ok, fail, timed, res,
                   holders>>

ConsumerStart(f) ==
    /\ pc[f] = "c_start"
    /\ CallLock(f, FALSE, "c_check", "c_start")
    /\ UNCHANGED <<mstate, mq, cq, reason, deleted, flag, res, holders>>

\* The loop `while (!pred()) wait...(lock, ...)` of fev++.hpp.
ConsumerCheck(f) ==
    /\ pc[f] = "c_check"
    /\ Goto(f, IF flag THEN "unlock" ELSE "c_wait")
    /\ UNCHANGED <<mstate, mq, cq, reason, deleted, flag, ok, fail, timed, res,
                   holders>>

\* fev++.hpp wait_until(lock, abs_time) turns -ETIMEDOUT into
\* cv_status::timeout, on which wait_until(lock, abs_time, pred) returns
\* pred(); the caller's unique_lock then unlocks
\* the mutex it believes it owns.  A C caller stops without unlocking.
ConsumerTimedOut(f) ==
    /\ pc[f] = "c_timedout"
    /\ Goto(f, IF CppWrapper THEN "unlock" ELSE "c_done")
    /\ UNCHANGED <<mstate, mq, cq, reason, deleted, flag, ok, fail, timed, res,
                   holders>>

Terminated == \A f \in Fibers : pc[f] \in {"l_done", "p_done", "c_done"}

Done == Terminated /\ UNCHANGED vars

Step(f) ==
    \/ MutexTryLock(f) \/ MutexRecheck(f) \/ TimedWaitAddTimer(f)
    \/ MutexResume(f) \/ MutexNotReady(f)
    \/ MutexUnlock(f)
    \/ CondWait(f) \/ CondResume(f) \/ CondNotReady(f) \/ CondNotify(f)
    \/ LockerStart(f) \/ LockerCs(f) \/ ProducerStart(f) \/ ProducerSet(f)
    \/ ConsumerStart(f) \/ ConsumerCheck(f) \/ ConsumerTimedOut(f)

Next == (\E f \in Fibers : Step(f) \/ Timeout(f)) \/ Done

\* Fibers that can run are eventually run; timers need not fire.
Spec == Init /\ [][Next]_vars /\ \A f \in Fibers : WF_vars(Step(f))

-----------------------------------------------------------------------------
(* Properties.                                                             *)

PCs == {"l_start", "l_cs", "l_done", "p_start", "p_set", "p_notify", "p_done",
        "c_start", "c_check", "c_wait", "c_timer", "c_parked", "c_notready",
        "c_timedout", "c_done", "lock", "m_recheck", "m_timer", "m_parked",
        "m_notready", "unlock"}

TypeOK ==
    /\ mstate \in {0, 1, 2}
    /\ mq \in Seq(Fibers) /\ cq \in Seq(Fibers)
    /\ reason \in [Fibers -> {NONE, READY} \cup TimedOut]
    /\ deleted \in [Fibers -> BOOLEAN]
    /\ flag \in BOOLEAN
    /\ pc \in [Fibers -> PCs]
    /\ ok \in [Fibers -> PCs] /\ fail \in [Fibers -> PCs]
    /\ timed \in [Fibers -> BOOLEAN]
    /\ res \in [Fibers -> {"ETIMEDOUT", "EAGAIN", "ENOMEM"}]
    /\ holders \subseteq Fibers

\* Whatever mix of fast paths, rechecks, handoffs and timed-out waiters
\* leaving the queue, at most one fiber holds the mutex.
MutualExclusion == Cardinality(holders) <= 1

\* The mutex state agrees with its holders and its waiters: it is 0 exactly
\* when nobody holds it, and while a waiter that is not timed out is linked
\* the state is 2, so the holder's fev_mutex_unlock() takes the slow path
\* and wakes it (no waiter stranded behind a fast-path unlock).
MutexStateMatches ==
    /\ (mstate = 0) = (holders = {})
    /\ \A f \in ToSet(mq) : reason[f] = NONE => mstate = 2

\* The result of every lock call tells its caller whether it holds the
\* mutex.  A locker enters its critical section (fev_mutex_lock() or 0 from
\* fev_mutex_try_lock_until()), the producer sets the flag, and a consumer
\* evaluates its predicate (0 from fev_cond_wait_until(), or after
\* fev_cond_wait()) holding it; a locker that gave up and a consumer that
\* got -ETIMEDOUT or -ENOMEM, from the waiters queue or from the relocking
\* fev_mutex_try_lock_until(), hold nothing, and no unlocker handed the
\* mutex over to them.
LockResultMatchesMutex ==
    \A f \in Fibers :
        /\ pc[f] \in {"l_cs", "p_set", "c_check"} => f \in holders
        /\ pc[f] \in {"l_done", "c_timedout"} => f \notin holders

\* A notification is never lost: once the producer has set the flag and
\* notified, no consumer is still parked on the condition with its reason
\* unset (the recheck unlocks the mutex under the condition's ilock).
NotifyNotLost ==
    (flag /\ pc[Producer] \in {"unlock", "p_done"}) =>
        \A c \in Consumers : ~(pc[c] \in {"c_timer", "c_parked"} /\ reason[c] = NONE)

=============================================================================
