-------------------------------- MODULE ILock --------------------------------
(***************************************************************************)
(* The internal lock of libfev (fev_ilock_impl.h, fev_ilock.c), used by    *)
(* every waiters queue.  Fibers lock and unlock it in a loop.  `state` is  *)
(* 0 (unlocked), 1 (locked, no waiters) or 2 (locked, some waiters);       *)
(* `inner` is the spin lock (or thread mutex) guarding the FIFO `waiters`. *)
(* A fiber that queues itself switches to its worker, whose post-switch    *)
(* callback fev_ilock_lock_post() releases the inner lock; the unlocker    *)
(* hands the lock to the head of the queue and pushes it on a run queue.   *)
(***************************************************************************)
EXTENDS Naturals, Sequences, FiniteSets

CONSTANTS
    Fibers,     \* fibers using the lock
    NoFiber,    \* NULL
    Kinds       \* the inner lock strategies of the build (InnerLock)

ASSUME NoFiber \notin Fibers

VARIABLES
    state,          \* ilock->state
    inner,          \* holder of ilock->lock, or NoFiber
    kind, word, ipc, iwake, \* the rest of ilock->lock, see InnerLock
    waiters,        \* ilock->waiters, head first
    pc,             \* where each fiber is
    next,           \* the fiber returned by fev_ilock_unlock_slow(), per unlocker
    num_run_fibers  \* sched->num_run_fibers, restricted to these fibers

ivars == <<kind, word, ipc, iwake>>
vars == <<state, inner, ivars, waiters, pc, next, num_run_fibers>>

I == INSTANCE InnerLock WITH holder <- inner

Init ==
    /\ state = 0                    \* fev_ilock_init()
    /\ I!Init
    /\ waiters = <<>>
    /\ pc = [f \in Fibers |-> "idle"]
    /\ next = [f \in Fibers |-> NoFiber]
    /\ num_run_fibers = Cardinality(Fibers)

Goto(f, to) == pc' = [pc EXCEPT ![f] = to]

-----------------------------------------------------------------------------
(* fev_ilock_lock() and fev_ilock_lock_slow().                             *)

\* The weak CAS 0 -> 1 of the fast path; it may fail spuriously.
LockFast(f) ==
    /\ pc[f] = "idle"
    /\ \E success \in BOOLEAN :
          IF state = 0 /\ success
            THEN state' = 1 /\ Goto(f, "cs")
            ELSE UNCHANGED state /\ Goto(f, "slow_lock")
    /\ UNCHANGED <<inner, ivars, waiters, next, num_run_fibers>>

LockSlowInner(f) ==
    /\ pc[f] = "slow_lock"
    /\ I!Acquire(f)
    /\ Goto(f, "exchange")
    /\ UNCHANGED <<state, waiters, next, num_run_fibers>>

\* Mutant: the slow path also takes a lock that is held with no waiters.
LockSlowExchangeLe1(f) ==
    /\ pc[f] = "exchange"
    /\ state' = 2
    /\ IF state <= 1
         THEN Goto(f, "store1") /\ UNCHANGED waiters
         ELSE Goto(f, "switch") /\ waiters' = Append(waiters, f)
    /\ UNCHANGED <<inner, ivars, next, num_run_fibers>>

\* Mutant: the inner lock is released before the switch to the worker.
LockSlowExchangeEarlyUnlock(f) ==
    /\ pc[f] = "exchange"
    /\ state' = 2
    /\ IF state = 0
         THEN Goto(f, "store1") /\ UNCHANGED <<waiters, inner, ivars>>
         ELSE Goto(f, "switch") /\ waiters' = Append(waiters, f) /\ I!Release(f)
    /\ UNCHANGED <<next, num_run_fibers>>

\* Exchange the state to 2; if it was 0 the lock is ours, otherwise append
\* ourselves to the waiters.
LockSlowExchange(f) ==
    /\ pc[f] = "exchange"
    /\ state' = 2
    /\ IF state = 0
         THEN Goto(f, "store1") /\ UNCHANGED waiters
         ELSE Goto(f, "switch") /\ waiters' = Append(waiters, f)
    /\ UNCHANGED <<inner, ivars, next, num_run_fibers>>

LockSlowStore1(f) ==
    /\ pc[f] = "store1"
    /\ state' = 1
    /\ Goto(f, "unlock_inner")
    /\ UNCHANGED <<inner, ivars, waiters, next, num_run_fibers>>

LockSlowUnlockInner(f) ==
    /\ pc[f] = "unlock_inner"
    /\ I!Release(f)
    /\ Goto(f, "cs")
    /\ UNCHANGED <<state, waiters, next, num_run_fibers>>

\* fev_context_switch_and_call() then fev_ilock_lock_post() on the worker:
\* the fiber is saved, num_run_fibers is decremented, the inner lock freed.
LockPost(f) ==
    /\ pc[f] = "switch"
    /\ num_run_fibers' = num_run_fibers - 1
    /\ I!Release(f)
    /\ Goto(f, "parked")
    /\ UNCHANGED <<state, waiters, next>>

\* A worker pops the woken fiber and switches to it; it owns the lock.
Resume(f) ==
    /\ pc[f] = "runnable"
    /\ Goto(f, "cs")
    /\ UNCHANGED <<state, inner, ivars, waiters, next, num_run_fibers>>

-----------------------------------------------------------------------------
(* fev_ilock_unlock_and_wake(): fev_ilock_unlock(), fev_ilock_unlock_slow() *)
(* and fev_cur_wake_one() of the returned fiber.                           *)

\* Mutant: the fast path releases the lock while fibers are queued (state 2).
UnlockFastAny(f) ==
    /\ pc[f] = "cs"
    /\ IF state >= 1
         THEN state' = 0 /\ Goto(f, "idle")
         ELSE UNCHANGED state /\ Goto(f, "slow_unlock")
    /\ UNCHANGED <<inner, ivars, waiters, next, num_run_fibers>>

\* The strong CAS 1 -> 0 of the fast path.
UnlockFast(f) ==
    /\ pc[f] = "cs"
    /\ IF state = 1
         THEN state' = 0 /\ Goto(f, "idle")
         ELSE UNCHANGED state /\ Goto(f, "slow_unlock")
    /\ UNCHANGED <<inner, ivars, waiters, next, num_run_fibers>>

UnlockSlowInner(f) ==
    /\ pc[f] = "slow_unlock"
    /\ I!Acquire(f)
    /\ Goto(f, "dequeue")
    /\ UNCHANGED <<state, waiters, next, num_run_fibers>>

\* Mutant: the lock is handed to the most recent waiter (STAILQ used as a
\* stack).
UnlockSlowDequeueLifo(f) ==
    /\ pc[f] = "dequeue"
    /\ next' = [next EXCEPT ![f] = waiters[Len(waiters)]]
    /\ waiters' = SubSeq(waiters, 1, Len(waiters) - 1)
    /\ state' = IF Len(waiters) = 1 THEN 1 ELSE state
    /\ Goto(f, "unlock_inner2")
    /\ UNCHANGED <<inner, ivars, num_run_fibers>>

\* Remove the head of the waiters; if none is left the state becomes 1.
UnlockSlowDequeue(f) ==
    /\ pc[f] = "dequeue"
    /\ next' = [next EXCEPT ![f] = Head(waiters)]
    /\ waiters' = Tail(waiters)
    /\ state' = IF Tail(waiters) = <<>> THEN 1 ELSE state
    /\ Goto(f, "unlock_inner2")
    /\ UNCHANGED <<inner, ivars, num_run_fibers>>

UnlockSlowUnlockInner(f) ==
    /\ pc[f] = "unlock_inner2"
    /\ I!Release(f)
    /\ Goto(f, "wake")
    /\ UNCHANGED <<state, waiters, next, num_run_fibers>>

\* fev_cur_wake_one(): push the new owner and count it runnable.
UnlockWake(f) ==
    /\ pc[f] = "wake"
    /\ pc' = [pc EXCEPT ![f] = "idle", ![next[f]] = "runnable"]
    /\ next' = [next EXCEPT ![f] = NoFiber]
    /\ num_run_fibers' = num_run_fibers + 1
    /\ UNCHANGED <<state, inner, ivars, waiters>>

-----------------------------------------------------------------------------

\* The spinning and futex steps of a fiber taking the inner lock.
InnerContend(f) ==
    /\ pc[f] \in {"slow_lock", "slow_unlock"}
    /\ I!Contend(f)
    /\ UNCHANGED <<state, waiters, pc, next, num_run_fibers>>

\* The FUTEX_WAKE owed by the thread that released the inner lock; until it
\* is done the thread runs nothing else.
InnerWake(f) == I!Wake(f) /\ UNCHANGED <<state, waiters, pc, next, num_run_fibers>>

InnerInterrupted(f) ==
    I!Interrupted(f) /\ UNCHANGED <<state, waiters, pc, next, num_run_fibers>>

WakePending(f) == iwake[f]

Step(f) ==
    \/ LockFast(f) \/ LockSlowExchange(f) \/ LockSlowStore1(f)
    \/ LockSlowUnlockInner(f) \/ LockPost(f) \/ Resume(f)
    \/ UnlockFast(f) \/ UnlockSlowDequeue(f) \/ UnlockSlowUnlockInner(f)
    \/ UnlockWake(f)

\* A step of the fiber's thread, which owes no wake.
FiberStep(f) == ~WakePending(f) /\ Step(f)

\* Taking the inner lock, the only step that spins.
TakeInner(f) == LockSlowInner(f) \/ UnlockSlowInner(f)

Next ==
    \E f \in Fibers :
        \/ FiberStep(f) \/ TakeInner(f) \/ InnerContend(f)
        \/ InnerWake(f) \/ InnerInterrupted(f)

\* Every fiber keeps running (a worker runs a runnable fiber, the fiber
\* leaves its critical section) and a thread owing a FUTEX_WAKE makes the
\* call.  The inner lock is held for a few instructions at a time, so a
\* thread spinning on it, which finds it free again and again, gets it in
\* the end (strong fairness of its spinning and acquiring steps).
Fairness ==
    \A f \in Fibers : /\ WF_vars(FiberStep(f)) /\ WF_vars(InnerWake(f))
                      /\ SF_vars(InnerContend(f)) /\ SF_vars(TakeInner(f))

Spec == Init /\ [][Next]_vars /\ Fairness

-----------------------------------------------------------------------------
(* Properties.                                                             *)

PCs == {"idle", "slow_lock", "exchange", "store1", "unlock_inner", "switch",
        "parked", "runnable", "cs", "slow_unlock", "dequeue", "unlock_inner2",
        "wake"}

TypeOK ==
    /\ state \in {0, 1, 2}
    /\ I!InnerTypeOK
    /\ waiters \in Seq(Fibers)
    /\ pc \in [Fibers -> PCs]
    /\ next \in [Fibers -> Fibers \cup {NoFiber}]
    /\ num_run_fibers \in 0..Cardinality(Fibers)

\* The fibers that own the lock: in the critical section or unlocking it,
\* having won the slow path on a free lock, or handed the lock by an
\* unlocker and not yet running.
Holders ==
    {f \in Fibers : pc[f] \in {"cs", "slow_unlock", "dequeue", "store1",
                               "unlock_inner", "runnable"}}
    \cup {next[f] : f \in {g \in Fibers : next[g] # NoFiber}}

\* fev_ilock_lock() returns with the lock owned by the caller, at most one
\* fiber owns it, whatever the fast and slow paths of lock and unlock do.
MutualExclusion == Cardinality(Holders) <= 1

\* The meaning of ilock->state (fev_ilock_intf.h lines 36-41) that the fast
\* paths rely on: 0 exactly when nobody owns the lock, 1 only with no
\* waiters, and, outside the inner critical section, 2 exactly when fibers
\* are queued.  In particular fev_ilock_unlock_slow() always finds state 2
\* and a non-empty queue (its FEV_ASSERTs at lines 100 and 104).
StateMatchesWaiters ==
    /\ (state = 0) = (Holders = {})
    /\ state = 1 => waiters = <<>>
    /\ inner = NoFiber => ((state = 2) = (waiters # <<>>))
    /\ \A f \in Fibers : pc[f] = "dequeue" => (state = 2 /\ waiters # <<>>)

\* An unlocker hands the lock only to a waiter whose context is saved:
\* fev_ilock_lock_slow() queues the fiber and keeps the inner lock across
\* fev_context_switch_and_call(), which fev_ilock_lock_post() releases on
\* the worker, so fev_ilock_unlock_slow(), which dequeues under the inner
\* lock, never pushes a fiber that is still running on its own stack.
HandedToSaved ==
    \A g \in Fibers : next[g] # NoFiber => pc[next[g]] = "parked"

\* fev_ilock_lock_post() and fev_cur_wake_one() keep num_run_fibers equal to
\* the number of fibers that are not parked on the lock.
RunCountMatches ==
    num_run_fibers = Cardinality({f \in Fibers : pc[f] # "parked"})

\* A fiber that enters fev_ilock_lock_slow() owns the lock in the end: the
\* handoff of fev_ilock_unlock_slow() serves the queue in order and the
\* fast path cannot overtake a queued fiber.  Stated for the spin lock
\* build: the futex mutex lets fast-path lockers barge past a woken
\* waiter forever, so with it even the inner lock can starve a thread.
SlowLockerAcquires ==
    \A f \in Fibers : pc[f] = "slow_lock" /\ kind = "spinlock" ~> pc[f] = "cs"

\* No thread sleeping in fev_futex_wait() on the inner mutex is forgotten
\* (see InnerLock): fev_thr_mutex_lock_slow() exchanges 2 in before it
\* sleeps and fev_thr_mutex_unlock() wakes one sleeper when it reads 2.
InnerNoLostWakeup == I!NoLostWakeup

\* The implementation refines ILockSpec: `owner` is the holder and `queue`
\* the waiters list.
Owner == IF Holders = {} THEN NoFiber ELSE CHOOSE h \in Holders : TRUE

Abstract == INSTANCE ILockSpec WITH owner <- Owner, queue <- waiters

RefinesILockSpec == Abstract!Spec

=============================================================================
