------------------------------ MODULE InnerLock ------------------------------
(***************************************************************************)
(* The lock inside every ilock (ilock->lock), guarding its waiters list.   *)
(* fev_ilock_impl.h selects it at build time: FEV_ILOCK_LOCK_SPINLOCK      *)
(* takes the test-and-test-and-set spin lock of fev_spinlock_impl.h,       *)
(* FEV_ILOCK_LOCK_MUTEX the futex mutex of fev_thr_mutex_linux.h/.c        *)
(* (word 0 unlocked, 1 locked, 2 locked with possible sleepers).  `kind`   *)
(* is that build choice, made once in Init.                                *)
(*                                                                         *)
(* Acquire(f) is the step that takes the lock, Contend(f) every other step *)
(* of a locker, Release(f) the unlocking exchange or store and Wake(f) the *)
(* FUTEX_WAKE that follows an exchange that read 2.  The caller (ILock)    *)
(* decides when a fiber is locking.                                        *)
(***************************************************************************)
EXTENDS Naturals

CONSTANTS
    Fibers,
    NoFiber,
    Kinds       \* the lock strategies of the build, a subset of LockKinds

VARIABLES
    kind,       \* FEV_ILOCK_LOCK_SPINLOCK or FEV_ILOCK_LOCK_MUTEX
    word,       \* spinlock->state or mutex->state
    holder,     \* the fiber whose thread holds the lock, or NoFiber
    ipc,        \* where each fiber's thread is inside the lock call
    iwake       \* the thread read 2 on unlock and still owes FUTEX_WAKE

LockKinds == {"spinlock", "mutex"}

ASSUME Kinds \subseteq LockKinds /\ Kinds # {}

ivars == <<kind, word, holder, ipc, iwake>>

Init ==
    /\ kind \in Kinds
    /\ word = 0                         \* fev_spinlock_init(), fev_thr_mutex_init()
    /\ holder = NoFiber
    /\ ipc = [f \in Fibers |-> "none"]
    /\ iwake = [f \in Fibers |-> FALSE]

SetIpc(f, to) == ipc' = [ipc EXCEPT ![f] = to]

\* The step that returns with the lock: the exchange of fev_spinlock_lock()
\* reading 0; the weak CAS 0 -> 1 of fev_thr_mutex_lock(), or an exchange
\* with 2 of fev_thr_mutex_lock_slow() reading 0.
Acquire(f) ==
    /\ word = 0
    /\ \/ kind = "spinlock" /\ ipc[f] = "none" /\ word' = 1
       \/ kind = "mutex" /\ ipc[f] = "none" /\ word' = 1
       \/ kind = "mutex" /\ ipc[f] = "xchg" /\ word' = 2
    /\ holder' = f
    /\ SetIpc(f, "none")
    /\ UNCHANGED <<kind, iwake>>

\* fev_spinlock_lock(): the exchange read 1, spin on relaxed loads until
\* the word is 0, then exchange again.
SpinStep(f) ==
    /\ kind = "spinlock"
    /\ \/ ipc[f] = "none" /\ word # 0 /\ SetIpc(f, "spin")
       \/ ipc[f] = "spin" /\ word = 0 /\ SetIpc(f, "none")
    /\ UNCHANGED <<kind, word, holder, iwake>>

\* fev_thr_mutex_lock() and fev_thr_mutex_lock_slow(): the weak CAS fails
\* (also spuriously) and the slow path loads the word; unless it is 2 it
\* exchanges 2 in; while the exchange reads non-zero the thread calls
\* fev_futex_wait(word, 2), which sleeps only if the word is still 2.
MutexStep(f) ==
    /\ kind = "mutex"
    /\ \/ ipc[f] = "none" /\ SetIpc(f, "load") /\ UNCHANGED word
       \/ ipc[f] = "load" /\ SetIpc(f, IF word = 2 THEN "wait" ELSE "xchg")
          /\ UNCHANGED word
       \/ ipc[f] = "xchg" /\ word # 0 /\ word' = 2 /\ SetIpc(f, "wait")
       \/ ipc[f] = "wait" /\ SetIpc(f, IF word = 2 THEN "sleep" ELSE "xchg")
          /\ UNCHANGED word
    /\ UNCHANGED <<kind, holder, iwake>>

Contend(f) == SpinStep(f) \/ MutexStep(f)

\* FUTEX_WAIT returning EINTR: the sleeper exchanges again.
Interrupted(f) ==
    /\ ipc[f] = "sleep"
    /\ SetIpc(f, "xchg")
    /\ UNCHANGED <<kind, word, holder, iwake>>

\* Mutant: fev_thr_mutex_unlock() never calls fev_thr_mutex_unlock_slow().
ReleaseNoWake(f) ==
    /\ holder = f
    /\ word' = 0
    /\ holder' = NoFiber
    /\ UNCHANGED <<kind, ipc, iwake>>

\* fev_spinlock_unlock() stores 0; fev_thr_mutex_unlock() exchanges 0 in
\* and owes a wake if it read 2.
Release(f) ==
    /\ holder = f
    /\ word' = 0
    /\ holder' = NoFiber
    /\ iwake' = [iwake EXCEPT ![f] = kind = "mutex" /\ word = 2]
    /\ UNCHANGED <<kind, ipc>>

\* fev_thr_mutex_unlock_slow(): FUTEX_WAKE of one sleeper, if there is one.
Wake(f) ==
    /\ iwake[f]
    /\ iwake' = [iwake EXCEPT ![f] = FALSE]
    /\ \/ \E g \in Fibers : ipc[g] = "sleep" /\ SetIpc(g, "xchg")
       \/ \A g \in Fibers : ipc[g] # "sleep" /\ UNCHANGED ipc
    /\ UNCHANGED <<kind, word, holder>>

-----------------------------------------------------------------------------

InnerTypeOK ==
    /\ kind \in LockKinds
    /\ word \in 0..2
    /\ holder \in Fibers \cup {NoFiber}
    /\ ipc \in [Fibers -> {"none", "spin", "load", "xchg", "wait", "sleep"}]
    /\ iwake \in [Fibers -> BOOLEAN]

Sleepers == {f \in Fibers : ipc[f] = "sleep"}

\* No lost futex wake-up: while a thread sleeps in fev_futex_wait(), the
\* word is 2 (so the next fev_thr_mutex_unlock() wakes someone), or a wake
\* is owed, or a woken or spinning locker is about to exchange 2 in again.
NoLostWakeup ==
    Sleepers # {} =>
        \/ word = 2
        \/ \E f \in Fibers : iwake[f] \/ ipc[f] \in {"load", "xchg", "wait"}

=============================================================================
