------------------------------ MODULE ILockSpec ------------------------------
(***************************************************************************)
(* What the internal lock of libfev promises (fev_ilock_intf.h, the        *)
(* comments of fev_ilock_lock() and fev_ilock_unlock() in                  *)
(* fev_ilock_impl.h): at most one owner; a fiber that finds the lock taken *)
(* queues up; unlock hands the lock to the oldest queued fiber, so the     *)
(* lock is never free while fibers are queued and there are no spurious    *)
(* wake-ups.                                                               *)
(***************************************************************************)
EXTENDS Sequences, SequencesExt

CONSTANTS Fibers, NoFiber

VARIABLES owner, queue

Acquire(f) ==
    /\ owner = NoFiber
    /\ queue = <<>>
    /\ owner' = f
    /\ UNCHANGED queue

Enqueue(f) ==
    /\ owner \notin {NoFiber, f}
    /\ ~Contains(queue, f)
    /\ queue' = Append(queue, f)
    /\ UNCHANGED owner

Release(f) ==
    /\ owner = f
    /\ queue = <<>>
    /\ owner' = NoFiber
    /\ UNCHANGED queue

Handoff(f) ==
    /\ owner = f
    /\ queue # <<>>
    /\ owner' = Head(queue)
    /\ queue' = Tail(queue)

Init == owner = NoFiber /\ queue = <<>>

Next == \E f \in Fibers : Acquire(f) \/ Enqueue(f) \/ Release(f) \/ Handoff(f)

Spec == Init /\ [][Next]_<<owner, queue>>

=============================================================================
