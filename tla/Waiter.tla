------------------------------- MODULE Waiter -------------------------------
(***************************************************************************)
(* The waiter handshake of libfev (src/src/fev_waiter_impl.h).             *)
(*                                                                         *)
(* One fiber parks on a waiter MaxRounds times in a row.  Three kinds of   *)
(* actor touch the waiter concurrently:                                    *)
(*   - the fiber itself, in fev_waiter_wait();                             *)
(*   - the post-switch callback fev_waiter_enable_wake_ups(), run by the   *)
(*     worker thread on its scheduler stack after the fiber switched out;  *)
(*   - wakers (another worker's poller, a fiber in                         *)
(*     fev_waiters_queue_wake(), a timers processor) in fev_waiter_wake(). *)
(* Every atomic access of the C code is one step.  The run queue is        *)
(* abstracted to the number of pending resumptions of the fiber, `pushes`; *)
(* a worker popping it is the Resume action.                               *)
(*                                                                         *)
(* `caller` (one of Callers) selects how the waiter is prepared before    *)
(* each wait:                                                              *)
(*   "waiters_queue": fev_waiters_queue_wait() puts a fresh node on its    *)
(*      stack and sets reason, do_wake and wait_for_wake (lines 71-75);    *)
(*      the other fields hold whatever the stack held.                     *)
(*   "socket": FEV_GEN_SOCKET_OP reuses the waiter embedded in the socket  *)
(*      (zeroed once by fev_socket_init) and only resets reason.           *)
(***************************************************************************)
EXTENDS Naturals

CONSTANTS
    Wakers,     \* actors that may call fev_waiter_wake() on the waiter
    MaxRounds,  \* number of consecutive waits of the fiber
    Callers     \* a non-empty subset of {"waiters_queue", "socket"}

ASSUME /\ Wakers # {}
       /\ MaxRounds \in Nat \ {0}
       /\ Callers # {} /\ Callers \subseteq {"waiters_queue", "socket"}

\* enum fev_waiter_wake_reason
NONE == "NONE"
WakeReasons == {"READY", "TIMED_OUT_CHECK", "TIMED_OUT_NO_CHECK"}
Reasons == {NONE} \cup WakeReasons
TimedOutReasons == {"TIMED_OUT_CHECK", "TIMED_OUT_NO_CHECK"}

VARIABLES
    reason, do_wake, wake_reason, wait_for_post, wait_for_wake, \* struct fev_waiter
    fpc,          \* the fiber's program counter
    round,        \* the current wait of the fiber, 1..MaxRounds
    epc,          \* fev_waiter_enable_wake_ups() program counter
    e_reason,     \* its local `reason`
    e_fiber,      \* its local `fiber`: TRUE iff it won the do_wake exchange
    wpc,          \* fev_waiter_wake() program counter of each waker
    w_reason,     \* the reason each waker is setting
    w_do_wake,    \* the value each waker got from the do_wake exchange
    pushes,       \* pending resumptions of the fiber in the run queues
    caller,       \* who prepares the waiter, fixed for a behaviour
    active,       \* end->active of the socket end the fiber uses
    serror        \* socket->error

waiter == <<reason, do_wake, wake_reason, wait_for_post, wait_for_wake>>
vars == <<waiter, fpc, round, epc, e_reason, e_fiber, wpc, w_reason,
          w_do_wake, pushes, caller,
          active, serror>>
sock == <<active, serror>>

Transition(pc, from, to) == pc = from /\ pc' = to

-----------------------------------------------------------------------------
(* The fiber.                                                              *)

Init ==
    /\ reason = NONE /\ do_wake = 0 /\ wake_reason = NONE   \* fev_socket_init
    /\ wait_for_post = 0 /\ wait_for_wake = 0               \* zeroes it
    /\ fpc = "prepare" /\ round = 1
    /\ epc = "idle" /\ e_reason = NONE /\ e_fiber = FALSE
    /\ wpc = [w \in Wakers |-> "idle"]
    /\ w_reason = [w \in Wakers |-> NONE]
    /\ w_do_wake = [w \in Wakers |-> 0]
    /\ pushes = 0
    /\ caller \in Callers
    /\ active = FALSE /\ serror = FALSE

\* Mutant: the caller leaves wait_for_wake alone, as FEV_GEN_SOCKET_OP does.
PrepareNoWaitForWake ==
    /\ Transition(fpc, "prepare", "armed")
    /\ reason' = NONE
    /\ do_wake' = 0
    /\ wake_reason' \in Reasons
    /\ wait_for_post' \in {0, 1}
    /\ UNCHANGED <<wait_for_wake, round, epc, e_reason, e_fiber, wpc, w_reason,
                   w_do_wake, pushes>>

\* fev_waiters_queue_wait() lines 71-75: a new node on the stack; reason,
\* do_wake and wait_for_wake are stored, wake_reason and wait_for_post are
\* left uninitialised.  FEV_GEN_SOCKET_OP
\* (fev_socket_reactor.c lines 173 and 198): only reason, once before the
\* first attempt of the operation and again after every wait.
Prepare ==
    /\ fpc = "prepare"
    /\ fpc' = IF caller = "waiters_queue" THEN "armed" ELSE "op_first"
    /\ reason' = NONE
    /\ IF caller = "waiters_queue"
         THEN /\ do_wake' = 0
              /\ wait_for_wake' = 1
              /\ wake_reason' \in Reasons
              /\ wait_for_post' \in {0, 1}
         ELSE UNCHANGED <<do_wake, wait_for_wake, wake_reason, wait_for_post>>
    /\ UNCHANGED <<round, epc, e_reason, e_fiber, wpc, w_reason, w_do_wake,
                   pushes>>

\* fev_waiter_wait() lines 92-103: store wait_for_post = 1, then
\* fev_context_switch_and_call() saves the fiber and runs
\* fev_waiter_enable_wake_ups() on the worker's stack.
Wait ==
    /\ Transition(fpc, "armed", "parked")
    /\ wait_for_post' = 1
    /\ Transition(epc, "idle", "store_do_wake")
    /\ UNCHANGED <<reason, do_wake, wake_reason, wait_for_wake, round,
                   e_reason, e_fiber, wpc, w_reason, w_do_wake, pushes>>

\* A worker pops the fiber from a run queue and switches to it.
Resume ==
    /\ Transition(fpc, "parked", "check")
    /\ pushes > 0
    /\ pushes' = pushes - 1
    /\ UNCHANGED <<waiter, round, epc, e_reason, e_fiber, wpc, w_reason,
                   w_do_wake>>

\* fev_waiter_wait() lines 105-117: while `wait` (wait_for_post and
\* wait_for_wake) is non-zero, switch out and let the post-call
\* fev_cur_wake_one() re-queue the fiber; then load wake_reason.
CheckWait ==
    /\ fpc = "check"
    /\ IF wait_for_post = 0 /\ wait_for_wake = 0
         THEN /\ fpc' = "returned"
              /\ UNCHANGED pushes
         ELSE /\ fpc' = "parked"
              /\ pushes' = pushes + 1
    /\ UNCHANGED <<waiter, round, epc, e_reason, e_fiber, wpc, w_reason,
                   w_do_wake>>

\* The caller of fev_waiter_wait() returns (its frame, holding the node,
\* dies) and the fiber waits again, or stops.  In FEV_GEN_SOCKET_OP the
\* loop resets reason and retries the operation; in the timed variant
\* FEV_GEN_SOCKET_OP_TIMEOUT a timed-out wait returns -ETIMEDOUT instead.
\* After the last wait of the model the operation succeeds and the fiber
\* stops.
Leave ==
    /\ fpc = "returned"
    /\ IF round < MaxRounds
         THEN /\ fpc' = CASE caller = "waiters_queue" -> "prepare"
                           [] wake_reason \in TimedOutReasons -> "call_end"
                           [] OTHER -> "reset"
              /\ round' = round + 1
         ELSE fpc' = "finished" /\ UNCHANGED round
    /\ UNCHANGED <<waiter, epc, e_reason, e_fiber, wpc, w_reason, w_do_wake,
                   pushes>>

-----------------------------------------------------------------------------
(* fev_waiter_enable_wake_ups(), lines 26-72.                             *)

PostStoreDoWake ==
    /\ Transition(epc, "store_do_wake", "load_reason")
    /\ do_wake' = 1
    /\ e_fiber' = FALSE
    /\ UNCHANGED <<reason, wake_reason, wait_for_post, wait_for_wake, fpc,
                   round, e_reason, wpc, w_reason, w_do_wake, pushes>>

\* Mutant: the post-call takes the fiber whenever a reason is set, without
\* competing for do_wake.
PostLoadReasonNoExchange ==
    /\ epc = "load_reason"
    /\ e_reason' = reason
    /\ e_fiber' = (reason # NONE)
    /\ epc' = IF reason # NONE THEN "store_reason" ELSE "clear_post"
    /\ UNCHANGED <<waiter, fpc, round, wpc, w_reason, w_do_wake,
                   pushes>>

PostLoadReason ==
    /\ epc = "load_reason"
    /\ e_reason' = reason
    /\ epc' = IF reason # NONE THEN "exchange" ELSE "clear_post"
    /\ UNCHANGED <<waiter, fpc, round, e_fiber, wpc, w_reason, w_do_wake,
                   pushes>>

\* Mutant: the winner of the exchange does not publish wake_reason.
PostExchangeNoStore ==
    /\ epc = "exchange"
    /\ do_wake' = 0
    /\ e_fiber' = (do_wake = 1)
    /\ epc' = "clear_post"
    /\ UNCHANGED <<reason, wake_reason, wait_for_post, wait_for_wake, fpc,
                   round, e_reason, wpc, w_reason, w_do_wake, pushes>>

PostExchange ==
    /\ epc = "exchange"
    /\ do_wake' = 0
    /\ e_fiber' = (do_wake = 1)
    /\ epc' = IF do_wake = 1 THEN "store_reason" ELSE "clear_post"
    /\ UNCHANGED <<reason, wake_reason, wait_for_post, wait_for_wake, fpc,
                   round, e_reason, wpc, w_reason, w_do_wake, pushes>>

PostStoreReason ==
    /\ Transition(epc, "store_reason", "clear_post")
    /\ wake_reason' = e_reason
    /\ UNCHANGED <<reason, do_wake, wait_for_post, wait_for_wake, fpc, round,
                   e_reason, e_fiber, wpc, w_reason, w_do_wake, pushes>>

\* Mutant: the release store of wait_for_post is missing.
PostClearMissing ==
    /\ epc = "clear_post"
    /\ epc' = IF e_fiber THEN "push" ELSE "idle"
    /\ UNCHANGED <<reason, do_wake, wake_reason, wait_for_post, wait_for_wake,
                   fpc, round, e_reason, e_fiber, wpc, w_reason, w_do_wake,
                   pushes>>

PostClear ==
    /\ epc = "clear_post"
    /\ wait_for_post' = 0
    /\ epc' = IF e_fiber THEN "push" ELSE "idle"
    /\ UNCHANGED <<reason, do_wake, wake_reason, wait_for_wake, fpc, round,
                   e_reason, e_fiber, wpc, w_reason, w_do_wake, pushes>>

\* fev_cur_wake_one(fiber) with the fiber loaded before the clear.
PostPush ==
    /\ Transition(epc, "push", "idle")
    /\ pushes' = pushes + 1
    /\ UNCHANGED <<waiter, fpc, round, e_reason, e_fiber, wpc, w_reason,
                   w_do_wake>>

-----------------------------------------------------------------------------
(* fev_waiter_wake(), lines 121-156, and the caller's push of             *)
(* waiter->fiber on FEV_WAITER_SET_AND_WAKE_UP.                            *)

\* The waiter is reachable by wakers: a waiters-queue node from its
\* insertion until its frame dies, a socket waiter as long as it exists.
Reachable ==
    IF caller = "waiters_queue"
      THEN fpc \in {"armed", "parked", "check", "returned"}
      ELSE fpc # "finished"

\* CAS reason NONE -> r.  A failed CAS returns FEV_WAITER_FAILED without
\* touching the waiter again, so it is no step of the model.
WakeCas(w) ==
    /\ wpc[w] = "idle"
    /\ Reachable
    /\ reason = NONE
    /\ \E r \in WakeReasons :
          /\ reason' = r
          /\ w_reason' = [w_reason EXCEPT ![w] = r]
    /\ wpc' = [wpc EXCEPT ![w] = "exchange"]
    /\ UNCHANGED <<do_wake, wake_reason, wait_for_post, wait_for_wake, fpc,
                   round, epc, e_reason, e_fiber, w_do_wake, pushes>>

WakeExchange(w) ==
    /\ wpc[w] = "exchange"
    /\ do_wake' = 0
    /\ w_do_wake' = [w_do_wake EXCEPT ![w] = do_wake]
    /\ wpc' = [wpc EXCEPT ![w] = IF do_wake # 0 THEN "store_reason"
                                                ELSE "clear_wake"]
    /\ UNCHANGED <<reason, wake_reason, wait_for_post, wait_for_wake, fpc,
                   round, epc, e_reason, e_fiber, w_reason, pushes>>

WakeStoreReason(w) ==
    /\ wpc[w] = "store_reason"
    /\ wake_reason' = w_reason[w]
    /\ wpc' = [wpc EXCEPT ![w] = "clear_wake"]
    /\ UNCHANGED <<reason, do_wake, wait_for_post, wait_for_wake, fpc, round,
                   epc, e_reason, e_fiber, w_reason, w_do_wake, pushes>>

WakeClear(w) ==
    /\ wpc[w] = "clear_wake"
    /\ wait_for_wake' = 0
    /\ wpc' = [wpc EXCEPT ![w] = IF w_do_wake[w] # 0 THEN "push" ELSE "idle"]
    /\ UNCHANGED <<reason, do_wake, wake_reason, wait_for_post, fpc, round,
                   epc, e_reason, e_fiber, w_reason, w_do_wake, pushes>>

\* FEV_WAITER_SET_AND_WAKE_UP: the caller reads waiter->fiber and pushes it
\* (fev_waiters_queue_wake() lines 177-200, fev_process_socket()).
WakePush(w) ==
    /\ wpc[w] = "push"
    /\ wpc' = [wpc EXCEPT ![w] = "idle"]
    /\ pushes' = pushes + 1
    /\ UNCHANGED <<waiter, fpc, round, epc, e_reason, e_fiber, w_reason,
                   w_do_wake>>

-----------------------------------------------------------------------------
(* The rest of FEV_GEN_SOCKET_OP (fev_socket_reactor.c lines 165-204) for  *)
(* the socket caller: the operation itself, the registration with the      *)
(* poller and the socket->error check around each wait.                    *)

\* Everything but the fiber's own state.
others == <<do_wake, wake_reason, wait_for_post, wait_for_wake, epc, e_reason,
            e_fiber, wpc, w_reason, w_do_wake, pushes, caller>>

\* After fev_waiter_wait() returns the loop stores reason = NONE.
SockReset ==
    /\ Transition(fpc, "reset", "op")
    /\ reason' = NONE
    /\ UNCHANGED <<others, round, sock>>

\* `op`: accept, connect, read or write on the non-blocking fd.  It fails
\* with EAGAIN or returns (a result or another error).
SockOp ==
    /\ fpc \in {"op_first", "op"}
    /\ \/ fpc' = IF fpc = "op_first" THEN "register" ELSE "check_error"
       \/ fpc' = "call_end"
    /\ UNCHANGED <<reason, others, round, sock>>

\* fev_poller_register() the first time the end waits; epoll_ctl() may fail
\* and the error is returned.
SockRegister ==
    /\ fpc = "register"
    /\ IF active
         THEN fpc' = "check_error" /\ UNCHANGED active
         ELSE \/ fpc' = "call_end" /\ UNCHANGED active
              \/ fpc' = "check_error" /\ active' = TRUE
    /\ UNCHANGED <<reason, others, round, serror>>

\* A socket in error returns -ECONNRESET instead of waiting.
SockCheckError ==
    /\ fpc = "check_error"
    /\ fpc' = IF serror THEN "call_end" ELSE "armed"
    /\ UNCHANGED <<reason, others, round, sock>>

\* The socket call has returned: the fiber makes another one, or stops.
SockCallEnd ==
    /\ fpc = "call_end"
    /\ fpc' \in {"prepare", "finished"}
    /\ UNCHANGED <<waiter, others, round, sock>>

SocketCall == SockReset \/ SockOp \/ SockRegister \/ SockCheckError \/ SockCallEnd

\* fev_process_socket(): EPOLLRDHUP, EPOLLERR or EPOLLHUP sets socket->error
\* before the wakes (which are the wakers' steps).
SocketError ==
    /\ caller = "socket" /\ fpc # "finished"
    /\ ~serror
    /\ serror' = TRUE
    /\ UNCHANGED <<waiter, fpc, round, others, active>>

-----------------------------------------------------------------------------

Quiet ==
    /\ fpc = "finished" /\ epc = "idle" /\ pushes = 0
    /\ \A w \in Wakers : wpc[w] = "idle"

\* Every wait has ended and nobody touches the waiter any more.
Done == Quiet /\ UNCHANGED vars

Fiber == \/ (Prepare \/ Wait \/ Resume \/ CheckWait \/ Leave) /\ UNCHANGED <<caller, sock>>
         \/ SocketCall
Post == /\ \/ PostStoreDoWake \/ PostLoadReason \/ PostExchange
           \/ PostStoreReason \/ PostClear \/ PostPush
        /\ UNCHANGED <<caller, sock>>
Waker(w) == /\ \/ WakeCas(w) \/ WakeExchange(w) \/ WakeStoreReason(w)
               \/ WakeClear(w) \/ WakePush(w)
            /\ UNCHANGED <<caller, sock>>

Next == Fiber \/ Post \/ (\E w \in Wakers : Waker(w)) \/ SocketError \/ Done

\* Every thread keeps running; an event for the parked fiber keeps arriving
\* while its reason is unset (a waker's CAS stays enabled).
Fairness ==
    /\ WF_vars(Fiber)
    /\ WF_vars(Post)
    /\ \A w \in Wakers : WF_vars(Waker(w))

Spec == Init /\ [][Next]_vars /\ Fairness

-----------------------------------------------------------------------------
(* Properties.                                                             *)

TypeOK ==
    /\ reason \in Reasons /\ wake_reason \in Reasons
    /\ do_wake \in {0, 1} /\ wait_for_post \in {0, 1} /\ wait_for_wake \in {0, 1}
    /\ fpc \in {"prepare", "armed", "parked", "check", "returned", "finished",
               "op_first", "op", "reset", "register", "check_error", "call_end"}
    /\ round \in 1..MaxRounds
    /\ epc \in {"idle", "store_do_wake", "load_reason", "exchange",
                "store_reason", "clear_post", "push"}
    /\ e_reason \in Reasons /\ e_fiber \in BOOLEAN
    /\ wpc \in [Wakers -> {"idle", "exchange", "store_reason", "clear_wake", "push"}]
    /\ w_reason \in [Wakers -> Reasons] /\ w_do_wake \in [Wakers -> {0, 1}]
    /\ pushes \in Nat
    /\ caller \in Callers
    /\ active \in BOOLEAN /\ serror \in BOOLEAN

\* Spec 4.5 invariant: between parking and resumption exactly one of
\* fev_waiter_enable_wake_ups() and fev_waiter_wake() reschedules the
\* fiber: it is never queued twice, nor queued while it runs.
SingleResumption ==
    /\ pushes <= 1
    /\ pushes = 1 => fpc = "parked"

\* An actor between its first and its last access of the waiter memory.
PostInside == epc \in {"load_reason", "exchange", "store_reason", "clear_post"}
WakerInside(w) == wpc[w] \in {"exchange", "store_reason", "clear_wake", "push"}

\* The spin on `wait` in fev_waiter_wait() (comment at lines 75-82 of
\* fev_waiter_intf.h): when fev_waiters_queue_wait() returns, and the stack
\* frame holding its node dies, neither fev_waiter_enable_wake_ups() nor
\* any fev_waiter_wake() still accesses the node.  (A socket's waiter lives
\* as long as the socket, so late accesses to it are harmless.)
NoAccessAfterReturn ==
    (caller = "waiters_queue" /\ fpc = "returned") =>
        (~PostInside /\ \A w \in Wakers : ~WakerInside(w))

\* No lost wake-up: once the fiber has parked, it runs again.
ParkedFiberResumes == \A r \in 1..MaxRounds :
    (fpc = "parked" /\ round = r) ~> (fpc = "returned" /\ round = r)

=============================================================================
