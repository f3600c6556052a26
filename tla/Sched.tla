------------------------------- MODULE Sched -------------------------------
(***************************************************************************)
(* The schedulers of libfev with the epoll poller (fev_poller_epoll.c):    *)
(* the loop fev_sched_work() of every worker, the wake-up of sleeping      *)
(* workers after fibers are pushed (fev_sched_impl.h, fev_sched_common.c), *)
(* sleeping in the poller or on the semaphore, and termination.  The      *)
(* scheduler is chosen at build time; `variant` is chosen in Init among    *)
(* the Variants, so one run checks each of:                                *)
(*   "shr_locking"    fev_sched_shr_locking.c: one shared run queue under  *)
(*                    a lock, the poller checked every `poller_backoff`    *)
(*                    switches;                                            *)
(*   "steal_locking"  fev_sched_steal_locking.c: a locked run queue per    *)
(*                    worker, stealing up to StealCount fibers from the    *)
(*                    head of another worker's queue;                      *)
(*   "shr_simple_mpmc" fev_sched_shr_simple_mpmc.c: the loop of            *)
(*                    shr_locking around the lock-free Michael-Scott queue *)
(*                    of SimpleMpmcQueue, pushed and popped step by step.  *)
(*                                                                         *)
(* The fibers: every fiber first waits once for a socket event (the       *)
(* waiter handshake is abstracted to its outcome, Waiter checks it); then  *)
(* each of the IoFibers exits and each other fiber yields until every      *)
(* IoFiber has exited, at most MaxYields times, and exits.  The 32-bit    *)
(* counters poller_backoff and num_run_fibers are kept modulo 2^Bits.      *)
(***************************************************************************)
EXTENDS Naturals, Sequences, SequencesExt, FiniteSets, FiniteSetsExt

CONSTANTS
    Workers, Fibers, IoFibers,
    NoFiber,
    Variants,       \* the schedulers checked
    MaxYields,      \* bound on the yields of one fiber
    Bits,           \* width of the modelled uint32_t counters
    StealCount,     \* FEV_SCHED_STEAL_LOCKING_STEAL_COUNT
    LocalPoolSize,  \* FEV_SCHED_SHR_SIMPLE_MPMC_LOCAL_POOL_SIZE
    Nodes, NullNode,\* the queue nodes malloc() may return, and NULL
    PutCanFail,     \* malloc() may fail (no FEV_ASSUME_MALLOC_NEVER_FAILS)
    TimerFds        \* the timerfds of the FEV_TIMERS_BUCKETS timer buckets

ASSUME /\ IoFibers \subseteq Fibers /\ NoFiber \notin Fibers
       /\ Variants \subseteq {"shr_locking", "steal_locking", "shr_simple_mpmc"}
       /\ MaxYields \in Nat /\ Bits \in Nat \ {0}
       /\ StealCount \in Nat \ {0} /\ LocalPoolSize \in Nat \ {0}
       /\ PutCanFail \in BOOLEAN

Modulus == 2 ^ Bits

VARIABLES
    variant,    \* the scheduler built
    rq,         \* sched->run_queue (shr_locking)
    lrq,        \* each worker's run_queue (steal variants)
    stolen,     \* fibers a worker has taken from a victim, not yet installed
    tovisit,    \* victims fev_sched_steal() has still to try
    vic,        \* the victim fev_sched_steal() is taking from
    lb,         \* each worker's local backoff (steal variants)
    lnrf, lnw,  \* each worker's loaded num_run_fibers and num_waiting
    wasPw,      \* each worker's result of exchange(&poller_waiting, true)
    nrf,        \* sched->num_run_fibers (modulo 2^Bits)
    nfib,       \* sched->num_fibers
    nw,         \* sched->num_waiting
    pw,         \* sched->poller_waiting
    sem,        \* the count of sched->sem
    intr,       \* an interrupt of the eventfd not yet reported by epoll_wait
    backoff,    \* sched->poller_backoff (modulo 2^Bits)
    fpc,        \* each fiber: "queued", "running", "io_wait", "io_ready", "done"
    fsteps,     \* operations each fiber has done
    wpc, cur,   \* each worker's place in fev_sched_work() and its fiber
    pushn,      \* fibers pushed by the worker whose wake-up is pending
    ret,        \* where the worker continues after the wake-up
    ssem,       \* the count of fev_sched_run()'s start_sem
    topush,     \* fibers a worker has still to push (shr_simple_mpmc)
    head, tail, nval, nnext, lpool, gpool, fresh, lhead, ltail, pnode,
                \* the Michael-Scott queue and its pool (SimpleMpmcQueue)
    lpc, held, dbl, nfreed
                \* creation and destruction (SchedLife)

\* Enough nodes that malloc() in fev_simple_mpmc_pool_alloc_global() never
\* fails: the dummy, one per fiber, and a full local cache per worker.
ASSUME /\ NullNode \notin Nodes
       /\ Cardinality(Nodes) >= 1 + Cardinality(Fibers) + Cardinality(Workers) * LocalPoolSize

Q == INSTANCE SimpleMpmcQueue WITH Values <- Fibers, NoValue <- NoFiber,
                         Null <- NullNode

L == INSTANCE SchedLife

locals == <<stolen, tovisit, vic, lb, lnrf, lnw, wasPw>>
qv == <<head, tail, nval, nnext, lpool, gpool, fresh, lhead, ltail, pnode>>
lvars == <<lpc, held, dbl, nfreed>>
mvars == <<topush, qv, lvars>>
svars == <<variant, lrq, locals, ssem, mvars>>
vars == <<svars, rq, nrf, nfib, nw, pw, sem, intr, backoff, fpc, fsteps, wpc, cur,
          pushn, ret, ssem>>

\* The orders in which a set of fibers can be pushed.
Orders(S) == {s \in [1..Cardinality(S) -> S] : ToSet(s) = S}

\* workers[0], whose queue fev_sched_put() of the steal variants fills.
FirstWorker == CHOOSE w \in Workers : TRUE

\* fev_sched_init_workers(): each worker's run queue is empty with size 0
\* (steal_locking); the per-worker locals of fev_sched_work() start clear.
WorkersInit ==
    /\ stolen = [w \in Workers |-> <<>>]
    /\ tovisit = [w \in Workers |-> {}]
    /\ vic = [w \in Workers |-> w]
    /\ lb = [w \in Workers |-> 0]
    /\ lnrf = [w \in Workers |-> 0] /\ lnw = [w \in Workers |-> 0]
    /\ wasPw = [w \in Workers |-> FALSE]

\* fev_sched_init(): the semaphore at 0, no interrupt pending on the new
\* eventfd, poller_backoff 1, num_waiting 0, poller_waiting false.
SchedInit ==
    /\ nw = 0 /\ pw = FALSE /\ sem = 0 /\ intr = FALSE
    /\ backoff = 1

\* Before fev_sched_create(): the fibers are not created yet; every other
\* worker's thread will wait on start_sem in fev_sched_thread_proc() and
\* workers[0] will run fev_sched_run() (SchedLife creates the scheduler).
Init ==
    /\ variant \in Variants
    /\ L!LInit
    /\ rq = <<>>
    /\ lrq = [w \in Workers |-> <<>>]
    /\ WorkersInit
    /\ SchedInit
    /\ nrf = 0
    /\ nfib = 0
    /\ fpc = [f \in Fibers |-> "new"]
    /\ fsteps = [f \in Fibers |-> 0]
    /\ wpc = [w \in Workers |-> IF w = FirstWorker THEN "create" ELSE "start_wait"]
    /\ cur = [w \in Workers |-> NoFiber]
    /\ pushn = [w \in Workers |-> 0]
    /\ ret = [w \in Workers |-> "get_fiber"]
    /\ ssem = 0
    /\ topush = [w \in Workers |-> <<>>]

\* fev_poller_interrupt(): a write of 1 to the eventfd, reported by the
\* next epoll_wait().
PollerInterrupt == intr' = TRUE

Go(w, to) == wpc' = [wpc EXCEPT ![w] = to]

\* The work-sharing schedulers, which run the same loop of fev_sched_work().
IsShr == variant \in {"shr_locking", "shr_simple_mpmc"}
Dec(x) == (x + Modulus - 1) % Modulus

\* fev_push_one() / fev_push_stq() of shr_locking: append the fibers s to
\* the shared queue under run_queue_lock.
PushShared(s) == rq' = rq \o s /\ UNCHANGED lrq

\* fev_push_one() / fev_push_stq() of steal_locking: append them to the
\* pushing worker w's own queue under its lock.
PushLocal(w, s) == lrq' = [lrq EXCEPT ![w] = @ \o s] /\ UNCHANGED rq

\* The push of the fibers s by worker w in the locking schedulers.
Push(w, s) == IF variant = "shr_locking" THEN PushShared(s) ELSE PushLocal(w, s)

-----------------------------------------------------------------------------
(* The fiber running on worker w does its next operation and switches back *)
(* to the worker.                                                          *)

AllIoDone == \A g \in IoFibers : fpc[g] = "done"

\* fev_wake_one() / fev_wake_stq(): push the fibers s, then continue with
\* fev_wake_up_waiting_workers(w, Len(s)) and return to `next`.
\* shr_simple_mpmc pushes them one by one (push_link, push_swing) first.
WakeStq(w, s, next) ==
    /\ IF variant = "shr_simple_mpmc"
         THEN /\ topush' = [topush EXCEPT ![w] = s]
              /\ Go(w, "push_link") /\ UNCHANGED <<rq, lrq>>
         ELSE Push(w, s) /\ Go(w, "wake_add") /\ UNCHANGED topush
    /\ pushn' = [pushn EXCEPT ![w] = Len(s)]
    /\ ret' = [ret EXCEPT ![w] = next]

\* fev_yield(): num_run_fibers-- and fev_context_switch_and_call() with
\* fev_cur_wake_one(), which pushes the fiber (fev_push_one()) and goes on
\* with fev_wake_up_waiting_workers().
Yield(w) ==
    LET f == cur[w] IN
    /\ wpc[w] = "running"
    /\ f \notin IoFibers /\ fsteps[f] >= 1
    /\ ~AllIoDone /\ fsteps[f] <= MaxYields
    /\ nrf' = Dec(nrf)
    /\ WakeStq(w, <<f>>, "after_switch")
    /\ fpc' = [fpc EXCEPT ![f] = "queued"]
    /\ fsteps' = [fsteps EXCEPT ![f] = @ + 1]
    /\ cur' = [cur EXCEPT ![w] = NoFiber]
    /\ UNCHANGED <<variant, locals, ssem, nfib, nw, pw, sem, intr, backoff, qv, lvars>>

\* Mutant: the wait forgets to decrement num_run_fibers.
IoWaitNoDec(w) ==
    LET f == cur[w] IN
    /\ wpc[w] = "running"
    /\ fsteps[f] = 0
    /\ fpc' = [fpc EXCEPT ![f] = "io_wait"]
    /\ fsteps' = [fsteps EXCEPT ![f] = 1]
    /\ cur' = [cur EXCEPT ![w] = NoFiber]
    /\ Go(w, "after_switch")
    /\ UNCHANGED <<svars, rq, nrf, nfib, nw, pw, sem, intr, backoff, pushn, ret>>

\* A socket operation gets EAGAIN and waits on the end's waiter:
\* fev_waiter_wait() decrements num_run_fibers and switches.
IoWait(w) ==
    LET f == cur[w] IN
    /\ wpc[w] = "running"
    /\ fsteps[f] = 0
    /\ nrf' = Dec(nrf)
    /\ fpc' = [fpc EXCEPT ![f] = "io_wait"]
    /\ fsteps' = [fsteps EXCEPT ![f] = 1]
    /\ cur' = [cur EXCEPT ![w] = NoFiber]
    /\ Go(w, "after_switch")
    /\ UNCHANGED <<svars, rq, nfib, nw, pw, sem, intr, backoff, pushn, ret>>

\* fev_fiber_exit() and fev_fiber_exit_post() on the worker: num_fibers--
\* and num_run_fibers--.
Exit(w) ==
    LET f == cur[w] IN
    /\ wpc[w] = "running"
    /\ fsteps[f] >= 1
    /\ f \notin IoFibers => (AllIoDone \/ fsteps[f] = MaxYields + 1)
    /\ nfib' = nfib - 1
    /\ nrf' = Dec(nrf)
    /\ fpc' = [fpc EXCEPT ![f] = "done"]
    /\ cur' = [cur EXCEPT ![w] = NoFiber]
    /\ Go(w, "after_switch")
    /\ UNCHANGED <<svars, rq, nw, pw, sem, intr, backoff, fsteps, pushn, ret>>

\* The kernel reports the socket ready: epoll will return the event.
Arrive(f) ==
    /\ fpc[f] = "io_wait"
    /\ fpc' = [fpc EXCEPT ![f] = "io_ready"]
    /\ UNCHANGED <<svars, rq, nrf, nfib, nw, pw, sem, intr, backoff, fsteps, wpc, cur,
                   pushn, ret, ssem>>

-----------------------------------------------------------------------------
(* fev_sched_work().                                                       *)

\* Back from the fiber: backoff = fetch_sub(&poller_backoff, 1); check the
\* poller if it was 1.
AfterSwitch(w) ==
    /\ wpc[w] = "after_switch" /\ IsShr
    /\ backoff' = Dec(backoff)
    /\ Go(w, IF backoff = 1 THEN "check_poller" ELSE "get_fiber")
    /\ UNCHANGED <<svars, rq, nrf, nfib, nw, pw, sem, intr, fpc, fsteps, cur, pushn,
                   ret>>

\* get_fiber: pop the head of the run queue under run_queue_lock and switch
\* to it, else check the poller.
GetFiber(w) ==
    /\ wpc[w] = "get_fiber" /\ variant = "shr_locking"
    /\ IF rq # <<>>
         THEN /\ cur' = [cur EXCEPT ![w] = Head(rq)]
              /\ rq' = Tail(rq)
              /\ fpc' = [fpc EXCEPT ![Head(rq)] = "running"]
              /\ Go(w, "running")
         ELSE /\ Go(w, "check_poller")
              /\ UNCHANGED <<cur, rq, fpc>>
    /\ UNCHANGED <<svars, nrf, nfib, nw, pw, sem, intr, backoff, fsteps, pushn, ret>>

\* get_fiber of shr_simple_mpmc: fev_simple_mpmc_queue_pop() loads the
\* head ...
MpmcLoadHead(w) ==
    /\ wpc[w] = "get_fiber" /\ variant = "shr_simple_mpmc"
    /\ Q!LoadHead(w)
    /\ Go(w, "pop_take")
    /\ UNCHANGED <<variant, lrq, locals, ssem, topush, lvars, rq, nrf, nfib, nw, pw, sem, intr,
                   backoff, fpc, fsteps, cur, pushn, ret>>

\* ... and goes on: empty to check_poller; back to load_head; a failed CAS
\* of the head back to load_tail; or the fiber is popped, the old dummy
\* goes to the worker's pool (fev_simple_mpmc_pool_free_local()) and the
\* worker switches to the fiber.
MpmcTake(w) ==
    /\ wpc[w] = "pop_take"
    /\ \/ Q!PopEmpty(w) /\ Go(w, "check_poller") /\ UNCHANGED <<cur, fpc>>
       \/ Q!PopRetry(w) /\ Go(w, "get_fiber") /\ UNCHANGED <<cur, fpc>>
       \/ Q!PopCasFail(w) /\ UNCHANGED <<wpc, cur, fpc>>
       \/ /\ Q!PopHit(w)
          /\ cur' = [cur EXCEPT ![w] = Q!Popped(w)]
          /\ fpc' = [fpc EXCEPT ![Q!Popped(w)] = "running"]
          /\ Go(w, "running")
    /\ UNCHANGED <<variant, lrq, locals, ssem, topush, lvars, rq, nrf, nfib, nw, pw, sem, intr,
                   backoff, fsteps, pushn, ret>>

\* fev_push_one() / fev_push_stq() of shr_simple_mpmc: for the next fiber,
\* a node from the worker's pool and fev_simple_mpmc_queue_push(): load the
\* tail, load its next (start over, help a lagging tail, or go on), CAS
\* the node in after it (or start over) ...
MpmcPushLoadTail(w) ==
    /\ wpc[w] = "push_link"
    /\ Q!PushLoadTail(w, Head(topush[w]))
    /\ Go(w, "push_next")
    /\ UNCHANGED <<variant, lrq, locals, ssem, topush, lvars, rq, nrf, nfib, nw, pw, sem, intr,
                   backoff, fpc, fsteps, cur, pushn, ret>>

MpmcPushLoadNext(w) ==
    /\ wpc[w] = "push_next"
    /\ \/ Q!PushNextStale(w) /\ Go(w, "push_link")
       \/ Q!PushHelp(w) /\ Go(w, "push_link")
       \/ Q!PushNextNull(w) /\ Go(w, "push_cas")
    /\ UNCHANGED <<variant, lrq, locals, ssem, topush, lvars, rq, nrf, nfib, nw, pw, sem, intr,
                   backoff, fpc, fsteps, cur, pushn, ret>>

MpmcPushLink(w) ==
    /\ wpc[w] = "push_cas"
    /\ Q!PushLink(w)
    /\ Go(w, IF Q!PushLinkOk(w) THEN "push_swing" ELSE "push_link")
    /\ UNCHANGED <<variant, lrq, locals, ssem, topush, lvars, rq, nrf, nfib, nw, pw, sem, intr,
                   backoff, fpc, fsteps, cur, pushn, ret>>

\* ... and swing the tail; after the last fiber, fev_wake_up_waiting_workers().
MpmcPushSwing(w) ==
    /\ wpc[w] = "push_swing"
    /\ Q!PushSwing(w)
    /\ topush' = [topush EXCEPT ![w] = Tail(@)]
    /\ Go(w, IF Len(topush[w]) = 1 THEN "wake_add" ELSE "push_link")
    /\ UNCHANGED <<variant, lrq, locals, ssem, lvars, rq, nrf, nfib, nw, pw, sem, intr,
                   backoff, fpc, fsteps, cur, pushn, ret>>

\* fev_poller_process(): epoll_wait() reports the ready sockets and the
\* interrupt; fev_process_socket() wakes each waiter and the woken fibers
\* are pushed (fev_push_stq()); the rest of fev_wake_stq() follows.
Ready == {f \in Fibers : fpc[f] = "io_ready"}

PollerProcess(w, next) ==
    /\ intr' = FALSE
    /\ fpc' = [f \in Fibers |-> IF f \in Ready THEN "queued" ELSE fpc[f]]
    /\ IF Ready # {}
         THEN \E s \in Orders(Ready) : WakeStq(w, s, next)
         ELSE Go(w, next) /\ UNCHANGED <<rq, lrq, pushn, ret, topush>>

\* check_poller: fev_poller_check(), epoll_wait() with timeout 0.
PollerCheck(w) ==
    /\ wpc[w] = "check_poller"
    /\ PollerProcess(w, "load_nrf")
    /\ UNCHANGED <<variant, locals, ssem, nrf, nfib, nw, pw, sem, backoff, fsteps, cur, qv, lvars>>

\* Mutant: the worker goes on to sleep without looking at num_run_fibers.
LoadNrfNoRecheck(w) ==
    /\ wpc[w] = "load_nrf"
    /\ backoff' = nrf
    /\ Go(w, "check_done")
    /\ UNCHANGED <<svars, rq, nrf, nfib, nw, pw, sem, intr, fpc, fsteps, cur, pushn,
                   ret>>

\* poller_backoff = num_run_fibers; go back to get_fiber if it is not 0.
LoadNrf(w) ==
    /\ wpc[w] = "load_nrf"
    /\ backoff' = nrf
    /\ Go(w, IF nrf > 0 THEN "get_fiber" ELSE "check_done")
    /\ UNCHANGED <<svars, rq, nrf, nfib, nw, pw, sem, intr, fpc, fsteps, cur, pushn,
                   ret>>

\* Are we done?  num_fibers == 0 ends the loop.
CheckDone(w) ==
    /\ wpc[w] = "check_done"
    /\ Go(w, CASE nfib = 0                -> "out"
              [] IsShr                   -> "wait_inc"
              [] OTHER                   -> "st_xchg")
    /\ UNCHANGED <<svars, rq, nrf, nfib, nw, pw, sem, intr, backoff, fpc, fsteps, cur,
                   pushn, ret, ssem>>

WaitInc(w) ==
    /\ wpc[w] = "wait_inc"
    /\ nw' = nw + 1
    /\ Go(w, "wait_xchg")
    /\ UNCHANGED <<svars, rq, nrf, nfib, pw, sem, intr, backoff, fpc, fsteps, cur,
                   pushn, ret, ssem>>

\* Mutant: poller_waiting is loaded but not set.
WaitXchgLoad(w) ==
    /\ wpc[w] = "wait_xchg"
    /\ Go(w, IF pw THEN "sem_wait" ELSE "poller_wait")
    /\ UNCHANGED <<svars, rq, nrf, nfib, nw, pw, sem, intr, backoff, fpc, fsteps, cur,
                   pushn, ret, ssem>>

\* exchange(&poller_waiting, true): the first sleeper blocks in the poller,
\* the others on the semaphore.
WaitXchg(w) ==
    /\ wpc[w] = "wait_xchg"
    /\ pw' = TRUE
    /\ Go(w, IF pw THEN "sem_wait" ELSE "poller_wait")
    /\ UNCHANGED <<svars, rq, nrf, nfib, nw, sem, intr, backoff, fpc, fsteps, cur,
                   pushn, ret, ssem>>

\* fev_poller_wait(): epoll_wait() blocks until an event or an interrupt.
PollerWait(w) ==
    /\ wpc[w] = "poller_wait"
    /\ Ready # {} \/ intr
    /\ PollerProcess(w, "pw_clear")
    /\ UNCHANGED <<variant, locals, ssem, nrf, nfib, nw, pw, sem, backoff, fsteps, cur, qv, lvars>>

PwClear(w) ==
    /\ wpc[w] = "pw_clear"
    /\ pw' = FALSE
    /\ Go(w, IF IsShr THEN "wait_dec" ELSE "poller_dec")
    /\ UNCHANGED <<svars, rq, nrf, nfib, nw, sem, intr, backoff, fpc, fsteps, cur,
                   pushn, ret, ssem>>

\* fev_thr_sem_wait(&sched->sem).
SemWait(w) ==
    /\ wpc[w] = "sem_wait"
    /\ sem > 0
    /\ sem' = sem - 1
    /\ Go(w, IF IsShr THEN "wait_dec" ELSE "sem_dec")
    /\ UNCHANGED <<svars, rq, nrf, nfib, nw, pw, intr, backoff, fpc, fsteps, cur,
                   pushn, ret, ssem>>

\* Where fetch_sub(&num_waiting, 1) is, and where the worker goes on: back
\* to get_fiber (shr_locking); after the semaphore or an aborted sleep to
\* get_global, after the poller to reload the local backoff (steal).
AfterDec == [wait_dec |-> "get_fiber", sem_dec |-> "get_global",
             undo_dec |-> "get_global", poller_dec |-> "load_backoff"]

\* Mutant: num_waiting is not decremented on resume.
WaitDecNoDec(w) ==
    /\ wpc[w] \in DOMAIN AfterDec
    /\ Go(w, AfterDec[wpc[w]])
    /\ UNCHANGED <<svars, rq, nrf, nfib, nw, pw, sem, intr, backoff, fpc, fsteps, cur,
                   pushn, ret, ssem>>

WaitDec(w) ==
    /\ wpc[w] \in DOMAIN AfterDec
    /\ nw' = nw - 1
    /\ Go(w, AfterDec[wpc[w]])
    /\ UNCHANGED <<svars, rq, nrf, nfib, pw, sem, intr, backoff, fpc, fsteps, cur,
                   pushn, ret, ssem>>

\* Mutant: termination posts the semaphore but does not interrupt the poller.
OutNoInterrupt(w) ==
    /\ wpc[w] = "out"
    /\ sem' = sem + Cardinality(Workers)
    /\ Go(w, "exited")
    /\ UNCHANGED <<svars, rq, nrf, nfib, nw, pw, intr, backoff, fpc, fsteps, cur, pushn,
                   ret>>

\* out: fev_sched_wake_all_workers() interrupts the poller and posts the
\* semaphore once per worker.
Out(w) ==
    /\ wpc[w] = "out"
    /\ PollerInterrupt
    /\ sem' = sem + Cardinality(Workers)
    /\ Go(w, "exited")
    /\ UNCHANGED <<svars, rq, nrf, nfib, nw, pw, backoff, fpc, fsteps, cur, pushn,
                   ret>>

-----------------------------------------------------------------------------
(* fev_sched_work() of the work-stealing schedulers.  Only the worker     *)
(* itself pushes onto its queue; others only take from it.  A local       *)
(* variable is cleared once the code no longer reads it.                  *)

\* Everything but the worker's own place and locals, for the steps below.
Others == <<variant, ssem, rq, nrf, nfib, nw, pw, sem, intr, backoff, fpc, fsteps,
            cur, pushn, ret, mvars>>

\* get_local: pop the head of the own queue under its lock, size--, and
\* switch to it; else get_global.
GetLocal(w) ==
    /\ wpc[w] = "get_local"
    /\ IF lrq[w] # <<>>
         THEN /\ cur' = [cur EXCEPT ![w] = Head(lrq[w])]
              /\ lrq' = [lrq EXCEPT ![w] = Tail(@)]
              /\ fpc' = [fpc EXCEPT ![Head(lrq[w])] = "running"]
              /\ Go(w, "running")
         ELSE /\ Go(w, "get_global")
              /\ UNCHANGED <<cur, lrq, fpc>>
    /\ UNCHANGED <<variant, locals, ssem, rq, nrf, nfib, nw, pw, sem, intr,
                   backoff, fsteps, pushn, ret, mvars>>

\* Back from the fiber: get_global once the local backoff is used up.
AfterSwitchLocal(w) ==
    /\ wpc[w] = "after_switch" /\ ~IsShr
    /\ IF lb[w] = 0
         THEN Go(w, "get_global") /\ UNCHANGED lb
         ELSE lb' = [lb EXCEPT ![w] = @ - 1] /\ Go(w, "get_local")
    /\ UNCHANGED <<lrq, stolen, tovisit, vic, lnrf, lnw, wasPw>>
    /\ UNCHANGED Others

\* get_global: fev_poller_check().
GetGlobal(w) ==
    /\ wpc[w] = "get_global"
    /\ PollerProcess(w, "load_size")
    /\ UNCHANGED <<variant, locals, ssem, nrf, nfib, nw, pw, sem, backoff, fsteps, cur, qv, lvars>>

\* backoff = size of the own queue; back to get_local if it is not 0,
\* else fev_sched_steal() over the other workers.
LoadSize(w) ==
    /\ wpc[w] = "load_size"
    /\ lb' = [lb EXCEPT ![w] = Len(lrq[w])]
    /\ IF lrq[w] # <<>>
         THEN Go(w, "get_local") /\ UNCHANGED tovisit
         ELSE /\ Go(w, "steal")
              /\ tovisit' = [tovisit EXCEPT ![w] = Workers \ {w}]
    /\ UNCHANGED <<lrq, stolen, vic, lnrf, lnw, wasPw>>
    /\ UNCHANGED Others

\* fev_sched_steal(): the next victim in (rnd + i) % num_workers order
\* (for at most three workers every order is such an order); nothing
\* stolen from any of them goes on to the sleep check.
Steal(w) ==
    /\ wpc[w] = "steal"
    /\ IF tovisit[w] = {}
         THEN Go(w, "st_load_nrf") /\ UNCHANGED <<tovisit, vic>>
         ELSE \E v \in tovisit[w] :
                /\ vic' = [vic EXCEPT ![w] = v]
                /\ tovisit' = [tovisit EXCEPT ![w] = @ \ {v}]
                /\ Go(w, "steal_take")
    /\ UNCHANGED <<lrq, stolen, lb, lnrf, lnw, wasPw>>
    /\ UNCHANGED Others

\* Under the victim's lock, take up to StealCount fibers from the head of
\* its queue and subtract them from its size.
StealTake(w) ==
    LET v == vic[w]
        k == IF Len(lrq[v]) < StealCount THEN Len(lrq[v]) ELSE StealCount
    IN /\ wpc[w] = "steal_take"
       /\ lrq' = [lrq EXCEPT ![v] = SubSeq(@, k + 1, Len(@))]
       /\ stolen' = [stolen EXCEPT ![w] = SubSeq(lrq[v], 1, k)]
       /\ Go(w, IF k > 0 THEN "steal_install" ELSE "steal")
       /\ vic' = [vic EXCEPT ![w] = w]
       /\ UNCHANGED <<tovisit, lb, lnrf, lnw, wasPw>>
       /\ UNCHANGED Others

\* Under the own lock, make the stolen fibers the own queue: its head is
\* set to them (the code asserts the queue was empty) and size to their
\* number; then backoff = num_stolen.
StealInstall(w) ==
    /\ wpc[w] = "steal_install"
    /\ lrq' = [lrq EXCEPT ![w] = stolen[w]]
    /\ lb' = [lb EXCEPT ![w] = Len(stolen[w])]
    /\ stolen' = [stolen EXCEPT ![w] = <<>>]
    /\ Go(w, "get_local")
    /\ tovisit' = [tovisit EXCEPT ![w] = {}]
    /\ UNCHANGED <<vic, lnrf, lnw, wasPw>>
    /\ UNCHANGED Others

\* The sleep check: num_run_fibers is loaded, then num_waiting.
StLoadNrf(w) ==
    /\ wpc[w] = "st_load_nrf"
    /\ lnrf' = [lnrf EXCEPT ![w] = nrf]
    /\ Go(w, "st_load_nw")
    /\ UNCHANGED <<lrq, stolen, tovisit, vic, lb, lnw, wasPw>>
    /\ UNCHANGED Others

\* As many runnable fibers as awake workers: back to get_global; none and
\* no fibers at all: out; else try to sleep.
StLoadNw(w) ==
    /\ wpc[w] = "st_load_nw"
    /\ Go(w, CASE lnrf[w] >= Cardinality(Workers) - nw -> "get_global"
              [] lnrf[w] = 0                           -> "check_done"
              [] OTHER                                 -> "st_xchg")
    /\ lnrf' = [lnrf EXCEPT ![w] = 0]
    /\ UNCHANGED <<lrq, stolen, tovisit, vic, lb, lnw, wasPw>>
    /\ UNCHANGED Others

\* poller_waiting = exchange(&poller_waiting, true).
StXchg(w) ==
    /\ wpc[w] = "st_xchg"
    /\ wasPw' = [wasPw EXCEPT ![w] = pw]
    /\ pw' = TRUE
    /\ Go(w, "st_add")
    /\ UNCHANGED <<lrq, stolen, tovisit, vic, lb, lnrf, lnw>>
    /\ UNCHANGED <<variant, ssem, rq, nrf, nfib, nw, sem, intr, backoff, fpc, fsteps,
                   cur, pushn, ret, mvars>>

\* num_waiting = fetch_add(&num_waiting, 1).
StAdd(w) ==
    /\ wpc[w] = "st_add"
    /\ lnw' = [lnw EXCEPT ![w] = nw]
    /\ nw' = nw + 1
    /\ Go(w, "st_recheck")
    /\ UNCHANGED <<lrq, stolen, tovisit, vic, lb, lnrf, wasPw>>
    /\ UNCHANGED <<variant, ssem, rq, nrf, nfib, pw, sem, intr, backoff, fpc, fsteps,
                   cur, pushn, ret, mvars>>

\* Reload num_run_fibers: a fiber made runnable meanwhile aborts the sleep;
\* else the first sleeper waits in the poller, the others on the semaphore.
StRecheck(w) ==
    /\ wpc[w] = "st_recheck"
    /\ IF nrf >= Cardinality(Workers) - lnw[w]
         THEN Go(w, "st_undo") /\ UNCHANGED wasPw
         ELSE /\ Go(w, IF wasPw[w] THEN "sem_wait" ELSE "poller_wait")
              /\ wasPw' = [wasPw EXCEPT ![w] = FALSE]
    /\ lnw' = [lnw EXCEPT ![w] = 0]
    /\ UNCHANGED <<lrq, stolen, tovisit, vic, lb, lnrf>>
    /\ UNCHANGED Others

\* The aborted sleep gives poller_waiting back if it had taken it.
StUndo(w) ==
    /\ wpc[w] = "st_undo"
    /\ pw' = IF wasPw[w] THEN pw ELSE FALSE
    /\ Go(w, "undo_dec")
    /\ wasPw' = [wasPw EXCEPT ![w] = FALSE]
    /\ UNCHANGED <<lrq, stolen, tovisit, vic, lb, lnrf, lnw>>
    /\ UNCHANGED <<variant, ssem, rq, nrf, nfib, nw, sem, intr, backoff, fpc, fsteps,
                   cur, pushn, ret, mvars>>

\* After the poller: backoff = size of the own queue, then get_local.
LoadBackoff(w) ==
    /\ wpc[w] = "load_backoff"
    /\ lb' = [lb EXCEPT ![w] = Len(lrq[w])]
    /\ Go(w, "get_local")
    /\ UNCHANGED <<lrq, stolen, tovisit, vic, lnrf, lnw, wasPw>>
    /\ UNCHANGED Others

-----------------------------------------------------------------------------
(* fev_sched_run() and fev_sched_thread_proc().                           *)

\* Where fev_sched_work() starts: get_fiber, or get_local.
FirstPc == IF IsShr THEN "get_fiber" ELSE "get_local"

\* fev_sched_run() on workers[0]: the thread of every other worker is
\* created (and blocks on start_sem), start_sem is posted once for each of
\* them, and workers[0] enters fev_sched_work().
RunStart(w) ==
    /\ wpc[w] = "create" /\ lpc = "run"
    /\ ssem' = Cardinality(Workers) - 1
    /\ Go(w, FirstPc)
    /\ UNCHANGED <<lrq, locals, mvars>>
    /\ UNCHANGED <<variant, rq, nrf, nfib, nw, pw, sem, intr, backoff, fpc,
                   fsteps, cur, pushn, ret>>

\* A fev_thr_create() fails: the threads created so far are cancelled while
\* they wait on start_sem and joined, and fev_sched_run() returns the error.
RunFail(w) ==
    /\ wpc[w] = "create" /\ lpc = "run" /\ Cardinality(Workers) > 1
    /\ wpc' = [v \in Workers |-> IF v = w THEN "run_failed" ELSE "cancelled"]
    /\ UNCHANGED <<lrq, locals>> /\ UNCHANGED Others

\* fev_sched_thread_proc(): wait on start_sem, then fev_sched_work().
StartWait(w) ==
    /\ wpc[w] = "start_wait"
    /\ ssem > 0
    /\ ssem' = ssem - 1
    /\ Go(w, FirstPc)
    /\ UNCHANGED <<lrq, locals, mvars>>
    /\ UNCHANGED <<variant, rq, nrf, nfib, nw, pw, sem, intr, backoff, fpc,
                   fsteps, cur, pushn, ret>>

Terminated == \A w \in Workers : wpc[w] \in {"exited", "run_failed", "cancelled"}

-----------------------------------------------------------------------------
(* fev_wake_up_waiting_workers() after pushing pushn[w] fibers, and        *)
(* fev_wake_workers_slow().                                                *)

WakeAdd(w) ==
    /\ wpc[w] = "wake_add"
    /\ nrf' = (nrf + pushn[w]) % Modulus
    /\ Go(w, "wake_load")
    /\ UNCHANGED <<svars, rq, nfib, nw, pw, sem, intr, backoff, fpc, fsteps, cur,
                   pushn, ret, ssem>>

\* Load num_waiting; if no worker waits, return; else n = min(pushed, waiting).
WakeLoad(w) ==
    /\ wpc[w] = "wake_load"
    /\ IF nw = 0
         THEN Go(w, ret[w]) /\ UNCHANGED pushn
         ELSE /\ pushn' = [pushn EXCEPT ![w] = IF @ > nw THEN nw ELSE @]
              /\ Go(w, "wake_slow")
    /\ UNCHANGED <<svars, rq, nrf, nfib, nw, pw, sem, intr, backoff, fpc, fsteps, cur,
                   ret>>

\* Interrupt the poller if a worker waits in it, post the semaphore for the
\* rest.
WakeSlow(w) ==
    /\ wpc[w] = "wake_slow"
    /\ IF pw
         THEN PollerInterrupt /\ sem' = sem + pushn[w] - 1
         ELSE sem' = sem + pushn[w] /\ UNCHANGED intr
    /\ pushn' = [pushn EXCEPT ![w] = 0]
    /\ Go(w, ret[w])
    /\ UNCHANGED <<svars, rq, nrf, nfib, nw, pw, backoff, fpc, fsteps, cur, ret>>

-----------------------------------------------------------------------------
(* The caller's thread, which runs workers[0] in fev_sched_run():        *)
(* fev_sched_create(), fev_fiber_create() of every fiber before          *)
(* fev_sched_run(), and fev_sched_destroy() once fev_sched_run() has      *)
(* returned.                                                               *)

\* fev_fiber_create() of f: num_fibers++, then fev_sched_put(): at the head
\* of the shared queue (shr_locking), at the tail of workers[0]'s queue
\* (steal_locking), or in a node pushed on the Michael-Scott queue;
\* num_run_fibers++.  The node of shr_simple_mpmc comes from the global
\* pool, empty before the run, so from fev_aligned_alloc(), which may
\* return NULL: fev_sched_put() then returns -ENOMEM, which
\* fev_fiber_create() ignores, so the fiber is counted in num_fibers but
\* on no queue ("lost").  The caller then runs fev_sched_run().
PutResults == IF PutCanFail /\ variant = "shr_simple_mpmc" THEN BOOLEAN ELSE {TRUE}

Put(f) ==
    /\ lpc = "put" /\ fpc[f] = "new"
    /\ nfib' = nfib + 1
    /\ \E ok \in PutResults :
        IF ok
          THEN /\ nrf' = (nrf + 1) % Modulus
               /\ fpc' = [fpc EXCEPT ![f] = "queued"]
               /\ CASE variant = "shr_locking"   -> rq' = <<f>> \o rq /\ UNCHANGED <<lrq, qv>>
                    [] variant = "steal_locking" -> /\ lrq' = [lrq EXCEPT ![FirstWorker] = @ \o <<f>>]
                                                   /\ UNCHANGED <<rq, qv>>
                    [] OTHER                     -> Q!PutNode(f) /\ UNCHANGED <<rq, lrq>>
          ELSE /\ fpc' = [fpc EXCEPT ![f] = "lost"]
               /\ UNCHANGED <<nrf, rq, lrq, qv>>
    /\ lpc' = IF \E g \in Fibers \ {f} : fpc[g] = "new" THEN "put" ELSE "run"
    /\ UNCHANGED <<variant, locals, ssem, topush, held, dbl, nfreed, nw, pw, sem, intr,
                   backoff, fsteps, wpc, cur, pushn, ret>>

\* A fiber whose fev_sched_put() failed.
PutLost == \E f \in Fibers : fpc[f] = "lost"

\* fev_sched_run() has returned (every worker is out of fev_sched_work(),
\* or the threads were never started): fev_sched_destroy().
Destroy ==
    /\ lpc = "run" /\ Terminated
    /\ L!SchedDestroy
    /\ UNCHANGED <<rq, lrq, locals, ssem, topush, nrf, nfib, nw, pw, sem, intr, backoff,
                   fpc, fsteps, wpc, cur, pushn, ret>>

Caller ==
    \/ L!InitStep /\ UNCHANGED <<rq, lrq, locals, ssem, topush, nrf, nfib, nw, pw, sem,
                                 intr, backoff, fpc, fsteps, wpc, cur, pushn, ret>>
    \/ \E f \in Fibers : Put(f)
    \/ Destroy

-----------------------------------------------------------------------------

WorkerStep(w) ==
    \/ Yield(w) \/ IoWait(w) \/ Exit(w)
    \/ AfterSwitch(w) \/ GetFiber(w) \/ PollerCheck(w) \/ LoadNrf(w)
    \/ CheckDone(w) \/ WaitInc(w) \/ WaitXchg(w) \/ PollerWait(w) \/ PwClear(w)
    \/ SemWait(w) \/ WaitDec(w) \/ Out(w)
    \/ WakeAdd(w) \/ WakeLoad(w) \/ WakeSlow(w)
    \/ GetLocal(w) \/ AfterSwitchLocal(w) \/ GetGlobal(w) \/ LoadSize(w)
    \/ Steal(w) \/ StealTake(w) \/ StealInstall(w) \/ StLoadNrf(w) \/ StLoadNw(w)
    \/ StXchg(w) \/ StAdd(w) \/ StRecheck(w) \/ StUndo(w) \/ LoadBackoff(w)
    \/ RunStart(w) \/ RunFail(w) \/ StartWait(w)
    \/ MpmcLoadHead(w) \/ MpmcTake(w) \/ MpmcPushLoadTail(w) \/ MpmcPushLoadNext(w)
    \/ MpmcPushLink(w) \/ MpmcPushSwing(w)
    \/ w = FirstWorker /\ Caller


RunFailed == \E w \in Workers : wpc[w] = "run_failed"

Next ==
    \/ \E w \in Workers : WorkerStep(w)
    \/ \E f \in Fibers : Arrive(f)
    \/ L!Done /\ UNCHANGED vars

\* Worker threads keep being scheduled by the OS (workers[0] runs on the
\* caller's thread) and the awaited socket events do arrive.
\* A non-empty own queue is popped: a worker that has just installed stolen
\* fibers pops one within a few instructions, and is not robbed of it by
\* another worker's whole steal path every time.
PopLocal(w) == GetLocal(w) /\ lrq[w] # <<>>

Fairness ==
    /\ \A w \in Workers : WF_vars(WorkerStep(w)) /\ SF_vars(PopLocal(w))
    /\ \A f \in Fibers : WF_vars(Arrive(f))

Spec == Init /\ [][Next]_vars /\ Fairness

-----------------------------------------------------------------------------
(* Properties.                                                             *)

WPCs == {"running", "after_switch", "get_fiber", "check_poller", "load_nrf",
         "check_done", "wait_inc", "wait_xchg", "poller_wait", "pw_clear",
         "sem_wait", "wait_dec", "out", "exited", "wake_add", "wake_load",
         "wake_slow", "get_local", "get_global", "load_size", "steal", "steal_take", "steal_install",
         "st_load_nrf", "st_load_nw", "st_xchg", "st_add", "st_recheck",
         "st_undo", "undo_dec", "sem_dec", "poller_dec", "load_backoff",
         "create", "start_wait", "run_failed", "cancelled", "pop_take",
         "push_link", "push_next", "push_cas", "push_swing"}

TypeOK ==
    /\ variant \in Variants
    /\ rq \in Seq(Fibers)
    /\ lrq \in [Workers -> Seq(Fibers)] /\ stolen \in [Workers -> Seq(Fibers)]
    /\ tovisit \in [Workers -> SUBSET Workers] /\ vic \in [Workers -> Workers]
    /\ lb \in [Workers -> 0..Cardinality(Fibers)]
    /\ lnrf \in [Workers -> 0..Modulus - 1]
    /\ lnw \in [Workers -> 0..Cardinality(Workers)]
    /\ wasPw \in [Workers -> BOOLEAN]
    /\ nrf \in 0..Modulus - 1 /\ backoff \in 0..Modulus - 1
    /\ nfib \in 0..Cardinality(Fibers)
    /\ nw \in 0..Cardinality(Workers) /\ pw \in BOOLEAN /\ intr \in BOOLEAN
    /\ sem \in Nat
    /\ fpc \in [Fibers -> {"new", "queued", "running", "io_wait", "io_ready", "done", "lost"}]
    /\ fsteps \in [Fibers -> 0..MaxYields + 1]
    /\ wpc \in [Workers -> WPCs] /\ cur \in [Workers -> Fibers \cup {NoFiber}]
    /\ pushn \in [Workers -> 0..Cardinality(Fibers)]
    /\ ssem \in 0..Cardinality(Workers) - 1
    /\ topush \in [Workers -> Seq(Fibers)]
    /\ Q!QTypeOK
    /\ L!LTypeOK

\* The fibers pushed whose num_run_fibers increment has not happened yet.
PendingAdds == MapThenSumSet(LAMBDA w : pushn[w],
                    {w \in Workers : wpc[w] \in {"push_link", "push_next", "push_cas", "push_swing",
                                                "wake_add"}})

Runnable == {f \in Fibers : fpc[f] \in {"queued", "running"}}

\* num_run_fibers counts the queued and running fibers, except those whose
\* pusher has not added them yet: every switch-out (yield, wait, exit)
\* decrements it once and every push increments it once, by as many as it
\* pushed.
NrfMatches == nrf = (Cardinality(Runnable) + Modulus - PendingAdds) % Modulus

\* spec.md 4.13: at most one worker blocks in poller_wait, and while one
\* does, poller_waiting is set, so fev_wake_workers_slow() interrupts it.
OnePollerWaiter ==
    /\ Cardinality({w \in Workers : wpc[w] = "poller_wait"}) <= 1
    /\ (\E w \in Workers : wpc[w] = "poller_wait") => pw

\* Every fiber ends, unless fev_sched_create() or fev_sched_run() failed to
\* start the workers, or fev_sched_put() failed for one of them: a fiber
\* pushed on a run queue is run even if workers went to sleep meanwhile,
\* and a socket event reaches its fiber even while every worker sleeps.
AllFibersDone ==
    <>(lpc = "failed" \/ RunFailed \/ PutLost \/ \A f \in Fibers : fpc[f] = "done")

\* Every worker leaves fev_sched_work() once the last fiber has exited,
\* including those asleep on the semaphore or in the poller (and a failed
\* fev_sched_run() leaves no worker thread behind), so fev_sched_run()
\* returns and the caller destroys the scheduler, unless creating it
\* failed.  The exception is a fiber lost by a failed fev_sched_put():
\* num_fibers never drops to 0, and the workers sleep for ever.
WorkersTerminate == <>(L!Done \/ PutLost)

\* A failed fev_sched_create(), and fev_sched_destroy() after the run,
\* release every resource (allocations, file descriptors, semaphore,
\* queue nodes) exactly once, whichever acquisition of fev_sched_init()
\* fails and whatever nodes the workers left in their pools.
ResourcesReleased == L!ResourcesReleased

\* How often the fiber f is in the sequence s.
Occurrences(s, f) == Cardinality({i \in DOMAIN s : s[i] = f})

\* The fibers a worker has still to link into the Michael-Scott queue (in
\* push_swing the first of them is linked already).
Unlinked(w) == IF wpc[w] = "push_swing" THEN Tail(topush[w]) ELSE topush[w]

\* The workers whose node for the Michael-Scott queue is not linked yet.
Linking == {w \in Workers : wpc[w] \in {"push_link", "push_next", "push_cas"}
                                /\ pnode[w] # NullNode}

\* The copies of f held by the run queues: the shared queue, every
\* worker's own queue and stolen fibers, the Michael-Scott list, the
\* fibers a worker has still to push onto it, and those linked after a
\* node another worker has not linked yet.
Copies(f) ==
    Occurrences(rq, f) + Occurrences(Q!Contents, f)
      + MapThenSumSet(LAMBDA w : Occurrences(lrq[w], f) + Occurrences(stolen[w], f)
                                   + Occurrences(Unlinked(w), f), Workers)
      + MapThenSumSet(LAMBDA w : Occurrences(Q!Hanging(pnode[w]), f), Linking)

\* A fiber made runnable is held by the run queues exactly once until a
\* worker takes it, and no other fiber is held: no push is lost or
\* doubled, whether under run_queue_lock, by a steal in flight, or by a
\* lock-free push and pop of fev_simple_mpmc_queue.h racing other pushes
\* and pops that use a stale head or a recycled node; and the Michael-Scott
\* list stays well formed (acyclic, ending in null, its tail on it, none of
\* its nodes free in a pool).
RunQueueHoldsQueued ==
    /\ \A f \in Fibers : Copies(f) = IF fpc[f] = "queued" THEN 1 ELSE 0
    /\ Q!WellFormed({pnode[w] : w \in Linking})

=============================================================================
