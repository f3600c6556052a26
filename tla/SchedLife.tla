----------------------------- MODULE SchedLife -----------------------------
(***************************************************************************)
(* The creation and destruction of a scheduler: fev_sched_create() and    *)
(* fev_sched_destroy() (fev_sched_common.c) around fev_sched_init() and   *)
(* fev_sched_fini() of each scheduler variant, with fev_poller_init() and *)
(* fev_poller_fini() of the epoll poller and fev_timers_init() and        *)
(* fev_timers_fini().  Both run on the caller's thread, before the        *)
(* workers start and after they have been joined, so each acquisition is  *)
(* a step with a success and a failure outcome, and a failure runs the    *)
(* whole unwinding (the fall-through of the goto labels) as one step.     *)
(*                                                                         *)
(* A resource is a name in `held`; releasing one not held (a double free  *)
(* or close) sets `dbl`.  The nodes of the shr_simple_mpmc run queue are  *)
(* the nodes of SimpleMpmcQueue: allocated when taken from `fresh`, freed *)
(* (to malloc) when fev_simple_mpmc_pool_fini_global() pops them, which   *)
(* adds them to `nfreed`.                                                  *)
(*                                                                         *)
(* On Linux fev_thr_mutex_init(), fev_spinlock_init() and                  *)
(* fev_ilock_init() always return 0, so the run-queue locks, the timer    *)
(* buckets and run_queue_lock are initialised without a failure outcome;  *)
(* the allocations, sem_init() and the file descriptors can fail.          *)
(*                                                                         *)
(* The module has no Next of its own: Sched runs the scheduler between    *)
(* the two phases.                                                         *)
(***************************************************************************)
EXTENDS Naturals, Sequences, SequencesExt, FiniteSetsExt

CONSTANTS Workers, Fibers, NoFiber, Nodes, NullNode, LocalPoolSize,
          TimerFds  \* the timerfd of each of the FEV_TIMERS_BUCKETS buckets

VARIABLES
    variant,    \* the scheduler built
    lpc,        \* where the creating or destroying thread is
    held,       \* the resources acquired and not released
    dbl,        \* a resource was released that was not held
    nfreed,     \* the queue nodes returned to the allocator
    head, tail, nval, nnext, lpool, gpool, fresh, lhead, ltail, pnode

Q == INSTANCE SimpleMpmcQueue WITH Values <- Fibers, NoValue <- NoFiber,
                         Null <- NullNode

lvars == <<lpc, held, dbl, nfreed>>
qvars == <<head, tail, nval, nnext, lpool, gpool, fresh, lhead, ltail, pnode>>

IsMpmc == variant = "shr_simple_mpmc"

\* What fev_timers_fini() finalises: the locks of every bucket, one
\* resource since none of them can fail to initialise on Linux.
TimersRes == {"timers"}

\* The descriptors fev_poller_fini() closes: every bucket's timerfd, the
\* eventfd and the epoll instance.
PollerRes == ToSet(TimerFds) \cup {"event_fd", "epoll_fd"}

\* What fev_sched_fini_workers() releases: the workers array, and in
\* steal_locking each worker's run-queue lock first.
WorkersRes == IF variant = "steal_locking" THEN {"rq_locks", "workers"} ELSE {"workers"}

LInit ==
    /\ lpc = "create" /\ held = {} /\ dbl = FALSE /\ nfreed = {}
    /\ Q!QStart

Acquire(rs, next) ==
    /\ held' = held \cup rs
    /\ lpc' = next
    /\ UNCHANGED <<dbl, nfreed, qvars>>

\* Mutant: fev_simple_mpmc_pool_fini_global() runs before
\* fev_sched_fini_workers() empties the local caches into the free stack.
FiniNodesBeforeLocals(withDummy) ==
    (IF withDummy THEN <<head>> ELSE <<>>) \o gpool

\* The nodes fev_simple_mpmc_pool_fini_global() pops and frees, in stack
\* order: those fev_sched_fini_workers() pushed from every worker's local
\* cache (fev_simple_mpmc_pool_fini_local()), then the dummy that
\* fev_simple_mpmc_queue_fini() returns and fev_sched_fini() (or the
\* fail_node label) pushes, then the free stack.
FiniNodes(withDummy) ==
    FlattenSeq([i \in 1..Cardinality(Workers) |-> lpool[SetToSeq(Workers)[i]]])
      \o (IF withDummy THEN <<head>> ELSE <<>>) \o gpool

\* Release, in order, the resource sets rs and the nodes ns, then go on to
\* `next`.  A resource released twice or never acquired, or a node freed
\* twice or never allocated, sets dbl.
Release(rs, ns, next) ==
    LET all == UNION {rs[i] : i \in DOMAIN rs} IN
    /\ held' = held \ all
    /\ nfreed' = nfreed \cup ToSet(ns)
    /\ dbl' = \/ dbl
              \/ \E i, j \in DOMAIN rs : i # j /\ rs[i] \cap rs[j] # {}
              \/ ~(all \subseteq held)
              \/ ~IsInjective(ns) \/ ToSet(ns) \cap (nfreed \cup fresh) # {}
    /\ gpool' = <<>> /\ lpool' = [w \in Workers |-> <<>>]
    /\ lpc' = next
    /\ UNCHANGED <<head, tail, nval, nnext, fresh, lhead, ltail, pnode>>

-----------------------------------------------------------------------------
(* fev_sched_init() failing at a goto label: the rest of the unwinding.   *)

\* The labels of fev_sched_init() in fall-through order (those of
\* shr_simple_mpmc only in that variant), and what each releases.
FailLabels ==
    IF IsMpmc
      THEN <<"fail_timers", "fail_poller", "fail_workers", "fail_node", "fail_pool">>
      ELSE <<"fail_timers", "fail_poller", "fail_workers">>

LabelRes(l) ==
    CASE l = "fail_timers"  -> TimersRes
      [] l = "fail_poller"  -> PollerRes
      [] l = "fail_workers" -> WorkersRes
      [] l = "fail_node"    -> {}
      [] l = "fail_pool"    -> {"run_queue"}

\* fev_sched_init() fails after releasing rs on its own (inside a callee),
\* goes to label l, returns, and fev_sched_create() frees the scheduler.
\* fail_pool frees the nodes of the free stack, fail_node first pushes the
\* dummy onto it.
InitFail(rs, l) ==
    LET k == IF l = "fail" THEN Len(FailLabels) + 1
             ELSE CHOOSE i \in 1..Len(FailLabels) : FailLabels[i] = l
        ls == SubSeq(FailLabels, k, Len(FailLabels))
    IN Release(rs \o [i \in 1..Len(ls) |-> LabelRes(ls[i])] \o <<{"sched"}>>,
               IF IsMpmc /\ \E i \in DOMAIN ls : ls[i] = "fail_pool"
                 THEN FiniNodes(\E i \in DOMAIN ls : ls[i] = "fail_node") ELSE <<>>,
               "failed")

-----------------------------------------------------------------------------
(* fev_sched_create() and fev_sched_init(), one acquisition per step.     *)

\* fev_sched_create(): the scheduler itself, or -ENOMEM.
SchedAlloc ==
    /\ lpc = "create"
    /\ \/ Acquire({"sched"}, IF IsMpmc THEN "alloc_run_queue" ELSE "init_workers")
       \/ lpc' = "failed" /\ UNCHANGED <<held, dbl, nfreed, qvars>>

\* shr_simple_mpmc: the run queue; then fev_simple_mpmc_pool_init_global()
\* and the dummy from the pool, fev_simple_mpmc_queue_init().
AllocRunQueue ==
    /\ lpc = "alloc_run_queue"
    /\ Acquire({"run_queue"}, "alloc_dummy") \/ InitFail(<<>>, "fail")

AllocDummy ==
    /\ lpc = "alloc_dummy"
    /\ \/ Q!QueueInit /\ lpc' = "init_workers" /\ UNCHANGED <<held, dbl, nfreed>>
       \/ InitFail(<<>>, "fail_pool")

\* fev_sched_init_workers(): the workers array (and each worker's
\* run-queue lock, or its empty local pool).
InitWorkers ==
    /\ lpc = "init_workers"
    /\ \/ Acquire(WorkersRes, "epoll_create")
       \/ InitFail(<<>>, IF IsMpmc THEN "fail_node" ELSE "fail")

\* fev_poller_init(): epoll_create1(), eventfd(), epoll_ctl() of the
\* eventfd, each undoing the earlier ones when it fails; then
\* fev_sched_init() goes to fail_workers.
EpollCreate ==
    /\ lpc = "epoll_create"
    /\ Acquire({"epoll_fd"}, "eventfd") \/ InitFail(<<>>, "fail_workers")

EventFd ==
    /\ lpc = "eventfd"
    /\ Acquire({"event_fd"}, "event_ctl") \/ InitFail(<<{"epoll_fd"}>>, "fail_workers")

EventCtl ==
    /\ lpc = "event_ctl"
    /\ \/ lpc' = "timer_fd" /\ UNCHANGED <<held, dbl, nfreed, qvars>>
       \/ InitFail(<<{"event_fd"}, {"epoll_fd"}>>, "fail_workers")

\* fev_poller_create_timer_fds(), bucket n: timerfd_create() and
\* epoll_ctl(); when either fails (the second closing the new fd), the
\* fds of buckets n-1..0 are closed, then the eventfd and epoll.
TimerFd ==
    LET n == Cardinality(held \cap ToSet(TimerFds)) IN
    /\ lpc = "timer_fd"
    /\ \/ Acquire({TimerFds[n + 1]}, IF n + 1 = Len(TimerFds) THEN "timers_init" ELSE "timer_fd")
       \/ InitFail(<<{TimerFds[i] : i \in 1..n}, {"event_fd"}, {"epoll_fd"}>>, "fail_workers")

\* fev_timers_init(): every bucket's locks (which cannot fail on Linux).
TimersInit ==
    /\ lpc = "timers_init"
    /\ Acquire(TimersRes, "sem_init")

\* fev_thr_sem_init(&sched->sem, 0) (sem_init() may fail); then
\* run_queue_lock in shr_locking.
SemInit ==
    /\ lpc = "sem_init"
    /\ \/ Acquire({"sem"}, IF variant = "shr_locking" THEN "mutex_init" ELSE "put")
       \/ InitFail(<<>>, "fail_timers")

MutexInit ==
    /\ lpc = "mutex_init"
    /\ Acquire({"rq_lock"}, "put")

InitStep ==
    /\ \/ SchedAlloc \/ AllocRunQueue \/ AllocDummy \/ InitWorkers
       \/ EpollCreate \/ EventFd \/ EventCtl \/ TimerFd \/ TimersInit
       \/ SemInit \/ MutexInit
    /\ UNCHANGED variant

-----------------------------------------------------------------------------
(* fev_sched_destroy(): fev_sched_fini(), then the scheduler is freed.    *)

\* What fev_sched_fini() releases, in its order: run_queue_lock
\* (shr_locking), the semaphore, the timers, the poller, the workers; in
\* shr_simple_mpmc then the nodes and the run queue.
FiniRes ==
    (IF variant = "shr_locking" THEN <<{"rq_lock"}>> ELSE <<>>)
      \o <<{"sem"}, TimersRes, PollerRes, WorkersRes>>
      \o (IF IsMpmc THEN <<{"run_queue"}>> ELSE <<>>)

SchedDestroy ==
    /\ Release(FiniRes \o <<{"sched"}>>, IF IsMpmc THEN FiniNodes(TRUE) ELSE <<>>,
               "destroyed")
    /\ UNCHANGED variant

\* Creation failed or the scheduler is destroyed.
Done == lpc \in {"failed", "destroyed"}

LPCs == {"create", "alloc_run_queue", "alloc_dummy", "init_workers", "epoll_create",
         "eventfd", "event_ctl", "timer_fd", "timers_init", "sem_init", "mutex_init",
         "put", "run", "failed", "destroyed"}

LTypeOK ==
    /\ lpc \in LPCs
    /\ held \subseteq {"sched", "run_queue", "workers", "rq_locks", "timers", "sem",
                       "rq_lock"} \cup PollerRes
    /\ dbl \in BOOLEAN /\ nfreed \subseteq Nodes

\* A fev_sched_create() that fails, and fev_sched_destroy(), leave no
\* resource behind and release none twice or unacquired, whichever
\* acquisition fails and whatever the workers left in the node caches:
\* every queue node ever allocated has been freed exactly once, except
\* the nodes still holding fibers when fev_sched_run() failed to start
\* its threads, which fev_sched_fini() does not drain.
ResourcesReleased ==
    /\ ~dbl
    /\ Done => /\ held = {}
              /\ nfreed \cup ToSet(Q!Chain) = Nodes \ fresh
              /\ nfreed \cap ToSet(Q!Chain) = {}

====
