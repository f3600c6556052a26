# TLA+ models of libfev

libfev is an M:N fiber runtime written in C; its sources are under
`src/src` and `src/include/fev`. This directory holds:
- TLA+ models of its concurrent core;
- the TLC configurations that check them;
- this document.

`PROJECT.json` records the following:
- every component, modelled or not;
- every run, with the properties it checks;
- a mutant for every property of a passing run: a plausible bug in the mapped code that TLC must catch;
- the source lines each definition translates (`map`);
- the findings;
- the hazards of the code, with the properties that cover them.

Check a model from this directory with `tlc -workers 2 -config X.cfg MC_X`.

## 1. The system and how its parts interact

libfev runs many fibers on a few worker threads.
- A fiber that must block prepares a **waiter** (`fev_waiter_impl.h`), then switches to its worker's stack.
  - There the post-switch callback `fev_waiter_enable_wake_ups` arms `do_wake`.
- An actor that wants the fiber to run calls `fev_waiter_wake`. If it wins `do_wake`, it pushes the fiber on a run queue through `fev_wake_one`/`fev_wake_stq` (`fev_sched_impl.h`). Such an actor can be:
  - a `fev_waiters_queue_wake` of a mutex, condition variable or semaphore;
  - the epoll poller, for a socket or a timerfd;
  - an expiring timer.
- Pushing a fiber also adds to `num_run_fibers`. If workers sleep, the pusher wakes them through the scheduler's semaphore, or interrupts the one sleeping in `epoll_wait` through the eventfd.
- Every **waiters queue** (`fev_waiters_queue_impl.h`) is guarded by an **ilock** (`fev_ilock.c`). The ilock is a fiber lock with a fast CAS path and a slow path. The slow path takes an inner thread lock, queues the fiber and parks it. The inner lock is, by build choice, a spin lock or a futex mutex.
- The **mutex**, **condition variable** and **semaphore** (`fev_mutex.c`, `fev_cond.c`, `fev_sem.c`) are built on waiters queues. Their timed variants arm a **timer** in a bucket chosen by hashing the waiter (`fev_timers.c`). By build choice a bucket is a binary heap (`fev_timers_binheap.c`) or a red-black tree (`fev_timers_rbtree.c`). In the heap build without `FEV_ASSUME_MALLOC_NEVER_FAILS`, adding a timer can fail with `-ENOMEM`, and the timed wait then returns that error without waiting. The bucket's minimum is published under `min_lock` and programmed into a timerfd that epoll reports.
- A **socket** operation (`fev_socket_reactor.c`) tries the system call. On EAGAIN it registers with epoll and waits on the socket end's waiter, which is reused from one wait to the next.
- A socket closed while workers may still hold epoll events for it is freed by **QSBR** (`fev_qsbr.h`) once every worker has passed a quiescent point.
- A **fiber** (`fev_fiber.c`) is reference counted. Its creator's handle, the fiber itself and a joiner hold references. Join waits on a condition variable under the fiber's mutex. It is created from a **fiber attr** (`fev_fiber_attr.c`) that says whether it is detached and whether it runs on a user stack or one `fev_stack_alloc` maps (`fev_stack_posix.c`).
- A **scheduler** is made by `fev_sched_create` (`fev_sched_common.c`). It allocates the run queue, the workers, the epoll poller with its eventfd and one timerfd per timer bucket, the timer buckets and the semaphore, unwinding on any failure. `fev_sched_put` queues the first fibers, `fev_sched_run` starts one thread per extra worker and runs worker 0 on the caller's thread, and `fev_sched_destroy` releases everything.
- The **scheduler** loop (`fev_sched_shr_locking.c`, `fev_sched_steal_locking.c`, `fev_sched_shr_simple_mpmc.c`) does the following:
  - pops fibers: from one locked queue, from per-worker locked queues, or from a lock-free Michael-Scott queue whose nodes come from per-worker caches over a global free stack (`fev_simple_mpmc_*.h`);
  - checks the poller every `poller_backoff` switches;
  - sleeps in the poller or on the semaphore when idle;
  - steals from other workers in the work-stealing variant;
  - stops every worker once the last fiber exits.

## 2. Modules

| Module | Models | Sources |
|---|---|---|
| `Waiter` | the waiter handshake: fiber, post-switch callback, two wakers, each atomic access one step; the waiters-queue and the socket caller, including the socket operation loop | `fev_waiter_impl.h`, `fev_waiters_queue_impl.h`, `fev_socket_reactor.c`, `fev_poller_epoll.c` |
| `InnerLock` | `ilock->lock`: the test-and-test-and-set spin lock or the futex mutex (weak-CAS fast path, exchange-2 slow path, FUTEX_WAIT with EINTR, FUTEX_WAKE), chosen in Init | `fev_spinlock_impl.h`, `fev_thr_mutex_linux.{c,h}` |
| `ILock` | the ilock's fast and slow lock and unlock paths, the post-switch callback that releases the inner lock, FIFO handoff; instantiates `InnerLock` | `fev_ilock.c`, `fev_ilock_impl.h` |
| `ILockSpec` | the abstract FIFO lock that `ILock` refines | — |
| `Sem` | `fev_sem_wait`, `fev_sem_wait_until` (EAGAIN retry), `fev_sem_post` and its callback, composed with `ILock` for the queue's lock | `fev_sem.c`, `fev_waiters_queue_impl.h` |
| `MutexCond` | mutex lock/try_lock_until/unlock with handoff, cond wait/wait_until/notify_one/notify_all, the ilock as an atomic section, the timer add of a timed wait (which can fail with `-ENOMEM` in one build); a C caller and the `fev++.hpp` `wait_until(pred)` caller | `fev_mutex.c`, `fev_cond.c`, `fev_waiters_queue_impl.h`, `fev++.hpp` |
| `BinheapOps` | the bucket heap: sift up/down, grow, add, del, del_min, empty and the expired mark as RECURSIVE operators on a record | `fev_timers_binheap.{c,h}` |
| `RbtreeOps` | the red-black-tree bucket: the tree as the ordered set of its timers (`fev_timers_cmp`: deadline, then waiter address), the cached `tree_min` with the code's RB_LEFT test on add and RB_NEXT on del/del_min, and the `expired` flag | `fev_timers_rbtree.{c,h}` |
| `TimerBucket` | `fev_timed_wait` (with the `-ENOMEM` of a failed grow), `fev_timers_add/del/process`, `min_lock`, the timerfd and the poller's timer handler, on one bucket of either build | `fev_timers.c`, `fev_timers.h`, `fev_poller_epoll.c` |
| `TimeSpec` | `fev_timespec_cmp`, `fev_timespec_abs_to_rel`, `fev_get_abs_time_since_now`, `fev_timespec_to_ns` at small widths, with an exact reference | `fev_time.h` |
| `Sched` | `fev_sched_work` of the three schedulers (shared locked queue, work-stealing locked queues, shared lock-free queue), the poller check and wait, sleeping, wake-ups, termination, `fev_sched_run` startup; the caller's `fev_sched_create`, `fev_sched_put` and `fev_sched_destroy` around them, as steps of worker 0 | `fev_sched_shr_locking*.{c,h}`, `fev_sched_steal_locking*.{c,h}`, `fev_sched_shr_simple_mpmc*.{c,h}`, `fev_sched_common.c`, `fev_sched_impl.h`, `fev_poller_epoll.{c,h}` |
| `SimpleMpmcQueue` | the Michael-Scott queue (push as load-tail, load-next, the CAS of `tail->next` and the swing of the tail; pop as load-head and take; the (pointer, count) CAS kept as "swapped since loaded", and a node's `next` count, which push resets to 0, as "next is null") and the node pool with its per-worker caches and global free stack; no Next of its own | `fev_simple_mpmc_queue.h`, `fev_simple_mpmc_pool.h`, `fev_simple_mpmc_stack.h` |
| `MsQueue` | the Michael-Scott queue alone under workers that push (`fev_push_one`) and pop (`get_fiber`) in any order, each fiber pushed once | `fev_simple_mpmc_queue.h`, `fev_sched_shr_simple_mpmc*.{c,h}` |
| `SchedLife` | `fev_sched_create`/`fev_sched_init` of each variant with `fev_poller_init` and `fev_timers_init`, each acquisition a step that may fail and unwind, and `fev_sched_fini`/`fev_sched_destroy`; resources are names in `held`, queue nodes those of `SimpleMpmcQueue`; no Next of its own | `fev_sched_common.c`, `fev_sched_*_locking.c`, `fev_sched_shr_simple_mpmc.c`, `fev_poller_epoll.c`, `fev_timers.c`, `fev_simple_mpmc_pool.h` |
| `Fiber` | `fev_fiber_create` with every failure label, exit and exit_post, join, detach, release and the reference count | `fev_fiber.c`, `fev_fiber.h` |
| `FiberAttr` | the default attrs, `fev_fiber_attr_create` and the setters with their page-alignment checks as operators on a record; the failure points of `fev_stack_alloc` | `fev_fiber_attr.c`, `fev_stack_posix.c` |
| `QueueSpec` | the abstract bounded FIFO both lock-free queues promise: an atomic push of one or several fibers when there is room, an atomic pop of the oldest; failures are stuttering steps | — |
| `MpmcQueue` | `fev_bounded_mpmc_queue_push` and `_pop` (Vyukov's cell array), each load, CAS and release store one step, with `Bits`-bit wrapping indexes and the `int32_t` differences; the refinement mapping to `QueueSpec` | `fev_bounded_mpmc_queue.h` |
| `SpmcQueue` | `fev_bounded_spmc_queue_push`, `_push_stq` and `_pop` by the owner and by stealers popping up to `StealCount` fibers as `fev_sched_steal` does; the refinement mapping to `QueueSpec` | `fev_bounded_spmc_queue.h`, `fev_sched_steal_bounded_spmc.c` |
| `MC_BoundedQueue` | both queues in one run: `impl` is fixed in Init and the other queue's variables stay 0 | — |
| `Qsbr` | `fev_qsbr_free` and `fev_qsbr_quiescent`, each atomic access one step, driven by socket destruction and epoll events | `fev_qsbr.h`, `fev_poller_reactor.c`, `fev_poller_epoll.c` |

Each `MC_X` module gives the constants their model values.

How the modules correspond to the code:
- Each action is named after the code step it translates. A comment names the function, and `PROJECT.json` `map` gives the lines.
- Per-thread or per-fiber program counters (`pc`, `fpc`, `wpc`, `lpc`, `ipc`) mark where each actor is between atomic steps.
- The locals it carries from one step to the next are variables of their own (`ep`, `nf1`, `lb`, `lnrf`, ...).
- A build-time choice is a variable fixed in Init from a CONSTANT set, so one run checks every build it lists:
  - the waiter's caller;
  - the scheduler variant;
  - the inner lock;
  - the timers bucket (the record's shape tells `TimerBucket` which operators apply).
- A build-time choice that only adds outcomes is a boolean CONSTANT: `AddCanFail` (`FEV_TIMERS_ADD_CAN_FAIL`) in `MutexCond` and `TimerBucket`, and `PutCanFail` (malloc may fail, no `FEV_ASSUME_MALLOC_NEVER_FAILS`) in `Sched`.

Compositions:
- `Sem` instantiates `ILock`, which instantiates `InnerLock`. Each semaphore section therefore runs under the real lock: its fast and slow paths, the inner lock's spinning, futex sleep, EINTR and wake, and the handoff to queued fibers.
- `ILock` instantiates `ILockSpec` with a refinement mapping; the `sem` run checks that refinement.
- `TimerBucket` instantiates `BinheapOps` and `RbtreeOps` and drives the operators of the bucket's build with real interleavings. Its dispatch operators stand for the bucket interface of `fev_timers.h`.
- `Sched` and `MsQueue` instantiate `SimpleMpmcQueue` for the lock-free run queue (`MsQueue` drives it alone, with more pushes than the scheduler run reaches) and `SchedLife` for creation and destruction, which shares the queue's nodes. Pushes and pops of the queue are steps of the workers' loop, and the nodes left in the queue or the caches when the scheduler is destroyed are what `fev_sched_fini` must free.
- `Fiber` extends `FiberAttr`: the attr of each fiber in `MC_Fiber` is built from the default attr by setter calls, including ones the setters refuse.
- `MC_TimerBucket` also extends `TimeSpec`.
- `MpmcQueue` and `SpmcQueue` each instantiate `QueueSpec` with a refinement mapping. A push takes effect at the CAS of `tail` (MPMC) or the release store of `tail` (SPMC), a pop at the CAS of `head`. For the MPMC queue, the fiber of an index whose pusher has not yet published is taken from the pusher, and a popper between its CAS and its read of the cell has already returned the cell's fiber.

## 3. Runs

| Run | Module / cfg | Expect | Distinct states | What it shows |
|---|---|---|---|---|
| `waiter` | `MC_Waiter` / `Waiter.cfg` | pass | 218,398 | Both callers, two racing wakers, two consecutive waits. The fiber is queued exactly once per wait (`SingleResumption`) and resumes after every park (`ParkedFiberResumes`). A returned waiters-queue node is touched by no other actor (`NoAccessAfterReturn`). |
| `mutexcond` | `MC_MutexCond` / `MutexCond.cfg` | pass | 1,660,015 | Two lockers (one timed), a producer with notify_all and two timed consumers, C callers, in a build whose timer add cannot fail. The mutex stays exclusive under handoff and timeouts (`MutualExclusion`). Its state word tracks its waiters (`MutexStateMatches`). Every lock call's result says whether the caller holds the mutex, and nobody is handed a mutex it will not unlock (`LockResultMatchesMutex`). No notification is lost (`NotifyNotLost`). |
| `mutexcond_cpp` | `MC_MutexCond` / `MutexCond_cpp.cfg` | violation | — | `MutualExclusion` with the `fev++.hpp` consumer: after a timeout its `unique_lock` unlocks a mutex another fiber holds. |
| `mutexcond_enomem` | `MC_MutexCond` / `MutexCond_enomem.cfg` | violation | — | `LockResultMatchesMutex` when `fev_timers_add` can fail: an unlocker hands the mutex to a timed locker whose timer add then fails. The locker returns `-ENOMEM` and the mutex stays locked for it. |
| `sem` | `MC_Sem` / `Sem.cfg` | pass | 30,540 | Two waiters (one timed) and one poster, with the ilock on both inner locks. Units are conserved (`SemConservation`). Grants reach live waiters (`GrantsMatchWaiters`), and no waiter is stranded while units are free (`NoStrandedWaiter`). The ilock is exclusive (`LockMutualExclusion`), hands itself only to a fiber whose context is saved (`LockHandedToSaved`), and refines `ILockSpec` (`LockRefinesILockSpec`). With the spin lock, a slow locker is served (`LockSlowLockerAcquires`). No futex sleeper is forgotten (`LockInnerNoLostWakeup`). |
| `sched` | `MC_Sched` / `Sched.cfg` | pass | 954,337 | All three schedulers, each from `fev_sched_create` (any acquisition may fail) through `fev_sched_run` to `fev_sched_destroy`, with two workers, a yielding fiber and a socket-waiting fiber. `num_run_fibers` matches the runnable fibers (`NrfMatches`). At most one worker sleeps in epoll (`OnePollerWaiter`). The lock-free queue is a well-formed list holding each queued fiber once, on the list from the head or hanging behind a node still being pushed, and no freed node (`RunQueueHoldsQueued`). Creation failures and destruction release every resource exactly once (`ResourcesReleased`). Every fiber ends (`AllFibersDone`), and every worker leaves `fev_sched_work` (`WorkersTerminate`), unless `fev_sched_put` of a fiber failed with `-ENOMEM` (see the findings), after which the workers sleep for ever; deadlock is therefore not checked. |
| `timer_bucket` | `MC_TimerBucket` / `TimerBucket.cfg` | pass | 30,548 | Both bucket builds: the binary heap whose grow may fail with `-ENOMEM`, and the red-black tree. Three timed waits, READY wake-ups, the clock and the poller's timerfd handler. Neither `bucket->min` nor the poller's copy of it points to a returned wait's timer (`NoDanglingTimer`). The bucket's own minimum (`heap[0]` or the cached `tree_min`) is an earliest timer, and `min` and the timerfd follow it (`MinMatchesHeap`). Add, del of every position and del_min keep the heap order, the indexes and the contents on every heap of up to six timers (`HeapOpsSound`, a constant TLC evaluates once). `-ETIMEDOUT` comes only after the deadline, and NO_CHECK is used only for a timer already out of the heap (`TimedWaitResultSound`). Every wait returns (`AllWaitsReturn`). The `fev_time.h` arithmetic is exact (`TimeArithmeticCorrect`). |
| `fiber` | `MC_Fiber` / `Fiber.cfg` | pass | 5,592 | Two callers create, join and detach three fibers, from attrs built by setter calls, while the fibers exit and any allocation (mmap and the guard page's mprotect included) may fail. No freed fiber is used (`UsesOnlyLiveFibers`). Memory is neither leaked nor double freed, and a user stack is never freed (`MemoryAccounted`). `ref_count` counts its holders (`RefCountMatchesHolders`). Everything is reclaimed (`AllReclaimed`). |
| `fiber_join_detach` | `MC_Fiber` / `Fiber_join_detach.cfg` | violation | — | `UsesOnlyLiveFibers`: a detach made before a join of the same fiber has returned is accepted, both release the joiner's reference, and the fiber is freed while still in `fev_fiber_exit`. |
| `qsbr` | `MC_Qsbr` / `Qsbr.cfg` | pass | 519,101 | Three workers and three sockets. No socket is freed while a worker holds an event for it (`NoFreeWhileReferenced`). Every destroyed socket is on the lists leading to its free (`RetiredAccounted`). Reclamation in time is not checked (see Fairness). |
| `bounded_queue` | `MC_BoundedQueue` / `BoundedQueue.cfg` | pass | 1,479,411 | The MPMC queue with three threads pushing and popping, and the SPMC queue with its owner pushing single fibers and batches while two stealers pop, both starting two pushes short of the wrap of their indexes. Each implements the atomic FIFO `QueueSpec` (`RefinesQueueSpec`): no fiber is lost, duplicated, overwritten or popped out of order. A push fails only on a full queue or with a pop between its CAS and its release of the cell, and a pop only on an empty queue or with a push between its CAS and its publication; an SPMC pop only on an empty queue (`FailuresJustified`). |
| `msqueue_aba` | `MsQueue` / `MsQueue_aba.cfg` | violation | — | `PushedVisible`: with two workers and three pushes, a push returns with its fiber linked behind a recycled node, off the list from the head. |

Every passing run takes under 70 seconds with two TLC workers, except `sched`, which takes about 185 seconds (954,337 distinct states).

Two violation runs of earlier versions are no longer run, to keep the run time of the project bounded: the wrap of `poller_backoff` and the socket stranded on `to_free2`. They are kept below as findings.

Every property of a passing run has a mutant in `PROJECT.json`. A mutant is an operator, marked `Mutant:` and defined just before the definition it replaces, that models a plausible bug in that code: a dropped guard, a missing reset, an off-by-one or a swapped order. TLC finds the property violated when the mutant replaces the original.

### Findings

- **`fev_fiber_join` vs. `fev_fiber_detach` (use after free), `fev_fiber.c:218`.**
  1. `fev_fiber_join` checks that the fiber is joinable but never clears `FEV_FIBER_JOINABLE`.
  2. A `fev_fiber_detach` of the same fiber, made while the join waits, passes its own check and releases the joiner's reference.
  3. The join then releases that reference a second time; `fev_fiber_exit`, still running on the fiber, drops the last one and frees the fiber under itself.
  - The model lets a caller join or detach a fiber only while no earlier join or detach of it has returned, so the trace is a real race of two callers, not a misuse.
- **`fev++.hpp` `condition_variable::wait_until(lock, abs_time, pred)`, line 458.**
  - `fev_cond_wait_until` returns `-ETIMEDOUT` without the mutex.
  - The wrapper evaluates `pred()` unlocked.
  - Its `unique_lock` later unlocks a mutex that another fiber holds, and a third fiber enters the critical section.
- **An ABA on a recycled node in the lock-free run queue, `fev_simple_mpmc_queue.h:85`.**
  1. A pusher loads `tail` and sees its `next` null.
  2. Other workers pop that node, free it to their pool, allocate it again and push it; the push resets its `next` to (NULL, 0).
  3. The first pusher's CAS of `tail->next` compares (NULL, 0) and succeeds: it links its node behind a node that is no longer reachable from the head, or is reachable at a different place.
  - Resetting the count in push defeats the counted pointer that should prevent this. `PushedVisible` is violated: a push returns and its fiber is never found by a pop.
- **A fiber lost when `fev_sched_put` fails, `fev_fiber.c:122`.**
  - Without `FEV_ASSUME_MALLOC_NEVER_FAILS`, the put of shr_simple_mpmc returns `-ENOMEM` when no node can be allocated.
  - `fev_fiber_create` has already counted the fiber in `num_fibers` (line 116) and ignores the result.
  - The fiber never runs, `num_fibers` never reaches 0, and the workers sleep for ever. `AllFibersDone` and `WorkersTerminate` state this as their one exception.
- **`poller_backoff` wraps, `fev_sched_shr_locking.c:45`, found earlier and no longer run.**
  - `check_poller` stores `num_run_fibers`, which is 0 when the worker goes to sleep.
  - The next `fetch_sub` wraps the 32-bit counter.
  - While fibers keep yielding, the poller is not checked for about 2^32 switches.
- **A mutex handed to a timed locker that then fails with ENOMEM, `fev_waiters_queue_impl.h:101`.**
  1. `fev_waiters_queue_wait` links the node and releases the queue's ilock.
  2. Only then does `fev_timed_wait` add the timer.
  3. An unlocker can pop the node in between, set READY and keep the mutex locked for it, because the callback saw one woken waiter.
  4. In the heap build without `FEV_ASSUME_MALLOC_NEVER_FAILS`, `fev_timers_add` can then fail, and `fev_timed_wait` returns `-ENOMEM` without looking at the reason.
  5. The not_ready path finds the node already deleted and returns `-ENOMEM` from `fev_mutex_try_lock_until`.
  - The caller believes it failed, so the mutex stays locked with no owner.
  - `fev_sem_wait_until` loses a posted unit the same way, and `fev_cond_wait_until` a notification.
- **A stale socket wake-up, `fev_socket_reactor.c:198`, found earlier and no longer run.**
  - The socket loop resets only `reason` between waits.
  - A waker of the previous wait can therefore resume the next one with the previous reason.
  - The loop retries the operation, so the effect is only a spurious wake-up.
  - The history variables that stated it are gone from `Waiter`. `SingleResumption` still covers the socket caller.
- **A socket stranded on `to_free2`, `fev_qsbr.h:116-127`, found earlier and no longer run.**
  - The socket is freed only by a later destroy or at teardown.
  - spec.md scenario S1 says a closed socket is eventually freed.
- **Found while mapping, with no run.** In `fev_sched_steal_locking.c:272`, the fail path of `fev_sched_init_workers` frees `sched->workers` before it is assigned, instead of `workers`. The path is taken only when a run-queue lock fails to initialise, which the Linux futex mutex never does, so `SchedLife` cannot reach it; a `FEV_THR_MUTEX_POSIX` build can.
- **Found while modelling destruction.** When `fev_sched_run` fails to start its threads, no fiber runs, and `fev_sched_fini` of shr_simple_mpmc frees the pool's nodes but not those still linked in the run queue: they leak. `ResourcesReleased` states this leak as the one exception.
- **Found while checking liveness.** The futex inner mutex is not starvation-free: fast-path lockers can keep barging past a woken waiter. `LockSlowLockerAcquires` is therefore stated for the spin-lock build only.

## 4. Bounds

| Run | Bound | Why it is enough |
|---|---|---|
| waiter | 2 wakers, 2 rounds | Two wakers are the most that race on one wait: a queue wake and a timer, or a stale and a fresh socket event. The reuse hazard spans two consecutive waits. |
| mutexcond | 2 lockers (1 timed), 1 producer, 2 consumers | Gives both a handoff to a queued waiter and a timed-out node left in the queue. It also covers notify_all popping several nodes, and a consumer timing out while the producer holds the mutex. |
| sem | 2 waiters (1 timed), 1 poster, value 0 | A post can meet a timed-out head and a live second waiter. The ilock sees a fast-path locker and a queued one. Both inner locks are checked. |
| sched | 2 workers, 2 fibers, `MaxYields` 1, `StealCount` 1, `Bits` 3, 5 queue nodes, `LocalPoolSize` 1, 2 timer buckets | Two workers exercise sleeping in epoll vs. on the semaphore, a push racing a sleeper, and stealing. The counters wrap at 2^3, which keeps the modular arithmetic in play. Five nodes are the dummy, one per fiber and one cached per worker, so a popped node is reused and a worker's cache spills into the global stack. Two timer buckets (of 64) make a failing `timerfd_create` unwind an earlier bucket's descriptor. No symmetry is used: nodes are allocated deterministically and symmetry slows the liveness check. |
| timer_bucket | 3 timers, both builds, `MaxLen` 4, clock 0..2; `NsPerSec` 3, 4-bit `time_t` and `uint64_t` | Three timers let the heap grow twice (each grow may fail) and make del sift down; with three timers del never needs to sift up, which `HeapOpsSound` covers on every heap of up to six timers. Two timers share a deadline, and their waiter addresses run against the order of their names, so the tree's tie-break decides which is `tree_min`. The clock lets some deadlines pass and not others. Both saturations of `fev_timespec_to_ns` and the borrow of `abs_to_rel` happen at these widths. |
| fiber | 3 fibers, 2 callers, scripted calls; one user stack, one attr without a guard page | Every failure label of create happens, both failure points of `fev_stack_alloc` and its guard-less case, join, detach and a racing exit. |
| bounded_queue | 3 threads, `Cap` 2, 3 fibers, `Bits` 4, `Start` 14, `StealCount` 1 | Three fibers through a queue of two fill it, so a push meets a full queue and a cell whose pop is unfinished. Starting at 14 of 16 makes the indexes wrap mid-run. With 4 bits no thread falls 8 indexes behind, so the `int32_t` differences are exact, as they are in 32 bits; at 3 bits a stale index flips the sign of a difference, which in 32 bits needs 2^31 operations of other threads. Three threads give two competing CASes while a third is mid-operation. `StealCount` 1 is the most a queue of 2 allows (`STEAL_COUNT` must be below the capacity). |
| msqueue_aba | 2 workers, 4 nodes, 3 pushes, `LocalPoolSize` 1 | The ABA needs a node popped, freed and reused by a second push while a first push is between its load of `tail` and its CAS: two workers, a dummy and three pushes. |
| qsbr | 3 workers, 3 sockets | Gives a generation with more than two workers, so `num_remaining` counts down past 1. A free also lands on each list. |

## 5. Fairness

Weak fairness is assumed for every actor that the code runs without waiting for anything:
- worker threads (the OS schedules them); the caller's creation, `fev_sched_put` and destruction steps run on worker 0's thread and share its fairness;
- fibers that are runnable;
- the post-switch callback;
- the poller;
- the clock;
- wakers, which stand for event sources that keep firing while the fiber waits.

Timers need not fire in `Sem` and `MutexCond`: a timed wait may end either way.

`Qsbr` has no fairness and no liveness property. A sleeping worker passes no quiescent point, and the poller wakes the workers only when 64, 96, 128, ... frees are pending, so a generation may stay open as long as the workers sleep.

Strong fairness is assumed in two places:
- **The inner lock of the ilock** (`SF` on `InnerContend` and `TakeInner`). A thread spinning on the spin lock or retrying the futex exchange is enabled only while the word is 0. Weak fairness would let it miss every window. The hardware gives an exchange attempt a chance whenever the lock is free again and again.
  - Even so, the futex mutex can starve a woken waiter against barging fast-path lockers. `LockSlowLockerAcquires` is stated for the spin lock only.
- **A worker popping its own non-empty queue** (`SF` on `PopLocal` in `Sched`). Without it, two workers can steal the same fiber back and forth forever. Each install is followed by a steal before the owner pops. Real workers pop within a few instructions of installing, while a steal takes a whole lock-and-copy path.

## 6. Not modelled

- **Context switch** (`fev_context*`): machine-level code. The switch is atomic in the models. Stack sizes are not tracked: a stack is an allocation token.
- **The worker loops of the bounded lock-free schedulers** (shr_bounded_mpmc, steal_bounded_spmc). Their queues are modelled in `MpmcQueue` and `SpmcQueue`, and the steal loop's pops in `SpmcQueue`. The loops follow the termination protocol of the others, which `Sched` checks. Adding a third queue to `Sched` is beyond TLC's budget. The headers `fev_sched_shr_bounded_mpmc_impl.h` and `_intf.h` are also missing from the sources. The victim choice of `fev_sched_steal` and the moving of stolen fibers into the thief's queue are not modelled.
- **`fev_bounded_mpmc_queue_push_stq`**: no scheduler that builds uses it.
- **Weak memory orders.** The queues are modelled as sequentially consistent, as x86's TSO makes them; a relaxed load on a weakly ordered CPU (e.g. of `tail` at `fev_bounded_spmc_queue.h:87`) is out of the model.
- **The io_uring and kqueue pollers.** Only epoll is modelled.
- **The balancing of the red-black tree.** `tree.h` is not in the sources. `RbtreeOps` specifies the tree by its ordered key set, and RB_LEFT and RB_NEXT by what they return in any search tree holding that set.
- **`fev_qsbr_queue.h`**, which no file includes.
- **Thread primitives, allocation and the scheduler attr.** The thread semaphore is the `sem` counter of `Sched`. The posix and Windows mutex builds of the inner lock are left out, and with them the lock-init failures of `fev_sched_init`.
- **`-ENOMEM` of a timed wait in `Sem`.** It is modelled in `MutexCond` and `TimerBucket`. The semaphore loses a unit the same way the mutex is stranded.
- **Hashing waiters onto several timer buckets.** The buckets are independent.
