------------------------------ MODULE TimerBucket ------------------------------
(***************************************************************************)
(* Timed waits on one timers bucket (fev_timers.c) and the poller's        *)
(* timerfd handler (fev_process_timer_fd() in fev_poller_epoll.c).         *)
(*                                                                         *)
(* Every fiber calls fev_timed_wait() once with the deadline Time[t] of    *)
(* its timer t (a fiber is named by its timer).  The heap operations are   *)
(* those of BinheapOps; every section a fiber runs under the bucket's      *)
(* ilock is one step, except that bucket->min is published under min_lock, *)
(* which the poller holds across its read of bucket->min and the wake of   *)
(* that timer's waiter.  The waiter handshake is abstracted to its         *)
(* outcome: a waiting fiber runs again once its reason is set.  Another    *)
(* fiber may set the reason to READY (the wake-up the timed wait is for)   *)
(* at any time.  `now` is the clock; the timerfd fires once `now` reaches  *)
(* the time it was armed with.                                             *)
(***************************************************************************)
EXTENDS Integers

CONSTANTS
    Timers,     \* the struct fev_timer objects
    Time,       \* Time[t]: t->abs_time
    Addr,       \* Addr[t]: the address of t->waiter
    NoTimer,    \* NULL
    MaxLen,     \* bound of the binary heap's capacity
    Impls,      \* the bucket builds checked: "binheap" and/or "rbtree"
    MaxTime,    \* the clock stops here
    AddCanFail, \* FEV_TIMERS_ADD_CAN_FAIL: built without
                \* FEV_ASSUME_MALLOC_NEVER_FAILS, fev_realloc() may fail
    HeapCheckSize   \* the largest heap HeapOpsSound checks the operators on

ASSUME Impls \subseteq {"binheap", "rbtree"}

Heap == INSTANCE BinheapOps
Tree == INSTANCE RbtreeOps

NONE == "NONE"
READY == "READY"
CHECK == "TIMED_OUT_CHECK"
NO_CHECK == "TIMED_OUT_NO_CHECK"

\* timerfd disarmed.
DISARMED == -1

VARIABLES
    bucket,     \* the bucket record (BinheapOps or RbtreeOps)
    owner,      \* the fiber holding bucket->lock across a min_lock section
    min,        \* bucket->min
    armed,      \* the time the bucket's timerfd is armed with
    now,        \* the clock
    reason,     \* waiter->reason of each fiber's waiter
    pc,         \* where each fiber is in fev_timed_wait()
    ret,        \* what fev_timed_wait() returns
    ppc,        \* the poller: "idle", "event" (epoll_wait returned the timerfd), "wake"
    pmin        \* the bucket->min the poller read under min_lock

vars == <<bucket, owner, min, armed, now, reason, pc, ret, ppc, pmin>>

\* The bucket operations of the build chosen in fev_timers.h
\* (FEV_TIMERS_BINHEAP or FEV_TIMERS_RBTREE).  The build is fixed in Init
\* and the bucket record keeps its shape, so the shape tells the build.
IsHeap(b) == "heap" \in DOMAIN b
HeapBuild == IsHeap(bucket)
BucketAdd(b, t) == IF HeapBuild THEN Heap!BucketAdd(b, t) ELSE Tree!BucketAdd(b, t)
AddMinChanged(b, t) ==
    IF HeapBuild THEN Heap!AddMinChanged(b, t) ELSE Tree!AddMinChanged(b, t)
BucketDel(b, t) == IF HeapBuild THEN Heap!BucketDel(b, t) ELSE Tree!BucketDel(b, t)
DelMinChanged(b, t) ==
    IF HeapBuild THEN Heap!DelMinChanged(b, t) ELSE Tree!DelMinChanged(b, t)
BucketDelMin(b) == IF HeapBuild THEN Heap!BucketDelMin(b) ELSE Tree!BucketDelMin(b)
BucketEmpty(b) == IF HeapBuild THEN Heap!BucketEmpty(b) ELSE Tree!BucketEmpty(b)
Root(b) == IF HeapBuild THEN Heap!Root(b) ELSE Tree!Root(b)
Content(b) == IF HeapBuild THEN Heap!Content(b) ELSE Tree!Content(b)
IsExpired(b, t) == IF HeapBuild THEN Heap!IsExpired(b, t) ELSE Tree!IsExpired(b, t)
SetExpired(b, t) == IF HeapBuild THEN Heap!SetExpired(b, t) ELSE Tree!SetExpired(b, t)
\* Only the binary heap has an array to grow.
MustGrow(b) == HeapBuild /\ Heap!MustGrow(b)
Grow(b) == Heap!Grow(b)

\* fev_poller_create_timer_fds(): each bucket gets a new timerfd,
\* registered with epoll, which is not armed.
TimerFdInit == armed = DISARMED

Init ==
    /\ \E impl \in Impls :
         bucket = IF impl = "binheap" THEN Heap!EmptyBucket ELSE Tree!EmptyBucket
    /\ owner = NoTimer
    /\ min = NoTimer
    /\ TimerFdInit
    /\ now = 0
    /\ reason = [t \in Timers |-> NONE]
    /\ pc = [t \in Timers |-> "add"]
    /\ ret = [t \in Timers |-> "none"]
    /\ ppc = "idle"
    /\ pmin = NoTimer

\* The poller holds min_lock.
MinLocked == ppc = "wake"

Goto(t, to) == pc' = [pc EXCEPT ![t] = to]

\* fev_poller_set_timeout(): timerfd_settime() of the bucket's timerfd to
\* the absolute time of timer m, replacing any earlier setting.
PollerSetTimeout(m) == armed' = Time[m]

\* Mutant: the timerfd is not re-armed for the new minimum.
PublishMinNoArm(t, m) ==
    /\ ~MinLocked
    /\ min' = m
    /\ armed' = armed
    /\ owner' = NoTimer

\* A fiber publishes bucket->min under min_lock and arms the timerfd with its
\* time (fev_poller_set_timeout()), then unlocks the bucket.
PublishMin(t, m) ==
    /\ ~MinLocked
    /\ min' = m
    /\ IF m = NoTimer THEN UNCHANGED armed ELSE PollerSetTimeout(m)
    /\ owner' = NoTimer

-----------------------------------------------------------------------------
(* fev_timed_wait().                                                       *)

\* Mutant: the array is not grown when full.
AddNoGrow(t) ==
    /\ pc[t] = "add"
    /\ owner = NoTimer
    /\ bucket' = BucketAdd(bucket, t)
    /\ IF AddMinChanged(bucket, t)
         THEN owner' = t /\ Goto(t, "add_setmin")
         ELSE owner' = NoTimer /\ Goto(t, "wait")
    /\ UNCHANGED <<min, armed, now, reason, ret, ppc, pmin>>

\* What fev_timers_bucket_grow() can return: a failed fev_realloc()
\* leaves the heap untouched and gives -ENOMEM.
GrowResults(b) ==
    IF MustGrow(b) /\ AddCanFail THEN {"OK", "ENOMEM"} ELSE {"OK"}

\* fev_timers_add(): lock, fev_timers_bucket_add() (the array grows as
\* needed), and if the minimum changed go on to publish it.  When the grow
\* fails, the bucket is unlocked unchanged and fev_timed_wait() returns
\* -ENOMEM without waiting.
Add(t) ==
    /\ pc[t] = "add"
    /\ owner = NoTimer
    /\ \E g \in GrowResults(bucket) :
         IF g = "ENOMEM"
           THEN /\ Goto(t, "done") /\ ret' = [ret EXCEPT ![t] = "ENOMEM"]
                /\ UNCHANGED <<bucket, owner>>
           ELSE LET b == IF MustGrow(bucket) THEN Grow(bucket) ELSE bucket IN
                /\ bucket' = BucketAdd(b, t)
                /\ IF AddMinChanged(b, t)
                     THEN owner' = t /\ Goto(t, "add_setmin")
                     ELSE owner' = NoTimer /\ Goto(t, "wait")
                /\ UNCHANGED ret
    /\ UNCHANGED <<min, armed, now, reason, ppc, pmin>>

AddSetMin(t) ==
    /\ pc[t] = "add_setmin"
    /\ PublishMin(t, t)
    /\ Goto(t, "wait")
    /\ UNCHANGED <<bucket, now, reason, ret, ppc, pmin>>

\* fev_waiter_wait() returns the reason.
Wait(t) ==
    /\ pc[t] = "wait"
    /\ reason[t] # NONE
    /\ CASE reason[t] = READY -> Goto(t, "del") /\ UNCHANGED ret
         [] reason[t] = NO_CHECK -> Goto(t, "done") /\ ret' = [ret EXCEPT ![t] = "ETIMEDOUT"]
         [] OTHER -> Goto(t, "process") /\ UNCHANGED ret
    /\ UNCHANGED <<bucket, owner, min, armed, now, reason, ppc, pmin>>

\* Mutant: a delete never publishes a new minimum.
DelNoPublish(t) ==
    /\ pc[t] = "del"
    /\ owner = NoTimer
    /\ bucket' = IF IsExpired(bucket, t) THEN bucket ELSE BucketDel(bucket, t)
    /\ Goto(t, "done") /\ ret' = [ret EXCEPT ![t] = "0"]
    /\ UNCHANGED <<owner, min, armed, now, reason, ppc, pmin>>

\* fev_timers_del() after READY: lock; nothing to do for an expired timer;
\* else fev_timers_bucket_del() and, if the minimum changed, publish the
\* new one; fev_timed_wait() returns 0.
Del(t) ==
    /\ pc[t] = "del"
    /\ owner = NoTimer
    /\ IF IsExpired(bucket, t) \/ ~DelMinChanged(bucket, t)
         THEN /\ bucket' = IF IsExpired(bucket, t) THEN bucket ELSE BucketDel(bucket, t)
              /\ Goto(t, "done") /\ ret' = [ret EXCEPT ![t] = "0"]
              /\ UNCHANGED owner
         ELSE /\ bucket' = BucketDel(bucket, t)
              /\ owner' = t
              /\ Goto(t, "del_setmin")
              /\ UNCHANGED ret
    /\ UNCHANGED <<min, armed, now, reason, ppc, pmin>>

DelSetMin(t) ==
    /\ pc[t] = "del_setmin"
    /\ PublishMin(t, Root(bucket))
    /\ Goto(t, "done") /\ ret' = [ret EXCEPT ![t] = "0"]
    /\ UNCHANGED <<bucket, now, reason, ppc, pmin>>

\* Mutant: the loop expires timers without comparing them with now.
RECURSIVE WakeExpiredAll(_, _)
WakeExpiredAll(s, clock) ==
    IF BucketEmpty(s.b) THEN s
    ELSE LET m == Root(s.b) IN
         WakeExpiredAll([b |-> SetExpired(BucketDelMin(s.b), m),
                         r |-> IF s.r[m] = NONE THEN [s.r EXCEPT ![m] = NO_CHECK]
                               ELSE s.r],
                        clock)

\* The loop of fev_timers_wake_expired(): while the earliest timer is due,
\* delete it, mark it expired and set its waiter's reason to NO_CHECK
\* (fev_waiter_wake(), which fails if the reason is already set).
RECURSIVE WakeExpired(_, _)
WakeExpired(s, clock) ==
    IF BucketEmpty(s.b) \/ Time[Root(s.b)] > clock THEN s
    ELSE LET m == Root(s.b) IN
         WakeExpired([b |-> SetExpired(BucketDelMin(s.b), m),
                      r |-> IF s.r[m] = NONE THEN [s.r EXCEPT ![m] = NO_CHECK]
                            ELSE s.r],
                     clock)

\* Mutant: bucket->min is not cleared before timers are expired, the order
\* the comment in fev_timers_process() rules out.
ProcessNoClear(t) ==
    /\ pc[t] = "process"
    /\ owner = NoTimer
    /\ LET s == WakeExpired([b |-> bucket, r |-> reason], now)
           expired == IsExpired(s.b, t)
           b == IF expired THEN s.b ELSE BucketDel(s.b, t)
       IN /\ bucket' = b
          /\ reason' = s.r
          /\ ret' = [ret EXCEPT ![t] = IF expired THEN "ETIMEDOUT" ELSE "EAGAIN"]
          /\ IF ~BucketEmpty(b) THEN owner' = t /\ Goto(t, "process_setmin")
                          ELSE UNCHANGED owner /\ Goto(t, "done")
    /\ UNCHANGED <<min, armed, now, ppc, pmin>>

\* fev_timers_process() after TIMED_OUT_CHECK: lock the bucket, clear
\* bucket->min under min_lock, expire the due timers, delete the own timer
\* if it was not among them; publish the new minimum if the heap is not
\* empty.  fev_timed_wait() returns -ETIMEDOUT if the own timer had expired,
\* else -EAGAIN.
Process(t) ==
    /\ pc[t] = "process"
    /\ owner = NoTimer
    /\ ~MinLocked
    /\ min' = NoTimer
    /\ LET s == WakeExpired([b |-> bucket, r |-> reason], now)
           expired == IsExpired(s.b, t)
           b == IF expired THEN s.b ELSE BucketDel(s.b, t)
       IN /\ bucket' = b
          /\ reason' = s.r
          /\ ret' = [ret EXCEPT ![t] = IF expired THEN "ETIMEDOUT" ELSE "EAGAIN"]
          /\ IF ~BucketEmpty(b) THEN owner' = t /\ Goto(t, "process_setmin")
                          ELSE UNCHANGED owner /\ Goto(t, "done")
    /\ UNCHANGED <<armed, now, ppc, pmin>>

ProcessSetMin(t) ==
    /\ pc[t] = "process_setmin"
    /\ PublishMin(t, Root(bucket))
    /\ Goto(t, "done")
    /\ UNCHANGED <<bucket, now, reason, ret, ppc, pmin>>

-----------------------------------------------------------------------------
(* The poller and the environment.                                         *)

\* epoll_wait() returns the timerfd once the clock reaches its time; the
\* timerfd is one-shot (it_interval is 0).
PollerEvent ==
    /\ ppc = "idle"
    /\ armed # DISARMED /\ now >= armed
    /\ armed' = DISARMED
    /\ ppc' = "event"
    /\ UNCHANGED <<bucket, owner, min, now, reason, pc, ret, pmin>>

\* fev_process_timer_fd(): take min_lock and read bucket->min.
PollerReadMin ==
    /\ ppc = "event"
    /\ pmin' = min
    /\ ppc' = "wake"
    /\ UNCHANGED <<bucket, owner, min, armed, now, reason, pc, ret>>

\* Mutant: the poller wakes with TIMED_OUT_NO_CHECK.
PollerWakeNoCheck ==
    /\ ppc = "wake"
    /\ reason' = IF pmin # NoTimer /\ reason[pmin] = NONE
                    THEN [reason EXCEPT ![pmin] = NO_CHECK] ELSE reason
    /\ ppc' = "idle"
    /\ pmin' = NoTimer
    /\ UNCHANGED <<bucket, owner, min, armed, now, pc, ret>>

\* Still under min_lock: wake the waiter of that timer with
\* TIMED_OUT_CHECK, whatever its time, and unlock.
PollerWake ==
    /\ ppc = "wake"
    /\ reason' = IF pmin # NoTimer /\ reason[pmin] = NONE
                    THEN [reason EXCEPT ![pmin] = CHECK] ELSE reason
    /\ ppc' = "idle"
    /\ pmin' = NoTimer
    /\ UNCHANGED <<bucket, owner, min, armed, now, pc, ret>>

Tick ==
    /\ now < MaxTime
    /\ now' = now + 1
    /\ UNCHANGED <<bucket, owner, min, armed, reason, pc, ret, ppc, pmin>>

\* The operation the fiber waits for completes: the waker sets READY
\* (fev_waiter_wake()) once the waiter is linked, before or after the
\* timer is added.
Notify(t) ==
    /\ pc[t] \in {"add", "add_setmin", "wait"}
    /\ reason[t] = NONE
    /\ reason' = [reason EXCEPT ![t] = READY]
    /\ UNCHANGED <<bucket, owner, min, armed, now, pc, ret, ppc, pmin>>

Poller == PollerEvent \/ PollerReadMin \/ PollerWake

Step(t) ==
    \/ Add(t) \/ AddSetMin(t) \/ Wait(t) \/ Del(t) \/ DelSetMin(t)
    \/ Process(t) \/ ProcessSetMin(t)

Terminated == \A t \in Timers : pc[t] = "done"

Next ==
    \/ \E t \in Timers : Step(t) \/ Notify(t)
    \/ Poller \/ Tick
    \/ Terminated /\ now = MaxTime /\ ppc = "idle" /\ UNCHANGED vars

\* Runnable fibers and the poller's worker are scheduled and the clock
\* runs; the wake-up a timed wait is for may never come.
Fairness ==
    /\ \A t \in Timers : WF_vars(Step(t))
    /\ WF_vars(Poller)
    /\ WF_vars(Tick)

Spec == Init /\ [][Next]_vars /\ Fairness

-----------------------------------------------------------------------------
(* Properties.                                                             *)

PCs == {"add", "add_setmin", "wait", "del", "del_setmin", "process",
        "process_setmin", "done"}

TypeOK ==
    /\ IF IsHeap(bucket)
         THEN /\ bucket.heap \in [Heap!Slots -> Timers \cup {NoTimer}]
              /\ bucket.len \in 0 .. bucket.cap
         ELSE /\ bucket.tree \subseteq Timers
              /\ bucket.tree_min \in Timers \cup {NoTimer}
              /\ bucket.expired \in [Timers -> BOOLEAN]
    /\ owner \in Timers \cup {NoTimer}
    /\ min \in Timers \cup {NoTimer}
    /\ armed \in {DISARMED} \cup 0 .. MaxTime
    /\ now \in 0 .. MaxTime
    /\ reason \in [Timers -> {NONE, READY, CHECK, NO_CHECK}]
    /\ pc \in [Timers -> PCs]
    /\ ret \in [Timers -> {"none", "0", "ETIMEDOUT", "EAGAIN", "ENOMEM"}]
    /\ ppc \in {"idle", "event", "wake"}
    /\ pmin \in Timers \cup {NoTimer}

\* The timers live on the stacks of their fev_timed_wait() calls.  No
\* pointer to a timer outlives its call: not the heap, not bucket->min, and
\* not the pointer the poller read under min_lock and passes to
\* fev_waiter_wake() (the stack-use-after-return fev_timers_process()
\* prevents by clearing bucket->min first, fev_timers.c lines 154-179).
NoDanglingTimer ==
    \A t \in Timers : pc[t] = "done" =>
        /\ t \notin Content(bucket)
        /\ min # t
        /\ ~(ppc = "wake" /\ pmin = t)

\* The bucket's own minimum (heap[0], or the cached tree_min of the tree,
\* which add, del and del_min keep up to date) is an earliest timer of the
\* bucket, and NULL only when the bucket is empty.  Outside the sections
\* run under the bucket lock, bucket->min is that timer, which the poller
\* relies on to find the timer to wake, and the timerfd is armed for it
\* unless it already fired.
MinMatchesHeap ==
    /\ (Root(bucket) = NoTimer) = (Content(bucket) = {})
    /\ \A x \in Content(bucket) : Time[Root(bucket)] <= Time[x]
    /\ owner = NoTimer =>
         /\ min = Root(bucket)
         /\ min # NoTimer => armed \in {DISARMED, Time[min]}

\* The results of a timed wait are sound: fev_timed_wait() returns
\* -ETIMEDOUT only once its deadline has passed, and a fiber woken with
\* TIMED_OUT_NO_CHECK, which returns at once trusting that its timer is
\* already out of the heap (fev_timed_wait() lines 262-268), is woken so
\* only for a timer the poller has removed.
TimedWaitResultSound ==
    \A t \in Timers :
        /\ ret[t] = "ETIMEDOUT" => Time[t] <= now
        /\ reason[t] = NO_CHECK => t \notin Content(bucket)

\* Every timed wait returns, whether or not its wake-up comes: the timerfd
\* stays armed for the earliest timer, so it fires and the poller or a
\* processing fiber expires the timer.
AllWaitsReturn == <>Terminated


\* The heap operators on heaps of up to HeapCheckSize timers 1..n, timer i
\* in slot i - 1, with every deadline function tm into 1..3 that orders
\* them as a heap.
HeapOf(tm) == INSTANCE BinheapOps WITH Timers <- 1 .. HeapCheckSize, Time <- tm,
                                       NoTimer <- 0, MaxLen <- HeapCheckSize

HeapTimes == [1 .. HeapCheckSize -> 1 .. 3]

IsHeapOrdered(tm, b) ==
    /\ \A i \in 1 .. b.len - 1 : tm[b.heap[(i - 1) \div 2]] <= tm[b.heap[i]]
    /\ \A i \in 0 .. b.len - 1 : b.idx[b.heap[i]] = i

SlotBucket(n) ==
    [heap |-> [i \in 0 .. HeapCheckSize - 1 |-> IF i < n THEN i + 1 ELSE 0],
     idx |-> [t \in 1 .. HeapCheckSize |-> IF t <= n THEN t - 1 ELSE 0],
     len |-> n, cap |-> HeapCheckSize]

\* A heap operation from b leaves a heap whose timers are `content`.
HeapResultOK(tm, r, content) ==
    IsHeapOrdered(tm, r) /\ HeapOf(tm)!Content(r) = content

\* fev_timers_bucket_add(), fev_timers_bucket_del() of any timer and
\* fev_timers_bucket_del_min() keep the heap order and timer->index of
\* every timer, and add or remove exactly their timer, on every heap of up
\* to HeapCheckSize timers (six, so that a del moves the last timer from
\* the other subtree into the hole and must sift it up, line 168, and the
\* sift-down meets a node with only a left child).  Stated for the binheap
\* build; HeapOpsCorrect is a constant, which TLC evaluates once.
HeapOpsCorrect ==
    \A tm \in HeapTimes, n \in 1 .. HeapCheckSize :
        LET b == SlotBucket(n)
            c == HeapOf(tm)!Content(b)
        IN IsHeapOrdered(tm, b) =>
           /\ \A t \in c : HeapResultOK(tm, HeapOf(tm)!BucketDel(b, t), c \ {t})
           /\ HeapResultOK(tm, HeapOf(tm)!BucketDelMin(b), c \ {1})
           /\ LET a == SlotBucket(n - 1)
              IN IsHeapOrdered(tm, a) =>
                   HeapResultOK(tm, HeapOf(tm)!BucketAdd(a, n), c)


=============================================================================
