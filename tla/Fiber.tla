-------------------------------- MODULE Fiber --------------------------------
(***************************************************************************)
(* The life of a fiber (fev_fiber.c): fev_fiber_create() with its error    *)
(* paths, the fiber's fev_fiber_exit() and the fev_fiber_exit_post() that  *)
(* runs on the worker after it, and fev_fiber_join() / fev_fiber_detach()  *)
(* called by other fibers.  The fiber struct, its stack, its cond and its  *)
(* mutex are allocations; ref_count decides who frees the fiber.           *)
(*                                                                         *)
(* Every section under fiber->mutex reads and writes only fields the mutex *)
(* protects, so it is one step.  fev_cond_wait() queues the joiner and     *)
(* unlocks the mutex under the cond's ilock, which fev_cond_notify_one()   *)
(* also takes; the wait is therefore one step too, and the cond is a FIFO  *)
(* queue of joiners (condq).  A woken joiner relocks the mutex and checks  *)
(* again, which is the loop of fev_fiber_join().                           *)
(*                                                                         *)
(* Callers are fibers of the scheduler that runs the created fibers        *)
(* (sched == NULL), and each follows a script of calls.  A call on a fiber *)
(* whose creation failed is skipped, as a caller checking the result       *)
(* would do.                                                               *)
(***************************************************************************)
EXTENDS Integers, Sequences, FiniteSets, FiberAttr

CONSTANTS
    Fibers,     \* the fibers that may be created
    Callers,    \* the fibers calling create, join and detach
    Values,     \* return values a fiber may exit with
    Attr,       \* Attr[f]: the attr fev_fiber_create() is given for f
    Script      \* Script[c]: a sequence of <<op, fiber>>, op in {"create", "join", "detach"}

VARIABLES
    fpc,        \* per fiber: "none", "failed", "run", "exit_notify", "exit_post", "gone"
    flags,      \* fiber->flags, a subset of {"DEAD", "JOINABLE", "JOINING"}
    ref,        \* fiber->ref_count
    rv,         \* fiber->return_value
    alloc,      \* the live allocations belonging to the fiber
    condq,      \* joiners waiting on fiber->cond
    numFibers,  \* sched->num_fibers
    ip,         \* per caller: index of its current call in Script[c]
    cpc,        \* per caller: "call", "join_wait", "join_relock", "join_release",
                \* "detach_release", "done"
    result      \* per caller: what its last join or detach returned

vars == <<fpc, flags, ref, rv, alloc, condq, numFibers, ip, cpc, result>>

NoValue == "none"

Detached == [f \in Fibers |-> Attr[f].detached]
UserStack == [f \in Fibers |-> UsesUserStack(Attr[f])]

\* The stack of a fiber: the user's own, or one fev_stack_alloc() made.
StackOf(f) == IF UserStack[f] THEN "ustack" ELSE "stack"

\* A created fiber whose struct has been freed.
Freed(f) == fpc[f] \notin {"none", "failed"} /\ "fiber" \notin alloc[f]

Op(c) == Script[c][ip[c]][1]
Target(c) == Script[c][ip[c]][2]

Init ==
    /\ fpc = [f \in Fibers |-> "none"]
    /\ flags = [f \in Fibers |-> {}]
    /\ ref = [f \in Fibers |-> 0]
    /\ rv = [f \in Fibers |-> NoValue]
    /\ alloc = [f \in Fibers |-> IF UserStack[f] THEN {"ustack"} ELSE {}]
    /\ condq = [f \in Fibers |-> <<>>]
    /\ numFibers = 0
    /\ ip = [c \in Callers |-> 1]
    /\ cpc = [c \in Callers |-> IF Script[c] = <<>> THEN "done" ELSE "call"]
    /\ result = [c \in Callers |-> NoValue]

\* The caller finishes its current call and moves to the next one.
NextCall(c) ==
    /\ ip' = [ip EXCEPT ![c] = @ + 1]
    /\ cpc' = [cpc EXCEPT ![c] = IF ip[c] = Len(Script[c]) THEN "done" ELSE "call"]

(***************************************************************************)
(* fev_fiber_create().  `fail` is the allocation or init that fails: the   *)
(* fiber struct ("fiber"), fev_stack_alloc() (its StackFailPoints, only   *)
(* when the stack is not the user's), fev_cond_init() ("cond"),            *)
(* fev_mutex_init() ("mutex"), or none ("ok").                             *)
(***************************************************************************)
FailPoints(f) ==
    {"ok", "fiber", "cond", "mutex"} \cup (IF UserStack[f] THEN {} ELSE StackFailPoints(Attr[f]))

StackFails == {"mmap", "mprotect"}

\* What has been allocated when `fail` fails.
AllocatedBefore(f, fail) ==
    CASE fail = "fiber" -> {}
      [] fail \in StackFails -> {"fiber"}
      [] fail = "cond"  -> {"fiber"} \cup (IF UserStack[f] THEN {} ELSE {"stack"})
      [] fail = "mutex" -> {"fiber", "cond"} \cup (IF UserStack[f] THEN {} ELSE {"stack"})

\* What the labels fail_cond, fail_fiber_stack and fail_fiber free.
Cleanup(f, fail) ==
    (IF fail = "mutex" THEN {"cond"} ELSE {})
    \cup (IF fail \in {"cond", "mutex"} /\ ~UserStack[f] THEN {"stack"} ELSE {})
    \cup (IF fail \in StackFails \cup {"cond", "mutex"} THEN {"fiber"} ELSE {})

\* ref_count: the fiber itself, and the joiner unless it is detached.
InitialRef(f) == IF Detached[f] THEN 1 ELSE 2

Create(c) ==
    /\ cpc[c] = "call" /\ Op(c) = "create"
    /\ LET f == Target(c) IN
       \E fail \in FailPoints(f) :
         IF fail = "ok"
         THEN /\ fpc' = [fpc EXCEPT ![f] = "run"]
              /\ flags' = [flags EXCEPT ![f] = IF Detached[f] THEN {} ELSE {"JOINABLE"}]
              /\ ref' = [ref EXCEPT ![f] = InitialRef(f)]
              /\ alloc' = [alloc EXCEPT ![f] = @ \cup {"fiber", "cond", "mutex"}
                                                  \cup (IF UserStack[f] THEN {} ELSE {"stack"})]
              /\ numFibers' = numFibers + 1
         ELSE /\ fpc' = [fpc EXCEPT ![f] = "failed"]
              /\ alloc' = [alloc EXCEPT ![f] = (@ \cup AllocatedBefore(f, fail)) \ Cleanup(f, fail)]
              /\ UNCHANGED <<flags, ref, numFibers>>
    /\ NextCall(c)
    /\ UNCHANGED <<rv, condq, result>>

(***************************************************************************)
(* fev_fiber_release(): fetch_sub on ref_count; the caller that took it    *)
(* from 1 to 0 frees the mutex, the cond and the fiber.                    *)
(***************************************************************************)
\* Mutant: the fiber is freed when ref_count drops to 1.
ReleaseFromEarly(f, a) ==
    /\ ref' = [ref EXCEPT ![f] = @ - 1]
    /\ alloc' = [alloc EXCEPT ![f] = IF ref[f] <= 2 THEN a \ {"mutex", "cond", "fiber"} ELSE a]

ReleaseFrom(f, a) ==
    /\ ref' = [ref EXCEPT ![f] = @ - 1]
    /\ alloc' = [alloc EXCEPT ![f] = IF ref[f] = 1 THEN a \ {"mutex", "cond", "fiber"} ELSE a]

Release(f) == ReleaseFrom(f, alloc[f])

\* The start routine returns v; fev_fiber_exit(v) sets return_value and DEAD
\* under the mutex.
Exit(f) ==
    /\ fpc[f] = "run"
    /\ \E v \in Values : rv' = [rv EXCEPT ![f] = v]
    /\ flags' = [flags EXCEPT ![f] = @ \cup {"DEAD"}]
    /\ fpc' = [fpc EXCEPT ![f] = "exit_notify"]
    /\ UNCHANGED <<ref, alloc, condq, numFibers, ip, cpc, result>>

\* Mutant: the joiner is never notified.
ExitNotifyNoWake(f) ==
    /\ fpc[f] = "exit_notify"
    /\ fpc' = [fpc EXCEPT ![f] = "exit_post"]
    /\ UNCHANGED <<flags, ref, rv, alloc, condq, numFibers, ip, cpc, result>>

\* fev_cond_notify_one(&fiber->cond) after the unlock.
ExitNotify(f) ==
    /\ fpc[f] = "exit_notify"
    /\ IF condq[f] = <<>>
       THEN UNCHANGED <<condq, cpc>>
       ELSE /\ condq' = [condq EXCEPT ![f] = Tail(@)]
            /\ cpc' = [cpc EXCEPT ![Head(condq[f])] = "join_relock"]
    /\ fpc' = [fpc EXCEPT ![f] = "exit_post"]
    /\ UNCHANGED <<flags, ref, rv, alloc, numFibers, ip, result>>

\* Mutant: the stack is freed even when it is the user's.
ExitPostFreeAnyStack(f) ==
    /\ fpc[f] = "exit_post"
    /\ ReleaseFrom(f, alloc[f] \ {StackOf(f)})
    /\ numFibers' = numFibers - 1
    /\ fpc' = [fpc EXCEPT ![f] = "gone"]
    /\ UNCHANGED <<flags, rv, condq, ip, cpc, result>>

\* fev_fiber_exit_post() on the worker: free a stack fev_fiber_create()
\* allocated, release the fiber's own reference, decrement num_fibers.
ExitPost(f) ==
    /\ fpc[f] = "exit_post"
    /\ ReleaseFrom(f, IF UserStack[f] THEN alloc[f] ELSE alloc[f] \ {"stack"})
    /\ numFibers' = numFibers - 1
    /\ fpc' = [fpc EXCEPT ![f] = "gone"]
    /\ UNCHANGED <<flags, rv, condq, ip, cpc, result>>

(***************************************************************************)
(* fev_fiber_join() and fev_fiber_detach().  The handle of a fiber is      *)
(* known to a caller only once fev_fiber_create() has returned, and is     *)
(* given up by the first join or detach of it that returns: the fiber may *)
(* be freed from then on, so a later call would be the caller's misuse.   *)
(***************************************************************************)
HandleGivenUp(f) ==
    \E d \in Callers : \E i \in 1 .. ip[d] - 1 :
        Script[d][i][1] \in {"join", "detach"} /\ Script[d][i][2] = f

CanCall(c, op) ==
    /\ cpc[c] = "call" /\ Op(c) = op
    /\ fpc[Target(c)] \notin {"none", "failed"}
    /\ ~HandleGivenUp(Target(c))

\* A join or detach of a fiber whose creation failed is not made.
Skip(c) ==
    /\ cpc[c] = "call" /\ Op(c) \in {"join", "detach"}
    /\ fpc[Target(c)] = "failed"
    /\ NextCall(c)
    /\ UNCHANGED <<fpc, flags, ref, rv, alloc, condq, numFibers, result>>

\* One pass of the wait loop of fev_fiber_join() with the mutex held and
\* fiber->flags equal to fl: not joinable any more, dead, or fev_cond_wait().
JoinLoop(c, f, fl) ==
    CASE "JOINABLE" \notin fl ->
              /\ result' = [result EXCEPT ![c] = "EINVAL"]
              /\ NextCall(c) /\ UNCHANGED condq
      [] "DEAD" \in fl ->
              /\ result' = [result EXCEPT ![c] = rv[f]]
              /\ cpc' = [cpc EXCEPT ![c] = "join_release"]
              /\ UNCHANGED <<condq, ip>>
      [] OTHER ->
              /\ condq' = [condq EXCEPT ![f] = Append(@, c)]
              /\ cpc' = [cpc EXCEPT ![c] = "join_wait"]
              /\ UNCHANGED <<result, ip>>

\* fev_fiber_join(): lock the mutex; a second joiner gets -EINVAL;
\* otherwise set JOINING and enter the loop.
Join(c) ==
    /\ CanCall(c, "join")
    /\ LET f == Target(c) IN
       IF "JOINING" \in flags[f]
       THEN /\ result' = [result EXCEPT ![c] = "EINVAL"]
            /\ NextCall(c)
            /\ UNCHANGED <<flags, condq>>
       ELSE /\ flags' = [flags EXCEPT ![f] = @ \cup {"JOINING"}]
            /\ JoinLoop(c, f, flags[f] \cup {"JOINING"})
    /\ UNCHANGED <<fpc, ref, rv, alloc, numFibers>>

\* Woken by fev_cond_notify_one(): relock the mutex and check again.
JoinRelock(c) ==
    /\ cpc[c] = "join_relock"
    /\ JoinLoop(c, Target(c), flags[Target(c)])
    /\ UNCHANGED <<fpc, flags, ref, rv, alloc, numFibers>>

\* The joiner releases its reference.
JoinRelease(c) ==
    /\ cpc[c] = "join_release"
    /\ Release(Target(c))
    /\ NextCall(c)
    /\ UNCHANGED <<fpc, flags, rv, condq, numFibers, result>>

\* Mutant: JOINABLE is not cleared.
DetachKeepsJoinable(c) ==
    /\ CanCall(c, "detach")
    /\ LET f == Target(c) IN
       IF "JOINABLE" \notin flags[f]
       THEN /\ result' = [result EXCEPT ![c] = "EINVAL"]
            /\ NextCall(c)
       ELSE /\ result' = [result EXCEPT ![c] = "ok"]
            /\ cpc' = [cpc EXCEPT ![c] = "detach_release"]
            /\ UNCHANGED ip
    /\ UNCHANGED <<fpc, flags, ref, rv, alloc, condq, numFibers>>

\* fev_fiber_detach(): under the mutex, -EINVAL if the fiber is not
\* joinable, else clear JOINABLE.
Detach(c) ==
    /\ CanCall(c, "detach")
    /\ LET f == Target(c) IN
       IF "JOINABLE" \notin flags[f]
       THEN /\ result' = [result EXCEPT ![c] = "EINVAL"]
            /\ NextCall(c)
            /\ UNCHANGED flags
       ELSE /\ flags' = [flags EXCEPT ![f] = @ \ {"JOINABLE"}]
            /\ result' = [result EXCEPT ![c] = "ok"]
            /\ cpc' = [cpc EXCEPT ![c] = "detach_release"]
            /\ UNCHANGED ip
    /\ UNCHANGED <<fpc, ref, rv, alloc, condq, numFibers>>

\* After the unlock, the detacher releases its reference.
DetachRelease(c) ==
    /\ cpc[c] = "detach_release"
    /\ Release(Target(c))
    /\ NextCall(c)
    /\ UNCHANGED <<fpc, flags, rv, condq, numFibers, result>>

Caller(c) ==
    Create(c) \/ Skip(c) \/ Join(c) \/ JoinRelock(c) \/ JoinRelease(c)
    \/ Detach(c) \/ DetachRelease(c)

\* fev_fiber_start(): the start routine returns and the fiber calls
\* fev_fiber_exit(), whose steps follow.
Life(f) == Exit(f) \/ ExitNotify(f) \/ ExitPost(f)

\* Every call has returned and every created fiber has exited.
Terminated ==
    /\ \A c \in Callers : cpc[c] = "done"
    /\ \A f \in Fibers : fpc[f] \in {"none", "failed", "gone"}

Next ==
    \/ \E c \in Callers : Caller(c)
    \/ \E f \in Fibers : Life(f)
    \/ Terminated /\ UNCHANGED vars

\* A runnable fiber is eventually run by some worker, and a fiber woken by
\* fev_cond_notify_one() is runnable.
Fairness ==
    /\ \A c \in Callers : WF_vars(Caller(c))
    /\ \A f \in Fibers : WF_vars(Life(f))

Spec == Init /\ [][Next]_vars /\ Fairness

-----------------------------------------------------------------------------
(* Properties.                                                             *)

TypeOK ==
    /\ fpc \in [Fibers -> {"none", "failed", "run", "exit_notify", "exit_post", "gone"}]
    /\ flags \in [Fibers -> SUBSET {"DEAD", "JOINABLE", "JOINING"}]
    /\ ref \in [Fibers -> 0 .. 2]
    /\ rv \in [Fibers -> Values \cup {NoValue}]
    /\ alloc \in [Fibers -> SUBSET {"fiber", "stack", "ustack", "cond", "mutex"}]
    /\ condq \in [Fibers -> Seq(Callers)]
    /\ numFibers \in 0 .. Cardinality(Fibers)
    /\ cpc \in [Callers -> {"call", "join_wait", "join_relock", "join_release",
                            "detach_release", "done"}]
    /\ result \in [Callers -> Values \cup {NoValue, "EINVAL", "ok"}]

\* No fiber touches a freed fiber: the fiber itself until its exit_post has
\* run, a joiner waiting on fiber->cond or about to relock fiber->mutex, and
\* a joiner or detacher about to release its reference.
UsesOnlyLiveFibers ==
    /\ \A f \in Fibers : fpc[f] \in {"run", "exit_notify", "exit_post"} => ~Freed(f)
    /\ \A c \in Callers :
          cpc[c] \in {"join_wait", "join_relock", "join_release", "detach_release"}
             => ~Freed(Target(c))

\* The library frees what it allocated and nothing else: a user's stack is
\* never freed, a failed fev_fiber_create() leaves nothing behind, and a
\* freed fiber has no stack, cond or mutex left.
MemoryAccounted ==
    \A f \in Fibers :
       /\ UserStack[f] => "ustack" \in alloc[f]
       /\ fpc[f] = "failed" => alloc[f] \subseteq {"ustack"}
       /\ Freed(f) => alloc[f] \subseteq {"ustack"}

\* The reference of the handle of a joinable fiber has been given back: a
\* detach cleared JOINABLE and released, or a join saw DEAD and released.
Pending(c, f) == cpc[c] \in {"join_wait", "join_relock", "join_release", "detach_release"}
                 /\ Target(c) = f

HandleReleased(f) ==
    /\ \/ "JOINABLE" \notin flags[f]
       \/ {"JOINING", "DEAD"} \subseteq flags[f]
    /\ ~\E c \in Callers : Pending(c, f)

\* ref_count counts the parties that still hold the fiber: the fiber itself
\* until fev_fiber_exit_post(), and the handle of a joinable fiber until the
\* join or the detach releases it; num_fibers counts the fibers not yet
\* past exit_post.
RefCountMatchesHolders ==
    /\ \A f \in Fibers : fpc[f] \notin {"none", "failed"} =>
          ref[f] = (IF fpc[f] = "gone" THEN 0 ELSE 1)
                   + (IF ~Detached[f] /\ ~HandleReleased(f) THEN 1 ELSE 0)
    /\ numFibers = Cardinality({f \in Fibers : fpc[f] \in {"run", "exit_notify", "exit_post"}})

\* Every fiber that was created is eventually freed with its stack, and
\* every join and detach returns: nobody waits on a fiber->cond forever.
AllReclaimed ==
    <>[](/\ \A c \in Callers : cpc[c] = "done"
         /\ \A f \in Fibers : alloc[f] \subseteq {"ustack"})

====
