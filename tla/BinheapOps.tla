------------------------------ MODULE BinheapOps ------------------------------
(***************************************************************************)
(* The binary heap of timers of one timers bucket (fev_timers_binheap.c,   *)
(* fev_timers_binheap.h) as pure operators on a bucket record:             *)
(*   heap  the array bucket->heap, indexed from 0; entries at and past len *)
(*         keep whatever pointer they held last, as the array does;        *)
(*   idx   timer->index of every timer;                                   *)
(*   len, cap  bucket->len and bucket->capacity.                           *)
(* Time[t] is the abs_time of timer t; fev_timers_cmp() compares it.       *)
(*                                                                         *)
(* The slots at and past len are never read again once a timer leaves the  *)
(* heap, and the timer itself lives on the stack of the fev_timed_wait()   *)
(* that added it; Drop() clears both, so that states differing only in     *)
(* such dead data are one state.                                           *)
(***************************************************************************)
EXTENDS Integers

CONSTANTS
    Timers,     \* the struct fev_timer objects
    Time,       \* Time[t]: t->abs_time
    NoTimer,    \* NULL
    MaxLen      \* bound of bucket->capacity

\* timer->index = SIZE_MAX marks an expired timer (fev_timer_set_expired()).
SIZE_MAX == -1

Slots == 0 .. MaxLen - 1

\* fev_timers_bucket_init(); a timer on the stack of fev_timed_wait() starts
\* with index 0, as its designated initializer leaves it.
EmptyBucket ==
    [heap |-> [i \in Slots |-> NoTimer], idx |-> [t \in Timers |-> 0],
     len |-> 0, cap |-> 0]

\* heap[i] = timer; timer->index = i.
Place(b, i, t) == [b EXCEPT !.heap[i] = t, !.idx[t] = i]

\* The timers in heap[0..len).
Content(b) == {b.heap[i] : i \in 0 .. b.len - 1}

\* bucket->heap[0], or NULL for an empty bucket.
Root(b) == IF b.len = 0 THEN NoTimer ELSE b.heap[0]

\* Mutant: a parent moved down keeps its old index.
RECURSIVE SiftUpFromNoIndex(_, _, _)
SiftUpFromNoIndex(b, index, t) ==
    IF index = 0 THEN Place(b, 0, t)
    ELSE LET parent == (index - 1) \div 2
             pp == b.heap[parent]
         IN IF Time[pp] <= Time[t] THEN Place(b, index, t)
            ELSE SiftUpFromNoIndex([b EXCEPT !.heap[index] = pp], parent, t)

\* fev_timers_sift_up() from position `index`: move the parents greater than
\* t down one level and put t in the hole.
RECURSIVE SiftUpFrom(_, _, _)
SiftUpFrom(b, index, t) ==
    IF index = 0 THEN Place(b, 0, t)
    ELSE LET parent == (index - 1) \div 2
             pp == b.heap[parent]
         IN IF Time[pp] <= Time[t] THEN Place(b, index, t)
            ELSE SiftUpFrom(Place(b, index, pp), parent, t)

\* Mutant: the right child is never compared.
RECURSIVE SiftDownFromLeft(_, _, _, _)
SiftDownFromLeft(b, n, start, last) ==
    IF n < 2 \/ (n - 2) \div 2 < start THEN Place(b, start, last)
    ELSE LET child == 2 * start + 1
             cp == b.heap[child]
         IN IF Time[last] <= Time[cp] THEN Place(b, start, last)
            ELSE SiftDownFromLeft(Place(b, start, cp), n, child, last)

\* The loop of fev_timers_sift_down() over heap[0..n) moving the hole at
\* `start` down past the children smaller than `last`.
RECURSIVE SiftDownFrom(_, _, _, _)
SiftDownFrom(b, n, start, last) ==
    IF n < 2 \/ (n - 2) \div 2 < start THEN Place(b, start, last)
    ELSE LET left == 2 * start + 1
             child == IF left + 1 < n /\ Time[b.heap[left + 1]] < Time[b.heap[left]]
                        THEN left + 1 ELSE left
             cp == b.heap[child]
         IN IF Time[last] <= Time[cp] THEN Place(b, start, last)
            ELSE SiftDownFrom(Place(b, start, cp), n, child, last)

\* fev_timers_sift_down(heap, len, start): remove heap[start] from
\* heap[0..len) by moving the last timer into its place and down.
SiftDown(b, len, start) ==
    IF start = len - 1 THEN b
    ELSE SiftDownFrom(b, len - 1, start, b.heap[len - 1])

\* Forget the slot past len and the index of a timer that left the heap.
Drop(b, t) ==
    [b EXCEPT !.heap[b.len] = NoTimer, !.idx[t] = 0]

\* fev_timers_bucket_grow(), when fev_realloc() succeeds.
Grow(b) == [b EXCEPT !.cap = IF @ = 0 THEN 1 ELSE 2 * @]

\* fev_timers_bucket_grow() is needed before an add.
MustGrow(b) == b.len = b.cap

\* fev_timers_bucket_add() once the capacity suffices: sift_up(heap, len++,
\* timer); it returns min_changed = (timer->index == 0).
BucketAdd(b, t) == SiftUpFrom([b EXCEPT !.len = @ + 1], b.len, t)

\* Mutant: only an add to an empty bucket reports a new minimum.
AddMinChangedFirst(b, t) == b.len = 0

AddMinChanged(b, t) == BucketAdd(b, t).idx[t] = 0

BucketDel(b, t) ==
    LET index == b.idx[t]
        b1 == SiftDown([b EXCEPT !.len = @ - 1], b.len, index)
    IN Drop(IF index > 0 /\ index < b1.len THEN SiftUpFrom(b1, index, b1.heap[index])
            ELSE b1, t)

\* Its result min_changed: the deleted timer was the root.
DelMinChanged(b, t) == b.idx[t] = 0

\* fev_timers_bucket_del_min().
BucketDelMin(b) == Drop(SiftDown([b EXCEPT !.len = @ - 1], b.len, 0), b.heap[0])

\* fev_timers_bucket_empty().
BucketEmpty(b) == b.len = 0

\* fev_timer_is_expired(), fev_timer_set_expired().
IsExpired(b, t) == b.idx[t] = SIZE_MAX
SetExpired(b, t) == [b EXCEPT !.idx[t] = SIZE_MAX]

=============================================================================
