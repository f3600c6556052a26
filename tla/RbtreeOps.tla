------------------------------ MODULE RbtreeOps ------------------------------
(***************************************************************************)
(* The red-black tree of timers of one timers bucket (fev_timers_rbtree.c, *)
(* fev_timers_rbtree.h), the build selected by FEV_TIMERS_RBTREE, as pure  *)
(* operators on a bucket record:                                           *)
(*   tree      the timers linked in bucket->head;                          *)
(*   tree_min  bucket->tree_min, the cached leftmost node, or NULL;        *)
(*   expired   timer->expired of every timer.                              *)
(* The balancing of tree.h is not in this repository: a binary search tree *)
(* is specified here by the ordered set of its keys, and RB_NEXT and       *)
(* RB_LEFT by what they return in any search tree holding that set.        *)
(***************************************************************************)
EXTENDS Integers

CONSTANTS
    Timers,     \* the struct fev_timer objects
    Time,       \* Time[t]: t->abs_time
    Addr,       \* Addr[t]: the address of t->waiter, distinct per timer
    NoTimer     \* NULL

\* fev_timers_cmp(): abs_time first, then the waiter's address, so that
\* no two timers of the tree compare equal.
Less(a, b) == Time[a] < Time[b] \/ (Time[a] = Time[b] /\ Addr[a] < Addr[b])

\* The least timer of a set in fev_timers_cmp() order, or NULL.
Least(S) == IF S = {} THEN NoTimer
            ELSE CHOOSE m \in S : \A x \in S \ {m} : Less(m, x)

\* fev_timers_bucket_init(): RB_INIT(), tree_min = NULL; a timer on the
\* stack of fev_timed_wait() starts with expired = false.
EmptyBucket ==
    [tree |-> {}, tree_min |-> NoTimer, expired |-> [t \in Timers |-> FALSE]]

\* RB_NEXT(m): the in-order successor of m in the tree.
NextOf(tree, m) == Least({x \in tree : Less(m, x)})

\* RB_LEFT(m, entry) != NULL for m the least timer before an insert: the
\* left subtree of m holds exactly the timers that are less than m.
HasLeft(tree, m) == \E x \in tree : Less(x, m)

\* Mutant: only an add to an empty tree reports a new minimum.
AddMinChangedFirst(b, t) == b.tree_min = NoTimer

\* fev_timers_bucket_add(): min_changed when tree_min was NULL or the
\* inserted timer became its left child.
AddMinChanged(b, t) ==
    b.tree_min = NoTimer \/ HasLeft(b.tree \cup {t}, b.tree_min)

\* expired = false, RB_INSERT(), and tree_min = timer if min_changed.
BucketAdd(b, t) ==
    [b EXCEPT !.tree = @ \cup {t}, !.expired[t] = FALSE,
              !.tree_min = IF AddMinChanged(b, t) THEN t ELSE @]

\* fev_timers_bucket_del(): min_changed when the timer is tree_min.
DelMinChanged(b, t) == b.tree_min = t

\* tree_min moves on to RB_NEXT(tree_min) before RB_REMOVE().
BucketDel(b, t) ==
    [b EXCEPT !.tree = @ \ {t},
              !.tree_min = IF DelMinChanged(b, t) THEN NextOf(b.tree, t) ELSE @]

\* fev_timers_bucket_del_min().
BucketDelMin(b) ==
    [b EXCEPT !.tree = @ \ {b.tree_min}, !.tree_min = NextOf(b.tree, @)]

\* fev_timers_bucket_min() (NULL when fev_timers_bucket_empty()).
Root(b) == b.tree_min

Content(b) == b.tree

\* fev_timers_bucket_empty().
BucketEmpty(b) == b.tree_min = NoTimer

\* fev_timer_is_expired(), fev_timer_set_expired().
IsExpired(b, t) == b.expired[t]
SetExpired(b, t) == [b EXCEPT !.expired[t] = TRUE]

====
