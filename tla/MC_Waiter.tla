----------------------------- MODULE MC_Waiter ------------------------------
(* Model-checking instance of Waiter: two wakers race for each wait.       *)
EXTENDS Waiter, TLC

CONSTANTS w1, w2

MC_Wakers == {w1, w2}

MC_BothCallers == {"waiters_queue", "socket"}

=============================================================================
