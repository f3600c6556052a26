------------------------------- MODULE MC_Fiber -------------------------------
(* Three fibers created by two callers: f1 joinable on its own stack,     *)
(* joined by c1; f2 joinable on a user stack, detached by c2; f3          *)
(* detached.  Each creation may fail at any of its allocations.           *)
EXTENDS Fiber, TLC

CONSTANTS f1, f2, f3, c1, c2, v1, v2

\* Sizes in units of 1024 bytes: FEV_PAGE_SIZE 4, stacks of 8 with a guard
\* page.  f1 asks for no guard page and for a misaligned stack size, which
\* is refused; f2 gets a user stack at address 8, after a misaligned
\* address was refused; f3 is spawned with the default attr.
MC_PageSize == 4
MC_DefaultStackSize == 8
MC_DefaultGuardSize == 4
MC_Attr ==
    (f1 :> AttrOf(<< <<"set_guard_size", 0>>, <<"set_stack_size", 6>> >>))
    @@ (f2 :> AttrOf(<< <<"set_stack", 6, 8>>, <<"set_stack", 8, 8>> >>))
    @@ (f3 :> SpawnDefaultAttr)
MC_Script ==
    (c1 :> << <<"create", f1>>, <<"create", f3>>, <<"join", f1>> >>)
    @@ (c2 :> << <<"create", f2>>, <<"detach", f2>> >>)

\* c2 detaches f1 while c1 joins it.
MC_ScriptRace ==
    (c1 :> << <<"create", f1>>, <<"join", f1>> >>)
    @@ (c2 :> << <<"detach", f1>> >>)
====
