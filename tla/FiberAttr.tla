------------------------------ MODULE FiberAttr ------------------------------
(***************************************************************************)
(* The attributes of fev_fiber_create() (fev_fiber_attr.c) and the stack   *)
(* allocation they drive (fev_stack_posix.c).  An attr is a record; the    *)
(* setters are pure operators that return the attr unchanged when they     *)
(* reject their argument with -EINVAL, as the code leaves it untouched.    *)
(* Addresses and sizes are naturals and NULL is 0.                         *)
(*                                                                         *)
(* The user builds an attr by a sequence of setter calls on the attr that  *)
(* fev_fiber_attr_create() made; AttrOf folds such a sequence.             *)
(***************************************************************************)
EXTENDS Naturals, Sequences, SequencesExt

CONSTANTS
    PageSize,           \* FEV_PAGE_SIZE
    DefaultStackSize,   \* FEV_DEFAULT_STACK_SIZE, a multiple of PageSize
    DefaultGuardSize    \* FEV_DEFAULT_GUARD_SIZE, a multiple of PageSize

NULL == 0

\* fev_fiber_create_default_attr, the attr used when attr == NULL, and the
\* one fev_fiber_attr_create() copies field by field.
CreateDefaultAttr ==
    [stack_addr |-> NULL, stack_size |-> DefaultStackSize,
     guard_size |-> DefaultGuardSize, detached |-> FALSE]

\* fev_fiber_spawn_default_attr: the same, detached.
SpawnDefaultAttr == [CreateDefaultAttr EXCEPT !.detached = TRUE]

PageAligned(n) == n % PageSize = 0

\* fev_fiber_attr_set_stack(): both the address and the size must be
\* page aligned.
SetStack(attr, addr, size) ==
    IF PageAligned(addr) /\ PageAligned(size)
    THEN [attr EXCEPT !.stack_addr = addr, !.stack_size = size]
    ELSE attr

\* fev_fiber_attr_set_stack_size()
SetStackSize(attr, size) ==
    IF PageAligned(size) THEN [attr EXCEPT !.stack_size = size] ELSE attr

\* fev_fiber_attr_set_guard_size()
SetGuardSize(attr, size) ==
    IF PageAligned(size) THEN [attr EXCEPT !.guard_size = size] ELSE attr

\* fev_fiber_attr_set_detached()
SetDetached(attr, d) == [attr EXCEPT !.detached = d]

\* One setter call <<name, arguments>>.
ApplyCall(attr, call) ==
    CASE call[1] = "set_stack"      -> SetStack(attr, call[2], call[3])
      [] call[1] = "set_stack_size" -> SetStackSize(attr, call[2])
      [] call[1] = "set_guard_size" -> SetGuardSize(attr, call[2])
      [] call[1] = "set_detached"   -> SetDetached(attr, call[2])

\* The attr after fev_fiber_attr_create() and the setter calls `calls`.
AttrOf(calls) == FoldLeft(ApplyCall, CreateDefaultAttr, calls)

\* What fev_fiber_create() does with attr->stack_addr: a user stack is used
\* as it is, otherwise fev_stack_alloc() maps one.
UsesUserStack(attr) == attr.stack_addr # NULL

\* The calls of fev_stack_alloc() that may fail: mmap(), and mprotect() of
\* the guard page when there is a guard.  A failed mprotect() unmaps what
\* mmap() mapped (fail_free), so either failure leaves nothing mapped.
StackFailPoints(attr) ==
    {"mmap"} \cup (IF attr.guard_size > 0 THEN {"mprotect"} ELSE {})

====
