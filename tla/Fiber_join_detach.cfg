CONSTANTS
    f1 = f1
    f2 = f2
    f3 = f3
    c1 = c1
    c2 = c2
    v1 = v1
    v2 = v2
    Fibers = {f1}
    Callers = {c1, c2}
    Values = {v1, v2}
    PageSize <- MC_PageSize
    DefaultStackSize <- MC_DefaultStackSize
    DefaultGuardSize <- MC_DefaultGuardSize
    Attr <- MC_Attr
    Script <- MC_ScriptRace
SPECIFICATION Spec
INVARIANT UsesOnlyLiveFibers
