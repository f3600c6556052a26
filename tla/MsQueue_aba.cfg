CONSTANTS
    Workers = {w1, w2}
    Nodes = {n1, n2, n3, n4}
    Null = Null
    NumPushes = 3
    LocalPoolSize = 1
SPECIFICATION Spec
INVARIANT PushedVisible
CHECK_DEADLOCK FALSE
