CONSTANTS
    w1 = w1
    w2 = w2
    w3 = w3
    s1 = s1
    s2 = s2
    s3 = s3
    NULL = NULL
    Workers = {w1, w2, w3}
    Sockets = {s1, s2, s3}
SPECIFICATION Spec
INVARIANT TypeOK
INVARIANT NoFreeWhileReferenced
INVARIANT RetiredAccounted
