\* Both callers of the waiter: a waiters-queue node (a fresh stack node per
\* wait) and the waiter embedded in a socket, reused by consecutive socket
\* operations; two wakers race for each wait.
CONSTANTS
    w1 = w1
    w2 = w2
    Wakers <- MC_Wakers
    MaxRounds = 2
    Callers <- MC_BothCallers
SPECIFICATION Spec
INVARIANT SingleResumption
INVARIANT NoAccessAfterReturn
PROPERTY ParkedFiberResumes
