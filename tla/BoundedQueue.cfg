\* Both bounded queues.
CONSTANTS
    t1 = t1  t2 = t2  t3 = t3  NULL = NULL
    Impls = {"mpmc", "spmc"}
SPECIFICATION Spec
PROPERTY RefinesQueueSpec FailuresJustified
CHECK_DEADLOCK FALSE
