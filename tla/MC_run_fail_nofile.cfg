\* A RUN failure in no-build mode, one test, one consumer.
CONSTANTS
    t1 = t1
    t2 = t2
    t3 = t3
    NoFile = NoFile
    NoWork = NoWork
    Tests <- MCOneTest
    TestOrder <- MCOneTestOrder
    TotalPes <- MCOneTotalPes
    Consumers = {c1}
    MaxTasksPerNode = 4
    NoRun = FALSE
    NoBuild = TRUE
    NoBatch = TRUE
    Compare = FALSE
    Generate = FALSE
    FileWriteMayFail = FALSE
    ProcsQueryMayFail = FALSE

SPECIFICATION Spec
INVARIANT RunFailureFileWritten
