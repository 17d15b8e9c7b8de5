\* The xmlquery TOTALPES call of the producer raises; one test, one consumer.
CONSTANTS
    t1 = t1
    t2 = t2
    t3 = t3
    NoFile = NoFile
    NoWork = NoWork
    Tests <- MCOneTest
    TestOrder <- MCOneTestOrder
    TotalPes <- MCOneTotalPes
    Consumers = {c1}
    MaxTasksPerNode = 4
    NoRun = FALSE
    NoBuild = FALSE
    NoBatch = TRUE
    Compare = FALSE
    Generate = FALSE
    FileWriteMayFail = FALSE
    ProcsQueryMayFail = TRUE

SPECIFICATION Spec
PROPERTY AllThreadsEnd
