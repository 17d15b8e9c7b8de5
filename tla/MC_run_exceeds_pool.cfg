\* A RUN that needs 6 procs on a node whose pool is int(4 * 1.25) = 5.
CONSTANTS
    t1 = t1
    t2 = t2
    t3 = t3
    NoFile = NoFile
    NoWork = NoWork
    Tests <- MCOneTest
    TestOrder <- MCOneTestOrder
    TotalPes <- MCOneTotalPesTooBig
    Consumers = {c1}
    MaxTasksPerNode = 4
    NoRun = FALSE
    NoBuild = FALSE
    NoBatch = TRUE
    Compare = FALSE
    Generate = FALSE
    FileWriteMayFail = FALSE
    ProcsQueryMayFail = FALSE

SPECIFICATION Spec
PROPERTY Termination
