\* The PEND RUN placeholder line of the TestStatus file.
CONSTANTS
    t1 = t1
    t2 = t2
    t3 = t3
    NoFile = NoFile
    NoWork = NoWork
    Tests <- MCTests
    TestOrder <- MCTestOrder
    TotalPes <- MCTotalPes
    Consumers = {c1}
    MaxTasksPerNode = 4
    NoRun = FALSE
    NoBuild = FALSE
    NoBatch = TRUE
    Compare = TRUE
    Generate = FALSE
    FileWriteMayFail = FALSE
    ProcsQueryMayFail = FALSE

SPECIFICATION Spec
INVARIANT RunPlaceholderWritten
