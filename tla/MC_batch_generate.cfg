\* Batch submission, baseline generation, TestStatus writes that may fail;
\* two tests, two consumers.
CONSTANTS
    t1 = t1
    t2 = t2
    t3 = t3
    NoFile = NoFile
    NoWork = NoWork
    Tests <- MCTests
    TestOrder <- MCTestOrder
    TotalPes <- MCTotalPes
    Consumers = {c1, c2}
    MaxTasksPerNode = 4
    NoRun = FALSE
    NoBuild = FALSE
    NoBatch = FALSE
    Compare = FALSE
    Generate = TRUE
    FileWriteMayFail = TRUE
    ProcsQueryMayFail = FALSE

SPECIFICATION Spec
INVARIANT TypeOK
INVARIANT SinglePendingOwner
INVARIANT FailureVisible
