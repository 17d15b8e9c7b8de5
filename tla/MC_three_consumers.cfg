\* Three consumers for two tests, no build, no run, writes may fail: consumers shed from the first empty queue, and the namelist compare is the last phase.
CONSTANTS
    t1 = t1
    t2 = t2
    t3 = t3
    NoFile = NoFile
    NoWork = NoWork
    Tests <- MCTests
    TestOrder <- MCTestOrder
    TotalPes <- MCTotalPes
    Consumers = {c1, c2, c3}
    MaxTasksPerNode = 4
    NoRun = TRUE
    NoBuild = TRUE
    NoBatch = TRUE
    Compare = TRUE
    Generate = FALSE
    FileWriteMayFail = TRUE
    ProcsQueryMayFail = FALSE

SPECIFICATION Spec
INVARIANT TypeOK
INVARIANT BudgetConserved
INVARIANT ConsumerAvailable
INVARIANT FailureVisible
INVARIANT FinalStatusFileComplete
