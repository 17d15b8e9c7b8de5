\* Three tests, three consumers (a symmetry set), compare, no build, no batch, writes may fail: three RUNs contend for a pool that fits one.
CONSTANTS
    t1 = t1
    t2 = t2
    t3 = t3
    NoFile = NoFile
    NoWork = NoWork
    Tests <- MCThreeTests
    TestOrder <- MCThreeTestOrder
    TotalPes <- MCThreeTotalPes
    Consumers = {c1, c2, c3}
    MaxTasksPerNode = 4
    NoRun = FALSE
    NoBuild = TRUE
    NoBatch = TRUE
    Compare = TRUE
    Generate = FALSE
    FileWriteMayFail = TRUE
    ProcsQueryMayFail = FALSE

SPECIFICATION Spec
SYMMETRY ConsumerSymmetry
INVARIANT BudgetConserved
INVARIANT SinglePendingOwner
INVARIANT ConsumerAvailable
INVARIANT FailureVisible
