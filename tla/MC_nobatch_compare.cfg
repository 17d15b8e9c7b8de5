\* Safety of the scheduler: two tests, two consumers, namelist compare, runs
\* outside the batch system (4 of the 5 procs each), xmlquery may raise.
CONSTANTS
    t1 = t1
    t2 = t2
    t3 = t3
    NoFile = NoFile
    NoWork = NoWork
    Tests <- MCTests
    TestOrder <- MCTestOrder
    TotalPes <- MCTotalPes
    Consumers = {c1, c2}
    MaxTasksPerNode = 4
    NoRun = FALSE
    NoBuild = FALSE
    NoBatch = TRUE
    Compare = TRUE
    Generate = FALSE
    FileWriteMayFail = FALSE
    ProcsQueryMayFail = TRUE

SPECIFICATION Spec
INVARIANT TypeOK
INVARIANT BudgetConserved
INVARIANT SinglePendingOwner
INVARIANT NoIllegalTransition
INVARIANT ConsumerAvailable
INVARIANT FailureVisible
INVARIANT StatusFileRoundTrip
