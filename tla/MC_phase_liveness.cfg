\* Liveness: 2 tests, 2 consumers, no namelist or build phase, no batch; create_test() returns and admitted phases complete.
CONSTANTS
    t1 = t1
    t2 = t2
    t3 = t3
    NoFile = NoFile
    NoWork = NoWork
    Tests <- MCTests
    TestOrder <- MCTestOrder
    TotalPes <- MCTotalPes
    Consumers = {c1, c2}
    MaxTasksPerNode = 4
    NoRun = FALSE
    NoBuild = TRUE
    NoBatch = TRUE
    Compare = FALSE
    Generate = FALSE
    FileWriteMayFail = FALSE
    ProcsQueryMayFail = FALSE

SPECIFICATION Spec
PROPERTY AdmittedPhaseCompletes
PROPERTY Termination
