\* Batch submission: the RUN handler submits the case and returns True; an expect() then ends one consumer thread while another test still has work.
CONSTANTS
    t1 = t1
    t2 = t2
    t3 = t3
    NoFile = NoFile
    NoWork = NoWork
    Tests <- MCTests
    TestOrder <- MCTestOrder
    TotalPes <- MCTotalPes
    Consumers = {c1, c2}
    MaxTasksPerNode = 4
    NoRun = FALSE
    NoBuild = FALSE
    NoBatch = FALSE
    Compare = FALSE
    Generate = FALSE
    FileWriteMayFail = FALSE
    ProcsQueryMayFail = FALSE

SPECIFICATION Spec
INVARIANT ConsumerAvailable
