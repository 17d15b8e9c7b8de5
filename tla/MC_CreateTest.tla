--------------------------- MODULE MC_CreateTest ---------------------------
(* Instantiation of CreateTest for TLC: two tests, as model values.        *)
EXTENDS CreateTest

CONSTANTS t1, t2, t3

MCTests == {t1, t2}
MCTestOrder == <<t1, t2>>

MCOneTest == {t1}
MCOneTestOrder == <<t1>>

\* Each case asks for 4 procs to run: with MAX_TASKS_PER_NODE = 4 the pool
\* is int(4 * 1.25) = 5, so only one RUN fits at a time.
MCTotalPes == [t \in MCTests |-> 4]
MCOneTotalPes == [t \in MCOneTest |-> 4]

\* Three tests whose RUNs (4 procs each) compete for the pool of 5.
MCThreeTests == {t1, t2, t3}
MCThreeTestOrder == <<t1, t2, t3>>
MCThreeTotalPes == [t \in MCThreeTests |-> 4]

\* A case that asks for more procs than the pool of 5 ever holds.
MCOneTotalPesTooBig == [t \in MCOneTest |-> 6]
\* The consumer threads run the same loop and are told apart by nothing
\* but their identity: a symmetry set for the runs that check invariants.
ConsumerSymmetry == Permutations(Consumers)
====
