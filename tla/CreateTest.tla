----------------------------- MODULE CreateTest -----------------------------
(***************************************************************************)
(* The phase-driven test scheduler of scripts-acme/create_test_impl.py:   *)
(* class CreateTest.  One producer thread (the main thread) admits the    *)
(* next phase of each test under a CPU budget and puts work on a queue;   *)
(* parallel_jobs consumer threads take work, run the phase handler        *)
(* outside the mutex, and commit the result, refund the procs and write   *)
(* the TestStatus file under the mutex.  Every "with self._mutex" block   *)
(* is one atomic action; the handler call between them is another.        *)
(*                                                                         *)
(* Data abstraction: a test is a model value; the handlers are reduced to *)
(* their outcome (success, and for the namelist compare the soft failure);*)
(* a TestStatus file is the sequence of its <<status, phase>> records.    *)
(***************************************************************************)
EXTENDS Integers, Sequences, FiniteSets, SequencesExt, FiniteSetsExt

CONSTANTS
    Tests,            \* the test names, as model values
    TestOrder,        \* self._test_names: the order the producer scans them
    Consumers,        \* the consumer threads create_test() starts, one per
                      \* parallel_jobs given to the constructor
    MaxTasksPerNode,  \* machine info MAX_TASKS_PER_NODE
    TotalPes,         \* per test, what "./xmlquery TOTALPES" prints
    NoRun, NoBuild, NoBatch, Compare, Generate,
    FileWriteMayFail, \* whether open(TestStatus, "w") may raise
    ProcsQueryMayFail, \* whether "./xmlquery TOTALPES" or its int() may raise
    NoFile,           \* model value: no TestStatus file on disk
    NoWork            \* model value: a consumer holds no work item

ASSUME /\ TestOrder \in Seq(Tests) /\ ToSet(TestOrder) = Tests
       /\ IsFiniteSet(Consumers) /\ Consumers # {}
       /\ MaxTasksPerNode \in Nat
       /\ TotalPes \in [Tests -> Nat]
       /\ {NoRun, NoBuild, NoBatch, Compare, Generate, FileWriteMayFail,
             ProcsQueryMayFail}
            \subseteq BOOLEAN

\* self._parallel_jobs as given: the number of consumer threads.
NumJobs == Cardinality(Consumers)

\* Phase and status names (wait_for_tests.NAMELIST_PHASE is "NLCOMP": the
\* handler is found by getattr(self, "_%s_phase" % phase.lower())).
INIT == "INIT"
CREATE_NEWCASE == "CREATE_NEWCASE"
XML == "XML"
SETUP == "SETUP"
NLCOMP == "NLCOMP"
BUILD == "BUILD"
RUN == "RUN"
PASS == "PASS"
FAIL == "FAIL"
PEND == "PEND"
NLFAIL == "NLFAIL"
Statuses == {PASS, FAIL, PEND, NLFAIL}
CONTINUE == {PASS, NLFAIL}

PHASES == <<INIT, CREATE_NEWCASE, XML, SETUP, NLCOMP, BUILD, RUN>>

\* self._phases: PHASES without the phases the options remove.
phases == SelectSeq(PHASES, LAMBDA p :
                        /\ ~(p = BUILD /\ NoBuild)
                        /\ ~(p = RUN /\ NoRun)
                        /\ ~(p = NLCOMP /\ ~Compare /\ ~Generate))

\* self._phases.index(p), 0-based as in Python.
PhaseIndex(p) == CHOOSE i \in 0..Len(phases) - 1 : phases[i + 1] = p

LastPhase == phases[Len(phases)]

NextPhase(p) == phases[PhaseIndex(p) + 2]

\* self._proc_pool = int(pes * 1.25)
InitialProcPool == (MaxTasksPerNode * 5) \div 4

VARIABLES
    test_states,            \* test -> [phase, status]
    tests_with_nl_problems, \* the tests whose namelist compare found diffs
    proc_pool,              \* the CPU budget
    available_work,         \* the Queue.Queue of [test, phase, procs]
    parallel_jobs,          \* self._parallel_jobs, decremented as consumers leave
    cons_pc,                \* consumer -> where its loop is
    cons_work,              \* consumer -> the work item it took, or NoWork
    cons_success,           \* consumer -> what the handler returned
    prod_pc,                \* "scan" while the producer loops, then "done",
                            \* or "crashed" when an exception ended it
    driver_pc,              \* "wait" until create_test() has returned, then "done"
    rv,                     \* the value create_test() returns
    status_file,            \* test -> its TestStatus file, or NoFile
    very_bad,               \* test -> a "VERY BAD!" line was logged for it
    expect_failed,          \* an expect() of _update_test_status fired
    cs_files                \* the cs.status / cs.submit scripts written

vars == <<test_states, tests_with_nl_problems, proc_pool, available_work,
          parallel_jobs, cons_pc, cons_work, cons_success, prod_pc,
          driver_pc, rv, status_file, very_bad, expect_failed, cs_files>>

\* A consumer thread has ended: it left its loop ("exited"), or an
\* exception raised in it (an expect() of _update_test_status) ended it.
Ended == {"exited", "died"}

WorkItems == [test : Tests, phase : ToSet(phases), procs : Nat]

-----------------------------------------------------------------------------
(* State-table helpers.                                                    *)

\* _work_remains
work_remains(st) ==
    /\ st.status \in CONTINUE \cup {PEND}
    /\ st.phase # LastPhase

\* _is_broken, given the test's current status
is_broken(status) == status \notin CONTINUE /\ status # PEND

\* The expect() conditions of _update_test_status for (old) -> (phase, status)
UpdateAllowed(old, phase, status) ==
    IF old.phase = phase
    THEN old.status = PEND /\ status # PEND
    ELSE old.status \in CONTINUE /\ PhaseIndex(old.phase) = PhaseIndex(phase) - 1

\* _get_procs_needed runs "./xmlquery TOTALPES" (run_cmd without
\* ok_to_fail) for a RUN outside the batch system.
queries_totalpes(phase) == phase = RUN /\ NoBatch

\* _get_procs_needed
get_procs_needed(t, phase) ==
    IF phase = RUN /\ NoBatch THEN TotalPes[t] ELSE 1

\* Mutant: the namelist soft failure is not reported.
get_test_status_no_nl(t, phase, st) ==
    IF phase = st.phase THEN st.status ELSE PASS

\* _get_test_status(test, phase) for a test in state st; phase is never
\* later than st.phase here, so the "Tried to see the future" expect holds.
get_test_status(t, phase, st) ==
    IF phase = NLCOMP /\ t \in tests_with_nl_problems THEN NLFAIL
    ELSE IF phase = st.phase THEN st.status
    ELSE PASS

\* In Python 2, made_it_to_phase (an int) == BUILD_PHASE (a str) is False.
IntEqualsStr(i, s) == FALSE

\* _update_test_status_file: the text it writes, one <<status, phase>> per line.
update_test_status_file(t, st) ==
    LET made_it_to_phase == PhaseIndex(st.phase)
        lines == [i \in 1..made_it_to_phase + 1 |->
                    <<get_test_status(t, phases[i], st), phases[i]>>]
    IN IF ~NoRun /\ ~is_broken(st.status) /\ IntEqualsStr(made_it_to_phase, BUILD)
       THEN Append(lines, <<PEND, RUN>>)
       ELSE lines

\* wait_for_tests.parse_test_status_file(...)[0][phase]: the last record wins.
FileHasPhase(f, phase) == \E i \in DOMAIN f : f[i][2] = phase
FileStatus(f, phase) == f[SelectLastInSeq(f, LAMBDA r : r[2] = phase)][1]

\* The outcome of writing the file for a test in state st: the try/except
\* of _update_test_status_file logs "VERY BAD!" when open/write raises.
WriteOutcome(t, st, write_ok) ==
    IF write_ok THEN [file |-> update_test_status_file(t, st), bad |-> very_bad[t]]
    ELSE [file |-> status_file[t], bad |-> TRUE]

\* Mutant: the file is not rewritten when a non-RUN phase fails.
writes_only_on_progress(phase, success) ==
    phase # RUN /\ (phase = BUILD \/ phase = LastPhase)

\* Mutant: the file is not rewritten when the last phase passes.
writes_not_on_last_phase(phase, success) ==
    phase # RUN /\ (~success \/ phase = BUILD)

\* The first branch of _handle_test_status_file: a non-RUN phase that failed,
\* or that landed on BUILD or the last phase, rewrites the file.
writes_on_commit(phase, success) ==
    phase # RUN /\ (~success \/ phase = BUILD \/ phase = LastPhase)

\* _handle_test_status_file, run after the state update to st.
handle_test_status_file(t, phase, success, st, write_ok) ==
    LET f == status_file[t]
        keep == [file |-> f, bad |-> very_bad[t]]
    IN CASE writes_on_commit(phase, success) ->
                WriteOutcome(t, st, write_ok)
         [] phase = RUN /\ ~success /\ f = NoFile ->
                \* parse_test_status_file raises: "Could not read"
                [file |-> f, bad |-> TRUE]
         [] phase = RUN /\ ~success /\ ~FileHasPhase(f, RUN) ->
                WriteOutcome(t, st, write_ok)
         [] phase = RUN /\ ~success /\ FileStatus(f, RUN) \in {PASS, PEND} ->
                [file |-> f, bad |-> TRUE]
         [] OTHER -> keep

WriteOutcomes == IF FileWriteMayFail THEN BOOLEAN ELSE {TRUE}

-----------------------------------------------------------------------------
(* The producer: _producer.  One scan of all tests under the mutex.        *)

\* Mutant: the scan does not skip a test whose phase is in flight.
admissible_ignoring_pend(st) == work_remains(st)

\* The admission test of the scan: work remains and the test is not PEND.
admissible(st) == work_remains(st) /\ st.status # PEND

\* Mutant: the admitted phase is not marked PEND.
admitted_state_pass(np) == [phase |-> np, status |-> PASS]

\* The state the scan gives a test it admits to phase np.
admitted_state(np) == [phase |-> np, status |-> PEND]

\* One iteration of the scan's for-loop, over acc = [ts, pool, q, failed,
\* fails, crashed]: fails are the tests whose xmlquery raises in this scan,
\* which leaves the loop and the producer (crashed).  The pool is debited
\* before _update_test_status, whose expect() may fire.
AdmitTest(acc, t) ==
    LET st == acc.ts[t]
        np == NextPhase(st.phase)
        n  == get_procs_needed(t, np)
    IN CASE acc.failed \/ acc.crashed \/ ~admissible(st) -> acc
         [] queries_totalpes(np) /\ t \in acc.fails ->
                [acc EXCEPT !.crashed = TRUE]
         [] n > acc.pool -> acc
         [] ~UpdateAllowed(st, np, PEND) ->
                [acc EXCEPT !.pool = @ - n, !.failed = TRUE]
         [] OTHER ->
                [ts |-> [acc.ts EXCEPT ![t] = admitted_state(np)],
                 pool |-> acc.pool - n,
                 q |-> Append(acc.q, [test |-> t, phase |-> np, procs |-> n]),
                 failed |-> FALSE, fails |-> acc.fails, crashed |-> FALSE]

\* The sets of tests whose TOTALPES query may raise in one scan.
QueryFailures == IF ProcsQueryMayFail THEN SUBSET Tests ELSE {{}}

ProducerScan ==
    /\ prod_pc = "scan"
    /\ \E t \in Tests : work_remains(test_states[t])
    /\ \E fails \in QueryFailures :
       LET r == FoldLeft(AdmitTest,
                         [ts |-> test_states, pool |-> proc_pool,
                          q |-> available_work, failed |-> FALSE,
                          fails |-> fails, crashed |-> FALSE],
                         TestOrder)
       IN /\ test_states' = r.ts
          /\ proc_pool' = r.pool
          /\ available_work' = r.q
          /\ expect_failed' = (expect_failed \/ r.failed)
          /\ prod_pc' = IF r.crashed \/ r.failed THEN "crashed" ELSE "scan"
    /\ UNCHANGED <<cs_files, tests_with_nl_problems, parallel_jobs, cons_pc, cons_work,
                   cons_success, driver_pc, rv, status_file, very_bad>>

\* The scan found no test with work remaining: the loop ends.
ProducerExit ==
    /\ prod_pc = "scan"
    /\ \A t \in Tests : ~work_remains(test_states[t])
    /\ prod_pc' = "done"
    /\ UNCHANGED <<cs_files, test_states, tests_with_nl_problems, proc_pool,
                   available_work, parallel_jobs, cons_pc, cons_work,
                   cons_success, driver_pc, rv, status_file, very_bad,
                   expect_failed>>

-----------------------------------------------------------------------------
(* The consumers: _consumer.                                               *)

\* First critical section: take one work item if the queue has one.
ConsumerGet(c) ==
    /\ cons_pc[c] = "get"
    /\ IF available_work # <<>>
       THEN /\ cons_work' = [cons_work EXCEPT ![c] = Head(available_work)]
            /\ available_work' = Tail(available_work)
            /\ cons_pc' = [cons_pc EXCEPT ![c] = "run"]
       ELSE /\ cons_pc' = [cons_pc EXCEPT ![c] = "check"]
            /\ UNCHANGED <<cs_files, cons_work, available_work>>
    /\ UNCHANGED <<cs_files, test_states, tests_with_nl_problems, proc_pool,
                   parallel_jobs, cons_success, prod_pc, driver_pc, rv,
                   status_file, very_bad, expect_failed>>

\* A handler's result: what it returns, and whether it recorded a namelist
\* problem.  _run_phase_command returns whether the command exited 0
\* (_create_newcase_phase may also return False for a missing testmod).
run_phase_command_outcomes == {[ok |-> b, nl |-> FALSE] : b \in BOOLEAN}

\* _nlcomp_phase with compare: has_fails is set by a missing baseline file
\* or a failed comparison, recorded last, and the handler returns True.
nlcomp_compare_outcomes == {[ok |-> TRUE, nl |-> b] : b \in BOOLEAN}

\* _nlcomp_phase with generate: the baselines are copied; always True.
nlcomp_generate_outcomes == {[ok |-> TRUE, nl |-> FALSE]}

\* _run_catch_exceptions: an exception in the handler (before it records a
\* namelist problem, which is its last statement) makes the result False.
run_catch_exceptions(outcomes) == outcomes \cup {[ok |-> FALSE, nl |-> FALSE]}

\* The handler getattr(self, "_<phase>_phase") of each phase.
HandlerOutcomes(phase) ==
    run_catch_exceptions(
        IF phase # NLCOMP THEN run_phase_command_outcomes
        ELSE IF Compare THEN nlcomp_compare_outcomes
        ELSE nlcomp_generate_outcomes)

\* The CIME run scripts started by _run_phase share the TestStatus file:
\* they may set its RUN line to any status, or not touch it.
SetRunRecord(f, s) ==
    IF FileHasPhase(f, RUN)
    THEN [i \in DOMAIN f |-> IF f[i][2] = RUN THEN <<s, RUN>> ELSE f[i]]
    ELSE Append(f, <<s, RUN>>)

RunScriptFiles(f) ==
    IF f = NoFile THEN {f}
    ELSE {f} \cup {SetRunRecord(f, s) : s \in {PEND, PASS, FAIL}}

\* Outside the mutex: _run_catch_exceptions(test, phase, handler).
ConsumerRun(c) ==
    /\ cons_pc[c] = "run"
    /\ LET t == cons_work[c].test
           phase == cons_work[c].phase
       IN \E o \in HandlerOutcomes(phase) :
            /\ cons_success' = [cons_success EXCEPT ![c] = o.ok]
            /\ tests_with_nl_problems' =
                 IF o.nl THEN tests_with_nl_problems \cup {t}
                 ELSE tests_with_nl_problems
            /\ IF phase = RUN
               THEN \E f \in RunScriptFiles(status_file[t]) :
                        status_file' = [status_file EXCEPT ![t] = f]
               ELSE UNCHANGED status_file
    /\ cons_pc' = [cons_pc EXCEPT ![c] = "commit"]
    /\ UNCHANGED <<cs_files, test_states, proc_pool, available_work, parallel_jobs,
                   cons_work, prod_pc, driver_pc, rv, very_bad, expect_failed>>

\* The status a consumer commits for the handler's result.
consumer_status(phase, success) ==
    IF success THEN (IF phase = RUN /\ ~NoBatch THEN PEND ELSE PASS) ELSE FAIL

\* Mutants: the procs are not returned / are returned twice.
RefundNothing(w) == proc_pool
RefundTwice(w) == proc_pool + 2 * w.procs

\* The returned procs.
Refund(w) == proc_pool + w.procs

\* Second critical section: commit the status, refund the procs, write the
\* TestStatus file.  A fired expect() raises out of the mutex block and
\* ends this consumer thread before the refund: its procs stay taken,
\* _parallel_jobs still counts it, and the other threads go on.
ConsumerCommit(c) ==
    /\ cons_pc[c] = "commit"
    /\ LET w == cons_work[c]
           t == w.test
           new == [phase |-> w.phase,
                   status |-> consumer_status(w.phase, cons_success[c])]
       IN IF ~UpdateAllowed(test_states[t], new.phase, new.status)
          THEN /\ expect_failed' = TRUE
               /\ cons_pc' = [cons_pc EXCEPT ![c] = "died"]
               /\ cons_work' = [cons_work EXCEPT ![c] = NoWork]
               /\ UNCHANGED <<cs_files, test_states, proc_pool, status_file, very_bad,
                              cons_success>>
          ELSE \E write_ok \in WriteOutcomes :
                 LET h == handle_test_status_file(t, w.phase, cons_success[c],
                                                  new, write_ok)
                 IN /\ test_states' = [test_states EXCEPT ![t] = new]
                    /\ proc_pool' = Refund(w)
                    /\ status_file' = [status_file EXCEPT ![t] = h.file]
                    /\ very_bad' = [very_bad EXCEPT ![t] = h.bad]
                    /\ cons_pc' = [cons_pc EXCEPT ![c] = "get"]
                    /\ cons_work' = [cons_work EXCEPT ![c] = NoWork]
                    /\ cons_success' = [cons_success EXCEPT ![c] = FALSE]
                    /\ UNCHANGED expect_failed
    /\ UNCHANGED <<cs_files, tests_with_nl_problems, available_work, parallel_jobs,
                   prod_pc, driver_pc, rv>>

\* Mutants: the comparison off by one either way.
ShouldExitAtOrBelow(num_tests_that_still_have_work) ==
    num_tests_that_still_have_work <= parallel_jobs
ShouldExitKeepingOne(num_tests_that_still_have_work) ==
    num_tests_that_still_have_work < parallel_jobs - 1

\* The consumer leaves when fewer tests have work than there are consumers.
ShouldExit(num_tests_that_still_have_work) ==
    num_tests_that_still_have_work < parallel_jobs

\* The critical section of the else-branch; the sleep(5) follows it.
ConsumerCheck(c) ==
    /\ cons_pc[c] = "check"
    /\ LET n == Cardinality({t \in Tests : work_remains(test_states[t])})
       IN IF ShouldExit(n)
          THEN /\ parallel_jobs' = parallel_jobs - 1
               /\ cons_pc' = [cons_pc EXCEPT ![c] = "exited"]
          ELSE /\ cons_pc' = [cons_pc EXCEPT ![c] = "get"]
               /\ UNCHANGED parallel_jobs
    /\ UNCHANGED <<cs_files, test_states, tests_with_nl_problems, proc_pool,
                   available_work, cons_work, cons_success, prod_pc,
                   driver_pc, rv, status_file, very_bad, expect_failed>>

-----------------------------------------------------------------------------
(* create_test(): after _producer returns, wait for the consumers, then    *)
(* compute the summary.                                                    *)

TestPassed(t) ==
    /\ test_states[t].status \in {PASS, PEND}
    /\ t \notin tests_with_nl_problems

\* _setup_cs_files: cs.status always, cs.submit only when the user is left
\* to build or run the cases.  An exception at any point of the try block
\* is only warned about, leaving the scripts written so far.
cs_writes == <<"cs.status">> \o (IF NoBuild \/ NoRun THEN <<"cs.submit">> ELSE <<>>)

setup_cs_files_outcomes ==
    IF FileWriteMayFail
    THEN {ToSet(SubSeq(cs_writes, 1, k)) : k \in 0..Len(cs_writes)}
    ELSE {ToSet(cs_writes)}

\* The rest of create_test(): once only the main thread is left, set up
\* the cs files and compute the summary.
Finish ==
    /\ driver_pc = "wait"
    /\ prod_pc = "done"
    /\ \A c \in Consumers : cons_pc[c] \in Ended
    /\ driver_pc' = "done"
    /\ cs_files' \in setup_cs_files_outcomes
    /\ rv' = \A t \in Tests : TestPassed(t)
    /\ UNCHANGED <<test_states, tests_with_nl_problems, proc_pool,
                   available_work, parallel_jobs, cons_pc, cons_work,
                   cons_success, prod_pc, status_file, very_bad, expect_failed>>

\* The process has exited: create_test() returned, or an exception (a
\* failed TOTALPES query or expect()) ended the main thread and every
\* consumer thread has ended since.
Terminated ==
    /\ \/ driver_pc = "done"
       \/ prod_pc = "crashed" /\ \A c \in Consumers : cons_pc[c] \in Ended
    /\ UNCHANGED vars

-----------------------------------------------------------------------------

Init ==
    /\ test_states = [t \in Tests |-> [phase |-> INIT, status |-> PASS]]
    /\ tests_with_nl_problems = {}
    /\ proc_pool = InitialProcPool
    /\ available_work = <<>>
    /\ parallel_jobs = NumJobs
    /\ cons_pc = [c \in Consumers |-> "get"]
    /\ cons_work = [c \in Consumers |-> NoWork]
    /\ cons_success = [c \in Consumers |-> FALSE]
    /\ prod_pc = "scan"
    /\ driver_pc = "wait"
    /\ rv = FALSE
    /\ status_file = [t \in Tests |-> NoFile]
    /\ very_bad = [t \in Tests |-> FALSE]
    /\ expect_failed = FALSE
    /\ cs_files = {}

Consumer(c) ==
    ConsumerGet(c) \/ ConsumerRun(c) \/ ConsumerCommit(c) \/ ConsumerCheck(c)

Producer == ProducerScan \/ ProducerExit

Next ==
    \/ Producer
    \/ \E c \in Consumers : Consumer(c)
    \/ Finish
    \/ Terminated

\* Python threads with sleep-polling loops: no runnable thread is starved.
Fairness ==
    /\ WF_vars(Producer)
    /\ \A c \in Consumers : WF_vars(Consumer(c))
    /\ WF_vars(Finish)

Spec == Init /\ [][Next]_vars /\ Fairness

-----------------------------------------------------------------------------
(* Properties.                                                             *)

Busy == {c \in Consumers : cons_work[c] # NoWork}

\* The work items for test t on the queue and in consumers' hands.
QueuedFor(t) == {i \in DOMAIN available_work : available_work[i].test = t}
HeldFor(t) == {c \in Busy : cons_work[c].test = t}
Owners(t) == Cardinality(QueuedFor(t)) + Cardinality(HeldFor(t))

\* Every variable stays in its type; the CPU pool never goes negative nor
\* above its initial value (a double refund in _consumer would).
TypeOK ==
    /\ test_states \in [Tests -> [phase : ToSet(phases), status : Statuses]]
    /\ tests_with_nl_problems \subseteq Tests
    /\ proc_pool \in 0..InitialProcPool
    /\ available_work \in Seq(WorkItems)
    /\ parallel_jobs \in 0..NumJobs
    /\ cons_pc \in [Consumers -> {"get", "run", "commit", "check", "exited", "died"}]
    /\ cons_work \in [Consumers -> WorkItems \cup {NoWork}]
    /\ cons_success \in [Consumers -> BOOLEAN]
    /\ prod_pc \in {"scan", "done", "crashed"}
    /\ driver_pc \in {"wait", "done"}
    /\ rv \in BOOLEAN
    /\ status_file \in [Tests -> Seq(Statuses \X ToSet(phases)) \cup {NoFile}]
    /\ very_bad \in [Tests -> BOOLEAN]
    /\ expect_failed \in BOOLEAN
    /\ cs_files \subseteq {"cs.status", "cs.submit"}

\* CPU budget conservation: the producer debits and the consumers refund
\* under the mutex, so the pool plus the procs of every queued or running
\* phase is always int(1.25 * MAX_TASKS_PER_NODE).
BudgetConserved ==
    proc_pool
       + FoldLeft(LAMBDA a, w : a + w.procs, 0, available_work)
       + MapThenSumSet(LAMBDA c : cons_work[c].procs, Busy)
    = InitialProcPool

\* The PEND gate: a test has at most one admitted phase, on the queue or
\* with one consumer, and it is the test's current phase; a PEND test with
\* no owner is one whose RUN was submitted to the batch system.
SinglePendingOwner ==
    \A t \in Tests :
        LET st == test_states[t] IN
        /\ Owners(t) <= 1
        /\ \A i \in QueuedFor(t) : available_work[i].phase = st.phase
        /\ \A c \in HeldFor(t) : cons_work[c].phase = st.phase
        /\ Owners(t) = 1 => st.status = PEND
        /\ (st.status = PEND /\ Owners(t) = 0) => st.phase = RUN /\ ~NoBatch

\* The producer and consumers never ask _update_test_status for a
\* transition its expect() calls reject (a skipped phase, a phase started
\* after a failure, PEND -> PEND): no thread is ever ended by one.
NoIllegalTransition == ~expect_failed

\* Consumers shed themselves in _consumer as tests finish, but while some
\* test still has work at least one consumer thread is alive to run it.
ConsumerAvailable ==
    (\E t \in Tests : work_remains(test_states[t]))
        => \E c \in Consumers : cons_pc[c] \notin Ended

\* A failed phase is visible to the tools that read TestStatus: the file
\* ends with FAIL for the failed phase (for RUN: its RUN line says FAIL),
\* or a "VERY BAD!" diagnostic was logged for the test.
FailureVisible ==
    \A t \in Tests :
        LET st == test_states[t]
            f == status_file[t]
        IN st.status = FAIL =>
            \/ very_bad[t]
            \/ /\ f # NoFile
               /\ IF st.phase = RUN
                  THEN FileHasPhase(f, RUN) /\ FileStatus(f, RUN) = FAIL
                  ELSE Last(f) = <<FAIL, st.phase>>

\* The per-phase status the outside world is told of a phase p earlier than
\* the test's current one (the rule of the design's status derivation).
ReportedStatus(t, p) ==
    IF p = NLCOMP /\ t \in tests_with_nl_problems THEN NLFAIL ELSE PASS

\* Round trip of the TestStatus file: its lines follow self._phases from
\* INIT, and each line for a phase the test has moved past gives the
\* status the state table reports for it (NLFAIL for a namelist diff).
StatusFileRoundTrip ==
    \A t \in Tests :
        LET f == status_file[t] IN
        f # NoFile =>
            \A i \in DOMAIN f :
                /\ i <= Len(phases) /\ f[i][2] = phases[i]
                /\ PhaseIndex(f[i][2]) < PhaseIndex(test_states[t].phase)
                     => f[i][1] = ReportedStatus(t, f[i][2])

\* What the tools that read TestStatus see once create_test() has returned:
\* a test that passed its last phase (with no RUN, which the run scripts
\* report) has a file with one line per phase, each with the status the
\* state table reports, unless a "VERY BAD!" write failure was logged.
FinalStatusFileComplete ==
    driver_pc = "done" =>
        \A t \in Tests :
            (/\ LastPhase # RUN
             /\ test_states[t].phase = LastPhase
             /\ test_states[t].status \in CONTINUE
             /\ ~very_bad[t])
            => status_file[t] =
                 [i \in 1..Len(phases) |-> <<ReportedStatus(t, phases[i]), phases[i]>>]

\* create_test() returns: the producer's loop ends and every consumer
\* leaves, whatever the handlers return.
Termination == <>(driver_pc = "done")

\* Every admitted phase short of the last is run and committed: while it
\* is PEND its test still counts as work remaining, so the consumers' shed
\* rule keeps one of them to take it off the queue.  (The last phase has
\* no such guarantee: see ShutdownDrained.)
AdmittedPhaseCompletes ==
    \A t \in Tests :
        (test_states[t].status = PEND /\ test_states[t].phase # LastPhase)
            ~> test_states[t].status # PEND

\* The Python process ends: the main thread has left the producer loop,
\* by returning or by an exception, and every consumer thread has ended.
AllThreadsEnd ==
    <>(prod_pc # "scan" /\ \A c \in Consumers : cons_pc[c] \in Ended)

\* At shutdown the work queue is drained and the CPU budget is back to its
\* initial value (the design's lifecycle of the Work Queue and CPU Budget).
ShutdownDrained ==
    driver_pc = "done" =>
        /\ available_work = <<>>
        /\ proc_pool = InitialProcPool

\* When the file is written as the test passes BUILD and a RUN is still to
\* come, its last line is the placeholder "PEND <test> RUN" that
\* _update_test_status_file means to add for the run scripts.
RunPlaceholderWritten ==
    \A t \in Tests :
        (/\ ~NoRun
         /\ status_file[t] # NoFile
         /\ test_states[t] = [phase |-> BUILD, status |-> PASS])
            => Last(status_file[t]) = <<PEND, RUN>>

\* When the RUN phase fails and the TestStatus file has no RUN line, a
\* fresh file is written by _handle_test_status_file (the design: "if the
\* file does not yet contain a RUN entry, write a fresh file"), so a test
\* that failed in RUN always has a TestStatus file.
RunFailureFileWritten ==
    \A t \in Tests :
        test_states[t] = [phase |-> RUN, status |-> FAIL]
            => status_file[t] # NoFile

====
