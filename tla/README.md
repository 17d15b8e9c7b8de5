# TLA+ models of `create_test_impl.py` (scripts-acme)

This directory holds TLA+ models of `src/scripts-acme/create_test_impl.py`,
class `CreateTest`. The class drives a batch of CIME test cases through a
fixed sequence of phases (`INIT`, `CREATE_NEWCASE`, `XML`, `SETUP`, `NLCOMP`,
`BUILD`, `RUN`). It uses one producer thread, several consumer threads and a
CPU budget. It also writes a `TestStatus` file for each test, which the CIME
run scripts share.

## 1. Inventory

### Components

| Component | Code | State | Operations |
|---|---|---|---|
| Test State Table | `_test_states`, `_tests_with_nl_problems`, `_get_test_data`, `_get_test_status`, `_update_test_status`, `_work_remains`, `_is_broken` (lines 55-170) | `(phase, status)` per test; the set of tests whose namelist compare found differences | read a test's status; derive the status of an earlier phase; move `PEND -> PASS/FAIL` or `CONTINUE -> (next, PEND)`; `expect()` raises on anything else, which ends the calling thread |
| Scheduler: producer | `_producer` (454-475) | reads and writes the table, `_proc_pool` and `_available_work` | under the mutex, scan every test; admit the next phase when the procs fit; exit once no test has work |
| Scheduler: consumers | `_consumer` (415-451) | per thread: the item it holds; shared `_parallel_jobs` | take an item (mutex); run the handler (no mutex); commit the status, refund the procs and write `TestStatus` (mutex); if the queue was empty, count the tests with work and maybe leave (mutex) |
| Driver | `create_test` (507-550) | none of its own | start the consumers, run the producer, wait for every thread, write the cs files, compute the summary |
| Phase handlers | `_create_newcase_phase` ... `_run_phase`, `_run_phase_command`, `_run_catch_exceptions` (173-375) | none (files on disk) | build and run an external command and return success; `_nlcomp_phase` records a soft failure; exceptions become `False` |
| Status persister | `_update_test_status_file`, `_handle_test_status_file` (340-412) | the `TestStatus` file of each test | rewrite the file from the table; after a RUN failure, parse the file and decide whether to rewrite it or log "VERY BAD" |
| Command runner, log sink | `acme_util.run_cmd` (not in this repository), `_log_output` (86-96) | the per-test log | append text |
| cs files | `_setup_cs_files` (478-504), called by `create_test` | two scripts under the test root | template substitution; cs.submit only with no_build or no_run |

### How the components interact

A single `threading.Lock` protects the table, the pool and the queue. The
producer holds it for the whole of a scan. A consumer holds it three times:
to dequeue, to commit, and to check whether it should leave. Only the handler
runs without it. `_tests_with_nl_problems` is the exception: `_nlcomp_phase`
writes it outside the lock. The `TestStatus` file is written under the lock.
The CIME run scripts started by the `RUN` handler also write it, and they do
not take the lock.

### What is hard

- **Interleavings.** The producer's admissions interleave with the
  consumers' get, commit and exit checks across several tests.
- **Consumer shedding.** A consumer leaves when fewer tests have work than
  there are consumers. The check happens in a different critical section from
  the empty-queue test.
- **Partial failure.** Handlers can fail or raise. Writes of `TestStatus` can
  fail. The namelist compare can fail softly. `xmlquery` can fail inside the
  producer.
- **A file shared with external scripts.** The run scripts can set the RUN
  line to anything while the RUN handler runs.
- **Resource bound.** A RUN that needs more procs than the pool holds is
  never admitted.

### What makes each component correct

- **Table:** transitions only as `_update_test_status` allows them, so no
  `expect()` ever fires. A test has at most one phase in flight.
- **Scheduler:** the budget is conserved. There is one owner per PEND phase.
  A consumer remains while work remains. `create_test()` returns. At
  shutdown, the queue is drained and the budget is restored.
- **Persister:** the file's lines follow the phases. Earlier phases report
  PASS, or NLFAIL after a namelist difference. A failure is visible in the
  file or in a VERY BAD diagnostic. A file is written when RUN fails without
  one. The `PEND RUN` placeholder is written after BUILD.

## 2. Plan

1. **`CreateTest.tla`** (done). It models the table,
   scheduler, persister and driver together, because they share one lock and
   every property involves more than one of them. `MC_CreateTest.tla`
   instantiates it for TLC.
2. **Producer failure and resource bound** (done). A nondeterministic
   failure of the `xmlquery`/`int()` path at line 382 ends the producer
   thread. A run with `TOTALPES` above the pool shows a test that is never
   admitted.
3. **What a failed `expect()` ends.** An `expect()` of `_update_test_status`
   raises in the thread that called it. A consumer thread is ended
   (`"died"`) and a producer scan is ended (`"crashed"`); the other threads
   go on. An abstract pipeline module and a check of the unlocked
   `sharedlibroot` choice were dropped; see "Not modelled".
4. **Option combinations and liveness** (done: `three_consumers` with
   `no_run` and `no_build`, `phase_liveness`). Together, the passing runs
   reach every branch of `_handle_test_status_file`.
5. **The namelist item selection of `_nlcomp_phase`** is left out; see
   "Not modelled".
6. **The end of `create_test()` and a larger instance** (done). `Finish`
   now includes `_setup_cs_files`. The consumers are a set of model values,
   and the invariant runs of the new `three_tests` run use them as a
   symmetry set. The Termination check moved into `phase_liveness`.

## 3. The model

### `CreateTest.tla`

**State.**
- `test_states`, `tests_with_nl_problems`, `proc_pool`, `available_work` and
  `parallel_jobs` are the attributes of the same name.
- `cons_pc`, `cons_work` and `cons_success` hold each consumer's position in
  its loop and its local variables.
- `prod_pc` and `driver_pc` hold the positions of the main thread.
- `rv` is the summary.
- `status_file` holds each test's `TestStatus` file as a sequence of
  `<<status, phase>>` records, or `NoFile`.
- `very_bad` records that a "VERY BAD!" line was logged.
- `expect_failed` records that an `expect()` of `_update_test_status` fired.
  The exception ends only the thread that raised it. In `ConsumerCommit`
  the consumer goes to `"died"` with the state update not applied, its
  procs not refunded and `parallel_jobs` not decremented. In `ProducerScan`
  the producer goes to `"crashed"`. A consumer counts as ended (`Ended`)
  when it has `"exited"` or `"died"`; `Finish` waits for both, as
  `threading.active_count()` does.

**Actions.** Each mutex block is one atomic action. `ProducerScan` folds
`AdmitTest` over `self._test_names` in order. `AdmitTest` debits the pool
before `_update_test_status`, as the code does. `ProducerExit` is the scan
that finds no work. The consumer's actions are `ConsumerGet`, `ConsumerRun`
(the handler, outside the mutex), `ConsumerCommit` and `ConsumerCheck`.
`Finish` is the driver after every thread has ended. `Terminated` is the
stutter after the process exits. `Finish` also runs `_setup_cs_files`:
it writes `cs.status`, then `cs.submit` when `no_build` or `no_run` is set.
An exception part way through leaves what was written so far. When `ProcsQueryMayFail` is set, each scan
picks the tests whose `xmlquery TOTALPES` raises (`QueryFailures`). The
first such test ends the scan, and the producer becomes `crashed`;
admissions made earlier in that scan stand.

**Abstractions.**
- Tests are model values.
- A handler is reduced to its possible results (`HandlerOutcomes`):
  - a command handler returns the exit status of its command
    (`run_phase_command_outcomes`);
  - `_nlcomp_phase` returns `True`. With compare, it may first record a
    namelist problem (`nlcomp_compare_outcomes`); with generate it only
    copies baselines (`nlcomp_generate_outcomes`);
  - `_run_catch_exceptions` turns an exception into `False`. Recording the
    namelist problem is the handler's last statement, so an exception
    never comes after it.
- The run scripts may set the RUN line of an existing file to PEND, PASS or
  FAIL (`RunScriptFiles`). This is an environment assumption: they do not
  create the file.
- File writes either succeed completely or, when `FileWriteMayFail` is set,
  raise at `open()` and leave the old file.
- `made_it_to_phase == BUILD_PHASE` compares an int with a str. That is
  `False` in Python 2, and `IntEqualsStr` models it as such.

### Runs

| Run | Config | Expect | What it shows |
|---|---|---|---|
| `nobatch_compare` | 2 tests, 2 consumers, pool 5, TOTALPES 4, compare, no batch, xmlquery may raise | pass | `TypeOK`, `BudgetConserved`, `SinglePendingOwner`, `NoIllegalTransition`, `ConsumerAvailable`, `FailureVisible`, `StatusFileRoundTrip` |
| `batch_generate` | batch submit, generate, writes may fail | pass | `TypeOK`, `SinglePendingOwner` (a RUN PEND with no owner, after the submitting consumer was ended by the `expect()` of its commit), `FailureVisible` (through VERY BAD) |
| `shutdown_drained` | 2 tests, 1 consumer | violation | a RUN item is left on the queue when `create_test()` returns |
| `run_placeholder` | 2 tests, 1 consumer | violation | the `PEND RUN` line is never written |
| `run_fail_nofile` | 1 test, no build | violation | a RUN failure leaves no `TestStatus` file |
| `three_consumers` | 2 tests, 3 consumers, no build, no run, compare, writes may fail | pass | `TypeOK`, `BudgetConserved`, `ConsumerAvailable`, `FailureVisible` with more consumers than tests; `FinalStatusFileComplete`: at return, a test that passed has a file listing every phase with the reported status, or a VERY BAD line |
| `phase_liveness` | 2 tests, 2 consumers, no namelist or build phase | pass | `Termination` under weak fairness; `AdmittedPhaseCompletes`: every admitted phase short of the last is eventually committed |
| `three_tests` | 3 tests, 3 consumers (symmetry), compare, no build, writes may fail | pass | `BudgetConserved`, `SinglePendingOwner`, `ConsumerAvailable`, `FailureVisible` while three RUNs contend for a pool that fits one |
| `query_fail` | 1 test, 1 consumer, xmlquery may raise | violation | `AllThreadsEnd`: after the producer's exception, the consumer polls forever |
| `run_exceeds_pool` | 1 test, TOTALPES 6, pool 5 | violation | `Termination`: the RUN is never admitted |
| `batch_run_submit` | 2 tests, 2 consumers, batch submission | violation | `ConsumerAvailable`: a successful submission commits `PEND -> PEND`, the `expect()` ends that consumer, and the other test's work has no live consumer |

**Bounds.** Two tests are enough for admissions to compete for the pool:
RUN takes 4 of 5 procs, so only one RUN fits at a time. Two tests also let
one test finish while the other still has work, which is when consumers
leave. Two consumers let two phases run at once and one consumer leave
before the other. The phase sequence is the real one, with up to 7 phases.
No counter is unbounded. The queue holds at most one item per test, and
`parallel_jobs` only decreases. `three_consumers` adds a third consumer, so
consumers start with more jobs than tests. `three_tests` has three tests
and three consumers, so one RUN can hold the pool while two other tests
wait for it. That run checks invariants only, so the consumers form a
symmetry set (`ConsumerSymmetry`): they run the same loop and nothing tells
them apart. The tests are not symmetric, because the producer scans them
in `TestOrder`. Liveness runs use no symmetry. The one-test violation runs are
the smallest instances that show each finding.

**Fairness.** `WF` applies to the producer, to each consumer and to the
driver. These are OS threads that poll with `sleep()`. A runnable thread is
never blocked forever, so weak fairness is what the code gives. Nothing is
strongly fair.

### Findings

1. **Stranded last phase (`shutdown_drained`).** A consumer sees an empty
   queue and releases the lock. The producer then admits a test's last
   phase, and that test stops counting as "work remains". The consumer
   re-takes the lock, counts 0, and leaves. The producer also sees no work
   and exits. `create_test()` returns with the RUN item still queued, its 4
   procs not refunded, and the test reported as `PEND`, which counts as not
   failed. The same happens with two consumers, once the other test has
   failed. That is why `AdmittedPhaseCompletes` excludes the last phase.
2. **Missing placeholder (`run_placeholder`).** Line 352 compares an int
   with a str, so the `PEND <test> RUN` line is never appended.
3. **No file after a RUN failure (`run_fail_nofile`).** With `no_build`,
   nothing writes `TestStatus` before RUN. If RUN then fails, the parse
   raises, only a log line is written, and no file is created.

4. **Batch submission ends its consumer (`batch_run_submit`).** With
   `no_batch` false, a successful RUN has status PEND (line 428). The
   consumer commits it over the PEND the producer set, and
   `_update_test_status` rejects `PEND -> PEND`. The design expects the test
   to end at `(RUN, PENDING)`. The exception ends that consumer thread only.
   Its RUN procs are never refunded (line 432), and `_parallel_jobs` still
   counts it. In TLC's trace, c1 sheds itself while t2's XML phase is
   queued. c2 then takes t1's RUN and is ended by the `expect()`. t2 is
   left with no live consumer, and the producer polls forever.
5. **Producer exception (`query_fail`).** `xmlquery TOTALPES` runs without
   `ok_to_fail` inside the scan (line 382). If it fails, or `int()` fails,
   the main thread dies. A test short of RUN still has work, so the
   consumer never sheds itself and the process never exits.
6. **TOTALPES above the pool (`run_exceeds_pool`).** The test's RUN never
   fits (line 467). The producer and a consumer loop forever. The design
   does not say what should happen in this case.

## 4. Not modelled

- The command lines of the handlers, the namelist file
  selection and the baseline copies: these are data.
- `_log_output`, except for VERY BAD.
- The text of the cs files. `Finish` keeps only which scripts were
  written (`cs_files`). No property is stated about them: a failure only
  warns, and nothing reads the scripts.
- The constructor's directory check, which runs before any thread starts.
- `run_cmd` itself.
- Abrupt process termination: nothing is recovered from disk, and the design
  excludes restart.
- `_log_output` creates the test directory if it is missing. The comment
  at line 89 warns that this could break `create_newcase`. But no log line
  is written for a test before its `CREATE_NEWCASE` handler runs, so that
  handler is the only place it could happen, and there it only follows a
  failure.
- The namelist file selection of `_nlcomp_phase` (lines 284-287): which
  files are compared is data. Only whether some comparison failed matters,
  and the model keeps that as `nl`.
- An abstract specification of the state table. What the table promises is
  exactly the `expect()` checks of `_update_test_status`. An illegal
  request is never applied, so a refinement mapping onto `test_states`
  would only restate `UpdateAllowed`. `NoIllegalTransition` checks instead
  that no such request is ever made.
- The `sharedlibroot` choice of `_create_newcase_phase` (line 193), which
  reads `_parallel_jobs` without the mutex. `_parallel_jobs` only falls.
  It reaches 1 only when fewer than 2 tests have work. The count of such
  tests never rises. So at most one case can use the shared root at a time,
  whatever the stale read, and no property about it could fail.
