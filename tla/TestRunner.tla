----------------------------- MODULE TestRunner -----------------------------
(***************************************************************************)
(* The test runner of the compiler: a queue of tests, asyncio workers that *)
(* build and run them, a task that draws a progress bar, and the main task *)
(* that waits for the queue to be worked off and then stops the others.    *)
(*                                                                         *)
(* The tasks share one thread, so a task runs undisturbed from one await   *)
(* that suspends it to the next, and each action is such a stretch.  The   *)
(* put of an unbounded queue never suspends, so the queue is filled before *)
(* the first worker starts; nor does the print lock, which is never held   *)
(* across an await.                                                        *)
(*                                                                         *)
(* A task that was asked to cancel raises CancelledError at the await it   *)
(* is in, whether or not what it awaits has meanwhile come in.             *)
(***************************************************************************)
EXTENDS Naturals, FiniteSets, SequencesExt

CONSTANTS
  Tests,           \* the tests that may be found
  Workers,         \* the worker tasks (n_workers of them)
  ExpectedBuild,   \* Test::expected_build_exit_code
  ExpectedExit,    \* Test::expected_exit_code
  ChecksOutput,    \* the tests that name an expected stdout or stderr
  ExitCodes,       \* the exit codes that processes end with
  MaxFaults        \* bound: exceptions raised in the tasks

ASSUME TestsAssumption == IsFiniteSet(Tests) /\ Tests # {}
ASSUME WorkersAssumption == Workers # {}
ASSUME ExitCodesAssumption == 0 \in ExitCodes
ASSUME ExpectedAssumption ==
  /\ ExpectedBuild \in [Tests -> ExitCodes]
  /\ ExpectedExit \in [Tests -> ExitCodes]
  /\ ChecksOutput \subseteq Tests
ASSUME MaxFaultsAssumption == MaxFaults \in Nat

VARIABLES
  queue,         \* the tests in _test_queue
  unfinished,    \* its count of unfinished tasks
  worker,        \* what each worker awaits
  test,          \* the test each worker works on, or worked on last
  progress,      \* the progress bar task: "drawing" or "done"
  main,          \* run_tests: "joining", "closing", "aborting" or "ended"
  cancelling,    \* the tasks that were asked to cancel
  errors,        \* a task has failed, and the task group will raise
  interrupted,   \* the user pressed Ctrl-C
  tests_ran, tests_passed, completed,
  exit_code,     \* of the test runner, once main has ended
  outcome,       \* what was recorded of each test
  exits,         \* the exit codes of its build and of its program, if it ran
  faults         \* exceptions raised so far

queueVars == <<queue, unfinished>>
resultVars == <<tests_ran, tests_passed, outcome, exits>>
mainVars == <<main, completed, exit_code>>
vars == <<queue, unfinished, worker, test, progress, main, cancelling, errors,
          interrupted, tests_ran, tests_passed, completed, exit_code, outcome,
          exits, faults>>

NoTest == "no test"
Main == "main"
Progress == "progress"

-----------------------------------------------------------------------------
Awaits(w, what) == worker[w] = what /\ w \notin cancelling

(* The top of the worker's loop, up to the start of the compiler; an empty *)
(* queue makes the worker wait, in vain, since nothing is put any more.    *)
TakeTest(w) ==
  IF queue = <<>>
  THEN /\ worker' = [worker EXCEPT ![w] = "waiting"]
       /\ test' = [test EXCEPT ![w] = NoTest]
       /\ UNCHANGED queue
  ELSE /\ worker' = [worker EXCEPT ![w] = "building"]
       /\ test' = [test EXCEPT ![w] = Head(queue)]
       /\ queue' = Tail(queue)

record_test_result(t, success) ==
  /\ tests_ran' = tests_ran + 1
  /\ tests_passed' = tests_passed + (IF success THEN 1 ELSE 0)
  /\ outcome' = [outcome EXCEPT ![t] = IF success THEN "passed" ELSE "failed"]

Exited(w, code) == exits' = [exits EXCEPT ![test[w]] = Append(@, code)]

task_done == unfinished' = unfinished - 1

(* Mutant: a test that fails is not counted as done.                       *)
FinishPassedOnly(w, success) ==
  /\ record_test_result(test[w], success)
  /\ IF success THEN task_done ELSE UNCHANGED unfinished
  /\ TakeTest(w)

(* A test is over: its result is recorded and counted, and the worker goes *)
(* on to the next one.                                                     *)
Finish(w, success) ==
  /\ record_test_result(test[w], success)
  /\ task_done
  /\ TakeTest(w)

Start(w) ==
  /\ Awaits(w, "created")
  /\ TakeTest(w)
  /\ UNCHANGED <<unfinished, progress, cancelling, errors, interrupted, faults,
                 resultVars, mainVars>>

(* Mutant: a build that was expected to fail is not looked at.             *)
BuildVerdictZeroOnly(t, code) ==
  CASE code = 0 -> "run"
    [] code # 0 /\ ExpectedBuild[t] # 0 -> "passed"
    [] OTHER -> "failed"

(* What a build that exits with code says about the test: "failed",        *)
(* "passed", or that the program is to be run.                             *)
BuildVerdict(t, code) ==
  CASE code # ExpectedBuild[t] -> "failed"
    [] code = ExpectedBuild[t] /\ code # 0 -> "passed"
    [] OTHER -> "run"

RunProgram(w) ==
  /\ worker' = [worker EXCEPT ![w] = "running"]
  /\ UNCHANGED <<queueVars, test, tests_ran, tests_passed, outcome>>

(* Mutant: the `continue' after a failed build is missing.                 *)
BuildExitsWithoutContinue(w, code) ==
  LET verdict == BuildVerdict(test[w], code) IN
  /\ Awaits(w, "building")
  /\ Exited(w, code)
  /\ worker' = [worker EXCEPT ![w] = "running"]
  /\ IF verdict = "run"
     THEN UNCHANGED <<unfinished, tests_ran, tests_passed, outcome>>
     ELSE record_test_result(test[w], verdict = "passed") /\ task_done
  /\ UNCHANGED <<queue, test, progress, cancelling, errors, interrupted, faults,
                 mainVars>>

BuildExits(w, code) ==
  LET verdict == BuildVerdict(test[w], code) IN
  /\ Awaits(w, "building")
  /\ Exited(w, code)
  /\ \/ verdict # "run" /\ Finish(w, verdict = "passed")
     \/ verdict = "run" /\ RunProgram(w)
  /\ UNCHANGED <<progress, cancelling, errors, interrupted, faults, mainVars>>

(* Checking an expected output is not implemented and fails the test.      *)
RunVerdict(t, code) == code = ExpectedExit[t] /\ t \notin ChecksOutput

ProgramExits(w, code) ==
  /\ Awaits(w, "running")
  /\ Exited(w, code)
  /\ Finish(w, RunVerdict(test[w], code))
  /\ UNCHANGED <<progress, cancelling, errors, interrupted, faults, mainVars>>

-----------------------------------------------------------------------------
Fault == faults < MaxFaults /\ faults' = faults + 1

(* Handling a test raises: a directory or a file cannot be made, the       *)
(* compiler or the emulator cannot be started, there is no program to      *)
(* chmod.  The worker prints the exception and ends.                       *)
WorkerRaises(w) ==
  /\ Awaits(w, "building") \/ Awaits(w, "running")
  /\ Fault
  /\ worker' = [worker EXCEPT ![w] = "done"]
  /\ UNCHANGED <<queueVars, test, progress, cancelling, errors, interrupted,
                 resultVars, mainVars>>

(* The compiler, the emulator or the program never ends; the runner waits  *)
(* for its end without a timeout, and only a cancel ends the wait.         *)
ProcessHangs(w) ==
  /\ Awaits(w, "building") \/ Awaits(w, "running")
  /\ worker' = [worker EXCEPT ![w] = "hanging"]
  /\ UNCHANGED <<queueVars, test, progress, cancelling, errors, interrupted, faults,
                 resultVars, mainVars>>

(* Printing a result raises, after the result was counted (which results   *)
(* are printed is an option of the runner; here it is all of them).        *)
RecordRaises(w, code) ==
  LET verdict == BuildVerdict(test[w], code) IN
  /\ Fault
  /\ Exited(w, code)
  /\ \/ /\ Awaits(w, "building")
        /\ verdict # "run"
        /\ record_test_result(test[w], verdict = "passed")
     \/ /\ Awaits(w, "running")
        /\ record_test_result(test[w], RunVerdict(test[w], code))
  /\ worker' = [worker EXCEPT ![w] = "done"]
  /\ UNCHANGED <<queueVars, test, progress, cancelling, errors, interrupted, mainVars>>

Alive == {w \in Workers : worker[w] # "done"}
              \cup (IF progress = "done" THEN {} ELSE {Progress})

(* The progress bar task does not catch: the task group cancels every task *)
(* and the main task.                                                      *)
ProgressRaises ==
  /\ progress = "drawing"
  /\ Progress \notin cancelling
  /\ Fault
  /\ progress' = "done"
  /\ errors' = TRUE
  /\ cancelling' = (Alive \cup {Main}) \ {Progress}
  /\ UNCHANGED <<queueVars, worker, test, interrupted, resultVars, mainVars>>

WorkerCancelled(w) ==
  /\ w \in cancelling
  /\ worker' = [worker EXCEPT ![w] = "done"]
  /\ cancelling' = cancelling \ {w}
  /\ UNCHANGED <<queueVars, test, progress, errors, interrupted, faults,
                 resultVars, mainVars>>

(* The bar is drawn a last time if the tests are completed, and that may   *)
(* raise.                                                                  *)
ProgressCancelled ==
  /\ Progress \in cancelling
  /\ progress' = "done"
  /\ cancelling' = cancelling \ {Progress}
  /\ \/ UNCHANGED <<errors, faults>>
     \/ completed /\ Fault /\ errors' = TRUE
  /\ UNCHANGED <<queueVars, worker, test, interrupted, resultVars, mainVars>>

-----------------------------------------------------------------------------
(* Mutant: the queue is empty, but tests are still in hand.                *)
JoinReturnsWhenEmpty ==
  /\ main = "joining"
  /\ Main \notin cancelling
  /\ queue = <<>>
  /\ completed' = TRUE
  /\ UNCHANGED cancelling
  /\ main' = "closing"
  /\ UNCHANGED <<queueVars, worker, test, progress, errors, interrupted, faults,
                 exit_code, resultVars>>

(* _test_queue.join() returns, the other tasks are stopped.                *)
JoinReturns ==
  /\ main = "joining"
  /\ Main \notin cancelling
  /\ unfinished = 0
  /\ completed' = TRUE
  /\ cancelling' = cancelling \cup Alive
  /\ main' = "closing"
  /\ UNCHANGED <<queueVars, worker, test, progress, errors, interrupted, faults,
                 exit_code, resultVars>>

(* CancelledError leaves the task group, which cancels the tasks in it.    *)
MainCancelled ==
  /\ Main \in cancelling
  /\ main' = "aborting"
  /\ cancelling' = (cancelling \cup Alive) \ {Main}
  /\ UNCHANGED <<queueVars, worker, test, progress, errors, interrupted, faults,
                 completed, exit_code, resultVars>>

Succeeded == main = "closing" /\ ~errors /\ tests_passed = tests_ran

(* The task group has no task left; run_tests returns True, False or None, *)
(* or raises.                                                              *)
MainEnds ==
  /\ main \in {"closing", "aborting"}
  /\ Main \notin cancelling
  /\ Alive = {}
  /\ exit_code' = IF Succeeded THEN 0 ELSE 1
  /\ main' = "ended"
  /\ UNCHANGED <<queueVars, worker, test, progress, cancelling, errors,
                 interrupted, faults, completed, resultVars>>

(* The first Ctrl-C cancels the main task.                                 *)
Interrupt ==
  /\ ~interrupted
  /\ main \in {"joining", "closing"}
  /\ interrupted' = TRUE
  /\ cancelling' = cancelling \cup {Main}
  /\ UNCHANGED <<queueVars, worker, test, progress, errors, faults, resultVars,
                 mainVars>>

Ended == main = "ended" /\ UNCHANGED vars

(* Some of the tests are there, in the order in which rglob finds them;    *)
(* with none there is nothing to run and True is returned at once.         *)
Init ==
  /\ queue \in SetToAllKPermutations(Tests) \ {<<>>}
  /\ unfinished = Len(queue)
  /\ worker = [w \in Workers |-> "created"]
  /\ test = [w \in Workers |-> NoTest]
  /\ progress \in {"drawing", "done"}
  /\ main = "joining"
  /\ cancelling = {}
  /\ errors = FALSE
  /\ interrupted = FALSE
  /\ tests_ran = 0
  /\ tests_passed = 0
  /\ completed = FALSE
  /\ exit_code = 0
  /\ outcome = [t \in Range(queue) |-> "none"]
  /\ exits = [t \in Range(queue) |-> <<>>]
  /\ faults = 0

WorkerNext(w) ==
  \/ Start(w)
  \/ \E code \in ExitCodes : BuildExits(w, code) \/ ProgramExits(w, code)
  \/ WorkerCancelled(w)

WorkerFails(w) ==
  \/ WorkerRaises(w) \/ ProcessHangs(w)
  \/ \E code \in ExitCodes : RecordRaises(w, code)

MainNext == JoinReturns \/ MainCancelled \/ MainEnds

Next ==
  \/ \E w \in Workers : WorkerNext(w) \/ WorkerFails(w)
  \/ ProgressRaises \/ ProgressCancelled
  \/ MainNext
  \/ Interrupt
  \/ Ended

(* The event loop runs every task that can go on.  A process that ends     *)
(* does so in the end; one that does not is `hanging', and that any of     *)
(* them may be.  Nobody has to press Ctrl-C.                               *)
Fairness ==
  /\ \A w \in Workers : WF_vars(WorkerNext(w))
  /\ WF_vars(ProgressCancelled)
  /\ WF_vars(MainNext)

Spec == Init /\ [][Next]_vars /\ Fairness

-----------------------------------------------------------------------------
Found == DOMAIN outcome

TypeOK ==
  /\ queue \in Seq(Tests)
  /\ unfinished \in 0 .. Cardinality(Tests)
  /\ worker \in [Workers -> {"created", "waiting", "building", "running", "hanging", "done"}]
  /\ test \in [Workers -> Tests \cup {NoTest}]
  /\ progress \in {"drawing", "done"}
  /\ main \in {"joining", "closing", "aborting", "ended"}
  /\ cancelling \subseteq Workers \cup {Main, Progress}
  /\ errors \in BOOLEAN /\ interrupted \in BOOLEAN /\ completed \in BOOLEAN
  /\ tests_ran \in Nat /\ tests_passed \in Nat
  /\ exit_code \in {0, 1}
  /\ Found \subseteq Tests
  /\ outcome \in [Found -> {"none", "passed", "failed"}]
  /\ exits \in [Found -> Seq(ExitCodes)]
  /\ faults \in 0 .. MaxFaults

Recorded(results) == {t \in Found : outcome[t] \in results}

(* The counters the progress bar and the summary show agree with what was  *)
(* recorded, and the queue still waits for every test that was not: one    *)
(* that is queued, in the hands of a worker, or was dropped by a worker    *)
(* that raised.                                                            *)
CountersAgree ==
  /\ tests_ran = Cardinality(Recorded({"passed", "failed"}))
  /\ tests_passed = Cardinality(Recorded({"passed"}))
  /\ unfinished >= Cardinality(Recorded({"none"}))
  /\ faults = 0 => unfinished = Cardinality(Recorded({"none"}))

BehavedAsExpected(t) ==
  \/ ExpectedBuild[t] # 0 /\ exits[t] = <<ExpectedBuild[t]>>
  \/ /\ ExpectedBuild[t] = 0 /\ exits[t] = <<0, ExpectedExit[t]>>
     /\ t \notin ChecksOutput

(* The runner reports success only when every test was built and run with  *)
(* the exit codes it names, whatever was cancelled or raised on the way.   *)
GreenMeansPassed ==
  main = "ended" /\ exit_code = 0 => \A t \in Found : BehavedAsExpected(t)

(* Once the tests are reported as completed no result changes any more.    *)
CompletedIsFinal == [][completed => UNCHANGED resultVars]_vars

(* run_tests returns, unless an exception was raised in a task or a        *)
(* process never ends: a worker that catches an exception does not call    *)
(* task_done, one whose process hangs never gets to it, and join() then    *)
(* never returns.  Ctrl-C ends the run also then.                          *)
RunEnds ==
  /\ <>(main = "ended" \/ faults > 0 \/ \E w \in Workers : worker[w] = "hanging")
  /\ interrupted ~> main = "ended"

(* Why: a test is in one place, the queue or the hands of one worker, from *)
(* where nothing is recorded of it.  Its processes ran as far as its place *)
(* says, and the tests are completed when none is left to wait for.        *)
Busy(w) == worker[w] \in {"building", "running"}

QueueOK ==
  \A i \in DOMAIN queue :
    /\ queue[i] \in Found /\ outcome[queue[i]] = "none" /\ exits[queue[i]] = <<>>
    /\ \A j \in DOMAIN queue : queue[i] = queue[j] => i = j

InHand(w) ==
  /\ test[w] \in Found /\ outcome[test[w]] = "none"
  /\ \A i \in DOMAIN queue : queue[i] # test[w]
  /\ \A v \in Workers : v # w /\ Busy(v) => test[v] # test[w]
  /\ worker[w] = "building" => exits[test[w]] = <<>>
  /\ worker[w] = "running" => exits[test[w]] = <<0>> /\ ExpectedBuild[test[w]] = 0

PassedBehaved == \A t \in Found : outcome[t] = "passed" => BehavedAsExpected(t)

EndOK ==
  /\ completed \/ main = "closing" => unfinished = 0
  /\ main = "ended" /\ exit_code = 0 => \A t \in Found : outcome[t] = "passed"

(* The inductive invariant: the counters count the tests that are neither  *)
(* queued nor in hand, so that an end of the wait is an end of the tests.  *)
RunnerInv ==
  /\ TypeOK /\ CountersAgree /\ QueueOK /\ PassedBehaved /\ EndOK
  /\ \A w \in Workers : Busy(w) => InHand(w)
=============================================================================
