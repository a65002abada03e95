-------------------------- MODULE TestRunnerProofs --------------------------
(***************************************************************************)
(* The counters of the test runner agree with its results, and success     *)
(* means that every test passed, for any tests, any number of workers and  *)
(* whatever raises, is cancelled or is interrupted.  The lemmas are about  *)
(* the two calls of a worker that change what the queue, its hands and the *)
(* counters say of a test: taking the next one and recording a result.     *)
(***************************************************************************)
EXTENDS TestRunner, FiniteSetTheorems, SequenceTheorems, TLAPS

(* The tests whose result is one of a set are finitely many.               *)
LEMMA RecordedFinite ==
  ASSUME TypeOK, NEW results
  PROVE  /\ IsFiniteSet(Recorded(results))
         /\ Cardinality(Recorded(results)) \in Nat
<1>1. Recorded(results) \in SUBSET Tests
  BY DEF TypeOK, Recorded, Found
<1> QED BY <1>1, TestsAssumption, FS_Subset, FS_CardinalityType

(* What a worker that takes a test finds: a test that is in no other hand. *)
(* If it held one before, a result of that one has just been recorded.     *)
LEMMA TakeTestKeeps ==
  ASSUME TypeOK, QueueOK, NEW w \in Workers, TakeTest(w),
         \A v \in Workers : Busy(v) => InHand(v),
         outcome' \in [Found -> {"none", "passed", "failed"}],
         \A t \in Found : \/ outcome'[t] = outcome[t] /\ exits'[t] = exits[t]
                          \/ Busy(w) /\ t = test[w]
  PROVE  /\ queue' \in Seq(Tests)
         /\ worker' \in [Workers -> {"created", "waiting", "building", "running", "hanging", "done"}]
         /\ test' \in [Workers -> Tests \cup {NoTest}]
         /\ QueueOK'
         /\ \A v \in Workers : Busy(v)' => InHand(v)'
<1> USE DEF TypeOK
<1>found. Found' = Found
  BY DEF Found
<1>others. \A v \in Workers \ {w} : worker'[v] = worker[v] /\ test'[v] = test[v]
  BY DEF TakeTest
<1>1. CASE queue = <<>>
  <2>1. worker'[w] = "waiting" /\ queue' = queue
    BY <1>1 DEF TakeTest
  <2>2. QueueOK'
    BY <1>1, <2>1 DEF QueueOK
  <2>3. ASSUME NEW v \in Workers, Busy(v)'
        PROVE  InHand(v)'
    <3>1. v # w /\ worker'[v] = worker[v] /\ test'[v] = test[v] /\ Busy(v) /\ InHand(v)
      BY <1>others, <2>1, <2>3 DEF Busy
    <3>2. Busy(w) => test[v] # test[w]
      BY <3>1 DEF InHand
    <3>3. /\ test'[v] \in Found' /\ outcome'[test'[v]] = "none"
          /\ exits'[test'[v]] = exits[test[v]]
      BY <1>found, <3>1, <3>2 DEF InHand
    <3>4. \A u \in Workers : u # v /\ Busy(u)' => test'[u] # test'[v]
      BY <1>others, <2>1, <3>1 DEF InHand, Busy
    <3> QED BY <2>1, <3>1, <3>3, <3>4 DEF InHand
  <2> QED BY <1>1, <2>1, <2>2, <2>3 DEF TakeTest
<1>2. CASE queue # <<>>
  <2>1. /\ worker'[w] = "building" /\ test'[w] = queue[1] /\ queue' = Tail(queue)
        /\ queue' \in Seq(Tests) /\ DOMAIN queue' = 1 .. Len(queue) - 1
        /\ \A i \in DOMAIN queue' : queue'[i] = queue[i + 1] /\ i + 1 \in DOMAIN queue
        /\ 1 \in DOMAIN queue
    <3>1. /\ worker' = [worker EXCEPT ![w] = "building"]
          /\ test' = [test EXCEPT ![w] = Head(queue)] /\ queue' = Tail(queue)
      BY <1>2 DEF TakeTest
    <3>2. Len(queue) \in Nat \ {0} /\ DOMAIN queue = 1 .. Len(queue) /\ Head(queue) = queue[1]
      BY <1>2
    <3> QED BY <1>2, <3>1, <3>2, HeadTailProperties
  <2>2. \A i \in DOMAIN queue : Busy(w) => queue[i] # test[w]
    BY DEF InHand
  <2>3. QueueOK'
    BY <1>found, <2>1, <2>2 DEF QueueOK
  <2>4. InHand(w)'
    <3>1. test'[w] \in Found' /\ outcome'[test'[w]] = "none" /\ exits'[test'[w]] = <<>>
      BY <1>found, <2>1, <2>2 DEF QueueOK
    <3>2. \A i \in DOMAIN queue' : queue'[i] # test'[w]
      BY <2>1 DEF QueueOK
    <3>3. \A v \in Workers : v # w /\ Busy(v)' => test'[v] # test'[w]
      BY <1>others, <2>1 DEF Busy, InHand
    <3> QED BY <2>1, <3>1, <3>2, <3>3 DEF InHand
  <2>5. ASSUME NEW v \in Workers, v # w, Busy(v)'
        PROVE  InHand(v)'
    <3>1. Busy(v) /\ InHand(v) /\ worker'[v] = worker[v] /\ test'[v] = test[v]
      BY <1>others, <2>5 DEF Busy
    <3>2. Busy(w) => test[v] # test[w]
      BY <2>5, <3>1 DEF InHand
    <3>3. /\ test'[v] \in Found' /\ outcome'[test'[v]] = "none"
          /\ exits'[test'[v]] = exits[test[v]]
      BY <1>found, <3>1, <3>2 DEF InHand
    <3>4. \A i \in DOMAIN queue' : queue'[i] # test'[v]
      BY <2>1, <3>1 DEF InHand
    <3>5. \A u \in Workers : u # v /\ Busy(u)' => test'[u] # test'[v]
      <4> SUFFICES ASSUME NEW u \in Workers, u # v, Busy(u)'
                   PROVE  test'[u] # test'[v]
        OBVIOUS
      <4>1. CASE u = w
        BY <2>1, <3>1, <4>1 DEF InHand
      <4>2. CASE u # w
        BY <1>others, <3>1, <4>2 DEF InHand, Busy
      <4> QED BY <4>1, <4>2
    <3> QED BY <3>1, <3>3, <3>4, <3>5 DEF InHand
  <2>6. /\ worker' \in [Workers -> {"created", "waiting", "building", "running", "hanging", "done"}]
        /\ test' \in [Workers -> Tests \cup {NoTest}]
    <3>1. Head(queue) \in Tests
      BY <1>2, HeadTailProperties
    <3> QED BY <1>2, <3>1 DEF TakeTest
  <2>7. \A v \in Workers : Busy(v)' => InHand(v)'
    BY <2>4, <2>5
  <2> QED BY <2>1, <2>3, <2>6, <2>7
<1> QED BY <1>1, <1>2

(* Recording the result of a test that had none counts it once, and leaves *)
(* one test less without a result.                                         *)
LEMMA RecordKeeps ==
  ASSUME TypeOK, CountersAgree, PassedBehaved,
         NEW t \in Found, outcome[t] = "none", NEW success \in BOOLEAN,
         record_test_result(t, success),
         NEW code \in ExitCodes, exits' = [exits EXCEPT ![t] = Append(@, code)],
         success => BehavedAsExpected(t)'
  PROVE  /\ outcome' \in [Found -> {"none", "passed", "failed"}]
         /\ exits' \in [Found -> Seq(ExitCodes)]
         /\ tests_ran' \in Nat /\ tests_passed' \in Nat
         /\ tests_ran' = Cardinality(Recorded({"passed", "failed"})')
         /\ tests_passed' = Cardinality(Recorded({"passed"})')
         /\ Cardinality(Recorded({"none"})') = Cardinality(Recorded({"none"})) - 1
         /\ Cardinality(Recorded({"none"})) > 0
         /\ PassedBehaved'
<1> USE DEF TypeOK
<1>1. /\ outcome' \in [Found -> {"none", "passed", "failed"}]
      /\ outcome' = [outcome EXCEPT ![t] = IF success THEN "passed" ELSE "failed"]
      /\ exits' \in [Found -> Seq(ExitCodes)]
      /\ tests_ran' = tests_ran + 1
      /\ tests_passed' = tests_passed + (IF success THEN 1 ELSE 0)
  BY DEF record_test_result
<1>2. Found' = Found
  BY <1>1 DEF Found
<1>3. /\ Recorded({"passed", "failed"})' = Recorded({"passed", "failed"}) \cup {t}
      /\ t \notin Recorded({"passed", "failed"})
  BY <1>1, <1>2 DEF Recorded
<1>4. /\ Recorded({"passed"})' = Recorded({"passed"}) \cup (IF success THEN {t} ELSE {})
      /\ t \notin Recorded({"passed"})
  BY <1>1, <1>2 DEF Recorded
<1>5. /\ Recorded({"none"})' = Recorded({"none"}) \ {t}
      /\ t \in Recorded({"none"})
  BY <1>1, <1>2 DEF Recorded
<1>6. tests_ran' = Cardinality(Recorded({"passed", "failed"})')
  <2>1. tests_ran = Cardinality(Recorded({"passed", "failed"})) /\ tests_ran \in Nat
    BY DEF CountersAgree
  <2> QED BY <1>1, <1>3, <2>1, RecordedFinite, FS_AddElement
<1>7. tests_passed' = Cardinality(Recorded({"passed"})')
  <2>0. tests_passed = Cardinality(Recorded({"passed"})) /\ tests_passed \in Nat
    BY DEF CountersAgree
  <2>1. CASE success
    <3>1. /\ Recorded({"passed"})' = Recorded({"passed"}) \cup {t}
          /\ tests_passed' = tests_passed + 1
      BY <1>1, <1>4, <2>1
    <3> QED BY <1>4, <2>0, <3>1, RecordedFinite, FS_AddElement
  <2>2. CASE ~success
    <3>1. Recorded({"passed"})' = Recorded({"passed"})
      BY <1>4, <2>2
    <3>2. tests_passed' = tests_passed + 0
      BY <1>1, <2>2
    <3> QED BY <2>0, <3>1, <3>2
  <2> QED BY <2>1, <2>2
<1>8. /\ Cardinality(Recorded({"none"})') = Cardinality(Recorded({"none"})) - 1
      /\ Cardinality(Recorded({"none"})') \in Nat
  BY <1>5, RecordedFinite, FS_RemoveElement, FS_CardinalityType
<1>9. PassedBehaved'
  <2> SUFFICES ASSUME NEW s \in Found, outcome'[s] = "passed"
               PROVE  BehavedAsExpected(s)'
    BY <1>2 DEF PassedBehaved
  <2>1. CASE s = t
    BY <1>1, <2>1
  <2>2. CASE s # t
    BY <1>1, <2>2 DEF PassedBehaved, BehavedAsExpected
  <2> QED BY <2>1, <2>2
<1>10. tests_ran' \in Nat /\ tests_passed' \in Nat
  BY <1>1
<1> QED BY <1>1, <1>6, <1>7, <1>8, <1>9, <1>10, RecordedFinite

(* A step that leaves the queue, the tests in hand and the results alone   *)
(* need only be looked at for its types and for what it says of the end.   *)
LEMMA IdleKeeps ==
  ASSUME RunnerInv, TypeOK', EndOK',
         UNCHANGED <<queueVars, test, resultVars>>,
         faults' = 0 => faults = 0,
         \A w \in Workers : Busy(w)' => worker'[w] = worker[w]
  PROVE  RunnerInv'
<1> USE DEF queueVars, resultVars
<1>1. CountersAgree'
  BY DEF RunnerInv, CountersAgree, Recorded, Found
<1>2. QueueOK'
  BY DEF RunnerInv, QueueOK, Found
<1>3. PassedBehaved'
  BY DEF RunnerInv, PassedBehaved, BehavedAsExpected, Found
<1>4. ASSUME NEW w \in Workers, Busy(w)'
      PROVE  InHand(w)'
  <2>1. Busy(w) /\ InHand(w) /\ worker'[w] = worker[w]
    BY <1>4 DEF RunnerInv, Busy
  <2>2. \A v \in Workers : Busy(v)' => Busy(v)
    BY DEF Busy
  <2> QED BY <2>1, <2>2 DEF InHand, Found
<1> QED BY <1>1, <1>2, <1>3, <1>4 DEF RunnerInv

(* While a test is in hand the runner is not about to report success.      *)
LEMMA BusyBeforeEnd ==
  ASSUME RunnerInv, NEW w \in Workers, Busy(w)
  PROVE  /\ ~completed /\ main # "closing"
         /\ ~(main = "ended" /\ exit_code = 0)
<1>1. test[w] \in Recorded({"none"})
  BY DEF RunnerInv, InHand, Recorded
<1>2. Cardinality(Recorded({"none"})) # 0
  BY <1>1, RecordedFinite, FS_EmptySet DEF RunnerInv
<1>3. unfinished # 0
  BY <1>2, RecordedFinite DEF RunnerInv, CountersAgree, TypeOK
<1> QED BY <1>1, <1>3 DEF RunnerInv, EndOK, Recorded

(* A worker has recorded the result of its test, counted it as done, and   *)
(* gone on.                                                                *)
LEMMA FinishKeeps ==
  ASSUME RunnerInv, NEW w \in Workers, Busy(w), NEW success \in BOOLEAN,
         Finish(w, success),
         NEW code \in ExitCodes, Exited(w, code),
         NEW t, t = test[w], success => BehavedAsExpected(t)',
         UNCHANGED <<progress, cancelling, errors, interrupted, faults, mainVars>>
  PROVE  RunnerInv'
<1> USE DEF mainVars
<1>1. /\ TypeOK /\ CountersAgree /\ QueueOK /\ PassedBehaved /\ EndOK
      /\ \A v \in Workers : Busy(v) => InHand(v)
  BY DEF RunnerInv
<1>2. t \in Found /\ outcome[t] = "none"
  BY <1>1 DEF InHand
<1>3. /\ record_test_result(t, success) /\ exits' = [exits EXCEPT ![t] = Append(@, code)]
      /\ TakeTest(w) /\ unfinished' = unfinished - 1
  BY DEF Finish, Exited, task_done
<1>4. /\ outcome' \in [Found -> {"none", "passed", "failed"}]
      /\ exits' \in [Found -> Seq(ExitCodes)]
      /\ tests_ran' \in Nat /\ tests_passed' \in Nat
      /\ tests_ran' = Cardinality(Recorded({"passed", "failed"})')
      /\ tests_passed' = Cardinality(Recorded({"passed"})')
      /\ Cardinality(Recorded({"none"})') = Cardinality(Recorded({"none"})) - 1
      /\ Cardinality(Recorded({"none"})) > 0
      /\ PassedBehaved'
  BY <1>1, <1>2, <1>3, RecordKeeps
<1>5. Found' = Found
  BY <1>4 DEF Found
<1>6. \A s \in Found : \/ outcome'[s] = outcome[s] /\ exits'[s] = exits[s]
                       \/ Busy(w) /\ s = test[w]
  BY <1>1, <1>3, <1>4 DEF record_test_result, TypeOK
<1>7. /\ queue' \in Seq(Tests)
      /\ worker' \in [Workers -> {"created", "waiting", "building", "running", "hanging", "done"}]
      /\ test' \in [Workers -> Tests \cup {NoTest}]
      /\ QueueOK'
      /\ \A v \in Workers : Busy(v)' => InHand(v)'
  BY <1>1, <1>3, <1>4, <1>6, TakeTestKeeps
<1>8. /\ unfinished' \in 0 .. Cardinality(Tests)
      /\ unfinished' >= Cardinality(Recorded({"none"})')
      /\ faults' = 0 => unfinished' = Cardinality(Recorded({"none"})')
  <2>1. /\ Cardinality(Recorded({"none"})) \in Nat /\ Cardinality(Tests) \in Nat
        /\ unfinished \in 0 .. Cardinality(Tests)
        /\ unfinished >= Cardinality(Recorded({"none"}))
        /\ faults = 0 => unfinished = Cardinality(Recorded({"none"}))
    BY <1>1, RecordedFinite, TestsAssumption, FS_CardinalityType DEF TypeOK, CountersAgree
  <2> QED BY <1>3, <1>4, <2>1
<1>9. TypeOK'
  BY <1>1, <1>4, <1>5, <1>7, <1>8 DEF TypeOK
<1>10. CountersAgree'
  BY <1>4, <1>8 DEF CountersAgree
<1>11. EndOK'
  BY BusyBeforeEnd DEF EndOK
<1> QED BY <1>4, <1>7, <1>9, <1>10, <1>11 DEF RunnerInv

(* A worker raises after its result was recorded and before it was counted *)
(* as done.                                                                *)
LEMMA RecordRaisesKeeps ==
  ASSUME RunnerInv, NEW w \in Workers, Busy(w), NEW success \in BOOLEAN,
         NEW t, t = test[w], record_test_result(t, success),
         NEW code \in ExitCodes, Exited(w, code), success => BehavedAsExpected(t)',
         Fault, worker' = [worker EXCEPT ![w] = "done"],
         UNCHANGED <<queueVars, test, progress, cancelling, errors, interrupted, mainVars>>
  PROVE  RunnerInv'
<1> USE DEF mainVars, queueVars
<1>1. /\ TypeOK /\ CountersAgree /\ QueueOK /\ PassedBehaved /\ EndOK
      /\ \A v \in Workers : Busy(v) => InHand(v)
  BY DEF RunnerInv
<1>2. t \in Found /\ outcome[t] = "none" /\ InHand(w)
  BY <1>1 DEF InHand
<1>3. exits' = [exits EXCEPT ![t] = Append(@, code)]
  BY DEF Exited
<1>4. /\ outcome' \in [Found -> {"none", "passed", "failed"}]
      /\ exits' \in [Found -> Seq(ExitCodes)]
      /\ tests_ran' \in Nat /\ tests_passed' \in Nat
      /\ tests_ran' = Cardinality(Recorded({"passed", "failed"})')
      /\ tests_passed' = Cardinality(Recorded({"passed"})')
      /\ Cardinality(Recorded({"none"})') = Cardinality(Recorded({"none"})) - 1
      /\ Cardinality(Recorded({"none"})) > 0
      /\ PassedBehaved'
  BY <1>1, <1>2, <1>3, RecordKeeps
<1>5. Found' = Found
  BY <1>4 DEF Found
<1>6. \A s \in Found : s # t => outcome'[s] = outcome[s] /\ exits'[s] = exits[s]
  BY <1>1, <1>3, <1>4 DEF record_test_result, TypeOK
<1>7. faults' \in 1 .. MaxFaults
  BY <1>1, MaxFaultsAssumption DEF Fault, TypeOK
<1>8. TypeOK'
  BY <1>1, <1>4, <1>5, <1>7 DEF TypeOK
<1>9. CountersAgree'
  <2>1. /\ Cardinality(Recorded({"none"})) \in Nat
        /\ unfinished \in Nat /\ unfinished >= Cardinality(Recorded({"none"}))
    BY <1>1, RecordedFinite, TestsAssumption, FS_CardinalityType DEF TypeOK, CountersAgree
  <2> QED BY <1>4, <1>7, <2>1 DEF CountersAgree
<1>10. QueueOK'
  BY <1>1, <1>2, <1>5, <1>6 DEF QueueOK, InHand
<1>11. EndOK'
  BY BusyBeforeEnd DEF EndOK
<1>12. ASSUME NEW v \in Workers, Busy(v)'
       PROVE  InHand(v)'
  <2>1. v # w /\ worker'[v] = worker[v] /\ Busy(v) /\ InHand(v)
    BY <1>1, <1>12 DEF Busy, TypeOK
  <2>2. test[v] # t
    BY <1>2, <2>1 DEF InHand
  <2>3. \A u \in Workers : Busy(u)' => Busy(u)
    BY <1>1 DEF Busy, TypeOK
  <2> QED BY <1>5, <1>6, <2>1, <2>2, <2>3 DEF InHand
<1> QED BY <1>4, <1>8, <1>9, <1>10, <1>11, <1>12 DEF RunnerInv

(* A test passes on a build that was expected to fail and did.             *)
LEMMA BuildPasses ==
  ASSUME RunnerInv, NEW w \in Workers, worker[w] = "building",
         NEW t, t = test[w], NEW code \in ExitCodes, Exited(w, code),
         BuildVerdict(t, code) = "passed"
  PROVE  BehavedAsExpected(t)'
<1>1. InHand(w) /\ exits[t] = <<>> /\ t \in Found /\ exits \in [Found -> Seq(ExitCodes)]
  BY DEF RunnerInv, InHand, Busy, TypeOK
<1>2. exits'[t] = <<code>>
  BY <1>1 DEF Exited
<1>3. code = ExpectedBuild[t] /\ code # 0
  BY DEF BuildVerdict
<1> QED BY <1>2, <1>3 DEF BehavedAsExpected

(* A test passes on a program that exits as expected.                      *)
LEMMA RunPasses ==
  ASSUME RunnerInv, NEW w \in Workers, worker[w] = "running",
         NEW t, t = test[w], NEW code \in ExitCodes, Exited(w, code),
         RunVerdict(t, code)
  PROVE  BehavedAsExpected(t)'
<1>1. /\ exits[t] = <<0>> /\ ExpectedBuild[t] = 0
      /\ t \in Found /\ exits \in [Found -> Seq(ExitCodes)]
  BY DEF RunnerInv, InHand, Busy, TypeOK
<1>2. exits'[t] = Append(<<0>>, code)
  BY <1>1 DEF Exited
<1>3. Append(<<0>>, code) = <<0, code>>
  <2>1. <<0>> \in Seq(ExitCodes) /\ <<0, code>> \in Seq(ExitCodes)
    BY ExitCodesAssumption
  <2>2. Append(<<0>>, code) \in Seq(ExitCodes) /\ Len(Append(<<0>>, code)) = 2
    BY <2>1, AppendProperties
  <2>3. \A i \in 1 .. 2 : Append(<<0>>, code)[i] = <<0, code>>[i]
    BY <2>1, AppendProperties
  <2> QED BY <2>1, <2>2, <2>3, SeqEqual
<1> QED BY <1>1, <1>2, <1>3 DEF BehavedAsExpected, RunVerdict

LEMMA InitOK == Init => RunnerInv
<1> SUFFICES ASSUME Init PROVE RunnerInv
  OBVIOUS
<1>1. PICK found \in SUBSET Tests : queue \in SetToSeqs(found)
  BY DEF Init, SetToAllKPermutations
<1> DEFINE n == Cardinality(found)
<1>2. IsFiniteSet(found) /\ n \in Nat /\ n <= Cardinality(Tests) /\ Cardinality(Tests) \in Nat
  BY TestsAssumption, FS_Subset, FS_CardinalityType
<1>3. /\ queue \in [1 .. n -> found]
      /\ \A i, j \in 1 .. n : queue[i] = queue[j] => i = j
  BY <1>1 DEF SetToSeqs
<1>4. queue \in Seq(Tests) /\ Len(queue) = n /\ DOMAIN queue = 1 .. n
  BY <1>2, <1>3
<1>5. Range(queue) \subseteq Tests /\ \A i \in DOMAIN queue : queue[i] \in Range(queue)
  BY <1>3, <1>4 DEF Range
<1>6. Cardinality(Range(queue)) = n
  <2>1. queue \in Injection(1 .. n, Range(queue)) /\ queue \in Surjection(1 .. n, Range(queue))
    BY <1>3, <1>5 DEF Injection, IsInjective, Surjection, Range
  <2>2. IsFiniteSet(1 .. n) /\ Cardinality(1 .. n) = n
    BY <1>2, FS_Interval
  <2> QED BY <2>1, <2>2, FS_Surjection
<1>7. /\ Found = Range(queue)
      /\ \A t \in Found : outcome[t] = "none" /\ exits[t] = <<>>
  BY DEF Init, Found
<1>8. TypeOK
  <2>1. outcome \in [Found -> {"none", "passed", "failed"}] /\ exits \in [Found -> Seq(ExitCodes)]
    BY <1>7 DEF Init
  <2>2. unfinished \in 0 .. Cardinality(Tests) /\ faults \in 0 .. MaxFaults
    BY <1>2, <1>4, MaxFaultsAssumption DEF Init
  <2> QED BY <1>4, <1>5, <1>7, <2>1, <2>2 DEF Init, TypeOK
<1>9. CountersAgree
  <2>1. /\ Recorded({"none"}) = Range(queue)
        /\ Recorded({"passed", "failed"}) = {} /\ Recorded({"passed"}) = {}
    BY <1>7 DEF Recorded
  <2>2. unfinished = Cardinality(Range(queue)) /\ unfinished \in Nat
    BY <1>2, <1>4, <1>6 DEF Init
  <2>3. tests_ran = 0 /\ tests_passed = 0
    BY DEF Init
  <2> QED BY <2>1, <2>2, <2>3, FS_EmptySet DEF CountersAgree
<1>10. QueueOK
  BY <1>3, <1>4, <1>5, <1>7 DEF QueueOK
<1>11. PassedBehaved /\ EndOK
  BY <1>7 DEF PassedBehaved, EndOK, Init
<1>12. \A w \in Workers : ~Busy(w)
  BY DEF Init, Busy
<1> QED BY <1>8, <1>9, <1>10, <1>11, <1>12 DEF RunnerInv

LEMMA WorkerStepOK ==
  ASSUME RunnerInv, NEW w \in Workers, WorkerNext(w) \/ WorkerFails(w)
  PROVE  RunnerInv'
<1>1. /\ TypeOK /\ CountersAgree /\ QueueOK /\ PassedBehaved /\ EndOK
      /\ \A v \in Workers : Busy(v) => InHand(v)
  BY DEF RunnerInv
<1>2. CASE Start(w)
  <2>1. /\ TakeTest(w) /\ Found' = Found
        /\ UNCHANGED <<unfinished, progress, cancelling, errors, interrupted, faults,
                       tests_ran, tests_passed, outcome, exits, main, completed, exit_code>>
    BY <1>2 DEF Start, resultVars, mainVars, Found
  <2>2. outcome' \in [Found -> {"none", "passed", "failed"}]
    BY <1>1, <2>1 DEF TypeOK
  <2>3. /\ queue' \in Seq(Tests)
        /\ worker' \in [Workers -> {"created", "waiting", "building", "running", "hanging", "done"}]
        /\ test' \in [Workers -> Tests \cup {NoTest}]
        /\ QueueOK'
        /\ \A v \in Workers : Busy(v)' => InHand(v)'
    BY <1>1, <2>1, <2>2, TakeTestKeeps
  <2>4. TypeOK'
    BY <1>1, <2>1, <2>3 DEF TypeOK
  <2>5. CountersAgree' /\ PassedBehaved' /\ EndOK'
    BY <1>1, <2>1 DEF CountersAgree, PassedBehaved, BehavedAsExpected, EndOK, Recorded
  <2> QED BY <2>3, <2>4, <2>5 DEF RunnerInv
<1>3. ASSUME NEW code \in ExitCodes, BuildExits(w, code)
      PROVE  RunnerInv'
  <2>t. PICK t : t = test[w]
    OBVIOUS
  <2> DEFINE verdict == BuildVerdict(t, code)
  <2>1. /\ worker[w] = "building" /\ Busy(w) /\ InHand(w)
        /\ UNCHANGED <<progress, cancelling, errors, interrupted, faults, mainVars>>
        /\ Exited(w, code)
    BY <1>1, <1>3 DEF BuildExits, Awaits, Busy
  <2>2. CASE verdict # "run" /\ Finish(w, verdict = "passed")
    <3>1. (verdict = "passed") => BehavedAsExpected(t)'
      BY <2>t, <2>1, BuildPasses
    <3> QED BY <2>t, <2>1, <2>2, <3>1, FinishKeeps
  <2>3. CASE verdict = "run" /\ RunProgram(w)
    <3>1. /\ worker' = [worker EXCEPT ![w] = "running"]
          /\ exits' = [exits EXCEPT ![t] = Append(@, code)]
          /\ UNCHANGED <<queue, unfinished, test, tests_ran, tests_passed, outcome,
                         progress, cancelling, errors, interrupted, faults,
                         main, completed, exit_code>>
      BY <2>t, <2>1, <2>3 DEF RunProgram, Exited, queueVars, mainVars
    <3>2. code = 0 /\ ExpectedBuild[t] = 0 /\ t \in Found /\ outcome[t] = "none"
      BY <2>t, <2>1, <2>3 DEF BuildVerdict, InHand
    <3>3. /\ exits' \in [Found -> Seq(ExitCodes)]
          /\ exits'[t] = <<0>>
          /\ \A s \in Found : s # t => exits'[s] = exits[s]
      BY <2>t, <1>1, <2>1, <3>1, <3>2 DEF TypeOK, InHand
    <3>4. Found' = Found
      BY <3>1 DEF Found
    <3>5. TypeOK'
      BY <1>1, <3>1, <3>3, <3>4 DEF TypeOK
    <3>6. CountersAgree' /\ EndOK'
      BY <1>1, <3>1, <3>4 DEF CountersAgree, EndOK, Recorded
    <3>7. QueueOK'
      BY <2>t, <1>1, <2>1, <3>1, <3>3, <3>4 DEF QueueOK, InHand
    <3>8. PassedBehaved'
      BY <1>1, <3>1, <3>2, <3>3, <3>4 DEF PassedBehaved, BehavedAsExpected
    <3>9. ASSUME NEW v \in Workers, Busy(v)'
          PROVE  InHand(v)'
      <4>1. \A u \in Workers : Busy(u)' => Busy(u)
        BY <1>1, <2>1, <3>1 DEF Busy, TypeOK
      <4>2. CASE v = w
        BY <2>t, <1>1, <2>1, <3>1, <3>2, <3>3, <3>4, <4>1, <4>2 DEF InHand, TypeOK
      <4>3. CASE v # w
        <5>1. Busy(v) /\ InHand(v) /\ worker'[v] = worker[v] /\ test[v] # t
          BY <2>t, <1>1, <2>1, <3>1, <3>9, <4>1, <4>3 DEF InHand, TypeOK
        <5> QED BY <3>1, <3>3, <3>4, <4>1, <5>1 DEF InHand
      <4> QED BY <4>2, <4>3
    <3> QED BY <3>5, <3>6, <3>7, <3>8, <3>9 DEF RunnerInv
  <2> QED BY <2>t, <1>3, <2>2, <2>3 DEF BuildExits
<1>4. ASSUME NEW code \in ExitCodes, ProgramExits(w, code)
      PROVE  RunnerInv'
  <2>t. PICK t : t = test[w]
    OBVIOUS
  <2>1. /\ worker[w] = "running" /\ Busy(w)
        /\ UNCHANGED <<progress, cancelling, errors, interrupted, faults, mainVars>>
        /\ Exited(w, code) /\ Finish(w, RunVerdict(t, code))
    BY <2>t, <1>4 DEF ProgramExits, Awaits, Busy
  <2>2. RunVerdict(t, code) \in BOOLEAN
    BY DEF RunVerdict
  <2>3. RunVerdict(t, code) => BehavedAsExpected(t)'
    BY <2>t, <2>1, RunPasses
  <2> QED BY <2>t, <2>1, <2>2, <2>3, FinishKeeps
<1>5. ASSUME WorkerRaises(w) \/ ProcessHangs(w) \/ WorkerCancelled(w)
      PROVE  RunnerInv'
  <2>1. /\ UNCHANGED <<queueVars, test, resultVars, mainVars, progress, errors, interrupted>>
        /\ \/ worker' = [worker EXCEPT ![w] = "done"]
           \/ worker' = [worker EXCEPT ![w] = "hanging"]
        /\ cancelling' \subseteq cancelling
        /\ faults' = faults \/ Fault
    BY <1>5 DEF WorkerRaises, ProcessHangs, WorkerCancelled
  <2>2. faults' \in 0 .. MaxFaults /\ (faults' = 0 => faults = 0)
    BY <1>1, <2>1, MaxFaultsAssumption DEF TypeOK, Fault
  <2>3. TypeOK'
    BY <1>1, <2>1, <2>2 DEF TypeOK, queueVars, resultVars, mainVars, Found
  <2>4. EndOK'
    BY <1>1, <2>1 DEF EndOK, queueVars, resultVars, mainVars, Found
  <2>5. \A v \in Workers : Busy(v)' => worker'[v] = worker[v]
    BY <1>1, <2>1 DEF Busy, TypeOK
  <2> QED BY <2>1, <2>2, <2>3, <2>4, <2>5, IdleKeeps
<1>6. ASSUME NEW code \in ExitCodes, RecordRaises(w, code)
      PROVE  RunnerInv'
  <2>t. PICK t : t = test[w]
    OBVIOUS
  <2>1. /\ Fault /\ Exited(w, code) /\ worker' = [worker EXCEPT ![w] = "done"]
        /\ UNCHANGED <<queueVars, test, progress, cancelling, errors, interrupted, mainVars>>
    BY <1>6 DEF RecordRaises
  <2>2. CASE /\ Awaits(w, "building")
             /\ record_test_result(t, BuildVerdict(t, code) = "passed")
    <3>1. worker[w] = "building" /\ Busy(w)
      BY <2>2 DEF Awaits, Busy
    <3>2. (BuildVerdict(t, code) = "passed") => BehavedAsExpected(t)'
      BY <2>t, <2>1, <3>1, BuildPasses
    <3> QED BY <2>t, <2>1, <2>2, <3>1, <3>2, RecordRaisesKeeps
  <2>3. CASE /\ Awaits(w, "running")
             /\ record_test_result(t, RunVerdict(t, code))
    <3>1. worker[w] = "running" /\ Busy(w)
      BY <2>3 DEF Awaits, Busy
    <3>2. RunVerdict(t, code) \in BOOLEAN
      BY DEF RunVerdict
    <3>3. RunVerdict(t, code) => BehavedAsExpected(t)'
      BY <2>t, <2>1, <3>1, RunPasses
    <3> QED BY <2>t, <2>1, <2>3, <3>1, <3>2, <3>3, RecordRaisesKeeps
  <2> QED BY <2>t, <1>6, <2>2, <2>3 DEF RecordRaises
<1> QED BY <1>2, <1>3, <1>4, <1>5, <1>6 DEF WorkerNext, WorkerFails

(* The steps of the other tasks leave the tests alone.                     *)
LEMMA OtherStepOK ==
  ASSUME RunnerInv, ProgressRaises \/ ProgressCancelled \/ MainNext \/ Interrupt
  PROVE  RunnerInv'
<1>1. UNCHANGED <<queueVars, worker, test, resultVars>>
  BY DEF ProgressRaises, ProgressCancelled, MainNext, JoinReturns, MainCancelled, MainEnds,
         Interrupt
<1>2. faults' \in 0 .. MaxFaults /\ (faults' = 0 => faults = 0)
  BY MaxFaultsAssumption
     DEF RunnerInv, TypeOK, Fault, ProgressRaises, ProgressCancelled, MainNext, JoinReturns,
         MainCancelled, MainEnds, Interrupt
<1>3. cancelling' \subseteq Workers \cup {Main, Progress}
  BY DEF RunnerInv, TypeOK, Alive, ProgressRaises, ProgressCancelled, MainNext, JoinReturns,
         MainCancelled, MainEnds, Interrupt
<1>4. /\ progress' \in {"drawing", "done"}
      /\ main' \in {"joining", "closing", "aborting", "ended"}
      /\ errors' \in BOOLEAN /\ interrupted' \in BOOLEAN /\ completed' \in BOOLEAN
      /\ exit_code' \in {0, 1}
  BY DEF RunnerInv, TypeOK, mainVars, ProgressRaises, ProgressCancelled, MainNext, JoinReturns,
         MainCancelled, MainEnds, Interrupt
<1>5. TypeOK'
  BY <1>1, <1>2, <1>3, <1>4 DEF RunnerInv, TypeOK, queueVars, resultVars, Found
<1>6. EndOK'
  <2>1. CASE JoinReturns
    BY <2>1 DEF JoinReturns, EndOK, queueVars
  <2>2. CASE MainCancelled
    BY <2>2 DEF MainCancelled, EndOK, queueVars, RunnerInv
  <2>3. CASE MainEnds
    <3>1. CASE Succeeded
      <4>1. unfinished = 0 /\ tests_passed = tests_ran
        BY <3>1 DEF Succeeded, RunnerInv, EndOK
      <4>2. Recorded({"none"}) = {}
        BY <4>1, RecordedFinite, FS_EmptySet DEF RunnerInv, CountersAgree, TypeOK
      <4>3. Recorded({"passed"}) = Recorded({"passed", "failed"})
        <5>1. Recorded({"passed"}) \in SUBSET Recorded({"passed", "failed"})
          BY DEF Recorded
        <5> QED BY <4>1, <5>1, RecordedFinite, FS_Subset DEF RunnerInv, CountersAgree
      <4>4. \A t \in Found : outcome[t] = "passed"
        BY <4>2, <4>3 DEF Recorded, RunnerInv, TypeOK
      <4> QED BY <2>3, <4>1, <4>4, <1>1 DEF MainEnds, EndOK, queueVars, resultVars, Found
    <3>2. CASE ~Succeeded
      BY <2>3, <3>2, <1>1 DEF MainEnds, EndOK, queueVars, RunnerInv
    <3> QED BY <3>1, <3>2
  <2>4. CASE ProgressRaises \/ ProgressCancelled
    BY <2>4, <1>1 DEF ProgressRaises, ProgressCancelled, EndOK, queueVars, resultVars, mainVars,
                      Found, RunnerInv
  <2>5. CASE Interrupt
    BY <2>5, <1>1 DEF Interrupt, EndOK, queueVars, resultVars, mainVars, Found, RunnerInv
  <2> QED BY <2>1, <2>2, <2>3, <2>4, <2>5 DEF MainNext
<1> QED BY <1>1, <1>2, <1>5, <1>6, IdleKeeps

LEMMA NextOK == RunnerInv /\ [Next]_vars => RunnerInv'
<1> SUFFICES ASSUME RunnerInv, [Next]_vars PROVE RunnerInv'
  OBVIOUS
<1>1. CASE \E w \in Workers : WorkerNext(w) \/ WorkerFails(w)
  BY <1>1, WorkerStepOK
<1>2. CASE ProgressRaises \/ ProgressCancelled \/ MainNext \/ Interrupt
  BY <1>2, OtherStepOK
<1>3. CASE Ended \/ UNCHANGED vars
  <2>1. UNCHANGED <<queueVars, worker, test, resultVars, mainVars, progress, cancelling,
                    errors, interrupted, faults>>
    BY <1>3 DEF Ended, vars, queueVars, resultVars, mainVars
  <2>2. TypeOK' /\ EndOK'
    BY <2>1 DEF RunnerInv, TypeOK, EndOK, Found, queueVars, resultVars, mainVars
  <2> QED BY <2>1, <2>2, IdleKeeps
<1> QED BY <1>1, <1>2, <1>3 DEF Next

(* Every test is queued, in one hand, recorded or dropped, and the counters *)
(* agree, in every state of the runner.                                     *)
THEOREM RunnerInvariance == Spec => []RunnerInv
BY InitOK, NextOK, PTL DEF Spec

(* The runner's variables have their types.                                *)
THEOREM RunnerTypeCorrect == Spec => []TypeOK
<1>1. RunnerInv => TypeOK
  BY DEF RunnerInv
<1> QED BY <1>1, RunnerInvariance, PTL

(* The numbers shown agree with the results, whatever raised.              *)
THEOREM CountersAlwaysAgree == Spec => []CountersAgree
<1>1. RunnerInv => CountersAgree
  BY DEF RunnerInv
<1> QED BY <1>1, RunnerInvariance, PTL

(* The runner exits with success only if every test it found was built and *)
(* run with the exit codes it names.                                       *)
THEOREM SuccessMeansPassed == Spec => []GreenMeansPassed
<1>1. RunnerInv => GreenMeansPassed
  BY DEF RunnerInv, EndOK, PassedBehaved, GreenMeansPassed
<1> QED BY <1>1, RunnerInvariance, PTL

(* Once the tests are reported as completed, no worker still has one whose *)
(* result could change what the summary said.                              *)
THEOREM CompletedStaysFinal == Spec => CompletedIsFinal
<1>1. RunnerInv /\ [Next]_vars => [completed => UNCHANGED resultVars]_vars
  <2> SUFFICES ASSUME RunnerInv, Next, completed
               PROVE  UNCHANGED resultVars
    OBVIOUS
  <2>1. ASSUME NEW w \in Workers, WorkerNext(w) \/ WorkerFails(w)
        PROVE  UNCHANGED resultVars
    <3>1. ~Busy(w)
      BY BusyBeforeEnd
    <3> QED BY <2>1, <3>1 DEF WorkerNext, WorkerFails, Start, BuildExits, ProgramExits,
                             WorkerCancelled, WorkerRaises, ProcessHangs, RecordRaises, Awaits,
                             Busy
  <2>2. CASE ProgressRaises \/ ProgressCancelled \/ MainNext \/ Interrupt
    BY <2>2 DEF ProgressRaises, ProgressCancelled, MainNext, JoinReturns, MainCancelled,
                MainEnds, Interrupt
  <2>3. CASE Ended
    BY <2>3 DEF Ended, vars, resultVars
  <2> QED BY <2>1, <2>2, <2>3 DEF Next
<1> QED BY <1>1, RunnerInvariance, PTL DEF Spec, CompletedIsFinal

=============================================================================
