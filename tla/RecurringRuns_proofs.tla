------------------------- MODULE RecurringRuns_proofs -------------------------
(***************************************************************************)
(* One job's runs, for every number of runs and tests, every timeout below *)
(* the stale age, and both platforms.                                      *)
(***************************************************************************)
EXTENDS RecurringRunsProperties, TLAPS

USE RunsAssumption

\* The marker of a running instance is its own, and older than it only by the sleep of
\* its host; an instance that has not written its marker yet is younger than any marker.
Marked ==
    /\ marker.run <= runs /\ (at # "none" => runs # 0)
    /\ at = "started" => marker.run < runs /\ age = 0
    /\ at \in {"marked", "ended", "recorded"} => marker.run = runs /\ marker.age <= age + slept

\* What a test knows: a record that is not the one it began with is of an instance that
\* had not ended then; on Linux it polls only after its instance succeeded for good.
Tested ==
    /\ latest.run <= runs
    /\ test.at # "idle" =>
          /\ test.before <= runs /\ test.run <= runs
          /\ latest.run = test.previous \/ latest.run >= test.before
    /\ test.at = "poll" /\ platform = "linux" =>
          result[test.run] = "ok" /\ (at = "none" \/ test.run < runs)

RunsInv == RunsTypeOK /\ Marked /\ Tested

LEMMA Range ==
  ASSUME RunsTypeOK
  PROVE  /\ runs \in Nat /\ runs <= MaxRuns /\ tests \in Nat /\ tests <= MaxTests
         /\ marker.run \in Nat /\ marker.age \in 0..StaleAge + 1
         /\ latest.run \in Nat /\ test.run \in Nat /\ test.before \in Nat
         /\ test.previous \in Nat /\ test.polled \in 0..Deadline
         /\ (at # "none" => age \in 0..Timeout) /\ slept \in 0..MaxSleep
  BY DEF RunsTypeOK

LEMMA InitRuns == Init => RunsInv
  BY DEF Init, RunsInv, RunsTypeOK, Marked, Tested, NoMarker, NoRecord, NoTest, Instances

-----------------------------------------------------------------------------
(* The executor.                                                             *)

LEMMA FireInv ==
  ASSUME RunsInv, Fire
  PROVE  RunsInv'
<1>1. /\ RunsTypeOK /\ runs < MaxRuns /\ runs' = runs + 1 /\ at' = "started" /\ age' = 0
      /\ slept' = 0
      /\ UNCHANGED <<platform, result, marker, latest, test, verdict, tests, health, report>>
  BY DEF RunsInv, Fire, Start, testing, checking
<1>2. RunsTypeOK'
  <2>1. runs' \in 0..MaxRuns
    BY <1>1, Range
  <2>2. QED
    BY <1>1, <2>1 DEF RunsTypeOK
<1>3. Marked' /\ Tested'
  BY <1>1, Range DEF RunsInv, Marked, Tested
<1>4. QED
  BY <1>2, <1>3 DEF RunsInv

LEMMA RunInv ==
  ASSUME RunsInv, Run \/ Exit \/ Die
  PROVE  RunsInv'
<1>0. /\ RunsTypeOK /\ runs' = runs
      /\ \/ age' = age /\ slept' = slept
         \/ at' = "none" /\ age' = 0 /\ slept' = 0
      /\ UNCHANGED <<platform, test, verdict, tests, health, report>>
  BY DEF RunsInv, Run, WriteMarker, Exit, TimeOut, WriteRecord, Unmark, Die, Gone, Ends,
         testing, checking
<1>1. CASE WriteMarker
  <2>1. /\ at = "started" /\ at' = "marked" /\ marker' = [run |-> runs, age |-> 0]
        /\ UNCHANGED <<result, latest>>
    BY <1>1 DEF WriteMarker
  <2>2. RunsTypeOK'
    BY <1>0, <2>1 DEF RunsTypeOK
  <2>3. Marked' /\ Tested'
    BY <1>0, <2>1, Range DEF RunsInv, Marked, Tested
  <2>4. QED
    BY <2>2, <2>3 DEF RunsInv
<1>2. CASE Exit \/ TimeOut \/ Die
  <2>1. /\ at # "none" /\ UNCHANGED <<marker, latest>>
        /\ \E o \in {"ok", "failed", "died", "unseen"} : result' = [result EXCEPT ![runs] = o]
        /\ at' = "none" \/ (at = "marked" /\ at' = "ended")
    BY <1>2 DEF Exit, TimeOut, Die, Gone, Broken, Ends
  <2>2. RunsTypeOK'
    <3>1. result' \in [Instances -> {"none", "ok", "failed", "died", "unseen"}]
      BY <1>0, <2>1 DEF RunsTypeOK
    <3>2. /\ at' \in {"none", "started", "marked", "ended", "recorded"}
          /\ at' = "none" \/ age' \in 0..Timeout
      BY <1>0, <2>1 DEF RunsTypeOK
    <3>3. QED
      BY <1>0, <2>1, <3>1, <3>2 DEF RunsTypeOK
  <2>3. Marked'
    BY <1>0, <2>1 DEF RunsInv, Marked
  <2>4. test.run # runs => result'[test.run] = result[test.run]
    BY <2>1 DEF RunsInv, RunsTypeOK
  <2>5. Tested'
    BY <1>0, <2>1, <2>4, Range DEF RunsInv, Tested
  <2>6. QED
    BY <2>2, <2>3, <2>5 DEF RunsInv
<1>3. CASE WriteRecord
  <2>1. /\ at = "ended" /\ at' = "recorded" /\ UNCHANGED <<marker, result>>
        /\ latest' = [run |-> runs, ok |-> result[runs] = "ok"]
    BY <1>3 DEF WriteRecord
  <2>2. RunsTypeOK'
    BY <1>0, <2>1 DEF RunsTypeOK
  <2>3. Marked' /\ Tested'
    BY <1>0, <2>1, Range DEF RunsInv, Marked, Tested
  <2>4. QED
    BY <2>2, <2>3 DEF RunsInv
<1>4. CASE Unmark
  <2>1. at = "recorded" /\ at' = "none" /\ marker' = NoMarker /\ UNCHANGED <<result, latest>>
    BY <1>4 DEF Unmark, Gone
  <2>2. RunsTypeOK'
    BY <1>0, <2>1 DEF RunsTypeOK, NoMarker
  <2>3. Marked' /\ Tested'
    BY <1>0, <2>1, Range DEF RunsInv, Marked, Tested, NoMarker
  <2>4. QED
    BY <2>2, <2>3 DEF RunsInv
<1>5. QED
  BY <1>1, <1>2, <1>3, <1>4 DEF Run

-----------------------------------------------------------------------------
(* The test operation, the health check, and time.                           *)

LEMMA TriggerInv ==
  ASSUME RunsInv, Trigger
  PROVE  RunsInv'
<1>0. /\ RunsTypeOK /\ test.at = "trigger"
      /\ UNCHANGED <<platform, marker, latest, verdict, tests, health, report>>
  BY DEF RunsInv, Trigger, checking
<1>1. /\ runs' = runs \/ (runs < MaxRuns /\ runs' = runs + 1)
      /\ runs' = runs => at' = at /\ age' = age /\ slept' = slept
      /\ runs' # runs => at' = "started" /\ age' = 0 /\ slept' = 0
      /\ result' = result \/ \E o \in {"died", "unseen"} : result' = [result EXCEPT ![runs] = o]
      /\ \E next \in {"wait", "poll"} :
            /\ next = "poll" => platform = "darwin"
            /\ test' = [test EXCEPT !.at = next, !.run = runs']
  BY Range DEF Trigger, TriggerLinux, TriggerDarwin, Broken, Start, RunsInv
<1>2. runs' \in 0..MaxRuns /\ runs <= runs'
  BY <1>0, <1>1, Range
<1>3. PICK next \in {"wait", "poll"} :
            /\ next = "poll" => platform = "darwin"
            /\ test' = [test EXCEPT !.at = next, !.run = runs']
  BY <1>1
<1>4. /\ test'.at = next /\ test'.run = runs'
      /\ test'.before = test.before /\ test'.previous = test.previous
  BY <1>0, <1>3 DEF RunsTypeOK
<1>5. RunsTypeOK'
  <2>1. result' \in [Instances -> {"none", "ok", "failed", "died", "unseen"}]
    BY <1>0, <1>1 DEF RunsTypeOK
  <2>2. test' \in [at : {"idle", "trigger", "wait", "poll"}, previous : 0..MaxRuns,
                   before : 0..MaxRuns, run : 0..MaxRuns, polled : 0..Deadline]
    BY <1>0, <1>2, <1>3 DEF RunsTypeOK
  <2>3. /\ at' \in {"none", "started", "marked", "ended", "recorded"}
        /\ at' = "none" \/ age' \in 0..Timeout
        /\ slept' \in 0..MaxSleep
    BY <1>0, <1>1 DEF RunsTypeOK
  <2>4. QED
    BY <1>0, <1>2, <2>1, <2>2, <2>3 DEF RunsTypeOK
<1>6. Marked'
  BY <1>0, <1>1, Range DEF RunsInv, Marked
<1>7. Tested'
  BY <1>0, <1>1, <1>2, <1>3, <1>4, Range DEF RunsInv, Tested
<1>8. QED
  BY <1>5, <1>6, <1>7 DEF RunsInv

LEMMA TestInv ==
  ASSUME RunsInv, ReadPrevious \/ TriggerFails \/ Waited \/ Poll \/ Expire
  PROVE  RunsInv'
<1>0. RunsTypeOK /\ UNCHANGED <<platform, runs, at, age, slept, result, marker, latest, health,
                               report>>
  BY DEF RunsInv, ReadPrevious, TriggerFails, Waited, Poll, Expire, Answered, instance,
         checking
<1>1. Marked'
  BY <1>0 DEF RunsInv, Marked
<1>2. CASE ReadPrevious
  <2>1. /\ tests' \in 0..MaxTests /\ verdict' = verdict
        /\ test' = [NoTest EXCEPT !.at = "trigger", !.previous = latest.run, !.before = runs]
    BY <1>0, <1>2, Range DEF ReadPrevious
  <2>2. RunsTypeOK'
    <3>1. /\ latest.run \in 0..MaxRuns /\ runs \in 0..MaxRuns
          /\ 0 \in 0..MaxRuns /\ 0 \in 0..Deadline
      BY <1>0 DEF RunsTypeOK
    <3>2. test' \in [at : {"idle", "trigger", "wait", "poll"}, previous : 0..MaxRuns,
                     before : 0..MaxRuns, run : 0..MaxRuns, polled : 0..Deadline]
      BY <2>1, <3>1 DEF NoTest
    <3>3. QED
      BY <1>0, <2>1, <3>2 DEF RunsTypeOK
  <2>3. Tested'
    BY <1>0, <2>1, Range DEF RunsInv, Tested, NoTest
  <2>4. QED
    BY <1>1, <2>2, <2>3 DEF RunsInv
<1>3. CASE Waited /\ test' = [test EXCEPT !.at = "poll"]
  <2>1. /\ test.at = "wait" /\ (at = "none" \/ runs # test.run)
        /\ test' = NoTest \/ result[test.run] = "ok"
    BY <1>3 DEF Waited, Answered, Answer
  <2>2. /\ test'.at = "poll" /\ test'.run = test.run
        /\ test'.before = test.before /\ test'.previous = test.previous
    BY <1>0, <1>3 DEF RunsTypeOK
  <2>3. result[test.run] = "ok" /\ verdict' = verdict /\ tests' = tests
    BY <1>3, <2>1, <2>2 DEF NoTest, Waited, Answered
  <2>4. RunsTypeOK'
    BY <1>0, <1>3, <2>3 DEF RunsTypeOK
  <2>5. Tested'
    BY <1>0, <2>1, <2>2, <2>3, Range DEF RunsInv, Tested
  <2>6. QED
    BY <1>1, <2>4, <2>5 DEF RunsInv
<1>4. CASE test' = NoTest /\ verdict' \in {"ok", "failed"} /\ tests' = tests
  <2>1. RunsTypeOK'
    BY <1>0, <1>4 DEF RunsTypeOK, NoTest
  <2>2. Tested'
    BY <1>0, <1>4 DEF RunsInv, Tested, NoTest
  <2>3. QED
    BY <1>1, <2>1, <2>2 DEF RunsInv
<1>5. QED
  BY <1>2, <1>3, <1>4 DEF TriggerFails, Waited, Poll, Expire, Answer, Answered

LEMMA HealthInv ==
  ASSUME RunsInv, Check \/ Health
  PROVE  RunsInv'
<1>1. /\ RunsTypeOK
      /\ UNCHANGED <<platform, runs, at, age, slept, result, marker, latest, test, verdict, tests>>
      /\ health' \in {"idle", "record", "stat"}
      /\ report' = report \/ report' \in {"error", "stale", "healthy", "failing"}
  BY DEF RunsInv, Check, Health, CheckMarker, CheckRecord, Checked, instance, testing
<1>2. RunsTypeOK'
  BY <1>1 DEF RunsTypeOK
<1>3. Marked' /\ Tested'
  BY <1>1 DEF RunsInv, Marked, Tested
<1>4. QED
  BY <1>2, <1>3 DEF RunsInv

\* A marker that ages stays a marker of its instance.
LEMMA OlderMarker ==
  ASSUME RunsTypeOK
  PROVE  /\ Older.run = marker.run /\ Older.age <= marker.age + 1
         /\ Older \in [run : 0..MaxRuns, age : 0..StaleAge + 1]
<1>1. marker \in [run : 0..MaxRuns, age : 0..StaleAge + 1]
  BY DEF RunsTypeOK
<1>2. CASE marker = NoMarker \/ marker.age > StaleAge
  BY <1>1, <1>2 DEF Older
<1>3. CASE ~(marker = NoMarker \/ marker.age > StaleAge)
  <2>1. Older = [marker EXCEPT !.age = @ + 1] /\ marker.age + 1 \in 0..StaleAge + 1
    BY <1>1, <1>3 DEF Older
  <2>2. QED
    BY <1>1, <2>1
<1>4. QED
  BY <1>2, <1>3

LEMMA TickInv ==
  ASSUME RunsInv, Tick
  PROVE  RunsInv'
<1>0. /\ RunsTypeOK /\ at' = at /\ at \in {"none", "marked"}
      /\ UNCHANGED <<platform, runs, slept, result, latest, verdict, tests, health, report>>
  BY DEF RunsInv, Tick, checking
<1>1. at = "marked" => age < Timeout /\ age \in 0..Timeout /\ age' = age + 1
  BY <1>0, Range DEF Tick, TimedOut
<1>2. /\ marker'.run = marker.run /\ marker'.age <= marker.age + 1
      /\ marker' \in [run : 0..MaxRuns, age : 0..StaleAge + 1]
  BY <1>0, OlderMarker DEF Tick
<1>3. /\ test' = test \/ (test.at = "poll" /\ test.polled < Deadline
                          /\ test' = [test EXCEPT !.polled = @ + 1])
  BY DEF Tick
<1>4. /\ test' \in [at : {"idle", "trigger", "wait", "poll"}, previous : 0..MaxRuns,
                    before : 0..MaxRuns, run : 0..MaxRuns, polled : 0..Deadline]
      /\ test'.at = test.at /\ test'.run = test.run
      /\ test'.before = test.before /\ test'.previous = test.previous
  <2>1. test.polled < Deadline => test.polled + 1 \in 0..Deadline
    BY <1>0, Range
  <2>2. QED
    BY <1>0, <1>3, <2>1 DEF RunsTypeOK
<1>5. RunsTypeOK'
  <2>1. at' = "none" \/ age' \in 0..Timeout
    BY <1>0, <1>1
  <2>2. QED
    BY <1>0, <1>2, <1>4, <2>1 DEF RunsTypeOK
<1>6. Marked'
  <2>1. at = "marked" => marker'.age <= age' + slept'
    BY <1>0, <1>1, <1>2, Range DEF RunsInv, Marked
  <2>2. QED
    BY <1>0, <1>2, <2>1 DEF RunsInv, Marked
<1>7. Tested'
  BY <1>0, <1>4 DEF RunsInv, Tested
<1>8. QED
  BY <1>5, <1>6, <1>7 DEF RunsInv

LEMMA SuspendInv ==
  ASSUME RunsInv, Suspend
  PROVE  RunsInv'
<1>1. /\ RunsTypeOK /\ at # "none" /\ slept < MaxSleep /\ slept' = slept + 1
      /\ UNCHANGED <<platform, runs, at, age, result, latest, test, verdict, tests, health,
                     report>>
  BY DEF RunsInv, Suspend, testing, checking
<1>2. /\ marker'.run = marker.run /\ marker'.age <= marker.age + 1
      /\ marker' \in [run : 0..MaxRuns, age : 0..StaleAge + 1]
  BY <1>1, OlderMarker DEF Suspend
<1>3. slept' \in 0..MaxSleep
  BY <1>1, Range
<1>4. RunsTypeOK'
  BY <1>1, <1>2, <1>3 DEF RunsTypeOK
<1>5. Marked'
  BY <1>1, <1>2, Range DEF RunsInv, Marked
<1>6. Tested'
  BY <1>1 DEF RunsInv, Tested
<1>7. QED
  BY <1>4, <1>5, <1>6 DEF RunsInv

-----------------------------------------------------------------------------
(* The theorems.                                                             *)

LEMMA StepRuns == RunsInv /\ [Next]_vars => RunsInv'
<1> SUFFICES ASSUME RunsInv, [Next]_vars PROVE RunsInv'
  OBVIOUS
<1>1. CASE UNCHANGED vars
  BY <1>1 DEF vars, RunsInv, RunsTypeOK, Marked, Tested
<1>2. CASE Next
  BY <1>2, FireInv, RunInv, TriggerInv, TestInv, HealthInv, TickInv, SuspendInv DEF Next, Test
<1>3. QED
  BY <1>1, <1>2

\* The inductive invariant of markers, records and tests holds in every state.
THEOREM RunsInductive == Spec => []RunsInv
<1>1. QED
  BY InitRuns, StepRuns, PTL DEF Spec

\* No instance lives past its timeout, and every file holds what its writers put there.
THEOREM RunsTypes == Spec => []RunsTypeOK
<1>1. RunsInv => RunsTypeOK
  BY DEF RunsInv
<1>2. QED
  BY <1>1, RunsInductive, PTL

\* A marker that the health check calls stale is of an instance that is gone, or whose
\* host slept for more than the stale age exceeds the timeout: a running instance is never
\* older than the timeout by its own clock.
THEOREM StaleMarkersAreDead == Spec => StaleIsDead
<1>1. RunsInv /\ [Next]_vars => [CallsStale]_vars
  <2> SUFFICES ASSUME RunsInv, [Next]_vars, health = "stat", health' = "idle", report' = "stale",
                      at # "none", runs = marker.run
               PROVE  UNCHANGED vars \/ slept > StaleAge - Timeout
    BY DEF CallsStale
  <2>1. /\ age <= Timeout /\ age \in Nat /\ marker.age \in Nat /\ slept \in Nat
        /\ marker.age <= age + slept
    BY Range DEF RunsInv, Marked, RunsTypeOK
  <2>2. UNCHANGED <<health, report>> \/ Check \/ CheckMarker \/ CheckRecord
    BY DEF Next, vars, Fire, Run, WriteMarker, Exit, TimeOut, WriteRecord, Unmark, Die, Ends,
           ReadPrevious, Test, Trigger, TriggerFails, Waited, Poll, Expire, Answered,
           Health, Tick, Suspend, checking
  <2>3. CheckMarker
    BY <2>2 DEF Check, CheckRecord
  <2>4. marker.age > StaleAge
    BY <2>3 DEF CheckMarker, Checked, Stale
  <2>5. QED
    BY <2>1, <2>4
<1>2. QED
  BY <1>1, RunsInductive, PTL DEF StaleIsDead, Spec

\* A test that answers success read the record of a run that had not ended when the
\* test began, and on Linux the run it waited for succeeded.
THEOREM TestsReportNewRuns == Spec => TestReportsNewRun
<1>1. RunsInv /\ [Next]_vars => [Reports]_vars
  <2> SUFFICES ASSUME RunsInv, [Next]_vars, test.at = "poll", test'.at = "idle", verdict' = "ok"
               PROVE  \/ UNCHANGED vars
                      \/ /\ latest.run >= test.before /\ latest.run # test.previous
                         /\ platform = "linux" => result[test.run] = "ok"
    BY DEF Reports
  <2>1. Poll
    <3>1. test' # test
      OBVIOUS
    <3>2. ~Tick
      BY DEF Tick, RunsInv, RunsTypeOK
    <3>3. QED
      BY <3>1, <3>2
         DEF Next, vars, Fire, Run, WriteMarker, Exit, TimeOut, WriteRecord, Unmark, Die, Ends,
             ReadPrevious, Test, Trigger, TriggerFails, Waited, Expire, Answer, Answered, Check,
             Health, CheckMarker, CheckRecord, Checked, Suspend, testing
  <2>2. QED
    BY <2>1 DEF Poll, NewRecord, RunsInv, Tested
<1>2. QED
  BY <1>1, RunsInductive, PTL DEF TestReportsNewRun, Spec
=============================================================================
