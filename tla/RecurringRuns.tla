---------------------------- MODULE RecurringRuns ----------------------------
(***************************************************************************)
(* The runs of one recurring job (officina/recurring: executor.py,         *)
(* records.py, healthcheck.py, control.py _test).  The native scheduler    *)
(* keeps one instance of the job: on Linux a start joins it, on macOS      *)
(* kickstart -k replaces it.  The executor leaves a running marker, waits  *)
(* at most Timeout for the job's process, records the outcome, and removes *)
(* the marker; it may die anywhere, and then its marker stays.  The test   *)
(* operation and the health check read the marker and the record without   *)
(* any lock.                                                               *)
(*                                                                         *)
(* Time passes in ticks.  The steps around the job's process take no tick: *)
(* only the process and the polling do.  The timeout and the polling count *)
(* on monotonic clocks, the age of the marker is wall time, and the two    *)
(* part when the host sleeps.                                              *)
(***************************************************************************)
EXTENDS Naturals

CONSTANTS MaxRuns,     \* bound: instances the scheduler starts
          MaxTests,    \* bound: test operations
          MaxSleep,    \* bound: ticks that the host sleeps during an instance
          Timeout,     \* ticks of TIMEOUT_SECONDS (3600)
          StaleAge,    \* ticks of the age at which a marker is stale (4200)
          Deadline,    \* ticks of the 60 seconds that _test polls
          Platforms

ASSUME RunsAssumption ==
    /\ MaxRuns \in Nat /\ MaxTests \in Nat /\ MaxSleep \in Nat /\ Deadline \in Nat
    /\ Timeout \in Nat /\ StaleAge \in Nat /\ Timeout < StaleAge
    /\ Platforms \subseteq {"linux", "darwin"}

VARIABLES
    platform,
    runs,      \* instances started so far; an instance is its number
    at,        \* where the current instance is; "none" when there is none
    age,       \* monotonic ticks since the current instance started
    slept,     \* history: ticks of wall time that its host slept since then
    result,    \* history: "none", "ok", "failed", "died", and "unseen" when an instance
               \* ended before its marker
    marker,    \* running.json: the instance that wrote it and its age by the wall clock
    latest,    \* latest.json: the instance it records and its success
    test,      \* the test operation: where, record and instances it began with,
               \* instance it triggered, ticks it polled
    verdict,   \* what the last test said
    health,    \* where the health check is
    report,    \* what the last health check said
    tests

vars == <<platform, runs, at, age, slept, result, marker, latest, test, verdict, health,
          report, tests>>
instance == <<runs, at, age, slept, result>>
checking == <<health, report>>
testing == <<test, verdict, tests>>

NoMarker == [run |-> 0, age |-> 0]
NoRecord == [run |-> 0, ok |-> FALSE]
NoTest == [at |-> "idle", previous |-> 0, before |-> 0, run |-> 0, polled |-> 0]
Instances == 1..MaxRuns

Init ==
    /\ platform \in Platforms
    /\ runs = 0 /\ at = "none" /\ age = 0 /\ slept = 0
    /\ result = [r \in Instances |-> "none"]
    /\ marker = NoMarker /\ latest = NoRecord
    /\ test = NoTest /\ verdict = "none" /\ tests = 0
    /\ health = "idle" /\ report = "none"

-----------------------------------------------------------------------------
\* run_job.

Start ==
    /\ runs < MaxRuns /\ runs' = runs + 1
    /\ at' = "started" /\ age' = 0 /\ slept' = 0

\* The timer elapses; while an instance is active nothing starts.
Fire ==
    /\ at = "none" /\ Start
    /\ UNCHANGED <<platform, result, marker, latest, testing, checking>>

WriteMarker ==
    /\ at = "started" /\ at' = "marked"
    /\ marker' = [run |-> runs, age |-> 0]
    /\ UNCHANGED <<platform, runs, age, slept, result, latest, testing, checking>>

\* The job's process ends with some exit code, or cannot be spawned.
Ends(outcome) ==
    /\ at' = "ended" /\ result' = [result EXCEPT ![runs] = outcome]
    /\ UNCHANGED <<platform, runs, age, slept, marker, latest, testing, checking>>
Exit == at = "marked" /\ age < Timeout /\ \E o \in {"ok", "failed"} : Ends(o)

\* subprocess.run kills the process after TIMEOUT_SECONDS.  Mutant: it waits on.
NoTimeout == FALSE
TimedOut == age >= Timeout
TimeOut == at = "marked" /\ TimedOut /\ Ends("failed")

\* write_record: written aside, then renamed.
WriteRecord ==
    /\ at = "ended" /\ at' = "recorded"
    /\ latest' = [run |-> runs, ok |-> result[runs] = "ok"]
    /\ UNCHANGED <<platform, runs, age, slept, result, marker, testing, checking>>

Gone == at' = "none" /\ age' = 0 /\ slept' = 0

\* The marker is removed, whoever wrote it; the executor's exit code is the job's.
Unmark ==
    /\ at = "recorded" /\ Gone /\ marker' = NoMarker
    /\ UNCHANGED <<platform, runs, result, latest, testing, checking>>

\* The executor is killed, by systemctl stop or by hand, or raises outside of its try,
\* perhaps before its marker; systemd and launchd end what it started.
Broken == [result EXCEPT ![runs] = IF at = "started" THEN "unseen" ELSE "died"]
Die ==
    /\ at # "none" /\ Gone
    /\ result' = Broken
    /\ UNCHANGED <<platform, runs, marker, latest, testing, checking>>

-----------------------------------------------------------------------------
\* _test.

ReadPrevious ==
    /\ test.at = "idle" /\ tests < MaxTests /\ tests' = tests + 1
    /\ test' = [NoTest EXCEPT !.at = "trigger", !.previous = latest.run, !.before = runs]
    /\ UNCHANGED <<platform, instance, marker, latest, verdict, checking>>

\* systemctl start --wait joins the active instance.
TriggerLinux ==
    /\ platform = "linux"
    /\ IF at = "none" THEN Start ELSE UNCHANGED <<runs, at, age, slept>>
    /\ test' = [test EXCEPT !.at = "wait", !.run = runs']
    /\ UNCHANGED result

\* launchctl kickstart -k kills the active instance and returns at once.
TriggerDarwin ==
    /\ platform = "darwin"
    /\ Start
    /\ result' = IF at = "none" THEN result ELSE Broken
    /\ test' = [test EXCEPT !.at = "poll", !.run = runs']

Answer(v) == test' = NoTest /\ verdict' = v
Answered == UNCHANGED <<platform, instance, marker, latest, tests, checking>>

Trigger ==
    /\ test.at = "trigger"
    /\ TriggerLinux \/ TriggerDarwin
    /\ UNCHANGED <<platform, marker, latest, verdict, tests, checking>>

\* The command fails.
TriggerFails == test.at = "trigger" /\ Answer("failed") /\ Answered

\* --wait returns once the instance is gone, with its success.
Waited ==
    /\ test.at = "wait" /\ (at = "none" \/ runs # test.run)
    /\ IF result[test.run] = "ok"
       THEN test' = [test EXCEPT !.at = "poll"] /\ UNCHANGED verdict
       ELSE Answer("failed")
    /\ Answered

\* Mutant: any record will do.
AnyRecord == latest # NoRecord
NewRecord == latest # NoRecord /\ latest.run # test.previous

Poll ==
    /\ test.at = "poll" /\ NewRecord
    /\ Answer(IF latest.ok THEN "ok" ELSE "failed")
    /\ Answered

Expire ==
    /\ test.at = "poll" /\ test.polled >= Deadline
    /\ Answer("failed") /\ Answered

-----------------------------------------------------------------------------
\* healthcheck.check, for an enabled job whose registration is sound.

Checked(what) ==
    /\ report' = what /\ health' = "idle"
    /\ UNCHANGED <<platform, instance, marker, latest, testing>>

\* marker.exists().
Check ==
    /\ health = "idle"
    /\ health' = IF marker = NoMarker THEN "record" ELSE "stat"
    /\ UNCHANGED <<platform, instance, marker, latest, testing, report>>

\* marker.stat(): a marker that is gone by now raises, and the whole check fails.
\* Mutant: a marker is stale as soon as the job times out.
StaleAtTimeout == marker.age >= Timeout
Stale == marker.age > StaleAge

CheckMarker ==
    /\ health = "stat"
    /\ Checked(IF marker = NoMarker THEN "error"
               ELSE IF Stale THEN "stale" ELSE "healthy")

\* A success is healthy whenever it was.  Mutant: a record is enough.
RecordIsHealthy == latest # NoRecord
Healthy == latest.ok
CheckRecord == health = "record" /\ Checked(IF Healthy THEN "healthy" ELSE "failing")

-----------------------------------------------------------------------------
Older ==
    IF marker = NoMarker \/ marker.age > StaleAge THEN marker ELSE [marker EXCEPT !.age = @ + 1]

\* A tick passes while the job's process runs, or while there is no instance.
Tick ==
    /\ at = "none" \/ (at = "marked" /\ ~TimedOut)
    /\ age' = IF at = "none" \/ age > StaleAge THEN age ELSE age + 1
    /\ marker' = Older
    /\ test' = IF test.at = "poll" /\ test.polled < Deadline
               THEN [test EXCEPT !.polled = @ + 1] ELSE test
    /\ UNCHANGED <<platform, runs, at, slept, result, latest, verdict, tests, checking>>

\* The host sleeps, or its wall clock is set forward, during an instance.
Suspend ==
    /\ at # "none" /\ slept < MaxSleep
    /\ slept' = slept + 1 /\ marker' = Older
    /\ UNCHANGED <<platform, runs, at, age, result, latest, testing, checking>>

Run == WriteMarker \/ TimeOut \/ WriteRecord \/ Unmark
Test == Trigger \/ TriggerFails \/ Waited \/ Poll \/ Expire
Health == CheckMarker \/ CheckRecord

Next ==
    \/ Fire \/ Run \/ Exit \/ Die
    \/ ReadPrevious \/ Test
    \/ Check \/ Health
    \/ Tick \/ Suspend

Spec == Init /\ [][Next]_vars
=============================================================================
