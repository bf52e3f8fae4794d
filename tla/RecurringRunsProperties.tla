----------------------- MODULE RecurringRunsProperties -----------------------
(* What the readers of a job's marker and record may conclude from them. *)
EXTENDS RecurringRuns

\* Types; and no instance outlives its timeout (subprocess.run with timeout).
RunsTypeOK ==
    /\ platform \in Platforms
    /\ runs \in 0..MaxRuns /\ tests \in 0..MaxTests
    /\ at \in {"none", "started", "marked", "ended", "recorded"}
    /\ (at = "none" \/ age \in 0..Timeout) /\ slept \in 0..MaxSleep
    /\ result \in [Instances -> {"none", "ok", "failed", "died", "unseen"}]
    /\ marker \in [run : 0..MaxRuns, age : 0..StaleAge + 1]
    /\ latest \in [run : 0..MaxRuns, ok : BOOLEAN]
    /\ test \in [at : {"idle", "trigger", "wait", "poll"}, previous : 0..MaxRuns,
                 before : 0..MaxRuns, run : 0..MaxRuns, polled : 0..Deadline]
    /\ verdict \in {"none", "ok", "failed"}
    /\ health \in {"idle", "record", "stat"}
    /\ report \in {"none", "error", "stale", "healthy", "failing"}

\* A test that answers success read the record of a run that had not ended when the
\* test began; on Linux, moreover, the instance that it started or joined succeeded
\* ("never treat scheduler trigger acceptance as job success").  On macOS that run
\* may be one that ended before the trigger.
Reports ==
    (test.at = "poll" /\ test'.at = "idle" /\ verdict' = "ok") =>
        /\ latest.run >= test.before /\ latest.run # test.previous
        /\ platform = "linux" => result[test.run] = "ok"
TestReportsNewRun == [][Reports]_vars

\* A marker is called stale only when the instance that wrote it is gone, or has run on
\* a host that slept for more than the 600 seconds by which the stale age exceeds the
\* timeout: the timeout does not count sleep, and the age of the marker does.
CallsStale ==
    (health = "stat" /\ health' = "idle" /\ report' = "stale") =>
        at = "none" \/ runs # marker.run \/ slept > StaleAge - Timeout
StaleIsDead == [][CallsStale]_vars

-----------------------------------------------------------------------------
\* Fairness: time passes, the executor and the test go on, and cron runs the health
\* check again and again.  Nothing makes a job's process end by itself, and no
\* instance has to start or to die.
Fairness ==
    /\ WF_vars(Tick) /\ WF_vars(Run) /\ WF_vars(Test)
    /\ WF_vars(Check) /\ WF_vars(Health)
FairSpec == Spec /\ Fairness

\* Every test ends, although on Linux it waits for the job.
TestEnds == test.at # "idle" ~> test.at = "idle"

\* How the last instance ended that got as far as its marker.
Seen == {r \in 1..runs : result[r] # "unseen"}
Ending == result[CHOOSE r \in Seen : \A q \in Seen : q <= r]
Truth ==
    CASE at # "none" -> "running"
      [] at = "none" /\ Seen = {} -> "failing"
      [] at = "none" /\ Seen # {} ->
            CASE Ending = "ok" -> "healthy" [] Ending = "died" -> "stale" [] OTHER -> "failing"

\* When runs stop, the health check comes to say, and goes on to say, how the last one
\* that left its marker ended: that it died, failed or succeeded, however long ago.  Of
\* a run that ends before its marker it says nothing.
ReportSettles ==
    \A what \in {"stale", "healthy", "failing"} : <>[](Truth = what) => <>[](report = what)
=============================================================================
