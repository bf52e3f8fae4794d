------------------------------- MODULE LlmWakeup -------------------------------
(***************************************************************************)
(* Wakeups of sessions that a usage limit stopped (skills/llm-wakeup).     *)
(* Processes share a queue of jobs, markers of handled events and one      *)
(* non-blocking scanner lock.  A pass (run-due) first monitors: it turns   *)
(* refusals and near-limit measurements into jobs or reminders, each event *)
(* claimed by its marker.  Then it scans: it delivers the jobs that are    *)
(* due.  Users schedule by hand, and sessions go on by themselves at any   *)
(* moment.  A process may die between any two steps.                       *)
(*                                                                         *)
(* A transcript is the number of its meaningful events, which stands for   *)
(* the hash of the latest, with the newest refusal and what followed it.   *)
(* Time is in minutes, the precision of the timer.                         *)
(***************************************************************************)
EXTENDS Naturals, FiniteSets

CONSTANTS
    Sessions, Procs,
    Resets,         \* instants at which a provider may say that a limit resets
    RetryDelay,     \* minutes until a failed delivery is tried again
    MaxClock,       \* bound on the instants of a behaviour
    MaxEvents,      \* bound on turns, refusals, measurements, time-outs and what users do
    MaxCrashes,     \* bound on the deaths of processes
    Nil

ASSUME WakeupAssumption ==
    /\ Resets \subseteq Nat \ {0} /\ RetryDelay \in Nat \ {0}
    /\ MaxClock \in Nat \ {0} /\ MaxEvents \in Nat /\ MaxCrashes \in Nat
    /\ Nil \notin Procs

VARIABLES
    clock, transcript,
    usage,      \* reset of the near-limit window of a session, 0 without one
    policy,     \* auto-schedule level of a session
    markers,    \* events with a file in monitor-events
    jobs,       \* jobs.json
    scanner,    \* holder of scanner.lock
    pc, now,    \* where a process is, and the instant its pass works with
    todo,       \* what it has read and not gone through: events or copies of jobs
    handled,    \* sessions whose refusal this pass needs no percentage for
    work, shot, \* the event or the copy of a job in hand, and the state read for it
    drawn,      \* job IDs drawn so far
    events, crashes,
    acted,      \* history: how often an event had its effect
    undone,     \* history: how often its claim was given back after that
    woken       \* history: length of the transcript when it was last resumed

store == <<markers, jobs, drawn>>
local == <<pc, now, todo, handled, work, shot>>
budgets == <<events, crashes>>
acts == <<acted, undone>>
vars == <<clock, transcript, usage, policy, markers, jobs, scanner, pc, now, todo,
          handled, work, shot, drawn, events, crashes, acted, undone, woken>>

Levels == {"none", "interrupted", "force"}
Kinds == {"cutoff", "scheduled", "reminded"}
Keys == Kinds \X Sessions \X Resets
Key(e) == <<e.kind, e.session, e.reset>>
Event(kind, s, reset, level) ==
    [kind |-> kind, session |-> s, reset |-> reset, level |-> level]

Init ==
    /\ clock = 1
    /\ transcript = [s \in Sessions |-> [length |-> 0, reset |-> 0, last |-> "turn"]]
    /\ usage = [s \in Sessions |-> 0]
    /\ policy \in [Sessions -> Levels]
    /\ markers = {} /\ jobs = {} /\ scanner = Nil /\ drawn = 0
    /\ pc = [p \in Procs |-> "idle"] /\ now = [p \in Procs |-> 1]
    /\ todo = [p \in Procs |-> {}] /\ handled = [p \in Procs |-> {}]
    /\ work = [p \in Procs |-> Nil] /\ shot = [p \in Procs |-> 0]
    /\ events = 0 /\ crashes = 0
    /\ acted = [k \in Keys |-> 0] /\ undone = [k \in Keys |-> 0]
    /\ woken = [s \in Sessions |-> 0]

Goto(p, at) == pc' = [pc EXCEPT ![p] = at]
\* A process that ends forgets what it holds.
Stop(p) ==
    /\ Goto(p, "idle")
    /\ now' = [now EXCEPT ![p] = 1] /\ shot' = [shot EXCEPT ![p] = 0]
    /\ todo' = [todo EXCEPT ![p] = {}] /\ handled' = [handled EXCEPT ![p] = {}]
    /\ work' = [work EXCEPT ![p] = Nil]

-----------------------------------------------------------------------------
\* The environment: time, sessions and their providers, the user's policies.

Tick ==
    /\ clock < MaxClock
    /\ clock' = clock + 1
    /\ UNCHANGED <<transcript, usage, policy, scanner, store, local, budgets, acts, woken>>

Happens == events < MaxEvents /\ events' = events + 1

\* A transcript grows by some meaningful events, and ends as it says.
Grown(s, meaningful, reset, last) ==
    [transcript EXCEPT ![s] = [length |-> transcript[s].length + meaningful,
                               reset |-> reset, last |-> last]]
Writes(s, meaningful, reset, last) ==
    /\ Happens
    /\ transcript' = Grown(s, meaningful, reset, last)
    /\ UNCHANGED <<clock, usage, policy, scanner, store, local, crashes, acts, woken>>

Turn(s) == Writes(s, 1, transcript[s].reset, "turn")

\* A refusal is a meaningful event of Claude, and follows one in Codex.  Its
\* text may state no reset.
Refuse(s) ==
    \E reset \in {0} \cup {r \in Resets : r > clock}, meaningful \in {0, 1} :
        /\ meaningful = 1 \/ transcript[s].last = "turn"
        /\ Writes(s, meaningful, reset, "refusal")

\* Claude announces that it will resume by itself.
SelfContinue(s) == transcript[s].last = "refusal" /\ Writes(s, 0, transcript[s].reset, "armed")

\* It gives that up, at most once for each announcement.
GiveUp(s) ==
    /\ transcript[s].last = "armed"
    /\ transcript' = Grown(s, 0, transcript[s].reset, "refusal")
    /\ UNCHANGED <<clock, usage, policy, scanner, store, local, budgets, acts, woken>>

Measure(s) ==
    /\ Happens
    /\ \E reset \in {0} \cup {r \in Resets : r > clock} : usage' = [usage EXCEPT ![s] = reset]
    /\ UNCHANGED <<clock, transcript, policy, scanner, store, local, crashes, acts, woken>>

SetAutoSchedule(s) ==
    /\ Happens
    /\ \E level \in Levels : policy' = [policy EXCEPT ![s] = level]
    /\ UNCHANGED <<clock, transcript, usage, scanner, store, local, crashes, acts, woken>>

-----------------------------------------------------------------------------
\* Monitoring.

\* Cutoff.wakeable, for a reset that is still to come.
Wakeable(s) == transcript[s].last = "refusal" /\ transcript[s].reset > clock

StartPass(p) ==
    /\ pc[p] = "idle"
    /\ Goto(p, "cutoffs")
    /\ now' = [now EXCEPT ![p] = clock]
    /\ todo' = [todo EXCEPT ![p] = {Event("cutoff", s, transcript[s].reset, policy[s]) :
                    s \in {t \in Sessions : policy[t] # "none" /\ Wakeable(t)}}]
    /\ UNCHANGED <<clock, transcript, usage, policy, scanner, store, handled, work, shot,
                   budgets, acts, woken>>

\* _claim_event creates the marker exclusively.  Mutant: an old marker is no
\* obstacle.
UnclaimedAlways(e) == TRUE
Unclaimed(e) == Key(e) \notin markers
Claim(p, e, next) ==
    /\ markers' = markers \cup {Key(e)}
    /\ work' = [work EXCEPT ![p] = e]
    /\ Goto(p, next)

ClaimCutoff(p) ==
    /\ pc[p] = "cutoffs"
    /\ \E e \in todo[p] :
        /\ todo' = [todo EXCEPT ![p] = @ \ {e}]
        /\ IF Unclaimed(e)
           THEN Claim(p, e, "snapshot") /\ UNCHANGED handled
           ELSE /\ handled' = [handled EXCEPT ![p] = @ \cup {e.session}]
                /\ UNCHANGED <<markers, work, pc>>
    /\ UNCHANGED <<clock, transcript, usage, policy, jobs, scanner, drawn, now, shot,
                   budgets, acts, woken>>

ReadUsage(p) ==
    /\ pc[p] = "cutoffs" /\ todo[p] = {}
    /\ Goto(p, "usage")
    /\ todo' = [todo EXCEPT ![p] = {Event("reminded", s, usage[s], "none") :
                    s \in {t \in Sessions : usage[t] > now[p]}}]
    /\ UNCHANGED <<clock, transcript, usage, policy, scanner, store, now, handled, work, shot,
                   budgets, acts, woken>>

\* A session that is scheduled only when stopped is decided on evidence above.
ClaimUsage(p) ==
    /\ pc[p] = "usage"
    /\ \E e \in todo[p] :
        LET level == policy[e.session]
            event == IF level = "force" THEN Event("scheduled", e.session, e.reset, level) ELSE e
        IN /\ todo' = [todo EXCEPT ![p] = @ \ {e}]
           /\ IF level = "interrupted" \/ e.session \in handled[p] \/ ~Unclaimed(event)
              THEN UNCHANGED <<markers, work, pc>>
              ELSE Claim(p, event, IF level = "force" THEN "snapshot" ELSE "notify")
    /\ UNCHANGED <<clock, transcript, usage, policy, jobs, scanner, drawn, now, handled, shot,
                   budgets, acts, woken>>

\* The effect of an event that is claimed.
Act(e) == acted' = IF Key(e) \in Keys THEN [acted EXCEPT ![Key(e)] = @ + 1] ELSE acted

Notify(p) ==
    /\ pc[p] = "notify"
    /\ Act(work[p])
    /\ Goto(p, "usage")
    /\ work' = [work EXCEPT ![p] = Nil]
    /\ UNCHANGED <<clock, transcript, usage, policy, scanner, store, now, todo, handled, shot,
                   budgets, undone, woken>>

-----------------------------------------------------------------------------
\* Scheduling, by hand or by the monitor: the state is read, then the job added.

ScheduleByHand(p) ==
    /\ pc[p] = "idle" /\ Happens
    /\ \E s \in Sessions, reset \in Resets :
        work' = [work EXCEPT ![p] = Event("hand", s, reset, "none")]
    /\ Goto(p, "snapshot")
    /\ UNCHANGED <<clock, transcript, usage, policy, scanner, store, now, todo, handled, shot,
                   crashes, acts, woken>>

Snapshot(p) ==
    /\ pc[p] = "snapshot"
    /\ shot' = [shot EXCEPT ![p] = transcript[work[p].session].length]
    /\ Goto(p, "append")
    /\ UNCHANGED <<clock, transcript, usage, policy, scanner, store, now, todo, handled, work,
                   budgets, acts, woken>>

\* The deadline is a minute after the reset.
Deadline(e) == e.reset + 1
NewJob(p) == [id |-> drawn + 1, session |-> work[p].session, at |-> Deadline(work[p]),
              state |-> shot[p], level |-> work[p].level]
\* append_job keeps an older job of the session for the same minute.
AppendJob(p) ==
    IF \E j \in jobs : j.session = work[p].session /\ j.at = Deadline(work[p])
    THEN UNCHANGED <<jobs, drawn>>
    ELSE jobs' = jobs \cup {NewJob(p)} /\ drawn' = drawn + 1

Append(p) ==
    /\ pc[p] = "append"
    /\ AppendJob(p)
    /\ Act(work[p])
    /\ IF work[p].kind = "hand" THEN Stop(p)
       ELSE /\ Goto(p, IF work[p].kind = "cutoff" THEN "cutoffs" ELSE "usage")
            /\ handled' = [handled EXCEPT ![p] =
                    IF work[p].kind = "cutoff" THEN @ \cup {work[p].session} ELSE @]
            /\ work' = [work EXCEPT ![p] = Nil] /\ shot' = [shot EXCEPT ![p] = 0]
            /\ UNCHANGED <<now, todo>>
    /\ UNCHANGED <<clock, transcript, usage, policy, markers, scanner, budgets, undone, woken>>

\* An effect that raises gives its claim back and ends the monitor, not the pass.
GiveBack(p) ==
    /\ markers' = markers \ {Key(work[p])}
    /\ IF work[p].kind = "hand" THEN Stop(p)
       ELSE /\ Goto(p, "scan")
            /\ todo' = [todo EXCEPT ![p] = {}]
            /\ work' = [work EXCEPT ![p] = Nil] /\ shot' = [shot EXCEPT ![p] = 0]
            /\ UNCHANGED <<now, handled>>
    /\ UNCHANGED <<clock, transcript, usage, policy, jobs, scanner, drawn, crashes, woken>>
Raise(p) ==
    /\ pc[p] \in {"snapshot", "append", "notify"}
    /\ GiveBack(p)
    /\ UNCHANGED <<events, acts>>

\* A reminder is printed before the desktop notification, which may time out.
NotifyTimesOut(p) ==
    /\ pc[p] = "notify" /\ Happens
    /\ Act(work[p])
    /\ undone' = [undone EXCEPT ![Key(work[p])] = @ + 1]
    /\ GiveBack(p)

-----------------------------------------------------------------------------
\* Scanning: copies of the due jobs, each checked, delivered and updated.

\* Mutant: the lock does not exclude.
LockFreeAlways == TRUE
LockFree == scanner = Nil
StartScan(p) ==
    /\ pc[p] = "scan" \/ (pc[p] = "usage" /\ todo[p] = {})
    /\ IF LockFree
       THEN /\ scanner' = p
            /\ Goto(p, "jobs")
            /\ now' = [now EXCEPT ![p] = clock]
            /\ todo' = [todo EXCEPT ![p] = {j \in jobs : j.at <= clock}]
            /\ handled' = [handled EXCEPT ![p] = {}]
            /\ UNCHANGED <<work, shot>>
       ELSE Stop(p) /\ UNCHANGED scanner
    /\ UNCHANGED <<clock, transcript, usage, policy, store, budgets, acts, woken>>

Progressed(j) == transcript[j.session].length # j.state
\* The evidence that a conditional job needs at its delivery.
NoEvidence(j) == j.level = "interrupted" /\ transcript[j.session].last # "refusal"
\* A transcript that cannot be read is tried again later.
Check(p) ==
    /\ pc[p] = "jobs"
    /\ \E j \in todo[p] :
        /\ work' = [work EXCEPT ![p] = j]
        /\ todo' = [todo EXCEPT ![p] = @ \ {j}]
        /\ \/ Goto(p, "retry")
           \/ Goto(p, IF Progressed(j) \/ NoEvidence(j) THEN "drop" ELSE "deliver")
    /\ UNCHANGED <<clock, transcript, usage, policy, scanner, store, now, handled, shot,
                   budgets, acts, woken>>

\* The provider's resume command: it may fail with or without an effect.
Deliver(p) ==
    /\ pc[p] = "deliver"
    /\ LET s == work[p].session IN
       \/ Goto(p, "retry") /\ UNCHANGED <<transcript, woken>>
       \/ /\ \E next \in {"drop", "retry"} : Goto(p, next)
          /\ transcript' = Grown(s, 1, transcript[s].reset, "turn")
          /\ woken' = [woken EXCEPT ![s] = transcript[s].length + 1]
    /\ UNCHANGED <<clock, usage, policy, scanner, store, now, todo, handled, work, shot,
                   budgets, acts>>

\* update_job replaces or removes the job with the ID, and only that one.
\* Mutants: a failed delivery is forgotten; it stays due.
RetriedNever(p) == {}
RetriedAtOnce(p) == {[work[p] EXCEPT !.at = now[p]]}
Retried(p) == {[work[p] EXCEPT !.at = now[p] + RetryDelay]}
UpdateJob(p) ==
    IF \E j \in jobs : j.id = work[p].id
    THEN {j \in jobs : j.id # work[p].id} \cup IF pc[p] = "retry" THEN Retried(p) ELSE {}
    ELSE jobs
Settle(p) ==
    /\ pc[p] \in {"drop", "retry"}
    /\ jobs' = UpdateJob(p)
    /\ Goto(p, "jobs")
    /\ work' = [work EXCEPT ![p] = Nil]
    /\ UNCHANGED <<clock, transcript, usage, policy, markers, scanner, drawn, now, todo, handled,
                   shot, budgets, acts, woken>>

EndScan(p) ==
    /\ pc[p] = "jobs" /\ todo[p] = {}
    /\ scanner' = Nil
    /\ Stop(p)
    /\ UNCHANGED <<clock, transcript, usage, policy, store, budgets, acts, woken>>

\* A death releases the scanner lock; the provider command dies with its pass.
Crash(p) ==
    /\ pc[p] # "idle" /\ crashes < MaxCrashes /\ crashes' = crashes + 1
    /\ scanner' = IF scanner = p THEN Nil ELSE scanner
    /\ Stop(p)
    /\ UNCHANGED <<clock, transcript, usage, policy, store, events, acts, woken>>

-----------------------------------------------------------------------------
Pass(p) ==
    \/ StartPass(p) \/ ClaimCutoff(p) \/ ReadUsage(p) \/ ClaimUsage(p) \/ Notify(p)
    \/ NotifyTimesOut(p) \/ Snapshot(p) \/ Append(p) \/ Raise(p)
    \/ StartScan(p) \/ Check(p) \/ Deliver(p) \/ Settle(p) \/ EndScan(p)
Next ==
    \/ Tick
    \/ \E s \in Sessions :
          \/ Turn(s) \/ Refuse(s) \/ SelfContinue(s) \/ GiveUp(s)
          \/ Measure(s) \/ SetAutoSchedule(s)
    \/ \E p \in Procs : Pass(p) \/ ScheduleByHand(p) \/ Crash(p)
Spec == Init /\ [][Next]_vars

\* The persistent timer starts passes for ever, and a process that does not die
\* goes on.
FairSpec == Spec /\ \A p \in Procs : WF_vars(Pass(p))
-----------------------------------------------------------------------------
Jobs == [id : Nat, session : Sessions, at : Nat, state : Nat, level : Levels]
Observations == [kind : Kinds, session : Sessions, reset : Resets, level : Levels]
Events == [kind : Kinds \cup {"hand"}, session : Sessions, reset : Resets, level : Levels]
Scanning == {"jobs", "deliver", "drop", "retry"}
Acting == {"snapshot", "append", "notify"}

(* Every variable stays in its range, and a process holds what its step      *)
(* works on.                                                                 *)
WakeupTypeOK ==
    /\ clock \in 1..MaxClock
    /\ transcript \in [Sessions -> [length : Nat, reset : {0} \cup Resets,
                                    last : {"turn", "refusal", "armed"}]]
    /\ usage \in [Sessions -> {0} \cup Resets] /\ policy \in [Sessions -> Levels]
    /\ markers \subseteq Keys /\ jobs \subseteq Jobs /\ scanner \in Procs \cup {Nil}
    /\ pc \in [Procs -> {"idle", "cutoffs", "usage", "scan"} \cup Acting \cup Scanning]
    /\ now \in [Procs -> Nat] /\ handled \in [Procs -> SUBSET Sessions]
    /\ todo \in [Procs -> SUBSET (Jobs \cup Observations)]
    /\ work \in [Procs -> Jobs \cup Events \cup {Nil}] /\ shot \in [Procs -> Nat]
    /\ \A p \in Procs :
        /\ pc[p] \in Acting => work[p] \in Events
        /\ pc[p] \in {"deliver", "drop", "retry"} => work[p] \in Jobs
        /\ todo[p] \subseteq IF pc[p] \in Scanning THEN Jobs ELSE Observations
    /\ drawn \in Nat /\ events \in Nat /\ crashes \in Nat
    /\ acted \in [Keys -> Nat] /\ undone \in [Keys -> Nat] /\ woken \in [Sessions -> Nat]

ResumesFreshly == \A s \in Sessions : woken'[s] # woken[s] =>
    \E p \in Procs : pc[p] = "deliver" /\ work[p].session = s /\ work[p].state >= woken[s]
(* A session is never resumed for a job that was scheduled before its last   *)
(* resumption, whatever deaths, failures and other jobs came between         *)
(* (_run_locked_due: progress suppresses delivery; run_due: one scanner).    *)
NoSecondWakeup == [][ResumesFreshly]_vars

(* However many passes observe an event, die or fail, it schedules at most   *)
(* one wakeup, and it reminds once more only where a notification timed out  *)
(* after the reminder was shown (monitor_usage, _default_notifier).          *)
EventActsOnce == \A k \in Keys :
    /\ acted[k] <= 1 + undone[k]
    /\ undone[k] > 0 => k[1] = "reminded"

LeavesForCause == \A j \in jobs :
    (\A k \in jobs' : k.id # j.id) => Progressed(j) \/ j.level = "interrupted"
(* A job leaves the queue only when its session has gone on, by itself or    *)
(* resumed, unless it is conditional on evidence: failed deliveries,         *)
(* concurrent additions and deaths lose none (update_job, _retry).           *)
JobsLeaveForCause == [][LeavesForCause]_vars

(* A refusal that is still unanswered and that the monitor has marked as     *)
(* handled has a job which its delivery will not drop as outdated            *)
(* (_schedule_cutoffs: one wakeup per session whose refusal is unanswered).  *)
MarkedRefusalHasWakeup ==
    (\A p \in Procs : pc[p] = "idle") =>
        \A s \in Sessions :
            policy[s] # "none" /\ transcript[s].last = "refusal"
            /\ <<"cutoff", s, transcript[s].reset>> \in markers
                => \E j \in jobs : j.session = s /\ ~Progressed(j)

(* A due job is sooner or later delivered, dropped or put off, although      *)
(* scanners refuse to wait for each other and may die.                       *)
Due(s) == \E j \in jobs : j.session = s /\ j.at <= clock
DueJobsAreAttended == \A s \in Sessions : Due(s) ~> ~Due(s)
=============================================================================
