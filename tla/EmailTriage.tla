------------------------------ MODULE EmailTriage ------------------------------
(***************************************************************************)
(* Triage runs over one mailbox (skills/email-triage/_rtx).  A run is an   *)
(* agent that follows instructions/triage.md: it asks for the cutoff,      *)
(* fetches the mail after the watermark, files each message, and finalizes *)
(* the run, retrying when a call dies under it.  Two files outlive a run:  *)
(* the watermark "last_run" and status.json, each read and rewritten by    *)
(* processes that take no lock.                                            *)
(*                                                                         *)
(* Each run is named by the run ID it mints.  Time is a bounded clock, and *)
(* a message is dated by the instant of its delivery; the day-level cutoff *)
(* of get_cutoff, never later than the exact one, filters nothing more and *)
(* is left out, and so are the metrics, the log and the accounts.          *)
(***************************************************************************)
EXTENDS Naturals, FiniteSets

CONSTANTS
    Runs,           \* triage runs, each with a run ID of its own
    Mails,          \* messages that may be delivered
    MaxClock,       \* bound on the instants of a behaviour
    Lookback,       \* instants that load_cutoff goes back without a watermark
    Overlapping,    \* may a run start while another one is under way?
    Nil, NoMark

ASSUME TriageAssumption ==
    /\ MaxClock \in Nat \ {0} /\ Lookback \in Nat
    /\ Overlapping \in BOOLEAN
    /\ Nil \notin Runs /\ Nil \notin Nat /\ NoMark \notin Nat

VARIABLES
    clock,
    date,       \* Date of a delivered message, Nil without one; 0 undelivered
    watermark,  \* the file last_run: absent or an instant
    status,     \* the file status.json
    pc,         \* where the agent of a run is in its instructions
    call,       \* where its call of finalize_run is
    seen,       \* the status that this call read last, and the instant it took
    listed,     \* envelopes that mail-list returned to the run
    inbox,      \* envelopes that the filter kept and that are not filed yet
    handled,    \* messages that some run has filed
    fetched, window, failed, advanced, torn, wrote

\* History variables, read by no action: messages that some run was shown, the
\* cutoff of the latest run that filtered without a watermark, runs that recorded a
\* failure, how often a run moved the watermark, runs whose finalization died
\* between its last two writes, and the run during which status.json was written
\* last (its modification time).
history == <<fetched, window, failed, advanced, torn, wrote>>
triage == <<pc, call, seen, listed, inbox, handled>>
vars == <<clock, date, watermark, status, pc, call, seen, listed, inbox, handled,
          fetched, window, failed, advanced, torn, wrote>>

Instants == 1..MaxClock
Results == {"none", "ok", "pending", "warning", "error"}
Status == [result : Results, run : Runs \cup {Nil}, at : Instants \cup {Nil}]
\* What a missing status.json is read as.
NoStatus == [result |-> "none", run |-> Nil, at |-> Nil]

Init ==
    /\ clock = 1
    /\ date = [m \in Mails |-> 0]
    /\ watermark \in {NoMark, 0}
    /\ status = NoStatus
    /\ pc = [r \in Runs |-> "new"]
    /\ call = [r \in Runs |-> "none"]
    /\ seen = [r \in Runs |-> [status |-> NoStatus, now |-> 1]]
    /\ listed = [r \in Runs |-> {}]
    /\ inbox = [r \in Runs |-> {}]
    /\ handled = {} /\ fetched = {} /\ window = 0 /\ failed = {} /\ torn = {}
    /\ advanced = [r \in Runs |-> 0]
    /\ wrote = Nil

Active(r) == pc[r] \notin {"new", "ended"}
Goto(r, at) == pc' = [pc EXCEPT ![r] = at]
CallGoto(r, at) == call' = [call EXCEPT ![r] = at]
WriteStatus(s, r) == status' = s /\ wrote' = r

-----------------------------------------------------------------------------
\* The environment: time, the mail server, and the operator between runs.

Tick ==
    /\ clock < MaxClock
    /\ clock' = clock + 1
    /\ UNCHANGED <<date, watermark, status, triage, history>>

Deliver(m) ==
    /\ date[m] = 0
    /\ \E d \in {clock, Nil} : date' = [date EXCEPT ![m] = d]
    /\ UNCHANGED <<clock, watermark, status, triage, history>>

\* clear_failure rewrites the whole file, whatever the operator's reason.
ClearFailure ==
    /\ status.result = "error" /\ \A r \in Runs : ~Active(r)
    /\ WriteStatus([NoStatus EXCEPT !.result = "ok"], Nil)
    /\ UNCHANGED <<clock, date, watermark, triage, fetched, window, failed, advanced, torn>>

-----------------------------------------------------------------------------
\* Fetching.

StartRun(r) ==
    /\ pc[r] = "new" /\ (Overlapping \/ \A q \in Runs : ~Active(q))
    /\ Goto(r, "cutoff")
    /\ UNCHANGED <<clock, date, watermark, status, call, seen, listed, inbox, handled, history>>

\* record_warning merges, so that the replay guard survives.
Warned(s) == IF watermark = NoMark THEN [s EXCEPT !.result = "warning"] ELSE s

\* get_cutoff, with the warning of an absent watermark.
GetCutoff(r) ==
    /\ pc[r] = "cutoff"
    /\ Goto(r, "list")
    /\ IF watermark = NoMark THEN WriteStatus(Warned(status), r) ELSE UNCHANGED <<status, wrote>>
    /\ UNCHANGED <<clock, date, watermark, call, seen, listed, inbox, handled,
                   fetched, window, failed, advanced, torn>>

\* fetch-filtered-envelopes lists the mail first and then reads the watermark.
ListMail(r) ==
    /\ pc[r] = "list"
    /\ listed' = [listed EXCEPT ![r] = {m \in Mails : date[m] # 0}]
    /\ Goto(r, "filter")
    /\ UNCHANGED <<clock, date, watermark, status, call, seen, inbox, handled, history>>

\* clear_stale_error: the reset claims no success.
Unlatched(s) == IF s.result = "error" THEN [s EXCEPT !.result = "pending"] ELSE s
\* load_cutoff and filter_envelopes; an undated message is always kept.
Cutoff == IF watermark = NoMark
          THEN IF clock > Lookback THEN clock - Lookback ELSE 0 ELSE watermark
Kept(S) == {m \in S : date[m] = Nil \/ (date[m] # Nil /\ date[m] > Cutoff)}

FilterEnvelopes(r) ==
    /\ pc[r] = "filter"
    /\ LET s == Warned(Unlatched(status))
       IN IF s = status /\ watermark # NoMark THEN UNCHANGED <<status, wrote>>
          ELSE WriteStatus(s, r)
    /\ Goto(r, "file")
    /\ inbox' = [inbox EXCEPT ![r] = Kept(listed[r])]
    /\ fetched' = fetched \cup Kept(listed[r])
    /\ window' = IF watermark = NoMark THEN Cutoff ELSE window
    /\ UNCHANGED <<clock, date, watermark, call, seen, listed, handled,
                   failed, advanced, torn>>

-----------------------------------------------------------------------------
\* Filing; a message that is filed already is recognised as a duplicate.

File(r, m) ==
    /\ pc[r] = "file" /\ call[r] = "none" /\ m \in inbox[r]
    /\ handled' = handled \cup {m}
    /\ inbox' = [inbox EXCEPT ![r] = @ \ {m}]
    /\ UNCHANGED <<clock, date, watermark, status, pc, call, seen, listed, history>>

\* mark_failure after a failed addition rewrites the whole file.  Mutant: it warns.
FailureWarning == [NoStatus EXCEPT !.result = "warning"]
FailureStatus == [NoStatus EXCEPT !.result = "error"]
MarkFailure(r) ==
    /\ pc[r] = "file" /\ call[r] = "none" /\ inbox[r] # {}
    /\ WriteStatus(FailureStatus, r)
    /\ failed' = failed \cup {r}
    /\ Goto(r, "marked")
    /\ UNCHANGED <<clock, date, watermark, call, seen, listed, inbox, handled,
                   fetched, window, advanced, torn>>

-----------------------------------------------------------------------------
\* Finalizing, a step per read and per write of a file.

\* finalize_run and the read of write_metrics.  An agent finalizes when all is
\* filed, again when it is unsure, and wrongly after it has marked a failure.
Finalize(r) ==
    /\ call[r] = "none"
    /\ pc[r] = "marked" \/ (pc[r] = "file" /\ inbox[r] = {})
    /\ status.run # r
    /\ seen' = [seen EXCEPT ![r] = [status |-> status, now |-> clock]]
    /\ CallGoto(r, "metrics")
    /\ UNCHANGED <<clock, date, watermark, status, pc, listed, inbox, handled, history>>

\* write_metrics demotes the "ok" of an earlier run.  Mutant: it keeps it.
DemotedNot(s) == s
Demoted(s) == IF s.result = "ok" THEN [s EXCEPT !.result = "pending"] ELSE s
WriteMetrics(r) ==
    /\ call[r] = "metrics"
    /\ WriteStatus(Demoted(seen[r].status), r)
    /\ CallGoto(r, "advance")
    /\ UNCHANGED <<clock, date, watermark, pc, seen, listed, inbox, handled,
                   fetched, window, failed, advanced, torn>>

\* watermark_writer up to its first write.  Mutant: a latched error is no obstacle.
RefusesNothing(s, r) == s.run = r
Refuses(s, r) == s.result = "error" \/ s.run = r
CheckLatch(r) ==
    /\ call[r] = "advance"
    /\ IF Refuses(status, r)
       THEN CallGoto(r, "none") /\ UNCHANGED seen
       ELSE /\ seen' = [seen EXCEPT ![r] = [status |-> status, now |-> clock]]
            /\ CallGoto(r, "commit")
    /\ UNCHANGED <<clock, date, watermark, status, pc, listed, inbox, handled, history>>

\* Mutants: the run ID is not committed; the first instant is kept.
CommittedAnonymously(r) ==
    [seen[r].status EXCEPT !.result = "ok", !.at = seen[r].now]
CommittedStale(r) ==
    [seen[r].status EXCEPT !.result = "ok", !.at = IF @ = Nil THEN seen[r].now ELSE @,
                           !.run = r]
Committed(r) ==
    [seen[r].status EXCEPT !.result = "ok", !.at = seen[r].now, !.run = r]
CommitStatus(r) ==
    /\ call[r] = "commit"
    /\ WriteStatus(Committed(r), r)
    /\ CallGoto(r, "stamp")
    /\ UNCHANGED <<clock, date, watermark, pc, seen, listed, inbox, handled,
                   fetched, window, failed, advanced, torn>>

\* Mutant: the instant of the status that was read.
StampOfRead(r) == seen[r].status.at
Stamp(r) == seen[r].now
StampWatermark(r) ==
    /\ call[r] = "stamp"
    /\ watermark' = Stamp(r)
    /\ advanced' = [advanced EXCEPT ![r] = @ + 1]
    /\ CallGoto(r, "none")
    /\ UNCHANGED <<clock, date, status, pc, seen, listed, inbox, handled,
                   fetched, window, failed, torn, wrote>>

\* The call dies before its next write; the agent may retry.
CrashCall(r) ==
    /\ call[r] # "none"
    /\ CallGoto(r, "none")
    /\ torn' = IF call[r] = "stamp" THEN torn \cup {r} ELSE torn
    /\ UNCHANGED <<clock, date, watermark, status, pc, seen, listed, inbox, handled,
                   fetched, window, failed, advanced, wrote>>

\* The run stops: finished, failed, or killed at any step of its instructions.
EndRun(r) ==
    /\ Active(r) /\ call[r] = "none"
    /\ Goto(r, "ended")
    /\ UNCHANGED <<clock, date, watermark, status, call, seen, listed, inbox, handled, history>>

-----------------------------------------------------------------------------
Step(r) ==
    \/ StartRun(r) \/ GetCutoff(r) \/ ListMail(r) \/ FilterEnvelopes(r)
    \/ MarkFailure(r) \/ Finalize(r) \/ WriteMetrics(r) \/ CheckLatch(r)
    \/ CommitStatus(r) \/ StampWatermark(r) \/ CrashCall(r) \/ EndRun(r)
    \/ \E m \in Mails : File(r, m)
Next ==
    \/ Tick \/ ClearFailure
    \/ \E m \in Mails : Deliver(m)
    \/ \E r \in Runs : Step(r)
Spec == Init /\ [][Next]_vars
-----------------------------------------------------------------------------
Dated(m) == date[m] \in Instants
Marks == {NoMark} \cup 0..MaxClock

(* Every variable stays in its range.                                        *)
TriageTypeOK ==
    /\ clock \in Instants
    /\ date \in [Mails -> {0, Nil} \cup Instants]
    /\ watermark \in Marks
    /\ status \in Status
    /\ pc \in [Runs -> {"new", "cutoff", "list", "filter", "file", "marked", "ended"}]
    /\ call \in [Runs -> {"none", "metrics", "advance", "commit", "stamp"}]
    /\ seen \in [Runs -> [status : Status, now : Instants]]
    /\ listed \in [Runs -> SUBSET Mails] /\ inbox \in [Runs -> SUBSET Mails]
    /\ handled \subseteq Mails /\ fetched \subseteq Mails /\ window \in 0..MaxClock
    /\ failed \subseteq Runs /\ torn \subseteq Runs
    /\ advanced \in [Runs -> Nat] /\ wrote \in Runs \cup {Nil}

(* A message that any run was shown, the runs that failed or died included,  *)
(* falls behind the watermark only when it is filed, or when it had left the *)
(* default lookback of the latest run that found no watermark: such a window *)
(* moves with the clock, so the failures of the first runs do not keep it    *)
(* over what they did not file, as triage.md, Step 6, says of every failure; *)
(* once there is a watermark they do (load_cutoff).                          *)
FetchedMailKept ==
    watermark \in Nat =>
        \A m \in fetched :
            Dated(m) /\ window < date[m] /\ date[m] <= watermark => m \in handled

(* No delivered message falls behind the watermark without being filed       *)
(* (_watermark_writer: no failure mode silently skips mail).                 *)
NoMailSkipped ==
    watermark \in Nat =>
        \A m \in Mails : Dated(m) /\ date[m] <= watermark => m \in handled

(* A run that recorded a failure never moves the watermark, even when its    *)
(* agent goes on to finalize it, once or repeatedly (_failure_sentinel).     *)
FailedRunNeverAdvances == \A r \in failed : advanced[r] = 0

(* However often a run is finalized, across crashes of its calls, it moves   *)
(* the watermark at most once (_finalize_run, replay safety).                *)
RunAdvancesOnce == \A r \in Runs : advanced[r] <= 1

(* An "ok" written during a run is the scheduler's proof that this very run  *)
(* finished: its ID is committed, nothing it fetched is left unfiled, and    *)
(* the watermark stands at the instant committed.  The code writes the "ok"  *)
(* first, so the last does not hold while the call is between its two writes *)
(* and, when it died there, until a later run (_watermark_writer;            *)
(* _write_metrics and clear_stale_error say that the watermark comes first). *)
FreshOkIsFinished ==
    status.result = "ok" /\ wrote \in Runs =>
        /\ status.run = wrote /\ inbox[wrote] = {}
        /\ watermark = status.at \/ call[wrote] = "stamp" \/ wrote \in torn

(* The watermark file is no later than the instant that the last commit      *)
(* claims: a crash between the writes can only make it lag                   *)
(* (_watermark_writer: the safe direction).                                  *)
CrashOnlyLags ==
    status.at # Nil /\ watermark # NoMark => watermark <= status.at
=============================================================================
