-------------------------- MODULE EmailTriage_proofs --------------------------
(***************************************************************************)
(* Theorems about EmailTriage, for every set of runs and messages and      *)
(* every bound: the variables' types, and, when runs do not overlap, that  *)
(* no mail that a run was shown is lost but by the default lookback, a     *)
(* failed run never moves the watermark, no run moves it twice, a crash    *)
(* only makes the watermark lag, and a fresh "ok" is of a finished run.    *)
(***************************************************************************)
EXTENDS EmailTriage, TLAPS

\* What the theorems assume beyond TriageAssumption: runs follow one another.
Consecutive == ~Overlapping

\* At most one run is under way, and only it is inside a call.
Alone ==
    /\ \A q, r \in Runs : Active(q) /\ Active(r) => q = r
    /\ \A r \in Runs : call[r] # "none" => pc[r] \in {"file", "marked"}

\* The run under way has listed, and then holds, whatever is owed: the messages
\* that some run was shown, no default lookback has left behind and none has filed.
Owed(m) == m \in fetched /\ Dated(m) /\ window < date[m] /\ m \notin handled
OwedIsHeld ==
    /\ \A m \in fetched : date[m] # 0
    /\ \A r \in Runs : pc[r] = "filter" => fetched \subseteq listed[r]
    /\ \A r \in Runs : pc[r] = "file" => \A m \in Mails : Owed(m) => m \in inbox[r]
    /\ \A r \in Runs : pc[r] = "file" /\ call[r] # "none" => inbox[r] = {}

\* A recorded failure stays latched until its run has ended.
FailureIsLatched == \A r \in Runs :
    /\ pc[r] = "marked" =>
          /\ status.result = "error"
          /\ call[r] \in {"none", "metrics", "advance"}
          /\ call[r] = "metrics" => seen[r].status.result = "error"
    /\ r \in failed => pc[r] \in {"marked", "ended"}

\* A run that has moved the watermark has filed everything and is the one that
\* the replay guard names; a call past the guard belongs to one that has not.
AdvanceIsGuarded == \A r \in Runs :
    /\ advanced[r] > 0 => pc[r] \in {"file", "ended"} /\ inbox[r] = {}
    /\ advanced[r] > 0 /\ Active(r) => status.run = r
    /\ call[r] # "none" => advanced[r] = 0
    /\ call[r] = "stamp" => status.run = r

IInv == /\ TriageTypeOK /\ Alone /\ OwedIsHeld /\ FailureIsLatched /\ AdvanceIsGuarded
        /\ FetchedMailKept /\ FailedRunNeverAdvances /\ RunAdvancesOnce

\* What the two files say, relative to IInv.  No instant on record is in the
\* future; a call that is about to write has read the status as it is; the commit
\* covers the old watermark and claims the instant that is stamped next; and an
\* "ok" is of a run that got as far as filing.
ClockLeads ==
    /\ \A r \in Runs : seen[r].now <= clock
    /\ status.at # Nil => status.at <= clock
    /\ watermark # NoMark => watermark <= clock
SeenIsCurrent == \A r \in Runs : call[r] \in {"metrics", "commit"} => seen[r].status = status
CommitCovers == \A r \in Runs :
    /\ (call[r] = "commit" /\ watermark # NoMark => watermark <= seen[r].now)
    /\ (call[r] = "stamp" => status.at = seen[r].now)
OkIsOfAFiler == status.result = "ok" /\ wrote \in Runs => pc[wrote] \in {"file", "ended"}
FilesInv == /\ ClockLeads /\ SeenIsCurrent /\ CommitCovers /\ OkIsOfAFiler
            /\ CrashOnlyLags /\ FreshOkIsFinished

-----------------------------------------------------------------------------
(* Before the first run nothing is owed, failed or under way.                *)
LEMMA InitInv == Init => IInv
BY TriageAssumption DEF Init, IInv, TriageTypeOK, Alone, OwedIsHeld, FailureIsLatched,
   AdvanceIsGuarded, FetchedMailKept, FailedRunNeverAdvances, RunAdvancesOnce, Active,
   Owed, Dated, Status, NoStatus, Results, Instants, Marks

(* The environment's steps: no run is under way in ClearFailure, and a new   *)
(* message is in no inbox.                                                   *)
LEMMA EnvironmentInv ==
    ASSUME IInv, Tick \/ ClearFailure \/ \E m \in Mails : Deliver(m)
    PROVE  IInv'
<1>1. CASE Tick
  BY <1>1, TriageAssumption DEF Tick, triage, history, IInv, TriageTypeOK, Alone, OwedIsHeld,
     FailureIsLatched, AdvanceIsGuarded, FetchedMailKept, FailedRunNeverAdvances,
     RunAdvancesOnce, Active, Owed, Dated, Instants, Marks
<1>2. CASE ClearFailure
  <2>1. status' \in Status /\ wrote' \in Runs \cup {Nil}
    BY <1>2 DEF ClearFailure, WriteStatus, NoStatus, Status, Results
  <2>2. UNCHANGED <<clock, date, watermark, triage, fetched, window, failed, advanced, torn>>
        /\ \A r \in Runs : ~Active(r)
    BY <1>2 DEF ClearFailure
  <2> QED
    BY <2>1, <2>2 DEF triage, IInv, TriageTypeOK, Alone, OwedIsHeld,
       FailureIsLatched, AdvanceIsGuarded, FetchedMailKept, FailedRunNeverAdvances,
       RunAdvancesOnce, Active, Owed, Dated
<1>3. ASSUME NEW m \in Mails, Deliver(m) PROVE IInv'
  <2>1. date' \in [Mails -> {0, Nil} \cup Instants] /\ m \notin fetched
        /\ \A n \in Mails : n # m => date'[n] = date[n]
    BY <1>3 DEF Deliver, IInv, TriageTypeOK, OwedIsHeld
  <2> QED
    BY <1>3, <2>1 DEF Deliver, triage, history, IInv, TriageTypeOK, Alone, OwedIsHeld,
       FailureIsLatched, AdvanceIsGuarded, FetchedMailKept, FailedRunNeverAdvances,
       RunAdvancesOnce, Active, Owed, Dated
<1> QED BY <1>1, <1>2, <1>3

(* While a run is under way every other one is outside its instructions.     *)
LEMMA OthersRest ==
    ASSUME IInv, NEW r \in Runs, Active(r)
    PROVE  \A q \in Runs : q # r => pc[q] \in {"new", "ended"} /\ call[q] = "none"
<1> SUFFICES ASSUME NEW q \in Runs, q # r
             PROVE  pc[q] \in {"new", "ended"} /\ call[q] = "none"
  OBVIOUS
<1>1. ~Active(q)
  BY DEF IInv, Alone
<1>2. call[q] \in {"none", "metrics", "advance", "commit", "stamp"}
  BY DEF IInv, TriageTypeOK
<1> QED BY <1>1, <1>2 DEF IInv, Alone, Active

(* Fetching: a run starts alone and takes into its inbox all that is owed.   *)
LEMMA FetchInv ==
    ASSUME IInv, Consecutive, NEW r \in Runs,
           StartRun(r) \/ GetCutoff(r) \/ ListMail(r) \/ FilterEnvelopes(r)
    PROVE  IInv'
<1>1. CASE StartRun(r)
  <2>1. \A q \in Runs : ~Active(q) /\ call[q] = "none"
    BY <1>1 DEF StartRun, Consecutive, IInv, Alone, Active, TriageTypeOK
  <2>2. pc' = [pc EXCEPT ![r] = "cutoff"] /\ pc[r] = "new"
    BY <1>1 DEF StartRun, Goto
  <2> QED
    BY <1>1, <2>1, <2>2 DEF StartRun, history, IInv, TriageTypeOK, Alone, OwedIsHeld,
       FailureIsLatched, AdvanceIsGuarded, FetchedMailKept, FailedRunNeverAdvances,
       RunAdvancesOnce, Active, Owed, Dated
<1>2. CASE GetCutoff(r)
  <2>1. status' \in Status /\ wrote' \in Runs \cup {Nil}
    BY <1>2 DEF GetCutoff, WriteStatus, Warned, Status, Results, IInv, TriageTypeOK
  <2>2. pc' = [pc EXCEPT ![r] = "list"] /\ pc[r] = "cutoff"
    BY <1>2 DEF GetCutoff, Goto
  <2>3. \A q \in Runs : q # r => pc[q] \in {"new", "ended"} /\ call[q] = "none"
    BY <2>2, OthersRest DEF Active
  <2> QED
    BY <1>2, <2>1, <2>2, <2>3 DEF GetCutoff, IInv, TriageTypeOK, Alone, OwedIsHeld,
       FailureIsLatched, AdvanceIsGuarded, FetchedMailKept, FailedRunNeverAdvances,
       RunAdvancesOnce, Active, Owed, Dated
<1>3. CASE ListMail(r)
  <2>1. pc' = [pc EXCEPT ![r] = "filter"] /\ pc[r] = "list"
    BY <1>3 DEF ListMail, Goto
  <2>2. \A q \in Runs : q # r => pc[q] \in {"new", "ended"} /\ call[q] = "none"
    BY <2>1, OthersRest DEF Active
  <2>3. listed' \in [Runs -> SUBSET Mails] /\ fetched \subseteq listed'[r]
    BY <1>3 DEF ListMail, IInv, TriageTypeOK, OwedIsHeld
  <2> QED
    BY <1>3, <2>1, <2>2, <2>3 DEF ListMail, history, IInv, TriageTypeOK, Alone, OwedIsHeld,
       FailureIsLatched, AdvanceIsGuarded, FetchedMailKept, FailedRunNeverAdvances,
       RunAdvancesOnce, Active, Owed, Dated
<1>4. CASE FilterEnvelopes(r)
  <2>1. pc' = [pc EXCEPT ![r] = "file"] /\ pc[r] = "filter"
    BY <1>4 DEF FilterEnvelopes, Goto
  <2>2. \A q \in Runs : q # r => pc[q] \in {"new", "ended"} /\ call[q] = "none"
    BY <2>1, OthersRest DEF Active
  <2>3. status' \in Status /\ wrote' \in Runs \cup {Nil}
    <3>1. status \in Status /\ wrote \in Runs \cup {Nil}
      BY DEF IInv, TriageTypeOK
    <3>2. Unlatched(status) \in Status
      BY <3>1 DEF Unlatched, Status, Results
    <3>3. Warned(Unlatched(status)) \in Status
      BY <3>2 DEF Warned, Status, Results
    <3> QED BY <1>4, <3>1, <3>3 DEF FilterEnvelopes, WriteStatus
  <2>4. Kept(listed[r]) \subseteq Mails /\ \A m \in Kept(listed[r]) : date[m] # 0
    <3>1. listed[r] \subseteq Mails /\ clock \in Nat /\ watermark \in Marks
      BY DEF IInv, TriageTypeOK, Instants
    <3>2. Cutoff \in Nat
      BY <3>1, TriageAssumption DEF Cutoff, Marks
    <3> QED BY <3>1, <3>2, TriageAssumption DEF Kept
  <2>5. ASSUME NEW m \in Mails, m \in fetched, Dated(m), window' < date[m], m \notin handled
        PROVE  m \in Kept(listed[r])
    <3>1. /\ clock \in 1..MaxClock /\ watermark \in Marks /\ date[m] \in 1..MaxClock
          /\ window' = IF watermark = NoMark THEN Cutoff ELSE window
      BY <1>4, <2>5 DEF FilterEnvelopes, IInv, TriageTypeOK, Instants, Dated
    <3>2. m \in listed[r]
      BY <2>1, <2>5 DEF IInv, OwedIsHeld
    <3>3. date[m] > Cutoff
      <4>1. CASE watermark = NoMark
        BY <2>5, <3>1, <4>1, TriageAssumption DEF Cutoff
      <4>2. CASE watermark # NoMark
        BY <2>5, <3>1, <4>2, TriageAssumption DEF Cutoff, Marks, IInv, FetchedMailKept
      <4> QED BY <4>1, <4>2
    <3>4. date[m] # Nil
      BY <3>1, TriageAssumption
    <3> QED BY <3>2, <3>3, <3>4 DEF Kept
  <2>6. inbox' = [inbox EXCEPT ![r] = Kept(listed[r])]
        /\ fetched' = fetched \cup Kept(listed[r])
        /\ window' \in {window, Cutoff} /\ (watermark # NoMark => window' = window)
        /\ UNCHANGED <<clock, date, watermark, call, seen, listed, handled, failed,
                       advanced, torn>>
    BY <1>4 DEF FilterEnvelopes
  <2>7. TriageTypeOK'
    <3>1. Cutoff \in 0..MaxClock
      BY TriageAssumption DEF Cutoff, Marks, Instants, IInv, TriageTypeOK
    <3> QED BY <2>1, <2>3, <2>4, <2>6, <3>1 DEF IInv, TriageTypeOK
  <2>8. call[r] = "none"
    BY <2>1, <2>7, <2>6 DEF IInv, Alone, TriageTypeOK
  <2>9. Alone' /\ FailureIsLatched' /\ AdvanceIsGuarded' /\ FailedRunNeverAdvances' /\ RunAdvancesOnce'
    BY <2>1, <2>2, <2>6, <2>8 DEF IInv, TriageTypeOK, Alone, FailureIsLatched,
       AdvanceIsGuarded, FailedRunNeverAdvances, RunAdvancesOnce, Active
  <2>10. OwedIsHeld'
    BY <2>1, <2>2, <2>4, <2>5, <2>6, <2>8 DEF IInv, TriageTypeOK, OwedIsHeld, Owed, Dated
  <2>11. FetchedMailKept'
    <3>1. ASSUME watermark \in Nat, NEW m \in Kept(listed[r]), Dated(m), date[m] <= watermark
          PROVE  FALSE
      BY <3>1, <2>4, TriageAssumption DEF Kept, Cutoff, Dated, Instants
    <3>2. watermark \in Nat => window' = window
      BY <2>6, TriageAssumption
    <3> QED BY <2>6, <3>1, <3>2 DEF IInv, FetchedMailKept, Dated
  <2> QED BY <2>7, <2>9, <2>10, <2>11 DEF IInv
<1> QED BY <1>1, <1>2, <1>3, <1>4

(* Filing and ending: a failure is latched before any advance, and what is   *)
(* filed is owed no longer.                                                  *)
LEMMA FileInv ==
    ASSUME IInv, NEW r \in Runs,
           MarkFailure(r) \/ EndRun(r) \/ \E m \in Mails : File(r, m)
    PROVE  IInv'
<1>1. CASE MarkFailure(r)
  <2>1. pc' = [pc EXCEPT ![r] = "marked"] /\ pc[r] = "file" /\ call[r] = "none"
        /\ inbox[r] # {} /\ failed' = failed \cup {r}
        /\ UNCHANGED <<clock, date, watermark, call, seen, listed, inbox, handled, fetched,
                       window, advanced, torn>>
    BY <1>1 DEF MarkFailure, Goto
  <2>2. \A q \in Runs : q # r => pc[q] \in {"new", "ended"} /\ call[q] = "none"
    BY <2>1, OthersRest DEF Active
  <2>3. status' \in Status /\ status'.result = "error" /\ wrote' \in Runs \cup {Nil}
    BY <1>1 DEF MarkFailure, WriteStatus, FailureStatus, NoStatus, Status, Results
  <2>4. advanced[r] = 0
    BY <2>1 DEF IInv, TriageTypeOK, AdvanceIsGuarded
  <2> QED
    BY <2>1, <2>2, <2>3, <2>4 DEF IInv, TriageTypeOK, Alone, OwedIsHeld,
       FailureIsLatched, AdvanceIsGuarded, FetchedMailKept, FailedRunNeverAdvances,
       RunAdvancesOnce, Active, Owed, Dated
<1>2. CASE EndRun(r)
  <2>1. pc' = [pc EXCEPT ![r] = "ended"] /\ Active(r) /\ call[r] = "none"
    BY <1>2 DEF EndRun, Goto
  <2>2. \A q \in Runs : q # r => pc[q] \in {"new", "ended"} /\ call[q] = "none"
    BY <2>1, OthersRest DEF Active
  <2> QED
    BY <1>2, <2>1, <2>2 DEF EndRun, history, IInv, TriageTypeOK, Alone, OwedIsHeld,
       FailureIsLatched, AdvanceIsGuarded, FetchedMailKept, FailedRunNeverAdvances,
       RunAdvancesOnce, Active, Owed, Dated
<1>3. ASSUME NEW m \in Mails, File(r, m) PROVE IInv'
  <2>1. pc[r] = "file" /\ call[r] = "none" /\ inbox' = [inbox EXCEPT ![r] = @ \ {m}]
        /\ handled' = handled \cup {m}
        /\ UNCHANGED <<clock, date, watermark, status, pc, call, seen, listed, history>>
    BY <1>3 DEF File
  <2>2. \A q \in Runs : q # r => pc[q] \in {"new", "ended"} /\ call[q] = "none"
    BY <2>1, OthersRest DEF Active
  <2> QED
    BY <2>1, <2>2 DEF history, IInv, TriageTypeOK, Alone, OwedIsHeld,
       FailureIsLatched, AdvanceIsGuarded, FetchedMailKept, FailedRunNeverAdvances,
       RunAdvancesOnce, Active, Owed, Dated
<1> QED BY <1>1, <1>2, <1>3

(* Finalizing: only a call that passed the replay guard and the latch moves  *)
(* the watermark, and by then nothing is owed.                               *)
LEMMA FinalizeInv ==
    ASSUME IInv, NEW r \in Runs,
           \/ Finalize(r) \/ WriteMetrics(r) \/ CheckLatch(r)
           \/ CommitStatus(r) \/ StampWatermark(r) \/ CrashCall(r)
    PROVE  IInv'
<1> USE DEF CallGoto
<1>1. CASE Finalize(r)
  <2>1. Active(r) /\ call[r] = "none" /\ status.run # r
        /\ (pc[r] = "marked" \/ (pc[r] = "file" /\ inbox[r] = {}))
    BY <1>1 DEF Finalize, Active
  <2>2. \A q \in Runs : q # r => pc[q] \in {"new", "ended"} /\ call[q] = "none"
    BY <2>1, OthersRest DEF Active
  <2>3. advanced[r] = 0
    BY <2>1 DEF IInv, TriageTypeOK, AdvanceIsGuarded
  <2>4. seen' = [seen EXCEPT ![r] = [status |-> status, now |-> clock]]
        /\ call' = [call EXCEPT ![r] = "metrics"]
        /\ UNCHANGED <<clock, date, watermark, status, pc, listed, inbox, handled, history>>
    BY <1>1 DEF Finalize
  <2> QED
    BY <2>1, <2>2, <2>3, <2>4 DEF history, IInv, TriageTypeOK, Alone, OwedIsHeld,
       FailureIsLatched, AdvanceIsGuarded, FetchedMailKept, FailedRunNeverAdvances,
       RunAdvancesOnce, Active, Owed, Dated
<1>2. CASE WriteMetrics(r)
  <2>1. call[r] = "metrics" /\ Active(r) /\ call' = [call EXCEPT ![r] = "advance"]
        /\ UNCHANGED <<clock, date, watermark, pc, seen, listed, inbox, handled,
                       fetched, window, failed, advanced, torn>>
    BY <1>2 DEF WriteMetrics, IInv, Alone, Active
  <2>2. \A q \in Runs : q # r => pc[q] \in {"new", "ended"} /\ call[q] = "none"
    BY <2>1, OthersRest DEF Active
  <2>3. status' \in Status /\ wrote' \in Runs \cup {Nil}
        /\ (seen[r].status.result = "error" => status'.result = "error")
    BY <1>2 DEF WriteMetrics, WriteStatus, Demoted, Status, Results, IInv, TriageTypeOK
  <2>4. TriageTypeOK' /\ Alone' /\ OwedIsHeld' /\ FetchedMailKept'
    BY <2>1, <2>2, <2>3 DEF IInv, TriageTypeOK, Alone, OwedIsHeld, FetchedMailKept,
       Active, Owed, Dated
  <2>5. FailureIsLatched' /\ AdvanceIsGuarded' /\ FailedRunNeverAdvances' /\ RunAdvancesOnce'
    BY <2>1, <2>2, <2>3 DEF IInv, TriageTypeOK, FailureIsLatched, AdvanceIsGuarded,
       FailedRunNeverAdvances, RunAdvancesOnce, Active
  <2> QED BY <2>4, <2>5 DEF IInv
<1>3. CASE CheckLatch(r)
  <2>1. call[r] = "advance" /\ Active(r)
        /\ UNCHANGED <<clock, date, watermark, status, pc, listed, inbox, handled, history>>
    BY <1>3 DEF CheckLatch, IInv, Alone, Active
  <2>2. \A q \in Runs : q # r => pc[q] \in {"new", "ended"} /\ call[q] = "none"
    BY <2>1, OthersRest DEF Active
  <2>3. \/ call' = [call EXCEPT ![r] = "none"] /\ seen' = seen
        \/ /\ call' = [call EXCEPT ![r] = "commit"] /\ status.result # "error"
           /\ seen' = [seen EXCEPT ![r] = [status |-> status, now |-> clock]]
    BY <1>3 DEF CheckLatch, Refuses
  <2>4. TriageTypeOK'
    <3>1. call' \in [Runs -> {"none", "metrics", "advance", "commit", "stamp"}]
      BY <2>3 DEF IInv, TriageTypeOK
    <3>2. seen' \in [Runs -> [status : Status, now : Instants]]
      BY <2>3 DEF IInv, TriageTypeOK
    <3> QED BY <2>1, <3>1, <3>2 DEF history, IInv, TriageTypeOK
  <2>5. Alone' /\ OwedIsHeld' /\ FetchedMailKept'
    BY <2>1, <2>2, <2>3 DEF history, IInv, TriageTypeOK, Alone, OwedIsHeld, FetchedMailKept,
       Active, Owed, Dated
  <2>6. FailureIsLatched' /\ AdvanceIsGuarded' /\ FailedRunNeverAdvances' /\ RunAdvancesOnce'
    BY <2>1, <2>2, <2>3 DEF history, IInv, TriageTypeOK, FailureIsLatched, AdvanceIsGuarded,
       FailedRunNeverAdvances, RunAdvancesOnce, Active
  <2> QED BY <2>4, <2>5, <2>6 DEF IInv
<1>4. CASE CommitStatus(r)
  <2>1. call[r] = "commit" /\ Active(r) /\ call' = [call EXCEPT ![r] = "stamp"]
        /\ UNCHANGED <<clock, date, watermark, pc, seen, listed, inbox, handled,
                       fetched, window, failed, advanced, torn>>
    BY <1>4 DEF CommitStatus, IInv, Alone, Active
  <2>2. \A q \in Runs : q # r => pc[q] \in {"new", "ended"} /\ call[q] = "none"
    BY <2>1, OthersRest DEF Active
  <2>3. status' \in Status /\ wrote' \in Runs \cup {Nil} /\ status'.run = r
    BY <1>4 DEF CommitStatus, WriteStatus, Committed, Status, Results, IInv, TriageTypeOK
  <2>4. pc[r] = "file"
    BY <2>1 DEF IInv, Alone, FailureIsLatched
  <2> QED
    BY <2>1, <2>2, <2>3, <2>4 DEF IInv, TriageTypeOK, Alone, OwedIsHeld,
       FailureIsLatched, AdvanceIsGuarded, FetchedMailKept, FailedRunNeverAdvances,
       RunAdvancesOnce, Active, Owed, Dated
<1>5. CASE StampWatermark(r)
  <2>1. call[r] = "stamp" /\ Active(r) /\ call' = [call EXCEPT ![r] = "none"]
        /\ watermark' = seen[r].now /\ advanced' = [advanced EXCEPT ![r] = @ + 1]
        /\ UNCHANGED <<clock, date, status, pc, seen, listed, inbox, handled,
                       fetched, window, failed, torn, wrote>>
    BY <1>5 DEF StampWatermark, Stamp, IInv, Alone, Active
  <2>2. \A q \in Runs : q # r => pc[q] \in {"new", "ended"} /\ call[q] = "none"
    BY <2>1, OthersRest DEF Active
  <2>3. pc[r] = "file" /\ inbox[r] = {} /\ status.run = r /\ advanced[r] = 0
    BY <2>1 DEF IInv, Alone, FailureIsLatched, AdvanceIsGuarded, OwedIsHeld
  <2>4. \A m \in fetched : Dated(m) /\ window < date[m] => m \in handled
    BY <2>3 DEF IInv, TriageTypeOK, OwedIsHeld, Owed
  <2>5. watermark' \in Marks
    BY <2>1, TriageAssumption DEF IInv, TriageTypeOK, Marks, Instants
  <2>6. r \notin failed
    BY <2>3 DEF IInv, FailureIsLatched
  <2> QED
    BY <2>1, <2>2, <2>3, <2>4, <2>5, <2>6 DEF IInv, TriageTypeOK, Alone, OwedIsHeld,
       FailureIsLatched, AdvanceIsGuarded, FetchedMailKept, FailedRunNeverAdvances,
       RunAdvancesOnce, Active, Owed, Dated
<1>6. CASE CrashCall(r)
  <2>1. Active(r) /\ call' = [call EXCEPT ![r] = "none"] /\ torn' \subseteq torn \cup {r}
        /\ UNCHANGED <<clock, date, watermark, status, pc, seen, listed, inbox, handled,
                       fetched, window, failed, advanced, wrote>>
    BY <1>6 DEF CrashCall, IInv, Alone, Active
  <2>2. \A q \in Runs : q # r => pc[q] \in {"new", "ended"} /\ call[q] = "none"
    BY <2>1, OthersRest DEF Active
  <2> QED
    BY <2>1, <2>2 DEF history, IInv, TriageTypeOK, Alone, OwedIsHeld,
       FailureIsLatched, AdvanceIsGuarded, FetchedMailKept, FailedRunNeverAdvances,
       RunAdvancesOnce, Active, Owed, Dated
<1> QED BY <1>1, <1>2, <1>3, <1>4, <1>5, <1>6

-----------------------------------------------------------------------------
(* The invariant holds throughout every behaviour of consecutive runs.       *)
LEMMA Invariance == ASSUME Consecutive PROVE Spec => []IInv
<1>1. ASSUME IInv, [Next]_vars PROVE IInv'
  <2>1. CASE Tick \/ ClearFailure \/ \E m \in Mails : Deliver(m)
    BY <1>1, <2>1, EnvironmentInv
  <2>2. ASSUME NEW r \in Runs, Step(r) PROVE IInv'
    BY <1>1, <2>2, FetchInv, FileInv, FinalizeInv DEF Step
  <2>3. CASE UNCHANGED vars
    BY <1>1, <2>3 DEF vars, IInv, TriageTypeOK, Alone, OwedIsHeld,
       FailureIsLatched, AdvanceIsGuarded, FetchedMailKept, FailedRunNeverAdvances,
       RunAdvancesOnce, Active, Owed, Dated
  <2> QED BY <1>1, <2>1, <2>2, <2>3 DEF Next
<1> QED BY <1>1, InitInv, PTL DEF Spec

(* However runs fail, die and are retried, a message that one of them was    *)
(* shown falls behind the watermark only when it is filed or had left the    *)
(* default lookback before there was a watermark (finalize_run,              *)
(* mark_failure, fetch-filtered-envelopes).                                  *)
THEOREM NoShownMailIsLost == ASSUME Consecutive PROVE Spec => []FetchedMailKept
BY Invariance, PTL DEF IInv

(* A run that recorded a failure never moves the watermark (mark_failure).   *)
THEOREM FailureHoldsWatermark == ASSUME Consecutive PROVE Spec => []FailedRunNeverAdvances
BY Invariance, PTL DEF IInv

(* Replaying the finalization of a run moves the watermark at most once      *)
(* (finalize_run, watermark_writer).                                         *)
THEOREM ReplayIsSafe == ASSUME Consecutive PROVE Spec => []RunAdvancesOnce
BY Invariance, PTL DEF IInv

-----------------------------------------------------------------------------
(* The types need no assumption on how runs overlap.  What a fetching run    *)
(* writes of the status and keeps of the list is in range.                   *)
LEMMA StatusRewritten ==
    ASSUME NEW s \in Status
    PROVE  /\ Warned(s) \in Status /\ Unlatched(s) \in Status /\ Demoted(s) \in Status
           /\ Warned(s).at = s.at /\ Unlatched(s).at = s.at /\ Demoted(s).at = s.at
           /\ Demoted(s).result # "ok"
BY DEF Warned, Unlatched, Demoted, Status, Results

(* Every step of the specification keeps the types.                          *)
LEMMA TypesKept == TriageTypeOK /\ [Next]_vars => TriageTypeOK'
<1> SUFFICES ASSUME TriageTypeOK, [Next]_vars PROVE TriageTypeOK'
  OBVIOUS
<1> USE DEF TriageTypeOK
<1>1. CASE UNCHANGED vars
  BY <1>1 DEF vars
<1>2. CASE Tick
  BY <1>2, TriageAssumption DEF Tick, triage, history, Instants
<1>3. CASE ClearFailure
  BY <1>3 DEF ClearFailure, WriteStatus, NoStatus, Status, Results, triage
<1>4. ASSUME NEW m \in Mails, Deliver(m) PROVE TriageTypeOK'
  BY <1>4 DEF Deliver, triage, history
<1>5. ASSUME NEW r \in Runs, Step(r) PROVE TriageTypeOK'
  <2>0. status \in Status /\ Warned(status) \in Status /\ Warned(Unlatched(status)) \in Status
    BY StatusRewritten
  <2>1. CASE StartRun(r) \/ EndRun(r)
    BY <2>1 DEF StartRun, EndRun, Goto, history
  <2>2. CASE GetCutoff(r)
    BY <2>0, <2>2 DEF GetCutoff, Goto, WriteStatus
  <2>3. CASE ListMail(r)
    BY <2>3 DEF ListMail, Goto, history
  <2>4. CASE FilterEnvelopes(r)
    <3>1. Kept(listed[r]) \subseteq Mails
      BY DEF Kept
    <3>2. status' \in Status /\ wrote' \in Runs \cup {Nil}
      BY <2>0, <2>4 DEF FilterEnvelopes, WriteStatus
    <3>3. Cutoff \in 0..MaxClock
      BY TriageAssumption DEF Cutoff, Marks, Instants
    <3> QED BY <2>4, <3>1, <3>2, <3>3 DEF FilterEnvelopes, Goto
  <2>5. ASSUME NEW m \in Mails, File(r, m) PROVE TriageTypeOK'
    BY <2>5 DEF File, history
  <2>6. CASE MarkFailure(r)
    BY <2>6 DEF MarkFailure, Goto, WriteStatus, FailureStatus, NoStatus, Status, Results
  <2>7. CASE Finalize(r) \/ CheckLatch(r)
    <3>1. call' \in [Runs -> {"none", "metrics", "advance", "commit", "stamp"}]
      BY <2>7 DEF Finalize, CheckLatch, CallGoto
    <3>2. seen' \in [Runs -> [status : Status, now : Instants]]
      BY <2>0, <2>7 DEF Finalize, CheckLatch
    <3>3. UNCHANGED <<clock, date, watermark, status, pc, listed, inbox, handled, history>>
      BY <2>7 DEF Finalize, CheckLatch
    <3> QED BY <3>1, <3>2, <3>3 DEF history
  <2>8. CASE WriteMetrics(r)
    <3>1. Demoted(seen[r].status) \in Status
      BY StatusRewritten
    <3> QED BY <2>8, <3>1 DEF WriteMetrics, CallGoto, WriteStatus
  <2>9. CASE CommitStatus(r)
    <3>1. Committed(r) \in Status
      BY DEF Committed, Status, Results
    <3> QED BY <2>9, <3>1 DEF CommitStatus, CallGoto, WriteStatus
  <2>10. CASE StampWatermark(r)
    <3>1. seen[r].now \in Marks
      BY TriageAssumption DEF Marks, Instants
    <3> QED BY <2>10, <3>1 DEF StampWatermark, Stamp, CallGoto
  <2>11. CASE CrashCall(r)
    BY <2>11 DEF CrashCall, CallGoto
  <2> QED
    BY <1>5, <2>1, <2>2, <2>3, <2>4, <2>5, <2>6, <2>7, <2>8, <2>9, <2>10, <2>11 DEF Step
<1> QED BY <1>1, <1>2, <1>3, <1>4, <1>5 DEF Next

(* Every variable stays in its range, overlapping runs included.             *)
THEOREM TriageTypes == Spec => []TriageTypeOK
<1>1. Init => TriageTypeOK
  BY InitInv DEF IInv
<1> QED BY <1>1, TypesKept, PTL DEF Spec

-----------------------------------------------------------------------------
(* Before the first run nothing is on record.                                *)
LEMMA InitFiles == Init => FilesInv
BY TriageAssumption DEF Init, FilesInv, ClockLeads, SeenIsCurrent, CommitCovers,
   OkIsOfAFiler, CrashOnlyLags, FreshOkIsFinished, NoStatus

(* Steps that leave both files and every call alone.                         *)
LEMMA FilesUntouched ==
    ASSUME IInv, FilesInv, clock \in Nat, clock' \in Nat, clock <= clock',
           UNCHANGED <<watermark, status, call, seen, torn, wrote>>,
           \A r \in Runs : pc[r] \in {"file", "ended"} => pc'[r] \in {"file", "ended"},
           \A r \in Runs : (pc[r] \in {"file", "ended"} /\ inbox[r] = {}) => inbox'[r] = {}
    PROVE  FilesInv'
<1>1. /\ status \in Status /\ watermark \in Marks /\ NoMark \notin Nat /\ Nil \notin Nat
      /\ \A r \in Runs : seen[r].now \in Nat
  BY TriageAssumption DEF IInv, TriageTypeOK, Instants
<1>2. ClockLeads'
  <2>1. status.at # Nil => status.at \in Nat /\ status.at <= clock
    BY <1>1 DEF FilesInv, ClockLeads, Status, Instants
  <2>2. watermark # NoMark => watermark \in Nat /\ watermark <= clock
    BY <1>1 DEF FilesInv, ClockLeads, Marks
  <2>3. \A r \in Runs : seen[r].now \in Nat /\ seen[r].now <= clock
    BY <1>1 DEF FilesInv, ClockLeads
  <2> QED BY <2>1, <2>2, <2>3 DEF ClockLeads
<1>3. SeenIsCurrent' /\ CommitCovers' /\ CrashOnlyLags'
  BY DEF FilesInv, SeenIsCurrent, CommitCovers, CrashOnlyLags
<1>4. OkIsOfAFiler' /\ FreshOkIsFinished'
  BY DEF FilesInv, OkIsOfAFiler, FreshOkIsFinished
<1> QED BY <1>2, <1>3, <1>4 DEF FilesInv

(* Steps that rewrite the status outside every call: the instant on record   *)
(* is kept or dropped, and no "ok" is written.                               *)
LEMMA StatusWritten ==
    ASSUME IInv, FilesInv, \A r \in Runs : call[r] = "none",
           status'.at \in {status.at, Nil}, status'.result # "ok" \/ wrote' = Nil,
           UNCHANGED <<clock, watermark, call, seen>>
    PROVE  FilesInv'
<1>1. ClockLeads' /\ CrashOnlyLags'
  BY DEF FilesInv, ClockLeads, CrashOnlyLags
<1>2. SeenIsCurrent' /\ CommitCovers'
  BY DEF FilesInv, SeenIsCurrent, CommitCovers
<1>3. OkIsOfAFiler' /\ FreshOkIsFinished'
  BY TriageAssumption DEF FilesInv, OkIsOfAFiler, FreshOkIsFinished
<1> QED BY <1>1, <1>2, <1>3 DEF FilesInv

(* The environment writes the status only when no run is under way.          *)
LEMMA EnvironmentFiles ==
    ASSUME IInv, FilesInv, Tick \/ ClearFailure \/ \E m \in Mails : Deliver(m)
    PROVE  FilesInv'
<1>1. CASE Tick \/ \E m \in Mails : Deliver(m)
  <2>1. clock \in Nat /\ clock' \in Nat /\ clock <= clock'
    BY <1>1 DEF Tick, Deliver, IInv, TriageTypeOK, Instants
  <2>2. UNCHANGED <<watermark, status, call, seen, torn, wrote, pc, inbox>>
    BY <1>1 DEF Tick, Deliver, triage, history
  <2> QED BY <2>1, <2>2, FilesUntouched
<1>2. CASE ClearFailure
  <2>1. \A q \in Runs : call[q] = "none"
    BY <1>2 DEF ClearFailure, IInv, TriageTypeOK, Alone, Active
  <2>2. status'.at = Nil /\ wrote' = Nil /\ UNCHANGED <<clock, watermark, call, seen>>
    BY <1>2 DEF ClearFailure, WriteStatus, NoStatus, triage
  <2> QED BY <2>1, <2>2, StatusWritten
<1> QED BY <1>1, <1>2

(* Outside its calls a run writes the status when it fetches and when it     *)
(* records a failure, and then no call is under way.                         *)
LEMMA OutsideFiles ==
    ASSUME IInv, FilesInv, NEW r \in Runs,
           \/ \E m \in Mails : File(r, m)
           \/ StartRun(r) \/ GetCutoff(r) \/ ListMail(r) \/ FilterEnvelopes(r)
           \/ MarkFailure(r) \/ EndRun(r)
    PROVE  FilesInv'
<1>1. clock \in Nat /\ MaxClock \in Nat /\ pc \in [Runs -> {"new", "cutoff", "list", "filter", "file", "marked", "ended"}]
      /\ inbox \in [Runs -> SUBSET Mails] /\ status \in Status
  BY TriageAssumption DEF IInv, TriageTypeOK, Instants
<1>2. ASSUME NEW m \in Mails, File(r, m) PROVE FilesInv'
  <2>1. /\ UNCHANGED <<clock, watermark, status, call, seen, torn, wrote, pc>>
        /\ \A q \in Runs : inbox'[q] \subseteq inbox[q]
    BY <1>1, <1>2 DEF File, history
  <2> QED BY <1>1, <2>1, FilesUntouched
<1>3. CASE StartRun(r) \/ ListMail(r) \/ EndRun(r)
  <2>1. /\ UNCHANGED <<clock, watermark, status, call, seen, torn, wrote, inbox>>
        /\ pc[r] \notin {"file", "ended"} \/ pc'[r] = "ended"
        /\ \A q \in Runs : q # r => pc'[q] = pc[q]
    BY <1>1, <1>3 DEF StartRun, ListMail, EndRun, Goto, history
  <2> QED BY <1>1, <2>1, FilesUntouched
<1>4. CASE GetCutoff(r) \/ FilterEnvelopes(r) \/ MarkFailure(r)
  <2>1. Active(r) /\ call[r] = "none"
    BY <1>4 DEF GetCutoff, FilterEnvelopes, MarkFailure, Active, IInv, TriageTypeOK, Alone
  <2>2. \A q \in Runs : call[q] = "none"
    BY <2>1, OthersRest
  <2>3. UNCHANGED <<clock, watermark, call, seen, torn>>
    BY <1>4 DEF GetCutoff, FilterEnvelopes, MarkFailure
  <2>4. CASE status' # status \/ wrote' # wrote \/ MarkFailure(r)
    <3>1. CASE GetCutoff(r)
      BY <1>1, <2>2, <2>3, <2>4, <3>1, StatusWritten DEF GetCutoff, MarkFailure, WriteStatus, Warned, Status
    <3>2. CASE FilterEnvelopes(r)
      <4>1. /\ Unlatched(status) \in Status /\ Unlatched(status).at = status.at
            /\ Warned(Unlatched(status)).at = status.at
        BY <1>1, StatusRewritten
      <4>2. status' = Warned(Unlatched(status)) /\ (status' # status \/ watermark = NoMark)
        BY <2>4, <3>2 DEF FilterEnvelopes, WriteStatus, MarkFailure
      <4>3. status'.result # "ok"
        <5>1. CASE watermark = NoMark
          BY <4>1, <4>2, <5>1 DEF Warned, Status
        <5>2. CASE watermark # NoMark
          BY <1>1, <4>2, <5>2 DEF Warned, Unlatched, Status
        <5> QED BY <5>1, <5>2
      <4> QED BY <2>2, <2>3, <4>1, <4>2, <4>3, StatusWritten
    <3>3. CASE MarkFailure(r)
      BY <2>2, <2>3, <3>3, StatusWritten DEF MarkFailure, WriteStatus, FailureStatus, NoStatus
    <3> QED BY <1>4, <3>1, <3>2, <3>3
  <2>5. CASE UNCHANGED <<status, wrote>> /\ ~MarkFailure(r)
    <3>1. /\ pc[r] \in {"cutoff", "filter"} /\ \A q \in Runs : q # r => pc'[q] = pc[q]
          /\ \A q \in Runs : q # r => inbox'[q] = inbox[q]
      BY <1>1, <1>4, <2>5 DEF GetCutoff, FilterEnvelopes, Goto
    <3> QED BY <1>1, <2>3, <2>5, <3>1, FilesUntouched
  <2> QED BY <2>4, <2>5
<1> QED BY <1>2, <1>3, <1>4

(* Inside a call: what it commits is what it read, stamped with an instant   *)
(* no earlier than the watermark, and the stamp is that instant.             *)
LEMMA CallFiles ==
    ASSUME IInv, FilesInv, NEW r \in Runs,
           \/ Finalize(r) \/ WriteMetrics(r) \/ CheckLatch(r)
           \/ CommitStatus(r) \/ StampWatermark(r) \/ CrashCall(r)
    PROVE  FilesInv'
<1> USE DEF CallGoto
<1>0. Active(r)
  <2>1. CASE Finalize(r)
    BY <2>1 DEF Finalize, Active
  <2>2. CASE call[r] # "none"
    BY <2>2 DEF IInv, Alone, Active
  <2>3. Finalize(r) \/ call[r] # "none"
    BY DEF WriteMetrics, CheckLatch, CommitStatus, StampWatermark, CrashCall
  <2> QED BY <2>1, <2>2, <2>3
<1>1. \A q \in Runs : q # r => call[q] = "none" /\ pc[q] \in {"new", "ended"}
  BY <1>0, OthersRest
<1>2. /\ clock \in Nat /\ status \in Status /\ watermark \in Marks
      /\ call \in [Runs -> {"none", "metrics", "advance", "commit", "stamp"}]
      /\ seen \in [Runs -> [status : Status, now : Instants]]
      /\ Nil \notin Nat /\ NoMark \notin Nat /\ Nil \notin Runs
  BY TriageAssumption DEF IInv, TriageTypeOK, Instants
<1>3. UNCHANGED <<clock, pc, inbox>>
  BY DEF Finalize, WriteMetrics, CheckLatch, CommitStatus, StampWatermark, CrashCall
<1>4. CASE Finalize(r) \/ CheckLatch(r)
  <2>1. UNCHANGED <<watermark, status, torn, wrote>> /\ call[r] # "stamp"
    BY <1>4 DEF Finalize, CheckLatch, history
  <2>2. \/ call' = [call EXCEPT ![r] = "none"] /\ UNCHANGED seen
        \/ \E c \in {"metrics", "commit"} :
              /\ call' = [call EXCEPT ![r] = c]
              /\ seen' = [seen EXCEPT ![r] = [status |-> status, now |-> clock]]
    BY <1>4 DEF Finalize, CheckLatch
  <2>3. \A q \in Runs : seen'[q].now <= clock
    BY <1>2, <2>2 DEF FilesInv, ClockLeads
  <2>4. /\ call'[r] \in {"none", "metrics", "commit"} /\ (\A q \in Runs : q # r => call'[q] = "none")
        /\ call'[r] # "none" => seen'[r].status = status /\ seen'[r].now = clock
    BY <1>1, <1>2, <2>2
  <2>5. SeenIsCurrent' /\ CommitCovers'
    BY <2>1, <2>4 DEF FilesInv, ClockLeads, SeenIsCurrent, CommitCovers
  <2>6. \A q \in Runs : call[q] # "stamp"
    BY <1>1, <2>1
  <2> QED BY <1>3, <2>1, <2>3, <2>5, <2>6 DEF FilesInv, ClockLeads, OkIsOfAFiler,
             CrashOnlyLags, FreshOkIsFinished
<1>5. CASE WriteMetrics(r)
  <2>1. /\ call[r] = "metrics" /\ status' = Demoted(seen[r].status) /\ wrote' = r
        /\ call' = [call EXCEPT ![r] = "advance"] /\ UNCHANGED <<watermark, seen>>
    BY <1>5 DEF WriteMetrics, WriteStatus
  <2>2. status'.at = status.at /\ status'.result # "ok"
    BY <1>2, <2>1, StatusRewritten DEF FilesInv, SeenIsCurrent
  <2>3. \A q \in Runs : call'[q] \in {"none", "advance"}
    BY <1>1, <1>2, <2>1
  <2> QED BY <1>3, <2>1, <2>2, <2>3 DEF FilesInv, ClockLeads, SeenIsCurrent, CommitCovers,
             OkIsOfAFiler, CrashOnlyLags, FreshOkIsFinished
<1>6. CASE CommitStatus(r)
  <2>1. /\ call[r] = "commit" /\ status' = Committed(r) /\ wrote' = r
        /\ call' = [call EXCEPT ![r] = "stamp"] /\ UNCHANGED <<watermark, seen>>
    BY <1>6 DEF CommitStatus, WriteStatus
  <2>2. status'.at = seen[r].now /\ status'.run = r /\ status'.result = "ok"
    BY <1>2, <2>1 DEF Committed, Status
  <2>3. pc[r] = "file" /\ inbox[r] = {}
    BY <2>1 DEF IInv, Alone, FailureIsLatched, OwedIsHeld
  <2>4. call'[r] = "stamp" /\ \A q \in Runs : q # r => call'[q] = "none"
    BY <1>1, <1>2, <2>1
  <2>5. seen[r].now <= clock /\ (watermark # NoMark => watermark <= seen[r].now)
    BY <2>1 DEF FilesInv, ClockLeads, CommitCovers
  <2> QED BY <1>3, <2>1, <2>2, <2>3, <2>4, <2>5 DEF FilesInv, ClockLeads, SeenIsCurrent,
             CommitCovers, OkIsOfAFiler, CrashOnlyLags, FreshOkIsFinished
<1>7. CASE StampWatermark(r)
  <2>1. /\ call[r] = "stamp" /\ watermark' = seen[r].now
        /\ call' = [call EXCEPT ![r] = "none"] /\ UNCHANGED <<status, seen, wrote>>
    BY <1>7 DEF StampWatermark, Stamp
  <2>2. \A q \in Runs : call'[q] = "none"
    BY <1>1, <1>2, <2>1
  <2>3. seen[r].now = status.at /\ seen[r].now <= clock /\ seen[r].now \in Nat
    BY <1>2, <2>1 DEF FilesInv, ClockLeads, CommitCovers, Instants
  <2> QED BY <1>3, <2>1, <2>2, <2>3 DEF FilesInv, ClockLeads, SeenIsCurrent, CommitCovers,
             OkIsOfAFiler, CrashOnlyLags, FreshOkIsFinished
<1>8. CASE CrashCall(r)
  <2>1. /\ call' = [call EXCEPT ![r] = "none"] /\ UNCHANGED <<watermark, status, seen, wrote>>
        /\ torn \subseteq torn' /\ (call[r] = "stamp" => r \in torn')
    BY <1>8 DEF CrashCall
  <2>2. \A q \in Runs : call'[q] = "none"
    BY <1>1, <1>2, <2>1
  <2>3. \A q \in Runs : call[q] = "stamp" => q \in torn'
    BY <1>1, <2>1
  <2> QED BY <1>3, <2>1, <2>2, <2>3 DEF FilesInv, ClockLeads, SeenIsCurrent, CommitCovers,
             OkIsOfAFiler, CrashOnlyLags, FreshOkIsFinished
<1> QED BY <1>4, <1>5, <1>6, <1>7, <1>8

(* What the files say stays true in every behaviour of consecutive runs.     *)
LEMMA FilesInvariance == ASSUME Consecutive PROVE Spec => []FilesInv
<1>1. IInv /\ FilesInv /\ [Next]_vars => FilesInv'
  <2> SUFFICES ASSUME IInv, FilesInv, [Next]_vars PROVE FilesInv'
    OBVIOUS
  <2>1. CASE UNCHANGED vars
    BY <2>1 DEF vars, FilesInv, ClockLeads, SeenIsCurrent, CommitCovers, OkIsOfAFiler,
       CrashOnlyLags, FreshOkIsFinished
  <2>2. ASSUME NEW r \in Runs, Step(r) PROVE FilesInv'
    BY <2>2, OutsideFiles, CallFiles DEF Step
  <2>3. CASE Tick \/ ClearFailure \/ \E m \in Mails : Deliver(m)
    BY <2>3, EnvironmentFiles
  <2> QED BY <2>1, <2>2, <2>3 DEF Next
<1> QED BY <1>1, Invariance, InitFiles, PTL DEF Spec

(* A crash between the commit of the status and the stamp of the watermark   *)
(* leaves the watermark behind what the commit claims, never ahead of it     *)
(* (watermark_writer).                                                       *)
THEOREM CrashLeavesLag == ASSUME Consecutive PROVE Spec => []CrashOnlyLags
BY FilesInvariance, PTL DEF FilesInv

(* An "ok" written during a run is the commit of that very run, which has    *)
(* nothing left to file, and the watermark is where it says, but between the *)
(* call's two writes and after a death there (write_metrics,                 *)
(* watermark_writer).                                                        *)
THEOREM FreshOkProvesFinish == ASSUME Consecutive PROVE Spec => []FreshOkIsFinished
BY FilesInvariance, PTL DEF FilesInv
=============================================================================
