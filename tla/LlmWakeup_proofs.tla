--------------------------- MODULE LlmWakeup_proofs ---------------------------
(***************************************************************************)
(* Theorems about LlmWakeup, for every number of sessions and processes    *)
(* and every bound: its types, that events act once, and that a session is *)
(* not resumed twice for one state.                                        *)
(***************************************************************************)
EXTENDS LlmWakeup, TLAPS

-----------------------------------------------------------------------------
(* Types.                                                                    *)

\* The environment writes no state of a process.
LEMMA EnvironmentType ==
    ASSUME WakeupTypeOK,
           \/ Tick
           \/ \E s \in Sessions :
                 \/ Turn(s) \/ Refuse(s) \/ SelfContinue(s) \/ GiveUp(s)
                 \/ Measure(s) \/ SetAutoSchedule(s)
    PROVE  WakeupTypeOK'
<1> USE WakeupAssumption DEF WakeupTypeOK, store, local, budgets, acts, Happens
<1>1. CASE Tick
  BY <1>1 DEF Tick
<1>2. ASSUME NEW s \in Sessions, Turn(s) \/ Refuse(s) \/ SelfContinue(s) \/ GiveUp(s)
      PROVE  WakeupTypeOK'
  <2>1. transcript' \in [Sessions -> [length : Nat, reset : {0} \cup Resets,
                                      last : {"turn", "refusal", "armed"}]]
    <3>1. CASE Turn(s)
      BY <3>1 DEF Turn, Writes, Grown
    <3>2. CASE Refuse(s)
      BY <3>2 DEF Refuse, Writes, Grown
    <3>3. CASE SelfContinue(s)
      BY <3>3 DEF SelfContinue, Writes, Grown
    <3>4. CASE GiveUp(s)
      BY <3>4 DEF GiveUp, Writes, Grown
    <3> QED BY <1>2, <3>1, <3>2, <3>3, <3>4
  <2>2. /\ events' \in Nat
        /\ UNCHANGED <<clock, usage, policy, scanner, store, local, crashes, acts, woken>>
    BY <1>2 DEF Turn, Refuse, SelfContinue, GiveUp, Writes
  <2> QED BY <2>1, <2>2
<1>3. ASSUME NEW s \in Sessions, Measure(s) \/ SetAutoSchedule(s)
      PROVE  WakeupTypeOK'
  <2>1. usage' \in [Sessions -> {0} \cup Resets] /\ policy' \in [Sessions -> Levels]
    <3>1. CASE Measure(s)
      BY <3>1 DEF Measure, WakeupTypeOK
    <3>2. CASE SetAutoSchedule(s)
      BY <3>2 DEF SetAutoSchedule, WakeupTypeOK
    <3> QED BY <1>3, <3>1, <3>2
  <2>2. /\ events' \in Nat
        /\ UNCHANGED <<clock, transcript, scanner, store, local, crashes, acts, woken>>
    BY <1>3 DEF Measure, SetAutoSchedule
  <2> QED BY <2>1, <2>2
<1> QED BY <1>1, <1>2, <1>3


LEMMA MonitorType ==
    ASSUME WakeupTypeOK, NEW p \in Procs,
           StartPass(p) \/ ClaimCutoff(p) \/ ReadUsage(p) \/ ClaimUsage(p) \/ Notify(p)
    PROVE  WakeupTypeOK'
<1> USE WakeupAssumption DEF store, local, budgets, acts, Goto
<1>1. CASE StartPass(p)
  <2> DEFINE t == {Event("cutoff", s, transcript[s].reset, policy[s]) :
                      s \in {u \in Sessions : policy[u] # "none" /\ Wakeable(u)}}
  <2>1. t \subseteq Observations
    BY DEF WakeupTypeOK, Event, Observations, Kinds, Wakeable
  <2>2. /\ pc' = [pc EXCEPT ![p] = "cutoffs"] /\ now' = [now EXCEPT ![p] = clock]
        /\ todo' = [todo EXCEPT ![p] = t]
        /\ UNCHANGED <<clock, transcript, usage, policy, scanner, store, handled, work, shot,
                       budgets, acts, woken>>
    BY <1>1 DEF StartPass
  <2> HIDE DEF t
  <2> QED BY <2>1, <2>2 DEF WakeupTypeOK, Acting, Scanning
<1>2. CASE ClaimCutoff(p)
  <2>1. PICK e \in todo[p] :
          /\ todo' = [todo EXCEPT ![p] = @ \ {e}]
          /\ \/ Claim(p, e, "snapshot") /\ UNCHANGED handled
             \/ /\ handled' = [handled EXCEPT ![p] = @ \cup {e.session}]
                /\ UNCHANGED <<markers, work, pc>>
    BY <1>2 DEF ClaimCutoff
  <2>2. pc[p] = "cutoffs" /\ todo[p] \subseteq Observations /\ e \in Observations
        /\ UNCHANGED <<clock, transcript, usage, policy, jobs, scanner, drawn, now, shot,
                       budgets, acts, woken>>
    BY <1>2 DEF ClaimCutoff, WakeupTypeOK, Scanning
  <2>3. e \in Events /\ e.session \in Sessions /\ Key(e) \in Keys
    BY <2>2 DEF Observations, Events, Key, Keys
  <2>4. CASE Claim(p, e, "snapshot") /\ UNCHANGED handled
    <3>1. /\ markers' = markers \cup {Key(e)} /\ work' = [work EXCEPT ![p] = e]
          /\ pc' = [pc EXCEPT ![p] = "snapshot"]
      BY <2>4 DEF Claim
    <3> QED BY <2>1, <2>2, <2>3, <2>4, <3>1 DEF WakeupTypeOK, Acting, Scanning
  <2>5. CASE /\ handled' = [handled EXCEPT ![p] = @ \cup {e.session}]
             /\ UNCHANGED <<markers, work, pc>>
    BY <2>1, <2>2, <2>3, <2>5 DEF WakeupTypeOK, Scanning, Acting
  <2> QED BY <2>1, <2>4, <2>5
<1>3. CASE ReadUsage(p)
  <2> DEFINE t == {Event("reminded", s, usage[s], "none") :
                      s \in {u \in Sessions : usage[u] > now[p]}}
  <2>1. t \subseteq Observations
    BY DEF WakeupTypeOK, Event, Observations, Kinds, Levels
  <2>2. /\ pc' = [pc EXCEPT ![p] = "usage"] /\ todo' = [todo EXCEPT ![p] = t]
        /\ UNCHANGED <<clock, transcript, usage, policy, scanner, store, now, handled, work,
                       shot, budgets, acts, woken>>
    BY <1>3 DEF ReadUsage
  <2> HIDE DEF t
  <2> QED BY <2>1, <2>2 DEF WakeupTypeOK, Acting, Scanning
<1>4. CASE ClaimUsage(p)
  <2>0. PICK e \in todo[p] :
          \E f \in {e, Event("scheduled", e.session, e.reset, "force")},
             next \in {"snapshot", "notify"} :
             /\ todo' = [todo EXCEPT ![p] = @ \ {e}]
             /\ UNCHANGED <<markers, work, pc>> \/ Claim(p, f, next)
    BY <1>4 DEF ClaimUsage
  <2>1. PICK f \in {e, Event("scheduled", e.session, e.reset, "force")},
             next \in {"snapshot", "notify"} :
             /\ todo' = [todo EXCEPT ![p] = @ \ {e}]
             /\ UNCHANGED <<markers, work, pc>> \/ Claim(p, f, next)
    BY <2>0
  <2>2. pc[p] = "usage" /\ todo[p] \subseteq Observations /\ e \in Observations
        /\ UNCHANGED <<clock, transcript, usage, policy, jobs, scanner, drawn, now, handled, shot,
                       budgets, acts, woken>>
    BY <1>4 DEF ClaimUsage, WakeupTypeOK, Scanning
  <2>3. f \in Events /\ Key(f) \in Keys
    BY <2>2 DEF Observations, Event, Events, Key, Keys, Kinds, Levels
  <2>4. CASE Claim(p, f, next)
    <3>1. /\ markers' = markers \cup {Key(f)} /\ work' = [work EXCEPT ![p] = f]
          /\ pc' = [pc EXCEPT ![p] = next]
      BY <2>4 DEF Claim
    <3> QED BY <2>1, <2>2, <2>3, <3>1 DEF WakeupTypeOK, Acting, Scanning
  <2>5. CASE UNCHANGED <<markers, work, pc>>
    BY <2>1, <2>2, <2>5 DEF WakeupTypeOK, Scanning, Acting
  <2> QED BY <2>1, <2>4, <2>5
<1>5. CASE Notify(p)
  <2>1. acted' \in [Keys -> Nat]
    BY <1>5 DEF Notify, Act, WakeupTypeOK
  <2>2. /\ pc[p] = "notify" /\ pc' = [pc EXCEPT ![p] = "usage"]
        /\ work' = [work EXCEPT ![p] = Nil]
        /\ UNCHANGED <<clock, transcript, usage, policy, scanner, store, now, todo, handled,
                       shot, budgets, undone, woken>>
    BY <1>5 DEF Notify
  <2> QED BY <2>1, <2>2 DEF WakeupTypeOK, Acting, Scanning
<1> QED BY <1>1, <1>2, <1>3, <1>4, <1>5

\* A process that stops holds nothing.
LEMMA StopType ==
    ASSUME WakeupTypeOK, NEW p \in Procs, Stop(p)
    PROVE  /\ pc' \in [Procs -> {"idle", "cutoffs", "usage", "scan"} \cup Acting \cup Scanning]
           /\ now' \in [Procs -> Nat] /\ handled' \in [Procs -> SUBSET Sessions]
           /\ todo' \in [Procs -> SUBSET (Jobs \cup Observations)]
           /\ work' \in [Procs -> Jobs \cup Events \cup {Nil}] /\ shot' \in [Procs -> Nat]
           /\ \A q \in Procs :
                /\ pc'[q] \in Acting => work'[q] \in Events
                /\ pc'[q] \in {"deliver", "drop", "retry"} => work'[q] \in Jobs
                /\ todo'[q] \subseteq IF pc'[q] \in Scanning THEN Jobs ELSE Observations
BY DEF Stop, Goto, WakeupTypeOK, Acting, Scanning

LEMMA ScheduleType ==
    ASSUME WakeupTypeOK, NEW p \in Procs,
           ScheduleByHand(p) \/ Snapshot(p) \/ Append(p) \/ Raise(p) \/ NotifyTimesOut(p)
           \/ Crash(p)
    PROVE  WakeupTypeOK'
<1> USE WakeupAssumption DEF store, local, budgets, acts, Goto
<1>1. CASE ScheduleByHand(p)
  <2>1. PICK e \in Events : work' = [work EXCEPT ![p] = e]
    <3>1. PICK s \in Sessions, reset \in Resets :
            work' = [work EXCEPT ![p] = Event("hand", s, reset, "none")]
      BY <1>1 DEF ScheduleByHand
    <3> QED BY <3>1 DEF Event, Events, Levels
  <2>2. /\ pc[p] = "idle" /\ events' = events + 1 /\ pc' = [pc EXCEPT ![p] = "snapshot"]
        /\ UNCHANGED <<clock, transcript, usage, policy, scanner, store, now, todo, handled,
                       shot, crashes, acts, woken>>
    BY <1>1 DEF ScheduleByHand, Happens
  <2> QED BY <2>1, <2>2 DEF WakeupTypeOK, Acting, Scanning
<1>2. CASE Snapshot(p)
  <2>1. /\ pc[p] = "snapshot" /\ pc' = [pc EXCEPT ![p] = "append"]
        /\ shot' = [shot EXCEPT ![p] = transcript[work[p].session].length]
        /\ UNCHANGED <<clock, transcript, usage, policy, scanner, store, now, todo, handled,
                       work, budgets, acts, woken>>
    BY <1>2 DEF Snapshot
  <2>2. transcript[work[p].session].length \in Nat
    BY <2>1 DEF WakeupTypeOK, Acting, Events
  <2> QED BY <2>1, <2>2 DEF WakeupTypeOK, Acting, Scanning
<1>3. CASE Append(p)
  <2>1. pc[p] = "append" /\ work[p] \in Events
    BY <1>3 DEF Append, WakeupTypeOK, Acting
  <2>2. jobs' \subseteq Jobs /\ drawn' \in Nat
    <3>1. NewJob(p) \in Jobs
      <4>1. /\ work[p].session \in Sessions /\ work[p].level \in Levels
            /\ work[p].reset + 1 \in Nat /\ drawn + 1 \in Nat /\ shot[p] \in Nat
        BY <2>1 DEF Events, WakeupTypeOK
      <4> QED BY <4>1 DEF NewJob, Deadline, Jobs
    <3> QED BY <1>3, <3>1 DEF Append, AppendJob, WakeupTypeOK
  <2>3. acted' \in [Keys -> Nat]
    BY <1>3 DEF Append, Act, WakeupTypeOK
  <2>4. UNCHANGED <<clock, transcript, usage, policy, markers, scanner, budgets, undone, woken>>
    BY <1>3 DEF Append
  <2>5. CASE Stop(p)
    BY <2>2, <2>3, <2>4, <2>5, StopType DEF WakeupTypeOK
  <2>6. CASE \E next \in {"cutoffs", "usage"}, h \in SUBSET Sessions :
               /\ pc' = [pc EXCEPT ![p] = next] /\ handled' = [handled EXCEPT ![p] = h]
               /\ work' = [work EXCEPT ![p] = Nil] /\ shot' = [shot EXCEPT ![p] = 0]
               /\ UNCHANGED <<now, todo>>
    BY <2>1, <2>2, <2>3, <2>4, <2>6 DEF WakeupTypeOK, Acting, Scanning
  <2>7. handled[p] \cup {work[p].session} \in SUBSET Sessions /\ handled[p] \in SUBSET Sessions
    BY <2>1 DEF WakeupTypeOK, Events
  <2> QED BY <1>3, <2>5, <2>6, <2>7 DEF Append
<1>4. CASE Raise(p) \/ NotifyTimesOut(p)
  <2>1. /\ pc[p] \in Acting /\ GiveBack(p) /\ markers' \subseteq Keys
        /\ UNCHANGED <<clock, transcript, usage, policy, jobs, scanner, drawn, crashes, woken>>
    BY <1>4 DEF Raise, NotifyTimesOut, GiveBack, WakeupTypeOK, Acting
  <2>2. events' \in Nat /\ acted' \in [Keys -> Nat] /\ undone' \in [Keys -> Nat]
    BY <1>4 DEF Raise, NotifyTimesOut, Happens, Act, WakeupTypeOK
  <2>3. CASE Stop(p)
    BY <2>1, <2>2, <2>3, StopType DEF WakeupTypeOK
  <2>4. CASE /\ pc' = [pc EXCEPT ![p] = "scan"] /\ todo' = [todo EXCEPT ![p] = {}]
             /\ work' = [work EXCEPT ![p] = Nil] /\ shot' = [shot EXCEPT ![p] = 0]
             /\ UNCHANGED <<now, handled>>
    BY <2>1, <2>2, <2>4 DEF WakeupTypeOK, Acting, Scanning
  <2> QED BY <2>1, <2>3, <2>4 DEF GiveBack
<1>5. CASE Crash(p)
  <2>1. /\ Stop(p) /\ crashes' = crashes + 1 /\ scanner' \in {scanner, Nil}
        /\ UNCHANGED <<clock, transcript, usage, policy, store, events, acts, woken>>
    BY <1>5 DEF Crash
  <2> QED BY <2>1, StopType DEF WakeupTypeOK
<1> QED BY <1>1, <1>2, <1>3, <1>4, <1>5

LEMMA ScanType ==
    ASSUME WakeupTypeOK, NEW p \in Procs,
           StartScan(p) \/ Check(p) \/ Deliver(p) \/ Settle(p) \/ EndScan(p)
    PROVE  WakeupTypeOK'
<1> USE WakeupAssumption DEF store, local, budgets, acts, Goto
<1>1. CASE StartScan(p)
  <2>1. UNCHANGED <<clock, transcript, usage, policy, store, budgets, acts, woken>>
    BY <1>1 DEF StartScan
  <2>2. CASE Stop(p) /\ UNCHANGED scanner
    BY <2>1, <2>2, StopType DEF WakeupTypeOK
  <2>3. CASE /\ scanner' = p /\ pc' = [pc EXCEPT ![p] = "jobs"]
             /\ now' = [now EXCEPT ![p] = clock]
             /\ todo' = [todo EXCEPT ![p] = {j \in jobs : j.at <= clock}]
             /\ handled' = [handled EXCEPT ![p] = {}]
             /\ UNCHANGED <<work, shot>>
    BY <2>1, <2>3 DEF WakeupTypeOK, Acting, Scanning
  <2> QED BY <1>1, <2>2, <2>3 DEF StartScan
<1>2. CASE Check(p)
  <2>1. PICK j \in todo[p], next \in {"retry", "drop", "deliver"} :
          /\ work' = [work EXCEPT ![p] = j] /\ todo' = [todo EXCEPT ![p] = @ \ {j}]
          /\ pc' = [pc EXCEPT ![p] = next]
    BY <1>2 DEF Check
  <2>2. /\ pc[p] = "jobs"
        /\ UNCHANGED <<clock, transcript, usage, policy, scanner, store, now, handled, shot,
                       budgets, acts, woken>>
    BY <1>2 DEF Check
  <2>3. j \in Jobs /\ todo[p] \subseteq Jobs
    BY <2>2 DEF WakeupTypeOK, Scanning
  <2> QED BY <2>1, <2>2, <2>3 DEF WakeupTypeOK, Acting, Scanning
<1>3. CASE Deliver(p)
  <2>1. pc[p] = "deliver" /\ work[p].session \in Sessions
    BY <1>3 DEF Deliver, WakeupTypeOK, Jobs
  <2>2. /\ transcript' \in [Sessions -> [length : Nat, reset : {0} \cup Resets,
                                         last : {"turn", "refusal", "armed"}]]
        /\ woken' \in [Sessions -> Nat]
    <3>1. CASE UNCHANGED <<transcript, woken>>
      BY <3>1 DEF WakeupTypeOK
    <3>2. CASE /\ woken' = [woken EXCEPT
                               ![work[p].session] = transcript[work[p].session].length + 1]
               /\ transcript' = Grown(work[p].session, 1, transcript[work[p].session].reset, "turn")
      BY <2>1, <3>2 DEF Grown, WakeupTypeOK
    <3> QED BY <1>3, <3>1, <3>2 DEF Deliver
  <2>3. /\ \E next \in {"drop", "retry"} : pc' = [pc EXCEPT ![p] = next]
        /\ UNCHANGED <<clock, usage, policy, scanner, store, now, todo, handled, work, shot,
                       budgets, acts>>
    BY <1>3 DEF Deliver
  <2> QED BY <2>1, <2>2, <2>3 DEF WakeupTypeOK, Acting, Scanning
<1>4. CASE Settle(p)
  <2>1. /\ pc[p] \in {"drop", "retry"} /\ pc' = [pc EXCEPT ![p] = "jobs"]
        /\ work' = [work EXCEPT ![p] = Nil]
        /\ UNCHANGED <<clock, transcript, usage, policy, markers, scanner, drawn, now, todo,
                       handled, shot, budgets, acts, woken>>
    BY <1>4 DEF Settle
  <2>2. Retried(p) \subseteq Jobs
    <3>1. work[p] \in Jobs /\ now[p] + RetryDelay \in Nat
      BY <2>1 DEF WakeupTypeOK
    <3> QED BY <3>1 DEF Retried, Jobs
  <2>3. jobs' \subseteq Jobs
    BY <1>4, <2>2 DEF Settle, UpdateJob, WakeupTypeOK
  <2> QED BY <2>1, <2>3 DEF WakeupTypeOK, Acting, Scanning
<1>5. CASE EndScan(p)
  <2>1. /\ Stop(p) /\ scanner' = Nil
        /\ UNCHANGED <<clock, transcript, usage, policy, store, budgets, acts, woken>>
    BY <1>5 DEF EndScan
  <2> QED BY <2>1, StopType DEF WakeupTypeOK
<1> QED BY <1>1, <1>2, <1>3, <1>4, <1>5

LEMMA InitType == Init => WakeupTypeOK
BY WakeupAssumption DEF Init, WakeupTypeOK, Acting, Scanning

(* Every variable stays in its range (LlmWakeup).                            *)
THEOREM WakeupTypeCorrect == Spec => []WakeupTypeOK
<1>1. WakeupTypeOK /\ [Next]_vars => WakeupTypeOK'
  <2> SUFFICES ASSUME WakeupTypeOK, [Next]_vars PROVE WakeupTypeOK'
    OBVIOUS
  <2>1. CASE UNCHANGED vars
    BY <2>1 DEF vars, WakeupTypeOK
  <2>2. ASSUME NEW p \in Procs, Pass(p) \/ ScheduleByHand(p) \/ Crash(p) PROVE WakeupTypeOK'
    BY <2>2, MonitorType, ScheduleType, ScanType DEF Pass
  <2> QED BY <2>1, <2>2, EnvironmentType DEF Next
<1> QED BY <1>1, InitType, PTL DEF Spec

-----------------------------------------------------------------------------
(* Events act once: a claim in hand is marked, exclusive, and not acted on   *)
(* since it was last given back.                                             *)

HoldsClaim(p) == pc[p] \in Acting /\ work[p].kind # "hand"
\* Refusals are gone through first, then measurements; only a reminder is shown.
Reminding(p) ==
    /\ pc[p] = "notify" => work[p].kind = "reminded"
    /\ pc[p] = "usage" \/ (pc[p] \in Acting /\ work[p].kind \in {"scheduled", "reminded"})
          => \A e \in todo[p] : e.kind = "reminded"
    /\ pc[p] = "cutoffs" \/ (pc[p] \in Acting /\ work[p].kind = "cutoff")
          => \A e \in todo[p] : e.kind = "cutoff"
ClaimInv ==
    /\ \A k \in Keys : acted[k] > undone[k] => k \in markers
    /\ \A p \in Procs : HoldsClaim(p) =>
          /\ Key(work[p]) \in Keys /\ Key(work[p]) \in markers
          /\ acted[Key(work[p])] <= undone[Key(work[p])]
    /\ \A p, q \in Procs :
          HoldsClaim(p) /\ HoldsClaim(q) /\ Key(work[p]) = Key(work[q]) => p = q
    /\ EventActsOnce

\* Steps that take up no event and settle none.
LEMMA ClaimsRest ==
    ASSUME ClaimInv, UNCHANGED <<acts, markers>>,
           \A q \in Procs : HoldsClaim(q)' => HoldsClaim(q) /\ work'[q] = work[q]
    PROVE  ClaimInv'
<1>1. \A q \in Procs : HoldsClaim(q)' => Key(work'[q]) = Key(work[q])
  OBVIOUS
<1> QED BY <1>1 DEF ClaimInv, EventActsOnce, acts

LEMMA ClaimIsExclusive ==
    ASSUME WakeupTypeOK, ClaimInv, NEW p \in Procs, NEW e \in Observations, NEW next \in Acting,
           pc[p] \notin Acting, Unclaimed(e), Claim(p, e, next), UNCHANGED acts
    PROVE  ClaimInv'
<1>1. /\ markers' = markers \cup {Key(e)} /\ Key(e) \notin markers /\ Key(e) \in Keys
      /\ work' = [work EXCEPT ![p] = e] /\ pc' = [pc EXCEPT ![p] = next]
  BY DEF Claim, Goto, Unclaimed, Key, Keys, Observations
<1>2. acted[Key(e)] <= undone[Key(e)]
  BY <1>1 DEF ClaimInv, WakeupTypeOK
<1>3. work'[p] = e /\ \A q \in Procs : q # p => HoldsClaim(q)' = HoldsClaim(q) /\ work'[q] = work[q]
  BY <1>1 DEF WakeupTypeOK, HoldsClaim
<1>4. \A q \in Procs : q # p /\ HoldsClaim(q) => Key(work[q]) # Key(e)
  BY <1>1 DEF ClaimInv
<1> QED BY <1>1, <1>2, <1>3, <1>4 DEF ClaimInv, EventActsOnce, Key, acts

\* A claim is settled by its effect, which is kept in mind by the marker, or by
\* the removal of the marker.
LEMMA ClaimIsSettled ==
    ASSUME WakeupTypeOK, ClaimInv, NEW p \in Procs, pc[p] \in Acting, Reminding(p),
           Notify(p) \/ Append(p) \/ Raise(p) \/ NotifyTimesOut(p)
    PROVE  ClaimInv'
<1>1. work[p] \in Events
  BY DEF WakeupTypeOK
<1>2. /\ pc'[p] \notin Acting
      /\ \A q \in Procs : q # p => HoldsClaim(q)' = HoldsClaim(q) /\ work'[q] = work[q]
  BY DEF Notify, Append, Raise, NotifyTimesOut, GiveBack, Stop, Goto, HoldsClaim, Acting,
     WakeupTypeOK
<1>3. CASE work[p].kind = "hand"
  <2>1. Key(work[p]) \notin Keys
    BY <1>3 DEF Key, Keys, Kinds
  <2>2. UNCHANGED <<acts, markers>>
    <3>1. CASE Notify(p) \/ Append(p)
      BY <2>1, <3>1 DEF Notify, Append, Act, acts, store
    <3>2. CASE Raise(p)
      <4>1. markers \ {Key(work[p])} = markers
        BY <2>1 DEF WakeupTypeOK
      <4> QED BY <3>2, <4>1 DEF Raise, GiveBack
    <3>3. CASE NotifyTimesOut(p)
      BY <1>3, <3>3 DEF NotifyTimesOut, Reminding
    <3> QED BY <3>1, <3>2, <3>3
  <2> QED BY <1>2, <2>2, ClaimsRest DEF HoldsClaim
<1>4. CASE work[p].kind # "hand"
  <2>1. HoldsClaim(p)
    BY <1>4 DEF HoldsClaim
  <2>2. /\ Key(work[p]) \in Keys /\ Key(work[p]) \in markers
        /\ acted[Key(work[p])] <= undone[Key(work[p])]
        /\ acted \in [Keys -> Nat] /\ undone \in [Keys -> Nat]
    BY <2>1 DEF ClaimInv, WakeupTypeOK
  <2>5. \A q \in Procs : HoldsClaim(q)' =>
          HoldsClaim(q) /\ Key(work'[q]) = Key(work[q]) /\ Key(work[q]) # Key(work[p])
    <3> SUFFICES ASSUME NEW q \in Procs, HoldsClaim(q)'
                 PROVE  HoldsClaim(q) /\ Key(work'[q]) = Key(work[q]) /\ Key(work[q]) # Key(work[p])
      OBVIOUS
    <3>1. q # p
      BY <1>2 DEF HoldsClaim
    <3>2. HoldsClaim(q) /\ work'[q] = work[q]
      BY <1>2, <3>1
    <3> QED BY <2>1, <3>1, <3>2 DEF ClaimInv
  <2>7. \A q, r \in Procs :
          HoldsClaim(q)' /\ HoldsClaim(r)' /\ Key(work'[q]) = Key(work'[r]) => q = r
    BY <2>5 DEF ClaimInv
  <2>3. CASE Notify(p) \/ Append(p)
    <3>1. acted' = [acted EXCEPT ![Key(work[p])] = @ + 1] /\ UNCHANGED <<undone, markers>>
      BY <2>2, <2>3 DEF Notify, Append, Act, store
    <3>2. \A k \in Keys : acted'[k] = IF k = Key(work[p]) THEN acted[k] + 1 ELSE acted[k]
      BY <2>2, <3>1
    <3>3. EventActsOnce'
      BY <2>2, <3>1, <3>2 DEF ClaimInv, EventActsOnce
    <3>4. \A k \in Keys : acted'[k] > undone'[k] => k \in markers'
      BY <2>2, <3>1, <3>2 DEF ClaimInv
    <3>5. \A q \in Procs : HoldsClaim(q)' =>
            /\ Key(work'[q]) \in Keys /\ Key(work'[q]) \in markers'
            /\ acted'[Key(work'[q])] <= undone'[Key(work'[q])]
      BY <2>5, <3>1, <3>2 DEF ClaimInv
    <3> QED BY <2>7, <3>3, <3>4, <3>5 DEF ClaimInv, Key
  <2>4. CASE Raise(p)
    <3>1. markers' = markers \ {Key(work[p])} /\ UNCHANGED <<acted, undone>>
      BY <2>4 DEF Raise, GiveBack, acts
    <3>2. \A k \in Keys : acted[k] > undone[k] => k \in markers'
      BY <2>2, <3>1 DEF ClaimInv
    <3>3. EventActsOnce'
      BY <3>1 DEF ClaimInv, EventActsOnce
    <3>4. \A k \in Keys : acted'[k] > undone'[k] => k \in markers'
      BY <3>1, <3>2
    <3>5. \A q \in Procs : HoldsClaim(q)' =>
            /\ Key(work'[q]) \in Keys /\ Key(work'[q]) \in markers'
            /\ acted'[Key(work'[q])] <= undone'[Key(work'[q])]
      BY <2>5, <3>1 DEF ClaimInv
    <3> QED BY <2>7, <3>3, <3>4, <3>5 DEF ClaimInv, Key
  <2>6. CASE NotifyTimesOut(p)
    <3>1. /\ markers' = markers \ {Key(work[p])}
          /\ acted' = [acted EXCEPT ![Key(work[p])] = @ + 1]
          /\ undone' = [undone EXCEPT ![Key(work[p])] = @ + 1]
      BY <2>2, <2>6 DEF NotifyTimesOut, GiveBack, Act
    <3>2. Key(work[p])[1] = "reminded"
      BY <2>6 DEF NotifyTimesOut, Reminding, Key
    <3>3. \A k \in Keys :
             /\ acted'[k] = IF k = Key(work[p]) THEN acted[k] + 1 ELSE acted[k]
             /\ undone'[k] = IF k = Key(work[p]) THEN undone[k] + 1 ELSE undone[k]
      BY <2>2, <3>1
    <3>4. EventActsOnce'
      BY <2>2, <3>2, <3>3 DEF ClaimInv, EventActsOnce
    <3> QED BY <2>2, <2>5, <3>1, <3>3, <3>4 DEF ClaimInv, Key
  <2> QED BY <2>3, <2>4, <2>6
<1> QED BY <1>3, <1>4

LEMMA ClaimStep ==
    ASSUME WakeupTypeOK, ClaimInv, \A p \in Procs : Reminding(p), [Next]_vars
    PROVE  ClaimInv'
<1>1. CASE UNCHANGED vars
  BY <1>1, ClaimsRest DEF vars, acts, HoldsClaim
<1>2. CASE \/ Tick
           \/ \E s \in Sessions :
                 \/ Turn(s) \/ Refuse(s) \/ SelfContinue(s) \/ GiveUp(s)
                 \/ Measure(s) \/ SetAutoSchedule(s)
  <2>1. UNCHANGED <<acts, markers, pc, work>>
    BY <1>2 DEF Tick, Turn, Refuse, SelfContinue, GiveUp, Writes, Measure, SetAutoSchedule, store,
       local
  <2> QED BY <2>1, ClaimsRest DEF HoldsClaim
<1>3. ASSUME NEW p \in Procs, ClaimCutoff(p)
      PROVE  ClaimInv'
  <2>1. pc[p] = "cutoffs" /\ todo[p] \subseteq Observations /\ UNCHANGED acts
    BY <1>3 DEF ClaimCutoff, WakeupTypeOK, Scanning
  <2>2. PICK e \in todo[p] : \/ Unclaimed(e) /\ Claim(p, e, "snapshot")
                             \/ UNCHANGED <<markers, work, pc>>
    BY <1>3 DEF ClaimCutoff
  <2>3. CASE Unclaimed(e) /\ Claim(p, e, "snapshot")
    BY <2>1, <2>3, ClaimIsExclusive DEF Acting
  <2>4. CASE UNCHANGED <<markers, work, pc>>
    BY <2>1, <2>4, ClaimsRest DEF HoldsClaim
  <2> QED BY <2>2, <2>3, <2>4
<1>4. ASSUME NEW p \in Procs, ClaimUsage(p)
      PROVE  ClaimInv'
  <2>1. pc[p] = "usage" /\ todo[p] \subseteq Observations /\ UNCHANGED acts
    BY <1>4 DEF ClaimUsage, WakeupTypeOK, Scanning
  <2>2. PICK e \in todo[p] :
          \/ \E f \in {e, Event("scheduled", e.session, e.reset, "force")}, next \in Acting :
                Unclaimed(f) /\ Claim(p, f, next)
          \/ UNCHANGED <<markers, work, pc>>
    BY <1>4 DEF ClaimUsage, Acting
  <2>3. ASSUME NEW f \in {e, Event("scheduled", e.session, e.reset, "force")},
               NEW next \in Acting, Unclaimed(f), Claim(p, f, next)
        PROVE  ClaimInv'
    <3>1. f \in Observations
      BY <2>1 DEF Observations, Event, Kinds, Levels
    <3> QED BY <2>1, <2>3, <3>1, ClaimIsExclusive DEF Acting
  <2>4. CASE UNCHANGED <<markers, work, pc>>
    BY <2>1, <2>4, ClaimsRest DEF HoldsClaim
  <2> QED BY <2>2, <2>3, <2>4
<1>5. ASSUME NEW p \in Procs, Notify(p) \/ Append(p) \/ Raise(p) \/ NotifyTimesOut(p)
      PROVE  ClaimInv'
  BY <1>5, ClaimIsSettled DEF Notify, Append, Raise, NotifyTimesOut, Acting
<1>6. ASSUME NEW p \in Procs,
             \/ StartPass(p) \/ ReadUsage(p) \/ ScheduleByHand(p) \/ Snapshot(p) \/ StartScan(p)
             \/ Check(p) \/ Deliver(p) \/ Settle(p) \/ EndScan(p) \/ Crash(p)
      PROVE  ClaimInv'
  <2>1. UNCHANGED <<acts, markers>>
    BY <1>6 DEF StartPass, ReadUsage, ScheduleByHand, Snapshot, StartScan, Check, Deliver,
       Settle, EndScan, Crash, store
  <2>2. \A q \in Procs \ {p} : HoldsClaim(q)' => HoldsClaim(q) /\ work'[q] = work[q]
    BY <1>6 DEF StartPass, ReadUsage, ScheduleByHand, Snapshot, StartScan, Check, Deliver,
       Settle, EndScan, Crash, Stop, Goto, HoldsClaim, WakeupTypeOK
  <2>3. CASE ~Snapshot(p) /\ ~ScheduleByHand(p)
    <3>1. pc'[p] \notin Acting
      BY <1>6, <2>3 DEF StartPass, ReadUsage, StartScan, Check, Deliver,
         Settle, EndScan, Crash, Stop, Goto, Acting, WakeupTypeOK
    <3> QED BY <2>1, <2>2, <3>1, ClaimsRest DEF HoldsClaim
  <2>4. CASE Snapshot(p)
    <3>1. pc[p] \in Acting /\ UNCHANGED work
      BY <2>4 DEF Snapshot, Acting
    <3> QED BY <2>1, <2>2, <3>1, ClaimsRest DEF HoldsClaim
  <2>5. CASE ScheduleByHand(p)
    <3>1. work'[p].kind = "hand"
      BY <2>5 DEF ScheduleByHand, Event, WakeupTypeOK
    <3> QED BY <2>1, <2>2, <3>1, ClaimsRest DEF HoldsClaim
  <2> QED BY <2>3, <2>4, <2>5
<1> QED BY <1>1, <1>2, <1>3, <1>4, <1>5, <1>6 DEF Next, Pass

\* Steps that take up no event keep the kinds of those in hand.
LEMMA KindsStep ==
    ASSUME WakeupTypeOK, \A p \in Procs : Reminding(p), [Next]_vars
    PROVE  \A p \in Procs : Reminding(p)'
<1>1. CASE \/ UNCHANGED vars \/ Tick
           \/ \E s \in Sessions :
                 \/ Turn(s) \/ Refuse(s) \/ SelfContinue(s) \/ GiveUp(s)
                 \/ Measure(s) \/ SetAutoSchedule(s)
  <2>1. UNCHANGED <<pc, work, todo>>
    BY <1>1 DEF vars, Tick, Turn, Refuse, SelfContinue, GiveUp, Writes, Measure, SetAutoSchedule,
       local
  <2> QED BY <2>1 DEF Reminding
<1>2. ASSUME NEW p \in Procs, Pass(p) \/ ScheduleByHand(p) \/ Crash(p)
      PROVE  \A q \in Procs : Reminding(q)'
  <2>1. \A q \in Procs \ {p} : pc'[q] = pc[q] /\ work'[q] = work[q] /\ todo'[q] = todo[q]
    <3>1. CASE StartPass(p) \/ ClaimCutoff(p) \/ ReadUsage(p) \/ ClaimUsage(p) \/ Notify(p)
      BY <3>1 DEF StartPass, ClaimCutoff, ReadUsage, ClaimUsage, Notify, Claim, Goto, WakeupTypeOK
    <3>2. CASE NotifyTimesOut(p) \/ Snapshot(p) \/ Append(p) \/ Raise(p) \/ ScheduleByHand(p)
      BY <3>2 DEF NotifyTimesOut, Snapshot, Append, Raise, GiveBack, ScheduleByHand, Stop, Goto,
         WakeupTypeOK
    <3>3. CASE StartScan(p) \/ Check(p) \/ Deliver(p) \/ Settle(p) \/ EndScan(p) \/ Crash(p)
      BY <3>3 DEF StartScan, Check, Deliver, Settle, EndScan, Crash, Stop, Goto, WakeupTypeOK
    <3> QED BY <1>2, <3>1, <3>2, <3>3 DEF Pass
  <2>2. Reminding(p)'
    <3>1. CASE ReadUsage(p)
      <4>1. pc'[p] = "usage"
            /\ todo'[p] = {Event("reminded", s, usage[s], "none") :
                              s \in {t \in Sessions : usage[t] > now[p]}}
        BY <3>1 DEF ReadUsage, Goto, WakeupTypeOK
      <4> QED BY <4>1 DEF Reminding, Event, Acting
    <3>2. CASE ClaimCutoff(p)
      <4>1. pc[p] = "cutoffs" /\ todo'[p] \subseteq todo[p]
            /\ \A e \in todo[p] : e.kind = "cutoff"
        BY <3>2 DEF ClaimCutoff, Reminding, WakeupTypeOK
      <4>2. PICK e \in todo[p] : Claim(p, e, "snapshot") \/ UNCHANGED <<work, pc>>
        BY <3>2 DEF ClaimCutoff
      <4>5. \A f \in todo'[p] : f.kind = "cutoff"
        BY <4>1
      <4>3. CASE UNCHANGED <<work, pc>>
        <5>1. pc'[p] = "cutoffs"
          BY <4>1, <4>3
        <5> QED BY <4>5, <5>1 DEF Reminding, Acting
      <4>4. CASE Claim(p, e, "snapshot")
        <5>1. pc'[p] = "snapshot" /\ work'[p] = e /\ e.kind = "cutoff"
          BY <4>1, <4>4 DEF Claim, Goto, WakeupTypeOK
        <5> QED BY <4>5, <5>1 DEF Reminding
      <4> QED BY <4>2, <4>3, <4>4
    <3>3. CASE ClaimUsage(p)
      <4>1. pc[p] = "usage" /\ \A e \in todo[p] : e.kind = "reminded"
        BY <3>3 DEF ClaimUsage, Reminding
      <4>2. todo'[p] \subseteq todo[p]
        BY <3>3 DEF ClaimUsage, WakeupTypeOK
      <4>3. PICK e \in todo[p] :
               \/ Claim(p, e, "notify")
               \/ \E f \in {Event("scheduled", e.session, e.reset, "force")} :
                     Claim(p, f, "snapshot")
               \/ UNCHANGED <<work, pc>>
        BY <3>3 DEF ClaimUsage
      <4>4. \A f \in todo'[p] : f.kind = "reminded"
        BY <4>1, <4>2
      <4>5. pc'[p] # "cutoffs"
        BY <4>1, <4>3 DEF Claim, Goto, WakeupTypeOK
      <4>6. pc'[p] \in Acting =>
               /\ work'[p].kind \in {"scheduled", "reminded"}
               /\ pc'[p] = "notify" => work'[p].kind = "reminded"
        BY <4>1, <4>3 DEF Claim, Goto, Event, Acting, WakeupTypeOK
      <4> QED BY <4>4, <4>5, <4>6 DEF Reminding, Acting
    <3>4. CASE Append(p)
      <4>1. pc[p] = "append" /\ pc'[p] \in {"idle", "cutoffs", "usage"} /\ work[p] \in Events
        BY <3>4 DEF Append, Stop, Goto, WakeupTypeOK, Acting
      <4>2. /\ pc'[p] = "usage" => work[p].kind \in {"scheduled", "reminded"} /\ todo'[p] = todo[p]
            /\ pc'[p] = "cutoffs" => work[p].kind = "cutoff" /\ todo'[p] = todo[p]
        BY <3>4, <4>1 DEF Append, Stop, Goto, WakeupTypeOK, Events, Kinds
      <4> QED BY <4>1, <4>2 DEF Reminding, Acting
    <3>5. CASE Notify(p)
      BY <3>5 DEF Notify, Reminding, Goto, Acting, WakeupTypeOK
    <3>6. CASE Snapshot(p)
      BY <3>6 DEF Snapshot, Reminding, Goto, Acting, WakeupTypeOK
    <3>7. CASE ScheduleByHand(p)
      BY <3>7 DEF ScheduleByHand, Event, Reminding, Goto, Acting, WakeupTypeOK
    <3>9. CASE StartPass(p)
      <4>1. pc'[p] = "cutoffs" /\ \A e \in todo'[p] : e.kind = "cutoff"
        BY <3>9 DEF StartPass, Goto, Event, WakeupTypeOK
      <4> QED BY <4>1 DEF Reminding, Acting
    <3>8. CASE \/ NotifyTimesOut(p) \/ Raise(p) \/ StartScan(p) \/ Check(p)
               \/ Deliver(p) \/ Settle(p) \/ EndScan(p) \/ Crash(p)
      <4>1. pc'[p] \notin Acting \cup {"usage", "cutoffs"}
        BY <3>8 DEF NotifyTimesOut, Raise, GiveBack, StartScan, Check, Deliver, Settle,
           EndScan, Crash, Stop, Goto, Acting, WakeupTypeOK
      <4> QED BY <4>1 DEF Reminding, Acting
    <3> QED BY <1>2, <3>1, <3>2, <3>3, <3>4, <3>5, <3>6, <3>7, <3>8, <3>9 DEF Pass
  <2> QED BY <2>1, <2>2 DEF Reminding
<1> QED BY <1>1, <1>2 DEF Next

(* However many passes observe an event, die or fail, it schedules at most   *)
(* one wakeup, and reminds once more only where a notification timed out     *)
(* after it was shown (monitor_usage, _claim_event, _default_notifier).      *)
THEOREM EventsActOnce == Spec => []EventActsOnce
<1> DEFINE KindInv == \A p \in Procs : Reminding(p)
<1>1. Init => ClaimInv /\ KindInv
  BY DEF Init, ClaimInv, HoldsClaim, Reminding, EventActsOnce, Acting
<1>2. WakeupTypeOK /\ ClaimInv /\ KindInv /\ [Next]_vars => ClaimInv' /\ KindInv'
  BY ClaimStep, KindsStep
<1>3. ClaimInv => EventActsOnce
  BY DEF ClaimInv
<1> HIDE DEF KindInv
<1> QED BY <1>1, <1>2, <1>3, WakeupTypeCorrect, PTL DEF Spec

-----------------------------------------------------------------------------
(* One scanner works at a time, and what it is about to deliver was          *)
(* scheduled after the last resumption of its session.                       *)

ScanInv ==
    /\ \A p \in Procs : pc[p] \in Scanning => scanner = p
    /\ \A s \in Sessions : woken[s] <= transcript[s].length
    /\ \A p \in Procs : pc[p] = "deliver" => woken[work[p].session] <= work[p].state

\* The steps of a pass but its deliveries write to no transcript.
Quiet(p) ==
    \/ StartPass(p) \/ ClaimCutoff(p) \/ ReadUsage(p) \/ ClaimUsage(p) \/ Notify(p)
    \/ NotifyTimesOut(p) \/ Snapshot(p) \/ Append(p) \/ Raise(p)
    \/ StartScan(p) \/ Check(p) \/ Settle(p) \/ EndScan(p)
LEMMA QuietSteps ==
    ASSUME NEW p \in Procs, Quiet(p)
    PROVE  UNCHANGED <<transcript, woken>>
<1>1. CASE StartPass(p) \/ ClaimCutoff(p) \/ ReadUsage(p) \/ ClaimUsage(p) \/ Notify(p)
  BY <1>1 DEF StartPass, ClaimCutoff, ReadUsage, ClaimUsage, Notify
<1>2. CASE NotifyTimesOut(p) \/ Snapshot(p) \/ Append(p) \/ Raise(p)
  BY <1>2 DEF NotifyTimesOut, Snapshot, Append, Raise, GiveBack
<1>3. CASE StartScan(p) \/ Check(p) \/ Settle(p) \/ EndScan(p)
  BY <1>3 DEF StartScan, Check, Settle, EndScan
<1> QED BY <1>1, <1>2, <1>3 DEF Quiet

\* Transcripts only grow.
LEMMA TranscriptsGrow ==
    ASSUME WakeupTypeOK, [Next]_vars, NEW s \in Sessions
    PROVE  transcript[s].length <= transcript'[s].length
<1>1. CASE \E u \in Sessions : Turn(u) \/ Refuse(u) \/ SelfContinue(u) \/ GiveUp(u)
  <2>1. PICK u \in Sessions, n \in {0, 1} : \E reset, last : transcript' = Grown(u, n, reset, last)
    BY <1>1 DEF Turn, Refuse, SelfContinue, GiveUp, Writes
  <2> QED BY <2>1 DEF Grown, WakeupTypeOK
<1>2. CASE \E p \in Procs : Deliver(p)
  <2>1. PICK p \in Procs : Deliver(p)
    BY <1>2
  <2>2. CASE UNCHANGED transcript
    BY <2>2 DEF WakeupTypeOK
  <2>3. CASE \E reset, last : transcript' = Grown(work[p].session, 1, reset, last)
    BY <2>3 DEF Grown, WakeupTypeOK
  <2> QED BY <2>1, <2>2, <2>3 DEF Deliver
<1>3. CASE UNCHANGED transcript
  BY <1>3 DEF WakeupTypeOK
<1>4. CASE UNCHANGED vars \/ Tick \/ \E u \in Sessions : Measure(u) \/ SetAutoSchedule(u)
  <2>1. UNCHANGED transcript
    BY <1>4 DEF vars, Tick, Measure, SetAutoSchedule
  <2> QED BY <2>1, <1>3
<1>5. CASE \E p \in Procs : Quiet(p) \/ ScheduleByHand(p) \/ Crash(p)
  <2>1. UNCHANGED transcript
    BY <1>5, QuietSteps DEF ScheduleByHand, Crash
  <2> QED BY <2>1, <1>3
<1> QED BY <1>1, <1>2, <1>4, <1>5 DEF Next, Pass, Quiet

\* Steps that resume no session and take up no delivery.
LEMMA ScanRests ==
    ASSUME WakeupTypeOK, WakeupTypeOK', ScanInv, UNCHANGED woken,
           \A s \in Sessions : transcript[s].length <= transcript'[s].length,
           \A q \in Procs : pc'[q] \in Scanning => scanner' = q,
           \A q \in Procs : pc'[q] = "deliver" => pc[q] = "deliver" /\ work'[q] = work[q]
    PROVE  ScanInv'
<1>1. \A s \in Sessions : woken'[s] <= transcript'[s].length
  <2> TAKE s \in Sessions
  <2>1. woken'[s] <= transcript[s].length /\ transcript[s].length <= transcript'[s].length
    BY DEF ScanInv
  <2>2. woken'[s] \in Nat /\ transcript[s].length \in Nat /\ transcript'[s].length \in Nat
    BY DEF WakeupTypeOK
  <2> QED BY <2>1, <2>2
<1> QED BY <1>1 DEF ScanInv

LEMMA ScanStep ==
    ASSUME WakeupTypeOK, WakeupTypeOK', ScanInv, [Next]_vars
    PROVE  ScanInv'
<1>0. \A s \in Sessions : transcript[s].length <= transcript'[s].length
  BY TranscriptsGrow
<1>1. CASE \/ UNCHANGED vars \/ Tick
           \/ \E s \in Sessions :
                 \/ Turn(s) \/ Refuse(s) \/ SelfContinue(s) \/ GiveUp(s)
                 \/ Measure(s) \/ SetAutoSchedule(s)
  <2>1. UNCHANGED <<woken, pc, work, scanner>>
    BY <1>1 DEF vars, Tick, Turn, Refuse, SelfContinue, GiveUp, Writes, Measure,
       SetAutoSchedule, local
  <2> QED BY <1>0, <2>1, ScanRests DEF ScanInv
<1>2. ASSUME NEW p \in Procs,
             \/ StartPass(p) \/ ClaimCutoff(p) \/ ReadUsage(p) \/ ClaimUsage(p) \/ Notify(p)
             \/ ScheduleByHand(p) \/ Snapshot(p) \/ Append(p) \/ Raise(p) \/ NotifyTimesOut(p)
      PROVE  ScanInv'
  <2>1. UNCHANGED <<woken, scanner>>
    BY <1>2 DEF StartPass, ClaimCutoff, ReadUsage, ClaimUsage, Notify, ScheduleByHand, Snapshot,
       Append, Raise, NotifyTimesOut, GiveBack
  <2>2. /\ pc'[p] \notin Scanning
        /\ \A q \in Procs \ {p} : pc'[q] = pc[q] /\ work'[q] = work[q]
    BY <1>2 DEF StartPass, ClaimCutoff, ReadUsage, ClaimUsage, Claim, Notify, ScheduleByHand,
       Snapshot, Append, Raise, NotifyTimesOut, GiveBack, Stop, Goto, Scanning, WakeupTypeOK
  <2> QED BY <1>0, <2>1, <2>2, ScanRests DEF ScanInv, Scanning
<1>3. ASSUME NEW p \in Procs, StartScan(p) \/ Settle(p) \/ EndScan(p) \/ Crash(p)
      PROVE  ScanInv'
  <2>1. /\ UNCHANGED woken
        /\ \A q \in Procs \ {p} : pc'[q] = pc[q] /\ work'[q] = work[q]
        /\ pc'[p] \in {"idle", "jobs"}
    BY <1>3 DEF StartScan, Settle, EndScan, Crash, Stop, Goto, WakeupTypeOK
  <2>2. \A q \in Procs : pc'[q] \in Scanning => scanner' = q
    BY <1>3, <2>1, WakeupAssumption
       DEF StartScan, LockFree, Settle, EndScan, Crash, Stop, Goto, ScanInv, Scanning, WakeupTypeOK
  <2> QED BY <1>0, <2>1, <2>2, ScanRests
<1>4. ASSUME NEW p \in Procs, Check(p)
      PROVE  ScanInv'
  <2>1. /\ UNCHANGED <<woken, transcript, scanner>> /\ pc[p] = "jobs" /\ pc'[p] \in Scanning
        /\ \A q \in Procs \ {p} : pc'[q] = pc[q] /\ work'[q] = work[q]
    BY <1>4 DEF Check, Goto, Scanning, WakeupTypeOK
  <2>2. PICK j \in todo[p] : work'[p] = j /\ (pc'[p] = "deliver" => ~Progressed(j))
    BY <1>4 DEF Check, Goto, WakeupTypeOK
  <2>3. j \in Jobs
    BY <2>1 DEF WakeupTypeOK, Scanning
  <2>4. pc'[p] = "deliver" => woken[j.session] <= j.state
    BY <2>2, <2>3 DEF Progressed, ScanInv, Jobs
  <2> QED BY <2>1, <2>2, <2>4 DEF ScanInv, Scanning
<1>5. ASSUME NEW p \in Procs, Deliver(p)
      PROVE  ScanInv'
  <2>1. /\ UNCHANGED scanner /\ pc[p] = "deliver" /\ pc'[p] \in {"drop", "retry"}
        /\ \A q \in Procs \ {p} : pc'[q] = pc[q] /\ work'[q] = work[q]
    BY <1>5 DEF Deliver, Goto, WakeupTypeOK
  <2>2. \A q \in Procs \ {p} : pc[q] \notin Scanning
    BY <2>1 DEF ScanInv, Scanning
  <2>3. \A s \in Sessions : woken'[s] <= transcript'[s].length
    <3>1. CASE UNCHANGED <<transcript, woken>>
      BY <3>1 DEF ScanInv
    <3>2. CASE /\ woken' = [woken EXCEPT
                               ![work[p].session] = transcript[work[p].session].length + 1]
               /\ transcript' = Grown(work[p].session, 1, transcript[work[p].session].reset, "turn")
      BY <3>2 DEF ScanInv, Grown, WakeupTypeOK
    <3> QED BY <1>5, <3>1, <3>2 DEF Deliver
  <2> QED BY <2>1, <2>2, <2>3 DEF ScanInv, Scanning
<1> QED BY <1>1, <1>2, <1>3, <1>4, <1>5 DEF Next, Pass

LEMMA ScanInvariance == Spec => [](WakeupTypeOK /\ ScanInv)
<1>1. Init => ScanInv
  BY DEF Init, ScanInv, Scanning
<1>2. WakeupTypeOK /\ WakeupTypeOK' /\ ScanInv /\ [Next]_vars => ScanInv'
  BY ScanStep
<1> QED BY <1>1, <1>2, WakeupTypeCorrect, PTL DEF Spec

(* Whatever fails, dies or interferes, a session is never resumed for a job  *)
(* scheduled before its last resumption (_run_locked_due, run_due).          *)
THEOREM ResumedOnce == Spec => NoSecondWakeup
<1>1. WakeupTypeOK /\ ScanInv /\ [Next]_vars => [ResumesFreshly]_vars
  <2> SUFFICES ASSUME WakeupTypeOK, ScanInv, Next, NEW s \in Sessions, woken'[s] # woken[s]
               PROVE  \E p \in Procs : /\ pc[p] = "deliver" /\ work[p].session = s
                                       /\ work[p].state >= woken[s]
    BY DEF ResumesFreshly
  <2>1. PICK p \in Procs : Deliver(p)
    <3>1. ASSUME Tick \/ \E u \in Sessions : \/ Turn(u) \/ Refuse(u) \/ SelfContinue(u) \/ GiveUp(u)
                                            \/ Measure(u) \/ SetAutoSchedule(u)
          PROVE  FALSE
      BY <3>1 DEF Tick, Turn, Refuse, SelfContinue, GiveUp, Writes, Measure, SetAutoSchedule
    <3>2. ASSUME NEW q \in Procs, Quiet(q) \/ ScheduleByHand(q) \/ Crash(q)
          PROVE  FALSE
      BY <3>2, QuietSteps DEF ScheduleByHand, Crash
    <3> QED BY <3>1, <3>2 DEF Next, Pass, Quiet
  <2>2. pc[p] = "deliver" /\ work[p].session = s /\ work[p] \in Jobs
    BY <2>1 DEF Deliver, WakeupTypeOK
  <2>3. woken[s] <= work[p].state /\ woken[s] \in Nat /\ work[p].state \in Nat
    BY <2>2 DEF ScanInv, WakeupTypeOK, Jobs
  <2> QED BY <2>2, <2>3
<1> QED BY <1>1, ScanInvariance, PTL DEF NoSecondWakeup, Spec

-----------------------------------------------------------------------------
(* Copies of jobs stay faithful: what a scanner holds agrees with the queue  *)
(* on everything but the time, and no snapshot is ahead of its session.      *)

Same(j, c) == j.session = c.session /\ j.state = c.state /\ j.level = c.level
Faithful(c) ==
    /\ c.id <= drawn
    /\ c.state <= transcript[c.session].length
    /\ \A j \in jobs : j.id = c.id => Same(j, c)
Fine(p) ==
    /\ pc[p] \in Scanning => \A c \in todo[p] : Faithful(c)
    /\ pc[p] \in {"deliver", "drop", "retry"} => Faithful(work[p])
    /\ pc[p] = "append" => shot[p] <= transcript[work[p].session].length
    /\ pc[p] = "drop" => Progressed(work[p]) \/ work[p].level = "interrupted"
FaithInv == (\A j \in jobs : Faithful(j)) /\ \A p \in Procs : Fine(p)

\* What every step does to the queue and the transcripts.
Evolve ==
    /\ drawn <= drawn'
    /\ \A s \in Sessions : transcript[s].length <= transcript'[s].length
    /\ \A k \in jobs' : k.id > drawn \/ \E j \in jobs : j.id = k.id /\ Same(j, k)

LEMMA FaithfulKept ==
    ASSUME WakeupTypeOK, WakeupTypeOK', Evolve, NEW c \in Jobs, Faithful(c)
    PROVE  Faithful(c)'
<1>1. c.id <= drawn'
  BY DEF Evolve, Faithful, Jobs, WakeupTypeOK
<1>2. c.state <= transcript'[c.session].length
  <2>1. /\ c.session \in Sessions /\ c.state \in Nat
        /\ transcript[c.session].length \in Nat /\ transcript'[c.session].length \in Nat
    BY DEF Jobs, WakeupTypeOK
  <2> QED BY <2>1 DEF Evolve, Faithful
<1>3. ASSUME NEW k \in jobs', k.id = c.id
      PROVE  Same(k, c)
  <2>1. c.id <= drawn /\ c.id \in Nat /\ drawn \in Nat
    BY DEF Faithful, Jobs, WakeupTypeOK
  <2>2. ~(k.id > drawn)
    BY <1>3, <2>1
  <2>3. PICK j \in jobs : j.id = k.id /\ Same(j, k)
    BY <2>2 DEF Evolve
  <2>4. Same(j, c)
    BY <1>3, <2>3 DEF Faithful
  <2> QED BY <2>3, <2>4 DEF Same
<1> QED BY <1>1, <1>2, <1>3 DEF Faithful

\* Progress is never undone.
LEMMA ProgressKept ==
    ASSUME WakeupTypeOK, WakeupTypeOK', Evolve, NEW c \in Jobs, Faithful(c), Progressed(c)
    PROVE  Progressed(c)'
<1>1. /\ c.session \in Sessions /\ c.state \in Nat
      /\ transcript[c.session].length \in Nat /\ transcript'[c.session].length \in Nat
  BY DEF Jobs, WakeupTypeOK
<1>2. /\ transcript[c.session].length <= transcript'[c.session].length
      /\ c.state <= transcript[c.session].length
  BY <1>1 DEF Evolve, Faithful
<1>3. transcript[c.session].length # c.state
  BY DEF Progressed
<1>4. transcript'[c.session].length # c.state
  BY <1>1, <1>2, <1>3
<1> QED BY <1>4 DEF Progressed

\* A process that does not move stays fine.
LEMMA FineKept ==
    ASSUME WakeupTypeOK, WakeupTypeOK', Evolve, NEW q \in Procs, Fine(q),
           pc'[q] = pc[q], todo'[q] = todo[q], work'[q] = work[q], shot'[q] = shot[q]
    PROVE  Fine(q)'
<1>1. pc[q] \in Scanning => \A c \in todo[q] : Faithful(c)'
  BY FaithfulKept DEF Fine, WakeupTypeOK
<1>2. pc[q] \in {"deliver", "drop", "retry"} => Faithful(work[q])'
  <2> SUFFICES ASSUME pc[q] \in {"deliver", "drop", "retry"}
               PROVE  Faithful(work[q])'
    OBVIOUS
  <2>1. PICK c \in Jobs : c = work[q] /\ Faithful(c)
    BY DEF Fine, WakeupTypeOK
  <2>2. Faithful(c)'
    BY <2>1, FaithfulKept
  <2> QED BY <2>1, <2>2 DEF Faithful
<1>3. pc[q] = "append" => shot[q] <= transcript'[work[q].session].length
  <2> SUFFICES ASSUME pc[q] = "append" PROVE shot[q] <= transcript'[work[q].session].length
    OBVIOUS
  <2>1. work[q].session \in Sessions
    BY DEF WakeupTypeOK, Acting, Events
  <2>2. /\ shot[q] \in Nat /\ transcript[work[q].session].length \in Nat
        /\ transcript'[work[q].session].length \in Nat
    BY <2>1 DEF WakeupTypeOK
  <2> QED BY <2>1, <2>2 DEF Fine, Evolve
<1>4. pc[q] = "drop" => Progressed(work[q])' \/ work[q].level = "interrupted"
  <2> SUFFICES ASSUME pc[q] = "drop", work[q].level # "interrupted" PROVE Progressed(work[q])'
    OBVIOUS
  <2>1. PICK c \in Jobs : c = work[q] /\ Faithful(c) /\ Progressed(c)
    BY DEF Fine, WakeupTypeOK
  <2>2. Progressed(c)'
    BY <2>1, ProgressKept
  <2> QED BY <2>1, <2>2 DEF Progressed
<1> QED BY <1>1, <1>2, <1>3, <1>4 DEF Fine, Faithful, Progressed

\* A step that leaves the queue alone and holds nothing new.
LEMMA FaithRests ==
    ASSUME WakeupTypeOK, WakeupTypeOK', FaithInv, UNCHANGED <<jobs, drawn>>,
           \A s \in Sessions : transcript[s].length <= transcript'[s].length,
           \A q \in Procs : \/ /\ pc'[q] = pc[q] /\ todo'[q] = todo[q]
                               /\ work'[q] = work[q] /\ shot'[q] = shot[q]
                            \/ Fine(q)'
    PROVE  Evolve /\ FaithInv'
<1>1. Evolve
  BY DEF Evolve, Same, WakeupTypeOK
<1>2. \A j \in jobs' : Faithful(j)'
  BY <1>1, FaithfulKept DEF FaithInv, WakeupTypeOK
<1>3. \A q \in Procs : Fine(q)'
  BY <1>1, FineKept DEF FaithInv
<1> QED BY <1>1, <1>2, <1>3 DEF FaithInv

LEMMA FaithStep ==
    ASSUME WakeupTypeOK, WakeupTypeOK', FaithInv, [Next]_vars
    PROVE  FaithInv'
<1>0. \A s \in Sessions : transcript[s].length <= transcript'[s].length
  BY TranscriptsGrow
<1>1. CASE \/ UNCHANGED vars \/ Tick
           \/ \E s \in Sessions :
                 \/ Turn(s) \/ Refuse(s) \/ SelfContinue(s) \/ GiveUp(s)
                 \/ Measure(s) \/ SetAutoSchedule(s)
  <2>1. UNCHANGED <<jobs, drawn, pc, todo, work, shot>>
    BY <1>1 DEF vars, Tick, Turn, Refuse, SelfContinue, GiveUp, Writes, Measure,
       SetAutoSchedule, local, store
  <2> QED BY <1>0, <2>1, FaithRests
<1>2. ASSUME NEW p \in Procs,
             \/ StartPass(p) \/ ClaimCutoff(p) \/ ReadUsage(p) \/ ClaimUsage(p) \/ Notify(p)
             \/ ScheduleByHand(p) \/ Raise(p) \/ NotifyTimesOut(p) \/ EndScan(p) \/ Crash(p)
      PROVE  FaithInv'
  <2>1. UNCHANGED <<jobs, drawn>>
    BY <1>2 DEF StartPass, ClaimCutoff, ReadUsage, ClaimUsage, Notify, ScheduleByHand, Raise,
       NotifyTimesOut, GiveBack, EndScan, Crash, store
  <2>2. /\ pc'[p] \notin Scanning \cup {"append"}
        /\ \A q \in Procs \ {p} : /\ pc'[q] = pc[q] /\ todo'[q] = todo[q]
                                  /\ work'[q] = work[q] /\ shot'[q] = shot[q]
    <3>1. CASE StartPass(p) \/ ReadUsage(p) \/ Notify(p) \/ ScheduleByHand(p)
      BY <3>1 DEF StartPass, ReadUsage, Notify, ScheduleByHand, Goto, Scanning, WakeupTypeOK
    <3>2. CASE ClaimCutoff(p) \/ ClaimUsage(p)
      BY <3>2 DEF ClaimCutoff, ClaimUsage, Claim, Goto, Scanning, WakeupTypeOK
    <3>3. CASE Raise(p) \/ NotifyTimesOut(p) \/ EndScan(p) \/ Crash(p)
      BY <3>3 DEF Raise, NotifyTimesOut, GiveBack, EndScan, Crash, Stop, Goto, Scanning, WakeupTypeOK
    <3> QED BY <1>2, <3>1, <3>2, <3>3
  <2>3. Fine(p)'
    BY <2>2 DEF Fine, Scanning
  <2> QED BY <1>0, <2>1, <2>2, <2>3, FaithRests
<1>3. ASSUME NEW p \in Procs, Snapshot(p) \/ StartScan(p) \/ Check(p) \/ Deliver(p)
      PROVE  FaithInv'
  <2>1. /\ UNCHANGED <<jobs, drawn>>
        /\ \A q \in Procs \ {p} : /\ pc'[q] = pc[q] /\ todo'[q] = todo[q]
                                  /\ work'[q] = work[q] /\ shot'[q] = shot[q]
    BY <1>3 DEF Snapshot, StartScan, Check, Deliver, store, Goto, Stop, WakeupTypeOK
  <2>2. Fine(p)'
    <3>1. CASE Snapshot(p)
      <4>1. /\ pc'[p] = "append" /\ UNCHANGED <<work, transcript>>
            /\ shot'[p] = transcript[work[p].session].length
        BY <3>1 DEF Snapshot, Goto, WakeupTypeOK
      <4>2. work[p].session \in Sessions
        BY <3>1 DEF Snapshot, WakeupTypeOK, Acting, Events
      <4> QED BY <4>1, <4>2 DEF Fine, Scanning, WakeupTypeOK
    <3>2. CASE StartScan(p)
      <4>1. /\ UNCHANGED transcript
            /\ pc'[p] = "idle" \/ (pc'[p] = "jobs" /\ todo'[p] \subseteq jobs)
        BY <3>2 DEF StartScan, Goto, Stop, WakeupTypeOK
      <4> QED BY <2>1, <4>1 DEF Fine, Scanning, FaithInv, Faithful
    <3>3. CASE Check(p)
      <4>1. PICK c \in todo[p] :
               /\ UNCHANGED transcript /\ work'[p] = c /\ todo'[p] = todo[p] \ {c}
               /\ pc[p] = "jobs" /\ pc'[p] \in {"deliver", "drop", "retry"}
               /\ pc'[p] = "drop" => Progressed(c) \/ c.level = "interrupted"
        BY <3>3 DEF Check, NoEvidence, Goto, WakeupTypeOK
      <4>2. \A d \in todo[p] : Faithful(d)
        BY <4>1 DEF FaithInv, Fine, Scanning
      <4> QED BY <2>1, <4>1, <4>2 DEF Fine, Scanning, Faithful, Progressed
    <3>4. CASE Deliver(p)
      <4> DEFINE c == work[p]
      <4>1. /\ pc[p] = "deliver" /\ UNCHANGED <<todo, work>> /\ c \in Jobs /\ Faithful(c)
            /\ \A d \in todo[p] : Faithful(d)
        BY <3>4 DEF Deliver, FaithInv, Fine, Scanning, WakeupTypeOK
      <4>2. Evolve
        BY <1>0, <2>1 DEF Evolve, Same, WakeupTypeOK
      <4>3. \A d \in todo'[p] : Faithful(d)'
        BY <4>1, <4>2, FaithfulKept DEF WakeupTypeOK, Scanning
      <4>4. Faithful(work[p])'
        <5>1. PICK d \in Jobs : d = work[p] /\ Faithful(d)
          BY <4>1
        <5>2. Faithful(d)'
          BY <5>1, <4>2, FaithfulKept
        <5> QED BY <4>1, <5>1, <5>2 DEF Faithful
      <4>5. pc'[p] = "drop" => Progressed(work[p])'
        <5>1. /\ c.session \in Sessions /\ c.state \in Nat
              /\ transcript[c.session].length \in Nat
          BY <4>1 DEF Jobs, WakeupTypeOK
        <5>2. pc'[p] = "drop" => transcript'[c.session].length = transcript[c.session].length + 1
          BY <3>4, <5>1 DEF Deliver, Grown, Goto, WakeupTypeOK
        <5> QED BY <4>1, <5>1, <5>2 DEF Faithful, Progressed
      <4>6. pc'[p] \in {"drop", "retry"}
        BY <3>4 DEF Deliver, Goto, WakeupTypeOK
      <4> QED BY <4>3, <4>4, <4>5, <4>6 DEF Fine, Scanning
    <3> QED BY <1>3, <3>1, <3>2, <3>3, <3>4
  <2> QED BY <1>0, <2>1, <2>2, FaithRests
<1>4. ASSUME NEW p \in Procs, Append(p)
      PROVE  FaithInv'
  <2>1. /\ pc[p] = "append" /\ UNCHANGED transcript
        /\ pc'[p] \in {"idle", "cutoffs", "usage"}
        /\ \A q \in Procs \ {p} : /\ pc'[q] = pc[q] /\ todo'[q] = todo[q]
                                  /\ work'[q] = work[q] /\ shot'[q] = shot[q]
    BY <1>4 DEF Append, Goto, Stop, WakeupTypeOK
  <2>2. \/ UNCHANGED <<jobs, drawn>>
        \/ jobs' = jobs \cup {NewJob(p)} /\ drawn' = drawn + 1
    BY <1>4 DEF Append, AppendJob
  <2>3. NewJob(p).id = drawn + 1
    BY DEF NewJob
  <2>4. Evolve
    BY <2>1, <2>2, <2>3 DEF Evolve, Same, WakeupTypeOK
  <2>5. ASSUME NEW k \in jobs'
        PROVE  Faithful(k)'
    <3>1. CASE k \in jobs
      BY <3>1, <2>4, FaithfulKept DEF FaithInv, WakeupTypeOK
    <3>2. CASE k \notin jobs
      <4>1. k = NewJob(p) /\ jobs' = jobs \cup {k} /\ drawn' = drawn + 1 /\ k.id = drawn + 1
        BY <3>2, <2>2, <2>3
      <4>2. k.session = work[p].session /\ k.state = shot[p]
        BY <4>1 DEF NewJob
      <4>3. \A j \in jobs : j.id # k.id
        BY <4>1 DEF FaithInv, Faithful, Jobs, WakeupTypeOK
      <4>4. k.state <= transcript'[k.session].length
        BY <4>2, <2>1 DEF FaithInv, Fine
      <4> QED BY <4>1, <4>3, <4>4 DEF Faithful, Same, WakeupTypeOK
    <3> QED BY <3>1, <3>2
  <2>6. Fine(p)'
    BY <2>1 DEF Fine, Scanning
  <2> QED BY <2>1, <2>4, <2>5, <2>6, FineKept DEF FaithInv
<1>5. ASSUME NEW p \in Procs, Settle(p)
      PROVE  FaithInv'
  <2>1. /\ UNCHANGED <<transcript, drawn>> /\ jobs' = UpdateJob(p)
        /\ pc[p] \in {"drop", "retry"} /\ pc'[p] = "jobs" /\ todo'[p] = todo[p]
        /\ \A q \in Procs \ {p} : /\ pc'[q] = pc[q] /\ todo'[q] = todo[q]
                                  /\ work'[q] = work[q] /\ shot'[q] = shot[q]
    BY <1>5 DEF Settle, Goto, WakeupTypeOK
  <2>2. PICK c \in Jobs : c = work[p] /\ Faithful(c)
    BY <2>1 DEF FaithInv, Fine, WakeupTypeOK
  <2>3. \A k \in jobs' : \/ k \in jobs
                         \/ /\ \E j \in jobs : j.id = c.id
                            /\ k.id = c.id /\ Same(k, c)
    <3>1. \A k \in Retried(p) : k.id = c.id /\ Same(k, c)
      BY <2>2 DEF Retried, Same, Jobs
    <3> QED BY <3>1, <2>1, <2>2 DEF UpdateJob
  <2>4. Evolve
    BY <2>1, <2>2, <2>3 DEF Evolve, Faithful, Same, WakeupTypeOK
  <2>5. Faithful(c)'
    BY <2>2, <2>4, FaithfulKept
  <2>6. ASSUME NEW k \in jobs'
        PROVE  Faithful(k)'
    <3>1. CASE k \in jobs
      BY <3>1, <2>4, FaithfulKept DEF FaithInv, WakeupTypeOK
    <3>2. CASE k.id = c.id /\ Same(k, c)
      BY <3>2, <2>5 DEF Faithful, Same
    <3> QED BY <2>3, <3>1, <3>2
  <2>7. \A d \in todo'[p] : Faithful(d)'
    BY <2>1, <2>4, FaithfulKept DEF FaithInv, Fine, Scanning, WakeupTypeOK
  <2>8. Fine(p)'
    BY <2>1, <2>7 DEF Fine
  <2> QED BY <2>1, <2>4, <2>6, <2>8, FineKept DEF FaithInv
<1> QED BY <1>1, <1>2, <1>3, <1>4, <1>5 DEF Next, Pass

LEMMA FaithInvariance == Spec => [](WakeupTypeOK /\ FaithInv)
<1>1. Init => FaithInv
  BY DEF Init, FaithInv, Fine, Scanning
<1>2. WakeupTypeOK /\ WakeupTypeOK' /\ FaithInv /\ [Next]_vars => FaithInv'
  BY FaithStep
<1> QED BY <1>1, <1>2, WakeupTypeCorrect, PTL DEF Spec

(* No job is lost: it leaves the queue when its session has gone on, or when *)
(* its evidence is missing (update_job, _retry).                             *)
THEOREM JobsKept == Spec => JobsLeaveForCause
<1>1. WakeupTypeOK /\ FaithInv /\ [Next]_vars => [LeavesForCause]_vars
  <2> SUFFICES ASSUME WakeupTypeOK, FaithInv, Next, NEW j \in jobs,
                      \A k \in jobs' : k.id # j.id
               PROVE  Progressed(j) \/ j.level = "interrupted"
    BY DEF LeavesForCause
  <2>1. PICK p \in Procs : Settle(p)
    <3>1. ASSUME Tick \/ \E u \in Sessions : \/ Turn(u) \/ Refuse(u) \/ SelfContinue(u) \/ GiveUp(u)
                                            \/ Measure(u) \/ SetAutoSchedule(u)
          PROVE  FALSE
      BY <3>1 DEF Tick, Turn, Refuse, SelfContinue, GiveUp, Writes, Measure,
         SetAutoSchedule, store
    <3>2. ASSUME NEW q \in Procs,
                 \/ StartPass(q) \/ ClaimCutoff(q) \/ ReadUsage(q) \/ ClaimUsage(q) \/ Notify(q)
                 \/ Snapshot(q) \/ Append(q) \/ Raise(q) \/ NotifyTimesOut(q)
          PROVE  FALSE
      BY <3>2 DEF StartPass, ClaimCutoff, ReadUsage, ClaimUsage, Notify, Snapshot, Append,
         AppendJob, Raise, NotifyTimesOut, GiveBack, store
    <3>3. ASSUME NEW q \in Procs,
                 \/ StartScan(q) \/ Check(q) \/ Deliver(q) \/ EndScan(q)
                 \/ ScheduleByHand(q) \/ Crash(q)
          PROVE  FALSE
      BY <3>3 DEF StartScan, Check, Deliver, EndScan, ScheduleByHand, Crash, store
    <3> QED BY <3>1, <3>2, <3>3 DEF Next, Pass
  <2>2. pc[p] \in {"drop", "retry"} /\ jobs' = UpdateJob(p) /\ work[p] \in Jobs
    BY <2>1 DEF Settle, WakeupTypeOK
  <2>3. j.id = work[p].id
    BY <2>2 DEF UpdateJob
  <2>4. pc[p] = "drop"
    <3>1. \A k \in Retried(p) : k.id = work[p].id
      BY <2>2 DEF Retried, Jobs
    <3>2. Retried(p) # {}
      BY DEF Retried
    <3> QED BY <3>1, <3>2, <2>2, <2>3 DEF UpdateJob
  <2>5. Same(j, work[p]) /\ (Progressed(work[p]) \/ work[p].level = "interrupted")
    BY <2>2, <2>3, <2>4 DEF FaithInv, Fine, Faithful
  <2> QED BY <2>5 DEF Same, Progressed
<1> QED BY <1>1, FaithInvariance, PTL DEF JobsLeaveForCause, Spec
=============================================================================
