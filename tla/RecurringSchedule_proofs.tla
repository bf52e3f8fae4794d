----------------------- MODULE RecurringSchedule_proofs -----------------------
(***************************************************************************)
(* The shared scheduler set for every number of contexts, jobs, plugin     *)
(* roots and processes, and every number of faults: types, locks, and what *)
(* the owner file and the settled records say of the set.                  *)
(***************************************************************************)
EXTENDS RecurringScheduleProperties, TLAPS

USE ScheduleAssumption DEF Absent

ProcType ==
    [pc : Places, op : Operations \cup {"none", "fallback"},
     own : Registrations \cup {None}, target : Registrations \cup {None},
     previous : Registrations \cup {None}, names : SUBSET Jobs]

LEMMA IdleType == Idle \in ProcType
  BY DEF Idle, ProcType, Places, None

LEMMA BecomeType ==
  ASSUME proc \in [Procs -> ProcType], NEW p \in Procs, NEW r \in ProcType, Become(p, r)
  PROVE  proc' \in [Procs -> ProcType]
  BY DEF Become

LEMMA GoType ==
  ASSUME proc \in [Procs -> ProcType], NEW p \in Procs, NEW at \in Places, Go(p, at)
  PROVE  proc' \in [Procs -> ProcType]
<1> DEFINE r == [proc[p] EXCEPT !.pc = at]
<1>1. r \in ProcType
  BY DEF ProcType
<1>2. QED
  BY <1>1, BecomeType DEF Go

LEMMA ReleaseType ==
  ASSUME ScheduleTypeOK, NEW p \in Procs, Release(p)
  PROVE  life' \in [Contexts -> Procs \cup {Nil}] /\ native' \in Procs \cup {Nil}
  BY DEF ScheduleTypeOK, Release

LEMMA QuitType ==
  ASSUME ScheduleTypeOK, NEW p \in Procs, Quit(p)
  PROVE  /\ proc' \in [Procs -> ProcType]
         /\ life' \in [Contexts -> Procs \cup {Nil}] /\ native' \in Procs \cup {Nil}
<1>1. proc \in [Procs -> ProcType]
  BY DEF ScheduleTypeOK, ProcType
<1>2. QED
  BY <1>1, IdleType, BecomeType, ReleaseType DEF Quit

LEMMA RaiseType ==
  ASSUME ScheduleTypeOK, NEW p \in Procs, Raise(p)
  PROVE  /\ proc' \in [Procs -> ProcType]
         /\ life' \in [Contexts -> Procs \cup {Nil}] /\ native' \in Procs \cup {Nil}
<1>1. proc \in [Procs -> ProcType]
  BY DEF ScheduleTypeOK, ProcType
<1>2. CASE proc[p].previous = None
  BY <1>2, QuitType DEF Raise
<1>3. CASE proc[p].previous # None
  <2> DEFINE r == [Idle EXCEPT !.pc = "load", !.op = "fallback", !.own = proc[p].own,
                               !.target = proc[p].previous]
  <2>1. r \in ProcType
    BY <1>1 DEF ProcType, Idle, Places, Locked, Steps
  <2>2. Become(p, r) /\ UNCHANGED locks
    BY <1>3 DEF Raise
  <2>3. QED
    BY <1>1, <2>1, <2>2, BecomeType DEF locks, ScheduleTypeOK
<1>4. QED
  BY <1>2, <1>3

LEMMA StoppedType ==
  ASSUME ScheduleTypeOK, NEW p \in Procs, Stopped(p)
  PROVE  /\ proc' \in [Procs -> ProcType]
         /\ life' \in [Contexts -> Procs \cup {Nil}] /\ native' \in Procs \cup {Nil}
         /\ faults' \in 0..MaxFaults
<1>1. faults' \in 0..MaxFaults
  BY DEF Stopped, ScheduleTypeOK
<1>2. QED
  BY <1>1, RaiseType, QuitType DEF Stopped

LEMMA DoneType ==
  ASSUME ScheduleTypeOK, NEW p \in Procs, NEW at \in Places, Done(p, at)
  PROVE  /\ proc' \in [Procs -> ProcType]
         /\ life' \in [Contexts -> Procs \cup {Nil}] /\ native' \in Procs \cup {Nil}
         /\ faults' \in 0..MaxFaults
<1>1. proc \in [Procs -> ProcType]
  BY DEF ScheduleTypeOK, ProcType
<1>2. QED
  BY <1>1, GoType DEF Done, locks, ScheduleTypeOK

-----------------------------------------------------------------------------
(* Types.                                                                    *)

LEMMA CallType ==
  ASSUME ScheduleTypeOK, NEW p \in Procs,
         \/ \E o \in Operations, c \in Contexts, g \in Plugins : Call(p, o, c, g)
         \/ Enter(p)
  PROVE  ScheduleTypeOK'
<1>0. proc \in [Procs -> ProcType]
  BY DEF ScheduleTypeOK, ProcType
<1>1. CASE \E o \in Operations, c \in Contexts, g \in Plugins : Call(p, o, c, g)
  <2>1. PICK o \in Operations, c \in Contexts, g \in Plugins : Call(p, o, c, g)
    BY <1>1
  <2> DEFINE r == [Idle EXCEPT !.pc = "called", !.op = o,
                               !.own = [ctx |-> c, plugin |-> g]]
  <2>2. r \in ProcType
    BY IdleType DEF ProcType, Places, Registrations
  <2>3. proc' \in [Procs -> ProcType]
    BY <1>0, <2>1, <2>2, BecomeType DEF Call
  <2>4. calls' \in 0..MaxCalls
    <3>1. calls < MaxCalls /\ calls' = calls + 1
      BY <2>1 DEF Call
    <3>2. QED
      BY <3>1 DEF ScheduleTypeOK
  <2>5. UNCHANGED <<jobs, descriptor, records, set, locks, faults, edits>>
    BY <2>1 DEF Call
  <2>6. QED
    BY <2>3, <2>4, <2>5 DEF ScheduleTypeOK, ProcType, records, set, locks
<1>2. CASE Enter(p)
  <2>1. UNCHANGED <<jobs, descriptor, records, set, native, counts>>
    BY <1>2 DEF Enter
  <2>2. proc' \in [Procs -> ProcType] /\ life' \in [Contexts -> Procs \cup {Nil}]
    <3>1. CASE AuthorityUnchanged(p)
      <4> DEFINE at == IF proc[p].op \in {"enable", "disable"} THEN "jobs" ELSE "wait"
      <4>1. Go(p, at) /\ life' = [life EXCEPT ![proc[p].own.ctx] = p]
        BY <1>2, <3>1 DEF Enter
      <4>2. at \in Places
        BY DEF Places, Locked
      <4> HIDE DEF at
      <4>3. QED
        BY <1>0, <4>1, <4>2, GoType DEF ScheduleTypeOK
    <3>2. CASE ~AuthorityUnchanged(p)
      BY <1>0, <1>2, <3>2, IdleType, BecomeType DEF Enter, ScheduleTypeOK
    <3>3. QED
      BY <3>1, <3>2
  <2>3. QED
    BY <2>1, <2>2 DEF ScheduleTypeOK, ProcType, records, set, counts
<1>3. QED
  BY <1>1, <1>2

LEMMA JobsType ==
  ASSUME ScheduleTypeOK, NEW p \in Procs,
         (\E j \in Jobs : SetEnabled(p, j)) \/ JobNotFound(p) \/ Refused(p)
  PROVE  ScheduleTypeOK'
<1>0. proc \in [Procs -> ProcType] /\ "wait" \in Places
  BY DEF ScheduleTypeOK, ProcType, Places, Locked
<1>1. CASE \E j \in Jobs : SetEnabled(p, j)
  <2>1. PICK j \in Jobs : SetEnabled(p, j)
    BY <1>1
  <2>2. jobs' \in [Contexts -> [Jobs -> {"absent", "off", "on"}]]
    BY <2>1 DEF SetEnabled, ScheduleTypeOK
  <2>3. proc' \in [Procs -> ProcType]
    BY <1>0, <2>1, GoType DEF SetEnabled
  <2>4. UNCHANGED <<descriptor, records, set, locks, counts>>
    BY <2>1 DEF SetEnabled
  <2>5. QED
    BY <2>2, <2>3, <2>4 DEF ScheduleTypeOK, ProcType, records, set, locks, counts
<1>2. CASE JobNotFound(p)
  BY <1>2, QuitType DEF JobNotFound, ScheduleTypeOK, ProcType, records, set, counts
<1>3. CASE Refused(p)
  BY <1>0, <1>3, IdleType, BecomeType
     DEF Refused, ScheduleTypeOK, ProcType, records, set, locks, counts
<1>4. QED
  BY <1>1, <1>2, <1>3

LEMMA TakeNativeType ==
  ASSUME ScheduleTypeOK, NEW p \in Procs, TakeNative(p)
  PROVE  ScheduleTypeOK'
<1>0. proc \in [Procs -> ProcType] /\ "refused" \in Places
  BY DEF ScheduleTypeOK, ProcType, Places
<1>1. UNCHANGED <<jobs, descriptor, records, set, counts>>
  BY DEF TakeNative
<1>2. /\ proc' \in [Procs -> ProcType]
      /\ life' \in [Contexts -> Procs \cup {Nil}] /\ native' \in Procs \cup {Nil}
  <2>1. CASE OwnerUnreadable
    BY <1>0, <2>1, GoType, ReleaseType DEF TakeNative
  <2>2. CASE ~OwnerUnreadable /\ ~MayReconcile(p)
    BY <2>2, QuitType DEF TakeNative
  <2>3. CASE ~OwnerUnreadable /\ MayReconcile(p)
    <3> DEFINE r == [proc[p] EXCEPT
                  !.pc = IF proc[p].op = "remove" THEN "teardown" ELSE "load",
                  !.target = proc[p].own,
                  !.previous = IF proc[p].op = "remove" \/ owner = Nil THEN None
                               ELSE [ctx |-> owner, plugin |-> descriptor[owner]]]
    <3>1. Become(p, r) /\ native' = p /\ UNCHANGED life
      BY <2>3 DEF TakeNative
    <3>2. owner # Nil => [ctx |-> owner, plugin |-> descriptor[owner]] \in Registrations
      <4>1. owner # Nil => owner \in Contexts /\ descriptor[owner] # Nil
        BY <2>3 DEF OwnerUnreadable, ScheduleTypeOK
      <4>2. owner # Nil => descriptor[owner] \in Plugins
        BY <4>1 DEF ScheduleTypeOK
      <4>3. QED
        BY <4>1, <4>2 DEF Registrations
    <3> DEFINE at == IF proc[p].op = "remove" THEN "teardown" ELSE "load"
               prior == IF proc[p].op = "remove" \/ owner = Nil THEN None
                        ELSE [ctx |-> owner, plugin |-> descriptor[owner]]
    <3>3. at \in Places
      BY DEF Places, Locked, Steps
    <3>4. prior \in Registrations \cup {None}
      BY <3>2
    <3>5. r = [proc[p] EXCEPT !.pc = at, !.target = proc[p].own, !.previous = prior]
      OBVIOUS
    <3> HIDE DEF r, at, prior
    <3>6. r \in ProcType
      <4>1. proc[p] \in ProcType
        BY <1>0
      <4>2. proc[p].own \in Registrations \cup {None}
        BY <4>1 DEF ProcType
      <4>3. QED
        BY <3>3, <3>4, <3>5, <4>1, <4>2 DEF ProcType
    <3>7. QED
      BY <1>0, <3>1, <3>6, BecomeType DEF ScheduleTypeOK
  <2>4. QED
    BY <2>1, <2>2, <2>3
<1>3. QED
  BY <1>1, <1>2 DEF ScheduleTypeOK, ProcType, records, set, counts

\* What a step of a reconciliation leaves alone, besides its locks and its place.
Reconciling(p) ==
    \/ (\E at \in Places : Done(p, at)) \/ Stopped(p)
    \/ (\E at \in Places : Go(p, at) /\ UNCHANGED locks) /\ faults' \in 0..MaxFaults

LEMMA ReconcilingType ==
  ASSUME ScheduleTypeOK, NEW p \in Procs, Reconciling(p)
  PROVE  /\ proc' \in [Procs -> ProcType]
         /\ life' \in [Contexts -> Procs \cup {Nil}] /\ native' \in Procs \cup {Nil}
         /\ faults' \in 0..MaxFaults
<1>1. proc \in [Procs -> ProcType]
  BY DEF ScheduleTypeOK, ProcType
<1>2. CASE Stopped(p)
  BY <1>2, StoppedType
<1>3. CASE \E at \in Places : Done(p, at)
  BY <1>3, DoneType
<1>4. CASE (\E at \in Places : Go(p, at) /\ UNCHANGED locks) /\ faults' \in 0..MaxFaults
  BY <1>1, <1>4, GoType DEF locks, ScheduleTypeOK
<1>5. QED
  BY <1>2, <1>3, <1>4 DEF Reconciling

LEMMA SetType ==
  ASSUME ScheduleTypeOK, NEW p \in Procs,
         Render(p) \/ Prune(p) \/ Reload(p) \/ Enable(p) \/ Sentinel(p) \/ Own(p)
  PROVE  ScheduleTypeOK'
<1>0. proc \in [Procs -> ProcType]
  BY DEF ScheduleTypeOK, ProcType
<1>p. \A at \in Steps \cup {"describe"} : at \in Places
  BY DEF Places, Locked
<1>1. CASE Render(p)
  <2>1. PICK W \in SUBSET proc[p].names :
          /\ unit' = [j \in Jobs |-> IF j \in W THEN proc[p].target ELSE unit[j]]
          /\ (W = proc[p].names /\ Done(p, "prune")) \/ Stopped(p)
    BY <1>1 DEF Render
  <2>2. UNCHANGED <<jobs, descriptor, records, armed, sentinel, owner, edits, calls>>
    BY <1>1 DEF Render
  <2>3. unit' \in [Jobs -> Registrations \cup {None}]
    BY <1>0, <2>1 DEF ScheduleTypeOK, ProcType
  <2>4. Reconciling(p)
    BY <1>p, <2>1 DEF Reconciling, Steps
  <2>5. QED
    BY <2>2, <2>3, <2>4, ReconcilingType DEF ScheduleTypeOK, ProcType, records
<1>2. CASE Prune(p)
  <2>1. PICK D \in SUBSET Stale(p), S \in SUBSET Stale(p) :
          /\ unit' = [j \in Jobs |-> IF j \in D THEN None ELSE unit[j]]
          /\ armed' = [j \in Jobs |-> IF j \in S THEN None ELSE armed[j]]
          /\ \/ Done(p, "reload")
             \/ Go(p, "reload") /\ faults < MaxFaults /\ faults' = faults + 1 /\ UNCHANGED locks
             \/ Stopped(p)
    BY <1>2 DEF Prune
  <2>2. UNCHANGED <<jobs, descriptor, records, sentinel, owner, edits, calls>>
    BY <1>2 DEF Prune
  <2>3. unit' \in [Jobs -> Registrations \cup {None}] /\ armed' \in [Jobs -> Registrations \cup {None}]
    BY <2>1 DEF ScheduleTypeOK
  <2>4. faults < MaxFaults /\ faults' = faults + 1 => faults' \in 0..MaxFaults
    BY DEF ScheduleTypeOK
  <2>5. Reconciling(p)
    BY <1>p, <2>1, <2>4 DEF Reconciling, Steps
  <2>6. QED
    BY <2>2, <2>3, <2>5, ReconcilingType DEF ScheduleTypeOK, ProcType, records
<1>3. CASE Reload(p)
  <2>1. armed' \in {armed, Reloaded} /\ Reconciling(p)
    BY <1>3, <1>p DEF Reload, Reconciling, Steps
  <2>2. UNCHANGED <<jobs, descriptor, records, unit, sentinel, owner, edits, calls>>
    BY <1>3 DEF Reload
  <2>3. armed' \in [Jobs -> Registrations \cup {None}]
    BY <2>1 DEF ScheduleTypeOK, Reloaded
  <2>4. QED
    BY <2>1, <2>2, <2>3, ReconcilingType DEF ScheduleTypeOK, ProcType, records
<1>4. CASE Enable(p)
  <2>1. PICK E \in SUBSET proc[p].names :
          /\ armed' = [j \in Jobs |-> IF j \in E THEN unit[j] ELSE armed[j]]
          /\ (E = proc[p].names /\ Done(p, "sentinel")) \/ Stopped(p)
    BY <1>4 DEF Enable
  <2>2. UNCHANGED <<jobs, descriptor, records, unit, sentinel, owner, edits, calls>>
    BY <1>4 DEF Enable
  <2>3. armed' \in [Jobs -> Registrations \cup {None}]
    BY <2>1 DEF ScheduleTypeOK
  <2>4. Reconciling(p)
    BY <1>p, <2>1 DEF Reconciling, Steps
  <2>5. QED
    BY <2>2, <2>3, <2>4, ReconcilingType DEF ScheduleTypeOK, ProcType, records
<1>5. CASE Sentinel(p)
  <2>1. sentinel' \in {sentinel, proc[p].target} /\ Reconciling(p)
    BY <1>5, <1>p DEF Sentinel, Reconciling, Steps
  <2>2. UNCHANGED <<jobs, descriptor, records, unit, armed, owner, edits, calls>>
    BY <1>5 DEF Sentinel
  <2>3. sentinel' \in Registrations \cup {None}
    BY <1>0, <2>1 DEF ScheduleTypeOK, ProcType
  <2>4. QED
    BY <2>1, <2>2, <2>3, ReconcilingType DEF ScheduleTypeOK, ProcType, records
<1>6. CASE Own(p)
  <2>1. owner' \in {owner, proc[p].target.ctx} /\ Reconciling(p)
    BY <1>6, <1>p DEF Own, Reconciling, Steps
  <2>2. UNCHANGED <<jobs, descriptor, records, unit, armed, sentinel, edits, calls>>
    BY <1>6 DEF Own
  <2>3. owner' \in Contexts \cup {Nil}
    BY <1>0, <2>1 DEF ScheduleTypeOK, ProcType, Registrations, None
  <2>4. QED
    BY <2>1, <2>2, <2>3, ReconcilingType DEF ScheduleTypeOK, ProcType, records
<1>7. QED
  BY <1>1, <1>2, <1>3, <1>4, <1>5, <1>6

\* A process that works on a schedule has one.
Directed ==
    \A p \in Procs :
        /\ proc[p].pc \in Locked \cup {"called", "describe"} => proc[p].own \in Registrations
        /\ proc[p].pc \in Steps => proc[p].target \in Registrations

LEMMA KnownNames ==
  ASSUME ScheduleTypeOK, NEW c \in Contexts
  PROVE  On(c) \in SUBSET Jobs /\ Candidates(c) \in SUBSET Jobs /\ Registered \in SUBSET Jobs
<1>1. summary[c] \subseteq Jobs \cup {Nil} /\ pending[c] \subseteq Jobs \cup {Nil}
  BY DEF ScheduleTypeOK
<1>2. QED
  BY <1>1 DEF On, Candidates, Listed, Registered

LEMMA RecordsType ==
  ASSUME ScheduleTypeOK, Directed, NEW p \in Procs,
         Load(p) \/ Settle(p) \/ Clear(p) \/ Describe(p) \/ Teardown(p)
  PROVE  ScheduleTypeOK'
<1>0. proc \in [Procs -> ProcType]
  BY DEF ScheduleTypeOK, ProcType
<1>p. \A at \in Steps \cup {"describe"} : at \in Places
  BY DEF Places, Locked
<1> DEFINE c == proc[p].target.ctx
<1>1. CASE Load(p) \/ Teardown(p)
  <2>1. c \in Contexts
    BY <1>1 DEF Load, Teardown, At, Directed, Registrations, Steps, ScheduleTypeOK
  <2> DEFINE N == IF proc[p].pc = "load" THEN On(c) ELSE Candidates(c)
             M == IF proc[p].pc = "load" THEN On(c) ELSE Candidates(c) \cup Registered
             at == IF proc[p].pc = "load" THEN "render" ELSE "disarm"
             r == [proc[p] EXCEPT !.pc = at, !.names = M]
  <2>2. N \in SUBSET Jobs /\ M \in SUBSET Jobs
    BY <2>1, KnownNames
  <2>3. /\ UNCHANGED <<jobs, descriptor, summary, set, edits, calls>>
        /\ \/ pending' = [pending EXCEPT ![c] = N] /\ Become(p, r) /\ UNCHANGED <<locks, faults>>
           \/ pending' \in {pending, [pending EXCEPT ![c] = N]} /\ Stopped(p)
    <3>1. CASE Load(p)
      BY <3>1 DEF Load, At
    <3>2. CASE Teardown(p)
      BY <3>2 DEF Teardown, At
    <3>3. QED
      BY <1>1, <3>1, <3>2
  <2> HIDE DEF N
  <2>4. pending' \in [Contexts -> (SUBSET Jobs) \cup {Absent}]
    BY <2>2, <2>3 DEF ScheduleTypeOK
  <2>5. r \in ProcType
    <3>1. at \in Places
      BY DEF Places, Locked, Steps
    <3> HIDE DEF at, M
    <3>2. QED
      BY <1>0, <2>2, <3>1 DEF ProcType
  <2>6. /\ proc' \in [Procs -> ProcType]
        /\ life' \in [Contexts -> Procs \cup {Nil}] /\ native' \in Procs \cup {Nil}
        /\ faults' \in 0..MaxFaults
    <3>1. CASE Become(p, r) /\ UNCHANGED <<locks, faults>>
      <4> HIDE DEF r
      <4>1. QED
        BY <1>0, <2>5, <3>1, BecomeType DEF ScheduleTypeOK, locks
    <3>2. CASE Stopped(p)
      BY <3>2, StoppedType
    <3>3. QED
      BY <2>3, <3>1, <3>2
  <2>7. QED
    BY <2>3, <2>4, <2>6 DEF ScheduleTypeOK, ProcType, set
<1>2. CASE Settle(p)
  <2>1. /\ summary' \in {summary, Settled(p)} /\ Reconciling(p)
        /\ UNCHANGED <<jobs, descriptor, pending, set, edits, calls>>
    BY <1>2, <1>p DEF Settle, Reconciling, Steps
  <2>2. proc[p].names \in SUBSET Jobs
    BY <1>0 DEF ProcType
  <2>3. summary' \in [Contexts -> (SUBSET Jobs) \cup {Absent}]
    BY <2>1, <2>2 DEF ScheduleTypeOK, Settled
  <2>4. QED
    BY <2>1, <2>3, ReconcilingType DEF ScheduleTypeOK, ProcType, set
<1>3. CASE Clear(p)
  <2>1. UNCHANGED <<jobs, descriptor, summary, set, edits, calls>>
    BY <1>3 DEF Clear
  <2>2. pending' \in [Contexts -> (SUBSET Jobs) \cup {Absent}]
    BY <1>3 DEF Clear, ScheduleTypeOK
  <2>3. /\ proc' \in [Procs -> ProcType]
        /\ life' \in [Contexts -> Procs \cup {Nil}] /\ native' \in Procs \cup {Nil}
        /\ faults' \in 0..MaxFaults
    <3>1. CASE Stopped(p)
      BY <3>1, StoppedType
    <3>2. CASE Go(p, "describe") /\ Release(p) /\ UNCHANGED faults
      BY <1>0, <1>p, <3>2, GoType, ReleaseType DEF ScheduleTypeOK
    <3>3. CASE Quit(p) /\ UNCHANGED faults
      BY <3>3, QuitType DEF ScheduleTypeOK
    <3>4. QED
      BY <1>3, <3>1, <3>2, <3>3 DEF Clear
  <2>4. QED
    BY <2>1, <2>2, <2>3 DEF ScheduleTypeOK, ProcType, set
<1>4. CASE Describe(p)
  <2>1. proc' \in [Procs -> ProcType]
    BY <1>0, <1>4, IdleType, BecomeType DEF Describe
  <2>2. proc[p].own \in Registrations
    BY <1>4 DEF Describe, Directed
  <2>3. descriptor' \in [Contexts -> Plugins \cup {Nil}]
    BY <1>4, <2>2 DEF Describe, ScheduleTypeOK, Registrations
  <2>4. UNCHANGED <<jobs, records, set, locks, counts>>
    BY <1>4 DEF Describe
  <2>5. QED
    BY <2>1, <2>3, <2>4 DEF ScheduleTypeOK, ProcType, records, set, locks, counts
<1>5. QED
  BY <1>1, <1>2, <1>3, <1>4

LEMMA RemovalType ==
  ASSUME ScheduleTypeOK, NEW p \in Procs,
         Disarm(p) \/ Unsentinel(p) \/ Disown(p) \/ Die(p)
  PROVE  ScheduleTypeOK'
<1>0. proc \in [Procs -> ProcType]
  BY DEF ScheduleTypeOK, ProcType
<1>p. \A at \in Steps \cup {"describe"} : at \in Places
  BY DEF Places, Locked
<1>1. CASE Disarm(p)
  <2>1. PICK G \in SUBSET proc[p].names, Q \in SUBSET proc[p].names :
          /\ armed' = [j \in Jobs |-> IF j \in Q THEN None ELSE armed[j]]
          /\ unit' = [j \in Jobs |-> IF j \in G THEN None ELSE unit[j]]
          /\ (G = proc[p].names /\ Done(p, "unsentinel")) \/ Stopped(p)
    BY <1>1 DEF Disarm
  <2>2. UNCHANGED <<jobs, descriptor, records, sentinel, owner, edits, calls>>
    BY <1>1 DEF Disarm
  <2>3. unit' \in [Jobs -> Registrations \cup {None}] /\ armed' \in [Jobs -> Registrations \cup {None}]
    BY <2>1 DEF ScheduleTypeOK
  <2>4. Reconciling(p)
    BY <1>p, <2>1 DEF Reconciling, Steps
  <2>5. QED
    BY <2>2, <2>3, <2>4, ReconcilingType DEF ScheduleTypeOK, ProcType, records
<1>2. CASE Unsentinel(p)
  <2>1. /\ sentinel' \in {sentinel, None} /\ Reconciling(p)
        /\ UNCHANGED <<jobs, descriptor, records, unit, armed, owner, edits, calls>>
    BY <1>2, <1>p DEF Unsentinel, Reconciling, Steps
  <2>2. QED
    BY <2>1, ReconcilingType DEF ScheduleTypeOK, ProcType, records
<1>3. CASE Disown(p)
  <2>1. UNCHANGED <<jobs, descriptor, records, unit, armed, sentinel, edits, calls>>
    BY <1>3 DEF Disown
  <2>2. owner' \in {owner, Nil}
    BY <1>3 DEF Disown
  <2>3. /\ proc' \in [Procs -> ProcType]
        /\ life' \in [Contexts -> Procs \cup {Nil}] /\ native' \in Procs \cup {Nil}
        /\ faults' \in 0..MaxFaults
    <3> DEFINE r == [proc[p] EXCEPT !.pc = "settle", !.names = {}]
    <3>1. CASE Stopped(p)
      BY <3>1, StoppedType
    <3>2. CASE Become(p, r) /\ UNCHANGED <<locks, faults>>
      <4>0. "settle" \in Places /\ {} \in SUBSET Jobs
        BY DEF Places, Locked, Steps
      <4>1. r \in ProcType
        BY <1>0, <4>0 DEF ProcType
      <4> HIDE DEF r
      <4>2. QED
        BY <1>0, <3>2, <4>1, BecomeType DEF ScheduleTypeOK, locks
    <3>3. QED
      BY <1>3, <3>1, <3>2 DEF Disown
  <2>4. QED
    BY <2>1, <2>2, <2>3 DEF ScheduleTypeOK, ProcType, records
<1>4. CASE Die(p)
  <2>1. faults' \in 0..MaxFaults
    BY <1>4 DEF Die, ScheduleTypeOK
  <2>2. QED
    BY <1>4, <2>1, QuitType DEF Die, ScheduleTypeOK, ProcType, records, set
<1>5. QED
  BY <1>1, <1>2, <1>3, <1>4

-----------------------------------------------------------------------------
(* The locks, and the invariant about the set.                               *)

Removing == {"teardown", "disarm", "unsentinel", "disown"}
Building == {"render", "prune", "reload", "enable", "sentinel", "own"}
Finishing == {"settle", "clear"}

\* How far the holder of the native lock has come.
ConsistentSync(q) ==
    LET c == q.target.ctx
    IN /\ q.pc \in Building \cup Finishing => pending[c] = q.names
       /\ q.pc \in (Building \ {"render"}) \cup Finishing =>
             \A j \in q.names : unit[j] = q.target
       /\ q.pc \in (Building \ {"render", "prune"}) \cup Finishing =>
             \A j \in Jobs \ q.names : unit[j] = None
       /\ q.pc \in {"sentinel", "own"} \cup Finishing => \A j \in q.names : armed[j] = q.target
       /\ q.pc \in {"own"} \cup Finishing => sentinel = q.target
       /\ q.pc \in Finishing => owner = c
ConsistentRemoval(q) ==
    /\ q.pc \in Removing => owner = q.own.ctx /\ q.target = q.own
    /\ q.pc = "disarm" => Registered \subseteq q.names
    /\ q.pc \in {"unsentinel", "disown"} \cup Finishing => Registered = {}
    /\ q.pc \in {"disown"} \cup Finishing => sentinel = None
    /\ q.pc \in Finishing => owner = Nil /\ q.names = {}
Consistent(q) ==
    /\ q.op = "remove" => q.previous = None /\ ConsistentRemoval(q)
    /\ q.op # "remove" => ConsistentSync(q)
    /\ (q.pc \in Removing => q.op = "remove")
    /\ (q.op = "remove" => q.pc \in Removing \cup Finishing)
    /\ q.pc = "clear" => summary[q.target.ctx] = q.names
SetInv == \A p \in Procs : proc[p].pc \in Steps => Consistent(proc[p])

IInv == ScheduleTypeOK /\ Directed /\ LocksHeld /\ SetInv

\* A process that keeps its locks, and one that gives them up.
LEMMA KeepsLocks ==
  ASSUME ScheduleTypeOK, LocksHeld, NEW p \in Procs, NEW r \in ProcType,
         Become(p, r), UNCHANGED locks,
         proc[p].pc \in Steps <=> r.pc \in Steps,
         proc[p].pc \in Locked <=> r.pc \in Locked,
         r.pc \in Locked => r.own = proc[p].own
  PROVE  LocksHeld'
<1>1. \A q \in Procs : proc'[q] = IF q = p THEN r ELSE proc[q]
  BY DEF Become, ScheduleTypeOK
<1>2. native' = native /\ life' = life
  BY DEF locks
<1>3. QED
  BY <1>1, <1>2 DEF LocksHeld

LEMMA LetsGo ==
  ASSUME ScheduleTypeOK, LocksHeld, NEW p \in Procs, NEW r \in ProcType,
         Become(p, r), Release(p), r.pc \notin Locked
  PROVE  LocksHeld'
<1>1. \A q \in Procs : proc'[q] = IF q = p THEN r ELSE proc[q]
  BY DEF Become, ScheduleTypeOK
<1>2. r.pc \notin Steps
  BY DEF Locked
<1>3. /\ \A c \in Contexts : life'[c] = IF life[c] = p THEN Nil ELSE life[c]
      /\ native' = IF native = p THEN Nil ELSE native
  BY DEF Release
<1>4. QED
  BY <1>1, <1>2, <1>3 DEF LocksHeld

LEMMA BecomeDirected ==
  ASSUME ScheduleTypeOK, Directed, NEW p \in Procs, NEW r \in ProcType, Become(p, r),
         r.pc \in Locked \cup {"called", "describe"} => r.own \in Registrations,
         r.pc \in Steps => r.target \in Registrations
  PROVE  Directed'
<1>1. \A q \in Procs : proc'[q] = IF q = p THEN r ELSE proc[q]
  BY DEF Become, ScheduleTypeOK
<1>2. QED
  BY <1>1 DEF Directed, Registrations

\* The holder of the native lock is alone: what it writes concerns no other process.
LEMMA HolderOnly ==
  ASSUME ScheduleTypeOK, LocksHeld, NEW p \in Procs, NEW r \in ProcType,
         Become(p, r), native \in {p, Nil}, r.pc \in Steps => Consistent(r)'
  PROVE  SetInv'
<1>1. \A q \in Procs : proc'[q] = IF q = p THEN r ELSE proc[q]
  BY DEF Become, ScheduleTypeOK
<1>2. ASSUME NEW q \in Procs, proc'[q].pc \in Steps
      PROVE  q = p
  BY <1>1, <1>2 DEF LocksHeld
<1>3. QED
  BY <1>1, <1>2 DEF SetInv

\* And who does not hold it changes nothing that the holder relies on.
LEMMA Bystander ==
  ASSUME ScheduleTypeOK, SetInv, NEW p \in Procs, NEW r \in ProcType,
         Become(p, r), UNCHANGED <<records, set>>, r.pc \notin Steps
  PROVE  SetInv'
<1>1. \A q \in Procs : proc'[q] = IF q = p THEN r ELSE proc[q]
  BY DEF Become, ScheduleTypeOK
<1>2. UNCHANGED <<summary, pending, unit, armed, sentinel, owner>>
  BY DEF records, set
<1>3. ASSUME NEW q \in Procs, proc'[q].pc \in Steps
      PROVE  Consistent(proc[q])'
  <2>1. proc'[q] = proc[q] /\ Consistent(proc[q])
    BY <1>1, <1>3 DEF SetInv
  <2>2. Registered' = Registered
    BY <1>2 DEF Registered
  <2> DEFINE s == proc[q]
  <2>3. Consistent(s)' = Consistent(s)
    BY <1>2, <2>1, <2>2 DEF Consistent, ConsistentSync, ConsistentRemoval
  <2>4. QED
    BY <2>1, <2>3
<1>4. QED
  BY <1>3 DEF SetInv

LEMMA QuitInv ==
  ASSUME ScheduleTypeOK, Directed, LocksHeld, NEW p \in Procs, Quit(p)
  PROVE  Directed' /\ LocksHeld' /\ Become(p, Idle)
<1>1. Become(p, Idle) /\ Release(p)
  BY DEF Quit
<1>2. Idle.pc \notin Locked \cup {"called", "describe"} \cup Steps
  BY DEF Idle, Locked, Steps
<1>3. QED
  BY <1>1, <1>2, IdleType, LetsGo, BecomeDirected

\* A step of the holder that stops leaves nothing to be consistent with.
LEMMA StoppedInv ==
  ASSUME ScheduleTypeOK, Directed, LocksHeld, NEW p \in Procs, native = p, Stopped(p)
  PROVE  Directed' /\ LocksHeld' /\ SetInv'
<1>0. proc \in [Procs -> ProcType] /\ proc[p].pc \in Steps /\ proc[p].pc \in Locked
  BY DEF ScheduleTypeOK, ProcType, LocksHeld, Locked
<1>1. CASE Quit(p)
  <2>1. Idle.pc \notin Steps
    BY DEF Idle, Steps
  <2>2. QED
    BY <1>1, <2>1, QuitInv, IdleType, HolderOnly
<1>2. CASE ~Quit(p)
  <2> DEFINE e == [Idle EXCEPT !.pc = "load", !.op = "fallback", !.own = proc[p].own,
                               !.target = proc[p].previous]
  <2>1. Become(p, e) /\ UNCHANGED locks /\ proc[p].previous # None
    BY <1>2 DEF Stopped, Raise
  <2>2. /\ e \in ProcType
        /\ e.pc = "load" /\ e.op = "fallback"
        /\ e.own = proc[p].own /\ e.target = proc[p].previous
    BY <1>0 DEF ProcType, Idle, Places, Locked, Steps
  <2> HIDE DEF e
  <2>3. PICK r \in ProcType : r = e
    BY <2>2
  <2>4. r.own \in Registrations /\ r.target \in Registrations
    BY <1>0, <2>1, <2>2, <2>3 DEF Directed, ProcType
  <2>5. r.pc \in Steps /\ r.pc \in Locked
    BY <2>2, <2>3 DEF Steps, Locked
  <2>6. r.pc = "load" /\ r.op = "fallback" /\ r.own = proc[p].own
    BY <2>2, <2>3
  <2>7. Consistent(r)'
    BY <2>6 DEF Consistent, ConsistentSync, ConsistentRemoval, Removing, Building, Finishing
  <2>8. Become(p, r)
    BY <2>1, <2>3
  <2>9. QED
    BY <1>0, <2>1, <2>4, <2>5, <2>6, <2>7, <2>8, KeepsLocks, BecomeDirected, HolderOnly
<1>3. QED
  BY <1>1, <1>2

\* A step of the holder that is done.
LEMMA DoneInv ==
  ASSUME ScheduleTypeOK, Directed, LocksHeld, NEW p \in Procs, native = p,
         NEW r \in ProcType, Become(p, r), UNCHANGED locks,
         r.pc \in Steps, r.own = proc[p].own, r.target = proc[p].target,
         Consistent(r)'
  PROVE  Directed' /\ LocksHeld' /\ SetInv'
<1>1. proc[p].pc \in Steps /\ proc[p].pc \in Locked /\ r.pc \in Locked
  BY DEF LocksHeld, Locked
<1>2. r.own \in Registrations /\ r.target \in Registrations
  BY <1>1 DEF Directed
<1>3. QED
  BY <1>1, <1>2, KeepsLocks, BecomeDirected, HolderOnly

\* A step of the holder takes it to the next place.
LEMMA Advance ==
  ASSUME IInv, NEW p \in Procs, native = p, NEW at \in Steps, Go(p, at), UNCHANGED locks,
         \A r \in ProcType : r = [proc[p] EXCEPT !.pc = at] => Consistent(r)'
  PROVE  Directed' /\ LocksHeld' /\ SetInv'
<1> DEFINE e == [proc[p] EXCEPT !.pc = at]
<1>0. ScheduleTypeOK /\ Directed /\ LocksHeld /\ proc \in [Procs -> ProcType]
  BY DEF IInv, ScheduleTypeOK, ProcType
<1>1. e \in ProcType /\ e.pc = at /\ e.own = proc[p].own /\ e.target = proc[p].target
  BY <1>0 DEF ProcType, Places, Locked
<1>2. Become(p, e)
  BY DEF Go
<1> HIDE DEF e
<1>3. PICK r \in ProcType : r = e
  BY <1>1
<1>4. Consistent(r)'
  BY <1>3 DEF e
<1>5. QED
  BY <1>0, <1>1, <1>2, <1>3, <1>4, DoneInv

\* What the holder knows at a step.
LEMMA Holding ==
  ASSUME IInv, NEW p \in Procs, NEW step \in Steps, At(p, step)
  PROVE  /\ native = p /\ proc[p].pc = step /\ proc[p].pc \in Steps
         /\ proc[p] \in ProcType /\ Consistent(proc[p])
         /\ proc[p].target \in Registrations /\ proc[p].target.ctx \in Contexts
         /\ proc[p].names \subseteq Jobs
<1>1. proc[p].pc \in Steps /\ native = p /\ proc[p].pc = step
  BY DEF At
<1>2. proc[p] \in ProcType
  BY DEF IInv, ScheduleTypeOK, ProcType
<1>3. proc[p].target \in Registrations /\ Consistent(proc[p])
  BY <1>1 DEF IInv, Directed, SetInv
<1>4. QED
  BY <1>1, <1>2, <1>3 DEF ProcType, Registrations

LEMMA RenderInv ==
  ASSUME IInv, NEW p \in Procs, Render(p)
  PROVE  Directed' /\ LocksHeld' /\ SetInv'
<1>1. /\ native = p /\ proc[p].pc = "render" /\ proc[p] \in ProcType
      /\ Consistent(proc[p]) /\ proc[p].names \subseteq Jobs
  BY Holding DEF Render, Steps
<1>2. PICK W \in SUBSET proc[p].names :
        /\ unit' = [j \in Jobs |-> IF j \in W THEN proc[p].target ELSE unit[j]]
        /\ (W = proc[p].names /\ Done(p, "prune")) \/ Stopped(p)
  BY DEF Render
<1>3. CASE Stopped(p)
  BY <1>1, <1>3, StoppedInv DEF IInv
<1>4. CASE W = proc[p].names /\ Done(p, "prune")
  <2>1. pending' = pending /\ summary' = summary
    BY DEF Render, records
  <2>2. ASSUME NEW r \in ProcType, r = [proc[p] EXCEPT !.pc = "prune"]
        PROVE  Consistent(r)'
    <3>1. /\ r.pc = "prune" /\ r.op = proc[p].op /\ r.names = proc[p].names
          /\ r.target = proc[p].target
      BY <1>1, <2>2 DEF ProcType
    <3>2. r.op # "remove" /\ pending[r.target.ctx] = r.names
      BY <1>1, <3>1 DEF Consistent, ConsistentSync, Removing, Building, Finishing
    <3>3. \A j \in r.names : unit'[j] = r.target
      BY <1>1, <1>2, <1>4, <3>1
    <3>4. ConsistentSync(r)'
      BY <2>1, <3>1, <3>2, <3>3 DEF ConsistentSync, Building, Finishing
    <3>5. QED
      BY <3>1, <3>2, <3>4 DEF Consistent, Removing
  <2>3. QED
    BY <1>1, <1>4, <2>2, Advance DEF Done, Steps
<1>5. QED
  BY <1>2, <1>3, <1>4

LEMMA PruneInv ==
  ASSUME IInv, NEW p \in Procs, Prune(p)
  PROVE  Directed' /\ LocksHeld' /\ SetInv'
<1>1. /\ native = p /\ proc[p].pc = "prune" /\ proc[p] \in ProcType
      /\ Consistent(proc[p]) /\ proc[p].names \subseteq Jobs
  BY Holding DEF Prune, Steps
<1>2. PICK D \in SUBSET Stale(p), S \in SUBSET Stale(p) :
        /\ unit' = [j \in Jobs |-> IF j \in D THEN None ELSE unit[j]]
        /\ (D = Stale(p) /\ Go(p, "reload") /\ UNCHANGED locks) \/ Stopped(p)
  BY DEF Prune, Done
<1>3. CASE Stopped(p)
  BY <1>1, <1>3, StoppedInv DEF IInv
<1>4. CASE D = Stale(p) /\ Go(p, "reload") /\ UNCHANGED locks
  <2>1. pending' = pending /\ summary' = summary
    BY DEF Prune, records
  <2>2. ASSUME NEW r \in ProcType, r = [proc[p] EXCEPT !.pc = "reload"]
        PROVE  Consistent(r)'
    <3>1. /\ r.pc = "reload" /\ r.op = proc[p].op /\ r.names = proc[p].names
          /\ r.target = proc[p].target
      BY <1>1, <2>2 DEF ProcType
    <3>2. /\ r.op # "remove" /\ pending[r.target.ctx] = r.names
          /\ \A j \in r.names : unit[j] = r.target
      BY <1>1, <3>1 DEF Consistent, ConsistentSync, Removing, Building, Finishing
    <3>3. \A j \in r.names : unit'[j] = r.target
      BY <1>1, <1>2, <3>1, <3>2 DEF Stale
    <3>4. \A j \in Jobs \ r.names : unit'[j] = None
      BY <1>1, <1>2, <1>4, <3>1 DEF Stale, Registered
    <3>5. ConsistentSync(r)'
      BY <2>1, <3>1, <3>2, <3>3, <3>4 DEF ConsistentSync, Building, Finishing
    <3>6. QED
      BY <3>1, <3>2, <3>5 DEF Consistent, Removing
  <2>3. QED
    BY <1>1, <1>4, <2>2, Advance DEF Steps
<1>5. QED
  BY <1>2, <1>3, <1>4

LEMMA ReloadInv ==
  ASSUME IInv, NEW p \in Procs, Reload(p) \/ Enable(p) \/ Sentinel(p) \/ Own(p)
  PROVE  Directed' /\ LocksHeld' /\ SetInv'
<1> DEFINE next == CASE proc[p].pc = "reload" -> "enable" [] proc[p].pc = "enable" -> "sentinel"
                     [] proc[p].pc = "sentinel" -> "own" [] proc[p].pc = "own" -> "settle"
<1>1. /\ native = p /\ proc[p].pc \in {"reload", "enable", "sentinel", "own"}
      /\ proc[p] \in ProcType /\ proc[p].names \subseteq Jobs
      /\ Consistent(proc[p])
  <2>1. \E step \in {"reload", "enable", "sentinel", "own"} : At(p, step)
    BY DEF Reload, Enable, Sentinel, Own
  <2>2. QED
    BY <2>1, Holding DEF Steps
<1>2. CASE Stopped(p)
  BY <1>1, <1>2, StoppedInv DEF IInv
<1>3. CASE ~Stopped(p)
  <2>1. Done(p, next) /\ next \in {"enable", "sentinel", "own", "settle"}
    BY <1>1, <1>3 DEF Reload, Enable, Sentinel, Own, At
  <2>2. UNCHANGED <<pending, summary, unit>>
    BY DEF Reload, Enable, Sentinel, Own, records
  <2>3. proc[p].pc = "enable" => \A j \in proc[p].names : armed'[j] = unit[j]
    BY <1>1, <1>3 DEF Enable, At, Reload, Sentinel, Own
  <2>4. proc[p].pc \in {"sentinel", "own"} => armed' = armed
    BY DEF Reload, Enable, Sentinel, Own, At
  <2>5. /\ proc[p].pc = "sentinel" => sentinel' = proc[p].target
        /\ proc[p].pc = "own" => sentinel' = sentinel /\ owner' = proc[p].target.ctx
    BY <1>3 DEF Reload, Enable, Sentinel, Own, At
  <2>6. ASSUME NEW r \in ProcType, r = [proc[p] EXCEPT !.pc = next]
        PROVE  Consistent(r)'
    <3>1. /\ r.pc = next /\ r.op = proc[p].op /\ r.names = proc[p].names
          /\ r.target = proc[p].target
      BY <1>1, <2>6 DEF ProcType
    <3>2. /\ r.op # "remove" /\ pending[r.target.ctx] = r.names
          /\ \A j \in r.names : unit[j] = r.target
          /\ \A j \in Jobs \ r.names : unit[j] = None
      BY <1>1, <3>1 DEF Consistent, ConsistentSync, Removing, Building, Finishing
    <3>3. /\ proc[p].pc \in {"sentinel", "own"} => \A j \in r.names : armed[j] = r.target
          /\ proc[p].pc = "own" => sentinel = r.target
      BY <1>1, <3>1, <3>2 DEF Consistent, ConsistentSync, Finishing
    <3>4. /\ next = "enable" <=> proc[p].pc = "reload"
          /\ next = "sentinel" <=> proc[p].pc = "enable"
          /\ next = "own" <=> proc[p].pc = "sentinel"
          /\ next = "settle" <=> proc[p].pc = "own"
      BY <1>1
    <3> HIDE DEF next
    <3>5. next # "enable" => \A j \in r.names : armed'[j] = r.target
      BY <1>1, <2>1, <2>3, <2>4, <3>1, <3>2, <3>3, <3>4
    <3>6. /\ next \in {"own", "settle"} => sentinel' = r.target
          /\ next = "settle" => owner' = r.target.ctx
      BY <2>5, <3>1, <3>3, <3>4
    <3>7. ConsistentSync(r)'
      BY <2>1, <2>2, <3>1, <3>2, <3>5, <3>6 DEF ConsistentSync, Building, Finishing
    <3>8. QED
      BY <2>1, <3>1, <3>2, <3>7 DEF Consistent, Removing
  <2>7. next \in Steps
    BY <2>1 DEF Steps
  <2> HIDE DEF next
  <2>8. QED
    BY <1>1, <2>1, <2>6, <2>7, Advance DEF Done
<1>4. QED
  BY <1>2, <1>3

LEMMA SettleInv ==
  ASSUME IInv, NEW p \in Procs, Settle(p)
  PROVE  Directed' /\ LocksHeld' /\ SetInv'
<1>1. /\ native = p /\ proc[p].pc = "settle" /\ proc[p] \in ProcType
      /\ Consistent(proc[p]) /\ proc[p].target.ctx \in Contexts
  BY Holding DEF Settle, Steps
<1>2. CASE Stopped(p)
  BY <1>1, <1>2, StoppedInv DEF IInv
<1>3. CASE summary' = Settled(p) /\ Done(p, "clear")
  <2>1. UNCHANGED <<pending, unit, armed, sentinel, owner>>
    BY DEF Settle, set
  <2>2. ASSUME NEW r \in ProcType, r = [proc[p] EXCEPT !.pc = "clear"]
        PROVE  Consistent(r)'
    <3>1. /\ r.pc = "clear" /\ r.op = proc[p].op /\ r.names = proc[p].names
          /\ r.target = proc[p].target /\ r.own = proc[p].own /\ r.previous = proc[p].previous
      BY <1>1, <2>2 DEF ProcType
    <3>2. summary'[r.target.ctx] = r.names
      BY <1>1, <1>3, <3>1 DEF Settled, IInv, ScheduleTypeOK
    <3>3. Registered' = Registered
      BY <2>1 DEF Registered
    <3>4. CASE r.op = "remove"
      <4>1. ConsistentRemoval(proc[p]) /\ r.previous = None
        BY <1>1, <3>1, <3>4 DEF Consistent
      <4>2. ConsistentRemoval(r)'
        BY <1>1, <2>1, <3>1, <3>3, <4>1 DEF ConsistentRemoval, Removing, Finishing
      <4>3. QED
        BY <3>1, <3>2, <3>4, <4>1, <4>2 DEF Consistent, Removing, Finishing
    <3>5. CASE r.op # "remove"
      <4>1. ConsistentSync(proc[p])
        BY <1>1, <3>1, <3>5 DEF Consistent
      <4>2. ConsistentSync(r)'
        BY <1>1, <2>1, <3>1, <4>1 DEF ConsistentSync, Building, Finishing
      <4>3. QED
        BY <3>1, <3>2, <3>5, <4>2 DEF Consistent, Removing
    <3>6. QED
      BY <3>4, <3>5
  <2>3. QED
    BY <1>1, <1>3, <2>2, Advance DEF Done, Steps
<1>4. QED
  BY <1>2, <1>3 DEF Settle

LEMMA ClearInv ==
  ASSUME IInv, NEW p \in Procs, Clear(p)
  PROVE  Directed' /\ LocksHeld' /\ SetInv'
<1>1. native = p /\ proc[p].pc = "clear" /\ proc[p] \in ProcType
  BY Holding DEF Clear, Steps
<1>2. CASE Stopped(p)
  BY <1>1, <1>2, StoppedInv DEF IInv
<1>3. CASE Quit(p)
  <2>1. Idle.pc \notin Steps
    BY DEF Idle, Steps
  <2>2. QED
    BY <1>1, <1>3, <2>1, QuitInv, IdleType, HolderOnly DEF IInv
<1>4. CASE Go(p, "describe") /\ Release(p)
  <2> DEFINE e == [proc[p] EXCEPT !.pc = "describe"]
  <2>1. e \in ProcType /\ e.pc = "describe" /\ e.own = proc[p].own
    BY <1>1 DEF ProcType, Places
  <2>2. Become(p, e)
    BY <1>4 DEF Go
  <2> HIDE DEF e
  <2>3. e.pc \notin Locked /\ e.pc \notin Steps
    BY <2>1 DEF Locked, Steps
  <2>4. e.own \in Registrations
    BY <1>1, <2>1 DEF IInv, Directed, Locked, Steps
  <2>5. QED
    BY <1>1, <1>4, <2>1, <2>2, <2>3, <2>4, LetsGo, BecomeDirected, HolderOnly DEF IInv
<1>5. QED
  BY <1>2, <1>3, <1>4 DEF Clear

LEMMA LoadInv ==
  ASSUME IInv, NEW p \in Procs, Load(p)
  PROVE  Directed' /\ LocksHeld' /\ SetInv'
<1> DEFINE c == proc[p].target.ctx
           e == [proc[p] EXCEPT !.pc = "render", !.names = On(c)]
<1>1. /\ native = p /\ proc[p].pc = "load" /\ proc[p] \in ProcType /\ Consistent(proc[p])
      /\ c \in Contexts
  BY Holding DEF Load, Steps
<1>2. CASE Stopped(p)
  BY <1>1, <1>2, StoppedInv DEF IInv
<1>3. CASE pending' = [pending EXCEPT ![c] = On(c)] /\ Become(p, e) /\ UNCHANGED <<locks, faults>>
  <2>1. On(c) \subseteq Jobs
    BY <1>1, KnownNames DEF IInv
  <2>2. e \in ProcType
    BY <1>1, <2>1 DEF ProcType, Places, Locked, Steps
  <2>3. PICK r \in ProcType : r = e
    BY <2>2
  <2>4. /\ r.pc = "render" /\ r.names = On(c) /\ r.op = proc[p].op
        /\ r.own = proc[p].own /\ r.target = proc[p].target
    BY <1>1, <2>1, <2>3 DEF ProcType
  <2>5. r.op # "remove"
    BY <1>1, <2>4 DEF Consistent, Removing, Finishing
  <2>6. pending'[r.target.ctx] = r.names
    BY <1>1, <1>3, <2>4 DEF IInv, ScheduleTypeOK
  <2>7. Consistent(r)'
    BY <2>4, <2>5, <2>6 DEF Consistent, ConsistentSync, Building, Removing, Finishing
  <2>8. Become(p, r) /\ r.pc \in Steps /\ UNCHANGED locks
    BY <1>3, <2>3, <2>4 DEF Steps
  <2> HIDE DEF e
  <2>9. QED
    BY <1>1, <2>4, <2>7, <2>8, DoneInv DEF IInv
<1>4. QED
  BY <1>2, <1>3 DEF Load

LEMMA TeardownInv ==
  ASSUME IInv, NEW p \in Procs, Teardown(p)
  PROVE  Directed' /\ LocksHeld' /\ SetInv'
<1> DEFINE c == proc[p].target.ctx
           M == Candidates(c) \cup Registered
           e == [proc[p] EXCEPT !.pc = "disarm", !.names = M]
<1>1. /\ native = p /\ proc[p].pc = "teardown" /\ proc[p] \in ProcType /\ Consistent(proc[p])
      /\ c \in Contexts
  BY Holding DEF Teardown, Steps
<1>2. CASE Stopped(p)
  BY <1>1, <1>2, StoppedInv DEF IInv
<1>3. CASE Become(p, e) /\ UNCHANGED <<locks, faults>>
  <2>1. M \subseteq Jobs /\ Registered \subseteq M
    BY <1>1, KnownNames DEF IInv
  <2> HIDE DEF M
  <2>2. e \in ProcType
    BY <1>1, <2>1 DEF ProcType, Places, Locked, Steps
  <2>3. PICK r \in ProcType : r = e
    BY <2>2
  <2>4. /\ r.pc = "disarm" /\ r.names = M /\ r.op = proc[p].op /\ r.previous = proc[p].previous
        /\ r.own = proc[p].own /\ r.target = proc[p].target
    BY <1>1, <2>1, <2>3 DEF ProcType
  <2>5. r.op = "remove" /\ r.previous = None /\ owner = r.own.ctx /\ r.target = r.own
    BY <1>1, <2>4 DEF Consistent, ConsistentRemoval, Removing, Finishing
  <2>6. owner' = owner /\ unit' = unit
    BY DEF Teardown, set
  <2>7. Registered' \subseteq r.names
    BY <2>1, <2>4, <2>6 DEF Registered
  <2>8. Consistent(r)'
    BY <2>4, <2>5, <2>6, <2>7 DEF Consistent, ConsistentRemoval, Removing, Finishing
  <2>9. Become(p, r) /\ r.pc \in Steps /\ UNCHANGED locks
    BY <1>3, <2>3, <2>4 DEF Steps
  <2> HIDE DEF e
  <2>10. QED
    BY <1>1, <2>4, <2>8, <2>9, DoneInv DEF IInv
<1>4. QED
  BY <1>2, <1>3 DEF Teardown

LEMMA DisarmInv ==
  ASSUME IInv, NEW p \in Procs, Disarm(p) \/ Unsentinel(p)
  PROVE  Directed' /\ LocksHeld' /\ SetInv'
<1> DEFINE next == IF proc[p].pc = "disarm" THEN "unsentinel" ELSE "disown"
<1>1. /\ native = p /\ proc[p].pc \in {"disarm", "unsentinel"}
      /\ proc[p] \in ProcType /\ Consistent(proc[p])
  <2>1. \E step \in {"disarm", "unsentinel"} : At(p, step)
    BY DEF Disarm, Unsentinel
  <2>2. QED
    BY <2>1, Holding DEF Steps
<1>2. CASE Stopped(p)
  BY <1>1, <1>2, StoppedInv DEF IInv
<1>3. CASE ~Stopped(p)
  <2>1. Done(p, next) /\ owner' = owner
    BY <1>1, <1>3 DEF Disarm, Unsentinel, At
  <2>2. /\ proc[p].pc = "disarm" =>
             unit' = [j \in Jobs |-> IF j \in proc[p].names THEN None ELSE unit[j]]
        /\ proc[p].pc = "unsentinel" => unit' = unit /\ sentinel' = None
    BY <1>3 DEF Disarm, Unsentinel, At
  <2>3. ASSUME NEW r \in ProcType, r = [proc[p] EXCEPT !.pc = next]
        PROVE  Consistent(r)'
    <3>1. /\ r.pc = next /\ r.op = proc[p].op /\ r.names = proc[p].names
          /\ r.target = proc[p].target /\ r.own = proc[p].own /\ r.previous = proc[p].previous
      BY <1>1, <2>3 DEF ProcType
    <3>2. r.op = "remove" /\ r.previous = None /\ owner = r.own.ctx /\ r.target = r.own
      BY <1>1, <3>1 DEF Consistent, ConsistentRemoval, Removing
    <3>3. Registered' = {}
      <4>1. CASE proc[p].pc = "disarm"
        <5>1. Registered \subseteq proc[p].names
          BY <1>1, <3>1, <3>2, <4>1 DEF Consistent, ConsistentRemoval
        <5>2. QED
          BY <2>2, <4>1, <5>1 DEF Registered
      <4>2. CASE proc[p].pc = "unsentinel"
        <5>1. Registered = {}
          BY <1>1, <3>1, <3>2, <4>2 DEF Consistent, ConsistentRemoval
        <5>2. QED
          BY <2>2, <4>2, <5>1 DEF Registered
      <4>3. QED
        BY <1>1, <4>1, <4>2
    <3>4. next = "disown" => sentinel' = None
      BY <1>1, <2>2
    <3>5. next \in {"unsentinel", "disown"}
      OBVIOUS
    <3> HIDE DEF next
    <3>6. QED
      BY <2>1, <3>1, <3>2, <3>3, <3>4, <3>5 DEF Consistent, ConsistentRemoval, Removing, Finishing
  <2>4. next \in Steps
    BY DEF Steps
  <2> HIDE DEF next
  <2>5. QED
    BY <1>1, <2>1, <2>3, <2>4, Advance DEF Done
<1>4. QED
  BY <1>2, <1>3

LEMMA DisownInv ==
  ASSUME IInv, NEW p \in Procs, Disown(p)
  PROVE  Directed' /\ LocksHeld' /\ SetInv'
<1> DEFINE e == [proc[p] EXCEPT !.pc = "settle", !.names = {}]
<1>1. /\ native = p /\ proc[p].pc = "disown" /\ proc[p] \in ProcType /\ Consistent(proc[p])
  BY Holding DEF Disown, Steps
<1>2. CASE Stopped(p)
  BY <1>1, <1>2, StoppedInv DEF IInv
<1>3. CASE owner' = Nil /\ Become(p, e) /\ UNCHANGED <<locks, faults>>
  <2>1. e \in ProcType
    BY <1>1 DEF ProcType, Places, Locked, Steps
  <2>2. PICK r \in ProcType : r = e
    BY <2>1
  <2>3. /\ r.pc = "settle" /\ r.names = {} /\ r.op = proc[p].op /\ r.previous = proc[p].previous
        /\ r.own = proc[p].own /\ r.target = proc[p].target
    BY <1>1, <2>2 DEF ProcType
  <2>4. r.op = "remove" /\ r.previous = None /\ Registered = {} /\ sentinel = None
    BY <1>1, <2>3 DEF Consistent, ConsistentRemoval, Removing
  <2>5. Registered' = {} /\ sentinel' = None
    BY <2>4 DEF Disown, Registered
  <2>6. Consistent(r)'
    BY <1>3, <2>3, <2>4, <2>5 DEF Consistent, ConsistentRemoval, Removing, Finishing
  <2>7. Become(p, r) /\ r.pc \in Steps /\ UNCHANGED locks
    BY <1>3, <2>2, <2>3 DEF Steps
  <2> HIDE DEF e
  <2>8. QED
    BY <1>1, <2>3, <2>6, <2>7, DoneInv DEF IInv
<1>4. QED
  BY <1>2, <1>3 DEF Disown

\* The steps outside the native lock, and the one that takes it.
LEMMA WaitingInv ==
  ASSUME IInv, NEW p \in Procs,
         \/ \E o \in Operations, c \in Contexts, g \in Plugins : Call(p, o, c, g)
         \/ Enter(p) \/ (\E j \in Jobs : SetEnabled(p, j))
  PROVE  Directed' /\ LocksHeld' /\ SetInv'
<1>0. /\ ScheduleTypeOK /\ Directed /\ LocksHeld /\ SetInv
      /\ proc \in [Procs -> ProcType] /\ proc[p] \in ProcType
  BY DEF IInv, ScheduleTypeOK, ProcType
<1>1. CASE \E o \in Operations, c \in Contexts, g \in Plugins : Call(p, o, c, g)
  <2>1. PICK o \in Operations, c \in Contexts, g \in Plugins : Call(p, o, c, g)
    BY <1>1
  <2> DEFINE e == [Idle EXCEPT !.pc = "called", !.op = o, !.own = [ctx |-> c, plugin |-> g]]
  <2>2. e \in ProcType /\ e.pc = "called" /\ e.own \in Registrations
    BY IdleType DEF ProcType, Places, Registrations, Idle
  <2>3. /\ Become(p, e) /\ UNCHANGED <<records, set>> /\ UNCHANGED locks
        /\ proc[p].pc = "idle"
    BY <2>1 DEF Call
  <2> HIDE DEF e
  <2>4. /\ e.pc \notin Locked /\ e.pc \notin Steps
        /\ proc[p].pc \notin Locked /\ proc[p].pc \notin Steps
    BY <2>2, <2>3 DEF Locked, Steps
  <2>5. LocksHeld'
    BY <1>0, <2>2, <2>3, <2>4, KeepsLocks
  <2>6. Directed' /\ SetInv'
    BY <1>0, <2>2, <2>3, <2>4, BecomeDirected, Bystander
  <2>7. QED
    BY <2>5, <2>6
<1>2. CASE Enter(p)
  <2>1. UNCHANGED <<records, set>> /\ native' = native /\ proc[p].pc = "called"
    BY <1>2 DEF Enter
  <2>2. /\ proc[p].own \in Registrations /\ proc[p].own.ctx \in Contexts
        /\ native # p /\ \A c \in Contexts : life[c] # p
    BY <1>0, <2>1 DEF Directed, LocksHeld, Registrations, Locked, Steps
  <2>3. CASE AuthorityUnchanged(p)
    <3> DEFINE at == IF proc[p].op \in {"enable", "disable"} THEN "jobs" ELSE "wait"
               e == [proc[p] EXCEPT !.pc = at]
    <3>1. at \in {"jobs", "wait"}
      OBVIOUS
    <3>2. /\ Become(p, e) /\ life[proc[p].own.ctx] = Nil
          /\ life' = [life EXCEPT ![proc[p].own.ctx] = p]
      BY <1>2, <2>3 DEF Enter, Go
    <3> HIDE DEF at
    <3>3. e \in ProcType /\ e.pc \in {"jobs", "wait"} /\ e.own = proc[p].own
      BY <1>0, <3>1 DEF ProcType, Places, Locked
    <3> HIDE DEF e
    <3>4. e.pc \in Locked /\ e.pc \notin Steps
      BY <3>3 DEF Locked, Steps
    <3>5. Directed' /\ SetInv'
      BY <1>0, <2>1, <2>2, <3>2, <3>3, <3>4, BecomeDirected, Bystander
    <3>6. \A q \in Procs : proc'[q] = IF q = p THEN e ELSE proc[q]
      BY <1>0, <3>2 DEF Become
    <3>7. \A c \in Contexts : life'[c] = IF c = proc[p].own.ctx THEN p ELSE life[c]
      BY <1>0, <3>2 DEF ScheduleTypeOK
    <3>8. LocksHeld'
      <4>1. ASSUME NEW q \in Procs PROVE native' = q <=> proc'[q].pc \in Steps
        BY <1>0, <2>1, <2>2, <3>4, <3>6 DEF LocksHeld
      <4>2. ASSUME NEW q \in Procs, NEW c \in Contexts
            PROVE  life'[c] = q <=> (proc'[q].pc \in Locked /\ proc'[q].own.ctx = c)
        <5>1. CASE q = p
          BY <2>2, <3>3, <3>4, <3>6, <3>7, <5>1
        <5>2. CASE q # p
          BY <1>0, <3>2, <3>6, <3>7, <5>2 DEF LocksHeld
        <5>3. QED
          BY <5>1, <5>2
      <4>3. QED
        BY <4>1, <4>2 DEF LocksHeld
    <3>9. QED
      BY <3>5, <3>8
  <2>4. CASE ~AuthorityUnchanged(p)
    <3>1. Become(p, Idle) /\ UNCHANGED locks
      BY <1>2, <2>1, <2>4 DEF Enter, locks
    <3>2. /\ Idle.pc \notin Locked \cup {"called", "describe"} /\ Idle.pc \notin Steps
          /\ proc[p].pc \notin Locked /\ proc[p].pc \notin Steps
      BY <2>1 DEF Idle, Locked, Steps
    <3>3. LocksHeld'
      BY <1>0, <3>1, <3>2, IdleType, KeepsLocks
    <3>4. Directed' /\ SetInv'
      BY <1>0, <2>1, <3>1, <3>2, IdleType, BecomeDirected, Bystander
    <3>5. QED
      BY <3>3, <3>4
  <2>5. QED
    BY <2>3, <2>4
<1>3. CASE \E j \in Jobs : SetEnabled(p, j)
  <2> DEFINE e == [proc[p] EXCEPT !.pc = "wait"]
  <2>1. Become(p, e) /\ UNCHANGED <<records, set>> /\ UNCHANGED locks /\ proc[p].pc = "jobs"
    BY <1>3 DEF SetEnabled, Go
  <2>2. e \in ProcType /\ e.pc = "wait" /\ e.own = proc[p].own
    BY <1>0 DEF ProcType, Places, Locked
  <2> HIDE DEF e
  <2>3. /\ e.pc \in Locked /\ e.pc \notin Steps
        /\ proc[p].pc \in Locked /\ proc[p].pc \notin Steps
    BY <2>1, <2>2 DEF Locked, Steps
  <2>4. e.own \in Registrations
    BY <1>0, <2>2, <2>3 DEF Directed
  <2>5. LocksHeld'
    BY <1>0, <2>1, <2>2, <2>3, KeepsLocks
  <2>6. Directed' /\ SetInv'
    BY <1>0, <2>1, <2>2, <2>3, <2>4, BecomeDirected, Bystander
  <2>7. QED
    BY <2>5, <2>6
<1>4. QED
  BY <1>1, <1>2, <1>3

LEMMA LeavingInv ==
  ASSUME IInv, NEW p \in Procs, JobNotFound(p) \/ Die(p) \/ Refused(p) \/ Describe(p)
  PROVE  Directed' /\ LocksHeld' /\ SetInv'
<1>0. /\ ScheduleTypeOK /\ Directed /\ LocksHeld /\ SetInv
      /\ Idle.pc \notin Locked \cup {"called", "describe"} /\ Idle.pc \notin Steps
  BY DEF IInv, Idle, Locked, Steps
<1>1. UNCHANGED <<records, set>>
  BY DEF JobNotFound, Die, Refused, Describe
<1>2. CASE Quit(p)
  BY <1>0, <1>1, <1>2, QuitInv, IdleType, Bystander
<1>3. CASE Refused(p) \/ Describe(p)
  <2>1. /\ Become(p, Idle) /\ UNCHANGED locks
        /\ proc[p].pc \notin Locked /\ proc[p].pc \notin Steps
    BY <1>3 DEF Refused, Describe, Locked, Steps
  <2>2. LocksHeld'
    BY <1>0, <2>1, IdleType, KeepsLocks
  <2>3. QED
    BY <1>0, <1>1, <2>1, <2>2, IdleType, BecomeDirected, Bystander
<1>4. QED
  BY <1>2, <1>3 DEF JobNotFound, Die

LEMMA TakeNativeInv ==
  ASSUME IInv, NEW p \in Procs, TakeNative(p)
  PROVE  Directed' /\ LocksHeld' /\ SetInv'
<1>0. /\ ScheduleTypeOK /\ Directed /\ LocksHeld /\ SetInv /\ proc[p] \in ProcType
      /\ Idle.pc \notin Locked \cup {"called", "describe"} /\ Idle.pc \notin Steps
  BY DEF IInv, Idle, Locked, Steps, ScheduleTypeOK, ProcType
<1>1. UNCHANGED <<records, set>> /\ proc[p].pc = "wait" /\ native = Nil
  BY DEF TakeNative
<1>2. CASE Quit(p)
  BY <1>0, <1>1, <1>2, QuitInv, IdleType, Bystander
<1>3. CASE OwnerUnreadable
  <2> DEFINE e == [proc[p] EXCEPT !.pc = "refused"]
  <2>1. Become(p, e) /\ Release(p)
    BY <1>3 DEF TakeNative, Go
  <2>2. e \in ProcType /\ e.pc = "refused"
    BY <1>0 DEF ProcType, Places
  <2> HIDE DEF e
  <2>3. e.pc \notin Locked /\ e.pc \notin Steps
    BY <2>2 DEF Locked, Steps
  <2>4. QED
    BY <1>0, <1>1, <2>1, <2>2, <2>3, LetsGo, BecomeDirected, Bystander
<1>4. CASE ~OwnerUnreadable /\ MayReconcile(p)
  <2> DEFINE e == [proc[p] EXCEPT
                  !.pc = IF proc[p].op = "remove" THEN "teardown" ELSE "load",
                  !.target = proc[p].own,
                  !.previous = IF proc[p].op = "remove" \/ owner = Nil THEN None
                               ELSE [ctx |-> owner, plugin |-> descriptor[owner]]]
  <2>1. Become(p, e) /\ native' = p /\ life' = life
    BY <1>4 DEF TakeNative
  <2>2. owner # Nil => [ctx |-> owner, plugin |-> descriptor[owner]] \in Registrations
    BY <1>0, <1>4 DEF OwnerUnreadable, ScheduleTypeOK, Registrations
  <2>3. proc[p].own \in Registrations
    BY <1>0, <1>1 DEF Directed, Locked
  <2>4. /\ e \in ProcType /\ e.own = proc[p].own /\ e.target = proc[p].own
        /\ e.op = proc[p].op
        /\ e.pc = IF e.op = "remove" THEN "teardown" ELSE "load"
        /\ e.op = "remove" => e.previous = None
    <3> DEFINE at == IF proc[p].op = "remove" THEN "teardown" ELSE "load"
               prior == IF proc[p].op = "remove" \/ owner = Nil THEN None
                        ELSE [ctx |-> owner, plugin |-> descriptor[owner]]
    <3>1. at \in Places
      BY DEF Places, Locked, Steps
    <3>2. prior \in Registrations \cup {None} /\ (proc[p].op = "remove" => prior = None)
      BY <2>2
    <3>3. e = [proc[p] EXCEPT !.pc = at, !.target = proc[p].own, !.previous = prior]
      OBVIOUS
    <3> HIDE DEF e, at, prior
    <3>4. /\ e \in ProcType /\ e.own = proc[p].own /\ e.target = proc[p].own
          /\ e.op = proc[p].op /\ e.pc = at /\ e.previous = prior
      BY <1>0, <3>1, <3>2, <3>3 DEF ProcType
    <3>5. QED
      BY <3>2, <3>4 DEF at
  <2> HIDE DEF e
  <2>5. PICK r \in ProcType : r = e
    BY <2>4
  <2>6. r.pc \in {"load", "teardown"} /\ r.pc \in Steps /\ r.pc \in Locked
    BY <2>4, <2>5 DEF Steps, Locked
  <2>7. Consistent(r)'
    <3>1. r.op = "remove" => owner' = r.own.ctx
      BY <1>1, <1>4, <2>4, <2>5 DEF MayReconcile, set
    <3>2. QED
      BY <2>4, <2>5, <3>1
         DEF Consistent, ConsistentSync, ConsistentRemoval, Removing, Building, Finishing
  <2>8. Directed' /\ SetInv'
    BY <1>0, <1>1, <2>1, <2>3, <2>4, <2>5, <2>7, BecomeDirected, HolderOnly
  <2>9. LocksHeld'
    <3>1. \A q \in Procs : proc'[q] = IF q = p THEN e ELSE proc[q]
      BY <1>0, <2>1 DEF Become, ScheduleTypeOK
    <3>2. proc[p].pc \in Locked
      BY <1>1 DEF Locked
    <3>3. QED
      BY <1>0, <1>1, <2>1, <2>4, <2>5, <2>6, <3>1, <3>2 DEF LocksHeld
  <2>10. QED
    BY <2>8, <2>9
<1>5. QED
  BY <1>2, <1>3, <1>4 DEF TakeNative

-----------------------------------------------------------------------------
(* The theorems.                                                             *)

LEMMA InitIInv == Init => IInv
<1> SUFFICES ASSUME Init PROVE IInv
  OBVIOUS
<1>1. ScheduleTypeOK
  <2>1. proc \in [Procs -> ProcType]
    BY IdleType DEF Init
  <2>2. faults \in 0..MaxFaults /\ edits \in 0..MaxEdits /\ calls \in 0..MaxCalls
    BY DEF Init
  <2>3. QED
    BY <2>1, <2>2 DEF Init, ScheduleTypeOK, ProcType
<1>2. \A p \in Procs : proc[p].pc = "idle"
  BY DEF Init, Idle
<1>3. "idle" \notin Locked \cup {"called", "describe"} \cup Steps
  BY DEF Locked, Steps
<1>4. Directed /\ SetInv
  BY <1>2, <1>3 DEF Directed, SetInv
<1>5. LocksHeld
  BY <1>2, <1>3 DEF Init, LocksHeld
<1>6. QED
  BY <1>1, <1>4, <1>5 DEF IInv

LEMMA StepIInv == IInv /\ [Next]_vars => IInv'
<1> SUFFICES ASSUME IInv, [Next]_vars PROVE IInv'
  OBVIOUS
<1>0. ScheduleTypeOK /\ Directed /\ LocksHeld /\ SetInv
  BY DEF IInv
<1>1. CASE UNCHANGED vars
  <2>1. UNCHANGED <<summary, pending, unit, armed, sentinel, owner, life, native, proc>>
    BY <1>1 DEF vars, records, set, locks
  <2>2. ScheduleTypeOK' /\ Directed' /\ LocksHeld'
    <3>1. UNCHANGED <<jobs, descriptor, faults, edits, calls>>
      BY <1>1 DEF vars, counts
    <3>2. ScheduleTypeOK'
      BY <1>0, <2>1, <3>1 DEF ScheduleTypeOK
    <3>3. Directed' /\ LocksHeld'
      BY <1>0, <2>1 DEF Directed, LocksHeld
    <3>4. QED
      BY <3>2, <3>3
  <2>3. SetInv'
    BY <1>0, <2>1 DEF SetInv, Consistent, ConsistentSync, ConsistentRemoval, Registered
  <2>4. QED
    BY <2>2, <2>3 DEF IInv
<1>2. ASSUME NEW c \in Contexts, NEW j \in Jobs, NEW state \in {"absent", "off", "on"},
             EditJobs(c, j, state)
      PROVE  IInv'
  <2>1. UNCHANGED <<descriptor, summary, pending, unit, armed, sentinel, owner, life, native,
                    proc, faults, calls>>
    BY <1>2 DEF EditJobs, records, set, locks
  <2>2. jobs' \in [Contexts -> [Jobs -> {"absent", "off", "on"}]] /\ edits' \in 0..MaxEdits
    <3>1. edits \in 0..MaxEdits /\ edits < MaxEdits /\ edits' = edits + 1
      BY <1>0, <1>2 DEF EditJobs, ScheduleTypeOK
    <3>2. edits' \in 0..MaxEdits
      BY <3>1
    <3>3. QED
      BY <1>0, <1>2, <3>2 DEF EditJobs, ScheduleTypeOK
  <2>3. ScheduleTypeOK'
    BY <1>0, <2>1, <2>2 DEF ScheduleTypeOK
  <2>4. Directed' /\ LocksHeld'
    BY <1>0, <2>1 DEF Directed, LocksHeld
  <2>5. SetInv'
    BY <1>0, <2>1 DEF SetInv, Consistent, ConsistentSync, ConsistentRemoval, Registered
  <2>6. QED
    BY <2>3, <2>4, <2>5 DEF IInv
<1>3. ASSUME NEW p \in Procs,
             \/ \E o \in Operations, c \in Contexts, g \in Plugins : Call(p, o, c, g)
             \/ Work(p) \/ Die(p)
      PROVE  IInv'
  <2>1. ScheduleTypeOK'
    BY <1>0, <1>3, CallType, JobsType, TakeNativeType, SetType, RecordsType, RemovalType
       DEF Work, Sync, Remove
  <2>2. Directed' /\ LocksHeld' /\ SetInv'
    <3>1. CASE Sync(p)
      BY <3>1, LoadInv, RenderInv, PruneInv, ReloadInv, SettleInv, ClearInv, LeavingInv DEF Sync
    <3>2. CASE Remove(p)
      BY <3>2, TeardownInv, DisarmInv, DisownInv DEF Remove
    <3>3. QED
      BY <1>3, <3>1, <3>2, WaitingInv, LeavingInv, TakeNativeInv DEF Work
  <2>3. QED
    BY <2>1, <2>2 DEF IInv
<1>4. QED
  BY <1>1, <1>2, <1>3 DEF Next

\* The inductive invariant of the reconciliation holds in every reachable state.
THEOREM Inductive == Spec => []IInv
<1>1. QED
  BY InitIInv, StepIInv, PTL DEF Spec

\* Every record, registration and place is one that the code can read back.
THEOREM ScheduleTypes == Spec => []ScheduleTypeOK
<1>1. IInv => ScheduleTypeOK
  BY DEF IInv
<1>2. QED
  BY <1>1, Inductive, PTL

\* No step, failure or death of any process leaves a lock behind, or a process in
\* the middle of a reconciliation without the native lock.
THEOREM Locks == Spec => []LocksHeld
<1>1. IInv => LocksHeld
  BY DEF IInv
<1>2. QED
  BY <1>1, Inductive, PTL

\* Only Clear drops a pending record; only Own and Disown change the owner.
KeepsPending == pending' = pending \/ \E c \in Contexts, N \in SUBSET Jobs :
                                          pending' = [pending EXCEPT ![c] = N]

LEMMA NamesArePresent ==
  ASSUME NEW N \in SUBSET Jobs
  PROVE  N # Absent
  OBVIOUS

LEMMA PendingKept ==
  ASSUME IInv, NEW p \in Procs,
         \/ \E o \in Operations, c \in Contexts, g \in Plugins : Call(p, o, c, g)
         \/ Work(p) \/ Die(p),
         ~Clear(p)
  PROVE  KeepsPending
<1>1. CASE Load(p) \/ Teardown(p)
  <2> DEFINE c == proc[p].target.ctx
  <2>1. c \in Contexts
    BY <1>1, Holding DEF Load, Teardown, Steps
  <2>2. On(c) \in SUBSET Jobs /\ Candidates(c) \in SUBSET Jobs
    BY <2>1, KnownNames DEF IInv
  <2> HIDE DEF c
  <2>3. \/ pending' = pending \/ pending' = [pending EXCEPT ![c] = On(c)]
        \/ pending' = [pending EXCEPT ![c] = Candidates(c)]
    BY <1>1 DEF Load, Teardown, c
  <2>4. QED
    BY <2>1, <2>2, <2>3 DEF KeepsPending
<1>2. CASE ~(Load(p) \/ Teardown(p))
  <2>1. pending' = pending
    BY <1>2 DEF Work, Sync, Remove, Call, Die, Enter, SetEnabled, JobNotFound, TakeNative,
                Refused, Render, Prune, Reload, Enable, Sentinel, Own, Settle, Describe,
                Disarm, Unsentinel, Disown, records
  <2>2. QED
    BY <2>1 DEF KeepsPending
<1>3. QED
  BY <1>1, <1>2

LEMMA OwnerKept ==
  ASSUME NEW p \in Procs,
         \/ \E o \in Operations, c \in Contexts, g \in Plugins : Call(p, o, c, g)
         \/ Work(p) \/ Die(p),
         ~Own(p), ~Disown(p)
  PROVE  owner' = owner
  BY DEF Work, Sync, Remove, Call, Die, Enter, SetEnabled, JobNotFound, TakeNative,
         Refused, Load, Render, Prune, Reload, Enable, Sentinel, Settle, Clear, Describe,
         Teardown, Disarm, Unsentinel, set

\* The holder that clears a pending record knows the set to be exact.
LEMMA SettlesStep ==
  ASSUME IInv, [Next]_vars, NEW c \in Contexts
  PROVE  Settles(c)
<1> SUFFICES ASSUME pending[c] # Absent, pending'[c] = Absent
             PROVE  \/ owner' = c /\ Exact(c, summary[c])'
                    \/ owner' = Nil /\ Registered' = {} /\ summary'[c] = {} /\ sentinel' = None
  BY DEF Settles
<1>0. pending \in [Contexts -> (SUBSET Jobs) \cup {Absent}]
  BY DEF IInv, ScheduleTypeOK
<1>1. ~KeepsPending
  BY <1>0, NamesArePresent DEF KeepsPending
<1>2. PICK p \in Procs : Clear(p)
  <2>1. ~UNCHANGED vars
    BY <1>1 DEF vars, records, KeepsPending
  <2>2. ~\E d \in Contexts, j \in Jobs, state \in {"absent", "off", "on"} : EditJobs(d, j, state)
    BY <1>1 DEF EditJobs, records, KeepsPending
  <2>3. QED
    BY <1>1, <2>1, <2>2, PendingKept DEF Next
<1> DEFINE q == proc[p]
<1>3. /\ q.pc = "clear" /\ Consistent(q) /\ q.target \in Registrations
      /\ q.names \subseteq Jobs /\ q.target.ctx \in Contexts
  BY <1>2, Holding DEF Clear, Steps
<1>4. /\ pending' = [pending EXCEPT ![q.target.ctx] = Absent]
      /\ UNCHANGED <<summary, unit, armed, sentinel, owner>>
  BY <1>1, <1>2 DEF Clear, set, KeepsPending
<1>5. c = q.target.ctx
  BY <1>0, <1>4
<1>6. summary[c] = q.names
  BY <1>3, <1>5 DEF Consistent
<1>7. CASE q.op = "remove"
  <2>1. Registered = {} /\ sentinel = None /\ owner = Nil /\ q.names = {}
    BY <1>3, <1>7 DEF Consistent, ConsistentRemoval, Finishing
  <2>2. Registered' = Registered
    BY <1>4 DEF Registered
  <2>3. QED
    BY <1>4, <1>6, <2>1, <2>2
<1>8. CASE q.op # "remove"
  <2>1. /\ \A j \in q.names : unit[j] = q.target
        /\ \A j \in Jobs \ q.names : unit[j] = None
        /\ \A j \in q.names : armed[j] = q.target
        /\ sentinel = q.target /\ owner = c
    BY <1>3, <1>5, <1>8 DEF Consistent, ConsistentSync, Finishing
  <2>2. Exact(c, summary[c])
    BY <1>3, <1>5, <1>6, <2>1 DEF Exact
  <2>3. Exact(c, summary[c])'
    BY <1>4, <2>2 DEF Exact
  <2>4. QED
    BY <1>4, <2>1, <2>3
<1>9. QED
  BY <1>7, <1>8

SettlesAll == \A c \in Contexts : Settles(c)

\* A pending record goes only when the set is exactly what the settled record says.
THEOREM SettledExact == Spec => SettledIsExact
<1>1. IInv /\ [Next]_vars => [SettlesAll]_vars
  BY SettlesStep DEF SettlesAll
<1>2. Spec => [][SettlesAll]_vars
  BY <1>1, Inductive, PTL DEF Spec
<1>3. QED
  BY <1>2 DEF SettledIsExact, SettlesAll

LEMMA OwnerStep ==
  ASSUME IInv, [Next]_vars
  PROVE  Claims /\ Disowns
<1>1. CASE owner' = owner
  BY <1>1 DEF Claims, Disowns
<1>2. CASE owner' # owner
  <2>1. PICK p \in Procs : Own(p) \/ Disown(p)
    <3>1. ~UNCHANGED vars
      BY <1>2 DEF vars, set
    <3>2. ~\E d \in Contexts, j \in Jobs, state \in {"absent", "off", "on"} : EditJobs(d, j, state)
      BY <1>2 DEF EditJobs, set
    <3>3. QED
      BY <1>2, <3>1, <3>2, OwnerKept DEF Next
  <2> DEFINE q == proc[p]
  <2>2. CASE Own(p)
    <3>1. /\ q.pc = "own" /\ Consistent(q) /\ q.target \in Registrations
          /\ q.names \subseteq Jobs /\ q.target.ctx \in Contexts
      BY <2>2, Holding DEF Own, Steps
    <3>2. /\ owner' = q.target.ctx
          /\ UNCHANGED <<pending, unit, armed, sentinel>>
      BY <1>2, <2>2 DEF Own, records
    <3>3. ConsistentSync(q)
      BY <3>1 DEF Consistent, Removing, Finishing
    <3>4. /\ \A j \in q.names : unit[j] = q.target
          /\ \A j \in Jobs \ q.names : unit[j] = None
          /\ \A j \in q.names : armed[j] = q.target
          /\ sentinel = q.target /\ pending[q.target.ctx] = q.names
      BY <3>1, <3>3 DEF ConsistentSync, Building, Finishing
    <3>5. Exact(owner, pending[owner])'
      BY <3>1, <3>2, <3>4 DEF Exact
    <3>6. owner' # Nil
      BY <3>1, <3>2
    <3>7. QED
      BY <3>5, <3>6 DEF Claims, Disowns
  <2>3. CASE Disown(p)
    <3>1. /\ q.pc = "disown" /\ Consistent(q) /\ native = p /\ q.pc \in Locked
      BY <2>3, Holding DEF Disown, Steps, Locked
    <3>2. owner' = Nil
      BY <1>2, <2>3 DEF Disown
    <3>3. /\ q.op = "remove" /\ Registered = {} /\ sentinel = None /\ owner = q.own.ctx
      BY <3>1 DEF Consistent, ConsistentRemoval, Removing
    <3>4. owner \in Contexts \cup {Nil}
      BY DEF IInv, ScheduleTypeOK
    <3>5. owner # Nil => life[owner] = p
      BY <3>1, <3>3, <3>4 DEF IInv, LocksHeld
    <3>6. QED
      BY <3>1, <3>2, <3>3, <3>5 DEF Claims, Disowns
  <2>4. QED
    BY <2>1, <2>2, <2>3
<1>3. QED
  BY <1>1, <1>2

OwnerMoves == Claims /\ Disowns

\* A context owns the set only once the set is its own, and gives it up only empty.
THEOREM OwnerHands == Spec => OwnerChangesHands
<1>1. IInv /\ [Next]_vars => [OwnerMoves]_vars
  BY OwnerStep DEF OwnerMoves
<1>2. Spec => [][OwnerMoves]_vars
  BY <1>1, Inductive, PTL DEF Spec
<1>3. QED
  BY <1>2 DEF OwnerChangesHands, OwnerMoves
=============================================================================
