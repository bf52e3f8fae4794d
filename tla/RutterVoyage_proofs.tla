------------------------- MODULE RutterVoyage_proofs -------------------------
(***************************************************************************)
(* Theorems about RutterVoyage, for every Rutter, every set of processes   *)
(* and every bound.  IInv: types, at most one start of a machine that is   *)
(* not repeat-safe, the finality of faults and uncertain machines.  IInv2: *)
(* the Reckoning stays sound and honest, from which follow every safety    *)
(* property of RutterProperties, that of VoyageRelease, and the refinement *)
(* of EffectLedger.                                                        *)
(***************************************************************************)
EXTENDS VoyageRelease, RutterLedger, RutterReckoning_proofs, FiniteSetTheorems,
        WellFoundedInduction

NRS == "non-repeat-safe"

\* The inductive invariant.  Types: a path is properly nested, and a returned
\* outcome is at hand until it is durable.
HeldIsOutcome == \A p \in Procs : pc[p] = "ran" => held[p] # Nil
TypeInv == TypeOK /\ Nested(disk.path) /\ HeldIsOutcome

\* Starts: only the lock's holder is inside an operation; the recovery belongs to
\* an identifier already drawn; an identifier not yet drawn, a planned machine
\* and one about to run have not been started under NRS, and the last is marked.
Exclusive == \A p \in Procs : pc[p] # "idle" => lock = p
RecoveryIsDrawn ==
    disk.effect.disposition # "none" => disk.effect.id \in Ids /\ disk.effect.id < nextId
UndrawnNeverStarted == \A i \in Ids : i >= nextId => ran[i][NRS] = 0
PlannedNeverStarted ==
    disk.effect.disposition = "planned" /\ disk.effect.mode = NRS
        => ran[disk.effect.id][NRS] = 0
RunIsMarked == \A p \in Procs : pc[p] \in {"run", "ran"} =>
    /\ disk.effect.disposition # "none"
    /\ pc[p] = "run" /\ disk.effect.mode = NRS =>
          disk.effect.disposition = "uncertain" /\ ran[disk.effect.id][NRS] = 0
\* An operation goes on only over an unblocked Reckoning.
NoWorkWhenBlocked == \A p \in Procs :
    /\ pc[p] = "loop" => ~Blocked(disk)
    /\ pc[p] \in {"run", "ran"} => disk.fault.category = "none"
StartInv == /\ Exclusive /\ RecoveryIsDrawn /\ UndrawnNeverStarted
            /\ PlannedNeverStarted /\ RunIsMarked /\ NonRepeatSafeRunsOnce
            /\ NoWorkWhenBlocked

IInv == TypeInv /\ StartInv

-----------------------------------------------------------------------------
(* The first Reckoning of a Voyage satisfies the invariant.                  *)
LEMMA InitInv == Init => IInv
<1> SUFFICES ASSUME Init PROVE IInv
  OBVIOUS
<1> DEFINE empty == [path |-> <<>>, completed |-> {}, effect |-> NoEffect,
                     fault |-> NoFault, rev |-> 0]
<1>1. 1 \in Ids /\ 2 \in 1..(MaxId + 1) /\ Start \in Evolutions
  BY BoundAssumption, StartAssumption DEF Ids
<1>2. empty \in Reckoning /\ empty.path = <<>> /\ empty.effect = NoEffect
  BY DEF Reckoning, NoEffect, NoFault, Effect, Fault, Modes, Dispositions, FaultCategories,
     HookCategories
<1>3. Nested(empty.path)
  BY <1>2 DEF Nested
<1>4. disk = WithChild(empty, 1, Start, "root", Nil)
  BY DEF Init, CreateReckoning
<1> HIDE DEF empty
<1>5. disk \in Live /\ EffectStep(empty, disk, 1)
  BY <1>1, <1>2, <1>3, <1>4, WithChildType
<1>6. disk \in Reckoning /\ disk.path # <<>> /\ Nested(disk.path)
  BY <1>5 DEF Live
<1>7. TypeOK
  BY <1>1, <1>6 DEF Init, TypeOK, NoDraft, Ids
<1>8. TypeInv
  BY <1>6, <1>7 DEF Init, TypeInv, HeldIsOutcome
<1>9. disk.effect = NoEffect \/ disk.effect.id = 1
  BY <1>2, <1>5, PlannedFacts DEF EffectStep
<1>10. StartInv
  BY <1>1, <1>9 DEF Init, StartInv, Exclusive, RecoveryIsDrawn, UndrawnNeverStarted,
     PlannedNeverStarted, RunIsMarked, NonRepeatSafeRunsOnce, NoWorkWhenBlocked,
     NRS, Modes, NoEffect
<1> QED BY <1>8, <1>10 DEF IInv

\* The faults that name neither a target nor a hook.
PlainCategories == {"contextual-validation", "action-execution", "done-projection"}
LEMMA PlainFault ==
    ASSUME NEW c \in PlainCategories
    PROVE  /\ c \in FaultCategories /\ c # "none"
           /\ c \notin HookCategories /\ c # "target-materialization"
BY DEF PlainCategories, FaultCategories, HookCategories

\* The control part of a state in which no callback is under way.
Quiet ==
    /\ lock \in Procs \cup {Nil}
    /\ pc \in [Procs -> {"idle", "loop"}]
    /\ op \in [Procs -> {"advance", "step", "instruction"}]
    /\ held \in [Procs -> Outcomes \cup {Nil}]
    /\ Exclusive

(* Ending, continuing or opening an operation leaves no callback under way.  *)
LEMMA QuietControl ==
    ASSUME IInv, NEW p \in Procs,
           \/ lock = p /\ End(p)
           \/ lock = p /\ Stay(p, "loop") /\ held' = [held EXCEPT ![p] = Nil]
           \/ lock = Nil /\ UNCHANGED <<lock, pc, op, held>>
           \/ \E kind \in {"advance", "step", "instruction"} :
                 Begin(p, kind) /\ pc' = [pc EXCEPT ![p] = "loop"] /\ UNCHANGED held
    PROVE  /\ Quiet'
           /\ \A q \in Procs : q # p => pc'[q] = "idle"
           /\ End(p) => pc'[p] = "idle"
<1>1. /\ lock \in Procs \cup {Nil}
      /\ pc \in [Procs -> {"idle", "loop", "run", "ran"}]
      /\ op \in [Procs -> {"advance", "step", "instruction"}]
      /\ held \in [Procs -> Outcomes \cup {Nil}]
      /\ \A q \in Procs : pc[q] # "idle" => lock = q
  BY DEF IInv, TypeInv, TypeOK, StartInv, Exclusive
<1>2. p # Nil /\ Nil \notin Procs
  BY StartAssumption
<1> DEFINE Goal == /\ Quiet' /\ \A q \in Procs : q # p => pc'[q] = "idle"
                   /\ End(p) => pc'[p] = "idle"
<1>3. CASE lock = p /\ End(p)
  BY <1>1, <1>2, <1>3 DEF End, Quiet, Exclusive
<1>4. CASE lock = p /\ Stay(p, "loop") /\ held' = [held EXCEPT ![p] = Nil]
  BY <1>1, <1>2, <1>4 DEF Stay, Quiet, Exclusive, End
<1>5. CASE lock = Nil /\ UNCHANGED <<lock, pc, op, held>>
  BY <1>1, <1>2, <1>5 DEF Quiet, Exclusive, End
<1>6. ASSUME NEW kind \in {"advance", "step", "instruction"},
             Begin(p, kind), pc' = [pc EXCEPT ![p] = "loop"], UNCHANGED held
      PROVE  Goal
  BY <1>1, <1>2, <1>6 DEF Begin, Quiet, Exclusive, End
<1> QED BY <1>3, <1>4, <1>5, <1>6

(* A step that only changes control keeps the invariant.                     *)
LEMMA QuietInv ==
    ASSUME IInv, Quiet', \A q \in Procs : pc'[q] = "loop" => ~Blocked(disk),
           UNCHANGED <<disk, draft, nextId, history>>
    PROVE  IInv'
<1>1. TypeInv'
  BY DEF IInv, TypeInv, TypeOK, Quiet, HeldIsOutcome, history
<1>2. StartInv'
  BY DEF IInv, StartInv, Quiet, Exclusive, RecoveryIsDrawn, UndrawnNeverStarted,
     PlannedNeverStarted, RunIsMarked, NonRepeatSafeRunsOnce, NoWorkWhenBlocked, Blocked,
     history
<1> QED BY <1>1, <1>2 DEF IInv

(* A publication whose recovery is the old one, none, or a plan for the      *)
(* identifier that it draws keeps the invariant.                             *)
LEMMA PublicationInv ==
    ASSUME IInv, Quiet', NEW s \in Live, disk' = s,
           nextId' = IF DeepestActiveLeaf(s).entry = nextId THEN nextId + 1 ELSE nextId,
           \/ s.effect = disk.effect \/ s.effect = NoEffect
           \/ nextId \in Ids /\ Planned(s, nextId),
           \A q \in Procs : pc'[q] = "loop" =>
              s.fault.category = "none" /\ disk.effect.disposition # "uncertain",
           UNCHANGED <<draft, history>>
    PROVE  IInv'
<1>1. s \in Reckoning /\ s.path # <<>> /\ Nested(s.path)
  BY DEF Live
<1>2. nextId \in Nat /\ nextId \in 1..(MaxId + 1) /\ MaxId \in Nat
  BY BoundAssumption DEF IInv, TypeInv, TypeOK
<1>3. nextId' \in 1..(MaxId + 1) /\ nextId' >= nextId
  <2>1. DeepestActiveLeaf(s).entry \in Ids
    BY LeafType DEF Frame
  <2> QED BY <1>2, <2>1 DEF Ids
<1>4. TypeInv'
  BY <1>1, <1>3 DEF IInv, TypeInv, TypeOK, Quiet, HeldIsOutcome, history
<1>5. /\ ran \in [Ids -> [Modes -> 0..2]] /\ ran' = ran
      /\ UndrawnNeverStarted /\ RecoveryIsDrawn /\ PlannedNeverStarted /\ NonRepeatSafeRunsOnce
  BY DEF IInv, TypeInv, TypeOK, StartInv, history
<1>6. RecoveryIsDrawn' /\ PlannedNeverStarted'
  <2>1. CASE s.effect = disk.effect
    BY <2>1, <1>2, <1>3, <1>5 DEF RecoveryIsDrawn, PlannedNeverStarted, Ids
  <2>2. CASE s.effect = NoEffect
    BY <2>2 DEF RecoveryIsDrawn, PlannedNeverStarted, NoEffect
  <2>3. CASE nextId \in Ids /\ Planned(s, nextId)
    <3>1. s.effect.id = nextId /\ nextId' = nextId + 1
      BY <2>3, PlannedFacts
    <3>2. ran[nextId][NRS] = 0
      BY <2>3, <1>2, <1>5 DEF UndrawnNeverStarted
    <3> QED BY <2>3, <3>1, <3>2, <1>2, <1>5 DEF RecoveryIsDrawn, PlannedNeverStarted
  <2> QED BY <2>1, <2>2, <2>3
<1>7. UndrawnNeverStarted' /\ NonRepeatSafeRunsOnce'
  BY <1>2, <1>3, <1>5 DEF UndrawnNeverStarted, NonRepeatSafeRunsOnce, Ids
<1>8. Exclusive' /\ RunIsMarked'
  BY DEF Quiet, RunIsMarked
<1>9. NoWorkWhenBlocked'
  <2>1. s.effect.disposition = "uncertain" => disk.effect.disposition = "uncertain"
    BY PlannedFacts DEF NoEffect
  <2> QED BY <2>1 DEF Quiet, NoWorkWhenBlocked, Blocked
<1> QED BY <1>4, <1>6, <1>7, <1>8, <1>9 DEF IInv, StartInv

(* The published state is live, and its leaf and results are typed.          *)
LEMMA DiskType ==
    ASSUME IInv
    PROVE  /\ disk \in Live /\ disk.effect \in Effect
           /\ Leaf \in Frame /\ Results[Leaf.evo] \subseteq Outcomes
<1>1. disk \in Live
  BY DEF IInv, TypeInv, TypeOK, Live
<1>2. Leaf \in Frame
  BY <1>1, LeafType DEF Leaf
<1> QED BY <1>1, <1>2, ProgramAssumption DEF Live, Reckoning, Frame

(* A publication inside an operation, and one that opens an operation.       *)
LEMMA PublishInv ==
    ASSUME IInv, NEW p \in Procs, NEW s \in Live, NEW one \in BOOLEAN, Running(p),
           Publish(p, s, one),
           \/ s.effect = disk.effect \/ s.effect = NoEffect
           \/ nextId \in Ids /\ Planned(s, nextId)
    PROVE  IInv'
<1>1. Quiet' /\ \A q \in Procs : q # p => pc'[q] = "idle"
  BY QuietControl DEF Publish, Running
<1>2. ~Blocked(disk)
  BY DEF IInv, StartInv, NoWorkWhenBlocked, Running
<1>3. s.fault.category # "none" => pc'[p] = "idle"
  BY QuietControl DEF Publish, Running
<1> QED BY <1>1, <1>2, <1>3, PublicationInv DEF Publish, Blocked

LEMMA PublishFirstInv ==
    ASSUME IInv, NEW p \in Procs, NEW s \in Live, NEW kind \in {"advance", "step"},
           PublishFirst(p, s, kind), ~Blocked(disk),
           \/ s.effect = disk.effect \/ s.effect = NoEffect
           \/ nextId \in Ids /\ Planned(s, nextId)
    PROVE  IInv'
<1>1. Quiet' /\ \A q \in Procs : q # p => pc'[q] = "idle"
  BY QuietControl DEF PublishFirst
<1>2. s.fault.category # "none" => pc'[p] = "idle"
  BY <1>1, StartAssumption DEF PublishFirst, Quiet, Exclusive
<1> QED BY <1>1, <1>2, PublicationInv DEF PublishFirst, Blocked

-----------------------------------------------------------------------------
\* One lemma per action that needs more than those.

(* Composing an answer changes no Reckoning.                                 *)
LEMMA GetStatusInv ==
    ASSUME IInv, NEW p \in Procs, NEW out \in Outcomes \cup {Nil}, GetStatus(p, out)
    PROVE  IInv'
<1>1. Leaf.entry \in Ids
  BY DiskType DEF Frame
<1>2. out # Nil => out \in Outcomes
  OBVIOUS
<1>3. TypeInv'
  BY <1>1, <1>2 DEF IInv, TypeInv, TypeOK, HeldIsOutcome, GetStatus, process
<1>4. StartInv'
  BY DEF IInv, StartInv, Exclusive, RecoveryIsDrawn, UndrawnNeverStarted,
     PlannedNeverStarted, RunIsMarked, NonRepeatSafeRunsOnce, NoWorkWhenBlocked, Blocked,
     GetStatus, process
<1> QED BY <1>3, <1>4 DEF IInv

LEMMA RespondInv ==
    ASSUME IInv, NEW p \in Procs, NEW kind \in {"advance", "step"}, Respond(p, kind)
    PROVE  IInv'
<1> DEFINE out == draft[p].out
           r == AcceptPrompt(disk, out)
<1>1. disk \in Live /\ out \in Outcomes /\ nextId \in Ids
  BY DiskType DEF Respond, Answers, HasFreshId
<1>2. r \in Live /\ r.effect = disk.effect
  BY <1>1, AcceptPromptType
<1>3. PICK s \in ContinueTransition(disk, r, nextId, out)
                   \cup FaultsOf(disk, disk, "contextual-validation", Leaf.evo) :
        PublishFirst(p, s, kind)
  BY DEF Respond
<1>4. s \in Live /\ (s.effect = disk.effect \/ Planned(s, nextId))
  <2> HIDE DEF r, out
  <2>1. CASE s \in ContinueTransition(disk, r, nextId, out)
    BY <2>1, <1>1, <1>2, ContinueType DEF EffectStep
  <2>2. CASE s \in FaultsOf(disk, disk, "contextual-validation", Leaf.evo)
    BY <2>2, <1>1, FaultsType, PlainFault DEF PlainCategories
  <2> QED BY <1>3, <2>1, <2>2
<1>5. ~Blocked(disk)
  BY DEF Respond, Unblocked
<1> HIDE DEF r, out
<1> QED BY <1>1, <1>3, <1>4, <1>5, PublishFirstInv

(* Accepting a machine's result and continuing.                              *)
LEMMA AcceptedMachineType ==
    ASSUME IInv, NEW out \in Outcomes, nextId \in Ids,
           NEW s \in ContinueTransition(disk, AcceptMachine(disk, out), nextId, out)
    PROVE  s \in Live /\ (s.effect = NoEffect \/ Planned(s, nextId))
<1>1. disk \in Live
  BY DiskType
<1>2. AcceptMachine(disk, out) \in Live /\ AcceptMachine(disk, out).effect = NoEffect
  BY <1>1, AcceptMachineType
<1> QED BY <1>1, <1>2, ContinueType DEF EffectStep

LEMMA SupplyResultInv ==
    ASSUME IInv, NEW p \in Procs, NEW kind \in {"advance", "step"}, NEW out \in Outcomes,
           SupplyResult(p, kind, out)
    PROVE  IInv'
<1>1. nextId \in Ids
  BY DEF SupplyResult, HasFreshId
<1>2. PICK s \in ContinueTransition(disk, AcceptMachine(disk, out), nextId, out) :
        PublishFirst(p, s, kind)
  BY DEF SupplyResult
<1>3. s \in Live /\ (s.effect = NoEffect \/ Planned(s, nextId))
  BY <1>1, <1>2, AcceptedMachineType
<1>4. ~Blocked(disk)
  BY DEF SupplyResult, Unblocked
<1> QED BY <1>1, <1>2, <1>3, <1>4, PublishFirstInv

LEMMA ContinueRecordedInv ==
    ASSUME IInv, NEW p \in Procs, ContinueRecorded(p)
    PROVE  IInv'
<1>1. PICK rec \in RecordedSources(Leaf) :
         \/ /\ HasFreshId
            /\ \E s \in ContinueTransition(disk, disk, nextId, rec.out) \ {disk} :
                  Publish(p, s, TRUE)
         \/ Depth(disk) > 0 /\ Publish(p, ReturnActiveChild(disk, rec.out), FALSE)
         \/ End(p) /\ UNCHANGED <<disk, draft, nextId, history>>
  BY DEF ContinueRecorded
<1>2. disk \in Live /\ rec.out \in Outcomes
  BY DiskType, RecordedOutcome DEF Leaf
<1>3. Running(p) /\ lock = p
  BY DEF ContinueRecorded, Running
<1>4. ASSUME HasFreshId, NEW s \in ContinueTransition(disk, disk, nextId, rec.out),
             Publish(p, s, TRUE)
      PROVE  IInv'
  <2>1. s \in Live /\ (s.effect = disk.effect \/ Planned(s, nextId))
    BY <1>2, <1>4, ContinueType DEF HasFreshId, EffectStep
  <2> QED BY <1>3, <1>4, <2>1, PublishInv DEF HasFreshId
<1>5. CASE Depth(disk) > 0 /\ Publish(p, ReturnActiveChild(disk, rec.out), FALSE)
  BY <1>2, <1>3, <1>5, ReturnType, PublishInv
<1>6. CASE End(p) /\ UNCHANGED <<disk, draft, nextId, history>>
  <2>1. Quiet' /\ \A q \in Procs : pc'[q] = "idle"
    BY <1>3, <1>6, QuietControl
  <2> QED BY <1>6, <2>1, QuietInv
<1> QED BY <1>1, <1>4, <1>5, <1>6

LEMMA RunPureInv ==
    ASSUME IInv, NEW p \in Procs, NEW out \in Outcomes, RunPure(p, out)
    PROVE  IInv'
<1>1. PICK s \in ContinueTransition(disk, AcceptMachine(disk, out), nextId, out)
                   \cup FaultsOf(disk, disk, "action-execution", Leaf.evo) :
        Publish(p, s, TRUE)
  BY DEF RunPure
<1>2. Running(p) /\ nextId \in Ids /\ disk \in Live
  BY DiskType DEF RunPure, HasFreshId
<1>3. CASE s \in ContinueTransition(disk, AcceptMachine(disk, out), nextId, out)
  BY <1>1, <1>2, <1>3, AcceptedMachineType, PublishInv
<1>4. CASE s \in FaultsOf(disk, disk, "action-execution", Leaf.evo)
  <2>1. s \in Live /\ s.effect = disk.effect
    BY <1>2, <1>4, FaultsType, PlainFault DEF PlainCategories
  <2> QED BY <1>1, <1>2, <2>1, PublishInv
<1> QED BY <1>1, <1>3, <1>4

LEMMA AcceptEffectInv ==
    ASSUME IInv, NEW p \in Procs, AcceptEffect(p)
    PROVE  IInv'
<1> DEFINE out == disk.effect.result
<1>1. out \in Outcomes /\ nextId \in Ids /\ Running(p)
  BY DiskType DEF AcceptEffect, HasFreshId, Effect
<1>2. PICK s \in ContinueTransition(disk, AcceptMachine(disk, out), nextId, out) :
        Publish(p, s, TRUE)
  BY DEF AcceptEffect
<1> HIDE DEF out
<1>3. s \in Live /\ (s.effect = NoEffect \/ Planned(s, nextId))
  BY <1>1, <1>2, AcceptedMachineType
<1> QED BY <1>1, <1>2, <1>3, PublishInv

LEMMA EnterSubRutterInv ==
    ASSUME IInv, NEW p \in Procs, EnterSubRutter(p)
    PROVE  IInv'
<1>1. PICK s \in PushCall(disk, nextId) : Publish(p, s, TRUE)
  BY DEF EnterSubRutter
<1>2. Running(p) /\ nextId \in Ids /\ disk \in Live
  BY DiskType DEF EnterSubRutter, HasFreshId
<1>3. s \in Live /\ (s.effect = disk.effect \/ Planned(s, nextId))
  BY <1>1, <1>2, PushCallType DEF EffectStep
<1> QED BY <1>1, <1>2, <1>3, PublishInv

LEMMA SettleInv ==
    ASSUME IInv, NEW p \in Procs, NEW out \in Outcomes, Settle(p, out)
    PROVE  IInv'
<1>1. PICK s \in {SettleTerminal(disk, out)}
                   \cup FaultsOf(disk, disk, "done-projection", Leaf.evo) : Publish(p, s, TRUE)
  BY DEF Settle
<1>2. Running(p) /\ disk \in Live
  BY DiskType DEF Settle
<1>3. s \in Live /\ s.effect = disk.effect
  <2>1. CASE s = SettleTerminal(disk, out)
    BY <2>1, <1>2, WithRecordType DEF SettleTerminal
  <2>2. CASE s \in FaultsOf(disk, disk, "done-projection", Leaf.evo)
    BY <2>2, <1>2, FaultsType, PlainFault DEF PlainCategories
  <2> QED BY <1>1, <2>1, <2>2
<1> QED BY <1>1, <1>2, <1>3, PublishInv

(* Changing only the recovery of a live Reckoning.                           *)
LEMMA EffectChange ==
    ASSUME NEW r \in Live, NEW x \in Effect
    PROVE  /\ [r EXCEPT !.effect = x] \in Reckoning
           /\ [r EXCEPT !.effect = x].path = r.path
           /\ [r EXCEPT !.effect = x].effect = x
BY DEF Live, Reckoning

(* Starting a callback: without repeat safety the mark is durable first, and *)
(* a planned machine has not been started.                                   *)
LEMMA StartEffectInv ==
    ASSUME IInv, NEW p \in Procs, StartEffect(p)
    PROVE  IInv'
<1> DEFINE x == IF disk.effect.mode = NRS
                THEN [disk.effect EXCEPT !.disposition = "uncertain"] ELSE disk.effect
<1>1. /\ disk \in Live /\ disk.effect \in Effect /\ disk.effect.disposition = "planned"
      /\ lock = p /\ pc[p] = "loop" /\ pc \in [Procs -> {"idle", "loop", "run", "ran"}]
      /\ p # Nil
  BY DiskType, StartAssumption DEF StartEffect, MayStart, Running, IInv, TypeInv, TypeOK
<1>2. /\ x \in Effect /\ x.id = disk.effect.id /\ x.mode = disk.effect.mode
      /\ x.disposition = IF x.mode = NRS THEN "uncertain" ELSE "planned"
  BY <1>1 DEF Effect, Dispositions
<1>3. disk' \in Reckoning /\ disk'.path = disk.path /\ disk'.effect = x
  <2>1. CASE disk.effect.mode = NRS
    <3>1. disk' = [disk EXCEPT !.effect = x]
      BY <2>1 DEF StartEffect, Marked, NRS
    <3> HIDE DEF x
    <3> QED BY <1>1, <1>2, <3>1, EffectChange
  <2>2. CASE disk.effect.mode # NRS
    BY <2>2, <1>1 DEF StartEffect, Marked, NRS, Live
  <2> QED BY <2>1, <2>2
<1> HIDE DEF x
<1>4. pc' = [pc EXCEPT ![p] = "run"] /\ UNCHANGED <<lock, op, held, draft, nextId, ran, yielded, composed>>
  BY DEF StartEffect, Stay, history
<1>5. TypeInv'
  BY <1>1, <1>3, <1>4 DEF IInv, TypeInv, TypeOK, HeldIsOutcome
<1>6. /\ \A q \in Procs : pc[q] # "idle" => lock = q
      /\ disk.effect.id \in Ids /\ disk.effect.id < nextId
      /\ disk.effect.mode = NRS => ran[disk.effect.id][NRS] = 0
  BY <1>1 DEF IInv, StartInv, Exclusive, RecoveryIsDrawn, PlannedNeverStarted
<1>7. \A q \in Procs : q # p => pc'[q] = "idle"
  BY <1>1, <1>4, <1>6
<1>8. Exclusive' /\ RunIsMarked'
  BY <1>1, <1>2, <1>3, <1>4, <1>6, <1>7 DEF Exclusive, RunIsMarked
<1>9. RecoveryIsDrawn' /\ PlannedNeverStarted'
  BY <1>2, <1>3, <1>4, <1>6 DEF RecoveryIsDrawn, PlannedNeverStarted
<1>10. UndrawnNeverStarted' /\ NonRepeatSafeRunsOnce'
  BY <1>4 DEF IInv, StartInv, UndrawnNeverStarted, NonRepeatSafeRunsOnce
<1>11. NoWorkWhenBlocked'
  <2>1. disk.fault.category = "none"
    BY <1>1 DEF IInv, StartInv, NoWorkWhenBlocked, Blocked
  <2>2. disk'.fault = disk.fault
    BY <1>1 DEF StartEffect, Marked, Live, Reckoning
  <2> QED BY <1>1, <1>4, <1>7, <2>1, <2>2 DEF NoWorkWhenBlocked
<1> QED BY <1>5, <1>8, <1>9, <1>10, <1>11 DEF IInv, StartInv

(* Counting a start: the count of the running machine grows from zero if it  *)
(* is not repeat-safe, and no other count changes.                           *)
LEMMA CountedStart ==
    ASSUME IInv, NEW p \in Procs, pc[p] = "run", ran' = Counted(disk.effect.id, disk.effect.mode),
           nextId' = nextId
    PROVE  /\ ran' \in [Ids -> [Modes -> 0..2]]
           /\ UndrawnNeverStarted' /\ NonRepeatSafeRunsOnce'
<1> DEFINE i == disk.effect.id
           m == disk.effect.mode
<1>1. /\ ran \in [Ids -> [Modes -> 0..2]] /\ i \in Ids /\ i < nextId /\ m \in Modes
      /\ m = NRS => ran[i][NRS] = 0
      /\ UndrawnNeverStarted /\ NonRepeatSafeRunsOnce /\ nextId \in Nat
  BY DiskType, BoundAssumption DEF IInv, TypeInv, TypeOK, StartInv, RecoveryIsDrawn,
     RunIsMarked, Effect
<1>2. ran' = [ran EXCEPT ![i] = [ran[i] EXCEPT ![m] = IF ran[i][m] = 2 THEN 2 ELSE ran[i][m] + 1]]
  BY <1>1 DEF Counted
<1> HIDE DEF i, m
<1>3. NRS \in Modes
  BY DEF NRS, Modes
<1>4. ran' \in [Ids -> [Modes -> 0..2]]
  BY <1>1, <1>2
<1>5. \A j \in Ids : ran'[j][NRS] = IF j = i /\ m = NRS THEN 1 ELSE ran[j][NRS]
  BY <1>1, <1>2, <1>3
<1> QED BY <1>1, <1>4, <1>5 DEF UndrawnNeverStarted, NonRepeatSafeRunsOnce, NRS, Ids

(* A machine under way is not planned under NRS: its mark is durable.        *)
LEMMA UnderWay ==
    ASSUME IInv, NEW p \in Procs, pc[p] = "run"
    PROVE  /\ lock = p /\ p # Nil /\ disk.effect.disposition # "none"
           /\ disk.effect.id \in Ids /\ disk.effect.id < nextId
           /\ ~(disk.effect.disposition = "planned" /\ disk.effect.mode = NRS)
           /\ \A q \in Procs : q # p => pc[q] = "idle"
           /\ disk.fault.category = "none"
BY StartAssumption DEF IInv, StartInv, Exclusive, RunIsMarked, RecoveryIsDrawn,
   NoWorkWhenBlocked

LEMMA RunEffectInv ==
    ASSUME IInv, NEW p \in Procs, NEW out \in Outcomes, RunEffect(p, out)
    PROVE  IInv'
<1>1. /\ pc[p] = "run" /\ lock = p /\ UNCHANGED <<draft, nextId, composed>>
      /\ ran' = Counted(disk.effect.id, disk.effect.mode)
  BY DEF RunEffect
<1>2. /\ ran' \in [Ids -> [Modes -> 0..2]]
      /\ UndrawnNeverStarted' /\ NonRepeatSafeRunsOnce'
  BY <1>1, CountedStart
<1>3. /\ disk \in Live /\ disk.effect \in Effect
      /\ pc \in [Procs -> {"idle", "loop", "run", "ran"}]
      /\ held \in [Procs -> Outcomes \cup {Nil}] /\ out # Nil
      /\ yielded \in [Ids -> SUBSET Outcomes]
  BY DiskType, ProgramAssumption DEF IInv, TypeInv, TypeOK
<1>4. CASE /\ held' = [held EXCEPT ![p] = out]
           /\ yielded' = [yielded EXCEPT ![disk.effect.id] = @ \cup {out}]
           /\ Stay(p, "ran") /\ UNCHANGED disk
  <2>1. pc' = [pc EXCEPT ![p] = "ran"] /\ UNCHANGED <<lock, op>>
    BY <1>4 DEF Stay
  <2>2. TypeInv'
    BY <1>1, <1>2, <1>3, <1>4, <2>1 DEF IInv, TypeInv, TypeOK, HeldIsOutcome
  <2>3. Exclusive' /\ RunIsMarked' /\ NoWorkWhenBlocked'
    BY <1>1, <1>3, <1>4, <2>1, UnderWay DEF Exclusive, RunIsMarked, NoWorkWhenBlocked
  <2>4. RecoveryIsDrawn' /\ PlannedNeverStarted'
    BY <1>1, <1>4, UnderWay DEF RecoveryIsDrawn, PlannedNeverStarted
  <2> QED BY <1>2, <2>2, <2>3, <2>4 DEF IInv, StartInv
<1>5. CASE /\ disk' \in FaultsOf(disk, disk, "action-execution", Leaf.evo)
           /\ End(p) /\ UNCHANGED yielded
  <2>1. disk' \in Live /\ disk'.effect = disk.effect
    BY <1>3, <1>5, FaultsType, PlainFault DEF PlainCategories
  <2>2. Quiet' /\ \A q \in Procs : pc'[q] = "idle"
    BY <1>1, <1>5, QuietControl
  <2>3. TypeInv'
    BY <1>1, <1>2, <1>5, <2>1, <2>2 DEF IInv, TypeInv, TypeOK, HeldIsOutcome, Quiet, Live
  <2>4. Exclusive' /\ RunIsMarked' /\ NoWorkWhenBlocked'
    BY <2>2 DEF Quiet, RunIsMarked, NoWorkWhenBlocked
  <2>5. RecoveryIsDrawn' /\ PlannedNeverStarted'
    BY <1>1, <2>1, UnderWay DEF RecoveryIsDrawn, PlannedNeverStarted
  <2> QED BY <1>2, <2>3, <2>4, <2>5 DEF IInv, StartInv
<1> QED BY <1>4, <1>5 DEF RunEffect

LEMMA AbortInCallbackInv ==
    ASSUME IInv, NEW p \in Procs, AbortInCallback(p)
    PROVE  IInv'
<1>1. /\ pc[p] = "run" /\ lock = p /\ UNCHANGED <<disk, draft, nextId, yielded, composed>>
      /\ ran' = Counted(disk.effect.id, disk.effect.mode)
  BY DEF AbortInCallback
<1>2. /\ ran' \in [Ids -> [Modes -> 0..2]]
      /\ UndrawnNeverStarted' /\ NonRepeatSafeRunsOnce'
  BY <1>1, CountedStart
<1>3. Quiet' /\ \A q \in Procs : pc'[q] = "idle"
  BY <1>1, QuietControl DEF AbortInCallback
<1>4. TypeInv'
  BY <1>1, <1>2, <1>3 DEF IInv, TypeInv, TypeOK, HeldIsOutcome, Quiet
<1>5. Exclusive' /\ RunIsMarked' /\ NoWorkWhenBlocked'
  BY <1>3 DEF Quiet, RunIsMarked, NoWorkWhenBlocked
<1>6. RecoveryIsDrawn' /\ PlannedNeverStarted'
  BY <1>1, UnderWay DEF RecoveryIsDrawn, PlannedNeverStarted
<1> QED BY <1>2, <1>4, <1>5, <1>6 DEF IInv, StartInv

LEMMA CompleteEffectInv ==
    ASSUME IInv, NEW p \in Procs, CompleteEffect(p)
    PROVE  IInv'
<1> DEFINE x == [disk.effect EXCEPT !.disposition = "completed", !.result = held[p]]
<1>1. /\ disk \in Live /\ disk.effect \in Effect /\ held[p] \in Outcomes
      /\ lock = p /\ pc[p] = "ran" /\ disk.effect.disposition # "none"
      /\ disk.effect.id \in Ids /\ disk.effect.id < nextId
  BY DiskType DEF CompleteEffect, IInv, TypeInv, TypeOK, HeldIsOutcome, StartInv,
     RunIsMarked, RecoveryIsDrawn
<1>2. x \in Effect /\ x.id = disk.effect.id /\ x.disposition = "completed"
  BY <1>1, ProgramAssumption DEF Effect, Dispositions
<1>3. disk' = [disk EXCEPT !.effect = x] /\ UNCHANGED <<draft, nextId, history>>
  BY DEF CompleteEffect, Completed
<1> HIDE DEF x
<1>4. disk' \in Reckoning /\ disk'.path = disk.path /\ disk'.effect = x
  BY <1>1, <1>2, <1>3, EffectChange
<1>5. Quiet' /\ \A q \in Procs : q # p => pc'[q] = "idle"
  BY <1>1, QuietControl DEF CompleteEffect
<1>6. TypeInv'
  BY <1>3, <1>4, <1>5 DEF IInv, TypeInv, TypeOK, HeldIsOutcome, Quiet, history
<1>7. Exclusive' /\ RunIsMarked' /\ NoWorkWhenBlocked'
  <2>1. disk.fault.category = "none" /\ disk'.fault = disk.fault
    BY <1>1, <1>3 DEF IInv, StartInv, NoWorkWhenBlocked, Live, Reckoning
  <2> QED BY <1>2, <1>4, <1>5, <2>1 DEF Quiet, RunIsMarked, NoWorkWhenBlocked, Blocked
<1>8. RecoveryIsDrawn' /\ PlannedNeverStarted'
  BY <1>1, <1>2, <1>3, <1>4 DEF RecoveryIsDrawn, PlannedNeverStarted
<1>9. UndrawnNeverStarted' /\ NonRepeatSafeRunsOnce'
  BY <1>3 DEF IInv, StartInv, UndrawnNeverStarted, NonRepeatSafeRunsOnce, history
<1> QED BY <1>6, <1>7, <1>8, <1>9 DEF IInv, StartInv

-----------------------------------------------------------------------------
(* Every step of the specification keeps the inductive invariant.            *)
LEMMA NextInv == IInv /\ [Next]_vars => IInv'
<1> SUFFICES ASSUME IInv, [Next]_vars PROVE IInv'
  OBVIOUS
<1>1. CASE UNCHANGED vars
  <2>1. UNCHANGED <<disk, draft, nextId, history>> /\ UNCHANGED <<lock, pc, op, held>>
    BY <1>1 DEF vars, history
  <2> QED BY <2>1 DEF IInv, TypeInv, TypeOK, HeldIsOutcome, StartInv, Exclusive, RecoveryIsDrawn,
     UndrawnNeverStarted, PlannedNeverStarted, RunIsMarked, NonRepeatSafeRunsOnce, NoWorkWhenBlocked,
     Blocked, history
<1>2. ASSUME NEW p \in Procs, Call(p) PROVE IInv'
  <2>1. ASSUME NEW out \in Outcomes \cup {Nil}, GetStatus(p, out) PROVE IInv'
    BY <2>1, GetStatusInv
  <2>2. ASSUME NEW kind \in {"advance", "step"}, Advance(p, kind) PROVE IInv'
    <3>1. Quiet'
      BY <2>2, QuietControl DEF Advance
    <3> QED BY <2>2, <3>1, QuietInv DEF Advance, Unblocked
  <2>3. ASSUME NEW kind \in {"advance", "step"}, Respond(p, kind) PROVE IInv'
    BY <2>3, RespondInv
  <2>4. ASSUME NEW kind \in {"advance", "step"}, NEW out \in Outcomes, SupplyResult(p, kind, out)
        PROVE IInv'
    BY <2>4, SupplyResultInv
  <2>5. CASE RunInstruction(p)
    <3>1. Quiet'
      BY <2>5, QuietControl DEF RunInstruction
    <3> QED BY <2>5, <3>1, QuietInv DEF RunInstruction, Unblocked
  <2> QED BY <1>2, <2>1, <2>2, <2>3, <2>4, <2>5 DEF Call
<1>3. ASSUME NEW p \in Procs, Work(p) PROVE IInv'
  <2>1. CASE ContinueRecorded(p)
    BY <2>1, ContinueRecordedInv
  <2>2. CASE WaitForResponse(p)
    <3>1. Quiet' /\ \A q \in Procs : pc'[q] = "idle"
      BY <2>2, QuietControl DEF WaitForResponse, Running
    <3> QED BY <2>2, <3>1, QuietInv DEF WaitForResponse
  <2>3. CASE StartEffect(p)
    BY <2>3, StartEffectInv
  <2>4. CASE CompleteEffect(p)
    BY <2>4, CompleteEffectInv
  <2>5. CASE AcceptEffect(p)
    BY <2>5, AcceptEffectInv
  <2>6. CASE EnterSubRutter(p)
    BY <2>6, EnterSubRutterInv
  <2>7. ASSUME NEW out \in Outcomes, RunPure(p, out) \/ RunEffect(p, out) \/ Settle(p, out)
        PROVE IInv'
    BY <2>7, RunPureInv, RunEffectInv, SettleInv
  <2> QED BY <1>3, <2>1, <2>2, <2>3, <2>4, <2>5, <2>6, <2>7 DEF Work
<1>4. ASSUME NEW p \in Procs, Abort(p) PROVE IInv'
  <2>1. Quiet' /\ \A q \in Procs : pc'[q] = "idle"
    BY <1>4, QuietControl DEF Abort
  <2> QED BY <1>4, <2>1, QuietInv DEF Abort
<1>5. ASSUME NEW p \in Procs, AbortInCallback(p) PROVE IInv'
  BY <1>5, AbortInCallbackInv
<1> QED BY <1>1, <1>2, <1>3, <1>4, <1>5 DEF Next

(* Every reachable state of every Voyage satisfies the inductive invariant.  *)
THEOREM Inductive == Spec => []IInv
BY InitInv, NextInv, PTL DEF Spec

(* Type correctness: every Reckoning the engine publishes has the shape that *)
(* history.py demands, and the path of active runs is never empty.           *)
THEOREM TypeCorrect == Spec => []TypeOK
<1>1. IInv => TypeOK
  BY DEF IInv, TypeInv
<1> QED BY <1>1, Inductive, PTL

(* A machine that is not repeat-safe is started at most once, for any Rutter *)
(* and any number of processes, crashes and retries.                         *)
THEOREM StartsOnce == Spec => []NonRepeatSafeRunsOnce
<1>1. IInv => NonRepeatSafeRunsOnce
  BY DEF IInv, StartInv
<1> QED BY <1>1, Inductive, PTL

(* Automatic work of an operation that is not inside a callback continues    *)
(* only over an unblocked Reckoning.                                         *)
LEMMA WorkIsUnblocked ==
    ASSUME IInv, NEW p \in Procs, Work(p), pc[p] \notin {"run", "ran"}
    PROVE  ~Blocked(disk)
<1>1. pc[p] = "loop"
  BY DEF Work, ContinueRecorded, WaitForResponse, StartEffect, CompleteEffect, AcceptEffect,
     EnterSubRutter, RunPure, RunEffect, Settle, Running
<1> QED BY <1>1 DEF IInv, StartInv, NoWorkWhenBlocked

(* No call changes a blocked Reckoning.                                      *)
LEMMA BlockedRefusesCalls ==
    ASSUME NEW p \in Procs, Call(p), Blocked(disk)
    PROVE  UNCHANGED disk
BY DEF Call, GetStatus, Advance, Respond, SupplyResult, RunInstruction, Unblocked

(* A fault, or a machine left uncertain by a dead process, is final: no call *)
(* is accepted and no operation under way moves the Voyage.                  *)
THEOREM BlockedStays == Spec => BlockedIsFinal
<1>1. IInv /\ [Next]_vars =>
        [Blocked(disk) /\ (\A p \in Procs : pc[p] \notin {"run", "ran"}) => disk' = disk]_vars
  <2> SUFFICES ASSUME IInv, Next, Blocked(disk), \A p \in Procs : pc[p] \notin {"run", "ran"}
               PROVE  disk' = disk
    OBVIOUS
  <2>1. PICK p \in Procs : Call(p) \/ Work(p) \/ Abort(p) \/ AbortInCallback(p)
    BY DEF Next
  <2>2. ~Work(p)
    BY WorkIsUnblocked
  <2>3. CASE Call(p)
    BY <2>3, BlockedRefusesCalls
  <2>4. CASE Abort(p) \/ AbortInCallback(p)
    BY <2>4 DEF Abort, AbortInCallback
  <2> QED BY <2>1, <2>2, <2>3, <2>4
<1> QED BY <1>1, Inductive, PTL DEF Spec, BlockedIsFinal

-----------------------------------------------------------------------------
\* The second invariant: the Reckoning is sound, a fault names the leaf, and what
\* is kept of answers and results is what was composed and yielded.
SoundInv == Sound(disk, nextId) /\ FaultNamesLeaf(disk)
DraftIsComposed == \A p \in Procs :
    draft[p].out # Nil => <<draft[p].entry, draft[p].out>> \in composed
AnswersComposed == \A w \in Written(Books(disk)) :
    w[3].kind = "turn" => <<w[3].entry, w[3].out>> \in composed
HeldWasYielded == \A p \in Procs : pc[p] = "ran" => held[p] \in yielded[disk.effect.id]
StoredWasYielded ==
    disk.effect.disposition = "completed" => disk.effect.result \in yielded[disk.effect.id]
RecordedWasYielded == \A w \in Written(Books(disk)) :
    w[3].kind = "machine" /\ (\E m \in Effectful : ran[w[3].entry][m] > 0)
        => w[3].out \in yielded[w[3].entry]
\* Only a machine in recovery or an accepted one was ever started.
StartsAreKnown == \A i \in Ids, m \in Modes : ran[i][m] > 0 =>
    \/ disk.effect.disposition # "none" /\ disk.effect.id = i /\ disk.effect.mode = m
    \/ \E w \in Written(Books(disk)) : w[3].kind = "machine" /\ w[3].entry = i
CallbackIsOpen == \A p \in Procs :
    /\ (pc[p] \in {"run", "ran"} => disk.effect.disposition =
            IF disk.effect.mode = NRS THEN "uncertain" ELSE "planned")
    /\ (pc[p] = "ran" => ran[disk.effect.id][disk.effect.mode] > 0)
HonestInv == /\ DraftIsComposed /\ AnswersComposed /\ HeldWasYielded /\ StoredWasYielded
             /\ RecordedWasYielded /\ StartsAreKnown /\ CallbackIsOpen
IInv2 == IInv /\ SoundInv /\ HonestInv

\* What a publication of s does to the Voyage: it writes nothing, or accepts one
\* record - an answer composed for its Message, the durable result of an effectful
\* machine - and counts it unless it is a fault.
Accepting(s, rec) ==
    /\ rec \in Record /\ OneMore(Books(disk), Books(s), rec)
    /\ (rec.kind = "turn" => <<rec.entry, rec.out>> \in composed)
    /\ (rec.kind = "machine" =>
          /\ rec.entry = Leaf.entry /\ rec.evo = Leaf.evo
          /\ (Kind[Leaf.evo] \in Effectful => disk.effect.disposition = "completed"
                                              /\ rec.out = disk.effect.result)
          /\ (s.effect = NoEffect \/ Planned(s, nextId)))
    /\ (disk.effect.disposition # "none" => rec.kind = "machine")
    /\ (s.rev = disk.rev + 1 \/ (s.rev = disk.rev /\ s.fault.category # "none"))
Quietly(s) ==
    /\ Written(Books(s)) = Written(Books(disk)) /\ s.rev = disk.rev
    /\ (disk.effect.disposition # "none" => s.effect = disk.effect)
Published(s) ==
    /\ Sound(s, After(s, nextId)) /\ FaultNamesLeaf(s)
    /\ Grown(Books(disk), Books(s)) /\ disk.completed \subseteq s.completed
    /\ (s.effect = disk.effect \/ s.effect = NoEffect \/ Planned(s, nextId))
    /\ (Quietly(s) \/ \E rec \in Record : Accepting(s, rec))

(* A fault that is not refused stands at the leaf and names what its Rutter  *)
(* has.                                                                      *)
LEMMA FaultIsNamed ==
    ASSUME NEW r, r.fault.category = "none", NEW prev, NEW id, NEW s,
           Follows(prev, r, s, id), ~Refused(s)
    PROVE  FaultNamesLeaf(s)
<1>1. s.fault \in Fault
  BY DEF Follows, Sound, Live, Reckoning
<1>2. s.fault.target \in Evolutions \cup {Nil}
  BY <1>1 DEF Fault, Refused
<1>3. s.fault.category # "none" => FaultFits(s)
  BY DEF Follows
<1> QED BY <1>2, <1>3 DEF FaultNamesLeaf, FaultFits, HooksInOrder, HooksOf

(* What follows an unblocked Reckoning itself, or its successor with one     *)
(* accepted record, may be published unless the store refuses it.            *)
LEMMA FollowsPublished ==
    ASSUME SoundInv, ~Blocked(disk), NEW s, Follows(disk, disk, s, nextId), ~Refused(s),
           EffectStep(disk, s, nextId), disk.effect.disposition # "none" => s.effect = disk.effect
    PROVE  Published(s)
<1>1. FaultNamesLeaf(s)
  BY FaultIsNamed DEF Blocked
<1>2. Quietly(s)
  BY DEF Follows, Quietly
<1> QED BY <1>1, <1>2 DEF Follows, Published, EffectStep

LEMMA AcceptsPublished ==
    ASSUME SoundInv, ~Blocked(disk), NEW r, NEW rec \in Record, Accepts(disk, r, nextId, rec),
           r.rev = disk.rev + 1, r.fault = disk.fault,
           NEW s, Follows(disk, r, s, nextId), ~Refused(s), EffectStep(r, s, nextId),
           r.effect = disk.effect \/ r.effect = NoEffect,
           rec.kind = "turn" => <<rec.entry, rec.out>> \in composed,
           rec.kind = "machine" =>
              /\ rec.entry = Leaf.entry /\ rec.evo = Leaf.evo /\ r.effect = NoEffect
              /\ (Kind[Leaf.evo] \in Effectful => disk.effect.disposition = "completed"
                                                  /\ rec.out = disk.effect.result),
           disk.effect.disposition # "none" => rec.kind = "machine"
    PROVE  Published(s)
<1>1. FaultNamesLeaf(s)
  BY FaultIsNamed DEF Blocked
<1>2. Sound(s, After(s, nextId)) /\ disk.completed \subseteq s.completed
  BY DEF Follows, Accepts
<1>3. Grown(Books(disk), Books(s))
  <2>1. Books(disk) \in SUBSET BookType /\ Books(r) \in SUBSET BookType /\ Books(s) \in SUBSET BookType
    BY <1>2, LeafBook DEF SoundInv, Accepts
  <2>2. Grown(Books(disk), Books(r)) /\ Grown(Books(r), Books(s))
    BY DEF Accepts, Follows
  <2> QED BY <2>1, <2>2, GrownOn
<1>4. OneMore(Books(disk), Books(s), rec)
  BY DEF Accepts, Follows, OneMore
<1>5. s.effect = r.effect \/ Planned(s, nextId)
  BY DEF EffectStep
<1>6. s.rev = disk.rev + 1 \/ (s.rev = disk.rev /\ s.fault.category # "none")
  BY DEF Follows
<1>7. Accepting(s, rec)
  BY <1>4, <1>5, <1>6 DEF Accepting
<1> QED BY <1>1, <1>2, <1>3, <1>5, <1>7 DEF Published

\* The outcome of a publishing action.
Publication == /\ ~Blocked(disk) /\ Published(disk') /\ nextId' = After(disk', nextId)
               /\ UNCHANGED <<draft, history>> /\ Quiet'

(* An operation's publication, and the one that opens a call.                *)
LEMMA PublishIs ==
    ASSUME IInv, NEW p \in Procs, lock = p, NEW s, NEW one \in BOOLEAN, Publish(p, s, one),
           ~Blocked(disk), Published(s)
    PROVE  Publication
<1>1. Quiet'
  BY QuietControl DEF Publish
<1> QED BY <1>1 DEF Publish, Publication, After

LEMMA PublishFirstIs ==
    ASSUME IInv, NEW p \in Procs, NEW kind \in {"advance", "step"}, NEW s,
           PublishFirst(p, s, kind), ~Blocked(disk), Published(s)
    PROVE  Publication
<1>1. Quiet'
  BY QuietControl DEF PublishFirst
<1> QED BY <1>1 DEF PublishFirst, Publication, After

(* What the invariants say of the leaf.                                      *)
LEMMA LeafFacts ==
    ASSUME IInv, SoundInv
    PROVE  /\ disk \in Live /\ Leaf \in Frame /\ Leaf.evo \in Evolutions /\ nextId \in Nat
           /\ (disk.effect.disposition # "none" =>
                 disk.effect.id = Leaf.entry /\ disk.effect.mode = Kind[Leaf.evo]
                 /\ disk.effect.mode \in Effectful)
           /\ (disk.effect.disposition # "none" => ~IsRecorded(Leaf))
<1>1. disk \in Live /\ Leaf \in Frame /\ nextId \in Nat
  BY DiskType, BoundAssumption DEF IInv, TypeInv, TypeOK
<1>2. EffectFits(disk)
  BY DEF SoundInv, Sound
<1>3. ASSUME IsRecorded(Leaf) PROVE disk.effect.disposition = "none"
  <2>1. PICK rec : rec \in RecordedSources(Leaf)
    BY <1>3 DEF IsRecorded
  <2>2. Settles(disk, rec)
    BY <2>1, SettlesIsRecorded DEF SoundInv, Leaf
  <2> QED BY <2>2, SettledLeaf DEF SoundInv
<1> QED BY <1>1, <1>2, <1>3 DEF EffectFits, Leaf, Frame

(* A fault over the Reckoning as it stands.                                  *)
LEMMA FaultPublished ==
    ASSUME IInv, SoundInv, ~Blocked(disk), NEW c \in PlainCategories,
           NEW who, NEW s \in FaultsOf(disk, disk, c, who)
    PROVE  Published(s)
<1>1. disk \in Live
  BY LeafFacts
<1>2. Follows(disk, disk, s, nextId)
  BY <1>1, FaultsFollow, PlainFault DEF SoundInv
<1>3. s.effect = disk.effect
  BY <1>1, FaultsType, PlainFault
<1>4. ~Refused(s)
  <2>1. s = FaultReckoning(disk, disk, c, Nil, {})
    BY PlainFault DEF FaultsOf
  <2>2. s.fault.target = Nil
    BY <1>1, <2>1 DEF FaultReckoning, Live, Reckoning
  <2> QED BY <2>2, ProgramAssumption DEF Refused
<1> QED BY <1>2, <1>3, <1>4, FollowsPublished DEF EffectStep

(* An accepted answer and the transition after it.                           *)
LEMMA RespondPublishes ==
    ASSUME IInv, SoundInv, DraftIsComposed, NEW p \in Procs, NEW kind \in {"advance", "step"},
           Respond(p, kind)
    PROVE  Publication
<1> DEFINE out == draft[p].out
           r == AcceptPrompt(disk, out)
<1>1. disk \in Live /\ out \in Outcomes /\ nextId \in Ids /\ nextId \in Nat /\ ~Blocked(disk)
  BY DiskType, LeafFacts DEF Respond, Answers, HasFreshId, Unblocked
<1>2. PICK s \in ContinueTransition(disk, r, nextId, out)
                   \cup FaultsOf(disk, disk, "contextual-validation", Leaf.evo) :
        PublishFirst(p, s, kind)
  BY DEF Respond
<1>3. Kind[DeepestActiveLeaf(disk).evo] = "llm" /\ ~IsRecorded(DeepestActiveLeaf(disk))
      /\ draft[p].entry = Leaf.entry
  BY DEF Respond, RespondsTo, Leaf
<1> HIDE DEF out
<1>4. CASE s \in ContinueTransition(disk, r, nextId, out)
  <2>1. PICK rec \in Record :
           /\ Accepts(disk, r, nextId, rec) /\ rec.kind = "turn"
           /\ rec.entry = DeepestActiveLeaf(disk).entry /\ rec.out = out
           /\ r.rev = disk.rev + 1 /\ r.fault = disk.fault
    BY <1>1, <1>3, AcceptPromptAccepts DEF SoundInv
  <2>2. r \in Live /\ r.effect = disk.effect
    BY <1>1, AcceptPromptType
  <2> HIDE DEF r
  <2>3. Follows(disk, r, s, nextId)
    BY <1>1, <1>4, <2>1, ContinueFollows DEF Accepts
  <2>4. EffectStep(r, s, nextId)
    BY <1>1, <1>4, <2>2, ContinueType
  <2>5. <<rec.entry, rec.out>> \in composed
    <3>1. out # Nil
      BY <1>1, ProgramAssumption
    <3> QED BY <1>3, <2>1, <3>1 DEF DraftIsComposed, Leaf, out
  <2>6. disk.effect.disposition = "none"
    BY <1>3, LeafFacts DEF Leaf, Effectful
  <2>7. ~Refused(s)
    BY <1>2 DEF PublishFirst
  <2>8. Published(s)
    BY <1>1, <2>1, <2>2, <2>3, <2>4, <2>5, <2>6, <2>7, AcceptsPublished
  <2> QED BY <1>1, <1>2, <2>8, PublishFirstIs
<1>5. CASE s \in FaultsOf(disk, disk, "contextual-validation", Leaf.evo)
  <2>1. "contextual-validation" \in PlainCategories
    BY DEF PlainCategories
  <2>2. Published(s)
    BY <1>1, <1>5, <2>1, FaultPublished
  <2> QED BY <1>1, <1>2, <2>2, PublishFirstIs
<1> QED BY <1>2, <1>4, <1>5

(* An accepted machine's result and the transition after it.                 *)
LEMMA MachinePublished ==
    ASSUME IInv, SoundInv, ~Blocked(disk), nextId \in Ids, NEW out \in Outcomes,
           Kind[Leaf.evo] \in Modes, ~IsRecorded(Leaf),
           Kind[Leaf.evo] \in Effectful => disk.effect.disposition = "completed"
                                           /\ disk.effect.result = out,
           NEW s \in ContinueTransition(disk, AcceptMachine(disk, out), nextId, out), ~Refused(s)
    PROVE  Published(s)
<1> DEFINE r == AcceptMachine(disk, out)
<1>1. disk \in Live /\ nextId \in Nat
  BY LeafFacts
<1>2. PICK rec \in Record :
         /\ Accepts(disk, r, nextId, rec) /\ rec.kind = "machine"
         /\ rec.entry = DeepestActiveLeaf(disk).entry /\ rec.evo = DeepestActiveLeaf(disk).evo
         /\ rec.out = out /\ r.rev = disk.rev + 1 /\ r.fault = disk.fault
  BY <1>1, AcceptMachineAccepts DEF SoundInv, Leaf
<1>3. r \in Live /\ r.effect = NoEffect
  BY <1>1, AcceptMachineType
<1> HIDE DEF r
<1>4. s \in ContinueTransition(disk, r, nextId, rec.out)
  BY <1>2 DEF r
<1>5. Follows(disk, r, s, nextId)
  BY <1>1, <1>2, <1>4, ContinueFollows DEF Accepts
<1>6. EffectStep(r, s, nextId)
  BY <1>1, <1>3, ContinueType DEF r
<1> QED BY <1>2, <1>3, <1>5, <1>6, AcceptsPublished DEF Leaf

(* An operation under way goes on over an unblocked Reckoning.               *)
LEMMA RunningFacts ==
    ASSUME IInv, NEW p \in Procs, Running(p)
    PROVE  lock = p /\ pc[p] = "loop" /\ ~Blocked(disk)
BY DEF Running, IInv, StartInv, NoWorkWhenBlocked

LEMMA SupplyPublishes ==
    ASSUME IInv, SoundInv, NEW p \in Procs, NEW kind \in {"advance", "step"},
           NEW out \in Outcomes, SupplyResult(p, kind, out)
    PROVE  Publication
<1>1. PICK s \in ContinueTransition(disk, AcceptMachine(disk, out), nextId, out) :
        PublishFirst(p, s, kind)
  BY DEF SupplyResult
<1>2. /\ ~Blocked(disk) /\ nextId \in Ids /\ Kind[Leaf.evo] \in Modes /\ ~IsRecorded(Leaf)
      /\ (Kind[Leaf.evo] \in Effectful => disk.effect.disposition = "completed"
                                          /\ disk.effect.result = out)
  BY DEF SupplyResult, Unblocked, HasFreshId, Supplies
<1>3. Published(s)
  BY <1>1, <1>2, MachinePublished DEF PublishFirst
<1> QED BY <1>1, <1>2, <1>3, PublishFirstIs

LEMMA RunPurePublishes ==
    ASSUME IInv, SoundInv, NEW p \in Procs, NEW out \in Outcomes, RunPure(p, out)
    PROVE  Publication
<1>1. PICK s \in ContinueTransition(disk, AcceptMachine(disk, out), nextId, out)
                   \cup FaultsOf(disk, disk, "action-execution", Leaf.evo) :
        Publish(p, s, TRUE)
  BY DEF RunPure
<1>2. /\ lock = p /\ ~Blocked(disk) /\ nextId \in Ids
      /\ Kind[Leaf.evo] \in Modes /\ ~IsRecorded(Leaf) /\ Kind[Leaf.evo] \notin Effectful
  BY RunningFacts DEF RunPure, HasFreshId, Modes, Effectful
<1>3. CASE s \in ContinueTransition(disk, AcceptMachine(disk, out), nextId, out)
  <2>1. Published(s)
    BY <1>1, <1>2, <1>3, MachinePublished DEF Publish
  <2> QED BY <1>1, <1>2, <2>1, PublishIs
<1>4. CASE s \in FaultsOf(disk, disk, "action-execution", Leaf.evo)
  <2>1. "action-execution" \in PlainCategories
    BY DEF PlainCategories
  <2>2. Published(s)
    BY <1>2, <1>4, <2>1, FaultPublished
  <2> QED BY <1>1, <1>2, <2>2, PublishIs
<1> QED BY <1>1, <1>3, <1>4

LEMMA AcceptEffectPublishes ==
    ASSUME IInv, SoundInv, NEW p \in Procs, AcceptEffect(p)
    PROVE  Publication
<1> DEFINE out == disk.effect.result
<1>1. PICK s \in ContinueTransition(disk, AcceptMachine(disk, out), nextId, out) :
        Publish(p, s, TRUE)
  BY DEF AcceptEffect
<1>2. /\ lock = p /\ ~Blocked(disk) /\ nextId \in Ids /\ disk.effect.disposition = "completed"
  BY RunningFacts DEF AcceptEffect, HasFreshId
<1>3. Kind[Leaf.evo] \in Modes /\ ~IsRecorded(Leaf)
  BY <1>2, LeafFacts DEF Effectful, Modes
<1>4. out \in Outcomes
  BY <1>2, DiskType DEF Effect
<1>5. out = disk.effect.result
  OBVIOUS
<1> HIDE DEF out
<1>6. Published(s)
  BY <1>1, <1>2, <1>3, <1>4, <1>5, MachinePublished DEF Publish
<1> QED BY <1>1, <1>2, <1>6, PublishIs

LEMMA EnterSubRutterPublishes ==
    ASSUME IInv, SoundInv, NEW p \in Procs, EnterSubRutter(p)
    PROVE  Publication
<1>1. PICK s \in PushCall(disk, nextId) : Publish(p, s, TRUE)
  BY DEF EnterSubRutter
<1>2. /\ lock = p /\ ~Blocked(disk) /\ nextId \in Ids /\ disk \in Live
      /\ Kind[DeepestActiveLeaf(disk).evo] = "sub" /\ ~IsRecorded(DeepestActiveLeaf(disk))
  BY RunningFacts, LeafFacts DEF EnterSubRutter, HasFreshId, Leaf
<1>3. Follows(disk, disk, s, nextId) /\ EffectStep(disk, s, nextId)
  BY <1>1, <1>2, PushCallFollows, PushCallType DEF SoundInv
<1>4. disk.effect.disposition = "none"
  BY <1>2, LeafFacts DEF Leaf, Effectful
<1>5. Published(s)
  BY <1>1, <1>2, <1>3, <1>4, FollowsPublished DEF Publish
<1> QED BY <1>1, <1>2, <1>5, PublishIs

LEMMA SettlePublishes ==
    ASSUME IInv, SoundInv, NEW p \in Procs, NEW out \in Outcomes, Settle(p, out)
    PROVE  Publication
<1> DEFINE r == SettleTerminal(disk, out)
<1>1. PICK s \in {r} \cup FaultsOf(disk, disk, "done-projection", Leaf.evo) : Publish(p, s, TRUE)
  BY DEF Settle
<1>2. /\ lock = p /\ ~Blocked(disk) /\ disk \in Live /\ nextId \in Nat
      /\ Kind[DeepestActiveLeaf(disk).evo] = "terminal" /\ ~IsRecorded(DeepestActiveLeaf(disk))
  BY RunningFacts, LeafFacts DEF Settle, Leaf
<1>3. CASE s = r
  <2>1. PICK rec \in Record :
           /\ Accepts(disk, r, nextId, rec) /\ rec.kind = "done"
           /\ r.rev = disk.rev + 1 /\ r.fault = disk.fault
    BY <1>2, SettleTerminalAccepts DEF SoundInv
  <2>2. r.effect = disk.effect
    BY <1>2, WithRecordType DEF SettleTerminal
  <2> HIDE DEF r
  <2>3. Follows(disk, r, r, nextId)
    <3>1. Sound(r, nextId)
      BY <2>1 DEF Accepts
    <3>2. Books(r) \in SUBSET BookType /\ After(r, nextId) = nextId
      BY <3>1, LeafBook, LeafIsDrawn
    <3> QED BY <3>1, <3>2, GrownItself DEF Follows
  <2>4. disk.effect.disposition = "none"
    BY <1>2, LeafFacts DEF Leaf, Effectful
  <2>5. ~Refused(r)
    BY <1>1, <1>3 DEF Publish
  <2>6. Published(r)
    BY <1>2, <2>1, <2>2, <2>3, <2>4, <2>5, AcceptsPublished DEF EffectStep
  <2> QED BY <1>1, <1>2, <1>3, <2>6, PublishIs
<1>4. CASE s \in FaultsOf(disk, disk, "done-projection", Leaf.evo)
  <2>1. "done-projection" \in PlainCategories
    BY DEF PlainCategories
  <2>2. Published(s)
    BY <1>2, <1>4, <2>1, FaultPublished
  <2> QED BY <1>1, <1>2, <2>2, PublishIs
<1> QED BY <1>1, <1>3, <1>4

(* The return of a finished run.                                             *)
LEMMA ReturnPublished ==
    ASSUME IInv, SoundInv, ~Blocked(disk), NEW rec, Settles(disk, rec), Depth(disk) > 0,
           Kind[Leaf.evo] = "terminal", Complete(Leaf.hist, Leaf.entry)
    PROVE  Published(ReturnActiveChild(disk, rec.out))
<1> DEFINE s == ReturnActiveChild(disk, rec.out)
<1>1. /\ Sound(s, nextId)
      /\ \E new \in Record : new.kind \in {"call", "hook"} /\ OneMore(Books(disk), Books(s), new)
      /\ Grown(Books(disk), Books(s)) /\ s.completed = disk.completed \cup {Archived(disk)}
      /\ s.rev = disk.rev + 1 /\ s.fault = disk.fault /\ s.effect = disk.effect
  BY ReturnFollows DEF SoundInv, Leaf
<1>2. disk.effect.disposition = "none"
  BY SettledLeaf DEF SoundInv
<1> HIDE DEF s
<1>3. After(s, nextId) = nextId
  BY <1>1, LeafIsDrawn
<1>4. PICK new \in Record : new.kind \in {"call", "hook"} /\ OneMore(Books(disk), Books(s), new)
  BY <1>1
<1>5. Accepting(s, new)
  BY <1>1, <1>2, <1>4 DEF Accepting
<1>6. FaultNamesLeaf(s)
  BY <1>1 DEF FaultNamesLeaf, Blocked
<1> QED BY <1>1, <1>3, <1>5, <1>6 DEF Published, s

LEMMA ContinueRecordedPublishes ==
    ASSUME IInv, SoundInv, NEW p \in Procs, ContinueRecorded(p)
    PROVE  Publication \/ (End(p) /\ UNCHANGED <<disk, draft, nextId, history>>)
<1>1. PICK rec \in RecordedSources(Leaf) :
         \/ /\ HasFreshId
            /\ \E s \in ContinueTransition(disk, disk, nextId, rec.out) \ {disk} :
                  Publish(p, s, TRUE)
         \/ /\ disk \in ContinueTransition(disk, disk, nextId, rec.out)
            /\ Depth(disk) > 0 /\ Publish(p, ReturnActiveChild(disk, rec.out), FALSE)
         \/ End(p) /\ UNCHANGED <<disk, draft, nextId, history>>
  BY DEF ContinueRecorded
<1>2. lock = p /\ ~Blocked(disk) /\ disk \in Live
  BY RunningFacts, LeafFacts DEF ContinueRecorded
<1>3. Settles(disk, rec) /\ Sound(disk, nextId)
  BY SettlesIsRecorded DEF SoundInv, Leaf
<1>4. disk.effect.disposition = "none" /\ rec.out \in Outcomes
  BY <1>3, SettledLeaf
<1>5. ASSUME nextId \in Ids, NEW s \in ContinueTransition(disk, disk, nextId, rec.out),
             Publish(p, s, TRUE)
      PROVE  Publication
  <2>1. Follows(disk, disk, s, nextId) /\ EffectStep(disk, s, nextId)
    BY <1>2, <1>3, <1>4, <1>5, ContinueFollows, ContinueType
  <2>2. Published(s)
    BY <1>2, <1>4, <1>5, <2>1, FollowsPublished DEF Publish
  <2> QED BY <1>2, <1>5, <2>2, PublishIs
<1>6. CASE /\ disk \in ContinueTransition(disk, disk, nextId, rec.out)
           /\ Depth(disk) > 0 /\ Publish(p, ReturnActiveChild(disk, rec.out), FALSE)
  <2>1. Kind[Leaf.evo] = "terminal" /\ Complete(Leaf.hist, Leaf.entry)
    BY <1>2, <1>3, <1>6, StaysWhenFinished DEF Leaf, Blocked
  <2>2. Published(ReturnActiveChild(disk, rec.out))
    BY <1>2, <1>3, <1>6, <2>1, ReturnPublished
  <2> QED BY <1>2, <1>6, <2>2, PublishIs
<1> QED BY <1>1, <1>5, <1>6 DEF HasFreshId

-----------------------------------------------------------------------------
\* The second invariant is kept.

(* The parts of a publication.                                               *)
LEMMA PublicationParts ==
    ASSUME Publication
    PROVE  /\ ~Blocked(disk) /\ SoundInv' /\ nextId' = After(disk', nextId)
           /\ Grown(Books(disk), Books(disk)') /\ disk.completed \subseteq disk'.completed
           /\ (disk'.effect = disk.effect \/ disk'.effect = NoEffect \/ Planned(disk', nextId))
           /\ (Quietly(disk') \/ \E rec \in Record : Accepting(disk', rec))
           /\ UNCHANGED <<draft, ran, yielded, composed>> /\ Quiet'
BY DEF Publication, Published, SoundInv, history

(* What an accepted record adds to what is written.                          *)
LEMMA AcceptingWrites ==
    ASSUME SoundInv, NEW rec \in Record, Accepting(disk', rec)
    PROVE  \E w : /\ w[3] = rec /\ w \notin Written(Books(disk))
                  /\ Written(Books(disk)') = Written(Books(disk)) \cup {w}
BY OneMoreIsNew DEF SoundInv, Sound, InOrder, Accepting

LEMMA PublicationAnswers ==
    ASSUME SoundInv, HonestInv, Publication
    PROVE  AnswersComposed'
<1>1. composed' = composed /\ AnswersComposed
  BY PublicationParts DEF HonestInv
<1>2. CASE Quietly(disk')
  BY <1>1, <1>2 DEF AnswersComposed, Quietly
<1>3. ASSUME NEW rec \in Record, Accepting(disk', rec) PROVE AnswersComposed'
  <2>1. PICK w : w[3] = rec /\ Written(Books(disk)') = Written(Books(disk)) \cup {w}
    BY <1>3, AcceptingWrites
  <2> QED BY <1>1, <1>3, <2>1 DEF AnswersComposed, Accepting
<1> QED BY <1>2, <1>3, PublicationParts

LEMMA PublicationStarts ==
    ASSUME IInv, SoundInv, HonestInv, Publication
    PROVE  StartsAreKnown'
<1>1. ran' = ran /\ StartsAreKnown
  BY PublicationParts DEF HonestInv
<1>2. CASE Quietly(disk')
  BY <1>1, <1>2 DEF StartsAreKnown, Quietly
<1>3. ASSUME NEW rec \in Record, Accepting(disk', rec) PROVE StartsAreKnown'
  <2>1. PICK w : w[3] = rec /\ Written(Books(disk)') = Written(Books(disk)) \cup {w}
    BY <1>3, AcceptingWrites
  <2>2. disk.effect.disposition # "none" => rec.kind = "machine" /\ rec.entry = disk.effect.id
    BY <1>3, LeafFacts DEF Accepting
  <2> QED BY <1>1, <2>1, <2>2 DEF StartsAreKnown
<1> QED BY <1>2, <1>3, PublicationParts

LEMMA PublicationResults ==
    ASSUME IInv, SoundInv, HonestInv, Publication
    PROVE  StoredWasYielded' /\ RecordedWasYielded'
<1>1. /\ ran' = ran /\ yielded' = yielded /\ StartsAreKnown /\ StoredWasYielded
      /\ RecordedWasYielded /\ SoundInv'
  BY PublicationParts DEF HonestInv
<1>2. StoredWasYielded'
  <2>1. disk'.effect = disk.effect \/ disk'.effect.disposition # "completed"
    BY PublicationParts, PlannedFacts DEF NoEffect
  <2> QED BY <1>1, <2>1 DEF StoredWasYielded
<1>3. CASE Quietly(disk')
  BY <1>1, <1>2, <1>3 DEF RecordedWasYielded, Quietly
<1>4. ASSUME NEW rec \in Record, Accepting(disk', rec) PROVE RecordedWasYielded'
  <2>1. PICK w : /\ w[3] = rec /\ w \notin Written(Books(disk))
                 /\ Written(Books(disk)') = Written(Books(disk)) \cup {w}
    BY <1>4, AcceptingWrites
  <2>2. ASSUME rec.kind = "machine", NEW m \in Effectful, ran[rec.entry][m] > 0
        PROVE  rec.out \in yielded[rec.entry]
    <3>1. rec.entry = Leaf.entry /\ rec.entry \in Ids /\ m \in Modes
      BY <1>4, <2>2 DEF Accepting, Record, Effectful, Modes
    <3>2. CASE disk.effect.disposition # "none" /\ disk.effect.id = rec.entry /\ disk.effect.mode = m
      <4>1. Kind[Leaf.evo] \in Effectful
        BY <3>2, LeafFacts
      <4>2. disk.effect.disposition = "completed" /\ rec.out = disk.effect.result
        BY <1>4, <2>2, <4>1 DEF Accepting
      <4> QED BY <1>1, <3>2, <4>2 DEF StoredWasYielded
    <3>3. ASSUME NEW v \in Written(Books(disk)), v[3].kind = "machine", v[3].entry = rec.entry
          PROVE  FALSE
      <4>1. Sound(disk', nextId') /\ v \in Written(Books(disk')) /\ w \in Written(Books(disk'))
        BY <1>1, <2>1 DEF SoundInv
      <4>2. v[3].kind # "hook" /\ w[3].kind # "hook" /\ w[3].entry = v[3].entry
        BY <2>1, <2>2, <3>3
      <4>3. w = v
        BY <4>1, <4>2, WrittenOnce
      <4> QED BY <2>1, <4>3
    <3> QED BY <1>1, <2>2, <3>1, <3>2, <3>3 DEF StartsAreKnown
  <2> QED BY <1>1, <2>1, <2>2 DEF RecordedWasYielded
<1> QED BY <1>2, <1>3, <1>4, PublicationParts

(* Every publication keeps the second invariant.                             *)
LEMMA PublicationKeeps ==
    ASSUME IInv, SoundInv, HonestInv, Publication
    PROVE  SoundInv' /\ HonestInv'
<1>1. DraftIsComposed'
  BY PublicationParts DEF HonestInv, DraftIsComposed
<1>2. HeldWasYielded' /\ CallbackIsOpen'
  BY PublicationParts DEF Quiet, HeldWasYielded, CallbackIsOpen
<1> QED BY <1>1, <1>2, PublicationParts, PublicationAnswers, PublicationStarts,
        PublicationResults DEF HonestInv

(* A step of the recovery itself keeps the first part.                       *)
LEMMA RecoveryStep ==
    ASSUME SoundInv, disk.effect.disposition # "none", NEW x \in Effect,
           x.disposition # "none", x.id = disk.effect.id, x.mode = disk.effect.mode,
           x.disposition # "completed" => x.result = Nil,
           disk' = [disk EXCEPT !.effect = x], nextId' = nextId
    PROVE  /\ SoundInv' /\ Books(disk') = Books(disk) /\ Leaf' = Leaf /\ disk'.effect = x
           /\ disk'.completed = disk.completed /\ disk'.path = disk.path
           /\ disk'.rev = disk.rev /\ disk'.fault = disk.fault
<1>1. LET s == [disk EXCEPT !.effect = x]
      IN /\ Sound(s, nextId) /\ Books(s) = Books(disk)
         /\ DeepestActiveLeaf(s) = DeepestActiveLeaf(disk)
         /\ s.completed = disk.completed /\ s.path = disk.path
         /\ s.rev = disk.rev /\ s.fault = disk.fault /\ s.effect = x
  BY RecoveryMoves DEF SoundInv
<1>2. /\ Sound(disk', nextId) /\ Books(disk') = Books(disk)
      /\ DeepestActiveLeaf(disk') = DeepestActiveLeaf(disk)
      /\ disk'.completed = disk.completed /\ disk'.path = disk.path
      /\ disk'.rev = disk.rev /\ disk'.fault = disk.fault /\ disk'.effect = x
  BY <1>1
<1> QED BY <1>2 DEF SoundInv, FaultNamesLeaf, Leaf

\* The recovery after a start and after a completion.
Begun == IF disk.effect.mode = NRS THEN [disk.effect EXCEPT !.disposition = "uncertain"]
                                   ELSE disk.effect
Stored(out) == [disk.effect EXCEPT !.disposition = "completed", !.result = out]

LEMMA StartEffectIs ==
    ASSUME IInv, SoundInv, NEW p \in Procs, StartEffect(p)
    PROVE  /\ SoundInv' /\ Books(disk') = Books(disk) /\ Leaf' = Leaf /\ disk'.effect = Begun
           /\ disk'.completed = disk.completed /\ disk'.path = disk.path
           /\ disk'.rev = disk.rev /\ disk'.fault = disk.fault
           /\ disk.effect.disposition = "planned" /\ disk.effect \in Effect /\ Begun \in Effect
           /\ Begun.id = disk.effect.id /\ Begun.mode = disk.effect.mode
           /\ Begun.result = disk.effect.result
           /\ Begun.disposition = IF disk.effect.mode = NRS THEN "uncertain" ELSE "planned"
           /\ pc' = [pc EXCEPT ![p] = "run"] /\ \A q \in Procs : q # p => pc'[q] = "idle"
           /\ pc[p] = "loop" /\ lock = p
           /\ UNCHANGED <<lock, op, held, draft, nextId, ran, yielded, composed>>
<1>1. /\ disk \in Live /\ disk.effect \in Effect /\ disk.effect.disposition = "planned"
      /\ lock = p /\ pc[p] = "loop" /\ pc \in [Procs -> {"idle", "loop", "run", "ran"}]
      /\ \A q \in Procs : pc[q] # "idle" => lock = q
  BY DiskType DEF StartEffect, MayStart, Running, IInv, TypeInv, TypeOK, StartInv, Exclusive
<1>2. /\ Begun \in Effect /\ Begun.id = disk.effect.id /\ Begun.mode = disk.effect.mode
      /\ Begun.result = disk.effect.result
      /\ Begun.disposition = IF disk.effect.mode = NRS THEN "uncertain" ELSE "planned"
  BY <1>1 DEF Begun, Effect, Dispositions
<1>3. disk.effect.result = Nil
  BY <1>1 DEF SoundInv, Sound, EffectFits
<1>4. disk' = [disk EXCEPT !.effect = Begun]
  <2>1. CASE disk.effect.mode = NRS
    BY <2>1 DEF StartEffect, Marked, NRS, Begun
  <2>2. CASE disk.effect.mode # NRS
    BY <2>2, <1>1 DEF StartEffect, Marked, NRS, Begun, Live, Reckoning
  <2> QED BY <2>1, <2>2
<1>5. pc' = [pc EXCEPT ![p] = "run"] /\ UNCHANGED <<lock, op, held, draft, nextId, ran, yielded, composed>>
  BY DEF StartEffect, Stay, history
<1>6. \A q \in Procs : q # p => pc'[q] = "idle"
  BY <1>1, <1>5
<1>7. /\ SoundInv' /\ Books(disk') = Books(disk) /\ Leaf' = Leaf /\ disk'.effect = Begun
      /\ disk'.completed = disk.completed /\ disk'.path = disk.path
      /\ disk'.rev = disk.rev /\ disk'.fault = disk.fault
  BY <1>1, <1>2, <1>3, <1>4, <1>5, RecoveryStep
<1> QED BY <1>1, <1>2, <1>5, <1>6, <1>7

LEMMA CompleteEffectIs ==
    ASSUME IInv, SoundInv, NEW p \in Procs, CompleteEffect(p)
    PROVE  /\ SoundInv' /\ Books(disk') = Books(disk) /\ Leaf' = Leaf
           /\ disk'.effect = Stored(held[p])
           /\ disk'.completed = disk.completed /\ disk'.path = disk.path
           /\ disk'.rev = disk.rev /\ disk'.fault = disk.fault
           /\ disk.effect.disposition # "none" /\ disk.effect \in Effect
           /\ Stored(held[p]) \in Effect
           /\ Stored(held[p]).id = disk.effect.id /\ Stored(held[p]).mode = disk.effect.mode
           /\ Stored(held[p]).result = held[p] /\ Stored(held[p]).disposition = "completed"
           /\ Quiet' /\ pc[p] = "ran" /\ lock = p /\ held[p] \in Outcomes
           /\ UNCHANGED <<draft, nextId, ran, yielded, composed>>
<1>1. /\ disk \in Live /\ disk.effect \in Effect /\ held[p] \in Outcomes
      /\ lock = p /\ pc[p] = "ran" /\ disk.effect.disposition # "none"
  BY DiskType DEF CompleteEffect, IInv, TypeInv, TypeOK, HeldIsOutcome, StartInv, RunIsMarked
<1>2. /\ Stored(held[p]) \in Effect
      /\ Stored(held[p]).id = disk.effect.id /\ Stored(held[p]).mode = disk.effect.mode
      /\ Stored(held[p]).result = held[p] /\ Stored(held[p]).disposition = "completed"
  BY <1>1, ProgramAssumption DEF Stored, Effect, Dispositions
<1>3. disk' = [disk EXCEPT !.effect = Stored(held[p])] /\ UNCHANGED <<draft, nextId, history>>
  BY DEF CompleteEffect, Completed, Stored
<1>4. Quiet'
  BY <1>1, QuietControl DEF CompleteEffect
<1>5. /\ SoundInv' /\ Books(disk') = Books(disk) /\ Leaf' = Leaf
      /\ disk'.effect = Stored(held[p])
      /\ disk'.completed = disk.completed /\ disk'.path = disk.path
      /\ disk'.rev = disk.rev /\ disk'.fault = disk.fault
  BY <1>1, <1>2, <1>3, RecoveryStep
<1> QED BY <1>1, <1>2, <1>3, <1>4, <1>5 DEF history

(* Starting and completing a callback keep the second invariant.             *)
LEMMA StartEffectKeeps ==
    ASSUME IInv, SoundInv, HonestInv, NEW p \in Procs, StartEffect(p)
    PROVE  SoundInv' /\ HonestInv'
<1>1. /\ Books(disk)' = Books(disk) /\ disk'.effect = Begun
      /\ Begun.id = disk.effect.id /\ Begun.mode = disk.effect.mode
      /\ disk.effect.disposition = "planned" /\ Begun.disposition # "none"
      /\ Begun.disposition = IF Begun.mode = NRS THEN "uncertain" ELSE "planned"
      /\ pc' = [pc EXCEPT ![p] = "run"] /\ \A q \in Procs : q # p => pc'[q] = "idle"
      /\ UNCHANGED <<draft, ran, yielded, composed>>
  BY StartEffectIs
<1>2. pc'[p] = "run" /\ \A q \in Procs : pc'[q] # "ran"
  BY <1>1 DEF IInv, TypeInv, TypeOK
<1>3. DraftIsComposed' /\ AnswersComposed' /\ RecordedWasYielded'
  BY <1>1 DEF HonestInv, DraftIsComposed, AnswersComposed, RecordedWasYielded
<1>4. HeldWasYielded' /\ StoredWasYielded' /\ CallbackIsOpen'
  BY <1>1, <1>2 DEF HeldWasYielded, StoredWasYielded, CallbackIsOpen
<1>5. StartsAreKnown'
  BY <1>1 DEF HonestInv, StartsAreKnown
<1> QED BY <1>3, <1>4, <1>5, StartEffectIs DEF HonestInv

LEMMA CompleteEffectKeeps ==
    ASSUME IInv, SoundInv, HonestInv, NEW p \in Procs, CompleteEffect(p)
    PROVE  SoundInv' /\ HonestInv'
<1>1. /\ Books(disk)' = Books(disk) /\ disk'.effect = Stored(held[p])
      /\ Stored(held[p]).id = disk.effect.id /\ Stored(held[p]).mode = disk.effect.mode
      /\ Stored(held[p]).result = held[p] /\ Stored(held[p]).disposition = "completed"
      /\ Quiet' /\ pc[p] = "ran"
      /\ UNCHANGED <<draft, ran, yielded, composed>>
  BY CompleteEffectIs
<1>2. DraftIsComposed' /\ AnswersComposed' /\ RecordedWasYielded'
  BY <1>1 DEF HonestInv, DraftIsComposed, AnswersComposed, RecordedWasYielded
<1>3. HeldWasYielded' /\ CallbackIsOpen'
  BY <1>1 DEF Quiet, HeldWasYielded, CallbackIsOpen
<1>4. StoredWasYielded'
  BY <1>1 DEF HonestInv, HeldWasYielded, StoredWasYielded
<1>5. StartsAreKnown'
  BY <1>1 DEF HonestInv, StartsAreKnown
<1> QED BY <1>2, <1>3, <1>4, <1>5, CompleteEffectIs DEF HonestInv

(* Running a callback counts one start of the machine in recovery.           *)
LEMMA CountsOne ==
    ASSUME IInv, SoundInv, NEW p \in Procs, pc[p] = "run",
           ran' = Counted(disk.effect.id, disk.effect.mode)
    PROVE  /\ disk.effect.id \in Ids /\ disk.effect.mode \in Effectful
           /\ disk.effect.disposition # "none"
           /\ \A i \in Ids, m \in Modes : ran'[i][m] =
                 IF i = disk.effect.id /\ m = disk.effect.mode
                 THEN (IF ran[i][m] = 2 THEN 2 ELSE ran[i][m] + 1) ELSE ran[i][m]
           /\ \A w \in Written(Books(disk)) :
                 w[3].kind = "machine" => w[3].entry # disk.effect.id
<1> DEFINE i == disk.effect.id
           m == disk.effect.mode
<1>1. /\ ran \in [Ids -> [Modes -> 0..2]] /\ i \in Ids /\ m \in Effectful
      /\ disk.effect.disposition # "none" /\ i = Leaf.entry
  BY UnderWay, LeafFacts DEF IInv, TypeInv, TypeOK
<1>2. ran' = [ran EXCEPT ![i] = [ran[i] EXCEPT ![m] = IF ran[i][m] = 2 THEN 2 ELSE ran[i][m] + 1]]
  BY DEF Counted
<1>3. SourceAt(Leaf.hist, Leaf.entry) = {}
  BY <1>1 DEF SoundInv, Sound, EffectFits, Leaf
<1>4. ASSUME NEW w \in Written(Books(disk)), w[3].kind = "machine" PROVE w[3].entry # i
  <2>1. \A b \in Books(disk) : \A k \in DOMAIN b.hist :
           b.hist[k].kind # "hook" => b.hist[k].entry # Leaf.entry
    BY <1>3, LeafUnwritten DEF SoundInv, Leaf
  <2>2. PICK b \in Books(disk) : w[2] \in DOMAIN b.hist /\ w[3] = b.hist[w[2]]
    BY <1>4, WrittenFacts DEF SoundInv
  <2> QED BY <1>1, <1>4, <2>1, <2>2
<1> HIDE DEF i, m
<1>5. m \in Modes
  BY <1>1 DEF Modes, Effectful
<1>6. \A j \in Ids, k \in Modes : ran'[j][k] =
         IF j = i /\ k = m THEN (IF ran[j][k] = 2 THEN 2 ELSE ran[j][k] + 1) ELSE ran[j][k]
  BY <1>1, <1>2, <1>5
<1> QED BY <1>1, <1>4, <1>6 DEF i, m

\* A callback that returned, and one that failed.
Returned(p, out) ==
    /\ held' = [held EXCEPT ![p] = out] /\ pc' = [pc EXCEPT ![p] = "ran"]
    /\ yielded' = [yielded EXCEPT ![disk.effect.id] = @ \cup {out}]
    /\ disk' = disk
Failed == /\ SoundInv' /\ Written(Books(disk)') = Written(Books(disk))
          /\ Grown(Books(disk), Books(disk)') /\ disk'.completed = disk.completed
          /\ disk'.effect = disk.effect
          /\ disk'.fault.category # "none" /\ disk'.rev = disk.rev
          /\ Quiet' /\ (\A q \in Procs : pc'[q] = "idle") /\ UNCHANGED yielded

LEMMA RunEffectIs ==
    ASSUME IInv, SoundInv, NEW p \in Procs, NEW out \in Outcomes, RunEffect(p, out)
    PROVE  /\ pc[p] = "run" /\ ran' = Counted(disk.effect.id, disk.effect.mode)
           /\ UNCHANGED <<draft, nextId, composed>>
           /\ \A q \in Procs : q # p => pc[q] = "idle"
           /\ Returned(p, out) \/ Failed
<1>1. /\ pc[p] = "run" /\ lock = p /\ UNCHANGED <<draft, nextId, composed>>
      /\ ran' = Counted(disk.effect.id, disk.effect.mode)
  BY DEF RunEffect
<1>2. /\ \A q \in Procs : q # p => pc[q] = "idle"
      /\ disk.fault.category = "none"
  BY <1>1, UnderWay
<1>3. CASE /\ held' = [held EXCEPT ![p] = out]
           /\ yielded' = [yielded EXCEPT ![disk.effect.id] = @ \cup {out}]
           /\ Stay(p, "ran") /\ UNCHANGED disk
  <2>1. Returned(p, out)
    BY <1>3 DEF Stay, Returned
  <2> QED BY <1>1, <1>2, <2>1
<1>4. CASE /\ disk' \in FaultsOf(disk, disk, "action-execution", Leaf.evo)
           /\ End(p) /\ UNCHANGED yielded
  <2>1. disk \in Live /\ "action-execution" \in PlainCategories
    BY LeafFacts DEF PlainCategories
  <2>2. disk' = FaultReckoning(disk, disk, "action-execution", Nil, {})
    BY <1>4, <2>1, PlainFault DEF FaultsOf
  <2>3. Follows(disk, disk, disk', nextId) /\ disk'.effect = disk.effect
        /\ disk'.fault.category # "none"
    <3>1. Follows(disk, disk, disk', nextId)
      BY <1>4, <2>1, FaultsFollow, PlainFault DEF SoundInv
    <3>2. disk'.effect = disk.effect
      BY <1>4, <2>1, FaultsType, PlainFault
    <3>3. disk'.fault.category = "action-execution"
      BY <2>1, <2>2 DEF FaultReckoning, Live, Reckoning
    <3> QED BY <3>1, <3>2, <3>3
  <2>4. FaultNamesLeaf(disk')
    <3>1. disk'.fault.target = Nil
      BY <2>1, <2>2 DEF FaultReckoning, Live, Reckoning
    <3>2. ~Refused(disk')
      BY <3>1, ProgramAssumption DEF Refused
    <3> QED BY <1>2, <2>3, <3>2, FaultIsNamed
  <2>5. Sound(disk', nextId)
    <3>1. nextId \in Nat /\ Sound(disk', After(disk', nextId)) /\ disk'.path = disk.path
      BY <2>1, <2>2, <2>3, LeafFacts DEF Follows, FaultReckoning, Live, Reckoning
    <3>2. DeepestActiveLeaf(disk') = DeepestActiveLeaf(disk)
      BY <3>1 DEF DeepestActiveLeaf
    <3> QED BY <3>1, <3>2, LeafIsDrawn DEF After, SoundInv
  <2>6. Quiet' /\ \A q \in Procs : pc'[q] = "idle"
    BY <1>1, <1>4, QuietControl
  <2>7. Failed
    BY <1>1, <1>4, <2>3, <2>4, <2>5, <2>6 DEF Failed, SoundInv, Follows
  <2> QED BY <1>1, <1>2, <2>7
<1> QED BY <1>3, <1>4 DEF RunEffect

(* A start counted for the machine in recovery is known, and no accepted     *)
(* record is of a machine that it counts for.                                *)
LEMMA CountedKnown ==
    ASSUME IInv, SoundInv, HonestInv, NEW p \in Procs, pc[p] = "run",
           ran' = Counted(disk.effect.id, disk.effect.mode),
           Written(Books(disk)') = Written(Books(disk)), disk'.effect = disk.effect,
           \A i \in Ids : yielded[i] \subseteq yielded'[i]
    PROVE  StartsAreKnown' /\ RecordedWasYielded' /\ ran'[disk.effect.id][disk.effect.mode] > 0
<1>1. /\ \A i \in Ids, m \in Modes : ran'[i][m] =
            IF i = disk.effect.id /\ m = disk.effect.mode
            THEN (IF ran[i][m] = 2 THEN 2 ELSE ran[i][m] + 1) ELSE ran[i][m]
      /\ \A w \in Written(Books(disk)) : w[3].kind = "machine" => w[3].entry # disk.effect.id
      /\ disk.effect.disposition # "none"
      /\ disk.effect.id \in Ids /\ disk.effect.mode \in Effectful
  BY CountsOne
<1>2. StartsAreKnown'
  BY <1>1 DEF HonestInv, StartsAreKnown
<1>3. RecordedWasYielded'
  <2> SUFFICES ASSUME NEW w \in Written(Books(disk)), w[3].kind = "machine",
                      NEW m \in Effectful, ran'[w[3].entry][m] > 0
               PROVE  w[3].out \in yielded'[w[3].entry]
    BY DEF RecordedWasYielded
  <2>1. w[3].entry \in Ids /\ m \in Modes
    BY WrittenFacts DEF SoundInv, Modes, Effectful
  <2>2. ran[w[3].entry][m] > 0
    BY <1>1, <2>1
  <2>3. w[3].out \in yielded[w[3].entry]
    BY <2>2 DEF HonestInv, RecordedWasYielded
  <2> QED BY <2>1, <2>3
<1>4. ran'[disk.effect.id][disk.effect.mode] > 0
  <2>1. ran[disk.effect.id][disk.effect.mode] \in 0..2 /\ disk.effect.mode \in Modes
    BY <1>1 DEF IInv, TypeInv, TypeOK, Modes, Effectful
  <2> QED BY <1>1, <2>1
<1> QED BY <1>2, <1>3, <1>4

LEMMA RunEffectKeeps ==
    ASSUME IInv, SoundInv, HonestInv, NEW p \in Procs, NEW out \in Outcomes, RunEffect(p, out)
    PROVE  SoundInv' /\ HonestInv'
<1>1. /\ pc[p] = "run" /\ ran' = Counted(disk.effect.id, disk.effect.mode)
      /\ UNCHANGED <<draft, nextId, composed>>
      /\ \A q \in Procs : q # p => pc[q] = "idle"
      /\ yielded \in [Ids -> SUBSET Outcomes] /\ held \in [Procs -> Outcomes \cup {Nil}]
      /\ pc \in [Procs -> {"idle", "loop", "run", "ran"}]
      /\ disk.effect.id \in Ids
  BY RunEffectIs, UnderWay DEF IInv, TypeInv, TypeOK
<1>2. CASE Returned(p, out)
  <2>1. disk' = disk /\ \A i \in Ids : yielded[i] \subseteq yielded'[i]
    BY <1>1, <1>2 DEF Returned
  <2>2. SoundInv' /\ DraftIsComposed' /\ AnswersComposed'
    BY <1>1, <2>1 DEF SoundInv, HonestInv, DraftIsComposed, AnswersComposed
  <2>3. StartsAreKnown' /\ RecordedWasYielded' /\ ran'[disk.effect.id][disk.effect.mode] > 0
    BY <1>1, <2>1, CountedKnown
  <2>4. /\ pc'[p] = "ran" /\ held'[p] = out /\ out \in yielded'[disk.effect.id]
        /\ \A q \in Procs : q # p => pc'[q] = "idle"
    BY <1>1, <1>2 DEF Returned
  <2>5. StoredWasYielded' /\ HeldWasYielded'
    BY <1>1, <2>1, <2>4 DEF HonestInv, StoredWasYielded, HeldWasYielded
  <2>6. CallbackIsOpen'
    BY <1>1, <2>1, <2>3, <2>4 DEF HonestInv, CallbackIsOpen
  <2> QED BY <2>2, <2>3, <2>5, <2>6 DEF HonestInv
<1>3. CASE Failed
  <2>1. DraftIsComposed' /\ AnswersComposed' /\ StoredWasYielded'
    BY <1>1, <1>3 DEF HonestInv, DraftIsComposed, AnswersComposed, StoredWasYielded, Failed
  <2>2. StartsAreKnown' /\ RecordedWasYielded'
    BY <1>1, <1>3, CountedKnown DEF Failed
  <2>3. HeldWasYielded' /\ CallbackIsOpen'
    BY <1>3 DEF Failed, HeldWasYielded, CallbackIsOpen
  <2> QED BY <1>3, <2>1, <2>2, <2>3 DEF HonestInv, Failed
<1> QED BY <1>2, <1>3, RunEffectIs

LEMMA AbortInCallbackKeeps ==
    ASSUME IInv, SoundInv, HonestInv, NEW p \in Procs, AbortInCallback(p)
    PROVE  SoundInv' /\ HonestInv'
<1>1. /\ pc[p] = "run" /\ lock = p /\ UNCHANGED <<disk, draft, nextId, yielded, composed>>
      /\ ran' = Counted(disk.effect.id, disk.effect.mode)
  BY DEF AbortInCallback
<1>2. Quiet' /\ \A q \in Procs : pc'[q] = "idle"
  BY <1>1, QuietControl DEF AbortInCallback
<1>3. SoundInv' /\ DraftIsComposed' /\ AnswersComposed' /\ StoredWasYielded'
  BY <1>1 DEF SoundInv, HonestInv, DraftIsComposed, AnswersComposed, StoredWasYielded
<1>4. StartsAreKnown' /\ RecordedWasYielded'
  BY <1>1, CountedKnown
<1>5. HeldWasYielded' /\ CallbackIsOpen'
  BY <1>2 DEF HeldWasYielded, CallbackIsOpen
<1> QED BY <1>3, <1>4, <1>5 DEF HonestInv

(* A step that only changes control, or reads a status.                      *)
LEMMA QuietKeeps ==
    ASSUME SoundInv, HonestInv, UNCHANGED <<disk, draft, nextId, history>>,
           (\A q \in Procs : pc'[q] \notin {"run", "ran"}) \/ UNCHANGED <<pc, held>>
    PROVE  SoundInv' /\ HonestInv'
<1>1. SoundInv'
  BY DEF SoundInv
<1>2. /\ DraftIsComposed' /\ AnswersComposed' /\ StoredWasYielded' /\ RecordedWasYielded'
      /\ StartsAreKnown'
  BY DEF HonestInv, DraftIsComposed, AnswersComposed, StoredWasYielded, RecordedWasYielded,
     StartsAreKnown, history
<1>3. HeldWasYielded' /\ CallbackIsOpen'
  BY DEF HonestInv, HeldWasYielded, CallbackIsOpen, history
<1> QED BY <1>1, <1>2, <1>3 DEF HonestInv

LEMMA GetStatusKeeps ==
    ASSUME IInv, SoundInv, HonestInv, NEW p \in Procs, NEW out \in Outcomes \cup {Nil},
           GetStatus(p, out)
    PROVE  SoundInv' /\ HonestInv'
<1>1. /\ draft' = [draft EXCEPT ![p] = [entry |-> Leaf.entry, out |-> out]]
      /\ composed' = IF out = Nil THEN composed ELSE composed \cup {<<Leaf.entry, out>>}
      /\ UNCHANGED <<disk, nextId, ran, yielded, pc, held>>
  BY DEF GetStatus, process
<1>2. DOMAIN draft = Procs
  BY DEF IInv, TypeInv, TypeOK
<1>3. DraftIsComposed'
  BY <1>1, <1>2 DEF HonestInv, DraftIsComposed
<1>4. AnswersComposed'
  BY <1>1 DEF HonestInv, AnswersComposed
<1>5. /\ SoundInv' /\ HeldWasYielded' /\ StoredWasYielded' /\ RecordedWasYielded'
      /\ StartsAreKnown' /\ CallbackIsOpen'
  BY <1>1 DEF SoundInv, HonestInv, HeldWasYielded, StoredWasYielded, RecordedWasYielded,
     StartsAreKnown, CallbackIsOpen
<1> QED BY <1>3, <1>4, <1>5 DEF HonestInv

-----------------------------------------------------------------------------
\* Every step is one of these: a publication, a step of a callback, a status that
\* is read, or a change of control alone.
Idling == /\ UNCHANGED <<disk, draft, nextId, history>>
          /\ ((\A q \in Procs : pc'[q] \notin {"run", "ran"}) \/ UNCHANGED <<pc, held>>)
Steps == \/ Publication \/ Idling
         \/ \E p \in Procs :
               \/ StartEffect(p) \/ CompleteEffect(p) \/ AbortInCallback(p)
               \/ \E out \in Outcomes : RunEffect(p, out)
               \/ \E out \in Outcomes \cup {Nil} : GetStatus(p, out)

LEMMA NextIsStep ==
    ASSUME IInv, SoundInv, HonestInv, [Next]_vars
    PROVE  Steps
<1>1. CASE UNCHANGED vars
  BY <1>1 DEF vars, Steps, Idling, history
<1>2. ASSUME NEW p \in Procs, Call(p) PROVE Steps
  <2>1. ASSUME NEW out \in Outcomes \cup {Nil}, GetStatus(p, out) PROVE Steps
    BY <2>1 DEF Steps
  <2>2. ASSUME NEW kind \in {"advance", "step"}, Advance(p, kind) PROVE Steps
    <3>1. Quiet'
      BY <2>2, QuietControl DEF Advance
    <3> QED BY <2>2, <3>1 DEF Advance, Steps, Idling, Quiet
  <2>3. ASSUME NEW kind \in {"advance", "step"}, Respond(p, kind) PROVE Steps
    <3>1. Publication
      BY <2>3, RespondPublishes DEF HonestInv
    <3> QED BY <3>1 DEF Steps
  <2>4. ASSUME NEW kind \in {"advance", "step"}, NEW out \in Outcomes, SupplyResult(p, kind, out)
        PROVE Steps
    <3>1. Publication
      BY <2>4, SupplyPublishes
    <3> QED BY <3>1 DEF Steps
  <2>5. CASE RunInstruction(p)
    <3>1. Quiet'
      BY <2>5, QuietControl DEF RunInstruction
    <3> QED BY <2>5, <3>1 DEF RunInstruction, Steps, Idling, Quiet
  <2> QED BY <1>2, <2>1, <2>2, <2>3, <2>4, <2>5 DEF Call
<1>3. ASSUME NEW p \in Procs, lock = p, End(p), UNCHANGED <<disk, draft, nextId, history>>
      PROVE  Steps
  <2>1. Quiet'
    BY <1>3, QuietControl
  <2> QED BY <1>3, <2>1 DEF Steps, Idling, Quiet
<1>4. ASSUME NEW p \in Procs, Work(p) PROVE Steps
  <2>1. CASE ContinueRecorded(p)
    <3>1. lock = p
      BY <2>1 DEF ContinueRecorded, Running
    <3>2. Publication \/ (End(p) /\ UNCHANGED <<disk, draft, nextId, history>>)
      BY <2>1, ContinueRecordedPublishes
    <3> QED BY <1>3, <3>1, <3>2 DEF Steps
  <2>2. CASE WaitForResponse(p)
    BY <1>3, <2>2 DEF WaitForResponse, Running
  <2>3. CASE StartEffect(p) \/ CompleteEffect(p)
    BY <2>3 DEF Steps
  <2>4. CASE AcceptEffect(p) \/ EnterSubRutter(p)
    <3>1. Publication
      BY <2>4, AcceptEffectPublishes, EnterSubRutterPublishes
    <3> QED BY <3>1 DEF Steps
  <2>5. ASSUME NEW out \in Outcomes, RunPure(p, out) \/ Settle(p, out) PROVE Steps
    <3>1. Publication
      BY <2>5, RunPurePublishes, SettlePublishes
    <3> QED BY <3>1 DEF Steps
  <2>6. ASSUME NEW out \in Outcomes, RunEffect(p, out) PROVE Steps
    BY <2>6 DEF Steps
  <2> QED BY <1>4, <2>1, <2>2, <2>3, <2>4, <2>5, <2>6 DEF Work
<1>5. ASSUME NEW p \in Procs, Abort(p) PROVE Steps
  BY <1>3, <1>5 DEF Abort
<1>6. ASSUME NEW p \in Procs, AbortInCallback(p) PROVE Steps
  BY <1>6 DEF Steps
<1> QED BY <1>1, <1>2, <1>4, <1>5, <1>6 DEF Next

(* The second invariant holds at first, and every step keeps it.             *)
LEMMA InitSound == Init => SoundInv /\ HonestInv
<1> SUFFICES ASSUME Init PROVE SoundInv /\ HonestInv
  OBVIOUS
<1>1. /\ Sound(disk, 2) /\ Written(Books(disk)) = {} /\ disk.fault = NoFault
      /\ disk.effect = NoEffect \/ disk.effect = PlannedEffect(1, Start)
  BY CreatedSound, StartAssumption DEF Init
<1>2. SoundInv
  BY <1>1 DEF Init, SoundInv, FaultNamesLeaf, NoFault
<1>3. disk.effect.disposition # "completed"
  BY <1>1 DEF NoEffect, PlannedEffect
<1>4. HonestInv
  BY <1>1, <1>3 DEF Init, HonestInv, DraftIsComposed, AnswersComposed, HeldWasYielded,
     StoredWasYielded, RecordedWasYielded, StartsAreKnown, CallbackIsOpen, NoDraft
<1> QED BY <1>2, <1>4

LEMMA NextSound == IInv2 /\ [Next]_vars => IInv2'
<1> SUFFICES ASSUME IInv, SoundInv, HonestInv, [Next]_vars PROVE IInv' /\ SoundInv' /\ HonestInv'
  BY DEF IInv2
<1>1. IInv'
  BY NextInv
<1>2. CASE Publication
  BY <1>1, <1>2, PublicationKeeps
<1>3. CASE Idling
  BY <1>1, <1>3, QuietKeeps DEF Idling
<1>4. ASSUME NEW p \in Procs, StartEffect(p) \/ CompleteEffect(p) \/ AbortInCallback(p)
      PROVE  SoundInv' /\ HonestInv'
  BY <1>4, StartEffectKeeps, CompleteEffectKeeps, AbortInCallbackKeeps
<1>5. ASSUME NEW p \in Procs, NEW out \in Outcomes, RunEffect(p, out)
      PROVE  SoundInv' /\ HonestInv'
  BY <1>5, RunEffectKeeps
<1>6. ASSUME NEW p \in Procs, NEW out \in Outcomes \cup {Nil}, GetStatus(p, out)
      PROVE  SoundInv' /\ HonestInv'
  BY <1>6, GetStatusKeeps
<1> QED BY <1>1, <1>2, <1>3, <1>4, <1>5, <1>6, NextIsStep DEF Steps

(* Every reachable Reckoning is sound, and what it keeps is what was said    *)
(* and returned.                                                             *)
THEOREM Inductive2 == Spec => []IInv2
<1>1. Init => IInv2
  BY InitInv, InitSound DEF IInv2
<1> QED BY <1>1, NextSound, PTL DEF Spec

-----------------------------------------------------------------------------
\* The invariants the runs check speak of owners; a book is an owner that knows
\* where it stands.

LEMMA OwnerBook ==
    ASSUME NEW r, NEW id, Sound(r, id), NEW a \in Owners(r)
    PROVE  \E b \in Books(r) : b.run = a.run /\ b.hist = a.hist /\ b \in BookType /\ WellKept(b)
<1>1. \E b \in Books(r) : b.run = a.run /\ b.hist = a.hist
  <2>1. CASE a \in r.completed
    <3>1. Shelved(a) \in Books(r) /\ Shelved(a).run = a.run /\ Shelved(a).hist = a.hist
      BY <2>1 DEF Books, Shelved
    <3> QED BY <3>1
  <2>2. ASSUME NEW n \in DOMAIN r.path, a = [run |-> r.path[n].run, hist |-> r.path[n].hist]
        PROVE  \E b \in Books(r) : b.run = a.run /\ b.hist = a.hist
    <3>1. Book(r.path[n]) \in Books(r) /\ Book(r.path[n]).run = a.run
          /\ Book(r.path[n]).hist = a.hist
      BY <2>2 DEF Books, Book
    <3> QED BY <3>1
  <2> QED BY <2>1, <2>2 DEF Owners, Positions
<1> QED BY <1>1 DEF Sound, InOrder

LEMMA BookOwner ==
    ASSUME NEW r, NEW id, Sound(r, id), NEW b \in Books(r)
    PROVE  [run |-> b.run, hist |-> b.hist] \in Owners(r)
<1>1. ASSUME NEW c \in r.completed, b = Shelved(c)
      PROVE  [run |-> b.run, hist |-> b.hist] \in Owners(r)
  <2>1. c \in CompletedRun
    BY DEF Sound, Live, Reckoning
  <2>2. [run |-> b.run, hist |-> b.hist] = c
    BY <1>1, <2>1 DEF CompletedRun, Shelved
  <2> QED BY <2>2 DEF Owners
<1>2. ASSUME NEW n \in DOMAIN r.path, b = Book(r.path[n])
      PROVE  [run |-> b.run, hist |-> b.hist] \in Owners(r)
  <2>1. [run |-> b.run, hist |-> b.hist] = [run |-> r.path[n].run, hist |-> r.path[n].hist]
    BY <1>2 DEF Book
  <2> QED BY <2>1 DEF Owners, Positions
<1> QED BY <1>1, <1>2 DEF Books

(* A closed record of an owner is written.                                   *)
LEMMA OwnerWrites ==
    ASSUME NEW r, NEW id, Sound(r, id), NEW a \in Owners(r), NEW i \in DOMAIN a.hist,
           ~IsOpen(a.hist[i])
    PROVE  /\ \E w \in Written(Books(r)) : w[3] = a.hist[i]
           /\ a.hist[i] \in Record
<1>1. PICK b \in Books(r) : b.run = a.run /\ b.hist = a.hist
  BY OwnerBook
<1> DEFINE w == <<b.run, i, b.hist[i]>>
<1>2. w \in Written(Books(r)) /\ w[3] = a.hist[i]
  BY <1>1, WritesRecord
<1>3. w[3] \in Record
  BY <1>2, WrittenFacts
<1> QED BY <1>2, <1>3

(* Every answer that a record keeps was composed for the Message it answers, *)
(* however late or often it was delivered.                                   *)
THEOREM AnswersFit == Spec => []AnswerFitsMessage
<1>1. IInv2 => AnswerFitsMessage
  <2> SUFFICES ASSUME SoundInv, AnswersComposed, NEW a \in Owners(disk), NEW i \in DOMAIN a.hist,
                      a.hist[i].kind = "turn", a.hist[i].out # Nil
               PROVE  <<a.hist[i].entry, a.hist[i].out>> \in composed
    BY DEF IInv2, HonestInv, AnswerFitsMessage
  <2>1. ~IsOpen(a.hist[i])
    BY DEF IsOpen
  <2>2. PICK w \in Written(Books(disk)) : w[3] = a.hist[i]
    BY <2>1, OwnerWrites DEF SoundInv
  <2> QED BY <2>2 DEF AnswersComposed
<1> QED BY <1>1, Inductive2, PTL

(* The durable result of an effectful machine, in its recovery and in its    *)
(* record, is one that an execution of that very machine returned.           *)
THEOREM ResultsWereYielded == Spec => []ResultWasYielded
<1>1. IInv2 => ResultWasYielded
  <2> SUFFICES ASSUME SoundInv, StoredWasYielded, RecordedWasYielded
               PROVE  ResultWasYielded
    BY DEF IInv2, HonestInv
  <2>1. ASSUME NEW a \in Owners(disk), NEW i \in DOMAIN a.hist, a.hist[i].kind = "machine",
               \E m \in Effectful : ran[a.hist[i].entry][m] > 0
        PROVE  a.hist[i].out \in yielded[a.hist[i].entry]
    <3>1. ~IsOpen(a.hist[i])
      BY <2>1 DEF IsOpen
    <3>2. PICK w \in Written(Books(disk)) : w[3] = a.hist[i]
      BY <3>1, OwnerWrites DEF SoundInv
    <3> QED BY <2>1, <3>2 DEF RecordedWasYielded
  <2> QED BY <2>1 DEF ResultWasYielded, StoredWasYielded, Indices, IsMachine
<1> QED BY <1>1, Inductive2, PTL

(* A callback never starts again once its result is durable, in the recovery *)
(* or in a record.                                                           *)
THEOREM NoStartAfterResult == Spec => NoRunAfterResult
<1>1. IInv2 /\ [Next]_vars =>
        [\A i \in Ids : ran'[i] # ran[i] =>
            /\ ~(disk.effect.id = i /\ disk.effect.disposition = "completed")
            /\ \A a \in Owners(disk) : \A k \in Indices(a.hist, IsMachine) :
                  a.hist[k].entry # i]_vars
  <2> SUFFICES ASSUME IInv, SoundInv, HonestInv, [Next]_vars, NEW i \in Ids, ran'[i] # ran[i]
               PROVE  /\ ~(disk.effect.id = i /\ disk.effect.disposition = "completed")
                      /\ \A a \in Owners(disk) : \A k \in Indices(a.hist, IsMachine) :
                            a.hist[k].entry # i
    BY DEF IInv2
  <2>1. PICK p \in Procs : pc[p] = "run" /\ ran' = Counted(disk.effect.id, disk.effect.mode)
    <3>1. ASSUME NEW p \in Procs, StartEffect(p) \/ CompleteEffect(p) PROVE FALSE
      BY <3>1 DEF StartEffect, CompleteEffect, history
    <3>2. ASSUME NEW p \in Procs, NEW out \in Outcomes \cup {Nil}, GetStatus(p, out) PROVE FALSE
      BY <3>2 DEF GetStatus
    <3>3. ~Publication /\ ~Idling
      BY DEF Publication, Idling, history
    <3>4. ASSUME NEW p \in Procs, AbortInCallback(p)
          PROVE  pc[p] = "run" /\ ran' = Counted(disk.effect.id, disk.effect.mode)
      BY <3>4 DEF AbortInCallback
    <3>5. ASSUME NEW p \in Procs, NEW out \in Outcomes, RunEffect(p, out)
          PROVE  pc[p] = "run" /\ ran' = Counted(disk.effect.id, disk.effect.mode)
      BY <3>5 DEF RunEffect
    <3> QED BY <3>1, <3>2, <3>3, <3>4, <3>5, NextIsStep DEF Steps
  <2>2. i = disk.effect.id
    BY <2>1 DEF Counted, IInv, TypeInv, TypeOK
  <2>3. disk.effect.disposition # "completed"
    BY <2>1 DEF HonestInv, CallbackIsOpen
  <2>4. ASSUME NEW a \in Owners(disk), NEW k \in DOMAIN a.hist, a.hist[k].kind = "machine"
        PROVE  a.hist[k].entry # i
    <3>1. ~IsOpen(a.hist[k])
      BY <2>4 DEF IsOpen
    <3>2. PICK w \in Written(Books(disk)) : w[3] = a.hist[k]
      BY <3>1, OwnerWrites DEF SoundInv
    <3> QED BY <2>1, <2>2, <2>4, <3>2, CountsOne
  <2> QED BY <2>3, <2>4 DEF Indices, IsMachine
<1> QED BY <1>1, Inductive2, PTL DEF Spec, NoRunAfterResult

(* A hook that matches a transition has run to its end before its run leaves *)
(* the entrance: it is attached there, and nothing else is.                  *)
THEOREM HooksRunFirst == Spec => []HooksRunBeforeTarget
<1>1. IInv2 => HooksRunBeforeTarget
  <2> SUFFICES ASSUME SoundInv, NEW a \in Owners(disk), NEW i \in DOMAIN a.hist,
                      a.hist[i].kind # "hook", Left(a, i)
               PROVE  {a.hist[j].hook : j \in {k \in DOMAIN a.hist :
                           a.hist[k].kind = "hook" /\ a.hist[k].entry = a.hist[i].entry}}
                        = HooksFor(a.hist[i])
    BY DEF IInv2, HooksRunBeforeTarget, Indices, IsSource
  <2>1. PICK b \in Books(disk) : /\ b.run = a.run /\ b.hist = a.hist
                                 /\ b \in BookType /\ WellKept(b)
    BY OwnerBook DEF SoundInv
  <2> DEFINE e == a.hist[i].entry
  <2>2. e \in Ids /\ e # 0
    BY <2>1 DEF BookType, Record, Ids
  <2>3. b.at # e
    <3>1. ASSUME NEW n \in DOMAIN disk.path, b = Book(disk.path[n]) PROVE b.at # e
      <4>1. disk.path[n].run = a.run /\ disk.path[n].entry = b.at
        BY <2>1, <3>1 DEF Book
      <4> QED BY <4>1 DEF Left, Positions
    <3>2. ASSUME NEW c \in disk.completed, b = Shelved(c) PROVE b.at # e
      BY <2>2, <3>2 DEF Shelved
    <3> QED BY <3>1, <3>2 DEF Books
  <2>4. Complete(b.hist, e)
    BY <2>1, <2>3 DEF WellKept, Ordered, LeftIsComplete
  <2>5. PICK k \in SourceAt(b.hist, e) : Attached(b.hist, e) = Due(b.hist[k])
    BY <2>4 DEF Complete
  <2>6. i = k
    BY <2>1, <2>2 DEF SourceAt, WellKept, Ordered, OneSource
  <2>7. Attached(a.hist, e) = Due(a.hist[i])
    BY <2>1, <2>5, <2>6
  <2> QED BY <2>7 DEF Attached, Due, HooksFor, HooksOf
<1> QED BY <1>1, Inductive2, PTL

-----------------------------------------------------------------------------
\* The validators.

(* A frame with a closed source record is recorded, and one without a source *)
(* record is not.                                                            *)
LEMMA FrameIsRecorded ==
    ASSUME NEW f \in Frame, WellKept(Book(f)), NEW i \in SourceAt(f.hist, f.entry)
    PROVE  /\ SourceRecords(f) = {f.hist[i]}
           /\ f.hist[i].kind = SourceKind(f.evo)
           /\ (~IsOpen(f.hist[i]) => IsRecorded(f))
<1>1. Book(f).hist = f.hist /\ Book(f).at = f.entry /\ f.entry \in Ids /\ Book(f).evo = f.evo
      /\ f.hist \in Seq(Record)
  BY FrameBook
<1>2. SourceIndices(f) = SourceAt(f.hist, f.entry)
  BY DEF SourceIndices, SourceAt
<1>3. \A j \in SourceAt(f.hist, f.entry) : j = i
  BY <1>1 DEF WellKept, Ordered, OneSource
<1>4. f.hist[i].kind = SourceKind(f.evo)
  BY <1>1 DEF WellKept, Ordered, SourceFits
<1>5. i \in Nat
  BY <1>1 DEF SourceAt
<1>6. SourceRecords(f) = {f.hist[i]}
  <2>1. SourceIndices(f) = {i}
    BY <1>2, <1>3
  <2>2. {j \in SourceIndices(f) : \A k \in SourceIndices(f) : k <= j} = {i}
    BY <1>5, <2>1
  <2> QED BY <2>2 DEF SourceRecords
<1> QED BY <1>4, <1>6 DEF IsRecorded, RecordedSources

LEMMA FrameIsUnrecorded ==
    ASSUME NEW f, SourceAt(f.hist, f.entry) = {}
    PROVE  ~IsRecorded(f)
BY DEF IsRecorded, RecordedSources, SourceRecords, SourceIndices, SourceAt

(* A frame of a sound Reckoning and its book.                                *)
LEMMA PathFrame ==
    ASSUME NEW r, NEW id, Sound(r, id), NEW n \in DOMAIN r.path
    PROVE  /\ r.path[n] \in Frame /\ Book(r.path[n]) \in Books(r)
           /\ WellKept(Book(r.path[n]))
           /\ n \in 1..Len(r.path) /\ Len(r.path) \in Nat
           /\ (n # Len(r.path) => n + 1 \in DOMAIN r.path
                                  /\ Waits(r.path[n], r.path[n + 1]))
<1>1. r.path \in Seq(Frame)
  BY DEF Sound, Live, Reckoning
<1>2. r.path[n] \in Frame /\ n \in 1..Len(r.path) /\ Len(r.path) \in Nat /\ DOMAIN r.path = 1..Len(r.path)
  BY <1>1
<1>3. Book(r.path[n]) \in Books(r)
  BY DEF Books
<1>4. WellKept(Book(r.path[n]))
  BY <1>3 DEF Sound, InOrder
<1>5. ASSUME n # Len(r.path) PROVE n + 1 \in DOMAIN r.path /\ Waits(r.path[n], r.path[n + 1])
  <2>1. n + 1 \in DOMAIN r.path /\ n + 1 # 1 /\ (n + 1) - 1 = n
    BY <1>2, <1>5
  <2> QED BY <2>1 DEF Sound, Linked
<1> QED BY <1>2, <1>3, <1>4, <1>5

LEMMA RunsDiffer ==
    ASSUME NEW r, NEW id, Sound(r, id)
    PROVE  RunsAreDistinct(r)
<1>1. OneBook(Books(r)) /\ PathIsDistinct(r)
  BY DEF Sound, InOrder
<1>2. ASSUME NEW c \in r.completed, NEW n \in DOMAIN r.path, r.path[n].run = c.run PROVE FALSE
  <2>1. Shelved(c) \in Books(r) /\ Book(r.path[n]) \in Books(r) /\ r.path[n] \in Frame
    BY PathFrame DEF Books
  <2>2. Shelved(c).run = Book(r.path[n]).run /\ Shelved(c).at = 0 /\ Book(r.path[n]).at # 0
    BY <1>2, <2>1, FrameBook DEF Shelved
  <2> QED BY <1>1, <2>1, <2>2 DEF OneBook
<1>3. ASSUME NEW c \in r.completed, NEW d \in r.completed, c.run = d.run PROVE c = d
  <2>1. c \in CompletedRun /\ d \in CompletedRun
    BY DEF Sound, Live, Reckoning
  <2>2. Shelved(c) \in Books(r) /\ Shelved(d) \in Books(r) /\ Shelved(c).run = Shelved(d).run
    BY <1>3 DEF Books, Shelved
  <2>3. Shelved(c) = Shelved(d)
    BY <1>1, <2>2 DEF OneBook
  <2>4. c.hist = d.hist
    BY <2>3 DEF Shelved
  <2> QED BY <1>3, <2>1, <2>4 DEF CompletedRun
<1> QED BY <1>1, <1>2, <1>3 DEF RunsAreDistinct, PathIsDistinct, Positions

LEMMA EntrancesDiffer ==
    ASSUME NEW r, NEW id, Sound(r, id)
    PROVE  EntranceHasOneOwner(r)
<1>1. Apart(Books(r))
  BY DEF Sound, InOrder
<1>2. ASSUME NEW a \in Owners(r), NEW b \in Owners(r), a.run # b.run,
             NEW i \in DOMAIN a.hist, NEW j \in DOMAIN b.hist
      PROVE  a.hist[i].entry # b.hist[j].entry
  <2>1. PICK x \in Books(r) : x.run = a.run /\ x.hist = a.hist
    BY OwnerBook
  <2>2. PICK y \in Books(r) : y.run = b.run /\ y.hist = b.hist
    BY OwnerBook
  <2>3. a.hist[i].entry \in Marks(x) /\ b.hist[j].entry \in Marks(y)
    BY <2>1, <2>2 DEF Marks
  <2>4. Marks(x) \cap Marks(y) = {}
    BY <1>1, <1>2, <2>1, <2>2 DEF Apart
  <2> QED BY <2>3, <2>4
<1>3. ASSUME NEW n \in DOMAIN r.path, NEW a \in Owners(r), a.run # r.path[n].run,
             NEW i \in DOMAIN a.hist
      PROVE  a.hist[i].entry # r.path[n].entry
  <2>1. PICK x \in Books(r) : x.run = a.run /\ x.hist = a.hist
    BY OwnerBook
  <2>2. /\ Book(r.path[n]) \in Books(r) /\ Book(r.path[n]).run = r.path[n].run
        /\ Book(r.path[n]).at = r.path[n].entry /\ r.path[n].entry # 0
    BY PathFrame, FrameBook
  <2>3. a.hist[i].entry \in Marks(x) /\ r.path[n].entry \in Marks(Book(r.path[n]))
    BY <2>1, <2>2 DEF Marks
  <2>4. Marks(x) \cap Marks(Book(r.path[n])) = {}
    BY <1>1, <1>3, <2>1, <2>2 DEF Apart
  <2> QED BY <2>3, <2>4
<1>4. ASSUME NEW a \in Owners(r), NEW i \in DOMAIN a.hist, NEW j \in DOMAIN a.hist,
             a.hist[i].kind # "hook", a.hist[j].kind # "hook", a.hist[i].entry = a.hist[j].entry
      PROVE  i = j
  <2>1. PICK x \in Books(r) : x.hist = a.hist
    BY OwnerBook
  <2> QED BY <1>4, <2>1, OneSourceRecord
<1> QED BY <1>2, <1>3, <1>4 DEF EntranceHasOneOwner, Positions, Indices, IsSource

(* A run's terminal record is its last source record: an archived run has    *)
(* one, an active one's is of its entrance, and no call waits there.         *)
LEMMA TerminalsFit ==
    ASSUME NEW r, NEW id, Sound(r, id)
    PROVE  TerminalFits(r)
<1>1. ASSUME NEW c \in r.completed PROVE Cardinality(Indices(c.hist, IsDone)) = 1
  <2>1. /\ Shelved(c) \in Books(r) /\ Shelved(c).at = 0 /\ Shelved(c).hist = c.hist
        /\ DoneIsLast(Shelved(c)) /\ Shelved(c) \in BookType
    BY DEF Books, Shelved, Sound, InOrder, WellKept, Ordered
  <2>2. PICK i \in DOMAIN c.hist : c.hist[i].kind = "done"
    BY <2>1 DEF Sound, InOrder, ArchiveIsDone
  <2>3. c.hist \in Seq(Record)
    BY <2>1 DEF BookType
  <2>4. ASSUME NEW j \in DOMAIN c.hist, c.hist[j].kind = "done" PROVE j = i
    <3>1. /\ i < j => c.hist[j].kind = "hook"
          /\ j < i => c.hist[i].kind = "hook"
      BY <2>1, <2>2, <2>4 DEF DoneIsLast
    <3>2. ~(i < j) /\ ~(j < i)
      BY <2>2, <2>4, <3>1
    <3> QED BY <2>3, <3>2
  <2>5. Indices(c.hist, IsDone) = {i}
    BY <2>2, <2>4 DEF Indices, IsDone
  <2> QED BY <2>5, FS_Singleton
<1>2. ASSUME NEW n \in DOMAIN r.path, NEW i \in DOMAIN r.path[n].hist,
             r.path[n].hist[i].kind = "done"
      PROVE  /\ r.path[n].hist[i].entry = r.path[n].entry
             /\ r.path[n].hist[i].evo = r.path[n].evo
             /\ n # Len(r.path) => r.path[n + 1].held = "hook"
  <2> DEFINE f == r.path[n]
  <2>1. /\ f \in Frame /\ WellKept(Book(f)) /\ n \in 1..Len(r.path) /\ Len(r.path) \in Nat
        /\ Book(f).at = f.entry /\ Book(f).hist = f.hist /\ Book(f).evo = f.evo /\ f.entry # 0
        /\ (n # Len(r.path) => n + 1 \in DOMAIN r.path /\ Waits(f, r.path[n + 1]))
    BY PathFrame, FrameBook
  <2>2. f.hist[i].entry = f.entry
    BY <1>2, <2>1 DEF WellKept, Ordered, DoneIsLast
  <2>3. i \in SourceAt(f.hist, f.entry)
    BY <1>2, <2>2 DEF SourceAt
  <2>4. f.hist[i].evo = f.evo
    BY <2>1, <2>3 DEF WellKept, Ordered, SourceFits
  <2>5. ASSUME n # Len(r.path) PROVE r.path[n + 1].held = "hook"
    <3>1. n + 1 \in DOMAIN r.path /\ r.path[n + 1].held # "call"
      BY <2>1, <2>3, <2>5 DEF Waits
    <3>2. r.path[n + 1].held # "root"
      BY <2>1, <3>1 DEF Sound, Live, Nested
    <3>3. r.path[n + 1].held \in {"root", "call", "hook"}
      BY <3>1, PathFrame DEF Frame
    <3> QED BY <3>1, <3>2, <3>3
  <2> QED BY <2>2, <2>4, <2>5
<1> QED BY <1>1, <1>2 DEF TerminalFits, Positions, Indices, IsDone

\* The book that an entrance and its evolution are read from.
NamedIn(b, x) ==
    /\ x[1] \in Marks(b)
    /\ \/ x[1] = b.at /\ x[2] = b.evo
       \/ \E i \in SourceAt(b.hist, x[1]) : x[2] = b.hist[i].evo

LEMMA EntranceIsNamed ==
    ASSUME NEW r, NEW id, Sound(r, id), NEW x \in Entrances(r)
    PROVE  \E b \in Books(r) : NamedIn(b, x)
<1>1. ASSUME NEW n \in DOMAIN r.path, x = <<r.path[n].entry, r.path[n].evo>>
      PROVE  \E b \in Books(r) : NamedIn(b, x)
  <2> DEFINE b == Book(r.path[n])
  <2>1. b \in Books(r) /\ b.at = r.path[n].entry /\ b.evo = r.path[n].evo /\ b.at # 0
    BY PathFrame, FrameBook
  <2> HIDE DEF b
  <2>2. NamedIn(b, x)
    BY <1>1, <2>1 DEF NamedIn, Marks
  <2> QED BY <2>1, <2>2
<1>2. ASSUME NEW a \in Owners(r), NEW i \in DOMAIN a.hist, a.hist[i].kind # "hook",
             x = <<a.hist[i].entry, a.hist[i].evo>>
      PROVE  \E b \in Books(r) : NamedIn(b, x)
  <2>1. PICK b \in Books(r) : b.hist = a.hist
    BY OwnerBook
  <2>2. x[1] = b.hist[i].entry /\ x[2] = b.hist[i].evo /\ i \in DOMAIN b.hist
        /\ b.hist[i].kind # "hook"
    BY <1>2, <2>1
  <2>3. NamedIn(b, x)
    BY <2>2 DEF NamedIn, Marks, SourceAt
  <2> QED BY <2>3
<1>3. \/ \E n \in DOMAIN r.path : x = <<r.path[n].entry, r.path[n].evo>>
      \/ \E a \in Owners(r) : \E i \in DOMAIN a.hist :
            a.hist[i].kind # "hook" /\ x = <<a.hist[i].entry, a.hist[i].evo>>
  BY DEF Entrances, Positions, Indices, IsSource
<1> QED BY <1>1, <1>2, <1>3

LEMMA EntrancesAgree ==
    ASSUME NEW r, NEW id, Sound(r, id)
    PROVE  EntranceHasOneEvolution(r)
<1> SUFFICES ASSUME NEW x \in Entrances(r), NEW y \in Entrances(r), x[1] = y[1]
             PROVE  x[2] = y[2]
  BY DEF EntranceHasOneEvolution
<1>1. PICK b \in Books(r) : NamedIn(b, x)
  BY EntranceIsNamed
<1>2. PICK c \in Books(r) : NamedIn(c, y)
  BY EntranceIsNamed
<1>3. b = c
  BY <1>1, <1>2 DEF NamedIn, Sound, InOrder, Apart, OneBook
<1>4. /\ SourceFits(b) /\ OneSource(b) /\ b \in BookType
  BY DEF Sound, InOrder, WellKept, Ordered
<1>5. ASSUME NEW i \in SourceAt(b.hist, x[1]), NEW j \in SourceAt(b.hist, x[1])
      PROVE  i = j
  <2>1. x[1] = b.hist[i].entry /\ b.hist[i] \in Record
    BY <1>4 DEF SourceAt, BookType
  <2>2. x[1] \in Ids
    BY <2>1 DEF Record
  <2> QED BY <1>4, <2>2 DEF OneSource
<1> QED BY <1>1, <1>2, <1>3, <1>4, <1>5 DEF NamedIn, SourceFits

(* No archived runs refer to each other in a cycle: the oldest of them is    *)
(* referred to by an older one only.                                         *)
LEMMA NoCycle ==
    ASSUME NEW r, NEW id, Sound(r, id)
    PROVE  ReferencesAreAcyclic(r)
<1> SUFFICES ASSUME NEW S \in SUBSET r.completed, S # {}
             PROVE  \E c \in S : \A d \in S : ~RefersTo(d, c)
  BY DEF ReferencesAreAcyclic
<1> DEFINE runs == {c.run : c \in S}
<1>1. \A c \in S : /\ c \in CompletedRun /\ Shelved(c) \in Books(r)
                   /\ Shelved(c).run = c.run /\ Shelved(c).hist = c.hist
  BY DEF Sound, Live, Reckoning, Books, Shelved
<1>2. runs \in SUBSET Nat /\ runs # {}
  BY <1>1 DEF CompletedRun, Ids
<1>3. PICK m \in runs : \A k \in runs : ~(k < m)
  <2> HIDE DEF runs
  <2>1. \E m \in runs : \A k \in runs : ~(<<k, m>> \in OpToRel(<, Nat))
    BY <1>2, NatLessThanWellFounded, WFMin
  <2> QED BY <1>2, <2>1 DEF OpToRel
<1>4. PICK c \in S : c.run = m
  OBVIOUS
<1>5. ASSUME NEW d \in S, RefersTo(d, c) PROVE FALSE
  <2>1. PICK i \in Children(Shelved(d)) : d.hist[i].run = c.run
    BY <1>1, <1>5 DEF RefersTo, Indices, IsChildRecord, Children
  <2>2. d.run < c.run
    BY <1>1, <2>1 DEF Sound, InOrder, ChildIsLater
  <2>3. ~(d.run < c.run)
    BY <1>3, <1>4
  <2> QED BY <2>2, <2>3
<1> QED BY <1>5

(* An archived run is referred to by exactly one record.                     *)
LEMMA ArchiveHasOneReference ==
    ASSUME NEW r, NEW id, Sound(r, id)
    PROVE  ArchiveIsReferencedOnce(r)
<1>a. ASSUME NEW a \in Owners(r), NEW i \in DOMAIN a.hist, a.hist[i].kind \in {"call", "hook"}
      PROVE  \E c \in r.completed : a.hist[i].run = c.run
  <2>1. PICK b \in Books(r) : b.hist = a.hist
    BY OwnerBook
  <2>2. PICK x \in Books(r) : x.at = 0 /\ x.run = a.hist[i].run
    BY <1>a, <2>1 DEF Sound, InOrder, RefersToArchive, Children
  <2>3. \A n \in DOMAIN r.path : x # Book(r.path[n])
    BY <2>2, PathFrame, FrameBook
  <2>4. PICK c \in r.completed : x = Shelved(c)
    BY <2>3 DEF Books
  <2> QED BY <2>2, <2>4 DEF Shelved
<1> SUFFICES ASSUME NEW c \in r.completed
             PROVE  Cardinality(UNION {{<<a.run, i>> : i \in {j \in Indices(a.hist, IsChildRecord) :
                        a.hist[j].run = c.run}} : a \in Owners(r)}) = 1
  BY <1>a DEF ArchiveIsReferencedOnce, Indices, IsChildRecord
<1> DEFINE References(a) == {<<a.run, i>> : i \in {j \in Indices(a.hist, IsChildRecord) :
                            a.hist[j].run = c.run}}
           All == UNION {References(a) : a \in Owners(r)}
<1>1. ArchiveIsReferred(Books(r)) /\ RefersOnce(Books(r))
  BY DEF Sound, InOrder
<1>2. Shelved(c) \in Books(r) /\ Shelved(c).at = 0 /\ Shelved(c).run = c.run
  BY DEF Books, Shelved
<1>3. PICK b \in Books(r) : \E i \in Children(b) : b.hist[i].run = c.run
  BY <1>1, <1>2 DEF ArchiveIsReferred
<1>4. PICK i \in Children(b) : b.hist[i].run = c.run
  BY <1>3
<1>5. <<b.run, i>> \in All
  <2> DEFINE a == [run |-> b.run, hist |-> b.hist]
  <2>1. a \in Owners(r)
    BY BookOwner
  <2>2. <<a.run, i>> \in References(a)
    BY <1>4 DEF Indices, IsChildRecord, Children
  <2> QED BY <2>1, <2>2
<1>6. ASSUME NEW x \in All PROVE x = <<b.run, i>>
  <2>1. PICK a \in Owners(r) : x \in References(a)
    OBVIOUS
  <2>2. PICK j \in Indices(a.hist, IsChildRecord) : a.hist[j].run = c.run /\ x = <<a.run, j>>
    BY <2>1
  <2>3. PICK d \in Books(r) : d.run = a.run /\ d.hist = a.hist
    BY OwnerBook
  <2>4. j \in Children(d) /\ d.hist[j].run = b.hist[i].run
    BY <1>4, <2>2, <2>3 DEF Indices, IsChildRecord, Children
  <2>5. d = b /\ j = i
    BY <1>1, <2>4 DEF RefersOnce
  <2> QED BY <2>2, <2>3, <2>5
<1>7. All = {<<b.run, i>>}
  BY <1>5, <1>6
<1>8. Cardinality(All) = 1
  BY <1>7, FS_Singleton
<1> QED BY <1>8

(* A case is attached once, after its record; one in progress is still due.  *)
LEMMA HooksAttachOnce ==
    ASSUME NEW r, NEW id, Sound(r, id)
    PROVE  HooksAreAttachedOnce(r)
<1>1. ASSUME NEW a \in Owners(r), NEW i \in DOMAIN a.hist, a.hist[i].kind = "hook"
      PROVE  /\ \E k \in Indices(a.hist, IsSource) : k < i /\ a.hist[k].entry = a.hist[i].entry
             /\ \A j \in DOMAIN a.hist : a.hist[j].kind = "hook" /\ i # j =>
                   <<a.hist[j].hook, a.hist[j].entry>> # <<a.hist[i].hook, a.hist[i].entry>>
  <2>1. PICK b \in Books(r) : b.hist = a.hist /\ WellKept(b)
    BY OwnerBook
  <2>2. PICK k \in SourceAt(b.hist, b.hist[i].entry) : k < i
    BY <1>1, <2>1 DEF WellKept, Ordered, HooksFollow
  <2>3. k \in Indices(a.hist, IsSource) /\ k < i /\ a.hist[k].entry = a.hist[i].entry
    BY <2>1, <2>2 DEF SourceAt, Indices, IsSource
  <2>4. ASSUME NEW j \in DOMAIN a.hist, a.hist[j].kind = "hook", i # j,
               <<a.hist[j].hook, a.hist[j].entry>> = <<a.hist[i].hook, a.hist[i].entry>>
        PROVE  FALSE
    <3>1. a.hist[j].hook = a.hist[i].hook /\ a.hist[j].entry = a.hist[i].entry
      BY <2>4
    <3> QED BY <1>1, <2>1, <2>4, <3>1 DEF WellKept, Ordered, HooksOnce
  <2> QED BY <2>3, <2>4
<1>2. ASSUME NEW n \in DOMAIN r.path, n # 1
      PROVE  /\ r.path[n].held = "hook" => /\ r.path[n].hook \notin CompletedHooks(r.path[n - 1])
                                           /\ IsRecorded(r.path[n - 1])
             /\ r.path[n].held = "call" => Kind[r.path[n - 1].evo] = "sub"
                                           /\ ~IsRecorded(r.path[n - 1])
  <2> DEFINE f == r.path[n - 1]
             g == r.path[n]
  <2>1. n - 1 \in DOMAIN r.path /\ Waits(f, g)
    <3>1. n \in 1..Len(r.path) /\ Len(r.path) \in Nat /\ DOMAIN r.path = 1..Len(r.path)
      BY PathFrame DEF Sound, Live, Reckoning
    <3> QED BY <1>2, <3>1 DEF Sound, Linked
  <2>2. f \in Frame /\ WellKept(Book(f))
    BY <2>1, PathFrame
  <2> HIDE DEF f, g
  <2>3. ASSUME g.held = "hook" PROVE g.hook \notin CompletedHooks(f) /\ IsRecorded(f)
    <3>1. PICK i \in SourceAt(f.hist, f.entry) : g.hook \in Due(f.hist[i])
      BY <2>1, <2>3 DEF Waits
    <3>2. ~IsOpen(f.hist[i])
      BY <2>1 DEF Waits, SourceAt
    <3>3. IsRecorded(f)
      BY <2>2, <3>2, FrameIsRecorded
    <3> QED BY <2>1, <2>3, <3>3 DEF Waits, CompletedHooks, Attached
  <2>4. ASSUME g.held = "call" PROVE Kind[f.evo] = "sub" /\ ~IsRecorded(f)
    BY <2>1, <2>4, FrameIsUnrecorded DEF Waits
  <2> QED BY <2>3, <2>4 DEF f, g
<1> QED BY <1>1, <1>2 DEF HooksAreAttachedOnce, Positions, Indices

(* The recovery is the leaf's, and no record of its machine is there yet.    *)
LEMMA EffectIsLeafs ==
    ASSUME NEW r, NEW id, Sound(r, id)
    PROVE  EffectBelongsToLeaf(r)
<1> DEFINE leaf == DeepestActiveLeaf(r)
<1>1. /\ leaf \in Frame /\ WellKept(Book(leaf)) /\ r.effect \in Effect /\ EffectFits(r)
      /\ leaf.evo \in Evolutions
  BY LeafBook, FrameBook DEF Sound, InOrder, Live, Reckoning
<1>2. ASSUME r.effect.disposition = "none", Kind[leaf.evo] \in Effectful
      PROVE  IsRecorded(leaf)
  <2>1. PICK i \in SourceAt(leaf.hist, leaf.entry) : TRUE
    BY <1>1, <1>2 DEF EffectFits
  <2>2. leaf.hist[i].kind = "machine"
    BY <1>1, <1>2, FrameIsRecorded DEF SourceKind, Effectful, Modes
  <2>3. ~IsOpen(leaf.hist[i])
    BY <2>2 DEF IsOpen
  <2> QED BY <1>1, <2>3, FrameIsRecorded
<1>3. ASSUME r.effect.disposition # "none"
      PROVE  /\ r.effect.id = leaf.entry /\ r.effect.mode = Kind[leaf.evo]
             /\ r.effect.mode \in Effectful
             /\ (r.effect.disposition = "completed") = (r.effect.result # Nil)
             /\ \A a \in Owners(r) : \A i \in Indices(a.hist, IsMachine) :
                   a.hist[i].entry # r.effect.id
  <2>1. /\ r.effect.id = leaf.entry /\ r.effect.mode = Kind[leaf.evo]
        /\ r.effect.mode \in Effectful /\ SourceAt(leaf.hist, leaf.entry) = {}
        /\ (r.effect.disposition # "completed" => r.effect.result = Nil)
    BY <1>1, <1>3 DEF EffectFits
  <2>2. r.effect.disposition = "completed" => r.effect.result # Nil
    BY <1>1 DEF Effect
  <2>3. ASSUME NEW a \in Owners(r), NEW i \in DOMAIN a.hist, a.hist[i].kind = "machine"
        PROVE  a.hist[i].entry # r.effect.id
    <3>1. PICK b \in Books(r) : b.hist = a.hist
      BY OwnerBook
    <3> QED BY <2>1, <2>3, <3>1, LeafUnwritten
  <2> QED BY <2>1, <2>2, <2>3 DEF Indices, IsMachine
<1> HIDE DEF leaf
<1> QED BY <1>2, <1>3 DEF EffectBelongsToLeaf, leaf

(* A Message is answered, or it is the leaf's and its Turn is of this        *)
(* revision.                                                                 *)
LEMMA MessageIsCurrent ==
    ASSUME NEW r, NEW id, Sound(r, id)
    PROVE  OpenMessageIsCurrent(r)
<1> SUFFICES ASSUME NEW n \in DOMAIN r.path, Kind[r.path[n].evo] = "llm", ~IsRecorded(r.path[n])
             PROVE  /\ n = Len(r.path)
                    /\ \E rec \in SourceRecords(r.path[n]) : IsOpen(rec) /\ rec.rev = r.rev
  BY DEF OpenMessageIsCurrent, Positions
<1> DEFINE f == r.path[n]
<1>1. /\ f \in Frame /\ WellKept(Book(f)) /\ Book(f).hist = f.hist /\ Book(f).at = f.entry
      /\ Book(f).evo = f.evo /\ f.entry # 0
      /\ (n # Len(r.path) => Waits(f, r.path[n + 1]))
  BY PathFrame, FrameBook
<1>2. PICK i \in SourceAt(f.hist, f.entry) : TRUE
  BY <1>1 DEF WellKept, TurnIsOpened
<1>3. SourceRecords(f) = {f.hist[i]} /\ IsOpen(f.hist[i])
  BY <1>1, FrameIsRecorded
<1>4. n = Len(r.path)
  BY <1>1, <1>3 DEF Waits, SourceAt
<1>5. f.hist[i].rev = r.rev
  BY <1>3, <1>4 DEF Sound, TurnIsCurrent, DeepestActiveLeaf, SourceAt
<1> QED BY <1>3, <1>4, <1>5

(* The validators hold of every published Reckoning.                         *)
THEOREM AlwaysPublishable == Spec => []Publishable
<1>1. IInv2 => Publishable
  <2> SUFFICES ASSUME Sound(disk, nextId), FaultNamesLeaf(disk) PROVE Publishable
    BY DEF IInv2, SoundInv
  <2>1. ASSUME NEW a \in Owners(disk) PROVE HistoryIsOrdered(a.hist)
    <3>1. PICK b \in Books(disk) : b.hist = a.hist /\ WellKept(b)
      BY OwnerBook
    <3> QED BY <3>1 DEF WellKept, Ordered, OpenIsCurrent, DoneIsLast, HistoryIsOrdered
  <2>2. Len(disk.path) <= MaxDepth
    BY DEF Sound
  <2> QED BY <2>1, <2>2, TerminalsFit, RunsDiffer, EntrancesDiffer, EntrancesAgree, NoCycle,
          ArchiveHasOneReference, HooksAttachOnce, EffectIsLeafs, MessageIsCurrent DEF Publishable
<1> QED BY <1>1, Inductive2, PTL

-----------------------------------------------------------------------------
\* What is written stays written, and the revision counts it.
CountInv == /\ IsFiniteSet(Closed(disk))
            /\ \/ disk.rev = Cardinality(Closed(disk))
               \/ disk.fault.category # "none" /\ disk.rev + 1 = Cardinality(Closed(disk))
\* The places of what is written.
Places(S) == {<<w[1], w[2]>> : w \in Written(S)}

LEMMA ClosedIsWritten ==
    ASSUME NEW r, NEW id, Sound(r, id)
    PROVE  Closed(r) = Places(Books(r))
<1>1. ASSUME NEW x \in Closed(r) PROVE x \in Places(Books(r))
  <2>1. PICK a \in Owners(r) : x \in {<<a.run, i>> : i \in {j \in DOMAIN a.hist : ~IsOpen(a.hist[j])}}
    BY DEF Closed
  <2>2. PICK i \in DOMAIN a.hist : ~IsOpen(a.hist[i]) /\ x = <<a.run, i>>
    BY <2>1
  <2>3. PICK b \in Books(r) : b.run = a.run /\ b.hist = a.hist
    BY OwnerBook
  <2> DEFINE w == <<b.run, i, b.hist[i]>>
  <2>4. w \in Written(Books(r)) /\ <<w[1], w[2]>> = x
    BY <2>2, <2>3, WritesRecord
  <2> HIDE DEF w
  <2> QED BY <2>4 DEF Places
<1>2. ASSUME NEW x \in Places(Books(r)) PROVE x \in Closed(r)
  <2>1. PICK w \in Written(Books(r)) : x = <<w[1], w[2]>>
    BY DEF Places
  <2>2. PICK b \in Books(r) : w \in Entries(b)
    BY DEF Written
  <2>3. PICK i \in DOMAIN b.hist : ~IsOpen(b.hist[i]) /\ w = <<b.run, i, b.hist[i]>>
    BY <2>2 DEF Entries
  <2> DEFINE a == [run |-> b.run, hist |-> b.hist]
  <2>4. a \in Owners(r) /\ a.run = b.run /\ a.hist = b.hist
    BY BookOwner
  <2>5. x = <<a.run, i>> /\ i \in {j \in DOMAIN a.hist : ~IsOpen(a.hist[j])}
    BY <2>1, <2>3, <2>4
  <2> HIDE DEF a
  <2>6. x \in {<<a.run, k>> : k \in {j \in DOMAIN a.hist : ~IsOpen(a.hist[j])}}
    BY <2>5
  <2> QED BY <2>4, <2>6 DEF Closed
<1> QED BY <1>1, <1>2

(* One more record is written at a place that was free.                      *)
LEMMA OneMorePlace ==
    ASSUME NEW S, NEW T, NEW rec, OneBook(S), OneMore(S, T, rec)
    PROVE  \E x : x \notin Places(S) /\ Places(T) = Places(S) \cup {x}
<1>1. PICK b \in S, i \in Nat :
         /\ i \notin {j \in DOMAIN b.hist : ~IsOpen(b.hist[j])}
         /\ Written(T) = Written(S) \cup {<<b.run, i, rec>>}
  BY DEF OneMore
<1> DEFINE x == <<b.run, i>>
           v == <<b.run, i, rec>>
<1>2. ASSUME x \in Places(S) PROVE FALSE
  <2>1. PICK w \in Written(S) : x = <<w[1], w[2]>>
    BY <1>2 DEF Places
  <2>2. PICK a \in S : \E j \in DOMAIN a.hist : ~IsOpen(a.hist[j]) /\ w = <<a.run, j, a.hist[j]>>
    BY DEF Written, Entries
  <2>3. PICK j \in DOMAIN a.hist : ~IsOpen(a.hist[j]) /\ w = <<a.run, j, a.hist[j]>>
    BY <2>2
  <2>4. a.run = b.run /\ j = i
    BY <2>1, <2>3
  <2>5. a = b
    BY <2>4 DEF OneBook
  <2> QED BY <1>1, <2>3, <2>4, <2>5
<1>3. <<v[1], v[2]>> = x
  OBVIOUS
<1>4. Places(T) = Places(S) \cup {x}
  <2>1. Written(T) = Written(S) \cup {v}
    BY <1>1
  <2> HIDE DEF v, x
  <2> QED BY <1>3, <2>1 DEF Places
<1> HIDE DEF x
<1> QED BY <1>2, <1>4

(* Every run is continued by each step, and archived runs stay.              *)
LEMMA StepGrows ==
    ASSUME IInv, SoundInv, HonestInv, [Next]_vars
    PROVE  Grown(Books(disk), Books(disk)') /\ disk.completed \subseteq disk'.completed
<1>1. ASSUME Books(disk)' = Books(disk), disk'.completed = disk.completed
      PROVE  Grown(Books(disk), Books(disk)') /\ disk.completed \subseteq disk'.completed
  <2>1. Books(disk) \in SUBSET BookType
    BY LeafBook DEF SoundInv
  <2>2. Books(disk) \subseteq Books(disk)'
    BY <1>1
  <2> QED BY <1>1, <2>1, <2>2, GrownItself
<1>2. CASE Publication
  BY <1>2, PublicationParts
<1>3. CASE Idling
  BY <1>1, <1>3 DEF Idling
<1>4. ASSUME NEW p \in Procs, StartEffect(p) \/ CompleteEffect(p)
      PROVE  Books(disk)' = Books(disk) /\ disk'.completed = disk.completed
  BY <1>4, StartEffectIs, CompleteEffectIs
<1>5. ASSUME NEW p \in Procs, AbortInCallback(p)
      PROVE  Books(disk)' = Books(disk) /\ disk'.completed = disk.completed
  BY <1>5 DEF AbortInCallback
<1>6. ASSUME NEW p \in Procs, NEW out \in Outcomes \cup {Nil}, GetStatus(p, out)
      PROVE  Books(disk)' = Books(disk) /\ disk'.completed = disk.completed
  BY <1>6 DEF GetStatus
<1>7. ASSUME NEW p \in Procs, NEW out \in Outcomes, RunEffect(p, out)
      PROVE  Grown(Books(disk), Books(disk)') /\ disk.completed \subseteq disk'.completed
  <2>1. CASE Returned(p, out)
    BY <1>1, <2>1 DEF Returned
  <2>2. CASE Failed
    BY <2>2 DEF Failed
  <2> QED BY <1>7, <2>1, <2>2, RunEffectIs
<1> QED BY <1>1, <1>2, <1>3, <1>4, <1>5, <1>6, <1>7, NextIsStep DEF Steps

(* A step that writes nothing and keeps revision and fault, or publishes a   *)
(* fault over an unblocked Reckoning, keeps the count.                       *)
LEMMA CountStays ==
    ASSUME SoundInv, SoundInv', CountInv, Written(Books(disk)') = Written(Books(disk)),
           disk'.rev = disk.rev,
           disk'.fault = disk.fault \/ disk.fault.category = "none"
    PROVE  CountInv'
<1>1. Closed(disk)' = Closed(disk)
  <2>1. Closed(disk) = Places(Books(disk))
    BY ClosedIsWritten DEF SoundInv
  <2>2. Closed(disk') = Places(Books(disk'))
    BY ClosedIsWritten DEF SoundInv
  <2> QED BY <2>1, <2>2 DEF Places
<1> QED BY <1>1 DEF CountInv

LEMMA AcceptingCounts ==
    ASSUME IInv, SoundInv, SoundInv', CountInv, ~Blocked(disk), NEW rec \in Record,
           Accepting(disk', rec)
    PROVE  CountInv'
<1>1. Closed(disk) = Places(Books(disk)) /\ Closed(disk)' = Places(Books(disk'))
  <2>1. Closed(disk) = Places(Books(disk))
    BY ClosedIsWritten DEF SoundInv
  <2>2. Closed(disk') = Places(Books(disk'))
    BY ClosedIsWritten DEF SoundInv
  <2> QED BY <2>1, <2>2
<1>2. OneMore(Books(disk), Books(disk'), rec) /\ OneBook(Books(disk))
  BY DEF Accepting, SoundInv, Sound, InOrder
<1>3. PICK x : x \notin Places(Books(disk)) /\ Places(Books(disk')) = Places(Books(disk)) \cup {x}
  BY <1>2, OneMorePlace
<1>4. /\ IsFiniteSet(Closed(disk)') /\ disk.rev = Cardinality(Closed(disk))
      /\ Cardinality(Closed(disk)') = Cardinality(Closed(disk)) + 1
  BY <1>1, <1>3, FS_AddElement DEF CountInv, Blocked
<1> QED BY <1>4 DEF Accepting, CountInv

LEMMA NextCounts ==
    ASSUME IInv2, CountInv, [Next]_vars
    PROVE  CountInv'
<1>1. IInv /\ SoundInv /\ HonestInv /\ SoundInv'
  BY NextSound DEF IInv2
<1>2. CASE Publication
  <2>1. CASE Quietly(disk')
    <3>1. disk.fault.category = "none"
      BY <1>2, PublicationParts DEF Blocked
    <3> QED BY <1>1, <2>1, <3>1, CountStays DEF Quietly
  <2>2. ASSUME NEW rec \in Record, Accepting(disk', rec) PROVE CountInv'
    BY <1>1, <1>2, <2>2, PublicationParts, AcceptingCounts
  <2> QED BY <1>2, <2>1, <2>2, PublicationParts
<1>3. ASSUME UNCHANGED disk PROVE CountInv'
  BY <1>3 DEF CountInv
<1>4. ASSUME NEW p \in Procs, StartEffect(p) \/ CompleteEffect(p) PROVE CountInv'
  <2>1. Books(disk)' = Books(disk) /\ disk'.rev = disk.rev /\ disk'.fault = disk.fault
    BY <1>1, <1>4, StartEffectIs, CompleteEffectIs
  <2> QED BY <1>1, <2>1, CountStays
<1>5. ASSUME NEW p \in Procs, NEW out \in Outcomes, RunEffect(p, out) PROVE CountInv'
  <2>1. CASE Returned(p, out)
    BY <1>3, <2>1 DEF Returned
  <2>2. CASE Failed
    <3>1. disk.fault.category = "none"
      BY <1>1, <1>5, RunEffectIs, UnderWay
    <3> QED BY <1>1, <2>2, <3>1, CountStays DEF Failed
  <2> QED BY <1>1, <1>5, <2>1, <2>2, RunEffectIs
<1>6. ASSUME NEW p \in Procs, AbortInCallback(p) PROVE UNCHANGED disk
  BY <1>6 DEF AbortInCallback
<1>7. ASSUME NEW p \in Procs, NEW out \in Outcomes \cup {Nil}, GetStatus(p, out)
      PROVE  UNCHANGED disk
  BY <1>7 DEF GetStatus
<1> QED BY <1>1, <1>2, <1>3, <1>4, <1>5, <1>6, <1>7, NextIsStep DEF Steps, Idling

LEMMA InitCounts == Init => CountInv
<1> SUFFICES ASSUME Init PROVE CountInv
  OBVIOUS
<1>1. Sound(disk, 2) /\ Written(Books(disk)) = {} /\ disk.rev = 0
  BY CreatedSound, StartAssumption DEF Init
<1>2. Closed(disk) = {}
  BY <1>1, ClosedIsWritten DEF Places
<1> QED BY <1>1, <1>2, FS_EmptySet DEF CountInv

(* No step drops, reorders or rewrites a record, but for the answer of an    *)
(* open Turn, and the revision counts the accepted ones.                     *)
THEOREM HistoryOnlyGrows == Spec => HistoryGrows
<1>1. IInv2 /\ CountInv /\ [Next]_vars => CountInv'
  BY NextCounts
<1>2. IInv2 /\ CountInv /\ CountInv' /\ [Next]_vars =>
        [/\ \A a \in Owners(disk) : \E b \in Owners(disk)' : Extends(a, b)
         /\ disk.completed \subseteq disk'.completed
         /\ \/ disk'.rev = Cardinality(Closed(disk)')
            \/ disk'.fault.category # "none" /\ disk'.rev + 1 = Cardinality(Closed(disk)')]_vars
  <2> SUFFICES ASSUME IInv, SoundInv, HonestInv, SoundInv', CountInv', [Next]_vars
               PROVE  /\ \A a \in Owners(disk) : \E b \in Owners(disk)' : Extends(a, b)
                      /\ disk.completed \subseteq disk'.completed
                      /\ \/ disk'.rev = Cardinality(Closed(disk)')
                         \/ disk'.fault.category # "none"
                            /\ disk'.rev + 1 = Cardinality(Closed(disk)')
    BY NextSound DEF IInv2
  <2>1. Grown(Books(disk), Books(disk)') /\ disk.completed \subseteq disk'.completed
    BY StepGrows
  <2>2. ASSUME NEW a \in Owners(disk) PROVE \E b \in Owners(disk)' : Extends(a, b)
    <3>1. PICK x \in Books(disk) : x.run = a.run /\ x.hist = a.hist
      BY OwnerBook DEF SoundInv
    <3>2. PICK y \in Books(disk') : Continues(x, y)
      BY <2>1 DEF Grown
    <3> DEFINE b == [run |-> y.run, hist |-> y.hist]
    <3>3. b \in Owners(disk') /\ b.run = y.run /\ b.hist = y.hist
      BY BookOwner DEF SoundInv
    <3> HIDE DEF b
    <3>4. Extends(a, b)
      BY <3>1, <3>2, <3>3 DEF Continues, Extends
    <3> QED BY <3>3, <3>4
  <2> QED BY <2>1, <2>2 DEF CountInv
<1> QED BY <1>1, <1>2, InitCounts, Inductive2, PTL DEF Spec, HistoryGrows

-----------------------------------------------------------------------------
\* The release of a Voyage.

\* The root's Terminal is settled with every hook returned, none has a charter to
\* be asked for again, and no machine runs.
Resting == /\ Finished(disk) /\ Unasked(disk) /\ ~Blocked(disk)
           /\ \A p \in Procs : pc[p] \notin {"run", "ran"}
RestInv == (\E p \in Procs : releasing[p] = "flat") \/ released = "flat" => Resting

(* What a finished Reckoning's leaf is.                                      *)
LEMMA RestingFacts ==
    ASSUME IInv, SoundInv, Resting
    PROVE  /\ Depth(disk) = 0 /\ IsRecorded(Leaf) /\ disk.effect.disposition = "none"
           /\ Kind[Leaf.evo] = "terminal"
           /\ \A rec \in RecordedSources(Leaf) : \A id : ContinueTransition(disk, disk, id, rec.out) = {disk}
<1>1. Leaf = disk.path[1] /\ Depth(disk) = 0
  <2>1. disk.path \in Seq(Frame) /\ disk.path # <<>>
    BY LeafFacts DEF Live, Reckoning
  <2>2. Len(disk.path) = 1
    BY <2>1 DEF Resting, Finished, Depth
  <2> QED BY <2>2 DEF Leaf, DeepestActiveLeaf, Depth
<1>2. PICK rec \in RecordedSources(Leaf) : rec.kind = "done"
  BY <1>1 DEF Resting, Finished
<1>3. Settles(disk, rec)
  BY <1>2, SettlesIsRecorded DEF SoundInv, Leaf
<1>4. /\ rec.evo = Leaf.evo /\ rec.kind = SourceKind(rec.evo)
      /\ disk.effect.disposition = "none" /\ Leaf.evo \in Evolutions
  BY <1>3, SettledLeaf, LeafFacts DEF SoundInv, Leaf
<1>5. Kind[Leaf.evo] = "terminal"
  BY <1>2, <1>4, ProgramAssumption DEF SourceKind, Kinds, Modes
<1>6. ASSUME NEW x \in RecordedSources(Leaf), NEW id
      PROVE  ContinueTransition(disk, disk, id, x.out) = {disk}
  <2>1. Settles(disk, x)
    BY <1>6, SettlesIsRecorded DEF SoundInv, Leaf
  <2>2. x.evo = Leaf.evo
    BY <2>1, SettledLeaf DEF SoundInv, Leaf
  <2> DEFINE t == SelectTransition(Leaf.evo, x.out)
  <2>3. PendingHooks(Leaf, t) = {}
    BY <1>1, <1>6, <2>2 DEF Resting, Unasked
  <2>4. t.target = Nil
    BY <1>5 DEF SelectTransition
  <2> HIDE DEF t
  <2>5. SelectedHooks(Leaf, t) = {} /\ CharterFaults(disk, disk, Leaf, t) = {}
    BY <2>3 DEF SelectedHooks, CharterFaults
  <2>6. AttachOrEnter(disk, disk, id, Leaf, t) = {disk}
    BY <2>4, <2>5 DEF AttachOrEnter
  <2> QED BY <1>5, <2>5, <2>6 DEF ContinueTransition, Leaf, t
<1> QED BY <1>1, <1>2, <1>4, <1>5, <1>6 DEF IsRecorded

(* Nothing moves a finished Voyage.                                          *)
LEMMA RestingStays ==
    ASSUME IInv, SoundInv, Resting, [Next]_vars
    PROVE  Resting'
<1>1. /\ Depth(disk) = 0 /\ IsRecorded(Leaf) /\ disk.effect.disposition = "none"
      /\ Kind[Leaf.evo] = "terminal"
      /\ \A rec \in RecordedSources(Leaf) : \A id : ContinueTransition(disk, disk, id, rec.out) = {disk}
  BY RestingFacts
<1>2. /\ \A p \in Procs : pc[p] \notin {"run", "ran"}
      /\ pc \in [Procs -> {"idle", "loop", "run", "ran"}]
  BY DEF Resting, IInv, TypeInv, TypeOK
<1>3. ASSUME disk' = disk, \A p \in Procs : pc'[p] \notin {"run", "ran"}
      PROVE  Resting'
  BY <1>3 DEF Resting
<1>4. ASSUME NEW p \in Procs, disk' = disk, End(p) PROVE Resting'
  BY <1>2, <1>3, <1>4 DEF End
<1>5. CASE UNCHANGED vars
  BY <1>2, <1>3, <1>5 DEF vars
<1>6. ASSUME NEW p \in Procs, Call(p) PROVE Resting'
  <2>1. ASSUME NEW out \in Outcomes \cup {Nil}, GetStatus(p, out) PROVE FALSE
    BY <1>1, <2>1 DEF GetStatus
  <2>2. ASSUME NEW kind \in {"advance", "step"}, Respond(p, kind) PROVE FALSE
    BY <1>1, <2>2 DEF Respond
  <2>3. ASSUME NEW kind \in {"advance", "step"}, NEW out \in Outcomes, SupplyResult(p, kind, out)
        PROVE  FALSE
    BY <1>1, <2>3 DEF SupplyResult
  <2>4. ~RunInstruction(p)
    BY <1>1 DEF RunInstruction
  <2>5. ASSUME NEW kind \in {"advance", "step"}, Advance(p, kind) PROVE Resting'
    BY <1>2, <1>3, <2>5 DEF Advance
  <2> QED BY <1>6, <2>1, <2>2, <2>3, <2>4, <2>5 DEF Call
<1>7. ASSUME NEW p \in Procs, Work(p) PROVE Resting'
  <2>1. CASE ContinueRecorded(p)
    <3>1. PICK rec \in RecordedSources(Leaf) :
             \/ \E s \in ContinueTransition(disk, disk, nextId, rec.out) \ {disk} : Publish(p, s, TRUE)
             \/ Depth(disk) > 0
             \/ End(p) /\ UNCHANGED disk
      BY <2>1 DEF ContinueRecorded
    <3>2. ContinueTransition(disk, disk, nextId, rec.out) \ {disk} = {} /\ ~(Depth(disk) > 0)
      <4>1. ContinueTransition(disk, disk, nextId, rec.out) = {disk}
        BY <1>1
      <4> QED BY <1>1, <4>1
    <3>3. End(p) /\ UNCHANGED disk
      BY <3>1, <3>2
    <3> QED BY <1>4, <3>3
  <2>2. CASE WaitForResponse(p)
    BY <1>1, <2>2 DEF WaitForResponse
  <2>3. ~StartEffect(p) /\ ~AcceptEffect(p) /\ ~EnterSubRutter(p)
    BY <1>1 DEF StartEffect, MayStart, AcceptEffect, EnterSubRutter
  <2>4. ~CompleteEffect(p)
    BY <1>2 DEF CompleteEffect
  <2>5. ASSUME NEW out \in Outcomes, RunPure(p, out) \/ RunEffect(p, out) \/ Settle(p, out)
        PROVE  FALSE
    BY <1>1, <1>2, <2>5 DEF RunPure, RunEffect, Settle
  <2> QED BY <1>7, <2>1, <2>2, <2>3, <2>4, <2>5 DEF Work
<1>8. ASSUME NEW p \in Procs, Abort(p) PROVE Resting'
  BY <1>4, <1>8 DEF Abort
<1>9. ASSUME NEW p \in Procs, AbortInCallback(p) PROVE FALSE
  BY <1>2, <1>9 DEF AbortInCallback
<1> QED BY <1>5, <1>6, <1>7, <1>8, <1>9 DEF Next

(* A Voyage that is released with its directory deleted is still a Voyage:   *)
(* each of its steps is one of RutterVoyage's or leaves it alone.            *)
LEMMA ReleaseIsVoyage == [RNext]_rvars => [Next]_vars
<1> SUFFICES ASSUME RNext PROVE [Next]_vars
  BY DEF rvars
<1>1. PICK p \in Procs :
        \/ CheckRelease(p) \/ ForceRelease(p) \/ Delete(p) \/ DieReleasing(p)
        \/ WhileKept(Free(p) /\ Call(p)) \/ WhileKept(Work(p))
        \/ Beside(InMemory(p) \/ Abort(p) \/ AbortInCallback(p))
  BY DEF RNext
<1>2. CASE CheckRelease(p) \/ ForceRelease(p) \/ Delete(p) \/ DieReleasing(p)
  BY <1>2 DEF CheckRelease, ForceRelease, Delete, DieReleasing
<1>3. CASE \/ WhileKept(Free(p) /\ Call(p)) \/ WhileKept(Work(p))
           \/ Beside(InMemory(p) \/ Abort(p) \/ AbortInCallback(p))
  <2>1. Call(p) \/ Work(p) \/ Abort(p) \/ AbortInCallback(p)
    BY <1>3 DEF WhileKept, Beside, InMemory, Work
  <2> QED BY <2>1 DEF Next
<1> QED BY <1>1, <1>2, <1>3

THEOREM ReleaseRefines == RSpec => Spec
<1>1. RInit => Init
  BY DEF RInit
<1> QED BY <1>1, ReleaseIsVoyage, PTL DEF RSpec, Spec

\* Which processes are about to release, and how.
ReleaseType == DOMAIN releasing = Procs
LEMMA NextRests ==
    ASSUME IInv, SoundInv, ReleaseType, RestInv, [RNext]_rvars
    PROVE  ReleaseType' /\ RestInv'
<1>1. Resting => Resting'
  BY RestingStays, ReleaseIsVoyage
<1>2. CASE UNCHANGED <<released, releasing>>
  BY <1>1, <1>2 DEF RestInv, ReleaseType
<1>3. ASSUME NEW p \in Procs, CheckRelease(p) PROVE ReleaseType' /\ RestInv'
  <2>1. /\ releasing' = [releasing EXCEPT ![p] = Scope(disk)] /\ released' = released
        /\ lock = Nil /\ Condition(disk) = "terminal"
    BY <1>3 DEF CheckRelease
  <2>2. ASSUME Scope(disk) = "flat" PROVE Resting
    <3>1. Depth(disk) = 0 /\ Unasked(disk)
      BY <2>2 DEF Scope
    <3>9. HooksReturned(disk)
      BY <3>1 DEF Unasked, HooksReturned, SelectedHooks
    <3>2. ~Blocked(disk) /\ HasTerminal(Leaf)
      BY <2>1 DEF Condition, Blocked, Leaf
    <3>3. \A q \in Procs : pc[q] = "idle"
      BY <2>1, StartAssumption DEF IInv, StartInv, Exclusive
    <3>4. Leaf = disk.path[1]
      <4>1. disk.path \in Seq(Frame) /\ disk.path # <<>>
        BY LeafFacts DEF Live, Reckoning
      <4> QED BY <3>1, <4>1 DEF Leaf, DeepestActiveLeaf, Depth
    <3>5. PICK i \in DOMAIN Leaf.hist : Leaf.hist[i].kind = "done" /\ Leaf.hist[i].entry = Leaf.entry
      BY <3>2 DEF HasTerminal
    <3>6. Settles(disk, Leaf.hist[i])
      BY <3>5 DEF Settles, SourceAt, IsOpen, Leaf
    <3>7. Leaf.hist[i] \in RecordedSources(Leaf)
      BY <3>6, SettlesIsRecorded DEF SoundInv, Leaf
    <3>8. Finished(disk)
      BY <3>1, <3>4, <3>5, <3>7, <3>9 DEF Finished
    <3> QED BY <3>1, <3>2, <3>3, <3>8 DEF Resting
  <2>3. ReleaseType'
    BY <2>1 DEF ReleaseType
  <2>4. ASSUME NEW q \in Procs, releasing'[q] = "flat" PROVE Resting
    <3>1. releasing[q] = "flat" \/ Scope(disk) = "flat"
      BY <2>1, <2>4 DEF ReleaseType
    <3> QED BY <2>2, <3>1 DEF RestInv
  <2> QED BY <1>1, <2>1, <2>3, <2>4 DEF RestInv
<1>4. ASSUME NEW p \in Procs, ForceRelease(p) \/ DieReleasing(p) PROVE ReleaseType' /\ RestInv'
  <2>1. /\ released' = released
        /\ \A q \in Procs : releasing'[q] = "flat" => releasing[q] = "flat"
        /\ DOMAIN releasing' = Procs
    BY <1>4 DEF ForceRelease, DieReleasing, ReleaseType
  <2> QED BY <1>1, <2>1 DEF RestInv, ReleaseType
<1>5. ASSUME NEW p \in Procs, Delete(p) PROVE ReleaseType' /\ RestInv'
  BY <1>1, <1>5 DEF Delete, RestInv, ReleaseType
<1>6. ASSUME NEW p \in Procs,
             \/ WhileKept(Free(p) /\ Call(p)) \/ WhileKept(Work(p))
             \/ Beside(InMemory(p) \/ Abort(p) \/ AbortInCallback(p))
      PROVE  UNCHANGED <<released, releasing>>
  BY <1>6 DEF WhileKept, Beside
<1> QED BY <1>2, <1>3, <1>4, <1>5, <1>6 DEF RNext, rvars

(* A Voyage released after a check that saw no nested run had nothing left   *)
(* to do when its directory went, whatever other processes did in between.   *)
THEOREM ReleasesAtRest == RSpec => []ReleasedAtRest
<1>1. RInit => ReleaseType /\ RestInv
  BY DEF RInit, ReleaseType, RestInv
<1>2. IInv2 /\ ReleaseType /\ RestInv /\ [RNext]_rvars => ReleaseType' /\ RestInv'
  BY NextRests DEF IInv2
<1>3. RestInv => ReleasedAtRest
  BY DEF RestInv, Resting, ReleasedAtRest
<1> QED BY <1>1, <1>2, <1>3, ReleaseRefines, Inductive2, PTL DEF RSpec

-----------------------------------------------------------------------------
\* The ledger of effectful machines, read off a Reckoning: the accepted machine
\* records and the recovery.
Taken(r) == {rec \in {w[3] : w \in Written(Books(r))} :
                rec.kind = "machine" /\ Kind[rec.evo] \in Effectful}
TakenAt(r, i) == {rec \in Taken(r) : rec.entry = i}
Recovers(r, i) == r.effect.disposition # "none" /\ r.effect.id = i
StageOf(r, i) == IF TakenAt(r, i) # {} THEN "accepted"
                 ELSE IF Recovers(r, i) THEN r.effect.disposition ELSE "absent"
SafeOf(r, i) == /\ Recovers(r, i) => r.effect.mode = "repeat-safe"
                /\ \A rec \in TakenAt(r, i) : Kind[rec.evo] = "repeat-safe"
Picked(S) == CHOOSE rec \in S : TRUE
ResultOf(r, i) == IF TakenAt(r, i) # {} THEN Picked(TakenAt(r, i)).out
                  ELSE IF Recovers(r, i) THEN r.effect.result ELSE Nil

(* The ledger's state is this reading of the published Reckoning, before and *)
(* after a step.                                                             *)
LEMMA TakenIsAccepted ==
    ASSUME NEW r, NEW id, Sound(r, id)
    PROVE  {rec \in UNION {{a.hist[k] : k \in DOMAIN a.hist} : a \in Owners(r)} :
               rec.kind = "machine" /\ Kind[rec.evo] \in Effectful} = Taken(r)
<1> DEFINE All == UNION {{a.hist[k] : k \in DOMAIN a.hist} : a \in Owners(r)}
<1>1. ASSUME NEW rec \in All, rec.kind = "machine" PROVE rec \in {w[3] : w \in Written(Books(r))}
  <2>1. PICK a \in Owners(r) : rec \in {a.hist[k] : k \in DOMAIN a.hist}
    OBVIOUS
  <2>2. PICK k \in DOMAIN a.hist : rec = a.hist[k]
    BY <2>1
  <2>3. ~IsOpen(a.hist[k])
    BY <1>1, <2>2 DEF IsOpen
  <2>4. \E w \in Written(Books(r)) : w[3] = a.hist[k]
    BY <2>3, OwnerWrites
  <2> QED BY <2>2, <2>4
<1>2. ASSUME NEW rec \in {w[3] : w \in Written(Books(r))} PROVE rec \in All
  <2>1. PICK w \in Written(Books(r)) : rec = w[3]
    OBVIOUS
  <2>2. PICK b \in Books(r) : w[2] \in DOMAIN b.hist /\ w[3] = b.hist[w[2]]
    BY WrittenFacts
  <2> DEFINE a == [run |-> b.run, hist |-> b.hist]
  <2>3. a \in Owners(r) /\ a.hist = b.hist
    BY BookOwner
  <2> HIDE DEF a
  <2>4. rec \in {a.hist[k] : k \in DOMAIN a.hist}
    BY <2>1, <2>2, <2>3
  <2> QED BY <2>3, <2>4
<1> HIDE DEF All
<1>3. {rec \in All : rec.kind = "machine" /\ Kind[rec.evo] \in Effectful} = Taken(r)
  BY <1>1, <1>2 DEF Taken
<1> QED BY <1>3 DEF All

LEMMA LedgerNow ==
    ASSUME SoundInv
    PROVE  /\ LedgerStage = [i \in Ids |-> StageOf(disk, i)]
           /\ LedgerSafe = [i \in Ids |-> SafeOf(disk, i)]
           /\ LedgerResult = [i \in Ids |-> ResultOf(disk, i)]
<1>1. AcceptedMachines = Taken(disk)
  BY TakenIsAccepted DEF SoundInv, AcceptedMachines
<1>2. \A i : MachineRecords(i) = TakenAt(disk, i)
  BY <1>1 DEF MachineRecords, TakenAt
<1>3. LedgerStage = [i \in Ids |-> StageOf(disk, i)]
  BY <1>2 DEF LedgerStage, StageOf, InRecovery, Recovers
<1>4. LedgerSafe = [i \in Ids |-> SafeOf(disk, i)]
  BY <1>2 DEF LedgerSafe, SafeOf, InRecovery, Recovers
<1>5. LedgerResult = [i \in Ids |-> ResultOf(disk, i)]
  <2>1. LedgerResult = [i \in Ids |-> IF MachineRecords(i) # {} THEN Picked(MachineRecords(i)).out
                                        ELSE IF InRecovery(i) THEN disk.effect.result ELSE Nil]
    BY Zenon DEF LedgerResult, Picked
  <2> QED BY <1>2, <2>1 DEF ResultOf, InRecovery, Recovers
<1> QED BY <1>3, <1>4, <1>5

LEMMA LedgerNext ==
    ASSUME SoundInv'
    PROVE  /\ LedgerStage' = [i \in Ids |-> StageOf(disk', i)]
           /\ LedgerSafe' = [i \in Ids |-> SafeOf(disk', i)]
           /\ LedgerResult' = [i \in Ids |-> ResultOf(disk', i)]
<1>1. AcceptedMachines' = Taken(disk')
  BY TakenIsAccepted DEF SoundInv, AcceptedMachines
<1>2. \A i \in Ids : MachineRecords(i)' = TakenAt(disk', i)
  BY <1>1 DEF MachineRecords, TakenAt
<1>3. LedgerStage' = [i \in Ids |-> StageOf(disk', i)]
  BY <1>2 DEF LedgerStage, StageOf, InRecovery, Recovers
<1>4. LedgerSafe' = [i \in Ids |-> SafeOf(disk', i)]
  BY <1>2 DEF LedgerSafe, SafeOf, InRecovery, Recovers
<1>5. LedgerResult' = [i \in Ids |-> ResultOf(disk', i)]
  <2>1. LedgerResult' = [i \in Ids |-> IF MachineRecords(i)' # {} THEN Picked(MachineRecords(i)').out
                                        ELSE IF InRecovery(i)' THEN disk'.effect.result ELSE Nil]
    BY Zenon DEF LedgerResult, Picked
  <2> QED BY <1>2, <2>1 DEF ResultOf, InRecovery, Recovers
<1> QED BY <1>3, <1>4, <1>5

(* A machine is accepted once, under a drawn identifier, and not while it is *)
(* in recovery.                                                              *)
LEMMA TakenFacts ==
    ASSUME NEW r, NEW id, Sound(r, id)
    PROVE  /\ \A x, y \in Taken(r) : x.entry = y.entry => x = y
           /\ \A x \in Taken(r) : x \in Record /\ x.entry < id /\ x.entry \in Ids
           /\ \A x \in Taken(r) : \A i : Recovers(r, i) => x.entry # i
<1>1. ASSUME NEW x \in Taken(r) PROVE x \in Record /\ x.entry < id /\ x.entry \in Ids
  BY WrittenFacts DEF Taken
<1>2. ASSUME NEW x \in Taken(r), NEW y \in Taken(r), x.entry = y.entry PROVE x = y
  <2>1. PICK w \in Written(Books(r)) : w[3] = x
    BY DEF Taken
  <2>2. PICK v \in Written(Books(r)) : v[3] = y
    BY DEF Taken
  <2>3. x.kind = "machine" /\ y.kind = "machine"
    BY DEF Taken
  <2>4. w = v
    BY <1>2, <2>1, <2>2, <2>3, WrittenOnce
  <2> QED BY <2>1, <2>2, <2>4
<1>3. ASSUME NEW x \in Taken(r), NEW i, Recovers(r, i), x.entry = i PROVE FALSE
  <2>1. SourceAt(DeepestActiveLeaf(r).hist, DeepestActiveLeaf(r).entry) = {}
        /\ i = DeepestActiveLeaf(r).entry
    BY <1>3 DEF Recovers, Sound, EffectFits
  <2>2. PICK w \in Written(Books(r)) : w[3] = x /\ x.kind = "machine"
    BY DEF Taken
  <2>3. PICK b \in Books(r) : w[2] \in DOMAIN b.hist /\ w[3] = b.hist[w[2]]
    BY WrittenFacts
  <2> QED BY <1>3, <2>1, <2>2, <2>3, LeafUnwritten
<1> QED BY <1>1, <1>2, <1>3

(* How the reading changes: not at all, by the plan of a fresh machine, by   *)
(* a step of the machine in recovery, and by its acceptance.                 *)
LEMMA ViewStays ==
    ASSUME NEW r, NEW s, Taken(s) = Taken(r),
           \/ s.effect = r.effect
           \/ s.effect.disposition = "none" /\ r.effect.disposition = "none",
           NEW i
    PROVE  StageOf(s, i) = StageOf(r, i) /\ SafeOf(s, i) = SafeOf(r, i)
           /\ ResultOf(s, i) = ResultOf(r, i)
<1>1. TakenAt(s, i) = TakenAt(r, i)
  BY DEF TakenAt
<1> QED BY <1>1 DEF StageOf, SafeOf, ResultOf, Recovers

LEMMA ViewPlans ==
    ASSUME NEW r, NEW id, Sound(r, id), NEW s, Taken(s) = Taken(r),
           r.effect.disposition = "none", s.effect.disposition = "planned",
           s.effect.id = id, s.effect.result = Nil, NEW i
    PROVE  /\ StageOf(r, i) \in {"absent", "accepted"} /\ StageOf(r, id) = "absent"
           /\ StageOf(s, i) = IF i = id THEN "planned" ELSE StageOf(r, i)
           /\ SafeOf(s, i) = IF i = id THEN s.effect.mode = "repeat-safe" ELSE SafeOf(r, i)
           /\ ResultOf(s, i) = ResultOf(r, i)
<1>1. \A j : TakenAt(s, j) = TakenAt(r, j)
  BY DEF TakenAt
<1>2. TakenAt(r, id) = {}
  <2>1. \A x \in Taken(r) : x.entry \in Ids /\ x.entry < id
    BY TakenFacts
  <2> QED BY <2>1 DEF TakenAt, Ids
<1> QED BY <1>1, <1>2 DEF StageOf, SafeOf, ResultOf, Recovers

LEMMA ViewMoves ==
    ASSUME NEW r, NEW id, Sound(r, id), NEW s, Taken(s) = Taken(r),
           r.effect.disposition # "none", s.effect.disposition # "none",
           s.effect.id = r.effect.id, s.effect.mode = r.effect.mode, NEW i
    PROVE  /\ StageOf(r, r.effect.id) = r.effect.disposition
           /\ SafeOf(r, r.effect.id) = (r.effect.mode = "repeat-safe")
           /\ StageOf(s, i) = IF i = r.effect.id THEN s.effect.disposition ELSE StageOf(r, i)
           /\ SafeOf(s, i) = SafeOf(r, i)
           /\ ResultOf(s, i) = IF i = r.effect.id THEN s.effect.result ELSE ResultOf(r, i)
<1>1. \A j : TakenAt(s, j) = TakenAt(r, j)
  BY DEF TakenAt
<1>2. TakenAt(r, r.effect.id) = {}
  BY TakenFacts DEF TakenAt, Recovers
<1> QED BY <1>1, <1>2 DEF StageOf, SafeOf, ResultOf, Recovers

LEMMA ViewAccepts ==
    ASSUME NEW r, NEW id, Sound(r, id), NEW s, NEW rec, Taken(s) = Taken(r) \cup {rec},
           rec.entry = r.effect.id, r.effect.disposition = "completed",
           r.effect.result = rec.out, Kind[rec.evo] = r.effect.mode, NEW i
    PROVE  /\ StageOf(r, r.effect.id) = "completed"
           /\ StageOf(s, r.effect.id) = "accepted"
           /\ (~Recovers(s, r.effect.id) =>
                  SafeOf(s, r.effect.id) = SafeOf(r, r.effect.id))
           /\ ResultOf(s, r.effect.id) = ResultOf(r, r.effect.id)
           /\ (i # r.effect.id => TakenAt(s, i) = TakenAt(r, i) /\ ~Recovers(r, i))
<1>1. TakenAt(r, r.effect.id) = {} /\ Recovers(r, r.effect.id)
  BY TakenFacts DEF TakenAt, Recovers
<1>2. TakenAt(s, r.effect.id) = {rec}
  BY <1>1 DEF TakenAt
<1>3. i # r.effect.id => TakenAt(s, i) = TakenAt(r, i) /\ ~Recovers(r, i)
  BY DEF TakenAt, Recovers
<1>4. Picked({rec}) = rec
  BY DEF Picked
<1>5. ResultOf(s, r.effect.id) = ResultOf(r, r.effect.id)
  BY <1>1, <1>2, <1>4 DEF ResultOf
<1>6. ~Recovers(s, r.effect.id) => SafeOf(s, r.effect.id) = SafeOf(r, r.effect.id)
  BY <1>1, <1>2 DEF SafeOf
<1> QED BY <1>1, <1>2, <1>3, <1>5, <1>6 DEF StageOf

\* A function on Ids changed at one place.
LEMMA ChangedAt ==
    ASSUME NEW f, NEW g, NEW k \in Ids, NEW v, f = [i \in Ids |-> f[i]],
           g = [i \in Ids |-> g[i]], \A i \in Ids : g[i] = IF i = k THEN v ELSE f[i]
    PROVE  g = [f EXCEPT ![k] = v]
OBVIOUS

-----------------------------------------------------------------------------
\* Every step of the Voyage is a step of the ledger, or leaves it alone.

LEMMA LedgerStays ==
    ASSUME SoundInv, SoundInv', ran' = ran, Taken(disk') = Taken(disk),
           \/ disk'.effect = disk.effect
           \/ disk'.effect.disposition = "none" /\ disk.effect.disposition = "none"
    PROVE  UNCHANGED Ledger!vars
<1>1. \A i \in Ids : /\ StageOf(disk', i) = StageOf(disk, i) /\ SafeOf(disk', i) = SafeOf(disk, i)
                     /\ ResultOf(disk', i) = ResultOf(disk, i)
  BY ViewStays
<1>2. LedgerStage' = LedgerStage /\ LedgerSafe' = LedgerSafe /\ LedgerResult' = LedgerResult
  BY <1>1, LedgerNow, LedgerNext
<1>3. LedgerStarted' = LedgerStarted
  BY DEF LedgerStarted
<1> QED BY <1>2, <1>3 DEF Ledger!vars

(* A fresh machine that is planned while none is in recovery.                *)
LEMMA LedgerPlans ==
    ASSUME SoundInv, SoundInv', ran' = ran, Taken(disk') = Taken(disk),
           disk.effect.disposition = "none", Planned(disk', nextId)
    PROVE  nextId \in Ids /\ Ledger!Plan(nextId)
<1>1. /\ disk'.effect.disposition = "planned" /\ disk'.effect.id = nextId
      /\ disk'.effect.result = Nil /\ DeepestActiveLeaf(disk').entry = nextId
  BY DEF Planned, PlannedEffect
<1>2. nextId \in Ids
  <2>1. DeepestActiveLeaf(disk') \in Frame
    BY LeafBook DEF SoundInv
  <2> QED BY <1>1, <2>1, FrameBook
<1> DEFINE v == disk'.effect.mode = "repeat-safe"
<1>3. ASSUME NEW i \in Ids
      PROVE  /\ StageOf(disk, i) \in {"absent", "accepted"} /\ StageOf(disk, nextId) = "absent"
             /\ StageOf(disk', i) = IF i = nextId THEN "planned" ELSE StageOf(disk, i)
             /\ SafeOf(disk', i) = IF i = nextId THEN v ELSE SafeOf(disk, i)
             /\ ResultOf(disk', i) = ResultOf(disk, i)
  BY <1>1, ViewPlans DEF SoundInv
<1>4. v \in BOOLEAN
  OBVIOUS
<1> HIDE DEF v
<1>5. LedgerStage' = [LedgerStage EXCEPT ![nextId] = "planned"]
  BY <1>2, <1>3, LedgerNow, LedgerNext, ChangedAt
<1>6. LedgerSafe' = [LedgerSafe EXCEPT ![nextId] = v]
  BY <1>2, <1>3, LedgerNow, LedgerNext, ChangedAt
<1>7. LedgerResult' = LedgerResult
  BY <1>3, LedgerNow, LedgerNext
<1>8. LedgerStarted' = LedgerStarted
  BY DEF LedgerStarted
<1>9. Ledger!AtRest /\ LedgerStage[nextId] = "absent"
  BY <1>2, <1>3, LedgerNow DEF Ledger!AtRest
<1> QED BY <1>2, <1>4, <1>5, <1>6, <1>7, <1>8, <1>9 DEF Ledger!Plan

(* The acceptance of the completed machine, which may plan a fresh one.      *)
LEMMA LedgerAccepts ==
    ASSUME SoundInv, SoundInv', ran' = ran, NEW rec, Taken(disk') = Taken(disk) \cup {rec},
           rec.entry = disk.effect.id, disk.effect.disposition = "completed",
           disk.effect.result = rec.out, Kind[rec.evo] = disk.effect.mode,
           disk.effect.id \in Ids, disk.effect.id < nextId,
           disk'.effect.disposition = "none" \/ Planned(disk', nextId)
    PROVE  Ledger!Accept(disk.effect.id)
<1> DEFINE k == disk.effect.id
           v == disk'.effect.mode = "repeat-safe"
<1>1. ASSUME NEW i \in Ids
      PROVE  /\ StageOf(disk, k) = "completed" /\ StageOf(disk', k) = "accepted"
             /\ (~Recovers(disk', k) => SafeOf(disk', k) = SafeOf(disk, k))
             /\ ResultOf(disk', k) = ResultOf(disk, k)
             /\ (i # k => TakenAt(disk', i) = TakenAt(disk, i) /\ ~Recovers(disk, i))
  BY ViewAccepts DEF SoundInv
<1>2. k \in Ids /\ LedgerStarted' = LedgerStarted /\ LedgerStage[k] = "completed"
  BY <1>1, LedgerNow DEF LedgerStarted
<1>3. CASE disk'.effect.disposition = "none"
  <2>1. \A i : ~Recovers(disk', i)
    BY <1>3 DEF Recovers
  <2> HIDE DEF k
  <2>2. ASSUME NEW i \in Ids
        PROVE  /\ StageOf(disk', i) = IF i = k THEN "accepted" ELSE StageOf(disk, i)
               /\ SafeOf(disk', i) = SafeOf(disk, i)
               /\ ResultOf(disk', i) = ResultOf(disk, i)
    <3>1. CASE i = k
      BY <1>1, <2>1, <3>1
    <3>2. CASE i # k
      <4>1. TakenAt(disk', i) = TakenAt(disk, i) /\ ~Recovers(disk, i) /\ ~Recovers(disk', i)
        BY <1>1, <2>1, <3>2
      <4> QED BY <3>2, <4>1 DEF StageOf, SafeOf, ResultOf
    <3> QED BY <3>1, <3>2
  <2>3. LedgerStage' = [LedgerStage EXCEPT ![k] = "accepted"]
    BY <1>2, <2>2, LedgerNow, LedgerNext, ChangedAt
  <2>4. LedgerSafe' = LedgerSafe /\ LedgerResult' = LedgerResult
    BY <2>2, LedgerNow, LedgerNext
  <2> QED BY <1>2, <2>3, <2>4 DEF Ledger!Accept, k
<1>4. CASE Planned(disk', nextId)
  <2>1. /\ disk'.effect.disposition = "planned" /\ disk'.effect.id = nextId
        /\ disk'.effect.result = Nil /\ DeepestActiveLeaf(disk').entry = nextId
    BY <1>4 DEF Planned, PlannedEffect
  <2>2. nextId \in Ids /\ nextId # k
    <3>1. DeepestActiveLeaf(disk') \in Frame
      BY LeafBook DEF SoundInv
    <3>2. nextId \in Ids
      BY <2>1, <3>1, FrameBook
    <3> QED BY <3>2 DEF Ids
  <2>3. \A i : Recovers(disk', i) <=> i = nextId
    BY <2>1 DEF Recovers
  <2>4. TakenAt(disk, nextId) = {}
    <3>1. \A x \in Taken(disk) : x.entry \in Ids /\ x.entry < nextId
      BY TakenFacts DEF SoundInv
    <3> QED BY <3>1 DEF TakenAt, Ids
  <2>5. v \in BOOLEAN /\ \A i : SafeOf(disk', i) =
            /\ (Recovers(disk', i) => v)
            /\ \A x \in TakenAt(disk', i) : Kind[x.evo] = "repeat-safe"
    BY DEF SafeOf
  <2> HIDE DEF k, v
  <2>6. ASSUME NEW i \in Ids
        PROVE  /\ StageOf(disk', i) = IF i = k THEN "accepted"
                                      ELSE IF i = nextId THEN "planned" ELSE StageOf(disk, i)
               /\ SafeOf(disk', i) = IF i = nextId THEN v ELSE SafeOf(disk, i)
               /\ ResultOf(disk', i) = ResultOf(disk, i)
    <3>1. CASE i = k
      BY <1>1, <2>2, <2>3, <3>1
    <3>2. CASE i # k
      <4>1. TakenAt(disk', i) = TakenAt(disk, i) /\ ~Recovers(disk, i)
        BY <1>1, <3>2
      <4>2. StageOf(disk', i) = IF i = nextId THEN "planned" ELSE StageOf(disk, i)
        BY <2>1, <2>3, <2>4, <4>1 DEF StageOf
      <4>3. SafeOf(disk', i) = IF i = nextId THEN v ELSE SafeOf(disk, i)
        <5>1. CASE i = nextId
          BY <2>3, <2>4, <2>5, <4>1, <5>1
        <5>2. CASE i # nextId
          BY <2>3, <4>1, <5>2 DEF SafeOf
        <5> QED BY <5>1, <5>2
      <4>4. ResultOf(disk', i) = ResultOf(disk, i)
        BY <2>1, <2>3, <4>1 DEF ResultOf
      <4> QED BY <3>2, <4>2, <4>3, <4>4
    <3> QED BY <3>1, <3>2
  <2>7. LedgerStage[nextId] = "absent"
    <3>1. TakenAt(disk, nextId) = {} /\ ~Recovers(disk, nextId)
      BY <1>1, <2>2, <2>4
    <3> QED BY <2>2, <3>1, LedgerNow DEF StageOf
  <2>8. LedgerStage' = [LedgerStage EXCEPT ![k] = "accepted", ![nextId] = "planned"]
    BY <1>2, <2>2, <2>6, LedgerNow, LedgerNext
  <2>9. LedgerSafe' = [LedgerSafe EXCEPT ![nextId] = v]
    BY <2>2, <2>6, LedgerNow, LedgerNext, ChangedAt
  <2>10. LedgerResult' = LedgerResult
    BY <2>6, LedgerNow, LedgerNext
  <2> QED BY <1>2, <2>2, <2>5, <2>7, <2>8, <2>9, <2>10 DEF Ledger!Accept, k
<1> QED BY <1>3, <1>4

LEMMA AcceptingTakes ==
    ASSUME SoundInv, NEW rec \in Record, Accepting(disk', rec)
    PROVE  Taken(disk') = IF rec.kind = "machine" /\ Kind[rec.evo] \in Effectful
                          THEN Taken(disk) \cup {rec} ELSE Taken(disk)
<1>1. PICK w : w[3] = rec /\ Written(Books(disk)') = Written(Books(disk)) \cup {w}
  BY AcceptingWrites
<1>2. {v[3] : v \in Written(Books(disk'))} = {v[3] : v \in Written(Books(disk))} \cup {rec}
  BY <1>1
<1> QED BY <1>2 DEF Taken

LEMMA LedgerPublishes ==
    ASSUME IInv, SoundInv, HonestInv, Publication
    PROVE  [Ledger!Next]_Ledger!vars
<1>1. /\ SoundInv' /\ ran' = ran
      /\ (disk'.effect = disk.effect \/ disk'.effect = NoEffect \/ Planned(disk', nextId))
  BY PublicationParts
<1>2. ASSUME Taken(disk') = Taken(disk), disk.effect.disposition = "none"
      PROVE  [Ledger!Next]_Ledger!vars
  <2>1. CASE disk'.effect = disk.effect \/ disk'.effect = NoEffect
    <3>1. UNCHANGED Ledger!vars
      BY <1>1, <1>2, <2>1, LedgerStays DEF NoEffect
    <3> QED BY <3>1
  <2>2. CASE Planned(disk', nextId)
    <3>1. nextId \in Ids /\ Ledger!Plan(nextId)
      BY <1>1, <1>2, <2>2, LedgerPlans
    <3> QED BY <3>1 DEF Ledger!Next
  <2> QED BY <1>1, <2>1, <2>2
<1>3. CASE Quietly(disk')
  <2>1. Taken(disk') = Taken(disk)
    BY <1>3 DEF Quietly, Taken
  <2>2. CASE disk.effect.disposition = "none"
    BY <1>2, <2>1, <2>2
  <2>3. CASE disk.effect.disposition # "none"
    <3>1. UNCHANGED Ledger!vars
      BY <1>1, <1>3, <2>1, <2>3, LedgerStays DEF Quietly
    <3> QED BY <3>1
  <2> QED BY <2>2, <2>3
<1>4. ASSUME NEW rec \in Record, Accepting(disk', rec) PROVE [Ledger!Next]_Ledger!vars
  <2>1. CASE rec.kind = "machine" /\ Kind[rec.evo] \in Effectful
    <3>1. Taken(disk') = Taken(disk) \cup {rec}
      BY <1>4, <2>1, AcceptingTakes
    <3>2. /\ disk.effect.disposition = "completed" /\ rec.out = disk.effect.result
          /\ rec.entry = Leaf.entry /\ rec.evo = Leaf.evo
          /\ disk'.effect.disposition = "none" \/ Planned(disk', nextId)
      BY <1>4, <2>1 DEF Accepting, NoEffect
    <3>3. /\ rec.entry = disk.effect.id /\ Kind[rec.evo] = disk.effect.mode
          /\ disk.effect.id \in Ids /\ disk.effect.id < nextId
      BY <3>2, LeafFacts DEF IInv, StartInv, RecoveryIsDrawn
    <3>4. Ledger!Accept(disk.effect.id)
      BY <1>1, <3>1, <3>2, <3>3, LedgerAccepts
    <3> QED BY <3>3, <3>4 DEF Ledger!Next
  <2>2. CASE ~(rec.kind = "machine" /\ Kind[rec.evo] \in Effectful)
    <3>1. Taken(disk') = Taken(disk)
      BY <1>4, <2>2, AcceptingTakes
    <3>2. disk.effect.disposition = "none"
      BY <1>4, <2>2, LeafFacts DEF Accepting
    <3> QED BY <1>2, <3>1, <3>2
  <2> QED BY <2>1, <2>2
<1> QED BY <1>3, <1>4, PublicationParts

(* Marking, running and completing a machine.                                *)
LEMMA LedgerMarks ==
    ASSUME IInv, SoundInv, NEW p \in Procs, StartEffect(p)
    PROVE  [Ledger!Next]_Ledger!vars
<1> DEFINE k == disk.effect.id
<1>1. /\ SoundInv' /\ ran' = ran /\ disk.effect.disposition = "planned"
      /\ disk'.effect.id = k /\ disk'.effect.mode = disk.effect.mode
      /\ disk'.effect.result = disk.effect.result
      /\ disk'.effect.disposition = IF disk.effect.mode = NRS THEN "uncertain" ELSE "planned"
  BY StartEffectIs
<1>2. Taken(disk') = Taken(disk)
  BY StartEffectIs DEF Taken
<1>3. k \in Ids
  BY <1>1 DEF IInv, StartInv, RecoveryIsDrawn
<1>4. ASSUME NEW i \in Ids
      PROVE  /\ StageOf(disk, k) = "planned"
             /\ SafeOf(disk, k) = (disk.effect.mode = "repeat-safe")
             /\ StageOf(disk', i) = IF i = k THEN disk'.effect.disposition ELSE StageOf(disk, i)
             /\ SafeOf(disk', i) = SafeOf(disk, i)
             /\ ResultOf(disk', i) = ResultOf(disk, i)
  <2>1. /\ StageOf(disk, k) = "planned"
        /\ SafeOf(disk, k) = (disk.effect.mode = "repeat-safe")
        /\ StageOf(disk', i) = IF i = k THEN disk'.effect.disposition ELSE StageOf(disk, i)
        /\ SafeOf(disk', i) = SafeOf(disk, i)
    BY <1>1, <1>2, ViewMoves DEF SoundInv
  <2>2. ResultOf(disk', i) = ResultOf(disk, i)
    <3>1. TakenAt(disk', i) = TakenAt(disk, i)
      BY <1>2 DEF TakenAt
    <3> QED BY <1>1, <3>1 DEF ResultOf, Recovers
  <2> QED BY <2>1, <2>2
<1>5. LedgerSafe' = LedgerSafe /\ LedgerResult' = LedgerResult /\ LedgerStarted' = LedgerStarted
  BY <1>1, <1>4, LedgerNow, LedgerNext DEF LedgerStarted
<1>6. CASE disk.effect.mode = NRS
  <2>1. LedgerStage' = [LedgerStage EXCEPT ![k] = "uncertain"]
    BY <1>1, <1>3, <1>4, <1>6, LedgerNow, LedgerNext, ChangedAt
  <2>2. LedgerStage[k] = "planned" /\ ~LedgerSafe[k]
    BY <1>1, <1>3, <1>4, <1>6, LedgerNow DEF NRS
  <2> QED BY <1>3, <1>5, <2>1, <2>2 DEF Ledger!Next, Ledger!Mark
<1>7. CASE disk.effect.mode # NRS
  <2>1. LedgerStage' = LedgerStage
    BY <1>1, <1>4, <1>7, LedgerNow, LedgerNext
  <2> QED BY <1>5, <2>1 DEF Ledger!vars
<1> QED BY <1>6, <1>7

(* How often the machine in recovery was started is counted under its mode.  *)
LEMMA StartedUnderMode ==
    ASSUME IInv, SoundInv, HonestInv, disk.effect.disposition # "none"
    PROVE  /\ disk.effect.id \in Ids /\ disk.effect.mode \in Effectful
           /\ \A m \in Effectful : m # disk.effect.mode => ran[disk.effect.id][m] = 0
           /\ LedgerStarted[disk.effect.id] = ran[disk.effect.id][disk.effect.mode]
           /\ LedgerStarted[disk.effect.id] \in 0..2
<1> DEFINE k == disk.effect.id
<1>1. /\ k \in Ids /\ disk.effect.mode \in Effectful /\ k = Leaf.entry
      /\ ran \in [Ids -> [Modes -> 0..2]]
  BY LeafFacts DEF IInv, StartInv, RecoveryIsDrawn, TypeInv, TypeOK
<1>2. ASSUME NEW w \in Written(Books(disk)), w[3].kind = "machine" PROVE w[3].entry # k
  <2>1. SourceAt(Leaf.hist, Leaf.entry) = {}
    BY DEF SoundInv, Sound, EffectFits, Leaf
  <2>2. PICK b \in Books(disk) : w[2] \in DOMAIN b.hist /\ w[3] = b.hist[w[2]]
    BY WrittenFacts DEF SoundInv
  <2> QED BY <1>1, <1>2, <2>1, <2>2, LeafUnwritten DEF SoundInv, Leaf
<1>3. ASSUME NEW m \in Effectful, m # disk.effect.mode PROVE ran[k][m] = 0
  <2>1. m \in Modes
    BY DEF Modes, Effectful
  <2>2. ~(ran[k][m] > 0)
    BY <1>1, <1>2, <1>3, <2>1 DEF HonestInv, StartsAreKnown
  <2> QED BY <1>1, <2>1, <2>2
<1>4. LedgerStarted[k] = ran[k][disk.effect.mode] /\ LedgerStarted[k] \in 0..2
  <2>1. ran[k]["repeat-safe"] \in 0..2 /\ ran[k]["non-repeat-safe"] \in 0..2
    BY <1>1 DEF Modes
  <2>2. LedgerStarted[k] = LET n == ran[k]["repeat-safe"] + ran[k]["non-repeat-safe"]
                           IN IF n > 2 THEN 2 ELSE n
    BY <1>1 DEF LedgerStarted
  <2>3. CASE disk.effect.mode = "repeat-safe"
    BY <1>3, <2>1, <2>2, <2>3 DEF Effectful
  <2>4. CASE disk.effect.mode = "non-repeat-safe"
    BY <1>3, <2>1, <2>2, <2>4 DEF Effectful
  <2> QED BY <1>1, <2>3, <2>4 DEF Effectful
<1> QED BY <1>1, <1>3, <1>4

LEMMA LedgerLaunches ==
    ASSUME IInv, SoundInv, HonestInv, SoundInv', NEW p \in Procs, pc[p] = "run",
           ran' = Counted(disk.effect.id, disk.effect.mode),
           Taken(disk') = Taken(disk), disk'.effect = disk.effect
    PROVE  [Ledger!Next]_Ledger!vars
<1> DEFINE k == disk.effect.id
           m == disk.effect.mode
<1>1. /\ k \in Ids /\ m \in Effectful /\ disk.effect.disposition # "none"
      /\ \A i \in Ids, n \in Modes : ran'[i][n] =
            IF i = k /\ n = m THEN (IF ran[i][n] = 2 THEN 2 ELSE ran[i][n] + 1) ELSE ran[i][n]
  BY CountsOne
<1>2. /\ \A n \in Effectful : n # m => ran[k][n] = 0
      /\ LedgerStarted[k] = ran[k][m] /\ LedgerStarted[k] \in 0..2
  BY <1>1, StartedUnderMode
<1>3. \A i \in Ids : /\ StageOf(disk', i) = StageOf(disk, i) /\ SafeOf(disk', i) = SafeOf(disk, i)
                     /\ ResultOf(disk', i) = ResultOf(disk, i)
  BY ViewStays
<1>4. LedgerStage' = LedgerStage /\ LedgerSafe' = LedgerSafe /\ LedgerResult' = LedgerResult
  BY <1>3, LedgerNow, LedgerNext
<1>5. /\ LedgerStage[k] = disk.effect.disposition
      /\ LedgerSafe[k] = (m = "repeat-safe")
  <2>1. StageOf(disk, k) = disk.effect.disposition /\ SafeOf(disk, k) = (m = "repeat-safe")
    BY <1>1, ViewMoves DEF SoundInv
  <2> QED BY <1>1, <2>1, LedgerNow
<1>6. /\ disk.effect.disposition = IF m = NRS THEN "uncertain" ELSE "planned"
      /\ (m = NRS => ran[k][NRS] = 0)
  BY DEF HonestInv, CallbackIsOpen, IInv, StartInv, RunIsMarked
<1>7. \/ LedgerSafe[k] /\ LedgerStage[k] = "planned"
      \/ ~LedgerSafe[k] /\ LedgerStage[k] = "uncertain" /\ LedgerStarted[k] = 0
  BY <1>1, <1>2, <1>5, <1>6 DEF Effectful, NRS
<1>8. LedgerStarted' = [LedgerStarted EXCEPT ![k] = IF LedgerStarted[k] = 2 THEN 2
                                                    ELSE LedgerStarted[k] + 1]
  <2> HIDE DEF k, m
  <2>1. ASSUME NEW i \in Ids, i # k PROVE LedgerStarted'[i] = LedgerStarted[i]
    <3>1. \A n \in Effectful : ran'[i][n] = ran[i][n]
      BY <1>1, <2>1 DEF Effectful, Modes
    <3>2. ran'[i]["repeat-safe"] = ran[i]["repeat-safe"]
          /\ ran'[i]["non-repeat-safe"] = ran[i]["non-repeat-safe"]
      BY <3>1 DEF Effectful
    <3> QED BY <3>2 DEF LedgerStarted
  <2>2. LedgerStarted'[k] = IF LedgerStarted[k] = 2 THEN 2 ELSE LedgerStarted[k] + 1
    <3>1. LedgerStarted'[k] = LET n == ran'[k]["repeat-safe"] + ran'[k]["non-repeat-safe"]
                              IN IF n > 2 THEN 2 ELSE n
      BY <1>1 DEF LedgerStarted
    <3>2. CASE m = "repeat-safe"
      <4>1. /\ ran'[k]["repeat-safe"] = IF LedgerStarted[k] = 2 THEN 2 ELSE LedgerStarted[k] + 1
            /\ ran'[k]["non-repeat-safe"] = 0
        BY <1>1, <1>2, <3>2 DEF Effectful, Modes
      <4> QED BY <1>2, <3>1, <4>1
    <3>3. CASE m = "non-repeat-safe"
      <4>1. /\ ran'[k]["non-repeat-safe"] = IF LedgerStarted[k] = 2 THEN 2 ELSE LedgerStarted[k] + 1
            /\ ran'[k]["repeat-safe"] = 0
        BY <1>1, <1>2, <3>3 DEF Effectful, Modes
      <4> QED BY <1>2, <3>1, <4>1
    <3> QED BY <1>1, <3>2, <3>3 DEF Effectful
  <2>3. LedgerStarted = [i \in Ids |-> LedgerStarted[i]]
        /\ LedgerStarted' = [i \in Ids |-> LedgerStarted'[i]]
    BY DEF LedgerStarted
  <2> QED BY <1>1, <2>1, <2>2, <2>3, ChangedAt
<1> QED BY <1>1, <1>4, <1>7, <1>8 DEF Ledger!Next, Ledger!Launch

LEMMA LedgerCompletes ==
    ASSUME IInv, SoundInv, HonestInv, NEW p \in Procs, CompleteEffect(p)
    PROVE  [Ledger!Next]_Ledger!vars
<1> DEFINE k == disk.effect.id
<1>1. /\ SoundInv' /\ ran' = ran /\ disk.effect.disposition # "none"
      /\ disk'.effect.id = k /\ disk'.effect.mode = disk.effect.mode
      /\ disk'.effect.result = held[p] /\ disk'.effect.disposition = "completed"
      /\ pc[p] = "ran" /\ held[p] \in Outcomes
  BY CompleteEffectIs
<1>2. Taken(disk') = Taken(disk)
  BY CompleteEffectIs DEF Taken
<1>3. k \in Ids /\ disk.effect.mode \in Effectful /\ LedgerStarted[k] = ran[k][disk.effect.mode]
  BY <1>1, StartedUnderMode
<1>4. ASSUME NEW i \in Ids
      PROVE  /\ StageOf(disk, k) = disk.effect.disposition
             /\ SafeOf(disk, k) = (disk.effect.mode = "repeat-safe")
             /\ StageOf(disk', i) = IF i = k THEN "completed" ELSE StageOf(disk, i)
             /\ SafeOf(disk', i) = SafeOf(disk, i)
             /\ ResultOf(disk', i) = IF i = k THEN held[p] ELSE ResultOf(disk, i)
  BY <1>1, <1>2, ViewMoves DEF SoundInv
<1>5. LedgerSafe' = LedgerSafe /\ LedgerStarted' = LedgerStarted
  BY <1>1, <1>4, LedgerNow, LedgerNext DEF LedgerStarted
<1>6. LedgerStage' = [LedgerStage EXCEPT ![k] = "completed"]
  <2>1. \A i \in Ids : StageOf(disk', i) = IF i = k THEN "completed" ELSE StageOf(disk, i)
    BY <1>4
  <2> HIDE DEF k
  <2> QED BY <1>1, <1>3, <2>1, LedgerNow, LedgerNext, ChangedAt
<1>7. LedgerResult' = [LedgerResult EXCEPT ![k] = held[p]]
  <2>1. \A i \in Ids : ResultOf(disk', i) = IF i = k THEN held[p] ELSE ResultOf(disk, i)
    BY <1>4
  <2> DEFINE h == held[p]
  <2>2. \A i \in Ids : ResultOf(disk', i) = IF i = k THEN h ELSE ResultOf(disk, i)
    BY <2>1
  <2> HIDE DEF k, h
  <2>3. LedgerResult' = [LedgerResult EXCEPT ![k] = h]
    BY <1>1, <1>3, <2>2, LedgerNow, LedgerNext, ChangedAt
  <2> QED BY <2>3 DEF h
<1>8. /\ LedgerStage[k] = IF LedgerSafe[k] THEN "planned" ELSE "uncertain"
      /\ LedgerStarted[k] > 0
  <2>1. /\ disk.effect.disposition = IF disk.effect.mode = NRS THEN "uncertain" ELSE "planned"
        /\ ran[k][disk.effect.mode] > 0
    BY <1>1 DEF HonestInv, CallbackIsOpen
  <2> QED BY <1>3, <1>4, <2>1, LedgerNow DEF Effectful, NRS
<1> QED BY <1>1, <1>3, <1>5, <1>6, <1>7, <1>8 DEF Ledger!Next, Ledger!Complete

LEMMA LedgerInit == Init => Ledger!Init
<1> SUFFICES ASSUME Init PROVE Ledger!Init
  OBVIOUS
<1>1. SoundInv
  BY InitSound
<1>2. Taken(disk) = {} /\ (disk.effect = NoEffect \/ disk.effect = PlannedEffect(1, Start))
  BY CreatedSound, StartAssumption DEF Init, Taken
<1>3. \A i : TakenAt(disk, i) = {}
  BY <1>2 DEF TakenAt
<1>4. LedgerStarted = [i \in Ids |-> 0]
  BY DEF LedgerStarted, Init, Modes
<1>5. CASE disk.effect = NoEffect
  <2>1. \A i : ~Recovers(disk, i)
    BY <1>5 DEF Recovers, NoEffect
  <2>2. \A i : StageOf(disk, i) = "absent" /\ SafeOf(disk, i) = TRUE /\ ResultOf(disk, i) = Nil
    BY <1>3, <2>1 DEF StageOf, SafeOf, ResultOf
  <2> QED BY <1>1, <1>4, <2>2, LedgerNow DEF Ledger!Init
<1>6. CASE disk.effect = PlannedEffect(1, Start)
  <2> DEFINE safe == Kind[Start] = "repeat-safe"
  <2>1. 1 \in Ids /\ safe \in BOOLEAN
    BY BoundAssumption DEF Ids
  <2>2. /\ \A i : Recovers(disk, i) <=> i = 1
        /\ disk.effect.disposition = "planned" /\ disk.effect.result = Nil
        /\ (disk.effect.mode = "repeat-safe") = safe
    BY <1>6 DEF Recovers, PlannedEffect
  <2> HIDE DEF safe
  <2>3. \A i : /\ StageOf(disk, i) = IF i = 1 THEN "planned" ELSE "absent"
               /\ SafeOf(disk, i) = IF i = 1 THEN safe ELSE TRUE
               /\ ResultOf(disk, i) = Nil
    BY <1>3, <2>2 DEF StageOf, SafeOf, ResultOf
  <2>4. /\ LedgerStage = [i \in Ids |-> IF i = 1 THEN "planned" ELSE "absent"]
        /\ LedgerSafe = [i \in Ids |-> IF i = 1 THEN safe ELSE TRUE]
        /\ LedgerResult = [i \in Ids |-> Nil]
    BY <1>1, <2>3, LedgerNow
  <2> QED BY <1>4, <2>1, <2>4 DEF Ledger!Init
<1> QED BY <1>2, <1>5, <1>6

LEMMA LedgerSteps == IInv2 /\ [Next]_vars => [Ledger!Next]_Ledger!vars
<1> SUFFICES ASSUME IInv, SoundInv, HonestInv, [Next]_vars PROVE [Ledger!Next]_Ledger!vars
  BY DEF IInv2
<1>1. SoundInv'
  BY NextSound DEF IInv2
<1>2. CASE Publication
  BY <1>2, LedgerPublishes
<1>3. ASSUME disk' = disk, ran' = ran PROVE [Ledger!Next]_Ledger!vars
  <2>1. UNCHANGED Ledger!vars
    BY <1>1, <1>3, LedgerStays
  <2> QED BY <2>1
<1>4. CASE Idling
  BY <1>3, <1>4 DEF Idling, history
<1>5. ASSUME NEW p \in Procs, NEW out \in Outcomes \cup {Nil}, GetStatus(p, out)
      PROVE  [Ledger!Next]_Ledger!vars
  BY <1>3, <1>5 DEF GetStatus
<1>6. ASSUME NEW p \in Procs, StartEffect(p) \/ CompleteEffect(p)
      PROVE  [Ledger!Next]_Ledger!vars
  BY <1>6, LedgerMarks, LedgerCompletes
<1>7. ASSUME NEW p \in Procs, AbortInCallback(p) PROVE [Ledger!Next]_Ledger!vars
  <2>1. /\ pc[p] = "run" /\ ran' = Counted(disk.effect.id, disk.effect.mode)
        /\ disk'.effect = disk.effect /\ Taken(disk') = Taken(disk)
    BY <1>7 DEF AbortInCallback
  <2> QED BY <1>1, <2>1, LedgerLaunches
<1>8. ASSUME NEW p \in Procs, NEW out \in Outcomes, RunEffect(p, out)
      PROVE  [Ledger!Next]_Ledger!vars
  <2>1. /\ pc[p] = "run" /\ ran' = Counted(disk.effect.id, disk.effect.mode)
        /\ Returned(p, out) \/ Failed
    BY <1>8, RunEffectIs
  <2>2. disk'.effect = disk.effect /\ Taken(disk') = Taken(disk)
    BY <2>1 DEF Returned, Failed, Taken
  <2> QED BY <1>1, <2>1, <2>2, LedgerLaunches
<1> QED BY <1>2, <1>4, <1>5, <1>6, <1>7, <1>8, NextIsStep DEF Steps

(* Every Voyage, with its crashes, retries and competing processes, keeps    *)
(* the ledger's promise: an effectful machine is planned, started, completed *)
(* and accepted in that order and accepted with its durable outcome, and no  *)
(* two are under way at once.                                                *)
THEOREM RefinesLedger == Spec => ImplementsLedger
BY LedgerInit, LedgerSteps, Inductive2, PTL DEF Spec, ImplementsLedger, Ledger!Spec
=============================================================================
