----------------------- MODULE RutterReckoning_proofs -----------------------
(***************************************************************************)
(* Lemmas on the operators of RutterReckoning by which a Voyage moves.     *)
(* First types: each returns a Reckoning with a nonempty, properly nested  *)
(* path (Live), and the recovery it leaves is the one it found or a plan   *)
(* for the fresh identifier, which then names the leaf's entrance.  Then   *)
(* books: each returns a Sound Reckoning, whose histories continue the     *)
(* ones it was given (Grown) and hold at most one record more (OneMore).   *)
(***************************************************************************)
EXTENDS RutterReckoning, TLAPS

\* Only the first run of a path is held by no parent.
Nested(path) == \A n \in DOMAIN path : n # 1 => path[n].held # "root"
Live == {r \in Reckoning : r.path # <<>> /\ Nested(r.path)}

\* What an entrance or a settlement may do to the recovery of a Reckoning.
Planned(s, id) ==
    \E e \in Evolutions : /\ Kind[e] \in Effectful
                          /\ s.effect = PlannedEffect(id, e)
                          /\ DeepestActiveLeaf(s).entry = id
EffectStep(r, s, id) == s.effect = r.effect \/ Planned(s, id)

-----------------------------------------------------------------------------
(* A plan carries the fresh identifier, which is the leaf's entrance.        *)
LEMMA PlannedFacts ==
    ASSUME NEW s, NEW id, Planned(s, id)
    PROVE  /\ s.effect.id = id /\ s.effect.disposition = "planned"
           /\ DeepestActiveLeaf(s).entry = id
<1>1. PICK e \in Evolutions : s.effect = PlannedEffect(id, e) /\ DeepestActiveLeaf(s).entry = id
  BY DEF Planned
<1>2. PlannedEffect(id, e).id = id /\ PlannedEffect(id, e).disposition = "planned"
  BY DEF PlannedEffect
<1> QED BY <1>1, <1>2

(* The leaf of a live Reckoning is a frame at the end of its path.           *)
LEMMA LeafType ==
    ASSUME NEW r \in Live
    PROVE  /\ Len(r.path) \in Nat \ {0}
           /\ Len(r.path) \in DOMAIN r.path
           /\ DeepestActiveLeaf(r) \in Frame
BY DEF Live, Reckoning, DeepestActiveLeaf

(* Replacing the leaf by a frame changes the leaf and nothing else.          *)
LEMMA ReplaceType ==
    ASSUME NEW r \in Live, NEW f \in Frame, f.held = DeepestActiveLeaf(r).held
    PROVE  /\ ReplaceActiveRun(r, f) \in Live
           /\ ReplaceActiveRun(r, f).effect = r.effect
           /\ ReplaceActiveRun(r, f).rev = r.rev
           /\ DeepestActiveLeaf(ReplaceActiveRun(r, f)) = f
<1> DEFINE q == [r.path EXCEPT ![Len(r.path)] = f]
<1>1. q \in Seq(Frame) /\ q # <<>> /\ Len(q) = Len(r.path) /\ q[Len(q)] = f
  BY LeafType DEF Live, Reckoning
<1>0. Nested(q)
  BY LeafType DEF Live, Reckoning, Nested, DeepestActiveLeaf
<1>2. ReplaceActiveRun(r, f) = [r EXCEPT !.path = q]
  BY DEF ReplaceActiveRun
<1> HIDE DEF q
<1>3. [r EXCEPT !.path = q] \in Live
  BY <1>1, <1>0 DEF Live, Reckoning
<1> QED BY <1>1, <1>2, <1>3 DEF Live, Reckoning, DeepestActiveLeaf

(* The revision is independent of the rest.                                  *)
LEMMA RevisionType ==
    ASSUME NEW r \in Live, NEW n \in Nat
    PROVE  [r EXCEPT !.rev = n] \in Live /\ [r EXCEPT !.rev = n].effect = r.effect
<1>1. r \in Reckoning
  BY DEF Live
<1>2. /\ [r EXCEPT !.rev = n] \in Reckoning
      /\ [r EXCEPT !.rev = n].path = r.path /\ [r EXCEPT !.rev = n].effect = r.effect
  BY <1>1 DEF Reckoning
<1> QED BY <1>2 DEF Live

(* A fault keeps the recovery and the leaf.                                  *)
LEMMA FaultType ==
    ASSUME NEW r \in Live, NEW prev \in Live, NEW c \in FaultCategories,
           NEW tg \in Evolutions \cup {Nil, Undeclared}, NEW hs \in SUBSET Hooks
    PROVE  /\ FaultReckoning(r, prev, c, tg, hs) \in Live
           /\ FaultReckoning(r, prev, c, tg, hs).effect = r.effect
<1>1. DeepestActiveLeaf(r) \in Frame
  BY LeafType
<1>2. [category |-> c, run |-> DeepestActiveLeaf(r).run,
       entry |-> DeepestActiveLeaf(r).entry, target |-> tg, hooks |-> hs] \in Fault
  BY <1>1 DEF Frame, Fault
<1> QED BY <1>2 DEF FaultReckoning, Live, Reckoning

(* An entrance of an effectful machine plans it; any other keeps the         *)
(* recovery that it finds.                                                   *)
LEMMA EffectOnEntryType ==
    ASSUME NEW r \in Reckoning, NEW id \in Ids, NEW e \in Evolutions
    PROVE  /\ EffectOnEntry(r, id, e) \in Effect
           /\ \/ EffectOnEntry(r, id, e) = r.effect
              \/ /\ Kind[e] \in Effectful
                 /\ EffectOnEntry(r, id, e) = PlannedEffect(id, e)
BY DEF EffectOnEntry, Reckoning, PlannedEffect, Effect, Effectful, Modes, Dispositions

(* An entrance opens at most one Turn.                                       *)
LEMMA TurnsType ==
    ASSUME NEW r \in Reckoning, NEW id \in Ids, NEW e \in Evolutions
    PROVE  TurnsOnEntry(r, id, e) \in Seq(Record)
<1>1. OpenTurn(id, e, r.rev) \in Record
  BY DEF OpenTurn, NewRecord, Record, RecordKinds, Reckoning
<1> QED BY <1>1 DEF TurnsOnEntry

(* Entering an evolution of the same run.                                    *)
LEMMA EnteredType ==
    ASSUME NEW r \in Live, NEW id \in Ids, NEW e \in Evolutions
    PROVE  Entered(r, id, e) \in Live /\ EffectStep(r, Entered(r, id, e), id)
<1> DEFINE f == DeepestActiveLeaf(r)
           g == [f EXCEPT !.entry = id, !.evo = e,
                          !.hist = f.hist \o TurnsOnEntry(r, id, e)]
           q == ReplaceActiveRun(r, g)
           x == EffectOnEntry(r, id, e)
<1>1. f \in Frame
  BY LeafType
<1>2. f.hist \o TurnsOnEntry(r, id, e) \in Seq(Record)
  BY <1>1, TurnsType DEF Frame, Live
<1>3. g \in Frame /\ g.entry = id /\ g.held = f.held
  BY <1>1, <1>2 DEF Frame
<1>4. Entered(r, id, e) = [q EXCEPT !.effect = x]
  BY DEF Entered
<1>5. q \in Live /\ q.effect = r.effect /\ DeepestActiveLeaf(q) = g
  BY <1>3, ReplaceType
<1>6. x \in Effect /\ (x = r.effect \/ (Kind[e] \in Effectful /\ x = PlannedEffect(id, e)))
  BY EffectOnEntryType DEF Live
<1> HIDE DEF q, x, g
<1>7. [q EXCEPT !.effect = x] \in Live /\ [q EXCEPT !.effect = x].effect = x
  BY <1>5, <1>6 DEF Live, Reckoning
<1>8. DeepestActiveLeaf([q EXCEPT !.effect = x]).entry = id
  BY <1>3, <1>5 DEF Live, Reckoning, DeepestActiveLeaf
<1> QED BY <1>4, <1>6, <1>7, <1>8 DEF EffectStep, Planned

(* Entering a child.                                                         *)
LEMMA WithChildType ==
    ASSUME NEW r \in Reckoning, NEW id \in Ids, NEW e \in Evolutions,
           NEW how \in {"root", "call", "hook"}, NEW h \in Hooks \cup {Nil},
           Nested(r.path), how = "root" => r.path = <<>>
    PROVE  /\ WithChild(r, id, e, how, h) \in Live
           /\ EffectStep(r, WithChild(r, id, e, how, h), id)
<1> DEFINE g == [run |-> id, entry |-> id, evo |-> e,
                 hist |-> TurnsOnEntry(r, id, e), held |-> how, hook |-> h]
           q == Append(r.path, g)
           x == EffectOnEntry(r, id, e)
<1>1. g \in Frame /\ g.entry = id /\ g.held = how
  BY TurnsType DEF Frame
<1>2. WithChild(r, id, e, how, h) = [r EXCEPT !.path = q, !.effect = x]
  BY DEF WithChild
<1>3. x \in Effect /\ (x = r.effect \/ (Kind[e] \in Effectful /\ x = PlannedEffect(id, e)))
  BY EffectOnEntryType
<1> HIDE DEF x, g
<1>4. q \in Seq(Frame) /\ q # <<>> /\ q[Len(q)] = g
  BY <1>1 DEF Reckoning
<1>0. Nested(q)
  BY <1>1 DEF Nested, Reckoning
<1> HIDE DEF q
<1>5. /\ [r EXCEPT !.path = q, !.effect = x] \in Live
      /\ [r EXCEPT !.path = q, !.effect = x].effect = x
  BY <1>3, <1>4, <1>0 DEF Live, Reckoning
<1>6. DeepestActiveLeaf([r EXCEPT !.path = q, !.effect = x]).entry = id
  BY <1>1, <1>4 DEF Reckoning, DeepestActiveLeaf
<1> QED BY <1>2, <1>3, <1>5, <1>6 DEF EffectStep, Planned

(* Sets of publishable results: a successful entrance or push, or a fault.   *)
LEMMA FaultsType ==
    ASSUME NEW r \in Live, NEW prev \in Live, NEW c \in FaultCategories, NEW who,
           c = "target-materialization" => who \in Evolutions,
           c \in HookCategories => who \in Hooks,
           NEW s \in FaultsOf(r, prev, c, who)
    PROVE  s \in Live /\ s.effect = r.effect
<1> DEFINE tg == IF c = "target-materialization" THEN who ELSE Nil
           hs == IF c \in HookCategories THEN {who} ELSE {}
<1>1. tg \in Evolutions \cup {Nil, Undeclared} /\ hs \in SUBSET Hooks
  OBVIOUS
<1>2. s = FaultReckoning(r, prev, c, tg, hs)
  BY DEF FaultsOf
<1> HIDE DEF tg, hs
<1> QED BY <1>1, <1>2, FaultType

LEMMA EnterEvolutionType ==
    ASSUME NEW r \in Live, NEW prev \in Live, NEW id \in Ids, NEW e \in Evolutions,
           NEW s \in EnterEvolution(prev, r, id, e)
    PROVE  s \in Live /\ EffectStep(r, s, id)
<1>1. CASE s = Entered(r, id, e)
  BY <1>1, EnteredType
<1>2. CASE s \in FaultsOf(r, prev, "target-materialization", e)
  BY <1>2, FaultsType DEF FaultCategories, HookCategories, EffectStep
<1> QED BY <1>1, <1>2 DEF EnterEvolution

LEMMA PushChildType ==
    ASSUME NEW r \in Live, NEW prev \in Live, NEW id \in Ids, NEW e \in Evolutions,
           NEW how \in {"call", "hook"}, NEW h \in Hooks \cup {Nil},
           NEW s \in PushChild(prev, r, id, e, how, h)
    PROVE  s \in Live /\ EffectStep(r, s, id)
<1>1. CASE s = WithChild(r, id, e, how, h)
  BY <1>1, WithChildType DEF Live
<1>2. CASE s \in FaultsOf(r, prev, "child-materialization", e)
  BY <1>2, FaultsType DEF FaultCategories, HookCategories, EffectStep
<1> QED BY <1>1, <1>2 DEF PushChild

LEMMA PushCallType ==
    ASSUME NEW r \in Live, NEW id \in Ids, NEW s \in PushCall(r, id)
    PROVE  s \in Live /\ EffectStep(r, s, id)
<1> DEFINE e == DeepestActiveLeaf(r).evo
<1>1. ChildStart[e] \in Evolutions
  BY LeafType, ProgramAssumption DEF Frame
<1>2. CASE s \in PushChild(r, r, id, ChildStart[e], "call", Nil)
  BY <1>1, <1>2, PushChildType
<1>3. CASE s \in FaultsOf(r, r, "child-charter", e)
  BY <1>3, FaultsType DEF FaultCategories, HookCategories, EffectStep
<1> QED BY <1>2, <1>3 DEF PushCall

LEMMA PushHookType ==
    ASSUME NEW r \in Live, NEW prev \in Live, NEW id \in Ids, NEW h \in Hooks,
           NEW s \in PushHook(prev, r, id, h)
    PROVE  s \in Live /\ EffectStep(r, s, id)
<1>1. HookStart[h] \in Evolutions
  BY ProgramAssumption
<1>2. CASE s \in PushChild(prev, r, id, HookStart[h], "hook", h)
  BY <1>1, <1>2, PushChildType
<1>3. CASE s \in FaultsOf(r, prev, "hook-construction", h)
  BY <1>3, FaultsType DEF FaultCategories, HookCategories, EffectStep
<1> QED BY <1>2, <1>3 DEF PushHook

(* Accepting an answer fills the open Turn and keeps the recovery.           *)
LEMMA AcceptPromptType ==
    ASSUME NEW r \in Live, NEW out \in Outcomes
    PROVE  AcceptPrompt(r, out) \in Live /\ AcceptPrompt(r, out).effect = r.effect
<1> DEFINE f == DeepestActiveLeaf(r)
           fill(rec) == IF IsOpen(rec) THEN [rec EXCEPT !.out = out] ELSE rec
           h == [i \in DOMAIN f.hist |-> fill(f.hist[i])]
           q == ReplaceActiveRun(r, [f EXCEPT !.hist = h])
<1>1. f \in Frame /\ f.hist \in Seq(Record)
  BY LeafType DEF Frame
<1>2. ASSUME NEW rec \in Record PROVE fill(rec) \in Record
  BY ProgramAssumption DEF Record, RecordKinds, IsOpen
<1>3. h \in Seq(Record)
  <2>1. \A i \in DOMAIN f.hist : f.hist[i] \in Record
    BY <1>1
  <2>2. \A i \in DOMAIN f.hist : fill(f.hist[i]) \in Record
    BY <1>2, <2>1
  <2> HIDE DEF fill
  <2>3. DOMAIN f.hist = 1..Len(f.hist) /\ Len(f.hist) \in Nat
    BY <1>1
  <2> QED BY <2>2, <2>3
<1> HIDE DEF h
<1>4. [f EXCEPT !.hist = h] \in Frame /\ [f EXCEPT !.hist = h].held = f.held
  BY <1>1, <1>3 DEF Frame
<1>5. q \in Live /\ q.effect = r.effect
  BY <1>4, ReplaceType
<1>6. AcceptPrompt(r, out) = [q EXCEPT !.rev = r.rev + 1]
  BY DEF AcceptPrompt, h
<1>7. r.rev + 1 \in Nat
  BY DEF Live, Reckoning
<1> HIDE DEF q
<1> QED BY <1>5, <1>6, <1>7, RevisionType

(* Appending a record to the leaf's run keeps the recovery.                  *)
LEMMA WithRecordType ==
    ASSUME NEW r \in Live, NEW kind \in {"machine", "done"}, NEW out \in Outcomes
    PROVE  WithRecord(r, kind, out) \in Live /\ WithRecord(r, kind, out).effect = r.effect
<1> DEFINE f == DeepestActiveLeaf(r)
           rec == NewRecord(kind, f.entry, f.evo, out, 0)
           q == ReplaceActiveRun(r, [f EXCEPT !.hist = Append(f.hist, rec)])
<1>1. f \in Frame
  BY LeafType
<1>2. rec \in Record
  BY <1>1, ProgramAssumption DEF NewRecord, Record, RecordKinds, Frame
<1> HIDE DEF rec
<1>3. /\ [f EXCEPT !.hist = Append(f.hist, rec)] \in Frame
      /\ [f EXCEPT !.hist = Append(f.hist, rec)].held = f.held
  <2> HIDE DEF f
  <2>1. f.hist \in Seq(Record)
    BY <1>1 DEF Frame
  <2>2. Append(f.hist, rec) \in Seq(Record)
    BY <1>2, <2>1
  <2> QED BY <1>1, <2>2 DEF Frame
<1>4. q \in Live /\ q.effect = r.effect
  BY <1>3, ReplaceType
<1>5. WithRecord(r, kind, out) = [q EXCEPT !.rev = r.rev + 1]
  BY DEF WithRecord, rec
<1>6. r.rev + 1 \in Nat
  BY DEF Live, Reckoning
<1> HIDE DEF q
<1> QED BY <1>4, <1>5, <1>6, RevisionType

(* Accepting a machine's result clears the recovery.                         *)
LEMMA AcceptMachineType ==
    ASSUME NEW r \in Live, NEW out \in Outcomes
    PROVE  AcceptMachine(r, out) \in Live /\ AcceptMachine(r, out).effect = NoEffect
<1>1. WithRecord(r, "machine", out) \in Live
  BY WithRecordType
<1>2. NoEffect \in Effect
  BY DEF NoEffect, Effect, Modes, Dispositions
<1> QED BY <1>1, <1>2 DEF AcceptMachine, Live, Reckoning

Rewritten(r, q, c, n) == [r EXCEPT !.path = q, !.completed = c, !.rev = n]
(* Rewriting path, archive and revision keeps the recovery.                  *)
LEMMA RewrittenType ==
    ASSUME NEW r \in Reckoning, NEW q \in Seq(Frame), NEW c \in SUBSET CompletedRun,
           NEW n \in Nat
    PROVE  /\ Rewritten(r, q, c, n) \in Reckoning
           /\ Rewritten(r, q, c, n).path = q
           /\ Rewritten(r, q, c, n).effect = r.effect
BY DEF Rewritten, Reckoning

(* Returning a child shortens the path and keeps the recovery.               *)
LEMMA ReturnType ==
    ASSUME NEW r \in Live, Depth(r) > 0, NEW out \in Outcomes
    PROVE  /\ ReturnActiveChild(r, out) \in Live
           /\ ReturnActiveChild(r, out).effect = r.effect
<1> DEFINE f == DeepestActiveLeaf(r)
           n == Len(r.path) - 1
           parent == r.path[n]
           rec == [kind |-> f.held, entry |-> parent.entry, evo |-> parent.evo,
                   out |-> out, hook |-> f.hook, run |-> f.run, rev |-> 0]
           q == [i \in 1..n |-> IF i = n THEN [parent EXCEPT !.hist = Append(parent.hist, rec)]
                                         ELSE r.path[i]]
<1>1. /\ f \in Frame /\ n \in Nat \ {0} /\ parent \in Frame
      /\ f.held # "root" /\ Len(r.path) = n + 1
  BY LeafType DEF Depth, Live, Nested, Reckoning, DeepestActiveLeaf
<1>2. rec \in Record
  BY <1>1, ProgramAssumption DEF Record, RecordKinds, Frame
<1> HIDE DEF rec, f
<1>3. q \in Seq(Frame) /\ q # <<>> /\ Nested(q)
  <2> DEFINE g == [parent EXCEPT !.hist = Append(parent.hist, rec)]
  <2>1. g \in Frame /\ g.held = parent.held
    <3> HIDE DEF parent
    <3>1. Append(parent.hist, rec) \in Seq(Record)
      BY <1>1, <1>2 DEF Frame
    <3> QED BY <1>1, <3>1 DEF Frame
  <2>2. \A i \in 1..n : r.path[i] \in Frame
    BY <1>1 DEF Live, Reckoning
  <2>3. \A i \in 1..n : i # 1 => r.path[i].held # "root"
    BY <1>1 DEF Live, Nested, Reckoning
  <2> HIDE DEF g
  <2>4. q = [i \in 1..n |-> IF i = n THEN g ELSE r.path[i]]
    BY DEF g
  <2>5. \A i \in 1..n : q[i] \in Frame /\ (i # 1 => q[i].held # "root")
    BY <1>1, <2>1, <2>2, <2>3, <2>4
  <2>6. DOMAIN q = 1..n
    BY <2>4
  <2> HIDE DEF q
  <2>7. q \in Seq(Frame) /\ Len(q) = n
    <3>1. q \in [1..n -> Frame]
      BY <2>4, <2>5
    <3> HIDE DEF n
    <3> QED BY <1>1, <3>1
  <2> QED BY <1>1, <2>5, <2>6, <2>7 DEF Nested
<1>4. [run |-> f.run, hist |-> f.hist] \in CompletedRun
  BY <1>1 DEF Frame, CompletedRun
<1>5. ReturnActiveChild(r, out) =
        [r EXCEPT !.path = q,
                  !.completed = r.completed \cup {[run |-> f.run, hist |-> f.hist]},
                  !.rev = r.rev + 1]
  BY DEF ReturnActiveChild, ParentPath, Archived, f, rec
<1> DEFINE archive == r.completed \cup {[run |-> f.run, hist |-> f.hist]}
           new == Rewritten(r, q, archive, r.rev + 1)
<1>6. archive \in SUBSET CompletedRun /\ r \in Reckoning /\ r.rev + 1 \in Nat
  BY <1>4 DEF Live, Reckoning
<1> HIDE DEF q, archive
<1>7. new \in Reckoning /\ new.path = q /\ new.effect = r.effect
  BY <1>3, <1>6, RewrittenType
<1> HIDE DEF new
<1>8. ReturnActiveChild(r, out) = new
  BY <1>5 DEF new, archive, Rewritten
<1> QED BY <1>3, <1>7, <1>8 DEF Live

(* A hook that may be attached is one of those in order.                     *)
LEMMA NextIsHook ==
    ASSUME NEW f \in Frame, NEW t, NEW h \in NextHooks(f, t)
    PROVE  h \in Hooks
<1>1. HookOrder[f.evo] \in Seq(Hooks)
  BY ProgramAssumption DEF Frame
<1>2. PICK i \in DOMAIN HookOrder[f.evo] : h = HookOrder[f.evo][i]
  BY DEF NextHooks, SelectedHooks, PendingHooks
<1> QED BY <1>1, <1>2

LEMMA CharterFaultsType ==
    ASSUME NEW r \in Live, NEW prev \in Live, NEW f \in Frame, NEW t,
           NEW s \in CharterFaults(prev, r, f, t)
    PROVE  s \in Live /\ s.effect = r.effect
<1>1. PICK i \in PendingHooks(f, t) : s \in FaultsOf(r, prev, "case-charter", HookOrder[f.evo][i])
  BY DEF CharterFaults
<1>2. HookOrder[f.evo] \in Seq(Hooks) /\ i \in DOMAIN HookOrder[f.evo]
  BY ProgramAssumption DEF Frame, PendingHooks
<1>3. HookOrder[f.evo][i] \in Hooks
  BY <1>2
<1>4. "case-charter" \in FaultCategories /\ "case-charter" # "target-materialization"
  BY DEF FaultCategories, HookCategories
<1> QED BY <1>1, <1>3, <1>4, FaultsType

LEMMA AttachOrEnterType ==
    ASSUME NEW r \in Live, NEW prev \in Live, NEW id \in Ids, NEW f \in Frame, NEW t,
           t.target \in Evolutions \cup {Nil}, NEW s \in AttachOrEnter(prev, r, id, f, t)
    PROVE  s \in Live /\ EffectStep(r, s, id)
<1> DEFINE selected == SelectedHooks(f, t)
           hs == {HookOrder[f.evo][i] : i \in selected}
<1>1. s \in IF selected # {}
            THEN IF f.evo \notin AllowMultiple /\ \E i, j \in selected : i # j
                 THEN {FaultReckoning(r, prev, "case-cardinality", Nil, hs)}
                 ELSE UNION {PushHook(prev, r, id, h) : h \in NextHooks(f, t)}
            ELSE IF t.target = Nil THEN {r} ELSE EnterEvolution(prev, r, id, t.target)
  BY DEF AttachOrEnter
<1>2. CASE s = FaultReckoning(r, prev, "case-cardinality", Nil, hs)
  <2>1. HookOrder[f.evo] \in Seq(Hooks)
    BY ProgramAssumption DEF Frame
  <2>2. hs \in SUBSET Hooks
    <3>1. \A i \in DOMAIN HookOrder[f.evo] : HookOrder[f.evo][i] \in Hooks
      BY <2>1
    <3> QED BY <3>1 DEF SelectedHooks, PendingHooks
  <2>3. "case-cardinality" \in FaultCategories
    BY DEF FaultCategories, HookCategories
  <2> HIDE DEF hs
  <2> QED BY <1>2, <2>2, <2>3, FaultType DEF EffectStep
<1>3. CASE s \in UNION {PushHook(prev, r, id, h) : h \in NextHooks(f, t)}
  BY <1>3, NextIsHook, PushHookType
<1>4. CASE s = r
  BY <1>4 DEF EffectStep
<1>5. CASE t.target # Nil /\ s \in EnterEvolution(prev, r, id, t.target)
  BY <1>5, EnterEvolutionType
<1> HIDE DEF selected, hs
<1> QED BY <1>1, <1>2, <1>3, <1>4, <1>5

(* Every Reckoning that a transition can publish is live, and its recovery   *)
(* is the accepted one or a plan for the fresh identifier.                   *)
LEMMA ContinueType ==
    ASSUME NEW r \in Live, NEW prev \in Live, NEW id \in Ids, NEW out \in Outcomes,
           NEW s \in ContinueTransition(prev, r, id, out)
    PROVE  s \in Live /\ EffectStep(r, s, id)
<1> DEFINE f == DeepestActiveLeaf(r)
           t == SelectTransition(f.evo, out)
<1>1. f \in Frame /\ f.evo \in Evolutions
  BY LeafType DEF Frame
<1>2. /\ t.target \in Evolutions \cup {Nil, Undeclared}
      /\ Kind[f.evo] = "terminal" => t.target = Nil
  BY <1>1, ProgramAssumption DEF SelectTransition
<1>3. CASE t.target \in {Nil, Undeclared} /\ Kind[f.evo] # "terminal"
  <2>1. s = FaultReckoning(r, prev, "routing", t.target, {})
    BY <1>3 DEF ContinueTransition
  <2>2. "routing" \in FaultCategories
    BY DEF FaultCategories
  <2> HIDE DEF t
  <2> QED BY <2>1, <2>2, <1>2, FaultType DEF EffectStep
<1>4. CASE ~(t.target \in {Nil, Undeclared} /\ Kind[f.evo] # "terminal")
  <2>1. t.target \in Evolutions \cup {Nil}
    BY <1>2, <1>4
  <2>2. s \in CharterFaults(prev, r, f, t) \/ s \in AttachOrEnter(prev, r, id, f, t)
    BY <1>4 DEF ContinueTransition
  <2> HIDE DEF t
  <2> QED BY <2>1, <2>2, <1>1, CharterFaultsType, AttachOrEnterType DEF EffectStep
<1> QED BY <1>3, <1>4

(* An accepted record that is no open Turn has an outcome.                   *)
LEMMA RecordedOutcome ==
    ASSUME NEW r \in Live, NEW rec \in RecordedSources(DeepestActiveLeaf(r))
    PROVE  rec \in Record /\ rec.out \in Outcomes
<1>1. DeepestActiveLeaf(r) \in Frame
  BY LeafType
<1>2. rec \in Record
  BY <1>1 DEF RecordedSources, SourceRecords, SourceIndices, Frame
<1> QED BY <1>2 DEF RecordedSources, IsOpen, Record

-----------------------------------------------------------------------------
\* The books of a Voyage: what a run keeps, whether active (at is its entrance)
\* or archived (at is 0), seen apart from its place on the path.
Book(f) == [run |-> f.run, at |-> f.entry, evo |-> f.evo, hist |-> f.hist]
Shelved(c) == [run |-> c.run, at |-> 0, evo |-> Nil, hist |-> c.hist]
Books(r) == {Book(r.path[n]) : n \in DOMAIN r.path} \cup {Shelved(c) : c \in r.completed}
BookType == [run : Ids, at : Ids \cup {0}, evo : Evolutions \cup {Nil}, hist : Seq(Record)]

SourceAt(h, e) == {i \in DOMAIN h : h[i].entry = e /\ h[i].kind # "hook"}
Attached(h, e) == {h[j].hook : j \in {k \in DOMAIN h : h[k].kind = "hook" /\ h[k].entry = e}}
\* The hooks of the transition that a source record takes.
Due(rec) == {h \in {HookOrder[rec.evo][k] : k \in DOMAIN HookOrder[rec.evo]} :
                /\ Matches(HookOn[h], SelectTransition(rec.evo, rec.out))
                /\ <<h, rec.entry>> \notin Declines}
\* A source record is closed and every hook due on it is attached.
Complete(h, e) == \E i \in SourceAt(h, e) : ~IsOpen(h[i]) /\ Attached(h, e) = Due(h[i])

\* One run's book.  Only the last record is open, and it is the current one; an
\* entrance has one source record; hooks follow it, once each, and only those due
\* on it; nothing but its hooks follows a terminal record; an entrance is left
\* with all its hooks attached; the current source record is the evolution's; and
\* a Message has its Turn.
OpenIsCurrent(b) == \A i \in DOMAIN b.hist :
    IsOpen(b.hist[i]) => i = Len(b.hist) /\ b.hist[i].entry = b.at
OneSource(b) == \A e \in Ids : \A i, j \in SourceAt(b.hist, e) : i = j
HooksFollow(b) == \A i \in DOMAIN b.hist : b.hist[i].kind = "hook" =>
    \E k \in SourceAt(b.hist, b.hist[i].entry) :
        k < i /\ ~IsOpen(b.hist[k]) /\ b.hist[i].hook \in Due(b.hist[k])
HooksOnce(b) == \A i, j \in DOMAIN b.hist :
    (/\ b.hist[i].kind = "hook" /\ b.hist[j].kind = "hook"
     /\ b.hist[i].hook = b.hist[j].hook /\ b.hist[i].entry = b.hist[j].entry) => i = j
DoneIsLast(b) == \A i, j \in DOMAIN b.hist : b.hist[i].kind = "done" =>
    /\ b.at \in {0, b.hist[i].entry}
    /\ (i < j => b.hist[j].kind = "hook" /\ b.hist[j].entry = b.hist[i].entry)
LeftIsComplete(b) == \A i \in DOMAIN b.hist :
    b.hist[i].kind # "hook" /\ b.hist[i].entry # b.at => Complete(b.hist, b.hist[i].entry)
SourceFits(b) == \A i \in SourceAt(b.hist, b.at) :
    b.hist[i].kind = SourceKind(b.evo) /\ b.hist[i].evo = b.evo
TurnIsOpened(b) == b.at # 0 /\ Kind[b.evo] = "llm" => SourceAt(b.hist, b.at) # {}
Ordered(b) == /\ OpenIsCurrent(b) /\ OneSource(b) /\ HooksFollow(b) /\ HooksOnce(b)
              /\ DoneIsLast(b) /\ LeftIsComplete(b) /\ SourceFits(b)
WellKept(b) == Ordered(b) /\ TurnIsOpened(b)

\* All books together.  A run has one book and an entrance one run; all of them
\* are drawn; and a book is archived just when one record refers to its run.
Marks(b) == {b.hist[i].entry : i \in DOMAIN b.hist} \cup ({b.at} \ {0})
Children(b) == {i \in DOMAIN b.hist : b.hist[i].kind \in {"call", "hook"}}
OneBook(S) == \A a, b \in S : a.run = b.run => a = b
Apart(S) == \A a, b \in S : a.run # b.run => Marks(a) \cap Marks(b) = {}
Drawn(S, id) == \A b \in S : b.run < id /\ \A e \in Marks(b) : e < id
RefersToArchive(S) == \A a \in S : \A i \in Children(a) :
    \E c \in S : c.at = 0 /\ c.run = a.hist[i].run
ArchiveIsReferred(S) == \A c \in S : c.at = 0 =>
    \E a \in S : \E i \in Children(a) : a.hist[i].run = c.run
RefersOnce(S) == \A a, b \in S : \A i \in Children(a), j \in Children(b) :
    a.hist[i].run = b.hist[j].run => a = b /\ i = j
\* A child run is younger than the run that records it, and an archived run ends.
ChildIsLater(S) == \A a \in S : \A i \in Children(a) : a.run < a.hist[i].run
ArchiveIsDone(S) == \A c \in S : c.at = 0 => \E i \in DOMAIN c.hist : c.hist[i].kind = "done"
InOrder(S, id) == /\ OneBook(S) /\ Apart(S) /\ Drawn(S, id)
                  /\ RefersToArchive(S) /\ ArchiveIsReferred(S) /\ RefersOnce(S)
                  /\ ChildIsLater(S) /\ ArchiveIsDone(S)
                  /\ \A b \in S : b \in BookType /\ WellKept(b)

\* The path.  A run that holds a child waits: a hook's child stands for one that
\* is due and not yet attached, a call's for the missing source record.
PathIsDistinct(r) == \A m, n \in DOMAIN r.path : r.path[m].run = r.path[n].run => m = n
Waits(f, g) ==
    /\ f.run < g.run
    /\ \A i \in DOMAIN f.hist : ~IsOpen(f.hist[i])
    /\ (g.held = "hook" => /\ \E i \in SourceAt(f.hist, f.entry) : g.hook \in Due(f.hist[i])
                           /\ g.hook \notin Attached(f.hist, f.entry))
    /\ (g.held = "call" => Kind[f.evo] = "sub" /\ SourceAt(f.hist, f.entry) = {})
Linked(r) == \A n \in DOMAIN r.path : n # 1 => Waits(r.path[n - 1], r.path[n])
\* The recovery is that of the leaf's machine, and is there until its record is.
EffectFits(r) ==
    LET leaf == DeepestActiveLeaf(r)
        source == SourceAt(leaf.hist, leaf.entry)
    IN /\ (r.effect.disposition = "none" => Kind[leaf.evo] \notin Effectful \/ source # {})
       /\ (r.effect.disposition # "none" =>
             /\ r.effect.id = leaf.entry /\ r.effect.mode = Kind[leaf.evo]
             /\ r.effect.mode \in Effectful /\ source = {}
             /\ (r.effect.disposition # "completed" => r.effect.result = Nil))
TurnIsCurrent(r) == \A i \in DOMAIN DeepestActiveLeaf(r).hist :
    IsOpen(DeepestActiveLeaf(r).hist[i]) => DeepestActiveLeaf(r).hist[i].rev = r.rev
Sound(r, id) == /\ r \in Live /\ Len(r.path) <= MaxDepth
                /\ InOrder(Books(r), id) /\ PathIsDistinct(r) /\ Linked(r)
                /\ EffectFits(r) /\ TurnIsCurrent(r)

\* What is written: every closed record, at its place in its run.  A step writes
\* nothing or one record, and continues every run.
Entries(b) == {<<b.run, i, b.hist[i]>> : i \in {j \in DOMAIN b.hist : ~IsOpen(b.hist[j])}}
Written(S) == UNION {Entries(b) : b \in S}
Continues(a, b) ==
    /\ a.run = b.run /\ Len(a.hist) <= Len(b.hist)
    /\ \A i \in DOMAIN a.hist :
          \/ b.hist[i] = a.hist[i]
          \/ IsOpen(a.hist[i]) /\ b.hist[i] = [a.hist[i] EXCEPT !.out = b.hist[i].out]
Grown(S, T) == \A a \in S : \E b \in T : Continues(a, b)
\* Within one book, and in one book of several.
Adds(b, c, n, rec) ==
    /\ n \in Nat /\ n \notin {j \in DOMAIN b.hist : ~IsOpen(b.hist[j])}
    /\ Entries(c) = Entries(b) \cup {<<b.run, n, rec>>} /\ Continues(b, c)
Silent(b, c) == Entries(c) = Entries(b) /\ Continues(b, c)
Replaces(S, T, b, c) == b \in S /\ T = (S \ {b}) \cup {c}
OneMore(S, T, rec) == \E b \in S, i \in Nat :
    /\ i \notin {j \in DOMAIN b.hist : ~IsOpen(b.hist[j])}
    /\ Written(T) = Written(S) \cup {<<b.run, i, rec>>}

-----------------------------------------------------------------------------
\* One book.

(* Appending a record adds its place and touches no other.                   *)
LEMMA AppendPlaces ==
    ASSUME NEW h \in Seq(Record), NEW rec \in Record
    PROVE  /\ Append(h, rec) \in Seq(Record)
           /\ DOMAIN h = 1..Len(h) /\ Len(h) \in Nat
           /\ Len(Append(h, rec)) = Len(h) + 1
           /\ DOMAIN Append(h, rec) = DOMAIN h \cup {Len(h) + 1}
           /\ Len(h) + 1 \notin DOMAIN h
           /\ Append(h, rec)[Len(h) + 1] = rec
           /\ \A i \in DOMAIN h : Append(h, rec)[i] = h[i]
OBVIOUS

(* What appending a record does to the sources and hooks of an entrance.     *)
LEMMA AppendSources ==
    ASSUME NEW h \in Seq(Record), NEW rec \in Record, NEW e \in Ids
    PROVE  /\ rec.kind = "hook" \/ rec.entry # e => SourceAt(Append(h, rec), e) = SourceAt(h, e)
           /\ rec.kind # "hook" /\ rec.entry = e =>
                SourceAt(Append(h, rec), e) = SourceAt(h, e) \cup {Len(h) + 1}
           /\ rec.kind # "hook" \/ rec.entry # e => Attached(Append(h, rec), e) = Attached(h, e)
           /\ rec.kind = "hook" /\ rec.entry = e =>
                Attached(Append(h, rec), e) = Attached(h, e) \cup {rec.hook}
<1> DEFINE h2 == Append(h, rec)
           n == Len(h) + 1
<1>1. /\ DOMAIN h2 = DOMAIN h \cup {n} /\ n \notin DOMAIN h /\ h2[n] = rec
      /\ \A i \in DOMAIN h : h2[i] = h[i]
  BY AppendPlaces
<1> HIDE DEF h2, n
<1>2. /\ (rec.kind = "hook" \/ rec.entry # e => SourceAt(h2, e) = SourceAt(h, e))
      /\ (rec.kind # "hook" /\ rec.entry = e => SourceAt(h2, e) = SourceAt(h, e) \cup {n})
  BY <1>1 DEF SourceAt
<1>3. ASSUME rec.kind # "hook" \/ rec.entry # e PROVE Attached(h2, e) = Attached(h, e)
  <2>1. {k \in DOMAIN h2 : h2[k].kind = "hook" /\ h2[k].entry = e}
          = {k \in DOMAIN h : h[k].kind = "hook" /\ h[k].entry = e}
    BY <1>1, <1>3
  <2> QED BY <1>1, <2>1 DEF Attached
<1>4. ASSUME rec.kind = "hook" /\ rec.entry = e
      PROVE  Attached(h2, e) = Attached(h, e) \cup {rec.hook}
  BY <1>1, <1>4 DEF Attached
<1> QED BY <1>2, <1>3, <1>4 DEF h2, n

(* A complete entrance stays complete when another one gets a record.        *)
LEMMA AppendComplete ==
    ASSUME NEW h \in Seq(Record), NEW rec \in Record, NEW e \in Ids, rec.entry # e, Complete(h, e)
    PROVE  Complete(Append(h, rec), e)
<1>1. /\ SourceAt(Append(h, rec), e) = SourceAt(h, e)
      /\ Attached(Append(h, rec), e) = Attached(h, e)
  BY AppendSources
<1>2. \A i \in SourceAt(h, e) : Append(h, rec)[i] = h[i]
  BY AppendPlaces DEF SourceAt
<1> QED BY <1>1, <1>2 DEF Complete

(* Without a current source record no record is open, no terminal is settled *)
(* and no hook is attached to the entrance.                                  *)
LEMMA NoSource ==
    ASSUME NEW b \in BookType, Ordered(b), b.at # 0, SourceAt(b.hist, b.at) = {}
    PROVE  /\ \A i \in DOMAIN b.hist : ~IsOpen(b.hist[i]) /\ b.hist[i].kind # "done"
           /\ \A i \in DOMAIN b.hist : b.hist[i].entry # b.at
<1>1. ASSUME NEW i \in DOMAIN b.hist PROVE b.hist[i].entry # b.at
  <2>1. b.hist[i].kind = "hook" \/ b.hist[i].entry # b.at
    BY DEF SourceAt
  <2>2. b.hist[i].kind = "hook" => SourceAt(b.hist, b.hist[i].entry) # {}
    BY DEF Ordered, HooksFollow
  <2> QED BY <2>1, <2>2
<1>2. ASSUME NEW i \in DOMAIN b.hist PROVE b.hist[i].kind # "done"
  <2>1. b.hist[i].entry \in Ids
    BY DEF BookType, Record
  <2> QED BY <1>1, <2>1, 0 \notin Ids DEF Ordered, DoneIsLast, Ids
<1> QED BY <1>1, <1>2 DEF Ordered, OpenIsCurrent

(* The current source record, when there is one, is the only one.            *)
LEMMA TheSource ==
    ASSUME NEW b \in BookType, Ordered(b), NEW i \in SourceAt(b.hist, b.at)
    PROVE  /\ i \in DOMAIN b.hist /\ b.hist[i].entry = b.at /\ b.at \in Ids
           /\ SourceAt(b.hist, b.at) = {i}
           /\ b.hist[i].kind = SourceKind(b.evo) /\ b.hist[i].evo = b.evo
           /\ ~IsOpen(b.hist[i]) => \A j \in DOMAIN b.hist : ~IsOpen(b.hist[j])
<1>1. i \in DOMAIN b.hist /\ b.hist[i].entry = b.at /\ b.at \in Ids
  BY DEF SourceAt, BookType, Record
<1>2. SourceAt(b.hist, b.at) = {i}
  BY <1>1 DEF Ordered, OneSource
<1>3. b.hist[i].kind = SourceKind(b.evo) /\ b.hist[i].evo = b.evo
  BY DEF Ordered, SourceFits
<1>4. ASSUME ~IsOpen(b.hist[i]), NEW j \in DOMAIN b.hist, IsOpen(b.hist[j]) PROVE FALSE
  <2>1. b.hist[j].entry = b.at /\ b.hist[j].kind # "hook"
    BY <1>4 DEF Ordered, OpenIsCurrent, IsOpen
  <2>2. j \in SourceAt(b.hist, b.at)
    BY <2>1 DEF SourceAt
  <2> QED BY <1>2, <1>4, <2>2
<1> QED BY <1>1, <1>2, <1>3, <1>4

(* The missing source record of the current entrance is appended.            *)
LEMMA AppendSourceKept ==
    ASSUME NEW b \in BookType, NEW c \in BookType, Ordered(b), b.at # 0,
           SourceAt(b.hist, b.at) = {}, NEW rec \in Record,
           rec.entry = b.at, rec.evo = b.evo, rec.kind = SourceKind(b.evo), rec.kind # "hook",
           c.hist = Append(b.hist, rec), c.at = b.at, c.evo = b.evo
    PROVE  WellKept(c) /\ SourceAt(c.hist, c.at) = {Len(b.hist) + 1}
           /\ c.hist[Len(b.hist) + 1] = rec /\ Attached(c.hist, c.at) = {}
<1> DEFINE h == b.hist
           g == c.hist
           n == Len(h) + 1
<1>1. h \in Seq(Record) /\ b.at \in Ids
  BY DEF BookType
<1>2. /\ DOMAIN h = 1..Len(h) /\ Len(h) \in Nat /\ Len(g) = n
      /\ DOMAIN g = DOMAIN h \cup {n} /\ n \notin DOMAIN h /\ g[n] = rec
      /\ \A i \in DOMAIN h : g[i] = h[i]
  BY <1>1, AppendPlaces
<1>3. \A i \in DOMAIN h : ~IsOpen(h[i]) /\ h[i].kind # "done" /\ h[i].entry # b.at
  BY NoSource
<1>4. /\ \A e \in Ids : e # b.at => SourceAt(g, e) = SourceAt(h, e) /\ Attached(g, e) = Attached(h, e)
      /\ SourceAt(g, b.at) = {n}
  <2>1. g = Append(h, rec)
    OBVIOUS
  <2> HIDE DEF g
  <2>2. \A e \in Ids : e # b.at => SourceAt(g, e) = SourceAt(h, e) /\ Attached(g, e) = Attached(h, e)
    BY <1>1, <2>1, AppendSources
  <2>3. SourceAt(g, b.at) = SourceAt(h, b.at) \cup {n}
    BY <1>1, <2>1, AppendSources
  <2> QED BY <2>2, <2>3
<1>5. OpenIsCurrent(c) /\ OneSource(c) /\ TurnIsOpened(c)
  <2> HIDE DEF h, g, n
  <2>1. OneSource(b)
    BY DEF Ordered
  <2> QED BY <1>2, <1>3, <1>4, <2>1 DEF OpenIsCurrent, OneSource, TurnIsOpened, g, h
<1>6. HooksFollow(c)
  <2> SUFFICES ASSUME NEW i \in DOMAIN g, g[i].kind = "hook"
               PROVE  \E k \in SourceAt(g, g[i].entry) :
                         k < i /\ ~IsOpen(g[k]) /\ g[i].hook \in Due(g[k])
    BY DEF HooksFollow
  <2>1. i \in DOMAIN h /\ g[i] = h[i]
    BY <1>2
  <2>2. PICK k \in SourceAt(h, h[i].entry) : k < i /\ ~IsOpen(h[k]) /\ h[i].hook \in Due(h[k])
    BY <2>1 DEF Ordered, HooksFollow
  <2>3. h[i].entry \in Ids /\ h[i].entry # b.at
    BY <1>1, <1>3, <2>1 DEF Record
  <2>4. k \in SourceAt(g, g[i].entry) /\ g[k] = h[k]
    BY <1>2, <1>4, <2>1, <2>2, <2>3 DEF SourceAt
  <2> QED BY <2>1, <2>2, <2>4
<1>7. HooksOnce(c)
  BY <1>2 DEF Ordered, HooksOnce
<1>8. DoneIsLast(c)
  BY <1>2, <1>3 DEF DoneIsLast
<1>9. LeftIsComplete(c)
  <2> SUFFICES ASSUME NEW i \in DOMAIN g, g[i].kind # "hook", g[i].entry # b.at
               PROVE  Complete(g, g[i].entry)
    BY DEF LeftIsComplete
  <2>1. i \in DOMAIN h /\ g[i] = h[i]
    BY <1>2
  <2>2. Complete(h, h[i].entry)
    BY <2>1 DEF Ordered, LeftIsComplete
  <2>3. h[i].entry \in Ids /\ g = Append(h, rec)
    BY <1>1, <2>1 DEF Record
  <2> HIDE DEF g
  <2> QED BY <1>1, <2>1, <2>2, <2>3, AppendComplete
<1>10. SourceFits(c)
  BY <1>2, <1>4 DEF SourceFits
<1>11. Attached(g, b.at) = {}
  BY <1>2, <1>3 DEF Attached
<1> QED BY <1>2, <1>4, <1>5, <1>6, <1>7, <1>8, <1>9, <1>10, <1>11 DEF WellKept, Ordered

(* Attaching a due hook to a settled entrance.                               *)
Attaches(b, c, k, rec) ==
    /\ k \in SourceAt(b.hist, b.at) /\ ~IsOpen(b.hist[k])
    /\ rec.entry = b.at /\ rec.kind = "hook"
    /\ rec.hook \in Due(b.hist[k]) /\ rec.hook \notin Attached(b.hist, b.at)
    /\ c.hist = Append(b.hist, rec) /\ c.at = b.at /\ c.evo = b.evo

LEMMA AppendHookKept ==
    ASSUME NEW b \in BookType, NEW c \in BookType, WellKept(b),
           NEW k, NEW rec \in Record, Attaches(b, c, k, rec)
    PROVE  /\ WellKept(c) /\ SourceAt(c.hist, c.at) = {k} /\ c.hist[k] = b.hist[k]
           /\ Attached(c.hist, c.at) = Attached(b.hist, b.at) \cup {rec.hook}
<1>0. /\ k \in SourceAt(b.hist, b.at) /\ ~IsOpen(b.hist[k])
      /\ rec.entry = b.at /\ rec.kind = "hook"
      /\ rec.hook \in Due(b.hist[k]) /\ rec.hook \notin Attached(b.hist, b.at)
      /\ c.hist = Append(b.hist, rec) /\ c.at = b.at /\ c.evo = b.evo
  BY DEF Attaches
<1> USE <1>0
<1> DEFINE h == b.hist
           g == c.hist
           n == Len(h) + 1
<1>1. h \in Seq(Record) /\ b.at \in Ids /\ g = Append(h, rec)
  BY TheSource DEF BookType, WellKept
<1>2. /\ DOMAIN h = 1..Len(h) /\ Len(h) \in Nat /\ Len(g) = n
      /\ DOMAIN g = DOMAIN h \cup {n} /\ n \notin DOMAIN h /\ g[n] = rec
      /\ \A i \in DOMAIN h : g[i] = h[i]
  BY <1>1, AppendPlaces
<1>3. /\ \A i \in DOMAIN h : ~IsOpen(h[i]) /\ h[i].entry \in Ids
      /\ k \in DOMAIN h /\ SourceAt(h, b.at) = {k}
  <2>1. k \in DOMAIN h /\ SourceAt(h, b.at) = {k} /\ \A i \in DOMAIN h : ~IsOpen(h[i])
    BY TheSource DEF WellKept
  <2>2. \A i \in DOMAIN h : h[i].entry \in Ids
    BY <1>1 DEF Record
  <2> QED BY <2>1, <2>2
<1> HIDE DEF g
<1>4. /\ \A e \in Ids : SourceAt(g, e) = SourceAt(h, e)
      /\ \A e \in Ids : e # b.at => Attached(g, e) = Attached(h, e)
      /\ Attached(g, b.at) = Attached(h, b.at) \cup {rec.hook}
  BY <1>1, AppendSources
<1>5. /\ \A e \in Ids : \A i \in SourceAt(h, e) : i \in DOMAIN h /\ g[i] = h[i]
      /\ ~IsOpen(rec)
  BY <1>2 DEF SourceAt, IsOpen
<1>6. OpenIsCurrent(c) /\ OneSource(c) /\ TurnIsOpened(c) /\ SourceFits(c)
  <2>1. OneSource(b) /\ SourceFits(b)
    BY DEF WellKept, Ordered
  <2>2. \A i \in DOMAIN g : ~IsOpen(g[i])
    BY <1>2, <1>3, <1>5
  <2> HIDE DEF n
  <2>3. OneSource(c)
    BY <1>4, <2>1 DEF OneSource, g
  <2>4. OpenIsCurrent(c) /\ TurnIsOpened(c)
    BY <1>1, <1>3, <1>4, <2>2 DEF OpenIsCurrent, TurnIsOpened, g
  <2>5. SourceFits(c)
    BY <1>1, <1>3, <1>4, <1>5, <2>1 DEF SourceFits, g
  <2> QED BY <2>3, <2>4, <2>5
<1>7. HooksFollow(c)
  <2> SUFFICES ASSUME NEW i \in DOMAIN g, g[i].kind = "hook"
               PROVE  \E j \in SourceAt(g, g[i].entry) :
                         j < i /\ ~IsOpen(g[j]) /\ g[i].hook \in Due(g[j])
    BY DEF HooksFollow, g
  <2>1. CASE i = n
    BY <1>1, <1>2, <1>3, <1>4, <2>1
  <2>2. CASE i \in DOMAIN h
    <3>1. PICK j \in SourceAt(h, h[i].entry) : j < i /\ ~IsOpen(h[j]) /\ h[i].hook \in Due(h[j])
      BY <1>2, <2>2 DEF WellKept, Ordered, HooksFollow
    <3> QED BY <1>2, <1>3, <1>4, <1>5, <2>2, <3>1
  <2> QED BY <1>2, <2>1, <2>2
<1>8. HooksOnce(c)
  <2>1. HooksOnce(b)
    BY DEF WellKept, Ordered
  <2>2. \A i \in DOMAIN h : ~(h[i].kind = "hook" /\ h[i].entry = b.at /\ h[i].hook = rec.hook)
    BY DEF Attached
  <2> QED BY <1>2, <2>1, <2>2 DEF HooksOnce, g
<1>9. DoneIsLast(c)
  <2> SUFFICES ASSUME NEW i \in DOMAIN g, NEW j \in DOMAIN g, g[i].kind = "done"
               PROVE  /\ c.at \in {0, g[i].entry}
                      /\ (i < j => g[j].kind = "hook" /\ g[j].entry = g[i].entry)
    BY DEF DoneIsLast, g
  <2>1. i \in DOMAIN h /\ g[i] = h[i] /\ b.at = h[i].entry
    BY <1>1, <1>2, 0 \notin Ids DEF WellKept, Ordered, DoneIsLast, Ids
  <2>2. j \in DOMAIN h => (i < j => h[j].kind = "hook" /\ h[j].entry = h[i].entry)
    BY <1>2, <2>1 DEF WellKept, Ordered, DoneIsLast
  <2> QED BY <1>2, <2>1, <2>2
<1>10. LeftIsComplete(c)
  <2> SUFFICES ASSUME NEW i \in DOMAIN g, g[i].kind # "hook", g[i].entry # b.at
               PROVE  Complete(g, g[i].entry)
    BY DEF LeftIsComplete, g
  <2>1. i \in DOMAIN h /\ g[i] = h[i]
    BY <1>2
  <2>2. Complete(h, h[i].entry)
    BY <2>1 DEF WellKept, Ordered, LeftIsComplete
  <2> QED BY <1>1, <1>3, <2>1, <2>2, AppendComplete
<1> QED BY <1>1, <1>3, <1>4, <1>5, <1>6, <1>7, <1>8, <1>9, <1>10 DEF WellKept, Ordered, g

(* Filling the open Turn keeps every place, its kind and its entrance.       *)
Filled(h, out) == [i \in DOMAIN h |-> IF IsOpen(h[i]) THEN [h[i] EXCEPT !.out = out] ELSE h[i]]

LEMMA FilledPlaces ==
    ASSUME NEW h \in Seq(Record), NEW out \in Outcomes
    PROVE  /\ Filled(h, out) \in Seq(Record) /\ Len(Filled(h, out)) = Len(h)
           /\ DOMAIN Filled(h, out) = DOMAIN h /\ DOMAIN h = 1..Len(h)
           /\ \A i \in DOMAIN h :
                /\ ~IsOpen(Filled(h, out)[i])
                /\ ~IsOpen(h[i]) => Filled(h, out)[i] = h[i]
                /\ IsOpen(h[i]) => Filled(h, out)[i] = [h[i] EXCEPT !.out = out]
                /\ Filled(h, out)[i].kind = h[i].kind /\ Filled(h, out)[i].entry = h[i].entry
                /\ Filled(h, out)[i].evo = h[i].evo /\ Filled(h, out)[i].hook = h[i].hook
                /\ Filled(h, out)[i].run = h[i].run /\ Filled(h, out)[i].rev = h[i].rev
<1> DEFINE g == Filled(h, out)
<1>1. DOMAIN h = 1..Len(h) /\ Len(h) \in Nat /\ DOMAIN g = DOMAIN h
  BY DEF Filled
<1>2. ASSUME NEW i \in DOMAIN h
      PROVE  /\ g[i] \in Record /\ ~IsOpen(g[i])
             /\ (~IsOpen(h[i]) => g[i] = h[i])
             /\ (IsOpen(h[i]) => g[i] = [h[i] EXCEPT !.out = out])
             /\ g[i].kind = h[i].kind /\ g[i].entry = h[i].entry
             /\ g[i].evo = h[i].evo /\ g[i].hook = h[i].hook
             /\ g[i].run = h[i].run /\ g[i].rev = h[i].rev
  <2>1. h[i] \in Record /\ out # Nil /\ out \in Outcomes \cup {Nil}
    BY <1>2, ProgramAssumption
  <2>2. g[i] = IF IsOpen(h[i]) THEN [h[i] EXCEPT !.out = out] ELSE h[i]
    BY <1>2 DEF Filled
  <2> HIDE DEF g
  <2>3. CASE IsOpen(h[i])
    <3>1. g[i] = [h[i] EXCEPT !.out = out]
      BY <2>2, <2>3
    <3> QED BY <2>1, <2>3, <3>1 DEF Record, IsOpen
  <2>4. CASE ~IsOpen(h[i])
    BY <2>1, <2>2, <2>4
  <2> QED BY <2>3, <2>4
<1> HIDE DEF g
<1>3. g \in Seq(Record) /\ Len(g) = Len(h)
  <2>1. g = [i \in 1..Len(h) |-> g[i]]
    BY <1>1 DEF g, Filled
  <2>2. \A i \in 1..Len(h) : g[i] \in Record
    BY <1>1, <1>2
  <2> QED BY <1>1, <2>1, <2>2
<1> QED BY <1>1, <1>2, <1>3 DEF g

(* An answered Message is the settled source of its entrance.                *)
LEMMA FilledKept ==
    ASSUME NEW b \in BookType, NEW c \in BookType, WellKept(b), NEW out \in Outcomes,
           c.hist = Filled(b.hist, out), c.at = b.at, c.evo = b.evo
    PROVE  /\ WellKept(c) /\ SourceAt(c.hist, c.at) = SourceAt(b.hist, b.at)
           /\ Attached(c.hist, c.at) = Attached(b.hist, b.at)
<1> DEFINE h == b.hist
           g == c.hist
<1>1. h \in Seq(Record) /\ g = Filled(h, out)
  BY DEF BookType
<1>2. /\ DOMAIN g = DOMAIN h /\ Len(g) = Len(h)
      /\ \A i \in DOMAIN h :
            /\ ~IsOpen(g[i])
            /\ (~IsOpen(h[i]) => g[i] = h[i])
            /\ g[i].kind = h[i].kind /\ g[i].entry = h[i].entry
            /\ g[i].evo = h[i].evo /\ g[i].hook = h[i].hook
  <2> HIDE DEF g, h
  <2>1. h \in Seq(Record) /\ g = Filled(h, out)
    BY <1>1
  <2>2. g \in Seq(Record) /\ Len(g) = Len(h)
    BY <2>1, FilledPlaces
  <2>3. DOMAIN g = DOMAIN h
    BY <2>1, <2>2
  <2>4. ASSUME NEW i \in DOMAIN h
        PROVE  /\ ~IsOpen(g[i]) /\ (~IsOpen(h[i]) => g[i] = h[i])
               /\ g[i].kind = h[i].kind /\ g[i].entry = h[i].entry
               /\ g[i].evo = h[i].evo /\ g[i].hook = h[i].hook
    <3>1. ~IsOpen(g[i]) /\ (~IsOpen(h[i]) => g[i] = h[i])
      BY <2>1, FilledPlaces
    <3>2. g[i].kind = h[i].kind /\ g[i].entry = h[i].entry
      BY <2>1, FilledPlaces
    <3>3. g[i].evo = h[i].evo /\ g[i].hook = h[i].hook
      BY <2>1, FilledPlaces
    <3> QED BY <3>1, <3>2, <3>3
  <2> QED BY <2>2, <2>3, <2>4
<1> HIDE DEF g, h
<1>3. \A e : SourceAt(g, e) = SourceAt(h, e)
  BY <1>2 DEF SourceAt
<1>4. ASSUME NEW e PROVE Attached(g, e) = Attached(h, e)
  <2>1. {k \in DOMAIN g : g[k].kind = "hook" /\ g[k].entry = e}
          = {k \in DOMAIN h : h[k].kind = "hook" /\ h[k].entry = e}
    BY <1>2
  <2> QED BY <1>2, <2>1 DEF Attached
<1>5. ASSUME NEW e, Complete(h, e) PROVE Complete(g, e)
  <2>1. PICK i \in SourceAt(h, e) : ~IsOpen(h[i]) /\ Attached(h, e) = Due(h[i])
    BY <1>5 DEF Complete
  <2>2. g[i] = h[i] /\ i \in SourceAt(g, e)
    BY <1>2, <1>3, <2>1 DEF SourceAt
  <2> QED BY <1>4, <2>1, <2>2 DEF Complete
<1>6. OpenIsCurrent(c) /\ OneSource(c) /\ TurnIsOpened(c) /\ SourceFits(c)
  <2>1. \A i \in SourceAt(h, b.at) : i \in DOMAIN h
    BY DEF SourceAt
  <2> QED BY <1>2, <1>3, <2>1 DEF WellKept, Ordered, OpenIsCurrent, OneSource, TurnIsOpened, SourceFits, g, h
<1>7. HooksFollow(c)
  <2> SUFFICES ASSUME NEW i \in DOMAIN g, g[i].kind = "hook"
               PROVE  \E j \in SourceAt(g, g[i].entry) :
                         j < i /\ ~IsOpen(g[j]) /\ g[i].hook \in Due(g[j])
    BY DEF HooksFollow, g
  <2>1. i \in DOMAIN h /\ h[i].kind = "hook" /\ h[i].entry = g[i].entry /\ h[i].hook = g[i].hook
    BY <1>2
  <2>2. PICK j \in SourceAt(h, h[i].entry) : j < i /\ ~IsOpen(h[j]) /\ h[i].hook \in Due(h[j])
    BY <2>1 DEF WellKept, Ordered, HooksFollow, h
  <2>3. g[j] = h[j]
    BY <1>2, <2>2 DEF SourceAt
  <2> QED BY <1>3, <2>1, <2>2, <2>3
<1>8. HooksOnce(c)
  BY <1>2 DEF WellKept, Ordered, HooksOnce, g, h
<1>9. DoneIsLast(c)
  BY <1>2 DEF WellKept, Ordered, DoneIsLast, g, h
<1>10. LeftIsComplete(c)
  BY <1>2, <1>5 DEF WellKept, Ordered, LeftIsComplete, g, h
<1> QED BY <1>3, <1>4, <1>6, <1>7, <1>8, <1>9, <1>10 DEF WellKept, Ordered, g, h

(* A run that has attached every hook leaves its entrance: what remains is in *)
(* order, and nothing of it is at the next entrance.                         *)
LEMMA LeaveOrdered ==
    ASSUME NEW b \in BookType, NEW c \in BookType, Ordered(b), Complete(b.hist, b.at),
           c.hist = b.hist, c.at \notin Marks(b), c.at = 0 \/ SourceKind(b.evo) # "done"
    PROVE  /\ Ordered(c) /\ SourceAt(c.hist, c.at) = {}
           /\ \A i \in DOMAIN c.hist : ~IsOpen(c.hist[i])
<1> DEFINE h == b.hist
<1>1. PICK k \in SourceAt(h, b.at) : ~IsOpen(h[k]) /\ Attached(h, b.at) = Due(h[k])
  BY DEF Complete
<1>2. /\ h[k].kind = SourceKind(b.evo) /\ b.at \in Ids
      /\ \A i \in DOMAIN h : ~IsOpen(h[i])
  BY <1>1, TheSource
<1>3. \A i \in DOMAIN h : h[i].entry # c.at
  BY DEF Marks
<1>4. ASSUME NEW i \in DOMAIN h, h[i].kind = "done" PROVE c.at = 0
  <2>1. b.at = h[i].entry
    BY <1>2, <1>4, 0 \notin Ids DEF Ordered, DoneIsLast, Ids
  <2>2. i \in SourceAt(h, b.at)
    BY <1>4, <2>1 DEF SourceAt
  <2> QED BY <1>4, <2>2 DEF Ordered, SourceFits
<1>5. OpenIsCurrent(c) /\ OneSource(c) /\ HooksFollow(c) /\ HooksOnce(c)
  BY <1>2 DEF Ordered, OpenIsCurrent, OneSource, HooksFollow, HooksOnce
<1>6. DoneIsLast(c)
  BY <1>4 DEF Ordered, DoneIsLast
<1>7. LeftIsComplete(c)
  BY DEF Ordered, LeftIsComplete
<1>8. SourceAt(c.hist, c.at) = {}
  BY <1>3 DEF SourceAt
<1> QED BY <1>2, <1>5, <1>6, <1>7, <1>8 DEF Ordered, SourceFits

(* A book without records is in order.                                       *)
LEMMA EmptyOrdered ==
    ASSUME NEW c, c.hist = <<>>
    PROVE  Ordered(c) /\ SourceAt(c.hist, c.at) = {}
<1>1. DOMAIN c.hist = {}
  OBVIOUS
<1>2. \A e : SourceAt(c.hist, e) = {}
  BY <1>1 DEF SourceAt
<1> QED BY <1>1, <1>2 DEF Ordered, OpenIsCurrent, OneSource, HooksFollow, HooksOnce,
           DoneIsLast, LeftIsComplete, SourceFits

(* The Turn that an entrance opens is a record of that entrance.             *)
LEMMA OpenTurnType ==
    ASSUME NEW id \in Ids, NEW e \in Evolutions, NEW n \in Nat
    PROVE  /\ OpenTurn(id, e, n) \in Record /\ IsOpen(OpenTurn(id, e, n))
           /\ OpenTurn(id, e, n).kind = "turn" /\ OpenTurn(id, e, n).entry = id
           /\ OpenTurn(id, e, n).evo = e /\ OpenTurn(id, e, n).rev = n
BY DEF OpenTurn, NewRecord, Record, RecordKinds, IsOpen

(* An entrance: what was in order, with the open Turn of a Message.          *)
Enters(b, c, r, e) ==
    /\ b.evo = e /\ c.at = b.at /\ c.evo = e
    /\ c.hist = b.hist \o TurnsOnEntry(r, b.at, e)

LEMMA EntranceKept ==
    ASSUME NEW b \in BookType, NEW c \in BookType, Ordered(b), b.at # 0,
           SourceAt(b.hist, b.at) = {}, NEW r \in Reckoning,
           NEW e \in Evolutions, Enters(b, c, r, e)
    PROVE  /\ WellKept(c)
           /\ \A i \in DOMAIN b.hist : i \in DOMAIN c.hist /\ c.hist[i] = b.hist[i]
           /\ \A i \in DOMAIN c.hist : IsOpen(c.hist[i]) => c.hist[i].rev = r.rev
           /\ \A i \in DOMAIN c.hist : i \notin DOMAIN b.hist =>
                IsOpen(c.hist[i]) /\ c.hist[i].kind = "turn" /\ c.hist[i].entry = b.at
           /\ Kind[e] # "llm" => SourceAt(c.hist, c.at) = {}
<1>0. b.evo = e /\ c.at = b.at /\ c.evo = e /\ c.hist = b.hist \o TurnsOnEntry(r, b.at, e)
  BY DEF Enters
<1>1. b.hist \in Seq(Record) /\ b.at \in Ids /\ r.rev \in Nat
  BY DEF BookType, Reckoning
<1>2. \A i \in DOMAIN b.hist : ~IsOpen(b.hist[i])
  BY NoSource
<1>3. CASE Kind[e] = "llm"
  <2> DEFINE x == OpenTurn(b.at, e, r.rev)
  <2>1. /\ x \in Record /\ x.kind = "turn" /\ x.entry = b.at /\ x.evo = e /\ x.rev = r.rev
        /\ IsOpen(x)
    BY <1>1, OpenTurnType
  <2>2. TurnsOnEntry(r, b.at, e) = <<x>> /\ SourceKind(e) = "turn"
    <3>1. TurnsOnEntry(r, b.at, e) = <<x>>
      BY <1>3 DEF TurnsOnEntry
    <3>2. SourceKind(e) = "turn"
      BY <1>3 DEF SourceKind, Modes
    <3> QED BY <3>1, <3>2
  <2> HIDE DEF x
  <2>3. c.hist = Append(b.hist, x)
    BY <1>0, <1>1, <2>1, <2>2
  <2>4. WellKept(c)
    BY <1>0, <2>1, <2>2, <2>3, AppendSourceKept
  <2>5. /\ DOMAIN c.hist = DOMAIN b.hist \cup {Len(b.hist) + 1}
        /\ c.hist[Len(b.hist) + 1] = x
        /\ \A i \in DOMAIN b.hist : c.hist[i] = b.hist[i]
    BY <1>1, <2>1, <2>3, AppendPlaces
  <2> QED BY <1>2, <1>3, <2>1, <2>4, <2>5
<1>4. CASE Kind[e] # "llm"
  <2>1. TurnsOnEntry(r, b.at, e) = <<>>
    BY <1>4 DEF TurnsOnEntry
  <2>2. c.hist = b.hist
    BY <1>0, <1>1, <2>1
  <2>3. Ordered(c)
    BY <1>0, <2>2 DEF Ordered, OpenIsCurrent, OneSource, HooksFollow, HooksOnce,
       DoneIsLast, LeftIsComplete, SourceFits
  <2> QED BY <1>0, <1>2, <1>4, <2>2, <2>3 DEF WellKept, TurnIsOpened
<1> QED BY <1>3, <1>4

-----------------------------------------------------------------------------
\* All books together.

(* A run that stays as it is continues itself.                               *)
LEMMA ContinuesItself ==
    ASSUME NEW a \in BookType
    PROVE  Continues(a, a)
<1>1. Len(a.hist) \in Nat
  BY DEF BookType
<1> QED BY <1>1 DEF Continues

(* One book is rewritten: it keeps its run and its child records, and gets   *)
(* no entrance but a fresh one.                                              *)
LEMMA RewriteInOrder ==
    ASSUME NEW S, NEW T, NEW id \in Nat, NEW m \in Nat, InOrder(S, id), NEW b \in S, NEW c \in BookType,
           T = (S \ {b}) \cup {c}, WellKept(c), c.run = b.run, b.at # 0, c.at # 0,
           \/ m = id /\ Marks(c) \subseteq Marks(b)
           \/ m = id + 1 /\ Marks(c) \subseteq Marks(b) \cup {id},
           Children(c) = Children(b),
           \A i \in Children(b) : c.hist[i].run = b.hist[i].run
    PROVE  InOrder(T, m)
<1>1. /\ OneBook(S) /\ Apart(S) /\ Drawn(S, id)
      /\ RefersToArchive(S) /\ ArchiveIsReferred(S) /\ RefersOnce(S)
      /\ ChildIsLater(S) /\ ArchiveIsDone(S)
      /\ \A x \in S : x \in BookType /\ WellKept(x)
  BY DEF InOrder
<1>2. \A x \in S : x.run \in Ids
  BY <1>1 DEF BookType
<1>3. \A x \in S : id \notin Marks(x)
  BY <1>1 DEF Drawn, Ids
<1>4. OneBook(T)
  BY <1>1 DEF OneBook
<1>5. Apart(T)
  <2> SUFFICES ASSUME NEW x \in T, NEW y \in T, x.run # y.run PROVE Marks(x) \cap Marks(y) = {}
    BY DEF Apart
  <2>1. \A z \in S : z.run # b.run => Marks(c) \cap Marks(z) = {}
    BY <1>1, <1>3 DEF Apart
  <2> QED BY <1>1, <2>1 DEF Apart
<1>6. Drawn(T, m)
  <2>1. \A x \in S : \A e \in Marks(x) : e \in Ids
    <3> SUFFICES ASSUME NEW x \in S, NEW e \in Marks(x) PROVE e \in Ids
      OBVIOUS
    <3>1. x.hist \in Seq(Record) /\ x.at \in Ids \cup {0}
      BY <1>1 DEF BookType
    <3> QED BY <3>1 DEF Marks, Record
  <2>2. \A x \in S : x.run < m /\ \A e \in Marks(x) : e < m
    BY <1>1, <1>2, <2>1 DEF Drawn, Ids
  <2>3. id \in Nat /\ (m = id + 1 => id < m)
    BY DEF Ids
  <2>4. c.run < m /\ \A e \in Marks(c) : e < m
    BY <2>2, <2>3
  <2> QED BY <2>2, <2>4 DEF Drawn
<1>7. RefersToArchive(T)
  <2> SUFFICES ASSUME NEW x \in T, NEW i \in Children(x)
               PROVE  \E d \in T : d.at = 0 /\ d.run = x.hist[i].run
    BY DEF RefersToArchive
  <2>1. \E y \in S : i \in Children(y) /\ x.hist[i].run = y.hist[i].run
    OBVIOUS
  <2>2. PICK d \in S : d.at = 0 /\ d.run = x.hist[i].run
    BY <1>1, <2>1 DEF RefersToArchive
  <2> QED BY <2>2
<1>8. ArchiveIsReferred(T)
  <2> SUFFICES ASSUME NEW d \in T, d.at = 0
               PROVE  \E x \in T : \E i \in Children(x) : x.hist[i].run = d.run
    BY DEF ArchiveIsReferred
  <2>1. PICK x \in S : \E i \in Children(x) : x.hist[i].run = d.run
    BY <1>1 DEF ArchiveIsReferred
  <2>2. CASE x = b
    BY <2>1, <2>2
  <2>3. CASE x # b
    BY <2>1, <2>3
  <2> QED BY <2>2, <2>3
<1>9. RefersOnce(T)
  <2> SUFFICES ASSUME NEW x \in T, NEW y \in T, NEW i \in Children(x), NEW j \in Children(y),
                      x.hist[i].run = y.hist[j].run
               PROVE  x = y /\ i = j
    BY DEF RefersOnce
  <2> DEFINE Old(z) == IF z = c THEN b ELSE z
  <2>1. ASSUME NEW z \in T, NEW k \in Children(z)
        PROVE  Old(z) \in S /\ k \in Children(Old(z)) /\ z.hist[k].run = Old(z).hist[k].run
    BY <2>1
  <2>4. ASSUME NEW z \in T, NEW w \in T, Old(z) = Old(w) PROVE z = w
    <3>1. c \in S => c = b
      BY <1>1 DEF OneBook
    <3> QED BY <2>4, <3>1
  <2>5. /\ Old(x) \in S /\ i \in Children(Old(x)) /\ x.hist[i].run = Old(x).hist[i].run
        /\ Old(y) \in S /\ j \in Children(Old(y)) /\ y.hist[j].run = Old(y).hist[j].run
    BY <2>1
  <2> HIDE DEF Old
  <2>2. Old(x) = Old(y) /\ i = j
    <3>1. PICK u \in S : u = Old(x)
      BY <2>5
    <3>2. PICK v \in S : v = Old(y)
      BY <2>5
    <3>3. i \in Children(u) /\ j \in Children(v) /\ u.hist[i].run = v.hist[j].run
      BY <2>5, <3>1, <3>2
    <3>4. u = v /\ i = j
      BY <1>1, <3>3 DEF RefersOnce
    <3> QED BY <3>1, <3>2, <3>4
  <2>3. x = y
    BY <2>2, <2>4
  <2> QED BY <2>2, <2>3
<1>10. \A x \in T : x \in BookType /\ WellKept(x)
  BY <1>1
<1>11. ChildIsLater(T) /\ ArchiveIsDone(T)
  <2>1. \A i \in Children(c) : c.run < c.hist[i].run
    BY <1>1 DEF ChildIsLater
  <2> QED BY <1>1, <2>1 DEF ChildIsLater, ArchiveIsDone
<1> QED BY <1>4, <1>5, <1>6, <1>7, <1>8, <1>9, <1>10, <1>11 DEF InOrder

(* A fresh run is opened: it has no child records and no entrance but its    *)
(* own.                                                                      *)
LEMMA OpenInOrder ==
    ASSUME NEW S, NEW T, NEW id \in Ids, InOrder(S, id), NEW c \in BookType,
           T = S \cup {c}, WellKept(c), c.run = id, c.at # 0, Marks(c) \subseteq {id},
           Children(c) = {}
    PROVE  InOrder(T, id + 1)
<1>1. /\ OneBook(S) /\ Apart(S) /\ Drawn(S, id)
      /\ RefersToArchive(S) /\ ArchiveIsReferred(S) /\ RefersOnce(S)
      /\ ChildIsLater(S) /\ ArchiveIsDone(S)
      /\ \A x \in S : x \in BookType /\ WellKept(x)
  BY DEF InOrder
<1>2. \A x \in S : x.run # id /\ id \notin Marks(x)
  BY <1>1 DEF Drawn, Ids
<1>3. OneBook(T) /\ Apart(T)
  BY <1>1, <1>2 DEF OneBook, Apart
<1>4. Drawn(T, id + 1)
  <2>1. \A x \in S : x.run \in Ids /\ \A e \in Marks(x) : e \in Ids
    <3> SUFFICES ASSUME NEW x \in S PROVE x.run \in Ids /\ \A e \in Marks(x) : e \in Ids
      OBVIOUS
    <3>1. x.hist \in Seq(Record) /\ x.at \in Ids \cup {0} /\ x.run \in Ids
      BY <1>1 DEF BookType
    <3> QED BY <3>1 DEF Marks, Record
  <2>2. \A x \in S : x.run < id + 1 /\ \A e \in Marks(x) : e < id + 1
    BY <1>1, <2>1 DEF Drawn, Ids
  <2>3. c.run < id + 1 /\ \A e \in Marks(c) : e < id + 1
    BY DEF Ids
  <2> QED BY <2>2, <2>3 DEF Drawn
<1>5. RefersToArchive(T) /\ ArchiveIsReferred(T) /\ RefersOnce(T)
  BY <1>1 DEF RefersToArchive, ArchiveIsReferred, RefersOnce
<1>6. ChildIsLater(T) /\ ArchiveIsDone(T)
  BY <1>1 DEF ChildIsLater, ArchiveIsDone
<1> QED BY <1>1, <1>3, <1>4, <1>5, <1>6 DEF InOrder

(* A run returns: its book is shelved, and its parent's gets the one record  *)
(* that refers to it.                                                        *)
LEMMA ShelveInOrder ==
    ASSUME NEW S, NEW T, NEW id, InOrder(S, id),
           NEW a \in S, NEW b \in S, a.run < b.run, a.run # b.run,
           a.at # 0, b.at # 0,
           NEW c \in BookType, NEW d \in BookType, T = (S \ {a, b}) \cup {c, d},
           c.run = a.run, c.at # 0, WellKept(c), Marks(c) \subseteq Marks(a),
           NEW n, n \notin Children(a), Children(c) = Children(a) \cup {n},
           c.hist[n].run = b.run, \A i \in Children(a) : c.hist[i].run = a.hist[i].run,
           d.run = b.run, d.at = 0, d.hist = b.hist, WellKept(d),
           \E i \in DOMAIN d.hist : d.hist[i].kind = "done"
    PROVE  InOrder(T, id)
<1>1. /\ OneBook(S) /\ Apart(S) /\ Drawn(S, id)
      /\ RefersToArchive(S) /\ ArchiveIsReferred(S) /\ RefersOnce(S)
      /\ ChildIsLater(S) /\ ArchiveIsDone(S)
      /\ \A x \in S : x \in BookType /\ WellKept(x)
  BY DEF InOrder
<1>2. Marks(d) \subseteq Marks(b) /\ Children(d) = Children(b)
  BY DEF Marks, Children
<1> DEFINE Old(z) == IF z = c THEN a ELSE IF z = d THEN b ELSE z
<1>3. ASSUME NEW z \in T
      PROVE  /\ Old(z) \in S /\ Old(z).run = z.run /\ Marks(z) \subseteq Marks(Old(z))
  BY <1>2
<1>4. ASSUME NEW z \in T, NEW w \in T, z.run = w.run PROVE z = w
  BY <1>1, <1>4 DEF OneBook
<1>5. ASSUME NEW z \in T, NEW k \in Children(z), ~(z = c /\ k = n)
      PROVE  k \in Children(Old(z)) /\ z.hist[k].run = Old(z).hist[k].run
  BY <1>2, <1>5
<1>6. ASSUME NEW z \in S
      PROVE  \E w \in T : /\ Children(z) \subseteq Children(w)
                          /\ \A k \in Children(z) : w.hist[k].run = z.hist[k].run
  <2>1. CASE z = a
    BY <2>1
  <2>2. CASE z = b
    BY <1>2, <2>2
  <2>3. CASE z # a /\ z # b
    BY <2>3
  <2> QED BY <2>1, <2>2, <2>3
<1>7. \A z \in S : z.at = 0 => z \in T
  OBVIOUS
<1>8. \A z \in T : z.at = 0 => z = d \/ z \in S
  OBVIOUS
<1>11. c \in T /\ d \in T /\ \A x \in T : x \in BookType /\ WellKept(x)
  BY <1>1
<1> HIDE DEF Old
<1>9. OneBook(T) /\ Apart(T) /\ Drawn(T, id)
  <2>1. ASSUME NEW x \in T, NEW y \in T, x.run # y.run PROVE Marks(x) \cap Marks(y) = {}
    <3>1. PICK u \in S : u.run = x.run /\ Marks(x) \subseteq Marks(u)
      BY <1>3
    <3>2. PICK v \in S : v.run = y.run /\ Marks(y) \subseteq Marks(v)
      BY <1>3
    <3>3. Marks(u) \cap Marks(v) = {}
      BY <1>1, <2>1, <3>1, <3>2 DEF Apart
    <3> QED BY <3>1, <3>2, <3>3
  <2>2. ASSUME NEW x \in T PROVE x.run < id /\ \A e \in Marks(x) : e < id
    <3>1. PICK u \in S : u.run = x.run /\ Marks(x) \subseteq Marks(u)
      BY <1>3
    <3> QED BY <1>1, <3>1 DEF Drawn
  <2> QED BY <1>4, <2>1, <2>2 DEF OneBook, Apart, Drawn
<1>10. RefersToArchive(T)
  <2> SUFFICES ASSUME NEW x \in T, NEW i \in Children(x)
               PROVE  \E z \in T : z.at = 0 /\ z.run = x.hist[i].run
    BY DEF RefersToArchive
  <2>1. CASE x = c /\ i = n
    BY <1>11, <2>1
  <2>2. CASE ~(x = c /\ i = n)
    <3>1. PICK u \in S : i \in Children(u) /\ x.hist[i].run = u.hist[i].run
      BY <1>3, <1>5, <2>2
    <3>2. PICK z \in S : z.at = 0 /\ z.run = u.hist[i].run
      BY <1>1, <3>1 DEF RefersToArchive
    <3> QED BY <1>7, <3>1, <3>2
  <2> QED BY <2>1, <2>2
<1>12. ArchiveIsReferred(T)
  <2> SUFFICES ASSUME NEW z \in T, z.at = 0
               PROVE  \E x \in T : \E i \in Children(x) : x.hist[i].run = z.run
    BY DEF ArchiveIsReferred
  <2>1. CASE z = d
    BY <1>11, <2>1
  <2>2. CASE z \in S
    <3>1. PICK u \in S : \E i \in Children(u) : u.hist[i].run = z.run
      BY <1>1, <2>2 DEF ArchiveIsReferred
    <3> QED BY <1>6, <3>1
  <2> QED BY <1>8, <2>1, <2>2
<1>13. ASSUME NEW y \in T, NEW j \in Children(y), y.hist[j].run = b.run PROVE y = c /\ j = n
  <2> SUFFICES ASSUME ~(y = c /\ j = n) PROVE FALSE
    OBVIOUS
  <2>1. PICK v \in S : j \in Children(v) /\ y.hist[j].run = v.hist[j].run
    BY <1>3, <1>5
  <2>2. PICK z \in S : z.at = 0 /\ z.run = b.run
    BY <1>1, <1>13, <2>1 DEF RefersToArchive
  <2> QED BY <1>1, <2>2 DEF OneBook
<1>14. RefersOnce(T)
  <2> SUFFICES ASSUME NEW x \in T, NEW y \in T, NEW i \in Children(x), NEW j \in Children(y),
                      x.hist[i].run = y.hist[j].run
               PROVE  x = y /\ i = j
    BY DEF RefersOnce
  <2>1. CASE x = c /\ i = n
    BY <1>13, <2>1
  <2>2. CASE y = c /\ j = n
    BY <1>13, <2>2
  <2>3. CASE ~(x = c /\ i = n) /\ ~(y = c /\ j = n)
    <3>1. PICK u \in S : u.run = x.run /\ i \in Children(u) /\ x.hist[i].run = u.hist[i].run
      BY <1>3, <1>5, <2>3
    <3>2. PICK v \in S : v.run = y.run /\ j \in Children(v) /\ y.hist[j].run = v.hist[j].run
      BY <1>3, <1>5, <2>3
    <3>4. i \in Children(u) /\ j \in Children(v) /\ u.hist[i].run = v.hist[j].run
      BY <3>1, <3>2
    <3>3. u = v /\ i = j
      BY <1>1, <3>4 DEF RefersOnce
    <3> QED BY <1>4, <3>1, <3>2, <3>3
  <2> QED BY <2>1, <2>2, <2>3
<1>15. ChildIsLater(T)
  <2> SUFFICES ASSUME NEW x \in T, NEW i \in Children(x) PROVE x.run < x.hist[i].run
    BY DEF ChildIsLater
  <2>1. CASE x = c /\ i = n
    BY <2>1
  <2>2. CASE ~(x = c /\ i = n)
    <3>1. PICK u \in S : u.run = x.run /\ i \in Children(u) /\ x.hist[i].run = u.hist[i].run
      BY <1>3, <1>5, <2>2
    <3> QED BY <1>1, <3>1 DEF ChildIsLater
  <2> QED BY <2>1, <2>2
<1>16. ArchiveIsDone(T)
  BY <1>1, <1>8 DEF ArchiveIsDone
<1> QED BY <1>9, <1>10, <1>11, <1>12, <1>14, <1>15, <1>16 DEF InOrder

(* A book without closed records adds nothing; a shelved run keeps what it   *)
(* has written.                                                              *)
LEMMA WrittenMore ==
    ASSUME NEW S, NEW c, \A i \in DOMAIN c.hist : IsOpen(c.hist[i])
    PROVE  Written(S \cup {c}) = Written(S)
<1>1. Entries(c) = {}
  BY DEF Entries
<1> QED BY <1>1 DEF Written

(* Appending a closed record to a book whose records are closed writes one   *)
(* record more.                                                              *)
LEMMA WrittenAppended ==
    ASSUME NEW b \in BookType, NEW c, NEW rec \in Record, ~IsOpen(rec),
           c.run = b.run, c.hist = Append(b.hist, rec)
    PROVE  Adds(b, c, Len(b.hist) + 1, rec)
<1>1. b.hist \in Seq(Record)
  BY DEF BookType
<1> DEFINE h == b.hist
           g == c.hist
           n == Len(h) + 1
<1>2. /\ DOMAIN g = DOMAIN h \cup {n} /\ n \notin DOMAIN h /\ g[n] = rec
      /\ \A i \in DOMAIN h : g[i] = h[i]
      /\ Len(h) \in Nat /\ Len(g) = n
  BY <1>1, AppendPlaces
<1> HIDE DEF h, g, n
<1>3. {j \in DOMAIN g : ~IsOpen(g[j])} = {j \in DOMAIN h : ~IsOpen(h[j])} \cup {n}
  BY <1>2
<1>4. Entries(c) = Entries(b) \cup {<<b.run, n, rec>>}
  BY <1>2, <1>3 DEF Entries, g, h
<1>5. Len(h) <= Len(g)
  BY <1>2 DEF n
<1>6. n \in Nat
  BY <1>2 DEF n
<1> QED BY <1>2, <1>4, <1>5, <1>6 DEF Adds, Continues, g, h, n

(* Answering an open Turn, the last record of its book, writes it.           *)
LEMMA WrittenFilled ==
    ASSUME NEW b \in BookType, NEW c, NEW out \in Outcomes, c.run = b.run,
           c.hist = Filled(b.hist, out), OpenIsCurrent(b),
           NEW i \in DOMAIN b.hist, IsOpen(b.hist[i])
    PROVE  Adds(b, c, i, [b.hist[i] EXCEPT !.out = out])
<1> DEFINE h == b.hist
           g == c.hist
           x == [h[i] EXCEPT !.out = out]
<1>1. h \in Seq(Record) /\ g = Filled(h, out)
  BY DEF BookType
<1>2. /\ DOMAIN g = DOMAIN h /\ Len(g) = Len(h) /\ DOMAIN h = 1..Len(h) /\ Len(h) \in Nat
      /\ \A j \in DOMAIN h : /\ ~IsOpen(g[j])
                             /\ (~IsOpen(h[j]) => g[j] = h[j])
                             /\ (IsOpen(h[j]) => g[j] = [h[j] EXCEPT !.out = out])
  <2> HIDE DEF g, h
  <2> QED BY <1>1, FilledPlaces
<1>3. \A j \in DOMAIN h : IsOpen(h[j]) <=> j = i
  BY DEF OpenIsCurrent
<1>4. g[i] = x /\ i \in DOMAIN h /\ IsOpen(h[i])
  BY <1>2
<1> HIDE DEF g, h, x
<1>5. {j \in DOMAIN g : ~IsOpen(g[j])} = {j \in DOMAIN h : ~IsOpen(h[j])} \cup {i}
  BY <1>2, <1>3, <1>4
<1>6. Entries(c) = Entries(b) \cup {<<b.run, i, x>>}
  <2> DEFINE D == {j \in DOMAIN h : ~IsOpen(h[j])}
  <2>1. \A j \in D : g[j] = h[j]
    BY <1>2
  <2>2. Entries(c) = {<<b.run, j, g[j]>> : j \in D \cup {i}}
    BY <1>5 DEF Entries, g
  <2>3. Entries(b) = {<<b.run, j, h[j]>> : j \in D}
    BY DEF Entries, h
  <2> HIDE DEF D
  <2> QED BY <1>4, <2>1, <2>2, <2>3
<1>7. \A j \in DOMAIN h : \/ g[j] = h[j]
                          \/ IsOpen(h[j]) /\ g[j] = [h[j] EXCEPT !.out = g[j].out]
  <2>1. h[i] \in Record
    BY <1>1, <1>2 DEF h
  <2>2. x = [h[i] EXCEPT !.out = x.out]
    BY <2>1 DEF x, Record
  <2> QED BY <1>2, <1>3, <1>4, <2>2 DEF h
<1> QED BY <1>2, <1>6, <1>7 DEF Adds, Continues, g, h, x

(* Continuing twice is continuing.                                           *)
LEMMA ContinuesOn ==
    ASSUME NEW a \in BookType, NEW b \in BookType, NEW c \in BookType,
           Continues(a, b), Continues(b, c)
    PROVE  Continues(a, c)
<1>1. /\ Len(a.hist) \in Nat /\ Len(b.hist) \in Nat /\ Len(c.hist) \in Nat
      /\ DOMAIN a.hist = 1..Len(a.hist) /\ DOMAIN b.hist = 1..Len(b.hist)
      /\ \A i \in DOMAIN a.hist : a.hist[i] \in Record
  BY DEF BookType
<1>2. ASSUME NEW i \in DOMAIN a.hist
      PROVE  \/ c.hist[i] = a.hist[i]
             \/ IsOpen(a.hist[i]) /\ c.hist[i] = [a.hist[i] EXCEPT !.out = c.hist[i].out]
  <2>1. i \in DOMAIN b.hist
    BY <1>1 DEF Continues
  <2>2. \/ b.hist[i] = a.hist[i]
        \/ IsOpen(a.hist[i]) /\ b.hist[i] = [a.hist[i] EXCEPT !.out = b.hist[i].out]
    BY DEF Continues
  <2>3. \/ c.hist[i] = b.hist[i]
        \/ IsOpen(b.hist[i]) /\ c.hist[i] = [b.hist[i] EXCEPT !.out = c.hist[i].out]
    BY <2>1 DEF Continues
  <2> QED BY <1>1, <2>2, <2>3 DEF Record
<1> QED BY <1>1, <1>2 DEF Continues

LEMMA GrownOn ==
    ASSUME NEW S \in SUBSET BookType, NEW T \in SUBSET BookType, NEW U \in SUBSET BookType,
           Grown(S, T), Grown(T, U)
    PROVE  Grown(S, U)
<1> SUFFICES ASSUME NEW a \in S PROVE \E c \in U : Continues(a, c)
  BY DEF Grown
<1>1. PICK b \in T : Continues(a, b)
  BY DEF Grown
<1>2. PICK c \in U : Continues(b, c)
  BY DEF Grown
<1> QED BY <1>1, <1>2, ContinuesOn

-----------------------------------------------------------------------------
\* The path of a sound Reckoning.

(* A frame's book, and the book of the leaf.                                 *)
LEMMA FrameBook ==
    ASSUME NEW f \in Frame
    PROVE  /\ Book(f) \in BookType /\ Book(f).run = f.run /\ Book(f).at = f.entry
           /\ Book(f).evo = f.evo /\ Book(f).hist = f.hist
           /\ f.entry \in Ids /\ f.entry # 0 /\ f.hist \in Seq(Record) /\ f.evo \in Evolutions
BY DEF Book, BookType, Frame, Ids

LEMMA LeafBook ==
    ASSUME NEW r, NEW id, Sound(r, id)
    PROVE  /\ DeepestActiveLeaf(r) \in Frame
           /\ Book(DeepestActiveLeaf(r)) \in Books(r)
           /\ Book(DeepestActiveLeaf(r)) \in BookType
           /\ WellKept(Book(DeepestActiveLeaf(r))) /\ Ordered(Book(DeepestActiveLeaf(r)))
           /\ r \in Live /\ r.path \in Seq(Frame) /\ Len(r.path) \in Nat \ {0}
           /\ r.completed \in SUBSET CompletedRun
           /\ Books(r) \in SUBSET BookType
<1>1. r \in Live /\ InOrder(Books(r), id)
  BY DEF Sound
<1>2. Len(r.path) \in DOMAIN r.path /\ DeepestActiveLeaf(r) \in Frame /\ Len(r.path) \in Nat \ {0}
  BY <1>1, LeafType
<1>3. Book(DeepestActiveLeaf(r)) \in Books(r)
  BY <1>2 DEF Books, DeepestActiveLeaf
<1>4. \A b \in Books(r) : b \in BookType /\ WellKept(b)
  BY <1>1 DEF InOrder
<1> QED BY <1>1, <1>2, <1>3, <1>4 DEF Live, Reckoning, WellKept

\* s is r with its leaf rewritten to g.
Moved(r, s, g) ==
    /\ s.path = [r.path EXCEPT ![Len(r.path)] = g] /\ s.completed = r.completed
    /\ g \in Frame /\ g.run = DeepestActiveLeaf(r).run
    /\ g.held = DeepestActiveLeaf(r).held /\ g.hook = DeepestActiveLeaf(r).hook

(* Rewriting the leaf rewrites its book and leaves the others.               *)
LEMMA MovedPath ==
    ASSUME NEW r, NEW id, Sound(r, id), NEW s, NEW g, Moved(r, s, g)
    PROVE  /\ DOMAIN s.path = DOMAIN r.path /\ Len(s.path) = Len(r.path)
           /\ DeepestActiveLeaf(s) = g
           /\ \A n \in DOMAIN r.path : n # Len(r.path) => s.path[n] = r.path[n]
           /\ \A n \in DOMAIN r.path : s.path[n].run = r.path[n].run
           /\ Books(s) = (Books(r) \ {Book(DeepestActiveLeaf(r))}) \cup {Book(g)}
<1> DEFINE l == Len(r.path)
           b == Book(DeepestActiveLeaf(r))
<1>1. r.path \in Seq(Frame) /\ l \in Nat \ {0} /\ l \in DOMAIN r.path /\ DeepestActiveLeaf(r) = r.path[l]
  BY LeafBook DEF DeepestActiveLeaf
<1>2. /\ DOMAIN s.path = DOMAIN r.path /\ Len(s.path) = l /\ s.path[l] = g
      /\ \A n \in DOMAIN r.path : n # l => s.path[n] = r.path[n]
  BY <1>1 DEF Moved
<1>3. \A n \in DOMAIN r.path : r.path[n] \in Frame
  BY <1>1
<1>4. \A n \in DOMAIN r.path : n # l => Book(r.path[n]) # b
  <2> SUFFICES ASSUME NEW n \in DOMAIN r.path, n # l PROVE Book(r.path[n]) # b
    OBVIOUS
  <2>1. r.path[n].run # r.path[l].run
    BY <1>1 DEF Sound, PathIsDistinct
  <2> QED BY <1>1, <2>1 DEF Book
<1>5. \A c \in r.completed : Shelved(c) # b
  <2>1. b.at # 0
    BY LeafBook, FrameBook
  <2> QED BY <2>1 DEF Shelved
<1>6. Books(s) = (Books(r) \ {b}) \cup {Book(g)}
  <2> HIDE DEF l, b
  <2>1. Books(s) = {Book(s.path[n]) : n \in DOMAIN r.path} \cup {Shelved(c) : c \in r.completed}
    BY <1>2 DEF Books, Moved
  <2>2. b = Book(r.path[l])
    BY <1>1 DEF b
  <2> QED BY <1>1, <1>2, <1>4, <1>5, <2>1, <2>2 DEF Books
<1>7. \A n \in DOMAIN r.path : s.path[n].run = r.path[n].run
  BY <1>1, <1>2 DEF Moved
<1> QED BY <1>1, <1>2, <1>6, <1>7 DEF DeepestActiveLeaf

(* Moving the leaf keeps the path distinct and linked, and its books in      *)
(* order when the leaf's new book is.                                        *)
LEMMA MovedInOrder ==
    ASSUME NEW r, NEW id \in Nat, Sound(r, id), NEW s, NEW g, Moved(r, s, g), NEW m \in Nat,
           WellKept(Book(g)),
           \/ m = id /\ Marks(Book(g)) \subseteq Marks(Book(DeepestActiveLeaf(r)))
           \/ m = id + 1 /\ Marks(Book(g)) \subseteq Marks(Book(DeepestActiveLeaf(r))) \cup {id},
           Children(Book(g)) = Children(Book(DeepestActiveLeaf(r))),
           \A i \in Children(Book(g)) : g.hist[i].run = DeepestActiveLeaf(r).hist[i].run
    PROVE  /\ InOrder(Books(s), m) /\ PathIsDistinct(s) /\ Linked(s)
           /\ Len(s.path) <= MaxDepth
<1> DEFINE f == DeepestActiveLeaf(r)
<1>1. /\ Book(f) \in Books(r) /\ Book(f).at # 0 /\ Book(f).run = f.run /\ Book(f).hist = f.hist
      /\ Book(g) \in BookType /\ Book(g).at # 0 /\ Book(g).run = g.run /\ Book(g).hist = g.hist
      /\ g.run = f.run
  BY LeafBook, FrameBook DEF Moved
<1>2. /\ DOMAIN s.path = DOMAIN r.path /\ Len(s.path) = Len(r.path)
      /\ DeepestActiveLeaf(s) = g
      /\ \A n \in DOMAIN r.path : n # Len(r.path) => s.path[n] = r.path[n]
      /\ \A n \in DOMAIN r.path : s.path[n].run = r.path[n].run
      /\ Books(s) = (Books(r) \ {Book(f)}) \cup {Book(g)}
  BY MovedPath
<1>3. InOrder(Books(r), id) /\ PathIsDistinct(r) /\ Linked(r) /\ Len(r.path) <= MaxDepth
  BY DEF Sound
<1> HIDE DEF f
<1>4. InOrder(Books(s), m)
  <2>1. \A i \in Children(Book(f)) : Book(g).hist[i].run = Book(f).hist[i].run
    BY <1>1 DEF f
  <2> QED BY <1>1, <1>2, <1>3, <2>1, RewriteInOrder DEF f
<1>5. PathIsDistinct(s)
  BY <1>2, <1>3 DEF PathIsDistinct
<1>6. Linked(s)
  <2> SUFFICES ASSUME NEW n \in DOMAIN r.path, n # 1 PROVE Waits(s.path[n - 1], s.path[n])
    BY <1>2 DEF Linked
  <2>1. r.path \in Seq(Frame) /\ Len(r.path) \in Nat
    BY LeafBook
  <2>2. n - 1 \in DOMAIN r.path /\ n - 1 # Len(r.path)
    BY <2>1
  <2>3. Waits(r.path[n - 1], r.path[n]) /\ s.path[n - 1] = r.path[n - 1]
    BY <1>2, <1>3, <2>2 DEF Linked
  <2>4. /\ s.path[n].held = r.path[n].held /\ s.path[n].hook = r.path[n].hook
        /\ s.path[n].run = r.path[n].run
    <3>1. CASE n = Len(r.path)
      BY <1>2, <3>1 DEF Moved, DeepestActiveLeaf
    <3>2. CASE n # Len(r.path)
      BY <1>2, <3>2
    <3> QED BY <3>1, <3>2
  <2> QED BY <2>3, <2>4 DEF Waits
<1> QED BY <1>2, <1>3, <1>4, <1>5, <1>6

-----------------------------------------------------------------------------
\* Accepting into the leaf.  rec is the settled source record of r's leaf.
Settles(r, rec) ==
    LET f == DeepestActiveLeaf(r)
    IN \E i \in SourceAt(f.hist, f.entry) : rec = f.hist[i] /\ ~IsOpen(rec)

(* What a recorded leaf is: its one source record is settled, of its kind,   *)
(* every record of its run is closed, and no machine is in recovery.         *)
LEMMA SettledLeaf ==
    ASSUME NEW r, NEW id, Sound(r, id), NEW rec, Settles(r, rec)
    PROVE  /\ rec \in Record /\ rec.entry = DeepestActiveLeaf(r).entry
           /\ rec.evo = DeepestActiveLeaf(r).evo /\ rec.kind = SourceKind(rec.evo)
           /\ ~IsOpen(rec) /\ rec.out \in Outcomes
           /\ \A j \in DOMAIN DeepestActiveLeaf(r).hist : ~IsOpen(DeepestActiveLeaf(r).hist[j])
           /\ r.effect.disposition = "none"
           /\ \E i \in SourceAt(DeepestActiveLeaf(r).hist, DeepestActiveLeaf(r).entry) :
                 /\ rec = DeepestActiveLeaf(r).hist[i]
                 /\ SourceAt(DeepestActiveLeaf(r).hist, DeepestActiveLeaf(r).entry) = {i}
<1> DEFINE f == DeepestActiveLeaf(r)
           b == Book(f)
<1>1. f \in Frame /\ b \in BookType /\ Ordered(b)
  BY LeafBook
<1>2. b.hist = f.hist /\ b.at = f.entry /\ b.evo = f.evo /\ f.hist \in Seq(Record)
  BY <1>1, FrameBook
<1>3. PICK i \in SourceAt(f.hist, f.entry) : rec = f.hist[i] /\ ~IsOpen(rec)
  BY DEF Settles
<1>4. EffectFits(r)
  BY DEF Sound
<1> HIDE DEF f, b
<1>5. /\ i \in DOMAIN f.hist /\ f.hist[i].entry = f.entry
      /\ SourceAt(f.hist, f.entry) = {i}
      /\ f.hist[i].kind = SourceKind(f.evo) /\ f.hist[i].evo = f.evo
      /\ \A j \in DOMAIN f.hist : ~IsOpen(f.hist[j])
  <2>1. i \in SourceAt(b.hist, b.at) /\ ~IsOpen(b.hist[i])
    BY <1>2, <1>3
  <2>2. /\ i \in DOMAIN b.hist /\ b.hist[i].entry = b.at
        /\ SourceAt(b.hist, b.at) = {i}
        /\ b.hist[i].kind = SourceKind(b.evo) /\ b.hist[i].evo = b.evo
        /\ \A j \in DOMAIN b.hist : ~IsOpen(b.hist[j])
    BY <1>1, <2>1, TheSource
  <2> QED BY <1>2, <2>2
<1>6. rec \in Record
  BY <1>2, <1>3, <1>5
<1>7. rec.out \in Outcomes
  BY <1>3, <1>6 DEF IsOpen, Record
<1>8. r.effect.disposition = "none"
  BY <1>3, <1>4 DEF EffectFits, f
<1> QED BY <1>3, <1>5, <1>6, <1>7, <1>8 DEF f

(* The engine's question for a recorded source finds that record.            *)
LEMMA SettlesIsRecorded ==
    ASSUME NEW r, NEW id, Sound(r, id), NEW rec
    PROVE  rec \in RecordedSources(DeepestActiveLeaf(r)) <=> Settles(r, rec)
<1> DEFINE f == DeepestActiveLeaf(r)
<1>1. SourceIndices(f) = SourceAt(f.hist, f.entry)
  BY DEF SourceIndices, SourceAt
<1>2. ASSUME rec \in RecordedSources(f) PROVE Settles(r, rec)
  BY <1>1, <1>2 DEF RecordedSources, SourceRecords, Settles
<1>3. ASSUME Settles(r, rec) PROVE rec \in RecordedSources(f)
  <2>1. PICK i \in SourceAt(f.hist, f.entry) :
           rec = f.hist[i] /\ SourceAt(f.hist, f.entry) = {i}
    BY <1>3, SettledLeaf
  <2>2. i \in Nat
    <3>1. f.hist \in Seq(Record)
      BY LeafBook, FrameBook
    <3>2. DOMAIN f.hist \subseteq Nat
      BY <3>1
    <3> QED BY <3>2 DEF SourceAt
  <2>3. i \in {j \in SourceIndices(f) : \A k \in SourceIndices(f) : k <= j}
    BY <1>1, <2>1, <2>2
  <2>4. rec.kind = SourceKind(f.evo) /\ ~IsOpen(rec)
    BY <1>3, SettledLeaf
  <2> HIDE DEF f
  <2> QED BY <2>1, <2>3, <2>4 DEF RecordedSources, SourceRecords
<1> QED BY <1>2, <1>3

(* What an unrecorded leaf is: only a Message has its source record, the     *)
(* open Turn.                                                                *)
LEMMA UnrecordedLeaf ==
    ASSUME NEW r, NEW id, Sound(r, id), ~IsRecorded(DeepestActiveLeaf(r))
    PROVE  /\ Kind[DeepestActiveLeaf(r).evo] # "llm" =>
                SourceAt(DeepestActiveLeaf(r).hist, DeepestActiveLeaf(r).entry) = {}
           /\ Kind[DeepestActiveLeaf(r).evo] = "llm" =>
                \E i \in SourceAt(DeepestActiveLeaf(r).hist, DeepestActiveLeaf(r).entry) :
                   /\ i \in DOMAIN DeepestActiveLeaf(r).hist
                   /\ IsOpen(DeepestActiveLeaf(r).hist[i])
                   /\ DeepestActiveLeaf(r).hist[i].entry = DeepestActiveLeaf(r).entry
                   /\ DeepestActiveLeaf(r).hist[i].evo = DeepestActiveLeaf(r).evo
<1> DEFINE f == DeepestActiveLeaf(r)
           b == Book(f)
<1>1. f \in Frame /\ b \in BookType /\ WellKept(b) /\ Ordered(b)
  BY LeafBook
<1>2. b.hist = f.hist /\ b.at = f.entry /\ b.evo = f.evo /\ f.entry # 0
  BY <1>1, FrameBook
<1>3. ASSUME NEW i \in SourceAt(f.hist, f.entry) PROVE IsOpen(f.hist[i])
  <2> SUFFICES ASSUME ~IsOpen(f.hist[i]) PROVE FALSE
    OBVIOUS
  <2>1. Settles(r, f.hist[i])
    BY <1>3 DEF Settles
  <2>2. f.hist[i] \in RecordedSources(f)
    BY <2>1, SettlesIsRecorded
  <2> QED BY <2>2 DEF IsRecorded
<1> HIDE DEF f, b
<1>4. ASSUME NEW i \in SourceAt(f.hist, f.entry)
      PROVE  /\ i \in DOMAIN f.hist /\ f.hist[i].entry = f.entry /\ f.hist[i].evo = f.evo
             /\ f.hist[i].kind = SourceKind(f.evo)
  BY <1>1, <1>2, <1>4, TheSource
<1>5. Kind[f.evo] # "llm" => SourceKind(f.evo) # "turn"
  BY DEF SourceKind
<1>6. Kind[f.evo] # "llm" => SourceAt(f.hist, f.entry) = {}
  BY <1>3, <1>4, <1>5 DEF IsOpen
<1>7. Kind[f.evo] = "llm" => SourceAt(f.hist, f.entry) # {}
  BY <1>1, <1>2 DEF WellKept, TurnIsOpened
<1> QED BY <1>3, <1>4, <1>6, <1>7 DEF f

(* One book continued continues all, and what it writes is all that is       *)
(* written.                                                                  *)
LEMMA GrownByOne ==
    ASSUME NEW S \in SUBSET BookType, NEW T, NEW b, NEW c, Replaces(S, T, b, c), Continues(b, c)
    PROVE  Grown(S, T)
<1> SUFFICES ASSUME NEW a \in S PROVE \E x \in T : Continues(a, x)
  BY DEF Grown
<1>1. CASE a = b
  BY <1>1 DEF Replaces
<1>2. CASE a # b
  BY <1>2, ContinuesItself DEF Replaces
<1> QED BY <1>1, <1>2

LEMMA WritesOne ==
    ASSUME NEW S \in SUBSET BookType, NEW T, NEW b, NEW c, Replaces(S, T, b, c),
           NEW n, NEW rec, Adds(b, c, n, rec)
    PROVE  OneMore(S, T, rec) /\ Grown(S, T)
<1>1. \A w : w \in Written(T) <=> (w \in Entries(c) \/ \E x \in S \ {b} : w \in Entries(x))
  BY DEF Written, Replaces
<1>2. \A w : w \in Written(S) <=> (w \in Entries(b) \/ \E x \in S \ {b} : w \in Entries(x))
  BY DEF Written, Replaces
<1>3. Entries(c) = Entries(b) \cup {<<b.run, n, rec>>}
  BY DEF Adds
<1>4. Written(T) = Written(S) \cup {<<b.run, n, rec>>}
  BY <1>1, <1>2, <1>3
<1> QED BY <1>4, GrownByOne DEF OneMore, Adds, Replaces

LEMMA WritesNone ==
    ASSUME NEW S \in SUBSET BookType, NEW T, NEW b, NEW c, Replaces(S, T, b, c), Silent(b, c)
    PROVE  Written(T) = Written(S) /\ Grown(S, T)
<1>1. \A w : w \in Written(T) <=> (w \in Entries(c) \/ \E x \in S \ {b} : w \in Entries(x))
  BY DEF Written, Replaces
<1>2. \A w : w \in Written(S) <=> (w \in Entries(b) \/ \E x \in S \ {b} : w \in Entries(x))
  BY DEF Written, Replaces
<1>3. Entries(c) = Entries(b) /\ Continues(b, c)
  BY DEF Silent
<1> QED BY <1>1, <1>2, <1>3, GrownByOne

LEMMA GrownItself ==
    ASSUME NEW S \in SUBSET BookType, NEW T, S \subseteq T
    PROVE  Grown(S, T)
BY ContinuesItself DEF Grown

\* s accepts the record rec at r's leaf.
Accepts(r, s, id, rec) ==
    /\ Sound(s, id) /\ Settles(s, rec)
    /\ OneMore(Books(r), Books(s), rec) /\ Grown(Books(r), Books(s))
    /\ s.completed = r.completed
    /\ DeepestActiveLeaf(s).run = DeepestActiveLeaf(r).run
    /\ DeepestActiveLeaf(s).entry = DeepestActiveLeaf(r).entry

(* The missing source record is appended to the leaf.                        *)
LEMMA AppendAccepts ==
    ASSUME NEW r, NEW id \in Nat, Sound(r, id), NEW rec \in Record,
           SourceAt(DeepestActiveLeaf(r).hist, DeepestActiveLeaf(r).entry) = {},
           rec.entry = DeepestActiveLeaf(r).entry, rec.evo = DeepestActiveLeaf(r).evo,
           rec.kind = SourceKind(rec.evo), rec.kind \in {"machine", "done"},
           NEW s \in Live, s.completed = r.completed, s.effect.disposition = "none",
           s.path = [r.path EXCEPT ![Len(r.path)] =
                        [DeepestActiveLeaf(r) EXCEPT !.hist = Append(@, rec)]]
    PROVE  Accepts(r, s, id, rec)
<1> DEFINE f == DeepestActiveLeaf(r)
           g == [f EXCEPT !.hist = Append(f.hist, rec)]
           b == Book(f)
           c == Book(g)
           n == Len(f.hist) + 1
<1>1. /\ f \in Frame /\ b \in Books(r) /\ b \in BookType /\ Ordered(b) /\ Books(r) \in SUBSET BookType
  BY LeafBook
<1>2. b.run = f.run /\ b.at = f.entry /\ b.evo = f.evo /\ b.hist = f.hist /\ f.entry # 0
      /\ f.hist \in Seq(Record)
  BY <1>1, FrameBook
<1>3. g \in Frame /\ g.run = f.run /\ g.entry = f.entry /\ g.evo = f.evo
      /\ g.held = f.held /\ g.hook = f.hook /\ g.hist = Append(f.hist, rec)
  <2>1. Append(f.hist, rec) \in Seq(Record)
    BY <1>2
  <2> QED BY <1>1, <2>1 DEF Frame
<1>4. c \in BookType /\ c.run = b.run /\ c.at = b.at /\ c.evo = b.evo /\ c.hist = Append(b.hist, rec)
  <2> HIDE DEF g, f
  <2> QED BY <1>2, <1>3, FrameBook
<1>5. Moved(r, s, g)
  BY <1>3 DEF Moved
<1>6. ~IsOpen(rec)
  BY DEF IsOpen
<1> HIDE DEF f, g, b, c
<1>7. /\ WellKept(c) /\ SourceAt(c.hist, c.at) = {n} /\ c.hist[n] = rec
  <2>1. SourceAt(b.hist, b.at) = {} /\ rec.kind # "hook"
    BY <1>2 DEF f
  <2>2. rec.entry = b.at /\ rec.evo = b.evo /\ rec.kind = SourceKind(b.evo) /\ b.at # 0
    BY <1>2 DEF f
  <2>3. n = Len(b.hist) + 1
    BY <1>2
  <2>4. b \in BookType /\ c \in BookType /\ c.run = b.run /\ c.at = b.at /\ c.evo = b.evo
        /\ c.hist = Append(b.hist, rec)
    BY <1>1, <1>4
  <2> HIDE DEF n
  <2> QED BY <2>1, <2>2, <2>3, <2>4, <1>1, AppendSourceKept
<1>8. /\ DOMAIN c.hist = DOMAIN b.hist \cup {n} /\ n \notin DOMAIN b.hist /\ n \in Nat
      /\ \A i \in DOMAIN b.hist : c.hist[i] = b.hist[i]
  BY <1>2, <1>4, AppendPlaces
<1>9. Children(c) = Children(b)
  BY <1>7, <1>8 DEF Children
<1>10. Marks(c) \subseteq Marks(b)
  BY <1>2, <1>4, <1>7, <1>8 DEF Marks, f
<1>11. /\ InOrder(Books(s), id) /\ PathIsDistinct(s) /\ Linked(s) /\ Len(s.path) <= MaxDepth
  <2>1. \A i \in Children(c) : g.hist[i].run = f.hist[i].run
    BY <1>2, <1>3, <1>4, <1>8, <1>9 DEF Children
  <2>2. id \in Nat
    BY DEF Ids
  <2> QED BY <1>5, <1>7, <1>9, <1>10, <2>1, <2>2, MovedInOrder DEF b, c, f
<1>12. DeepestActiveLeaf(s) = g /\ Books(s) = (Books(r) \ {b}) \cup {c}
  BY <1>5, MovedPath DEF b, c, f
<1>13. \A i \in DOMAIN g.hist : ~IsOpen(g.hist[i])
  <2>1. \A i \in DOMAIN b.hist : ~IsOpen(b.hist[i])
    BY <1>1, <1>2, NoSource DEF f
  <2> QED BY <1>2, <1>3, <1>4, <1>6, <1>7, <1>8, <2>1
<1>14. SourceAt(g.hist, g.entry) = {n} /\ g.hist[n] = rec
  BY <1>2, <1>3, <1>4, <1>7
<1>15. EffectFits(s) /\ TurnIsCurrent(s)
  BY <1>12, <1>13, <1>14 DEF EffectFits, TurnIsCurrent
<1>16. Sound(s, id)
  BY <1>11, <1>15 DEF Sound
<1>17. Settles(s, rec)
  BY <1>6, <1>12, <1>14 DEF Settles
<1>18. Adds(b, c, Len(b.hist) + 1, rec)
  BY <1>1, <1>4, <1>6, WrittenAppended
<1>19. OneMore(Books(r), Books(s), rec) /\ Grown(Books(r), Books(s))
  BY <1>1, <1>12, <1>18, WritesOne DEF Replaces
<1> QED BY <1>3, <1>12, <1>16, <1>17, <1>19 DEF Accepts, f

(* A machine's result is accepted.                                           *)
LEMMA AcceptMachineAccepts ==
    ASSUME NEW r, NEW id \in Nat, Sound(r, id), NEW out \in Outcomes,
           Kind[DeepestActiveLeaf(r).evo] \in Modes, ~IsRecorded(DeepestActiveLeaf(r))
    PROVE  \E rec \in Record :
              /\ Accepts(r, AcceptMachine(r, out), id, rec) /\ rec.kind = "machine"
              /\ rec.entry = DeepestActiveLeaf(r).entry /\ rec.evo = DeepestActiveLeaf(r).evo
              /\ rec.out = out /\ AcceptMachine(r, out).rev = r.rev + 1
              /\ AcceptMachine(r, out).fault = r.fault
<1> DEFINE f == DeepestActiveLeaf(r)
           rec == NewRecord("machine", f.entry, f.evo, out, 0)
           s == AcceptMachine(r, out)
<1>1. r \in Live /\ f \in Frame /\ r \in Reckoning
  BY LeafBook DEF Live
<1>2. /\ rec \in Record /\ rec.entry = f.entry /\ rec.evo = f.evo /\ rec.kind = "machine"
      /\ rec.out = out
  BY <1>1, ProgramAssumption DEF NewRecord, Record, RecordKinds, Frame
<1>3. SourceKind(f.evo) = "machine" /\ Kind[f.evo] # "llm"
  BY DEF SourceKind, Modes
<1>4. s \in Live /\ s.effect = NoEffect
  BY <1>1, AcceptMachineType
<1>5. /\ s.path = [r.path EXCEPT ![Len(r.path)] = [f EXCEPT !.hist = Append(f.hist, rec)]]
      /\ s.completed = r.completed /\ s.rev = r.rev + 1 /\ s.fault = r.fault
  BY <1>1 DEF AcceptMachine, WithRecord, ReplaceActiveRun, Reckoning
<1>6. SourceAt(f.hist, f.entry) = {}
  BY <1>3, UnrecordedLeaf
<1>7. s.effect.disposition = "none"
  BY <1>4 DEF NoEffect
<1> HIDE DEF rec, s
<1>8. Accepts(r, s, id, rec)
  BY <1>2, <1>3, <1>4, <1>5, <1>6, <1>7, AppendAccepts
<1> QED BY <1>2, <1>5, <1>8 DEF s

(* A Terminal settles.                                                       *)
LEMMA SettleTerminalAccepts ==
    ASSUME NEW r, NEW id \in Nat, Sound(r, id), NEW out \in Outcomes,
           Kind[DeepestActiveLeaf(r).evo] = "terminal", ~IsRecorded(DeepestActiveLeaf(r))
    PROVE  \E rec \in Record :
              /\ Accepts(r, SettleTerminal(r, out), id, rec) /\ rec.kind = "done"
              /\ SettleTerminal(r, out).rev = r.rev + 1
              /\ SettleTerminal(r, out).fault = r.fault
<1> DEFINE f == DeepestActiveLeaf(r)
           rec == NewRecord("done", f.entry, f.evo, out, 0)
           s == SettleTerminal(r, out)
<1>1. r \in Live /\ f \in Frame /\ r \in Reckoning
  BY LeafBook DEF Live
<1>2. /\ rec \in Record /\ rec.entry = f.entry /\ rec.evo = f.evo /\ rec.kind = "done"
  BY <1>1, ProgramAssumption DEF NewRecord, Record, RecordKinds, Frame
<1>3. SourceKind(f.evo) = "done" /\ Kind[f.evo] # "llm"
  BY DEF SourceKind, Modes
<1>4. s \in Live /\ s.effect = r.effect
  BY <1>1, WithRecordType DEF SettleTerminal
<1>5. /\ s.path = [r.path EXCEPT ![Len(r.path)] = [f EXCEPT !.hist = Append(f.hist, rec)]]
      /\ s.completed = r.completed /\ s.rev = r.rev + 1 /\ s.fault = r.fault
  BY <1>1 DEF SettleTerminal, WithRecord, ReplaceActiveRun, Reckoning
<1>6. SourceAt(f.hist, f.entry) = {}
  BY <1>3, UnrecordedLeaf
<1>7. s.effect.disposition = "none"
  BY <1>4 DEF Sound, EffectFits, Effectful
<1> HIDE DEF rec, s
<1>8. Accepts(r, s, id, rec)
  BY <1>2, <1>3, <1>4, <1>5, <1>6, <1>7, AppendAccepts
<1> QED BY <1>2, <1>5, <1>8 DEF s

(* An answer fills the open Turn of the leaf.                                *)
LEMMA AcceptPromptAccepts ==
    ASSUME NEW r, NEW id \in Nat, Sound(r, id), NEW out \in Outcomes,
           Kind[DeepestActiveLeaf(r).evo] = "llm", ~IsRecorded(DeepestActiveLeaf(r))
    PROVE  \E rec \in Record :
              /\ Accepts(r, AcceptPrompt(r, out), id, rec) /\ rec.kind = "turn"
              /\ rec.entry = DeepestActiveLeaf(r).entry /\ rec.evo = DeepestActiveLeaf(r).evo
              /\ rec.out = out /\ AcceptPrompt(r, out).rev = r.rev + 1
              /\ AcceptPrompt(r, out).fault = r.fault
<1> DEFINE f == DeepestActiveLeaf(r)
           h == Filled(f.hist, out)
           g == [f EXCEPT !.hist = h]
           b == Book(f)
           c == Book(g)
           s == AcceptPrompt(r, out)
<1>1. /\ r \in Live /\ r \in Reckoning /\ f \in Frame /\ b \in Books(r) /\ b \in BookType
      /\ WellKept(b) /\ Ordered(b) /\ Books(r) \in SUBSET BookType
  BY LeafBook DEF Live
<1>2. /\ b.run = f.run /\ b.at = f.entry /\ b.evo = f.evo /\ b.hist = f.hist /\ f.entry # 0
      /\ f.hist \in Seq(Record)
  BY <1>1, FrameBook
<1>3. PICK i \in SourceAt(f.hist, f.entry) :
         i \in DOMAIN f.hist /\ IsOpen(f.hist[i]) /\ f.hist[i].entry = f.entry /\ f.hist[i].evo = f.evo
  BY UnrecordedLeaf
<1> DEFINE rec == [f.hist[i] EXCEPT !.out = out]
<1>4. /\ rec \in Record /\ ~IsOpen(rec) /\ rec.kind = "turn" /\ rec.entry = f.entry
      /\ rec.evo = f.evo /\ rec.out = out
  <2>1. f.hist[i] \in Record /\ f.hist[i].kind = "turn" /\ out # Nil
    BY <1>2, <1>3, ProgramAssumption DEF IsOpen
  <2> QED BY <1>3, <2>1 DEF Record, IsOpen
<1>5. s \in Live /\ s.effect = r.effect
  BY <1>1, AcceptPromptType
<1>6. /\ s.path = [r.path EXCEPT ![Len(r.path)] = g]
      /\ s.completed = r.completed /\ s.rev = r.rev + 1 /\ s.fault = r.fault
  BY <1>1 DEF AcceptPrompt, ReplaceActiveRun, Reckoning, Filled
<1>7. /\ h \in Seq(Record) /\ DOMAIN h = DOMAIN f.hist /\ h[i] = rec
      /\ \A j \in DOMAIN f.hist :
            /\ ~IsOpen(h[j]) /\ h[j].kind = f.hist[j].kind
            /\ h[j].entry = f.hist[j].entry /\ h[j].run = f.hist[j].run
  <2> HIDE DEF f
  <2>1. /\ h \in Seq(Record) /\ DOMAIN h = DOMAIN f.hist
        /\ \A j \in DOMAIN f.hist :
              /\ ~IsOpen(h[j]) /\ h[j].kind = f.hist[j].kind
              /\ h[j].entry = f.hist[j].entry /\ h[j].run = f.hist[j].run
              /\ (IsOpen(f.hist[j]) => h[j] = [f.hist[j] EXCEPT !.out = out])
    BY <1>2, FilledPlaces
  <2> QED BY <1>3, <2>1
<1> HIDE DEF h, rec
<1>8. /\ g \in Frame /\ g.run = f.run /\ g.entry = f.entry /\ g.evo = f.evo
      /\ g.held = f.held /\ g.hook = f.hook /\ g.hist = h
  BY <1>1, <1>7 DEF Frame
<1>9. Moved(r, s, g)
  BY <1>6, <1>8 DEF Moved
<1> HIDE DEF f, g, b, s
<1>10. c \in BookType /\ c.run = b.run /\ c.at = b.at /\ c.evo = b.evo /\ c.hist = h
  BY <1>2, <1>8, FrameBook
<1> HIDE DEF c
<1>11. WellKept(c) /\ SourceAt(c.hist, c.at) = SourceAt(b.hist, b.at)
  BY <1>1, <1>2, <1>10, FilledKept DEF h
<1>12. Children(c) = Children(b) /\ Marks(c) = Marks(b)
  BY <1>2, <1>7, <1>10 DEF Children, Marks
<1>13. InOrder(Books(s), id) /\ PathIsDistinct(s) /\ Linked(s) /\ Len(s.path) <= MaxDepth
  <2>1. \A j \in Children(c) : g.hist[j].run = f.hist[j].run
    BY <1>7, <1>8, <1>10 DEF Children
  <2>2. id \in Nat /\ Marks(c) \subseteq Marks(b)
    BY <1>12 DEF Ids
  <2> QED BY <1>9, <1>11, <1>12, <2>1, <2>2, MovedInOrder DEF b, c, f
<1>14. DeepestActiveLeaf(s) = g /\ Replaces(Books(r), Books(s), b, c)
  BY <1>1, <1>9, MovedPath DEF b, c, f, Replaces
<1>15. SourceAt(g.hist, g.entry) = {i} /\ i \in SourceAt(g.hist, g.entry)
  <2>1. SourceAt(b.hist, b.at) = {i}
    BY <1>1, <1>2, <1>3, TheSource
  <2> QED BY <1>2, <1>8, <1>10, <1>11, <2>1
<1>16. EffectFits(s) /\ TurnIsCurrent(s)
  <2>1. r.effect.disposition = "none"
    BY DEF Sound, EffectFits, Effectful
  <2> QED BY <1>5, <1>7, <1>8, <1>14, <1>15, <2>1 DEF EffectFits, TurnIsCurrent
<1>17. Sound(s, id) /\ Settles(s, rec)
  <2>1. Settles(s, rec)
    BY <1>4, <1>7, <1>8, <1>14, <1>15 DEF Settles
  <2> QED BY <1>5, <1>13, <1>16, <2>1 DEF Sound
<1>18. OneMore(Books(r), Books(s), rec) /\ Grown(Books(r), Books(s))
  <2>1. Adds(b, c, i, rec)
    <3>1. OpenIsCurrent(b) /\ i \in DOMAIN b.hist /\ IsOpen(b.hist[i])
      BY <1>1, <1>2, <1>3 DEF Ordered
    <3>2. c.hist = Filled(b.hist, out) /\ rec = [b.hist[i] EXCEPT !.out = out]
      BY <1>2, <1>10 DEF h, rec
    <3> QED BY <1>1, <1>10, <3>1, <3>2, WrittenFilled
  <2> QED BY <1>1, <1>14, <2>1, WritesOne
<1>19. Accepts(r, s, id, rec)
  BY <1>6, <1>8, <1>14, <1>17, <1>18 DEF Accepts, f
<1> QED BY <1>4, <1>6, <1>19 DEF s, f

-----------------------------------------------------------------------------
\* Moving on after acceptance.  s follows r, the successor of the published prev:
\* nothing is written and every run continues, and either revision and fault are
\* r's, or s is a fault at its leaf with the published revision.
HooksInOrder(e) == {HookOrder[e][k] : k \in DOMAIN HookOrder[e]}
FaultFits(s) == /\ s.fault.run = DeepestActiveLeaf(s).run
                /\ s.fault.entry = DeepestActiveLeaf(s).entry
                /\ s.fault.hooks \subseteq HooksInOrder(DeepestActiveLeaf(s).evo)
After(s, id) == IF DeepestActiveLeaf(s).entry = id THEN id + 1 ELSE id
Follows(prev, r, s, id) ==
    /\ Sound(s, After(s, id))
    /\ Written(Books(s)) = Written(Books(r)) /\ Grown(Books(r), Books(s))
    /\ s.completed = r.completed
    /\ \/ s.rev = r.rev /\ s.fault = r.fault
       \/ /\ s.rev = prev.rev /\ s.fault.category # "none"
          /\ FaultFits(s)

(* The leaf's entrance is drawn.                                             *)
LEMMA LeafIsDrawn ==
    ASSUME NEW r, NEW id, Sound(r, id)
    PROVE  /\ DeepestActiveLeaf(r).entry < id /\ DeepestActiveLeaf(r).entry # id
           /\ DeepestActiveLeaf(r).run < id
           /\ id \notin Marks(Book(DeepestActiveLeaf(r))) /\ After(r, id) = id
<1> DEFINE f == DeepestActiveLeaf(r)
<1>1. f \in Frame /\ Book(f) \in Books(r) /\ InOrder(Books(r), id)
  BY LeafBook DEF Sound
<1>2. Book(f).at = f.entry /\ f.entry \in Ids /\ f.entry # 0 /\ Book(f).run = f.run
  BY <1>1, FrameBook
<1>3. f.run < id /\ \A e \in Marks(Book(f)) : e < id
  BY <1>1, <1>2 DEF InOrder, Drawn
<1>4. f.entry \in Marks(Book(f))
  BY <1>2 DEF Marks
<1>5. \A e \in Marks(Book(f)) : e \in Ids
  <2> DEFINE b == Book(f)
  <2>1. b.hist \in Seq(Record) /\ b.at \in Ids
    BY <1>1, FrameBook
  <2> HIDE DEF b
  <2>2. \A e \in Marks(b) : e \in Ids
    BY <2>1 DEF Marks, Record
  <2> QED BY <2>2 DEF b
<1> QED BY <1>2, <1>3, <1>4, <1>5 DEF After, Ids

(* A fault touches no run.                                                   *)
LEMMA FaultFollows ==
    ASSUME NEW r, NEW id, Sound(r, id), NEW prev \in Live, NEW c \in FaultCategories, c # "none",
           NEW tg \in Evolutions \cup {Nil, Undeclared},
           NEW hs, hs \subseteq HooksInOrder(DeepestActiveLeaf(r).evo),
           prev.rev = r.rev \/ \A i \in DOMAIN DeepestActiveLeaf(r).hist :
                                  ~IsOpen(DeepestActiveLeaf(r).hist[i])
    PROVE  Follows(prev, r, FaultReckoning(r, prev, c, tg, hs), id)
<1> DEFINE s == FaultReckoning(r, prev, c, tg, hs)
<1>1. r \in Live /\ r \in Reckoning /\ Books(r) \in SUBSET BookType
  BY LeafBook DEF Live
<1>2. s \in Live /\ s.effect = r.effect
  <2>1. HookOrder[DeepestActiveLeaf(r).evo] \in Seq(Hooks)
    BY <1>1, LeafType, ProgramAssumption DEF Frame
  <2>2. hs \in SUBSET Hooks
    BY <2>1 DEF HooksInOrder
  <2> QED BY <1>1, <2>2, FaultType
<1>3. /\ s.path = r.path /\ s.completed = r.completed /\ s.rev = prev.rev
      /\ s.fault.category = c /\ s.fault.run = DeepestActiveLeaf(r).run
      /\ s.fault.entry = DeepestActiveLeaf(r).entry /\ s.fault.hooks = hs
  BY <1>1 DEF FaultReckoning, Reckoning
<1> HIDE DEF s
<1>4. DeepestActiveLeaf(s) = DeepestActiveLeaf(r) /\ Books(s) = Books(r)
  BY <1>3 DEF DeepestActiveLeaf, Books
<1>5. Sound(s, id)
  BY <1>2, <1>3, <1>4 DEF Sound, PathIsDistinct, Linked, EffectFits, TurnIsCurrent
<1>6. After(s, id) = id
  BY <1>5, LeafIsDrawn
<1>7. Grown(Books(r), Books(s))
  BY <1>1, <1>4, GrownItself
<1>8. FaultFits(s)
  BY <1>3, <1>4 DEF FaultFits
<1> QED BY <1>3, <1>4, <1>5, <1>6, <1>7, <1>8 DEF Follows, s

LEMMA FaultsFollow ==
    ASSUME NEW r, NEW id, Sound(r, id), NEW prev \in Live, NEW c \in FaultCategories, c # "none",
           prev.rev = r.rev \/ (\A i \in DOMAIN DeepestActiveLeaf(r).hist :
                                  ~IsOpen(DeepestActiveLeaf(r).hist[i])),
           NEW who, c = "target-materialization" => who \in Evolutions,
           c \in HookCategories => who \in HooksInOrder(DeepestActiveLeaf(r).evo),
           NEW s \in FaultsOf(r, prev, c, who)
    PROVE  Follows(prev, r, s, id)
<1> DEFINE tg == IF c = "target-materialization" THEN who ELSE Nil
           hs == IF c \in HookCategories THEN {who} ELSE {}
<1>1. tg \in Evolutions \cup {Nil, Undeclared}
      /\ hs \subseteq HooksInOrder(DeepestActiveLeaf(r).evo)
  OBVIOUS
<1>2. s = FaultReckoning(r, prev, c, tg, hs)
  BY DEF FaultsOf
<1> HIDE DEF tg, hs
<1> QED BY <1>1, <1>2, FaultFollows

(* Entering the routed target of a settled entrance with all its hooks.      *)
LEMMA EnteredFollows ==
    ASSUME NEW r, NEW id \in Ids, Sound(r, id), NEW rec, Settles(r, rec),
           Complete(DeepestActiveLeaf(r).hist, DeepestActiveLeaf(r).entry),
           Kind[DeepestActiveLeaf(r).evo] # "terminal", NEW e \in Evolutions, NEW prev
    PROVE  Follows(prev, r, Entered(r, id, e), id)
<1> DEFINE f == DeepestActiveLeaf(r)
           h == f.hist \o TurnsOnEntry(r, id, e)
           g == [f EXCEPT !.entry = id, !.evo = e, !.hist = h]
           b == Book(f)
           x == [b EXCEPT !.at = id, !.evo = e]
           c == Book(g)
           s == Entered(r, id, e)
<1>1. /\ r \in Live /\ r \in Reckoning /\ f \in Frame /\ b \in Books(r) /\ b \in BookType
      /\ WellKept(b) /\ Ordered(b) /\ Books(r) \in SUBSET BookType
  BY LeafBook DEF Live
<1>2. /\ b.run = f.run /\ b.at = f.entry /\ b.evo = f.evo /\ b.hist = f.hist /\ f.entry # 0
      /\ f.hist \in Seq(Record) /\ f.evo \in Evolutions
  BY <1>1, FrameBook
<1>3. id # 0 /\ id \in Nat /\ id \notin Marks(b)
  BY LeafIsDrawn DEF Ids
<1>4. s \in Live
  BY <1>1, EnteredType
<1>5. /\ s.path = [r.path EXCEPT ![Len(r.path)] = g]
      /\ s.completed = r.completed /\ s.rev = r.rev /\ s.fault = r.fault
      /\ s.effect = EffectOnEntry(r, id, e)
  BY <1>1 DEF Entered, ReplaceActiveRun, Reckoning
<1>6. h \in Seq(Record)
  BY <1>1, <1>2, TurnsType
<1> HIDE DEF h
<1>7. /\ g \in Frame /\ g.run = f.run /\ g.entry = id /\ g.evo = e
      /\ g.held = f.held /\ g.hook = f.hook /\ g.hist = h
  BY <1>1, <1>6 DEF Frame
<1>8. Moved(r, s, g)
  BY <1>5, <1>7 DEF Moved
<1>9. x \in BookType /\ x.run = b.run /\ x.at = id /\ x.evo = e /\ x.hist = b.hist
  BY <1>1 DEF BookType
<1> HIDE DEF f, g, b, s, x
<1>10. c \in BookType /\ c.run = b.run /\ c.at = id /\ c.evo = e /\ c.hist = h
  BY <1>2, <1>7, FrameBook
<1> HIDE DEF c
<1>11. Ordered(x) /\ SourceAt(x.hist, x.at) = {}
  <2>1. Complete(b.hist, b.at) /\ x.hist = b.hist /\ x.at \notin Marks(b)
    BY <1>2, <1>3, <1>9 DEF f
  <2>2. SourceKind(b.evo) # "done"
    <3>1. Kind[b.evo] \in Kinds /\ Kind[b.evo] # "terminal"
      BY <1>2, ProgramAssumption DEF f
    <3> QED BY <3>1 DEF SourceKind, Kinds
  <2> QED BY <1>1, <1>9, <2>1, <2>2, LeaveOrdered
<1>12. /\ WellKept(c)
       /\ \A i \in DOMAIN b.hist : i \in DOMAIN c.hist /\ c.hist[i] = b.hist[i]
       /\ \A i \in DOMAIN c.hist : IsOpen(c.hist[i]) => c.hist[i].rev = r.rev
       /\ \A i \in DOMAIN c.hist : i \notin DOMAIN b.hist =>
             IsOpen(c.hist[i]) /\ c.hist[i].kind = "turn" /\ c.hist[i].entry = id
       /\ Kind[e] # "llm" => SourceAt(c.hist, c.at) = {}
  <2>1. x.at # 0 /\ Enters(x, c, r, e)
    BY <1>2, <1>3, <1>9, <1>10 DEF h, Enters
  <2>2. /\ WellKept(c)
        /\ \A i \in DOMAIN x.hist : i \in DOMAIN c.hist /\ c.hist[i] = x.hist[i]
        /\ \A i \in DOMAIN c.hist : IsOpen(c.hist[i]) => c.hist[i].rev = r.rev
        /\ \A i \in DOMAIN c.hist : i \notin DOMAIN x.hist =>
              IsOpen(c.hist[i]) /\ c.hist[i].kind = "turn" /\ c.hist[i].entry = x.at
        /\ Kind[e] # "llm" => SourceAt(c.hist, c.at) = {}
    BY <1>1, <1>9, <1>10, <1>11, <2>1, EntranceKept
  <2> QED BY <1>9, <2>2
<1>13. Children(c) = Children(b)
  BY <1>12 DEF Children
<1>14. Marks(c) \subseteq Marks(b) \cup {id}
  BY <1>3, <1>10, <1>12 DEF Marks
<1>15. InOrder(Books(s), id + 1) /\ PathIsDistinct(s) /\ Linked(s) /\ Len(s.path) <= MaxDepth
  <2>1. \A i \in Children(c) : g.hist[i].run = f.hist[i].run
    BY <1>2, <1>7, <1>10, <1>12, <1>13 DEF Children
  <2>2. id + 1 \in Nat /\ id \in Nat
    BY <1>3
  <2> QED BY <1>8, <1>12, <1>13, <1>14, <2>1, <2>2, MovedInOrder DEF b, c, f
<1>16. DeepestActiveLeaf(s) = g /\ Replaces(Books(r), Books(s), b, c)
  BY <1>1, <1>8, MovedPath DEF b, c, f, Replaces
<1>17. EffectFits(s) /\ TurnIsCurrent(s)
  <2>1. r.effect.disposition = "none"
    BY SettledLeaf
  <2>2. TurnIsCurrent(s)
    BY <1>5, <1>7, <1>10, <1>12, <1>16 DEF TurnIsCurrent
  <2>3. Kind[e] \in Effectful => SourceAt(g.hist, g.entry) = {}
    BY <1>7, <1>10, <1>12 DEF Effectful
  <2>4. EffectFits(s)
    <3>1. CASE Kind[e] \in Effectful
      <4>1. s.effect = PlannedEffect(id, e)
        BY <1>5, <3>1 DEF EffectOnEntry
      <4> QED BY <1>7, <1>16, <2>3, <3>1, <4>1 DEF EffectFits, PlannedEffect
    <3>2. CASE Kind[e] \notin Effectful
      <4>1. s.effect = r.effect
        BY <1>5, <3>2 DEF EffectOnEntry
      <4> QED BY <1>7, <1>16, <2>1, <3>2, <4>1 DEF EffectFits
    <3> QED BY <3>1, <3>2
  <2> QED BY <2>2, <2>4
<1>18. Sound(s, After(s, id))
  BY <1>4, <1>7, <1>15, <1>16, <1>17 DEF Sound, After
<1>19. Silent(b, c)
  <2>1. {j \in DOMAIN c.hist : ~IsOpen(c.hist[j])} = {j \in DOMAIN b.hist : ~IsOpen(b.hist[j])}
    BY <1>12
  <2>2. Entries(c) = Entries(b)
    BY <1>10, <1>12, <2>1 DEF Entries
  <2>3. Len(b.hist) <= Len(c.hist)
    <3>1. b.hist \in Seq(Record) /\ c.hist \in Seq(Record)
      BY <1>2, <1>6, <1>10
    <3>2. DOMAIN b.hist = 1..Len(b.hist) /\ DOMAIN c.hist = 1..Len(c.hist)
          /\ Len(b.hist) \in Nat /\ Len(c.hist) \in Nat
      BY <3>1
    <3>3. Len(b.hist) # 0 => Len(b.hist) \in DOMAIN c.hist
      BY <1>12, <3>2
    <3> QED BY <3>2, <3>3
  <2> QED BY <1>10, <1>12, <2>2, <2>3 DEF Silent, Continues
<1>20. Written(Books(s)) = Written(Books(r)) /\ Grown(Books(r), Books(s))
  BY <1>1, <1>16, <1>19, WritesNone
<1> QED BY <1>5, <1>18, <1>20 DEF Follows, s

(* A fresh run's frame and book.                                             *)
Fresh(g, r, id, e, how, hook) ==
    g = [run |-> id, entry |-> id, evo |-> e, hist |-> TurnsOnEntry(r, id, e),
         held |-> how, hook |-> hook]

LEMMA FreshBook ==
    ASSUME NEW r \in Reckoning, NEW id \in Ids, NEW e \in Evolutions,
           NEW how \in {"root", "call", "hook"}, NEW hook \in Hooks \cup {Nil},
           NEW g, Fresh(g, r, id, e, how, hook)
    PROVE  /\ g \in Frame /\ g.run = id /\ g.entry = id /\ g.evo = e
           /\ g.held = how /\ g.hook = hook /\ g.hist \in Seq(Record)
           /\ Book(g) \in BookType /\ Book(g).run = id /\ Book(g).at = id /\ id # 0
           /\ WellKept(Book(g)) /\ Marks(Book(g)) \subseteq {id} /\ Children(Book(g)) = {}
           /\ Book(g).hist = g.hist
           /\ \A i \in DOMAIN g.hist : IsOpen(g.hist[i]) /\ g.hist[i].rev = r.rev
           /\ (Kind[e] = "llm" \/ SourceAt(g.hist, id) = {})
<1> DEFINE c == Book(g)
           x == [run |-> id, at |-> id, evo |-> e, hist |-> <<>>]
<1>1. /\ g \in Frame /\ g.run = id /\ g.entry = id /\ g.evo = e /\ g.held = how /\ g.hook = hook
      /\ g.hist = TurnsOnEntry(r, id, e)
  BY TurnsType DEF Fresh, Frame
<1>2. x \in BookType /\ x.at = id /\ x.evo = e /\ x.hist = <<>> /\ id # 0
  BY DEF BookType, Ids
<1> HIDE DEF x
<1>3. /\ c \in BookType /\ c.run = id /\ c.at = id /\ c.evo = e /\ c.hist = g.hist
      /\ g.hist \in Seq(Record)
  BY <1>1, FrameBook
<1> HIDE DEF c
<1>4. Ordered(x) /\ SourceAt(x.hist, x.at) = {}
  BY <1>2, EmptyOrdered
<1>5. c.hist = x.hist \o TurnsOnEntry(r, x.at, e) /\ DOMAIN x.hist = {}
  <2>1. TurnsOnEntry(r, id, e) \in Seq(Record)
    BY TurnsType
  <2> QED BY <1>1, <1>2, <1>3, <2>1
<1>6. /\ WellKept(c)
      /\ \A i \in DOMAIN c.hist : IsOpen(c.hist[i]) => c.hist[i].rev = r.rev
      /\ \A i \in DOMAIN c.hist : i \notin DOMAIN x.hist =>
            IsOpen(c.hist[i]) /\ c.hist[i].kind = "turn" /\ c.hist[i].entry = x.at
      /\ (Kind[e] # "llm" => SourceAt(c.hist, c.at) = {})
  <2>1. x.at # 0 /\ Enters(x, c, r, e)
    BY <1>2, <1>3, <1>5 DEF Enters
  <2>2. x \in BookType /\ c \in BookType
    BY <1>2, <1>3
  <2> QED BY <1>4, <2>1, <2>2, EntranceKept
<1>7. Marks(c) \subseteq {id} /\ Children(c) = {}
  BY <1>2, <1>3, <1>5, <1>6 DEF Marks, Children
<1> QED BY <1>1, <1>2, <1>3, <1>5, <1>6, <1>7 DEF c

(* Opening a child over a waiting leaf.                                      *)
LEMMA WithChildFollows ==
    ASSUME NEW r, NEW id \in Ids, Sound(r, id), NEW e \in Evolutions, NEW how \in {"call", "hook"},
           NEW hook \in Hooks \cup {Nil}, HasChildCapacity(r), r.effect.disposition = "none",
           NEW g, Fresh(g, r, id, e, how, hook), Waits(DeepestActiveLeaf(r), g), NEW prev
    PROVE  Follows(prev, r, WithChild(r, id, e, how, hook), id)
<1> DEFINE f == DeepestActiveLeaf(r)
           c == Book(g)
           s == WithChild(r, id, e, how, hook)
           l == Len(r.path)
<1>1. /\ r \in Live /\ r \in Reckoning /\ r.path \in Seq(Frame) /\ l \in Nat \ {0}
      /\ Books(r) \in SUBSET BookType /\ f = r.path[l]
  BY LeafBook DEF Live, DeepestActiveLeaf
<1>2. /\ g \in Frame /\ g.run = id /\ g.entry = id /\ g.evo = e /\ g.held = how /\ g.hook = hook
      /\ c \in BookType /\ c.run = id /\ c.at = id /\ id # 0 /\ WellKept(c)
      /\ Marks(c) \subseteq {id} /\ Children(c) = {} /\ c.hist = g.hist
      /\ \A i \in DOMAIN g.hist : IsOpen(g.hist[i]) /\ g.hist[i].rev = r.rev
      /\ (Kind[e] = "llm" \/ SourceAt(g.hist, id) = {})
  <2>1. how \in {"root", "call", "hook"}
    OBVIOUS
  <2>2. r \in Reckoning
    BY <1>1
  <2> HIDE DEF f, s, l
  <2>3. g \in Frame /\ g.run = id /\ g.entry = id /\ g.evo = e /\ g.held = how /\ g.hook = hook
    BY <2>1, <2>2, FreshBook
  <2>5. \A i \in DOMAIN g.hist : IsOpen(g.hist[i]) /\ g.hist[i].rev = r.rev
    BY <2>1, <2>2, FreshBook
  <2>6. Kind[e] = "llm" \/ SourceAt(g.hist, id) = {}
    BY DEF Fresh, TurnsOnEntry, SourceAt
  <2>4. /\ Book(g) \in BookType /\ Book(g).run = id /\ Book(g).at = id /\ id # 0
        /\ WellKept(Book(g)) /\ Marks(Book(g)) \subseteq {id} /\ Children(Book(g)) = {}
        /\ Book(g).hist = g.hist
    BY <2>1, <2>2, FreshBook
  <2> QED BY <2>3, <2>4, <2>5, <2>6
<1>3. s \in Live
  BY <1>1, WithChildType DEF Live
<1>4. /\ s.path = Append(r.path, g) /\ s.completed = r.completed /\ s.rev = r.rev
      /\ s.fault = r.fault /\ s.effect = EffectOnEntry(r, id, e)
  BY <1>1 DEF WithChild, Fresh, Reckoning
<1> HIDE DEF f, c, s
<1>5. /\ Len(s.path) = l + 1 /\ s.path[l + 1] = g
      /\ DOMAIN r.path = 1..l /\ DOMAIN s.path = 1..(l + 1)
      /\ \A n \in 1..l : s.path[n] = r.path[n]
  BY <1>1, <1>2, <1>4
<1> HIDE DEF l
<1>6. Books(s) = Books(r) \cup {c}
  <2>1. \A n \in DOMAIN s.path : n = l + 1 \/ (n \in DOMAIN r.path /\ s.path[n] = r.path[n])
    BY <1>1, <1>5
  <2>2. l + 1 \in DOMAIN s.path /\ \A n \in DOMAIN r.path : n \in DOMAIN s.path
    BY <1>1, <1>5
  <2>3. {Book(s.path[n]) : n \in DOMAIN s.path} = {Book(r.path[n]) : n \in DOMAIN r.path} \cup {c}
    BY <1>5, <2>1, <2>2 DEF c
  <2> QED BY <1>4, <2>3 DEF Books
<1>7. InOrder(Books(r), id) /\ PathIsDistinct(r) /\ Linked(r)
  BY DEF Sound
<1>8. InOrder(Books(s), id + 1)
  BY <1>2, <1>6, <1>7, OpenInOrder
<1>9. PathIsDistinct(s)
  <2>1. \A n \in 1..l : r.path[n].run # id
    <3>1. \A n \in 1..l : Book(r.path[n]) \in Books(r)
      BY <1>5 DEF Books
    <3>2. \A b \in Books(r) : b.run < id
      BY <1>7 DEF InOrder, Drawn
    <3>3. \A n \in 1..l : r.path[n].run < id
      BY <3>1, <3>2 DEF Book
    <3> QED BY <3>3 DEF Ids
  <2> SUFFICES ASSUME NEW m \in 1..(l + 1), NEW n \in 1..(l + 1), s.path[m].run = s.path[n].run
               PROVE  m = n
    BY <1>5 DEF PathIsDistinct
  <2>2. CASE m \in 1..l /\ n \in 1..l
    BY <1>5, <1>7, <2>2 DEF PathIsDistinct
  <2>3. ASSUME NEW k \in 1..(l + 1), k # l + 1 PROVE s.path[k].run # id
    <3>1. k \in 1..l
      BY <1>1, <2>3
    <3> QED BY <1>5, <2>1, <3>1
  <2>4. s.path[l + 1].run = id
    BY <1>2, <1>5
  <2> QED BY <1>1, <2>2, <2>3, <2>4
<1>10. Linked(s)
  <2> SUFFICES ASSUME NEW n \in 1..(l + 1), n # 1 PROVE Waits(s.path[n - 1], s.path[n])
    BY <1>5 DEF Linked
  <2>1. CASE n = l + 1
    <3>1. s.path[n - 1] = f /\ s.path[n] = g
      BY <1>1, <1>5, <2>1 DEF l
    <3> QED BY <3>1 DEF f
  <2>2. CASE n # l + 1
    <3>1. n \in 1..l /\ n - 1 \in 1..l
      BY <1>1, <2>2
    <3> QED BY <1>5, <1>7, <3>1 DEF Linked
  <2> QED BY <2>1, <2>2
<1>11. Len(s.path) <= MaxDepth
  BY <1>1, <1>5, BoundAssumption DEF HasChildCapacity, Depth, l
<1>12. DeepestActiveLeaf(s) = g
  BY <1>5 DEF DeepestActiveLeaf
<1>13. TurnIsCurrent(s)
  BY <1>2, <1>4, <1>12 DEF TurnIsCurrent
<1>14. EffectFits(s)
  <2>1. CASE Kind[e] \in Effectful
    <3>1. s.effect = PlannedEffect(id, e) /\ SourceAt(g.hist, id) = {}
      BY <1>2, <1>4, <2>1 DEF EffectOnEntry, Effectful
    <3> QED BY <1>2, <1>12, <2>1, <3>1 DEF EffectFits, PlannedEffect
  <2>2. CASE Kind[e] \notin Effectful
    <3>1. s.effect = r.effect
      BY <1>4, <2>2 DEF EffectOnEntry
    <3> QED BY <1>2, <1>12, <2>2, <3>1 DEF EffectFits
  <2> QED BY <2>1, <2>2
<1>15. Sound(s, After(s, id))
  BY <1>2, <1>3, <1>8, <1>9, <1>10, <1>11, <1>12, <1>13, <1>14 DEF Sound, After
<1>16. Written(Books(s)) = Written(Books(r))
  BY <1>2, <1>6, WrittenMore
<1>17. Grown(Books(r), Books(s))
  BY <1>1, <1>6, GrownItself
<1> QED BY <1>4, <1>15, <1>16, <1>17 DEF Follows, s

(* Pushing a child over a waiting leaf, or failing to make its Message.      *)
LEMMA PushChildFollows ==
    ASSUME NEW r, NEW id \in Ids, Sound(r, id), NEW e \in Evolutions, NEW how \in {"call", "hook"},
           NEW hook \in Hooks \cup {Nil}, r.effect.disposition = "none",
           NEW g, Fresh(g, r, id, e, how, hook), Waits(DeepestActiveLeaf(r), g),
           NEW prev \in Live, NEW s \in PushChild(prev, r, id, e, how, hook)
    PROVE  Follows(prev, r, s, id)
<1>1. HasChildCapacity(r)
  BY DEF PushChild
<1>2. CASE s = WithChild(r, id, e, how, hook)
  BY <1>1, <1>2, WithChildFollows
<1>3. CASE s \in FaultsOf(r, prev, "child-materialization", e)
  <2>1. "child-materialization" \in FaultCategories \ HookCategories
    BY DEF FaultCategories, HookCategories
  <2>2. \A i \in DOMAIN DeepestActiveLeaf(r).hist : ~IsOpen(DeepestActiveLeaf(r).hist[i])
    BY DEF Waits
  <2> QED BY <1>3, <2>1, <2>2, FaultsFollow
<1> QED BY <1>2, <1>3 DEF PushChild

(* Calling a SubRutter that has not been called for this entrance.           *)
LEMMA PushCallFollows ==
    ASSUME NEW r, NEW id \in Ids, Sound(r, id), Kind[DeepestActiveLeaf(r).evo] = "sub",
           ~IsRecorded(DeepestActiveLeaf(r)), NEW s \in PushCall(r, id)
    PROVE  Follows(r, r, s, id)
<1> DEFINE f == DeepestActiveLeaf(r)
           b == Book(f)
           e == ChildStart[f.evo]
           g == [run |-> id, entry |-> id, evo |-> e, hist |-> TurnsOnEntry(r, id, e),
                 held |-> "call", hook |-> Nil]
<1>1. r \in Live /\ f \in Frame /\ b \in BookType /\ Ordered(b)
  BY LeafBook
<1>2. b.hist = f.hist /\ b.at = f.entry /\ b.at # 0 /\ f.evo \in Evolutions
  BY <1>1, FrameBook
<1>3. SourceAt(f.hist, f.entry) = {}
  BY UnrecordedLeaf
<1>4. \A i \in DOMAIN f.hist : ~IsOpen(f.hist[i])
  BY <1>1, <1>2, <1>3, NoSource
<1>5. e \in Evolutions
  BY <1>2, ProgramAssumption
<1>6. Fresh(g, r, id, e, "call", Nil) /\ g.held = "call" /\ g.run = id
  BY DEF Fresh
<1>7. r.effect.disposition = "none"
  BY DEF Sound, EffectFits, Effectful
<1> HIDE DEF g
<1>8. Waits(f, g)
  BY <1>3, <1>4, <1>6, LeafIsDrawn DEF Waits
<1>9. CASE s \in PushChild(r, r, id, e, "call", Nil)
  BY <1>1, <1>5, <1>6, <1>7, <1>8, <1>9, PushChildFollows
<1>10. CASE s \in FaultsOf(r, r, "child-charter", f.evo)
  <2>1. "child-charter" \in FaultCategories \ HookCategories
    BY DEF FaultCategories, HookCategories
  <2> QED BY <1>1, <1>10, <2>1, FaultsFollow
<1> QED BY <1>9, <1>10 DEF PushCall

(* The hooks still to attach are the due ones that are not attached.         *)
LEMMA PendingAreDue ==
    ASSUME NEW r, NEW id, Sound(r, id), NEW rec, Settles(r, rec)
    PROVE  LET f == DeepestActiveLeaf(r)
               t == SelectTransition(f.evo, rec.out)
           IN /\ SelectedHooks(f, t) = {} <=> Complete(f.hist, f.entry)
              /\ \A h \in NextHooks(f, t) :
                    h \in Hooks /\ h \in Due(rec) /\ h \notin Attached(f.hist, f.entry)
<1> DEFINE f == DeepestActiveLeaf(r)
           t == SelectTransition(f.evo, rec.out)
           b == Book(f)
<1>1. f \in Frame /\ b \in BookType /\ Ordered(b)
  BY LeafBook
<1>2. b.hist = f.hist /\ b.at = f.entry /\ f.evo \in Evolutions
  BY <1>1, FrameBook
<1>3. /\ rec.evo = f.evo /\ rec.entry = f.entry /\ ~IsOpen(rec)
      /\ \E i \in SourceAt(f.hist, f.entry) :
            rec = f.hist[i] /\ SourceAt(f.hist, f.entry) = {i}
  BY SettledLeaf
<1>4. PICK i \in SourceAt(f.hist, f.entry) :
         rec = f.hist[i] /\ SourceAt(f.hist, f.entry) = {i}
  BY <1>3
<1>5. CompletedHooks(f) = Attached(f.hist, f.entry)
  BY DEF CompletedHooks, Attached
<1> HIDE DEF f, b
<1>6. Attached(f.hist, f.entry) \subseteq Due(rec)
  <2> SUFFICES ASSUME NEW j \in DOMAIN f.hist, f.hist[j].kind = "hook", f.hist[j].entry = f.entry
               PROVE  f.hist[j].hook \in Due(rec)
    BY DEF Attached
  <2>1. PICK k \in SourceAt(b.hist, b.hist[j].entry) : b.hist[j].hook \in Due(b.hist[k])
    BY <1>1, <1>2 DEF Ordered, HooksFollow
  <2>2. k = i
    BY <1>2, <1>4, <2>1
  <2> QED BY <1>2, <1>4, <2>1, <2>2
<1>7. Complete(f.hist, f.entry) <=> Attached(f.hist, f.entry) = Due(rec)
  BY <1>3, <1>4 DEF Complete
<1>8. Due(rec) = {HookOrder[f.evo][k] : k \in {j \in DOMAIN HookOrder[f.evo] :
                     /\ Matches(HookOn[HookOrder[f.evo][j]], t)
                     /\ <<HookOrder[f.evo][j], f.entry>> \notin Declines}}
  BY <1>3 DEF Due
<1> HIDE DEF t
<1>9. SelectedHooks(f, t) = {} <=> Due(rec) \subseteq Attached(f.hist, f.entry)
  BY <1>5, <1>8 DEF SelectedHooks, PendingHooks
<1>10. ASSUME NEW h \in NextHooks(f, t)
       PROVE  h \in Hooks /\ h \in Due(rec) /\ h \notin Attached(f.hist, f.entry)
  <2>1. HookOrder[f.evo] \in Seq(Hooks)
    BY <1>2, ProgramAssumption
  <2>2. PICK k \in SelectedHooks(f, t) : h = HookOrder[f.evo][k]
    BY <1>10 DEF NextHooks
  <2>3. k \in DOMAIN HookOrder[f.evo] /\ h \in Due(rec) /\ h \notin Attached(f.hist, f.entry)
    BY <1>5, <1>8, <2>2 DEF SelectedHooks, PendingHooks
  <2> QED BY <2>1, <2>2, <2>3
<1>11. SelectedHooks(f, t) = {} <=> Complete(f.hist, f.entry)
  BY <1>6, <1>7, <1>9
<1> QED BY <1>10, <1>11 DEF f, t

(* Attaching a due hook.                                                     *)
LEMMA PushHookFollows ==
    ASSUME NEW r, NEW id \in Ids, Sound(r, id), NEW rec, Settles(r, rec),
           NEW hook \in Hooks, hook \in Due(rec),
           hook \notin Attached(DeepestActiveLeaf(r).hist, DeepestActiveLeaf(r).entry),
           NEW prev \in Live, NEW s \in PushHook(prev, r, id, hook)
    PROVE  Follows(prev, r, s, id)
<1> DEFINE f == DeepestActiveLeaf(r)
           e == HookStart[hook]
           g == [run |-> id, entry |-> id, evo |-> e, hist |-> TurnsOnEntry(r, id, e),
                 held |-> "hook", hook |-> hook]
<1>1. /\ \A i \in DOMAIN f.hist : ~IsOpen(f.hist[i])
      /\ r.effect.disposition = "none"
      /\ \E i \in SourceAt(f.hist, f.entry) : rec = f.hist[i]
      /\ rec.evo = f.evo
  BY SettledLeaf
<1>2. e \in Evolutions
  BY ProgramAssumption
<1>3. Fresh(g, r, id, e, "hook", hook) /\ g.held = "hook" /\ g.hook = hook /\ g.run = id
  BY DEF Fresh
<1> HIDE DEF g
<1>4. Waits(f, g)
  BY <1>1, <1>3, LeafIsDrawn DEF Waits
<1>5. CASE s \in PushChild(prev, r, id, e, "hook", hook)
  BY <1>1, <1>2, <1>3, <1>4, <1>5, PushChildFollows
<1>6. CASE s \in FaultsOf(r, prev, "hook-construction", hook)
  <2>1. "hook-construction" \in FaultCategories /\ hook \in HooksInOrder(f.evo)
    BY <1>1 DEF FaultCategories, HookCategories, Due, HooksInOrder
  <2> QED BY <1>1, <1>6, <2>1, FaultsFollow
<1> QED BY <1>5, <1>6 DEF PushHook

(* Entering the target, or failing to make its Message.                      *)
LEMMA EnterEvolutionFollows ==
    ASSUME NEW r, NEW id \in Ids, Sound(r, id), NEW rec, Settles(r, rec),
           Complete(DeepestActiveLeaf(r).hist, DeepestActiveLeaf(r).entry),
           Kind[DeepestActiveLeaf(r).evo] # "terminal", NEW e \in Evolutions,
           NEW prev \in Live, NEW s \in EnterEvolution(prev, r, id, e)
    PROVE  Follows(prev, r, s, id)
<1>1. CASE s = Entered(r, id, e)
  BY <1>1, EnteredFollows
<1>2. CASE s \in FaultsOf(r, prev, "target-materialization", e)
  <2>1. "target-materialization" \in FaultCategories \ HookCategories
    BY DEF FaultCategories, HookCategories
  <2>2. \A i \in DOMAIN DeepestActiveLeaf(r).hist : ~IsOpen(DeepestActiveLeaf(r).hist[i])
    BY SettledLeaf
  <2> QED BY <1>2, <2>1, <2>2, FaultsFollow
<1> QED BY <1>1, <1>2 DEF EnterEvolution

(* A charter that raises leaves a fault which names its hook.                *)
LEMMA CharterFaultsFollow ==
    ASSUME NEW r, NEW id, Sound(r, id), NEW rec, Settles(r, rec), NEW prev \in Live, NEW t,
           NEW s \in CharterFaults(prev, r, DeepestActiveLeaf(r), t)
    PROVE  Follows(prev, r, s, id)
<1> DEFINE f == DeepestActiveLeaf(r)
<1>1. PICK i \in PendingHooks(f, t) : s \in FaultsOf(r, prev, "case-charter", HookOrder[f.evo][i])
  BY DEF CharterFaults
<1>2. HookOrder[f.evo][i] \in HooksInOrder(f.evo)
  BY DEF PendingHooks, HooksInOrder
<1>3. "case-charter" \in FaultCategories /\ "case-charter" # "target-materialization"
  BY DEF FaultCategories, HookCategories
<1>4. \A j \in DOMAIN f.hist : ~IsOpen(f.hist[j])
  BY SettledLeaf
<1> HIDE DEF f
<1> QED BY <1>1, <1>2, <1>3, <1>4, FaultsFollow DEF f

(* The settled entrance moves on to its next hook or to the target.          *)
LEMMA AttachOrEnterFollows ==
    ASSUME NEW r, NEW id \in Ids, Sound(r, id), NEW rec, Settles(r, rec), NEW prev \in Live,
           NEW t, t = SelectTransition(DeepestActiveLeaf(r).evo, rec.out),
           t.target \in Evolutions \cup {Nil},
           NEW s \in AttachOrEnter(prev, r, id, DeepestActiveLeaf(r), t)
    PROVE  Follows(prev, r, s, id)
<1> DEFINE f == DeepestActiveLeaf(r)
           selected == SelectedHooks(f, t)
           hs == {HookOrder[f.evo][i] : i \in selected}
<1>1. f \in Frame /\ f.evo \in Evolutions
      /\ \A i \in DOMAIN f.hist : ~IsOpen(f.hist[i])
  BY LeafBook, FrameBook, SettledLeaf
<1>2. s \in IF selected # {}
            THEN IF f.evo \notin AllowMultiple /\ \E i, j \in selected : i # j
                 THEN {FaultReckoning(r, prev, "case-cardinality", Nil, hs)}
                 ELSE UNION {PushHook(prev, r, id, h) : h \in NextHooks(f, t)}
            ELSE IF t.target = Nil THEN {r} ELSE EnterEvolution(prev, r, id, t.target)
  BY DEF AttachOrEnter
<1>3. CASE s = FaultReckoning(r, prev, "case-cardinality", Nil, hs)
  <2>1. "case-cardinality" \in FaultCategories
    BY DEF FaultCategories, HookCategories
  <2>2. hs \subseteq HooksInOrder(f.evo)
    BY DEF SelectedHooks, PendingHooks, HooksInOrder
  <2> HIDE DEF hs, f
  <2> QED BY <1>1, <1>3, <2>1, <2>2, FaultFollows DEF f
<1>4. CASE s \in UNION {PushHook(prev, r, id, h) : h \in NextHooks(f, t)}
  <2>1. PICK h \in NextHooks(f, t) : s \in PushHook(prev, r, id, h)
    BY <1>4
  <2>2. h \in Hooks /\ h \in Due(rec) /\ h \notin Attached(f.hist, f.entry)
    BY <2>1, PendingAreDue
  <2> QED BY <2>1, <2>2, PushHookFollows
<1>5. CASE s = r
  <2>1. Follows(prev, r, r, id)
    BY LeafIsDrawn, LeafBook, GrownItself DEF Follows
  <2> QED BY <1>5, <2>1
<1>6. CASE selected = {} /\ t.target # Nil /\ s \in EnterEvolution(prev, r, id, t.target)
  <2>1. Complete(f.hist, f.entry)
    BY <1>6, PendingAreDue
  <2>2. Kind[f.evo] # "terminal" /\ t.target \in Evolutions
    BY <1>6 DEF SelectTransition
  <2> QED BY <1>6, <2>1, <2>2, EnterEvolutionFollows
<1> HIDE DEF selected, hs, f
<1> QED BY <1>2, <1>3, <1>4, <1>5, <1>6

(* Whatever a transition publishes once an outcome is accepted follows.      *)
LEMMA ContinueFollows ==
    ASSUME NEW r, NEW id \in Ids, Sound(r, id), NEW rec, Settles(r, rec), NEW prev \in Live,
           NEW s \in ContinueTransition(prev, r, id, rec.out)
    PROVE  Follows(prev, r, s, id)
<1> DEFINE f == DeepestActiveLeaf(r)
           t == SelectTransition(f.evo, rec.out)
<1>1. f.evo \in Evolutions /\ rec.out \in Outcomes
      /\ \A i \in DOMAIN f.hist : ~IsOpen(f.hist[i])
  BY LeafBook, FrameBook, SettledLeaf
<1>2. /\ t.target \in Evolutions \cup {Nil, Undeclared}
      /\ Kind[f.evo] = "terminal" => t.target = Nil
  BY <1>1, ProgramAssumption DEF SelectTransition
<1>3. CASE t.target \in {Nil, Undeclared} /\ Kind[f.evo] # "terminal"
  <2>1. s = FaultReckoning(r, prev, "routing", t.target, {})
    BY <1>3 DEF ContinueTransition
  <2>2. "routing" \in FaultCategories /\ "routing" # "none"
    BY DEF FaultCategories
  <2> HIDE DEF t
  <2> QED BY <2>1, <2>2, <1>1, <1>2, FaultFollows
<1>4. CASE ~(t.target \in {Nil, Undeclared} /\ Kind[f.evo] # "terminal")
  <2>1. t.target \in Evolutions \cup {Nil}
    BY <1>2, <1>4
  <2>2. s \in CharterFaults(prev, r, f, t) \/ s \in AttachOrEnter(prev, r, id, f, t)
    BY <1>4 DEF ContinueTransition
  <2>3. t = SelectTransition(f.evo, rec.out)
    OBVIOUS
  <2> HIDE DEF t
  <2> QED BY <2>1, <2>2, <2>3, CharterFaultsFollow, AttachOrEnterFollows
<1> QED BY <1>3, <1>4

(* A transition that publishes nothing is a settled Terminal's with every    *)
(* hook attached, whatever identifier would come next.                       *)
LEMMA StaysWhenFinished ==
    ASSUME NEW r, NEW id, Sound(r, id), NEW rec, Settles(r, rec), r.fault.category = "none",
           r \in ContinueTransition(r, r, id, rec.out)
    PROVE  /\ Kind[DeepestActiveLeaf(r).evo] = "terminal"
           /\ Complete(DeepestActiveLeaf(r).hist, DeepestActiveLeaf(r).entry)
<1> DEFINE f == DeepestActiveLeaf(r)
           t == SelectTransition(f.evo, rec.out)
           selected == SelectedHooks(f, t)
<1>1. /\ r \in Reckoning /\ f \in Frame /\ r.path \in Seq(Frame) /\ Len(r.path) \in Nat \ {0}
      /\ f.entry # id
  BY LeafBook, LeafIsDrawn DEF Live
<1>2. ASSUME NEW c, c # "none", NEW tg, NEW hs PROVE r # FaultReckoning(r, r, c, tg, hs)
  <2>1. FaultReckoning(r, r, c, tg, hs).fault.category = c
    BY <1>1 DEF FaultReckoning, Reckoning
  <2> QED BY <1>2, <2>1
<1>3. ASSUME NEW c, c # "none", NEW who PROVE r \notin FaultsOf(r, r, c, who)
  BY <1>2, <1>3 DEF FaultsOf
<1>4. ASSUME NEW e, NEW how, NEW hook PROVE r # WithChild(r, id, e, how, hook)
  <2>1. \E g : WithChild(r, id, e, how, hook).path = Append(r.path, g)
    BY <1>1 DEF WithChild, Reckoning
  <2>2. PICK g : WithChild(r, id, e, how, hook).path = Append(r.path, g)
    BY <2>1
  <2>3. Len(Append(r.path, g)) = Len(r.path) + 1
    BY <1>1
  <2> QED BY <1>1, <2>2, <2>3
<1>5. ASSUME NEW e PROVE r # Entered(r, id, e)
  <2> DEFINE g == [f EXCEPT !.entry = id, !.evo = e, !.hist = f.hist \o TurnsOnEntry(r, id, e)]
  <2>1. Entered(r, id, e).path = [r.path EXCEPT ![Len(r.path)] = g]
    BY <1>1 DEF Entered, ReplaceActiveRun, Reckoning
  <2>2. g.entry = id
    BY <1>1 DEF Frame
  <2> HIDE DEF g
  <2>3. [r.path EXCEPT ![Len(r.path)] = g][Len(r.path)] = g
    BY <1>1
  <2> QED BY <1>1, <2>1, <2>2, <2>3 DEF DeepestActiveLeaf
<1>6. ~(t.target \in {Nil, Undeclared} /\ Kind[f.evo] # "terminal")
  BY <1>2 DEF ContinueTransition
<1>11. r \notin CharterFaults(r, r, f, t)
  <2>1. "case-charter" # "none"
    OBVIOUS
  <2> QED BY <1>3, <2>1 DEF CharterFaults
<1>7. r \in IF selected # {}
            THEN IF f.evo \notin AllowMultiple /\ \E i, j \in selected : i # j
                 THEN {FaultReckoning(r, r, "case-cardinality", Nil,
                                      {HookOrder[f.evo][i] : i \in selected})}
                 ELSE UNION {PushHook(r, r, id, h) : h \in NextHooks(f, t)}
            ELSE IF t.target = Nil THEN {r}
                 ELSE EnterEvolution(r, r, id, t.target)
  BY <1>6, <1>11 DEF ContinueTransition, AttachOrEnter
<1>8. \A h : r \notin PushHook(r, r, id, h)
  BY <1>3, <1>4 DEF PushHook, PushChild
<1>9. \A e : r \notin EnterEvolution(r, r, id, e)
  BY <1>3, <1>5 DEF EnterEvolution
<1> HIDE DEF selected
<1>10. selected = {} /\ t.target = Nil
  BY <1>2, <1>7, <1>8, <1>9
<1> QED BY <1>6, <1>10, PendingAreDue DEF selected

-----------------------------------------------------------------------------
\* Returning to the parent.  a and c are the parent's book before and after, b and
\* d the returning run's.
Returns(S, T, a, b, c, d) ==
    a \in S /\ b \in S /\ a.run # b.run /\ T = (S \ {a, b}) \cup {c, d}

(* What a return writes: the parent's new record, and nothing of the run     *)
(* that is shelved.                                                          *)
LEMMA ReturnWrites ==
    ASSUME NEW S \in SUBSET BookType, NEW T, NEW a, NEW b, NEW c, NEW d,
           Returns(S, T, a, b, c, d), NEW n, NEW rec, Adds(a, c, n, rec), Silent(b, d)
    PROVE  OneMore(S, T, rec) /\ Grown(S, T)
<1>1. /\ a \in S /\ b \in S /\ T = (S \ {a, b}) \cup {c, d}
  BY DEF Returns
<1>2. \A w : w \in Written(T) <=>
         (w \in Entries(c) \/ w \in Entries(d) \/ \E x \in S \ {a, b} : w \in Entries(x))
  BY <1>1 DEF Written
<1>3. \A w : w \in Written(S) <=>
         (w \in Entries(a) \/ w \in Entries(b) \/ \E x \in S \ {a, b} : w \in Entries(x))
  BY <1>1 DEF Written
<1>4. Entries(c) = Entries(a) \cup {<<a.run, n, rec>>} /\ Entries(d) = Entries(b)
  BY DEF Adds, Silent
<1>5. Written(T) = Written(S) \cup {<<a.run, n, rec>>}
  BY <1>2, <1>3, <1>4
<1>6. Grown(S, T)
  <2> SUFFICES ASSUME NEW x \in S PROVE \E y \in T : Continues(x, y)
    BY DEF Grown
  <2>1. CASE x = a
    BY <1>1, <2>1 DEF Adds
  <2>2. CASE x = b
    BY <1>1, <2>2 DEF Silent
  <2>3. CASE x # a /\ x # b
    BY <1>1, <2>3, ContinuesItself
  <2> QED BY <2>1, <2>2, <2>3
<1> QED BY <1>1, <1>5, <1>6 DEF OneMore, Adds

(* The run of a finished leaf is shelved as it is.                           *)
LEMMA ShelvedBook ==
    ASSUME NEW r, NEW id, Sound(r, id),
           Complete(DeepestActiveLeaf(r).hist, DeepestActiveLeaf(r).entry)
    PROVE  LET b == Book(DeepestActiveLeaf(r))
               d == Shelved(Archived(r))
           IN /\ d \in BookType /\ d.run = b.run /\ d.at = 0 /\ d.hist = b.hist
              /\ WellKept(d) /\ Silent(b, d)
<1> DEFINE f == DeepestActiveLeaf(r)
           b == Book(f)
           d == Shelved(Archived(r))
<1>1. f \in Frame /\ b \in BookType /\ Ordered(b)
  BY LeafBook
<1>2. b.run = f.run /\ b.hist = f.hist /\ b.at = f.entry
  BY <1>1, FrameBook
<1>3. d.run = f.run /\ d.at = 0 /\ d.evo = Nil /\ d.hist = f.hist
  BY DEF Shelved, Archived
<1>4. d \in BookType
  BY <1>1 DEF Shelved, Archived, BookType, Frame
<1> HIDE DEF f, b, d
<1>5. d.at \notin Marks(b)
  <2>1. b.hist \in Seq(Record)
    BY <1>1 DEF BookType
  <2>2. \A i \in DOMAIN b.hist : b.hist[i].entry # 0
    BY <2>1 DEF Record, Ids
  <2> QED BY <1>3, <2>2 DEF Marks
<1>6. Ordered(d)
  <2>1. Complete(b.hist, b.at) /\ d.hist = b.hist /\ (d.at = 0 \/ SourceKind(b.evo) # "done")
    BY <1>2, <1>3 DEF f
  <2> QED BY <1>1, <1>4, <1>5, <2>1, LeaveOrdered
<1>7. WellKept(d)
  BY <1>3, <1>6 DEF WellKept, TurnIsOpened
<1>8. Silent(b, d)
  <2>1. Entries(d) = Entries(b)
    BY <1>2, <1>3 DEF Entries
  <2>2. Len(b.hist) \in Nat
    BY <1>1 DEF BookType
  <2> QED BY <1>2, <1>3, <2>1, <2>2 DEF Silent, Continues
<1> QED BY <1>2, <1>3, <1>4, <1>7, <1>8 DEF f, b, d

\* The parent of the leaf, the record of the return, and the parent with it.
Parent(r) == r.path[Len(r.path) - 1]
ReturnRecord(r, out) ==
    [kind |-> DeepestActiveLeaf(r).held, entry |-> Parent(r).entry, evo |-> Parent(r).evo,
     out |-> out, hook |-> DeepestActiveLeaf(r).hook, run |-> DeepestActiveLeaf(r).run, rev |-> 0]
Resumed(r, out) == [Parent(r) EXCEPT !.hist = Append(@, ReturnRecord(r, out))]

(* The parent's book takes the record: a call's becomes the missing source   *)
(* record, a hook's follows it.                                              *)
LEMMA ResumedBook ==
    ASSUME NEW r, NEW id, Sound(r, id), NEW out \in Outcomes, Depth(r) > 0
    PROVE  LET p == Parent(r)
               g == Resumed(r, out)
               rec == ReturnRecord(r, out)
               a == Book(p)
               c == Book(g)
               n == Len(p.hist) + 1
           IN /\ p \in Frame /\ a \in Books(r) /\ a.run = p.run /\ a.at # 0
              /\ p.run < DeepestActiveLeaf(r).run
              /\ g \in Frame /\ g.run = p.run /\ g.entry = p.entry
              /\ g.held = p.held /\ g.hook = p.hook
              /\ rec \in Record /\ rec.kind \in {"call", "hook"} /\ ~IsOpen(rec)
              /\ c \in BookType /\ c.run = a.run /\ c.at # 0 /\ WellKept(c)
              /\ Marks(c) \subseteq Marks(a)
              /\ n \notin Children(a) /\ Children(c) = Children(a) \cup {n}
              /\ c.hist[n].run = DeepestActiveLeaf(r).run
              /\ \A i \in Children(a) : c.hist[i].run = a.hist[i].run
              /\ Adds(a, c, n, rec)
              /\ SourceAt(g.hist, g.entry) # {}
              /\ \A i \in DOMAIN g.hist : ~IsOpen(g.hist[i])
<1> DEFINE p == Parent(r)
           f == DeepestActiveLeaf(r)
           g == Resumed(r, out)
           rec == ReturnRecord(r, out)
           a == Book(p)
           c == Book(g)
           n == Len(p.hist) + 1
           l == Len(r.path)
<1>1. /\ r \in Live /\ r.path \in Seq(Frame) /\ l \in Nat \ {0} /\ f \in Frame
  BY LeafBook
<1>2. l > 1 /\ l \in DOMAIN r.path /\ l - 1 \in DOMAIN r.path /\ p = r.path[l - 1] /\ f = r.path[l]
  BY <1>1 DEF Depth, DeepestActiveLeaf, Parent
<1>3. p \in Frame /\ a \in Books(r) /\ a \in BookType /\ WellKept(a) /\ Ordered(a)
  <2>1. p \in Frame
    BY <1>1, <1>2
  <2>2. a \in Books(r)
    BY <1>2 DEF Books
  <2> QED BY <2>1, <2>2 DEF Sound, InOrder, WellKept
<1>4. f.held \in {"call", "hook"} /\ Waits(p, f)
  <2>1. Nested(r.path) /\ Linked(r)
    BY <1>1 DEF Live, Sound
  <2>2. f.held # "root"
    BY <1>1, <1>2, <2>1 DEF Nested
  <2>3. Waits(r.path[l - 1], r.path[l])
    <3>1. l \in DOMAIN r.path /\ l # 1
      BY <1>1, <1>2
    <3> HIDE DEF l
    <3> QED BY <2>1, <3>1 DEF Linked
  <2> QED BY <1>1, <1>2, <2>2, <2>3 DEF Frame
<1> HIDE DEF l, p, f
<1>5. /\ a.run = p.run /\ a.at = p.entry /\ a.evo = p.evo /\ a.hist = p.hist
      /\ p.entry \in Ids /\ p.entry # 0 /\ p.hist \in Seq(Record) /\ p.evo \in Evolutions
  BY <1>3, FrameBook
<1>6. /\ rec.kind = f.held /\ rec.entry = p.entry /\ rec.evo = p.evo /\ rec.out = out
      /\ rec.hook = f.hook /\ rec.run = f.run /\ rec \in Record /\ ~IsOpen(rec)
  <2>1. /\ rec.kind = f.held /\ rec.entry = p.entry /\ rec.evo = p.evo /\ rec.out = out
        /\ rec.hook = f.hook /\ rec.run = f.run
    BY DEF ReturnRecord, p, f
  <2>2. out # Nil
    BY ProgramAssumption
  <2>3. rec \in Record
    BY <1>1, <1>4, <1>5, <2>2 DEF ReturnRecord, p, f, Record, RecordKinds, Frame
  <2>4. ~IsOpen(rec)
    BY <1>4, <2>1 DEF IsOpen
  <2> QED BY <2>1, <2>3, <2>4
<1> HIDE DEF rec, a
<1>7. g \in Frame /\ g.run = p.run /\ g.entry = p.entry /\ g.evo = p.evo
      /\ g.held = p.held /\ g.hook = p.hook /\ g.hist = Append(p.hist, rec)
  <2>1. Append(p.hist, rec) \in Seq(Record)
    BY <1>5, <1>6
  <2> QED BY <1>3, <2>1 DEF Frame, Resumed, rec, p
<1> HIDE DEF g
<1>8. /\ c \in BookType /\ c.run = a.run /\ c.at = a.at /\ c.evo = a.evo /\ c.at # 0
      /\ c.hist = Append(a.hist, rec) /\ c.hist = g.hist
  BY <1>5, <1>7, FrameBook
<1> HIDE DEF c
<1>9. /\ DOMAIN c.hist = DOMAIN a.hist \cup {n} /\ n \notin DOMAIN a.hist /\ n \in Nat
      /\ c.hist[n] = rec /\ \A i \in DOMAIN a.hist : c.hist[i] = a.hist[i]
  <2>1. n = Len(a.hist) + 1 /\ a.hist \in Seq(Record) /\ rec \in Record
    BY <1>5, <1>6
  <2> HIDE DEF n
  <2>2. LET h == Append(a.hist, rec)
        IN /\ DOMAIN h = DOMAIN a.hist \cup {n} /\ n \notin DOMAIN a.hist /\ n \in Nat
           /\ h[n] = rec /\ \A i \in DOMAIN a.hist : h[i] = a.hist[i]
    BY <2>1, AppendPlaces
  <2> QED BY <1>8, <2>2
<1>10. \A i \in DOMAIN a.hist : ~IsOpen(a.hist[i])
  BY <1>4, <1>5 DEF Waits
<1>11. WellKept(c) /\ SourceAt(c.hist, c.at) # {}
  <2>1. CASE f.held = "call"
    <3>1. SourceAt(a.hist, a.at) = {} /\ Kind[a.evo] = "sub"
      BY <1>4, <1>5, <2>1 DEF Waits
    <3>2. rec.kind = SourceKind(a.evo) /\ rec.kind # "hook"
      BY <1>6, <2>1, <3>1 DEF SourceKind, Modes
    <3>3. rec.entry = a.at /\ rec.evo = a.evo /\ a.at # 0
      BY <1>5, <1>6
    <3>4. WellKept(c) /\ SourceAt(c.hist, c.at) = {Len(a.hist) + 1}
      BY <1>3, <1>6, <1>8, <3>1, <3>2, <3>3, AppendSourceKept
    <3> QED BY <3>4
  <2>2. CASE f.held = "hook"
    <3>1. /\ \E i \in SourceAt(a.hist, a.at) : f.hook \in Due(a.hist[i])
          /\ f.hook \notin Attached(a.hist, a.at)
      BY <1>4, <1>5, <2>2 DEF Waits
    <3>2. PICK k \in SourceAt(a.hist, a.at) : f.hook \in Due(a.hist[k])
      BY <3>1
    <3>3. ~IsOpen(a.hist[k])
      BY <1>10 DEF SourceAt
    <3>4. rec.entry = a.at /\ rec.kind = "hook" /\ rec.hook \in Due(a.hist[k])
          /\ rec.hook \notin Attached(a.hist, a.at)
      BY <1>5, <1>6, <2>2, <3>1, <3>2
    <3>5. c.hist = Append(a.hist, rec) /\ c.at = a.at /\ c.evo = a.evo
      BY <1>8
    <3>6. rec \in Record /\ a \in BookType /\ c \in BookType /\ WellKept(a)
      BY <1>3, <1>6, <1>8
    <3> HIDE DEF n
    <3>7. WellKept(c) /\ SourceAt(c.hist, c.at) = {k}
      <4>1. Attaches(a, c, k, rec)
        BY <3>2, <3>3, <3>4, <3>5 DEF Attaches
      <4> QED BY <3>6, <4>1, AppendHookKept
    <3> QED BY <3>7
  <2> QED BY <1>4, <2>1, <2>2
<1>12. Marks(c) \subseteq Marks(a)
  BY <1>5, <1>6, <1>8, <1>9 DEF Marks
<1>13. n \notin Children(a) /\ Children(c) = Children(a) \cup {n}
       /\ \A i \in Children(a) : c.hist[i].run = a.hist[i].run
  BY <1>4, <1>6, <1>9 DEF Children
<1>14. Adds(a, c, n, rec)
  <2>1. Adds(a, c, Len(a.hist) + 1, rec)
    BY <1>3, <1>6, <1>8, WrittenAppended
  <2> QED BY <1>5, <2>1
<1>15. \A i \in DOMAIN g.hist : ~IsOpen(g.hist[i])
  BY <1>6, <1>8, <1>9, <1>10
<1>16. SourceAt(g.hist, g.entry) # {}
  BY <1>5, <1>7, <1>8, <1>11
<1>17. c.hist[n].run = f.run
  BY <1>6, <1>9
<1> HIDE DEF n
<1>18. rec.kind \in {"call", "hook"} /\ a.at # 0 /\ p.run < f.run
  BY <1>4, <1>5, <1>6 DEF Waits
<1> QED BY <1>3, <1>5, <1>6, <1>7, <1>8, <1>11, <1>12, <1>13, <1>14, <1>15, <1>16, <1>17, <1>18
        DEF p, f, g, rec, a, c, n

(* The path of a return ends with the resumed parent; its books are the old  *)
(* ones with the parent's continued and the leaf's shelved.                  *)
LEMMA ReturnedPath ==
    ASSUME NEW r, NEW id, Sound(r, id), NEW out \in Outcomes, Depth(r) > 0
    PROVE  LET s == ReturnActiveChild(r, out)
               g == Resumed(r, out)
               l == Len(r.path) - 1
           IN /\ l \in Nat \ {0} /\ Len(s.path) = l /\ DOMAIN s.path = 1..l
              /\ DeepestActiveLeaf(s) = g
              /\ \A n \in 1..l : n # l => s.path[n] = r.path[n]
              /\ s.completed = r.completed \cup {Archived(r)}
              /\ s.rev = r.rev + 1 /\ s.fault = r.fault /\ s.effect = r.effect
              /\ Returns(Books(r), Books(s), Book(Parent(r)), Book(DeepestActiveLeaf(r)),
                         Book(g), Shelved(Archived(r)))
<1> DEFINE s == ReturnActiveChild(r, out)
           g == Resumed(r, out)
           l == Len(r.path) - 1
           p == Parent(r)
           f == DeepestActiveLeaf(r)
<1>1. /\ r \in Live /\ r \in Reckoning /\ r.path \in Seq(Frame) /\ Len(r.path) \in Nat \ {0}
      /\ r.completed \in SUBSET CompletedRun /\ Book(f) \in Books(r)
  BY LeafBook DEF Live
<1>2. /\ l \in Nat \ {0} /\ l \in DOMAIN r.path /\ l + 1 \in DOMAIN r.path
      /\ DOMAIN r.path = 1..(l + 1) /\ p = r.path[l] /\ f = r.path[l + 1]
  BY <1>1 DEF Depth, DeepestActiveLeaf, Parent
<1>3. s.path = [i \in 1..l |-> IF i = l THEN g ELSE r.path[i]]
  BY <1>1 DEF ReturnActiveChild, ParentPath, Resumed, ReturnRecord, Parent, Reckoning
<1>4. /\ s.completed = r.completed \cup {Archived(r)}
      /\ s.rev = r.rev + 1 /\ s.fault = r.fault /\ s.effect = r.effect
  BY <1>1 DEF ReturnActiveChild, Reckoning
<1> HIDE DEF s, g, p, f, l
<1>5. /\ DOMAIN s.path = 1..l /\ s.path[l] = g /\ \A n \in 1..l : n # l => s.path[n] = r.path[n]
  BY <1>2, <1>3
<1>6. Len(s.path) = l
  <2>1. s \in Live
    BY <1>1, ReturnType DEF s
  <2>2. s.path \in Seq(Frame)
    BY <2>1 DEF Live, Reckoning
  <2> QED BY <1>2, <1>5, <2>2
<1>7. \A m, n \in 1..(l + 1) : r.path[m].run = r.path[n].run => m = n
  BY <1>2 DEF Sound, PathIsDistinct
<1>8. Book(p) \in Books(r) /\ Book(p).run # Book(f).run
  <2>1. Book(p) \in Books(r)
    BY <1>2 DEF Books
  <2>2. p.run # f.run
    BY <1>2, <1>7
  <2> QED BY <2>1, <2>2 DEF Book
<1>9. \A c \in r.completed : Shelved(c) # Book(p) /\ Shelved(c) # Book(f)
  <2>1. p.entry # 0 /\ f.entry # 0
    BY <1>1, <1>2, FrameBook
  <2> QED BY <2>1 DEF Shelved, Book
<1>10. \A n \in 1..l : n # l => Book(r.path[n]) # Book(p) /\ Book(r.path[n]) # Book(f)
  <2> SUFFICES ASSUME NEW n \in 1..l, n # l
               PROVE  Book(r.path[n]) # Book(p) /\ Book(r.path[n]) # Book(f)
    OBVIOUS
  <2>1. n \in 1..(l + 1) /\ n # l + 1 /\ l + 1 \in 1..(l + 1) /\ l \in 1..(l + 1)
    BY <1>2
  <2>2. r.path[n].run # p.run /\ r.path[n].run # f.run
    BY <1>2, <1>7, <2>1
  <2> QED BY <2>2 DEF Book
<1>11. Books(s) = (Books(r) \ {Book(p), Book(f)}) \cup {Book(g), Shelved(Archived(r))}
  <2>1. \A x : x \in Books(s) <=>
           \/ x = Book(g) \/ x = Shelved(Archived(r))
           \/ \E n \in 1..l : n # l /\ x = Book(r.path[n])
           \/ \E c \in r.completed : x = Shelved(c)
    <3>1. \A x : x \in Books(s) <=>
             \/ \E n \in 1..l : x = Book(s.path[n])
             \/ \E c \in s.completed : x = Shelved(c)
      BY <1>5 DEF Books
    <3>2. \A x : (\E n \in 1..l : x = Book(s.path[n])) <=>
             (x = Book(g) \/ \E n \in 1..l : n # l /\ x = Book(r.path[n]))
      <4>1. l \in 1..l
        BY <1>2
      <4> QED BY <1>5, <4>1
    <3> QED BY <1>4, <3>1, <3>2
  <2>2. \A x : x \in Books(r) <=>
           \/ x = Book(p) \/ x = Book(f)
           \/ \E n \in 1..l : n # l /\ x = Book(r.path[n])
           \/ \E c \in r.completed : x = Shelved(c)
    <3>1. \A x : x \in Books(r) <=>
             \/ \E n \in 1..(l + 1) : x = Book(r.path[n])
             \/ \E c \in r.completed : x = Shelved(c)
      BY <1>2 DEF Books
    <3>2. \A n : n \in 1..(l + 1) <=> (n = l \/ n = l + 1 \/ (n \in 1..l /\ n # l))
      BY <1>2
    <3> QED BY <1>2, <3>1, <3>2
  <2> QED BY <1>9, <1>10, <2>1, <2>2
<1>12. Returns(Books(r), Books(s), Book(p), Book(f), Book(g), Shelved(Archived(r)))
  BY <1>1, <1>8, <1>11 DEF Returns
<1> QED BY <1>2, <1>4, <1>5, <1>6, <1>12 DEF DeepestActiveLeaf, s, g, p, f, l

(* The settled entrance of a terminal has its terminal record.               *)
LEMMA EndsWithDone ==
    ASSUME NEW r, NEW id, Sound(r, id), NEW rec, Settles(r, rec),
           Kind[DeepestActiveLeaf(r).evo] = "terminal"
    PROVE  \E i \in DOMAIN Book(DeepestActiveLeaf(r)).hist :
              Book(DeepestActiveLeaf(r)).hist[i].kind = "done"
<1> DEFINE f == DeepestActiveLeaf(r)
<1>1. rec.kind = SourceKind(f.evo) /\ \E i \in DOMAIN f.hist : rec = f.hist[i]
  BY SettledLeaf DEF SourceAt
<1>2. SourceKind(f.evo) = "done"
  BY DEF SourceKind, Modes
<1> QED BY <1>1, <1>2, LeafBook, FrameBook DEF Book

(* A finished leaf returns: one record is written, every run continues, and  *)
(* all that was sound is.                                                    *)
LEMMA ReturnFollows ==
    ASSUME NEW r, NEW id, Sound(r, id), NEW rec, Settles(r, rec), Depth(r) > 0,
           Kind[DeepestActiveLeaf(r).evo] = "terminal",
           Complete(DeepestActiveLeaf(r).hist, DeepestActiveLeaf(r).entry)
    PROVE  LET s == ReturnActiveChild(r, rec.out)
           IN /\ Sound(s, id)
              /\ \E new \in Record :
                    new.kind \in {"call", "hook"} /\ OneMore(Books(r), Books(s), new)
              /\ Grown(Books(r), Books(s)) /\ s.completed = r.completed \cup {Archived(r)}
              /\ s.rev = r.rev + 1 /\ s.fault = r.fault /\ s.effect = r.effect
<1> DEFINE out == rec.out
           s == ReturnActiveChild(r, out)
           g == Resumed(r, out)
           p == Parent(r)
           f == DeepestActiveLeaf(r)
           l == Len(r.path) - 1
           n == Len(p.hist) + 1
           new == ReturnRecord(r, out)
           a == Book(p)
           b == Book(f)
           c == Book(g)
           d == Shelved(Archived(r))
<1>1. out \in Outcomes /\ r.effect.disposition = "none" /\ r \in Live
      /\ f \in Frame /\ b \in BookType /\ Books(r) \in SUBSET BookType
  BY SettledLeaf, LeafBook
<1>2. b.run = f.run /\ b.at # 0
  BY <1>1, FrameBook
<1>3. s \in Live
  BY <1>1, ReturnType
<1> HIDE DEF out
<1>4. /\ l \in Nat \ {0} /\ Len(s.path) = l /\ DOMAIN s.path = 1..l
      /\ DeepestActiveLeaf(s) = g
      /\ \A i \in 1..l : i # l => s.path[i] = r.path[i]
      /\ s.completed = r.completed \cup {Archived(r)}
      /\ s.rev = r.rev + 1 /\ s.fault = r.fault /\ s.effect = r.effect
      /\ Returns(Books(r), Books(s), a, b, c, d)
  BY <1>1, ReturnedPath
<1>5. /\ p \in Frame /\ a \in Books(r) /\ a.run = p.run /\ a.at # 0 /\ p.run < f.run
      /\ g \in Frame /\ g.run = p.run /\ g.entry = p.entry
      /\ g.held = p.held /\ g.hook = p.hook
      /\ new \in Record /\ new.kind \in {"call", "hook"} /\ ~IsOpen(new)
      /\ c \in BookType /\ c.run = a.run /\ c.at # 0 /\ WellKept(c)
      /\ Marks(c) \subseteq Marks(a)
      /\ n \notin Children(a) /\ Children(c) = Children(a) \cup {n}
      /\ c.hist[n].run = f.run
      /\ \A i \in Children(a) : c.hist[i].run = a.hist[i].run
      /\ Adds(a, c, n, new)
      /\ SourceAt(g.hist, g.entry) # {}
      /\ \A i \in DOMAIN g.hist : ~IsOpen(g.hist[i])
  BY <1>1, ResumedBook
<1>6. /\ d \in BookType /\ d.run = b.run /\ d.at = 0 /\ d.hist = b.hist
      /\ WellKept(d) /\ Silent(b, d)
  BY ShelvedBook
<1>7. /\ r.path \in Seq(Frame) /\ Len(r.path) \in Nat
      /\ p = r.path[l] /\ f = r.path[l + 1] /\ DOMAIN r.path = 1..(l + 1)
  BY <1>1, <1>4, LeafBook DEF DeepestActiveLeaf, Parent
<1>8. InOrder(Books(r), id) /\ PathIsDistinct(r) /\ Linked(r) /\ Len(r.path) <= MaxDepth
  BY DEF Sound
<1> HIDE DEF s, g, p, f, n, new, a, b, c, d
<1>9. InOrder(Books(s), id)
  <2>1. a \in Books(r) /\ b \in Books(r) /\ a.run # b.run
        /\ Books(s) = (Books(r) \ {a, b}) \cup {c, d}
    BY <1>4 DEF Returns
  <2>2. c.hist[n].run = b.run /\ a.run < b.run
    BY <1>2, <1>5
  <2>3. \E i \in DOMAIN d.hist : d.hist[i].kind = "done"
    BY <1>6, EndsWithDone DEF b, f
  <2> QED BY <1>2, <1>5, <1>6, <1>8, <2>1, <2>2, <2>3, ShelveInOrder
<1>10. \A i \in 1..l : s.path[i].run = r.path[i].run /\ s.path[i].held = r.path[i].held
                       /\ s.path[i].hook = r.path[i].hook
  BY <1>4, <1>5, <1>7 DEF DeepestActiveLeaf
<1>11. PathIsDistinct(s)
  <2> SUFFICES ASSUME NEW i \in 1..l, NEW j \in 1..l, s.path[i].run = s.path[j].run PROVE i = j
    BY <1>4 DEF PathIsDistinct
  <2>1. i \in DOMAIN r.path /\ j \in DOMAIN r.path
    BY <1>4, <1>7
  <2> QED BY <1>8, <1>10, <2>1 DEF PathIsDistinct
<1>12. Linked(s)
  <2> SUFFICES ASSUME NEW i \in 1..l, i # 1 PROVE Waits(s.path[i - 1], s.path[i])
    BY <1>4 DEF Linked
  <2>1. i \in DOMAIN r.path /\ i - 1 \in 1..l /\ i - 1 # l
    BY <1>4, <1>7
  <2>2. Waits(r.path[i - 1], r.path[i]) /\ s.path[i - 1] = r.path[i - 1]
    BY <1>4, <1>8, <2>1 DEF Linked
  <2> QED BY <1>10, <2>2 DEF Waits
<1>13. Len(s.path) <= MaxDepth
  BY <1>1, <1>4, <1>8, <1>7, BoundAssumption
<1>14. EffectFits(s) /\ TurnIsCurrent(s)
  BY <1>1, <1>4, <1>5 DEF EffectFits, TurnIsCurrent
<1>15. Sound(s, id)
  BY <1>3, <1>9, <1>11, <1>12, <1>13, <1>14 DEF Sound
<1>16. OneMore(Books(r), Books(s), new) /\ Grown(Books(r), Books(s))
  BY <1>1, <1>4, <1>5, <1>6, ReturnWrites
<1>17. \E x \in Record : x.kind \in {"call", "hook"} /\ OneMore(Books(r), Books(s), x)
  BY <1>5, <1>16
<1> QED BY <1>4, <1>15, <1>16, <1>17 DEF s, out

(* A machine in recovery moves on without touching a run.                    *)
LEMMA RecoveryMoves ==
    ASSUME NEW r, NEW id, Sound(r, id), r.effect.disposition # "none", NEW x \in Effect,
           x.disposition # "none", x.id = r.effect.id, x.mode = r.effect.mode,
           x.disposition # "completed" => x.result = Nil
    PROVE  LET s == [r EXCEPT !.effect = x]
           IN /\ Sound(s, id) /\ Books(s) = Books(r)
              /\ DeepestActiveLeaf(s) = DeepestActiveLeaf(r)
              /\ s.completed = r.completed /\ s.path = r.path
              /\ s.rev = r.rev /\ s.fault = r.fault /\ s.effect = x
<1> DEFINE s == [r EXCEPT !.effect = x]
<1>1. r \in Live /\ r \in Reckoning
  BY LeafBook DEF Live
<1>2. /\ s.path = r.path /\ s.completed = r.completed /\ s.rev = r.rev /\ s.fault = r.fault
      /\ s.effect = x /\ s \in Live
  BY <1>1 DEF Reckoning, Live
<1> HIDE DEF s
<1>3. Books(s) = Books(r) /\ DeepestActiveLeaf(s) = DeepestActiveLeaf(r)
  BY <1>2 DEF Books, DeepestActiveLeaf
<1>4. EffectFits(s)
  BY <1>2, <1>3 DEF Sound, EffectFits
<1>5. Sound(s, id)
  BY <1>2, <1>3, <1>4 DEF Sound, PathIsDistinct, Linked, TurnIsCurrent
<1> QED BY <1>2, <1>3, <1>5 DEF s

(* The first Reckoning is sound once two identifiers are drawn, and nothing  *)
(* is written in it.                                                         *)
LEMMA CreatedSound ==
    ASSUME NEW e \in Evolutions
    PROVE  LET s == CreateReckoning(e)
           IN /\ Sound(s, 2) /\ Written(Books(s)) = {} /\ s.completed = {}
              /\ s.rev = 0 /\ s.fault = NoFault
              /\ s.effect = NoEffect \/ s.effect = PlannedEffect(1, e)
<1> DEFINE empty == [path |-> <<>>, completed |-> {}, effect |-> NoEffect,
                     fault |-> NoFault, rev |-> 0]
           g == [run |-> 1, entry |-> 1, evo |-> e, hist |-> TurnsOnEntry(empty, 1, e),
                 held |-> "root", hook |-> Nil]
           s == CreateReckoning(e)
           c == Book(g)
<1>1. 1 \in Ids
  BY BoundAssumption DEF Ids
<1>2. /\ empty \in Reckoning /\ empty.path = <<>> /\ empty.effect = NoEffect
      /\ empty.completed = {} /\ empty.fault = NoFault /\ empty.rev = 0
  BY DEF Reckoning, NoEffect, NoFault, Effect, Fault, Modes, Dispositions, FaultCategories
<1>3. Nested(empty.path)
  BY <1>2 DEF Nested
<1>4. s = WithChild(empty, 1, e, "root", Nil)
  BY DEF CreateReckoning
<1>5. Fresh(g, empty, 1, e, "root", Nil) /\ g.evo = e /\ g.entry = 1
  BY DEF Fresh
<1> HIDE DEF empty, s
<1>6. s \in Live
  BY <1>1, <1>2, <1>3, <1>4, WithChildType
<1>7. /\ s.path = <<g>> /\ s.completed = {} /\ s.rev = 0 /\ s.fault = NoFault
      /\ s.effect = EffectOnEntry(empty, 1, e)
  <2>1. /\ s.path = Append(empty.path, g) /\ s.completed = empty.completed
        /\ s.rev = empty.rev /\ s.fault = empty.fault /\ s.effect = EffectOnEntry(empty, 1, e)
    BY <1>2, <1>4 DEF WithChild, Reckoning
  <2> HIDE DEF g
  <2> QED BY <1>2, <2>1
<1>8. /\ g \in Frame /\ Book(g) \in BookType /\ Book(g).run = 1 /\ Book(g).at = 1
      /\ WellKept(Book(g)) /\ Marks(Book(g)) \subseteq {1} /\ Children(Book(g)) = {}
      /\ Book(g).hist = g.hist
      /\ \A i \in DOMAIN g.hist : IsOpen(g.hist[i]) /\ g.hist[i].rev = empty.rev
      /\ (Kind[e] = "llm" \/ SourceAt(g.hist, 1) = {})
  <2> HIDE DEF g
  <2>1. "root" \in {"root", "call", "hook"} /\ Nil \in Hooks \cup {Nil} /\ empty \in Reckoning
    BY <1>2
  <2>2. Kind[e] = "llm" \/ SourceAt(g.hist, 1) = {}
    BY <1>5 DEF Fresh, TurnsOnEntry, SourceAt
  <2>3. \A i \in DOMAIN g.hist : IsOpen(g.hist[i]) /\ g.hist[i].rev = empty.rev
    BY <1>1, <1>5, <2>1, FreshBook
  <2>4. g \in Frame
    BY <1>1, <1>5, <2>1, FreshBook
  <2>5. /\ Book(g) \in BookType /\ Book(g).run = 1 /\ Book(g).at = 1
        /\ WellKept(Book(g)) /\ Marks(Book(g)) \subseteq {1} /\ Children(Book(g)) = {}
        /\ Book(g).hist = g.hist
    BY <1>1, <1>5, <2>1, FreshBook
  <2> QED BY <2>2, <2>3, <2>4, <2>5
<1> HIDE DEF g
<1>9. DOMAIN s.path = {1} /\ Len(s.path) = 1 /\ s.path[1] = g
  BY <1>7
<1>10. DeepestActiveLeaf(s) = g /\ Books(s) = {c}
  <2>1. Books(s) = {Book(s.path[n]) : n \in {1}}
    BY <1>7, <1>9 DEF Books
  <2> QED BY <1>9, <2>1 DEF DeepestActiveLeaf
<1>11. InOrder(Books(s), 2)
  <2>1. InOrder({}, 1)
    BY DEF InOrder, OneBook, Apart, Drawn, RefersToArchive, ArchiveIsReferred, RefersOnce,
           ChildIsLater, ArchiveIsDone
  <2>2. Books(s) = {} \cup {c}
    BY <1>10
  <2>3. c \in BookType /\ c.run = 1 /\ c.at # 0 /\ WellKept(c) /\ Marks(c) \subseteq {1}
        /\ Children(c) = {}
    BY <1>8
  <2> HIDE DEF c
  <2>4. InOrder(Books(s), 1 + 1)
    BY <1>1, <2>1, <2>2, <2>3, OpenInOrder
  <2> QED BY <2>4
<1>12. PathIsDistinct(s) /\ Linked(s)
  BY <1>9 DEF PathIsDistinct, Linked
<1>13. Len(s.path) <= MaxDepth
  BY <1>9, BoundAssumption
<1>14. TurnIsCurrent(s)
  BY <1>2, <1>7, <1>8, <1>10 DEF TurnIsCurrent
<1>15. s.effect = IF Kind[e] \in Effectful THEN PlannedEffect(1, e) ELSE NoEffect
  BY <1>2, <1>7 DEF EffectOnEntry
<1>16. EffectFits(s)
  <2>1. CASE Kind[e] \in Effectful
    <3>1. SourceAt(g.hist, 1) = {}
      BY <1>8, <2>1 DEF Effectful
    <3> QED BY <1>5, <1>10, <1>15, <2>1, <3>1 DEF EffectFits, PlannedEffect
  <2>2. CASE Kind[e] \notin Effectful
    BY <1>5, <1>10, <1>15, <2>2 DEF EffectFits, NoEffect
  <2> QED BY <2>1, <2>2
<1>17. Sound(s, 2)
  BY <1>6, <1>11, <1>12, <1>13, <1>14, <1>16 DEF Sound
<1>18. Written(Books(s)) = {}
  <2>1. Entries(c) = {}
    BY <1>8 DEF Entries
  <2> QED BY <1>10, <2>1 DEF Written
<1> QED BY <1>7, <1>15, <1>17, <1>18 DEF s

-----------------------------------------------------------------------------
\* What is written in a sound Reckoning.

(* A written record is one of a run, closed, and names a drawn entrance.     *)
LEMMA WrittenFacts ==
    ASSUME NEW r, NEW id, Sound(r, id), NEW w \in Written(Books(r))
    PROVE  /\ w[3] \in Record /\ ~IsOpen(w[3]) /\ w[3].entry < id /\ w[3].entry \in Ids
           /\ \E b \in Books(r) : w[1] = b.run /\ w[2] \in DOMAIN b.hist /\ w[3] = b.hist[w[2]]
<1>1. PICK b \in Books(r) : w \in Entries(b)
  BY DEF Written
<1>2. PICK i \in DOMAIN b.hist : ~IsOpen(b.hist[i]) /\ w = <<b.run, i, b.hist[i]>>
  BY <1>1 DEF Entries
<1>3. b \in BookType /\ Drawn(Books(r), id)
  BY DEF Sound, InOrder
<1>4. b.hist \in Seq(Record) /\ b.hist[i] \in Record /\ b.hist[i].entry \in Marks(b)
  BY <1>2, <1>3 DEF BookType, Marks
<1>5. b.hist[i].entry < id
  BY <1>3, <1>4 DEF Drawn
<1>6. w[1] = b.run /\ w[2] = i /\ w[3] = b.hist[i]
  BY <1>2
<1> QED BY <1>2, <1>4, <1>5, <1>6 DEF Record

(* A closed record of a run is written.                                      *)
LEMMA WritesRecord ==
    ASSUME NEW S, NEW b \in S, NEW i \in DOMAIN b.hist, ~IsOpen(b.hist[i])
    PROVE  <<b.run, i, b.hist[i]>> \in Written(S)
<1>1. <<b.run, i, b.hist[i]>> \in Entries(b)
  BY DEF Entries
<1> QED BY <1>1 DEF Written

(* An entrance has one source record in the whole Voyage.                    *)
LEMMA OneSourceRecord ==
    ASSUME NEW r, NEW id, Sound(r, id),
           NEW a \in Books(r), NEW i \in DOMAIN a.hist, a.hist[i].kind # "hook",
           NEW b \in Books(r), NEW j \in DOMAIN b.hist, b.hist[j].kind # "hook",
           a.hist[i].entry = b.hist[j].entry
    PROVE  a = b /\ i = j
<1>1. OneBook(Books(r)) /\ Apart(Books(r)) /\ a \in BookType /\ OneSource(a)
  BY DEF Sound, InOrder, WellKept, Ordered
<1>2. a.hist[i].entry \in Marks(a) \cap Marks(b)
  BY DEF Marks
<1>3. a.run = b.run
  BY <1>1, <1>2 DEF Apart
<1>4. a = b
  BY <1>1, <1>3 DEF OneBook
<1>5. a.hist[i].entry \in Ids /\ i \in SourceAt(a.hist, a.hist[i].entry)
      /\ j \in SourceAt(a.hist, a.hist[i].entry)
  BY <1>1, <1>4 DEF BookType, Record, SourceAt
<1> QED BY <1>1, <1>4, <1>5 DEF OneSource

LEMMA WrittenOnce ==
    ASSUME NEW r, NEW id, Sound(r, id),
           NEW w \in Written(Books(r)), w[3].kind # "hook",
           NEW v \in Written(Books(r)), v[3].kind # "hook", w[3].entry = v[3].entry
    PROVE  w = v
<1>1. PICK a \in Books(r) : \E i \in DOMAIN a.hist : w = <<a.run, i, a.hist[i]>>
  BY DEF Written, Entries
<1>2. PICK b \in Books(r) : \E j \in DOMAIN b.hist : v = <<b.run, j, b.hist[j]>>
  BY DEF Written, Entries
<1> PICK i \in DOMAIN a.hist : w = <<a.run, i, a.hist[i]>>
  BY <1>1
<1> PICK j \in DOMAIN b.hist : v = <<b.run, j, b.hist[j]>>
  BY <1>2
<1>3. w[3] = a.hist[i] /\ v[3] = b.hist[j]
  BY <1>1, <1>2
<1>4. a = b /\ i = j
  BY <1>3, OneSourceRecord
<1> QED BY <1>1, <1>2, <1>4

(* While the leaf has no source record, no record of the Voyage is one.      *)
LEMMA LeafUnwritten ==
    ASSUME NEW r, NEW id, Sound(r, id),
           SourceAt(DeepestActiveLeaf(r).hist, DeepestActiveLeaf(r).entry) = {}
    PROVE  \A b \in Books(r) : \A i \in DOMAIN b.hist :
              b.hist[i].kind # "hook" => b.hist[i].entry # DeepestActiveLeaf(r).entry
<1> DEFINE f == DeepestActiveLeaf(r)
<1>1. f \in Frame /\ Book(f) \in Books(r) /\ OneBook(Books(r)) /\ Apart(Books(r))
  BY LeafBook DEF Sound, InOrder
<1>2. Book(f).hist = f.hist /\ Book(f).at = f.entry /\ f.entry # 0
  BY <1>1, FrameBook
<1> HIDE DEF f
<1> SUFFICES ASSUME NEW b \in Books(r), NEW i \in DOMAIN b.hist,
                    b.hist[i].kind # "hook", b.hist[i].entry = f.entry
             PROVE  FALSE
  BY DEF f
<1>3. f.entry \in Marks(b) \cap Marks(Book(f))
  BY <1>2 DEF Marks
<1>4. b = Book(f)
  BY <1>1, <1>3 DEF Apart, OneBook
<1>5. i \in SourceAt(f.hist, f.entry)
  BY <1>2, <1>4 DEF SourceAt
<1> QED BY <1>5 DEF f

(* The record that is written is new at its place.                           *)
LEMMA OneMoreIsNew ==
    ASSUME NEW S, NEW T, NEW rec, OneBook(S), OneMore(S, T, rec)
    PROVE  \E w : /\ w[3] = rec /\ w \notin Written(S) /\ Written(T) = Written(S) \cup {w}
<1>1. PICK b \in S, i \in Nat :
         /\ i \notin {j \in DOMAIN b.hist : ~IsOpen(b.hist[j])}
         /\ Written(T) = Written(S) \cup {<<b.run, i, rec>>}
  BY DEF OneMore
<1> DEFINE w == <<b.run, i, rec>>
<1>2. ASSUME w \in Written(S) PROVE FALSE
  <2>0. PICK a \in S : \E j \in DOMAIN a.hist : ~IsOpen(a.hist[j]) /\ w = <<a.run, j, a.hist[j]>>
    BY <1>2 DEF Written, Entries
  <2>1. PICK j \in DOMAIN a.hist : ~IsOpen(a.hist[j]) /\ w = <<a.run, j, a.hist[j]>>
    BY <2>0
  <2>2. a.run = b.run /\ j = i
    BY <2>1
  <2>3. a = b
    BY <2>2 DEF OneBook
  <2> QED BY <1>1, <2>1, <2>2, <2>3
<1>3. w[3] = rec
  OBVIOUS
<1> QED BY <1>1, <1>2, <1>3
=============================================================================
