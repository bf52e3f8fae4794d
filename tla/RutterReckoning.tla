--------------------------- MODULE RutterReckoning ---------------------------
(***************************************************************************)
(* The Reckoning of a Rutter Voyage and the pure functions that rewrite it *)
(* (src/officina/rutter: reducer.py, history.py and the underscored        *)
(* functions of engine.py).  A Reckoning is the complete durable value of  *)
(* one Voyage: the path of active runs from the root to the deepest leaf,  *)
(* the archived runs, the recovery authority of the leaf's effectful       *)
(* MachineStep, a fault, and the global revision.                          *)
(*                                                                         *)
(* Author callbacks are data here: Results says which outcomes an          *)
(* evolution may produce, Route where choose_next or next_on_outcome sends *)
(* them, Declines at which entrances a hook's charter_constructor returns  *)
(* None, and MayFail which evolutions and hooks have callbacks that can    *)
(* raise.  Every identifier the code draws with uuid4 is one member of     *)
(* Ids, the identifier of an entrance: a run is named by its first         *)
(* entrance, a machine by its entrance ("action-<entry>"), and a record    *)
(* other than an attached one by the entrance whose source record it is.   *)
(***************************************************************************)
EXTENDS Naturals, Sequences

CONSTANTS
    Evolutions,     \* evolution ids, distinct across definitions
    Outcomes,       \* outcome tokens
    Hooks,          \* TransitionHook ids
    Kind,           \* the class (and MachineStep mode) of an evolution
    Results,        \* outcomes an evolution's response, callback or result has
    Route,          \* successor by outcome, Nil when routing yields no target
    Undeclared,     \* a target that choose_next names and the Rutter lacks
    ChildStart,     \* start evolution of the Rutter a SubRutter calls
    HookOrder,      \* hooks of the definition that owns an evolution, in order
    HookOn,         \* TransitionMatch of a hook, Nil is the wildcard
    HookStart,      \* start evolution of the Rutter a hook attaches
    Declines,       \* <<hook, entrance>>: no charter for the transition out of it
    AllowMultiple,  \* evolutions of definitions with several hooks per transition
    MayFail,        \* evolutions and hooks whose author callbacks may raise
    MaxDepth,       \* _MAX_ACTIVE_DEPTH
    MaxId,          \* bound on the entrances of one behaviour
    Nil

Modes == {"pure", "repeat-safe", "non-repeat-safe"}
Effectful == {"repeat-safe", "non-repeat-safe"}
Kinds == Modes \cup {"llm", "sub", "terminal"}
Ids == 1..MaxId

ASSUME ProgramAssumption ==
    /\ Kind \in [Evolutions -> Kinds]
    /\ Results \in [Evolutions -> SUBSET Outcomes]
    /\ Route \in [Evolutions -> [Outcomes -> Evolutions \cup {Nil, Undeclared}]]
    /\ ChildStart \in [Evolutions -> Evolutions]
    /\ HookOrder \in [Evolutions -> Seq(Hooks)]
    /\ HookOn \in [Hooks -> [source  : Evolutions \cup {Nil},
                             outcome : Outcomes \cup {Nil},
                             target  : Evolutions \cup {Nil}]]
    /\ HookStart \in [Hooks -> Evolutions]
    /\ Declines \subseteq Hooks \X Ids
    /\ AllowMultiple \subseteq Evolutions
    /\ Nil \notin Evolutions \cup Outcomes \cup Hooks
    /\ Undeclared \notin Evolutions \cup {Nil}
ASSUME BoundAssumption == MaxDepth \in Nat \ {0} /\ MaxId \in Nat \ {0}

\* History entries.  out is Nil only in an open Turn; hook is set only in the
\* SubRutterRecord of an attached case; run names the archived child.
RecordKinds == {"turn", "machine", "call", "hook", "done"}
Record == {rec \in [kind  : RecordKinds,
                    entry : Ids,
                    evo   : Evolutions,
                    out   : Outcomes \cup {Nil},
                    hook  : Hooks \cup {Nil},
                    run   : Ids \cup {0},
                    rev   : Nat] : rec.kind # "turn" => rec.out # Nil}

\* ActiveRun, with the ActiveChild fields by which its parent holds it.
Frame == [run   : Ids,
          entry : Ids,
          evo   : Evolutions,
          hist  : Seq(Record),
          held  : {"root", "call", "hook"},
          hook  : Hooks \cup {Nil}]

Dispositions == {"none", "planned", "uncertain", "completed"}
Effect == {x \in [id : Ids \cup {0}, mode : Modes, result : Outcomes \cup {Nil},
                  disposition : Dispositions] :
             x.disposition = "completed" => x.result # Nil}
NoEffect == [id |-> 0, mode |-> "pure", result |-> Nil, disposition |-> "none"]

HookCategories == {"case-charter", "case-cardinality", "hook-construction"}
FaultCategories == HookCategories \cup {"none", "routing",
    "child-charter", "child-materialization", "target-materialization",
    "contextual-validation", "action-execution", "done-projection"}
Fault == [category : FaultCategories, run : Ids \cup {0}, entry : Ids \cup {0},
          target   : Evolutions \cup {Nil, Undeclared}, hooks : SUBSET Hooks]
NoFault == [category |-> "none", run |-> 0, entry |-> 0, target |-> Nil, hooks |-> {}]

CompletedRun == [run : Ids, hist : Seq(Record)]

Reckoning == [path : Seq(Frame), completed : SUBSET CompletedRun,
              effect : Effect, fault : Fault, rev : Nat]

-----------------------------------------------------------------------------
\* Reading a Reckoning.

DeepestActiveLeaf(r) == r.path[Len(r.path)]
Depth(r) == Len(r.path) - 1

NewRecord(kind, entry, e, out, rev) ==
    [kind |-> kind, entry |-> entry, evo |-> e, out |-> out,
     hook |-> Nil, run |-> 0, rev |-> rev]
OpenTurn(entry, e, rev) == NewRecord("turn", entry, e, Nil, rev)
IsOpen(rec) == rec.kind = "turn" /\ rec.out = Nil

\* Indices of the records of the current entrance, attached cases excluded:
\* _source_record takes the last of them.
SourceIndices(f) ==
    {i \in DOMAIN f.hist : f.hist[i].entry = f.entry /\ f.hist[i].kind # "hook"}
SourceRecords(f) ==
    {f.hist[i] : i \in {j \in SourceIndices(f) : \A k \in SourceIndices(f) : k <= j}}
\* The record kind that _is_recorded_source asks of each kind of evolution.
SourceKind(e) == CASE Kind[e] = "llm" -> "turn"
                   [] Kind[e] \in Modes -> "machine"
                   [] Kind[e] = "sub" -> "call"
                   [] OTHER -> "done"
RecordedSources(f) ==
    {rec \in SourceRecords(f) : rec.kind = SourceKind(f.evo) /\ ~IsOpen(rec)}
IsRecorded(f) == RecordedSources(f) # {}

HasTerminal(f) == \E i \in DOMAIN f.hist :
                      f.hist[i].kind = "done" /\ f.hist[i].entry = f.entry

Blocked(r) == r.fault.category # "none" \/ r.effect.disposition = "uncertain"
Condition(r) ==
    IF r.fault.category # "none" THEN "fault"
    ELSE IF r.effect.disposition = "uncertain" THEN "uncertain"
    ELSE IF HasTerminal(DeepestActiveLeaf(r)) THEN "terminal" ELSE "ready"

-----------------------------------------------------------------------------
\* Rewriting a Reckoning.

ReplaceActiveRun(r, f) == [r EXCEPT !.path = [r.path EXCEPT ![Len(r.path)] = f]]

PlannedEffect(id, e) ==
    [id |-> id, mode |-> Kind[e], result |-> Nil, disposition |-> "planned"]
EffectOnEntry(r, id, e) ==
    IF Kind[e] \in Effectful THEN PlannedEffect(id, e) ELSE r.effect
TurnsOnEntry(r, id, e) ==
    IF Kind[e] = "llm" THEN <<OpenTurn(id, e, r.rev)>> ELSE <<>>

\* _fault_and_publish: the base may already hold the accepted record, but the
\* revision stays the one of the published predecessor.
FaultReckoning(r, prev, category, target, hooks) ==
    [r EXCEPT !.rev = prev.rev,
              !.fault = [category |-> category,
                         run    |-> DeepestActiveLeaf(r).run,
                         entry  |-> DeepestActiveLeaf(r).entry,
                         target |-> target, hooks |-> hooks]]
\* A callback of an evolution or a hook may raise; the fault names the hook, and
\* the evolution if it is one that was to be entered.
FaultsOf(r, prev, category, who) ==
    IF who \in MayFail
    THEN {FaultReckoning(r, prev, category,
                         IF category = "target-materialization" THEN who ELSE Nil,
                         IF category \in HookCategories THEN {who} ELSE {})}
    ELSE {}

Entered(r, id, e) ==
    LET f == DeepestActiveLeaf(r)
    IN [ReplaceActiveRun(r, [f EXCEPT !.entry = id, !.evo = e,
                                      !.hist = f.hist \o TurnsOnEntry(r, id, e)])
        EXCEPT !.effect = EffectOnEntry(r, id, e)]
EnterEvolution(prev, r, id, e) ==
    {Entered(r, id, e)}
      \cup (IF Kind[e] = "llm"
            THEN FaultsOf(r, prev, "target-materialization", e) ELSE {})

\* enter_child with the child that _push_call or _push_hook has built.
WithChild(r, id, e, held, hook) ==
    [r EXCEPT !.path = Append(r.path,
                  [run |-> id, entry |-> id, evo |-> e,
                   hist |-> TurnsOnEntry(r, id, e), held |-> held, hook |-> hook]),
              !.effect = EffectOnEntry(r, id, e)]
\* Without capacity the push raises RutterStateError, which is no fault: nothing
\* is published at all.
\* Mutant: the root run is not counted.
HasOneMoreCapacity(r) == Depth(r) + 1 <= MaxDepth
HasChildCapacity(r) == Depth(r) + 2 <= MaxDepth
PushChild(prev, r, id, e, held, hook) ==
    IF HasChildCapacity(r)
    THEN {WithChild(r, id, e, held, hook)}
           \cup (IF Kind[e] = "llm"
                 THEN FaultsOf(r, prev, "child-materialization", e) ELSE {})
    ELSE {}
PushCall(r, id) ==
    LET e == DeepestActiveLeaf(r).evo
    IN PushChild(r, r, id, ChildStart[e], "call", Nil)
         \cup FaultsOf(r, r, "child-charter", e)
PushHook(prev, r, id, hook) ==
    PushChild(prev, r, id, HookStart[hook], "hook", hook)
      \cup FaultsOf(r, prev, "hook-construction", hook)

\* Filling the open Turn; appending a MachineRecord; settling a Terminal.
\* Mutant: every Turn of the run receives the answer.
AcceptEveryPrompt(r, out) ==
    LET f == DeepestActiveLeaf(r)
    IN [ReplaceActiveRun(r, [f EXCEPT !.hist =
            [i \in DOMAIN f.hist |->
                IF f.hist[i].kind = "turn" THEN [f.hist[i] EXCEPT !.out = out]
                                           ELSE f.hist[i]]])
        EXCEPT !.rev = r.rev + 1]
AcceptPrompt(r, out) ==
    LET f == DeepestActiveLeaf(r)
    IN [ReplaceActiveRun(r, [f EXCEPT !.hist =
            [i \in DOMAIN f.hist |->
                IF IsOpen(f.hist[i]) THEN [f.hist[i] EXCEPT !.out = out]
                                     ELSE f.hist[i]]])
        EXCEPT !.rev = r.rev + 1]
WithRecord(r, kind, out) ==
    LET f == DeepestActiveLeaf(r)
    IN [ReplaceActiveRun(r, [f EXCEPT !.hist =
            Append(f.hist, NewRecord(kind, f.entry, f.evo, out, 0))])
        EXCEPT !.rev = r.rev + 1]
AcceptMachine(r, out) == [WithRecord(r, "machine", out) EXCEPT !.effect = NoEffect]
SettleTerminal(r, out) == WithRecord(r, "done", out)

\* return_active_child; the outcome of a call is its child's terminal result,
\* which the code looks up in completed_runs and the model keeps in the record.
Archived(r) == [run |-> DeepestActiveLeaf(r).run, hist |-> DeepestActiveLeaf(r).hist]
ParentPath(r, out) ==
    LET f == DeepestActiveLeaf(r)
        n == Len(r.path) - 1
        parent == r.path[n]
        rec == [kind |-> f.held, entry |-> parent.entry, evo |-> parent.evo,
                out |-> out, hook |-> f.hook, run |-> f.run, rev |-> 0]
    IN [i \in 1..n |-> IF i = n THEN [parent EXCEPT !.hist = Append(parent.hist, rec)]
                                ELSE r.path[i]]
ReturnActiveChild(r, out) ==
    [r EXCEPT !.path = ParentPath(r, out),
              !.completed = r.completed \cup {Archived(r)},
              !.rev = r.rev + 1]

-----------------------------------------------------------------------------
\* Transitions.

SelectTransition(e, out) ==
    [source |-> e, outcome |-> out,
     target |-> IF Kind[e] = "terminal" THEN Nil ELSE Route[e][out]]
Matches(m, t) ==
    /\ m.source \in {Nil, t.source}
    /\ m.outcome \in {Nil, t.outcome}
    /\ m.target \in {Nil, t.target}

\* Hooks already attached to the transition out of the current entrance.
CompletedHooks(f) ==
    {f.hist[i].hook : i \in {j \in DOMAIN f.hist :
                        f.hist[j].kind = "hook" /\ f.hist[j].entry = f.entry}}
\* Mutant: one attached hook completes the transition.
PendingUnlessAttached(f, t) ==
    {i \in DOMAIN HookOrder[f.evo] :
        CompletedHooks(f) = {} /\ Matches(HookOn[HookOrder[f.evo][i]], t)}
PendingHooks(f, t) ==
    {i \in DOMAIN HookOrder[f.evo] :
        /\ HookOrder[f.evo][i] \notin CompletedHooks(f)
        /\ Matches(HookOn[HookOrder[f.evo][i]], t)}
\* select_transition_hooks: one whose charter_constructor gives None is passed by.
SelectedHooks(f, t) ==
    {i \in PendingHooks(f, t) : <<HookOrder[f.evo][i], f.entry>> \notin Declines}
NextHooks(f, t) ==
    {HookOrder[f.evo][i] :
        i \in {j \in SelectedHooks(f, t) : \A k \in SelectedHooks(f, t) : j <= k}}
\* The charters of all pending hooks are made before the first is attached.
CharterFaults(prev, r, f, t) ==
    UNION {FaultsOf(r, prev, "case-charter", HookOrder[f.evo][i]) :
             i \in PendingHooks(f, t)}

\* A settled entrance goes on to the next selected hook, else to the target.
AttachOrEnter(prev, r, id, f, t) ==
    LET selected == SelectedHooks(f, t)
    IN IF selected # {}
       THEN IF f.evo \notin AllowMultiple /\ \E i, j \in selected : i # j
            THEN {FaultReckoning(r, prev, "case-cardinality", Nil,
                                 {HookOrder[f.evo][i] : i \in selected})}
            ELSE UNION {PushHook(prev, r, id, h) : h \in NextHooks(f, t)}
       ELSE IF t.target = Nil THEN {r}
            ELSE EnterEvolution(prev, r, id, t.target)
\* Every Reckoning that _continue_transition can hand to the next publication
\* once r, the successor of the published prev, has accepted outcome out.
ContinueTransition(prev, r, id, out) ==
    LET f == DeepestActiveLeaf(r)
        t == SelectTransition(f.evo, out)
    IN IF t.target \in {Nil, Undeclared} /\ Kind[f.evo] # "terminal"
       THEN {FaultReckoning(r, prev, "routing", t.target, {})}
       ELSE CharterFaults(prev, r, f, t) \cup AttachOrEnter(prev, r, id, f, t)

\* _validate_fault_authority, on the one Reckoning that the engine builds and the
\* store refuses: a fault whose target the Rutter lacks.
Refused(s) == s.fault.target = Undeclared

\* _create_reckoning.
CreateReckoning(e) ==
    LET empty == [path |-> <<>>, completed |-> {}, effect |-> NoEffect,
                  fault |-> NoFault, rev |-> 0]
    IN WithChild(empty, 1, e, "root", Nil)
=============================================================================
