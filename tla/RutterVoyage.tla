---------------------------- MODULE RutterVoyage ----------------------------
(***************************************************************************)
(* One durable Voyage operated by several processes (engine.py: Voyage,    *)
(* _advance and the functions it calls; storage.py: ReckoningStore).       *)
(*                                                                         *)
(* Every public operation runs inside ReckoningStore.transaction: it takes *)
(* the Voyage's file lock, reloads the Reckoning, and may publish several  *)
(* complete Reckonings before it lets the lock go.  A process may die, or  *)
(* a publication may raise with the old or the new file in place, between  *)
(* any two steps (Abort); the kernel then drops the lock.  Inside one      *)
(* transaction the in-memory Reckoning is the file's, so one variable      *)
(* stands for both.                                                        *)
(*                                                                         *)
(* advance's dry_run, validate and help write nothing and are left out, as *)
(* is every rejected call.  The automatic-operation budget of one call     *)
(* (_OPERATION_LIMIT) ends the call with an error between two              *)
(* publications: that is an Abort too.                                     *)
(***************************************************************************)
EXTENDS RutterReckoning

CONSTANTS Procs,      \* processes that have the Voyage open
          Start       \* initial_evolution_id of the root Rutter

ASSUME StartAssumption == Start \in Evolutions /\ Nil \notin Procs

VARIABLES
    disk,       \* the Reckoning in the Voyage's file
    lock,       \* holder of the advisory lock, or Nil
    pc,         \* where each process is inside its operation
    op,         \* "advance", "step" (continue_=False), "instruction" (its run())
    held,       \* outcome a machine callback returned, not yet durable
    draft,      \* what each agent took from its last status: entrance, answer
    nextId,     \* the next unused identifier
    ran,        \* how often a machine's callback was started, by mode; up to 2
    yielded,    \* outcomes that runs of a machine returned
    composed    \* <<entrance, outcome>>: answers composed for that Message

\* The last three are history variables: no action reads them.
process == <<pc, op, held>>
history == <<ran, yielded, composed>>
vars == <<disk, lock, pc, op, held, draft, nextId, ran, yielded, composed>>

Leaf == DeepestActiveLeaf(disk)
NoDraft == [entry |-> 0, out |-> Nil]

Init ==
    /\ disk = CreateReckoning(Start)
    /\ lock = Nil
    /\ pc = [p \in Procs |-> "idle"]
    /\ op = [p \in Procs |-> "advance"]
    /\ held = [p \in Procs |-> Nil]
    /\ draft = [p \in Procs |-> NoDraft]
    /\ nextId = 2
    /\ ran = [i \in Ids |-> [m \in Modes |-> 0]]
    /\ yielded = [i \in Ids |-> {}]
    /\ composed = {}

-----------------------------------------------------------------------------
\* The transaction.

Begin(p, kind) ==
    /\ lock = Nil
    /\ lock' = p
    /\ op' = [op EXCEPT ![p] = kind]

End(p) ==
    /\ lock' = Nil
    /\ pc' = [pc EXCEPT ![p] = "idle"]
    /\ op' = [op EXCEPT ![p] = "advance"]
    /\ held' = [held EXCEPT ![p] = Nil]

Stay(p, at) ==
    /\ pc' = [pc EXCEPT ![p] = at]
    /\ UNCHANGED <<lock, op>>

\* ReckoningStore.replace inside p's transaction; the operation goes on with the
\* automatic work unless it published a fault or may do only one step.  A refused
\* Reckoning raises, nothing is written, and the call ends (Abort).
Publish(p, s, one) ==
    /\ ~Refused(s)
    /\ disk' = s
    /\ nextId' = IF DeepestActiveLeaf(s).entry = nextId THEN nextId + 1 ELSE nextId
    /\ IF s.fault.category # "none" \/ (one /\ op[p] = "step")
       THEN End(p)
       ELSE Stay(p, "loop") /\ held' = [held EXCEPT ![p] = Nil]
    /\ UNCHANGED <<draft, history>>

\* The same for the publication that opens a call and already carries its input.
PublishFirst(p, s, kind) ==
    /\ lock = Nil /\ ~Refused(s)
    /\ disk' = s
    /\ nextId' = IF DeepestActiveLeaf(s).entry = nextId THEN nextId + 1 ELSE nextId
    /\ IF s.fault.category # "none" \/ kind = "step"
       THEN UNCHANGED <<lock, pc, op>>
       ELSE Begin(p, kind) /\ pc' = [pc EXCEPT ![p] = "loop"]
    /\ UNCHANGED <<held, draft, history>>

Running(p) == lock = p /\ pc[p] = "loop"
HasFreshId == nextId \in Ids

-----------------------------------------------------------------------------
\* Opening calls.

\* RunBlocked.  Mutant: a fault does not block.
Certain == disk.effect.disposition # "uncertain"
Unblocked == ~Blocked(disk)

\* get_status: an agent that is shown a Message composes its answer now and may
\* deliver it later, several times, or never; an agent that is shown a
\* MachineInstruction keeps it.
GetStatus(p, out) ==
    /\ lock = Nil /\ pc[p] = "idle"
    /\ Condition(disk) = "ready" /\ ~IsRecorded(Leaf)
    /\ Kind[Leaf.evo] \in Effectful \cup {"llm"}
    /\ out \in IF Kind[Leaf.evo] = "llm" THEN Results[Leaf.evo] ELSE {Nil}
    /\ draft' = [draft EXCEPT ![p] = [entry |-> Leaf.entry, out |-> out]]
    /\ composed' = IF out = Nil THEN composed ELSE composed \cup {<<Leaf.entry, out>>}
    /\ UNCHANGED <<disk, lock, process, nextId, ran, yielded>>

\* _validate_prompt: the answer must name the entrance of the open Turn.  Mutants:
\* any Message's answer does; the run's first entrance is compared.
RespondsToAny(p) == draft[p].entry # 0
RespondsToRun(p) == draft[p].entry = Leaf.run
RespondsTo(p) == draft[p].entry = Leaf.entry
Answers(p) == draft[p].out \in Results[Leaf.evo]

\* advance(response, responding_to=...): acceptance, routing and the entrance of
\* the target or of a hook's child are one publication.
Respond(p, kind) ==
    /\ pc[p] = "idle" /\ Unblocked /\ HasFreshId
    /\ Kind[Leaf.evo] = "llm" /\ ~IsRecorded(Leaf)
    /\ RespondsTo(p) /\ Answers(p)
    /\ \E s \in ContinueTransition(disk, AcceptPrompt(disk, draft[p].out),
                                   nextId, draft[p].out)
                \cup FaultsOf(disk, disk, "contextual-validation", Leaf.evo) :
          PublishFirst(p, s, kind)

\* advance() without a response.
Advance(p, kind) ==
    /\ pc[p] = "idle" /\ Unblocked
    /\ ~(Kind[Leaf.evo] = "llm" /\ ~IsRecorded(Leaf))
    /\ Begin(p, kind)
    /\ pc' = [pc EXCEPT ![p] = "loop"]
    /\ UNCHANGED <<disk, held, draft, nextId, history>>

\* A pure step takes any well-formed result; an effectful one takes only the
\* durable result of its completed recovery.  Mutant: any result then.
SuppliesAny(out) ==
    Kind[Leaf.evo] \in Effectful => disk.effect.disposition = "completed"
Supplies(out) ==
    Kind[Leaf.evo] \in Effectful =>
        disk.effect.disposition = "completed" /\ disk.effect.result = out

\* advance(result) on a MachineStep.
SupplyResult(p, kind, out) ==
    /\ pc[p] = "idle" /\ Unblocked /\ HasFreshId
    /\ Kind[Leaf.evo] \in Modes /\ ~IsRecorded(Leaf)
    /\ out \in Results[Leaf.evo] /\ Supplies(out)
    /\ \E s \in ContinueTransition(disk, AcceptMachine(disk, out), nextId, out) :
          PublishFirst(p, s, kind)

\* MachineInstruction.run of an instruction read earlier: it re-enters the
\* transaction and must still match the recovery authority.
RunInstruction(p) ==
    /\ pc[p] = "idle" /\ Unblocked
    /\ Kind[Leaf.evo] \in Effectful
    /\ disk.effect.disposition = "planned" /\ disk.effect.id = draft[p].entry
    /\ Begin(p, "instruction")
    /\ pc' = [pc EXCEPT ![p] = "loop"]
    /\ UNCHANGED <<disk, held, draft, nextId, history>>

-----------------------------------------------------------------------------
\* The automatic work of one advance, a step per publication.

\* _continue_recorded_transition; a Terminal with no hook left to attach returns
\* its run to the parent, or ends the call at the root.
ContinueRecorded(p) ==
    /\ Running(p) /\ IsRecorded(Leaf) /\ op[p] # "instruction"
    /\ \E rec \in RecordedSources(Leaf) :
         \/ /\ HasFreshId
            /\ \E s \in ContinueTransition(disk, disk, nextId, rec.out) \ {disk} :
                  Publish(p, s, TRUE)
         \/ /\ disk \in ContinueTransition(disk, disk, nextId, rec.out)
            /\ Depth(disk) > 0
            /\ Publish(p, ReturnActiveChild(disk, rec.out), FALSE)
         \/ /\ disk \in ContinueTransition(disk, disk, nextId, rec.out)
            /\ Depth(disk) = 0
            /\ End(p)
            /\ UNCHANGED <<disk, draft, nextId, history>>

\* An unanswered Message ends the call.
WaitForResponse(p) ==
    /\ Running(p) /\ Kind[Leaf.evo] = "llm" /\ ~IsRecorded(Leaf)
    /\ End(p)
    /\ UNCHANGED <<disk, draft, nextId, history>>

\* A pure callback and the publication of its result are one step: nothing can
\* tell a lost run from one that never happened.
RunPure(p, out) ==
    /\ Running(p) /\ HasFreshId
    /\ Kind[Leaf.evo] = "pure" /\ ~IsRecorded(Leaf) /\ out \in Results[Leaf.evo]
    /\ \E s \in ContinueTransition(disk, AcceptMachine(disk, out), nextId, out)
                \cup FaultsOf(disk, disk, "action-execution", Leaf.evo) :
          Publish(p, s, TRUE)

\* _run_effectful_machine before the callback: without repeat safety the marker
\* "uncertain" is durable first.  Mutants: no marker; a completed machine starts.
Unmarked(r) == r
Marked(r) ==
    IF r.effect.mode = "non-repeat-safe"
    THEN [r EXCEPT !.effect = [r.effect EXCEPT !.disposition = "uncertain"]] ELSE r
MayStartAgain == disk.effect.disposition \in {"planned", "completed"}
MayStart == disk.effect.disposition = "planned"

StartEffect(p) ==
    /\ Running(p) /\ MayStart
    /\ disk' = Marked(disk)
    /\ Stay(p, "run")
    /\ UNCHANGED <<held, draft, nextId, history>>

Counted(i, m) == [ran EXCEPT ![i] = [ran[i] EXCEPT ![m] = IF @ = 2 THEN 2 ELSE @ + 1]]

\* The callback acts on the outside world; then it returns, or it raises and a
\* fault is published over the recovery as it stands.
RunEffect(p, out) ==
    /\ lock = p /\ pc[p] = "run" /\ out \in Results[Leaf.evo]
    /\ ran' = Counted(disk.effect.id, disk.effect.mode)
    /\ \/ /\ held' = [held EXCEPT ![p] = out]
          /\ yielded' = [yielded EXCEPT ![disk.effect.id] = @ \cup {out}]
          /\ Stay(p, "ran")
          /\ UNCHANGED disk
       \/ /\ disk' \in FaultsOf(disk, disk, "action-execution", Leaf.evo)
          /\ End(p)
          /\ UNCHANGED yielded
    /\ UNCHANGED <<draft, nextId, composed>>

\* Mutants: the result is not stored; nothing is published.
CompletedEmpty(r, out) ==
    [r EXCEPT !.effect = [r.effect EXCEPT !.disposition = "completed"]]
CompletedNowhere(r, out) == r
Completed(r, out) ==
    [r EXCEPT !.effect = [r.effect EXCEPT !.disposition = "completed", !.result = out]]

\* The result becomes durable; an instruction ends here, an advance goes on.
CompleteEffect(p) ==
    /\ lock = p /\ pc[p] = "ran"
    /\ disk' = Completed(disk, held[p])
    /\ IF op[p] = "instruction"
       THEN End(p)
       ELSE Stay(p, "loop") /\ held' = [held EXCEPT ![p] = Nil]
    /\ UNCHANGED <<draft, nextId, history>>

\* _advance_machine consumes the durable result, never the one in memory.
AcceptEffect(p) ==
    /\ Running(p) /\ HasFreshId /\ op[p] # "instruction"
    /\ disk.effect.disposition = "completed"
    /\ \E s \in ContinueTransition(disk, AcceptMachine(disk, disk.effect.result),
                                   nextId, disk.effect.result) :
          Publish(p, s, TRUE)

\* _advance_call while no child has returned for this entrance.
EnterSubRutter(p) ==
    /\ Running(p) /\ HasFreshId
    /\ Kind[Leaf.evo] = "sub" /\ ~IsRecorded(Leaf)
    /\ \E s \in PushCall(disk, nextId) : Publish(p, s, TRUE)

\* _project_terminal and _settle_terminal.
Settle(p, out) ==
    /\ Running(p) /\ Kind[Leaf.evo] = "terminal" /\ ~IsRecorded(Leaf)
    /\ out \in Results[Leaf.evo]
    /\ \E s \in {SettleTerminal(disk, out)}
                \cup FaultsOf(disk, disk, "done-projection", Leaf.evo) :
          Publish(p, s, TRUE)

\* The process dies, its publication raises, or its budget is spent.
Abort(p) ==
    /\ lock = p
    /\ End(p)
    /\ UNCHANGED <<disk, draft, nextId, history>>

\* Death while the callback runs: its side effect may have happened.
AbortInCallback(p) ==
    /\ lock = p /\ pc[p] = "run"
    /\ End(p)
    /\ ran' = Counted(disk.effect.id, disk.effect.mode)
    /\ UNCHANGED <<disk, draft, nextId, yielded, composed>>

-----------------------------------------------------------------------------
Work(p) ==
    \/ ContinueRecorded(p) \/ WaitForResponse(p)
    \/ StartEffect(p) \/ CompleteEffect(p) \/ AcceptEffect(p) \/ EnterSubRutter(p)
    \/ \E out \in Outcomes : RunPure(p, out) \/ RunEffect(p, out) \/ Settle(p, out)

Call(p) ==
    \/ \E out \in Outcomes \cup {Nil} : GetStatus(p, out)
    \/ \E kind \in {"advance", "step"} :
         \/ Advance(p, kind)
         \/ Respond(p, kind)
         \/ \E out \in Outcomes : SupplyResult(p, kind, out)
    \/ RunInstruction(p)

Next == \E p \in Procs : Call(p) \/ Work(p) \/ Abort(p) \/ AbortInCallback(p)

Spec == Init /\ [][Next]_vars
=============================================================================
