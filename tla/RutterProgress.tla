---------------------------- MODULE RutterProgress ----------------------------
(***************************************************************************)
(* Liveness of a Voyage.  The operating loop (docs/officina/compass-       *)
(* rutter.md, "Compass operating loop") has the agents of a ready Voyage   *)
(* call advance until it needs an answer or stops, so advance, possible    *)
(* whenever the lock is free, is strongly fair; so are the start and the   *)
(* run of a callback and a publication: a process that dies before one     *)
(* leaves the Reckoning from which the next process takes it, and no step  *)
(* is assumed to kill every process that ever reaches it.  A release that  *)
(* has begun goes on or dies.                                              *)
(* Nothing is assumed of the agents that compose answers, of               *)
(* continue_=False, of direct runs of an instruction, or of a release.     *)
(***************************************************************************)
EXTENDS VoyageRelease

SomeoneAdvances == \E p \in Procs : WhileKept(Free(p) /\ Advance(p, "advance"))
SomeoneStarts == \E p \in Procs : WhileKept(StartEffect(p))
SomeoneRuns == \E p \in Procs, out \in Outcomes : WhileKept(RunEffect(p, out))
SomeonePublishes == \E p \in Procs : WhileKept(
    /\ \/ ContinueRecorded(p) \/ CompleteEffect(p) \/ AcceptEffect(p) \/ EnterSubRutter(p)
       \/ \E out \in Outcomes : RunPure(p, out) \/ Settle(p, out)
    /\ disk' # disk)

Fairness ==
    /\ SF_rvars(SomeoneAdvances) /\ SF_rvars(SomeoneStarts)
    /\ SF_rvars(SomeoneRuns) /\ SF_rvars(SomeonePublishes)
    /\ \A p \in Procs : WF_rvars(Delete(p) \/ DieReleasing(p))
FairSpec == RSpec /\ Fairness

AwaitsAnswer(r) == Kind[DeepestActiveLeaf(r).evo] = "llm" /\ ~IsRecorded(DeepestActiveLeaf(r))
\* Every advance raises: a call or a hook is refused at the depth limit.
TooDeep(r) ==
    LET leaf == DeepestActiveLeaf(r)
    IN /\ ~HasChildCapacity(r)
       /\ \/ Kind[leaf.evo] = "sub" /\ ~IsRecorded(leaf)
          \/ \E rec \in RecordedSources(leaf) :
                SelectedHooks(leaf, SelectTransition(rec.evo, rec.out)) # {}
\* Every advance raises: choose_next sends a result that stands, one that a pure
\* callback gives again at every retry, or every answer there is, to an undeclared
\* evolution, and the store refuses the routing fault that would say so.
Misroutes(e, out) == Kind[e] # "terminal" /\ Route[e][out] = Undeclared
Misrouted(r) ==
    LET leaf == DeepestActiveLeaf(r)
    IN \/ \E rec \in RecordedSources(leaf) : Misroutes(rec.evo, rec.out)
       \/ r.effect.disposition = "completed" /\ Misroutes(leaf.evo, r.effect.result)
       \/ /\ Kind[leaf.evo] = "pure" /\ ~IsRecorded(leaf)
          /\ \E out \in Results[leaf.evo] : Misroutes(leaf.evo, out)
       \/ /\ Kind[leaf.evo] = "llm" /\ ~IsRecorded(leaf)
          /\ \A out \in Results[leaf.evo] : Misroutes(leaf.evo, out)
Over(r) == Finished(r) \/ Blocked(r) \/ TooDeep(r) \/ Misrouted(r) \/ released # "no"

(* Automatic work comes to an end whatever crashes: from every state the     *)
(* Voyage reaches one that waits for an answer, has its result with every    *)
(* hook run, is blocked by a fault or an uncertain machine, stands at the    *)
(* depth limit or at a result routed to an undeclared evolution, where every *)
(* advance raises and nothing is written, or is released (_advance).         *)
AutomaticWorkSettles == []<>(AwaitsAnswer(disk) \/ Over(disk))

(* An answered Voyage without cycles ends with its result, or blocked, at    *)
(* the limit, misrouted or released: when its agents also compose answers    *)
(* that lead on and deliver them, as the operating loop asks of them, it     *)
(* never waits for a process, a lock or an answer that cannot come           *)
(* (_validate_prompt, _advance).                                             *)
Answering ==
    /\ SF_rvars(\E p \in Procs : WhileKept(WaitForResponse(p)))
    /\ SF_rvars(\E p \in Procs, out \in Outcomes : WhileKept(
            Free(p) /\ ~Misroutes(Leaf.evo, out) /\ GetStatus(p, out)))
    /\ SF_rvars(\E p \in Procs : WhileKept(Free(p) /\ Respond(p, "advance")))
AnsweredEnds == Answering => <>[]Over(disk)
=============================================================================
