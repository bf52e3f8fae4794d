---------------------------- MODULE VoyageRelease ----------------------------
(***************************************************************************)
(* A Voyage and the release of its working directory (dispenser.py:        *)
(* VoyageDispenser.release).  release reads the status of its target in    *)
(* one transaction and deletes the directory afterwards without the        *)
(* Voyage's lock, so other processes may move the Voyage in between; with  *)
(* force the status is not read.  Deleting is the dispenser author's       *)
(* release_voyage callback, which removes the Reckoning and the Voyage ID. *)
(***************************************************************************)
EXTENDS RutterProperties

VARIABLES
    released,   \* "no", or how the Voyage was released
    releasing   \* the release that each process is about to carry out, and what
                \* its check has looked at

rvars == <<vars, released, releasing>>

RInit ==
    /\ Init
    /\ released = "no"
    /\ releasing = [p \in Procs |-> "no"]

HooksReturned(r) ==
    \A rec \in RecordedSources(r.path[1]) :
        SelectedHooks(r.path[1], SelectTransition(rec.evo, rec.out)) = {}
\* The root Terminal is settled and every hook on it has returned.
Finished(r) ==
    /\ Depth(r) = 0 /\ HooksReturned(r)
    /\ \E rec \in RecordedSources(r.path[1]) : rec.kind = "done"
\* What a check has looked at: a Voyage without a nested run, made or due, and
\* without a hook that an advance would ask for a charter again; or not.
Unasked(r) ==
    \A rec \in RecordedSources(r.path[1]) :
        PendingHooks(r.path[1], SelectTransition(rec.evo, rec.out)) = {}
Scope(r) == IF Depth(r) = 0 /\ Unasked(r) THEN "flat" ELSE "nested"

Free(p) == pc[p] = "idle" /\ releasing[p] = "no" /\ released = "no"

\* get_status().terminal_result is present exactly in the condition "terminal".
\* Mutant: a blocked Voyage is released too.
CheckReleaseUnlessReady(p) ==
    /\ Free(p) /\ lock = Nil
    /\ Condition(disk) # "ready"
    /\ releasing' = [releasing EXCEPT ![p] = Scope(disk)]
    /\ UNCHANGED <<vars, released>>
CheckRelease(p) ==
    /\ Free(p) /\ lock = Nil
    /\ Condition(disk) = "terminal"
    /\ releasing' = [releasing EXCEPT ![p] = Scope(disk)]
    /\ UNCHANGED <<vars, released>>

ForceRelease(p) ==
    /\ Free(p)
    /\ releasing' = [releasing EXCEPT ![p] = "forced"]
    /\ UNCHANGED <<vars, released>>

\* The last Reckoning stays in disk for reference; nothing can read it.
Delete(p) ==
    /\ releasing[p] # "no" /\ released = "no"
    /\ released' = releasing[p]
    /\ UNCHANGED <<vars, releasing>>

\* The process dies before it deletes.
DieReleasing(p) ==
    /\ releasing[p] # "no" /\ released = "no"
    /\ releasing' = [releasing EXCEPT ![p] = "no"]
    /\ UNCHANGED <<vars, released>>

\* A process inside the Voyage whose directory is gone can start and finish a
\* callback; its next publication fails.
InMemory(p) ==
    disk' = disk /\ (StartEffect(p) \/ \E out \in Outcomes : RunEffect(p, out))

Beside(A) == A /\ UNCHANGED <<released, releasing>>
WhileKept(A) == released = "no" /\ Beside(A)
RNext ==
    \E p \in Procs :
        \/ CheckRelease(p) \/ ForceRelease(p) \/ Delete(p) \/ DieReleasing(p)
        \/ WhileKept(Free(p) /\ Call(p)) \/ WhileKept(Work(p))
        \/ Beside(InMemory(p) \/ Abort(p) \/ AbortInCallback(p))

RSpec == RInit /\ [][RNext]_rvars

-----------------------------------------------------------------------------
(* A Voyage that was released after a check, with no run nested in it then   *)
(* and every hook attached, had nothing left to do when its directory went,  *)
(* although that happens outside the lock: it has its result with every hook *)
(* run, is not blocked, and no process is inside a machine of it.  (The      *)
(* check is of the deepest run's condition: with a settled child that has    *)
(* not returned, or a hook not yet attached, it lets an unfinished Voyage    *)
(* go; and a hook that declined is asked again by every advance, which may   *)
(* put a fault over the result meanwhile.)                                   *)
ReleasedAtRest ==
    released = "flat" => /\ Finished(disk) /\ ~Blocked(disk)
                         /\ \A p \in Procs : pc[p] \notin {"run", "ran"}
=============================================================================
