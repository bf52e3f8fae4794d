------------------------------ MODULE AuditBoard ------------------------------
(***************************************************************************)
(* What an audit run promises, seen without processes, files and locks: a  *)
(* board of the required tasks, on which commands take effect one at a     *)
(* time.  A task is put under way when what it builds on has passed and    *)
(* the capacity allows it, given to one worker, and passes only by a       *)
(* report of that worker.  A reply may be lost: then a task is under way   *)
(* and given to nobody.                                                    *)
(***************************************************************************)
EXTENDS Naturals, FiniteSets

CONSTANTS Tasks, Dependencies, Required, MaxCapacity

VARIABLES
    phase,      \* "none", "active", "complete" or "failed"
    passed,     \* tasks whose audit passed
    underway,   \* tasks claimed, whose audit has no outcome yet
    given       \* tasks that some worker was given

vars == <<phase, passed, underway, given>>

Init == phase = "none" /\ passed = {} /\ underway = {} /\ given = {}

Open ==
    /\ phase = "none"
    /\ phase' = IF Required = {} THEN "complete" ELSE "active"
    /\ UNCHANGED <<passed, underway, given>>

Startable ==
    {t \in Required \ (passed \cup underway) : Dependencies[t] \cap Required \subseteq passed}

\* A claim of capacity k fills the board up to k tasks, or takes all that may start.
Claim(k) ==
    /\ phase = "active"
    /\ \E S \in SUBSET Startable :
          /\ underway' = underway \cup S
          /\ S # {} => Cardinality(underway') <= k
          /\ S = Startable \/ Cardinality(underway') >= k
    /\ UNCHANGED <<phase, passed, given>>

Give(S) ==
    /\ S \subseteq underway \ given
    /\ given' = given \cup S
    /\ UNCHANGED <<phase, passed, underway>>

Pass(t) ==
    /\ phase = "active" /\ t \in underway \cap given
    /\ passed' = passed \cup {t} /\ underway' = underway \ {t}
    /\ phase' = IF passed' = Required THEN "complete" ELSE "active"
    /\ UNCHANGED given

\* Even a complete run fails, by a report that comes late.
Fail ==
    /\ phase \in {"active", "complete"}
    /\ phase' = "failed" /\ underway' = {}
    /\ UNCHANGED <<passed, given>>

Next ==
    \/ Open \/ Fail
    \/ \E k \in 0..MaxCapacity : Claim(k)
    \/ \E S \in SUBSET Required : Give(S)
    \/ \E t \in Required : Pass(t)

Spec == Init /\ [][Next]_vars
=============================================================================
