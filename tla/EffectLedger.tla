----------------------------- MODULE EffectLedger -----------------------------
(***************************************************************************)
(* What a Voyage promises of its effectful machines, one Ids each, seen    *)
(* without runs, histories, locks or hooks.  A machine is planned, started *)
(* (a non-repeat-safe one only under the durable mark "uncertain", once),  *)
(* completed with the outcome of some start, and accepted into history     *)
(* with that very outcome.  At most one machine is between planned and     *)
(* accepted.  A Voyage may stop anywhere.                                  *)
(***************************************************************************)
EXTENDS Naturals

CONSTANTS Ids, Outcomes, Nil

VARIABLES
    stage,      \* of each machine
    safe,       \* whether it is repeat-safe; TRUE until it is planned
    result,     \* its durable outcome
    started     \* 0, 1, or 2 for "more than once"

vars == <<stage, safe, result, started>>

\* A Voyage whose start evolution is a machine begins with its plan.
Init ==
    /\ \/ stage = [i \in Ids |-> "absent"] /\ safe = [i \in Ids |-> TRUE]
       \/ \E first \in Ids, s \in BOOLEAN :
             /\ stage = [i \in Ids |-> IF i = first THEN "planned" ELSE "absent"]
             /\ safe = [i \in Ids |-> IF i = first THEN s ELSE TRUE]
    /\ result = [i \in Ids |-> Nil]
    /\ started = [i \in Ids |-> 0]

AtRest == \A i \in Ids : stage[i] \in {"absent", "accepted"}

Plan(i) ==
    /\ AtRest /\ stage[i] = "absent"
    /\ stage' = [stage EXCEPT ![i] = "planned"]
    /\ \E s \in BOOLEAN : safe' = [safe EXCEPT ![i] = s]
    /\ UNCHANGED <<result, started>>

Mark(i) ==
    /\ stage[i] = "planned" /\ ~safe[i]
    /\ stage' = [stage EXCEPT ![i] = "uncertain"]
    /\ UNCHANGED <<safe, result, started>>

Launch(i) ==
    /\ \/ safe[i] /\ stage[i] = "planned"
       \/ ~safe[i] /\ stage[i] = "uncertain" /\ started[i] = 0
    /\ started' = [started EXCEPT ![i] = IF @ = 2 THEN 2 ELSE @ + 1]
    /\ UNCHANGED <<stage, safe, result>>

Complete(i, out) ==
    /\ stage[i] = IF safe[i] THEN "planned" ELSE "uncertain"
    /\ started[i] > 0
    /\ stage' = [stage EXCEPT ![i] = "completed"]
    /\ result' = [result EXCEPT ![i] = out]
    /\ UNCHANGED <<safe, started>>

\* Accepting one machine may plan the next in the same publication.
Accept(i) ==
    /\ stage[i] = "completed"
    /\ \/ stage' = [stage EXCEPT ![i] = "accepted"] /\ UNCHANGED safe
       \/ \E j \in Ids, s \in BOOLEAN :
             /\ stage[j] = "absent"
             /\ stage' = [stage EXCEPT ![i] = "accepted", ![j] = "planned"]
             /\ safe' = [safe EXCEPT ![j] = s]
    /\ UNCHANGED <<result, started>>

Next == \E i \in Ids :
    Plan(i) \/ Mark(i) \/ Launch(i) \/ Accept(i) \/ \E out \in Outcomes : Complete(i, out)

Spec == Init /\ [][Next]_vars
=============================================================================
