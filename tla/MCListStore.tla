----------------------------- MODULE MCListStore -----------------------------
(* Three callers, one of them without a guard, and two setups, on two hosts. *)
EXTENDS ListStoreProperties

CONSTANTS a, b, c, s, t, here, there

MCHostOf == [p \in Callers \cup Setups |-> IF p \in {b, t} THEN there ELSE here]
=============================================================================
