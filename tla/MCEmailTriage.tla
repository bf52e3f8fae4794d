---------------------------- MODULE MCEmailTriage ----------------------------
(* Three triage runs over two messages, for EmailTriage.                     *)
EXTENDS EmailTriage, TLC

CONSTANTS r1, r2, r3, m1, m2

ThreeRuns == {r1, r2, r3}
TwoMails == {m1, m2}
Alike == Permutations(ThreeRuns) \cup Permutations(TwoMails)
=============================================================================
