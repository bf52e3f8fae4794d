------------------------------ MODULE MCLlmWakeup ------------------------------
(* One session, two processes, for LlmWakeup.                                *)
EXTENDS LlmWakeup, TLC

CONSTANTS s1, p1, p2

OneSession == {s1}
TwoProcs == {p1, p2}
OneReset == {2}
=============================================================================
