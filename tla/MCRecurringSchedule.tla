------------------------- MODULE MCRecurringSchedule -------------------------
(* One host with two contexts, either untouched or as a first setup of c1 left *)
(* it; each context has one job on that the other one does not know or has off.*)
EXTENDS RecurringScheduleProperties, TLC

CONSTANTS c1, c2, j1, j2, g1, g2, p1, p2

MCJobs == c1 :> (j1 :> "on" @@ j2 :> "absent") @@ c2 :> (j1 :> "off" @@ j2 :> "on")
SetUp == [ctx |-> c1, plugin |-> g1]
Untouched == Init /\ jobs = MCJobs /\ descriptor = [c \in Contexts |-> Nil]
Installed ==
    /\ jobs = MCJobs
    /\ descriptor = c1 :> g1 @@ c2 :> Nil
    /\ summary = c1 :> {j1} @@ c2 :> Absent /\ pending = [c \in Contexts |-> Absent]
    /\ unit = j1 :> SetUp @@ j2 :> None /\ armed = unit
    /\ sentinel = SetUp /\ owner = c1
    /\ life = [c \in Contexts |-> Nil] /\ native = Nil
    /\ proc = [p \in Procs |-> Idle]
    /\ faults = 0 /\ edits = 0 /\ calls = 0

\* Of the hand edits, the one that takes c1's job away.
MCEdits == edits' # edits => jobs'[c1][j1] = "absent"
MCSpec == (Untouched \/ Installed) /\ [][Next]_vars /\ Fairness
=============================================================================
