---------------------------- MODULE SemanticAudit ----------------------------
(***************************************************************************)
(* The locked scheduler of semantic certification audits                   *)
(* (node-certify/_rtx/_semantic_audit_scheduler.py).  Commands of any      *)
(* number of processes share a run: its inputs directory, its dependency   *)
(* graph, the packet of every claimed task, and its state file.  Each      *)
(* command holds the run's lock, reads the state, and replaces it in one   *)
(* rename; it may die before, between or after its writes, and then its    *)
(* reply is lost.                                                          *)
(*                                                                         *)
(* The orchestrator and its audit workers are external: a command may come *)
(* at any time, early, late or twice.  A report is "pass", "reject" (which *)
(* stands for abort as well) or "bad" (malformed, or with other            *)
(* dependencies than the task's).  One prefix is modelled, with one graph; *)
(* which of more ready tasks than slots are taken is left open.            *)
(***************************************************************************)
EXTENDS Naturals, FiniteSets

CONSTANTS Tasks,        \* vertices of the dependency graph
          Dependencies, \* the dependencies of each of them
          Required,     \* stale_vertices
          Procs, Nil,
          MaxCapacity,
          MaxFaults     \* bound: deaths of a command

ASSUME AuditAssumption ==
    /\ IsFiniteSet(Tasks) /\ Required \subseteq Tasks
    /\ Dependencies \in [Tasks -> SUBSET Tasks]
    /\ Nil \notin Procs /\ MaxCapacity \in Nat /\ MaxFaults \in Nat

Reports == {"pass", "reject", "bad"}
NoState == [status |-> "none", audited |-> {}, busy |-> {}]

VARIABLES
    inputs,    \* whether the inputs directory exists
    dag,       \* whether the graph was stored
    packets,   \* the tasks that have an input file
    state,     \* the state file
    lock,      \* holder of the run's lock
    cmd,       \* each process: where it is, its command, and what it read and chose
    handed,    \* tasks given to a worker
    again,     \* tasks given to a worker once more
    faults

vars == <<inputs, dag, packets, state, lock, cmd, handed, again, faults>>
files == <<inputs, dag, packets, state>>
given == <<handed, again>>

Idle == [pc |-> "idle", op |-> "none", task |-> Nil, report |-> "none",
         capacity |-> 0, read |-> NoState, chosen |-> {}]

Init ==
    /\ inputs = FALSE /\ dag = FALSE /\ packets = {} /\ state = NoState
    /\ lock = Nil /\ cmd = [p \in Procs |-> Idle]
    /\ handed = {} /\ again = {} /\ faults = 0

-----------------------------------------------------------------------------
\* Commands.

Call(p, c) ==
    /\ cmd[p] = Idle /\ cmd' = [cmd EXCEPT ![p] = c]
    /\ UNCHANGED <<files, lock, given, faults>>
Command(o) == [Idle EXCEPT !.pc = "called", !.op = o]

CallInitialize(p) == Call(p, Command("initialize"))
CallClaim(p, k) == Call(p, [Command("claim") EXCEPT !.capacity = k])
\* A report is submitted for a task that some worker was given.
CallComplete(p, t, r) ==
    /\ t \in handed
    /\ Call(p, [Command("complete") EXCEPT !.task = t, !.report = r])
\* The worker is lost, or the orchestrator finds a task in progress that it gave
\* to nobody.
CallFail(p, t) ==
    /\ t \in state.busy
    /\ Call(p, [Command("fail") EXCEPT !.task = t])
CallAbort(p) == Call(p, Command("abort"))

Go(p, at) == cmd' = [cmd EXCEPT ![p].pc = at]
Return(p) == cmd' = [cmd EXCEPT ![p] = Idle] /\ lock' = Nil

\* exclusive_file_lock.  Mutant: no lock.
Unlocked == TRUE
LockFree == lock = Nil
Acquire(p) ==
    /\ cmd[p].pc = "called" /\ LockFree /\ lock' = p
    /\ cmd' = [cmd EXCEPT ![p].pc = IF cmd[p].op = "initialize" THEN "prepare" ELSE "read"]
    /\ UNCHANGED <<files, given, faults>>

-----------------------------------------------------------------------------
\* initialize.

\* An existing state of the same run is kept; an inputs directory without a state
\* makes mkdir raise.
Prepare(p) ==
    /\ cmd[p].pc = "prepare"
    /\ IF state # NoState \/ inputs
       THEN Return(p) /\ UNCHANGED inputs
       ELSE inputs' = TRUE /\ Go(p, "graph") /\ UNCHANGED lock
    /\ UNCHANGED <<dag, packets, state, given, faults>>

StoreGraph(p) ==
    /\ cmd[p].pc = "graph" /\ dag' = TRUE /\ Go(p, "create")
    /\ UNCHANGED <<inputs, packets, state, lock, given, faults>>

CreateState(p) ==
    /\ cmd[p].pc = "create" /\ Return(p)
    /\ state' = [NoState EXCEPT !.status = IF Required = {} THEN "complete" ELSE "active"]
    /\ UNCHANGED <<inputs, dag, packets, given, faults>>

-----------------------------------------------------------------------------
\* claim, complete, fail and abort.

\* The state is read.  A missing state, and for a claim, a failure or an abort one
\* that is not active, ends the command.
Refuses(c, s) ==
    \/ s = NoState
    \/ c.op # "complete" /\ s.status # "active"
    \/ c.op = "fail" /\ c.task \notin s.busy
Read(p) ==
    /\ cmd[p].pc = "read"
    /\ IF Refuses(cmd[p], state)
       THEN Return(p)
       ELSE /\ cmd' = [cmd EXCEPT ![p].read = state,
                                  ![p].pc = IF cmd[p].op = "claim" THEN "choose" ELSE "write"]
            /\ UNCHANGED lock
    /\ UNCHANGED <<files, given, faults>>

\* Mutants: a dependency in progress is enough; one that is not required has to be
\* audited as well.
DependencyBegun(s, d) == d \notin Required \/ d \in s.audited \cup s.busy
DependencyAudited(s, d) == d \in s.audited
DependencyMet(s, d) == d \notin Required \/ d \in s.audited
Ready(s) ==
    {t \in Required \ (s.audited \cup s.busy) :
        \A d \in Dependencies[t] : DependencyMet(s, d)}
Slots(p) ==
    LET n == Cardinality(cmd[p].read.busy)
    IN IF cmd[p].capacity > n THEN cmd[p].capacity - n ELSE 0

Choose(p) ==
    /\ cmd[p].pc = "choose"
    /\ \E S \in SUBSET Ready(cmd[p].read) :
          /\ Cardinality(S) <= Slots(p)
          /\ Cardinality(S) = Slots(p) \/ S = Ready(cmd[p].read)
          /\ packets' = packets \cup S
          /\ cmd' = [cmd EXCEPT ![p].chosen = S, ![p].pc = "write"]
    /\ UNCHANGED <<inputs, dag, state, lock, given, faults>>

Failed(s) == [s EXCEPT !.status = "failed", !.busy = {}]

AllAudited(s) == s.audited = Required
Audit(s, t) == [s EXCEPT !.audited = @ \cup {t}, !.busy = @ \ {t}]
Passed(s, t) ==
    IF AllAudited(Audit(s, t)) THEN [Audit(s, t) EXCEPT !.status = "complete"] ELSE Audit(s, t)

\* A report that does not fit fails the run, even one for a task that is not in
\* progress or for a run that is over.
Completed(s, t, r) ==
    IF s.status = "active" /\ t \in s.busy /\ r = "pass" THEN Passed(s, t) ELSE Failed(s)

Written(c) ==
    CASE c.op = "claim" -> [c.read EXCEPT !.busy = @ \cup c.chosen]
      [] c.op = "complete" -> Completed(c.read, c.task, c.report)
      [] c.op \in {"fail", "abort"} -> Failed(c.read)

WriteState(p) ==
    /\ cmd[p].pc = "write"
    /\ state' = Written(cmd[p]) /\ Go(p, "reply")
    /\ UNCHANGED <<inputs, dag, packets, lock, given, faults>>

\* The lock is released; each item of a claim goes to a worker of its own.
Reply(p) ==
    /\ cmd[p].pc = "reply" /\ Return(p)
    /\ handed' = handed \cup cmd[p].chosen
    /\ again' = again \cup (handed \cap cmd[p].chosen)
    /\ UNCHANGED <<files, faults>>

-----------------------------------------------------------------------------
Die(p) ==
    /\ cmd[p].pc \notin {"idle", "called"}
    /\ faults < MaxFaults /\ faults' = faults + 1
    /\ Return(p) /\ UNCHANGED <<files, given>>

Work(p) ==
    \/ Acquire(p) \/ Prepare(p) \/ StoreGraph(p) \/ CreateState(p)
    \/ Read(p) \/ Choose(p) \/ WriteState(p) \/ Reply(p)

Next ==
    \E p \in Procs :
        \/ CallInitialize(p) \/ CallAbort(p)
        \/ \E k \in 0..MaxCapacity : CallClaim(p, k)
        \/ \E t \in Tasks : CallFail(p, t) \/ (\E r \in Reports : CallComplete(p, t, r))
        \/ Work(p) \/ Die(p)

Spec == Init /\ [][Next]_vars
=============================================================================
