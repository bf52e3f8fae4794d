----------------------- MODULE SemanticAuditProperties -----------------------
(* What the orchestrator and the certifier rely on. *)
EXTENDS SemanticAudit

States == [status : {"none", "active", "complete", "failed"},
           audited : SUBSET Required, busy : SUBSET Required]

\* Types; a task is never audited and in progress at once, and a graph is stored
\* before the state that refers to it.
AuditTypeOK ==
    /\ inputs \in BOOLEAN /\ dag \in BOOLEAN /\ packets \subseteq Required
    /\ state \in States /\ state.audited \cap state.busy = {}
    /\ (state # NoState => inputs /\ dag)
    /\ lock \in Procs \cup {Nil}
    /\ cmd \in [Procs ->
          [pc : {"idle", "called", "prepare", "graph", "create", "read", "choose",
                 "write", "reply"},
           op : {"none", "initialize", "claim", "complete", "fail", "abort"},
           task : Tasks \cup {Nil}, report : Reports \cup {"none"},
           capacity : 0..MaxCapacity, read : States, chosen : SUBSET Required]]
    /\ handed \subseteq Required /\ again \subseteq Required
    /\ faults \in 0..MaxFaults

\* An audit starts only when the audits it builds on have passed: nothing is in
\* progress or audited before its required dependencies are audited ("returns only
\* dependency-ready task IDs"), and every such task has its input file.
DependenciesFirst ==
    \A t \in state.busy \cup state.audited :
        /\ t \in packets
        /\ \A d \in Dependencies[t] \cap Required : d \in state.audited

\* No task is given to two workers, whoever claims at the same time and wherever a
\* claim dies ("one fresh subagent per task").
ClaimedOnce == again = {}

\* A run becomes complete only when every required task has been audited; what is
\* audited stays so, and a failed run stays failed ("any malformed, rejected,
\* aborted, lost, or failed task terminates the run before signing").
Moves ==
    /\ (state.status = "active" /\ state'.status = "complete" => state'.audited = Required)
    /\ (state.status = "failed" => state' = state)
    /\ state.audited \subseteq state'.audited
    /\ (state.status = "complete" => state'.status \in {"complete", "failed"})
RunMovesForward == [][Moves]_vars

Board == INSTANCE AuditBoard WITH
    phase <- state.status, passed <- state.audited, underway <- state.busy, given <- handed

\* Commands of all processes take effect one at a time: whatever they read, whenever
\* they die and whichever replies are lost, the state file changes as a board does on
\* which each acts at once: no claim fills it beyond the largest capacity, and only a
\* task that a worker was given passes (claim, complete, fail and abort under exclusive_file_lock).
ImplementsBoard == Board!Spec

-----------------------------------------------------------------------------
\* Fairness: commands go on and get the lock in the end; the orchestrator claims again
\* and again, submits a report while a task it gave out is in progress, and reports a
\* failure while one is that it did not give out.
Fairness ==
    /\ \A p \in Procs : WF_vars(Work(p)) /\ SF_vars(Acquire(p))
    /\ SF_vars(\E p \in Procs : CallClaim(p, MaxCapacity))
    /\ SF_vars(\E p \in Procs, t \in state.busy, r \in Reports : CallComplete(p, t, r))
    /\ SF_vars(\E p \in Procs, t \in state.busy \ handed : CallFail(p, t))
FairSpec == Spec /\ Fairness

\* A run that has started comes to an end.
AuditEnds == state.status = "active" ~> state.status \in {"complete", "failed"}
=============================================================================
