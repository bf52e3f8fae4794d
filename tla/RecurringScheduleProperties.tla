--------------------- MODULE RecurringScheduleProperties ---------------------
(***************************************************************************)
(* What the shared native scheduler set promises (SKILL.md of              *)
(* recurring-tasks, "Context and ownership"), whatever the interleaving of *)
(* operations, failing steps and dying processes.                          *)
(***************************************************************************)
EXTENDS RecurringSchedule

Steps == {"load", "render", "prune", "reload", "enable", "sentinel", "own",
          "settle", "clear", "teardown", "disarm", "unsentinel", "disown"}
Locked == Steps \cup {"jobs", "wait"}
Places == Locked \cup {"idle", "called", "refused", "describe"}

\* Types: what each file and each process may hold (Load, Teardown, Call).
ScheduleTypeOK ==
    /\ jobs \in [Contexts -> [Jobs -> {"absent", "off", "on"}]]
    /\ descriptor \in [Contexts -> Plugins \cup {Nil}]
    /\ summary \in [Contexts -> (SUBSET Jobs) \cup {Absent}]
    /\ pending \in [Contexts -> (SUBSET Jobs) \cup {Absent}]
    /\ unit \in [Jobs -> Registrations \cup {None}]
    /\ armed \in [Jobs -> Registrations \cup {None}]
    /\ sentinel \in Registrations \cup {None}
    /\ owner \in Contexts \cup {Nil}
    /\ life \in [Contexts -> Procs \cup {Nil}] /\ native \in Procs \cup {Nil}
    /\ proc \in [Procs ->
          [pc : Places, op : Operations \cup {"none", "fallback"},
           own : Registrations \cup {None}, target : Registrations \cup {None},
           previous : Registrations \cup {None}, names : SUBSET Jobs]]
    /\ faults \in 0..MaxFaults /\ edits \in 0..MaxEdits /\ calls \in 0..MaxCalls

\* A process holds the native lock exactly while it reconciles the set, and its
\* context's lifecycle lock exactly from the second read of the descriptor to the
\* end, through failures and fallbacks (exclusive_file_lock in run_operation, sync
\* and remove_context).
LocksHeld ==
    \A p \in Procs :
        /\ native = p <=> proc[p].pc \in Steps
        /\ \A c \in Contexts :
              life[c] = p <=> (proc[p].pc \in Locked /\ proc[p].own.ctx = c)

\* The set is the complete set of one context: every name in N is registered and
\* armed as it was rendered, cron runs the same context's healthcheck, and no other
\* unit file is left.
Exact(c, N) ==
    \E r \in Registrations :
        /\ r.ctx = c /\ sentinel = r
        /\ \A j \in Jobs : unit[j] = IF j \in N THEN r ELSE None
        /\ \A j \in N : armed[j] = r

\* Whoever drops a pending record has either made its context the owner of exactly
\* the set that the settled record names - after a fallback this is the previous
\* owner's - or removed every unit file, and then no context owns the set.
Settles(c) ==
    (pending[c] # Absent /\ pending'[c] = Absent) =>
        \/ owner' = c /\ Exact(c, summary[c])'
        \/ owner' = Nil /\ Registered' = {} /\ summary'[c] = {} /\ sentinel' = None
SettledIsExact == [][\A c \in Contexts : Settles(c)]_vars

\* A context becomes the owner only once the whole set is its own and the timers
\* run its current definitions: a reconciliation that fails before that claims
\* nothing.  The owner file goes only in a removal by that owner, and after every
\* unit file and the sentinel: a later run of the removal finds what an interrupted
\* one left (_write_owner and the unlink in _remove_context_unlocked).
Claims == (owner' # owner /\ owner' # Nil) => Exact(owner, pending[owner])'
Disowns ==
    (owner # Nil /\ owner' = Nil) =>
        /\ Registered = {} /\ sentinel = None
        /\ \E p \in Procs : life[owner] = p /\ native = p /\ proc[p].op = "remove"
OwnerChangesHands == [][Claims /\ Disowns]_vars

-----------------------------------------------------------------------------
\* Fairness: a process goes on; a process waiting for a file lock gets it if the
\* lock is free again and again.
Fairness ==
    \A p \in Procs :
        /\ WF_vars(Work(p))
        /\ SF_vars(Enter(p)) /\ SF_vars(TakeNative(p))
FairSpec == Spec /\ Fairness

\* Every operation ends, whatever fails and whoever dies: two locks in one order,
\* at most one fallback, and no lock outlives its process.
OperationsEnd == \A p \in Procs : proc[p].pc # "idle" ~> proc[p].pc = "idle"

-----------------------------------------------------------------------------
\* SKILL.md: "A plugin-cache path change is repaired by rerunning setup"; control.py
\* answers the failure of every other operation with "rerun recurring-tasks setup".
\* A setup is then refused at most while the owner's first setup is about to publish
\* its descriptor.
SetupRepairs ==
    \A p \in Procs : (proc[p].pc = "refused" /\ proc[p].op = "setup") =>
        \E q \in Procs : proc[q].pc = "describe" /\ proc[q].own.ctx = owner
=============================================================================
