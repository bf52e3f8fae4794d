-------------------------- MODULE RecurringSchedule --------------------------
(***************************************************************************)
(* The native scheduler set that every recurring-tasks context of a host   *)
(* shares (officina/recurring: control.py, native.py, runtime.py; the      *)
(* Linux branches).  An operation takes its context's lifecycle lock,      *)
(* reads the descriptor again, and reconciles the shared set under the     *)
(* native lock: pending record, unit files, systemd, sentinel, owner file, *)
(* settled record.  When a step raises, the previous owner's set is        *)
(* reconciled in its place.                                                *)
(*                                                                         *)
(* A step may stop with all, some or none of its effect, because it raises *)
(* or because the process dies; the kernel then drops its locks.  systemd  *)
(* is external: it keeps the definition a timer was armed with until it       *)
(* reloads its files or disables the timer.  A registration stands for a   *)
(* job's unit files, or for their loaded definition, and names the context *)
(* and the plugin root rendered into it.  Legacy state, macOS and Windows  *)
(* are left out.                                                           *)
(***************************************************************************)
EXTENDS Naturals, FiniteSets

CONSTANTS Contexts,   \* durable config roots, each the owner_id of a context
          Jobs,       \* job names
          Plugins,    \* plugin roots a setup may capture
          Procs,      \* processes that run operations
          Nil,
          MaxFaults,  \* bound: raised steps and deaths together
          MaxEdits,   \* bound: hand edits of a jobs file
          MaxCalls    \* bound: operations called

ASSUME ScheduleAssumption ==
    /\ Nil \notin Contexts \cup Plugins \cup Procs \cup Jobs
    /\ MaxFaults \in Nat /\ MaxEdits \in Nat /\ MaxCalls \in Nat

Registrations == [ctx : Contexts, plugin : Plugins]
None == [ctx |-> Nil, plugin |-> Nil]
Absent == {Nil}                          \* what a missing record reads as

VARIABLES
    jobs,        \* jobs.yaml of each context: "absent", "off" or "on" per job
    descriptor,  \* plugin root in each context's schedule-descriptor.json
    summary,     \* registrations.json of each context: a set of names
    pending,     \* registrations.pending.json of each context
    unit,        \* the unit files in the shared native root
    armed,       \* the definition of each timer systemd has active
    sentinel,    \* whose healthcheck script cron runs
    owner,       \* install-owner.json
    life,        \* holder of each context's lifecycle lock
    native,      \* holder of the native lock
    proc,        \* each process: where it is, its operation, the schedule it was
                 \* called for, the one it reconciles, the owner to fall back to
                 \* while that was not tried, and the names it works on
    faults, edits, calls

records == <<summary, pending>>
set == <<unit, armed, sentinel, owner>>
locks == <<life, native>>
counts == <<faults, edits, calls>>
vars == <<jobs, descriptor, records, set, locks, proc, counts>>

Idle == [pc |-> "idle", op |-> "none", own |-> None, target |-> None,
         previous |-> None, names |-> {}]
On(c) == {j \in Jobs : jobs[c][j] = "on"}
Listed(c) == {j \in Jobs : jobs[c][j] # "absent"}
Registered == {j \in Jobs : unit[j] # None}

Init ==
    /\ jobs \in [Contexts -> [Jobs -> {"absent", "off", "on"}]]
    /\ descriptor \in [Contexts -> Plugins \cup {Nil}]
    /\ summary = [c \in Contexts |-> Absent] /\ pending = summary
    /\ unit = [j \in Jobs |-> None] /\ armed = unit
    /\ sentinel = None /\ owner = Nil
    /\ life = [c \in Contexts |-> Nil] /\ native = Nil
    /\ proc = [p \in Procs |-> Idle]
    /\ faults = 0 /\ edits = 0 /\ calls = 0

-----------------------------------------------------------------------------
\* Calls.

Become(p, r) == proc' = [proc EXCEPT ![p] = r]
Go(p, at) == Become(p, [proc[p] EXCEPT !.pc = at])
Release(p) ==
    /\ life' = [c \in Contexts |-> IF life[c] = p THEN Nil ELSE life[c]]
    /\ native' = IF native = p THEN Nil ELSE native
Quit(p) == Become(p, Idle) /\ Release(p)

\* The owner of a jobs file edits it by hand; no lock protects it.
EditJobs(c, j, state) ==
    /\ edits < MaxEdits /\ edits' = edits + 1
    /\ jobs[c][j] # state
    /\ jobs' = [jobs EXCEPT ![c] = [@ EXCEPT ![j] = state]]
    /\ UNCHANGED <<descriptor, records, set, locks, proc, faults, calls>>

\* setup builds its schedule from the running plugin; every other operation
\* reads the descriptor, which must exist.
Call(p, o, c, plugin) ==
    /\ proc[p].pc = "idle" /\ calls < MaxCalls /\ calls' = calls + 1
    /\ plugin \in IF o = "setup" THEN Plugins ELSE {descriptor[c]} \ {Nil}
    /\ Become(p, [Idle EXCEPT !.pc = "called", !.op = o,
                              !.own = [ctx |-> c, plugin |-> plugin]])
    /\ UNCHANGED <<jobs, descriptor, records, set, locks, faults, edits>>

\* run_operation: the lifecycle lock, then the descriptor again.
AuthorityUnchanged(p) ==
    proc[p].op = "setup" \/ descriptor[proc[p].own.ctx] \in {proc[p].own.plugin, Nil}

Enter(p) ==
    /\ proc[p].pc = "called" /\ life[proc[p].own.ctx] = Nil
    /\ IF AuthorityUnchanged(p)
       THEN /\ life' = [life EXCEPT ![proc[p].own.ctx] = p]
            /\ Go(p, IF proc[p].op \in {"enable", "disable"} THEN "jobs" ELSE "wait")
       ELSE UNCHANGED life /\ Become(p, Idle)
    /\ UNCHANGED <<jobs, descriptor, records, set, native, counts>>

\* _set_enabled: the jobs file is rewritten before anything is reconciled.
SetEnabled(p, j) ==
    /\ proc[p].pc = "jobs" /\ j \in Listed(proc[p].own.ctx)
    /\ jobs' = [jobs EXCEPT ![proc[p].own.ctx] = [@ EXCEPT ![j] =
                   IF proc[p].op = "enable" THEN "on" ELSE "off"]]
    /\ Go(p, "wait")
    /\ UNCHANGED <<descriptor, records, set, locks, counts>>

\* The job to enable or disable is not in the file.
JobNotFound(p) ==
    /\ proc[p].pc = "jobs" /\ Listed(proc[p].own.ctx) # Jobs
    /\ Quit(p)
    /\ UNCHANGED <<jobs, descriptor, records, set, counts>>

\* _load_owner raises when the owner's descriptor cannot be read: outside the try,
\* so nothing is reconciled.  Mutant: a removal does not ask who owns the set.
OwnerUnreadable == owner # Nil /\ descriptor[owner] = Nil
AnyoneRemoves(p) == TRUE
MayReconcile(p) == proc[p].op = "remove" => owner = proc[p].own.ctx

TakeNative(p) ==
    /\ proc[p].pc = "wait" /\ native = Nil
    /\ IF OwnerUnreadable
       THEN Go(p, "refused") /\ Release(p)
       ELSE IF ~MayReconcile(p) THEN Quit(p)
       ELSE /\ native' = p /\ UNCHANGED life
            /\ Become(p, [proc[p] EXCEPT
                  !.pc = IF proc[p].op = "remove" THEN "teardown" ELSE "load",
                  !.target = proc[p].own,
                  !.previous = IF proc[p].op = "remove" \/ owner = Nil THEN None
                               ELSE [ctx |-> owner, plugin |-> descriptor[owner]]])
    /\ UNCHANGED <<jobs, descriptor, records, set, counts>>

\* The refusal is reported.
Refused(p) ==
    /\ proc[p].pc = "refused" /\ Become(p, Idle)
    /\ UNCHANGED <<jobs, descriptor, records, set, locks, counts>>

-----------------------------------------------------------------------------
\* How a step of a reconciliation ends.

At(p, step) == native = p /\ proc[p].pc = step
Done(p, at) == Go(p, at) /\ UNCHANGED <<locks, faults>>

\* The step raised: sync reconciles the previous owner's set once, and raises all
\* the same; a removal and a fallback only raise.  Mutant: the locks stay.
RaiseLocked(p) == Become(p, Idle) /\ UNCHANGED locks
Raise(p) ==
    IF proc[p].previous = None
    THEN Quit(p)
    ELSE /\ Become(p, [Idle EXCEPT !.pc = "load", !.op = "fallback", !.own = proc[p].own,
                                   !.target = proc[p].previous])
         /\ UNCHANGED locks
Stopped(p) == faults < MaxFaults /\ faults' = faults + 1 /\ (Raise(p) \/ Quit(p))

-----------------------------------------------------------------------------
\* _sync_unlocked.

\* load_jobs and the pending record of the names that will be registered.
Load(p) ==
    LET c == proc[p].target.ctx
        planned == [pending EXCEPT ![c] = On(c)]
    IN /\ At(p, "load")
       /\ \/ /\ pending' = planned
             /\ Become(p, [proc[p] EXCEPT !.pc = "render", !.names = On(c)])
             /\ UNCHANGED <<locks, faults>>
          \/ pending' \in {pending, planned} /\ Stopped(p)
       /\ UNCHANGED <<jobs, descriptor, summary, set, edits, calls>>

\* The service and timer of every enabled job are written.
Render(p) ==
    /\ At(p, "render")
    /\ \E W \in SUBSET proc[p].names :
          /\ unit' = [j \in Jobs |-> IF j \in W THEN proc[p].target ELSE unit[j]]
          /\ (W = proc[p].names /\ Done(p, "prune")) \/ Stopped(p)
    /\ UNCHANGED <<jobs, descriptor, records, armed, sentinel, owner, edits, calls>>

\* Every other job's timer is disabled and its files are removed.  Mutant: only a
\* job of the same context is another job.
StaleOfContext(p) == {j \in Registered \ proc[p].names : unit[j].ctx = proc[p].target.ctx}
Stale(p) == Registered \ proc[p].names

\* Whether systemd did disable a timer is not asked.
Prune(p) ==
    /\ At(p, "prune")
    /\ \E D \in SUBSET Stale(p), S \in SUBSET Stale(p) :
          /\ unit' = [j \in Jobs |-> IF j \in D THEN None ELSE unit[j]]
          /\ armed' = [j \in Jobs |-> IF j \in S THEN None ELSE armed[j]]
          /\ \/ D = Stale(p) /\ S = D /\ Done(p, "reload")
             \/ /\ D = Stale(p) /\ S # D /\ Go(p, "reload")
                /\ faults < MaxFaults /\ faults' = faults + 1 /\ UNCHANGED locks
             \/ D \subseteq S /\ Cardinality(S \ D) <= 1 /\ Stopped(p)
    /\ UNCHANGED <<jobs, descriptor, records, sentinel, owner, edits, calls>>

\* systemctl daemon-reload: armed timers take their files' definitions.
Reloaded == [j \in Jobs |-> IF armed[j] # None /\ unit[j] # None THEN unit[j] ELSE armed[j]]

Reload(p) ==
    /\ At(p, "reload")
    /\ \/ armed' = Reloaded /\ Done(p, "enable")
       \/ armed' \in {armed, Reloaded} /\ Stopped(p)
    /\ UNCHANGED <<jobs, descriptor, records, unit, sentinel, owner, edits, calls>>

\* systemctl enable --now of every enabled job's timer; each call loads the files
\* anew.  Mutant: unchecked.
EnableUnchecked(p) ==
    /\ At(p, "enable")
    /\ \E E \in SUBSET proc[p].names :
          /\ armed' = [j \in Jobs |-> IF j \in E THEN unit[j] ELSE armed[j]]
          /\ Done(p, "sentinel")
    /\ UNCHANGED <<jobs, descriptor, records, unit, sentinel, owner, edits, calls>>
Enable(p) ==
    /\ At(p, "enable")
    /\ \E E \in SUBSET proc[p].names :
          /\ armed' = [j \in Jobs |-> IF j \in E THEN unit[j] ELSE armed[j]]
          /\ (E = proc[p].names /\ Done(p, "sentinel")) \/ Stopped(p)
    /\ UNCHANGED <<jobs, descriptor, records, unit, sentinel, owner, edits, calls>>

\* The healthcheck script and its crontab line.
Sentinel(p) ==
    /\ At(p, "sentinel")
    /\ \/ sentinel' = proc[p].target /\ Done(p, "own")
       \/ sentinel' \in {sentinel, proc[p].target} /\ Stopped(p)
    /\ UNCHANGED <<jobs, descriptor, records, unit, armed, owner, edits, calls>>

\* _write_owner.
Own(p) ==
    /\ At(p, "own")
    /\ \/ owner' = proc[p].target.ctx /\ Done(p, "settle")
       \/ owner' \in {owner, proc[p].target.ctx} /\ Stopped(p)
    /\ UNCHANGED <<jobs, descriptor, records, unit, armed, sentinel, edits, calls>>

\* _settle_registration_summary: the settled record is written and read back, then
\* the pending one goes.
Settled(p) == [summary EXCEPT ![proc[p].target.ctx] = proc[p].names]
Settle(p) ==
    /\ At(p, "settle")
    /\ \/ summary' = Settled(p) /\ Done(p, "clear")
       \/ summary' \in {summary, Settled(p)} /\ Stopped(p)
    /\ UNCHANGED <<jobs, descriptor, pending, set, edits, calls>>

\* A setup that did not fall back still has to publish its descriptor.
Clear(p) ==
    /\ At(p, "clear")
    /\ \/ /\ pending' = [pending EXCEPT ![proc[p].target.ctx] = Absent]
          /\ IF proc[p].op = "setup" THEN Go(p, "describe") /\ Release(p) ELSE Quit(p)
          /\ UNCHANGED faults
       \/ UNCHANGED pending /\ Stopped(p)
    /\ UNCHANGED <<jobs, descriptor, summary, set, edits, calls>>

\* write_managed_schedule, after both locks are released.
Describe(p) ==
    /\ proc[p].pc = "describe" /\ Become(p, Idle)
    /\ descriptor' = [descriptor EXCEPT ![proc[p].own.ctx] = proc[p].own.plugin]
    /\ UNCHANGED <<jobs, records, set, locks, counts>>

-----------------------------------------------------------------------------
\* _remove_context_unlocked.

\* The names that a record or the jobs file still knows.
Candidates(c) == ((summary[c] \cup pending[c]) \ {Nil}) \cup Listed(c)

Teardown(p) ==
    LET c == proc[p].target.ctx
        planned == [pending EXCEPT ![c] = Candidates(c)]
    IN /\ At(p, "teardown")
       /\ \/ /\ pending' = planned
             /\ Become(p, [proc[p] EXCEPT !.pc = "disarm",
                                          !.names = Candidates(c) \cup Registered])
             /\ UNCHANGED <<locks, faults>>
          \/ pending' \in {pending, planned} /\ Stopped(p)
       /\ UNCHANGED <<jobs, descriptor, summary, set, edits, calls>>

\* Timers and services are disabled or stopped and asked again before their files
\* go.  A name not shown to be inactive remains, and the teardown raises.
Disarm(p) ==
    /\ At(p, "disarm")
    /\ \E G \in SUBSET proc[p].names, Q \in SUBSET proc[p].names :
          /\ G \subseteq Q
          /\ armed' = [j \in Jobs |-> IF j \in Q THEN None ELSE armed[j]]
          /\ unit' = [j \in Jobs |-> IF j \in G THEN None ELSE unit[j]]
          /\ (G = proc[p].names /\ Done(p, "unsentinel")) \/ Stopped(p)
    /\ UNCHANGED <<jobs, descriptor, records, sentinel, owner, edits, calls>>

Unsentinel(p) ==
    /\ At(p, "unsentinel")
    /\ \/ sentinel' = None /\ Done(p, "disown")
       \/ sentinel' \in {sentinel, None} /\ Stopped(p)
    /\ UNCHANGED <<jobs, descriptor, records, unit, armed, owner, edits, calls>>

\* The owner file is removed; what is settled then is the empty set.
Disown(p) ==
    /\ At(p, "disown")
    /\ \/ /\ owner' = Nil
          /\ Become(p, [proc[p] EXCEPT !.pc = "settle", !.names = {}])
          /\ UNCHANGED <<locks, faults>>
       \/ owner' \in {owner, Nil} /\ Stopped(p)
    /\ UNCHANGED <<jobs, descriptor, records, unit, armed, sentinel, edits, calls>>

-----------------------------------------------------------------------------
Die(p) ==
    /\ proc[p].pc \notin {"idle", "refused"}
    /\ faults < MaxFaults /\ faults' = faults + 1
    /\ Quit(p)
    /\ UNCHANGED <<jobs, descriptor, records, set, edits, calls>>

Sync(p) ==
    \/ Load(p) \/ Render(p) \/ Prune(p) \/ Reload(p) \/ Enable(p)
    \/ Sentinel(p) \/ Own(p) \/ Settle(p) \/ Clear(p) \/ Describe(p)
Remove(p) == Teardown(p) \/ Disarm(p) \/ Unsentinel(p) \/ Disown(p)
Work(p) ==
    \/ Enter(p) \/ (\E j \in Jobs : SetEnabled(p, j)) \/ JobNotFound(p)
    \/ TakeNative(p) \/ Refused(p) \/ Sync(p) \/ Remove(p)
Operations == {"setup", "sync", "enable", "disable", "remove"}

Next ==
    \/ \E c \in Contexts, j \in Jobs, state \in {"absent", "off", "on"} : EditJobs(c, j, state)
    \/ \E p \in Procs :
          \/ \E o \in Operations, c \in Contexts, g \in Plugins : Call(p, o, c, g)
          \/ Work(p) \/ Die(p)

Spec == Init /\ [][Next]_vars
=============================================================================
