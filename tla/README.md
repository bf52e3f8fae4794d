# Famulus: a TLA+ verification project

Famulus is a collection of skills for coding agents and the Officina library
under them. Its core is **Rutter**, an engine for durable algorithms: a *Rutter*
defines evolutions (messages to an LLM, machine callbacks, nested Rutters,
terminals), a *Voyage* is one persisted traversal of it, and its *Reckoning* is
the whole of its durable state. This project models what is stateful and hard to
test, checks it with TLC on small instances and proves what matters most with
TLAPS for every instance. Paths below are relative to the repository.

## Inventory

| Component | State | Operations | Hard behaviour | Correct when |
|---|---|---|---|---|
| **Rutter engine** (`src/officina/rutter`: `engine`, `reducer`, `history`, `evaluation`, `authoring`) | the Reckoning: run tree, histories, archive, effect recovery, fault, revision | `get_status`, `validate`, `advance`, `MachineInstruction.run` | processes die between publications; answers arrive late or twice; hooks nest | effects run as promised, every Reckoning can be written and read, hooks and answers go where they belong, automatic work ends |
| **Reckoning store** (`storage.py`) | one file and its lock | `create`, `transaction`, `replace` | a replacement that raised may have happened | one writer; a file is always one complete Reckoning |
| **Voyage dispenser** (`dispenser.py`) | the author's set of Voyages | `initiate`, `list`, `status`, `advance`, `release` | release is check-then-delete across transactions | only finished Voyages are deleted without force |
| **Atomic files** (`common/atomic_files.py`) | directory entries, lock inodes | replace, compare-and-replace, append, lock | stale lock inode, failure after the rename | all or nothing; exclusion |
| **Recurring tasks: scheduler set** (`recurring`: `control`, `native`, `runtime`) | the unit files, timers, sentinel and owner file that all contexts of a host share; each context's jobs file, descriptor and registration records | setup, sync, enable, disable, remove | two contexts, two locks, a fallback to the previous owner, failure or death at any step | owner and records never claim what is not there; operations end |
| **Recurring tasks: runs** (`executor`, `records`, `healthcheck`, `_test`) | `running.json`, `latest.json` | run, test, health check | killed executors, joined or replaced runs, files read without a lock | a stale marker is a dead run's; a test reports a new run; health comes to tell the truth |
| **Semantic audit scheduler** (`node-certify/_rtx/_semantic_audit_scheduler.py`) | a run's inputs, graph, packets, state file and lock | initialize, claim, complete, fail, abort | concurrent claims, lost replies, repeated and late reports | a task has one worker, after its dependencies; a run ends and never comes back from a failure |
| **LLM wakeup** (`skills/llm-wakeup/_rtx`) | `jobs.json`, policies, event markers | monitor, schedule, scan, deliver, policies | stale copies and snapshots, crash after a claim or a delivery, overlapping passes | each event handled once and not lost |
| **Email triage** (`skills/email-triage/_rtx`) | `status.json`, `last_run` | cutoff, fetch, file, finalize, mark and clear failure | crash between two files, replays, overlapping runs | no mail is skipped, no finalization applied twice |
| **Credentials, Google connection** | tokens in a secret store | connect, refresh, revoke | one step of several fails | stored tokens and registry agree |
| **List manager, cloud files** (`skills/list-manager/_rtx`, `skills/cloud-files/_rtx`) | a list in a local file or a remote one, its revision, a lock on each host | init, read, create-entry, update, delete | a load, a check and a write apart; uploads of unknown fate; callers that retry | no update is lost, none is made twice, a revision names one version |
| **Certification (but its audit scheduler), blueprints, dispatcher, validators, docstrings, repository checks, visualization, MCP bridge, documentation tooling** | none that survives a call | pure or one-shot | none concurrent | outside the scope |

The components call each other little: Compass (an LLM) operates a dispenser
through a process boundary, the dispenser opens a Voyage, the Voyage runs its
engine inside a store transaction, and the store writes through atomic files.
Recurring tasks start agents that may run email triage or the wakeup scan; the
certifier's orchestrator calls the audit scheduler, and signs when a run is complete.
`PROJECT.json` lists every component with what is modelled of it, and under
`hazards` every behaviour that is hard to test, at its line.

## Modules

| Module | Role |
|---|---|
| `RutterReckoning` | the Reckoning as a value and the pure functions that rewrite it |
| `RutterVoyage` | several processes that operate one Voyage; one action per step |
| `RutterProperties` | its type invariant, invariants and action properties |
| `RutterProgress` | fairness and liveness of a Voyage that may be released |
| `EffectLedger`, `RutterLedger` | what a Voyage promises of effectful machines, and the refinement |
| `VoyageRelease` | release of a Voyage against concurrent operations |
| `RutterReckoning_proofs`, `RutterVoyage_proofs` | their lemmas and theorems |
| `EmailTriage` | triage runs over one mailbox, with its properties |
| `EmailTriage_proofs` | its theorems |
| `LlmWakeup` | passes of the wakeup service, users and sessions over one queue, with its properties |
| `LlmWakeup_proofs` | its theorems |
| `RecurringSchedule`, `RecurringScheduleProperties` | processes that reconcile the scheduler set that two contexts share |
| `RecurringSchedule_proofs` | its theorems |
| `RecurringRuns`, `RecurringRunsProperties` | one job's executor, test operation and health check |
| `RecurringRuns_proofs` | its theorems |
| `SemanticAudit`, `SemanticAuditProperties` | commands of several processes on one audit run |
| `AuditBoard` | what an audit run promises, without processes, files and locks |
| `SemanticAudit_proofs` | its theorems |
| `ListStore`, `ListStoreProperties` | commands of several hosts on one list, and their callers |
| `ListStore_proofs` | its theorems |
| `MC*` | instances for TLC |

### State and code

`disk` is the file: `path` the active runs from the root (`ActiveRun` with its
`active_child`), `completed` the archive, `effect` the `_EffectRecovery` of the
leaf, `fault` and `rev`. Callbacks of an author are constants: `Results` the
outcomes a callback or an answer can have, `Route` where `choose_next` or
`next_on_outcome` sends them (`Undeclared` for an id that the Rutter lacks),
`MayFail` whose callbacks can raise, `Declines` at which entrances a hook's
`charter_constructor` gives `None`, by which the hook is passed over. A transaction
is `lock`; inside it `pc` says whether the process is between publications
(`loop`), about to run or inside a callback (`run`), or holds its result (`ran`).
An action ends where the code publishes: acceptance, routing and the entrance of
the target are one action because they are one `replace`. `Abort` and
`AbortInCallback` may strike between any two steps; they stand for a crash of the
process, for a replacement that raised before or after its rename, and for the
operation budget. Of the answers, `draft` is what an agent keeps from its last
`get_status`; it may deliver it late, repeatedly or never.

A routing fault names the evolution that `choose_next` gave, and the store refuses a fault
that names one it lacks (`engine.py:1467`): such a step publishes nothing (`Refused`), and the
call raises (`Abort`).

Not modelled of the engine: the contents of charters, payloads and evidence (whether
there is a charter is modelled), the check of the loaded definition against the stored one,
the limit on the size of a Reckoning's file, `dry_run`, `validate` and `help` (they write
nothing), and rejected calls. The categories `action-result`, `child-charter` and the
like that lead to one publication are one; a matcher compares plain values and cannot
raise. Identifiers that the code draws at random are numbers drawn in
order, one per entrance; a run and a machine take the number of their entrance.

In `EmailTriage`, `watermark` and `status` are the two files. A run is an agent
under `instructions/triage.md`; `pc` is its place in those steps, and each program
that it calls is an action: `GetCutoff` (`_watermark_floor`), `ListMail` and
`FilterEnvelopes` (`_mail_envelope_stream`, `_envelope_gate`), `MarkFailure`
(`_failure_sentinel`), `ClearFailure` (`_failure_clearer`). Finalization takes no
lock, so `call` splits it at every read and write: `Finalize` reads for the guard and
the metrics, `WriteMetrics` writes, `CheckLatch` reads for the watermark,
`CommitStatus` and `StampWatermark` write; `CrashCall` may end it between any two,
`EndRun` the agent itself, and the agent may finalize again, even after it recorded a
failure. A message is dated by its delivery, or has no readable date.
Left out: the metrics and the log, several accounts, the historical rescan (it
writes nothing but the warning), and writes that are torn: a write is one step.

In `LlmWakeup`, `jobs` is `jobs.json`, `markers` the files of `monitor-events`,
`scanner` the holder of `scanner.lock`. A pass (`run-due`) is one process: it monitors
(`StartPass` reads the refusals, `ClaimCutoff` creates the marker of each; `ReadUsage`,
`ClaimUsage` and `Notify` do the same for measurements near a limit), scheduling by
`Snapshot` and `Append`, the same steps as those of a user's `ScheduleByHand`; then it
scans (`StartScan` with its copies of the due jobs, and `Check`, `Deliver`, `Settle` for
each, `EndScan`). `jobs.lock` makes `append_job` and `update_job` single steps;
`scanner.lock` does not wait, so a scan that finds it taken ends. The check of
the snapshot and of the evidence is one step, the provider's command another: a session may go on in
between. `Raise` gives a claim back before the effect, `NotifyTimesOut` after a reminder was
printed (the desktop notification follows it, with a timeout); `Crash` strikes anywhere, and
takes the provider command with it. A transcript is reduced to the number of its meaningful events
(the code compares the hash of the latest), the reset that its newest refusal states,
and whether it ends in a turn, that refusal, or the provider's own plan to go on.
`woken`, `acted` and `undone` are history. Left out: parsing of deadlines, transcripts and
usage, the resolution of sessions, two reads of one file during a
read-only step, setup, teardown and diagnostics.

In `RecurringSchedule`, `unit` and `armed` are what is written in the native root and
what systemd has loaded, per job; `sentinel` and `owner` the healthcheck script and
`install-owner.json`; `jobs`, `descriptor`, `summary` and `pending` the files of each
context. A process runs one operation (`run_operation`): `Call`, `Enter` (lifecycle lock,
descriptor read again), `SetEnabled`, `TakeNative` (native lock, owner loaded), then
`_sync_unlocked` one side effect per action (`Load` to `Clear`), and for a setup
`Describe`; or `_remove_context_unlocked` (`Teardown` to `Disown`). `Stopped` lets each
step raise or kill the process with all, some or none of its effect; `Raise` is the one
fallback of `sync` to the previous owner's schedule. Left out: the macOS and Windows
branches, legacy files, what is rendered into a unit (a registration stands for it,
with the context and plugin root that it names), and services besides their timers.

In `RecurringRuns`, `marker` and `latest` are `running.json` and `latest.json`, `at` is
the place of the executor (`run_job`), `test` that of `_test`, `health` that of `check`.
On Linux `systemctl start` joins a run under way, on macOS `kickstart -k` replaces it;
both are external. `Tick` is the passing of time: only a job's process and the polls take
any. There are two clocks: the timeout of `subprocess.run` and the deadline of `_test` are
monotonic, the age of the marker is wall time, so `Suspend` (the host sleeps, or its
clock is set forward) adds to the one and not to the others; a clock that is set back is left
out. `Die` is an executor that is killed or raises outside its `try`: its marker stays, or
was never written (`executor.py:89`), and then the run is "unseen".

In `SemanticAudit`, `inputs`, `dag`, `packets` and `state` are the files of one prefix,
`lock` its lock, `cmd` the command of each process with what it has read. `Acquire`,
`Read`, `Choose` (the packets), `WriteState` and `Reply` are the steps of a command,
`Prepare`, `StoreGraph` and `CreateState` those of an initialization; `Die` strikes
between any two. Which command comes when is the orchestrator's affair: any, at any
time, repeated or late. `handed` and `again` are history. Left out: packets' and
reports' contents beyond what decides the run.

In `ListStore`, `list` is the local file or the remote one: its revision and the sequence
of the changes made in it, each by its caller. `lock` has one holder per host, that of
`cloud_lock_path`; a local file has one sidecar. A command takes the lock (`Acquire`, or
`TimeOut`), loads (`LoadList`, or `RejectStale` of `check_revision`), may be refused
(`Fail`), and saves: locally in place, so `Save` truncates and `Written` completes.
A file whose writer died stays `partial`: `load_yaml` gives an empty document or a cut one,
and every command dies of it (`Unusable`), for good unless a setup that
had found no list writes over it. In the cloud `Send` looks for the remote file and asks to
replace it or to make one, and `Uploaded` is the effect: a request to make a file makes a
second one where another host or a late upload has made one by then (`Stored`), and the name is
ambiguous to every later read, download (`Unusable`) and upload (`Ambiguous`).
`UploadFails` is an upload whose fate the caller does not learn: done, not done, or done later
(`ArriveLate`). Callers behave as `SKILL.md` of the list manager asks: they read (`Read`), note
the revision, and after a rejection or an uncertain end read again, look for their change
and retry; `Look` is the question of `instructions/setup.md`. `lapse` is history: which of
the things that the locks do not cover have happened. Left out: entries, schemas,
categories and filters, the import of legacy lists, the folders of the provider,
everything of cloud files but the upload, and the cut document that happens to be valid
(longer than a buffer and cut between two entries): commands would go on from what is left
of it.

## What is checked

| Run | Question | Bounds |
|---|---|---|
| `effects` | Do machines, answers and histories stay correct with two processes, crashes and retries, and does the Voyage implement `EffectLedger`? | 2 processes, 5 entrances: a Message answered twice, both effectful modes, a pure step, a nested Rutter, and a machine again |
| `progress` | Are nested Rutters and several hooks per transition handled once, in order, in states that can be written, up to the depth limit and the fault for too many hooks; is a release without force safe; does automatic work settle if any process may die, and does an answered Voyage end? | 2 processes, acyclic Rutter 3 runs deep with all three kinds of machine, three hooks on one transition of which one declines, two that decline at some entrances only, one Rutter that allows only one hook, an answer and results routed to an undeclared evolution; more entrances than it needs |
| `triage` | Are consecutive triage runs safe when calls and agents die anywhere, fail, and are finalized repeatedly or wrongly? | 3 runs, 2 messages, 3 instants, a default lookback of 1 |
| `triage_delivery` | May mail be delivered at any time? (violated) | the same |
| `wakeup` | Are events handled once, sessions resumed once, jobs kept and attended, whatever fails, dies or overlaps? | 1 session, 2 processes, 2 events, 1 death, 4 minutes |
| `wakeup_refusal` | Does a refusal that is marked as handled have a wakeup? (violated) | the same, no death |
| `recurring` | Do owner, records and locks tell the truth of the shared set, and do operations end? | 2 contexts, 2 jobs, 2 plugin roots, 2 operations at once, 2 faults, 1 edit |
| `recurring_setup` | Does setup repair every installation? (violated) | the same, 1 fault |
| `recurring_runs` | What may readers conclude from a job's marker and record? | 3 runs, 1 test, timeout 1 and stale age 2 ticks, 2 ticks of sleep in a run, both platforms |
| `audit` | Are tasks handed out once, in order, do commands take effect one at a time, and does a run end? | 3 required tasks over a current one, 2 processes, capacity 2, 1 death |
| `lists` | Are changes of concurrent callers neither lost nor made twice, and are all made in the end? | 3 callers, one without a guard, 2 setups, 2 hosts, local and cloud, 1 fault |
| `lists_hosts` | Is a guarded cloud command rejected when another host saved first? (violated) | 2 callers, 1 setup, 2 hosts, no fault |

`MaxId` bounds the entrances of a behaviour; an action that needs a fresh one is
disabled beyond it, so runs that are cut off end in a deadlock that the code does not
have, and deadlock is not checked there (a Voyage also really stops: at its result,
a fault, an uncertain machine). `ran` counts the starts of a machine up to two,
enough to tell one from more. With two processes every interleaving of a retry
with a competitor occurs; a third adds no kind of conflict because all steps but
those of the lock's holder are calls that fail or wait. `effects` and `progress` divide
the engine: the first has a Message answered twice and machines retried within few
entrances, the second the run tree, the hooks, the release and the end.

**Properties.** `Publishable` is what the validators demand of a Reckoning, in the
code's own terms: the store refuses to write or read a Reckoning that violates it,
so a reachable violation is a Voyage that can never move again. What the engine itself
builds and the store refuses is one case, `Refused`; the property says that there is no other.
`NonRepeatSafeRunsOnce`, `ResultWasYielded` and `NoRunAfterResult` are the promises on
callbacks; `AnswerFitsMessage` that on answers; `HooksRunBeforeTarget` that on hooks;
`ReleasedAtRest` says what a check of the status is worth after its lock is gone: a Voyage
without a run nested in it then has its result when it goes, and nobody works in it;
`HistoryGrows` relates the histories to their past and to the revision, which counts
their records; `BlockedIsFinal` says that faults and uncertain machines are for a
human. `ImplementsLedger` states the whole life of an effectful machine.

Of triage, two runs are the least in which one inherits files from another; with a third,
two runs may fail before the first watermark. Three instants order a listing, a delivery and a
finalization, and a lookback of one lets the default cutoff (24 hours back, without a
watermark) pass a message that a failed run was shown; runs and messages are
interchangeable, which the symmetry uses.
`FetchedMailKept` is what the watermark is for, and says what is left out of it: mail that
slid out of the default lookback before there was a watermark (`window`).
`FailedRunNeverAdvances` and `RunAdvancesOnce` are the latch and the replay guard;
`FreshOkIsFinished` is what the scheduler relies on when it judges a run by the file it last
wrote, and says what is left out of that: a call between its two last writes, or dead there;
`CrashOnlyLags` is the order of the two writes.

Of wakeups, one session and two processes give every conflict: jobs, markers and
transcripts of different sessions never meet. A reset at minute 2 makes a job due at
3 and again at 4, so a delivery can fail and be repeated; two events are the least that let a
session go on, be refused again, or be scheduled twice, around a job;
one death is tried at every step. Passes are not bounded.
`NoSecondWakeup` is what the snapshot in a job is for; `EventActsOnce` what the markers
are for, and what they do not give: a reminder comes again after a notification that timed out; `JobsLeaveForCause` is the promise of `update_job` and of the retry;
`DueJobsAreAttended` that of the lock that does not wait.

Of the scheduler set, two contexts and two operations are the least that compete, with a
fallback; the second fault lets the fallback fail as well, and the initial states are an
untouched host and one that a setup of the first context left. `SettledIsExact` is what a
record without a pending one may be relied on for; `OwnerChangesHands` orders the owner
file against the set in both directions, which is why an interrupted setup claims nothing
and an interrupted removal can be run again; `LocksHeld` and `OperationsEnd` are about
two locks taken in one order and given back on every path.
Of runs, three are one before a test, one that it meets and one after it; ticks keep the
order of the constants of the code (60 s, 3600 s, 4200 s), and `StaleIsDead` rests on
that of the last two: a live run is called stale only if its host slept for longer than the
two differ. `TestReportsNewRun` says what `record != previous` gives: a run that
had not ended, and only on Linux the very run that was triggered; `ReportSettles` that the
unlocked reads of the health check do no lasting harm: it compares the report with how the
last run really ended that got as far as its marker (`result`), not with the files.
Of audits, the graph has a task below two others and one vertex that is current; two
processes claim, complete, fail and abort in any order. `ClaimedOnce` is what lock and
state file are for, `DependenciesFirst` the order of the graph. `ImplementsBoard` says that commands take
effect one at a time (`AuditBoard`): although each reads, decides and writes in separate steps, dies between
them or never replies, the state file moves like a board that one hand at a time changes.
It entails `RunMovesForward`, what the signer relies on, which is proved and in no run.
No more tasks are ready at once here than the largest capacity admits, so that the
largest capacity is never exceeded is shown by the theorem, not by this instance.

Of lists, three callers are a winner, a rejected one, and one without a guard that the
others must survive; the second host makes the reach of the locks visible; one fault is
tried at every step, retries and late uploads follow from it. The four safety properties
hold while nothing has slipped past the locks (`Covered`): writers of two hosts
overlapping, an upload that outlives its command, a torn file, a list created over another.
`SavedChangesStay` is the lost update; `GuardHolds` joins the check to the write,
`RevisionNamesVersion` is why comparing a number is enough, and `GuardedOnce` why a retry is
safe; an unguarded caller may repeat its change when it looks for it in a file that
is being written. `ChangesSettle` is checked with all four: every change is made in
the end, or the list is beyond use for good, which is a torn file or an ambiguous name and
nothing else. The two setups are on different hosts, so that they may both create the list.

**Fairness** (`RutterProgress`). The operating loop of `docs/officina/compass-rutter.md`
has agents call `advance` until the Voyage needs an answer or stops. The ends that the two
properties allow are a result, a fault, an uncertain machine, a release, and two kinds of
stuck Voyage in which every advance raises and nothing is written: at the depth limit
(`TooDeep`) and at a result with an undeclared target (`Misrouted`). A process can die
at any step, so weak fairness of a step would say nothing after a crash; strong
fairness of `advance`, of the start and the end of a callback, and of a publication says
that no step kills every process that ever reaches it. `Answering` adds that agents
read and give an answer that leads on, if there is one. Nothing else is assumed: not that a given process lives, nor
anything of `continue_=False` or of direct runs of an instruction. In `LlmWakeup` each
process's pass is weakly fair: the installed timer starts passes for ever, a started one goes
on unless it dies, and deaths are finite. Nothing is assumed of time, users, sessions or
of the success of a delivery. In `RecurringSchedule` every process goes on, and gets a lock
that is free again and again (the locks block, and the kernel frees those of the dead);
no step has to succeed. In `RecurringRuns` time passes, executor and test go on and cron
repeats the health check; no job ends by itself, which is what the timeout is for.
In `SemanticAudit` commands go on, and the orchestrator follows its instructions: it claims,
submits a report of some kind for what it gave out, and reports a failure for what is in
progress and was not (a lost reply); nothing says that a report is good.
In `RutterProgress` a release that has begun goes on or dies. In `ListStore` commands go on
(input, downloads and uploads have timeouts), callers retry, and a waiting command, which
polls, gets a lock that is free again and again; faults are finite.

**Findings.** Four runs show the code to differ from what it says of itself.

`triage_delivery`: the watermark becomes the instant of the *finalization*
(`_watermark_writer.py:92`), and later runs keep only mail dated after it. A message
delivered between a run's listing and that instant is shown to no run, although
`_watermark_writer.py:23` says that the only failure left is to scan more "rather than
silently skipping any".

`wakeup_refusal`: the marker of a refusal names the session and the reset
(`_claude_codex_monitor.py:169`). A session that is refused again until the same reset,
because its user tried once more, has outdated the snapshot in its queued job, whose
delivery therefore drops it (`_claude_codex_service.py:134`); the marker keeps the monitor
from queueing another, although `_claude_codex_monitor.py:157` says "Schedule one wakeup
per session whose refusal is still unanswered." A job of the same minute that is
already outdated (`_wakeup_store.py:80`) and a death between marker and job have
the same effect.

`recurring_setup`: a first setup makes its context the owner inside the reconciliation
(`native.py:690`) and writes the context's descriptor after it
(`_managed_control.py:35`). If it dies in between, or settling its record fails, the
owner names a descriptor that does not exist. `_load_owner` (`native.py:700`) turns that
into an error outside the `try` of `sync`, so every later setup of every context is
refused, and a removal too, although `SKILL.md:100` of recurring-tasks relies on
"rerunning setup" and `control.py:144` tells the user to do that.

`lists_hosts`: `expected_revision` is compared with a downloaded copy, and the upload is
unconditional (`_drive_gateway.py:583`). In between only a lock of the host
(`_yaml_store.py:1162`) keeps others out, so of two hosts that downloaded one revision the
second to upload erases the other's change. `cloud_lock_path` says so of itself;
the interface does not: with `expected_revision` (`blueprints/rtx-yaml-store.yaml:187`) "a
concurrent writer that saved first causes this call to be rejected before any upload
instead of silently clobbering it".

Some weaknesses met on the way have no run of their own. `_condition` (`engine.py:213`)
looks at the deepest run, so a Voyage whose child is settled but has not returned
counts as terminal and can be released without force; `ReleasedAtRest` speaks of the checks that met none.
A `choose_next` that names an undeclared evolution is to become a routing fault
(`engine.py:512`), which the store refuses because of that very target (`engine.py:1467`):
the fault is never recorded, the answer or result is lost, and each retry raises again.
Step 6 of triage (`triage.md:223`) says that a run that records a failure "keeps next run's
lookback window covering the emails that didn't get filed"; before the first watermark that
window is 24 hours before each run (`_envelope_gate.py:92`), so mail that only failed runs
were shown can slide out of it. "Only update_watermark writes "ok", and only after the
watermark moves" (`_write_metrics.py:76`, `_envelope_gate.py:117`), but it writes "ok" before
it moves it (`_watermark_writer.py:112`), and a death in between leaves an "ok" without the
move that no replay makes up for; `clear_failure` writes "ok" as well.
The monitor claims to "perform each new outcome once" (`_claude_codex_monitor.py:202`), but a
notifier that prints the reminder and then times out (`_claude_codex_monitor.py:93`) has
its marker removed, and a later pass reminds again.
Overlapping triage runs defeat the replay guard (`_finalize_run.py:113` remembers
one run), which `triage.md:115` warns of; `triage` assumes `Consecutive`. The health check calls a run stale by the wall clock (`healthcheck.py:87`) while its timeout
is monotonic (`executor.py:114`), so a host that sleeps for over ten minutes in a run makes a
live one stale until it ends. It also takes a success of any age for health
(`healthcheck.py:91`), although `SKILL.md:183` of recurring-tasks has it verify "a fresh
successful outcome": a job whose runs all fail before their marker (`executor.py:89`), or
that no longer starts, stays healthy by its last success.
An armed timer
whose disabling failed unnoticed keeps running without a unit file (`native.py:642`).
A list is saved in place (`_yaml_store.py:91`), although `file_lock` (`_yaml_store.py:221`)
says that it is replaced: a read, which takes no lock, may see a part of it, and a death in
the middle leaves a part, of which every later command dies (`_yaml_store.py:479`, `:866`,
`:1010`). `upload_bytes` looks for the file and makes it in two requests
(`_drive_gateway.py:575`), so two hosts that set up at once, or a late first upload, leave two
files of one name, after which every call for the list fails as ambiguous. `init` of a cloud list asks for nothing, and setup's question
before it is no part of the same transaction, so a list created in between is replaced by
an empty one (`lapse` "init").

## What is proved

Every safety property that a passing run checks is also a theorem, for every
value of the constants; liveness is not (see the end of this section).

### The Rutter engine

For every Rutter, set of processes and bound, from `ProgramAssumption` (constants have
their types; a hook's order is a sequence of hooks), `BoundAssumption` and
`StartAssumption`, `RutterVoyage_proofs` shows:

| Theorem | States |
|---|---|
| `TypeCorrect` | `Spec => []TypeOK` |
| `StartsOnce` | `Spec => []NonRepeatSafeRunsOnce` |
| `BlockedStays` | `Spec => BlockedIsFinal` |
| `AnswersFit` | `Spec => []AnswerFitsMessage` |
| `ResultsWereYielded` | `Spec => []ResultWasYielded` |
| `NoStartAfterResult` | `Spec => NoRunAfterResult` |
| `HooksRunFirst` | `Spec => []HooksRunBeforeTarget` |
| `AlwaysPublishable` | `Spec => []Publishable` |
| `HistoryOnlyGrows` | `Spec => HistoryGrows` |
| `RefinesLedger` | `Spec => ImplementsLedger` |
| `ReleasesAtRest` | `RSpec => []ReleasedAtRest` |

**The first invariant**, `IInv` (`Inductive`), is behind the first three. It adds to
`TypeOK` that paths are nested
(only the first run has no parent) and that a result is at hand until it is durable,
and to `NonRepeatSafeRunsOnce`: only the lock's holder works (`Exclusive`); the
recovery's machine has an identifier already drawn (`RecoveryIsDrawn`); machines not
yet drawn, planned, or about to run were never started (`UndrawnNeverStarted`,
`PlannedNeverStarted`, `RunIsMarked`); operations go on only over unblocked
Reckonings (`NoWorkWhenBlocked`). Without the mark, a crash in the callback would
leave a started machine "planned", and the step from there would break it: this is
why `NonRepeatSafeRunsOnce` alone is not inductive.

**The second invariant**, `IInv2` (`Inductive2`), adds `SoundInv` and `HonestInv`.
`SoundInv` is about the one value on disk. A run, active or archived, is seen as a *book*
(its identifier, its present entrance if it is active, its history), apart from its place
on the path, because settling a run moves it from the path to the archive and leaves its book
alone but for the last record. `Sound` says: each book is well kept (`WellKept`: an
open Turn is the current entrance's, an entrance has one source record, hooks follow
their source and occur once, nothing but its hooks follows a terminal, an entrance that was left
has all its hooks); books do not share runs or entrances, all of which have been drawn
(`InOrder`); an archived run is referred to by exactly one record; each run on the path
waits for the next one for a reason that is still good (`Linked`: a nested Rutter has no record
yet, a hook is due and not attached); and the recovery is that of the leaf's machine and is
there until its record is (`EffectFits`). `Publishable` is not inductive without
most of these: a child's return, for example, keeps the archive's references unique only because the
waiting parent has no record for it yet (`Linked`), and a hook is attached once only because
the hook that is under way is not attached.
`HonestInv` relates disk, memory and history: the answers that agents hold and those in
records were composed for their Message; results at hand, stored and recorded were
yielded by that machine; a started machine is in recovery or accepted (`StartsAreKnown`),
which is what `NoRunAfterResult` rests on.

`RutterReckoning_proofs` proves, for each operator by which the engine rewrites a
Reckoning (entering, recording, continuing a transition, attaching a hook, returning to a
parent, faulting, opening and accepting a machine), what it keeps of types
(`ContinueType`, `ReturnType`) and of soundness, and that its result continues every history
(`Grown`) and holds at most one record more (`OneMore`). `RutterVoyage_proofs`
sums the actions up as one kind of step each (`NextIsStep`): a publication, which accepts one
record or writes none (`Published`); a mark, a start, a completion; or no change of what
is on disk. The theorems argue about these. `HistoryOnlyGrows` counts closed
records under a further invariant (`CountInv`), which a fault published over a freshly
accepted record makes off by one. `ReleasesAtRest` rests on `RestInv`: once a release has found a
root with a result, all its hooks and no run nested in it, no step of another process leads away from
that, so that the check is still good when the directory goes; it
holds of `Spec`'s invariants because a releasing Voyage is a Voyage (`ReleaseRefines`).

**The refinement.** `RefinesLedger` shows `LedgerInit` and `LedgerSteps`. The abstract state is read off the
books and the recovery (`StageOf`, `SafeOf`, `ResultOf`; `LedgerNow`, `LedgerNext`);
four lemmas say how this reading changes (`ViewStays`, `ViewPlans`, `ViewMoves`,
`ViewAccepts`), and one lemma per kind of step finds the ledger's step: a publication is
`Plan`, `Accept` (with or without the next plan) or nothing, `StartEffect` is `Mark` or
nothing, `RunEffect` and `AbortInCallback` are `Launch`, `CompleteEffect` is `Complete`. The
proof corrected the ledger: a Voyage whose start evolution is a machine begins with its plan
(`CreateReckoning`), which the instances of TLC do not, and which `EffectLedger!Init` now allows.

### The other components

`EmailTriage_proofs` proves, for every number of runs and messages and every clock,
under `Consecutive` (runs do not overlap):

- `NoShownMailIsLost`: `Spec => []FetchedMailKept`;
- `FailureHoldsWatermark`: `Spec => []FailedRunNeverAdvances`;
- `ReplayIsSafe`: `Spec => []RunAdvancesOnce`;
- `CrashLeavesLag`: `Spec => []CrashOnlyLags`;
- `FreshOkProvesFinish`: `Spec => []FreshOkIsFinished`;

and, without `Consecutive`, `TriageTypes`: `Spec => []TriageTypeOK`.

Its invariant adds that at most one run is under way (`Alone`); that mail which
was shown to some run, has not left the default lookback and is not filed is in the inbox of the run that has
filtered since (`OwedIsHeld`: the watermark moves to the present, so only an empty
inbox makes the move harmless); that a marked run finds the
latch closed and cannot be past it (`FailureIsLatched`); and that a run that moved the
watermark is done or finds its own ID committed (`AdvanceIsGuarded`). The last is false
without `Consecutive`.
The two properties of the files need `FilesInv` besides: no instant on record is in
the future (`ClockLeads`), a call about to write has read the status as it still is
(`SeenIsCurrent`), the commit covers the old watermark and names the instant that is
stamped next (`CommitCovers`), and an "ok" is that of a run that got as far as filing
(`OkIsOfAFiler`).

`LlmWakeup_proofs` proves, for all sessions, processes and bounds, from
`WakeupAssumption` (constants have their types, and no process is `Nil`):

- `WakeupTypeCorrect`: `Spec => []WakeupTypeOK`;
- `EventsActOnce`: `Spec => []EventActsOnce`;
- `ResumedOnce`: `Spec => NoSecondWakeup`;
- `JobsKept`: `Spec => JobsLeaveForCause`.

`ClaimInv` says who may act: an event that a process has claimed is marked, is held
by no other process, and had no effect since its claim was last given back (`undone`). That
only reminders are ever given back after their effect needs the kinds of the events in hand
(`Reminding`).
`ScanInv` says that only the lock's holder scans and that a job about to be delivered has
a snapshot no older than the last resumption. `FaithInv` says that every copy of a job that
a scanner holds agrees with the queue on all but the time, that no snapshot is ahead of its
session, and that a job about to be dropped has progressed or is conditional; progress is
never undone, so this outlasts whatever comes between the check and the drop. The steps
that matter are few, and three lemmas (`ClaimsRest`, `ScanRests`, `FaithRests`) settle most others
at once.

`RecurringSchedule_proofs` proves, for all contexts, jobs, plugin roots and processes and
any number of faults, edits and calls, from `ScheduleAssumption` (`Nil` is none of them):

- `ScheduleTypes`, `Locks`: `Spec => []ScheduleTypeOK`, `Spec => []LocksHeld`;
- `SettledExact`: `Spec => SettledIsExact`;
- `OwnerHands`: `Spec => OwnerChangesHands`.

`SetInv` says, place by place, what the holder of the native lock has established: after
`Prune` no other unit is left, after `Enable` the timers run what the files say, and so
on (`ConsistentSync`, `ConsistentRemoval`). The two action properties are what is left
of it at `Clear`, `Own` and `Disown`. A process without the lock changes nothing of the set
(`Bystander`), the holder concerns no one else (`HolderOnly`), and a step that stops leaves
nothing to be consistent with (`StoppedInv`), so faults need no case of their own.

`RecurringRuns_proofs` proves, for any number of runs and tests and every timeout below
the stale age (`RunsAssumption`), `RunsTypes` (`RunsTypeOK`), `StaleMarkersAreDead`
(`StaleIsDead`) and `TestsReportNewRuns` (`TestReportsNewRun`). `Marked`: the marker of an
instance at work is its own and exactly as old as it is. `Tested`: the record is the one
the test began with or that of a run that had not ended then.

`SemanticAudit_proofs` proves, for every dependency graph, set of processes, capacity and
number of deaths, from `AuditAssumption`, `AuditTypes` (`AuditTypeOK`),
`AuditsFollowDependencies` (`DependenciesFirst`), `TasksAreClaimedOnce` (`ClaimedOnce`) and
`RunsMoveForward` (`RunMovesForward`). `CommandsInv`: what the lock's holder has read is
the state, and what it chose was given to nobody. `GivenInv`: a task that was given out is
audited or in progress until the run is over; a claim writes the state before it replies,
so a death between the two loses a reply and never repeats one. `RefinesBoard` proves
`ImplementsBoard`: `CreateState` and `WriteState` step on the board, `Reply` gives what was claimed,
every other step leaves the board alone. Beside the two invariants above it needs
`BoardInv`: what a command is about to write was chosen within the slots of what it
read, and a report is only for a task that some worker was given.

`ListStore_proofs` proves, for any callers, setups, hosts and number of faults, from
`CallersAssumption`, `StoreTypes` (`StoreTypeOK`), `NoUpdateIsLost` (`SavedChangesStay`),
`GuardsHold` (`GuardHolds`), `RevisionsNameVersions` (`RevisionNamesVersion`) and
`GuardedChangesOnce` (`GuardedOnce`): all safety properties of the run. `Base` holds whatever
happens: a lock is held exactly by a command that is inside (`LockExact`), every
document's revision counts its changes (`Documents`), and callers change lists that exist, so
that only setups make files (`Existing`). While `Covered`, `Held` adds that one
command at most is inside on all hosts, that the list is one file, and that a version is agreed upon (`Agreed`): the
list's, or that of the copy which is being written over it. Whatever anybody has read
is a prefix of it, so equal revisions are equal versions; what a command has loaded is
all of it, so a save appends to it.

The type invariants of `LlmWakeup`, `RecurringSchedule`, `RecurringRuns`, `SemanticAudit` and
`ListStore` are proved and in no run.

### Only model-checked

`AutomaticWorkSettles`, `AnsweredEnds`, `DueJobsAreAttended`, `OperationsEnd`, `TestEnds`,
`ReportSettles`, `AuditEnds` and `ChangesSettle`: liveness under fairness, which is out of the
prover's reach, as is ENABLED. So are the four properties that runs show to be violated.

## Not modelled

- **Atomic files, secret store.** One call each, without a state of their
  own between calls; the modules above take a replacement as one step that may fail
  before or after its effect, which is what the callers rely on.
- **The rest of the dispenser.** `initiate`, `list` and the release of whole runs are loops
  over callbacks that the author of a dispenser supplies.
- **macOS and Windows registrations, legacy state, job definitions** of recurring tasks:
  the same order of steps with other commands, a one-shot migration, and validation of text.
- **Certification, blueprints, dispatcher, validators, docstrings, repository checks,
  visualization, MCP bridge, documentation tooling.** Functions of their input: parsers,
  graph evaluations and reports, with no state that survives a call and nothing
  concurrent. Tests reach them; a model would repeat them line by line.
- **Research and writing skills** are instructions for agents.

## Plan

1. Done: the Rutter engine, store transaction, release; email triage; LLM wakeup; the
   recurring scheduler set and its runs; the semantic audit scheduler; the list store.
2. Done: the theorems above, for every safety property of a passing run and the
   refinement of `EffectLedger`.
3. The release of whole runs, as the composition of several Voyages.
