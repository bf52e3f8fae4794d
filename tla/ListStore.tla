------------------------------ MODULE ListStore ------------------------------
(***************************************************************************)
(* One list of the list manager and the commands that change it            *)
(* (list-manager/_rtx/_yaml_store.py), in a local file or in the cloud.    *)
(* A local command holds the file's lock while it loads, checks the        *)
(* expected revision, changes and saves, in place: the file is truncated   *)
(* and then written.  A cloud command holds its host's lock for that list  *)
(* while it downloads, works on a private copy and uploads; the upload     *)
(* looks for the remote file and then replaces what it found, whatever it  *)
(* has become, or makes a file, whether there is one by now or not.  Each  *)
(* caller has one change to make, as SKILL.md asks of it: it reads the     *)
(* list, runs the command, and after a rejection or an uncertain end reads *)
(* again, looks for its change and retries.                                *)
(*                                                                         *)
(* A document is its revision and the sequence of the changes in it.  A    *)
(* file that is being written, or whose writer died, is partial: a load    *)
(* finds it empty, which is revision 0 and no list, and every command is   *)
(* refused.  Two remote files of one name (twice) are no list either.      *)
(* Timestamps, schemas and the lookup of the target in a whole document    *)
(* only decide whether a command is refused (Fail).                        *)
(***************************************************************************)
EXTENDS Naturals, Sequences

CONSTANTS
    Callers,     \* each makes one change by create-entry, update or delete
    Setups,      \* runs of setup, which create a list they find missing
    Guarded,     \* the callers that pass --expected-revision
    Hosts,       \* machines with a lock directory each
    HostOf,      \* the machine of each caller and setup
    FileHost,    \* the machine of the local file
    Nil,
    MaxFaults    \* bound on timeouts, failures, deaths and lost replies

Procs == Callers \cup Setups

ASSUME CallersAssumption ==
    /\ Guarded \subseteq Callers /\ Callers \cap Setups = {} /\ Nil \notin Procs
    /\ HostOf \in [Procs -> Hosts] /\ FileHost \in Hosts
    /\ MaxFaults \in Nat

VARIABLES
    cloud,     \* whether the list lives in the cloud
    list,      \* the local file or the remote one
    lock,      \* the holder of the list's lock on each host
    pc,        \* where each command is
    copy,      \* the document that each command has loaded
    noted,     \* the document that each caller has read last
    pending,   \* uploads whose sender is gone and which may still arrive: each
               \* makes a file (posts) or replaces the one it finds
    faults,
    lapse      \* what has happened of that which the locks do not cover
vars == <<cloud, list, lock, pc, copy, noted, pending, faults, lapse>>

Doc == [rev : Nat, changes : Seq(Callers), state : {"absent", "partial", "whole", "twice"}]
Absent == [rev |-> 0, changes |-> <<>>, state |-> "absent"]
Partial == [rev |-> 0, changes |-> <<>>, state |-> "partial"]
Fresh == [rev |-> 0, changes |-> <<>>, state |-> "whole"]
Twice == [rev |-> 0, changes |-> <<>>, state |-> "twice"]

Has(d, c) == \E i \in DOMAIN d.changes : d.changes[i] = c
\* Mutant: a writer that passes no revision does not advance it.
DraftUnbumped(p) ==
    IF p \in Setups THEN Fresh
    ELSE [rev |-> copy[p].rev + (IF p \in Guarded THEN 1 ELSE 0),
          changes |-> Append(copy[p].changes, p), state |-> "whole"]
\* What p saves: save_with_revision_bump of its change, or a new list.
Draft(p) ==
    IF p \in Setups THEN Fresh
    ELSE [rev |-> copy[p].rev + 1, changes |-> Append(copy[p].changes, p), state |-> "whole"]
\* cloud_lock_path is a path of the host, the sidecar of a file lies beside it.
LockOf(p) == IF cloud THEN HostOf[p] ELSE FileHost
Goto(p, place) == pc' = [pc EXCEPT ![p] = place]
\* A command ends: the system releases the lock even of one that dies, its copy
\* is gone, and a caller that has to try again reads again.
Leave(p, place) ==
    /\ Goto(p, place)
    /\ lock' = [h \in Hosts |-> IF lock[h] = p THEN Nil ELSE lock[h]]
    /\ copy' = [copy EXCEPT ![p] = Absent] /\ noted' = [noted EXCEPT ![p] = Absent]
Fault == faults < MaxFaults /\ faults' = faults + 1

StoreTypeOK ==
    /\ cloud \in BOOLEAN /\ list \in Doc
    /\ lock \in [Hosts -> Procs \cup {Nil}]
    /\ pc \in [Procs -> {"idle", "waiting", "locked", "loaded", "writing", "uploading", "creating", "done"}]
    /\ copy \in [Procs -> Doc] /\ noted \in [Procs -> Doc]
    /\ pending \subseteq [doc : Doc, posts : BOOLEAN] /\ faults \in 0..MaxFaults
    /\ lapse \subseteq {"hosts", "late", "torn", "init"}

Init ==
    /\ cloud \in BOOLEAN /\ list = Absent
    /\ lock = [h \in Hosts |-> Nil]
    /\ pc = [p \in Procs |-> "idle"]
    /\ copy = [p \in Procs |-> Absent] /\ noted = [p \in Procs |-> Absent]
    /\ pending = {} /\ faults = 0 /\ lapse = {}

-----------------------------------------------------------------------------
\* Mutant: the caller retries without looking for its change.
ReadForRevision(c) ==
    /\ pc[c] = "idle" /\ list.state \in {"partial", "whole"}
    /\ Goto(c, "waiting") /\ noted' = [noted EXCEPT ![c] = list]
    /\ UNCHANGED <<cloud, list, lock, copy, pending, faults, lapse>>
\* read takes no lock, and fails where two files have the name of the list.  A
\* caller that finds its change is done.
Read(c) ==
    /\ pc[c] = "idle" /\ list.state \in {"partial", "whole"}
    /\ IF Has(list, c) THEN Goto(c, "done") /\ UNCHANGED noted
       ELSE Goto(c, "waiting") /\ noted' = [noted EXCEPT ![c] = list]
    /\ UNCHANGED <<cloud, list, lock, copy, pending, faults, lapse>>

\* setup.md asks whether the list exists; init of a local file asks again, but
\* takes no lock, and that of a cloud list does not ask.  Of two files
\* lists_exists cannot say that the list exists.
Look(s) ==
    /\ pc[s] = "idle" /\ list.state # "twice"
    /\ Goto(s, IF list.state # "absent" THEN "done" ELSE IF cloud THEN "waiting" ELSE "loaded")
    /\ UNCHANGED <<cloud, list, lock, copy, noted, pending, faults, lapse>>

\* Mutant: the lock is not exclusive.
AcquireShared(p) ==
    /\ pc[p] = "waiting"
    /\ lock' = [lock EXCEPT ![LockOf(p)] = p]
    /\ lapse' = lapse \cup {l \in {"hosts"} : \E h \in Hosts \ {LockOf(p)} : lock[h] # Nil}
    /\ Goto(p, "locked")
    /\ UNCHANGED <<cloud, list, copy, noted, pending, faults>>
Acquire(p) ==
    /\ pc[p] = "waiting" /\ lock[LockOf(p)] = Nil
    /\ lock' = [lock EXCEPT ![LockOf(p)] = p]
    /\ lapse' = lapse \cup {l \in {"hosts"} : \E h \in Hosts \ {LockOf(p)} : lock[h] # Nil}
    /\ Goto(p, "locked")
    /\ UNCHANGED <<cloud, list, copy, noted, pending, faults>>

\* _lock_timeout_s has passed while another process held the lock.
TimeOut(p) ==
    /\ pc[p] = "waiting" /\ lock[LockOf(p)] # Nil
    /\ Leave(p, "idle") /\ Fault
    /\ UNCHANGED <<cloud, list, pending, lapse>>

\* check_revision; a document without a revision has revision 0.
\* Mutant: an expected revision 0 is taken for none.
StaleIfNonzero(c) == c \in Guarded /\ noted[c].rev # 0 /\ list.rev # noted[c].rev
Stale(c) == c \in Guarded /\ list.rev # noted[c].rev

\* Mutant: the command retries the same request itself.
RejectAgain(c) ==
    /\ pc[c] = "locked" /\ Stale(c)
    /\ Goto(c, "waiting") /\ lock' = [lock EXCEPT ![LockOf(c)] = Nil]
    /\ UNCHANGED <<cloud, list, copy, noted, pending, faults, lapse>>
RejectStale(c) ==
    /\ pc[c] = "locked" /\ Stale(c)
    /\ Leave(c, "idle")
    /\ UNCHANGED <<cloud, list, pending, faults, lapse>>

LoadList(c) ==
    /\ pc[c] = "locked" /\ ~Stale(c) /\ list.state = "whole"
    /\ copy' = [copy EXCEPT ![c] = list]
    /\ Goto(c, "loaded")
    /\ UNCHANGED <<cloud, list, lock, noted, pending, faults, lapse>>

\* A partial list has no category and no entry of any name, and no schema; of two
\* files none is downloaded.  The command dies, and so does the next.
Unusable(c) ==
    /\ pc[c] = "locked" /\ list.state \in {"partial", "twice"}
    /\ Leave(c, "idle")
    /\ UNCHANGED <<cloud, list, pending, faults, lapse>>

\* Refused (no such target, invalid, no such list), not downloaded, or killed.
Fail(p) ==
    /\ pc[p] \in {"locked", "loaded"}
    /\ Leave(p, "idle") /\ Fault
    /\ UNCHANGED <<cloud, list, pending, lapse>>

\* save_yaml of a local file, first half: open truncates.
Save(p) ==
    /\ ~cloud /\ pc[p] = "loaded"
    /\ list' = Partial
    /\ lapse' = lapse \cup {l \in {"init"} :
          IF p \in Setups THEN list.state # "absent" ELSE \E s \in Setups : pc[s] = "writing"}
    /\ Goto(p, "writing")
    /\ UNCHANGED <<cloud, lock, copy, noted, pending, faults>>

\* Second half, after which the command may die before its caller hears of it.
Written(p, told) ==
    /\ pc[p] = "writing"
    /\ list' = Draft(p)
    /\ IF told THEN Leave(p, "done") /\ UNCHANGED faults ELSE Leave(p, "idle") /\ Fault
    /\ UNCHANGED <<cloud, pending, lapse>>

DieWriting(p) ==
    /\ pc[p] = "writing"
    /\ Leave(p, "idle") /\ Fault
    /\ lapse' = lapse \cup {"torn"}
    /\ UNCHANGED <<cloud, list, pending>>

\* upload_list of a copy saved in a private directory: upload_bytes looks for the
\* file, and its request to replace it, or to make it, is under way.
Ready(p) == cloud /\ pc[p] = IF p \in Setups THEN "locked" ELSE "loaded"
Send(p) ==
    /\ Ready(p) /\ list.state # "twice"
    /\ Goto(p, IF list.state = "absent" THEN "creating" ELSE "uploading")
    /\ UNCHANGED <<cloud, list, lock, copy, noted, pending, faults, lapse>>
\* It finds two.
Ambiguous(p) ==
    /\ Ready(p) /\ list.state = "twice"
    /\ Leave(p, "idle")
    /\ UNCHANGED <<cloud, list, pending, faults, lapse>>

\* What the name stands for after a request: one that makes a file does so beside
\* one that is there by now, and one that replaces a file leaves the other.
Stored(d, posts) ==
    IF list.state = "twice" \/ (posts /\ list.state # "absent") THEN Twice ELSE d
Put(p) ==
    /\ list' = Stored(Draft(p), pc[p] = "creating")
    /\ lapse' = lapse \cup {l \in {"init"} : p \in Setups /\ list.state # "absent"}

Uploaded(p) ==
    /\ pc[p] \in {"uploading", "creating"} /\ Put(p)
    /\ Leave(p, "done")
    /\ UNCHANGED <<cloud, pending, faults>>

\* The transfer fails or the command dies: the upload had its effect, never has
\* it, or has it later, the transport being a process and a request of its own
\* (which may only then look for the file).
UploadFails(p) ==
    /\ pc[p] \in {"uploading", "creating"}
    /\ \/ Put(p) /\ UNCHANGED pending
       \/ UNCHANGED <<list, lapse, pending>>
       \/ /\ \E posts \in {FALSE, pc[p] = "creating"} :
                pending' = pending \cup {[doc |-> Draft(p), posts |-> posts]}
          /\ UNCHANGED <<list, lapse>>
    /\ Leave(p, "idle") /\ Fault
    /\ UNCHANGED cloud

ArriveLate ==
    /\ \E r \in pending : list' = Stored(r.doc, r.posts) /\ pending' = pending \ {r}
    /\ lapse' = lapse \cup {"late"}
    /\ UNCHANGED <<cloud, lock, pc, copy, noted, faults>>

-----------------------------------------------------------------------------
\* The steps of a command that go on by themselves.
Proceed(p) == Save(p) \/ Written(p, TRUE) \/ Send(p) \/ Ambiguous(p) \/ Uploaded(p)
Change(c) == Read(c) \/ RejectStale(c) \/ LoadList(c) \/ Unusable(c)
Break(p) == TimeOut(p) \/ Fail(p) \/ Written(p, FALSE) \/ DieWriting(p) \/ UploadFails(p)

Next ==
    \/ \E c \in Callers : Change(c)
    \/ \E s \in Setups : Look(s)
    \/ \E p \in Procs : Acquire(p) \/ Proceed(p) \/ Break(p)
    \/ ArriveLate

Spec == Init /\ [][Next]_vars

\* A command runs on: waits for input, downloads and uploads have timeouts of
\* their own.  The lock is polled, so a process that finds it free again and
\* again gets it.  Callers retry, and a setup is repeated until it succeeds.
Fairness ==
    /\ \A c \in Callers : WF_vars(Change(c))
    /\ \A s \in Setups : WF_vars(Look(s))
    /\ \A p \in Procs : SF_vars(Acquire(p)) /\ WF_vars(Proceed(p))
FairSpec == Spec /\ Fairness
=============================================================================
