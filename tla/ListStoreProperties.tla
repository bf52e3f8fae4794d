------------------------- MODULE ListStoreProperties -------------------------
(* What the locks and revisions of the list manager promise of ListStore.    *)
(* Four things they do not cover (lapse): writers of two hosts overlap, an   *)
(* upload arrives after its sender has given up its lock, a process dies in  *)
(* the middle of a write in place, and a list is created over another one.   *)
EXTENDS ListStore

Covered == lapse = {}

(* No update is lost: a change of which its caller has heard, from the       *)
(* command or by reading, is in the list for good, whichever other callers   *)
(* pass a revision, time out, die or retry (file_lock over load, check and   *)
(* save; the cloud lock over download and upload).                           *)
SavedChangesStay ==
    Covered /\ list.state = "whole" => \A c \in Callers : pc[c] = "done" => Has(list, c)

(* A revision names one version: two complete documents that callers have    *)
(* read, commands have loaded or the list holds, and that have the same      *)
(* revision, are the same (save_with_revision_bump, check_revision).         *)
Seen == {list} \cup {copy[p] : p \in Procs} \cup {noted[p] : p \in Procs}
RevisionNamesVersion ==
    Covered => \A d, e \in Seen :
        d.state = "whole" /\ e.state = "whole" /\ d.rev = e.rev => d = e

(* A guarded change is made once, although its caller retries it after       *)
(* every end it did not hear of (--expected-revision, SKILL.md).             *)
GuardedOnce ==
    Covered => \A c \in Guarded : \A i, j \in DOMAIN list.changes :
        list.changes[i] = c /\ list.changes[j] = c => i = j

(* Between the check of a guarded command and its write nobody changes the   *)
(* list, so what it writes is the version that its caller read and its own   *)
(* change (check_revision and the save under one lock).                      *)
GuardHolds ==
    Covered => \A c \in Guarded :
        pc[c] \in {"loaded", "uploading"} => list.changes = noted[c].changes

(* Every change is made in the end, unless the list is beyond use for good:  *)
(* rejections, timeouts and failures do not keep callers from each other,    *)
(* since each rejection means another success.  Beyond use is a file whose   *)
(* writer died in the middle (save_yaml writes in place, and every later     *)
(* command dies of what is left), and a cloud list of which two files were   *)
(* made (upload_bytes, which finds the name ambiguous from then on).         *)
BeyondUse ==
    \/ list.state = "partial" /\ \A p \in Procs : pc[p] # "writing"
    \/ list.state = "twice"
ChangesSettle == <>[](BeyondUse \/ \A c \in Callers : pc[c] = "done")

(* What the interface promises of a guarded cloud command, with no host in   *)
(* it: a writer that saved first causes the call to be rejected before any   *)
(* upload (blueprints/rtx-yaml-store.yaml: concurrent_invocations).          *)
SavedFirstRejects ==
    [][\A c \in Guarded : pc[c] = "uploading" /\ pc'[c] = "done"
          => list'.changes = Append(list.changes, c)]_vars
=============================================================================
