-------------------------- MODULE ListStore_proofs --------------------------
(* Proofs about ListStore, for any callers, hosts and number of faults.      *)
(* As long as nothing has happened that the locks do not cover, one version  *)
(* of the changes is agreed upon: that of the list, or of the copy that is   *)
(* just being written over it.  Whatever anybody has read is a prefix of it, *)
(* so that revisions, which count changes, can be compared.                  *)
EXTENDS ListStoreProperties, TLAPS

(* p has the lock of its list: every command but a local setup takes it.   *)
Holding(p) ==
    /\ p \in Callers \/ cloud
    /\ pc[p] \in {"locked", "loaded", "writing", "uploading", "creating"}

(* Files are written in place, cloud lists uploaded; local setups lock not. *)
Places ==
    /\ \A c \in Callers : pc[c] # (IF cloud THEN "writing" ELSE "uploading")
    /\ \A s \in Setups : pc[s] \in
          IF cloud THEN {"idle", "waiting", "locked", "uploading", "creating", "done"}
          ELSE {"idle", "loaded", "writing", "done"}

(* A lock is held by whoever is between taking it and leaving, on its host.  *)
LockExact ==
    \A h \in Hosts, p \in Procs : lock[h] = p <=> Holding(p) /\ h = LockOf(p)

Numbered(d) == d.rev = Len(d.changes) /\ (d.state # "whole" => d.changes = <<>>)

(* Whoever makes a change, it counts in the revision.                        *)
Documents ==
    /\ Numbered(list)
    /\ \A p \in Procs : Numbered(copy[p]) /\ Numbered(noted[p]) /\ ~Has(noted[p], p)
    /\ \A r \in pending : Numbered(r.doc) /\ r.doc.state = "whole"

(* Callers change lists that exist, and a list never ceases to.              *)
Existing == \A c \in Callers : pc[c] # "creating" /\ (pc[c] # "idle" => list.state # "absent")

SoleHolder == \A p, q \in Procs : Holding(p) /\ Holding(q) => p = q

(* ... and the list is one file, partial only while it is written.           *)
SoleWriter ==
    /\ list.state # "twice"
    /\ \A p, q \in Procs : pc[p] = "writing" /\ pc[q] = "writing" => p = q
    /\ list.state = "partial" <=> \E p \in Procs : pc[p] = "writing"

Prefix(u, v) == Len(u) <= Len(v) /\ \A i \in 1..Len(u) : u[i] = v[i]

(* v is the version agreed upon. *)
Agreed(v) ==
    /\ (\A c \in Callers : pc[c] # "writing") => v = list.changes
    /\ \A c \in Callers : pc[c] \in {"loaded", "writing", "uploading"} =>
          copy[c].changes = v /\ (c \in Guarded => noted[c].changes = v)
    /\ \A p \in Procs : Prefix(copy[p].changes, v) /\ Prefix(noted[p].changes, v)
    /\ \A c \in Callers : pc[c] = "done" => \E i \in 1..Len(v) : v[i] = c
    /\ \A c \in Guarded : \A i, j \in 1..Len(v) : v[i] = c /\ v[j] = c => i = j

Base == StoreTypeOK /\ Places /\ LockExact /\ Documents /\ Existing

-----------------------------------------------------------------------------
(* Leaving disturbs nobody else and clears what the process had read.        *)
LEMMA Left ==
    ASSUME StoreTypeOK, NEW p \in Procs, NEW place \in {"idle", "done"}, Leave(p, place)
    PROVE  /\ pc' \in [Procs -> {"idle", "waiting", "locked", "loaded", "writing", "uploading", "creating", "done"}]
           /\ pc'[p] = place /\ copy'[p] = Absent /\ noted'[p] = Absent
           /\ \A q \in Procs \ {p} : pc'[q] = pc[q] /\ copy'[q] = copy[q] /\ noted'[q] = noted[q]
           /\ lock' \in [Hosts -> Procs \cup {Nil}]
           /\ \A h \in Hosts : lock'[h] = IF lock[h] = p THEN Nil ELSE lock[h]
           /\ copy' \in [Procs -> Doc] /\ noted' \in [Procs -> Doc]
<1>1. Absent \in Doc BY DEF Absent, Doc
<1> QED BY <1>1, CallersAssumption DEF Leave, Goto, StoreTypeOK, Procs

LEMMA DraftType ==
    ASSUME StoreTypeOK, NEW p \in Procs
    PROVE  /\ Draft(p) \in Doc /\ Draft(p).state = "whole"
           /\ Numbered(copy[p]) => Numbered(Draft(p))
<1>1. CASE p \in Setups BY <1>1 DEF Draft, Fresh, Doc, Numbered
<1>2. CASE p \notin Setups
  <2>1. p \in Callers /\ copy[p].changes \in Seq(Callers) /\ copy[p].rev \in Nat
    BY <1>2 DEF StoreTypeOK, Doc, Procs
  <2>2. Append(copy[p].changes, p) \in Seq(Callers)
        /\ Len(Append(copy[p].changes, p)) = Len(copy[p].changes) + 1
    BY <2>1
  <2> QED BY <1>2, <2>1, <2>2 DEF Draft, Doc, Numbered
<1> QED BY <1>1, <1>2

(* Types. *)
LEMMA TypeStep == StoreTypeOK /\ [Next]_vars => StoreTypeOK'
<1> SUFFICES ASSUME StoreTypeOK, [Next]_vars PROVE StoreTypeOK' OBVIOUS
<1> USE CallersAssumption
<1>0. Partial \in Doc /\ Absent \in Doc /\ Twice \in Doc BY DEF Partial, Absent, Twice, Doc
<1>1. ASSUME NEW c \in Callers, Read(c) PROVE StoreTypeOK'
  <2> c \in Procs BY DEF Procs
  <2> QED BY <1>1 DEF Read, StoreTypeOK, Goto
<1>2. ASSUME NEW c \in Callers, RejectStale(c) PROVE StoreTypeOK'
  <2> c \in Procs BY DEF Procs
  <2> QED BY <1>2, Left DEF RejectStale, StoreTypeOK
<1>3. ASSUME NEW c \in Callers, LoadList(c) PROVE StoreTypeOK'
  <2> c \in Procs BY DEF Procs
  <2> QED BY <1>3 DEF LoadList, StoreTypeOK, Goto
<1>4. ASSUME NEW s \in Setups, Look(s) PROVE StoreTypeOK'
  <2> s \in Procs BY DEF Procs
  <2> QED BY <1>4 DEF Look, StoreTypeOK, Goto
<1>5. ASSUME NEW p \in Procs, Acquire(p) PROVE StoreTypeOK'
  <2>1. LockOf(p) \in Hosts BY DEF LockOf
  <2> QED BY <1>5, <2>1 DEF Acquire, StoreTypeOK, Goto
<1>6. ASSUME NEW p \in Procs, Save(p) PROVE StoreTypeOK'
  BY <1>0, <1>6 DEF Save, StoreTypeOK, Goto
<1>7. ASSUME NEW p \in Procs, NEW told \in BOOLEAN, Written(p, told) PROVE StoreTypeOK'
  <2>1. PICK place \in {"idle", "done"} : Leave(p, place) BY <1>7 DEF Written
  <2>2. faults' \in 0..MaxFaults BY <1>7 DEF Written, Fault, StoreTypeOK
  <2> QED BY <1>7, <2>1, <2>2, Left, DraftType DEF Written, StoreTypeOK
<1>8. ASSUME NEW p \in Procs, Send(p) PROVE StoreTypeOK'
  BY <1>8 DEF Send, StoreTypeOK, Goto
<1>9. ASSUME NEW p \in Procs, Uploaded(p) PROVE StoreTypeOK'
  <2>1. Stored(Draft(p), pc[p] = "creating") \in Doc BY <1>0, DraftType DEF Stored
  <2> QED BY <1>9, <2>1, Left DEF Uploaded, Put, StoreTypeOK
<1>10. ASSUME NEW p \in Procs, TimeOut(p) PROVE StoreTypeOK'
  BY <1>10, Left DEF TimeOut, Fault, StoreTypeOK
<1>11. ASSUME NEW p \in Procs, Fail(p) PROVE StoreTypeOK'
  BY <1>11, Left DEF Fail, Fault, StoreTypeOK
<1>12. ASSUME NEW p \in Procs, DieWriting(p) PROVE StoreTypeOK'
  BY <1>12, Left DEF DieWriting, Fault, StoreTypeOK
<1>13. ASSUME NEW p \in Procs, UploadFails(p) PROVE StoreTypeOK'
  <2>1. Draft(p) \in Doc /\ Stored(Draft(p), pc[p] = "creating") \in Doc
    BY <1>0, DraftType DEF Stored
  <2>2. /\ list' \in Doc /\ pending' \subseteq [doc : Doc, posts : BOOLEAN]
        /\ lapse' \subseteq {"hosts", "late", "torn", "init"}
    <3>1. CASE Put(p) /\ UNCHANGED pending BY <2>1, <3>1 DEF Put, StoreTypeOK
    <3>2. CASE UNCHANGED <<list, lapse, pending>> BY <3>2 DEF StoreTypeOK
    <3>3. CASE /\ \E posts \in {FALSE, pc[p] = "creating"} :
                      pending' = pending \cup {[doc |-> Draft(p), posts |-> posts]}
               /\ UNCHANGED <<list, lapse>>
      <4>1. PICK posts \in BOOLEAN : pending' = pending \cup {[doc |-> Draft(p), posts |-> posts]}
        BY <3>3
      <4> QED BY <2>1, <3>3, <4>1 DEF StoreTypeOK
    <3> QED BY <1>13, <3>1, <3>2, <3>3 DEF UploadFails
  <2> QED BY <1>13, <2>2, Left DEF UploadFails, Fault, StoreTypeOK
<1>14. ASSUME ArriveLate PROVE StoreTypeOK'
  <2>1. PICK r \in pending : list' = Stored(r.doc, r.posts) /\ pending' = pending \ {r}
    BY <1>14 DEF ArriveLate
  <2>2. list' \in Doc BY <1>0, <2>1 DEF Stored, StoreTypeOK
  <2> QED BY <1>14, <2>1, <2>2 DEF ArriveLate, StoreTypeOK
<1>15. ASSUME NEW c \in Callers, Unusable(c) PROVE StoreTypeOK'
  <2> c \in Procs BY DEF Procs
  <2> QED BY <1>15, Left DEF Unusable, StoreTypeOK
<1>16. ASSUME NEW p \in Procs, Ambiguous(p) PROVE StoreTypeOK'
  BY <1>16, Left DEF Ambiguous, StoreTypeOK
<1>17. CASE UNCHANGED vars BY <1>17 DEF vars, StoreTypeOK
<1> QED BY <1>1, <1>2, <1>3, <1>4, <1>5, <1>6, <1>7, <1>8, <1>9, <1>10, <1>11, <1>12, <1>13, <1>14, <1>15, <1>16,
        <1>17 DEF Next, Change, Proceed, Break

(* Every file, lock, copy and upload keeps its type. *)
THEOREM StoreTypes == Spec => []StoreTypeOK
<1>1. Init => StoreTypeOK
  BY CallersAssumption DEF Init, StoreTypeOK, Absent, Doc
<1> QED BY <1>1, TypeStep, PTL DEF Spec

-----------------------------------------------------------------------------
(* The lock is exact, whatever happens to its holder, and documents count    *)
(* their changes.                                                            *)
Reading == \A p \in Procs : Numbered(copy[p]) /\ Numbered(noted[p]) /\ ~Has(noted[p], p)

LEMMA AbsentNumbered == Numbered(Absent) /\ \A p : ~Has(Absent, p)
BY DEF Numbered, Absent, Has

LEMMA LeftBase ==
    ASSUME Base, NEW p \in Procs, NEW place \in {"idle", "done"}, Leave(p, place), cloud' = cloud
    PROVE  Places' /\ LockExact' /\ Reading'
<1> USE CallersAssumption DEF Base
<1>1. Places' BY Left DEF Places, Procs
<1>2. ASSUME NEW h \in Hosts, NEW q \in Procs PROVE (lock[h] = q <=> Holding(q) /\ h = LockOf(q))'
  <2>1. lock[h] = q <=> Holding(q) /\ h = LockOf(q) BY DEF LockExact
  <2>2. LockOf(q)' = LockOf(q) BY DEF LockOf
  <2>3. CASE q = p
    <3>1. ~Holding(p)' BY Left DEF Holding
    <3>2. lock'[h] # p BY Left DEF Procs
    <3> QED BY <2>3, <3>1, <3>2
  <2>4. CASE q # p
    <3>1. Holding(q)' <=> Holding(q) BY <2>4, Left DEF Holding
    <3>2. lock'[h] = q <=> lock[h] = q BY <2>4, Left DEF Procs
    <3> QED BY <2>1, <2>2, <3>1, <3>2
  <2> QED BY <2>3, <2>4
<1>3. ASSUME NEW q \in Procs PROVE (Numbered(copy[q]) /\ Numbered(noted[q]) /\ ~Has(noted[q], q))'
  <2>1. CASE q = p
    <3>1. copy'[q] = Absent /\ noted'[q] = Absent BY <2>1, Left
    <3> QED BY <3>1, AbsentNumbered DEF Numbered, Has
  <2>2. CASE q # p
    <3>1. copy'[q] = copy[q] /\ noted'[q] = noted[q] BY <2>2, Left
    <3> QED BY <3>1 DEF Documents, Numbered, Has
  <2> QED BY <2>1, <2>2
<1> QED BY <1>1, <1>2, <1>3 DEF LockExact, Reading

LEMMA MovedBase ==
    ASSUME Base, NEW p \in Procs, NEW place, Goto(p, place), cloud' = cloud, lock' = lock,
           Holding(p)' <=> Holding(p)
    PROVE  LockExact'
<1>1. ASSUME NEW h \in Hosts, NEW q \in Procs PROVE (lock[h] = q <=> Holding(q) /\ h = LockOf(q))'
  <2>1. lock[h] = q <=> Holding(q) /\ h = LockOf(q) BY DEF LockExact, Base
  <2>2. LockOf(q)' = LockOf(q) BY DEF LockOf
  <2>3. Holding(q)' <=> Holding(q) BY DEF Holding, Goto, Base, StoreTypeOK
  <2> QED BY <2>1, <2>2, <2>3
<1> QED BY <1>1 DEF LockExact

LEMMA ExistingStep == Base /\ [Next]_vars => Existing'
<1> SUFFICES ASSUME Base, [Next]_vars, NEW c \in Callers
             PROVE  pc'[c] # "creating" /\ (pc'[c] # "idle" => list'.state # "absent")
  BY DEF Existing
<1> USE CallersAssumption
<1>0. /\ c \in Procs /\ c \notin Setups /\ StoreTypeOK
      /\ pc[c] # "creating" /\ (pc[c] # "idle" => list.state # "absent")
      /\ \A r \in pending : r.doc.state = "whole"
  BY DEF Procs, Base, Existing, Documents
<1>1. list'.state # "absent" \/ list' = list
  <2>1. \A p \in Procs : Draft(p).state = "whole" BY <1>0, DraftType
  <2>2. ASSUME NEW d, d.state = "whole", NEW posts \in BOOLEAN PROVE Stored(d, posts).state # "absent"
    BY <2>2 DEF Stored, Twice
  <2>3. \A p \in Procs : Put(p) => list'.state # "absent" BY <2>1, <2>2 DEF Put
  <2>4. ArriveLate => list'.state # "absent" BY <1>0, <2>2 DEF ArriveLate, StoreTypeOK
  <2> QED BY <2>1, <2>3, <2>4 DEF Next, Change, Proceed, Break, Read, RejectStale, LoadList, Unusable, Look,
      Acquire, Save, Partial, Written, Send, Ambiguous, Uploaded, TimeOut, Fail, DieWriting, UploadFails, vars
<1>2. \/ pc'[c] = pc[c] \/ pc'[c] = "idle"
      \/ pc'[c] # "creating" /\ list.state # "absent"
  <2>1. ASSUME NEW p \in Procs, NEW place \in {"idle", "done"}, Leave(p, place)
        PROVE  pc'[c] = pc[c] \/ (p = c /\ pc'[c] = place)
    BY <1>0, <2>1, Left
  <2>2. ASSUME NEW p \in Procs, NEW place, Goto(p, place)
        PROVE  pc'[c] = pc[c] \/ (p = c /\ pc'[c] = place)
    BY <1>0, <2>2 DEF Goto, StoreTypeOK
  <2>3. ASSUME NEW d \in Callers, Change(d)
        PROVE  pc'[c] = pc[c] \/ pc'[c] = "idle" \/ (pc'[c] # "creating" /\ list.state # "absent")
    <3>1. d \in Procs BY DEF Procs
    <3>2. CASE Read(d)
      <4>1. PICK place \in {"waiting", "done"} : Goto(d, place) BY <3>2 DEF Read
      <4> QED BY <2>2, <3>1, <3>2, <4>1 DEF Read
    <3>3. CASE LoadList(d) BY <2>2, <3>1, <3>3 DEF LoadList
    <3>4. CASE RejectStale(d) \/ Unusable(d) BY <2>1, <3>1, <3>4 DEF RejectStale, Unusable
    <3> QED BY <2>3, <3>2, <3>3, <3>4 DEF Change
  <2>4. ASSUME NEW s \in Setups, Look(s) PROVE pc'[c] = pc[c]
    BY <1>0, <2>4 DEF Look, Goto, StoreTypeOK
  <2>5. ASSUME NEW p \in Procs, Acquire(p) \/ Save(p) \/ Send(p)
        PROVE  pc'[c] = pc[c] \/ (pc'[c] # "creating" /\ list.state # "absent")
    <3>1. CASE p # c BY <1>0, <2>5, <3>1 DEF Acquire, Save, Send, Goto, StoreTypeOK
    <3>2. CASE p = c BY <1>0, <2>5, <3>2 DEF Acquire, Save, Send, Ready, Goto, StoreTypeOK
    <3> QED BY <3>1, <3>2
  <2>6. ASSUME NEW p \in Procs, Written(p, TRUE) \/ Ambiguous(p) \/ Uploaded(p) \/ Break(p)
        PROVE  pc'[c] = pc[c] \/ pc'[c] = "idle" \/ (pc'[c] # "creating" /\ list.state # "absent")
    <3>1. PICK place \in {"idle", "done"} : Leave(p, place) /\ (place = "done" => pc[p] # "idle")
      BY <2>6 DEF Written, Ambiguous, Uploaded, Break, TimeOut, Fail, DieWriting, UploadFails
    <3> QED BY <1>0, <2>1, <3>1
  <2>7. ArriveLate \/ UNCHANGED vars => pc' = pc BY DEF ArriveLate, vars
  <2> QED BY <2>3, <2>4, <2>5, <2>6, <2>7 DEF Next, Proceed
<1> QED BY <1>0, <1>1, <1>2

LEMMA BaseStep == Base /\ [Next]_vars => Base'
<1> SUFFICES ASSUME Base, [Next]_vars PROVE Places' /\ LockExact' /\ Documents'
  BY TypeStep, ExistingStep DEF Base
<1> USE CallersAssumption
<1>0. /\ StoreTypeOK /\ Places /\ LockExact /\ Numbered(list) /\ Reading
      /\ \A r \in pending : Numbered(r.doc) /\ r.doc.state = "whole"
  BY DEF Base, Documents, Reading
<1>a. Documents' <=> /\ Numbered(list)' /\ Reading'
                     /\ \A r \in pending' : Numbered(r.doc) /\ r.doc.state = "whole"
  BY DEF Documents, Reading, Numbered
<1>b. \A p \in Procs : Draft(p).state = "whole" /\ Numbered(Draft(p))
  BY <1>0, DraftType DEF Reading
<1>1. ASSUME NEW c \in Callers, Read(c) PROVE Places' /\ LockExact' /\ Documents'
  <2>1. c \in Procs BY DEF Procs
  <2>2. PICK place \in {"waiting", "done"} : Goto(c, place) BY <1>1 DEF Read
  <2>3. pc'[c] = place /\ \A q \in Procs \ {c} : pc'[q] = pc[q]
    BY <1>0, <2>1, <2>2 DEF Goto, StoreTypeOK
  <2>4. Places' BY <1>0, <1>1, <2>1, <2>3 DEF Places, Read, Procs
  <2>5. LockExact'
    <3>1. Holding(c)' <=> Holding(c) BY <1>1, <2>3 DEF Holding, Read
    <3> QED BY <1>1, <2>1, <2>2, <3>1, MovedBase DEF Read
  <2>6. Reading'
    <3>1. noted' = noted \/ (~Has(list, c) /\ noted' = [noted EXCEPT ![c] = list])
      BY <1>1 DEF Read
    <3> QED BY <1>0, <1>1, <3>1 DEF Reading, Read, StoreTypeOK, Numbered, Has
  <2> QED BY <1>0, <1>a, <1>1, <2>4, <2>5, <2>6 DEF Read, Numbered
<1>2. ASSUME NEW c \in Callers, RejectStale(c) PROVE Places' /\ LockExact' /\ Documents'
  <2> c \in Procs BY DEF Procs
  <2> QED BY <1>0, <1>a, <1>2, LeftBase DEF RejectStale, Numbered
<1>3. ASSUME NEW c \in Callers, LoadList(c) PROVE Places' /\ LockExact' /\ Documents'
  <2>1. c \in Procs BY DEF Procs
  <2>2. pc'[c] = "loaded" /\ \A q \in Procs \ {c} : pc'[q] = pc[q]
    BY <1>0, <1>3, <2>1 DEF LoadList, Goto, StoreTypeOK
  <2>3. Places' BY <1>0, <1>3, <2>1, <2>2 DEF Places, LoadList, Procs
  <2>4. LockExact'
    <3>1. Holding(c)' <=> Holding(c) BY <1>3, <2>2 DEF Holding, LoadList
    <3> QED BY <1>3, <2>1, <3>1, MovedBase DEF LoadList
  <2>5. Reading' BY <1>0, <1>3 DEF Reading, LoadList, StoreTypeOK, Numbered, Has
  <2> QED BY <1>0, <1>a, <1>3, <2>3, <2>4, <2>5 DEF LoadList, Numbered
<1>4. ASSUME NEW s \in Setups, Look(s) PROVE Places' /\ LockExact' /\ Documents'
  <2>1. s \in Procs /\ s \notin Callers BY DEF Procs
  <2>2. PICK place \in {"waiting", "loaded", "done"} :
            Goto(s, place) /\ place # (IF cloud THEN "loaded" ELSE "waiting")
    BY <1>4 DEF Look
  <2>3. pc'[s] = place /\ \A q \in Procs \ {s} : pc'[q] = pc[q]
    BY <1>0, <2>1, <2>2 DEF Goto, StoreTypeOK
  <2>4. Places' BY <1>0, <1>4, <2>1, <2>2, <2>3 DEF Places, Look, Procs, StoreTypeOK
  <2>5. LockExact'
    <3>1. Holding(s)' <=> Holding(s)
      BY <1>0, <1>4, <2>1, <2>2, <2>3 DEF Holding, Look, StoreTypeOK
    <3> QED BY <1>4, <2>1, <2>2, <3>1, MovedBase DEF Look
  <2>6. Reading' BY <1>0, <1>4 DEF Reading, Look, Numbered, Has
  <2> QED BY <1>0, <1>a, <1>4, <2>4, <2>5, <2>6 DEF Look, Numbered
<1>5. ASSUME NEW p \in Procs, Acquire(p) PROVE Places' /\ LockExact' /\ Documents'
  <2>1. pc[p] = "waiting" /\ pc'[p] = "locked" /\ \A q \in Procs \ {p} : pc'[q] = pc[q]
    BY <1>0, <1>5 DEF Acquire, Goto, StoreTypeOK
  <2>2. p \in Callers \/ cloud BY <1>0, <2>1 DEF Places, Procs, StoreTypeOK
  <2>3. Places' BY <1>0, <1>5, <2>1, <2>2 DEF Places, Acquire, Procs, StoreTypeOK
  <2>4. ASSUME NEW h \in Hosts, NEW q \in Procs
        PROVE  (lock[h] = q <=> Holding(q) /\ h = LockOf(q))'
    <3>1. \A r \in Procs : LockOf(r)' = LockOf(r) /\ LockOf(r) \in Hosts
      BY <1>5 DEF LockOf, Acquire
    <3>2. lock[h] = q <=> Holding(q) /\ h = LockOf(q) BY <1>0 DEF LockExact
    <3>3. lock'[h] = IF h = LockOf(p) THEN p ELSE lock[h]
      BY <1>0, <1>5, <3>1 DEF Acquire, StoreTypeOK
    <3>4. lock[LockOf(p)] = Nil BY <1>5 DEF Acquire
    <3>5. CASE q = p
      <4>1. Holding(p)' /\ ~Holding(p) BY <1>5, <2>1, <2>2 DEF Holding, Acquire
      <4> QED BY <3>1, <3>2, <3>3, <3>5, <4>1
    <3>6. CASE q # p
      <4>1. Holding(q)' <=> Holding(q) BY <1>5, <2>1, <3>6 DEF Holding, Acquire
      <4>2. h = LockOf(p) => lock[h] # q BY <3>4 DEF Procs
      <4> QED BY <3>1, <3>2, <3>3, <3>6, <4>1, <4>2
    <3> QED BY <3>5, <3>6
  <2>5. Reading' BY <1>0, <1>5 DEF Reading, Acquire, Numbered, Has
  <2> QED BY <1>0, <1>a, <1>5, <2>3, <2>4, <2>5 DEF Acquire, Numbered, LockExact
<1>6. ASSUME NEW p \in Procs, Save(p) PROVE Places' /\ LockExact' /\ Documents'
  <2>1. pc[p] = "loaded" /\ pc'[p] = "writing" /\ \A q \in Procs \ {p} : pc'[q] = pc[q]
    BY <1>0, <1>6 DEF Save, Goto, StoreTypeOK
  <2>2. Places' BY <1>0, <1>6, <2>1 DEF Places, Save, Procs
  <2>3. LockExact'
    <3>1. Holding(p)' <=> Holding(p) BY <1>6, <2>1 DEF Holding, Save
    <3> QED BY <1>6, <3>1, MovedBase DEF Save
  <2>4. Reading' BY <1>0, <1>6 DEF Reading, Save, Numbered, Has
  <2>5. Numbered(list)' BY <1>6 DEF Save, Partial, Numbered
  <2> QED BY <1>0, <1>a, <1>6, <2>2, <2>3, <2>4, <2>5 DEF Save
<1>7. ASSUME NEW p \in Procs, NEW told \in BOOLEAN, Written(p, told)
      PROVE  Places' /\ LockExact' /\ Documents'
  <2>1. PICK place \in {"idle", "done"} : Leave(p, place) BY <1>7 DEF Written
  <2>2. Places' /\ LockExact' /\ Reading' BY <1>7, <2>1, LeftBase DEF Written
  <2>3. Numbered(list)' BY <1>b, <1>7 DEF Written, Numbered
  <2> QED BY <1>0, <1>a, <1>7, <2>2, <2>3 DEF Written
<1>8. ASSUME NEW p \in Procs, Send(p) PROVE Places' /\ LockExact' /\ Documents'
  <2>1. /\ pc[p] \in {"locked", "loaded"} /\ pc'[p] \in {"uploading", "creating"}
        /\ \A q \in Procs \ {p} : pc'[q] = pc[q]
    BY <1>0, <1>8 DEF Send, Ready, Goto, StoreTypeOK
  <2>2. Places' BY <1>0, <1>8, <2>1 DEF Places, Send, Ready, Procs
  <2>3. LockExact'
    <3>1. Holding(p)' <=> Holding(p) BY <1>8, <2>1 DEF Holding, Send
    <3>2. PICK place \in {"uploading", "creating"} : Goto(p, place) BY <1>8 DEF Send
    <3> QED BY <1>8, <3>1, <3>2, MovedBase DEF Send
  <2>4. Reading' BY <1>0, <1>8 DEF Reading, Send, Numbered, Has
  <2> QED BY <1>0, <1>a, <1>8, <2>2, <2>3, <2>4 DEF Send, Numbered
<1>9. ASSUME NEW p \in Procs, Uploaded(p) PROVE Places' /\ LockExact' /\ Documents'
  <2>1. Places' /\ LockExact' /\ Reading' BY <1>9, LeftBase DEF Uploaded
  <2>2. Numbered(list)' BY <1>b, <1>9 DEF Uploaded, Put, Stored, Twice, Numbered
  <2> QED BY <1>0, <1>a, <1>9, <2>1, <2>2 DEF Uploaded
<1>10. ASSUME NEW p \in Procs, TimeOut(p) PROVE Places' /\ LockExact' /\ Documents'
  BY <1>0, <1>a, <1>10, LeftBase DEF TimeOut, Numbered
<1>11. ASSUME NEW p \in Procs, Fail(p) PROVE Places' /\ LockExact' /\ Documents'
  BY <1>0, <1>a, <1>11, LeftBase DEF Fail, Numbered
<1>12. ASSUME NEW p \in Procs, DieWriting(p) PROVE Places' /\ LockExact' /\ Documents'
  BY <1>0, <1>a, <1>12, LeftBase DEF DieWriting, Numbered
<1>13. ASSUME NEW p \in Procs, UploadFails(p) PROVE Places' /\ LockExact' /\ Documents'
  <2>1. Places' /\ LockExact' /\ Reading' BY <1>13, LeftBase DEF UploadFails
  <2>2. Numbered(list)' BY <1>0, <1>b, <1>13 DEF UploadFails, Put, Stored, Twice, Numbered
  <2>3. \A r \in pending' : Numbered(r.doc) /\ r.doc.state = "whole"
    <3>1. \A r \in pending' : r \in pending \/ r.doc = Draft(p) BY <1>13 DEF UploadFails
    <3> QED BY <1>0, <1>b, <3>1
  <2> QED BY <1>a, <2>1, <2>2, <2>3
<1>14. ASSUME ArriveLate PROVE Places' /\ LockExact' /\ Documents'
  <2>1. Places' BY <1>0, <1>14 DEF Places, ArriveLate
  <2>2. LockExact' BY <1>0, <1>14 DEF LockExact, Holding, LockOf, ArriveLate
  <2>3. Reading' BY <1>0, <1>14 DEF Reading, ArriveLate, Numbered, Has
  <2>4. Numbered(list)' BY <1>0, <1>14 DEF ArriveLate, Stored, Twice, Numbered
  <2> QED BY <1>0, <1>a, <1>14, <2>1, <2>2, <2>3, <2>4 DEF ArriveLate
<1>15. ASSUME NEW c \in Callers, Unusable(c) PROVE Places' /\ LockExact' /\ Documents'
  <2> c \in Procs BY DEF Procs
  <2> QED BY <1>0, <1>a, <1>15, LeftBase DEF Unusable, Numbered
<1>16. ASSUME NEW p \in Procs, Ambiguous(p) PROVE Places' /\ LockExact' /\ Documents'
  BY <1>0, <1>a, <1>16, LeftBase DEF Ambiguous, Numbered
<1>17. CASE UNCHANGED vars
  BY <1>0, <1>17 DEF vars, Places, LockExact, Documents, Reading, Holding, LockOf, Numbered, Has
<1> QED BY <1>1, <1>2, <1>3, <1>4, <1>5, <1>6, <1>7, <1>8, <1>9, <1>10, <1>11, <1>12, <1>13, <1>14, <1>15, <1>16,
        <1>17 DEF Next, Change, Proceed, Break

-----------------------------------------------------------------------------
(* The version agreed upon, step by step.                                    *)
LEMMA PrefixSame ==
    ASSUME NEW u \in Seq(Callers), NEW v \in Seq(Callers), Prefix(u, v), Len(u) = Len(v)
    PROVE  u = v
BY DEF Prefix

LEMMA PrefixGrows ==
    ASSUME NEW u \in Seq(Callers), NEW v \in Seq(Callers), NEW c \in Callers, Prefix(u, v)
    PROVE  Prefix(u, Append(v, c))
BY DEF Prefix

LEMMA EmptyPrefix == \A v \in Seq(Callers) : Prefix(<<>>, v)
BY DEF Prefix

LEMMA ListPrefix ==
    ASSUME Base, SoleWriter, NEW v \in Seq(Callers), Agreed(v)
    PROVE  Prefix(list.changes, v)
<1>0. list.changes \in Seq(Callers) BY DEF Base, StoreTypeOK, Doc
<1>1. CASE \A c \in Callers : pc[c] # "writing" BY <1>0, <1>1 DEF Agreed, Prefix
<1>2. CASE \E c \in Callers : pc[c] = "writing"
  <2>1. list.changes = <<>> BY <1>2 DEF SoleWriter, Base, Documents, Numbered, Procs
  <2> QED BY <2>1, EmptyPrefix
<1> QED BY <1>1, <1>2

(* A step of one process that changes nothing in the list.                   *)
LEMMA Kept ==
    ASSUME Base, NEW v \in Seq(Callers), Agreed(v), list'.changes = list.changes,
           NEW p \in Procs,
           \A q \in Procs \ {p} : pc'[q] = pc[q] /\ copy'[q] = copy[q] /\ noted'[q] = noted[q],
           p \in Callers => (pc'[p] = "writing" <=> pc[p] = "writing"),
           p \in Callers /\ pc'[p] \in {"loaded", "writing", "uploading"} =>
               copy'[p].changes = v /\ (p \in Guarded => noted'[p].changes = v),
           Prefix(copy'[p].changes, v), Prefix(noted'[p].changes, v),
           p \in Callers /\ pc'[p] = "done" => \E i \in 1..Len(v) : v[i] = p
    PROVE  Agreed(v)'
<1>1. ((\A c \in Callers : pc[c] # "writing") => v = list.changes)' BY DEF Agreed, Procs
<1>2. ASSUME NEW c \in Callers
      PROVE  /\ (pc[c] \in {"loaded", "writing", "uploading"} =>
                    copy[c].changes = v /\ (c \in Guarded => noted[c].changes = v))'
             /\ (pc[c] = "done" => \E i \in 1..Len(v) : v[i] = c)'
  BY <1>2 DEF Agreed, Procs
<1>3. ASSUME NEW q \in Procs PROVE (Prefix(copy[q].changes, v) /\ Prefix(noted[q].changes, v))'
  <2>1. CASE q = p BY <2>1 DEF Prefix
  <2>2. CASE q # p BY <2>2 DEF Prefix, Agreed
  <2> QED BY <2>1, <2>2
<1> QED BY <1>1, <1>2, <1>3 DEF Agreed

LEMMA LeftKept ==
    ASSUME Base, NEW v \in Seq(Callers), Agreed(v), list'.changes = list.changes,
           NEW p \in Procs, NEW place \in {"idle", "done"}, Leave(p, place),
           p \in Callers => pc[p] # "writing" /\ place = "idle"
    PROVE  Agreed(v)'
<1>1. StoreTypeOK BY DEF Base
<1>2. copy'[p].changes = <<>> /\ noted'[p].changes = <<>> BY <1>1, Left DEF Absent
<1> QED BY <1>1, <1>2, Left, Kept, EmptyPrefix

(* A command that has the lock saves its change.                             *)
LEMMA Advanced ==
    ASSUME Base, SoleHolder, NEW v \in Seq(Callers), Agreed(v),
           NEW p \in Callers, pc[p] \in {"writing", "uploading"}, list' = Draft(p),
           NEW place \in {"idle", "done"}, Leave(p, place)
    PROVE  Append(v, p) \in Seq(Callers) /\ Agreed(Append(v, p))'
<1> DEFINE w == Append(v, p)
<1> USE CallersAssumption
<1>0. p \in Procs /\ p \notin Setups /\ StoreTypeOK BY DEF Procs, Base
<1>1. /\ w \in Seq(Callers) /\ Len(w) = Len(v) + 1
      /\ w[Len(v) + 1] = p /\ \A i \in 1..Len(v) : w[i] = v[i]
  OBVIOUS
<1>2. list'.changes = w BY <1>0 DEF Draft, Agreed
<1>3. pc'[p] = place /\ copy'[p] = Absent /\ noted'[p] = Absent BY <1>0, Left
<1>4. \A q \in Procs \ {p} : pc'[q] = pc[q] /\ copy'[q] = copy[q] /\ noted'[q] = noted[q]
  BY <1>0, Left
<1>5. ASSUME NEW c \in Callers PROVE pc'[c] \notin {"loaded", "writing", "uploading"}
  <2>1. c \in Procs BY DEF Procs
  <2>2. CASE c = p BY <1>3, <2>2
  <2>3. CASE c # p
    <3>1. Holding(p) /\ (pc[c] \in {"loaded", "writing", "uploading"} => Holding(c)) BY DEF Holding
    <3> QED BY <1>0, <1>4, <2>1, <2>3, <3>1 DEF SoleHolder
  <2> QED BY <2>2, <2>3
<1>6. ASSUME NEW q \in Procs PROVE (Prefix(copy[q].changes, w) /\ Prefix(noted[q].changes, w))'
  <2>1. CASE q = p BY <1>1, <1>3, <2>1, EmptyPrefix DEF Absent, Prefix
  <2>2. CASE q # p
    <3>1. copy'[q] = copy[q] /\ noted'[q] = noted[q] BY <1>4, <2>2
    <3>2. copy[q].changes \in Seq(Callers) /\ noted[q].changes \in Seq(Callers)
      BY <1>0 DEF StoreTypeOK, Doc
    <3>3. Prefix(copy[q].changes, v) /\ Prefix(noted[q].changes, v) BY DEF Agreed
    <3>4. Prefix(copy[q].changes, w) /\ Prefix(noted[q].changes, w) BY <3>2, <3>3, PrefixGrows
    <3> QED BY <3>1, <3>4 DEF Prefix
  <2> QED BY <2>1, <2>2
<1>7. ASSUME NEW c \in Callers, pc'[c] = "done" PROVE \E i \in 1..Len(w) : w[i] = c
  <2>1. CASE c = p BY <1>1, <2>1
  <2>2. CASE c # p
    <3>1. pc[c] = "done" BY <1>4, <1>7, <2>2 DEF Procs
    <3>2. PICK i \in 1..Len(v) : v[i] = c BY <3>1 DEF Agreed
    <3> QED BY <1>1, <3>2
  <2> QED BY <2>1, <2>2
<1>8. ASSUME NEW c \in Guarded, NEW i \in 1..Len(w), NEW j \in 1..Len(w), w[i] = c, w[j] = c
      PROVE  i = j
  <2>1. CASE c # p
    <3>1. i \in 1..Len(v) /\ j \in 1..Len(v) BY <1>1, <1>8, <2>1
    <3> QED BY <1>1, <1>8, <3>1 DEF Agreed
  <2>2. CASE c = p
    <3>1. noted[c].changes = v BY <1>8, <2>2 DEF Agreed
    <3>2. ~Has(noted[c], c) BY <1>0, <2>2 DEF Base, Documents
    <3>3. \A k \in 1..Len(v) : v[k] # c BY <3>1, <3>2 DEF Has
    <3> QED BY <1>1, <1>8, <3>3
  <2> QED BY <2>1, <2>2
<1>9. Agreed(w)' BY <1>2, <1>5, <1>6, <1>7, <1>8 DEF Agreed
<1> QED BY <1>1, <1>9

-----------------------------------------------------------------------------
(* As long as nothing slips past the locks, every step keeps the agreement.  *)
Held == SoleHolder /\ SoleWriter /\ \E v \in Seq(Callers) : Agreed(v)

LEMMA SoleKept ==
    ASSUME SoleHolder, \A q \in Procs : Holding(q)' => Holding(q)
    PROVE  SoleHolder'
BY DEF SoleHolder

LEMMA WriterKept ==
    ASSUME SoleWriter, list' = list,
           \A q \in Procs : pc'[q] = "writing" <=> pc[q] = "writing"
    PROVE  SoleWriter'
BY DEF SoleWriter

(* A process that leaves without having written.                             *)
LEMMA LeftHeld ==
    ASSUME Base, Held, NEW p \in Procs, Leave(p, "idle"), pc[p] # "writing", list' = list, cloud' = cloud
    PROVE  Held'
<1>0. StoreTypeOK BY DEF Base
<1>1. SoleHolder' BY <1>0, Left, SoleKept DEF Held, Holding
<1>2. SoleWriter' BY <1>0, Left, WriterKept DEF Held
<1>3. PICK v \in Seq(Callers) : Agreed(v) BY DEF Held
<1>4. Agreed(v)' BY <1>3, LeftKept
<1> QED BY <1>1, <1>2, <1>3, <1>4 DEF Held

(* A process that leaves after its document has become the list.             *)
LEMMA SavedHeld ==
    ASSUME Base, Held, Base', NEW p \in Procs, NEW place \in {"idle", "done"}, Leave(p, place),
           pc[p] \in {"writing", "uploading", "creating"}, list' = Draft(p), cloud' = cloud,
           p \in Setups /\ pc[p] # "writing" => list.state = "absent"
    PROVE  Held'
<1> USE CallersAssumption
<1>0. StoreTypeOK BY DEF Base
<1>1. SoleHolder' BY <1>0, Left, SoleKept DEF Held, Holding
<1>2. list'.state = "whole" BY <1>0, DraftType
<1>3. SoleWriter'
  <2>1. \A q \in Procs : pc'[q] # "writing"
    <3>1. pc'[p] = place /\ \A q \in Procs \ {p} : pc'[q] = pc[q] BY <1>0, Left
    <3>2. CASE pc[p] = "writing"
      BY <3>1, <3>2 DEF Held, SoleWriter
    <3>3. CASE pc[p] \in {"uploading", "creating"}
      <4>1. cloud
        <5>1. CASE p \in Callers BY <3>3, <5>1 DEF Base, Places, Existing
        <5>2. CASE p \in Setups BY <3>3, <5>2 DEF Base, Places
        <5> QED BY <5>1, <5>2 DEF Procs
      <4> QED BY <4>1 DEF Base, Places, Procs
    <3> QED BY <3>2, <3>3
  <2> QED BY <1>2, <2>1 DEF SoleWriter
<1>4. PICK v \in Seq(Callers) : Agreed(v) BY DEF Held
<1>5. \E w \in Seq(Callers) : Agreed(w)'
  <2>1. CASE p \in Callers
    <3>1. pc[p] # "creating" BY <2>1 DEF Base, Existing
    <3> QED BY <1>4, <2>1, <3>1, Advanced DEF Held
  <2>2. CASE p \in Setups
    <3>1. list.state # "whole"
      <4>1. pc[p] = "writing" => list.state = "partial" BY DEF Held, SoleWriter
      <4> QED BY <2>2, <4>1
    <3>2. list.changes = <<>> /\ list'.changes = <<>>
      BY <2>2, <3>1 DEF Base, Documents, Numbered, Draft, Fresh
    <3>3. p \notin Callers BY <2>2
    <3>4. Agreed(v)' BY <1>4, <3>2, <3>3, LeftKept
    <3> QED BY <1>4, <3>4
  <2> QED BY <2>1, <2>2 DEF Procs
<1> QED BY <1>1, <1>3, <1>5 DEF Held

LEMMA HeldStep == Base /\ (Covered => Held) /\ [Next]_vars => (Covered' => Held')
<1> SUFFICES ASSUME Base, Covered => Held, [Next]_vars, Covered' PROVE Held' OBVIOUS
<1> USE CallersAssumption
<1>0. Base' BY BaseStep
<1>a. Covered
  BY DEF Covered, Next, Change, Proceed, Break, Read, RejectStale, LoadList, Look, Acquire, Save,
         Unusable, Ambiguous, Written, Send, Uploaded, TimeOut, Fail, DieWriting, UploadFails, Put, ArriveLate, vars
<1>b. SoleHolder /\ SoleWriter BY <1>a DEF Held
<1>c. PICK v \in Seq(Callers) : Agreed(v) BY <1>a DEF Held
<1>d. StoreTypeOK /\ Prefix(list.changes, v) /\ list.changes \in Seq(Callers)
  BY <1>b, <1>c, ListPrefix DEF Base, StoreTypeOK, Doc
<1>e. ASSUME NEW p \in Procs, p \in Setups => list.state = "absent"
      PROVE  Stored(Draft(p), pc[p] = "creating") = Draft(p)
  BY <1>a, <1>e DEF Stored, Held, SoleWriter, Base, Existing, Procs
<1>1. ASSUME NEW c \in Callers, Read(c) PROVE Held'
  <2>1. c \in Procs BY DEF Procs
  <2>2. pc'[c] \in {"waiting", "done"} /\ \A q \in Procs \ {c} : pc'[q] = pc[q]
    BY <1>1, <1>d, <2>1 DEF Read, Goto, StoreTypeOK
  <2>3. SoleHolder' BY <1>1, <1>b, <2>2, SoleKept DEF Read, Holding
  <2>4. SoleWriter' BY <1>1, <1>b, <2>2, WriterKept DEF Read
  <2>5. Agreed(v)'
    <3>1. /\ \A q \in Procs \ {c} : noted'[q] = noted[q]
          /\ noted'[c] = noted[c] \/ noted'[c] = list
      BY <1>1, <1>d, <2>1 DEF Read, StoreTypeOK
    <3>2. Prefix(copy'[c].changes, v) /\ Prefix(noted'[c].changes, v)
      <4>1. Prefix(copy[c].changes, v) /\ Prefix(noted[c].changes, v) BY <1>c, <2>1 DEF Agreed
      <4> QED BY <1>1, <1>d, <3>1, <4>1 DEF Read
    <3>3. pc'[c] = "done" => \E i \in 1..Len(v) : v[i] = c
      <4>1. pc'[c] = "done" => Has(list, c) BY <1>1, <1>d, <2>1 DEF Read, Goto, StoreTypeOK
      <4> QED BY <1>d, <4>1 DEF Has, Prefix
    <3>4. list'.changes = list.changes /\ \A q \in Procs \ {c} : copy'[q] = copy[q] BY <1>1 DEF Read
    <3>5. pc[c] = "idle" BY <1>1 DEF Read
    <3> QED BY <1>c, <2>1, <2>2, <3>1, <3>2, <3>3, <3>4, <3>5, Kept
  <2> QED BY <2>3, <2>4, <2>5, <1>c DEF Held
<1>2. ASSUME NEW c \in Callers, RejectStale(c) PROVE Held'
  <2> c \in Procs BY DEF Procs
  <2> QED BY <1>2, <1>a, LeftHeld DEF RejectStale
<1>3. ASSUME NEW c \in Callers, LoadList(c) PROVE Held'
  <2>1. c \in Procs BY DEF Procs
  <2>2. /\ pc[c] = "locked" /\ pc'[c] = "loaded" /\ copy'[c] = list
        /\ \A q \in Procs \ {c} : pc'[q] = pc[q] /\ copy'[q] = copy[q]
    BY <1>3, <1>d, <2>1 DEF LoadList, Goto, StoreTypeOK
  <2>3. SoleHolder' BY <1>3, <1>b, <2>1, <2>2, SoleKept DEF LoadList, Holding
  <2>4. SoleWriter' BY <1>3, <1>b, <2>2, WriterKept DEF LoadList
  <2>5. list.changes = v
    <3>1. ASSUME NEW d \in Callers PROVE pc[d] # "writing"
      <4>1. d \in Procs /\ Holding(c) /\ (pc[d] = "writing" => Holding(d)) BY <2>2 DEF Holding, Procs
      <4> QED BY <1>b, <2>1, <2>2, <4>1 DEF SoleHolder
    <3> QED BY <1>c, <3>1 DEF Agreed
  <2>6. c \in Guarded => noted[c].changes = v
    <3>1. noted[c].changes \in Seq(Callers) /\ Prefix(noted[c].changes, v)
      BY <1>c, <1>d, <2>1 DEF Agreed, StoreTypeOK, Doc
    <3>2. c \in Guarded => Len(noted[c].changes) = Len(v)
      BY <1>3, <2>1, <2>5 DEF LoadList, Stale, Base, Documents, Numbered
    <3> QED BY <3>1, <3>2, PrefixSame
  <2>7. Agreed(v)'
    <3>1. Prefix(copy'[c].changes, v) BY <1>d, <2>2
    <3>2. noted' = noted /\ list' = list BY <1>3 DEF LoadList
    <3>3. Prefix(noted'[c].changes, v) BY <1>c, <2>1, <3>2 DEF Agreed
    <3>4. copy'[c].changes = v /\ (c \in Guarded => noted'[c].changes = v) BY <2>2, <2>5, <2>6, <3>2
    <3>5. \A q \in Procs \ {c} : pc'[q] = pc[q] /\ copy'[q] = copy[q] /\ noted'[q] = noted[q]
      BY <2>2, <3>2
    <3>6. list'.changes = list.changes BY <3>2
    <3> QED BY <1>c, <2>1, <2>2, <3>1, <3>3, <3>4, <3>5, <3>6, Kept
  <2> QED BY <2>3, <2>4, <2>7, <1>c DEF Held
<1>4. ASSUME NEW s \in Setups, Look(s) PROVE Held'
  <2>1. s \in Procs /\ s \notin Callers BY DEF Procs
  <2>2. pc[s] = "idle" /\ pc'[s] \in {"waiting", "loaded", "done"} /\ \A q \in Procs \ {s} : pc'[q] = pc[q]
    BY <1>4, <1>d, <2>1 DEF Look, Goto, StoreTypeOK
  <2>3. SoleHolder'
    <3>1. pc'[s] = "loaded" => ~cloud BY <1>4, <1>d, <2>1 DEF Look, Goto, StoreTypeOK
    <3> QED BY <1>4, <1>b, <2>1, <2>2, <3>1, SoleKept DEF Look, Holding
  <2>4. SoleWriter' BY <1>4, <1>b, <2>2, WriterKept DEF Look
  <2>5. Agreed(v)'
    <3>1. copy' = copy /\ noted' = noted /\ list' = list BY <1>4 DEF Look
    <3>2. Prefix(copy'[s].changes, v) /\ Prefix(noted'[s].changes, v) BY <1>c, <2>1, <3>1 DEF Agreed
    <3> QED BY <1>c, <2>1, <2>2, <3>1, <3>2, Kept
  <2> QED BY <2>3, <2>4, <2>5, <1>c DEF Held
<1>5. ASSUME NEW p \in Procs, Acquire(p) PROVE Held'
  <2>1. pc[p] = "waiting" /\ pc'[p] = "locked" /\ \A q \in Procs \ {p} : pc'[q] = pc[q]
    BY <1>5, <1>d DEF Acquire, Goto, StoreTypeOK
  <2>2. ASSUME NEW q \in Procs PROVE ~Holding(q)
    <3>1. LockOf(q) \in Hosts BY DEF LockOf
    <3>2. \A h \in Hosts : lock[h] = Nil BY <1>5 DEF Covered, Acquire
    <3> QED BY <3>1, <3>2 DEF Base, LockExact, Procs
  <2>3. SoleHolder'
    <3>1. \A q \in Procs \ {p} : ~Holding(q)' BY <1>5, <2>1, <2>2 DEF Acquire, Holding
    <3> QED BY <3>1 DEF SoleHolder
  <2>4. SoleWriter' BY <1>5, <1>b, <2>1, WriterKept DEF Acquire
  <2>5. Agreed(v)'
    <3>1. copy' = copy /\ noted' = noted /\ list' = list BY <1>5 DEF Acquire
    <3>2. Prefix(copy'[p].changes, v) /\ Prefix(noted'[p].changes, v) BY <1>c, <3>1 DEF Agreed
    <3> QED BY <1>c, <2>1, <3>1, <3>2, Kept
  <2> QED BY <2>3, <2>4, <2>5, <1>c DEF Held
<1>6. ASSUME NEW p \in Procs, Save(p) PROVE Held'
  <2>1. /\ pc[p] = "loaded" /\ pc'[p] = "writing" /\ \A q \in Procs \ {p} : pc'[q] = pc[q]
        /\ list'.state = "partial" /\ list'.changes = <<>> /\ copy' = copy /\ noted' = noted
    BY <1>6, <1>d DEF Save, Goto, StoreTypeOK, Partial
  <2>2. SoleHolder' BY <1>6, <1>b, <2>1, SoleKept DEF Save, Holding
  <2>3. CASE p \in Setups
    <3>1. list.state = "absent" BY <1>6, <2>3 DEF Covered, Save
    <3>2. \A q \in Procs : pc[q] # "writing" BY <1>b, <3>1 DEF SoleWriter
    <3>3. SoleWriter' BY <2>1, <3>2 DEF SoleWriter
    <3>4. list.changes = <<>> BY <3>1 DEF Base, Documents, Numbered
    <3>5. p \notin Callers BY <2>3
    <3>6. Prefix(copy'[p].changes, v) /\ Prefix(noted'[p].changes, v) BY <1>c, <2>1 DEF Agreed
    <3>7. Agreed(v)' BY <1>c, <2>1, <3>4, <3>5, <3>6, Kept
    <3> QED BY <1>c, <2>2, <3>3, <3>7 DEF Held
  <2>4. CASE p \in Callers
    <3>1. ASSUME NEW q \in Procs PROVE pc[q] # "writing"
      <4>1. CASE q \in Setups BY <1>6, <2>4, <4>1 DEF Covered, Save
      <4>2. CASE q \in Callers
        <5>1. Holding(p) /\ (pc[q] = "writing" => Holding(q)) BY <2>1, <2>4, <4>2 DEF Holding
        <5> QED BY <1>b, <2>1, <5>1 DEF SoleHolder
      <4> QED BY <4>1, <4>2 DEF Procs
    <3>2. SoleWriter' BY <2>1, <3>1 DEF SoleWriter
    <3>3. Agreed(v)'
      <4>1. \A c \in Callers : pc'[c] = pc[c] \/ (c = p /\ pc[c] = "loaded" /\ pc'[c] = "writing")
        BY <2>1 DEF Procs
      <4>2. ((\A c \in Callers : pc[c] # "writing") => v = list.changes)' BY <2>1, <2>4
      <4>3. (\A c \in Callers : pc[c] \in {"loaded", "writing", "uploading"} =>
                copy[c].changes = v /\ (c \in Guarded => noted[c].changes = v))'
        BY <1>c, <2>1, <4>1 DEF Agreed
      <4>4. (\A q \in Procs : Prefix(copy[q].changes, v) /\ Prefix(noted[q].changes, v))'
        BY <1>c, <2>1 DEF Agreed, Prefix
      <4>5. (\A c \in Callers : pc[c] = "done" => \E i \in 1..Len(v) : v[i] = c)'
        BY <1>c, <4>1 DEF Agreed
      <4> QED BY <1>c, <4>2, <4>3, <4>4, <4>5 DEF Agreed
    <3> QED BY <1>c, <2>2, <3>2, <3>3 DEF Held
  <2> QED BY <2>3, <2>4 DEF Procs
<1>7. ASSUME NEW p \in Procs, NEW told \in BOOLEAN, Written(p, told) PROVE Held'
  <2>1. PICK place \in {"idle", "done"} : Leave(p, place) BY <1>7 DEF Written
  <2> QED BY <1>0, <1>7, <1>a, <2>1, SavedHeld DEF Written
<1>8. ASSUME NEW p \in Procs, Send(p) PROVE Held'
  <2>1. /\ pc[p] = (IF p \in Setups THEN "locked" ELSE "loaded")
        /\ pc'[p] \in {"uploading", "creating"}
        /\ \A q \in Procs \ {p} : pc'[q] = pc[q]
        /\ list' = list /\ copy' = copy /\ noted' = noted /\ cloud /\ cloud' = cloud
    BY <1>8, <1>d DEF Send, Ready, Goto, StoreTypeOK
  <2>2. SoleHolder' BY <1>b, <2>1, SoleKept DEF Holding
  <2>3. SoleWriter' BY <1>b, <2>1, WriterKept
  <2>4. Agreed(v)'
    <3>1. Prefix(copy'[p].changes, v) /\ Prefix(noted'[p].changes, v) BY <1>c, <2>1 DEF Agreed
    <3>2. p \in Callers => copy'[p].changes = v /\ (p \in Guarded => noted'[p].changes = v)
      BY <1>c, <2>1 DEF Agreed
    <3> QED BY <1>c, <2>1, <3>1, <3>2, Kept
  <2> QED BY <1>c, <2>2, <2>3, <2>4 DEF Held
<1>9. ASSUME NEW p \in Procs, Uploaded(p) PROVE Held'
  <2>1. p \in Setups => list.state = "absent" BY <1>9 DEF Uploaded, Put, Covered
  <2>2. list' = Draft(p) BY <1>9, <1>e, <2>1 DEF Uploaded, Put
  <2> QED BY <1>0, <1>9, <1>a, <2>1, <2>2, SavedHeld DEF Uploaded
<1>10. ASSUME NEW p \in Procs, TimeOut(p) PROVE Held'
  BY <1>10, <1>a, LeftHeld DEF TimeOut
<1>11. ASSUME NEW p \in Procs, Fail(p) PROVE Held'
  BY <1>11, <1>a, LeftHeld DEF Fail
<1>12. ASSUME NEW p \in Procs, DieWriting(p) PROVE Held'
  BY <1>12 DEF DieWriting, Covered
<1>13. ASSUME NEW p \in Procs, UploadFails(p) PROVE Held'
  <2>1. CASE Put(p)
    <3>1. p \in Setups => list.state = "absent" BY <2>1 DEF Put, Covered
    <3>2. list' = Draft(p) BY <1>e, <2>1, <3>1 DEF Put
    <3> QED BY <1>0, <1>13, <1>a, <3>1, <3>2, SavedHeld DEF UploadFails
  <2>2. CASE UNCHANGED list BY <1>13, <1>a, <2>2, LeftHeld DEF UploadFails
  <2> QED BY <1>13, <2>1, <2>2 DEF UploadFails
<1>14. ASSUME ArriveLate PROVE Held'
  BY <1>14 DEF ArriveLate, Covered
<1>15. ASSUME NEW c \in Callers, Unusable(c) PROVE Held'
  <2> c \in Procs BY DEF Procs
  <2> QED BY <1>15, <1>a, LeftHeld DEF Unusable
<1>16. ASSUME NEW p \in Procs, Ambiguous(p) PROVE Held'
  BY <1>16, <1>a, LeftHeld DEF Ambiguous, Ready
<1>17. CASE UNCHANGED vars
  BY <1>17, <1>a DEF vars, Held, SoleHolder, SoleWriter, Agreed, Holding, Prefix
<1> QED BY <1>1, <1>2, <1>3, <1>4, <1>5, <1>6, <1>7, <1>8, <1>9, <1>10, <1>11, <1>12, <1>13, <1>14, <1>15, <1>16,
        <1>17 DEF Next, Change, Proceed, Break

-----------------------------------------------------------------------------
StoreInv == Base /\ (Covered => Held)

LEMMA StoreInvariant == Spec => []StoreInv
<1>1. Init => StoreInv
  <2> SUFFICES ASSUME Init PROVE Base /\ Held BY DEF StoreInv
  <2> USE CallersAssumption DEF Init
  <2>1. StoreTypeOK BY DEF StoreTypeOK, Absent, Doc
  <2>2. Places BY DEF Places, Procs
  <2>3. \A p \in Procs : ~Holding(p) /\ pc[p] = "idle" BY DEF Holding
  <2>4. LockExact BY <2>3 DEF LockExact, Procs
  <2>5. Documents BY AbsentNumbered DEF Documents
  <2>6. SoleHolder /\ SoleWriter BY <2>3 DEF SoleHolder, SoleWriter, Absent
  <2>7. <<>> \in Seq(Callers) /\ Agreed(<<>>)
    <3>1. <<>> \in Seq(Callers) /\ list.changes = <<>> BY DEF Absent
    <3>2. \A p \in Procs : copy[p].changes = <<>> /\ noted[p].changes = <<>> BY DEF Absent
    <3>3. \A c \in Callers : pc[c] = "idle" BY DEF Procs
    <3>4. \A p \in Procs : Prefix(copy[p].changes, <<>>) /\ Prefix(noted[p].changes, <<>>)
      BY <3>1, <3>2 DEF Prefix
    <3>5. Len(<<>>) = 0 OBVIOUS
    <3> QED BY <3>1, <3>3, <3>4, <3>5 DEF Agreed
  <2>8. Existing BY <2>3 DEF Existing, Procs
  <2> QED BY <2>1, <2>2, <2>4, <2>5, <2>6, <2>7, <2>8 DEF Base, Held
<1>2. StoreInv /\ [Next]_vars => StoreInv' BY BaseStep, HeldStep DEF StoreInv
<1> QED BY <1>1, <1>2, PTL DEF Spec

(* No update is lost, for any number of callers, setups and hosts, as long   *)
(* as nothing slips past the locks.                                          *)
THEOREM NoUpdateIsLost == Spec => []SavedChangesStay
<1>1. StoreInv => SavedChangesStay
  <2> SUFFICES ASSUME StoreInv, Covered, list.state = "whole", NEW c \in Callers, pc[c] = "done"
               PROVE  Has(list, c)
    BY DEF SavedChangesStay
  <2>1. PICK v \in Seq(Callers) : Agreed(v) BY DEF StoreInv, Held
  <2>2. \A d \in Callers : pc[d] # "writing" BY DEF StoreInv, Held, SoleWriter, Procs
  <2>3. v = list.changes /\ \E i \in 1..Len(v) : v[i] = c BY <2>1, <2>2 DEF Agreed
  <2> QED BY <2>1, <2>3 DEF Has
<1> QED BY <1>1, StoreInvariant, PTL

(* What a guarded command writes is what its caller read and its own change. *)
THEOREM GuardsHold == Spec => []GuardHolds
<1>1. StoreInv => GuardHolds
  <2> SUFFICES ASSUME StoreInv, Covered, NEW c \in Guarded, pc[c] \in {"loaded", "uploading"}
               PROVE  list.changes = noted[c].changes
    BY DEF GuardHolds
  <2>0. c \in Callers /\ c \in Procs BY CallersAssumption DEF Procs
  <2>1. PICK v \in Seq(Callers) : Agreed(v) BY DEF StoreInv, Held
  <2>2. ASSUME NEW d \in Callers PROVE pc[d] # "writing"
    <3>1. d \in Procs /\ Holding(c) /\ (pc[d] = "writing" => Holding(d))
      BY <2>0 DEF Holding, Procs
    <3> QED BY <2>0, <3>1 DEF StoreInv, Held, SoleHolder
  <2> QED BY <2>0, <2>1, <2>2 DEF Agreed
<1> QED BY <1>1, StoreInvariant, PTL

(* Two complete documents with the same revision are the same, wherever and  *)
(* whenever they were read.                                                  *)
THEOREM RevisionsNameVersions == Spec => []RevisionNamesVersion
<1>1. StoreInv => RevisionNamesVersion
  <2> SUFFICES ASSUME StoreInv, Covered, NEW d \in Seen, NEW e \in Seen,
                      d.state = "whole", e.state = "whole", d.rev = e.rev
               PROVE  d = e
    BY DEF RevisionNamesVersion
  <2>1. PICK v \in Seq(Callers) : Agreed(v) BY DEF StoreInv, Held
  <2>2. ASSUME NEW x \in Seen
        PROVE  x \in Doc /\ x.rev = Len(x.changes) /\ Prefix(x.changes, v)
    <3>1. Prefix(list.changes, v) BY <2>1, ListPrefix DEF StoreInv, Held
    <3>2. CASE x = list BY <3>1, <3>2 DEF StoreInv, Base, StoreTypeOK, Documents, Numbered
    <3>3. ASSUME NEW p \in Procs, x = copy[p] \/ x = noted[p]
          PROVE  x \in Doc /\ x.rev = Len(x.changes) /\ Prefix(x.changes, v)
      BY <2>1, <3>3 DEF StoreInv, Base, StoreTypeOK, Documents, Numbered, Agreed
    <3> QED BY <3>2, <3>3 DEF Seen
  <2>3. /\ d \in Doc /\ e \in Doc /\ Len(d.changes) = Len(e.changes)
        /\ Prefix(d.changes, v) /\ Prefix(e.changes, v)
    BY <2>2
  <2>4. Prefix(d.changes, e.changes) BY <2>3 DEF Prefix
  <2>5. d.changes \in Seq(Callers) /\ e.changes \in Seq(Callers) BY <2>3 DEF Doc
  <2>6. d.changes = e.changes BY <2>3, <2>4, <2>5, PrefixSame
  <2> QED BY <2>3, <2>6 DEF Doc
<1> QED BY <1>1, StoreInvariant, PTL

(* A guarded change is made once, however often its caller retries.          *)
THEOREM GuardedChangesOnce == Spec => []GuardedOnce
<1>1. StoreInv => GuardedOnce
  <2> SUFFICES ASSUME StoreInv, Covered PROVE GuardedOnce BY DEF GuardedOnce
  <2>1. PICK v \in Seq(Callers) : Agreed(v) BY DEF StoreInv, Held
  <2>2. list.changes \in Seq(Callers) /\ Prefix(list.changes, v)
    BY <2>1, ListPrefix DEF StoreInv, Held, Base, StoreTypeOK, Doc
  <2>3. DOMAIN list.changes = 1..Len(list.changes) BY <2>2
  <2>4. \A i \in DOMAIN list.changes : i \in 1..Len(v) /\ list.changes[i] = v[i]
    BY <2>1, <2>2, <2>3 DEF Prefix
  <2> QED BY <2>1, <2>4 DEF GuardedOnce, Agreed
<1> QED BY <1>1, StoreInvariant, PTL
=============================================================================
