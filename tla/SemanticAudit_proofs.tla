------------------------- MODULE SemanticAudit_proofs -------------------------
(***************************************************************************)
(* The audit scheduler for every graph, every number of processes, every   *)
(* capacity and every number of deaths.                                    *)
(***************************************************************************)
EXTENDS SemanticAuditProperties, FiniteSetTheorems, TLAPS

USE AuditAssumption

CmdType ==
    [pc : {"idle", "called", "prepare", "graph", "create", "read", "choose", "write", "reply"},
     op : {"none", "initialize", "claim", "complete", "fail", "abort"},
     task : Tasks \cup {Nil}, report : Reports \cup {"none"},
     capacity : 0..MaxCapacity, read : States, chosen : SUBSET Required]
Locking == {"prepare", "graph", "create", "read", "choose", "write", "reply"}

\* A command that does not hold the lock, and what one that does relies on.
Waiting(c) == c.pc \in {"idle", "called"} /\ (c.pc = "called" => c.op # "none") /\ c.chosen = {}
Knows(c) ==
    /\ c.pc \in Locking /\ c.op # "none"
    /\ c.pc \in {"graph", "create"} => inputs /\ state = NoState
    /\ c.pc = "create" => dag
    /\ c.pc \in {"read", "choose", "write"} => c.op # "initialize"
    /\ c.pc \in {"choose", "write"} => c.read = state /\ ~Refuses(c, state)
    /\ c.pc = "choose" => c.op = "claim"
    /\ c.pc = "write" => c.chosen \subseteq Ready(state) /\ c.chosen \subseteq packets
    /\ c.pc = "reply" => c.chosen \subseteq state.busy
    /\ c.pc \notin {"write", "reply"} \/ c.op # "claim" => c.chosen = {}
    /\ c.chosen \cap handed = {}
CommandsInv == \A p \in Procs : IF lock = p THEN Knows(cmd[p]) ELSE Waiting(cmd[p])

\* A task that was given out is audited or in progress until the run is over.
GivenInv ==
    /\ state.status = "none" => state = NoState /\ handed = {}
    /\ state.status = "active" => handed \subseteq state.audited \cup state.busy
    /\ state.status = "failed" => state.busy = {}

AuditInv ==
    /\ AuditTypeOK /\ CommandsInv /\ GivenInv
    /\ DependenciesFirst /\ ClaimedOnce

LEMMA IdleCommand == Idle \in CmdType /\ Waiting(Idle)
  BY DEF Idle, CmdType, NoState, States, Reports, Waiting

LEMMA CmdTypes ==
  ASSUME AuditTypeOK, NEW p \in Procs
  PROVE  cmd \in [Procs -> CmdType] /\ cmd[p] \in CmdType /\ state \in States
  BY DEF AuditTypeOK, CmdType

\* One command moves: into the lock, within it, or out of it.
LEMMA Moved ==
  ASSUME AuditTypeOK, CommandsInv, NEW p \in Procs, NEW r \in CmdType,
         cmd' = [cmd EXCEPT ![p] = r],
         \/ lock' = p /\ Knows(r)' /\ lock \in {p, Nil}
         \/ lock' = Nil /\ Waiting(r) /\ lock = p
         \/ lock' = lock /\ lock # p /\ Waiting(r) /\ UNCHANGED <<files, handed>>
  PROVE  /\ CommandsInv' /\ cmd' \in [Procs -> CmdType] /\ lock' \in Procs \cup {Nil}
<1>1. cmd \in [Procs -> CmdType] /\ lock \in Procs \cup {Nil}
  BY DEF AuditTypeOK, CmdType
<1>2. \A q \in Procs : cmd'[q] = IF q = p THEN r ELSE cmd[q]
  BY <1>1
<1>3. ASSUME NEW q \in Procs
      PROVE  IF lock' = q THEN Knows(cmd[q])' ELSE Waiting(cmd[q])'
  <2>1. CASE q = p
    BY <1>2, <2>1 DEF Waiting
  <2>2. CASE q # p /\ lock # q
    BY <1>2, <2>2 DEF CommandsInv, Waiting
  <2>3. CASE q # p /\ lock = q
    <3>1. lock' = lock /\ UNCHANGED <<inputs, dag, packets, state, handed>>
      BY <2>3 DEF files
    <3>2. Knows(cmd[q]) /\ cmd'[q] = cmd[q]
      BY <1>2, <2>3 DEF CommandsInv
    <3> DEFINE c == cmd[q]
    <3>3. Knows(c)'
      BY <3>1, <3>2 DEF Knows, Refuses, Ready, DependencyMet
    <3>4. QED
      BY <2>3, <3>1, <3>3
  <2>4. QED
    BY <2>1, <2>2, <2>3
<1>4. QED
  BY <1>1, <1>3 DEF CommandsInv

-----------------------------------------------------------------------------
(* Calls, the lock, and deaths.                                              *)

\* What the files and what was given out owe nothing to a step that leaves them alone.
LEMMA Untouched ==
  ASSUME AuditInv, UNCHANGED <<files, handed, again>>, cmd' \in [Procs -> CmdType],
         lock' \in Procs \cup {Nil}, faults' \in 0..MaxFaults, CommandsInv'
  PROVE  AuditInv'
<1>1. UNCHANGED <<inputs, dag, packets, state, handed, again>>
  BY DEF files
<1>2. AuditTypeOK'
  BY <1>1 DEF AuditInv, AuditTypeOK, CmdType
<1>3. GivenInv' /\ DependenciesFirst' /\ ClaimedOnce'
  BY <1>1 DEF AuditInv, GivenInv, DependenciesFirst, ClaimedOnce
<1>4. QED
  BY <1>2, <1>3 DEF AuditInv

Called(p) ==
    \/ CallInitialize(p) \/ CallAbort(p)
    \/ \E k \in 0..MaxCapacity : CallClaim(p, k)
    \/ \E t \in Tasks : CallFail(p, t) \/ (\E r \in Reports : CallComplete(p, t, r))

LEMMA CalledInv ==
  ASSUME AuditInv, NEW p \in Procs, Called(p)
  PROVE  AuditInv'
<1>1. AuditTypeOK /\ CommandsInv
  BY DEF AuditInv
<1>2. PICK c \in CmdType : Call(p, c) /\ Waiting(c)
  <2>1. \A o \in {"initialize", "claim", "complete", "fail", "abort"} :
           Command(o) \in CmdType /\ Waiting(Command(o))
    <3>1. TAKE o \in {"initialize", "claim", "complete", "fail", "abort"}
    <3>2. Command(o) \in CmdType
      BY IdleCommand DEF Command, CmdType
    <3>3. Waiting(Command(o))
      BY DEF Command, Idle, Waiting
    <3>4. QED
      BY <3>2, <3>3
  <2>2. CASE CallInitialize(p) \/ CallAbort(p)
    BY <2>1, <2>2 DEF CallInitialize, CallAbort
  <2>3. CASE \E k \in 0..MaxCapacity : CallClaim(p, k)
    <3>1. PICK k \in 0..MaxCapacity : CallClaim(p, k)
      BY <2>3
    <3>2. [Command("claim") EXCEPT !.capacity = k] \in CmdType
      BY <2>1 DEF CmdType
    <3>3. Waiting([Command("claim") EXCEPT !.capacity = k])
      BY DEF Command, Idle, Waiting
    <3>4. QED
      BY <3>1, <3>2, <3>3 DEF CallClaim
  <2>4. CASE \E t \in Tasks : CallFail(p, t)
    <3>1. PICK t \in Tasks : CallFail(p, t)
      BY <2>4
    <3>2. [Command("fail") EXCEPT !.task = t] \in CmdType
      BY <2>1 DEF CmdType
    <3>3. Waiting([Command("fail") EXCEPT !.task = t])
      BY DEF Command, Idle, Waiting
    <3>4. QED
      BY <3>1, <3>2, <3>3 DEF CallFail
  <2>5. CASE \E t \in Tasks, r \in Reports : CallComplete(p, t, r)
    <3>1. PICK t \in Tasks, r \in Reports : CallComplete(p, t, r)
      BY <2>5
    <3>2. [Command("complete") EXCEPT !.task = t, !.report = r] \in CmdType
      BY <2>1 DEF CmdType
    <3>3. Waiting([Command("complete") EXCEPT !.task = t, !.report = r])
      BY DEF Command, Idle, Waiting
    <3>4. QED
      BY <3>1, <3>2, <3>3 DEF CallComplete
  <2>6. QED
    BY <2>2, <2>3, <2>4, <2>5 DEF Called
<1>3. /\ cmd' = [cmd EXCEPT ![p] = c] /\ cmd[p].pc = "idle"
      /\ UNCHANGED <<files, lock, given, faults>>
  BY <1>2 DEF Call, Idle
<1>4. lock # p
  BY <1>1, <1>3 DEF CommandsInv, Knows, Locking
<1>5. CommandsInv' /\ cmd' \in [Procs -> CmdType] /\ lock' \in Procs \cup {Nil}
  BY <1>1, <1>2, <1>3, <1>4, Moved DEF given
<1>6. faults' \in 0..MaxFaults
  BY <1>1, <1>3 DEF AuditTypeOK
<1>7. QED
  BY <1>3, <1>5, <1>6, Untouched DEF given

\* A command that returns, or whose process dies, leaves the lock.
LEMMA ReturnInv ==
  ASSUME AuditTypeOK, CommandsInv, NEW p \in Procs, lock = p, Return(p)
  PROVE  CommandsInv' /\ cmd' \in [Procs -> CmdType] /\ lock' \in Procs \cup {Nil}
  BY IdleCommand, Moved DEF Return

LEMMA LockHolder ==
  ASSUME CommandsInv, NEW p \in Procs, cmd[p].pc \notin {"idle", "called"}
  PROVE  lock = p /\ Knows(cmd[p])
  BY DEF CommandsInv, Waiting

LEMMA DieInv ==
  ASSUME AuditInv, NEW p \in Procs, Die(p)
  PROVE  AuditInv'
<1>1. AuditTypeOK /\ CommandsInv /\ lock = p
  BY LockHolder DEF AuditInv, Die
<1>2. CommandsInv' /\ cmd' \in [Procs -> CmdType] /\ lock' \in Procs \cup {Nil}
  BY <1>1, ReturnInv DEF Die
<1>3. faults' \in 0..MaxFaults
  BY <1>1 DEF AuditTypeOK, Die
<1>4. QED
  BY <1>2, <1>3, Untouched DEF Die, given

LEMMA AcquireInv ==
  ASSUME AuditInv, NEW p \in Procs, Acquire(p)
  PROVE  AuditInv'
<1> DEFINE at == IF cmd[p].op = "initialize" THEN "prepare" ELSE "read"
           e == [cmd[p] EXCEPT !.pc = at]
<1>1. /\ AuditTypeOK /\ CommandsInv /\ cmd[p] \in CmdType /\ cmd[p].pc = "called"
      /\ lock = Nil /\ lock' = p /\ cmd' = [cmd EXCEPT ![p] = e]
      /\ UNCHANGED <<files, given, faults>>
  BY CmdTypes DEF AuditInv, Acquire, LockFree
<1>2. e \in CmdType
  BY <1>1 DEF CmdType
<1>3. PICK r \in CmdType : r = e
  BY <1>2
<1>4. /\ r.pc = at /\ r.op = cmd[p].op /\ r.chosen = cmd[p].chosen /\ Waiting(cmd[p])
  BY <1>1, <1>3 DEF CmdType, CommandsInv
<1>5. Knows(r)'
  BY <1>1, <1>4 DEF Knows, Locking, Waiting
<1> HIDE DEF e
<1>6. CommandsInv' /\ cmd' \in [Procs -> CmdType] /\ lock' \in Procs \cup {Nil}
  BY <1>1, <1>3, <1>5, Moved
<1>7. QED
  BY <1>1, <1>6, Untouched DEF given, AuditTypeOK

-----------------------------------------------------------------------------
(* initialize.                                                               *)

LEMMA InitializeInv ==
  ASSUME AuditInv, NEW p \in Procs, Prepare(p) \/ StoreGraph(p)
  PROVE  AuditInv'
<1> DEFINE at == IF cmd[p].pc = "prepare" THEN "graph" ELSE "create"
           e == [cmd[p] EXCEPT !.pc = at]
<1>1. /\ AuditTypeOK /\ CommandsInv /\ cmd[p] \in CmdType /\ cmd \in [Procs -> CmdType]
      /\ cmd[p].pc \in {"prepare", "graph"} /\ lock = p /\ Knows(cmd[p])
  BY CmdTypes, LockHolder DEF AuditInv, Prepare, StoreGraph
<1>2. CASE Return(p) /\ UNCHANGED <<files, given, faults>>
  BY <1>1, <1>2, ReturnInv, Untouched DEF given, AuditTypeOK
<1>3. CASE Go(p, at) /\ UNCHANGED <<packets, state, lock, given, faults>>
  <2>1. /\ inputs' \in BOOLEAN /\ dag' \in BOOLEAN /\ inputs' /\ (inputs => inputs')
        /\ (dag => dag') /\ (at = "create" => dag') /\ state = NoState
    BY <1>1, <1>3 DEF Prepare, StoreGraph, AuditTypeOK, Knows, Return, Go, Idle
  <2>2. e \in CmdType
    BY <1>1 DEF CmdType
  <2>3. PICK r \in CmdType : r = e
    BY <2>2
  <2>4. r.pc = at /\ r.op = cmd[p].op /\ r.chosen = cmd[p].chosen
    BY <1>1, <2>3 DEF CmdType
  <2>5. Knows(r)'
    BY <1>1, <1>3, <2>1, <2>4 DEF Knows, Locking, given
  <2>6. cmd' = [cmd EXCEPT ![p] = r]
    BY <1>1, <1>3, <2>3 DEF Go
  <2> HIDE DEF e
  <2>7. CommandsInv' /\ cmd' \in [Procs -> CmdType] /\ lock' \in Procs \cup {Nil}
    BY <1>1, <1>3, <2>5, <2>6, Moved
  <2>8. AuditTypeOK'
    BY <1>1, <1>3, <2>1, <2>7 DEF AuditTypeOK, CmdType, given
  <2>9. GivenInv' /\ DependenciesFirst' /\ ClaimedOnce'
    BY <1>3 DEF AuditInv, GivenInv, DependenciesFirst, ClaimedOnce, given
  <2>10. QED
    BY <2>7, <2>8, <2>9 DEF AuditInv
<1>4. QED
  BY <1>1, <1>2, <1>3 DEF Prepare, StoreGraph, files

LEMMA CreateStateInv ==
  ASSUME AuditInv, NEW p \in Procs, CreateState(p)
  PROVE  AuditInv'
<1>1. /\ AuditTypeOK /\ CommandsInv /\ lock = p /\ Knows(cmd[p])
      /\ cmd[p].pc = "create"
  BY LockHolder DEF AuditInv, CreateState
<1>2. inputs /\ dag /\ state = NoState
  BY <1>1 DEF Knows
<1>3. /\ state'.audited = {} /\ state'.busy = {} /\ state'.status \in {"active", "complete"}
      /\ state' \in States
      /\ UNCHANGED <<inputs, dag, packets, handed, again, faults>>
  BY DEF CreateState, NoState, States, given
<1>4. CommandsInv' /\ cmd' \in [Procs -> CmdType] /\ lock' \in Procs \cup {Nil}
  BY <1>1, ReturnInv DEF CreateState
<1>5. AuditTypeOK'
  BY <1>1, <1>2, <1>3, <1>4 DEF AuditTypeOK, CmdType
<1>6. handed = {}
  BY <1>2 DEF AuditInv, GivenInv, NoState
<1>7. GivenInv' /\ DependenciesFirst' /\ ClaimedOnce'
  BY <1>3, <1>6 DEF AuditInv, GivenInv, DependenciesFirst, ClaimedOnce
<1>8. QED
  BY <1>4, <1>5, <1>7 DEF AuditInv

-----------------------------------------------------------------------------
(* claim, complete, fail and abort.                                          *)

LEMMA ReadInv ==
  ASSUME AuditInv, NEW p \in Procs, Read(p)
  PROVE  AuditInv'
<1> DEFINE at == IF cmd[p].op = "claim" THEN "choose" ELSE "write"
           e == [cmd[p] EXCEPT !.read = state, !.pc = at]
<1>1. /\ AuditTypeOK /\ CommandsInv /\ cmd[p] \in CmdType /\ state \in States
      /\ cmd \in [Procs -> CmdType]
      /\ cmd[p].pc = "read" /\ lock = p /\ Knows(cmd[p]) /\ UNCHANGED <<files, given, faults>>
  BY CmdTypes, LockHolder DEF AuditInv, Read
<1>2. CASE Return(p)
  BY <1>1, <1>2, ReturnInv, Untouched DEF given, AuditTypeOK
<1>3. CASE ~Refuses(cmd[p], state) /\ cmd' = [cmd EXCEPT ![p] = e] /\ lock' = lock
  <2>1. e \in CmdType
    BY <1>1 DEF CmdType
  <2>2. PICK r \in CmdType : r = e
    BY <2>1
  <2>3. /\ r.pc = at /\ r.op = cmd[p].op /\ r.chosen = cmd[p].chosen /\ r.task = cmd[p].task
        /\ r.read = state
    BY <1>1, <2>2 DEF CmdType
  <2>4. r.chosen = {} /\ r.op \notin {"none", "initialize"}
    BY <1>1, <2>3 DEF Knows
  <2>5. ~Refuses(r, state)
    BY <1>3, <2>3 DEF Refuses
  <2>6. UNCHANGED <<inputs, dag, packets, state, handed>>
    BY <1>1 DEF files, given
  <2>7. Knows(r)'
    BY <2>3, <2>4, <2>5, <2>6 DEF Knows, Locking, Refuses
  <2> HIDE DEF e
  <2>8. CommandsInv' /\ cmd' \in [Procs -> CmdType] /\ lock' \in Procs \cup {Nil}
    BY <1>1, <1>3, <2>2, <2>7, Moved
  <2>9. QED
    BY <1>1, <2>8, Untouched DEF given, AuditTypeOK
<1>4. QED
  <2>1. ~Return(p) => cmd' = [cmd EXCEPT ![p] = e] /\ lock' = lock /\ ~Refuses(cmd[p], state)
    BY <1>1 DEF Read
  <2>2. QED
    BY <1>2, <1>3, <2>1

LEMMA ChooseInv ==
  ASSUME AuditInv, NEW p \in Procs, Choose(p)
  PROVE  AuditInv'
<1>1. /\ AuditTypeOK /\ CommandsInv /\ GivenInv /\ cmd[p] \in CmdType
      /\ cmd \in [Procs -> CmdType] /\ state \in States
      /\ cmd[p].pc = "choose" /\ lock = p /\ Knows(cmd[p])
      /\ UNCHANGED <<inputs, dag, state, lock, handed, again, faults>>
  BY CmdTypes, LockHolder DEF AuditInv, Choose, given
<1>2. PICK S \in SUBSET Ready(cmd[p].read) :
         /\ packets' = packets \cup S
         /\ cmd' = [cmd EXCEPT ![p].chosen = S, ![p].pc = "write"]
  BY DEF Choose
<1> DEFINE e == [cmd[p] EXCEPT !.chosen = S, !.pc = "write"]
<1>3. /\ cmd[p].read = state /\ ~Refuses(cmd[p], state) /\ cmd[p].op = "claim"
  BY <1>1 DEF Knows
<1>4. S \subseteq Ready(state) /\ S \subseteq Required /\ S \cap (state.audited \cup state.busy) = {}
  BY <1>2, <1>3 DEF Ready
<1>5. e \in CmdType
  BY <1>1, <1>4 DEF CmdType
<1>6. PICK r \in CmdType : r = e
  BY <1>5
<1>7. /\ r.pc = "write" /\ r.op = "claim" /\ r.chosen = S /\ r.task = cmd[p].task
      /\ r.read = state
  BY <1>1, <1>3, <1>4, <1>6 DEF CmdType
<1>8. ~Refuses(r, state) /\ state.status = "active"
  BY <1>3, <1>7 DEF Refuses
<1>9. S \cap handed = {}
  BY <1>1, <1>4, <1>8 DEF GivenInv
<1>10. Ready(state)' = Ready(state)
  BY <1>1 DEF Ready, DependencyMet
<1>11. Knows(r)'
  BY <1>1, <1>2, <1>4, <1>7, <1>8, <1>9, <1>10 DEF Knows, Locking, Refuses
<1>12. cmd' = [cmd EXCEPT ![p] = r]
  BY <1>1, <1>2, <1>6
<1> HIDE DEF e
<1>13. CommandsInv' /\ cmd' \in [Procs -> CmdType] /\ lock' \in Procs \cup {Nil}
  BY <1>1, <1>11, <1>12, Moved
<1>14. packets' \subseteq Required
  BY <1>1, <1>2, <1>4 DEF AuditTypeOK
<1>15. AuditTypeOK'
  BY <1>1, <1>13, <1>14 DEF AuditTypeOK, CmdType
<1>16. GivenInv' /\ DependenciesFirst' /\ ClaimedOnce'
  BY <1>1, <1>2 DEF AuditInv, GivenInv, DependenciesFirst, ClaimedOnce
<1>17. QED
  BY <1>13, <1>15, <1>16 DEF AuditInv

\* The outcomes of a written state.
LEMMA Outcomes ==
  ASSUME AuditInv, NEW p \in Procs, WriteState(p)
  PROVE  \/ /\ cmd[p].op = "claim" /\ state.status = "active"
            /\ state' = [state EXCEPT !.busy = @ \cup cmd[p].chosen]
         \/ /\ state.status # "none" /\ state' = [state EXCEPT !.status = "failed", !.busy = {}]
            /\ state.status = "active" \/ cmd[p].op = "complete"
            /\ cmd[p].chosen = {}
         \/ /\ state.status = "active" /\ cmd[p].chosen = {}
            /\ \E t \in state.busy, s \in {"active", "complete"} :
                  /\ cmd[p].op = "complete" /\ cmd[p].task = t
                  /\ state' \in States /\ state'.status = s
                  /\ state'.audited = state.audited \cup {t} /\ state'.busy = state.busy \ {t}
                  /\ s = "complete" <=> state.audited \cup {t} = Required
<1> DEFINE c == cmd[p]
<1>1. /\ c \in CmdType /\ state \in States /\ c.pc = "write" /\ Knows(c) /\ GivenInv
      /\ state' = Written(c)
  BY CmdTypes, LockHolder DEF AuditInv, WriteState
<1>2. /\ c.read = state /\ state # NoState /\ c.op \in {"claim", "complete", "fail", "abort"}
      /\ c.op # "complete" => state.status = "active"
      /\ c.op # "claim" => c.chosen = {}
  BY <1>1 DEF Knows, Refuses, CmdType
<1>3. state.status # "none"
  BY <1>1, <1>2 DEF GivenInv
<1>4. CASE c.op = "claim"
  BY <1>1, <1>2, <1>4 DEF Written
<1>5. CASE c.op \in {"fail", "abort"}
  BY <1>1, <1>2, <1>3, <1>5 DEF Written, Failed
<1>6. CASE c.op = "complete"
  <2>1. state' = Completed(state, c.task, c.report)
    BY <1>1, <1>2, <1>6 DEF Written
  <2>2. CASE ~(state.status = "active" /\ c.task \in state.busy /\ c.report = "pass")
    BY <1>2, <1>3, <1>6, <2>1, <2>2 DEF Completed, Failed
  <2>3. CASE state.status = "active" /\ c.task \in state.busy /\ c.report = "pass"
    <3>1. state' = Passed(state, c.task)
      BY <2>1, <2>3 DEF Completed
    <3> DEFINE t == c.task
               A == state.audited \cup {t}
               B == state.busy \ {t}
               X == Audit(state, t)
    <3>2. X \in States /\ X.status = "active" /\ X.audited = A /\ X.busy = B
      BY <1>1, <2>3 DEF Audit, States
    <3> HIDE DEF X
    <3>3. CASE AllAudited(X)
      <4>1. A = Required
        BY <3>2, <3>3 DEF AllAudited
      <4>2. state' = [X EXCEPT !.status = "complete"]
        BY <3>1, <3>3 DEF Passed, X
      <4>3. state' \in States /\ state'.status = "complete" /\ state'.audited = A /\ state'.busy = B
        BY <3>2, <4>2 DEF States
      <4>4. QED
        BY <1>2, <1>6, <2>3, <4>1, <4>3
    <3>4. CASE ~AllAudited(X)
      <4>1. state' = X
        BY <3>1, <3>4 DEF Passed, X
      <4>2. A # Required
        BY <3>2, <3>4 DEF AllAudited
      <4>3. QED
        BY <1>2, <1>6, <2>3, <3>2, <4>1, <4>2
    <3>5. QED
      BY <3>3, <3>4
  <2>4. QED
    BY <2>2, <2>3
<1>7. QED
  BY <1>2, <1>4, <1>5, <1>6

LEMMA WriteStateInv ==
  ASSUME AuditInv, NEW p \in Procs, WriteState(p)
  PROVE  AuditInv'
<1> DEFINE e == [cmd[p] EXCEPT !.pc = "reply"]
<1>1. /\ AuditTypeOK /\ CommandsInv /\ GivenInv /\ cmd[p] \in CmdType
      /\ cmd \in [Procs -> CmdType] /\ state \in States
      /\ cmd[p].pc = "write" /\ lock = p /\ Knows(cmd[p])
      /\ UNCHANGED <<inputs, dag, packets, lock, handed, again, faults>>
      /\ cmd' = [cmd EXCEPT ![p] = e]
  BY CmdTypes, LockHolder DEF AuditInv, WriteState, given, Go
<1>2. /\ cmd[p].chosen \subseteq Ready(state) /\ cmd[p].chosen \subseteq packets
      /\ cmd[p].chosen \cap handed = {} /\ state # NoState /\ cmd[p].op # "none"
      /\ cmd[p].op # "claim" => cmd[p].chosen = {}
  BY <1>1 DEF Knows, Refuses
<1>3. /\ cmd[p].chosen \cap (state.audited \cup state.busy) = {}
      /\ \A t \in cmd[p].chosen : \A d \in Dependencies[t] \cap Required : d \in state.audited
      /\ cmd[p].chosen \subseteq Required
  BY <1>2 DEF Ready, DependencyMet
<1>4. inputs /\ dag
  BY <1>1, <1>2 DEF AuditTypeOK
<1>5. /\ state' \in States /\ state'.audited \cap state'.busy = {}
      /\ cmd[p].chosen \subseteq state'.busy
      /\ state'.status # "none"
      /\ state'.status = "active" => handed \subseteq state'.audited \cup state'.busy
      /\ state'.status = "failed" => state'.busy = {}
      /\ state'.busy \cup state'.audited \subseteq state.busy \cup state.audited \cup cmd[p].chosen
      /\ state.audited \subseteq state'.audited
  <2>1. state.audited \cap state.busy = {}
    BY <1>1 DEF AuditTypeOK
  <2>2. CASE /\ cmd[p].op = "claim" /\ state.status = "active"
             /\ state' = [state EXCEPT !.busy = @ \cup cmd[p].chosen]
    BY <1>1, <1>3, <2>1, <2>2 DEF States, GivenInv
  <2>3. CASE /\ state' = [state EXCEPT !.status = "failed", !.busy = {}]
             /\ cmd[p].chosen = {}
    BY <1>1, <2>1, <2>3 DEF States
  <2>4. CASE /\ state.status = "active" /\ cmd[p].chosen = {}
             /\ \E t \in state.busy, s \in {"active", "complete"} :
                   /\ state' \in States /\ state'.status = s
                   /\ state'.audited = state.audited \cup {t} /\ state'.busy = state.busy \ {t}
    BY <1>1, <2>1, <2>4 DEF States, GivenInv
  <2>5. QED
    BY <2>2, <2>3, <2>4, Outcomes
<1>6. e \in CmdType
  BY <1>1 DEF CmdType
<1>7. PICK r \in CmdType : r = e
  BY <1>6
<1>8. r.pc = "reply" /\ r.op = cmd[p].op /\ r.chosen = cmd[p].chosen
  BY <1>1, <1>7 DEF CmdType
<1>9. Knows(r)'
  BY <1>1, <1>2, <1>5, <1>8 DEF Knows, Locking
<1> HIDE DEF e
<1>10. CommandsInv' /\ cmd' \in [Procs -> CmdType] /\ lock' \in Procs \cup {Nil}
  BY <1>1, <1>7, <1>9, Moved
<1>11. AuditTypeOK'
  BY <1>1, <1>4, <1>5, <1>10 DEF AuditTypeOK, CmdType
<1>12. GivenInv' /\ ClaimedOnce'
  BY <1>1, <1>5 DEF AuditInv, GivenInv, ClaimedOnce
<1>13. DependenciesFirst'
  BY <1>1, <1>2, <1>3, <1>5 DEF AuditInv, DependenciesFirst
<1>14. QED
  BY <1>10, <1>11, <1>12, <1>13 DEF AuditInv

LEMMA ReplyInv ==
  ASSUME AuditInv, NEW p \in Procs, Reply(p)
  PROVE  AuditInv'
<1>1. /\ AuditTypeOK /\ CommandsInv /\ GivenInv /\ again = {} /\ lock = p
      /\ cmd[p].chosen \subseteq state.busy /\ cmd[p].chosen \cap handed = {}
      /\ UNCHANGED <<inputs, dag, packets, state, faults>>
      /\ handed' = handed \cup cmd[p].chosen /\ again' = {}
  BY LockHolder DEF AuditInv, ClaimedOnce, Reply, files, Knows
<1>2. CommandsInv' /\ cmd' \in [Procs -> CmdType] /\ lock' \in Procs \cup {Nil}
  BY <1>1, ReturnInv DEF Reply
<1>3. state.busy \subseteq Required /\ (state = NoState => state.busy = {})
  BY <1>1 DEF AuditTypeOK, States, NoState
<1>4. AuditTypeOK'
  BY <1>1, <1>2, <1>3 DEF AuditTypeOK, CmdType
<1>5. GivenInv'
  BY <1>1, <1>3 DEF GivenInv
<1>6. DependenciesFirst' /\ ClaimedOnce'
  BY <1>1 DEF AuditInv, DependenciesFirst, ClaimedOnce
<1>7. QED
  BY <1>2, <1>4, <1>5, <1>6 DEF AuditInv

-----------------------------------------------------------------------------
(* The theorems.                                                             *)

LEMMA InitAudit == Init => AuditInv
<1> SUFFICES ASSUME Init PROVE AuditInv
  OBVIOUS
<1>1. AuditTypeOK
  <2>1. cmd \in [Procs -> CmdType]
    BY IdleCommand DEF Init
  <2>2. state \in States
    BY DEF Init, NoState, States
  <2>3. state.audited \cap state.busy = {}
    BY DEF Init, NoState
  <2>4. inputs \in BOOLEAN /\ dag \in BOOLEAN
    BY Zenon DEF Init
  <2>5. /\ lock \in Procs \cup {Nil} /\ faults \in 0..MaxFaults
        /\ packets = {} /\ state = NoState /\ handed = {} /\ again = {}
    BY DEF Init
  <2>6. QED
    BY <2>1, <2>2, <2>3, <2>4, <2>5 DEF AuditTypeOK, CmdType
<1>2. CommandsInv
  BY IdleCommand DEF Init, CommandsInv
<1>3. GivenInv /\ DependenciesFirst /\ ClaimedOnce
  BY DEF Init, NoState, GivenInv, DependenciesFirst, ClaimedOnce
<1>4. QED
  BY <1>1, <1>2, <1>3 DEF AuditInv

LEMMA StepAudit == AuditInv /\ [Next]_vars => AuditInv'
<1> SUFFICES ASSUME AuditInv, [Next]_vars PROVE AuditInv'
  OBVIOUS
<1>1. CASE UNCHANGED vars
  <2>1. UNCHANGED <<inputs, dag, packets, state, lock, cmd, handed, again, faults>>
    BY <1>1 DEF vars
  <2>2. AuditTypeOK' /\ GivenInv' /\ DependenciesFirst' /\ ClaimedOnce'
    BY <2>1 DEF AuditInv, AuditTypeOK, GivenInv, DependenciesFirst, ClaimedOnce
  <2>3. CommandsInv'
    BY <2>1 DEF AuditInv, CommandsInv, Knows, Waiting, Refuses, Ready, DependencyMet
  <2>4. QED
    BY <2>2, <2>3 DEF AuditInv
<1>2. ASSUME NEW p \in Procs, Called(p) \/ Work(p) \/ Die(p)
      PROVE  AuditInv'
  BY <1>2, CalledInv, DieInv, AcquireInv, InitializeInv, CreateStateInv, ReadInv, ChooseInv,
     WriteStateInv, ReplyInv DEF Work
<1>3. QED
  BY <1>1, <1>2 DEF Next, Called

\* The inductive invariant of the run's files and of its commands.
THEOREM AuditInductive == Spec => []AuditInv
<1>1. QED
  BY InitAudit, StepAudit, PTL DEF Spec

\* Every file of a run holds what a command may read; nothing is audited and in
\* progress at once.
THEOREM AuditTypes == Spec => []AuditTypeOK
<1>1. AuditInv => AuditTypeOK
  BY DEF AuditInv
<1>2. QED
  BY <1>1, AuditInductive, PTL

\* For every dependency graph, nothing starts before what it builds on has passed.
THEOREM AuditsFollowDependencies == Spec => []DependenciesFirst
<1>1. AuditInv => DependenciesFirst
  BY DEF AuditInv
<1>2. QED
  BY <1>1, AuditInductive, PTL

\* However many processes claim, and wherever they die, no task has two workers.
THEOREM TasksAreClaimedOnce == Spec => []ClaimedOnce
<1>1. AuditInv => ClaimedOnce
  BY DEF AuditInv
<1>2. QED
  BY <1>1, AuditInductive, PTL

LEMMA MovesStep ==
  ASSUME AuditInv, [Next]_vars
  PROVE  Moves
<1>0. AuditTypeOK /\ GivenInv /\ CommandsInv /\ state \in States
  BY DEF AuditInv, AuditTypeOK
<1>1. CASE state' = state
  BY <1>0, <1>1 DEF Moves, States
<1>2. CASE state' # state
  <2>1. PICK p \in Procs : WriteState(p) \/ CreateState(p)
    BY <1>2 DEF Next, vars, CallInitialize, CallAbort, CallClaim, CallFail, CallComplete, Call,
                Work, Acquire, Prepare, StoreGraph, Read, Choose, Reply, Die, files
  <2>2. CASE CreateState(p)
    <3>1. state = NoState
      BY <1>0, <2>2, LockHolder DEF CreateState, Knows
    <3>2. QED
      BY <2>2, <3>1 DEF CreateState, NoState, Moves
  <2>3. CASE WriteState(p)
    <3>1. CASE /\ cmd[p].op = "claim" /\ state.status = "active"
               /\ state' = [state EXCEPT !.busy = @ \cup cmd[p].chosen]
      BY <1>0, <3>1 DEF Moves, States
    <3>2. CASE state' = [state EXCEPT !.status = "failed", !.busy = {}]
      BY <1>0, <1>2, <3>2 DEF Moves, States, GivenInv
    <3>3. CASE /\ state.status = "active"
               /\ \E t \in state.busy, s \in {"active", "complete"} :
                     /\ state' \in States /\ state'.status = s
                     /\ state'.audited = state.audited \cup {t} /\ state'.busy = state.busy \ {t}
                     /\ s = "complete" => state.audited \cup {t} = Required
      BY <3>3 DEF Moves
    <3>4. QED
      BY <2>3, <3>1, <3>2, <3>3, Outcomes
  <2>4. QED
    BY <2>1, <2>2, <2>3
<1>3. QED
  BY <1>1, <1>2

\* A run completes only when everything required was audited, and never recovers from
\* a failure.
THEOREM RunsMoveForward == Spec => RunMovesForward
<1>1. AuditInv /\ [Next]_vars => [Moves]_vars
  BY MovesStep
<1>2. QED
  BY <1>1, AuditInductive, PTL DEF RunMovesForward, Spec
-----------------------------------------------------------------------------
(* The refinement of AuditBoard.  What a command carries to its write besides:    *)
(* a claim fills the free slots that it has counted, or takes all that is ready;  *)
(* a report is for a task that a worker was given.                                *)

Room(c) == LET n == Cardinality(c.read.busy) IN IF c.capacity > n THEN c.capacity - n ELSE 0
Fills(c) == c.pc = "write" /\ c.op = "claim" =>
    /\ Cardinality(c.chosen) <= Room(c)
    /\ Cardinality(c.chosen) = Room(c) \/ c.chosen = Ready(c.read)
Answers(c) == c.op = "complete" => c.task \in handed
BoardInv == \A p \in Procs : Fills(cmd[p]) /\ Answers(cmd[p])

LEMMA BoardInvStep == AuditInv /\ BoardInv /\ [Next]_vars => BoardInv'
<1> SUFFICES ASSUME AuditInv, BoardInv, [Next]_vars, NEW q \in Procs
             PROVE  Fills(cmd'[q]) /\ (cmd'[q].op = "complete" => cmd'[q].task \in handed')
  BY DEF BoardInv, Fills, Answers, Room, Ready, DependencyMet
<1>1. Fills(cmd[q]) /\ Answers(cmd[q]) /\ cmd \in [Procs -> CmdType]
  BY CmdTypes DEF BoardInv, AuditInv
<1>2. CASE UNCHANGED vars
  <2>1. cmd' = cmd /\ handed' = handed
    BY <1>2 DEF vars
  <2> QED BY <1>1, <2>1 DEF Answers
<1>3. ASSUME NEW p \in Procs, NEW c, cmd' = [cmd EXCEPT ![p] = c], handed \subseteq handed',
             Fills(c), c.op = "complete" => c.task \in handed
      PROVE  Fills(cmd'[q]) /\ (cmd'[q].op = "complete" => cmd'[q].task \in handed')
  BY <1>1, <1>3 DEF Answers
<1>4. ASSUME NEW p \in Procs, Return(p), handed \subseteq handed'
      PROVE  Fills(cmd'[q]) /\ (cmd'[q].op = "complete" => cmd'[q].task \in handed')
  <2>1. Fills(Idle) /\ Idle.op # "complete"
    BY DEF Idle, Fills
  <2> QED BY <1>3, <1>4, <2>1 DEF Return
<1>5. ASSUME NEW p \in Procs, NEW at, Go(p, at), handed' = handed,
             at # "write" \/ cmd[p].op # "claim"
      PROVE  Fills(cmd'[q]) /\ (cmd'[q].op = "complete" => cmd'[q].task \in handed')
  <2> DEFINE c == [cmd[p] EXCEPT !.pc = at]
  <2>1. c.pc = at /\ c.op = cmd[p].op /\ c.task = cmd[p].task
    BY <1>1 DEF CmdType
  <2>2. Answers(cmd[p])
    BY DEF BoardInv
  <2>3. cmd' = [cmd EXCEPT ![p] = c]
    BY <1>1, <1>5 DEF Go
  <2> HIDE DEF c
  <2>4. Fills(c) /\ (c.op = "complete" => c.task \in handed)
    BY <1>5, <2>1, <2>2 DEF Fills, Answers
  <2> QED BY <1>3, <1>5, <2>3, <2>4
<1>6. ASSUME NEW p \in Procs, Called(p)
      PROVE  Fills(cmd'[q]) /\ (cmd'[q].op = "complete" => cmd'[q].task \in handed')
  <2>1. PICK c : Call(p, c) /\ c.pc = "called" /\ (c.op = "complete" => c.task \in handed)
    <3>1. CASE CallInitialize(p)
      <4> DEFINE d == Command("initialize")
      <4>1. Call(p, d) /\ d.pc = "called" /\ d.op = "initialize"
        BY <3>1 DEF CallInitialize, Command, Idle
      <4> HIDE DEF d
      <4> QED BY <4>1
    <3>2. CASE CallAbort(p)
      <4> DEFINE d == Command("abort")
      <4>1. Call(p, d) /\ d.pc = "called" /\ d.op = "abort"
        BY <3>2 DEF CallAbort, Command, Idle
      <4> HIDE DEF d
      <4> QED BY <4>1
    <3>3. ASSUME NEW k \in 0..MaxCapacity, CallClaim(p, k)
          PROVE  \E c : Call(p, c) /\ c.pc = "called" /\ (c.op = "complete" => c.task \in handed)
      <4> DEFINE d == [Command("claim") EXCEPT !.capacity = k]
      <4>1. Call(p, d) /\ d.pc = "called" /\ d.op = "claim"
        BY <3>3 DEF CallClaim, Command, Idle
      <4> HIDE DEF d
      <4> QED BY <4>1
    <3>4. ASSUME NEW t \in Tasks, CallFail(p, t)
          PROVE  \E c : Call(p, c) /\ c.pc = "called" /\ (c.op = "complete" => c.task \in handed)
      <4> DEFINE d == [Command("fail") EXCEPT !.task = t]
      <4>1. Call(p, d) /\ d.pc = "called" /\ d.op = "fail"
        BY <3>4 DEF CallFail, Command, Idle
      <4> HIDE DEF d
      <4> QED BY <4>1
    <3>5. ASSUME NEW t \in Tasks, NEW r \in Reports, CallComplete(p, t, r)
          PROVE  \E c : Call(p, c) /\ c.pc = "called" /\ (c.op = "complete" => c.task \in handed)
      <4> DEFINE d == [Command("complete") EXCEPT !.task = t, !.report = r]
      <4>1. Call(p, d) /\ d.pc = "called" /\ d.task = t /\ t \in handed
        BY <3>5 DEF CallComplete, Command, Idle
      <4> HIDE DEF d
      <4> QED BY <4>1
    <3> QED BY <1>6, <3>1, <3>2, <3>3, <3>4, <3>5 DEF Called
  <2>2. Fills(c) /\ cmd' = [cmd EXCEPT ![p] = c] /\ handed' = handed
    BY <2>1 DEF Fills, Call, given
  <2> QED BY <1>3, <2>1, <2>2
<1>7. ASSUME NEW p \in Procs, Acquire(p)
      PROVE  Fills(cmd'[q]) /\ (cmd'[q].op = "complete" => cmd'[q].task \in handed')
  BY <1>5, <1>7 DEF Acquire, Go, given
<1>8. ASSUME NEW p \in Procs, Prepare(p) \/ StoreGraph(p) \/ CreateState(p) \/ WriteState(p)
                              \/ Reply(p) \/ Die(p)
      PROVE  Fills(cmd'[q]) /\ (cmd'[q].op = "complete" => cmd'[q].task \in handed')
  BY <1>4, <1>5, <1>8 DEF Prepare, StoreGraph, CreateState, WriteState, Reply, Die, given
<1>9. ASSUME NEW p \in Procs, Read(p)
      PROVE  Fills(cmd'[q]) /\ (cmd'[q].op = "complete" => cmd'[q].task \in handed')
  <2> DEFINE c == [cmd[p] EXCEPT !.read = state,
                                 !.pc = IF cmd[p].op = "claim" THEN "choose" ELSE "write"]
  <2>1. Return(p) \/ cmd' = [cmd EXCEPT ![p] = c]
    BY <1>1, <1>9 DEF Read
  <2>2. handed' = handed /\ Answers(cmd[p])
    BY <1>9 DEF Read, given, BoardInv
  <2>3. /\ c.op = cmd[p].op /\ c.task = cmd[p].task
        /\ c.pc = IF cmd[p].op = "claim" THEN "choose" ELSE "write"
    BY <1>1 DEF CmdType
  <2> HIDE DEF c
  <2>4. Fills(c) /\ (c.op = "complete" => c.task \in handed)
    BY <2>2, <2>3 DEF Fills, Answers
  <2> QED BY <1>3, <1>4, <2>1, <2>2, <2>4
<1>10. ASSUME NEW p \in Procs, Choose(p)
       PROVE  Fills(cmd'[q]) /\ (cmd'[q].op = "complete" => cmd'[q].task \in handed')
  <2>1. PICK S \in SUBSET Ready(cmd[p].read) :
           /\ Cardinality(S) <= Slots(p)
           /\ Cardinality(S) = Slots(p) \/ S = Ready(cmd[p].read)
           /\ cmd' = [cmd EXCEPT ![p].chosen = S, ![p].pc = "write"]
    BY <1>10 DEF Choose
  <2> DEFINE c == [cmd[p] EXCEPT !.chosen = S, !.pc = "write"]
  <2>2. /\ c.chosen = S /\ c.read = cmd[p].read /\ c.capacity = cmd[p].capacity
        /\ c.op = cmd[p].op /\ c.task = cmd[p].task
    BY <1>1 DEF CmdType
  <2>3. cmd' = [cmd EXCEPT ![p] = c] /\ handed' = handed /\ Answers(cmd[p])
    BY <1>1, <1>10, <2>1 DEF Choose, given, BoardInv
  <2> HIDE DEF c
  <2>4. Fills(c)
    BY <2>1, <2>2 DEF Fills, Room, Slots
  <2> QED BY <1>3, <2>2, <2>3, <2>4 DEF Answers
<1> QED
  BY <1>2, <1>6, <1>7, <1>8, <1>9, <1>10 DEF Next, Called, Work, vars

\* The board counts as the scheduler does.
LEMMA BoardCounts == \A S : Board!Cardinality(S) = Cardinality(S)
BY DEF Cardinality, Board!Cardinality

\* The state that a step of a command leaves is the board's next.
LEMMA BoardClaims ==
  ASSUME AuditInv, BoardInv, NEW p \in Procs, WriteState(p), cmd[p].op = "claim",
         state.status = "active", state' = [state EXCEPT !.busy = @ \cup cmd[p].chosen],
         handed' = handed
  PROVE  Board!Next
<1> DEFINE S == cmd[p].chosen
           k == cmd[p].capacity
           n == Cardinality(state.busy)
<1>1. /\ cmd[p].read = state /\ S \subseteq Ready(state) /\ state \in States /\ k \in 0..MaxCapacity
      /\ Cardinality(S) <= Room(cmd[p])
      /\ Cardinality(S) = Room(cmd[p]) \/ S = Ready(state)
  <2>1. cmd[p].pc = "write" /\ Knows(cmd[p]) /\ cmd[p] \in CmdType /\ state \in States
    BY CmdTypes, LockHolder DEF AuditInv, WriteState
  <2>2. cmd[p].read = state /\ S \subseteq Ready(state)
    BY <2>1 DEF Knows
  <2> QED BY <2>1, <2>2 DEF BoardInv, Fills, CmdType
<1>2. /\ state'.status = "active" /\ state'.audited = state.audited
      /\ state'.busy = state.busy \cup S
  BY <1>1 DEF States
<1>3. S \cap state.busy = {} /\ S \subseteq Required /\ state.busy \subseteq Required
  BY <1>1 DEF Ready, States
<1>4. /\ IsFiniteSet(S) /\ IsFiniteSet(state.busy) /\ Cardinality(S) \in Nat /\ n \in Nat
      /\ Cardinality(state.busy \cup S) = n + Cardinality(S)
      /\ (Cardinality(S) = 0 <=> S = {})
  <2>1. IsFiniteSet(Required)
    BY FS_Subset
  <2>2. IsFiniteSet(S) /\ IsFiniteSet(state.busy)
    BY <1>3, <2>1, FS_Subset
  <2>3. Cardinality(S) \in Nat /\ n \in Nat
    BY <2>2, FS_CardinalityType
  <2>4. Cardinality(state.busy \cap S) = 0
    BY <1>3, FS_EmptySet
  <2>5. Cardinality(state.busy \cup S) = n + Cardinality(S) - Cardinality(state.busy \cap S)
    BY <2>2, FS_Union
  <2>6. Cardinality(S) = 0 <=> S = {}
    BY <2>2, FS_EmptySet
  <2> QED BY <2>2, <2>3, <2>4, <2>5, <2>6
<1>5. Ready(state) = Board!Startable
  BY <1>1 DEF Ready, DependencyMet, Board!Startable, States
<1>6. /\ (S # {} => Cardinality(state.busy \cup S) <= k)
      /\ S = Ready(state) \/ Cardinality(state.busy \cup S) >= k
  <2>1. Room(cmd[p]) = IF k > n THEN k - n ELSE 0
    BY <1>1 DEF Room
  <2>2. k \in Nat
    BY <1>1
  <2>3. Cardinality(S) = Room(cmd[p]) => n + Cardinality(S) >= k
    BY <1>4, <2>1, <2>2
  <2>4. S # {} => n + Cardinality(S) <= k
    BY <1>1, <1>4, <2>1, <2>2
  <2> QED BY <1>1, <1>4, <2>3, <2>4
<1>7. Board!Claim(k)
  <2>1. S \in SUBSET Board!Startable
    BY <1>1, <1>5
  <2> QED BY <1>2, <1>5, <1>6, <2>1, BoardCounts DEF Board!Claim
<1> QED BY <1>1, <1>7 DEF Board!Next

LEMMA BoardStep == AuditInv /\ BoardInv /\ [Next]_vars => [Board!Next]_Board!vars
<1> SUFFICES ASSUME AuditInv, BoardInv, [Next]_vars PROVE [Board!Next]_Board!vars
  OBVIOUS
<1>1. AuditTypeOK /\ GivenInv /\ state \in States /\ handed \subseteq Required
  BY DEF AuditInv, AuditTypeOK
<1>2. CASE state' = state /\ handed' = handed
  BY <1>2 DEF Board!vars
<1>3. ASSUME NEW p \in Procs, Reply(p) PROVE [Board!Next]_Board!vars
  <2> DEFINE S == cmd[p].chosen
  <2>1. lock = p /\ Knows(cmd[p]) /\ cmd[p].pc = "reply"
    BY <1>3, LockHolder DEF AuditInv, Reply
  <2>2. S \subseteq state.busy \ handed /\ S \subseteq Required
    BY <1>1, <2>1 DEF Knows, States
  <2>3. state' = state /\ handed' = handed \cup S
    BY <1>3 DEF Reply, files
  <2>4. Board!Give(S)
    BY <2>2, <2>3 DEF Board!Give
  <2> QED BY <2>2, <2>4 DEF Board!Next
<1>4. ASSUME NEW p \in Procs, CreateState(p) PROVE [Board!Next]_Board!vars
  <2>1. state = NoState
    BY <1>4, LockHolder DEF AuditInv, CreateState, Knows
  <2>2. handed' = handed
        /\ state' = [NoState EXCEPT !.status = IF Required = {} THEN "complete" ELSE "active"]
    BY <1>4 DEF CreateState, given
  <2>3. Board!Open
    BY <2>1, <2>2 DEF Board!Open, NoState
  <2> QED BY <2>3 DEF Board!Next
<1>5. ASSUME NEW p \in Procs, WriteState(p) PROVE [Board!Next]_Board!vars
  <2>1. handed' = handed
    BY <1>5 DEF WriteState, given
  <2>2. CASE /\ cmd[p].op = "claim" /\ state.status = "active"
             /\ state' = [state EXCEPT !.busy = @ \cup cmd[p].chosen]
    BY <1>5, <2>1, <2>2, BoardClaims
  <2>3. CASE /\ state.status # "none"
             /\ state' = [state EXCEPT !.status = "failed", !.busy = {}]
    <3>1. CASE state.status = "failed"
      <4>1. state' = state
        BY <1>1, <2>3, <3>1 DEF States, GivenInv
      <4> QED BY <1>2, <2>1, <4>1
    <3>2. CASE state.status \in {"active", "complete"}
      <4>1. Board!Fail
        BY <1>1, <2>1, <2>3, <3>2 DEF Board!Fail, States
      <4> QED BY <4>1 DEF Board!Next
    <3> QED BY <1>1, <2>3, <3>1, <3>2 DEF States
  <2>4. ASSUME state.status = "active", NEW t \in state.busy, NEW s \in {"active", "complete"},
               cmd[p].op = "complete", cmd[p].task = t, state' \in States, state'.status = s,
               state'.audited = state.audited \cup {t}, state'.busy = state.busy \ {t},
               s = "complete" <=> state.audited \cup {t} = Required
        PROVE  [Board!Next]_Board!vars
    <3>1. t \in handed /\ t \in Required
      BY <1>1, <2>4 DEF BoardInv, Answers
    <3>2. Board!Pass(t)
      BY <2>1, <2>4, <3>1 DEF Board!Pass
    <3> QED BY <3>1, <3>2 DEF Board!Next
  <2> QED BY <1>5, <2>2, <2>3, <2>4, Outcomes
<1> QED
  BY <1>2, <1>3, <1>4, <1>5 DEF Next, vars, CallInitialize, CallAbort, CallClaim, CallFail,
     CallComplete, Call, Work, Acquire, Prepare, StoreGraph, Read, Choose, Die, files, given

\* Commands take effect one at a time, as on a board without processes, files or locks.
THEOREM RefinesBoard == Spec => ImplementsBoard
<1>1. Init => BoardInv
  BY DEF Init, BoardInv, Fills, Answers, Idle
<1>2. Init => Board!Init
  BY DEF Init, NoState, Board!Init
<1>3. QED
  BY <1>1, <1>2, BoardInvStep, BoardStep, AuditInductive, PTL DEF Spec, ImplementsBoard, Board!Spec
=============================================================================
