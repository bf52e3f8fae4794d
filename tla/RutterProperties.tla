-------------------------- MODULE RutterProperties --------------------------
(* What the Rutter engine promises of RutterVoyage.                          *)
EXTENDS RutterVoyage, FiniteSets

(* Every variable stays in its range, and the path never becomes empty.      *)
TypeOK ==
    /\ disk \in Reckoning /\ disk.path # <<>>
    /\ lock \in Procs \cup {Nil}
    /\ pc \in [Procs -> {"idle", "loop", "run", "ran"}]
    /\ op \in [Procs -> {"advance", "step", "instruction"}]
    /\ held \in [Procs -> Outcomes \cup {Nil}]
    /\ draft \in [Procs -> [entry : Ids \cup {0}, out : Outcomes \cup {Nil}]]
    /\ nextId \in 1..(MaxId + 1)
    /\ ran \in [Ids -> [Modes -> 0..2]]
    /\ yielded \in [Ids -> SUBSET Outcomes]
    /\ composed \subseteq Ids \X Outcomes

-----------------------------------------------------------------------------
\* What the store's validators demand of a Reckoning (history.py: _validate_history,
\* Reckoning.validate; engine.py: Voyage._validate_reckoning and its parts).  The
\* code runs them before every write and refuses the write when one fails, which
\* would leave the Voyage unable to move.

Positions(r) == DOMAIN r.path
Owners(r) == {[run |-> r.path[n].run, hist |-> r.path[n].hist] : n \in Positions(r)}
               \cup r.completed
Indices(h, Test(_)) == {i \in DOMAIN h : Test(h[i])}
IsSource(rec) == rec.kind # "hook"
IsChildRecord(rec) == rec.kind \in {"call", "hook"}
IsMachine(rec) == rec.kind = "machine"
IsDone(rec) == rec.kind = "done"

HistoryIsOrdered(h) ==
    /\ \A i \in DOMAIN h : IsOpen(h[i]) => i = Len(h)
    /\ \A i, j \in DOMAIN h : i < j /\ h[i].kind = "done" =>
          h[j].kind = "hook" /\ h[j].entry = h[i].entry

\* An archived run has one TerminalRecord; an active one's is the current entrance's,
\* and a run above it is a hook's.
TerminalFits(r) ==
    /\ \A c \in r.completed : Cardinality(Indices(c.hist, IsDone)) = 1
    /\ \A n \in Positions(r) : \A i \in Indices(r.path[n].hist, IsDone) :
          /\ r.path[n].hist[i].entry = r.path[n].entry
          /\ r.path[n].hist[i].evo = r.path[n].evo
          /\ n # Len(r.path) => r.path[n + 1].held = "hook"

RunsAreDistinct(r) ==
    /\ \A m, n \in Positions(r) : r.path[m].run = r.path[n].run => m = n
    /\ \A c \in r.completed : \A n \in Positions(r) : r.path[n].run # c.run
    /\ \A c, d \in r.completed : c.run = d.run => c = d

EntranceHasOneOwner(r) ==
    /\ \A a, b \in Owners(r) : a.run # b.run =>
          \A i \in DOMAIN a.hist, j \in DOMAIN b.hist : a.hist[i].entry # b.hist[j].entry
    /\ \A n \in Positions(r), a \in Owners(r) : a.run # r.path[n].run =>
          \A i \in DOMAIN a.hist : a.hist[i].entry # r.path[n].entry
    /\ \A a \in Owners(r) : \A i, j \in Indices(a.hist, IsSource) :
          a.hist[i].entry = a.hist[j].entry => i = j

Entrances(r) ==
    {<<r.path[n].entry, r.path[n].evo>> : n \in Positions(r)}
      \cup UNION {{<<a.hist[i].entry, a.hist[i].evo>> : i \in Indices(a.hist, IsSource)} :
                     a \in Owners(r)}
EntranceHasOneEvolution(r) == \A x, y \in Entrances(r) : x[1] = y[1] => x[2] = y[2]

RefersTo(a, c) == \E i \in Indices(a.hist, IsChildRecord) : a.hist[i].run = c.run
ArchiveIsReferencedOnce(r) ==
    /\ \A a \in Owners(r) : \A i \in Indices(a.hist, IsChildRecord) :
          \E c \in r.completed : a.hist[i].run = c.run
    /\ \A c \in r.completed :
          Cardinality(UNION {{<<a.run, i>> : i \in {j \in Indices(a.hist, IsChildRecord) :
                                  a.hist[j].run = c.run}} : a \in Owners(r)}) = 1
\* No cycle: any archived runs have one among them to which none of them refers.
ReferencesAreAcyclic(r) ==
    \A S \in SUBSET r.completed : S # {} => \E c \in S : \A d \in S : ~RefersTo(d, c)

\* An attached case follows, in its own run, the record it is attached to, and no
\* hook is attached twice to one transition, the active attachment included.
HooksAreAttachedOnce(r) ==
    /\ \A a \in Owners(r) : \A i \in DOMAIN a.hist : a.hist[i].kind = "hook" =>
          /\ \E k \in Indices(a.hist, IsSource) : k < i /\ a.hist[k].entry = a.hist[i].entry
          /\ \A j \in DOMAIN a.hist : a.hist[j].kind = "hook" /\ i # j =>
                <<a.hist[j].hook, a.hist[j].entry>> # <<a.hist[i].hook, a.hist[i].entry>>
    /\ \A n \in Positions(r) \ {1} : r.path[n].held = "hook" =>
          /\ r.path[n].hook \notin CompletedHooks(r.path[n - 1])
          /\ IsRecorded(r.path[n - 1])
    /\ \A n \in Positions(r) \ {1} : r.path[n].held = "call" =>
          Kind[r.path[n - 1].evo] = "sub" /\ ~IsRecorded(r.path[n - 1])

EffectBelongsToLeaf(r) ==
    LET leaf == DeepestActiveLeaf(r)
    IN IF r.effect.disposition = "none"
       THEN Kind[leaf.evo] \in Effectful => IsRecorded(leaf)
       ELSE /\ r.effect.id = leaf.entry /\ r.effect.mode = Kind[leaf.evo]
            /\ r.effect.mode \in Effectful
            /\ (r.effect.disposition = "completed") = (r.effect.result # Nil)
            /\ \A a \in Owners(r) : \A i \in Indices(a.hist, IsMachine) :
                  a.hist[i].entry # r.effect.id

\* A fault stands at the leaf, and names an evolution and hooks of its Rutter.
HooksOf(e) == {HookOrder[e][k] : k \in DOMAIN HookOrder[e]}
FaultNamesLeaf(r) ==
    r.fault.category # "none" => /\ r.fault.run = DeepestActiveLeaf(r).run
                                 /\ r.fault.entry = DeepestActiveLeaf(r).entry
                                 /\ r.fault.target \in Evolutions \cup {Nil}
                                 /\ r.fault.hooks \subseteq HooksOf(DeepestActiveLeaf(r).evo)

OpenMessageIsCurrent(r) ==
    \A n \in Positions(r) : Kind[r.path[n].evo] = "llm" =>
        \/ IsRecorded(r.path[n])
        \/ /\ n = Len(r.path)
           /\ \E rec \in SourceRecords(r.path[n]) : IsOpen(rec) /\ rec.rev = r.rev

(* Every Reckoning in the file passes the validators that the next one must  *)
(* pass and that reopening it runs (_validated_bytes): no sequence of legal  *)
(* calls, crashes and retries makes a Voyage that cannot be written on or    *)
(* read again.  Of what the engine builds the store has to refuse the fault  *)
(* of a route to an undeclared evolution (Refused) and a file over its size  *)
(* limit (not modelled); that it need refuse nothing else is claimed here.   *)
Publishable ==
    /\ \A a \in Owners(disk) : HistoryIsOrdered(a.hist)
    /\ Len(disk.path) <= MaxDepth
    /\ TerminalFits(disk) /\ RunsAreDistinct(disk)
    /\ EntranceHasOneOwner(disk) /\ EntranceHasOneEvolution(disk)
    /\ ArchiveIsReferencedOnce(disk) /\ ReferencesAreAcyclic(disk)
    /\ HooksAreAttachedOnce(disk)
    /\ EffectBelongsToLeaf(disk) /\ FaultNamesLeaf(disk) /\ OpenMessageIsCurrent(disk)

-----------------------------------------------------------------------------
(* A machine that is not repeat-safe is started at most once, whatever       *)
(* crashes, retries and competing processes do (_run_effectful_machine).     *)
NonRepeatSafeRunsOnce == \A i \in Ids : ran[i]["non-repeat-safe"] <= 1

(* The durable result of an effectful machine, in its recovery and later in  *)
(* its record, is one that an execution of that very machine returned.       *)
ResultWasYielded ==
    /\ disk.effect.disposition = "completed" => disk.effect.result \in yielded[disk.effect.id]
    /\ \A a \in Owners(disk) : \A i \in Indices(a.hist, IsMachine) :
          (\E m \in Effectful : ran[a.hist[i].entry][m] > 0)
             => a.hist[i].out \in yielded[a.hist[i].entry]

(* The accepted answer of a Message was composed for that Message, however   *)
(* late or often it was delivered (_validate_prompt, responding_to).         *)
AnswerFitsMessage ==
    \A a \in Owners(disk) : \A i \in DOMAIN a.hist :
        a.hist[i].kind = "turn" /\ a.hist[i].out # Nil
            => <<a.hist[i].entry, a.hist[i].out>> \in composed

\* The run has moved past the entrance of its i-th record.
Left(a, i) == \A n \in Positions(disk) :
    disk.path[n].run = a.run => disk.path[n].entry # a.hist[i].entry
HooksFor(rec) ==
    {h \in HooksOf(rec.evo) :
        /\ Matches(HookOn[h], SelectTransition(rec.evo, rec.out))
        /\ <<h, rec.entry>> \notin Declines}
(* Before a run leaves an entrance, by entering the routed target or by      *)
(* returning to its parent, every hook that matches the transition and makes *)
(* a charter for it has run to its end and left its record there, and no     *)
(* other hook has (_continue_transition, select_transition_hooks).           *)
HooksRunBeforeTarget ==
    \A a \in Owners(disk) : \A i \in Indices(a.hist, IsSource) : Left(a, i) =>
        {a.hist[j].hook : j \in {k \in DOMAIN a.hist :
             a.hist[k].kind = "hook" /\ a.hist[k].entry = a.hist[i].entry}}
          = HooksFor(a.hist[i])

-----------------------------------------------------------------------------
Closed(r) == UNION {{<<a.run, i>> : i \in {j \in DOMAIN a.hist : ~IsOpen(a.hist[j])}} :
                       a \in Owners(r)}
\* b continues a: a's records are b's first ones, but for an answered open Turn.
Extends(a, b) ==
    /\ a.run = b.run /\ Len(a.hist) <= Len(b.hist)
    /\ \A i \in DOMAIN a.hist :
          \/ b.hist[i] = a.hist[i]
          \/ IsOpen(a.hist[i]) /\ b.hist[i] = [a.hist[i] EXCEPT !.out = b.hist[i].out]
(* What is written stays written: no step drops, reorders or rewrites a      *)
(* record of any run, except that an open Turn receives its answer; archived *)
(* runs are immutable; and the global revision counts the accepted records,  *)
(* one behind only in a fault published over a freshly accepted one          *)
(* (_fault_and_publish).                                                     *)
HistoryGrows ==
    [][/\ \A a \in Owners(disk) : \E b \in Owners(disk)' : Extends(a, b)
       /\ disk.completed \subseteq disk'.completed
       /\ \/ disk'.rev = Cardinality(Closed(disk)')
          \/ disk'.fault.category # "none" /\ disk'.rev + 1 = Cardinality(Closed(disk)')]_vars

(* Once a fault is durable, or a process has died over a machine that is not *)
(* repeat-safe, no step moves the Voyage again: no call is accepted and no   *)
(* operation under way goes on (RunBlocked in _advance and in the run of a   *)
(* MachineInstruction).                                                      *)
BlockedIsFinal ==
    [][Blocked(disk) /\ (\A p \in Procs : pc[p] \notin {"run", "ran"}) => disk' = disk]_vars

(* A callback never starts again once its result is durable, in the recovery *)
(* or in a record: a retry consumes the stored result.                       *)
NoRunAfterResult ==
    [][\A i \in Ids : ran'[i] # ran[i] =>
          /\ ~(disk.effect.id = i /\ disk.effect.disposition = "completed")
          /\ \A a \in Owners(disk) : \A k \in Indices(a.hist, IsMachine) :
                a.hist[k].entry # i]_vars
=============================================================================
