----------------------------- MODULE RutterLedger -----------------------------
(* RutterVoyage implements EffectLedger: the ledger is read off the recovery *)
(* authority of the leaf and the MachineRecords of all runs.                 *)
EXTENDS RutterProperties

AcceptedMachines ==
    {rec \in UNION {{a.hist[k] : k \in DOMAIN a.hist} : a \in Owners(disk)} :
        rec.kind = "machine" /\ Kind[rec.evo] \in Effectful}
MachineRecords(i) == {rec \in AcceptedMachines : rec.entry = i}
InRecovery(i) == disk.effect.disposition # "none" /\ disk.effect.id = i

LedgerStage == [i \in Ids |->
    IF MachineRecords(i) # {} THEN "accepted"
    ELSE IF InRecovery(i) THEN disk.effect.disposition ELSE "absent"]
LedgerSafe == [i \in Ids |->
    /\ InRecovery(i) => disk.effect.mode = "repeat-safe"
    /\ \A rec \in MachineRecords(i) : Kind[rec.evo] = "repeat-safe"]
LedgerResult == [i \in Ids |->
    IF MachineRecords(i) # {} THEN (CHOOSE rec \in MachineRecords(i) : TRUE).out
    ELSE IF InRecovery(i) THEN disk.effect.result ELSE Nil]
LedgerStarted == [i \in Ids |->
    LET n == ran[i]["repeat-safe"] + ran[i]["non-repeat-safe"] IN IF n > 2 THEN 2 ELSE n]

Ledger == INSTANCE EffectLedger WITH
    stage <- LedgerStage, safe <- LedgerSafe, result <- LedgerResult,
    started <- LedgerStarted

(* Every behaviour of the Voyage, with its crashes, retries and competing    *)
(* processes, is one of the ledger's: no effectful machine is accepted       *)
(* without having been planned, started and completed in that order, none is *)
(* planned twice or together with another, and the accepted outcome is the   *)
(* durable one (_planned_effect, _run_effectful_machine, _advance_machine).  *)
ImplementsLedger == Ledger!Spec
=============================================================================
