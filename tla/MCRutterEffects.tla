--------------------------- MODULE MCRutterEffects ---------------------------
(* A Rutter whose work is machine steps of all three modes, with a Message   *)
(* that can be asked again and a nested Rutter, for RutterVoyage.            *)
EXTENDS RutterLedger

CONSTANTS ok, again, p1, p2

Program == {"ask", "once", "retry", "calc", "call", "done",   \* the root Rutter
            "end"}                                            \* the Rutter of "call"
MCKind == [e \in Program |->
    CASE e = "ask" -> "llm" [] e = "once" -> "non-repeat-safe"
      [] e = "retry" -> "repeat-safe" [] e = "calc" -> "pure"
      [] e = "call" -> "sub"
      [] OTHER -> "terminal"]
MCResults == [e \in Program |->
    IF e \in {"ask", "once", "retry"} THEN {ok, again} ELSE {ok}]
MCRoute == [e \in Program |-> [o \in {ok, again} |->
    CASE e = "ask" -> IF o = ok THEN "once" ELSE "ask"
      [] e = "once" -> IF o = ok THEN "retry" ELSE "call"
      [] e = "retry" -> IF o = ok THEN "calc" ELSE "once"
      [] e \in {"calc", "call"} -> "done"
      [] OTHER -> Nil]]
MCChildStart == [e \in Program |-> "end"]
MCHookOrder == [e \in Program |-> <<>>]
MCHookOn == [h \in {} |-> Nil]
MCHookStart == [h \in {} |-> Nil]
=============================================================================
