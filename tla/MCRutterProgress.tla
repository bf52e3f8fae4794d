--------------------------- MODULE MCRutterProgress ---------------------------
(* Nested Rutters without cycles for RutterProgress: machines of all three   *)
(* modes, a SubRutter whose child asks, or goes deeper once, or once more    *)
(* than the limit allows; three hooks on the transition into the SubRutter,  *)
(* of which one always declines, one on the root Terminal's, and two on the  *)
(* called child's Terminal, of which both match one outcome although its     *)
(* Rutter allows one.  At every fourth entrance the last hook of a Terminal  *)
(* declines.  An answer, a machine's result and a call's are routed to an    *)
(* evolution that the Rutter lacks.                                          *)
EXTENDS RutterProgress

CONSTANTS ok, again, lost, review, skip, audit, notify, deep, tail, p1, p2

Program == {"ask", "call", "retry", "once", "done",  \* the root Rutter
            "fork", "check", "nest", "end",          \* the Rutter of "call"
            "pick", "dig", "dug",                    \* the Rutter of "nest" and "dig"
            "log", "logged"}                         \* the Rutter of the hooks
MCKind == [e \in Program |->
    CASE e \in {"ask", "check"} -> "llm" [] e = "once" -> "non-repeat-safe"
      [] e = "retry" -> "repeat-safe" [] e \in {"fork", "pick", "log"} -> "pure"
      [] e \in {"call", "nest", "dig"} -> "sub" [] OTHER -> "terminal"]
MCResults == [e \in Program |->
    CASE e = "end" -> {ok, again, lost} [] e \in {"check", "retry"} -> {ok, lost}
      [] e \in {"fork", "pick"} -> {ok, again} [] OTHER -> {ok}]
MCRoute == [e \in Program |-> [o \in {ok, again, lost} |->
    CASE o = lost -> Undeclared
      [] o # lost /\ e = "ask" -> "call"
      [] o # lost /\ e = "call" -> IF o = ok THEN "retry" ELSE "once"
      [] o # lost /\ e \in {"retry", "once"} -> "done"
      [] o # lost /\ e = "fork" -> IF o = ok THEN "check" ELSE "nest"
      [] o # lost /\ e \in {"check", "nest"} -> "end"
      [] o # lost /\ e = "pick" -> IF o = ok THEN "dug" ELSE "dig"
      [] o # lost /\ e = "dig" -> "dug"
      [] o # lost /\ e = "log" -> "logged"
      [] OTHER -> Nil]]
MCChildStart == [e \in Program |-> IF e = "call" THEN "fork" ELSE "pick"]
MCHookOrder == [e \in Program |->
    CASE e \in {"ask", "call", "retry", "once", "done"} -> <<review, skip, audit, notify>>
      [] e \in {"fork", "check", "nest", "end"} -> <<deep, tail>>
      [] OTHER -> <<>>]
MCHookOn == [h \in {review, skip, audit, notify, deep, tail} |->
    CASE h \in {review, skip, audit} -> [source |-> Nil, outcome |-> Nil, target |-> "call"]
      [] h = deep -> [source |-> "end", outcome |-> Nil, target |-> Nil]
      [] h = tail -> [source |-> "end", outcome |-> again, target |-> Nil]
      [] OTHER -> [source |-> "done", outcome |-> Nil, target |-> Nil]]
MCHookStart == [h \in {review, skip, audit, notify, deep, tail} |-> "log"]
MCDeclines == ({skip} \X Ids) \cup ({notify, tail} \X {i \in Ids : i % 4 = 1})
=============================================================================
