--------------------------- MODULE MCSemanticAudit ---------------------------
(* Two tasks share a dependency, and one of them builds on a current vertex. *)
EXTENDS SemanticAuditProperties, TLC
CONSTANTS base, left, right, current, p1, p2
MCDependencies ==
    base :> {current} @@ left :> {base} @@ right :> {base} @@ current :> {}
=============================================================================
