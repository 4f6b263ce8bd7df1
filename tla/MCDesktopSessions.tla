------------------------- MODULE MCDesktopSessions -------------------------
(* DesktopSessions with one connection served by each of two replicas.       *)
EXTENDS DesktopSessions, TLC

CONSTANTS c1, c2, r1, r2

OnePerReplica == c1 :> r1 @@ c2 :> r2

OnlyOne == c1 :> r1

\* The replicas are interchangeable together with the connections they serve.
Symmetry == {c1 :> c2 @@ c2 :> c1 @@ r1 :> r2 @@ r2 :> r1}
=============================================================================
