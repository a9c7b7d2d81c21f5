---------------------------- MODULE MCStage1Run ----------------------------
(* Two small instances of Stage1Run: one document with one focal atom and   *)
(* several configurations, or with two atoms and one configuration.  The    *)
(* single atom is a period, the first of the two a scope.                   *)
EXTENDS Stage1Run

CONSTANTS d1, a1, a2, probed

OneDoc == {d1}
InOneDoc == [a \in Atoms |-> d1]
FirstProbed == [a \in Atoms |-> IF a = a1 THEN probed ELSE NoClass]
=============================================================================
