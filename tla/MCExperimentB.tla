--------------------------- MODULE MCExperimentB ---------------------------
(* Two matched slots, one repetition of each arm.                            *)
EXTENDS ExperimentB, TLC

CONSTANTS s1, s2, n1, n2, b1, b2, w1, w2

MCSlotOf == (n1 :> s1) @@ (b1 :> s1) @@ (n2 :> s2) @@ (b2 :> s2)
FirstTwice == <<1, 1>>
Threads == Permutations({w1, w2})
=============================================================================
