---------------------------- MODULE AnswerStore ----------------------------
(***************************************************************************)
(* What a resumable runner promises: a store of answers that only grows,   *)
(* survives every stop, and is complete, one usable answer per task, when  *)
(* a run ends as finished.                                                 *)
(***************************************************************************)
CONSTANT Tasks

VARIABLES stored, status

vars == <<stored, status>>

TypeOK == stored \subseteq Tasks /\ status \in {"running", "stopped", "complete"}

Init == stored = {} /\ status = "running"

Store(t) ==
  /\ status = "running"
  /\ stored' = stored \union {t}
  /\ UNCHANGED status

Complete ==
  /\ status = "running" /\ stored = Tasks
  /\ status' = "complete"
  /\ UNCHANGED stored

Stop == status = "running" /\ status' = "stopped" /\ UNCHANGED stored

Resume == status \in {"stopped", "complete"} /\ status' = "running" /\ UNCHANGED stored

Next == Complete \/ Stop \/ Resume \/ \E t \in Tasks : Store(t)

Spec == Init /\ [][Next]_vars
=============================================================================
