------------------------------- MODULE Regime -------------------------------
(***************************************************************************)
(* The decoder regime of a receiver configuration, providers/regime.py and *)
(* providers/determinism.py: strict (D) or (S), the number of replications *)
(* m* under (S), and what a regime permits.                                *)
(*                                                                         *)
(* Variances are fractions [num, den] of naturals, den > 0: the code's     *)
(* floats, without their rounding.                                         *)
(***************************************************************************)
EXTENDS Integers, FiniteSets, Sequences

Frac(n, d) == [num |-> n, den |-> d]
LeqFrac(p, q) == p.num * q.den <= q.num * p.den

REPLICATION_GRID == <<1, 2, 3, 5>>
GridLast == REPLICATION_GRID[Len(REPLICATION_GRID)]

(* sigma2_decode / m <= 0.10 * sigma2_document *)
MeetsTarget(decode, document, m) ==
  LeqFrac(Frac(10 * decode.num, decode.den * m), document)

(* The first candidate of the grid that meets the target, or the last one. *)
FirstMeeting(decode, document) ==
  LET meets == {i \in DOMAIN REPLICATION_GRID :
                  MeetsTarget(decode, document, REPLICATION_GRID[i])}
  IN IF meets = {} THEN GridLast
     ELSE REPLICATION_GRID[CHOOSE i \in meets : \A j \in meets : i <= j]

ReplicationDecision(m, met) ==
  [m_star |-> m, criterion_met |-> met, hierarchical_bootstrap_required |-> ~met]

select_replication(decode, document) ==
  IF document.num = 0
    THEN ReplicationDecision(IF decode.num > 0 THEN GridLast ELSE REPLICATION_GRID[1],
                             decode.num = 0)
    ELSE ReplicationDecision(FirstMeeting(decode, document),
           \E i \in DOMAIN REPLICATION_GRID :
             MeetsTarget(decode, document, REPLICATION_GRID[i]))
-----------------------------------------------------------------------------
(* ReproducibilityAudit.regime(): an audit that is not complete, or too     *)
(* small, confirms nothing.                                                *)
RegimeOf(audit, requiredInputs, requiredRepeats) ==
  IF \/ ~audit.completed
     \/ audit.n_inputs < requiredInputs \/ audit.n_repeats < requiredRepeats
    THEN "NOT_AUDITED"
    ELSE IF audit.inputs_with_disagreement = 0 THEN "D_CONFIRMED" ELSE "S_CONFIRMED"

(* determinism.audit(): outputs is a function from prompts to sequences. *)
Disagreeing(outputs) ==
  {p \in DOMAIN outputs : \E i, j \in DOMAIN outputs[p] : outputs[p][i] # outputs[p][j]}

determinism_audit(outputs) ==
  IF \/ outputs = <<>>
     \/ \E p, q \in DOMAIN outputs : Len(outputs[p]) # Len(outputs[q])
     \/ \E p \in DOMAIN outputs : Len(outputs[p]) < 2
    THEN "ValueError"
    ELSE IF Disagreeing(outputs) = {} THEN "D" ELSE "S"

(* RegimeLedger: configuration -> last recorded audit. *)
RecordAudit(ledger, configuration, audit) ==
  [c \in DOMAIN ledger \union {configuration} |->
     IF c = configuration THEN audit ELSE ledger[c]]

RegimeFor(ledger, configuration, requiredInputs, requiredRepeats) ==
  IF configuration \in DOMAIN ledger
    THEN RegimeOf(ledger[configuration], requiredInputs, requiredRepeats)
    ELSE "NOT_AUDITED"

ClaimsPermitted(regime) == regime = "D_CONFIRMED"
=============================================================================
