-------------------------- MODULE MCProviderChecks --------------------------
(* The operator runs either the canary or the audits; the two programs share *)
(* nothing but the provider, so one behaviour has the processes of one.      *)
EXTENDS ProviderAudit, ProviderCanary

CONSTANTS i1, i2, d1, d2

VARIABLE program

checksVars == <<auditVars, canaryVars, program>>

MCWorkItems == << <<i1, 2>>, <<i2, 1>>, <<i1, 1>>, <<i2, 2>> >>
MCDocumentOf == [i \in {i1, i2} |-> IF i = i1 THEN d1 ELSE d2]
MCCandidates == <<"terra", "astra">>

ChecksInit == AuditInit /\ CanaryInit /\ program \in {"audit", "canary"}
        /\ (program = "canary" => script = "regime")

AuditTurn  == program = "audit" /\ AuditNext /\ UNCHANGED <<canaryVars, program>>
CanaryTurn == program = "canary" /\ CanaryNext /\ UNCHANGED <<auditVars, program>>

ChecksNext == AuditTurn \/ CanaryTurn

ChecksFairness == program = "audit" => AuditFairness

ChecksSpec == ChecksInit /\ [][ChecksNext]_checksVars /\ ChecksFairness

(* Every variable of both programs keeps its type. *)
ChecksTypeOK == AuditTypeOK /\ CanaryTypeOK

(* Every audit that is not killed ends, however many calls fail. *)
AuditEnds == program = "audit" => EveryAuditEnds
=============================================================================
