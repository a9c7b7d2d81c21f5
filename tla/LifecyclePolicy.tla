-------------------------- MODULE LifecyclePolicy --------------------------
(***************************************************************************)
(* The lifecycle policy: evaluate_local of policy/decisions.py, the Rego   *)
(* of src/policies/rego/lifecycle.rego, and PolicyEngine.evaluate, which   *)
(* consults both.  A request is a record of the action, the subject, the   *)
(* mode, the provider, and the set of facts it claims: the boolean fields  *)
(* of PolicyInput that are true, with freeze_fields among them.            *)
(***************************************************************************)
EXTENDS FiniteSets

APPROVED_PROVIDERS == {"openai", "deepseek", "anthropic", "gemini", "mock"}

Actions ==
  {"run_calibration", "run_stage1", "run_stage2_dev", "run_stage2_test",
   "run_experiment_c", "run_multihop", "run_demo_synthetic",
   "mutate_frozen_parameter", "enable_guardrails_in_inference"}

real_stages ==
  {"run_stage1", "run_stage2_dev", "run_stage2_test", "run_experiment_c", "run_multihop"}
post_gate == real_stages \ {"run_stage1"}
calibration_dependent == {"run_stage2_dev", "run_stage2_test"}

(* FINAL_TEST_FREEZE_REQUIREMENTS, keys of freeze_fields.                   *)
FreezeRequirements ==
  {"frozen_relay_model", "frozen_receiver_model", "frozen_causalrelay",
   "frozen_calibration", "frozen_focal_sampling", "frozen_renderer",
   "frozen_matcher", "frozen_sota_revisions", "frozen_analysis_revision",
   "frozen_bootstrap", "frozen_source_manifest", "frozen_test_manifest",
   "frozen_final_test_freeze"}

(* The reasons of evaluate_local, each with the condition it is added on.   *)
deny(r) ==
  (IF r.provider \in APPROVED_PROVIDERS THEN {} ELSE {"provider"})
  \union (IF r.subject = "browser" /\ r.action # "run_demo_synthetic" THEN {"browser"} ELSE {})
  \union (IF r.action = "mutate_frozen_parameter" THEN {"immutable"} ELSE {})
  \union (IF r.action = "enable_guardrails_in_inference" THEN {"guardrails"} ELSE {})
  \union (IF r.action = "run_demo_synthetic" /\ r.mode # "DEMO_MODE" THEN {"demo mode"} ELSE {})
  \union (IF r.action \in real_stages
            THEN {"protocol_freeze_present", "relay_model_pinned", "receiver_model_pinned"} \ r.facts
            ELSE {})
  \union (IF r.action \in post_gate THEN {"stage1_gate_passed"} \ r.facts ELSE {})
  \union (IF r.action \in calibration_dependent
            THEN {"calibration_parameters_resolved"} \ r.facts ELSE {})
  \union (IF r.action = "run_stage2_test" THEN FreezeRequirements \ r.facts ELSE {})

Decision(allow, engine) == [allow |-> allow, engine |-> engine]
evaluate_local(r) == Decision(deny(r) = {}, "local-mirror")

(* What OPA's process may come to: no binary or no policy directory, an     *)
(* answer, or an exception (a time-out, an exit code, a malformed answer).  *)
OpaOutcomes == {"absent", "allow", "deny", "raises"}

(* PolicyEngine.evaluate *)
evaluate(r, opa) ==
  LET local == evaluate_local(r)
  IN IF opa \in {"absent", "raises"} THEN local
     ELSE IF (opa = "allow") # local.allow THEN Decision(FALSE, "disagreement")
     ELSE Decision(opa = "allow", "opa")

(* lifecycle.rego, its rules in the order of the file: what the shipped     *)
(* bundle answers when OPA runs.  An input field that is missing or false   *)
(* makes "not input.f" true.                                                *)
RegoDenies(r) ==
  \/ r.provider \notin APPROVED_PROVIDERS
  \/ r.subject = "browser" /\ r.action \notin {"run_demo_synthetic"}
  \/ r.action \in {"mutate_frozen_parameter", "enable_guardrails_in_inference"}
  \/ r.action = "run_demo_synthetic" /\ r.mode # "DEMO_MODE"
  \/ r.action \in real_stages /\ \E f \in {"protocol_freeze_present", "relay_model_pinned",
                                           "receiver_model_pinned"} : f \notin r.facts
  \/ r.action \in post_gate /\ "stage1_gate_passed" \notin r.facts
  \/ r.action \in calibration_dependent /\ "calibration_parameters_resolved" \notin r.facts
  \/ r.action = "run_stage2_test" /\ \E f \in FreezeRequirements : f \notin r.facts

lifecycle_rego(r) == IF RegoDenies(r) THEN "deny" ELSE "allow"
=============================================================================
