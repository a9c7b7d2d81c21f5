--------------------------- MODULE StudyLifecycle ---------------------------
(***************************************************************************)
(* Freeze records and guarded stages: scripts/make_freeze_record.py,       *)
(* provenance/freeze.py, stages/{spec,guards,runners}.py, causal/gates.py  *)
(* and the run, freeze-verify commands of cli.py.                          *)
(*                                                                         *)
(* The operator pins models in the environment, freezes records, verifies  *)
(* them and asks for stages, either through the command line or by calling *)
(* the runners from Python, in any order.  A Python caller may hand a      *)
(* runner Settings of its own, older than the environment or never read    *)
(* from it, and a GateResult of its own.  The sealed test manifest is an   *)
(* artefact that another program may write again.                          *)
(*                                                                         *)
(* A record keeps the two model fields, the version of the test manifest   *)
(* it names, and whether all other fields are filled.                      *)
(***************************************************************************)
EXTENDS Integers, FiniteSets, Sequences

CONSTANTS
  Pinned,      (* exact model identifiers                                   *)
  MaxManifest  (* bound: versions of the sealed test manifest               *)

UNFROZEN == "UNFROZEN"

ASSUME LifecycleAssumption ==
  /\ UNFROZEN \notin Pinned /\ IsFiniteSet(Pinned)
  /\ MaxManifest \in Nat \ {0}

Models == Pinned \union {UNFROZEN}
Settings == [{"relay_model", "receiver_model"} -> Models]
Kinds == {"protocol", "final_test"}
Paths == {"protocol.json", "test.json"}
Stages == {"CALIBRATION", "STAGE1", "STAGE2_DEV", "STAGE2_TEST", "EXPERIMENT_C", "MULTIHOP"}

VARIABLES
  settings,  (* relay_model and receiver_model of the environment           *)
  record,    (* per path: the freeze record on disk                         *)
  manifest,  (* version of the sealed test manifest on disk                 *)
  gate,      (* the GateResult a Python caller holds, or "none"             *)
  last       (* the last command, its answer and what it was answered on    *)

vars == <<settings, record, manifest, gate, last>>

Idle == [command |-> "none"]
-----------------------------------------------------------------------------
(* Mutant: experiment C needs no gate. *)
SpecWithoutGate == [s \in Stages |->
  [protocol |-> s # "CALIBRATION", test |-> s = "STAGE2_TEST", gate |-> s = "STAGE2_TEST"]]

(* requires_protocol_freeze, requires_test_freeze and requires_gate_passed. *)
STAGES == [s \in Stages |->
  [protocol |-> s # "CALIBRATION",
   test |-> s = "STAGE2_TEST",
   gate |-> s \in {"STAGE2_DEV", "STAGE2_TEST", "EXPERIMENT_C", "MULTIHOP"}]]

require_frozen_models(env) ==
  env.relay_model # UNFROZEN /\ env.receiver_model # UNFROZEN

(* Percent: prior pass on one eligible class or reconstruction. *)
RECONSTRUCTION_GATE == 10
PRIOR_GATE == 10
EligibleClasses == {"scope", "period", "numeric"}
evaluate_stage1_gate(recon, prior) ==
  \/ \E c \in EligibleClasses \intersect DOMAIN prior : prior[c] >= PRIOR_GATE
  \/ recon >= RECONSTRUCTION_GATE

(* run_stage1's records and prior effects are constants of the program. *)
MockEffects == [period |-> 15, numeric |-> 12, scope |-> 8]
MockReconstruction == 20
MockGate ==
  IF evaluate_stage1_gate(MockReconstruction, MockEffects) THEN "proceed" ELSE "halt"
-----------------------------------------------------------------------------
(* The records. *)
Absent == [state |-> "absent"]
Torn == [state |-> "torn"]
Exists(r) == r.state # "absent"

NewRecord(kind, models, filled) ==
  [state |-> "whole", kind |-> kind, models |-> models, filled |-> filled,
   manifest |-> manifest]

(* missing(): a field is unfilled, or filled with UNFROZEN, TBD, PROPOSED. *)
Missing(r) ==
  {f \in {"relay_model", "receiver_model"} : r.models[f] = UNFROZEN}
  \union (IF r.filled THEN {} ELSE {"other"})

(* Mutant: an incomplete record is written too. *)
FreezeUnchecked(path, r) ==
  /\ record' = [record EXCEPT ![path] = r] /\ last' = Idle

(* FreezeDocument.write: validate first, then write_text. *)
FreezeWrite(path, r) ==
  IF Missing(r) # {}
    THEN record' = record /\ last' = [command |-> "freeze", answer |-> "REFUSED"]
    ELSE record' = [record EXCEPT ![path] = r] /\ last' = Idle

(* make_freeze_record: fields from the settings, --set overrides them. *)
MakeFreezeRecord(kind, path) ==
  \E dry \in BOOLEAN, filled \in BOOLEAN, over \in {{}} \union {{p} : p \in Pinned} :
    LET models == [f \in {"relay_model", "receiver_model"} |->
                     IF over = {} THEN settings[f] ELSE CHOOSE p \in over : TRUE]
        r == NewRecord(kind, models, filled)
    IN /\ IF dry THEN record' = record /\ last' = Idle ELSE FreezeWrite(path, r)
       /\ UNCHANGED <<settings, manifest, gate>>

(* The process dies inside write_text of a record that validated. *)
FreezeCrash(path) ==
  /\ require_frozen_models(settings)
  /\ record' = [record EXCEPT ![path] = Torn]
  /\ last' = Idle
  /\ UNCHANGED <<settings, manifest, gate>>

(* verify_record; referenced names the test manifest, or nothing. *)
verify_record(r, referenced) ==
  /\ r.state = "whole" /\ Missing(r) = {}
  /\ referenced => r.manifest = manifest

(* freeze-verify passes no referenced artefacts. *)
FreezeVerify(path) ==
  /\ last' = [command |-> "verify", path |-> path,
              answer |-> IF verify_record(record[path], FALSE) THEN "VALID" ELSE "INVALID"]
  /\ UNCHANGED <<settings, record, manifest, gate>>
-----------------------------------------------------------------------------
(* guards.authorise: the first check that fails, in its order. *)
authorise(stage, args) ==
  CASE ~args.execute -> "DryRunOnly"
    [] ~require_frozen_models(args.settings) -> "UnfrozenModelError"
    [] STAGES[stage].protocol /\ ~(args.protocol # "none" /\ Exists(record[args.protocol])) -> "no protocol freeze"
    [] STAGES[stage].test /\ ~(args.test # "none" /\ Exists(record[args.test])) -> "no test freeze"
    [] STAGES[stage].gate /\ args.gate = "none" -> "no gate"
    [] STAGES[stage].gate /\ args.gate = "halt" -> "gate did not pass"
    [] OTHER -> "authorised"

(* What the stage's runner does with its arguments. *)
Outcome(stage, args) ==
  CASE ~args.execute /\ ~args.mock -> "DRY_RUN"
    [] args.mock -> "MOCK_VERIFIED"
    [] authorise(stage, args) = "authorised" -> "EXECUTED"
    [] OTHER -> authorise(stage, args)

(* The stage answers, or the guard's exception reaches the caller.  Another  *)
(* command is asked after its answer is read, in an environment that is as   *)
(* it was or pinned anew (Pin).                                              *)
RunStage(stage, args) ==
  /\ last = Idle
  /\ last' =
       [command |-> stage, answer |-> Outcome(stage, args), via |-> args.via,
        settings |-> args.settings, gate |-> args.gate,
        test |-> IF args.test = "none" THEN Absent ELSE record[args.test]]
  /\ UNCHANGED <<settings, record, manifest>>

(* Who calls a runner, with which switches and with which Settings: the      *)
(* command line leaves the runner to load those of the environment, a Python *)
(* caller may hand it any.                                                   *)
Callers ==
  [via : {"cli"}, execute : BOOLEAN, mock : BOOLEAN, settings : {settings}]
  \union [via : {"python"}, execute : BOOLEAN, mock : BOOLEAN, settings : Settings]

(* The runners; each hands its own selection of arguments to the guard. *)
Args(c, protocol, test, g) ==
  [via |-> c.via, execute |-> c.execute, mock |-> c.mock, settings |-> c.settings,
   protocol |-> protocol, test |-> test, gate |-> g]

(* The gate_result of a call: _cmd_run passes none, a Python caller the one  *)
(* it holds.                                                                 *)
HeldGate(c) == IF c.via = "cli" THEN "none" ELSE gate

RunCalibration == \E c \in Callers :
  RunStage("CALIBRATION", Args(c, "none", "none", "none")) /\ UNCHANGED gate

(* Its result carries the gate, mock or not. *)
RunStage1 == \E c \in Callers, p \in Paths \union {"none"} :
  /\ RunStage("STAGE1", Args(c, p, "none", "none"))
  /\ gate' = IF c.via = "python" /\ last'.answer \in {"MOCK_VERIFIED", "EXECUTED"}
             THEN MockGate ELSE gate

(* A caller evaluates the gate on effects of its own, builds a GateResult,   *)
(* or lets go of the one it holds.                                           *)
BuildGate ==
  /\ gate' \in {"none", "proceed", "halt"} /\ last' = Idle
  /\ UNCHANGED <<settings, record, manifest>>

RunStage2Dev == \E c \in Callers, p \in Paths \union {"none"} :
  RunStage("STAGE2_DEV", Args(c, p, "none", "none")) /\ UNCHANGED gate

RunStage2Test == \E c \in Callers, p, t \in Paths \union {"none"} :
  RunStage("STAGE2_TEST", Args(c, p, t, HeldGate(c))) /\ UNCHANGED gate

RunExperimentC == \E c \in Callers, p \in Paths \union {"none"} :
  RunStage("EXPERIMENT_C", Args(c, p, "none", HeldGate(c))) /\ UNCHANGED gate

RunMultihop == \E c \in Callers, p \in Paths \union {"none"} :
  RunStage("MULTIHOP", Args(c, p, "none", HeldGate(c))) /\ UNCHANGED gate
-----------------------------------------------------------------------------
Init ==
  /\ settings = [relay_model |-> UNFROZEN, receiver_model |-> UNFROZEN]
  /\ record = [p \in Paths |-> Absent] /\ manifest = 1
  /\ gate = "none" /\ last = Idle

(* The environment of the next command, new or as it was. *)
Pin ==
  /\ settings' \in Settings
  /\ last' = Idle
  /\ UNCHANGED <<record, manifest, gate>>

(* build_source_pool_sec.py seals the test manifest again. *)
Reseal ==
  /\ manifest < MaxManifest /\ manifest' = manifest + 1 /\ last' = Idle
  /\ UNCHANGED <<settings, record, gate>>

Next ==
  \/ Pin \/ Reseal
  \/ \E p \in Paths : FreezeVerify(p) \/ FreezeCrash(p) \/ \E k \in Kinds : MakeFreezeRecord(k, p)
  \/ RunCalibration \/ RunStage1 \/ BuildGate \/ RunStage2Dev \/ RunStage2Test
  \/ RunExperimentC \/ RunMultihop

Spec == Init /\ [][Next]_vars
-----------------------------------------------------------------------------
PostGate == {s \in Stages : s \notin {"CALIBRATION", "STAGE1"}}
Executed == last.command \in Stages /\ last.answer = "EXECUTED"

(* Every variable keeps its type. *)
TypeOK ==
  /\ settings \in Settings
  /\ \A p \in Paths : record[p].state \in {"absent", "torn", "whole"}
  /\ manifest \in 1 .. MaxManifest
  /\ gate \in {"none", "proceed", "halt"}
  /\ last.command \in {"none", "freeze", "verify"} \union Stages

(* A stage is executed only with Settings that pin both models, and from    *)
(* the command line only while the environment pins them.  The Settings of *)
(* a Python caller need not be those of the environment any more.          *)
NothingRunsUnpinned ==
  Executed =>
    /\ require_frozen_models(last.settings)
    /\ last.via = "cli" => require_frozen_models(settings)

(* A whole record on disk has no unfilled field, whatever was refused,      *)
(* overridden or killed before it: a placeholder never becomes a freeze.    *)
RecordsAreFilled == \A p \in Paths : record[p].state = "whole" => Missing(record[p]) = {}

(* A post-gate stage is executed only by a Python caller that holds a gate  *)
(* result which says proceed; the guard does not ask who made it.  The      *)
(* command line has no way past the gate, and no one executes the          *)
(* development split, whose runner takes no gate.                          *)
GateBeforePostGate ==
  Executed /\ last.command \in PostGate =>
    /\ last.via = "python" /\ gate = "proceed"
    /\ last.command # "STAGE2_DEV"

(* No stage is executed that its specification does not allow: the Settings  *)
(* it runs with pin both models, and where a gate is due its caller holds    *)
(* one that passed, whatever was repinned, frozen or built before.           *)
NothingRunsUnauthorised == NothingRunsUnpinned /\ GateBeforePostGate

(* freeze-verify answers VALID of exactly the records that were written to   *)
(* their end: no torn file passes, and the program that writes them lets no *)
(* placeholder through that the verifier would find later.                  *)
ValidMeansWritten ==
  last.command = "verify" =>
    (last.answer = "VALID" <=> record[last.path].state = "whole")

(* provenance/freeze.py:14 "No final-test runner may execute without a valid *)
(* test freeze record": the record a final test ran on was written to its *)
(* end, is a final-test record, and names the manifest that is on disk.     *)
FinalTestOnValidRecord ==
  Executed /\ last.command = "STAGE2_TEST" =>
    last.test.state = "whole" /\ last.test.kind = "final_test" /\ last.test.manifest = manifest
=============================================================================
