------------------------- MODULE ControlPlaneProofs -------------------------
(* What the control plane promises, for every set of model and run           *)
(* identifiers and whatever an operator or a client does in whatever order:  *)
(* the two forms of the lifecycle policy say the same of every request; no   *)
(* stage is executed that its specification does not allow; freeze-verify    *)
(* vouches for whole records only; a page of the demo shows the parts of one *)
(* run, and a server in research mode holds none.  MCControlPlane puts both  *)
(* interfaces into one behaviour: it implements each of them.                *)
EXTENDS MCControlPlane, TLAPS

(* The reasons of evaluate_local are empty exactly when no deny rule of      *)
(* lifecycle.rego fires: the Python mirror and the bundle agree, for every   *)
(* action, subject, mode, provider and set of facts.                         *)
THEOREM MirrorAgreesWithRego ==
  ASSUME NEW r
  PROVE  deny(r) = {} <=> ~RegoDenies(r)
<1>1. ASSUME RegoDenies(r) PROVE deny(r) # {}
  <2>1. CASE r.provider \notin APPROVED_PROVIDERS
    <3>1. "provider" \in deny(r)
      BY <2>1 DEF deny
    <3>. QED
      BY <3>1
  <2>2. CASE r.subject = "browser" /\ r.action # "run_demo_synthetic"
    <3>1. "browser" \in deny(r)
      BY <2>2 DEF deny
    <3>. QED
      BY <3>1
  <2>3. CASE r.action = "mutate_frozen_parameter"
    <3>1. "immutable" \in deny(r)
      BY <2>3 DEF deny
    <3>. QED
      BY <3>1
  <2>4. CASE r.action = "enable_guardrails_in_inference"
    <3>1. "guardrails" \in deny(r)
      BY <2>4 DEF deny
    <3>. QED
      BY <3>1
  <2>5. CASE r.action = "run_demo_synthetic" /\ r.mode # "DEMO_MODE"
    <3>1. "demo mode" \in deny(r)
      BY <2>5 DEF deny
    <3>. QED
      BY <3>1
  <2>6. ASSUME r.action \in real_stages,
               NEW f \in {"protocol_freeze_present", "relay_model_pinned", "receiver_model_pinned"},
               f \notin r.facts
        PROVE  deny(r) # {}
    <3>1. f \in deny(r)
      BY <2>6 DEF deny
    <3>. QED
      BY <3>1
  <2>7. CASE r.action \in post_gate /\ "stage1_gate_passed" \notin r.facts
    <3>1. "stage1_gate_passed" \in deny(r)
      BY <2>7 DEF deny
    <3>. QED
      BY <3>1
  <2>8. CASE r.action \in calibration_dependent /\ "calibration_parameters_resolved" \notin r.facts
    <3>1. "calibration_parameters_resolved" \in deny(r)
      BY <2>8 DEF deny
    <3>. QED
      BY <3>1
  <2>9. ASSUME r.action = "run_stage2_test", NEW f \in FreezeRequirements, f \notin r.facts
        PROVE  deny(r) # {}
    <3>1. f \in deny(r)
      BY <2>9 DEF deny
    <3>. QED
      BY <3>1
  <2>. QED
    BY <1>1, <2>1, <2>2, <2>3, <2>4, <2>5, <2>6, <2>7, <2>8, <2>9 DEF RegoDenies
<1>2. ASSUME ~RegoDenies(r) PROVE deny(r) = {}
  <2>. SUFFICES ASSUME NEW reason \in deny(r) PROVE FALSE
    OBVIOUS
  <2>. QED
    BY <1>2 DEF deny, RegoDenies
<1>. QED
  BY <1>1, <1>2

(* Whatever OPA's process comes to, PolicyEngine allows nothing that the     *)
(* local evaluation denies.                                                  *)
THEOREM EngineNeverWidens ==
  ASSUME NEW r, NEW o \in OpaOutcomes, evaluate(r, o).allow
  PROVE  evaluate_local(r).allow
<1>1. CASE o \in {"absent", "raises"}
  BY <1>1 DEF evaluate
<1>2. CASE o \in {"allow", "deny"}
  BY <1>2 DEF evaluate, Decision, evaluate_local
<1>. QED
  BY <1>1, <1>2 DEF OpaOutcomes

(* With the shipped bundle the two engines never disagree: what PolicyEngine *)
(* answers is what either of them says, so an OPA that appears or disappears *)
(* between two requests changes no decision.                                 *)
THEOREM EnginesNeverDisagree ==
  ASSUME NEW r
  PROVE  evaluate(r, lifecycle_rego(r)).allow <=> evaluate_local(r).allow
<1>1. CASE RegoDenies(r)
  <2>1. lifecycle_rego(r) = "deny" /\ deny(r) # {}
    BY <1>1, MirrorAgreesWithRego DEF lifecycle_rego
  <2>. QED
    BY <2>1 DEF evaluate, evaluate_local, Decision
<1>2. CASE ~RegoDenies(r)
  <2>1. lifecycle_rego(r) = "allow" /\ deny(r) = {}
    BY <1>2, MirrorAgreesWithRego DEF lifecycle_rego
  <2>. QED
    BY <2>1 DEF evaluate, evaluate_local, Decision
<1>. QED
  BY <1>1, <1>2
-----------------------------------------------------------------------------
StageRuns ==
  RunCalibration \/ RunStage1 \/ RunStage2Dev \/ RunStage2Test \/ RunExperimentC \/ RunMultihop

(* An executed stage was authorised: the Settings it was given pin both      *)
(* models, and a gate that is due is there and says proceed.                *)
LEMMA ExecutedIsAuthorised ==
  ASSUME NEW stage \in Stages, NEW args, Outcome(stage, args) = "EXECUTED"
  PROVE  /\ require_frozen_models(args.settings)
         /\ STAGES[stage].gate => args.gate # "none" /\ args.gate # "halt"
<1>1. authorise(stage, args) = "authorised" \/ authorise(stage, args) = "EXECUTED"
  BY DEF Outcome
<1>2. require_frozen_models(args.settings)
  BY <1>1 DEF authorise
<1>3. STAGES[stage].gate => args.gate # "none" /\ args.gate # "halt"
  BY <1>1 DEF authorise
<1>. QED
  BY <1>2, <1>3

(* What any runner leaves behind: the answer of Outcome for its arguments.  *)
LEMMA RunLeaves ==
  ASSUME NEW stage \in Stages, NEW args, RunStage(stage, args)
  PROVE  /\ last'.command = stage /\ last'.answer = Outcome(stage, args)
         /\ last'.via = args.via /\ last'.settings = args.settings
         /\ settings' = settings
BY DEF RunStage

(* A caller of the command line hands the runner what the environment says.  *)
LEMMA CallerSettings ==
  ASSUME NEW c \in Callers
  PROVE  /\ c.via \in {"cli", "python"}
         /\ c.via = "cli" => c.settings = settings
BY DEF Callers

(* Whichever runner is called, what it executes it was given pinned Settings *)
(* for.                                                                     *)
LEMMA RunIsPinned ==
  ASSUME NEW stage \in Stages, NEW c \in Callers, NEW p, NEW t, NEW g,
         RunStage(stage, Args(c, p, t, g))
  PROVE  NothingRunsUnpinned'
<1>. DEFINE args == Args(c, p, t, g)
<1>1. /\ last'.answer = Outcome(stage, args) /\ last'.via = args.via
      /\ last'.settings = args.settings /\ settings' = settings
  BY RunLeaves
<1>2. args.via = c.via /\ args.settings = c.settings
  BY DEF Args
<1>. HIDE DEF args
<1>3. last'.answer = "EXECUTED" => require_frozen_models(args.settings)
  BY <1>1, ExecutedIsAuthorised
<1>. QED
  BY <1>1, <1>2, <1>3, CallerSettings DEF NothingRunsUnpinned, Executed, require_frozen_models

(* A post-gate runner keeps the invariant: what it hands to the guard as    *)
(* gate is what the caller holds, and a caller of the CLI holds none.       *)
LEMMA PostGateRun ==
  ASSUME NEW stage \in {"STAGE2_TEST", "EXPERIMENT_C", "MULTIHOP"},
         gate \in {"none", "proceed", "halt"},
         NEW c \in Callers, NEW p, NEW t,
         RunStage(stage, Args(c, p, t, HeldGate(c))),
         UNCHANGED gate
  PROVE  NothingRunsUnauthorised'
<1>. DEFINE args == Args(c, p, t, HeldGate(c))
<1>1. stage \in Stages /\ STAGES[stage].gate
  BY DEF Stages, STAGES
<1>2. last'.command = stage /\ last'.answer = Outcome(stage, args) /\ last'.via = args.via
  BY <1>1, RunLeaves
<1>3. args.via = c.via /\ args.gate = HeldGate(c)
  BY DEF Args
<1>4. ASSUME last'.answer = "EXECUTED"
      PROVE  c.via = "python" /\ gate = "proceed"
  <2>1. args.gate # "none" /\ args.gate # "halt"
    BY <1>1, <1>2, <1>4, ExecutedIsAuthorised
  <2>. QED
    BY <2>1, <1>3, CallerSettings DEF HeldGate
<1>5. NothingRunsUnpinned'
  BY <1>1, RunIsPinned
<1>6. GateBeforePostGate'
  BY <1>2, <1>3, <1>4 DEF GateBeforePostGate, Executed
<1>. QED
  BY <1>5, <1>6 DEF NothingRunsUnauthorised

LEMMA StageRunStep ==
  ASSUME gate \in {"none", "proceed", "halt"}, StageRuns
  PROVE  NothingRunsUnauthorised'
<1>1. CASE RunCalibration
  <2>1. PICK c \in Callers : RunStage("CALIBRATION", Args(c, "none", "none", "none"))
    BY <1>1 DEF RunCalibration
  <2>2. "CALIBRATION" \in Stages
    BY DEF Stages
  <2>3. last'.command = "CALIBRATION" /\ NothingRunsUnpinned'
    BY <2>1, <2>2, RunLeaves, RunIsPinned
  <2>. QED
    BY <2>3 DEF NothingRunsUnauthorised, GateBeforePostGate, PostGate
<1>2. CASE RunStage1
  <2>1. PICK c \in Callers, p \in Paths \union {"none"} :
          RunStage("STAGE1", Args(c, p, "none", "none"))
    BY <1>2 DEF RunStage1
  <2>2. "STAGE1" \in Stages
    BY DEF Stages
  <2>3. last'.command = "STAGE1" /\ NothingRunsUnpinned'
    BY <2>1, <2>2, RunLeaves, RunIsPinned
  <2>. QED
    BY <2>3 DEF NothingRunsUnauthorised, GateBeforePostGate, PostGate
<1>3. CASE RunStage2Dev
  <2>1. PICK c \in Callers, p \in Paths \union {"none"} :
          RunStage("STAGE2_DEV", Args(c, p, "none", "none"))
    BY <1>3 DEF RunStage2Dev
  <2>2. "STAGE2_DEV" \in Stages /\ STAGES["STAGE2_DEV"].gate
    BY DEF Stages, STAGES
  <2>3. last'.answer = Outcome("STAGE2_DEV", Args(c, p, "none", "none"))
    BY <2>1, <2>2, RunLeaves
  <2>4. last'.answer # "EXECUTED"
    BY <2>2, <2>3, ExecutedIsAuthorised DEF Args
  <2>. QED
    BY <2>4 DEF NothingRunsUnauthorised, NothingRunsUnpinned, GateBeforePostGate, Executed
<1>4. CASE RunStage2Test
  BY <1>4, PostGateRun DEF RunStage2Test
<1>5. CASE RunExperimentC
  BY <1>5, PostGateRun DEF RunExperimentC
<1>6. CASE RunMultihop
  BY <1>6, PostGateRun DEF RunMultihop
<1>. QED
  BY <1>1, <1>2, <1>3, <1>4, <1>5, <1>6 DEF StageRuns

(* Every other command leaves an answer that is no executed stage.          *)
LEMMA OtherStep ==
  ASSUME \/ Pin \/ Reseal \/ BuildGate
         \/ \E p \in Paths : FreezeVerify(p) \/ FreezeCrash(p) \/ \E k \in Kinds : MakeFreezeRecord(k, p)
  PROVE  NothingRunsUnauthorised'
<1>2. last'.command \in {"none", "freeze", "verify"}
  <2>1. CASE Pin \/ Reseal \/ BuildGate
    BY <2>1 DEF Pin, Reseal, BuildGate, Idle
  <2>2. ASSUME NEW p \in Paths, FreezeVerify(p)
        PROVE  last'.command = "verify"
    <3>. DEFINE answer == IF verify_record(record[p], FALSE) THEN "VALID" ELSE "INVALID"
    <3>1. last' = [command |-> "verify", path |-> p, answer |-> answer]
      BY <2>2 DEF FreezeVerify
    <3>. HIDE DEF answer
    <3>. QED
      BY <3>1
  <2>3. ASSUME NEW p \in Paths, FreezeCrash(p)
        PROVE  last'.command = "none"
    BY <2>3 DEF FreezeCrash, Idle
  <2>4. ASSUME NEW p \in Paths, NEW k \in Kinds, MakeFreezeRecord(k, p)
        PROVE  last'.command \in {"none", "freeze"}
    BY <2>4 DEF MakeFreezeRecord, FreezeWrite, Idle
  <2>. QED
    BY <2>1, <2>2, <2>3, <2>4
<1>3. ~Executed'
  BY <1>2 DEF Executed, Stages
<1>. QED
  BY <1>3 DEF NothingRunsUnauthorised, NothingRunsUnpinned, GateBeforePostGate

(* What a caller holds as a gate is one of the things a guard can be given.  *)
GateTyped == gate \in {"none", "proceed", "halt"}

LEMMA GateStaysTyped == GateTyped /\ [Next]_vars => GateTyped'
<1>1. Pin \/ Reseal \/ BuildGate \/ UNCHANGED vars => gate' \in {gate, "none", "proceed", "halt"}
  BY DEF Pin, Reseal, BuildGate, vars
<1>2. ASSUME NEW p \in Paths,
             FreezeVerify(p) \/ FreezeCrash(p) \/ \E k \in Kinds : MakeFreezeRecord(k, p)
      PROVE  gate' = gate
  BY <1>2 DEF FreezeVerify, FreezeCrash, MakeFreezeRecord
<1>3. StageRuns => gate' \in {gate, "proceed", "halt"}
  BY DEF StageRuns, RunCalibration, RunStage1, RunStage2Dev, RunStage2Test, RunExperimentC,
         RunMultihop, MockGate
<1>. QED
  BY <1>1, <1>2, <1>3 DEF GateTyped, Next, StageRuns

(* No stage is executed with Settings that leave a model unpinned, nor past  *)
(* a gate its caller does not hold, whoever made the Settings and the gate  *)
(* result, and whatever records were written, refused, torn or verified     *)
(* before it (guards.py, authorise; runners.py).                            *)
THEOREM OnlyAuthorisedStagesRun == Spec => []NothingRunsUnauthorised
<1>. DEFINE Inv == GateTyped /\ NothingRunsUnauthorised
<1>1. Init => Inv
  BY DEF Init, Idle, GateTyped, NothingRunsUnauthorised, NothingRunsUnpinned,
         GateBeforePostGate, Executed, Stages
<1>2. Inv /\ [Next]_vars => Inv'
  <2>. SUFFICES ASSUME Inv, [Next]_vars PROVE NothingRunsUnauthorised'
    BY GateStaysTyped
  <2>1. CASE StageRuns
    BY <2>1, StageRunStep DEF GateTyped
  <2>2. CASE \/ Pin \/ Reseal \/ BuildGate
             \/ \E p \in Paths : FreezeVerify(p) \/ FreezeCrash(p) \/ \E k \in Kinds : MakeFreezeRecord(k, p)
    BY <2>2, OtherStep
  <2>3. CASE UNCHANGED vars
    BY <2>3 DEF vars, NothingRunsUnauthorised, NothingRunsUnpinned,
                GateBeforePostGate, Executed, require_frozen_models
  <2>. QED
    BY <2>1, <2>2, <2>3 DEF Next, StageRuns
<1>3. Inv => NothingRunsUnauthorised
  OBVIOUS
<1>. QED
  BY <1>1, <1>2, <1>3, PTL DEF Spec
-----------------------------------------------------------------------------
(* What is written whole was validated before, and nothing else writes.      *)
FilesAreFilled == DOMAIN record = Paths /\ RecordsAreFilled

LEMMA RecordsStayFilled ==
  ASSUME FilesAreFilled, [Next]_vars
  PROVE  FilesAreFilled'
<1>1. ASSUME NEW p \in Paths, NEW k \in Kinds, MakeFreezeRecord(k, p)
      PROVE  FilesAreFilled'
  <2>1. ASSUME NEW r, FreezeWrite(p, r)
        PROVE  FilesAreFilled'
    BY <2>1 DEF FreezeWrite, FilesAreFilled, RecordsAreFilled, Missing
  <2>2. CASE record' = record
    BY <2>2 DEF FilesAreFilled, RecordsAreFilled, Missing
  <2>. QED
    BY <1>1, <2>1, <2>2 DEF MakeFreezeRecord
<1>2. ASSUME NEW p \in Paths, FreezeCrash(p) PROVE FilesAreFilled'
  BY <1>2 DEF FreezeCrash, FilesAreFilled, RecordsAreFilled, Torn, Missing
<1>3. CASE record' = record
  BY <1>3 DEF FilesAreFilled, RecordsAreFilled, Missing
<1>4. StageRuns => record' = record
  BY DEF StageRuns, RunCalibration, RunStage1, RunStage2Dev, RunStage2Test, RunExperimentC,
         RunMultihop, RunStage
<1>5. Pin \/ Reseal \/ BuildGate \/ (\E p \in Paths : FreezeVerify(p)) \/ UNCHANGED vars
        => record' = record
  BY DEF Pin, Reseal, BuildGate, FreezeVerify, vars
<1>. QED
  BY <1>1, <1>2, <1>3, <1>4, <1>5 DEF Next, StageRuns

(* The verifier and the writer agree: VALID is the answer for exactly the    *)
(* records that were written to their end, and it is void as soon as        *)
(* anything else is done (provenance/freeze.py, write and verify_record).   *)
THEOREM ValidVouches == Spec => []ValidMeansWritten
<1>. DEFINE Inv == FilesAreFilled /\ ValidMeansWritten
<1>1. Init => Inv
  BY DEF Init, Idle, Absent, FilesAreFilled, RecordsAreFilled, ValidMeansWritten
<1>2. Inv /\ [Next]_vars => Inv'
  <2>. SUFFICES ASSUME Inv, [Next]_vars PROVE ValidMeansWritten'
    BY RecordsStayFilled
  <2>1. ASSUME NEW p \in Paths, FreezeVerify(p)
        PROVE  ValidMeansWritten'
    <3>. DEFINE answer == IF verify_record(record[p], FALSE) THEN "VALID" ELSE "INVALID"
    <3>1. last' = [command |-> "verify", path |-> p, answer |-> answer] /\ record' = record
      BY <2>1 DEF FreezeVerify
    <3>2. answer = "VALID" <=> record[p].state = "whole"
      BY DEF verify_record, FilesAreFilled, RecordsAreFilled
    <3>. HIDE DEF answer
    <3>. QED
      BY <3>1, <3>2 DEF ValidMeansWritten
  <2>2. CASE Pin \/ Reseal \/ BuildGate
    BY <2>2 DEF Pin, Reseal, BuildGate, Idle, ValidMeansWritten
  <2>3. ASSUME NEW p \in Paths, FreezeCrash(p) PROVE ValidMeansWritten'
    BY <2>3 DEF FreezeCrash, Idle, ValidMeansWritten
  <2>4. ASSUME NEW p \in Paths, NEW k \in Kinds, MakeFreezeRecord(k, p)
        PROVE  ValidMeansWritten'
    <3>1. last'.command \in {"none", "freeze"}
      BY <2>4 DEF MakeFreezeRecord, FreezeWrite, Idle
    <3>. QED
      BY <3>1 DEF ValidMeansWritten
  <2>5. CASE StageRuns
    <3>1. ASSUME NEW stage \in Stages, NEW args, RunStage(stage, args)
          PROVE  last'.command # "verify"
      BY <3>1, RunLeaves DEF Stages
    <3>2. last'.command # "verify"
      BY <2>5, <3>1 DEF StageRuns, Stages, RunCalibration, RunStage1, RunStage2Dev,
                        RunStage2Test, RunExperimentC, RunMultihop
    <3>. QED
      BY <3>2 DEF ValidMeansWritten
  <2>6. CASE UNCHANGED vars
    BY <2>6 DEF vars, ValidMeansWritten
  <2>. QED
    BY <2>1, <2>2, <2>3, <2>4, <2>5, <2>6 DEF Next, StageRuns
<1>3. Inv => ValidMeansWritten
  OBVIOUS
<1>. QED
  BY <1>1, <1>2, <1>3, PTL DEF Spec
-----------------------------------------------------------------------------
(* While a run is loading, a part of it is on its way, refused, or of that   *)
(* run.  The panes are only ever set all at once, from these.                *)
LoadIsOfOneRun ==
  loading # "none" => \A p \in Parts : parts[p] \in {"sent", "refused", loading}

PanesInv ==
  /\ parts \in [Parts -> {"idle", "sent", "refused"} \union RunIds \union {"none"}]
  /\ loading \in RunIds \union {"none"}
  /\ post \in {"idle", "sent", "refused"} \union RunIds
  /\ LoadIsOfOneRun
  /\ PanesShowOneRun

(* What a request that may start a run leaves of the page.                   *)
LEMMA ServePostLeavesPage ==
  ASSUME ServePost
  PROVE  /\ parts' = parts /\ loading' = loading /\ shown' = shown
         /\ post' \in {"refused"} \union RunIds
<1>1. parts' = parts /\ loading' = loading /\ shown' = shown
  BY DEF ServePost
<1>2. post' \in {"refused"} \union RunIds
  BY DEF ServePost, DemoRun
<1>. QED
  BY <1>1, <1>2

LEMMA PanesStep ==
  ASSUME PanesInv, [ServiceNext]_serviceVars
  PROVE  PanesInv'
<1>. USE DEF PanesInv
<1>1. CASE Capabilities
  BY <1>1 DEF Capabilities, LoadIsOfOneRun, PanesShowOneRun
<1>2. CASE StartDemo
  BY <1>2 DEF StartDemo, LoadIsOfOneRun, PanesShowOneRun
<1>3. CASE ServePost
  BY <1>3, ServePostLeavesPage DEF LoadIsOfOneRun, PanesShowOneRun
<1>4. CASE OtherPost
  BY <1>4 DEF OtherPost, client, LoadIsOfOneRun, PanesShowOneRun
<1>5. CASE PostAnswered
  <2>1. CASE post = "refused"
    BY <1>5, <2>1 DEF PostAnswered, LoadIsOfOneRun, PanesShowOneRun
  <2>2. CASE post # "refused"
    BY <1>5, <2>2 DEF PostAnswered, Waiting, Parts, LoadIsOfOneRun, PanesShowOneRun
  <2>. QED
    BY <2>1, <2>2
<1>6. ASSUME NEW p \in Parts, ServeGet(p) PROVE PanesInv'
  BY <1>6 DEF ServeGet, LoadIsOfOneRun, PanesShowOneRun
<1>7. CASE ShowRun
  <2>1. loading' = "none" /\ parts' = NotLoading /\ post' = post
    BY <1>7 DEF ShowRun
  <2>2. PanesShowOneRun'
    <3>1. CASE \E p \in Parts : parts[p] = "refused"
      BY <1>7, <3>1 DEF ShowRun, PanesShowOneRun
    <3>2. CASE \A p \in Parts : parts[p] # "refused"
      <4>1. \A p \in Parts : parts[p] = loading
        BY <1>7, <3>2 DEF ShowRun, LoadIsOfOneRun
      <4>2. \A x \in Panes : shown'[x] = loading
        BY <1>7, <3>2, <4>1 DEF ShowRun, Panes, Parts
      <4>. QED
        BY <4>2 DEF PanesShowOneRun
    <3>. QED
      BY <3>1, <3>2
  <2>. QED
    BY <2>1, <2>2 DEF NotLoading, LoadIsOfOneRun
<1>8. CASE RestartServer
  <2>1. loading' = loading /\ shown' = shown
    BY <1>8 DEF RestartServer
  <2>2. post' \in {"idle", "sent", "refused"} \union RunIds
    BY <1>8 DEF RestartServer
  <2>3. parts' \in [Parts -> {"idle", "sent", "refused"} \union RunIds \union {"none"}]
    BY <1>8 DEF RestartServer
  <2>4. LoadIsOfOneRun'
    BY <1>8, <2>1 DEF RestartServer, LoadIsOfOneRun
  <2>. QED
    BY <2>1, <2>2, <2>3, <2>4 DEF PanesShowOneRun
<1>9. CASE UNCHANGED serviceVars
  BY <1>9 DEF serviceVars, client, LoadIsOfOneRun, PanesShowOneRun
<1>. QED
  BY <1>1, <1>2, <1>3, <1>4, <1>5, <1>6, <1>7, <1>8, <1>9 DEF ServiceNext

(* The panes show the parts of one run, whatever requests are answered in    *)
(* which order and whenever the server is restarted.                         *)
THEOREM PanesAgree == ServiceSpec => []PanesShowOneRun
<1>1. ServiceInit => PanesInv
  BY DEF ServiceInit, PanesInv, NotLoading, Blank, LoadIsOfOneRun, PanesShowOneRun
<1>2. PanesInv /\ [ServiceNext]_serviceVars => PanesInv'
  BY PanesStep
<1>3. PanesInv => PanesShowOneRun
  BY DEF PanesInv
<1>. QED
  BY <1>1, <1>2, <1>3, PTL DEF ServiceSpec
-----------------------------------------------------------------------------
(* Research mode: the local evaluation denies, and OPA cannot overrule it.   *)
LEMMA ResearchModeRefuses ==
  ASSUME mode = "RESEARCH_MODE", NEW o \in OpaOutcomes
  PROVE  ~evaluate(DemoRequest, o).allow
<1>1. "demo mode" \in deny(DemoRequest)
  BY DEF deny, DemoRequest
<1>2. ~evaluate_local(DemoRequest).allow
  BY <1>1 DEF evaluate_local, Decision
<1>. QED
  BY <1>2 DEF evaluate, Decision, OpaOutcomes

LEMMA RunsKeptInResearchMode ==
  ASSUME mode = "RESEARCH_MODE", ServePost \/ OtherPost
  PROVE  runs' = runs /\ mode' = mode
<1>1. CASE ServePost
  BY <1>1, ResearchModeRefuses DEF ServePost, DemoRun
<1>2. CASE OtherPost
  BY <1>2, ResearchModeRefuses DEF OtherPost, DemoRun
<1>. QED
  BY <1>1, <1>2

LEMMA ModeKept ==
  ASSUME ServePost \/ OtherPost
  PROVE  mode' = mode
BY DEF ServePost, OtherPost, DemoRun

(* A server in research mode holds no demo run: neither a client with stale  *)
(* capabilities, nor an OPA that says yes, nor a restart puts one there.     *)
THEOREM ResearchModeIsEmpty == ServiceSpec => []DemoRunsNeedDemoMode
<1>1. ServiceInit => DemoRunsNeedDemoMode
  BY DEF ServiceInit, DemoRunsNeedDemoMode
<1>2. DemoRunsNeedDemoMode /\ [ServiceNext]_serviceVars => DemoRunsNeedDemoMode'
  <2>. SUFFICES ASSUME DemoRunsNeedDemoMode, [ServiceNext]_serviceVars
                PROVE  DemoRunsNeedDemoMode'
    OBVIOUS
  <2>1. CASE ServePost \/ OtherPost
    BY <2>1, RunsKeptInResearchMode, ModeKept DEF DemoRunsNeedDemoMode
  <2>2. CASE RestartServer
    BY <2>2 DEF RestartServer, DemoRunsNeedDemoMode
  <2>3. CASE \/ Capabilities \/ StartDemo \/ PostAnswered \/ ShowRun
             \/ \E p \in Parts : ServeGet(p)
    BY <2>3 DEF Capabilities, StartDemo, PostAnswered, ShowRun, ServeGet, server,
               DemoRunsNeedDemoMode
  <2>4. CASE UNCHANGED serviceVars
    BY <2>4 DEF serviceVars, server, DemoRunsNeedDemoMode
  <2>. QED
    BY <2>1, <2>2, <2>3, <2>4 DEF ServiceNext
<1>. QED
  BY <1>1, <1>2, PTL DEF ServiceSpec
-----------------------------------------------------------------------------
(* Taking turns, the command line and the service each follow their own     *)
(* specification: every theorem above is one about the plane that is run.    *)
THEOREM PlaneImplementsBoth == PlaneSpec => Spec /\ ServiceSpec
<1>1. PlaneInit => Init /\ ServiceInit
  BY DEF PlaneInit
<1>2. [PlaneNext]_planeVars => [Next]_vars /\ [ServiceNext]_serviceVars
  BY DEF PlaneNext, CliTurn, HttpTurn, planeVars
<1>. QED
  BY <1>1, <1>2, PTL DEF PlaneSpec, Spec, ServiceSpec

LEMMA CliTypes ==
  ASSUME TypeOK, DOMAIN record = Paths, [Next]_vars
  PROVE  TypeOK' /\ DOMAIN record' = Paths
<1>1. CASE Pin
  BY <1>1 DEF Pin, Idle, TypeOK
<1>2. CASE Reseal
  BY <1>2, LifecycleAssumption DEF Reseal, Idle, TypeOK
<1>8. CASE BuildGate
  BY <1>8 DEF BuildGate, Idle, TypeOK
<1>3. ASSUME NEW p \in Paths, FreezeVerify(p) PROVE TypeOK' /\ DOMAIN record' = Paths
  <2>. DEFINE answer == IF verify_record(record[p], FALSE) THEN "VALID" ELSE "INVALID"
  <2>1. /\ last' = [command |-> "verify", path |-> p, answer |-> answer]
        /\ UNCHANGED <<settings, record, manifest, gate>>
    BY <1>3 DEF FreezeVerify
  <2>. HIDE DEF answer
  <2>. QED
    BY <2>1 DEF TypeOK
<1>4. ASSUME NEW p \in Paths, FreezeCrash(p) PROVE TypeOK' /\ DOMAIN record' = Paths
  BY <1>4 DEF FreezeCrash, Torn, Idle, TypeOK
<1>5. ASSUME NEW p \in Paths, NEW k \in Kinds, MakeFreezeRecord(k, p)
      PROVE  TypeOK' /\ DOMAIN record' = Paths
  <2>1. ASSUME NEW r, FreezeWrite(p, r), r.state = "whole"
        PROVE  /\ DOMAIN record' = Paths /\ last'.command \in {"none", "freeze"}
               /\ \A q \in Paths : record'[q].state \in {"absent", "torn", "whole"}
    BY <2>1 DEF FreezeWrite, Idle, TypeOK
  <2>2. \A models, filled : NewRecord(k, models, filled).state = "whole"
    BY DEF NewRecord
  <2>3. /\ DOMAIN record' = Paths /\ last'.command \in {"none", "freeze"}
        /\ \A q \in Paths : record'[q].state \in {"absent", "torn", "whole"}
    <3>1. CASE record' = record /\ last' = Idle
      BY <3>1 DEF Idle, TypeOK
    <3>2. CASE \E r : FreezeWrite(p, r) /\ r.state = "whole"
      BY <2>1, <3>2
    <3>. QED
      BY <1>5, <2>2, <3>1, <3>2 DEF MakeFreezeRecord
  <2>4. UNCHANGED <<settings, manifest, gate>>
    BY <1>5 DEF MakeFreezeRecord
  <2>. QED
    BY <2>3, <2>4 DEF TypeOK
<1>6. CASE StageRuns
  <2>1. ASSUME NEW stage \in Stages, NEW args, RunStage(stage, args)
        PROVE  last'.command \in Stages
    BY <2>1, RunLeaves
  <2>2. last'.command \in Stages
    BY <1>6, <2>1 DEF StageRuns, Stages, RunCalibration, RunStage1, RunStage2Dev,
                      RunStage2Test, RunExperimentC, RunMultihop
  <2>3. settings' = settings /\ record' = record /\ manifest' = manifest
    BY <1>6 DEF StageRuns, RunCalibration, RunStage1, RunStage2Dev, RunStage2Test,
                RunExperimentC, RunMultihop, RunStage
  <2>4. gate' \in {"none", "proceed", "halt"}
    BY <1>6 DEF StageRuns, RunCalibration, RunStage1, RunStage2Dev, RunStage2Test,
                RunExperimentC, RunMultihop, MockGate, TypeOK
  <2>. QED
    BY <2>2, <2>3, <2>4 DEF TypeOK
<1>7. CASE UNCHANGED vars
  BY <1>7 DEF vars, TypeOK
<1>. QED
  BY <1>1, <1>2, <1>3, <1>4, <1>5, <1>6, <1>7, <1>8 DEF Next, StageRuns

(* The store only takes what was dealt, and the panes only what was loaded.  *)
LEMMA HttpTypes ==
  ASSUME ServiceTypeOK, LoadIsOfOneRun, [ServiceNext]_serviceVars
  PROVE  ServiceTypeOK'
<1>. USE DEF ServiceTypeOK
<1>1. CASE Capabilities
  BY <1>1 DEF Capabilities, server
<1>2. CASE StartDemo
  BY <1>2 DEF StartDemo, server
<1>3. ASSUME NEW r, DemoRun(r)
      PROVE  /\ runs' \subseteq dealt' /\ dealt' \subseteq RunIds /\ opa' \in OpaOutcomes
             /\ mode' = mode /\ restarts' = restarts
  BY <1>3 DEF DemoRun
<1>4. CASE ServePost
  <2>1. post' \in {"refused"} \union RunIds
    BY <1>4, ServePostLeavesPage
  <2>. QED
    BY <1>4, <1>3, <2>1 DEF ServePost
<1>5. CASE OtherPost
  BY <1>5, <1>3 DEF OtherPost, client
<1>6. CASE PostAnswered
  BY <1>6 DEF PostAnswered, server, Waiting
<1>7. ASSUME NEW p \in Parts, ServeGet(p) PROVE ServiceTypeOK'
  BY <1>7 DEF ServeGet, server
<1>8. CASE ShowRun
  <2>1. shown' \in [Panes -> RunIds \union {"none"}]
    <3>1. CASE \E p \in Parts : parts[p] = "refused"
      BY <1>8, <3>1 DEF ShowRun
    <3>2. CASE \A p \in Parts : parts[p] # "refused"
      <4>1. loading \in RunIds /\ \A p \in Parts : parts[p] = loading
        BY <1>8, <3>2 DEF ShowRun, LoadIsOfOneRun
      <4>. QED
        BY <1>8, <3>2, <4>1 DEF ShowRun, Panes, Parts
    <3>. QED
      BY <3>1, <3>2
  <2>. QED
    BY <1>8, <2>1 DEF ShowRun, NotLoading, server
<1>9. CASE RestartServer
  BY <1>9, DemoServiceAssumption DEF RestartServer
<1>10. CASE UNCHANGED serviceVars
  BY <1>10 DEF serviceVars, server, client
<1>. QED
  BY <1>1, <1>2, <1>4, <1>5, <1>6, <1>7, <1>8, <1>9, <1>10 DEF ServiceNext

(* Every variable of the plane keeps its type: no command writes an answer   *)
(* the guards do not know, and no request a run that was never dealt.        *)
THEOREM PlaneTypes == PlaneSpec => []PlaneTypeOK
<1>. DEFINE CliInv == TypeOK /\ DOMAIN record = Paths
            HttpInv == ServiceTypeOK /\ PanesInv
<1>1. Init => CliInv
  <2>. SUFFICES ASSUME Init PROVE CliInv
    OBVIOUS
  <2>1. settings \in Settings
    BY DEF Init, Models, Settings
  <2>2. DOMAIN record = Paths /\ \A p \in Paths : record[p].state = "absent"
    BY DEF Init, Absent
  <2>3. /\ manifest \in 1 .. MaxManifest /\ last.command = "none"
        /\ gate = "none"
    BY LifecycleAssumption DEF Init, Idle
  <2>. QED
    BY <2>1, <2>2, <2>3 DEF TypeOK
<1>2. CliInv /\ [Next]_vars => CliInv'
  BY CliTypes
<1>3. ServiceInit => HttpInv
  BY DemoServiceAssumption
  DEF ServiceInit, ServiceTypeOK, OpaOutcomes, NotLoading, Blank, PanesInv, LoadIsOfOneRun,
      PanesShowOneRun
<1>4. HttpInv /\ [ServiceNext]_serviceVars => HttpInv'
  BY HttpTypes, PanesStep DEF PanesInv
<1>5. CliInv /\ HttpInv => PlaneTypeOK
  BY DEF PlaneTypeOK
<1>. QED
  BY <1>1, <1>2, <1>3, <1>4, <1>5, PlaneImplementsBoth, PTL DEF Spec, ServiceSpec
=============================================================================
