--------------------------- MODULE ProviderAudit ---------------------------
(***************************************************************************)
(* The 100 x 10 reproducibility audits, scripts/run_low_cost_regime_audit.py *)
(* ("regime") and scripts/run_receiver_operational_audit.py ("receiver").  *)
(*                                                                         *)
(* main() submits every (input, repeat) to one thread pool in a fixed      *)
(* shuffled order; a task retries its call, any exception included; the    *)
(* main thread sums the cost of what as_completed hands over.  Nothing is  *)
(* stored before the verdict; then the report files are written one after  *)
(* the other.                                                              *)
(*                                                                         *)
(* An answer is its canonical outcome: Target, or another value of the same *)
(* role.  Every document contributes the same number of inputs.            *)
(***************************************************************************)
EXTENDS Regime, FiniteSetsExt, SequencesExt

CONSTANTS
  Inputs,       (* sampled_inputs                                           *)
  REPEATS,
  WorkItems,    (* work_items: the shuffled (input, repeat) pairs            *)
  DocumentOf,   (* the document of an input                                 *)
  Canonical,    (* canonical outcomes an answer may have ...                *)
  Target,       (* ... and the one that is right                            *)
  PoolSize,     (* --max-workers                                            *)
  Attempts,     (* 4 in the code                                            *)
  AnswerCosts,  (* calculate_cost of an answer; 0 when usage is missing     *)
  AuditCeiling, (* MAX_SPEND_LIMIT_USD                                      *)
  MaxAudits     (* bound: processes the operator starts                     *)

ASSUME ProviderAuditAssumption ==
  /\ IsFiniteSet(Inputs) /\ Inputs # {} /\ REPEATS \in Nat \ {0}
  /\ WorkItems \in Seq(Inputs \X (1 .. REPEATS))
  /\ Target \in Canonical /\ "none" \notin Canonical
  /\ PoolSize \in Nat \ {0} /\ Attempts \in Nat \ {0}
  /\ AnswerCosts \subseteq Nat /\ AuditCeiling \in Nat /\ MaxAudits \in Nat \ {0}

VARIABLES
  script,    (* which of the two programs this process runs                 *)
  phase,     (* what its main thread does, or how it ended                  *)
  task,      (* per (input, repeat): the state of its future                *)
  attempt,   (* ... the failed attempts of the call it is in                *)
  answer,    (* ... and its canonical outcome                               *)
  spent,     (* total_spend of this process                                 *)
  written,   (* how many of the report files this process has written       *)
  report,    (* per report file: absent, torn or its content                *)
  audits     (* observer: processes started                                 *)

auditVars == <<script, phase, task, attempt, answer, spent, written,
               report, audits>>

Items == Inputs \X (1 .. REPEATS)
Documents == {DocumentOf[i] : i \in Inputs}
-----------------------------------------------------------------------------
Answers(i) == {answer[<<i, r>>] : r \in 1 .. REPEATS}
Unanimous == \A i \in Inputs : Cardinality(Answers(i)) = 1
Right(i) == Cardinality({r \in 1 .. REPEATS : answer[<<i, r>>] = Target})

(* statistics.mean of the inputs' pvariance of 0/1 accuracy. *)
Spread(i) == Right(i) * (REPEATS - Right(i))
DecodeVariance ==
  Frac(MapThenSumSet(Spread, Inputs), REPEATS * REPEATS * Cardinality(Inputs))

(* statistics.variance of the documents' means; 0.01 for one document. *)
RightIn(d) == MapThenSumSet(Right, {i \in Inputs : DocumentOf[i] = d})
SquareOf(d) == RightIn(d) * RightIn(d)
DocumentVariance ==
  LET n == Cardinality(Documents)
      perDoc == REPEATS * (Cardinality(Inputs) \div n)
      sum == MapThenSumSet(RightIn, Documents)
      squares == MapThenSumSet(SquareOf, Documents)
  IN IF n > 1 THEN Frac(n * squares - sum * sum, n * (n - 1) * perDoc * perDoc)
     ELSE Frac(1, 100)

(* Mutant: a majority of the repeats is enough. *)
MajorityVerdict ==
  IF \A i \in Inputs : \E v \in Canonical :
       2 * Cardinality({r \in 1 .. REPEATS : answer[<<i, r>>] = v}) >= REPEATS
    THEN [regime |-> "D_CONFIRMED", m_star |-> 1]
    ELSE [regime |-> "S_CONFIRMED", m_star |-> FirstMeeting(DecodeVariance, DocumentVariance)]

RegimeVerdict ==
  IF Unanimous THEN [regime |-> "D_CONFIRMED", m_star |-> 1]
  ELSE [regime |-> "S_CONFIRMED", m_star |-> FirstMeeting(DecodeVariance, DocumentVariance)]

(* The same rule, written out again in the receiver audit. *)
ReceiverVerdict ==
  [regime |-> IF Unanimous THEN "D_CONFIRMED" ELSE "S_CONFIRMED",
   m_star |-> IF Unanimous THEN 1 ELSE FirstMeeting(DecodeVariance, DocumentVariance)]

Verdict == IF script = "regime" THEN RegimeVerdict ELSE ReceiverVerdict

(* projected_stage1_spend is at most 0.32 + 0.77 * 1.5 + 0.59 when m* <= 3, *)
(* below the 8.50 it is compared with.                                      *)
Accepted == RegimeVerdict.m_star <= 3

(* Mutant: the decision is written before the evidence. *)
DecisionFirst == <<"selection_json", "audit_json", "audit_md", "selection_md">>

(* The report files in the order in which they are written. *)
RegimeFiles == <<"audit_json", "selection_json", "audit_md", "selection_md">>
ReceiverFiles == <<"receiver_json", "receiver_md">>
FilesOf(s) == IF s = "regime" THEN RegimeFiles ELSE ReceiverFiles
ReportFiles == ToSet(RegimeFiles) \union ToSet(ReceiverFiles)

(* What a file says: whose run, the verdict, and whether the model is        *)
(* accepted.  Both Markdown texts of the regime audit say ACCEPTED and PASS *)
(* literally; the receiver audit accepts nothing.                           *)
Content(f) ==
  [audit |-> audits, regime |-> Verdict.regime, m_star |-> Verdict.m_star,
   accepted |-> CASE f \in {"audit_json", "selection_json"} -> Accepted
                  [] f \in {"audit_md", "selection_md"} -> TRUE
                  [] OTHER -> FALSE]

Absent == [audit |-> 0, regime |-> "absent", m_star |-> 0, accepted |-> FALSE]
Torn   == [audit |-> 0, regime |-> "torn", m_star |-> 0, accepted |-> FALSE]
-----------------------------------------------------------------------------
AuditInit ==
  /\ script \in {"regime", "receiver"} /\ phase = "collecting"
  /\ task = [t \in Items |-> "queued"] /\ attempt = [t \in Items |-> 0]
  /\ answer = [t \in Items |-> "none"]
  /\ spent = 0 /\ written = 0
  /\ report = [f \in ReportFiles |-> Absent] /\ audits = 1

Active == phase \in {"collecting", "draining"}
Running == {t \in Items : task[t] = "running"}

(* A free thread takes the next work item. *)
TakeItem ==
  /\ Active /\ Cardinality(Running) < PoolSize
  /\ \E k \in DOMAIN WorkItems :
       /\ task[WorkItems[k]] = "queued"
       /\ \A j \in 1 .. (k - 1) : task[WorkItems[j]] # "queued"
       /\ task' = [task EXCEPT ![WorkItems[k]] = "running"]
  /\ UNCHANGED <<script, phase, attempt, answer, spent, written, report, audits>>

(* adapter.generate returned and its text was canonicalised. *)
ItemAnswered(t) ==
  /\ Active /\ task[t] = "running"
  /\ task' = [task EXCEPT ![t] = "answered"]
  /\ \E v \in Canonical : answer' = [answer EXCEPT ![t] = v]
  /\ attempt' = [attempt EXCEPT ![t] = 0]
  /\ UNCHANGED <<script, phase, spent, written, report, audits>>

(* Mutant: after the last attempt the loop begins again. *)
AttemptFailsForever(t) ==
  /\ Active /\ task[t] = "running"
  /\ attempt' = [attempt EXCEPT ![t] = (@ + 1) % Attempts]
  /\ UNCHANGED <<script, phase, task, answer, spent, written, report, audits>>

(* Mutant: one attempt more than the loop has. *)
AttemptFailsOnceMore(t) ==
  /\ Active /\ task[t] = "running"
  /\ IF attempt[t] = Attempts
       THEN task' = [task EXCEPT ![t] = "raised"] /\ attempt' = [attempt EXCEPT ![t] = 0]
       ELSE task' = task /\ attempt' = [attempt EXCEPT ![t] = @ + 1]
  /\ UNCHANGED <<script, phase, answer, spent, written, report, audits>>

(* Anything the attempt raised is caught and slept over; the last one is    *)
(* turned into a RuntimeError.                                              *)
AttemptFails(t) ==
  /\ Active /\ task[t] = "running"
  /\ IF attempt[t] + 1 = Attempts
       THEN task' = [task EXCEPT ![t] = "raised"] /\ attempt' = [attempt EXCEPT ![t] = 0]
       ELSE task' = task /\ attempt' = [attempt EXCEPT ![t] = @ + 1]
  /\ UNCHANGED <<script, phase, answer, spent, written, report, audits>>
-----------------------------------------------------------------------------
(* as_completed hands a result over; past the ceiling the loop raises and    *)
(* the with-block waits for the pool.                                       *)
RegimeCollects(t) ==
  /\ script = "regime" /\ phase = "collecting" /\ task[t] = "answered"
  /\ task' = [task EXCEPT ![t] = "collected"]
  /\ \E c \in AnswerCosts : spent' = spent + c
  /\ phase' = IF spent' > AuditCeiling THEN "draining" ELSE phase
  /\ UNCHANGED <<script, attempt, answer, written, report, audits>>

(* The receiver audit defines MAX_SPEND_LIMIT_USD and never reads it. *)
ReceiverCollects(t) ==
  /\ script = "receiver" /\ phase = "collecting" /\ task[t] = "answered"
  /\ task' = [task EXCEPT ![t] = "collected"]
  /\ \E c \in AnswerCosts : spent' = spent + c
  /\ UNCHANGED <<script, phase, attempt, answer, written, report, audits>>

(* fut.result() raises in the main thread. *)
CollectRaised(t) ==
  /\ phase = "collecting" /\ task[t] = "raised"
  /\ phase' = "draining"
  /\ UNCHANGED <<script, task, attempt, answer, spent, written, report, audits>>

(* The pool's exit waits for every item; nothing is cancelled. *)
PoolDrained ==
  /\ phase = "draining" /\ \A t \in Items : task[t] \notin {"queued", "running"}
  /\ phase' = "failed"
  /\ UNCHANGED <<script, task, attempt, answer, spent, written, report, audits>>

(* Every item is collected: the verdict is computed and the reports begin. *)
Judge ==
  /\ phase = "collecting" /\ \A t \in Items : task[t] = "collected"
  /\ phase' = "writing"
  /\ UNCHANGED <<script, task, attempt, answer, spent, written, report, audits>>

WriteReport ==
  /\ phase = "writing"
  /\ LET files == FilesOf(script)
         f == files[written + 1]
     IN /\ report' = [report EXCEPT ![f] = Content(f)]
        /\ phase' = IF written + 1 = Len(files) THEN "finished" ELSE phase
  /\ written' = written + 1
  /\ UNCHANGED <<script, task, attempt, answer, spent, audits>>

(* The process dies, possibly inside write_text; its memory is gone. *)
AuditCrash ==
  /\ phase \in {"collecting", "draining", "writing"}
  /\ phase' = "crashed"
  /\ \/ report' = report
     \/ phase = "writing" /\ report' = [report EXCEPT ![FilesOf(script)[written + 1]] = Torn]
  /\ task' = [t \in Items |-> "queued"] /\ attempt' = [t \in Items |-> 0]
  /\ answer' = [t \in Items |-> "none"] /\ spent' = 0 /\ written' = 0
  /\ UNCHANGED <<script, audits>>

AuditStart ==
  /\ phase \in {"finished", "failed", "crashed"} /\ audits < MaxAudits
  /\ audits' = audits + 1 /\ phase' = "collecting"
  /\ script' \in {"regime", "receiver"}
  /\ task' = [t \in Items |-> "queued"] /\ attempt' = [t \in Items |-> 0]
  /\ answer' = [t \in Items |-> "none"]
  /\ spent' = 0 /\ written' = 0
  /\ UNCHANGED report
-----------------------------------------------------------------------------
ItemStep(t) == ItemAnswered(t) \/ AttemptFails(t)
AuditMain ==
  \/ \E t \in Items : RegimeCollects(t) \/ ReceiverCollects(t) \/ CollectRaised(t)
  \/ PoolDrained \/ Judge \/ WriteReport

AuditNext == \/ TakeItem \/ AuditMain \/ AuditCrash \/ AuditStart
             \/ \E t \in Items : ItemStep(t)

(* Threads of the pool and the main thread are never starved; the main     *)
(* thread serves futures in completion order.                              *)
AuditFairness ==
  /\ WF_auditVars(TakeItem) /\ WF_auditVars(AuditMain)
  /\ \A t \in Items : WF_auditVars(ItemStep(t))

AuditSpec == AuditInit /\ [][AuditNext]_auditVars /\ AuditFairness
-----------------------------------------------------------------------------
(* Every variable keeps its type. *)
AuditTypeOK ==
  /\ script \in {"regime", "receiver"}
  /\ phase \in {"collecting", "draining", "writing", "finished", "failed", "crashed"}
  /\ task \in [Items -> {"queued", "running", "answered", "raised", "collected"}]
  /\ attempt \in [Items -> 0 .. (Attempts - 1)]
  /\ answer \in [Items -> Canonical \union {"none"}]
  /\ spent \in Nat /\ written \in 0 .. 4 /\ audits \in 1 .. MaxAudits
  /\ DOMAIN report = ReportFiles

(* A verdict is the one the preregistered rule of providers/regime.py gives *)
(* for a complete audit of the required size: no partial audit, no majority *)
(* vote and no other replication number ever reaches a report.              *)
VerdictFollowsRule ==
  phase \in {"writing", "finished"} =>
    LET disagree == Cardinality({i \in Inputs : \E v, w \in Answers(i) : v # w})
        audited == [completed |-> \A t \in Items : answer[t] \in Canonical,
                    n_inputs |-> Cardinality(Inputs), n_repeats |-> REPEATS,
                    inputs_with_disagreement |-> disagree]
    IN /\ Verdict.regime = RegimeOf(audited, Cardinality(Inputs), REPEATS)
       /\ Verdict.m_star =
            IF disagree = 0 THEN 1
            ELSE select_replication(DecodeVariance, DocumentVariance).m_star

(* The selection of the primary model never rests on an audit older than    *)
(* the one on file: whatever run wrote the decision had written its         *)
(* evidence first, in every interleaving of crashes and new runs.           *)
EvidencePrecedesDecision ==
  \/ report["audit_json"] = Torn
  \/ report["selection_json"].audit <= report["audit_json"].audit

(* run_low_cost_regime_audit.py:391 "Model accepted only if m* <= 3 and      *)
(* projected Stage-1 cost fits remaining ceiling": the files of one run say *)
(* the same of the acceptance.                                              *)
ReportsAgree ==
  \A f, g \in ToSet(RegimeFiles) :
    report[f].audit = report[g].audit /\ report[f].audit > 0 =>
      report[f].accepted = report[g].accepted

(* Every audit that is not killed ends, however many calls fail. *)
EveryAuditEnds == Active ~> ~Active
=============================================================================
