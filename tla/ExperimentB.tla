---------------------------- MODULE ExperimentB ----------------------------
(***************************************************************************)
(* The matched prior-access contrast, scripts/run_experiment_b.py.         *)
(*                                                                         *)
(* main() submits every task of every matched slot to one thread pool; a   *)
(* task reads its answer file or makes one call, stores the answer, adds   *)
(* the cost to total_spend and only then looks at the spend ceiling.  There *)
(* is no retry.  Results are aggregated in the order in which the futures  *)
(* complete, and the document-clustered bootstrap draws documents by their  *)
(* position in that order.                                                 *)
(*                                                                         *)
(* One slot per document; a task is one repetition of one arm of a slot.   *)
(* The two result files are written as one step.                           *)
(***************************************************************************)
EXTENDS Integers, Sequences, FiniteSets, FiniteSetsExt, SequencesExt

CONSTANTS
  Slots,
  Tasks,
  SlotOf,    (* the slot a task asks about                                  *)
  Natural,   (* the tasks of the natural arm, the others are blocked        *)
  Workers,
  Costs,     (* what one answer may cost                                    *)
  MaxCost,   (* the largest of them                                         *)
  Ceiling,   (* EXPERIMENT_B_CEILING_USD                                    *)
  Resample,  (* positions the seeded generator draws in one replicate       *)
  MaxRuns,   (* bound: how often the operator starts the runner             *)
  NoTask

ASSUME ExperimentBAssumption ==
  /\ IsFiniteSet(Tasks) /\ Tasks # {} /\ NoTask \notin Tasks /\ IsFiniteSet(Slots)
  /\ SlotOf \in [Tasks -> Slots] /\ Natural \subseteq Tasks
  /\ IsFiniteSet(Workers) /\ Workers # {}
  /\ Costs \subseteq 0 .. MaxCost /\ MaxCost \in Nat /\ Ceiling \in Nat
  /\ Resample \in Seq(1 .. Cardinality(Slots))
  /\ MaxRuns \in Nat \ {0}

VARIABLES
  main,        (* what the main thread does, or how the process ended       *)
  future,      (* per task                                                  *)
  results,     (* tasks in the order as_completed handed their results over *)
  pc, job,     (* per worker: its next call and its task                    *)
  cost, said,  (* per worker: cost and content of the answer it holds       *)
  cache,       (* per task: the answer file ...                             *)
  cost_usd,    (* ... and the cost recorded in it                           *)
  total_spend, (* nonlocal counter                                          *)
  invoice,     (* observer: what the provider billed this process           *)
  runs,        (* observer: processes started so far                        *)
  published    (* observer: the result files written so far                 *)

procVars == <<main, future, results>>
workVars == <<pc, job, cost, said>>
files    == <<cache, cost_usd>>
vars == <<procVars, workVars, files, total_spend, invoice, runs, published>>

Said == {"recovered", "lost"}
Done(t) == future[t] \in {"answered", "raised"}
-----------------------------------------------------------------------------
(* y_nat - y_blk of a slot, times the repetitions. *)
PairedDiff(answers, s) ==
  LET recovered(S) == Cardinality({t \in S : SlotOf[t] = s /\ answers[t] = "recovered"})
  IN recovered(Natural) - recovered(Tasks \ Natural)

Estimate(answers) == MapThenSumSet(LAMBDA s : PairedDiff(answers, s), Slots)

(* The keys of slot_records, in insertion order. *)
FirstResult(s) == CHOOSE i \in DOMAIN results :
  SlotOf[results[i]] = s /\ \A j \in 1 .. (i - 1) : SlotOf[results[j]] # s

DocOrder == SetToSortSeq(Slots, LAMBDA r, s : FirstResult(r) < FirstResult(s))

(* The replicate's resampled statistic; the interval is made of these. *)
Replicate == FoldLeft(LAMBDA sum, k : sum + PairedDiff(cache, DocOrder[k]), 0, Resample)

(* effective_spend: the files are only consulted when nothing was spent. *)
StoredCost(t) == cost_usd[t]
OnFile == MapThenSumSet(StoredCost, Tasks)
EffectiveSpend == IF total_spend = 0 THEN OnFile ELSE total_spend
-----------------------------------------------------------------------------
Init ==
  /\ main = "collecting"
  /\ future = [t \in Tasks |-> "pending"]
  /\ results = <<>>
  /\ pc = [w \in Workers |-> "idle"] /\ job = [w \in Workers |-> NoTask]
  /\ cost = [w \in Workers |-> 0] /\ said = [w \in Workers |-> "lost"]
  /\ cache = [t \in Tasks |-> "absent"] /\ cost_usd = [t \in Tasks |-> 0]
  /\ total_spend = 0 /\ invoice = 0
  /\ runs = 1 /\ published = {}

(* The worker's task ends with outcome o. *)
Resolve(w, o) ==
  /\ future' = [future EXCEPT ![job[w]] = o]
  /\ pc' = [pc EXCEPT ![w] = "idle"] /\ job' = [job EXCEPT ![w] = NoTask]
  /\ cost' = [cost EXCEPT ![w] = 0] /\ said' = [said EXCEPT ![w] = "lost"]

(* A thread takes a task whose answer is on file. *)
Hit(w) ==
  /\ pc[w] = "idle"
  /\ \E t \in Tasks :
       /\ future[t] = "pending" /\ cache[t] \in Said
       /\ future' = [future EXCEPT ![t] = "answered"]
  /\ UNCHANGED <<main, results, workVars, files, total_spend, invoice, runs, published>>

(* Mutant: an answer on file is not used. *)
MissAlways(w) ==
  /\ pc[w] = "idle"
  /\ \E t \in Tasks :
       /\ future[t] = "pending"
       /\ future' = [future EXCEPT ![t] = "running"]
       /\ job' = [job EXCEPT ![w] = t]
  /\ pc' = [pc EXCEPT ![w] = "calling"]
  /\ UNCHANGED <<main, results, cost, said, files, total_spend, invoice, runs, published>>

(* No file, or one that does not parse: it will call. *)
Miss(w) ==
  /\ pc[w] = "idle"
  /\ \E t \in Tasks :
       /\ future[t] = "pending" /\ cache[t] \notin Said
       /\ future' = [future EXCEPT ![t] = "running"]
       /\ job' = [job EXCEPT ![w] = t]
  /\ pc' = [pc EXCEPT ![w] = "calling"]
  /\ UNCHANGED <<main, results, cost, said, files, total_spend, invoice, runs, published>>

Generate(w) ==
  /\ pc[w] = "calling"
  /\ \E c \in Costs, s \in Said :
       /\ cost' = [cost EXCEPT ![w] = c]
       /\ said' = [said EXCEPT ![w] = s]
       /\ invoice' = invoice + c
  /\ pc' = [pc EXCEPT ![w] = "storing"]
  /\ UNCHANGED <<procVars, job, files, total_spend, runs, published>>

(* adapter.generate or the write of the file raises. *)
Fails(w) ==
  /\ pc[w] \in {"calling", "writing"}
  /\ Resolve(w, "raised")
  /\ UNCHANGED <<main, results, files, total_spend, invoice, runs, published>>

(* open(path, "w") empties the file ... *)
PutOpens(w) ==
  /\ pc[w] = "storing"
  /\ cache' = [cache EXCEPT ![job[w]] = "torn"]
  /\ cost_usd' = [cost_usd EXCEPT ![job[w]] = 0]
  /\ pc' = [pc EXCEPT ![w] = "writing"]
  /\ UNCHANGED <<procVars, job, cost, said, total_spend, invoice, runs, published>>

(* ... and json.dump writes the record. *)
PutWrites(w) ==
  /\ pc[w] = "writing"
  /\ cache' = [cache EXCEPT ![job[w]] = said[w]]
  /\ cost_usd' = [cost_usd EXCEPT ![job[w]] = cost[w]]
  /\ pc' = [pc EXCEPT ![w] = "accounting"]
  /\ UNCHANGED <<procVars, job, cost, said, total_spend, invoice, runs, published>>

(* Mutant: the ceiling is compared before the cost of this call is added. *)
AccountCheckedFirst(w) ==
  /\ pc[w] = "accounting"
  /\ total_spend' = total_spend + cost[w]
  /\ Resolve(w, IF total_spend > Ceiling THEN "raised" ELSE "answered")
  /\ UNCHANGED <<main, results, files, invoice, runs, published>>

(* total_spend += cost, and an exception once that is past the ceiling. *)
Account(w) ==
  /\ pc[w] = "accounting"
  /\ total_spend' = total_spend + cost[w]
  /\ Resolve(w, IF total_spend' > Ceiling THEN "raised" ELSE "answered")
  /\ UNCHANGED <<main, results, files, invoice, runs, published>>
-----------------------------------------------------------------------------
Collect(t) ==
  /\ main = "collecting"
  /\ future[t] = "answered" /\ ~Contains(results, t)
  /\ results' = Append(results, t)
  /\ UNCHANGED <<main, future, workVars, files, total_spend, invoice, runs, published>>

(* Mutant: a future that raised is skipped. *)
CollectSkips(t) ==
  /\ main = "collecting"
  /\ future[t] = "raised" /\ ~Contains(results, t)
  /\ results' = Append(results, t)
  /\ UNCHANGED <<main, future, workVars, files, total_spend, invoice, runs, published>>

(* fut.result() raises; the pool is shut down with wait=True, nothing cancelled. *)
CollectRaises(t) ==
  /\ main = "collecting" /\ future[t] = "raised"
  /\ main' = "draining"
  /\ UNCHANGED <<future, results, workVars, files, total_spend, invoice, runs, published>>

Drained ==
  /\ main = "draining" /\ \A t \in Tasks : Done(t)
  /\ main' = "failed"
  /\ UNCHANGED <<future, results, workVars, files, total_spend, invoice, runs, published>>

(* Aggregation, estimation, bootstrap, and the result files. *)
Publish ==
  /\ main = "collecting" /\ ToSet(results) = Tasks
  /\ main' = "finished"
  /\ published' = published \union
       {[estimate |-> Estimate(cache), replicate |-> Replicate,
         ceiling_respected |-> EffectiveSpend <= Ceiling]}
  /\ UNCHANGED <<future, results, workVars, files, total_spend, invoice, runs>>

Crash ==
  /\ main \in {"collecting", "draining"}
  /\ main' = "crashed"
  /\ future' = [t \in Tasks |-> "none"] /\ results' = <<>>
  /\ pc' = [w \in Workers |-> "idle"] /\ job' = [w \in Workers |-> NoTask]
  /\ cost' = [w \in Workers |-> 0] /\ said' = [w \in Workers |-> "lost"]
  /\ UNCHANGED <<files, total_spend, invoice, runs, published>>

Start ==
  /\ main \in {"finished", "failed", "crashed"} /\ runs < MaxRuns
  /\ runs' = runs + 1
  /\ main' = "collecting"
  /\ future' = [t \in Tasks |-> "pending"] /\ results' = <<>>
  /\ total_spend' = 0 /\ invoice' = 0
  /\ UNCHANGED <<workVars, files, published>>
-----------------------------------------------------------------------------
WorkerStep(w) ==
  \/ Hit(w) \/ Miss(w) \/ Generate(w) \/ Fails(w)
  \/ PutOpens(w) \/ PutWrites(w) \/ Account(w)

MainStep ==
  \/ \E t \in Tasks : Collect(t) \/ CollectRaises(t)
  \/ Drained \/ Publish

Next == MainStep \/ Crash \/ Start \/ \E w \in Workers : WorkerStep(w)

Spec == Init /\ [][Next]_vars
-----------------------------------------------------------------------------
(* Every variable keeps its type; a thread holds a task while it works. *)
TypeOK ==
  /\ main \in {"collecting", "draining", "finished", "failed", "crashed"}
  /\ future \in [Tasks -> {"none", "pending", "running", "answered", "raised"}]
  /\ results \in Seq(Tasks)
  /\ pc \in [Workers -> {"idle", "calling", "storing", "writing", "accounting"}]
  /\ job \in [Workers -> Tasks \union {NoTask}]
  /\ \A w \in Workers : job[w] = NoTask <=> pc[w] = "idle"
  /\ cost \in [Workers -> 0 .. MaxCost] /\ said \in [Workers -> Said]
  /\ cache \in [Tasks -> {"absent", "torn"} \union Said]
  /\ cost_usd \in [Tasks -> 0 .. MaxCost]
  /\ total_spend \in Nat /\ invoice \in Nat /\ runs \in 1 .. MaxRuns

(* A run that publishes has spent no more than the ceiling: whoever went    *)
(* past it raised, and the main thread has seen every future.               *)
PublishedUnderCeiling == main = "finished" => total_spend <= Ceiling

(* What is published was computed from every task exactly once, from an     *)
(* answer a later run can read again.                                       *)
ContrastIsComplete ==
  main = "finished" =>
    IsInjective(results) /\ \A t \in Tasks : future[t] = "answered" /\ cache[t] \in Said

(* Whenever the experiment is run again on the same files, the point        *)
(* estimate it publishes is the same.                                       *)
EstimateReproducible == \A p, q \in published : p.estimate = q.estimate

(* A paid answer stays as it is: neither a crash nor a later run replaces it. *)
AnswersKept == [][\A t \in Tasks : cache[t] \in Said => cache'[t] = cache[t]]_vars

(* Experiment B implements the same resumable store as the Stage-1 runner. *)
Store == INSTANCE AnswerStore WITH
  stored <- {t \in Tasks : cache[t] \in Said},
  status <- CASE main \in {"collecting", "draining"} -> "running"
              [] main = "finished" -> "complete"
              [] OTHER -> "stopped"
ImplementsStore == Store!Spec

(* run_experiment_b.py:13 promises "Hard spend ceiling enforcement ($2.00   *)
(* USD)": a process is not billed more than the ceiling and the calls that  *)
(* were in flight when it was reached.                                      *)
HardCeiling == invoice <= Ceiling + MaxCost * Cardinality(Workers)

(* The results say "ceiling_respected": the calls they report cost no more  *)
(* than the ceiling.                                                        *)
CeilingRespected ==
  \A p \in published : p.ceiling_respected => OnFile <= Ceiling

(* seeds.py:3-5 promises that a run is reproducible from its seeds: the      *)
(* bootstrap of the same answers gives the same resampled statistic.        *)
BootstrapReproducible == \A p, q \in published : p.replicate = q.replicate
=============================================================================
