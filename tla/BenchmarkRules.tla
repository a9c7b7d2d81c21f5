--------------------------- MODULE BenchmarkRules ---------------------------
(***************************************************************************)
(* What the benchmark may compare: the adapters of baselines/, the registry *)
(* entry that makes one eligible, the reproduction that marks an entry      *)
(* READY, and the per-document runner.                                      *)
(***************************************************************************)
EXTENDS Integers, Sequences, FiniteSets, FiniteSetsExt

Adapter(status, role) == [status |-> status, role |-> role]
NotReadyPrimary == Adapter("NOT_READY", "PRIMARY_CAUSAL")
NotReadyAnchor == Adapter("NOT_READY", "LEGACY_ANCHOR")
Endpoint == Adapter("ENDPOINT_ONLY", "ENDPOINT_ONLY")
Control == Adapter("READY", "CONTROL")

\* The external adapters, by method; none has an implementation bound.
ExternalAdapters ==
  [provence |-> NotReadyPrimary, dac |-> NotReadyPrimary, cpc |-> NotReadyPrimary,
   llmlingua2 |-> NotReadyPrimary, longllmlingua |-> NotReadyPrimary,
   adaptive_queryselect |-> NotReadyAnchor, selective_context |-> NotReadyAnchor,
   recomp_extractive |-> NotReadyAnchor, parallelcomp |-> Endpoint, comi |-> Endpoint]
PRIMARY_SOTA == {"provence", "cpc", "llmlingua2", "dac", "longllmlingua"}

Controls == [full_context |-> Control, head_truncation |-> Control,
             uniform_atoms |-> Control, vanilla_relay |-> Control]

\* The V3.5 comparator registry: one family each, and its readiness.
PRIMARY_COMPARATOR_REGISTRY ==
  [LLMLingua2 |-> "BENCHMARK_READY", DAC |-> "BENCHMARK_READY",
   LongLLMLingua |-> "BLOCKED_BY_IMPLEMENTATION_DEPENDENCY",
   PerceptionCompressor |-> "BLOCKED_BY_IMPLEMENTATION_DEPENDENCY",
   TacoRl |-> "BLOCKED_BY_MISSING_ARTIFACT",
   Provence |-> "LICENSE_PERMITS_ACADEMIC_EVALUATION_BUT_LIMITS_REDISTRIBUTION"]
count_ready_primary_families(registry) ==
  Cardinality({f \in DOMAIN registry : registry[f] = "BENCHMARK_READY"})
is_headline_sota_eligible(registry) == count_ready_primary_families(registry) >= 4

\* The latent and hybrid methods, and the quantities undefined for them.
ENDPOINT_HYBRID_REGISTRY == {"COMI", "RAM", "GMSA", "SARA"}
AtomMetrics == {"Tbar", "C_comm", "C_recon", "Delta_budget"}
metric_refused(family, metric) == family \in ENDPOINT_HYBRID_REGISTRY /\ metric \in AtomMetrics
lineage_refused(row) == row.estimate /\ row.status = "COMPLETE" /\ ~(row.raw_sha /\ row.cell_id)
-----------------------------------------------------------------------------
(* compress: an answer has its tokens, or the class of what was raised.     *)

\* BaseCompressor.compress around what _compress produced; a focal value in the
\* task or the configuration is a leak.
Compressed(a, produced, budget, leaks, enforce) ==
  IF a.status = "NOT_READY" THEN [raised |-> "AdapterNotReady", tokens |-> 0]
  ELSE IF leaks THEN [raised |-> "FocalLeak", tokens |-> 0]
  ELSE IF produced.raised # "" THEN produced
  ELSE IF enforce /\ produced.tokens > budget THEN [raised |-> "BudgetViolation", tokens |-> 0]
  ELSE produced

Produced(n) == [raised |-> "", tokens |-> n]
external_compress == [raised |-> "AdapterNotReady", tokens |-> 0]
head_truncation(source, budget) == Produced(Min({source, budget}))
\* Atoms in the order of the shuffle while they fit, then the last is dropped
\* while the joined message does not; joint is what a line costs more in it.
uniform_atoms(costs, budget, joint) ==
  LET Spent(S) == MapThenSumSet(LAMBDA i : costs[i], S)
      kept[i \in 0..Len(costs)] ==
        IF i = 0 THEN {}
        ELSE IF Spent(kept[i - 1]) + costs[i] <= budget THEN kept[i - 1] \cup {i} ELSE kept[i - 1]
      Message(S) == Spent(S) + joint * Cardinality(S)
      Prefixed(n) == {i \in 1..n : i \in kept[Len(costs)]}
  IN  Produced(Message(Prefixed(Max({n \in 0..Len(costs) : 
        n = 0 \/ Message(Prefixed(n)) <= budget}))))
\* The relay's answer is cut to the budget; a task of the caller's own is refused.
vanilla_relay(answer, budget, task) ==
  IF task # "GLOBAL_DOWNSTREAM_TASK" THEN [raised |-> "AssertionError", tokens |-> 0]
  ELSE Produced(Min({answer, budget}))

\* run_document: a method that is NOT_READY is skipped, and what another raises
\* ends the document.  outcomes gives compress's result by method.
run_document(methods, outcomes) ==
  LET tried == {n \in DOMAIN methods : methods[n].status # "NOT_READY"}
  IN  IF \E n \in tried : outcomes[n].raised # "" THEN [raised |-> TRUE, runs |-> {}]
      ELSE [raised |-> FALSE, runs |-> tried]
causal_metrics_allowed(methods, n) == methods[n].role # "ENDPOINT_ONLY"

\* partition_results: the five roles a report has a column for.
Reported == {"PRIMARY_CAUSAL", "CONTROL", "LEGACY_ANCHOR", "OURS", "ENDPOINT_ONLY"}
partition_results(methods, runs) == [r \in Reported |-> {n \in runs : methods[n].role = r}]
-----------------------------------------------------------------------------
(* A registry entry: [role, status, produces_text, fields, reproduced,      *)
(* deviation, tolerance].  A field is "value", "" or "NOT_REQUIRED", the    *)
(* last with a reason or without.  NoMetric is None.                        *)

NoMetric == -1000
Reasoned == {"commit", "release_tag", "checkpoint_revision"}

\* UnresolvedIgnoresReason takes the bare sentinel for a resolution.
UnresolvedIgnoresReason(e) == {f \in DOMAIN e.fields : e.fields[f] = ""}
unresolved(e) ==
  {f \in DOMAIN e.fields :
     e.fields[f] = "" \/ (e.fields[f] = "NOT_REQUIRED" /\ f \notin (e.reasons \cap Reasoned))}

Magnitude(x) == IF x < 0 THEN -x ELSE x
\* DEFAULT_TOLERANCE_PP stands in for a tolerance of None, and of 0.
Tolerance(e) == IF e.tolerance = 0 THEN 2 ELSE e.tolerance

benchmark_eligible(e) ==
  \/ e.role = "CONTROL" /\ e.status = "READY"
  \/ /\ e.role \notin {"CONTROL", "ENDPOINT_ONLY", "RETIRED_PRE_OUTCOME", "CONTINGENCY_CAUSAL"}
     /\ unresolved(e) = {}
     /\ e.status = "READY" /\ e.produces_text
     /\ e.reproduced # NoMetric /\ e.deviation # NoMetric
     /\ Magnitude(e.deviation) <= Tolerance(e)

eligible_primary(entries) ==
  {n \in DOMAIN entries : entries[n].role = "PRIMARY_CAUSAL" /\ benchmark_eligible(entries[n])}
superiority_denominator(entries) ==
  Cardinality({n \in DOMAIN entries : entries[n].role = "PRIMARY_CAUSAL"})

\* The block at the top of the file wins over the entry's own family.
family_map(entries, method_families) ==
  [n \in DOMAIN method_families \cup {x \in DOMAIN entries : entries[x].family # ""} |->
     IF n \in DOMAIN method_families THEN method_families[n] ELSE entries[n].family]
families_of(names, fam) == {IF n \in DOMAIN fam THEN fam[n] ELSE n : n \in names}
registry_headline_eligible(entries, method_families, required) ==
  Cardinality(families_of(eligible_primary(entries), family_map(entries, method_families)))
    >= required
-----------------------------------------------------------------------------
(* A reproduction run: [steps, observed, expected, tolerance, interval],    *)
(* interval <<lo, hi>> or << >> when none is published.                     *)

GATE_STEPS == {"environment_installs", "checkpoint_loads", "native_example_runs",
               "output_is_textual", "budget_adapter_works"}
deviation(run) ==
  IF run.observed = NoMetric \/ run.expected = NoMetric THEN NoMetric
  ELSE run.observed - run.expected
\* "observed or nan": an observed metric of zero is in no interval.
metric_ok(run) ==
  /\ deviation(run) # NoMetric
  /\ IF run.interval # << >>
     THEN run.observed # 0 /\ run.interval[1] <= run.observed /\ run.observed <= run.interval[2]
     ELSE Magnitude(deviation(run)) <= run.tolerance
reproduced(run) == GATE_STEPS \subseteq run.steps /\ metric_ok(run)

apply_to(run, e) ==
  [e EXCEPT !.reproduced = run.observed, !.deviation = deviation(run),
            !.status = IF reproduced(run) THEN "READY" ELSE "UNREPRODUCED"]
=============================================================================
