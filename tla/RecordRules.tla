----------------------------- MODULE RecordRules -----------------------------
(***************************************************************************)
(* What becomes of results: the outcome batches of export/, the bold cell   *)
(* of a table, the clustered bootstrap intervals of inference/, the sealed  *)
(* reproducibility record, and the perimeter of the guardrails.             *)
(***************************************************************************)
EXTENDS Integers, Sequences, FiniteSets, SequencesExt, FiniteSetsExt, Percentiles

\* An outcome is [doc, policy, metric, eval, sha, value, bad]: bad is the set of
\* fields that violate the schema, value is Missing for null.
Missing == -1
validate_document_outcome(r) == r.bad = {}

\* records is a sequence; a group is the set of its positions.
Shared(records, group, field) ==
  \E i, j \in group : i # j /\ records[i][field] = records[j][field]
Invariant(records, group, rows_needed) ==
  LET valued == {i \in group : records[i].value # Missing}
  IN  Cardinality(valued) >= rows_needed /\ Cardinality({records[i].value : i \in valued}) = 1
validate_document_outcome_batch(records, rows_needed) ==
  LET groups == {{j \in DOMAIN records : /\ records[j].policy = records[i].policy
                                         /\ records[j].metric = records[i].metric} : i \in DOMAIN records}
      lineage == \/ \E i \in DOMAIN records : ~validate_document_outcome(records[i])
                 \/ \E g \in groups : Shared(records, g, "doc")
      broadcast == \E g \in groups : \/ Shared(records, g, "eval") \/ Shared(records, g, "sha")
                                     \/ Invariant(records, g, rows_needed)
  IN  IF records = <<>> THEN "OutcomeLineageError"
      ELSE IF lineage \/ broadcast THEN "refused" ELSE "written"

\* The first row with the best value; 0 for none.  direction is up, down or none.
best_index(values, direction) ==
  LET shown == {i \in DOMAIN values : values[i] # Missing}
      best == {i \in shown : \A j \in shown :
                 IF direction = "up" THEN values[i] >= values[j] ELSE values[i] <= values[j]}
  IN  IF direction = "none" \/ shown = {} THEN 0 ELSE Min(best)
-----------------------------------------------------------------------------
(* Document-clustered bootstrap.  Items are [doc, t, y]; the statistic is    *)
(* the mean of y where t = 1, as <<integer over Scale>>, and raises, << >>,   *)
(* when there is none.  draws are the document positions of each replicate.  *)

Scale == 12
\* rows are pairs of the position of a draw and the position of an item.
Statistic(items, rows) ==
  LET on == {x \in rows : items[x[2]].t = 1}
  IN  IF on = {} THEN <<>>
      ELSE <<(Scale * SumFunction([x \in on |-> items[x[2]].y])) \div Cardinality(on)>>
Once(items) == {0} \X (DOMAIN items)
Docs(items) == {items[i].doc : i \in DOMAIN items}
Sorted(docs) ==
  [k \in 1..Cardinality(docs) |-> CHOOSE d \in docs : Cardinality({e \in docs : e < d}) = k - 1]
Resampled(items, docs, draw) ==
  {x \in (DOMAIN draw) \X (DOMAIN items) : items[x[2]].doc = docs[draw[x[1]]]}

\* A replicate whose statistic raises is left out; the point's ends the call.
IntervalOf(point, replicates) ==
  LET kept == {r \in DOMAIN replicates : replicates[r] # <<>>}
      values == [r \in kept |-> replicates[r][1]]
      n == Cardinality(kept)
  IN  IF point = <<>> THEN [raised |-> "statistic"]
      ELSE IF kept = {} THEN [raised |-> "RuntimeError"]
      ELSE [raised |-> "", point |-> point[1], lower |-> Percentile(values, n, 25),
            upper |-> Percentile(values, n, 975), replicates |-> n]

\* ReplicatesUnpaired counts the documents in the order their rows come in.
ReplicatesUnpaired(items, draws) ==
  LET First(d) == Min({i \in DOMAIN items : items[i].doc = d})
      docs == SetToSortSeq(Docs(items), LAMBDA d, e : First(d) < First(e))
  IN  [r \in DOMAIN draws |-> Statistic(items, Resampled(items, docs, draws[r]))]
Replicates(items, draws) ==
  [r \in DOMAIN draws |-> Statistic(items, Resampled(items, Sorted(Docs(items)), draws[r]))]
cluster_bootstrap(items, draws) ==
  IF items = <<>> THEN [raised |-> "ValueError"]
  ELSE IntervalOf(Statistic(items, Once(items)), Replicates(items, draws))

Difference(a, b) == IF a = <<>> \/ b = <<>> THEN <<>> ELSE <<a[1] - b[1]>>
paired_cluster_bootstrap(itemsA, itemsB, draws) ==
  IF itemsA = <<>> \/ Docs(itemsA) # Docs(itemsB) THEN [raised |-> "ValueError"]
  ELSE IntervalOf(Difference(Statistic(itemsA, Once(itemsA)), Statistic(itemsB, Once(itemsB))),
                  [r \in DOMAIN draws |-> Difference(Replicates(itemsA, draws)[r],
                                                    Replicates(itemsB, draws)[r])])
-----------------------------------------------------------------------------
(* The sealed record.  A hash stands for the content it is the hash of.      *)

\* The three files that seal_record writes, one after the other.
Seal(disk) ==
  [manifest |-> disk, sums |-> disk,
   seal |-> [record_manifest_sha256 |-> disk, sha256sums_sha256 |-> disk]]
SealFiles == <<"manifest", "sums", "seal">>
\* The process may end after the first of them.
SealedUpTo(n, old, disk) ==
  [f \in DOMAIN old |-> IF \E i \in 1..n : SealFiles[i] = f THEN Seal(disk)[f] ELSE old[f]]

\* Files that are not in the manifest are not looked at.
verify_record(r, disk) ==
  /\ \A p \in DOMAIN r.manifest : p \in DOMAIN disk /\ disk[p] = r.manifest[p]
  /\ r.manifest = r.seal.record_manifest_sha256
  /\ r.sums = r.seal.sha256sums_sha256
-----------------------------------------------------------------------------
(* Guardrails.                                                              *)

SCIENTIFIC_INFERENCE_PATH ==
  {"relay_to_receiver", "intervention_to_receiver", "counterfactual_receiver",
   "natural_receiver", "prior_probe"}
DEMO_PERIMETER == {"demo_input", "demo_output", "demo_pii", "demo_jailbreak", "demo_topic"}

\* explicit is "unset" when only the environment asks.
guardrails_enabled(mode, explicit, env) ==
  /\ IF explicit = "unset" THEN env ELSE explicit = "on"
  /\ mode # "RESEARCH_MODE"
position_allowed(position, mode, enabled) ==
  enabled => /\ position \notin SCIENTIFIC_INFERENCE_PATH
             /\ mode # "RESEARCH_MODE"
             /\ position \in DEMO_PERIMETER
=============================================================================
