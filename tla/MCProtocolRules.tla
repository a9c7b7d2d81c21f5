--------------------------- MODULE MCProtocolRules ---------------------------
(* The pure rules of the package, called one at a time over small inputs.   *)
(* `call` holds the last call: the rule, what it was given and what it       *)
(* returned; a behaviour is any sequence of calls and returns.               *)
EXTENDS ProviderAdapters, BudgetRules, ClaimRules, EstimateRules, AnswerRules,
        RuleInstances

Rg == INSTANCE Regime      \* its fractions are records, EstimateRules' are pairs

VARIABLE call

Idle == [rule |-> "none"]
Init == call = Idle
Ready == call = Idle
Call(rule, args, ret) == call' = [rule |-> rule, args |-> args, ret |-> ret]
Return == call # Idle /\ call' = Idle
-----------------------------------------------------------------------------
(* Providers.                                                               *)

Requests == [model : {"", "gpt-5.6"}, budget : {0, 1}, seed : {"None", "7"}, stop : BOOLEAN]
Replies == [model : {"", "served"}, usage : BOOLEAN, finish : {"stop"}, fingerprint : {"fp"},
            reasoning : {3}]
Adapters == [name : Providers, model : {"", "gpt-5.1", "plain"}, allow_network : BOOLEAN,
             enabled : BOOLEAN]
Worlds(name) == [sdks : SUBSET {SdkOf[name]}, keys : SUBSET {name}]

Generate == Ready /\ \E a \in Adapters, r \in Requests, v \in Replies : \E env \in Worlds(a.name) :
  Call("generate", [a |-> a, env |-> env, r |-> r], generate(a, env, r, v))
Legacy == Ready /\ \E kind \in KnownProviders \cup {"other"}, model \in {"", "plain"}, net \in BOOLEAN :
  \E env \in [keys : SUBSET {kind}] :
    LET p == build_provider(kind, model, net)
    IN  Call("legacy", p, IF p.error # "" THEN p.error ELSE remote_generate(p, env))

(* Every request a vendor adapter sends was allowed by the guards it shows  *)
(* the interface (adapters.py, protocol.py), carries no option the           *)
(* capability registry denies, and is reported under the model it named;    *)
(* a request that names a reasoning model is sent without sampling options, *)
(* whatever model the adapter itself is pinned to (adapters.py:40-56);    *)
(* the mocks send nothing, and the older providers make no call at all.     *)
AdaptersAgree ==
  /\ call.rule = "generate" =>
       LET a == call.args.a
           shown == status_dict(a, call.args.env)
           row == capabilities_for(a.name)
       IN  /\ a.name # "mock" =>
                (call.ret.sent <=> /\ shown.state = "CONFIGURED" /\ shown.model_pinned
                                   /\ a.allow_network /\ call.args.r.budget > 0)
           /\ (a.name = "mock" => ~call.ret.sent)
           /\ (row.support["seed_support"] = "NO" => "seed" \notin call.ret.options)
           /\ (a.name = "openai" /\ call.args.r.model \in ReasoningOnly
                 => call.ret.options \cap Sampling = {})
           /\ call.ret.sent => call.ret.response.requested_model = Called(a, call.args.r)
           /\ call.ret.error = "" => call.ret.response.returned_model # "" \/ a.name = "mock"
           /\ row.resolved => unresolved_fields(row) = {}
           /\ row.support["pinned_model_snapshots"] = "YES"
                <=> row.version_class \in admissible_as_primary_confirmatory
  /\ call.rule = "legacy" => (call.ret = "" <=> call.args.error = "" /\ call.args.kind = "mock")
-----------------------------------------------------------------------------
(* Budgets.                                                                 *)

Items == {{[id |-> i, cost |-> c[i], util |-> u[i]] : i \in 1..3} :
            c \in [1..3 -> 1..3], u \in [1..3 -> 0..2]}
Records == {{[id |-> i, cost |-> c[i], util |-> u[i], transmitted |-> i \in T] : i \in 1..3} :
              c \in [1..3 -> 1..2], u \in [1..3 -> 0..2], T \in SUBSET (1..3)}
BudgetGrid == {4, 5, 6, 7, 8, 10}       \* the study's grid, in fifties of tokens
Roles3 == [i \in 1..3 |-> IF i = 2 THEN "numeric" ELSE "period"]

Knapsack == Ready /\ \E items \in Items, b \in 0..6 :
  Call("knapsack", [items |-> items, budget |-> b], knapsack(items, b))
Target == Ready /\ \E records \in Records, b \in 1..4 :
  Call("targeting", [records |-> records, budget |-> b],
       evaluate_targeting(records, b, << <<1, 2, 3>>, <<3, 1, 2>> >>))
Allocate == Ready /\ \E cost \in [1..3 -> 1..2], score \in [1..3 -> -1..1], b \in 0..4,
              header \in 0..1, joint \in 0..1 :
  Call("allocate", [budget |-> b, header |-> header],
       allocate(1..3, cost, score, b, header, joint))
Evict == Ready /\ \E tokens \in [1..3 -> 1..4], tolerance \in 0..2 :
  \E focal \in candidate_set(1..3, tokens, tolerance) :
    Call("evict", [focal |-> focal, tokens |-> tokens, tolerance |-> tolerance],
         choose_eviction_partner(focal, 1..3, tokens, Roles3, tolerance))
Calibrate == Ready /\ \E n \in 1..3 : \E costs \in [1..n -> {2, 5, 9, 13, 17, 25}] :
  \E id \in {"old", "new"} :
    Call("calibrate", [costs |-> costs, now |-> id],
         calibrate_receiver_budget(costs, [receiver_id |-> "r", identity |-> "old"], BudgetGrid))
Calibration == Ready /\ \E first, second \in [1..3 -> {1, 2, 4}], calls \in {40, 120} :
  Call("calibration", [tokens |-> <<first, second>>, calls |-> calls],
       run_calibration(<<first, second>>, BudgetGrid, 0..2, 2, calls, {1, 2, 4}))
Interact == Ready /\ \E with, without \in [1..2 -> 0..2], deltas \in [1..3 -> -1..1] :
  Call("interaction", [inter |-> [i \in 1..2 |-> Abs(with[i] - without[i])], deltas |-> deltas],
       additivity_supported(with, without, deltas))
Thin == Ready /\ \E candidates \in 0..5, b \in {10, 40, 80}, retention \in {70, 90} :
  Call("subset", [candidates |-> candidates, budget |-> b],
       select_experiment_c_subset(candidates, b, retention, {1, 2, 4}, 25, 80))

(* knapsack is optimal and returns what attains its optimum (the oracle of  *)
(* every targeting ratio); no random draw, and no observed message within   *)
(* the budget, beats it; an allocated message fits unless nothing is in it; *)
(* an eviction partner is itself a candidate; a calibrated budget binds      *)
(* whenever one of the grid does, and stands for one receiver identity;     *)
(* the Experiment C subset is paid for, and a calibration that finds no       *)
(* tolerance keeping four fifths of the atoms paired names no subset at all;  *)
(* additivity, which compares the mean interaction with a quarter of the     *)
(* mean effect, is supported by no pair in which one interaction exceeds     *)
(* half of it.                                                               *)
BudgetsAreOptimal ==
  /\ call.rule = "knapsack" =>
       LET items == call.args.items
           Cost(S) == TotalOf(S, [it \in items |-> it.cost])
           Util(S) == TotalOf(S, [it \in items |-> it.util])
           chosen == {it \in items : it.id \in call.ret.chosen}
       IN  /\ Cost(chosen) <= call.args.budget /\ Util(chosen) = call.ret.total_utility
           /\ \A S \in SUBSET items : Cost(S) <= call.args.budget => Util(S) <= call.ret.total_utility
  /\ call.rule = "targeting" =>
       LET observed == {r \in call.args.records : r.transmitted}
       IN  /\ call.ret.g_rand <= 2 * call.ret.g_star
           /\ TotalOf(observed, [r \in observed |-> r.cost]) <= call.args.budget
                => call.ret.g_obs <= call.ret.g_star
  /\ call.rule = "allocate" =>
       call.ret.total_cost <= Max({call.args.budget, IF call.ret.chosen_atom_ids = {}
                                                     THEN call.args.header ELSE 0})
  /\ call.rule = "evict" =>
       LET a == call.args
       IN  /\ call.ret # a.focal /\ call.ret \in candidate_set(1..3, a.tokens, a.tolerance)
           /\ \A b \in 1..3 \ {a.focal} :
                Gap(a.tokens, a.focal, call.ret) <= Gap(a.tokens, a.focal, b)
  /\ call.rule = "calibrate" =>
       /\ (\E b \in BudgetGrid : binds(call.args.costs, b)) => binds(call.args.costs, call.ret.b_star)
       /\ calibration_refused({call.ret}, [receiver_id |-> "r", identity |-> call.args.now])
            <=> call.args.now # "old"
  /\ (call.rule = "subset" /\ call.ret # -1) =>
       8 * call.ret * call.args.candidates <= call.args.budget
  /\ call.rule = "calibration" =>
       LET r == call.ret
           Partnered(d) == {x \in 1..3 : \E y \in 1..3 \ {x} :
                              Abs(call.args.tokens[d][x] - call.args.tokens[d][y]) <= r.tolerance}
       IN  /\ (r.tolerance = -1 => r.subset_size = -1)
           /\ (r.tolerance # -1 =>
                 5 * (Cardinality(Partnered(1)) + Cardinality(Partnered(2))) >= 4 * 6)
           /\ 200 * Max({0, r.subset_size}) * r.candidates <= 15 * call.args.calls
  /\ (call.rule = "interaction" /\ call.ret) =>
       \A i \in 1..2 : call.args.inter[i] * 4 * 3
                      <= 2 * SumFunction([j \in 1..3 |-> Abs(call.args.deltas[j])])
-----------------------------------------------------------------------------
(* Claims.                                                                  *)

Entries == [role : {"PRIMARY_CAUSAL", "CONTROL", "ENDPOINT_ONLY"}, status : {"NOT_READY", "READY"},
            produces_text : BOOLEAN, reasons : {{}, {"commit"}}, reproduced : {NoMetric},
            deviation : {NoMetric}, tolerance : {0, 1}, family : {""},
            fields : [{"commit", "license"} -> {"value", "", "NOT_REQUIRED"}]]
Runs == [steps : {GATE_STEPS, GATE_STEPS \ {"checkpoint_loads"}}, observed : {NoMetric, 0, 3, 6},
         expected : {NoMetric, 4}, tolerance : {1}, interval : {<< >>}]
Methods == {"a", "b", "c", "d"}
Families == [m \in {"c", "d"} |-> "cd"]     \* a and b stand for themselves

Reproduce == Ready /\ \E e \in Entries, r \in Runs :
  Call("reproduce", [entry |-> e, run |-> r], apply_to(r, e))
Superiority == Ready /\ \E result \in [Methods -> {"won", "lost", "unrun"}], eligible \in SUBSET Methods :
  LET run == SetToSeq({m \in Methods : result[m] # "unrun"})
  IN  Call("superiority", [result |-> result, eligible |-> eligible],
           evaluate_superiority([i \in DOMAIN run |-> [comparator |-> run[i], win |-> result[run[i]] = "won"]],
                                eligible, Methods, Families, 3, 3))
Bootstrap == Ready /\ \E ours \in [1..2 -> 0..2], theirs \in [{"a", "b"} -> [1..2 -> 0..1]],
                draws \in [1..2 -> [1..2 -> 1..2]], min_ready \in {2, 3}, min_docs \in {2, 3} :
  Call("bootstrap", [diffs |-> [c \in {"a", "b"} |-> Differences(ours, theirs[c], {1, 2})],
                     draws |-> draws],
       paired_bootstrap(ours, ours, theirs, theirs, draws, min_ready, min_docs))

Assets == {[dir |-> "figures", name |-> "x"], [dir |-> "tables", name |-> "y"]}
Targets == [fig |-> [dir |-> "figures", name |-> "x"], tab |-> [dir |-> "tables", name |-> "y"]]
Manifests == {NotAsked, Absent} \cup {Manifest(g) : g \in UNION {[A -> {{}, {"artifact_sha256"}, Gaps}] : A \in SUBSET Assets}}
Manuscript == Ready /\ \E tbd \in BOOLEAN, held \in SUBSET {"fig"}, labels \in SUBSET {"fig", "tab", "eq"},
                 files \in SUBSET Assets, m \in Manifests, log, strict, mock \in BOOLEAN :
  LET tex == [tbd |-> tbd, phfig |-> held, labels |-> labels]
      stamped == stamp(stamp(m, Targets.fig, files), Targets.tab, files)
  IN  Call("manuscript", [tex |-> tex, files |-> files, m |-> m, strict |-> strict],
           run_export(check_manuscript(tex, Targets, {}, files, stamped, log, strict), Targets, TRUE, mock))
Freeze == Ready /\ \E paths \in SUBSET (1..2), before, after \in [1..2 -> 1..2] :
  Call("manifest", [paths |-> paths, before |-> before, after |-> after],
       manifest_verifies(build_manifest(paths, before), after))
AdapterOf(n) == IF n \in DOMAIN Controls THEN Controls[n] ELSE ExternalAdapters[n]
\* What the method's own _compress makes of a document of so many tokens.
Made(n, made, b, leaks) ==
  CASE n = "head_truncation" -> head_truncation(made, b)
    [] n = "vanilla_relay" -> vanilla_relay(made, b, IF leaks THEN "own" ELSE "GLOBAL_DOWNSTREAM_TASK")
    [] n = "uniform_atoms" -> uniform_atoms(<<made, 1>>, b, 1)
    [] n = "full_context" -> Produced(made)
    [] OTHER -> external_compress
Compress == Ready /\ \E n \in DOMAIN Controls \cup DOMAIN ExternalAdapters, made, b \in 0..2,
               leaks, enforce \in BOOLEAN :
  Call("compress", [adapter |-> AdapterOf(n), budget |-> b, leaks |-> leaks, enforce |-> enforce],
       Compressed(AdapterOf(n), Made(n, made, b, leaks), b, leaks, enforce))
Benchmark == Ready /\ \E fails \in SUBSET (DOMAIN Controls \cup {"parallelcomp"}) :
  LET methods == [n \in DOMAIN Controls \cup DOMAIN ExternalAdapters |-> AdapterOf(n)]
      outcomes == [n \in DOMAIN methods |-> IF n \in fails THEN external_compress ELSE Produced(1)]
      result == run_document(methods, outcomes)
  IN  Call("benchmark", [methods |-> methods, fails |-> fails],
           [result |-> result, parts |-> partition_results(methods, result.runs)])

Registered == [Methods -> [role : {"PRIMARY_CAUSAL", "LEGACY_ANCHOR"}, ready : BOOLEAN]]
EntryOf(x) == [role |-> x.role, status |-> IF x.ready THEN "READY" ELSE "UNREPRODUCED",
               produces_text |-> TRUE, reasons |-> {}, reproduced |-> 1, deviation |-> 0,
               tolerance |-> 1, family |-> "", fields |-> [license |-> "value"]]
Comparators == Ready /\ \E x \in Registered :
  LET entries == [m \in Methods |-> EntryOf(x[m])]
  IN  Call("comparators", [x |-> x],
           [eligible |-> eligible_primary(entries), denominator |-> superiority_denominator(entries),
            headline |-> registry_headline_eligible(entries, Families, 3),
            v35 |-> is_headline_sota_eligible([m \in Methods |->
                      IF x[m].ready THEN "BENCHMARK_READY" ELSE PRIMARY_COMPARATOR_REGISTRY["TacoRl"]])])
Cells == [family : {"COMI", "LLMLingua2"}, metric : {"Tbar", "task_score"}, estimate : BOOLEAN,
          status : {"COMPLETE", "PENDING"}, raw_sha : BOOLEAN, cell_id : BOOLEAN]
Cell == Ready /\ \E c \in Cells :
  Call("cell", c, metric_refused(c.family, c.metric) \/ lineage_refused(c))

\* What two prompts answered, and the audit record made of it.
Observed == [{"p", "q"} -> [1..2 -> {"x", "y"}]]
AuditOf(outputs, completed) ==
  [completed |-> completed, n_inputs |-> Cardinality(DOMAIN outputs), n_repeats |-> 2,
   inputs_with_disagreement |-> Cardinality(Rg!Disagreeing(outputs))]
Ledger == Ready /\ \E first, second \in Observed, done \in BOOLEAN, needed \in 2..3, same \in BOOLEAN :
  LET once == Rg!RecordAudit([c \in {} |-> {}], "main", AuditOf(first, TRUE))
      ledger == Rg!RecordAudit(once, IF same THEN "main" ELSE "other", AuditOf(second, done))
  IN  Call("ledger", [last |-> IF same THEN second ELSE first, done |-> ~same \/ done, needed |-> needed],
           Rg!ClaimsPermitted(Rg!RegimeFor(ledger, "main", needed, 2)))

(* A registry entry that becomes eligible was reproduced within tolerance    *)
(* with nothing left unresolved; a permitted claim has three winning         *)
(* families (all of them, when there are only three); the simultaneous       *)
(* bound never exceeds the marginal one, and PASS means the marginal bounds are positive too; a  *)
(* strict export that succeeds owes no asset and hides no placeholder, and   *)
(* where a manifest is asked for, every asset in it has its provenance; a    *)
(* manifest verifies exactly the disk it was built from; no text leaves an   *)
(* adapter that is not ready, leaks or overruns; a benchmark report places   *)
(* each run in one column; no headline is open to fewer families than it     *)
(* needs, and a claim about single atoms only to a receiver whose last      *)
(* audit was complete, large enough and found it deterministic.             *)
ClaimsAreEarned ==
  /\ call.rule = "reproduce" =>
       LET e == call.ret
           r == call.args.run
       IN  (benchmark_eligible(e) /\ e.role # "CONTROL") =>
             /\ reproduced(r) /\ e.produces_text
             /\ Magnitude(r.observed - r.expected) <= 2
             /\ \A f \in DOMAIN e.fields : e.fields[f] = "value" \/ (f = "commit" /\ f \in e.reasons)
  /\ (call.rule = "superiority" /\ call.ret.permitted) =>
       LET won == {m \in call.args.eligible : call.args.result[m] = "won"}
       IN  /\ Cardinality(won) >= 3 /\ Cardinality(families_of(won, Families)) >= 3
           /\ (Cardinality(families_of(call.args.eligible, Families)) = 3 => won = call.args.eligible)
  /\ call.rule = "bootstrap" =>
       LET a == call.args
       IN  /\ \A c \in DOMAIN a.diffs :
                SimultaneousBound(a.diffs, c, a.draws) <= MarginalBound(a.diffs, c, a.draws)
           /\ (call.ret.verdict = "PASS") =>
                \A c \in DOMAIN a.diffs : MarginalBound(a.diffs, c, a.draws) > 0
  /\ (call.rule = "manuscript" /\ call.args.strict /\ call.ret = "EXECUTED") =>
       LET a == call.args
       IN  /\ ~a.tex.tbd /\ a.tex.phfig = {} /\ (a.m.asked => a.m.present)
           /\ \A l \in a.tex.labels \cap DOMAIN Targets :
                Targets[l] \in a.files /\ (a.m.asked => Targets[l] \in DOMAIN a.m.entries)
           /\ \A x \in DOMAIN a.m.entries :
                a.m.entries[x] = {} \/ (a.m.entries[x] = {"artifact_sha256"} /\ x \in a.files)
  /\ call.rule = "manifest" =>
       (call.ret <=> \A p \in call.args.paths : call.args.before[p] = call.args.after[p])
  /\ (call.rule = "compress" /\ call.ret.raised = "") =>
       /\ call.args.adapter.status # "NOT_READY" /\ ~call.args.leaks
       /\ (call.args.enforce => call.ret.tokens <= call.args.budget)
  /\ call.rule = "benchmark" =>
       LET runs == call.ret.result.runs
       IN  /\ \A n \in runs : Cardinality({r \in Reported : n \in call.ret.parts[r]}) = 1
           /\ \A n \in runs : call.args.methods[n].status # "NOT_READY"
           /\ call.ret.parts["PRIMARY_CAUSAL"] \subseteq PRIMARY_SOTA
           /\ \A n \in call.ret.parts["ENDPOINT_ONLY"] : ~causal_metrics_allowed(call.args.methods, n)
  /\ call.rule = "comparators" =>
       LET primary == {m \in Methods : call.args.x[m].role = "PRIMARY_CAUSAL"}
           ready == {m \in Methods : call.args.x[m].ready}
       IN  /\ (call.ret.headline => {"c", "d"} \cap primary \cap ready # {} /\ {"a", "b"} \subseteq primary \cap ready)
           /\ Cardinality(call.ret.eligible) <= call.ret.denominator
           /\ (call.ret.v35 => ready = Methods)
  /\ (call.rule = "cell" /\ ~call.ret) =>
       /\ (call.args.metric = "Tbar" => call.args.family # "COMI")
       /\ (call.args.estimate /\ call.args.status = "COMPLETE" => call.args.raw_sha /\ call.args.cell_id)
  /\ (call.rule = "ledger" /\ call.ret) =>
       /\ call.args.done /\ call.args.needed <= Cardinality(DOMAIN call.args.last)
       /\ Rg!determinism_audit(call.args.last) = "D"
-----------------------------------------------------------------------------
(* Estimates and interventions.                                             *)

Sizes == UNION {[1..m -> 1..3] : m \in 2..3}           \* stratum -> its size
Inventory(size) == {[id |-> p, role |-> p[1]] :
                      p \in {p \in (DOMAIN size) \X (1..3) : p[2] <= size[p[1]]}}
Outcomes == [t : 0..1, w : {1, 3}, rm : 0..1, dp : 0..1]
Sample(s) == [i \in DOMAIN s |-> [doc |-> i, role |-> IF i = 2 THEN "scope" ELSE "period",
                                  w |-> s[i].w, q |-> i, t |-> s[i].t, rm |-> s[i].rm, dp |-> s[i].dp]]
Samples(lengths) == UNION {[1..n -> Outcomes] : n \in lengths}

Design == Ready /\ \E size \in Sizes, cap \in 1..5 :
  Call("design", [size |-> size, cap |-> cap],
       [pi |-> all_inclusion_probabilities(Inventory(size), 2),
        drawn |-> select_focal(Inventory(size), 2),
        plan |-> plan_instrumentation(size, cap)])
Decompose == Ready /\ \E s \in Samples(1..3), two_phase \in BOOLEAN :
  Call("decompose", [records |-> Sample(s)], decompose(Sample(s), two_phase))
ByClass == Ready /\ \E s \in Samples({2, 3}) :
  Call("classes", [records |-> Sample(s)],
       [classes |-> decompose_by_class(Sample(s)),
        hops |-> divergence_curve(decompose_by_hop([h \in 1..2 |->
                   SelectSeq(Sample(s), LAMBDA r : r.t = h - 1)])),
        balance |-> stratum_balance_discrepancy([i \in DOMAIN s |-> s[i].rm],
                      [i \in DOMAIN s |-> s[i].w], [i \in DOMAIN s |-> Sample(s)[i].role])])
Region == Ready /\ \E s \in Samples({1, 2}), del, ins \in [1..2 -> 0..1], bar \in 0..1,
             mechanism \in {"del", "ins", "pooled"} :
  LET eps(o) == estimate_sham(o, <<1, 0>>)
  IN  Call("region", [records |-> Sample(s), mechanism |-> mechanism, bar |-> bar,
                      eps |-> [t \in 0..1 |-> IF t = 1 THEN eps(del) ELSE eps(ins)]],
           population_region(Sample(s), eps(del), eps(ins), bar, mechanism))
Probe == Ready /\ \E m \in [1..3 -> [successes : 0..3, m : {3}]], r \in [1..3 -> 0..1] :
  Call("probe", [probes |-> m, r |-> r],
       [trend |-> stratified_dose_response(m, r),
        order |-> order_invariance_check([i \in 1..3 |-> bin_label(m[i].successes, 3)],
                                         [i \in 1..3 |-> 2])])
Fold == Ready /\ \E n \in 2..4 : \E groups \in [1..n -> 1..3], error \in [1..2 -> 0..1], outer \in 2..3 :
  Call("fold", [groups |-> groups],
       [nested |-> run_nested(groups, error, outer, 2), policy |-> fit_policy(groups, error, outer, TRUE)])
Fit == Ready /\ \E split \in {"stage2_dev", "stage2_test"}, labels \in {"none", "cells"}, n \in 0..2 :
  Call("fit", [split |-> split, labels |-> labels, n |-> n],
       fit_policy([i \in 1..n |-> i], <<1, 0>>, 2, may_read_labels(split, labels)))
Validate == Ready /\ \E n \in 1..4 : \E predicted, truth \in [1..n -> BOOLEAN], stratum \in 1..2, gate \in {50, 99} :
  LET v == validation_score(predicted, truth)
  IN  Call("validate", [predicted |-> predicted, truth |-> truth, stratum |-> stratum, gate |-> gate],
           [score |-> v, passed |-> validation_passed(v, stratum, gate)])

Pieces == {Mention("z", "plain"), Mention("z", "spread"), Mention("y", "plain"),
           Word("word"), Word("versus"), Word("and"), Word("punct")}
Messages == UNION {[1..n -> Pieces] : n \in 0..3}
\* render_atom: the role's label and the value; a deletion takes the value.
Label == <<Word("label")>>
Rendered == Append(Label, Mention("z", "plain"))
Edit == Ready /\ \E message \in Messages, role \in {"entity", "numeric"}, budget \in 0..2 :
  LET T == is_transmitted(message, "z", role)
  IN  Call("edit", [message |-> message, transmitted |-> T, role |-> role, budget |-> budget],
           build_counterfactual(message, "z", T, Rendered, budget))
Sham == Ready /\ \E message \in Messages, equivalent \in {Mention("z", "plain"), Mention("z", "bare")} :
  Call("sham", [message |-> message],
       [deletion |-> sham_deletion(message, "z", equivalent),
        insertion |-> sham_insertion(message, "z", <<Mention("y", "plain")>>)])
SlotAtoms == {[sentence |-> 1, start |-> i, role |-> <<"period", "entity", "numeric", "entity">>[i],
               value |-> <<"a", "b", "c", "d">>[i]] : i \in 1..4}
             \cup {[sentence |-> 2, start |-> 5, role |-> "scope", value |-> "e"]}
Skeleton == Ready /\ \E atoms \in SUBSET SlotAtoms, focal \in {"entity", "period", "scope"} :
  \E tup \in build_candidate_tuples(atoms, 2) :
    /\ is_eligible(tup, focal, 2)
    /\ Call("skeleton", [atoms |-> atoms, tup |-> tup, focal |-> focal],
            [natural |-> render_skeleton(tup, focal, natural_mapping(tup)),
             blocked |-> render_skeleton(tup, focal, [r \in {"entity", "numeric"} |-> "other"])])

Unchanged(message, z) == SelectSeq(message, LAMBDA p : p.value # z /\ p # Word("punct"))
\* The inclusion probability, from the selections themselves: a selection's
\* weight is one over the product of the sizes of its strata, here in
\* thirty-sixths.
DrawnShare(size, drawn, a) ==
  LET Ways(S) == 36 \div FoldSet(LAMBDA b, acc : acc * size[b.role], 1, S)
  IN  <<MapThenSumSet(Ways, {S \in drawn : a \in S}), MapThenSumSet(Ways, drawn)>>

\* The expected Horvitz-Thompson total of an atom's number within its stratum,
\* over the selections and their probabilities.
ExpectedTotal(size, drawn) ==
  LET Estimate(S) ==
        LET s == SetToSeq(S)
        IN  horvitz_thompson([i \in DOMAIN s |-> s[i].id[2]],
                             [i \in DOMAIN s |-> Cardinality(DOMAIN size) * size[s[i].role]], 2)
      Ways(S) == 36 \div FoldSet(LAMBDA b, acc : acc * size[b.role], 1, S)
  IN  <<MapThenSumSet(LAMBDA S : Ways(S) * Estimate(S)[1], drawn), 2 * MapThenSumSet(Ways, drawn)>>

(* A sampled document's inclusion probabilities are the ones its selections  *)
(* have, they make the weighted total unbiased, and instrumentation is       *)
(* positive and within its cap; the                                         *)
(* decomposition closes and its three selection-bias routes agree, each      *)
(* defined exactly where the code says it is; the classes recombine into     *)
(* the pooled estimate; a partial region contains its point and excludes     *)
(* zero on its side, and is the atom's own region for one atom; the matcher  *)
(* gate passes only on both strata; no document is predicted by a model that saw it; an      *)
(* accepted deletion takes every span and no other content; an inserted atom *)
(* can always be deleted again, and then the message keeps the label of its  *)
(* role and nothing more; a sham keeps the atom and everything else; matched *)
(* arms share one skeleton.                                                  *)
EstimatesAgree ==
  /\ call.rule = "design" =>
       LET size == call.args.size
           pi == call.ret.pi
           plan == call.ret.plan
       IN  /\ \A a \in Inventory(size) : SameNumber(pi[a.id], DrawnShare(size, call.ret.drawn, a))
           /\ MapThenSumSet(LAMBDA a : (36 * pi[a][1]) \div pi[a][2], DOMAIN pi) = 36 * 2
           /\ is_eligible_document(Inventory(size), 2) /\ ~PositivityError(SetToSeq({pi[a] : a \in DOMAIN pi}))
           /\ SameNumber(ExpectedTotal(size, call.ret.drawn), Frac(MapThenSumSet(LAMBDA i : i[2], DOMAIN pi)))
           /\ \A r \in DOMAIN size : plan.take[r] \in 1..size[r]
           /\ SumFunction(plan.take) <= Max({call.args.cap, Cardinality(DOMAIN size)})
  /\ call.rule = "decompose" =>
       LET d == call.ret
           ts == {call.args.records[i].t : i \in DOMAIN call.args.records}
       IN  /\ SameNumber(d.endpoint_fidelity, Plus(d.r_bar_zero, Plus(d.volume, d.alignment)))
           /\ d.r_observational = None <=> 0 \notin ts
           /\ d.selection_bias = None <=> ts # {0, 1}
           /\ d.selection_bias # None =>
                /\ SameNumber(d.selection_bias, d.selection_bias_identity)
                /\ SameNumber(d.selection_bias, d.selection_bias_conditional)
  /\ call.rule = "classes" =>
       LET s == call.args.records
           W(r) == Frac(SumFunction([i \in {j \in DOMAIN s : s[j].role = r} |-> s[i].w]))
           parts == FoldSet(LAMBDA r, acc :
                      Plus(acc, Times(W(r), call.ret.classes[r].endpoint_fidelity)),
                      Frac(0), DOMAIN call.ret.classes)
       IN  /\ SameNumber(parts, Times(Frac(SumFunction([i \in DOMAIN s |-> s[i].w])),
                                      decompose(s, FALSE).endpoint_fidelity))
           /\ (\A i, j \in DOMAIN s : s[i].rm = s[j].rm) => call.ret.balance[1] = 0
           /\ \A i \in DOMAIN call.ret.hops : AtMost(call.ret.hops[i][2], Frac(1))
  /\ (call.rule = "region" /\ ~call.ret.raised) =>
       LET c == call.ret.point_corrected
       IN  (AtMost(c, Frac(Unit)) /\ AtMost(Frac(-Unit), c)) =>
             /\ AtMost(call.ret.lower, c) /\ AtMost(c, call.ret.upper)
             /\ (excludes_zero(call.ret) => Magnitude(c[1]) > call.args.bar * c[2])
             /\ (Len(call.args.records) = 1) =>
                  LET r == call.args.records[1]
                      one == atom_region(r, call.args.eps[r.t], call.args.bar, 0)
                  IN  SameNumber(one[1], call.ret.lower) /\ SameNumber(one[2], call.ret.upper)
  /\ call.rule = "probe" =>
       LET means == call.ret.trend.means
       IN  /\ SumFunction(call.ret.trend.counts) = Len(call.args.probes)
           /\ call.ret.order[1] = call.ret.trend.counts[2]
           /\ (call.ret.trend.monotone_increasing /\ means[1] # None /\ means[3] # None)
                => AtMost(means[1], means[3])
  /\ call.rule = "fit" =>
       (call.ret.raised = "LabelLeakError" <=> call.args.split = "stage2_test" /\ call.args.labels # "none")
  /\ (call.rule = "validate" /\ call.ret.passed) =>
       LET a == call.args
           Wrong(b) == Cardinality({i \in DOMAIN a.truth : a.predicted[i] = b /\ a.truth[i] # b})
           Right == Cardinality({i \in DOMAIN a.truth : a.predicted[i] /\ a.truth[i]})
       IN  /\ \A b \in BOOLEAN : a.stratum <= Cardinality({i \in DOMAIN a.truth : a.truth[i] = b})
           /\ \A b \in BOOLEAN : 100 * Wrong(b) <= (100 - a.gate) * (Right + Wrong(b))
  /\ (call.rule = "fold" /\ call.ret.nested.raised # "ValueError") =>
       LET docs == Documents(call.args.groups, DOMAIN call.args.groups)
           folds == call.ret.nested.fold_results
       IN  /\ call.ret.nested.raised = ""
           /\ \A d \in docs :
                /\ Cardinality({k \in DOMAIN folds : d \in folds[k].test_document_ids}) = 1
                /\ d \notin Documents(call.args.groups, call.ret.nested.predictions[d].fitted_on)
  /\ (call.rule = "edit" /\ call.ret.accepted) =>
       LET m == call.args.message
           text == call.ret.text
       IN  /\ Unchanged(text, "z") =
                Unchanged(m, "z") \o (IF call.args.transmitted THEN << >> ELSE Label)
           /\ IF call.args.transmitted
              THEN /\ find_spans(text, "z") = {}
                   /\ (call.args.role = "numeric" => ~is_transmitted(text, "z", call.args.role))
              ELSE /\ is_transmitted(text, "z", call.args.role)
                   /\ call.ret.overrun >= Len(text) - call.args.budget
                   /\ delete_atom(text, "z").accepted
                   /\ delete_atom(text, "z").text = cleanup(m \o Label)
  /\ call.rule = "sham" =>
       LET m == call.args.message
           cut == call.ret.deletion
       IN  /\ (cut.accepted => /\ Unchanged(cut.text, "z") = Unchanged(m, "z")
                               /\ find_spans(cut.text, "z") # {})
           /\ call.ret.insertion.accepted
           /\ (is_transmitted(m, "z", "entity") <=> is_transmitted(call.ret.insertion.text, "z", "entity"))
  /\ call.rule = "skeleton" =>
       /\ assert_matched(call.ret.natural, call.ret.blocked)
       /\ \A i \in DOMAIN call.ret.blocked :
            call.ret.blocked[i].role = call.args.focal => call.ret.blocked[i].value = Blank
-----------------------------------------------------------------------------
(* Atoms.                                                                   *)

Match(role, start, stop, slug, mark) ==
  [role |-> role, start |-> start, stop |-> stop, value |-> <<slug, mark>>]
\* Nested and crossing matches, one repeated value, one value of two roles,
\* and two amounts that differ in their sign alone.
Matches == {Match("entity", 0, 5, "acme", ""), Match("scope", 0, 2, "global", ""),
            Match("numeric", 6, 8, "12-5", "%"), Match("numeric", 9, 12, "12-5", "$"),
            Match("scope", 10, 13, "eu", ""), Match("period", 12, 18, "fy2023q3", ""),
            Match("period", 15, 18, "fy2023", ""), Match("provenance", 18, 20, "note-4", ""),
            Match("numeric", 20, 22, "12-5", "%"), Match("scope", 23, 25, "acme", "")}
Reviewed == {c \in Matches : c.role \in {"numeric", "period"}}
Unread(atoms) == Iv!write_inventory(atoms)

Atomize == Ready /\ \E cands \in SUBSET Matches, hyphens \in {{}, {8}, {22}}, length \in {5, 26} :
  LET atoms == Iv!atomize(cands)
      frame == [length |-> length, hyphens |-> hyphens]
  IN  /\ Iv!within_frame(frame, atoms)
      /\ Call("atomize", [cands |-> cands],
              [kept |-> Iv!resolve_overlaps(cands), atoms |-> atoms,
               report |-> Iv!filter_eligible(atoms, frame, FALSE)])
Review == Ready /\ \E cands \in SUBSET Reviewed :
  LET atoms == Iv!atomize(cands)
      sheet == Iv!write_review_template(atoms)
  IN  \E decisions \in [DOMAIN atoms -> {"", "accepted", "rejected", "unsure"}] :
        LET reviewed == Iv!apply_review(atoms, Iv!Filled(sheet, decisions))
        IN  Call("review", [atoms |-> atoms, decisions |-> decisions],
                 [read |-> Iv!read_inventory(Unread(reviewed), TRUE),
                  report |-> Iv!filter_eligible(reviewed, [length |-> 26, hyphens |-> {}], TRUE)])
Agree == Ready /\ \E n \in 0..3 : \E a, b \in [1..n -> {"yes", "no", "skip"}] :
  Call("kappa", [a |-> a, b |-> b], Iv!cohen_kappa(a, b))

(* The inventory keeps disjoint spans, drops a match only for a kept one    *)
(* that is as long, and counts every kept span in exactly one atom; no two   *)
(* eligible atoms have one value; a reviewed inventory holds only rows that  *)
(* share their id with an accepted one, and where ids are distinct exactly   *)
(* the accepted ones, and what the eligibility filter admits after a review  *)
(* is in it; kappa is 1 for agreement alone and does not depend on the order *)
(* of the raters.                                                            *)
InventoryIsSound ==
  /\ call.rule = "atomize" =>
       LET kept == call.ret.kept
           atoms == call.ret.atoms
           report == call.ret.report
           eligible == ToSet(report.eligible)
       IN  /\ \A c, d \in kept : c # d => ~Iv!Overlap(c, d)
           /\ \A c \in call.args.cands \ kept :
                \E k \in kept : Iv!Overlap(c, k) /\ Iv!Span(c) <= Iv!Span(k)
           /\ \A c \in kept : Cardinality({i \in DOMAIN atoms : <<c.start, c.stop>> \in atoms[i].spans}) = 1
           /\ SumFunction([i \in DOMAIN atoms |-> atoms[i].occurrence_count]) = Cardinality(kept)
           /\ \A a, b \in eligible : a.value = b.value => a = b
           /\ Len(report.eligible) + Len(report.excluded) = Len(atoms)
  /\ call.rule = "review" =>
       LET atoms == call.args.atoms
           accepted == {i \in DOMAIN atoms : call.args.decisions[i] = "accepted"}
           Ids(s) == {s[i].id : i \in DOMAIN s}
       IN  /\ Ids(call.ret.read) \subseteq {atoms[i].id : i \in accepted}
           /\ Ids(call.ret.report.eligible) \subseteq Ids(call.ret.read)
           /\ Cardinality(Ids(atoms)) = Len(atoms) =>
                {r.value : r \in ToSet(call.ret.read)} = {atoms[i].value : i \in accepted}
  /\ (call.rule = "kappa" /\ call.ret[2] # 0) =>
       /\ call.ret[1] <= call.ret[2]
       /\ (call.ret[1] = call.ret[2] <=> call.args.a = call.args.b)
       /\ SameNumber(call.ret, Iv!cohen_kappa(call.args.b, call.args.a))

(* sampling/design.py:16 "sum_z pi_iz = ... = k exactly": the inclusion      *)
(* probabilities that Stage 1 computes for the eligible atoms of a document  *)
(* with three populated strata (run_stage1.py:265-270) sum to three.  They   *)
(* are kept by atom id.                                                      *)
InclusionSumsToK ==
  call.rule = "atomize" =>
    LET eligible == ToSet(call.ret.report.eligible)
        pi == all_inclusion_probabilities(eligible, 3)
    IN  is_eligible_document(eligible, 3) =>
          MapThenSumSet(LAMBDA i : (720 * pi[i][1]) \div pi[i][2], DOMAIN pi) = 720 * 3
-----------------------------------------------------------------------------
(* Records.                                                                 *)

Rows == [doc : {"d", "e"}, policy : {"p"}, metric : {"m", "n"}, eval : {1, 2}, sha : {1, 2},
         value : {Rc!Missing, 0, 1}, bad : {{}, {"split"}}]
Outcomes2 == [doc : {1, 2}, t : 0..1, y : 0..2]
Export == Ready /\ \E n \in 0..2 : \E records \in [1..n -> Rows] :
  Call("outcomes", records, Rc!validate_document_outcome_batch(records, 2))
Bold == Ready /\ \E n \in 0..3 : \E values \in [1..n -> {Rc!Missing, 0, 1, 2}], d \in {"up", "down", "none"} :
  Call("bold", [values |-> values, direction |-> d], Rc!best_index(values, d))
Interval == Ready /\ \E s \in UNION {[1..n -> Outcomes2] : n \in 0..3}, shift \in 0..1,
              draws \in [1..2 -> {<<1, 1>>, <<1, 2>>, <<2, 2>>}] :
  LET docs == Cardinality(Rc!Docs(s))
      used == IF docs = 2 THEN draws ELSE [r \in 1..2 |-> [i \in 1..docs |-> 1]]
      other == Reverse([i \in DOMAIN s |-> [s[i] EXCEPT !.y = @ + (shift * s[i].doc)]])
  IN  Call("interval", [shift |-> shift],
           [one |-> Rc!cluster_bootstrap(s, used), self |-> Rc!paired_cluster_bootstrap(s, s, used),
            gain |-> Rc!paired_cluster_bootstrap(other, s, used),
            loss |-> Rc!paired_cluster_bootstrap(s, other, used)])
Sealing == Ready /\ \E old, disk, later \in [{"x", "y"} -> 1..2], n \in 0..3 :
  LET sealed == Rc!SealedUpTo(n, Rc!Seal(old), disk)
  IN  Call("seal", [old |-> old, disk |-> disk, later |-> later, n |-> n], Rc!verify_record(sealed, later))
Guard == Ready /\ \E mode \in {"DEMO_MODE", "RESEARCH_MODE"}, explicit \in {"unset", "on", "off"}, env \in BOOLEAN,
           position \in Rc!SCIENTIFIC_INFERENCE_PATH \cup Rc!DEMO_PERIMETER \cup {"other"} :
  LET enabled == Rc!guardrails_enabled(mode, explicit, env)
  IN  Call("guard", [mode |-> mode, enabled |-> enabled, position |-> position],
           Rc!position_allowed(position, mode, enabled))

(* A batch that is written has one row per document and two different        *)
(* answers behind any two rows of a policy and metric; the bold cell is at    *)
(* least as good as every other; a paired interval of an arm with itself is   *)
(* zero, exchanging the arms negates it, and an arm that is nowhere worse has *)
(* no negative bound; a record verifies only against the files it was sealed  *)
(* over, and never after a reseal that stopped half way unless nothing had    *)
(* changed; no enabled guardrail stands on the path of a measured message.    *)
RecordsAreSound ==
  /\ (call.rule = "outcomes" /\ call.ret = "written") =>
       \A i, j \in DOMAIN call.args :
         LET r == call.args[i]
             s == call.args[j]
         IN  (i # j /\ r.metric = s.metric) => r.doc # s.doc /\ r.sha # s.sha /\ r.eval # s.eval
  /\ (call.rule = "bold" /\ call.ret # 0) =>
       LET v == call.args.values
       IN  \A i \in DOMAIN v : v[i] # Rc!Missing =>
             IF call.args.direction = "up" THEN v[i] <= v[call.ret] ELSE v[i] >= v[call.ret]
  /\ (call.rule = "interval" /\ call.ret.gain.raised = "") =>
       LET r == call.ret
       IN  /\ r.self.lower = 0 /\ r.self.upper = 0
           /\ r.loss.lower = -r.gain.upper /\ r.loss.upper = -r.gain.lower
           /\ 0 <= r.gain.lower /\ r.gain.lower <= r.gain.upper
           /\ (call.args.shift = 1 => r.gain.lower >= 1000 * Rc!Scale)
           /\ r.one.lower <= r.one.upper /\ r.one.replicates = r.gain.replicates
  /\ call.rule = "seal" =>
       LET a == call.args
       IN  call.ret => /\ a.later = (IF a.n = 0 THEN a.old ELSE a.disk)
                       /\ (a.n \in 1..2 => a.old = a.disk)
  /\ (call.rule = "guard" /\ call.args.enabled /\ call.ret) =>
       call.args.position \in Rc!DEMO_PERIMETER /\ call.args.mode = "DEMO_MODE"
-----------------------------------------------------------------------------
Next == \/ Generate \/ Legacy
        \/ Knapsack \/ Target \/ Allocate \/ Evict \/ Calibrate \/ Thin \/ Calibration \/ Interact
        \/ Reproduce \/ Superiority \/ Bootstrap \/ Manuscript \/ Freeze \/ Compress \/ Benchmark
        \/ Comparators \/ Cell \/ Ledger
        \/ Design \/ Decompose \/ ByClass \/ Region \/ Probe \/ Fold \/ Fit \/ Validate \/ Edit \/ Sham \/ Skeleton
        \/ Atomize \/ Review \/ Agree \/ Export \/ Bold \/ Interval \/ Sealing \/ Guard
        \/ Return

Spec == Init /\ [][Next]_call
=============================================================================
