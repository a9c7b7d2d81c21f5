---------------------------- MODULE EstimateRules ----------------------------
(***************************************************************************)
(* The design and what is estimated from it: the strata and inclusion       *)
(* probabilities of sampling/, the Hajek estimators and the decomposition   *)
(* of causal/, the sham region, the prior probe, the matcher gate and the   *)
(* document-grouped cross-fitting of causalrelay/.                          *)
(*                                                                         *)
(* A number the code keeps as a float is the exact fraction <<num, den>>    *)
(* with den > 0; a record's design weight 1 / pi is an integer.  A record   *)
(* is [doc, role, w, q, t, rm, dp].  None is the value the code does not    *)
(* report.                                                                  *)
(***************************************************************************)
EXTENDS Integers, Sequences, FiniteSets, SequencesExt, FiniteSetsExt

CONSTANT Unit      \* an outcome of one, on the integer scale of rm and dp

None == <<0, 0>>
Frac(n) == <<n, 1>>
Plus(x, y) == <<x[1] * y[2] + y[1] * x[2], x[2] * y[2]>>
Times(x, y) == <<x[1] * y[1], x[2] * y[2]>>
Negated(x) == <<-x[1], x[2]>>
Minus(x, y) == Plus(x, Negated(y))
Over(x, y) == IF y[1] > 0 THEN <<x[1] * y[2], x[2] * y[1]>>
              ELSE <<-x[1] * y[2], -(x[2] * y[1])>>
SameNumber(x, y) == x[1] * y[2] = y[1] * x[2]
AtMost(x, y) == x[1] * y[2] <= y[1] * x[2]
-----------------------------------------------------------------------------
(* The design.  atoms is a set of [id, role]; k strata are drawn, and one    *)
(* atom of each.                                                            *)

strata(atoms) ==
  [r \in {a.role : a \in atoms} |-> {a \in atoms : a.role = r}]
is_eligible_document(atoms, k) == Cardinality(DOMAIN strata(atoms)) >= k
inclusion_probability(m_strata, stratum_size, k) == <<k, m_strata * stratum_size>>
all_inclusion_probabilities(atoms, k) ==
  LET s == strata(atoms)
      OfRole(r) == inclusion_probability(Cardinality(DOMAIN s), Cardinality(s[r]), k)
  IN  [i \in {a.id : a \in atoms} |-> OfRole((CHOOSE a \in atoms : a.id = i).role)]
\* Every selection the generator may make.
select_focal(atoms, k) ==
  LET s == strata(atoms)
  IN  {S \in SUBSET atoms : /\ Cardinality(S) = k
                            /\ \A r \in DOMAIN s : Cardinality(S \cap s[r]) <= 1}

\* plan_instrumentation: how many candidates of each stratum are instrumented.
\* share[r] is cap * size[r] / n; ties go to the later role.
Surplus(size, n, cap, alloc, r) == alloc[r] * n - cap * size[r]
MostOver(size, n, cap, alloc, C) ==
  CHOOSE r \in C : \A s \in C : \/ Surplus(size, n, cap, alloc, r) > Surplus(size, n, cap, alloc, s)
                                \/ /\ Surplus(size, n, cap, alloc, r) = Surplus(size, n, cap, alloc, s)
                                   /\ r >= s
MostUnder(size, n, cap, alloc, C) ==
  CHOOSE r \in C : \A s \in C : \/ Surplus(size, n, cap, alloc, r) < Surplus(size, n, cap, alloc, s)
                                \/ /\ Surplus(size, n, cap, alloc, r) = Surplus(size, n, cap, alloc, s)
                                   /\ r >= s
Allocated(alloc) == SumFunction(alloc)

plan_instrumentation(size, cap) ==
  LET n == SumFunction(size)
      atLeastOne == [r \in DOMAIN size |-> Max({1, (cap * size[r]) \div n})]
      Droppable(alloc) == {r \in DOMAIN alloc : alloc[r] > 1}
      Fillable(alloc) == {r \in DOMAIN alloc : alloc[r] < size[r]}
      step[i \in 0..n] ==
        IF i = 0 THEN atLeastOne
        ELSE LET alloc == step[i - 1]
             IN  IF Allocated(alloc) > cap /\ Droppable(alloc) # {}
                 THEN [alloc EXCEPT ![MostOver(size, n, cap, alloc, Droppable(alloc))] = @ - 1]
                 ELSE IF Allocated(alloc) < cap /\ Fillable(alloc) # {}
                 THEN [alloc EXCEPT ![MostUnder(size, n, cap, alloc, Fillable(alloc))] = @ + 1]
                 ELSE alloc
      take == IF n <= cap THEN size ELSE [r \in DOMAIN size |-> Min({step[n][r], size[r]})]
  IN  [take |-> take, q |-> [r \in DOMAIN size |-> <<take[r], size[r]>>]]
-----------------------------------------------------------------------------
(* Weighting and the decomposition.                                         *)

PositivityError(pi) == pi = << >> \/ \E i \in DOMAIN pi : ~(0 < pi[i][1] /\ pi[i][1] <= pi[i][2])
design_weights(records, two_phase) ==
  [i \in DOMAIN records |-> IF two_phase THEN records[i].w * records[i].q ELSE records[i].w]

Weighted(values, weights) == SumFunction([i \in DOMAIN values |-> weights[i] * values[i]])
hajek(values, weights) == <<Weighted(values, weights), SumFunction(weights)>>
horvitz_thompson(values, weights, population_size) ==
  <<Weighted(values, weights), population_size>>

\* CovarianceUnweighted takes the plain mean of the products.
CovarianceUnweighted(x, y, weights) ==
  Minus(hajek([i \in DOMAIN x |-> x[i] * y[i]], [i \in DOMAIN x |-> 1]),
        Times(hajek(x, weights), hajek(y, weights)))
weighted_covariance(x, y, weights) ==
  Minus(hajek([i \in DOMAIN x |-> x[i] * y[i]], weights),
        Times(hajek(x, weights), hajek(y, weights)))

\* The mean of a restriction of the sample; None when nothing is in it.
Among(values, weights, idx) ==
  IF idx = {} THEN None
  ELSE hajek([i \in idx |-> values[i]], [i \in idx |-> weights[i]])

stratum_balance_discrepancy(values, weights, roles) ==
  LET Part(r) == {i \in DOMAIN roles : roles[i] = r}
      Share(r) == Minus(<<SumFunction([i \in Part(r) |-> weights[i]]), SumFunction(weights)>>,
                        <<Cardinality(Part(r)), Len(values)>>)
  IN  FoldSet(LAMBDA r, acc : Plus(acc, Times(Share(r), Among(values, weights, Part(r)))),
              Frac(0), {roles[i] : i \in DOMAIN roles})

decompose(records, two_phase) ==
  LET w == design_weights(records, two_phase)
      I == DOMAIN records
      t == [i \in I |-> records[i].t]
      rm == [i \in I |-> records[i].rm]
      delta == [i \in I |-> records[i].dp - records[i].rm]
      y == [i \in I |-> IF t[i] = 1 THEN records[i].dp ELSE rm[i]]
      omitted == {i \in I : t[i] = 0}
      a == hajek(y, w)
      r0 == hajek(rm, w)
      tbar == hajek(t, w)
      robs == Among(rm, w, omitted)
      contrast == omitted # {} /\ omitted # I
  IN  [endpoint_fidelity |-> a, r_bar_zero |-> r0, t_bar |-> tbar,
       delta_bar |-> hajek(delta, w),
       volume |-> Times(tbar, hajek(delta, w)),
       alignment |-> weighted_covariance(t, delta, w),
       c_comm |-> Minus(a, r0),
       c_recon |-> hajek([i \in I |-> (1 - t[i]) * rm[i]], w),
       phi |-> IF a[1] > 0 THEN Over(Minus(a, r0), a) ELSE None,
       r_observational |-> robs,
       selection_bias |-> IF contrast THEN Minus(robs, r0) ELSE None,
       selection_bias_identity |->
         IF contrast THEN Over(Negated(weighted_covariance(t, rm, w)), Minus(Frac(1), tbar))
         ELSE None,
       selection_bias_conditional |->
         IF contrast THEN Times(tbar, Minus(robs, Among(rm, w, I \ omitted))) ELSE None]

decompose_by_class(records) ==
  [r \in {records[i].role : i \in DOMAIN records} |->
     decompose(SelectSeq(records, LAMBDA x : x.role = r), FALSE)]

\* records_by_hop: hop -> records; the hops with any, in order, and A - Tbar.
decompose_by_hop(records_by_hop) ==
  LET hops == SetToSortSeq({h \in DOMAIN records_by_hop : records_by_hop[h] # << >>}, <)
  IN  [i \in DOMAIN hops |->
         [hop |-> hops[i], decomposition |-> decompose(records_by_hop[hops[i]], FALSE)]]
divergence_curve(estimates) ==
  [i \in DOMAIN estimates |->
     <<estimates[i].hop, Minus(estimates[i].decomposition.endpoint_fidelity,
                               estimates[i].decomposition.t_bar)>>]
-----------------------------------------------------------------------------
(* The sham correction.                                                     *)

sign_for(transmitted) == 2 * transmitted - 1
estimate_sham(outcomes_sham, outcomes_natural) ==
  <<SumFunction([i \in DOMAIN outcomes_sham |-> outcomes_sham[i] - outcomes_natural[i]]),
    Len(outcomes_sham)>>
corrected_delta(record, eps) ==
  Plus(Frac(record.dp - record.rm), Times(Frac(sign_for(record.t)), eps))

\* The records of one mechanism; "pooled" keeps both.
Arm(records, mechanism) ==
  SelectSeq(records, LAMBDA r : \/ mechanism = "pooled"
                                \/ mechanism = "del" /\ r.t = 1
                                \/ mechanism = "ins" /\ r.t = 0)
AtLeastMinusOne(x) == IF AtMost(x, Frac(-Unit)) THEN Frac(-Unit) ELSE x
AtMostOne(x) == IF AtMost(Frac(Unit), x) THEN Frac(Unit) ELSE x

\* The region, or a raised ValueError.
population_region(records, eps_del, eps_ins, eps_bar, mechanism) ==
  LET arm == Arm(records, mechanism)
      w == design_weights(arm, FALSE)
      total == Frac(SumFunction(w))
      corrected == Over(FoldSet(LAMBDA i, acc :
                          Plus(acc, Times(Frac(w[i]),
                            corrected_delta(arm[i], IF arm[i].t = 1 THEN eps_del ELSE eps_ins))),
                          Frac(0), DOMAIN arm), total)
  IN  IF eps_bar < 0 \/ arm = << >> THEN [raised |-> TRUE]
      ELSE [raised |-> FALSE,
            point_raw |-> hajek([i \in DOMAIN arm |-> arm[i].dp - arm[i].rm], w),
            point_corrected |-> corrected,
            lower |-> AtLeastMinusOne(Minus(corrected, Frac(eps_bar))),
            upper |-> AtMostOne(Plus(corrected, Frac(eps_bar)))]
excludes_zero(region) == region.lower[1] > 0 \/ region.upper[1] < 0
atom_region(record, eps, eps_bar, u_bar) ==
  LET centre == corrected_delta(record, eps)
      half == Frac(eps_bar + u_bar)
  IN  <<AtLeastMinusOne(Minus(centre, half)), AtMostOne(Plus(centre, half))>>
-----------------------------------------------------------------------------
(* The prior probe: m draws, the bins low, medium and high, and the trend.  *)

bin_label(successes, m) ==
  IF 3 * successes < m THEN 1 ELSE IF 3 * successes < 2 * m THEN 2 ELSE 3

\* probes: a sequence of [successes, m]; the mean of each bin, None when empty.
stratified_dose_response(probes, r_minus) ==
  LET In(b) == {i \in DOMAIN probes : bin_label(probes[i].successes, probes[i].m) = b}
      means == [b \in 1..3 |-> IF In(b) = {} THEN None
                               ELSE <<SumFunction([i \in In(b) |-> r_minus[i]]), Cardinality(In(b))>>]
      populated == SelectSeq(means, LAMBDA x : x # None)
  IN  [means |-> means, counts |-> [b \in 1..3 |-> Cardinality(In(b))],
       monotone_increasing |-> \A i \in 1..(Len(populated) - 1) :
                                 AtMost(populated[i], populated[i + 1])]
order_invariance_check(forward, shuffled) ==
  <<Cardinality({i \in DOMAIN forward : forward[i] = shuffled[i]}), Len(forward)>>

\* The matcher gate, per cent: a ratio with nothing under it is one.
Ratio100(num, den) == IF den = 0 THEN 100 ELSE (100 * num) \div den
validation_score(predicted, truth) ==
  LET Count(p, t) == Cardinality({i \in DOMAIN truth : predicted[i] = p /\ truth[i] = t})
  IN  [true_positive |-> Count(TRUE, TRUE), false_positive |-> Count(TRUE, FALSE),
       false_negative |-> Count(FALSE, TRUE), true_negative |-> Count(FALSE, FALSE)]
validation_passed(v, stratum, gate) ==
  /\ Ratio100(v.true_positive, v.true_positive + v.false_positive) >= gate
  /\ Ratio100(v.true_positive, v.true_positive + v.false_negative) >= gate
  /\ v.true_positive + v.false_negative >= stratum
  /\ v.false_positive + v.true_negative >= stratum
-----------------------------------------------------------------------------
(* Cross-fitting grouped by document.  groups[i] is the document of row i.  *)

Documents(groups, rows) == {groups[i] : i \in rows}

\* The folds by number, without those that have no row on one side.
grouped_folds(groups, n_splits) ==
  LET unique == Documents(groups, DOMAIN groups)
      n == IF Cardinality(unique) < n_splits THEN Max({2, Cardinality(unique)}) ELSE n_splits
      Rank(d) == Cardinality({e \in unique : e < d})
      Test(k) == {i \in DOMAIN groups : Rank(groups[i]) % n = k}
      Train(k) == DOMAIN groups \ Test(k)
  IN  [k \in {j \in 0..(n - 1) : Test(j) # {} /\ Train(j) # {}} |->
         [test |-> Test(k), train |-> Train(k)]]
Leaks(groups, folds) ==
  \E k \in DOMAIN folds :
    Documents(groups, folds[k].test) \cap Documents(groups, folds[k].train) # {}

\* The first of the candidates with the least error.
FirstBest(error) ==
  CHOOSE c \in DOMAIN error : \A d \in DOMAIN error :
    error[c] < error[d] \/ (error[c] = error[d] /\ c <= d)

\* fit_policy refuses a test split; with no fold every candidate scores the same.
fit_policy(groups, error, n_splits, may_fit) ==
  IF ~may_fit THEN [raised |-> "LabelLeakError"]
  ELSE IF groups = << >> THEN [raised |-> "ValueError"]
  ELSE [raised |-> "", n_train_documents |-> Cardinality(Documents(groups, DOMAIN groups)),
        params |-> IF DOMAIN grouped_folds(groups, n_splits) = {} THEN 1 ELSE FirstBest(error)]

\* run_nested_grouped_crossfit.  A fold's winner is candidate 0, the default,
\* when the training documents are too few for an inner fold; a document's
\* prediction is the one of its last row, [row, fitted on].
run_nested(groups, error, n_outer, n_inner) ==
  LET outer == grouped_folds(groups, n_outer)
      Trained(f) == LET rows == SetToSortSeq(f.train, <)
                    IN  [i \in DOMAIN rows |-> groups[rows[i]]]
      inner == [k \in DOMAIN outer |-> grouped_folds(Trained(outer[k]), n_inner)]
      Predicted(d) == CHOOSE i \in DOMAIN groups :
                        groups[i] = d /\ \A j \in DOMAIN groups : groups[j] = d => j <= i
      FoldOf(i) == CHOOSE k \in DOMAIN outer : i \in outer[k].test
  IN  IF Cardinality(Documents(groups, DOMAIN groups)) < n_outer THEN [raised |-> "ValueError"]
      ELSE IF Leaks(groups, outer) \/ \E k \in DOMAIN outer : Leaks(Trained(outer[k]), inner[k])
           THEN [raised |-> "LeakageError"]
      ELSE [raised |-> "",
            fold_results |-> [k \in DOMAIN outer |->
              [train_document_ids |-> Documents(groups, outer[k].train),
               test_document_ids |-> Documents(groups, outer[k].test),
               selected |-> IF DOMAIN inner[k] = {} THEN 0 ELSE FirstBest(error)]],
            predictions |-> [d \in Documents(groups, DOMAIN groups) |->
              [row |-> Predicted(d), fitted_on |-> outer[FoldOf(Predicted(d))].train]]]
=============================================================================
