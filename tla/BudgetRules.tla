---------------------------- MODULE BudgetRules ----------------------------
(***************************************************************************)
(* The rules that spend a budget: the knapsack of causal/targeting.py and   *)
(* what Experiment C and CausalRelay make of it, the eviction partners of   *)
(* interventions/budget_neutral.py, and the calibration-time selections of  *)
(* calibration/selection.py and calibration/budget_calibration.py.          *)
(*                                                                         *)
(* Atoms are numbered in the order of their identifiers.  Token costs and   *)
(* utilities are integers (the code's utilities are floats, of which only   *)
(* sums and comparisons are used); retentions and fractions are in          *)
(* percent.                                                                 *)
(***************************************************************************)
EXTENDS Integers, Sequences, FiniteSets, SequencesExt, FiniteSetsExt

TotalOf(S, f) == SumFunctionOnSet(f, S)
-----------------------------------------------------------------------------
(* knapsack: items is a set of [id, cost, util].                            *)

CheaperFirst(x, y) == x.cost < y.cost \/ (x.cost = y.cost /\ x.id < y.id)

\* BestReusing forgets that the row above is the one to read: an item may be
\* taken again.
BestReusing(ordered, budget) ==
  LET dp[p \in (0..Len(ordered)) \X (0..budget)] ==
        IF p[1] = 0 THEN 0
        ELSE LET it == ordered[p[1]]
                 skip == dp[<<p[1] - 1, p[2]>>]
             IN  IF it.cost > p[2] \/ it.cost = 0 THEN skip
                 ELSE Max({skip, dp[<<p[1], p[2] - it.cost>>] + it.util})
  IN  dp
\* dp[i][b], the best utility of the first i items within b tokens.
Best(ordered, budget) ==
  LET dp[p \in (0..Len(ordered)) \X (0..budget)] ==
        IF p[1] = 0 THEN 0
        ELSE LET it == ordered[p[1]]
                 skip == dp[<<p[1] - 1, p[2]>>]
             IN  IF it.cost > p[2] THEN skip
                 ELSE Max({skip, dp[<<p[1] - 1, p[2] - it.cost>>] + it.util})
  IN  dp

Fits(ordered, i, b) == ordered[i].cost <= b
Grab(ordered, dp, i, b) == dp[<<i - 1, b - ordered[i].cost>>] + ordered[i].util
Takes(ordered, dp, i, b) == Fits(ordered, i, b) /\ Grab(ordered, dp, i, b) > dp[<<i - 1, b>>]

Backtrack(ordered, dp, budget) ==
  LET chosen[p \in (0..Len(ordered)) \X (0..budget)] ==
        IF p[1] = 0 THEN {}
        ELSE IF Takes(ordered, dp, p[1], p[2])
             THEN {ordered[p[1]]} \cup chosen[<<p[1] - 1, p[2] - ordered[p[1]].cost>>]
             ELSE chosen[<<p[1] - 1, p[2]>>]
  IN  chosen[<<Len(ordered), budget>>]

\* sorted(items, key=(cost, atom_id)), stated by what it returns.
InOrderOfCost(items) ==
  CHOOSE s \in [1..Cardinality(items) -> items] :
    \A j, k \in DOMAIN s : j < k => CheaperFirst(s[j], s[k])

knapsack(items, budget) ==
  LET ordered == InOrderOfCost(items)
      dp == Best(ordered, budget)
      chosen == Backtrack(ordered, dp, budget)
  IN  [chosen |-> {it.id : it \in chosen},
       total_cost |-> MapThenSumSet(LAMBDA it : it.cost, chosen),
       total_utility |-> dp[<<Len(ordered), budget>>],
       ties_broken |-> Cardinality({p \in (1..Len(ordered)) \X (0..budget) :
         Fits(ordered, p[1], p[2]) /\ Grab(ordered, dp, p[1], p[2]) = dp[<<p[1] - 1, p[2]>>]})]
-----------------------------------------------------------------------------
(* evaluate_targeting: records is a set of [id, cost, util, transmitted],   *)
(* draws a sequence of shuffles of the identifiers.                         *)

Utility(records, picked) ==
  TotalOf({r \in records : r.id \in picked}, [r \in records |-> r.util])
CostOf(records, i) == (CHOOSE r \in records : r.id = i).cost

\* One random draw: what still fits, in the order of the shuffle.
RandomPick(records, order, budget) ==
  LET pack[k \in 0..Len(order)] ==
        IF k = 0 THEN [spent |-> 0, picked |-> {}]
        ELSE LET acc == pack[k - 1]
                 cost == CostOf(records, order[k])
             IN  IF acc.spent + cost <= budget
                 THEN [spent |-> acc.spent + cost, picked |-> acc.picked \cup {order[k]}]
                 ELSE acc
  IN  pack[Len(order)].picked

\* g_rand is a mean over the draws: it is kept as their sum, and whatever it is
\* compared with is multiplied by their number.
evaluate_targeting(records, budget, draws) ==
  LET g_obs == Utility(records, {r.id : r \in {s \in records : s.transmitted}})
      g_star == knapsack({[id |-> r.id, cost |-> r.cost, util |-> r.util] : r \in records},
                         budget).total_utility
      g_rand == SumFunction([i \in DOMAIN draws |->
                  Utility(records, RandomPick(records, draws[i], budget))])
  IN  [g_obs |-> g_obs, g_star |-> g_star, g_rand |-> g_rand,
       eta_defined |-> g_star * Len(draws) > g_rand]

\* interaction_diagnostic: the ratio is infinite when the mean surplus is zero.
\* The vectors are sequences of equal length, the threshold one quarter.
Abs(x) == IF x < 0 THEN -x ELSE x
additivity_supported(with, without, deltas) ==
  LET inter == SumFunction([i \in DOMAIN with |-> Abs(with[i] - without[i])])
      base == SumFunction([i \in DOMAIN deltas |-> Abs(deltas[i])])
  IN  base > 0 /\ 4 * inter * Len(deltas) <= base * Len(with)
-----------------------------------------------------------------------------
(* allocate: CausalRelay's message.  Joining the rendered lines may cost    *)
(* `joint` tokens more or less per line than the lines do apart.            *)

MessageTokens(selected, cost, header, joint) ==
  header + TotalOf(selected, cost) + joint * Cardinality(selected)

\* The least useful atom is dropped while the realised message is too long.
Trim(selected, cost, score, budget, header, joint) ==
  LET LeastUseful(S) == CHOOSE a \in S : \A b \in S :
                          score[a] < score[b] \/ (score[a] = score[b] /\ a <= b)
      kept[k \in 0..Cardinality(selected)] ==
        IF k = 0 THEN selected
        ELSE LET S == kept[k - 1]
             IN  IF S = {} \/ MessageTokens(S, cost, header, joint) <= budget THEN S
                 ELSE S \ {LeastUseful(S)}
  IN  kept[Cardinality(selected)]

allocate(atoms, cost, score, budget, header, joint) ==
  LET utility == [a \in atoms |-> Max({0, score[a]})]
      sol == knapsack({[id |-> a, cost |-> cost[a], util |-> utility[a]] : a \in atoms}, budget)
      selected == Trim(sol.chosen, cost, score, budget, header, joint)
  IN  [chosen_atom_ids |-> selected, total_cost |-> MessageTokens(selected, cost, header, joint),
       predicted_utility |-> TotalOf(selected, utility)]

\* assert_no_test_labels, fit_policy and ReproductionRun: "test" is in the name
\* of the split and "dev" is not.
TestSplits == {"stage2_test", "test"}
may_read_labels(split_name, label_source) == split_name \notin TestSplits \/ label_source = "none"
-----------------------------------------------------------------------------
(* Experiment C: the evicted partner of a focal atom, and the candidates.   *)

Gap(tokens, a, b) == Abs(tokens[a] - tokens[b])
feasible_partners(focal, atoms, tokens, tolerance) ==
  {b \in atoms \ {focal} : Gap(tokens, focal, b) <= tolerance}

choose_eviction_partner(focal, atoms, tokens, role, tolerance) ==
  LET feasible == feasible_partners(focal, atoms, tokens, tolerance)
      Rank(b) == <<Gap(tokens, focal, b), IF role[b] = role[focal] THEN 1 ELSE 0, b>>
      Before(x, y) == x[1] < y[1] \/ (x[1] = y[1] /\ (x[2] < y[2] \/ (x[2] = y[2] /\ x[3] <= y[3])))
  IN  CHOOSE b \in feasible : \A c \in feasible : Before(Rank(b), Rank(c))

candidate_set(atoms, tokens, tolerance) ==
  {a \in atoms : feasible_partners(a, atoms, tokens, tolerance) # {}}
-----------------------------------------------------------------------------
(* The calibration-time selections.                                         *)

\* sorted(costs)[k - 1], by how many of the costs it is not behind.
Ranked(costs, k) ==
  CHOOSE v \in {costs[i] : i \in DOMAIN costs} :
    /\ Cardinality({i \in DOMAIN costs : costs[i] < v}) < k
    /\ k <= Cardinality({i \in DOMAIN costs : costs[i] <= v})
\* Twice the median of the costs, a sequence of positive integers.
MedianTwice(costs) ==
  Ranked(costs, (Len(costs) + 1) \div 2) + Ranked(costs, (Len(costs) + 2) \div 2)

\* |median(F / B) - 2|, over 2B.
Distance(m2, b) == Abs(m2 - 4 * b)
Nearer(m2, b, c) ==
  \/ Distance(m2, b) * c < Distance(m2, c) * b
  \/ Distance(m2, b) * c = Distance(m2, c) * b /\ b >= c

select_primary_budget(costs, grid) ==
  CHOOSE b \in grid : \A c \in grid : Nearer(MedianTwice(costs), b, c)
binds(costs, b) == MedianTwice(costs) > 2 * b

\* The tolerance, or -1 when no measured one keeps enough pairs.
select_eviction_tolerance(retention, grid, floor) ==
  LET kept == {t \in grid \cap DOMAIN retention : retention[t] >= floor}
  IN  IF kept = {} THEN -1 ELSE Min(kept)

\* The subset size, or -1 when none is affordable.
select_experiment_c_subset(candidates, budget, retention, grid, percent, floor) ==
  LET ceiling == (budget * percent) \div 100
      affordable == {n \in grid : retention >= floor /\ n * candidates * 2 <= ceiling}
  IN  IF affordable = {} THEN -1 ELSE Max(affordable)

\* A calibration is recorded for one identity of one receiver.
calibrate_receiver_budget(costs, contract, grid) ==
  [receiver_id |-> contract.receiver_id, identity |-> contract,
   b_star |-> select_primary_budget(costs, grid)]

calibration_refused(calibrations, contract) ==
  LET mine == {c \in calibrations : c.receiver_id = contract.receiver_id}
  IN  mine = {} \/ \E c \in mine : c.identity # contract

\* scripts/run_calibration.py: tokens[d][a] is the cost of atom a of document d.
\* Retention is in 1200ths, exact for up to four atoms; round() is to even.
Rounded(twice) ==
  IF (twice % 2) = 0 THEN twice \div 2 ELSE (twice \div 2) + ((twice \div 2) % 2)
run_calibration(tokens, budgets, tolerances, fallback, call_budget, sizes) ==
  LET Kept(d, t) == Cardinality(candidate_set(DOMAIN tokens[d], tokens[d], t))
      retention == [t \in tolerances |->
        SumFunction([d \in DOMAIN tokens |-> (1200 * Kept(d, t)) \div Cardinality(DOMAIN tokens[d])])
          \div Len(tokens)]
      tolerance == select_eviction_tolerance(retention, tolerances, 960)
      chosen == IF tolerance = -1 THEN fallback ELSE tolerance
      candidates == Rounded(MedianTwice([d \in DOMAIN tokens |-> Kept(d, chosen)]))
  IN  [b_star |-> select_primary_budget([d \in DOMAIN tokens |-> SumFunction(tokens[d])], budgets),
       tolerance |-> tolerance, candidates |-> candidates,
       subset_size |-> select_experiment_c_subset(candidates, call_budget, retention[chosen], sizes, 15, 960)]
=============================================================================
