----------------------------- MODULE Percentiles -----------------------------
(***************************************************************************)
(* np.percentile, as the bootstraps of inference/ and causal/ use it: linear *)
(* between the two order statistics that a percentile falls between.        *)
(***************************************************************************)
EXTENDS Integers, FiniteSets

\* The k-th of the values in ascending order, by how many it is not behind.
Nth(values, k) ==
  CHOOSE v \in {values[i] : i \in DOMAIN values} :
    /\ Cardinality({i \in DOMAIN values : values[i] < v}) < k
    /\ k <= Cardinality({i \in DOMAIN values : values[i] <= v})
\* np.percentile at p per mille, a thousandfold, of n values.
Percentile(values, n, p) ==
  LET h == p * (n - 1)
      k == h \div 1000
  IN  Nth(values, k + 1) * (1000 - (h % 1000))
      + Nth(values, IF k + 2 <= n THEN k + 2 ELSE n) * (h % 1000)
=============================================================================
