----------------------------- MODULE MCRunGraph -----------------------------
(* Node lists for the executors: what build_nodes returns, the receiver or   *)
(* the sampling moved, a stage repeated, and a list without a source.        *)
EXTENDS RunGraph

CONSTANTS a1, a2, a3, scope, period

Roles == [a \in Atoms |-> IF a = a3 THEN period ELSE scope]

SampledLate ==
  <<"prepare_run", "load_source", "atomize", "relay", "sample_focals", "match_transmission">>
RelayTwice == <<"prepare_run", "load_source", "atomize", "relay", "relay">>
NoSource == <<"prepare_run", "atomize", "sample_focals">>

Built == {BuildNodes}
AllLists == {BuildNodes, SampledLate, RelayTwice, NoSource}
=============================================================================
