---------------------------- MODULE MCSourcePool ----------------------------
(* Five rows of the ticker list in three batches: one issuer with two       *)
(* tickers, three issuers for the two documents of the target, a thin one.  *)
EXTENDS SourcePool

MCCandidates == <<1, 1, 2, 3, 4>>
MCFiling == <<"usable", "usable", "usable", "thin">>
MCSizes == <<1, 0, 0, 1>>
MCShuffle == <<2, 1>>
=============================================================================
