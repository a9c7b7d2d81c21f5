--------------------------- MODULE ProviderCanary ---------------------------
(***************************************************************************)
(* The provider canary, scripts/run_provider_canary.py: for each candidate *)
(* model one identity call, two relay calls and eight receiver calls, one  *)
(* after the other, and one file per model; summary.json at the end.  A    *)
(* stop-loss per model and a limit in total are compared before every call *)
(* but the identity call.  Nothing is retried: any exception ends main().  *)
(***************************************************************************)
EXTENDS Integers, Sequences, FiniteSets, FiniteSetsExt

CONSTANTS
  Candidates,       (* the sequence of (provider, model) pairs               *)
  RelayCalls,       (* 2 in the code                                         *)
  ReceiverCalls,    (* 8 in the code                                         *)
  CanaryCosts,      (* calculate_cost of one call                            *)
  MaxCallCost,
  FamilyStopLoss,   (* PER_FAMILY_STOP_LOSS_USD                              *)
  TotalLimit,       (* CANARY_TOTAL_SPEND_LIMIT_USD                          *)
  Outputs,          (* what a receiver call may answer, parsed               *)
  MaxCanaries       (* bound: processes started                              *)

ASSUME ProviderCanaryAssumption ==
  /\ Candidates \in Seq(STRING) /\ Candidates # <<>>
  /\ RelayCalls \in Nat \ {0} /\ ReceiverCalls \in Nat \ {0}
  /\ MaxCallCost \in Nat /\ CanaryCosts \subseteq 0 .. MaxCallCost
  /\ FamilyStopLoss \in Nat /\ TotalLimit \in Nat /\ MaxCanaries \in Nat \ {0}

VARIABLES
  canary,      (* running, finished, or how the process ended               *)
  model,       (* position of the candidate under test                      *)
  calls,       (* calls made for it                                         *)
  family,      (* family_spend                                              *)
  cumulative,  (* cumulative_spend, which main() passes on to the next model *)
  outputs,     (* receiver_outputs of this model                            *)
  on_file,     (* per candidate: spend and agreement in its *_canary.json    *)
  summary,     (* what summary.json says                                    *)
  canaries     (* observer: processes started                               *)

canaryVars == <<canary, model, calls, family, cumulative, outputs, on_file,
                summary, canaries>>

CallsPerModel == 1 + RelayCalls + ReceiverCalls
NoFile == [spend_usd |-> -1, agreeing |-> 0, of |-> 0]
NoSummary == [total_spend_usd |-> -1, results |-> <<>>]
Positions == DOMAIN Candidates

(* Counter(canonical_strs).most_common(1): how many repeats gave the mode. *)
ModeCount(s) == Max({Cardinality({k \in DOMAIN s : s[k] = o}) : o \in Outputs})
-----------------------------------------------------------------------------
CanaryInit ==
  /\ canary = "running" /\ model = 1 /\ calls = 0 /\ family = 0
  /\ cumulative = 0 /\ outputs = <<>> /\ canaries = 1
  /\ on_file = [p \in Positions |-> NoFile] /\ summary = NoSummary

(* Mutant: only the stop-loss of the family is compared. *)
StopsFamilyOnly == family > FamilyStopLoss

(* The two comparisons in front of a call. *)
Stops == family > FamilyStopLoss \/ cumulative > TotalLimit

Spend(c) == family' = family + c /\ cumulative' = cumulative + c

(* Probe 1: no limit is looked at. *)
IdentityCall ==
  /\ canary = "running" /\ model \in Positions /\ calls = 0
  /\ \E c \in CanaryCosts : Spend(c)
  /\ calls' = 1
  /\ UNCHANGED <<canary, model, outputs, on_file, summary, canaries>>

(* Probe 2 *)
RelayCall ==
  /\ canary = "running" /\ calls \in 1 .. RelayCalls /\ ~Stops
  /\ \E c \in CanaryCosts : Spend(c)
  /\ calls' = calls + 1
  /\ UNCHANGED <<canary, model, outputs, on_file, summary, canaries>>

(* Probe 3: the same request again; its answer is parsed. *)
ReceiverCall ==
  /\ canary = "running" /\ calls \in (RelayCalls + 1) .. (RelayCalls + ReceiverCalls) /\ ~Stops
  /\ \E c \in CanaryCosts, o \in Outputs :
       Spend(c) /\ outputs' = Append(outputs, o)
  /\ calls' = calls + 1
  /\ UNCHANGED <<canary, model, on_file, summary, canaries>>

(* A limit is exceeded: RuntimeError, out of main(). *)
StopLoss ==
  /\ canary = "running" /\ calls \in 1 .. (RelayCalls + ReceiverCalls) /\ Stops
  /\ canary' = "failed"
  /\ UNCHANGED <<model, calls, family, cumulative, outputs, on_file, summary, canaries>>

(* adapter.generate raises. *)
CallRaises ==
  /\ canary = "running" /\ model \in Positions /\ calls < CallsPerModel
  /\ canary' = "failed"
  /\ UNCHANGED <<model, calls, family, cumulative, outputs, on_file, summary, canaries>>

(* The model's file is written and main() goes on to the next candidate. *)
ModelDone ==
  /\ canary = "running" /\ calls = CallsPerModel /\ model \in Positions
  /\ on_file' = [on_file EXCEPT ![model] =
       [spend_usd |-> family, agreeing |-> ModeCount(outputs), of |-> Len(outputs)]]
  /\ model' = model + 1 /\ calls' = 0 /\ family' = 0 /\ outputs' = <<>>
  /\ UNCHANGED <<canary, cumulative, summary, canaries>>

(* summary.json: total_spend and one entry per model. *)
WriteSummary ==
  /\ canary = "running" /\ model \notin Positions
  /\ canary' = "finished"
  /\ summary' = [total_spend_usd |-> cumulative, results |-> on_file]
  /\ UNCHANGED <<model, calls, family, cumulative, outputs, on_file, canaries>>

CanaryStart ==
  /\ canary \in {"finished", "failed"} /\ canaries < MaxCanaries
  /\ canaries' = canaries + 1
  /\ canary' = "running" /\ model' = 1 /\ calls' = 0 /\ family' = 0
  /\ cumulative' = 0 /\ outputs' = <<>>
  /\ UNCHANGED <<on_file, summary>>

CanaryNext == IdentityCall \/ RelayCall \/ ReceiverCall \/ StopLoss \/ CallRaises
              \/ ModelDone \/ WriteSummary \/ CanaryStart

CanarySpec == CanaryInit /\ [][CanaryNext]_canaryVars
-----------------------------------------------------------------------------
(* Every variable keeps its type. *)
CanaryTypeOK ==
  /\ canary \in {"running", "finished", "failed"}
  /\ model \in 1 .. (Len(Candidates) + 1) /\ calls \in 0 .. CallsPerModel
  /\ family \in Nat /\ cumulative \in Nat
  /\ outputs \in Seq(Outputs) /\ Len(outputs) <= ReceiverCalls
  /\ canaries \in 1 .. MaxCanaries

(* The limits are compared before a call, with what the calls before it     *)
(* cost, and never before an identity call: a family overshoots its         *)
(* stop-loss by at most one call, a process the total limit by at most two  *)
(* (the last call of one model and the identity call of the next).          *)
CanaryOvershoot ==
  /\ family <= FamilyStopLoss + MaxCallCost
  /\ cumulative <= TotalLimit + 2 * MaxCallCost

=============================================================================
