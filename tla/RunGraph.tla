------------------------------ MODULE RunGraph ------------------------------
(***************************************************************************)
(* The scientific graph of the orchestration layer: graph.py checks a list *)
(* of nodes against the frozen topology and one of two executors runs it;  *)
(* nodes.py calls the primitives, appends a record to the provider ledger  *)
(* for each answer and an event to the run's log around each stage.        *)
(*                                                                         *)
(* A node can raise anywhere.  A message is the set of atoms the matcher   *)
(* reads in it, an edited message how its atom stands in it, an answer     *)
(* whether the atom was recovered and, as an observation, how the atom     *)
(* stood in the message that was answered.                                 *)
(***************************************************************************)
EXTENDS Naturals, Sequences, FiniteSets

CONSTANTS
  Atoms,     (* what the atomizer can find                                  *)
  RoleOf,    (* the stratum of an atom                                      *)
  TextRoles, (* entity, scope, provenance: also matched by token sequence   *)
  K,         (* K_FOCAL                                                     *)
  Graphs,    (* node lists an executor is given, as sequences of stages     *)
  Engines    (* "sequential", "langgraph"                                   *)

StageOrder ==
  <<"prepare_run", "load_source", "atomize", "sample_focals", "relay",
    "match_transmission", "natural_receiver", "construct_interventions",
    "counterfactual_receiver", "deterministic_match", "estimate",
    "export_artifacts", "finalize_run">>

Stages == {StageOrder[i] : i \in 1 .. 13}

(* What build_nodes returns. *)
BuildNodes ==
  <<"prepare_run", "load_source", "atomize", "sample_focals", "relay",
    "match_transmission", "natural_receiver", "construct_interventions",
    "counterfactual_receiver", "deterministic_match", "estimate">>

ASSUME GraphAssumption ==
  /\ IsFiniteSet(Atoms) /\ K \in Nat
  /\ Graphs \subseteq Seq(Stages) \ {<<>>}
  /\ Engines \subseteq {"sequential", "langgraph"}

VARIABLES
  engine, graph,          (* the executor and its nodes                     *)
  phase,                  (* where run() is                                 *)
  next,                   (* position in graph of the node that is next     *)
  events,                 (* EventLog of the run                            *)
  ledger,                 (* call ids in the provider ledger                *)
  invoked,                (* observer: provider calls made                  *)
  framed,                 (* source_frame is not None                       *)
  eligible, focals,
  relay_message,
  transmission,           (* dictionaries of RunState, by atom              *)
  natural_outcomes,
  counterfactual_messages,(* how the atom stands in its edited message      *)
  counterfactual_outcomes,
  failed_edits,
  records,
  decomposition           (* atoms the estimator was given                  *)

flow    == <<phase, next, events>>
sampled == <<framed, eligible, focals>>
arms    == <<relay_message, transmission, natural_outcomes, counterfactual_messages,
             counterfactual_outcomes, failed_edits>>
result  == <<records, decomposition>>
calls   == <<ledger, invoked>>
vars == <<engine, graph, flow, sampled, arms, result, calls>>

Put(f, x, v) == [y \in DOMAIN f \union {x} |-> IF y = x THEN v ELSE f[y]]

(* The index assert_topology looks a stage up in. *)
Position(s) == CHOOSE i \in 1 .. 13 : StageOrder[i] = s

(* Mutant: every node list is accepted. *)
AnyTopology(g) == g \in Seq(Stages)

(* assert_topology: no stage out of order, none twice; stages may be missing. *)
InTopology(g) == \A i, j \in 1 .. Len(g) : i < j => Position(g[i]) < Position(g[j])

Event(s, t) == [stage |-> s, type |-> t]
-----------------------------------------------------------------------------
Init ==
  /\ engine \in Engines /\ graph \in Graphs
  /\ phase = "submitted" /\ next = 1
  /\ events = <<>> /\ ledger = <<>> /\ invoked = 0
  /\ framed = FALSE /\ eligible = {} /\ focals = {}
  /\ relay_message = {}
  /\ transmission = <<>> /\ natural_outcomes = <<>>
  /\ counterfactual_messages = <<>> /\ counterfactual_outcomes = <<>>
  /\ failed_edits = {}
  /\ records = {} /\ decomposition = {}

(* GraphTopologyError, before anything is executed. *)
Reject ==
  /\ phase = "submitted" /\ ~InTopology(graph)
  /\ phase' = "rejected"
  /\ UNCHANGED <<engine, graph, next, events, sampled, arms, result, calls>>

Accept ==
  /\ phase = "submitted" /\ InTopology(graph)
  /\ phase' = "between"
  /\ UNCHANGED <<engine, graph, next, events, sampled, arms, result, calls>>

(* atomize_source and run_relay assert a source frame before they emit. *)
Startable(s) == s \in {"atomize", "relay"} => framed

(* prepare_run only emits RUN_STARTED. *)
PrepareRun ==
  /\ phase = "between" /\ next <= Len(graph) /\ graph[next] = "prepare_run"
  /\ events' = Append(events, Event("prepare_run", "run.started"))
  /\ next' = next + 1
  /\ UNCHANGED <<engine, graph, phase, sampled, arms, result, calls>>

StartStage ==
  /\ phase = "between" /\ next <= Len(graph)
  /\ graph[next] # "prepare_run" /\ Startable(graph[next])
  /\ events' = Append(events, Event(graph[next], "stage.started"))
  /\ phase' = "inside"
  /\ UNCHANGED <<engine, graph, next, sampled, arms, result, calls>>

Inside(s) == phase = "inside" /\ graph[next] = s

(* STAGE_COMPLETED, and on to the next node. *)
Complete ==
  /\ events' = Append(events, Event(graph[next], "stage.completed"))
  /\ next' = next + 1
  /\ phase' = "between"

(* Mutant: the failed stage is logged and the run goes on. *)
FailSkipsAhead ==
  /\ phase' = "between"
  /\ events' = Append(events, Event(graph[next], "stage.failed"))
  /\ next' = next + 1

(* The executor's reaction to an exception of the node. *)
Fail ==
  /\ phase' = "raised"
  /\ events' = IF engine = "sequential"
               THEN events \o <<Event(graph[next], "stage.failed"),
                                Event("finalize_run", "run.failed")>>
               ELSE events
  /\ UNCHANGED next

NodeRaises ==
  /\ \/ phase = "inside"
     \/ phase = "between" /\ next <= Len(graph) /\ ~Startable(graph[next])
  /\ Fail
  /\ UNCHANGED <<engine, graph, sampled, arms, result, calls>>
-----------------------------------------------------------------------------
LoadSource ==
  /\ Inside("load_source")
  /\ framed' = TRUE
  /\ Complete
  /\ UNCHANGED <<engine, graph, eligible, focals, arms, result, calls>>

AtomizeSource ==
  /\ Inside("atomize")
  /\ eligible' \in SUBSET Atoms
  /\ Complete
  /\ UNCHANGED <<engine, graph, framed, focals, arms, result, calls>>

(* Mutant: the sample is drawn from all atoms, not from the eligible ones. *)
SampleUnfiltered ==
  /\ Inside("sample_focals")
  /\ focals' \in {F \in SUBSET Atoms : Cardinality(F) = K}
  /\ Complete
  /\ UNCHANGED <<engine, graph, framed, eligible, arms, result, calls>>

(* K strata, one atom of each; DocumentIneligible when there are fewer. *)
SampleFocals ==
  /\ Inside("sample_focals")
  /\ \E F \in SUBSET eligible :
       /\ Cardinality(F) = K
       /\ \A a, b \in F : RoleOf[a] = RoleOf[b] => a = b
       /\ focals' = F
  /\ Complete
  /\ UNCHANGED <<engine, graph, framed, eligible, arms, result, calls>>

(* The provider answers and the ledger gets the record of the call. *)
Called(label, i) ==
  /\ invoked' = invoked + 1
  /\ ledger' = Append(ledger, <<label, i>>)

RunRelay ==
  /\ Inside("relay")
  /\ relay_message' \in SUBSET eligible
  /\ Called("relay", 1)
  /\ Complete
  /\ UNCHANGED <<engine, graph, sampled, transmission, natural_outcomes,
                 counterfactual_messages, counterfactual_outcomes, failed_edits, result>>

MatchTransmission ==
  /\ Inside("match_transmission")
  /\ transmission' = [a \in focals |-> a \in relay_message]
  /\ Complete
  /\ UNCHANGED <<engine, graph, sampled, relay_message, natural_outcomes,
                 counterfactual_messages, counterfactual_outcomes, failed_edits, result, calls>>

(* provider.generate raises: nothing is appended to the ledger. *)
ProviderRaises ==
  /\ \/ Inside("relay")
     \/ Inside("natural_receiver") /\ DOMAIN natural_outcomes # focals
     \/ /\ Inside("counterfactual_receiver")
        /\ DOMAIN counterfactual_outcomes # DOMAIN counterfactual_messages
  /\ invoked' = invoked + 1
  /\ Fail
  /\ UNCHANGED <<engine, graph, sampled, arms, result, ledger>>

(* How an atom stands in a message: the matcher reads it, it does not, or   *)
(* it reads the tokens a deletion has left.                                *)
Standings == {"with", "without", "leftover"}
NaturalStanding(a) == IF a \in relay_message THEN "with" ELSE "without"

(* The outcome of asking about one atom, and how it stood in the note. *)
Answer(said, standing) == [recovered |-> said, standing |-> standing]

AskNatural(a) ==
  /\ Inside("natural_receiver")
  /\ a \in focals \ DOMAIN natural_outcomes
  /\ \E said \in BOOLEAN :
       natural_outcomes' = Put(natural_outcomes, a, Answer(said, NaturalStanding(a)))
  /\ Called("receiver_natural", Cardinality(DOMAIN natural_outcomes) + 1)
  /\ UNCHANGED <<engine, graph, flow, sampled, relay_message, transmission,
                 counterfactual_messages, counterfactual_outcomes, failed_edits, result>>

NaturalReceiver ==
  /\ Inside("natural_receiver") /\ DOMAIN natural_outcomes = focals
  /\ Complete
  /\ UNCHANGED <<engine, graph, sampled, arms, result, calls>>

(* What an accepted edit can leave.  A deletion is accepted when no span is *)
(* found afterwards; the token sequence of a textual role is not looked for. *)
EditOf(a) ==
  IF ~transmission[a] THEN {"with"}
  ELSE {"without"} \union (IF RoleOf[a] \in TextRoles THEN {"leftover"} ELSE {})

EditedMessages(bad) ==
  {m \in [focals \ bad -> Standings] : \A a \in focals \ bad : m[a] \in EditOf(a)}

(* Mutant: an edit that failed is neither constructed nor recorded. *)
ConstructDropsFailures ==
  /\ Inside("construct_interventions") /\ focals \subseteq DOMAIN transmission
  /\ \E bad \in SUBSET focals : counterfactual_messages' \in EditedMessages(bad)
  /\ Complete
  /\ UNCHANGED <<engine, graph, sampled, relay_message, transmission, natural_outcomes,
                 counterfactual_outcomes, failed_edits, result, calls>>

(* The missing arm of every focal atom: deletion when it was transmitted,   *)
(* insertion when it was not; an InvalidEdit is recorded.                   *)
ConstructInterventions ==
  /\ Inside("construct_interventions") /\ focals \subseteq DOMAIN transmission
  /\ \E bad \in SUBSET focals :
       /\ failed_edits' = bad
       /\ counterfactual_messages' \in EditedMessages(bad)
  /\ Complete
  /\ UNCHANGED <<engine, graph, sampled, relay_message, transmission, natural_outcomes,
                 counterfactual_outcomes, result, calls>>

(* Mutant: the call ids reuse the label of the natural arm. *)
AskCounterfactualAsNatural(a) ==
  /\ Inside("counterfactual_receiver")
  /\ a \in DOMAIN counterfactual_messages \ DOMAIN counterfactual_outcomes
  /\ \E said \in BOOLEAN :
       counterfactual_outcomes' =
         Put(counterfactual_outcomes, a, Answer(said, counterfactual_messages[a]))
  /\ Called("receiver_natural", Cardinality(DOMAIN counterfactual_outcomes) + 1)
  /\ UNCHANGED <<engine, graph, flow, sampled, relay_message, transmission, natural_outcomes,
                 counterfactual_messages, failed_edits, result>>

AskCounterfactual(a) ==
  /\ Inside("counterfactual_receiver")
  /\ a \in DOMAIN counterfactual_messages \ DOMAIN counterfactual_outcomes
  /\ \E said \in BOOLEAN :
       counterfactual_outcomes' =
         Put(counterfactual_outcomes, a, Answer(said, counterfactual_messages[a]))
  /\ Called("receiver_counterfactual", Cardinality(DOMAIN counterfactual_outcomes) + 1)
  /\ UNCHANGED <<engine, graph, flow, sampled, relay_message, transmission, natural_outcomes,
                 counterfactual_messages, failed_edits, result>>

CounterfactualReceiver ==
  /\ Inside("counterfactual_receiver")
  /\ DOMAIN counterfactual_outcomes = DOMAIN counterfactual_messages
  /\ Complete
  /\ UNCHANGED <<engine, graph, sampled, arms, result, calls>>

(* Mutant: the natural answer is d_plus whatever was transmitted. *)
RecordUnswapped(a) ==
  [atom |-> a, transmitted |-> transmission[a],
   d_plus |-> natural_outcomes[a], r_minus |-> counterfactual_outcomes[a]]

(* d_plus and r_minus of an atom, the transmitted value deciding which is which. *)
Record(a) ==
  LET natural == natural_outcomes[a]
      edited  == counterfactual_outcomes[a]
  IN [atom |-> a, transmitted |-> transmission[a],
      d_plus  |-> IF transmission[a] THEN natural ELSE edited,
      r_minus |-> IF transmission[a] THEN edited ELSE natural]

Paired == focals \intersect DOMAIN counterfactual_outcomes

DeterministicMatch ==
  /\ Inside("deterministic_match")
  /\ Paired \subseteq DOMAIN transmission /\ Paired \subseteq DOMAIN natural_outcomes
  /\ records' = {Record(a) : a \in Paired}
  /\ Complete
  /\ UNCHANGED <<engine, graph, sampled, arms, decomposition, calls>>

(* No records: a warning and a skipped completion; decompose otherwise. *)
Estimate ==
  /\ Inside("estimate")
  /\ decomposition' = {r.atom : r \in records}
  /\ Complete
  /\ UNCHANGED <<engine, graph, sampled, arms, records, calls>>

Finalize ==
  /\ phase = "between" /\ next > Len(graph)
  /\ events' = Append(events, Event("finalize_run", "run.completed"))
  /\ phase' = "completed"
  /\ UNCHANGED <<engine, graph, next, sampled, arms, result, calls>>
-----------------------------------------------------------------------------
Prepare == LoadSource \/ AtomizeSource \/ SampleFocals
Measure ==
  \/ RunRelay \/ MatchTransmission \/ ProviderRaises
  \/ NaturalReceiver \/ ConstructInterventions \/ CounterfactualReceiver
  \/ \E a \in Atoms : AskNatural(a) \/ AskCounterfactual(a)
Conclude == DeterministicMatch \/ Estimate \/ Finalize

Next ==
  \/ Reject \/ Accept \/ PrepareRun \/ StartStage \/ NodeRaises
  \/ Prepare \/ Measure \/ Conclude

Spec == Init /\ [][Next]_vars
-----------------------------------------------------------------------------
Outcomes == [recovered : BOOLEAN, standing : Standings]
EventTypes == {"run.started", "stage.started", "stage.completed", "stage.failed",
               "run.completed", "run.failed"}

(* Every variable keeps its type. *)
TypeOK ==
  /\ engine \in Engines /\ graph \in Graphs
  /\ phase \in {"submitted", "rejected", "between", "inside", "completed", "raised"}
  /\ next \in 1 .. Len(graph) + 1
  /\ events \in Seq([stage : Stages, type : EventTypes])
  /\ ledger \in Seq({"relay", "receiver_natural", "receiver_counterfactual"} \X Nat)
  /\ invoked \in Nat /\ framed \in BOOLEAN
  /\ eligible \subseteq Atoms /\ focals \subseteq eligible /\ relay_message \subseteq eligible
  /\ \A a \in DOMAIN natural_outcomes : natural_outcomes[a] \in Outcomes
  /\ \A a \in DOMAIN counterfactual_outcomes : counterfactual_outcomes[a] \in Outcomes
  /\ failed_edits \subseteq focals
  /\ decomposition \subseteq focals

(* Whatever node list an executor is given, stages start in the order of the *)
(* frozen topology and none starts twice.                                   *)
StagesInOrder ==
  \A i, j \in 1 .. Len(events) :
    i < j /\ events[i].type = "stage.started" /\ events[j].type = "stage.started"
      => Position(events[i].stage) < Position(events[j].stage)

(* Which atoms are measured is settled before the relay runs. *)
RelayStarted == \E i \in 1 .. Len(events) : events[i] = Event("relay", "stage.started")
SamplingPrecedesRelay == [][RelayStarted => focals' = focals]_vars

(* The log of the sequential executor ends in the one terminal event that   *)
(* tells how the run ended, and a run with a failed stage never completes.  *)
Terminal(i) == events[i].type \in {"run.completed", "run.failed"}
OneTerminalEvent ==
  engine = "sequential" =>
    /\ \A i \in 1 .. Len(events) : Terminal(i) => i = Len(events)
    /\ phase = "completed" =>
         /\ events[Len(events)].type = "run.completed"
         /\ \A i \in 1 .. Len(events) : events[i].type # "stage.failed"
    /\ phase = "raised" => events[Len(events)].type = "run.failed"

(* A completed run of the built graph has estimated every focal atom whose  *)
(* edit did not fail, and the others are in failed_edits: none is dropped   *)
(* silently, and none is counted twice.                                     *)
NoFocalDropped ==
  phase = "completed" /\ graph = BuildNodes =>
    decomposition = focals \ failed_edits

(* d_plus of a record answers a message in which the matcher reads the atom; *)
(* r_minus one in which it does not, except that the deletion of a          *)
(* transmitted atom of a textual role may have left its tokens.             *)
ArmsAreApart ==
  \A r \in records :
    /\ r.d_plus.standing = "with"
    /\ r.r_minus.standing # "with"
    /\ r.r_minus.standing = "leftover" => r.transmitted /\ RoleOf[r.atom] \in TextRoles

(* No two records of the ledger have the same call id.                      *)
CallIdsDistinct ==
  \A i, j \in 1 .. Len(ledger) : i # j => ledger[i] # ledger[j]

(* graph.py:7-9 promises that the sequential executor and LangGraph's are    *)
(* equivalent: a run that raises says so in its log, with either.           *)
FailureIsLogged ==
  phase = "raised" => events # <<>> /\ events[Len(events)].type = "run.failed"

(* ledger.py:3-4 promises that "Every attempt is recorded, including        *)
(* failures and retries".                                                   *)
EveryAttemptRecorded == invoked = Len(ledger)
=============================================================================
