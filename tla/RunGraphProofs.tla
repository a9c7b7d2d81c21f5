--------------------------- MODULE RunGraphProofs ---------------------------
(***************************************************************************)
(* For every set of atoms, every sample size, both executors and every     *)
(* node list: stages run in the order of the frozen topology, the sample   *)
(* is settled before the relay runs, the log of the sequential executor    *)
(* ends in its one terminal event, and the two arms of a record are what   *)
(* they are called.                                                        *)
(***************************************************************************)
EXTENDS RunGraph, FiniteSetTheorems, TLAPS

(* The steps of Next as the executor sees them. *)
Enter == phase = "between" /\ next <= Len(graph)
FlowStep ==
  \/ phase = "submitted" /\ ~InTopology(graph) /\ phase' = "rejected" /\ UNCHANGED <<next, events>>
  \/ phase = "submitted" /\ InTopology(graph) /\ phase' = "between" /\ UNCHANGED <<next, events>>
  \/ Enter /\ events' = Append(events, Event("prepare_run", "run.started"))
           /\ next' = next + 1 /\ phase' = "between"
  \/ Enter /\ events' = Append(events, Event(graph[next], "stage.started"))
           /\ phase' = "inside" /\ next' = next
  \/ phase = "inside" /\ Complete
  \/ (phase = "inside" \/ Enter) /\ Fail
  \/ /\ phase = "between" /\ next > Len(graph)
     /\ events' = Append(events, Event("finalize_run", "run.completed"))
     /\ phase' = "completed" /\ next' = next
  \/ UNCHANGED flow

(* Every step of the model is one of them, and the executor and its nodes    *)
(* never change.                                                            *)
LEMMA StepIsFlowStep == [Next]_vars => FlowStep /\ UNCHANGED <<engine, graph>>
<1>1. CASE Reject \/ Accept \/ PrepareRun \/ StartStage
  BY <1>1 DEF Reject, Accept, PrepareRun, StartStage, FlowStep, Enter
<1>2. CASE NodeRaises
  BY <1>2 DEF NodeRaises, FlowStep, Enter
<1>3. CASE Prepare
  BY <1>3 DEF Prepare, LoadSource, AtomizeSource, SampleFocals, Inside, FlowStep
<1>4. CASE RunRelay \/ MatchTransmission \/ ProviderRaises
  BY <1>4 DEF RunRelay, MatchTransmission, ProviderRaises, Inside, FlowStep
<1>5. CASE NaturalReceiver \/ ConstructInterventions \/ CounterfactualReceiver
  BY <1>5 DEF NaturalReceiver, ConstructInterventions, CounterfactualReceiver, Inside, FlowStep
<1>6. CASE \E a \in Atoms : AskNatural(a) \/ AskCounterfactual(a)
  BY <1>6 DEF AskNatural, AskCounterfactual, FlowStep
<1>7. CASE Conclude
  BY <1>7 DEF Conclude, DeterministicMatch, Estimate, Finalize, Inside, FlowStep
<1>8. CASE UNCHANGED vars
  BY <1>8 DEF vars, FlowStep
<1> QED BY <1>1, <1>2, <1>3, <1>4, <1>5, <1>6, <1>7, <1>8 DEF Next, Measure
-----------------------------------------------------------------------------
Logged == [stage : Stages, type : EventTypes]

(* Where the executor is. *)
FlowTypes ==
  /\ graph \in Seq(Stages) \ {<<>>}
  /\ phase \in {"submitted", "rejected", "between", "inside", "completed", "raised"}
  /\ next \in 1 .. Len(graph) + 1
  /\ phase = "inside" => next <= Len(graph)
  /\ events \in Seq(Logged)
  /\ phase \in {"submitted", "rejected"} \/ InTopology(graph)
  /\ phase = "submitted" => events = <<>>

LEMMA BuiltStages ==
  /\ "prepare_run" \in Stages /\ "finalize_run" \in Stages
PROOF BY DEF Stages, StageOrder

LEMMA FlowTypesInit == Init => FlowTypes
PROOF BY GraphAssumption DEF GraphAssumption, Init, FlowTypes, Logged

LEMMA FlowTypesStep ==
  ASSUME FlowTypes, FlowStep, UNCHANGED graph
  PROVE  FlowTypes'
<1> USE DEF FlowTypes
<1>0. InTopology(graph)' <=> InTopology(graph)
  BY DEF InTopology
<1>1. graph \in Seq(Stages) /\ Len(graph) \in Nat
  OBVIOUS
<1>2. next <= Len(graph) => graph[next] \in Stages
  BY <1>1
<1>3. \A t \in EventTypes : Event("prepare_run", t) \in Logged /\ Event("finalize_run", t) \in Logged
  BY BuiltStages DEF Event, Logged
<1>4. \A t \in EventTypes : next <= Len(graph) => Event(graph[next], t) \in Logged
  BY <1>2 DEF Event, Logged
<1>5. \A t \in {"run.started", "stage.started", "stage.completed", "stage.failed",
                "run.completed", "run.failed"} : t \in EventTypes
  BY DEF EventTypes
<1>6. CASE phase = "submitted"
  BY <1>0, <1>6 DEF FlowStep, Enter, Fail, Complete, flow
<1>7. CASE phase = "inside" /\ Complete
  BY <1>0, <1>1, <1>4, <1>5, <1>7 DEF Complete
<1>8. CASE (phase = "inside" \/ Enter) /\ Fail
  <2>1. next <= Len(graph)
    BY <1>8 DEF Enter
  <2>2. <<Event(graph[next], "stage.failed"), Event("finalize_run", "run.failed")>> \in Seq(Logged)
    BY <1>3, <1>4, <1>5, <2>1
  <2>3. events' \in Seq(Logged)
    BY <2>2, <1>8 DEF Fail
  <2> QED BY <1>0, <1>8, <2>1, <2>3 DEF Fail, Enter
<1>9. CASE Enter /\ events' = Append(events, Event("prepare_run", "run.started"))
                 /\ next' = next + 1 /\ phase' = "between"
  BY <1>0, <1>1, <1>3, <1>5, <1>9 DEF Enter
<1>10. CASE Enter /\ events' = Append(events, Event(graph[next], "stage.started"))
                  /\ phase' = "inside" /\ next' = next
  BY <1>0, <1>1, <1>4, <1>5, <1>10 DEF Enter
<1>11. CASE /\ phase = "between" /\ next > Len(graph)
            /\ events' = Append(events, Event("finalize_run", "run.completed"))
            /\ phase' = "completed" /\ next' = next
  BY <1>0, <1>1, <1>3, <1>5, <1>11
<1>12. CASE UNCHANGED flow
  BY <1>0, <1>12 DEF flow
<1> QED BY <1>6, <1>7, <1>8, <1>9, <1>10, <1>11, <1>12 DEF FlowStep
-----------------------------------------------------------------------------
(* A stage the executor has come to; one it has started belongs to its list  *)
(* and, between two nodes, lies behind it.                                  *)
Reached(s) == \E k \in 1 .. Len(graph) : k <= next /\ graph[k] = s

StartedAreReached ==
  \A i \in 1 .. Len(events) : events[i].type = "stage.started" =>
    \E k \in 1 .. Len(graph) :
      /\ graph[k] = events[i].stage
      /\ k <= next /\ (phase = "between" => k < next)

(* What an executor adds to the log in one step: at most one started event,  *)
(* the last one, of the stage it enters.                                    *)
LEMMA StartedGrowth ==
  ASSUME FlowTypes, FlowStep
  PROVE  \A i \in 1 .. Len(events') : events'[i].type = "stage.started" =>
           \/ i \in 1 .. Len(events) /\ events'[i] = events[i]
           \/ /\ Enter /\ i = Len(events) + 1 /\ events'[i] = Event(graph[next], "stage.started")
              /\ next' = next /\ phase' = "inside"
<1> USE DEF FlowTypes
<1>1. events \in Seq(Logged) /\ Len(events) \in Nat
  OBVIOUS
<1>2. ASSUME NEW e, events' = Append(events, e)
      PROVE  \A i \in 1 .. Len(events') :
               \/ i \in 1 .. Len(events) /\ events'[i] = events[i]
               \/ i = Len(events) + 1 /\ events'[i] = e
  BY <1>1, <1>2
<1>3. CASE (phase = "inside" \/ Enter) /\ Fail
  <2>1. CASE engine = "sequential"
    <3> DEFINE two == <<Event(graph[next], "stage.failed"), Event("finalize_run", "run.failed")>>
    <3>1. events' = events \o two
      BY <1>3, <2>1 DEF Fail
    <3>2. \A i \in 1 .. Len(events') : i \notin 1 .. Len(events) =>
            events'[i].type \in {"stage.failed", "run.failed"}
      BY <1>1, <3>1 DEF Event
    <3>3. \A i \in 1 .. Len(events') : i \in 1 .. Len(events) => events'[i] = events[i]
      BY <1>1, <3>1
    <3> QED BY <3>2, <3>3
  <2>2. CASE engine # "sequential"
    BY <1>1, <1>3, <2>2 DEF Fail
  <2> QED BY <2>1, <2>2
<1>4. CASE UNCHANGED events
  BY <1>1, <1>4
<1>5. CASE phase = "inside" /\ Complete
  BY <1>2, <1>5 DEF Complete, Event
<1>6. CASE Enter /\ events' = Append(events, Event("prepare_run", "run.started"))
                 /\ next' = next + 1 /\ phase' = "between"
  BY <1>2, <1>6 DEF Event
<1>7. CASE Enter /\ events' = Append(events, Event(graph[next], "stage.started"))
                 /\ phase' = "inside" /\ next' = next
  BY <1>2, <1>7
<1>8. CASE events' = Append(events, Event("finalize_run", "run.completed"))
  BY <1>2, <1>8 DEF Event
<1> QED BY <1>3, <1>4, <1>5, <1>6, <1>7, <1>8 DEF FlowStep, flow

LEMMA NextGrows ==
  ASSUME FlowTypes, FlowStep
  PROVE  /\ next <= next'
         /\ phase' = "between" => next < next' \/ UNCHANGED flow \/ phase = "submitted"
PROOF BY DEF FlowTypes, FlowStep, Enter, Complete, Fail, flow

LEMMA StartedAreReachedStep ==
  ASSUME FlowTypes, FlowTypes', FlowStep, UNCHANGED graph, StartedAreReached
  PROVE  StartedAreReached'
<1>1. next \in Nat /\ next' \in Nat /\ next <= next'
  BY NextGrows DEF FlowTypes
<1> SUFFICES ASSUME NEW i \in 1 .. Len(events'), events'[i].type = "stage.started"
             PROVE  \E k \in 1 .. Len(graph) :
                      /\ graph[k] = events'[i].stage
                      /\ k <= next' /\ (phase' = "between" => k < next')
  BY DEF StartedAreReached
<1>2. CASE i \in 1 .. Len(events) /\ events'[i] = events[i]
  <2>1. PICK k \in 1 .. Len(graph) : /\ graph[k] = events[i].stage
                                     /\ k <= next /\ (phase = "between" => k < next)
    BY <1>2 DEF StartedAreReached
  <2>2. phase # "submitted"
    BY <1>2 DEF FlowTypes
  <2>3. phase' = "between" => k < next'
    BY <1>1, <2>1, <2>2, NextGrows DEF flow
  <2> QED BY <1>1, <1>2, <2>1, <2>3
<1>3. CASE /\ Enter /\ i = Len(events) + 1 /\ events'[i] = Event(graph[next], "stage.started")
           /\ next' = next /\ phase' = "inside"
  <2>1. next \in 1 .. Len(graph) /\ graph[next] = events'[i].stage
    BY <1>3 DEF Enter, FlowTypes, Event
  <2> QED BY <1>1, <1>3, <2>1
<1> QED BY <1>2, <1>3, StartedGrowth

LEMMA StagesInOrderStep ==
  ASSUME FlowTypes, FlowTypes', FlowStep, UNCHANGED graph, StartedAreReached, StagesInOrder
  PROVE  StagesInOrder'
<1> SUFFICES ASSUME NEW i \in 1 .. Len(events'), NEW j \in 1 .. Len(events'), i < j,
                    events'[i].type = "stage.started", events'[j].type = "stage.started"
             PROVE  Position(events'[i].stage) < Position(events'[j].stage)
  BY DEF StagesInOrder, Position
<1>0. Len(events) \in Nat /\ next \in 1 .. Len(graph) + 1 /\ Len(graph) \in Nat
  BY DEF FlowTypes
<1>1. i \in 1 .. Len(events) /\ events'[i] = events[i]
  BY <1>0, StartedGrowth
<1>2. CASE j \in 1 .. Len(events) /\ events'[j] = events[j]
  BY <1>1, <1>2 DEF StagesInOrder
<1>3. CASE /\ Enter /\ j = Len(events) + 1 /\ events'[j] = Event(graph[next], "stage.started")
           /\ next' = next /\ phase' = "inside"
  <2>1. PICK k \in 1 .. Len(graph) : graph[k] = events[i].stage /\ k < next
    BY <1>1, <1>3 DEF StartedAreReached, Enter
  <2>2. InTopology(graph) /\ next \in 1 .. Len(graph)
    BY <1>0, <1>3 DEF Enter, FlowTypes
  <2>3. Position(graph[k]) < Position(graph[next])
    BY <2>1, <2>2 DEF InTopology
  <2> QED BY <1>1, <1>3, <2>1, <2>3 DEF Event
<1> QED BY <1>2, <1>3, StartedGrowth

OrderInv == FlowTypes /\ StartedAreReached /\ StagesInOrder

LEMMA OrderInvStep == OrderInv /\ [Next]_vars => OrderInv'
<1> SUFFICES ASSUME OrderInv, [Next]_vars PROVE OrderInv'
  OBVIOUS
<1>1. FlowStep /\ UNCHANGED graph
  BY StepIsFlowStep
<1>2. FlowTypes'
  BY <1>1, FlowTypesStep DEF OrderInv
<1> QED BY <1>1, <1>2, StartedAreReachedStep, StagesInOrderStep DEF OrderInv

LEMMA OrderInvAlways == Spec => []OrderInv
<1>1. Init => OrderInv
  BY FlowTypesInit DEF Init, OrderInv, StartedAreReached, StagesInOrder
<1> QED BY <1>1, OrderInvStep, PTL DEF Spec

(* The stages of a run start in the order of the frozen topology and none    *)
(* twice, whatever list of nodes the executor was built with                *)
(* (graph.py, assert_topology and both run methods).                        *)
THEOREM RunsInOrder == Spec => []StagesInOrder
<1>1. OrderInv => StagesInOrder
  BY DEF OrderInv
<1> QED BY <1>1, OrderInvAlways, PTL
-----------------------------------------------------------------------------
LEMMA Positions ==
  /\ Position("sample_focals") = 4 /\ Position("relay") = 5
  /\ Position("match_transmission") = 6 /\ Position("natural_receiver") = 7
  /\ Position("construct_interventions") = 8 /\ Position("counterfactual_receiver") = 9
PROOF BY DEF Position, StageOrder

(* A stage that was reached does not come after the one the executor is in.  *)
LEMMA ReachedIsEarlier ==
  ASSUME FlowTypes, NEW s, NEW t, Reached(s), Inside(t)
  PROVE  s = t \/ Position(s) < Position(t)
<1>1. next \in 1 .. Len(graph) /\ graph[next] = t /\ InTopology(graph)
  BY DEF FlowTypes, Inside
<1>2. PICK k \in 1 .. Len(graph) : k <= next /\ graph[k] = s
  BY DEF Reached
<1>3. CASE k = next
  BY <1>1, <1>2, <1>3
<1>4. CASE k < next
  BY <1>1, <1>2, <1>4 DEF InTopology
<1> QED BY <1>1, <1>2, <1>3, <1>4 DEF FlowTypes

LEMMA LaterNotReached ==
  ASSUME FlowTypes
  PROVE  /\ Inside("relay") => /\ ~Reached("match_transmission") /\ ~Reached("natural_receiver")
                               /\ ~Reached("construct_interventions")
                               /\ ~Reached("counterfactual_receiver")
         /\ Inside("match_transmission") => /\ ~Reached("construct_interventions")
                                            /\ ~Reached("counterfactual_receiver")
         /\ Inside("construct_interventions") => ~Reached("counterfactual_receiver")
<1>1. ASSUME NEW s, NEW t, Inside(t), s # t, ~(Position(s) < Position(t))
      PROVE  ~Reached(s)
  BY <1>1, ReachedIsEarlier
<1>2. Inside("relay") => ~Reached("match_transmission")
  BY <1>1, Positions
<1>3. Inside("relay") => ~Reached("natural_receiver")
  BY <1>1, Positions
<1>4. Inside("relay") => ~Reached("construct_interventions")
  BY <1>1, Positions
<1>5. Inside("relay") => ~Reached("counterfactual_receiver")
  BY <1>1, Positions
<1>6. Inside("match_transmission") => ~Reached("construct_interventions")
  BY <1>1, Positions
<1>7. Inside("match_transmission") => ~Reached("counterfactual_receiver")
  BY <1>1, Positions
<1>8. Inside("construct_interventions") => ~Reached("counterfactual_receiver")
  BY <1>1, Positions
<1> QED BY <1>2, <1>3, <1>4, <1>5, <1>6, <1>7, <1>8

LEMMA ReachedStays ==
  ASSUME FlowTypes, FlowTypes', [Next]_vars, NEW s, Reached(s)
  PROVE  Reached(s)'
<1>1. next <= next' /\ graph' = graph
  BY StepIsFlowStep, NextGrows
<1> QED BY <1>1 DEF Reached, FlowTypes

(* Only sample_focals writes the sample. *)
LEMMA OnlySamplingSamples == [Next]_vars => focals' = focals \/ Inside("sample_focals")
<1>1. CASE Reject \/ Accept \/ PrepareRun \/ StartStage \/ NodeRaises
  BY <1>1 DEF Reject, Accept, PrepareRun, StartStage, NodeRaises, sampled
<1>2. CASE Prepare
  BY <1>2 DEF Prepare, LoadSource, AtomizeSource, SampleFocals
<1>3. CASE Measure
  BY <1>3 DEF Measure, RunRelay, MatchTransmission, ProviderRaises, NaturalReceiver,
       ConstructInterventions, CounterfactualReceiver, AskNatural, AskCounterfactual, sampled
<1>4. CASE Conclude
  BY <1>4 DEF Conclude, DeterministicMatch, Estimate, Finalize, sampled
<1>5. CASE UNCHANGED vars
  BY <1>5 DEF vars, sampled
<1> QED BY <1>1, <1>2, <1>3, <1>4, <1>5 DEF Next

(* Once the relay has started, no step changes which atoms are measured,     *)
(* for every node list that passes assert_topology (graph.py).               *)
THEOREM SampledBeforeRelay == Spec => SamplingPrecedesRelay
<1>1. OrderInv /\ [Next]_vars => [RelayStarted => focals' = focals]_vars
  <2> SUFFICES ASSUME OrderInv, [Next]_vars, RelayStarted, Inside("sample_focals")
               PROVE  FALSE
    BY OnlySamplingSamples
  <2>1. Reached("relay")
    BY DEF RelayStarted, Event, OrderInv, StartedAreReached, Reached
  <2> QED BY <2>1, ReachedIsEarlier, Positions DEF OrderInv
<1> QED BY <1>1, OrderInvAlways, PTL DEF Spec, SamplingPrecedesRelay
-----------------------------------------------------------------------------
(* Until it ends, the log of a run holds neither a terminal event nor a      *)
(* failed stage.                                                            *)
Quiet ==
  engine = "sequential" /\ phase \in {"submitted", "rejected", "between", "inside"} =>
    \A i \in 1 .. Len(events) : ~Terminal(i) /\ events[i].type # "stage.failed"

EndInv == FlowTypes /\ Quiet /\ OneTerminalEvent

LEMMA EndInvStep == EndInv /\ [Next]_vars => EndInv'
<1> SUFFICES ASSUME EndInv, [Next]_vars PROVE EndInv'
  OBVIOUS
<1>0. FlowStep /\ UNCHANGED <<engine, graph>>
  BY StepIsFlowStep
<1>1. FlowTypes'
  BY <1>0, FlowTypesStep DEF EndInv
<1>2. events \in Seq(Logged) /\ Len(events) \in Nat
  BY DEF EndInv, FlowTypes
<1>3. ASSUME NEW s, NEW t, events' = Append(events, Event(s, t))
      PROVE  /\ Len(events') = Len(events) + 1
             /\ \A i \in 1 .. Len(events) : events'[i] = events[i]
             /\ events'[Len(events')].type = t
  BY <1>2, <1>3 DEF Event
<1>4. CASE UNCHANGED flow
  BY <1>0, <1>1, <1>4 DEF EndInv, Quiet, OneTerminalEvent, Terminal, flow
<1>5. CASE phase = "submitted" /\ UNCHANGED events /\ phase' \in {"rejected", "between"}
  BY <1>0, <1>1, <1>5 DEF EndInv, Quiet, OneTerminalEvent, Terminal
<1>6. ASSUME NEW s, NEW t, events' = Append(events, Event(s, t)),
             t \notin {"run.completed", "run.failed", "stage.failed"},
             phase \in {"between", "inside"}, phase' \in {"between", "inside"}
      PROVE  EndInv'
  BY <1>0, <1>1, <1>2, <1>3, <1>6 DEF EndInv, Quiet, OneTerminalEvent, Terminal
<1>7. CASE phase \in {"between", "inside"} /\ Fail
  <2>1. CASE engine = "sequential"
    <3> DEFINE two == <<Event(graph[next], "stage.failed"), Event("finalize_run", "run.failed")>>
    <3>1. events' = events \o two
      BY <1>7, <2>1 DEF Fail
    <3>2. /\ Len(events') = Len(events) + 2
          /\ \A i \in 1 .. Len(events) : events'[i] = events[i]
          /\ events'[Len(events) + 1].type = "stage.failed"
          /\ events'[Len(events) + 2].type = "run.failed"
      BY <1>2, <3>1 DEF Event
    <3>3. phase' = "raised" /\ events'[Len(events')].type = "run.failed"
      BY <1>2, <1>7, <3>2 DEF Fail
    <3>4. \A i \in 1 .. Len(events) : ~Terminal(i)
      BY <1>7, <2>1 DEF EndInv, Quiet
    <3>5. \A i \in 1 .. Len(events') :
            i \in 1 .. Len(events) \/ i = Len(events) + 1 \/ i = Len(events')
      BY <1>2, <3>2
    <3>6. \A i \in 1 .. Len(events') : Terminal(i)' => i = Len(events')
      BY <1>2, <3>2, <3>4, <3>5 DEF Terminal
    <3> QED BY <1>1, <3>3, <3>6 DEF EndInv, Quiet, OneTerminalEvent
  <2>2. CASE engine # "sequential"
    BY <1>0, <1>1, <2>2 DEF EndInv, Quiet, OneTerminalEvent
  <2> QED BY <2>1, <2>2
<1>8. CASE /\ phase = "between" /\ phase' = "completed"
           /\ events' = Append(events, Event("finalize_run", "run.completed"))
  BY <1>0, <1>1, <1>2, <1>3, <1>8 DEF EndInv, Quiet, OneTerminalEvent, Terminal
<1> QED BY <1>0, <1>4, <1>5, <1>6, <1>7, <1>8 DEF FlowStep, Enter, Complete

(* With the sequential executor a run that ended has exactly one terminal    *)
(* event, the last, and it says how the run ended; no completed run has a    *)
(* failed stage (graph.py, SequentialExecutor.run).                         *)
THEOREM EndsOnce == Spec => []OneTerminalEvent
<1>1. Init => EndInv
  BY FlowTypesInit DEF Init, EndInv, Quiet, OneTerminalEvent
<1>2. EndInv => OneTerminalEvent
  BY DEF EndInv
<1> QED BY <1>1, <1>2, EndInvStep, PTL DEF Spec
-----------------------------------------------------------------------------
(* A dictionary is filled only by its own stage; until then it is empty.     *)
FilledLate ==
  /\ DOMAIN transmission # {} => Reached("match_transmission")
  /\ DOMAIN natural_outcomes # {} => Reached("natural_receiver")
  /\ DOMAIN counterfactual_messages # {} => Reached("construct_interventions")
  /\ DOMAIN counterfactual_outcomes # {} => Reached("counterfactual_receiver")

(* What an entry of each dictionary says about the relay's message: the      *)
(* chain along which d_plus and r_minus are told apart.                     *)
Chain ==
  /\ \A a \in DOMAIN transmission : transmission[a] <=> a \in relay_message
  /\ \A a \in DOMAIN natural_outcomes : natural_outcomes[a].standing = NaturalStanding(a)
  /\ \A a \in DOMAIN counterfactual_messages :
       a \in DOMAIN transmission /\ counterfactual_messages[a] \in EditOf(a)
  /\ \A a \in DOMAIN counterfactual_outcomes :
       /\ a \in DOMAIN counterfactual_messages
       /\ counterfactual_outcomes[a].standing = counterfactual_messages[a]

ArmsInv == FlowTypes /\ FilledLate /\ Chain /\ ArmsAreApart

LEMMA Entered ==
  ASSUME FlowTypes, NEW s, Inside(s)
  PROVE  Reached(s)
PROOF BY DEF FlowTypes, Inside, Reached

(* The steps that write none of the dictionaries. *)
LEMMA OtherSteps ==
  [Next]_vars => \/ UNCHANGED arms \/ RunRelay \/ MatchTransmission \/ ConstructInterventions
                 \/ \E a \in Atoms : AskNatural(a) \/ AskCounterfactual(a)
<1>1. Reject \/ Accept \/ PrepareRun \/ StartStage \/ NodeRaises => UNCHANGED arms
  BY DEF Reject, Accept, PrepareRun, StartStage, NodeRaises
<1>2. Prepare \/ ProviderRaises \/ NaturalReceiver \/ CounterfactualReceiver => UNCHANGED arms
  BY DEF Prepare, LoadSource, AtomizeSource, SampleFocals, ProviderRaises, NaturalReceiver,
         CounterfactualReceiver
<1>3. Conclude \/ UNCHANGED vars => UNCHANGED arms
  BY DEF Conclude, DeterministicMatch, Estimate, Finalize, vars
<1> QED BY <1>1, <1>2, <1>3 DEF Next, Measure

LEMMA ChainStep ==
  ASSUME FlowTypes, FlowTypes', FilledLate, Chain, [Next]_vars
  PROVE  FilledLate' /\ Chain'
<1>0. \A s : Reached(s) => Reached(s)'
  BY ReachedStays
<1>1. CASE UNCHANGED arms
  BY <1>0, <1>1 DEF arms, FilledLate, Chain, NaturalStanding, EditOf
<1>2. CASE RunRelay
  <2>1. Inside("relay")
    BY <1>2 DEF RunRelay
  <2>2. /\ DOMAIN transmission = {} /\ DOMAIN natural_outcomes = {}
        /\ DOMAIN counterfactual_messages = {} /\ DOMAIN counterfactual_outcomes = {}
    BY <2>1, LaterNotReached DEF FilledLate
  <2> QED BY <1>2, <2>2 DEF RunRelay, FilledLate, Chain
<1>3. CASE MatchTransmission
  <2>1. Inside("match_transmission")
    BY <1>3 DEF MatchTransmission
  <2>2. DOMAIN counterfactual_messages = {} /\ DOMAIN counterfactual_outcomes = {}
    BY <2>1, LaterNotReached DEF FilledLate
  <2>3. Reached("match_transmission")'
    BY <1>0, <2>1, Entered
  <2>4. FilledLate'
    BY <1>0, <1>3, <2>3 DEF MatchTransmission, FilledLate
  <2> QED BY <1>3, <2>2, <2>4 DEF MatchTransmission, Chain, NaturalStanding
<1>4. CASE ConstructInterventions
  <2>1. Inside("construct_interventions")
    BY <1>4 DEF ConstructInterventions
  <2>2. DOMAIN counterfactual_outcomes = {}
    BY <2>1, LaterNotReached DEF FilledLate
  <2>3. Reached("construct_interventions")'
    BY <1>0, <2>1, Entered
  <2>4. FilledLate'
    BY <1>0, <1>4, <2>3 DEF ConstructInterventions, FilledLate
  <2>5. /\ DOMAIN counterfactual_messages' \subseteq DOMAIN transmission
        /\ \A a \in DOMAIN counterfactual_messages' : counterfactual_messages'[a] \in EditOf(a)
    BY <1>4 DEF ConstructInterventions, EditedMessages
  <2> QED BY <1>4, <2>2, <2>4, <2>5 DEF ConstructInterventions, Chain, NaturalStanding, EditOf
<1>5. ASSUME NEW a \in Atoms, AskNatural(a)
      PROVE  FilledLate' /\ Chain'
  <2>1. Inside("natural_receiver")
    BY <1>5 DEF AskNatural
  <2>2. Reached("natural_receiver")'
    BY <1>0, <2>1, Entered
  <2>3. UNCHANGED <<relay_message, transmission, counterfactual_messages, counterfactual_outcomes>>
    BY <1>5 DEF AskNatural
  <2>4. PICK said \in BOOLEAN :
          natural_outcomes' = Put(natural_outcomes, a, Answer(said, NaturalStanding(a)))
    BY <1>5 DEF AskNatural
  <2>5. \A b \in DOMAIN natural_outcomes' :
          natural_outcomes'[b].standing = NaturalStanding(b)
    BY <2>4 DEF Put, Answer, Chain
  <2> QED BY <1>0, <2>2, <2>3, <2>5 DEF FilledLate, Chain, NaturalStanding, EditOf
<1>6. ASSUME NEW a \in Atoms, AskCounterfactual(a)
      PROVE  FilledLate' /\ Chain'
  <2>1. Inside("counterfactual_receiver")
    BY <1>6 DEF AskCounterfactual
  <2>2. Reached("counterfactual_receiver")'
    BY <1>0, <2>1, Entered
  <2>3. UNCHANGED <<relay_message, transmission, counterfactual_messages, natural_outcomes>>
    BY <1>6 DEF AskCounterfactual
  <2>4. PICK said \in BOOLEAN :
          counterfactual_outcomes' =
            Put(counterfactual_outcomes, a, Answer(said, counterfactual_messages[a]))
    BY <1>6 DEF AskCounterfactual
  <2>5. \A b \in DOMAIN counterfactual_outcomes' :
          /\ b \in DOMAIN counterfactual_messages
          /\ counterfactual_outcomes'[b].standing = counterfactual_messages[b]
    BY <1>6, <2>4 DEF AskCounterfactual, Put, Answer, Chain
  <2> QED BY <1>0, <2>2, <2>3, <2>5 DEF FilledLate, Chain, NaturalStanding, EditOf
<1> QED BY <1>1, <1>2, <1>3, <1>4, <1>5, <1>6, OtherSteps

(* Only deterministic_match writes the records. *)
LEMMA OnlyMatchRecords == [Next]_vars => records' = records \/ DeterministicMatch
<1>1. CASE Reject \/ Accept \/ PrepareRun \/ StartStage \/ NodeRaises
  BY <1>1 DEF Reject, Accept, PrepareRun, StartStage, NodeRaises, result
<1>2. CASE Prepare
  BY <1>2 DEF Prepare, LoadSource, AtomizeSource, SampleFocals, result
<1>3. CASE Measure
  BY <1>3 DEF Measure, RunRelay, MatchTransmission, ProviderRaises, NaturalReceiver,
       ConstructInterventions, CounterfactualReceiver, AskNatural, AskCounterfactual, result
<1>4. CASE Conclude \/ UNCHANGED vars
  BY <1>4 DEF Conclude, Estimate, Finalize, vars, result
<1> QED BY <1>1, <1>2, <1>3, <1>4 DEF Next

LEMMA ArmsInvStep == ArmsInv /\ [Next]_vars => ArmsInv'
<1> SUFFICES ASSUME ArmsInv, [Next]_vars PROVE ArmsInv'
  OBVIOUS
<1>1. FlowTypes'
  BY FlowTypesStep, StepIsFlowStep DEF ArmsInv
<1>2. FilledLate' /\ Chain'
  BY <1>1, ChainStep DEF ArmsInv
<1>3. ArmsAreApart'
  <2>1. CASE records' = records
    BY <2>1 DEF ArmsInv, ArmsAreApart
  <2>2. CASE DeterministicMatch
    <3> DEFINE Apart(r) ==
                 /\ r.d_plus.standing = "with"
                 /\ r.r_minus.standing # "with"
                 /\ r.r_minus.standing = "leftover" => r.transmitted /\ RoleOf[r.atom] \in TextRoles
    <3> SUFFICES ASSUME NEW a \in Paired
                 PROVE  Apart(Record(a))
      BY <2>2 DEF DeterministicMatch, ArmsAreApart
    <3>1. /\ a \in DOMAIN transmission /\ a \in DOMAIN natural_outcomes
          /\ a \in DOMAIN counterfactual_outcomes
      BY <2>2 DEF DeterministicMatch, Paired
    <3>2. natural_outcomes[a].standing = IF transmission[a] THEN "with" ELSE "without"
      BY <3>1 DEF ArmsInv, Chain, NaturalStanding
    <3>3. counterfactual_outcomes[a].standing \in EditOf(a)
      BY <3>1 DEF ArmsInv, Chain
    <3>4. CASE transmission[a]
      <4>1. /\ Record(a).atom = a /\ Record(a).transmitted
            /\ Record(a).d_plus.standing = "with"
            /\ Record(a).r_minus.standing \in EditOf(a)
        BY <3>2, <3>3, <3>4 DEF Record
      <4>2. /\ EditOf(a) \subseteq {"without", "leftover"}
            /\ "leftover" \in EditOf(a) => RoleOf[a] \in TextRoles
        BY <3>4 DEF EditOf
      <4> QED BY <4>1, <4>2
    <3>5. CASE ~transmission[a]
      <4>1. EditOf(a) = {"with"}
        BY <3>5 DEF EditOf
      <4> QED BY <3>2, <3>3, <3>5, <4>1 DEF Record
    <3> QED BY <3>4, <3>5
  <2> QED BY <2>1, <2>2, OnlyMatchRecords
<1> QED BY <1>1, <1>2, <1>3 DEF ArmsInv

(* In every record the natural and the edited message are on the right side: *)
(* d_plus answers a note in which the matcher reads the atom; r_minus one   *)
(* in which it does not, except for a transmitted atom of a textual role    *)
(* whose accepted deletion left its tokens (nodes.py, deterministic_match). *)
THEOREM ArmsKeptApart == Spec => []ArmsAreApart
<1>1. Init => ArmsInv
  BY FlowTypesInit DEF Init, ArmsInv, FilledLate, Chain, ArmsAreApart
<1>2. ArmsInv => ArmsAreApart
  BY DEF ArmsInv
<1> QED BY <1>1, <1>2, ArmsInvStep, PTL DEF Spec
-----------------------------------------------------------------------------
(* A stage the executor has left behind.  It is never inside it again.       *)
Past(s) == \E k \in 1 .. Len(graph) : k < next /\ graph[k] = s

LEMMA PastIsLeft ==
  ASSUME FlowTypes, NEW s, Past(s)
  PROVE  ~Inside(s)
<1> SUFFICES ASSUME Inside(s) PROVE FALSE
  OBVIOUS
<1>1. next \in 1 .. Len(graph) /\ graph[next] = s /\ InTopology(graph) /\ Len(graph) \in Nat
  BY DEF FlowTypes, Inside
<1>2. PICK k \in 1 .. Len(graph) : k < next /\ graph[k] = s
  BY DEF Past
<1>3. Position(s) < Position(s)
  BY <1>1, <1>2 DEF InTopology
<1>4. CASE s \in Stages
  <2>1. Position(s) \in 1 .. 13
    BY <1>4 DEF Stages, Position, StageOrder
  <2> QED BY <1>3, <2>1
<1> QED BY <1>1, <1>4 DEF FlowTypes

LEMMA PastStays ==
  ASSUME FlowTypes, FlowTypes', [Next]_vars, NEW s, Past(s)
  PROVE  Past(s)'
<1>1. next <= next' /\ graph' = graph
  BY StepIsFlowStep, NextGrows
<1> QED BY <1>1 DEF Past, FlowTypes

(* A call id counts the answers of its arm, and the relay is called once.    *)
CallIds == {"relay", "receiver_natural", "receiver_counterfactual"} \X Nat
IdsCount ==
  \A i \in 1 .. Len(ledger) :
    \/ ledger[i][1] = "relay" /\ Past("relay")
    \/ ledger[i][1] = "receiver_natural"
       /\ ledger[i][2] <= Cardinality(DOMAIN natural_outcomes)
    \/ ledger[i][1] = "receiver_counterfactual"
       /\ ledger[i][2] <= Cardinality(DOMAIN counterfactual_outcomes)

LedgerInv ==
  /\ FlowTypes
  /\ ledger \in Seq(CallIds)
  /\ DOMAIN natural_outcomes \subseteq Atoms /\ DOMAIN counterfactual_outcomes \subseteq Atoms
  /\ IdsCount
  /\ CallIdsDistinct

(* Only a call that returned writes the ledger, and the answers it counts.   *)
LEMMA OnlyCallsAreLogged ==
  [Next]_vars => \/ UNCHANGED <<ledger, natural_outcomes, counterfactual_outcomes>>
                 \/ RunRelay \/ \E a \in Atoms : AskNatural(a) \/ AskCounterfactual(a)
<1>1. Reject \/ Accept \/ PrepareRun \/ StartStage \/ NodeRaises \/ Prepare =>
        UNCHANGED <<ledger, natural_outcomes, counterfactual_outcomes>>
  BY DEF Reject, Accept, PrepareRun, StartStage, NodeRaises, Prepare, LoadSource, AtomizeSource,
         SampleFocals, arms, calls
<1>2. ASSUME MatchTransmission \/ ProviderRaises \/ NaturalReceiver
               \/ ConstructInterventions \/ CounterfactualReceiver
      PROVE  UNCHANGED <<ledger, natural_outcomes, counterfactual_outcomes>>
  BY <1>2 DEF MatchTransmission, ProviderRaises, NaturalReceiver, ConstructInterventions,
       CounterfactualReceiver, arms, calls
<1>3. Conclude \/ UNCHANGED vars => UNCHANGED <<ledger, natural_outcomes, counterfactual_outcomes>>
  BY DEF Conclude, DeterministicMatch, Estimate, Finalize, vars, arms, calls
<1> QED BY <1>1, <1>2, <1>3 DEF Next, Measure

(* Appending an id that no entry has keeps the ids apart.                    *)
LEMMA FreshId ==
  ASSUME ledger \in Seq(CallIds), CallIdsDistinct, NEW id \in CallIds,
         ledger' = Append(ledger, id), \A i \in 1 .. Len(ledger) : ledger[i] # id
  PROVE  /\ ledger' \in Seq(CallIds) /\ CallIdsDistinct'
         /\ \A i \in 1 .. Len(ledger') :
              \/ i \in 1 .. Len(ledger) /\ ledger'[i] = ledger[i]
              \/ ledger'[i] = id
PROOF BY DEF CallIdsDistinct

(* Answering one more question of an arm counts one more.                    *)
LEMMA OneMore ==
  ASSUME NEW f, NEW a \in Atoms, NEW v, DOMAIN f \subseteq Atoms, a \notin DOMAIN f
  PROVE  /\ DOMAIN Put(f, a, v) \subseteq Atoms
         /\ Cardinality(DOMAIN f) \in Nat
         /\ Cardinality(DOMAIN Put(f, a, v)) = Cardinality(DOMAIN f) + 1
<1>1. IsFiniteSet(DOMAIN f)
  BY GraphAssumption, FS_Subset DEF GraphAssumption
<1>2. DOMAIN Put(f, a, v) = DOMAIN f \union {a}
  BY DEF Put
<1> QED BY <1>1, <1>2, FS_AddElement, FS_CardinalityType

LEMMA LedgerInvStep == LedgerInv /\ [Next]_vars => LedgerInv'
<1> SUFFICES ASSUME LedgerInv, [Next]_vars PROVE LedgerInv'
  OBVIOUS
<1> USE DEF LedgerInv
<1>0. FlowTypes' /\ (Past("relay") => Past("relay")')
  BY FlowTypesStep, StepIsFlowStep, PastStays
<1>a. /\ Cardinality(DOMAIN natural_outcomes) \in Nat
      /\ Cardinality(DOMAIN counterfactual_outcomes) \in Nat
  BY GraphAssumption, FS_Subset, FS_CardinalityType DEF GraphAssumption
<1>b. \A i \in 1 .. Len(ledger) : ledger[i] \in CallIds /\ ledger[i][2] \in Nat
  BY DEF CallIds
<1>1. CASE UNCHANGED <<ledger, natural_outcomes, counterfactual_outcomes>>
  BY <1>0, <1>1 DEF IdsCount, CallIdsDistinct
<1>2. CASE RunRelay
  <2> DEFINE id == <<"relay", 1>>
  <2>1. Inside("relay") /\ ledger' = Append(ledger, id)
        /\ UNCHANGED <<natural_outcomes, counterfactual_outcomes, graph>> /\ next' = next + 1
    BY <1>2 DEF RunRelay, Called, Complete
  <2>2. \A i \in 1 .. Len(ledger) : ledger[i] # id
    BY <2>1, PastIsLeft DEF IdsCount
  <2>3. id \in CallIds
    BY DEF CallIds
  <2>4. Past("relay")'
    BY <2>1 DEF Past, Inside, FlowTypes
  <2> HIDE DEF id
  <2>5. /\ ledger' \in Seq(CallIds) /\ CallIdsDistinct'
        /\ \A i \in 1 .. Len(ledger') :
             \/ i \in 1 .. Len(ledger) /\ ledger'[i] = ledger[i]
             \/ ledger'[i] = id
    BY <2>1, <2>2, <2>3, FreshId
  <2>6. IdsCount'
    BY <1>0, <2>1, <2>4, <2>5 DEF IdsCount, id
  <2> QED BY <1>0, <2>1, <2>5, <2>6
<1>3. ASSUME NEW a \in Atoms, AskNatural(a) PROVE LedgerInv'
  <2> DEFINE n == Cardinality(DOMAIN natural_outcomes)
             id == <<"receiver_natural", n + 1>>
  <2>1. /\ a \notin DOMAIN natural_outcomes /\ ledger' = Append(ledger, id)
        /\ UNCHANGED counterfactual_outcomes
        /\ \E said \in BOOLEAN :
             natural_outcomes' = Put(natural_outcomes, a, Answer(said, NaturalStanding(a)))
    BY <1>3 DEF AskNatural, Called
  <2>2. /\ DOMAIN natural_outcomes' \subseteq Atoms
        /\ Cardinality(DOMAIN natural_outcomes') = n + 1
    BY <2>1, OneMore
  <2>3. id \in CallIds /\ \A i \in 1 .. Len(ledger) : ledger[i] # id
    BY <1>a, <1>b DEF CallIds, IdsCount
  <2>4. id[1] = "receiver_natural" /\ id[2] = n + 1
    OBVIOUS
  <2> HIDE DEF id
  <2>5. /\ ledger' \in Seq(CallIds) /\ CallIdsDistinct'
        /\ \A i \in 1 .. Len(ledger') :
             \/ i \in 1 .. Len(ledger) /\ ledger'[i] = ledger[i]
             \/ ledger'[i] = id
    BY <2>1, <2>3, FreshId
  <2>6. IdsCount'
    BY <1>0, <1>a, <1>b, <2>1, <2>2, <2>4, <2>5 DEF IdsCount
  <2> QED BY <1>0, <2>1, <2>2, <2>5, <2>6
<1>4. ASSUME NEW a \in Atoms, AskCounterfactual(a) PROVE LedgerInv'
  <2> DEFINE n == Cardinality(DOMAIN counterfactual_outcomes)
             id == <<"receiver_counterfactual", n + 1>>
  <2>1. /\ a \notin DOMAIN counterfactual_outcomes /\ ledger' = Append(ledger, id)
        /\ UNCHANGED natural_outcomes
        /\ \E said \in BOOLEAN :
             counterfactual_outcomes' =
               Put(counterfactual_outcomes, a, Answer(said, counterfactual_messages[a]))
    BY <1>4 DEF AskCounterfactual, Called
  <2>2. /\ DOMAIN counterfactual_outcomes' \subseteq Atoms
        /\ Cardinality(DOMAIN counterfactual_outcomes') = n + 1
    BY <2>1, OneMore
  <2>3. id \in CallIds /\ \A i \in 1 .. Len(ledger) : ledger[i] # id
    BY <1>a, <1>b DEF CallIds, IdsCount
  <2>4. id[1] = "receiver_counterfactual" /\ id[2] = n + 1
    OBVIOUS
  <2> HIDE DEF id
  <2>5. /\ ledger' \in Seq(CallIds) /\ CallIdsDistinct'
        /\ \A i \in 1 .. Len(ledger') :
             \/ i \in 1 .. Len(ledger) /\ ledger'[i] = ledger[i]
             \/ ledger'[i] = id
    BY <2>1, <2>3, FreshId
  <2>6. IdsCount'
    BY <1>0, <1>a, <1>b, <2>1, <2>2, <2>4, <2>5 DEF IdsCount
  <2> QED BY <1>0, <2>1, <2>2, <2>5, <2>6
<1> QED BY <1>1, <1>2, <1>3, <1>4, OnlyCallsAreLogged

(* No two records of the provider ledger share a call id: the relay is       *)
(* called once and each arm numbers its calls from one (nodes.py, run_relay, *)
(* natural_receiver, counterfactual_receiver).                              *)
THEOREM IdsAreDistinct == Spec => []CallIdsDistinct
<1>1. Init => LedgerInv
  BY FlowTypesInit DEF Init, LedgerInv, IdsCount, CallIdsDistinct
<1>2. LedgerInv => CallIdsDistinct
  BY DEF LedgerInv
<1> QED BY <1>1, <1>2, LedgerInvStep, PTL DEF Spec
-----------------------------------------------------------------------------
(* What a stage fills is empty until the executor reaches the stage; what a  *)
(* later stage derives from it is therefore not overtaken by it.            *)
EmptyUntilReached ==
  /\ focals # {} => Reached("sample_focals")
  /\ relay_message # {} => Reached("relay")
  /\ failed_edits # {} => Reached("construct_interventions")
  /\ records # {} => Reached("deterministic_match")
  /\ decomposition # {} => Reached("estimate")

TypeInv ==
  /\ LedgerInv /\ EmptyUntilReached
  /\ engine \in Engines /\ graph \in Graphs
  /\ invoked \in Nat /\ framed \in BOOLEAN
  /\ eligible \subseteq Atoms /\ focals \subseteq eligible /\ relay_message \subseteq eligible
  /\ \A a \in DOMAIN natural_outcomes : natural_outcomes[a] \in Outcomes
  /\ \A a \in DOMAIN counterfactual_outcomes : counterfactual_outcomes[a] \in Outcomes
  /\ \A a \in DOMAIN counterfactual_messages : counterfactual_messages[a] \in Standings
  /\ failed_edits \subseteq focals
  /\ \A r \in records : r.atom \in focals
  /\ decomposition \subseteq focals

LEMMA MorePositions ==
  /\ Position("atomize") = 3
  /\ Position("deterministic_match") = 10 /\ Position("estimate") = 11
PROOF BY DEF Position, StageOrder

LEMMA NothingSampledYet ==
  ASSUME FlowTypes, EmptyUntilReached
  PROVE  /\ Inside("atomize") => focals = {} /\ relay_message = {}
         /\ Inside("sample_focals") => failed_edits = {} /\ records = {} /\ decomposition = {}
         /\ Inside("deterministic_match") => decomposition = {}
<1>1. ASSUME NEW s, NEW t, Inside(t), s # t, ~(Position(s) < Position(t))
      PROVE  ~Reached(s)
  BY <1>1, ReachedIsEarlier
<1>2. Inside("atomize") => ~Reached("sample_focals")
  BY <1>1, Positions, MorePositions
<1>3. Inside("atomize") => ~Reached("relay")
  BY <1>1, Positions, MorePositions
<1>4. Inside("sample_focals") => ~Reached("construct_interventions")
  BY <1>1, Positions, MorePositions
<1>5. Inside("sample_focals") => ~Reached("deterministic_match")
  BY <1>1, Positions, MorePositions
<1>6. Inside("sample_focals") => ~Reached("estimate")
  BY <1>1, Positions, MorePositions
<1>7. Inside("deterministic_match") => ~Reached("estimate")
  BY <1>1, Positions, MorePositions
<1> QED BY <1>2, <1>3, <1>4, <1>5, <1>6, <1>7 DEF EmptyUntilReached

(* One step of the model, stage by stage.                                    *)
LEMMA TypeInvStep == TypeInv /\ [Next]_vars => TypeInv'
<1> SUFFICES ASSUME TypeInv, [Next]_vars PROVE TypeInv'
  OBVIOUS
<1> USE DEF TypeInv
<1>0. FlowTypes /\ LedgerInv' /\ UNCHANGED <<engine, graph>>
  BY LedgerInvStep, StepIsFlowStep DEF LedgerInv
<1>a. FlowTypes' /\ \A s : Reached(s) => Reached(s)'
  BY <1>0, ReachedStays DEF LedgerInv
<1>b. ASSUME NEW s, Inside(s) PROVE Reached(s)'
  BY <1>0, <1>a, <1>b, Entered
<1>1. CASE UNCHANGED <<sampled, arms, result>> /\ invoked' \in Nat
  BY <1>0, <1>a, <1>1 DEF sampled, arms, result, EmptyUntilReached
<1>2. CASE Reject \/ Accept \/ PrepareRun \/ StartStage \/ NodeRaises \/ UNCHANGED vars
  BY <1>1, <1>2 DEF Reject, Accept, PrepareRun, StartStage, NodeRaises, vars, calls
<1>3. CASE ProviderRaises \/ NaturalReceiver \/ CounterfactualReceiver \/ Finalize
  BY <1>1, <1>3 DEF ProviderRaises, NaturalReceiver, CounterfactualReceiver, Finalize, calls
<1>4. CASE LoadSource
  BY <1>0, <1>a, <1>4 DEF LoadSource, arms, result, calls, EmptyUntilReached
<1>5. CASE AtomizeSource
  <2>1. focals = {} /\ relay_message = {}
    BY <1>0, <1>5, NothingSampledYet DEF AtomizeSource
  <2> QED BY <1>0, <1>a, <1>5, <2>1 DEF AtomizeSource, arms, result, calls, EmptyUntilReached
<1>6. CASE SampleFocals
  <2>1. failed_edits = {} /\ records = {} /\ decomposition = {}
    BY <1>0, <1>6, NothingSampledYet DEF SampleFocals
  <2>2. Reached("sample_focals")'
    BY <1>6, <1>b DEF SampleFocals
  <2> QED BY <1>0, <1>a, <1>6, <2>1, <2>2 DEF SampleFocals, arms, result, calls, EmptyUntilReached
<1>7. CASE RunRelay
  <2>1. Reached("relay")'
    BY <1>7, <1>b DEF RunRelay
  <2> QED BY <1>0, <1>a, <1>7, <2>1 DEF RunRelay, Called, sampled, result, EmptyUntilReached
<1>8. CASE MatchTransmission
  BY <1>0, <1>a, <1>8 DEF MatchTransmission, sampled, result, calls, EmptyUntilReached
<1>9. CASE ConstructInterventions
  <2>1. Reached("construct_interventions")'
    BY <1>9, <1>b DEF ConstructInterventions
  <2>2. failed_edits' \subseteq focals
        /\ \A a \in DOMAIN counterfactual_messages' : counterfactual_messages'[a] \in Standings
    BY <1>9 DEF ConstructInterventions, EditedMessages
  <2> QED BY <1>0, <1>a, <1>9, <2>1, <2>2
          DEF ConstructInterventions, sampled, result, calls, EmptyUntilReached
<1>10. ASSUME NEW a \in Atoms, AskNatural(a) PROVE TypeInv'
  <2>1. PICK said \in BOOLEAN :
          natural_outcomes' = Put(natural_outcomes, a, Answer(said, NaturalStanding(a)))
    BY <1>10 DEF AskNatural
  <2>2. \A b \in DOMAIN natural_outcomes' : natural_outcomes'[b] \in Outcomes
    BY <2>1 DEF Put, Answer, Outcomes, Standings, NaturalStanding
  <2> QED BY <1>0, <1>a, <1>10, <2>2 DEF AskNatural, Called, sampled, result, EmptyUntilReached
<1>11. ASSUME NEW a \in Atoms, AskCounterfactual(a) PROVE TypeInv'
  <2>1. PICK said \in BOOLEAN :
          counterfactual_outcomes' =
            Put(counterfactual_outcomes, a, Answer(said, counterfactual_messages[a]))
    BY <1>11 DEF AskCounterfactual
  <2>2. \A b \in DOMAIN counterfactual_outcomes' : counterfactual_outcomes'[b] \in Outcomes
    BY <1>11, <2>1 DEF AskCounterfactual, Put, Answer, Outcomes
  <2> QED BY <1>0, <1>a, <1>11, <2>2
          DEF AskCounterfactual, Called, sampled, result, EmptyUntilReached
<1>12. CASE DeterministicMatch
  <2>1. Reached("deterministic_match")' /\ decomposition = {}
    BY <1>0, <1>12, <1>b, NothingSampledYet DEF DeterministicMatch
  <2>2. \A r \in records' : r.atom \in focals
    BY <1>12 DEF DeterministicMatch, Paired, Record
  <2> QED BY <1>0, <1>a, <1>12, <2>1, <2>2
          DEF DeterministicMatch, sampled, arms, calls, EmptyUntilReached
<1>13. CASE Estimate
  <2>1. Reached("estimate")'
    BY <1>13, <1>b DEF Estimate
  <2> QED BY <1>0, <1>a, <1>13, <2>1 DEF Estimate, sampled, arms, calls, EmptyUntilReached
<1> QED BY <1>2, <1>3, <1>4, <1>5, <1>6, <1>7, <1>8, <1>9, <1>10, <1>11, <1>12, <1>13
        DEF Next, Prepare, Measure, Conclude

LEMMA TypeInvAlways == Spec => []TypeInv
<1>1. Init => LedgerInv
  BY FlowTypesInit DEF Init, LedgerInv, IdsCount, CallIdsDistinct
<1>2. Init => EmptyUntilReached
  BY DEF Init, EmptyUntilReached
<1>3. \A a \in DOMAIN <<>> : FALSE
  OBVIOUS
<1>4. ASSUME Init
      PROVE  /\ engine \in Engines /\ graph \in Graphs
             /\ invoked \in Nat /\ framed \in BOOLEAN
             /\ eligible \subseteq Atoms /\ focals \subseteq eligible
             /\ relay_message \subseteq eligible /\ failed_edits \subseteq focals
             /\ (\A r \in records : r.atom \in focals) /\ decomposition \subseteq focals
  BY <1>4 DEF Init
<1>5. ASSUME Init
      PROVE  /\ \A a \in DOMAIN natural_outcomes : FALSE
             /\ \A a \in DOMAIN counterfactual_outcomes : FALSE
             /\ \A a \in DOMAIN counterfactual_messages : FALSE
  BY <1>3, <1>5 DEF Init
<1>6. Init => TypeInv
  BY <1>1, <1>2, <1>4, <1>5 DEF TypeInv
<1> QED BY <1>6, TypeInvStep, PTL DEF Spec

(* Every variable of a run keeps its type; in particular what is sampled is  *)
(* eligible and what is estimated was sampled, for every node list that      *)
(* passes assert_topology, whichever stages it leaves out.                  *)
THEOREM TypeCorrect == Spec => []TypeOK
<1>1. TypeInv => TypeOK
  BY DEF TypeInv, LedgerInv, FlowTypes, Logged, CallIds, TypeOK
<1> QED BY <1>1, TypeInvAlways, PTL
-----------------------------------------------------------------------------
(* How far a run of the built graph has come says what its dictionaries hold: *)
(* the focal atoms are the keys of each until an edit fails, and then those *)
(* whose edit did not.                                                      *)
Edited == focals \ failed_edits
KeysFollowStages ==
  graph = BuildNodes =>
    /\ next > 6 => DOMAIN transmission = focals
    /\ next > 7 => DOMAIN natural_outcomes = focals
    /\ next > 8 => DOMAIN counterfactual_messages = Edited
    /\ next > 9 => DOMAIN counterfactual_outcomes = Edited
    /\ next > 10 => {r.atom : r \in records} = Edited
    /\ next > 11 => decomposition = Edited
    /\ phase = "completed" => next > 11

(* In the built graph a stage is where the topology has it.                  *)
LEMMA BuiltPositions ==
  ASSUME FlowTypes, graph = BuildNodes, phase = "inside"
  PROVE  /\ Len(graph) = 11
         /\ graph[next] = "load_source" => next = 2
         /\ graph[next] = "atomize" => next = 3
         /\ graph[next] = "sample_focals" => next = 4
         /\ graph[next] = "relay" => next = 5
         /\ graph[next] = "match_transmission" => next = 6
         /\ graph[next] = "natural_receiver" => next = 7
         /\ graph[next] = "construct_interventions" => next = 8
         /\ graph[next] = "counterfactual_receiver" => next = 9
         /\ graph[next] = "deterministic_match" => next = 10
         /\ graph[next] = "estimate" => next = 11
<1>1. Len(graph) = 11 /\ next \in 1 .. 11
  BY DEF FlowTypes, BuildNodes
<1>. QED
  BY <1>1 DEF BuildNodes

LEMMA KeysStep ==
  ASSUME FlowTypes, FlowTypes', KeysFollowStages, [Next]_vars
  PROVE  KeysFollowStages'
<1>0. UNCHANGED graph /\ FlowStep
  BY StepIsFlowStep
<1>. SUFFICES ASSUME graph = BuildNodes
              PROVE  KeysFollowStages'
  BY <1>0 DEF KeysFollowStages
<1>. USE DEF KeysFollowStages, Edited
<1>a. next \in 1 .. 12 /\ Len(graph) = 11
  BY DEF FlowTypes, BuildNodes
<1>1. CASE UNCHANGED <<focals, arms, result>> /\ UNCHANGED next /\ phase' # "completed"
  BY <1>0, <1>1 DEF arms, result
<1>2. CASE Reject \/ Accept \/ StartStage \/ NodeRaises \/ ProviderRaises
  BY <1>1, <1>2 DEF Reject, Accept, StartStage, NodeRaises, ProviderRaises, Fail, sampled
<1>3. CASE UNCHANGED vars
  BY <1>0, <1>3 DEF vars, flow, sampled, arms, result
<1>4. CASE PrepareRun
  <2>1. next = 1
    BY <1>4, <1>a DEF PrepareRun, BuildNodes
  <2>. QED
    BY <1>0, <1>4, <2>1 DEF PrepareRun
<1>5. CASE LoadSource \/ AtomizeSource \/ SampleFocals \/ RunRelay
  <2>1. next \in 2 .. 5 /\ phase' = "between" /\ next' = next + 1
    BY <1>5, BuiltPositions
       DEF LoadSource, AtomizeSource, SampleFocals, RunRelay, Inside, Complete
  <2>. QED
    BY <1>0, <2>1
<1>6. CASE MatchTransmission
  <2>1. next = 6 /\ phase' = "between" /\ next' = 7 /\ focals' = focals
        /\ DOMAIN transmission' = focals
    BY <1>6, BuiltPositions DEF MatchTransmission, Inside, Complete, sampled
  <2>. QED
    BY <1>0, <2>1
<1>7. ASSUME NEW a \in Atoms, AskNatural(a) PROVE KeysFollowStages'
  <2>1. next = 7 /\ phase' = "inside" /\ UNCHANGED <<next, focals, transmission>>
    BY <1>7, BuiltPositions DEF AskNatural, Inside, flow, sampled
  <2>. QED
    BY <1>0, <2>1
<1>8. CASE NaturalReceiver
  <2>1. next = 7 /\ phase' = "between" /\ next' = 8
        /\ UNCHANGED <<focals, transmission, natural_outcomes>>
        /\ DOMAIN natural_outcomes = focals
    BY <1>8, BuiltPositions DEF NaturalReceiver, Inside, Complete, sampled, arms
  <2>. QED
    BY <1>0, <2>1
<1>9. CASE ConstructInterventions
  <2>1. next = 8 /\ phase' = "between" /\ next' = 9
        /\ UNCHANGED <<focals, transmission, natural_outcomes>>
        /\ DOMAIN counterfactual_messages' = focals \ failed_edits'
    BY <1>9, BuiltPositions DEF ConstructInterventions, EditedMessages, Inside, Complete, sampled
  <2>. QED
    BY <1>0, <2>1
<1>10. ASSUME NEW a \in Atoms, AskCounterfactual(a) PROVE KeysFollowStages'
  <2>1. next = 9 /\ phase' = "inside"
        /\ UNCHANGED <<next, focals, failed_edits, transmission, natural_outcomes,
                       counterfactual_messages>>
    BY <1>10, BuiltPositions DEF AskCounterfactual, Inside, flow, sampled
  <2>. QED
    BY <1>0, <2>1
<1>11. CASE CounterfactualReceiver
  <2>1. next = 9 /\ phase' = "between" /\ next' = 10 /\ UNCHANGED <<focals, arms>>
        /\ DOMAIN counterfactual_outcomes = DOMAIN counterfactual_messages
    BY <1>11, BuiltPositions DEF CounterfactualReceiver, Inside, Complete, sampled
  <2>. QED
    BY <1>0, <2>1 DEF arms
<1>12. CASE DeterministicMatch
  <2>1. next = 10 /\ phase' = "between" /\ next' = 11 /\ UNCHANGED <<focals, arms>>
    BY <1>12, BuiltPositions DEF DeterministicMatch, Inside, Complete, sampled
  <2>2. Paired = Edited
    BY <2>1 DEF Paired
  <2>3. {r.atom : r \in records'} = Edited
    <3>1. records' = {Record(a) : a \in Edited}
      BY <1>12, <2>2 DEF DeterministicMatch
    <3>2. \A a : Record(a).atom = a
      BY DEF Record
    <3>. QED
      BY <3>1, <3>2
  <2>. QED
    BY <1>0, <2>1, <2>3 DEF arms
<1>13. CASE Estimate
  <2>1. next = 11 /\ phase' = "between" /\ next' = 12 /\ UNCHANGED <<focals, arms, records>>
        /\ decomposition' = {r.atom : r \in records}
    BY <1>13, BuiltPositions DEF Estimate, Inside, Complete, sampled
  <2>. QED
    BY <1>0, <2>1 DEF arms
<1>14. CASE Finalize
  <2>1. next > 11 /\ UNCHANGED <<next, focals, arms, result>>
    BY <1>a, <1>14 DEF Finalize, sampled
  <2>. QED
    BY <1>0, <2>1 DEF arms, result
<1>. QED
  BY <1>2, <1>3, <1>4, <1>5, <1>6, <1>7, <1>8, <1>9, <1>10, <1>11, <1>12, <1>13, <1>14
     DEF Next, Prepare, Measure, Conclude

(* A completed run of the graph that build_nodes returns has estimated       *)
(* every sampled atom but those it lists in failed_edits, whatever failed   *)
(* on the way (nodes.py).                                                   *)
THEOREM NothingDropped == Spec => []NoFocalDropped
<1>. DEFINE Inv == FlowTypes /\ KeysFollowStages
<1>1. Init => Inv
  BY FlowTypesInit DEF Init, KeysFollowStages
<1>2. Inv /\ [Next]_vars => Inv'
  BY FlowTypesStep, StepIsFlowStep, KeysStep
<1>3. Inv => NoFocalDropped
  BY DEF FlowTypes, KeysFollowStages, Edited, NoFocalDropped
<1>. QED
  BY <1>1, <1>2, <1>3, PTL DEF Spec
=============================================================================
