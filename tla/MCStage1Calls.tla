--------------------------- MODULE MCStage1Calls ---------------------------
(* Relay tasks and receiver tasks: two of the runner's three waves.        *)
EXTENDS Stage1Calls

CONSTANTS RelayTasks, ReceiverTasks

MCTasks == RelayTasks \union ReceiverTasks
MCWaveOf == [t \in MCTasks |-> IF t \in RelayTasks THEN 1 ELSE 2]
=============================================================================
