---------------------------- MODULE DemoService ----------------------------
(***************************************************************************)
(* The HTTP service and its web client: create_demo_run, the read-only     *)
(* handlers and the in-memory RunStore of apps/api/handoff_api, with       *)
(* startDemo and loadRun of apps/web/src/App.tsx.                          *)
(*                                                                         *)
(* Requests are served by a pool of threads in any order.  The server may  *)
(* be restarted at any time, in another mode, which empties the store; the *)
(* client keeps what it has read of the old one.  OPA comes and goes.      *)
(* RunGraph models what a demo run does; here it completes or raises.      *)
(***************************************************************************)
EXTENDS Naturals, FiniteSets, LifecyclePolicy

CONSTANTS
  RunIds,       (* the identifiers that uuid4 deals out                     *)
  MaxRestarts   (* bound: restarts of the server                            *)

ASSUME DemoServiceAssumption ==
  IsFiniteSet(RunIds) /\ "none" \notin RunIds /\ MaxRestarts \in Nat

VARIABLES
  mode,      (* cfg.mode of the running server                              *)
  runs,      (* RunStore._runs: the run ids that have a record              *)
  dealt,     (* observer: run ids that were dealt                           *)
  restarts,  (* observer                                                    *)
  caps,      (* client: what /capabilities said, once it has answered       *)
  post,      (* client: the POST of startDemo                               *)
  loading,   (* client: the run whose three parts loadRun awaits            *)
  parts,     (* ... and what has come back for each of them                 *)
  shown,     (* client: run, atoms and events in the panes, and the error   *)
  opa        (* what OPA came to at the last evaluation                     *)

server == <<mode, runs, dealt, restarts, opa>>
client == <<caps, post, loading, parts, shown>>
serviceVars == <<server, client>>

Modes == {"RESEARCH_MODE", "DEMO_MODE"}
Parts == {"detail", "atoms", "trace"}
Panes == {"run", "atoms", "events"}
Waiting == [p \in Parts |-> "sent"]
NotLoading == [p \in Parts |-> "idle"]
Blank == [p \in Panes |-> "none"]

(* busy: startDemo has not come to its finally. *)
busy == post # "idle" \/ loading # "none"
-----------------------------------------------------------------------------
ServiceInit ==
  /\ mode \in Modes /\ runs = {} /\ dealt = {} /\ restarts = 0 /\ opa = "absent"
  /\ caps = "none" /\ post = "idle" /\ loading = "none" /\ parts = NotLoading
  /\ shown = Blank

(* The effect of the first render: capabilities are asked for once. *)
Capabilities ==
  /\ caps = "none" /\ caps' = mode
  /\ UNCHANGED <<server, post, loading, parts, shown>>

(* The button is enabled by the capabilities, not by the server's mode now. *)
StartDemo ==
  /\ ~busy /\ caps = "DEMO_MODE"
  /\ post' = "sent"
  /\ UNCHANGED <<server, caps, loading, parts, shown>>

DemoRequest ==
  [action |-> "run_demo_synthetic", subject |-> "browser", mode |-> mode,
   provider |-> "mock", facts |-> {}]

(* create_demo_run answers r: the policy, the pipeline, the store.  The     *)
(* request is refused by the policy, or because the pipeline raises.        *)
DemoRun(r) ==
  \E o \in OpaOutcomes :
    /\ opa' = o
    /\ \/ r = "refused" /\ UNCHANGED <<runs, dealt>>
       \/ /\ r \in RunIds \ dealt /\ evaluate(DemoRequest, o).allow
          /\ runs' = runs \union {r} /\ dealt' = dealt \union {r}
    /\ UNCHANGED <<mode, restarts>>

DemoAnswers == RunIds \union {"refused"}

ServePost ==
  /\ post = "sent"
  /\ post' \in DemoAnswers /\ DemoRun(post')
  /\ UNCHANGED <<caps, loading, parts, shown>>

(* Another client of the same server posts. *)
OtherPost == (\E r \in DemoAnswers : DemoRun(r)) /\ UNCHANGED client

(* Mutant: the answer's run id is used without looking at its status. *)
PostAnsweredUnchecked ==
  /\ post \notin {"idle", "sent"}
  /\ loading' = post /\ parts' = Waiting
  /\ post' = "idle"
  /\ UNCHANGED <<server, caps, shown>>

(* startDemo goes on: loadRun sends three requests, or the error is shown.  *)
PostAnswered ==
  /\ post \notin {"idle", "sent"}
  /\ IF post = "refused" THEN UNCHANGED <<loading, parts>>
     ELSE loading' = post /\ parts' = Waiting
  /\ post' = "idle"
  /\ UNCHANGED <<server, caps, shown>>

(* get_run, get_atoms, get_trace: the record, or 404. *)
ServeGet(p) ==
  /\ parts[p] = "sent" /\ loading # "none"
  /\ parts' = [parts EXCEPT ![p] = IF loading \in runs THEN loading ELSE "refused"]
  /\ UNCHANGED <<server, caps, post, loading, shown>>

(* Mutant: each pane is set as soon as its part is there. *)
ShowEach ==
  /\ loading # "none" /\ \A p \in Parts : parts[p] # "sent"
  /\ shown' = [x \in Panes |->
       LET p == CASE x = "run" -> "detail" [] x = "atoms" -> "atoms" [] x = "events" -> "trace"
       IN IF parts[p] = "refused" THEN shown[x] ELSE parts[p]]
  /\ loading' = "none" /\ parts' = NotLoading
  /\ UNCHANGED <<server, caps, post>>

(* Promise.all: all three parts are shown, or none. *)
ShowRun ==
  /\ loading # "none" /\ \A p \in Parts : parts[p] # "sent"
  /\ shown' = IF \E p \in Parts : parts[p] = "refused" THEN shown
              ELSE [x \in Panes |->
                      parts[CASE x = "run" -> "detail" [] x = "atoms" -> "atoms"
                              [] x = "events" -> "trace"]]
  /\ loading' = "none" /\ parts' = NotLoading
  /\ UNCHANGED <<server, caps, post>>

(* The server is restarted: the store is gone, requests in flight fail.     *)
RestartServer ==
  /\ restarts < MaxRestarts /\ restarts' = restarts + 1
  /\ mode' \in Modes /\ runs' = {}
  /\ post' = IF post = "sent" THEN "refused" ELSE post
  /\ parts' = [p \in Parts |-> IF parts[p] = "sent" THEN "refused" ELSE parts[p]]
  /\ UNCHANGED <<dealt, opa, caps, loading, shown>>

ServiceNext ==
  \/ Capabilities \/ StartDemo \/ ServePost \/ OtherPost \/ PostAnswered
  \/ (\E p \in Parts : ServeGet(p)) \/ ShowRun \/ RestartServer

ServiceSpec == ServiceInit /\ [][ServiceNext]_serviceVars
-----------------------------------------------------------------------------
(* Every variable keeps its type. *)
ServiceTypeOK ==
  /\ mode \in Modes /\ runs \subseteq dealt /\ dealt \subseteq RunIds
  /\ restarts \in 0 .. MaxRestarts /\ opa \in OpaOutcomes
  /\ caps \in Modes \union {"none"}
  /\ post \in {"idle", "sent", "refused"} \union RunIds
  /\ loading \in RunIds \union {"none"}
  /\ parts \in [Parts -> {"idle", "sent", "refused"} \union RunIds]
  /\ shown \in [Panes -> RunIds \union {"none"}]

(* A server in research mode holds no demo run, whatever OPA answered, and  *)
(* however stale the capabilities are that enabled a client's button.       *)
DemoRunsNeedDemoMode == mode = "RESEARCH_MODE" => runs = {}

(* The panes show the parts of one run, or nothing: never the atoms of one  *)
(* run beside the events of another, also when the server is restarted      *)
(* between two of the three answers.                                        *)
PanesShowOneRun == \A x, y \in Panes : shown[x] = shown[y]
=============================================================================
