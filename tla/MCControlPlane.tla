--------------------------- MODULE MCControlPlane ---------------------------
(* What may be run from where: the guarded stages of the command line, or   *)
(* the demo runs of the HTTP service.  They share the policy's vocabulary   *)
(* and no state, so one behaviour has the actors of one.                    *)
EXTENDS StudyLifecycle, DemoService

VARIABLE interface

planeVars == <<vars, serviceVars, interface>>

PlaneInit == Init /\ ServiceInit /\ interface \in {"cli", "http"}
             /\ (interface = "cli" => mode = "RESEARCH_MODE")

CliTurn  == interface = "cli" /\ Next /\ UNCHANGED <<serviceVars, interface>>
HttpTurn == interface = "http" /\ ServiceNext /\ UNCHANGED <<vars, interface>>

PlaneNext == CliTurn \/ HttpTurn

PlaneSpec == PlaneInit /\ [][PlaneNext]_planeVars

(* Every variable of both components keeps its type. *)
PlaneTypeOK == TypeOK /\ ServiceTypeOK
=============================================================================
