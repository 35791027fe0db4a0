----------------------------- MODULE NetworkNode ------------------------------
(***************************************************************************)
(* A node of the network (components/smart_utilities): how it gets on it   *)
(* (WifiSetup), and, once it is on it, whom it talks to (LocalServer) and  *)
(* how it is updated (OtaUpdate), for which it needs the URL of a server.  *)
(* The power may fail at any time, and an update restarts the node.        *)
(*                                                                         *)
(* The program that calls these parts is not in the repository; the model  *)
(* assumes that it has wifi_init back before it calls the others.          *)
(*                                                                         *)
(* Bound: from one power on to the next a node on the network does one job *)
(* (Jobs), and nothing but updates after the first "update"; a behaviour   *)
(* follows either the way to the network ("link") or what is done on it,   *)
(* for the two share nothing.                                              *)
(***************************************************************************)
EXTENDS WifiSetup, LocalServer, OtaUpdate

Jobs == {"logs", "commands", "update"}

VARIABLES job

vars == <<isMaster, wifiVars, serverVars, otaVars, job>>

Init ==
    /\ isMaster \in BOOLEAN
    /\ WifiInit /\ ServerInit /\ OtaInit
    /\ job \in Jobs \cup {"link"}

LinkOnly   == UNCHANGED <<isMaster, serverVars, otaVars, job>>
ServerOnly == UNCHANGED <<isMaster, wifiVars, otaVars, job>>
UpdateOnly == UNCHANGED <<isMaster, wifiVars, serverVars, job>>

Link == job = "link" /\ WifiStep /\ LinkOnly

Serve ==
    /\ \/ job \in {"logs", "commands"} /\ ListenTask
       \/ job = "logs" /\ LogTask
       \/ job = "commands" /\ SendTask
    /\ ServerOnly

(* Without a server's URL there is no update. *)
Update ==
    /\ job = "update" /\ url # "none"
    /\ OtaTask \/ Publish
    /\ UpdateOnly

PowerFails ==
    /\ WifiReset /\ ServerReset /\ OtaReset
    /\ IF job \in {"link", "update"} THEN UNCHANGED job ELSE job' \in Jobs
    /\ UNCHANGED isMaster

Next == Link \/ Serve \/ Update \/ PowerFails

(* Every task runs that can (FreeRTOS; the waits have time limits or end   *)
(* with an event); the SmartConfig library does tell the phone.            *)
Fairness ==
    /\ WF_vars(job = "link" /\ MainTask /\ LinkOnly)
    /\ WF_vars(job = "link" /\ ScTask /\ LinkOnly)
    /\ WF_vars(job = "link" /\ EventTask /\ LinkOnly)
    /\ WF_vars(job = "link" /\ PhoneGetsAck /\ LinkOnly)
    /\ WF_vars(job = "logs" /\ LogTask /\ ServerOnly)

Spec == Init /\ [][Next]_vars /\ Fairness
=============================================================================
