----------------------------- MODULE LocalServer ------------------------------
(***************************************************************************)
(* Whom a node talks to, once it is on the network                         *)
(* (components/smart_utilities/network, common/nvs_db.c):                  *)
(* log_client.c looks for a server to log to: the default one, the one in  *)
(* flash, one that it discovers; config_discovery.c listens for datagrams  *)
(* that name a server or a master, and sends commands to the master.       *)
(*                                                                         *)
(* The network is external: it loses datagrams, and sends what it likes.   *)
(***************************************************************************)
EXTENDS NodeRole, Integers

CONSTANTS
    Servers,     \* URLs with an address and a port
    MaxSockets,  \* CONFIG_LWIP_MAX_SOCKETS
    Pings        \* how often a server is asked whether it is there: 3

ASSUME ServerAssumption == MaxSockets \in Nat \ {0} /\ Pings \in Nat \ {0}

(* tf_save_local_server_url takes whatever begins with "http://". *)
Default == "default"
Urls    == Servers \cup {Default, "noport"}
Sent    == Urls \cup {"junk"}

UdpPort == 1
Masters == {"m1", "gateway"} \X {0, UdpPort}

VARIABLES
    url,      \* local.url in flash; "none": no such key
    sockets,  \* sockets in use
    log,      \* log_client_init: where, of which server, pings left, default?
    listens,  \* udp_listen_task has a socket
    pending,  \* tf_save_master_info: the declared port it has yet to store
    master,   \* g_master_addr, g_master_port
    cmd,      \* udp_send_cmd_to_master: where, what it has read
    last,     \* history: the last declaration handled
    calm      \* history: no declaration was handled during the send

serverVolatile == <<sockets, log, listens, pending, master, cmd, last, calm>>
serverVars     == <<url, serverVolatile>>

NoMaster == <<"", 0>>
None     == -1
NoLog    == [at |-> "off", of |-> "", left |-> 0, first |-> FALSE]
NoCmd    == [at |-> "idle", to |-> NoMaster]

(* config_discovery_init *)
FirstMaster == IF isMaster THEN NoMaster ELSE <<"gateway", UdpPort>>

ServerStarts(so, lg, ls, pe, ms, cm, la, ca) ==
    /\ so = 0 /\ lg = NoLog /\ ls = "no" /\ pe = None /\ ms = FirstMaster
    /\ cm = NoCmd /\ la = FirstMaster /\ ca = TRUE

ServerInit ==
    /\ ServerStarts(sockets, log, listens, pending, master, cmd, last, calm)
    /\ url = "none"

ServerReset ==
    /\ ServerStarts(sockets', log', listens', pending', master', cmd', last', calm')
    /\ UNCHANGED url

-----------------------------------------------------------------------------
(* (A fault: sockets that ask who is there are closed.) *)
TakenAndClosed == sockets

(* log_client_verify_server and log_client_discover_server never close the *)
(* socket they open.                                                       *)
Taken == sockets + 1

HasSocket == sockets < MaxSockets

(* The flash may be full. *)
Store(u) == url' = u \/ UNCHANGED url

TfSaveLocalServerUrl(u) ==
    IF u \in Urls /\ u # url THEN Store(u) ELSE UNCHANGED url

-----------------------------------------------------------------------------
(* log_client_init.  A server that is not there is looked for by a master; *)
(* a slave logs to it all the same.                                        *)
Goes(at) == log' = [log EXCEPT !.at = at]

Verify(u, first) ==
    IF HasSocket
    THEN /\ sockets' = Taken
         /\ log' = [at |-> "ping", of |-> u, left |-> Pings, first |-> first]
    ELSE /\ UNCHANGED sockets
         /\ log' = [at |-> IF first THEN "read" ELSE "gone", of |-> u, left |-> 0, first |-> first]

LogInit ==
    /\ log.at = "off"
    /\ Verify(Default, TRUE)
    /\ UNCHANGED url

Answered ==
    /\ log.at = "ping"
    /\ Goes("open")
    /\ IF log.first THEN Store(Default) ELSE UNCHANGED url
    /\ UNCHANGED sockets

NotAnswered ==
    /\ log.at = "ping"
    /\ log' = [log EXCEPT !.left = @ - 1,
                          !.at = IF log.left > 1 THEN "ping" ELSE IF log.first THEN "read" ELSE "gone"]
    /\ UNCHANGED <<url, sockets>>

ReadUrl ==
    /\ log.at = "read"
    /\ IF url \in {"none", "noport"}
       THEN Goes("gave up") /\ UNCHANGED sockets
       ELSE Verify(url, FALSE)
    /\ UNCHANGED url

Gone ==
    /\ log.at = "gone"
    /\ IF ~isMaster \/ ~HasSocket
       THEN Goes("open") /\ UNCHANGED sockets
       ELSE Goes("discover") /\ sockets' = Taken
    /\ UNCHANGED url

(* Every address is asked in turn, and whoever answers is believed: what   *)
(* it sent may not be stored, and is not looked at again.                  *)
Discover ==
    /\ log.at = "discover"
    /\ \/ \E u \in Sent : TfSaveLocalServerUrl(u) /\ Goes("read")
       \/ UNCHANGED url /\ Goes("open")
    /\ UNCHANGED sockets

OpenLog ==
    /\ log.at = "open"
    /\ IF HasSocket THEN sockets' = sockets + 1 /\ Goes("on")
       ELSE UNCHANGED sockets /\ Goes("gave up")
    /\ UNCHANGED url

LogTask ==
    /\ LogInit \/ Answered \/ NotAnswered \/ ReadUrl \/ Gone \/ Discover \/ OpenLog
    /\ UNCHANGED <<listens, pending, master, cmd, last, calm>>

-----------------------------------------------------------------------------
(* udp_listen_task and its functions.  The task ends when it gets no       *)
(* socket.  A declaration is stored in two steps that other tasks may see. *)
Listen ==
    /\ listens = "no"
    /\ IF HasSocket THEN listens' = "yes" /\ sockets' = sockets + 1
       ELSE listens' = "ended" /\ UNCHANGED sockets
    /\ UNCHANGED <<url, log, pending, master, cmd, last, calm>>

Waits == listens = "yes" /\ pending = None

TakeUrl ==
    /\ Waits
    /\ \E u \in Sent : TfSaveLocalServerUrl(u)
    /\ UNCHANGED serverVolatile

(* (A fault: a declaration is known if its address or its port is.) *)
KnownByEither(m) == master[1] = m[1] \/ master[2] = m[2]

Known(m) == master[1] = m[1] /\ master[2] = m[2]

Disturb == calm' = (cmd.at = "idle")

TfSaveMasterInfo(m) ==
    /\ Waits
    /\ last' = m
    /\ Disturb
    /\ IF Known(m) THEN UNCHANGED <<master, pending>>
       ELSE master' = [master EXCEPT ![1] = m[1]] /\ pending' = m[2]
    /\ UNCHANGED <<url, sockets, log, listens, cmd>>

SaveMasterPort ==
    /\ pending # None
    /\ master' = [master EXCEPT ![2] = pending]
    /\ pending' = None
    /\ Disturb
    /\ UNCHANGED <<url, sockets, log, listens, cmd, last>>

(* The socket fails. *)
ListenAgain ==
    /\ Waits
    /\ listens' = "no" /\ sockets' = sockets - 1
    /\ UNCHANGED <<url, log, pending, master, cmd, last, calm>>

ListenTask ==
    \/ Listen \/ TakeUrl \/ SaveMasterPort \/ ListenAgain
    \/ \E m \in Masters : TfSaveMasterInfo(m)

-----------------------------------------------------------------------------
(* udp_send_cmd_to_master: looks at the port to see whether there is a     *)
(* master, then reads port and address.  (Without a socket, or memory for  *)
(* the message, it gives up and has changed nothing.)                      *)
BeginSend ==
    /\ cmd.at \in {"idle", "sent"} /\ HasSocket
    /\ sockets' = sockets + 1
    /\ cmd' = [at |-> "look", to |-> NoMaster]
    /\ calm' = (pending = None)
    /\ UNCHANGED <<url, log, listens, pending, master, last>>

LookForMaster ==
    /\ cmd.at = "look"
    /\ IF master[2] = 0
       THEN cmd' = [at |-> "sent", to |-> <<"all", UdpPort>>] /\ sockets' = sockets - 1
       ELSE cmd' = [cmd EXCEPT !.at = "port"] /\ UNCHANGED sockets
    /\ UNCHANGED <<url, log, listens, pending, master, last, calm>>

ReadPort ==
    /\ cmd.at = "port"
    /\ cmd' = [at |-> "addr", to |-> <<"", master[2]>>]
    /\ UNCHANGED <<url, sockets, log, listens, pending, master, last, calm>>

SendP2P ==
    /\ cmd.at = "addr"
    /\ cmd' = [at |-> "sent", to |-> <<master[1], cmd.to[2]>>]
    /\ sockets' = sockets - 1
    /\ UNCHANGED <<url, log, listens, pending, master, last, calm>>

SendTask == BeginSend \/ LookForMaster \/ ReadPort \/ SendP2P

ServerStep == LogTask \/ ListenTask \/ SendTask

-----------------------------------------------------------------------------
(* The search for a server to log to ends (or the power fails).  A master  *)
(* that a server answers and does not let itself be verified asks again    *)
(* and again; it is the sockets that come to an end.                       *)
LogInitEnds ==
    log.at \notin {"off", "on", "gave up"} ~> log.at \in {"off", "on", "gave up"}

(* A command goes to the master declared last, address and port, or to all *)
(* if that has no port -- if no declaration is handled during the send.    *)
CommandsReachMaster ==
    cmd.at = "sent" /\ calm =>
        cmd.to = IF last[2] = 0 THEN <<"all", UdpPort>> ELSE last
=============================================================================
