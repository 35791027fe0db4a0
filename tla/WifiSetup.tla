------------------------------ MODULE WifiSetup -------------------------------
(***************************************************************************)
(* How a node gets on the network:                                         *)
(* components/smart_utilities/network/wifi_smartconfig.c and the           *)
(* credentials of common/nvs_db.c.  wifi_init reads a name and a password  *)
(* from flash; without them a task has a phone send some (SmartConfig).    *)
(* The event loop's task joins, joins again, and saves what has worked.    *)
(* The three tasks meet in an event group.                                 *)
(*                                                                         *)
(* The program that calls wifi_init is not in the repository, nor are the  *)
(* driver, the phone and the access point.  A name and its password are    *)
(* one member of Phone; flash may hold the halves of two.  A string is in  *)
(* flash when nvs_set_str is back (it does not wait for nvs_commit).       *)
(***************************************************************************)
EXTENDS NodeRole, Integers, Sequences

CONSTANTS
    Phone,      \* what the phone sends
    Accepted,   \* what the access point accepts, of these and "gateway"
    MaxEvents   \* bound: events that wait in the loop

ASSUME WifiAssumption == MaxEvents \in Nat \ {0} /\ "" \notin Accepted

VARIABLES
    cred,       \* wifi.ssid and wifi.password in flash; "none": no such key
    save,       \* save_wifi_cred: what it writes next, of what, and in which task
    ram,        \* wifi_ssid, wifi_password
    need,       \* needSmartConfigFlag
    bits,       \* s_wifi_event_group
    init,       \* where wifi_init is
    sc,         \* where the SmartConfig task is
    station,    \* the driver's: "off", "idle", "joining", "joined", "failed"
    cfg,        \* and what it joins with
    events,     \* the event loop's queue
    sent,       \* the phone waits for the acknowledgement of what it sent
    stale       \* history: the halves in flash whose last write was refused

wifiVolatile == <<save, ram, need, bits, init, sc, station, cfg, events, sent>>
wifiVars     == <<cred, stale, wifiVolatile>>

Pair(p) == [ssid |-> p, pass |-> p]
Nothing == Pair("")
NoSave  == [at |-> "no", what |-> Nothing, in |-> "main"]

WifiStarts(sv, rm, nd, bt, it, sk, st, cf, ev, sn) ==
    /\ sv = NoSave /\ rm = Nothing /\ nd = TRUE /\ bt = {} /\ it = "off" /\ sk = "none"
    /\ st = "off" /\ cf = Nothing /\ ev = <<>> /\ sn = FALSE

WifiInit ==
    /\ WifiStarts(save, ram, need, bits, init, sc, station, cfg, events, sent)
    /\ cred = Pair("none") /\ stale = {}

(* The power fails. *)
WifiReset ==
    /\ WifiStarts(save', ram', need', bits', init', sc', station', cfg', events', sent')
    /\ UNCHANGED <<cred, stale>>

-----------------------------------------------------------------------------
(* save_wifi_cred: two strings, one after the other.  Each write may fail  *)
(* (flash is full), and what nvs_commit returns hides it.                  *)
BeginSave(pair, in) == save' = [at |-> "ssid", what |-> pair, in |-> in]

Write(half) ==
    \/ cred' = [cred EXCEPT ![half] = save.what[half]] /\ stale' = stale \ {half}
    \/ UNCHANGED cred /\ stale' = stale \cup {half}

SaveSsid ==
    /\ save.at = "ssid"
    /\ Write("ssid")
    /\ save' = [save EXCEPT !.at = "pass"]
    /\ UNCHANGED <<ram, need, bits, init, sc, station, cfg, events, sent>>

SavePass ==
    /\ save.at = "pass"
    /\ Write("pass")
    /\ save' = NoSave
    /\ bits' = IF save.in = "main" THEN bits ELSE bits \cup {"connected"}
    /\ UNCHANGED <<ram, need, init, sc, station, cfg, events, sent>>

-----------------------------------------------------------------------------
(* The main task: check_network_reset_button, then wifi_init.  A slave     *)
(* joins its master, which is called "gateway".                            *)
Saved == save.at = "no"

CheckButton ==
    /\ init = "off"
    /\ init' = "role"
    /\ BeginSave(Nothing, "main") \/ UNCHANGED save
    /\ UNCHANGED <<cred, ram, need, bits, sc, station, cfg, events, sent, stale>>

SetRole ==
    /\ init = "role" /\ Saved
    /\ init' = "read"
    /\ IF isMaster THEN UNCHANGED save ELSE BeginSave(Pair("gateway"), "main")
    /\ UNCHANGED <<cred, ram, need, bits, sc, station, cfg, events, sent, stale>>

Event(is, of) == [is |-> is, of |-> of]

ReadCred ==
    /\ init = "read" /\ Saved
    /\ need' = ("none" \in {cred.ssid, cred.pass})
    /\ ram' = IF need' THEN Nothing ELSE cred
    /\ cfg' = IF ram'.ssid = "" THEN Nothing ELSE ram'
    /\ station' = "idle" /\ events' = <<Event("start", "")>>
    /\ init' = "wait"
    /\ UNCHANGED <<cred, save, bits, sc, sent, stale>>

(* (A fault: the end of SmartConfig is not waited for.) *)
AwaitedNotDone == {"connected", "fail"}

Awaited == {"connected", "fail"} \cup (IF need THEN {"done"} ELSE {})

(* xEventGroupWaitBits clears what it waits for; if two tasks wait for the *)
(* same bit, either may find it cleared (when it was not waiting as the    *)
(* bit was set).  Nobody sets "fail".                                      *)
WaitBits ==
    /\ init = "wait" /\ bits \cap Awaited # {}
    /\ init' = IF ("connected" \in bits /\ ~need) \/ bits \cap Awaited \cap {"fail", "done"} # {}
               THEN "back" ELSE "wait"
    /\ bits' = bits \ Awaited
    /\ UNCHANGED <<cred, save, ram, need, sc, station, cfg, events, sent, stale>>

(* The SmartConfig task. *)
ScTask ==
    /\ sc = "wait" /\ bits \cap {"connected", "touched"} # {}
    /\ IF "touched" \in bits
       THEN sc' = "over" /\ bits' = (bits \ {"connected", "touched"}) \cup {"done"}
       ELSE bits' = bits \ {"connected"} /\ UNCHANGED sc
    /\ UNCHANGED <<cred, save, ram, need, init, station, cfg, events, sent, stale>>

-----------------------------------------------------------------------------
(* The event loop's task: event_handler.  It stays registered when         *)
(* wifi_init is back: it was registered without an instance, and what      *)
(* wifi_init unregisters it by was never set.                              *)
Connected(s) == IF s \in {"idle", "failed"} THEN "joining" ELSE s

Handles(e) == events # <<>> /\ Head(events).is = e /\ Saved

HandleStart ==
    /\ Handles("start")
    /\ IF need THEN sc' = "wait" /\ UNCHANGED station
       ELSE station' = Connected(station) /\ UNCHANGED sc
    /\ events' = Tail(events)
    /\ UNCHANGED <<cred, save, ram, need, bits, init, cfg, sent, stale>>

HandleDisconnected ==
    /\ Handles("disconnected")
    /\ station' = Connected(station)
    /\ events' = Tail(events)
    /\ UNCHANGED <<cred, save, ram, need, bits, init, sc, cfg, sent, stale>>

(* What is saved is what was sent last, which need not be what has got the *)
(* address.                                                                *)
HandleGotIp ==
    /\ Handles("ip")
    /\ BeginSave(ram, "loop")
    /\ events' = Tail(events)
    /\ UNCHANGED <<cred, ram, need, bits, init, sc, station, cfg, sent, stale>>

(* Leave, then join with the phone's credentials. *)
JoinAnew ==
    /\ Handles("cred")
    /\ cfg' = Pair(Head(events).of)
    /\ events' = Tail(events) \o
           (IF station \in {"joined", "joining"} THEN <<Event("disconnected", "")>> ELSE <<>>)
    /\ station' = "joining"
    /\ UNCHANGED <<cred, save, need, bits, init, sc, sent, stale>>

(* (A fault: what is to be saved is only the first that came.) *)
HandleCredOnce == JoinAnew /\ ram' = IF ram = Nothing THEN cfg' ELSE ram

HandleCred == JoinAnew /\ ram' = cfg'

HandleAckDone ==
    /\ Handles("acked")
    /\ bits' = bits \cup {"touched"}
    /\ events' = Tail(events)
    /\ UNCHANGED <<cred, save, ram, need, init, sc, station, cfg, sent, stale>>

EventTask ==
    \/ save.in = "loop" /\ (SaveSsid \/ SavePass)
    \/ HandleStart \/ HandleDisconnected \/ HandleGotIp \/ HandleAckDone \/ HandleCred

MainTask ==
    \/ save.in = "main" /\ (SaveSsid \/ SavePass)
    \/ CheckButton \/ SetRole \/ ReadCred \/ WaitBits

-----------------------------------------------------------------------------
(* The driver, the access point and the phone. *)
Room == Len(events) < MaxEvents

Tell(is, of) == Room /\ events' = Append(events, Event(is, of))

Accepts(c) == c.ssid = c.pass /\ c.ssid \in Accepted \cup {"gateway"}

Join ==
    /\ station = "joining"
    /\ \/ /\ Accepts(cfg)
          /\ station' = "joined" /\ Tell("ip", "")
       \/ station' = "failed" /\ Tell("disconnected", "")
    /\ UNCHANGED <<cred, save, ram, need, bits, init, sc, cfg, sent, stale>>

LoseLink ==
    /\ station = "joined"
    /\ station' = "failed" /\ Tell("disconnected", "")
    /\ UNCHANGED <<cred, save, ram, need, bits, init, sc, cfg, sent, stale>>

PhoneSends ==
    /\ sc = "wait"
    /\ \E p \in Phone : Tell("cred", p)
    /\ sent' = TRUE
    /\ UNCHANGED <<cred, save, ram, need, bits, init, sc, station, cfg, stale>>

(* The library tells the phone the node's address, when there is one. *)
PhoneGetsAck ==
    /\ sc = "wait" /\ sent /\ station = "joined"
    /\ Tell("acked", "")
    /\ sent' = FALSE
    /\ UNCHANGED <<cred, save, ram, need, bits, init, sc, station, cfg, stale>>

WifiStep ==
    \/ MainTask \/ ScTask \/ EventTask
    \/ Join \/ LoseLink \/ PhoneSends \/ PhoneGetsAck

-----------------------------------------------------------------------------
AddressWaits == \E i \in 1 .. Len(events) : events[i].is = "ip"

(* Once the address of a link has been handled, flash holds what the link  *)
(* was made with, for the next power on: also when the phone has sent      *)
(* others before the address was handled, when an address that came before *)
(* them was handled after them, and when the power has failed between two  *)
(* writes.  Only a half whose own last write was refused is something else.*)
FlashKeepsLink ==
    station = "joined" /\ Saved /\ ~AddressWaits
        => \A half \in {"ssid", "pass"} \ stale : cred[half] = cfg[half]

(* A node that has joined is through wifi_init in the end, or has lost the *)
(* link again or its power; with SmartConfig, if the phone waits for its   *)
(* acknowledgement.                                                        *)
WifiInitReturns ==
    (init = "wait" /\ station = "joined" /\ (need => sent))
        ~> (init # "wait" \/ station # "joined")
=============================================================================
