------------------------------- MODULE BleMgr -------------------------------
(***************************************************************************)
(* The Bluetooth manager above the net, main/BLEMgr.cpp: the commands that *)
(* devices send, and the messages sent to all of them.                     *)
(*                                                                         *)
(* pingAll runs in the manager's task and setAimHelp in the voice task,    *)
(* while the host task adds and removes the very devices they walk over,   *)
(* without a lock.  A uid stands for the device it was given to.           *)
(***************************************************************************)
EXTENDS BleNet

CONSTANTS
    Walker,      \* the tasks that walk over the table: "ble" and "voice"
    FirstHandle, \* the connection handle 0
    CmdQueue     \* length of m_cmdRecvQueue: 5

ASSUME BleMgrAssumption == FirstHandle \in Handle /\ CmdQueue \in Nat \ {0}

VARIABLES
    inbox,       \* how many commands are in m_cmdRecvQueue
    walk         \* where each walker is, and what it has read of its slot

mgrVars == <<vars, inbox, walk>>

(* dst: the device whose uid is in the message; handle: where it goes;     *)
(* History, since the uid was tested: lost, the slot has changed; moved,  *)
(* handles that have lost or got a device; blank, the handle was read from *)
(* a slot without a node.                                                  *)
AtSlot(at, i, d) == [at |-> at, slot |-> i, dst |-> d, handle |-> NoHandle,
                     lost |-> FALSE, moved |-> {}, blank |-> FALSE]

Resting == AtSlot("rest", FirstOf(Slot), NoDev)

NextSlot(i) ==
    LET more == { j \in Slot : j > i }
    IN  IF more = {} THEN Resting ELSE AtSlot("test", FirstOf(more), NoDev)

MgrInit == Init /\ inbox = 0 /\ walk = [w \in Walker |-> Resting]

-----------------------------------------------------------------------------
(* pingAll, after ten waits of a second without a command, and setAimHelp. *)
BeginWalk(w) ==
    /\ walk[w].at = "rest"
    /\ w = "ble" => inbox = 0
    /\ walk' = [walk EXCEPT ![w] = AtSlot("test", FirstOf(Slot), NoDev)]
    /\ UNCHANGED <<vars, inbox>>

(* A free slot is passed over; the uid is read. *)
TestUid(w) ==
    /\ walk[w].at = "test"
    /\ LET i == walk[w].slot
       IN  walk' = [walk EXCEPT ![w] = IF table[i].addr = NoDev THEN NextSlot(i)
                                       ELSE AtSlot("handle", i, table[i].addr)]
    /\ UNCHANGED <<vars, inbox>>

(* delDevNode clears the node and only then stores 0xFFFF in it, so that   *)
(* the handle of a node just removed can be read as 0.                     *)
HandlesOf(i) == IF table[i] = FreeSlot THEN {NoHandle, FirstHandle} ELSE {table[i].handle}

(* What is about to be sent after it was read. *)
Message(p, h, d, blank) ==
    [at |-> "send", slot |-> p.slot, dst |-> d, handle |-> h,
     lost |-> p.lost, moved |-> p.moved, blank |-> blank]

(* (A fault: the handle in the message is that of the next slot.) *)
ReadHandleOfNext(w) ==
    /\ walk[w].at = "handle"
    /\ LET i == walk[w].slot
           n == IF i + 1 \in Slot THEN i + 1 ELSE i
       IN  \E h \in HandlesOf(n), d \in {walk[w].dst, table[i].addr} :
             walk' = [walk EXCEPT ![w] = Message(@, h, d, table[n] = FreeSlot)]
    /\ UNCHANGED <<vars, inbox>>

(* The handle is read; the uid is read a second and a third time, unless   *)
(* the compiler has kept it.                                               *)
ReadHandle(w) ==
    /\ walk[w].at = "handle"
    /\ LET i == walk[w].slot
       IN  \E h \in HandlesOf(i), d \in {walk[w].dst, table[i].addr} :
             walk' = [walk EXCEPT ![w] = Message(@, h, d, table[i] = FreeSlot)]
    /\ UNCHANGED <<vars, inbox>>

(* ble_send_data.  For 0xFFFF the attribute is read from far behind the    *)
(* end of attribute_handle; the host refuses the handle all the same.      *)
SendData(w) ==
    /\ walk[w].at = "send"
    /\ walk' = [walk EXCEPT ![w] = NextSlot(walk[w].slot)]
    /\ UNCHANGED <<vars, inbox>>

-----------------------------------------------------------------------------
(* BLEMgr_recvData, in the host task: a shot, a hit, no ammunition or a    *)
(* reload is queued, and lost when 100 ms are not enough to find a place.  *)
RecvData(h) ==
    /\ link[h] # NoDev
    /\ inbox' = IF inbox < CmdQueue THEN inbox + 1 ELSE inbox
    /\ UNCHANGED <<vars, walk>>

(* The manager's task takes a command when it is not busy pinging.  What   *)
(* it does with it (the verdict on a missed shot, the hit that EpicMgr     *)
(* counts) touches nothing here.                                           *)
ProcCmd ==
    /\ inbox > 0 /\ walk["ble"].at = "rest"
    /\ inbox' = inbox - 1
    /\ UNCHANGED <<vars, walk>>

(* rspGetUID, also in the host task: the uid a device is told, if any.     *)
DevUIDByHandle(h) ==
    LET Mine == { i \in Slot : table[i].handle = h }
    IN  IF Mine = {} THEN NoDev ELSE table[FirstOf(Mine)].addr

(* A step of the net, seen by a walker that has tested a uid. *)
Relinked == { h \in Handle : link'[h] # link[h] }

Overtaken(p) ==
    IF p.at \notin {"handle", "send"} THEN p
    ELSE [p EXCEPT !.lost = @ \/ table'[p.slot] # table[p.slot],
                   !.moved = @ \cup Relinked]

Net ==
    /\ Next
    /\ walk' = [w \in Walker |-> Overtaken(walk[w])]
    /\ UNCHANGED inbox

MgrNext ==
    \/ Net
    \/ \E w \in Walker : BeginWalk(w) \/ TestUid(w) \/ ReadHandle(w) \/ SendData(w)
    \/ \E h \in Handle : RecvData(h)
    \/ ProcCmd

MgrSpec     == MgrInit /\ [][MgrNext]_mgrVars
MgrFairSpec == MgrSpec /\ Fairness
-----------------------------------------------------------------------------
MgrTypeOK ==
    /\ TypeOK
    /\ inbox \in 0 .. CmdQueue
    /\ walk \in [Walker -> [at : {"rest", "test", "handle", "send"}, slot : Slot,
                            dst : Device \cup {NoDev}, handle : Handle \cup {NoHandle},
                            lost : BOOLEAN, moved : SUBSET Handle, blank : BOOLEAN]]

(* A uid is written to its owner.  A device that asks for its uid is told  *)
(* its own or none.  A ping or a call for aiming goes to the device it     *)
(* names; only when that device's node is removed while the message is put *)
(* together may it miss, and then it goes nowhere, or to a handle whose    *)
(* device has gone or come since the uid was tested, or, the handle read   *)
(* from the node just cleared, to the device of handle 0.  Any other       *)
(* device, linked all the while, never gets another's uid.                 *)
Misses(p) ==
    \/ p.handle = NoHandle
    \/ p.handle \in p.moved
    \/ p.blank /\ p.handle = FirstHandle

UidsReachTheirOwner ==
    /\ \A h \in Handle : link[h] # NoDev => DevUIDByHandle(h) \in {NoDev, link[h]}
    /\ \A w \in Walker : walk[w].at = "send" =>
         \/ walk[w].handle \in Handle /\ link[walk[w].handle] = walk[w].dst
         \/ walk[w].lost /\ Misses(walk[w])
=============================================================================
