------------------------------- MODULE BleNet -------------------------------
(***************************************************************************)
(* The Bluetooth central: main/ble_net.c (scan, connect, discover,         *)
(* disconnect), the device table of main/BLEMgr.cpp and the peer records   *)
(* of nimble_central_utils/peer.c.                                         *)
(*                                                                         *)
(* All of it runs in callbacks of the NimBLE host task, one after another; *)
(* what is unordered is what the host reports: advertisements, results of  *)
(* connection attempts and of GATT procedures, and disconnects, of several *)
(* devices at once.  The host is external and modelled by what the code    *)
(* relies on: it refuses to scan while it connects, and to connect when no *)
(* handle is free or the device is still linked; it reports what it finds  *)
(* in the order of attribute handles; it ends the GATT procedure of a link *)
(* with an error before it reports the disconnect of that link.            *)
(***************************************************************************)
EXTENDS PeerDiscovery

CONSTANTS
    Device,     \* devices that advertise connectably with the SPP service
    Handle,     \* connection handles: 3 in the source
    Slot,       \* indices of m_clientUIDList: 3 in the source
    NoDev,      \* no device: an address of zeros in a free slot
    NoHandle,   \* 0xFFFF
    NoPeer,     \* no peer record for a handle
    Gatt,       \* the complete database of every device
    PoolSize,   \* blocks for peers, services, characteristics, descriptors
    CallsFail   \* may the host refuse a call for a reason of its own?

ASSUME BleNetAssumption ==
    /\ NoDev \notin Device /\ NoHandle \notin Handle /\ NoPeer \notin PeerRecord
    /\ Slot \subseteq Nat /\ IsFiniteSet(Slot) /\ IsFiniteSet(Handle)
    /\ Cardinality(Handle) <= Cardinality(Slot)
    /\ \A d \in Device : Gatt[d] \in Seq(Service) /\ InOrder(Gatt[d])
    /\ PoolSize \in [svc : Nat, chr : Nat, dsc : Nat, peer : Nat]
    /\ CallsFail \in BOOLEAN

VARIABLES
    scanning,   \* the host scans for advertisements
    refused,    \* (history) the last call to scan or connect was refused for
                \* a reason of the host's own
    connecting, \* the device ble_gap_connect was called for
    link,       \* the device behind each handle
    closing,    \* handles for which ble_gap_terminate was called
    table,      \* m_clientUIDList; uid is abstracted to addr # NoDev
    attr,       \* attribute_handle
    peer,       \* peers: the record of each handle
    pool,       \* free blocks
    proc        \* the GATT procedure outstanding for each handle

gap  == <<scanning, refused, connecting, link, closing>>
vars == <<scanning, refused, connecting, link, closing, table, attr, peer, pool, proc>>

FreeSlot == [addr |-> NoDev, handle |-> NoHandle]

(* kind "dscs": lo is the value handle of the characteristic asked about.  *)
(* pos: how many items it has reported; turn tells a question from the     *)
(* same one asked again.                                                   *)
Ask(kind, lo, hi) == [kind |-> kind, lo |-> lo, hi |-> hi, pos |-> 0, turn |-> 0]
NoProc  == Ask("none", 0, 0)
AskSvcs == Ask("svcs", 0, 0)

(* on_sync has started the first scan. *)
Init ==
    /\ scanning = TRUE /\ refused = FALSE
    /\ connecting = NoDev
    /\ link = [h \in Handle |-> NoDev]
    /\ closing = {}
    /\ table = [i \in Slot |-> FreeSlot]
    /\ attr = [h \in Handle |-> 0]
    /\ peer = [h \in Handle |-> NoPeer]
    /\ pool = PoolSize
    /\ proc = [h \in Handle |-> NoProc]

-----------------------------------------------------------------------------
(* The device table.                                                       *)

Registered(d) == \E i \in Slot : table[i].addr = d

(* BLEMgr_createDevNode walks the slots in order; it stops at a slot with  *)
(* the address, or fills the first free one.                               *)
CreateDevNode(h, d) ==
    LET Stops == { i \in Slot : table[i].addr \in {d, NoDev} }
    IN  IF Stops = {} \/ table[FirstOf(Stops)].addr = d THEN table
        ELSE [table EXCEPT ![FirstOf(Stops)] = [addr |-> d, handle |-> h]]

(* A fault: only the handle is reset. *)
DelDevNodeKeepsAddr(h) ==
    [i \in Slot |-> IF table[i].handle = h THEN [table[i] EXCEPT !.handle = NoHandle]
                    ELSE table[i]]

(* BLEMgr_delDevNode clears the first slot with this handle. *)
DelDevNode(h) ==
    LET Mine == { i \in Slot : table[i].handle = h }
    IN  IF Mine = {} THEN table ELSE [table EXCEPT ![FirstOf(Mine)] = FreeSlot]

-----------------------------------------------------------------------------
(* The peer records and their memory.                                      *)

AddBlocks(p, q) == [svc |-> p.svc + q.svc, chr |-> p.chr + q.chr,
                    dsc |-> p.dsc + q.dsc, peer |-> p.peer]

(* A fault: the lists of the services are forgotten. *)
PeerDeleteShallow(h) ==
    IF peer[h] = NoPeer THEN UNCHANGED <<peer, pool>>
    ELSE /\ peer' = [peer EXCEPT ![h] = NoPeer]
         /\ pool' = [pool EXCEPT !.svc = @ + Blocks(peer[h]).svc, !.peer = @ + 1]

(* peer_delete: all blocks of the record go back to their pools. *)
PeerDelete(h) ==
    IF peer[h] = NoPeer THEN UNCHANGED <<peer, pool>>
    ELSE /\ peer' = [peer EXCEPT ![h] = NoPeer]
         /\ pool' = [AddBlocks(pool, Blocks(peer[h])) EXCEPT !.peer = @ + 1]

(* ble_gap_terminate, whose refusal nobody notices: the link stays. *)
Terminate(h) ==
    \/ closing' = closing \cup {h}
    \/ CallsFail /\ UNCHANGED closing

(* A fault: the procedure goes on although its peer is gone. *)
FailDiscoveryGoesOn(h) ==
    /\ Terminate(h)
    /\ table' = DelDevNode(h)
    /\ PeerDelete(h)
    /\ UNCHANGED <<scanning, refused, connecting, link, attr, proc>>

(* ble_spp_client_on_disc_complete with an error: terminate the link,      *)
(* remove the device and the peer.  The error that the callback returns,   *)
(* or has received, ends the procedure.  After a refused call for          *)
(* descriptors peer_disc_dscs still writes disc_prev_chr_val, into a block *)
(* that it has just freed and that nobody has got since.                   *)
FailDiscovery(h) ==
    /\ Terminate(h)
    /\ table' = DelDevNode(h)
    /\ PeerDelete(h)
    /\ proc' = [proc EXCEPT ![h] = NoProc]
    /\ UNCHANGED <<scanning, refused, connecting, link, attr>>

(* ble_spp_client_scan: refused while the host connects or already scans,  *)
(* or for a reason of its own; the refusal is logged and nothing else.     *)
Scan ==
    \/ scanning' = (scanning \/ connecting' = NoDev) /\ refused' = FALSE
    \/ CallsFail /\ ~scanning /\ connecting' = NoDev /\ refused' = TRUE /\ UNCHANGED scanning

(* ... without an error: remember the attribute to write to, scan on. *)
CompleteOk(h) ==
    /\ LET val == ValByUuid(peer[h], "spp_svc", "spp_chr")
       IN  attr' = IF val = 0 THEN attr ELSE [attr EXCEPT ![h] = val]
    /\ peer' = [peer EXCEPT ![h].prev = 0]
    /\ proc' = [proc EXCEPT ![h] = NoProc]
    /\ UNCHANGED <<connecting, link, closing, table, pool>>
    /\ Scan

-----------------------------------------------------------------------------
(* GAP events.                                                             *)

HasRoom == \E h \in Handle : link[h] = NoDev
Linked(d) == \E h \in Handle : link[h] = d

(* BLE_GAP_EVENT_DISC of a device that is not in the table: the scan is    *)
(* cancelled and a connection asked for.  If the host refuses it, nobody   *)
(* scans until some link is lost or completes its discovery.               *)
Advertise(d) ==
    /\ scanning /\ ~Registered(d)
    /\ scanning' = FALSE
    /\ IF HasRoom /\ ~Linked(d)
       THEN \/ connecting' = d /\ UNCHANGED refused
            \/ CallsFail /\ refused' = TRUE /\ UNCHANGED connecting
       ELSE UNCHANGED <<connecting, refused>>
    /\ UNCHANGED <<link, closing, table, attr, peer, pool, proc>>

(* A fault: no new scan after a failed attempt. *)
ConnectFailedQuiet ==
    /\ connecting # NoDev
    /\ connecting' = NoDev
    /\ UNCHANGED <<scanning, refused, link, closing, table, attr, peer, pool, proc>>

(* BLE_GAP_EVENT_CONNECT with an error, after 30 s at the latest. *)
ConnectFailed ==
    /\ connecting # NoDev
    /\ connecting' = NoDev
    /\ Scan
    /\ UNCHANGED <<link, closing, table, attr, peer, pool, proc>>

(* BLE_GAP_EVENT_CONNECT: peer_add, peer_disc_all, createDevNode, each     *)
(* skipped when the one before it fails.                                   *)
Connected(h) ==
    /\ connecting # NoDev /\ link[h] = NoDev
    /\ connecting' = NoDev
    /\ link' = [link EXCEPT ![h] = connecting]
    /\ IF peer[h] # NoPeer \/ pool.peer = 0
       THEN UNCHANGED <<table, peer, pool, proc>>
       ELSE /\ peer' = [peer EXCEPT ![h] = NewPeer]
            /\ pool' = [pool EXCEPT !.peer = @ - 1]
            /\ \/ /\ proc' = [proc EXCEPT ![h] = AskSvcs]
                  /\ table' = CreateDevNode(h, connecting)
               \/ CallsFail /\ UNCHANGED <<proc, table>>
    /\ UNCHANGED <<scanning, refused, closing, attr>>

(* A fault: the attribute of the last device on this handle is kept. *)
DisconnectKeepsAttr(h) ==
    /\ link[h] # NoDev /\ proc[h].kind = "none"
    /\ link' = [link EXCEPT ![h] = NoDev]
    /\ closing' = closing \ {h}
    /\ table' = DelDevNode(h)
    /\ PeerDelete(h)
    /\ UNCHANGED connecting
    /\ Scan
    /\ UNCHANGED <<proc, attr>>

(* BLE_GAP_EVENT_DISCONNECT, asked for or not. *)
Disconnect(h) ==
    /\ link[h] # NoDev /\ proc[h].kind = "none"
    /\ link' = [link EXCEPT ![h] = NoDev]
    /\ closing' = closing \ {h}
    /\ table' = DelDevNode(h)
    /\ attr' = [attr EXCEPT ![h] = 0]
    /\ PeerDelete(h)
    /\ UNCHANGED connecting
    /\ Scan
    /\ UNCHANGED proc

-----------------------------------------------------------------------------
(* Discovery.                                                              *)

ChrsIn(d, lo, hi) ==
    LET s == Gatt[d][CHOOSE i \in DOMAIN Gatt[d] : Gatt[d][i].start = lo]
    IN  SubSeq(s.chrs, 1, Place(Defs(s.chrs), hi + 1))

DscsIn(d, lo, hi) ==
    LET is == { i \in DOMAIN Gatt[d] : Gatt[d][i].start <= lo /\ lo <= Gatt[d][i].end }
        list == Gatt[d][FirstOf(is)].chrs
        j == CHOOSE j \in DOMAIN list : list[j].val = lo
    IN  SubSeq(list[j].dscs, 1, Place(list[j].dscs, hi + 1))

(* What the outstanding procedure of h reports, in this order. *)
Report(h) ==
    LET p == proc[h]
    IN  CASE p.kind = "svcs" -> Gatt[link[h]]
          [] p.kind = "chrs" -> ChrsIn(link[h], p.lo, p.hi)
          [] p.kind = "dscs" -> DscsIn(link[h], p.lo, p.hi)
          [] OTHER           -> <<>>

(* The record with the reported item added. *)
Added(h, x) ==
    CASE proc[h].kind = "svcs" -> SvcAdd(peer[h], x)
      [] proc[h].kind = "chrs" -> ChrAdd(peer[h], x)
      [] OTHER                 -> DscAdd(peer[h], proc[h].lo, x)

PoolOf(h) == CASE proc[h].kind = "svcs" -> "svc"
               [] proc[h].kind = "chrs" -> "chr"
               [] OTHER                 -> "dsc"

(* The peer_xxx_disced callbacks with status 0: add what was found, or     *)
(* give up when there is no block for it.                                  *)
Found(h) ==
    /\ proc[h].pos < Len(Report(h))
    /\ LET q == Added(h, Report(h)[proc[h].pos + 1])
       IN  IF q # peer[h] /\ pool[PoolOf(h)] = 0
           THEN FailDiscovery(h)
           ELSE /\ peer' = [peer EXCEPT ![h] = q]
                /\ pool' = IF q = peer[h] THEN pool ELSE [pool EXCEPT ![PoolOf(h)] = @ - 1]
                /\ proc' = [proc EXCEPT ![h].pos = @ + 1]
                /\ UNCHANGED <<gap, table, attr>>

(* peer_disc_dscs: ask about the next characteristic, or complete. *)
DiscDscs(h) ==
    LET open == OpenChrs(peer[h])
        ij   == FirstChr(open)
        svc  == peer[h].svcs[ij[1]]
        chr  == svc.chrs[ij[2]]
    IN  IF open = {} THEN CompleteOk(h)
        ELSE \/ /\ proc' = [proc EXCEPT ![h] = Ask("dscs", chr.val, ChrEnd(svc, ij[2]))]
                /\ peer' = [peer EXCEPT ![h].prev = chr.val]
                /\ UNCHANGED <<gap, table, attr, pool>>
             \/ CallsFail /\ FailDiscovery(h)

(* peer_disc_chrs: ask about the next service, or go on to descriptors. *)
DiscChrs(h) ==
    LET open == OpenSvcs(peer[h])
        svc  == peer[h].svcs[FirstOf(open)]
    IN  IF open = {} THEN DiscDscs(h)
        ELSE \/ /\ proc' = [proc EXCEPT ![h] =
                    LET q == Ask("chrs", svc.start, svc.end)
                    IN  IF q = proc[h] THEN [q EXCEPT !.turn = 1] ELSE q]
                /\ peer' = [peer EXCEPT ![h].cur = svc.start]
                /\ UNCHANGED <<gap, table, attr, pool>>
             \/ CallsFail /\ FailDiscovery(h)

(* The callbacks with BLE_HS_EDONE; disc_prev_chr_val > 0 says that a      *)
(* whole discovery is going on.                                            *)
Done(h) ==
    /\ proc[h].kind # "none" /\ proc[h].pos = Len(Report(h))
    /\ IF peer[h].prev = 0
       THEN proc' = [proc EXCEPT ![h] = NoProc] /\ UNCHANGED <<gap, table, attr, peer, pool>>
       ELSE IF proc[h].kind = "dscs" THEN DiscDscs(h) ELSE DiscChrs(h)

(* The callbacks with another status: an ATT error, a timeout, a lost link.*)
ProcFails(h) == proc[h].kind # "none" /\ FailDiscovery(h)

Discover(h) == Found(h) \/ Done(h) \/ ProcFails(h)

Next ==
    \/ \E d \in Device : Advertise(d)
    \/ ConnectFailed
    \/ \E h \in Handle : Connected(h) \/ Disconnect(h) \/ Discover(h)

(* The host answers: every attempt to connect ends within 30 s, every      *)
(* procedure reports or fails, every terminated link is reported lost.     *)
(* Answered(h) is WF_vars(Discover(h)) in other words: that action is      *)
(* enabled as long as a procedure is outstanding, and all that changes it. *)
Answered(h) ==
    \/ []<>(proc[h].kind = "none")
    \/ []<><<proc'[h] # proc[h]>>_vars

Fairness ==
    /\ WF_vars(ConnectFailed \/ \E h \in Handle : Connected(h))
    /\ \A h \in Handle : /\ Answered(h)
                         /\ WF_vars(h \in closing /\ Disconnect(h))

Spec     == Init /\ [][Next]_vars
FairSpec == Spec /\ Fairness
-----------------------------------------------------------------------------
Sizes == [svc : Nat, chr : Nat, dsc : Nat, peer : Nat]

TypeOK ==
    /\ scanning \in BOOLEAN /\ refused \in BOOLEAN
    /\ connecting \in Device \cup {NoDev}
    /\ link \in [Handle -> Device \cup {NoDev}]
    /\ closing \subseteq Handle
    /\ table \in [Slot -> [addr : Device \cup {NoDev}, handle : Handle \cup {NoHandle}]]
    /\ attr \in [Handle -> Nat]
    /\ DOMAIN peer = Handle
    /\ pool \in Sizes
    /\ proc \in [Handle -> [kind : {"none", "svcs", "chrs", "dscs"},
                            lo : Nat, hi : Nat, pos : Nat, turn : 0 .. 1]]

(* The device table, which says whom to ping and whom not to connect to    *)
(* again, never lies: a device is listed at most once, under the handle of *)
(* the link it has now, from the start of its discovery until its link is  *)
(* lost or given up.                                                       *)
TableIsExact ==
    /\ \A i \in Slot : table[i] # FreeSlot =>
         /\ table[i].handle \in Handle \ closing
         /\ link[table[i].handle] = table[i].addr
         /\ \A j \in Slot : table[j].addr = table[i].addr => i = j
    /\ \A h \in Handle : proc[h].kind # "none" => Registered(link[h])

(* No callback of a GATT procedure meets a freed peer, and none fails the  *)
(* asserts of peer_chr_add and peer_dsc_add: the service and the           *)
(* characteristic that a report belongs to are in the lists.               *)
DiscoveryOwnsPeer ==
    \A h \in Handle : proc[h].kind # "none" =>
        /\ peer[h] # NoPeer
        /\ proc[h].kind = "chrs" => FoundIn(Starts(peer[h].svcs), peer[h].cur)
        /\ proc[h].kind = "dscs" => OwnerKnown(peer[h], proc[h].lo)

(* Blocks in lists plus blocks in pools is what peer_init reserved, after  *)
(* every connect, abort and disconnect in whatever order.                  *)
Living == { h \in Handle : peer[h] # NoPeer }
Missing(k, used) == Cardinality(used) = PoolSize[k] - pool[k]

NoBlockLost ==
    /\ Missing("peer", Living)
    /\ Missing("svc", UNION { {h} \X DOMAIN peer[h].svcs : h \in Living })
    /\ Missing("chr", UNION { {h} \X ChrBlocks(peer[h]) : h \in Living })
    /\ Missing("dsc", UNION { {h} \X DscBlocks(peer[h]) : h \in Living })

(* ble_send_data writes to the characteristic of the device that is linked *)
(* now, not to one found for an earlier device with the same handle.       *)
IsSpp(svc, chr) == svc.uuid = "spp_svc" /\ chr.uuid = "spp_chr"
AttributeIsCurrent ==
    \A h \in Handle : attr[h] # 0 =>
        /\ link[h] # NoDev
        /\ \E i \in DOMAIN Gatt[link[h]] :
             \E j \in DOMAIN Gatt[link[h]][i].chrs :
               /\ IsSpp(Gatt[link[h]][i], Gatt[link[h]][i].chrs[j])
               /\ Gatt[link[h]][i].chrs[j].val = attr[h]

(* A link whose discovery the host refused to begin, or whose end after a  *)
(* failed discovery: no node, no scan.                                     *)
Abandoned(h) == /\ link[h] # NoDev /\ h \notin closing
                /\ ~Registered(link[h])

(* A linked device that has a service with room for attributes and without *)
(* a characteristic: peer_disc_chrs asks for those for ever.               *)
AskedForEver(h) ==
    /\ link[h] # NoDev
    /\ \E i \in DOMAIN Gatt[link[h]] :
         Gatt[link[h]][i].start < Gatt[link[h]][i].end /\ Gatt[link[h]][i].chrs = <<>>

(* New weapons are looked for again and again, whatever fails meanwhile.   *)
(* Four things only can end the search: every handle is taken; the host    *)
(* has refused the call that was to scan or to connect; a link has been    *)
(* abandoned; or a linked device has a service that keeps peer_disc_chrs   *)
(* busy for ever.                                                          *)
KeepsLooking ==
    []<>(scanning \/ refused \/ ~HasRoom \/ \E h \in Handle : Abandoned(h) \/ AskedForEver(h))
=============================================================================
