---------------------------- MODULE PeerDiscovery ----------------------------
(***************************************************************************)
(* The record that nimble_central_utils/peer.c keeps of a connected device *)
(* while its GATT database is discovered: services, in them                *)
(* characteristics, in them descriptors.  Operators only; BleNet holds the *)
(* records and drives the discovery.                                       *)
(*                                                                         *)
(* A linked list is a sequence.  A service is [start, end, uuid, chrs], a  *)
(* characteristic [def, val, uuid, dscs], a descriptor its handle.  The    *)
(* same shapes, complete, describe the database of a device.               *)
(***************************************************************************)
EXTENDS Integers, Sequences, FiniteSets

Characteristic == [def : Nat, val : Nat, uuid : STRING, dscs : Seq(Nat)]
Service        == [start : Nat, end : Nat, uuid : STRING, chrs : Seq(Characteristic)]
PeerRecord     == [svcs : Seq(Service), cur : Nat, prev : Nat]

(* Every attribute has a handle of its own, and those of a service follow  *)
(* one another: its own, then for each characteristic the definition, the  *)
(* value and the descriptors.                                              *)
InOrder(db) ==
    /\ \A i, j \in DOMAIN db : i < j => db[i].end < db[j].start
    /\ \A i \in DOMAIN db :
         LET s == db[i] IN
         /\ s.start <= s.end
         /\ \A j \in DOMAIN s.chrs :
              LET c == s.chrs[j] IN
              /\ s.start < c.def /\ c.def < c.val /\ c.val <= s.end
              /\ \A m \in DOMAIN c.dscs :
                   /\ c.val < c.dscs[m] /\ c.dscs[m] <= s.end
                   /\ \A n \in DOMAIN c.dscs : m < n => c.dscs[m] < c.dscs[n]
                   /\ \A k \in DOMAIN s.chrs : j < k => c.dscs[m] < s.chrs[k].def
              /\ \A k \in DOMAIN s.chrs : j < k => c.val < s.chrs[k].def

(* A peer just added: nothing discovered, disc_prev_chr_val = 1 as         *)
(* peer_disc_all leaves it; cur is start_handle of cur_svc.                *)
NewPeer == [svcs |-> <<>>, cur |-> 0, prev |-> 1]

(* The handles by which the three kinds of lists are ordered. *)
Starts(svcs) == [i \in DOMAIN svcs |-> svcs[i].start]
Vals(chrs)   == [i \in DOMAIN chrs |-> chrs[i].val]
Defs(chrs)   == [i \in DOMAIN chrs |-> chrs[i].def]

(* How many leading handles are below h: the position of prev in the three *)
(* peer_xxx_find_prev functions, 0 for NULL.                               *)
Place(handles, h) ==
    CHOOSE n \in 0 .. Len(handles) :
        /\ \A i \in 1 .. n : handles[i] < h
        /\ n < Len(handles) => handles[n + 1] >= h

(* peer_svc_find, peer_chr_find, peer_dsc_find: is the member after prev   *)
(* the one looked for?                                                     *)
FoundIn(handles, h) ==
    LET n == Place(handles, h) IN n < Len(handles) /\ handles[n + 1] = h

(* SLIST_INSERT_HEAD when there is no prev, else SLIST_INSERT_AFTER.       *)
InsertAfter(list, n, x) == SubSeq(list, 1, n) \o <<x>> \o SubSeq(list, n + 1, Len(list))

(* The same with SLIST_NEXT(prev) = x, which drops what followed prev.     *)
LinkAfter(list, n, x) ==
    IF n = 0 THEN <<x>> \o list ELSE Append(SubSeq(list, 1, n), x)

(* peer_svc_add: what the record is when the host has reported service s;  *)
(* a service that is known already is left alone.                          *)
SvcAdd(p, s) ==
    IF FoundIn(Starts(p.svcs), s.start) THEN p
    ELSE [p EXCEPT !.svcs = InsertAfter(@, Place(Starts(@), s.start),
                                        [s EXCEPT !.chrs = <<>>])]

(* Position of a service: by start_handle, or the first with h in range.   *)
SvcAt(p, start)    == Place(Starts(p.svcs), start) + 1
SvcRange(p, h)     == { i \in 1 .. Len(p.svcs) : p.svcs[i].start <= h /\ h <= p.svcs[i].end }
FirstOf(positions) == CHOOSE i \in positions : \A j \in positions : i <= j

(* peer_chr_add searches by value handle but is given the definition       *)
(* handle of the characteristic.                                           *)
ChrAdd(p, c) ==
    LET i == SvcAt(p, p.cur)
        list == p.svcs[i].chrs
    IN  IF FoundIn(Vals(list), c.def) THEN p
        ELSE [p EXCEPT !.svcs[i].chrs = LinkAfter(@, Place(Vals(@), c.def),
                                                  [c EXCEPT !.dscs = <<>>])]

(* The service and the characteristic a reported descriptor belongs to;    *)
(* the code asserts that both exist.                                       *)
OwnerKnown(p, val) ==
    /\ SvcRange(p, val) # {}
    /\ FoundIn(Vals(p.svcs[FirstOf(SvcRange(p, val))].chrs), val)

DscAdd(p, val, d) ==
    LET i == FirstOf(SvcRange(p, val))
        j == Place(Vals(p.svcs[i].chrs), val) + 1
        list == p.svcs[i].chrs[j].dscs
    IN  IF FoundIn(list, d) THEN p
        ELSE [p EXCEPT !.svcs[i].chrs[j].dscs = LinkAfter(@, Place(@, d), d)]

SvcIsEmpty(svc) == svc.end <= svc.start

(* chr_end_handle: up to the next definition, or to the service's end.     *)
ChrEnd(svc, j) == IF j < Len(svc.chrs) THEN svc.chrs[j + 1].def - 1 ELSE svc.end
ChrIsEmpty(svc, j) == ChrEnd(svc, j) <= svc.chrs[j].val

(* peer_disc_chrs: services whose characteristics are not yet discovered.  *)
OpenSvcs(p) == { i \in 1 .. Len(p.svcs) : ~SvcIsEmpty(p.svcs[i]) /\ p.svcs[i].chrs = <<>> }

(* The positions of all characteristics, and of all descriptors.           *)
ChrBlocks(p) == UNION { {i} \X DOMAIN p.svcs[i].chrs : i \in DOMAIN p.svcs }
DscBlocks(p) ==
    UNION { {ij} \X DOMAIN p.svcs[ij[1]].chrs[ij[2]].dscs : ij \in ChrBlocks(p) }

(* peer_disc_dscs: characteristics whose descriptors are not yet           *)
(* discovered, as positions <<service, characteristic>>.                   *)
OpenChrs(p) ==
    { ij \in ChrBlocks(p) :
        LET s == p.svcs[ij[1]] IN
        /\ ~ChrIsEmpty(s, ij[2])
        /\ s.chrs[ij[2]].dscs = <<>>
        /\ p.prev <= s.chrs[ij[2]].def }

FirstChr(pairs) ==
    CHOOSE a \in pairs : \A b \in pairs : a[1] < b[1] \/ (a[1] = b[1] /\ a[2] <= b[2])

(* peer_svc_find_uuid and peer_chr_find_uuid: the value handle of the      *)
(* first such characteristic in the first such service, 0 if none.         *)
ValByUuid(p, su, cu) ==
    LET is == { i \in 1 .. Len(p.svcs) : p.svcs[i].uuid = su }
        list == p.svcs[FirstOf(is)].chrs
        js == { j \in 1 .. Len(list) : list[j].uuid = cu }
    IN  IF is = {} THEN 0 ELSE IF js = {} THEN 0 ELSE list[FirstOf(js)].val

(* The memory blocks that peer_delete puts back for the lists of a peer.   *)
Blocks(p) == [svc |-> Len(p.svcs),
              chr |-> Cardinality(ChrBlocks(p)),
              dsc |-> Cardinality(DscBlocks(p))]
=============================================================================
