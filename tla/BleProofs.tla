------------------------------- MODULE BleProofs ------------------------------
(***************************************************************************)
(* Proofs about the Bluetooth central, for any devices, connection         *)
(* handles, databases and pools, and any task that walks over the table.   *)
(***************************************************************************)
EXTENDS BleMgr, FiniteSetTheorems, SequenceTheorems, WellFoundedInduction, TLAPS

LEMMA Least ==
    ASSUME NEW S, S \subseteq Nat, S # {}
    PROVE  \E i \in S : \A j \in S : i <= j
<1> DEFINE R == OpToRel(<, Nat)
<1>1. IsWellFoundedOn(R, Nat)
    BY NatLessThanWellFounded, Zenon
<1>2. \A i, j \in Nat : j < i => <<j, i>> \in R
  <2> SUFFICES ASSUME NEW i \in Nat, NEW j \in Nat, j < i PROVE <<j, i>> \in R
      OBVIOUS
  <2>1. <<j, i>> \in Nat \X Nat /\ <<j, i>>[1] = j /\ <<j, i>>[2] = i
      OBVIOUS
  <2> QED BY <2>1, Zenon DEF OpToRel
<1> HIDE DEF R
<1>3. PICK i \in S : \A j \in S : ~(<<j, i>> \in R)
    BY <1>1, WFMin
<1>4. \A j \in S : ~(j < i)
    BY <1>2, <1>3
<1> QED BY <1>4

LEMMA First ==
    ASSUME NEW S, S \subseteq Nat, S # {}
    PROVE  FirstOf(S) \in S /\ \A j \in S : FirstOf(S) <= j
  BY Least DEF FirstOf

-----------------------------------------------------------------------------
(* The procedures.  One that is not outstanding has no traces left.        *)
IsProc(p) == p = [kind |-> p.kind, lo |-> p.lo, hi |-> p.hi, pos |-> p.pos, turn |-> p.turn]

ProcInv ==
    /\ proc = [h \in Handle |-> proc[h]]
    /\ \A h \in Handle : IsProc(proc[h]) /\ (proc[h].kind = "none" => proc[h] = NoProc)

GivenUp(h) ==
    /\ closing' \in {closing, closing \cup {h}} /\ table' = DelDevNode(h)
    /\ UNCHANGED <<link, connecting>>

LEMMA ProcSteps ==
    ASSUME ProcInv, NEW h \in Handle, Discover(h)
    PROVE  /\ proc[h].kind # "none" /\ ProcInv'
           /\ \A k \in Handle \ {h} : proc'[k] = proc[k]
           /\ \/ UNCHANGED <<link, closing, connecting, table>>
              \/ GivenUp(h) /\ proc'[h] = NoProc
<1>1. proc = [k \in Handle |-> proc[k]] /\ IsProc(proc[h])
    BY DEF ProcInv
<1>2. proc[h].kind # "none"
  <2> SUFFICES ASSUME proc[h].kind = "none" PROVE FALSE
      OBVIOUS
  <2>1. proc[h].pos = 0 /\ Report(h) = <<>>
      BY DEF ProcInv, NoProc, Ask, Report
  <2> QED BY <2>1 DEF Discover, Found, Done, ProcFails
<1>3. ASSUME NEW q, proc' = [proc EXCEPT ![h] = q], IsProc(q), q.kind = "none" => q = NoProc
      PROVE  ProcInv' /\ \A k \in Handle \ {h} : proc'[k] = proc[k]
    BY <1>1, <1>3 DEF ProcInv
<1>4. IsProc(NoProc) /\ NoProc.kind = "none"
    BY DEF IsProc, NoProc, Ask
<1>5. CASE FailDiscovery(h)
    BY <1>1, <1>2, <1>3, <1>4, <1>5 DEF FailDiscovery, Terminate, GivenUp
<1>6. CASE CompleteOk(h)
    BY <1>2, <1>3, <1>4, <1>6 DEF CompleteOk
<1>7. CASE Found(h) /\ ~FailDiscovery(h)
  <2>1. proc' = [proc EXCEPT ![h].pos = @ + 1] /\ UNCHANGED <<gap, table>>
      BY <1>7 DEF Found
  <2>2. proc' = [proc EXCEPT ![h] = [proc[h] EXCEPT !.pos = @ + 1]]
      BY <2>1
  <2>3. IsProc([proc[h] EXCEPT !.pos = @ + 1]) /\ [proc[h] EXCEPT !.pos = @ + 1].kind = proc[h].kind
      BY <1>1 DEF IsProc
  <2> QED BY <1>2, <1>3, <2>1, <2>2, <2>3 DEF gap
<1>8. ASSUME NEW kind, NEW lo, NEW hi, kind # "none"
      PROVE  /\ IsProc(Ask(kind, lo, hi)) /\ Ask(kind, lo, hi).kind = kind
             /\ IsProc([Ask(kind, lo, hi) EXCEPT !.turn = 1])
             /\ [Ask(kind, lo, hi) EXCEPT !.turn = 1].kind = kind
    BY DEF IsProc, Ask
<1>9. CASE DiscDscs(h) /\ ~FailDiscovery(h) /\ ~CompleteOk(h)
  <2>1. PICK lo, hi : proc' = [proc EXCEPT ![h] = Ask("dscs", lo, hi)]
      BY <1>9 DEF DiscDscs
  <2>2. UNCHANGED <<gap, table>>
      BY <1>9 DEF DiscDscs
  <2> QED BY <1>2, <1>3, <1>8, <2>1, <2>2 DEF gap
<1>10. CASE DiscChrs(h) /\ ~FailDiscovery(h) /\ ~DiscDscs(h)
  <2>1. PICK lo, hi : proc' = [proc EXCEPT ![h] =
                         LET q == Ask("chrs", lo, hi)
                         IN  IF q = proc[h] THEN [q EXCEPT !.turn = 1] ELSE q]
      BY <1>10 DEF DiscChrs
  <2>2. UNCHANGED <<gap, table>>
      BY <1>10 DEF DiscChrs
  <2>3. CASE Ask("chrs", lo, hi) = proc[h]
      BY <1>2, <1>3, <1>8, <2>1, <2>2, <2>3 DEF gap
  <2>4. CASE Ask("chrs", lo, hi) # proc[h]
      BY <1>2, <1>3, <1>8, <2>1, <2>2, <2>4 DEF gap
  <2> QED BY <2>3, <2>4
<1>11. CASE proc' = [proc EXCEPT ![h] = NoProc] /\ UNCHANGED <<gap, table>>
    BY <1>2, <1>3, <1>4, <1>11 DEF gap
<1> QED BY <1>5, <1>6, <1>7, <1>9, <1>10, <1>11 DEF Discover, Found, Done, ProcFails

-----------------------------------------------------------------------------
(* The device table.  A device has one link at most, and is not connected  *)
(* to while it has one; so a handle is in one slot at most.                *)
GapType ==
    /\ link \in [Handle -> Device \cup {NoDev}]
    /\ connecting \in Device \cup {NoDev}
    /\ closing \subseteq Handle
    /\ table \in [Slot -> [addr : Device \cup {NoDev}, handle : Handle \cup {NoHandle}]]

LinkInv ==
    /\ connecting # NoDev => ~Linked(connecting)
    /\ \A g, h \in Handle : link[g] = link[h] /\ link[g] # NoDev => g = h
    /\ \A h \in closing : link[h] # NoDev
    /\ \A h \in Handle : link[h] = NoDev => proc[h].kind = "none"
    /\ \A i \in Slot : table[i].addr = NoDev => table[i] = FreeSlot

TableInv == GapType /\ ProcInv /\ LinkInv /\ TableIsExact

(* A device in the table is linked. *)
LEMMA Listed ==
    ASSUME TableInv, NEW i \in Slot, table[i].addr # NoDev
    PROVE  /\ table[i] # FreeSlot /\ table[i].handle \in Handle \ closing
           /\ link[table[i].handle] = table[i].addr
           /\ \A j \in Slot : table[j].addr = table[i].addr \/ table[j].handle = table[i].handle
                                => i = j
<1>1. table[i] # FreeSlot
    BY DEF FreeSlot
<1>2. /\ table[i].handle \in Handle \ closing
      /\ link[table[i].handle] = table[i].addr
      /\ \A j \in Slot : table[j].addr = table[i].addr => i = j
    BY <1>1 DEF TableInv, TableIsExact
<1>3. ASSUME NEW j \in Slot, table[j].handle = table[i].handle PROVE i = j
  <2>1. table[j] # FreeSlot
      BY <1>2, <1>3, BleNetAssumption DEF FreeSlot
  <2>2. link[table[j].handle] = table[j].addr
      BY <2>1 DEF TableInv, TableIsExact
  <2> QED BY <1>2, <1>3, <2>2
<1> QED BY <1>1, <1>2, <1>3

LEMMA NodeDeleted ==
    ASSUME TableInv, NEW h \in Handle
    PROVE  /\ DelDevNode(h) = [i \in Slot |-> IF table[i].handle = h THEN FreeSlot ELSE table[i]]
<1> DEFINE mine == {i \in Slot : table[i].handle = h}
<1>1. table = [i \in Slot |-> table[i]]
    BY DEF TableInv, GapType
<1>2. CASE mine = {}
    BY <1>1, <1>2 DEF DelDevNode
<1>3. CASE mine # {}
  <2>1. FirstOf(mine) \in mine
      BY <1>3, First, BleNetAssumption
  <2>2. PICK k \in mine : DelDevNode(h) = [table EXCEPT ![k] = FreeSlot]
      BY <1>3, <2>1 DEF DelDevNode
  <2>3. table[k].addr # NoDev
      BY <2>2, BleNetAssumption DEF TableInv, LinkInv, FreeSlot
  <2>4. \A j \in Slot : table[j].handle = h => k = j
      BY <2>2, <2>3, Listed
  <2> QED BY <1>1, <2>2, <2>4
<1> QED BY <1>2, <1>3

(* As long as a handle is free, so is a slot. *)
LEMMA NodeCreated ==
    ASSUME TableInv, NEW h \in Handle, link[h] = NoDev, connecting # NoDev
    PROVE  \E i \in Slot :
             /\ table[i] = FreeSlot
             /\ CreateDevNode(h, connecting)
                  = [table EXCEPT ![i] = [addr |-> connecting, handle |-> h]]
<1> DEFINE stops == {i \in Slot : table[i].addr \in {connecting, NoDev}}
<1>1. \A i \in Slot : table[i].addr # connecting
  <2> SUFFICES ASSUME NEW i \in Slot, table[i].addr = connecting PROVE FALSE
      OBVIOUS
  <2>1. table[i].handle \in Handle /\ link[table[i].handle] = connecting
      BY Listed
  <2> QED BY <2>1 DEF TableInv, LinkInv, Linked
<1>2. stops # {}
  <2> SUFFICES ASSUME \A i \in Slot : table[i].addr # NoDev PROVE FALSE
      OBVIOUS
  <2> DEFINE f == [i \in Slot |-> table[i].handle]
             rest == Handle \ {h}
  <2>1. \A i \in Slot : f[i] \in rest
    <3> SUFFICES ASSUME NEW i \in Slot PROVE f[i] \in rest
        OBVIOUS
    <3>1. f[i] \in Handle /\ link[f[i]] = table[i].addr
        BY Listed
    <3> QED BY <3>1
  <2>2. \A i, j \in Slot : f[i] = f[j] => i = j
    <3> SUFFICES ASSUME NEW i \in Slot, NEW j \in Slot, f[i] = f[j] PROVE i = j
        OBVIOUS
    <3> QED BY Listed
  <2>3. f \in [Slot -> rest]
      BY <2>1
  <2>4. IsFiniteSet(Handle) /\ Cardinality(Handle) <= Cardinality(Slot) /\ IsFiniteSet(Slot)
      BY BleNetAssumption
  <2>5. IsFiniteSet(rest) /\ Cardinality(rest) = Cardinality(Handle) - 1
      BY <2>4, FS_RemoveElement
  <2>6. Cardinality(Handle) \in Nat /\ Cardinality(Slot) \in Nat
      BY <2>4, FS_CardinalityType
  <2>7. Cardinality(rest) < Cardinality(Slot)
      BY <2>4, <2>5, <2>6
  <2> HIDE DEF f, rest
  <2>8. \E i, j \in Slot : i # j /\ f[i] = f[j]
      BY <2>3, <2>4, <2>5, <2>7, FS_PigeonHole
  <2> QED BY <2>2, <2>8
<1>3. FirstOf(stops) \in stops
    BY <1>2, First, BleNetAssumption
<1>4. table[FirstOf(stops)].addr = NoDev
    BY <1>1, <1>3
<1>5. table[FirstOf(stops)] = FreeSlot
    BY <1>3, <1>4 DEF TableInv, LinkInv
<1>6. connecting # NoDev /\ table[FirstOf(stops)].addr # connecting
    BY <1>4
<1> QED BY <1>2, <1>3, <1>5, <1>6 DEF CreateDevNode

(* Giving up a link, or losing it, takes its node away and no other. *)
LEMMA NodeGone ==
    ASSUME TableInv, NEW h \in Handle, table' = DelDevNode(h),
           closing' \subseteq closing \cup {h},
           \A k \in Handle \ {h} : link'[k] = link[k] /\ proc'[k] = proc[k],
           proc'[h].kind = "none"
    PROVE  /\ TableIsExact'
           /\ table' \in [Slot -> [addr : Device \cup {NoDev}, handle : Handle \cup {NoHandle}]]
           /\ \A i \in Slot : table'[i].addr = NoDev => table'[i] = FreeSlot
<1>1. table' = [i \in Slot |-> IF table[i].handle = h THEN FreeSlot ELSE table[i]]
    BY NodeDeleted
<1>2. FreeSlot \in [addr : Device \cup {NoDev}, handle : Handle \cup {NoHandle}]
    BY DEF FreeSlot
<1>3. /\ table' \in [Slot -> [addr : Device \cup {NoDev}, handle : Handle \cup {NoHandle}]]
      /\ \A i \in Slot : table'[i].addr = NoDev => table'[i] = FreeSlot
    BY <1>1, <1>2 DEF TableInv, GapType, LinkInv
<1>4. ASSUME NEW i \in Slot, table'[i] # FreeSlot
      PROVE  /\ table'[i].handle \in Handle \ closing'
             /\ link'[table'[i].handle] = table'[i].addr
             /\ \A j \in Slot : table'[j].addr = table'[i].addr => i = j
  <2>1. table'[i] = table[i] /\ table[i].handle # h /\ table[i].addr # NoDev
      BY <1>1, <1>3, <1>4 DEF FreeSlot
  <2>2. /\ table[i].handle \in Handle \ closing /\ link[table[i].handle] = table[i].addr
        /\ \A j \in Slot : table[j].addr = table[i].addr => i = j
      BY <2>1, Listed
  <2>3. ASSUME NEW j \in Slot, table'[j].addr = table'[i].addr PROVE i = j
    <3>1. table'[j] = table[j]
        BY <1>1, <1>3, <1>4, <2>1, <2>3 DEF FreeSlot
    <3> QED BY <2>1, <2>2, <2>3, <3>1
  <2> QED BY <2>1, <2>2, <2>3
<1>5. ASSUME NEW k \in Handle, proc'[k].kind # "none" PROVE Registered(link[k])' 
  <2>1. k # h /\ proc[k].kind # "none" /\ link'[k] = link[k]
      BY <1>5
  <2>2. link[k] # NoDev /\ Registered(link[k])
      BY <2>1 DEF TableInv, LinkInv, TableIsExact
  <2>3. PICK i \in Slot : table[i].addr = link[k]
      BY <2>2 DEF Registered
  <2>4. table[i].handle \in Handle /\ link[table[i].handle] = link[k]
      BY <2>2, <2>3, Listed
  <2>5. table[i].handle = k
      BY <2>2, <2>4 DEF TableInv, LinkInv
  <2>6. table'[i].addr = link'[k]
      BY <1>1, <2>1, <2>3, <2>5
  <2> QED BY <2>6 DEF Registered
<1> QED BY <1>3, <1>4, <1>5 DEF TableIsExact

LEMMA TableDiscovers ==
    ASSUME TableInv, NEW h \in Handle, Discover(h)
    PROVE  TableInv'
<1>1. /\ proc[h].kind # "none" /\ ProcInv'
      /\ \A k \in Handle \ {h} : proc'[k] = proc[k]
      /\ \/ UNCHANGED <<link, closing, connecting, table>>
         \/ GivenUp(h) /\ proc'[h] = NoProc
    BY ProcSteps DEF TableInv
<1>2. link[h] # NoDev
    BY <1>1 DEF TableInv, LinkInv
<1>3. CASE UNCHANGED <<link, closing, connecting, table>>
  <2>1. LinkInv' /\ GapType'
      BY <1>1, <1>2, <1>3 DEF TableInv, LinkInv, GapType, Linked
  <2>2. TableIsExact'
    <3>1. \A k \in Handle : proc'[k].kind # "none" => proc[k].kind # "none"
        BY <1>1
    <3> QED BY <1>3, <3>1 DEF TableInv, TableIsExact, Registered
  <2> QED BY <1>1, <2>1, <2>2 DEF TableInv
<1>4. CASE GivenUp(h) /\ proc'[h] = NoProc
  <2>1. proc'[h].kind = "none"
      BY <1>4 DEF NoProc, Ask
  <2>2. /\ TableIsExact'
        /\ table' \in [Slot -> [addr : Device \cup {NoDev}, handle : Handle \cup {NoHandle}]]
        /\ \A i \in Slot : table'[i].addr = NoDev => table'[i] = FreeSlot
      BY <1>1, <1>4, <2>1, NodeGone DEF GivenUp
  <2>3. LinkInv' /\ GapType'
      BY <1>1, <1>2, <1>4, <2>1, <2>2 DEF TableInv, LinkInv, GapType, Linked, GivenUp
  <2> QED BY <1>1, <2>2, <2>3 DEF TableInv
<1> QED BY <1>1, <1>3, <1>4

LEMMA TableDisconnects ==
    ASSUME TableInv, NEW h \in Handle, Disconnect(h)
    PROVE  TableInv'
<1>1. /\ link[h] # NoDev /\ proc[h].kind = "none" /\ link' = [link EXCEPT ![h] = NoDev]
      /\ closing' = closing \ {h} /\ table' = DelDevNode(h)
      /\ connecting' = connecting /\ proc' = proc
    BY DEF Disconnect
<1>2. link \in [Handle -> Device \cup {NoDev}]
    BY DEF TableInv, GapType
<1>3. link' \in [Handle -> Device \cup {NoDev}] /\ link'[h] = NoDev
      /\ \A k \in Handle \ {h} : link'[k] = link[k]
    BY <1>1, <1>2
<1>4. /\ TableIsExact'
      /\ table' \in [Slot -> [addr : Device \cup {NoDev}, handle : Handle \cup {NoHandle}]]
      /\ \A i \in Slot : table'[i].addr = NoDev => table'[i] = FreeSlot
    BY <1>1, <1>3, NodeGone
<1>5. LinkInv' /\ GapType'
    BY <1>1, <1>3, <1>4 DEF TableInv, LinkInv, GapType, Linked
<1>6. ProcInv'
    BY <1>1 DEF TableInv, ProcInv
<1> QED BY <1>4, <1>5, <1>6 DEF TableInv

LEMMA TableConnects ==
    ASSUME TableInv, NEW h \in Handle, Connected(h)
    PROVE  TableInv'
<1>1. /\ connecting # NoDev /\ link[h] = NoDev /\ connecting' = NoDev
      /\ link' = [link EXCEPT ![h] = connecting] /\ closing' = closing
      /\ \/ UNCHANGED <<table, proc>>
         \/ /\ proc' = [proc EXCEPT ![h] = AskSvcs]
            /\ table' = CreateDevNode(h, connecting)
    BY DEF Connected
<1>2. link \in [Handle -> Device \cup {NoDev}] /\ connecting \in Device
    BY <1>1 DEF TableInv, GapType
<1>3. link' \in [Handle -> Device \cup {NoDev}] /\ link'[h] = connecting
      /\ \A k \in Handle \ {h} : link'[k] = link[k]
    BY <1>1, <1>2
<1>4. \A g, k \in Handle : link'[g] = link'[k] /\ link'[g] # NoDev => g = k
    BY <1>1, <1>3 DEF TableInv, LinkInv, Linked
<1>5. h \notin closing
    BY <1>1 DEF TableInv, LinkInv
<1>6. \A i \in Slot : table[i] # FreeSlot =>
        /\ table[i].handle \in Handle \ closing /\ table[i].handle # h
        /\ link[table[i].handle] = table[i].addr /\ table[i].addr # connecting
        /\ \A j \in Slot : table[j].addr = table[i].addr => i = j
  <2> SUFFICES ASSUME NEW i \in Slot, table[i] # FreeSlot
               PROVE  /\ table[i].handle \in Handle \ closing /\ table[i].handle # h
                      /\ link[table[i].handle] = table[i].addr /\ table[i].addr # connecting
                      /\ \A j \in Slot : table[j].addr = table[i].addr => i = j
      OBVIOUS
  <2>1. table[i].addr # NoDev
      BY DEF TableInv, LinkInv
  <2>2. /\ table[i].handle \in Handle \ closing /\ link[table[i].handle] = table[i].addr
        /\ \A j \in Slot : table[j].addr = table[i].addr => i = j
      BY <2>1, Listed
  <2> QED BY <1>1, <2>1, <2>2 DEF TableInv, LinkInv, Linked
<1>7. CASE UNCHANGED <<table, proc>>
  <2>1. TableIsExact'
    <3>1. \A k \in Handle : proc'[k].kind # "none" => Registered(link[k]) /\ k # h
        BY <1>1, <1>7 DEF TableInv, TableIsExact, LinkInv
    <3>2. \A k \in Handle : proc'[k].kind # "none" => Registered(link[k])'
        BY <1>3, <1>7, <3>1 DEF Registered
    <3> QED BY <1>1, <1>3, <1>6, <1>7, <3>2 DEF TableIsExact, FreeSlot
  <2>2. GapType' /\ ProcInv' /\ LinkInv'
      BY <1>1, <1>3, <1>4, <1>7 DEF TableInv, GapType, ProcInv, LinkInv, Linked
  <2> QED BY <2>1, <2>2 DEF TableInv
<1>8. CASE /\ proc' = [proc EXCEPT ![h] = AskSvcs]
           /\ table' = CreateDevNode(h, connecting)
  <2> DEFINE node == [addr |-> connecting, handle |-> h]
  <2>1. PICK i \in Slot : table[i] = FreeSlot /\ table' = [table EXCEPT ![i] = node]
      BY <1>1, <1>8, NodeCreated
  <2>2. table \in [Slot -> [addr : Device \cup {NoDev}, handle : Handle \cup {NoHandle}]]
      BY DEF TableInv, GapType
  <2>3. /\ table' \in [Slot -> [addr : Device \cup {NoDev}, handle : Handle \cup {NoHandle}]]
        /\ table'[i] = node /\ \A j \in Slot \ {i} : table'[j] = table[j]
      BY <1>2, <2>1, <2>2
  <2>4. node.addr = connecting /\ node.handle = h /\ node # FreeSlot
      BY <1>1 DEF FreeSlot
  <2> HIDE DEF node
  <2>5. ASSUME NEW k \in Slot, table'[k] # FreeSlot
        PROVE  /\ table'[k].handle \in Handle \ closing'
               /\ link'[table'[k].handle] = table'[k].addr
               /\ \A j \in Slot : table'[j].addr = table'[k].addr => k = j
    <3>1. CASE k = i
      <4>1. \A j \in Slot \ {i} : table'[j].addr # connecting
        <5> SUFFICES ASSUME NEW j \in Slot \ {i}, table[j].addr = connecting PROVE FALSE
            BY <2>3
        <5>1. table[j] # FreeSlot
            BY <1>1 DEF FreeSlot
        <5> QED BY <1>6, <5>1
      <4> QED BY <1>1, <1>3, <1>5, <2>3, <2>4, <3>1, <4>1
    <3>2. CASE k # i
      <4>1. table'[k] = table[k] /\ table[k] # FreeSlot
          BY <2>3, <2>5, <3>2
      <4> QED BY <1>1, <1>3, <1>6, <2>3, <2>4, <4>1
    <3> QED BY <3>1, <3>2
  <2>6. proc = [k \in Handle |-> proc[k]] /\ ProcInv
      BY DEF TableInv, ProcInv
  <2>7. proc'[h] = AskSvcs /\ \A k \in Handle \ {h} : proc'[k] = proc[k]
      BY <1>8, <2>6
  <2>8. ProcInv'
    <3>1. IsProc(AskSvcs) /\ AskSvcs.kind # "none"
        BY DEF IsProc, AskSvcs, Ask
    <3>2. proc' = [k \in Handle |-> proc'[k]]
        BY <1>8, <2>6
    <3> QED BY <2>6, <2>7, <3>1, <3>2 DEF ProcInv
  <2>9. ASSUME NEW k \in Handle, proc'[k].kind # "none" PROVE Registered(link[k])'
    <3>1. CASE k = h
        BY <1>3, <2>3, <2>4, <3>1 DEF Registered
    <3>2. CASE k # h
      <4>1. proc[k].kind # "none" /\ link'[k] = link[k]
          BY <1>3, <2>7, <2>9, <3>2
      <4>2. Registered(link[k]) /\ link[k] # NoDev
          BY <4>1 DEF TableInv, TableIsExact, LinkInv
      <4>3. PICK j \in Slot : table[j].addr = link[k]
          BY <4>2 DEF Registered
      <4>4. j # i
          BY <2>1, <4>2, <4>3 DEF FreeSlot
      <4> QED BY <2>3, <4>1, <4>3, <4>4 DEF Registered
    <3> QED BY <3>1, <3>2
  <2>10. LinkInv'
    <3>1. \A k \in closing' : link'[k] # NoDev
        BY <1>1, <1>3 DEF TableInv, LinkInv
    <3>2. \A k \in Handle : link'[k] = NoDev => proc'[k].kind = "none"
        BY <1>1, <1>3, <2>7 DEF TableInv, LinkInv
    <3>3. \A k \in Slot : table'[k].addr = NoDev => table'[k] = FreeSlot
        BY <1>1, <2>3, <2>4 DEF TableInv, LinkInv
    <3> QED BY <1>1, <1>4, <3>1, <3>2, <3>3 DEF LinkInv
  <2>11. GapType'
      BY <1>1, <1>3, <2>3 DEF TableInv, GapType
  <2> QED BY <2>5, <2>8, <2>9, <2>10, <2>11 DEF TableInv, TableIsExact
<1> QED BY <1>1, <1>7, <1>8

LEMMA TableStep ==
    ASSUME TableInv, [Next]_vars
    PROVE  TableInv'
<1>1. ASSUME NEW d \in Device, Advertise(d) PROVE TableInv'
  <2>1. /\ UNCHANGED <<link, closing, table, proc>>
        /\ connecting' = connecting \/ (connecting' = d /\ ~Linked(d))
      BY <1>1 DEF Advertise
  <2> QED BY <2>1 DEF TableInv, GapType, ProcInv, LinkInv, TableIsExact, Linked, Registered
<1>2. CASE ConnectFailed
  <2>1. UNCHANGED <<link, closing, table, proc>> /\ connecting' = NoDev
      BY <1>2 DEF ConnectFailed
  <2> QED BY <2>1 DEF TableInv, GapType, ProcInv, LinkInv, TableIsExact, Linked, Registered
<1>3. CASE UNCHANGED vars
    BY <1>3 DEF vars, TableInv, GapType, ProcInv, LinkInv, TableIsExact, Linked, Registered
<1> QED BY <1>1, <1>2, <1>3, TableConnects, TableDisconnects, TableDiscovers DEF Next

LEMMA TableStart == Init => TableInv
<1> SUFFICES ASSUME Init PROVE TableInv
    OBVIOUS
<1>1. FreeSlot \in [addr : Device \cup {NoDev}, handle : Handle \cup {NoHandle}]
    BY DEF FreeSlot
<1>2. NoProc.kind = "none" /\ IsProc(NoProc)
    BY DEF NoProc, Ask, IsProc
<1> QED BY <1>1, <1>2 DEF Init, TableInv, GapType, ProcInv, LinkInv, TableIsExact

LEMMA NetSteps == [MgrNext]_mgrVars => [Next]_vars
  BY DEF MgrNext, mgrVars, Net, BeginWalk, TestUid, ReadHandle, SendData, RecvData, ProcCmd, vars

(* The device table never lies, for any number of devices and handles, as  *)
(* long as there is a slot for each handle.                                *)
THEOREM TableNeverLies == MgrSpec => []TableIsExact
<1>1. MgrInit => TableInv
    BY TableStart DEF MgrInit
<1>2. TableInv /\ [MgrNext]_mgrVars => TableInv'
    BY NetSteps, TableStep
<1>3. TableInv => TableIsExact
    BY DEF TableInv
<1> QED BY <1>1, <1>2, <1>3, PTL DEF MgrSpec

-----------------------------------------------------------------------------
(* The walkers.  Until its slot changes, what one has read of it is what   *)
(* is in it; and a node that has come into it meanwhile came with a link.  *)
Places == {"rest", "test", "handle", "send"}

IsWalk(p) ==
    /\ p = [at |-> p.at, slot |-> p.slot, dst |-> p.dst, handle |-> p.handle,
            lost |-> p.lost, moved |-> p.moved, blank |-> p.blank]
    /\ p.at \in Places /\ p.slot \in Slot

Reaches(p) == p.handle \in Handle /\ link[p.handle] = p.dst

ReadSoFar(p) ==
    /\ p.at \in {"handle", "send"} /\ ~p.lost =>
         table[p.slot].addr = p.dst /\ p.dst # NoDev
    /\ p.at = "send" /\ ~p.lost => table[p.slot].handle = p.handle
    /\ p.at = "handle" =>
         \/ table[p.slot].addr \in {p.dst, NoDev}
         \/ table[p.slot].handle \in p.moved
    /\ p.at = "send" => Reaches(p) \/ Misses(p)

WalkInv ==
    /\ walk = [w \in Walker |-> walk[w]]
    /\ \A w \in Walker : IsWalk(walk[w]) /\ ReadSoFar(walk[w])

LEMMA Outset ==
    ASSUME NEW i \in Slot, NEW at \in {"rest", "test"}
    PROVE  IsWalk(AtSlot(at, i, NoDev)) /\ ReadSoFar(AtSlot(at, i, NoDev))
  BY DEF IsWalk, ReadSoFar, AtSlot, Places

LEMMA Onward ==
    ASSUME NEW i \in Slot
    PROVE  IsWalk(NextSlot(i)) /\ ReadSoFar(NextSlot(i))
<1>1. Slot \subseteq Nat
    BY BleNetAssumption
<1>2. FirstOf(Slot) \in Slot
    BY <1>1, First
<1> DEFINE more == {j \in Slot : j > i}
<1>3. more # {} => FirstOf(more) \in Slot
    BY <1>1, First
<1> QED BY <1>2, <1>3, Outset DEF NextSlot, Resting

(* What a step of the net does to a slot. *)
LEMMA NodesChange ==
    ASSUME TableInv, Next, NEW i \in Slot
    PROVE  table'[i] \in {table[i], FreeSlot} \/ table'[i].handle \in Relinked
<1>1. ASSUME NEW h \in Handle, table' = DelDevNode(h)
      PROVE  table'[i] \in {table[i], FreeSlot}
    BY <1>1, NodeDeleted
<1>2. ASSUME NEW d \in Device, Advertise(d) PROVE table' = table
    BY <1>2 DEF Advertise
<1>3. CASE ConnectFailed
    BY <1>3 DEF ConnectFailed
<1>4. ASSUME NEW h \in Handle, Connected(h)
      PROVE  table'[i] = table[i] \/ table'[i].handle \in Relinked
  <2>1. /\ connecting # NoDev /\ link[h] = NoDev /\ link' = [link EXCEPT ![h] = connecting]
        /\ table' = table \/ table' = CreateDevNode(h, connecting)
      BY <1>4 DEF Connected
  <2>2. h \in Relinked
      BY <2>1 DEF Relinked, TableInv, GapType
  <2>3. CASE table' = CreateDevNode(h, connecting)
    <3> DEFINE node == [addr |-> connecting, handle |-> h]
    <3>1. PICK j \in Slot : table' = [table EXCEPT ![j] = node]
        BY <2>1, <2>3, NodeCreated
    <3>2. node.handle = h
        OBVIOUS
    <3> HIDE DEF node
    <3>3. table'[i] = IF i = j THEN node ELSE table[i]
        BY <3>1 DEF TableInv, GapType
    <3> QED BY <2>2, <3>2, <3>3
  <2> QED BY <2>1, <2>3
<1>5. ASSUME NEW h \in Handle, Disconnect(h) PROVE table'[i] \in {table[i], FreeSlot}
    BY <1>1, <1>5 DEF Disconnect
<1>6. ASSUME NEW h \in Handle, Discover(h) PROVE table'[i] \in {table[i], FreeSlot}
  <2>1. table' = table \/ table' = DelDevNode(h)
      BY <1>6, ProcSteps DEF TableInv, GivenUp
  <2> QED BY <1>1, <2>1
<1> QED BY <1>2, <1>3, <1>4, <1>5, <1>6 DEF Next

(* A step of a walker. *)
LEMMA Walked ==
    ASSUME WalkInv, NEW w \in Walker, NEW p, walk' = [walk EXCEPT ![w] = p],
           UNCHANGED <<table, link>>, IsWalk(p), ReadSoFar(p)
    PROVE  WalkInv'
<1>1. walk = [k \in Walker |-> walk[k]]
    BY DEF WalkInv
<1>2. walk' = [k \in Walker |-> walk'[k]]
    BY <1>1
<1>3. ASSUME NEW k \in Walker PROVE IsWalk(walk'[k]) /\ ReadSoFar(walk'[k])
  <2>1. walk'[k] = IF k = w THEN p ELSE walk[k]
      BY <1>1
  <2> QED BY <2>1 DEF WalkInv
<1>4. \A k \in Walker : ReadSoFar(walk[k])'
    BY <1>3 DEF ReadSoFar, Reaches, Misses
<1> QED BY <1>2, <1>3, <1>4 DEF WalkInv

(* A step of the net under a walker. *)
LEMMA OvertakenWalk ==
    ASSUME TableInv, Next, NEW w \in Walker, IsWalk(walk[w]), ReadSoFar(walk[w]),
           walk'[w] = Overtaken(walk[w])
    PROVE  IsWalk(walk'[w]) /\ ReadSoFar(walk[w])'
<1> DEFINE p == walk[w]
           q == walk'[w]
<1>1. CASE p.at \notin {"handle", "send"}
  <2>1. q = p
      BY <1>1 DEF Overtaken
  <2> QED BY <1>1, <2>1 DEF ReadSoFar
<1>2. CASE p.at \in {"handle", "send"}
  <2> DEFINE changed == table'[p.slot] # table[p.slot]
  <2>1. p = [at |-> p.at, slot |-> p.slot, dst |-> p.dst, handle |-> p.handle,
             lost |-> p.lost, moved |-> p.moved, blank |-> p.blank]
      BY DEF IsWalk
  <2>2. q = [p EXCEPT !.lost = @ \/ changed, !.moved = @ \cup Relinked]
      BY <1>2 DEF Overtaken
  <2>3. q = [at |-> p.at, slot |-> p.slot, dst |-> p.dst, handle |-> p.handle,
             lost |-> p.lost \/ changed, moved |-> p.moved \cup Relinked, blank |-> p.blank]
      BY <2>1, <2>2
  <2>4. /\ q.at = p.at /\ q.slot = p.slot /\ q.dst = p.dst /\ q.handle = p.handle
        /\ q.moved = p.moved \cup Relinked /\ q.blank = p.blank
      BY <2>3
  <2>5. q.lost = (p.lost \/ changed)
      BY <2>3
  <2>6. ~q.lost => ~p.lost /\ ~changed
      BY <2>5, Zenon
  <2>7. IsWalk(q) /\ p.slot \in Slot
      BY <2>3, <2>4 DEF IsWalk
  <2>8. p.at = "handle" => \/ table'[p.slot].addr \in {p.dst, NoDev}
                           \/ table'[p.slot].handle \in q.moved
    <3>1. CASE table'[p.slot] = table[p.slot]
        BY <2>4, <3>1 DEF ReadSoFar
    <3>2. CASE table'[p.slot] = FreeSlot
        BY <3>2 DEF FreeSlot
    <3> QED BY <2>4, <2>7, <3>1, <3>2, NodesChange
  <2>9. p.at = "send" => Reaches(walk[w])' \/ Misses(walk[w])'
    <3>1. ASSUME p.at = "send", Reaches(p), link'[p.handle] # link[p.handle]
          PROVE  Misses(p)'
        BY <2>4, <3>1 DEF Reaches, Relinked, Misses
    <3>2. ASSUME p.at = "send", Misses(p) PROVE Misses(p)'
        BY <2>4, <3>2 DEF Misses
    <3>3. ASSUME p.at = "send", Reaches(p), link'[p.handle] = link[p.handle]
          PROVE  Reaches(p)'
        BY <2>4, <3>3 DEF Reaches
    <3> QED BY <3>1, <3>2, <3>3 DEF ReadSoFar
  <2>10. ~q.lost => /\ table'[p.slot].addr = p.dst /\ p.dst # NoDev
                    /\ p.at = "send" => table'[p.slot].handle = p.handle
      BY <1>2, <2>6 DEF ReadSoFar
  <2>11. ReadSoFar(walk[w])'
    <3>1. /\ q.at \in {"handle", "send"} /\ ~q.lost =>
               table'[q.slot].addr = q.dst /\ q.dst # NoDev
          /\ q.at = "send" /\ ~q.lost => table'[q.slot].handle = q.handle
      <4>1. CASE q.lost
          BY <4>1, Zenon
      <4>2. CASE ~q.lost
        <5>1. /\ table'[p.slot].addr = p.dst /\ p.dst # NoDev
              /\ p.at = "send" => table'[p.slot].handle = p.handle
            BY <2>10, <4>2, Zenon
        <5>2. /\ table'[q.slot].addr = q.dst /\ q.dst # NoDev
              /\ q.at = "send" => table'[q.slot].handle = q.handle
            BY <2>4, <5>1
        <5> QED BY <5>2, Zenon
      <4> QED BY <4>1, <4>2, Zenon
    <3>2. q.at = "handle" => \/ table'[q.slot].addr \in {q.dst, NoDev}
                            \/ table'[q.slot].handle \in q.moved
        BY <2>4, <2>8
    <3>3. q.at = "send" => Reaches(walk[w])' \/ Misses(walk[w])'
        BY <2>4, <2>9
    <3> QED BY <3>1, <3>2, <3>3 DEF ReadSoFar
  <2> QED BY <2>7, <2>11
<1> QED BY <1>1, <1>2

LEMMA WalkStep ==
    ASSUME WalkInv, TableInv, [MgrNext]_mgrVars
    PROVE  WalkInv'
<1>1. ASSUME NEW w \in Walker, BeginWalk(w) PROVE WalkInv'
  <2>1. FirstOf(Slot) \in Slot
    <3>1. walk[w].slot \in Slot
        BY DEF WalkInv, IsWalk
    <3> QED BY <3>1, First, BleNetAssumption
  <2> QED BY <1>1, <2>1, Outset, Walked DEF BeginWalk, vars
<1>2. ASSUME NEW w \in Walker, TestUid(w) PROVE WalkInv'
  <2> DEFINE i == walk[w].slot
             p == AtSlot("handle", i, table[i].addr)
  <2>1. walk[w].at = "test" /\ i \in Slot /\ UNCHANGED <<table, link>>
      BY <1>2 DEF TestUid, WalkInv, IsWalk, vars
  <2>2. CASE table[i].addr = NoDev
    <3>1. walk' = [walk EXCEPT ![w] = NextSlot(i)]
        BY <1>2, <2>2 DEF TestUid
    <3> QED BY <2>1, <3>1, Onward, Walked
  <2>3. CASE table[i].addr # NoDev
    <3>1. walk' = [walk EXCEPT ![w] = p]
        BY <1>2, <2>3 DEF TestUid
    <3>2. IsWalk(p) /\ ReadSoFar(p)
        BY <2>1, <2>3 DEF AtSlot, IsWalk, ReadSoFar, Places
    <3> QED BY <2>1, <3>1, <3>2, Walked
  <2> QED BY <2>2, <2>3
<1>3. ASSUME NEW w \in Walker, ReadHandle(w) PROVE WalkInv'
  <2> DEFINE i == walk[w].slot
             blank == table[i] = FreeSlot
  <2>1. walk[w].at = "handle" /\ i \in Slot /\ UNCHANGED <<table, link>> /\ ReadSoFar(walk[w])
      BY <1>3 DEF ReadHandle, WalkInv, IsWalk, vars
  <2>2. PICK h \in HandlesOf(i), d \in {walk[w].dst, table[i].addr} :
          walk' = [walk EXCEPT ![w] = Message(walk[w], h, d, blank)]
      BY <1>3 DEF ReadHandle
  <2> DEFINE p == Message(walk[w], h, d, blank)
  <2>3. p = [at |-> "send", slot |-> i, dst |-> d, handle |-> h, lost |-> walk[w].lost,
             moved |-> walk[w].moved, blank |-> blank]
      BY DEF Message
  <2>4. ~walk[w].lost => table[i].addr = walk[w].dst /\ walk[w].dst # NoDev
      BY <2>1 DEF ReadSoFar
  <2>5. ~walk[w].lost => d = table[i].addr /\ h = table[i].handle
      BY <2>2, <2>4 DEF HandlesOf, FreeSlot
  <2>6. Reaches(p) \/ Misses(p)
    <3>1. CASE blank
      <4>1. h \in {NoHandle, FirstHandle}
          BY <2>2, <3>1 DEF HandlesOf
      <4> HIDE DEF blank
      <4>2. p.blank = blank /\ p.handle = h
          BY <2>3
      <4>3. p.blank
          BY <3>1, <4>2, Zenon
      <4> QED BY <4>1, <4>2, <4>3 DEF Misses
    <3>2. CASE ~blank
      <4>1. h = table[i].handle /\ table[i].addr # NoDev
          BY <2>1, <2>2, <3>2 DEF HandlesOf, TableInv, LinkInv
      <4>2. h \in Handle /\ link[h] = table[i].addr
          BY <2>1, <4>1, Listed
      <4>3. table[i].addr = walk[w].dst \/ h \in walk[w].moved
          BY <2>1, <4>1 DEF ReadSoFar
      <4> QED BY <2>2, <2>3, <4>2, <4>3 DEF Reaches, Misses
    <3> QED BY <3>1, <3>2
  <2>7. IsWalk(p) /\ ReadSoFar(p)
      BY <2>1, <2>3, <2>4, <2>5, <2>6 DEF IsWalk, ReadSoFar, Places
  <2> QED BY <2>1, <2>2, <2>7, Walked
<1>4. ASSUME NEW w \in Walker, SendData(w) PROVE WalkInv'
  <2>1. walk[w].slot \in Slot
      BY DEF WalkInv, IsWalk
  <2> QED BY <1>4, <2>1, Onward, Walked DEF SendData, vars
<1>5. CASE Net
  <2>1. Next /\ walk' = [w \in Walker |-> Overtaken(walk[w])]
      BY <1>5 DEF Net
  <2>2. ASSUME NEW w \in Walker PROVE IsWalk(walk'[w]) /\ ReadSoFar(walk[w])'
      BY <2>1, OvertakenWalk DEF WalkInv
  <2>3. walk' = [w \in Walker |-> walk'[w]]
      BY <2>1
  <2> QED BY <2>2, <2>3 DEF WalkInv
<1>6. CASE UNCHANGED <<vars, walk>>
    BY <1>6 DEF vars, WalkInv, ReadSoFar, Reaches, Misses
<1>7. CASE UNCHANGED mgrVars
    BY <1>6, <1>7 DEF mgrVars
<1> QED BY <1>1, <1>2, <1>3, <1>4, <1>5, <1>6, <1>7 DEF MgrNext, RecvData, ProcCmd

(* However the walks and the host's callbacks interleave, for any number   *)
(* of devices and of tasks that walk over the table: a uid is written to   *)
(* its owner, or its owner's node was removed meanwhile and the message    *)
(* goes nowhere, to a handle that has changed its device meanwhile, or to  *)
(* the device of handle 0.                                                 *)
THEOREM UidsAreTheOwners == MgrSpec => []UidsReachTheirOwner
<1> DEFINE Inv == TableInv /\ WalkInv
<1>1. MgrInit => Inv
  <2> SUFFICES ASSUME MgrInit PROVE Inv
      OBVIOUS
  <2>1. \E i \in Slot : TRUE
    <3>1. /\ IsFiniteSet(Handle) /\ IsFiniteSet(Slot) /\ Cardinality(Handle) <= Cardinality(Slot)
          /\ Handle # {}
        BY BleNetAssumption, BleMgrAssumption
    <3>2. Cardinality(Handle) \in Nat /\ Cardinality(Handle) # 0
        BY <3>1, FS_CardinalityType, FS_EmptySet
    <3> QED BY <3>1, <3>2, FS_EmptySet
  <2>2. FirstOf(Slot) \in Slot
      BY <2>1, First, BleNetAssumption
  <2> QED BY <2>2, TableStart, Outset DEF MgrInit, WalkInv, Resting
<1>2. Inv /\ [MgrNext]_mgrVars => Inv'
    BY NetSteps, TableStep, WalkStep
<1>3. Inv => UidsReachTheirOwner
  <2> SUFFICES ASSUME Inv PROVE UidsReachTheirOwner
      OBVIOUS
  <2>1. ASSUME NEW h \in Handle, link[h] # NoDev PROVE DevUIDByHandle(h) \in {NoDev, link[h]}
    <3> DEFINE mine == {i \in Slot : table[i].handle = h}
    <3>1. CASE mine = {}
        BY <3>1 DEF DevUIDByHandle
    <3>2. CASE mine # {}
      <4>1. FirstOf(mine) \in mine
          BY <3>2, First, BleNetAssumption
      <4>2. PICK i \in mine : DevUIDByHandle(h) = table[i].addr
          BY <3>2, <4>1 DEF DevUIDByHandle
      <4>3. table[i] # FreeSlot
          BY <4>2, BleNetAssumption DEF FreeSlot
      <4> QED BY <4>2, <4>3 DEF TableInv, TableIsExact
    <3> QED BY <3>1, <3>2
  <2>2. ASSUME NEW w \in Walker, walk[w].at = "send"
        PROVE  Reaches(walk[w]) \/ (walk[w].lost /\ Misses(walk[w]))
    <3>1. Reaches(walk[w]) \/ Misses(walk[w])
        BY <2>2 DEF WalkInv, ReadSoFar
    <3>2. CASE ~walk[w].lost
      <4>1. /\ walk[w].slot \in Slot /\ table[walk[w].slot].addr = walk[w].dst
            /\ walk[w].dst # NoDev /\ table[walk[w].slot].handle = walk[w].handle
          BY <2>2, <3>2 DEF WalkInv, IsWalk, ReadSoFar
      <4> QED BY <4>1, Listed DEF Reaches
    <3> QED BY <3>1, <3>2
  <2> QED BY <2>1, <2>2 DEF UidsReachTheirOwner, Reaches
<1> QED BY <1>1, <1>2, <1>3, PTL DEF MgrSpec
-----------------------------------------------------------------------------
(* Sorted lists of handles.                                                *)
Ascending(hs) == \A m, n \in 1 .. Len(hs) : m < n => hs[m] < hs[n]

LEMMA Placed ==
    ASSUME NEW hs \in Seq(Nat), NEW x \in Int
    PROVE  /\ Place(hs, x) \in 0 .. Len(hs)
           /\ \A i \in 1 .. Place(hs, x) : hs[i] < x
           /\ Place(hs, x) < Len(hs) => hs[Place(hs, x) + 1] >= x
<1> DEFINE S == { n \in 0 .. Len(hs) : n < Len(hs) => hs[n + 1] >= x }
           IsPlace(n) == /\ \A i \in 1 .. n : hs[i] < x
                         /\ n < Len(hs) => hs[n + 1] >= x
<1>1. Len(hs) \in S /\ S \subseteq Nat
    OBVIOUS
<1>2. PICK n \in S : \A j \in S : n <= j
    BY <1>1, Least
<1>3. ASSUME NEW i \in 1 .. n PROVE hs[i] < x
  <2> SUFFICES ASSUME ~(hs[i] < x) PROVE FALSE
      OBVIOUS
  <2>1. i \in 1 .. Len(hs) /\ i - 1 \in 0 .. Len(hs) /\ ~(n <= i - 1)
      BY <1>2
  <2>2. hs[i] \in Nat /\ hs[i] >= x /\ (i - 1) + 1 = i
      BY <2>1
  <2>3. i - 1 \in S
      BY <2>1, <2>2
  <2> QED BY <1>2, <2>1, <2>3
<1>4. n \in 0 .. Len(hs) /\ IsPlace(n)
    BY <1>2, <1>3
<1>5. Place(hs, x) = CHOOSE m \in 0 .. Len(hs) : IsPlace(m)
    BY DEF Place
<1>6. Place(hs, x) \in 0 .. Len(hs) /\ IsPlace(Place(hs, x))
  <2> HIDE DEF IsPlace
  <2> QED BY <1>4, <1>5
<1> QED BY <1>6

LEMMA PlaceOfMember ==
    ASSUME NEW hs \in Seq(Nat), Ascending(hs), NEW k \in 1 .. Len(hs)
    PROVE  Place(hs, hs[k]) = k - 1 /\ FoundIn(hs, hs[k])
<1> DEFINE n == Place(hs, hs[k])
<1>0. hs[k] \in Int
    OBVIOUS
<1>1. /\ n \in 0 .. Len(hs) /\ \A i \in 1 .. n : hs[i] < hs[k]
      /\ n < Len(hs) => hs[n + 1] >= hs[k]
    BY <1>0, Placed
<1> HIDE DEF n
<1>2. n < k
  <2>1. ~(hs[k] < hs[k])
      OBVIOUS
  <2> QED BY <1>1, <2>1
<1>3. n + 1 \in 1 .. Len(hs) /\ hs[n + 1] >= hs[k]
    BY <1>1, <1>2
<1>4. ~(n + 1 < k)
  <2> SUFFICES ASSUME n + 1 < k PROVE FALSE
      OBVIOUS
  <2>1. hs[n + 1] < hs[k] /\ hs[n + 1] \in Nat /\ hs[k] \in Nat
      BY <1>3 DEF Ascending
  <2> QED BY <1>3, <2>1
<1>5. n = k - 1
    BY <1>1, <1>2, <1>4
<1> QED BY <1>3, <1>5 DEF n, FoundIn

LEMMA PlaceBehind ==
    ASSUME NEW hs \in Seq(Nat), NEW x \in Int, \A i \in 1 .. Len(hs) : hs[i] < x
    PROVE  Place(hs, x) = Len(hs) /\ ~FoundIn(hs, x)
<1> DEFINE n == Place(hs, x)
<1>1. n \in 0 .. Len(hs) /\ (n < Len(hs) => hs[n + 1] >= x)
    BY Placed
<1> HIDE DEF n
<1>2. n = Len(hs)
  <2> SUFFICES ASSUME n < Len(hs) PROVE FALSE
      BY <1>1
  <2>1. n + 1 \in 1 .. Len(hs) /\ hs[n + 1] \in Nat
      BY <1>1
  <2> QED BY <1>1, <2>1
<1> QED BY <1>2 DEF n, FoundIn

LEMMA AddedLast ==
    ASSUME NEW T, NEW list \in Seq(T), NEW x \in T
    PROVE  /\ InsertAfter(list, Len(list), x) = Append(list, x)
           /\ LinkAfter(list, Len(list), x) = Append(list, x)
<1>1. SubSeq(list, 1, Len(list)) = list /\ SubSeq(list, Len(list) + 1, Len(list)) = <<>>
    OBVIOUS
<1>2. Len(list) = 0 => list = <<>>
    OBVIOUS
<1>3. list \o <<x>> \o <<>> = Append(list, x) /\ <<x>> \o <<>> = Append(<<>>, x)
    OBVIOUS
<1> QED BY <1>1, <1>2, <1>3 DEF InsertAfter, LinkAfter

-----------------------------------------------------------------------------
(* The peer records.  What is recorded of a device is a part of its        *)
(* database: the first services; of each, the first characteristics; of    *)
(* each of these, the first descriptors.                                   *)
ChrFrom(c, g) ==
    /\ c.def = g.def /\ c.val = g.val /\ c.uuid = g.uuid
    /\ Len(c.dscs) <= Len(g.dscs)
    /\ \A m \in 1 .. Len(c.dscs) : c.dscs[m] = g.dscs[m]

SvcFrom(s, g) ==
    /\ s.start = g.start /\ s.end = g.end /\ s.uuid = g.uuid
    /\ Len(s.chrs) <= Len(g.chrs)
    /\ \A j \in 1 .. Len(s.chrs) : ChrFrom(s.chrs[j], g.chrs[j])

Recorded(p, db) ==
    /\ p \in PeerRecord
    /\ Len(p.svcs) <= Len(db)
    /\ \A i \in 1 .. Len(p.svcs) : SvcFrom(p.svcs[i], db[i])

(* A procedure asks about something recorded, and what it has reported has *)
(* been recorded.                                                          *)
AsksChrs(p, q, i) ==
    /\ p.cur = p.svcs[i].start /\ q.lo = p.cur /\ q.hi = p.svcs[i].end
    /\ Len(p.svcs[i].chrs) = q.pos

AsksDscs(p, q, i, j) ==
    /\ q.lo = p.svcs[i].chrs[j].val /\ q.hi = ChrEnd(p.svcs[i], j)
    /\ Len(p.svcs[i].chrs[j].dscs) = q.pos

Asking(p, q) ==
    /\ q.kind \in {"svcs", "chrs", "dscs"} /\ q.pos \in Nat
    /\ q.kind = "svcs" => Len(p.svcs) = q.pos
    /\ q.kind = "chrs" => \E i \in 1 .. Len(p.svcs) : AsksChrs(p, q, i)
    /\ q.kind = "dscs" =>
         \E i \in 1 .. Len(p.svcs) : \E j \in 1 .. Len(p.svcs[i].chrs) : AsksDscs(p, q, i, j)

PeerInv ==
    /\ peer = [h \in Handle |-> peer[h]]
    /\ \A h \in Handle :
         /\ link[h] = NoDev => peer[h] = NoPeer
         /\ peer[h] # NoPeer => Recorded(peer[h], Gatt[link[h]])
         /\ proc[h].kind # "none" => peer[h] # NoPeer /\ Asking(peer[h], proc[h])

(* A database as the host reports it, in the order of handles. *)
IsDb(db) == db \in Seq(Service) /\ InOrder(db)

LEMMA Shapes ==
    /\ \A svcs \in Seq(Service) : \A i \in 1 .. Len(svcs) :
         /\ svcs[i] \in Service /\ svcs[i].chrs \in Seq(Characteristic)
         /\ svcs[i].start \in Nat /\ svcs[i].end \in Nat
    /\ \A chrs \in Seq(Characteristic) : \A j \in 1 .. Len(chrs) :
         /\ chrs[j] \in Characteristic /\ chrs[j].dscs \in Seq(Nat)
         /\ chrs[j].def \in Nat /\ chrs[j].val \in Nat
<1>1. ASSUME NEW svcs \in Seq(Service), NEW i \in 1 .. Len(svcs) PROVE svcs[i] \in Service
    BY <1>1, ElementOfSeq
<1>2. ASSUME NEW chrs \in Seq(Characteristic), NEW j \in 1 .. Len(chrs)
      PROVE  chrs[j] \in Characteristic
    BY <1>2, ElementOfSeq
<1> QED BY <1>1, <1>2 DEF Service, Characteristic

LEMMA HandleLists ==
    /\ \A svcs \in Seq(Service) :
         /\ Starts(svcs) \in Seq(Nat) /\ Len(Starts(svcs)) = Len(svcs)
         /\ \A i \in 1 .. Len(svcs) : Starts(svcs)[i] = svcs[i].start
    /\ \A chrs \in Seq(Characteristic) :
         /\ Vals(chrs) \in Seq(Nat) /\ Len(Vals(chrs)) = Len(chrs)
         /\ Defs(chrs) \in Seq(Nat) /\ Len(Defs(chrs)) = Len(chrs)
         /\ \A j \in 1 .. Len(chrs) : Vals(chrs)[j] = chrs[j].val /\ Defs(chrs)[j] = chrs[j].def
<1>1. ASSUME NEW svcs \in Seq(Service)
      PROVE  /\ Starts(svcs) \in Seq(Nat) /\ Len(Starts(svcs)) = Len(svcs)
             /\ \A i \in 1 .. Len(svcs) : Starts(svcs)[i] = svcs[i].start
  <2>1. Len(svcs) \in Nat /\ DOMAIN svcs = 1 .. Len(svcs)
      OBVIOUS
  <2>2. Starts(svcs) \in [1 .. Len(svcs) -> Nat]
      BY <2>1, Shapes DEF Starts
  <2> QED BY <2>1, <2>2 DEF Starts
<1>2. ASSUME NEW chrs \in Seq(Characteristic)
      PROVE  /\ Vals(chrs) \in Seq(Nat) /\ Len(Vals(chrs)) = Len(chrs)
             /\ Defs(chrs) \in Seq(Nat) /\ Len(Defs(chrs)) = Len(chrs)
             /\ \A j \in 1 .. Len(chrs) : Vals(chrs)[j] = chrs[j].val /\ Defs(chrs)[j] = chrs[j].def
  <2>1. Len(chrs) \in Nat /\ DOMAIN chrs = 1 .. Len(chrs)
      OBVIOUS
  <2>2. Vals(chrs) \in [1 .. Len(chrs) -> Nat] /\ Defs(chrs) \in [1 .. Len(chrs) -> Nat]
      BY <2>1, Shapes DEF Vals, Defs
  <2> QED BY <2>1, <2>2 DEF Vals, Defs
<1> QED BY <1>1, <1>2

(* Services of a database lie apart, and so do its characteristics. *)
LEMMA Apart ==
    ASSUME NEW db, IsDb(db), NEW i \in 1 .. Len(db), NEW k \in 1 .. Len(db), NEW x \in Nat,
           db[i].start <= x, x <= db[i].end, db[k].start <= x, x <= db[k].end
    PROVE  i = k
<1>1. DOMAIN db = 1 .. Len(db)
    BY DEF IsDb
<1>2. /\ db[i].start \in Nat /\ db[i].end \in Nat
      /\ db[k].start \in Nat /\ db[k].end \in Nat
    BY Shapes DEF IsDb
<1>3. /\ i < k => db[i].end < db[k].start
      /\ k < i => db[k].end < db[i].start
    BY <1>1 DEF IsDb, InOrder
<1> QED BY <1>2, <1>3

LEMMA InService ==
    ASSUME NEW db, IsDb(db), NEW i \in 1 .. Len(db), NEW j \in 1 .. Len(db[i].chrs)
    PROVE  LET s == db[i]  c == s.chrs[j] IN
           /\ s \in Service /\ s.chrs \in Seq(Characteristic) /\ c \in Characteristic
           /\ s.start <= s.end
           /\ s.start < c.def /\ c.def < c.val /\ c.val <= s.end
           /\ \A k \in 1 .. Len(s.chrs) : j < k => c.val < s.chrs[k].def
           /\ \A m, n \in 1 .. Len(c.dscs) : m < n => c.dscs[m] < c.dscs[n]
<1>1. /\ db[i] \in Service /\ db[i].chrs \in Seq(Characteristic)
      /\ db[i].chrs[j] \in Characteristic /\ db[i].chrs[j].dscs \in Seq(Nat)
    BY Shapes DEF IsDb
<1>2. /\ DOMAIN db = 1 .. Len(db) /\ DOMAIN db[i].chrs = 1 .. Len(db[i].chrs)
      /\ DOMAIN db[i].chrs[j].dscs = 1 .. Len(db[i].chrs[j].dscs)
    BY <1>1 DEF IsDb
<1> QED BY <1>1, <1>2 DEF IsDb, InOrder

(* The lists of a record are sorted as those of the database. *)
LEMMA RecordSorted ==
    ASSUME NEW db, IsDb(db), NEW p, Recorded(p, db)
    PROVE  /\ Ascending(Starts(p.svcs))
           /\ \A i \in 1 .. Len(p.svcs) : Ascending(Vals(p.svcs[i].chrs))
<1>1. p.svcs \in Seq(Service) /\ Len(p.svcs) \in Nat /\ db \in Seq(Service) /\ DOMAIN db = 1 .. Len(db)
    BY DEF Recorded, PeerRecord, IsDb
<1>2. \A i \in 1 .. Len(p.svcs) : i \in 1 .. Len(db) /\ SvcFrom(p.svcs[i], db[i])
    BY <1>1 DEF Recorded
<1>3. Ascending(Starts(p.svcs))
  <2>0. /\ Len(Starts(p.svcs)) = Len(p.svcs)
        /\ \A i \in 1 .. Len(p.svcs) : Starts(p.svcs)[i] = p.svcs[i].start
      BY <1>1, HandleLists
  <2> SUFFICES ASSUME NEW i \in 1 .. Len(p.svcs), NEW k \in 1 .. Len(p.svcs), i < k
               PROVE  p.svcs[i].start < p.svcs[k].start
      BY <2>0 DEF Ascending
  <2>1. db[i].start <= db[i].end /\ db[i].end < db[k].start
      BY <1>1, <1>2 DEF IsDb, InOrder
  <2>2. db[i].start \in Nat /\ db[i].end \in Nat /\ db[k].start \in Nat
      BY <1>1, <1>2, Shapes
  <2> QED BY <1>2, <2>1, <2>2 DEF SvcFrom
<1>4. ASSUME NEW i \in 1 .. Len(p.svcs) PROVE Ascending(Vals(p.svcs[i].chrs))
  <2>1. p.svcs[i].chrs \in Seq(Characteristic) /\ db[i].chrs \in Seq(Characteristic)
      BY <1>1, <1>2, Shapes
  <2> DEFINE chrs == p.svcs[i].chrs
  <2>0. Len(Vals(chrs)) = Len(chrs) /\ \A j \in 1 .. Len(chrs) : Vals(chrs)[j] = chrs[j].val
      BY <2>1, HandleLists
  <2> SUFFICES ASSUME NEW j \in 1 .. Len(p.svcs[i].chrs), NEW k \in 1 .. Len(p.svcs[i].chrs), j < k
               PROVE  p.svcs[i].chrs[j].val < p.svcs[i].chrs[k].val
      BY <2>0 DEF Ascending
  <2>2. /\ j \in 1 .. Len(db[i].chrs) /\ k \in 1 .. Len(db[i].chrs)
        /\ p.svcs[i].chrs[j].val = db[i].chrs[j].val /\ p.svcs[i].chrs[k].val = db[i].chrs[k].val
    <3>1. SvcFrom(p.svcs[i], db[i]) /\ Len(p.svcs[i].chrs) \in Nat /\ Len(db[i].chrs) \in Nat
        BY <1>2, <2>1
    <3>2. /\ j \in 1 .. Len(db[i].chrs) /\ k \in 1 .. Len(db[i].chrs)
          /\ ChrFrom(p.svcs[i].chrs[j], db[i].chrs[j]) /\ ChrFrom(p.svcs[i].chrs[k], db[i].chrs[k])
        BY <3>1 DEF SvcFrom
    <3> QED BY <3>2 DEF ChrFrom
  <2>3. db[i].chrs[j].val < db[i].chrs[k].def /\ db[i].chrs[k].def < db[i].chrs[k].val
      BY <1>2, <2>2, InService
  <2>4. /\ db[i].chrs[j].val \in Nat /\ db[i].chrs[k].def \in Nat /\ db[i].chrs[k].val \in Nat
      BY <2>1, <2>2, Shapes
  <2>5. db[i].chrs[j].val < db[i].chrs[k].val
    <3> DEFINE one == db[i].chrs[j].val  def == db[i].chrs[k].def  two == db[i].chrs[k].val
    <3>1. one \in Nat /\ def \in Nat /\ two \in Nat /\ one < def /\ def < two
        BY <2>3, <2>4
    <3> HIDE DEF one, def, two
    <3>2. one < two
        BY <3>1
    <3> QED BY <3>2 DEF one, two
  <2> QED BY <2>2, <2>5
<1> QED BY <1>3, <1>4

(* What the host reports when it is asked about something recorded. *)
LEMMA ChrsReported ==
    ASSUME NEW d \in Device, NEW p, Recorded(p, Gatt[d]), NEW q,
           NEW i \in 1 .. Len(p.svcs), AsksChrs(p, q, i)
    PROVE  ChrsIn(d, q.lo, q.hi) = Gatt[d][i].chrs
<1> DEFINE db == Gatt[d]
           g == db[i]
<1>1. IsDb(db) /\ DOMAIN db = 1 .. Len(db) /\ i \in 1 .. Len(db) /\ SvcFrom(p.svcs[i], g)
    BY BleNetAssumption DEF IsDb, Recorded, PeerRecord
<1>2. /\ g \in Service /\ g.chrs \in Seq(Characteristic) /\ g.start \in Nat /\ g.end \in Nat
      /\ g.start <= g.end
    BY <1>1, Shapes DEF IsDb, InOrder
<1>3. q.lo = g.start /\ q.hi = g.end
    BY <1>1 DEF AsksChrs, SvcFrom
<1>4. (CHOOSE k \in DOMAIN db : db[k].start = q.lo) = i
  <2>1. ASSUME NEW k \in DOMAIN db, db[k].start = q.lo PROVE k = i
    <3>1. db[k].start <= db[k].end /\ k \in 1 .. Len(db)
        BY <1>1 DEF IsDb, InOrder
    <3>2. g.start <= g.start
        BY <1>2
    <3> QED BY <1>1, <1>2, <1>3, <2>1, <3>1, <3>2, Apart
  <2> QED BY <1>1, <1>3, <2>1
<1>5. \A m \in 1 .. Len(g.chrs) : g.chrs[m].def < g.end + 1
  <2> SUFFICES ASSUME NEW m \in 1 .. Len(g.chrs) PROVE g.chrs[m].def < g.end + 1
      OBVIOUS
  <2> DEFINE def == g.chrs[m].def  val == g.chrs[m].val  end == g.end
  <2>1. def < val /\ val <= end
      BY <1>1, InService
  <2>2. def \in Nat /\ val \in Nat /\ end \in Nat
      BY <1>2, Shapes
  <2> HIDE DEF def, val, end
  <2>3. def < end + 1
      BY <2>1, <2>2
  <2> QED BY <2>3 DEF def, end
<1>6. Place(Defs(g.chrs), g.end + 1) = Len(g.chrs)
  <2>1. /\ Defs(g.chrs) \in Seq(Nat) /\ Len(Defs(g.chrs)) = Len(g.chrs)
        /\ \A m \in 1 .. Len(g.chrs) : Defs(g.chrs)[m] = g.chrs[m].def
      BY <1>2, HandleLists
  <2>2. g.end + 1 \in Int
      BY <1>2
  <2> HIDE DEF g
  <2> QED BY <1>5, <2>1, <2>2, PlaceBehind
<1>7. SubSeq(g.chrs, 1, Len(g.chrs)) = g.chrs
    BY <1>2
<1> QED BY <1>3, <1>4, <1>6, <1>7 DEF ChrsIn

LEMMA DscsReported ==
    ASSUME NEW d \in Device, NEW p, Recorded(p, Gatt[d]), NEW q,
           NEW i \in 1 .. Len(p.svcs), NEW j \in 1 .. Len(p.svcs[i].chrs), AsksDscs(p, q, i, j)
    PROVE  LET found == DscsIn(d, q.lo, q.hi)
               all   == Gatt[d][i].chrs[j].dscs
           IN  Len(found) \in 0 .. Len(all) /\ \A m \in 1 .. Len(found) : found[m] = all[m]
<1> DEFINE db == Gatt[d]
           g == db[i]
           all == g.chrs[j].dscs
<1>1. /\ IsDb(db) /\ db \in Seq(Service) /\ DOMAIN db = 1 .. Len(db) /\ Len(db) \in Nat
      /\ i \in 1 .. Len(db) /\ SvcFrom(p.svcs[i], g)
    BY BleNetAssumption DEF IsDb, Recorded, PeerRecord
<1>2. /\ g \in Service /\ g.chrs \in Seq(Characteristic) /\ g.start \in Nat /\ g.end \in Nat
      /\ p.svcs \in Seq(Service) /\ p.svcs[i] \in Service /\ p.svcs[i].chrs \in Seq(Characteristic)
    BY <1>1, Shapes DEF IsDb, Recorded, PeerRecord
<1>3. /\ j \in 1 .. Len(g.chrs) /\ q.lo = g.chrs[j].val /\ g.chrs[j].val \in Nat
      /\ DOMAIN g.chrs = 1 .. Len(g.chrs) /\ all \in Seq(Nat)
  <2>1. j \in 1 .. Len(g.chrs) /\ ChrFrom(p.svcs[i].chrs[j], g.chrs[j])
      BY <1>1, <1>2 DEF SvcFrom
  <2> QED BY <1>2, <2>1, Shapes DEF AsksDscs, ChrFrom
<1>4. g.start <= q.lo /\ q.lo <= g.end
  <2> DEFINE def == g.chrs[j].def  val == g.chrs[j].val  start == g.start  end == g.end
  <2>1. start < def /\ def < val /\ val <= end
      BY <1>1, <1>3, InService
  <2>2. def \in Nat /\ val \in Nat /\ start \in Nat /\ end \in Nat
      BY <1>2, <1>3, Shapes
  <2> HIDE DEF def, val, start, end
  <2>3. start <= val /\ val <= end
      BY <2>1, <2>2
  <2> QED BY <1>3, <2>3 DEF val, start, end
<1>5. FirstOf({ k \in DOMAIN db : db[k].start <= q.lo /\ q.lo <= db[k].end }) = i
  <2> DEFINE S == { k \in DOMAIN db : db[k].start <= q.lo /\ q.lo <= db[k].end }
  <2>1. i \in S /\ S \subseteq Nat /\ S # {}
      BY <1>1, <1>4
  <2>2. FirstOf(S) \in S
      BY <2>1, First
  <2>3. \A k \in S : k = i
      BY <1>1, <1>3, <1>4, Apart
  <2> QED BY <2>2, <2>3
<1>6. (CHOOSE k \in DOMAIN g.chrs : g.chrs[k].val = q.lo) = j
  <2>1. ASSUME NEW k \in DOMAIN g.chrs, NEW n \in DOMAIN g.chrs, k < n
        PROVE  g.chrs[k].val < g.chrs[n].val
    <3>1. g.chrs[k].val < g.chrs[n].def /\ g.chrs[n].def < g.chrs[n].val
        BY <1>1, <1>3, <2>1, InService
    <3>2. g.chrs[k].val \in Nat /\ g.chrs[n].def \in Nat /\ g.chrs[n].val \in Nat
        BY <1>2, <1>3, Shapes
    <3> QED BY <3>1, <3>2
  <2>2. ASSUME NEW k \in DOMAIN g.chrs, g.chrs[k].val = q.lo PROVE k = j
    <3> DEFINE val == g.chrs[j].val
    <3>1. (k < j \/ j < k) => val < val
        BY <1>3, <2>1, <2>2
    <3>2. val \in Nat /\ k \in Nat /\ j \in Nat
        BY <1>3
    <3> HIDE DEF val
    <3> QED BY <3>1, <3>2
  <2> QED BY <1>3, <2>2
<1>7. q.hi + 1 \in Int
  <2>1. j + 1 \in 1 .. Len(p.svcs[i].chrs) => p.svcs[i].chrs[j + 1].def \in Nat
      BY <1>2, Shapes
  <2>2. p.svcs[i].end \in Nat
      BY <1>2, Shapes
  <2>3. j < Len(p.svcs[i].chrs) => j + 1 \in 1 .. Len(p.svcs[i].chrs)
      BY <1>2
  <2> QED BY <2>1, <2>2, <2>3 DEF AsksDscs, ChrEnd
<1>8. DscsIn(d, q.lo, q.hi) = SubSeq(all, 1, Place(all, q.hi + 1))
    BY <1>5, <1>6 DEF DscsIn
<1>9. Place(all, q.hi + 1) \in 0 .. Len(all)
    BY <1>3, <1>7, Placed
<1> HIDE DEF all
<1>10. ASSUME NEW n \in 0 .. Len(all)
       PROVE  Len(SubSeq(all, 1, n)) = n /\ \A m \in 1 .. n : SubSeq(all, 1, n)[m] = all[m]
    BY <1>3
<1>11. LET found == DscsIn(d, q.lo, q.hi)
       IN  Len(found) \in 0 .. Len(all) /\ \A m \in 1 .. Len(found) : found[m] = all[m]
    BY <1>8, <1>9, <1>10
<1> QED BY <1>11 DEF all

(* The record with other characteristics of a service, or other            *)
(* descriptors of a characteristic.                                        *)
PutChrs(p, i, chrs) ==
    [p EXCEPT !.svcs = [p.svcs EXCEPT ![i] = [p.svcs[i] EXCEPT !.chrs = chrs]]]

PutDscs(p, i, j, dscs) ==
    PutChrs(p, i, [p.svcs[i].chrs EXCEPT ![j] = [p.svcs[i].chrs[j] EXCEPT !.dscs = dscs]])

LEMMA ChrsPut ==
    ASSUME NEW p \in PeerRecord, NEW i \in 1 .. Len(p.svcs), NEW chrs \in Seq(Characteristic)
    PROVE  LET q == PutChrs(p, i, chrs) IN
           /\ q \in PeerRecord /\ q.cur = p.cur /\ q.prev = p.prev
           /\ Len(q.svcs) = Len(p.svcs)
           /\ \A k \in 1 .. Len(p.svcs) \ {i} : q.svcs[k] = p.svcs[k]
           /\ q.svcs[i].chrs = chrs /\ q.svcs[i].start = p.svcs[i].start
           /\ q.svcs[i].end = p.svcs[i].end /\ q.svcs[i].uuid = p.svcs[i].uuid
<1> DEFINE s    == [p.svcs[i] EXCEPT !.chrs = chrs]
           svcs == [p.svcs EXCEPT ![i] = s]
           q    == [p EXCEPT !.svcs = svcs]
<1>1. /\ p.svcs \in Seq(Service) /\ p.svcs[i] \in Service
      /\ p = [svcs |-> p.svcs, cur |-> p.cur, prev |-> p.prev]
      /\ p.cur \in Nat /\ p.prev \in Nat
    BY Shapes DEF PeerRecord
<1>2. /\ s \in Service /\ s.chrs = chrs /\ s.start = p.svcs[i].start
      /\ s.end = p.svcs[i].end /\ s.uuid = p.svcs[i].uuid
    BY <1>1 DEF Service
<1> HIDE DEF s
<1>3. /\ svcs \in Seq(Service) /\ Len(svcs) = Len(p.svcs) /\ svcs[i] = s
      /\ \A k \in 1 .. Len(p.svcs) \ {i} : svcs[k] = p.svcs[k]
    BY <1>1, <1>2
<1> HIDE DEF svcs
<1>4. q.svcs = svcs /\ q.cur = p.cur /\ q.prev = p.prev /\ q \in PeerRecord
    BY <1>1, <1>3 DEF PeerRecord
<1> HIDE DEF q
<1>5. /\ Len(q.svcs) = Len(p.svcs) /\ q.svcs[i] = s
      /\ \A k \in 1 .. Len(p.svcs) \ {i} : q.svcs[k] = p.svcs[k]
    BY <1>3, <1>4
<1>6. PutChrs(p, i, chrs) = q
    BY DEF PutChrs, q, svcs, s
<1> QED BY <1>2, <1>4, <1>5, <1>6

LEMMA ChrsPutRecorded ==
    ASSUME NEW db, NEW p, Recorded(p, db), NEW i \in 1 .. Len(p.svcs),
           NEW chrs \in Seq(Characteristic), Len(chrs) <= Len(db[i].chrs),
           \A j \in 1 .. Len(chrs) : ChrFrom(chrs[j], db[i].chrs[j])
    PROVE  Recorded(PutChrs(p, i, chrs), db)
<1> DEFINE q == PutChrs(p, i, chrs)
<1>1. p \in PeerRecord /\ Len(p.svcs) <= Len(db) /\ \A k \in 1 .. Len(p.svcs) : SvcFrom(p.svcs[k], db[k])
    BY DEF Recorded
<1>2. /\ q \in PeerRecord
      /\ Len(q.svcs) = Len(p.svcs)
      /\ \A k \in 1 .. Len(p.svcs) \ {i} : q.svcs[k] = p.svcs[k]
      /\ q.svcs[i].chrs = chrs /\ q.svcs[i].start = p.svcs[i].start
      /\ q.svcs[i].end = p.svcs[i].end /\ q.svcs[i].uuid = p.svcs[i].uuid
    BY <1>1, ChrsPut
<1> HIDE DEF q
<1>3. SvcFrom(q.svcs[i], db[i])
    BY <1>1, <1>2 DEF SvcFrom
<1>4. ASSUME NEW k \in 1 .. Len(q.svcs) PROVE SvcFrom(q.svcs[k], db[k])
  <2>1. CASE k = i
      BY <1>3, <2>1
  <2>2. CASE k # i
      BY <1>1, <1>2, <2>2
  <2> QED BY <2>1, <2>2
<1>5. Recorded(q, db)
    BY <1>1, <1>2, <1>4 DEF Recorded
<1> QED BY <1>5 DEF q

LEMMA SvcAdded ==
    ASSUME NEW db, IsDb(db), NEW p, Recorded(p, db), Len(p.svcs) < Len(db)
    PROVE  LET x == [db[Len(p.svcs) + 1] EXCEPT !.chrs = <<>>]
               q == [p EXCEPT !.svcs = Append(p.svcs, x)]
           IN  SvcAdd(p, db[Len(p.svcs) + 1]) = q /\ Recorded(q, db) /\ x.chrs = <<>>
<1> DEFINE n == Len(p.svcs)
           g == db[n + 1]
           x == [g EXCEPT !.chrs = <<>>]
           q == [p EXCEPT !.svcs = Append(p.svcs, x)]
<1>1. /\ p \in PeerRecord /\ p.svcs \in Seq(Service) /\ n \in Nat
      /\ db \in Seq(Service) /\ n + 1 \in 1 .. Len(db) /\ DOMAIN db = 1 .. Len(db)
    BY DEF Recorded, PeerRecord, IsDb
<1>2. g \in Service /\ g.start \in Nat
    BY <1>1, Shapes
<1>3. /\ x \in Service /\ x.chrs = <<>> /\ x.start = g.start /\ x.end = g.end
      /\ x.uuid = g.uuid
  <2> HIDE DEF g
  <2>1. g = [start |-> g.start, end |-> g.end, uuid |-> g.uuid, chrs |-> g.chrs]
      BY <1>2 DEF Service
  <2>2. x = [start |-> g.start, end |-> g.end, uuid |-> g.uuid, chrs |-> <<>>]
      BY <2>1
  <2>3. g.start \in Nat /\ g.end \in Nat /\ g.uuid \in STRING /\ <<>> \in Seq(Characteristic)
      BY <1>2 DEF Service
  <2> QED BY <2>2, <2>3 DEF Service
<1>4. \A i \in 1 .. n : p.svcs[i].start < g.start
  <2> SUFFICES ASSUME NEW i \in 1 .. n PROVE p.svcs[i].start < g.start
      OBVIOUS
  <2> DEFINE start == db[i].start  end == db[i].end  next == g.start
  <2>1. i \in 1 .. Len(db) /\ i < n + 1
      BY <1>1
  <2>2. p.svcs[i].start = start
      BY DEF Recorded, SvcFrom
  <2>3. start <= end /\ end < next
      BY <1>1, <2>1 DEF IsDb, InOrder
  <2>4. start \in Nat /\ end \in Nat /\ next \in Nat
      BY <1>1, <1>2, <2>1, Shapes
  <2> HIDE DEF start, end, next
  <2>5. start < next
      BY <2>3, <2>4
  <2> QED BY <2>2, <2>5 DEF next
<1> HIDE DEF g, x
<1>5. Place(Starts(p.svcs), g.start) = n /\ ~FoundIn(Starts(p.svcs), g.start)
  <2>1. /\ Starts(p.svcs) \in Seq(Nat) /\ Len(Starts(p.svcs)) = n
        /\ \A i \in 1 .. n : Starts(p.svcs)[i] = p.svcs[i].start
      BY <1>1, HandleLists
  <2>2. g.start \in Int /\ \A i \in 1 .. Len(Starts(p.svcs)) : Starts(p.svcs)[i] < g.start
      BY <1>2, <1>4, <2>1
  <2> HIDE DEF n
  <2> QED BY <2>1, <2>2, PlaceBehind
<1>6. InsertAfter(p.svcs, n, x) = Append(p.svcs, x)
    BY <1>1, <1>3, AddedLast
<1>7. SvcAdd(p, g) = q
    BY <1>5, <1>6 DEF SvcAdd, x
<1>8. Append(p.svcs, x) \in Seq(Service) /\ Len(Append(p.svcs, x)) = n + 1
      /\ Append(p.svcs, x)[n + 1] = x
      /\ \A i \in 1 .. n : Append(p.svcs, x)[i] = p.svcs[i]
    BY <1>1, <1>3
<1>9. q \in PeerRecord /\ q.svcs = Append(p.svcs, x)
    BY <1>1, <1>8 DEF PeerRecord
<1>10. SvcFrom(x, g)
    BY <1>2, <1>3 DEF SvcFrom, Service
<1>11. \A i \in 1 .. Len(q.svcs) : SvcFrom(q.svcs[i], db[i])
  <2> SUFFICES ASSUME NEW i \in 1 .. n + 1 PROVE SvcFrom(Append(p.svcs, x)[i], db[i])
      BY <1>8, <1>9
  <2>1. CASE i = n + 1
      BY <1>8, <1>10, <2>1 DEF g
  <2>2. CASE i # n + 1
      BY <1>1, <1>8, <2>2 DEF Recorded
  <2> QED BY <2>1, <2>2
<1>12. Recorded(q, db)
  <2> HIDE DEF q
  <2> QED BY <1>1, <1>8, <1>9, <1>11 DEF Recorded
<1> QED BY <1>3, <1>7, <1>12 DEF g, x

(* Where the code finds the service and the characteristic of a report. *)
ChrFoundAt(p, i, j) ==
    LET chrs == p.svcs[i].chrs  val == chrs[j].val IN
    /\ FirstOf(SvcRange(p, val)) = i /\ SvcRange(p, val) # {}
    /\ FoundIn(Vals(chrs), val) /\ Place(Vals(chrs), val) + 1 = j

LEMMA OwnerFound ==
    ASSUME NEW db, IsDb(db), NEW p, Recorded(p, db), NEW i \in 1 .. Len(p.svcs)
    PROVE  /\ FoundIn(Starts(p.svcs), p.svcs[i].start) /\ SvcAt(p, p.svcs[i].start) = i
           /\ \A j \in 1 .. Len(p.svcs[i].chrs) : ChrFoundAt(p, i, j)
<1>1. /\ p.svcs \in Seq(Service) /\ Len(p.svcs) \in Nat /\ p.svcs[i].chrs \in Seq(Characteristic)
      /\ \A k \in 1 .. Len(p.svcs) : k \in 1 .. Len(db) /\ SvcFrom(p.svcs[k], db[k])
    BY Shapes DEF Recorded, PeerRecord, IsDb
<1>2. /\ Ascending(Starts(p.svcs)) /\ Ascending(Vals(p.svcs[i].chrs))
    BY RecordSorted
<1>3. FoundIn(Starts(p.svcs), p.svcs[i].start) /\ SvcAt(p, p.svcs[i].start) = i
  <2>1. /\ Starts(p.svcs) \in Seq(Nat) /\ Len(Starts(p.svcs)) = Len(p.svcs)
        /\ Starts(p.svcs)[i] = p.svcs[i].start /\ i \in 1 .. Len(Starts(p.svcs))
      BY <1>1, HandleLists
  <2>2. /\ Place(Starts(p.svcs), Starts(p.svcs)[i]) = i - 1
        /\ FoundIn(Starts(p.svcs), Starts(p.svcs)[i])
      BY <1>2, <2>1, PlaceOfMember
  <2> QED BY <2>1, <2>2 DEF SvcAt
<1> DEFINE chrs == p.svcs[i].chrs
<1>4. ASSUME NEW j \in 1 .. Len(chrs)
      PROVE  /\ FirstOf(SvcRange(p, chrs[j].val)) = i /\ SvcRange(p, chrs[j].val) # {}
             /\ FoundIn(Vals(chrs), chrs[j].val) /\ Place(Vals(chrs), chrs[j].val) + 1 = j
  <2> DEFINE val == chrs[j].val
  <2>1. /\ Vals(chrs) \in Seq(Nat) /\ Len(Vals(chrs)) = Len(chrs)
        /\ Vals(chrs)[j] = val /\ j \in 1 .. Len(Vals(chrs))
      BY <1>1, HandleLists
  <2>2. Place(Vals(chrs), Vals(chrs)[j]) = j - 1 /\ FoundIn(Vals(chrs), Vals(chrs)[j])
      BY <1>2, <2>1, PlaceOfMember
  <2>3. SvcFrom(p.svcs[i], db[i]) /\ i \in 1 .. Len(db) /\ db[i].chrs \in Seq(Characteristic)
      BY <1>1, Shapes DEF IsDb
  <2>4. j \in 1 .. Len(db[i].chrs) /\ val = db[i].chrs[j].val
      BY <1>1, <2>3 DEF SvcFrom, ChrFrom
  <2>5. db[i].start <= val /\ val <= db[i].end /\ val \in Nat
    <3> DEFINE start == db[i].start  def == db[i].chrs[j].def  v == db[i].chrs[j].val  end == db[i].end
    <3>1. start < def /\ def < v /\ v <= end
        BY <2>3, <2>4, InService
    <3>2. start \in Nat /\ def \in Nat /\ v \in Nat /\ end \in Nat
        BY <2>3, <2>4, Shapes DEF IsDb
    <3> HIDE DEF start, def, v, end
    <3>3. start <= v /\ v <= end
        BY <3>1, <3>2
    <3> QED BY <2>4, <3>2, <3>3 DEF start, v, end
  <2> HIDE DEF val
  <2>6. i \in SvcRange(p, val) /\ SvcRange(p, val) \subseteq Nat
      BY <1>1, <2>5 DEF SvcRange, SvcFrom
  <2>7. ASSUME NEW k \in SvcRange(p, val) PROVE k = i
    <3>1. /\ k \in 1 .. Len(db) /\ i \in 1 .. Len(db)
          /\ db[k].start <= val /\ val <= db[k].end
        BY <1>1 DEF SvcRange, SvcFrom
    <3> QED BY <2>5, <3>1, Apart
  <2>8. FirstOf(SvcRange(p, val)) \in SvcRange(p, val)
      BY <2>6, First
  <2> QED BY <2>1, <2>2, <2>6, <2>7, <2>8 DEF val
<1> QED BY <1>3, <1>4 DEF ChrFoundAt

LEMMA ChrAdded ==
    ASSUME NEW db, IsDb(db), NEW p, Recorded(p, db), NEW i \in 1 .. Len(p.svcs),
           p.cur = p.svcs[i].start, Len(p.svcs[i].chrs) < Len(db[i].chrs)
    PROVE  LET list == p.svcs[i].chrs
               c == db[i].chrs[Len(list) + 1]
               new == Append(list, [c EXCEPT !.dscs = <<>>])
           IN  /\ new \in Seq(Characteristic) /\ [c EXCEPT !.dscs = <<>>].dscs = <<>>
               /\ ChrAdd(p, c) = PutChrs(p, i, new) /\ Recorded(PutChrs(p, i, new), db)
<1> DEFINE list == p.svcs[i].chrs
           n == Len(list)
           c == db[i].chrs[n + 1]
           x == [c EXCEPT !.dscs = <<>>]
           new == Append(list, x)
<1>1. /\ list \in Seq(Characteristic) /\ n \in Nat /\ i \in 1 .. Len(db)
      /\ SvcFrom(p.svcs[i], db[i]) /\ db[i].chrs \in Seq(Characteristic)
      /\ n + 1 \in 1 .. Len(db[i].chrs)
  <2>1. p.svcs \in Seq(Service) /\ i \in 1 .. Len(db) /\ SvcFrom(p.svcs[i], db[i]) /\ db \in Seq(Service)
      BY DEF Recorded, PeerRecord, IsDb
  <2>2. list \in Seq(Characteristic) /\ db[i].chrs \in Seq(Characteristic)
      BY <2>1, Shapes
  <2> QED BY <2>1, <2>2
<1>2. c \in Characteristic /\ c.def \in Nat
    BY <1>1, Shapes
<1>3. \A j \in 1 .. n : list[j].val < c.def
  <2> SUFFICES ASSUME NEW j \in 1 .. n PROVE list[j].val < c.def
      OBVIOUS
  <2>1. j \in 1 .. Len(db[i].chrs) /\ j < n + 1
      BY <1>1
  <2>2. list[j].val = db[i].chrs[j].val
      BY <1>1 DEF SvcFrom, ChrFrom
  <2> QED BY <1>1, <2>1, <2>2, InService
<1> HIDE DEF c
<1>4. x \in Characteristic /\ x.dscs = <<>> /\ ChrFrom(x, c)
  <2>1. c = [def |-> c.def, val |-> c.val, uuid |-> c.uuid, dscs |-> c.dscs]
      BY <1>2 DEF Characteristic
  <2>2. x = [def |-> c.def, val |-> c.val, uuid |-> c.uuid, dscs |-> <<>>]
      BY <2>1
  <2>3. c.def \in Nat /\ c.val \in Nat /\ c.uuid \in STRING /\ <<>> \in Seq(Nat) /\ Len(c.dscs) \in Nat
      BY <1>2 DEF Characteristic
  <2>4. x \in Characteristic
      BY <2>2, <2>3 DEF Characteristic
  <2>5. x.def = c.def /\ x.val = c.val /\ x.uuid = c.uuid /\ x.dscs = <<>> /\ Len(x.dscs) = 0
      BY <2>2
  <2> HIDE DEF x
  <2> QED BY <2>3, <2>4, <2>5 DEF ChrFrom
<1> HIDE DEF x
<1>5. Place(Vals(list), c.def) = n /\ ~FoundIn(Vals(list), c.def)
  <2>1. /\ Vals(list) \in Seq(Nat) /\ Len(Vals(list)) = n
        /\ \A j \in 1 .. n : Vals(list)[j] = list[j].val
      BY <1>1, HandleLists
  <2>2. c.def \in Int /\ \A j \in 1 .. Len(Vals(list)) : Vals(list)[j] < c.def
      BY <1>2, <1>3, <2>1
  <2> HIDE DEF n
  <2> QED BY <2>1, <2>2, PlaceBehind
<1>6. LinkAfter(list, n, x) = new
    BY <1>1, <1>4, AddedLast
<1>7. SvcAt(p, p.cur) = i
    BY OwnerFound
<1>8. ChrAdd(p, c) = PutChrs(p, i, new)
    BY <1>5, <1>6, <1>7 DEF ChrAdd, PutChrs, x
<1>9. /\ new \in Seq(Characteristic) /\ Len(new) = n + 1 /\ new[n + 1] = x
      /\ \A j \in 1 .. n : new[j] = list[j]
    BY <1>1, <1>4
<1> HIDE DEF new
<1>10. ASSUME NEW j \in 1 .. Len(new) PROVE ChrFrom(new[j], db[i].chrs[j])
  <2>1. CASE j = n + 1
      BY <1>4, <1>9, <2>1 DEF c
  <2>2. CASE j # n + 1
    <3>1. j \in 1 .. n
        BY <1>1, <1>9, <2>2
    <3>2. ChrFrom(list[j], db[i].chrs[j])
        BY <1>1, <3>1 DEF SvcFrom
    <3>3. new[j] = list[j]
        BY <1>9, <3>1
    <3> QED BY <3>2, <3>3
  <2> QED BY <2>1, <2>2
<1>11. Recorded(PutChrs(p, i, new), db)
  <2>1. Len(new) <= Len(db[i].chrs) /\ new \in Seq(Characteristic)
    <3> DEFINE all == Len(db[i].chrs)
    <3>1. n \in Nat /\ all \in Nat /\ n + 1 \in 1 .. all /\ Len(new) = n + 1
        BY <1>1, <1>9
    <3> HIDE DEF all, n
    <3>2. Len(new) <= all
        BY <3>1
    <3> QED BY <1>9, <3>2 DEF all
  <2> QED BY <1>10, <2>1, ChrsPutRecorded
<1> QED BY <1>4, <1>8, <1>9, <1>11 DEF new, x, c

LEMMA PartGrows ==
    ASSUME NEW part \in Seq(Nat), NEW all \in Seq(Nat), Ascending(all),
           Len(part) < Len(all), \A m \in 1 .. Len(part) : part[m] = all[m]
    PROVE  LET x == all[Len(part) + 1]  new == Append(part, x) IN
           /\ x \in Nat /\ new \in Seq(Nat) /\ Len(new) <= Len(all)
           /\ \A m \in 1 .. Len(new) : new[m] = all[m]
           /\ ~FoundIn(part, x) /\ LinkAfter(part, Place(part, x), x) = new
<1> DEFINE n == Len(part)
           x == all[n + 1]
           new == Append(part, x)
<1>1. n \in Nat /\ n + 1 \in 1 .. Len(all) /\ x \in Nat /\ n + 1 <= Len(all)
    OBVIOUS
<1>2. \A m \in 1 .. n : part[m] < x
  <2> SUFFICES ASSUME NEW m \in 1 .. n PROVE part[m] < x
      OBVIOUS
  <2>1. m \in 1 .. Len(all) /\ m < n + 1 /\ part[m] = all[m]
      BY <1>1
  <2> QED BY <1>1, <2>1 DEF Ascending
<1> HIDE DEF x
<1>3. Place(part, x) = n /\ ~FoundIn(part, x)
    BY <1>1, <1>2, PlaceBehind
<1>4. LinkAfter(part, n, x) = new
    BY <1>1, AddedLast
<1>5. /\ new \in Seq(Nat) /\ Len(new) = n + 1 /\ new[n + 1] = x
      /\ \A m \in 1 .. n : new[m] = part[m]
    BY <1>1
<1> HIDE DEF new
<1>6. \A m \in 1 .. n + 1 : new[m] = all[m]
  <2> SUFFICES ASSUME NEW m \in 1 .. n + 1 PROVE new[m] = all[m]
      OBVIOUS
  <2>1. CASE m = n + 1
      BY <1>5, <2>1 DEF x
  <2>2. CASE m # n + 1
    <3>1. m \in 1 .. n
        BY <1>1, <2>2
    <3> QED BY <1>5, <3>1
  <2> QED BY <2>1, <2>2
<1> QED BY <1>1, <1>3, <1>4, <1>5, <1>6 DEF x, new

LEMMA DscAdded ==
    ASSUME NEW db, IsDb(db), NEW p, Recorded(p, db),
           NEW i \in 1 .. Len(p.svcs), NEW j \in 1 .. Len(p.svcs[i].chrs),
           Len(p.svcs[i].chrs[j].dscs) < Len(db[i].chrs[j].dscs)
    PROVE  LET list == p.svcs[i].chrs[j].dscs
               x == db[i].chrs[j].dscs[Len(list) + 1]
               q == PutDscs(p, i, j, Append(list, x))
           IN  /\ x \in Nat /\ list \in Seq(Nat) /\ DscAdd(p, p.svcs[i].chrs[j].val, x) = q
               /\ Recorded(q, db)
<1> DEFINE chrs == p.svcs[i].chrs
           full == db[i].chrs
           list == chrs[j].dscs
           all == full[j].dscs
           x == all[Len(list) + 1]
           new == Append(list, x)
           c == [chrs[j] EXCEPT !.dscs = new]
           more == [chrs EXCEPT ![j] = c]
<1>1. /\ i \in 1 .. Len(db) /\ SvcFrom(p.svcs[i], db[i])
      /\ chrs \in Seq(Characteristic) /\ full \in Seq(Characteristic)
  <2>1. /\ p.svcs \in Seq(Service) /\ db \in Seq(Service)
        /\ i \in 1 .. Len(db) /\ SvcFrom(p.svcs[i], db[i])
      BY DEF Recorded, PeerRecord, IsDb
  <2>2. chrs \in Seq(Characteristic) /\ full \in Seq(Characteristic)
      BY <2>1, Shapes
  <2> QED BY <2>1, <2>2
<1>2. /\ Len(chrs) <= Len(full) /\ j \in 1 .. Len(full) /\ ChrFrom(chrs[j], full[j])
      /\ \A k \in 1 .. Len(chrs) : ChrFrom(chrs[k], full[k])
    BY <1>1 DEF SvcFrom
<1>3. \A m, n \in 1 .. Len(all) : m < n => all[m] < all[n]
    BY <1>1, <1>2, InService
<1>4. chrs[j] \in Characteristic /\ full[j] \in Characteristic
    BY <1>1, <1>2, Shapes
<1>5. /\ FirstOf(SvcRange(p, chrs[j].val)) = i /\ Place(Vals(chrs), chrs[j].val) + 1 = j
  <2>1. ChrFoundAt(p, i, j)
      BY OwnerFound
  <2> QED BY <2>1 DEF ChrFoundAt
<1>6. DscAdd(p, chrs[j].val, x) = IF FoundIn(list, x) THEN p
                                  ELSE PutDscs(p, i, j, LinkAfter(list, Place(list, x), x))
    BY <1>5 DEF DscAdd, PutDscs, PutChrs
<1>7. PutDscs(p, i, j, new) = PutChrs(p, i, more)
    BY DEF PutDscs
<1>8. Len(list) < Len(all)
    OBVIOUS
<1> HIDE DEF chrs, full
<1>9. list \in Seq(Nat) /\ all \in Seq(Nat) /\ \A m \in 1 .. Len(list) : list[m] = all[m]
    BY <1>2, <1>4 DEF Characteristic, ChrFrom
<1> HIDE DEF list, all
<1>10. /\ x \in Nat /\ new \in Seq(Nat) /\ Len(new) <= Len(all)
       /\ \A m \in 1 .. Len(new) : new[m] = all[m]
       /\ ~FoundIn(list, x) /\ LinkAfter(list, Place(list, x), x) = new
    BY <1>3, <1>8, <1>9, PartGrows DEF Ascending
<1> HIDE DEF x, new
<1>11. c \in Characteristic /\ c.dscs = new /\ c.def = chrs[j].def /\ c.val = chrs[j].val
       /\ c.uuid = chrs[j].uuid
    BY <1>4, <1>10 DEF Characteristic
<1> HIDE DEF c
<1>12. ChrFrom(c, full[j])
  <2> USE DEF all
  <2> QED BY <1>2, <1>10, <1>11 DEF ChrFrom
<1>13. /\ more \in Seq(Characteristic) /\ Len(more) = Len(chrs) /\ more[j] = c
       /\ \A k \in 1 .. Len(chrs) \ {j} : more[k] = chrs[k]
  <2>1. j \in 1 .. Len(chrs)
      BY DEF chrs
  <2> QED BY <1>1, <1>11, <2>1
<1> HIDE DEF more
<1>14. \A k \in 1 .. Len(more) : ChrFrom(more[k], full[k])
    BY <1>2, <1>12, <1>13
<1>15. Recorded(PutChrs(p, i, more), db)
    BY <1>2, <1>13, <1>14, ChrsPutRecorded DEF full
<1>16. DscAdd(p, chrs[j].val, x) = PutDscs(p, i, j, new)
    BY <1>6, <1>10
<1> QED BY <1>7, <1>9, <1>10, <1>15, <1>16 DEF x, new, list, all, chrs, full

(* One more item of an answer. *)
Onto(q) == [q EXCEPT !.pos = @ + 1]

LEMMA Counted ==
    ASSUME NEW q, IsProc(q)
    PROVE  /\ Onto(q).kind = q.kind /\ Onto(q).lo = q.lo /\ Onto(q).hi = q.hi
           /\ Onto(q).pos = q.pos + 1
  BY DEF IsProc, Onto

LEMMA FoundSvc ==
    ASSUME NEW d \in Device, NEW p, Recorded(p, Gatt[d]), NEW q, IsProc(q), Asking(p, q),
           q.kind = "svcs", q.pos < Len(Gatt[d])
    PROVE  LET x == [Gatt[d][q.pos + 1] EXCEPT !.chrs = <<>>]
               r == [p EXCEPT !.svcs = Append(p.svcs, x)]
           IN  /\ SvcAdd(p, Gatt[d][q.pos + 1]) = r /\ x.chrs = <<>>
               /\ Recorded(r, Gatt[d]) /\ Asking(r, Onto(q))
<1> DEFINE x == [Gatt[d][q.pos + 1] EXCEPT !.chrs = <<>>]
           r == [p EXCEPT !.svcs = Append(p.svcs, x)]
<1>1. IsDb(Gatt[d]) /\ q.pos = Len(p.svcs) /\ q.pos \in Nat
    BY BleNetAssumption DEF IsDb, Asking
<1>2. SvcAdd(p, Gatt[d][q.pos + 1]) = r /\ Recorded(r, Gatt[d]) /\ x.chrs = <<>>
    BY <1>1, SvcAdded
<1>3. p \in PeerRecord
    BY DEF Recorded
<1> HIDE DEF x
<1>4. r.svcs = Append(p.svcs, x) /\ Len(r.svcs) = q.pos + 1
    BY <1>1, <1>3 DEF PeerRecord
<1> HIDE DEF r
<1>5. Asking(r, Onto(q))
    BY <1>1, <1>4, Counted DEF Asking
<1> QED BY <1>2, <1>5 DEF x, r

LEMMA FoundChr ==
    ASSUME NEW d \in Device, NEW p, Recorded(p, Gatt[d]), NEW q, IsProc(q), Asking(p, q),
           q.kind = "chrs", q.pos < Len(ChrsIn(d, q.lo, q.hi))
    PROVE  \E i \in 1 .. Len(p.svcs) : \E x :
             LET r == PutChrs(p, i, Append(p.svcs[i].chrs, x)) IN
             /\ x.dscs = <<>> /\ ChrAdd(p, ChrsIn(d, q.lo, q.hi)[q.pos + 1]) = r
             /\ Append(p.svcs[i].chrs, x) \in Seq(Characteristic)
             /\ Recorded(r, Gatt[d]) /\ Asking(r, Onto(q))
<1>1. IsDb(Gatt[d]) /\ q.pos \in Nat
    BY BleNetAssumption DEF IsDb, Asking
<1>2. PICK i \in 1 .. Len(p.svcs) : AsksChrs(p, q, i)
    BY DEF Asking
<1> DEFINE list == p.svcs[i].chrs
           full == Gatt[d][i].chrs
           x    == [full[Len(list) + 1] EXCEPT !.dscs = <<>>]
           new  == Append(list, x)
           r    == PutChrs(p, i, new)
<1>3. ChrsIn(d, q.lo, q.hi) = full /\ Len(list) = q.pos /\ p.cur = p.svcs[i].start
    BY <1>2, ChrsReported DEF AsksChrs
<1>4. /\ new \in Seq(Characteristic) /\ x.dscs = <<>>
      /\ ChrAdd(p, full[Len(list) + 1]) = r /\ Recorded(r, Gatt[d])
    BY <1>1, <1>3, ChrAdded
<1>5. p \in PeerRecord /\ list \in Seq(Characteristic)
    BY Shapes DEF Recorded, PeerRecord
<1>6. Len(new) = q.pos + 1
    BY <1>3, <1>5
<1> HIDE DEF x, new
<1>7. /\ r.cur = p.cur /\ Len(r.svcs) = Len(p.svcs) /\ r.svcs[i].chrs = new
      /\ r.svcs[i].start = p.svcs[i].start /\ r.svcs[i].end = p.svcs[i].end
    BY <1>4, <1>5, ChrsPut
<1> HIDE DEF r
<1>8. AsksChrs(r, Onto(q), i)
    BY <1>2, <1>6, <1>7, Counted DEF AsksChrs
<1>9. Asking(r, Onto(q))
    BY <1>1, <1>7, <1>8, Counted DEF Asking
<1>10. ChrAdd(p, ChrsIn(d, q.lo, q.hi)[q.pos + 1]) = r
    BY <1>3, <1>4
<1> QED BY <1>4, <1>9, <1>10 DEF r, new

LEMMA FoundDsc ==
    ASSUME NEW d \in Device, NEW p, Recorded(p, Gatt[d]), NEW q, IsProc(q), Asking(p, q),
           q.kind = "dscs", q.pos < Len(DscsIn(d, q.lo, q.hi))
    PROVE  \E i \in 1 .. Len(p.svcs) : \E j \in 1 .. Len(p.svcs[i].chrs) : \E x \in Nat :
             LET r == PutDscs(p, i, j, Append(p.svcs[i].chrs[j].dscs, x)) IN
             /\ DscAdd(p, q.lo, DscsIn(d, q.lo, q.hi)[q.pos + 1]) = r
             /\ Recorded(r, Gatt[d]) /\ Asking(r, Onto(q))
<1>1. IsDb(Gatt[d]) /\ q.pos \in Nat
    BY BleNetAssumption DEF IsDb, Asking
<1>0. PICK i \in 1 .. Len(p.svcs) : \E j \in 1 .. Len(p.svcs[i].chrs) : AsksDscs(p, q, i, j)
    BY DEF Asking
<1>2. PICK j \in 1 .. Len(p.svcs[i].chrs) : AsksDscs(p, q, i, j)
    BY <1>0
<1> DEFINE chrs  == p.svcs[i].chrs
           list  == chrs[j].dscs
           full  == Gatt[d][i].chrs[j].dscs
           found == DscsIn(d, q.lo, q.hi)
           x     == full[Len(list) + 1]
           new   == Append(list, x)
           r     == PutDscs(p, i, j, new)
<1>3. Len(found) \in 0 .. Len(full) /\ \A m \in 1 .. Len(found) : found[m] = full[m]
    BY <1>2, DscsReported
<1>4. Len(list) = q.pos /\ q.lo = chrs[j].val /\ q.hi = ChrEnd(p.svcs[i], j)
    BY <1>2 DEF AsksDscs
<1>5. p \in PeerRecord /\ chrs \in Seq(Characteristic) /\ chrs[j] \in Characteristic /\ list \in Seq(Nat)
    BY Shapes DEF Recorded, PeerRecord
<1>6. Len(full) \in Nat
  <2>1. i \in 1 .. Len(Gatt[d]) /\ SvcFrom(p.svcs[i], Gatt[d][i]) /\ Gatt[d] \in Seq(Service)
      BY <1>1 DEF Recorded, PeerRecord, IsDb
  <2>2. j \in 1 .. Len(Gatt[d][i].chrs) /\ Gatt[d][i].chrs \in Seq(Characteristic)
      BY <1>5, <2>1, Shapes DEF SvcFrom
  <2>3. full \in Seq(Nat)
      BY <2>2, Shapes
  <2> HIDE DEF full
  <2> QED BY <2>3
<1>7. Len(list) < Len(full) /\ found[q.pos + 1] = x
  <2> DEFINE pos == q.pos  most == Len(full)  some == Len(found)
  <2>1. pos \in Nat /\ most \in Nat /\ some \in 0 .. most /\ pos < some /\ Len(list) = pos
      BY <1>1, <1>3, <1>4, <1>6
  <2> HIDE DEF pos, most, some
  <2>2. pos < most /\ pos + 1 \in 1 .. some
      BY <2>1
  <2>3. found[pos + 1] = full[pos + 1]
      BY <1>3, <2>2 DEF some
  <2>4. Len(list) < most
      BY <2>1, <2>2
  <2> QED BY <1>4, <2>3, <2>4 DEF pos, most
<1>8. /\ x \in Nat /\ list \in Seq(Nat) /\ DscAdd(p, chrs[j].val, x) = r
      /\ Recorded(r, Gatt[d])
    BY <1>1, <1>7, DscAdded
<1> HIDE DEF x
<1>9. new \in Seq(Nat) /\ Len(new) = q.pos + 1
  <2>1. list \in Seq(Nat) /\ x \in Nat /\ Len(list) = q.pos
      BY <1>4, <1>8
  <2> HIDE DEF list
  <2> QED BY <2>1
<1> HIDE DEF new
<1> DEFINE c    == [chrs[j] EXCEPT !.dscs = new]
           more == [chrs EXCEPT ![j] = c]
<1>10. c \in Characteristic /\ c.dscs = new /\ c.val = chrs[j].val
    BY <1>5, <1>9 DEF Characteristic
<1> HIDE DEF c
<1>11. /\ more \in Seq(Characteristic) /\ Len(more) = Len(chrs) /\ more[j] = c
       /\ \A k \in 1 .. Len(chrs) \ {j} : more[k] = chrs[k]
    BY <1>5, <1>10
<1>12. r = PutChrs(p, i, more)
    BY DEF PutDscs, c
<1> HIDE DEF more, r
<1>13. /\ Len(r.svcs) = Len(p.svcs) /\ r.svcs[i].chrs = more /\ r.svcs[i].end = p.svcs[i].end
    BY <1>5, <1>11, <1>12, ChrsPut
<1>14. ChrEnd(r.svcs[i], j) = ChrEnd(p.svcs[i], j)
    BY <1>5, <1>11, <1>13 DEF ChrEnd
<1>15. AsksDscs(r, Onto(q), i, j)
    BY <1>4, <1>9, <1>10, <1>11, <1>13, <1>14, Counted DEF AsksDscs
<1>16. Asking(r, Onto(q))
  <2>1. i \in 1 .. Len(r.svcs) /\ j \in 1 .. Len(r.svcs[i].chrs)
      BY <1>11, <1>13
  <2>2. Onto(q).kind = "dscs" /\ Onto(q).pos \in Nat
      BY <1>1, Counted
  <2> QED BY <1>15, <2>1, <2>2 DEF Asking
<1>17. DscAdd(p, q.lo, found[q.pos + 1]) = r
    BY <1>4, <1>7, <1>8
<1> QED BY <1>8, <1>16, <1>17 DEF r, new

LEMMA FirstPair ==
    ASSUME NEW S, S \subseteq Nat \X Nat, S # {}
    PROVE  FirstChr(S) \in S
<1>1. PICK i \in { a[1] : a \in S } : \A k \in { a[1] : a \in S } : i <= k
  <2>1. { a[1] : a \in S } \subseteq Nat /\ { a[1] : a \in S } # {}
      OBVIOUS
  <2> QED BY <2>1, Least
<1> DEFINE T == { a[2] : a \in { b \in S : b[1] = i } }
<1>2. PICK j \in T : \A k \in T : j <= k
  <2>1. T \subseteq Nat /\ T # {}
      BY <1>1
  <2> HIDE DEF T
  <2> QED BY <2>1, Least
<1>3. PICK a \in S : a[1] = i /\ a[2] = j
    BY <1>2
<1>4. \A b \in S : b[1] \in Nat /\ b[2] \in Nat
    OBVIOUS
<1>5. \A b \in S : i <= b[1] /\ (b[1] = i => j <= b[2])
    BY <1>1, <1>2
<1>6. \A b \in S : a[1] < b[1] \/ (a[1] = b[1] /\ a[2] <= b[2])
    BY <1>3, <1>4, <1>5
<1> QED BY <1>6 DEF FirstChr

-----------------------------------------------------------------------------
(* Steps.  Whom a record is about, and what it takes to change it.         *)
LEMMA PeerOf ==
    ASSUME TableInv, PeerInv, NEW h \in Handle, proc[h].kind # "none"
    PROVE  /\ link[h] \in Device /\ peer[h] # NoPeer /\ IsProc(proc[h])
           /\ Recorded(peer[h], Gatt[link[h]]) /\ Asking(peer[h], proc[h])
<1>1. peer[h] # NoPeer /\ Asking(peer[h], proc[h]) /\ Recorded(peer[h], Gatt[link[h]]) /\ link[h] # NoDev
    BY DEF PeerInv
<1>2. IsProc(proc[h])
    BY DEF TableInv, ProcInv
<1>3. link[h] \in Device
    BY <1>1 DEF TableInv, GapType
<1> QED BY <1>1, <1>2, <1>3

LEMMA PeerPut ==
    ASSUME TableInv, PeerInv, NEW h \in Handle, NEW r, NEW q,
           link[h] \in Device, Recorded(r, Gatt[link[h]]), q.kind # "none" => Asking(r, q),
           peer' = [peer EXCEPT ![h] = r], proc' = [proc EXCEPT ![h] = q], link' = link
    PROVE  PeerInv'
<1>1. /\ peer = [k \in Handle |-> peer[k]] /\ proc = [k \in Handle |-> proc[k]]
      /\ \A k \in Handle :
           /\ link[k] = NoDev => peer[k] = NoPeer
           /\ peer[k] # NoPeer => Recorded(peer[k], Gatt[link[k]])
           /\ proc[k].kind # "none" => peer[k] # NoPeer /\ Asking(peer[k], proc[k])
    BY DEF PeerInv, TableInv, ProcInv
<1>2. /\ peer'[h] = r /\ proc'[h] = q /\ peer' = [k \in Handle |-> peer'[k]]
      /\ \A k \in Handle \ {h} : peer'[k] = peer[k] /\ proc'[k] = proc[k]
    BY <1>1
<1>3. r # NoPeer /\ link[h] # NoDev
    BY BleNetAssumption DEF Recorded
<1>4. ASSUME NEW k \in Handle
      PROVE  /\ link[k] = NoDev => peer'[k] = NoPeer
             /\ peer'[k] # NoPeer => Recorded(peer'[k], Gatt[link[k]])
             /\ proc'[k].kind # "none" => peer'[k] # NoPeer /\ Asking(peer'[k], proc'[k])
  <2>1. CASE k = h
      BY <1>2, <1>3, <2>1
  <2>2. CASE k # h
      BY <1>1, <1>2, <2>2
  <2> QED BY <2>1, <2>2
<1> QED BY <1>2, <1>4 DEF PeerInv

LEMMA PeerGone ==
    ASSUME TableInv, PeerInv, NEW h \in Handle, PeerDelete(h), proc'[h].kind = "none",
           \A k \in Handle \ {h} : proc'[k] = proc[k] /\ link'[k] = link[k]
    PROVE  PeerInv'
<1>1. peer = [k \in Handle |-> peer[k]]
    BY DEF PeerInv
<1>2. peer' = [peer EXCEPT ![h] = NoPeer]
    BY <1>1 DEF PeerDelete
<1>3. /\ peer' = [k \in Handle |-> peer'[k]] /\ peer'[h] = NoPeer
      /\ \A k \in Handle \ {h} : peer'[k] = peer[k]
    BY <1>1, <1>2
<1>4. ASSUME NEW k \in Handle
      PROVE  /\ link'[k] = NoDev => peer'[k] = NoPeer
             /\ peer'[k] # NoPeer => Recorded(peer'[k], Gatt[link'[k]])
             /\ proc'[k].kind # "none" => peer'[k] # NoPeer /\ Asking(peer'[k], proc'[k])
  <2>1. CASE k = h
      BY <1>3, <2>1
  <2>2. CASE k # h
      BY <1>3, <2>2 DEF PeerInv
  <2> QED BY <2>1, <2>2
<1> QED BY <1>3, <1>4 DEF PeerInv

LEMMA PeerFound ==
    ASSUME TableInv, PeerInv, NEW h \in Handle, Found(h), ~FailDiscovery(h)
    PROVE  PeerInv'
<1> DEFINE p  == peer[h]
           q  == proc[h]
           d  == link[h]
           r  == Added(h, Report(h)[q.pos + 1])
<1>1. q.kind # "none"
    BY ProcSteps DEF Discover, TableInv
<1>2. /\ d \in Device /\ p # NoPeer /\ IsProc(q) /\ Recorded(p, Gatt[d]) /\ Asking(p, q)
    BY <1>1, PeerOf
<1>3. q.pos < Len(Report(h))
    BY DEF Found
<1>4. Recorded(r, Gatt[d]) /\ Asking(r, Onto(q))
  <2>1. CASE q.kind = "svcs"
    <3>1. Report(h) = Gatt[d] /\ r = SvcAdd(p, Gatt[d][q.pos + 1])
        BY <2>1 DEF Report, Added
    <3>2. q.pos < Len(Gatt[d])
        BY <1>3, <3>1
    <3> DEFINE x == [Gatt[d][q.pos + 1] EXCEPT !.chrs = <<>>]
               s == [p EXCEPT !.svcs = Append(p.svcs, x)]
    <3>3. /\ SvcAdd(p, Gatt[d][q.pos + 1]) = s /\ x.chrs = <<>>
          /\ Recorded(s, Gatt[d]) /\ Asking(s, Onto(q))
        BY <1>2, <2>1, <3>2, FoundSvc
    <3> HIDE DEF s, p, q, r
    <3> QED BY <3>1, <3>3
  <2>2. CASE q.kind = "chrs"
    <3>1. /\ Report(h) = ChrsIn(d, q.lo, q.hi)
          /\ r = ChrAdd(p, ChrsIn(d, q.lo, q.hi)[q.pos + 1])
        BY <2>2 DEF Report, Added
    <3>2. q.pos < Len(ChrsIn(d, q.lo, q.hi))
        BY <1>3, <3>1
    <3> HIDE DEF p, q, r
    <3>3. PICK i \in 1 .. Len(p.svcs) : \E x :
             LET s == PutChrs(p, i, Append(p.svcs[i].chrs, x)) IN
             /\ x.dscs = <<>> /\ ChrAdd(p, ChrsIn(d, q.lo, q.hi)[q.pos + 1]) = s
             /\ Append(p.svcs[i].chrs, x) \in Seq(Characteristic)
             /\ Recorded(s, Gatt[d]) /\ Asking(s, Onto(q))
        BY <1>2, <2>2, <3>2, FoundChr
    <3> QED BY <3>1, <3>3
  <2>3. CASE q.kind = "dscs"
    <3>1. /\ Report(h) = DscsIn(d, q.lo, q.hi)
          /\ r = DscAdd(p, q.lo, DscsIn(d, q.lo, q.hi)[q.pos + 1])
        BY <2>3 DEF Report, Added
    <3>2. q.pos < Len(DscsIn(d, q.lo, q.hi))
        BY <1>3, <3>1
    <3> HIDE DEF p, q, r
    <3>3. \E i \in 1 .. Len(p.svcs) : \E j \in 1 .. Len(p.svcs[i].chrs) : \E x \in Nat :
             LET s == PutDscs(p, i, j, Append(p.svcs[i].chrs[j].dscs, x)) IN
             /\ DscAdd(p, q.lo, DscsIn(d, q.lo, q.hi)[q.pos + 1]) = s
             /\ Recorded(s, Gatt[d]) /\ Asking(s, Onto(q))
        BY <1>2, <2>3, <3>2, FoundDsc
    <3> QED BY <3>1, <3>3
  <2> QED BY <1>2, <2>1, <2>2, <2>3 DEF Asking
<1>5. /\ peer' = [peer EXCEPT ![h] = r] /\ link' = link
      /\ proc' = [proc EXCEPT ![h].pos = @ + 1]
    BY DEF Found, gap
<1>6. proc' = [proc EXCEPT ![h] = Onto(q)]
    BY <1>5 DEF Onto
<1> HIDE DEF r
<1> QED BY <1>2, <1>4, <1>5, <1>6, PeerPut

LEMMA Prevs ==
    ASSUME NEW p, NEW db, Recorded(p, db), NEW x \in Nat
    PROVE  /\ Recorded([p EXCEPT !.prev = x], db) /\ [p EXCEPT !.prev = x].svcs = p.svcs
           /\ [p EXCEPT !.prev = x].cur = p.cur
           /\ Recorded([p EXCEPT !.cur = x], db) /\ [p EXCEPT !.cur = x].svcs = p.svcs
           /\ [p EXCEPT !.cur = x].cur = x
<1>1. p = [svcs |-> p.svcs, cur |-> p.cur, prev |-> p.prev] /\ p \in PeerRecord
    BY DEF Recorded, PeerRecord
<1> DEFINE r == [p EXCEPT !.prev = x]
           s == [p EXCEPT !.cur = x]
<1>2. r \in PeerRecord /\ r.svcs = p.svcs /\ r.cur = p.cur
    BY <1>1 DEF PeerRecord
<1>3. s \in PeerRecord /\ s.svcs = p.svcs /\ s.cur = x
    BY <1>1 DEF PeerRecord
<1> HIDE DEF r, s
<1>4. Recorded(r, db) /\ Recorded(s, db)
    BY <1>2, <1>3 DEF Recorded
<1> QED BY <1>2, <1>3, <1>4 DEF r, s

LEMMA Asked ==
    ASSUME NEW kind, NEW lo, NEW hi
    PROVE  /\ Ask(kind, lo, hi).kind = kind /\ Ask(kind, lo, hi).lo = lo
           /\ Ask(kind, lo, hi).hi = hi /\ Ask(kind, lo, hi).pos = 0
           /\ [Ask(kind, lo, hi) EXCEPT !.turn = 1].kind = kind
           /\ [Ask(kind, lo, hi) EXCEPT !.turn = 1].lo = lo
           /\ [Ask(kind, lo, hi) EXCEPT !.turn = 1].hi = hi
           /\ [Ask(kind, lo, hi) EXCEPT !.turn = 1].pos = 0
  BY DEF Ask

(* The characteristic that is asked about next. *)
LEMMA NextChr ==
    ASSUME NEW p \in PeerRecord, OpenChrs(p) # {}
    PROVE  LET ij == FirstChr(OpenChrs(p)) IN
           /\ ij[1] \in 1 .. Len(p.svcs) /\ ij[2] \in 1 .. Len(p.svcs[ij[1]].chrs)
           /\ p.svcs[ij[1]].chrs[ij[2]].dscs = <<>>
           /\ p.svcs[ij[1]].chrs[ij[2]].val \in Nat
<1> DEFINE open == OpenChrs(p)
           ij   == FirstChr(open)
           chr  == p.svcs[ij[1]].chrs[ij[2]]
<1>1. p.svcs \in Seq(Service) /\ DOMAIN p.svcs = 1 .. Len(p.svcs)
    BY DEF PeerRecord
<1>2. \A i \in DOMAIN p.svcs : /\ p.svcs[i].chrs \in Seq(Characteristic)
                               /\ DOMAIN p.svcs[i].chrs = 1 .. Len(p.svcs[i].chrs)
    BY <1>1, Shapes
<1>3. ij \in open
  <2>1. open \subseteq Nat \X Nat
      BY <1>1, <1>2 DEF OpenChrs, ChrBlocks
  <2> QED BY <2>1, FirstPair
<1> HIDE DEF ij
<1>4. ij \in ChrBlocks(p) /\ chr.dscs = <<>>
    BY <1>3 DEF OpenChrs
<1>5. ij[1] \in 1 .. Len(p.svcs) /\ ij[2] \in 1 .. Len(p.svcs[ij[1]].chrs)
    BY <1>1, <1>2, <1>4 DEF ChrBlocks
<1>6. chr.val \in Nat
    BY <1>1, <1>2, <1>5, Shapes
<1> QED BY <1>4, <1>5, <1>6 DEF ij

LEMMA PeerAsksDscs ==
    ASSUME TableInv, PeerInv, NEW h \in Handle, proc[h].kind # "none",
           DiscDscs(h), ~FailDiscovery(h)
    PROVE  PeerInv'
<1> DEFINE p == peer[h]
           open == OpenChrs(p)
           ij   == FirstChr(open)
           svc  == p.svcs[ij[1]]
           chr  == svc.chrs[ij[2]]
<1>1. link[h] \in Device /\ Recorded(p, Gatt[link[h]])
    BY PeerOf
<1>2. CASE open = {}
  <2>1. /\ peer' = [peer EXCEPT ![h].prev = 0] /\ link' = link
        /\ proc' = [proc EXCEPT ![h] = NoProc]
      BY <1>2 DEF DiscDscs, CompleteOk
  <2>2. peer' = [peer EXCEPT ![h] = [p EXCEPT !.prev = 0]]
      BY <2>1
  <2>3. Recorded([p EXCEPT !.prev = 0], Gatt[link[h]])
      BY <1>1, Prevs
  <2>4. NoProc.kind = "none"
      BY DEF NoProc, Ask
  <2> QED BY <1>1, <2>1, <2>2, <2>3, <2>4, PeerPut
<1>3. CASE open # {}
  <2>1. /\ proc' = [proc EXCEPT ![h] = Ask("dscs", chr.val, ChrEnd(svc, ij[2]))]
        /\ peer' = [peer EXCEPT ![h].prev = chr.val] /\ link' = link
      BY <1>3 DEF DiscDscs, gap
  <2>2. peer' = [peer EXCEPT ![h] = [p EXCEPT !.prev = chr.val]]
      BY <2>1
  <2>3. p \in PeerRecord
      BY <1>1 DEF Recorded
  <2>7. /\ ij[1] \in 1 .. Len(p.svcs) /\ ij[2] \in 1 .. Len(svc.chrs)
        /\ chr.dscs = <<>> /\ chr.val \in Nat
      BY <1>3, <2>3, NextChr
  <2> HIDE DEF ij
  <2> DEFINE r == [p EXCEPT !.prev = chr.val]
             q == Ask("dscs", chr.val, ChrEnd(svc, ij[2]))
  <2>9. Recorded(r, Gatt[link[h]]) /\ r.svcs = p.svcs
      BY <1>1, <2>7, Prevs
  <2>10. q.kind = "dscs" /\ q.lo = chr.val /\ q.hi = ChrEnd(svc, ij[2]) /\ q.pos = 0
    <3> DEFINE lo == chr.val
               hi == ChrEnd(svc, ij[2])
    <3> HIDE DEF lo, hi
    <3>1. /\ Ask("dscs", lo, hi).kind = "dscs" /\ Ask("dscs", lo, hi).lo = lo
          /\ Ask("dscs", lo, hi).hi = hi /\ Ask("dscs", lo, hi).pos = 0
        BY DEF Ask
    <3> QED BY <3>1 DEF lo, hi
  <2> HIDE DEF q, r
  <2>11. Len(chr.dscs) = 0
      BY <2>7
  <2>12. AsksDscs(r, q, ij[1], ij[2])
      BY <2>9, <2>10, <2>11 DEF AsksDscs
  <2>13. ij[1] \in 1 .. Len(r.svcs) /\ ij[2] \in 1 .. Len(r.svcs[ij[1]].chrs)
      BY <2>7, <2>9
  <2>14. Asking(r, q)
      BY <2>10, <2>12, <2>13 DEF Asking
  <2>15. peer' = [peer EXCEPT ![h] = r] /\ proc' = [proc EXCEPT ![h] = q]
      BY <2>1, <2>2 DEF r, q
  <2> QED BY <1>1, <2>1, <2>9, <2>14, <2>15, PeerPut
<1> QED BY <1>2, <1>3

LEMMA PeerAsksChrs ==
    ASSUME TableInv, PeerInv, NEW h \in Handle, proc[h].kind # "none",
           DiscChrs(h), ~FailDiscovery(h)
    PROVE  PeerInv'
<1> DEFINE p == peer[h]
           open == OpenSvcs(p)
           i    == FirstOf(open)
           svc  == p.svcs[i]
<1>1. link[h] \in Device /\ Recorded(p, Gatt[link[h]])
    BY PeerOf
<1>2. CASE open = {}
  <2>1. DiscDscs(h)
      BY <1>2 DEF DiscChrs
  <2> QED BY <2>1, PeerAsksDscs
<1>3. CASE open # {}
  <2> DEFINE ask == Ask("chrs", svc.start, svc.end)
             q   == IF ask = proc[h] THEN [ask EXCEPT !.turn = 1] ELSE ask
             r   == [p EXCEPT !.cur = svc.start]
  <2>1. /\ proc' = [proc EXCEPT ![h] = q]
        /\ peer' = [peer EXCEPT ![h].cur = svc.start] /\ link' = link
      BY <1>3 DEF DiscChrs, gap
  <2>2. peer' = [peer EXCEPT ![h] = r]
      BY <2>1
  <2>3. p.svcs \in Seq(Service) /\ open \subseteq 1 .. Len(p.svcs) /\ open \subseteq Nat
      BY <1>1 DEF Recorded, PeerRecord, OpenSvcs
  <2>4. i \in open
      BY <1>3, <2>3, First
  <2> HIDE DEF i
  <2>5. i \in 1 .. Len(p.svcs) /\ svc.chrs = <<>> /\ svc.start \in Nat
      BY <2>3, <2>4, Shapes DEF OpenSvcs
  <2>6. q.kind = "chrs" /\ q.lo = svc.start /\ q.hi = svc.end /\ q.pos = 0
      BY Asked
  <2>7. Recorded(r, Gatt[link[h]]) /\ r.svcs = p.svcs /\ r.cur = svc.start
      BY <1>1, <2>5, Prevs
  <2> HIDE DEF q, r
  <2>8. Len(svc.chrs) = 0
      BY <2>5
  <2>9. AsksChrs(r, q, i)
      BY <2>6, <2>7, <2>8 DEF AsksChrs
  <2>10. Asking(r, q)
    <3>1. i \in 1 .. Len(r.svcs)
        BY <2>5, <2>7
    <3> QED BY <2>6, <2>9, <3>1 DEF Asking
  <2> QED BY <1>1, <2>1, <2>2, <2>7, <2>10, PeerPut
<1> QED BY <1>2, <1>3

LEMMA PeerDiscovers ==
    ASSUME TableInv, PeerInv, NEW h \in Handle, Discover(h)
    PROVE  PeerInv'
<1>1. /\ proc[h].kind # "none" /\ \A k \in Handle \ {h} : proc'[k] = proc[k]
      /\ proc = [k \in Handle |-> proc[k]]
    BY ProcSteps DEF TableInv, ProcInv
<1>2. CASE FailDiscovery(h)
  <2>1. PeerDelete(h) /\ proc' = [proc EXCEPT ![h] = NoProc] /\ link' = link
      BY <1>2 DEF FailDiscovery
  <2>2. proc'[h].kind = "none"
      BY <1>1, <2>1 DEF NoProc, Ask
  <2> QED BY <1>1, <2>1, <2>2, PeerGone
<1>3. CASE Done(h) /\ ~FailDiscovery(h)
  <2>1. CASE peer[h].prev = 0
    <3>1. proc' = [proc EXCEPT ![h] = NoProc] /\ peer' = peer /\ link' = link
        BY <1>3, <2>1 DEF Done, gap
    <3>2. link[h] \in Device /\ Recorded(peer[h], Gatt[link[h]])
        BY <1>1, PeerOf
    <3>3. peer' = [peer EXCEPT ![h] = peer[h]] /\ NoProc.kind = "none"
        BY <3>1 DEF PeerInv, NoProc, Ask
    <3> QED BY <3>1, <3>2, <3>3, PeerPut
  <2>2. CASE peer[h].prev # 0
      BY <1>1, <1>3, <2>2, PeerAsksDscs, PeerAsksChrs DEF Done
  <2> QED BY <2>1, <2>2
<1> QED BY <1>2, <1>3, PeerFound DEF Discover, ProcFails

LEMMA PeerConnects ==
    ASSUME TableInv, PeerInv, NEW h \in Handle, Connected(h)
    PROVE  PeerInv'
<1>1. /\ link[h] = NoDev /\ connecting # NoDev /\ link' = [link EXCEPT ![h] = connecting]
    BY DEF Connected
<1>2. /\ connecting \in Device /\ link \in [Handle -> Device \cup {NoDev}]
      /\ proc = [k \in Handle |-> proc[k]] /\ peer = [k \in Handle |-> peer[k]]
      /\ proc[h].kind = "none" /\ peer[h] = NoPeer
    BY <1>1 DEF TableInv, GapType, ProcInv, LinkInv, PeerInv
<1>3. link'[h] = connecting /\ \A k \in Handle \ {h} : link'[k] = link[k]
    BY <1>1, <1>2
<1>4. /\ peer' = peer \/ peer' = [peer EXCEPT ![h] = NewPeer]
      /\ proc' = proc \/ (proc' = [proc EXCEPT ![h] = AskSvcs] /\ peer' # peer)
  <2>1. CASE pool.peer = 0
      BY <1>2, <2>1 DEF Connected
  <2>2. CASE pool.peer # 0
    <3>1. NewPeer # NoPeer
      <4>1. NewPeer \in PeerRecord
          BY DEF NewPeer, PeerRecord
      <4> QED BY <4>1, BleNetAssumption
    <3>2. peer' = [peer EXCEPT ![h] = NewPeer]
        BY <1>2, <2>2 DEF Connected
    <3>3. peer' # peer
        BY <1>2, <3>1, <3>2
    <3>4. proc' = proc \/ proc' = [proc EXCEPT ![h] = AskSvcs]
        BY <1>2, <2>2 DEF Connected
    <3> QED BY <3>2, <3>3, <3>4
  <2> QED BY <2>1, <2>2
<1>5. /\ peer' = [k \in Handle |-> peer'[k]]
      /\ peer'[h] \in {NoPeer, NewPeer} /\ proc'[h] \in {proc[h], AskSvcs}
      /\ proc'[h].kind # "none" => peer'[h] = NewPeer
      /\ \A k \in Handle \ {h} : peer'[k] = peer[k] /\ proc'[k] = proc[k]
    BY <1>2, <1>4
<1>6. Recorded(NewPeer, Gatt[connecting]) /\ NewPeer # NoPeer
  <2>1. NewPeer \in PeerRecord /\ Len(NewPeer.svcs) = 0
      BY DEF NewPeer, PeerRecord
  <2>2. Len(Gatt[connecting]) \in Nat
      BY <1>2, BleNetAssumption
  <2> QED BY <2>1, <2>2, BleNetAssumption DEF Recorded
<1>7. Asking(NewPeer, AskSvcs)
    BY DEF Asking, NewPeer, AskSvcs, Ask
<1>8. ASSUME NEW k \in Handle
      PROVE  /\ link'[k] = NoDev => peer'[k] = NoPeer
             /\ peer'[k] # NoPeer => Recorded(peer'[k], Gatt[link'[k]])
             /\ proc'[k].kind # "none" => peer'[k] # NoPeer /\ Asking(peer'[k], proc'[k])
  <2>1. CASE k = h
      BY <1>1, <1>2, <1>3, <1>5, <1>6, <1>7, <2>1
  <2>2. CASE k # h
      BY <1>3, <1>5, <2>2 DEF PeerInv
  <2> QED BY <2>1, <2>2
<1> QED BY <1>5, <1>8 DEF PeerInv

LEMMA PeerStep ==
    ASSUME TableInv, PeerInv, [Next]_vars
    PROVE  PeerInv'
<1>1. ASSUME NEW h \in Handle, Disconnect(h) PROVE PeerInv'
  <2>1. /\ PeerDelete(h) /\ proc' = proc /\ proc[h].kind = "none"
        /\ link' = [link EXCEPT ![h] = NoDev]
      BY <1>1 DEF Disconnect
  <2>2. \A k \in Handle \ {h} : link'[k] = link[k]
      BY <2>1 DEF TableInv, GapType
  <2> QED BY <2>1, <2>2, PeerGone
<1>2. CASE UNCHANGED <<link, peer, proc>>
    BY <1>2 DEF PeerInv
<1>3. CASE (\E d \in Device : Advertise(d)) \/ ConnectFailed \/ UNCHANGED vars
    BY <1>2, <1>3 DEF Advertise, ConnectFailed, vars
<1> QED BY <1>1, <1>3, PeerConnects, PeerDiscovers DEF Next

(* No callback meets a freed peer, and none fails the asserts of           *)
(* peer_chr_add and peer_dsc_add, whatever the databases of the devices.   *)
THEOREM DiscoveryIsOwned == MgrSpec => []DiscoveryOwnsPeer
<1>1. MgrInit => TableInv /\ PeerInv
    BY TableStart DEF MgrInit, Init, PeerInv, NoProc, Ask
<1>2. TableInv /\ PeerInv /\ [MgrNext]_mgrVars => (TableInv /\ PeerInv)'
    BY NetSteps, TableStep, PeerStep
<1>3. TableInv /\ PeerInv => DiscoveryOwnsPeer
  <2> SUFFICES ASSUME TableInv, PeerInv, NEW h \in Handle, proc[h].kind # "none"
               PROVE  /\ peer[h] # NoPeer
                      /\ proc[h].kind = "chrs" => FoundIn(Starts(peer[h].svcs), peer[h].cur)
                      /\ proc[h].kind = "dscs" => OwnerKnown(peer[h], proc[h].lo)
      BY DEF DiscoveryOwnsPeer
  <2> DEFINE p == peer[h]
             q == proc[h]
             db == Gatt[link[h]]
  <2>1. p # NoPeer /\ Asking(p, q) /\ Recorded(p, db) /\ IsDb(db)
      BY PeerOf, BleNetAssumption DEF IsDb
  <2> HIDE DEF p, q, db
  <2>2. CASE q.kind = "chrs"
    <3>1. PICK i \in 1 .. Len(p.svcs) : AsksChrs(p, q, i)
        BY <2>1, <2>2 DEF Asking
    <3>2. FoundIn(Starts(p.svcs), p.svcs[i].start) /\ p.cur = p.svcs[i].start
        BY <2>1, <3>1, OwnerFound DEF AsksChrs
    <3> QED BY <2>1, <2>2, <3>2 DEF p, q
  <2>3. CASE q.kind = "dscs"
    <3>1. PICK i \in 1 .. Len(p.svcs) : \E j \in 1 .. Len(p.svcs[i].chrs) : AsksDscs(p, q, i, j)
        BY <2>1, <2>3 DEF Asking
    <3>2. PICK j \in 1 .. Len(p.svcs[i].chrs) : AsksDscs(p, q, i, j)
        BY <3>1
    <3>0. IsDb(db) /\ Recorded(p, db)
        BY <2>1
    <3>3. ChrFoundAt(p, i, j)
        BY <3>0, OwnerFound
    <3>4. q.lo = p.svcs[i].chrs[j].val
        BY <3>2 DEF AsksDscs
    <3>5. OwnerKnown(p, q.lo)
        BY <3>3, <3>4 DEF OwnerKnown, ChrFoundAt
    <3> QED BY <2>1, <2>3, <3>5 DEF p, q
  <2> QED BY <2>1, <2>2, <2>3 DEF p, q
<1> QED BY <1>1, <1>2, <1>3, PTL DEF MgrSpec

-----------------------------------------------------------------------------
(* The attribute to write to is a number that the database of the device   *)
(* linked now gives its characteristic.                                    *)
Gives(db, su, cu, v) ==
    \E i \in DOMAIN db : \E j \in DOMAIN db[i].chrs :
        db[i].uuid = su /\ db[i].chrs[j].uuid = cu /\ db[i].chrs[j].val = v

LEMMA ValGiven ==
    ASSUME NEW db, IsDb(db), NEW p, Recorded(p, db), NEW su, NEW cu
    PROVE  LET v == ValByUuid(p, su, cu) IN v \in Nat /\ (v # 0 => Gives(db, su, cu, v))
<1> DEFINE is == { i \in 1 .. Len(p.svcs) : p.svcs[i].uuid = su }
           at == FirstOf(is)
           list == p.svcs[at].chrs
           js == { j \in 1 .. Len(list) : list[j].uuid = cu }
           to == FirstOf(js)
<1>1. ValByUuid(p, su, cu) = IF is = {} THEN 0 ELSE IF js = {} THEN 0 ELSE list[to].val
    BY DEF ValByUuid
<1>2. CASE is = {} \/ js = {}
  <2>1. ValByUuid(p, su, cu) = 0
      BY <1>1, <1>2
  <2> QED BY <2>1
<1>3. CASE is # {} /\ js # {}
  <2>1. /\ p.svcs \in Seq(Service) /\ db \in Seq(Service) /\ DOMAIN db = 1 .. Len(db)
        /\ \A k \in 1 .. Len(p.svcs) : k \in 1 .. Len(db) /\ SvcFrom(p.svcs[k], db[k])
      BY DEF Recorded, PeerRecord, IsDb
  <2>2. at \in is
    <3>1. is \subseteq Nat
        BY <2>1
    <3> QED BY <1>3, <3>1, First
  <2> HIDE DEF at
  <2>3. /\ at \in 1 .. Len(p.svcs) /\ p.svcs[at].uuid = su /\ at \in 1 .. Len(db)
        /\ SvcFrom(p.svcs[at], db[at])
      BY <2>1, <2>2
  <2>4. list \in Seq(Characteristic) /\ db[at].chrs \in Seq(Characteristic)
      BY <2>1, <2>3, Shapes
  <2>5. to \in js
    <3>1. js \subseteq Nat
        BY <2>4
    <3> QED BY <1>3, <3>1, First
  <2> HIDE DEF to
  <2>6. /\ to \in 1 .. Len(list) /\ list[to].uuid = cu /\ list[to].val \in Nat
      BY <2>4, <2>5, Shapes
  <2>7. /\ to \in 1 .. Len(db[at].chrs) /\ DOMAIN db[at].chrs = 1 .. Len(db[at].chrs)
        /\ ChrFrom(list[to], db[at].chrs[to])
      BY <2>3, <2>4, <2>6 DEF SvcFrom
  <2>8. /\ db[at].uuid = su /\ db[at].chrs[to].uuid = cu
        /\ db[at].chrs[to].val = list[to].val
      BY <2>3, <2>6, <2>7 DEF SvcFrom, ChrFrom
  <2>9. Gives(db, su, cu, list[to].val)
      BY <2>1, <2>3, <2>7, <2>8 DEF Gives
  <2> QED BY <1>1, <1>3, <2>6, <2>9
<1> QED BY <1>2, <1>3

AttrInv == attr \in [Handle -> Nat] /\ AttributeIsCurrent

LEMMA AttrGiven ==
    AttributeIsCurrent =
      (\A h \in Handle : attr[h] # 0 =>
         link[h] # NoDev /\ Gives(Gatt[link[h]], "spp_svc", "spp_chr", attr[h]))
  BY DEF AttributeIsCurrent, Gives, IsSpp

LEMMA AttrKept ==
    ASSUME AttrInv, NEW h \in Handle, \A k \in Handle \ {h} : attr'[k] = attr[k] /\ link'[k] = link[k],
           attr' \in [Handle -> Nat],
           attr'[h] # 0 => /\ link'[h] # NoDev
                           /\ Gives(Gatt[link'[h]], "spp_svc", "spp_chr", attr'[h])
    PROVE  AttrInv'
<1>1. ASSUME NEW k \in Handle, attr'[k] # 0
      PROVE  link'[k] # NoDev /\ Gives(Gatt[link'[k]], "spp_svc", "spp_chr", attr'[k])
    BY <1>1, AttrGiven DEF AttrInv
<1>2. AttributeIsCurrent'
    BY <1>1 DEF AttributeIsCurrent, Gives, IsSpp
<1> QED BY <1>2 DEF AttrInv

LEMMA AttrDiscovers ==
    ASSUME NEW h \in Handle, Discover(h)
    PROVE  /\ link' = link
           /\ \/ attr' = attr
              \/ LET val == ValByUuid(peer[h], "spp_svc", "spp_chr")
                 IN  val # 0 /\ attr' = [attr EXCEPT ![h] = val]
<1> DEFINE val == ValByUuid(peer[h], "spp_svc", "spp_chr")
           goal == link' = link /\ (attr' = attr \/ (val # 0 /\ attr' = [attr EXCEPT ![h] = val]))
<1>1. FailDiscovery(h) => goal
    BY DEF FailDiscovery
<1>2. CompleteOk(h) => goal
  <2>1. CompleteOk(h) => link' = link /\ attr' = IF val = 0 THEN attr ELSE [attr EXCEPT ![h] = val]
      BY DEF CompleteOk
  <2> HIDE DEF val
  <2> QED BY <2>1
<1>3. UNCHANGED <<gap, attr>> => goal
    BY DEF gap
<1> HIDE DEF goal
<1>4. DiscDscs(h) => goal
    BY <1>1, <1>2, <1>3 DEF DiscDscs, gap
<1>5. DiscChrs(h) => goal
    BY <1>1, <1>3, <1>4 DEF DiscChrs, gap
<1>6. Found(h) => goal
    BY <1>1, <1>3 DEF Found, gap
<1>7. Done(h) => goal
    BY <1>3, <1>4, <1>5 DEF Done, gap
<1>8. goal
    BY <1>1, <1>6, <1>7 DEF Discover, ProcFails
<1> QED BY <1>8 DEF goal

LEMMA AttrStep ==
    ASSUME TableInv, PeerInv, AttrInv, [Next]_vars
    PROVE  AttrInv'
<1>1. link \in [Handle -> Device \cup {NoDev}] /\ attr \in [Handle -> Nat]
    BY DEF TableInv, GapType, AttrInv
<1>2. ASSUME NEW h \in Handle, Connected(h) PROVE AttrInv'
  <2>1. link[h] = NoDev /\ link' = [link EXCEPT ![h] = connecting] /\ attr' = attr
      BY <1>2 DEF Connected
  <2>2. attr[h] = 0
      BY <2>1 DEF AttrInv, AttributeIsCurrent
  <2> QED BY <1>1, <2>1, <2>2, AttrKept
<1>3. ASSUME NEW h \in Handle, Disconnect(h) PROVE AttrInv'
  <2>1. link' = [link EXCEPT ![h] = NoDev] /\ attr' = [attr EXCEPT ![h] = 0]
      BY <1>3 DEF Disconnect
  <2> QED BY <1>1, <2>1, AttrKept
<1>4. CASE UNCHANGED <<link, attr>>
    BY <1>4 DEF AttrInv, AttributeIsCurrent
<1>5. ASSUME NEW h \in Handle, Discover(h) PROVE AttrInv'
  <2> DEFINE val == ValByUuid(peer[h], "spp_svc", "spp_chr")
             db  == Gatt[link[h]]
  <2>1. /\ proc[h].kind # "none"
      BY <1>5, ProcSteps DEF TableInv
  <2>2. link[h] \in Device /\ Recorded(peer[h], db)
      BY <2>1, PeerOf
  <2>3. IsDb(db)
      BY <2>2, BleNetAssumption DEF IsDb
  <2>4. link' = link /\ (attr' = attr \/ (val # 0 /\ attr' = [attr EXCEPT ![h] = val]))
      BY <1>5, AttrDiscovers
  <2>5. val \in Nat /\ (val # 0 => Gives(db, "spp_svc", "spp_chr", val))
      BY <2>2, <2>3, ValGiven
  <2> HIDE DEF val
  <2>6. CASE val # 0 /\ attr' = [attr EXCEPT ![h] = val]
      BY <1>1, <2>2, <2>4, <2>5, <2>6, AttrKept, BleNetAssumption
  <2> QED BY <1>4, <2>4, <2>6
<1> QED BY <1>2, <1>3, <1>4, <1>5 DEF Next, Advertise, ConnectFailed, vars

(* What is written to a weapon goes to the characteristic that the weapon  *)
(* linked now has under that number, however often its handle has been     *)
(* used before and whatever the databases of the other devices.            *)
THEOREM AttributeOfLinked == MgrSpec => []AttributeIsCurrent
<1>1. MgrInit => TableInv /\ PeerInv /\ AttrInv
    BY TableStart DEF MgrInit, Init, PeerInv, NoProc, Ask, AttrInv, AttributeIsCurrent
<1>2. TableInv /\ PeerInv /\ AttrInv /\ [MgrNext]_mgrVars => (TableInv /\ PeerInv /\ AttrInv)'
    BY NetSteps, TableStep, PeerStep, AttrStep
<1>3. AttrInv => AttributeIsCurrent
    BY DEF AttrInv
<1> QED BY <1>1, <1>2, <1>3, PTL DEF MgrSpec

-----------------------------------------------------------------------------
(* The memory.  Each handle has a set of blocks of each sort; of all, each *)
(* with its handle, there are as many as the pool has fewer than at first. *)
Spread(F) == UNION { {k} \X F[k] : k \in Handle }

Balanced(F, size, free) ==
    /\ F = [k \in Handle |-> F[k]] /\ \A k \in Handle : IsFiniteSet(F[k])
    /\ IsFiniteSet(Spread(F)) /\ Cardinality(Spread(F)) = size - free

LEMMA SpreadPut ==
    ASSUME NEW F, F = [k \in Handle |-> F[k]], IsFiniteSet(Spread(F)),
           NEW h \in Handle, IsFiniteSet(F[h]), NEW X, IsFiniteSet(X)
    PROVE  LET G == [F EXCEPT ![h] = X]
           IN  /\ G = [k \in Handle |-> G[k]] /\ G[h] = X
               /\ \A k \in Handle \ {h} : G[k] = F[k]
               /\ IsFiniteSet(Spread(G))
               /\ Cardinality(Spread(G)) = Cardinality(Spread(F)) - Cardinality(F[h]) + Cardinality(X)
<1> DEFINE G == [F EXCEPT ![h] = X]
           rest == UNION { {k} \X F[k] : k \in Handle \ {h} }
           old == {h} \X F[h]
           new == {h} \X X
<1>1. /\ G = [k \in Handle |-> G[k]] /\ G[h] = X
      /\ \A k \in Handle \ {h} : G[k] = F[k]
    OBVIOUS
<1> HIDE DEF G
<1>2. Spread(F) = rest \cup old /\ rest \cap old = {}
    BY DEF Spread
<1>3. Spread(G) = rest \cup new /\ rest \cap new = {}
    BY <1>1 DEF Spread
<1>4. /\ IsFiniteSet(old) /\ Cardinality(old) = Cardinality(F[h])
      /\ IsFiniteSet(new) /\ Cardinality(new) = Cardinality(X)
  <2>1. IsFiniteSet({h}) /\ Cardinality({h}) = 1
      BY FS_Singleton
  <2>2. /\ IsFiniteSet(old) /\ Cardinality(old) = Cardinality({h}) * Cardinality(F[h])
      BY <2>1, FS_Product
  <2>3. /\ IsFiniteSet(new) /\ Cardinality(new) = Cardinality({h}) * Cardinality(X)
      BY <2>1, FS_Product
  <2>4. Cardinality(F[h]) \in Nat /\ Cardinality(X) \in Nat
      BY FS_CardinalityType
  <2> HIDE DEF old, new
  <2> QED BY <2>1, <2>2, <2>3, <2>4
<1> HIDE DEF old, new, rest
<1>5. IsFiniteSet(rest)
    BY <1>2, FS_Subset
<1>6. /\ IsFiniteSet(rest \cup new)
      /\ Cardinality(rest \cup new) = Cardinality(rest) + Cardinality(new) - Cardinality(rest \cap new)
    BY <1>4, <1>5, FS_Union
<1>7. /\ Cardinality(rest \cup old) = Cardinality(rest) + Cardinality(old) - Cardinality(rest \cap old)
    BY <1>4, <1>5, FS_Union
<1>8. /\ Cardinality(rest) \in Nat /\ Cardinality(old) \in Nat /\ Cardinality(new) \in Nat
      /\ Cardinality({}) = 0
    BY <1>4, <1>5, FS_CardinalityType, FS_EmptySet
<1>9. Cardinality(Spread(G)) = Cardinality(Spread(F)) - Cardinality(F[h]) + Cardinality(X)
  <2> DEFINE r == Cardinality(rest)  o == Cardinality(old)  n == Cardinality(new)
  <2>1. Cardinality(Spread(F)) = r + o - 0 /\ Cardinality(Spread(G)) = r + n - 0
      BY <1>2, <1>3, <1>6, <1>7, <1>8
  <2>2. r \in Nat /\ o \in Nat /\ n \in Nat /\ Cardinality(F[h]) = o /\ Cardinality(X) = n
      BY <1>4, <1>8
  <2> HIDE DEF r, o, n
  <2> QED BY <2>1, <2>2
<1>10. IsFiniteSet(Spread(G))
    BY <1>3, <1>6
<1> QED BY <1>1, <1>9, <1>10 DEF G

LEMMA BalancePut ==
    ASSUME NEW F, NEW size \in Nat, NEW free \in Nat, Balanced(F, size, free),
           NEW h \in Handle, NEW X, IsFiniteSet(X), NEW left \in Nat,
           left = free + Cardinality(F[h]) - Cardinality(X)
    PROVE  Balanced([F EXCEPT ![h] = X], size, left)
<1> DEFINE G == [F EXCEPT ![h] = X]
<1>1. /\ F = [k \in Handle |-> F[k]] /\ \A k \in Handle : IsFiniteSet(F[k])
      /\ IsFiniteSet(Spread(F)) /\ Cardinality(Spread(F)) = size - free
    BY DEF Balanced
<1>2. /\ G = [k \in Handle |-> G[k]] /\ G[h] = X
      /\ \A k \in Handle \ {h} : G[k] = F[k]
      /\ IsFiniteSet(Spread(G))
      /\ Cardinality(Spread(G)) = Cardinality(Spread(F)) - Cardinality(F[h]) + Cardinality(X)
    BY <1>1, SpreadPut
<1>3. Cardinality(F[h]) \in Nat /\ Cardinality(X) \in Nat
    BY <1>1, FS_CardinalityType
<1> HIDE DEF G
<1>4. Cardinality(Spread(G)) = size - left
    BY <1>1, <1>2, <1>3
<1>5. \A k \in Handle : IsFiniteSet(G[k])
    BY <1>1, <1>2
<1>6. Balanced(G, size, left)
    BY <1>2, <1>4, <1>5 DEF Balanced
<1> QED BY <1>6 DEF G

Held(p, blocks) == IF p = NoPeer THEN {} ELSE blocks
HeldSvcs == [k \in Handle |-> Held(peer[k], DOMAIN peer[k].svcs)]
HeldChrs == [k \in Handle |-> Held(peer[k], ChrBlocks(peer[k]))]
HeldDscs == [k \in Handle |-> Held(peer[k], DscBlocks(peer[k]))]

PoolInv ==
    /\ pool \in Sizes
    /\ IsFiniteSet(Living) /\ Cardinality(Living) = PoolSize.peer - pool.peer
    /\ Balanced(HeldSvcs, PoolSize.svc, pool.svc)
    /\ Balanced(HeldChrs, PoolSize.chr, pool.chr)
    /\ Balanced(HeldDscs, PoolSize.dsc, pool.dsc)

(* Taking one block of one sort, or giving all back, as the pools count. *)
LEMMA PoolPut ==
    ASSUME PoolInv, peer = [k \in Handle |-> peer[k]], NEW h \in Handle, NEW r,
           peer' = [peer EXCEPT ![h] = r], pool' \in Sizes,
           NEW svcs, svcs = Held(r, DOMAIN r.svcs), IsFiniteSet(svcs),
           NEW chrs, chrs = Held(r, ChrBlocks(r)), IsFiniteSet(chrs),
           NEW dscs, dscs = Held(r, DscBlocks(r)), IsFiniteSet(dscs),
           pool'.svc = pool.svc + Cardinality(HeldSvcs[h]) - Cardinality(svcs),
           pool'.chr = pool.chr + Cardinality(HeldChrs[h]) - Cardinality(chrs),
           pool'.dsc = pool.dsc + Cardinality(HeldDscs[h]) - Cardinality(dscs),
           \/ peer[h] = NoPeer /\ r # NoPeer /\ pool'.peer = pool.peer - 1
           \/ peer[h] # NoPeer /\ r = NoPeer /\ pool'.peer = pool.peer + 1
           \/ peer[h] # NoPeer /\ r # NoPeer /\ pool'.peer = pool.peer
    PROVE  PoolInv'
<1>1. peer'[h] = r /\ \A k \in Handle \ {h} : peer'[k] = peer[k]
    OBVIOUS
<1>2. /\ HeldSvcs' = [HeldSvcs EXCEPT ![h] = svcs]
      /\ HeldChrs' = [HeldChrs EXCEPT ![h] = chrs]
      /\ HeldDscs' = [HeldDscs EXCEPT ![h] = dscs]
  <2>1. HeldSvcs' = [HeldSvcs EXCEPT ![h] = svcs]
      BY <1>1 DEF HeldSvcs
  <2>2. HeldChrs' = [HeldChrs EXCEPT ![h] = chrs]
      BY <1>1 DEF HeldChrs
  <2>3. HeldDscs' = [HeldDscs EXCEPT ![h] = dscs]
      BY <1>1 DEF HeldDscs
  <2> QED BY <2>1, <2>2, <2>3
<1>3. /\ PoolSize.svc \in Nat /\ PoolSize.chr \in Nat /\ PoolSize.dsc \in Nat /\ PoolSize.peer \in Nat
      /\ pool.svc \in Nat /\ pool.chr \in Nat /\ pool.dsc \in Nat /\ pool.peer \in Nat
      /\ pool'.svc \in Nat /\ pool'.chr \in Nat /\ pool'.dsc \in Nat /\ pool'.peer \in Nat
    BY BleNetAssumption DEF PoolInv, Sizes
<1>4. /\ Balanced(HeldSvcs, PoolSize.svc, pool.svc)
      /\ Balanced(HeldChrs, PoolSize.chr, pool.chr)
      /\ Balanced(HeldDscs, PoolSize.dsc, pool.dsc)
    BY DEF PoolInv
<1>5. Balanced(HeldSvcs', PoolSize.svc, pool'.svc)
    BY <1>2, <1>3, <1>4, BalancePut
<1>6. Balanced(HeldChrs', PoolSize.chr, pool'.chr)
    BY <1>2, <1>3, <1>4, BalancePut
<1>7. Balanced(HeldDscs', PoolSize.dsc, pool'.dsc)
    BY <1>2, <1>3, <1>4, BalancePut
<1>8. IsFiniteSet(Living') /\ Cardinality(Living') = PoolSize.peer - pool'.peer
  <2>1. IsFiniteSet(Living) /\ Cardinality(Living) = PoolSize.peer - pool.peer
      BY DEF PoolInv
  <2>2. CASE peer[h] = NoPeer /\ r # NoPeer /\ pool'.peer = pool.peer - 1
    <3>1. Living' = Living \cup {h} /\ h \notin Living
        BY <1>1, <2>2 DEF Living
    <3>2. IsFiniteSet(Living') /\ Cardinality(Living') = Cardinality(Living) + 1
        BY <2>1, <3>1, FS_AddElement
    <3> QED BY <1>3, <2>1, <2>2, <3>2
  <2>3. CASE peer[h] # NoPeer /\ r = NoPeer /\ pool'.peer = pool.peer + 1
    <3>1. Living' = Living \ {h} /\ h \in Living
        BY <1>1, <2>3 DEF Living
    <3>2. IsFiniteSet(Living') /\ Cardinality(Living') = Cardinality(Living) - 1
        BY <2>1, <3>1, FS_RemoveElement
    <3> QED BY <1>3, <2>1, <2>3, <3>2
  <2>4. CASE peer[h] # NoPeer /\ r # NoPeer /\ pool'.peer = pool.peer
    <3>1. Living' = Living
        BY <1>1, <2>4 DEF Living
    <3> QED BY <2>1, <2>4, <3>1
  <2> QED BY <2>2, <2>3, <2>4
<1>9. (Balanced(HeldSvcs, PoolSize.svc, pool.svc))' /\ (Balanced(HeldChrs, PoolSize.chr, pool.chr))'
      /\ (Balanced(HeldDscs, PoolSize.dsc, pool.dsc))'
    BY <1>5, <1>6, <1>7
<1> QED BY <1>8, <1>9 DEF PoolInv, Sizes

(* One more block. *)
Grows(S, T) == \E a : a \notin S /\ T = S \cup {a}

HasChr(p, a) ==
    \E i \in DOMAIN p.svcs : \E j \in DOMAIN p.svcs[i].chrs : a = <<i, j>>
HasDsc(p, b) ==
    \E i \in DOMAIN p.svcs : \E j \in DOMAIN p.svcs[i].chrs :
      \E m \in DOMAIN p.svcs[i].chrs[j].dscs : b = <<<<i, j>>, m>>

LEMMA InBlocks ==
    ASSUME NEW p
    PROVE  /\ \A a : a \in ChrBlocks(p) <=> HasChr(p, a)
           /\ \A b : b \in DscBlocks(p) <=> HasDsc(p, b)
<1>1. ASSUME NEW a
      PROVE  a \in ChrBlocks(p) <=>
               \E i \in DOMAIN p.svcs : \E j \in DOMAIN p.svcs[i].chrs : a = <<i, j>>
    BY DEF ChrBlocks
<1>2. ASSUME NEW b
      PROVE  b \in DscBlocks(p) <=>
               \E a \in ChrBlocks(p) : \E m \in DOMAIN p.svcs[a[1]].chrs[a[2]].dscs : b = <<a, m>>
    BY DEF DscBlocks
<1>3. ASSUME NEW b
      PROVE  b \in DscBlocks(p) <=>
               \E i \in DOMAIN p.svcs : \E j \in DOMAIN p.svcs[i].chrs :
                 \E m \in DOMAIN p.svcs[i].chrs[j].dscs : b = <<<<i, j>>, m>>
  <2>1. \A i, j : <<i, j>>[1] = i /\ <<i, j>>[2] = j
      OBVIOUS
  <2>2. ASSUME b \in DscBlocks(p)
        PROVE  \E i \in DOMAIN p.svcs : \E j \in DOMAIN p.svcs[i].chrs :
                 \E m \in DOMAIN p.svcs[i].chrs[j].dscs : b = <<<<i, j>>, m>>
    <3>1. PICK a \in ChrBlocks(p) : \E m \in DOMAIN p.svcs[a[1]].chrs[a[2]].dscs : b = <<a, m>>
        BY <1>2, <2>2
    <3>2. PICK i \in DOMAIN p.svcs : \E j \in DOMAIN p.svcs[i].chrs : a = <<i, j>>
        BY <1>1, <3>1
    <3>3. PICK j \in DOMAIN p.svcs[i].chrs : a = <<i, j>>
        BY <3>2
    <3> QED BY <2>1, <3>1, <3>2, <3>3
  <2>3. ASSUME NEW i \in DOMAIN p.svcs, NEW j \in DOMAIN p.svcs[i].chrs,
               NEW m \in DOMAIN p.svcs[i].chrs[j].dscs, b = <<<<i, j>>, m>>
        PROVE  b \in DscBlocks(p)
    <3>1. <<i, j>> \in ChrBlocks(p)
        BY <1>1
    <3> QED BY <1>2, <2>1, <2>3, <3>1
  <2> QED BY <2>2, <2>3
<1> QED BY <1>1, <1>3 DEF HasChr, HasDsc

LEMMA Longer ==
    ASSUME NEW S, NEW s \in Seq(S), NEW x, NEW t, t = Append(s, x)
    PROVE  /\ DOMAIN t = DOMAIN s \cup {Len(s) + 1} /\ Len(s) + 1 \notin DOMAIN s
           /\ t[Len(s) + 1] = x /\ \A k \in DOMAIN s : t[k] = s[k]
<1> DEFINE n == Len(s)
<1>1. n \in Nat /\ DOMAIN s = 1 .. n
    OBVIOUS
<1>2. DOMAIN t = 1 .. n + 1 /\ t[n + 1] = x /\ \A k \in 1 .. n : t[k] = s[k]
    OBVIOUS
<1> HIDE DEF n
<1>3. 1 .. n + 1 = 1 .. n \cup {n + 1} /\ n + 1 \notin 1 .. n
    BY <1>1
<1> QED BY <1>1, <1>2, <1>3 DEF n

LEMMA SameDomain ==
    ASSUME NEW S, NEW s \in Seq(S), NEW t \in Seq(S), Len(s) = Len(t)
    PROVE  DOMAIN s = DOMAIN t
  OBVIOUS

LEMMA SvcBlocks ==
    ASSUME NEW p \in PeerRecord, NEW x, x.chrs = <<>>, NEW r,
           r = [p EXCEPT !.svcs = Append(p.svcs, x)]
    PROVE  /\ Grows(DOMAIN p.svcs, DOMAIN r.svcs)
           /\ ChrBlocks(r) = ChrBlocks(p) /\ DscBlocks(r) = DscBlocks(p)
<1> DEFINE last == Len(p.svcs) + 1
<1>1. p.svcs \in Seq(Service) /\ r.svcs = Append(p.svcs, x) /\ DOMAIN x.chrs = {}
    BY DEF PeerRecord
<1>2. /\ DOMAIN r.svcs = DOMAIN p.svcs \cup {last} /\ last \notin DOMAIN p.svcs
      /\ r.svcs[last] = x /\ \A k \in DOMAIN p.svcs : r.svcs[k] = p.svcs[k]
    BY <1>1, Longer
<1> HIDE DEF last
<1>4. /\ DOMAIN r.svcs = DOMAIN p.svcs \cup {last} /\ DOMAIN r.svcs[last].chrs = {}
      /\ \A k \in DOMAIN p.svcs : r.svcs[k] = p.svcs[k]
    BY <1>1, <1>2
<1>5. \A a : HasChr(r, a) <=> HasChr(p, a)
    BY <1>4 DEF HasChr
<1>6. \A b : HasDsc(r, b) <=> HasDsc(p, b)
    BY <1>4 DEF HasDsc
<1>7. ChrBlocks(r) = ChrBlocks(p) /\ DscBlocks(r) = DscBlocks(p)
  <2>1. \A a : a \in ChrBlocks(r) <=> a \in ChrBlocks(p)
      BY <1>5, InBlocks
  <2>2. \A b : b \in DscBlocks(r) <=> b \in DscBlocks(p)
      BY <1>6, InBlocks
  <2> QED BY <2>1, <2>2
<1> QED BY <1>2, <1>7 DEF Grows

LEMMA ChrBlocksGrow ==
    ASSUME NEW p \in PeerRecord, NEW i \in 1 .. Len(p.svcs), NEW x, x.dscs = <<>>,
           Append(p.svcs[i].chrs, x) \in Seq(Characteristic), NEW r,
           r = PutChrs(p, i, Append(p.svcs[i].chrs, x))
    PROVE  /\ DOMAIN r.svcs = DOMAIN p.svcs /\ DscBlocks(r) = DscBlocks(p)
           /\ Grows(ChrBlocks(p), ChrBlocks(r))
<1> DEFINE list == p.svcs[i].chrs
           new  == Append(list, x)
           last == Len(list) + 1
<1>1. /\ p.svcs \in Seq(Service) /\ DOMAIN p.svcs = 1 .. Len(p.svcs)
      /\ list \in Seq(Characteristic)
    BY Shapes DEF PeerRecord
<1>2. /\ r \in PeerRecord /\ Len(r.svcs) = Len(p.svcs)
      /\ \A k \in 1 .. Len(p.svcs) \ {i} : r.svcs[k] = p.svcs[k]
      /\ r.svcs[i].chrs = new
    BY ChrsPut
<1>3. DOMAIN r.svcs = DOMAIN p.svcs
  <2>1. r.svcs \in Seq(Service)
      BY <1>2 DEF PeerRecord
  <2> QED BY <1>1, <1>2, <2>1, SameDomain
<1>4. /\ DOMAIN new = DOMAIN list \cup {last} /\ last \notin DOMAIN list
      /\ new[last] = x /\ \A k \in DOMAIN list : new[k] = list[k]
  <2> HIDE DEF list
  <2> QED BY <1>1, Longer
<1>5. DOMAIN x.dscs = {}
    OBVIOUS
<1>6. /\ \A k \in DOMAIN p.svcs : k # i => r.svcs[k] = p.svcs[k]
      /\ r.svcs[i].chrs = new /\ p.svcs[i].chrs = list
      /\ i \in DOMAIN p.svcs /\ DOMAIN new = DOMAIN list \cup {last} /\ last \notin DOMAIN list
      /\ \A k \in DOMAIN list : new[k] = list[k]
      /\ new[last] = x /\ DOMAIN x.dscs = {}
    BY <1>1, <1>2, <1>4, <1>5
<1> HIDE DEF new, last, list
<1>7. ChrBlocks(r) = ChrBlocks(p) \cup {<<i, last>>}
  <2>1. ASSUME NEW a PROVE a \in ChrBlocks(r) <=> a \in ChrBlocks(p) \cup {<<i, last>>}
      BY <1>3, <1>6, InBlocks DEF HasChr, HasDsc
  <2> QED BY <2>1
<1>8. <<i, last>> \notin ChrBlocks(p)
  <2> SUFFICES ASSUME NEW k \in DOMAIN p.svcs, NEW m \in DOMAIN p.svcs[k].chrs, <<i, last>> = <<k, m>>
               PROVE  FALSE
      BY InBlocks DEF HasChr, HasDsc
  <2>1. k = i /\ m = last
      OBVIOUS
  <2> QED BY <1>6, <2>1
<1>9. DscBlocks(r) = DscBlocks(p)
  <2>1. ASSUME NEW a PROVE a \in DscBlocks(r) <=> a \in DscBlocks(p)
      BY <1>3, <1>6, InBlocks DEF HasChr, HasDsc
  <2> QED BY <2>1
<1> QED BY <1>3, <1>7, <1>8, <1>9 DEF Grows

LEMMA DscBlocksGrow ==
    ASSUME NEW p \in PeerRecord, NEW i \in 1 .. Len(p.svcs), NEW j \in 1 .. Len(p.svcs[i].chrs),
           NEW x \in Nat, NEW r, r = PutDscs(p, i, j, Append(p.svcs[i].chrs[j].dscs, x))
    PROVE  /\ DOMAIN r.svcs = DOMAIN p.svcs /\ ChrBlocks(r) = ChrBlocks(p)
           /\ Grows(DscBlocks(p), DscBlocks(r))
<1> DEFINE chrs == p.svcs[i].chrs
           list == chrs[j].dscs
           new  == Append(list, x)
           c    == [chrs[j] EXCEPT !.dscs = new]
           more == [chrs EXCEPT ![j] = c]
           last == Len(list) + 1
<1>1. /\ p.svcs \in Seq(Service) /\ DOMAIN p.svcs = 1 .. Len(p.svcs)
      /\ chrs \in Seq(Characteristic) /\ DOMAIN chrs = 1 .. Len(chrs)
      /\ chrs[j] \in Characteristic /\ list \in Seq(Nat)
    BY Shapes DEF PeerRecord
<1>2. /\ new \in Seq(Nat) /\ DOMAIN new = DOMAIN list \cup {last} /\ last \notin DOMAIN list
  <2> HIDE DEF list
  <2>1. DOMAIN new = DOMAIN list \cup {last} /\ last \notin DOMAIN list
      BY <1>1, Longer
  <2> QED BY <1>1, <2>1
<1> HIDE DEF new, last
<1>3. c \in Characteristic /\ c.dscs = new
    BY <1>1, <1>2 DEF Characteristic
<1>4. r = PutChrs(p, i, more)
    BY DEF PutDscs, new
<1> HIDE DEF c
<1>5. /\ more \in Seq(Characteristic) /\ DOMAIN more = DOMAIN chrs /\ more[j] = c
      /\ \A k \in DOMAIN chrs : k # j => more[k] = chrs[k]
    BY <1>1, <1>3
<1> HIDE DEF more
<1>6. /\ r \in PeerRecord /\ Len(r.svcs) = Len(p.svcs)
      /\ \A k \in 1 .. Len(p.svcs) \ {i} : r.svcs[k] = p.svcs[k]
      /\ r.svcs[i].chrs = more
    BY <1>4, <1>5, ChrsPut
<1>7. DOMAIN r.svcs = DOMAIN p.svcs
  <2>1. r.svcs \in Seq(Service)
      BY <1>6 DEF PeerRecord
  <2> QED BY <1>1, <1>6, <2>1, SameDomain
<1>8. /\ \A k \in DOMAIN p.svcs : k # i => r.svcs[k] = p.svcs[k]
      /\ r.svcs[i].chrs = more /\ p.svcs[i].chrs = chrs /\ chrs[j].dscs = list
      /\ i \in DOMAIN p.svcs /\ j \in DOMAIN chrs /\ more[j].dscs = new
      /\ \A k \in DOMAIN chrs : k # j => more[k] = chrs[k]
    BY <1>1, <1>3, <1>5, <1>6
<1> HIDE DEF chrs, list
<1>9. ChrBlocks(r) = ChrBlocks(p)
  <2>1. ASSUME NEW a PROVE a \in ChrBlocks(r) <=> a \in ChrBlocks(p)
      BY <1>5, <1>7, <1>8, InBlocks DEF HasChr
  <2> QED BY <2>1
<1>10. DscBlocks(r) = DscBlocks(p) \cup {<<<<i, j>>, last>>}
  <2>1. ASSUME NEW b, b \in DscBlocks(r) PROVE b \in DscBlocks(p) \cup {<<<<i, j>>, last>>}
    <3> HasDsc(r, b)
        BY <2>1, InBlocks
    <3>1. PICK k \in DOMAIN r.svcs : \E l \in DOMAIN r.svcs[k].chrs :
             \E m \in DOMAIN r.svcs[k].chrs[l].dscs : b = <<<<k, l>>, m>>
        BY DEF HasDsc
    <3>0. k \in DOMAIN p.svcs
        BY <1>7
    <3>2. PICK l \in DOMAIN r.svcs[k].chrs :
             \E m \in DOMAIN r.svcs[k].chrs[l].dscs : b = <<<<k, l>>, m>>
        BY <3>1
    <3>3. PICK m \in DOMAIN r.svcs[k].chrs[l].dscs : b = <<<<k, l>>, m>>
        BY <3>2
    <3>4. l \in DOMAIN p.svcs[k].chrs
        BY <1>5, <1>8, <3>0
    <3>5. m \in DOMAIN p.svcs[k].chrs[l].dscs \/ (k = i /\ l = j /\ m = last)
        BY <1>2, <1>5, <1>8, <3>0, <3>4
    <3> QED BY <3>0, <3>3, <3>4, <3>5, InBlocks DEF HasDsc
  <2>2. ASSUME NEW b, b \in DscBlocks(p) PROVE b \in DscBlocks(r)
    <3>1. PICK k \in DOMAIN p.svcs : \E l \in DOMAIN p.svcs[k].chrs :
             \E m \in DOMAIN p.svcs[k].chrs[l].dscs : b = <<<<k, l>>, m>>
        BY <2>2, InBlocks DEF HasDsc
    <3>2. PICK l \in DOMAIN p.svcs[k].chrs :
             \E m \in DOMAIN p.svcs[k].chrs[l].dscs : b = <<<<k, l>>, m>>
        BY <3>1
    <3>3. PICK m \in DOMAIN p.svcs[k].chrs[l].dscs : b = <<<<k, l>>, m>>
        BY <3>2
    <3>4. l \in DOMAIN r.svcs[k].chrs
        BY <1>5, <1>8
    <3>5. m \in DOMAIN r.svcs[k].chrs[l].dscs
        BY <1>2, <1>5, <1>8, <3>4
    <3> QED BY <1>7, <3>3, <3>4, <3>5, InBlocks DEF HasDsc
  <2>3. <<<<i, j>>, last>> \in DscBlocks(r)
    <3>1. /\ i \in DOMAIN r.svcs /\ j \in DOMAIN r.svcs[i].chrs
          /\ last \in DOMAIN r.svcs[i].chrs[j].dscs
        BY <1>2, <1>5, <1>7, <1>8
    <3> QED BY <3>1, InBlocks DEF HasDsc
  <2> QED BY <2>1, <2>2, <2>3
<1>11. <<<<i, j>>, last>> \notin DscBlocks(p)
  <2> SUFFICES ASSUME NEW k \in DOMAIN p.svcs, NEW l \in DOMAIN p.svcs[k].chrs,
                      NEW m \in DOMAIN p.svcs[k].chrs[l].dscs,
                      <<<<i, j>>, last>> = <<<<k, l>>, m>>
               PROVE  FALSE
      BY InBlocks DEF HasChr, HasDsc
  <2>1. k = i /\ l = j /\ m = last
      OBVIOUS
  <2> QED BY <1>2, <1>8, <2>1
<1> QED BY <1>7, <1>9, <1>10, <1>11 DEF Grows

LEMMA Grown ==
    ASSUME NEW S, IsFiniteSet(S), NEW T, Grows(S, T)
    PROVE  IsFiniteSet(T) /\ Cardinality(T) = Cardinality(S) + 1
<1>1. PICK a : a \notin S /\ T = S \cup {a}
    BY DEF Grows
<1> QED BY <1>1, FS_AddElement

LEMMA HeldBy ==
    ASSUME PoolInv, NEW h \in Handle, peer[h] # NoPeer
    PROVE  /\ HeldSvcs[h] = DOMAIN peer[h].svcs /\ IsFiniteSet(DOMAIN peer[h].svcs)
           /\ HeldChrs[h] = ChrBlocks(peer[h]) /\ IsFiniteSet(ChrBlocks(peer[h]))
           /\ HeldDscs[h] = DscBlocks(peer[h]) /\ IsFiniteSet(DscBlocks(peer[h]))
<1>1. /\ IsFiniteSet(HeldSvcs[h]) /\ IsFiniteSet(HeldChrs[h]) /\ IsFiniteSet(HeldDscs[h])
    BY DEF PoolInv, Balanced
<1>2. /\ HeldSvcs[h] = DOMAIN peer[h].svcs
      /\ HeldChrs[h] = ChrBlocks(peer[h]) /\ HeldDscs[h] = DscBlocks(peer[h])
    BY DEF HeldSvcs, HeldChrs, HeldDscs, Held
<1> QED BY <1>1, <1>2

LEMMA PoolType ==
    ASSUME PoolInv
    PROVE  /\ pool = [svc |-> pool.svc, chr |-> pool.chr, dsc |-> pool.dsc, peer |-> pool.peer]
           /\ pool.svc \in Nat /\ pool.chr \in Nat /\ pool.dsc \in Nat /\ pool.peer \in Nat
  BY DEF PoolInv, Sizes

LEMMA PoolDeletes ==
    ASSUME PoolInv, PeerInv, NEW h \in Handle, PeerDelete(h)
    PROVE  PoolInv'
<1>1. CASE peer[h] = NoPeer
  <2>1. peer' = peer /\ pool' = pool
      BY <1>1 DEF PeerDelete
  <2> QED BY <2>1 DEF PoolInv, Living, HeldSvcs, HeldChrs, HeldDscs, Balanced, Spread
<1>2. CASE peer[h] # NoPeer
  <2> DEFINE p == peer[h]
             s == Cardinality(DOMAIN p.svcs)
             c == Cardinality(ChrBlocks(p))
             d == Cardinality(DscBlocks(p))
  <2>1. /\ HeldSvcs[h] = DOMAIN p.svcs /\ IsFiniteSet(DOMAIN p.svcs)
        /\ HeldChrs[h] = ChrBlocks(p) /\ IsFiniteSet(ChrBlocks(p))
        /\ HeldDscs[h] = DscBlocks(p) /\ IsFiniteSet(DscBlocks(p))
      BY <1>2, HeldBy
  <2>2. s \in Nat /\ c \in Nat /\ d \in Nat
      BY <2>1, FS_CardinalityType
  <2>3. s = Len(p.svcs)
    <3>1. p.svcs \in Seq(Service)
        BY <1>2 DEF PeerInv, Recorded, PeerRecord
    <3>2. DOMAIN p.svcs = 1 .. Len(p.svcs) /\ Len(p.svcs) \in Nat
        BY <3>1
    <3>3. Cardinality(1 .. Len(p.svcs)) = Len(p.svcs)
        BY <3>2, FS_Interval
    <3> QED BY <3>2, <3>3
  <2>4. /\ peer' = [peer EXCEPT ![h] = NoPeer]
        /\ pool' = [svc |-> pool.svc + s, chr |-> pool.chr + c, dsc |-> pool.dsc + d,
                    peer |-> pool.peer + 1]
      BY <1>2, <2>3 DEF PeerDelete, AddBlocks, Blocks
  <2>5. /\ IsFiniteSet({}) /\ Cardinality({}) = 0
        /\ {} = Held(NoPeer, DOMAIN NoPeer.svcs) /\ {} = Held(NoPeer, ChrBlocks(NoPeer))
        /\ {} = Held(NoPeer, DscBlocks(NoPeer))
      BY FS_EmptySet DEF Held
  <2> HIDE DEF s, c, d
  <2>6. /\ pool'.svc = pool.svc + s - 0 /\ pool'.chr = pool.chr + c - 0
        /\ pool'.dsc = pool.dsc + d - 0 /\ pool'.peer = pool.peer + 1 /\ pool' \in Sizes
      BY <2>2, <2>4, PoolType DEF Sizes
  <2>7. peer = [k \in Handle |-> peer[k]]
      BY DEF PeerInv
  <2>8. /\ Cardinality(HeldSvcs[h]) = s /\ Cardinality(HeldChrs[h]) = c
        /\ Cardinality(HeldDscs[h]) = d
      BY <2>1 DEF s, c, d
  <2> QED BY <1>2, <2>4, <2>5, <2>6, <2>7, <2>8, PoolPut
<1> QED BY <1>1, <1>2

(* What changes with a block found is one list and its pool. *)
Changes(S, T, sort, taken) == IF sort = taken THEN Grows(S, T) ELSE T = S

LEMMA Changed ==
    ASSUME NEW S, IsFiniteSet(S), NEW T, NEW sort, NEW taken,
           Changes(S, T, sort, taken),
           NEW free \in Nat, NEW left, left = IF sort = taken THEN free - 1 ELSE free
    PROVE  IsFiniteSet(T) /\ left = free + Cardinality(S) - Cardinality(T)
<1>1. Cardinality(S) \in Nat
    BY FS_CardinalityType
<1>2. CASE sort = taken
  <2>1. IsFiniteSet(T) /\ Cardinality(T) = Cardinality(S) + 1
      BY <1>2, Grown DEF Changes
  <2> QED BY <1>1, <1>2, <2>1
<1>3. CASE sort # taken
    BY <1>1, <1>3 DEF Changes
<1> QED BY <1>2, <1>3

LEMMA PoolTakes ==
    ASSUME PoolInv, PeerInv, NEW h \in Handle, NEW r, peer[h] # NoPeer, r # NoPeer,
           peer' = [peer EXCEPT ![h] = r], NEW k \in {"svc", "chr", "dsc", "none"},
           Changes(DOMAIN peer[h].svcs, DOMAIN r.svcs, "svc", k),
           Changes(ChrBlocks(peer[h]), ChrBlocks(r), "chr", k),
           Changes(DscBlocks(peer[h]), DscBlocks(r), "dsc", k),
           pool' \in Sizes, pool'.peer = pool.peer,
           pool'.svc = IF "svc" = k THEN pool.svc - 1 ELSE pool.svc,
           pool'.chr = IF "chr" = k THEN pool.chr - 1 ELSE pool.chr,
           pool'.dsc = IF "dsc" = k THEN pool.dsc - 1 ELSE pool.dsc
    PROVE  PoolInv'
<1> DEFINE p == peer[h]
<1>1. /\ HeldSvcs[h] = DOMAIN p.svcs /\ IsFiniteSet(DOMAIN p.svcs)
      /\ HeldChrs[h] = ChrBlocks(p) /\ IsFiniteSet(ChrBlocks(p))
      /\ HeldDscs[h] = DscBlocks(p) /\ IsFiniteSet(DscBlocks(p))
    BY HeldBy
<1>2. /\ IsFiniteSet(DOMAIN r.svcs)
      /\ pool'.svc = pool.svc + Cardinality(DOMAIN p.svcs) - Cardinality(DOMAIN r.svcs)
    BY <1>1, Changed, PoolType
<1>3. /\ IsFiniteSet(ChrBlocks(r))
      /\ pool'.chr = pool.chr + Cardinality(ChrBlocks(p)) - Cardinality(ChrBlocks(r))
    BY <1>1, Changed, PoolType
<1>4. /\ IsFiniteSet(DscBlocks(r))
      /\ pool'.dsc = pool.dsc + Cardinality(DscBlocks(p)) - Cardinality(DscBlocks(r))
    BY <1>1, Changed, PoolType
<1>5. /\ DOMAIN r.svcs = Held(r, DOMAIN r.svcs) /\ ChrBlocks(r) = Held(r, ChrBlocks(r))
      /\ DscBlocks(r) = Held(r, DscBlocks(r))
    BY DEF Held
<1>6. peer = [i \in Handle |-> peer[i]]
    BY DEF PeerInv
<1> QED BY <1>1, <1>2, <1>3, <1>4, <1>5, <1>6, PoolPut

LEMMA PoolSame ==
    ASSUME PoolInv, PeerInv, NEW h \in Handle, NEW r, peer[h] # NoPeer, r # NoPeer,
           peer' = [peer EXCEPT ![h] = r], r.svcs = peer[h].svcs, pool' = pool
    PROVE  PoolInv'
<1>1. ChrBlocks(r) = ChrBlocks(peer[h]) /\ DscBlocks(r) = DscBlocks(peer[h])
    BY DEF ChrBlocks, DscBlocks
<1>2. /\ Changes(DOMAIN peer[h].svcs, DOMAIN r.svcs, "svc", "none")
      /\ Changes(ChrBlocks(peer[h]), ChrBlocks(r), "chr", "none")
      /\ Changes(DscBlocks(peer[h]), DscBlocks(r), "dsc", "none")
    BY <1>1 DEF Changes
<1>3. pool' \in Sizes
    BY DEF PoolInv
<1> DEFINE k == "none"
<1>4. k \in {"svc", "chr", "dsc", "none"} /\ k # "svc" /\ k # "chr" /\ k # "dsc"
    OBVIOUS
<1> HIDE DEF k
<1>5. /\ Changes(DOMAIN peer[h].svcs, DOMAIN r.svcs, "svc", k)
      /\ Changes(ChrBlocks(peer[h]), ChrBlocks(r), "chr", k)
      /\ Changes(DscBlocks(peer[h]), DscBlocks(r), "dsc", k)
    BY <1>2 DEF k
<1>6. /\ pool'.svc = IF "svc" = k THEN pool.svc - 1 ELSE pool.svc
      /\ pool'.chr = IF "chr" = k THEN pool.chr - 1 ELSE pool.chr
      /\ pool'.dsc = IF "dsc" = k THEN pool.dsc - 1 ELSE pool.dsc
      /\ pool'.peer = pool.peer
    BY <1>4
<1> QED BY <1>3, <1>4, <1>5, <1>6, PoolTakes

LEMMA OneTaken ==
    ASSUME PoolInv, NEW k \in {"svc", "chr", "dsc"}, pool[k] # 0,
           NEW left, left = [pool EXCEPT ![k] = pool[k] - 1]
    PROVE  /\ left \in Sizes /\ left.peer = pool.peer
           /\ left.svc = IF "svc" = k THEN pool.svc - 1 ELSE pool.svc
           /\ left.chr = IF "chr" = k THEN pool.chr - 1 ELSE pool.chr
           /\ left.dsc = IF "dsc" = k THEN pool.dsc - 1 ELSE pool.dsc
<1> DEFINE s == pool.svc  c == pool.chr  d == pool.dsc  e == pool.peer
<1>1. /\ pool = [svc |-> s, chr |-> c, dsc |-> d, peer |-> e]
      /\ s \in Nat /\ c \in Nat /\ d \in Nat /\ e \in Nat
    BY PoolType
<1> HIDE DEF s, c, d, e
<1>2. CASE k = "svc"
  <2>1. left = [svc |-> s - 1, chr |-> c, dsc |-> d, peer |-> e] /\ s # 0
      BY <1>1, <1>2
  <2>2. s - 1 \in Nat
      BY <1>1, <2>1
  <2> QED BY <1>1, <1>2, <2>1, <2>2 DEF Sizes
<1>3. CASE k = "chr"
  <2>1. left = [svc |-> s, chr |-> c - 1, dsc |-> d, peer |-> e] /\ c # 0
      BY <1>1, <1>3
  <2>2. c - 1 \in Nat
      BY <1>1, <2>1
  <2> QED BY <1>1, <1>3, <2>1, <2>2 DEF Sizes
<1>4. CASE k = "dsc"
  <2>1. left = [svc |-> s, chr |-> c, dsc |-> d - 1, peer |-> e] /\ d # 0
      BY <1>1, <1>4
  <2>2. d - 1 \in Nat
      BY <1>1, <2>1
  <2> QED BY <1>1, <1>4, <2>1, <2>2 DEF Sizes
<1> QED BY <1>2, <1>3, <1>4

(* Which list has grown with an item found. *)
LEMMA ListGrows ==
    ASSUME TableInv, PeerInv, NEW h \in Handle, proc[h].kind # "none",
           proc[h].pos < Len(Report(h)), NEW r, r = Added(h, Report(h)[proc[h].pos + 1])
    PROVE  /\ r \in PeerRecord /\ r # peer[h] /\ PoolOf(h) \in {"svc", "chr", "dsc"}
           /\ Changes(DOMAIN peer[h].svcs, DOMAIN r.svcs, "svc", PoolOf(h))
           /\ Changes(ChrBlocks(peer[h]), ChrBlocks(r), "chr", PoolOf(h))
           /\ Changes(DscBlocks(peer[h]), DscBlocks(r), "dsc", PoolOf(h))
<1> DEFINE p == peer[h]
           q == proc[h]
           d == link[h]
           k == PoolOf(h)
<1>1. /\ d \in Device /\ p # NoPeer /\ IsProc(q) /\ Recorded(p, Gatt[d]) /\ Asking(p, q)
    BY PeerOf
<1>2. p \in PeerRecord
    BY <1>1 DEF Recorded
<1>3. CASE q.kind = "svcs"
  <2> DEFINE x == [Gatt[d][q.pos + 1] EXCEPT !.chrs = <<>>]
             s == [p EXCEPT !.svcs = Append(p.svcs, x)]
  <2>1. Report(h) = Gatt[d] /\ r = SvcAdd(p, Gatt[d][q.pos + 1]) /\ k = "svc"
      BY <1>3 DEF Report, Added, PoolOf
  <2>2. q.pos < Len(Gatt[d])
      BY <2>1
  <2>3. /\ SvcAdd(p, Gatt[d][q.pos + 1]) = s /\ x.chrs = <<>>
        /\ Recorded(s, Gatt[d]) /\ Asking(s, Onto(q))
      BY <1>1, <1>3, <2>2, FoundSvc
  <2>4. r = s /\ r \in PeerRecord
      BY <2>1, <2>3 DEF Recorded
  <2> HIDE DEF p, q, k, x
  <2>5. /\ Grows(DOMAIN p.svcs, DOMAIN r.svcs)
        /\ ChrBlocks(r) = ChrBlocks(p) /\ DscBlocks(r) = DscBlocks(p)
      BY <1>2, <2>3, <2>4, SvcBlocks
  <2>6. r # p
      BY <2>5 DEF Grows
  <2>7. /\ Changes(DOMAIN p.svcs, DOMAIN r.svcs, "svc", k)
        /\ Changes(ChrBlocks(p), ChrBlocks(r), "chr", k)
        /\ Changes(DscBlocks(p), DscBlocks(r), "dsc", k)
      BY <2>1, <2>5 DEF Changes
  <2> QED BY <2>1, <2>4, <2>6, <2>7 DEF p, k
<1>4. CASE q.kind = "chrs"
  <2>1. /\ Report(h) = ChrsIn(d, q.lo, q.hi) /\ k = "chr"
        /\ r = ChrAdd(p, ChrsIn(d, q.lo, q.hi)[q.pos + 1])
      BY <1>4 DEF Report, Added, PoolOf
  <2>2. q.pos < Len(ChrsIn(d, q.lo, q.hi))
      BY <2>1
  <2> HIDE DEF p, q, k
  <2>3. PICK i \in 1 .. Len(p.svcs) : \E x :
           LET s == PutChrs(p, i, Append(p.svcs[i].chrs, x)) IN
           /\ x.dscs = <<>> /\ ChrAdd(p, ChrsIn(d, q.lo, q.hi)[q.pos + 1]) = s
           /\ Append(p.svcs[i].chrs, x) \in Seq(Characteristic)
           /\ Recorded(s, Gatt[d]) /\ Asking(s, Onto(q))
      BY <1>1, <1>4, <2>2, FoundChr
  <2>4. PICK x :
           /\ x.dscs = <<>> /\ r = PutChrs(p, i, Append(p.svcs[i].chrs, x))
           /\ Append(p.svcs[i].chrs, x) \in Seq(Characteristic) /\ Recorded(r, Gatt[d])
      BY <2>1, <2>3
  <2>5. /\ Grows(ChrBlocks(p), ChrBlocks(r))
        /\ DOMAIN r.svcs = DOMAIN p.svcs /\ DscBlocks(r) = DscBlocks(p)
      BY <1>2, <2>4, ChrBlocksGrow
  <2>6. r # p /\ r \in PeerRecord
      BY <2>4, <2>5 DEF Grows, Recorded
  <2>7. /\ Changes(DOMAIN p.svcs, DOMAIN r.svcs, "svc", k)
        /\ Changes(ChrBlocks(p), ChrBlocks(r), "chr", k)
        /\ Changes(DscBlocks(p), DscBlocks(r), "dsc", k)
      BY <2>1, <2>5 DEF Changes
  <2> QED BY <2>1, <2>6, <2>7 DEF p, k
<1>5. CASE q.kind = "dscs"
  <2>1. /\ Report(h) = DscsIn(d, q.lo, q.hi) /\ k = "dsc"
        /\ r = DscAdd(p, q.lo, DscsIn(d, q.lo, q.hi)[q.pos + 1])
      BY <1>5 DEF Report, Added, PoolOf
  <2>2. q.pos < Len(DscsIn(d, q.lo, q.hi))
      BY <2>1
  <2> HIDE DEF p, q, k
  <2>3. \E i \in 1 .. Len(p.svcs) : \E j \in 1 .. Len(p.svcs[i].chrs) : \E x \in Nat :
           LET s == PutDscs(p, i, j, Append(p.svcs[i].chrs[j].dscs, x)) IN
           /\ DscAdd(p, q.lo, DscsIn(d, q.lo, q.hi)[q.pos + 1]) = s
           /\ Recorded(s, Gatt[d]) /\ Asking(s, Onto(q))
      BY <1>1, <1>5, <2>2, FoundDsc
  <2>4. PICK i \in 1 .. Len(p.svcs) : \E j \in 1 .. Len(p.svcs[i].chrs) : \E x \in Nat :
           /\ r = PutDscs(p, i, j, Append(p.svcs[i].chrs[j].dscs, x)) /\ Recorded(r, Gatt[d])
      BY <2>1, <2>3
  <2>5. PICK j \in 1 .. Len(p.svcs[i].chrs) : \E x \in Nat :
           /\ r = PutDscs(p, i, j, Append(p.svcs[i].chrs[j].dscs, x)) /\ Recorded(r, Gatt[d])
      BY <2>4
  <2>6. PICK x \in Nat :
           /\ r = PutDscs(p, i, j, Append(p.svcs[i].chrs[j].dscs, x)) /\ Recorded(r, Gatt[d])
      BY <2>5
  <2>7. /\ Grows(DscBlocks(p), DscBlocks(r))
        /\ DOMAIN r.svcs = DOMAIN p.svcs /\ ChrBlocks(r) = ChrBlocks(p)
    <3>1. r = PutDscs(p, i, j, Append(p.svcs[i].chrs[j].dscs, x))
        BY <2>6
    <3>2. /\ DOMAIN r.svcs = DOMAIN p.svcs /\ ChrBlocks(r) = ChrBlocks(p)
          /\ Grows(DscBlocks(p), DscBlocks(r))
        BY <1>2, <3>1, DscBlocksGrow
    <3> QED BY <3>2
  <2>8. r # p /\ r \in PeerRecord
      BY <2>6, <2>7 DEF Grows, Recorded
  <2>9. /\ Changes(DOMAIN p.svcs, DOMAIN r.svcs, "svc", k)
        /\ Changes(ChrBlocks(p), ChrBlocks(r), "chr", k)
        /\ Changes(DscBlocks(p), DscBlocks(r), "dsc", k)
      BY <2>1, <2>7 DEF Changes
  <2> QED BY <2>1, <2>8, <2>9 DEF p, k
<1> QED BY <1>1, <1>3, <1>4, <1>5 DEF Asking

LEMMA PoolFound ==
    ASSUME TableInv, PeerInv, PoolInv, NEW h \in Handle, Found(h), ~FailDiscovery(h)
    PROVE  PoolInv'
<1> DEFINE r == Added(h, Report(h)[proc[h].pos + 1])
           k == PoolOf(h)
<1>1. proc[h].kind # "none"
    BY ProcSteps DEF Discover, TableInv
<1>2. proc[h].pos < Len(Report(h)) /\ peer[h] # NoPeer
    BY <1>1, PeerOf DEF Found
<1>3. /\ r \in PeerRecord /\ r # peer[h] /\ PoolOf(h) \in {"svc", "chr", "dsc"}
      /\ Changes(DOMAIN peer[h].svcs, DOMAIN r.svcs, "svc", PoolOf(h))
      /\ Changes(ChrBlocks(peer[h]), ChrBlocks(r), "chr", PoolOf(h))
      /\ Changes(DscBlocks(peer[h]), DscBlocks(r), "dsc", PoolOf(h))
    BY <1>1, <1>2, ListGrows
<1>4. /\ pool[k] # 0 /\ peer' = [peer EXCEPT ![h] = r]
      /\ pool' = [pool EXCEPT ![k] = pool[k] - 1]
    BY <1>3 DEF Found
<1> HIDE DEF r, k
<1>5. k \in {"svc", "chr", "dsc"} /\ k \in {"svc", "chr", "dsc", "none"}
    BY <1>3 DEF k
<1>6. /\ pool' \in Sizes /\ pool'.peer = pool.peer
      /\ pool'.svc = IF "svc" = k THEN pool.svc - 1 ELSE pool.svc
      /\ pool'.chr = IF "chr" = k THEN pool.chr - 1 ELSE pool.chr
      /\ pool'.dsc = IF "dsc" = k THEN pool.dsc - 1 ELSE pool.dsc
    BY <1>4, <1>5, OneTaken
<1>7. /\ Changes(DOMAIN peer[h].svcs, DOMAIN r.svcs, "svc", k)
      /\ Changes(ChrBlocks(peer[h]), ChrBlocks(r), "chr", k)
      /\ Changes(DscBlocks(peer[h]), DscBlocks(r), "dsc", k)
    BY <1>3 DEF k
<1>8. r # NoPeer
    BY <1>3, BleNetAssumption
<1> QED BY <1>2, <1>4, <1>5, <1>6, <1>7, <1>8, PoolTakes

LEMMA PoolDiscovers ==
    ASSUME TableInv, PeerInv, PoolInv, NEW h \in Handle, Discover(h)
    PROVE  PoolInv'
<1>1. proc[h].kind # "none"
    BY ProcSteps DEF TableInv
<1>2. peer[h] # NoPeer /\ Recorded(peer[h], Gatt[link[h]]) /\ link[h] \in Device
    BY <1>1, PeerOf
<1>3. /\ peer = [k \in Handle |-> peer[k]]
      /\ \A i \in 1 .. Len(peer[h].svcs) : peer[h].svcs[i].start \in Nat
      /\ peer[h] \in PeerRecord
    BY <1>2, Shapes DEF PeerInv, Recorded, PeerRecord
<1>4. ASSUME NEW r, peer' = [peer EXCEPT ![h] = r], r \in PeerRecord, r.svcs = peer[h].svcs,
             pool' = pool
      PROVE  PoolInv'
  <2>1. r # NoPeer
      BY <1>4, BleNetAssumption
  <2> QED BY <1>2, <1>4, <2>1, PoolSame
<1>5. CASE FailDiscovery(h)
  <2>1. PeerDelete(h)
      BY <1>5 DEF FailDiscovery
  <2> QED BY <2>1, PoolDeletes
<1>6. CASE peer' = peer /\ pool' = pool
    BY <1>6 DEF PoolInv, Living, HeldSvcs, HeldChrs, HeldDscs, Balanced, Spread
<1>7. ASSUME NEW x, peer' = [peer EXCEPT ![h].prev = x] \/ peer' = [peer EXCEPT ![h].cur = x],
             x \in Nat, pool' = pool
      PROVE  PoolInv'
  <2> DEFINE p == peer[h]
  <2>1. /\ Recorded([p EXCEPT !.prev = x], Gatt[link[h]]) /\ [p EXCEPT !.prev = x].svcs = p.svcs
        /\ [p EXCEPT !.prev = x].cur = p.cur
        /\ Recorded([p EXCEPT !.cur = x], Gatt[link[h]]) /\ [p EXCEPT !.cur = x].svcs = p.svcs
        /\ [p EXCEPT !.cur = x].cur = x
      BY <1>2, <1>7, Prevs
  <2>2. /\ [p EXCEPT !.prev = x] \in PeerRecord /\ [p EXCEPT !.cur = x] \in PeerRecord
      BY <2>1 DEF Recorded
  <2>3. CASE peer' = [peer EXCEPT ![h].prev = x]
    <3>1. peer' = [peer EXCEPT ![h] = [p EXCEPT !.prev = x]]
        BY <2>3
    <3> QED BY <1>4, <1>7, <2>1, <2>2, <3>1
  <2>4. CASE peer' = [peer EXCEPT ![h].cur = x]
    <3>1. peer' = [peer EXCEPT ![h] = [p EXCEPT !.cur = x]]
        BY <2>4
    <3> QED BY <1>4, <1>7, <2>1, <2>2, <3>1
  <2> QED BY <1>7, <2>3, <2>4
<1>8. ASSUME CompleteOk(h) PROVE PoolInv'
  <2>1. peer' = [peer EXCEPT ![h].prev = 0] /\ pool' = pool
      BY <1>8 DEF CompleteOk
  <2> QED BY <1>7, <2>1
<1>9. ASSUME DiscDscs(h), ~FailDiscovery(h) PROVE PoolInv'
  <2> DEFINE open == OpenChrs(peer[h])
             ij   == FirstChr(open)
             chr  == peer[h].svcs[ij[1]].chrs[ij[2]]
  <2>1. CASE open = {}
      BY <1>8, <1>9, <2>1 DEF DiscDscs
  <2>2. CASE open # {}
    <3>1. peer' = [peer EXCEPT ![h].prev = chr.val] /\ pool' = pool
        BY <1>9, <2>2 DEF DiscDscs
    <3>2. chr.val \in Nat
        BY <1>3, <2>2, NextChr
    <3> QED BY <1>7, <3>1, <3>2
  <2> QED BY <2>1, <2>2
<1>10. ASSUME DiscChrs(h), ~FailDiscovery(h) PROVE PoolInv'
  <2> DEFINE open == OpenSvcs(peer[h])
             svc  == peer[h].svcs[FirstOf(open)]
  <2>1. CASE open = {}
      BY <1>9, <1>10, <2>1 DEF DiscChrs
  <2>2. CASE open # {}
    <3>1. peer' = [peer EXCEPT ![h].cur = svc.start] /\ pool' = pool
        BY <1>10, <2>2 DEF DiscChrs
    <3>2. svc.start \in Nat
      <4>1. open \subseteq 1 .. Len(peer[h].svcs) /\ open \subseteq Nat
          BY <1>3 DEF OpenSvcs, PeerRecord
      <4>2. FirstOf(open) \in open
          BY <2>2, <4>1, First
      <4> QED BY <1>3, <4>1, <4>2
    <3> QED BY <1>7, <3>1, <3>2
  <2> QED BY <2>1, <2>2
<1>11. CASE Done(h) /\ ~FailDiscovery(h)
    BY <1>6, <1>9, <1>10, <1>11 DEF Done
<1>12. CASE Found(h) /\ ~FailDiscovery(h)
    BY <1>12, PoolFound
<1> QED BY <1>5, <1>11, <1>12 DEF Discover, ProcFails

LEMMA PoolConnects ==
    ASSUME TableInv, PeerInv, PoolInv, NEW h \in Handle, Connected(h)
    PROVE  PoolInv'
<1>1. link[h] = NoDev /\ peer[h] = NoPeer /\ peer = [k \in Handle |-> peer[k]]
    BY DEF Connected, PeerInv
<1>2. CASE pool.peer = 0
  <2>1. peer' = peer /\ pool' = pool
      BY <1>2 DEF Connected
  <2> QED BY <2>1 DEF PoolInv, Living, HeldSvcs, HeldChrs, HeldDscs, Balanced, Spread
<1>3. CASE pool.peer # 0
  <2>1. peer' = [peer EXCEPT ![h] = NewPeer] /\ pool' = [pool EXCEPT !.peer = @ - 1]
      BY <1>1, <1>3 DEF Connected
  <2>2. NewPeer # NoPeer
    <3>1. NewPeer \in PeerRecord
        BY DEF NewPeer, PeerRecord
    <3> QED BY <3>1, BleNetAssumption
  <2> DEFINE s == pool.svc  c == pool.chr  d == pool.dsc  e == pool.peer
  <2>3. /\ pool = [svc |-> s, chr |-> c, dsc |-> d, peer |-> e]
        /\ s \in Nat /\ c \in Nat /\ d \in Nat /\ e \in Nat
      BY PoolType
  <2> HIDE DEF s, c, d, e
  <2>4. pool' = [svc |-> s, chr |-> c, dsc |-> d, peer |-> e - 1] /\ e # 0
      BY <1>3, <2>1, <2>3 DEF e
  <2>5. /\ pool'.svc = s + 0 - 0 /\ pool'.chr = c + 0 - 0 /\ pool'.dsc = d + 0 - 0
        /\ pool'.peer = e - 1 /\ e - 1 \in Nat /\ pool' \in Sizes
      BY <2>3, <2>4 DEF Sizes
  <2>6. /\ Cardinality(HeldSvcs[h]) = 0 /\ Cardinality(HeldChrs[h]) = 0
        /\ Cardinality(HeldDscs[h]) = 0 /\ IsFiniteSet({}) /\ Cardinality({}) = 0
      BY <1>1, FS_EmptySet DEF HeldSvcs, HeldChrs, HeldDscs, Held
  <2>7. /\ {} = Held(NewPeer, DOMAIN NewPeer.svcs) /\ {} = Held(NewPeer, ChrBlocks(NewPeer))
        /\ {} = Held(NewPeer, DscBlocks(NewPeer))
    <3>1. DOMAIN NewPeer.svcs = {}
        BY DEF NewPeer
    <3>2. ChrBlocks(NewPeer) = {} /\ DscBlocks(NewPeer) = {}
        BY <3>1 DEF ChrBlocks, DscBlocks
    <3> QED BY <3>1, <3>2 DEF Held
  <2>8. /\ pool'.svc = pool.svc + Cardinality(HeldSvcs[h]) - Cardinality({})
        /\ pool'.chr = pool.chr + Cardinality(HeldChrs[h]) - Cardinality({})
        /\ pool'.dsc = pool.dsc + Cardinality(HeldDscs[h]) - Cardinality({})
        /\ pool'.peer = pool.peer - 1 /\ pool' \in Sizes
    <3>1. /\ pool'.svc = s + Cardinality(HeldSvcs[h]) - Cardinality({})
          /\ pool'.chr = c + Cardinality(HeldChrs[h]) - Cardinality({})
          /\ pool'.dsc = d + Cardinality(HeldDscs[h]) - Cardinality({})
        BY <2>5, <2>6
    <3> QED BY <2>5, <3>1 DEF s, c, d, e
  <2> QED BY <1>1, <2>1, <2>2, <2>6, <2>7, <2>8, PoolPut
<1> QED BY <1>2, <1>3

LEMMA PoolStep ==
    ASSUME TableInv, PeerInv, PoolInv, [Next]_vars
    PROVE  PoolInv'
<1>1. ASSUME NEW h \in Handle, Disconnect(h) PROVE PoolInv'
    BY <1>1, PoolDeletes DEF Disconnect
<1>2. CASE peer' = peer /\ pool' = pool
    BY <1>2 DEF PoolInv, Living, HeldSvcs, HeldChrs, HeldDscs, Balanced, Spread
<1>3. CASE (\E d \in Device : Advertise(d)) \/ ConnectFailed \/ UNCHANGED vars
    BY <1>2, <1>3 DEF Advertise, ConnectFailed, vars
<1> QED BY <1>1, <1>3, PoolConnects, PoolDiscovers DEF Next

LEMMA PoolStart == Init => PoolInv
<1> SUFFICES ASSUME Init PROVE PoolInv
    OBVIOUS
<1>1. /\ peer = [k \in Handle |-> NoPeer] /\ pool = PoolSize
    BY DEF Init
<1>2. /\ HeldSvcs = [k \in Handle |-> {}] /\ HeldChrs = [k \in Handle |-> {}]
      /\ HeldDscs = [k \in Handle |-> {}] /\ Living = {}
    BY <1>1 DEF HeldSvcs, HeldChrs, HeldDscs, Held, Living
<1>3. IsFiniteSet({}) /\ Cardinality({}) = 0
    BY FS_EmptySet
<1>4. ASSUME NEW size \in Nat PROVE Balanced([k \in Handle |-> {}], size, size)
  <2> DEFINE F == [k \in Handle |-> {}]
  <2>1. Spread(F) = {}
      BY DEF Spread
  <2> QED BY <1>3, <2>1 DEF Balanced
<1>5. /\ PoolSize \in Sizes /\ PoolSize.svc \in Nat /\ PoolSize.chr \in Nat
      /\ PoolSize.dsc \in Nat /\ PoolSize.peer \in Nat
    BY BleNetAssumption DEF Sizes
<1>6. /\ Balanced(HeldSvcs, PoolSize.svc, pool.svc) /\ Balanced(HeldChrs, PoolSize.chr, pool.chr)
      /\ Balanced(HeldDscs, PoolSize.dsc, pool.dsc)
    BY <1>1, <1>2, <1>4, <1>5
<1>7. IsFiniteSet(Living) /\ Cardinality(Living) = PoolSize.peer - pool.peer
    BY <1>1, <1>2, <1>3, <1>5
<1> QED BY <1>1, <1>5, <1>6, <1>7 DEF PoolInv

(* No block of memory is lost or given back twice, whatever connects,      *)
(* fails, runs out of memory and disconnects in whatever order.            *)
THEOREM MemoryIsKept == MgrSpec => []NoBlockLost
<1>1. MgrInit => TableInv /\ PeerInv /\ PoolInv
    BY TableStart, PoolStart DEF MgrInit, Init, PeerInv, NoProc, Ask
<1>2. TableInv /\ PeerInv /\ PoolInv /\ [MgrNext]_mgrVars => (TableInv /\ PeerInv /\ PoolInv)'
    BY NetSteps, TableStep, PeerStep, PoolStep
<1>3. PoolInv => NoBlockLost
  <2> SUFFICES ASSUME PoolInv PROVE NoBlockLost
      OBVIOUS
  <2>1. /\ Spread(HeldSvcs) = UNION { {h} \X DOMAIN peer[h].svcs : h \in Living }
        /\ Spread(HeldChrs) = UNION { {h} \X ChrBlocks(peer[h]) : h \in Living }
        /\ Spread(HeldDscs) = UNION { {h} \X DscBlocks(peer[h]) : h \in Living }
    <3>1. Spread(HeldSvcs) = UNION { {h} \X DOMAIN peer[h].svcs : h \in Living }
        BY DEF Spread, HeldSvcs, Held, Living
    <3>2. Spread(HeldChrs) = UNION { {h} \X ChrBlocks(peer[h]) : h \in Living }
        BY DEF Spread, HeldChrs, Held, Living
    <3>3. Spread(HeldDscs) = UNION { {h} \X DscBlocks(peer[h]) : h \in Living }
        BY DEF Spread, HeldDscs, Held, Living
    <3> QED BY <3>1, <3>2, <3>3
  <2>2. /\ Cardinality(Living) = PoolSize.peer - pool.peer
        /\ Cardinality(Spread(HeldSvcs)) = PoolSize.svc - pool.svc
        /\ Cardinality(Spread(HeldChrs)) = PoolSize.chr - pool.chr
        /\ Cardinality(Spread(HeldDscs)) = PoolSize.dsc - pool.dsc
      BY DEF PoolInv, Balanced
  <2> QED BY <2>1, <2>2 DEF NoBlockLost, Missing
<1> QED BY <1>1, <1>2, <1>3, PTL DEF MgrSpec
=============================================================================
