----------------------------- MODULE NetworkProofs -----------------------------
(***************************************************************************)
(* Theorems about the network node: for every phone, access point, number  *)
(* of sockets, length of an image and sequence of versions.  The three     *)
(* parts share no variable that these invariants are about, so each has an *)
(* invariant of its own, and a step of one part is a stutter of the others.*)
(***************************************************************************)
EXTENDS NetworkNode, SequenceTheorems, TLAPS

serverCore == <<pending, master, cmd, last, calm>>

IsPair(x) == x = <<x[1], x[2]>>

ServerTypes ==
    /\ IsPair(master) /\ IsPair(last)
    /\ cmd = [at |-> cmd.at, to |-> cmd.to]
    /\ calm \in BOOLEAN

(* Between two declarations master is the one handled last; within one it  *)
(* has its address already.                                                *)
MasterIsLast ==
    IF pending = None THEN master = last
    ELSE master[1] = last[1] /\ pending = last[2]

(* A send that no declaration has disturbed sees one master all along.     *)
SendSeesOne ==
    calm =>
        /\ cmd.at \in {"look", "port", "addr"} => pending = None
        /\ cmd.at \in {"port", "addr"} => master[2] # 0
        /\ cmd.at = "addr" => cmd.to[2] = master[2]
        /\ cmd.at = "sent" => cmd.to = IF last[2] = 0 THEN <<"all", UdpPort>> ELSE last

ServerInv == ServerTypes /\ MasterIsLast /\ SendSeesOne

(* A power on.                                                             *)
LEMMA ServerBegins ==
    ASSUME pending = None, master = FirstMaster, last = FirstMaster,
           cmd = NoCmd, calm = TRUE
    PROVE  ServerInv
<1>1. ServerTypes
  BY DEF ServerTypes, IsPair, FirstMaster, NoMaster, NoCmd
<1>2. MasterIsLast
  BY DEF MasterIsLast
<1>3. SendSeesOne
  BY DEF SendSeesOne, NoCmd
<1> QED BY <1>1, <1>2, <1>3 DEF ServerInv

(* What does not touch the master or the command keeps the invariant.      *)
LEMMA ServerStutters == ServerInv /\ UNCHANGED serverCore => ServerInv'
<1> SUFFICES ASSUME ServerInv, UNCHANGED serverCore PROVE ServerInv'
  OBVIOUS
<1>1. pending' = pending /\ master' = master /\ cmd' = cmd /\ last' = last /\ calm' = calm
  BY DEF serverCore
<1>2. ServerTypes'
  BY <1>1 DEF ServerInv, ServerTypes, IsPair
<1>3. MasterIsLast'
  BY <1>1 DEF ServerInv, MasterIsLast
<1>4. SendSeesOne'
  BY <1>1 DEF ServerInv, SendSeesOne
<1> QED BY <1>2, <1>3, <1>4 DEF ServerInv

(* Each step of the listening task keeps it.                               *)
LEMMA ListenKeeps == ServerInv /\ ListenTask => ServerInv'
<1> SUFFICES ASSUME ServerInv, ListenTask PROVE ServerInv'
  OBVIOUS
<1> USE DEF ServerInv, ServerTypes, MasterIsLast, SendSeesOne, IsPair, UdpPort, None
<1>1. CASE Listen \/ TakeUrl \/ ListenAgain
  BY <1>1, ServerStutters DEF Listen, TakeUrl, ListenAgain, serverCore, serverVolatile
<1>2. CASE SaveMasterPort
  BY <1>2 DEF SaveMasterPort, Disturb
<1>3. ASSUME NEW d \in Masters, TfSaveMasterInfo(d) PROVE ServerInv'
  <2>1. pending = None /\ master = last /\ last' = d /\ calm' = (cmd.at = "idle") /\ cmd' = cmd
    BY <1>3 DEF TfSaveMasterInfo, Waits, Disturb
  <2>2. CASE Known(d)
    BY <2>1, <2>2, <1>3 DEF TfSaveMasterInfo, Known, Masters
  <2>3. CASE ~Known(d)
    <3>1. master' = <<d[1], master[2]>> /\ pending' = d[2]
      BY <2>1, <2>3, <1>3 DEF TfSaveMasterInfo
    <3>2. pending' # None /\ d = <<d[1], d[2]>>
      BY <3>1 DEF Masters
    <3>3. MasterIsLast'
      BY <3>1, <3>2, <2>1
    <3> QED BY <3>1, <3>2, <3>3, <2>1
  <2> QED BY <2>2, <2>3
<1> QED BY <1>1, <1>2, <1>3 DEF ListenTask

(* Each step of a send keeps it.                                           *)
LEMMA SendKeeps == ServerInv /\ SendTask => ServerInv'
<1> SUFFICES ASSUME ServerInv, SendTask PROVE ServerInv'
  OBVIOUS
<1> USE DEF ServerInv, ServerTypes, MasterIsLast, SendSeesOne, IsPair, UdpPort, None
<1>1. CASE BeginSend
  BY <1>1 DEF BeginSend, NoMaster
<1>2. CASE LookForMaster
  BY <1>2 DEF LookForMaster
<1>3. CASE ReadPort
  BY <1>3 DEF ReadPort
<1>4. CASE SendP2P
  BY <1>4 DEF SendP2P
<1> QED BY <1>1, <1>2, <1>3, <1>4 DEF SendTask

(* A command goes to the master declared last (udp_send_cmd_to_master and  *)
(* tf_save_master_info), whatever the declarations and whenever the power  *)
(* fails.                                                                  *)
THEOREM CommandsArrive == Spec => []CommandsReachMaster
<1>1. Init => ServerInv
  BY ServerBegins DEF Init, ServerInit, ServerStarts
<1>2. ServerInv /\ [Next]_vars => ServerInv'
  <2> SUFFICES ASSUME ServerInv, [Next]_vars PROVE ServerInv'
    OBVIOUS
  <2>1. CASE Link \/ Update \/ UNCHANGED vars
    BY <2>1, ServerStutters
       DEF Link, Update, LinkOnly, UpdateOnly, vars, serverVars, serverVolatile, serverCore
  <2>2. CASE Serve
    BY <2>2, ServerStutters, ListenKeeps, SendKeeps DEF Serve, LogTask, serverCore
  <2>3. CASE PowerFails
    BY <2>3 DEF PowerFails, ServerReset, ServerStarts, ServerInv, ServerTypes, MasterIsLast,
                SendSeesOne, FirstMaster, NoMaster, NoCmd, IsPair, UdpPort, None
  <2> QED BY <2>1, <2>2, <2>3 DEF Next
<1>3. ServerInv => CommandsReachMaster
  BY DEF ServerInv, SendSeesOne, CommandsReachMaster
<1> QED BY <1>1, <1>2, <1>3, PTL DEF Spec

-----------------------------------------------------------------------------
Image == [ver : Nat, parts : 0 .. Parts]

OtaTypes ==
    /\ flash \in [Slots -> Image] /\ boot \in Slots /\ runs \in Slots
    /\ offer \in Nat
    /\ ota \in {"off", "open", "read", "end", "boot", "restart", "unwritten"}

(* The program that runs is whole, and it is the one that a restart brings *)
(* again unless the update has come to its end; the server, and then the   *)
(* other partition, has a newer one from the question for its version on.  *)
UpdateIsSafe ==
    /\ Whole(flash[runs])
    /\ boot = IF ota = "restart" THEN Other ELSE runs
    /\ ota = "open" => offer > flash[runs].ver
    /\ ota \in {"read", "end", "boot", "restart"} => flash[Other].ver > flash[runs].ver
    /\ ota \in {"boot", "restart"} => Whole(flash[Other])

OtaInv == OtaTypes /\ UpdateIsSafe

(* A restart keeps the invariant: what it brings is whole.                 *)
LEMMA ResetKeeps == OtaInv /\ OtaReset => OtaInv'
  BY DEF OtaInv, OtaTypes, UpdateIsSafe, OtaReset, Whole, Other, Slots, Image

(* Each step of the update keeps it.                                       *)
LEMMA UpdateKeeps == OtaInv /\ (OtaTask \/ Publish) => OtaInv'
<1> SUFFICES ASSUME OtaInv, OtaTask \/ Publish PROVE OtaInv'
  OBVIOUS
<1> USE OtaAssumption DEF OtaInv, OtaTypes, UpdateIsSafe, Whole, Other, Slots, Image, Passes
<1>1. CASE AskVersion
  BY <1>1 DEF AskVersion
<1>2. CASE FailToStart
  BY <1>2 DEF FailToStart
<1>3. CASE Begin
  BY <1>3 DEF Begin
<1>4. CASE ReadAndWrite
  BY <1>4 DEF ReadAndWrite
<1>5. CASE FailToWrite
  BY <1>5 DEF FailToWrite
<1>6. CASE NoMore
  BY <1>6 DEF NoMore
<1>7. CASE EndOta
  BY <1>7 DEF EndOta, EndChecked
<1>8. CASE SetBoot
  BY <1>8 DEF SetBoot
<1>9. CASE EspRestart
  BY <1>9, ResetKeeps DEF EspRestart
<1>10. CASE Publish
  BY <1>10 DEF Publish
<1> QED BY <1>1, <1>2, <1>3, <1>4, <1>5, <1>6, <1>7, <1>8, <1>9, <1>10 DEF OtaTask

(* ota_check_and_update restarts into a program that is whole and newer,   *)
(* whatever fails before it and whenever the power does.                   *)
THEOREM UpdateIsNewer == Spec => UpdatesRestartIntoNewer
<1>1. Init => OtaInv
  BY OtaAssumption DEF Init, OtaInit, OtaInv, OtaTypes, UpdateIsSafe, Whole, Other, Slots, Image
<1>2. OtaInv /\ UNCHANGED otaVars => OtaInv'
  BY DEF OtaInv, OtaTypes, UpdateIsSafe, otaVars, Whole, Other
<1>3. OtaInv /\ [Next]_vars => OtaInv'
  <2> SUFFICES ASSUME OtaInv, [Next]_vars PROVE OtaInv'
    OBVIOUS
  <2>1. CASE Link \/ Serve \/ UNCHANGED vars
    BY <2>1, <1>2 DEF Link, Serve, LinkOnly, ServerOnly, vars
  <2>2. CASE Update
    BY <2>2, UpdateKeeps DEF Update
  <2>3. CASE PowerFails
    BY <2>3, ResetKeeps DEF PowerFails
  <2> QED BY <2>1, <2>2, <2>3 DEF Next
<1>4. OtaInv /\ [Next]_vars =>
        [ota = "restart" /\ ota' # "restart" =>
            Whole(flash[runs']) /\ flash[runs'].ver > flash[runs].ver]_otaVars
  <2> SUFFICES ASSUME OtaInv, [Next]_vars, ota = "restart", ota' # "restart"
               PROVE  Whole(flash[runs']) /\ flash[runs'].ver > flash[runs].ver
    OBVIOUS
  <2>1. OtaReset => Whole(flash[runs']) /\ flash[runs'].ver > flash[runs].ver
    BY DEF OtaReset, OtaInv, UpdateIsSafe
  <2>2. CASE Link \/ Serve \/ UNCHANGED vars
    BY <2>2 DEF Link, Serve, LinkOnly, ServerOnly, vars, otaVars
  <2>3. CASE Update
    BY <2>3, <2>1 DEF Update, OtaTask, Publish, AskVersion, FailToStart, Begin, ReadAndWrite,
                      FailToWrite, NoMore, EndOta, EndChecked, SetBoot, EspRestart, Passes
  <2>4. CASE PowerFails
    BY <2>4, <2>1 DEF PowerFails
  <2> QED BY <2>2, <2>3, <2>4 DEF Next
<1> QED BY <1>1, <1>3, <1>4, PTL DEF Spec, UpdatesRestartIntoNewer

-----------------------------------------------------------------------------
Names  == Phone \cup {"none", "", "gateway"}
Pairs  == [ssid : Names, pass : Names]
Events == [is : {"start", "disconnected", "ip", "cred", "acked"}, of : Names]

Halves == {"ssid", "pass"}

WifiTypes ==
    /\ cred \in Pairs /\ ram \in Pairs /\ cfg \in Pairs
    /\ save \in [at : {"no", "ssid", "pass"}, what : Pairs, in : {"main", "loop"}]
    /\ stale \subseteq Halves
    /\ events \in Seq(Events)

(* Until wifi_init has read the credentials there is no link and no event, *)
(* and only then does the main task write.                                 *)
BootIsQuiet ==
    /\ init \in {"off", "role", "read"} => station = "off" /\ events = <<>> /\ sc = "none"
    /\ save.at # "no" /\ save.in = "main" => station = "off"

(* What the event loop is writing is what it holds in RAM, and that is     *)
(* what the link was made with.                                            *)
SaveOfRam ==
    save.at # "no" /\ save.in = "loop" =>
        /\ save.what = ram
        /\ save.at = "pass" /\ "ssid" \notin stale => cred["ssid"] = ram["ssid"]

LinkOfRam ==
    /\ cfg = ram \/ cfg = Nothing
    /\ station = "joined" => cfg = ram

WifiInv == WifiTypes /\ BootIsQuiet /\ SaveOfRam /\ LinkOfRam /\ FlashKeepsLink

(* What is left of a queue, element by element.                            *)
LEMMA OfTail ==
    ASSUME NEW S, NEW s \in Seq(S), s # <<>>
    PROVE  /\ Head(s) = s[1] /\ 1 \in 1 .. Len(s) /\ Tail(s) \in Seq(S)
           /\ \A i \in 1 .. Len(Tail(s)) : i + 1 \in 1 .. Len(s) /\ Tail(s)[i] = s[i + 1]
<1>1. Tail(s) \in Seq(S) /\ Len(Tail(s)) = Len(s) - 1
      /\ \A i \in 1 .. Len(Tail(s)) : Tail(s)[i] = s[i + 1]
  BY HeadTailProperties
<1>2. Len(s) \in Nat \ {0}
  BY EmptySeq
<1>3. Head(s) = s[1]
  OBVIOUS
<1>4. 1 \in 1 .. Len(s)
  <2> DEFINE n == Len(s)
  <2> HIDE DEF n
  <2>1. n \in Nat \ {0}
    BY <1>2 DEF n
  <2>2. 1 \in 1 .. n
    BY <2>1
  <2> QED BY <2>2 DEF n
<1>5. \A i \in 1 .. Len(Tail(s)) : i + 1 \in 1 .. Len(s)
  <2> DEFINE n == Len(s) m == Len(Tail(s))
  <2> HIDE DEF n, m
  <2>1. n \in Nat \ {0} /\ m = n - 1
    BY <1>1, <1>2 DEF n, m
  <2>2. \A i \in 1 .. m : i + 1 \in 1 .. n
    BY <2>1
  <2> QED BY <2>2 DEF n, m
<1> QED BY <1>1, <1>3, <1>4, <1>5

(* What one more element makes of it.                                      *)
LEMMA OfAppend ==
    ASSUME NEW S, NEW s \in Seq(S), NEW e \in S
    PROVE  /\ s \o <<e>> \in Seq(S)
           /\ \A i \in 1 .. Len(s \o <<e>>) :
                \/ i \in 1 .. Len(s) /\ (s \o <<e>>)[i] = s[i]
                \/ (s \o <<e>>)[i] = e
<1>1. s \o <<e>> = Append(s, e)
  BY AppendIsConcat
<1>2. /\ Append(s, e) \in Seq(S) /\ Len(Append(s, e)) = Len(s) + 1
      /\ \A i \in 1 .. Len(s) : Append(s, e)[i] = s[i]
      /\ Append(s, e)[Len(s) + 1] = e
  BY AppendProperties
<1>3. \A i \in 1 .. Len(s) + 1 : i \in 1 .. Len(s) \/ i = Len(s) + 1
  <2> DEFINE n == Len(s)
  <2> HIDE DEF n
  <2>1. n \in Nat
    BY LenProperties DEF n
  <2>2. \A i \in 1 .. n + 1 : i \in 1 .. n \/ i = n + 1
    BY <2>1
  <2> QED BY <2>2 DEF n
<1>4. \A i \in 1 .. Len(s) + 1 :
          \/ i \in 1 .. Len(s) /\ Append(s, e)[i] = s[i]
          \/ Append(s, e)[i] = e
  BY <1>2, <1>3, Zenon
<1> QED BY <1>1, <1>2, <1>4, Zenon

(* A queue of one element.                                                 *)
LEMMA OfOne ==
    ASSUME NEW S, NEW e \in S
    PROVE  /\ <<e>> \in Seq(S)
           /\ \A i \in 1 .. Len(<<e>>) : <<e>>[i] = e
<1> DEFINE s == <<e>> n == Len(s)
<1>1. s \in Seq(S) /\ n = 1 /\ s[1] = e
  OBVIOUS
<1> HIDE DEF s, n
<1>2. \A i \in 1 .. n : i = 1
  BY <1>1
<1>3. \A i \in 1 .. n : s[i] = e
  BY <1>1, <1>2
<1> QED BY <1>1, <1>3 DEF n, s

(* A power on: nothing is queued, and nothing being saved.                 *)
LEMMA WifiBegins ==
    ASSUME WifiStarts(save, ram, need, bits, init, sc, station, cfg, events, sent),
           cred \in Pairs, stale \subseteq Halves
    PROVE  WifiInv
<1>1. /\ save = NoSave /\ ram = Nothing /\ cfg = Nothing /\ events = <<>>
      /\ station = "off" /\ sc = "none"
  BY DEF WifiStarts
<1>2. Nothing \in Pairs
  BY DEF Nothing, Pair, Pairs, Names
<1>3. save \in [at : {"no", "ssid", "pass"}, what : Pairs, in : {"main", "loop"}]
      /\ save.at = "no"
  BY <1>1, <1>2 DEF NoSave
<1>4. events \in Seq(Events)
  BY <1>1
<1> QED BY <1>1, <1>2, <1>3, <1>4
        DEF WifiInv, WifiTypes, BootIsQuiet, SaveOfRam, LinkOfRam, FlashKeepsLink

(* One half is written, or refused. *)
LEMMA WriteEffect ==
    ASSUME WifiTypes, NEW half \in Halves, Write(half)
    PROVE  /\ cred' \in Pairs /\ stale' \subseteq Halves
           /\ half \notin stale' => cred'[half] = save.what[half]
           /\ \A other \in Halves \ {half} :
                 cred'[other] = cred[other] /\ (other \in stale' <=> other \in stale)
<1>1. cred \in Pairs /\ save.what \in Pairs /\ stale \subseteq Halves
  BY DEF WifiTypes
<1>2. save.what[half] \in Names
  BY <1>1 DEF Pairs, Halves
<1>3. CASE cred' = [cred EXCEPT ![half] = save.what[half]] /\ stale' = stale \ {half}
  BY <1>1, <1>2, <1>3 DEF Pairs, Halves
<1>4. CASE UNCHANGED cred /\ stale' = stale \cup {half}
  BY <1>1, <1>4
<1> QED BY <1>3, <1>4 DEF Write

(* What leaves flash, the credentials in use and the link alone, and keeps *)
(* an address that waits.                                                  *)
LEMMA WifiStutters ==
    ASSUME WifiInv, UNCHANGED <<cred, stale, save, ram, cfg>>,
           station' = "joined" => station = "joined",
           init' \in {"off", "role", "read"} => UNCHANGED <<init, station, events, sc>>,
           save.at # "no" /\ save.in = "main" => station' = station,
           events' \in Seq(Events), AddressWaits => AddressWaits'
    PROVE  WifiInv'
<1>1. WifiTypes' /\ BootIsQuiet'
  BY DEF WifiInv, WifiTypes, BootIsQuiet
<1>2. SaveOfRam' /\ LinkOfRam'
  BY DEF WifiInv, SaveOfRam, LinkOfRam
<1>3. FlashKeepsLink'
  BY DEF WifiInv, FlashKeepsLink, Saved
<1> QED BY <1>1, <1>2, <1>3 DEF WifiInv

(* The first event is handled, and perhaps a disconnection queued.         *)
LEMMA TailKeeps ==
    ASSUME WifiTypes, events # <<>>,
           \/ events' = Tail(events)
           \/ events' = Tail(events) \o <<>>
           \/ events' = Tail(events) \o <<Event("disconnected", "")>>
    PROVE  events' \in Seq(Events) /\ Head(events) \in Events
<1>1. events \in Seq(Events) /\ Event("disconnected", "") \in Events
  BY DEF WifiTypes, Event, Events, Names
<1>2. Head(events) \in Events /\ Tail(events) \in Seq(Events)
  BY <1>1, HeadTailProperties
<1>3. Tail(events) \o <<>> = Tail(events)
  BY <1>2, ConcatEmptySeq
<1>4. Tail(events) \o <<Event("disconnected", "")>> \in Seq(Events)
  BY <1>1, <1>2, OfAppend
<1> QED BY <1>2, <1>3, <1>4

(* An address that is not at the head still waits when the head is gone.   *)
LEMMA TailWaits ==
    ASSUME WifiTypes, events # <<>>, Head(events).is # "ip", events' = Tail(events),
           AddressWaits
    PROVE  AddressWaits'
<1>1. PICK i \in 1 .. Len(events) : events[i].is = "ip"
  BY DEF AddressWaits
<1>2. /\ Len(events) \in Nat /\ Head(events) = events[1]
      /\ Len(Tail(events)) = Len(events) - 1
      /\ \A j \in 1 .. Len(Tail(events)) : Tail(events)[j] = events[j + 1]
  BY HeadTailProperties, LenProperties DEF WifiTypes
<1>3. i # 1
  BY <1>1, <1>2
<1>4. i - 1 \in 1 .. Len(Tail(events)) /\ (i - 1) + 1 = i
  <2> DEFINE n == Len(events) m == Len(Tail(events))
  <2> HIDE DEF n, m
  <2>1. n \in Nat /\ m = n - 1 /\ i \in 1 .. n
    BY <1>2 DEF n, m
  <2>2. i - 1 \in 1 .. m /\ (i - 1) + 1 = i
    BY <1>3, <2>1
  <2> QED BY <2>2 DEF m
<1>5. Tail(events)[i - 1].is = "ip"
  BY <1>1, <1>2, <1>4
<1> QED BY <1>4, <1>5 DEF AddressWaits

(* An event is queued: no address is lost, and a new one waits.            *)
LEMMA TellKeeps ==
    ASSUME WifiTypes, NEW e, NEW of, Event(e, of) \in Events, Tell(e, of)
    PROVE  /\ events' \in Seq(Events)
           /\ AddressWaits \/ e = "ip" => AddressWaits'
<1>1. events' = Append(events, Event(e, of)) /\ events \in Seq(Events)
  BY DEF Tell, WifiTypes
<1>2. /\ events' \in Seq(Events) /\ Len(events') = Len(events) + 1
      /\ \A i \in 1 .. Len(events) : events'[i] = events[i]
      /\ events'[Len(events) + 1] = Event(e, of)
      /\ Len(events) \in Nat
  BY <1>1, AppendProperties, LenProperties
<1>3. Len(events) + 1 \in 1 .. Len(events')
      /\ \A i \in 1 .. Len(events) : i \in 1 .. Len(events')
  <2> DEFINE n == Len(events) m == Len(events')
  <2> HIDE DEF n, m
  <2>1. n \in Nat /\ m = n + 1
    BY <1>2 DEF n, m
  <2>2. n + 1 \in 1 .. m /\ \A i \in 1 .. n : i \in 1 .. m
    BY <2>1
  <2> QED BY <2>2 DEF n, m
<1>4. ASSUME AddressWaits PROVE AddressWaits'
  <2>1. PICK i \in 1 .. Len(events) : events[i].is = "ip"
    BY <1>4 DEF AddressWaits
  <2>2. i \in 1 .. Len(events') /\ events'[i].is = "ip"
    BY <1>2, <1>3, <2>1
  <2> QED BY <2>2 DEF AddressWaits
<1>5. ASSUME e = "ip" PROVE AddressWaits'
  <2>1. events'[Len(events) + 1].is = "ip"
    BY <1>2, <1>5 DEF Event
  <2> QED BY <1>3, <2>1 DEF AddressWaits
<1> QED BY <1>2, <1>4, <1>5

(* The writes, of either task. *)
LEMMA SaveKeeps == WifiInv /\ (SaveSsid \/ SavePass) => WifiInv'
<1> SUFFICES ASSUME WifiInv, SaveSsid \/ SavePass PROVE WifiInv'
  OBVIOUS
<1>0. WifiTypes /\ BootIsQuiet /\ SaveOfRam /\ LinkOfRam /\ FlashKeepsLink
  BY DEF WifiInv
<1>1. UNCHANGED <<ram, init, sc, station, cfg, events>>
  BY DEF SaveSsid, SavePass
<1>2. LinkOfRam'
  BY <1>0, <1>1 DEF LinkOfRam
<1>3. CASE SaveSsid
  <2>1. /\ save.at = "ssid" /\ save' = [save EXCEPT !.at = "pass"] /\ Write("ssid")
        /\ "ssid" \in Halves
    BY <1>3 DEF SaveSsid, Halves
  <2>2. /\ cred' \in Pairs /\ stale' \subseteq Halves
        /\ "ssid" \notin stale' => cred'["ssid"] = save.what["ssid"]
    BY <1>0, <2>1, WriteEffect
  <2>3. /\ save'.at = "pass" /\ save'.what = save.what /\ save'.in = save.in
        /\ save' \in [at : {"no", "ssid", "pass"}, what : Pairs, in : {"main", "loop"}]
    BY <1>0, <2>1 DEF WifiTypes
  <2>4. WifiTypes' /\ BootIsQuiet'
    BY <1>0, <1>1, <2>1, <2>2, <2>3 DEF WifiTypes, BootIsQuiet
  <2>5. SaveOfRam'
    BY <1>0, <1>1, <2>1, <2>2, <2>3 DEF SaveOfRam
  <2>6. FlashKeepsLink'
    BY <2>3 DEF FlashKeepsLink, Saved
  <2> QED BY <1>2, <2>4, <2>5, <2>6 DEF WifiInv
<1>4. CASE SavePass
  <2>1. /\ save.at = "pass" /\ save' = NoSave /\ Write("pass")
        /\ "pass" \in Halves /\ "ssid" \in Halves \ {"pass"}
    BY <1>4 DEF SavePass, Halves
  <2>2. /\ cred' \in Pairs /\ stale' \subseteq Halves
        /\ "pass" \notin stale' => cred'["pass"] = save.what["pass"]
        /\ cred'["ssid"] = cred["ssid"] /\ ("ssid" \in stale' <=> "ssid" \in stale)
    BY <1>0, <2>1, WriteEffect
  <2>3. /\ save'.at = "no" /\ Nothing \in Pairs
        /\ save' \in [at : {"no", "ssid", "pass"}, what : Pairs, in : {"main", "loop"}]
    BY <2>1 DEF NoSave, Nothing, Pair, Pairs, Names
  <2>4. WifiTypes' /\ BootIsQuiet'
    BY <1>0, <1>1, <2>2, <2>3 DEF WifiTypes, BootIsQuiet
  <2>5. SaveOfRam'
    BY <2>3 DEF SaveOfRam
  <2>6. FlashKeepsLink'
    <3> SUFFICES ASSUME station' = "joined", NEW half \in Halves, half \notin stale'
                 PROVE  cred'[half] = cfg'[half]
      BY DEF FlashKeepsLink, Halves
    <3>1. save.in = "loop" /\ save.what = ram /\ cfg' = ram
      BY <1>0, <1>1, <2>1 DEF WifiTypes, BootIsQuiet, SaveOfRam, LinkOfRam
    <3>2. CASE half = "pass"
      BY <2>2, <3>1, <3>2
    <3>3. CASE half = "ssid"
      BY <1>0, <2>1, <2>2, <3>1, <3>3 DEF SaveOfRam
    <3> QED BY <3>2, <3>3 DEF Halves
  <2> QED BY <1>2, <2>4, <2>5, <2>6 DEF WifiInv
<1> QED BY <1>3, <1>4

(* Before the link. *)
LEMMA BootKeeps == WifiInv /\ (CheckButton \/ SetRole \/ ReadCred) => WifiInv'
<1> SUFFICES ASSUME WifiInv, CheckButton \/ SetRole \/ ReadCred PROVE WifiInv'
  OBVIOUS
<1>0. WifiTypes /\ BootIsQuiet /\ LinkOfRam
  BY DEF WifiInv
<1>1. Nothing \in Pairs /\ Pair("gateway") \in Pairs
  BY DEF Nothing, Pair, Pairs, Names
<1>2. CASE CheckButton \/ SetRole
  <2>1. /\ init \in {"off", "role"} /\ init' \in {"role", "read"}
        /\ UNCHANGED <<cred, stale, ram, sc, station, cfg, events>>
        /\ \/ save' = save
           \/ save' = [at |-> "ssid", what |-> Nothing, in |-> "main"]
           \/ save' = [at |-> "ssid", what |-> Pair("gateway"), in |-> "main"]
    BY <1>2 DEF CheckButton, SetRole, BeginSave
  <2>2. station = "off"
    BY <1>0, <2>1 DEF BootIsQuiet
  <2>3. save' \in [at : {"no", "ssid", "pass"}, what : Pairs, in : {"main", "loop"}]
    BY <1>0, <1>1, <2>1 DEF WifiTypes
  <2>4. WifiTypes' /\ BootIsQuiet'
    BY <1>0, <2>1, <2>2, <2>3 DEF WifiTypes, BootIsQuiet
  <2>5. SaveOfRam'
    BY <2>1 DEF WifiInv, SaveOfRam
  <2>6. LinkOfRam' /\ FlashKeepsLink'
    BY <1>0, <2>1, <2>2 DEF LinkOfRam, FlashKeepsLink
  <2> QED BY <2>4, <2>5, <2>6 DEF WifiInv
<1>3. CASE ReadCred
  <2>1. /\ UNCHANGED <<cred, save, stale>> /\ save.at = "no"
        /\ station' = "idle" /\ init' = "wait"
        /\ events' = <<Event("start", "")>> /\ Event("start", "") \in Events
    BY <1>3 DEF ReadCred, Saved, Event, Events, Names
  <2>2. /\ ram' \in Pairs /\ cfg' \in Pairs
        /\ cfg' = ram' \/ cfg' = Nothing
    BY <1>0, <1>1, <1>3 DEF ReadCred, WifiTypes
  <2>3. events' \in Seq(Events)
    BY <2>1, OfOne
  <2>4. WifiTypes' /\ BootIsQuiet' /\ SaveOfRam'
    BY <1>0, <2>1, <2>2, <2>3 DEF WifiTypes, BootIsQuiet, SaveOfRam
  <2>5. LinkOfRam' /\ FlashKeepsLink'
    BY <2>1, <2>2 DEF LinkOfRam, FlashKeepsLink
  <2> QED BY <2>4, <2>5 DEF WifiInv
<1> QED BY <1>2, <1>3

(* The event loop's handlers. *)
LEMMA HandlersKeep ==
    WifiInv /\ (HandleStart \/ HandleDisconnected \/ HandleGotIp \/ HandleAckDone \/ HandleCred)
        => WifiInv'
<1> SUFFICES ASSUME WifiInv,
                    HandleStart \/ HandleDisconnected \/ HandleGotIp \/ HandleAckDone \/ HandleCred
             PROVE  WifiInv'
  OBVIOUS
<1>0. WifiTypes /\ BootIsQuiet /\ LinkOfRam
  BY DEF WifiInv
<1>1. /\ events # <<>> /\ save.at = "no"
      /\ UNCHANGED <<cred, stale, init>> /\ init \notin {"off", "role", "read"}
  BY <1>0 DEF HandleStart, HandleDisconnected, HandleGotIp, HandleAckDone, HandleCred, JoinAnew,
              Handles, Saved, BootIsQuiet
<1>2. CASE HandleStart \/ HandleDisconnected \/ HandleAckDone
  <2>1. /\ UNCHANGED <<save, ram, cfg>> /\ Head(events).is # "ip" /\ events' = Tail(events)
        /\ station' = "joined" => station = "joined"
    BY <1>2 DEF HandleStart, HandleDisconnected, HandleAckDone, Handles, Connected
  <2>2. events' \in Seq(Events)
    BY <1>0, <1>1, <2>1, TailKeeps
  <2>3. AddressWaits => AddressWaits'
    BY <1>0, <1>1, <2>1, TailWaits
  <2> QED BY <1>1, <2>1, <2>2, <2>3, WifiStutters
<1>3. CASE HandleGotIp
  <2>1. /\ UNCHANGED <<ram, cfg, station>> /\ events' = Tail(events)
        /\ save' = [at |-> "ssid", what |-> ram, in |-> "loop"]
    BY <1>3 DEF HandleGotIp, BeginSave
  <2>2. events' \in Seq(Events)
    BY <1>0, <1>1, <2>1, TailKeeps
  <2>3. WifiTypes' /\ BootIsQuiet' /\ SaveOfRam'
    BY <1>0, <1>1, <2>1, <2>2 DEF WifiTypes, BootIsQuiet, SaveOfRam
  <2>4. LinkOfRam' /\ FlashKeepsLink'
    BY <1>0, <2>1 DEF LinkOfRam, FlashKeepsLink, Saved
  <2> QED BY <2>3, <2>4 DEF WifiInv
<1>4. CASE HandleCred
  <2>1. /\ UNCHANGED save /\ station' = "joining"
        /\ cfg' = Pair(Head(events).of) /\ ram' = cfg'
        /\ \/ events' = Tail(events) \o <<>>
           \/ events' = Tail(events) \o <<Event("disconnected", "")>>
    BY <1>4 DEF HandleCred, JoinAnew
  <2>2. events' \in Seq(Events) /\ Head(events) \in Events
    BY <1>0, <1>1, <2>1, TailKeeps
  <2>3. ram' \in Pairs /\ cfg' \in Pairs
    BY <2>1, <2>2 DEF Pair, Pairs, Events
  <2>4. WifiTypes' /\ BootIsQuiet' /\ SaveOfRam'
    BY <1>0, <1>1, <2>1, <2>2, <2>3 DEF WifiTypes, BootIsQuiet, SaveOfRam
  <2>5. LinkOfRam' /\ FlashKeepsLink'
    BY <2>1 DEF LinkOfRam, FlashKeepsLink
  <2> QED BY <2>4, <2>5 DEF WifiInv
<1> QED BY <1>2, <1>3, <1>4

(* The driver, the access point and the phone. *)
LEMMA OutsideKeeps == WifiInv /\ (Join \/ LoseLink \/ PhoneSends \/ PhoneGetsAck) => WifiInv'
<1> SUFFICES ASSUME WifiInv, Join \/ LoseLink \/ PhoneSends \/ PhoneGetsAck PROVE WifiInv'
  OBVIOUS
<1>0. WifiTypes /\ BootIsQuiet /\ SaveOfRam /\ LinkOfRam
  BY DEF WifiInv
<1>1. UNCHANGED <<cred, stale, save, ram, cfg, init, sc>>
  BY DEF Join, LoseLink, PhoneSends, PhoneGetsAck
<1>2. init \notin {"off", "role", "read"}
  BY <1>0 DEF BootIsQuiet, Join, LoseLink, PhoneSends, PhoneGetsAck
<1>3. /\ Event("ip", "") \in Events /\ Event("disconnected", "") \in Events
      /\ Event("acked", "") \in Events /\ \A p \in Phone : Event("cred", p) \in Events
  BY DEF Event, Events, Names
<1>4. CASE Join
  <2>1. station = "joining" /\ (save.at = "no" \/ save.in = "loop")
    BY <1>0, <1>4 DEF Join, BootIsQuiet, WifiTypes
  <2>2. CASE Accepts(cfg) /\ station' = "joined" /\ Tell("ip", "")
    <3>1. events' \in Seq(Events) /\ AddressWaits'
      BY <1>0, <1>3, <2>2, TellKeeps
    <3>2. cfg = ram
      <4>1. cfg.ssid \in Accepted \cup {"gateway"}
        BY <2>2 DEF Accepts
      <4>2. Nothing.ssid = ""
        BY DEF Nothing, Pair
      <4>3. cfg # Nothing
        BY <4>1, <4>2, "" # "gateway", WifiAssumption
      <4> QED BY <1>0, <4>3 DEF LinkOfRam
    <3>3. WifiTypes' /\ BootIsQuiet' /\ SaveOfRam' /\ LinkOfRam'
      BY <1>0, <1>1, <1>2, <2>1, <3>1, <3>2 DEF WifiTypes, BootIsQuiet, SaveOfRam, LinkOfRam
    <3>4. FlashKeepsLink'
      BY <3>1 DEF FlashKeepsLink
    <3> QED BY <3>3, <3>4 DEF WifiInv
  <2>3. CASE station' = "failed" /\ Tell("disconnected", "")
    <3>1. events' \in Seq(Events)
      BY <1>0, <1>3, <2>3, TellKeeps
    <3>2. WifiTypes' /\ BootIsQuiet' /\ SaveOfRam' /\ LinkOfRam' /\ FlashKeepsLink'
      BY <1>0, <1>1, <1>2, <2>1, <2>3, <3>1
         DEF WifiTypes, BootIsQuiet, SaveOfRam, LinkOfRam, FlashKeepsLink
    <3> QED BY <3>2 DEF WifiInv
  <2> QED BY <1>4, <2>2, <2>3 DEF Join
<1>5. CASE LoseLink
  <2>1. station = "joined" /\ station' = "failed" /\ Tell("disconnected", "")
    BY <1>5 DEF LoseLink
  <2>2. events' \in Seq(Events) /\ (save.at = "no" \/ save.in = "loop")
    BY <1>0, <1>3, <2>1, TellKeeps DEF BootIsQuiet, WifiTypes
  <2>3. WifiTypes' /\ BootIsQuiet' /\ SaveOfRam' /\ LinkOfRam' /\ FlashKeepsLink'
    BY <1>0, <1>1, <1>2, <2>1, <2>2
       DEF WifiTypes, BootIsQuiet, SaveOfRam, LinkOfRam, FlashKeepsLink
  <2> QED BY <2>3 DEF WifiInv
<1>6. CASE PhoneSends \/ PhoneGetsAck
  <2>1. /\ UNCHANGED station
        /\ Tell("acked", "") \/ \E p \in Phone : Tell("cred", p)
    BY <1>6 DEF PhoneSends, PhoneGetsAck
  <2>2. events' \in Seq(Events) /\ (AddressWaits => AddressWaits')
    BY <1>0, <1>3, <2>1, TellKeeps
  <2> QED BY <1>1, <1>2, <2>1, <2>2, WifiStutters
<1> QED BY <1>4, <1>5, <1>6

LEMMA WifiKeeps == WifiInv /\ WifiStep => WifiInv'
<1> SUFFICES ASSUME WifiInv, WifiStep PROVE WifiInv'
  OBVIOUS
<1>1. CASE WaitBits \/ ScTask
  <2>1. UNCHANGED <<cred, stale, save, ram, cfg, station, events>>
    BY <1>1 DEF WaitBits, ScTask
  <2>2. init' \in {"off", "role", "read"} => UNCHANGED <<init, sc>>
    BY <1>1 DEF WaitBits, ScTask, WifiInv, BootIsQuiet
  <2>3. events' \in Seq(Events) /\ (AddressWaits => AddressWaits')
    BY <2>1 DEF WifiInv, WifiTypes, AddressWaits
  <2> QED BY <2>1, <2>2, <2>3, WifiStutters
<1> QED BY <1>1, SaveKeeps, BootKeeps, HandlersKeep, OutsideKeeps
        DEF WifiStep, MainTask, EventTask

(* When the address of a link has been handled, the next power on finds in *)
(* flash what that link was made with (event_handler, save_wifi_cred),     *)
(* whatever the phone sends and when, whatever the access point accepts,   *)
(* and wherever the power fails; but for a half that flash refused.        *)
THEOREM FlashIsOfLink == Spec => []FlashKeepsLink
<1>1. Init => WifiInv
  <2> SUFFICES ASSUME Init PROVE WifiInv
    OBVIOUS
  <2>1. /\ WifiStarts(save, ram, need, bits, init, sc, station, cfg, events, sent)
        /\ cred = Pair("none") /\ stale = {}
    BY DEF Init, WifiInit
  <2>2. cred \in Pairs /\ stale \subseteq Halves
    BY <2>1 DEF Pair, Pairs, Names
  <2> QED BY <2>1, <2>2, WifiBegins
<1>2. WifiInv /\ UNCHANGED wifiVars => WifiInv'
  BY DEF wifiVars, wifiVolatile, WifiInv, WifiTypes, BootIsQuiet, SaveOfRam, LinkOfRam,
         FlashKeepsLink, Saved, AddressWaits
<1>3. WifiInv /\ [Next]_vars => WifiInv'
  <2> SUFFICES ASSUME WifiInv, [Next]_vars PROVE WifiInv'
    OBVIOUS
  <2>1. CASE Serve \/ Update \/ UNCHANGED vars
    BY <2>1, <1>2 DEF Serve, Update, ServerOnly, UpdateOnly, vars
  <2>2. CASE Link
    BY <2>2, WifiKeeps DEF Link
  <2>3. CASE PowerFails
    <3>1. /\ WifiStarts(save', ram', need', bits', init', sc', station', cfg', events', sent')
          /\ UNCHANGED <<cred, stale>>
      BY <2>3 DEF PowerFails, WifiReset
    <3>2. (cred \in Pairs /\ stale \subseteq Halves)'
      BY <3>1 DEF WifiInv, WifiTypes, Pairs, Names
    <3>3. (WifiStarts(save, ram, need, bits, init, sc, station, cfg, events, sent)
             /\ cred \in Pairs /\ stale \subseteq Halves => WifiInv)'
      BY WifiBegins, PTL
    <3> QED BY <3>1, <3>2, <3>3
  <2> QED BY <2>1, <2>2, <2>3 DEF Next
<1>4. WifiInv => FlashKeepsLink
  BY DEF WifiInv
<1> QED BY <1>1, <1>3, <1>4, PTL DEF Spec
=============================================================================
