------------------------------ MODULE MCBleNet ------------------------------
(* Four devices for two handles.  "gun" has the serial service behind an  *)
(* empty one; "vest" has two characteristics, the first with room for a    *)
(* descriptor that is not there; "tag" advertises the serial service but   *)
(* does not have it; "toy" has a service with room for attributes and none *)
(* in it.                                                                  *)
EXTENDS BleMgr

Chr(d, v, u, list) == [def |-> d, val |-> v, uuid |-> u, dscs |-> list]
Svc(s, e, u, list) == [start |-> s, end |-> e, uuid |-> u, chrs |-> list]

MCGatt ==
    [d \in Device |->
       CASE d = "gun"  -> << Svc(1, 1, "gap", <<>>),
                             Svc(2, 5, "spp_svc", << Chr(3, 4, "spp_chr", <<5>>) >>) >>
         [] d = "vest" -> << Svc(1, 8, "spp_svc",
                                << Chr(2, 3, "other", <<>>),
                                   Chr(5, 6, "spp_chr", <<7, 8>>) >>) >>
         [] d = "toy"  -> << Svc(1, 3, "gap", <<>>) >>
         [] OTHER      -> << Svc(1, 3, "gap", << Chr(2, 3, "other", <<>>) >>) >>]

(* Enough for some pairs of devices, not for all. *)
MCPoolSize == [svc |-> 3, chr |-> 2, dsc |-> 2, peer |-> 2]
=============================================================================
