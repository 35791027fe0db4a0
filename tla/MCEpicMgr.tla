------------------------------ MODULE MCEpicMgr ------------------------------
(* Instances of EpicMgr for TLC. *)
EXTENDS EpicMgr

(* One game of each shape: endless; tail after the flag; ends without a    *)
(* clock; servo tail before the flag.                                      *)
FourKinds  == {"SINGLESHOT", "DOUBLESHOT", "EIGHTSHOT", "RANDOMSHOOT"}
=============================================================================
