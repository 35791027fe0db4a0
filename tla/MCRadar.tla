------------------------------- MODULE MCRadar --------------------------------
(* "Range" in two letters, and a buffer in proportion: the longest line    *)
(* fits, two do not.                                                       *)
EXTENDS Radar

ShortRange == <<"R", "g">>
=============================================================================
