----------------------------- MODULE MCPowerCycle -----------------------------
(* Two numbers that differ in both digits, one without tens.               *)
EXTENDS PowerCycle

TwoNumbers == { <<"9", "9">>, <<"off", "5">> }
=============================================================================
