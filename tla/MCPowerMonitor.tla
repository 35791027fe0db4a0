---------------------------- MODULE MCPowerMonitor ----------------------------
(* Instances of PowerMonitor for TLC. *)
EXTENDS PowerMonitor

(* A failed reading, a reading below the offset, and on both sides of the  *)
(* limits at 10%, 30% and 100% (2 * (pin - 30) mV at the battery).         *)
BoundaryPins == {-1, 10, 30, 1878, 1879, 1904, 1905, 2089, 2090, 2150}

(* 20%, 90% and the full battery: nothing is low. *)
GoodPins == {1879, 2089, 2090}
=============================================================================
