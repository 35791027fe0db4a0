------------------------------- MODULE NodeRole --------------------------------
(* Which role a node plays: g_is_master in config_discovery.c.  The program *)
(* sets it before all else (it is not in the repository).                   *)
VARIABLES isMaster
=============================================================================
