---------------------------- MODULE MCVoiceControl ----------------------------
(* Values for the constants of VoiceControl: two tasks that ask for sounds, *)
(* and the commands whose bytes are most easily mistaken for one another:   *)
(* a type, 2, that is also the id of a command, and both wake-up frames.    *)
EXTENDS VoiceControl

TwoCallers == {"voice", "game"}
SomeCommands == {<<ASR, 2>>, <<WAKEUP, 1>>, <<WAKEUP, 2>>}
=============================================================================
