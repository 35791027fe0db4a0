------------------------------ MODULE AllGames ------------------------------
(***************************************************************************)
(* All six games: RANDOMSHOOT, with the display (ScoreDisplay), and the    *)
(* five that count shots on a clock (ShotGames).  The manager has one game *)
(* on stage at a time (EpicMgr!OneGameAtATime), so the two never run       *)
(* together: a session of the instance plays one or the others.            *)
(***************************************************************************)
EXTENDS ScoreDisplay, ShotGames

VARIABLE random     \* the session plays RANDOMSHOOT

allVars == <<scoreVars, shotVars, random>>

AllInit == ScoreInit /\ ShotInit /\ random \in BOOLEAN

AllNext == \/ random  /\ ScoreNext /\ UNCHANGED <<shotVars, random>>
           \/ ~random /\ ShotNext  /\ UNCHANGED <<scoreVars, random>>

AllSpec == AllInit /\ [][AllNext]_allVars
=============================================================================
