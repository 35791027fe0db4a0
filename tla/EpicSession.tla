----------------------------- MODULE EpicSession -----------------------------
(***************************************************************************)
(* What the game manager promises to a player who asks for games ("epics") *)
(* by voice: requests are answered in the order they were accepted, a      *)
(* request for the selected game is ignored, and a new game takes the      *)
(* stage only after the previous one has left it.  Other requests wait in  *)
(* the same line and change nothing here.                                  *)
(*                                                                         *)
(* EpicMgr.tla implements this module (property EpicMgr!ImplementsSession).*)
(***************************************************************************)
EXTENDS Naturals, Sequences

CONSTANTS Kind,         \* the games a player can ask for
          Other,        \* a request that is not for a game
          None,         \* "no game selected", not a game
          MaxRequests   \* accepted and not yet answered requests

VARIABLES requests,     \* accepted requests, oldest first
          selected,     \* the game the manager holds, or None
          onStage,      \* TRUE while that game's task plays it
          dud           \* TRUE when that game never got a task

vars == <<requests, selected, onStage, dud>>

TypeOK ==
    /\ requests \in Seq(Kind \cup {Other}) /\ Len(requests) <= MaxRequests
    /\ selected \in Kind \cup {None}
    /\ onStage \in BOOLEAN
    /\ dud \in BOOLEAN

(* At power on the default game is already asked for. *)
Init ==
    /\ \E k \in Kind : requests = <<k>>
    /\ selected = None
    /\ onStage = FALSE
    /\ dud = FALSE

Ask(k) ==
    /\ Len(requests) < MaxRequests
    /\ requests' = Append(requests, k)
    /\ UNCHANGED <<selected, onStage, dud>>

(* A request that is not for a game is answered elsewhere. *)
Pass ==
    /\ requests # <<>>
    /\ Head(requests) = Other
    /\ requests' = Tail(requests)
    /\ UNCHANGED <<selected, onStage, dud>>

(* The selected game is asked for again: nothing happens, even when that   *)
(* game has already left the stage.                                        *)
Ignore ==
    /\ requests # <<>>
    /\ Head(requests) = selected
    /\ requests' = Tail(requests)
    /\ UNCHANGED <<selected, onStage, dud>>

(* The game ends by itself, or because another one is wanted. *)
LeaveStage ==
    /\ onStage
    /\ onStage' = FALSE
    /\ UNCHANGED <<requests, selected, dud>>

(* A game that left the stage is forgotten when nothing is asked for, or   *)
(* to make room for another one.                                           *)
Dismiss ==
    /\ ~onStage /\ ~dud
    /\ selected # None
    /\ requests # <<>> => Head(requests) \in Kind \ {selected}
    /\ selected' = None
    /\ UNCHANGED <<requests, onStage, dud>>

(* The next game takes the stage; its task may fail to be created. *)
Begin ==
    /\ requests # <<>> /\ Head(requests) \in Kind
    /\ selected = None
    /\ ~onStage
    /\ selected' = Head(requests)
    /\ requests' = Tail(requests)
    /\ onStage' \in BOOLEAN
    /\ dud' = ~onStage'

Answer == Pass \/ Ignore \/ Dismiss \/ Begin

Next == (\E k \in Kind \cup {Other} : Ask(k)) \/ LeaveStage \/ Answer

(* A game that must give way does so, and a request is always taken up.    *)
GiveWay ==
    requests # <<>> /\ Head(requests) \in Kind \ {selected} /\ LeaveStage

Fairness == WF_vars(GiveWay) /\ WF_vars(Answer /\ requests # <<>>)

Spec     == Init /\ [][Next]_vars
FairSpec == Spec /\ Fairness
=============================================================================
