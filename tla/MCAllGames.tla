------------------------------- MODULE MCAllGames -------------------------------
(* Instances of AllGames for TLC. *)
EXTENDS AllGames

(* Announcements of 8.5 s, 6 s and 10 s, scaled down. *)
ShortAnnounce == [g \in Games |-> CASE g = "EIGHTSHOT" -> 3
                                    [] g = "TMLIMIT" -> 2
                                    [] g = "ADVATTACK" -> 4
                                    [] OTHER -> 0]
=============================================================================
