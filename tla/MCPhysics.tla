------------------------------ MODULE MCPhysics ------------------------------
(***************************************************************************)
(* One player and the ball on a short line, for the comment of             *)
(* check_collision.                                                        *)
(***************************************************************************)
EXTENDS Physics

MCScenes == {[width |-> 100, numPlayers |-> 1, obstacles |-> <<>>]}
MCBallSpeeds == {-20, 0, 20}
MCPlayerSpeeds == {-9, 0, 9}
=============================================================================
