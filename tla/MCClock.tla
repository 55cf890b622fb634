------------------------------ MODULE MCClock -------------------------------
(***************************************************************************)
(* Clock with the real fields: all 86400 times of day, and an update at    *)
(* every point of a call.                                                  *)
(***************************************************************************)
EXTENDS Clock
=============================================================================
