------------------------------- MODULE MCBeep --------------------------------
(***************************************************************************)
(* Beep with a tick counter that wraps at ten, both ends of the accepted   *)
(* range of frequencies and one frequency beyond each, and durations of no *)
(* tick, two ticks (the exception sound) and seven ticks (the last note of *)
(* the start sound).                                                       *)
(***************************************************************************)
EXTENDS Beep

MCFrequencies == {18, 20, 415, 20000, 20001}
MCDurations == {50, 150, 400}
=============================================================================
