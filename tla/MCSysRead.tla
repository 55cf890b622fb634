----------------------------- MODULE MCSysRead ------------------------------
(***************************************************************************)
(* SysRead with a buffer of three cells (two characters fill it), a        *)
(* newline and another character, reads of one and of two characters, one  *)
(* scan code waiting in the keyboard and one keyboard interrupt between    *)
(* two instructions.                                                       *)
(***************************************************************************)
EXTENDS SysRead

MCCounts == {1, 2}
=============================================================================
