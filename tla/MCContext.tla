----------------------------- MODULE MCContext ------------------------------
(***************************************************************************)
(* Context with all fifteen registers and two generations of values.       *)
(***************************************************************************)
EXTENDS Context
=============================================================================
