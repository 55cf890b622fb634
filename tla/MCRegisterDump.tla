--------------------------- MODULE MCRegisterDump ---------------------------
(***************************************************************************)
(* RegisterDump with three entries (first, middle and last of the loop)    *)
(* and up to five snapshots.                                               *)
(***************************************************************************)
EXTENDS RegisterDump
=============================================================================
