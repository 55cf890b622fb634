----------------------------- MODULE MCKeyboard -----------------------------
(***************************************************************************)
(* Keyboard with the driver's own tables and one key of each kind: a       *)
(* letter, both shift keys, Caps Lock, an arrow, and an extended key whose *)
(* code alone would print (keypad slash, E0 35).                           *)
(***************************************************************************)
EXTENDS Keyboard, KeyTables

Key(e, c) == [ext |-> e, code |-> c]

MCKeys == { Key(FALSE, 30), Key(FALSE, 42), Key(FALSE, 54), Key(FALSE, 58),
            Key(TRUE, 72), Key(TRUE, 53) }

=============================================================================
