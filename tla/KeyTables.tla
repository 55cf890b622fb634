----------------------------- MODULE KeyTables ------------------------------
(***************************************************************************)
(* The two scan code tables of Kernel/keyboardDriver.c, whole.  Codes 1 to *)
(* 57 are listed in order; "" stands for the zero byte, the entry of every *)
(* code the C initialisers leave out.                                      *)
(***************************************************************************)
EXTENDS Integers, Sequences

Zero == ""

UnshiftedRow == <<
    "ESC", "1", "2", "3", "4", "5", "6", "7", "8", "9", "0", "-", "=", "BS",
    "TAB", "q", "w", "e", "r", "t", "y", "u", "i", "o", "p", "[", "]", "NL",
    "", "a", "s", "d", "f", "g", "h", "j", "k", "l", ";", "QUOTE", "BTICK",
    "", "BSLASH", "z", "x", "c", "v", "b", "n", "m", ",", ".", "/",
    "", "STAR", "", " ">>

ShiftedRow == <<
    "ESC", "!", "@", "#", "$", "%", "^", "&", "STAR", "LPAREN", "RPAREN", "_", "+", "BS",
    "TAB", "Q", "W", "E", "R", "T", "Y", "U", "I", "O", "P", "{", "}", "NL",
    "", "A", "S", "D", "F", "G", "H", "J", "K", "L", ":", "DQUOTE", "~",
    "", "|", "Z", "X", "C", "V", "B", "N", "M", "<", ">", "?",
    "", "STAR", "", " ">>

Table(row) == [code \in 0 .. 127 |-> IF code \in DOMAIN row THEN row[code] ELSE Zero]

tbl_no_shift == Table(UnshiftedRow)
tbl_shift == Table(ShiftedRow)

AllChars == {t[c] : t \in {tbl_no_shift, tbl_shift}, c \in 0 .. 127} \ {Zero}

\* The codes of the letter keys, where to_upper does something.
LetterCodes == 16 .. 25 \cup 30 .. 38 \cup 44 .. 50

to_upper == [ch \in AllChars |->
    IF \E c \in LetterCodes : tbl_no_shift[c] = ch
    THEN tbl_shift[CHOOSE c \in LetterCodes : tbl_no_shift[c] = ch]
    ELSE ch]

=============================================================================
