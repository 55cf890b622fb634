----------------------------- MODULE LossyQueue -----------------------------
(***************************************************************************)
(* What the keyboard driver promises its clients: a bounded FIFO of        *)
(* characters that never blocks the keyboard.  When it is full, a new      *)
(* character pushes the oldest one out.  Taking from it when it is empty   *)
(* yields Nul.  Nothing here knows about indices or about the buffer.      *)
(***************************************************************************)
EXTENDS Naturals, Sequences

CONSTANTS
    Capacity,   \* how many characters it can hold
    Chars,      \* the characters a key press can produce
    Nul         \* the answer of a take from the empty queue

VARIABLES
    q,          \* the waiting characters, oldest first
    got         \* the answer of the last take

qvars == <<q, got>>

TypeOK ==
    /\ q \in Seq(Chars)
    /\ Len(q) <= Capacity
    /\ got \in Chars \cup {Nul}

Init ==
    /\ q = << >>
    /\ got = Nul

PutChar(ch) ==
    /\ q' = IF Len(q) < Capacity THEN Append(q, ch) ELSE Append(Tail(q), ch)
    /\ UNCHANGED got

TakeEmpty ==
    /\ q = << >>
    /\ got' = Nul
    /\ UNCHANGED q

TakeChar ==
    /\ q # << >>
    /\ got' = Head(q)
    /\ q' = Tail(q)

Clear ==
    /\ q' = << >>
    /\ UNCHANGED got

Next ==
    \/ \E ch \in Chars : PutChar(ch)
    \/ TakeEmpty
    \/ TakeChar
    \/ Clear

Spec == Init /\ [][Next]_qvars

=============================================================================
