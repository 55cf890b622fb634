--------------------------- MODULE KeyboardBuffer ---------------------------
(***************************************************************************)
(* The character ring buffer of Kernel/keyboardDriver.c: buf, head, tail,  *)
(* the store at the end of kbd_get_key, and kbd_has_char, kbd_get_char and *)
(* kbd_reset_buff.  Here every routine runs with interrupts disabled, as   *)
(* the IRQ1 handler and the system calls other than a waiting read do;     *)
(* module SysRead takes kbd_get_char apart where it can be interrupted.    *)
(***************************************************************************)
EXTENDS Integers, Sequences

CONSTANTS
    BufSize,    \* BUF_SIZE, 128 in keyboardDriver.h
    Chars,      \* the characters the key tables hold, all of them non-zero
    Nul         \* the zero byte

ASSUME BufSizeAssumption == BufSize \in Nat /\ BufSize >= 2
ASSUME NulAssumption == Nul \notin Chars

VARIABLES
    buf,        \* static char buf[BUF_SIZE]
    head,       \* where the next character is stored
    tail,       \* where the oldest character is
    got         \* what the last kbd_get_char returned

bufVars == <<buf, head, tail, got>>

Index == 0 .. BufSize - 1

BufTypeOK ==
    /\ buf \in [Index -> Chars \cup {Nul}]
    /\ head \in Index
    /\ tail \in Index
    /\ got \in Chars \cup {Nul}

BufInit ==
    /\ buf = [i \in Index |-> Nul]
    /\ head = 0
    /\ tail = 0
    /\ got = Nul

Advance(i) == (i + 1) % BufSize

\* Mutant of StoreChar: a full buffer does not give up its oldest character.
StoreCharNoDrop(ch) ==
    /\ buf' = [buf EXCEPT ![head] = ch]
    /\ head' = Advance(head)
    /\ UNCHANGED tail

\* The tail of kbd_get_key, once the character is known.
StoreChar(ch) ==
    /\ buf' = [buf EXCEPT ![head] = ch]
    /\ head' = Advance(head)
    /\ tail' = IF Advance(head) = tail THEN Advance(tail) ELSE tail

HasChar == head # tail

Put(ch) ==
    /\ StoreChar(ch)
    /\ UNCHANGED got

GetCharEmpty ==
    /\ ~HasChar
    /\ got' = Nul
    /\ UNCHANGED <<buf, head, tail>>

GetChar ==
    /\ HasChar
    /\ got' = buf[tail]
    /\ tail' = Advance(tail)
    /\ UNCHANGED <<buf, head>>

\* Mutant of ResetBuff: only head goes back to the start of the array.
ResetBuffToZero ==
    /\ head' = 0
    /\ UNCHANGED <<buf, tail, got>>

ResetBuff ==
    /\ head' = tail
    /\ UNCHANGED <<buf, tail, got>>

BufNext ==
    \/ \E ch \in Chars : Put(ch)
    \/ GetCharEmpty
    \/ GetChar
    \/ ResetBuff

BufSpec == BufInit /\ [][BufNext]_bufVars

-----------------------------------------------------------------------------
(***************************************************************************)
(* The abstract queue the buffer stands for.  One cell is always left      *)
(* free: head = tail means empty.                                          *)
(***************************************************************************)
Count == IF head >= tail THEN head - tail ELSE head - tail + BufSize

\* The cell k places after cell i.
Slot(i, k) == (i + k) % BufSize

Contents == [k \in 1 .. Count |-> buf[Slot(tail, k - 1)]]

Queue == INSTANCE LossyQueue WITH Capacity <- BufSize - 1, q <- Contents

\* The operation of the queue that each routine is.
StepsMatch ==
    /\ \A ch \in Chars : Put(ch) => Queue!PutChar(ch)
    /\ GetCharEmpty => Queue!TakeEmpty
    /\ GetChar => Queue!TakeChar
    /\ ResetBuff => Queue!Clear

\* Every operation of the ring buffer, the overrun of kbd_get_key included, is
\* its counterpart on a bounded FIFO that drops its oldest character when full
\* (comment at keyboardDriver.c:157), whatever order the operations come in.
BufferIsLossyQueue == Queue!Spec /\ [][StepsMatch]_bufVars

\* The cells between tail and head hold characters somebody typed, never the
\* zero byte kbd_get_char returns for "nothing there" and never stale cells.
WaitingCharsAreTyped == \A k \in 1 .. Count : Contents[k] \in Chars

BufInv ==
    /\ BufTypeOK
    /\ WaitingCharsAreTyped

=============================================================================
