----------------------- MODULE KeyboardBuffer_proofs ------------------------
(***************************************************************************)
(* Proofs about the keyboard ring buffer, for every buffer size of at      *)
(* least two and every set of characters: the invariant BufInv, and that   *)
(* the buffer implements the bounded queue that drops its oldest element.  *)
(***************************************************************************)
EXTENDS KeyboardBuffer, TLAPS

-----------------------------------------------------------------------------
(* Index arithmetic *)

\* (i + 1) % BUF_SIZE stays inside the array and wraps exactly at its end.
LEMMA AdvanceValue ==
    ASSUME NEW i \in Index
    PROVE  /\ Advance(i) \in Index
           /\ Advance(i) = IF i = BufSize - 1 THEN 0 ELSE i + 1
BY BufSizeAssumption DEF Advance, Index

\* The cell k places after cell i, for any k shorter than one lap.
LEMMA SlotValue ==
    ASSUME NEW i \in Index, NEW k \in 0 .. BufSize - 1
    PROVE  /\ Slot(i, k) \in Index
           /\ Slot(i, k) = IF i + k < BufSize THEN i + k ELSE i + k - BufSize
BY BufSizeAssumption DEF Index, Slot

\* Between zero and BufSize - 1 characters wait, and none exactly when the
\* indices are equal.
LEMMA CountRange ==
    ASSUME BufTypeOK
    PROVE  /\ Count \in 0 .. BufSize - 1
           /\ Count = 0 <=> head = tail
BY BufSizeAssumption DEF BufTypeOK, Count, Index

\* The mapped queue is a sequence as long as the count.
LEMMA ContentsSeq ==
    BufTypeOK => /\ Contents \in Seq(Chars \cup {Nul})
                 /\ Len(Contents) = Count
<1> SUFFICES ASSUME BufTypeOK
             PROVE  Contents \in Seq(Chars \cup {Nul}) /\ Len(Contents) = Count
  OBVIOUS
<1>1. Count \in Nat
  BY CountRange, BufSizeAssumption
<1>2. \A k \in 1 .. Count : buf[Slot(tail, k - 1)] \in Chars \cup {Nul}
  <2>1. SUFFICES ASSUME NEW k \in 1 .. Count
                 PROVE  buf[Slot(tail, k - 1)] \in Chars \cup {Nul}
    OBVIOUS
  <2>2. k - 1 \in 0 .. BufSize - 1
    BY CountRange, BufSizeAssumption DEF BufTypeOK, Index
  <2>3. Slot(tail, k - 1) \in Index
    BY <2>2, SlotValue DEF BufTypeOK
  <2> QED
    BY <2>3 DEF BufTypeOK
<1> QED
  BY <1>1, <1>2 DEF Contents

\* The same after a step.
LEMMA ContentsSeqNext ==
    (BufTypeOK => /\ Contents \in Seq(Chars \cup {Nul})
                  /\ Len(Contents) = Count)'
BY ContentsSeq, PTL

-----------------------------------------------------------------------------
(* What each operation does to the mapped queue *)

\* A store into a buffer with room appends; into a full one it also drops
\* the oldest character.
LEMMA PutContents ==
    ASSUME BufTypeOK, NEW ch \in Chars, Put(ch)
    PROVE  /\ BufTypeOK'
           /\ Contents' = IF Len(Contents) < BufSize - 1
                          THEN Append(Contents, ch)
                          ELSE Append(Tail(Contents), ch)
<1> USE BufSizeAssumption
<1>1. /\ Advance(head) \in Index /\ Advance(tail) \in Index
      /\ Advance(head) = IF head = BufSize - 1 THEN 0 ELSE head + 1
      /\ Advance(tail) = IF tail = BufSize - 1 THEN 0 ELSE tail + 1
  BY AdvanceValue DEF BufTypeOK
<1>2. BufTypeOK'
  BY <1>1 DEF BufTypeOK, Put, StoreChar
<1>3. Contents \in Seq(Chars \cup {Nul}) /\ Len(Contents) = Count
  BY ContentsSeq
<1>4. Contents' \in Seq(Chars \cup {Nul}) /\ Len(Contents') = Count'
  BY <1>2, ContentsSeqNext
<1>5. CASE Advance(head) # tail
  <2>1. Count' = Count + 1 /\ Count < BufSize - 1 /\ tail' = tail
    BY <1>1, <1>5 DEF BufTypeOK, Index, Put, StoreChar, Count
  <2>2. \A k \in 1 .. Count + 1 :
           Contents'[k] = IF k <= Count THEN Contents[k] ELSE ch
    <3>1. SUFFICES ASSUME NEW k \in 1 .. Count + 1
                   PROVE  Contents'[k] = IF k <= Count THEN Contents[k] ELSE ch
      OBVIOUS
    <3>2. Contents'[k] = buf'[Slot(tail, k - 1)]
      BY <2>1 DEF Contents
    <3>9. k - 1 \in 0 .. BufSize - 1 /\ tail \in Index
      BY <2>1, CountRange DEF BufTypeOK
    <3>3. Slot(tail, k - 1) \in Index
          /\ Slot(tail, k - 1) = IF tail + (k - 1) < BufSize THEN tail + (k - 1) ELSE tail + (k - 1) - BufSize
      BY <3>9, SlotValue
    <3>4. Slot(tail, k - 1) = head <=> k = Count + 1
      BY <3>3, <2>1, CountRange DEF BufTypeOK, Index, Count
    <3>5. buf'[Slot(tail, k - 1)]
             = IF k = Count + 1 THEN ch ELSE buf[Slot(tail, k - 1)]
      BY <3>3, <3>4 DEF BufTypeOK, Put, StoreChar
    <3> QED
      BY <3>2, <3>5, CountRange DEF Contents
  <2> QED
    BY <1>2, <1>3, <1>4, <2>1, <2>2
<1>6. CASE Advance(head) = tail
  <2>1. Count' = Count /\ Count = BufSize - 1 /\ tail' = Advance(tail)
    BY <1>1, <1>6 DEF BufTypeOK, Index, Put, StoreChar, Count
  <2>2. \A k \in 1 .. Count :
           Contents'[k] = IF k < Count THEN Contents[k + 1] ELSE ch
    <3>1. SUFFICES ASSUME NEW k \in 1 .. Count
                   PROVE  Contents'[k] = IF k < Count THEN Contents[k + 1] ELSE ch
      OBVIOUS
    <3>2. Contents'[k] = buf'[Slot(tail', k - 1)]
      BY <2>1, <1>1 DEF Contents, Index
    <3>3. k - 1 \in 0 .. BufSize - 1 /\ k \in 0 .. BufSize - 1
      BY <2>1
    <3>9. Slot(tail, k) \in Index
          /\ Slot(tail, k) = IF tail + k < BufSize THEN tail + k ELSE tail + k - BufSize
      BY <3>3, SlotValue DEF BufTypeOK
    <3>4. Slot(tail', k - 1) = Slot(tail, k)
      <4>1. Slot(tail', k - 1) = IF tail' + (k - 1) < BufSize THEN tail' + (k - 1) ELSE tail' + (k - 1) - BufSize
        BY <2>1, <1>1, <3>3, SlotValue
      <4> QED
        BY <4>1, <3>9, <3>3, <2>1, <1>1 DEF BufTypeOK, Index
    <3>5. Slot(tail, k) \in Index /\ (Slot(tail, k) = head <=> k = Count)
      BY <3>9, <3>3, <2>1, <1>1, <1>6 DEF BufTypeOK, Index
    <3>6. Contents'[k] = IF k = Count THEN ch ELSE buf[Slot(tail, k)]
      BY <3>2, <3>4, <3>5 DEF BufTypeOK, Put, StoreChar
    <3>7. k < Count => Contents[k + 1] = buf[Slot(tail, k)]
      BY <2>1, (k + 1) - 1 = k DEF Contents, BufTypeOK, Index
    <3> QED
      BY <3>6, <3>7, <2>1
  <2> QED
    BY <1>2, <1>3, <1>4, <2>1, <2>2
<1> QED
  BY <1>5, <1>6

\* A successful kbd_get_char hands over the oldest character.
LEMMA GetContents ==
    ASSUME BufTypeOK, GetChar
    PROVE  /\ BufTypeOK'
           /\ Contents # << >>
           /\ got' = Head(Contents)
           /\ Contents' = Tail(Contents)
<1> USE BufSizeAssumption
<1>1. Advance(tail) \in Index /\ Advance(tail) = IF tail = BufSize - 1 THEN 0 ELSE tail + 1
  BY AdvanceValue DEF BufTypeOK
<1>2. BufTypeOK'
  BY <1>1 DEF BufTypeOK, GetChar
<1>3. Contents \in Seq(Chars \cup {Nul}) /\ Len(Contents) = Count
  BY ContentsSeq
<1>4. Contents' \in Seq(Chars \cup {Nul}) /\ Len(Contents') = Count'
  BY <1>2, ContentsSeqNext
<1>5. Count \in 1 .. BufSize - 1 /\ Count' = Count - 1
  BY <1>1, CountRange DEF BufTypeOK, Index, GetChar, HasChar, Count
<1>6. Contents[1] = buf[tail]
  <2>1. Slot(tail, 0) = tail
    BY SlotValue DEF BufTypeOK, Index
  <2> QED
    BY <2>1, <1>5, 1 - 1 = 0 DEF Contents
<1>7. \A k \in 1 .. Count - 1 : Contents'[k] = Contents[k + 1]
  <2>1. SUFFICES ASSUME NEW k \in 1 .. Count - 1
                 PROVE  Contents'[k] = Contents[k + 1]
    OBVIOUS
  <2>2. Contents'[k] = buf[Slot(tail', k - 1)]
    BY <1>5, <1>1 DEF Contents, Index, GetChar
  <2>3. k - 1 \in 0 .. BufSize - 1 /\ k \in 0 .. BufSize - 1
    BY <1>5
  <2>4. Slot(tail', k - 1) = Slot(tail, k)
    <3>1. Slot(tail, k) = IF tail + k < BufSize THEN tail + k ELSE tail + k - BufSize
      BY <2>3, SlotValue DEF BufTypeOK
    <3>2. tail' \in Index /\ tail' = IF tail = BufSize - 1 THEN 0 ELSE tail + 1
      BY <1>1 DEF GetChar
    <3>3. Slot(tail', k - 1) = IF tail' + (k - 1) < BufSize THEN tail' + (k - 1) ELSE tail' + (k - 1) - BufSize
      BY <2>3, <3>2, SlotValue
    <3> QED
      BY <3>1, <3>2, <3>3, <2>3 DEF BufTypeOK, Index
  <2>5. Contents[k + 1] = buf[Slot(tail, k)]
    BY <1>5, (k + 1) - 1 = k DEF Contents, BufTypeOK, Index
  <2> QED
    BY <2>2, <2>4, <2>5
<1> QED
  BY <1>2, <1>3, <1>4, <1>5, <1>6, <1>7 DEF GetChar

\* kbd_reset_buff empties the queue; kbd_get_char finds it empty exactly when
\* head = tail.
LEMMA EmptyContents == BufTypeOK => (Contents = << >> <=> head = tail)
BY CountRange, ContentsSeq

-----------------------------------------------------------------------------
(* The invariant *)

LEMMA BufInvInit == BufInit => BufInv
BY BufSizeAssumption
DEF BufInit, BufInv, BufTypeOK, WaitingCharsAreTyped, Index, Count

\* A sequence whose elements are characters, said cell by cell and as a type.
LEMMA TypedContents ==
    BufTypeOK => (WaitingCharsAreTyped <=> Contents \in Seq(Chars))
<1> SUFFICES ASSUME BufTypeOK
             PROVE  WaitingCharsAreTyped <=> Contents \in Seq(Chars)
  OBVIOUS
<1>1. Contents \in Seq(Chars \cup {Nul}) /\ Len(Contents) = Count /\ Count \in Nat
  BY ContentsSeq, CountRange, BufSizeAssumption
<1>2. Contents \in Seq(Chars) => WaitingCharsAreTyped
  BY <1>1 DEF WaitingCharsAreTyped
<1>3. WaitingCharsAreTyped => Contents \in Seq(Chars)
  BY <1>1 DEF WaitingCharsAreTyped, Contents
<1> QED
  BY <1>2, <1>3

LEMMA TypedContentsNext ==
    (BufTypeOK => (WaitingCharsAreTyped <=> Contents \in Seq(Chars)))'
BY TypedContents, PTL

\* The empty buffer, before and after a step.
LEMMA EmptyContentsNext == (BufTypeOK => (Contents = << >> <=> head = tail))'
BY EmptyContents, PTL

\* Each operation keeps the invariant and is its counterpart on the queue.
LEMMA TypedQueue ==
    ASSUME BufInv
    PROVE  /\ BufTypeOK /\ WaitingCharsAreTyped /\ Contents \in Seq(Chars)
           /\ Count = Len(Contents) /\ Count \in 0 .. BufSize - 1
<1>1. BufTypeOK /\ WaitingCharsAreTyped /\ Contents \in Seq(Chars)
  BY TypedContents DEF BufInv
<1> QED
  BY <1>1, ContentsSeq, CountRange, BufSizeAssumption

LEMMA PutStep ==
    ASSUME BufInv, NEW ch \in Chars, Put(ch)
    PROVE  BufInv' /\ Queue!PutChar(ch)
<1> USE BufSizeAssumption
<1>1. BufTypeOK' /\ Contents' = IF Len(Contents) < BufSize - 1
                                THEN Append(Contents, ch)
                                ELSE Append(Tail(Contents), ch)
  BY TypedQueue, PutContents
<1>2. Contents' \in Seq(Chars)
  BY TypedQueue, <1>1
<1>3. BufInv'
  BY <1>1, <1>2, TypedContentsNext DEF BufInv
<1> QED
  BY <1>1, <1>3 DEF Queue!PutChar, Put

LEMMA GetCharEmptyStep ==
    ASSUME BufInv, GetCharEmpty
    PROVE  BufInv' /\ Queue!TakeEmpty
<1>1. BufInv' /\ Contents' = Contents
  BY TypedQueue DEF GetCharEmpty, BufInv, BufTypeOK, WaitingCharsAreTyped, Contents, Count
<1>2. Contents = << >>
  BY TypedQueue, EmptyContents DEF GetCharEmpty, HasChar
<1> QED
  BY <1>1, <1>2 DEF Queue!TakeEmpty, GetCharEmpty

LEMMA GetCharStep ==
    ASSUME BufInv, GetChar
    PROVE  BufInv' /\ Queue!TakeChar
<1>1. BufTypeOK' /\ Contents # << >> /\ got' = Head(Contents) /\ Contents' = Tail(Contents)
  BY TypedQueue, GetContents
<1>2. Contents' \in Seq(Chars)
  BY TypedQueue, <1>1
<1>3. BufInv'
  BY <1>1, <1>2, TypedContentsNext DEF BufInv
<1> QED
  BY <1>1, <1>3 DEF Queue!TakeChar

LEMMA ResetBuffStep ==
    ASSUME BufInv, ResetBuff
    PROVE  BufInv' /\ Queue!Clear
<1>1. BufTypeOK' /\ head' = tail'
  BY TypedQueue DEF ResetBuff, BufTypeOK
<1>2. Contents' = << >>
  BY <1>1, EmptyContentsNext
<1>3. BufInv'
  BY <1>1, <1>2, BufSizeAssumption, TypedContentsNext DEF BufInv
<1> QED
  BY <1>2, <1>3 DEF Queue!Clear, ResetBuff

\* The four together.
LEMMA BufStep ==
    ASSUME BufInv, [BufNext]_bufVars
    PROVE  BufInv' /\ [Queue!Next]_(Queue!qvars)
<1>1. ASSUME NEW ch \in Chars, Put(ch)
      PROVE  BufInv' /\ Queue!Next
  BY <1>1, PutStep DEF Queue!Next
<1>2. CASE GetCharEmpty
  BY <1>2, GetCharEmptyStep DEF Queue!Next
<1>3. CASE GetChar
  BY <1>3, GetCharStep DEF Queue!Next
<1>4. CASE ResetBuff
  BY <1>4, ResetBuffStep DEF Queue!Next
<1>5. CASE UNCHANGED bufVars
  BY <1>5, TypedQueue
  DEF bufVars, BufInv, BufTypeOK, WaitingCharsAreTyped, Contents, Count, Queue!qvars
<1> QED
  BY <1>1, <1>2, <1>3, <1>4, <1>5 DEF BufNext

\* The indices stay inside buf and every waiting cell holds a typed character,
\* for any buffer size and any sequence of stores, reads and resets.
THEOREM BufInvariant == BufSpec => []BufInv
<1>1. BufInv /\ [BufNext]_bufVars => BufInv'
  BY BufStep
<1> QED
  BY BufInvInit, <1>1, PTL DEF BufSpec

\* The ring buffer of keyboardDriver.c implements, routine by routine, the
\* bounded FIFO that drops its oldest character when full, for any buffer size.
THEOREM BufferImplementsQueue == BufSpec => BufferIsLossyQueue
<1>1. BufInit => Queue!Init
  BY BufInvInit, EmptyContents DEF BufInit, BufInv, Queue!Init
<1>2. BufInv /\ [BufNext]_bufVars => [Queue!Next]_(Queue!qvars)
  BY BufStep
<1>3. BufInv => StepsMatch
  BY PutStep, GetCharEmptyStep, GetCharStep, ResetBuffStep DEF StepsMatch
<1> QED
  BY BufInvariant, <1>1, <1>2, <1>3, PTL DEF BufSpec, BufferIsLossyQueue, Queue!Spec

=============================================================================
