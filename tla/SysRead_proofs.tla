--------------------------- MODULE SysRead_proofs ----------------------------
(***************************************************************************)
(* A read with interrupts between any two of its accesses to the ring      *)
(* buffer, for every buffer size, every set of characters and every number *)
(* of keyboard interrupts between two instructions that does not fill the  *)
(* buffer.                                                                 *)
(***************************************************************************)
EXTENDS SysRead, KeyboardBuffer_proofs

-----------------------------------------------------------------------------
(* The inductive invariant *)

\* How far head has gone on since register r was loaded from it.
Gap(r) == IF head >= r THEN head - r ELSE head - r + BufSize

\* hreg was loaded from head at most burst characters ago, and tail has not
\* caught up with it: overruns push tail along behind a full buffer only.
TailBehind == Gap(hreg) <= burst /\ Gap(hreg) < Count

\* An overrun leaves no cell of the array unwritten.
AllTyped == \A c \in Index : buf[c] \in Chars

PlacesOK ==
    /\ pc \in InKernel \cup {"user"}
    /\ i \in Nat /\ count \in Counts \cup {0}
    /\ hreg \in Index /\ treg \in Index
    /\ creg \in Chars \cup {Nul}
    /\ burst \in 0 .. MaxBurst
    /\ wire \in Seq(Chars \cup {Nul})

FlagsOK == iflag \in BOOLEAN /\ tick \in BOOLEAN /\ ready \in BOOLEAN /\ raced \in BOOLEAN

\* sys_read asks for a character only when there is one, and there still is
\* when kbd_get_char looks.
AskInv ==
    /\ pc = "has_tail" => hreg = head \/ HasChar
    /\ pc \in {"test_head", "get_index"} \cup GetWindow => HasChar
    /\ pc = "test_tail" => TailBehind
    /\ pc = "append" => got \in Chars

\* What kbd_get_char holds in registers is what the buffer holds, unless the
\* buffer overran under it.
RegInv ==
    /\ raced => AllTyped
    /\ pc \in {"get_tail", "get_store"} => creg \in Chars
    /\ ~raced => /\ pc \in {"get_buf", "get_store"} => treg = tail
                 /\ pc \in {"get_tail", "get_store"} => creg = buf[tail]

\* The promise of SYS_KEY_READY, up to the first character of the read.
ReadyInv ==
    ready => /\ pc = "user" => HasChar
             /\ i = 0 => /\ pc \notin Waiting
                         /\ pc = "has_head" => HasChar
                         /\ pc = "has_tail" => TailBehind

IInv == BufInv /\ PlacesOK /\ FlagsOK /\ AskInv /\ RegInv /\ ReadyInv

-----------------------------------------------------------------------------
(* What a step does to the buffer *)

\* A step that leaves the three variables of the driver alone.
LEMMA SameBuffer ==
    ASSUME BufInv, UNCHANGED <<buf, head, tail>>, got' \in Chars \cup {Nul}
    PROVE  BufInv' /\ Contents' = Contents /\ Count' = Count
BY DEF BufInv, BufTypeOK, WaitingCharsAreTyped, Contents, Count

\* Each cell of a buffer that waits to be read is one of the typed ones.
LEMMA WaitingCell ==
    ASSUME BufInv, NEW c \in Index,
           IF c >= tail THEN c - tail < Count ELSE c - tail + BufSize < Count
    PROVE  buf[c] \in Chars
<1> DEFINE k == IF c >= tail THEN c - tail + 1 ELSE c - tail + BufSize + 1
<1> USE BufSizeAssumption
<1>1. BufTypeOK /\ Count \in 0 .. BufSize - 1
  BY TypedQueue
<1>2. k \in 1 .. Count /\ k - 1 \in 0 .. BufSize - 1
  BY <1>1 DEF BufTypeOK, Index
<1>3. Slot(tail, k - 1) = c
  <2>1. Slot(tail, k - 1) = IF tail + (k - 1) < BufSize THEN tail + (k - 1) ELSE tail + (k - 1) - BufSize
    BY <1>1, <1>2, SlotValue DEF BufTypeOK
  <2> QED
    BY <1>1, <2>1 DEF BufTypeOK, Index
<1>4. Contents[k] = buf[c]
  BY <1>2, <1>3 DEF Contents
<1> QED
  BY <1>2, <1>4, TypedQueue DEF WaitingCharsAreTyped

\* The oldest one is typed.
LEMMA OldestTyped ==
    ASSUME BufInv, HasChar
    PROVE  buf[tail] \in Chars
<1>1. BufTypeOK /\ Count \in 0 .. BufSize - 1 /\ Count # 0
  BY TypedQueue, CountRange DEF HasChar
<1> QED
  BY <1>1, WaitingCell, BufSizeAssumption DEF BufTypeOK, Index

\* After a store there is a character; the oldest one is still there unless
\* the buffer was full, and then every cell of the array has been written.
LEMMA PutKeeps ==
    ASSUME BufInv, NEW ch \in Chars, Put(ch)
    PROVE  /\ BufInv' /\ HasChar' /\ got' = got
           /\ AllTyped => AllTyped'
           /\ IF Advance(head) = tail
              THEN AllTyped'
              ELSE tail' = tail /\ (HasChar => buf'[tail] = buf[tail])
<1> USE BufSizeAssumption
<1>1. BufInv'
  BY PutStep
<1>2. BufTypeOK /\ Count \in 0 .. BufSize - 1
  BY TypedQueue
<1>3. /\ Advance(head) \in Index /\ Advance(head) = IF head = BufSize - 1 THEN 0 ELSE head + 1
      /\ Advance(tail) \in Index /\ Advance(tail) = IF tail = BufSize - 1 THEN 0 ELSE tail + 1
  BY <1>2, AdvanceValue DEF BufTypeOK
<1>4. HasChar'
  BY <1>2, <1>3 DEF HasChar, Put, StoreChar, BufTypeOK, Index
<1>5. AllTyped => AllTyped'
  BY <1>2 DEF AllTyped, Put, StoreChar, BufTypeOK
<1>6. ASSUME Advance(head) = tail PROVE AllTyped'
  <2> SUFFICES ASSUME NEW c \in Index PROVE buf'[c] \in Chars
    BY DEF AllTyped
  <2>1. c # head => buf[c] \in Chars
    BY <1>2, <1>3, <1>6, WaitingCell DEF BufTypeOK, Index, Count
  <2> QED
    BY <1>2, <2>1 DEF Put, StoreChar, BufTypeOK
<1>7. ASSUME Advance(head) # tail PROVE tail' = tail /\ (HasChar => buf'[tail] = buf[tail])
  BY <1>2, <1>7 DEF Put, StoreChar, BufTypeOK, HasChar
<1> QED
  BY <1>1, <1>4, <1>5, <1>6, <1>7 DEF Put

\* A store moves head one cell away from where it was loaded; a store that
\* leaves fewer than a bufferful behind it does not let tail catch up.
LEMMA PutGap ==
    ASSUME BufInv, NEW ch \in Chars, Put(ch), NEW r \in Index,
           Gap(r) < Count, Gap(r) + 1 < BufSize - 1
    PROVE  Gap(r)' = Gap(r) + 1 /\ Gap(r)' < Count'
<1> USE BufSizeAssumption
<1>1. BufTypeOK
  BY TypedQueue
<1>2. /\ Advance(head) \in Index /\ Advance(head) = IF head = BufSize - 1 THEN 0 ELSE head + 1
      /\ Advance(tail) \in Index /\ Advance(tail) = IF tail = BufSize - 1 THEN 0 ELSE tail + 1
  BY <1>1, AdvanceValue DEF BufTypeOK
<1>3. /\ head \in Index /\ tail \in Index /\ head' = Advance(head)
      /\ tail' = IF Advance(head) = tail THEN Advance(tail) ELSE tail
  BY <1>1 DEF BufTypeOK, Put, StoreChar
<1>4. Gap(r)' = Gap(r) + 1
  BY <1>2, <1>3 DEF Gap, Index
<1>5. Count' = IF Advance(head) = tail THEN BufSize - 1 ELSE Count + 1
  BY <1>2, <1>3 DEF Count, Index
<1>6. Gap(r) \in Nat /\ Count \in Nat
  BY <1>3 DEF Gap, Count, Index
<1> QED
  BY <1>4, <1>5, <1>6

LEMMA NotCaughtUp ==
    ASSUME BufTypeOK, NEW r \in Index, Gap(r) < Count
    PROVE  r # tail /\ HasChar
BY BufSizeAssumption DEF BufTypeOK, Gap, Count, Index, HasChar

LEMMA LoadedNow ==
    ASSUME BufTypeOK, HasChar
    PROVE  Gap(head) = 0 /\ 0 < Count
BY BufSizeAssumption DEF BufTypeOK, Gap, Count, Index, HasChar

-----------------------------------------------------------------------------
(* The flags *)

LEMMA FlagsKeep ==
    ASSUME FlagsOK, [Next]_vars
    PROVE  FlagsOK'
<1> USE DEF FlagsOK
<1>1. CASE UserStep
  BY <1>1 DEF UserStep, CallRead, CallKeyReady, CallReset, HasChar, cpuVars
<1>2. CASE KernelStep
  BY <1>2 DEF KernelStep, HasLoadHead, HasLoadTail, Sti, Hlt, TestLoadHead, TestLoadTail,
              GetLoadIndex, GetLoadChar, GetLoadTail, GetStoreTail, AppendChar
<1>3. CASE Irq0
  BY <1>3 DEF Irq0
<1>4. CASE Irq1
  BY <1>4 DEF Irq1
<1>5. ASSUME NEW ch \in Chars \cup {Nul}, Type(ch) PROVE FlagsOK'
  BY <1>5 DEF Type, cpuVars
<1>6. CASE Tick
  BY <1>6 DEF Tick, cpuVars
<1>7. CASE UNCHANGED vars
  BY <1>7 DEF vars, cpuVars
<1> QED
  BY <1>1, <1>2, <1>3, <1>4, <1>5, <1>6, <1>7 DEF Next

-----------------------------------------------------------------------------
(* The steps *)

\* The invariant without the buffer and the flags.
Rest == PlacesOK /\ AskInv /\ RegInv /\ ReadyInv

LEMMA UserKeeps ==
    ASSUME BufInv, Rest, UserStep
    PROVE  BufInv' /\ Rest'
<1> USE DEF Rest, PlacesOK, AskInv, RegInv, ReadyInv, InKernel, GetWindow, Waiting, AllTyped, HasChar
<1>1. BufTypeOK
  BY TypedQueue
<1>2. ASSUME NEW n \in Counts, CallRead(n), UNCHANGED <<wire, burst, tick>>
      PROVE  BufInv' /\ Rest'
  <2>1. BufInv'
    BY <1>1, <1>2, SameBuffer DEF CallRead, bufVars, BufTypeOK
  <2> QED
    BY <1>2, <2>1 DEF CallRead, Goto, bufVars
<1>3. ASSUME CallKeyReady, UNCHANGED <<wire, burst, tick>>
      PROVE  BufInv' /\ Rest'
  <2>1. BufInv'
    BY <1>1, <1>3, SameBuffer DEF CallKeyReady, bufVars, BufTypeOK
  <2> QED
    BY <1>3, <2>1 DEF CallKeyReady, bufVars, cpuVars
<1>4. ASSUME CallReset, UNCHANGED <<wire, burst, tick>>
      PROVE  BufInv' /\ Rest'
  <2>1. BufInv'
    BY <1>4, ResetBuffStep DEF CallReset
  <2> QED
    BY <1>4, <2>1 DEF CallReset, ResetBuff, cpuVars
<1> QED
  BY <1>2, <1>3, <1>4 DEF UserStep

\* An instruction of sys_read that stores into none of the three variables.
LookStep ==
    HasLoadHead \/ HasLoadTail \/ Sti \/ Hlt \/ TestLoadHead \/ GetLoadIndex \/ GetLoadChar \/ GetLoadTail \/ AppendChar

LEMMA LookKeeps ==
    ASSUME BufInv, Rest, LookStep, burst' = 0, UNCHANGED <<wire, tick>>
    PROVE  BufInv' /\ Rest' /\ UNCHANGED <<Contents, got>>
<1> USE DEF Rest, PlacesOK, AskInv, RegInv, ReadyInv, InKernel, GetWindow, Waiting, HasChar, Goto
<1>1. BufTypeOK /\ 0 \in 0 .. MaxBurst
  BY TypedQueue, SysReadAssumption
<1>2. UNCHANGED <<buf, head, tail, got>>
  BY DEF LookStep, HasLoadHead, HasLoadTail, Sti, Hlt, TestLoadHead, GetLoadIndex, GetLoadChar,
         GetLoadTail, AppendChar, bufVars
<1>3. BufInv' /\ Contents' = Contents /\ Count' = Count
  BY <1>1, <1>2, SameBuffer DEF BufTypeOK
<1>4. AllTyped' = AllTyped
  BY <1>2 DEF AllTyped
<1>5. ASSUME hreg' = head, HasChar PROVE TailBehind'
  BY <1>1, <1>2, <1>3, <1>5, LoadedNow DEF TailBehind, Gap
<1>6. CASE HasLoadHead
  BY <1>1, <1>2, <1>3, <1>4, <1>5, <1>6 DEF HasLoadHead, BufTypeOK
<1>7. CASE HasLoadTail
  BY <1>1, <1>2, <1>3, <1>4, <1>7, NotCaughtUp DEF HasLoadTail, BufTypeOK, TailBehind
<1>8. CASE Sti
  BY <1>1, <1>2, <1>3, <1>4, <1>8 DEF Sti
<1>9. CASE Hlt
  BY <1>1, <1>2, <1>3, <1>4, <1>9 DEF Hlt
<1>10. CASE TestLoadHead
  BY <1>1, <1>2, <1>3, <1>4, <1>5, <1>10 DEF TestLoadHead, BufTypeOK
<1>11. CASE GetLoadIndex
  BY <1>1, <1>2, <1>3, <1>4, <1>11 DEF GetLoadIndex, BufTypeOK
<1>12. CASE GetLoadChar
  <2>1. buf[treg] \in Chars
    <3>1. CASE raced
      BY <3>1 DEF AllTyped
    <3>2. CASE ~raced
      BY <1>12, <3>2, OldestTyped DEF GetLoadChar
    <3> QED
      BY <3>1, <3>2
  <2> QED
    BY <1>1, <1>2, <1>3, <1>4, <1>12, <2>1 DEF GetLoadChar
<1>13. CASE GetLoadTail
  BY <1>1, <1>2, <1>3, <1>4, <1>13 DEF GetLoadTail, BufTypeOK
<1>14. CASE AppendChar
  <2>1. pc' \in {"user", "has_head"} /\ (pc' = "user" => ~ready') /\ i' = i + 1
    BY <1>14 DEF AppendChar
  <2>2. UNCHANGED <<count, hreg, treg, creg, raced>>
    BY <1>14 DEF AppendChar
  <2> QED
    BY <1>1, <1>2, <1>3, <1>4, <2>1, <2>2
<1> QED
  BY <1>2, <1>3, <1>6, <1>7, <1>8, <1>9, <1>10, <1>11, <1>12, <1>13, <1>14 DEF LookStep

\* The test of kbd_get_char finds a character.
LEMMA TestKeeps ==
    ASSUME BufInv, Rest, TestLoadTail, burst' = 0, UNCHANGED <<wire, tick>>
    PROVE  BufInv' /\ Rest' /\ UNCHANGED <<Contents, got>>
<1> USE DEF Rest, PlacesOK, AskInv, RegInv, ReadyInv, InKernel, GetWindow, Waiting, HasChar
<1>1. BufTypeOK /\ 0 \in 0 .. MaxBurst
  BY TypedQueue, SysReadAssumption
<1>2. hreg # tail /\ HasChar
  BY <1>1, NotCaughtUp DEF TestLoadTail, TailBehind
<1>3. pc' = "get_index" /\ UNCHANGED <<buf, head, tail, got>>
  BY <1>2 DEF TestLoadTail
<1>4. BufInv' /\ Contents' = Contents
  BY <1>1, <1>3, SameBuffer DEF BufTypeOK
<1> QED
  BY <1>1, <1>2, <1>3, <1>4 DEF TestLoadTail, AllTyped

\* The store that ends kbd_get_char takes the oldest character out, or, when
\* the buffer overran under it, leaves tail somewhere in an array of typed
\* cells.
LEMMA StoreKeeps ==
    ASSUME BufInv, Rest, GetStoreTail, burst' = 0, UNCHANGED <<wire, tick>>
    PROVE  BufInv' /\ Rest' /\ (raced \/ Queue!TakeChar)
<1> USE DEF Rest, PlacesOK, AskInv, RegInv, ReadyInv, InKernel, GetWindow, Waiting, Goto
<1>1. BufTypeOK /\ 0 \in 0 .. MaxBurst
  BY TypedQueue, SysReadAssumption
<1>2. BufInv' /\ (raced \/ Queue!TakeChar)
  <2>1. CASE ~raced
    <3>1. GetChar
      BY <2>1 DEF GetStoreTail, GetChar
    <3> QED
      BY <3>1, GetCharStep
  <2>2. CASE raced
    <3>1. BufTypeOK'
      BY <1>1, AdvanceValue DEF GetStoreTail, BufTypeOK
    <3>2. ASSUME NEW k \in 1 .. Count' PROVE Contents'[k] \in Chars
      <4>1. Count' \in 0 .. BufSize - 1
        BY <3>1, BufSizeAssumption DEF BufTypeOK, Count, Index
      <4>2. Slot(tail', k - 1) \in Index
        BY <3>1, <4>1, SlotValue, BufSizeAssumption DEF BufTypeOK
      <4> QED
        BY <2>2, <3>2, <4>2 DEF Contents, AllTyped, GetStoreTail
    <3> QED
      BY <2>2, <3>1, <3>2 DEF BufInv, WaitingCharsAreTyped
  <2> QED
    BY <2>1, <2>2
<1> QED
  BY <1>1, <1>2 DEF GetStoreTail, AllTyped

\* An instruction of a system call takes the oldest character out, or
\* nothing, unless the buffer overran under it.
LEMMA KernelKeeps ==
    ASSUME BufInv, Rest, KernelStep
    PROVE  BufInv' /\ Rest' /\ (raced \/ Queue!TakeChar \/ UNCHANGED <<Contents, got>>)
BY LookKeeps, TestKeeps, StoreKeeps DEF KernelStep, LookStep

\* The timer only wakes.
LEMMA Irq0Keeps ==
    ASSUME BufInv, Rest, Irq0
    PROVE  BufInv' /\ Rest'
<1> USE DEF Rest, PlacesOK, AskInv, RegInv, ReadyInv, InKernel, GetWindow, Waiting
<1>1. BufInv' /\ Count' = Count
  BY TypedQueue, SameBuffer DEF Irq0, bufVars, BufTypeOK
<1> QED
  BY <1>1 DEF Irq0, Resume, bufVars, AllTyped, HasChar, TailBehind, Gap

\* A character arrives.
LEMMA StoredKeeps ==
    ASSUME BufInv, Rest, Irq1, Head(wire) # Nul
    PROVE  BufInv' /\ Rest' /\ Queue!PutChar(Head(wire))
<1> USE DEF Rest, PlacesOK, AskInv, RegInv, ReadyInv, InKernel, GetWindow, Waiting
<1> DEFINE ch == Head(wire)
<1>1. ch \in Chars /\ Put(ch) /\ BufTypeOK
  BY TypedQueue DEF Irq1
<1>2. BufInv' /\ Queue!PutChar(ch)
  BY <1>1, PutStep
<1>3. /\ HasChar' /\ got' = got
      /\ AllTyped => AllTyped'
      /\ IF Advance(head) = tail
         THEN AllTyped'
         ELSE tail' = tail /\ (HasChar => buf'[tail] = buf[tail])
  BY <1>1, PutKeeps
<1>4. /\ wire' \in Seq(Chars \cup {Nul}) /\ burst' \in 0 .. MaxBurst
      /\ pc # "user" => burst' = burst + 1 /\ burst < MaxBurst
      /\ pc' = IF pc = "halted" THEN "has_head" ELSE pc
      /\ UNCHANGED <<iflag, i, count, hreg, treg, creg, tick, ready>>
  BY SysReadAssumption DEF Irq1, Resume
<1>5. pc # "user" /\ TailBehind => TailBehind'
  <2> SUFFICES ASSUME pc # "user", TailBehind PROVE TailBehind'
    OBVIOUS
  <2>1. Gap(hreg) \in Nat
    BY <1>1, BufSizeAssumption DEF Gap, BufTypeOK, Index
  <2>2. Gap(hreg) + 1 < BufSize - 1
    BY <1>4, <2>1, SysReadAssumption, BufSizeAssumption DEF TailBehind
  <2>3. Gap(hreg)' = Gap(hreg) + 1 /\ Gap(hreg)' < Count'
    <3>1. \A r \in Index : Gap(r) < Count /\ Gap(r) + 1 < BufSize - 1
                              => Gap(r)' = Gap(r) + 1 /\ Gap(r)' < Count'
      BY <1>1, PutGap
    <3> QED
      BY <3>1, <2>2, <1>4 DEF TailBehind, Gap
  <2> QED
    BY <2>1, <2>3, <1>4 DEF TailBehind
<1>6. raced' => raced \/ (Advance(head) = tail /\ pc \in GetWindow)
  BY DEF Irq1
<1>7. ~raced' => ~raced /\ (pc \in GetWindow => Advance(head) # tail)
  BY <1>1 DEF Irq1
<1>8. AskInv' /\ ReadyInv'
  BY <1>3, <1>4, <1>5
<1>9. RegInv'
  BY <1>3, <1>4, <1>6, <1>7
<1> QED
  BY <1>2, <1>4, <1>8, <1>9

\* A scan code without a character arrives.
LEMMA NothingStoredKeeps ==
    ASSUME BufInv, Rest, Irq1, Head(wire) = Nul
    PROVE  BufInv' /\ Rest' /\ UNCHANGED Contents
<1> USE DEF Rest, PlacesOK, AskInv, RegInv, ReadyInv, InKernel, GetWindow, Waiting
<1>1. UNCHANGED <<buf, head, tail, got>> /\ BufTypeOK
  BY TypedQueue DEF Irq1, bufVars
<1>2. BufInv' /\ Contents' = Contents /\ Count' = Count
  BY <1>1, SameBuffer DEF BufTypeOK
<1>3. /\ wire' \in Seq(Chars \cup {Nul}) /\ burst' \in 0 .. MaxBurst
      /\ pc # "user" => burst' >= burst
      /\ pc' = IF pc = "halted" THEN "has_head" ELSE pc
      /\ UNCHANGED <<iflag, i, count, hreg, treg, creg, tick, ready>>
  BY SysReadAssumption DEF Irq1, Resume
<1>4. (raced' => raced) /\ (raced => raced')
  BY DEF Irq1
<1>5. pc # "user" /\ TailBehind => TailBehind'
  <2>1. Gap(hreg)' = Gap(hreg) /\ Gap(hreg) \in Int
    BY <1>1, <1>3, BufSizeAssumption DEF Gap, BufTypeOK, Index
  <2> QED
    BY <1>2, <1>3, <2>1 DEF TailBehind
<1> QED
  BY <1>1, <1>2, <1>3, <1>4, <1>5 DEF AllTyped, HasChar

LEMMA DevicesKeep ==
    ASSUME BufInv, Rest, Tick \/ (\E ch \in Chars \cup {Nul} : Type(ch)) \/ UNCHANGED vars
    PROVE  BufInv' /\ Rest'
<1> USE DEF Rest, PlacesOK, AskInv, RegInv, ReadyInv, InKernel, GetWindow, Waiting
<1>1. UNCHANGED <<buf, head, tail, got, pc, i, count, hreg, treg, creg, burst, ready, raced>> /\ wire' \in Seq(Chars \cup {Nul})
  BY DEF Tick, Type, vars, bufVars, cpuVars
<1>2. BufInv' /\ Count' = Count
  BY <1>1, TypedQueue, SameBuffer DEF BufTypeOK
<1> QED
  BY <1>1, <1>2 DEF AllTyped, HasChar, TailBehind, Gap

-----------------------------------------------------------------------------
(* The theorems *)

LEMMA ReadInit == Init => IInv
<1> SUFFICES ASSUME Init PROVE IInv
  OBVIOUS
<1>1. BufInv
  BY BufInvInit DEF Init
<1>2. FlagsOK
  BY DEF Init, FlagsOK
<1> QED
  BY <1>1, <1>2, BufSizeAssumption, SysReadAssumption
  DEF IInv, Init, BufInit, PlacesOK, AskInv, RegInv, ReadyInv, InKernel, GetWindow, Waiting, Index

LEMMA ReadStep == IInv /\ [Next]_vars => IInv'
<1> SUFFICES ASSUME IInv, [Next]_vars PROVE IInv'
  OBVIOUS
<1>1. BufInv /\ Rest /\ FlagsOK
  BY DEF IInv, Rest
<1>2. FlagsOK'
  BY <1>1, FlagsKeep
<1>3. BufInv' /\ Rest'
  BY <1>1, UserKeeps, KernelKeeps, Irq0Keeps, StoredKeeps, NothingStoredKeeps, DevicesKeep DEF Next
<1> QED
  BY <1>2, <1>3 DEF IInv, Rest

\* At every access of a read the buffer is in order, and the registers tell what
\* kbd_has_char and kbd_get_char go by, unless an overrun raced them.
THEOREM ReadInvariant == Spec => []IInv
BY ReadInit, ReadStep, PTL DEF Spec

\* Whatever interrupts do between the accesses of kbd_get_char, an overrun
\* that its last store undoes included, the cells between tail and head hold
\* typed characters.
THEOREM WaitingCharsAreTypedHolds == Spec => []WaitingCharsAreTyped
<1>1. IInv => WaitingCharsAreTyped
  BY DEF IInv, BufInv
<1> QED
  BY <1>1, ReadInvariant, PTL

\* sys_read never stores the zero byte of an empty buffer: no number of
\* interrupts short of a bufferful makes the second test of head and tail
\* disagree with the first.
THEOREM NeverReadsNulHolds == Spec => []NeverReadsNul
<1>1. IInv => NeverReadsNul
  BY NulAssumption DEF IInv, BufInv, PlacesOK, FlagsOK, AskInv, NeverReadsNul, TypeOK
<1> QED
  BY <1>1, ReadInvariant, PTL

\* After SYS_KEY_READY answered yes the next read neither enables interrupts
\* nor halts before its first character.
THEOREM NoWaitAfterReadyHolds == Spec => []NoWaitAfterReady
<1>1. IInv => NoWaitAfterReady
  BY DEF IInv, ReadyInv, NoWaitAfterReady
<1> QED
  BY <1>1, ReadInvariant, PTL

\* With interrupts between any two accesses each store of the keyboard handler
\* is a put on the bounded queue, and each instruction of a read takes the
\* oldest character out or nothing, unless the buffer overran under it.
THEOREM ReadsAreQueueStepsHolds == Spec => ReadsAreQueueSteps
<1> DEFINE Steps ==
        /\ Irq1 => IF Head(wire) = Nul THEN UNCHANGED Contents ELSE Queue!PutChar(Head(wire))
        /\ KernelStep => raced \/ Queue!TakeChar \/ UNCHANGED <<Contents, got>>
<1>1. IInv => Steps
  BY KernelKeeps, StoredKeeps, NothingStoredKeeps DEF IInv, Rest
<1> QED
  BY <1>1, ReadInvariant, PTL DEF ReadsAreQueueSteps

=============================================================================
