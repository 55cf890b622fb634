---------------------------- MODULE Kernel_proofs ----------------------------
(***************************************************************************)
(* Theorems about the parts of the kernel that MCKernel puts side by side: *)
(* the register dump, with an ESC at any point of the exception handler,   *)
(* the entry code (module Context), the speaker (Beep) and the clock.      *)
(***************************************************************************)
EXTENDS MCKernel, SequenceTheorems, TLAPS

-----------------------------------------------------------------------------
(* What the regs command and the exception handlers print *)

\* reg_array always holds the latest snapshot as a whole, and the flag tells
\* whether there is one.
ArrayInv ==
    /\ reg_array = Whole(snapshots)
    /\ escPressedFlag <=> snapshots > 0

\* registers_formatted is set for no longer than it takes the handler to copy
\* the text, so that no text is ever taken for the text of a later snapshot.
FormattedInv == registers_formatted <=> pc = "copy"

\* The entries formatted so far are of the exception's snapshot or later.
DumpInv ==
    /\ pc \in {"notice", "format", "copy"} => exception \in 1 .. snapshots
    /\ pc = "format" => \A e \in Entry : e < k => buff_reg[e] >= exception
    /\ pc = "copy" => \A e \in Entry : buff_reg[e] >= exception

IInv == TypeOK /\ ArrayInv /\ FormattedInv /\ DumpInv

-----------------------------------------------------------------------------
LEMMA WholeIsText ==
    ASSUME NEW s \in 0 .. MaxSnapshots
    PROVE  Whole(s) \in Text /\ \A e \in Entry : Whole(s)[e] = s
BY DEF Whole, Text

LEMMA DumpInit == Init => IInv
<1> USE DumpAssumption
<1>1. 0 \in 0 .. MaxSnapshots /\ 1 \in 1 .. Entries + 1
  OBVIOUS
<1>2. Init => TypeOK
  BY <1>1, WholeIsText DEF Init, TypeOK
<1> QED
  BY <1>1, <1>2 DEF Init, IInv, ArrayInv, FormattedInv, DumpInv

\* A snapshot may be taken at any step: what it changes is newer.
LEMMA SnapshotKeeps ==
    ASSUME IInv, TakeSnapshot
    PROVE  /\ ArrayInv' /\ reg_array' \in Text
           /\ snapshots' \in 0 .. MaxSnapshots /\ snapshots' = snapshots + 1
<1>1. snapshots' \in 0 .. MaxSnapshots /\ snapshots' = snapshots + 1 /\ snapshots' > 0
  BY DumpAssumption DEF IInv, TypeOK, TakeSnapshot
<1> QED
  BY <1>1, WholeIsText DEF TakeSnapshot, ArrayInv, Whole

LEMMA DumpStep == IInv /\ [Next]_vars => IInv'
<1> SUFFICES ASSUME IInv, [Next]_vars PROVE IInv'
  OBVIOUS
<1> USE DumpAssumption DEF IInv, TypeOK, FormattedInv, DumpInv
<1>1. CASE EscIrq
  BY <1>1, SnapshotKeeps DEF EscIrq, TakeSnapshot
<1>2. CASE SysRegs
  <2>1. Formatted(reg_array) = reg_array
    BY DEF Formatted, Text
  <2> QED
    BY <1>2, <2>1 DEF SysRegs, ArrayInv, Whole
<1>3. CASE RaiseException
  BY <1>3, SnapshotKeeps DEF RaiseException, TakeSnapshot
<1>4. CASE StartDump
  BY <1>4 DEF StartDump, ArrayInv, Whole, Entry
<1>5. CASE FormatEntry
  <2>1. k \in Entry /\ reg_array[k] = snapshots
    BY <1>5, WholeIsText DEF FormatEntry, ArrayInv, Entry
  <2>2. buff_reg' \in Text /\ \A e \in Entry : buff_reg'[e] = IF e = k THEN snapshots ELSE buff_reg[e]
    BY <1>5, <2>1 DEF FormatEntry, Text
  <2> QED
    BY <1>5, <2>1, <2>2 DEF FormatEntry, ArrayInv, Whole, Entry
<1>6. CASE EndFormat
  BY <1>6 DEF EndFormat, ArrayInv, Whole, Entry
<1>7. CASE PrintDump
  <2>1. exception' \in 0 .. MaxSnapshots /\ pc' = "user" /\ registers_formatted' = FALSE
    BY <1>7 DEF PrintDump
  <2>2. ArrayInv'
    BY <1>7 DEF PrintDump, ArrayInv, Whole
  <2> QED
    BY <1>7, <2>1, <2>2 DEF PrintDump
<1>8. CASE UNCHANGED vars
  BY <1>8 DEF vars, ArrayInv, Whole
<1> QED
  BY <1>1, <1>2, <1>3, <1>4, <1>5, <1>6, <1>7, <1>8 DEF Next

\* reg_array holds the latest snapshot whole, a formatted text is kept no longer
\* than its copy takes, and no entry of it is older than the exception.
THEOREM DumpInvariant == Spec => []IInv
BY DumpInit, DumpStep, PTL DEF Spec

-----------------------------------------------------------------------------
(* The properties of the dump *)

\* SYS_REGS answers with the whole of the latest snapshot, or with 1 when there
\* is none: the text an earlier copy_regs left is never given for it.
THEOREM RegsShowsLatestSnapshotHolds == Spec => RegsShowsLatestSnapshot
<1>1. IInv /\ SysRegs => answer' = IF snapshots = 0 THEN Unavailable ELSE Whole(snapshots)
  <2> SUFFICES ASSUME IInv, SysRegs
               PROVE  answer' = IF snapshots = 0 THEN Unavailable ELSE Whole(snapshots)
    OBVIOUS
  <2>1. Formatted(reg_array) = reg_array
    BY DEF IInv, TypeOK, Formatted, Text
  <2> QED
    BY <2>1 DEF IInv, TypeOK, ArrayInv, FormattedInv, SysRegs
<1> QED
  BY <1>1, DumpInvariant, PTL DEF RegsShowsLatestSnapshot

\* No entry an exception prints is older than the exception, whenever an ESC
\* replaces the array while format_registers reads it.
THEOREM DumpIsNotOlderHolds == Spec => DumpIsNotOlder
<1>1. IInv /\ PrintDump => \A e \in Entry : report'[e] >= exception
  BY DEF IInv, DumpInv, PrintDump
<1> QED
  BY <1>1, DumpInvariant, PTL DEF DumpIsNotOlder

-----------------------------------------------------------------------------
(* The entry code *)

\* What a register or a word of the stack can be.
Words == Ctx!Regs \union {"SS", "RSP", "RFLAGS", "CS", "RIP", "word", "aux"}
Tags == {"user", "syscall", "exception", "cpu", "kernel", "zero"} \X Words \X (Gens \union Nat)

\* The registers of a program, a handler or the processor.
RegFile == [Ctx!Regs -> Tags]

LEMMA RegsAre ==
    /\ Ctx!Regs = {"rax", "rbx", "rcx", "rdx", "rbp", "rdi", "rsi", "r8", "r9",
                   "r10", "r11", "r12", "r13", "r14", "r15"}
    /\ Len(Ctx!PushOrder) = 15
    /\ \A i \in 1 .. 15 : Ctx!PushOrder[i] \in Ctx!Regs
    /\ \A r \in Ctx!Regs : \E i \in 1 .. 15 : Ctx!PushOrder[i] = r
<1>1. Len(Ctx!PushOrder) = 15
  BY DEF Ctx!PushOrder
<1>2. Ctx!Regs = {Ctx!PushOrder[i] : i \in 1 .. 15}
  BY <1>1 DEF Ctx!Regs, Ctx!ToSet
<1> QED BY <1>1, <1>2 DEF Ctx!PushOrder

LEMMA PopIsPushBackwards ==
    /\ Len(Ctx!PopOrder) = 15
    /\ \A i \in 1 .. 15 : Ctx!PopOrder[i] = Ctx!PushOrder[16 - i]
BY DEF Ctx!PopOrder, Ctx!PushOrder

LEMMA PushOrderDistinct ==
    \A i, j \in 1 .. 15 : Ctx!PushOrder[j] = Ctx!PushOrder[i] => i = j
BY DEF Ctx!PushOrder

-----------------------------------------------------------------------------
(* The macros of the entry code *)

LEMMA FrameIs ==
    /\ Ctx!Frame \in Seq(Tags) /\ Len(Ctx!Frame) = 5
    /\ \A i \in 1 .. 5 : Ctx!Frame[i] = Ctx!Tag("cpu", Ctx!FrameWords[i]) /\ Ctx!Frame[i] \in Tags
<1>1. Len(Ctx!FrameWords) = 5
  BY DEF Ctx!FrameWords
<1>2. \A i \in 1 .. 5 : Ctx!FrameWords[i] \in Words
  BY DEF Ctx!FrameWords, Words
<1>3. \A i \in 1 .. 5 : Ctx!Tag("cpu", Ctx!FrameWords[i]) \in Tags
  BY <1>2 DEF Tags, Ctx!Tag
<1>4. Ctx!Frame = [i \in 1 .. 5 |-> Ctx!Tag("cpu", Ctx!FrameWords[i])]
  BY <1>1 DEF Ctx!Frame
<1>5. Ctx!Frame \in [1 .. 5 -> Tags]
  BY <1>3, <1>4
<1> QED BY <1>3, <1>4, <1>5

\* pushState puts the registers on the stack in the order of PushOrder.
LEMMA PushState ==
    ASSUME NEW r \in RegFile, NEW stk \in Seq(Tags)
    PROVE  /\ Ctx!pushState(r, stk) \in Seq(Tags)
           /\ Len(Ctx!pushState(r, stk)) = Len(stk) + 15
           /\ \A i \in 1 .. 15 : Ctx!pushState(r, stk)[Len(stk) + i] = r[Ctx!PushOrder[i]]
<1> DEFINE p == [i \in 1 .. 15 |-> r[Ctx!PushOrder[i]]]
<1>1. \A i \in 1 .. 15 : r[Ctx!PushOrder[i]] \in Tags
  BY RegsAre DEF RegFile
<1>2. p \in [1 .. 15 -> Tags]
  BY <1>1
<1>3. p \in Seq(Tags) /\ Len(p) = 15
  BY <1>2
<1>4. Ctx!pushState(r, stk) = stk \o p
  BY RegsAre DEF Ctx!pushState
<1>5. \A i \in 1 .. 15 : p[i] = r[Ctx!PushOrder[i]]
  OBVIOUS
<1> HIDE DEF p
<1>6. /\ stk \o p \in Seq(Tags) /\ Len(stk \o p) = Len(stk) + 15
      /\ \A i \in 1 .. Len(stk) + 15 : (stk \o p)[i] = IF i <= Len(stk) THEN stk[i] ELSE p[i - Len(stk)]
  <2>1. /\ stk \o p \in Seq(Tags) /\ Len(stk \o p) = Len(stk) + Len(p)
        /\ \A i \in 1 .. Len(stk) + Len(p) : (stk \o p)[i] = IF i <= Len(stk) THEN stk[i] ELSE p[i - Len(stk)]
    BY <1>3, ConcatProperties, Zenon
  <2> QED BY <1>3, <2>1
<1>7. \A i \in 1 .. 15 : (stk \o p)[Len(stk) + i] = p[i]
  <2> TAKE i \in 1 .. 15
  <2>1. Len(stk) \in Nat
    BY LenProperties
  <2>2. Len(stk) + i \in 1 .. Len(stk) + 15 /\ ~(Len(stk) + i <= Len(stk)) /\ Len(stk) + i - Len(stk) = i
    BY <2>1
  <2> QED BY <1>6, <2>2
<1> QED BY <1>4, <1>5, <1>6, <1>7

\* popState undoes pushState: every register gets its own word back.
LEMMA PopUndoesPush ==
    ASSUME NEW r \in RegFile, NEW stk \in Seq(Tags)
    PROVE  Ctx!popped(Ctx!pushState(r, stk)) = r
<1> DEFINE s == Ctx!pushState(r, stk)
<1>1. /\ Len(s) = Len(stk) + 15 /\ Len(stk) \in Nat
      /\ \A i \in 1 .. 15 : s[Len(stk) + i] = r[Ctx!PushOrder[i]]
  BY PushState, LenProperties
<1> HIDE DEF s
<1>2. ASSUME NEW q \in Ctx!Regs
      PROVE  Ctx!popped(s)[q] = r[q]
  <2> DEFINE c == CHOOSE i \in 1 .. Len(Ctx!PopOrder) : Ctx!PopOrder[i] = q
  <2>1. PICK j \in 1 .. 15 : Ctx!PushOrder[j] = q
    BY RegsAre
  <2>2. 16 - j \in 1 .. 15 /\ Ctx!PopOrder[16 - j] = q
    BY <2>1, PopIsPushBackwards
  <2>3. c \in 1 .. 15 /\ Ctx!PopOrder[c] = q
    BY <2>2, PopIsPushBackwards
  <2>4. Ctx!popped(s)[q] = s[Len(s) + 1 - c]
    BY DEF Ctx!popped
  <2> HIDE DEF c
  <2>5. 16 - c \in 1 .. 15
    BY <2>3
  <2>6. Ctx!PushOrder[16 - c] = q
    BY <2>3, PopIsPushBackwards
  <2>7. 16 - c = j
    BY <2>1, <2>5, <2>6, PushOrderDistinct
  <2>8. Len(s) + 1 - c = Len(stk) + j
    <3> DEFINE n == Len(stk)
               l == Len(s)
    <3>1. n \in Nat /\ l = n + 15
      BY <1>1
    <3>2. c \in 1 .. 15 /\ j = 16 - c
      BY <2>3, <2>7
    <3> HIDE DEF n, l
    <3>3. l + 1 - c = n + j
      BY <3>1, <3>2
    <3> QED BY <3>3 DEF n, l
  <2> QED BY <1>1, <2>1, <2>4, <2>8
<1>3. Ctx!popped(s) = [q \in Ctx!Regs |-> Ctx!popped(s)[q]]
  BY DEF Ctx!popped
<1>4. r = [q \in Ctx!Regs |-> r[q]]
  BY DEF RegFile
<1>5. Ctx!popped(s) = r
  BY <1>2, <1>3, <1>4
<1> QED BY <1>5 DEF s

LEMMA LabelsAre ==
    /\ Len(Ctx!Labels) = 20
    /\ \A i \in 1 .. 15 : Ctx!Labels[i] = Ctx!PushOrder[i] /\ Ctx!Labels[i] \in Ctx!Regs
    /\ \A i \in 16 .. 20 : Ctx!Labels[i] = Ctx!FrameWords[21 - i] /\ Ctx!Labels[i] \notin Ctx!Regs
<1> DEFINE ws == <<"RIP", "CS", "RFLAGS", "RSP", "SS">>
<1>1. Ctx!Labels = Ctx!PushOrder \o ws
  BY DEF Ctx!Labels
<1>2. Len(ws) = 5
  OBVIOUS
<1>3. \A i \in 1 .. 5 : ws[i] = Ctx!FrameWords[6 - i] /\ ws[i] \notin Ctx!Regs
  BY RegsAre DEF Ctx!FrameWords
<1>4. Ctx!PushOrder \in Seq(Words) /\ ws \in Seq(Words)
  <2>1. \A i \in 1 .. 15 : Ctx!PushOrder[i] \in Words
    BY RegsAre DEF Words
  <2>2. Ctx!PushOrder \in [1 .. 15 -> Words]
    BY <2>1 DEF Ctx!PushOrder
  <2>3. ws \in Seq(Words)
    BY DEF Words
  <2>4. Ctx!PushOrder \in Seq(Words)
    BY <2>2, SeqDef
  <2> QED BY <2>3, <2>4
<1> HIDE DEF ws
<1>5. /\ Len(Ctx!PushOrder \o ws) = Len(Ctx!PushOrder) + Len(ws)
      /\ \A i \in 1 .. Len(Ctx!PushOrder) + Len(ws) :
             (Ctx!PushOrder \o ws)[i] = IF i <= Len(Ctx!PushOrder) THEN Ctx!PushOrder[i]
                                        ELSE ws[i - Len(Ctx!PushOrder)]
  BY <1>4, ConcatProperties, Zenon
<1>6. \A i \in 1 .. 20 : Ctx!Labels[i] = IF i <= 15 THEN Ctx!PushOrder[i] ELSE ws[i - 15]
  <2>1. Len(Ctx!PushOrder) = 15
    BY RegsAre
  <2>2. Len(Ctx!PushOrder) + Len(ws) = 20
    BY <1>2, <2>1
  <2> QED BY <1>1, <1>5, <2>1, <2>2
<1>7. \A i \in 16 .. 20 : i - 15 \in 1 .. 5 /\ 6 - (i - 15) = 21 - i
  OBVIOUS
<1>8. Len(Ctx!Labels) = 20
  BY <1>1, <1>2, <1>5, RegsAre
<1>9. \A i \in 1 .. 15 : Ctx!Labels[i] = Ctx!PushOrder[i] /\ Ctx!Labels[i] \in Ctx!Regs
  <2>1. \A i \in 1 .. 15 : i \in 1 .. 20 /\ i <= 15
    OBVIOUS
  <2> QED BY <1>6, <2>1, RegsAre
<1>10. \A i \in 16 .. 20 : Ctx!Labels[i] = Ctx!FrameWords[21 - i] /\ Ctx!Labels[i] \notin Ctx!Regs
  <2>1. \A i \in 16 .. 20 : i \in 1 .. 20 /\ ~(i <= 15)
    OBVIOUS
  <2>2. \A i \in 16 .. 20 : Ctx!Labels[i] = ws[i - 15]
    BY <1>6, <2>1
  <2>3. ASSUME NEW i \in 16 .. 20
        PROVE  Ctx!Labels[i] = Ctx!FrameWords[21 - i] /\ Ctx!Labels[i] \notin Ctx!Regs
    <3>1. Ctx!Labels[i] = ws[i - 15]
      BY <2>2
    <3>2. PICK l \in 1 .. 5 : l = i - 15 /\ 6 - l = 21 - i
      BY <1>7
    <3>3. ws[l] = Ctx!FrameWords[6 - l] /\ ws[l] \notin Ctx!Regs
      BY <1>3
    <3> QED BY <3>1, <3>2, <3>3
  <2> QED BY <2>3
<1> QED BY <1>8, <1>9, <1>10

\* The snapshot of registers r, taken over a frame the processor has pushed,
\* has behind each label what belongs there: the frame is read from the top.
LEMMA SnapshotWords ==
    ASSUME NEW r \in RegFile, NEW stk \in Seq(Tags)
    PROVE  \A i \in 1 .. Len(Ctx!Labels) :
               Ctx!saveRegisters(r, stk \o Ctx!Frame)[i] =
                   IF Ctx!Labels[i] \in Ctx!Regs THEN r[Ctx!Labels[i]] ELSE Ctx!Tag("cpu", Ctx!Labels[i])
<1> DEFINE f == stk \o Ctx!Frame
           a == [i \in 1 .. 15 |-> r[Ctx!PushOrder[i]]]
           b == [i \in 1 .. 5 |-> f[Len(f) + 1 - i]]
<1>1. /\ Len(f) = Len(stk) + Len(Ctx!Frame)
      /\ \A i \in 1 .. Len(stk) + Len(Ctx!Frame) : f[i] = IF i <= Len(stk) THEN stk[i] ELSE Ctx!Frame[i - Len(stk)]
  BY FrameIs, ConcatProperties, Zenon
<1>2. Len(f) = Len(stk) + 5 /\ Len(stk) \in Nat
  BY <1>1, FrameIs, LenProperties
<1>3. \A i \in 1 .. 5 : f[Len(f) + 1 - i] = Ctx!Frame[6 - i]
  <2> TAKE i \in 1 .. 5
  <2> HIDE DEF f
  <2>1. Len(f) + 1 - i \in 1 .. Len(stk) + Len(Ctx!Frame)
    BY <1>2, FrameIs
  <2>2. ~(Len(f) + 1 - i <= Len(stk)) /\ Len(f) + 1 - i - Len(stk) = 6 - i
    BY <1>2
  <2> QED BY <1>1, <2>1, <2>2
<1> HIDE DEF f
<1>4. \A i \in 1 .. 5 : b[i] = Ctx!Tag("cpu", Ctx!FrameWords[6 - i])
  <2> TAKE i \in 1 .. 5
  <2>1. PICK l \in 1 .. 5 : l = 6 - i
    OBVIOUS
  <2>2. b[i] = Ctx!Frame[l]
    BY <1>3, <2>1
  <2>3. Ctx!Frame[l] = Ctx!Tag("cpu", Ctx!FrameWords[l])
    BY FrameIs
  <2> QED BY <2>1, <2>2, <2>3
<1>5. Ctx!saveRegisters(r, f) = a \o b
  BY RegsAre, FrameIs DEF Ctx!saveRegisters, Ctx!SaveOrder
<1>6. \A i \in 1 .. 15 : a[i] = r[Ctx!PushOrder[i]]
  OBVIOUS
<1>7. a \in Seq(Tags) /\ Len(a) = 15
  <2>1. \A i \in 1 .. 15 : r[Ctx!PushOrder[i]] \in Tags
    BY RegsAre DEF RegFile
  <2>2. a \in [1 .. 15 -> Tags]
    BY <2>1
  <2> QED BY <2>2
<1>8. b \in Seq(Tags) /\ Len(b) = 5
  <2>1. \A i \in 1 .. 5 : f[Len(f) + 1 - i] \in Tags
    <3>1. \A i \in 1 .. 5 : 6 - i \in 1 .. 5
      OBVIOUS
    <3> QED BY <1>3, <3>1, FrameIs
  <2>2. b \in [1 .. 5 -> Tags]
    BY <2>1
  <2> QED BY <2>2
<1> HIDE DEF a, b
<1>9. \A i \in 1 .. Len(a) + Len(b) : (a \o b)[i] = IF i <= Len(a) THEN a[i] ELSE b[i - Len(a)]
  BY <1>7, <1>8, ConcatProperties, Zenon
<1>10. \A i \in 1 .. 20 : (a \o b)[i] = IF i <= 15 THEN a[i] ELSE b[i - 15]
  <2>1. Len(a) + Len(b) = 20
    BY <1>7, <1>8
  <2> QED BY <1>7, <1>9, <2>1
<1>11. \A i \in 1 .. 20 :
          (a \o b)[i] = IF Ctx!Labels[i] \in Ctx!Regs THEN r[Ctx!Labels[i]] ELSE Ctx!Tag("cpu", Ctx!Labels[i])
  <2> TAKE i \in 1 .. 20
  <2>1. CASE i <= 15
    <3>1. i \in 1 .. 15
      BY <2>1
    <3>2. (a \o b)[i] = a[i]
      BY <1>10, <2>1
    <3> QED BY <1>6, <3>1, <3>2, LabelsAre
  <2>2. CASE ~(i <= 15)
    <3>1. i \in 16 .. 20 /\ i - 15 \in 1 .. 5 /\ 6 - (i - 15) = 21 - i
      BY <2>2
    <3>2. (a \o b)[i] = b[i - 15]
      BY <1>10, <2>2
    <3>3. b[i - 15] = Ctx!Tag("cpu", Ctx!FrameWords[21 - i])
      BY <1>4, <3>1
    <3> QED BY <3>1, <3>2, <3>3, LabelsAre
  <2> QED BY <2>1, <2>2
<1> QED BY <1>5, <1>11, LabelsAre DEF f

-----------------------------------------------------------------------------
(* The entry code: the inductive invariant *)

Places == {"user", "syscall", "restore", "exception", "unwind", "frame", "iretq", "start", "lost"}

ContextTypes ==
    /\ pcC \in Places /\ stepC \in Nat
    /\ regs \in RegFile /\ expected \in RegFile /\ callRegs \in RegFile
    /\ aux \in Tags /\ result \in Tags
    /\ stack \in Seq(Tags)

\* The program's words and the frame of its int 0x80 or exception.
Base == Ctx!Own \o Ctx!Frame

\* Under a system call lie the frame and the caller's registers, which no
\* interrupt changes and its exit takes one by one from the top; the result
\* waits in aux meanwhile.
CallInv ==
    /\ pcC = "user" => stack = Ctx!Own
    /\ pcC = "syscall" => stack = Ctx!pushState(callRegs, Base)
    /\ pcC = "restore" => /\ stepC \in 1 .. 16
                          /\ stack = SubSeq(Ctx!pushState(callRegs, Base), 1, 31 - stepC)
                          /\ aux = result \/ "aux" \in tainted

\* The height of the stack before each instruction of FrameCode.
Height == <<0, 1, 1, 2, 3, 4, 4>>

\* The words of the frame that are there are in their places.
FrameInv ==
    /\ 0 < Len(stack) => stack[1] = Ctx!Tag("kernel", "SS")
    /\ Len(stack) \in 0 .. 5
    /\ "frame" \in tainted \/ \A i \in 1 .. Len(stack) : stack[i][2] = Ctx!FrameWords[i]

\* The exit of an exception takes the fifteen words of Base off the stack and
\* builds a frame where they were.
ExceptionInv ==
    /\ pcC = "exception" => Len(stack) = 15
    /\ pcC = "unwind" => stepC \in 1 .. 16 /\ Len(stack) = 16 - stepC
    /\ pcC = "frame" =>
           /\ stepC \in 1 .. 7 /\ Len(stack) = Height[stepC] /\ FrameInv
           /\ Ctx!FrameCode[stepC][1] = "pushRax" =>
                  regs["rax"][2] = Ctx!FrameCode[stepC][2] \/ "rax" \in tainted
    /\ pcC = "lost" => "frame" \in tainted

\* What iretq finds: the frame of int 0x80 over the caller's words, or the
\* frame of an exception's exit.
IretqInv == pcC = "iretq" => stack = Base \/ (Len(stack) = 5 /\ FrameInv)

ContextInv ==
    /\ ContextTypes /\ CallInv /\ ExceptionInv /\ IretqInv
    /\ Ctx!RegistersKept /\ Ctx!ArgumentsArrive

\* The first elements of a sequence.
LEMMA SubSeqFromOne ==
    ASSUME NEW S, NEW q \in Seq(S), NEW m \in 0 .. Len(q)
    PROVE  Len(SubSeq(q, 1, m)) = m /\ SubSeq(q, 1, m) \in Seq(S)
  OBVIOUS

\* Registers loaded by their owner.
LEMMA OwnedIsRegFile ==
    ASSUME NEW who \in {"user", "syscall", "exception"}, NEW g \in Gens
    PROVE  Ctx!Owned(who, g) \in RegFile
<1>1. \A r \in Ctx!Regs : <<who, r, g>> \in Tags
  BY DEF Tags, Words
<1> QED BY <1>1 DEF Ctx!Owned, RegFile

LEMMA BaseIs ==
    /\ Ctx!Own \in Seq(Tags) /\ Len(Ctx!Own) = 10
    /\ Base \in Seq(Tags) /\ Len(Base) = 15
    /\ SubSeq(Base, 1, 10) = Ctx!Own /\ SubSeq(Base, 11, 15) = Ctx!Frame
<1>1. Len(Ctx!FrameWords) = 5
  BY DEF Ctx!FrameWords
<1>2. Ctx!Own = [i \in 1 .. 10 |-> <<"user", "word", i>>]
  BY <1>1, PopIsPushBackwards DEF Ctx!Own
<1>3. \A i \in 1 .. 10 : <<"user", "word", i>> \in Tags
  BY DEF Tags, Words
<1>4. Ctx!Own \in [1 .. 10 -> Tags]
  BY <1>2, <1>3
<1>5. Ctx!Own \in Seq(Tags) /\ Len(Ctx!Own) = 10
  BY <1>2, <1>4
<1>6. Ctx!Frame \in Seq(Tags) /\ Len(Ctx!Frame) = 5
  BY FrameIs
<1>7. /\ Base \in Seq(Tags) /\ Len(Base) = Len(Ctx!Own) + Len(Ctx!Frame)
      /\ \A i \in 1 .. Len(Ctx!Own) + Len(Ctx!Frame) :
             Base[i] = IF i <= Len(Ctx!Own) THEN Ctx!Own[i] ELSE Ctx!Frame[i - Len(Ctx!Own)]
  BY <1>5, <1>6, ConcatProperties, Zenon DEF Base
<1>8. Len(Base) = 15 /\ \A i \in 1 .. 15 : Base[i] = IF i <= 10 THEN Ctx!Own[i] ELSE Ctx!Frame[i - 10]
  BY <1>5, <1>6, <1>7
<1>9. SubSeq(Base, 1, 10) = Ctx!Own
  BY <1>5, <1>7, <1>8
<1>10. SubSeq(Base, 11, 15) = Ctx!Frame
  BY <1>6, <1>7, <1>8
<1> QED BY <1>5, <1>7, <1>8, <1>9, <1>10

\* What sysCallDispatcher finds in its argument registers: no move of the
\* chain overwrites what a later one reads.
LEMMA ShuffleOrders ==
    ASSUME NEW r \in RegFile
    PROVE  /\ Ctx!shuffle(r) \in RegFile
           /\ [i \in 1 .. Len(Ctx!ArgRegs) |-> Ctx!shuffle(r)[Ctx!ArgRegs[i]]] =
              [i \in 1 .. 6 |-> r[<<"rax", "rdi", "rsi", "rdx", "r10", "r8">>[i]]]
<1> DEFINE r1 == Ctx!mov(r, "r9", "r8")
           r2 == Ctx!mov(r1, "r8", "r10")
           r3 == Ctx!mov(r2, "rcx", "rdx")
           r4 == Ctx!mov(r3, "rdx", "rsi")
           r5 == Ctx!mov(r4, "rsi", "rdi")
           q == Ctx!mov(r5, "rdi", "rax")
           to == <<"rdi", "rsi", "rdx", "rcx", "r8", "r9">>
           from == <<"rax", "rdi", "rsi", "rdx", "r10", "r8">>
<1>1. {"rax", "rdi", "rsi", "rdx", "rcx", "r8", "r9", "r10"} \subseteq Ctx!Regs
  BY RegsAre
<1>2. ASSUME NEW s \in RegFile, NEW d \in Ctx!Regs, NEW e \in Ctx!Regs
      PROVE  /\ Ctx!mov(s, d, e) \in RegFile
             /\ \A x \in Ctx!Regs : Ctx!mov(s, d, e)[x] = IF x = d THEN s[e] ELSE s[x]
  BY DEF Ctx!mov, RegFile
<1>3. r1 \in RegFile /\ \A x \in Ctx!Regs : r1[x] = IF x = "r9" THEN r["r8"] ELSE r[x]
  BY <1>1, <1>2
<1> HIDE DEF r1
<1>4. r2 \in RegFile /\ \A x \in Ctx!Regs : r2[x] = IF x = "r8" THEN r1["r10"] ELSE r1[x]
  BY <1>1, <1>2, <1>3
<1> HIDE DEF r2
<1>5. r3 \in RegFile /\ \A x \in Ctx!Regs : r3[x] = IF x = "rcx" THEN r2["rdx"] ELSE r2[x]
  BY <1>1, <1>2, <1>4
<1> HIDE DEF r3
<1>6. r4 \in RegFile /\ \A x \in Ctx!Regs : r4[x] = IF x = "rdx" THEN r3["rsi"] ELSE r3[x]
  BY <1>1, <1>2, <1>5
<1> HIDE DEF r4
<1>7. r5 \in RegFile /\ \A x \in Ctx!Regs : r5[x] = IF x = "rsi" THEN r4["rdi"] ELSE r4[x]
  BY <1>1, <1>2, <1>6
<1> HIDE DEF r5
<1>8. q \in RegFile /\ \A x \in Ctx!Regs : q[x] = IF x = "rdi" THEN r5["rax"] ELSE r5[x]
  BY <1>1, <1>2, <1>7
<1>9. Ctx!shuffle(r) = q
  BY DEF Ctx!shuffle, r1, r2, r3, r4, r5
<1> HIDE DEF q
<1>10. /\ q["rdi"] = r["rax"] /\ q["rsi"] = r["rdi"] /\ q["rdx"] = r["rsi"]
       /\ q["rcx"] = r["rdx"] /\ q["r8"] = r["r10"] /\ q["r9"] = r["r8"]
  BY <1>1, <1>3, <1>4, <1>5, <1>6, <1>7, <1>8
<1>11. Ctx!ArgRegs = to /\ Len(to) = 6
  BY DEF Ctx!ArgRegs
<1>12. \A i \in 1 .. 6 : q[to[i]] = r[from[i]]
  BY <1>10
<1> HIDE DEF to, from
<1>13. [i \in 1 .. Len(Ctx!ArgRegs) |-> q[Ctx!ArgRegs[i]]] = [i \in 1 .. 6 |-> r[from[i]]]
  BY <1>11, <1>12
<1> QED BY <1>8, <1>9, <1>13 DEF from

\* savedRax changes rax alone.
LEMMA SavedRaxKeeps ==
    ASSUME NEW r \in RegFile
    PROVE  /\ Ctx!savedRax(r) \in RegFile
           /\ \A q \in Ctx!Regs : q # "rax" => Ctx!savedRax(r)[q] = r[q]
<1>1. Ctx!Tag("cpu", "SS") \in Tags
  BY DEF Ctx!Tag, Tags, Words
<1> QED BY <1>1 DEF Ctx!savedRax, RegFile

\* One pop: the register gets the top word, and the stack loses it.
LEMMA PopKeeps ==
    ASSUME ContextTypes, stack # << >>, stepC \in 1 .. 15, Ctx!PopRegister
    PROVE  /\ Ctx!PopOrder[stepC] \in Ctx!Regs
           /\ stack[Len(stack)] \in Tags
           /\ stack' = SubSeq(stack, 1, Len(stack) - 1) /\ stack' \in Seq(Tags)
           /\ Len(stack') = Len(stack) - 1
           /\ regs' = [regs EXCEPT ![Ctx!PopOrder[stepC]] = stack[Len(stack)]] /\ regs' \in RegFile
<1>1. Ctx!PopOrder[stepC] \in Ctx!Regs
  <2>1. 16 - stepC \in 1 .. 15
    OBVIOUS
  <2> QED BY <2>1, PopIsPushBackwards, RegsAre
<1>2. Len(stack) \in Nat \ {0} /\ stack[Len(stack)] \in Tags
  BY DEF ContextTypes
<1>3. stack' = SubSeq(stack, 1, Len(stack) - 1)
  BY DEF Ctx!PopRegister, Ctx!Front
<1>4. stack' \in Seq(Tags) /\ Len(stack') = Len(stack) - 1
  <2>1. stack \in Seq(Tags)
    BY DEF ContextTypes
  <2> DEFINE n == Len(stack) - 1
  <2>2. n \in 0 .. Len(stack)
    BY <1>2
  <2> HIDE DEF n
  <2>3. SubSeq(stack, 1, n) \in Seq(Tags) /\ Len(SubSeq(stack, 1, n)) = n
    BY <2>1, <2>2
  <2> QED BY <1>3, <2>3 DEF n
<1>5. regs' = [regs EXCEPT ![Ctx!PopOrder[stepC]] = stack[Len(stack)]]
  BY DEF Ctx!PopRegister, Ctx!Last
<1> QED BY <1>1, <1>2, <1>3, <1>4, <1>5 DEF ContextTypes, RegFile

\* What lay on the stack before pushState stays under the registers.
LEMMA PushUnder ==
    ASSUME NEW r \in RegFile, NEW stk \in Seq(Tags)
    PROVE  SubSeq(Ctx!pushState(r, stk), 1, Len(stk)) = stk
<1> DEFINE p == [i \in 1 .. 15 |-> r[Ctx!PushOrder[i]]]
<1>1. \A i \in 1 .. 15 : r[Ctx!PushOrder[i]] \in Tags
  BY RegsAre DEF RegFile
<1>2. p \in [1 .. 15 -> Tags]
  BY <1>1
<1>3. p \in Seq(Tags) /\ Len(p) = 15
  BY <1>2
<1>4. Ctx!pushState(r, stk) = stk \o p
  BY RegsAre DEF Ctx!pushState
<1> HIDE DEF p
<1>5. SubSeq(stk \o p, 1, Len(stk)) = stk
  BY <1>3
<1> QED BY <1>4, <1>5

\* The stack under a system call.
LEMMA CallStack ==
    ASSUME NEW r \in RegFile
    PROVE  /\ Ctx!pushState(r, Base) \in Seq(Tags) /\ Len(Ctx!pushState(r, Base)) = 30
           /\ \A i \in 1 .. 15 : Ctx!pushState(r, Base)[15 + i] = r[Ctx!PushOrder[i]]
<1>1. Base \in Seq(Tags) /\ Len(Base) = 15
  BY BaseIs
<1> HIDE DEF Base
<1>2. /\ Ctx!pushState(r, Base) \in Seq(Tags)
      /\ Len(Ctx!pushState(r, Base)) = Len(Base) + 15
      /\ \A i \in 1 .. 15 : Ctx!pushState(r, Base)[Len(Base) + i] = r[Ctx!PushOrder[i]]
  BY <1>1, PushState, Zenon
<1> QED BY <1>1, <1>2

\* The frame of an exception's exit is not one the processor pushed.
LEMMA OwnFrame ==
    ASSUME stack \in Seq(Tags), Len(stack) = 5, FrameInv
    PROVE  SubSeq(stack, Len(stack) + 1 - 5, Len(stack)) # Ctx!Frame
<1>1. SubSeq(stack, Len(stack) + 1 - 5, Len(stack)) = stack
  OBVIOUS
<1>2. stack[1] = Ctx!Tag("kernel", "SS")
  BY DEF FrameInv
<1>3. Ctx!Frame[1] = Ctx!Tag("cpu", Ctx!FrameWords[1])
  BY FrameIs
<1>4. Ctx!Tag("kernel", "SS")[1] # Ctx!Tag("cpu", Ctx!FrameWords[1])[1]
  BY DEF Ctx!Tag
<1> QED BY <1>1, <1>2, <1>3, <1>4

\* One push.
LEMMA PushKeeps ==
    ASSUME stack \in Seq(Tags), NEW w \in Tags
    PROVE  /\ Append(stack, w) \in Seq(Tags) /\ Len(Append(stack, w)) = Len(stack) + 1
           /\ Append(stack, w)[Len(stack) + 1] = w
           /\ \A i \in 1 .. Len(stack) : Append(stack, w)[i] = stack[i]
BY AppendProperties

LEMMA FrameCodeIs ==
    /\ Len(Ctx!FrameCode) = 7
    /\ \A i \in 1 .. 7 : /\ Ctx!FrameCode[i][2] \in {"SS", "RSP", "RFLAGS", "CS", "RIP"}
                         /\ Ctx!FrameCode[i][1] # "load" =>
                                /\ Ctx!FrameCode[i][2] = Ctx!FrameWords[Height[i] + 1]
                                /\ Height[i] \in 0 .. 4
                                /\ i < 7 => Height[i + 1] = Height[i] + 1 /\ Ctx!FrameCode[i + 1][1] # "pushRax"
                                /\ i = 7 => Height[i] = 4
                         /\ Ctx!FrameCode[i][1] = "load" =>
                                /\ i < 7 /\ Height[i + 1] = Height[i]
                                /\ Ctx!FrameCode[i + 1] = <<"pushRax", Ctx!FrameCode[i][2]>>
BY DEF Ctx!FrameCode, Height, Ctx!FrameWords

LEMMA ContextInit ==
    ASSUME Ctx!Init
    PROVE  ContextInv
<1>1. PICK g \in Gens : regs = Ctx!Owned("user", g)
  BY DEF Ctx!Init
<1>2. regs \in RegFile /\ expected \in RegFile /\ callRegs \in RegFile
  BY <1>1, OwnedIsRegFile DEF Ctx!Init
<1>3. aux \in Tags /\ result \in Tags
  BY DEF Ctx!Init, Ctx!Tag, Tags, Words
<1>4. ContextTypes /\ CallInv /\ ExceptionInv /\ IretqInv
  BY <1>2, <1>3, BaseIs DEF Ctx!Init, ContextTypes, CallInv, ExceptionInv, IretqInv, Places
<1>5. Ctx!RegistersKept /\ Ctx!ArgumentsArrive
  BY DEF Ctx!Init, Ctx!RegistersKept, Ctx!ArgumentsArrive
<1> QED BY <1>4, <1>5 DEF ContextInv

LEMMA ContextStep ==
    ASSUME ContextInv, Ctx!Next
    PROVE  ContextInv'
<1>1. /\ regs \in RegFile /\ expected \in RegFile /\ callRegs \in RegFile
      /\ stack \in Seq(Tags) /\ aux \in Tags /\ result \in Tags /\ stepC \in Nat /\ pcC \in Places
  BY DEF ContextInv, ContextTypes
<1>2. CallInv /\ ExceptionInv /\ IretqInv /\ Ctx!RegistersKept /\ Ctx!ArgumentsArrive
  BY DEF ContextInv
<1>3. Ctx!Frame \in Seq(Tags) /\ Len(Ctx!Frame) = 5
  BY FrameIs
<1>4. stack \o Ctx!Frame \in Seq(Tags)
  BY <1>1, <1>3, ConcatProperties, Zenon
<1>5. "rax" \in Ctx!Regs
  BY RegsAre
<1> USE DEF ContextInv, ContextTypes, Places
<1>6. CASE \E g \in Gens : Ctx!Compute(g) \/ Ctx!Start(g)
  <2>1. PICK g \in Gens : Ctx!Compute(g) \/ Ctx!Start(g)
    BY <1>6
  <2>2. CASE Ctx!Compute(g)
    <3>1. Ctx!Owned(pcC, g) \in RegFile
      BY <2>2, OwnedIsRegFile DEF Ctx!Compute
    <3>2. ContextTypes'
      BY <1>1, <2>2, <3>1 DEF Ctx!Compute
    <3>3. CallInv' /\ ExceptionInv' /\ IretqInv' /\ Ctx!RegistersKept' /\ Ctx!ArgumentsArrive'
      BY <1>2, <2>2 DEF Ctx!Compute, CallInv, ExceptionInv, IretqInv, Ctx!RegistersKept, Ctx!ArgumentsArrive
    <3> QED BY <3>2, <3>3
  <2>3. CASE Ctx!Start(g)
    <3>1. Ctx!Owned("user", g) \in RegFile
      BY OwnedIsRegFile
    <3>2. ContextTypes'
      BY <1>1, <2>3, <3>1, BaseIs DEF Ctx!Start
    <3>3. CallInv' /\ ExceptionInv' /\ IretqInv' /\ Ctx!RegistersKept' /\ Ctx!ArgumentsArrive'
      BY <1>2, <2>3 DEF Ctx!Start, CallInv, ExceptionInv, IretqInv, Ctx!RegistersKept, Ctx!ArgumentsArrive
    <3> QED BY <3>2, <3>3
  <2> QED BY <2>1, <2>2, <2>3
<1>7. CASE Ctx!EnableInterrupts
  BY <1>1, <1>2, <1>7 DEF Ctx!EnableInterrupts, CallInv, ExceptionInv, IretqInv, FrameInv,
                          Ctx!RegistersKept, Ctx!ArgumentsArrive
<1>8. CASE Ctx!Int80
  <2>1. /\ pcC = "user" /\ pcC' = "syscall" /\ stepC' = stepC /\ aux' = aux /\ result' = result
        /\ stack' = Ctx!pushState(regs, stack \o Ctx!Frame)
        /\ regs' = Ctx!shuffle(regs) /\ expected' = regs' /\ callRegs' = regs
        /\ args' = [i \in 1 .. Len(Ctx!ArgRegs) |-> regs'[Ctx!ArgRegs[i]]]
    BY <1>8 DEF Ctx!Int80
  <2>2. stack \o Ctx!Frame = Base
    BY <1>2, <2>1 DEF CallInv, Base
  <2>3. stack' = Ctx!pushState(callRegs', Base)
    BY <2>1, <2>2
  <2>4. ContextTypes'
    BY <1>1, <2>1, <2>3, BaseIs, ShuffleOrders, PushState
  <2>5. CallInv' /\ ExceptionInv' /\ IretqInv'
    BY <2>1, <2>3 DEF CallInv, ExceptionInv, IretqInv
  <2>6. Ctx!RegistersKept'
    BY <2>1 DEF Ctx!RegistersKept
  <2>7. Ctx!ArgumentsArrive'
    BY <1>1, <2>1, ShuffleOrders DEF Ctx!ArgumentsArrive
  <2> QED BY <2>4, <2>5, <2>6, <2>7
<1>9. CASE Ctx!StoreResult
  <2> DEFINE s == Ctx!pushState(callRegs, Base)
  <2>1. s \in Seq(Tags) /\ Len(s) = 30
    BY <1>1, CallStack
  <2>2. SubSeq(s, 1, 30) = s
    BY <2>1
  <2>3. stack = s
    BY <1>2, <1>9 DEF Ctx!StoreResult, CallInv
  <2>4. regs["rax"] \in Tags /\ expected["rax"] \in Tags
    BY <1>1, <1>5 DEF RegFile
  <2>5. regs["rax"] = expected["rax"] \/ "rax" \in tainted
    BY <1>2, <1>5 DEF Ctx!RegistersKept
  <2> HIDE DEF s
  <2>6. ContextTypes'
    BY <1>1, <1>9, <2>4 DEF Ctx!StoreResult
  <2>7. CallInv'
    <3>1. pcC' = "restore" /\ stepC' = 1 /\ stack' = stack /\ callRegs' = callRegs
      BY <1>9 DEF Ctx!StoreResult
    <3>2. aux' = result' \/ "aux" \in tainted'
      BY <1>9, <2>5 DEF Ctx!StoreResult
    <3>3. stack' = SubSeq(Ctx!pushState(callRegs', Base), 1, 31 - stepC')
      BY <2>2, <2>3, <3>1 DEF s
    <3>4. stepC' \in 1 .. 16
      BY <3>1
    <3> QED BY <3>1, <3>2, <3>3, <3>4 DEF CallInv
  <2>8. ExceptionInv' /\ IretqInv'
    BY <1>9 DEF Ctx!StoreResult, ExceptionInv, IretqInv
  <2>9. Ctx!RegistersKept' /\ Ctx!ArgumentsArrive'
    BY <1>2, <1>9 DEF Ctx!StoreResult, Ctx!RegistersKept, Ctx!ArgumentsArrive
  <2> QED BY <2>6, <2>7, <2>8, <2>9
<1>10. CASE Ctx!RestoreRegister
  <2> DEFINE s == Ctx!pushState(callRegs, Base)
             r == Ctx!PopOrder[stepC]
  <2>1. /\ pcC = "restore" /\ pcC' = pcC /\ stepC \in 1 .. 15 /\ stepC' = stepC + 1
        /\ stack = SubSeq(s, 1, 31 - stepC) /\ (aux = result \/ "aux" \in tainted)
        /\ Ctx!PopRegister
    BY <1>2, <1>10, PopIsPushBackwards DEF Ctx!RestoreRegister, Ctx!PopRegister, CallInv
  <2>2. s \in Seq(Tags) /\ Len(s) = 30 /\ \A i \in 1 .. 15 : s[15 + i] = callRegs[Ctx!PushOrder[i]]
    BY <1>1, CallStack
  <2> HIDE DEF s
  <2>3. Len(stack) = 31 - stepC /\ \A i \in 1 .. 31 - stepC : stack[i] = s[i]
    <3> DEFINE n == 31 - stepC
    <3>1. n \in 16 .. 30
      BY <2>1
    <3>2. stack = SubSeq(s, 1, n)
      BY <2>1
    <3> HIDE DEF n
    <3>3. Len(stack) = n /\ \A i \in 1 .. n : stack[i] = s[i]
      BY <2>2, <3>1, <3>2
    <3> QED BY <3>3 DEF n
  <2>4. stack # << >>
    <3>1. Len(stack) # 0
      BY <2>1, <2>3
    <3> QED BY <3>1
  <2>5. /\ r \in Ctx!Regs /\ stack' = SubSeq(stack, 1, Len(stack) - 1) /\ stack' \in Seq(Tags)
        /\ Len(stack') = Len(stack) - 1
        /\ regs' = [regs EXCEPT ![r] = stack[Len(stack)]] /\ regs' \in RegFile
    BY <2>1, <2>4, PopKeeps
  <2>6. stack[Len(stack)] = callRegs[r]
    <3>1. 16 - stepC \in 1 .. 15 /\ 15 + (16 - stepC) = 31 - stepC
      BY <2>1
    <3>2. s[31 - stepC] = callRegs[Ctx!PushOrder[16 - stepC]]
      BY <2>2, <3>1
    <3>3. 31 - stepC \in 1 .. 31 - stepC
      BY <2>1
    <3> QED BY <2>1, <2>3, <3>2, <3>3, PopIsPushBackwards
  <2>7. /\ expected' = [expected EXCEPT ![r] = callRegs[r]] /\ callRegs' = callRegs /\ args' = args
        /\ aux' = aux /\ result' = result
        /\ tainted' = IF r = "rax" THEN tainted \ {"rax"} ELSE tainted
    BY <1>10 DEF Ctx!RestoreRegister, Ctx!PopRegister
  <2>8. stack' = SubSeq(s, 1, 31 - stepC')
    <3> DEFINE n == 31 - stepC'
    <3>1. n \in 15 .. 29 /\ n = Len(stack) - 1
      BY <2>1, <2>3
    <3>2. stack' = SubSeq(stack, 1, n) /\ Len(stack') = n
      BY <2>5, <3>1
    <3> HIDE DEF n
    <3>3. Len(SubSeq(s, 1, n)) = n /\ SubSeq(s, 1, n) \in Seq(Tags)
      <4>1. n \in 15 .. 29
        BY <3>1
      <4>2. s \in Seq(Tags) /\ Len(s) = 30
        BY <2>2
      <4>3. n \in 0 .. 30
        BY <4>1
      <4>4. n \in 0 .. Len(s)
        BY <4>2, <4>3, Zenon
      <4> QED BY <4>2, <4>4, SubSeqFromOne, Zenon
    <3>4. \A i \in 1 .. n : SubSeq(s, 1, n)[i] = s[i]
      BY <2>2, <3>1
    <3>5. \A i \in 1 .. n : stack'[i] = s[i]
      <4>1. \A i \in 1 .. n : i \in 1 .. Len(stack)
        BY <1>1, <3>1
      <4>2. \A i \in 1 .. n : SubSeq(stack, 1, n)[i] = stack[i]
        BY <1>1, <3>1
      <4>3. \A i \in 1 .. n : stack[i] = s[i]
        BY <2>3, <4>1
      <4> QED BY <3>2, <4>2, <4>3
    <3> HIDE DEF r
    <3>6. stack' = SubSeq(s, 1, n)
      BY <2>5, <3>2, <3>3, <3>4, <3>5, SeqEqual
    <3> QED BY <3>6 DEF n
  <2> HIDE DEF r
  <2>9. ContextTypes'
    BY <1>1, <2>1, <2>5, <2>7 DEF RegFile
  <2>10. CallInv' /\ ExceptionInv' /\ IretqInv'
    <3>1. pcC' = "restore" /\ stepC' \in 1 .. 16
      BY <2>1
    <3>2. stack' = SubSeq(Ctx!pushState(callRegs', Base), 1, 31 - stepC')
      BY <2>7, <2>8 DEF s
    <3>3. aux' = result' \/ "aux" \in tainted'
      BY <2>1, <2>7
    <3> QED BY <3>1, <3>2, <3>3 DEF CallInv, ExceptionInv, IretqInv
  <2>11. Ctx!RegistersKept'
    BY <1>1, <1>2, <2>5, <2>6, <2>7 DEF Ctx!RegistersKept, RegFile
  <2>12. Ctx!ArgumentsArrive'
    BY <1>2, <2>7 DEF Ctx!ArgumentsArrive
  <2> QED BY <2>9, <2>10, <2>11, <2>12
<1>11. CASE Ctx!ReloadResult
  <2>1. /\ pcC = "restore" /\ pcC' = "iretq" /\ stepC = 16 /\ stepC' = stepC /\ stack' = stack
        /\ regs' = [regs EXCEPT !["rax"] = aux] /\ expected' = [expected EXCEPT !["rax"] = result]
        /\ tainted' = (IF "aux" \in tainted THEN {"rax"} ELSE {})
        /\ callRegs' = callRegs /\ args' = args /\ aux' = aux /\ result' = result
    BY <1>11, PopIsPushBackwards DEF Ctx!ReloadResult
  <2>2. stack = SubSeq(Ctx!pushState(callRegs, Base), 1, 15) /\ (aux = result \/ "aux" \in tainted)
    BY <1>2, <2>1 DEF CallInv
  <2>3. stack = Base
    BY <1>1, <2>2, BaseIs, PushUnder
  <2>4. ContextTypes'
    BY <1>1, <1>5, <2>1 DEF RegFile
  <2>5. CallInv' /\ ExceptionInv' /\ IretqInv'
    BY <2>1, <2>3 DEF CallInv, ExceptionInv, IretqInv
  <2>6. Ctx!RegistersKept'
    <3>1. regs'["rax"] = aux /\ expected'["rax"] = result
      BY <1>1, <1>5, <2>1 DEF RegFile
    <3>2. \A r \in Ctx!Regs : r # "rax" => regs'[r] = expected'[r]
      BY <1>1, <1>2, <2>1 DEF RegFile, Ctx!RegistersKept
    <3> QED BY <2>1, <2>2, <3>1, <3>2 DEF Ctx!RegistersKept
  <2>7. Ctx!ArgumentsArrive'
    BY <1>2, <2>1 DEF Ctx!ArgumentsArrive
  <2> QED BY <2>4, <2>5, <2>6, <2>7
<1>12. CASE Ctx!Irq
  <2>1. regs' = regs
    BY <1>1, <1>4, <1>12, PopUndoesPush DEF Ctx!Irq, Ctx!afterIrq
  <2> QED BY <1>1, <1>2, <1>12, <2>1 DEF Ctx!Irq, CallInv, ExceptionInv, IretqInv, FrameInv,
                                         Ctx!RegistersKept, Ctx!ArgumentsArrive
<1>13. CASE Ctx!Irq1Esc
  <2>1. Ctx!savedRax(regs) \in RegFile
    BY <1>1, SavedRaxKeeps
  <2>2. regs' = Ctx!savedRax(regs)
    BY <1>4, <1>13, <2>1, PopUndoesPush DEF Ctx!Irq1Esc, Ctx!afterIrq
  <2>3. /\ pcC' = pcC /\ stepC' = stepC /\ stack' = stack /\ expected' = expected /\ callRegs' = callRegs
        /\ aux' = aux /\ result' = result /\ args' = args /\ tainted' = tainted \union {"rax"}
    BY <1>13 DEF Ctx!Irq1Esc
  <2>4. ContextTypes'
    BY <1>1, <2>1, <2>2, <2>3
  <2>5. CallInv' /\ ExceptionInv' /\ IretqInv'
    BY <1>2, <2>3 DEF CallInv, ExceptionInv, IretqInv, FrameInv
  <2>6. Ctx!RegistersKept'
    BY <1>1, <1>2, <2>2, <2>3, SavedRaxKeeps DEF Ctx!RegistersKept
  <2>7. Ctx!ArgumentsArrive'
    BY <1>2, <2>3 DEF Ctx!ArgumentsArrive
  <2> QED BY <2>4, <2>5, <2>6, <2>7
<1>14. CASE Ctx!Exception
  <2>1. /\ pcC = "user" /\ pcC' = "exception" /\ stack' = stack \o Ctx!Frame
        /\ regs' = Ctx!savedRax(regs) /\ expected' = regs'
        /\ stepC' = stepC /\ aux' = aux /\ result' = result /\ args' = args /\ callRegs' = callRegs
    BY <1>14 DEF Ctx!Exception
  <2>2. stack' = Base
    BY <1>2, <2>1 DEF CallInv, Base
  <2>3. ContextTypes'
    BY <1>1, <2>1, <2>2, BaseIs, SavedRaxKeeps
  <2>4. CallInv' /\ ExceptionInv' /\ IretqInv'
    BY <2>1, <2>2, BaseIs DEF CallInv, ExceptionInv, IretqInv
  <2> QED BY <1>2, <2>1, <2>3, <2>4 DEF Ctx!RegistersKept, Ctx!ArgumentsArrive
<1>15. CASE Ctx!StartUnwind
  <2>1. ContextTypes'
    BY <1>1, <1>15 DEF Ctx!StartUnwind
  <2> QED BY <1>2, <1>15, <2>1 DEF Ctx!StartUnwind, CallInv, ExceptionInv, IretqInv,
                                   Ctx!RegistersKept, Ctx!ArgumentsArrive
<1>16. CASE Ctx!UnwindRegister
  <2> DEFINE r == Ctx!PopOrder[stepC]
  <2>1. /\ pcC = "unwind" /\ pcC' = pcC /\ stepC \in 1 .. 15 /\ stepC' = stepC + 1
        /\ Len(stack) = 16 - stepC /\ Ctx!PopRegister
    BY <1>2, <1>16, PopIsPushBackwards DEF Ctx!UnwindRegister, Ctx!PopRegister, ExceptionInv
  <2>2. stack # << >>
    BY <2>1
  <2>3. /\ r \in Ctx!Regs /\ stack[Len(stack)] \in Tags /\ stack' \in Seq(Tags)
        /\ Len(stack') = Len(stack) - 1
        /\ regs' = [regs EXCEPT ![r] = stack[Len(stack)]] /\ regs' \in RegFile
    BY <2>1, <2>2, PopKeeps
  <2>4. /\ expected' = [expected EXCEPT ![r] = stack[Len(stack)]] /\ callRegs' = callRegs /\ args' = args
        /\ aux' = aux /\ result' = result
        /\ tainted' = IF r = "rax" THEN tainted \ {"rax"} ELSE tainted
    BY <1>16 DEF Ctx!UnwindRegister, Ctx!PopRegister, Ctx!Last
  <2> HIDE DEF r
  <2>5. ContextTypes'
    BY <1>1, <2>1, <2>3, <2>4 DEF RegFile
  <2>6. CallInv' /\ ExceptionInv' /\ IretqInv'
    BY <2>1, <2>3 DEF CallInv, ExceptionInv, IretqInv
  <2>7. Ctx!RegistersKept'
    BY <1>1, <1>2, <2>3, <2>4 DEF Ctx!RegistersKept, RegFile
  <2> QED BY <1>2, <2>4, <2>5, <2>6, <2>7 DEF Ctx!ArgumentsArrive
<1>17. CASE Ctx!StartFrame
  <2>1. /\ pcC = "unwind" /\ pcC' = "frame" /\ stepC = 16 /\ stepC' = 1 /\ stack' = stack
        /\ regs' = regs /\ expected' = expected /\ callRegs' = callRegs /\ args' = args
        /\ aux' = aux /\ result' = result /\ tainted' = tainted
    BY <1>17, PopIsPushBackwards DEF Ctx!StartFrame
  <2>2. Len(stack) = 0
    BY <1>2, <2>1 DEF ExceptionInv
  <2>3. Height[1] = 0 /\ Ctx!FrameCode[1][1] # "pushRax"
    BY DEF Height, Ctx!FrameCode
  <2>4. ContextTypes'
    BY <1>1, <2>1
  <2>5. CallInv' /\ ExceptionInv' /\ IretqInv'
    BY <2>1, <2>2, <2>3 DEF CallInv, ExceptionInv, IretqInv, FrameInv
  <2> QED BY <1>2, <2>1, <2>4, <2>5 DEF Ctx!RegistersKept, Ctx!ArgumentsArrive
<1>18. CASE Ctx!PushWord \/ Ctx!PushRax
  <2> DEFINE h == Len(stack)
             w == stack'[h + 1]
             word == Ctx!FrameCode[stepC][2]
  <2>1. /\ pcC = "frame" /\ stepC \in 1 .. 7 /\ h = Height[stepC] /\ FrameInv
        /\ Ctx!FrameCode[stepC][1] = "pushRax" => regs["rax"][2] = word \/ "rax" \in tainted
    BY <1>2, <1>18 DEF Ctx!PushWord, Ctx!PushRax, Ctx!FrameStep, ExceptionInv
  <2>2. /\ stepC' = stepC + 1 /\ pcC' = (IF stepC = 7 THEN "iretq" ELSE pcC)
        /\ aux' = aux /\ result' = result /\ args' = args /\ callRegs' = callRegs
        /\ regs' = regs /\ expected' = expected
        /\ Ctx!FrameCode[stepC][1] # "load"
    BY <1>18, FrameCodeIs DEF Ctx!PushWord, Ctx!PushRax, Ctx!FrameStep
  <2>3. Ctx!Tag("kernel", word) \in Tags /\ regs["rax"] \in Tags
    <3>1. word \in Words
      BY <2>1, FrameCodeIs DEF Words
    <3> QED BY <1>1, <1>5, <3>1 DEF Ctx!Tag, Tags, RegFile
  <2>4. /\ stack' \in Seq(Tags) /\ Len(stack') = h + 1 /\ \A i \in 1 .. h : stack'[i] = stack[i]
        /\ w = Ctx!Tag("kernel", word) \/ w = regs["rax"]
    <3>1. stack' = Append(stack, Ctx!Tag("kernel", word)) \/ stack' = Append(stack, regs["rax"])
      BY <1>18 DEF Ctx!PushWord, Ctx!PushRax
    <3> QED BY <1>1, <2>3, <3>1, PushKeeps
  <2>5. /\ tainted \subseteq tainted' /\ tainted' \subseteq tainted \union {"frame"}
        /\ w[2] = word \/ "frame" \in tainted'
        /\ h = 0 => w = Ctx!Tag("kernel", "SS")
    <3>1. CASE Ctx!PushWord
      <4>1. stack' = Append(stack, Ctx!Tag("kernel", word)) /\ tainted' = tainted
        BY <3>1 DEF Ctx!PushWord
      <4>2. w = Ctx!Tag("kernel", word)
        BY <1>1, <2>3, <4>1, PushKeeps
      <4>3. h = 0 => word = "SS"
        <5>1. Ctx!FrameWords[0 + 1] = "SS"
          BY DEF Ctx!FrameWords
        <5>2. word = Ctx!FrameWords[h + 1]
          BY <2>1, <2>2, FrameCodeIs
        <5> HIDE DEF word, h
        <5> QED BY <5>1, <5>2
      <4> QED BY <4>1, <4>2, <4>3 DEF Ctx!Tag
    <3>2. CASE Ctx!PushRax
      <4>1. /\ stack' = Append(stack, regs["rax"])
            /\ tainted' = tainted \union (IF "rax" \in tainted THEN {"frame"} ELSE {})
            /\ Ctx!FrameCode[stepC][1] = "pushRax"
        BY <3>2 DEF Ctx!PushRax, Ctx!FrameStep
      <4>2. w = regs["rax"]
        BY <1>1, <2>3, <4>1, PushKeeps
      <4>3. h # 0
        BY <2>1, <4>1 DEF Height, Ctx!FrameCode
      <4> QED BY <2>1, <4>1, <4>2, <4>3
    <3> QED BY <1>18, <3>1, <3>2
  <2>6. word = Ctx!FrameWords[h + 1] /\ h \in 0 .. 4
    BY <2>1, <2>2, FrameCodeIs
  <2> HIDE DEF h, w, word
  <2>7. FrameInv'
    <3>1. Len(stack') = h + 1 /\ h + 1 \in 1 .. 5
      BY <2>4, <2>6
    <3>2. stack'[1] = Ctx!Tag("kernel", "SS")
      <4>1. CASE h = 0
        BY <2>5, <4>1 DEF w
      <4>2. CASE h # 0
        <5>1. 1 \in 1 .. h /\ 0 < Len(stack)
          BY <2>6, <4>2 DEF h
        <5> QED BY <2>1, <2>4, <5>1 DEF FrameInv
      <4> QED BY <4>1, <4>2
    <3>3. "frame" \in tainted' \/ \A i \in 1 .. Len(stack') : stack'[i][2] = Ctx!FrameWords[i]
      <4> SUFFICES ASSUME "frame" \notin tainted', NEW i \in 1 .. Len(stack')
                   PROVE  stack'[i][2] = Ctx!FrameWords[i]
        OBVIOUS
      <4>1. CASE i = h + 1
        BY <2>5, <2>6, <4>1 DEF w
      <4>2. CASE i # h + 1
        <5>1. i \in 1 .. h /\ i \in 1 .. Len(stack)
          BY <2>6, <3>1, <4>2 DEF h
        <5>2. "frame" \notin tainted
          BY <2>5
        <5> QED BY <2>1, <2>4, <5>1, <5>2 DEF FrameInv
      <4> QED BY <4>1, <4>2
    <3> QED BY <3>1, <3>2, <3>3 DEF FrameInv
  <2>8. ContextTypes'
    BY <1>1, <2>1, <2>2, <2>4
  <2>9. CallInv'
    BY <2>1, <2>2 DEF CallInv
  <2>10. ExceptionInv'
    <3>1. CASE stepC = 7
      BY <2>2, <3>1 DEF ExceptionInv
    <3>2. CASE stepC # 7
      <4>1. stepC' \in 1 .. 7 /\ pcC' = "frame"
        BY <2>1, <2>2, <3>2
      <4>2. Height[stepC'] = Height[stepC] + 1 /\ Ctx!FrameCode[stepC'][1] # "pushRax"
        BY <2>1, <2>2, <3>2, FrameCodeIs
      <4>3. Len(stack') = Height[stepC']
        BY <2>1, <2>4, <4>2
      <4> QED BY <2>7, <4>1, <4>2, <4>3 DEF ExceptionInv
    <3> QED BY <3>1, <3>2
  <2>11. IretqInv'
    <3>1. stepC = 7 => Len(stack') = 5
      BY <2>1, <2>2, <2>4, FrameCodeIs DEF h
    <3> QED BY <2>1, <2>2, <2>7, <3>1 DEF IretqInv
  <2>12. Ctx!RegistersKept' /\ Ctx!ArgumentsArrive'
    BY <1>2, <2>2, <2>5 DEF Ctx!RegistersKept, Ctx!ArgumentsArrive
  <2> QED BY <2>8, <2>9, <2>10, <2>11, <2>12
<1>19. CASE Ctx!LoadRax
  <2> DEFINE word == Ctx!FrameCode[stepC][2]
  <2>1. /\ pcC = "frame" /\ stepC \in 1 .. 7 /\ Len(stack) = Height[stepC] /\ FrameInv
    BY <1>2, <1>19 DEF Ctx!LoadRax, Ctx!FrameStep, ExceptionInv
  <2>2. /\ stepC' = stepC + 1 /\ pcC' = (IF stepC = 7 THEN "iretq" ELSE pcC)
        /\ aux' = aux /\ result' = result /\ args' = args /\ callRegs' = callRegs
        /\ regs' = [regs EXCEPT !["rax"] = Ctx!Tag("kernel", word)] /\ expected' = regs'
        /\ tainted' = tainted \ {"rax"} /\ stack' = stack
        /\ Ctx!FrameCode[stepC][1] = "load"
    BY <1>19, FrameCodeIs DEF Ctx!LoadRax, Ctx!FrameStep
  <2>3. Ctx!Tag("kernel", word) \in Tags
    <3>1. word \in Words
      BY <2>1, FrameCodeIs DEF Words
    <3> QED BY <3>1 DEF Ctx!Tag, Tags
  <2>4. regs' \in RegFile /\ regs'["rax"][2] = word
    BY <1>1, <1>5, <2>2, <2>3 DEF RegFile, Ctx!Tag
  <2>5. stepC < 7 /\ Height[stepC'] = Height[stepC] /\ Ctx!FrameCode[stepC'] = <<"pushRax", word>>
    BY <2>1, <2>2, FrameCodeIs
  <2> HIDE DEF word
  <2>6. stepC' \in 1 .. 7 /\ pcC' = "frame"
    BY <2>1, <2>2, <2>5
  <2>7. ContextTypes'
    BY <1>1, <2>2, <2>4, <2>6
  <2>8. FrameInv'
    BY <2>1, <2>2 DEF FrameInv
  <2>9. CallInv' /\ ExceptionInv' /\ IretqInv'
    BY <2>1, <2>2, <2>4, <2>5, <2>6, <2>8 DEF CallInv, ExceptionInv, IretqInv
  <2> QED BY <1>2, <2>2, <2>7, <2>9 DEF Ctx!RegistersKept, Ctx!ArgumentsArrive
<1>20. CASE Ctx!IretqToCaller
  <2>1. /\ pcC = "iretq" /\ pcC' = "user" /\ SubSeq(stack, Len(stack) + 1 - 5, Len(stack)) = Ctx!Frame
        /\ stack' = SubSeq(stack, 1, Len(stack) - 5)
        /\ stepC' = stepC /\ regs' = regs /\ expected' = expected /\ callRegs' = callRegs /\ args' = args
        /\ aux' = aux /\ result' = result /\ tainted' = tainted
    BY <1>3, <1>20 DEF Ctx!IretqToCaller, Ctx!LastWords, Ctx!Drop
  <2>2. ~(Len(stack) = 5 /\ FrameInv)
    BY <1>1, <2>1, OwnFrame
  <2>3. stack = Base
    BY <1>2, <2>1, <2>2 DEF IretqInv
  <2>4. stack' = Ctx!Own
    BY <2>1, <2>3, BaseIs
  <2>5. ContextTypes'
    BY <1>1, <2>1, <2>4, BaseIs
  <2>6. CallInv' /\ ExceptionInv' /\ IretqInv'
    BY <2>1, <2>4 DEF CallInv, ExceptionInv, IretqInv
  <2> QED BY <1>2, <2>1, <2>5, <2>6 DEF Ctx!RegistersKept, Ctx!ArgumentsArrive
<1>21. CASE Ctx!IretqToStart
  <2> DEFINE top == SubSeq(stack, Len(stack) + 1 - 5, Len(stack))
  <2>1. /\ pcC = "iretq" /\ top # Ctx!Frame /\ pcC' = (IF Ctx!IsFrame(top) THEN "start" ELSE "lost")
        /\ stack' = << >>
        /\ stepC' = stepC /\ regs' = regs /\ expected' = expected /\ callRegs' = callRegs /\ args' = args
        /\ aux' = aux /\ result' = result /\ tainted' = tainted
    BY <1>3, <1>21 DEF Ctx!IretqToStart, Ctx!LastWords
  <2>2. Len(stack) = 5 /\ FrameInv
    <3>1. stack # Base
      <4> SUFFICES ASSUME stack = Base PROVE FALSE
        OBVIOUS
      <4>1. SubSeq(Base, Len(Base) + 1 - 5, Len(Base)) = Ctx!Frame
        BY BaseIs
      <4> QED BY <2>1, <4>1
    <3> QED BY <1>2, <2>1, <3>1 DEF IretqInv
  <2>3. top = stack
    BY <1>1, <2>2
  <2>4. Ctx!IsFrame(top) \/ "frame" \in tainted
    <3>1. Len(Ctx!FrameWords) = 5
      BY DEF Ctx!FrameWords
    <3> QED BY <2>2, <2>3, <3>1 DEF FrameInv, Ctx!IsFrame
  <2> HIDE DEF top
  <2>5. ContextTypes'
    BY <1>1, <2>1
  <2>6. CallInv' /\ ExceptionInv' /\ IretqInv'
    BY <2>1, <2>4 DEF CallInv, ExceptionInv, IretqInv
  <2> QED BY <1>2, <2>1, <2>5, <2>6 DEF Ctx!RegistersKept, Ctx!ArgumentsArrive
<1> QED BY <1>6, <1>7, <1>8, <1>9, <1>10, <1>11, <1>12, <1>13, <1>14, <1>15, <1>16, <1>17, <1>18,
           <1>19, <1>20, <1>21 DEF Ctx!Next

LEMMA ContextStays ==
    ASSUME ContextInv, UNCHANGED contextVars
    PROVE  ContextInv'
BY DEF contextVars, ContextInv, ContextTypes, CallInv, ExceptionInv, IretqInv, FrameInv,
       Ctx!RegistersKept, Ctx!ArgumentsArrive

-----------------------------------------------------------------------------
(* The speaker: the inductive invariant *)

Bit(b) == IF b THEN 1 ELSE 0

\* The ticks counted since the beep began; ticks may have come round.
Counted == (ticks - start) % TickRange

\* The types, apart for the flags and the numbers.
SpeakerFlags ==
    /\ iflagB \in BOOLEAN /\ gate \in BOOLEAN /\ data \in BOOLEAN
    /\ pending \in BOOLEAN /\ recent \in BOOLEAN

SpeakerNumbers ==
    /\ pcB \in {"user", "test", "hlt", "halted"}
    /\ ticks \in 0 .. TickRange - 1 /\ start \in 0 .. TickRange - 1
    /\ ticksToWait \in Nat /\ elapsed \in Nat
    /\ counter \in Speaker!Word
    /\ request \in [frequency : Nat, ms : Nat]

\* The speaker is on with the divisor of the frequency asked for.
ToneInv ==
    gate => Speaker!InRange(request.frequency) /\ counter = Speaker!Divisor(request.frequency)

\* Until sleep stops the processor for the first time interrupts are off: no
\* tick is counted, and one pulse at most has come.
MaskInv ==
    /\ pcB \in {"user", "halted"} => iflagB
    /\ pcB # "user" /\ ~iflagB => ticks = start /\ (recent <=> pending)

\* Each pulse has been counted or is pending, and there is at most one more
\* than sleep waits for, the one that has come since it last stopped.
LengthInv ==
    pcB # "user" =>
        /\ ticksToWait = Speaker!ToTicks(request.ms) /\ ticksToWait + 1 < TickRange
        /\ elapsed = Counted + Bit(pending)
        /\ pcB = "test" => elapsed <= ticksToWait + Bit(recent)
        /\ pcB = "hlt" => elapsed + 1 <= ticksToWait + Bit(recent)
        /\ pcB = "halted" => elapsed <= ticksToWait + Bit(recent) /\ (recent => pending)

SpeakerInv == SpeakerFlags /\ SpeakerNumbers /\ ToneInv /\ MaskInv /\ LengthInv

\* The whole multiples of d up to n.
LEMMA Quotient ==
    ASSUME NEW n \in Nat, NEW d \in Nat, d > 0
    PROVE  n \div d \in Nat /\ (n \div d) * d <= n /\ n < (n \div d) * d + d
<1>1. n \div d \in Nat
  OBVIOUS
<1>2. n = d * (n \div d) + (n % d) /\ n % d \in 0 .. d - 1
  OBVIOUS
<1> DEFINE q == n \div d
<1>3. q * d = d * q /\ q * d \in Nat
  BY <1>1
<1> QED BY <1>1, <1>2, <1>3

\* The two bytes the timer takes hold the divisor of every frequency in range.
LEMMA DivisorFits ==
    ASSUME NEW f \in Nat, Speaker!InRange(f)
    PROVE  /\ Speaker!Divisor(f) \in Speaker!Word
           /\ Speaker!Divisor(f) * f \in Speaker!PIT_FREQUENCY - f + 1 .. Speaker!PIT_FREQUENCY
<1> DEFINE p == Speaker!PIT_FREQUENCY
           q == p \div f
<1>1. p \in Nat /\ p < 20 * 65536
  BY SMT DEF Speaker!PIT_FREQUENCY
<1>2. f >= 20
  BY SMT DEF Speaker!InRange, Speaker!MIN_FREQUENCY
<1> HIDE DEF p
<1>3. q \in Nat /\ q * f <= p /\ p < q * f + f
  BY <1>1, <1>2, Quotient
<1> HIDE DEF q
<1>4. q * f = q * 20 + q * (f - 20) /\ q * (f - 20) \in Nat
  BY <1>2, <1>3, SMT
<1>5. q < 65536
  BY <1>1, <1>3, <1>4, SMT
<1>6. q % 65536 = q
  BY <1>3, <1>5, SMT
<1>7. Speaker!Divisor(f) = q
  BY <1>6, SMT DEF Speaker!Divisor, q, p
<1>8. q \in Speaker!Word
  BY <1>3, <1>5, SMT DEF Speaker!Word
<1>9. q * f \in p - f + 1 .. p
  <2>1. q * f \in Nat
    BY <1>3
  <2> QED BY <1>1, <1>3, <2>1, SMT
<1> QED BY <1>7, <1>8, <1>9, SMT DEF p

\* One tick more is one more since the start, as long as the range is not full.
LEMMA CountedTicks ==
    ASSUME TickRange \in Nat, NEW t \in 0 .. TickRange - 1, NEW s \in 0 .. TickRange - 1
    PROVE  /\ (t - s) % TickRange \in 0 .. TickRange - 1
           /\ (t + 1) % TickRange \in 0 .. TickRange - 1
           /\ ((t - s) % TickRange) + 1 < TickRange =>
                  (((t + 1) % TickRange) - s) % TickRange = ((t - s) % TickRange) + 1
           /\ t = s => (t - s) % TickRange = 0
<1>1. \A x \in 0 .. TickRange - 1, y \in 0 .. TickRange - 1 :
          (x - y) % TickRange = IF x >= y THEN x - y ELSE x - y + TickRange
  OBVIOUS
<1>2. (t + 1) % TickRange = IF t + 1 = TickRange THEN 0 ELSE t + 1
  OBVIOUS
<1> QED BY <1>1, <1>2

LEMMA TicksOfMs ==
    ASSUME NEW ms \in Nat
    PROVE  /\ Speaker!ToTicks(ms) \in Nat
           /\ 1000 * Speaker!ToTicks(ms) <= 18 * ms
           /\ 18 * ms < 1000 * Speaker!ToTicks(ms) + 1000
BY DEF Speaker!ToTicks

LEMMA SpeakerStarts ==
    ASSUME Speaker!Init, TickRange > 0
    PROVE  SpeakerInv
<1>1. 0 \in 0 .. TickRange - 1
  BY BeepAssumption
<1>2. 0 \in Speaker!Word
  BY SMT DEF Speaker!Word
<1>3. SpeakerNumbers
  BY <1>1, <1>2 DEF Speaker!Init, SpeakerNumbers
<1>4. SpeakerFlags
  BY DEF Speaker!Init, SpeakerFlags
<1> QED BY <1>3, <1>4 DEF Speaker!Init, SpeakerInv, ToneInv, MaskInv, LengthInv

\* What the steps have in common: the tone changes with the request only.
LEMMA ToneStays ==
    ASSUME ToneInv, UNCHANGED <<request, counter>>, gate' => gate
    PROVE  ToneInv'
BY DEF ToneInv

LEMMA SpeakerStep ==
    ASSUME SpeakerInv, Speaker!Next
    PROVE  SpeakerInv'
<1>1. /\ pcB \in {"user", "test", "hlt", "halted"}
      /\ ticks \in 0 .. TickRange - 1 /\ start \in 0 .. TickRange - 1
      /\ ticksToWait \in Nat /\ elapsed \in Nat /\ counter \in Speaker!Word
      /\ request \in [frequency : Nat, ms : Nat]
      /\ TickRange \in Nat
  BY BeepAssumption DEF SpeakerInv, SpeakerNumbers
<1>2. /\ iflagB \in BOOLEAN /\ gate \in BOOLEAN /\ data \in BOOLEAN
      /\ pending \in BOOLEAN /\ recent \in BOOLEAN
  BY DEF SpeakerInv, SpeakerFlags
<1>3. ToneInv /\ MaskInv /\ LengthInv
  BY DEF SpeakerInv
<1>4. CASE Speaker!Call
  <2>1. PICK f \in Frequencies, ms \in Durations : Speaker!BeepStart(f, ms) \/ Speaker!BeepIgnored(f, ms)
    BY <1>4 DEF Speaker!Call
  <2>2. CASE Speaker!BeepIgnored(f, ms)
    BY <2>2 DEF Speaker!BeepIgnored, Speaker!vars, Speaker!sleepVars, Speaker!speakerVars,
       SpeakerInv, SpeakerFlags, SpeakerNumbers, ToneInv, MaskInv, LengthInv, Counted, Bit
  <2>3. CASE Speaker!BeepStart(f, ms)
    <3>1. f \in Nat /\ ms \in Nat
      BY BeepAssumption
    <3>2. /\ pcB = "user" /\ Speaker!InRange(f) /\ pcB' = "test"
          /\ counter' = Speaker!Divisor(f) /\ ticksToWait' = Speaker!ToTicks(ms)
          /\ ticks' = ticks /\ start' = ticks
          /\ request' = [frequency |-> f, ms |-> ms] /\ elapsed' = 0
      BY <2>3 DEF Speaker!BeepStart
    <3>3. ~(iflagB /\ pending) /\ gate' = TRUE /\ data' = TRUE /\ iflagB' = FALSE /\ recent' = FALSE /\ pending' = pending
      BY <2>3 DEF Speaker!BeepStart, Speaker!Uninterrupted
    <3>4. pending = FALSE
      BY <1>2, <1>3, <3>2, <3>3 DEF MaskInv
    <3>5. request'.frequency = f /\ request'.ms = ms /\ request' \in [frequency : Nat, ms : Nat]
      BY <3>1, <3>2
    <3>6. SpeakerFlags'
      BY <1>2, <3>3 DEF SpeakerFlags
    <3>10. SpeakerNumbers'
      <4>1. counter' \in Speaker!Word /\ ticksToWait' \in Nat
        BY <3>1, <3>2, DivisorFits, TicksOfMs
      <4>2. /\ pcB' \in {"user", "test", "hlt", "halted"}
            /\ ticks' \in 0 .. TickRange - 1 /\ start' \in 0 .. TickRange - 1 /\ elapsed' \in Nat
        BY <1>1, <3>2
      <4> QED BY <3>5, <4>1, <4>2 DEF SpeakerNumbers
    <3>7. ToneInv'
      BY <3>2, <3>5 DEF ToneInv
    <3>8. MaskInv'
      BY <3>2, <3>3, <3>4 DEF MaskInv
    <3>9. LengthInv'
      <4>1. Counted' = 0
        BY <1>1, <3>2, CountedTicks DEF Counted
      <4>2. Speaker!ToTicks(ms) + 1 < TickRange
        BY BeepAssumption, SMT DEF Speaker!ToTicks
      <4>3. Bit(pending') = 0 /\ Bit(recent') = 0
        BY <3>3, <3>4 DEF Bit
      <4>4. ticksToWait' \in Nat
        BY <3>1, <3>2, TicksOfMs
      <4> QED BY <3>2, <3>5, <4>1, <4>2, <4>3, <4>4 DEF LengthInv
    <3> QED BY <3>6, <3>7, <3>8, <3>9, <3>10 DEF SpeakerInv
  <2> QED BY <2>1, <2>2, <2>3
<1>5. CASE Speaker!SleepMore
  <2>1. /\ pcB = "test" /\ pcB' = "hlt" /\ Counted < ticksToWait
        /\ UNCHANGED <<iflagB, start, ticksToWait, ticks, counter, gate, data, pending, recent, request, elapsed>>
    <3>1. Counted \in Nat
      BY <1>1, CountedTicks DEF Counted
    <3> QED BY <1>1, <1>5, <3>1 DEF Speaker!SleepMore, Speaker!speakerVars, Speaker!Expired, Counted
  <2>2. ~(iflagB /\ pending)
    BY <1>5 DEF Speaker!SleepMore, Speaker!Uninterrupted
  <2>3. SpeakerFlags' /\ SpeakerNumbers'
    <3>1. SpeakerFlags'
      BY <1>2, <2>1 DEF SpeakerFlags
    <3>2. SpeakerNumbers'
      BY <1>1, <2>1 DEF SpeakerNumbers
    <3> QED BY <3>1, <3>2
  <2>4. ToneInv'
    BY <1>3, <2>1, ToneStays
  <2>5. MaskInv'
    BY <1>3, <2>1 DEF MaskInv
  <2>6. LengthInv'
    <3>1. Counted' = Counted /\ Counted \in Nat
      BY <1>1, <2>1, CountedTicks DEF Counted
    <3>2. iflagB => Bit(pending) = 0
      BY <1>2, <2>2 DEF Bit
    <3>3. ~iflagB => Bit(recent) = Bit(pending)
      BY <1>2, <1>3, <2>1 DEF MaskInv, Bit
    <3>4. Bit(recent) \in {0, 1} /\ Bit(pending) \in {0, 1}
      BY DEF Bit
    <3>5. elapsed = Counted + Bit(pending)
      BY <1>3, <2>1 DEF LengthInv
    <3>6. elapsed + 1 <= ticksToWait + Bit(recent)
      BY <1>1, <2>1, <3>1, <3>2, <3>3, <3>4, <3>5
    <3> QED BY <1>3, <2>1, <3>1, <3>6 DEF LengthInv, Bit
  <2> QED BY <2>3, <2>4, <2>5, <2>6 DEF SpeakerInv
<1>6. CASE Speaker!Hlt
  <2>1. /\ pcB = "hlt" /\ pcB' = "halted" /\ iflagB' = TRUE /\ recent' = FALSE
        /\ UNCHANGED <<start, ticksToWait, ticks, counter, gate, data, pending, request, elapsed>>
    BY <1>6 DEF Speaker!Hlt, Speaker!speakerVars
  <2>2. SpeakerFlags' /\ SpeakerNumbers'
    <3>1. SpeakerFlags'
      BY <1>2, <2>1 DEF SpeakerFlags
    <3>2. SpeakerNumbers'
      BY <1>1, <2>1 DEF SpeakerNumbers
    <3> QED BY <3>1, <3>2
  <2>3. ToneInv'
    BY <1>3, <2>1, ToneStays
  <2>4. MaskInv'
    BY <1>3, <2>1 DEF MaskInv
  <2>5. LengthInv'
    <3>1. Counted' = Counted
      BY <2>1 DEF Counted
    <3>2. elapsed + 1 <= ticksToWait + Bit(recent) /\ Bit(recent) \in {0, 1}
      BY <1>3, <2>1 DEF LengthInv, Bit
    <3>3. elapsed' <= ticksToWait' + Bit(recent')
      BY <1>1, <2>1, <3>2 DEF Bit
    <3> QED BY <1>3, <2>1, <3>1, <3>3 DEF LengthInv, Bit
  <2> QED BY <2>2, <2>3, <2>4, <2>5 DEF SpeakerInv
<1>7. CASE Speaker!BeepEnd
  <2>1. /\ pcB = "test" /\ pcB' = "user" /\ iflagB' = TRUE /\ recent' = FALSE /\ gate' = FALSE
        /\ UNCHANGED <<ticks, start, ticksToWait, counter, data, pending, request, elapsed>>
    BY <1>7 DEF Speaker!BeepEnd
  <2>2. SpeakerFlags' /\ SpeakerNumbers'
    <3>1. SpeakerFlags'
      BY <1>2, <2>1 DEF SpeakerFlags
    <3>2. SpeakerNumbers'
      BY <1>1, <2>1 DEF SpeakerNumbers
    <3> QED BY <3>1, <3>2
  <2>3. ToneInv' /\ MaskInv' /\ LengthInv'
    BY <2>1 DEF ToneInv, MaskInv, LengthInv
  <2> QED BY <2>2, <2>3 DEF SpeakerInv
<1>8. CASE Speaker!Irq0
  <2>1. /\ iflagB = TRUE /\ pending = TRUE /\ pending' = FALSE
        /\ ticks' = (ticks + 1) % TickRange
        /\ pcB' = IF pcB = "halted" THEN "test" ELSE pcB
        /\ UNCHANGED <<iflagB, start, ticksToWait, counter, gate, data, recent, request, elapsed>>
    BY <1>2, <1>8 DEF Speaker!Irq0, Speaker!timer_handler, Speaker!Resume, Speaker!speakerVars
  <2>2. SpeakerFlags' /\ SpeakerNumbers'
    <3>1. SpeakerFlags'
      BY <1>2, <2>1 DEF SpeakerFlags
    <3>2. SpeakerNumbers'
      BY <1>1, <2>1, CountedTicks DEF SpeakerNumbers
    <3> QED BY <3>1, <3>2
  <2>3. ToneInv'
    BY <1>3, <2>1, ToneStays
  <2>4. MaskInv'
    BY <1>3, <2>1 DEF MaskInv
  <2>5. LengthInv'
    <3> SUFFICES ASSUME pcB # "user" PROVE LengthInv'
      BY <2>1 DEF LengthInv
    <3>1. /\ ticksToWait = Speaker!ToTicks(request.ms) /\ ticksToWait + 1 < TickRange
          /\ elapsed = Counted + Bit(pending)
          /\ pcB = "test" => elapsed <= ticksToWait + Bit(recent)
          /\ pcB = "hlt" => elapsed + 1 <= ticksToWait + Bit(recent)
          /\ pcB = "halted" => elapsed <= ticksToWait + Bit(recent) /\ (recent => pending)
      BY <1>3 DEF LengthInv
    <3>2. Bit(pending) = 1 /\ Bit(pending') = 0 /\ Bit(recent) \in {0, 1}
      BY <2>1 DEF Bit
    <3>3. Counted \in Nat /\ (Counted + 1 < TickRange => Counted' = Counted + 1)
      <4>1. Counted \in Nat
        BY <1>1, CountedTicks DEF Counted
      <4>2. Counted' = (((ticks + 1) % TickRange) - start) % TickRange
        BY <2>1 DEF Counted
      <4>3. ((ticks - start) % TickRange) + 1 < TickRange =>
               (((ticks + 1) % TickRange) - start) % TickRange = ((ticks - start) % TickRange) + 1
        BY <1>1, CountedTicks
      <4> QED BY <4>1, <4>2, <4>3 DEF Counted
    <3>4. elapsed <= ticksToWait + 1
      BY <1>1, <3>1, <3>2
    <3>5. Counted + 1 < TickRange
      BY <1>1, <3>1, <3>2, <3>3, <3>4
    <3>6. elapsed' = Counted' + Bit(pending')
      BY <2>1, <3>1, <3>2, <3>3, <3>5
    <3>7. pcB' # "halted"
      BY <2>1
    <3>8. Bit(recent') = Bit(recent)
      BY <2>1
    <3> QED BY <2>1, <3>1, <3>6, <3>7, <3>8 DEF LengthInv
  <2> QED BY <2>2, <2>3, <2>4, <2>5 DEF SpeakerInv
<1>9. CASE Speaker!Irq1
  <2>1. /\ iflagB = TRUE /\ pcB' = IF pcB = "halted" THEN "test" ELSE pcB
        /\ UNCHANGED <<iflagB, start, ticksToWait, ticks, counter, gate, data, pending, recent, request, elapsed>>
    BY <1>2, <1>9 DEF Speaker!Irq1, Speaker!Resume, Speaker!speakerVars
  <2>2. SpeakerFlags' /\ SpeakerNumbers'
    <3>1. SpeakerFlags'
      BY <1>2, <2>1 DEF SpeakerFlags
    <3>2. SpeakerNumbers'
      BY <1>1, <2>1 DEF SpeakerNumbers
    <3> QED BY <3>1, <3>2
  <2>3. ToneInv'
    BY <1>3, <2>1, ToneStays
  <2>4. MaskInv'
    BY <1>3, <2>1 DEF MaskInv
  <2>5. LengthInv'
    BY <1>3, <2>1 DEF LengthInv, Counted, Bit
  <2> QED BY <2>2, <2>3, <2>4, <2>5 DEF SpeakerInv
<1>10. CASE Speaker!Pulse
  <2>1. /\ pending = FALSE /\ pending' = TRUE /\ recent' = TRUE
        /\ pcB \in {"user", "halted"} \/ ~recent
        /\ elapsed' = IF pcB = "user" THEN elapsed ELSE elapsed + 1
        /\ UNCHANGED <<pcB, iflagB, start, ticksToWait, ticks, counter, gate, data, request>>
    BY <1>2, <1>10 DEF Speaker!Pulse, Speaker!sleepVars, Speaker!speakerVars
  <2>2. SpeakerFlags' /\ SpeakerNumbers'
    <3>1. SpeakerFlags'
      BY <1>2, <2>1 DEF SpeakerFlags
    <3>2. SpeakerNumbers'
      BY <1>1, <2>1 DEF SpeakerNumbers
    <3> QED BY <3>1, <3>2
  <2>3. ToneInv'
    BY <1>3, <2>1, ToneStays
  <2>4. MaskInv'
    BY <1>3, <2>1 DEF MaskInv
  <2>5. LengthInv'
    <3> SUFFICES ASSUME pcB # "user" PROVE LengthInv'
      BY <2>1 DEF LengthInv
    <3>1. /\ ticksToWait = Speaker!ToTicks(request.ms) /\ ticksToWait + 1 < TickRange
          /\ elapsed = Counted + Bit(pending)
          /\ pcB = "test" => elapsed <= ticksToWait + Bit(recent)
          /\ pcB = "hlt" => elapsed + 1 <= ticksToWait + Bit(recent)
          /\ pcB = "halted" => elapsed <= ticksToWait + Bit(recent) /\ (recent => pending)
      BY <1>3 DEF LengthInv
    <3>2. Bit(pending) = 0 /\ Bit(pending') = 1 /\ Bit(recent) = 0 /\ Bit(recent') = 1
      <4>1. ~recent
        BY <1>2, <2>1, <3>1
      <4> QED BY <2>1, <4>1 DEF Bit
    <3>3. Counted' = Counted /\ Counted \in Nat
      BY <1>1, <2>1, CountedTicks DEF Counted
    <3>4. elapsed' = elapsed + 1 /\ elapsed' = Counted' + Bit(pending')
      BY <1>1, <2>1, <3>1, <3>2, <3>3
    <3>5. /\ pcB = "test" => elapsed' <= ticksToWait + 1
          /\ pcB = "hlt" => elapsed' + 1 <= ticksToWait + 1
          /\ pcB = "halted" => elapsed' <= ticksToWait + 1
      BY <1>1, <3>1, <3>2, <3>4
    <3>6. ticksToWait' = Speaker!ToTicks(request'.ms) /\ ticksToWait' + 1 < TickRange
      BY <2>1, <3>1 DEF Speaker!ToTicks
    <3> QED BY <2>1, <3>2, <3>4, <3>5, <3>6 DEF LengthInv
  <2> QED BY <2>2, <2>3, <2>4, <2>5 DEF SpeakerInv
<1> QED BY <1>4, <1>5, <1>6, <1>7, <1>8, <1>9, <1>10 DEF Speaker!Next, Speaker!SleepStep

LEMMA SpeakerStays ==
    ASSUME SpeakerInv, UNCHANGED speakerVars
    PROVE  SpeakerInv'
BY DEF speakerVars, SpeakerInv, SpeakerFlags, SpeakerNumbers, ToneInv, MaskInv, LengthInv, Counted

-----------------------------------------------------------------------------
(* The clock: the fields of a time of day *)

HourLength == Minutes * Seconds

SecOf(t) == t % Seconds
MinOf(t) == (t \div Seconds) % Minutes
HourOf(t) == t \div (Seconds * Minutes)

TimeOf(h, m, s) == (h * Minutes + m) * Seconds + s

LEMMA Lengths ==
    /\ Seconds \in Nat /\ Seconds > 0 /\ Minutes \in Nat /\ Minutes > 0
    /\ HourLength \in Nat /\ Seconds <= HourLength
    /\ HourLength = Seconds * Minutes
    /\ Rtc!Day = 24 * HourLength /\ Rtc!Day \in Nat
<1>1. Seconds \in Nat /\ Seconds > 0 /\ Minutes \in Nat /\ Minutes > 0
  BY ClockAssumption
<1>2. HourLength \in Nat /\ HourLength = Seconds * Minutes
  BY <1>1 DEF HourLength
<1>3. HourLength = Seconds + (Minutes - 1) * Seconds /\ (Minutes - 1) * Seconds \in Nat
  BY <1>1 DEF HourLength
<1>4. Rtc!Day = 24 * HourLength
  BY <1>1 DEF Rtc!Day, Rtc!Hours, HourLength
<1> QED BY <1>1, <1>2, <1>3, <1>4

\* A quotient and a remainder are determined.
LEMMA DivisionUnique ==
    ASSUME NEW d \in Nat, NEW q \in Int, NEW r \in 0 .. d - 1
    PROVE  (q * d + r) \div d = q /\ (q * d + r) % d = r
<1> DEFINE n == q * d + r
           k1 == n \div d
           r1 == n % d
<1>1. n \in Int /\ d > 0
  OBVIOUS
<1>2. k1 \in Int /\ r1 \in 0 .. d - 1 /\ n = d * k1 + r1
  BY <1>1
<1>3. (k1 - q) * d = r - r1
  <2> HIDE DEF k1, r1
  <2> QED BY <1>2
<1>4. k1 = q
  <2> HIDE DEF k1, r1, n
  <2>1. CASE k1 - q >= 1
    <3>1. (k1 - q) * d = d + (k1 - q - 1) * d /\ (k1 - q - 1) * d >= 0
      BY <1>2, <2>1
    <3> QED BY <1>2, <1>3, <3>1
  <2>2. CASE k1 - q <= -1
    <3>1. (q - k1) * d = d + (q - k1 - 1) * d /\ (q - k1 - 1) * d >= 0
      BY <1>2, <2>2
    <3>2. (q - k1) * d = r1 - r
      BY <1>2, <1>3
    <3> QED BY <1>2, <3>1, <3>2
  <2> QED BY <1>2, <2>1, <2>2
<1> QED BY <1>1, <1>2, <1>4

\* A time in its fields, and the fields of a time.
LEMMA FieldsOfTime ==
    ASSUME NEW h \in 0 .. 23, NEW m \in 0 .. Minutes - 1, NEW s \in 0 .. Seconds - 1
    PROVE  /\ TimeOf(h, m, s) = h * HourLength + m * Seconds + s
           /\ m * Seconds \in Nat /\ m * Seconds + s < HourLength
           /\ TimeOf(h, m, s) \in 0 .. Rtc!Day - 1
           /\ SecOf(TimeOf(h, m, s)) = s /\ MinOf(TimeOf(h, m, s)) = m /\ HourOf(TimeOf(h, m, s)) = h
<1> DEFINE t == TimeOf(h, m, s)
           p == HourLength
<1>1. h \in Nat /\ m \in Nat /\ s \in Nat /\ m < Minutes /\ s < Seconds
  BY Lengths
<1>2. h * Minutes \in Nat /\ m * Seconds \in Nat /\ h * p \in Nat
  BY <1>1, Lengths
<1>3. (h * Minutes) * Seconds = h * p
  BY <1>1, Lengths DEF HourLength
<1>4. (h * Minutes + m) * Seconds = (h * Minutes) * Seconds + m * Seconds
  BY <1>1, <1>2, Lengths
<1>5. t = h * p + m * Seconds + s
  BY <1>1, <1>2, <1>3, <1>4 DEF TimeOf
<1>6. m * Seconds + s < p
  <2>1. p = m * Seconds + Seconds + (Minutes - 1 - m) * Seconds
    BY <1>1, Lengths DEF HourLength
  <2>2. (Minutes - 1 - m) * Seconds >= 0
    BY <1>1, Lengths
  <2> QED BY <1>1, <1>2, <2>1, <2>2, Lengths
<1>7. t \in 0 .. Rtc!Day - 1
  <2>1. h * p + (23 - h) * p = 23 * p /\ (23 - h) * p >= 0
    BY <1>1, Lengths
  <2> QED BY <1>1, <1>2, <1>5, <1>6, <2>1, Lengths
<1>8. t \div Seconds = h * Minutes + m /\ t % Seconds = s
  <2>1. h * Minutes + m \in Int /\ s \in 0 .. Seconds - 1
    BY <1>1, <1>2
  <2> QED BY <2>1, DivisionUnique, Lengths DEF TimeOf
<1>9. (h * Minutes + m) % Minutes = m
  BY <1>1, DivisionUnique, Lengths
<1>10. t \div p = h
  <2>1. m * Seconds + s \in 0 .. p - 1 /\ h \in Int
    BY <1>1, <1>2, <1>6, Lengths
  <2>2. t = h * p + (m * Seconds + s)
    BY <1>1, <1>2, <1>5
  <2> HIDE DEF t, p
  <2> QED BY <2>1, <2>2, DivisionUnique, Lengths DEF p
<1> QED BY <1>2, <1>5, <1>6, <1>7, <1>8, <1>9, <1>10, Lengths DEF SecOf, MinOf, HourOf

LEMMA TimeHasFields ==
    ASSUME NEW t \in 0 .. Rtc!Day - 1
    PROVE  /\ SecOf(t) \in 0 .. Seconds - 1 /\ MinOf(t) \in 0 .. Minutes - 1 /\ HourOf(t) \in 0 .. 23
           /\ t = TimeOf(HourOf(t), MinOf(t), SecOf(t))
<1> DEFINE s == t % Seconds
           q == t \div Seconds
           m == q % Minutes
           h == q \div Minutes
<1>1. t \in Nat /\ t < Rtc!Day
  BY Lengths
<1>2. s \in 0 .. Seconds - 1 /\ q \in Nat /\ t = Seconds * q + s
  BY <1>1, Lengths
<1>3. m \in 0 .. Minutes - 1 /\ h \in Nat /\ q = Minutes * h + m
  <2> HIDE DEF q
  <2> QED BY <1>2, Lengths
<1>4. SecOf(t) = s /\ MinOf(t) = m
  BY DEF SecOf, MinOf
<1> HIDE DEF s, q, m, h
<1>5. q = h * Minutes + m /\ t = q * Seconds + s
  BY <1>2, <1>3, Lengths
<1>6. t = TimeOf(h, m, s)
  BY <1>5 DEF TimeOf
<1>7. h \in 0 .. 23
  <2>1. (h * Minutes) * Seconds = h * HourLength /\ h * Minutes \in Nat
    BY <1>3, Lengths DEF HourLength
  <2>2. (h * Minutes + m) * Seconds = (h * Minutes) * Seconds + m * Seconds /\ m * Seconds >= 0
    BY <1>3, <2>1, Lengths
  <2>3. h * HourLength <= t
    BY <1>2, <1>3, <1>5, <2>1, <2>2, Lengths
  <2>4. h >= 24 => h * HourLength = 24 * HourLength + (h - 24) * HourLength /\ (h - 24) * HourLength >= 0
    BY <1>3, Lengths
  <2> QED BY <1>1, <1>3, <2>1, <2>3, <2>4, Lengths
<1>8. HourOf(t) = h
  BY <1>2, <1>3, <1>6, <1>7, FieldsOfTime
<1> QED BY <1>2, <1>3, <1>4, <1>6, <1>7, <1>8

\* The time between two times of day, going forwards.
LEMMA Difference ==
    ASSUME NEW t \in 0 .. Rtc!Day - 1, NEW u \in 0 .. Rtc!Day - 1
    PROVE  (u - t) % Rtc!Day = IF u >= t THEN u - t ELSE u - t + Rtc!Day
<1> DEFINE d == Rtc!Day
<1>1. d \in Nat
  BY Lengths
<1> HIDE DEF d
<1>2. \A i \in 0 .. d - 1 : i % d = i
  BY <1>1
<1>3. \A i \in Int : -d < i /\ i < 0 => i % d = i + d
  BY <1>1
<1>4. CASE u >= t
  BY <1>1, <1>2, <1>4 DEF d
<1>5. CASE ~(u >= t)
  BY <1>1, <1>3, <1>5 DEF d
<1> QED BY <1>4, <1>5

\* Multiples of n, one after the other.
LEMMA Multiples ==
    \A n \in Nat, a \in Nat, b \in Nat :
        /\ a * n \in Nat /\ (a + 1) * n = a * n + n
        /\ a < b => a * n + n <= b * n
<1> TAKE n \in Nat, a \in Nat, b \in Nat
<1>1. a * n \in Nat /\ (a + 1) * n = a * n + n
  OBVIOUS
<1>2. CASE a < b
  <2>1. b * n = a * n + n + (b - 1 - a) * n
    OBVIOUS
  <2>2. (b - 1 - a) * n \in Nat
    BY <1>2
  <2> QED BY <1>1, <2>1, <2>2
<1> QED BY <1>1, <1>2

\* The fields of a later time, when its distance from a time is known.
LEMMA LaterTime ==
    ASSUME NEW h \in 0 .. 23, NEW m \in 0 .. Minutes - 1, NEW s \in 0 .. Seconds - 1,
           NEW t \in 0 .. Rtc!Day - 1, NEW hh \in Nat, NEW mm \in Nat,
           hh = h * HourLength, mm = m * Seconds, t = hh + mm + s
    PROVE  SecOf(t) = s /\ MinOf(t) = m /\ HourOf(t) = h
<1>1. TimeOf(h, m, s) = t
  <2>1. TimeOf(h, m, s) = h * HourLength + m * Seconds + s
    BY FieldsOfTime
  <2> QED BY <2>1
<1> QED BY <1>1, FieldsOfTime

\* A second later: the second, the minute or the hour is the next, and the
\* fields below it begin again.
Successor(t, u) ==
    \/ SecOf(u) = SecOf(t) + 1 /\ MinOf(u) = MinOf(t) /\ HourOf(u) = HourOf(t)
    \/ /\ SecOf(t) = Seconds - 1 /\ SecOf(u) = 0
       /\ MinOf(u) = MinOf(t) + 1 /\ HourOf(u) = HourOf(t)
    \/ /\ SecOf(t) = Seconds - 1 /\ SecOf(u) = 0
       /\ MinOf(t) = Minutes - 1 /\ MinOf(u) = 0
       /\ HourOf(u) = IF HourOf(t) = 23 THEN 0 ELSE HourOf(t) + 1

LEMMA NextTime ==
    ASSUME NEW t \in 0 .. Rtc!Day - 1
    PROVE  /\ (t + 1) % Rtc!Day = IF t + 1 = Rtc!Day THEN 0 ELSE t + 1
           /\ (t + 1) % Rtc!Day \in 0 .. Rtc!Day - 1
           /\ Successor(t, (t + 1) % Rtc!Day)
<1> DEFINE s == SecOf(t)
           m == MinOf(t)
           h == HourOf(t)
           u == (t + 1) % Rtc!Day
           d == Rtc!Day
           hh == h * HourLength
           mm == m * Seconds
<1>1. s \in 0 .. Seconds - 1 /\ m \in 0 .. Minutes - 1 /\ h \in 0 .. 23 /\ t = TimeOf(h, m, s)
  BY TimeHasFields
<1>2. u = IF t + 1 = d THEN 0 ELSE t + 1
  <2>1. d \in Nat
    BY Lengths
  <2> HIDE DEF d
  <2>2. \A i \in 0 .. d - 1 : i % d = i
    BY <2>1
  <2>3. d > 0 => d % d = 0
    BY <2>1
  <2> QED BY <2>1, <2>2, <2>3 DEF d
<1>3. d \in Nat /\ d > 0 /\ t < d /\ t \in Nat
  BY Lengths
<1> HIDE DEF s, m, h, u, d, hh, mm
<1>4. u \in 0 .. d - 1
  BY <1>2, <1>3
<1>5. t = hh + mm + s
  <2>1. TimeOf(h, m, s) = h * HourLength + m * Seconds + s
    BY <1>1, FieldsOfTime
  <2> QED BY <1>1, <2>1 DEF hh, mm
<1>6. hh \in Nat /\ mm \in Nat
  <2>1. h \in Nat /\ m \in Nat /\ Seconds \in Nat /\ HourLength \in Nat
    BY <1>1, Lengths
  <2> QED BY <2>1 DEF hh, mm
<1>7. Seconds \in Nat /\ Minutes \in Nat /\ HourLength \in Nat /\ Seconds > 0 /\ Minutes > 0
      /\ Seconds <= HourLength /\ d = 24 * HourLength
  BY Lengths DEF d
<1>8. ASSUME s + 1 < Seconds PROVE Successor(t, u)
  <2>1. mm + Seconds <= HourLength
    BY <1>1, <1>7, Multiples DEF mm, HourLength
  <2>2. hh + HourLength <= d
    BY <1>1, <1>7, Multiples DEF hh
  <2>3. u = t + 1 /\ s + 1 \in 0 .. Seconds - 1
    BY <1>1, <1>2, <1>3, <1>5, <1>6, <1>7, <1>8, <2>1, <2>2
  <2>4. u = hh + mm + (s + 1)
    BY <1>1, <1>5, <1>6, <2>3
  <2>5. SecOf(u) = s + 1 /\ MinOf(u) = m /\ HourOf(u) = h
    BY <1>1, <1>4, <1>6, <2>3, <2>4, LaterTime DEF hh, mm, d
  <2> QED BY <2>5 DEF Successor, s, m, h
<1>9. ASSUME s = Seconds - 1 /\ m + 1 < Minutes PROVE Successor(t, u)
  <2> DEFINE m2 == (m + 1) * Seconds
  <2>1. m2 = mm + Seconds /\ m2 \in Nat
    BY <1>1, <1>6, <1>7 DEF mm
  <2>2. m2 + Seconds <= HourLength
    <3>1. m + 1 \in Nat /\ Minutes \in Nat /\ m + 1 < Minutes /\ Seconds \in Nat
      BY <1>1, <1>7, <1>9
    <3>2. (m + 1) * Seconds + Seconds <= Minutes * Seconds
      BY <3>1, Multiples
    <3> QED BY <3>2 DEF m2, HourLength
  <2>3. hh + HourLength <= d
    BY <1>1, <1>7, Multiples DEF hh
  <2> HIDE DEF m2
  <2>4. u = t + 1 /\ t + 1 = hh + m2
    <3>1. t + 1 = hh + m2
      BY <1>5, <1>6, <1>7, <1>9, <2>1
    <3>2. t + 1 < d
      BY <1>3, <1>6, <1>7, <2>1, <2>2, <2>3, <3>1
    <3> QED BY <1>2, <1>3, <3>1, <3>2
  <2>5. u = hh + m2 + 0 /\ m + 1 \in 0 .. Minutes - 1 /\ 0 \in 0 .. Seconds - 1
    BY <1>1, <1>6, <1>7, <1>9, <2>1, <2>4
  <2>6. SecOf(u) = 0 /\ MinOf(u) = m + 1 /\ HourOf(u) = h
    BY <1>1, <1>4, <1>6, <2>1, <2>5, LaterTime DEF hh, m2, d
  <2> QED BY <1>9, <2>6 DEF Successor, s, m, h
<1>10. ASSUME s = Seconds - 1 /\ m = Minutes - 1 PROVE Successor(t, u)
  <2>1. mm + Seconds = HourLength
    BY <1>7, <1>10 DEF mm, HourLength
  <2>2. t + 1 = hh + HourLength
    BY <1>1, <1>5, <1>6, <1>7, <1>10, <2>1
  <2>3. 0 \in 0 .. Seconds - 1 /\ 0 \in 0 .. Minutes - 1 /\ 0 = 0 * Seconds /\ 0 = 0 * HourLength
    BY <1>7
  <2>4. ASSUME h = 23 PROVE Successor(t, u)
    <3>1. hh + HourLength = d
      BY <1>7, <2>4 DEF hh
    <3>2. u = 0
      BY <1>2, <2>2, <3>1
    <3>3. 0 \in 0 .. 23 /\ u = 0 + 0 + 0 /\ 0 \in Nat
      BY <3>2
    <3>4. SecOf(u) = 0 /\ MinOf(u) = 0 /\ HourOf(u) = 0
      BY <1>4, <2>3, <3>3, LaterTime DEF d
    <3> QED BY <1>10, <2>4, <3>4 DEF Successor, s, m, h
  <2>5. ASSUME h # 23 PROVE Successor(t, u)
    <3> DEFINE h2 == (h + 1) * HourLength
    <3>1. h2 = hh + HourLength /\ h2 \in Nat /\ h + 1 \in 0 .. 23
      BY <1>1, <1>6, <1>7, <2>5 DEF hh
    <3>2. h2 < d
      <4>1. h + 1 \in Nat /\ 24 \in Nat /\ h + 1 < 24 /\ HourLength \in Nat
        BY <3>1, <1>7
      <4>2. (h + 1) * HourLength + HourLength <= 24 * HourLength
        BY <4>1, Multiples
      <4> QED BY <1>7, <3>1, <4>2 DEF h2
    <3> HIDE DEF h2
    <3>3. u = h2 + 0 + 0
      BY <1>2, <1>3, <2>2, <3>1, <3>2
    <3>4. 0 \in Nat
      OBVIOUS
    <3>5. SecOf(u) = 0 /\ MinOf(u) = 0 /\ HourOf(u) = h + 1
      BY <1>4, <2>3, <3>1, <3>3, <3>4, LaterTime DEF h2, d
    <3> QED BY <1>10, <2>5, <3>5 DEF Successor, s, m, h
  <2> QED BY <2>4, <2>5
<1>11. Successor(t, u)
  <2>1. s + 1 < Seconds \/ s = Seconds - 1
    BY <1>1, <1>7
  <2>2. m + 1 < Minutes \/ m = Minutes - 1
    BY <1>1, <1>7
  <2> QED BY <1>8, <1>9, <1>10, <2>1, <2>2
<1> QED BY <1>2, <1>4, <1>11 DEF u, d

\* Two decimal digits come back from BCD as they went in.
LEMMA BcdRoundTrip ==
    ASSUME NEW n \in 0 .. 59
    PROVE  Rtc!bcd2char(Rtc!ToBcd(n)) = n
<1>1. n \div 10 \in 0 .. 5 /\ n % 10 \in 0 .. 9 /\ n = 10 * (n \div 10) + (n % 10)
  OBVIOUS
<1>2. \A a \in 0 .. 5, b \in 0 .. 9 : (a * 16 + b) \div 16 = a /\ (a * 16 + b) % 16 = b
  OBVIOUS
<1> QED BY <1>1, <1>2 DEF Rtc!bcd2char, Rtc!ToBcd

\* A time at most an hour ahead of another, perhaps past midnight.
LEMMA Ahead ==
    ASSUME NEW t \in 0 .. Rtc!Day - 1, NEW v \in 0 .. Rtc!Day - 1, NEW d \in 0 .. HourLength,
           v = t + d \/ v = t + d - Rtc!Day
    PROVE  (v - t) % Rtc!Day <= HourLength
<1>1. d < Rtc!Day /\ Rtc!Day \in Nat /\ HourLength \in Nat
  BY Lengths
<1>2. (v - t) % Rtc!Day = IF v >= t THEN v - t ELSE v - t + Rtc!Day
  BY Difference
<1> QED BY <1>1, <1>2

\* What getTime can put together from the fields of a time and of the next one:
\* the hour is read last, and no minute before its second.
LEMMA ReadAhead ==
    ASSUME NEW t \in 0 .. Rtc!Day - 1, NEW u \in 0 .. Rtc!Day - 1, u = (t + 1) % Rtc!Day,
           NEW m, NEW s,
           \/ s = SecOf(t) /\ m = MinOf(t)
           \/ m = MinOf(u) /\ s \in {SecOf(t), SecOf(u)}
    PROVE  /\ TimeOf(HourOf(u), m, s) \in 0 .. Rtc!Day - 1
           /\ (TimeOf(HourOf(u), m, s) - t) % Rtc!Day <= HourLength
<1> DEFINE v == TimeOf(HourOf(u), m, s)
           ht == HourOf(t) * HourLength
           mt == MinOf(t) * Seconds
           hu == HourOf(u) * HourLength
           mu == MinOf(u) * Seconds
           d == Rtc!Day
<1>1. /\ SecOf(t) \in 0 .. Seconds - 1 /\ MinOf(t) \in 0 .. Minutes - 1 /\ HourOf(t) \in 0 .. 23
      /\ SecOf(u) \in 0 .. Seconds - 1 /\ MinOf(u) \in 0 .. Minutes - 1 /\ HourOf(u) \in 0 .. 23
      /\ t = TimeOf(HourOf(t), MinOf(t), SecOf(t)) /\ u = TimeOf(HourOf(u), MinOf(u), SecOf(u))
  BY TimeHasFields
<1>2. s \in 0 .. Seconds - 1 /\ m \in 0 .. Minutes - 1
  BY <1>1
<1>3. v \in 0 .. d - 1 /\ v = hu + m * Seconds + s
  BY <1>1, <1>2, FieldsOfTime
<1>4. t = ht + mt + SecOf(t)
  BY <1>1, FieldsOfTime
<1>5. /\ Seconds \in Nat /\ Minutes \in Nat /\ HourLength \in Nat /\ Seconds > 0 /\ Minutes > 0
      /\ Seconds <= HourLength /\ d = 24 * HourLength /\ d \in Nat
  BY Lengths
<1>6. ht \in Nat /\ mt \in Nat /\ hu \in Nat /\ mu \in Nat
  BY <1>1, <1>5, Multiples
<1>7. Successor(t, u) /\ u = IF t + 1 = d THEN 0 ELSE t + 1
  BY NextTime
<1>8. HourOf(u) = HourOf(t) => hu = ht
  OBVIOUS
<1>9. HourOf(u) = HourOf(t) + 1 => hu = ht + HourLength
  BY <1>1, <1>5, Multiples
<1>10. HourOf(t) = 23 /\ HourOf(u) = 0 => hu = ht + HourLength - d
  BY <1>5
<1>11. MinOf(u) = MinOf(t) => mu = mt
  OBVIOUS
<1>12. MinOf(u) = MinOf(t) + 1 => mu = mt + Seconds
  BY <1>1, <1>5, Multiples
<1>13. MinOf(t) = Minutes - 1 /\ MinOf(u) = 0 => mu = mt + Seconds - HourLength
  BY <1>5 DEF HourLength
<1>14. m = MinOf(t) => v = hu + mt + s
  BY <1>3
<1>15. m = MinOf(u) => v = hu + mu + s
  BY <1>3
<1> HIDE DEF v, ht, mt, hu, mu, d
<1>16. CASE s = SecOf(t) /\ m = MinOf(t)
  <2>1. hu = ht \/ hu = ht + HourLength \/ hu = ht + HourLength - d
    BY <1>1, <1>7, <1>8, <1>9, <1>10 DEF Successor
  <2>2. v = t + 0 \/ v = t + HourLength \/ v = t + HourLength - d
    BY <1>1, <1>4, <1>5, <1>6, <1>14, <1>16, <2>1
  <2>3. 0 \in 0 .. HourLength /\ HourLength \in 0 .. HourLength
    BY <1>5
  <2> QED BY <1>3, <2>2, <2>3, Ahead DEF v, d
<1>17. CASE m = MinOf(u) /\ s = SecOf(u)
  <2>1. v = u
    BY <1>1, <1>17 DEF v
  <2>2. v = t + 1 \/ v = t + 1 - d
    BY <1>1, <1>5, <1>7, <2>1
  <2>3. 1 \in 0 .. HourLength
    BY <1>5
  <2> QED BY <1>3, <2>2, <2>3, Ahead DEF v, d
<1>18. CASE m = MinOf(u) /\ s = SecOf(t)
  <2>1. hu + mu \in {ht + mt, ht + mt + Seconds, ht + mt + Seconds - d}
    <3>1. CASE HourOf(u) = HourOf(t) /\ MinOf(u) = MinOf(t)
      BY <3>1, <1>8, <1>11
    <3>2. CASE HourOf(u) = HourOf(t) /\ MinOf(u) = MinOf(t) + 1
      BY <3>2, <1>5, <1>6, <1>8, <1>12
    <3>3. CASE MinOf(t) = Minutes - 1 /\ MinOf(u) = 0 /\ HourOf(u) = HourOf(t) + 1
      BY <3>3, <1>5, <1>6, <1>9, <1>13
    <3>4. CASE MinOf(t) = Minutes - 1 /\ MinOf(u) = 0 /\ HourOf(t) = 23 /\ HourOf(u) = 0
      BY <3>4, <1>5, <1>6, <1>10, <1>13
    <3> QED BY <1>7, <3>1, <3>2, <3>3, <3>4 DEF Successor
  <2>2. v = t + 0 \/ v = t + Seconds \/ v = t + Seconds - d
    BY <1>1, <1>4, <1>5, <1>6, <1>15, <1>18, <2>1
  <2>3. 0 \in 0 .. HourLength /\ Seconds \in 0 .. HourLength
    BY <1>5
  <2> QED BY <1>3, <2>2, <2>3, Ahead DEF v, d
<1> QED BY <1>16, <1>17, <1>18


-----------------------------------------------------------------------------
(* The clock: the inductive invariant *)

\* During a call the clock is where it was or a second on; the second and the
\* minute getTime holds are those of the call, or the clock's since it advanced,
\* and the minute is not older than the second.
ReadsInv ==
    /\ pcT # "user" => now = IF updated THEN (called + 1) % Rtc!Day ELSE called
    /\ pcT = "min" => sec = SecOf(called) \/ (updated /\ sec = SecOf(now))
    /\ pcT = "hour" =>
          \/ sec = SecOf(called) /\ min = MinOf(called)
          \/ updated /\ min = MinOf(now) /\ sec \in {SecOf(called), SecOf(now)}

ClockInv == Rtc!TypeOK /\ ReadsInv

LEMMA ClockStarts == Rtc!Init => ClockInv
<1> SUFFICES ASSUME Rtc!Init PROVE ClockInv
  OBVIOUS
<1>1. 0 \in 0 .. Seconds - 1 /\ 0 \in 0 .. Minutes - 1 /\ 0 \in 0 .. Rtc!Day - 1 /\ 0 \in 0 .. Rtc!Hours - 1
  BY Lengths DEF Rtc!Hours
<1>2. Rtc!TypeOK
  BY <1>1 DEF Rtc!Init, Rtc!TypeOK
<1> QED BY <1>2 DEF Rtc!Init, ClockInv, ReadsInv

\* The registers give the fields of the clock.
LEMMA RegistersGiveFields ==
    ASSUME now \in 0 .. Rtc!Day - 1
    PROVE  /\ Rtc!bcd2char(Rtc!RtcSec) = SecOf(now)
           /\ Rtc!bcd2char(Rtc!RtcMin) = MinOf(now)
           /\ Rtc!bcd2char(Rtc!RtcHour) = HourOf(now)
<1>1. SecOf(now) \in 0 .. 59 /\ MinOf(now) \in 0 .. 59 /\ HourOf(now) \in 0 .. 59
  <2>1. SecOf(now) \in 0 .. Seconds - 1 /\ MinOf(now) \in 0 .. Minutes - 1 /\ HourOf(now) \in 0 .. 23
    BY TimeHasFields
  <2>2. Seconds \in 1 .. 60 /\ Minutes \in 1 .. 60
    BY ClockAssumption
  <2> QED BY <2>1, <2>2
<1>2. /\ Rtc!RtcSec = Rtc!ToBcd(SecOf(now)) /\ Rtc!RtcMin = Rtc!ToBcd(MinOf(now))
      /\ Rtc!RtcHour = Rtc!ToBcd(HourOf(now))
  BY DEF Rtc!RtcSec, Rtc!RtcMin, Rtc!RtcHour, SecOf, MinOf, HourOf
<1> QED BY <1>1, <1>2, BcdRoundTrip

\* The zone is three hours, forwards and back.
LEMMA ZoneIsUndone ==
    ASSUME NEW h \in 0 .. 23
    PROVE  Rtc!ZoneHour(h) \in 0 .. 23 /\ (Rtc!ZoneHour(h) + 3) % 24 = h
BY DEF Rtc!ZoneHour, Rtc!Zone, Rtc!Hours

LEMMA ClockStep ==
    ASSUME ClockInv, Rtc!Next
    PROVE  ClockInv'
<1>1. /\ now \in 0 .. Rtc!Day - 1 /\ called \in 0 .. Rtc!Day - 1
      /\ sec \in 0 .. Seconds - 1 /\ min \in 0 .. Minutes - 1 /\ hour \in 0 .. Rtc!Hours - 1
      /\ updated \in BOOLEAN
  BY DEF ClockInv, Rtc!TypeOK
<1>2. CASE Rtc!Call
  BY <1>1, <1>2 DEF Rtc!Call, ClockInv, ReadsInv, Rtc!TypeOK
<1>3. CASE Rtc!ReadSec
  <2>1. sec' = SecOf(now) /\ SecOf(now) \in 0 .. Seconds - 1
    BY <1>1, <1>3, RegistersGiveFields, TimeHasFields DEF Rtc!ReadSec
  <2>2. ~updated => now = called
    BY <1>3 DEF Rtc!ReadSec, ClockInv, ReadsInv
  <2> QED BY <1>1, <1>3, <2>1, <2>2 DEF Rtc!ReadSec, ClockInv, ReadsInv, Rtc!TypeOK
<1>4. CASE Rtc!ReadMin
  <2>1. min' = MinOf(now) /\ MinOf(now) \in 0 .. Minutes - 1
    BY <1>1, <1>4, RegistersGiveFields, TimeHasFields DEF Rtc!ReadMin
  <2>2. ~updated => now = called
    BY <1>4 DEF Rtc!ReadMin, ClockInv, ReadsInv
  <2> QED BY <1>1, <1>4, <2>1, <2>2 DEF Rtc!ReadMin, ClockInv, ReadsInv, Rtc!TypeOK
<1>5. CASE Rtc!ReadHour
  <2>1. hour' \in 0 .. Rtc!Hours - 1
    BY <1>1, <1>5, RegistersGiveFields, TimeHasFields, ZoneIsUndone DEF Rtc!ReadHour, Rtc!Hours
  <2> QED BY <1>1, <1>5, <2>1 DEF Rtc!ReadHour, ClockInv, ReadsInv, Rtc!TypeOK
<1>6. CASE Rtc!Update
  <2>1. now' = (called + 1) % Rtc!Day /\ now' \in 0 .. Rtc!Day - 1
    BY <1>1, <1>6, NextTime DEF Rtc!Update, ClockInv, ReadsInv
  <2>2. sec' = sec /\ min' = min /\ hour' = hour /\ called' = called /\ pcT' = pcT /\ updated' = TRUE
        /\ ~updated
    BY <1>6 DEF Rtc!Update
  <2>3. Rtc!TypeOK'
    BY <1>1, <2>1, <2>2 DEF ClockInv, Rtc!TypeOK
  <2>4. ReadsInv'
    BY <2>1, <2>2 DEF ClockInv, ReadsInv
  <2> QED BY <2>3, <2>4 DEF ClockInv
<1> QED BY <1>2, <1>3, <1>4, <1>5, <1>6 DEF Rtc!Next

LEMMA ClockStays ==
    ASSUME ClockInv, UNCHANGED clockVars
    PROVE  ClockInv'
BY DEF clockVars, ClockInv, ReadsInv, Rtc!TypeOK

\* The time shown, put together from the hour read last.
LEMMA ShownIs ==
    ASSUME ClockInv, Rtc!ReadHour
    PROVE  /\ Rtc!Shown = TimeOf(HourOf(now), min, sec)
           /\ Rtc!Shown \in 0 .. Rtc!Day - 1
           /\ (Rtc!Shown - called) % Rtc!Day <= HourLength
           /\ ~updated => Rtc!Shown = called
<1>1. now \in 0 .. Rtc!Day - 1 /\ called \in 0 .. Rtc!Day - 1
  BY DEF ClockInv, Rtc!TypeOK
<1>2. pcT = "hour" /\ sec' = sec /\ min' = min
  BY DEF Rtc!ReadHour
<1>3. (hour' + 3) % 24 = HourOf(now)
  BY <1>1, RegistersGiveFields, TimeHasFields, ZoneIsUndone DEF Rtc!ReadHour
<1> DEFINE v == TimeOf(HourOf(now), min, sec)
<1>4. Rtc!Shown = v % Rtc!Day
  BY <1>2, <1>3 DEF Rtc!Shown, TimeOf, Rtc!Zone, Rtc!Hours
<1>5. Rtc!Day \in Nat /\ HourLength \in Nat
  BY Lengths
<1>6. v \in 0 .. Rtc!Day - 1 => v % Rtc!Day = v
  BY <1>5
<1> HIDE DEF v
<1>7. CASE updated
  <2>1. now = (called + 1) % Rtc!Day
    BY <1>2, <1>7 DEF ClockInv, ReadsInv
  <2>2. \/ sec = SecOf(called) /\ min = MinOf(called)
        \/ min = MinOf(now) /\ sec \in {SecOf(called), SecOf(now)}
    BY <1>2 DEF ClockInv, ReadsInv
  <2>3. v \in 0 .. Rtc!Day - 1 /\ (v - called) % Rtc!Day <= HourLength
    BY <1>1, <2>1, <2>2, ReadAhead DEF v
  <2> QED BY <1>4, <1>6, <1>7, <2>3 DEF v
<1>8. CASE ~updated
  <2>1. now = called /\ sec = SecOf(called) /\ min = MinOf(called)
    BY <1>2, <1>8 DEF ClockInv, ReadsInv
  <2>2. v = called
    BY <1>1, <2>1, TimeHasFields DEF v
  <2>3. (called - called) % Rtc!Day <= HourLength
    <3>1. called - called = 0 /\ 0 \in 0 .. Rtc!Day - 1
      BY <1>1, <1>5
    <3>2. \A i \in 0 .. Rtc!Day - 1 : i % Rtc!Day = i
      BY <1>5
    <3> QED BY <1>5, <3>1, <3>2
  <2> QED BY <1>1, <1>4, <1>6, <2>2, <2>3 DEF v
<1> QED BY <1>7, <1>8

-----------------------------------------------------------------------------
(* The kernel's parts together *)

KernelInv == IInv /\ ContextInv /\ SpeakerInv /\ ClockInv

LEMMA KernelStarts == KernelInit => KernelInv
<1> SUFFICES ASSUME KernelInit PROVE KernelInv
  OBVIOUS
<1>1. IInv /\ ContextInv
  BY DumpInit, ContextInit DEF KernelInit
<1>2. SpeakerInv
  BY SpeakerStarts, BeepAssumption DEF KernelInit
<1>3. ClockInv
  BY ClockStarts DEF KernelInit
<1> QED BY <1>1, <1>2, <1>3 DEF KernelInv

LEMMA KernelSteps == KernelInv /\ [KernelNext]_allVars => KernelInv'
<1> SUFFICES ASSUME KernelInv, [KernelNext]_allVars PROVE KernelInv'
  OBVIOUS
<1>1. [Next]_vars
  BY DEF KernelNext, allVars
<1>2. Ctx!Next \/ UNCHANGED contextVars
  BY DEF KernelNext, allVars
<1>3. Speaker!Next \/ UNCHANGED speakerVars
  BY DEF KernelNext, allVars
<1>4. Rtc!Next \/ UNCHANGED clockVars
  BY DEF KernelNext, allVars
<1>5. IInv' /\ ContextInv'
  BY <1>1, <1>2, DumpStep, ContextStep, ContextStays DEF KernelInv
<1>6. SpeakerInv'
  BY <1>3, SpeakerStep, SpeakerStays DEF KernelInv
<1>7. ClockInv'
  BY <1>4, ClockStep, ClockStays DEF KernelInv
<1> QED BY <1>5, <1>6, <1>7 DEF KernelInv

\* The entry code, the dump, the speaker and the clock each keep their inductive
\* invariant.
THEOREM KernelInvariant == KernelSpec => []KernelInv
BY KernelStarts, KernelSteps, PTL DEF KernelSpec

\* Whatever interrupts it, between any two instructions of the ways out of a
\* system call and an exception too, code goes on with the registers and the
\* stack it had, but for rax behind an ESC, and iretq finds a frame (the macros
\* of interrupts.asm, and the handlers built from them); the snapshot is one of
\* those that were taken.
THEOREM CodeGoesOnHolds == KernelSpec => []CodeGoesOn
<1>1. KernelInv => TypeOK
  BY DEF KernelInv, IInv
<1>2. KernelInv => Ctx!RegistersKept
  BY DEF KernelInv, ContextInv
<1>3. KernelInv => Ctx!StackBalanced
  <2> SUFFICES ASSUME KernelInv PROVE Ctx!StackBalanced
    OBVIOUS
  <2>1. callRegs \in RegFile /\ stack \in Seq(Tags) /\ CallInv /\ ExceptionInv /\ IretqInv
    BY DEF KernelInv, ContextInv, ContextTypes
  <2>2. pcC = "syscall" => Len(stack) = Len(Ctx!Own) + Len(Ctx!Frame) + Len(Ctx!PushOrder)
    BY <2>1, BaseIs, FrameIs, RegsAre, CallStack DEF CallInv
  <2>3. pcC = "iretq" => Ctx!IsFrame(Ctx!LastWords(stack, Len(Ctx!Frame))) \/ "frame" \in tainted
    <3>1. Ctx!LastWords(stack, Len(Ctx!Frame)) = SubSeq(stack, Len(stack) + 1 - 5, Len(stack))
      BY FrameIs DEF Ctx!LastWords
    <3>2. Len(Ctx!FrameWords) = 5
      BY DEF Ctx!FrameWords
    <3>3. CASE stack = Base
      <4>1. SubSeq(stack, Len(stack) + 1 - 5, Len(stack)) = Ctx!Frame
        BY <3>3, BaseIs
      <4>2. Ctx!IsFrame(Ctx!Frame)
        BY <3>2, FrameIs DEF Ctx!IsFrame, Ctx!Tag
      <4> QED BY <3>1, <4>1, <4>2
    <3>4. CASE Len(stack) = 5 /\ FrameInv
      <4>1. SubSeq(stack, Len(stack) + 1 - 5, Len(stack)) = stack
        BY <2>1, <3>4
      <4> QED BY <3>1, <3>2, <3>4, <4>1 DEF FrameInv, Ctx!IsFrame
    <3> QED BY <2>1, <3>3, <3>4 DEF IretqInv
  <2> QED BY <2>1, <2>2, <2>3 DEF CallInv, ExceptionInv, Ctx!StackBalanced
<1> QED BY <1>1, <1>2, <1>3, KernelInvariant, PTL DEF CodeGoesOn

\* sysCallDispatcher finds in its argument registers what was in the caller's,
\* in the order of the call: the moves of _int80Handler, each reading what the
\* ones before it left, overwrite no argument that is still to move.
THEOREM ArgumentsArriveHolds == KernelSpec => []ArgumentsArrive
<1>1. KernelInv => ArgumentsArrive
  BY DEF KernelInv, ContextInv, ArgumentsArrive
<1> QED BY <1>1, KernelInvariant, PTL

\* A snapshot, taken by ESC in any code or by an exception, holds each register
\* of the interrupted code behind its label (saveRegisters, format_registers).
THEOREM SnapshotIsExactHolds == KernelSpec => SnapshotIsExact
<1>1. ASSUME KernelInv, [KernelNext]_allVars, reg_arrayC' # reg_arrayC
      PROVE  Ctx!HoldsRegisters
  <2>1. Ctx!Next
    BY <1>1 DEF KernelNext, allVars, contextVars
  <2>2. reg_arrayC' = Ctx!saveRegisters(regs, stack \o Ctx!Frame)
    <3>1. CASE Ctx!Irq1Esc
      BY <3>1 DEF Ctx!Irq1Esc
    <3>2. CASE Ctx!Exception
      BY <3>2 DEF Ctx!Exception
    <3>3. CASE ~Ctx!Irq1Esc /\ ~Ctx!Exception
      BY <1>1, <2>1, <3>3 DEF Ctx!Next, Ctx!Compute, Ctx!Start, Ctx!EnableInterrupts, Ctx!Int80,
                              Ctx!StoreResult, Ctx!RestoreRegister, Ctx!ReloadResult, Ctx!PopRegister,
                              Ctx!Irq, Ctx!StartUnwind, Ctx!UnwindRegister, Ctx!StartFrame,
                              Ctx!FrameStep, Ctx!PushWord, Ctx!LoadRax, Ctx!PushRax,
                              Ctx!IretqToCaller, Ctx!IretqToStart
    <3> QED BY <3>1, <3>2, <3>3
  <2>3. regs \in RegFile /\ stack \in Seq(Tags)
    BY <1>1 DEF KernelInv, ContextInv, ContextTypes
  <2> QED BY <2>2, <2>3, SnapshotWords DEF Ctx!HoldsRegisters
<1>2. KernelInv /\ [KernelNext]_allVars => [reg_arrayC' # reg_arrayC => Ctx!HoldsRegisters]_(Ctx!vars)
  BY <1>1
<1> QED BY <1>2, KernelInvariant, PTL DEF KernelSpec, SnapshotIsExact, Ctx!SnapshotIsExact

\* The speaker is on with the frequency asked for, and a beep ends within a
\* tick of its duration, even if ticks comes round meanwhile (beep, sleep).
THEOREM BeepsAsAskedHolds == KernelSpec => BeepsAsAsked
<1> DEFINE Sounds == subject = "speaker" => Speaker!TypeOK /\ Speaker!ToneIsRight
           Lasts == Speaker!BeepEnd => /\ 1000 * elapsed > 18 * request.ms - 1000
                                       /\ 1000 * elapsed <= 18 * request.ms + 1000
<1>1. KernelInv => Sounds
  <2> SUFFICES ASSUME KernelInv PROVE Speaker!TypeOK /\ Speaker!ToneIsRight
    OBVIOUS
  <2>1. SpeakerFlags /\ SpeakerNumbers /\ ToneInv
    BY DEF KernelInv, SpeakerInv
  <2>2. Speaker!TypeOK
    BY <2>1 DEF SpeakerFlags, SpeakerNumbers, Speaker!TypeOK
  <2>3. request.frequency \in Nat
    BY <2>1 DEF SpeakerNumbers
  <2>4. Speaker!ToneIsRight
    BY <2>1, <2>3, DivisorFits, SMT DEF ToneInv, Speaker!ToneIsRight
  <2> QED BY <2>2, <2>4
<1>2. KernelInv => Lasts
  <2> SUFFICES ASSUME KernelInv, Speaker!BeepEnd
               PROVE  /\ 1000 * elapsed > 18 * request.ms - 1000
                      /\ 1000 * elapsed <= 18 * request.ms + 1000
    OBVIOUS
  <2>1. SpeakerNumbers /\ LengthInv /\ pcB = "test" /\ Speaker!Expired
    BY DEF KernelInv, SpeakerInv, Speaker!BeepEnd
  <2>2. /\ elapsed \in Nat /\ ticksToWait \in Nat /\ request.ms \in Nat
        /\ TickRange \in Nat /\ ticks \in 0 .. TickRange - 1 /\ start \in 0 .. TickRange - 1
    BY <2>1, BeepAssumption DEF SpeakerNumbers
  <2>3. /\ ticksToWait = Speaker!ToTicks(request.ms)
        /\ elapsed = Counted + Bit(pending) /\ elapsed <= ticksToWait + Bit(recent)
    BY <2>1 DEF LengthInv
  <2>4. Bit(pending) \in 0 .. 1 /\ Bit(recent) \in 0 .. 1
    BY DEF Bit
  <2>5. Counted >= ticksToWait /\ Counted \in Nat
    BY <2>1, <2>2, CountedTicks DEF Counted, Speaker!Expired
  <2>6. ticksToWait <= elapsed /\ elapsed <= ticksToWait + 1
    BY <2>2, <2>3, <2>4, <2>5
  <2>7. 1000 * ticksToWait <= 18 * request.ms /\ 18 * request.ms < 1000 * ticksToWait + 1000
    <3>1. request.ms \in Nat
      BY <2>2
    <3>2. /\ 1000 * Speaker!ToTicks(request.ms) <= 18 * request.ms
          /\ 18 * request.ms < 1000 * Speaker!ToTicks(request.ms) + 1000
      <4> DEFINE ms == request.ms
      <4> HIDE DEF ms
      <4>1. ms \in Nat
        BY <3>1 DEF ms
      <4>2. 1000 * Speaker!ToTicks(ms) <= 18 * ms /\ 18 * ms < 1000 * Speaker!ToTicks(ms) + 1000
        BY <4>1, TicksOfMs
      <4> QED BY <4>2 DEF ms
    <3> QED BY <2>3, <3>2
  <2> QED BY <2>2, <2>6, <2>7
<1> HIDE DEF Sounds, Lasts
<1>3. KernelSpec => []Sounds /\ [][Lasts]_(Speaker!vars)
  <2>1. KernelInv /\ [KernelNext]_allVars => [Lasts]_(Speaker!vars)
    BY <1>2
  <2> QED BY <1>1, <2>1, KernelInvariant, PTL DEF KernelSpec
<1> QED BY <1>3 DEF BeepsAsAsked, Sounds, Lasts, Speaker!BeepLasts

\* The time shown is that of the zone when the clock stays, and at most an
\* hour ahead of the call when it advances during one (getTime).
THEOREM ShownTimeIsRightHolds == KernelSpec => ShownTimeIsRight
<1> DEFINE Typed == subject = "clock" => Rtc!TypeOK
           Forwards == Rtc!ReadHour => (Rtc!Shown - called) % Rtc!Day <= Minutes * Seconds
           Zoned == Rtc!ReadHour /\ ~updated => Rtc!Shown = called
<1>1. KernelInv => Typed
  BY DEF KernelInv, ClockInv
<1>2. KernelInv => Forwards /\ Zoned
  BY ShownIs DEF KernelInv, HourLength
<1> HIDE DEF Typed, Forwards, Zoned
<1>3. KernelSpec => []Typed /\ [][Forwards]_(Rtc!vars) /\ [][Zoned]_(Rtc!vars)
  <2>1. KernelInv /\ [KernelNext]_allVars => [Forwards]_(Rtc!vars)
    BY <1>2
  <2>2. KernelInv /\ [KernelNext]_allVars => [Zoned]_(Rtc!vars)
    BY <1>2
  <2> QED BY <1>1, <2>1, <2>2, KernelInvariant, PTL DEF KernelSpec
<1> QED BY <1>3 DEF ShownTimeIsRight, Typed, Forwards, Zoned, Rtc!ErrsForwards, Rtc!ShowsZoneTime
=============================================================================
