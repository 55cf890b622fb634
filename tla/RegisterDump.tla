---------------------------- MODULE RegisterDump ----------------------------
(***************************************************************************)
(* Showing the register snapshot: reg_array is filled by an ESC interrupt  *)
(* or by an exception (module Context says with what), and copy_regs of    *)
(* Kernel/keyboardDriver.c turns it into text for the regs command, inside *)
(* a system call with interrupts disabled, and for the exception handlers  *)
(* of Kernel/exceptionDispatcher.c, which enable interrupts first.         *)
(*                                                                         *)
(* A register value is abstracted to the snapshot it belongs to, numbered  *)
(* from 1; 0 is the value of an entry never written.                       *)
(***************************************************************************)
EXTENDS Integers

CONSTANTS
    Entries,        \* how many entries of reg_array are told apart
    MaxSnapshots    \* bound: snapshots taken

ASSUME DumpAssumption == Entries \in Nat \ {0} /\ MaxSnapshots \in Nat

VARIABLES
    pc,                     \* "user", or the step of the exception handler
    reg_array, escPressedFlag,
    registers_formatted, buff_reg,
    k,                      \* format_registers' loop index
    snapshots,              \* how many were taken
    exception,              \* the snapshot of the exception being reported
    report,                 \* the last text printed by the handler
    answer                  \* what SYS_REGS gave the user: a text, or none

vars == <<pc, reg_array, escPressedFlag, registers_formatted, buff_reg, k,
          snapshots, exception, report, answer>>

Entry == 1 .. Entries
Text == [Entry -> 0 .. MaxSnapshots]
Unavailable == [e \in Entry |-> -1]     \* copy_regs returned 1
Whole(s) == [e \in Entry |-> s]

TypeOK ==
    /\ pc \in {"user", "notice", "format", "copy"}
    /\ reg_array \in Text /\ buff_reg \in Text /\ report \in Text
    /\ answer \in Text \cup {Unavailable}
    /\ escPressedFlag \in BOOLEAN /\ registers_formatted \in BOOLEAN
    /\ k \in 1 .. Entries + 1
    /\ snapshots \in 0 .. MaxSnapshots
    /\ exception \in 0 .. MaxSnapshots

-----------------------------------------------------------------------------
\* saveRegisters and the flag: the whole array, with interrupts disabled.
TakeSnapshot ==
    /\ snapshots < MaxSnapshots
    /\ snapshots' = snapshots + 1
    /\ reg_array' = Whole(snapshots')
    /\ escPressedFlag' = TRUE

\* _irq01Handler with the ESC scan code.  Interrupts are enabled in user code
\* and, after the _sti of its first line, throughout the exception handler.
EscIrq ==
    /\ TakeSnapshot
    /\ UNCHANGED <<pc, registers_formatted, buff_reg, k, exception, report, answer>>

\* format_registers run to its end on the array a.
Formatted(a) == [e \in Entry |-> a[e]]

\* Mutant of SysRegs: the text is kept for the next call.
SysRegsKept ==
    /\ pc = "user"
    /\ IF ~escPressedFlag
       THEN /\ answer' = Unavailable
            /\ UNCHANGED <<buff_reg, registers_formatted>>
       ELSE /\ buff_reg' = IF registers_formatted THEN buff_reg ELSE Formatted(reg_array)
            /\ answer' = buff_reg'
            /\ registers_formatted' = TRUE
    /\ UNCHANGED <<pc, reg_array, escPressedFlag, k, snapshots, exception, report>>

\* SYS_REGS: copy_regs with interrupts disabled.
SysRegs ==
    /\ pc = "user"
    /\ IF ~escPressedFlag
       THEN /\ answer' = Unavailable
            /\ UNCHANGED <<buff_reg, registers_formatted>>
       ELSE /\ buff_reg' = IF registers_formatted THEN buff_reg ELSE Formatted(reg_array)
            /\ answer' = buff_reg'
            /\ registers_formatted' = FALSE
    /\ UNCHANGED <<pc, reg_array, escPressedFlag, k, snapshots, exception, report>>

-----------------------------------------------------------------------------
(* An exception in user code *)

\* exceptionHandler up to the _sti of zero_division or invalid_opcode.
RaiseException ==
    /\ pc = "user"
    /\ TakeSnapshot
    /\ exception' = snapshots'
    /\ pc' = "notice"
    /\ UNCHANGED <<registers_formatted, buff_reg, k, report, answer>>

\* The two lines of text are printed, and copy_regs tests its two flags.
StartDump ==
    /\ pc = "notice"
    /\ pc' = IF registers_formatted THEN "copy" ELSE "format"
    /\ k' = 1
    /\ UNCHANGED <<reg_array, escPressedFlag, registers_formatted, buff_reg, snapshots, exception, report, answer>>

\* One turn of the loop of format_registers: one load from reg_array.
FormatEntry ==
    /\ pc = "format" /\ k <= Entries
    /\ buff_reg' = [buff_reg EXCEPT ![k] = reg_array[k]]
    /\ k' = k + 1
    /\ UNCHANGED <<pc, reg_array, escPressedFlag, registers_formatted, snapshots, exception, report, answer>>

EndFormat ==
    /\ pc = "format" /\ k = Entries + 1
    /\ registers_formatted' = TRUE
    /\ pc' = "copy"
    /\ UNCHANGED <<reg_array, escPressedFlag, buff_reg, k, snapshots, exception, report, answer>>

\* Mutant of PrintDump: registers_formatted is not cleared.
PrintDumpKept ==
    /\ pc = "copy"
    /\ report' = buff_reg
    /\ exception' = 0
    /\ pc' = "user"
    /\ UNCHANGED <<reg_array, escPressedFlag, registers_formatted, buff_reg, k, snapshots, answer>>

\* The copy is printed and the user program starts again.
PrintDump ==
    /\ pc = "copy"
    /\ report' = buff_reg
    /\ registers_formatted' = FALSE
    /\ exception' = 0
    /\ pc' = "user"
    /\ UNCHANGED <<reg_array, escPressedFlag, buff_reg, k, snapshots, answer>>

-----------------------------------------------------------------------------
Init ==
    /\ pc = "user"
    /\ reg_array = Whole(0) /\ buff_reg = Whole(0) /\ report = Whole(0)
    /\ answer = Unavailable
    /\ escPressedFlag = FALSE /\ registers_formatted = FALSE
    /\ k = 1
    /\ snapshots = 0 /\ exception = 0

Next ==
    \/ EscIrq
    \/ SysRegs
    \/ RaiseException
    \/ StartDump
    \/ FormatEntry
    \/ EndFormat
    \/ PrintDump

Spec == Init /\ [][Next]_vars

-----------------------------------------------------------------------------
(* Properties *)

\* The regs command answers with the latest snapshot, all of it and nothing
\* older, whether an ESC or an exception took it and however often the text was
\* formatted before; it reports none only if none was ever taken.
RegsShowsLatestSnapshot ==
    [][SysRegs => answer' = IF snapshots = 0 THEN Unavailable ELSE Whole(snapshots)]_vars

\* What an exception prints is, entry by entry, its own snapshot or one an ESC
\* took later while it was being printed: never one from before the exception.
DumpIsNotOlder ==
    [][PrintDump => \A e \in Entry : report'[e] >= exception]_vars

\* What the code says the flag is set for, "so that it can be printed in the
\* exception handler" (interrupts.asm:91): the registers of the exception.
DumpIsTheException == [][PrintDump => report' = Whole(exception)]_vars

=============================================================================
