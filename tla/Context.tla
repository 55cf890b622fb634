------------------------------ MODULE Context -------------------------------
(***************************************************************************)
(* The entry and exit code of Kernel/asm/interrupts.asm: what int 0x80,    *)
(* IRQ0, IRQ1 and the two exceptions do to the general registers and the   *)
(* stack of the code they interrupt, and to reg_array.                     *)
(*                                                                         *)
(* A register value is a tag that says who put it there, so that a lost or *)
(* exchanged register shows.  IRQ handlers run with interrupts disabled    *)
(* from the gate to iretq, so each is one action, and so is the entry of a *)
(* system call or an exception.  Both can be interrupted once their C code *)
(* has executed sti, so that their exits go one instruction at a time.     *)
(***************************************************************************)
EXTENDS Integers, Sequences, SequencesExt

CONSTANT Gens   \* successive values of a program's registers, one at least

VARIABLES
    pc,         \* the place of the code that runs
    step,       \* in a list of instructions, the number of the next one
    iflag,      \* the interrupt flag
    regs,       \* the general registers
    stack,      \* the stack, the top last: one for the program and the kernel
    aux,        \* the word _int80Handler parks its result in
    reg_array,  \* the register snapshot
    escPressedFlag,
    args,       \* what sysCallDispatcher found in its argument registers
    expected,   \* the registers the running code believes it has
    callRegs,   \* the caller's registers when int 0x80 was executed
    result,     \* what sysCallDispatcher returned
    tainted     \* what holds an rax an ESC interrupt changed: "rax" itself,
                \* "aux" or a word of the "frame" built from it

vars == <<pc, step, iflag, regs, stack, aux, reg_array, escPressedFlag, args,
          expected, callRegs, result, tainted>>

\* pushState, popState and saveRegisters name the registers in these orders.
PushOrder == <<"rax", "rbx", "rcx", "rdx", "rbp", "rdi", "rsi", "r8", "r9",
               "r10", "r11", "r12", "r13", "r14", "r15">>
\* Mutant of PopOrder: rdi and rsi exchanged.
PopOrderSwapped == <<"r15", "r14", "r13", "r12", "r11", "r10", "r9", "r8", "rdi",
                     "rsi", "rbp", "rdx", "rcx", "rbx", "rax">>
PopOrder == <<"r15", "r14", "r13", "r12", "r11", "r10", "r9", "r8", "rsi",
              "rdi", "rbp", "rdx", "rcx", "rbx", "rax">>
SaveOrder == PushOrder

Regs == ToSet(PushOrder)

\* The words the processor pushes on an interrupt, the last one on top.
FrameWords == <<"SS", "RSP", "RFLAGS", "CS", "RIP">>

\* keyboardDriver.c prints reg_array[k - 1] behind the k-th of these labels.
Labels == PushOrder \o <<"RIP", "CS", "RFLAGS", "RSP", "SS">>

Tag(who, what) == <<who, what, 0>>
Frame == [k \in 1 .. Len(FrameWords) |-> Tag("cpu", FrameWords[k])]
Owned(who, g) == [r \in Regs |-> <<who, r, g>>]

\* What the program itself has on the stack.  An exception pops fifteen words
\* and only five are the processor's: ten is the least the code relies on.
Own == [k \in 1 .. Len(PopOrder) - Len(FrameWords) |-> <<"user", "word", k>>]

LastWords(stk, n) == SubSeq(stk, Len(stk) + 1 - n, Len(stk))

\* iretq takes an SS, RSP, RFLAGS, CS and RIP, whoever put them there.
IsFrame(words) == \A k \in 1 .. Len(FrameWords) : words[k][2] = FrameWords[k]

-----------------------------------------------------------------------------
(* The macros, as functions of the registers and the stack *)

pushState(r, stk) == stk \o [k \in 1 .. Len(PushOrder) |-> r[PushOrder[k]]]

popped(stk) ==
    [r \in Regs |-> stk[Len(stk) + 1 - CHOOSE k \in 1 .. Len(PopOrder) : PopOrder[k] = r]]

Drop(stk, n) == SubSeq(stk, 1, Len(stk) - n)

\* Mutant of saveRegisters: rax is saved after the frame words went through it.
saveRegistersLate(r, stk) ==
    [k \in 1 .. Len(SaveOrder) |-> IF SaveOrder[k] = "rax" THEN stk[Len(stk) - 4] ELSE r[SaveOrder[k]]]
        \o [k \in 1 .. Len(Frame) |-> stk[Len(stk) + 1 - k]]

\* reg_array after saveRegisters, and the rax it leaves: the frame words go
\* through rax, the last of them SS.
saveRegisters(r, stk) ==
    [k \in 1 .. Len(SaveOrder) |-> r[SaveOrder[k]]]
        \o [k \in 1 .. Len(Frame) |-> stk[Len(stk) + 1 - k]]

savedRax(r) == [r EXCEPT !["rax"] = Tag("cpu", "SS")]

-----------------------------------------------------------------------------
(* Code that runs between interrupts *)

\* The running code loads its registers with values of its own.
Compute(g) ==
    /\ pc \in {"user", "syscall", "exception"}
    /\ regs' = Owned(pc, g)
    /\ expected' = regs'
    /\ tainted' = tainted \ {"rax"}
    /\ UNCHANGED <<pc, step, iflag, stack, aux, reg_array, escPressedFlag, args, callRegs, result>>

\* sys_read, beep and sleep enable interrupts inside a system call, the
\* exception handlers do it before they print.
EnableInterrupts ==
    /\ pc \in {"syscall", "exception"}
    /\ iflag' = TRUE
    /\ UNCHANGED <<pc, step, regs, stack, aux, reg_array, escPressedFlag, args, expected, callRegs,
                   result, tainted>>

\* One pop of popState.
PopRegister ==
    /\ step <= Len(PopOrder)
    /\ step' = step + 1
    /\ regs' = [regs EXCEPT ![PopOrder[step]] = Last(stack)]
    /\ stack' = Front(stack)
    /\ tainted' = IF PopOrder[step] = "rax" THEN tainted \ {"rax"} ELSE tainted
    /\ UNCHANGED <<pc, iflag, aux, reg_array, escPressedFlag, args, callRegs, result>>

-----------------------------------------------------------------------------
(* System calls *)

mov(r, dst, src) == [r EXCEPT ![dst] = r[src]]

\* Mutant of shuffle: rax goes into rdi before rdi has moved on to rsi.
shuffleRdiFirst(r) ==
    LET r1 == mov(r, "r9", "r8")
        r2 == mov(r1, "r8", "r10")
        r3 == mov(r2, "rcx", "rdx")
        r4 == mov(r3, "rdx", "rsi")
        r5 == mov(r4, "rdi", "rax")
    IN  mov(r5, "rsi", "rdi")

\* The moves of _int80Handler, one after the other.
shuffle(r) ==
    LET r1 == mov(r, "r9", "r8")
        r2 == mov(r1, "r8", "r10")
        r3 == mov(r2, "rcx", "rdx")
        r4 == mov(r3, "rdx", "rsi")
        r5 == mov(r4, "rsi", "rdi")
    IN  mov(r5, "rdi", "rax")

ArgRegs == <<"rdi", "rsi", "rdx", "rcx", "r8", "r9">>

Int80 ==
    /\ pc = "user"
    /\ pc' = "syscall"
    /\ iflag' = FALSE
    /\ stack' = pushState(regs, stack \o Frame)
    /\ regs' = shuffle(regs)
    /\ args' = [k \in 1 .. Len(ArgRegs) |-> regs'[ArgRegs[k]]]
    /\ expected' = regs'
    /\ callRegs' = regs
    /\ tainted' = {}
    /\ UNCHANGED <<step, aux, reg_array, escPressedFlag, result>>

\* sysCallDispatcher has returned; its result is in rax.
StoreResult ==
    /\ pc = "syscall"
    /\ pc' = "restore" /\ step' = 1
    /\ aux' = regs["rax"]
    /\ result' = expected["rax"]
    /\ tainted' = IF "rax" \in tainted THEN {"rax", "aux"} ELSE {}
    /\ UNCHANGED <<iflag, regs, stack, reg_array, escPressedFlag, args, expected, callRegs>>

\* The caller's registers come back, one by one.
RestoreRegister ==
    /\ pc = "restore"
    /\ PopRegister
    /\ expected' = [expected EXCEPT ![PopOrder[step]] = callRegs[PopOrder[step]]]

ReloadResult ==
    /\ pc = "restore" /\ step = Len(PopOrder) + 1
    /\ pc' = "iretq"
    /\ regs' = [regs EXCEPT !["rax"] = aux]
    /\ expected' = [expected EXCEPT !["rax"] = result]
    /\ tainted' = IF "aux" \in tainted THEN {"rax"} ELSE {}
    /\ UNCHANGED <<step, iflag, stack, aux, reg_array, escPressedFlag, args, callRegs, result>>

-----------------------------------------------------------------------------
(* Hardware interrupts *)

\* irqHandlerMaster: push, call C (which uses the registers as it likes), pop.
afterIrq(r) == popped(pushState(r, stack \o Frame))

\* IRQ0, and IRQ1 with any scan code but ESC: there rax is pushed and popped
\* around the read of the port.
Irq ==
    /\ iflag
    /\ regs' = afterIrq(regs)
    /\ UNCHANGED <<pc, step, iflag, stack, aux, reg_array, escPressedFlag, args, expected, callRegs,
                   result, tainted>>

\* The ESC scan code takes a snapshot before the ordinary handling.
Irq1Esc ==
    /\ iflag
    /\ reg_array' = saveRegisters(regs, stack \o Frame)
    /\ escPressedFlag' = TRUE
    /\ regs' = afterIrq(savedRax(regs))
    /\ tainted' = tainted \union {"rax"}
    /\ UNCHANGED <<pc, step, iflag, stack, aux, args, expected, callRegs, result>>

-----------------------------------------------------------------------------
(* Exceptions *)

Exception ==
    /\ pc = "user"
    /\ pc' = "exception"
    /\ iflag' = FALSE
    /\ stack' = stack \o Frame
    /\ reg_array' = saveRegisters(regs, stack')
    /\ escPressedFlag' = TRUE
    /\ regs' = savedRax(regs)
    /\ expected' = regs'
    /\ tainted' = {}
    /\ UNCHANGED <<step, aux, args, callRegs, result>>

\* exceptionDispatcher has returned, with interrupts enabled.
StartUnwind ==
    /\ pc = "exception" /\ iflag
    /\ pc' = "unwind" /\ step' = 1
    /\ UNCHANGED <<iflag, regs, stack, aux, reg_array, escPressedFlag, args, expected, callRegs,
                   result, tainted>>

\* popState without a pushState: the processor's frame and ten words of the
\* program's go into the registers.
UnwindRegister ==
    /\ pc = "unwind"
    /\ PopRegister
    /\ expected' = [expected EXCEPT ![PopOrder[step]] = Last(stack)]

StartFrame ==
    /\ pc = "unwind" /\ step = Len(PopOrder) + 1
    /\ pc' = "frame" /\ step' = 1
    /\ UNCHANGED <<iflag, regs, stack, aux, reg_array, escPressedFlag, args, expected, callRegs,
                   result, tainted>>

\* The instructions that build a frame by hand: a word pushed as it is, a word
\* loaded into rax (the RSP by getStackBase), rax pushed.
FrameCode == <<<<"push", "SS">>, <<"load", "RSP">>, <<"pushRax", "RSP">>, <<"push", "RFLAGS">>,
               <<"push", "CS">>, <<"load", "RIP">>, <<"pushRax", "RIP">>>>

FrameStep(code) ==
    /\ pc = "frame" /\ FrameCode[step][1] = code
    /\ step' = step + 1
    /\ pc' = IF step = Len(FrameCode) THEN "iretq" ELSE pc
    /\ UNCHANGED <<iflag, aux, reg_array, escPressedFlag, args, callRegs, result>>

PushWord ==
    /\ FrameStep("push")
    /\ stack' = Append(stack, Tag("kernel", FrameCode[step][2]))
    /\ UNCHANGED <<regs, expected, tainted>>

LoadRax ==
    /\ FrameStep("load")
    /\ regs' = [regs EXCEPT !["rax"] = Tag("kernel", FrameCode[step][2])]
    /\ expected' = regs'
    /\ tainted' = tainted \ {"rax"}
    /\ UNCHANGED stack

PushRax ==
    /\ FrameStep("pushRax")
    /\ stack' = Append(stack, regs["rax"])
    /\ tainted' = tainted \union (IF "rax" \in tainted THEN {"frame"} ELSE {})
    /\ UNCHANGED <<regs, expected>>

-----------------------------------------------------------------------------
(* The way out of the kernel *)

\* From a system call back to its caller.
IretqToCaller ==
    /\ pc = "iretq" /\ LastWords(stack, Len(Frame)) = Frame
    /\ pc' = "user" /\ iflag' = TRUE
    /\ stack' = Drop(stack, Len(Frame))
    /\ UNCHANGED <<step, regs, aux, reg_array, escPressedFlag, args, expected, callRegs, result, tainted>>

\* From an exception: to the start of the user program on a fresh stack if the
\* words are where iretq takes them, else nobody knows where.
IretqToStart ==
    /\ pc = "iretq" /\ LastWords(stack, Len(Frame)) # Frame
    /\ pc' = IF IsFrame(LastWords(stack, Len(Frame))) THEN "start" ELSE "lost"
    /\ stack' = << >>
    /\ UNCHANGED <<step, iflag, regs, aux, reg_array, escPressedFlag, args, expected, callRegs, result,
                   tainted>>

\* The program starts: it calls its way down and loads its registers.
Start(g) ==
    /\ pc = "start"
    /\ pc' = "user"
    /\ stack' = Own
    /\ regs' = Owned("user", g)
    /\ expected' = regs'
    /\ tainted' = {}
    /\ UNCHANGED <<step, iflag, aux, reg_array, escPressedFlag, args, callRegs, result>>

-----------------------------------------------------------------------------
Init ==
    /\ pc = "user" /\ step = 1 /\ iflag = TRUE
    /\ \E g \in Gens : regs = Owned("user", g)
    /\ expected = regs /\ callRegs = regs
    /\ stack = Own
    /\ aux = Tag("zero", "aux") /\ result = aux
    /\ reg_array = [k \in 1 .. Len(Labels) |-> Tag("zero", Labels[k])]
    /\ escPressedFlag = FALSE
    /\ args = << >>
    /\ tainted = {}

Next ==
    \/ \E g \in Gens : Compute(g) \/ Start(g)
    \/ EnableInterrupts
    \/ Int80
    \/ StoreResult
    \/ RestoreRegister
    \/ ReloadResult
    \/ Irq
    \/ Irq1Esc
    \/ Exception
    \/ StartUnwind
    \/ UnwindRegister
    \/ StartFrame
    \/ PushWord
    \/ LoadRax
    \/ PushRax
    \/ IretqToCaller
    \/ IretqToStart

Spec == Init /\ [][Next]_vars

-----------------------------------------------------------------------------
(* Properties *)

\* Whatever interrupts it, between any two of its instructions, code finds its
\* registers as it left them; a system call returns with its caller's registers
\* and its result in rax.  The one exception is rax after an ESC interrupt, and
\* the result that was in it.
RegistersKept == \A r \in Regs : regs[r] = expected[r] \/ (r = "rax" /\ "rax" \in tainted)

\* User code always resumes on the stack it had, and every iretq finds a frame
\* on top of the stack: also the one an exception builds by hand over whatever
\* popState left, unless an ESC interrupt hit between the load of rax with one
\* of its words and the push.
StackBalanced ==
    /\ pc = "user" => stack = Own
    /\ pc = "syscall" => Len(stack) = Len(Own) + Len(Frame) + Len(PushOrder)
    /\ pc = "iretq" => IsFrame(LastWords(stack, Len(Frame))) \/ "frame" \in tainted
    /\ pc = "lost" => "frame" \in tainted

\* sysCallDispatcher receives the call number and the five arguments that were
\* in rax, rdi, rsi, rdx, r10 and r8, in that order: no move of _int80Handler
\* overwrites an argument before it has moved on.
ArgumentsArrive ==
    args # << >> =>
        args = [k \in 1 .. 6 |-> callRegs[<<"rax", "rdi", "rsi", "rdx", "r10", "r8">>[k]]]

\* The new snapshot holds, behind each label, that register.
HoldsRegisters ==
    \A k \in 1 .. Len(Labels) :
        reg_array'[k] = IF Labels[k] \in Regs THEN regs[Labels[k]] ELSE Tag("cpu", Labels[k])

\* A snapshot holds, behind each label, that register of the interrupted code.
SnapshotIsExact == [][reg_array' # reg_array => HoldsRegisters]_vars

\* What the design report says of the hardware interrupts: the whole state is
\* pushed, irqDispatcher is called, "luego se restaura el estado del sistema".
InterruptsAreTransparent == regs = expected

=============================================================================
