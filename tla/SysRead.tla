------------------------------ MODULE SysRead -------------------------------
(***************************************************************************)
(* A read from the keyboard, one memory access at a time.  The processor   *)
(* runs user code, which enters the kernel through int 0x80 with           *)
(* interrupts disabled; sys_read (Kernel/sysCallDispatcher.c) enables them *)
(* as soon as it has to wait, and from then on the timer (IRQ0) and the    *)
(* keyboard (IRQ1) can run between any two of its instructions, those of   *)
(* kbd_has_char and kbd_get_char included.  The handlers themselves run    *)
(* to the end: the gates are interrupt gates and no handler executes sti.  *)
(*                                                                         *)
(* head and tail are volatile, so every mention of them is one load or one *)
(* store, in the order gcc -O3 emits them: kbd_get_char loads head, tail,  *)
(* tail (the index), buf[index], tail again, and stores tail.              *)
(***************************************************************************)
EXTENDS KeyboardBuffer

CONSTANTS
    Newline,    \* '\n', which ends a read
    Counts,     \* the counts user code asks for
    MaxWire,    \* bound: scan codes waiting in the keyboard
    MaxBurst    \* keyboard interrupts between two instructions of a system call

\* The keyboard cannot fill the buffer between two instructions: it needs a
\* millisecond per scan code, and BUF_SIZE is 128.
ASSUME SysReadAssumption ==
    /\ Newline \in Chars
    /\ Counts \subseteq Nat \ {0}
    /\ MaxWire \in Nat
    /\ MaxBurst \in Nat /\ MaxBurst < BufSize - 1

VARIABLES
    pc,         \* where the processor is
    iflag,      \* the interrupt flag
    i, count,   \* sys_read's counter and argument
    hreg, treg, \* registers holding a loaded head and a loaded tail
    creg,       \* register holding the loaded character
    wire,       \* per waiting scan code, the character it stores or Nul
    burst,      \* keyboard interrupts since the last instruction of the call
    tick,       \* the timer's request is pending at the PIC
    ready,      \* SYS_KEY_READY said yes and nothing was read or reset since
    raced       \* the buffer overran inside the current kbd_get_char

cpuVars == <<pc, iflag, i, count, hreg, treg, creg>>
vars == <<bufVars, cpuVars, wire, burst, tick, ready, raced>>

\* Where kbd_get_char holds a value of head or tail it has yet to use.
GetWindow == {"test_tail", "get_buf", "get_tail", "get_store"}

InKernel == {"has_head", "has_tail", "sti", "hlt", "halted",
             "test_head", "get_index", "append"} \cup GetWindow

Waiting == {"sti", "hlt", "halted"}

Goto(from, to) == pc = from /\ pc' = to

-----------------------------------------------------------------------------
(* User code *)

CallRead(n) ==
    /\ Goto("user", "has_head")
    /\ iflag' = FALSE
    /\ i' = 0
    /\ count' = n
    /\ UNCHANGED <<bufVars, hreg, treg, creg, ready, raced>>

\* SYS_KEY_READY and SYS_RESET_KBD_BUFFER never enable interrupts, so each is
\* one step.
CallKeyReady ==
    /\ pc = "user"
    /\ ready' = HasChar
    /\ UNCHANGED <<bufVars, cpuVars, raced>>

CallReset ==
    /\ pc = "user"
    /\ ResetBuff
    /\ ready' = FALSE
    /\ UNCHANGED <<cpuVars, raced>>

-----------------------------------------------------------------------------
(* sys_read: while (!kbd_has_char()) { _sti(); _hlt(); } *)

HasLoadHead ==
    /\ Goto("has_head", "has_tail")
    /\ hreg' = head
    /\ UNCHANGED <<bufVars, iflag, i, count, treg, creg, ready, raced>>

HasLoadTail ==
    /\ pc = "has_tail"
    /\ pc' = IF hreg # tail THEN "test_head" ELSE "sti"
    /\ UNCHANGED <<bufVars, iflag, i, count, hreg, treg, creg, ready, raced>>

Sti ==
    /\ Goto("sti", "hlt")
    /\ iflag' = TRUE
    /\ UNCHANGED <<bufVars, i, count, hreg, treg, creg, ready, raced>>

\* The sti of _hlt finds interrupts enabled already, so nothing protects the
\* hlt after it: an interrupt taken at "hlt" is over when the processor stops.
Hlt ==
    /\ Goto("hlt", "halted")
    /\ iflag' = TRUE
    /\ UNCHANGED <<bufVars, i, count, hreg, treg, creg, ready, raced>>

-----------------------------------------------------------------------------
(* sys_read: c = kbd_get_char() *)

TestLoadHead ==
    /\ Goto("test_head", "test_tail")
    /\ hreg' = head
    /\ raced' = FALSE
    /\ UNCHANGED <<bufVars, iflag, i, count, treg, creg, ready>>

\* if (head == tail) return 0
TestLoadTail ==
    /\ pc = "test_tail"
    /\ pc' = IF hreg = tail THEN "append" ELSE "get_index"
    /\ got' = IF hreg = tail THEN Nul ELSE got
    /\ UNCHANGED <<buf, head, tail, iflag, i, count, hreg, treg, creg, ready, raced>>

GetLoadIndex ==
    /\ Goto("get_index", "get_buf")
    /\ treg' = tail
    /\ UNCHANGED <<bufVars, iflag, i, count, hreg, creg, ready, raced>>

\* Mutant of GetLoadChar: buf[++tail] for buf[tail++].
GetLoadNextChar ==
    /\ Goto("get_buf", "get_tail")
    /\ creg' = buf[Advance(treg)]
    /\ UNCHANGED <<bufVars, iflag, i, count, hreg, treg, ready, raced>>

GetLoadChar ==
    /\ Goto("get_buf", "get_tail")
    /\ creg' = buf[treg]
    /\ UNCHANGED <<bufVars, iflag, i, count, hreg, treg, ready, raced>>

GetLoadTail ==
    /\ Goto("get_tail", "get_store")
    /\ treg' = tail
    /\ UNCHANGED <<bufVars, iflag, i, count, hreg, creg, ready, raced>>

GetStoreTail ==
    /\ Goto("get_store", "append")
    /\ tail' = Advance(treg)
    /\ got' = creg
    /\ UNCHANGED <<buf, head, iflag, i, count, hreg, treg, creg, ready, raced>>

\* buf[i++] = c, and back to the caller after a newline or count characters.
\* iretq restores the caller's interrupt flag.
AppendChar ==
    LET done == got = Newline \/ i + 1 >= count
    IN  /\ pc = "append"
        /\ pc' = IF done THEN "user" ELSE "has_head"
        /\ iflag' = (iflag \/ done)
        /\ i' = i + 1
        /\ ready' = (ready /\ ~done)
        /\ UNCHANGED <<bufVars, count, hreg, treg, creg, raced>>

-----------------------------------------------------------------------------
(* Interrupts *)

\* Mutant of Resume: if (!kbd_has_char()) in place of the while loop.
ResumeWithoutTest == pc' = IF pc = "halted" THEN "test_head" ELSE pc

\* An interrupt ends the hlt; execution resumes after it, at the loop's test.
Resume == pc' = IF pc = "halted" THEN "has_head" ELSE pc

\* Mutant of Irq0: the timer is left masked at the PIC.
Irq0Masked == FALSE /\ UNCHANGED vars

\* timer_handler only counts, so all that matters here is that it wakes.
Irq0 ==
    /\ iflag /\ tick
    /\ tick' = FALSE
    /\ Resume
    /\ UNCHANGED <<bufVars, iflag, i, count, hreg, treg, creg, wire, burst, ready, raced>>

\* kbd_get_key: the scan code stores its character, or none.
Irq1 ==
    LET ch == Head(wire)
        overrun == ch # Nul /\ Advance(head) = tail
    IN  /\ iflag /\ wire # << >>
        /\ wire' = Tail(wire)
        /\ pc = "user" \/ burst < MaxBurst
        /\ burst' = IF pc = "user" THEN 0 ELSE burst + 1
        /\ IF ch = Nul THEN UNCHANGED bufVars ELSE Put(ch)
        /\ raced' = (raced \/ (overrun /\ pc \in GetWindow))
        /\ Resume
        /\ UNCHANGED <<iflag, i, count, hreg, treg, creg, tick, ready>>

\* The devices: somebody types, the timer ticks.
Type(ch) ==
    /\ Len(wire) < MaxWire
    /\ wire' = Append(wire, ch)
    /\ UNCHANGED <<bufVars, cpuVars, burst, tick, ready, raced>>

Tick ==
    /\ ~tick
    /\ tick' = TRUE
    /\ UNCHANGED <<bufVars, cpuVars, wire, burst, ready, raced>>

-----------------------------------------------------------------------------
Init ==
    /\ BufInit
    /\ pc = "user" /\ iflag = TRUE
    /\ i = 0 /\ count = 0
    /\ hreg = 0 /\ treg = 0 /\ creg = Nul
    /\ wire = << >> /\ burst = 0 /\ tick = FALSE
    /\ ready = FALSE /\ raced = FALSE

UserStep ==
    /\ (\E n \in Counts : CallRead(n)) \/ CallKeyReady \/ CallReset
    /\ UNCHANGED <<wire, burst, tick>>

KernelStep ==
    /\ \/ HasLoadHead \/ HasLoadTail \/ Sti \/ Hlt
       \/ TestLoadHead \/ TestLoadTail
       \/ GetLoadIndex \/ GetLoadChar \/ GetLoadTail \/ GetStoreTail
       \/ AppendChar
    /\ burst' = 0
    /\ UNCHANGED <<wire, tick>>

Next ==
    \/ UserStep
    \/ KernelStep
    \/ Irq0
    \/ Irq1
    \/ \E ch \in Chars \cup {Nul} : Type(ch)
    \/ Tick

Spec == Init /\ [][Next]_vars

\* The processor executes instructions, the timer never stops, and a pending
\* interrupt is taken once interrupts stay enabled.  Nobody is forced to type
\* or to call.
Fairness ==
    /\ WF_vars(KernelStep)
    /\ WF_vars(Tick)
    /\ WF_vars(Irq0)
    /\ WF_vars(Irq1)

FairSpec == Spec /\ Fairness

-----------------------------------------------------------------------------
(* Properties *)

TypeOK ==
    /\ BufTypeOK
    /\ pc \in InKernel \cup {"user"}
    /\ iflag \in BOOLEAN /\ tick \in BOOLEAN /\ ready \in BOOLEAN /\ raced \in BOOLEAN
    /\ i \in Nat /\ count \in Counts \cup {0}
    /\ hreg \in Index /\ treg \in Index
    /\ creg \in Chars \cup {Nul}
    /\ burst \in 0 .. MaxBurst
    /\ wire \in Seq(Chars \cup {Nul})

\* sys_read never stores the zero byte kbd_get_char returns for an empty buffer:
\* between the loop's kbd_has_char and the end of kbd_get_char interrupts can
\* add characters and push old ones out, but not empty the buffer.
NeverReadsNul == TypeOK /\ (pc = "append" => got # Nul)

\* After SYS_KEY_READY answered yes, the next read finds a character at once: it
\* neither enables interrupts nor halts before its first character.
NoWaitAfterReady ==
    ready => /\ pc = "user" => HasChar
             /\ i = 0 => pc \notin Waiting

\* With interrupts between any two accesses, a keyboard interrupt still puts its
\* character into the bounded queue, and a read takes the oldest one out or
\* nothing, except in a kbd_get_char during which the buffer overran (raced):
\* then its second load of tail no longer names the character it returns.
ReadsAreQueueSteps ==
    [][/\ Irq1 => IF Head(wire) = Nul THEN UNCHANGED Contents ELSE Queue!PutChar(Head(wire))
       /\ KernelStep => raced \/ Queue!TakeChar \/ UNCHANGED <<Contents, got>>]_vars

\* A read that is waiting, or about to wait, while a character is in the buffer
\* gets a character: the wake-up lost between _sti and hlt is made up for by the
\* next timer tick.
WaitingCharIsRead == (pc \in InKernel /\ HasChar) ~> (pc = "append")

=============================================================================
