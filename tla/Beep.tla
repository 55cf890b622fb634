-------------------------------- MODULE Beep ---------------------------------
(***************************************************************************)
(* SYS_BEEP: beep of Kernel/soundDriver.c programs the speaker, waits with *)
(* sleep of Kernel/time.c and turns the speaker off.  sleep counts timer   *)
(* interrupts; it is entered with interrupts disabled and its first _hlt   *)
(* enables them, so from then on an interrupt can fall between its test    *)
(* and the hlt.                                                            *)
(*                                                                         *)
(* ticks is an unsigned long that wraps; here it wraps at TickRange.       *)
(***************************************************************************)
EXTENDS Integers

CONSTANTS
    TickRange,      \* the range of ticks, 2^64 in the code
    Frequencies,    \* the frequencies user code asks for
    Durations       \* the durations it asks for, in milliseconds: shorter than
                    \* the range of ticks, and 18 times one fits unsigned int

PIT_FREQUENCY == 1193180
Word == {n \in Nat : n < 65536}     \* what two bytes hold
MIN_FREQUENCY == 20
MAX_FREQUENCY == 20000

VARIABLES
    pc,             \* "user", or where sleep is
    iflag,          \* the interrupt flag
    ticks, start,   \* the tick counter and sleep's copy of it
    ticksToWait,
    counter,        \* what PIT channel 2 divides by
    gate, data,     \* bits 0 and 1 of the speaker control port
    pending,        \* the timer's request is pending at the PIC
    recent,         \* a pulse since the processor last ran user code or stopped
    request,        \* the frequency and duration asked for
    elapsed         \* timer pulses since the beep began

sleepVars == <<pc, iflag, start, ticksToWait>>
speakerVars == <<counter, gate, data>>
vars == <<sleepVars, ticks, speakerVars, pending, recent, request, elapsed>>

\* With interrupts enabled a pending one is taken before the next instruction.
Uninterrupted == ~(iflag /\ pending)

-----------------------------------------------------------------------------
(* beep *)

InRange(f) == f >= MIN_FREQUENCY /\ f <= MAX_FREQUENCY

\* Two bytes of it are written to the port.
Divisor(f) == (PIT_FREQUENCY \div f) % 65536

\* In unsigned int, which the longest duration the programs ask for, 400 ms, is
\* far from overflowing.
ToTicks(ms) == (ms * 18) \div 1000

BeepIgnored(f, ms) ==
    /\ pc = "user" /\ ~InRange(f)
    /\ UNCHANGED vars

\* Everything up to the first test of sleep runs with interrupts disabled.
BeepStart(f, ms) ==
    /\ pc = "user" /\ InRange(f) /\ Uninterrupted
    /\ counter' = Divisor(f)
    /\ gate' = TRUE /\ data' = TRUE
    /\ ticksToWait' = ToTicks(ms)
    /\ start' = ticks
    /\ iflag' = FALSE
    /\ pc' = "test"
    /\ request' = [frequency |-> f, ms |-> ms]
    /\ elapsed' = 0 /\ recent' = FALSE
    /\ UNCHANGED <<ticks, pending>>

\* Mutant of Expired: compares with the tick to wait for.
ExpiredAbsolute == ticks >= (start + ticksToWait) % TickRange

\* The negation of ticks - start < ticksToWait.
Expired == (ticks - start) % TickRange >= ticksToWait

SleepMore ==
    /\ pc = "test" /\ ~Expired /\ Uninterrupted
    /\ pc' = "hlt"
    /\ UNCHANGED <<iflag, start, ticksToWait, ticks, speakerVars, pending, recent, request, elapsed>>

\* _hlt.  With interrupts disabled before it, sti keeps them off until the
\* processor has stopped.
Hlt ==
    /\ pc = "hlt" /\ Uninterrupted
    /\ pc' = "halted"
    /\ iflag' = TRUE
    /\ recent' = FALSE
    /\ UNCHANGED <<start, ticksToWait, ticks, speakerVars, pending, request, elapsed>>

\* sleep returns, and beep clears bit 0 and leaves bit 1 set.
BeepEnd ==
    /\ pc = "test" /\ Expired /\ Uninterrupted
    /\ gate' = FALSE
    /\ iflag' = TRUE
    /\ pc' = "user"
    /\ recent' = FALSE
    /\ UNCHANGED <<ticks, start, ticksToWait, counter, data, pending, request, elapsed>>

-----------------------------------------------------------------------------
(* Interrupts *)

Resume == pc' = IF pc = "halted" THEN "test" ELSE pc

timer_handler == ticks' = (ticks + 1) % TickRange

\* Mutant of Irq0: the timer is left masked at the PIC.
Irq0Masked == FALSE /\ UNCHANGED vars

Irq0 ==
    /\ iflag /\ pending
    /\ pending' = FALSE
    /\ timer_handler
    /\ Resume
    /\ UNCHANGED <<iflag, start, ticksToWait, speakerVars, recent, request, elapsed>>

\* A key wakes the processor too, and counts for nothing here.
Irq1 ==
    /\ iflag
    /\ Resume
    /\ UNCHANGED <<iflag, start, ticksToWait, ticks, speakerVars, pending, recent, request, elapsed>>

\* The timer: 55 ms lie between two pulses, so a request is served before the
\* next one, and sleep never sees two pulses without stopping in between.
Pulse ==
    /\ ~pending
    /\ pc \in {"user", "halted"} \/ ~recent
    /\ pending' = TRUE
    /\ recent' = TRUE
    /\ elapsed' = IF pc = "user" THEN elapsed ELSE elapsed + 1
    /\ UNCHANGED <<sleepVars, ticks, speakerVars, request>>

-----------------------------------------------------------------------------
Init ==
    /\ pc = "user" /\ iflag = TRUE
    /\ ticks = 0 /\ start = 0 /\ ticksToWait = 0
    /\ counter = 0 /\ gate = FALSE /\ data = FALSE
    /\ pending = FALSE /\ recent = FALSE
    /\ request = [frequency |-> 0, ms |-> 0]
    /\ elapsed = 0

Call == \E f \in Frequencies, ms \in Durations : BeepStart(f, ms) \/ BeepIgnored(f, ms)

SleepStep == SleepMore \/ Hlt \/ BeepEnd

Next ==
    \/ Call
    \/ SleepStep
    \/ Irq0
    \/ Irq1
    \/ Pulse

Spec == Init /\ [][Next]_vars

\* The processor runs, the timer does not stop, and its interrupt is taken.
Fairness ==
    /\ WF_vars(SleepStep)
    /\ WF_vars(Pulse)
    /\ WF_vars(Irq0)

FairSpec == Spec /\ Fairness

-----------------------------------------------------------------------------
(* Properties *)

TypeOK ==
    /\ pc \in {"user", "test", "hlt", "halted"}
    /\ iflag \in BOOLEAN /\ gate \in BOOLEAN /\ data \in BOOLEAN
    /\ pending \in BOOLEAN /\ recent \in BOOLEAN
    /\ ticks \in 0 .. TickRange - 1 /\ start \in 0 .. TickRange - 1
    /\ ticksToWait \in Nat /\ elapsed \in Nat
    /\ counter \in Word

\* While the speaker is on it sounds the frequency asked for: the sixteen bits
\* the PIT holds are the whole divisor, at both ends of the accepted range.
ToneIsRight ==
    gate => counter * request.frequency \in PIT_FREQUENCY - request.frequency + 1 .. PIT_FREQUENCY

\* A beep ends within one tick of its duration, whatever interrupts sleep and
\* even if ticks wraps meanwhile: part of a tick is lost to rounding, and a tick
\* is added when the last one falls between sleep's test and its hlt.
BeepLasts ==
    [][BeepEnd => /\ 1000 * elapsed > 18 * request.ms - 1000
                  /\ 1000 * elapsed <= 18 * request.ms + 1000]_vars

\* Every beep ends: the tick that falls between sleep's test and its hlt is made
\* up for by the next one, and the speaker is turned off.
BeepEnds == gate ~> ~gate

\* What the comment of sleep says (time.h:35-38): it suspends execution for the
\* specified number of seconds.
SleepTakesSeconds == [][BeepEnd => elapsed >= 18 * ticksToWait]_vars

=============================================================================
