------------------------------ MODULE MCKernel -------------------------------
(***************************************************************************)
(* Five parts of the kernel that share no state, each on its own: the ring *)
(* buffer of the keyboard, the entry code, the register dump, the speaker  *)
(* and the clock.  subject, chosen at the start, is the part that runs; the *)
(* others stay where they begin, so the state space is the sum of theirs.  *)
(*                                                                         *)
(* In the run the buffer has four cells, so that full, overrun and         *)
(* wrap-around are a few steps away; the entry code all fifteen registers; *)
(* the dump three entries (first, middle and last of the loop) and five    *)
(* snapshots.  ticks wraps at ten, and beeps have both ends of the         *)
(* accepted range of frequencies, one beyond each, and durations of no     *)
(* tick, two ticks (the exception sound) and seven (the last note of the   *)
(* start sound).  The clock has the 24 hours and fields of twelve values,  *)
(* so that both digits change, and starts at every time of day.            *)
(***************************************************************************)
EXTENDS KeyboardBuffer, RegisterDump

CONSTANTS
    Gens,                                   \* of Context
    TickRange, Frequencies, Durations,      \* of Beep
    Seconds, Minutes                        \* of Clock

ASSUME GensAssumption == Gens # {}

\* ticks does not come round while a beep waits.
ASSUME BeepAssumption ==
    /\ TickRange \in Nat \ {0}
    /\ Frequencies \subseteq Nat /\ Durations \subseteq Nat
    /\ \A ms \in Durations : (ms * 18) \div 1000 + 1 < TickRange

\* Two decimal digits hold a field.
ASSUME ClockAssumption == Seconds \in 1 .. 60 /\ Minutes \in 1 .. 60

VARIABLES
    subject,
    pcC, stepC, iflagC, regs, stack, aux, reg_arrayC, escPressedFlagC, args, expected, callRegs, result,
    tainted,
    pcB, iflagB, ticks, start, ticksToWait, counter, gate, data, pending, recent, request, elapsed,
    now, pcT, sec, min, hour, updated, called

Ctx == INSTANCE Context WITH
    pc <- pcC, step <- stepC, iflag <- iflagC, reg_array <- reg_arrayC, escPressedFlag <- escPressedFlagC

Speaker == INSTANCE Beep WITH
    pc <- pcB, iflag <- iflagB

Rtc == INSTANCE Clock WITH pc <- pcT

contextVars == <<pcC, stepC, iflagC, regs, stack, aux, reg_arrayC, escPressedFlagC, args, expected,
                 callRegs, result, tainted>>
speakerVars == <<pcB, iflagB, ticks, start, ticksToWait, counter, gate, data, pending, recent, request, elapsed>>
clockVars == <<now, pcT, sec, min, hour, updated, called>>
allVars == <<subject, bufVars, vars, contextVars, speakerVars, clockVars>>

KernelInit ==
    /\ subject \in {"buffer", "dump", "context", "speaker", "clock"}
    /\ BufInit /\ Init /\ Ctx!Init /\ Speaker!Init /\ Rtc!Init
    /\ subject # "clock" => now = 0
    /\ subject # "context" => regs = Ctx!Owned("user", CHOOSE g \in Gens : TRUE)

KernelNext ==
    /\ UNCHANGED subject
    /\ \/ subject = "buffer" /\ BufNext /\ UNCHANGED <<vars, contextVars, speakerVars, clockVars>>
       \/ subject = "dump" /\ Next /\ UNCHANGED <<bufVars, contextVars, speakerVars, clockVars>>
       \/ subject = "context" /\ Ctx!Next /\ UNCHANGED <<bufVars, vars, speakerVars, clockVars>>
       \/ subject = "speaker" /\ Speaker!Next /\ UNCHANGED <<bufVars, vars, contextVars, clockVars>>
       \/ subject = "clock" /\ Rtc!Next /\ UNCHANGED <<bufVars, vars, contextVars, speakerVars>>

\* Beep's fairness, where the speaker runs.
KernelSpec ==
    /\ KernelInit /\ [][KernelNext]_allVars
    /\ WF_speakerVars(subject = "speaker" /\ Speaker!SleepStep)
    /\ WF_speakerVars(subject = "speaker" /\ Speaker!Pulse)
    /\ WF_speakerVars(subject = "speaker" /\ Speaker!Irq0)

-----------------------------------------------------------------------------
(* The properties of the instances: the comments are in their modules *)

\* Code finds its registers and its stack as it left them, whatever
\* interrupted it (module Context).  The dump's TypeOK goes with it: it is
\* the type invariant of the state the entry code writes and the dump reads.
CodeGoesOn == TypeOK /\ Ctx!RegistersKept /\ Ctx!StackBalanced
\* sysCallDispatcher receives the caller's arguments (module Context).
ArgumentsArrive == Ctx!ArgumentsArrive
\* A snapshot holds each register behind its label (module Context).
SnapshotIsExact == Ctx!SnapshotIsExact
\* A beep sounds the frequency asked for and ends within one tick of its
\* duration (module Beep).
BeepsAsAsked == [](subject = "speaker" => Speaker!TypeOK /\ Speaker!ToneIsRight) /\ Speaker!BeepLasts
\* Every beep ends (module Beep).
BeepEnds == Speaker!BeepEnds
\* The time shown is that of the zone, and never one before the call (module
\* Clock).
ShownTimeIsRight == [](subject = "clock" => Rtc!TypeOK) /\ Rtc!ErrsForwards /\ Rtc!ShowsZoneTime
=============================================================================
