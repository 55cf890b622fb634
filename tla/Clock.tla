------------------------------- MODULE Clock --------------------------------
(***************************************************************************)
(* SYS_GET_TIME: getTime of Kernel/time_display.c reads seconds, minutes   *)
(* and hours from the real time clock, one register at a time, and shows   *)
(* them three hours back.  read_RTC waits for the clock to be done with an *)
(* update before each read, but the clock goes on between two reads.       *)
(*                                                                         *)
(* The clock's fields have Seconds and Minutes values, 60 in reality, and  *)
(* the 24 hours.                                                           *)
(***************************************************************************)
EXTENDS Integers

CONSTANTS
    Seconds, Minutes    \* values of a field, at most 60: 0 .. Seconds - 1, 0 .. Minutes - 1

Hours == 24
Zone == 3
Day == Hours * Minutes * Seconds

VARIABLES
    now,            \* the clock, in seconds since midnight
    pc,             \* "user", or the register getTime reads next
    sec, min, hour, \* getTime's variables
    updated,        \* the clock advanced since the call
    called          \* the time of the call

vars == <<now, pc, sec, min, hour, updated, called>>

\* The registers, in BCD.
ToBcd(n) == (n \div 10) * 16 + (n % 10)
RtcSec == ToBcd(now % Seconds)
RtcMin == ToBcd((now \div Seconds) % Minutes)
RtcHour == ToBcd(now \div (Seconds * Minutes))

bcd2char(bcd) == (bcd \div 16) * 10 + (bcd % 16)

\* Mutant of ZoneHour: no edge case.
ZoneHourUnwrapped(h) == (h - Zone) % 256

\* The hour is a uint8_t: the correction must not go below zero.
ZoneHour(h) == IF h < Zone THEN h + Hours - Zone ELSE h - Zone

-----------------------------------------------------------------------------
Call ==
    /\ pc = "user"
    /\ pc' = "sec"
    /\ called' = now
    /\ updated' = FALSE
    /\ UNCHANGED <<now, sec, min, hour>>

ReadSec ==
    /\ pc = "sec"
    /\ pc' = "min"
    /\ sec' = bcd2char(RtcSec)
    /\ UNCHANGED <<now, min, hour, updated, called>>

ReadMin ==
    /\ pc = "min"
    /\ pc' = "hour"
    /\ min' = bcd2char(RtcMin)
    /\ UNCHANGED <<now, sec, hour, updated, called>>

\* The last read, and the zone correction; the eight characters follow.
ReadHour ==
    /\ pc = "hour"
    /\ pc' = "user"
    /\ hour' = ZoneHour(bcd2char(RtcHour))
    /\ UNCHANGED <<now, sec, min, updated, called>>

\* Three reads take far less than a second, so one update at most falls among
\* them.  What the clock does between calls makes no difference: every time of
\* day is an initial one.
Update ==
    /\ pc # "user" /\ ~updated
    /\ now' = (now + 1) % Day
    /\ updated' = TRUE
    /\ UNCHANGED <<pc, sec, min, hour, called>>

Init ==
    /\ now \in 0 .. Day - 1
    /\ pc = "user"
    /\ sec = 0 /\ min = 0 /\ hour = 0
    /\ updated = FALSE
    /\ called = 0

Next ==
    \/ Call
    \/ ReadSec
    \/ ReadMin
    \/ ReadHour
    \/ Update

Spec == Init /\ [][Next]_vars

-----------------------------------------------------------------------------
(* Properties *)

TypeOK ==
    /\ now \in 0 .. Day - 1
    /\ pc \in {"user", "sec", "min", "hour"}
    /\ sec \in 0 .. Seconds - 1
    /\ min \in 0 .. Minutes - 1
    /\ hour \in 0 .. Hours - 1
    /\ updated \in BOOLEAN
    /\ called \in 0 .. Day - 1

\* What is shown, as seconds since the clock's midnight.
Shown == ((((hour' + Zone) % Hours) * Minutes + min') * Seconds + sec') % Day

\* The time shown is never before the call: reading the low fields first can
\* mix an old second with a new minute or hour, which errs towards the future
\* and by at most an hour.
ErrsForwards == [][ReadHour => (Shown - called) % Day <= Minutes * Seconds]_vars

\* Without an update among the reads the time shown is the time of the call,
\* three hours back, in every hour of the day.
ShowsZoneTime == [][ReadHour /\ ~updated => Shown = called]_vars

\* What the comment of getTime says (time_display.h:16-20): it retrieves the
\* current time, so what is shown was the time at some moment of the call.
ShowsCurrentTime == [][ReadHour => Shown \in {called, now}]_vars

=============================================================================
