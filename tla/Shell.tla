-------------------------------- MODULE Shell --------------------------------
(***************************************************************************)
(* The user program (Userland/_loader.c, shell.c, commands.c): it reads a  *)
(* line, runs the command it names and prompts again; an exception starts  *)
(* it again from its first instruction.                                    *)
(*                                                                         *)
(* The keyboard is a queue of characters.  What is shown, the echo of the  *)
(* line included, is left out, except for the zoom, which the help, the    *)
(* welcome and the game change.                                            *)
(***************************************************************************)
EXTENDS Integers, Sequences, SequencesExt

CONSTANTS
    MAX_CMD_LENGTH,   \* 256
    Letters,          \* printable characters, with the digits and C, not the three below
    Digit,            \* the value of each digit
    NewLine, Backspace, Nul,
    C,                \* the letter that leaves a screen
    Word,             \* the name of each command, zoom's with its space
    ZOOM_MIN, ZOOM_MAX,
    IntRange,         \* 2^32
    MaxKeys           \* bounds the keys that wait

Commands == {"help", "time", "clear", "regs", "div0", "invalidOp", "exit", "pongis", "zoom"}

VARIABLES
    pc,           \* where the user program is
    screen,       \* the screen hltUntil_c waits on
    command, len, \* the buffer of the line
    first_run,    \* in .data: not cleared by a restart
    prev_zoom,    \* what help and pongis saved
    zoom,         \* the video driver's
    kbd,          \* characters that wait in the keyboard buffer
    line,         \* history: the line as typed and corrected
    userZoom,     \* history: the last zoom the user asked for
    welcomes      \* history: how often the welcome was shown

buffer == <<command, len>>
ghosts == <<line, userZoom, welcomes>>
vars == <<pc, screen, buffer, first_run, prev_zoom, zoom, kbd, ghosts>>

Cells == 0..(MAX_CMD_LENGTH - 1)

\* What strcmp and strncmp read: the buffer up to the first NUL.
CString(cells) ==
    SelectInSubSeq([i \in 1..MAX_CMD_LENGTH |-> cells[i - 1]], 1, MAX_CMD_LENGTH, LAMBDA x : x = Nul)
Text(cells) == [i \in 1..(CString(cells) - 1) |-> cells[i - 1]]

----------------------------------------------------------------------------
(* Starting, and waiting for 'c'.                                          *)

\* _start and the head of shell(): the welcome, with the zoom it leaves, on the
\* first run only.
Start ==
    /\ pc = "start"
    /\ IF first_run = 1
       THEN /\ first_run' = 0 /\ zoom' = 2 /\ welcomes' = welcomes + 1
            /\ pc' = "getc" /\ screen' = "welcome"
       ELSE pc' = "prompt" /\ UNCHANGED <<first_run, zoom, welcomes, screen>>
    /\ UNCHANGED <<buffer, prev_zoom, kbd, line, userZoom>>

\* hltUntil_c reads a character: with 'c' the caller goes on, which after help
\* means the zoom it saved...
UntilC ==
    /\ pc = "getc" /\ kbd # <<>>
    /\ kbd' = Tail(kbd)
    /\ IF Head(kbd) = C
       THEN pc' = "prompt" /\ zoom' = IF screen = "help" THEN prev_zoom ELSE zoom
       ELSE pc' = "hlt" /\ UNCHANGED zoom
    /\ UNCHANGED <<screen, buffer, first_run, prev_zoom, ghosts>>

\* Mutant of Wake: only a key that comes now wakes the processor.
WakeByKey ==
    /\ pc = "hlt" /\ kbd = <<>> /\ \E k \in Letters : kbd' = <<k>>
    /\ pc' = "getc"
    /\ UNCHANGED <<screen, buffer, first_run, prev_zoom, zoom, ghosts>>

\* ... with another the processor stops, with keys waiting or not, until the
\* next interrupt, of the timer at the latest.
Wake ==
    /\ pc = "hlt" /\ pc' = "getc"
    /\ UNCHANGED <<screen, buffer, first_run, prev_zoom, zoom, kbd, ghosts>>

----------------------------------------------------------------------------
(* Reading a line.                                                         *)

Prompt ==
    /\ pc = "prompt"
    /\ pc' = "read" /\ len' = 0 /\ line' = <<>>
    /\ UNCHANGED <<screen, command, first_run, prev_zoom, zoom, kbd, userZoom, welcomes>>

\* A printable character is stored.
ReadLetter ==
    /\ pc = "read" /\ len < MAX_CMD_LENGTH - 1
    /\ kbd # <<>> /\ Head(kbd) \in Letters /\ kbd' = Tail(kbd)
    /\ command' = [command EXCEPT ![len] = Head(kbd)] /\ len' = len + 1
    /\ line' = Append(line, Head(kbd))
    /\ UNCHANGED <<pc, screen, first_run, prev_zoom, zoom, userZoom, welcomes>>

\* A backspace takes the last character back; on an empty line it does nothing.
ReadBackspace ==
    /\ pc = "read" /\ len < MAX_CMD_LENGTH - 1
    /\ kbd # <<>> /\ Head(kbd) = Backspace /\ kbd' = Tail(kbd)
    /\ len' = IF len > 0 THEN len - 1 ELSE len
    /\ line' = IF line = <<>> THEN line ELSE Front(line)
    /\ UNCHANGED <<pc, screen, command, first_run, prev_zoom, zoom, userZoom, welcomes>>

\* Mutant of ReadEnd: the line is ended only if nothing ends it already.
ReadEndOnce ==
    /\ pc = "read"
    /\ \/ len >= MAX_CMD_LENGTH - 1 /\ UNCHANGED kbd
       \/ len < MAX_CMD_LENGTH - 1 /\ kbd # <<>> /\ Head(kbd) = NewLine /\ kbd' = Tail(kbd)
    /\ command' = IF \E i \in Cells : command[i] = Nul THEN command ELSE [command EXCEPT ![len] = Nul]
    /\ pc' = "dispatch"
    /\ UNCHANGED <<screen, len, first_run, prev_zoom, zoom, ghosts>>

\* The newline, or a full buffer, ends the line.
ReadEnd ==
    /\ pc = "read"
    /\ \/ len >= MAX_CMD_LENGTH - 1 /\ UNCHANGED kbd
       \/ len < MAX_CMD_LENGTH - 1 /\ kbd # <<>> /\ Head(kbd) = NewLine /\ kbd' = Tail(kbd)
    /\ command' = [command EXCEPT ![len] = Nul]
    /\ pc' = "dispatch"
    /\ UNCHANGED <<screen, len, first_run, prev_zoom, zoom, ghosts>>

----------------------------------------------------------------------------
(* Running the command.                                                    *)

Named(c) == pc = "dispatch" /\ Text(command) = Word[c]
Quiet == UNCHANGED <<buffer, first_run, kbd, line, welcomes>>

\* help, and regs when there is a snapshot, show a screen until 'c'.
RunHelp ==
    /\ Named("help")
    /\ prev_zoom' = zoom /\ zoom' = 2 /\ pc' = "getc" /\ screen' = "help"
    /\ Quiet /\ UNCHANGED userZoom

RunRegs ==
    /\ Named("regs")
    /\ \/ pc' = "getc" /\ screen' = "regs"
       \/ pc' = "prompt" /\ UNCHANGED screen
    /\ Quiet /\ UNCHANGED <<prev_zoom, zoom, userZoom>>

\* time, clear and a name that is none go back to the prompt.
IsZoom == Len(Text(command)) >= Len(Word["zoom"])
          /\ SubSeq(Text(command), 1, Len(Word["zoom"])) = Word["zoom"]
RunShort ==
    /\ pc = "dispatch"
    /\ \/ Named("time") \/ Named("clear")
       \/ ~IsZoom /\ \A c \in Commands : Text(command) # Word[c]
    /\ pc' = "prompt"
    /\ Quiet /\ UNCHANGED <<screen, prev_zoom, zoom, userZoom>>

\* div0 and invalidOp end the user program: after the dump it starts again.
RunException ==
    /\ Named("div0") \/ Named("invalidOp")
    /\ pc' = "start"
    /\ Quiet /\ UNCHANGED <<screen, prev_zoom, zoom, userZoom>>

\* exit powers QEMU off; another machine goes on.
RunExit ==
    /\ Named("exit")
    /\ pc' \in {"off", "prompt"}
    /\ Quiet /\ UNCHANGED <<screen, prev_zoom, zoom, userZoom>>

\* The number in the line that was typed, whatever its size; 0 if it is none.
Number(digits) ==
    LET value[n \in 0..Len(digits)] == IF n = 0 THEN 0 ELSE value[n - 1] * 10 + Digit[digits[n]]
    IN  value[Len(digits)]

Asked ==
    LET digits == SubSeq(line, Len(Word["zoom"]) + 1, Len(line))
    IN  IF ToSet(digits) \subseteq DOMAIN Digit THEN Number(digits) ELSE 0

\* zoom_level: signed arithmetic of an int, which wraps.
Wrapped(n) == LET r == n % IntRange IN IF r >= IntRange \div 2 THEN r - IntRange ELSE r

IntNumber(digits) ==
    LET value[n \in 0..Len(digits)] == IF n = 0 THEN 0 ELSE Wrapped(value[n - 1] * 10 + Digit[digits[n]])
    IN  value[Len(digits)]

\* zoom with an argument of digits sets the zoom, when the driver accepts it;
\* with another it prints the usage.
RunZoom ==
    LET argument == SubSeq(Text(command), Len(Word["zoom"]) + 1, Len(Text(command)))
        level == IntNumber(argument)
    IN
    /\ pc = "dispatch" /\ IsZoom
    /\ zoom' = IF ToSet(argument) \subseteq DOMAIN Digit /\ level \in ZOOM_MIN..ZOOM_MAX
               THEN level ELSE zoom
    /\ userZoom' = IF Asked \in ZOOM_MIN..ZOOM_MAX THEN Asked ELSE userZoom
    /\ pc' = "prompt"
    /\ Quiet /\ UNCHANGED <<screen, prev_zoom>>

\* pongis saves the zoom, plays (which takes keys and sets zooms of its own)
\* and puts it back.
RunPongis ==
    /\ Named("pongis")
    /\ prev_zoom' = zoom /\ pc' = "game"
    /\ Quiet /\ UNCHANGED <<screen, zoom, userZoom>>

GamePlays ==
    /\ pc = "game"
    /\ \/ zoom' \in {2, 4} /\ UNCHANGED kbd
       \/ kbd # <<>> /\ kbd' = Tail(kbd) /\ UNCHANGED zoom
    /\ UNCHANGED <<pc, screen, buffer, first_run, prev_zoom, ghosts>>

\* Mutant of GameEnds: the zoom stays as the game left it.
GameEndsZoomed ==
    /\ pc = "game" /\ pc' = "prompt"
    /\ UNCHANGED <<zoom, screen, buffer, first_run, prev_zoom, kbd, ghosts>>

GameEnds ==
    /\ pc = "game" /\ pc' = "prompt" /\ zoom' = prev_zoom
    /\ UNCHANGED <<screen, buffer, first_run, prev_zoom, kbd, ghosts>>

----------------------------------------------------------------------------
\* Somebody types, at any time.
TypeKey ==
    /\ Len(kbd) < MaxKeys
    /\ \E k \in Letters \cup {NewLine, Backspace} : kbd' = Append(kbd, k)
    /\ UNCHANGED <<pc, screen, buffer, first_run, prev_zoom, zoom, ghosts>>

\* The buffer is on the stack and holds whatever was there.
Init ==
    /\ pc = "start" /\ screen = "none"
    /\ command \in {[i \in Cells |-> x] : x \in {Nul, C}} /\ len = 0
    /\ first_run = 1 /\ prev_zoom = 0 /\ zoom = 2 /\ kbd = <<>>
    /\ line = <<>> /\ userZoom = 2 /\ welcomes = 0

Run == RunHelp \/ RunRegs \/ RunShort \/ RunException \/ RunExit \/ RunZoom \/ RunPongis
Program == Start \/ UntilC \/ Wake \/ Prompt \/ ReadLetter \/ ReadBackspace \/ ReadEnd \/ Run
Next == Program \/ GamePlays \/ GameEnds \/ TypeKey

Spec == Init /\ [][Next]_vars

\* The program runs, and the timer wakes it; how long a game lasts, and whether
\* anybody types, is left to the player.
FairSpec == Spec /\ WF_vars(Program)

----------------------------------------------------------------------------
(* Properties                                                              *)

\* What is compared with the names of the commands is the line as typed and
\* corrected: nothing of an earlier line, of what was taken back, or of what the
\* stack held is taken for part of it (command[len] = 0).
DispatchSeesTheLine == pc = "dispatch" => Text(command) = line

\* At the prompt the zoom is the one the user last asked for: the help, the
\* game, the welcome and an exception put it back (set_zoom(prev_zoom)).  (The
\* numbers typed fit in an int here.)
PromptZoomIsUsers == pc \in {"prompt", "read"} => zoom = userZoom

\* The welcome is shown once, however often an exception starts the program
\* again (first_run).
WelcomeOnce == welcomes <= 1

\* A screen that waits for 'c' is left once 'c' is typed, whatever was typed
\* before it, and an exception comes back to the prompt (hltUntil_c, _start).
BackToPrompt ==
    /\ (pc \in {"getc", "hlt"} /\ C \in ToSet(kbd)) ~> pc = "prompt"
    /\ (pc = "start" /\ first_run = 0) ~> pc = "prompt"
=============================================================================
