------------------------------- MODULE Pongis --------------------------------
(***************************************************************************)
(* The game as a state machine: the menu and the instructions of           *)
(* pongis_lib.c, the phases of pongis.c, load_level of level.c, and the     *)
(* keyboard, which types into the kernel's buffer at any moment.  What the *)
(* bodies do in a frame is left to module Physics: here a frame chooses    *)
(* who touches the ball and whether the ball ends in the hole.  The ball    *)
(* starts at rest outside the hole (LevelsArePlayable), so a ball that      *)
(* nobody has touched in the level does not get there.                     *)
(***************************************************************************)
EXTENDS Levels

CONSTANTS
    LevelCount,     \* how many levels of the table are played
    Keys,           \* of "w", "s", "enter", "c" and others
    MaxKeys,        \* bound on the keys that wait
    MaxTouches      \* bound on the touches of a level

ASSUME PongisAssumption ==
    /\ LevelCount \in 1..level_count
    /\ MaxKeys \in Nat \ {0} /\ MaxTouches \in Nat \ {0}

VARIABLES
    pc,             \* "shell", "menu", "instructions", or the place in a frame
    queue,          \* the keys that wait, each with the picture it was typed at
    picture,        \* what the screen shows
    counter,        \* the number in the box of the field
    winner,         \* the player named in the message
    selected,       \* the option of the menu
    numPlayers, running, phase, level,
    touches, prevTouches, lastTouch,
    lcDisplayed, acDisplayed, counterDisplayed,
    toucher,        \* who touched the ball last in this level, 0 for nobody
    ticks           \* timer interrupts, modulo two

menuVars == <<selected>>
gameVars == <<numPlayers, running, phase, level, touches, prevTouches, lastTouch, toucher>>
flagVars == <<lcDisplayed, acDisplayed, counterDisplayed>>
screenVars == <<picture, counter, winner>>
vars == <<pc, queue, screenVars, menuVars, gameVars, flagVars, ticks>>

menuCount == 4
Garbage == 3        \* what the stack held
NoCounter == -1     \* a cleared screen

TakeKey == queue' = Tail(queue)
HeadKey == Head(queue).key

-----------------------------------------------------------------------------
(* Menu *)

Launch ==
    /\ pc = "shell"
    /\ pc' = "menu" /\ selected' = 0 /\ picture' = "menu"
    /\ UNCHANGED <<queue, counter, winner, gameVars, flagVars, ticks>>

\* Any key at the prompt.
ShellKey ==
    /\ pc = "shell" /\ queue # <<>>
    /\ TakeKey
    /\ UNCHANGED <<pc, screenVars, menuVars, gameVars, flagVars, ticks>>

MenuMove ==
    /\ pc = "menu" /\ queue # <<>> /\ HeadKey # "enter"
    /\ TakeKey
    /\ selected' = CASE HeadKey = "w" -> (selected + menuCount - 1) % menuCount
                     [] HeadKey = "s" -> (selected + 1) % menuCount
                     [] OTHER -> selected
    /\ UNCHANGED <<pc, screenVars, gameVars, flagVars, ticks>>

\* load_level: the parts of the state it sets; it leaves lastTouch alone.
load_level(index) ==
    /\ level' = index
    /\ touches' = 0 /\ prevTouches' = 0
    /\ toucher' = 0

\* pongis up to its loop: the locals are set, the field is drawn.
StartGame ==
    /\ pc = "menu" /\ queue # <<>> /\ HeadKey = "enter" /\ selected \in {0, 1}
    /\ TakeKey
    /\ load_level(0)
    /\ lastTouch' = Garbage
    /\ numPlayers' = selected + 1 /\ running' = TRUE /\ phase' = "playing"
    /\ lcDisplayed' = FALSE /\ acDisplayed' = FALSE /\ counterDisplayed' = FALSE
    /\ picture' = "field" /\ counter' = NoCounter /\ winner' = 0
    /\ pc' = "input"
    /\ UNCHANGED <<menuVars, ticks>>

OpenInstructions ==
    /\ pc = "menu" /\ queue # <<>> /\ HeadKey = "enter" /\ selected = 2
    /\ queue' = <<>>
    /\ picture' = "instructions" /\ pc' = "instructions"
    /\ UNCHANGED <<counter, winner, menuVars, gameVars, flagVars, ticks>>

\* startPongisMenu draws the menu anew, with the first option selected.
ReadInstructions ==
    /\ pc = "instructions" /\ queue # <<>>
    /\ TakeKey
    /\ IF HeadKey = "c"
       THEN pc' = "menu" /\ selected' = 0 /\ picture' = "menu"
       ELSE UNCHANGED <<pc, selected, picture>>
    /\ UNCHANGED <<counter, winner, gameVars, flagVars, ticks>>

BackToShell ==
    /\ pc = "menu" /\ queue # <<>> /\ HeadKey = "enter" /\ selected = 3
    /\ TakeKey
    /\ pc' = "shell" /\ picture' = "shell"
    /\ UNCHANGED <<counter, winner, menuVars, gameVars, flagVars, ticks>>

-----------------------------------------------------------------------------
(* A frame *)

AfterInput == pc' = IF phase' = "playing" THEN "physics" ELSE "render"

NoInput ==
    /\ pc = "input" /\ queue = <<>>
    /\ UNCHANGED <<queue, screenVars, menuVars, gameVars, flagVars, ticks>>
    /\ AfterInput

NextLevel ==
    /\ pc = "input" /\ queue # <<>> /\ phase = "complete" /\ HeadKey = "enter"
    /\ TakeKey
    /\ load_level(level + 1)
    /\ picture' = "field" /\ counter' = NoCounter /\ winner' = 0
    /\ lcDisplayed' = FALSE /\ phase' = "playing"
    /\ AfterInput
    /\ UNCHANGED <<menuVars, numPlayers, running, lastTouch, acDisplayed, counterDisplayed, ticks>>

\* Mutant of Quit: the last message only waits for ENTER.
QuitNotAtEnd ==
    /\ pc = "input" /\ queue # <<>> /\ HeadKey = "c"
    /\ TakeKey
    /\ running' = (running /\ phase = "all")
    /\ touches' = IF phase = "complete" THEN 0 ELSE touches
    /\ UNCHANGED <<screenVars, menuVars, numPlayers, phase, level, prevTouches, lastTouch, toucher, flagVars, ticks>>
    /\ AfterInput

\* The frame in which the player quits still runs to its end.
Quit ==
    /\ pc = "input" /\ queue # <<>> /\ HeadKey = "c"
    /\ TakeKey
    /\ running' = FALSE
    /\ touches' = IF phase = "complete" THEN 0 ELSE touches
    /\ UNCHANGED <<screenVars, menuVars, numPlayers, phase, level, prevTouches, lastTouch, toucher, flagVars, ticks>>
    /\ AfterInput

OtherInput ==
    /\ pc = "input" /\ queue # <<>> /\ HeadKey # "c" /\ ~(HeadKey = "enter" /\ phase = "complete")
    /\ TakeKey
    /\ touches' = IF phase = "complete" THEN 0 ELSE touches
    /\ UNCHANGED <<screenVars, menuVars, numPlayers, running, phase, level, prevTouches, lastTouch, toucher, flagVars, ticks>>
    /\ AfterInput

\* Player 1 is tested before player 2.
Touches == {<<>>, <<1>>} \union (IF numPlayers = 2 THEN {<<2>>, <<1, 2>>} ELSE {})

\* Mutant of Touch: the player tested first keeps the ball.
TouchFirst(t) ==
    /\ touches' = touches + Len(t)
    /\ lastTouch' = IF t = <<>> THEN lastTouch ELSE t[1]
    /\ toucher' = IF t = <<>> THEN toucher ELSE t[Len(t)]

Touch(t) ==
    /\ touches' = touches + Len(t)
    /\ lastTouch' = IF t = <<>> THEN lastTouch ELSE t[Len(t)]
    /\ toucher' = IF t = <<>> THEN toucher ELSE t[Len(t)]

\* update_physics and check_ball_in_hole; a ball in the hole clears the screen.
UpdatePhysics(t, inHole) ==
    /\ pc = "physics"
    /\ touches + Len(t) <= MaxTouches
    /\ Touch(t)
    /\ inHole => toucher' # 0
    /\ IF inHole THEN pc' = "drain" /\ picture' = "blank" ELSE pc' = "render" /\ picture' = picture
    /\ UNCHANGED <<queue, counter, winner, menuVars, numPlayers, running, phase, level, prevTouches, flagVars, ticks>>

DrainKey ==
    /\ pc = "drain" /\ queue # <<>>
    /\ TakeKey
    /\ UNCHANGED <<pc, screenVars, menuVars, gameVars, flagVars, ticks>>

\* Mutant of LevelEnds: keys that wait are left for the message.
LevelEndsUndrained ==
    /\ pc = "drain"
    /\ phase' = IF level + 1 < LevelCount THEN "complete" ELSE "all"
    /\ pc' = "render"
    /\ UNCHANGED <<queue, screenVars, menuVars, numPlayers, running, level, touches, prevTouches, lastTouch, toucher, flagVars, ticks>>

\* Mutant of LevelEnds: nothing for the last level.
LevelEndsButLast ==
    /\ pc = "drain" /\ queue = <<>>
    /\ phase' = IF level + 1 < LevelCount THEN "complete" ELSE phase
    /\ pc' = "render"
    /\ UNCHANGED <<queue, screenVars, menuVars, numPlayers, running, level, touches, prevTouches, lastTouch, toucher, flagVars, ticks>>

LevelEnds ==
    /\ pc = "drain" /\ queue = <<>>
    /\ phase' = IF level + 1 < LevelCount THEN "complete" ELSE "all"
    /\ pc' = "render"
    /\ UNCHANGED <<queue, screenVars, menuVars, numPlayers, running, level, touches, prevTouches, lastTouch, toucher, flagVars, ticks>>

\* The counter: a zero in a new box, then the count if it has grown.
RenderPlaying ==
    /\ pc = "render" /\ phase = "playing"
    /\ counterDisplayed' = TRUE
    /\ counter' = IF prevTouches < touches THEN touches ELSE IF counterDisplayed THEN counter ELSE 0
    /\ prevTouches' = IF prevTouches < touches THEN touches ELSE prevTouches
    /\ pc' = "tick"
    /\ UNCHANGED <<queue, picture, winner, menuVars, numPlayers, running, phase, level, touches, lastTouch, toucher,
                   lcDisplayed, acDisplayed, ticks>>

\* Mutant of RenderComplete: the flag of the counter is not reset.
RenderCompleteStale ==
    /\ pc = "render" /\ phase = "complete"
    /\ touches' = 0
    /\ IF lcDisplayed
       THEN UNCHANGED <<picture, winner, lcDisplayed, counterDisplayed>>
       ELSE /\ picture' = "complete" /\ winner' = IF numPlayers = 2 THEN lastTouch ELSE 0
            /\ lcDisplayed' = TRUE /\ UNCHANGED counterDisplayed
    /\ pc' = "tick"
    /\ UNCHANGED <<queue, counter, menuVars, numPlayers, running, phase, level, prevTouches, lastTouch, toucher, acDisplayed, ticks>>

RenderComplete ==
    /\ pc = "render" /\ phase = "complete"
    /\ touches' = 0
    /\ IF lcDisplayed
       THEN UNCHANGED <<picture, winner, lcDisplayed, counterDisplayed>>
       ELSE /\ picture' = "complete" /\ winner' = IF numPlayers = 2 THEN lastTouch ELSE 0
            /\ lcDisplayed' = TRUE /\ counterDisplayed' = FALSE
    /\ pc' = "tick"
    /\ UNCHANGED <<queue, counter, menuVars, numPlayers, running, phase, level, prevTouches, lastTouch, toucher, acDisplayed, ticks>>

RenderAllComplete ==
    /\ pc = "render" /\ phase = "all"
    /\ acDisplayed' = TRUE
    /\ picture' = IF acDisplayed THEN picture ELSE "all"
    /\ pc' = "tick"
    /\ UNCHANGED <<queue, counter, winner, menuVars, gameVars, lcDisplayed, counterDisplayed, ticks>>

\* The loop ends after the frame, and pongis_init returns to the shell.
Leave ==
    /\ pc = "leave"
    /\ pc' = "shell" /\ picture' = "shell"
    /\ UNCHANGED <<queue, counter, winner, menuVars, gameVars, flagVars, ticks>>

-----------------------------------------------------------------------------
(* Interrupts *)

\* wait_next_tick: hlt returns after any interrupt.
Wake == pc' = IF pc = "tick" THEN (IF running THEN "input" ELSE "leave") ELSE pc

Timer ==
    /\ pc = "tick"
    /\ ticks' = 1 - ticks
    /\ Wake
    /\ UNCHANGED <<queue, screenVars, menuVars, gameVars, flagVars>>

\* Emptying the buffer takes less than the time between two keys.
TypeKey(k) ==
    /\ Len(queue) < MaxKeys /\ (pc = "drain" => queue = <<>>)
    /\ queue' = Append(queue, [key |-> k, on |-> IF picture \in {"menu", "field"} THEN picture ELSE "other"])
    /\ Wake
    /\ UNCHANGED <<screenVars, menuVars, gameVars, flagVars, ticks>>

-----------------------------------------------------------------------------
Init ==
    /\ pc = "shell" /\ queue = <<>>
    /\ picture = "shell" /\ counter = 0 /\ winner = 0
    /\ selected = 0
    /\ numPlayers = 1 /\ running = FALSE /\ phase = "playing" /\ level = 0
    /\ touches = 0 /\ prevTouches = 0 /\ lastTouch = Garbage /\ toucher = 0
    /\ lcDisplayed = FALSE /\ acDisplayed = FALSE /\ counterDisplayed = FALSE
    /\ ticks = 0

MenuStep ==
    \/ ShellKey \/ MenuMove \/ StartGame \/ OpenInstructions \/ ReadInstructions \/ BackToShell

FrameStep ==
    \/ NoInput \/ NextLevel \/ Quit \/ OtherInput
    \/ \E t \in Touches, inHole \in BOOLEAN : UpdatePhysics(t, inHole)
    \/ DrainKey \/ LevelEnds
    \/ RenderPlaying \/ RenderComplete \/ RenderAllComplete
    \/ Leave

Next == Launch \/ MenuStep \/ FrameStep \/ Timer \/ \E k \in Keys : TypeKey(k)

Spec == Init /\ [][Next]_vars

\* The program runs on and the timer keeps ticking; nobody types fast enough to
\* keep the buffer from being found empty at the end of a level.
FairSpec == Spec /\ WF_vars(MenuStep) /\ WF_vars(FrameStep) /\ WF_vars(Timer) /\ SF_vars(LevelEnds)

-----------------------------------------------------------------------------
(* Properties *)

\* When a frame ends, the screen, the phase and the flags agree: the field with
\* the count of this level, or the message of the level that was completed,
\* or, after the last level only, the message that ends the game.
FrameShowsPhase ==
    pc = "tick" =>
        CASE phase = "playing" -> picture = "field" /\ counter = touches /\ counterDisplayed
          [] phase = "complete" -> picture = "complete" /\ level + 1 < LevelCount
          [] phase = "all" -> picture = "all" /\ level + 1 = LevelCount

\* The player the message names is the one who touched the ball last in the
\* level (Informe, section 6.A.a), never what the stack held.
WinnerTouchedLast == (pc = "tick" /\ picture = "complete" /\ numPlayers = 2) => winner \in {1, 2} /\ winner = toucher

\* No key typed while the ball was in play answers the message of a completed
\* level, and no key typed in the menu closes the instructions.
KeysAnswerWhatWasShown ==
    [][/\ (pc = "input" /\ phase = "complete" /\ Len(queue') < Len(queue)) => Head(queue).on # "field"
       /\ (pc = "instructions" /\ Len(queue') < Len(queue)) => Head(queue).on # "menu"]_vars

\* The levels the game goes through can be played.
LevelsArePlayable == Playable(LevelAt(level))

\* Whoever presses 'c' gets back to the shell, from every phase, unless the
\* key waits behind others or falls where the level ends.
QuitWorks == (pc = "input" /\ queue # <<>> /\ Head(queue).key = "c") ~> pc = "shell"

\* A completed level is announced: a ball in the hole leads to a message.
HoleIsAnnounced == (pc = "drain") ~> (picture \in {"complete", "all"})
=============================================================================
