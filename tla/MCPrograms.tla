------------------------------ MODULE MCPrograms -----------------------------
(***************************************************************************)
(* The user program: the game's phases (module Pongis), the shell, and the *)
(* two halves of a frame of the game that the phases leave out, what the   *)
(* bodies do and what is drawn of them.  They share no state: subject,     *)
(* chosen at the start, is the one that runs.                              *)
(*                                                                         *)
(* All nine levels are played, with two touches a level at most and two    *)
(* keys waiting.  The shell has lines of at most two characters, commands  *)
(* of one or two letters and one key waiting.  The bodies move on a line,  *)
(* at speeds beyond the limits, with no obstacle or one of level 2's; the  *)
(* picture is of circles of radius one and two, with two players on a line *)
(* of eleven pixels or one on a field of seven by five.                    *)
(***************************************************************************)
EXTENDS Pongis

CONSTANTS
    MAX_CMD_LENGTH, Letters, Digit, NewLine, Backspace, Nul, C, Word, ZOOM_MIN, ZOOM_MAX, IntRange,
    ShellKeys,                              \* of module Shell; ShellKeys: MaxKeys
    Courts, BallSpeeds, PlayerSpeeds,       \* of module Physics; Courts: Scenes
    Fields, BallRadius, PlayerRadius        \* of module Field; Fields: Scenes

MCKeys == {"w", "s", "enter", "c"}
MCDigit == [d \in {"0", "3"} |-> IF d = "3" THEN 3 ELSE 0]
MCWord == [help |-> <<"h">>, time |-> <<"h", "h">>, clear |-> <<"c">>, regs |-> <<"h", "p">>,
           div0 |-> <<"p", "p">>, invalidOp |-> <<"p", "h">>, exit |-> <<"c", "c">>,
           pongis |-> <<"p">>, zoom |-> <<"z">>]

ASSUME ShellAssumption ==
    /\ MAX_CMD_LENGTH \in Nat \ {0}
    /\ C \in Letters /\ Letters \intersect {NewLine, Backspace, Nul} = {}
    /\ \A d \in DOMAIN Digit : Digit[d] \in 0..9
    /\ Word["zoom"] \in Seq(Letters)
    /\ ZOOM_MIN \in Nat \ {0} /\ ZOOM_MAX \in Nat
    /\ IntRange \in Nat \ {0}

Point == Int \X Int

\* There are a first player and a ball on every field.
ASSUME FieldsAssumption ==
    /\ BallRadius \in Nat /\ PlayerRadius \in Nat
    /\ \A f \in Fields :
        /\ {"first", "ball"} \subseteq DOMAIN f.start /\ DOMAIN f.start \subseteq {"first", "ball", "second"}
        /\ f.start \in [DOMAIN f.start -> Point]
        /\ f.width \in Nat /\ f.height \in Nat /\ f.hole \in Point /\ f.holeRadius \in Nat
        /\ f.obstacles \in Seq(Point \X Nat) /\ f.places \subseteq Point /\ f.ways \subseteq Point

\* An obstacle is larger than a player and at least a player away from the
\* walls, the centre of the next is at least three radii of a player behind its
\* rim, and no distance in contact is beyond those Physics takes the root of.
ASSUME CourtsAssumption ==
    /\ BallSpeeds \subseteq Int /\ PlayerSpeeds \subseteq Int
    /\ \A c \in Courts :
        /\ c.width \in Nat /\ c.numPlayers \in 1..2 /\ c.obstacles \in Seq(Int \X Nat)
        /\ \A k \in DOMAIN c.obstacles : LET o == c.obstacles[k] IN
            /\ o[2] > PLAYER_RADIUS /\ o[2] + PLAYER_RADIUS <= 120
            /\ o[1] - o[2] >= 2 * PLAYER_RADIUS /\ o[1] + o[2] <= c.width - 2 * PLAYER_RADIUS
            /\ \A j \in DOMAIN c.obstacles \ {k} :
                   c.obstacles[j][1] >= o[1] + (o[2] + 3 * PLAYER_RADIUS) \/ c.obstacles[j][1] <= o[1] - (o[2] + 3 * PLAYER_RADIUS)

VARIABLES
    subject,
    pcS, screenS, command, len, first_run, prev_zoom, zoom, kbd, line, userZoom, welcomes,
    sceneP, ball, players, touch_counter, pushed,
    sceneF, position, pixels, shown

Sh == INSTANCE Shell WITH pc <- pcS, screen <- screenS, MaxKeys <- ShellKeys

OneObstacle == << <<100, 40>> >>

MCCourts == {[width |-> 100, numPlayers |-> 1, obstacles |-> <<>>],
             [width |-> 100, numPlayers |-> 2, obstacles |-> <<>>],
             [width |-> 190, numPlayers |-> 2, obstacles |-> OneObstacle]}
MCBallSpeeds == {-20, 0, 20}
MCPlayerSpeeds == {-9, 0, 9}

Bodies == INSTANCE Physics WITH Scenes <- Courts, scene <- sceneP

\* Two players on a line, and one on a plane.
Line == [width |-> 11, height |-> 1, start |-> [first |-> <<1, 0>>, second |-> <<9, 0>>, ball |-> <<4, 0>>],
         hole |-> <<6, 0>>, holeRadius |-> 2, obstacles |-> << <<<<10, 0>>, 1>> >>,
         places |-> (-1..11) \X {0}, ways |-> {<<-2, 0>>, <<0, 0>>, <<1, 0>>}]
Plane == [width |-> 7, height |-> 5, start |-> [first |-> <<1, 3>>, ball |-> <<0, 0>>],
          hole |-> <<4, 3>>, holeRadius |-> 2, obstacles |-> << <<<<2, 2>>, 0>>, <<<<6, 4>>, 1>> >>,
          places |-> (-1..7) \X (-1..5),
          ways |-> {<<0, 0>>, <<1, 0>>, <<-1, 1>>, <<0, -1>>}]

MCFields == {Line, Plane}

Picture == INSTANCE Field WITH Scenes <- Fields, scene <- sceneF

shellVars == <<pcS, screenS, command, len, first_run, prev_zoom, zoom, kbd, line, userZoom, welcomes>>
bodiesVars == <<sceneP, ball, players, touch_counter, pushed>>
fieldVars == <<sceneF, position, pixels, shown>>
allVars == <<subject, vars, shellVars, bodiesVars, fieldVars>>

\* The ones that do not run begin in one state only.
ProgramsInit ==
    /\ subject \in {"game", "shell", "bodies", "picture"}
    /\ Init
    /\ Sh!Init /\ (subject # "shell" => command[0] = "nul")
    /\ IF subject = "bodies"
       THEN Bodies!Init
       ELSE sceneP = 0 /\ ball = 0 /\ players = 0 /\ touch_counter = 0 /\ pushed = 0
    /\ IF subject = "picture"
       THEN Picture!Init
       ELSE sceneF = 0 /\ position = 0 /\ pixels = 0 /\ shown = FALSE

ProgramsNext ==
    /\ UNCHANGED subject
    /\ \/ subject = "game" /\ Next /\ UNCHANGED <<shellVars, bodiesVars, fieldVars>>
       \/ subject = "shell" /\ Sh!Next /\ UNCHANGED <<vars, bodiesVars, fieldVars>>
       \/ subject = "bodies" /\ Bodies!Next /\ UNCHANGED <<vars, shellVars, fieldVars>>
       \/ subject = "picture" /\ Picture!Next /\ UNCHANGED <<vars, shellVars, bodiesVars>>

\* The fairness of Pongis and of Shell, where they run.
ProgramsSpec ==
    /\ ProgramsInit /\ [][ProgramsNext]_allVars
    /\ WF_vars(subject = "game" /\ MenuStep) /\ WF_vars(subject = "game" /\ FrameStep)
    /\ WF_vars(subject = "game" /\ Timer) /\ SF_vars(subject = "game" /\ LevelEnds)
    /\ WF_shellVars(subject = "shell" /\ Sh!Program)

-----------------------------------------------------------------------------
(* The properties of the instances: the comments are in their modules *)

\* What runs is the command that was typed and corrected (module Shell).
DispatchSeesTheLine == Sh!DispatchSeesTheLine
\* Whatever help, the game or an exception did, the prompt has the zoom the
\* user asked for and the welcome is shown once (module Shell).
PromptIsAsLeft == Sh!PromptZoomIsUsers /\ Sh!WelcomeOnce
\* Screens are left with 'c', exceptions come back to the prompt (module Shell).
BackToPrompt == Sh!BackToPrompt
\* Players and obstacles let nobody pass through them (module Physics).
NobodyPassesThrough == [][subject = "bodies" => Bodies!KeepsSides]_bodiesVars
\* The ball leaves neither the field nor, between two frames, the reach of a
\* hole it goes over (module Physics).
BallIsNeverLost ==
    /\ [](subject = "bodies" => Bodies!BallStaysInSight)
    /\ [][subject = "bodies" => Bodies!ShortStep]_bodiesVars
\* Every pixel of the field shows what is on top there (module Field).
FieldShowsBodies == Picture!FieldShowsBodies
=============================================================================
