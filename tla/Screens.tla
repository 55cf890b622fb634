------------------------------- MODULE Screens -------------------------------
(***************************************************************************)
(* The screens the user programs put together from console calls and       *)
(* shapes: the welcome screen (libc.c), the help (commands.c), and the     *)
(* menu, the instructions, the messages and the counter of the game.       *)
(* A screen is a script of calls, run a character at a time on the cursor  *)
(* of module Console, from each zoom the program can be started with.      *)
(***************************************************************************)
EXTENDS Console

CONSTANT UI, OFFSET     \* the band of the game's counter

\* What the layouts need of the mode: the size they were made for or a larger
\* one, whose last dot of 64 pixels is not cut, and the zooms they ask for.
ASSUME ScreensAssumption ==
    /\ Width >= 1024 /\ Height >= 768 /\ Height <= Width /\ Width % 128 \notin 1..63
    /\ CHAR_WIDTH = 8 /\ CHAR_HEIGHT = 16
    /\ ZOOM_MIN <= 2 /\ ZOOM_MAX \in 6..10
    /\ UI \in Nat /\ OFFSET \in Nat /\ UI <= Height
    /\ Letters # {}

VARIABLES
    script,     \* which screen
    pc, ch,     \* the call, and the characters of its text that are written
    textY,      \* where the text began
    top,        \* the top of the text on the screen
    scrolled    \* the screen has scrolled since it was cleared

vars == <<console, script, pc, ch, textY, top, scrolled>>

-----------------------------------------------------------------------------
(* Calls *)

Text(s) == <<[call |-> "text", text |-> s]>>
Break(n) == [i \in 1..n |-> [call |-> "break"]]
Line(s) == Text(s) \o Break(1)
\* Line(texts[1]) \o Line(texts[2]) \o ...
Lines(texts) == [k \in 1..2 * Len(texts) |-> Line(texts[(k + 1) \div 2])[2 - (k % 2)]]
set_zoom(z) == <<[call |-> "zoom", zoom |-> z]>>
set_cursor(x, y) == <<[call |-> "cursor", x |-> x, y |-> y]>>
clear_screen == <<[call |-> "clear"]>>
Rect(x, y, w, h) == [call |-> "rectangle", x |-> x, y |-> y, w |-> w, h |-> h]
Circle(x, y, r) == [call |-> "circle", x |-> x, y |-> y, r |-> r]

-----------------------------------------------------------------------------
(* Screens *)

CenterX == Width \div 2
CenterY == Height \div 2
\* Mutant of Radius: in proportion to the width.
RadiusWide == Width \div 2
Radius == Height \div 4

draw_smile ==
    LET eyeHeight == Radius \div 3
        eyeWidth == Radius \div 10
        m == Radius \div 15
        corner(dx, dy) == Rect(CenterX + dx, CenterY + 5 * m - dy * m, m, m)
    IN  << Circle(CenterX, CenterY, Radius), Circle(CenterX, CenterY, Radius - 15),
           Rect(CenterX - 3 * eyeWidth, CenterY - eyeHeight, eyeWidth, eyeHeight),
           Rect(CenterX + 2 * eyeWidth, CenterY - eyeHeight, eyeWidth, eyeHeight),
           Rect(CenterX - Radius \div 2, CenterY + 5 * m, Radius, m),
           corner(-(Radius \div 2) - 2 * m, 2), corner(-(Radius \div 2) - m, 1),
           corner(Radius \div 2 + m, 2), corner(Radius \div 2, 1) >>

Thick == 10
Band == 50

Borders ==
    << Rect(0, 0, Width, Band), Rect(0, Height - Band, Width, Band),
       Rect(0, Band, Thick, Height - 2 * Band), Rect(Width - Thick, Band, Thick, Height - 2 * Band),
       Rect(Thick, Band, Thick, Height - 2 * Band), Rect(Width - 2 * Thick, Band, Thick, Height - 2 * Band),
       Rect(Thick, Band - Thick, Width - 2 * Thick, Thick), Rect(Thick, Height - Band, Width - 2 * Thick, Thick) >>

\* Every second step of ten pixels, and every second one of sixty four, twice.
Dotted ==
    LET small == (Width - 2 * Thick - 1) \div 20
        large == (Width - 1) \div 128 + 1
    IN  [k \in 1..2 * small |->
            Rect(20 * ((k + 1) \div 2), IF k % 2 = 1 THEN Band - Thick ELSE Height - Band, 10, 10)]
        \o [k \in 1..2 * large |->
            Rect(128 * ((k - 1) \div 2), IF k % 2 = 1 THEN 0 ELSE Height - Band + Thick, 64, Band - Thick)]

WelcomeLines ==
    <<"ARQUITECTURA DE COMPUTADORAS - ITBA", "Trabajo Practico Especial",
      "Creado por: Pablo Gorostiaga, Tiago Heras y Amador Vallejo", "Presione 'c' para continuar...">>

WelcomeTexts ==
    set_zoom(3)
    \o set_cursor(Width \div 12, Height \div 14) \o Text(WelcomeLines[1])
    \o set_cursor(Width \div 6, Height \div 8) \o Text(WelcomeLines[2])
    \o set_zoom(2)
    \o set_cursor(Width \div 20, (Height * 82) \div 100) \o Line(WelcomeLines[3])
    \o set_cursor(Width \div 20, (Height * 89) \div 100) \o Text(WelcomeLines[4])

draw_welcome == clear_screen \o Borders \o Dotted \o draw_smile \o WelcomeTexts

\* The tab of the last line draws an empty cell.
HelpLines ==
    <<"Available commands:",
      "  help          - Show this help message",
      "  time          - Display current system date and time",
      "  regs          - Show CPU registers",
      "  pongis        - Launch the Pong-Golf mini-game",
      "  div0          - Trigger a divide-by-zero exception",
      "  invalidOp     - Trigger an invalid-opcode exception",
      "  zoom <NUMBER> - Set text zoom level (1-10)",
      "  exit          - Exit the shell">>
HelpEnd == "  Press 'c' to exit window"

cmd_help ==
    clear_screen \o set_zoom(2) \o set_cursor(0, 0) \o Lines(HelpLines) \o Break(1) \o Text(HelpEnd)

MenuLines ==
    <<"       PONGIS GOLF", "  Jugar (1 jugador)        <--", "  Jugar (2 jugadores)    ",
      "  Instrucciones          ", "  Volver a la Shell      ">>

\* Title and options, each with an empty line below.
Menu(optionZoom) ==
    clear_screen \o set_zoom(5) \o Line(MenuLines[1]) \o Break(1) \o set_zoom(optionZoom)
    \o Line(MenuLines[2]) \o Break(1) \o Line(MenuLines[3]) \o Break(1)
    \o Line(MenuLines[4]) \o Break(1) \o Line(MenuLines[5]) \o Break(1)

\* Mutant of drawMainMenu: the options in the zoom of the title.
drawMainMenuLarge == Menu(5)

drawMainMenu == Menu(3)

InstructionLines == <<"      INSTRUCCIONES", " Presiona 'c' para volver al menu principal.">>
FirstKeys ==
    <<" Jugador 1:", "   W    -> Arriba", "   S    -> Abajo", "   A    -> Izquierda", "   D    -> Derecha">>
SecondKeys ==
    <<" Jugador 2:", "   Flecha Arriba    -> Arriba", "   Flecha Abajo     -> Abajo",
      "   Flecha Izquierda -> Izquierda", "   Flecha Derecha   -> Derecha">>

drawInstructions ==
    clear_screen \o set_zoom(4) \o Line(InstructionLines[1]) \o Break(1) \o set_zoom(2)
    \o Lines(FirstKeys) \o Break(1) \o Lines(SecondKeys) \o Break(1) \o Line(InstructionLines[2])

CompleteLines == <<"  Level Complete!", "Press ENTER for next level or 'c' to quit", "Player 1 wins!">>

render_level_complete ==
    clear_screen \o Break(4) \o set_zoom(5) \o Line(CompleteLines[1]) \o Break(1)
    \o set_zoom(3) \o Line(CompleteLines[2]) \o Line(CompleteLines[3])

AllCompleteLines == <<"All levels complete!", "Press 'c' to return to shell">>

render_all_levels_complete ==
    clear_screen \o Break(4) \o set_zoom(6) \o Line(AllCompleteLines[1]) \o Break(1)
    \o set_zoom(4) \o Line(AllCompleteLines[2])

\* A count of three digits.
Count == "Touches: 100"
draw_counter == set_cursor(10, 10) \o set_zoom(2) \o set_cursor(20, 725) \o Text(Count)

\* draw_counter_box and two counts, over the field.  The box is OFFSET lines too
\* low: vd_draw_rectangle cuts it.
counter ==
    clear_screen \o set_cursor(10, 10) \o set_zoom(4)
    \o << Rect(0, Height - UI + OFFSET, Width, UI),
          Rect(10, Height - UI + OFFSET + 10, Width - 20, UI - 20) >>
    \o draw_counter \o draw_counter

Script ==
    [welcome |-> draw_welcome, help |-> cmd_help, menu |-> drawMainMenu, instructions |-> drawInstructions,
     complete |-> render_level_complete, all |-> render_all_levels_complete, counter |-> counter]

\* The zoom each is started with: the user's for help and menu.
StartZooms ==
    [welcome |-> {InitialZoom}, help |-> Zoom, menu |-> Zoom, instructions |-> {3},
     complete |-> {2}, all |-> {2}, counter |-> {3}]

\* The lengths the layouts count on, from the largest zoom to the smallest.
ASSUME TextsAssumption ==
    /\ \A texts \in {WelcomeLines, HelpLines, MenuLines, InstructionLines, FirstKeys, SecondKeys,
                     CompleteLines, AllCompleteLines, <<HelpEnd, Count>>} :
           texts \in Seq(STRING) /\ \A i \in DOMAIN texts : Len(texts[i]) \in 1..58
    /\ Len(AllCompleteLines[1]) <= 20
    /\ Len(MenuLines[1]) <= 24 /\ Len(CompleteLines[1]) <= 24
    /\ Len(InstructionLines[1]) <= 31 /\ Len(AllCompleteLines[2]) <= 31
    /\ \A i \in 2..5 : Len(MenuLines[i]) <= 41
    /\ \A i \in 2..3 : Len(CompleteLines[i]) <= 41
    /\ Len(WelcomeLines[1]) <= 35 /\ Len(WelcomeLines[2]) <= 33

-----------------------------------------------------------------------------
(* Running a script *)

Glyph == CHOOSE c \in Letters : TRUE

Running == pc <= Len(Script[script])
Call == Script[script][pc]

NextCall == pc' = pc + 1 /\ ch' = 0

\* Whether the character makes the screen scroll, and the text on it with it.
Scrolls(c) == LET s == Wrapped(Moved(console, c)) IN s.y + CellH(console) > Height

ScrollFor(c) ==
    /\ scrolled' = (scrolled \/ Scrolls(c))
    /\ top' = (IF c = Glyph /\ console.y < top THEN console.y ELSE top) - (IF Scrolls(c) THEN CellH(console) ELSE 0)

Character ==
    /\ Running /\ Call.call = "text"
    /\ Write(Glyph) /\ ScrollFor(Glyph)
    /\ textY' = IF ch = 0 THEN console.y ELSE textY
    /\ IF ch + 1 < Len(Call.text) THEN ch' = ch + 1 /\ pc' = pc ELSE NextCall
    /\ UNCHANGED script

LineBreak ==
    /\ Running /\ Call.call = "break"
    /\ Write(NewLine) /\ ScrollFor(NewLine)
    /\ NextCall /\ UNCHANGED <<script, textY>>

ChangeZoom ==
    /\ Running /\ Call.call = "zoom"
    /\ SetZoom(Call.zoom) /\ ScrollFor(NewLine)
    /\ NextCall /\ UNCHANGED <<script, textY>>

PlaceCursor ==
    /\ Running /\ Call.call = "cursor"
    /\ SetCursor(Call.x, Call.y)
    /\ NextCall /\ UNCHANGED <<script, textY, top, scrolled>>

Wipe ==
    /\ Running /\ Call.call = "clear"
    /\ ClearScreen
    /\ top' = Height /\ scrolled' = FALSE
    /\ NextCall /\ UNCHANGED <<script, textY>>

DrawShape ==
    /\ Running /\ Call.call \in {"rectangle", "circle"}
    /\ NextCall /\ UNCHANGED <<console, script, textY, top, scrolled>>

ScreensInit ==
    /\ script \in DOMAIN Script
    /\ console \in {[x |-> 0, y |-> 0, zoom |-> z, fb |-> [o \in FrameBuffer |-> Blank]] : z \in StartZooms[script]}
    /\ pc = 1 /\ ch = 0 /\ textY = 0 /\ top = Height /\ scrolled = FALSE

ScreensNext == Character \/ LineBreak \/ ChangeZoom \/ PlaceCursor \/ Wipe \/ DrawShape

ScreensSpec == ScreensInit /\ [][ScreensNext]_vars

-----------------------------------------------------------------------------
(* Properties *)

\* No text of a screen runs over the right edge into the next line.
TextsKeepTheirLine == (Running /\ Call.call = "text" /\ ch > 0) => console.y = textY

\* Whatever zoom the user had, no line of a screen has scrolled away when it
\* is complete.
WholeScreenVisible == top >= 0

\* The welcome picture and the field of the game are never moved by the text
\* written over them.
PicturesStayStill == script \in {"welcome", "counter"} => ~scrolled

\* Every shape but the counter's box lies on the screen as a whole: none is cut,
\* and none is dropped for a corner off the screen.
ShapesFit ==
    Running =>
        CASE Call.call = "rectangle" ->
                Call.x >= 0 /\ Call.y >= 0 /\ Call.x + Call.w <= Width
                /\ (Call.y + Call.h <= Height \/ script = "counter")
          [] Call.call = "circle" ->
                Call.x - Call.r >= 0 /\ Call.y - Call.r >= 0 /\ Call.x + Call.r < Width /\ Call.y + Call.r < Height
          [] OTHER -> TRUE

\* The welcome texts lie inside the frame and off the face.
WelcomeIsReadable ==
    (script = "welcome" /\ Running /\ Call.call = "text") =>
        /\ console.x >= 2 * Thick /\ console.x + CellW(console) <= Width - 2 * Thick
        /\ console.y >= Band /\ console.y + CellH(console) <= Height - Band
        /\ console.y + CellH(console) <= CenterY - Radius \/ console.y > CenterY + Radius

\* Whoever opens a screen, at whatever zoom, can read all its text: no line runs
\* over the edge, and none has scrolled away when the screen is complete.
TextsAreSeen == TypeOK /\ TextsKeepTheirLine /\ WholeScreenVisible

\* The pictures and the texts on them keep clear of each other: no text moves
\* the picture below it, no shape but the counter's box is cut or dropped, and
\* the welcome texts lie inside the frame and off the face.
PicturesAreWhole == PicturesStayStill /\ ShapesFit /\ WelcomeIsReadable
=============================================================================
