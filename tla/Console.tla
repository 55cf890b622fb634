------------------------------- MODULE Console -------------------------------
(***************************************************************************)
(* The text console of Kernel/videoDriver.c and the system calls that lead *)
(* to it: SYS_WRITE and SYS_GET_TIME (one vd_put_char after another),      *)
(* SYS_SET_CURSOR, SYS_SET_ZOOM and SYS_CLEAR_SCREEN.  They run with       *)
(* interrupts disabled, so a character is a step.                          *)
(*                                                                         *)
(* The frame buffer is linear, a pixel per offset: what is drawn beyond    *)
(* the right edge appears at the left of the next line of pixels, and what *)
(* is drawn below the last line lands behind the screen.  A pixel is Blank *)
(* or names the glyph and the place in the glyph it shows; the colours of  *)
(* STDOUT and STDERR are left out.  The glyph of the space is empty.       *)
(***************************************************************************)
EXTENDS Integers, Sequences

CONSTANTS
    Width, Height, Pitch,       \* the mode, in pixels
    CHAR_WIDTH, CHAR_HEIGHT,    \* a glyph
    ZOOM_MIN, ZOOM_MAX,
    InitialZoom,
    Letters, Space, NewLine, Backspace,
    Blank,
    Zooms, Cursors,             \* what programs ask for
    InvalidZoomMessage,
    FrameBuffer                 \* the offsets the model keeps

Zoom == ZOOM_MIN..ZOOM_MAX
Char == Letters \union {Space, NewLine, Backspace}

\* A cell fits the screen at every zoom, as 80 x 160 fits 1024 x 768.
ASSUME ConsoleAssumption ==
    /\ Width \in Nat /\ Height \in Nat /\ Pitch \in Nat /\ Width <= Pitch
    /\ CHAR_WIDTH \in Nat \ {0} /\ CHAR_HEIGHT \in Nat \ {0}
    /\ ZOOM_MIN \in Nat \ {0} /\ ZOOM_MAX \in Nat /\ InitialZoom \in Zoom
    /\ \A z \in Zoom : 2 * (CHAR_WIDTH * z) <= Width /\ 2 * (CHAR_HEIGHT * z) <= Height
    /\ Zooms \subseteq Int
    /\ Cursors \subseteq (0..Width) \X (0..Height)
    /\ InvalidZoomMessage \in Seq(Char)
    /\ FrameBuffer \subseteq Nat
    /\ Letters \intersect {Space, NewLine, Backspace} = {}
    /\ Space # NewLine /\ Space # Backspace /\ NewLine # Backspace

\* No program sets the cursor into the corner, where its cell would reach over
\* both edges: one scroll is not enough there.
ASSUME CursorsAssumption ==
    \A p \in Cursors, z \in Zoom :
        p[1] + 2 * (CHAR_WIDTH * z) <= Width \/ p[2] + CHAR_HEIGHT * z <= Height

VARIABLE console    \* cursorX, cursorY, zoom and the frame buffer

CellW(s) == CHAR_WIDTH * s.zoom
CellH(s) == CHAR_HEIGHT * s.zoom

-----------------------------------------------------------------------------
(* Drawing *)

Offset(x, y) == x + y * Pitch

\* vd_put_multpixel draws each dot of the glyph zoom times zoom.
Dot(c, px, py, z) == IF c = Space THEN Blank ELSE <<c, px \div z, py \div z>>

draw_char(s, c) ==
    LET dx(o) == (o - Offset(s.x, s.y)) % Pitch
        dy(o) == (o - Offset(s.x, s.y)) \div Pitch
    IN  [s EXCEPT !.fb = [o \in FrameBuffer |->
            IF o >= Offset(s.x, s.y) /\ dx(o) < CellW(s) /\ dy(o) < CellH(s)
            THEN Dot(c, dx(o), dy(o), s.zoom)
            ELSE s.fb[o]]]

\* Mutant of scroll_screen: the lines at the bottom keep what they showed.
ScrollWithoutClear(s) ==
    [s EXCEPT !.fb = [o \in FrameBuffer |->
        IF o < (Height - CellH(s)) * Pitch THEN s.fb[o + CellH(s) * Pitch] ELSE s.fb[o]]]

scroll_screen(s) ==
    [s EXCEPT !.fb = [o \in FrameBuffer |->
        CASE o < (Height - CellH(s)) * Pitch -> s.fb[o + CellH(s) * Pitch]
          [] o >= Height * Pitch -> s.fb[o]
          [] OTHER -> Blank]]

vd_clear_screen(s) ==
    [s EXCEPT !.fb = [o \in FrameBuffer |-> IF o < Width * Height THEN Blank ELSE s.fb[o]],
              !.x = 0, !.y = 0]

-----------------------------------------------------------------------------
(* vd_put_char *)

Erased(s) ==
    IF s.x >= CellW(s)
    THEN draw_char([s EXCEPT !.x = @ - CellW(s)], Space)
    ELSE IF s.x = 0 /\ s.y >= CellH(s)
    THEN draw_char([s EXCEPT !.x = (Width \div CellW(s)) * CellW(s), !.y = @ - CellH(s)], Space)
    ELSE s

Moved(s, c) ==
    CASE c = NewLine -> [s EXCEPT !.x = 0, !.y = @ + CellH(s)]
      [] c = Backspace -> Erased(s)
      [] OTHER -> [draw_char(s, c) EXCEPT !.x = @ + CellW(s)]

\* Mutant of Wrapped: wraps when the cursor, not the cell, leaves the screen.
WrappedLate(s) == IF s.x >= Width THEN [s EXCEPT !.x = 0, !.y = @ + CellH(s)] ELSE s

Wrapped(s) == IF s.x + CellW(s) > Width THEN [s EXCEPT !.x = 0, !.y = @ + CellH(s)] ELSE s

\* Mutant of Scrolled: the cursor is left on the line that scrolled away.
ScrolledInPlace(s) == IF s.y + CellH(s) > Height THEN scroll_screen(s) ELSE s

Scrolled(s) ==
    IF s.y + CellH(s) > Height THEN [scroll_screen(s) EXCEPT !.y = @ - CellH(s)] ELSE s

vd_put_char(s, c) == Scrolled(Wrapped(Moved(s, c)))

vd_put_string(s, str) ==
    LET put[n \in 0..Len(str)] == IF n = 0 THEN s ELSE vd_put_char(put[n - 1], str[n])
    IN  put[Len(str)]

-----------------------------------------------------------------------------
(* System calls *)

Write(c) == console' = vd_put_char(console, c)

SetCursor(x, y) == console' = [console EXCEPT !.x = x, !.y = y]

ClearScreen == console' = vd_clear_screen(console)

\* The new line is put with the old zoom.
SetZoom(z) ==
    /\ z \in Zoom
    /\ console' = [vd_put_char(console, NewLine) EXCEPT !.zoom = z]

RefuseZoom(z) ==
    /\ z \notin Zoom
    /\ console' = vd_put_string(console, InvalidZoomMessage)

\* vd_init on the state the data segment holds.
Init ==
    console = vd_clear_screen([x |-> 0, y |-> 0, zoom |-> InitialZoom,
                               fb |-> [o \in FrameBuffer |-> Blank]])

Next ==
    \/ \E c \in Char : Write(c)
    \/ \E p \in Cursors : SetCursor(p[1], p[2])
    \/ ClearScreen
    \/ \E z \in Zooms : SetZoom(z) \/ RefuseZoom(z)

Spec == Init /\ [][Next]_console

-----------------------------------------------------------------------------
(* Properties *)

\* The zoom stays among those the driver accepts, and the cursor within a
\* cell of the screen, whatever programs ask for (the type invariant).
TypeOK ==
    /\ DOMAIN console = {"x", "y", "zoom", "fb"}
    /\ console.zoom \in Zoom
    /\ console.x \in 0..Width /\ console.y \in 0..Height
    /\ DOMAIN console.fb = FrameBuffer

\* The cell at the cursor lies within the screen.
OnScreen(s) == s.x + CellW(s) <= Width /\ s.y + CellH(s) <= Height

\* Writing never takes the cursor off the screen: one wrap and one scroll in
\* vd_put_char are enough after every character, at every zoom.
WritingStaysOnScreen ==
    [][\A c \in Char : (Write(c) /\ OnScreen(console)) => OnScreen(console')]_console

\* A cursor that was set, or left by a change of zoom, too near the edge is
\* back on the screen after one character that draws: the wrap or the one
\* scroll of vd_put_char makes up for it.  They would not in the corner, where
\* the glyph wraps and scrolls; no call leads there (CursorsAssumption).
OneGlyphBringsCursorBack ==
    [][\A c \in Letters : (Write(c) /\ console.x < Width /\ console.y < Height) => OnScreen(console')]_console

\* What the screen shows, as a grid of cells of the initial zoom.
GridCols == Width \div (CHAR_WIDTH * InitialZoom)
GridRows == Height \div (CHAR_HEIGHT * InitialZoom)

PixelsOf(r, c) ==
    [dot \in (0..CellW(console) - 1) \X (0..CellH(console) - 1) |->
        console.fb[Offset(c * CellW(console) + dot[1], r * CellH(console) + dot[2])]]

Shows(r, c, g) ==
    \A dot \in DOMAIN PixelsOf(r, c) : PixelsOf(r, c)[dot] = Dot(g, dot[1], dot[2], console.zoom)

GlyphAt(r, c) ==
    IF \E g \in Letters \union {Space} : Shows(r, c, g)
    THEN CHOOSE g \in Letters \union {Space} : Shows(r, c, g)
    ELSE "damaged"

TextGrid == INSTANCE TextGrid WITH
    Rows <- GridRows, Cols <- GridCols, Damaged <- "damaged",
    cells <- [p \in (0..GridRows - 1) \X (0..GridCols - 1) |-> GlyphAt(p[1], p[2])],
    row <- console.y \div CellH(console), col <- console.x \div CellW(console)

\* At one zoom the pixels show a text grid: glyphs whole in their cells, a
\* scroll that moves the text and leaves no trace, and only backspaces at the
\* left margin that spoil a cell.
ShowsTextGrid == TextGrid!Spec
=============================================================================
