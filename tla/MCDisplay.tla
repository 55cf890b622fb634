------------------------------ MODULE MCDisplay ------------------------------
(***************************************************************************)
(* What reaches the screen, in four parts that run each on its own (subject *)
(* is chosen at the start, and the others rest, so the state spaces add):  *)
(*   - "cursor": Console in the real mode (1024 x 768) with the real glyph *)
(*     (8 x 16), every zoom, the cursors the programs set, and no frame    *)
(*     buffer: it is about where the cursor can be;                        *)
(*   - "screen": Screens in the same mode, every screen from every zoom it *)
(*     can be started with;                                                *)
(*   - "pixels": Console with every pixel of a 5 x 7 screen of three lines *)
(*     of two cells, with a column and a line of pixels to spare;          *)
(*   - "shapes": Shapes in the real mode, with small shapes that lie inside *)
(*     the screen, touch each edge, reach over each edge and miss it; a     *)
(*     call does not depend on the one before, so each is the first.       *)
(***************************************************************************)
EXTENDS Screens

CONSTANTS
    Coordinates, Sizes, Points,     \* of module Shapes
    GridWidth, GridHeight, GlyphWidth, GlyphHeight, GridZoom, GridCursors   \* of the text grid

ASSUME ShapesAssumption == Coordinates \subseteq Int /\ Sizes \subseteq Nat

\* A screen whose lines of pixels lie one behind the other, as clear_screen takes
\* them to, with two cells of two lines of pixels at least each way; programs put
\* the cursor where a cell is.
ASSUME GridAssumption ==
    /\ GridWidth \in Nat /\ GridHeight \in Nat /\ GridZoom \in Nat \ {0}
    /\ GlyphWidth \in Nat \ {0} /\ GlyphHeight \in Nat \ {0} /\ GlyphHeight * GridZoom >= 2
    /\ 2 * (GlyphWidth * GridZoom) <= GridWidth /\ 2 * (GlyphHeight * GridZoom) <= GridHeight
    /\ \A p \in GridCursors :
           \E r \in 0..GridHeight \div (GlyphHeight * GridZoom) - 1, c \in 0..GridWidth \div (GlyphWidth * GridZoom) - 1 :
               p = <<c * (GlyphWidth * GridZoom), r * (GlyphHeight * GridZoom)>>
    /\ Space # "damaged"
    /\ \A g \in Letters, i \in 0..GridWidth, j \in 0..GridHeight : Blank # <<g, i, j>>

VARIABLES subject, pixels, painted, call

\* clear, help and the game; draw_welcome; the game's texts.
UserCursors == {<<0, 0>>, <<10, 10>>, <<20, 725>>, <<85, 54>>, <<170, 96>>, <<51, 629>>, <<51, 683>>}
UserZooms == 0..11
ShapeCoordinates == {-4, -1, 0, 2, 764, 767, 768, 770, 1021, 1023, 1024, 1026}
Corners == {<<0, 0>>, <<2, 4>>}
Message == <<NewLine>> \o [i \in 1..14 |-> "a"] \o <<NewLine>>

Small == INSTANCE Console WITH
    Width <- GridWidth, Height <- GridHeight, Pitch <- GridWidth,
    CHAR_WIDTH <- GlyphWidth, CHAR_HEIGHT <- GlyphHeight,
    ZOOM_MIN <- GridZoom, ZOOM_MAX <- GridZoom, InitialZoom <- GridZoom,
    Zooms <- {0, GridZoom}, Cursors <- GridCursors, InvalidZoomMessage <- <<NewLine>>,
    FrameBuffer <- 0..GridWidth * GridHeight - 1, console <- pixels

Drawn == INSTANCE Shapes

shapeVars == <<painted, call>>
screenVars == <<script, pc, ch, textY, top, scrolled>>

DisplayInit ==
    /\ subject \in {"cursor", "screen", "pixels", "shapes"}
    /\ ScreensInit /\ Small!Init /\ Drawn!Init
    /\ subject # "screen" => script = "welcome" /\ Init

DisplayNext ==
    /\ UNCHANGED subject
    /\ \/ subject = "cursor" /\ Next /\ UNCHANGED <<screenVars, pixels, shapeVars>>
       \/ subject = "screen" /\ ScreensNext /\ UNCHANGED <<pixels, shapeVars>>
       \/ subject = "pixels" /\ Small!Next /\ UNCHANGED <<vars, shapeVars>>
       \/ subject = "shapes" /\ call.shape = "none" /\ Drawn!Next /\ UNCHANGED <<vars, pixels>>

DisplaySpec == DisplayInit /\ [][DisplayNext]_<<subject, vars, pixels, shapeVars>>

-----------------------------------------------------------------------------
(* The properties of the instances: the comments are in their modules *)

\* The pixels show a text grid (ShowsTextGrid of module Console).  The test of
\* the subject spares the comparison of the pixels where they rest.
PixelsShowTextGrid ==
    /\ Small!TextGrid!Init
    /\ [][subject = "pixels" => Small!TextGrid!Next]_(Small!TextGrid!grid)

\* Rectangles and circles are drawn as far as the screen goes (module Shapes).
ShapesAreClipped == Drawn!ShapesAreClipped
=============================================================================
