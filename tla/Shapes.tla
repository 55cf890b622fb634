------------------------------- MODULE Shapes --------------------------------
(***************************************************************************)
(* The shapes of Kernel/videoDriver.c and the system calls that draw them. *)
(* painted is the set of offsets of the frame buffer the last call wrote.  *)
(*                                                                         *)
(* SYS_PUT_PIXEL has no break: it goes on into SYS_DRAW_CIRCLE, which takes *)
(* the next arguments from where the first three left off.  What is there  *)
(* is up to the caller; no user program makes the call.                    *)
(***************************************************************************)
EXTENDS Integers

CONSTANTS
    Width, Height, Pitch,
    Coordinates,    \* what callers pass for x and y
    Sizes,          \* for a width, a height and a radius
    Points          \* for x and y of SYS_PUT_PIXEL, which are unsigned

VARIABLES
    painted,    \* the offsets the last call wrote
    call        \* the call

vars == <<painted, call>>

Screen == (0..Width - 1) \X (0..Height - 1)

\* vd_put_pixel has no test of the bounds.
Offset(p) == p[1] + p[2] * Pitch

-----------------------------------------------------------------------------
Clamp(at, size, limit) == IF at + size > limit THEN limit - at ELSE size

vd_draw_rectangle(x, y, w, h) ==
    IF x < 0 \/ y < 0 \/ x >= Width \/ y >= Height
    THEN {}
    ELSE {Offset(<<x + i, y + j>>) : i \in 0..Clamp(x, w, Width) - 1, j \in 0..Clamp(y, h, Height) - 1}

\* Mutant of vd_draw_circle: the test per point only guards the far edges.
vd_draw_circle_far(x, y, r) ==
    {Offset(<<x + d[1], y + d[2]>>) : d \in
        {d \in (-r..r) \X (-r..r) : d[1] * d[1] + d[2] * d[2] <= r * r /\ x + d[1] < Width /\ y + d[2] < Height}}

vd_draw_circle(x, y, r) ==
    IF x + r < 0 \/ x - r >= Width \/ y + r < 0 \/ y - r >= Height
    THEN {}
    ELSE {Offset(<<x + d[1], y + d[2]>>) : d \in
            {d \in (-r..r) \X (-r..r) :
                d[1] * d[1] + d[2] * d[2] <= r * r /\ <<x + d[1], y + d[2]>> \in Screen}}

DrawRect(x, y, w, h) ==
    /\ painted' = vd_draw_rectangle(x, y, w, h)
    /\ call' = [shape |-> "rectangle", x |-> x, y |-> y, w |-> w, h |-> h]

DrawCircle(x, y, r) ==
    /\ painted' = vd_draw_circle(x, y, r)
    /\ call' = [shape |-> "circle", x |-> x, y |-> y, r |-> r]

\* x2, y2 and r2 are the arguments the fall through reads.
PutPixel(x, y, x2, y2, r2) ==
    /\ painted' = {Offset(<<x, y>>)} \union vd_draw_circle(x2, y2, r2)
    /\ call' = [shape |-> "pixel", x |-> x, y |-> y]

Init == painted = {} /\ call = [shape |-> "none"]

Next ==
    \/ \E x, y \in Coordinates, w, h \in Sizes : DrawRect(x, y, w, h)
    \/ \E x, y \in Coordinates, r \in Sizes : DrawCircle(x, y, r)
    \/ \E x, y \in Points, x2, y2, r2 \in {0, 1} : PutPixel(x, y, x2, y2, r2)

Spec == Init /\ [][Next]_vars

-----------------------------------------------------------------------------
(* Properties *)

OnScreen(S) == {Offset(p) : p \in S \intersect Screen}

\* A rectangle whose corner is on the screen is drawn as far as the screen
\* goes, and no pixel of it comes out on another line or past the last one.
RectangleIsClipped ==
    (call.shape = "rectangle" /\ <<call.x, call.y>> \in Screen)
        => painted = OnScreen({<<call.x + i, call.y + j>> : i \in 0..call.w - 1, j \in 0..call.h - 1})

\* A circle is drawn as far as the screen goes, wherever its centre is.
CircleIsClipped ==
    call.shape = "circle" =>
        painted = OnScreen({p \in (call.x - call.r..call.x + call.r) \X (call.y - call.r..call.y + call.r) :
                                (p[1] - call.x) * (p[1] - call.x) + (p[2] - call.y) * (p[2] - call.y) <= call.r * call.r})

\* Every shape with a corner, or a part, on the screen appears as far as the
\* screen goes, and nowhere else in the frame buffer.
ShapesAreClipped == RectangleIsClipped /\ CircleIsClipped
=============================================================================
