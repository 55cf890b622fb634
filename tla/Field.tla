-------------------------------- MODULE Field --------------------------------
(***************************************************************************)
(* The picture of a level: render_playing of pongis.c and the drawing of   *)
(* pongis_lib.c, which never draw the field anew: every frame repairs what *)
(* the last one left.  Where the bodies go between two frames is free (what *)
(* moves them is in module Physics); the box of the counter is below the    *)
(* field and left out.                                                     *)
(***************************************************************************)
EXTENDS Integers, SequencesExt, FiniteSetsExt

CONSTANTS
    Scenes,         \* of [width, height, start, hole, holeRadius, obstacles, places, ways]:
                    \* start is where each body in play starts, places where it may be, ways
                    \* how far a frame takes it, an obstacle is <<point, radius>>, a point is <<x, y>>
    BallRadius, PlayerRadius

VARIABLES
    scene,
    position,       \* of each body in play
    pixels,         \* the field's part of the screen
    shown           \* a frame of this level was drawn

vars == <<scene, position, pixels, shown>>

Screen(s) == (0..s.width - 1) \X (0..s.height - 1)
Radius(body) == IF body = "ball" THEN BallRadius ELSE PlayerRadius
Bodies == DOMAIN scene.start

Square(p, q) == (p[1] - q[1]) * (p[1] - q[1]) + (p[2] - q[2]) * (p[2] - q[2])

Covers(center, radius, p) == Square(center, p) <= radius * radius

\* Mutant of objects_overlap: circles that only touch do not count.
objects_overlap_strict(p, q, r, s) == Square(p, q) < (r + s) * (r + s)

objects_overlap(p, q, r, s) == Square(p, q) <= (r + s) * (r + s)

check_ball_in_hole(ball) ==
    LET threshold == scene.holeRadius - BallRadius
    IN  threshold >= 0 /\ Square(ball, scene.hole) < (threshold + 1) * (threshold + 1)

-----------------------------------------------------------------------------
(* A frame is a sequence of circles, each over the ones before. *)

Circle(center, radius, color) == [center |-> center, radius |-> radius, color |-> color]

\* The color of point p, which had one, once the circles are drawn.
Paint(color, circles, p) ==
    LET over == {i \in DOMAIN circles : Covers(circles[i].center, circles[i].radius, p)}
    IN  IF over = {} THEN color ELSE circles[Max(over)].color

Drawn(screen, circles) == [p \in DOMAIN screen |-> Paint(screen[p], circles, p)]

draw_hole(s) == <<Circle(s.hole, s.holeRadius, "hole")>>

draw_obstacles == [i \in DOMAIN scene.obstacles |-> Circle(scene.obstacles[i][1], scene.obstacles[i][2], "obstacle")]

InPlay(body, circles) == IF body \in Bodies THEN circles ELSE <<>>

\* clear_object, for a body that moved.
Cleared(body, now) ==
    IF body \in Bodies /\ position[body] # now[body] THEN <<Circle(position[body], Radius(body), "black")>> ELSE <<>>

HoleDamaged == \E b \in Bodies : objects_overlap(position[b], scene.hole, Radius(b), scene.holeRadius)

render_playing(now) ==
    Cleared("first", now) \o Cleared("ball", now) \o Cleared("second", now)
    \o (IF HoleDamaged THEN draw_hole(scene) ELSE <<>>)
    \o InPlay("second", <<Circle(now["second"], PlayerRadius, "second")>>)
    \o <<Circle(now["first"], PlayerRadius, "first"), Circle(now["ball"], BallRadius, "ball")>>
    \o draw_obstacles

Frame ==
    \E way \in [Bodies -> scene.ways] :
        LET now == [b \in Bodies |-> <<position[b][1] + way[b][1], position[b][2] + way[b][2]>>] IN
        /\ \A b \in Bodies : now[b] \in scene.places
        /\ ~check_ball_in_hole(now["ball"])
        /\ position' = now
        /\ pixels' = Drawn(pixels, render_playing(now))
        /\ shown' = TRUE
        /\ UNCHANGED scene

\* A cleared screen with the hole, and the bodies where load_level puts them.
Fresh(s) == Drawn([p \in Screen(s) |-> "black"], draw_hole(s))

\* The ball is in the hole; the next level has the same hole here.
NextLevel ==
    /\ \E way \in scene.ways : check_ball_in_hole(<<position["ball"][1] + way[1], position["ball"][2] + way[2]>>)
    /\ position' = scene.start
    /\ pixels' = Fresh(scene)
    /\ shown' = FALSE
    /\ UNCHANGED scene

Init ==
    /\ scene \in Scenes
    /\ position = scene.start
    /\ pixels = Fresh(scene)
    /\ shown = FALSE

Next == Frame \/ NextLevel

Spec == Init /\ [][Next]_vars

-----------------------------------------------------------------------------
(* Properties *)

On(body, p) == body \in Bodies /\ Covers(position[body], Radius(body), p)

Topmost(p) ==
    LET there == {c \in {"second", "first", "ball"} : On(c, p)}
    IN  IF \E o \in ToSet(scene.obstacles) : Covers(o[1], o[2], p) THEN "obstacle"
        ELSE IF "ball" \in there THEN "ball"
        ELSE IF "first" \in there THEN "first"
        ELSE IF "second" \in there THEN "second"
        ELSE IF Covers(scene.hole, scene.holeRadius, p) THEN "hole" ELSE "black"

\* Although a frame only repairs the last one, the player sees the field as it
\* is: every pixel shows what is on top there, the bodies leave no trail, and
\* the hole and the obstacles are whole wherever bodies passed over them.
\* (render_playing of pongis.c.)
FieldShowsBodies == shown => \A p \in Screen(scene) : pixels[p] = Topmost(p)
=============================================================================
