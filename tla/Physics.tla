------------------------------- MODULE Physics -------------------------------
(***************************************************************************)
(* The bodies of the game in one frame: update_physics of pongis.c with    *)
(* movement_update and the collisions of pongis_lib.c and the square root  *)
(* and the rounding of math.c.                                             *)
(*                                                                         *)
(* The centres lie on one horizontal line and the velocities along it,     *)
(* which every operation of the code preserves (a normal with dy = 0 has   *)
(* ny = 0), so a body is its x.  A velocity is any the limits allow: what  *)
(* accelerations and bounces make of it is left out.  Floats are in units  *)
(* of 1/Unit; of all the distances of the game, only six fall so close to  *)
(* half a pixel that the floats of the code round them the other way.      *)
(***************************************************************************)
EXTENDS Levels, FiniteSetsExt, SequencesExt

CONSTANTS
    Scenes,         \* of [width, numPlayers, obstacles], an obstacle a <<x, radius>>
    BallSpeeds, PlayerSpeeds    \* whole pixels a frame

VARIABLES
    scene,          \* the one of this game
    ball, players,  \* positions
    touch_counter,  \* modulo two
    pushed          \* whom the ball was pushed out of last in the frame, or 0

vars == <<scene, ball, players, touch_counter, pushed>>

Everybody == 1..scene.numPlayers
Obstacles == scene.obstacles

-----------------------------------------------------------------------------
(* math.c *)

Abs(x) == IF x < 0 THEN -x ELSE x

Unit == 500
\* Newton's method from the number itself, six steps whatever the number is.
Newton(x, root) == (root + (x * Unit * Unit) \div root) \div 2

sqrtf(x) ==
    LET Step(root) == Newton(x, root)
    IN  Step(Step(Step(Step(Step(Step(Unit * (IF x < 1 THEN 1 ELSE x)))))))

\* The square root of a square, all that is asked of it here.
Far == 120
distance[d \in 0..Far] == sqrtf(d * d)

\* Halfway cases away from zero.
roundf(v) == IF v >= 0 THEN (v + Unit \div 2) \div Unit ELSE -((Unit \div 2 - v) \div Unit)

-----------------------------------------------------------------------------
(* pongis_lib.c *)

\* limit_velocity: int of a speed that is at most the maximum.
MAX_PLAYER_SPEED == 7
MAX_BALL_SPEED == 15

Limited(speed, max) == CASE speed > max -> max [] speed < -max -> -max [] OTHER -> speed

\* Mutant of movement_update: the wall takes the centre, not the rim.
movement_update_centre(x, speed, radius) ==
    CASE x + speed < 0 -> 0 [] x + speed > scene.width -> scene.width [] OTHER -> x + speed

movement_update(x, speed, radius) ==
    CASE x + speed < radius -> radius
      [] x + speed > scene.width - radius -> scene.width - radius
      [] OTHER -> x + speed

Sign(x) == IF x < 0 THEN -1 ELSE 1
Touching(p, q, sum) == Abs(p - q) < sum

\* nx times a length in Units.  The square root is never below one in 2^6, so
\* the default for bodies exactly on top is not taken, and their normal is 0.
AlongNormal(d, length) ==
    LET nx == (Abs(d) * Unit * Unit) \div distance[Abs(d)]
        product == (nx * Abs(length)) \div Unit
    IN  Sign(d) * Sign(length) * product

Overlap(d, sum) == sum * Unit - distance[Abs(d)]

SmallestHole == Min({levels[i].holeRadius : i \in DOMAIN levels})

BallSum == PLAYER_RADIUS + BALL_RADIUS
PlayerSum == 2 * PLAYER_RADIUS

\* check_collision of a player and the ball: where the ball is put.
BallPush[d \in -BallSum..BallSum] == roundf(AlongNormal(d, Overlap(d, BallSum)))

\* check_collision of two players: how far each is put, d from first to second.
PlayerPush[d \in -PlayerSum..PlayerSum] ==
    IF Overlap(d, PlayerSum) > 0 THEN roundf(AlongNormal(d, Overlap(d, PlayerSum) \div 2)) ELSE 0

Slop == Unit \div 10

\* check_obstacle_collision: where a body at x is put.  A body in the middle of
\* the obstacle has a distance of one in 2^6, and no normal.
OutOf(x, radius, o) ==
    IF Touching(x, o[1], radius + o[2]) /\ Overlap(x - o[1], radius + o[2]) > Slop
    THEN o[1] + roundf((x - o[1]) * Unit + AlongNormal(x - o[1], Overlap(x - o[1], radius + o[2]) - Slop))
    ELSE x

OutOfAll(x, radius) ==
    LET out[n \in 0..Len(Obstacles)] == IF n = 0 THEN x ELSE OutOf(out[n - 1], radius, Obstacles[n])
    IN  out[Len(Obstacles)]

-----------------------------------------------------------------------------
(* A frame *)

\* A player's turn: it moves, and the ball is put out of it.
Turn(s, i, speed) ==
    LET p == movement_update(s.players[i], Limited(speed, MAX_PLAYER_SPEED), PLAYER_RADIUS)
        moved == [s EXCEPT !.players[i] = p]
    IN  IF Touching(p, s.ball, BallSum)
        THEN [moved EXCEPT !.ball = @ + BallPush[s.ball - p], !.touches = @ + 1, !.pushed = i]
        ELSE moved

\* Mutant of Parted: both are put the same way.
PartedSameWay(s) ==
    LET d == s.players[2] - s.players[1]
    IN  IF Touching(s.players[1], s.players[2], PlayerSum)
        THEN [s EXCEPT !.players = <<@[1] + PlayerPush[d], @[2] + PlayerPush[d]>>]
        ELSE s

Parted(s) ==
    LET d == s.players[2] - s.players[1]
    IN  IF Touching(s.players[1], s.players[2], PlayerSum)
        THEN [s EXCEPT !.players = <<@[1] - PlayerPush[d], @[2] + PlayerPush[d]>>]
        ELSE s

Moved(s, b) == [s EXCEPT !.ball = movement_update(s.ball, Limited(b, MAX_BALL_SPEED), BALL_RADIUS)]

Freed(s) ==
    [s EXCEPT !.ball = OutOfAll(@, BALL_RADIUS),
              !.players = [i \in Everybody |-> OutOfAll(s.players[i], PLAYER_RADIUS)]]

\* The order of update_physics: the ball, the first player, the second, the
\* players against each other, everybody against the obstacles.
update_physics(s, b, v) ==
    LET first == Turn(Moved(s, b), 1, v[1])
    IN  Freed(IF scene.numPlayers = 2 THEN Parted(Turn(first, 2, v[2])) ELSE first)

Frame(b, v) ==
    LET s == update_physics([ball |-> ball, players |-> players, touches |-> touch_counter, pushed |-> 0], b, v)
    IN  /\ ball' = s.ball /\ players' = s.players
        /\ touch_counter' = s.touches % 2 /\ pushed' = s.pushed
        /\ UNCHANGED scene

\* load_level: nobody starts in contact.
Init ==
    /\ scene \in Scenes
    /\ ball \in BALL_RADIUS..scene.width - BALL_RADIUS
    /\ players \in [Everybody -> PLAYER_RADIUS..scene.width - PLAYER_RADIUS]
    /\ \A i \in Everybody : ~Touching(players[i], ball, BallSum)
    /\ scene.numPlayers = 2 => ~Touching(players[1], players[2], PlayerSum)
    /\ \A k \in DOMAIN Obstacles :
        /\ ~Touching(ball, Obstacles[k][1], BALL_RADIUS + Obstacles[k][2])
        /\ \A i \in Everybody : ~Touching(players[i], Obstacles[k][1], PLAYER_RADIUS + Obstacles[k][2])
    /\ touch_counter = 0 /\ pushed = 0

Next == \E b \in BallSpeeds, v \in [Everybody -> PlayerSpeeds] : Frame(b, v)

Spec == Init /\ [][Next]_vars

-----------------------------------------------------------------------------
(* Properties *)

\* Bodies do not pass through each other, however the frame's pushes combine:
\* two players keep their order, a player alone with the ball keeps it on its
\* side, and everybody stays on its side of an obstacle.  (check_collision and
\* check_obstacle_collision of pongis_lib.c put bodies apart by the position
\* after the move: a body that got past the centre would leave at the far side.)
PlayersKeepOrder == scene.numPlayers = 2 => (players[1] < players[2] <=> players'[1] < players'[2])

BallKeepsSide == Everybody = {1} /\ Obstacles = <<>> => (ball < players[1] <=> ball' < players'[1])

ObstaclesHold ==
    \A o \in ToSet(Obstacles) :
        /\ ball < o[1] <=> ball' < o[1]
        /\ \A i \in Everybody : players[i] < o[1] <=> players'[i] < o[1]

KeepsSides == PlayersKeepOrder /\ BallKeepsSide /\ ObstaclesHold

NobodyPassesThrough == [][KeepsSides]_vars

\* The walls hold the ball before the players push it, and nothing afterwards:
\* whatever pushes follow, part of the ball is on the field, and the next
\* movement_update brings it back.  (pongis_lib.c, movement_update.)
BallStaysInSight == ball + BALL_RADIUS >= 0 /\ ball - BALL_RADIUS <= scene.width

\* One player's ball never goes over a hole between two frames without being
\* in it in one of them: the step of a frame, the ball's move and its push
\* together, is shorter than the smallest hole's catch.  (check_ball_in_hole
\* looks once a frame.)
ShortStep == Everybody = {1} /\ Obstacles = <<>> => Abs(ball' - ball) <= 2 * (SmallestHole - BALL_RADIUS) + 1

HoleIsNotJumped == [][ShortStep]_vars

\* What the comment of check_collision says, "Push the ball fully out of the
\* player": with one player and no obstacle, a ball that was pushed does not
\* touch the player any more.
PushedFullyOut ==
    [][Everybody = {1} /\ Obstacles = <<>> /\ pushed' # 0 => ~Touching(ball', players'[pushed'], BallSum)]_vars
=============================================================================
