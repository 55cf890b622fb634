------------------------------- MODULE Levels --------------------------------
(***************************************************************************)
(* The table of levels of Userland/pongis/level.c and what a level must be *)
(* like for the game to be playable on it.  A circle is <<x, y, radius>>.  *)
(***************************************************************************)
EXTENDS Integers, Sequences

BALL_RADIUS == 10
PLAYER_RADIUS == 20

\* The field: the screen without the band of the counter.
FieldWidth == 1024
FieldHeight == 768 - 60

Circles(points, radius) == [i \in DOMAIN points |-> <<points[i][1], points[i][2], radius>>]

Column(x, ys, radius) == [i \in DOMAIN ys |-> <<x, ys[i], radius>>]

level4_obstacles ==
    Circles(<< <<400, 100>>, <<200, 100>>, <<300, 200>>, <<300, 300>>, <<200, 400>>, <<500, 100>>, <<600, 100>>,
               <<400, 400>>, <<500, 400>>, <<600, 400>>, <<700, 300>>, <<700, 200>> >>, 30)
    \o Circles(<< <<300, 250>>, <<700, 250>> >>, 15)

level5_obstacles ==
    Column(500, <<400, 500, 500, 400, 300, 200, 100>>, 20)
    \o Column(400, <<500, 400, 300, 200, 100>>, 20) \o Column(600, <<500, 400, 300, 200, 100>>, 20)

level6_obstacles ==
    Circles(<< <<600, 400>>, <<700, 400>>, <<650, 350>>, <<650, 450>>,
               <<600, 450>>, <<600, 350>>, <<700, 350>>, <<700, 450>> >>, 10)

level7_obstacles == Circles(<< <<500, 400>>, <<700, 400>>, <<600, 500>>, <<600, 300>> >>, 65)

level8_obstacles ==
    Circles(<< <<400, 255>>, <<432, 268>>, <<432, 332>>, <<400, 345>>, <<368, 332>>, <<355, 300>>, <<368, 268>> >>, 18)

Level(ball, player1, player2, hole, holeRadius, obstacles) ==
    [ball |-> ball, players |-> <<player1, player2>>, hole |-> hole, holeRadius |-> holeRadius, obstacles |-> obstacles]

Ball == <<300, 300>>
P1 == <<150, 200>>
P2 == <<150, 400>>

\* The last level takes its number of obstacles from the array of the one before.
levels ==
    << Level(Ball, P1, P2, <<600, 300>>, 30, <<>>),
       Level(Ball, P1, P2, <<550, 100>>, 30, <<>>),
       Level(Ball, P1, P2, <<600, 300>>, 30, Circles(<< <<400, 260>>, <<400, 340>> >>, 40)),
       Level(Ball, P1, P2, <<650, 300>>, 30, Circles(<< <<450, 300>>, <<550, 300>> >>, 40)),
       Level(<<100, 250>>, <<100, 200>>, <<100, 300>>, <<500, 250>>, 30, level4_obstacles),
       Level(Ball, <<150, 300>>, P1, <<675, 300>>, 30, level5_obstacles),
       Level(Ball, <<150, 300>>, P1, <<650, 400>>, 30, level6_obstacles),
       Level(<<300, 400>>, <<150, 300>>, P1, <<600, 400>>, 30, level7_obstacles),
       Level(<<200, 300>>, <<100, 200>>, <<100, 400>>, <<400, 300>>, 20,
             SubSeq(level8_obstacles, 1, Len(level7_obstacles))) >>

level_count == Len(levels)

\* Mutant of LevelAt: the obstacles of the next level.
LevelAtMixed(index) ==
    [levels[index + 1] EXCEPT !.obstacles = levels[IF index + 2 > level_count THEN 1 ELSE index + 2].obstacles]

\* What load_level copies; an index out of the table changes nothing.
LevelAt(index) == levels[index + 1]

-----------------------------------------------------------------------------
Square(p, q) == (p[1] - q[1]) * (p[1] - q[1]) + (p[2] - q[2]) * (p[2] - q[2])

Apart(p, q, distance) == Square(p, q) >= distance * distance

\* check_ball_in_hole: the integer root of the distance, at most the threshold.
InHole(ball, hole, holeRadius) == ~Apart(ball, hole, holeRadius - BALL_RADIUS + 1)

OnField(p, radius) ==
    p[1] \in radius..FieldWidth - radius /\ p[2] \in radius..FieldHeight - radius

\* Nobody starts in contact with anything or off the field, the ball does not
\* start in the hole, and a ball in the middle of the hole touches no obstacle.
Playable(l) ==
    /\ OnField(l.ball, BALL_RADIUS) /\ OnField(l.hole, l.holeRadius)
    /\ ~InHole(l.ball, l.hole, l.holeRadius)
    /\ l.holeRadius >= BALL_RADIUS
    /\ Apart(l.players[1], l.players[2], 2 * PLAYER_RADIUS)
    /\ \A i \in 1..2 :
        /\ OnField(l.players[i], PLAYER_RADIUS)
        /\ Apart(l.players[i], l.ball, PLAYER_RADIUS + BALL_RADIUS)
    /\ \A k \in DOMAIN l.obstacles : LET o == l.obstacles[k] IN
        /\ OnField(o, o[3])
        /\ Apart(o, l.ball, o[3] + BALL_RADIUS) /\ Apart(o, l.hole, o[3] + BALL_RADIUS)
        /\ \A i \in 1..2 : Apart(o, l.players[i], o[3] + PLAYER_RADIUS)
=============================================================================
