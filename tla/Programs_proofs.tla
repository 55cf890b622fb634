--------------------------- MODULE Programs_proofs ---------------------------
(***************************************************************************)
(* The user program.  Of the game: what the screen shows at the end of a   *)
(* frame, whom the message of a level names and which keys answer it, for  *)
(* every number of levels, of keys and of touches.  Of the shell: which    *)
(* command runs and what the prompt looks like, for every buffer, alphabet *)
(* and set of commands.  Of the picture of a level: what every pixel shows *)
(* after a frame, for every field, obstacles, radii and ways of the bodies. *)
(* Of the bodies: that nobody passes through anybody and the ball stays in  *)
(* sight, for every field, speeds and obstacles of CourtsAssumption.        *)
(***************************************************************************)
EXTENDS MCPrograms, WellFoundedInduction, SequenceTheorems, TLAPS

Key == [key : Keys, on : {"menu", "field", "other"}]

\* The flags need no type: a test for TRUE is all the code does with them.
TypeOK ==
    /\ pc \in {"shell", "menu", "instructions", "input", "physics", "drain", "render", "tick", "leave"}
    /\ queue \in Seq(Key)
    /\ selected \in 0..3 /\ numPlayers \in {1, 2}
    /\ phase \in {"playing", "complete", "all"}
    /\ level \in 0..LevelCount - 1
    /\ touches \in Nat /\ prevTouches \in Nat /\ counter \in Int
    /\ toucher \in 0..2

\* No key that waits was typed while the screen showed p.
NoKeyFrom(p) == \A i \in 1..Len(queue) : queue[i].on # p

\* A level in play: the box of the counter, once drawn, shows the count that
\* the last frame saw.
PlayingInv ==
    (pc \in {"input", "physics", "drain", "render", "tick"} /\ phase = "playing") =>
        /\ picture = IF pc = "drain" THEN "blank" ELSE "field"
        /\ ~lcDisplayed /\ ~acDisplayed
        /\ prevTouches <= touches
        /\ IF counterDisplayed THEN counter = prevTouches ELSE prevTouches = 0
        /\ pc = "tick" => counterDisplayed /\ prevTouches = touches
        /\ toucher # 0 => lastTouch = toucher
        /\ pc = "drain" => toucher # 0

\* A completed level: its message is shown from the end of the frame on, and
\* the queue was emptied before.
CompleteInv ==
    (pc \in {"input", "render", "tick"} /\ phase = "complete") =>
        /\ level + 1 < LevelCount
        /\ toucher # 0 /\ lastTouch = toucher
        /\ ~acDisplayed
        /\ IF lcDisplayed
           THEN picture = "complete" /\ ~counterDisplayed /\ (numPlayers = 2 => winner = toucher)
           ELSE picture = "blank" /\ pc = "render"
        /\ NoKeyFrom("field")

\* The end of the game.
AllInv ==
    (pc \in {"input", "render", "tick"} /\ phase = "all") =>
        /\ level + 1 = LevelCount
        /\ picture = IF acDisplayed THEN "all" ELSE "blank"
        /\ ~acDisplayed => pc = "render"

\* The places of a frame that only a level in play reaches, and the screen of
\* the instructions.
PlaceInv ==
    /\ pc \in {"physics", "drain"} => phase = "playing"
    /\ pc = "instructions" => picture = "instructions" /\ NoKeyFrom("menu")

IInv == TypeOK /\ PlayingInv /\ CompleteInv /\ AllInv /\ PlaceInv

-----------------------------------------------------------------------------
(* Facts the steps share *)

LEMMA NineLevels == level_count = 9
  BY DEF level_count, levels

LEMMA SomeLevel == LevelCount \in Nat /\ LevelCount >= 1
  BY NineLevels, PongisAssumption

LEMMA TailKeys ==
    ASSUME queue \in Seq(Key), queue # <<>>, queue' = Tail(queue)
    PROVE  /\ queue' \in Seq(Key) /\ Len(queue') = Len(queue) - 1
           /\ \A i \in 1..Len(queue') : queue'[i] = queue[i + 1]
  OBVIOUS

LEMMA TailNoKeyFrom ==
    ASSUME queue \in Seq(Key), queue # <<>>, queue' = Tail(queue), NEW p, NoKeyFrom(p)
    PROVE  NoKeyFrom(p)'
  BY TailKeys DEF NoKeyFrom

LEMMA AppendNoKeyFrom ==
    ASSUME queue \in Seq(Key), NEW k \in Key, queue' = Append(queue, k), NEW p, k.on # p, NoKeyFrom(p)
    PROVE  NoKeyFrom(p)'
  BY DEF NoKeyFrom

LEMMA SomeTouches ==
    ASSUME NEW t \in Touches, TypeOK
    PROVE  /\ Len(t) \in Nat
           /\ IF t = <<>> THEN Len(t) = 0 ELSE t[Len(t)] \in 1..2
  BY DEF Touches, TypeOK

-----------------------------------------------------------------------------
(* The invariant *)

\* The game is off.
LEMMA Initially == Init => IInv
  BY SomeLevel DEF Init, IInv, TypeOK, PlayingInv, CompleteInv, AllInv, PlaceInv

\* The menu and the instructions.
LEMMA MenuKeeps == IInv /\ (Launch \/ MenuStep) => IInv'
<1> SUFFICES ASSUME IInv, Launch \/ MenuStep PROVE IInv'
  OBVIOUS
<1> USE DEF IInv, TypeOK, PlayingInv, CompleteInv, AllInv, PlaceInv, screenVars, menuVars, gameVars, flagVars
<1>1. CASE Launch
  BY <1>1 DEF Launch, NoKeyFrom
<1>2. CASE ShellKey
  BY <1>2, TailKeys, TailNoKeyFrom DEF ShellKey, TakeKey
<1>3. CASE MenuMove
  BY <1>3, TailKeys, TailNoKeyFrom DEF MenuMove, TakeKey, menuCount
<1>4. CASE StartGame
  BY <1>4, TailKeys, SomeLevel DEF StartGame, TakeKey, load_level, NoCounter
<1>5. CASE OpenInstructions
  BY <1>5 DEF OpenInstructions, NoKeyFrom
<1>6. CASE ReadInstructions
  BY <1>6, TailKeys, TailNoKeyFrom DEF ReadInstructions, TakeKey
<1>7. CASE BackToShell
  BY <1>7, TailKeys, TailNoKeyFrom DEF BackToShell, TakeKey
<1>8. QED
  BY <1>1, <1>2, <1>3, <1>4, <1>5, <1>6, <1>7 DEF MenuStep

\* A frame.
LEMMA FrameKeeps == IInv /\ FrameStep => IInv'
<1> SUFFICES ASSUME IInv, FrameStep PROVE IInv'
  OBVIOUS
<1> USE DEF IInv, TypeOK, PlayingInv, CompleteInv, AllInv, PlaceInv, screenVars, menuVars, gameVars, flagVars
<1>1. CASE NoInput
  BY <1>1 DEF NoInput, AfterInput, NoKeyFrom
<1>2. CASE NextLevel
  BY <1>2, TailKeys, SomeLevel DEF NextLevel, TakeKey, AfterInput, load_level, NoCounter
<1>3. CASE Quit
  BY <1>3, TailKeys, TailNoKeyFrom DEF Quit, TakeKey, AfterInput
<1>4. CASE OtherInput
  BY <1>4, TailKeys, TailNoKeyFrom DEF OtherInput, TakeKey, AfterInput
<1>5. CASE DrainKey
  BY <1>5, TailKeys, TailNoKeyFrom DEF DrainKey, TakeKey
<1>6. CASE LevelEnds
  BY <1>6, SomeLevel DEF LevelEnds, NoKeyFrom
<1>7. CASE RenderPlaying
  BY <1>7 DEF RenderPlaying
<1>8. CASE RenderComplete
  BY <1>8 DEF RenderComplete, NoKeyFrom
<1>9. CASE RenderAllComplete
  BY <1>9 DEF RenderAllComplete
<1>10. CASE Leave
  BY <1>10 DEF Leave
<1>11. ASSUME NEW t \in Touches, NEW inHole \in BOOLEAN, UpdatePhysics(t, inHole)
      PROVE  IInv'
  BY <1>11, SomeTouches DEF UpdatePhysics, Touch
<1>12. QED
  BY <1>1, <1>2, <1>3, <1>4, <1>5, <1>6, <1>7, <1>8, <1>9, <1>10, <1>11 DEF FrameStep

\* The timer and the keyboard.
LEMMA InterruptKeeps == IInv /\ (Timer \/ \E k \in Keys : TypeKey(k)) => IInv'
<1> SUFFICES ASSUME IInv, Timer \/ \E k \in Keys : TypeKey(k) PROVE IInv'
  OBVIOUS
<1> USE DEF IInv, TypeOK, PlayingInv, CompleteInv, AllInv, PlaceInv, screenVars, menuVars, gameVars, flagVars
<1>1. CASE Timer
  BY <1>1 DEF Timer, Wake, NoKeyFrom
<1>2. ASSUME NEW k \in Keys, TypeKey(k)
      PROVE  IInv'
  <2> DEFINE key == [key |-> k, on |-> IF picture \in {"menu", "field"} THEN picture ELSE "other"]
  <2>1. key \in Key /\ queue' = Append(queue, key)
    BY <1>2 DEF TypeKey, Key
  <2>2. queue' \in Seq(Key)
    BY <2>1
  <2>3. \A p \in {"menu", "field"} : picture # p => key.on # p
    OBVIOUS
  <2>4. \A p \in {"menu", "field"} : picture # p /\ NoKeyFrom(p) => NoKeyFrom(p)'
    BY <2>1, <2>3, AppendNoKeyFrom
  <2> HIDE DEF key
  <2>5. QED
    BY <1>2, <2>2, <2>4 DEF TypeKey, Wake
<1>3. QED
  BY <1>1, <1>2

\* Phase, level, flags, count and screen agree at every place of a frame, as far
\* as the frame has come (the loop of pongis).
THEOREM Invariant == Spec => []IInv
<1>1. IInv /\ UNCHANGED vars => IInv'
  BY DEF vars, IInv, TypeOK, PlayingInv, CompleteInv, AllInv, PlaceInv, NoKeyFrom,
         screenVars, menuVars, gameVars, flagVars
<1>2. IInv /\ [Next]_vars => IInv'
  BY <1>1, MenuKeeps, FrameKeeps, InterruptKeeps DEF Next
<1>3. QED
  BY Initially, <1>2, PTL DEF Spec

-----------------------------------------------------------------------------
(* The properties of the game *)

\* When a frame ends, the screen shows the phase: the field with the count of
\* this level, or the message of the level or of the game (the flags of
\* render_level_complete, render_all_complete and render_touch_counter).
THEOREM FrameShowsPhaseHolds == Spec => []FrameShowsPhase
<1>1. IInv => FrameShowsPhase
  BY DEF IInv, TypeOK, PlayingInv, CompleteInv, AllInv, FrameShowsPhase
<1>2. QED
  BY <1>1, Invariant, PTL

\* The message of a level for two players names the one who touched the ball
\* last in that level, whom load_level leaves to the frames to set.
THEOREM WinnerTouchedLastHolds == Spec => []WinnerTouchedLast
<1>1. IInv => WinnerTouchedLast
  BY DEF IInv, TypeOK, PlayingInv, CompleteInv, AllInv, PlaceInv, WinnerTouchedLast
<1>2. QED
  BY <1>1, Invariant, PTL

\* load_level is asked for levels of the table only, so what holds of each
\* of the nine rows (the run evaluates Playable on them) holds of the level
\* the game is in.
THEOREM LevelsArePlayableHolds ==
    ASSUME \A index \in 0..level_count - 1 : Playable(LevelAt(index))
    PROVE  Spec => []LevelsArePlayable
<1>1. IInv => LevelsArePlayable
  <2> SUFFICES ASSUME IInv PROVE Playable(LevelAt(level))
    BY DEF LevelsArePlayable
  <2>1. level \in 0..level_count - 1
    BY NineLevels, PongisAssumption DEF IInv, TypeOK
  <2>2. QED
    BY <2>1
<1>2. QED
  BY <1>1, Invariant, PTL

\* The drain at the end of a level (and of open_instructions) leaves no key
\* that was typed before the message was shown to answer it.
THEOREM KeysAnswerWhatWasShownHolds == Spec => KeysAnswerWhatWasShown
<1> DEFINE Answers ==
        /\ (pc = "input" /\ phase = "complete" /\ Len(queue') < Len(queue)) => Head(queue).on # "field"
        /\ (pc = "instructions" /\ Len(queue') < Len(queue)) => Head(queue).on # "menu"
<1>1. IInv /\ IInv' => Answers
  BY DEF IInv, TypeOK, CompleteInv, PlaceInv, NoKeyFrom
<1>2. QED
  BY <1>1, Invariant, PTL DEF KeysAnswerWhatWasShown

-----------------------------------------------------------------------------
(* The shell: the invariant *)

\* The line as far as it is read: what the buffer holds is what was typed and
\* corrected.
LineInv ==
    /\ line \in Seq(Letters) /\ DOMAIN command = Sh!Cells
    /\ kbd \in Seq(Letters \union {NewLine, Backspace})
    /\ pcS \in {"read", "dispatch"} =>
           /\ len = Len(line) /\ len <= MAX_CMD_LENGTH - 1
           /\ \A i \in 1..Len(line) : command[i - 1] = line[i]
    /\ pcS = "dispatch" => command[len] = Nul

\* Where the zoom the user asked for is kept: in the driver, but in prev_zoom
\* while the help is shown or the game is played; the welcome, which sets the
\* zoom to 2, is shown before anybody has asked.
ZoomInv ==
    /\ first_run \in {0, 1} /\ welcomes = 1 - first_run
    /\ pcS # "start" => first_run = 0
    /\ pcS = "start" => IF first_run = 1 THEN userZoom = 2 ELSE zoom = userZoom
    /\ pcS \in {"prompt", "read", "dispatch"} => zoom = userZoom
    /\ pcS \in {"getc", "hlt"} => IF screenS = "help" THEN prev_zoom = userZoom ELSE zoom = userZoom
    /\ pcS = "game" => prev_zoom = userZoom

\* The number typed after zoom fits in an int.
NumbersFit == (pcS = "dispatch" /\ Sh!IsZoom) => Sh!Asked < IntRange \div 2

LEMMA SetInduction ==
    ASSUME NEW S, 0 \in S, \A n \in Nat : n \in S => n + 1 \in S
    PROVE  Nat \subseteq S
<1> DEFINE T == Nat \ S
<1> SUFFICES ASSUME T # {} PROVE FALSE
  OBVIOUS
<1>1. T \in SUBSET Nat
  OBVIOUS
<1> HIDE DEF T
<1>2. PICK n \in T : ~\E m \in T : <<m, n>> \in OpToRel(<, Nat)
  BY <1>1, NatLessThanWellFounded, WFMin
<1>3. n \in Nat /\ n \notin S
  BY DEF T
<1>4. n # 0 /\ n - 1 \in Nat
  BY <1>3
<1>5. n - 1 \in S
  BY <1>2, <1>3, <1>4 DEF OpToRel, T
<1> QED BY <1>3, <1>4, <1>5

-----------------------------------------------------------------------------
(* The line *)

\* A line of letters with the NUL behind it is what strcmp reads.
LEMMA TextIsLine ==
    ASSUME LineInv, pcS = "dispatch"
    PROVE  Sh!Text(command) = line
<1> DEFINE cells == [i \in 1..MAX_CMD_LENGTH |-> command[i - 1]]
           I == {i \in 1..MAX_CMD_LENGTH : cells[i] = Nul}
<1>1. /\ MAX_CMD_LENGTH \in Nat /\ len \in Nat /\ len + 1 \in 1..MAX_CMD_LENGTH
      /\ line \in Seq(Letters) /\ len = Len(line)
  BY ShellAssumption DEF LineInv
<1>2. len + 1 \in I
  BY <1>1 DEF LineInv
<1>3. \A i \in I : i >= len + 1
  <2> SUFFICES ASSUME NEW i \in 1..MAX_CMD_LENGTH, i < len + 1 PROVE command[i - 1] # Nul
    BY <1>1
  <2>1. i \in 1..Len(line)
    BY <1>1
  <2>2. line[i] \in Letters /\ command[i - 1] = line[i]
    BY <1>1, <2>1 DEF LineInv
  <2> QED BY <2>2, ShellAssumption
<1>4. Sh!Min(I) = len + 1
  <2> HIDE DEF I
  <2>1. I \subseteq Int
    BY DEF I
  <2>2. \A i \in I : len + 1 <= i
    BY <1>1, <1>3, <2>1
  <2>3. Sh!Min(I) \in I /\ \A i \in I : Sh!Min(I) <= i
    BY <1>2, <2>2 DEF Sh!Min
  <2>4. Sh!Min(I) \in Int /\ len + 1 \in Int /\ len + 1 <= Sh!Min(I) /\ Sh!Min(I) <= len + 1
    BY <1>1, <1>2, <2>1, <2>2, <2>3
  <2> QED BY <2>4
<1>5. Sh!CString(command) = len + 1
  BY <1>2, <1>4 DEF Sh!CString, Sh!SelectInSubSeq
<1>6. Sh!Text(command) = [i \in 1..len |-> command[i - 1]]
  BY <1>1, <1>5 DEF Sh!Text
<1>7. line = [i \in 1..len |-> line[i]]
  BY <1>1
<1> QED BY <1>1, <1>6, <1>7 DEF LineInv

-----------------------------------------------------------------------------
(* Numbers *)

LEMMA SmallRemainder ==
    ASSUME NEW a \in Nat, NEW n \in Nat, a < n
    PROVE  a % n = a
<1>1. a = n * (a \div n) + (a % n) /\ a % n \in 0..n - 1 /\ a \div n \in Int
  OBVIOUS
<1> DEFINE q == a \div n
<1>2. q >= 1 => n * q >= n
  BY <1>1
<1>3. q <= -1 => n * q <= -n
  BY <1>1
<1>4. q = 0
  BY <1>1, <1>2, <1>3
<1> QED BY <1>1, <1>4

\* What the arithmetic of an int makes of a number that fits is that number:
\* the values on the way are no larger.
LEMMA FittingNumber ==
    ASSUME NEW digits \in Seq(DOMAIN Digit),
           Sh!Number(digits) < IntRange \div 2
    PROVE  Sh!IntNumber(digits) = Sh!Number(digits)
<1> DEFINE Exact(f, k) == f = [n \in 0..k |-> IF n = 0 THEN 0 ELSE f[n - 1] * 10 + Digit[digits[n]]]
           Int32(f, k) == f = [n \in 0..k |-> IF n = 0 THEN 0 ELSE Sh!Wrapped(f[n - 1] * 10 + Digit[digits[n]])]
           k == Len(digits)
           e == CHOOSE f : Exact(f, k)
           w == CHOOSE f : Int32(f, k)
<1>1. k \in Nat /\ \A n \in 1..k : Digit[digits[n]] \in Nat
  <2>1. \A n \in 1..k : Digit[digits[n]] \in 0..9
    BY ShellAssumption
  <2> QED BY <2>1
<1>2. Sh!Number(digits) = e[k] /\ Sh!IntNumber(digits) = w[k]
  BY DEF Sh!Number, Sh!IntNumber
<1>3. \E f : Exact(f, k)
  <2> DEFINE Walk(n) == \E f : Exact(f, n)
             S == {n \in Nat : n <= k => Walk(n)}
  <2> HIDE DEF Walk
  <2>1. 0 \in S
    <3>1. Exact([n \in 0..0 |-> 0], 0)
      OBVIOUS
    <3> QED BY <3>1 DEF Walk
  <2>2. ASSUME NEW n \in Nat, n \in S PROVE n + 1 \in S
    <3> SUFFICES ASSUME n + 1 <= k PROVE Walk(n + 1)
      OBVIOUS
    <3>1. n <= k
      BY <1>1
    <3>2. PICK f : Exact(f, n)
      BY <2>2, <3>1 DEF Walk
    <3> DEFINE g == [m \in 0..n + 1 |-> IF m = n + 1 THEN f[n] * 10 + Digit[digits[n + 1]] ELSE f[m]]
    <3>3. \A m \in 0..n : g[m] = f[m]
      OBVIOUS
    <3>4. \A m \in 0..n + 1 : g[m] = IF m = 0 THEN 0 ELSE g[m - 1] * 10 + Digit[digits[m]]
      <4> TAKE m \in 0..n + 1
      <4>1. CASE m = n + 1
        BY <3>3, <4>1
      <4>2. CASE m # n + 1
        <5>1. m \in 0..n /\ (m # 0 => m - 1 \in 0..n)
          BY <4>2
        <5> QED BY <3>2, <3>3, <5>1
      <4> QED BY <4>1, <4>2
    <3>5. g = [m \in 0..n + 1 |-> g[m]]
      OBVIOUS
    <3> HIDE DEF g
    <3>6. Exact(g, n + 1)
      BY <3>4, <3>5
    <3> QED BY <3>6 DEF Walk
  <2> HIDE DEF S
  <2>3. k \in S
    BY <1>1, <2>1, <2>2, SetInduction
  <2> QED BY <2>3 DEF S, Walk
<1>4. Exact(e, k)
  BY <1>3
<1> HIDE DEF e, k
<1>5. /\ e[0] = 0
      /\ \A n \in 1..k : e[n] = e[n - 1] * 10 + Digit[digits[n]]
  <2>1. \A n \in 0..k : e[n] = IF n = 0 THEN 0 ELSE e[n - 1] * 10 + Digit[digits[n]]
    BY <1>4
  <2>2. 0 \in 0..k /\ \A n \in 1..k : n \in 0..k /\ n # 0
    BY <1>1
  <2> HIDE DEF Exact
  <2> QED BY <2>1, <2>2
<1>6. \A n \in 0..k : e[n] \in Nat
  <2> DEFINE S == {n \in Nat : n <= k => e[n] \in Nat}
  <2>1. 0 \in S
    BY <1>5
  <2>2. ASSUME NEW n \in Nat, n \in S PROVE n + 1 \in S
    <3> SUFFICES ASSUME n + 1 <= k PROVE e[n + 1] \in Nat
      OBVIOUS
    <3>1. n <= k /\ n + 1 \in 1..k /\ (n + 1) - 1 = n
      BY <1>1
    <3>2. e[n] \in Nat /\ Digit[digits[n + 1]] \in Nat
      BY <1>1, <2>2, <3>1
    <3>3. e[n + 1] = e[n] * 10 + Digit[digits[n + 1]]
      BY <1>5, <3>1
    <3> QED BY <3>2, <3>3
  <2> HIDE DEF S
  <2>3. Nat \subseteq S
    BY <2>1, <2>2, SetInduction
  <2> QED BY <1>1, <2>3 DEF S
<1>7. \A n \in 0..k : e[n] <= e[k]
  <2> DEFINE S == {n \in Nat : n <= k => e[k - n] <= e[k]}
  <2>1. 0 \in S
    BY <1>1, <1>6
  <2>2. ASSUME NEW n \in Nat, n \in S PROVE n + 1 \in S
    <3> SUFFICES ASSUME n + 1 <= k PROVE e[k - (n + 1)] <= e[k]
      OBVIOUS
    <3> DEFINE m == k - n
    <3>1. m \in 1..k /\ m - 1 \in 0..k /\ m - 1 = k - (n + 1) /\ n <= k
      BY <1>1
    <3>2. e[m] <= e[k]
      BY <2>2, <3>1
    <3> HIDE DEF m
    <3>3. e[m - 1] \in Nat /\ e[m] \in Nat /\ e[k] \in Nat /\ Digit[digits[m]] \in Nat
      BY <1>1, <1>6, <3>1
    <3>4. e[m] = e[m - 1] * 10 + Digit[digits[m]]
      BY <1>5, <3>1
    <3>5. e[m - 1] <= e[k]
      BY <3>2, <3>3, <3>4
    <3> QED BY <3>1, <3>5
  <2> HIDE DEF S
  <2>3. Nat \subseteq S
    BY <2>1, <2>2, SetInduction
  <2> TAKE n \in 0..k
  <2>4. k - n \in Nat /\ k - n <= k /\ k - (k - n) = n
    BY <1>1
  <2>5. k - n \in S
    BY <2>3, <2>4
  <2> QED BY <2>4, <2>5 DEF S
<1>8. \A n \in 0..k : Sh!Wrapped(e[n]) = e[n]
  <2> TAKE n \in 0..k
  <2>1. e[n] \in Nat /\ e[k] \in Nat /\ e[n] <= e[k] /\ e[k] < IntRange \div 2
    BY <1>1, <1>2, <1>6, <1>7
  <2>2. IntRange \in Nat /\ IntRange > 0 /\ IntRange \div 2 <= IntRange /\ IntRange \div 2 \in Nat
    BY ShellAssumption
  <2> DEFINE half == IntRange \div 2
             v == e[n]
  <2>3. v \in Nat /\ v < half /\ half \in Nat /\ half <= IntRange /\ IntRange \in Nat
    <3>1. half \in Nat /\ half <= IntRange /\ IntRange \in Nat
      BY <2>2
    <3>2. v \in Nat /\ e[k] \in Nat /\ v <= e[k] /\ e[k] < half
      BY <2>1
    <3> HIDE DEF half, v
    <3> QED BY <3>1, <3>2
  <2>4. v % IntRange = v
    <3> HIDE DEF half, v
    <3>1. v < IntRange
      BY <2>3
    <3> QED BY <2>3, <3>1, SmallRemainder
  <2>5. ~(v >= half)
    <3> HIDE DEF half, v
    <3> QED BY <2>3
  <2>6. Sh!Wrapped(v) = IF v % IntRange >= half THEN (v % IntRange) - IntRange ELSE v % IntRange
    BY DEF Sh!Wrapped
  <2>7. Sh!Wrapped(v) = v
    <3> HIDE DEF half, v
    <3> QED BY <2>4, <2>5, <2>6
  <2> QED BY <2>7
<1>9. Int32(e, k)
  <2>1. \A n \in 0..k : e[n] = IF n = 0 THEN 0 ELSE Sh!Wrapped(e[n - 1] * 10 + Digit[digits[n]])
    <3> TAKE n \in 0..k
    <3>1. CASE n = 0
      BY <1>5, <3>1
    <3>2. CASE n # 0
      <4>1. e[n] = e[n - 1] * 10 + Digit[digits[n]]
        BY <1>1, <1>5, <3>2
      <4>2. Sh!Wrapped(e[n]) = e[n]
        BY <1>8
      <4> QED BY <3>2, <4>1, <4>2
    <3> QED BY <3>1, <3>2
  <2>2. e = [n \in 0..k |-> e[n]]
    BY <1>4
  <2> QED BY <2>1, <2>2
<1>10. Int32(w, k)
  BY <1>9
<1> HIDE DEF w
<1>11. /\ w[0] = 0
       /\ \A n \in 1..k : w[n] = Sh!Wrapped(w[n - 1] * 10 + Digit[digits[n]])
  <2>1. \A n \in 0..k : w[n] = IF n = 0 THEN 0 ELSE Sh!Wrapped(w[n - 1] * 10 + Digit[digits[n]])
    BY <1>10
  <2>2. 0 \in 0..k /\ \A n \in 1..k : n \in 0..k /\ n # 0
    BY <1>1
  <2> HIDE DEF Int32
  <2> QED BY <2>1, <2>2
<1>12. \A n \in 0..k : w[n] = e[n]
  <2> DEFINE S == {n \in Nat : n <= k => w[n] = e[n]}
  <2>1. 0 \in S
    BY <1>5, <1>11
  <2>2. ASSUME NEW n \in Nat, n \in S PROVE n + 1 \in S
    <3> SUFFICES ASSUME n + 1 <= k PROVE w[n + 1] = e[n + 1]
      OBVIOUS
    <3>1. n <= k /\ n + 1 \in 1..k /\ n + 1 \in 0..k /\ (n + 1) - 1 = n
      BY <1>1
    <3>2. w[n] = e[n]
      BY <2>2, <3>1
    <3>3. w[n + 1] = Sh!Wrapped(w[n] * 10 + Digit[digits[n + 1]])
      BY <1>11, <3>1
    <3>4. e[n + 1] = e[n] * 10 + Digit[digits[n + 1]]
      BY <1>5, <3>1
    <3>5. Sh!Wrapped(e[n + 1]) = e[n + 1]
      BY <1>8, <3>1
    <3> QED BY <3>2, <3>3, <3>4, <3>5
  <2> HIDE DEF S
  <2>3. Nat \subseteq S
    BY <2>1, <2>2, SetInduction
  <2> QED BY <1>1, <2>3 DEF S
<1> QED BY <1>1, <1>2, <1>12

-----------------------------------------------------------------------------
(* The steps of the shell *)

LEMMA TakeKbd ==
    ASSUME LineInv, kbd # <<>>, kbd' = Tail(kbd)
    PROVE  kbd' \in Seq(Letters \union {NewLine, Backspace})
  BY DEF LineInv

LEMMA FrontOfLine ==
    ASSUME NEW s \in Seq(Letters), s # <<>>
    PROVE  /\ SubSeq(s, 1, Len(s) - 1) \in Seq(Letters) /\ Len(SubSeq(s, 1, Len(s) - 1)) = Len(s) - 1
           /\ \A i \in 1..Len(s) - 1 : SubSeq(s, 1, Len(s) - 1)[i] = s[i]
<1>1. Len(s) \in Nat /\ Len(s) >= 1
  OBVIOUS
<1>2. SubSeq(s, 1, Len(s) - 1) = [i \in 1..Len(s) - 1 |-> s[i]]
  BY <1>1
<1> DEFINE t == [i \in 1..Len(s) - 1 |-> s[i]]
<1>3. t \in Seq(Letters) /\ Len(t) = Len(s) - 1
  BY <1>1
<1> QED BY <1>1, <1>2, <1>3

LEMMA LineInitially == ASSUME Sh!Init PROVE LineInv
  BY ShellAssumption DEF Sh!Init, LineInv

LEMMA LineStep == ASSUME LineInv, Sh!Next PROVE LineInv'
<1>1. MAX_CMD_LENGTH \in Nat /\ MAX_CMD_LENGTH >= 1
  BY ShellAssumption
<1>2. /\ line \in Seq(Letters) /\ DOMAIN command = Sh!Cells
      /\ kbd \in Seq(Letters \union {NewLine, Backspace})
  BY DEF LineInv
<1> USE DEF Sh!buffer, Sh!ghosts, Sh!Quiet
<1>3. CASE Sh!Start
  BY <1>2, <1>3 DEF Sh!Start, LineInv
<1>4. CASE Sh!UntilC
  BY <1>2, <1>4, TakeKbd DEF Sh!UntilC, LineInv
<1>5. CASE Sh!Wake
  BY <1>2, <1>5 DEF Sh!Wake, LineInv
<1>6. CASE Sh!Prompt
  BY <1>1, <1>2, <1>6 DEF Sh!Prompt, LineInv
<1>7. CASE Sh!ReadLetter
  <2>1. /\ pcS = "read" /\ pcS' = "read" /\ len = Len(line) /\ len < MAX_CMD_LENGTH - 1
        /\ \A i \in 1..Len(line) : command[i - 1] = line[i]
    BY <1>7 DEF Sh!ReadLetter, LineInv
  <2>2. PICK letter \in Letters : /\ line' = Append(line, letter)
                                  /\ len' = len + 1 /\ command' = [command EXCEPT ![len] = letter]
                                  /\ kbd # <<>> /\ kbd' = Tail(kbd)
    BY <1>7 DEF Sh!ReadLetter
  <2>3. line' \in Seq(Letters) /\ Len(line') = Len(line) + 1
    BY <1>2, <2>1, <2>2
  <2>4. len \in Sh!Cells /\ DOMAIN command' = Sh!Cells
    BY <1>1, <1>2, <2>1, <2>2 DEF Sh!Cells
  <2>5. \A i \in 1..Len(line') : command'[i - 1] = line'[i]
    <3> TAKE i \in 1..Len(line')
    <3>1. CASE i = Len(line) + 1
      <4>1. i - 1 = len
        BY <1>2, <2>1, <3>1
      <4> QED BY <1>2, <2>2, <2>4, <3>1, <4>1
    <3>2. CASE i # Len(line) + 1
      <4>1. i \in 1..Len(line) /\ i - 1 # len /\ i - 1 \in Sh!Cells
        BY <1>1, <1>2, <2>1, <2>3, <3>2 DEF Sh!Cells
      <4> QED BY <1>2, <2>1, <2>2, <4>1
    <3> QED BY <3>1, <3>2
  <2>6. len' = Len(line') /\ len' <= MAX_CMD_LENGTH - 1
    BY <1>1, <1>2, <2>1, <2>2, <2>3
  <2> QED BY <2>1, <2>2, <2>3, <2>4, <2>5, <2>6, TakeKbd DEF LineInv
<1>8. CASE Sh!ReadBackspace
  <2>1. /\ pcS = "read" /\ pcS' = "read" /\ len = Len(line) /\ len < MAX_CMD_LENGTH - 1
        /\ \A i \in 1..Len(line) : command[i - 1] = line[i]
        /\ command' = command /\ kbd # <<>> /\ kbd' = Tail(kbd)
    BY <1>8 DEF Sh!ReadBackspace, LineInv
  <2>2. CASE line = <<>>
    BY <1>1, <1>2, <1>8, <2>1, <2>2, TakeKbd DEF Sh!ReadBackspace, LineInv
  <2>3. CASE line # <<>>
    <3>1. line' = SubSeq(line, 1, Len(line) - 1) /\ len' = len - 1
      BY <1>2, <1>8, <2>1, <2>3 DEF Sh!ReadBackspace, Sh!Front
    <3>2. /\ line' \in Seq(Letters) /\ Len(line') = Len(line) - 1
          /\ \A i \in 1..Len(line') : line'[i] = line[i]
      BY <1>2, <2>3, <3>1, FrontOfLine
    <3>3. \A i \in 1..Len(line') : command'[i - 1] = line'[i]
      BY <1>2, <2>1, <3>2
    <3> QED BY <1>1, <1>2, <2>1, <3>1, <3>2, <3>3, TakeKbd DEF LineInv
  <2> QED BY <2>2, <2>3
<1>9. CASE Sh!ReadEnd
  <2>1. /\ pcS = "read" /\ pcS' = "dispatch" /\ len = Len(line) /\ len <= MAX_CMD_LENGTH - 1
        /\ \A i \in 1..Len(line) : command[i - 1] = line[i]
        /\ command' = [command EXCEPT ![len] = Nul]
        /\ UNCHANGED <<line, len>>
    BY <1>9 DEF Sh!ReadEnd, LineInv
  <2>2. kbd' \in Seq(Letters \union {NewLine, Backspace})
    BY <1>2, <1>9, TakeKbd DEF Sh!ReadEnd
  <2>3. len \in Sh!Cells /\ DOMAIN command' = Sh!Cells /\ command'[len] = Nul
    BY <1>1, <1>2, <2>1 DEF Sh!Cells
  <2>4. \A i \in 1..Len(line) : command'[i - 1] = line[i]
    <3> TAKE i \in 1..Len(line)
    <3>1. i - 1 # len
      BY <1>2, <2>1
    <3> QED BY <1>2, <2>1, <3>1
  <2> QED BY <1>2, <2>1, <2>2, <2>3, <2>4 DEF LineInv
<1>10. CASE Sh!Run
  <2>1. pcS' \notin {"read", "dispatch"} /\ UNCHANGED <<line, command, kbd>>
    BY <1>10 DEF Sh!Run, Sh!RunHelp, Sh!RunRegs, Sh!RunShort, Sh!RunException, Sh!RunExit,
                 Sh!RunZoom, Sh!RunPongis
  <2> QED BY <1>2, <2>1 DEF LineInv
<1>11. CASE Sh!GamePlays
  BY <1>2, <1>11, TakeKbd DEF Sh!GamePlays, LineInv
<1>12. CASE Sh!GameEnds
  BY <1>2, <1>12 DEF Sh!GameEnds, LineInv
<1>13. CASE Sh!TypeKey
  <2>1. kbd' \in Seq(Letters \union {NewLine, Backspace})
    BY <1>2, <1>13 DEF Sh!TypeKey
  <2> QED BY <1>2, <1>13, <2>1 DEF Sh!TypeKey, LineInv
<1> QED BY <1>3, <1>4, <1>5, <1>6, <1>7, <1>8, <1>9, <1>10, <1>11, <1>12, <1>13 DEF Sh!Next, Sh!Program

\* The commands: all but zoom leave the user's zoom where it was.
LEMMA ZoomCommand ==
    ASSUME LineInv, ZoomInv, NumbersFit, Sh!RunZoom
    PROVE  ZoomInv'
<1> DEFINE prefix == Len(Word["zoom"])
           digits == SubSeq(line, prefix + 1, Len(line))
           asInt == Sh!IntNumber(digits)
           asked == Sh!Number(digits)
           Numeric == Sh!ToSet(digits) \subseteq DOMAIN Digit
<1>1. pcS = "dispatch" /\ Sh!IsZoom /\ Sh!Text(command) = line
  BY TextIsLine DEF Sh!RunZoom
<1>2. /\ zoom' = IF Numeric /\ asInt \in ZOOM_MIN..ZOOM_MAX THEN asInt ELSE zoom
      /\ userZoom' = IF Sh!Asked \in ZOOM_MIN..ZOOM_MAX THEN Sh!Asked ELSE userZoom
      /\ pcS' = "prompt" /\ UNCHANGED <<first_run, welcomes, screenS, prev_zoom>>
  BY <1>1 DEF Sh!RunZoom, Sh!Quiet
<1>3. Sh!Asked = IF Numeric THEN asked ELSE 0
  BY DEF Sh!Asked
<1>4. Sh!Asked < IntRange \div 2
  BY <1>1 DEF NumbersFit
<1>5. Numeric => asInt = asked
  <2> SUFFICES ASSUME Numeric PROVE asInt = asked
    OBVIOUS
  <2>1. line \in Seq(Letters) /\ prefix \in Nat
    BY ShellAssumption DEF LineInv
  <2>2. digits \in Seq(Letters)
    BY <2>1
  <2>3. digits \in Seq(DOMAIN Digit)
    <3>1. Numeric => \A i \in DOMAIN digits : digits[i] \in DOMAIN Digit
      <4> HIDE DEF digits
      <4> QED BY DEF Sh!ToSet
    <3> HIDE DEF digits
    <3>2. digits = [i \in 1..Len(digits) |-> digits[i]] /\ Len(digits) \in Nat /\ DOMAIN digits = 1..Len(digits)
      BY <2>2
    <3> QED BY <3>1, <3>2
  <2>4. asked < IntRange \div 2
    BY <1>3, <1>4
  <2> HIDE DEF digits
  <2> QED BY <2>3, <2>4, FittingNumber
<1>6. 0 \notin ZOOM_MIN..ZOOM_MAX
  BY ShellAssumption
<1>7. zoom' = userZoom'
  <2>1. zoom = userZoom
    BY <1>1 DEF ZoomInv
  <2> HIDE DEF asInt, asked, Numeric
  <2> QED BY <1>2, <1>3, <1>5, <1>6, <2>1
<1> QED BY <1>1, <1>2, <1>7 DEF ZoomInv

LEMMA ZoomStep == ASSUME LineInv, ZoomInv, NumbersFit, Sh!Next PROVE ZoomInv'
<1> USE DEF Sh!buffer, Sh!ghosts, Sh!Quiet, ZoomInv
<1>1. CASE Sh!Start
  BY <1>1 DEF Sh!Start
<1>2. CASE Sh!UntilC
  BY <1>2 DEF Sh!UntilC
<1>3. CASE Sh!Wake
  BY <1>3 DEF Sh!Wake
<1>4. CASE Sh!Prompt
  BY <1>4 DEF Sh!Prompt
<1>5. CASE Sh!ReadLetter \/ Sh!ReadBackspace \/ Sh!ReadEnd
  BY <1>5 DEF Sh!ReadLetter, Sh!ReadBackspace, Sh!ReadEnd
<1>6. CASE Sh!Run
  <2>1. CASE Sh!RunZoom
    BY <2>1, ZoomCommand
  <2>2. CASE ~Sh!RunZoom
    <3>1. /\ pcS = "dispatch" /\ UNCHANGED <<first_run, welcomes, userZoom>>
          /\ \/ pcS' \in {"prompt", "start", "off"} /\ UNCHANGED zoom
             \/ pcS' = "getc" /\ screenS' = "regs" /\ UNCHANGED zoom
             \/ pcS' = "getc" /\ screenS' = "help" /\ prev_zoom' = zoom
             \/ pcS' = "game" /\ prev_zoom' = zoom
      BY <1>6, <2>2 DEF Sh!Run, Sh!RunHelp, Sh!RunRegs, Sh!RunShort, Sh!RunException, Sh!RunExit,
                        Sh!RunPongis, Sh!Named
    <3> QED BY <3>1
  <2> QED BY <2>1, <2>2
<1>7. CASE Sh!GamePlays \/ Sh!GameEnds
  BY <1>7 DEF Sh!GamePlays, Sh!GameEnds
<1>8. CASE Sh!TypeKey
  BY <1>8 DEF Sh!TypeKey
<1> QED BY <1>1, <1>2, <1>3, <1>4, <1>5, <1>6, <1>7, <1>8 DEF Sh!Next, Sh!Program

\* The program next to the other subjects of MCPrograms.
LEMMA ProgramsLine == ProgramsSpec => []LineInv
<1>1. ProgramsInit => LineInv
  BY LineInitially DEF ProgramsInit
<1>2. LineInv /\ UNCHANGED shellVars => LineInv'
  BY DEF shellVars, LineInv
<1>3. [ProgramsNext]_allVars => Sh!Next \/ UNCHANGED shellVars
  BY DEF ProgramsNext, allVars
<1>4. LineInv /\ [ProgramsNext]_allVars => LineInv'
  BY <1>2, <1>3, LineStep
<1> QED BY <1>1, <1>4, PTL DEF ProgramsSpec

\* The command that runs is the line on the screen, whatever the stack, an
\* older line or backspaces left in the buffer, for every length of the buffer
\* and every set of commands (the loop of shell, strcmp).
THEOREM DispatchSeesTheLineHolds == ProgramsSpec => []DispatchSeesTheLine
<1>1. LineInv => DispatchSeesTheLine
  BY TextIsLine DEF LineInv, DispatchSeesTheLine, Sh!DispatchSeesTheLine
<1> QED BY <1>1, ProgramsLine, PTL

\* As long as the numbers typed after zoom fit in an int, the prompt has the
\* zoom the user asked for last, after whatever commands, games and exceptions,
\* and the welcome is shown once (cmd_help, pongis, zoom and first_run).
THEOREM PromptIsAsLeftHolds == ProgramsSpec /\ []NumbersFit => []PromptIsAsLeft
<1>1. ProgramsInit => ZoomInv
  BY DEF ProgramsInit, Sh!Init, ZoomInv
<1>2. ZoomInv /\ UNCHANGED shellVars => ZoomInv'
  BY DEF shellVars, ZoomInv
<1>3. [ProgramsNext]_allVars => Sh!Next \/ UNCHANGED shellVars
  BY DEF ProgramsNext, allVars
<1>4. LineInv /\ NumbersFit /\ ZoomInv /\ [ProgramsNext]_allVars => ZoomInv'
  BY <1>2, <1>3, ZoomStep
<1>5. ZoomInv => PromptIsAsLeft
  BY DEF ZoomInv, PromptIsAsLeft, Sh!PromptZoomIsUsers, Sh!WelcomeOnce
<1> QED BY <1>1, <1>4, <1>5, ProgramsLine, PTL DEF ProgramsSpec
-----------------------------------------------------------------------------
(* The picture: circles *)

Colors == {"black", "hole", "obstacle", "first", "ball", "second"}

Drawing == Seq([center : Point, radius : Nat, color : Colors])

\* Circle i covers the point.
Over(circles, i, p) == Picture!Covers(circles[i].center, circles[i].radius, p)

\* The one that covers it last is the one that is seen.
LEMMA PaintLast ==
    ASSUME NEW color, NEW circles \in Drawing, NEW p, NEW i \in 1..Len(circles), Over(circles, i, p),
           \A j \in 1..Len(circles) : j > i => ~Over(circles, j, p)
    PROVE  Picture!Paint(color, circles, p) = circles[i].color
<1> DEFINE O == {j \in DOMAIN circles : Over(circles, j, p)}
<1>1. DOMAIN circles = 1..Len(circles) /\ Len(circles) \in Nat
  BY DEF Drawing
<1>2. i \in O /\ O \subseteq Int /\ \A j \in O : i >= j
  BY <1>1
<1>3. Picture!Max(O) = i
  <2> HIDE DEF O
  <2>1. Picture!Max(O) \in O /\ \A j \in O : Picture!Max(O) >= j
    BY <1>2 DEF Picture!Max
  <2>2. Picture!Max(O) \in Int /\ i \in Int /\ Picture!Max(O) >= i /\ i >= Picture!Max(O)
    BY <2>1, <1>2
  <2> QED BY <2>2
<1> QED BY <1>2, <1>3 DEF Picture!Paint, Over

LEMMA PaintNone ==
    ASSUME NEW color, NEW circles \in Drawing, NEW p, \A i \in 1..Len(circles) : ~Over(circles, i, p)
    PROVE  Picture!Paint(color, circles, p) = color
  BY DEF Picture!Paint, Over, Drawing

LEMMA SomeLast ==
    ASSUME NEW n \in Nat, NEW S \in SUBSET (1..n), S # {}
    PROVE  \E i \in S : \A j \in S : i >= j
<1> DEFINE M == {m \in Nat : \A T \in SUBSET (1..m) : T # {} => \E i \in T : \A j \in T : i >= j}
<1>1. 0 \in M
  <2>1. 1..0 = {}
    OBVIOUS
  <2> QED BY <2>1
<1>2. ASSUME NEW m \in Nat, m \in M PROVE m + 1 \in M
  <2> SUFFICES ASSUME NEW T \in SUBSET (1..(m + 1)), T # {} PROVE \E i \in T : \A j \in T : i >= j
    BY <1>2
  <2>1. CASE m + 1 \in T
    BY <2>1
  <2>2. CASE m + 1 \notin T
    <3>1. T \in SUBSET (1..m)
      BY <2>2
    <3> QED BY <1>2, <3>1
  <2> QED BY <2>1, <2>2
<1> HIDE DEF M
<1>3. Nat \subseteq M
  BY <1>1, <1>2, SetInduction
<1> QED BY <1>3 DEF M

\* Either nothing covers the point or something covers it last.
LEMMA LastOrNone ==
    ASSUME NEW circles \in Drawing, NEW p
    PROVE  \/ \A i \in 1..Len(circles) : ~Over(circles, i, p)
           \/ \E i \in 1..Len(circles) :
                  Over(circles, i, p) /\ \A j \in 1..Len(circles) : j > i => ~Over(circles, j, p)
<1> DEFINE O == {j \in 1..Len(circles) : Over(circles, j, p)}
<1>1. Len(circles) \in Nat /\ O \in SUBSET (1..Len(circles))
  BY DEF Drawing
<1>2. CASE O = {}
  BY <1>2
<1>3. CASE O # {}
  <2>1. PICK i \in O : \A j \in O : i >= j
    BY <1>1, <1>3, SomeLast
  <2> QED BY <1>1, <2>1
<1> QED BY <1>2, <1>3

\* Drawing one sequence after another.
LEMMA PaintTwo ==
    ASSUME NEW color, NEW s \in Drawing, NEW t \in Drawing, NEW p
    PROVE  /\ s \o t \in Drawing
           /\ Picture!Paint(color, s \o t, p) = Picture!Paint(Picture!Paint(color, s, p), t, p)
<1> DEFINE u == s \o t
<1>1. /\ u \in Drawing /\ Len(u) = Len(s) + Len(t) /\ Len(s) \in Nat /\ Len(t) \in Nat
      /\ \A i \in 1..Len(s) + Len(t) : u[i] = IF i <= Len(s) THEN s[i] ELSE t[i - Len(s)]
  BY ConcatProperties DEF Drawing
<1> SUFFICES Picture!Paint(color, u, p) = Picture!Paint(Picture!Paint(color, s, p), t, p)
  BY <1>1
<1> HIDE DEF u
<1>2. \A i \in 1..Len(u) : Over(u, i, p) <=> IF i <= Len(s) THEN Over(s, i, p) ELSE Over(t, i - Len(s), p)
  BY <1>1 DEF Over
<1>3. CASE \E i \in 1..Len(t) : Over(t, i, p) /\ \A j \in 1..Len(t) : j > i => ~Over(t, j, p)
  <2>1. PICK i \in 1..Len(t) : Over(t, i, p) /\ \A j \in 1..Len(t) : j > i => ~Over(t, j, p)
    BY <1>3
  <2> DEFINE k == Len(s) + i
  <2>2. k \in 1..Len(u) /\ ~(k <= Len(s)) /\ k - Len(s) = i /\ u[k] = t[i]
    BY <1>1
  <2>3. Over(u, k, p)
    BY <1>2, <2>1, <2>2
  <2>4. ASSUME NEW j \in 1..Len(u), j > k PROVE ~Over(u, j, p)
    <3>1. ~(j <= Len(s)) /\ j - Len(s) \in 1..Len(t) /\ j - Len(s) > i
      BY <1>1, <2>4
    <3> QED BY <1>2, <2>1, <3>1
  <2>5. Picture!Paint(color, u, p) = u[k].color
    <3>1. u \in Drawing /\ k \in 1..Len(u) /\ Over(u, k, p)
      BY <1>1, <2>2, <2>3
    <3>2. \A j \in 1..Len(u) : j > k => ~Over(u, j, p)
      BY <2>4
    <3> HIDE DEF k
    <3> QED BY <3>1, <3>2, PaintLast
  <2>6. Picture!Paint(Picture!Paint(color, s, p), t, p) = t[i].color
    BY <2>1, PaintLast
  <2> QED BY <2>2, <2>5, <2>6
<1>4. CASE \A i \in 1..Len(t) : ~Over(t, i, p)
  <2>1. Picture!Paint(Picture!Paint(color, s, p), t, p) = Picture!Paint(color, s, p)
    BY <1>4, PaintNone
  <2>2. ASSUME NEW j \in 1..Len(u), j > Len(s) PROVE ~Over(u, j, p)
    <3>1. ~(j <= Len(s)) /\ j - Len(s) \in 1..Len(t)
      BY <1>1, <2>2
    <3> QED BY <1>2, <1>4, <3>1
  <2>3. CASE \A i \in 1..Len(s) : ~Over(s, i, p)
    <3>1. \A j \in 1..Len(u) : ~Over(u, j, p)
      <4> TAKE j \in 1..Len(u)
      <4>1. CASE j <= Len(s)
        BY <1>1, <1>2, <2>3, <4>1
      <4>2. CASE ~(j <= Len(s))
        BY <1>1, <2>2, <4>2
      <4> QED BY <4>1, <4>2
    <3>2. Picture!Paint(color, u, p) = color
      BY <1>1, <3>1, PaintNone
    <3>3. Picture!Paint(color, s, p) = color
      BY <2>3, PaintNone
    <3> QED BY <2>1, <3>2, <3>3
  <2>4. CASE \E i \in 1..Len(s) : Over(s, i, p) /\ \A j \in 1..Len(s) : j > i => ~Over(s, j, p)
    <3>1. PICK i \in 1..Len(s) : Over(s, i, p) /\ \A j \in 1..Len(s) : j > i => ~Over(s, j, p)
      BY <2>4
    <3>2. i \in 1..Len(u) /\ i <= Len(s) /\ u[i] = s[i] /\ Over(u, i, p)
      BY <1>1, <1>2, <3>1
    <3>3. ASSUME NEW j \in 1..Len(u), j > i PROVE ~Over(u, j, p)
      <4>1. CASE j <= Len(s)
        <5>1. j \in 1..Len(s)
          BY <4>1
        <5> QED BY <1>2, <3>1, <3>3, <4>1, <5>1
      <4>2. CASE ~(j <= Len(s))
        BY <1>1, <2>2, <4>2
      <4> QED BY <4>1, <4>2
    <3>4. Picture!Paint(color, u, p) = u[i].color
      BY <1>1, <3>2, <3>3, PaintLast
    <3>5. Picture!Paint(color, s, p) = s[i].color
      BY <3>1, PaintLast
    <3> QED BY <2>1, <3>2, <3>4, <3>5
  <2> QED BY <2>3, <2>4, LastOrNone
<1> QED BY <1>3, <1>4, LastOrNone

\* Circles of one color.
LEMMA PaintAlike ==
    ASSUME NEW color, NEW c, NEW s \in Drawing, NEW p, \A i \in 1..Len(s) : s[i].color = c
    PROVE  Picture!Paint(color, s, p) = IF \E i \in 1..Len(s) : Over(s, i, p) THEN c ELSE color
<1>1. CASE \A i \in 1..Len(s) : ~Over(s, i, p)
  BY <1>1, PaintNone
<1>2. CASE \E i \in 1..Len(s) : Over(s, i, p) /\ \A j \in 1..Len(s) : j > i => ~Over(s, j, p)
  BY <1>2, PaintLast
<1> QED BY <1>1, <1>2, LastOrNone

LEMMA PaintOne ==
    ASSUME NEW color, NEW point \in Point, NEW radius \in Nat, NEW c \in Colors, NEW p
    PROVE  /\ <<Picture!Circle(point, radius, c)>> \in Drawing
           /\ Picture!Paint(color, <<Picture!Circle(point, radius, c)>>, p)
                = IF Picture!Covers(point, radius, p) THEN c ELSE color
<1> DEFINE s == <<Picture!Circle(point, radius, c)>>
<1>1. s \in Drawing /\ Len(s) = 1 /\ s[1].color = c /\ s[1].center = point /\ s[1].radius = radius
  BY DEF Drawing, Picture!Circle
<1> HIDE DEF s
<1>2. Over(s, 1, p) <=> Picture!Covers(point, radius, p)
  BY <1>1 DEF Over
<1>3. 1..Len(s) = {1}
  BY <1>1
<1>4. \A i \in 1..Len(s) : s[i].color = c
  BY <1>1, <1>3
<1>5. Picture!Paint(color, s, p) = IF \E i \in 1..Len(s) : Over(s, i, p) THEN c ELSE color
  BY <1>1, <1>4, PaintAlike
<1>6. (\E i \in 1..Len(s) : Over(s, i, p)) <=> Picture!Covers(point, radius, p)
  BY <1>2, <1>3
<1>7. Picture!Paint(color, s, p) = IF Picture!Covers(point, radius, p) THEN c ELSE color
  BY <1>5, <1>6
<1> QED BY <1>1, <1>7 DEF s

LEMMA PaintNothing ==
    ASSUME NEW color, NEW p
    PROVE  << >> \in Drawing /\ Picture!Paint(color, << >>, p) = color
<1>1. << >> \in Drawing /\ Len(<< >>) = 0
  BY DEF Drawing
<1> QED BY <1>1, PaintNone

-----------------------------------------------------------------------------
(* The picture: circles that overlap *)

LEMMA Roots ==
    ASSUME NEW x \in Int, NEW y \in Nat, x * x <= y * y
    PROVE  x <= y
<1> SUFFICES ASSUME x >= y + 1 PROVE FALSE
  OBVIOUS
<1>1. x * x >= (y + 1) * x
  OBVIOUS
<1>2. (y + 1) * x >= (y + 1) * (y + 1)
  OBVIOUS
<1>3. (y + 1) * (y + 1) = y * y + 2 * y + 1
  OBVIOUS
<1> QED BY <1>1, <1>2, <1>3

LEMMA CauchySchwarz ==
    ASSUME NEW a \in Int, NEW b \in Int, NEW c \in Int, NEW d \in Int, NEW r \in Nat, NEW s \in Nat,
           a * a + b * b <= r * r, c * c + d * d <= s * s
    PROVE  a * c + b * d <= r * s
<1> DEFINE A == a * a + b * b
           B == c * c + d * d
           x == a * c + b * d
           y == a * d - b * c
           R == r * r
           S == s * s
<1>1. x * x + y * y = A * B
  OBVIOUS
<1>2. y * y >= 0 /\ A >= 0 /\ B >= 0
  <2>1. \A z \in Int : z * z >= 0
    OBVIOUS
  <2> QED BY <2>1
<1>3. A * B <= R * S
  <2>1. A \in Int /\ B \in Int /\ R \in Int /\ S \in Int /\ A <= R /\ B <= S
    OBVIOUS
  <2> HIDE DEF A, B, R, S
  <2>2. A * B <= R * B
    BY <1>2, <2>1
  <2>3. R >= 0
    BY <1>2, <2>1
  <2>4. R * B <= R * S
    BY <2>1, <2>3
  <2>5. A * B \in Int /\ R * B \in Int /\ R * S \in Int
    BY <2>1
  <2> QED BY <2>2, <2>4, <2>5
<1>4. R * S = (r * s) * (r * s)
  OBVIOUS
<1>5. x * x <= (r * s) * (r * s)
  <2>1. x * x \in Int /\ y * y \in Int /\ A * B \in Int /\ R * S \in Int
    OBVIOUS
  <2> HIDE DEF A, B, R, S, x, y
  <2> QED BY <1>1, <1>2, <1>3, <1>4, <2>1
<1>6. x \in Int /\ r * s \in Nat
  OBVIOUS
<1> HIDE DEF x
<1>7. x <= r * s
  BY <1>5, <1>6, Roots
<1> QED BY <1>7 DEF x

\* Circles with a point in common overlap: what a body covers of the hole is
\* never left black.
LEMMA CommonPoint ==
    ASSUME NEW u \in Point, NEW v \in Point, NEW p \in Point, NEW r \in Nat, NEW s \in Nat,
           Picture!Covers(u, r, p), Picture!Covers(v, s, p)
    PROVE  Picture!objects_overlap(u, v, r, s)
<1> DEFINE a == u[1] - p[1]
           b == u[2] - p[2]
           c == p[1] - v[1]
           d == p[2] - v[2]
<1>1. a \in Int /\ b \in Int /\ c \in Int /\ d \in Int
  BY DEF Point
<1>2. a * a + b * b <= r * r
  BY DEF Picture!Covers, Picture!Square
<1>3. c * c + d * d <= s * s
  <2>1. v[1] \in Int /\ v[2] \in Int /\ p[1] \in Int /\ p[2] \in Int
    BY DEF Point
  <2>2. (v[1] - p[1]) * (v[1] - p[1]) = c * c /\ (v[2] - p[2]) * (v[2] - p[2]) = d * d
    BY <2>1
  <2> QED BY <2>2 DEF Picture!Covers, Picture!Square
<1>4. u[1] - v[1] = a + c /\ u[2] - v[2] = b + d
  BY DEF Point
<1> HIDE DEF a, b, c, d
<1>5. a * c + b * d <= r * s
  BY <1>1, <1>2, <1>3, CauchySchwarz
<1>6. (a + c) * (a + c) + (b + d) * (b + d) = (a * a + b * b) + (c * c + d * d) + 2 * (a * c + b * d)
  BY <1>1
<1>7. (r + s) * (r + s) = r * r + s * s + 2 * (r * s)
  OBVIOUS
<1>8. (a + c) * (a + c) + (b + d) * (b + d) <= (r + s) * (r + s)
  BY <1>1, <1>2, <1>3, <1>5, <1>6, <1>7
<1> QED BY <1>4, <1>8 DEF Picture!objects_overlap, Picture!Square
-----------------------------------------------------------------------------
(* The picture: a frame *)

\* What is on the screen where there is no body and no obstacle.
Base(p) == IF Picture!Covers(sceneF.hole, sceneF.holeRadius, p) THEN "hole" ELSE "black"

Inside(p) == \E o \in Picture!ToSet(sceneF.obstacles) : Picture!Covers(o[1], o[2], p)

\* A body is not where it was, over the point.
Wiped(body, now, p) ==
    /\ body \in Picture!Bodies /\ position[body] # now[body]
    /\ Picture!Covers(position[body], Picture!Radius(body), p)

\* A body comes to be over the point.
Comes(body, now, p) == body \in Picture!Bodies /\ Picture!Covers(now[body], Picture!Radius(body), p)

PictureTypes ==
    /\ sceneF \in Fields
    /\ position \in [Picture!Bodies -> Point]
    /\ DOMAIN pixels = Picture!Screen(sceneF)

PictureInv ==
    IF subject = "picture"
    THEN /\ PictureTypes
         /\ \A p \in Picture!Screen(sceneF) : pixels[p] = IF shown THEN Picture!Topmost(p) ELSE Base(p)
    ELSE shown = FALSE

LEMMA PointsOfScreen == ASSUME PictureTypes, NEW p \in Picture!Screen(sceneF) PROVE p \in Point
<1>1. sceneF.width \in Nat /\ sceneF.height \in Nat
  BY FieldsAssumption DEF PictureTypes
<1> QED BY <1>1 DEF Picture!Screen, Point

LEMMA Radii == ASSUME NEW body PROVE Picture!Radius(body) \in Nat
  BY FieldsAssumption DEF Picture!Radius

LEMMA PaintCleared ==
    ASSUME PictureTypes, NEW now, NEW body, NEW color, NEW p
    PROVE  /\ Picture!Cleared(body, now) \in Drawing
           /\ Picture!Paint(color, Picture!Cleared(body, now), p)
                = IF Wiped(body, now, p) THEN "black" ELSE color
<1>1. CASE body \in Picture!Bodies /\ position[body] # now[body]
  <2>1. position[body] \in Point /\ Picture!Radius(body) \in Nat
    BY <1>1, Radii DEF PictureTypes
  <2> DEFINE c == <<Picture!Circle(position[body], Picture!Radius(body), "black")>>
  <2>2. "black" \in Colors
    BY DEF Colors
  <2>3. /\ c \in Drawing
        /\ Picture!Paint(color, c, p) = IF Picture!Covers(position[body], Picture!Radius(body), p) THEN "black" ELSE color
    BY <2>1, <2>2, PaintOne
  <2>4. Picture!Cleared(body, now) = c
    BY <1>1 DEF Picture!Cleared
  <2> QED BY <1>1, <2>3, <2>4 DEF Wiped
<1>2. CASE ~(body \in Picture!Bodies /\ position[body] # now[body])
  BY <1>2, PaintNothing DEF Picture!Cleared, Wiped
<1> QED BY <1>1, <1>2

LEMMA PaintAHole ==
    ASSUME NEW s \in Fields, NEW color, NEW p
    PROVE  /\ Picture!draw_hole(s) \in Drawing
           /\ Picture!Paint(color, Picture!draw_hole(s), p)
                = IF Picture!Covers(s.hole, s.holeRadius, p) THEN "hole" ELSE color
<1>1. s.hole \in Point /\ s.holeRadius \in Nat
  BY FieldsAssumption
<1>2. "hole" \in Colors
  BY DEF Colors
<1> DEFINE c == <<Picture!Circle(s.hole, s.holeRadius, "hole")>>
<1>3. c \in Drawing /\ Picture!Paint(color, c, p) = IF Picture!Covers(s.hole, s.holeRadius, p) THEN "hole" ELSE color
  BY <1>1, <1>2, PaintOne
<1>4. Picture!draw_hole(s) = c
  BY DEF Picture!draw_hole
<1> HIDE DEF c
<1> QED BY <1>3, <1>4

LEMMA PaintHole ==
    ASSUME PictureTypes, NEW color, NEW p
    PROVE  LET h == IF Picture!HoleDamaged THEN Picture!draw_hole(sceneF) ELSE << >>
           IN  /\ h \in Drawing
               /\ Picture!Paint(color, h, p)
                    = IF Picture!HoleDamaged /\ Picture!Covers(sceneF.hole, sceneF.holeRadius, p)
                      THEN "hole" ELSE color
<1>1. sceneF \in Fields
  BY DEF PictureTypes
<1>2. CASE Picture!HoleDamaged
  BY <1>1, <1>2, PaintAHole
<1>3. CASE ~Picture!HoleDamaged
  BY <1>3, PaintNothing
<1> QED BY <1>2, <1>3

LEMMA PaintBody ==
    ASSUME PictureTypes, NEW now \in [Picture!Bodies -> Point], NEW body \in Picture!Bodies,
           body \in Colors, NEW color, NEW p
    PROVE  LET c == <<Picture!Circle(now[body], Picture!Radius(body), body)>>
           IN  c \in Drawing /\ Picture!Paint(color, c, p) = IF Comes(body, now, p) THEN body ELSE color
<1>1. now[body] \in Point /\ Picture!Radius(body) \in Nat
  BY Radii
<1> QED BY <1>1, PaintOne DEF Comes

LEMMA PaintObstacles ==
    ASSUME PictureTypes, NEW color, NEW p
    PROVE  /\ Picture!draw_obstacles \in Drawing
           /\ Picture!Paint(color, Picture!draw_obstacles, p) = IF Inside(p) THEN "obstacle" ELSE color
<1> DEFINE s == Picture!draw_obstacles
           os == sceneF.obstacles
<1>1. os \in Seq(Point \X Nat)
  BY FieldsAssumption DEF PictureTypes
<1>2. Len(os) \in Nat /\ DOMAIN os = 1..Len(os) /\ \A i \in 1..Len(os) : os[i] \in Point \X Nat
  BY <1>1
<1>3. s = [i \in 1..Len(os) |-> [center |-> os[i][1], radius |-> os[i][2], color |-> "obstacle"]]
  BY <1>2 DEF Picture!draw_obstacles, Picture!Circle
<1>4. \A i \in 1..Len(os) : os[i][1] \in Point /\ os[i][2] \in Nat
  BY <1>2
<1>5. s \in Drawing /\ Len(s) = Len(os)
  BY <1>2, <1>3, <1>4 DEF Drawing, Colors
<1>6. \A i \in 1..Len(s) : s[i].color = "obstacle" /\ (Over(s, i, p) <=> Picture!Covers(os[i][1], os[i][2], p))
  BY <1>3, <1>5 DEF Over
<1>7. Picture!ToSet(os) = {os[i] : i \in 1..Len(os)}
  BY <1>2 DEF Picture!ToSet
<1>8. Inside(p) <=> \E i \in 1..Len(os) : Picture!Covers(os[i][1], os[i][2], p)
  BY <1>7 DEF Inside
<1> HIDE DEF s, os
<1>9. Inside(p) <=> \E i \in 1..Len(s) : Over(s, i, p)
  BY <1>5, <1>6, <1>8
<1>10. Picture!Paint(color, s, p) = IF \E i \in 1..Len(s) : Over(s, i, p) THEN "obstacle" ELSE color
  BY <1>5, <1>6, PaintAlike
<1> QED BY <1>5, <1>9, <1>10 DEF s

\* What a frame makes of a point.
LEMMA PaintFrame ==
    ASSUME PictureTypes, NEW now \in [Picture!Bodies -> Point], NEW color, NEW p
    PROVE  Picture!Paint(color, Picture!render_playing(now), p)
             = IF Inside(p) THEN "obstacle"
               ELSE IF Comes("ball", now, p) THEN "ball"
               ELSE IF Comes("first", now, p) THEN "first"
               ELSE IF Comes("second", now, p) THEN "second"
               ELSE IF Picture!HoleDamaged /\ Picture!Covers(sceneF.hole, sceneF.holeRadius, p) THEN "hole"
               ELSE IF \E b \in {"first", "ball", "second"} : Wiped(b, now, p) THEN "black"
               ELSE color
<1> DEFINE wf == Picture!Cleared("first", now)
           wb == Picture!Cleared("ball", now)
           ws == Picture!Cleared("second", now)
           h == IF Picture!HoleDamaged THEN Picture!draw_hole(sceneF) ELSE << >>
           bs == Picture!InPlay("second", <<Picture!Circle(now["second"], PlayerRadius, "second")>>)
           bf == <<Picture!Circle(now["first"], PlayerRadius, "first")>>
           bb == <<Picture!Circle(now["ball"], BallRadius, "ball")>>
           o == Picture!draw_obstacles
           both == <<Picture!Circle(now["first"], PlayerRadius, "first"), Picture!Circle(now["ball"], BallRadius, "ball")>>
<1>1. {"first", "ball"} \subseteq Picture!Bodies
  BY FieldsAssumption DEF PictureTypes, Picture!Bodies
<1>2. \A c : /\ wf \in Drawing /\ Picture!Paint(c, wf, p) = IF Wiped("first", now, p) THEN "black" ELSE c
             /\ wb \in Drawing /\ Picture!Paint(c, wb, p) = IF Wiped("ball", now, p) THEN "black" ELSE c
             /\ ws \in Drawing /\ Picture!Paint(c, ws, p) = IF Wiped("second", now, p) THEN "black" ELSE c
  BY PaintCleared
<1>3. \A c : /\ h \in Drawing
             /\ Picture!Paint(c, h, p)
                  = IF Picture!HoleDamaged /\ Picture!Covers(sceneF.hole, sceneF.holeRadius, p) THEN "hole" ELSE c
  BY PaintHole
<1>4. \A c : bf \in Drawing /\ Picture!Paint(c, bf, p) = IF Comes("first", now, p) THEN "first" ELSE c
  BY <1>1, PaintBody DEF Colors, Picture!Radius
<1>5. \A c : bb \in Drawing /\ Picture!Paint(c, bb, p) = IF Comes("ball", now, p) THEN "ball" ELSE c
  BY <1>1, PaintBody DEF Colors, Picture!Radius
<1>6. \A c : bs \in Drawing /\ Picture!Paint(c, bs, p) = IF Comes("second", now, p) THEN "second" ELSE c
  <2>1. CASE "second" \in Picture!Bodies
    BY <2>1, PaintBody DEF Colors, Picture!Radius, Picture!InPlay
  <2>2. CASE "second" \notin Picture!Bodies
    BY <2>2, PaintNothing DEF Picture!InPlay, Comes
  <2> QED BY <2>1, <2>2
<1>7. \A c : o \in Drawing /\ Picture!Paint(c, o, p) = IF Inside(p) THEN "obstacle" ELSE c
  BY PaintObstacles
<1>8. both = bf \o bb
  OBVIOUS
<1>9. Picture!render_playing(now) = (((((wf \o wb) \o ws) \o h) \o bs) \o (bf \o bb)) \o o
  BY <1>8 DEF Picture!render_playing
<1> HIDE DEF wf, wb, ws, h, bs, bf, bb, o, both
<1>10. /\ wf \o wb \in Drawing
       /\ Picture!Paint(color, wf \o wb, p) = Picture!Paint(Picture!Paint(color, wf, p), wb, p)
  BY <1>2, PaintTwo
<1> DEFINE s2 == wf \o wb
           s3 == s2 \o ws
           s4 == s3 \o h
           s5 == s4 \o bs
           t == bf \o bb
           s6 == s5 \o t
           s7 == s6 \o o
<1> HIDE DEF s2
<1>11. s3 \in Drawing /\ Picture!Paint(color, s3, p) = Picture!Paint(Picture!Paint(color, s2, p), ws, p)
  BY <1>2, <1>10, PaintTwo DEF s2
<1> HIDE DEF s3
<1>12. s4 \in Drawing /\ Picture!Paint(color, s4, p) = Picture!Paint(Picture!Paint(color, s3, p), h, p)
  BY <1>3, <1>11, PaintTwo
<1> HIDE DEF s4
<1>13. s5 \in Drawing /\ Picture!Paint(color, s5, p) = Picture!Paint(Picture!Paint(color, s4, p), bs, p)
  BY <1>6, <1>12, PaintTwo
<1> HIDE DEF s5
<1>14. \A c : t \in Drawing /\ Picture!Paint(c, t, p) = Picture!Paint(Picture!Paint(c, bf, p), bb, p)
  BY <1>4, <1>5, PaintTwo
<1> HIDE DEF t
<1>15. s6 \in Drawing /\ Picture!Paint(color, s6, p) = Picture!Paint(Picture!Paint(color, s5, p), t, p)
  BY <1>13, <1>14, PaintTwo
<1> HIDE DEF s6
<1>16. Picture!Paint(color, s7, p) = Picture!Paint(Picture!Paint(color, s6, p), o, p)
  BY <1>7, <1>15, PaintTwo
<1>17. Picture!render_playing(now) = s7
  BY <1>9 DEF s2, s3, s4, s5, s6, t
<1> HIDE DEF s7
<1>18. Picture!Paint(color, s3, p)
        = IF \E b \in {"first", "ball", "second"} : Wiped(b, now, p) THEN "black" ELSE color
  BY <1>2, <1>10, <1>11 DEF s2
<1>19. Picture!Paint(color, s7, p)
         = IF Inside(p) THEN "obstacle"
           ELSE IF Comes("ball", now, p) THEN "ball"
           ELSE IF Comes("first", now, p) THEN "first"
           ELSE IF Comes("second", now, p) THEN "second"
           ELSE IF Picture!HoleDamaged /\ Picture!Covers(sceneF.hole, sceneF.holeRadius, p) THEN "hole"
           ELSE Picture!Paint(color, s3, p)
  BY <1>3, <1>4, <1>5, <1>6, <1>7, <1>12, <1>13, <1>14, <1>15, <1>16
<1> QED BY <1>17, <1>18, <1>19

LEMMA FramePicture ==
    ASSUME subject = "picture", PictureInv, Picture!Frame
    PROVE  /\ sceneF' = sceneF /\ PictureTypes' /\ shown' = TRUE
           /\ \A p \in Picture!Screen(sceneF) : pixels'[p] = Picture!Topmost(p)'
<1>1. PICK way \in [Picture!Bodies -> sceneF.ways] :
        LET now == [b \in Picture!Bodies |-> <<position[b][1] + way[b][1], position[b][2] + way[b][2]>>] IN
        /\ \A b \in Picture!Bodies : now[b] \in sceneF.places
        /\ position' = now
        /\ pixels' = Picture!Drawn(pixels, Picture!render_playing(now))
        /\ shown' = TRUE
        /\ UNCHANGED sceneF
  BY DEF Picture!Frame
<1> DEFINE now == position'
<1>2. /\ PictureTypes /\ sceneF' = sceneF /\ shown' = TRUE
      /\ pixels' = Picture!Drawn(pixels, Picture!render_playing(now))
      /\ now \in [Picture!Bodies -> sceneF.places]
  BY <1>1 DEF PictureInv
<1>3. now \in [Picture!Bodies -> Point]
  BY <1>2, FieldsAssumption DEF PictureTypes
<1>4. Picture!Bodies' = Picture!Bodies /\ Picture!Screen(sceneF)' = Picture!Screen(sceneF)
  BY <1>2 DEF Picture!Bodies
<1>5. PictureTypes'
  BY <1>2, <1>3, <1>4 DEF PictureTypes, Picture!Drawn
<1>6. ASSUME NEW p \in Picture!Screen(sceneF) PROVE pixels'[p] = Picture!Topmost(p)'
  <2> DEFINE E == IF Picture!HoleDamaged /\ Picture!Covers(sceneF.hole, sceneF.holeRadius, p) THEN "hole"
                  ELSE IF \E b \in {"first", "ball", "second"} : Wiped(b, now, p) THEN "black"
                  ELSE pixels[p]
  <2>1. pixels'[p] = Picture!Paint(pixels[p], Picture!render_playing(now), p)
    BY <1>2 DEF Picture!Drawn, PictureTypes
  <2>2. Picture!Paint(pixels[p], Picture!render_playing(now), p)
         = IF Inside(p) THEN "obstacle"
           ELSE IF Comes("ball", now, p) THEN "ball"
           ELSE IF Comes("first", now, p) THEN "first"
           ELSE IF Comes("second", now, p) THEN "second"
           ELSE E
    BY <1>2, <1>3, PaintFrame
  <2>3. Picture!Topmost(p)'
         = IF Inside(p) THEN "obstacle"
           ELSE IF Comes("ball", now, p) THEN "ball"
           ELSE IF Comes("first", now, p) THEN "first"
           ELSE IF Comes("second", now, p) THEN "second"
           ELSE Base(p)
    BY <1>2, <1>4 DEF Picture!Topmost, Picture!On, Inside, Comes, Base
  <2>4. ASSUME ~Inside(p), \A b \in {"first", "ball", "second"} : ~Comes(b, now, p)
        PROVE  E = Base(p)
    <3>1. p \in Point /\ sceneF.hole \in Point /\ sceneF.holeRadius \in Nat
      BY <1>2, PointsOfScreen, FieldsAssumption DEF PictureTypes
    <3>2. ASSUME NEW b, Wiped(b, now, p), Picture!Covers(sceneF.hole, sceneF.holeRadius, p)
          PROVE  Picture!HoleDamaged
      <4>1. b \in Picture!Bodies /\ position[b] \in Point /\ Picture!Radius(b) \in Nat
        BY <1>2, <3>2, Radii DEF Wiped, PictureTypes
      <4>2. Picture!objects_overlap(position[b], sceneF.hole, Picture!Radius(b), sceneF.holeRadius)
        BY <3>1, <3>2, <4>1, CommonPoint DEF Wiped
      <4> QED BY <4>1, <4>2 DEF Picture!HoleDamaged
    <3>3. ASSUME \A b \in {"first", "ball", "second"} : ~Wiped(b, now, p)
          PROVE  pixels[p] = Base(p)
      <4>1. \A b \in {"first", "ball", "second"} : ~Picture!On(b, p)
        BY <2>4, <3>3 DEF Wiped, Comes, Picture!On
      <4>2. Picture!Topmost(p) = Base(p)
        BY <2>4, <4>1 DEF Picture!Topmost, Inside, Base
      <4> QED BY <4>2 DEF PictureInv
    <3> QED BY <3>2, <3>3 DEF Base
  <2> HIDE DEF E
  <2> QED BY <2>1, <2>2, <2>3, <2>4
<1> QED BY <1>2, <1>5, <1>6

LEMMA FreshPicture ==
    ASSUME NEW s \in Fields
    PROVE  /\ DOMAIN Picture!Fresh(s) = Picture!Screen(s)
           /\ \A p \in Picture!Screen(s) :
                 Picture!Fresh(s)[p] = IF Picture!Covers(s.hole, s.holeRadius, p) THEN "hole" ELSE "black"
  BY PaintAHole DEF Picture!Fresh, Picture!Drawn

LEMMA StartTypes == ASSUME NEW s \in Fields PROVE s.start \in [DOMAIN s.start -> Point]
  BY FieldsAssumption

\* After every frame each pixel of the field shows what is on top there, for
\* every field, hole, obstacles and radii and wherever the bodies go
\* (render_playing, clear_object, draw_hole and objects_overlap).
THEOREM FieldShowsBodiesHolds == ProgramsSpec => []FieldShowsBodies
<1>1. ProgramsInit => PictureInv
  <2> SUFFICES ASSUME ProgramsInit PROVE PictureInv
    OBVIOUS
  <2>1. CASE subject = "picture"
    <3>1. sceneF \in Fields /\ position = sceneF.start /\ pixels = Picture!Fresh(sceneF) /\ shown = FALSE
      BY <2>1 DEF ProgramsInit, Picture!Init
    <3> QED BY <2>1, <3>1, FreshPicture, StartTypes DEF PictureInv, PictureTypes, Base, Picture!Bodies
  <2>2. CASE subject # "picture"
    BY <2>2 DEF ProgramsInit, PictureInv
  <2> QED BY <2>1, <2>2
<1>2. PictureInv /\ [ProgramsNext]_allVars => PictureInv'
  <2> SUFFICES ASSUME PictureInv, [ProgramsNext]_allVars PROVE PictureInv'
    OBVIOUS
  <2>1. CASE subject' = subject /\ UNCHANGED fieldVars
    BY <2>1 DEF PictureInv, PictureTypes, Base, fieldVars, Picture!Topmost, Picture!On, Picture!Bodies
  <2>2. CASE subject' = subject /\ subject = "picture" /\ Picture!Frame
    BY <2>2, FramePicture DEF PictureInv
  <2>3. CASE subject' = subject /\ subject = "picture" /\ Picture!NextLevel
    <3>1. /\ sceneF' = sceneF /\ sceneF \in Fields /\ position' = sceneF.start
          /\ pixels' = Picture!Fresh(sceneF) /\ shown' = FALSE
      BY <2>3 DEF Picture!NextLevel, PictureInv, PictureTypes
    <3> QED BY <2>3, <3>1, FreshPicture, StartTypes DEF PictureInv, PictureTypes, Base, Picture!Bodies
  <2> QED BY <2>1, <2>2, <2>3 DEF ProgramsNext, allVars, Picture!Next
<1>3. PictureInv => FieldShowsBodies
  BY DEF PictureInv, FieldShowsBodies, Picture!FieldShowsBodies
<1> QED BY <1>1, <1>2, <1>3, PTL DEF ProgramsSpec
-----------------------------------------------------------------------------
(* The bodies: roots and pushes *)

LEMMA Quotient ==
    ASSUME NEW n \in Nat, NEW r \in Nat, r > 0
    PROVE  /\ n \div r \in Nat /\ r * (n \div r) <= n /\ n < r * (n \div r) + r
<1> DEFINE q == n \div r
<1>1. n = r * q + (n % r) /\ n % r \in 0..r - 1 /\ q \in Int
  OBVIOUS
<1> HIDE DEF q
<1>2. r * q <= n /\ n < r * q + r
  BY <1>1
<1>3. q >= 0
  <2> SUFFICES ASSUME q <= -1 PROVE FALSE
    BY <1>1
  <2>1. r * q <= r * (-1) /\ r * (-1) = -r /\ r * q \in Int
    BY <1>1
  <2> QED BY <1>2, <2>1
<1> QED BY <1>1, <1>2, <1>3 DEF q

\* r is at least the root of the square of d, and at most p / q times as much.
Near(d, r, p, q) ==
    /\ d \in Nat \ {0} /\ p \in Nat /\ q \in Nat \ {0} /\ p >= q
    /\ r \in Nat /\ r >= d * 500 /\ q * r <= p * (d * 500)

\* A step from above stays above, and the ratio to the root goes from p / q to
\* half of itself and its inverse.
LEMMA NewtonStep ==
    ASSUME NEW d, NEW r, NEW p, NEW q, Near(d, r, p, q)
    PROVE  /\ Bodies!Newton(d * d, r) \in Nat /\ Bodies!Newton(d * d, r) >= d * 500
           /\ 2 * p * q * Bodies!Newton(d * d, r) <= (p * p + q * q) * (d * 500)
<1> SUFFICES ASSUME NEW s \in Nat, d \in Nat, s = d * 500, s > 0, r \in Nat, r >= s,
                    p \in Nat, q \in Nat, q > 0, p >= q, q * r <= p * s
             PROVE  /\ Bodies!Newton(d * d, r) \in Nat /\ Bodies!Newton(d * d, r) >= s
                    /\ 2 * p * q * Bodies!Newton(d * d, r) <= (p * p + q * q) * s
  BY DEF Near
<1> DEFINE w == (s * s) \div r
           N == (r + w) \div 2
<1>1. s * s \in Nat /\ d * d * 500 * 500 = s * s
  OBVIOUS
<1>2. Bodies!Newton(d * d, r) = N
  BY <1>1 DEF Bodies!Newton, Bodies!Unit
<1>3. w \in Nat /\ r * w <= s * s /\ s * s < r * w + r
  BY <1>1, Quotient
<1> HIDE DEF w
<1>4. N \in Nat /\ 2 * N <= r + w /\ r + w <= 2 * N + 1
  BY <1>3
<1> HIDE DEF N
<1>5. N >= s
  <2> SUFFICES ASSUME r + w <= 2 * s - 1 PROVE FALSE
    BY <1>3, <1>4
  <2> DEFINE e == 2 * s - r
  <2>1. w + 1 <= e /\ e \in Int
    BY <1>3
  <2>2. r * (w + 1) <= r * e
    <3> HIDE DEF e
    <3> QED BY <1>3, <2>1
  <2>3. r * (w + 1) = r * w + r
    BY <1>3
  <2>4. r * e = s * s - (r - s) * (r - s)
    OBVIOUS
  <2>5. (r - s) * (r - s) >= 0
    <3>1. \A z \in Int : z * z >= 0
      OBVIOUS
    <3> QED BY <3>1
  <2> DEFINE rw == r * w
             ss == s * s
             re == r * e
             z == (r - s) * (r - s)
  <2>6. rw \in Int /\ ss \in Int /\ re \in Int /\ z \in Int
    BY <1>3
  <2>7. ss < rw + r /\ rw + r <= re /\ re = ss - z /\ z >= 0
    BY <1>3, <2>2, <2>3, <2>4, <2>5
  <2> HIDE DEF rw, ss, re, z
  <2> QED BY <2>6, <2>7
<1>6. 2 * p * q * N <= (p * p + q * q) * s
  <2> DEFINE A == p * q * (r + w)
             B == (p * p + q * q) * s
  <2>1. A \in Int /\ B \in Int
    BY <1>3
  <2>2. r * A <= r * B
    <3> DEFINE x == p * s - q * r
               y == p * r - q * s
               pq == p * q
               rw == r * w
               ss == s * s
    <3>1. x \in Nat
      OBVIOUS
    <3>2. y \in Nat
      <4>1. p * r >= q * r /\ q * r >= q * s
        OBVIOUS
      <4> QED BY <4>1
    <3>3. x * y >= 0
      <4> HIDE DEF x, y
      <4> QED BY <3>1, <3>2
    <3>4. r * A = pq * (r * r) + pq * rw
      BY <1>3
    <3>5. r * B = pq * (r * r) + pq * ss + x * y
      OBVIOUS
    <3>6. pq * rw <= pq * ss
      <4>1. pq \in Nat /\ rw \in Int /\ ss \in Int /\ rw <= ss
        BY <1>3
      <4> HIDE DEF pq, rw, ss
      <4> QED BY <4>1
    <3>7. r * A \in Int /\ r * B \in Int /\ pq * (r * r) \in Int /\ pq * rw \in Int /\ pq * ss \in Int /\ x * y \in Int
      BY <1>3
    <3> HIDE DEF A, B, x, y, pq, rw, ss
    <3> QED BY <3>3, <3>4, <3>5, <3>6, <3>7
  <2>3. A <= B
    <3> HIDE DEF A, B
    <3> SUFFICES ASSUME A >= B + 1 PROVE FALSE
      BY <2>1
    <3>1. r * A >= r * (B + 1)
      BY <2>1
    <3>2. r * (B + 1) = r * B + r
      BY <2>1
    <3>3. r * A \in Int /\ r * B \in Int
      BY <2>1
    <3> QED BY <2>2, <3>1, <3>2, <3>3
  <2>4. 2 * p * q * N <= A
    <3> DEFINE pq == p * q
    <3>1. pq \in Nat
      OBVIOUS
    <3>2. pq * (2 * N) <= pq * (r + w)
      <4> HIDE DEF pq
      <4> QED BY <1>3, <1>4, <3>1
    <3>3. pq * (2 * N) = 2 * p * q * N
      BY <1>4
    <3> QED BY <3>2, <3>3
  <2>5. 2 * p * q * N \in Int
    BY <1>4
  <2> HIDE DEF A, B
  <2>6. 2 * p * q * N <= B
    BY <2>1, <2>3, <2>4, <2>5
  <2> QED BY <2>6 DEF B
<1> QED BY <1>2, <1>4, <1>5, <1>6

\* What sqrtf makes of a square is at least its root, and of a small square at
\* most a fifteenth more.
LEMMA DistanceBounds ==
    ASSUME NEW d \in 1..120
    PROVE  /\ Bodies!distance[d] \in Nat /\ Bodies!distance[d] >= d * 500
           /\ d <= 37 => Bodies!distance[d] <= d * 533
<1> DEFINE s == d * 500
           N(r) == Bodies!Newton(d * d, r)
           r0 == 500 * (d * d)
           r1 == N(r0)
           r2 == N(r1)
           r3 == N(r2)
           r4 == N(r3)
           r5 == N(r4)
           r6 == N(r5)
<1>1. Bodies!distance[d] = r6
  <2>1. d * d >= 1 /\ d * d \in Nat
    OBVIOUS
  <2>2. Bodies!distance[d] = Bodies!sqrtf(d * d)
    BY DEF Bodies!distance, Bodies!Far
  <2>3. Bodies!sqrtf(d * d) = N(N(N(N(N(N(500 * (IF d * d < 1 THEN 1 ELSE d * d)))))))
    BY DEF Bodies!sqrtf, Bodies!Unit
  <2>4. (IF d * d < 1 THEN 1 ELSE d * d) = d * d
    BY <2>1
  <2> QED BY <2>2, <2>3, <2>4
<1>2. r0 \in Nat /\ r0 >= s /\ r0 = d * s /\ s \in Nat /\ s >= 1
  OBVIOUS
<1>3. ASSUME NEW r \in Nat, r >= s PROVE N(r) \in Nat /\ N(r) >= s
  <2>1. r >= 1 /\ 1 * r <= r * s
    <3> HIDE DEF s
    <3>1. r * 1 <= r * s
      BY <1>2, <1>3
    <3> QED BY <1>2, <1>3, <3>1
  <2>2. Near(d, r, r, 1)
    BY <1>3, <2>1 DEF Near
  <2> QED BY <2>2, NewtonStep
<1>4. d <= 37 => Near(d, r0, 37, 1)
  BY <1>2 DEF Near
<1> HIDE DEF r0
<1>5. r1 \in Nat /\ r1 >= s /\ (d <= 37 => Near(d, r1, 1852, 100))
  <2>1. r1 \in Nat /\ r1 >= s
    BY <1>2, <1>3
  <2>2. ASSUME d <= 37 PROVE 2 * 37 * 1 * r1 <= (37 * 37 + 1 * 1) * s
    BY <1>4, <2>2, NewtonStep
  <2> HIDE DEF r1
  <2> QED BY <2>1, <2>2 DEF Near
<1> HIDE DEF r1
<1>6. r2 \in Nat /\ r2 >= s /\ (d <= 37 => Near(d, r2, 929, 100))
  <2>1. r2 \in Nat /\ r2 >= s
    BY <1>5, <1>3
  <2>2. ASSUME d <= 37 PROVE 2 * 1852 * 100 * r2 <= (1852 * 1852 + 100 * 100) * s
    BY <1>5, <2>2, NewtonStep
  <2> HIDE DEF r2
  <2> QED BY <2>1, <2>2 DEF Near
<1> HIDE DEF r2
<1>7. r3 \in Nat /\ r3 >= s /\ (d <= 37 => Near(d, r3, 470, 100))
  <2>1. r3 \in Nat /\ r3 >= s
    BY <1>6, <1>3
  <2>2. ASSUME d <= 37 PROVE 2 * 929 * 100 * r3 <= (929 * 929 + 100 * 100) * s
    BY <1>6, <2>2, NewtonStep
  <2> HIDE DEF r3
  <2> QED BY <2>1, <2>2 DEF Near
<1> HIDE DEF r3
<1>8. r4 \in Nat /\ r4 >= s /\ (d <= 37 => Near(d, r4, 246, 100))
  <2>1. r4 \in Nat /\ r4 >= s
    BY <1>7, <1>3
  <2>2. ASSUME d <= 37 PROVE 2 * 470 * 100 * r4 <= (470 * 470 + 100 * 100) * s
    BY <1>7, <2>2, NewtonStep
  <2> HIDE DEF r4
  <2> QED BY <2>1, <2>2 DEF Near
<1> HIDE DEF r4
<1>9. r5 \in Nat /\ r5 >= s /\ (d <= 37 => Near(d, r5, 1434, 1000))
  <2>1. r5 \in Nat /\ r5 >= s
    BY <1>8, <1>3
  <2>2. ASSUME d <= 37 PROVE 2 * 246 * 100 * r5 <= (246 * 246 + 100 * 100) * s
    BY <1>8, <2>2, NewtonStep
  <2> HIDE DEF r5
  <2> QED BY <2>1, <2>2 DEF Near
<1> HIDE DEF r5
<1>10. r6 \in Nat /\ r6 >= s /\ (d <= 37 => Near(d, r6, 1066, 1000))
  <2>1. r6 \in Nat /\ r6 >= s
    BY <1>9, <1>3
  <2>2. ASSUME d <= 37 PROVE 2 * 1434 * 1000 * r6 <= (1434 * 1434 + 1000 * 1000) * s
    BY <1>9, <2>2, NewtonStep
  <2> HIDE DEF r6
  <2> QED BY <2>1, <2>2 DEF Near
<1> HIDE DEF r6
<1>11. d <= 37 => 1000 * r6 <= 1066 * s
  BY <1>10 DEF Near
<1> QED BY <1>1, <1>10, <1>11

LEMMA DistanceOfNothing == Bodies!distance[0] = 7
<1> DEFINE N(r) == Bodies!Newton(0, r)
<1>1. Bodies!distance[0] = N(N(N(N(N(N(500))))))
  BY DEF Bodies!distance, Bodies!Far, Bodies!sqrtf, Bodies!Unit
<1>2. \A r \in Nat \ {0} : N(r) = r \div 2
  <2> TAKE r \in Nat \ {0}
  <2>1. (0 * 500 * 500) \div r = 0
    OBVIOUS
  <2> QED BY <2>1 DEF Bodies!Newton, Bodies!Unit
<1>3. N(500) = 250
  BY <1>2
<1>4. N(250) = 125
  BY <1>2
<1>5. N(125) = 62
  BY <1>2
<1>6. N(62) = 31
  BY <1>2
<1>7. N(31) = 15
  BY <1>2
<1>8. N(15) = 7
  BY <1>2
<1> HIDE DEF N
<1> QED BY <1>1, <1>3, <1>4, <1>5, <1>6, <1>7, <1>8


\* nx times a length: for a small distance almost the length.
AlmostAll(d, l) ==
    /\ Bodies!AlongNormal(d, l) \in Int /\ Bodies!AlongNormal(-d, l) = -Bodies!AlongNormal(d, l)
    /\ l >= 0 => /\ 0 <= Bodies!AlongNormal(d, l) /\ Bodies!AlongNormal(d, l) <= l
                 /\ d <= 37 => 500 * Bodies!AlongNormal(d, l) >= 468 * l - 499
    /\ l < 0 => l <= Bodies!AlongNormal(d, l) /\ Bodies!AlongNormal(d, l) <= 0

LEMMA Along == ASSUME NEW d \in 1..120, NEW l \in Int PROVE AlmostAll(d, l)
<1> DEFINE D == Bodies!distance[d]
           m == IF l < 0 THEN -l ELSE l
           nx == (d * 500 * 500) \div D
           product == (nx * m) \div 500
<1>1. D \in Nat /\ D >= d * 500 /\ (d <= 37 => D <= d * 533) /\ D > 0
  BY DistanceBounds
<1>2. m \in Nat
  OBVIOUS
<1>3. /\ Bodies!Abs(d) = d /\ Bodies!Abs(-d) = d /\ Bodies!Abs(l) = m
      /\ Bodies!Sign(d) = 1 /\ Bodies!Sign(-d) = -1 /\ Bodies!Sign(l) = IF l < 0 THEN -1 ELSE 1
  BY DEF Bodies!Abs, Bodies!Sign
<1>4. /\ Bodies!AlongNormal(d, l) = 1 * (IF l < 0 THEN -1 ELSE 1) * product
      /\ Bodies!AlongNormal(-d, l) = (-1) * (IF l < 0 THEN -1 ELSE 1) * product
  BY <1>3 DEF Bodies!AlongNormal, Bodies!Unit
<1>5. nx \in Nat /\ D * nx <= d * 250000 /\ d * 250000 < D * nx + D
  <2>1. d * 500 * 500 \in Nat /\ d * 500 * 500 = d * 250000
    OBVIOUS
  <2> HIDE DEF D
  <2> QED BY <1>1, <2>1, Quotient
<1> HIDE DEF D, nx, m
<1>6. nx <= 500
  <2> SUFFICES ASSUME nx >= 501 PROVE FALSE
    BY <1>5
  <2>1. D * nx >= D * 501 /\ D * nx \in Int
    BY <1>1, <1>5
  <2> QED BY <1>1, <1>5, <2>1
<1>7. d <= 37 => nx >= 468
  <2> SUFFICES ASSUME d <= 37, nx + 1 <= 468 PROVE FALSE
    BY <1>5
  <2>1. D * (nx + 1) <= D * 468 /\ D * (nx + 1) = D * nx + D /\ D * nx \in Int
    BY <1>1, <1>5
  <2> QED BY <1>1, <1>5, <2>1
<1>8. product \in Nat /\ 500 * product <= nx * m /\ nx * m < 500 * product + 500
  <2>1. nx * m \in Nat
    BY <1>2, <1>5
  <2> DEFINE n == nx * m
  <2> HIDE DEF n
  <2> QED BY <2>1, Quotient DEF n
<1> HIDE DEF product
<1>9. nx * m <= 500 * m /\ (d <= 37 => nx * m >= 468 * m) /\ nx * m \in Int
  BY <1>2, <1>5, <1>6, <1>7
<1>10. product <= m /\ (d <= 37 => 500 * product >= 468 * m - 499)
  BY <1>2, <1>8, <1>9
<1> QED BY <1>2, <1>4, <1>8, <1>10 DEF m, AlmostAll

\* Bodies one on top of the other have no normal.
LEMMA AlongNothing == ASSUME NEW l \in Int PROVE Bodies!AlongNormal(0, l) = 0
<1>1. (Bodies!Abs(0) * Bodies!Unit * Bodies!Unit) \div Bodies!distance[Bodies!Abs(0)] = 0
  BY DistanceOfNothing DEF Bodies!Abs, Bodies!Unit
<1>2. Bodies!Abs(l) \in Int
  BY DEF Bodies!Abs
<1>3. Bodies!Sign(0) = 1 /\ (Bodies!Sign(l) = 1 \/ Bodies!Sign(l) = -1)
  BY DEF Bodies!Sign
<1>4. Bodies!AlongNormal(0, l) = Bodies!Sign(0) * Bodies!Sign(l) * ((0 * Bodies!Abs(l)) \div 500)
  BY <1>1 DEF Bodies!AlongNormal, Bodies!Unit
<1>5. (0 * Bodies!Abs(l)) \div 500 = 0
  BY <1>2
<1> QED BY <1>3, <1>4, <1>5

LEMMA Rounded ==
    ASSUME NEW v \in Int
    PROVE  /\ Bodies!roundf(v) \in Int /\ Bodies!roundf(-v) = -Bodies!roundf(v)
           /\ 500 * Bodies!roundf(v) <= v + 250 /\ 500 * Bodies!roundf(v) >= v - 250
           /\ v >= 0 => Bodies!roundf(v) >= 0
  BY DEF Bodies!roundf, Bodies!Unit

\* A player puts the ball out of its circle, almost: two roundings may leave it
\* three pixels inside.
LEMMA BallIsPushed ==
    ASSUME NEW d \in Int, -30 < d, d < 30
    PROVE  /\ Bodies!BallPush[d] \in Int
           /\ d > 0 => d + Bodies!BallPush[d] \in 27..30
           /\ d < 0 => d + Bodies!BallPush[d] \in -30..-27
           /\ d = 0 => Bodies!BallPush[d] = 0
           /\ d > 0 => Bodies!BallPush[d] >= -1
           /\ d < 0 => Bodies!BallPush[d] <= 1
<1>1. Bodies!BallSum = 30 /\ Bodies!BallPush[d] = Bodies!roundf(Bodies!AlongNormal(d, Bodies!Overlap(d, 30)))
  BY DEF Bodies!BallSum, Bodies!BallPush, Bodies!BALL_RADIUS, Bodies!PLAYER_RADIUS
<1>2. ASSUME NEW e \in 1..29
      PROVE  LET l == Bodies!Overlap(e, 30)
                 push == Bodies!roundf(Bodies!AlongNormal(e, l))
             IN  /\ push \in Int /\ e + push \in 27..30 /\ push >= -1
                 /\ Bodies!roundf(Bodies!AlongNormal(-e, Bodies!Overlap(-e, 30))) = -push
  <2> DEFINE l == Bodies!Overlap(e, 30)
             a == Bodies!AlongNormal(e, l)
  <2>1. e \in 1..120
    OBVIOUS
  <2>2. l \in Int /\ l <= 15000 - 500 * e /\ l >= 15000 - 533 * e /\ Bodies!Overlap(-e, 30) = l
    BY <2>1, DistanceBounds DEF Bodies!Overlap, Bodies!Abs, Bodies!Unit
  <2> HIDE DEF l
  <2>3. /\ a \in Int /\ Bodies!AlongNormal(-e, l) = -a
        /\ l >= 0 => 0 <= a /\ a <= l /\ 500 * a >= 468 * l - 499
        /\ l < 0 => l <= a /\ a <= 0
    <3>1. AlmostAll(e, l)
      BY <2>1, <2>2, Along
    <3> QED BY <3>1 DEF AlmostAll
  <2> HIDE DEF a
  <2>4. /\ Bodies!roundf(a) \in Int /\ Bodies!roundf(-a) = -Bodies!roundf(a)
        /\ 500 * Bodies!roundf(a) <= a + 250 /\ 500 * Bodies!roundf(a) >= a - 250
    BY <2>3, Rounded
  <2> DEFINE push == Bodies!roundf(a)
  <2> HIDE DEF push
  <2>5. push \in Int /\ 500 * push <= a + 250 /\ 500 * push >= a - 250
    BY <2>4 DEF push
  <2>6. e + push \in 27..30 /\ push >= -1
    BY <2>2, <2>3, <2>5
  <2>7. Bodies!roundf(Bodies!AlongNormal(-e, Bodies!Overlap(-e, 30))) = -push
    BY <2>2, <2>3, <2>4 DEF push
  <2> QED BY <2>5, <2>6, <2>7 DEF push, a, l
<1>3. CASE d > 0
  BY <1>1, <1>2, <1>3
<1>4. CASE d < 0
  <2>1. -d \in 1..29 /\ -(-d) = d
    BY <1>4
  <2> DEFINE e == -d
             push == Bodies!roundf(Bodies!AlongNormal(e, Bodies!Overlap(e, 30)))
  <2>2. push \in Int /\ e + push \in 27..30 /\ push >= -1 /\ Bodies!BallPush[d] = -push
    <3> HIDE DEF e
    <3>1. e \in 1..29 /\ -e = d
      BY <2>1 DEF e
    <3> QED BY <1>1, <1>2, <3>1
  <2> HIDE DEF push
  <2> QED BY <1>4, <2>2
<1>5. CASE d = 0
  <2>1. Bodies!AlongNormal(0, Bodies!Overlap(0, 30)) = 0
    <3>1. Bodies!Overlap(0, 30) \in Int
      BY DistanceOfNothing DEF Bodies!Overlap, Bodies!Abs, Bodies!Unit
    <3> QED BY <3>1, AlongNothing
  <2>2. Bodies!roundf(0) = 0
    BY DEF Bodies!roundf, Bodies!Unit
  <2> QED BY <1>1, <1>5, <2>1, <2>2
<1> QED BY <1>3, <1>4, <1>5

\* Two players are put apart, each by at most a radius.
LEMMA PlayersArePushed ==
    ASSUME NEW d \in 1..39
    PROVE  /\ Bodies!PlayerPush[d] \in 0..20 /\ d + Bodies!PlayerPush[d] >= 15
           /\ Bodies!PlayerPush[-d] = 0 - Bodies!PlayerPush[d]
<1> DEFINE o == Bodies!Overlap(d, 40)
           l == o \div 2
           a == Bodies!AlongNormal(d, l)
           push == Bodies!roundf(a)
<1>1. d \in 1..120 /\ d \in -40..40 /\ -d \in -40..40
  OBVIOUS
<1>2. o \in Int /\ o <= 20000 - 500 * d /\ (d <= 37 => o >= 20000 - 533 * d) /\ Bodies!Overlap(-d, 40) = o
  BY <1>1, DistanceBounds DEF Bodies!Overlap, Bodies!Abs, Bodies!Unit
<1>3. Bodies!PlayerSum = 40
  BY DEF Bodies!PlayerSum, Bodies!PLAYER_RADIUS
<1>4. /\ Bodies!PlayerPush[d] = IF o > 0 THEN push ELSE 0
      /\ Bodies!PlayerPush[-d] = IF o > 0 THEN Bodies!roundf(Bodies!AlongNormal(-d, l)) ELSE 0
  BY <1>1, <1>2, <1>3 DEF Bodies!PlayerPush
<1> HIDE DEF o
<1>5. l \in Int /\ (o > 0 => l >= 0 /\ 2 * l <= o /\ 2 * l >= o - 1)
  BY <1>2
<1> HIDE DEF l
<1>6. /\ a \in Int /\ Bodies!AlongNormal(-d, l) = -a
      /\ l >= 0 => 0 <= a /\ a <= l /\ (d <= 37 => 500 * a >= 468 * l - 499)
  <2>1. AlmostAll(d, l)
    BY <1>1, <1>5, Along
  <2> QED BY <2>1 DEF AlmostAll
<1> HIDE DEF a
<1>7. /\ push \in Int /\ Bodies!roundf(-a) = -push
      /\ 500 * push <= a + 250 /\ 500 * push >= a - 250 /\ (a >= 0 => push >= 0)
  BY <1>6, Rounded
<1> HIDE DEF push
<1>8. CASE o > 0
  <2>1. push \in 0..20 /\ d + push >= 15
    BY <1>2, <1>5, <1>6, <1>7, <1>8
  <2> QED BY <1>4, <1>6, <1>7, <1>8, <2>1
<1>9. CASE ~(o > 0)
  <2>1. d >= 15
    BY <1>2, <1>9
  <2>2. Bodies!PlayerPush[d] = 0 /\ Bodies!PlayerPush[-d] = 0
    BY <1>4, <1>9
  <2> QED BY <2>1, <2>2
<1> QED BY <1>8, <1>9

LEMMA NobodyIsPushed == Bodies!PlayerPush[0] = 0
<1>1. Bodies!PlayerSum = 40
  BY DEF Bodies!PlayerSum, Bodies!PLAYER_RADIUS
<1>2. Bodies!Overlap(0, 40) \in Int /\ Bodies!Overlap(0, 40) \div 2 \in Int
  BY DistanceOfNothing DEF Bodies!Overlap, Bodies!Abs, Bodies!Unit
<1>3. Bodies!AlongNormal(0, Bodies!Overlap(0, 40) \div 2) = 0
  BY <1>2, AlongNothing
<1>4. Bodies!roundf(0) = 0
  BY DEF Bodies!roundf, Bodies!Unit
<1> QED BY <1>1, <1>3, <1>4 DEF Bodies!PlayerPush

\* A body in contact with an obstacle is put out of it on its side, not quite as
\* far as the rims: sum is the sum of the radii.
LEMMA OutOfOne ==
    ASSUME NEW x \in Int, NEW radius \in Nat, NEW o \in Int \X Nat, x # o[1], radius + o[2] <= 120,
           NEW m \in 1..38, radius + o[2] >= m + 3
    PROVE  LET sum == radius + o[2]
               y == Bodies!OutOf(x, radius, o)
           IN  /\ y \in Int
               /\ x > o[1] => y >= o[1] + m
               /\ x < o[1] => y <= o[1] - m
               /\ y = x \/ (x > o[1] - sum /\ x < o[1] + sum /\ y <= o[1] + sum /\ y >= o[1] - sum)
<1> DEFINE c == o[1]
           sum == radius + o[2]
           y == Bodies!OutOf(x, radius, o)
<1>1. c \in Int /\ sum \in Nat
  OBVIOUS
<1> DEFINE l(e) == Bodies!Overlap(e, sum) - 50
           a(e) == Bodies!AlongNormal(e, l(e))
           r(e) == Bodies!roundf(e * 500 + a(e))
<1>2. Bodies!Touching(x, c, sum) <=> (x - c < sum /\ c - x < sum)
  BY <1>1 DEF Bodies!Touching, Bodies!Abs
<1>3. y = IF Bodies!Touching(x, c, sum) /\ Bodies!Overlap(x - c, sum) > 50 THEN c + r(x - c) ELSE x
  BY DEF Bodies!OutOf, Bodies!Slop, Bodies!Unit
<1>4. ASSUME NEW e \in Nat, e >= 1, e < sum
      PROVE  /\ l(e) \in Int /\ l(-e) = l(e)
             /\ l(e) > 0 => r(e) \in Int /\ r(e) >= m /\ r(e) <= sum /\ r(-e) = -r(e)
             /\ l(e) <= 0 => e >= m
  <2> DEFINE k == l(e)
             b == a(e)
             w == e * 500 + b
             z == Bodies!roundf(w)
  <2>1. e \in 1..120
    BY <1>1, <1>4
  <2>2. /\ k \in Int /\ l(-e) = k
        /\ k <= 500 * sum - 500 * e - 50 /\ (e <= 37 => k >= 500 * sum - 533 * e - 50)
    BY <1>1, <2>1, DistanceBounds DEF Bodies!Overlap, Bodies!Abs, Bodies!Unit
  <2>3. a(-e) = Bodies!AlongNormal(-e, k)
    BY <2>2
  <2> HIDE DEF l, k
  <2>4. /\ Bodies!AlongNormal(e, k) \in Int /\ Bodies!AlongNormal(-e, k) = -Bodies!AlongNormal(e, k)
        /\ k >= 0 => /\ 0 <= Bodies!AlongNormal(e, k) /\ Bodies!AlongNormal(e, k) <= k
                     /\ e <= 37 => 500 * Bodies!AlongNormal(e, k) >= 468 * k - 499
    <3>1. AlmostAll(e, k)
      BY <2>1, <2>2, Along
    <3> QED BY <3>1 DEF AlmostAll
  <2>5. b = Bodies!AlongNormal(e, k)
    BY DEF k
  <2>6. /\ b \in Int /\ a(-e) = -b
        /\ k >= 0 => 0 <= b /\ b <= k /\ (e <= 37 => 500 * b >= 468 * k - 499)
    BY <2>3, <2>4, <2>5
  <2> HIDE DEF a, b
  <2>7. w \in Int /\ (-e) * 500 + a(-e) = -w
    BY <2>1, <2>6
  <2>8. r(e) = z /\ r(-e) = Bodies!roundf(-w)
    BY <2>7 DEF b
  <2>9. w = e * 500 + b
    OBVIOUS
  <2> HIDE DEF r, w
  <2>10. z \in Int /\ Bodies!roundf(-w) = -z /\ 500 * z <= w + 250 /\ 500 * z >= w - 250
    BY <2>7, Rounded
  <2> HIDE DEF z
  <2>11. k > 0 => z >= m /\ z <= sum
    BY <1>1, <1>4, <2>1, <2>2, <2>6, <2>9, <2>10
  <2>12. k <= 0 => e >= m
    BY <1>1, <1>4, <2>1, <2>2
  <2> QED BY <2>2, <2>8, <2>10, <2>11, <2>12 DEF k
<1> HIDE DEF l, a, r
<1>5. ASSUME NEW e \in Nat, e >= 1, e < sum
      PROVE  /\ Bodies!Overlap(e, sum) > 50 <=> l(e) > 0
             /\ Bodies!Overlap(-e, sum) > 50 <=> l(e) > 0
  <2>1. e \in 1..120
    BY <1>1, <1>5
  <2>2. Bodies!Overlap(e, sum) \in Int /\ Bodies!Overlap(-e, sum) = Bodies!Overlap(e, sum)
    BY <1>1, <2>1, DistanceBounds DEF Bodies!Overlap, Bodies!Abs, Bodies!Unit
  <2> QED BY <2>2 DEF l
<1> HIDE DEF y
<1>6. CASE x > c /\ x - c < sum
  <2> DEFINE e == x - c
  <2>1. e \in Nat /\ e >= 1 /\ e < sum
    BY <1>1, <1>6
  <2>2. y = IF Bodies!Overlap(e, sum) > 50 THEN c + r(e) ELSE x
    BY <1>1, <1>2, <1>3, <1>6
  <2>3. x = c + e
    BY <1>1
  <2> HIDE DEF e
  <2>4. y = IF l(e) > 0 THEN c + r(e) ELSE x
    BY <1>5, <2>1, <2>2
  <2>5. y \in Int /\ y >= c + m /\ (y = x \/ y <= c + sum)
    BY <1>1, <1>4, <2>1, <2>3, <2>4
  <2> QED BY <1>1, <1>6, <2>5 DEF y
<1>7. CASE x < c /\ c - x < sum
  <2> DEFINE e == c - x
  <2>1. e \in Nat /\ e >= 1 /\ e < sum
    BY <1>1, <1>7
  <2>2. x - c = -e /\ x = c - e
    BY <1>1
  <2> HIDE DEF e
  <2>3. y = IF Bodies!Overlap(-e, sum) > 50 THEN c + r(-e) ELSE x
    BY <1>1, <1>2, <1>3, <1>7, <2>2
  <2>4. y = IF l(e) > 0 THEN c + r(-e) ELSE x
    BY <1>5, <2>1, <2>3
  <2>5. y \in Int /\ y <= c - m /\ (y = x \/ y >= c - sum)
    BY <1>1, <1>4, <2>1, <2>2, <2>4
  <2> QED BY <1>1, <1>7, <2>5 DEF y
<1>8. CASE ~(x - c < sum /\ c - x < sum)
  <2>1. y = x
    BY <1>2, <1>3, <1>8
  <2> QED BY <1>1, <1>8, <2>1 DEF y
<1> QED BY <1>1, <1>6, <1>7, <1>8


-----------------------------------------------------------------------------
(* The bodies: obstacles and walls *)

Mid(k) == sceneP.obstacles[k][1]
Rim(k) == sceneP.obstacles[k][2]
Blocks == 1..Len(sceneP.obstacles)

LEMMA CourtFacts ==
    ASSUME sceneP \in Courts
    PROVE  /\ sceneP.width \in Nat /\ sceneP.numPlayers \in 1..2 /\ Len(sceneP.obstacles) \in Nat
           /\ DOMAIN sceneP.obstacles = Blocks
           /\ \A k \in Blocks :
                /\ sceneP.obstacles[k] \in Int \X Nat /\ Mid(k) \in Int /\ Rim(k) \in 21..100
                /\ Mid(k) - Rim(k) >= 40 /\ Mid(k) + Rim(k) <= sceneP.width - 40
                /\ \A j \in Blocks : j # k => Mid(j) >= Mid(k) + (Rim(k) + 60) \/ Mid(j) <= Mid(k) - (Rim(k) + 60)
<1>1. /\ sceneP.width \in Nat /\ sceneP.numPlayers \in 1..2 /\ sceneP.obstacles \in Seq(Int \X Nat)
  BY CourtsAssumption
<1>2. DOMAIN sceneP.obstacles = Blocks /\ Len(sceneP.obstacles) \in Nat
  BY <1>1 DEF Blocks
<1>3. \A k \in Blocks : sceneP.obstacles[k] \in Int \X Nat
  BY <1>1 DEF Blocks
<1>4. \A k \in Blocks : Mid(k) \in Int /\ Rim(k) \in Nat
  BY <1>3 DEF Mid, Rim
<1>5. \A k \in Blocks :
        /\ Rim(k) > 20 /\ Rim(k) + 20 <= 120
        /\ Mid(k) - Rim(k) >= 2 * 20 /\ Mid(k) + Rim(k) <= sceneP.width - 2 * 20
        /\ \A j \in Blocks \ {k} : Mid(j) >= Mid(k) + (Rim(k) + 3 * 20) \/ Mid(j) <= Mid(k) - (Rim(k) + 3 * 20)
  BY <1>2, CourtsAssumption DEF Mid, Rim, PLAYER_RADIUS
<1>6. ASSUME NEW k \in Blocks
      PROVE  /\ Rim(k) \in 21..100 /\ Mid(k) - Rim(k) >= 40 /\ Mid(k) + Rim(k) <= sceneP.width - 40
             /\ \A j \in Blocks : j # k => Mid(j) >= Mid(k) + (Rim(k) + 60) \/ Mid(j) <= Mid(k) - (Rim(k) + 60)
  <2>1. Mid(k) \in Int /\ Rim(k) \in Nat /\ Rim(k) > 20 /\ Rim(k) + 20 <= 120
    BY <1>4, <1>5
  <2>2. Mid(k) - Rim(k) >= 40 /\ Mid(k) + Rim(k) <= sceneP.width - 40
    BY <1>5
  <2>3. ASSUME NEW j \in Blocks, j # k
        PROVE  Mid(j) >= Mid(k) + (Rim(k) + 60) \/ Mid(j) <= Mid(k) - (Rim(k) + 60)
    <3>1. Mid(j) >= Mid(k) + (Rim(k) + 3 * 20) \/ Mid(j) <= Mid(k) - (Rim(k) + 3 * 20)
      BY <1>5, <2>3
    <3> QED BY <3>1
  <2>4. Rim(k) \in 21..100
    BY <2>1
  <2> QED BY <2>2, <2>3, <2>4
<1> QED BY <1>1, <1>2, <1>3, <1>4, <1>6

LEMMA BlockFacts ==
    ASSUME sceneP \in Courts, NEW k \in Blocks
    PROVE  /\ Mid(k) \in Int /\ Rim(k) \in Int /\ Rim(k) >= 21 /\ Rim(k) <= 100
           /\ Mid(k) - Rim(k) >= 40 /\ Mid(k) + Rim(k) <= sceneP.width - 40
<1>1. Mid(k) \in Int /\ Rim(k) \in 21..100
  BY CourtFacts
<1>2. Mid(k) - Rim(k) >= 40 /\ Mid(k) + Rim(k) <= sceneP.width - 40
  BY CourtFacts
<1> QED BY <1>1, <1>2

LEMMA BlocksApart ==
    ASSUME sceneP \in Courts, NEW k \in Blocks, NEW j \in Blocks, j # k
    PROVE  Mid(j) >= Mid(k) + (Rim(k) + 60) \/ Mid(j) <= Mid(k) - (Rim(k) + 60)
  BY CourtFacts

\* A body at y is at least m from the middle of every obstacle, on the side of
\* a body at x.
Sides(y, x, m) ==
    \A k \in Blocks : (y >= Mid(k) + m /\ x > Mid(k)) \/ (y <= Mid(k) - m /\ x < Mid(k))

\* The positions while the first n obstacles are looked at.
Outs(x, radius, n, f) ==
    f = [k \in 0..n |-> IF k = 0 THEN x ELSE Bodies!OutOf(f[k - 1], radius, sceneP.obstacles[k])]

LEMMA OutsExists ==
    ASSUME NEW x, NEW radius, NEW n \in Nat
    PROVE  \E f : Outs(x, radius, n, f)
<1> DEFINE S == {m \in Nat : \E f : Outs(x, radius, m, f)}
<1>1. 0 \in S
  <2> DEFINE f == [k \in 0..0 |-> x]
  <2>1. Outs(x, radius, 0, f)
    BY DEF Outs
  <2> QED BY <2>1
<1>2. ASSUME NEW m \in Nat, m \in S PROVE m + 1 \in S
  <2>1. PICK f : Outs(x, radius, m, f)
    BY <1>2
  <2> DEFINE F(h, k) == IF k = 0 THEN x ELSE Bodies!OutOf(h[k - 1], radius, sceneP.obstacles[k])
             g == [k \in 0..m + 1 |-> IF k = m + 1 THEN F(f, k) ELSE f[k]]
  <2>2. \A k \in 0..m : g[k] = f[k]
    OBVIOUS
  <2>3. \A k \in 0..m + 1 : g[k] = F(g, k)
    <3> TAKE k \in 0..m + 1
    <3>1. CASE k = m + 1
      <4>1. k - 1 \in 0..m /\ k # 0 /\ g[k] = F(f, k)
        BY <3>1
      <4> QED BY <2>2, <4>1
    <3>2. CASE k # m + 1
      <4>1. k \in 0..m /\ (k # 0 => k - 1 \in 0..m)
        BY <3>2
      <4>2. f[k] = F(f, k)
        BY <2>1, <4>1 DEF Outs
      <4> QED BY <2>2, <4>1, <4>2
    <3> QED BY <3>1, <3>2
  <2>4. g = [k \in 0..m + 1 |-> F(g, k)]
    <3>1. g = [k \in 0..m + 1 |-> g[k]]
      OBVIOUS
    <3> HIDE DEF g
    <3> QED BY <2>3, <3>1
  <2>5. Outs(x, radius, m + 1, g)
    <3> HIDE DEF g
    <3> QED BY <2>4 DEF Outs
  <2> QED BY <2>5
<1> HIDE DEF S
<1>3. n \in S
  BY <1>1, <1>2, SetInduction
<1> QED BY <1>3 DEF S

\* Everybody is put out of all obstacles on its side: the next one is too far
\* away to put a body back.
LEMMA OutOfThem ==
    ASSUME sceneP \in Courts, NEW x \in Int, Sides(x, x, 1),
           NEW radius \in Nat, NEW m \in Nat, (radius = 10 /\ m = 28) \/ (radius = 20 /\ m = 38)
    PROVE  LET y == Bodies!OutOfAll(x, radius)
           IN  /\ y \in Int /\ Sides(y, x, m)
               /\ x \in -10..sceneP.width + 10 => y \in -10..sceneP.width + 10
               /\ sceneP.obstacles = <<>> => y = x
<1> DEFINE W == sceneP.width
           n == Len(sceneP.obstacles)
           out == CHOOSE f : Outs(x, radius, n, f)
           Fine(i) ==
               /\ out[i] \in Int
               /\ x \in -10..W + 10 => out[i] \in -10..W + 10
               /\ \A k \in Blocks : /\ (out[i] > Mid(k) /\ x > Mid(k)) \/ (out[i] < Mid(k) /\ x < Mid(k))
                                    /\ k <= i => out[i] >= Mid(k) + m \/ out[i] <= Mid(k) - m
<1>1. n \in Nat
  BY CourtFacts
<1>2. Outs(x, radius, n, out)
  BY <1>1, OutsExists
<1>3. Bodies!OutOfAll(x, radius) = out[n]
  BY DEF Bodies!OutOfAll, Bodies!Obstacles, Outs
<1> HIDE DEF out
<1>4. out[0] = x /\ \A i \in 1..n : out[i] = Bodies!OutOf(out[i - 1], radius, sceneP.obstacles[i])
  <2> HIDE DEF n
  <2>1. 0 \in 0..n /\ \A i \in 1..n : i \in 0..n /\ i # 0
    BY <1>1
  <2>2. \A i \in 0..n : out[i] = IF i = 0 THEN x ELSE Bodies!OutOf(out[i - 1], radius, sceneP.obstacles[i])
    BY <1>2 DEF Outs
  <2> QED BY <2>1, <2>2
<1>5. \A k \in Blocks : k \in 1..n /\ k \in Nat
  BY <1>1 DEF Blocks
<1>6. Fine(0)
  <2>1. \A k \in Blocks : Mid(k) \in Int
    BY CourtFacts
  <2> QED BY <1>4, <1>5, <2>1 DEF Sides
<1>7. ASSUME NEW i \in 1..n, Fine(i - 1) PROVE Fine(i)
  <2> DEFINE y == out[i - 1]
             z == out[i]
             sum == radius + Rim(i)
  <2>1. i \in Blocks /\ z = Bodies!OutOf(y, radius, sceneP.obstacles[i]) /\ i - 1 \in Nat
    BY <1>1, <1>4 DEF Blocks
  <2>2. Mid(i) \in Int /\ Rim(i) \in Int /\ Rim(i) >= 21 /\ Rim(i) <= 100
    BY <2>1, BlockFacts
  <2>8. Mid(i) - Rim(i) >= 40 /\ Mid(i) + Rim(i) <= W - 40 /\ W \in Nat
    BY <2>1, BlockFacts, CourtFacts
  <2>9. sceneP.obstacles[i] \in Int \X Nat
    BY <2>1, CourtFacts
  <2>3. y \in Int /\ ((y > Mid(i) /\ x > Mid(i)) \/ (y < Mid(i) /\ x < Mid(i)))
    BY <1>7, <2>1
  <2>4. sum <= 120 /\ sum >= m + 3 /\ m \in 1..38 /\ radius \in Nat /\ sum \in Nat /\ sum <= Rim(i) + 20
    <3>1. CASE radius = 10 /\ m = 28
      BY <2>2, <3>1
    <3>2. CASE radius = 20 /\ m = 38
      BY <2>2, <3>2
    <3> QED BY <3>1, <3>2
  <2>5. /\ z \in Int
        /\ y > Mid(i) => z >= Mid(i) + m
        /\ y < Mid(i) => z <= Mid(i) - m
        /\ z = y \/ (y > Mid(i) - sum /\ y < Mid(i) + sum /\ z <= Mid(i) + sum /\ z >= Mid(i) - sum)
    <3> HIDE DEF y, z
    <3> DEFINE o == sceneP.obstacles[i]
    <3>1. o \in Int \X Nat /\ o[1] = Mid(i) /\ o[2] = Rim(i) /\ z = Bodies!OutOf(y, radius, o)
      BY <2>1, <2>9 DEF Mid, Rim
    <3> HIDE DEF o
    <3>2. y # o[1] /\ radius + o[2] = sum
      BY <2>2, <2>3, <3>1
    <3>3. LET u == Bodies!OutOf(y, radius, o)
          IN  /\ u \in Int
              /\ y > o[1] => u >= o[1] + m
              /\ y < o[1] => u <= o[1] - m
              /\ u = y \/ (y > o[1] - (radius + o[2]) /\ y < o[1] + (radius + o[2])
                             /\ u <= o[1] + (radius + o[2]) /\ u >= o[1] - (radius + o[2]))
      <4> HIDE DEF sum
      <4> QED BY <2>3, <2>4, <3>1, <3>2, OutOfOne
    <3> HIDE DEF sum
    <3> QED BY <3>1, <3>2, <3>3
  <2>6. ASSUME NEW k \in Blocks
        PROVE  /\ (z > Mid(k) /\ x > Mid(k)) \/ (z < Mid(k) /\ x < Mid(k))
               /\ k <= i => z >= Mid(k) + m \/ z <= Mid(k) - m
    <3>1. CASE k = i
      <4> HIDE DEF y, z, sum
      <4>1. (z > Mid(i) /\ x > Mid(i) /\ z >= Mid(i) + m) \/ (z < Mid(i) /\ x < Mid(i) /\ z <= Mid(i) - m)
        BY <2>2, <2>3, <2>4, <2>5
      <4> QED BY <3>1, <4>1
    <3>2. CASE k # i
      <4>1. Mid(k) \in Int /\ (Mid(k) >= Mid(i) + (Rim(i) + 60) \/ Mid(k) <= Mid(i) - (Rim(i) + 60))
        BY <2>1, <3>2, BlockFacts, BlocksApart
      <4>2. /\ (y > Mid(k) /\ x > Mid(k)) \/ (y < Mid(k) /\ x < Mid(k))
            /\ k <= i => y >= Mid(k) + m \/ y <= Mid(k) - m
        <5>1. k <= i => k <= i - 1
          BY <1>5, <2>1, <3>2
        <5> QED BY <1>7, <5>1
      <4>3. CASE z = y
        BY <4>2, <4>3
      <4>4. CASE z # y
        <5> HIDE DEF y, z, sum
        <5>0. Mid(i) \in Int /\ Rim(i) \in Int /\ z \in Int /\ y \in Int
          BY <2>2, <2>3, <2>5
        <5>1. y > Mid(i) - (Rim(i) + 20) /\ y < Mid(i) + (Rim(i) + 20)
              /\ z <= Mid(i) + (Rim(i) + 20) /\ z >= Mid(i) - (Rim(i) + 20)
          <6>1. y > Mid(i) - sum /\ y < Mid(i) + sum /\ z <= Mid(i) + sum /\ z >= Mid(i) - sum
            BY <2>5, <4>4
          <6>2. Mid(i) \in Int /\ Rim(i) \in Int /\ sum \in Nat /\ sum <= Rim(i) + 20 /\ z \in Int /\ y \in Int
            BY <2>2, <2>3, <2>4, <2>5
          <6> QED BY <6>1, <6>2
        <5>2. CASE Mid(k) >= Mid(i) + (Rim(i) + 60)
          <6>0. Mid(k) \in Int
            BY <4>1
          <6> DEFINE edge == Mid(i) + (Rim(i) + 20)
          <6>4. edge \in Int /\ y < edge /\ z <= edge /\ Mid(k) >= edge + 40
            BY <5>0, <5>1, <5>2, <6>0
          <6> HIDE DEF edge
          <6>1. y < Mid(k) /\ z <= Mid(k) - 40
            BY <5>0, <6>0, <6>4
          <6>2. x < Mid(k)
            BY <2>3, <4>1, <4>2, <6>1
          <6>3. z < Mid(k) /\ z <= Mid(k) - m
            BY <2>4, <2>5, <4>1, <6>1
          <6> QED BY <6>2, <6>3
        <5>3. CASE Mid(k) <= Mid(i) - (Rim(i) + 60)
          <6>0. Mid(k) \in Int
            BY <4>1
          <6> DEFINE edge == Mid(i) - (Rim(i) + 20)
          <6>4. edge \in Int /\ y > edge /\ z >= edge /\ Mid(k) <= edge - 40
            BY <5>0, <5>1, <5>3, <6>0
          <6> HIDE DEF edge
          <6>1. y > Mid(k) /\ z >= Mid(k) + 40
            BY <5>0, <6>0, <6>4
          <6>2. x > Mid(k)
            BY <2>3, <4>1, <4>2, <6>1
          <6>3. z > Mid(k) /\ z >= Mid(k) + m
            BY <2>4, <2>5, <4>1, <6>1
          <6> QED BY <6>2, <6>3
        <5> QED BY <4>1, <5>2, <5>3
      <4> QED BY <4>3, <4>4
    <3> QED BY <3>1, <3>2
  <2>7. x \in -10..W + 10 => z \in -10..W + 10
    <3>4. x \in -10..W + 10 => y \in -10..W + 10
      BY <1>7
    <3> HIDE DEF y, z, sum
    <3>1. Mid(i) + sum <= W - 20 /\ Mid(i) - sum >= 20
      <4>1. sum \in Int /\ sum <= Rim(i) + 20
        BY <2>4
      <4>2. W \in Int
        BY <2>8
      <4> HIDE DEF W
      <4> QED BY <2>2, <2>8, <4>1, <4>2
    <3>2. CASE z = y
      BY <3>2, <3>4
    <3>3. CASE z # y
      <4>1. z <= Mid(i) + sum /\ z >= Mid(i) - sum
        BY <2>5, <3>3
      <4>2. W \in Int /\ z \in Int /\ Mid(i) \in Int /\ sum \in Int
        BY <2>2, <2>4, <2>5, <2>8
      <4> HIDE DEF W
      <4>3. z \in -10..W + 10
        BY <3>1, <4>1, <4>2
      <4> QED BY <4>3
    <3> QED BY <3>2, <3>3
  <2> QED BY <2>5, <2>6, <2>7
<1>8. Fine(n)
  <2> DEFINE S == {i \in Nat : i <= n => Fine(i)}
  <2> HIDE DEF Fine
  <2>1. 0 \in S
    BY <1>6
  <2>2. ASSUME NEW i \in Nat, i \in S PROVE i + 1 \in S
    <3> SUFFICES ASSUME i + 1 <= n PROVE Fine(i + 1)
      OBVIOUS
    <3>1. i + 1 \in 1..n /\ (i + 1) - 1 = i
      BY <1>1
    <3> QED BY <1>1, <1>7, <2>2, <3>1
  <2> HIDE DEF S
  <2>3. n \in S
    BY <1>1, <2>1, <2>2, SetInduction
  <2> QED BY <1>1, <2>3 DEF S
<1>9. Sides(out[n], x, m)
  <2> SUFFICES ASSUME NEW k \in Blocks
               PROVE  (out[n] >= Mid(k) + m /\ x > Mid(k)) \/ (out[n] <= Mid(k) - m /\ x < Mid(k))
    BY DEF Sides
  <2>1. k <= n /\ Mid(k) \in Int
    BY <1>5, BlockFacts
  <2>2. /\ out[n] \in Int /\ ((out[n] > Mid(k) /\ x > Mid(k)) \/ (out[n] < Mid(k) /\ x < Mid(k)))
        /\ (out[n] >= Mid(k) + m \/ out[n] <= Mid(k) - m)
    BY <1>8, <2>1
  <2> HIDE DEF Fine
  <2> QED BY <2>1, <2>2
<1>10. sceneP.obstacles = <<>> => out[n] = x
  BY <1>4
<1> QED BY <1>3, <1>8, <1>9, <1>10

Clamped(z, radius) ==
    IF z < radius THEN radius ELSE IF z > sceneP.width - radius THEN sceneP.width - radius ELSE z

LEMMA Moves ==
    ASSUME NEW x \in Int, NEW radius \in Int, sceneP.width \in Int, sceneP.width >= 2 * radius,
           NEW speed \in Int, NEW max \in Nat
    PROVE  /\ Bodies!Limited(speed, max) \in -max..max
           /\ Bodies!movement_update(x, Bodies!Limited(speed, max), radius)
                = Clamped(x + Bodies!Limited(speed, max), radius)
<1> DEFINE v == Bodies!Limited(speed, max)
<1>1. v \in -max..max
  BY DEF Bodies!Limited
<1> HIDE DEF v
<1>2. v \in Int
  BY <1>1
<1>3. Bodies!movement_update(x, v, radius) = Clamped(x + v, radius)
  <2> DEFINE W == sceneP.width
  <2>1. Bodies!movement_update(x, v, radius)
          = CASE x + v < radius -> radius [] x + v > W - radius -> W - radius [] OTHER -> x + v
    BY DEF Bodies!movement_update
  <2>2. W \in Int /\ W >= 2 * radius
    OBVIOUS
  <2> HIDE DEF W
  <2>3. CASE x + v < radius
    BY <1>2, <2>1, <2>2, <2>3 DEF Clamped, W
  <2>4. CASE ~(x + v < radius) /\ x + v > sceneP.width - radius
    BY <1>2, <2>1, <2>2, <2>4 DEF Clamped, W
  <2>5. CASE ~(x + v < radius) /\ ~(x + v > sceneP.width - radius)
    BY <1>2, <2>1, <2>2, <2>5 DEF Clamped, W
  <2> QED BY <2>3, <2>4, <2>5
<1> QED BY <1>1, <1>3 DEF v

LEMMA ClampedSides ==
    ASSUME sceneP \in Courts, NEW x \in Int, NEW max \in Nat, NEW v \in -max..max, NEW radius \in {10, 20},
           NEW m \in Nat, m >= 1, m <= 40, Sides(x, x, m + max)
    PROVE  Sides(Clamped(x + v, radius), x, m)
<1> SUFFICES ASSUME NEW k \in Blocks
             PROVE  LET y == Clamped(x + v, radius)
                    IN  (y >= Mid(k) + m /\ x > Mid(k)) \/ (y <= Mid(k) - m /\ x < Mid(k))
  BY DEF Sides
<1>1. /\ sceneP.width \in Nat /\ Mid(k) \in Int /\ Rim(k) \in Int /\ Rim(k) >= 21
      /\ Mid(k) - Rim(k) >= 40 /\ Mid(k) + Rim(k) <= sceneP.width - 40
  BY CourtFacts, BlockFacts
<1>2. (x >= Mid(k) + (m + max) /\ x > Mid(k)) \/ (x <= Mid(k) - (m + max) /\ x < Mid(k))
  BY DEF Sides
<1> QED BY <1>1, <1>2 DEF Clamped

\* Where a player at p leaves the ball.
Pushed(b, p) == IF p - b < 30 /\ b - p < 30 THEN b + Bodies!BallPush[b - p] ELSE b

LEMMA PushedBall ==
    ASSUME NEW b \in Int, NEW p \in Int
    PROVE  /\ Pushed(b, p) \in Int
           /\ Pushed(b, p) = b \/ (p - b < 30 /\ b - p < 30 /\ Pushed(b, p) \in p - 30..p + 30)
           /\ b > p => Pushed(b, p) >= p + 27
           /\ b < p => Pushed(b, p) <= p - 27
           /\ b # p /\ p - b < 30 /\ b - p < 30 => Pushed(b, p) \in p - 30..p - 27 \/ Pushed(b, p) \in p + 27..p + 30
           /\ b > p => Pushed(b, p) >= b - 1
           /\ b < p => Pushed(b, p) <= b + 1
<1> DEFINE d == b - p
           push == Bodies!BallPush[d]
<1>1. CASE p - b < 30 /\ b - p < 30
  <2>1. d \in Int /\ -30 < d /\ d < 30 /\ b = p + d
    BY <1>1
  <2> HIDE DEF d
  <2>2. /\ push \in Int
        /\ d > 0 => d + push \in 27..30
        /\ d < 0 => d + push \in -30..-27
        /\ d = 0 => push = 0
        /\ (d > 0 => push >= -1) /\ (d < 0 => push <= 1)
    BY <2>1, BallIsPushed
  <2>3. Pushed(b, p) = b + push
    BY <1>1 DEF Pushed, d
  <2> HIDE DEF push
  <2> QED BY <1>1, <2>1, <2>2, <2>3
<1>2. CASE ~(p - b < 30 /\ b - p < 30)
  BY <1>2 DEF Pushed
<1> QED BY <1>1, <1>2

LEMMA PushedSides ==
    ASSUME sceneP \in Courts, NEW x \in Int, NEW b \in Int, Sides(b, x, 1), NEW p \in Int, Sides(p, p, 31)
    PROVE  Sides(Pushed(b, p), x, 1)
<1> SUFFICES ASSUME NEW k \in Blocks
             PROVE  LET y == Pushed(b, p)
                    IN  (y >= Mid(k) + 1 /\ x > Mid(k)) \/ (y <= Mid(k) - 1 /\ x < Mid(k))
  BY DEF Sides
<1>1. Mid(k) \in Int
  BY CourtFacts
<1>2. (b >= Mid(k) + 1 /\ x > Mid(k)) \/ (b <= Mid(k) - 1 /\ x < Mid(k))
  BY DEF Sides
<1>3. p >= Mid(k) + 31 \/ p <= Mid(k) - 31
  BY DEF Sides
<1>4. /\ Pushed(b, p) \in Int
      /\ Pushed(b, p) = b \/ (p - b < 30 /\ b - p < 30 /\ Pushed(b, p) \in p - 30..p + 30)
  BY PushedBall
<1> QED BY <1>1, <1>2, <1>3, <1>4


-----------------------------------------------------------------------------
(* The bodies: a frame *)

Crowd == 1..sceneP.numPlayers

\* What a frame works on.
State == [ball : Int, players : [Crowd -> Int], touches : Int, pushed : Int]

\* What is left of the velocities.
Push(v) == Bodies!Limited(v, 7)
Roll(b) == Bodies!Limited(b, 15)

LEMMA Turned ==
    ASSUME NEW s \in State, NEW i \in Crowd, NEW speed \in Int, sceneP.width \in Int, sceneP.width >= 40
    PROVE  LET p == Clamped(s.players[i] + Push(speed), 20)
               t == Bodies!Turn(s, i, speed)
           IN  t \in State /\ t.players = [s.players EXCEPT ![i] = p] /\ t.ball = Pushed(s.ball, p)
<1> DEFINE p == Clamped(s.players[i] + Push(speed), 20)
           t == Bodies!Turn(s, i, speed)
           moved == [s EXCEPT !.players[i] = p]
<1>1. i \in Int /\ s.players[i] \in Int /\ s.ball \in Int /\ s.players \in [Crowd -> Int] /\ s.touches \in Int
  <2>1. s.players \in [Crowd -> Int] /\ s.ball \in Int /\ s.touches \in Int
    BY DEF State
  <2>2. i \in Int
    BY DEF Crowd
  <2> QED BY <2>1, <2>2
<1>2. /\ Push(speed) \in Int
      /\ Bodies!movement_update(s.players[i], Bodies!Limited(speed, Bodies!MAX_PLAYER_SPEED), Bodies!PLAYER_RADIUS) = p
  <2> DEFINE x == s.players[i]
             radius == Bodies!PLAYER_RADIUS
             max == Bodies!MAX_PLAYER_SPEED
  <2>1. x \in Int /\ radius = 20 /\ max = 7
    BY <1>1 DEF Bodies!PLAYER_RADIUS, Bodies!MAX_PLAYER_SPEED
  <2> HIDE DEF x, radius, max
  <2>2. radius \in Int /\ max \in Nat /\ sceneP.width >= 2 * radius
    BY <2>1
  <2>3. Bodies!movement_update(x, Bodies!Limited(speed, max), radius) = Clamped(x + Bodies!Limited(speed, max), radius)
    BY <2>1, <2>2, Moves
  <2>4. Push(speed) = Bodies!Limited(speed, max)
    BY <2>1 DEF Push
  <2>5. Push(speed) \in Int
    BY <2>1 DEF Push, Bodies!Limited
  <2> QED BY <2>1, <2>3, <2>4, <2>5 DEF x, radius, max
<1>3. p \in Int
  BY <1>1, <1>2 DEF Clamped
<1>4. Bodies!BallSum = 30
  BY DEF Bodies!BallSum, Bodies!BALL_RADIUS, Bodies!PLAYER_RADIUS
<1>5. t = IF Bodies!Touching(p, s.ball, 30)
          THEN [moved EXCEPT !.ball = @ + Bodies!BallPush[s.ball - p], !.touches = @ + 1, !.pushed = i]
          ELSE moved
  BY <1>2, <1>4 DEF Bodies!Turn
<1> HIDE DEF p
<1>6. moved \in State /\ moved.players = [s.players EXCEPT ![i] = p] /\ moved.ball = s.ball /\ moved.touches = s.touches
  BY <1>1, <1>3 DEF State
<1>7. Bodies!Touching(p, s.ball, 30) <=> (p - s.ball < 30 /\ s.ball - p < 30)
  BY <1>1, <1>3 DEF Bodies!Touching, Bodies!Abs
<1>8. ASSUME p - s.ball < 30 /\ s.ball - p < 30
      PROVE  t \in State /\ t.players = moved.players /\ t.ball = Pushed(s.ball, p)
  <2> DEFINE push == Bodies!BallPush[s.ball - p]
  <2>1. Pushed(s.ball, p) = s.ball + push /\ Pushed(s.ball, p) \in Int
    BY <1>1, <1>3, <1>8, PushedBall DEF Pushed
  <2>2. t = [moved EXCEPT !.ball = @ + push, !.touches = @ + 1, !.pushed = i]
    BY <1>5, <1>7, <1>8
  <2>3. t = [ball |-> s.ball + push, players |-> moved.players, touches |-> s.touches + 1, pushed |-> i]
    <3> HIDE DEF push, moved, t
    <3>1. moved \in [ball : Int, players : [Crowd -> Int], touches : Int, pushed : Int]
      BY <1>6 DEF State
    <3> QED BY <1>6, <2>2, <3>1
  <2> HIDE DEF push, moved, t
  <2>4. moved.players \in [Crowd -> Int]
    BY <1>6 DEF State
  <2>5. t \in State
    BY <1>1, <2>1, <2>3, <2>4 DEF State
  <2>6. t.players = moved.players /\ t.ball = s.ball + push
    BY <2>3
  <2> QED BY <2>1, <2>5, <2>6
<1>9. ASSUME ~(p - s.ball < 30 /\ s.ball - p < 30)
      PROVE  t \in State /\ t.players = moved.players /\ t.ball = Pushed(s.ball, p)
  <2>1. t = moved
    BY <1>5, <1>7, <1>9
  <2>2. Pushed(s.ball, p) = s.ball
    BY <1>9 DEF Pushed
  <2> HIDE DEF moved, t
  <2> QED BY <1>6, <2>1, <2>2
<1>10. t \in State /\ t.players = [s.players EXCEPT ![i] = p] /\ t.ball = Pushed(s.ball, p)
  <2> HIDE DEF moved, t
  <2> QED BY <1>6, <1>8, <1>9
<1> HIDE DEF t
<1> QED BY <1>10 DEF p, t

\* Where two players at p and q are put.
First(p, q) == IF p - q < 40 /\ q - p < 40 THEN p - Bodies!PlayerPush[q - p] ELSE p
Second(p, q) == IF p - q < 40 /\ q - p < 40 THEN q + Bodies!PlayerPush[q - p] ELSE q

LEMMA PartedPlayers ==
    ASSUME NEW p \in Int, NEW q \in Int
    PROVE  /\ First(p, q) \in p - 20..p + 20 /\ Second(p, q) \in q - 20..q + 20
           /\ p < q => /\ First(p, q) <= p /\ Second(p, q) >= q
                       /\ p - First(p, q) = Second(p, q) - q
                       /\ Second(p, q) - p >= 15
<1> DEFINE d == q - p
           push == Bodies!PlayerPush[d]
<1>1. CASE p - q < 40 /\ q - p < 40
  <2>1. d \in Int /\ d > -40 /\ d < 40 /\ q = p + d
    BY <1>1
  <2>2. First(p, q) = p - push /\ Second(p, q) = q + push
    BY <1>1 DEF First, Second
  <2> HIDE DEF d
  <2>3. push \in -20..20 /\ (d > 0 => push >= 0 /\ d + push >= 15)
    <3>1. CASE d > 0
      <4>1. d \in 1..39
        BY <2>1, <3>1
      <4> QED BY <4>1, PlayersArePushed
    <3>2. CASE d = 0
      BY <3>2, NobodyIsPushed
    <3>3. CASE d < 0
      <4> DEFINE e == -d
      <4>1. e \in 1..39 /\ -e = d
        BY <2>1, <3>3
      <4> HIDE DEF e
      <4>2. Bodies!PlayerPush[e] \in 0..20 /\ push = 0 - Bodies!PlayerPush[e]
        BY <4>1, PlayersArePushed
      <4> DEFINE r == Bodies!PlayerPush[e]
      <4>3. r \in 0..20 /\ push = 0 - r
        BY <4>2
      <4> HIDE DEF push, r
      <4> QED BY <3>3, <2>1, <4>3
    <3> QED BY <2>1, <3>1, <3>2, <3>3
  <2> HIDE DEF push
  <2> QED BY <2>1, <2>2, <2>3
<1>2. CASE ~(p - q < 40 /\ q - p < 40)
  <2>1. First(p, q) = p /\ Second(p, q) = q
    BY <1>2 DEF First, Second
  <2> QED BY <1>2, <2>1
<1> QED BY <1>1, <1>2

\* The same with the second player behind: the pushes are opposite.
LEMMA PartedPlayersBack ==
    ASSUME NEW p \in Int, NEW q \in Int, q < p
    PROVE  /\ Second(p, q) <= q /\ First(p, q) >= p
           /\ q - Second(p, q) = First(p, q) - p
           /\ First(p, q) - q >= 15
<1> DEFINE e == p - q
           push == Bodies!PlayerPush[-e]
           back == Bodies!PlayerPush[e]
<1>1. CASE e < 40
  <2>1. e \in 1..39 /\ q - p = -e /\ p - q < 40 /\ q - p < 40 /\ p = q + e
    BY <1>1
  <2>2. First(p, q) = p - push /\ Second(p, q) = q + push
    BY <2>1 DEF First, Second
  <2> HIDE DEF e
  <2>3. back \in 0..20 /\ e + back >= 15 /\ push = 0 - back
    BY <2>1, PlayersArePushed
  <2> HIDE DEF push, back
  <2> QED BY <2>1, <2>2, <2>3
<1>2. CASE ~(e < 40)
  <2>1. First(p, q) = p /\ Second(p, q) = q
    BY <1>2 DEF First, Second
  <2> QED BY <1>2, <2>1
<1> QED BY <1>1, <1>2

LEMMA PartedState ==
    ASSUME NEW s \in State, sceneP.numPlayers = 2
    PROVE  LET t == Bodies!Parted(s)
           IN  /\ t \in State /\ t.ball = s.ball
               /\ t.players[1] = First(s.players[1], s.players[2])
               /\ t.players[2] = Second(s.players[1], s.players[2])
<1> DEFINE p == s.players[1]
           q == s.players[2]
           t == Bodies!Parted(s)
           push == Bodies!PlayerPush[q - p]
<1>1. Crowd = {1, 2} /\ p \in Int /\ q \in Int /\ s.ball \in Int /\ s.players \in [Crowd -> Int]
  BY DEF Crowd, State
<1>2. Bodies!Touching(p, q, Bodies!PlayerSum) <=> (p - q < 40 /\ q - p < 40)
  <2>1. Bodies!PlayerSum = 40
    BY DEF Bodies!PlayerSum, Bodies!PLAYER_RADIUS
  <2> QED BY <1>1, <2>1 DEF Bodies!Touching, Bodies!Abs
<1>3. CASE p - q < 40 /\ q - p < 40
  <2>1. t = [s EXCEPT !.players = <<@[1] - push, @[2] + push>>]
    BY <1>2, <1>3 DEF Bodies!Parted
  <2>2. First(p, q) = p - push /\ Second(p, q) = q + push /\ First(p, q) \in Int /\ Second(p, q) \in Int
    <3>1. First(p, q) = p - push /\ Second(p, q) = q + push
      BY <1>3 DEF First, Second
    <3> HIDE DEF p, q, push
    <3>2. First(p, q) \in Int /\ Second(p, q) \in Int
      <4>1. p \in Int /\ q \in Int
        BY <1>1
      <4>2. First(p, q) \in p - 20..p + 20 /\ Second(p, q) \in q - 20..q + 20
        BY <4>1, PartedPlayers
      <4> QED BY <4>1, <4>2
    <3> QED BY <3>1, <3>2
  <2> HIDE DEF push
  <2> DEFINE ps == <<p - push, q + push>>
  <2>3. ps \in [Crowd -> Int] /\ ps[1] = First(p, q) /\ ps[2] = Second(p, q)
    BY <1>1, <2>2
  <2>4. t = [s EXCEPT !.players = ps]
    BY <2>1
  <2> HIDE DEF ps, t
  <2>5. t \in State /\ t.ball = s.ball /\ t.players = ps
    BY <2>3, <2>4 DEF State
  <2> QED BY <2>3, <2>5 DEF t
<1>4. CASE ~(p - q < 40 /\ q - p < 40)
  <2>1. t = s
    BY <1>2, <1>4 DEF Bodies!Parted
  <2>2. First(p, q) = p /\ Second(p, q) = q
    BY <1>4 DEF First, Second
  <2> QED BY <2>1, <2>2
<1> QED BY <1>3, <1>4


\* Where everybody is before the obstacles are looked at.
BallMoved(b) == Clamped(ball + Roll(b), 10)
PlayerMoved(i, v) == Clamped(players[i] + Push(v[i]), 20)

\* What a frame does, body by body.
Outcome(b, v) ==
    /\ sceneP' = sceneP /\ players' = [i \in Crowd |-> players'[i]] /\ touch_counter' \in Int
    /\ sceneP.numPlayers = 1 =>
         /\ ball' = Bodies!OutOfAll(Pushed(BallMoved(b), PlayerMoved(1, v)), 10)
         /\ players'[1] = Bodies!OutOfAll(PlayerMoved(1, v), 20)
    /\ sceneP.numPlayers = 2 =>
         /\ ball' = Bodies!OutOfAll(Pushed(Pushed(BallMoved(b), PlayerMoved(1, v)), PlayerMoved(2, v)), 10)
         /\ players'[1] = Bodies!OutOfAll(First(PlayerMoved(1, v), PlayerMoved(2, v)), 20)
         /\ players'[2] = Bodies!OutOfAll(Second(PlayerMoved(1, v), PlayerMoved(2, v)), 20)

BodiesTypes ==
    /\ sceneP \in Courts /\ sceneP.width >= 40
    /\ ball \in Int /\ players \in [Crowd -> Int] /\ touch_counter \in Int

LEMMA BodiesOut ==
    ASSUME BodiesTypes, NEW b \in BallSpeeds, NEW v \in [Crowd -> PlayerSpeeds], Bodies!Frame(b, v)
    PROVE  Outcome(b, v)
<1> DEFINE s == [ball |-> ball, players |-> players, touches |-> touch_counter, pushed |-> 0]
           r == Bodies!Moved(s, b)
           first == Bodies!Turn(r, 1, v[1])
           second == Bodies!Turn(first, 2, v[2])
           last == IF sceneP.numPlayers = 2 THEN Bodies!Parted(second) ELSE first
           p1 == PlayerMoved(1, v)
           p2 == PlayerMoved(2, v)
<1>1. /\ sceneP.width \in Int /\ sceneP.width >= 40 /\ sceneP.numPlayers \in 1..2 /\ 1 \in Crowd
      /\ sceneP.numPlayers = 2 => 2 \in Crowd
      /\ b \in Int /\ \A i \in Crowd : v[i] \in Int
  <2>1. sceneP \in Courts /\ sceneP.width >= 40
    BY DEF BodiesTypes
  <2>2. sceneP.width \in Int /\ sceneP.numPlayers \in 1..2
    BY <2>1, CourtFacts
  <2>3. BallSpeeds \subseteq Int /\ PlayerSpeeds \subseteq Int
    BY CourtsAssumption
  <2>4. 1 \in Crowd /\ (sceneP.numPlayers = 2 => 2 \in Crowd)
    BY <2>2 DEF Crowd
  <2>5. b \in Int /\ \A i \in Crowd : v[i] \in Int
    BY <2>3
  <2> QED BY <2>1, <2>2, <2>4, <2>5
<1>2. r \in State /\ r.players = players /\ r.ball = BallMoved(b)
  <2>1. s \in State
    BY DEF BodiesTypes, State
  <2> DEFINE radius == Bodies!BALL_RADIUS
             max == Bodies!MAX_BALL_SPEED
  <2>2. radius = 10 /\ max = 15
    BY DEF Bodies!BALL_RADIUS, Bodies!MAX_BALL_SPEED
  <2>3. r = [s EXCEPT !.ball = Bodies!movement_update(ball, Bodies!Limited(b, max), radius)]
    BY DEF Bodies!Moved
  <2> HIDE DEF radius, max
  <2>4. radius \in Int /\ max \in Nat /\ sceneP.width >= 2 * radius /\ ball \in Int
    BY <1>1, <2>2 DEF BodiesTypes
  <2>5. /\ Bodies!Limited(b, max) \in -max..max
        /\ Bodies!movement_update(ball, Bodies!Limited(b, max), radius) = Clamped(ball + Bodies!Limited(b, max), radius)
    BY <1>1, <2>4, Moves
  <2>6. Bodies!Limited(b, max) = Roll(b) /\ Roll(b) \in Int
    BY <2>2, <2>5 DEF Roll
  <2>7. Clamped(ball + Roll(b), 10) \in Int
    BY <1>1, <2>4, <2>6 DEF Clamped
  <2>8. r = [s EXCEPT !.ball = BallMoved(b)] /\ BallMoved(b) \in Int
    BY <2>2, <2>3, <2>5, <2>6, <2>7 DEF BallMoved
  <2> HIDE DEF r
  <2> QED BY <2>1, <2>8 DEF State
<1>3. first \in State /\ first.players = [players EXCEPT ![1] = p1] /\ first.ball = Pushed(BallMoved(b), p1)
  <2> HIDE DEF r
  <2>1. v[1] \in Int
    BY <1>1
  <2>2. LET p == Clamped(r.players[1] + Push(v[1]), 20)
        IN  first \in State /\ first.players = [r.players EXCEPT ![1] = p] /\ first.ball = Pushed(r.ball, p)
    BY <1>1, <1>2, <2>1, Turned
  <2> HIDE DEF first
  <2> QED BY <1>2, <2>2 DEF PlayerMoved
<1>4. players \in [Crowd -> Int]
  BY DEF BodiesTypes
<1>5. /\ first.players[1] = p1
      /\ sceneP.numPlayers = 2 => first.players[2] = players[2]
  <2> HIDE DEF first, p1
  <2> QED BY <1>1, <1>3, <1>4
<1>6. ASSUME sceneP.numPlayers = 2
      PROVE  /\ second \in State /\ second.players[1] = p1 /\ second.players[2] = p2
             /\ second.ball = Pushed(Pushed(BallMoved(b), p1), p2)
  <2> HIDE DEF first
  <2>1. v[2] \in Int /\ 2 \in Crowd
    BY <1>1, <1>6
  <2>2. LET p == Clamped(first.players[2] + Push(v[2]), 20)
        IN  second \in State /\ second.players = [first.players EXCEPT ![2] = p] /\ second.ball = Pushed(first.ball, p)
    <3>1. first \in State /\ sceneP.width \in Int /\ sceneP.width >= 40
      BY <1>1, <1>3
    <3> QED BY <2>1, <3>1, Turned
  <2> HIDE DEF second
  <2>3. second.players = [first.players EXCEPT ![2] = p2] /\ second.ball = Pushed(first.ball, p2)
    BY <1>5, <1>6, <2>2 DEF PlayerMoved
  <2>4. first.players \in [Crowd -> Int]
    BY <1>3 DEF State
  <2> HIDE DEF p1, p2
  <2> QED BY <1>1, <1>3, <1>5, <2>1, <2>2, <2>3, <2>4
<1>7. /\ sceneP' = sceneP /\ ball' = Bodies!OutOfAll(last.ball, 10) /\ touch_counter' \in Int
      /\ players' = [i \in Crowd |-> Bodies!OutOfAll(last.players[i], 20)]
  <2>1. Bodies!update_physics(s, b, v) = Bodies!Freed(last)
    BY DEF Bodies!update_physics
  <2>2. last \in State
    <3> HIDE DEF first, second
    <3>1. CASE sceneP.numPlayers = 2
      BY <1>6, <3>1, PartedState
    <3>2. CASE sceneP.numPlayers # 2
      BY <1>3, <3>2
    <3> QED BY <3>1, <3>2
  <2> HIDE DEF last
  <2> DEFINE z == Bodies!Freed(last)
  <2>3. /\ z.ball = Bodies!OutOfAll(last.ball, 10) /\ z.players = [i \in Crowd |-> Bodies!OutOfAll(last.players[i], 20)]
        /\ z.touches \in Int
    BY <2>2 DEF Bodies!Freed, Bodies!Everybody, Crowd, State, Bodies!BALL_RADIUS, Bodies!PLAYER_RADIUS
  <2>4. sceneP' = sceneP /\ ball' = z.ball /\ players' = z.players /\ touch_counter' = z.touches % 2
    BY <2>1 DEF Bodies!Frame
  <2> HIDE DEF z
  <2> QED BY <2>3, <2>4
<1> HIDE DEF first, second
<1>8. players' = [i \in Crowd |-> players'[i]]
  BY <1>7
<1>9. ASSUME sceneP.numPlayers = 1
      PROVE  ball' = Bodies!OutOfAll(Pushed(BallMoved(b), p1), 10) /\ players'[1] = Bodies!OutOfAll(p1, 20)
  <2>1. last = first
    BY <1>9
  <2> HIDE DEF last, p1
  <2> QED BY <1>1, <1>3, <1>5, <1>7, <2>1
<1>10. ASSUME sceneP.numPlayers = 2
       PROVE  /\ ball' = Bodies!OutOfAll(Pushed(Pushed(BallMoved(b), p1), p2), 10)
              /\ players'[1] = Bodies!OutOfAll(First(p1, p2), 20)
              /\ players'[2] = Bodies!OutOfAll(Second(p1, p2), 20)
  <2>1. last = Bodies!Parted(second)
    BY <1>10
  <2>2. /\ last.ball = second.ball
        /\ last.players[1] = First(second.players[1], second.players[2])
        /\ last.players[2] = Second(second.players[1], second.players[2])
    BY <1>6, <1>10, <2>1, PartedState
  <2> HIDE DEF last, p1, p2
  <2> QED BY <1>1, <1>6, <1>7, <1>10, <2>2
<1> QED BY <1>7, <1>8, <1>9, <1>10 DEF Outcome


\* The position the next movement_update starts from, at the latest.
OnCourt(x) == Clamped(x, 20)

BodiesInv ==
    /\ BodiesTypes
    /\ ball >= -10 /\ ball <= sceneP.width + 10
    /\ Sides(ball, ball, 28)
    /\ \A i \in Crowd : Sides(players[i], players[i], 38)
    /\ sceneP.numPlayers = 1 /\ sceneP.obstacles = <<>> =>
         /\ players[1] >= 20 /\ players[1] <= sceneP.width - 20
         /\ ball >= players[1] + 27 \/ ball <= players[1] - 27
    /\ sceneP.numPlayers = 2 /\ sceneP.obstacles = <<>> =>
         /\ sceneP.width >= 80
         /\ \/ OnCourt(players[1]) + 15 <= OnCourt(players[2])
            \/ OnCourt(players[2]) + 15 <= OnCourt(players[1])

LEMMA SidesTrans ==
    ASSUME sceneP \in Courts, NEW x, NEW y \in Int, NEW z \in Int, NEW m \in Nat, m >= 1, Sides(y, x, 1), Sides(z, y, m)
    PROVE  Sides(z, x, m) /\ Sides(z, z, m) /\ Sides(y, y, 1)
<1> SUFFICES ASSUME NEW k \in Blocks
             PROVE  /\ (z >= Mid(k) + m /\ x > Mid(k)) \/ (z <= Mid(k) - m /\ x < Mid(k))
                    /\ (z >= Mid(k) + m /\ z > Mid(k)) \/ (z <= Mid(k) - m /\ z < Mid(k))
                    /\ (y >= Mid(k) + 1 /\ y > Mid(k)) \/ (y <= Mid(k) - 1 /\ y < Mid(k))
  BY DEF Sides
<1>1. Mid(k) \in Int
  BY BlockFacts
<1>2. (y >= Mid(k) + 1 /\ x > Mid(k)) \/ (y <= Mid(k) - 1 /\ x < Mid(k))
  BY DEF Sides
<1>3. (z >= Mid(k) + m /\ y > Mid(k)) \/ (z <= Mid(k) - m /\ y < Mid(k))
  BY DEF Sides
<1> QED BY <1>1, <1>2, <1>3

\* A body that is moved by less than its distance stays on its side.
LEMMA SidesNear ==
    ASSUME sceneP \in Courts, NEW x, NEW y \in Int, NEW z \in Int, NEW m \in Nat, NEW n \in Nat, n >= 1,
           Sides(y, x, m + n), z <= y + m, z >= y - m
    PROVE  Sides(z, x, n)
<1> SUFFICES ASSUME NEW k \in Blocks
             PROVE  (z >= Mid(k) + n /\ x > Mid(k)) \/ (z <= Mid(k) - n /\ x < Mid(k))
  BY DEF Sides
<1>1. Mid(k) \in Int
  BY BlockFacts
<1>2. (y >= Mid(k) + (m + n) /\ x > Mid(k)) \/ (y <= Mid(k) - (m + n) /\ x < Mid(k))
  BY DEF Sides
<1> QED BY <1>1, <1>2

LEMMA SidesOwn ==
    ASSUME sceneP \in Courts, NEW x, NEW y \in Int, NEW m \in Nat, m >= 1, Sides(y, x, m)
    PROVE  Sides(y, y, m)
<1> SUFFICES ASSUME NEW k \in Blocks
             PROVE  (y >= Mid(k) + m /\ y > Mid(k)) \/ (y <= Mid(k) - m /\ y < Mid(k))
  BY DEF Sides
<1>1. Mid(k) \in Int
  BY BlockFacts
<1>2. (y >= Mid(k) + m /\ x > Mid(k)) \/ (y <= Mid(k) - m /\ x < Mid(k))
  BY DEF Sides
<1> QED BY <1>1, <1>2

LEMMA Limits ==
    ASSUME NEW speed \in Int
    PROVE  Push(speed) \in -7..7 /\ Roll(speed) \in -15..15
  BY DEF Push, Roll, Bodies!Limited

LEMMA BodiesMoved ==
    ASSUME BodiesInv, NEW b \in BallSpeeds, NEW v \in [Crowd -> PlayerSpeeds]
    PROVE  /\ BallMoved(b) \in Int /\ BallMoved(b) >= 10 /\ BallMoved(b) <= sceneP.width - 10
           /\ Sides(BallMoved(b), ball, 13)
           /\ \A i \in Crowd : /\ PlayerMoved(i, v) \in Int
                               /\ PlayerMoved(i, v) >= 20 /\ PlayerMoved(i, v) <= sceneP.width - 20
                               /\ Sides(PlayerMoved(i, v), players[i], 31)
<1>1. sceneP \in Courts /\ sceneP.width >= 40 /\ ball \in Int /\ players \in [Crowd -> Int]
  BY DEF BodiesInv, BodiesTypes
<1>2. sceneP.width \in Int
  BY <1>1, CourtFacts
<1>3. b \in Int /\ \A i \in Crowd : v[i] \in Int
  BY CourtsAssumption
<1>4. Roll(b) \in -15..15 /\ BallMoved(b) = Clamped(ball + Roll(b), 10)
  BY <1>3, Limits DEF BallMoved
<1>5. BallMoved(b) \in Int /\ BallMoved(b) >= 10 /\ BallMoved(b) <= sceneP.width - 10
  BY <1>1, <1>2, <1>4 DEF Clamped
<1>6. Sides(BallMoved(b), ball, 13)
  <2> DEFINE max == 15
             m == 13
             radius == 10
  <2>1. max \in Nat /\ m \in Nat /\ m >= 1 /\ m <= 40 /\ radius \in {10, 20} /\ m + max = 28 /\ Roll(b) \in -max..max
    BY <1>4
  <2> HIDE DEF max, m, radius
  <2>2. Sides(ball, ball, m + max)
    BY <2>1 DEF BodiesInv
  <2>3. Sides(Clamped(ball + Roll(b), radius), ball, m)
    BY <1>1, <2>1, <2>2, ClampedSides
  <2> QED BY <1>4, <2>3 DEF m, radius
<1>7. ASSUME NEW i \in Crowd
      PROVE  /\ PlayerMoved(i, v) \in Int
             /\ PlayerMoved(i, v) >= 20 /\ PlayerMoved(i, v) <= sceneP.width - 20
             /\ Sides(PlayerMoved(i, v), players[i], 31)
  <2> DEFINE x == players[i]
             step == Push(v[i])
  <2>1. x \in Int /\ step \in -7..7 /\ PlayerMoved(i, v) = Clamped(x + step, 20)
    BY <1>1, <1>3, Limits DEF PlayerMoved
  <2>2. Sides(x, x, 38)
    BY DEF BodiesInv
  <2> HIDE DEF x, step
  <2>3. PlayerMoved(i, v) \in Int /\ PlayerMoved(i, v) >= 20 /\ PlayerMoved(i, v) <= sceneP.width - 20
    BY <1>1, <1>2, <2>1 DEF Clamped
  <2> DEFINE max == 7
             m == 31
             radius == 20
  <2>4. max \in Nat /\ m \in Nat /\ m >= 1 /\ m <= 40 /\ radius \in {10, 20} /\ m + max = 38 /\ step \in -max..max
    BY <2>1
  <2> HIDE DEF max, m, radius
  <2>5. Sides(x, x, m + max)
    BY <2>2, <2>4
  <2>6. Sides(Clamped(x + step, radius), x, m)
    BY <1>1, <2>1, <2>4, <2>5, ClampedSides
  <2> QED BY <2>1, <2>3, <2>6 DEF m, radius, x
<1> QED BY <1>5, <1>6, <1>7

\* A push of the ball keeps it in sight and on its side.
LEMMA BallPushed ==
    ASSUME sceneP \in Courts, NEW x \in Int, NEW b \in Int, b >= -10, b <= sceneP.width + 10, Sides(b, x, 1),
           NEW p \in Int, p >= 20, p <= sceneP.width - 20, NEW y, Sides(p, y, 31)
    PROVE  /\ Pushed(b, p) \in Int /\ Pushed(b, p) >= -10 /\ Pushed(b, p) <= sceneP.width + 10
           /\ Sides(Pushed(b, p), x, 1)
<1>1. Sides(p, p, 31)
  <2> DEFINE m == 31
  <2>1. m \in Nat /\ m >= 1 /\ Sides(p, y, m)
    OBVIOUS
  <2> HIDE DEF m
  <2>2. Sides(p, p, m)
    BY <2>1, SidesOwn
  <2> QED BY <2>2 DEF m
<1>2. Sides(Pushed(b, p), x, 1)
  BY <1>1, PushedSides
<1>3. /\ Pushed(b, p) \in Int
      /\ Pushed(b, p) = b \/ (Pushed(b, p) >= p - 30 /\ Pushed(b, p) <= p + 30)
  BY PushedBall
<1>4. sceneP.width \in Int
  BY CourtFacts
<1> QED BY <1>2, <1>3, <1>4

\* Where the obstacles leave the ball and a player.
LEMMA BallOut ==
    ASSUME sceneP \in Courts, NEW x \in Int, NEW b \in Int, b >= -10, b <= sceneP.width + 10, Sides(b, x, 1)
    PROVE  LET z == Bodies!OutOfAll(b, 10)
           IN  /\ z \in Int /\ z >= -10 /\ z <= sceneP.width + 10
               /\ Sides(z, x, 28) /\ Sides(z, z, 28)
               /\ sceneP.obstacles = <<>> => z = b
<1> DEFINE radius == 10
           m == 28
           z == Bodies!OutOfAll(b, radius)
<1>1. radius \in Nat /\ m \in Nat /\ m >= 1 /\ (radius = 10 /\ m = 28)
  OBVIOUS
<1>2. sceneP.width \in Int /\ b \in -10..sceneP.width + 10
  BY CourtFacts
<1> HIDE DEF radius, m
<1>3. Sides(b, b, 1)
  BY SidesOwn
<1>4. /\ z \in Int /\ Sides(z, b, m)
      /\ b \in -10..sceneP.width + 10 => z \in -10..sceneP.width + 10
      /\ sceneP.obstacles = <<>> => z = b
  BY <1>1, <1>3, OutOfThem
<1> HIDE DEF z
<1>5. Sides(z, x, m) /\ Sides(z, z, m)
  BY <1>1, <1>4, SidesTrans
<1>6. z >= -10 /\ z <= sceneP.width + 10
  BY <1>2, <1>4
<1> QED BY <1>1, <1>4, <1>5, <1>6 DEF z

LEMMA PlayerOut ==
    ASSUME sceneP \in Courts, NEW x \in Int, NEW p \in Int, Sides(p, x, 1)
    PROVE  LET z == Bodies!OutOfAll(p, 20)
           IN  /\ z \in Int /\ Sides(z, x, 38) /\ Sides(z, z, 38)
               /\ sceneP.obstacles = <<>> => z = p
<1> DEFINE radius == 20
           m == 38
           z == Bodies!OutOfAll(p, radius)
<1>1. radius \in Nat /\ m \in Nat /\ m >= 1 /\ (radius = 20 /\ m = 38)
  OBVIOUS
<1> HIDE DEF radius, m
<1>2. Sides(p, p, 1)
  BY SidesOwn
<1>3. z \in Int /\ Sides(z, p, m) /\ (sceneP.obstacles = <<>> => z = p)
  BY <1>1, <1>2, OutOfThem
<1> HIDE DEF z
<1>4. Sides(z, x, m) /\ Sides(z, z, m)
  BY <1>1, <1>3, SidesTrans
<1> QED BY <1>1, <1>3, <1>4 DEF z


\* A frame keeps everybody on its side of every obstacle.
LEMMA FrameSides ==
    ASSUME BodiesInv, NEW b \in BallSpeeds, NEW v \in [Crowd -> PlayerSpeeds], Outcome(b, v)
    PROVE  /\ ball' \in Int /\ ball' >= -10 /\ ball' <= sceneP.width + 10
           /\ Sides(ball', ball, 28) /\ Sides(ball', ball', 28)
           /\ players' \in [Crowd -> Int]
           /\ \A i \in Crowd : Sides(players'[i], players[i], 38) /\ Sides(players'[i], players'[i], 38)
<1> DEFINE b1 == BallMoved(b)
           p1 == PlayerMoved(1, v)
           p2 == PlayerMoved(2, v)
           b2 == Pushed(b1, p1)
           b3 == Pushed(b2, p2)
           q1 == First(p1, p2)
           q2 == Second(p1, p2)
<1>1. sceneP \in Courts /\ ball \in Int /\ players \in [Crowd -> Int] /\ sceneP.numPlayers \in 1..2
  BY CourtFacts DEF BodiesInv, BodiesTypes
<1>2. b1 \in Int /\ b1 >= 10 /\ b1 <= sceneP.width - 10 /\ Sides(b1, ball, 13)
  BY BodiesMoved
<1>3. 1 \in Crowd /\ (sceneP.numPlayers = 2 => Crowd = {1, 2}) /\ (sceneP.numPlayers = 1 => Crowd = {1})
  BY <1>1 DEF Crowd
<1>4. p1 \in Int /\ p1 >= 20 /\ p1 <= sceneP.width - 20 /\ Sides(p1, players[1], 31)
  BY <1>3, BodiesMoved
<1>5. sceneP.numPlayers = 2 => p2 \in Int /\ p2 >= 20 /\ p2 <= sceneP.width - 20 /\ Sides(p2, players[2], 31)
  BY <1>3, BodiesMoved
<1>6. /\ players' = [i \in Crowd |-> players'[i]]
      /\ sceneP.numPlayers = 1 => ball' = Bodies!OutOfAll(b2, 10) /\ players'[1] = Bodies!OutOfAll(p1, 20)
      /\ sceneP.numPlayers = 2 => /\ ball' = Bodies!OutOfAll(b3, 10)
                                  /\ players'[1] = Bodies!OutOfAll(q1, 20)
                                  /\ players'[2] = Bodies!OutOfAll(q2, 20)
  BY DEF Outcome
<1> HIDE DEF b1, p1, p2
<1>7. sceneP.width \in Int
  BY <1>1, CourtFacts
<1>8. Sides(b1, ball, 1)
  <2> DEFINE m == 12
             n == 1
  <2>1. m \in Nat /\ n \in Nat /\ n >= 1 /\ Sides(b1, ball, m + n) /\ b1 <= b1 + m /\ b1 >= b1 - m
    BY <1>2
  <2> HIDE DEF m, n
  <2>2. Sides(b1, ball, n)
    BY <1>1, <1>2, <2>1, SidesNear
  <2> QED BY <2>2 DEF n
<1>9. b2 \in Int /\ b2 >= -10 /\ b2 <= sceneP.width + 10 /\ Sides(b2, ball, 1)
  <2>1. b1 >= -10 /\ b1 <= sceneP.width + 10
    BY <1>2, <1>7
  <2> QED BY <1>1, <1>2, <1>4, <1>8, <2>1, BallPushed
<1> HIDE DEF b2
<1>10. sceneP.numPlayers = 2 => b3 \in Int /\ b3 >= -10 /\ b3 <= sceneP.width + 10 /\ Sides(b3, ball, 1)
  BY <1>1, <1>5, <1>9, BallPushed
<1> HIDE DEF b3
<1>11. ASSUME NEW p \in Int, NEW q \in Int, NEW x, Sides(p, x, 31), q <= p + 20, q >= p - 20
       PROVE  Sides(q, x, 1)
  <2> DEFINE m == 20
             n == 1
             l == 11
  <2>1. m \in Nat /\ n \in Nat /\ n >= 1 /\ l \in Nat /\ l >= 1 /\ m + l = 31
    OBVIOUS
  <2>2. Sides(p, x, m + l) /\ q <= p + m /\ q >= p - m
    BY <1>11
  <2> HIDE DEF m, n, l
  <2>3. Sides(q, x, l)
    BY <1>1, <1>11, <2>1, <2>2, SidesNear
  <2> DEFINE r == 10
  <2>4. r \in Nat /\ r + n = l
    BY DEF n, l
  <2>5. q <= q + r /\ q >= q - r
    BY <1>11
  <2> HIDE DEF r
  <2>6. Sides(q, x, n)
    BY <1>1, <1>11, <2>1, <2>3, <2>4, <2>5, SidesNear
  <2> QED BY <2>6 DEF n
<1>12. CASE sceneP.numPlayers = 1
  <2>1. ball' = Bodies!OutOfAll(b2, 10) /\ players'[1] = Bodies!OutOfAll(p1, 20) /\ Crowd = {1}
    BY <1>3, <1>6, <1>12
  <2>2. p1 <= p1 + 20 /\ p1 >= p1 - 20
    BY <1>4
  <2>3. Sides(p1, players[1], 1)
    BY <1>4, <1>11, <2>2
  <2>4. ball' \in Int /\ ball' >= -10 /\ ball' <= sceneP.width + 10 /\ Sides(ball', ball, 28) /\ Sides(ball', ball', 28)
    BY <1>1, <1>9, <2>1, BallOut
  <2>5. players[1] \in Int
    BY <1>1, <1>3
  <2>6. players'[1] \in Int /\ Sides(players'[1], players[1], 38) /\ Sides(players'[1], players'[1], 38)
    BY <1>1, <1>4, <2>1, <2>3, <2>5, PlayerOut
  <2>7. players' \in [Crowd -> Int]
    BY <1>6, <2>1, <2>6
  <2> QED BY <2>1, <2>4, <2>6, <2>7
<1>13. CASE sceneP.numPlayers = 2
  <2>1. /\ ball' = Bodies!OutOfAll(b3, 10) /\ Crowd = {1, 2}
        /\ players'[1] = Bodies!OutOfAll(q1, 20) /\ players'[2] = Bodies!OutOfAll(q2, 20)
    BY <1>3, <1>6, <1>13
  <2>2. p1 \in Int /\ p2 \in Int /\ Sides(p1, players[1], 31) /\ Sides(p2, players[2], 31)
    BY <1>4, <1>5, <1>13
  <2>3. q1 \in Int /\ q1 >= p1 - 20 /\ q1 <= p1 + 20 /\ q2 \in Int /\ q2 >= p2 - 20 /\ q2 <= p2 + 20
    <3>1. q1 \in p1 - 20..p1 + 20 /\ q2 \in p2 - 20..p2 + 20
      BY <2>2, PartedPlayers
    <3> HIDE DEF q1, q2
    <3> QED BY <2>2, <3>1
  <2> HIDE DEF q1, q2
  <2>4. Sides(q1, players[1], 1) /\ Sides(q2, players[2], 1)
    BY <1>11, <2>2, <2>3
  <2>5. ball' \in Int /\ ball' >= -10 /\ ball' <= sceneP.width + 10 /\ Sides(ball', ball, 28) /\ Sides(ball', ball', 28)
    BY <1>1, <1>10, <1>13, <2>1, BallOut
  <2>6. players[1] \in Int /\ players[2] \in Int
    BY <1>1, <2>1
  <2>7. players'[1] \in Int /\ Sides(players'[1], players[1], 38) /\ Sides(players'[1], players'[1], 38)
    BY <1>1, <2>1, <2>3, <2>4, <2>6, PlayerOut
  <2>8. players'[2] \in Int /\ Sides(players'[2], players[2], 38) /\ Sides(players'[2], players'[2], 38)
    BY <1>1, <2>1, <2>3, <2>4, <2>6, PlayerOut
  <2>9. players' \in [Crowd -> Int]
    BY <1>6, <2>1, <2>7, <2>8
  <2> QED BY <2>1, <2>5, <2>7, <2>8, <2>9
<1> QED BY <1>1, <1>12, <1>13


LEMMA NothingInTheWay ==
    ASSUME sceneP \in Courts, sceneP.obstacles = <<>>, NEW x \in Int
    PROVE  Bodies!OutOfAll(x, 10) = x /\ Bodies!OutOfAll(x, 20) = x
<1>1. Blocks = {}
  BY DEF Blocks
<1>2. Sides(x, x, 1)
  BY <1>1 DEF Sides
<1>3. x >= -10 /\ x <= sceneP.width + 10 => Bodies!OutOfAll(x, 10) = x
  BY <1>2, BallOut
<1>4. Bodies!OutOfAll(x, 20) = x
  BY <1>2, PlayerOut
<1>5. Bodies!OutOfAll(x, 10) = x
  <2> DEFINE radius == 10
             m == 28
  <2>1. radius \in Nat /\ m \in Nat /\ (radius = 10 /\ m = 28)
    OBVIOUS
  <2> HIDE DEF radius, m
  <2>2. Bodies!OutOfAll(x, radius) = x
    BY <1>2, <2>1, OutOfThem
  <2> QED BY <2>1, <2>2
<1> QED BY <1>4, <1>5

\* A player alone with the ball.
LEMMA Alone ==
    ASSUME BodiesInv, NEW b \in BallSpeeds, NEW v \in [Crowd -> PlayerSpeeds], Outcome(b, v),
           sceneP.numPlayers = 1, sceneP.obstacles = <<>>
    PROVE  /\ players'[1] >= 20 /\ players'[1] <= sceneP.width - 20
           /\ ball' >= players'[1] + 27 \/ ball' <= players'[1] - 27
           /\ ball < players[1] <=> ball' < players'[1]
           /\ ball' - ball <= 21 /\ ball - ball' <= 21
<1> DEFINE W == sceneP.width
           p == players[1]
           b1 == BallMoved(b)
           p1 == PlayerMoved(1, v)
           b2 == Pushed(b1, p1)
           vb == Roll(b)
           vp == Push(v[1])
<1>1. sceneP \in Courts /\ W \in Int /\ W >= 40 /\ ball \in Int /\ players \in [Crowd -> Int] /\ 1 \in Crowd
  BY CourtFacts DEF BodiesInv, BodiesTypes, Crowd
<1>2. /\ p >= 20 /\ p <= W - 20 /\ ball >= -10 /\ ball <= W + 10
      /\ ball >= p + 27 \/ ball <= p - 27
  BY DEF BodiesInv
<1>3. p \in Int
  BY <1>1
<1>4. vb \in Int /\ vb >= -15 /\ vb <= 15 /\ vp \in Int /\ vp >= -7 /\ vp <= 7
  <2>1. b \in Int /\ v[1] \in Int
    BY <1>1, CourtsAssumption
  <2>2. vb \in -15..15 /\ vp \in -7..7
    BY <2>1, Limits
  <2> HIDE DEF vb, vp
  <2> QED BY <2>2
<1>5. /\ b1 = IF ball + vb < 10 THEN 10 ELSE IF ball + vb > W - 10 THEN W - 10 ELSE ball + vb
      /\ p1 = IF p + vp < 20 THEN 20 ELSE IF p + vp > W - 20 THEN W - 20 ELSE p + vp
  BY DEF BallMoved, PlayerMoved, Clamped
<1>6. ball' = Bodies!OutOfAll(b2, 10) /\ players'[1] = Bodies!OutOfAll(p1, 20)
  BY DEF Outcome
<1> HIDE DEF b1, p1, vb, vp, W, p
<1>7. b1 \in Int /\ p1 \in Int /\ p1 >= 20 /\ p1 <= W - 20
  BY <1>1, <1>3, <1>4, <1>5
<1>8. /\ b2 \in Int
      /\ b2 = b1 \/ (p1 - b1 < 30 /\ b1 - p1 < 30 /\ b2 >= p1 - 30 /\ b2 <= p1 + 30)
      /\ b1 > p1 => b2 >= p1 + 27 /\ b2 >= b1 - 1
      /\ b1 < p1 => b2 <= p1 - 27 /\ b2 <= b1 + 1
  <2>1. /\ b2 \in Int
        /\ b2 = b1 \/ (p1 - b1 < 30 /\ b1 - p1 < 30 /\ b2 \in p1 - 30..p1 + 30)
    BY <1>7, PushedBall
  <2>2. /\ b1 > p1 => b2 >= p1 + 27 /\ b2 >= b1 - 1
        /\ b1 < p1 => b2 <= p1 - 27 /\ b2 <= b1 + 1
    BY <1>7, PushedBall
  <2> HIDE DEF b2
  <2> QED BY <1>7, <2>1, <2>2
<1> HIDE DEF b2
<1>9. ball' = b2 /\ players'[1] = p1
  BY <1>1, <1>6, <1>7, <1>8, NothingInTheWay
<1>10. CASE ball >= p + 27
  <2>1. b1 > p1
    BY <1>1, <1>2, <1>3, <1>4, <1>5, <1>10
  <2>2. b1 <= ball + 15 /\ b1 >= ball - 20 /\ p1 <= p + 7
    BY <1>1, <1>2, <1>3, <1>4, <1>5, <1>10
  <2>3. b2 >= p1 + 27 /\ b2 >= ball - 21 /\ b2 <= ball + 21
    BY <1>1, <1>3, <1>7, <1>8, <1>10, <2>1, <2>2
  <2> QED BY <1>1, <1>3, <1>7, <1>8, <1>9, <1>10, <2>3 DEF p, W
<1>11. CASE ball <= p - 27
  <2>1. b1 < p1
    BY <1>1, <1>2, <1>3, <1>4, <1>5, <1>11
  <2>2. b1 >= ball - 15 /\ b1 <= ball + 20 /\ p1 >= p - 7
    BY <1>1, <1>2, <1>3, <1>4, <1>5, <1>11
  <2>3. b2 <= p1 - 27 /\ b2 >= ball - 21 /\ b2 <= ball + 21
    BY <1>1, <1>3, <1>7, <1>8, <1>11, <2>1, <2>2
  <2> QED BY <1>1, <1>3, <1>7, <1>8, <1>9, <1>11, <2>3 DEF p, W
<1> QED BY <1>2, <1>10, <1>11

\* Of two players at x and y the one that is ahead stays ahead, q1 and q2 being
\* where they are parted.
LEMMA Ahead ==
    ASSUME NEW W \in Int, sceneP.width = W, W >= 80, NEW x \in Int, NEW y \in Int, OnCourt(x) + 15 <= OnCourt(y),
           NEW p1 \in Int, NEW p2 \in Int, p1 >= 20, p2 >= 20, p1 <= W - 20, p2 <= W - 20,
           p1 <= OnCourt(x) + 7, p2 >= OnCourt(y) - 7,
           NEW q1 \in Int, NEW q2 \in Int, p1 < p2 => q1 <= p1 /\ q2 >= p2 /\ p1 - q1 = q2 - p2 /\ q2 - p1 >= 15
    PROVE  OnCourt(q1) + 15 <= OnCourt(q2) /\ x < y /\ q1 < q2
<1>1. /\ OnCourt(x) = (IF x < 20 THEN 20 ELSE IF x > W - 20 THEN W - 20 ELSE x)
      /\ OnCourt(y) = (IF y < 20 THEN 20 ELSE IF y > W - 20 THEN W - 20 ELSE y)
      /\ OnCourt(q1) = (IF q1 < 20 THEN 20 ELSE IF q1 > W - 20 THEN W - 20 ELSE q1)
      /\ OnCourt(q2) = (IF q2 < 20 THEN 20 ELSE IF q2 > W - 20 THEN W - 20 ELSE q2)
  BY DEF OnCourt, Clamped
<1>2. OnCourt(x) \in Int /\ OnCourt(y) \in Int /\ x < y
  BY <1>1
<1>3. p1 < p2
  BY <1>2
<1>4. q1 <= p1 /\ q2 >= p2 /\ p1 - q1 = q2 - p2 /\ q2 - p1 >= 15
  BY <1>3
<1> QED BY <1>1, <1>2, <1>3, <1>4

\* Two players without obstacles.
LEMMA Couple ==
    ASSUME BodiesInv, NEW b \in BallSpeeds, NEW v \in [Crowd -> PlayerSpeeds], Outcome(b, v),
           sceneP.numPlayers = 2, sceneP.obstacles = <<>>
    PROVE  /\ \/ OnCourt(players'[1]) + 15 <= OnCourt(players'[2])
              \/ OnCourt(players'[2]) + 15 <= OnCourt(players'[1])
           /\ players[1] < players[2] <=> players'[1] < players'[2]
<1> DEFINE W == sceneP.width
           x == players[1]
           y == players[2]
           p1 == PlayerMoved(1, v)
           p2 == PlayerMoved(2, v)
           q1 == First(p1, p2)
           q2 == Second(p1, p2)
           d1 == Push(v[1])
           d2 == Push(v[2])
<1>1. sceneP \in Courts /\ W \in Int /\ W >= 80 /\ players \in [Crowd -> Int] /\ 1 \in Crowd /\ 2 \in Crowd
  BY CourtFacts DEF BodiesInv, BodiesTypes, Crowd
<1>2. x \in Int /\ y \in Int /\ (OnCourt(x) + 15 <= OnCourt(y) \/ OnCourt(y) + 15 <= OnCourt(x))
  BY <1>1 DEF BodiesInv
<1>3. /\ p1 \in Int /\ p1 >= 20 /\ p1 <= W - 20
      /\ p2 \in Int /\ p2 >= 20 /\ p2 <= W - 20
  BY <1>1, BodiesMoved
<1>4. d1 \in Int /\ d1 >= -7 /\ d1 <= 7 /\ d2 \in Int /\ d2 >= -7 /\ d2 <= 7
  <2>1. v[1] \in Int /\ v[2] \in Int
    BY <1>1, CourtsAssumption
  <2>2. d1 \in -7..7 /\ d2 \in -7..7
    BY <2>1, Limits
  <2> HIDE DEF d1, d2
  <2> QED BY <2>2
<1>5. players'[1] = Bodies!OutOfAll(q1, 20) /\ players'[2] = Bodies!OutOfAll(q2, 20)
  BY DEF Outcome
<1>6. /\ p1 = IF x + d1 < 20 THEN 20 ELSE IF x + d1 > W - 20 THEN W - 20 ELSE x + d1
      /\ p2 = IF y + d2 < 20 THEN 20 ELSE IF y + d2 > W - 20 THEN W - 20 ELSE y + d2
      /\ OnCourt(x) = IF x < 20 THEN 20 ELSE IF x > W - 20 THEN W - 20 ELSE x
      /\ OnCourt(y) = IF y < 20 THEN 20 ELSE IF y > W - 20 THEN W - 20 ELSE y
  BY DEF PlayerMoved, OnCourt, Clamped
<1> HIDE DEF W, x, y, p1, p2, d1, d2
<1>7. ASSUME NEW u \in Int, NEW d \in Int, d >= -7, d <= 7
       PROVE  LET p == IF u + d < 20 THEN 20 ELSE IF u + d > W - 20 THEN W - 20 ELSE u + d
                  c == IF u < 20 THEN 20 ELSE IF u > W - 20 THEN W - 20 ELSE u
              IN  p <= c + 7 /\ p >= c - 7
  BY <1>1, <1>7
<1>8. p1 <= OnCourt(x) + 7 /\ p1 >= OnCourt(x) - 7
  BY <1>2, <1>4, <1>6, <1>7
<1>9. p2 <= OnCourt(y) + 7 /\ p2 >= OnCourt(y) - 7
  BY <1>2, <1>4, <1>6, <1>7
<1>10. /\ q1 \in Int /\ q2 \in Int
       /\ p1 < p2 => q1 <= p1 /\ q2 >= p2 /\ p1 - q1 = q2 - p2 /\ q2 - p1 >= 15
  <2>1. p1 \in Int /\ p2 \in Int
    BY <1>3
  <2>2. q1 \in p1 - 20..p1 + 20 /\ q2 \in p2 - 20..p2 + 20
    BY <2>1, PartedPlayers
  <2>3. p1 < p2 => q1 <= p1 /\ q2 >= p2 /\ p1 - q1 = q2 - p2 /\ q2 - p1 >= 15
    BY <2>1, PartedPlayers
  <2> HIDE DEF q1, q2
  <2> QED BY <2>1, <2>2, <2>3
<1>11. p2 < p1 => q2 <= p2 /\ q1 >= p1 /\ p2 - q2 = q1 - p1 /\ q1 - p2 >= 15
  BY <1>3, PartedPlayersBack
<1> HIDE DEF q1, q2
<1>12. players'[1] = q1 /\ players'[2] = q2
  BY <1>1, <1>5, <1>10, NothingInTheWay
<1>13. CASE OnCourt(x) + 15 <= OnCourt(y)
  <2>1. OnCourt(q1) + 15 <= OnCourt(q2) /\ x < y /\ q1 < q2
    BY <1>1, <1>2, <1>3, <1>8, <1>9, <1>10, <1>13, Ahead DEF W
  <2> QED BY <1>12, <2>1 DEF x, y
<1>14. CASE OnCourt(y) + 15 <= OnCourt(x)
  <2>1. q1 \in Int /\ q2 \in Int /\ sceneP.width = W
    BY <1>10 DEF W
  <2>2. OnCourt(q2) + 15 <= OnCourt(q1) /\ y < x /\ q2 < q1
    BY <1>1, <1>2, <1>3, <1>8, <1>9, <1>11, <1>14, <2>1, Ahead
  <2>3. ~(x < y) /\ ~(q1 < q2)
    BY <1>2, <2>1, <2>2
  <2> QED BY <1>12, <2>2, <2>3 DEF x, y
<1> QED BY <1>2, <1>13, <1>14


-----------------------------------------------------------------------------
(* The bodies: every game *)

LEMMA BodiesInitially == ASSUME Bodies!Init PROVE BodiesInv
<1> DEFINE W == sceneP.width
<1>1. /\ sceneP \in Courts /\ ball \in 10..W - 10 /\ players \in [Crowd -> 20..W - 20] /\ touch_counter = 0
      /\ \A i \in Crowd : ~Bodies!Touching(players[i], ball, 30)
      /\ sceneP.numPlayers = 2 => ~Bodies!Touching(players[1], players[2], 40)
      /\ \A k \in DOMAIN sceneP.obstacles :
           /\ ~Bodies!Touching(ball, Mid(k), 10 + Rim(k))
           /\ \A i \in Crowd : ~Bodies!Touching(players[i], Mid(k), 20 + Rim(k))
  BY DEF Bodies!Init, Crowd, Bodies!Everybody, Bodies!Obstacles, Mid, Rim, Bodies!BallSum, Bodies!PlayerSum,
         Bodies!BALL_RADIUS, Bodies!PLAYER_RADIUS
<1>2. W \in Int /\ sceneP.numPlayers \in 1..2 /\ 1 \in Crowd /\ (sceneP.numPlayers = 2 => 2 \in Crowd)
  <2>1. W \in Int /\ sceneP.numPlayers \in 1..2
    BY <1>1, CourtFacts
  <2> QED BY <2>1 DEF Crowd
<1> HIDE DEF W
<1>3. \A i \in Crowd : players[i] \in Int /\ players[i] >= 20 /\ players[i] <= W - 20
  BY <1>1, <1>2
<1>4. W >= 40 /\ ball \in Int /\ ball >= 10 /\ ball <= W - 10
  BY <1>1, <1>2, <1>3
<1>5. BodiesTypes
  BY <1>1, <1>3, <1>4 DEF BodiesTypes, W
<1>6. ASSUME NEW x \in Int, NEW y \in Int, NEW sum \in Int, ~Bodies!Touching(x, y, sum)
      PROVE  x >= y + sum \/ x <= y - sum
  BY <1>6 DEF Bodies!Touching, Bodies!Abs
<1>7. Sides(ball, ball, 28)
  <2> SUFFICES ASSUME NEW k \in Blocks
               PROVE  (ball >= Mid(k) + 28 /\ ball > Mid(k)) \/ (ball <= Mid(k) - 28 /\ ball < Mid(k))
    BY DEF Sides
  <2>1. Mid(k) \in Int /\ Rim(k) \in Int /\ Rim(k) >= 21 /\ k \in DOMAIN sceneP.obstacles
    BY <1>1, BlockFacts, CourtFacts
  <2>2. ball >= Mid(k) + (10 + Rim(k)) \/ ball <= Mid(k) - (10 + Rim(k))
    BY <1>1, <1>4, <1>6, <2>1
  <2> QED BY <1>4, <2>1, <2>2
<1>8. ASSUME NEW i \in Crowd PROVE Sides(players[i], players[i], 38)
  <2> DEFINE p == players[i]
  <2> SUFFICES ASSUME NEW k \in Blocks
               PROVE  (p >= Mid(k) + 38 /\ p > Mid(k)) \/ (p <= Mid(k) - 38 /\ p < Mid(k))
    BY DEF Sides
  <2>1. Mid(k) \in Int /\ Rim(k) \in Int /\ Rim(k) >= 21 /\ k \in DOMAIN sceneP.obstacles
    BY <1>1, BlockFacts, CourtFacts
  <2>2. p >= Mid(k) + (20 + Rim(k)) \/ p <= Mid(k) - (20 + Rim(k))
    BY <1>1, <1>3, <1>6, <2>1
  <2>3. p \in Int
    BY <1>3
  <2> HIDE DEF p
  <2> QED BY <2>1, <2>2, <2>3
<1>9. ball >= players[1] + 27 \/ ball <= players[1] - 27
  <2>1. players[1] \in Int /\ ~Bodies!Touching(players[1], ball, 30)
    BY <1>1, <1>2, <1>3
  <2>2. players[1] >= ball + 30 \/ players[1] <= ball - 30
    BY <1>4, <1>6, <2>1
  <2> QED BY <1>4, <2>1, <2>2
<1>10. ASSUME sceneP.numPlayers = 2
       PROVE  /\ W >= 80
              /\ OnCourt(players[1]) + 15 <= OnCourt(players[2]) \/ OnCourt(players[2]) + 15 <= OnCourt(players[1])
  <2> DEFINE p == players[1]
             q == players[2]
  <2>1. /\ p \in Int /\ p >= 20 /\ p <= W - 20 /\ q \in Int /\ q >= 20 /\ q <= W - 20
        /\ ~Bodies!Touching(p, q, 40)
    BY <1>1, <1>2, <1>3, <1>10
  <2> HIDE DEF p, q
  <2>2. p >= q + 40 \/ p <= q - 40
    BY <1>6, <2>1
  <2>3. OnCourt(p) = p /\ OnCourt(q) = q
    BY <1>2, <2>1 DEF OnCourt, Clamped, W
  <2> QED BY <1>2, <2>1, <2>2, <2>3 DEF p, q
<1>11. ball >= -10 /\ ball <= W + 10
  BY <1>2, <1>4
<1>12. players[1] >= 20 /\ players[1] <= W - 20
  BY <1>2, <1>3
<1> QED BY <1>5, <1>7, <1>8, <1>9, <1>10, <1>11, <1>12 DEF BodiesInv, W

LEMMA BodiesFrame ==
    ASSUME BodiesInv, Bodies!Next
    PROVE  \E b \in BallSpeeds, v \in [Crowd -> PlayerSpeeds] : Outcome(b, v)
<1>1. PICK b \in BallSpeeds, v \in [Crowd -> PlayerSpeeds] : Bodies!Frame(b, v)
  BY DEF Bodies!Next, Bodies!Everybody, Crowd
<1> QED BY <1>1, BodiesOut DEF BodiesInv

LEMMA BodiesKept == ASSUME BodiesInv, Bodies!Next PROVE BodiesInv'
<1>1. PICK b \in BallSpeeds, v \in [Crowd -> PlayerSpeeds] : Outcome(b, v)
  BY BodiesFrame
<1>2. sceneP' = sceneP /\ touch_counter' \in Int
  BY <1>1 DEF Outcome
<1>3. /\ ball' \in Int /\ ball' >= -10 /\ ball' <= sceneP.width + 10
      /\ Sides(ball', ball', 28)
      /\ players' \in [Crowd -> Int]
      /\ \A i \in Crowd : Sides(players'[i], players'[i], 38)
  BY <1>1, FrameSides
<1>4. Crowd' = Crowd /\ Blocks' = Blocks
  BY <1>2 DEF Crowd, Blocks
<1>5. BodiesTypes'
  BY <1>2, <1>3, <1>4 DEF BodiesInv, BodiesTypes
<1>6. Sides(ball, ball, 28)'
  BY <1>2, <1>3, <1>4 DEF Sides, Mid
<1>7. (\A i \in Crowd : Sides(players[i], players[i], 38))'
  <2> SUFFICES ASSUME NEW i \in Crowd PROVE Sides(players[i], players[i], 38)'
    BY <1>4
  <2>1. Sides(players'[i], players'[i], 38)
    BY <1>3
  <2> QED BY <1>2, <1>4, <2>1 DEF Sides, Mid
<1>8. (sceneP.numPlayers = 1 /\ sceneP.obstacles = <<>> =>
         /\ players[1] >= 20 /\ players[1] <= sceneP.width - 20
         /\ ball >= players[1] + 27 \/ ball <= players[1] - 27)'
  BY <1>1, <1>2, Alone
<1>9. (sceneP.numPlayers = 2 /\ sceneP.obstacles = <<>> =>
         /\ sceneP.width >= 80
         /\ \/ OnCourt(players[1]) + 15 <= OnCourt(players[2])
            \/ OnCourt(players[2]) + 15 <= OnCourt(players[1]))'
  <2> SUFFICES ASSUME sceneP.numPlayers = 2, sceneP.obstacles = <<>>
               PROVE  /\ sceneP.width >= 80
                      /\ \/ OnCourt(players[1])' + 15 <= OnCourt(players[2])'
                         \/ OnCourt(players[2])' + 15 <= OnCourt(players[1])'
    BY <1>2
  <2>1. \A i : OnCourt(players[i])' = OnCourt(players'[i])
    BY <1>2 DEF OnCourt, Clamped
  <2>2. OnCourt(players'[1]) + 15 <= OnCourt(players'[2]) \/ OnCourt(players'[2]) + 15 <= OnCourt(players'[1])
    BY <1>1, Couple
  <2>3. sceneP.width >= 80
    BY DEF BodiesInv
  <2> QED BY <2>1, <2>2, <2>3
<1>10. (ball >= -10 /\ ball <= sceneP.width + 10)'
  BY <1>2, <1>3
<1> QED BY <1>5, <1>6, <1>7, <1>8, <1>9, <1>10 DEF BodiesInv

LEMMA BodiesStuttering == ASSUME BodiesInv, UNCHANGED bodiesVars PROVE BodiesInv'
  BY DEF BodiesInv, BodiesTypes, bodiesVars, Sides, Mid, Rim, Blocks, Crowd, OnCourt, Clamped

LEMMA ProgramsBodies == ProgramsSpec => [](subject = "bodies" => BodiesInv)
<1>1. ProgramsInit => (subject = "bodies" => BodiesInv)
  BY BodiesInitially DEF ProgramsInit
<1>2. (subject = "bodies" => BodiesInv) /\ [ProgramsNext]_allVars => (subject = "bodies" => BodiesInv)'
  <2> SUFFICES ASSUME subject = "bodies" => BodiesInv, [ProgramsNext]_allVars, subject' = "bodies"
               PROVE  BodiesInv'
    OBVIOUS
  <2>1. subject = "bodies" /\ (Bodies!Next \/ UNCHANGED bodiesVars)
    BY DEF ProgramsNext, allVars, bodiesVars
  <2>2. BodiesInv
    BY <2>1
  <2> QED BY <2>1, <2>2, BodiesKept, BodiesStuttering
<1> QED BY <1>1, <1>2, PTL DEF ProgramsSpec


LEMMA SmallHole == Bodies!SmallestHole = 20
<1> DEFINE L == Bodies!levels
           S == {L[i].holeRadius : i \in DOMAIN L}
<1>1. DOMAIN L = 1..9
  BY DEF Bodies!levels
<1>2. /\ L[1].holeRadius = 30 /\ L[2].holeRadius = 30 /\ L[3].holeRadius = 30 /\ L[4].holeRadius = 30
      /\ L[5].holeRadius = 30 /\ L[6].holeRadius = 30 /\ L[7].holeRadius = 30 /\ L[8].holeRadius = 30
      /\ L[9].holeRadius = 20
  BY DEF Bodies!levels, Bodies!Level
<1> HIDE DEF L
<1>3. \A i \in 1..9 : i = 1 \/ i = 2 \/ i = 3 \/ i = 4 \/ i = 5 \/ i = 6 \/ i = 7 \/ i = 8 \/ i = 9
  OBVIOUS
<1>4. S = {20, 30}
  BY <1>1, <1>2, <1>3
<1> HIDE DEF S
<1>5. Bodies!SmallestHole = CHOOSE x \in S : \A y \in S : x <= y
  BY DEF Bodies!SmallestHole, Bodies!Min, L, S
<1>6. \A x \in S : (\A y \in S : x <= y) <=> x = 20
  BY <1>4
<1>7. (CHOOSE x \in S : \A y \in S : x <= y) = 20
  BY <1>4, <1>6
<1> QED BY <1>5, <1>7

LEMMA OnePlayer == ASSUME sceneP \in Courts, Crowd = {1} PROVE sceneP.numPlayers = 1
<1>1. sceneP.numPlayers \in 1..2
  BY CourtFacts
<1>2. sceneP.numPlayers = 2 => 2 \in Crowd
  BY DEF Crowd
<1> QED BY <1>1, <1>2

LEMMA BlockStep ==
    ASSUME BodiesInv, Bodies!Next, NEW k \in Blocks
    PROVE  /\ ball < Mid(k) <=> ball' < Mid(k)
           /\ \A i \in Crowd : players[i] < Mid(k) <=> players'[i] < Mid(k)
<1>1. PICK b \in BallSpeeds, v \in [Crowd -> PlayerSpeeds] : Outcome(b, v)
  BY BodiesFrame
<1>2. sceneP \in Courts /\ ball \in Int /\ players \in [Crowd -> Int]
  BY DEF BodiesInv, BodiesTypes
<1>3. /\ ball' \in Int /\ Sides(ball', ball, 28) /\ players' \in [Crowd -> Int]
      /\ \A i \in Crowd : Sides(players'[i], players[i], 38)
  BY <1>1, FrameSides
<1>4. Mid(k) \in Int
  BY <1>2, BlockFacts
<1>5. ASSUME NEW x \in Int, NEW y \in Int, NEW m \in Nat, m >= 1, Sides(y, x, m) PROVE x < Mid(k) <=> y < Mid(k)
  <2>1. (y >= Mid(k) + m /\ x > Mid(k)) \/ (y <= Mid(k) - m /\ x < Mid(k))
    BY <1>5 DEF Sides
  <2> QED BY <1>4, <1>5, <2>1
<1>6. ball < Mid(k) <=> ball' < Mid(k)
  BY <1>2, <1>3, <1>5
<1>7. ASSUME NEW i \in Crowd PROVE players[i] < Mid(k) <=> players'[i] < Mid(k)
  BY <1>2, <1>3, <1>5
<1> QED BY <1>6, <1>7

LEMMA ObstacleStep == ASSUME BodiesInv, Bodies!Next PROVE Bodies!ObstaclesHold
<1> SUFFICES ASSUME NEW o \in Bodies!ToSet(Bodies!Obstacles)
             PROVE  /\ ball < o[1] <=> ball' < o[1]
                    /\ \A i \in Crowd : players[i] < o[1] <=> players'[i] < o[1]
  BY DEF Bodies!ObstaclesHold, Bodies!Everybody, Crowd
<1>1. PICK k \in Blocks : o[1] = Mid(k)
  <2>1. DOMAIN sceneP.obstacles = Blocks
    BY CourtFacts DEF BodiesInv, BodiesTypes
  <2> QED BY <2>1 DEF Bodies!ToSet, Bodies!Obstacles, Mid
<1> QED BY <1>1, BlockStep

\* Where two players have obstacles, one of them stands between the two.
Separate ==
    sceneP.numPlayers = 2 /\ sceneP.obstacles # <<>>
        => \E k \in Blocks : players[1] < Mid(k) <=> ~(players[2] < Mid(k))

LEMMA StillSeparate == ASSUME BodiesInv, Bodies!Next, Separate PROVE Separate'
<1>1. sceneP' = sceneP
  BY BodiesFrame DEF Outcome
<1> SUFFICES ASSUME sceneP.numPlayers = 2, sceneP.obstacles # <<>>
             PROVE  \E k \in Blocks : players'[1] < Mid(k) <=> ~(players'[2] < Mid(k))
  BY <1>1 DEF Separate, Blocks, Mid
<1>2. PICK k \in Blocks : players[1] < Mid(k) <=> ~(players[2] < Mid(k))
  BY DEF Separate
<1>3. 1 \in Crowd /\ 2 \in Crowd
  BY DEF Crowd
<1> QED BY <1>2, <1>3, BlockStep

LEMMA PlayersInOrder == ASSUME BodiesInv, Bodies!Next, Separate PROVE Bodies!PlayersKeepOrder
<1>1. PICK b \in BallSpeeds, v \in [Crowd -> PlayerSpeeds] : Outcome(b, v)
  BY BodiesFrame
<1> SUFFICES ASSUME sceneP.numPlayers = 2 PROVE players[1] < players[2] <=> players'[1] < players'[2]
  BY DEF Bodies!PlayersKeepOrder
<1>2. CASE sceneP.obstacles = <<>>
  BY <1>1, <1>2, Couple
<1>3. CASE sceneP.obstacles # <<>>
  <2>1. PICK k \in Blocks : players[1] < Mid(k) <=> ~(players[2] < Mid(k))
    BY <1>3 DEF Separate
  <2>2. 1 \in Crowd /\ 2 \in Crowd
    BY DEF Crowd
  <2>3. /\ players[1] < Mid(k) <=> players'[1] < Mid(k)
        /\ players[2] < Mid(k) <=> players'[2] < Mid(k)
    BY <2>2, BlockStep
  <2>4. /\ Mid(k) \in Int /\ players[1] \in Int /\ players[2] \in Int
        /\ players'[1] \in Int /\ players'[2] \in Int
    BY <1>1, <2>2, BlockFacts, FrameSides DEF BodiesInv, BodiesTypes
  <2> QED BY <2>1, <2>3, <2>4
<1> QED BY <1>2, <1>3

\* The ball is in sight after every frame, wherever the pushes of two players
\* and of the obstacles put it, and alone with a player it goes at most 21
\* pixels a frame, the smallest hole's catch, for every field and all speeds
\* (movement_update, limit_velocity, check_collision, check_obstacle_collision).
THEOREM BallIsNeverLostHolds == ProgramsSpec => BallIsNeverLost
<1>1. (subject = "bodies" => BodiesInv) => (subject = "bodies" => Bodies!BallStaysInSight)
  <2> SUFFICES ASSUME BodiesInv PROVE Bodies!BallStaysInSight
    OBVIOUS
  <2>1. ball \in Int /\ sceneP.width \in Int /\ ball >= -10 /\ ball <= sceneP.width + 10
    BY CourtFacts DEF BodiesInv, BodiesTypes
  <2> QED BY <2>1 DEF Bodies!BallStaysInSight, Bodies!BALL_RADIUS
<1>2. (subject = "bodies" => BodiesInv) /\ [ProgramsNext]_allVars
        => [subject = "bodies" => Bodies!ShortStep]_bodiesVars
  <2> SUFFICES ASSUME BodiesInv, Bodies!Next, Bodies!Everybody = {1}, Bodies!Obstacles = <<>>
               PROVE  Bodies!Abs(ball' - ball) <= 2 * (Bodies!SmallestHole - Bodies!BALL_RADIUS) + 1
    BY DEF ProgramsNext, allVars, bodiesVars, Bodies!ShortStep
  <2>1. PICK b \in BallSpeeds, v \in [Crowd -> PlayerSpeeds] : Outcome(b, v)
    BY BodiesFrame
  <2>2. sceneP.numPlayers = 1 /\ sceneP.obstacles = <<>>
    BY OnePlayer DEF BodiesInv, BodiesTypes, Bodies!Everybody, Bodies!Obstacles, Crowd
  <2>3. ball' - ball <= 21 /\ ball - ball' <= 21
    BY <2>1, <2>2, Alone
  <2>4. ball \in Int /\ ball' \in Int
    BY <2>1, FrameSides DEF BodiesInv, BodiesTypes
  <2>5. Bodies!SmallestHole = 20 /\ Bodies!BALL_RADIUS = 10
    BY SmallHole DEF Bodies!BALL_RADIUS
  <2> DEFINE step == ball' - ball
  <2>6. step \in Int /\ step <= 21 /\ -step <= 21
    <3>1. ASSUME NEW x \in Int, NEW y \in Int, y - x <= 21, x - y <= 21
          PROVE  y - x \in Int /\ y - x <= 21 /\ -(y - x) <= 21
      BY <3>1
    <3> QED BY <2>3, <2>4, <3>1
  <2> HIDE DEF step
  <2>7. Bodies!Abs(step) <= 21
    BY <2>6 DEF Bodies!Abs
  <2> QED BY <2>5, <2>7 DEF step
<1> QED BY <1>1, <1>2, ProgramsBodies, PTL DEF ProgramsSpec, BallIsNeverLost

\* Nobody gets to the other side of an obstacle, whatever speeds, pushes and
\* other obstacles come together in a frame (check_obstacle_collision).
THEOREM ObstaclesLetNobodyThrough ==
    ProgramsSpec => [][subject = "bodies" => Bodies!ObstaclesHold]_bodiesVars
<1>1. (subject = "bodies" => BodiesInv) /\ [ProgramsNext]_allVars
        => [subject = "bodies" => Bodies!ObstaclesHold]_bodiesVars
  <2> SUFFICES ASSUME BodiesInv, Bodies!Next PROVE Bodies!ObstaclesHold
    BY DEF ProgramsNext, allVars, bodiesVars
  <2> QED BY ObstacleStep
<1> QED BY <1>1, ProgramsBodies, PTL DEF ProgramsSpec

\* Nor do two players pass through each other or a player and the ball, where
\* two players that have obstacles start on two sides of one: it keeps them
\* apart (check_collision, check_obstacle_collision).
THEOREM NobodyPassesThroughHolds ==
    ProgramsSpec /\ (subject = "bodies" => Separate) => NobodyPassesThrough
<1> DEFINE Kept == subject = "bodies" => BodiesInv
           Divided == subject = "bodies" => Separate
<1>1. Kept /\ Divided /\ [ProgramsNext]_allVars => Divided'
  <2> SUFFICES ASSUME Kept, Divided, [ProgramsNext]_allVars, subject' = "bodies" PROVE Separate'
    OBVIOUS
  <2>1. subject = "bodies" /\ (Bodies!Next \/ UNCHANGED bodiesVars)
    BY DEF ProgramsNext, allVars, bodiesVars
  <2>2. BodiesInv /\ Separate
    BY <2>1
  <2>3. CASE UNCHANGED bodiesVars
    BY <2>2, <2>3 DEF bodiesVars, Separate, Blocks, Mid
  <2> QED BY <2>1, <2>2, <2>3, StillSeparate
<1>2. Kept /\ Divided /\ [ProgramsNext]_allVars => [subject = "bodies" => Bodies!KeepsSides]_bodiesVars
  <2> SUFFICES ASSUME BodiesInv, Bodies!Next, Separate PROVE Bodies!KeepsSides
    BY DEF ProgramsNext, allVars, bodiesVars
  <2>1. Bodies!BallKeepsSide
    <3> SUFFICES ASSUME Bodies!Everybody = {1}, Bodies!Obstacles = <<>>
                 PROVE  ball < players[1] <=> ball' < players'[1]
      BY DEF Bodies!BallKeepsSide
    <3>1. sceneP.numPlayers = 1 /\ sceneP.obstacles = <<>>
      BY OnePlayer DEF BodiesInv, BodiesTypes, Bodies!Everybody, Bodies!Obstacles, Crowd
    <3> QED BY <3>1, BodiesFrame, Alone
  <2> QED BY <2>1, PlayersInOrder, ObstacleStep DEF Bodies!KeepsSides
<1>3. ProgramsSpec => []Kept
  BY ProgramsBodies
<1> HIDE DEF Kept, Divided
<1>4. ProgramsSpec /\ Divided => []Divided
  BY <1>1, <1>3, PTL DEF ProgramsSpec
<1>5. ProgramsSpec /\ Divided => NobodyPassesThrough
  BY <1>2, <1>3, <1>4, PTL DEF ProgramsSpec, NobodyPassesThrough
<1> QED BY <1>5 DEF Divided
=============================================================================
