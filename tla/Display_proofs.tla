--------------------------- MODULE Display_proofs ----------------------------
(***************************************************************************)
(* Theorems about what reaches the screen, for every mode, glyph and range *)
(* of zooms in which a screen has two lines of two cells, and for every    *)
(* cursor and zoom programs ask for: where the cursor can be, that writing *)
(* keeps it, or brings it back, on the screen, and that shapes of any place *)
(* and size are drawn as far as the screen goes.                           *)
(*                                                                         *)
(* A character moves the cursor in three steps (Moved, Wrapped, Scrolled), *)
(* each said by a lemma of its own; the drawing of the pixels changes none *)
(* of the cursor.  What remains is arithmetic on one cell.                 *)
(*                                                                         *)
(* The second part is the refinement of TextGrid, for every screen and     *)
(* glyph of GridAssumption: what each call does to the pixels, from there  *)
(* to the cells they show, and from there to the actions of TextGrid.      *)
(*                                                                         *)
(* The third part is about the screens of module Screens, for every mode   *)
(* of ScreensAssumption.  A layout (Path) is the place of the cursor after *)
(* each call of a script, from arithmetic on whole texts and lines; each   *)
(* screen has one, which is built call by call (Leads, Joined).  The       *)
(* invariant says that the driver, a character at a time, is where the     *)
(* layout of its script is.                                                *)
(***************************************************************************)
EXTENDS MCDisplay, WellFoundedInduction, TLAPS

\* The console is a record of four fields that keeps every offset.
Fields(s) == DOMAIN s = {"x", "y", "zoom", "fb"} /\ DOMAIN s.fb = FrameBuffer

\* t is s with the cursor at x, y and any pixels.
At(t, s, x, y) == Fields(t) /\ t.zoom = s.zoom /\ t.x = x /\ t.y = y

\* The cell at the cursor does not reach over two edges: there is room for
\* another behind it, or it fits in its line.
NotInCorner(s) == s.x + 2 * CellW(s) <= Width \/ s.y + CellH(s) <= Height

Good(s) ==
    /\ Fields(s)
    /\ s.zoom \in Zoom
    /\ s.x \in 0..Width /\ s.y \in 0..Height
    /\ NotInCorner(s)

-----------------------------------------------------------------------------
(* A cell *)

\* At every zoom two cells fit in a line and two lines on the screen.
LEMMA CellFits ==
    ASSUME NEW s, s.zoom \in Zoom
    PROVE  /\ CellW(s) \in Nat /\ CellW(s) > 0 /\ 2 * CellW(s) <= Width
           /\ CellH(s) \in Nat /\ CellH(s) > 0 /\ 2 * CellH(s) <= Height
<1> DEFINE z == s.zoom
<1>1. z \in Nat /\ z > 0 /\ z \in Zoom
  BY ConsoleAssumption DEF Zoom
<1>2. CHAR_WIDTH \in Nat /\ CHAR_WIDTH > 0 /\ CHAR_HEIGHT \in Nat /\ CHAR_HEIGHT > 0
  BY ConsoleAssumption
<1>3. \A a, b \in Nat : a > 0 /\ b > 0 => a * b \in Nat /\ a * b > 0
  OBVIOUS
<1>4. CHAR_WIDTH * z \in Nat /\ CHAR_WIDTH * z > 0 /\ CHAR_HEIGHT * z \in Nat /\ CHAR_HEIGHT * z > 0
  BY <1>1, <1>2, <1>3
<1>5. 2 * (CHAR_WIDTH * z) <= Width /\ 2 * (CHAR_HEIGHT * z) <= Height
  BY <1>1, ConsoleAssumption
<1> QED BY <1>4, <1>5 DEF CellW, CellH

\* The last multiple of w up to Width is less than w below it.
LEMMA LastMultiple ==
    ASSUME NEW w \in Nat, w > 0, NEW n \in Nat
    PROVE  (n \div w) * w \in Nat /\ (n \div w) * w <= n /\ (n \div w) * w + w > n
<1>1. n \div w \in Nat
  OBVIOUS
<1>2. n = w * (n \div w) + (n % w) /\ n % w \in 0 .. w - 1
  OBVIOUS
<1> DEFINE q == n \div w
<1>3. q * w = w * q /\ q * w \in Nat
  BY <1>1
<1> QED BY <1>1, <1>2, <1>3

-----------------------------------------------------------------------------
(* What drawing and the three steps of vd_put_char do to the cursor *)

LEMMA DrawCharStays ==
    ASSUME NEW s, Fields(s), NEW c
    PROVE  At(draw_char(s, c), s, s.x, s.y)
BY DEF Fields, At, draw_char

LEMMA ScrollStays ==
    ASSUME NEW s, Fields(s)
    PROVE  At(scroll_screen(s), s, s.x, s.y)
BY DEF Fields, At, scroll_screen

\* A change of the cursor alone.
LEMMA CursorPut ==
    ASSUME NEW t, Fields(t), NEW x, NEW y
    PROVE  /\ At([t EXCEPT !.x = x], t, x, t.y)
           /\ At([t EXCEPT !.y = y], t, t.x, y)
           /\ At([t EXCEPT !.x = x, !.y = y], t, x, y)
BY DEF Fields, At

LEMMA WrappedTo ==
    ASSUME NEW s, Fields(s)
    PROVE  IF s.x + CellW(s) > Width
           THEN At(Wrapped(s), s, 0, s.y + CellH(s))
           ELSE At(Wrapped(s), s, s.x, s.y)
<1>1. At([s EXCEPT !.x = 0, !.y = @ + CellH(s)], s, 0, s.y + CellH(s))
  BY DEF Fields, At
<1>2. At(s, s, s.x, s.y)
  BY DEF At
<1> QED BY <1>1, <1>2 DEF Wrapped

LEMMA ScrolledTo ==
    ASSUME NEW s, Fields(s)
    PROVE  IF s.y + CellH(s) > Height
           THEN At(Scrolled(s), s, s.x, s.y - CellH(s))
           ELSE At(Scrolled(s), s, s.x, s.y)
<1> DEFINE t == scroll_screen(s)
<1>1. At(t, s, s.x, s.y)
  BY ScrollStays
<1>2. At([t EXCEPT !.y = @ - CellH(s)], s, s.x, s.y - CellH(s))
  <2> HIDE DEF t
  <2> QED BY <1>1 DEF Fields, At
<1>3. At(s, s, s.x, s.y)
  BY DEF At
<1> QED BY <1>2, <1>3 DEF Scrolled

\* Backspace draws a space where the cursor goes.
LEMMA ErasedTo ==
    ASSUME NEW s, Fields(s)
    PROVE  \/ s.x >= CellW(s) /\ At(Erased(s), s, s.x - CellW(s), s.y)
           \/ /\ ~(s.x >= CellW(s)) /\ s.x = 0 /\ s.y >= CellH(s)
              /\ At(Erased(s), s, (Width \div CellW(s)) * CellW(s), s.y - CellH(s))
           \/ /\ ~(s.x >= CellW(s)) /\ ~(s.x = 0 /\ s.y >= CellH(s))
              /\ At(Erased(s), s, s.x, s.y)
<1> DEFINE l == [s EXCEPT !.x = @ - CellW(s)]
           u == [s EXCEPT !.x = (Width \div CellW(s)) * CellW(s), !.y = @ - CellH(s)]
<1>1. At(l, s, s.x - CellW(s), s.y)
  BY DEF Fields, At
<1>2. At(u, s, (Width \div CellW(s)) * CellW(s), s.y - CellH(s))
  BY DEF Fields, At
<1>3. At(s, s, s.x, s.y)
  BY DEF At
<1>4. At(draw_char(l, Space), l, l.x, l.y) /\ At(draw_char(u, Space), u, u.x, u.y)
  <2> HIDE DEF l, u
  <2> QED BY <1>1, <1>2, DrawCharStays DEF At
<1>5. /\ At(draw_char(l, Space), s, s.x - CellW(s), s.y)
      /\ At(draw_char(u, Space), s, (Width \div CellW(s)) * CellW(s), s.y - CellH(s))
  <2> HIDE DEF l, u
  <2> QED BY <1>1, <1>2, <1>4 DEF At
<1>6. CASE s.x >= CellW(s)
  <2>1. Erased(s) = draw_char(l, Space)
    BY <1>6 DEF Erased
  <2> QED BY <1>5, <1>6, <2>1
<1>7. CASE ~(s.x >= CellW(s)) /\ s.x = 0 /\ s.y >= CellH(s)
  <2>1. Erased(s) = draw_char(u, Space)
    BY <1>7 DEF Erased
  <2> QED BY <1>5, <1>7, <2>1
<1>8. CASE ~(s.x >= CellW(s)) /\ ~(s.x = 0 /\ s.y >= CellH(s))
  <2>1. Erased(s) = s
    BY <1>8 DEF Erased
  <2> QED BY <1>3, <1>8, <2>1
<1> QED BY <1>6, <1>7, <1>8

LEMMA GlyphMovesTo ==
    ASSUME NEW s, Fields(s), NEW c, c # NewLine, c # Backspace
    PROVE  At(Moved(s, c), s, s.x + CellW(s), s.y)
<1> DEFINE t == draw_char(s, c)
<1>1. At(t, s, s.x, s.y)
  BY DrawCharStays
<1>2. At([t EXCEPT !.x = @ + CellW(s)], s, s.x + CellW(s), s.y)
  <2> HIDE DEF t
  <2> QED BY <1>1 DEF Fields, At
<1> QED BY <1>2 DEF Moved

LEMMA NewLineMovesTo ==
    ASSUME NEW s, Fields(s)
    PROVE  At(Moved(s, NewLine), s, 0, s.y + CellH(s))
<1>1. At([s EXCEPT !.x = 0, !.y = @ + CellH(s)], s, 0, s.y + CellH(s))
  BY DEF Fields, At
<1>2. NewLine # Backspace
  BY ConsoleAssumption
<1>3. Moved(s, NewLine) = [s EXCEPT !.x = 0, !.y = @ + CellH(s)]
  BY <1>2 DEF Moved
<1> QED BY <1>1, <1>3

\* The wrap and the scroll together, from where Moved has left the cursor: with
\* the sizes w and h of the cell, from x, y to what the conditions say.
LEMMA Settled ==
    ASSUME NEW m, Fields(m), NEW s, m.zoom = s.zoom, s.zoom \in Zoom,
           m.x \in Nat, m.y \in Nat, m.x <= Width + CellW(s), m.y <= Height + CellH(s),
           m.x + CellW(s) > Width => m.y <= Height
    PROVE  LET t == Scrolled(Wrapped(m))
           IN  /\ Fields(t) /\ t.zoom = s.zoom
               /\ t.x \in 0..Width /\ t.y \in 0..Height
               /\ t.x + CellW(s) <= Width
               /\ m.x + CellW(s) <= Width /\ m.y <= Height => t.y + CellH(s) <= Height
               /\ m.y + CellH(s) <= Height => t.y + CellH(s) <= Height
               /\ m.x + CellW(s) > Width => t.x = 0
               /\ m.x + CellW(s) <= Width => t.x = m.x
<1> DEFINE v == Wrapped(m)
           t == Scrolled(v)
           w == CellW(s)
           h == CellH(s)
<1>1. /\ w \in Nat /\ w > 0 /\ 2 * w <= Width /\ Width \in Nat
      /\ h \in Nat /\ h > 0 /\ 2 * h <= Height /\ Height \in Nat
  BY CellFits, ConsoleAssumption
<1>2. CellW(m) = w /\ CellH(m) = h
  BY DEF CellW, CellH
<1>3. IF m.x + w > Width THEN At(v, m, 0, m.y + h) ELSE At(v, m, m.x, m.y)
  BY <1>2, WrappedTo
<1>4. Fields(v) /\ v.zoom = s.zoom
  <2> HIDE DEF v, w, h
  <2> QED BY <1>3 DEF At
<1>5. CellH(v) = h
  BY <1>4 DEF CellH
<1>6. IF v.y + h > Height THEN At(t, v, v.x, v.y - h) ELSE At(t, v, v.x, v.y)
  BY <1>4, <1>5, ScrolledTo
<1>7. Fields(t) /\ t.zoom = s.zoom
  <2> HIDE DEF v, w, h, t
  <2> QED BY <1>4, <1>6 DEF At
<1>8. /\ IF m.x + w > Width THEN v.x = 0 /\ v.y = m.y + h ELSE v.x = m.x /\ v.y = m.y
      /\ t.x = v.x /\ t.y = (IF v.y + h > Height THEN v.y - h ELSE v.y)
  <2> HIDE DEF v, w, h, t
  <2> QED BY <1>3, <1>6 DEF At
<1>9. /\ t.x \in 0..Width /\ t.y \in 0..Height
      /\ t.x + w <= Width
      /\ m.x + w <= Width /\ m.y <= Height => t.y + h <= Height
      /\ m.y + h <= Height => t.y + h <= Height
      /\ m.x + w > Width => t.x = 0
      /\ m.x + w <= Width => t.x = m.x
  <2>1. m.x \in Nat /\ m.y \in Nat /\ m.x <= Width + w /\ m.y <= Height + h /\ (m.x + w > Width => m.y <= Height)
    OBVIOUS
  <2> HIDE DEF v, w, h, t
  <2> QED BY <1>1, <1>8, <2>1
<1> QED BY <1>7, <1>9

-----------------------------------------------------------------------------
(* One character *)

\* What vd_put_char does to a console in good order: it keeps it so; a cell on
\* the screen is on the screen again; a letter or a space brings a cursor on the
\* screen's pixels back; a new line goes to the left margin.
LEMMA PutChar ==
    ASSUME NEW s, Good(s), NEW c \in Char
    PROVE  LET t == vd_put_char(s, c)
           IN  /\ Good(t) /\ t.zoom = s.zoom
               /\ OnScreen(s) => OnScreen(t)
               /\ c \in Letters => OnScreen(t)
               /\ c = NewLine => t.x = 0
<1> DEFINE m == Moved(s, c)
           t == Scrolled(Wrapped(m))
           w == CellW(s)
           h == CellH(s)
           q == (Width \div w) * w
<1>1. /\ w \in Nat /\ w > 0 /\ 2 * w <= Width /\ Width \in Nat
      /\ h \in Nat /\ h > 0 /\ 2 * h <= Height /\ Height \in Nat
  BY CellFits, ConsoleAssumption DEF Good
<1>2. /\ Fields(s) /\ s.zoom \in Zoom
      /\ s.x \in 0..Width /\ s.y \in 0..Height
      /\ s.x + 2 * w <= Width \/ s.y + h <= Height
  BY DEF Good, NotInCorner
<1>3. q \in Nat /\ q <= Width /\ q + w > Width
  BY <1>1, LastMultiple
<1>4. \/ c = NewLine /\ At(m, s, 0, s.y + h)
      \/ c \notin {NewLine, Backspace} /\ At(m, s, s.x + w, s.y)
      \/ c = Backspace /\ s.x >= w /\ At(m, s, s.x - w, s.y)
      \/ c = Backspace /\ s.x = 0 /\ s.y >= h /\ At(m, s, q, s.y - h)
      \/ c = Backspace /\ ~(s.x >= w) /\ At(m, s, s.x, s.y)
  <2>1. CASE c = NewLine
    BY <1>2, <2>1, NewLineMovesTo
  <2>2. CASE c = Backspace
    <3>1. m = Erased(s)
      BY <2>2, ConsoleAssumption DEF Moved
    <3> QED BY <1>2, <2>2, <3>1, ErasedTo
  <2>3. CASE c # NewLine /\ c # Backspace
    BY <1>2, <2>3, GlyphMovesTo
  <2> QED BY <2>1, <2>2, <2>3
<1>5. Fields(m) /\ m.zoom = s.zoom
  <2> HIDE DEF m, w, h, q
  <2> QED BY <1>4 DEF At
<1>6. \/ c = NewLine /\ m.x = 0 /\ m.y = s.y + h
      \/ c \notin {NewLine, Backspace} /\ m.x = s.x + w /\ m.y = s.y
      \/ c = Backspace /\ s.x >= w /\ m.x = s.x - w /\ m.y = s.y
      \/ c = Backspace /\ s.x = 0 /\ s.y >= h /\ m.x = q /\ m.y = s.y - h
      \/ c = Backspace /\ ~(s.x >= w) /\ m.x = s.x /\ m.y = s.y
  <2> HIDE DEF m, w, h, q
  <2> QED BY <1>4 DEF At
<1>7. m.x \in Nat /\ m.y \in Nat /\ m.x <= Width + w /\ m.y <= Height + h
      /\ (m.x + w > Width => m.y <= Height)
  <2> HIDE DEF m, w, h, q
  <2> QED BY <1>1, <1>2, <1>3, <1>6
<1>8. /\ Fields(t) /\ t.zoom = s.zoom
      /\ t.x \in 0..Width /\ t.y \in 0..Height
      /\ t.x + w <= Width
      /\ m.x + w <= Width /\ m.y <= Height => t.y + h <= Height
      /\ m.y + h <= Height => t.y + h <= Height
      /\ m.x + w > Width => t.x = 0
      /\ m.x + w <= Width => t.x = m.x
  <2> HIDE DEF m
  <2> QED BY <1>2, <1>5, <1>7, Settled
<1>9. CellW(t) = w /\ CellH(t) = h
  BY <1>8 DEF CellW, CellH
<1>10. c \in Letters => c \notin {NewLine, Backspace}
  BY ConsoleAssumption
<1>11. /\ t.x + 2 * w <= Width \/ t.y + h <= Height
       /\ s.x + w <= Width /\ s.y + h <= Height => t.y + h <= Height
       /\ c \in Letters => t.y + h <= Height
       /\ c = NewLine => t.x = 0
  <2> HIDE DEF m, w, h, q, t
  <2>1. c = NewLine => t.x = 0 /\ (s.y + h <= Height => t.y + h <= Height)
    <3>1. NewLine # Backspace
      BY ConsoleAssumption
    <3>2. c = NewLine => m.x = 0 /\ m.y = s.y + h
      BY <1>6, <3>1
    <3> QED BY <1>1, <1>2, <1>8, <3>2
  <2>2. c \notin {NewLine, Backspace} => t.y + h <= Height
    BY <1>1, <1>2, <1>6, <1>8
  <2>3. c = Backspace => t.y + h <= Height
    <3>1. NewLine # Backspace
      BY ConsoleAssumption
    <3>2. c = Backspace => \/ m.x + w <= Width /\ m.y <= Height
                           \/ m.y + h <= Height
      BY <1>1, <1>2, <1>3, <1>6, <3>1
    <3> QED BY <1>8, <3>2
  <2> QED BY <1>1, <1>10, <2>1, <2>2, <2>3
<1>12. t = vd_put_char(s, c)
  BY DEF vd_put_char
<1> QED BY <1>2, <1>8, <1>9, <1>11, <1>12 DEF Good, NotInCorner, OnScreen

-----------------------------------------------------------------------------
(* A text *)

\* A set of naturals that is not empty has a least element.
LEMMA LeastNatural ==
    ASSUME NEW S \in SUBSET Nat, S # {}
    PROVE  \E n \in S : \A m \in S : n <= m
<1>1. PICK n \in S : ~\E m \in S : <<m, n>> \in OpToRel(<, Nat)
  BY NatLessThanWellFounded, WFMin
<1>2. \A m \in S : n <= m
  BY <1>1 DEF OpToRel
<1> QED BY <1>2

\* The state put in front of the first character, and behind each one.
Writes(s, str, n, f) ==
    f = [k \in 0..n |-> IF k = 0 THEN s ELSE vd_put_char(f[k - 1], str[k])]

\* The function that vd_put_string computes exists: a walk along the string.
LEMMA WritesExists ==
    ASSUME NEW s, NEW str, NEW len \in Nat
    PROVE  \E f : Writes(s, str, len, f)
<1> DEFINE S == {n \in Nat : ~\E f : Writes(s, str, n, f)}
<1> SUFFICES ASSUME S # {} PROVE FALSE
  OBVIOUS
<1>1. PICK n \in S : \A m \in S : n <= m
  BY LeastNatural
<1>2. n \in Nat /\ ~\E f : Writes(s, str, n, f)
  BY <1>1
<1>3. CASE n = 0
  <2> DEFINE f == [k \in 0..0 |-> s]
  <2>1. Writes(s, str, 0, f)
    BY DEF Writes
  <2> QED BY <1>2, <1>3, <2>1
<1>4. CASE n # 0
  <2>1. n - 1 \in Nat /\ n - 1 \notin S
    BY <1>1, <1>2, <1>4
  <2>2. PICK f : Writes(s, str, n - 1, f)
    BY <2>1
  <2> DEFINE g == [k \in 0..n |-> IF k = n THEN vd_put_char(f[n - 1], str[n]) ELSE f[k]]
  <2>3. \A k \in 0..n - 1 : g[k] = f[k]
    BY <1>2
  <2>4. \A k \in 0..n : g[k] = IF k = 0 THEN s ELSE vd_put_char(g[k - 1], str[k])
    <3> TAKE k \in 0..n
    <3>1. CASE k = n
      BY <1>2, <1>4, <2>3, <3>1
    <3>2. CASE k # n
      <4>1. k \in 0..n - 1 /\ (k # 0 => k - 1 \in 0..n - 1)
        BY <1>2, <3>2
      <4>2. f[k] = IF k = 0 THEN s ELSE vd_put_char(f[k - 1], str[k])
        BY <2>2, <4>1 DEF Writes
      <4> QED BY <2>3, <4>1, <4>2
    <3> QED BY <3>1, <3>2
  <2>5. g = [k \in 0..n |-> IF k = 0 THEN s ELSE vd_put_char(g[k - 1], str[k])]
    <3>1. g = [k \in 0..n |-> g[k]]
      OBVIOUS
    <3> HIDE DEF g
    <3> QED BY <2>4, <3>1
  <2> QED BY <1>2, <2>5 DEF Writes
<1> QED BY <1>3, <1>4

\* A text leaves the console in good order, and at its zoom.
LEMMA PutString ==
    ASSUME NEW s, Good(s), NEW str \in Seq(Char)
    PROVE  Good(vd_put_string(s, str)) /\ vd_put_string(s, str).zoom = s.zoom
<1> DEFINE put == CHOOSE f : Writes(s, str, Len(str), f)
<1>1. Len(str) \in Nat /\ \A k \in 1..Len(str) : str[k] \in Char
  OBVIOUS
<1>2. Writes(s, str, Len(str), put)
  BY <1>1, WritesExists
<1>3. vd_put_string(s, str) = put[Len(str)]
  BY DEF vd_put_string, Writes
<1> HIDE DEF put
<1>4. /\ put[0] = s
      /\ \A k \in 1..Len(str) : put[k] = vd_put_char(put[k - 1], str[k])
  BY <1>1, <1>2 DEF Writes
<1> DEFINE S == {n \in Nat : n <= Len(str) /\ ~(Good(put[n]) /\ put[n].zoom = s.zoom)}
<1>5. S = {}
  <2> SUFFICES ASSUME S # {} PROVE FALSE
    OBVIOUS
  <2>1. PICK n \in S : \A m \in S : n <= m
    BY LeastNatural
  <2>2. n \in Nat /\ n <= Len(str) /\ ~(Good(put[n]) /\ put[n].zoom = s.zoom)
    BY <2>1
  <2>3. n # 0
    BY <1>4, <2>2
  <2>4. n \in 1..Len(str) /\ n - 1 \in Nat /\ n - 1 <= Len(str) /\ n - 1 \notin S
    BY <1>1, <2>1, <2>2, <2>3
  <2>5. Good(put[n - 1]) /\ put[n - 1].zoom = s.zoom
    BY <2>4
  <2>6. str[n] \in Char /\ put[n] = vd_put_char(put[n - 1], str[n])
    BY <1>1, <1>4, <2>4
  <2> QED BY <2>2, <2>5, <2>6, PutChar
<1>6. Len(str) \notin S
  BY <1>5
<1> QED BY <1>1, <1>3, <1>6

-----------------------------------------------------------------------------
(* The system calls *)

\* The inductive invariant.  Without NotInCorner a character could take the
\* cursor to the next line and yet leave it below the screen.
IInv == Good(console)

LEMMA ClearedIsGood ==
    ASSUME NEW s, Fields(s), s.zoom \in Zoom
    PROVE  Good(vd_clear_screen(s))
<1> DEFINE t == vd_clear_screen(s)
<1>1. At(t, s, 0, 0)
  BY DEF vd_clear_screen, Fields, At
<1>2. Fields(t) /\ t.zoom \in Zoom /\ t.x = 0 /\ t.y = 0
  <2> HIDE DEF t
  <2> QED BY <1>1 DEF At
<1>3. 2 * CellW(t) <= Width /\ CellW(t) \in Nat
  <2> HIDE DEF t
  <2> QED BY <1>2, CellFits
<1>4. Good(t)
  <2> HIDE DEF t
  <2>1. 0 \in 0..Width /\ 0 \in 0..Height
    BY ConsoleAssumption
  <2>2. NotInCorner(t)
    BY <1>2, <1>3, ConsoleAssumption DEF NotInCorner
  <2> QED BY <1>2, <2>1, <2>2 DEF Good
<1> QED BY <1>4

LEMMA InitIsGood == Init => IInv
<1> DEFINE s == [x |-> 0, y |-> 0, zoom |-> InitialZoom, fb |-> [o \in FrameBuffer |-> Blank]]
<1>1. Fields(s) /\ s.zoom \in Zoom
  BY ConsoleAssumption DEF Fields
<1> HIDE DEF s
<1>2. Good(vd_clear_screen(s))
  BY <1>1, ClearedIsGood
<1> QED BY <1>2 DEF Init, IInv, s

LEMMA CursorIsGood ==
    ASSUME IInv, NEW p \in Cursors, SetCursor(p[1], p[2])
    PROVE  IInv'
<1>1. Fields(console) /\ console.zoom \in Zoom
  BY DEF IInv, Good
<1>2. At(console', console, p[1], p[2])
  BY <1>1, CursorPut DEF SetCursor
<1>3. /\ Fields(console') /\ console'.zoom = console.zoom
      /\ console'.x = p[1] /\ console'.y = p[2]
  BY <1>2 DEF At
<1>4. p[1] \in 0..Width /\ p[2] \in 0..Height
  BY ConsoleAssumption
<1>5. \/ p[1] + 2 * (CHAR_WIDTH * console.zoom) <= Width
      \/ p[2] + CHAR_HEIGHT * console.zoom <= Height
  BY <1>1, CursorsAssumption
<1>6. NotInCorner(console')
  BY <1>3, <1>5 DEF NotInCorner, CellW, CellH
<1> QED BY <1>1, <1>3, <1>4, <1>6 DEF IInv, Good

LEMMA ZoomIsGood ==
    ASSUME IInv, NEW z, SetZoom(z)
    PROVE  IInv'
<1> DEFINE t == vd_put_char(console, NewLine)
<1>1. Good(t) /\ t.x = 0
  BY PutChar DEF IInv, Char
<1>2. console' = [t EXCEPT !.zoom = z] /\ z \in Zoom
  BY DEF SetZoom
<1> HIDE DEF t
<1>3. /\ Fields(console') /\ console'.zoom = z
      /\ console'.x = 0 /\ console'.y = t.y
  BY <1>1, <1>2 DEF Fields, Good
<1>4. 2 * CellW(console') <= Width /\ CellW(console') \in Nat
  BY <1>2, <1>3, CellFits
<1>5. t.y \in 0..Height
  BY <1>1 DEF Good
<1>6. NotInCorner(console') /\ 0 \in 0..Width
  BY <1>3, <1>4, ConsoleAssumption DEF NotInCorner
<1> QED BY <1>2, <1>3, <1>5, <1>6 DEF IInv, Good

LEMMA StepIsGood == IInv /\ [Next]_console => IInv'
<1> SUFFICES ASSUME IInv, [Next]_console PROVE IInv'
  OBVIOUS
<1>1. CASE \E c \in Char : Write(c)
  BY <1>1, PutChar DEF Write, IInv
<1>2. CASE \E p \in Cursors : SetCursor(p[1], p[2])
  BY <1>2, CursorIsGood
<1>3. CASE ClearScreen
  BY <1>3, ClearedIsGood DEF ClearScreen, IInv, Good
<1>4. CASE \E z \in Zooms : SetZoom(z)
  BY <1>4, ZoomIsGood
<1>5. CASE \E z \in Zooms : RefuseZoom(z)
  BY <1>5, PutString, ConsoleAssumption DEF RefuseZoom, IInv
<1>6. CASE UNCHANGED console
  BY <1>6 DEF IInv
<1> QED BY <1>1, <1>2, <1>3, <1>4, <1>5, <1>6 DEF Next

-----------------------------------------------------------------------------
(* The theorems *)

\* Whatever programs write, and whatever cursors and zooms they ask for, the
\* zoom stays among those the driver accepts and the cursor within the screen
\* or at its far edges (vd_put_char, vd_set_cursor, vd_set_zoom).
THEOREM CursorInvariant == Spec => []TypeOK
<1>1. IInv => TypeOK
  BY DEF IInv, Good, Fields, TypeOK
<1> QED BY <1>1, InitIsGood, StepIsGood, PTL DEF Spec

\* A character written where its cell is on the screen leaves the cursor where
\* the next cell is on the screen, at every zoom (vd_put_char).
THEOREM WritingStaysOnScreenHolds == Spec => WritingStaysOnScreen
<1>1. ASSUME IInv, NEW c \in Char, Write(c), OnScreen(console)
      PROVE  OnScreen(console')
  BY <1>1, PutChar DEF Write, IInv
<1>2. IInv /\ [Next]_console =>
        [\A c \in Char : (Write(c) /\ OnScreen(console)) => OnScreen(console')]_console
  BY <1>1
<1> QED BY <1>2, InitIsGood, StepIsGood, PTL DEF Spec, WritingStaysOnScreen

\* Wherever a program or a change of zoom has left the cursor, the cell behind
\* the next letter is on the screen (vd_put_char, vd_set_zoom).
THEOREM OneGlyphBringsCursorBackHolds == Spec => OneGlyphBringsCursorBack
<1>1. ASSUME IInv, NEW c \in Letters, Write(c)
      PROVE  OnScreen(console')
  BY <1>1, PutChar DEF Write, IInv, Char
<1>2. IInv /\ [Next]_console =>
        [\A c \in Letters : (Write(c) /\ console.x < Width /\ console.y < Height) => OnScreen(console')]_console
  BY <1>1
<1> QED BY <1>2, InitIsGood, StepIsGood, PTL DEF Spec, OneGlyphBringsCursorBack

-----------------------------------------------------------------------------
(* Shapes: each call of DisplaySpec draws one, on the screen of Console *)

\* Clamping a size to the screen keeps the points of the screen.
LEMMA ClampKeepsScreen ==
    ASSUME NEW at \in Int, NEW size \in Nat, NEW limit \in Nat, at >= 0, at < limit
    PROVE  {i \in 0..size - 1 : at + i \in 0..limit - 1} = 0..Drawn!Clamp(at, size, limit) - 1
BY DEF Drawn!Clamp

Box(x, y, w, h) == {<<x + i, y + j>> : i \in 0..w - 1, j \in 0..h - 1}

LEMMA RectangleDrawn ==
    ASSUME NEW x \in Int, NEW y \in Int, NEW w \in Nat, NEW h \in Nat, <<x, y>> \in Drawn!Screen
    PROVE  Drawn!vd_draw_rectangle(x, y, w, h) = Drawn!OnScreen(Box(x, y, w, h))
<1> DEFINE I == 0..Drawn!Clamp(x, w, Width) - 1
           J == 0..Drawn!Clamp(y, h, Height) - 1
           S == Box(x, y, w, h)
<1>1. Width \in Nat /\ Height \in Nat /\ x >= 0 /\ x < Width /\ y >= 0 /\ y < Height
  BY ConsoleAssumption DEF Drawn!Screen
<1>2. I = {i \in 0..w - 1 : x + i \in 0..Width - 1} /\ J = {j \in 0..h - 1 : y + j \in 0..Height - 1}
  BY <1>1, ClampKeepsScreen
<1>3. Drawn!vd_draw_rectangle(x, y, w, h) = {Drawn!Offset(<<x + i, y + j>>) : i \in I, j \in J}
  BY <1>1 DEF Drawn!vd_draw_rectangle
<1> HIDE DEF I, J
<1>4. \A p \in S \intersect Drawn!Screen : \E i \in I, j \in J : p = <<x + i, y + j>>
  <2> TAKE p \in S \intersect Drawn!Screen
  <2>1. PICK i \in 0..w - 1, j \in 0..h - 1 : p = <<x + i, y + j>>
    BY DEF Box
  <2>2. x + i \in 0..Width - 1 /\ y + j \in 0..Height - 1
    BY <2>1 DEF Drawn!Screen
  <2> QED BY <1>2, <2>1, <2>2
<1>5. \A i \in I, j \in J : <<x + i, y + j>> \in S \intersect Drawn!Screen
  BY <1>2 DEF Drawn!Screen, Box
<1> HIDE DEF S
<1> DEFINE L == {Drawn!Offset(p) : p \in S \intersect Drawn!Screen}
           R == {Drawn!Offset(<<x + i, y + j>>) : i \in I, j \in J}
<1>6. L = R
  <2>1. \A o : o \in L <=> \E p \in S \intersect Drawn!Screen : o = Drawn!Offset(p)
    OBVIOUS
  <2>2. \A o : o \in R <=> \E i \in I, j \in J : o = Drawn!Offset(<<x + i, y + j>>)
    OBVIOUS
  <2> HIDE DEF L, R
  <2> QED BY <1>4, <1>5, <2>1, <2>2
<1>7. Drawn!vd_draw_rectangle(x, y, w, h) = R
  BY <1>3
<1>8. Drawn!OnScreen(S) = L
  BY DEF Drawn!OnScreen
<1>9. Drawn!vd_draw_rectangle(x, y, w, h) = Drawn!OnScreen(S)
  <2> HIDE DEF L, R
  <2> QED BY <1>6, <1>7, <1>8
<1> QED BY <1>9 DEF S

\* The test for a circle that misses the screen spares no point of one that
\* does not.
LEMMA CircleDrawn ==
    ASSUME NEW x \in Int, NEW y \in Int, NEW r \in Nat
    PROVE  Drawn!vd_draw_circle(x, y, r)
           = Drawn!OnScreen({p \in (x - r..x + r) \X (y - r..y + r) :
                                (p[1] - x) * (p[1] - x) + (p[2] - y) * (p[2] - y) <= r * r})
<1> DEFINE Missed == x + r < 0 \/ x - r >= Width \/ y + r < 0 \/ y - r >= Height
           D == {d \in (-r..r) \X (-r..r) :
                    d[1] * d[1] + d[2] * d[2] <= r * r /\ <<x + d[1], y + d[2]>> \in Drawn!Screen}
           S == {p \in (x - r..x + r) \X (y - r..y + r) :
                    (p[1] - x) * (p[1] - x) + (p[2] - y) * (p[2] - y) <= r * r}
<1>1. Width \in Nat /\ Height \in Nat
  BY ConsoleAssumption
<1>2. \A p \in S \intersect Drawn!Screen : \E d \in D : p = <<x + d[1], y + d[2]>>
  <2> TAKE p \in S \intersect Drawn!Screen
  <2> DEFINE d == <<p[1] - x, p[2] - y>>
  <2>1. p[1] \in Int /\ p[2] \in Int /\ p = <<p[1], p[2]>>
    OBVIOUS
  <2>2. d \in (-r..r) \X (-r..r)
    OBVIOUS
  <2>3. d[1] * d[1] + d[2] * d[2] <= r * r
    OBVIOUS
  <2>4. x + d[1] = p[1] /\ y + d[2] = p[2]
    BY <2>1
  <2> QED BY <2>1, <2>2, <2>3, <2>4
<1>3. \A d \in D : <<x + d[1], y + d[2]>> \in S \intersect Drawn!Screen
  <2> TAKE d \in D
  <2> DEFINE p == <<x + d[1], y + d[2]>>
  <2>1. d[1] \in -r..r /\ d[2] \in -r..r
    OBVIOUS
  <2>2. p \in (x - r..x + r) \X (y - r..y + r)
    BY <2>1
  <2>3. p[1] - x = d[1] /\ p[2] - y = d[2]
    BY <2>1
  <2>4. (p[1] - x) * (p[1] - x) + (p[2] - y) * (p[2] - y) <= r * r
    BY <2>3
  <2> QED BY <2>2, <2>4
<1>4. {Drawn!Offset(p) : p \in S \intersect Drawn!Screen} = {Drawn!Offset(<<x + d[1], y + d[2]>>) : d \in D}
  <2> HIDE DEF S, D
  <2> QED BY <1>2, <1>3
<1>5. CASE Missed
  <2>1. D = {}
    <3> SUFFICES ASSUME NEW d \in D PROVE FALSE
      OBVIOUS
    <3>1. d[1] \in -r..r /\ d[2] \in -r..r
      OBVIOUS
    <3>2. x + d[1] \in 0..Width - 1 /\ y + d[2] \in 0..Height - 1
      BY DEF Drawn!Screen
    <3> QED BY <1>1, <1>5, <3>1, <3>2
  <2>2. Drawn!vd_draw_circle(x, y, r) = {}
    BY <1>5 DEF Drawn!vd_draw_circle
  <2> HIDE DEF S, D
  <2>3. Drawn!OnScreen(S) = {}
    BY <1>4, <2>1 DEF Drawn!OnScreen
  <2> QED BY <2>2, <2>3 DEF S
<1>6. CASE ~Missed
  <2>1. Drawn!vd_draw_circle(x, y, r) = {Drawn!Offset(<<x + d[1], y + d[2]>>) : d \in D}
    BY <1>6 DEF Drawn!vd_draw_circle
  <2> HIDE DEF S, D
  <2>2. Drawn!vd_draw_circle(x, y, r) = Drawn!OnScreen(S)
    BY <1>4, <2>1 DEF Drawn!OnScreen
  <2> QED BY <2>2 DEF S
<1> QED BY <1>5, <1>6

LEMMA ShapesInit == DisplayInit => ShapesAreClipped
  BY DEF DisplayInit, Drawn!Init, ShapesAreClipped, Drawn!ShapesAreClipped, Drawn!RectangleIsClipped,
         Drawn!CircleIsClipped

LEMMA ShapesStep == ShapesAreClipped /\ [DisplayNext]_<<subject, vars, pixels, shapeVars>> => ShapesAreClipped'
<1> SUFFICES ASSUME ShapesAreClipped, [DisplayNext]_<<subject, vars, pixels, shapeVars>>
             PROVE  ShapesAreClipped'
  OBVIOUS
<1> USE DEF ShapesAreClipped, Drawn!ShapesAreClipped, Drawn!RectangleIsClipped, Drawn!CircleIsClipped
<1>1. CASE UNCHANGED shapeVars
  BY <1>1 DEF shapeVars
<1>2. ASSUME NEW x \in Coordinates, NEW y \in Coordinates, NEW w \in Sizes, NEW h \in Sizes,
             Drawn!DrawRect(x, y, w, h)
      PROVE  ShapesAreClipped'
  <2>1. x \in Int /\ y \in Int /\ w \in Nat /\ h \in Nat
    BY ShapesAssumption
  <2>2. call' = [shape |-> "rectangle", x |-> x, y |-> y, w |-> w, h |-> h]
        /\ painted' = Drawn!vd_draw_rectangle(x, y, w, h)
    BY <1>2 DEF Drawn!DrawRect
  <2>3. call'.shape = "rectangle" /\ x = call'.x /\ y = call'.y /\ w = call'.w /\ h = call'.h
    BY <2>2
  <2>4. <<x, y>> \in Drawn!Screen => painted' = Drawn!OnScreen(Box(x, y, w, h))
    BY <2>1, <2>2, RectangleDrawn
  <2>5. <<call'.x, call'.y>> \in Drawn!Screen => painted' = Drawn!OnScreen(Box(call'.x, call'.y, call'.w, call'.h))
    BY <2>3, <2>4
  <2> QED BY <2>3, <2>5 DEF Box
<1>3. ASSUME NEW x \in Coordinates, NEW y \in Coordinates, NEW r \in Sizes, Drawn!DrawCircle(x, y, r)
      PROVE  ShapesAreClipped'
  <2>1. x \in Int /\ y \in Int /\ r \in Nat
    BY ShapesAssumption
  <2>2. call' = [shape |-> "circle", x |-> x, y |-> y, r |-> r]
        /\ painted' = Drawn!vd_draw_circle(x, y, r)
    BY <1>3 DEF Drawn!DrawCircle
  <2>3. call'.shape = "circle" /\ x = call'.x /\ y = call'.y /\ r = call'.r
    BY <2>2
  <2>4. painted' = Drawn!OnScreen({p \in (x - r..x + r) \X (y - r..y + r) :
                                      (p[1] - x) * (p[1] - x) + (p[2] - y) * (p[2] - y) <= r * r})
    BY <2>1, <2>2, CircleDrawn
  <2>5. painted' = Drawn!OnScreen({p \in (call'.x - call'.r..call'.x + call'.r) \X (call'.y - call'.r..call'.y + call'.r) :
                                      (p[1] - call'.x) * (p[1] - call'.x) + (p[2] - call'.y) * (p[2] - call'.y) <= call'.r * call'.r})
    BY <2>3, <2>4
  <2> QED BY <2>3, <2>5
<1>4. ASSUME NEW x \in Points, NEW y \in Points,
             NEW x2 \in {0, 1}, NEW y2 \in {0, 1}, NEW r2 \in {0, 1}, Drawn!PutPixel(x, y, x2, y2, r2)
      PROVE  ShapesAreClipped'
  BY <1>4 DEF Drawn!PutPixel
<1> QED BY <1>1, <1>2, <1>3, <1>4 DEF DisplayNext, Drawn!Next, shapeVars

\* Every rectangle with its corner on the screen and every circle appears as far
\* as the screen goes and nowhere else, whatever its place and size and whatever
\* the mode: no point comes out on another line, and none behind the last one
\* (vd_draw_rectangle, vd_draw_circle).
THEOREM ShapesAreClippedHolds == DisplaySpec => []ShapesAreClipped
BY ShapesInit, ShapesStep, PTL DEF DisplaySpec

-----------------------------------------------------------------------------
(* The text grid: a screen of cells of one size *)

GW == GlyphWidth * GridZoom
GH == GlyphHeight * GridZoom
Rows == Small!GridRows
Cols == Small!GridCols
Glyphs == Letters \union {Space}

\* The pixel in line py and column px.
Pixel(s, px, py) == s.fb[px + py * GridWidth]

ShowsAt(s, r, c, g) ==
    \A i \in 0..GW - 1, j \in 0..GH - 1 : Pixel(s, c * GW + i, r * GH + j) = Small!Dot(g, i, j, GridZoom)

ShownIn(s, r, c) ==
    IF \E g \in Glyphs : ShowsAt(s, r, c, g) THEN CHOOSE g \in Glyphs : ShowsAt(s, r, c, g) ELSE "damaged"

Place == (0..Rows - 1) \X (0..Cols - 1)
Cells(s) == [p \in Place |-> ShownIn(s, p[1], p[2])]

\* What is left of what a cell showed when a part of it is erased.
Left(g) == IF g = Space THEN {Space} ELSE {Space, "damaged"}

\* The line after line r, and what a new line there makes of the cells.
Below(r) == IF r + 1 < Rows THEN r + 1 ELSE r
Fed(r, cells) ==
    IF r + 1 < Rows THEN cells
    ELSE [p \in Place |-> IF p[1] + 1 < Rows THEN cells[<<p[1] + 1, p[2]>>] ELSE Space]

\* The console with the cursor at x, y; the lines of pixels below the last cell
\* are blank: a scroll takes them into it.
CursorAt(s, x, y) ==
    /\ DOMAIN s = {"x", "y", "zoom", "fb"} /\ s.zoom = GridZoom
    /\ s.x = x /\ s.y = y
    /\ \A px \in 0..GridWidth - 1, py \in Rows * GH..GridHeight - 1 : Pixel(s, px, py) = Blank

\* The console with the cursor at the cell r, c.
AtCell(s, r, c) == r \in 0..Rows - 1 /\ c \in 0..Cols - 1 /\ CursorAt(s, c * GW, r * GH)

-----------------------------------------------------------------------------
(* Arithmetic *)

\* The place in a line and the line of an offset, from either side of the screen.
LEMMA Euclid ==
    ASSUME NEW w \in Nat, w > 0, NEW a \in 0..w - 1, NEW b \in Int
    PROVE  /\ (a + b * w) % w = a /\ (a + b * w) \div w = b
           /\ a + b * w >= 0 <=> b >= 0
<1> DEFINE n == a + b * w
           q == n \div w
           m == n % w
<1>1. n \in Int /\ q \in Int /\ m \in 0..w - 1 /\ n = w * q + m
  OBVIOUS
<1>2. b * w = w * b /\ w * b \in Int /\ w * q \in Int
  BY <1>1
<1>3. w * (b - q) = w * b - w * q
  BY <1>1
<1>4. w * (b - q) = m - a
  BY <1>1, <1>2, <1>3
<1>5. b - q >= 1 => w * (b - q) >= w
  BY <1>1
<1>6. b - q <= -1 => w * (b - q) <= -w
  BY <1>1
<1>7. b = q
  <2> HIDE DEF q, m, n
  <2> QED BY <1>1, <1>4, <1>5, <1>6
<1>8. m = a
  BY <1>1, <1>2, <1>7
<1>9. b >= 0 => b * w >= 0
  OBVIOUS
<1>10. b < 0 => b * w <= -w
  OBVIOUS
<1>11. n >= 0 <=> b >= 0
  BY <1>9, <1>10
<1> QED BY <1>7, <1>8, <1>11

\* How many whole cells of w there are in n.
LEMMA Whole ==
    ASSUME NEW w \in Nat, w > 0, NEW n \in Nat, 2 * w <= n
    PROVE  /\ n \div w \in Nat /\ n \div w >= 2
           /\ (n \div w) * w <= n /\ n < (n \div w) * w + w
<1> DEFINE q == n \div w
<1>1. q \in Int /\ n % w \in 0..w - 1 /\ n = w * q + (n % w)
  OBVIOUS
<1>2. q * w = w * q /\ w * q \in Int
  BY <1>1
<1>3. q <= 1 => w * q <= w
  BY <1>1
<1> HIDE DEF q
<1>4. q >= 2
  BY <1>1, <1>2, <1>3
<1> QED BY <1>1, <1>2, <1>4 DEF q

\* What the assumption says of cells and screen.
LEMMA GridSizes ==
    /\ GW \in Nat /\ GW > 0 /\ GH \in Nat /\ GH >= 2 /\ GridWidth \in Nat /\ GridHeight \in Nat
    /\ GridZoom \in Nat /\ GridZoom > 0
    /\ Rows \in Nat /\ Rows >= 2 /\ Rows * GH <= GridHeight /\ GridHeight < Rows * GH + GH
    /\ Cols \in Nat /\ Cols >= 2 /\ Cols * GW <= GridWidth /\ GridWidth < Cols * GW + GW
    /\ Rows * GH \in Nat /\ Cols * GW \in Nat
    /\ 2 * GW <= GridWidth /\ 2 * GH <= GridHeight
<1>1. GridWidth \in Nat /\ GridHeight \in Nat /\ GridZoom \in Nat /\ GridZoom > 0
  BY GridAssumption
<1>2. GW \in Nat /\ GW > 0
  <2>1. \A a, b \in Nat : a > 0 /\ b > 0 => a * b \in Nat /\ a * b > 0
    OBVIOUS
  <2> QED BY <1>1, <2>1, GridAssumption DEF GW
<1>3. GH \in Nat /\ GH >= 2
  <2>1. \A a, b \in Nat : a * b \in Nat
    OBVIOUS
  <2> QED BY <1>1, <2>1, GridAssumption DEF GH
<1>4. 2 * GW <= GridWidth /\ 2 * GH <= GridHeight
  BY GridAssumption DEF GW, GH
<1>5. Rows = GridHeight \div GH /\ Cols = GridWidth \div GW
  BY DEF Rows, Cols, GW, GH, Small!GridRows, Small!GridCols
<1>6. Rows \in Nat /\ Rows >= 2 /\ Rows * GH <= GridHeight /\ GridHeight < Rows * GH + GH
  BY <1>1, <1>3, <1>4, <1>5, Whole
<1>7. Cols \in Nat /\ Cols >= 2 /\ Cols * GW <= GridWidth /\ GridWidth < Cols * GW + GW
  BY <1>1, <1>2, <1>4, <1>5, Whole
<1>8. Rows * GH \in Nat /\ Cols * GW \in Nat
  BY <1>2, <1>3, <1>6, <1>7
<1> QED BY <1>1, <1>2, <1>3, <1>4, <1>6, <1>7, <1>8

\* A cell, and the k-th place of n of size w.
LEMMA Multiples ==
    ASSUME NEW w \in Nat, NEW n \in Nat, NEW k \in 0..n - 1
    PROVE  k * w \in Nat /\ (k + 1) * w = k * w + w /\ k * w + w <= n * w
<1>1. k * w \in Nat /\ (k + 1) * w = k * w + w
  OBVIOUS
<1>2. (n - (k + 1)) * w >= 0 /\ (n - (k + 1)) * w = n * w - (k + 1) * w
  OBVIOUS
<1> QED BY <1>1, <1>2

\* Places of size w do not overlap.
LEMMA Apart ==
    ASSUME NEW w \in Nat, w > 0, NEW k \in Nat, NEW l \in Nat, NEW i \in 0..w - 1
    PROVE  /\ (k = l <=> (l * w <= k * w + i /\ k * w + i < l * w + w))
           /\ (k < l => k * w + i < l * w) /\ (k > l => k * w + i >= l * w + w)
<1>1. k < l => k * w + w <= l * w
  <2>1. k < l => (l - (k + 1)) * w >= 0
    OBVIOUS
  <2>2. (l - (k + 1)) * w = l * w - k * w - w
    OBVIOUS
  <2> QED BY <2>1, <2>2
<1>2. k > l => l * w + w <= k * w
  <2>1. k > l => (k - (l + 1)) * w >= 0
    OBVIOUS
  <2>2. (k - (l + 1)) * w = k * w - l * w - w
    OBVIOUS
  <2> QED BY <2>1, <2>2
<1>3. k * w \in Nat /\ l * w \in Nat
  OBVIOUS
<1> QED BY <1>1, <1>2, <1>3

-----------------------------------------------------------------------------
(* The pixels of the frame buffer *)

\* The place of a pixel in the frame buffer, and of one in the line above.
LEMMA Places ==
    ASSUME NEW px \in 0..GridWidth - 1, NEW py \in 0..GridHeight - 1
    PROVE  px + py * GridWidth \in 0..GridWidth * GridHeight - 1
<1>1. px \in Nat /\ py \in Nat /\ GridWidth \in Nat /\ GridHeight \in Nat /\ GridWidth > 0
  BY GridSizes
<1>2. py * GridWidth \in Nat /\ py * GridWidth + GridWidth <= GridHeight * GridWidth
  BY <1>1, Multiples
<1>3. GridHeight * GridWidth = GridWidth * GridHeight /\ GridWidth * GridHeight \in Nat
  BY <1>1
<1> HIDE DEF Rows, Cols
<1> QED BY <1>1, <1>2, <1>3

\* What is drawn at the cursor, a pixel at a time: what lies beyond the right
\* edge is at the left of the next line.
LEMMA DrawnPixel ==
    ASSUME NEW s, DOMAIN s = {"x", "y", "zoom", "fb"}, s.zoom = GridZoom,
           s.x \in 0..GridWidth, s.y \in Nat,
           NEW g, NEW px \in 0..GridWidth - 1, NEW py \in 0..GridHeight - 1,
           NEW i, i = IF px >= s.x THEN px - s.x ELSE px - s.x + GridWidth,
           NEW j, j = IF px >= s.x THEN py - s.y ELSE py - s.y - 1
    PROVE  Pixel(Small!draw_char(s, g), px, py) =
               IF i < GW /\ j \in 0..GH - 1 THEN Small!Dot(g, i, j, GridZoom) ELSE Pixel(s, px, py)
<1> DEFINE o == px + py * GridWidth
           a == s.x + s.y * GridWidth
<1>1. /\ px \in Nat /\ py \in Nat /\ GridWidth \in Nat /\ GridWidth > 0 /\ GH \in Nat /\ s.x \in Nat
      /\ i \in 0..GridWidth - 1 /\ j \in Int
  BY GridSizes
<1>2. o \in 0..GridWidth * GridHeight - 1
  BY Places
<1>3. o - a = i + j * GridWidth
  <2>1. (py - s.y) * GridWidth = py * GridWidth - s.y * GridWidth
    BY <1>1
  <2>2. (py - s.y - 1) * GridWidth = py * GridWidth - s.y * GridWidth - GridWidth
    BY <1>1
  <2>3. py * GridWidth \in Int /\ s.y * GridWidth \in Int
    BY <1>1
  <2> QED BY <1>1, <2>1, <2>2, <2>3
<1>4. (i + j * GridWidth) % GridWidth = i /\ (i + j * GridWidth) \div GridWidth = j /\ (i + j * GridWidth >= 0 <=> j >= 0)
  BY <1>1, Euclid
<1>5. a \in Int /\ o \in Int
  BY <1>1
<1>6. (o - a) % GridWidth = i /\ (o - a) \div GridWidth = j /\ (o >= a <=> j >= 0)
  <2> HIDE DEF o, a
  <2>1. o >= a <=> o - a >= 0
    BY <1>5
  <2> QED BY <1>3, <1>4, <2>1
<1>7. Small!Offset(s.x, s.y) = a /\ Small!CellW(s) = GW /\ Small!CellH(s) = GH
  BY DEF Small!Offset, Small!CellW, Small!CellH, GW, GH
<1>8. Small!draw_char(s, g).fb[o] =
          IF o >= a /\ (o - a) % GridWidth < GW /\ (o - a) \div GridWidth < GH
          THEN Small!Dot(g, (o - a) % GridWidth, (o - a) \div GridWidth, GridZoom)
          ELSE s.fb[o]
  <2> HIDE DEF o, a
  <2> QED BY <1>2, <1>7 DEF Small!draw_char
<1>9. j \in 0..GH - 1 <=> j >= 0 /\ j < GH
  BY <1>1
<1> HIDE DEF a
<1> QED BY <1>6, <1>8, <1>9 DEF Pixel

\* The rest of the console is as it was.
LEMMA DrawnRest ==
    ASSUME NEW s, DOMAIN s = {"x", "y", "zoom", "fb"}, NEW g,
           NEW t, t = Small!draw_char(s, g)
    PROVE  DOMAIN t = {"x", "y", "zoom", "fb"} /\ t.x = s.x /\ t.y = s.y /\ t.zoom = s.zoom
BY DEF Small!draw_char

\* A scroll takes each line of pixels up by a cell, and leaves blank lines below.
LEMMA ScrolledPixel ==
    ASSUME NEW s, DOMAIN s = {"x", "y", "zoom", "fb"}, s.zoom = GridZoom,
           NEW px \in 0..GridWidth - 1, NEW py \in 0..GridHeight - 1
    PROVE  Pixel(Small!scroll_screen(s), px, py) =
               IF py < GridHeight - GH THEN Pixel(s, px, py + GH) ELSE Blank
<1> DEFINE o == px + py * GridWidth
           last == GridHeight - GH
<1>1. /\ px \in Nat /\ py \in Nat /\ GridWidth \in Nat /\ GridWidth > 0 /\ GH \in Nat /\ GridHeight \in Nat
      /\ last \in Nat
  BY GridSizes
<1>2. o \in 0..GridWidth * GridHeight - 1
  BY Places
<1>3. o < last * GridWidth <=> py < last
  BY <1>1, Apart
<1>4. o + GH * GridWidth = px + (py + GH) * GridWidth
  BY <1>1
<1>5. ~(o >= GridHeight * GridWidth)
  <2>1. GridHeight * GridWidth = GridWidth * GridHeight /\ GridWidth * GridHeight \in Int
    BY <1>1
  <2> HIDE DEF o
  <2> QED BY <1>2, <2>1
<1>6. Small!CellH(s) = GH
  BY DEF Small!CellH, GH
<1>7. Small!scroll_screen(s).fb[o] = IF o < last * GridWidth THEN s.fb[o + GH * GridWidth] ELSE Blank
  <2> HIDE DEF o
  <2> QED BY <1>2, <1>5, <1>6 DEF Small!scroll_screen
<1> HIDE DEF last
<1> QED BY <1>3, <1>4, <1>7 DEF Pixel, last

\* A scroll leaves the cursor to Scrolled.
LEMMA ScrolledRest ==
    ASSUME NEW s, DOMAIN s = {"x", "y", "zoom", "fb"}, NEW t, t = Small!scroll_screen(s)
    PROVE  DOMAIN t = {"x", "y", "zoom", "fb"} /\ t.x = s.x /\ t.y = s.y /\ t.zoom = s.zoom
BY DEF Small!scroll_screen

\* Every pixel of a clear screen is blank.
LEMMA ClearedPixel ==
    ASSUME NEW s, DOMAIN s = {"x", "y", "zoom", "fb"}, NEW t, t = Small!vd_clear_screen(s)
    PROVE  /\ DOMAIN t = {"x", "y", "zoom", "fb"} /\ t.x = 0 /\ t.y = 0 /\ t.zoom = s.zoom
           /\ \A px \in 0..GridWidth - 1, py \in 0..GridHeight - 1 : Pixel(t, px, py) = Blank
<1>1. DOMAIN t = {"x", "y", "zoom", "fb"} /\ t.x = 0 /\ t.y = 0 /\ t.zoom = s.zoom
  BY DEF Small!vd_clear_screen
<1>2. ASSUME NEW px \in 0..GridWidth - 1, NEW py \in 0..GridHeight - 1 PROVE Pixel(t, px, py) = Blank
  <2> DEFINE o == px + py * GridWidth
  <2>1. o \in 0..GridWidth * GridHeight - 1
    BY Places
  <2>2. GridWidth * GridHeight \in Int
    BY GridSizes
  <2> HIDE DEF o
  <2>3. o < GridWidth * GridHeight
    BY <2>1, <2>2
  <2>4. t.fb[o] = Blank
    BY <2>1, <2>3 DEF Small!vd_clear_screen
  <2> QED BY <2>4 DEF Pixel, o
<1> QED BY <1>1, <1>2

-----------------------------------------------------------------------------
(* The cells *)

\* The pixels of a cell lie on the screen, and in its columns and lines.
LEMMA CellPixels ==
    ASSUME NEW r \in 0..Rows - 1, NEW c \in 0..Cols - 1, NEW i \in 0..GW - 1, NEW j \in 0..GH - 1
    PROVE  /\ c * GW \in Nat /\ r * GH \in Nat
           /\ c * GW + i \in 0..GridWidth - 1 /\ r * GH + j \in 0..GridHeight - 1
           /\ c * GW + GW <= Cols * GW /\ r * GH + GH <= Rows * GH
           /\ (c + 1) * GW = c * GW + GW /\ (r + 1) * GH = r * GH + GH
<1>1. GW \in Nat /\ GH \in Nat /\ Rows \in Nat /\ Cols \in Nat /\ GridWidth \in Nat /\ GridHeight \in Nat
      /\ Rows * GH <= GridHeight /\ Cols * GW <= GridWidth
      /\ Rows * GH \in Nat /\ Cols * GW \in Nat
  BY GridSizes
<1>2. c * GW \in Nat /\ (c + 1) * GW = c * GW + GW /\ c * GW + GW <= Cols * GW
  BY <1>1, Multiples
<1>3. r * GH \in Nat /\ (r + 1) * GH = r * GH + GH /\ r * GH + GH <= Rows * GH
  BY <1>1, Multiples
<1> HIDE DEF GW, GH, Rows, Cols
<1> QED BY <1>1, <1>2, <1>3

\* A pixel of one cell is in another if the cells are the same.
LEMMA PixelOfCell ==
    ASSUME NEW r \in 0..Rows - 1, NEW c \in 0..Cols - 1, NEW q \in 0..Rows - 1, NEW d \in 0..Cols - 1,
           NEW i \in 0..GW - 1, NEW j \in 0..GH - 1,
           NEW px, px = d * GW + i, NEW py, py = q * GH + j
    PROVE  /\ px \in 0..GridWidth - 1 /\ py \in 0..GridHeight - 1
           /\ (px - c * GW \in 0..GW - 1) <=> (d = c)
           /\ (py - r * GH \in 0..GH - 1) <=> (q = r)
           /\ (d = c) => (px - c * GW = i)
           /\ (q = r) => (py - r * GH = j)
<1> DEFINE x == c * GW
           y == r * GH
<1>1. /\ px \in 0..GridWidth - 1 /\ py \in 0..GridHeight - 1
      /\ d * GW \in Nat /\ q * GH \in Nat /\ x \in Nat /\ y \in Nat
  BY CellPixels
<1>2. GW \in Nat /\ GW > 0 /\ GH \in Nat /\ GH > 0 /\ i \in Nat /\ j \in Nat /\ Rows \in Nat /\ Cols \in Nat
  BY GridSizes
<1>3. (d = c) <=> (x <= px /\ px < x + GW)
  BY <1>2, Apart
<1>4. (q = r) <=> (y <= py /\ py < y + GH)
  BY <1>2, Apart
<1>5. (d = c) => (px = x + i)
  OBVIOUS
<1>6. (q = r) => (py = y + j)
  OBVIOUS
<1> HIDE DEF x, y
<1>7. px \in Int /\ py \in Int
  BY <1>1, <1>2
<1>8. (px - x \in 0..GW - 1) <=> (d = c)
  BY <1>1, <1>2, <1>3, <1>7
<1>9. (py - y \in 0..GH - 1) <=> (q = r)
  BY <1>1, <1>2, <1>4, <1>7
<1>10. ((d = c) => (px - x = i)) /\ ((q = r) => (py - y = j))
  BY <1>1, <1>2, <1>5, <1>6
<1> QED BY <1>1, <1>8, <1>9, <1>10 DEF x, y

\* A cell with the same pixels shows the same.
LEMMA SameCell ==
    ASSUME NEW s, NEW t, NEW r, NEW c, NEW q, NEW d,
           \A i \in 0..GW - 1, j \in 0..GH - 1 :
               Pixel(t, c * GW + i, r * GH + j) = Pixel(s, d * GW + i, q * GH + j)
    PROVE  ShownIn(t, r, c) = ShownIn(s, q, d)
<1>1. \A g : ShowsAt(t, r, c, g) <=> ShowsAt(s, q, d, g)
  BY DEF ShowsAt
<1> QED BY <1>1 DEF ShownIn

\* The first dot of a glyph.
LEMMA FirstDot ==
    /\ 0 \in 0..GW - 1 /\ 0 \in 0..GH - 1 /\ 1 \in 0..GH - 1
    /\ \A g : Small!Dot(g, 0, 0, GridZoom) = IF g = Space THEN Blank ELSE <<g, 0, 0>>
<1>1. GW \in Nat /\ GW > 0 /\ GH \in Nat /\ GH >= 2 /\ GridZoom \in Nat /\ GridZoom > 0
  BY GridSizes
<1>2. 0 \div GridZoom = 0
  BY <1>1
<1> QED BY <1>1, <1>2 DEF Small!Dot

\* The dots of a letter are not blank.
LEMMA LetterDots ==
    ASSUME NEW g \in Letters, NEW i \in 0..GW - 1, NEW j \in 0..GH - 1
    PROVE  Small!Dot(g, i, j, GridZoom) # Blank
<1>1. ASSUME NEW n \in Nat, NEW k \in 0..n PROVE k \div GridZoom \in 0..n
  <2> DEFINE q == k \div GridZoom
             m == k % GridZoom
  <2>1. GridZoom \in Nat /\ GridZoom > 0 /\ k \in Nat
    BY GridAssumption
  <2>2. q \in Int /\ m \in 0..GridZoom - 1 /\ k = GridZoom * q + m
    BY <2>1
  <2>3. q >= 1 => GridZoom * q >= q
    BY <2>1, <2>2
  <2>4. q <= -1 => GridZoom * q <= -GridZoom
    BY <2>1, <2>2
  <2>5. GridZoom * q \in Int
    BY <2>1, <2>2
  <2> HIDE DEF q, m
  <2>6. q >= 0
    BY <2>1, <2>2, <2>4, <2>5
  <2>7. q <= n
    BY <2>1, <2>2, <2>3, <2>5
  <2> QED BY <2>2, <2>6, <2>7 DEF q
<1>2. i \in 0..GridWidth /\ j \in 0..GridHeight /\ GridWidth \in Nat /\ GridHeight \in Nat
  BY GridSizes
<1>3. i \div GridZoom \in 0..GridWidth /\ j \div GridZoom \in 0..GridHeight
  BY <1>1, <1>2
<1> QED BY <1>3, GridAssumption, ConsoleAssumption DEF Small!Dot

\* A cell that shows a glyph shows no other.
LEMMA OneGlyph ==
    ASSUME NEW s, NEW r, NEW c, NEW g \in Glyphs, ShowsAt(s, r, c, g)
    PROVE  ShownIn(s, r, c) = g
<1>1. ASSUME NEW h \in Glyphs, ShowsAt(s, r, c, h) PROVE h = g
  <2>1. Small!Dot(h, 0, 0, GridZoom) = Small!Dot(g, 0, 0, GridZoom)
    BY <1>1, FirstDot DEF ShowsAt
  <2>2. Small!Dot(h, 0, 0, GridZoom) = IF h = Space THEN Blank ELSE <<h, 0, 0>>
    BY FirstDot
  <2>3. Small!Dot(g, 0, 0, GridZoom) = IF g = Space THEN Blank ELSE <<g, 0, 0>>
    BY FirstDot
  <2>4. \A l \in Letters : Blank # <<l, 0, 0>>
    <3>1. 0 \in 0..GridWidth /\ 0 \in 0..GridHeight
      BY GridAssumption
    <3> QED BY <3>1, GridAssumption
  <2> QED BY <2>1, <2>2, <2>3, <2>4 DEF Glyphs
<1> QED BY <1>1 DEF ShownIn

\* A cell of blank pixels shows a space.
LEMMA BlankCell ==
    ASSUME NEW s, NEW r, NEW c,
           \A i \in 0..GW - 1, j \in 0..GH - 1 : Pixel(s, c * GW + i, r * GH + j) = Blank
    PROVE  ShownIn(s, r, c) = Space
<1>1. ShowsAt(s, r, c, Space)
  BY DEF ShowsAt, Small!Dot
<1> QED BY <1>1, OneGlyph DEF Glyphs

\* A cell with a blank pixel shows no letter.
LEMMA SpoiltCell ==
    ASSUME NEW s, NEW r, NEW c, NEW i \in 0..GW - 1, NEW j \in 0..GH - 1,
           Pixel(s, c * GW + i, r * GH + j) = Blank
    PROVE  ShownIn(s, r, c) \in {Space, "damaged"}
<1>1. \A g \in Letters : ~ShowsAt(s, r, c, g)
  BY LetterDots DEF ShowsAt
<1> QED BY <1>1, OneGlyph DEF ShownIn, Glyphs

-----------------------------------------------------------------------------
(* Drawing, scrolling and clearing, in cells *)

\* A glyph drawn in a cell changes that cell alone, and no line below the cells.
LEMMA DrawnCell ==
    ASSUME NEW r, NEW c, NEW s, AtCell(s, r, c), NEW g \in Glyphs,
           NEW t, t = Small!draw_char(s, g)
    PROVE  AtCell(t, r, c) /\ Cells(t) = [Cells(s) EXCEPT ![<<r, c>>] = g]
<1>1. /\ DOMAIN s = {"x", "y", "zoom", "fb"} /\ s.zoom = GridZoom /\ r \in 0..Rows - 1 /\ c \in 0..Cols - 1
      /\ s.x = c * GW /\ s.y = r * GH
      /\ \A px \in 0..GridWidth - 1, py \in Rows * GH..GridHeight - 1 : Pixel(s, px, py) = Blank
  BY DEF AtCell, CursorAt
<1>2. /\ GW \in Nat /\ GW > 0 /\ GH \in Nat /\ GH >= 2 /\ Rows \in Nat /\ Cols \in Nat
      /\ GridWidth \in Nat /\ GridHeight \in Nat
      /\ Rows * GH \in Nat /\ Cols * GW \in Nat /\ Rows * GH <= GridHeight /\ Cols * GW <= GridWidth
  BY GridSizes
<1>3. /\ c * GW \in Nat /\ r * GH \in Nat /\ c * GW + GW <= Cols * GW /\ r * GH + GH <= Rows * GH
  BY <1>1, <1>2, Multiples
<1>4. DOMAIN t = {"x", "y", "zoom", "fb"} /\ t.x = s.x /\ t.y = s.y /\ t.zoom = s.zoom
  BY <1>1, DrawnRest
<1>5. ASSUME NEW px \in 0..GridWidth - 1, NEW py \in 0..GridHeight - 1
      PROVE  Pixel(t, px, py) =
                 IF px - c * GW \in 0..GW - 1 /\ py - r * GH \in 0..GH - 1
                 THEN Small!Dot(g, px - c * GW, py - r * GH, GridZoom) ELSE Pixel(s, px, py)
  <2> DEFINE i == IF px >= s.x THEN px - s.x ELSE px - s.x + GridWidth
             j == IF px >= s.x THEN py - s.y ELSE py - s.y - 1
  <2>1. s.x \in 0..GridWidth /\ s.y \in Nat
    BY <1>1, <1>2, <1>3
  <2>2. Pixel(t, px, py) =
            IF i < GW /\ j \in 0..GH - 1 THEN Small!Dot(g, i, j, GridZoom) ELSE Pixel(s, px, py)
    BY <1>1, <2>1, DrawnPixel
  <2>3. CASE px >= c * GW
    <3>1. i = px - c * GW /\ j = py - r * GH /\ i >= 0
      BY <1>1, <1>3, <2>3
    <3>2. i < GW <=> px - c * GW \in 0..GW - 1
      BY <1>2, <1>3, <3>1
    <3> HIDE DEF i, j
    <3> QED BY <2>2, <3>1, <3>2
  <2>4. CASE px < c * GW
    <3>1. i = px - c * GW + GridWidth
      BY <1>1, <1>3, <2>4
    <3>2. ~(i < GW) /\ px - c * GW \notin 0..GW - 1
      <4> HIDE DEF i
      <4> QED BY <1>2, <1>3, <2>4, <3>1
    <3> HIDE DEF i, j
    <3> QED BY <2>2, <3>2
  <2> QED BY <1>3, <2>3, <2>4
<1>6. AtCell(t, r, c)
  <2>1. ASSUME NEW px \in 0..GridWidth - 1, NEW py \in Rows * GH..GridHeight - 1 PROVE Pixel(t, px, py) = Blank
    <3>1. py \in 0..GridHeight - 1 /\ py - r * GH \notin 0..GH - 1
      BY <1>2, <1>3
    <3> QED BY <1>1, <1>5, <3>1
  <2> QED BY <1>1, <1>4, <2>1 DEF AtCell, CursorAt
<1>7. ASSUME NEW q \in 0..Rows - 1, NEW d \in 0..Cols - 1
      PROVE  ShownIn(t, q, d) = IF q = r /\ d = c THEN g ELSE ShownIn(s, q, d)
  <2>2. CASE q = r /\ d = c
    <3>1. ASSUME NEW i \in 0..GW - 1, NEW j \in 0..GH - 1
          PROVE  Pixel(t, d * GW + i, q * GH + j) = Small!Dot(g, i, j, GridZoom)
      <4> DEFINE px == d * GW + i
                 py == q * GH + j
      <4>1. /\ px \in 0..GridWidth - 1 /\ py \in 0..GridHeight - 1
            /\ px - c * GW = i /\ py - r * GH = j /\ i \in 0..GW - 1 /\ j \in 0..GH - 1
        BY <1>1, <2>2, PixelOfCell
      <4> HIDE DEF px, py
      <4>2. Pixel(t, px, py) = Small!Dot(g, i, j, GridZoom)
        BY <1>5, <4>1
      <4> QED BY <4>2 DEF px, py
    <3>2. ShowsAt(t, q, d, g)
      BY <3>1 DEF ShowsAt
    <3> QED BY <2>2, <3>2, OneGlyph
  <2>3. CASE ~(q = r /\ d = c)
    <3>1. ASSUME NEW i \in 0..GW - 1, NEW j \in 0..GH - 1
          PROVE  Pixel(t, d * GW + i, q * GH + j) = Pixel(s, d * GW + i, q * GH + j)
      <4> DEFINE px == d * GW + i
                 py == q * GH + j
      <4>1. /\ px \in 0..GridWidth - 1 /\ py \in 0..GridHeight - 1
            /\ ~(px - c * GW \in 0..GW - 1 /\ py - r * GH \in 0..GH - 1)
        BY <1>1, <2>3, PixelOfCell
      <4> HIDE DEF px, py
      <4>2. Pixel(t, px, py) = Pixel(s, px, py)
        BY <1>5, <4>1
      <4> QED BY <4>2 DEF px, py
    <3> QED BY <2>3, <3>1, SameCell
  <2> QED BY <2>2, <2>3
<1>8. Cells(t) = [Cells(s) EXCEPT ![<<r, c>>] = g]
  <2>1. ASSUME NEW p \in Place
        PROVE  ShownIn(t, p[1], p[2]) = IF p = <<r, c>> THEN g ELSE ShownIn(s, p[1], p[2])
    <3>1. p[1] \in 0..Rows - 1 /\ p[2] \in 0..Cols - 1 /\ (p = <<r, c>> <=> p[1] = r /\ p[2] = c)
      BY DEF Place
    <3> QED BY <1>7, <3>1
  <2>2. DOMAIN Cells(s) = Place /\ \A p \in Place : Cells(s)[p] = ShownIn(s, p[1], p[2])
    BY DEF Cells
  <2>3. Cells(t) = [p \in Place |-> IF p = <<r, c>> THEN g ELSE Cells(s)[p]]
    BY <2>1, <2>2 DEF Cells
  <2> QED BY <2>2, <2>3
<1> QED BY <1>6, <1>8

\* A cursor that moves changes no cell.
LEMMA SamePixels ==
    ASSUME NEW s, NEW t, t.fb = s.fb
    PROVE  Cells(t) = Cells(s) /\ \A px, py : Pixel(t, px, py) = Pixel(s, px, py)
<1>1. \A px, py : Pixel(t, px, py) = Pixel(s, px, py)
  BY DEF Pixel
<1>2. \A r, c : ShownIn(t, r, c) = ShownIn(s, r, c)
  BY <1>1, SameCell
<1> QED BY <1>1, <1>2 DEF Cells

\* CursorAt a cell there is nothing to wrap and nothing to scroll.
LEMMA CellSettled ==
    ASSUME NEW r, NEW c, NEW s, AtCell(s, r, c)
    PROVE  Small!Wrapped(s) = s /\ Small!Scrolled(s) = s
<1>1. r \in 0..Rows - 1 /\ c \in 0..Cols - 1 /\ s.x = c * GW /\ s.y = r * GH /\ s.zoom = GridZoom
  BY DEF AtCell, CursorAt
<1>2. Small!CellW(s) = GW /\ Small!CellH(s) = GH
  BY <1>1 DEF Small!CellW, Small!CellH, GW, GH
<1>3. c * GW + GW <= Cols * GW /\ c * GW \in Nat /\ r * GH + GH <= Rows * GH /\ r * GH \in Nat
  BY <1>1, GridSizes, Multiples
<1>4. ~(s.x + GW > GridWidth) /\ ~(s.y + GH > GridHeight)
  <2> HIDE DEF GW, GH, Rows, Cols
  <2> QED BY <1>1, <1>3, GridSizes
<1> QED BY <1>2, <1>4 DEF Small!Scrolled, Small!Wrapped

\* A cursor taken to the line after line r is there, on the screen; if need be the
\* cells scroll, and the blank lines below them enter the last line of cells.
LEMMA NextLine ==
    ASSUME NEW r \in 0..Rows - 1, NEW s, CursorAt(s, 0, r * GH + GH), NEW t, t = Small!Scrolled(s)
    PROVE  AtCell(t, Below(r), 0) /\ Cells(t) = Fed(r, Cells(s))
<1>1. /\ DOMAIN s = {"x", "y", "zoom", "fb"} /\ s.zoom = GridZoom /\ s.x = 0 /\ s.y = r * GH + GH
      /\ \A px \in 0..GridWidth - 1, py \in Rows * GH..GridHeight - 1 : Pixel(s, px, py) = Blank
  BY DEF CursorAt
<1>2. /\ GW \in Nat /\ GW > 0 /\ GH \in Nat /\ GH >= 2 /\ Rows \in Nat /\ Rows >= 2 /\ Cols \in Nat /\ Cols >= 2
      /\ GridWidth \in Nat /\ GridHeight \in Nat
      /\ Rows * GH \in Nat /\ Rows * GH <= GridHeight /\ GridHeight < Rows * GH + GH
  BY GridSizes
<1>3. r * GH \in Nat /\ r * GH + GH <= Rows * GH /\ (r + 1) * GH = r * GH + GH
  BY <1>2, Multiples
<1>4. Small!CellH(s) = GH
  BY <1>1 DEF Small!CellH, GH
<1>5. 0 \in 0..Cols - 1 /\ 0 * GW = 0
  BY <1>2
<1>6. CASE r + 1 < Rows
  <2>1. r + 1 \in 0..Rows - 1
    BY <1>2, <1>6
  <2>2. (r + 1) * GH + GH <= Rows * GH
    BY <1>2, <2>1, Multiples
  <2>3. ~(s.y + GH > GridHeight)
    <3> HIDE DEF GH, Rows
    <3> QED BY <1>1, <1>2, <1>3, <2>2
  <2>4. t = s
    BY <1>4, <2>3 DEF Small!Scrolled
  <2> QED BY <1>1, <1>3, <1>5, <1>6, <2>1, <2>4 DEF AtCell, CursorAt, Below, Fed
<1>7. CASE ~(r + 1 < Rows)
  <2> DEFINE u == Small!scroll_screen(s)
  <2>1. r + 1 = Rows /\ r * GH + GH = Rows * GH
    BY <1>2, <1>3, <1>7
  <2>2. t = [u EXCEPT !.y = @ - GH]
    <3>1. s.y + GH > GridHeight
      <4> HIDE DEF GH, Rows
      <4> QED BY <1>1, <1>2, <2>1
    <3> QED BY <1>4, <3>1 DEF Small!Scrolled
  <2>3. DOMAIN u = {"x", "y", "zoom", "fb"} /\ u.x = s.x /\ u.y = s.y /\ u.zoom = s.zoom
    BY <1>1, ScrolledRest
  <2>4. /\ DOMAIN t = {"x", "y", "zoom", "fb"} /\ t.zoom = GridZoom /\ t.x = 0
        /\ t.y = s.y - GH /\ t.fb = u.fb
    <3> HIDE DEF u
    <3> QED BY <1>1, <2>2, <2>3
  <2>5. t.y = r * GH
    <3> HIDE DEF GH
    <3> QED BY <1>1, <1>2, <1>3, <2>4
  <2>6. ASSUME NEW px \in 0..GridWidth - 1, NEW py \in 0..GridHeight - 1
        PROVE  Pixel(t, px, py) = IF py < GridHeight - GH THEN Pixel(s, px, py + GH) ELSE Blank
    <3>1. Pixel(u, px, py) = IF py < GridHeight - GH THEN Pixel(s, px, py + GH) ELSE Blank
      BY <1>1, ScrolledPixel
    <3> QED BY <2>4, <3>1 DEF Pixel
  <2>7. ASSUME NEW px \in 0..GridWidth - 1, NEW py \in r * GH..GridHeight - 1
        PROVE  Pixel(t, px, py) = Blank
    <3> HIDE DEF u
    <3>1. py \in 0..GridHeight - 1 /\ py \in Int
      BY <1>2, <1>3
    <3>2. py < GridHeight - GH => py + GH \in Rows * GH..GridHeight - 1
      <4> HIDE DEF GH, Rows
      <4> QED BY <1>2, <1>3, <2>1, <3>1
    <3> QED BY <1>1, <2>6, <3>1, <3>2
  <2>8. AtCell(t, r, 0)
    <3>1. ASSUME NEW px \in 0..GridWidth - 1, NEW py \in Rows * GH..GridHeight - 1 PROVE Pixel(t, px, py) = Blank
      <4>1. py \in r * GH..GridHeight - 1
        <5> HIDE DEF GH, Rows
        <5> QED BY <1>2, <1>3, <2>1
      <4> QED BY <2>7, <4>1
    <3> QED BY <1>5, <2>4, <2>5, <3>1 DEF AtCell, CursorAt
  <2>9. ASSUME NEW q \in 0..Rows - 1, NEW d \in 0..Cols - 1
        PROVE  ShownIn(t, q, d) = IF q + 1 < Rows THEN ShownIn(s, q + 1, d) ELSE Space
    <3>1. CASE q + 1 < Rows
      <4>1. q + 1 \in 0..Rows - 1 /\ (q + 1) * GH = q * GH + GH /\ q * GH \in Nat
        BY <1>2, <3>1, Multiples
      <4>2. (q + 1) * GH + GH <= Rows * GH
        BY <1>2, <4>1, Multiples
      <4>3. ASSUME NEW i \in 0..GW - 1, NEW j \in 0..GH - 1
            PROVE  Pixel(t, d * GW + i, q * GH + j) = Pixel(s, d * GW + i, (q + 1) * GH + j)
        <5> DEFINE px == d * GW + i
                   py == q * GH + j
        <5>1. px \in 0..GridWidth - 1 /\ py \in 0..GridHeight - 1
          BY CellPixels
        <5>2. j \in Int /\ j < GH /\ (q + 1) * GH + j = py + GH
          BY <1>2, <4>1
        <5>3. py < GridHeight - GH
          <6>1. py = q * GH + j
            OBVIOUS
          <6> HIDE DEF py, GH, Rows
          <6> QED BY <1>2, <4>1, <4>2, <5>2, <6>1
        <5> HIDE DEF px, py
        <5>4. Pixel(t, px, py) = Pixel(s, px, py + GH)
          BY <2>6, <5>1, <5>3
        <5> QED BY <5>2, <5>4 DEF px, py
      <4> QED BY <3>1, <4>3, SameCell
    <3>2. CASE ~(q + 1 < Rows)
      <4>1. q = r
        BY <1>2, <1>7, <3>2
      <4>2. ASSUME NEW i \in 0..GW - 1, NEW j \in 0..GH - 1
            PROVE  Pixel(t, d * GW + i, q * GH + j) = Blank
        <5> DEFINE px == d * GW + i
                   py == q * GH + j
        <5>1. px \in 0..GridWidth - 1 /\ py \in 0..GridHeight - 1
          BY CellPixels
        <5>2. py >= r * GH /\ py \in Int
          BY <1>2, <1>3, <4>1
        <5> HIDE DEF px, py
        <5>3. py \in r * GH..GridHeight - 1
          BY <1>2, <1>3, <5>1, <5>2
        <5>4. Pixel(t, px, py) = Blank
          BY <2>7, <5>1, <5>3
        <5> QED BY <5>4 DEF px, py
      <4> QED BY <3>2, <4>2, BlankCell
    <3> QED BY <3>1, <3>2
  <2>10. Cells(t) = Fed(r, Cells(s))
    <3>1. ASSUME NEW p \in Place
          PROVE  ShownIn(t, p[1], p[2]) = IF p[1] + 1 < Rows THEN Cells(s)[<<p[1] + 1, p[2]>>] ELSE Space
      <4>1. p[1] \in 0..Rows - 1 /\ p[2] \in 0..Cols - 1
        BY DEF Place
      <4>2. p[1] + 1 < Rows => <<p[1] + 1, p[2]>> \in Place
        BY <1>2, <4>1 DEF Place
      <4>3. p[1] + 1 < Rows => Cells(s)[<<p[1] + 1, p[2]>>] = ShownIn(s, p[1] + 1, p[2])
        BY <4>2 DEF Cells
      <4> QED BY <2>9, <4>1, <4>3
    <3>2. Cells(t) = [p \in Place |-> IF p[1] + 1 < Rows THEN Cells(s)[<<p[1] + 1, p[2]>>] ELSE Space]
      BY <3>1 DEF Cells
    <3> QED BY <1>7, <3>2 DEF Fed
  <2> QED BY <1>7, <2>8, <2>10 DEF Below
<1> QED BY <1>6, <1>7

-----------------------------------------------------------------------------
(* Characters *)

\* A letter or a space: it is put into the cell at the cursor, which advances.
LEMMA GlyphWritten ==
    ASSUME NEW r, NEW c, NEW s, AtCell(s, r, c), NEW g \in Glyphs,
           NEW t, t = Small!vd_put_char(s, g),
           NEW put, put = [Cells(s) EXCEPT ![<<r, c>>] = g]
    PROVE  IF c + 1 < Cols
           THEN AtCell(t, r, c + 1) /\ Cells(t) = put
           ELSE AtCell(t, Below(r), 0) /\ Cells(t) = Fed(r, put)
<1> DEFINE drawn == Small!draw_char(s, g)
           u == [drawn EXCEPT !.x = @ + GW]
<1>1. /\ GW \in Nat /\ GW > 0 /\ GH \in Nat /\ Cols \in Nat /\ GridWidth \in Nat
      /\ Cols * GW <= GridWidth /\ GridWidth < Cols * GW + GW
  BY GridSizes
<1>2. AtCell(drawn, r, c) /\ Cells(drawn) = put
  BY DrawnCell
<1>3. /\ r \in 0..Rows - 1 /\ c \in 0..Cols - 1
      /\ DOMAIN s = {"x", "y", "zoom", "fb"} /\ s.zoom = GridZoom
  BY DEF AtCell, CursorAt
<1>4. c * GW \in Nat /\ (c + 1) * GW = c * GW + GW
  BY <1>1, <1>3, Multiples
<1>5. Small!Moved(s, g) = u
  <2>1. g # NewLine /\ g # Backspace
    BY ConsoleAssumption DEF Glyphs
  <2>2. Small!CellW(s) = GW
    BY <1>3 DEF Small!CellW, GW
  <2> QED BY <2>1, <2>2 DEF Small!Moved
<1> HIDE DEF drawn
<1>6. CursorAt(u, (c + 1) * GW, r * GH) /\ Cells(u) = put
  <2>1. /\ DOMAIN drawn = {"x", "y", "zoom", "fb"} /\ drawn.zoom = GridZoom
        /\ drawn.x = c * GW /\ drawn.y = r * GH
        /\ \A px \in 0..GridWidth - 1, py \in Rows * GH..GridHeight - 1 : Pixel(drawn, px, py) = Blank
    BY <1>2 DEF AtCell, CursorAt
  <2>2. /\ DOMAIN u = {"x", "y", "zoom", "fb"} /\ u.zoom = GridZoom
        /\ u.x = c * GW + GW /\ u.y = r * GH /\ u.fb = drawn.fb
    BY <2>1
  <2> HIDE DEF u
  <2> QED BY <1>2, <1>4, <2>1, <2>2, SamePixels DEF CursorAt
<1>7. t = Small!Scrolled(Small!Wrapped(u))
  BY <1>5 DEF Small!vd_put_char
<1> HIDE DEF u
<1>8. CASE c + 1 < Cols
  <2>1. c + 1 \in 0..Cols - 1
    BY <1>1, <1>3, <1>8
  <2>2. AtCell(u, r, c + 1)
    BY <1>3, <1>6, <2>1 DEF AtCell
  <2> QED BY <1>6, <1>7, <1>8, <2>2, CellSettled
<1>9. CASE ~(c + 1 < Cols)
  <2> DEFINE w == [u EXCEPT !.x = 0, !.y = @ + GH]
  <2>1. c + 1 = Cols
    BY <1>1, <1>3, <1>9
  <2>2. /\ DOMAIN u = {"x", "y", "zoom", "fb"} /\ u.zoom = GridZoom /\ u.x = Cols * GW /\ u.y = r * GH
        /\ \A px \in 0..GridWidth - 1, py \in Rows * GH..GridHeight - 1 : Pixel(u, px, py) = Blank
    BY <1>6, <2>1 DEF CursorAt
  <2>3. Small!CellW(u) = GW /\ Small!CellH(u) = GH
    BY <2>2 DEF Small!CellW, Small!CellH, GW, GH
  <2>4. u.x + GW > GridWidth
    BY <1>1, <2>2
  <2>5. Small!Wrapped(u) = w
    BY <2>3, <2>4 DEF Small!Wrapped
  <2>6. DOMAIN w = {"x", "y", "zoom", "fb"} /\ w.zoom = GridZoom /\ w.x = 0 /\ w.y = r * GH + GH /\ w.fb = u.fb
    BY <2>2
  <2> HIDE DEF w
  <2>7. CursorAt(w, 0, r * GH + GH) /\ Cells(w) = put
    BY <1>6, <2>2, <2>6, SamePixels DEF CursorAt
  <2>8. t = Small!Scrolled(w)
    BY <1>7, <2>5
  <2>9. AtCell(t, Below(r), 0) /\ Cells(t) = Fed(r, Cells(w))
    BY <1>3, <2>7, <2>8, NextLine
  <2> QED BY <1>9, <2>7, <2>9
<1> QED BY <1>8, <1>9

\* A new line.
LEMMA NewLineWritten ==
    ASSUME NEW r, NEW c, NEW s, AtCell(s, r, c), NEW t, t = Small!vd_put_char(s, NewLine)
    PROVE  AtCell(t, Below(r), 0) /\ Cells(t) = Fed(r, Cells(s))
<1> DEFINE u == [s EXCEPT !.x = 0, !.y = @ + GH]
<1>1. /\ r \in 0..Rows - 1 /\ c \in 0..Cols - 1
      /\ DOMAIN s = {"x", "y", "zoom", "fb"} /\ s.zoom = GridZoom /\ s.y = r * GH
      /\ \A px \in 0..GridWidth - 1, py \in Rows * GH..GridHeight - 1 : Pixel(s, px, py) = Blank
  BY DEF AtCell, CursorAt
<1>2. Small!Moved(s, NewLine) = u
  <2>1. Small!CellH(s) = GH
    BY <1>1 DEF Small!CellH, GH
  <2>2. Backspace # NewLine
    BY ConsoleAssumption
  <2> QED BY <2>1, <2>2 DEF Small!Moved
<1>3. DOMAIN u = {"x", "y", "zoom", "fb"} /\ u.zoom = GridZoom /\ u.x = 0 /\ u.y = r * GH + GH /\ u.fb = s.fb
  BY <1>1
<1> HIDE DEF u
<1>4. CursorAt(u, 0, r * GH + GH) /\ Cells(u) = Cells(s)
  BY <1>1, <1>3, SamePixels DEF CursorAt
<1>5. Small!Wrapped(u) = u
  <2>1. Small!CellW(u) = GW
    BY <1>3 DEF Small!CellW, GW
  <2>2. ~(0 + GW > GridWidth)
    BY GridSizes
  <2> QED BY <1>3, <2>1, <2>2 DEF Small!Wrapped
<1>6. t = Small!Scrolled(u)
  BY <1>2, <1>5 DEF Small!vd_put_char
<1> QED BY <1>1, <1>4, <1>6, NextLine

\* A backspace erases the character before the cursor.
LEMMA CharacterErased ==
    ASSUME NEW r, NEW c, NEW s, AtCell(s, r, c), c > 0, NEW t, t = Small!vd_put_char(s, Backspace)
    PROVE  AtCell(t, r, c - 1) /\ Cells(t) = [Cells(s) EXCEPT ![<<r, c - 1>>] = Space]
<1> DEFINE u == [s EXCEPT !.x = @ - GW]
           drawn == Small!draw_char(u, Space)
<1>1. /\ r \in 0..Rows - 1 /\ c \in 0..Cols - 1
      /\ DOMAIN s = {"x", "y", "zoom", "fb"} /\ s.zoom = GridZoom /\ s.x = c * GW /\ s.y = r * GH
      /\ \A px \in 0..GridWidth - 1, py \in Rows * GH..GridHeight - 1 : Pixel(s, px, py) = Blank
  BY DEF AtCell, CursorAt
<1>2. c - 1 \in 0..Cols - 1 /\ GW \in Nat /\ Cols \in Nat
  BY <1>1, GridSizes
<1>3. (c - 1) * GW \in Nat /\ c * GW = (c - 1) * GW + GW
  <2>1. c = (c - 1) + 1
    BY <1>1, <1>2
  <2> QED BY <1>2, <2>1, Multiples
<1>4. Small!Moved(s, Backspace) = drawn
  <2>1. Small!CellW(s) = GW
    BY <1>1 DEF Small!CellW, GW
  <2>2. s.x >= GW
    BY <1>1, <1>2, <1>3
  <2>3. Backspace # NewLine
    BY ConsoleAssumption
  <2> QED BY <2>1, <2>2, <2>3 DEF Small!Moved, Small!Erased
<1>5. DOMAIN u = {"x", "y", "zoom", "fb"} /\ u.zoom = GridZoom /\ u.x = (c - 1) * GW /\ u.y = r * GH /\ u.fb = s.fb
  BY <1>1, <1>2, <1>3
<1> HIDE DEF u
<1>6. AtCell(u, r, c - 1) /\ Cells(u) = Cells(s)
  BY <1>1, <1>2, <1>5, SamePixels DEF AtCell, CursorAt
<1>7. AtCell(drawn, r, c - 1) /\ Cells(drawn) = [Cells(s) EXCEPT ![<<r, c - 1>>] = Space]
  BY <1>6, DrawnCell DEF Glyphs
<1> HIDE DEF drawn
<1>8. t = Small!Scrolled(Small!Wrapped(drawn))
  BY <1>4 DEF Small!vd_put_char
<1> QED BY <1>7, <1>8, CellSettled

\* A backspace at the left margin of a lower line erases a part of two cells.
LEMMA MarginSmudged ==
    ASSUME NEW r, NEW s, AtCell(s, r, 0), r > 0, NEW t, t = Small!vd_put_char(s, Backspace)
    PROVE  /\ AtCell(t, r, 0)
           /\ \E above \in Left(Cells(s)[<<r - 1, 0>>]), here \in Left(Cells(s)[<<r, 0>>]) :
                  Cells(t) = [Cells(s) EXCEPT ![<<r - 1, 0>>] = above, ![<<r, 0>>] = here]
<1> DEFINE v == [s EXCEPT !.x = Cols * GW, !.y = @ - GH]
           u == Small!draw_char(v, Space)
           w == [u EXCEPT !.x = 0, !.y = @ + GH]
<1>1. /\ r \in 0..Rows - 1 /\ 0 \in 0..Cols - 1
      /\ DOMAIN s = {"x", "y", "zoom", "fb"} /\ s.zoom = GridZoom /\ s.x = 0 * GW /\ s.y = r * GH
      /\ \A px \in 0..GridWidth - 1, py \in Rows * GH..GridHeight - 1 : Pixel(s, px, py) = Blank
  BY DEF AtCell, CursorAt
<1>2. /\ GW \in Nat /\ GW > 0 /\ GH \in Nat /\ GH >= 2 /\ Rows \in Nat /\ Cols \in Nat /\ Cols >= 2
      /\ GridWidth \in Nat /\ GridHeight \in Nat
      /\ Rows * GH \in Nat /\ Rows * GH <= GridHeight /\ GridHeight < Rows * GH + GH
      /\ Cols * GW \in Nat /\ Cols * GW <= GridWidth /\ GridWidth < Cols * GW + GW
  BY GridSizes
<1>3. 0 * GW = 0 /\ 0 \in Int
  BY <1>2
<1>4. /\ r - 1 \in 0..Rows - 1 /\ r \in Int
      /\ (r - 1) * GH \in Nat /\ r * GH = (r - 1) * GH + GH /\ r * GH + GH <= Rows * GH
  <2>1. r - 1 \in 0..Rows - 1 /\ r = (r - 1) + 1 /\ r \in Int
    BY <1>1, <1>2
  <2>2. (r - 1) * GH \in Nat /\ r * GH = (r - 1) * GH + GH
    BY <1>2, <2>1, Multiples
  <2>3. r * GH + GH <= Rows * GH
    BY <1>1, <1>2, Multiples
  <2> QED BY <2>1, <2>2, <2>3
<1>5. Small!Moved(s, Backspace) = u
  <2>1. Small!CellW(s) = GW /\ Small!CellH(s) = GH
    BY <1>1 DEF Small!CellW, Small!CellH, GW, GH
  <2>2. ~(s.x >= GW) /\ s.x = 0 /\ s.y >= GH
    BY <1>1, <1>2, <1>3, <1>4
  <2>3. Backspace # NewLine
    BY ConsoleAssumption
  <2>4. (GridWidth \div GW) * GW = Cols * GW
    BY DEF Cols, Small!GridCols, GW
  <2> QED BY <2>1, <2>2, <2>3, <2>4 DEF Small!Moved, Small!Erased
<1>6. /\ DOMAIN v = {"x", "y", "zoom", "fb"} /\ v.zoom = GridZoom
      /\ v.x = Cols * GW /\ v.y = (r - 1) * GH /\ v.fb = s.fb
  <2>1. s.y - GH = (r - 1) * GH
    BY <1>1, <1>2, <1>4
  <2> QED BY <1>1, <2>1
<1> HIDE DEF v
<1>7. DOMAIN u = {"x", "y", "zoom", "fb"} /\ u.zoom = GridZoom /\ u.x = Cols * GW /\ u.y = (r - 1) * GH
  BY <1>6, DrawnRest
<1>8. ASSUME NEW px \in 0..GridWidth - 1, NEW py \in 0..GridHeight - 1,
             NEW i, i = IF px >= Cols * GW THEN px - Cols * GW ELSE px - Cols * GW + GridWidth,
             NEW j, j = IF px >= Cols * GW THEN py - (r - 1) * GH ELSE py - (r - 1) * GH - 1
      PROVE  Pixel(u, px, py) = IF i < GW /\ j \in 0..GH - 1 THEN Blank ELSE Pixel(s, px, py)
  <2>1. v.x \in 0..GridWidth /\ v.y \in Nat
    BY <1>2, <1>4, <1>6
  <2>2. Pixel(u, px, py) = IF i < GW /\ j \in 0..GH - 1 THEN Small!Dot(Space, i, j, GridZoom) ELSE Pixel(v, px, py)
    <3>1. /\ i = IF px >= v.x THEN px - v.x ELSE px - v.x + GridWidth
          /\ j = IF px >= v.x THEN py - v.y ELSE py - v.y - 1
      BY <1>6, <1>8
    <3> QED BY <1>6, <2>1, <3>1, DrawnPixel
  <2>3. Small!Dot(Space, i, j, GridZoom) = Blank
    BY DEF Small!Dot
  <2>4. Pixel(v, px, py) = Pixel(s, px, py)
    BY <1>6, SamePixels
  <2> QED BY <2>2, <2>3, <2>4
<1> HIDE DEF u
<1>9. /\ DOMAIN w = {"x", "y", "zoom", "fb"} /\ w.zoom = GridZoom /\ w.x = 0 /\ w.y = r * GH /\ w.fb = u.fb
      /\ Small!Wrapped(u) = w
  <2>1. Small!CellW(u) = GW /\ Small!CellH(u) = GH
    BY <1>7 DEF Small!CellW, Small!CellH, GW, GH
  <2>2. u.x + GW > GridWidth /\ u.y + GH = r * GH
    BY <1>2, <1>4, <1>7
  <2>3. Small!Wrapped(u) = w
    BY <2>1, <2>2 DEF Small!Wrapped
  <2> QED BY <1>7, <2>2, <2>3
<1> HIDE DEF w
<1>10. \A px, py : Pixel(w, px, py) = Pixel(u, px, py)
  BY <1>9, SamePixels
\* What is drawn blanks pixels, and no others than those of the two cells.
<1>11. ASSUME NEW px \in 0..GridWidth - 1, NEW py \in 0..GridHeight - 1
       PROVE  Pixel(w, px, py) = Blank \/ Pixel(w, px, py) = Pixel(s, px, py)
  <2> DEFINE i == IF px >= Cols * GW THEN px - Cols * GW ELSE px - Cols * GW + GridWidth
             j == IF px >= Cols * GW THEN py - (r - 1) * GH ELSE py - (r - 1) * GH - 1
  <2> HIDE DEF i, j
  <2>1. Pixel(u, px, py) = IF i < GW /\ j \in 0..GH - 1 THEN Blank ELSE Pixel(s, px, py)
    BY <1>8 DEF i, j
  <2> QED BY <1>10, <2>1
<1>12. AtCell(w, r, 0)
  <2>1. ASSUME NEW px \in 0..GridWidth - 1, NEW py \in Rows * GH..GridHeight - 1 PROVE Pixel(w, px, py) = Blank
    <3>1. py \in 0..GridHeight - 1
      BY <1>2
    <3> QED BY <1>1, <1>11, <3>1
  <2> QED BY <1>1, <1>3, <1>9, <2>1 DEF AtCell, CursorAt
<1>13. t = w
  <2>1. t = Small!Scrolled(w)
    BY <1>5, <1>9 DEF Small!vd_put_char
  <2> QED BY <1>12, <2>1, CellSettled
<1>14. ASSUME NEW q \in 0..Rows - 1, NEW d \in 0..Cols - 1, ~(d = 0 /\ q \in {r - 1, r})
       PROVE  ShownIn(w, q, d) = ShownIn(s, q, d)
  <2>1. ASSUME NEW i \in 0..GW - 1, NEW j \in 0..GH - 1
        PROVE  Pixel(w, d * GW + i, q * GH + j) = Pixel(s, d * GW + i, q * GH + j)
    <3> DEFINE px == d * GW + i
               py == q * GH + j
               k == px - Cols * GW + GridWidth
               l == py - (r - 1) * GH - 1
    <3>1. /\ px \in 0..GridWidth - 1 /\ py \in 0..GridHeight - 1
          /\ d * GW \in Nat /\ q * GH \in Nat /\ d * GW + GW <= Cols * GW
      BY CellPixels
    <3>2. i \in 0..GW - 1 /\ i \in Int /\ j \in Int /\ j >= 0 /\ j < GH
      BY <1>2
    <3>3. ~(px >= Cols * GW)
      <4> HIDE DEF GW, Cols
      <4> QED BY <1>2, <3>1, <3>2
    <3>4. d # 0 => px >= GW
      <4>1. d # 0 => d * GW + i >= 0 * GW + GW
        BY <1>2, Apart
      <4> QED BY <1>2, <1>3, <4>1
    <3>5. q < r - 1 => py < (r - 1) * GH
      <4>1. GH > 0 /\ q \in Nat /\ r - 1 \in Nat
        BY <1>2, <1>4
      <4> QED BY <1>2, <4>1, Apart
    <3>6. q > r => py >= r * GH + GH
      <4>1. GH > 0 /\ q \in Nat /\ r \in Nat
        BY <1>1, <1>2
      <4> QED BY <1>2, <4>1, Apart
    <3>7. d = 0 => q < r - 1 \/ q > r
      BY <1>4, <1>14
    <3> HIDE DEF px, py
    <3>8. ~(k < GW /\ l \in 0..GH - 1)
      <4>1. CASE d # 0
        <5>1. px >= GW
          BY <3>4, <4>1
        <5> QED BY <1>2, <3>1, <5>1
      <4>2. CASE d = 0
        <5>1. py < (r - 1) * GH \/ py >= r * GH + GH
          BY <3>5, <3>6, <3>7, <4>2
        <5> QED BY <1>2, <1>4, <3>1, <5>1
      <4> QED BY <4>1, <4>2
    <3>9. Pixel(u, px, py) = IF k < GW /\ l \in 0..GH - 1 THEN Blank ELSE Pixel(s, px, py)
      BY <1>8, <3>1, <3>3
    <3>10. Pixel(w, px, py) = Pixel(s, px, py)
      BY <1>10, <3>8, <3>9
    <3> QED BY <3>10 DEF px, py
  <2> QED BY <2>1, SameCell
\* Either cell has a pixel that is blank, and is blank if it was.
<1>15. ASSUME NEW q \in {r - 1, r}, NEW b \in 0..GH - 1, b = IF q = r - 1 THEN 1 ELSE 0
       PROVE  ShownIn(w, q, 0) \in Left(ShownIn(s, q, 0))
  <2> DEFINE py == q * GH + b
  <2>1. q \in 0..Rows - 1 /\ 0 \in 0..GW - 1
    BY <1>1, <1>2, <1>4
  <2>2. 0 * GW + 0 = 0 /\ 0 \in 0..GridWidth - 1 /\ py \in 0..GridHeight - 1 /\ py \in Int
    <3>1. 0 * GW + 0 \in 0..GridWidth - 1 /\ py \in 0..GridHeight - 1
      BY <1>1, <2>1, CellPixels
    <3> QED BY <1>3, <3>1
  <2>3. py - (r - 1) * GH - 1 \in 0..GH - 1
    BY <1>2, <1>4, <1>15
  <2> HIDE DEF py
  <2>4. ~(0 >= Cols * GW) /\ 0 - Cols * GW + GridWidth < GW
    <3>1. GW <= Cols * GW
      BY <1>1, <1>2, <1>3, Multiples
    <3> QED BY <1>2, <3>1
  <2>5. Pixel(u, 0, py) =
            IF 0 - Cols * GW + GridWidth < GW /\ py - (r - 1) * GH - 1 \in 0..GH - 1
            THEN Blank ELSE Pixel(s, 0, py)
    BY <1>8, <2>2, <2>4
  <2>6. Pixel(w, 0, py) = Blank
    BY <1>10, <2>3, <2>4, <2>5
  <2>7. ShownIn(w, q, 0) \in {Space, "damaged"}
    BY <2>1, <2>2, <2>6, SpoiltCell DEF py
  <2>8. ShownIn(s, q, 0) = Space => ShownIn(w, q, 0) = Space
    <3> SUFFICES ASSUME ShownIn(s, q, 0) = Space PROVE ShownIn(w, q, 0) = Space
      OBVIOUS
    <3>1. ShowsAt(s, q, 0, Space)
      BY GridAssumption DEF ShownIn
    <3>2. ASSUME NEW i \in 0..GW - 1, NEW j \in 0..GH - 1 PROVE Pixel(w, 0 * GW + i, q * GH + j) = Blank
      <4>1. 0 * GW + i \in 0..GridWidth - 1 /\ q * GH + j \in 0..GridHeight - 1
        BY <1>1, <2>1, CellPixels
      <4>2. Pixel(s, 0 * GW + i, q * GH + j) = Blank
        BY <3>1 DEF ShowsAt, Small!Dot
      <4> HIDE DEF w
      <4> QED BY <1>11, <4>1, <4>2
    <3> QED BY <3>2, BlankCell
  <2> QED BY <2>7, <2>8 DEF Left
<1>16. /\ ShownIn(w, r - 1, 0) \in Left(Cells(s)[<<r - 1, 0>>])
       /\ ShownIn(w, r, 0) \in Left(Cells(s)[<<r, 0>>])
  <2>1. 1 \in 0..GH - 1 /\ 0 \in 0..GH - 1 /\ r # r - 1
    BY <1>2, <1>4
  <2>2. ShownIn(w, r - 1, 0) \in Left(ShownIn(s, r - 1, 0)) /\ ShownIn(w, r, 0) \in Left(ShownIn(s, r, 0))
    BY <1>15, <2>1
  <2>3. <<r - 1, 0>> \in Place /\ <<r, 0>> \in Place
    BY <1>1, <1>4 DEF Place
  <2> QED BY <2>2, <2>3 DEF Cells
<1>17. Cells(w) = [Cells(s) EXCEPT ![<<r - 1, 0>>] = ShownIn(w, r - 1, 0), ![<<r, 0>>] = ShownIn(w, r, 0)]
  <2>1. ASSUME NEW p \in Place
        PROVE  ShownIn(w, p[1], p[2]) =
                   IF p = <<r, 0>> THEN ShownIn(w, r, 0)
                   ELSE IF p = <<r - 1, 0>> THEN ShownIn(w, r - 1, 0) ELSE ShownIn(s, p[1], p[2])
    <3>1. p[1] \in 0..Rows - 1 /\ p[2] \in 0..Cols - 1
          /\ (p = <<r, 0>> <=> p[1] = r /\ p[2] = 0) /\ (p = <<r - 1, 0>> <=> p[1] = r - 1 /\ p[2] = 0)
      BY DEF Place
    <3> QED BY <1>14, <3>1
  <2>2. DOMAIN Cells(s) = Place /\ \A p \in Place : Cells(s)[p] = ShownIn(s, p[1], p[2])
    BY DEF Cells
  <2>3. Cells(w) = [p \in Place |-> IF p = <<r, 0>> THEN ShownIn(w, r, 0)
                                    ELSE IF p = <<r - 1, 0>> THEN ShownIn(w, r - 1, 0) ELSE Cells(s)[p]]
    BY <2>1, <2>2 DEF Cells
  <2> QED BY <2>2, <2>3
<1> QED BY <1>12, <1>13, <1>16, <1>17

\* In the first cell a backspace does nothing.
LEMMA NothingErased ==
    ASSUME NEW s, AtCell(s, 0, 0) PROVE Small!vd_put_char(s, Backspace) = s
<1>1. DOMAIN s = {"x", "y", "zoom", "fb"} /\ s.zoom = GridZoom /\ s.x = 0 * GW /\ s.y = 0 * GH
  BY DEF AtCell, CursorAt
<1>2. GW \in Nat /\ GW > 0 /\ GH \in Nat /\ GH > 0
  BY GridSizes
<1>3. Small!CellW(s) = GW /\ Small!CellH(s) = GH
  BY <1>1 DEF Small!CellW, Small!CellH, GW, GH
<1>4. ~(s.x >= GW) /\ ~(s.y >= GH)
  BY <1>1, <1>2
<1>5. Small!Moved(s, Backspace) = s
  <2>1. Backspace # NewLine
    BY ConsoleAssumption
  <2> QED BY <1>3, <1>4, <2>1 DEF Small!Moved, Small!Erased
<1> QED BY <1>5, CellSettled DEF Small!vd_put_char

-----------------------------------------------------------------------------
(* The other calls *)

\* A clear screen shows no character.
LEMMA ScreenCleared ==
    ASSUME NEW s, DOMAIN s = {"x", "y", "zoom", "fb"}, s.zoom = GridZoom, NEW t, t = Small!vd_clear_screen(s)
    PROVE  AtCell(t, 0, 0) /\ Cells(t) = [p \in Place |-> Space]
<1>1. /\ DOMAIN t = {"x", "y", "zoom", "fb"} /\ t.x = 0 /\ t.y = 0 /\ t.zoom = GridZoom
      /\ \A px \in 0..GridWidth - 1, py \in 0..GridHeight - 1 : Pixel(t, px, py) = Blank
  BY ClearedPixel
<1>2. AtCell(t, 0, 0)
  <2>1. 0 \in 0..Rows - 1 /\ 0 \in 0..Cols - 1 /\ 0 * GW = 0 /\ 0 * GH = 0
    BY GridSizes
  <2>2. \A px \in 0..GridWidth - 1, py \in Rows * GH..GridHeight - 1 : Pixel(t, px, py) = Blank
    <3>1. \A py \in Rows * GH..GridHeight - 1 : py \in 0..GridHeight - 1
      BY GridSizes
    <3> QED BY <1>1, <3>1
  <2> QED BY <1>1, <2>1, <2>2 DEF AtCell, CursorAt
<1>3. ASSUME NEW q \in 0..Rows - 1, NEW d \in 0..Cols - 1 PROVE ShownIn(t, q, d) = Space
  <2>1. \A i \in 0..GW - 1, j \in 0..GH - 1 : Pixel(t, d * GW + i, q * GH + j) = Blank
    BY <1>1, CellPixels
  <2> QED BY <2>1, BlankCell
<1>4. Cells(t) = [p \in Place |-> Space]
  <2>1. \A p \in Place : ShownIn(t, p[1], p[2]) = Space
    BY <1>3 DEF Place
  <2> QED BY <2>1 DEF Cells
<1> QED BY <1>2, <1>4

\* A cursor that is set is at a cell again.
LEMMA CursorSet ==
    ASSUME NEW r, NEW c, NEW s, AtCell(s, r, c), NEW p \in GridCursors,
           NEW t, DOMAIN t = DOMAIN s, t.x = p[1], t.y = p[2], t.zoom = s.zoom, t.fb = s.fb
    PROVE  Cells(t) = Cells(s) /\ \E q, d : AtCell(t, q, d)
<1>1. /\ DOMAIN s = {"x", "y", "zoom", "fb"} /\ s.zoom = GridZoom
      /\ \A px \in 0..GridWidth - 1, py \in Rows * GH..GridHeight - 1 : Pixel(s, px, py) = Blank
  BY DEF AtCell, CursorAt
<1>2. PICK q \in 0..Rows - 1, d \in 0..Cols - 1 : p = <<d * GW, q * GH>>
  BY GridAssumption DEF Rows, Cols, GW, GH, Small!GridRows, Small!GridCols
<1>3. DOMAIN t = {"x", "y", "zoom", "fb"} /\ t.zoom = GridZoom /\ t.fb = s.fb /\ t.x = d * GW /\ t.y = q * GH
  BY <1>1, <1>2
<1>4. \A px, py : Pixel(t, px, py) = Pixel(s, px, py)
  BY <1>3 DEF Pixel
<1>5. AtCell(t, q, d)
  BY <1>1, <1>3, <1>4 DEF AtCell, CursorAt
<1>6. Cells(t) = Cells(s)
  BY <1>3, SamePixels
<1> QED BY <1>5, <1>6

\* The message of a refused zoom is one character.
LEMMA MessageWritten ==
    ASSUME NEW s PROVE Small!vd_put_string(s, <<NewLine>>) = Small!vd_put_char(s, NewLine)
<1> DEFINE Put(f) == f = [n \in 0..1 |-> IF n = 0 THEN s ELSE Small!vd_put_char(f[n - 1], <<NewLine>>[n])]
           put == CHOOSE f : Put(f)
<1>1. Len(<<NewLine>>) = 1 /\ <<NewLine>>[1] = NewLine
  OBVIOUS
<1>2. Small!vd_put_string(s, <<NewLine>>) = put[1]
  BY <1>1 DEF Small!vd_put_string
<1>3. \E f : Put(f)
  <2> DEFINE f == [n \in 0..1 |-> IF n = 0 THEN s ELSE Small!vd_put_char(s, NewLine)]
  <2>1. \A n \in 0..1 : f[n] = IF n = 0 THEN s ELSE Small!vd_put_char(f[n - 1], <<NewLine>>[n])
    <3> TAKE n \in 0..1
    <3>1. CASE n = 0
      BY <3>1
    <3>2. CASE n = 1
      <4>1. f[1 - 1] = s /\ f[1] = Small!vd_put_char(s, NewLine)
        OBVIOUS
      <4> HIDE DEF f
      <4> QED BY <1>1, <3>2, <4>1
    <3> QED BY <3>1, <3>2
  <2>2. f = [n \in 0..1 |-> f[n]]
    OBVIOUS
  <2> HIDE DEF f
  <2> QED BY <2>1, <2>2
<1>4. Put(put)
  BY <1>3
<1> HIDE DEF put
<1>5. put[0] = s /\ put[1] = Small!vd_put_char(put[0], NewLine)
  <2>1. \A n \in 0..1 : put[n] = IF n = 0 THEN s ELSE Small!vd_put_char(put[n - 1], <<NewLine>>[n])
    BY <1>4
  <2>2. 0 \in 0..1 /\ 1 \in 0..1 /\ 1 - 1 = 0 /\ 1 # 0
    OBVIOUS
  <2> HIDE DEF Put
  <2> QED BY <1>1, <2>1, <2>2
<1> QED BY <1>2, <1>5

-----------------------------------------------------------------------------
(* The text grid of module TextGrid and the pixels *)

GridCells == [p \in (0..Small!GridRows - 1) \X (0..Small!GridCols - 1) |-> Small!GlyphAt(p[1], p[2])]
GridRow == pixels.y \div Small!CellH(pixels)
GridCol == pixels.x \div Small!CellW(pixels)

\* The cursor of the small screen is at a cell.
GridInv == \E r, c : AtCell(pixels, r, c)

\* At a cell, the refinement mapping gives the cells of the pixels and that cell;
\* the same of the next state.
GridIs == \A r, c : AtCell(pixels, r, c) => GridCells = Cells(pixels) /\ GridRow = r /\ GridCol = c

LEMMA GridNow == GridIs
<1> SUFFICES ASSUME NEW r, NEW c, AtCell(pixels, r, c)
             PROVE  GridCells = Cells(pixels) /\ GridRow = r /\ GridCol = c
  BY DEF GridIs
<1>1. /\ r \in 0..Rows - 1 /\ c \in 0..Cols - 1 /\ pixels.zoom = GridZoom
      /\ pixels.x = c * GW /\ pixels.y = r * GH
  BY DEF AtCell, CursorAt
<1>2. Small!CellW(pixels) = GW /\ Small!CellH(pixels) = GH
  BY <1>1 DEF Small!CellW, Small!CellH, GW, GH
<1>3. GridRow = r /\ GridCol = c
  <2>1. GW \in Nat /\ GW > 0 /\ GH \in Nat /\ GH > 0 /\ Rows \in Nat /\ Cols \in Nat
    BY GridSizes
  <2>2. (0 + r * GH) \div GH = r /\ (0 + c * GW) \div GW = c
    BY <1>1, <2>1, Euclid
  <2>3. 0 + r * GH = r * GH /\ 0 + c * GW = c * GW
    BY <1>1, <2>1
  <2> QED BY <1>1, <1>2, <2>2, <2>3 DEF GridRow, GridCol
<1>4. ASSUME NEW q \in 0..Rows - 1, NEW d \in 0..Cols - 1
      PROVE  Small!GlyphAt(q, d) = ShownIn(pixels, q, d)
  <2>1. ASSUME NEW g PROVE Small!Shows(q, d, g) <=> ShowsAt(pixels, q, d, g)
    <3>1. Small!PixelsOf(q, d) =
              [dot \in (0..GW - 1) \X (0..GH - 1) |-> pixels.fb[Small!Offset(d * GW + dot[1], q * GH + dot[2])]]
      BY <1>2 DEF Small!PixelsOf
    <3>2. Small!Shows(q, d, g) <=>
              \A dot \in (0..GW - 1) \X (0..GH - 1) :
                  Pixel(pixels, d * GW + dot[1], q * GH + dot[2]) = Small!Dot(g, dot[1], dot[2], GridZoom)
      BY <1>1, <3>1 DEF Small!Shows, Small!Offset, Pixel
    <3>3. (\A dot \in (0..GW - 1) \X (0..GH - 1) :
              Pixel(pixels, d * GW + dot[1], q * GH + dot[2]) = Small!Dot(g, dot[1], dot[2], GridZoom))
          <=> ShowsAt(pixels, q, d, g)
      <4>1. ASSUME NEW i \in 0..GW - 1, NEW j \in 0..GH - 1
            PROVE  <<i, j>> \in (0..GW - 1) \X (0..GH - 1) /\ <<i, j>>[1] = i /\ <<i, j>>[2] = j
        OBVIOUS
      <4>2. \A dot \in (0..GW - 1) \X (0..GH - 1) : dot[1] \in 0..GW - 1 /\ dot[2] \in 0..GH - 1
        OBVIOUS
      <4>3. ASSUME ShowsAt(pixels, q, d, g), NEW dot \in (0..GW - 1) \X (0..GH - 1)
            PROVE  Pixel(pixels, d * GW + dot[1], q * GH + dot[2]) = Small!Dot(g, dot[1], dot[2], GridZoom)
        BY <4>2, <4>3 DEF ShowsAt
      <4>4. ASSUME \A dot \in (0..GW - 1) \X (0..GH - 1) :
                       Pixel(pixels, d * GW + dot[1], q * GH + dot[2]) = Small!Dot(g, dot[1], dot[2], GridZoom),
                   NEW i \in 0..GW - 1, NEW j \in 0..GH - 1
            PROVE  Pixel(pixels, d * GW + i, q * GH + j) = Small!Dot(g, i, j, GridZoom)
        <5> DEFINE dot == <<i, j>>
        <5>1. dot \in (0..GW - 1) \X (0..GH - 1) /\ dot[1] = i /\ dot[2] = j
          BY <4>1
        <5> HIDE DEF dot
        <5>2. Pixel(pixels, d * GW + dot[1], q * GH + dot[2]) = Small!Dot(g, dot[1], dot[2], GridZoom)
          BY <4>4, <5>1
        <5> QED BY <5>1, <5>2
      <4> QED BY <4>3, <4>4 DEF ShowsAt
    <3> QED BY <3>2, <3>3
  <2> QED BY <2>1 DEF Small!GlyphAt, ShownIn, Glyphs
<1>5. GridCells = Cells(pixels)
  <2>1. Small!GridRows = Rows /\ Small!GridCols = Cols
    BY DEF Rows, Cols
  <2>2. \A p \in Place : Small!GlyphAt(p[1], p[2]) = ShownIn(pixels, p[1], p[2])
    <3>1. \A p \in Place : p[1] \in 0..Rows - 1 /\ p[2] \in 0..Cols - 1
      BY DEF Place
    <3> QED BY <1>4, <3>1
  <2> QED BY <2>1, <2>2 DEF GridCells, Cells, Place
<1> QED BY <1>3, <1>5

LEMMA GridThen ==
    ASSUME NEW q, NEW d, AtCell(pixels', q, d)
    PROVE  GridInv' /\ GridCells' = Cells(pixels') /\ GridRow' = q /\ GridCol' = d
<1>1. GridIs'
  BY GridNow, PTL
<1> QED BY <1>1 DEF GridIs, GridInv

-----------------------------------------------------------------------------
(* The actions of module TextGrid, in these terms *)

\* A step that changes cells and cursor like this is the action of that name.
LEMMA IsPut ==
    ASSUME NEW g \in Glyphs,
           IF GridCol + 1 < Cols
           THEN /\ GridCells' = [GridCells EXCEPT ![<<GridRow, GridCol>>] = g]
                /\ GridCol' = GridCol + 1 /\ GridRow' = GridRow
           ELSE /\ GridCells' = Fed(GridRow, [GridCells EXCEPT ![<<GridRow, GridCol>>] = g])
                /\ GridCol' = 0 /\ GridRow' = Below(GridRow)
    PROVE  Small!TextGrid!Next
<1>1. Small!TextGrid!Put(g)
  BY DEF Small!TextGrid!Put, Small!TextGrid!NewLineFrom, Small!TextGrid!Places,
         GridCells, GridRow, GridCol, Fed, Below, Place, Rows, Cols
<1> QED BY <1>1 DEF Small!TextGrid!Next, Glyphs

LEMMA IsLineFeed ==
    ASSUME GridCells' = Fed(GridRow, GridCells), GridCol' = 0, GridRow' = Below(GridRow)
    PROVE  Small!TextGrid!Next
<1>1. Small!TextGrid!LineFeed
  BY DEF Small!TextGrid!LineFeed, Small!TextGrid!NewLineFrom, Small!TextGrid!Places,
         GridCells, GridRow, GridCol, Fed, Below, Place, Rows, Cols
<1> QED BY <1>1 DEF Small!TextGrid!Next

LEMMA IsErase ==
    ASSUME GridCol > 0, GridCol' = GridCol - 1, GridRow' = GridRow,
           GridCells' = [GridCells EXCEPT ![<<GridRow, GridCol - 1>>] = Space]
    PROVE  Small!TextGrid!Next
<1>1. Small!TextGrid!Erase
  BY DEF Small!TextGrid!Erase, GridCells, GridRow, GridCol
<1> QED BY <1>1 DEF Small!TextGrid!Next

LEMMA IsSmudge ==
    ASSUME GridCol = 0, GridRow > 0, GridCol' = GridCol, GridRow' = GridRow,
           \E above \in Left(GridCells[<<GridRow - 1, 0>>]), here \in Left(GridCells[<<GridRow, 0>>]) :
               GridCells' = [GridCells EXCEPT ![<<GridRow - 1, 0>>] = above, ![<<GridRow, 0>>] = here]
    PROVE  Small!TextGrid!Next
<1>1. Small!TextGrid!Smudge
  BY DEF Small!TextGrid!Smudge, Small!TextGrid!Smudged, GridCells, GridRow, GridCol, Left
<1> QED BY <1>1 DEF Small!TextGrid!Next

LEMMA IsClear ==
    ASSUME GridCells' = [p \in Place |-> Space], GridCol' = 0, GridRow' = 0
    PROVE  Small!TextGrid!Next
<1>1. Small!TextGrid!Clear
  BY DEF Small!TextGrid!Clear, Small!TextGrid!EmptyGrid, Small!TextGrid!Places,
         GridCells, GridRow, GridCol, Place, Rows, Cols
<1> QED BY <1>1 DEF Small!TextGrid!Next

LEMMA IsMove ==
    ASSUME GridCells' = GridCells, GridRow' \in 0..Rows - 1, GridCol' \in 0..Cols - 1
    PROVE  Small!TextGrid!Next
<1>1. <<GridRow', GridCol'>> \in Place /\ <<GridRow', GridCol'>>[1] = GridRow' /\ <<GridRow', GridCol'>>[2] = GridCol'
  BY DEF Place
<1>2. Small!TextGrid!Places = Place
  BY DEF Small!TextGrid!Places, Place, Rows, Cols
<1>3. \A r, c : r = GridRow' /\ c = GridCol' => Small!TextGrid!Move(r, c)
  BY DEF Small!TextGrid!Move, GridCells, GridRow, GridCol
<1>4. \E p \in Small!TextGrid!Places : Small!TextGrid!Move(p[1], p[2])
  BY <1>1, <1>2, <1>3
<1> QED BY <1>4 DEF Small!TextGrid!Next

\* A step of the small screen is a step of the text grid, or changes nothing.
LEMMA GridStep ==
    ASSUME GridInv, Small!Next
    PROVE  GridInv' /\ (Small!TextGrid!Next \/ pixels' = pixels)
<1>1. PICK r, c : AtCell(pixels, r, c)
  BY DEF GridInv
<1>2. GridCells = Cells(pixels) /\ GridRow = r /\ GridCol = c
  BY <1>1, GridNow DEF GridIs
<1>3. /\ r \in 0..Rows - 1 /\ c \in 0..Cols - 1 /\ Rows \in Nat /\ Cols \in Nat
      /\ DOMAIN pixels = {"x", "y", "zoom", "fb"} /\ pixels.zoom = GridZoom
  BY <1>1, GridSizes DEF AtCell, CursorAt
<1>4. ASSUME pixels' = Small!vd_put_char(pixels, NewLine) PROVE GridInv' /\ Small!TextGrid!Next
  <2>1. AtCell(pixels', Below(r), 0) /\ Cells(pixels') = Fed(r, Cells(pixels))
    BY <1>1, <1>4, NewLineWritten
  <2>2. GridInv' /\ GridCells' = Cells(pixels') /\ GridRow' = Below(r) /\ GridCol' = 0
    BY <2>1, GridThen
  <2> QED BY <1>2, <2>1, <2>2, IsLineFeed
<1>5. ASSUME NEW k \in Small!Char, Small!Write(k) PROVE GridInv' /\ (Small!TextGrid!Next \/ pixels' = pixels)
  <2>1. pixels' = Small!vd_put_char(pixels, k)
    BY <1>5 DEF Small!Write
  <2>2. CASE k \in Glyphs
    <3> DEFINE put == [Cells(pixels) EXCEPT ![<<r, c>>] = k]
    <3>1. IF c + 1 < Cols
          THEN AtCell(pixels', r, c + 1) /\ Cells(pixels') = put
          ELSE AtCell(pixels', Below(r), 0) /\ Cells(pixels') = Fed(r, put)
      BY <1>1, <2>1, <2>2, GlyphWritten
    <3>2. /\ GridInv' /\ GridCells' = Cells(pixels')
          /\ IF c + 1 < Cols THEN GridRow' = r /\ GridCol' = c + 1 ELSE GridRow' = Below(r) /\ GridCol' = 0
      <4> HIDE DEF put
      <4> QED BY <3>1, GridThen
    <3>3. Small!TextGrid!Next
      BY <1>2, <2>2, <3>1, <3>2, IsPut
    <3> QED BY <3>2, <3>3
  <2>3. CASE k = NewLine
    BY <1>4, <2>1, <2>3
  <2>4. CASE k = Backspace /\ c > 0
    <3>1. AtCell(pixels', r, c - 1) /\ Cells(pixels') = [Cells(pixels) EXCEPT ![<<r, c - 1>>] = Space]
      BY <1>1, <2>1, <2>4, CharacterErased
    <3>2. GridInv' /\ GridCells' = Cells(pixels') /\ GridRow' = r /\ GridCol' = c - 1
      BY <3>1, GridThen
    <3> QED BY <1>2, <2>4, <3>1, <3>2, IsErase
  <2>5. CASE k = Backspace /\ c = 0 /\ r > 0
    <3>1. /\ AtCell(pixels', r, 0)
          /\ \E above \in Left(Cells(pixels)[<<r - 1, 0>>]), here \in Left(Cells(pixels)[<<r, 0>>]) :
                 Cells(pixels') = [Cells(pixels) EXCEPT ![<<r - 1, 0>>] = above, ![<<r, 0>>] = here]
      BY <1>1, <2>1, <2>5, MarginSmudged
    <3>2. GridInv' /\ GridCells' = Cells(pixels') /\ GridRow' = r /\ GridCol' = 0
      BY <3>1, GridThen
    <3> QED BY <1>2, <2>5, <3>1, <3>2, IsSmudge
  <2>6. CASE k = Backspace /\ c = 0 /\ r = 0
    <3>1. pixels' = pixels
      BY <1>1, <2>1, <2>6, NothingErased
    <3> QED BY <1>1, <3>1, GridThen
  <2>7. k \in Glyphs \/ k = NewLine \/ k = Backspace
    BY DEF Small!Char, Glyphs
  <2>8. (c > 0 \/ c = 0) /\ (r > 0 \/ r = 0)
    BY <1>3
  <2> QED BY <2>2, <2>3, <2>4, <2>5, <2>6, <2>7, <2>8
<1>6. ASSUME NEW p \in GridCursors, Small!SetCursor(p[1], p[2]) PROVE GridInv' /\ Small!TextGrid!Next
  <2>1. pixels' = [pixels EXCEPT !.x = p[1], !.y = p[2]]
    BY <1>6 DEF Small!SetCursor
  <2> DEFINE t == pixels'
  <2>2. DOMAIN t = DOMAIN pixels /\ t.x = p[1] /\ t.y = p[2] /\ t.zoom = pixels.zoom /\ t.fb = pixels.fb
    BY <1>3, <2>1
  <2>3. Cells(pixels') = Cells(pixels) /\ \E q, d : AtCell(pixels', q, d)
    <3> HIDE DEF t
    <3>1. Cells(t) = Cells(pixels) /\ \E q, d : AtCell(t, q, d)
      BY <1>1, <1>6, <2>2, CursorSet
    <3> QED BY <3>1 DEF t
  <2>4. PICK q, d : AtCell(pixels', q, d)
    BY <2>3
  <2>5. GridInv' /\ GridCells' = Cells(pixels') /\ GridRow' = q /\ GridCol' = d
    BY <2>4, GridThen
  <2>6. q \in 0..Rows - 1 /\ d \in 0..Cols - 1
    BY <2>4 DEF AtCell
  <2> QED BY <1>2, <2>3, <2>5, <2>6, IsMove
<1>7. ASSUME Small!ClearScreen PROVE GridInv' /\ Small!TextGrid!Next
  <2>1. AtCell(pixels', 0, 0) /\ Cells(pixels') = [p \in Place |-> Space]
    BY <1>3, <1>7, ScreenCleared DEF Small!ClearScreen
  <2>2. GridInv' /\ GridCells' = Cells(pixels') /\ GridRow' = 0 /\ GridCol' = 0
    BY <2>1, GridThen
  <2> QED BY <2>1, <2>2, IsClear
<1>8. ASSUME NEW z, Small!SetZoom(z) PROVE GridInv' /\ Small!TextGrid!Next
  <2> DEFINE t == Small!vd_put_char(pixels, NewLine)
  <2>1. z = GridZoom /\ pixels' = [t EXCEPT !.zoom = z]
    BY <1>8, GridAssumption DEF Small!SetZoom, Small!Zoom
  <2>2. AtCell(t, Below(r), 0) /\ Cells(t) = Fed(r, Cells(pixels))
    BY <1>1, NewLineWritten
  <2> HIDE DEF t
  <2>3. DOMAIN t = {"x", "y", "zoom", "fb"} /\ t.zoom = GridZoom
    BY <2>2 DEF AtCell, CursorAt
  <2>4. /\ DOMAIN pixels' = DOMAIN t /\ pixels'.x = t.x /\ pixels'.y = t.y
        /\ pixels'.zoom = t.zoom /\ pixels'.fb = t.fb
    BY <2>1, <2>3
  <2>5. Cells(pixels') = Cells(t) /\ \A px, py : Pixel(pixels', px, py) = Pixel(t, px, py)
    BY <2>4, SamePixels
  <2>6. AtCell(pixels', Below(r), 0)
    BY <2>2, <2>4, <2>5 DEF AtCell, CursorAt
  <2>7. GridInv' /\ GridCells' = Cells(pixels') /\ GridRow' = Below(r) /\ GridCol' = 0
    BY <2>6, GridThen
  <2> QED BY <1>2, <2>2, <2>5, <2>7, IsLineFeed
<1>9. ASSUME NEW z, Small!RefuseZoom(z) PROVE GridInv' /\ Small!TextGrid!Next
  BY <1>4, <1>9, MessageWritten DEF Small!RefuseZoom
<1> QED BY <1>5, <1>6, <1>7, <1>8, <1>9 DEF Small!Next

\* The pixels of the screen show the text grid of module TextGrid.
THEOREM PixelsShowTextGridHolds == DisplaySpec => PixelsShowTextGrid
<1>1. DisplayInit => GridInv /\ Small!TextGrid!Init
  <2> SUFFICES ASSUME DisplayInit PROVE GridInv /\ Small!TextGrid!Init
    OBVIOUS
  <2> DEFINE s == [x |-> 0, y |-> 0, zoom |-> GridZoom, fb |-> [o \in 0..GridWidth * GridHeight - 1 |-> Blank]]
  <2>1. pixels = Small!vd_clear_screen(s)
    BY DEF DisplayInit, Small!Init
  <2>2. DOMAIN s = {"x", "y", "zoom", "fb"} /\ s.zoom = GridZoom
    OBVIOUS
  <2> HIDE DEF s
  <2>3. AtCell(pixels, 0, 0) /\ Cells(pixels) = [p \in Place |-> Space]
    BY <2>1, <2>2, ScreenCleared
  <2>4. GridCells = [p \in Place |-> Space] /\ GridRow = 0 /\ GridCol = 0
    BY <2>3, GridNow DEF GridIs
  <2>5. Small!TextGrid!Init
    BY <2>4 DEF Small!TextGrid!Init, Small!TextGrid!EmptyGrid, Small!TextGrid!Places,
       GridCells, GridRow, GridCol, Place, Rows, Cols
  <2> QED BY <2>3, <2>5 DEF GridInv
<1>2. GridInv /\ [DisplayNext]_<<subject, vars, pixels, shapeVars>>
      => GridInv' /\ [subject = "pixels" => Small!TextGrid!Next]_(Small!TextGrid!grid)
  <2> SUFFICES ASSUME GridInv, [DisplayNext]_<<subject, vars, pixels, shapeVars>>
               PROVE  GridInv' /\ [subject = "pixels" => Small!TextGrid!Next]_(Small!TextGrid!grid)
    OBVIOUS
  <2>1. ASSUME pixels' = pixels PROVE GridInv' /\ UNCHANGED Small!TextGrid!grid
    <3>1. PICK r, c : AtCell(pixels, r, c)
      BY DEF GridInv
    <3>2. GridCells = Cells(pixels) /\ GridRow = r /\ GridCol = c
      BY <3>1, GridNow DEF GridIs
    <3>3. GridInv' /\ GridCells' = Cells(pixels') /\ GridRow' = r /\ GridCol' = c
      BY <2>1, <3>1, GridThen
    <3>4. GridCells' = GridCells /\ GridRow' = GridRow /\ GridCol' = GridCol
      BY <2>1, <3>2, <3>3
    <3> QED BY <3>3, <3>4 DEF Small!TextGrid!grid, GridCells, GridRow, GridCol
  <2>2. CASE subject = "pixels" /\ Small!Next
    BY <2>1, <2>2, GridStep
  <2>3. CASE ~(subject = "pixels" /\ Small!Next)
    <3>1. pixels' = pixels
      BY <2>3 DEF DisplayNext
    <3> QED BY <2>1, <3>1
  <2> QED BY <2>2, <2>3
<1> QED BY <1>1, <1>2, PTL DEF DisplaySpec, PixelsShowTextGrid

-----------------------------------------------------------------------------
(* The screens: layouts *)

\* A place of the cursor, the zoom there, and a line above which no text is.
Spot(x, y, z, low) == [x |-> x, y |-> y, zoom |-> z, low |-> low]

Calls ==
    [call : {"text"}, text : STRING] \union [call : {"break", "clear"}] \union [call : {"zoom"}, zoom : Int]
    \union [call : {"cursor"}, x : Int, y : Int]
    \union [call : {"rectangle"}, x : Int, y : Int, w : Int, h : Int] \union [call : {"circle"}, x : Int, y : Int, r : Int]

\* The beginning of the next line, which scrolls the screen if there is none.
LineBelow(p, z) ==
    IF p.y + 2 * CellH(p) <= Height THEN Spot(0, p.y + CellH(p), z, p.low)
    ELSE Spot(0, p.y, z, p.low - CellH(p))

\* Where a call leaves the cursor if no text is wrapped.
After(p, c) ==
    IF c.call = "text" THEN Spot(p.x + Len(c.text) * CellW(p), p.y, p.zoom, p.low)
    ELSE IF c.call = "break" THEN LineBelow(p, p.zoom)
    ELSE IF c.call = "zoom" THEN LineBelow(p, c.zoom)
    ELSE IF c.call = "cursor" THEN Spot(c.x, c.y, p.zoom, p.low)
    ELSE IF c.call = "clear" THEN Spot(0, 0, p.zoom, p.low)
    ELSE p

\* A text of the welcome screen lies inside the frame and off the face.
InFrame(p, c) ==
    /\ p.x >= 20 /\ p.x + Len(c.text) * CellW(p) <= Width - 20
    /\ p.y >= 50 /\ p.y + CellH(p) <= Height - 50
    /\ p.y + CellH(p) <= CenterY - Radius \/ p.y > CenterY + Radius

\* What a call of screen s must be for its text or shape to be seen whole.
Laid(s, p, c) ==
    /\ c.call = "text" =>
           /\ Len(c.text) \in Nat /\ Len(c.text) >= 1 /\ p.low <= p.y
           /\ p.x + (Len(c.text) + 1) * CellW(p) <= Width /\ p.y + CellH(p) <= Height
           /\ s = "welcome" => InFrame(p, c)
    /\ c.call \in {"break", "zoom"} =>
           \/ p.y + 2 * CellH(p) <= Height
           \/ s = "menu" /\ p.y + CellH(p) <= Height /\ p.low >= CellH(p)
    /\ c.call = "zoom" => c.zoom \in Zoom
    /\ c.call = "cursor" => c.x \in 0..Width /\ c.y \in 0..Height
    /\ c.call = "rectangle" =>
           c.x >= 0 /\ c.y >= 0 /\ c.x + c.w <= Width /\ (c.y + c.h <= Height \/ s = "counter")
    /\ c.call = "circle" => c.x - c.r >= 0 /\ c.y - c.r >= 0 /\ c.x + c.r < Width /\ c.y + c.r < Height

\* f[i] is the place after i calls of a.
Path(s, p, a, f) ==
    f[0] = p /\ \A i \in 1..Len(a) : Laid(s, f[i - 1], a[i]) /\ f[i] = After(f[i - 1], a[i])

Leads(s, p, a, q) == a \in Seq(Calls) /\ \E f : Path(s, p, a, f) /\ f[Len(a)] = q

LEMMA Joined ==
    ASSUME NEW s, NEW p, NEW q, NEW r, NEW a, NEW b, Leads(s, p, a, q), Leads(s, q, b, r)
    PROVE  Leads(s, p, a \o b, r)
<1>1. a \in Seq(Calls) /\ b \in Seq(Calls)
  BY DEF Leads
<1>2. PICK f : Path(s, p, a, f) /\ f[Len(a)] = q
  BY DEF Leads
<1>3. PICK g : Path(s, q, b, g) /\ g[Len(b)] = r
  BY DEF Leads
<1> DEFINE m == Len(a)
           n == Len(b)
           h == [i \in 0..m + n |-> IF i <= m THEN f[i] ELSE g[i - m]]
<1>4. /\ m \in Nat /\ n \in Nat /\ a \o b \in Seq(Calls) /\ Len(a \o b) = m + n
      /\ \A i \in 1..m + n : (a \o b)[i] = IF i <= m THEN a[i] ELSE b[i - m]
  <2> HIDE DEF Calls
  <2> QED BY <1>1
<1> HIDE DEF m, n
<1>5. h[0] = p /\ h[m + n] = r
  <2>1. 0 \in 0..m + n /\ m + n \in 0..m + n /\ (m + n) - m = n
    BY <1>4
  <2>2. CASE n = 0
    BY <1>2, <1>3, <1>4, <2>1, <2>2 DEF Path, m, n
  <2>3. CASE n # 0
    BY <1>2, <1>3, <1>4, <2>1, <2>3 DEF Path, m, n
  <2> QED BY <2>2, <2>3
<1>6. ASSUME NEW i \in 1..m + n PROVE Laid(s, h[i - 1], (a \o b)[i]) /\ h[i] = After(h[i - 1], (a \o b)[i])
  <2>1. i \in Int /\ i - 1 \in Int /\ i - 1 \in 0..m + n /\ i \in 0..m + n
    BY <1>4
  <2>2. CASE i <= m
    <3>1. i \in 1..m /\ h[i] = f[i] /\ h[i - 1] = f[i - 1] /\ (a \o b)[i] = a[i]
      BY <1>4, <2>1, <2>2
    <3> HIDE DEF h
    <3> QED BY <1>2, <3>1 DEF Path, m
  <2>3. CASE i > m
    <3>1. i - m \in 1..n /\ (i - m) - 1 = (i - 1) - m
      BY <1>4, <2>1, <2>3
    <3>2. h[i] = g[i - m] /\ (a \o b)[i] = b[i - m]
      BY <1>4, <2>1, <2>3
    <3>3. h[i - 1] = g[(i - m) - 1]
      <4>1. CASE i - 1 <= m
        <5>1. i - 1 = m /\ (i - m) - 1 = 0
          BY <1>4, <2>1, <2>3, <4>1
        <5>2. h[i - 1] = f[m]
          BY <1>4, <2>1, <5>1
        <5> QED BY <1>2, <1>3, <5>1, <5>2 DEF Path, m
      <4>2. CASE ~(i - 1 <= m)
        BY <1>4, <2>1, <3>1, <4>2
      <4> QED BY <4>1, <4>2
    <3> HIDE DEF h
    <3> QED BY <1>3, <3>1, <3>2, <3>3 DEF Path, n
  <2> QED BY <1>4, <2>1, <2>2, <2>3
<1> HIDE DEF h
<1>7. Path(s, p, a \o b, h)
  BY <1>4, <1>5, <1>6 DEF Path
<1> QED BY <1>4, <1>5, <1>7 DEF Leads

LEMMA OneCall ==
    ASSUME NEW s, NEW p, NEW c \in Calls, Laid(s, p, c)
    PROVE  Leads(s, p, <<c>>, After(p, c))
<1> DEFINE f == [i \in 0..1 |-> IF i = 0 THEN p ELSE After(p, c)]
<1> HIDE DEF Calls
<1>1. <<c>> \in Seq(Calls) /\ Len(<<c>>) = 1 /\ <<c>>[1] = c
  OBVIOUS
<1>2. f[0] = p /\ f[1] = After(p, c) /\ f[1 - 1] = p
  OBVIOUS
<1> HIDE DEF f
<1>3. Path(s, p, <<c>>, f)
  BY <1>1, <1>2 DEF Path
<1> QED BY <1>1, <1>2, <1>3 DEF Leads

LEMMA SpotSize ==
    ASSUME NEW x, NEW y, NEW z, NEW o
    PROVE  /\ CellW(Spot(x, y, z, o)) = 8 * z /\ CellH(Spot(x, y, z, o)) = 16 * z
           /\ Spot(x, y, z, o).x = x /\ Spot(x, y, z, o).y = y
           /\ Spot(x, y, z, o).zoom = z /\ Spot(x, y, z, o).low = o
  BY ScreensAssumption DEF Spot, CellW, CellH

LEMMA ATextLeads ==
    ASSUME NEW s, NEW x \in Int, NEW y \in Int, NEW z, NEW o \in Int, NEW w \in Int, NEW h \in Int, w = 8 * z, h = 16 * z,
           NEW t \in STRING, Len(t) \in Nat, Len(t) >= 1,
           o <= y, x + (Len(t) + 1) * w <= Width, y + h <= Height,
           s = "welcome" => InFrame(Spot(x, y, z, o), [call |-> "text", text |-> t])
    PROVE  Leads(s, Spot(x, y, z, o), Text(t), Spot(x + Len(t) * w, y, z, o))
<1> DEFINE p == Spot(x, y, z, o)
           c == [call |-> "text", text |-> t]
<1>1. CellW(p) = w /\ CellH(p) = h /\ p.x = x /\ p.y = y /\ p.zoom = z /\ p.low = o
  BY SpotSize
<1>2. c \in Calls /\ c.call = "text" /\ c.text = t
  BY DEF Calls
<1> HIDE DEF c, p
<1>3. Laid(s, p, c)
  BY <1>1, <1>2 DEF Laid, c, p
<1>4. After(p, c) = Spot(x + Len(t) * w, y, z, o)
  BY <1>1, <1>2 DEF After
<1>5. Leads(s, p, <<c>>, After(p, c))
  BY <1>2, <1>3, OneCall
<1>6. Text(t) = <<c>>
  BY DEF Text, c
<1> QED BY <1>4, <1>5, <1>6 DEF p

LEMMA ABreakLeads ==
    ASSUME NEW s, NEW x, NEW y \in Int, NEW z, NEW o \in Int, NEW h \in Int, h = 16 * z, y + 2 * h <= Height
    PROVE  Leads(s, Spot(x, y, z, o), Break(1), Spot(0, y + h, z, o))
<1> DEFINE p == Spot(x, y, z, o)
           c == [call |-> "break"]
<1>1. CellH(p) = h /\ p.x = x /\ p.y = y /\ p.zoom = z /\ p.low = o
  BY SpotSize
<1>2. c \in Calls /\ c.call = "break"
  BY DEF Calls
<1>3. Break(1) = <<c>>
  <2>1. Break(1) = [i \in 1..1 |-> c]
    BY DEF Break
  <2> HIDE DEF c
  <2>2. 1..1 = {1}
    OBVIOUS
  <2> QED BY <2>1, <2>2
<1> HIDE DEF c, p
<1>4. Laid(s, p, c)
  BY <1>1, <1>2 DEF Laid
<1>5. After(p, c) = Spot(0, y + h, z, o)
  BY <1>1, <1>2 DEF After, LineBelow
<1>6. Leads(s, p, <<c>>, After(p, c))
  BY <1>2, <1>4, OneCall
<1> QED BY <1>3, <1>5, <1>6 DEF p

LEMMA ALineLeads ==
    ASSUME NEW s, NEW x \in Int, NEW y \in Int, NEW z, NEW o \in Int, NEW w \in Int, NEW h \in Int, w = 8 * z, h = 16 * z, h >= 0,
           NEW t \in STRING, Len(t) \in Nat, Len(t) >= 1,
           o <= y, x + (Len(t) + 1) * w <= Width, y + 2 * h <= Height,
           s = "welcome" => InFrame(Spot(x, y, z, o), [call |-> "text", text |-> t])
    PROVE  Leads(s, Spot(x, y, z, o), Line(t), Spot(0, y + h, z, o))
<1>1. Height \in Int
  BY ConsoleAssumption
<1> DEFINE e == x + Len(t) * w
<1>2. y + h <= Height
  <2>1. \A a, b, d \in Int : b >= 0 /\ a + 2 * b <= d => a + b <= d
    OBVIOUS
  <2> QED BY <1>1, <2>1
<1>3. Leads(s, Spot(x, y, z, o), Text(t), Spot(e, y, z, o))
  BY <1>2, ATextLeads
<1> HIDE DEF e
<1>4. Leads(s, Spot(e, y, z, o), Break(1), Spot(0, y + h, z, o))
  BY <1>2, ABreakLeads
<1> QED BY <1>3, <1>4, Joined DEF Line

LEMMA AZoomLeads ==
    ASSUME NEW s, NEW x, NEW y \in Int, NEW z, NEW o \in Int, NEW h \in Int, h = 16 * z, y + 2 * h <= Height, NEW to \in Zoom
    PROVE  Leads(s, Spot(x, y, z, o), set_zoom(to), Spot(0, y + h, to, o))
<1> DEFINE p == Spot(x, y, z, o)
           c == [call |-> "zoom", zoom |-> to]
<1>1. CellH(p) = h /\ p.x = x /\ p.y = y /\ p.zoom = z /\ p.low = o
  BY SpotSize
<1>2. c \in Calls /\ c.call = "zoom" /\ c.zoom = to
  <2>1. to \in Int
    BY ConsoleAssumption DEF Zoom
  <2> QED BY <2>1 DEF Calls
<1> HIDE DEF c, p
<1>3. Laid(s, p, c)
  BY <1>1, <1>2 DEF Laid
<1>4. After(p, c) = Spot(0, y + h, to, o)
  BY <1>1, <1>2 DEF After, LineBelow
<1>5. Leads(s, p, <<c>>, After(p, c))
  BY <1>2, <1>3, OneCall
<1>6. set_zoom(to) = <<c>>
  BY DEF set_zoom, c
<1> QED BY <1>4, <1>5, <1>6 DEF p

LEMMA ACursorLeads ==
    ASSUME NEW s, NEW x, NEW y, NEW z, NEW o, NEW u \in 0..Width, NEW v \in 0..Height
    PROVE  Leads(s, Spot(x, y, z, o), set_cursor(u, v), Spot(u, v, z, o))
<1> DEFINE p == Spot(x, y, z, o)
           c == [call |-> "cursor", x |-> u, y |-> v]
<1>1. p.x = x /\ p.y = y /\ p.zoom = z /\ p.low = o
  BY SpotSize
<1>2. c \in Calls /\ c.call = "cursor" /\ c.x = u /\ c.y = v
  BY DEF Calls
<1> HIDE DEF c, p
<1>3. Laid(s, p, c)
  BY <1>1, <1>2 DEF Laid
<1>4. After(p, c) = Spot(u, v, z, o)
  BY <1>1, <1>2 DEF After
<1>5. Leads(s, p, <<c>>, After(p, c))
  BY <1>2, <1>3, OneCall
<1>6. set_cursor(u, v) = <<c>>
  BY DEF set_cursor, c
<1> QED BY <1>4, <1>5, <1>6 DEF p

LEMMA AClearLeads ==
    ASSUME NEW s, NEW x, NEW y, NEW z, NEW o
    PROVE  Leads(s, Spot(x, y, z, o), clear_screen, Spot(0, 0, z, o))
<1> DEFINE p == Spot(x, y, z, o)
           c == [call |-> "clear"]
<1>1. p.x = x /\ p.y = y /\ p.zoom = z /\ p.low = o
  BY SpotSize
<1>2. c \in Calls /\ c.call = "clear"
  BY DEF Calls
<1> HIDE DEF c, p
<1>3. Laid(s, p, c)
  BY <1>1, <1>2 DEF Laid
<1>4. After(p, c) = Spot(0, 0, z, o)
  BY <1>1, <1>2 DEF After
<1>5. Leads(s, p, <<c>>, After(p, c))
  BY <1>2, <1>3, OneCall
<1>6. clear_screen = <<c>>
  BY DEF clear_screen, c
<1> QED BY <1>4, <1>5, <1>6 DEF p

\* Shapes leave the cursor where it is.
LEMMA ShapesLead ==
    ASSUME NEW s, NEW p, NEW a \in Seq(Calls),
           \A i \in 1..Len(a) : a[i].call \in {"rectangle", "circle"} /\ Laid(s, p, a[i])
    PROVE  Leads(s, p, a, p)
<1> DEFINE f == [i \in 0..Len(a) |-> p]
<1> HIDE DEF Calls
<1>1. Len(a) \in Nat
  OBVIOUS
<1>2. f[0] = p /\ f[Len(a)] = p /\ \A i \in 1..Len(a) : f[i - 1] = p /\ f[i] = p
  BY <1>1
<1> HIDE DEF f
<1>3. ASSUME NEW i \in 1..Len(a) PROVE After(p, a[i]) = p
  BY DEF After
<1>4. Path(s, p, a, f)
  BY <1>2, <1>3 DEF Path
<1> QED BY <1>2, <1>4 DEF Leads

\* What the i-th of n rows of height h takes.
RowSums(i, n, h) ==
    /\ (i - 1) * h \in Nat /\ (i - 1) * h + h = i * h
    /\ i * h <= n * h /\ i * h \in Int /\ n * h \in Int /\ (n + 1) * h = n * h + h

LEMMA RowsSum ==
    ASSUME NEW n \in Nat, NEW h \in Nat, NEW i \in 1..n
    PROVE  RowSums(i, n, h)
<1>1. i \in Int /\ n - i \in Nat
  OBVIOUS
<1>2. (n - i) * h \in Nat /\ (i - 1) * h \in Nat
  <2>1. i - 1 \in Nat
    OBVIOUS
  <2> QED BY <1>1, <2>1
<1>3. (n - i) * h = n * h - i * h
  BY <1>1
<1> QED BY <1>1, <1>2, <1>3 DEF RowSums

\* The call k of the lines is one of the two of line (k + 1) \div 2.
Halves(n, k, i) == i \in 1..n /\ (k = 2 * i - 1 \/ k = 2 * i)

Doubles(n, i) ==
    /\ 2 * i - 2 \in 0..2 * n /\ (2 * i - 2) % 2 = 0 /\ (2 * i - 2) \div 2 = i - 1
    /\ 2 * i - 1 \in 0..2 * n /\ (2 * i - 1) % 2 = 1 /\ (2 * i - 1) \div 2 = i - 1 /\ ((2 * i - 1) + 1) \div 2 = i
    /\ 2 * i \in 0..2 * n /\ (2 * i) % 2 = 0 /\ (2 * i) \div 2 = i

LEMMA Doubled ==
    ASSUME NEW n \in Nat, NEW i \in 1..n
    PROVE  Doubles(n, i)
BY DEF Doubles

LEMMA Halved ==
    ASSUME NEW n \in Nat, NEW k \in 1..2 * n
    PROVE  Halves(n, k, (k + 1) \div 2)
BY DEF Halves

\* Below y there is room for n lines of m characters in cells of zoom z, and for
\* the line and the cell the cursor is at after each.
RoomForLines(y, z, w, h, n, m) ==
    w = 8 * z /\ h = 16 * z /\ y + (n + 1) * h <= Height /\ (m + 1) * w <= Width

\* Lines of at most m characters, one below the other.
LEMMA LinesLead ==
    ASSUME NEW s, s # "welcome", NEW y \in Int, NEW z, NEW o \in Int, o <= y, NEW w \in Nat, NEW h \in Nat,
           NEW texts \in Seq(STRING), NEW n \in Nat, Len(texts) = n,
           NEW m \in Nat, \A i \in 1..n : Len(texts[i]) \in 1..m,
           RoomForLines(y, z, w, h, n, m)
    PROVE  Leads(s, Spot(0, y, z, o), Lines(texts), Spot(0, y + n * h, z, o))
<1> DEFINE a(k) == Line(texts[(k + 1) \div 2])[2 - (k % 2)]
           f == [k \in 0..2 * n |-> IF k % 2 = 0 THEN Spot(0, y + (k \div 2) * h, z, o)
                                    ELSE Spot(Len(texts[(k + 1) \div 2]) * w, y + (k \div 2) * h, z, o)]
<1>1. Height \in Int /\ Width \in Int
  BY ConsoleAssumption
<1>2. ASSUME NEW i \in 1..n
      PROVE  /\ a(2 * i - 1) = [call |-> "text", text |-> texts[i]] /\ a(2 * i) = [call |-> "break"]
             /\ texts[i] \in STRING
  <2>1. i \in Nat /\ i >= 1 /\ texts[i] \in STRING
    OBVIOUS
  <2>2. /\ ((2 * i - 1) + 1) \div 2 = i /\ (2 * i - 1) % 2 = 1
        /\ (2 * i + 1) \div 2 = i /\ (2 * i) % 2 = 0
    BY <2>1
  <2>3. ASSUME NEW t PROVE Line(t)[1] = [call |-> "text", text |-> t] /\ Line(t)[2] = [call |-> "break"]
    <3>1. Break(1) = <<[call |-> "break"]>>
      <4> DEFINE c == [call |-> "break"]
      <4>1. Break(1) = [j \in 1..1 |-> c]
        BY DEF Break
      <4> HIDE DEF c
      <4>2. 1..1 = {1}
        OBVIOUS
      <4>3. Break(1) = <<c>>
        BY <4>1, <4>2
      <4> QED BY <4>3 DEF c
    <3> DEFINE c == [call |-> "text", text |-> t]
               b == [call |-> "break"]
    <3>2. Line(t) = <<c>> \o <<b>>
      BY <3>1 DEF Line, Text
    <3> HIDE DEF b, c
    <3>3. (<<c>> \o <<b>>)[1] = c /\ (<<c>> \o <<b>>)[2] = b
      BY SMTT(30)
    <3>4. Line(t)[1] = c /\ Line(t)[2] = b
      BY <3>2, <3>3
    <3> QED BY <3>4 DEF b, c
  <2>4. /\ a(2 * i - 1) = Line(texts[i])[2 - 1] /\ a(2 * i) = Line(texts[i])[2 - 0]
    BY <2>2
  <2>5. 2 - 1 = 1 /\ 2 - 0 = 2
    OBVIOUS
  <2> HIDE DEF a
  <2> QED BY <2>1, <2>3, <2>4, <2>5
<1> HIDE DEF a
<1>3. ASSUME NEW k \in 1..2 * n
      PROVE  \E i \in 1..n : k = 2 * i - 1 \/ k = 2 * i
  <2> DEFINE i == (k + 1) \div 2
  <2>1. i \in 1..n /\ (k = 2 * i - 1 \/ k = 2 * i)
    BY Halved DEF Halves
  <2> HIDE DEF i
  <2> QED BY <2>1
<1>4. Lines(texts) = [k \in 1..2 * n |-> a(k)]
  BY DEF Lines, a
<1>5. Lines(texts) \in Seq(Calls) /\ Len(Lines(texts)) = 2 * n
  <2>1. ASSUME NEW k \in 1..2 * n PROVE a(k) \in Calls
    <3>1. PICK i \in 1..n : k = 2 * i - 1 \/ k = 2 * i
      BY <1>3
    <3>2. a(2 * i - 1) \in Calls /\ a(2 * i) \in Calls
      <4>1. texts[i] \in STRING /\ a(2 * i - 1) = [call |-> "text", text |-> texts[i]] /\ a(2 * i) = [call |-> "break"]
        BY <1>2
      <4> DEFINE t == texts[i]
      <4> HIDE DEF t
      <4>2. t \in STRING => [call |-> "text", text |-> t] \in Calls
        BY DEF Calls
      <4>3. [call |-> "break"] \in Calls
        BY DEF Calls
      <4> HIDE DEF Calls
      <4> QED BY <4>1, <4>2, <4>3 DEF t
    <3> QED BY <3>1, <3>2
  <2>2. 2 * n \in Nat
    OBVIOUS
  <2> HIDE DEF Calls
  <2> QED BY <1>4, <2>1, <2>2
<1>6. ASSUME NEW i \in 1..n
      PROVE  /\ f[2 * i - 2] = Spot(0, y + (i - 1) * h, z, o)
             /\ f[2 * i - 1] = Spot(Len(texts[i]) * w, y + (i - 1) * h, z, o)
             /\ f[2 * i] = Spot(0, y + i * h, z, o)
  <2>1. i \in Nat /\ i >= 1 /\ i <= n
    OBVIOUS
  <2>2. /\ 2 * i - 2 \in 0..2 * n /\ (2 * i - 2) % 2 = 0 /\ (2 * i - 2) \div 2 = i - 1
        /\ 2 * i - 1 \in 0..2 * n /\ (2 * i - 1) % 2 = 1 /\ (2 * i - 1) \div 2 = i - 1 /\ ((2 * i - 1) + 1) \div 2 = i
        /\ 2 * i \in 0..2 * n /\ (2 * i) % 2 = 0 /\ (2 * i) \div 2 = i
    BY Doubled DEF Doubles
  <2> DEFINE Start(d) == Spot(0, y + d * h, z, o)
             Behind(j, d) == Spot(Len(texts[j]) * w, y + d * h, z, o)
  <2>3. ASSUME NEW k \in 0..2 * n
        PROVE  f[k] = IF k % 2 = 0 THEN Start(k \div 2) ELSE Behind((k + 1) \div 2, k \div 2)
    OBVIOUS
  <2> HIDE DEF f, Start, Behind
  <2>4. f[2 * i - 2] = Start(i - 1)
    BY <2>2, <2>3
  <2>5. f[2 * i - 1] = Behind(i, i - 1)
    <3> DEFINE k == 2 * i - 1
    <3>1. k \in 0..2 * n /\ k % 2 = 1 /\ k \div 2 = i - 1 /\ (k + 1) \div 2 = i
      BY <2>2
    <3> HIDE DEF k
    <3>2. f[k] = Behind((k + 1) \div 2, k \div 2)
      BY <2>3, <3>1
    <3>3. f[k] = Behind(i, i - 1)
      BY <3>1, <3>2
    <3> QED BY <3>3 DEF k
  <2>6. f[2 * i] = Start(i)
    BY <2>2, <2>3
  <2> QED BY <2>4, <2>5, <2>6 DEF Start, Behind
<1>7. f[0] = Spot(0, y, z, o) /\ f[2 * n] = Spot(0, y + n * h, z, o)
  <2>1. 0 \in 0..2 * n /\ 2 * n \in 0..2 * n /\ 0 % 2 = 0 /\ 0 \div 2 = 0 /\ (2 * n) % 2 = 0 /\ (2 * n) \div 2 = n
    OBVIOUS
  <2>2. y + 0 * h = y
    OBVIOUS
  <2> QED BY <2>1, <2>2
<1> HIDE DEF f
<1>8. ASSUME NEW i \in 1..n
      PROVE  /\ Laid(s, f[2 * i - 2], a(2 * i - 1)) /\ f[2 * i - 1] = After(f[2 * i - 2], a(2 * i - 1))
             /\ Laid(s, f[2 * i - 1], a(2 * i)) /\ f[2 * i] = After(f[2 * i - 1], a(2 * i))
  <2> DEFINE v == y + (i - 1) * h
             l == Len(texts[i])
             p == Spot(0, v, z, o)
             u == l * w
             q == Spot(u, v, z, o)
             c == [call |-> "text", text |-> texts[i]]
  <2>1. v \in Int /\ y <= v /\ v + h = y + i * h /\ v + 2 * h <= Height /\ v + h <= Height
    <3>1. i \in Nat /\ i >= 1 /\ i <= n
      OBVIOUS
    <3>2. RowSums(i, n, h)
      BY <3>1, RowsSum
    <3>3. /\ (i - 1) * h \in Nat /\ (i - 1) * h + h = i * h
          /\ i * h <= n * h /\ i * h \in Int /\ n * h \in Int /\ (n + 1) * h = n * h + h
      BY <3>2 DEF RowSums
    <3> DEFINE ih == i * h
               jh == (i - 1) * h
               nh == n * h
    <3> HIDE DEF ih, jh, nh
    <3>4. v = y + jh /\ jh + h = ih /\ ih <= nh /\ y + (nh + h) <= Height /\ ih \in Int /\ jh \in Nat /\ nh \in Int
      BY <3>3 DEF ih, jh, nh, RoomForLines
    <3>5. v \in Int /\ y <= v /\ v + h = y + ih /\ v + 2 * h <= Height /\ v + h <= Height
      <4>1. \A b \in Int : jh + h = ih /\ ih <= nh /\ y + (nh + h) <= Height /\ b = y + jh
                              => y <= b /\ b + h = y + ih /\ b + 2 * h <= Height /\ b + h <= Height
        BY <1>1, <3>4
      <4>2. y + jh \in Int
        BY <3>4
      <4> HIDE DEF v
      <4> QED BY <3>4, <4>1, <4>2
    <3> QED BY <3>5 DEF ih
  <2>2. l \in Nat /\ l >= 1 /\ 0 + (l + 1) * w <= Width
    <3>1. l \in Nat /\ l >= 1 /\ l <= m
      OBVIOUS
    <3>2. (l + 1) * w <= (m + 1) * w /\ (l + 1) * w \in Int /\ (m + 1) * w \in Int
      <4> DEFINE b == l + 1
                 e == m + 1
      <4>1. e \in Nat /\ b \in 1..e
        BY <3>1
      <4> HIDE DEF b, e
      <4>2. RowSums(b, e, w)
        BY <4>1, RowsSum
      <4> QED BY <4>2 DEF RowSums, b, e
    <3> DEFINE lw == (l + 1) * w
               mw == (m + 1) * w
    <3> HIDE DEF lw, mw
    <3>3. lw <= mw /\ mw <= Width /\ lw \in Int /\ mw \in Int
      BY <3>2 DEF lw, mw, RoomForLines
    <3>4. 0 + lw <= Width
      BY <1>1, <3>3
    <3> QED BY <3>1, <3>4 DEF lw
  <2>3. /\ CellW(p) = w /\ CellH(p) = h /\ p.x = 0 /\ p.y = v /\ p.zoom = z /\ p.low = o
        /\ CellW(q) = w /\ CellH(q) = h /\ q.x = u /\ q.y = v /\ q.zoom = z /\ q.low = o
    <3> HIDE DEF u, v
    <3>1. w = 8 * z /\ h = 16 * z
      BY DEF RoomForLines
    <3>2. CellW(p) = w /\ CellH(p) = h /\ p.x = 0 /\ p.y = v /\ p.zoom = z /\ p.low = o
      BY <3>1, SpotSize
    <3>3. CellW(q) = w /\ CellH(q) = h /\ q.x = u /\ q.y = v /\ q.zoom = z /\ q.low = o
      BY <3>1, SpotSize
    <3> QED BY <3>2, <3>3
  <2>4. f[2 * i - 2] = p /\ f[2 * i - 1] = q /\ f[2 * i] = Spot(0, v + h, z, o)
    BY <1>6, <2>1
  <2>5. c.call = "text" /\ c.text = texts[i]
    OBVIOUS
  <2>6. [call |-> "break"].call = "break"
    OBVIOUS
  <2>7. 0 + l * w = l * w
    BY <2>2
  <2> HIDE DEF v, p, q, c
  <2>8. Laid(s, p, c) /\ After(p, c) = q
    <3>1. Laid(s, p, c)
      <4>2. o <= v
        BY <2>1
      <4> HIDE DEF l
      <4>1. Len(c.text) = l
        BY <2>5 DEF l
      <4> QED BY <2>1, <2>2, <2>3, <2>5, <4>1, <4>2 DEF Laid
    <3>2. After(p, c) = q
      BY <2>3, <2>5, <2>7 DEF After, q
    <3> QED BY <3>1, <3>2
  <2>9. Laid(s, q, [call |-> "break"]) /\ After(q, [call |-> "break"]) = Spot(0, v + h, z, o)
    BY <2>1, <2>3, <2>6 DEF Laid, After, LineBelow
  <2>10. a(2 * i - 1) = c /\ a(2 * i) = [call |-> "break"]
    BY <1>2 DEF c
  <2> QED BY <2>4, <2>8, <2>9, <2>10
<1>9. ASSUME NEW k \in 1..2 * n PROVE Laid(s, f[k - 1], Lines(texts)[k]) /\ f[k] = After(f[k - 1], Lines(texts)[k])
  <2>1. PICK i \in 1..n : k = 2 * i - 1 \/ k = 2 * i
    BY <1>3
  <2>2. Lines(texts)[k] = a(k)
    BY <1>4
  <2>3. (2 * i - 1) - 1 = 2 * i - 2
    OBVIOUS
  <2> QED BY <1>8, <2>1, <2>2, <2>3
<1>10. Path(s, Spot(0, y, z, o), Lines(texts), f)
  BY <1>5, <1>7, <1>9 DEF Path
<1> QED BY <1>5, <1>7, <1>10 DEF Leads

-----------------------------------------------------------------------------
(* The screens: one call after another *)

\* t can be written, in at most n cells.
Short(t, n) == t \in STRING /\ Len(t) \in Nat /\ Len(t) >= 1 /\ Len(t) <= n

\* Right of x there is room for n characters in zoom z, and for one cell behind.
RoomForText(x, n, z) == x + (n + 1) * (8 * z) <= Width

\* n texts that can each be written in 58 cells.
ShortTexts(texts, n) == texts \in Seq(STRING) /\ Len(texts) = n /\ \A i \in 1..n : Len(texts[i]) \in 1..58

\* A script a that led to x, y goes on with one more part.  Outside the welcome
\* screen a text needs room for the cell behind it.
LEMMA ThenText ==
    ASSUME NEW s, s # "welcome", NEW p, NEW a, NEW x \in Int, NEW y \in Int, NEW z \in Nat, NEW o \in Int,
           Leads(s, p, a, Spot(x, y, z, o)),
           NEW t, NEW n \in Nat, Short(t, n),
           o <= y, RoomForText(x, n, z), y + 16 * z <= Height
    PROVE  \E e : Leads(s, p, a \o Text(t), Spot(e, y, z, o))
<1> DEFINE w == 8 * z
           h == 16 * z
           l == Len(t)
<1>1. w \in Int /\ h \in Int /\ w = 8 * z /\ h = 16 * z
  OBVIOUS
<1>2. y + h <= Height
  OBVIOUS
<1>3. w \in Nat
  OBVIOUS
<1>4. Width \in Int /\ t \in STRING /\ l \in Nat /\ l >= 1 /\ l <= n
  BY ConsoleAssumption DEF Short
<1> HIDE DEF w, h, l
<1>5. x + (l + 1) * w <= Width
  <2> DEFINE b == l + 1
             e == n + 1
             bw == b * w
             ew == e * w
  <2>1. e \in Nat /\ b \in 1..e
    BY <1>4
  <2> HIDE DEF b, e
  <2>2. bw \in Int /\ ew \in Int /\ bw <= ew
    BY <1>3, <2>1, RowsSum DEF RowSums
  <2> HIDE DEF bw, ew
  <2>3. x + ew <= Width
    BY DEF e, ew, w, RoomForText
  <2>4. x + bw <= Width
    BY <1>4, <2>2, <2>3
  <2> QED BY <2>4 DEF b, bw
<1>6. t \in STRING /\ Len(t) \in Nat /\ Len(t) >= 1 /\ x + (Len(t) + 1) * w <= Width
  BY <1>4, <1>5 DEF l
<1>7. Leads(s, Spot(x, y, z, o), Text(t), Spot(x + Len(t) * w, y, z, o))
  BY <1>1, <1>2, <1>6, ATextLeads
<1>8. Leads(s, p, a \o Text(t), Spot(x + Len(t) * w, y, z, o))
  BY <1>7, Joined
<1> QED BY <1>8

LEMMA ThenBreak ==
    ASSUME NEW s, NEW p, NEW a, NEW x, NEW y \in Int, NEW z \in Nat, NEW o \in Int,
           Leads(s, p, a, Spot(x, y, z, o)), y + 2 * (16 * z) <= Height
    PROVE  Leads(s, p, a \o Break(1), Spot(0, y + 16 * z, z, o))
<1> DEFINE h == 16 * z
<1>1. h \in Int /\ h = 16 * z
  OBVIOUS
<1>2. y + 2 * h <= Height
  OBVIOUS
<1> HIDE DEF h
<1>3. Leads(s, Spot(x, y, z, o), Break(1), Spot(0, y + h, z, o))
  BY <1>1, <1>2, ABreakLeads
<1> QED BY <1>3, Joined DEF h

LEMMA ThenZoom ==
    ASSUME NEW s, NEW p, NEW a, NEW x, NEW y \in Int, NEW z \in Nat, NEW o \in Int,
           Leads(s, p, a, Spot(x, y, z, o)), y + 2 * (16 * z) <= Height, NEW to \in Zoom
    PROVE  Leads(s, p, a \o set_zoom(to), Spot(0, y + 16 * z, to, o))
<1> DEFINE h == 16 * z
<1>1. h \in Int /\ h = 16 * z
  OBVIOUS
<1>2. y + 2 * h <= Height
  OBVIOUS
<1> HIDE DEF h
<1>3. Leads(s, Spot(x, y, z, o), set_zoom(to), Spot(0, y + h, to, o))
  BY <1>1, <1>2, AZoomLeads
<1> QED BY <1>3, Joined DEF h

LEMMA ThenCursor ==
    ASSUME NEW s, NEW p, NEW a, NEW x, NEW y, NEW z, NEW o, Leads(s, p, a, Spot(x, y, z, o)),
           NEW u \in 0..Width, NEW v \in 0..Height
    PROVE  Leads(s, p, a \o set_cursor(u, v), Spot(u, v, z, o))
<1>1. Leads(s, Spot(x, y, z, o), set_cursor(u, v), Spot(u, v, z, o))
  BY ACursorLeads
<1> QED BY <1>1, Joined

LEMMA ThenLine ==
    ASSUME NEW s, s # "welcome", NEW p, NEW a, NEW x \in Int, NEW y \in Int, NEW z \in Nat, NEW o \in Int,
           Leads(s, p, a, Spot(x, y, z, o)),
           NEW t, NEW n \in Nat, Short(t, n),
           o <= y, RoomForText(x, n, z), y + 2 * (16 * z) <= Height
    PROVE  Leads(s, p, a \o Line(t), Spot(0, y + 16 * z, z, o))
<1> DEFINE w == 8 * z
           h == 16 * z
           l == Len(t)
<1>1. w \in Int /\ h \in Int /\ h >= 0 /\ w = 8 * z /\ h = 16 * z
  OBVIOUS
<1>2. y + 2 * h <= Height
  OBVIOUS
<1>3. w \in Nat
  OBVIOUS
<1>4. Width \in Int /\ t \in STRING /\ l \in Nat /\ l >= 1 /\ l <= n
  BY ConsoleAssumption DEF Short
<1> HIDE DEF w, h, l
<1>5. x + (l + 1) * w <= Width
  <2> DEFINE b == l + 1
             e == n + 1
             bw == b * w
             ew == e * w
  <2>1. e \in Nat /\ b \in 1..e
    BY <1>4
  <2> HIDE DEF b, e
  <2>2. bw \in Int /\ ew \in Int /\ bw <= ew
    BY <1>3, <2>1, RowsSum DEF RowSums
  <2> HIDE DEF bw, ew
  <2>3. x + ew <= Width
    BY DEF e, ew, w, RoomForText
  <2>4. x + bw <= Width
    BY <1>4, <2>2, <2>3
  <2> QED BY <2>4 DEF b, bw
<1>6. t \in STRING /\ Len(t) \in Nat /\ Len(t) >= 1 /\ x + (Len(t) + 1) * w <= Width
  BY <1>4, <1>5 DEF l
<1>7. Leads(s, Spot(x, y, z, o), Line(t), Spot(0, y + h, z, o))
  BY <1>1, <1>2, <1>6, ALineLeads
<1> QED BY <1>7, Joined DEF h

LEMMA ThenLines ==
    ASSUME NEW s, s # "welcome", NEW p, NEW a, NEW y \in Int, NEW z \in Nat, NEW o \in Int,
           Leads(s, p, a, Spot(0, y, z, o)), o <= y,
           NEW texts, NEW n \in Nat, ShortTexts(texts, n),
           59 * (8 * z) <= Width, y + (n + 1) * (16 * z) <= Height
    PROVE  Leads(s, p, a \o Lines(texts), Spot(0, y + n * (16 * z), z, o))
<1> DEFINE w == 8 * z
           h == 16 * z
<1>1. w \in Nat /\ h \in Nat /\ RoomForLines(y, z, w, h, n, 58)
  <2>1. w \in Nat /\ h \in Nat /\ 58 + 1 = 59
    OBVIOUS
  <2> QED BY <2>1 DEF RoomForLines
<1> HIDE DEF w, h
<1>2. Leads(s, Spot(0, y, z, o), Lines(texts), Spot(0, y + n * h, z, o))
  BY <1>1, LinesLead DEF ShortTexts
<1> QED BY <1>2, Joined DEF h

-----------------------------------------------------------------------------
(* The screens: their texts *)

LEMMA TextsAreShort ==
    /\ Short(WelcomeLines[1], 35) /\ Short(WelcomeLines[2], 33) /\ Short(WelcomeLines[3], 58)
    /\ Short(WelcomeLines[4], 58)
    /\ Short(MenuLines[1], 24) /\ \A i \in 2..5 : Short(MenuLines[i], 41)
    /\ Short(InstructionLines[1], 31) /\ Short(InstructionLines[2], 58)
    /\ Short(CompleteLines[1], 24) /\ Short(CompleteLines[2], 41) /\ Short(CompleteLines[3], 41)
    /\ Short(AllCompleteLines[1], 20) /\ Short(AllCompleteLines[2], 31)
    /\ Short(HelpEnd, 58) /\ Short(Count, 58)
<1>0. \A l \in 1..58 : l \in Nat /\ l >= 1 /\ l <= 58
  OBVIOUS
<1>1. ASSUME NEW texts \in {WelcomeLines, MenuLines, InstructionLines, CompleteLines, AllCompleteLines, <<HelpEnd, Count>>},
             NEW i \in 1..Len(texts)
      PROVE  Short(texts[i], 58)
  <2>1. texts \in Seq(STRING) /\ \A j \in DOMAIN texts : Len(texts[j]) \in 1..58
    BY TextsAssumption
  <2>2. i \in DOMAIN texts /\ texts[i] \in STRING
    BY <2>1
  <2>3. Len(texts[i]) \in 1..58
    BY <2>1, <2>2
  <2> DEFINE t == texts[i]
             l == Len(t)
  <2>4. l \in 1..58 /\ t \in STRING
    BY <2>2, <2>3
  <2> HIDE DEF l
  <2>5. l \in Nat /\ l >= 1 /\ l <= 58
    BY <1>0, <2>4
  <2> QED BY <2>4, <2>5 DEF Short, l
<1>2. /\ Len(WelcomeLines) = 4 /\ Len(MenuLines) = 5 /\ Len(InstructionLines) = 2 /\ Len(CompleteLines) = 3
      /\ Len(AllCompleteLines) = 2 /\ Len(<<HelpEnd, Count>>) = 2 /\ <<HelpEnd, Count>>[1] = HelpEnd
      /\ <<HelpEnd, Count>>[2] = Count
  BY DEF WelcomeLines, MenuLines, InstructionLines, CompleteLines, AllCompleteLines
<1>3. /\ Short(WelcomeLines[1], 58) /\ Short(WelcomeLines[2], 58) /\ Short(WelcomeLines[3], 58)
      /\ Short(WelcomeLines[4], 58)
  <2>1. Len(WelcomeLines) = 4 /\ 1 \in 1..4 /\ 2 \in 1..4 /\ 3 \in 1..4 /\ 4 \in 1..4
    BY <1>2
  <2>2. \A i \in 1..4 : Short(WelcomeLines[i], 58)
    BY <1>1, <2>1
  <2> QED BY <2>1, <2>2
<1>4. \A i \in 1..5 : Short(MenuLines[i], 58)
  BY <1>1, <1>2
<1>5. Short(InstructionLines[1], 58) /\ Short(InstructionLines[2], 58)
  <2>1. Len(InstructionLines) = 2 /\ 1 \in 1..2 /\ 2 \in 1..2
    BY <1>2
  <2>2. \A i \in 1..2 : Short(InstructionLines[i], 58)
    BY <1>1, <2>1
  <2> QED BY <2>1, <2>2
<1>6. Short(CompleteLines[1], 58) /\ Short(CompleteLines[2], 58) /\ Short(CompleteLines[3], 58)
  <2>1. Len(CompleteLines) = 3 /\ 1 \in 1..3 /\ 2 \in 1..3 /\ 3 \in 1..3
    BY <1>2
  <2>2. \A i \in 1..3 : Short(CompleteLines[i], 58)
    BY <1>1, <2>1
  <2> QED BY <2>1, <2>2
<1>7. Short(AllCompleteLines[1], 58) /\ Short(AllCompleteLines[2], 58)
  <2>1. Len(AllCompleteLines) = 2 /\ 1 \in 1..2 /\ 2 \in 1..2
    BY <1>2
  <2>2. \A i \in 1..2 : Short(AllCompleteLines[i], 58)
    BY <1>1, <2>1
  <2> QED BY <2>1, <2>2
<1>8. Short(HelpEnd, 58) /\ Short(Count, 58)
  <2>1. 1 \in 1..2 /\ 2 \in 1..2
    OBVIOUS
  <2> DEFINE q == <<HelpEnd, Count>>
  <2>2. q \in {WelcomeLines, MenuLines, InstructionLines, CompleteLines, AllCompleteLines, q} /\ Len(q) = 2
        /\ q[1] = HelpEnd /\ q[2] = Count
    BY <1>2
  <2> HIDE DEF q
  <2>3. Short(q[1], 58) /\ Short(q[2], 58)
    BY <1>1, <2>1, <2>2 DEF q
  <2> QED BY <2>2, <2>3
<1>9. ASSUME NEW t, NEW n, Short(t, 58), Len(t) <= n PROVE Short(t, n)
  BY <1>9 DEF Short
<1>10. /\ Len(WelcomeLines[1]) <= 35 /\ Len(WelcomeLines[2]) <= 33 /\ Len(MenuLines[1]) <= 24
       /\ Len(InstructionLines[1]) <= 31 /\ Len(CompleteLines[1]) <= 24 /\ Len(CompleteLines[2]) <= 41
       /\ Len(CompleteLines[3]) <= 41
       /\ Len(AllCompleteLines[1]) <= 20 /\ Len(AllCompleteLines[2]) <= 31 /\ \A i \in 2..5 : Len(MenuLines[i]) <= 41
  <2>1. \A i \in 2..3 : Len(CompleteLines[i]) <= 41
    BY TextsAssumption
  <2>2. 2 \in 2..3 /\ 3 \in 2..3
    OBVIOUS
  <2>3. Len(CompleteLines[2]) <= 41 /\ Len(CompleteLines[3]) <= 41
    BY <2>1, <2>2
  <2> QED BY <2>3, TextsAssumption
<1>11. \A i \in 2..5 : Short(MenuLines[i], 41)
  <2> TAKE i \in 2..5
  <2>1. i \in 1..5
    OBVIOUS
  <2> QED BY <1>4, <1>9, <1>10, <2>1
<1>12. Short(MenuLines[1], 24)
  <2>1. 1 \in 1..5
    OBVIOUS
  <2> QED BY <1>4, <1>9, <1>10, <2>1
<1> QED BY <1>3, <1>5, <1>6, <1>7, <1>8, <1>9, <1>10, <1>11, <1>12

LEMMA ListsAreShort == ShortTexts(HelpLines, 9) /\ ShortTexts(FirstKeys, 5) /\ ShortTexts(SecondKeys, 5)
<1>1. Len(HelpLines) = 9 /\ Len(FirstKeys) = 5 /\ Len(SecondKeys) = 5
  BY DEF HelpLines, FirstKeys, SecondKeys
<1>2. ASSUME NEW texts \in {HelpLines, FirstKeys, SecondKeys}, NEW n \in Nat, Len(texts) = n
      PROVE  ShortTexts(texts, n)
  <2>1. texts \in Seq(STRING) /\ \A i \in DOMAIN texts : Len(texts[i]) \in 1..58
    BY TextsAssumption
  <2>2. DOMAIN texts = 1..n
    BY <1>2, <2>1
  <2> QED BY <1>2, <2>1, <2>2 DEF ShortTexts
<1> QED BY <1>1, <1>2

-----------------------------------------------------------------------------
(* The screens: each leads from its start to its end *)

LEMMA InstructionsLead == \E q : Leads("instructions", Spot(0, 0, 3, 0), drawInstructions, q)
<1> DEFINE p == Spot(0, 0, 3, 0)
           a1 == clear_screen
           a2 == a1 \o set_zoom(4)
           a3 == a2 \o Line(InstructionLines[1])
           a4 == a3 \o Break(1)
           a5 == a4 \o set_zoom(2)
           a6 == a5 \o Lines(FirstKeys)
           a7 == a6 \o Break(1)
           a8 == a7 \o Lines(SecondKeys)
           a9 == a8 \o Break(1)
           a10 == a9 \o Line(InstructionLines[2])
<1> HIDE DEF p, a1, a2, a3, a4, a5, a6, a7, a8, a9, a10
<1>1. Width \in Int /\ Height \in Int /\ Width >= 1024 /\ Height >= 768
  BY ScreensAssumption, ConsoleAssumption
<1>2. 2 \in Zoom
  BY ScreensAssumption, ConsoleAssumption DEF Zoom
<1>3. 4 \in Zoom
  BY ScreensAssumption, ConsoleAssumption DEF Zoom
<1>4. Short(InstructionLines[1], 31)
  BY TextsAreShort, ListsAreShort
<1>5. Short(InstructionLines[2], 58)
  BY TextsAreShort, ListsAreShort
<1>6. ShortTexts(FirstKeys, 5)
  BY TextsAreShort, ListsAreShort
<1>7. ShortTexts(SecondKeys, 5)
  BY TextsAreShort, ListsAreShort
<1>8. Leads("instructions", p, a1, Spot(0, 0, 3, 0))
  BY <1>1, AClearLeads DEF p, a1
<1>9. Leads("instructions", p, a2, Spot(0, 48, 4, 0))
  BY <1>1, <1>3, <1>8, ThenZoom DEF a2
<1>10. Leads("instructions", p, a3, Spot(0, 112, 4, 0))
  BY <1>1, <1>4, <1>9, ThenLine DEF a3, RoomForText
<1>11. Leads("instructions", p, a4, Spot(0, 176, 4, 0))
  BY <1>1, <1>10, ThenBreak DEF a4
<1>12. Leads("instructions", p, a5, Spot(0, 240, 2, 0))
  BY <1>1, <1>2, <1>11, ThenZoom DEF a5
<1>13. Leads("instructions", p, a6, Spot(0, 400, 2, 0))
  BY <1>1, <1>6, <1>12, ThenLines DEF a6
<1>14. Leads("instructions", p, a7, Spot(0, 432, 2, 0))
  BY <1>1, <1>13, ThenBreak DEF a7
<1>15. Leads("instructions", p, a8, Spot(0, 592, 2, 0))
  BY <1>1, <1>7, <1>14, ThenLines DEF a8
<1>16. Leads("instructions", p, a9, Spot(0, 624, 2, 0))
  BY <1>1, <1>15, ThenBreak DEF a9
<1>17. Leads("instructions", p, a10, Spot(0, 656, 2, 0))
  BY <1>1, <1>5, <1>16, ThenLine DEF a10, RoomForText
<1> QED BY <1>17 DEF drawInstructions, p, a1, a2, a3, a4, a5, a6, a7, a8, a9, a10

LEMMA FourBreaksLead ==
    ASSUME NEW s
    PROVE  Leads(s, Spot(0, 0, 2, 0), Break(4), Spot(0, 128, 2, 0))
<1>1. Height \in Int /\ Height >= 768
  BY ScreensAssumption, ConsoleAssumption
<1>2. /\ Leads(s, Spot(0, 0, 2, 0), Break(1), Spot(0, 32, 2, 0))
      /\ Leads(s, Spot(0, 32, 2, 0), Break(1), Spot(0, 64, 2, 0))
      /\ Leads(s, Spot(0, 64, 2, 0), Break(1), Spot(0, 96, 2, 0))
      /\ Leads(s, Spot(0, 96, 2, 0), Break(1), Spot(0, 128, 2, 0))
  <2>1. 0 + 2 * 32 <= Height /\ 32 + 2 * 32 <= Height /\ 64 + 2 * 32 <= Height /\ 96 + 2 * 32 <= Height /\ 16 * 2 = 32
    BY <1>1
  <2>2. \A y \in {0, 32, 64, 96} : Leads(s, Spot(0, y, 2, 0), Break(1), Spot(0, y + 32, 2, 0))
    BY <2>1, ABreakLeads
  <2>3. 0 + 32 = 32 /\ 32 + 32 = 64 /\ 64 + 32 = 96 /\ 96 + 32 = 128
    OBVIOUS
  <2> QED BY <2>2, <2>3
<1>3. Leads(s, Spot(0, 0, 2, 0), ((Break(1) \o Break(1)) \o Break(1)) \o Break(1), Spot(0, 128, 2, 0))
  BY <1>2, Joined
<1>4. ASSUME NEW n \in Nat PROVE Break(n) \o Break(1) = Break(n + 1)
  <2> DEFINE c == [call |-> "break"]
  <2>1. Break(n) = [i \in 1..n |-> c] /\ Break(1) = [i \in 1..1 |-> c] /\ Break(n + 1) = [i \in 1..n + 1 |-> c]
    BY DEF Break
  <2> HIDE DEF c
  <2>2. [i \in 1..n |-> c] \o [i \in 1..1 |-> c] = [i \in 1..n + 1 |-> c]
    OBVIOUS
  <2> QED BY <2>1, <2>2
<1>5. Break(1) \o Break(1) = Break(2) /\ Break(2) \o Break(1) = Break(3) /\ Break(3) \o Break(1) = Break(4)
  <2>1. Break(1) \o Break(1) = Break(1 + 1) /\ Break(2) \o Break(1) = Break(2 + 1) /\ Break(3) \o Break(1) = Break(3 + 1)
    BY <1>4
  <2>2. 1 + 1 = 2 /\ 2 + 1 = 3 /\ 3 + 1 = 4
    OBVIOUS
  <2> QED BY <2>1, <2>2
<1> QED BY <1>3, <1>5

LEMMA CompleteLeads == \E q : Leads("complete", Spot(0, 0, 2, 0), render_level_complete, q)
<1> DEFINE p == Spot(0, 0, 2, 0)
           a1 == clear_screen
           a2 == a1 \o Break(4)
           a3 == a2 \o set_zoom(5)
           a4 == a3 \o Line(CompleteLines[1])
           a5 == a4 \o Break(1)
           a6 == a5 \o set_zoom(3)
           a7 == a6 \o Line(CompleteLines[2])
           a8 == a7 \o Line(CompleteLines[3])
<1> HIDE DEF p, a1, a2, a3, a4, a5, a6, a7, a8
<1>1. Width \in Int /\ Height \in Int /\ Width >= 1024 /\ Height >= 768
  BY ScreensAssumption, ConsoleAssumption
<1>2. 3 \in Zoom
  BY ScreensAssumption, ConsoleAssumption DEF Zoom
<1>3. 5 \in Zoom
  BY ScreensAssumption, ConsoleAssumption DEF Zoom
<1>4. Short(CompleteLines[1], 24)
  BY TextsAreShort, ListsAreShort
<1>5. Short(CompleteLines[2], 41)
  BY TextsAreShort, ListsAreShort
<1>6. Short(CompleteLines[3], 41)
  BY TextsAreShort, ListsAreShort
<1>7. Leads("complete", p, a1, Spot(0, 0, 2, 0))
  BY <1>1, AClearLeads DEF p, a1
<1>8. Leads("complete", p, a2, Spot(0, 128, 2, 0))
  BY <1>1, <1>7, FourBreaksLead, Joined DEF a2
<1>9. Leads("complete", p, a3, Spot(0, 160, 5, 0))
  BY <1>1, <1>3, <1>8, ThenZoom DEF a3
<1>10. Leads("complete", p, a4, Spot(0, 240, 5, 0))
  BY <1>1, <1>4, <1>9, ThenLine DEF a4, RoomForText
<1>11. Leads("complete", p, a5, Spot(0, 320, 5, 0))
  BY <1>1, <1>10, ThenBreak DEF a5
<1>12. Leads("complete", p, a6, Spot(0, 400, 3, 0))
  BY <1>1, <1>2, <1>11, ThenZoom DEF a6
<1>13. Leads("complete", p, a7, Spot(0, 448, 3, 0))
  BY <1>1, <1>5, <1>12, ThenLine DEF a7, RoomForText
<1>14. Leads("complete", p, a8, Spot(0, 496, 3, 0))
  BY <1>1, <1>6, <1>13, ThenLine DEF a8, RoomForText
<1> QED BY <1>14 DEF render_level_complete, p, a1, a2, a3, a4, a5, a6, a7, a8

LEMMA AllCompleteLeads == \E q : Leads("all", Spot(0, 0, 2, 0), render_all_levels_complete, q)
<1> DEFINE p == Spot(0, 0, 2, 0)
           a1 == clear_screen
           a2 == a1 \o Break(4)
           a3 == a2 \o set_zoom(6)
           a4 == a3 \o Line(AllCompleteLines[1])
           a5 == a4 \o Break(1)
           a6 == a5 \o set_zoom(4)
           a7 == a6 \o Line(AllCompleteLines[2])
<1> HIDE DEF p, a1, a2, a3, a4, a5, a6, a7
<1>1. Width \in Int /\ Height \in Int /\ Width >= 1024 /\ Height >= 768
  BY ScreensAssumption, ConsoleAssumption
<1>2. 4 \in Zoom
  BY ScreensAssumption, ConsoleAssumption DEF Zoom
<1>3. 6 \in Zoom
  BY ScreensAssumption, ConsoleAssumption DEF Zoom
<1>4. Short(AllCompleteLines[1], 20)
  BY TextsAreShort, ListsAreShort
<1>5. Short(AllCompleteLines[2], 31)
  BY TextsAreShort, ListsAreShort
<1>6. Leads("all", p, a1, Spot(0, 0, 2, 0))
  BY <1>1, AClearLeads DEF p, a1
<1>7. Leads("all", p, a2, Spot(0, 128, 2, 0))
  BY <1>1, <1>6, FourBreaksLead, Joined DEF a2
<1>8. Leads("all", p, a3, Spot(0, 160, 6, 0))
  BY <1>1, <1>3, <1>7, ThenZoom DEF a3
<1>9. Leads("all", p, a4, Spot(0, 256, 6, 0))
  BY <1>1, <1>4, <1>8, ThenLine DEF a4, RoomForText
<1>10. Leads("all", p, a5, Spot(0, 352, 6, 0))
  BY <1>1, <1>9, ThenBreak DEF a5
<1>11. Leads("all", p, a6, Spot(0, 448, 4, 0))
  BY <1>1, <1>2, <1>10, ThenZoom DEF a6
<1>12. Leads("all", p, a7, Spot(0, 512, 4, 0))
  BY <1>1, <1>5, <1>11, ThenLine DEF a7, RoomForText
<1> QED BY <1>12 DEF render_all_levels_complete, p, a1, a2, a3, a4, a5, a6, a7

LEMMA HelpLeads ==
    ASSUME NEW z \in Zoom
    PROVE  \E q : Leads("help", Spot(0, 0, z, 0), cmd_help, q)
<1> DEFINE p == Spot(0, 0, z, 0)
           a1 == clear_screen
           a2 == a1 \o set_zoom(2)
           a3 == a2 \o set_cursor(0, 0)
           a4 == a3 \o Lines(HelpLines)
           a5 == a4 \o Break(1)
           a6 == a5 \o Text(HelpEnd)
<1> HIDE DEF p, a1, a2, a3, a4, a5, a6
<1>1. Width \in Int /\ Height \in Int /\ Width >= 1024 /\ Height >= 768
  BY ScreensAssumption, ConsoleAssumption
<1>2. 2 \in Zoom
  BY ScreensAssumption, ConsoleAssumption DEF Zoom
<1>3. ShortTexts(HelpLines, 9)
  BY TextsAreShort, ListsAreShort
<1>4. Short(HelpEnd, 58)
  BY TextsAreShort, ListsAreShort
<1>5. z \in Nat /\ 2 * (16 * z) <= Height
  BY ScreensAssumption, ConsoleAssumption DEF Zoom
<1>6. Leads("help", p, a1, Spot(0, 0, z, 0))
  BY <1>1, AClearLeads DEF p, a1
<1>7. Leads("help", p, a2, Spot(0, 0 + 16 * z, 2, 0))
  <2> DEFINE h == 16 * z
  <2>1. h \in Int /\ h = 16 * z /\ 0 + 2 * h <= Height /\ 0 \in Int
    BY <1>5
  <2> HIDE DEF h
  <2>2. Leads("help", Spot(0, 0, z, 0), set_zoom(2), Spot(0, 0 + h, 2, 0))
    BY <1>2, <2>1, AZoomLeads
  <2>3. Leads("help", p, a2, Spot(0, 0 + h, 2, 0))
    BY <1>6, <2>2, Joined DEF a2
  <2> QED BY <2>3 DEF h
<1>8. Leads("help", p, a3, Spot(0, 0, 2, 0))
  BY <1>1, <1>7, ThenCursor DEF a3
<1>9. Leads("help", p, a4, Spot(0, 288, 2, 0))
  BY <1>1, <1>3, <1>8, ThenLines DEF a4
<1>10. Leads("help", p, a5, Spot(0, 320, 2, 0))
  BY <1>1, <1>9, ThenBreak DEF a5
<1>11. \E e : Leads("help", p, a6, Spot(e, 320, 2, 0))
  BY <1>1, <1>4, <1>10, ThenText DEF a6, RoomForText
<1> QED BY <1>11 DEF cmd_help, p, a1, a2, a3, a4, a5, a6

-----------------------------------------------------------------------------
(* The screens: shapes *)

Fits(s, p, c) == c \in Calls /\ c.call \in {"rectangle", "circle"} /\ Laid(s, p, c)

LEMMA RectFits ==
    ASSUME NEW s, NEW p, NEW x \in Int, NEW y \in Int, NEW w \in Int, NEW h \in Int,
           x >= 0, y >= 0, x + w <= Width, y + h <= Height \/ s = "counter"
    PROVE  Fits(s, p, Rect(x, y, w, h))
<1> DEFINE c == Rect(x, y, w, h)
<1>1. c.call = "rectangle" /\ c.x = x /\ c.y = y /\ c.w = w /\ c.h = h
  BY DEF Rect
<1>2. c \in Calls
  BY DEF Calls, Rect
<1> HIDE DEF c
<1>3. Laid(s, p, c)
  BY <1>1 DEF Laid
<1> QED BY <1>1, <1>2, <1>3 DEF Fits, c

LEMMA CircleFits ==
    ASSUME NEW s, NEW p, NEW x \in Int, NEW y \in Int, NEW r \in Int,
           x - r >= 0, y - r >= 0, x + r < Width, y + r < Height
    PROVE  Fits(s, p, Circle(x, y, r))
<1> DEFINE c == Circle(x, y, r)
<1>1. c.call = "circle" /\ c.x = x /\ c.y = y /\ c.r = r
  BY DEF Circle
<1>2. c \in Calls
  BY DEF Calls, Circle
<1> HIDE DEF c
<1>3. Laid(s, p, c)
  BY <1>1 DEF Laid
<1> QED BY <1>1, <1>2, <1>3 DEF Fits, c

LEMMA ShapesFollow ==
    ASSUME NEW s, NEW p, NEW n \in Nat, NEW b, b = [i \in 1..n |-> b[i]], \A i \in 1..n : Fits(s, p, b[i])
    PROVE  Leads(s, p, b, p)
<1>1. b \in Seq(Calls) /\ Len(b) = n
  <2>1. \A i \in 1..n : b[i] \in Calls
    BY DEF Fits
  <2> HIDE DEF Calls
  <2> QED BY <2>1
<1> QED BY <1>1, ShapesLead DEF Fits

-----------------------------------------------------------------------------
(* The counter *)

LEMMA CounterTextLeads ==
    ASSUME NEW x, NEW y, NEW z \in {2, 4}
    PROVE  \E e : Leads("counter", Spot(x, y, z, 0), draw_counter, Spot(e, 725, 2, 0))
<1> DEFINE p == Spot(x, y, z, 0)
           a1 == set_cursor(10, 10)
           a2 == a1 \o set_zoom(2)
           a3 == a2 \o set_cursor(20, 725)
           a4 == a3 \o Text(Count)
<1> HIDE DEF p, a1, a2, a3, a4
<1>1. Width \in Int /\ Height \in Int /\ Width >= 1024 /\ Height >= 768
  BY ScreensAssumption, ConsoleAssumption
<1>2. 2 \in Zoom
  BY ScreensAssumption, ConsoleAssumption DEF Zoom
<1>3. Short(Count, 58)
  BY TextsAreShort
<1>4. 10 \in 0..Width /\ 10 \in 0..Height /\ 20 \in 0..Width /\ 725 \in 0..Height
  BY <1>1
<1>5. Leads("counter", p, a1, Spot(10, 10, z, 0))
  BY <1>4, ACursorLeads DEF p, a1
<1>6. z \in Nat /\ 10 + 2 * (16 * z) <= Height
  BY <1>1
<1>7. Leads("counter", p, a2, Spot(0, 10 + 16 * z, 2, 0))
  BY <1>2, <1>5, <1>6, ThenZoom DEF a2
<1>8. Leads("counter", p, a3, Spot(20, 725, 2, 0))
  BY <1>4, <1>7, ThenCursor DEF a3
<1>9. \E e : Leads("counter", p, a4, Spot(e, 725, 2, 0))
  BY <1>1, <1>3, <1>8, ThenText DEF a4, RoomForText
<1> QED BY <1>9 DEF draw_counter, p, a1, a2, a3, a4

LEMMA CounterLeads == \E q : Leads("counter", Spot(0, 0, 3, 0), counter, q)
<1> DEFINE p == Spot(0, 0, 3, 0)
           c1 == Rect(0, Height - UI + OFFSET, Width, UI)
           c2 == Rect(10, Height - UI + OFFSET + 10, Width - 20, UI - 20)
           a1 == clear_screen
           a2 == a1 \o set_cursor(10, 10)
           a3 == a2 \o set_zoom(4)
           a4 == a3 \o <<c1, c2>>
           a5 == a4 \o draw_counter
           a6 == a5 \o draw_counter
<1> HIDE DEF p, c1, c2, a1, a2, a3, a4, a5, a6
<1>1. Width \in Int /\ Height \in Int /\ Width >= 1024 /\ Height >= 768
  BY ScreensAssumption, ConsoleAssumption
<1>2. 4 \in Zoom
  BY ScreensAssumption, ConsoleAssumption DEF Zoom
<1>3. 10 \in 0..Width /\ 10 \in 0..Height
  BY <1>1
<1>4. Leads("counter", p, a1, Spot(0, 0, 3, 0))
  BY AClearLeads DEF p, a1
<1>5. Leads("counter", p, a2, Spot(10, 10, 3, 0))
  BY <1>3, <1>4, ThenCursor DEF a2
<1>6. Leads("counter", p, a3, Spot(0, 58, 4, 0))
  BY <1>1, <1>2, <1>5, ThenZoom DEF a3
<1> DEFINE q == Spot(0, 58, 4, 0)
<1> HIDE DEF q
<1>7. Fits("counter", q, c1) /\ Fits("counter", q, c2)
  <2> DEFINE y == Height - UI + OFFSET
             y2 == y + 10
             w2 == Width - 20
             h2 == UI - 20
  <2>1. UI \in Int /\ y \in Int /\ y >= 0 /\ y2 \in Int /\ y2 >= 0 /\ w2 \in Int /\ h2 \in Int
        /\ 10 + w2 <= Width /\ 0 + Width <= Width
    BY <1>1, ScreensAssumption
  <2> HIDE DEF y, y2, w2, h2
  <2>2. Fits("counter", q, Rect(0, y, Width, UI)) /\ Fits("counter", q, Rect(10, y2, w2, h2))
    BY <1>1, <2>1, RectFits
  <2> QED BY <2>2 DEF y, y2, w2, h2, c1, c2
<1>8. Leads("counter", q, <<c1, c2>>, q)
  <2> DEFINE b == <<c1, c2>>
  <2>1. b = [i \in 1..2 |-> b[i]] /\ \A i \in 1..2 : b[i] = c1 \/ b[i] = c2
    OBVIOUS
  <2> HIDE DEF b
  <2>2. Leads("counter", q, b, q)
    BY <1>7, <2>1, ShapesFollow
  <2> QED BY <2>2 DEF b
<1>9. Leads("counter", p, a4, q)
  BY <1>6, <1>8, Joined DEF a4, q
<1>10. PICK e : Leads("counter", q, draw_counter, Spot(e, 725, 2, 0))
  BY CounterTextLeads DEF q
<1>11. Leads("counter", p, a5, Spot(e, 725, 2, 0))
  BY <1>9, <1>10, Joined DEF a5
<1>12. PICK f : Leads("counter", Spot(e, 725, 2, 0), draw_counter, Spot(f, 725, 2, 0))
  BY CounterTextLeads
<1>13. Leads("counter", p, a6, Spot(f, 725, 2, 0))
  BY <1>11, <1>12, Joined DEF a6
<1> QED BY <1>13 DEF counter, p, c1, c2, a1, a2, a3, a4, a5, a6

-----------------------------------------------------------------------------
(* The menu *)

\* After b line breaks of the options: the text has scrolled by what the breaks
\* that did not move the cursor are worth.
InMenu(y, o, b) == y \in Int /\ o \in Int /\ o = y - 240 - 48 * b /\ y + 48 <= Height

LEMMA MenuBreakLeads ==
    ASSUME NEW x, NEW y, NEW o, NEW b \in 0..7, InMenu(y, o, b)
    PROVE  \E u, v : InMenu(u, v, b + 1) /\ Leads("menu", Spot(x, y, 3, o), Break(1), Spot(0, u, 3, v))
<1>1. Height \in Int /\ Height >= 768
  BY ScreensAssumption, ConsoleAssumption
<1> DEFINE p == Spot(x, y, 3, o)
           c == [call |-> "break"]
<1>2. CellH(p) = 48 /\ p.x = x /\ p.y = y /\ p.zoom = 3 /\ p.low = o
  <2>1. 16 * 3 = 48
    OBVIOUS
  <2> QED BY <2>1, SpotSize
<1>3. c \in Calls /\ c.call = "break" /\ Break(1) = <<c>>
  <2>1. Break(1) = [i \in 1..1 |-> c]
    BY DEF Break
  <2>2. c \in Calls /\ c.call = "break"
    BY DEF Calls
  <2> HIDE DEF c
  <2>3. 1..1 = {1}
    OBVIOUS
  <2>4. Break(1) = <<c>>
    BY <2>1, <2>3
  <2> QED BY <2>2, <2>4
<1> HIDE DEF c, p
<1>4. CASE y + 96 <= Height
  <2>1. Laid("menu", p, c) /\ After(p, c) = Spot(0, y + 48, 3, o)
    BY <1>1, <1>2, <1>3, <1>4 DEF Laid, After, LineBelow, InMenu
  <2>2. Leads("menu", p, <<c>>, Spot(0, y + 48, 3, o))
    BY <1>3, <2>1, OneCall
  <2>3. InMenu(y + 48, o, b + 1)
    BY <1>1, <1>4 DEF InMenu
  <2> QED BY <1>3, <2>2, <2>3 DEF p
<1>5. CASE ~(y + 96 <= Height)
  <2>1. Laid("menu", p, c) /\ After(p, c) = Spot(0, y, 3, o - 48)
    <3>1. y \in Int /\ o >= 48 /\ y + 48 <= Height
      BY <1>1, <1>5 DEF InMenu
    <3> QED BY <1>1, <1>2, <1>3, <1>5, <3>1 DEF Laid, After, LineBelow
  <2>2. Leads("menu", p, <<c>>, Spot(0, y, 3, o - 48))
    BY <1>3, <2>1, OneCall
  <2>3. InMenu(y, o - 48, b + 1)
    BY <1>1, <1>5 DEF InMenu
  <2> QED BY <1>3, <2>2, <2>3 DEF p
<1> QED BY <1>4, <1>5

\* An option, with the empty line below it.
LEMMA OptionLeads ==
    ASSUME NEW p, NEW a, NEW y, NEW o, NEW b \in 0..6, InMenu(y, o, b), Leads("menu", p, a, Spot(0, y, 3, o)),
           NEW t, Short(t, 41)
    PROVE  \E u, v : InMenu(u, v, b + 2) /\ Leads("menu", p, (a \o Line(t)) \o Break(1), Spot(0, u, 3, v))
<1>1. Height \in Int /\ Height >= 768 /\ Width \in Int /\ Width >= 1024
  BY ScreensAssumption, ConsoleAssumption
<1>2. y \in Int /\ o \in Int /\ o <= y /\ y + 48 <= Height
  BY <1>1 DEF InMenu
<1>3. t \in STRING /\ Len(t) \in Nat /\ Len(t) >= 1 /\ Len(t) <= 41
  BY DEF Short
<1>4. 0 + (Len(t) + 1) * 24 <= Width
  <2> DEFINE l == Len(t)
  <2>1. l \in Nat /\ l <= 41
    BY <1>3
  <2> HIDE DEF l
  <2>2. 0 + (l + 1) * 24 <= Width
    BY <1>1, <2>1
  <2> QED BY <2>2 DEF l
<1>5. 24 = 8 * 3 /\ 48 = 16 * 3 /\ 24 \in Int /\ 48 \in Int /\ 0 \in Int
  OBVIOUS
<1>6. Leads("menu", Spot(0, y, 3, o), Text(t), Spot(0 + Len(t) * 24, y, 3, o))
  BY <1>2, <1>3, <1>4, <1>5, ATextLeads
<1> DEFINE e == 0 + Len(t) * 24
<1> HIDE DEF e
<1>7. PICK u1, v1 : InMenu(u1, v1, b + 1) /\ Leads("menu", Spot(e, y, 3, o), Break(1), Spot(0, u1, 3, v1))
  <2>1. b \in 0..7
    OBVIOUS
  <2> QED BY <2>1, MenuBreakLeads
<1>8. Leads("menu", Spot(0, y, 3, o), Line(t), Spot(0, u1, 3, v1))
  BY <1>6, <1>7, Joined DEF Line, e
<1>9. PICK u2, v2 : InMenu(u2, v2, b + 2) /\ Leads("menu", Spot(0, u1, 3, v1), Break(1), Spot(0, u2, 3, v2))
  <2>1. b + 1 \in 0..7 /\ (b + 1) + 1 = b + 2
    OBVIOUS
  <2> QED BY <1>7, <2>1, MenuBreakLeads
<1>10. Leads("menu", p, a \o Line(t), Spot(0, u1, 3, v1))
  BY <1>8, Joined
<1>11. Leads("menu", p, (a \o Line(t)) \o Break(1), Spot(0, u2, 3, v2))
  BY <1>9, <1>10, Joined
<1> QED BY <1>9, <1>11

LEMMA MenuLeads ==
    ASSUME NEW z \in Zoom
    PROVE  \E q : Leads("menu", Spot(0, 0, z, 16 * z), drawMainMenu, q)
<1> DEFINE o == 16 * z
           p == Spot(0, 0, z, o)
           a1 == clear_screen
           a2 == a1 \o set_zoom(5)
           a3 == a2 \o Line(MenuLines[1])
           a4 == a3 \o Break(1)
           a5 == a4 \o set_zoom(3)
           a6 == (a5 \o Line(MenuLines[2])) \o Break(1)
           a7 == (a6 \o Line(MenuLines[3])) \o Break(1)
           a8 == (a7 \o Line(MenuLines[4])) \o Break(1)
           a9 == (a8 \o Line(MenuLines[5])) \o Break(1)
<1>1. Width \in Int /\ Height \in Int /\ Width >= 1024 /\ Height >= 768
  BY ScreensAssumption, ConsoleAssumption
<1>2. 5 \in Zoom
  BY ScreensAssumption, ConsoleAssumption DEF Zoom
<1>3. 3 \in Zoom
  BY ScreensAssumption, ConsoleAssumption DEF Zoom
<1>4. Short(MenuLines[1], 24)
  BY TextsAreShort
<1>5. Short(MenuLines[2], 41) /\ Short(MenuLines[3], 41) /\ Short(MenuLines[4], 41) /\ Short(MenuLines[5], 41)
  <2>1. 2 \in 2..5 /\ 3 \in 2..5 /\ 4 \in 2..5 /\ 5 \in 2..5
    OBVIOUS
  <2> QED BY <2>1, TextsAreShort
<1>6. z \in Nat /\ z <= 10 /\ 2 * (16 * z) <= Height
  BY ScreensAssumption, ConsoleAssumption DEF Zoom
<1>7. /\ o \in Nat /\ o + 160 <= Height /\ o + 80 + 160 <= Height /\ o + 160 + 160 <= Height
      /\ InMenu(o + 240, o, 0)
  BY <1>1, <1>6 DEF InMenu
<1> HIDE DEF p, a1, a2, a3, a4, a5, a6, a7, a8, a9
<1>8. Leads("menu", p, a1, Spot(0, 0, z, o))
  BY AClearLeads DEF p, a1
<1>9. Leads("menu", p, a2, Spot(0, o, 5, o))
  <2>1. Leads("menu", p, a2, Spot(0, 0 + 16 * z, 5, o))
    BY <1>2, <1>6, <1>7, <1>8, ThenZoom DEF a2
  <2>2. 0 + 16 * z = o
    BY <1>6
  <2> QED BY <2>1, <2>2
<1> HIDE DEF o
<1>10. Leads("menu", p, a3, Spot(0, o + 80, 5, o))
  BY <1>1, <1>4, <1>7, <1>9, ThenLine DEF a3, RoomForText
<1>11. Leads("menu", p, a4, Spot(0, o + 160, 5, o))
  BY <1>1, <1>7, <1>10, ThenBreak DEF a4
<1>12. Leads("menu", p, a5, Spot(0, o + 240, 3, o))
  BY <1>1, <1>3, <1>7, <1>11, ThenZoom DEF a5
<1>13. PICK y1, o1 : InMenu(y1, o1, 2) /\ Leads("menu", p, a6, Spot(0, y1, 3, o1))
  BY <1>5, <1>7, <1>12, OptionLeads DEF a6
<1>14. PICK y2, o2 : InMenu(y2, o2, 4) /\ Leads("menu", p, a7, Spot(0, y2, 3, o2))
  BY <1>5, <1>13, OptionLeads DEF a7
<1>15. PICK y3, o3 : InMenu(y3, o3, 6) /\ Leads("menu", p, a8, Spot(0, y3, 3, o3))
  BY <1>5, <1>14, OptionLeads DEF a8
<1>16. PICK y4, o4 : Leads("menu", p, a9, Spot(0, y4, 3, o4))
  BY <1>5, <1>15, OptionLeads DEF a9
<1> QED BY <1>16 DEF drawMainMenu, Menu, p, o, a1, a2, a3, a4, a5, a6, a7, a8, a9

-----------------------------------------------------------------------------
(* The welcome screen *)

LEMMA BordersLead ==
    ASSUME NEW p
    PROVE  Leads("welcome", p, Borders, p)
<1>1. Width \in Int /\ Height \in Int /\ Width >= 1024 /\ Height >= 768
  BY ScreensAssumption, ConsoleAssumption
<1>2. /\ Height - 50 \in Int /\ Height - 2 * 50 \in Int /\ Width - 10 \in Int /\ Width - 2 * 10 \in Int
      /\ 50 - 10 = 40 /\ 50 \in Int /\ 10 \in Int /\ 0 \in Int /\ 40 \in Int
  BY <1>1
<1> DEFINE F(x, y, w, h) == Fits("welcome", p, Rect(x, y, w, h))
           y1 == Height - 50
           h1 == Height - 2 * 50
           x1 == Width - 10
           w1 == Width - 2 * 10
<1>3. /\ y1 \in Int /\ h1 \in Int /\ x1 \in Int /\ w1 \in Int
      /\ y1 >= 0 /\ y1 + 50 <= Height /\ y1 + 10 <= Height /\ 50 + h1 <= Height /\ 40 + 10 <= Height
      /\ x1 >= 0 /\ x1 + 10 <= Width /\ w1 >= 0 /\ w1 + 10 <= Width /\ 10 + w1 <= Width /\ 10 + 10 <= Width
      /\ 0 + Width <= Width /\ 0 + 50 <= Height /\ 0 + 10 <= Width
  BY <1>1
<1>4. /\ Borders = << Rect(0, 0, Width, 50), Rect(0, y1, Width, 50), Rect(0, 50, 10, h1), Rect(x1, 50, 10, h1),
                     Rect(10, 50, 10, h1), Rect(w1, 50, 10, h1), Rect(10, 40, w1, 10), Rect(10, y1, w1, 10) >>
  BY <1>2 DEF Borders, Thick, Band
<1> HIDE DEF y1, h1, x1, w1
<1>5. F(0, 0, Width, 50) /\ F(0, y1, Width, 50)
  BY <1>1, <1>3, RectFits
<1>6. F(0, 50, 10, h1) /\ F(x1, 50, 10, h1)
  BY <1>1, <1>3, RectFits
<1>7. F(10, 50, 10, h1) /\ F(w1, 50, 10, h1)
  BY <1>1, <1>3, RectFits
<1>8. F(10, 40, w1, 10) /\ F(10, y1, w1, 10)
  BY <1>1, <1>3, RectFits
<1> DEFINE c1 == Rect(0, 0, Width, 50)
           c2 == Rect(0, y1, Width, 50)
           c3 == Rect(0, 50, 10, h1)
           c4 == Rect(x1, 50, 10, h1)
           c5 == Rect(10, 50, 10, h1)
           c6 == Rect(w1, 50, 10, h1)
           c7 == Rect(10, 40, w1, 10)
           c8 == Rect(10, y1, w1, 10)
<1>9. /\ Borders = <<c1, c2, c3, c4, c5, c6, c7, c8>>
      /\ \A c \in {c1, c2, c3, c4, c5, c6, c7, c8} : Fits("welcome", p, c)
  BY <1>4, <1>5, <1>6, <1>7, <1>8
<1> HIDE DEF c1, c2, c3, c4, c5, c6, c7, c8
<1>10. Borders = [i \in 1..8 |-> Borders[i]] /\ \A i \in 1..8 : Borders[i] \in {c1, c2, c3, c4, c5, c6, c7, c8}
  BY <1>9
<1>11. \A i \in 1..8 : Fits("welcome", p, Borders[i])
  BY <1>9, <1>10
<1> QED BY <1>10, <1>11, ShapesFollow

LEMMA DottedLeads ==
    ASSUME NEW p
    PROVE  Leads("welcome", p, Dotted, p)
<1>1. Width \in Int /\ Height \in Int /\ Width >= 1024 /\ Height >= 768 /\ (Width % 128) \notin 1..63
  BY ScreensAssumption, ConsoleAssumption
<1> DEFINE small == (Width - 2 * Thick - 1) \div 20
           large == (Width - 1) \div 128 + 1
           as(k) == Rect(20 * ((k + 1) \div 2), IF k % 2 = 1 THEN Band - Thick ELSE Height - Band, 10, 10)
           al(k) == Rect(128 * ((k - 1) \div 2), IF k % 2 = 1 THEN 0 ELSE Height - Band + Thick, 64, Band - Thick)
           a == [k \in 1..2 * small |-> as(k)]
           b == [k \in 1..2 * large |-> al(k)]
<1>2. Dotted = a \o b
  BY DEF Dotted
<1>3. small \in Nat /\ 20 * small + 10 <= Width /\ 2 * small \in Nat
  BY <1>1 DEF Thick
<1>4. large \in Nat /\ 128 * (large - 1) + 64 <= Width /\ 2 * large \in Nat
  <2> DEFINE q == Width \div 128
             r == Width % 128
  <2>1. q \in Int /\ r \in 0..127 /\ Width = 128 * q + r
    BY <1>1
  <2>2. CASE r = 0
    <3>1. (Width - 1) \div 128 = q - 1
      BY <1>1, <2>1, <2>2
    <3> HIDE DEF q, r
    <3> QED BY <1>1, <2>1, <2>2, <3>1
  <2>3. CASE r >= 64
    <3>1. (Width - 1) \div 128 = q
      BY <1>1, <2>1, <2>3
    <3> HIDE DEF q, r
    <3> QED BY <1>1, <2>1, <2>3, <3>1
  <2>4. r = 0 \/ r >= 64
    <3> HIDE DEF q
    <3> QED BY <1>1, <2>1
  <2> QED BY <2>2, <2>3, <2>4
<1> HIDE DEF small, large
<1>5. ASSUME NEW k \in 1..2 * small PROVE Fits("welcome", p, as(k))
  <2> DEFINE x == 20 * ((k + 1) \div 2)
             y == IF k % 2 = 1 THEN Band - Thick ELSE Height - Band
  <2>1. x \in Int /\ x >= 0 /\ x <= 20 * small
    BY <1>3
  <2>2. y \in Int /\ y >= 0 /\ y + 10 <= Height
    BY <1>1 DEF Band, Thick
  <2> HIDE DEF x, y
  <2>3. x + 10 <= Width
    BY <1>1, <1>3, <2>1
  <2>4. Fits("welcome", p, Rect(x, y, 10, 10))
    BY <2>1, <2>2, <2>3, RectFits
  <2> QED BY <2>4 DEF x, y
<1>6. ASSUME NEW k \in 1..2 * large PROVE Fits("welcome", p, al(k))
  <2> DEFINE x == 128 * ((k - 1) \div 2)
             y == IF k % 2 = 1 THEN 0 ELSE Height - Band + Thick
             h == Band - Thick
  <2>1. x \in Int /\ x >= 0 /\ x <= 128 * (large - 1)
    BY <1>4
  <2>2. y \in Int /\ y >= 0 /\ h \in Int /\ y + h <= Height
    BY <1>1 DEF Band, Thick
  <2> HIDE DEF x, y, h
  <2>3. x + 64 <= Width
    BY <1>1, <1>4, <2>1
  <2>4. Fits("welcome", p, Rect(x, y, 64, h))
    BY <2>1, <2>2, <2>3, RectFits
  <2> QED BY <2>4 DEF x, y, h
<1> HIDE DEF as, al
<1>7. Leads("welcome", p, a, p)
  <2> DEFINE n == 2 * small
  <2>1. n \in Nat /\ a = [k \in 1..n |-> a[k]] /\ \A k \in 1..n : Fits("welcome", p, a[k])
    BY <1>3, <1>5
  <2> HIDE DEF n, a
  <2> QED BY <2>1, ShapesFollow
<1>8. Leads("welcome", p, b, p)
  <2> DEFINE n == 2 * large
  <2>1. n \in Nat /\ b = [k \in 1..n |-> b[k]] /\ \A k \in 1..n : Fits("welcome", p, b[k])
    BY <1>4, <1>6
  <2> HIDE DEF n, b
  <2> QED BY <2>1, ShapesFollow
<1> HIDE DEF a, b
<1> QED BY <1>2, <1>7, <1>8, Joined

LEMMA SmileLeads ==
    ASSUME NEW p
    PROVE  Leads("welcome", p, draw_smile, p)
<1>1. Width \in Int /\ Height \in Int /\ Width >= 1024 /\ Height >= 768 /\ Height <= Width
  BY ScreensAssumption, ConsoleAssumption
<1> DEFINE R == Radius
           eh == R \div 3
           ew == R \div 10
           m == R \div 15
           half == R \div 2
           cx == CenterX
           cy == CenterY
           Corner(dx, dy) == Rect(cx + dx, cy + 5 * m - dy * m, m, m)
<1>2. R \in Int /\ R >= 192 /\ 4 * R <= Height /\ cx \in Int /\ 2 * cx <= Width /\ 2 * cx + 1 >= Width
      /\ cy \in Int /\ 2 * cy <= Height /\ 2 * cy + 1 >= Height
  BY <1>1 DEF Radius, CenterX, CenterY
<1>3. /\ eh \in Int /\ 3 * eh <= R /\ eh >= 0 /\ ew \in Int /\ 10 * ew <= R /\ ew >= 0
      /\ m \in Int /\ 15 * m <= R /\ m >= 0 /\ half \in Int /\ 2 * half <= R /\ half >= 0 /\ 2 * half + 1 >= R
  <2> HIDE DEF R
  <2> QED BY <1>2
<1> DEFINE c1 == Circle(cx, cy, R)
           c2 == Circle(cx, cy, R - 15)
           c3 == Rect(cx - 3 * ew, cy - eh, ew, eh)
           c4 == Rect(cx + 2 * ew, cy - eh, ew, eh)
           c5 == Rect(cx - half, cy + 5 * m, R, m)
           c6 == Corner(-half - 2 * m, 2)
           c7 == Corner(-half - m, 1)
           c8 == Corner(half + m, 2)
           c9 == Corner(half, 1)
<1>4. draw_smile = <<c1, c2, c3, c4, c5, c6, c7, c8, c9>>
  BY DEF draw_smile
<1> HIDE DEF R, eh, ew, m, half, cx, cy
<1>5. Fits("welcome", p, c1) /\ Fits("welcome", p, c2)
  <2> DEFINE r == R - 15
  <2>1. /\ cx - R >= 0 /\ cy - R >= 0 /\ cx + R < Width /\ cy + R < Height
        /\ r \in Int /\ cx - r >= 0 /\ cy - r >= 0 /\ cx + r < Width /\ cy + r < Height
    BY <1>1, <1>2
  <2> HIDE DEF r
  <2>2. Fits("welcome", p, Circle(cx, cy, R)) /\ Fits("welcome", p, Circle(cx, cy, r))
    BY <1>2, <2>1, CircleFits
  <2> QED BY <2>2 DEF r
<1>6. ASSUME NEW x \in Int, NEW y \in Int, NEW w \in Int, NEW h \in Int,
             x >= 0 /\ y >= 0 /\ x + w <= Width /\ y + h <= Height
      PROVE  Fits("welcome", p, Rect(x, y, w, h))
  BY <1>6, RectFits
<1>7. Fits("welcome", p, c3) /\ Fits("welcome", p, c4) /\ Fits("welcome", p, c5)
  <2> DEFINE x3 == cx - 3 * ew
             x4 == cx + 2 * ew
             x5 == cx - half
             y3 == cy - eh
             y5 == cy + 5 * m
  <2>1. /\ x3 \in Int /\ x3 >= 0 /\ x3 + ew <= Width /\ x4 \in Int /\ x4 >= 0 /\ x4 + ew <= Width
        /\ y3 \in Int /\ y3 >= 0 /\ y3 + eh <= Height
        /\ x5 \in Int /\ x5 >= 0 /\ x5 + R <= Width /\ y5 \in Int /\ y5 >= 0 /\ y5 + m <= Height
    BY <1>1, <1>2, <1>3
  <2> HIDE DEF x3, x4, x5, y3, y5
  <2>2. Fits("welcome", p, Rect(x3, y3, ew, eh)) /\ Fits("welcome", p, Rect(x4, y3, ew, eh))
        /\ Fits("welcome", p, Rect(x5, y5, R, m))
    BY <1>2, <1>3, <1>6, <2>1
  <2> QED BY <2>2 DEF x3, x4, x5, y3, y5
<1>8. Fits("welcome", p, c6) /\ Fits("welcome", p, c7) /\ Fits("welcome", p, c8) /\ Fits("welcome", p, c9)
  <2> DEFINE x6 == cx + (-half - 2 * m)
             x7 == cx + (-half - m)
             x8 == cx + (half + m)
             x9 == cx + half
             y6 == cy + 5 * m - 2 * m
             y7 == cy + 5 * m - 1 * m
  <2>1. /\ x6 \in Int /\ x6 >= 0 /\ x6 + m <= Width /\ x7 \in Int /\ x7 >= 0 /\ x7 + m <= Width
        /\ x8 \in Int /\ x8 >= 0 /\ x8 + m <= Width /\ x9 \in Int /\ x9 >= 0 /\ x9 + m <= Width
        /\ y6 \in Int /\ y6 >= 0 /\ y6 + m <= Height /\ y7 \in Int /\ y7 >= 0 /\ y7 + m <= Height
    BY <1>1, <1>2, <1>3
  <2> HIDE DEF x6, x7, x8, x9, y6, y7
  <2>2. /\ Fits("welcome", p, Rect(x6, y6, m, m)) /\ Fits("welcome", p, Rect(x7, y7, m, m))
        /\ Fits("welcome", p, Rect(x8, y6, m, m)) /\ Fits("welcome", p, Rect(x9, y7, m, m))
    BY <1>3, <1>6, <2>1
  <2> QED BY <2>2 DEF x6, x7, x8, x9, y6, y7
<1> HIDE DEF c1, c2, c3, c4, c5, c6, c7, c8, c9
<1>9. \A c \in {c1, c2, c3, c4, c5, c6, c7, c8, c9} : Fits("welcome", p, c)
  BY <1>5, <1>7, <1>8
<1>10. draw_smile = [i \in 1..9 |-> draw_smile[i]] /\ \A i \in 1..9 : draw_smile[i] \in {c1, c2, c3, c4, c5, c6, c7, c8, c9}
  BY <1>4
<1>11. \A i \in 1..9 : Fits("welcome", p, draw_smile[i])
  BY <1>9, <1>10
<1> QED BY <1>10, <1>11, ShapesFollow

\* A text inside the frame and off the face.
ClearOfPicture(x, y, n, w, h) ==
    /\ x >= 20 /\ x + (n + 1) * w <= Width /\ x + n * w <= Width - 20
    /\ y >= 50 /\ y + h <= Height - 50 /\ (y + h <= CenterY - Radius \/ y > CenterY + Radius)

LEMMA WelcomeTextLeads ==
    ASSUME NEW x \in Int, NEW y \in Int, NEW z, NEW w \in Nat, NEW h \in Nat, w = 8 * z, h = 16 * z,
           NEW t, NEW n \in Nat, Short(t, n), ClearOfPicture(x, y, n, w, h)
    PROVE  \E e : Leads("welcome", Spot(x, y, z, 0), Text(t), Spot(e, y, z, 0))
<1>1. Width \in Int /\ Height \in Int /\ CenterY \in Int /\ Radius \in Int
  BY ConsoleAssumption DEF CenterY, Radius
<1> DEFINE l == Len(t)
           lw == l * w
           nw == n * w
<1>2. t \in STRING /\ l \in Nat /\ l >= 1 /\ l <= n
  BY DEF Short
<1> HIDE DEF l
<1>3. lw \in Int /\ nw \in Int /\ lw <= nw /\ (l + 1) * w = lw + w /\ (n + 1) * w = nw + w
  <2>1. l \in 1..n
    BY <1>2
  <2>2. RowSums(l, n, w) /\ l * w \in Int /\ n * w \in Int
    BY <2>1, RowsSum DEF RowSums
  <2>3. (l + 1) * w = l * w + w /\ (n + 1) * w = n * w + w
    BY <1>2
  <2> QED BY <2>2, <2>3 DEF RowSums
<1>4. /\ x >= 20 /\ x + (nw + w) <= Width /\ x + nw <= Width - 20
      /\ y >= 50 /\ y + h <= Height - 50 /\ (y + h <= CenterY - Radius \/ y > CenterY + Radius)
  BY <1>3 DEF ClearOfPicture
<1> HIDE DEF lw, nw
<1>5. x + (lw + w) <= Width /\ x + lw <= Width - 20 /\ y + h <= Height /\ 0 <= y
  BY <1>1, <1>3, <1>4
<1> DEFINE p == Spot(x, y, z, 0)
           c == [call |-> "text", text |-> t]
<1>6. CellW(p) = w /\ CellH(p) = h /\ p.x = x /\ p.y = y /\ Len(c.text) * w = lw
  BY SpotSize DEF lw, l
<1> HIDE DEF p, c
<1>7. InFrame(p, c)
  BY <1>4, <1>5, <1>6 DEF InFrame
<1>8. w \in Int /\ h \in Int /\ 0 \in Int /\ Len(t) \in Nat /\ Len(t) >= 1 /\ x + (Len(t) + 1) * w <= Width
  <2> DEFINE k == (l + 1) * w
  <2>1. k = lw + w
    BY <1>3
  <2> HIDE DEF k
  <2>2. x + k <= Width
    BY <1>5, <2>1
  <2>3. w \in Int /\ h \in Int /\ 0 \in Int
    OBVIOUS
  <2> QED BY <1>2, <2>2, <2>3 DEF l, k
<1> DEFINE e == x + Len(t) * w
<1>9. InFrame(Spot(x, y, z, 0), [call |-> "text", text |-> t])
  BY <1>7 DEF p, c
<1>10. Leads("welcome", Spot(x, y, z, 0), Text(t), Spot(e, y, z, 0))
  BY <1>2, <1>5, <1>8, <1>9, ATextLeads
<1> QED BY <1>10

LEMMA WelcomeTextsLead ==
    ASSUME NEW z \in Zoom
    PROVE  \E q : Leads("welcome", Spot(0, 0, z, 0), WelcomeTexts, q)
<1> DEFINE p == Spot(0, 0, z, 0)
           x1 == Width \div 12
           y1 == Height \div 14
           x2 == Width \div 6
           y2 == Height \div 8
           x3 == Width \div 20
           y3 == (Height * 82) \div 100
           y4 == (Height * 89) \div 100
           a1 == set_zoom(3)
           a2 == a1 \o set_cursor(x1, y1)
           a3 == a2 \o Text(WelcomeLines[1])
           a4 == a3 \o set_cursor(x2, y2)
           a5 == a4 \o Text(WelcomeLines[2])
           a6 == a5 \o set_zoom(2)
           a7 == a6 \o set_cursor(x3, y3)
           a8 == a7 \o Line(WelcomeLines[3])
           a9 == a8 \o set_cursor(x3, y4)
           a10 == a9 \o Text(WelcomeLines[4])
<1>1. Width \in Int /\ Height \in Int /\ Width >= 1024 /\ Height >= 768
  BY ScreensAssumption, ConsoleAssumption
<1>2. 2 \in Zoom /\ 3 \in Zoom /\ z \in Nat /\ 2 * (16 * z) <= Height
  BY ScreensAssumption, ConsoleAssumption DEF Zoom
<1>3. /\ Short(WelcomeLines[1], 35) /\ Short(WelcomeLines[2], 33) /\ Short(WelcomeLines[3], 58)
      /\ Short(WelcomeLines[4], 58)
  BY TextsAreShort
<1>4. x1 \in 0..Width /\ y1 \in 0..Height /\ x1 \in Int /\ y1 \in Int /\ ClearOfPicture(x1, y1, 35, 24, 48)
  BY <1>1 DEF ClearOfPicture, CenterY, Radius
<1>5. x2 \in 0..Width /\ y2 \in 0..Height /\ x2 \in Int /\ y2 \in Int /\ ClearOfPicture(x2, y2, 33, 24, 48)
      /\ y2 + 2 * (16 * 3) <= Height
  BY <1>1 DEF ClearOfPicture, CenterY, Radius
<1>6. x3 \in 0..Width /\ y3 \in 0..Height /\ x3 \in Int /\ y3 \in Int /\ ClearOfPicture(x3, y3, 58, 16, 32)
      /\ y3 + 2 * 32 <= Height
  BY <1>1 DEF ClearOfPicture, CenterY, Radius
<1>7. y4 \in 0..Height /\ y4 \in Int /\ ClearOfPicture(x3, y4, 58, 16, 32)
  BY <1>1 DEF ClearOfPicture, CenterY, Radius
<1>8. 24 = 8 * 3 /\ 48 = 16 * 3 /\ 16 = 8 * 2 /\ 32 = 16 * 2 /\ {24, 48, 16, 32, 35, 33, 58} \subseteq Nat
  OBVIOUS
<1> HIDE DEF p, x1, y1, x2, y2, x3, y3, y4, a1, a2, a3, a4, a5, a6, a7, a8, a9, a10
<1>9. Leads("welcome", p, a1, Spot(0, 0 + 16 * z, 3, 0))
  <2> DEFINE h == 16 * z
  <2>1. h \in Int /\ h = 16 * z /\ 0 + 2 * h <= Height /\ 0 \in Int
    BY <1>2
  <2> HIDE DEF h
  <2>2. Leads("welcome", Spot(0, 0, z, 0), set_zoom(3), Spot(0, 0 + h, 3, 0))
    BY <1>2, <2>1, AZoomLeads
  <2> QED BY <2>2 DEF h, p, a1
<1>10. Leads("welcome", p, a2, Spot(x1, y1, 3, 0))
  BY <1>4, <1>9, ThenCursor DEF a2
<1>11. PICK e1 : Leads("welcome", p, a3, Spot(e1, y1, 3, 0))
  <2>1. PICK e : Leads("welcome", Spot(x1, y1, 3, 0), Text(WelcomeLines[1]), Spot(e, y1, 3, 0))
    BY <1>3, <1>4, <1>8, WelcomeTextLeads
  <2> QED BY <1>10, <2>1, Joined DEF a3
<1>12. Leads("welcome", p, a4, Spot(x2, y2, 3, 0))
  BY <1>5, <1>11, ThenCursor DEF a4
<1>13. PICK e2 : Leads("welcome", p, a5, Spot(e2, y2, 3, 0))
  <2>1. PICK e : Leads("welcome", Spot(x2, y2, 3, 0), Text(WelcomeLines[2]), Spot(e, y2, 3, 0))
    BY <1>3, <1>5, <1>8, WelcomeTextLeads
  <2> QED BY <1>12, <2>1, Joined DEF a5
<1>14. PICK u : Leads("welcome", p, a6, Spot(0, u, 2, 0))
  <2>1. 2 \in Zoom
    BY <1>2
  <2>2. y2 \in Int /\ y2 + 2 * (16 * 3) <= Height
    BY <1>5
  <2>3. Leads("welcome", p, a5 \o set_zoom(2), Spot(0, y2 + 16 * 3, 2, 0))
    BY <2>1, <2>2, <1>13, ThenZoom
  <2> QED BY <2>3 DEF a6
<1>15. Leads("welcome", p, a7, Spot(x3, y3, 2, 0))
  BY <1>6, <1>14, ThenCursor DEF a7
<1>16. PICK v : Leads("welcome", p, a8, Spot(0, v, 2, 0))
  <2>1. PICK e : Leads("welcome", Spot(x3, y3, 2, 0), Text(WelcomeLines[3]), Spot(e, y3, 2, 0))
    BY <1>3, <1>6, <1>8, WelcomeTextLeads
  <2>2. Leads("welcome", Spot(e, y3, 2, 0), Break(1), Spot(0, y3 + 32, 2, 0))
    BY <1>6, <1>8, ABreakLeads
  <2>3. Leads("welcome", Spot(x3, y3, 2, 0), Line(WelcomeLines[3]), Spot(0, y3 + 32, 2, 0))
    BY <2>1, <2>2, Joined DEF Line
  <2> QED BY <1>15, <2>3, Joined DEF a8
<1>17. Leads("welcome", p, a9, Spot(x3, y4, 2, 0))
  BY <1>6, <1>7, <1>16, ThenCursor DEF a9
<1>18. PICK e4 : Leads("welcome", p, a10, Spot(e4, y4, 2, 0))
  <2>1. PICK e : Leads("welcome", Spot(x3, y4, 2, 0), Text(WelcomeLines[4]), Spot(e, y4, 2, 0))
    BY <1>3, <1>6, <1>7, <1>8, WelcomeTextLeads
  <2> QED BY <1>17, <2>1, Joined DEF a10
<1> QED BY <1>18 DEF WelcomeTexts, p, x1, y1, x2, y2, x3, y3, y4, a1, a2, a3, a4, a5, a6, a7, a8, a9, a10

LEMMA WelcomeLeads ==
    ASSUME NEW z \in Zoom
    PROVE  \E q : Leads("welcome", Spot(0, 0, z, 0), draw_welcome, q)
<1> DEFINE p == Spot(0, 0, z, 0)
<1>1. Leads("welcome", p, clear_screen, p)
  BY AClearLeads
<1>2. PICK q : Leads("welcome", p, WelcomeTexts, q)
  BY WelcomeTextsLead
<1> HIDE DEF p
<1>3. Leads("welcome", p, clear_screen \o Borders, p)
  BY <1>1, BordersLead, Joined
<1>4. Leads("welcome", p, (clear_screen \o Borders) \o Dotted, p)
  BY <1>3, DottedLeads, Joined
<1>5. Leads("welcome", p, ((clear_screen \o Borders) \o Dotted) \o draw_smile, p)
  BY <1>4, SmileLeads, Joined
<1>6. Leads("welcome", p, (((clear_screen \o Borders) \o Dotted) \o draw_smile) \o WelcomeTexts, q)
  BY <1>2, <1>5, Joined
<1> QED BY <1>6 DEF draw_welcome, p

-----------------------------------------------------------------------------
(* All screens *)

\* The line above which a screen has no text before it scrolls.
FirstLine(s, z) == IF s = "menu" THEN 16 * z ELSE 0

LEMMA ScriptsLead ==
    ASSUME NEW s \in DOMAIN Script, NEW z \in StartZooms[s]
    PROVE  \E q : Leads(s, Spot(0, 0, z, FirstLine(s, z)), Script[s], q)
<1>1. s \in {"welcome", "help", "menu", "instructions", "complete", "all", "counter"}
  BY DEF Script
<1>2. CASE s = "welcome"
  <2>1. z \in Zoom /\ Script[s] = draw_welcome /\ FirstLine(s, z) = 0
    BY <1>2, ConsoleAssumption DEF Script, StartZooms, FirstLine
  <2> QED BY <1>2, <2>1, WelcomeLeads
<1>3. CASE s = "help"
  <2>1. z \in Zoom /\ Script[s] = cmd_help /\ FirstLine(s, z) = 0
    BY <1>3 DEF Script, StartZooms, FirstLine
  <2> QED BY <1>3, <2>1, HelpLeads
<1>4. CASE s = "menu"
  <2>1. z \in Zoom /\ Script[s] = drawMainMenu /\ FirstLine(s, z) = 16 * z
    BY <1>4 DEF Script, StartZooms, FirstLine
  <2> QED BY <1>4, <2>1, MenuLeads
<1>5. CASE s = "instructions"
  <2>1. z = 3 /\ Script[s] = drawInstructions /\ FirstLine(s, z) = 0
    BY <1>5 DEF Script, StartZooms, FirstLine
  <2> QED BY <1>5, <2>1, InstructionsLead
<1>6. CASE s = "complete"
  <2>1. z = 2 /\ Script[s] = render_level_complete /\ FirstLine(s, z) = 0
    BY <1>6 DEF Script, StartZooms, FirstLine
  <2> QED BY <1>6, <2>1, CompleteLeads
<1>7. CASE s = "all"
  <2>1. z = 2 /\ Script[s] = render_all_levels_complete /\ FirstLine(s, z) = 0
    BY <1>7 DEF Script, StartZooms, FirstLine
  <2> QED BY <1>7, <2>1, AllCompleteLeads
<1>8. CASE s = "counter"
  <2>1. z = 3 /\ Script[s] = counter /\ FirstLine(s, z) = 0
    BY <1>8 DEF Script, StartZooms, FirstLine
  <2> QED BY <1>8, <2>1, CounterLeads
<1> QED BY <1>1, <1>2, <1>3, <1>4, <1>5, <1>6, <1>7, <1>8

-----------------------------------------------------------------------------
(* The screens: the driver goes where the layout says *)

GoodSpot(p) ==
    /\ p.zoom \in Zoom /\ p.x \in 0..Width /\ p.y \in 0..Height
    /\ p.low \in 0..Height

\* s is at the place p, n characters on.
OnSpot(s, p, n) == Fields(s) /\ s.zoom = p.zoom /\ s.x = p.x + n * CellW(p) /\ s.y = p.y

LEMMA CellOfSpot ==
    ASSUME NEW s, NEW p, s.zoom = p.zoom, GoodSpot(p)
    PROVE  /\ CellW(s) = CellW(p) /\ CellH(s) = CellH(p)
           /\ CellW(p) \in Nat /\ CellW(p) > 0 /\ 2 * CellW(p) <= Width
           /\ CellH(p) \in Nat /\ CellH(p) > 0 /\ 2 * CellH(p) <= Height
<1>1. CellW(s) = CellW(p) /\ CellH(s) = CellH(p)
  BY DEF CellW, CellH
<1>2. p.zoom \in Zoom
  BY DEF GoodSpot
<1> QED BY <1>1, <1>2, CellFits

\* A character of a text that keeps its line.
LEMMA GlyphStays ==
    ASSUME NEW s, NEW p, GoodSpot(p), NEW n \in Nat, OnSpot(s, p, n), NEW c, c # NewLine, c # Backspace,
           p.x + (n + 2) * CellW(p) <= Width, p.y + CellH(p) <= Height
    PROVE  OnSpot(vd_put_char(s, c), p, n + 1) /\ ~(Wrapped(Moved(s, c)).y + CellH(s) > Height)
<1> DEFINE w == CellW(p)
           h == CellH(p)
           m == Moved(s, c)
           v == Wrapped(m)
           t == Scrolled(v)
<1>1. /\ CellW(s) = w /\ CellH(s) = h /\ w \in Nat /\ h \in Nat /\ Width \in Nat /\ Height \in Nat
      /\ p.x \in Nat /\ p.y \in Nat /\ Fields(s) /\ s.y = p.y /\ s.x = p.x + n * w /\ s.zoom = p.zoom
  <2>1. Fields(s) /\ s.y = p.y /\ s.x = p.x + n * w /\ s.zoom = p.zoom
    BY DEF OnSpot
  <2>2. CellW(s) = w /\ CellH(s) = h /\ w \in Nat /\ h \in Nat
    BY <2>1, CellOfSpot
  <2>3. Width \in Nat /\ Height \in Nat
    BY ConsoleAssumption
  <2>4. p.x \in Nat /\ p.y \in Nat
    BY <2>3 DEF GoodSpot
  <2> QED BY <2>1, <2>2, <2>3, <2>4
<1>2. At(m, s, s.x + w, s.y)
  BY <1>1, GlyphMovesTo
<1>3. t = vd_put_char(s, c)
  BY DEF vd_put_char
<1> HIDE DEF m, v, t
<1>4. n * w \in Int /\ (n + 1) * w = n * w + w /\ (n + 2) * w = n * w + 2 * w
  <2> HIDE DEF w, h
  <2> QED BY <1>1
<1> DEFINE nw == n * w
<1> HIDE DEF nw
<1>5. nw \in Int /\ s.x = p.x + nw /\ p.x + (nw + 2 * w) <= Width
  BY <1>1, <1>4 DEF nw
<1>6. Fields(m) /\ m.zoom = s.zoom /\ m.x = s.x + w /\ m.y = s.y /\ CellW(m) = w /\ CellH(m) = h
  BY <1>1, <1>2 DEF At, CellW, CellH
<1> HIDE DEF w, h
<1>7. ~(m.x + w > Width)
  BY <1>1, <1>5, <1>6
<1>8. At(v, m, m.x, m.y)
  BY <1>6, <1>7, WrappedTo DEF v
<1>9. Fields(v) /\ v.zoom = s.zoom /\ v.x = s.x + w /\ v.y = s.y /\ CellH(v) = h
  BY <1>1, <1>6, <1>8 DEF At, CellH, h
<1>10. ~(v.y + h > Height)
  BY <1>1, <1>9 DEF h
<1>11. At(t, v, v.x, v.y)
  BY <1>9, <1>10, ScrolledTo DEF t
<1>12. Fields(t) /\ t.zoom = p.zoom /\ t.x = s.x + w /\ t.y = p.y
  BY <1>1, <1>9, <1>11 DEF At
<1>13. t.x = p.x + (n + 1) * w
  <2>1. s.x + w = p.x + (nw + w)
    BY <1>1, <1>5
  <2>2. (n + 1) * w = nw + w
    BY <1>4 DEF nw
  <2> QED BY <1>12, <2>1, <2>2
<1>14. OnSpot(t, p, n + 1)
  BY <1>12, <1>13 DEF OnSpot, w
<1> QED BY <1>1, <1>3, <1>10, <1>14 DEF v, m

\* A line break, with its scroll if there is no line below.
LEMMA BreakGoesBelow ==
    ASSUME NEW s, NEW p, GoodSpot(p), Fields(s), s.zoom = p.zoom, s.y = p.y, p.y + CellH(p) <= Height
    PROVE  LET t == vd_put_char(s, NewLine)
           IN  /\ Fields(t) /\ t.zoom = p.zoom /\ t.x = 0 /\ t.y = LineBelow(p, p.zoom).y
               /\ (Wrapped(Moved(s, NewLine)).y + CellH(s) > Height) = ~(p.y + 2 * CellH(p) <= Height)
<1> DEFINE w == CellW(p)
           h == CellH(p)
           m == Moved(s, NewLine)
           v == Wrapped(m)
           t == Scrolled(v)
<1>1. /\ CellW(s) = w /\ CellH(s) = h /\ w \in Nat /\ 2 * w <= Width /\ h \in Nat /\ Width \in Nat /\ Height \in Nat
      /\ p.y \in Nat
  BY CellOfSpot, ConsoleAssumption DEF GoodSpot
<1>2. At(m, s, 0, s.y + h)
  BY <1>1, NewLineMovesTo
<1>3. t = vd_put_char(s, NewLine)
  BY DEF vd_put_char
<1>4. LineBelow(p, p.zoom).y = IF p.y + 2 * h <= Height THEN p.y + h ELSE p.y
  BY DEF LineBelow, Spot
<1> HIDE DEF m, v, t
<1>5. Fields(m) /\ m.zoom = s.zoom /\ m.x = 0 /\ m.y = p.y + h /\ CellW(m) = w /\ CellH(m) = h
  BY <1>1, <1>2 DEF At, CellW, CellH
<1>6. ~(m.x + w > Width)
  <2> HIDE DEF w, h
  <2> QED BY <1>1, <1>5
<1>7. At(v, m, m.x, m.y)
  BY <1>5, <1>6, WrappedTo DEF v
<1>8. Fields(v) /\ v.zoom = p.zoom /\ v.x = 0 /\ v.y = p.y + h /\ CellH(v) = h
  BY <1>1, <1>5, <1>7 DEF At, CellH
<1>9. IF v.y + h > Height THEN At(t, v, 0, v.y - h) ELSE At(t, v, 0, v.y)
  BY <1>8, ScrolledTo DEF t
<1> HIDE DEF w, h
<1>10. Fields(t) /\ t.zoom = p.zoom /\ t.x = 0 /\ t.y = IF v.y + h > Height THEN v.y - h ELSE v.y
  BY <1>8, <1>9 DEF At
<1>11. (v.y + h > Height) = ~(p.y + 2 * h <= Height)
  BY <1>1, <1>8
<1>12. t.y = IF p.y + 2 * h <= Height THEN p.y + h ELSE p.y
  BY <1>1, <1>8, <1>10, <1>11
<1> QED BY <1>1, <1>3, <1>4, <1>10, <1>11, <1>12 DEF v, m, h

LEMMA BelowIsGood ==
    ASSUME NEW s, NEW p, GoodSpot(p), NEW z \in Zoom,
           p.y + 2 * CellH(p) <= Height \/ (p.y + CellH(p) <= Height /\ p.low >= CellH(p))
    PROVE  /\ GoodSpot(LineBelow(p, z)) /\ LineBelow(p, z).x = 0 /\ LineBelow(p, z).zoom = z
           /\ LineBelow(p, z).y = LineBelow(p, p.zoom).y
           /\ p.y + CellH(p) <= Height
           /\ LineBelow(p, z).low = p.low - (IF p.y + 2 * CellH(p) <= Height THEN 0 ELSE CellH(p))
<1> DEFINE h == CellH(p)
<1>1. h \in Nat /\ Height \in Nat /\ Width \in Nat /\ p.y \in 0..Height /\ p.low \in 0..Height
  BY CellOfSpot, ConsoleAssumption DEF GoodSpot
<1>2. LineBelow(p, z) = IF p.y + 2 * h <= Height THEN Spot(0, p.y + h, z, p.low) ELSE Spot(0, p.y, z, p.low - h)
  BY DEF LineBelow
<1>3. LineBelow(p, p.zoom) = IF p.y + 2 * h <= Height THEN Spot(0, p.y + h, p.zoom, p.low) ELSE Spot(0, p.y, p.zoom, p.low - h)
  BY DEF LineBelow
<1>4. ASSUME NEW y \in 0..Height, NEW low \in 0..Height PROVE GoodSpot(Spot(0, y, z, low))
  BY <1>1, SpotSize DEF GoodSpot
<1>5. p.low = p.low - 0
  BY <1>1
<1>6. CASE p.y + 2 * h <= Height
  <2>1. p.y + h \in 0..Height
    <3> HIDE DEF h
    <3> QED BY <1>1, <1>6
  <2>2. p.y + h <= Height
    BY <2>1
  <2> HIDE DEF h
  <2> QED BY <1>1, <1>2, <1>3, <1>4, <1>5, <1>6, <2>1, <2>2, SpotSize DEF h
<1>7. CASE ~(p.y + 2 * h <= Height)
  <2>1. p.low - h \in 0..Height /\ p.y + h <= Height
    <3>1. p.y + h <= Height /\ p.low >= h
      BY <1>7
    <3> HIDE DEF h
    <3> QED BY <1>1, <3>1
  <2> HIDE DEF h
  <2> QED BY <1>1, <1>2, <1>3, <1>4, <1>7, <2>1, SpotSize DEF h
<1> QED BY <1>6, <1>7

\* The layout leads from a place to a place.
LEMMA AfterIsGood ==
    ASSUME NEW s, NEW p, GoodSpot(p), NEW c \in Calls, Laid(s, p, c)
    PROVE  GoodSpot(After(p, c))
<1>1. /\ Width \in Nat /\ Height \in Nat /\ CellW(p) \in Nat /\ p.zoom \in Zoom
      /\ p.x \in 0..Width /\ p.y \in 0..Height /\ p.low \in 0..Height
  BY CellOfSpot, ConsoleAssumption DEF GoodSpot
<1>2. CASE c.call = "text"
  <2> DEFINE l == Len(c.text)
             w == CellW(p)
             lw == l * w
  <2>1. l \in Nat /\ p.x + (l + 1) * w <= Width
    BY <1>2 DEF Laid
  <2> HIDE DEF l, w
  <2>2. lw \in Nat /\ (l + 1) * w = lw + w /\ w \in Nat
    BY <1>1, <2>1 DEF w
  <2> HIDE DEF lw
  <2>3. p.x + lw \in 0..Width
    BY <1>1, <2>1, <2>2
  <2>4. After(p, c) = Spot(p.x + lw, p.y, p.zoom, p.low)
    BY <1>2 DEF After, lw, l, w
  <2> QED BY <1>1, <2>3, <2>4, SpotSize DEF GoodSpot
<1>3. CASE c.call = "break"
  <2>1. p.y + 2 * CellH(p) <= Height \/ (p.y + CellH(p) <= Height /\ p.low >= CellH(p))
    BY <1>3 DEF Laid
  <2> QED BY <1>1, <1>3, <2>1, BelowIsGood DEF After
<1>4. CASE c.call = "zoom"
  <2>1. p.y + 2 * CellH(p) <= Height \/ (p.y + CellH(p) <= Height /\ p.low >= CellH(p))
    BY <1>4 DEF Laid
  <2>2. c.zoom \in Zoom
    BY <1>4 DEF Laid
  <2> QED BY <1>4, <2>1, <2>2, BelowIsGood DEF After
<1>5. CASE c.call = "cursor"
  <2>1. c.x \in 0..Width /\ c.y \in 0..Height /\ After(p, c) = Spot(c.x, c.y, p.zoom, p.low)
    BY <1>5 DEF Laid, After
  <2> QED BY <1>1, <2>1, SpotSize DEF GoodSpot
<1>6. CASE c.call = "clear"
  <2>1. After(p, c) = Spot(0, 0, p.zoom, p.low) /\ 0 \in 0..Width /\ 0 \in 0..Height
    BY <1>1, <1>6 DEF After
  <2> QED BY <1>1, <2>1, SpotSize DEF GoodSpot
<1>7. CASE c.call \notin {"text", "break", "zoom", "cursor", "clear"}
  BY <1>7 DEF After
<1> QED BY <1>2, <1>3, <1>4, <1>5, <1>6, <1>7

-----------------------------------------------------------------------------
(* The screens: the inductive invariant *)

\* The script and the places after its calls.
Follows(f, z) ==
    /\ script \in DOMAIN Script /\ Script[script] \in Seq(Calls)
    /\ Path(script, Spot(0, 0, z, FirstLine(script, z)), Script[script], f)

\* The program stands ch characters behind the place the layout gives for its
\* call, and the text on the screen begins where the layout counts on.
Stands(f) ==
    /\ pc \in 1..Len(Script[script]) + 1 /\ GoodSpot(f[pc - 1])
    /\ ch \in Nat /\ OnSpot(console, f[pc - 1], ch)
    /\ ch > 0 => Running /\ Call.call = "text" /\ ch < Len(Call.text) /\ textY = f[pc - 1].y
    /\ top \in Int /\ top >= f[pc - 1].low
    /\ script \in {"welcome", "counter"} => ~scrolled
    /\ scrolled \in BOOLEAN

\* Where another part of DisplaySpec runs the screens have not begun.
Rests == IInv /\ script = "welcome" /\ pc = 1 /\ ch = 0 /\ top = Height /\ ~scrolled

ScreenInv == IF subject = "screen" THEN \E z \in Zoom : \E f : Follows(f, z) /\ Stands(f) ELSE Rests

\* Where the program runs the call is one the layout speaks of.
LEMMA CallIsLaid ==
    ASSUME NEW f, NEW z, Follows(f, z), Stands(f), Running
    PROVE  /\ Call \in Calls /\ Laid(script, f[pc - 1], Call) /\ f[pc] = After(f[pc - 1], Call)
           /\ pc \in 1..Len(Script[script]) /\ GoodSpot(f[pc])
<1>1. Script[script] \in Seq(Calls) /\ pc \in 1..Len(Script[script])
  BY DEF Follows, Stands, Running
<1>2. Call \in Calls
  <2> HIDE DEF Calls
  <2> QED BY <1>1 DEF Call
<1>3. Laid(script, f[pc - 1], Call) /\ f[pc] = After(f[pc - 1], Call)
  BY <1>1 DEF Follows, Path, Call
<1> QED BY <1>1, <1>2, <1>3, AfterIsGood DEF Stands

\* What is left to show when the call is done.
LEMMA CallIsDone ==
    ASSUME NEW f, NEW z, Follows(f, z), Stands(f), Running, NextCall, UNCHANGED script,
           OnSpot(console', f[pc], 0), top' \in Int, top' >= f[pc].low,
           scrolled' \in BOOLEAN, script \in {"welcome", "counter"} => ~scrolled'
    PROVE  Follows(f, z)' /\ Stands(f)'
<1>1. pc \in 1..Len(Script[script]) /\ GoodSpot(f[pc])
  BY CallIsLaid
<1>2. pc' = pc + 1 /\ ch' = 0 /\ script' = script
  BY DEF NextCall
<1>3. pc' \in 1..Len(Script[script]) + 1 /\ pc' - 1 = pc
  <2>1. Len(Script[script]) \in Nat
    <3> HIDE DEF Calls
    <3> QED BY DEF Follows
  <2> QED BY <1>1, <1>2, <2>1
<1>4. Follows(f, z)'
  BY <1>2 DEF Follows
<1>5. pc' \in 1..Len(Script[script']) + 1 /\ GoodSpot(f[pc' - 1])
  BY <1>1, <1>2, <1>3
<1>6. ch' \in Nat /\ OnSpot(console', f[pc' - 1], ch') /\ ~(ch' > 0)
  BY <1>2, <1>3
<1>7. top' >= f[pc' - 1].low
  BY <1>3
<1> QED BY <1>2, <1>4, <1>5, <1>6, <1>7 DEF Stands

LEMMA TopIsKept ==
    ASSUME NEW t \in Int, NEW y \in Int, NEW low \in Int, t >= low, low <= y
    PROVE  LET m == IF y < t THEN y ELSE t IN m \in Int /\ m >= low /\ m - 0 = m
OBVIOUS

LEMMA CharacterStep ==
    ASSUME NEW f, NEW z, Follows(f, z), Stands(f), Character
    PROVE  Follows(f, z)' /\ Stands(f)'
<1> DEFINE p == f[pc - 1]
           l == Len(Call.text)
           w == CellW(p)
<1>1. /\ Running /\ Call.call = "text" /\ Call \in Calls /\ Laid(script, p, Call) /\ f[pc] = After(p, Call)
      /\ GoodSpot(p) /\ OnSpot(console, p, ch) /\ pc \in 1..Len(Script[script])
  BY CallIsLaid DEF Character, Stands
<1>2. Glyph # NewLine /\ Glyph # Backspace
  <2>1. Glyph \in Letters
    BY ScreensAssumption DEF Glyph
  <2> QED BY <2>1, ConsoleAssumption
<1>3. l \in Nat /\ p.x + (l + 1) * w <= Width /\ p.y + CellH(p) <= Height /\ p.low <= p.y /\ l >= 1
  BY <1>1 DEF Laid
<1>4. ch \in Nat /\ ch < l
  <2>1. ch \in Nat /\ (ch > 0 => ch < l)
    BY DEF Stands
  <2> HIDE DEF l
  <2> QED BY <1>3, <2>1
<1>5. /\ w \in Nat /\ Width \in Nat /\ Height \in Nat /\ p.x \in Nat /\ p.y \in Int /\ p.low \in Int
      /\ CellH(console) = CellH(p) /\ console.y = p.y
  <2> HIDE DEF p
  <2>1. Width \in Nat /\ Height \in Nat
    BY ConsoleAssumption
  <2>2. p.x \in Nat /\ p.y \in Int /\ p.low \in Int
    BY <1>1, <2>1 DEF GoodSpot
  <2>3. console.zoom = p.zoom /\ console.y = p.y
    BY <1>1 DEF OnSpot
  <2>4. w \in Nat /\ CellH(console) = CellH(p)
    BY <1>1, <2>3, CellOfSpot
  <2> QED BY <2>1, <2>2, <2>3, <2>4
<1>6. p.x + (ch + 2) * w <= Width
  <2> DEFINE b == ch + 2
             e == l + 1
             bw == b * w
             ew == e * w
  <2> HIDE DEF l, w
  <2>1. e \in Nat /\ b \in 1..e
    BY <1>3, <1>4
  <2> HIDE DEF b, e
  <2>2. bw \in Int /\ ew \in Int /\ bw <= ew
    BY <1>5, <2>1, RowsSum DEF RowSums
  <2>3. p.x + ew <= Width
    BY <1>3 DEF e
  <2> HIDE DEF bw, ew, p
  <2>4. p.x + bw <= Width
    BY <1>5, <2>2, <2>3
  <2> QED BY <2>4 DEF b, bw
<1>7. console' = vd_put_char(console, Glyph)
  BY DEF Character, Write
<1>8. OnSpot(console', p, ch + 1) /\ ~(Wrapped(Moved(console, Glyph)).y + CellH(console) > Height)
  <2> HIDE DEF p
  <2> QED BY <1>1, <1>2, <1>3, <1>4, <1>6, <1>7, GlyphStays DEF w
<1>9. ~Scrolls(Glyph)
  BY <1>8 DEF Scrolls
<1>10. /\ scrolled' = (scrolled \/ FALSE)
       /\ top' = (IF console.y < top THEN console.y ELSE top) - 0
  <2>1. ScrollFor(Glyph)
    BY DEF Character
  <2> QED BY <1>9, <2>1 DEF ScrollFor
<1>11. top' \in Int /\ top' >= p.low
  <2>1. top \in Int /\ top >= p.low
    BY DEF Stands
  <2> HIDE DEF p
  <2> QED BY <1>3, <1>5, <1>10, <2>1, TopIsKept
<1>12. scrolled' \in BOOLEAN /\ (script \in {"welcome", "counter"} => ~scrolled') /\ UNCHANGED script
  BY <1>10 DEF Stands, Character
<1>13. textY' = p.y
  <2>1. textY' = IF ch = 0 THEN console.y ELSE textY
    BY DEF Character
  <2>2. ch > 0 => textY = p.y
    BY DEF Stands
  <2> HIDE DEF p
  <2> QED BY <1>4, <1>5, <2>1, <2>2
<1>14. CASE ch + 1 < l
  <2>1. ch' = ch + 1 /\ pc' = pc /\ script' = script
    BY <1>14 DEF Character
  <2>2. Follows(f, z)'
    BY <2>1 DEF Follows
  <2>3. pc' \in 1..Len(Script[script']) + 1 /\ GoodSpot(f[pc' - 1]) /\ f[pc' - 1] = p
    BY <2>1 DEF Stands
  <2>4. Running' /\ Call' = Call
    BY <1>1, <2>1 DEF Running, Call
  <2>5. ch' \in Nat
    BY <1>4, <2>1
  <2>6. OnSpot(console', f[pc' - 1], ch')
    BY <1>8, <2>1
  <2>7. Call'.call = "text" /\ ch' < Len(Call'.text) /\ textY' = f[pc' - 1].y
    BY <1>1, <1>13, <1>14, <2>1, <2>4
  <2> QED BY <1>11, <1>12, <2>1, <2>2, <2>3, <2>4, <2>5, <2>6, <2>7 DEF Stands
<1>15. CASE ~(ch + 1 < l)
  <2>1. NextCall
    BY <1>15 DEF Character
  <2>2. ch + 1 = l
    <3> HIDE DEF l
    <3> QED BY <1>3, <1>4, <1>15
  <2>3. f[pc] = Spot(p.x + l * w, p.y, p.zoom, p.low)
    BY <1>1 DEF After
  <2> DEFINE q == f[pc]
  <2>4. q.x = p.x + l * w /\ q.y = p.y /\ q.zoom = p.zoom /\ q.low = p.low
    BY <2>3 DEF Spot
  <2>5. l * w \in Int /\ 0 * CellW(q) = 0
    <3>1. CellW(q) = w
      BY <2>4 DEF CellW
    <3> HIDE DEF l, w
    <3> QED BY <1>3, <1>5, <3>1
  <2>6. OnSpot(console', q, 0)
    <3>1. Fields(console') /\ console'.zoom = p.zoom /\ console'.x = p.x + l * w /\ console'.y = p.y
      BY <1>8, <2>2 DEF OnSpot
    <3> DEFINE lw == l * w
    <3> HIDE DEF lw
    <3>2. lw \in Int /\ console'.x = p.x + lw /\ q.x = p.x + lw
      BY <2>4, <2>5, <3>1 DEF lw
    <3>3. console'.x = q.x + 0
      BY <1>5, <3>2
    <3> HIDE DEF q
    <3> QED BY <2>4, <2>5, <3>1, <3>3 DEF OnSpot
  <2> HIDE DEF p
  <2> QED BY <1>1, <1>11, <1>12, <2>1, <2>4, <2>6, CallIsDone
<1> QED BY <1>14, <1>15

\* A line break, with the zoom it leaves: LineBreak and ChangeZoom.
LEMMA BreakStep ==
    ASSUME NEW f, NEW z, Follows(f, z), Stands(f), Running, NextCall, UNCHANGED script, ScrollFor(NewLine),
           Call.call \in {"break", "zoom"}, NEW to \in Zoom, f[pc] = LineBelow(f[pc - 1], to),
           DOMAIN console' = {"x", "y", "zoom", "fb"}, DOMAIN console'.fb = FrameBuffer,
           console'.zoom = to, console'.x = vd_put_char(console, NewLine).x, console'.y = vd_put_char(console, NewLine).y
    PROVE  Follows(f, z)' /\ Stands(f)'
<1> DEFINE p == f[pc - 1]
           q == f[pc]
           h == CellH(p)
           t == vd_put_char(console, NewLine)
<1>1. Laid(script, p, Call) /\ GoodSpot(p) /\ OnSpot(console, p, ch)
  BY CallIsLaid DEF Stands
<1>2. p.y + 2 * h <= Height \/ (script = "menu" /\ p.y + h <= Height /\ p.low >= h)
  BY <1>1 DEF Laid
<1>3. p.y + 2 * h <= Height \/ (p.y + h <= Height /\ p.low >= h)
  BY <1>2
<1>4. /\ q.x = 0 /\ q.zoom = to /\ q.y = LineBelow(p, p.zoom).y /\ p.y + h <= Height
      /\ q.low = p.low - (IF p.y + 2 * h <= Height THEN 0 ELSE h)
  <2>1. q = LineBelow(p, to)
    OBVIOUS
  <2> HIDE DEF p, q
  <2> QED BY <1>1, <1>3, <2>1, BelowIsGood DEF h
<1>5. /\ t.x = 0 /\ t.y = LineBelow(p, p.zoom).y
      /\ (Wrapped(Moved(console, NewLine)).y + CellH(console) > Height) = ~(p.y + 2 * h <= Height)
  <2>1. Fields(console) /\ console.zoom = p.zoom /\ console.y = p.y
    BY <1>1 DEF OnSpot
  <2> HIDE DEF p
  <2> QED BY <1>1, <1>4, <2>1, BreakGoesBelow DEF h
<1>6. CellH(console) = h /\ h \in Nat /\ p.low \in Int /\ p.y \in Int /\ Height \in Int /\ console.y = p.y
  BY <1>1, CellOfSpot, ConsoleAssumption DEF OnSpot, GoodSpot
<1>7. Scrolls(NewLine) = ~(p.y + 2 * h <= Height)
  BY <1>5 DEF Scrolls
<1>8. Glyph # NewLine
  <2>1. Glyph \in Letters
    BY ScreensAssumption DEF Glyph
  <2> QED BY <2>1, ConsoleAssumption
<1>9. /\ scrolled' = (scrolled \/ ~(p.y + 2 * h <= Height))
      /\ top' = top - (IF ~(p.y + 2 * h <= Height) THEN h ELSE 0)
  <2>1. scrolled' = (scrolled \/ Scrolls(NewLine))
    BY DEF ScrollFor
  <2>2. top' = top - (IF Scrolls(NewLine) THEN CellH(console) ELSE 0)
    BY <1>8 DEF ScrollFor
  <2> HIDE DEF p, h
  <2> QED BY <1>6, <1>7, <2>1, <2>2
<1>10. top' \in Int /\ top' >= q.low
  <2>1. top \in Int /\ top >= p.low
    BY DEF Stands
  <2> HIDE DEF p, q, h
  <2>2. CASE p.y + 2 * h <= Height
    BY <1>4, <1>6, <1>9, <2>1, <2>2
  <2>3. CASE ~(p.y + 2 * h <= Height)
    BY <1>4, <1>6, <1>9, <2>1, <2>3
  <2> QED BY <2>2, <2>3
<1>11. scrolled' \in BOOLEAN
  BY <1>9
<1>12. script \in {"welcome", "counter"} => ~scrolled'
  <2> SUFFICES ASSUME script \in {"welcome", "counter"} PROVE ~scrolled'
    OBVIOUS
  <2>1. p.y + 2 * h <= Height
    BY <1>2
  <2> HIDE DEF p, h
  <2> QED BY <1>9, <2>1 DEF Stands
<1>13. OnSpot(console', q, 0)
  <2>1. CellW(q) \in Int
    <3>1. GoodSpot(q)
      BY CallIsLaid
    <3> HIDE DEF q
    <3>2. q.zoom \in Zoom
      BY <3>1 DEF GoodSpot
    <3> QED BY <3>2, CellFits
  <2> HIDE DEF q
  <2>2. q.x + 0 * CellW(q) = 0
    BY <1>4, <2>1
  <2> QED BY <1>4, <1>5, <2>2 DEF OnSpot, Fields
<1> HIDE DEF p, h, t
<1> QED BY <1>10, <1>11, <1>12, <1>13, CallIsDone

LEMMA OtherSteps ==
    ASSUME NEW f, NEW z, Follows(f, z), Stands(f), LineBreak \/ ChangeZoom \/ PlaceCursor \/ Wipe \/ DrawShape
    PROVE  Follows(f, z)' /\ Stands(f)'
<1> DEFINE p == f[pc - 1]
           q == f[pc]
<1>1. Running /\ NextCall /\ UNCHANGED script
  BY DEF LineBreak, ChangeZoom, PlaceCursor, Wipe, DrawShape
<1>2. /\ Laid(script, p, Call) /\ q = After(p, Call) /\ GoodSpot(p) /\ GoodSpot(q) /\ OnSpot(console, p, ch)
      /\ Fields(console) /\ console.zoom = p.zoom /\ console.y = p.y /\ p.zoom \in Zoom
      /\ top \in Int /\ top >= p.low /\ scrolled \in BOOLEAN /\ (script \in {"welcome", "counter"} => ~scrolled)
  BY <1>1, CallIsLaid DEF Stands, OnSpot, GoodSpot
<1>3. CellW(p) \in Int /\ CellW(q) \in Int /\ p.x \in Int /\ q.x \in Int /\ p.low \in Int
      /\ p.low <= Height /\ Height \in Int
  <2> HIDE DEF p, q
  <2>1. Height \in Nat /\ Width \in Nat
    BY ConsoleAssumption
  <2>2. p.zoom \in Zoom /\ q.zoom \in Zoom
    BY <1>2 DEF GoodSpot
  <2>3. CellW(p) \in Int /\ CellW(q) \in Int
    BY <2>2, CellFits
  <2> QED BY <1>2, <2>1, <2>3 DEF GoodSpot
<1>4. 0 * CellW(p) = 0 /\ 0 * CellW(q) = 0 /\ p.x + 0 = p.x /\ q.x + 0 = q.x
  <2> HIDE DEF p, q
  <2> QED BY <1>3
<1>5. Call.call # "text" => ch = 0
  BY DEF Stands
<1> DEFINE t == vd_put_char(console, NewLine)
<1>6. Call.call \in {"break", "zoom"} => Fields(t) /\ t.zoom = p.zoom
  <2> SUFFICES ASSUME Call.call \in {"break", "zoom"} PROVE Fields(t) /\ t.zoom = p.zoom
    OBVIOUS
  <2>1. p.y + 2 * CellH(p) <= Height \/ (p.y + CellH(p) <= Height /\ p.low >= CellH(p))
    BY <1>2 DEF Laid
  <2> HIDE DEF p
  <2>2. p.y + CellH(p) <= Height
    BY <1>2, <2>1, BelowIsGood
  <2> QED BY <1>2, <2>2, BreakGoesBelow
<1>7. CASE LineBreak
  <2>1. console' = t /\ Call.call = "break" /\ ScrollFor(NewLine)
    BY <1>7 DEF LineBreak, Write
  <2>2. q = LineBelow(p, p.zoom)
    BY <1>2, <2>1 DEF After
  <2> HIDE DEF t
  <2>3. /\ DOMAIN console' = {"x", "y", "zoom", "fb"} /\ DOMAIN console'.fb = FrameBuffer
        /\ console'.zoom = p.zoom /\ console'.x = t.x /\ console'.y = t.y
    BY <1>6, <2>1 DEF Fields
  <2> HIDE DEF p
  <2> QED BY <1>1, <1>2, <2>1, <2>2, <2>3, BreakStep DEF p, t
<1>8. CASE ChangeZoom
  <2>1. console' = [t EXCEPT !.zoom = Call.zoom] /\ Call.call = "zoom" /\ ScrollFor(NewLine) /\ Call.zoom \in Zoom
    BY <1>8 DEF ChangeZoom, SetZoom
  <2>2. q = LineBelow(p, Call.zoom)
    BY <1>2, <2>1 DEF After
  <2> HIDE DEF t
  <2>3. /\ DOMAIN console' = {"x", "y", "zoom", "fb"} /\ DOMAIN console'.fb = FrameBuffer
        /\ console'.zoom = Call.zoom /\ console'.x = t.x /\ console'.y = t.y
    BY <1>6, <2>1 DEF Fields
  <2> HIDE DEF p
  <2> QED BY <1>1, <2>1, <2>2, <2>3, BreakStep DEF p, t
<1>9. CASE PlaceCursor
  <2>1. console' = [console EXCEPT !.x = Call.x, !.y = Call.y] /\ Call.call = "cursor" /\ top' = top
        /\ scrolled' = scrolled
    BY <1>9 DEF PlaceCursor, SetCursor
  <2>2. q = Spot(Call.x, Call.y, p.zoom, p.low)
    BY <1>2, <2>1 DEF After
  <2>3. q.x = Call.x /\ q.y = Call.y /\ q.zoom = p.zoom /\ q.low = p.low
    BY <2>2 DEF Spot
  <2>4. OnSpot(console', q, 0)
    <3>1. Fields(console') /\ console'.x = q.x /\ console'.y = q.y /\ console'.zoom = q.zoom
      BY <1>2, <2>1, <2>3 DEF Fields
    <3> HIDE DEF q
    <3> QED BY <1>4, <3>1 DEF OnSpot
  <2> HIDE DEF p
  <2> QED BY <1>1, <1>2, <2>1, <2>3, <2>4, CallIsDone
<1>10. CASE Wipe
  <2>1. console' = vd_clear_screen(console) /\ Call.call = "clear" /\ top' = Height /\ scrolled' = FALSE
    BY <1>10 DEF Wipe, ClearScreen
  <2>2. q = Spot(0, 0, p.zoom, p.low)
    BY <1>2, <2>1 DEF After
  <2>3. q.x = 0 /\ q.y = 0 /\ q.zoom = p.zoom /\ q.low = p.low
    BY <2>2 DEF Spot
  <2>4. OnSpot(console', q, 0)
    <3>1. At(console', console, 0, 0)
      BY <1>2, <2>1 DEF vd_clear_screen, Fields, At
    <3>2. Fields(console') /\ console'.x = q.x /\ console'.y = q.y /\ console'.zoom = q.zoom
      BY <1>2, <2>3, <3>1 DEF At
    <3> HIDE DEF q
    <3> QED BY <1>4, <3>2 DEF OnSpot
  <2>5. top' \in Int /\ top' >= q.low
    BY <1>3, <2>1, <2>3
  <2> HIDE DEF p
  <2> QED BY <1>1, <2>1, <2>4, <2>5, CallIsDone
<1>11. CASE DrawShape
  <2>1. console' = console /\ Call.call \in {"rectangle", "circle"} /\ top' = top /\ scrolled' = scrolled
    BY <1>11 DEF DrawShape
  <2>2. q = p /\ ch = 0
    BY <1>2, <1>5, <2>1 DEF After
  <2>3. OnSpot(console', q, 0)
    BY <1>2, <2>1, <2>2
  <2> HIDE DEF p
  <2> QED BY <1>1, <1>2, <2>1, <2>2, <2>3, CallIsDone
<1> QED BY <1>7, <1>8, <1>9, <1>10, <1>11

\* Where the invariant holds on a layout the two properties hold.
LEMMA StandingIsFine ==
    ASSUME NEW f, NEW z, Follows(f, z), Stands(f)
    PROVE  TextsAreSeen /\ PicturesAreWhole
<1> DEFINE p == f[pc - 1]
           l == Len(Call.text)
           w == CellW(p)
           x == console.x
<1>1. GoodSpot(p) /\ OnSpot(console, p, ch) /\ ch \in Nat /\ top \in Int /\ top >= p.low
  BY DEF Stands
<1>2. /\ w \in Nat /\ w > 0 /\ Width \in Nat /\ Height \in Nat /\ p.x \in 0..Width /\ p.y \in 0..Height /\ p.low \in Nat
      /\ Fields(console) /\ console.zoom = p.zoom /\ p.zoom \in Zoom /\ x = p.x + ch * w /\ console.y = p.y
      /\ CellW(console) = w /\ CellH(console) = CellH(p)
  <2> HIDE DEF p
  <2>1. Width \in Nat /\ Height \in Nat
    BY ConsoleAssumption
  <2>2. p.x \in 0..Width /\ p.y \in 0..Height /\ p.low \in Nat /\ p.zoom \in Zoom
    BY <1>1, <2>1 DEF GoodSpot
  <2>3. Fields(console) /\ console.zoom = p.zoom /\ x = p.x + ch * w /\ console.y = p.y
    BY <1>1 DEF OnSpot
  <2>4. w \in Nat /\ w > 0 /\ CellW(console) = w /\ CellH(console) = CellH(p)
    BY <1>1, <2>3, CellOfSpot
  <2> QED BY <2>1, <2>2, <2>3, <2>4
<1> HIDE DEF x
\* Where a text is written, the cell at the cursor is one of the text's.
<1>3. ASSUME Running, Call.call = "text"
      PROVE  /\ Laid(script, p, Call) /\ ch < l /\ l \in Nat
             /\ x >= p.x /\ x + w <= p.x + l * w /\ p.x + (l + 1) * w <= Width
  <2>1. Laid(script, p, Call)
    BY <1>3, CallIsLaid
  <2>2. l \in Nat /\ l >= 1 /\ p.x + (l + 1) * w <= Width
    BY <1>3, <2>1 DEF Laid
  <2>3. ch > 0 => ch < l
    BY DEF Stands
  <2> HIDE DEF l, w
  <2>4. ch < l
    BY <1>1, <2>2, <2>3
  <2>5. RowSums(ch + 1, l, w)
    <3>1. ch + 1 \in 1..l
      BY <1>1, <2>2, <2>4
    <3> QED BY <1>2, <2>2, <3>1, RowsSum
  <2>6. ((ch + 1) - 1) = ch
    BY <1>1
  <2> DEFINE a == ch * w
             b == (ch + 1) * w
             c == l * w
  <2>7. a \in Nat /\ a + w = b /\ b <= c /\ b \in Int /\ c \in Int
    BY <2>5, <2>6 DEF RowSums
  <2> HIDE DEF a, b, c, p
  <2>8. x = p.x + a
    BY <1>2 DEF a
  <2>9. x >= p.x /\ x + w <= p.x + c
    BY <1>2, <2>7, <2>8
  <2> QED BY <2>1, <2>2, <2>4, <2>9 DEF c, p
<1>4. TypeOK
  <2>1. x \in 0..Width
    <3>1. CASE ch = 0
      <4> HIDE DEF p, w
      <4> QED BY <1>2, <3>1
    <3>2. CASE ch # 0
      <4>1. Running /\ Call.call = "text"
        BY <1>1, <3>2 DEF Stands
      <4> DEFINE c == l * w
                 d == (l + 1) * w
      <4>2. x >= p.x /\ x + w <= p.x + c /\ p.x + d <= Width /\ l \in Nat
        BY <1>3, <4>1
      <4> HIDE DEF l, w
      <4>3. c \in Int /\ d = c + w
        BY <1>2, <4>2
      <4>4. x \in Int
        <5> DEFINE a == ch * w
        <5>1. a \in Int
          BY <1>1, <1>2
        <5> HIDE DEF a, p
        <5>2. x = p.x + a
          BY <1>2 DEF a
        <5> QED BY <1>2, <5>1, <5>2
      <4> HIDE DEF c, d, p
      <4> QED BY <1>2, <4>2, <4>3, <4>4
    <3> QED BY <3>1, <3>2
  <2> QED BY <1>2, <2>1 DEF TypeOK, Fields, x
<1>5. TextsKeepTheirLine
  <2>1. ch > 0 => textY = p.y
    BY DEF Stands
  <2> QED BY <1>2, <2>1 DEF TextsKeepTheirLine
<1>6. WholeScreenVisible
  <2> HIDE DEF p
  <2> QED BY <1>1, <1>2 DEF WholeScreenVisible
<1>7. PicturesStayStill
  BY DEF Stands, PicturesStayStill
<1>8. ShapesFit
  <2>1. Running => Laid(script, p, Call)
    BY CallIsLaid
  <2> HIDE DEF p
  <2> QED BY <2>1 DEF ShapesFit, Laid
<1>9. WelcomeIsReadable
  <2> SUFFICES ASSUME script = "welcome", Running, Call.call = "text"
               PROVE  /\ x >= 2 * Thick /\ x + w <= Width - 2 * Thick
                      /\ p.y >= Band /\ p.y + CellH(p) <= Height - Band
                      /\ p.y + CellH(p) <= CenterY - Radius \/ p.y > CenterY + Radius
    BY <1>2 DEF WelcomeIsReadable, x
  <2>1. InFrame(p, Call) /\ x >= p.x /\ x + w <= p.x + l * w /\ l \in Nat
    BY <1>3 DEF Laid
  <2> DEFINE c == l * w
  <2> HIDE DEF l
  <2>2. c \in Int
    BY <1>2, <2>1
  <2>3. /\ p.x >= 20 /\ p.x + c <= Width - 20 /\ p.y >= 50 /\ p.y + CellH(p) <= Height - 50
        /\ p.y + CellH(p) <= CenterY - Radius \/ p.y > CenterY + Radius
    BY <2>1 DEF InFrame, l
  <2>4. x >= p.x /\ x + w <= p.x + c
    BY <2>1
  <2>5. x \in Int
    BY <1>4 DEF TypeOK, x
  <2> HIDE DEF c
  <2>6. x >= 20 /\ x + w <= Width - 20
    <3> HIDE DEF p, w
    <3> QED BY <1>2, <2>2, <2>3, <2>4, <2>5
  <2>7. 2 * Thick = 20 /\ Band = 50
    BY DEF Thick, Band
  <2> HIDE DEF p, w
  <2> QED BY <2>3, <2>6, <2>7
<1> QED BY <1>4, <1>5, <1>6, <1>7, <1>8, <1>9 DEF TextsAreSeen, PicturesAreWhole

\* The first call of a screen whose parts are put one behind the other.
LEMMA HeadIsKept ==
    ASSUME NEW a \in Seq(Calls), NEW b \in Seq(Calls), Len(a) >= 1
    PROVE  a \o b \in Seq(Calls) /\ Len(a \o b) >= 1 /\ (a \o b)[1] = a[1]
<1> HIDE DEF Calls
<1> QED OBVIOUS

LEMMA WelcomeBegins == 1 <= Len(draw_welcome) /\ draw_welcome[1].call = "clear"
<1>1. ASSUME NEW p PROVE Borders \in Seq(Calls) /\ Dotted \in Seq(Calls) /\ draw_smile \in Seq(Calls)
  BY BordersLead, DottedLeads, SmileLeads DEF Leads
<1>2. WelcomeTexts \in Seq(Calls)
  BY WelcomeTextsLead, ConsoleAssumption DEF Leads
<1>3. clear_screen \in Seq(Calls) /\ Len(clear_screen) >= 1 /\ clear_screen[1].call = "clear"
  <2>1. clear_screen \in Seq(Calls)
    BY AClearLeads DEF Leads
  <2> QED BY <2>1 DEF clear_screen
<1> DEFINE a == clear_screen \o Borders
           b == a \o Dotted
           c == b \o draw_smile
           d == c \o WelcomeTexts
<1> HIDE DEF Calls
<1>4. a \in Seq(Calls) /\ Len(a) >= 1 /\ a[1] = clear_screen[1]
  BY <1>1, <1>3, HeadIsKept
<1> HIDE DEF a
<1>5. b \in Seq(Calls) /\ Len(b) >= 1 /\ b[1] = a[1]
  BY <1>1, <1>4, HeadIsKept
<1> HIDE DEF b
<1>6. c \in Seq(Calls) /\ Len(c) >= 1 /\ c[1] = b[1]
  BY <1>1, <1>5, HeadIsKept
<1> HIDE DEF c
<1>7. d \in Seq(Calls) /\ Len(d) >= 1 /\ d[1] = c[1]
  BY <1>2, <1>6, HeadIsKept
<1> QED BY <1>3, <1>4, <1>5, <1>6, <1>7 DEF draw_welcome, a, b, c

LEMMA RestingIsFine == Rests => TextsAreSeen /\ PicturesAreWhole
<1> SUFFICES ASSUME Rests PROVE TextsAreSeen /\ PicturesAreWhole
  OBVIOUS
<1>1. IInv /\ script = "welcome" /\ pc = 1 /\ ch = 0 /\ top = Height /\ scrolled = FALSE /\ Height \in Nat
  BY ConsoleAssumption DEF Rests
<1>2. Call.call = "clear"
  BY <1>1, WelcomeBegins DEF Call, Script
<1>3. TypeOK
  BY <1>1 DEF IInv, Good, Fields, TypeOK
<1>4. TextsKeepTheirLine /\ WholeScreenVisible
  BY <1>1, <1>2 DEF TextsKeepTheirLine, WholeScreenVisible
<1>5. PicturesStayStill /\ ShapesFit /\ WelcomeIsReadable
  BY <1>1, <1>2 DEF PicturesStayStill, ShapesFit, WelcomeIsReadable
<1> QED BY <1>3, <1>4, <1>5 DEF TextsAreSeen, PicturesAreWhole

LEMMA ScreensBegin == DisplayInit => ScreenInv
<1> SUFFICES ASSUME DisplayInit PROVE ScreenInv
  OBVIOUS
<1>1. ScreensInit /\ (subject # "screen" => script = "welcome" /\ Init)
  BY DEF DisplayInit
<1>2. pc = 1 /\ ch = 0 /\ top = Height /\ scrolled = FALSE /\ script \in DOMAIN Script
  BY <1>1 DEF ScreensInit
<1>3. CASE subject # "screen"
  BY <1>1, <1>2, <1>3, InitIsGood DEF ScreenInv, Rests
<1>4. CASE subject = "screen"
  <2>1. PICK z \in StartZooms[script] : console = [x |-> 0, y |-> 0, zoom |-> z, fb |-> [o \in FrameBuffer |-> Blank]]
    BY <1>1 DEF ScreensInit
  <2>2. PICK q : Leads(script, Spot(0, 0, z, FirstLine(script, z)), Script[script], q)
    BY <1>2, ScriptsLead
  <2> DEFINE p == Spot(0, 0, z, FirstLine(script, z))
  <2>3. Script[script] \in Seq(Calls) /\ \E f : Path(script, p, Script[script], f)
    BY <2>2 DEF Leads
  <2>4. PICK f : Path(script, p, Script[script], f)
    BY <2>3
  <2>5. z \in Zoom
    <3>1. 2 \in Zoom /\ 3 \in Zoom /\ InitialZoom \in Zoom
      BY ScreensAssumption, ConsoleAssumption DEF Zoom
    <3>2. script \in {"welcome", "help", "menu", "instructions", "complete", "all", "counter"}
      BY <1>2 DEF Script
    <3> QED BY <3>1, <3>2 DEF StartZooms
  <2>6. FirstLine(script, z) \in 0..Height /\ Height \in Nat /\ Width \in Nat
    BY <2>5, ScreensAssumption, ConsoleAssumption DEF FirstLine, Zoom
  <2>7. GoodSpot(p)
    <3>1. 0 \in 0..Width /\ 0 \in 0..Height
      BY <2>6
    <3> QED BY <2>5, <2>6, <3>1, SpotSize DEF GoodSpot
  <2>8. Fields(console) /\ console.zoom = z /\ console.x = 0 /\ console.y = 0
    <3> DEFINE fb == [o \in FrameBuffer |-> Blank]
    <3>1. DOMAIN fb = FrameBuffer
      OBVIOUS
    <3> HIDE DEF fb
    <3>2. console = [x |-> 0, y |-> 0, zoom |-> z, fb |-> fb]
      BY <2>1 DEF fb
    <3> QED BY <3>1, <3>2 DEF Fields
  <2>9. OnSpot(console, p, 0)
    <3>1. CellW(p) \in Nat /\ p.x = 0 /\ p.y = 0 /\ p.zoom = z
      <4>1. p.zoom = z
        BY SpotSize
      <4> QED BY <2>5, <4>1, CellFits, SpotSize
    <3>2. p.x + 0 * CellW(p) = 0
      BY <3>1
    <3> HIDE DEF p
    <3> QED BY <2>8, <3>1, <3>2 DEF OnSpot
  <2>10. Len(Script[script]) \in Nat
    <3> HIDE DEF Calls
    <3> QED BY <2>3
  <2>11. f[pc - 1] = p /\ pc \in 1..Len(Script[script]) + 1
    <3>1. pc - 1 = 0 /\ pc \in 1..Len(Script[script]) + 1
      BY <1>2, <2>10
    <3> QED BY <2>4, <3>1 DEF Path
  <2>12. top \in Int /\ top >= p.low /\ ~(ch > 0) /\ ch \in Nat
    <3>1. p.low = FirstLine(script, z)
      BY SpotSize
    <3> QED BY <1>2, <2>6, <3>1
  <2>13. Follows(f, z)
    BY <1>2, <2>3, <2>4 DEF Follows
  <2>14. Stands(f)
    <3> HIDE DEF p
    <3> QED BY <1>2, <2>7, <2>9, <2>11, <2>12 DEF Stands
  <2> QED BY <1>4, <2>5, <2>13, <2>14 DEF ScreenInv
<1> QED BY <1>3, <1>4

LEMMA ScreensStep == ScreenInv /\ [DisplayNext]_<<subject, vars, pixels, shapeVars>> => ScreenInv'
<1> SUFFICES ASSUME ScreenInv, [DisplayNext]_<<subject, vars, pixels, shapeVars>> PROVE ScreenInv'
  OBVIOUS
<1>1. subject' = subject
  BY DEF DisplayNext
<1>2. CASE subject # "screen"
  <2>1. Rests
    BY <1>2 DEF ScreenInv
  <2>2. UNCHANGED screenVars /\ [Next]_console
    BY <1>2 DEF DisplayNext, vars, screenVars
  <2>3. IInv'
    BY <2>1, <2>2, StepIsGood DEF Rests
  <2>4. Rests'
    BY <2>1, <2>2, <2>3 DEF Rests, screenVars
  <2> QED BY <1>1, <1>2, <2>4 DEF ScreenInv
<1>3. CASE subject = "screen"
  <2>1. PICK z \in Zoom : \E f : Follows(f, z) /\ Stands(f)
    BY <1>3 DEF ScreenInv
  <2>2. PICK f : Follows(f, z) /\ Stands(f)
    BY <2>1
  <2>3. Follows(f, z)' /\ Stands(f)'
    <3>1. CASE ScreensNext
      BY <2>2, <3>1, CharacterStep, OtherSteps DEF ScreensNext
    <3>2. CASE ~ScreensNext
      <4>1. UNCHANGED vars
        BY <1>3, <3>2 DEF DisplayNext
      <4> QED BY <2>2, <4>1 DEF vars, Follows, Stands, Running, Call
    <3> QED BY <3>1, <3>2
  <2> QED BY <1>1, <1>3, <2>3 DEF ScreenInv
<1> QED BY <1>2, <1>3

LEMMA ScreensAreFine == ScreenInv => TextsAreSeen /\ PicturesAreWhole
BY StandingIsFine, RestingIsFine DEF ScreenInv

\* In every mode of at least 1024 by 768 every screen shows all its text, from
\* whatever zoom it is opened with: no line runs over the edge, none scrolls away
\* (draw_welcome, cmd_help, drawMainMenu, drawInstructions, the messages and the
\* counter of the game, through vd_put_char).
THEOREM TextsAreSeenHolds == DisplaySpec => []TextsAreSeen
BY ScreensBegin, ScreensStep, ScreensAreFine, PTL DEF DisplaySpec

\* In every such mode whose last dot is not cut, the pictures are whole and the
\* texts on them clear of them (draw_welcome, draw_smile, draw_counter_box).
THEOREM PicturesAreWholeHolds == DisplaySpec => []PicturesAreWhole
BY ScreensBegin, ScreensStep, ScreensAreFine, PTL DEF DisplaySpec
=============================================================================
