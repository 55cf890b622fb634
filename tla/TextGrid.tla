------------------------------ MODULE TextGrid -------------------------------
(***************************************************************************)
(* What the text console promises at one zoom: a grid of cells, a cursor   *)
(* that advances, wraps and scrolls, and a backspace that erases the       *)
(* character before the cursor.  At the left margin the video driver does  *)
(* not keep that last promise: it leaves the cursor where it is and damages *)
(* the first cells of two lines, which is what Smudge says.                *)
(***************************************************************************)
EXTENDS Integers

CONSTANTS Rows, Cols, Letters, Space, Damaged     \* a row and a column at least

VARIABLES cells, row, col

grid == <<cells, row, col>>

Places == (0..Rows - 1) \X (0..Cols - 1)
EmptyGrid == [p \in Places |-> Space]

\* Where a new line takes the cells c and the cursor.
NewLineFrom(c) ==
    /\ col' = 0
    /\ IF row + 1 < Rows
       THEN row' = row + 1 /\ cells' = c
       ELSE /\ row' = row
            /\ cells' = [p \in Places |-> IF p[1] + 1 < Rows THEN c[<<p[1] + 1, p[2]>>] ELSE Space]

LineFeed == NewLineFrom(cells)

Put(g) ==
    LET c == [cells EXCEPT ![<<row, col>>] = g]
    IN  IF col + 1 < Cols
        THEN cells' = c /\ col' = col + 1 /\ row' = row
        ELSE NewLineFrom(c)

Erase ==
    /\ col > 0
    /\ col' = col - 1
    /\ cells' = [cells EXCEPT ![<<row, col - 1>>] = Space]
    /\ row' = row

\* A cell that was not blank keeps a part of its glyph, or nothing.
Smudged(g) == IF g = Space THEN {Space} ELSE {Space, Damaged}

Smudge ==
    /\ col = 0 /\ row > 0
    /\ \E above \in Smudged(cells[<<row - 1, 0>>]), here \in Smudged(cells[<<row, 0>>]) :
           cells' = [cells EXCEPT ![<<row - 1, 0>>] = above, ![<<row, 0>>] = here]
    /\ UNCHANGED <<row, col>>

Clear == cells' = EmptyGrid /\ row' = 0 /\ col' = 0

Move(r, c) == row' = r /\ col' = c /\ UNCHANGED cells

Init == cells = EmptyGrid /\ row = 0 /\ col = 0

Next ==
    \/ \E g \in Letters \union {Space} : Put(g)
    \/ LineFeed \/ Erase \/ Smudge \/ Clear
    \/ \E p \in Places : Move(p[1], p[2])

Spec == Init /\ [][Next]_grid
=============================================================================
