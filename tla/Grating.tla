------------------------------ MODULE Grating ------------------------------
(***************************************************************************)
(* The grating over a sheet: how many rows and columns it has and how they *)
(* are labelled. Widths and heights are whole units. A label is the        *)
(* sequence of the indices of its letters.                                 *)
(***************************************************************************)
EXTENDS Integers, Sequences

CONSTANT Letters  \* how many LabelLetters there are

ASSUME LettersAssumption == Letters \in Nat \ {0, 1}

MinRowCol == 2
MaxRowCol == 40
Larger(a, b) == IF a < b THEN b ELSE a

\* Squarish divides the longer side as asked and the other by squares of that size.
Squarish(width, height, division) ==
  IF width >= height
    THEN [rows |-> (height * division) \div width, cols |-> division]
    ELSE [rows |-> division, cols |-> (width * division) \div height]

\* GeoJSONFrom takes the squares only if the columns are as many as may be.
RowsAndCols(width, height, rows, cols, rectangle) ==
  LET sq == Squarish(width, height, Larger(rows, cols)) IN
  IF ~rectangle /\ sq.rows >= MinRowCol /\ sq.cols >= MaxRowCol
    THEN sq
    ELSE [rows |-> rows, cols |-> cols]

\* NewGrating returns an error for other numbers.
IsGrating(g) ==
  g.rows \in MinRowCol..MaxRowCol /\ g.cols \in MinRowCol..MaxRowCol

\* Labels whose first letter is that of the quotient itself, one too far on.
OffByOneLabel[row \in Nat] ==
  IF row < Letters THEN <<row>> ELSE OffByOneLabel[row \div Letters] \o <<row % Letters>>

Label[row \in Nat] ==
  IF row < Letters THEN <<row>> ELSE Label[row \div Letters - 1] \o <<row % Letters>>

\* Mutant: a long label begins with the letter after its own.
LabelForRowOfQuotient(rows, row, flipYLabel) ==
  IF row < 0 \/ row >= rows THEN <<>>
  ELSE OffByOneLabel[IF flipYLabel THEN row ELSE rows - row - 1]

LabelForRow(rows, row, flipYLabel) ==
  IF row < 0 \/ row >= rows THEN <<>>
  ELSE Label[IF flipYLabel THEN row ELSE rows - row - 1]

LabelForCol(cols, col) == IF col < 0 \/ col >= cols THEN 0 ELSE col + 1

\* The place of a label among all labels, shorter ones first.
Place[label \in Seq(0..(Letters - 1)) \ {<<>>}] ==
  IF Len(label) = 1 THEN label[1]
  ELSE (Place[SubSeq(label, 1, Len(label) - 1)] + 1) * Letters + label[Len(label)]

\* The rows of a grating have the first labels, in their order and none left
\* out, so that no two are alike; flipping the grating turns them round;
\* columns are told apart by their number.
LabelsAgree(rows, flipYLabel) ==
  /\ \A r \in 0..(rows - 1) :
       LET label == LabelForRow(rows, r, flipYLabel) IN
       /\ label # <<>>
       /\ Place[label] = IF flipYLabel THEN r ELSE rows - r - 1
       /\ label = LabelForRow(rows, rows - r - 1, ~flipYLabel)
  /\ \A c, d \in 0..(rows - 1) : LabelForCol(rows, c) = LabelForCol(rows, d) => c = d

\* With numbers of rows and columns a request may ask for there is a grating,
\* and its squares, if it has any, are no wider than the side divided by them.
GratingFits(width, height, rows, cols, rectangle) ==
  LET g == RowsAndCols(width, height, rows, cols, rectangle)
      sq == Squarish(width, height, Larger(rows, cols))
  IN /\ IsGrating(g)
     /\ sq.rows <= Larger(rows, cols) /\ sq.cols <= Larger(rows, cols)
     /\ sq.rows * width <= height * Larger(rows, cols) /\ sq.cols * height <= width * Larger(rows, cols)
=============================================================================
