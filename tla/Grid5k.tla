------------------------------- MODULE Grid5k -------------------------------
(***************************************************************************)
(* The 5k grid: a 50k cell is divided into a hundred sheets, numbered from *)
(* 1 row by row from the north west, by the position asked for, and back.  *)
(* Positions are whole units east and south of the north west corner; the  *)
(* rounding of the floating point numbers is left out.                     *)
(***************************************************************************)
EXTENDS Integers

CONSTANTS
  Width,   \* of a sheet, a tenth of the width of its cell
  SqrSide  \* of a sheet from north to south

ASSUME SheetAssumption == Width \in Nat \ {0} /\ SqrSide \in Nat \ {0}

\* CellForMDGID and adjustGrid take a part between 0, for the first, and 100.
InvalidSheetNumber(part) == part > 100
SheetNumber(part) == IF part <= 1 THEN 1 ELSE part

Column(east) == east \div Width
Row(south) == south \div SqrSide

\* Mutant: the last sheet of a row is counted with the next row.
PlainPart(east, south) ==
  IF Column(east) = 9 THEN (Row(south) + 1) * 10 + 10 ELSE Row(south) * 10 + Column(east) + 1

\* eastDiff is the column from 1; the tenth is 0 in the next row.
MdgidPart(east, south) ==
  IF Column(east) = 9 THEN (Row(south) + 1) * 10 ELSE Row(south) * 10 + Column(east) + 1

\* The edges of a sheet; the sheets with b = 0 are at the eastern edge.
SheetAt(a, b) ==
  IF b = 0
    THEN [n |-> (a - 1) * SqrSide, s |-> a * SqrSide, w |-> 9 * Width, e |-> 10 * Width]
    ELSE [n |-> a * SqrSide, s |-> (a + 1) * SqrSide, w |-> (b - 1) * Width, e |-> b * Width]

Coords5kSheet(part) ==
  IF part = 100 THEN SheetAt(10, 0)
  ELSE IF part < 11 THEN SheetAt(0, part)
  ELSE SheetAt(part \div 10, part % 10)

\* A position in a cell, off its eastern and southern edges, gets a sheet that
\* holds it, and the number of the sheet names that sheet again.
SheetHolds(east, south) ==
  LET part == MdgidPart(east, south)
      sheet == Coords5kSheet(SheetNumber(part))
  IN /\ ~InvalidSheetNumber(part) /\ part > 0
     /\ sheet.n <= south /\ south < sheet.s
     /\ sheet.w <= east /\ east < sheet.e
     /\ MdgidPart(sheet.w, sheet.n) = part
=============================================================================
