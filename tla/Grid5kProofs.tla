---------------------------- MODULE Grid5kProofs ----------------------------
(***************************************************************************)
(* A position anywhere in a 50k cell gets a sheet that holds it, whatever  *)
(* the width and the height of a sheet.                                    *)
(***************************************************************************)
EXTENDS Grid5k, TLAPS

\* A position in ten rows or columns of some size is in one of them, between
\* its edges (the divisions of mdgidPart).
LEMMA InOneOfTen ==
  ASSUME NEW size \in Nat \ {0}, NEW x \in 0..(10 * size - 1)
  PROVE  /\ x \div size \in 0..9
         /\ (x \div size) * size <= x
         /\ x < (x \div size) * size + size
<1>1. x \in Int /\ 0 <= x /\ x < 10 * size
  OBVIOUS
<1> DEFINE q == x \div size
           r == x % size
<1>2. q \in Int /\ r \in 0..(size - 1) /\ x = size * q + r
  OBVIOUS
<1> HIDE DEF q, r
<1>3. q >= 0
  <2>1. ASSUME q <= -1 PROVE FALSE
    <3>1. size * q <= size * (-1)
      BY <2>1, <1>2
    <3> QED
      BY <3>1, <1>1, <1>2
  <2> QED
    BY <2>1, <1>2
<1>4. q <= 9
  <2>1. ASSUME q >= 10 PROVE FALSE
    <3>1. size * q >= size * 10
      BY <2>1, <1>2
    <3> QED
      BY <3>1, <1>1, <1>2
  <2> QED
    BY <2>1, <1>2
<1> QED
  BY <1>2, <1>3, <1>4 DEF q

\* The edge where a row or column begins is in it.
LEMMA EdgeIsInside ==
  ASSUME NEW size \in Nat \ {0}, NEW q \in 0..9
  PROVE  (q * size) \div size = q
  OBVIOUS

\* SheetHolds with the row and the column of the position, one of a hundred.
LEMMA SheetOfRowAndColumn ==
  ASSUME NEW r \in 0..9, NEW c \in 0..9
  PROVE  LET part == IF c = 9 THEN (r + 1) * 10 ELSE r * 10 + c + 1
         IN /\ part \in 1..100
            /\ Coords5kSheet(SheetNumber(part)) =
                 [n |-> r * SqrSide, s |-> (r + 1) * SqrSide, w |-> c * Width, e |-> (c + 1) * Width]
<1> DEFINE part == IF c = 9 THEN (r + 1) * 10 ELSE r * 10 + c + 1
<1>1. part \in 1..100 /\ SheetNumber(part) = part
  BY DEF SheetNumber
<1>2. CASE c = 9
  <2>1. CASE r = 9
    BY <1>1, <1>2, <2>1, SheetAssumption DEF Coords5kSheet, SheetAt
  <2>2. CASE r = 0
    BY <1>1, <1>2, <2>2, SheetAssumption DEF Coords5kSheet, SheetAt
  <2>3. CASE r \in 1..8
    <3>1. part = 10 * (r + 1) /\ part \div 10 = r + 1 /\ part % 10 = 0
      BY <1>2, <2>3
    <3>2. Coords5kSheet(part) = SheetAt(r + 1, 0)
      BY <3>1, <2>3 DEF Coords5kSheet
    <3>3. SheetAt(r + 1, 0) =
            [n |-> r * SqrSide, s |-> (r + 1) * SqrSide, w |-> 9 * Width, e |-> 10 * Width]
      BY <2>3, SheetAssumption DEF SheetAt
    <3> QED
      BY <1>1, <1>2, <3>2, <3>3
  <2> QED
    BY <2>1, <2>2, <2>3
<1>3. CASE c \in 0..8
  <2>1. SheetAt(r, c + 1) =
          [n |-> r * SqrSide, s |-> (r + 1) * SqrSide, w |-> c * Width, e |-> (c + 1) * Width]
    BY <1>3, SheetAssumption DEF SheetAt
  <2>2. Coords5kSheet(part) = SheetAt(r, c + 1)
    <3>1. CASE r = 0
      BY <1>3, <3>1 DEF Coords5kSheet
    <3>2. CASE r \in 1..9
      BY <1>3, <3>2 DEF Coords5kSheet
    <3> QED
      BY <3>1, <3>2
  <2> QED
    BY <1>1, <2>1, <2>2
<1> QED
  BY <1>1, <1>2, <1>3

\* Every position of a cell, off its eastern and southern edges, is in the
\* sheet that mdgidPart numbers and coords5kSheet cuts out, and the sheet's
\* corner gets the same number again.
THEOREM EverySheetHolds ==
  \A east \in 0..(10 * Width - 1), south \in 0..(10 * SqrSide - 1) : SheetHolds(east, south)
<1> SUFFICES ASSUME NEW east \in 0..(10 * Width - 1), NEW south \in 0..(10 * SqrSide - 1)
             PROVE  SheetHolds(east, south)
  OBVIOUS
<1> DEFINE c == Column(east)
           r == Row(south)
           part == MdgidPart(east, south)
           sheet == Coords5kSheet(SheetNumber(part))
<1>1. /\ c \in 0..9 /\ c * Width <= east /\ east < c * Width + Width
      /\ r \in 0..9 /\ r * SqrSide <= south /\ south < r * SqrSide + SqrSide
  BY InOneOfTen, SheetAssumption DEF Column, Row
<1>2. Column(c * Width) = c /\ Row(r * SqrSide) = r
  BY <1>1, EdgeIsInside, SheetAssumption DEF Column, Row
<1>3. part = IF c = 9 THEN (r + 1) * 10 ELSE r * 10 + c + 1
  BY DEF MdgidPart
<1>4. MdgidPart(c * Width, r * SqrSide) = part
  BY <1>2, <1>3 DEF MdgidPart
<1> HIDE DEF c, r
<1>5. /\ part \in 1..100
      /\ sheet = [n |-> r * SqrSide, s |-> (r + 1) * SqrSide, w |-> c * Width, e |-> (c + 1) * Width]
  <2> HIDE DEF part
  <2> QED
    BY <1>1, <1>3, SheetOfRowAndColumn
<1>6. (r + 1) * SqrSide = r * SqrSide + SqrSide /\ (c + 1) * Width = c * Width + Width
  BY <1>1, SheetAssumption
<1> HIDE DEF part, sheet
<1>7. /\ ~InvalidSheetNumber(part) /\ part > 0
      /\ sheet.n <= south /\ south < sheet.s
      /\ sheet.w <= east /\ east < sheet.e
  BY <1>1, <1>5, <1>6 DEF InvalidSheetNumber
<1>8. MdgidPart(sheet.w, sheet.n) = part
  BY <1>4, <1>5
<1> QED
  BY <1>7, <1>8 DEF SheetHolds, part, sheet
=============================================================================
