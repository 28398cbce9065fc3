----------------------------- MODULE ImageTiles -----------------------------
(***************************************************************************)
(* How an Image of any size is put together from square tiles: a square of *)
(* them around the center, drawn row by row to a file, from which At reads *)
(* a pixel. The pixel ratio is the fraction Num / Den.                     *)
(***************************************************************************)
EXTENDS Integers

CONSTANT tilesize

ASSUME TilesizeAssumption == tilesize \in Nat \ {0}

Ceiling(a, b) == (a + b - 1) \div b
Greater(a, b) == IF a < b THEN b ELSE a

\* Mutant: the number is cut off, not rounded up.
JustEnough(width, height) ==
  (Greater(width, height) + tilesize) \div (2 * tilesize)

\* On each side of the center.
NumberOfTilesNeeded(width, height) ==
  Ceiling(Greater(width, height) + tilesize, 2 * tilesize)

PerRow(width, height) == 2 * NumberOfTilesNeeded(width, height) + 1

\* Tiles share their edge: the rectangle of one ends where the next begins.
CenterTileLength(ppi) == Ceiling((tilesize - 1) * ppi.num, ppi.den)

Total(width, height, ppi) == PerRow(width, height) * CenterTileLength(ppi)

\* Of width or height, in the image and in its middle.
Scaled(length, ppi) == (length * ppi.num) \div ppi.den
OffsetOf(length, total, ppi) == (total \div 2) - Scaled(length \div 2, ppi)

\* The renderer draws an image of this many pixels a side.
TileWidth(ppi) == Scaled(tilesize, ppi)

RectMin(i, width, height, ppi) ==
  [x |-> (i % PerRow(width, height)) * CenterTileLength(ppi),
   y |-> (i \div PerRow(width, height)) * CenterTileLength(ppi)]

\* Both edges count.
InRect(i, rx, ry, width, height, ppi) ==
  LET min == RectMin(i, width, height, ppi) IN
  /\ min.x <= rx /\ rx <= min.x + CenterTileLength(ppi)
  /\ min.y <= ry /\ ry <= min.y + CenterTileLength(ppi)

\* The tiles At finds for a pixel, of which it takes the first.
TilesAt(x, y, width, height, ppi) ==
  {i \in 0..(PerRow(width, height) * PerRow(width, height) - 1) :
     InRect(i, x + OffsetOf(width, Total(width, height, ppi), ppi),
               y + OffsetOf(height, Total(width, height, ppi), ppi), width, height, ppi)}

\* Where in that tile the pixel is; its bytes are TileWidth a row.
InTile(x, y, width, height, ppi) ==
  LET i == CHOOSE i \in TilesAt(x, y, width, height, ppi) :
             \A j \in TilesAt(x, y, width, height, ppi) : i <= j
      min == RectMin(i, width, height, ppi)
  IN [tile |-> i, dx |-> x + OffsetOf(width, Total(width, height, ppi), ppi) - min.x,
                  dy |-> y + OffsetOf(height, Total(width, height, ppi), ppi) - min.y]

\* At has a tile for every pixel of Bounds, and the pixel is one of that
\* tile's image, not of the next row of it or beyond the file.
PixelHasATile(x, y, width, height, ppi) ==
  /\ TilesAt(x, y, width, height, ppi) # {}
  /\ LET p == InTile(x, y, width, height, ppi) IN p.dx < TileWidth(ppi) /\ p.dy < TileWidth(ppi)
=============================================================================
