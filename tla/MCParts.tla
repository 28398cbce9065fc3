------------------------------ MODULE MCParts ------------------------------
(***************************************************************************)
(* The parts of the program that keep no state of their own, each called   *)
(* with one input after another. A case is the part and its input.         *)
(***************************************************************************)
EXTENDS TileIds, Pixels, LatLngs, ImageTiles, Grid5k, Styles, SetQueue, Grating

CONSTANTS
  MaxZoom,   \* zoom levels of tiles that are named
  Lengths,   \* of the sides of an image assembled from tiles
  MaxList    \* styles in a list

\* A tile of level Bits has no children and no parent of level 0; no map names
\* one. Nor a tile two worlds away that the number of worlds cannot count.
ASSUME MaxZoomAssumption == MaxZoom \in Nat /\ MaxZoom < Bits /\ 2 < Side[WrapBits - 1]
ASSUME MaxListAssumption == MaxList \in Nat

\* Each tile of a row shares a pixel with the next. A row of fewer tiles than
\* the side of a tile has pixels is long enough in spite of that; for tiles of
\* 2048 pixels these are images of up to 8 million pixels a side.
ASSUME LengthsAssumption ==
  \A length \in Lengths : length \in Nat /\ length <= 2 * (tilesize * tilesize) - 3 * tilesize

VARIABLE case

Is(part) == case.part = part

\* Columns of up to two worlds on either side, rows a little beyond the poles.
NameTile ==
  \E t \in CanonicalTileID(MaxZoom), z, to \in 0..MaxZoom :
    z >= t.z /\ case' = [part |-> "tile", t |-> t, z |-> z, to |-> to]

PlaceTile ==
  \E z \in 0..MaxZoom : \E x \in (-2 * Side[z])..(2 * Side[z]), y \in (-1)..Side[z] :
    case' = [part |-> "place", z |-> z, x |-> x, y |-> y]

CopyImage ==
  \E src, dst, size \in Size : \E srcPt, dstPt \in Point :
    case' = [part |-> "copy", src |-> src, dst |-> dst, srcPt |-> srcPt, dstPt |-> dstPt, size |-> size]

Longitudes == {-540, -180, -179, -90, -1, 0, 1, 90, 179, 180, 400}
Latitudes == {-90, 0, 45}
Places == [lat : Latitudes, lon : Longitudes]

FindPath ==
  \E p, end \in [lat : {0}, lon : {60 * i : i \in (-3)..3} \cup {-179, -1, 1, 179}] :
    case' = [part |-> "path", p |-> p, end |-> end]

FindBounds ==
  \E p, q \in Places, r \in {LatLng(a, o) : a \in {-90, 45}, o \in {-180, 1, 400}} :
    case' = [part |-> "bounds", p |-> p, q |-> q, r |-> r]

\* Every pixel of one image.
Ratios == {[num |-> n, den |-> 2] : n \in {2, 3, 5}}
ReadImage ==
  \E width, height \in Lengths, ppi \in Ratios :
    case' = [part |-> "image", width |-> width, height |-> height, ppi |-> ppi]

SplitCell ==
  \E east \in 0..(10 * Width - 1), south \in 0..(10 * SqrSide - 1) :
    case' = [part |-> "sheet", east |-> east, south |-> south]

StyleLists ==
  {list \in UNION {[1..n -> Style] : n \in 0..MaxList} :
     \A i, j \in DOMAIN list : list[i].name = list[j].name => i = j}
NameLists == UNION {[1..n -> Names] : n \in 0..2}

FindStyle ==
  \E list \in StyleLists, names \in NameLists, name \in Names \cup {NoName} :
    case' = [part |-> "style", list |-> list, names |-> names, name |-> name]

AppendStyles ==
  \E list \in StyleLists, styles \in UNION {[1..n -> Style] : n \in 0..2} :
    case' = [part |-> "append", list |-> list, styles |-> styles]

Queues == {q \in UNION {[1..n -> Item] : n \in 0..Cap} : IsQueue(q)}

UseQueue ==
  \E q \in Queues, key \in Keys, val \in Values :
    case' = [part |-> "queue", q |-> q, key |-> key, val |-> val]

LabelRows ==
  \E rows \in MinRowCol..MaxRowCol, flipYLabel \in BOOLEAN :
    case' = [part |-> "labels", rows |-> rows, flipYLabel |-> flipYLabel]

FitGrating ==
  \E width, height \in 1..6, rows, cols \in {MinRowCol, 3, MaxRowCol - 1, MaxRowCol}, rectangle \in BOOLEAN :
    case' = [part |-> "grating", width |-> width, height |-> height,
             rows |-> rows, cols |-> cols, rectangle |-> rectangle]

NoCase == [part |-> "none"]

Init == case = NoCase

Cases ==
  \/ NameTile \/ PlaceTile \/ CopyImage \/ FindPath \/ FindBounds \/ ReadImage \/ SplitCell
  \/ FindStyle \/ AppendStyles \/ UseQueue \/ LabelRows \/ FitGrating

\* One case at a time, from a fresh start.
Return == ~Is("none") /\ case' = NoCase
Next == (Is("none") /\ Cases) \/ Return

Spec == Init /\ [][Next]_case
-----------------------------------------------------------------------------
\* Tiles: children, parents, wrapped columns and overscaled levels agree with
\* each other (children and isChildOf, scaledTo, UnwrappedTileID, overscaled).
TilesAgree ==
  /\ Is("tile") => FamilyAgrees(case.t) /\ OverscaleAgrees(case.t, case.z, case.to)
  /\ Is("place") => PlaceIsKept(case.z, case.x, case.y)

\* Images: copying and clearing reads and writes inside the images or throws,
\* also when a position and a size add up past the width of a number; resize
\* never throws.
CopyStaysInBothImages ==
  Is("copy") =>
    /\ StaysInside(case.src, case.dst, case.srcPt, case.dstPt, case.size)
    /\ ResizeWorks(case.src, case.size)

\* Map positions: unwrapForShortestPath moves a start by whole worlds and
\* never makes the way to the end longer; hulls and constraints of bounds agree.
ShortestPathIsShortest ==
  /\ Is("path") => PathIsShortest(case.p, case.end)
  /\ Is("bounds") => BoundsAgree(case.p, case.q, case.r)

\* Image assembly: the tiles drawn for an image cover each of its pixels, and
\* At never panics or reads from the next row of a tile.
EveryPixelHasATile ==
  Is("image") =>
    \A x \in 0..(Scaled(case.width, case.ppi) - 1), y \in 0..(Scaled(case.height, case.ppi) - 1) :
      PixelHasATile(x, y, case.width, case.height, case.ppi)

\* The 5k grid: the sheet a position is numbered with holds that position, at
\* the northern and western edges too.
PartHoldsItsPosition == Is("sheet") => SheetHolds(case.east, case.south)

\* Styles: a sheet finds those of its names that the list has, each under its
\* name, and no other but one name alone that the list lacks, which For answers
\* with the list's first style; its styles by location give the same styles
\* back; and Append keeps what a list has and its names distinct.
SheetFindsItsStyles ==
  /\ Is("style") => FoundAsNamed(case.list, case.names, case.name)
  /\ Is("append") => AppendKeeps(case.list, case.styles)

\* The keyed queue: order and uniqueness survive any operation at any length.
QueueKeepsItsOrder == Is("queue") => MatchesReference(case.q, case.key, case.val)

\* The grating: rows have labels of their own past the last letter, and the
\* squares fit what was asked for.
RowsHaveTheirOwnLabels ==
  /\ Is("labels") => LabelsAgree(case.rows, case.flipYLabel)
  /\ Is("grating") => GratingFits(case.width, case.height, case.rows, case.cols, case.rectangle)
=============================================================================
