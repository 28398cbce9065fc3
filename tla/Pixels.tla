------------------------------- MODULE Pixels -------------------------------
(***************************************************************************)
(* The images of the renderer: rows of bytes, of which a rectangle can be  *)
(* copied to another image or cleared. Coordinates and sizes are unsigned  *)
(* numbers of a fixed width, offsets are wide enough for any image.        *)
(***************************************************************************)
EXTENDS Integers

CONSTANTS
  UInts,   \* how many values a coordinate has, 2^32
  Channels \* bytes of a pixel

ASSUME UIntsAssumption == UInts \in Nat \ {0}
ASSUME ChannelsAssumption == Channels \in Nat \ {0}

UInt == 0..(UInts - 1)
Size == [width : UInt, height : UInt]
Point == [x : UInt, y : UInt]

IsEmpty(size) == size.width = 0 \/ size.height = 0
Stride(image) == Channels * image.width
Bytes(image) == Stride(image) * image.height

\* Mutant: the far edge of the rectangle is compared, in the width of a coordinate.
FarEdgeInside(image, pt, size) ==
  /\ (pt.x + size.width) % UInts <= image.width
  /\ (pt.y + size.height) % UInts <= image.height

\* The check of clear and copy; its differences are not negative.
IsInside(image, pt, size) ==
  /\ size.width <= image.width /\ size.height <= image.height
  /\ pt.x <= image.width - size.width /\ pt.y <= image.height - size.height

\* Where the row y of a rectangle at pt begins.
Offset(image, pt, y) == (pt.y + y) * Stride(image) + pt.x * Channels

\* The bytes of the rectangle, as the loops of copy and clear go over them.
Touched(image, pt, size) ==
  UNION {Offset(image, pt, y)..(Offset(image, pt, y) + size.width * Channels - 1)
         : y \in 0..(size.height - 1)}

\* The result of copy, clear: an exception or the bytes read and written.
Copy(src, dst, srcPt, dstPt, size) ==
  IF IsEmpty(size) THEN [error |-> "none", read |-> {}, written |-> {}]
  ELSE IF IsEmpty(src) \/ IsEmpty(dst) THEN [error |-> "invalid_argument", read |-> {}, written |-> {}]
  ELSE IF ~IsInside(src, srcPt, size) \/ ~IsInside(dst, dstPt, size)
    THEN [error |-> "out_of_range", read |-> {}, written |-> {}]
  ELSE [error |-> "none", read |-> Touched(src, srcPt, size), written |-> Touched(dst, dstPt, size)]

Clear(dst, pt, size) == Copy(dst, dst, pt, pt, size)

\* resize copies what fits both sizes.
Smaller(a, b) == IF a < b THEN a ELSE b
Kept(image, size) ==
  [width |-> Smaller(image.width, size.width), height |-> Smaller(image.height, size.height)]
Resize(image, size) ==
  Copy(image, size, [x |-> 0, y |-> 0], [x |-> 0, y |-> 0], Kept(image, size))

\* The pixels of a rectangle, whatever their bytes.
Contains(image, pt, size) ==
  pt.x + size.width <= image.width /\ pt.y + size.height <= image.height

\* A copy touches no byte outside either image, and fails exactly when the
\* rectangle is not in both; rows keep their width.
StaysInside(src, dst, srcPt, dstPt, size) ==
  LET c == Copy(src, dst, srcPt, dstPt, size) IN
  /\ c.read \subseteq 0..(Bytes(src) - 1) /\ c.written \subseteq 0..(Bytes(dst) - 1)
  /\ ~IsEmpty(size) => (c.error = "none" <=> Contains(src, srcPt, size) /\ Contains(dst, dstPt, size))
  /\ c.error = "none" /\ ~IsEmpty(size)
       => \A x \in 0..(size.width - 1), y \in 0..(size.height - 1) :
            (srcPt.y + y) * Stride(src) + (srcPt.x + x) * Channels \in c.read

\* Resizing an image never fails, except from or to nothing.
ResizeWorks(image, size) ==
  Resize(image, size).error = "none"
=============================================================================
