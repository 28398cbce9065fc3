------------------------------ MODULE TileIds ------------------------------
(***************************************************************************)
(* The names of map tiles the renderer works with. A canonical tile is one *)
(* of the 4^z of its zoom level, an unwrapped one is beside the world by   *)
(* wrap worlds, an overscaled one stands for a deeper zoom level.          *)
(***************************************************************************)
EXTENDS Integers

CONSTANTS
  Bits,       \* of a column or row (32)
  WrapBits,   \* of the number of worlds a tile is beside the world by (16)
  Undefined   \* what a number becomes that is shifted by all its bits or more

\* 2^z; a recursive function, which can be proved about.
Side[z \in Nat] == IF z = 0 THEN 1 ELSE 2 * Side[z - 1]

ASSUME BitsAssumption == Bits \in Nat \ {0, 1} /\ WrapBits \in Nat \ {0}

\* What a column keeps of a number, and what the number of worlds does.
Word(n) == n % Side[Bits]
ToWrap(n) == LET half == Side[WrapBits - 1] IN ((n + half) % (2 * half)) - half

Tile(z, x, y) == [z |-> z, x |-> x, y |-> y]

\* What the assertions of the constructor ask for; levels above Z are left out.
\* (They take levels up to Bits. A tile of level Bits is only ever a child: its
\* own children do not fit, and scaling it to level 0 is a shift by all bits.)
CanonicalTileID(Z) ==
  UNION {[z : {z}, x : 0..(Side[z] - 1), y : 0..(Side[z] - 1)] : z \in 0..Z}

\* x >> by and x << by
Shifted(x, by) == IF by < Bits THEN x \div Side[by] ELSE Undefined
ShiftedLeft(x, by) == IF by < Bits THEN Word(x * Side[by]) ELSE Undefined

\* Every tile counts as a child of 0/0/0, itself included.
IsChildOf(t, parent) ==
  \/ parent.z = 0
  \/ /\ parent.z < t.z
     /\ parent.x = Shifted(t.x, t.z - parent.z)
     /\ parent.y = Shifted(t.y, t.z - parent.z)

ScaledTo(t, z) ==
  IF z <= t.z THEN Tile(z, Shifted(t.x, t.z - z), Shifted(t.y, t.z - z))
              ELSE Tile(z, ShiftedLeft(t.x, z - t.z), ShiftedLeft(t.y, z - t.z))

\* Mutant: the last of the children is in the row of the second.
ChildrenOfARow(t) ==
  LET x == Word(2 * t.x)
      y == Word(2 * t.y)
  IN {Tile(t.z + 1, x, y), Tile(t.z + 1, x, Word(y + 1)), Tile(t.z + 1, Word(x + 1), y),
      Tile(t.z + 1, Word(x + 2), y)}

Children(t) ==
  LET x == Word(2 * t.x)
      y == Word(2 * t.y)
  IN {Tile(t.z + 1, x, y), Tile(t.z + 1, x, Word(y + 1)), Tile(t.z + 1, Word(x + 1), y),
      Tile(t.z + 1, Word(x + 1), Word(y + 1))}

\* The division of C++ cuts off towards zero.
Quotient(a, b) == IF a < 0 THEN -((-a) \div b) ELSE a \div b

Wrap(z, x) == Quotient(IF x < 0 THEN x - Side[z] + 1 ELSE x, Side[z])

\* Columns wrap around the world, rows do not.
UnwrappedTileID(z, x, y) ==
  LET wrap == ToWrap(Wrap(z, x))
      last == Word(Word(Side[z]) - 1)
  IN [wrap |-> wrap,
      canonical |-> Tile(z, Word(x - wrap * Side[z]),
                         IF y < 0 THEN 0 ELSE IF Word(y) < last THEN Word(y) ELSE last)]

UnwrappedIsChildOf(t, parent) ==
  t.wrap = parent.wrap /\ IsChildOf(t.canonical, parent.canonical)

UnwrappedChildren(t) == {[wrap |-> t.wrap, canonical |-> c] : c \in Children(t.canonical)}

Overscaled(z, wrap, t) == [overscaledZ |-> z, wrap |-> wrap, canonical |-> t]

OverscaledIsChildOf(t, parent) ==
  /\ t.wrap = parent.wrap
  /\ t.overscaledZ > parent.overscaledZ
  /\ t.canonical = parent.canonical \/ IsChildOf(t.canonical, parent.canonical)

OverscaledScaledTo(t, z) ==
  Overscaled(z, t.wrap, IF z >= t.canonical.z THEN t.canonical ELSE ScaledTo(t.canonical, z))

OverscaleFactor(t) == ShiftedLeft(1, t.overscaledZ - t.canonical.z)
-----------------------------------------------------------------------------
\* The children of t are the tiles one level down that scale to it; each is a
\* child of t and of all that t is a child of; no tile but 0/0/0 is its own child.
FamilyAgrees(t) ==
  /\ Children(t) = {c \in CanonicalTileID(t.z + 1) : c.z = t.z + 1 /\ ScaledTo(c, t.z) = t}
  /\ \A c \in Children(t) :
       IsChildOf(c, t) /\ \A p \in CanonicalTileID(t.z) : IsChildOf(t, p) => IsChildOf(c, p)
  /\ IsChildOf(t, t) => t.z = 0

\* An unwrapped tile is a tile of the world, at the place that was asked for.
PlaceIsKept(z, x, y) ==
  LET t == UnwrappedTileID(z, x, y) IN
  /\ t.canonical \in CanonicalTileID(z)
  /\ t.wrap * Side[z] + t.canonical.x = x
  /\ y \in 0..(Side[z] - 1) => t.canonical.y = y
  /\ \A c \in UnwrappedChildren(t) :
       /\ UnwrappedIsChildOf(c, t)
       /\ UnwrappedTileID(z + 1, c.wrap * Side[z + 1] + c.canonical.x, c.canonical.y) = c

\* A tile that stands for a deeper level, scaled back, stands above itself.
OverscaleAgrees(t, z, to) ==
  LET o == Overscaled(z, 0, t) IN
  to < z => /\ OverscaledScaledTo(o, to).canonical.z <= to
            /\ OverscaledIsChildOf(o, OverscaledScaledTo(o, to))
            /\ to >= t.z => OverscaleFactor(o) = Side[z - to] * OverscaleFactor(OverscaledScaledTo(o, to))
=============================================================================
