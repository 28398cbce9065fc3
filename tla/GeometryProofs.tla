--------------------------- MODULE GeometryProofs ---------------------------
(***************************************************************************)
(* Tile names, images and positions on the map: what the runs check of     *)
(* small ones holds at every zoom level, for images of any size and for    *)
(* positions anywhere. Facts about a recursive function are shown by the   *)
(* least number they would not hold for.                                   *)
(***************************************************************************)
EXTENDS TileIds, Pixels, LatLngs, ImageTiles, Sequences, WellFoundedInduction, TLAPS

\* A set of natural numbers that is not empty has a least element.
LEMMA NatMin ==
  ASSUME NEW T \in SUBSET Nat, T # {}
  PROVE  \E n \in T : \A m \in T : n <= m
<1>1. PICK n \in T : \A m \in T : ~(<<m, n>> \in OpToRel(<, Nat))
  BY NatLessThanWellFounded, WFMin, Zenon
<1>2. \A m \in T : ~(m < n)
  <2>1. \A m \in T : <<m, n>> \in OpToRel(<, Nat) <=> m < n
    BY DEF OpToRel
  <2> QED
    BY <1>1, <2>1
<1> QED
  BY <1>2
-----------------------------------------------------------------------------
\* Recursive functions. size counts how often the recursion goes on to prev
\* until base has the value; f is the function up to size n.
UpTo(D, size, n) == {x \in D : size[x] <= n}
Unfolds(f, D, size, prev, base, step, n) ==
  \A x \in UpTo(D, size, n) : f[x] = IF size[x] = 0 THEN base[x] ELSE step[<<x, f[prev[x]]>>]

\* No two functions unfold in the same way and differ.
LEMMA UnfoldsToOne ==
  ASSUME NEW D, NEW size \in [D -> Nat], NEW prev \in [D -> D], NEW base, NEW step,
         \A x \in D : size[x] # 0 => size[prev[x]] < size[x],
         NEW n \in Nat, NEW m \in Nat, n <= m, NEW f, NEW g,
         Unfolds(f, D, size, prev, base, step, n), Unfolds(g, D, size, prev, base, step, m)
  PROVE  \A x \in UpTo(D, size, n) : f[x] = g[x]
<1> DEFINE T == {k \in Nat : \E x \in UpTo(D, size, n) : size[x] = k /\ f[x] # g[x]}
<1>1. SUFFICES ASSUME T # {} PROVE FALSE
  BY DEF UpTo
<1>2. PICK k \in T : \A j \in T : k <= j
  <2>1. T \in SUBSET Nat
    OBVIOUS
  <2> HIDE DEF T
  <2> QED
    BY <1>1, <2>1, NatMin
<1>3. PICK x \in UpTo(D, size, n) : size[x] = k /\ f[x] # g[x]
  OBVIOUS
<1>4. x \in UpTo(D, size, m) /\ x \in D /\ prev[x] \in D /\ size[prev[x]] \in Nat
  BY DEF UpTo
<1>5. /\ f[x] = IF size[x] = 0 THEN base[x] ELSE step[<<x, f[prev[x]]>>]
      /\ g[x] = IF size[x] = 0 THEN base[x] ELSE step[<<x, g[prev[x]]>>]
  BY <1>4, Zenon DEF Unfolds
<1>6. size[x] # 0 /\ f[prev[x]] # g[prev[x]]
  BY <1>3, <1>5
<1>7. size[prev[x]] < k /\ prev[x] \in UpTo(D, size, n)
  BY <1>3, <1>4, <1>6 DEF UpTo
<1>8. size[prev[x]] \in T /\ k \in Nat
  BY <1>4, <1>6, <1>7
<1> HIDE DEF T
<1> QED
  BY <1>2, <1>4, <1>7, <1>8

\* Up to any size there is one that unfolds.
LEMMA UnfoldsToSome ==
  ASSUME NEW D, NEW size \in [D -> Nat], NEW prev \in [D -> D], NEW base, NEW step,
         \A x \in D : size[x] # 0 => size[prev[x]] < size[x]
  PROVE  \A n \in Nat : \E f : Unfolds(f, D, size, prev, base, step, n)
<1> DEFINE T == {n \in Nat : ~\E f : Unfolds(f, D, size, prev, base, step, n)}
<1>1. SUFFICES ASSUME T # {} PROVE FALSE
  OBVIOUS
<1>2. PICK n \in T : \A j \in T : n <= j
  <2>1. T \in SUBSET Nat
    OBVIOUS
  <2> HIDE DEF T
  <2> QED
    BY <1>1, <2>1, NatMin
<1>3. n # 0
  <2>1. ASSUME NEW x \in UpTo(D, size, 0) PROVE x \in D /\ size[x] = 0
    BY DEF UpTo
  <2> DEFINE f == [x \in D |-> base[x]]
  <2>2. Unfolds(f, D, size, prev, base, step, 0)
    BY <2>1 DEF Unfolds
  <2> HIDE DEF f
  <2> QED
    BY <2>2
<1>4. n \in Nat /\ n - 1 \in Nat
  BY <1>3
<1>5. PICK g : Unfolds(g, D, size, prev, base, step, n - 1)
  <2>1. n - 1 \notin T
    <3> HIDE DEF T
    <3> QED
      BY <1>2, <1>4
  <2> QED
    BY <1>4, <2>1
<1> DEFINE h == [x \in D |-> IF size[x] = 0 THEN base[x]
                             ELSE IF size[x] <= n - 1 THEN g[x] ELSE step[<<x, g[prev[x]]>>]]
<1>6. ASSUME NEW x \in UpTo(D, size, n)
      PROVE  h[x] = IF size[x] = 0 THEN base[x] ELSE step[<<x, h[prev[x]]>>]
  <2>1. x \in D /\ prev[x] \in D /\ size[x] \in Nat /\ size[prev[x]] \in Nat /\ size[x] <= n
    BY DEF UpTo
  <2>2. CASE size[x] = 0
    BY <2>1, <2>2
  <2>3. CASE size[x] # 0
    <3>1. size[prev[x]] <= n - 1
      BY <2>1, <2>3
    <3>2. prev[x] \in UpTo(D, size, n - 1)
      BY <2>1, <3>1 DEF UpTo
    <3>3. h[prev[x]] = g[prev[x]]
      <4>1. size[prev[x]] = 0 => g[prev[x]] = base[prev[x]]
        BY <1>5, <3>2 DEF Unfolds
      <4>2. h[prev[x]] = IF size[prev[x]] = 0 THEN base[prev[x]] ELSE g[prev[x]]
        BY <2>1, <3>1
      <4> QED
        BY <4>1, <4>2
    <3>4. h[x] = step[<<x, g[prev[x]]>>]
      <4>1. CASE size[x] <= n - 1
        <5>1. x \in UpTo(D, size, n - 1)
          BY <2>1, <4>1 DEF UpTo
        <5>2. g[x] = step[<<x, g[prev[x]]>>]
          BY <1>5, <2>3, <5>1 DEF Unfolds
        <5>3. h[x] = g[x]
          BY <2>1, <2>3, <4>1
        <5> QED
          BY <5>2, <5>3
      <4>2. CASE ~(size[x] <= n - 1)
        BY <2>1, <2>3, <4>2
      <4> QED
        BY <4>1, <4>2
    <3> QED
      BY <2>3, <3>3, <3>4
  <2> QED
    BY <2>2, <2>3
<1>7. Unfolds(h, D, size, prev, base, step, n)
  <2> HIDE DEF h
  <2> QED
    BY <1>6 DEF Unfolds
<1> QED
  BY <1>7

\* A recursion that gets smaller has a function.
GetsSmaller(D, R, size, prev, base, step) ==
  /\ size \in [D -> Nat] /\ prev \in [D -> D] /\ base \in [D -> R] /\ step \in [D \X R -> R]
  /\ \A x \in D : size[x] # 0 => size[prev[x]] < size[x]

IsRecursive(f, D, R, size, prev, base, step) ==
  /\ f \in [D -> R]
  /\ \A x \in D : f[x] = IF size[x] = 0 THEN base[x] ELSE step[<<x, f[prev[x]]>>]

\* Put together, a function that unfolds up to every size.
LEMMA RecursionHasAFunction ==
  ASSUME NEW D, NEW R, NEW size, NEW prev, NEW base, NEW step, GetsSmaller(D, R, size, prev, base, step)
  PROVE  \E f : IsRecursive(f, D, R, size, prev, base, step)
<1>0. /\ size \in [D -> Nat] /\ prev \in [D -> D] /\ base \in [D -> R] /\ step \in [D \X R -> R]
      /\ \A x \in D : size[x] # 0 => size[prev[x]] < size[x]
  BY DEF GetsSmaller
<1> DEFINE part(n) == CHOOSE f : Unfolds(f, D, size, prev, base, step, n)
           f == [x \in D |-> part(size[x])[x]]
<1>1. \A n \in Nat : Unfolds(part(n), D, size, prev, base, step, n)
  BY <1>0, UnfoldsToSome
<1> HIDE DEF part
<1>2. ASSUME NEW x \in D
      PROVE  f[x] = IF size[x] = 0 THEN base[x] ELSE step[<<x, f[prev[x]]>>]
  <2>1. size[x] \in Nat /\ prev[x] \in D /\ size[prev[x]] \in Nat /\ x \in UpTo(D, size, size[x])
    BY <1>0 DEF UpTo
  <2>2. f[x] = part(size[x])[x] /\ f[prev[x]] = part(size[prev[x]])[prev[x]]
    BY <2>1
  <2>3. part(size[x])[x] = IF size[x] = 0 THEN base[x] ELSE step[<<x, part(size[x])[prev[x]]>>]
    BY <1>1, <2>1 DEF Unfolds
  <2>4. ASSUME size[x] # 0 PROVE part(size[x])[prev[x]] = part(size[prev[x]])[prev[x]]
    <3>1. size[prev[x]] <= size[x] /\ prev[x] \in UpTo(D, size, size[prev[x]])
      BY <1>0, <2>1, <2>4 DEF UpTo
    <3>2. /\ Unfolds(part(size[prev[x]]), D, size, prev, base, step, size[prev[x]])
          /\ Unfolds(part(size[x]), D, size, prev, base, step, size[x])
      BY <1>1, <2>1
    <3> QED
      BY <1>0, <2>1, <3>1, <3>2, UnfoldsToOne
  <2> HIDE DEF f
  <2> QED
    BY <2>2, <2>3, <2>4
<1>3. f = [x \in D |-> f[x]] /\ DOMAIN f = D
  OBVIOUS
<1> HIDE DEF f
<1>4. \A x \in D : f[x] \in R
  <2> DEFINE T == {k \in Nat : \E x \in D : size[x] = k /\ f[x] \notin R}
  <2>1. SUFFICES ASSUME T # {} PROVE FALSE
    BY <1>0
  <2>2. PICK k \in T : \A j \in T : k <= j
    <3>1. T \in SUBSET Nat
      OBVIOUS
    <3> HIDE DEF T
    <3> QED
      BY <2>1, <3>1, NatMin
  <2>3. PICK x \in D : size[x] = k /\ f[x] \notin R
    OBVIOUS
  <2>4. prev[x] \in D /\ size[prev[x]] \in Nat /\ base[x] \in R /\ k \in Nat
    BY <1>0
  <2>5. size[x] # 0 /\ f[x] = step[<<x, f[prev[x]]>>]
    BY <1>2, <2>3, <2>4
  <2>6. f[prev[x]] \notin R
    <3>1. ASSUME f[prev[x]] \in R PROVE step[<<x, f[prev[x]]>>] \in R
      BY <1>0, <3>1
    <3> QED
      BY <2>3, <2>5, <3>1
  <2>7. size[prev[x]] \in T /\ size[prev[x]] < k
    BY <1>0, <2>3, <2>4, <2>5, <2>6
  <2> HIDE DEF T
  <2> QED
    BY <2>2, <2>4, <2>7
<1>5. f \in [D -> R]
  BY <1>3, <1>4
<1> QED
  BY <1>2, <1>5 DEF IsRecursive
-----------------------------------------------------------------------------
\* Side is 2^z: the recursion defines one value for each zoom level.
LEMMA SideUnfolds == \A z \in Nat : Side[z] \in Nat \ {0} /\ Side[z] = IF z = 0 THEN 1 ELSE 2 * Side[z - 1]
<1> DEFINE size == [z \in Nat |-> z]
           prev == [z \in Nat |-> IF z = 0 THEN 0 ELSE z - 1]
           base == [z \in Nat |-> 1]
           step == [p \in Nat \X Nat |-> 2 * p[2]]
<1>1. PICK f : IsRecursive(f, Nat, Nat, size, prev, base, step)
  <2>1. GetsSmaller(Nat, Nat, size, prev, base, step)
    BY DEF GetsSmaller
  <2> HIDE DEF size, prev, base, step
  <2> QED
    BY <2>1, RecursionHasAFunction
<1>2. ASSUME NEW z \in Nat PROVE f[z] = IF z = 0 THEN 1 ELSE 2 * f[z - 1]
  <2>1. f \in [Nat -> Nat] /\ f[z] = IF size[z] = 0 THEN base[z] ELSE step[<<z, f[prev[z]]>>]
    BY <1>1, Zenon DEF IsRecursive
  <2>2. size[z] = z /\ base[z] = 1 /\ (z # 0 => prev[z] = z - 1 /\ z - 1 \in Nat)
    OBVIOUS
  <2>3. \A v \in Nat : step[<<z, v>>] = 2 * v
    OBVIOUS
  <2> HIDE DEF size, prev, base, step
  <2> QED
    BY <2>1, <2>2, <2>3
<1> HIDE DEF size, prev, base, step
<1>3. f = [z \in Nat |-> IF z = 0 THEN 1 ELSE 2 * f[z - 1]]
  <2>1. f \in [Nat -> Nat]
    BY <1>1 DEF IsRecursive
  <2> QED
    BY <1>2, <2>1
<1>4. Side = [z \in Nat |-> IF z = 0 THEN 1 ELSE 2 * Side[z - 1]]
  BY <1>3 DEF Side
<1> HIDE DEF Side
<1>5. \A z \in Nat : Side[z] = IF z = 0 THEN 1 ELSE 2 * Side[z - 1]
  BY <1>4
<1>6. \A z \in Nat : Side[z] \in Nat \ {0}
  <2> DEFINE T == {z \in Nat : Side[z] \notin Nat \ {0}}
  <2>1. SUFFICES ASSUME T # {} PROVE FALSE
    OBVIOUS
  <2>2. PICK z \in T : \A j \in T : z <= j
    <3>1. T \in SUBSET Nat
      OBVIOUS
    <3> HIDE DEF T
    <3> QED
      BY <2>1, <3>1, NatMin
  <2>3. z # 0
    BY <1>5
  <2>4. z - 1 \in Nat /\ z - 1 \notin T
    BY <2>2, <2>3
  <2> QED
    BY <1>5, <2>2, <2>3, <2>4
<1> QED
  BY <1>5, <1>6

\* The side of a level as the other lemmas use it.
LEMMA SideIs == Side[0] = 1 /\ \A z \in Nat : Side[z] \in Nat /\ Side[z + 1] = 2 * Side[z]
<1>1. Side[0] = 1
  BY SideUnfolds
<1>2. ASSUME NEW z \in Nat PROVE Side[z] \in Nat /\ Side[z + 1] = 2 * Side[z]
  <2>1. z + 1 \in Nat /\ z + 1 # 0 /\ (z + 1) - 1 = z
    OBVIOUS
  <2>2. Side[z + 1] = 2 * Side[(z + 1) - 1]
    BY <2>1, SideUnfolds
  <2> QED
    BY <2>1, <2>2, SideUnfolds
<1> QED
  BY <1>1, <1>2

\* A side has a tile.
LEMMA SidePositive == \A z \in Nat : Side[z] \in Nat \ {0}
BY SideUnfolds

\* 2^(a + b) = 2^a * 2^b.
LEMMA SideAdds == \A b \in Nat : \A a \in Nat : Side[a + b] = Side[a] * Side[b]
<1> TAKE b \in Nat
<1> DEFINE T == {a \in Nat : Side[a + b] # Side[a] * Side[b]}
<1>1. SUFFICES ASSUME T # {} PROVE FALSE
  OBVIOUS
<1>2. PICK a \in T : \A j \in T : a <= j
  <2>1. T \in SUBSET Nat
    OBVIOUS
  <2> HIDE DEF T
  <2> QED
    BY <1>1, <2>1, NatMin
<1>3. a # 0
  <2>1. Side[0 + b] = 1 * Side[b]
    BY SideIs
  <2> QED
    BY <2>1, SideIs
<1>4. a - 1 \in Nat /\ a - 1 \notin T /\ (a - 1) + 1 = a /\ (a - 1) + b \in Nat /\ ((a - 1) + b) + 1 = a + b
  BY <1>2, <1>3
<1>5. Side[a + b] = 2 * Side[(a - 1) + b] /\ Side[a] = 2 * Side[a - 1]
  BY <1>4, SideIs
<1>6. Side[(a - 1) + b] = Side[a - 1] * Side[b]
  BY <1>4
<1>7. (2 * Side[a - 1]) * Side[b] = 2 * (Side[a - 1] * Side[b])
  <2>1. Side[a - 1] \in Nat /\ Side[b] \in Nat
    BY <1>4, SideIs
  <2> QED
    BY <2>1
<1> QED
  BY <1>2, <1>5, <1>6, <1>7
-----------------------------------------------------------------------------
\* Divisions.

\* The quotient is the only number that leaves a remainder below the divisor.
LEMMA QuotientIs ==
  ASSUME NEW b \in Nat \ {0}, NEW q \in Int, NEW r \in 0..(b - 1)
  PROVE  (q * b + r) \div b = q
<1> DEFINE a == q * b + r
           p == a \div b
<1>1. a \in Int /\ p \in Int /\ p * b <= a /\ a < p * b + b
  OBVIOUS
<1>2. q * b <= a /\ a < q * b + b /\ q * b \in Int /\ p * b \in Int
  OBVIOUS
<1> HIDE DEF a, p
<1>3. ~(p < q)
  <2>1. ASSUME p + 1 <= q PROVE FALSE
    <3>1. (p + 1) * b <= q * b
      BY <1>1, <2>1
    <3>2. (p + 1) * b = p * b + b
      BY <1>1
    <3> QED
      BY <1>1, <1>2, <3>1, <3>2
  <2> QED
    BY <1>1, <2>1
<1>4. ~(q < p)
  <2>1. ASSUME q + 1 <= p PROVE FALSE
    <3>1. (q + 1) * b <= p * b
      BY <1>1, <2>1
    <3>2. (q + 1) * b = q * b + b
      OBVIOUS
    <3> QED
      BY <1>1, <1>2, <3>1, <3>2
  <2> QED
    BY <1>1, <2>1
<1> QED
  BY <1>1, <1>3, <1>4 DEF a, p

\* A number is its quotient times the divisor and a remainder.
LEMMA DivisionIs ==
  ASSUME NEW a \in Int, NEW b \in Nat \ {0}
  PROVE  /\ a \div b \in Int /\ a % b \in 0..(b - 1)
         /\ a = (a \div b) * b + (a % b)
OBVIOUS

\* A larger factor gives a larger product.
LEMMA TimesMonotone ==
  ASSUME NEW a \in Nat, NEW b \in Nat, NEW c \in Nat, a <= b
  PROVE  a * c <= b * c /\ a * c \in Nat /\ b * c \in Nat
OBVIOUS

\* A quotient is no larger than what is divided.
LEMMA QuotientIsSmaller ==
  ASSUME NEW a \in Nat, NEW b \in Nat \ {0}
  PROVE  a \div b \in Nat /\ a \div b <= a /\ (a < b <=> a \div b = 0)
<1> DEFINE q == a \div b
           r == a % b
<1>1. q \in Int /\ r \in 0..(b - 1) /\ a = q * b + r
  BY DivisionIs
<1> HIDE DEF q, r
<1>2. q >= 0
  <2>1. ASSUME q <= -1 PROVE FALSE
    <3>1. q * b <= (-1) * b
      BY <1>1, <2>1
    <3> QED
      BY <1>1, <3>1
  <2> QED
    BY <1>1, <2>1
<1>3. q * b >= q
  BY <1>1, <1>2
<1>4. q <= a
  BY <1>1, <1>3
<1>5. q >= 1 => q * b >= b
  BY <1>1
<1>6. a < b <=> q = 0
  BY <1>1, <1>2, <1>5
<1> QED
  BY <1>1, <1>2, <1>4, <1>6 DEF q

\* Division of natural numbers.
LEMMA NaturalDivision ==
  ASSUME NEW a \in Nat, NEW b \in Nat \ {0}
  PROVE  /\ a \div b \in Nat /\ a % b \in 0..(b - 1)
         /\ a = (a \div b) * b + (a % b)
<1>1. a \div b \in Nat
  BY QuotientIsSmaller
<1> QED
  BY <1>1, DivisionIs

\* Halving first makes no difference.
LEMMA HalvesDivide ==
  ASSUME NEW a \in Int, NEW b \in Nat \ {0}
  PROVE  a \div (2 * b) = (a \div 2) \div b
<1> DEFINE h == a \div 2
           q == h \div b
           r == h % b
           s == a % 2
<1>1. h \in Int /\ s \in 0..1 /\ a = h * 2 + s
  OBVIOUS
<1>2. q \in Int /\ r \in 0..(b - 1) /\ h = q * b + r
  BY <1>1, DivisionIs
<1> HIDE DEF h, q, r, s
<1>3. q * b \in Int /\ q * (2 * b) = 2 * (q * b)
  BY <1>2
<1>4. a = q * (2 * b) + (2 * r + s)
  BY <1>1, <1>2, <1>3
<1>5. 2 * r + s \in 0..(2 * b - 1) /\ 2 * b \in Nat \ {0}
  BY <1>1, <1>2
<1>6. a \div (2 * b) = q
  BY <1>2, <1>4, <1>5, QuotientIs
<1> QED
  BY <1>6 DEF h, q

\* Wrap is how many worlds to the east the column is, also west of the world.
LEMMA WrapIs ==
  ASSUME NEW z \in Nat, NEW w \in Int, NEW r \in 0..(Side[z] - 1)
  PROVE  Wrap(z, w * Side[z] + r) = w
<1> DEFINE s == Side[z]
           x == w * s + r
<1>1. s \in Nat \ {0} /\ r \in 0..(s - 1)
  BY SidePositive
<1> HIDE DEF s
<1>2. w * s \in Int /\ x \in Int
  BY <1>1
<1>3. CASE w >= 0
  <2>1. w * s >= 0
    BY <1>1, <1>3
  <2>2. x >= 0
    BY <1>1, <1>2, <2>1
  <2>3. x \div s = w
    BY <1>1, QuotientIs
  <2> HIDE DEF x
  <2>4. Quotient(IF x < 0 THEN x - s + 1 ELSE x, s) = w
    BY <1>2, <2>2, <2>3 DEF Quotient
  <2> QED
    BY <2>4 DEF Wrap, s, x
<1>4. CASE w < 0
  <2>1. w * s <= -s
    <3>1. (w + 1) * s <= 0
      BY <1>1, <1>4
    <3>2. (w + 1) * s = w * s + s
      BY <1>1
    <3> QED
      BY <1>1, <1>2, <3>1, <3>2
  <2>2. x < 0 /\ x - s + 1 <= 0 /\ x - s + 1 \in Int
    BY <1>1, <1>2, <2>1
  <2>3. -(x - s + 1) = (-w) * s + (s - 1 - r)
    <3>1. (-w) * s = -(w * s)
      BY <1>1
    <3> QED
      BY <1>1, <1>2, <3>1
  <2>4. (-(x - s + 1)) \div s = -w
    <3>1. s - 1 - r \in 0..(s - 1) /\ -w \in Int
      BY <1>1
    <3>2. ((-w) * s + (s - 1 - r)) \div s = -w
      BY <1>1, <3>1, QuotientIs
    <3> QED
      BY <2>3, <3>2
  <2> DEFINE y == x - s + 1
  <2>5. y \in Int /\ y <= 0 /\ (-y) \div s = -w
    BY <2>2, <2>4
  <2>6. y < 0
    BY <1>1, <2>2
  <2> HIDE DEF x, y
  <2>7. Quotient(y, s) = w
    BY <2>5, <2>6 DEF Quotient
  <2>8. Quotient(IF x < 0 THEN x - s + 1 ELSE x, s) = w
    BY <2>2, <2>7 DEF y
  <2> QED
    BY <2>8 DEF Wrap, s, x
<1> QED
  BY <1>3, <1>4
-----------------------------------------------------------------------------
\* Tiles.

\* A tile of the world at some level, with numbers for its coordinates.
IsTile(t) == t.z \in Nat /\ t = Tile(t.z, t.x, t.y) /\ t.x \in 0..(Side[t.z] - 1) /\ t.y \in 0..(Side[t.z] - 1)

\* The tiles a constructor accepts up to some level.
LEMMA CanonicalIs ==
  ASSUME NEW Z \in Nat, NEW t
  PROVE  t \in CanonicalTileID(Z) <=> IsTile(t) /\ t.z <= Z
<1>1. ASSUME t \in CanonicalTileID(Z) PROVE IsTile(t) /\ t.z <= Z
  <2>1. PICK z \in 0..Z : t \in [z : {z}, x : 0..(Side[z] - 1), y : 0..(Side[z] - 1)]
    BY <1>1 DEF CanonicalTileID
  <2>2. z \in Nat /\ z <= Z /\ t.z = z
    BY <2>1
  <2> QED
    BY <2>1, <2>2 DEF IsTile, Tile
<1>2. ASSUME IsTile(t), t.z <= Z PROVE t \in CanonicalTileID(Z)
  <2>1. t.z \in 0..Z
    BY <1>2 DEF IsTile
  <2>2. t \in [z : {t.z}, x : 0..(Side[t.z] - 1), y : 0..(Side[t.z] - 1)]
    BY <1>2 DEF IsTile, Tile
  <2> QED
    BY <2>1, <2>2 DEF CanonicalTileID
<1> QED
  BY <1>1, <1>2

\* What fits a column is kept, and a level up to the number of its bits fits.
LEMMA WordIs ==
  /\ \A n \in 0..(Side[Bits] - 1) : Word(n) = n
  /\ \A z \in Nat : z <= Bits => Side[z] <= Side[Bits] /\ Word(Word(Side[z]) - 1) = Side[z] - 1
<1> DEFINE S == Side[Bits]
<1>1. S \in Nat \ {0} /\ Bits \in Nat
  BY SidePositive, BitsAssumption
<1> HIDE DEF S
<1>2. ASSUME NEW n \in Int, NEW q \in {-1, 0, 1}, NEW r \in 0..(S - 1), n = q * S + r
      PROVE  n % S = r
  <2>1. q * S \in Int /\ (q * S + r) \div S = q
    BY <1>1, QuotientIs
  <2>2. n = (n \div S) * S + (n % S) /\ n % S \in Int
    <3>1. n \in Int /\ S \in Nat \ {0}
      BY <1>1
    <3>2. n = (n \div S) * S + (n % S) /\ n % S \in 0..(S - 1)
      BY <3>1, DivisionIs
    <3> QED
      BY <3>1, <3>2
  <2>3. n = q * S + (n % S)
    BY <1>2, <2>1, <2>2
  <2> QED
    BY <1>2, <2>1, <2>2, <2>3
<1>3. \A n \in 0..(S - 1) : Word(n) = n
  <2>1. ASSUME NEW n \in 0..(S - 1) PROVE n % S = n
    <3>1. n = 0 * S + n
      BY <1>1
    <3> QED
      BY <1>2, <3>1
  <2> QED
    BY <2>1 DEF Word, S
<1>4. ASSUME NEW z \in Nat, z <= Bits PROVE Side[z] <= S
  <2>1. Bits - z \in Nat /\ z + (Bits - z) = Bits
    BY <1>1, <1>4
  <2>2. S = Side[z] * Side[Bits - z]
    BY <2>1, SideAdds DEF S
  <2>3. \A a, b \in Nat \ {0} : a <= a * b
    OBVIOUS
  <2> QED
    BY <2>1, <2>2, <2>3, SidePositive
<1>5. ASSUME NEW z \in Nat, z <= Bits PROVE Word(Word(Side[z]) - 1) = Side[z] - 1
  <2>1. Side[z] \in Nat \ {0} /\ Side[z] <= S
    BY <1>4, <1>5, SidePositive
  <2>2. CASE Side[z] < S
    <3>1. Side[z] \in 0..(S - 1) /\ Side[z] - 1 \in 0..(S - 1)
      BY <1>1, <2>1, <2>2
    <3> QED
      BY <1>3, <3>1
  <2>3. CASE Side[z] = S
    <3>1. S = 1 * S + 0 /\ -1 = (-1) * S + (S - 1) /\ 0 \in 0..(S - 1) /\ S - 1 \in 0..(S - 1)
      BY <1>1
    <3>2. S % S = 0 /\ (-1) % S = S - 1
      BY <1>1, <1>2, <3>1
    <3>3. Word(Side[z]) = 0 /\ 0 - 1 = -1
      BY <2>3, <3>2 DEF Word, S
    <3> QED
      BY <2>3, <3>2, <3>3 DEF Word, S
  <2> QED
    BY <1>1, <2>1, <2>2, <2>3
<1> QED
  BY <1>3, <1>4, <1>5 DEF S

\* What fits the number of worlds is kept.
LEMMA ToWrapIs ==
  ASSUME NEW w \in (-Side[WrapBits - 1])..(Side[WrapBits - 1] - 1)
  PROVE  ToWrap(w) = w
<1> DEFINE half == Side[WrapBits - 1]
<1>1. half \in Nat \ {0} /\ w \in (-half)..(half - 1)
  BY SidePositive, BitsAssumption
<1> HIDE DEF half
<1>2. (w + half) % (2 * half) = w + half
  <2>1. 2 * half \in Nat \ {0} /\ w + half \in 0..(2 * half - 1)
    BY <1>1
  <2>2. ASSUME NEW b \in Nat \ {0}, NEW n \in 0..(b - 1) PROVE n % b = n
    <3>1. n \div b = 0
      BY QuotientIsSmaller
    <3>2. n = (n \div b) * b + (n % b) /\ n % b \in Int
      BY DivisionIs
    <3> QED
      BY <3>1, <3>2
  <2> QED
    BY <2>1, <2>2
<1> QED
  BY <1>1, <1>2 DEF ToWrap, half

\* One more shift is one more half, also of columns west of the world.
LEMMA ShiftedIs ==
  /\ \A a \in Int : Shifted(a, 1) = a \div 2
  /\ \A a \in Int, d \in Nat : d + 1 < Bits => Shifted(a, d + 1) = Shifted(a \div 2, d)
<1>1. Side[1] = 2 /\ 1 < Bits /\ Bits \in Nat
  BY SideIs, BitsAssumption
<1>2. ASSUME NEW a \in Int, NEW d \in Nat, d + 1 < Bits PROVE Shifted(a, d + 1) = Shifted(a \div 2, d)
  <2>1. Side[d + 1] = 2 * Side[d] /\ Side[d] \in Nat \ {0}
    BY SideIs, SidePositive
  <2>2. d < Bits
    BY <1>1, <1>2
  <2> QED
    BY <1>2, <2>1, <2>2, HalvesDivide DEF Shifted
<1> QED
  BY <1>1, <1>2 DEF Shifted

\* The children of a tile are those it is half of, if they fit.
LEMMA ChildIs ==
  ASSUME NEW t, IsTile(t), t.z < Bits, NEW c
  PROVE  /\ c \in Children(t) <=> /\ IsTile(c) /\ c.z = t.z + 1
                                  /\ c.x \div 2 = t.x /\ c.y \div 2 = t.y
<1> DEFINE s == Side[t.z]
<1>1. Side[t.z + 1] = 2 * s /\ s \in Nat \ {0} /\ t.z \in Nat /\ t.x \in 0..(s - 1) /\ t.y \in 0..(s - 1)
  BY SideIs, SidePositive DEF IsTile
<1> HIDE DEF s
<1>0. Children(t) = {Tile(t.z + 1, 2 * t.x, 2 * t.y), Tile(t.z + 1, 2 * t.x, 2 * t.y + 1),
                     Tile(t.z + 1, 2 * t.x + 1, 2 * t.y), Tile(t.z + 1, 2 * t.x + 1, 2 * t.y + 1)}
  <2>1. t.z + 1 \in Nat /\ t.z + 1 <= Bits /\ Side[Bits] \in Nat
    BY <1>1, BitsAssumption, SideIs
  <2>2. 2 * s <= Side[Bits]
    BY <1>1, <2>1, WordIs
  <2>3. \A n \in {t.x, t.y} : 2 * n \in 0..(Side[Bits] - 1) /\ 2 * n + 1 \in 0..(Side[Bits] - 1)
    BY <1>1, <2>1, <2>2
  <2>4. \A n \in {t.x, t.y} : Word(2 * n) = 2 * n /\ Word(Word(2 * n) + 1) = 2 * n + 1
    BY <2>3, WordIs
  <2> QED
    BY <2>4 DEF Children
<1>2. ASSUME c \in Children(t)
      PROVE  IsTile(c) /\ c.z = t.z + 1 /\ c.x \div 2 = t.x /\ c.y \div 2 = t.y
  <2>1. PICK i \in 0..1, j \in 0..1 : c = Tile(t.z + 1, 2 * t.x + i, 2 * t.y + j)
    <3>1. 2 * t.x = 2 * t.x + 0 /\ 2 * t.y = 2 * t.y + 0
      BY <1>1
    <3> QED
      BY <1>0, <1>2, <3>1
  <2>2. c.z = t.z + 1 /\ c.x = 2 * t.x + i /\ c.y = 2 * t.y + j /\ c = Tile(c.z, c.x, c.y)
    BY <2>1 DEF Tile
  <2>3. c.z \in Nat /\ Side[c.z] = 2 * s
    BY <1>1, <2>2
  <2>4. c.x \in 0..(2 * s - 1) /\ c.y \in 0..(2 * s - 1) /\ c.x \div 2 = t.x /\ c.y \div 2 = t.y
    <3>1. ASSUME NEW n \in 0..(s - 1), NEW k \in 0..1
          PROVE  2 * n + k \in 0..(2 * s - 1) /\ (2 * n + k) \div 2 = n
      <4>1. s \in Nat /\ n \in Nat /\ n + 1 <= s
        BY <1>1
      <4>2. (n * 2 + k) \div 2 = n
        BY <4>1, QuotientIs
      <4> QED
        BY <4>1, <4>2
    <3> QED
      BY <1>1, <2>2, <3>1
  <2> QED
    BY <2>2, <2>3, <2>4 DEF IsTile
<1>3. ASSUME IsTile(c), c.z = t.z + 1, c.x \div 2 = t.x, c.y \div 2 = t.y
      PROVE  c \in Children(t)
  <2>1. c.x \in Int /\ c.y \in Int
    BY <1>1, <1>3 DEF IsTile
  <2>2. c.x \in {2 * t.x, 2 * t.x + 1} /\ c.y \in {2 * t.y, 2 * t.y + 1}
    BY <1>3, <2>1
  <2>3. c = Tile(t.z + 1, c.x, c.y)
    BY <1>3 DEF IsTile
  <2> QED
    BY <1>0, <2>2, <2>3
<1> QED
  BY <1>2, <1>3

\* A tile, its children and their ancestors agree, at every zoom level whose
\* children fit.
LEMMA FamiliesAgree ==
  ASSUME NEW t, IsTile(t), t.z < Bits
  PROVE  FamilyAgrees(t)
<1>1. /\ t.z \in Nat /\ t.z + 1 \in Nat /\ t.x \in Int /\ t.y \in Int /\ Side[t.z] \in Nat
      /\ Bits \in Nat
  BY SideIs, BitsAssumption DEF IsTile
<1>2. ASSUME NEW c, IsTile(c), c.z = t.z + 1
      PROVE  /\ ScaledTo(c, t.z) = t <=> c.x \div 2 = t.x /\ c.y \div 2 = t.y
             /\ c.x \in Int /\ c.y \in Int
  <2>1. c.x \in Int /\ c.y \in Int
    BY <1>1, <1>2, SideIs DEF IsTile
  <2>2. t.z <= c.z /\ c.z - t.z = 1
    BY <1>1, <1>2
  <2>3. ScaledTo(c, t.z) = Tile(t.z, c.x \div 2, c.y \div 2)
    BY <2>1, <2>2, ShiftedIs DEF ScaledTo
  <2> QED
    BY <2>1, <2>3 DEF IsTile, Tile
<1>3. Children(t) = {c \in CanonicalTileID(t.z + 1) : c.z = t.z + 1 /\ ScaledTo(c, t.z) = t}
  <2>1. ASSUME NEW c
        PROVE  c \in Children(t) <=> c \in CanonicalTileID(t.z + 1) /\ c.z = t.z + 1 /\ ScaledTo(c, t.z) = t
    <3>1. t.z + 1 <= t.z + 1
      BY <1>1
    <3> QED
      BY <1>1, <1>2, <3>1, ChildIs, CanonicalIs
  <2> HIDE DEF Children
  <2> QED
    BY <2>1
<1>4. ASSUME NEW c \in Children(t)
      PROVE  /\ IsChildOf(c, t)
             /\ \A p \in CanonicalTileID(t.z) : IsChildOf(t, p) => IsChildOf(c, p)
  <2>1. IsTile(c) /\ c.z = t.z + 1 /\ c.x \div 2 = t.x /\ c.y \div 2 = t.y /\ c.x \in Int /\ c.y \in Int
    BY <1>2, ChildIs
  <2>2. t.z < c.z /\ c.z - t.z = 1
    BY <1>1, <2>1
  <2>3. IsChildOf(c, t)
    BY <2>1, <2>2, ShiftedIs DEF IsChildOf
  <2>4. ASSUME NEW p \in CanonicalTileID(t.z), IsChildOf(t, p)
        PROVE  IsChildOf(c, p)
    <3>1. IsTile(p)
      BY <1>1, CanonicalIs
    <3>2. CASE p.z = 0
      BY <3>2 DEF IsChildOf
    <3>3. CASE p.z # 0
      <4>1. p.z < t.z /\ p.x = Shifted(t.x, t.z - p.z) /\ p.y = Shifted(t.y, t.z - p.z)
        BY <2>4, <3>3 DEF IsChildOf
      <4>2. p.z \in Nat
        BY <3>1 DEF IsTile
      <4>3. p.z < c.z /\ c.z - p.z = (t.z - p.z) + 1 /\ t.z - p.z \in Nat /\ (t.z - p.z) + 1 < Bits
        BY <1>1, <2>1, <3>3, <4>1, <4>2
      <4>4. /\ Shifted(c.x, c.z - p.z) = Shifted(t.x, t.z - p.z)
            /\ Shifted(c.y, c.z - p.z) = Shifted(t.y, t.z - p.z)
        BY <2>1, <4>3, ShiftedIs
      <4> QED
        BY <4>1, <4>3, <4>4 DEF IsChildOf
    <3> QED
      BY <3>2, <3>3
  <2> QED
    BY <2>3, <2>4
<1>5. IsChildOf(t, t) => t.z = 0
  BY <1>1 DEF IsChildOf
<1> QED
  BY <1>3, <1>4, <1>5 DEF FamilyAgrees

\* The tile of any column and row is a tile of the world, in its place, and
\* so are its children, as far from it as the number of worlds can count. The
\* row is beside the world by less than what a row can be.
LEMMA PlacesAreKept ==
  ASSUME NEW z \in Nat, z < Bits, NEW y \in Int, y < Side[Bits],
         NEW x \in Int, x \div Side[z] \in (-Side[WrapBits - 1])..(Side[WrapBits - 1] - 1)
  PROVE  PlaceIsKept(z, x, y)
<1> DEFINE s == Side[z]
           w == x \div s
           r == x % s
           row == IF y < 0 THEN 0 ELSE IF y < s THEN y ELSE s - 1
           t == UnwrappedTileID(z, x, y)
<1>1. s \in Nat \ {0} /\ Side[z + 1] = 2 * s /\ z + 1 \in Nat
  BY SideIs, SidePositive
<1>2. w \in Int /\ r \in 0..(s - 1) /\ x = w * s + r
  BY <1>1, DivisionIs
<1>3. row \in 0..(s - 1) /\ (y \in 0..(s - 1) => row = y)
  BY <1>1
<1> HIDE DEF w, r
<1>4. Wrap(z, x) = w /\ ToWrap(w) = w
  BY <1>2, WrapIs, ToWrapIs DEF w
<1>13. /\ s <= Side[Bits] /\ 2 * s <= Side[Bits] /\ Side[Bits] \in Nat
       /\ Word(Word(s) - 1) = s - 1 /\ Word(Word(2 * s) - 1) = 2 * s - 1
       /\ \A n \in 0..(Side[Bits] - 1) : Word(n) = n
  <2>1. z + 1 <= Bits /\ z <= Bits /\ Bits \in Nat
    BY BitsAssumption
  <2> QED
    BY <1>1, <2>1, WordIs, SideIs
<1>14. (IF y < 0 THEN 0 ELSE IF Word(y) < s - 1 THEN Word(y) ELSE s - 1) = row
  <2>1. CASE y < 0
    BY <2>1
  <2>2. CASE y >= 0
    <3>1. y \in 0..(Side[Bits] - 1)
      BY <1>13, <2>2
    <3>2. Word(y) = y
      BY <1>13, <3>1
    <3> QED
      BY <1>1, <2>2, <3>2
  <2> QED
    BY <2>1, <2>2
<1>5. x - w * s = r
  <2>1. w * s \in Int
    BY <1>1, <1>2
  <2> QED
    BY <1>2, <2>1
<1>15. Word(r) = r
  BY <1>1, <1>2, <1>13
<1>6. t = [wrap |-> w, canonical |-> Tile(z, r, row)]
  BY <1>4, <1>5, <1>13, <1>14, <1>15 DEF UnwrappedTileID
<1> HIDE DEF s, row, t
<1>7. t.wrap = w /\ t.canonical = Tile(z, r, row) /\ t.canonical.x = r /\ t.canonical.y = row /\ t.canonical.z = z
  BY <1>6 DEF Tile
<1>8. IsTile(t.canonical)
  BY <1>2, <1>3, <1>7 DEF IsTile, s
<1>9. ASSUME NEW c \in UnwrappedChildren(t)
      PROVE  /\ UnwrappedIsChildOf(c, t)
             /\ UnwrappedTileID(z + 1, c.wrap * Side[z + 1] + c.canonical.x, c.canonical.y) = c
  <2>1. PICK k \in Children(t.canonical) : c = [wrap |-> w, canonical |-> k]
    BY <1>7 DEF UnwrappedChildren
  <2>2. c.wrap = w /\ c.canonical = k
    BY <2>1
  <2>3. IsTile(k) /\ k.z = z + 1
    BY <1>7, <1>8, BitsAssumption, ChildIs
  <2>4. k.x \in 0..(Side[z + 1] - 1) /\ k.y \in 0..(Side[z + 1] - 1) /\ k = Tile(z + 1, k.x, k.y)
    BY <2>3 DEF IsTile
  <2>5. UnwrappedIsChildOf(c, t)
    <3>1. IsChildOf(k, t.canonical)
      BY <1>7, <1>8, FamiliesAgree DEF FamilyAgrees
    <3> QED
      BY <1>7, <2>2, <3>1 DEF UnwrappedIsChildOf
  <2> DEFINE s2 == Side[z + 1]
             x2 == w * s2 + k.x
  <2>6. Wrap(z + 1, x2) = w
    BY <1>1, <1>2, <2>4, WrapIs
  <2>7. s2 \in Nat /\ w * s2 \in Int /\ k.x \in Int /\ k.y \in Int /\ 0 <= k.y /\ k.y < s2
    BY <1>1, <1>2, <2>4
  <2>8. x2 - w * s2 = k.x
    BY <2>7
  <2>9. /\ Word(k.x) = k.x
        /\ (IF k.y < 0 THEN 0 ELSE IF Word(k.y) < s2 - 1 THEN Word(k.y) ELSE s2 - 1) = k.y
    <3>1. k.x \in 0..(Side[Bits] - 1) /\ k.y \in 0..(Side[Bits] - 1)
      BY <1>1, <1>13, <2>4, <2>7
    <3>2. Word(k.x) = k.x /\ Word(k.y) = k.y
      BY <1>13, <3>1
    <3> QED
      BY <2>7, <3>2
  <2>11. Word(Word(s2) - 1) = s2 - 1
    BY <1>1, <1>13
  <2>10. UnwrappedTileID(z + 1, x2, k.y) = c
    <3> HIDE DEF x2, s2
    <3>1. UnwrappedTileID(z + 1, x2, k.y) = [wrap |-> w, canonical |-> Tile(z + 1, k.x, k.y)]
      BY <1>4, <2>6, <2>8, <2>9, <2>11 DEF UnwrappedTileID, s2
    <3> QED
      BY <2>1, <2>4, <3>1
  <2> QED
    BY <2>2, <2>5, <2>10
<1>10. t.canonical \in CanonicalTileID(z)
  BY <1>7, <1>8, CanonicalIs
<1>11. t.wrap * Side[z] + t.canonical.x = x
  BY <1>2, <1>7 DEF s
<1>12. y \in 0..(Side[z] - 1) => t.canonical.y = y
  BY <1>3, <1>7 DEF s
<1> QED
  BY <1>9, <1>10, <1>11, <1>12 DEF PlaceIsKept, t

\* A tile that stands for a deeper level.
LEMMA OverscalingAgrees ==
  ASSUME NEW t, IsTile(t), NEW z \in Nat, NEW to \in Nat, t.z <= z, z < Bits
  PROVE  OverscaleAgrees(t, z, to)
<1> DEFINE o == Overscaled(z, 0, t)
           b == OverscaledScaledTo(o, to)
<1> SUFFICES ASSUME to < z
             PROVE  /\ b.canonical.z <= to
                    /\ OverscaledIsChildOf(o, b)
                    /\ to >= t.z => OverscaleFactor(o) = Side[z - to] * OverscaleFactor(b)
  BY DEF OverscaleAgrees
<1>1. t.z \in Nat /\ o.overscaledZ = z /\ o.wrap = 0 /\ o.canonical = t
  BY DEF IsTile, Overscaled
<1>2. CASE to >= t.z
  <2>1. b = Overscaled(to, 0, t)
    BY <1>1, <1>2 DEF OverscaledScaledTo
  <2>2. b.overscaledZ = to /\ b.wrap = 0 /\ b.canonical = t
    BY <2>1 DEF Overscaled
  <2>3. OverscaleFactor(o) = Side[z - t.z] /\ OverscaleFactor(b) = Side[to - t.z]
    <3>1. ASSUME NEW d \in Nat, d < Bits PROVE ShiftedLeft(1, d) = Side[d]
      <4>1. d + 1 \in Nat /\ d + 1 <= Bits
        BY <3>1, BitsAssumption
      <4>2. Side[d] \in Nat \ {0} /\ Side[d + 1] = 2 * Side[d] /\ Side[d + 1] <= Side[Bits] /\ Side[Bits] \in Nat
        BY <4>1, BitsAssumption, SideIs, SidePositive, WordIs
      <4>3. Side[d] \in 0..(Side[Bits] - 1) /\ 1 * Side[d] = Side[d]
        BY <4>2
      <4> QED
        BY <3>1, <4>3, WordIs DEF ShiftedLeft
    <3>2. z - t.z \in Nat /\ z - t.z < Bits /\ to - t.z \in Nat /\ to - t.z < Bits
      BY <1>1, <1>2, BitsAssumption
    <3> QED
      BY <1>1, <2>2, <3>1, <3>2 DEF OverscaleFactor
  <2>4. Side[z - t.z] = Side[z - to] * Side[to - t.z]
    <3>1. z - to \in Nat /\ to - t.z \in Nat /\ (z - to) + (to - t.z) = z - t.z
      BY <1>1, <1>2
    <3> QED
      BY <3>1, SideAdds
  <2>5. OverscaledIsChildOf(o, b)
    BY <1>1, <2>2 DEF OverscaledIsChildOf
  <2> QED
    BY <1>1, <1>2, <2>2, <2>3, <2>4, <2>5
<1>3. CASE to < t.z
  <2>1. b = Overscaled(to, 0, ScaledTo(t, to))
    BY <1>1, <1>3 DEF OverscaledScaledTo
  <2>2. ScaledTo(t, to) = Tile(to, Shifted(t.x, t.z - to), Shifted(t.y, t.z - to))
    BY <1>1, <1>3 DEF ScaledTo
  <2>3. /\ b.overscaledZ = to /\ b.wrap = 0
        /\ b.canonical = Tile(to, Shifted(t.x, t.z - to), Shifted(t.y, t.z - to))
    BY <2>1, <2>2 DEF Overscaled
  <2>4. IsChildOf(t, b.canonical)
    BY <1>3, <2>3 DEF IsChildOf, Tile
  <2>5. OverscaledIsChildOf(o, b)
    BY <1>1, <2>3, <2>4 DEF OverscaledIsChildOf
  <2>6. b.canonical.z = to
    BY <2>3 DEF Tile
  <2> QED
    BY <1>1, <1>3, <2>5, <2>6
<1> QED
  BY <1>1, <1>2, <1>3

-----------------------------------------------------------------------------
\* Images: copy and clear.

\* The rows of a rectangle that is inside an image are inside its bytes.
LEMMA TouchedIsInside ==
  ASSUME NEW image \in Size, NEW size \in Size, NEW pt \in Point, IsInside(image, pt, size)
  PROVE  Touched(image, pt, size) \subseteq 0..(Bytes(image) - 1)
<1> DEFINE W == image.width * Channels
           w == size.width * Channels
           px == pt.x * Channels
<1>1. /\ image.width \in Nat /\ image.height \in Nat /\ size.width \in Nat /\ size.height \in Nat
      /\ pt.x \in Nat /\ pt.y \in Nat /\ Channels \in Nat
      /\ pt.x + size.width <= image.width /\ pt.y + size.height <= image.height
  BY UIntsAssumption, ChannelsAssumption DEF Size, Point, UInt, IsInside
<1>2. /\ W \in Nat /\ w \in Nat /\ px \in Nat /\ px + w <= W
      /\ Stride(image) = W
  <2>1. (pt.x + size.width) * Channels <= image.width * Channels
    BY <1>1, TimesMonotone
  <2>2. (pt.x + size.width) * Channels = pt.x * Channels + size.width * Channels
    BY <1>1
  <2> QED
    BY <1>1, <2>1, <2>2 DEF Stride
<1> HIDE DEF W, w, px
<1> SUFFICES ASSUME NEW y \in 0..(size.height - 1), NEW b \in Offset(image, pt, y)..(Offset(image, pt, y) + w - 1)
             PROVE  b \in 0..(Bytes(image) - 1)
  BY DEF Touched, w
<1>3. y \in Nat /\ pt.y + y + 1 <= image.height
  BY <1>1
<1>4. Offset(image, pt, y) = (pt.y + y) * W + px
  BY <1>2 DEF Offset, px
<1>5. (pt.y + y) * W \in Nat /\ (pt.y + y) * W + W <= image.height * W
  <2>1. (pt.y + y + 1) * W <= image.height * W
    BY <1>1, <1>2, <1>3, TimesMonotone
  <2>2. (pt.y + y + 1) * W = (pt.y + y) * W + W
    BY <1>1, <1>2, <1>3
  <2> QED
    BY <1>1, <1>2, <1>3, <2>1, <2>2
<1>6. Bytes(image) = image.height * W
  BY <1>1, <1>2 DEF Bytes
<1> DEFINE top == (pt.y + y) * W
           all == image.height * W
<1>7. top \in Nat /\ all \in Nat /\ top + W <= all /\ b \in Int /\ top + px <= b /\ b <= top + px + w - 1
  BY <1>1, <1>2, <1>4, <1>5
<1> HIDE DEF top, all
<1>8. 0 <= b /\ b <= all - 1
  BY <1>2, <1>7
<1> QED
  BY <1>6, <1>7, <1>8 DEF all

\* Every pixel of a rectangle is touched, from its first byte on.
LEMMA PixelsAreTouched ==
  ASSUME NEW image \in Size, NEW size \in Size, NEW pt \in Point,
         NEW x \in 0..(size.width - 1), NEW y \in 0..(size.height - 1)
  PROVE  (pt.y + y) * Stride(image) + (pt.x + x) * Channels \in Touched(image, pt, size)
<1>1. /\ image.width \in Nat /\ size.width \in Nat /\ pt.x \in Nat /\ pt.y \in Nat
      /\ x \in Nat /\ y \in Nat /\ x + 1 <= size.width /\ Channels \in Nat /\ Channels >= 1
  BY UIntsAssumption, ChannelsAssumption DEF Size, Point, UInt
<1>2. Stride(image) \in Nat
  BY <1>1 DEF Stride
<1>3. (pt.x + x) * Channels = pt.x * Channels + x * Channels
  BY <1>1
<1>4. x * Channels \in Nat /\ x * Channels + Channels <= size.width * Channels
  <2>1. (x + 1) * Channels <= size.width * Channels
    BY <1>1, TimesMonotone
  <2>2. (x + 1) * Channels = x * Channels + Channels
    BY <1>1
  <2> QED
    BY <1>1, <2>1, <2>2
<1> DEFINE row == (pt.y + y) * Stride(image)
           px == pt.x * Channels
           dx == x * Channels
           w == size.width * Channels
<1>5. row \in Nat /\ px \in Nat /\ dx \in Nat /\ w \in Nat /\ dx + Channels <= w
  BY <1>1, <1>2, <1>4
<1>6. Offset(image, pt, y) = row + px
  BY DEF Offset
<1> HIDE DEF row, px, dx, w
<1>7. row + (px + dx) \in (row + px)..(row + px + w - 1)
  BY <1>1, <1>5
<1> QED
  BY <1>3, <1>6, <1>7 DEF Touched, row, px, dx, w

\* A copy stays inside both images, and resize never fails.
LEMMA CopyIsSafe ==
  ASSUME NEW src \in Size, NEW dst \in Size, NEW srcPt \in Point, NEW dstPt \in Point, NEW size \in Size
  PROVE  StaysInside(src, dst, srcPt, dstPt, size) /\ ResizeWorks(src, size)
<1>1. /\ src.width \in Nat /\ src.height \in Nat /\ dst.width \in Nat /\ dst.height \in Nat
      /\ size.width \in Nat /\ size.height \in Nat
      /\ srcPt.x \in Nat /\ srcPt.y \in Nat /\ dstPt.x \in Nat /\ dstPt.y \in Nat
  BY UIntsAssumption DEF Size, Point, UInt
<1>2. /\ IsInside(src, srcPt, size) <=> Contains(src, srcPt, size)
      /\ IsInside(dst, dstPt, size) <=> Contains(dst, dstPt, size)
  BY <1>1 DEF IsInside, Contains
<1>3. ~IsEmpty(size) /\ Contains(src, srcPt, size) => ~IsEmpty(src)
  BY <1>1 DEF IsEmpty, Contains
<1>4. ~IsEmpty(size) /\ Contains(dst, dstPt, size) => ~IsEmpty(dst)
  BY <1>1 DEF IsEmpty, Contains
<1> DEFINE c == Copy(src, dst, srcPt, dstPt, size)
<1>5. c.read \subseteq 0..(Bytes(src) - 1) /\ c.written \subseteq 0..(Bytes(dst) - 1)
  <2>1. c.read = {} \/ (c.read = Touched(src, srcPt, size) /\ IsInside(src, srcPt, size))
    BY DEF Copy
  <2>2. c.written = {} \/ (c.written = Touched(dst, dstPt, size) /\ IsInside(dst, dstPt, size))
    BY DEF Copy
  <2> QED
    BY <2>1, <2>2, TouchedIsInside
<1>6. ~IsEmpty(size) => (c.error = "none" <=> Contains(src, srcPt, size) /\ Contains(dst, dstPt, size))
  BY <1>2, <1>3, <1>4 DEF Copy
<1>7. ASSUME c.error = "none", ~IsEmpty(size), NEW x \in 0..(size.width - 1), NEW y \in 0..(size.height - 1)
      PROVE  (srcPt.y + y) * Stride(src) + (srcPt.x + x) * Channels \in c.read
  <2>1. c.read = Touched(src, srcPt, size)
    BY <1>7 DEF Copy
  <2> QED
    BY <2>1, PixelsAreTouched
<1>8. StaysInside(src, dst, srcPt, dstPt, size)
  BY <1>5, <1>6, <1>7 DEF StaysInside
<1>9. Resize(src, size).error = "none"
  <2> DEFINE kept == Kept(src, size)
             zero == [x |-> 0, y |-> 0]
  <2>1. IsInside(src, zero, kept) /\ IsInside(size, zero, kept)
    BY <1>1 DEF IsInside, Kept, Smaller
  <2>2. IsEmpty(kept) \/ (~IsEmpty(src) /\ ~IsEmpty(size))
    BY <1>1 DEF IsEmpty, Kept, Smaller
  <2> QED
    BY <2>1, <2>2 DEF Resize, Copy
<1> QED
  BY <1>8, <1>9 DEF ResizeWorks

-----------------------------------------------------------------------------
\* Map positions.

\* Wrapping by the two remainders of wrap() is moving by whole worlds into -180..179.
LEMMA LongitudeIs ==
  ASSUME NEW v \in Int
  PROVE  WrapTo(v, -180, 180) = ((v + 180) % 360) - 180
<1>1. Fmod(v + 180, 360) + 360 >= 0 /\ (Fmod(v + 180, 360) + 360) % 360 = (v + 180) % 360
  BY DEF Fmod
<1>2. Fmod(v + 180, 360) \in Int
  BY DEF Fmod
<1>3. WrapTo(v, -180, 180) = Fmod(Fmod(v + 180, 360) + 360, 360) - 180
  <2>1. v - (-180) = v + 180 /\ 180 - (-180) = 360
    OBVIOUS
  <2>2. WrapTo(v, -180, 180) = Fmod(Fmod(v + 180, 360) + 360, 360) + (-180)
    BY <2>1, Zenon DEF WrapTo
  <2>3. Fmod(Fmod(v + 180, 360) + 360, 360) \in Int
    BY <1>2 DEF Fmod
  <2> QED
    BY <2>2, <2>3
<1> QED
  BY <1>1, <1>2, <1>3 DEF Fmod

\* A wrapped position is in the world, a position of the world stays as it is,
\* and whole worlds make no difference.
LEMMA WrappedIs ==
  ASSUME NEW p, p.lon \in Int
  PROVE  /\ Wrapped(p) = LatLng(p.lat, ((p.lon + 180) % 360) - 180)
         /\ Wrapped(p).lat = p.lat
         /\ Wrapped(p).lon \in Int /\ Wrapped(p).lon >= -180 /\ Wrapped(p).lon < 180
         /\ p.lon >= -180 /\ p.lon < 180 => Wrapped(p).lon = p.lon
<1>1. WrapTo(p.lon, -180, 180) = ((p.lon + 180) % 360) - 180
  BY LongitudeIs
<1>2. Wrapped(p) = LatLng(p.lat, ((p.lon + 180) % 360) - 180)
  BY <1>1 DEF Wrapped
<1>3. Wrapped(p).lat = p.lat /\ Wrapped(p).lon = ((p.lon + 180) % 360) - 180
  BY <1>2 DEF LatLng
<1>4. (p.lon + 180) % 360 \in Int /\ 0 <= (p.lon + 180) % 360 /\ (p.lon + 180) % 360 < 360
  OBVIOUS
<1>5. p.lon >= -180 /\ p.lon < 180 => (p.lon + 180) % 360 = p.lon + 180
  OBVIOUS
<1> QED
  BY <1>2, <1>3, <1>4, <1>5

\* Moving by a world does not change what wrap() gives.
LEMMA WorldsMakeNoDifference ==
  ASSUME NEW lat, NEW lon \in Int
  PROVE  /\ Wrapped(LatLng(lat, lon + 360)) = Wrapped(LatLng(lat, lon))
         /\ Wrapped(LatLng(lat, lon - 360)) = Wrapped(LatLng(lat, lon))
<1>1. (lon + 360 + 180) % 360 = (lon + 180) % 360 /\ (lon - 360 + 180) % 360 = (lon + 180) % 360
  OBVIOUS
<1>2. ASSUME NEW l \in Int PROVE Wrapped(LatLng(lat, l)) = LatLng(lat, ((l + 180) % 360) - 180)
  <2>1. LatLng(lat, l).lon = l /\ LatLng(lat, l).lat = lat
    BY DEF LatLng
  <2> QED
    BY <2>1, WrappedIs
<1>3. lon + 360 \in Int /\ lon - 360 \in Int
  OBVIOUS
<1> QED
  BY <1>1, <1>2, <1>3

\* unwrapForShortestPath between any two longitudes of the world moves the
\* start by whole worlds, and the way to the end does not get longer.
THEOREM ShortestPath ==
  ASSUME NEW p \in [lat : Int, lon : -180..180], NEW end \in [lat : Int, lon : -180..180]
  PROVE  PathIsShortest(p, end)
<1>1. p.lon \in Int /\ end.lon \in Int /\ -180 <= p.lon /\ p.lon <= 180 /\ -180 <= end.lon /\ end.lon <= 180
  OBVIOUS
<1>2. CASE p.lon > 0 /\ end.lon < 0 /\ p.lon - end.lon > 180 /\ p.lon - end.lon < 360
  <2>1. UnwrapForShortestPath(p, end) = LatLng(p.lat, p.lon - 360)
    BY <1>1, <1>2 DEF UnwrapForShortestPath, Distance
  <2>2. Wrapped(LatLng(p.lat, p.lon - 360)) = Wrapped(p)
    <3>1. p = LatLng(p.lat, p.lon)
      BY DEF LatLng
    <3> QED
      BY <1>1, <3>1, WorldsMakeNoDifference
  <2> QED
    BY <1>1, <1>2, <2>1, <2>2 DEF PathIsShortest, Distance, LatLng
<1>3. CASE p.lon < 0 /\ end.lon > 0 /\ end.lon - p.lon > 180 /\ end.lon - p.lon < 360
  <2>1. UnwrapForShortestPath(p, end) = LatLng(p.lat, p.lon + 360)
    BY <1>1, <1>3 DEF UnwrapForShortestPath, Distance
  <2>2. Wrapped(LatLng(p.lat, p.lon + 360)) = Wrapped(p)
    <3>1. p = LatLng(p.lat, p.lon)
      BY DEF LatLng
    <3> QED
      BY <1>1, <3>1, WorldsMakeNoDifference
  <2> QED
    BY <1>1, <1>3, <2>1, <2>2 DEF PathIsShortest, Distance, LatLng
<1>4. CASE Distance(p.lon, end.lon) <= 180 \/ Distance(p.lon, end.lon) >= 360
  BY <1>1, <1>4 DEF UnwrapForShortestPath, PathIsShortest, Distance
<1> QED
  BY <1>1, <1>2, <1>3, <1>4 DEF Distance

\* LatLngBounds::hull of any two positions has both, empty() adds nothing to
\* it, and constrain() moves a third position into it, once.
THEOREM HullsAndConstraints ==
  ASSUME NEW p \in [lat : -90..90, lon : Int], NEW q \in [lat : -90..90, lon : Int],
         NEW r \in [lat : -90..90, lon : Int]
  PROVE  BoundsAgree(p, q, r)
<1>1. /\ p.lat \in Int /\ p.lon \in Int /\ q.lat \in Int /\ q.lon \in Int /\ r.lat \in Int /\ r.lon \in Int
      /\ -90 <= p.lat /\ p.lat <= 90 /\ -90 <= q.lat /\ q.lat <= 90
  OBVIOUS
<1> DEFINE h == Hull(p, q)
           wp == Wrapped(p).lon
           wq == Wrapped(q).lon
<1>2. h = Bounds(LatLng(Least(q.lat, p.lat), Least(q.lon, p.lon)), LatLng(Most(q.lat, p.lat), Most(q.lon, p.lon)))
  BY DEF Hull, Extend, Bounds, LatLng
<1>3. BoundsContain(h, p) /\ BoundsContain(h, q) /\ ~IsEmptyBounds(h)
  <2> HIDE DEF h
  <2> QED
    BY <1>1, <1>2 DEF BoundsContain, IsEmptyBounds, Bounds, LatLng, Least, Most
<1>4. BoundsContain(h, Constrain(h, r))
  <2> HIDE DEF h
  <2> QED
    BY <1>1, <1>2 DEF BoundsContain, Constrain, Clamp, Bounds, LatLng, Least, Most
<1>5. Constrain(h, Constrain(h, r)) = Constrain(h, r)
  BY <1>4 DEF Constrain
<1>6. /\ wp \in Int /\ -180 <= wp /\ wp < 180 /\ wq \in Int /\ -180 <= wq /\ wq < 180
      /\ Wrapped(p) = LatLng(p.lat, wp) /\ Wrapped(q) = LatLng(q.lat, wq)
  <2>1. Wrapped(p) = LatLng(p.lat, wp) /\ Wrapped(q) = LatLng(q.lat, wq)
    BY <1>1, WrappedIs DEF LatLng
  <2> QED
    BY <1>1, <2>1, WrappedIs
<1> HIDE DEF wp, wq
<1>7. Extend(Extend(EmptyBounds, Wrapped(p)), Wrapped(q)) = Hull(Wrapped(p), Wrapped(q))
  <2>1. Extend(EmptyBounds, LatLng(p.lat, wp)) = Bounds(LatLng(p.lat, wp), LatLng(p.lat, wp))
    BY <1>1, <1>6 DEF Extend, EmptyBounds, World, Bounds, LatLng, Least, Most
  <2> QED
    BY <1>6, <2>1 DEF Hull
<1>8. ~CrossesAntimeridian(Hull(Wrapped(p), Wrapped(q)))
  <2> DEFINE w == Hull(Wrapped(p), Wrapped(q))
  <2>1. w.sw.lon = Least(wq, wp) /\ w.ne.lon = Most(wq, wp)
    BY <1>6 DEF Hull, Extend, Bounds, LatLng
  <2>2. /\ w.sw.lon \in Int /\ w.ne.lon \in Int /\ w.sw.lon <= w.ne.lon
        /\ -180 <= w.sw.lon /\ w.sw.lon < 180 /\ -180 <= w.ne.lon /\ w.ne.lon < 180
    BY <1>6, <2>1 DEF Least, Most
  <2> HIDE DEF w
  <2>3. Wrapped(w.sw).lon = w.sw.lon /\ Wrapped(w.ne).lon = w.ne.lon
    BY <2>2, WrappedIs
  <2>4. ~(Wrapped(w.sw).lon > Wrapped(w.ne).lon)
    BY <2>2, <2>3
  <2>5. CrossesAntimeridian(w) <=> Wrapped(w.sw).lon > Wrapped(w.ne).lon
    BY DEF CrossesAntimeridian
  <2> QED
    BY <2>4, <2>5 DEF w
<1> QED
  BY <1>3, <1>4, <1>5, <1>7, <1>8 DEF BoundsAgree

-----------------------------------------------------------------------------
\* Image assembly.

\* A side of an image whose tiles, put side by side, are still fewer than
\* there are pixels on the side of one: each shares an edge with the next.
IsLength(length) == length \in Nat /\ length <= 2 * (tilesize * tilesize) - 3 * tilesize

\* The pixel ratios in halves, of which the program's are.
IsRatio(ppi) == ppi.num \in Nat /\ ppi.num >= 2 /\ ppi.den = 2

\* Half of a number, cut off.
LEMMA HalfIs ==
  ASSUME NEW a \in Nat
  PROVE  a \div 2 \in Nat /\ 2 * (a \div 2) <= a /\ a <= 2 * (a \div 2) + 1
OBVIOUS

\* The number of tiles follows from the longer side.
LEMMA LongerSide ==
  ASSUME NEW width, NEW height, IsLength(width), IsLength(height)
  PROVE  IsLength(Greater(width, height)) /\ width <= Greater(width, height) /\ height <= Greater(width, height)
BY TilesizeAssumption DEF IsLength, Greater

\* Tiles in a row cover the longer side, with a pixel to spare for their edges.
LEMMA RowOfTiles ==
  ASSUME NEW width, NEW height, IsLength(width), IsLength(height)
  PROVE  LET p == PerRow(width, height) IN
         /\ p \in Nat /\ p >= 1 /\ tilesize >= 2
         /\ p * (tilesize - 1) >= Greater(width, height) + 1
<1> DEFINE T == tilesize
           m == Greater(width, height)
           N == NumberOfTilesNeeded(width, height)
           p == PerRow(width, height)
<1>1. T \in Nat \ {0} /\ m \in Nat /\ T * T \in Nat /\ m <= 2 * (T * T) - 3 * T
  BY TilesizeAssumption, LongerSide DEF IsLength
<1>2. T >= 2
  <2>1. T # 1
    BY <1>1
  <2> QED
    BY <1>1, <2>1
<1> DEFINE a == m + T + 2 * T - 1
           b == 2 * T
           r == a % b
<1>3. N = a \div b
  BY DEF NumberOfTilesNeeded, Ceiling
<1>4. a \in Nat /\ b \in Nat \ {0}
  BY <1>1
<1>5. N \in Nat /\ r \in 0..(b - 1) /\ a = N * b + r
  <2> HIDE DEF a, b, N, r
  <2> QED
    BY <1>3, <1>4, NaturalDivision, Zenon DEF r
<1>6. p = 2 * N + 1
  BY DEF PerRow
<1> HIDE DEF N, r, p, m
<1>7. N * b = 2 * (N * T) /\ N * T \in Nat
  BY <1>1, <1>5
<1>8. 2 * (N * T) >= m + T
  BY <1>1, <1>5, <1>7
<1>9. N <= T - 1
  <2>1. ASSUME T <= N PROVE FALSE
    <3>1. T * T <= N * T
      BY <1>1, <1>5, <2>1, TimesMonotone
    <3>2. 2 * (N * T) <= a
      BY <1>5, <1>7
    <3> QED
      BY <1>1, <1>2, <1>7, <3>1, <3>2
  <2> QED
    BY <1>1, <1>5, <2>1
<1>10. p * (T - 1) = 2 * (N * T) + T - 2 * N - 1
  BY <1>1, <1>5, <1>6
<1>11. p * (T - 1) >= m + 1
  BY <1>1, <1>5, <1>7, <1>8, <1>9, <1>10
<1> QED
  BY <1>2, <1>5, <1>6, <1>11 DEF p, m

\* The rectangle of a tile is smaller than the image of the tile.
LEMMA EdgesAreInTheTile ==
  ASSUME NEW ppi, IsRatio(ppi), tilesize >= 2
  PROVE  LET c == CenterTileLength(ppi) IN
         /\ c \in Nat /\ c >= 1 /\ c < TileWidth(ppi)
         /\ TileWidth(ppi) \in Nat
         /\ 2 * c >= (tilesize - 1) * ppi.num
<1> DEFINE T == tilesize
           k == ppi.num
           low == (T - 1) * k
           high == T * k
           c == CenterTileLength(ppi)
           w == TileWidth(ppi)
<1>1. T \in Nat /\ T >= 2 /\ k \in Nat /\ k >= 2
  BY TilesizeAssumption DEF IsRatio
<1>2. low \in Nat /\ high \in Nat /\ high = low + k
  BY <1>1
<1>3. low >= 2
  <2>1. (T - 1) * 2 <= (T - 1) * k
    BY <1>1
  <2> QED
    BY <1>1, <2>1
<1>4. c = (low + 1) \div 2 /\ w = high \div 2
  BY <1>2 DEF CenterTileLength, TileWidth, Scaled, Ceiling, IsRatio
<1>5. k = 2 => low = 2 * (T - 1)
  BY <1>1
<1>6. k = 3 => low = 3 * (T - 1)
  BY <1>1
<1> HIDE DEF low, high, c, w, k
<1>7. c \in Nat /\ c >= 1 /\ w \in Nat /\ 2 * c >= low /\ 2 * c <= low + 1 /\ 2 * w >= high - 1
  BY <1>2, <1>3, <1>4
<1>8. CASE k >= 4
  <2>1. c < w
    BY <1>1, <1>2, <1>7, <1>8
  <2> QED
    BY <1>7, <2>1 DEF low, k, c, w
<1>9. CASE k = 2
  <2>1. c = T - 1 /\ w = T
    BY <1>1, <1>2, <1>4, <1>5, <1>9
  <2>2. c < w
    BY <1>1, <2>1
  <2> QED
    BY <1>7, <2>2 DEF low, k, c, w
<1>10. CASE k = 3
  <2>1. c + 1 = w
    BY <1>1, <1>2, <1>4, <1>6, <1>10
  <2>2. c < w
    BY <1>7, <2>1
  <2> QED
    BY <1>7, <2>2 DEF low, k, c, w
<1> QED
  BY <1>1, <1>8, <1>9, <1>10

\* A pixel of the image is a pixel of the square of tiles.
LEMMA PixelIsInTheSquare ==
  ASSUME NEW length \in Nat, NEW longer \in Nat, length <= longer,
         NEW total \in Nat, NEW ppi, IsRatio(ppi), 2 * total >= (longer + 1) * ppi.num,
         NEW x \in 0..(Scaled(length, ppi) - 1)
  PROVE  x + OffsetOf(length, total, ppi) \in 0..total
<1> DEFINE k == ppi.num
           len == length * k
           half == (length \div 2) * k
           s == Scaled(length, ppi)
           sh == Scaled(length \div 2, ppi)
           h == total \div 2
<1>1. k \in Nat /\ k >= 2 /\ ppi.den = 2
  BY DEF IsRatio
<1>2. length \div 2 \in Nat /\ 2 * (length \div 2) <= length /\ length <= 2 * (length \div 2) + 1
  OBVIOUS
<1>3. len \in Nat /\ half \in Nat /\ 2 * half <= len /\ len <= 2 * half + k
  <2> DEFINE l2 == length \div 2
  <2> HIDE DEF k
  <2>1. (2 * l2) * k <= length * k /\ length * k <= (2 * l2 + 1) * k
    <3> HIDE DEF l2
    <3> QED
      BY <1>1, <1>2, TimesMonotone DEF l2
  <2>2. l2 \in Nat
    BY <1>2
  <2> HIDE DEF l2
  <2>3. (2 * l2) * k = 2 * (l2 * k) /\ (2 * l2 + 1) * k = 2 * (l2 * k) + k /\ l2 * k \in Nat /\ length * k \in Nat
    BY <1>1, <2>2
  <2> QED
    BY <2>1, <2>3 DEF l2
<1>4. len + k <= 2 * total
  <2>1. (length + 1) * k <= (longer + 1) * k
    BY <1>1, TimesMonotone
  <2>2. (length + 1) * k = len + k
    BY <1>1
  <2> QED
    BY <1>1, <1>3, <2>1, <2>2
<1>5. s = len \div 2 /\ sh = half \div 2
  BY <1>1 DEF Scaled
<1> HIDE DEF len, half, s, sh, k
<1>6. s \in Nat /\ 2 * s <= len /\ sh \in Nat /\ 2 * sh <= half /\ half <= 2 * sh + 1
  BY <1>3, <1>5
<1>7. h \in Nat /\ 2 * h <= total /\ total <= 2 * h + 1
  OBVIOUS
<1>8. x \in Nat /\ x <= s - 1
  BY <1>6 DEF s
<1>9. OffsetOf(length, total, ppi) = h - sh
  BY DEF OffsetOf, sh
<1> HIDE DEF h
<1>10. h - sh \in Nat
  BY <1>1, <1>3, <1>4, <1>6, <1>7
<1>11. x + (h - sh) <= total
  BY <1>1, <1>3, <1>4, <1>6, <1>7, <1>8
<1> QED
  BY <1>8, <1>9, <1>10, <1>11

\* A position on a row of tiles is in one of them, both its edges included.
LEMMA OneOfTheTiles ==
  ASSUME NEW p \in Nat \ {0}, NEW c \in Nat \ {0}, NEW x \in 0..(p * c)
  PROVE  \E i \in 0..(p - 1) : i * c <= x /\ x <= i * c + c
<1>1. p * c \in Nat /\ x \in Nat /\ x <= p * c
  OBVIOUS
<1>2. CASE x = p * c
  <2>1. p * c = (p - 1) * c + c
    OBVIOUS
  <2>2. (p - 1) * c \in Nat /\ p - 1 \in 0..(p - 1)
    OBVIOUS
  <2> QED
    BY <1>2, <2>1, <2>2
<1>3. CASE x < p * c
  <2> DEFINE q == x \div c
             r == x % c
  <2>1. q \in Nat /\ r \in 0..(c - 1) /\ x = q * c + r
    <3> HIDE DEF q, r
    <3> QED
      BY <1>1, NaturalDivision, Zenon DEF q, r
  <2> HIDE DEF q, r
  <2>2. q * c \in Nat
    BY <2>1
  <2>3. ~(p <= q)
    <3>1. ASSUME p <= q PROVE FALSE
      <4>1. p * c <= q * c
        BY <2>1, <3>1, TimesMonotone
      <4> QED
        BY <1>1, <1>3, <2>1, <2>2, <4>1
    <3> QED
      BY <3>1
  <2>4. q \in 0..(p - 1)
    BY <2>1, <2>3
  <2>5. q * c <= x /\ x <= q * c + c
    BY <2>1, <2>2
  <2> QED
    BY <2>4, <2>5
<1> QED
  BY <1>1, <1>2, <1>3

\* Image.At finds a tile for any pixel of any image of that length, and reads
\* a pixel of that tile.
THEOREM PixelsHaveTiles ==
  ASSUME NEW width, NEW height, IsLength(width), IsLength(height), NEW ppi, IsRatio(ppi),
         NEW x \in 0..(Scaled(width, ppi) - 1), NEW y \in 0..(Scaled(height, ppi) - 1)
  PROVE  PixelHasATile(x, y, width, height, ppi)
<1> DEFINE p == PerRow(width, height)
           c == CenterTileLength(ppi)
           total == Total(width, height, ppi)
           longer == Greater(width, height)
           rx == x + OffsetOf(width, total, ppi)
           ry == y + OffsetOf(height, total, ppi)
           tiles == TilesAt(x, y, width, height, ppi)
<1>1. /\ width \in Nat /\ height \in Nat /\ longer \in Nat /\ width <= longer /\ height <= longer
      /\ tilesize \in Nat /\ ppi.num \in Nat
  BY LongerSide, TilesizeAssumption DEF IsLength, IsRatio
<1>2. p \in Nat \ {0} /\ tilesize >= 2 /\ p * (tilesize - 1) >= longer + 1
  BY RowOfTiles
<1>3. /\ c \in Nat \ {0} /\ c < TileWidth(ppi) /\ 2 * c >= (tilesize - 1) * ppi.num
      /\ TileWidth(ppi) \in Nat
  BY <1>2, EdgesAreInTheTile
<1>4. total = p * c
  BY DEF Total
<1> HIDE DEF p, c, longer
<1>5. total \in Nat /\ 2 * total >= (longer + 1) * ppi.num
  <2> DEFINE k == ppi.num
             t == tilesize - 1
  <2>1. k \in Nat /\ t \in Nat /\ t * k \in Nat /\ p * t \in Nat /\ longer + 1 \in Nat
    BY <1>1, <1>2
  <2>2. (longer + 1) * k <= (p * t) * k
    BY <1>2, <2>1, TimesMonotone
  <2>3. (t * k) * p <= (2 * c) * p
    BY <1>2, <1>3, <2>1, TimesMonotone
  <2> HIDE DEF t, k
  <2>4. (p * t) * k = (t * k) * p
    BY <1>2, <2>1
  <2>5. (2 * c) * p = 2 * (p * c) /\ p * c \in Nat
    BY <1>2, <1>3
  <2> HIDE DEF total
  <2> QED
    BY <1>4, <2>2, <2>3, <2>4, <2>5, <2>1 DEF k
<1> HIDE DEF total
<1>6. rx \in 0..(p * c) /\ ry \in 0..(p * c)
  BY <1>1, <1>4, <1>5, PixelIsInTheSquare
<1>7. PICK col \in 0..(p - 1) : col * c <= rx /\ rx <= col * c + c
  BY <1>2, <1>3, <1>6, OneOfTheTiles
<1>8. PICK row \in 0..(p - 1) : row * c <= ry /\ ry <= row * c + c
  BY <1>2, <1>3, <1>6, OneOfTheTiles
<1>9. /\ tiles = {i \in 0..(p * p - 1) : InRect(i, rx, ry, width, height, ppi)}
      /\ \A i : RectMin(i, width, height, ppi) = [x |-> (i % p) * c, y |-> (i \div p) * c]
      /\ \A i : InRect(i, rx, ry, width, height, ppi) <=>
                  /\ (i % p) * c <= rx /\ rx <= (i % p) * c + c
                  /\ (i \div p) * c <= ry /\ ry <= (i \div p) * c + c
  BY DEF TilesAt, total, p, c, RectMin, InRect
<1> DEFINE ox == OffsetOf(width, total, ppi)
           oy == OffsetOf(height, total, ppi)
<1>10. x \in Int /\ y \in Int /\ ox \in Int /\ oy \in Int /\ rx = x + ox /\ ry = y + oy
  <2>1. /\ Scaled(width \div 2, ppi) \in Int /\ Scaled(height \div 2, ppi) \in Int
        /\ Scaled(width, ppi) \in Int /\ Scaled(height, ppi) \in Int
    BY <1>1 DEF Scaled, IsRatio
  <2>2. total \div 2 \in Int
    BY <1>5
  <2> HIDE DEF total
  <2> QED
    BY <2>1, <2>2 DEF OffsetOf
<1> HIDE DEF tiles, rx, ry, ox, oy
<1>11. row * p + col \in tiles
  <2>1. (row * p + col) \div p = row /\ row * p + col \in Int
    BY <1>2, QuotientIs
  <2>2. (row * p + col) % p = col
    <3> DEFINE i == row * p + col
    <3>1. i = (i \div p) * p + (i % p) /\ i % p \in 0..(p - 1)
      BY <1>2, <2>1, DivisionIs
    <3>2. i = row * p + (i % p)
      BY <2>1, <3>1
    <3> DEFINE rp == row * p
               rest == i % p
    <3>3. rp \in Int /\ rest \in Int /\ col \in Int /\ rp + col = rp + rest
      BY <1>2, <3>1, <3>2
    <3> HIDE DEF rp, rest
    <3>4. rest = col
      BY <3>3
    <3> QED
      BY <3>4 DEF rest
  <2>3. row * p + col \in 0..(p * p - 1)
    <3>1. row * p \in Nat /\ p * p \in Nat
      BY <1>2
    <3>2. (row + 1) * p <= p * p /\ (row + 1) * p = row * p + p
      BY <1>2, TimesMonotone
    <3> QED
      BY <1>2, <3>1, <3>2
  <2> QED
    BY <1>7, <1>8, <1>9, <2>1, <2>2, <2>3
<1> DEFINE first == CHOOSE i \in tiles : \A j \in tiles : i <= j
<1>12. first \in tiles
  <2>1. tiles \in SUBSET Nat /\ tiles # {}
    BY <1>2, <1>9, <1>11
  <2>2. \E i \in tiles : \A j \in tiles : i <= j
    BY <2>1, NatMin
  <2> QED
    BY <2>2
<1>13. InTile(x, y, width, height, ppi) =
         [tile |-> first, dx |-> x + (ox - (first % p) * c), dy |-> y + (oy - (first \div p) * c)]
  <2>1. InTile(x, y, width, height, ppi) =
          [tile |-> first, dx |-> x + (ox - RectMin(first, width, height, ppi).x),
                           dy |-> y + (oy - RectMin(first, width, height, ppi).y)]
    BY DEF InTile, first, tiles, ox, oy, total
  <2> HIDE DEF first
  <2> QED
    BY <1>9, <2>1
<1> HIDE DEF first
<1>14. /\ rx \in Int /\ ry \in Int
       /\ (first % p) * c \in Int /\ (first \div p) * c \in Int
       /\ rx <= (first % p) * c + c /\ ry <= (first \div p) * c + c
  <2>1. first \in Int /\ InRect(first, rx, ry, width, height, ppi)
    BY <1>2, <1>9, <1>12
  <2>2. first % p \in Int /\ first \div p \in Int
    BY <1>2, <2>1
  <2>3. (first % p) * c \in Int /\ (first \div p) * c \in Int
    BY <1>3, <2>2
  <2>4. rx <= (first % p) * c + c /\ ry <= (first \div p) * c + c
    BY <1>9, <2>1, Zenon
  <2> QED
    BY <1>6, <2>3, <2>4
<1>15. x + (ox - (first % p) * c) < TileWidth(ppi) /\ y + (oy - (first \div p) * c) < TileWidth(ppi)
  BY <1>3, <1>14, <1>10
<1> QED
  BY <1>11, <1>13, <1>15 DEF PixelHasATile, tiles
=============================================================================
