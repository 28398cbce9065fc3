------------------------------ MODULE LatLngs ------------------------------
(***************************************************************************)
(* Positions and bounds on the map, in whole degrees. A latitude beyond    *)
(* the poles is refused with an exception, a longitude may be any.         *)
(***************************************************************************)
EXTENDS Integers

IsLatitude(lat) == -90 <= lat /\ lat <= 90
LatLng(lat, lon) == [lat |-> lat, lon |-> lon]

\* fmod keeps the sign of what it divides.
Fmod(a, b) == IF a < 0 THEN -((-a) % b) ELSE a % b
WrapTo(value, min, max) == Fmod(Fmod(value - min, max - min) + (max - min), max - min) + min
Wrapped(p) == LatLng(p.lat, WrapTo(p.lon, -180, 180))

Distance(a, b) == IF a < b THEN b - a ELSE a - b

\* Mutant: also when the way is short already.
AlwaysUnwrap(p, end) ==
  IF p.lon > 0 /\ end.lon < 0 THEN LatLng(p.lat, p.lon - 360)
  ELSE IF p.lon < 0 /\ end.lon > 0 THEN LatLng(p.lat, p.lon + 360)
  ELSE p

UnwrapForShortestPath(p, end) ==
  IF Distance(p.lon, end.lon) <= 180 \/ Distance(p.lon, end.lon) >= 360 THEN p
  ELSE IF p.lon > 0 /\ end.lon < 0 THEN LatLng(p.lat, p.lon - 360)
  ELSE IF p.lon < 0 /\ end.lon > 0 THEN LatLng(p.lat, p.lon + 360)
  ELSE p

\* Bounds by their corners.
Bounds(sw, ne) == [sw |-> sw, ne |-> ne]
World == Bounds(LatLng(-90, -180), LatLng(90, 180))
EmptyBounds == Bounds(World.ne, World.sw)
IsEmptyBounds(b) == b.sw.lat > b.ne.lat \/ b.sw.lon > b.ne.lon

Least(a, b) == IF a < b THEN a ELSE b
Most(a, b) == IF a < b THEN b ELSE a

Extend(b, p) ==
  Bounds(LatLng(Least(p.lat, b.sw.lat), Least(p.lon, b.sw.lon)),
         LatLng(Most(p.lat, b.ne.lat), Most(p.lon, b.ne.lon)))

Hull(p, q) == Extend(Bounds(p, p), q)
Clamp(value, min, max) == Most(min, Least(max, value))

\* contains is in the library; without wrapping it compares each coordinate.
BoundsContain(b, p) ==
  /\ b.sw.lat <= p.lat /\ p.lat <= b.ne.lat
  /\ b.sw.lon <= p.lon /\ p.lon <= b.ne.lon

Constrain(b, p) ==
  IF BoundsContain(b, p) THEN p
  ELSE LatLng(Clamp(p.lat, b.sw.lat, b.ne.lat), Clamp(p.lon, b.sw.lon, b.ne.lon))

CrossesAntimeridian(b) == Wrapped(b.sw).lon > Wrapped(b.ne).lon

\* Between two longitudes of the world the start is moved by whole worlds,
\* so that the way to the end is no longer than half of one.
PathIsShortest(p, end) ==
  LET q == UnwrapForShortestPath(p, end) IN
  /\ Distance(q.lon, end.lon) <= 180 \/ Distance(q.lon, end.lon) >= 360
  /\ Wrapped(q) = Wrapped(p)
  /\ Distance(q.lon, end.lon) <= Distance(p.lon, end.lon)

\* A hull is the least that holds its points, empty bounds add nothing to it,
\* and constraining a point is moving it as little as it takes.
BoundsAgree(p, q, r) ==
  LET h == Hull(p, q) IN
  /\ BoundsContain(h, p) /\ BoundsContain(h, q) /\ ~IsEmptyBounds(h)
  /\ Extend(Extend(EmptyBounds, Wrapped(p)), Wrapped(q)) = Hull(Wrapped(p), Wrapped(q))
  /\ BoundsContain(h, Constrain(h, r)) /\ Constrain(h, Constrain(h, r)) = Constrain(h, r)
  /\ ~CrossesAntimeridian(Hull(Wrapped(p), Wrapped(q)))
=============================================================================
