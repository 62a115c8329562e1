--------------------------- MODULE LayoutGeometry ---------------------------
(***************************************************************************)
(* The integer geometry the layout viewer's crates share: boxes            *)
(* <<x1, y1, x2, y2>> that hold the unit squares [x1, x2) x [y1, y2), and  *)
(* NoBox where the code has None.  Coordinates stay far from the ends of   *)
(* i32, so the saturating operations of the code are the plain ones.       *)
(***************************************************************************)
EXTENDS Integers, Sequences, FiniteSets

NoBox == <<>>

Least(a, b) == IF a <= b THEN a ELSE b
Most(a, b) == IF a >= b THEN a ELSE b
Clamp(v, lo, hi) == Most(lo, Least(v, hi))

\* Division of the code's f64 arithmetic on exact quotients: round() rounds
\* halves away from zero, \div is floor().
RoundDiv(n, d) == IF n >= 0 THEN (2 * n + d) \div (2 * d)
                            ELSE -((d - 2 * n) \div (2 * d))
CeilDiv(n, d) == IF n <= 0 THEN 0 ELSE (n - 1) \div d + 1

\* The elements of S in the order of the total order Before.
InOrder(S, Before(_, _)) ==
    [i \in 1..Cardinality(S) |->
        CHOOSE s \in S : Cardinality({t \in S : Before(t, s)}) = i - 1]

\* Comparison of the tuples the code sorts by, field by field.
Lexical(s, t) == \E i \in DOMAIN s : /\ s[i] < t[i]
                                    /\ \A j \in 1..(i - 1) : s[j] = t[j]

ValidBox(b) == IF b # NoBox /\ b[1] < b[3] /\ b[2] < b[4] THEN b ELSE NoBox

\* Rect::new: the corners in either order.
Ordered(b) == <<Least(b[1], b[3]), Least(b[2], b[4]),
                Most(b[1], b[3]), Most(b[2], b[4])>>

Common(a, b) == <<Most(a[1], b[1]), Most(a[2], b[2]),
                  Least(a[3], b[3]), Least(a[4], b[4])>>

Within(inner, outer) == /\ inner[1] >= outer[1] /\ inner[2] >= outer[2]
                        /\ inner[3] <= outer[3] /\ inner[4] <= outer[4]

\* Rect::intersects: touching edges do not meet.
Meets(a, b) == a[1] < b[3] /\ a[3] > b[1] /\ a[2] < b[4] /\ a[4] > b[2]

Merge(a, b) == <<Least(a[1], b[1]), Least(a[2], b[2]),
                 Most(a[3], b[3]), Most(a[4], b[4])>>

Area(b) == Most(b[3] - b[1], 0) * Most(b[4] - b[2], 0)

\* The unit square at <<x, y>> belongs to b.
Holds(b, x, y) == b[1] <= x /\ x < b[3] /\ b[2] <= y /\ y < b[4]

Shift(b, dx, dy) == <<b[1] + dx, b[2] + dy, b[3] + dx, b[4] + dy>>

\* rotate_point_about_origin, the eight orientations of the format.
Rotate(p, orient) ==
    LET x == p[1] y == p[2] IN
    CASE orient = "R90"   -> <<-y, x>>
      [] orient = "R180"  -> <<-x, -y>>
      [] orient = "R270"  -> <<y, -x>>
      [] orient = "MX"    -> <<x, -y>>
      [] orient = "MY"    -> <<-x, y>>
      [] orient = "MXR90" -> <<y, x>>
      [] orient = "MYR90" -> <<-y, -x>>
      [] OTHER            -> <<x, y>>

RotateBox(b, orient) ==
    LET p == Rotate(<<b[1], b[2]>>, orient)
        q == Rotate(<<b[3], b[4]>>, orient)
    IN  Ordered(<<p[1], p[2], q[1], q[2]>>)
=============================================================================
