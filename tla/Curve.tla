--------------------------------- MODULE Curve ---------------------------------
(***************************************************************************)
(* Points of y^2 = x^3 + ALPHA x + BETA (starknet-curve/src/ec_point.rs).  *)
(* A point carries a flag for the point at infinity; its coordinates mean  *)
(* nothing then.                                                           *)
(***************************************************************************)
EXTENDS FieldElement

CONSTANTS
  ALPHA, BETA,     \* the curve
  EC_ORDER         \* the number of its points, a prime

ASSUME CurveAssumption == ALPHA = 1 /\ BETA \in Field /\ EC_ORDER \in Nat

Affine(x, y) == [x |-> x, y |-> y, infinity |-> FALSE]

Projective(x, y, z) == [x |-> x, y |-> y, z |-> z, infinity |-> FALSE]

\* A point with coordinate x, if there is one.
y_squared(x) == x ** x ** x ++ ALPHA ** x ++ BETA
OnCurve(x)   == Square(y_squared(x))
from_x(x)    == Affine(x, sqrt(y_squared(x)))

affine_identity     == [x |-> 0, y |-> 0, infinity |-> TRUE]
projective_identity == [x |-> 0, y |-> 0, z |-> 1, infinity |-> TRUE]

from_affine_point(p) == Projective(p.x, p.y, 1)

\* The flag is not looked at: infinity becomes the point its coordinates say.
to_affine(p) == Affine(p.x ** invert(p.z), p.y ** invert(p.z))

-----------------------------------------------------------------------------
Chord(p, q, lambda) ==
  LET x == lambda ** lambda -- p.x -- q.x
  IN  Affine(x, lambda ** (p.x -- x) -- p.y)

affine_double(p) ==
  IF p.infinity THEN p
  ELSE Chord(p, p, (3 ** p.x ** p.x ++ 1) ** invert(2 ** p.y))

affine_add(p, q) ==
  IF q.infinity THEN p
  ELSE IF p.infinity THEN q
  ELSE IF p.x = q.x THEN IF p.y = neg(q.y) THEN affine_identity ELSE affine_double(p)
  ELSE Chord(p, q, (q.y -- p.y) ** invert(q.x -- p.x))

affine_sub(p, q) == affine_add(p, [q EXCEPT !.y = neg(@)])

projective_double(p) ==
  IF p.infinity THEN p
  ELSE LET t  == 3 ** p.x ** p.x ++ p.z ** p.z
           u  == 2 ** p.y ** p.z
           v  == 2 ** u ** p.x ** p.y
           w  == t ** t -- 2 ** v
           uy == u ** p.y
       IN  Projective(u ** w,
                      t ** (v -- w) -- 2 ** uy ** uy,
                      u ** u ** u)

\* The sum of two points with different x, brought to the same z.
ProjectiveChord(u0, u1, t0, t1, v) ==
  LET t  == t0 -- t1
      u  == u0 -- u1
      u2 == u ** u
      u3 == u ** u2
      w  == t ** t ** v -- u2 ** (u0 ++ u1)
  IN  Projective(u ** w,
                 t ** (u0 ** u2 -- w) -- t0 ** u3,
                 u3 ** v)

\* Opposite points are doubled too.
projective_add_affine_doubles(p, q) ==
  IF q.infinity THEN p
  ELSE IF p.infinity THEN Projective(q.x, q.y, 1)
  ELSE IF p.x = q.x ** p.z THEN projective_double(p)
  ELSE ProjectiveChord(p.x, q.x ** p.z, p.y, q.y ** p.z, p.z)

projective_add_affine(p, q) ==
  IF q.infinity THEN p
  ELSE IF p.infinity THEN Projective(q.x, q.y, 1)
  ELSE IF p.x = q.x ** p.z
       THEN IF p.y # q.y ** p.z THEN [p EXCEPT !.infinity = TRUE] ELSE projective_double(p)
  ELSE ProjectiveChord(p.x, q.x ** p.z, p.y, q.y ** p.z, p.z)

\* Opposite points are not told from equal ones here.
projective_add(p, q) ==
  IF q.infinity THEN p
  ELSE IF p.infinity THEN q
  ELSE IF p.x ** q.z = q.x ** p.z THEN projective_double(p)
  ELSE ProjectiveChord(p.x ** q.z, q.x ** p.z,
                       p.y ** q.z, q.y ** p.z, p.z ** q.z)

\* The lowest bit first.
projective_mul_forward(p, bits) ==
  FoldLeft(LAMBDA r, bit : LET d == projective_double(r)
                           IN  IF bit THEN projective_add(d, p) ELSE d,
           projective_identity, bits)

affine_mul(p, bits) ==
  FoldRight(LAMBDA bit, r : LET d == affine_double(r) IN  IF bit THEN affine_add(d, p) ELSE d,
            bits, affine_identity)

projective_mul(p, bits) ==
  FoldRight(LAMBDA bit, r : LET d == projective_double(r)
                            IN  IF bit THEN projective_add(d, p) ELSE d,
            bits, projective_identity)

mul_by_bits(p, y) == to_affine(projective_mul(from_affine_point(p), to_bits_le(y)))

-----------------------------------------------------------------------------
Points == {p \in [x : Field, y : Field, infinity : {FALSE}] :
             p.y ** p.y = y_squared(p.x)}

Multiple(p, k) == FoldLeft(LAMBDA sum, i : affine_add(sum, p), affine_identity, [i \in 1..k |-> i])

(***************************************************************************)
(* Doubling and adding in projective coordinates gives the k-fold sum of a *)
(* point, for every scalar but the order itself: only there an opposite    *)
(* point is added, which projective_add takes for an equal one.            *)
(***************************************************************************)
ScalarMulAgrees(p, k) ==
  k % EC_ORDER # 0 => /\ mul_by_bits(p, k) = Multiple(p, k)
                         /\ affine_mul(p, to_bits_le(k)) = Multiple(p, k)
=============================================================================
