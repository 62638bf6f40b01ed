-------------------------------- MODULE Pedersen --------------------------------
(***************************************************************************)
(* pedersen_hash of starknet-crypto/src/pedersen_hash.rs, with the lookup  *)
(* tables that starknet-crypto-codegen/src/pedersen.rs generates: the bits *)
(* of each number are cut into a low and a high part, and each part into   *)
(* chunks, for which the table of its base point holds every multiple.     *)
(***************************************************************************)
EXTENDS Curve

CONSTANTS
  SHIFT_POINT,
  Base,               \* PEDERSEN_P0 to PEDERSEN_P3, as a sequence of four points
  LowBits,            \* 248
  HighBits,           \* 4
  CURVE_CONSTS_BITS   \* 4

ASSUME PedersenAssumption ==
  /\ LowBits \in Nat \ {0} /\ HighBits \in Nat \ {0} /\ CURVE_CONSTS_BITS \in Nat \ {0}
  /\ P <= 2 ^ (LowBits + HighBits) /\ LowBits + HighBits <= 4 * Nibbles

Times(n, op(_), p) == FoldLeft(LAMBDA q, i : op(q), p, [i \in 1..n |-> i])

ChunkSize(max_bits, i) ==
  IF max_bits - i * CURVE_CONSTS_BITS < CURVE_CONSTS_BITS
  THEN max_bits - i * CURVE_CONSTS_BITS ELSE CURVE_CONSTS_BITS

\* Where chunk i begins.
outer_point(base, i) == Times(i * CURVE_CONSTS_BITS, affine_double, base)

\* The tables, chunk after chunk, without the multiple zero.
push_points(base, max_bits) ==
  FlattenSeq([c \in 1..((max_bits + CURVE_CONSTS_BITS - 1) \div CURVE_CONSTS_BITS) |->
                LET outer == outer_point(base, c - 1)
                IN  [m \in 1..(2 ^ ChunkSize(max_bits, c - 1) - 1) |->
                       Times(m - 1, LAMBDA q : affine_add(q, outer), outer)]])

bools_to_usize_le(bools) ==
  FoldLeft(+, 0, [k \in DOMAIN bools |-> IF bools[k] THEN 2 ^ (k - 1) ELSE 0])

add_points(acc, bits, prep) ==
  LET table_size == 2 ^ CURVE_CONSTS_BITS - 1
      offset(i) ==
        bools_to_usize_le(SubSeq(bits, i * CURVE_CONSTS_BITS + 1,
                                 i * CURVE_CONSTS_BITS + ChunkSize(Len(bits), i)))
      add(a, c) == IF offset(c - 1) = 0 THEN a
                   ELSE projective_add_affine(a, prep[(c - 1) * table_size + offset(c - 1)])
  IN  FoldLeft(add, acc, [c \in 1..((Len(bits) + CURVE_CONSTS_BITS - 1) \div CURVE_CONSTS_BITS) |-> c])

Low(x)  == SubSeq(to_bits_le(x), 1, LowBits)
High(x) == SubSeq(to_bits_le(x), LowBits + 1, LowBits + HighBits)

pedersen_hash(x, y) ==
  LET a == add_points(from_affine_point(SHIFT_POINT), Low(x), push_points(Base[1], LowBits))
      b == add_points(a, High(x), push_points(Base[2], HighBits))
      c == add_points(b, Low(y), push_points(Base[3], LowBits))
      d == add_points(c, High(y), push_points(Base[4], HighBits))
  IN  to_affine(d).x

-----------------------------------------------------------------------------
(***************************************************************************)
(* The hash is the sum of the shift point and the multiples of the four    *)
(* base points by the parts of the two numbers, whatever points the sum    *)
(* passes through, the point at infinity included; only a sum that ends    *)
(* there has no coordinate to return.                                      *)
(***************************************************************************)
HashIsDefined(x, y) ==
  LET part(n, k) == Multiple(Base[k], n)
      sum == FoldLeft(affine_add, SHIFT_POINT,
                      <<part(x % 2 ^ LowBits, 1), part(x \div 2 ^ LowBits, 2),
                        part(y % 2 ^ LowBits, 3), part(y \div 2 ^ LowBits, 4)>>)
  IN  ~sum.infinity => pedersen_hash(x, y) = sum.x
=============================================================================
