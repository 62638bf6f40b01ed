------------------------------ MODULE FieldElement ------------------------------
(***************************************************************************)
(* FieldElement of starknet-ff/src/lib.rs: the numbers below a prime, kept *)
(* in integers a little wider than the prime (U256), and their             *)
(* conversions.  A text is a sequence of digits; any other character is a  *)
(* number that is no digit.  The Montgomery form in which a number is kept *)
(* is not modelled.                                                        *)
(***************************************************************************)
EXTENDS Integers, Sequences, SequencesExt

CONSTANTS
  P,               \* the prime: 2^251 + 17 * 2^192 + 1
  Nibbles          \* hexadecimal digits of the wide integers: 64

\* By recursion, for the proofs.
Powers(base) ==
  LET power[n \in 0..(4 * Nibbles)] == IF n = 0 THEN 1 ELSE base * power[n - 1]
  IN  power

\* The first number that U256 does not hold.
WIDE == Powers(16)[Nibbles]

\* All bytes but the first, and two bits of that, hold no number but an element.
ASSUME FieldAssumption ==
  /\ P \in Nat /\ 3 < P /\ P < WIDE
  /\ Nibbles \in Nat \ {0} /\ Nibbles % 2 = 0
  /\ 4 * Powers(256)[Nibbles \div 2 - 1] <= P

Field == 0..(P - 1)

a ++ b  == (a + b) % P
a -- b == (a - b) % P
a ** b == (a * b) % P
neg(a)      == (-a) % P

\* Inverses and roots: None of zero, and of what is no square.
Invertible(a) == a # 0
invert(a)     == CHOOSE b \in Field : a ** b = 1
Square(a)     == \E b \in Field : b ** b = a
sqrt(a)       == CHOOSE b \in Field : b ** b = a

\* Division of numbers, not of field elements; by zero it panics.
floor_div(a, b) == a \div b
rem(a, b)       == IF a < b THEN a ELSE a % b

-----------------------------------------------------------------------------
(***************************************************************************)
(* Reading.                                                                *)
(***************************************************************************)
InvalidCharacter == "InvalidCharacter"
OutOfRange       == "OutOfRange"
InvalidLength    == "InvalidLength"

Ok(a) == [ok |-> TRUE, value |-> a]
Err(e) == [ok |-> FALSE, error |-> e]

\* Fr::from_bigint takes canonical numbers only.
from_bigint(u) == IF u < P THEN Ok(u) ELSE Err(OutOfRange)

\* The wide integer wraps instead.
push_digit_wraps(res, d) == Ok((10 * res + d) % WIDE)

\* One digit after the other, as long as the wide integer holds the number.
push_digit(res, d) == IF 10 * res + d >= WIDE THEN Err(OutOfRange) ELSE Ok(10 * res + d)

dec_reads(s) ==
  LET res[k \in 0..Len(s)] ==
        IF k = 0 THEN Ok(0)
        ELSE IF ~res[k - 1].ok THEN res[k - 1]
        ELSE IF s[k] \notin 0..9 THEN Err(InvalidCharacter)
        ELSE push_digit(res[k - 1].value, s[k])
  IN  res

from_dec_str(s) ==
  LET res == dec_reads(s)[Len(s)] IN IF res.ok THEN from_bigint(res.value) ELSE res

numbers(digits, base) ==
  LET number[k \in 0..Len(digits)] == IF k = 0 THEN 0 ELSE base * number[k - 1] + digits[k]
  IN  number

Number(digits, base) == numbers(digits, base)[Len(digits)]

\* What follows "0x": too long a text is refused before its characters are read.
from_hex_be(s) ==
  IF Len(s) > Nibbles THEN Err(OutOfRange)
  ELSE IF \E k \in DOMAIN s : s[k] \notin 0..15 THEN Err(InvalidCharacter)
  ELSE from_bigint(Number(s, 16))

from_byte_slice_be(bytes) ==
  IF 2 * Len(bytes) > Nibbles THEN Err(InvalidLength) ELSE from_bigint(Number(bytes, 256))

-----------------------------------------------------------------------------
(***************************************************************************)
(* Writing.                                                                *)
(***************************************************************************)
\* What is left of u after k divisions.
quotients(u, base) ==
  LET current[k \in 0..(4 * Nibbles)] == IF k = 0 THEN u ELSE current[k - 1] \div base
  IN  current

\* The last n digits.
Digits(u, base, n) == [k \in 1..n |-> quotients(u, base)[n - k] % base]

\* As many as it takes divisions to get to zero, and at least one.
Display(a) ==
  Digits(a, 10, CHOOSE n \in 1..(4 * Nibbles) :
                  quotients(a, 10)[n] = 0 /\ \A m \in 1..(n - 1) : quotients(a, 10)[m] # 0)

\* From the first digit that is not zero, or that the width asks for.
LowerHex(a, width) ==
  LET nibble(ind) == Digits(a, 16, Nibbles)[ind + 1]
      latch == CHOOSE ind \in 0..Nibbles :
                 /\ ind = Nibbles \/ nibble(ind) # 0 \/ Nibbles - ind <= width
                 /\ \A i \in 0..(ind - 1) : nibble(i) = 0 /\ Nibbles - i > width
  IN  Digits(a, 16, Nibbles - latch)

to_bytes_be(a) == Digits(a, 256, Nibbles \div 2)

to_bits_le(a) == [k \in 1..(4 * Nibbles) |-> quotients(a, 2)[k - 1] % 2 = 1]

-----------------------------------------------------------------------------
(***************************************************************************)
(* A text is read as the number it denotes, or refused when that number is *)
(* no field element: numbers are never reduced, neither to the prime nor   *)
(* to the width of the integers they are computed in.                      *)
(***************************************************************************)
ReadsCanonical(s) ==
  LET Agrees(r, base) ==
        r.ok <=> (\A k \in DOMAIN s : s[k] \in 0..(base - 1)) /\ Number(s, base) < P
      Right(r, base) == r.ok => r.value = Number(s, base)
  IN  /\ Agrees(from_dec_str(s), 10) /\ Right(from_dec_str(s), 10)
      /\ Len(s) <= Nibbles => Agrees(from_hex_be(s), 16)
      /\ Right(from_hex_be(s), 16)

(***************************************************************************)
(* What is written is read back as the same element, in every format and   *)
(* with any width, and the bits and the quotient are those of the number.  *)
(***************************************************************************)
WritesAndReads(a, b) ==
  /\ from_dec_str(Display(a)) = Ok(a)
  /\ from_hex_be(LowerHex(a, IF b < Nibbles THEN b ELSE Nibbles)) = Ok(a)
  /\ from_byte_slice_be(to_bytes_be(a)) = Ok(a)
  /\ Number(Reverse([k \in DOMAIN to_bits_le(a) |-> IF to_bits_le(a)[k] THEN 1 ELSE 0]), 2) = a
  /\ b # 0 => floor_div(a, b) * b + rem(a, b) = a /\ rem(a, b) < b
=============================================================================
