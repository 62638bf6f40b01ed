--------------------------------- MODULE Ecdsa ---------------------------------
(***************************************************************************)
(* Stark ECDSA: starknet-crypto/src/ecdsa.rs with fe_utils.rs and          *)
(* rfc6979.rs, and the functions of starknet-core/src/crypto.rs that the   *)
(* prover server and the account client call.  Messages, and the r of a    *)
(* signature, are below a bound that is less than the order of the curve,  *)
(* which is less than the prime of the field.                              *)
(***************************************************************************)
EXTENDS Curve

CONSTANTS
  GENERATOR,             \* a point
  ELEMENT_UPPER_BOUND    \* 2^251

ASSUME EcdsaAssumption == ELEMENT_UPPER_BOUND < EC_ORDER /\ EC_ORDER < P

mul_mod_floor(a, b) == (a * b) % EC_ORDER

mod_inverse(a) == CHOOSE b \in 1..(EC_ORDER - 1) : mul_mod_floor(a, b) = 1

get_public_key(private_key) == mul_by_bits(GENERATOR, private_key).x

\* The first draw of the generator that is a scalar.  The draws are those of
\* an HMAC over the key, the message and a seed, which is external.
generate_k(draws) ==
  SelectSeq(draws, LAMBDA k : k # 0 /\ k < EC_ORDER)[1]

-----------------------------------------------------------------------------
InvalidMessageHash == "InvalidMessageHash"
InvalidK           == "InvalidK"
InvalidR           == "InvalidR"
InvalidS           == "InvalidS"
InvalidV           == "InvalidV"
InvalidPublicKey   == "InvalidPublicKey"

\* Neither r nor s is looked at.
sign_any_r(private_key, message, k) ==
  LET full_r == mul_by_bits(GENERATOR, k)
      s == mul_mod_floor(mul_mod_floor(full_r.x, private_key) + message, mod_inverse(k))
  IN  IF message >= ELEMENT_UPPER_BOUND THEN Err(InvalidMessageHash)
      ELSE IF k = 0 THEN Err(InvalidK)
      ELSE Ok([r |-> full_r.x, s |-> s, v |-> full_r.y % 2])

sign(private_key, message, k) ==
  LET full_r == mul_by_bits(GENERATOR, k)
      s == mul_mod_floor(mul_mod_floor(full_r.x, private_key) + message, mod_inverse(k))
  IN  IF message >= ELEMENT_UPPER_BOUND THEN Err(InvalidMessageHash)
      ELSE IF k = 0 THEN Err(InvalidK)
      ELSE IF full_r.x = 0 \/ full_r.x >= ELEMENT_UPPER_BOUND THEN Err(InvalidK)
      ELSE IF s = 0 THEN Err(InvalidK)
      ELSE Ok([r |-> full_r.x, s |-> s, v |-> full_r.y % 2])

\* What verify and recover refuse before they look at the curve.
Refused(message, r, s) ==
  IF message >= ELEMENT_UPPER_BOUND THEN {InvalidMessageHash}
  ELSE IF r = 0 \/ r >= ELEMENT_UPPER_BOUND THEN {InvalidR}
  ELSE IF s = 0 \/ s >= EC_ORDER THEN {InvalidS}
  ELSE {}

verify(public_key, message, r, s) ==
  IF Refused(message, r, s) # {} THEN Err(CHOOSE e \in Refused(message, r, s) : TRUE)
  ELSE IF ~OnCurve(public_key) THEN Err(InvalidPublicKey)
  ELSE IF mod_inverse(s) >= ELEMENT_UPPER_BOUND THEN Err(InvalidS)
  ELSE LET w    == mod_inverse(s)
           zw_g == mul_by_bits(GENERATOR, mul_mod_floor(message, w))
           rw_q == mul_by_bits(from_x(public_key), mul_mod_floor(r, w))
       IN  Ok(affine_add(zw_g, rw_q).x = r \/ affine_sub(zw_g, rw_q).x = r)

\* The point with coordinate r whose y has the parity v.
FullR(r, v) ==
  LET p == from_x(r) IN IF p.y % 2 = v THEN p ELSE [p EXCEPT !.y = neg(@)]

recover(message, r, s, v) ==
  IF Refused(message, r, s) # {} THEN Err(CHOOSE e \in Refused(message, r, s) : TRUE)
  ELSE IF v > 1 THEN Err(InvalidV)
  ELSE IF ~OnCurve(r) THEN Err(InvalidR)
  ELSE LET rs_zg == affine_sub(mul_by_bits(FullR(r, v), s), mul_by_bits(GENERATOR, message))
       IN  Ok(mul_by_bits(rs_zg, mod_inverse(r)).x)

\* Every seed, starting without one, has its draws; a seed whose k is invalid
\* is followed by the next.
ecdsa_sign(private_key, message_hash, draws) ==
  LET results == [seed \in DOMAIN draws |->
                    sign(private_key, message_hash, generate_k(draws[seed]))]
  IN  SelectSeq(results, LAMBDA r : r.ok \/ r.error # InvalidK)[1]

ecdsa_verify(public_key, message_hash, signature) ==
  verify(public_key, message_hash, signature.r, signature.s)

\* verify of src/utils/crypto_uitls.rs.
verified(stark_key, msg_hash, signature) ==
  LET result == ecdsa_verify(stark_key, msg_hash, signature) IN result.ok /\ result.value

-----------------------------------------------------------------------------
Keys == 1..(EC_ORDER - 1)

\* Whether one of the seeds gives a valid k.
Signs(private_key, message, draws) ==
  \E seed \in DOMAIN draws :
    LET r == sign(private_key, message, generate_k(draws[seed]))
    IN  r.ok \/ r.error # InvalidK

(***************************************************************************)
(* Whatever k the seeds lead to, the signature of a message that is not    *)
(* zero verifies under the signer's key, unless verify refuses its s: sign *)
(* does not look at the inverse of s, which can be beyond the bound.  The  *)
(* message zero does not verify on the curve of the model: its multiple of *)
(* the generator loses its flag and is added as a point off the curve.     *)
(***************************************************************************)
SignatureVerifies(private_key, message, draws) ==
  Signs(private_key, message, draws) =>
    LET signed == ecdsa_sign(private_key, message, draws)
    IN  IF message >= ELEMENT_UPPER_BOUND THEN ~signed.ok
        ELSE verified(get_public_key(private_key), message, signed.value) <=>
               message # 0 /\ mod_inverse(signed.value.s) < ELEMENT_UPPER_BOUND

(***************************************************************************)
(* The parity in a signature tells its two candidate keys apart: recover   *)
(* returns the signer's.                                                   *)
(***************************************************************************)
RecoverReturnsKey(private_key, message, draws) ==
  Signs(private_key, message, draws) /\ message \in 1..(ELEMENT_UPPER_BOUND - 1) =>
    LET signed == ecdsa_sign(private_key, message, draws).value
    IN  recover(message, signed.r, signed.s, signed.v) = Ok(get_public_key(private_key))
=============================================================================
