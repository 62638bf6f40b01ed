-------------------------------- MODULE Poseidon --------------------------------
(***************************************************************************)
(* The Poseidon hash of starknet-crypto/src/poseidon_hash.rs, with the     *)
(* round keys that starknet-crypto-codegen/src/poseidon/mod.rs compresses: *)
(* in a partial round only the last element of the state is cubed, and the *)
(* keys of the other two are moved through the linear layer into the       *)
(* rounds that follow.                                                     *)
(***************************************************************************)
EXTENDS FieldElement

CONSTANTS
  FULL_ROUNDS, PARTIAL_ROUNDS    \* 8 and 83

ASSUME PoseidonAssumption ==
  FULL_ROUNDS \in Nat /\ FULL_ROUNDS % 2 = 0 /\ FULL_ROUNDS > 0 /\ PARTIAL_ROUNDS \in Nat

\* RAW_ROUND_KEYS of params.rs: a triple for every round.
ALL_ROUNDS == FULL_ROUNDS + PARTIAL_ROUNDS

Rounds == 1..ALL_ROUNDS

HALF == FULL_ROUNDS \div 2

Plus(state, key) == [i \in 1..3 |-> state[i] ++ key[i]]

cube(x) == x ** x ** x

mix(state) ==
  LET t == state[1] ++ state[2] ++ state[3]
  IN  <<t ++ 2 ** state[1], t -- 2 ** state[2], t -- 3 ** state[3]>>

-----------------------------------------------------------------------------
(***************************************************************************)
(* compress_roundkeys: a key of one element for every partial round, and   *)
(* what is left of their keys in the first of the last full rounds.        *)
(***************************************************************************)
\* What is left is forgotten.
compress_roundkeys_partial_forgets(rcs) ==
  [i \in 1..(PARTIAL_ROUNDS + 3) |->
     IF i <= PARTIAL_ROUNDS THEN rcs[HALF + i][3]
     ELSE rcs[HALF + PARTIAL_ROUNDS + 1][i - PARTIAL_ROUNDS]]

moved_keys(rcs) ==
  LET state[i \in 1..(PARTIAL_ROUNDS + 1)] ==
        LET before == IF i = 1 THEN <<0, 0, 0>> ELSE mix([state[i - 1] EXCEPT ![3] = 0])
        IN  Plus(before, rcs[HALF + i])
  IN  state

compress_roundkeys_partial(rcs) ==
  [i \in 1..(PARTIAL_ROUNDS + 3) |->
     IF i <= PARTIAL_ROUNDS THEN moved_keys(rcs)[i][3]
     ELSE moved_keys(rcs)[PARTIAL_ROUNDS + 1][i - PARTIAL_ROUNDS]]

Flat(triples) ==
  [k \in 1..(3 * Len(triples)) |-> triples[(k - 1) \div 3 + 1][((k - 1) % 3) + 1]]

compress_roundkeys(rcs) ==
  Flat(SubSeq(rcs, 1, HALF))
    \o compress_roundkeys_partial(rcs)
    \o Flat(SubSeq(rcs, HALF + PARTIAL_ROUNDS + 2, Len(rcs)))

round_comp(state, consts, idx, full) ==
  mix(IF full THEN [i \in 1..3 |-> cube(state[i] ++ consts[idx + i])]
      ELSE [state EXCEPT ![3] = cube(@ ++ consts[idx + 1])])

\* The index of the first key of a round, counted from zero.
KeyIndex(r) ==
  IF r <= HALF + 1 THEN 3 * (r - 1)
  ELSE IF r <= HALF + PARTIAL_ROUNDS + 1 THEN 3 * HALF + (r - 1 - HALF)
  ELSE 3 * (r - 1) - 2 * PARTIAL_ROUNDS

FullRound(r) == r <= HALF \/ r > HALF + PARTIAL_ROUNDS

rounds_comp(state, consts) ==
  LET after[r \in 0..ALL_ROUNDS] ==
        IF r = 0 THEN state ELSE round_comp(after[r - 1], consts, KeyIndex(r), FullRound(r))
  IN  after

poseidon_permute_comp(state, consts) == rounds_comp(state, consts)[ALL_ROUNDS]

-----------------------------------------------------------------------------
(***************************************************************************)
(* The hashes.                                                             *)
(***************************************************************************)
hash_pairs(msgs, consts) ==
  LET state[k \in 0..(Len(msgs) \div 2)] ==
        IF k = 0 THEN <<0, 0, 0>>
        ELSE poseidon_permute_comp(Plus(state[k - 1], <<msgs[2 * k - 1], msgs[2 * k], 0>>), consts)
  IN  state

poseidon_hash_many(msgs, consts) ==
  LET last == IF Len(msgs) % 2 = 1 THEN <<msgs[Len(msgs)], 1, 0>> ELSE <<1, 0, 0>>
  IN  poseidon_permute_comp(Plus(hash_pairs(msgs, consts)[Len(msgs) \div 2], last), consts)[1]

\* PoseidonHasher: buffer is empty or holds one message.
NewHasher == [state |-> <<0, 0, 0>>, buffer |-> <<>>]

\* The message in the buffer stays there.
update_kept(h, msg, consts) ==
  IF h.buffer = <<>> THEN [h EXCEPT !.buffer = <<msg>>]
  ELSE [h EXCEPT !.state = poseidon_permute_comp(Plus(h.state, <<h.buffer[1], msg, 0>>), consts)]

update(h, msg, consts) ==
  IF h.buffer = <<>> THEN [h EXCEPT !.buffer = <<msg>>]
  ELSE [state  |-> poseidon_permute_comp(Plus(h.state, <<h.buffer[1], msg, 0>>), consts),
        buffer |-> <<>>]

finalize(h, consts) ==
  LET last == IF h.buffer = <<>> THEN <<1, 0, 0>> ELSE <<h.buffer[1], 1, 0>>
  IN  poseidon_permute_comp(Plus(h.state, last), consts)[1]

-----------------------------------------------------------------------------
\* The permutation as it is defined: every round adds its three keys.
KeyedRound(state, key, full) ==
  LET k == Plus(state, key)
  IN  mix(IF full THEN [i \in 1..3 |-> cube(k[i])] ELSE [k EXCEPT ![3] = cube(@)])

KeyedRounds(state, rcs) ==
  LET after[r \in 0..ALL_ROUNDS] ==
        IF r = 0 THEN state ELSE KeyedRound(after[r - 1], rcs[r], FullRound(r))
  IN  after

Permutation(state, rcs) == KeyedRounds(state, rcs)[ALL_ROUNDS]

(***************************************************************************)
(* Compressing the round keys does not change the permutation.             *)
(***************************************************************************)
CompressedAgrees(state, rcs) ==
  poseidon_permute_comp(state, compress_roundkeys(rcs)) = Permutation(state, rcs)

(***************************************************************************)
(* "Using this hasher is the same as calling poseidon_hash_many": for      *)
(* every number of messages.                                               *)
(***************************************************************************)
Hashers(msgs, consts) ==
  LET hasher[n \in 0..Len(msgs)] ==
        IF n = 0 THEN NewHasher ELSE update(hasher[n - 1], msgs[n], consts)
  IN  hasher

HasherAgrees(msgs, rcs) ==
  LET consts == compress_roundkeys(rcs)
  IN  finalize(Hashers(msgs, consts)[Len(msgs)], consts) = poseidon_hash_many(msgs, consts)
=============================================================================
