------------------------------ MODULE CairoStrings ------------------------------
(***************************************************************************)
(* Short strings, selectors and addresses of starknet-core/src/utils.rs: a *)
(* short string is packed into one field element, a character in a byte,   *)
(* and what is derived from a name is a hash that is cut to the field or   *)
(* to the addresses.  A string is a sequence of character codes.           *)
(***************************************************************************)
EXTENDS FieldElement

CONSTANTS
  ADDR_BOUND,               \* 2^251 - 256
  CONTRACT_ADDRESS_PREFIX,
  DefaultNames,             \* "__default__" and "__l1_default__"
  Keccak256(_),             \* as many bytes as a field element has
  pedersen_hash(_, _)

Bytes == Nibbles \div 2

is_ascii(str) == \A k \in DOMAIN str : str[k] < 128

\* One character less than there are bytes, so that every string is below P.
cairo_short_string_to_felt(str) ==
  IF ~is_ascii(str) THEN Err("NonAsciiCharacter")
  ELSE IF Len(str) > Bytes - 1 THEN Err("StringTooLong")
  ELSE from_byte_slice_be([k \in 1..(Bytes - Len(str)) |-> 0] \o str)

\* Zero bytes may only come before the first character; characters need not
\* be ASCII.
buffers(be_bytes) ==
  LET buffer[k \in 0..Len(be_bytes)] ==
        IF k = 0 THEN Ok(<<>>)
        ELSE IF ~buffer[k - 1].ok THEN buffer[k - 1]
        ELSE IF be_bytes[k] # 0 THEN Ok(Append(buffer[k - 1].value, be_bytes[k]))
        ELSE IF buffer[k - 1].value # <<>> THEN Err("UnexpectedNullTerminator")
        ELSE buffer[k - 1]
  IN  buffer

parse_cairo_short_string(felt) ==
  IF felt = 0 THEN Ok(<<>>)
  ELSE IF to_bytes_be(felt)[1] > 0 THEN Err("ValueOutOfRange")
  ELSE buffers(to_bytes_be(felt))[Bytes]

\* The first six bits are removed.  The result is unwrapped.
starknet_keccak(data) == from_byte_slice_be([Keccak256(data) EXCEPT ![1] = @ % 4])

get_selector_from_name(func_name) ==
  IF func_name \in DefaultNames THEN Ok(0)
  ELSE IF is_ascii(func_name) THEN starknet_keccak(func_name)
  ELSE Err("NonAsciiNameError")

normalize_address(address) == rem(address, ADDR_BOUND)

\* One element after the other is hashed onto the first.
hashes(first, data) ==
  LET current[k \in 0..Len(data)] ==
        IF k = 0 THEN first ELSE pedersen_hash(current[k - 1], data[k])
  IN  current

get_storage_var_address(var_name, args) ==
  IF ~is_ascii(var_name) THEN Err("NonAsciiNameError")
  ELSE Ok(normalize_address(hashes(starknet_keccak(var_name).value, args)[Len(args)]))

compute_hash_on_elements(data) == pedersen_hash(hashes(0, data)[Len(data)], Len(data))

get_contract_address(salt, class_hash, constructor_calldata, deployer_address) ==
  normalize_address(compute_hash_on_elements(
    <<CONTRACT_ADDRESS_PREFIX, deployer_address, salt, class_hash,
      compute_hash_on_elements(constructor_calldata)>>))

\* The copy in starknet-accounts, for accounts that deploy themselves.
calculate_contract_address(salt, class_hash, constructor_calldata) ==
  rem(compute_hash_on_elements(
        <<CONTRACT_ADDRESS_PREFIX, 0, salt, class_hash,
          compute_hash_on_elements(constructor_calldata)>>), ADDR_BOUND)

-----------------------------------------------------------------------------
(***************************************************************************)
(* A short string is read back as it was packed.  NUL is an ASCII          *)
(* character, and the exception: in front of a string it is forgotten, and *)
(* after another character it makes the element unreadable.                *)
(***************************************************************************)
StringReadBack(str) ==
  LET felt == cairo_short_string_to_felt(str)
      read == parse_cairo_short_string(felt.value)
  IN  /\ felt.ok <=> is_ascii(str) /\ Len(str) < Bytes
      /\ felt.ok =>
           /\ read.ok <=> \A i, j \in DOMAIN str : i < j /\ str[i] # 0 => str[j] # 0
           /\ read.ok => \E n \in 0..Len(str) :
                           /\ \A i \in 1..n : str[i] = 0
                           /\ read.value = SubSeq(str, n + 1, Len(str))
                           /\ n < Len(str) => str[n + 1] # 0

(***************************************************************************)
(* An element that reads as an ASCII string is packed to itself again.     *)
(***************************************************************************)
FeltReadBack(felt) ==
  LET read == parse_cairo_short_string(felt)
  IN  read.ok /\ is_ascii(read.value) => cairo_short_string_to_felt(read.value) = Ok(felt)

(***************************************************************************)
(* What is derived from a name is in range, so that no unwrap panics: a    *)
(* selector fits the field, a variable and a contract lie at an address,   *)
(* and both crates compute the same address for an account.                *)
(***************************************************************************)
DerivedInRange(name, args) ==
  LET selector == get_selector_from_name(name)
      variable == get_storage_var_address(name, args)
      salt == Number(name, 256) % P
  IN  /\ is_ascii(name) => starknet_keccak(name).ok
      /\ selector.ok <=> is_ascii(name) \/ name \in DefaultNames
      /\ variable.ok <=> is_ascii(name)
      /\ variable.ok => variable.value \in 0..(ADDR_BOUND - 1)
      /\ \A deployer \in {0, 1} :
           get_contract_address(salt, 1, args, deployer) \in 0..(ADDR_BOUND - 1)
      /\ get_contract_address(salt, 1, args, 0) = calculate_contract_address(salt, 1, args)
=============================================================================
