------------------------------ MODULE ClassHashes ------------------------------
(***************************************************************************)
(* The hashes of contract classes in starknet-core/src/types/contract: a   *)
(* class that was compiled to Sierra, the same with its ABI as text, the   *)
(* compiled class, and a legacy class.  An account signs the hash, and the *)
(* network knows the class by it, so that it must tell apart all classes   *)
(* that do different things.                                               *)
(***************************************************************************)
EXTENDS Naturals, Sequences, SequencesExt

CONSTANTS
  Zero,
  pedersen_hash(_, _), poseidon_hash_many(_), normalize_address(_),
  starknet_keccak(_),             \* of a text
  to_string_pythonic(_),          \* the text of a value
  cairo_short_string_to_felt(_)

HashOk(hash) == [ok |-> TRUE, value |-> hash]
InvalidBuiltinName == [ok |-> FALSE, error |-> "InvalidBuiltinName"]

-----------------------------------------------------------------------------
(* Sierra; PoseidonHasher gives the hash of all it was updated with.         *)
hash_sierra_entrypoints(entrypoints) ==
  poseidon_hash_many(
    FlattenSeq([i \in DOMAIN entrypoints |->
                  <<entrypoints[i].selector, entrypoints[i].function_idx>>]))

sierra_class_hash(class) ==
  normalize_address(poseidon_hash_many(
    <<"CONTRACT_CLASS_V0.1.0",
      hash_sierra_entrypoints(class.entry_points_by_type.external),
      hash_sierra_entrypoints(class.entry_points_by_type.l1_handler),
      hash_sierra_entrypoints(class.entry_points_by_type.constructor),
      starknet_keccak(to_string_pythonic(class.abi)),
      poseidon_hash_many(class.sierra_program)>>))

flatten(class) ==
  [sierra_program |-> class.sierra_program,
   contract_class_version |-> class.contract_class_version,
   entry_points_by_type |-> class.entry_points_by_type,
   abi |-> to_string_pythonic(class.abi)]

flattened_class_hash(class) ==
  normalize_address(poseidon_hash_many(
    <<"CONTRACT_CLASS_V0.1.0",
      hash_sierra_entrypoints(class.entry_points_by_type.external),
      hash_sierra_entrypoints(class.entry_points_by_type.l1_handler),
      hash_sierra_entrypoints(class.entry_points_by_type.constructor),
      starknet_keccak(class.abi),
      poseidon_hash_many(class.sierra_program)>>))

-----------------------------------------------------------------------------
(* Compiled classes.                                                         *)
Felts(names) == [k \in DOMAIN names |-> cairo_short_string_to_felt(names[k])]
Valid(names) == \A k \in DOMAIN names : Felts(names)[k].ok
Values(names) == [k \in DOMAIN names |-> Felts(names)[k].value]

hash_entrypoints(entrypoints) ==
  IF \E i \in DOMAIN entrypoints : ~Valid(entrypoints[i].builtins) THEN InvalidBuiltinName
  ELSE HashOk(poseidon_hash_many(
         FlattenSeq([i \in DOMAIN entrypoints |->
                       <<entrypoints[i].selector, entrypoints[i].offset,
                         poseidon_hash_many(Values(entrypoints[i].builtins))>>])))

compiled_class_hash(class) ==
  LET external == hash_entrypoints(class.entry_points_by_type.external)
      l1_handler == hash_entrypoints(class.entry_points_by_type.l1_handler)
      constructor == hash_entrypoints(class.entry_points_by_type.constructor)
  IN  IF ~(external.ok /\ l1_handler.ok /\ constructor.ok) THEN InvalidBuiltinName
      ELSE HashOk(poseidon_hash_many(
             <<"COMPILED_CLASS_V1", external.value, l1_handler.value, constructor.value,
               poseidon_hash_many(class.bytecode)>>))

-----------------------------------------------------------------------------
(* Legacy classes; options are sequences of one element or none.             *)
current_hashes(data) ==
  LET current[k \in 0..Len(data)] ==
        IF k = 0 THEN Zero ELSE pedersen_hash(current[k - 1], data[k])
  IN  current

compute_hash_on_elements(data) == pedersen_hash(current_hashes(data)[Len(data)], Len(data))

\* An offset was read from a number or from hexadecimal text.
OffsetOf(entrypoint) == entrypoint.offset.value

hash_legacy_entrypoints(entrypoints) ==
  compute_hash_on_elements(
    FlattenSeq([i \in DOMAIN entrypoints |->
                  <<entrypoints[i].selector, OffsetOf(entrypoints[i])>>]))

\* Debug information stays.
ProgramForHintedHash_with_places(program) ==
  [program EXCEPT !.attributes = IF @ = <<<<>>>> THEN <<>> ELSE @]

\* Debug information, and a list of no attributes, are as if they were absent.
ProgramForHintedHash(program) ==
  [program EXCEPT !.debug_info = <<>>,
                  !.attributes = IF @ = <<<<>>>> THEN <<>> ELSE @]

hinted_class_hash(class) ==
  starknet_keccak(to_string_pythonic(
    [abi |-> class.abi, program |-> ProgramForHintedHash(class.program)]))

legacy_class_hash(class) ==
  IF ~Valid(class.program.builtins) THEN InvalidBuiltinName
  ELSE HashOk(compute_hash_on_elements(
         <<Zero,
           hash_legacy_entrypoints(class.entry_points_by_type.external),
           hash_legacy_entrypoints(class.entry_points_by_type.l1_handler),
           hash_legacy_entrypoints(class.entry_points_by_type.constructor),
           compute_hash_on_elements(Values(class.program.builtins)),
           hinted_class_hash(class),
           compute_hash_on_elements(class.program.data)>>))

-----------------------------------------------------------------------------
(***************************************************************************)
(* A class keeps its hash when its ABI is written out, as before it is     *)
(* declared.                                                               *)
(***************************************************************************)
FlattenKeepsHash(class) == flattened_class_hash(flatten(class)) = sierra_class_hash(class)

(***************************************************************************)
(* Classes have the same hash if and only if they are the same in all that *)
(* the hash is meant to tell, if the hash functions do not collide.        *)
(***************************************************************************)
TellsApart(classes, hash(_), content(_)) ==
  LET hashes == [c \in classes |-> hash(c)]
      contents == [c \in classes |-> content(c)]
  IN  \A c, d \in classes : hashes[c] = hashes[d] <=> contents[c] = contents[d]

\* Not the version of the class, which the prefix stands for, nor what helps
\* to debug or to run it.
SierraContent(class) ==
  [class EXCEPT !.contract_class_version = "0.1.0", !.sierra_program_debug_info = "none"]

CompiledContent(class) == <<class.bytecode, class.entry_points_by_type>>

LegacyContent(class) ==
  LET plain(entrypoints) ==
        [i \in DOMAIN entrypoints |-> <<entrypoints[i].selector, OffsetOf(entrypoints[i])>>]
  IN  <<class.abi, [type \in DOMAIN class.entry_points_by_type |->
                      plain(class.entry_points_by_type[type])],
        class.program.builtins, class.program.data,
        IF class.program.attributes = <<>> THEN <<>> ELSE class.program.attributes[1]>>

ValidCompiled(class) ==
  \A type \in DOMAIN class.entry_points_by_type :
    LET entrypoints == class.entry_points_by_type[type]
    IN  \A i \in DOMAIN entrypoints : Valid(entrypoints[i].builtins)

(***************************************************************************)
(* The hash of a compiled or a legacy class is refused only for the name   *)
(* of a builtin, and otherwise tells the classes apart.                    *)
(***************************************************************************)
CompiledTold(classes) ==
  /\ \A c \in classes : compiled_class_hash(c).ok <=> ValidCompiled(c)
  /\ TellsApart({c \in classes : ValidCompiled(c)}, compiled_class_hash, CompiledContent)

LegacyTold(classes) ==
  LET valid == {c \in classes : Valid(c.program.builtins)}
  IN  /\ \A c \in classes : legacy_class_hash(c).ok <=> c \in valid
      /\ TellsApart(valid, legacy_class_hash, LegacyContent)

SierraTold(classes) ==
  /\ \A c \in classes : FlattenKeepsHash(c)
  /\ TellsApart(classes, sierra_class_hash, SierraContent)
=============================================================================
