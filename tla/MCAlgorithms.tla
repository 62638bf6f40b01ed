------------------------------ MODULE MCAlgorithms ------------------------------
(* Model for TLC: the inputs of the algorithms, those of the curve and of    *)
(* the calls of providers included, and what is said of their values.        *)
EXTENDS Algorithms, Ecdsa, Pedersen, TLC

(* Trees of depth 4 in chunks of four, and a hash is a term.                 *)
Pair(a, b) == <<a, b>>

MCZero == <<0>>

TreeInputs == [kind : {"tree"}, leaves : {[k \in 1..n |-> <<k>>] : n \in 1..16}]

-----------------------------------------------------------------------------
(* Three models, two labels of one test problem. *)
Evaluation(a, b) == [evaluations |-> <<<<a, b>>>>, num_test_problems |-> 1, class_confidence |-> 2]

Evaluations == {Evaluation(0, 2), Evaluation(1, 1), Evaluation(2, 1)}

VerificationLists ==
  UNION {[1..n -> Evaluations] : n \in 0..2} \union
  {<<Evaluation(0, 2), Evaluation(1, 1), Evaluation(2, 1)>>,
   <<Evaluation(0, 2), Evaluation(1, 1), Evaluation(2, 1), Evaluation(1, 1)>>}

RankingInputs ==
  {[kind |-> "ranking",
    problem |-> [model_ids |-> <<7, 5, 6>>, verifications |-> v, real_results |-> <<<<1, 2>>>>]] :
     v \in [1..3 -> VerificationLists]}

-----------------------------------------------------------------------------
(* The curve y^2 = x^3 + x + 19 over 23 elements has 19 points; 16 is below *)
(* the order and the order below the prime, as in the curve of the code.    *)
MCPoint(x) == from_x(x)

XOfPoints == {x \in Field : OnCurve(x)}

MCGenerator == from_x(CHOOSE x \in XOfPoints : TRUE)

MCShiftPoint == Multiple(MCGenerator, 5)

MCBase == <<MCGenerator, Multiple(MCGenerator, 7), Multiple(MCGenerator, 4),
            Multiple(MCGenerator, 11)>>

\* A character that is no digit is 99.
TextInputs ==
  {[kind |-> "text", text |-> s] :
     s \in UNION {[1..n -> {0, 1, 2, 3, 5, 6, 9, 15, 99}] : n \in 0..4}}

NumberInputs == [kind : {"number"}, a : Field, b : Field]

ScalarInputs == [kind : {"scalar"}, point : Points, k : Field]

\* A draw out of range, one in range, and another for the next seed.
SignInputs ==
  {[kind |-> "sign", key |-> d, message |-> m,
    draws |-> <<<<EC_ORDER, k>>, <<0, (k % (EC_ORDER - 1)) + 1>>>>] :
     d \in Keys, m \in Field, k \in Keys}

HashInputs == [kind : {"pedersen"}, x : Field, y : Field]

MCRoundKeys ==
  [r \in Rounds |-> <<(5 * r + 1) % P, (r * r + 3) % P, (7 * r * r + r) % P>>]

PoseidonInputs == [kind : {"state"}, state : [1..3 -> 0..7]]

MessageInputs == [kind : {"messages"}, msgs : UNION {[1..n -> 0..4] : n \in 0..5}]

-----------------------------------------------------------------------------
(* Calls of a provider and what a node may answer; felts, blocks and         *)
(* transactions are names and small records.                                 *)
Providers == INSTANCE ProviderAgreement

Blocks == {Providers!Latest, Providers!Pending, Providers!BlockHash("h"),
           Providers!BlockNumber("n")}

Signed == [max_fee |-> "fee", signature |-> "sig", nonce |-> "nonce"]
Transactions ==
  {Signed @@ [type |-> "INVOKE_FUNCTION", sender_address |-> "a", calldata |-> "d"],
   Signed @@ [type |-> "DECLARE_V1", sender_address |-> "a",
              contract_class |-> Providers!Compressed("c")],
   Signed @@ [type |-> "DECLARE_V2", sender_address |-> "a",
              contract_class |-> Providers!Compressed("c"), compiled_class_hash |-> "h"],
   Signed @@ [type |-> "DEPLOY_ACCOUNT", class_hash |-> "c",
              contract_address_salt |-> "s", constructor_calldata |-> "d"]}

CallFunction ==
  [contract_address |-> "a", entry_point_selector |-> "e", calldata |-> "d"]

CallsOf(ops, args) == {Providers!CallOf(op, a) : op \in ops, a \in args}

ProviderCalls ==
  UNION
  {CallsOf({"get_contract_addresses", "get_last_batch_id", "get_l1_blockchain_id"}, {<<>>}),
   CallsOf({"add_transaction"}, [tx : Transactions]),
   CallsOf({"estimate_fee", "simulate_transaction"},
           [tx : Transactions, block : Blocks, skip_validate : BOOLEAN]),
   CallsOf({"estimate_fee_bulk"},
           [txs : {<<t, t>> : t \in Transactions}, block : Blocks, skip_validate : BOOLEAN]),
   CallsOf({"estimate_message_fee"}, [call_l1_handler : {"l1"}, block : Blocks]),
   CallsOf({"call_contract"}, [call_function : {CallFunction}, block : Blocks]),
   CallsOf({"get_block", "get_block_traces", "get_state_update"}, [block : Blocks]),
   CallsOf({"get_code", "get_full_contract", "get_class_hash_at", "get_nonce"},
           [contract : {"a"}, block : Blocks]),
   CallsOf({"get_compiled_class_by_class_hash", "get_class_by_hash"},
           [class : {"c"}, block : Blocks]),
   CallsOf({"get_storage_at"}, [contract : {"a"}, key : {"k"}, block : Blocks]),
   CallsOf({"get_transaction_status", "get_transaction", "get_transaction_receipt",
            "get_transaction_trace", "get_block_id_by_hash", "get_transaction_id_by_hash"},
           [hash : {"t"}]),
   CallsOf({"get_block_hash_by_id", "get_transaction_hash_by_id"}, [number : {"n"}])}

DirectCalls ==
  CallsOf({"block_with_tx_hashes", "block_with_txs", "state_update", "transaction_by_index",
           "class", "class_hash_at", "class_at", "transaction_count"}, [block : Blocks])

DirectArgs(op) ==
  CASE op = "transaction_by_index" -> {"block", "index"}
    [] op = "class" -> {"block", "class"}
    [] op \in {"class_hash_at", "class_at"} -> {"block", "contract"}
    [] OTHER -> {"block"}
DirectValue(name, block) == IF name = "block" THEN block ELSE name

(* What the operations of both interfaces promise; elsewhere any answer.     *)
Promised(c) ==
  CASE c.op = "estimate_fee" -> {[fee |-> 3, gas_price |-> 1, gas |-> 3]}
    [] c.op = "add_transaction" ->
         {[transaction_hash |-> "t",
           address |-> IF c.args.tx.type = "DEPLOY_ACCOUNT" THEN <<"a">> ELSE <<>>,
           class_hash |-> IF c.args.tx.type \in {"DECLARE_V1", "DECLARE_V2"}
                          THEN <<"c">> ELSE <<>>]}
    [] c.op = "get_transaction_status" ->
         {[block_hash |-> <<"h">>, status |-> "ACCEPTED_ON_L2"],
          [block_hash |-> <<>>, status |-> "PENDING"],
          [block_hash |-> <<>>, status |-> "NOT_RECEIVED"]}
    [] c.op = "get_code" -> {[bytecode |-> code, abi |-> "[]"] : code \in {<<>>, <<"b">>}}
    [] OTHER -> {[felt |-> "f"]}

Outcomes(c) ==
  {Providers!Ok(v) : v \in Promised(c)} \union
  {Providers!Err(why) : why \in {"no_contract", "no_block", "no_class"}}

ProviderInputs ==
  UNION {[kind : {"provider"}, asked : {c}, outcome : Outcomes(c)] : c \in ProviderCalls}

DirectInputs == [kind : {"direct"}, asked : DirectCalls]

-----------------------------------------------------------------------------
(* Strings of two characters in elements of three bytes, the first at most 8 *)
(* as in the field of the code; 65 and 66 are letters, 200 is not ASCII.     *)
MCKeccak(data) == [k \in 1..3 |-> (251 * Number(data, 256) + 89 * k) % 256]
MCPedersen(a, b) == (31 * a + 17 * b + 524000) % 524305

Strings == INSTANCE CairoStrings WITH
  P <- 524305, Nibbles <- 6, ADDR_BOUND <- 524032, CONTRACT_ADDRESS_PREFIX <- 1729,
  DefaultNames <- {<<95, 95>>}, Keccak256 <- MCKeccak, pedersen_hash <- MCPedersen

MCStrings == UNION {[1..n -> {0, 65, 66, 127, 200}] : n \in 0..3}
StringInputs == [kind : {"string"}, str : MCStrings \union {<<95, 95>>}]

FeltInputs ==
  [kind : {"felt"},
   felt : {65536 * a + 256 * b + c : a \in {0, 1, 7}, b \in {0, 65, 200}, c \in {0, 1, 66, 255}}]

-----------------------------------------------------------------------------
(* Contract classes, with hashes and texts as terms.                         *)
Classes == INSTANCE ClassHashes WITH
  Zero <- <<"zero">>,
  pedersen_hash <- LAMBDA a, b : <<"pedersen", a, b>>,
  poseidon_hash_many <- LAMBDA msgs : <<"poseidon", msgs>>,
  normalize_address <- LAMBDA hash : <<"address", hash>>,
  starknet_keccak <- LAMBDA text : <<"keccak", text>>,
  to_string_pythonic <- LAMBDA value : <<"text", value>>,
  cairo_short_string_to_felt <-
    LAMBDA str : IF str = "too long" THEN Err("StringTooLong") ELSE Ok(<<"string", str>>)

Felt(name) == <<"felt", name>>

\* The first two of the lists also in the other two places.
EntryPoints(lists) ==
  [external : ToSet(lists), l1_handler : {lists[1], lists[2]}, constructor : {lists[1], lists[2]}]

SierraEntry(selector, idx) == [selector |-> Felt(selector), function_idx |-> idx]
SierraClasses ==
  [sierra_program : {<<>>, <<Felt("a")>>, <<Felt("a"), Felt("b")>>},
   sierra_program_debug_info : {"names"}, contract_class_version : {"0.1.0", "0.2.0"},
   entry_points_by_type :
     EntryPoints(<<<<>>, <<SierraEntry("f", 0)>>, <<SierraEntry("f", 0), SierraEntry("g", 1)>>>>),
   abi : {"x", "y"}]

CompiledEntry(selector, builtins) ==
  [selector |-> Felt(selector), offset |-> 0, builtins |-> builtins]
CompiledClasses ==
  [bytecode : {<<>>, <<Felt("a")>>}, hints : {"h", "i"},
   entry_points_by_type :
     EntryPoints(<<<<>>, <<CompiledEntry("f", <<"range_check">>)>>, <<CompiledEntry("f", <<>>)>>,
                   <<CompiledEntry("f", <<>>), CompiledEntry("g", <<"range_check">>)>>,
                   <<CompiledEntry("f", <<"range_check", "too long">>)>>>>)]

LegacyEntry(as, value) == [selector |-> Felt("f"), offset |-> [as |-> as, value |-> value]]
LegacyClasses ==
  [abi : {"x"},
   entry_points_by_type :
     EntryPoints(<<<<>>, <<LegacyEntry("hex", 1)>>, <<LegacyEntry("int", 1), LegacyEntry("int", 2)>>,
                   <<LegacyEntry("hex", 1), LegacyEntry("int", 2)>>>>),
   program : [attributes : {<<>>, <<<<>>>>, <<<<"attribute">>>>},
              builtins : {<<>>, <<"pedersen">>, <<"too long">>},
              data : {<<Felt("a")>>}, debug_info : {<<>>}] \union
             [attributes : {<<>>}, builtins : {<<>>}, debug_info : {<<>>, <<"places">>},
              data : {<<>>, <<Felt("a")>>, <<Felt("a"), Felt("b")>>}]]

ClassInputs == [kind : {"classes"}, of : {"sierra", "compiled", "legacy"}]

-----------------------------------------------------------------------------
MCInputs ==
  StringInputs \union FeltInputs \union ClassInputs \union ProviderInputs \union DirectInputs \union
  TreeInputs \union RankingInputs \union TextInputs \union NumberInputs \union
  ScalarInputs \union SignInputs \union HashInputs \union PoseidonInputs \union MessageInputs

-----------------------------------------------------------------------------
(* Whichever provider of AnyProvider a program runs with, the node gets the  *)
(* call the program made, at the same block and with the same transaction,   *)
(* and the program gets the same value, or the same error for a contract, a  *)
(* block or a class that is not there; or it is told that JSON-RPC does not  *)
(* support the method, and nothing is sent.                                  *)
ProvidersAgree ==
  /\ Of("provider") =>
       LET c == input.asked
       IN  /\ \A p \in Providers!Variants : Providers!PutsTheCall(p, c.op, c.args)
           /\ Providers!SameResult(c.op, c.args, input.outcome)
  /\ Of("direct") =>
       Providers!PutsDirectCall(input.asked.op,
         [name \in DirectArgs(input.asked.op) |-> DirectValue(name, input.asked.args.block)])

(* mul_by_bits, in projective coordinates, gives the k-fold sum of every     *)
(* point, for every scalar but the order of the curve.                       *)
ScalarsMultiply == Of("scalar") => ScalarMulAgrees(input.point, input.k)

(* ecdsa_sign, whatever k its seeds lead to, gives a signature that          *)
(* ecdsa_verify accepts under the signer's key, for every message but zero,  *)
(* unless the inverse of s, which sign does not look at, is out of bound;    *)
(* and recover returns the key from the signature and its parity.            *)
SignaturesVerify ==
  Of("sign") =>
    /\ SignatureVerifies(input.key, input.message, input.draws)
    /\ RecoverReturnsKey(input.key, input.message, input.draws)

(* pedersen_hash, with the generated tables, is the sum of multiples that    *)
(* defines the hash, whatever points the sum passes through.                 *)
PedersenDefined == Of("pedersen") => HashIsDefined(input.x, input.y)

(* A short string and its element are read back as each other, but for NUL,  *)
(* and selectors and addresses that are derived from a name are in range.    *)
(* The hashes of contract classes agree for the two forms of a Sierra class, *)
(* refuse no class but for the name of a builtin, and tell all classes apart *)
(* by their programs and entry points.                                       *)
NamesAndClassesTold ==
  /\ Of("string") =>
       Strings!StringReadBack(input.str) /\ Strings!DerivedInRange(input.str, input.str)
  /\ Of("felt") => Strings!FeltReadBack(input.felt)
  /\ Of("classes") =>
       CASE input.of = "sierra" -> Classes!SierraTold(SierraClasses)
         [] input.of = "compiled" -> Classes!CompiledTold(CompiledClasses)
         [] input.of = "legacy" -> Classes!LegacyTold(LegacyClasses)
=============================================================================
