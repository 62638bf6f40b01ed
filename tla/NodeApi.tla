------------------------------ MODULE NodeApi ------------------------------
(* The two interfaces of a Starknet node, as the clients of starknet-rs use  *)
(* them: which call a request means to the node, and how each interface      *)
(* words an answer.  A call is an operation with its arguments by name.      *)
(* All of it is outside the repository.                                      *)
EXTENDS ProviderTypes, SequencesExt

CallOf(op, args) == [op |-> op, args |-> args]

(* The transaction that a submitted one stands for: classes are stored as    *)
(* they were before compression.                                             *)
Unpacked(tx) ==
  IF tx.type \in {"DECLARE_V1", "DECLARE_V2"}
  THEN [tx EXCEPT !.contract_class = tx.contract_class.gzip] ELSE tx

(* The feeder gateway takes its arguments from the query and the body.       *)
QueryName ==
  [contractAddress |-> "contract", classHash |-> "class", key |-> "key",
   transactionHash |-> "hash", blockId |-> "number", transactionId |-> "number",
   skipValidate |-> "skip_validate"]

BodyName ==
  [add_transaction |-> "tx", call_contract |-> "call_function",
   estimate_fee |-> "tx", estimate_fee_bulk |-> "txs",
   estimate_message_fee |-> "call_l1_handler", simulate_transaction |-> "tx"]

TakesBlock ==
  {"call_contract", "estimate_fee", "estimate_fee_bulk", "estimate_message_fee",
   "simulate_transaction", "get_block", "get_block_traces", "get_state_update",
   "get_code", "get_full_contract", "get_compiled_class_by_class_hash",
   "get_class_hash_at", "get_class_by_hash", "get_storage_at", "get_nonce"}

QueryBlock(query) ==
  IF "blockHash" \in DOMAIN query THEN BlockHash(query.blockHash)
  ELSE IF "blockNumber" \notin DOMAIN query THEN Latest
  ELSE IF query.blockNumber = "pending" THEN Pending ELSE BlockNumber(query.blockNumber)

QueryNames(query) == DOMAIN query \cap DOMAIN QueryName

QueryArg(query, arg) ==
  LET v == query[CHOOSE n \in QueryNames(query) : QueryName[n] = arg]
  IN  IF arg = "skip_validate" THEN v = "true" ELSE v

GatewayBody(op, body) ==
  CASE BodyName[op] = "tx" -> Unpacked(body)
    [] BodyName[op] = "txs" -> [i \in DOMAIN body |-> Unpacked(body[i])]
    [] OTHER -> body

GatewayReads(request) ==
  LET op == request.url[2]
      query == request.query
      inQuery == {QueryName[n] : n \in QueryNames(query)}
      inBody == IF request.verb = "POST" THEN {BodyName[op]} ELSE {}
      ofBlock == IF op \in TakesBlock THEN {"block"}
                 ELSE IF op = "get_block_id_by_hash" THEN {"hash"} ELSE {}
  IN  CallOf(op, [arg \in inQuery \union inBody \union ofBlock |->
                    CASE arg \in inQuery -> QueryArg(query, arg)
                      [] arg \in inBody -> GatewayBody(op, request.body)
                      [] arg = "block" -> QueryBlock(query)
                      [] arg = "hash" -> query.blockHash])

(* JSON-RPC takes them by position.                                          *)
RpcMethods ==
  [starknet_getStorageAt |-> CallOf("get_storage_at", <<"contract", "key", "block">>),
   starknet_getNonce |-> CallOf("get_nonce", <<"block", "contract">>),
   starknet_call |-> CallOf("call_contract", <<"call_function", "block">>),
   starknet_estimateFee |-> CallOf("estimate_fee", <<"tx", "block">>),
   starknet_getTransactionReceipt |-> CallOf("get_transaction_status", <<"hash">>),
   starknet_addInvokeTransaction |-> CallOf("add_transaction", <<"tx">>),
   starknet_addDeclareTransaction |-> CallOf("add_transaction", <<"tx">>),
   starknet_addDeployAccountTransaction |-> CallOf("add_transaction", <<"tx">>),
   starknet_getBlockWithTxHashes |-> CallOf("block_with_tx_hashes", <<"block">>),
   starknet_getBlockWithTxs |-> CallOf("block_with_txs", <<"block">>),
   starknet_getStateUpdate |-> CallOf("state_update", <<"block">>),
   starknet_getTransactionByHash |-> CallOf("transaction_by_hash", <<"hash">>),
   starknet_getTransactionByBlockIdAndIndex |->
     CallOf("transaction_by_index", <<"block", "index">>),
   starknet_getClass |-> CallOf("class", <<"block", "class">>),
   starknet_getClassHashAt |-> CallOf("class_hash_at", <<"block", "contract">>),
   starknet_getClassAt |-> CallOf("class_at", <<"block", "contract">>),
   starknet_getBlockTransactionCount |-> CallOf("transaction_count", <<"block">>)]

RpcBlock(b) ==
  IF "block_hash" \in DOMAIN b THEN BlockHash(b.block_hash)
  ELSE IF "block_number" \in DOMAIN b THEN BlockNumber(b.block_number)
  ELSE IF b.tag = "pending" THEN Pending ELSE Latest

RpcTx(tx) ==
  CASE tx.type = "INVOKE_V1" -> [tx EXCEPT !.type = "INVOKE_FUNCTION"]
    [] tx.type = "DEPLOY_ACCOUNT" -> [f \in DOMAIN tx \ {"version"} |-> tx[f]]
    [] tx.type = "DECLARE_V1" -> Unpacked(tx)
    [] tx.type = "DECLARE_V2" -> tx

RpcReads(request) ==
  LET method == RpcMethods[request.method]
      Value(i) == CASE method.args[i] = "block" -> RpcBlock(request.params[i])
                    [] method.args[i] = "tx" -> RpcTx(request.params[i])
                    [] OTHER -> request.params[i]
  IN  CallOf(method.op,
        [name \in ToSet(method.args) |->
           Value(CHOOSE i \in DOMAIN method.args : method.args[i] = name)])

(* Why a node refuses a call, in the words of each interface.                *)
GatewayRefusal ==
  [no_contract |-> "UninitializedContract", no_block |-> "BlockNotFound",
   no_class |-> "UndeclaredClass", bad_nonce |-> "InvalidTransactionNonce",
   failed |-> "TransactionFailed"]
RpcRefusal ==
  [no_contract |-> 20, no_block |-> 24, no_class |-> 28, bad_nonce |-> 1, failed |-> 40]

(* The data of an answer in each interface: v has the fields that the        *)
(* operation promises, an option being a sequence of at most one value.      *)
GatewayData(op, v) ==
  CASE op = "call_contract" -> [result |-> v]
    [] op = "estimate_fee" ->
         [overall_fee |-> v.fee, unit |-> "wei", gas_price |-> v.gas_price,
          gas_usage |-> v.gas]
    [] op = "add_transaction" ->
         [code |-> "TRANSACTION_RECEIVED", transaction_hash |-> v.transaction_hash,
          address |-> v.address, class_hash |-> v.class_hash]
    [] op = "get_code" ->
         IF v.bytecode = <<>> THEN [v EXCEPT !.abi = "{}"] ELSE v
    [] op = "get_transaction_status" ->
         [block_hash |-> v.block_hash, status |-> v.status,
          transaction_failure_reason |-> <<>>]
    [] OTHER -> v

RpcAdded(v) ==
  LET given == (IF v.address = <<>> THEN {} ELSE {"contract_address"}) \union
               (IF v.class_hash = <<>> THEN {} ELSE {"class_hash"})
  IN  [field \in {"transaction_hash"} \union given |->
         CASE field = "transaction_hash" -> v.transaction_hash
           [] field = "contract_address" -> v.address[1]
           [] field = "class_hash" -> v.class_hash[1]]

RpcData(op, v) ==
  CASE op = "estimate_fee" ->
         [overall_fee |-> v.fee, gas_price |-> v.gas_price, gas_consumed |-> v.gas]
    [] op = "add_transaction" -> RpcAdded(v)
    [] op = "get_transaction_status" ->
         IF v.block_hash = <<>> THEN [pending |-> TRUE]
         ELSE [pending |-> FALSE, block_hash |-> v.block_hash[1], status |-> v.status]
    [] OTHER -> v

(* JSON-RPC has no receipt for a transaction that the node does not know.    *)
RpcUnknownTransaction(op, v) ==
  op = "get_transaction_status" /\ v.status = "NOT_RECEIVED"

RpcResponse(op, outcome) ==
  IF ~outcome.ok THEN NodeError(RpcRefusal[outcome.error])
  ELSE IF RpcUnknownTransaction(op, outcome.value) THEN NodeError(25)
  ELSE Data(RpcData(op, outcome.value))
GatewayResponse(op, outcome) ==
  IF ~outcome.ok THEN NodeError(GatewayRefusal[outcome.error])
  ELSE Data(GatewayData(op, outcome.value))
============================================================================
