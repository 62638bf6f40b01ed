------------------------- MODULE ProviderAgreement -------------------------
(* That a program may exchange one provider of AnyProvider for the other:    *)
(* both put the same call to the node, and read the same answer from it.     *)
EXTENDS AnyProvider, NodeApi

(* The method of the trait that a call names.                                *)
Asked(p, op, a) ==
  CASE op = "add_transaction" -> add_transaction(p, a.tx)
    [] op = "get_contract_addresses" -> get_contract_addresses(p)
    [] op = "call_contract" -> call_contract(p, a.call_function, a.block)
    [] op = "estimate_fee" -> estimate_fee(p, a.tx, a.block, a.skip_validate)
    [] op = "estimate_fee_bulk" -> estimate_fee_bulk(p, a.txs, a.block, a.skip_validate)
    [] op = "estimate_message_fee" -> estimate_message_fee(p, a.call_l1_handler, a.block)
    [] op = "simulate_transaction" ->
         simulate_transaction(p, a.tx, a.block, a.skip_validate)
    [] op = "get_block" -> get_block(p, a.block)
    [] op = "get_block_traces" -> get_block_traces(p, a.block)
    [] op = "get_state_update" -> get_state_update(p, a.block)
    [] op = "get_code" -> get_code(p, a.contract, a.block)
    [] op = "get_full_contract" -> get_full_contract(p, a.contract, a.block)
    [] op = "get_compiled_class_by_class_hash" ->
         get_compiled_class_by_class_hash(p, a.class, a.block)
    [] op = "get_class_hash_at" -> get_class_hash_at(p, a.contract, a.block)
    [] op = "get_class_by_hash" -> get_class_by_hash(p, a.class, a.block)
    [] op = "get_storage_at" -> get_storage_at(p, a.contract, a.key, a.block)
    [] op = "get_nonce" -> get_nonce(p, a.contract, a.block)
    [] op = "get_transaction_status" -> get_transaction_status(p, a.hash)
    [] op = "get_transaction" -> get_transaction(p, a.hash)
    [] op = "get_transaction_receipt" -> get_transaction_receipt(p, a.hash)
    [] op = "get_transaction_trace" -> get_transaction_trace(p, a.hash)
    [] op = "get_block_hash_by_id" -> get_block_hash_by_id(p, a.number)
    [] op = "get_block_id_by_hash" -> get_block_id_by_hash(p, a.hash)
    [] op = "get_transaction_hash_by_id" -> get_transaction_hash_by_id(p, a.number)
    [] op = "get_transaction_id_by_hash" -> get_transaction_id_by_hash(p, a.hash)
    [] op = "get_last_batch_id" -> get_last_batch_id(p)
    [] op = "get_l1_blockchain_id" -> get_l1_blockchain_id(p)

(* What a client of the JSON-RPC client may ask beside the trait.            *)
Direct(op, a) ==
  LET b == Rpc!BlockIdOf(a.block)
  IN  CASE op = "block_with_tx_hashes" -> Rpc!Client!get_block_with_tx_hashes(b)
        [] op = "block_with_txs" -> Rpc!Client!get_block_with_txs(b)
        [] op = "state_update" -> Rpc!Client!get_state_update(b)
        [] op = "transaction_by_index" ->
             Rpc!Client!get_transaction_by_block_id_and_index(b, a.index)
        [] op = "class" -> Rpc!Client!get_class(b, a.class)
        [] op = "class_hash_at" -> Rpc!Client!get_class_hash_at(b, a.contract)
        [] op = "class_at" -> Rpc!Client!get_class_at(b, a.contract)
        [] op = "transaction_count" -> Rpc!Client!get_block_transaction_count(b)

(* The call as the node of either interface means it.                        *)
NodeReads(p, request) ==
  IF p = JsonRpcHttp THEN RpcReads(request) ELSE GatewayReads(request)

NodeResponse(p, op, outcome) ==
  IF p = JsonRpcHttp THEN RpcResponse(op, outcome) ELSE GatewayResponse(op, outcome)

Named(a, name, Of(_)) ==
  IF name \in DOMAIN a THEN [a EXCEPT ![name] = Of(@)] ELSE a
UnpackedAll(txs) == [i \in DOMAIN txs |-> Unpacked(txs[i])]
Without(a, name) == [n \in DOMAIN a \ {name} |-> a[n]]

(* The call that reaches the node is the call that was made: same arguments, *)
(* same block, classes decompressed.                                         *)
PutsTheCall(p, op, a) ==
  LET ask == Asked(p, op, a)
      meant == Named(Named(a, "tx", Unpacked), "txs", UnpackedAll)
      said == IF p = JsonRpcHttp THEN Without(meant, "skip_validate") ELSE meant
  IN  ask.asks => NodeReads(p, ask.request) = CallOf(op, said)

PutsDirectCall(op, a) == RpcReads(Direct(op, a)) = CallOf(op, a)

(* The result of a method when the node answers with this outcome.           *)
ResultOf(p, op, a, outcome) ==
  received(p, Asked(p, op, a), NodeResponse(p, op, outcome))

(* Where JSON-RPC supports a method, both results are equal; where it does   *)
(* not, the caller is told so, and the gateway gives what the node said.     *)
SameResult(op, a, outcome) ==
  LET rpc == Asked(JsonRpcHttp, op, a)
      result == ResultOf(SequencerGateway, op, a, outcome)
  IN  IF rpc.asks THEN ResultOf(JsonRpcHttp, op, a, outcome) = result
      ELSE /\ received(JsonRpcHttp, rpc, Broken)
                = Err(Other(<<JsonRpcHttp, "NotSupported">>))
           /\ IF outcome.ok
              THEN result.value = IF op = "get_code" THEN outcome.value
                                  ELSE GatewayData(op, outcome.value)
              ELSE result.error.kind = "StarknetError"
============================================================================
