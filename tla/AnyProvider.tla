---------------------------- MODULE AnyProvider ----------------------------
(* AnyProvider of starknet-providers: a provider chosen when the program     *)
(* runs, p being its variant.                                                *)
EXTENDS ProviderTypes

Rpc == INSTANCE JsonRpcProvider
Gateway == INSTANCE Gateway

JsonRpcHttp == "JsonRpcHttp"
SequencerGateway == "SequencerGateway"
Variants == {JsonRpcHttp, SequencerGateway}

add_transaction(p, tx) ==
  IF p = JsonRpcHttp THEN Rpc!add_transaction(tx)
  ELSE Gateway!add_transaction(tx)
get_contract_addresses(p) ==
  IF p = JsonRpcHttp THEN Rpc!get_contract_addresses
  ELSE Gateway!get_contract_addresses
call_contract(p, call_function, block) ==
  IF p = JsonRpcHttp THEN Rpc!call_contract(call_function, block)
  ELSE Gateway!call_contract(call_function, block)
estimate_fee(p, tx, block, skip_validate) ==
  IF p = JsonRpcHttp THEN Rpc!estimate_fee(tx, block, skip_validate)
  ELSE Gateway!estimate_fee(tx, block, skip_validate)
estimate_fee_bulk(p, txs, block, skip_validate) ==
  IF p = JsonRpcHttp THEN Rpc!estimate_fee_bulk(txs, block, skip_validate)
  ELSE Gateway!estimate_fee_bulk(txs, block, skip_validate)
estimate_message_fee(p, call_l1_handler, block) ==
  IF p = JsonRpcHttp THEN Rpc!estimate_message_fee(call_l1_handler, block)
  ELSE Gateway!estimate_message_fee(call_l1_handler, block)
simulate_transaction(p, tx, block, skip_validate) ==
  IF p = JsonRpcHttp THEN Rpc!simulate_transaction(tx, block, skip_validate)
  ELSE Gateway!simulate_transaction(tx, block, skip_validate)
get_block(p, block) ==
  IF p = JsonRpcHttp THEN Rpc!get_block(block)
  ELSE Gateway!get_block(block)
get_block_traces(p, block) ==
  IF p = JsonRpcHttp THEN Rpc!get_block_traces(block)
  ELSE Gateway!get_block_traces(block)
get_state_update(p, block) ==
  IF p = JsonRpcHttp THEN Rpc!get_state_update(block)
  ELSE Gateway!get_state_update(block)
get_code(p, contract, block) ==
  IF p = JsonRpcHttp THEN Rpc!get_code(contract, block)
  ELSE Gateway!get_code(contract, block)
get_full_contract(p, contract, block) ==
  IF p = JsonRpcHttp THEN Rpc!get_full_contract(contract, block)
  ELSE Gateway!get_full_contract(contract, block)
get_compiled_class_by_class_hash(p, class, block) ==
  IF p = JsonRpcHttp THEN Rpc!get_compiled_class_by_class_hash(class, block)
  ELSE Gateway!get_compiled_class_by_class_hash(class, block)
get_class_hash_at(p, contract, block) ==
  IF p = JsonRpcHttp THEN Rpc!get_class_hash_at(contract, block)
  ELSE Gateway!get_class_hash_at(contract, block)
get_class_by_hash(p, class, block) ==
  IF p = JsonRpcHttp THEN Rpc!get_class_by_hash(class, block)
  ELSE Gateway!get_class_by_hash(class, block)
get_storage_at(p, contract, key, block) ==
  IF p = JsonRpcHttp THEN Rpc!get_storage_at(contract, key, block)
  ELSE Gateway!get_storage_at(contract, key, block)
get_nonce(p, contract, block) ==
  IF p = JsonRpcHttp THEN Rpc!get_nonce(contract, block)
  ELSE Gateway!get_nonce(contract, block)
get_transaction_status(p, hash) ==
  IF p = JsonRpcHttp THEN Rpc!get_transaction_status(hash)
  ELSE Gateway!get_transaction_status(hash)
get_transaction(p, hash) ==
  IF p = JsonRpcHttp THEN Rpc!get_transaction(hash)
  ELSE Gateway!get_transaction(hash)
get_transaction_receipt(p, hash) ==
  IF p = JsonRpcHttp THEN Rpc!get_transaction_receipt(hash)
  ELSE Gateway!get_transaction_receipt(hash)
get_transaction_trace(p, hash) ==
  IF p = JsonRpcHttp THEN Rpc!get_transaction_trace(hash)
  ELSE Gateway!get_transaction_trace(hash)
get_block_hash_by_id(p, number) ==
  IF p = JsonRpcHttp THEN Rpc!get_block_hash_by_id(number)
  ELSE Gateway!get_block_hash_by_id(number)
get_block_id_by_hash(p, hash) ==
  IF p = JsonRpcHttp THEN Rpc!get_block_id_by_hash(hash)
  ELSE Gateway!get_block_id_by_hash(hash)
get_transaction_hash_by_id(p, number) ==
  IF p = JsonRpcHttp THEN Rpc!get_transaction_hash_by_id(number)
  ELSE Gateway!get_transaction_hash_by_id(number)
get_transaction_id_by_hash(p, hash) ==
  IF p = JsonRpcHttp THEN Rpc!get_transaction_id_by_hash(hash)
  ELSE Gateway!get_transaction_id_by_hash(hash)
get_last_batch_id(p) ==
  IF p = JsonRpcHttp THEN Rpc!get_last_batch_id
  ELSE Gateway!get_last_batch_id
get_l1_blockchain_id(p) ==
  IF p = JsonRpcHttp THEN Rpc!get_l1_blockchain_id
  ELSE Gateway!get_l1_blockchain_id

(* The result of a method, given the response if it asks the node: the error *)
(* of the inner provider is wrapped, RateLimited and StarknetError are kept. *)
AnyError(p, error) ==
  IF error.kind = "Other" THEN [error EXCEPT !.code = <<p, @>>] ELSE error

Wrapped(p, result) == IF result.ok THEN result ELSE Err(AnyError(p, result.error))

received(p, ask, response) ==
  Wrapped(p, IF ~ask.asks THEN ask.result
             ELSE IF p = JsonRpcHttp THEN Rpc!received(ask.reads, response)
             ELSE Gateway!received(ask.reads, response))
============================================================================
