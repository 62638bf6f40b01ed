------------------------------ MODULE Gateway ------------------------------
(* SequencerGatewayProvider of starknet-providers: the request of every      *)
(* Provider method and how its response is read.                             *)
EXTENDS ProviderTypes

NoQuery == [x \in {} |-> ""]

extend_gateway_url(segment) == <<"gateway", segment>>
extend_feeder_gateway_url(segment) == <<"feeder_gateway", segment>>

append_pair(query, name, value) ==
  [n \in DOMAIN query \union {name} |-> IF n = name THEN value ELSE query[n]]

append_block_id_numbered(query, block_identifier) ==
  CASE block_identifier.id = "hash" ->
         append_pair(query, "blockHash", block_identifier.value)
    [] block_identifier.id = "number" ->
         append_pair(query, "blockNumber", block_identifier.value)
    [] block_identifier.id \in {"pending", "latest"} -> query
(* The latest block is implicit.                                             *)
append_block_id(query, block_identifier) ==
  CASE block_identifier.id = "hash" ->
         append_pair(query, "blockHash", block_identifier.value)
    [] block_identifier.id = "number" ->
         append_pair(query, "blockNumber", block_identifier.value)
    [] block_identifier.id = "pending" -> append_pair(query, "blockNumber", "pending")
    [] block_identifier.id = "latest" -> query

GetRequest(url, query) == [verb |-> "GET", url |-> url, query |-> query]
PostRequest(url, query, body) ==
  [verb |-> "POST", url |-> url, query |-> query, body |-> body]

get(segment, query) ==
  Ask(GetRequest(extend_feeder_gateway_url(segment), query), "data")
post(segment, query, body) ==
  Ask(PostRequest(extend_feeder_gateway_url(segment), query, body), "data")
get_felt(segment, query) ==
  Ask(GetRequest(extend_feeder_gateway_url(segment), query), "felt")

skip_query(skip_validate) ==
  [skipValidate |-> IF skip_validate THEN "true" ELSE "false"]

add_transaction(tx) ==
  Ask(PostRequest(extend_gateway_url("add_transaction"), NoQuery, tx), "data")
get_contract_addresses == get("get_contract_addresses", NoQuery)
call_contract(call_function, block) ==
  post("call_contract", append_block_id(NoQuery, block), call_function)
estimate_fee(tx, block, skip_validate) ==
  post("estimate_fee", append_block_id(skip_query(skip_validate), block), tx)
estimate_fee_bulk(txs, block, skip_validate) ==
  post("estimate_fee_bulk", append_block_id(skip_query(skip_validate), block), txs)
estimate_message_fee(call_l1_handler, block) ==
  post("estimate_message_fee", append_block_id(NoQuery, block), call_l1_handler)
simulate_transaction(tx, block, skip_validate) ==
  post("simulate_transaction", append_block_id(skip_query(skip_validate), block), tx)
get_block(block) == get("get_block", append_block_id(NoQuery, block))
get_block_traces(block) == get("get_block_traces", append_block_id(NoQuery, block))
get_state_update(block) == get("get_state_update", append_block_id(NoQuery, block))
get_code(contract, block) ==
  Ask(GetRequest(extend_feeder_gateway_url("get_code"),
                 append_block_id([contractAddress |-> contract], block)), "code")
get_full_contract(contract, block) ==
  get("get_full_contract", append_block_id([contractAddress |-> contract], block))
get_compiled_class_by_class_hash(class, block) ==
  get("get_compiled_class_by_class_hash", append_block_id([classHash |-> class], block))
get_class_hash_at(contract, block) ==
  get_felt("get_class_hash_at", append_block_id([contractAddress |-> contract], block))
get_class_by_hash(class, block) ==
  get("get_class_by_hash", append_block_id([classHash |-> class], block))
get_storage_at(contract, key, block) ==
  get_felt("get_storage_at",
           append_block_id([contractAddress |-> contract, key |-> key], block))
get_nonce(contract, block) ==
  get_felt("get_nonce", append_block_id([contractAddress |-> contract], block))
get_transaction_status(hash) ==
  get("get_transaction_status", [transactionHash |-> hash])
get_transaction(hash) == get("get_transaction", [transactionHash |-> hash])
get_transaction_receipt(hash) ==
  get("get_transaction_receipt", [transactionHash |-> hash])
get_transaction_trace(hash) == get("get_transaction_trace", [transactionHash |-> hash])
get_block_hash_by_id(number) == get_felt("get_block_hash_by_id", [blockId |-> number])
get_block_id_by_hash(hash) == get("get_block_id_by_hash", [blockHash |-> hash])
get_transaction_hash_by_id(number) ==
  get_felt("get_transaction_hash_by_id", [transactionId |-> number])
get_transaction_id_by_hash(hash) ==
  get("get_transaction_id_by_hash", [transactionHash |-> hash])
get_last_batch_id == get("get_last_batch_id", NoQuery)
get_l1_blockchain_id == get("get_l1_blockchain_id", NoQuery)

(* TryFrom<ErrorCode> for StarknetError: an unknown transaction becomes      *)
(* ContractNotFound; the other codes are passed on as they are.              *)
StarknetCode ==
  [BlockNotFound |-> "BlockNotFound", InvalidProgram |-> "InvalidContractClass",
   TransactionNotFound |-> "ContractNotFound",
   UninitializedContract |-> "ContractNotFound", UndeclaredClass |-> "ClassHashNotFound"]

SequencerError(code) ==
  Err(IF code \in DOMAIN StarknetCode THEN StarknetError(StarknetCode[code])
      ELSE Other(code))

(* From<GatewayResponse> and From<RawFieldElementResponse>.                  *)
DataResponse(response) ==
  IF response.body = "data" THEN Ok(response.value) ELSE SequencerError(response.code)
FeltResponse(response) ==
  IF response.body = "data" THEN Ok(response.value) ELSE SequencerError(response.code)

(* The gateway answers {} as the abi of a contract that does not exist.      *)
CodeResponse(response) ==
  IF response.body = "data"
  THEN Ok(IF response.value.abi = "{}" THEN [bytecode |-> <<>>, abi |-> "[]"]
          ELSE response.value)
  ELSE SequencerError(response.code)

(* send_get_request and send_post_request up to the parsed body.             *)
received(reads, response) ==
  IF response.http = "broken" THEN Err(Other("Network"))
  ELSE IF response.http = "429" THEN Err(RateLimited)
  ELSE IF response.body = "garbage" THEN Err(Other("Serde"))
  ELSE CASE reads = "data" -> DataResponse(response)
         [] reads = "felt" -> FeltResponse(response)
         [] reads = "code" -> CodeResponse(response)
============================================================================
