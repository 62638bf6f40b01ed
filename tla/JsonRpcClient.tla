--------------------------- MODULE JsonRpcClient ---------------------------
(* JsonRpcClient of starknet-providers: the method and the positional        *)
(* parameters of every request, and how send_request reads the response.     *)
EXTENDS ProviderTypes, Integers

send_request(method, params) == [id |-> 1, method |-> method, params |-> params]

get_block_with_tx_hashes(block_id) ==
  send_request("starknet_getBlockWithTxHashes", <<block_id>>)
get_block_with_txs(block_id) == send_request("starknet_getBlockWithTxs", <<block_id>>)
get_state_update(block_id) == send_request("starknet_getStateUpdate", <<block_id>>)
get_storage_at(contract_address, key, block_id) ==
  send_request("starknet_getStorageAt", <<contract_address, key, block_id>>)
get_transaction_by_hash(hash) == send_request("starknet_getTransactionByHash", <<hash>>)
get_transaction_by_block_id_and_index(block_id, index) ==
  send_request("starknet_getTransactionByBlockIdAndIndex", <<block_id, index>>)
get_transaction_receipt(hash) == send_request("starknet_getTransactionReceipt", <<hash>>)
get_class(block_id, class_hash) ==
  send_request("starknet_getClass", <<block_id, class_hash>>)
get_class_hash_at(block_id, contract_address) ==
  send_request("starknet_getClassHashAt", <<block_id, contract_address>>)
get_class_at(block_id, contract_address) ==
  send_request("starknet_getClassAt", <<block_id, contract_address>>)
get_block_transaction_count(block_id) ==
  send_request("starknet_getBlockTransactionCount", <<block_id>>)
call(request, block_id) == send_request("starknet_call", <<request, block_id>>)
estimate_fee(request, block_id) ==
  send_request("starknet_estimateFee", <<request, block_id>>)
block_number == send_request("starknet_blockNumber", <<>>)
block_hash_and_number == send_request("starknet_blockHashAndNumber", <<>>)
chain_id == send_request("starknet_chainId", <<>>)
pending_transactions == send_request("starknet_pendingTransactions", <<>>)
syncing == send_request("starknet_syncing", <<>>)
get_events(filter, continuation_token, chunk_size) ==
  send_request("starknet_getEvents",
    <<filter @@ "continuation_token" :> continuation_token @@ "chunk_size" :> chunk_size>>)
get_nonce(block_id, contract_address) ==
  send_request("starknet_getNonce", <<block_id, contract_address>>)
add_invoke_transaction(tx) == send_request("starknet_addInvokeTransaction", <<tx>>)
add_declare_transaction(tx) == send_request("starknet_addDeclareTransaction", <<tx>>)
add_deploy_transaction(tx) == send_request("starknet_addDeployTransaction", <<tx>>)
add_deploy_account_transaction(tx) ==
  send_request("starknet_addDeployAccountTransaction", <<tx>>)

(* TryFrom<i64> for ErrorCode.                                               *)
ErrorCodes ==
  1 :> "FailedToReceiveTransaction" @@ 20 :> "ContractNotFound" @@
  21 :> "InvalidMessageSelector" @@ 22 :> "InvalidCallData" @@ 24 :> "BlockNotFound" @@
  25 :> "TransactionHashNotFound" @@ 27 :> "InvalidTransactionIndex" @@
  28 :> "ClassHashNotFound" @@ 31 :> "PageSizeTooBig" @@ 32 :> "NoBlocks" @@
  33 :> "InvalidContinuationToken" @@ 40 :> "ContractError"

(* send_request after the transport, which looks at the body alone: a        *)
(* rate limiter's refusal is a body that is not a response.                  *)
HttpTransportFails(response) ==
  \/ response.http \in {"broken", "429"}
  \/ response.body = "garbage"

received(response) ==
  IF HttpTransportFails(response) THEN Err([kind |-> "TransportError", code |-> "none"])
  ELSE IF response.body = "data" THEN Ok(response.value)
  ELSE Err(IF response.code \in DOMAIN ErrorCodes
           THEN [kind |-> "Code", code |-> ErrorCodes[response.code]]
           ELSE [kind |-> "Unknown", code |-> "none"])
============================================================================
