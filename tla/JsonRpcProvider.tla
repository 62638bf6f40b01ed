-------------------------- MODULE JsonRpcProvider --------------------------
(* The Provider trait over a JSON-RPC client: the methods it supports, the   *)
(* conversions of requests and results, and the mapping of errors.           *)
EXTENDS ProviderTypes

Client == INSTANCE JsonRpcClient

NotSupported == Answer(Err(Other("NotSupported")))

(* Conversions of requests.  A V2 class is decompressed on the way.          *)
BlockIdOf(b) ==
  CASE b.id = "hash" -> [block_hash |-> b.value]
    [] b.id = "number" -> [block_number |-> b.value]
    [] b.id = "pending" -> [tag |-> "pending"]
    [] b.id = "latest" -> [tag |-> "latest"]

FunctionCall(call_function) ==
  [contract_address |-> call_function.contract_address,
   entry_point_selector |-> call_function.entry_point_selector,
   calldata |-> call_function.calldata]

BroadcastedDeclareV1(tx) ==
  [type |-> "DECLARE_V1", max_fee |-> tx.max_fee, signature |-> tx.signature,
   nonce |-> tx.nonce, contract_class |-> tx.contract_class,
   sender_address |-> tx.sender_address]
BroadcastedDeclareV2(tx) ==
  [type |-> "DECLARE_V2", max_fee |-> tx.max_fee, signature |-> tx.signature,
   nonce |-> tx.nonce, contract_class |-> tx.contract_class.gzip,
   compiled_class_hash |-> tx.compiled_class_hash,
   sender_address |-> tx.sender_address]
BroadcastedInvoke(tx) ==
  [type |-> "INVOKE_V1", max_fee |-> tx.max_fee, signature |-> tx.signature,
   nonce |-> tx.nonce, sender_address |-> tx.sender_address, calldata |-> tx.calldata]
BroadcastedDeployAccount(tx) ==
  [type |-> "DEPLOY_ACCOUNT", version |-> 1, max_fee |-> tx.max_fee,
   signature |-> tx.signature, nonce |-> tx.nonce,
   contract_address_salt |-> tx.contract_address_salt,
   constructor_calldata |-> tx.constructor_calldata, class_hash |-> tx.class_hash]

BroadcastedTransaction(tx) ==
  CASE tx.type = "DECLARE_V1" -> BroadcastedDeclareV1(tx)
    [] tx.type = "DECLARE_V2" -> BroadcastedDeclareV2(tx)
    [] tx.type = "INVOKE_FUNCTION" -> BroadcastedInvoke(tx)
    [] tx.type = "DEPLOY_ACCOUNT" -> BroadcastedDeployAccount(tx)

(* The methods of the trait.                                                 *)
add_transaction(tx) ==
  CASE tx.type \in {"DECLARE_V1", "DECLARE_V2"} ->
         Ask(Client!add_declare_transaction(BroadcastedTransaction(tx)), "declared")
    [] tx.type = "INVOKE_FUNCTION" ->
         Ask(Client!add_invoke_transaction(BroadcastedInvoke(tx)), "invoked")
    [] tx.type = "DEPLOY_ACCOUNT" ->
         Ask(Client!add_deploy_account_transaction(BroadcastedDeployAccount(tx)), "deployed")
call_contract(call_function, block) ==
  Ask(Client!call(FunctionCall(call_function), BlockIdOf(block)), "call")
estimate_fee(tx, block, skip_validate) ==
  IF skip_validate THEN NotSupported
  ELSE Ask(Client!estimate_fee(BroadcastedTransaction(tx), BlockIdOf(block)), "fee")
get_storage_at(contract, key, block) ==
  Ask(Client!get_storage_at(contract, key, BlockIdOf(block)), "felt")
get_nonce(contract, block) ==
  Ask(Client!get_nonce(BlockIdOf(block), contract), "felt")
get_transaction_status(hash) == Ask(Client!get_transaction_receipt(hash), "status")

get_contract_addresses == NotSupported
estimate_fee_bulk(txs, block, skip_validate) == NotSupported
estimate_message_fee(call_l1_handler, block) == NotSupported
simulate_transaction(tx, block, skip_validate) == NotSupported
get_block(block) == NotSupported
get_block_traces(block) == NotSupported
get_state_update(block) == NotSupported
get_code(contract, block) == NotSupported
get_full_contract(contract, block) == NotSupported
get_compiled_class_by_class_hash(class, block) == NotSupported
get_class_hash_at(contract, block) == NotSupported
get_class_by_hash(class, block) == NotSupported
get_transaction(hash) == NotSupported
get_transaction_receipt(hash) == NotSupported
get_transaction_trace(hash) == NotSupported
get_block_hash_by_id(number) == NotSupported
get_block_id_by_hash(hash) == NotSupported
get_transaction_hash_by_id(number) == NotSupported
get_transaction_id_by_hash(hash) == NotSupported
get_last_batch_id == NotSupported
get_l1_blockchain_id == NotSupported

(* Conversions of results; an option is a sequence of at most one value.     *)
FeeEstimateOf(est) ==
  [overall_fee |-> est.overall_fee, unit |-> "wei", gas_price |-> est.gas_price,
   gas_usage |-> est.gas_consumed]
AddResult(hash, address, class_hash) ==
  [code |-> "TRANSACTION_RECEIVED", transaction_hash |-> hash, address |-> address,
   class_hash |-> class_hash]
DeclareResult(r) == AddResult(r.transaction_hash, <<>>, <<r.class_hash>>)
InvokeResult(r) == AddResult(r.transaction_hash, <<>>, <<>>)
DeployAccountResult(r) == AddResult(r.transaction_hash, <<r.contract_address>>, <<>>)

StatusInfo(block_hash, status) ==
  [block_hash |-> block_hash, status |-> status, transaction_failure_reason |-> <<>>]
ReceiptStatus(receipt) ==
  IF receipt.pending THEN StatusInfo(<<>>, "PENDING")
  ELSE StatusInfo(<<receipt.block_hash>>, receipt.status)

Converted(reads, value) ==
  CASE reads = "declared" -> DeclareResult(value)
    [] reads = "invoked" -> InvokeResult(value)
    [] reads = "deployed" -> DeployAccountResult(value)
    [] reads = "call" -> [result |-> value]
    [] reads = "fee" -> FeeEstimateOf(value)
    [] reads = "felt" -> value
    [] reads = "status" -> ReceiptStatus(value)

(* From<ErrorCode> for StarknetError renames three of the codes.             *)
StarknetCodeOf(code) ==
  CASE code = "FailedToReceiveTransaction" -> "FailedToReceiveTxn"
    [] code = "TransactionHashNotFound" -> "TxnHashNotFound"
    [] code = "InvalidTransactionIndex" -> "InvalidTxnIndex"
    [] OTHER -> code

(* From<JsonRpcClientError> for ProviderError.                               *)
ProviderErrorOf(error) ==
  CASE error.kind = "TransportError" -> Other("TransportError")
    [] error.kind = "Code" -> StarknetError(StarknetCodeOf(error.code))
    [] error.kind = "Unknown" -> Other("UnknownRpcError")

(* A transaction that the node does not know has a status all the same.      *)
received(reads, response) ==
  LET r == Client!received(response)
  IN  IF r.ok THEN Ok(Converted(reads, r.value))
      ELSE IF reads = "status" /\ r.error.code = "TransactionHashNotFound"
      THEN Ok(StatusInfo(<<>>, "NOT_RECEIVED"))
      ELSE Err(ProviderErrorOf(r.error))
============================================================================
