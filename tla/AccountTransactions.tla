------------------------ MODULE AccountTransactions ------------------------
(* The transactions that starknet-accounts builds, signs and hashes:         *)
(* executions, declarations, legacy declarations and account deployments.    *)
(* A hash is a term, so that equal hashes come from equal elements, and a    *)
(* signature is the key with the hash it signs.                              *)
EXTENDS ProviderTypes, Integers, SequencesExt

compute_hash_on_elements(elements) == <<"hash", elements>>
public_key(key) == <<"public", key>>
sign_hash(key, hash) == <<"signature", key, hash>>

(* SingleOwnerAccount.  Behind &A, Box<A> or Arc<A> the trait's default      *)
(* block_id is used, whatever the account says.                              *)
SingleOwnerAccount(provider, signer, address, chain_id) ==
  [provider |-> provider, signer |-> signer, address |-> address, chain_id |-> chain_id,
   block_id |-> Latest, wrapped |-> FALSE]
set_block_id(account, block) == [account EXCEPT !.block_id = block]
Shared(account) == [account EXCEPT !.wrapped = TRUE]

block_id_latest(account) == Latest
block_id(account) == IF account.wrapped THEN Latest ELSE account.block_id

(* The account factories; both leave the default block of the trait.         *)
OpenZeppelinAccountFactory(class_hash, chain_id, signer, provider) ==
  [provider |-> provider, signer |-> signer, chain_id |-> chain_id, block_id |-> Latest,
   wrapped |-> FALSE, class_hash |-> class_hash, calldata |-> <<public_key(signer)>>]
ArgentAccountFactory(proxy_class, impl_class, chain_id, guardian, signer, provider) ==
  [provider |-> provider, signer |-> signer, chain_id |-> chain_id, block_id |-> Latest,
   wrapped |-> FALSE, class_hash |-> proxy_class,
   calldata |-> <<impl_class, "initialize", 2, public_key(signer), guardian>>]

(* The builders; nonce and max_fee are options, the multiplier is in tenths. *)
Builder(kind, account) ==
  [kind |-> kind, account |-> account, nonce |-> <<>>, max_fee |-> <<>>,
   fee_estimate_multiplier |-> 11]
Execution(calls, account) == Builder("execution", account) @@ [calls |-> calls]
Declaration(class, compiled_class_hash, account) ==
  Builder("declaration", account) @@
  [contract_class |-> class, compiled_class_hash |-> compiled_class_hash]
LegacyDeclaration(class, account) ==
  Builder("legacy", account) @@ [contract_class |-> class]
AccountDeployment(salt, factory) == Builder("deployment", factory) @@ [salt |-> salt]

nonce(builder, value) == [builder EXCEPT !.nonce = <<value>>]
max_fee(builder, value) == [builder EXCEPT !.max_fee = <<value>>]
fee_estimate_multiplier(builder, value) ==
  [builder EXCEPT !.fee_estimate_multiplier = value]

(* ContractFactory::deploy: one call of the universal deployer.              *)
deploy(factory_class, account, udc_address, constructor_calldata, salt, unique) ==
  Execution(<<[to |-> udc_address, selector |-> "deployContract",
               calldata |-> <<factory_class, salt, IF unique THEN 1 ELSE 0,
                              Len(constructor_calldata)>> \o constructor_calldata]>>,
            account)

(* The calls of an execution: their headers, then all their data.            *)
raw_calldata(calls) ==
  LET data == [i \in DOMAIN calls |-> calls[i].calldata]
      offset(i) == Len(FlattenSeq(SubSeq(data, 1, i - 1)))
      header(i) == <<calls[i].to, calls[i].selector, offset(i), Len(data[i])>>
      concated == FlattenSeq(data)
  IN  <<Len(calls)>> \o FlattenSeq([i \in DOMAIN calls |-> header(i)])
      \o <<Len(concated)>> \o concated

calculate_contract_address(salt, class_hash, constructor_calldata) ==
  compute_hash_on_elements(<<"STARKNET_CONTRACT_ADDRESS", 0, salt, class_hash,
                             compute_hash_on_elements(constructor_calldata)>>)
DeploymentAddress(b) ==
  calculate_contract_address(b.salt, b.account.class_hash, b.account.calldata)

(* The transaction hashes, of a builder with its nonce n and its fee f.      *)
ExecutionHash(b, n, f) ==
  compute_hash_on_elements(<<"invoke", 1, b.account.address, 0,
    compute_hash_on_elements(raw_calldata(b.calls)), f, b.account.chain_id, n>>)
DeclarationHash(b, n, f) ==
  compute_hash_on_elements(<<"declare", 2, b.account.address, 0,
    compute_hash_on_elements(<<b.contract_class.hash>>), f, b.account.chain_id, n,
    b.compiled_class_hash>>)
LegacyDeclarationHash(b, n, f) ==
  compute_hash_on_elements(<<"declare", 1, b.account.address, 0,
    compute_hash_on_elements(<<b.contract_class.hash>>), f, b.account.chain_id, n>>)
DeploymentHash(b, n, f) ==
  compute_hash_on_elements(<<"deploy_account", 1, DeploymentAddress(b), 0,
    compute_hash_on_elements(<<b.account.class_hash, b.salt>> \o b.account.calldata), f,
    b.account.chain_id, n>>)

(* The signatures, over the hash of the transaction as it will be sent.  A   *)
(* legacy class whose hash cannot be computed is not signed.                 *)
sign_execution_unpriced(b, n, f) == sign_hash(b.account.signer, ExecutionHash(b, n, 0))
sign_execution(b, n, f) == sign_hash(b.account.signer, ExecutionHash(b, n, f))
sign_declaration(b, n, f) == sign_hash(b.account.signer, DeclarationHash(b, n, f))
ClassHashFails(class) == class.hash = "none"
sign_legacy_declaration(b, n, f) ==
  sign_hash(b.account.signer, LegacyDeclarationHash(b, n, f))
sign_deployment(b, n, f) == sign_hash(b.account.signer, DeploymentHash(b, n, f))

(* The requests.                                                             *)
get_invoke_request(b, n, f) ==
  Ok([type |-> "INVOKE_FUNCTION", sender_address |-> b.account.address,
      calldata |-> raw_calldata(b.calls), signature |-> sign_execution(b, n, f),
      max_fee |-> f, nonce |-> n])
get_declare_request(b, n, f) ==
  Ok([type |-> "DECLARE_V2", sender_address |-> b.account.address,
      contract_class |-> Compressed(b.contract_class),
      compiled_class_hash |-> b.compiled_class_hash,
      signature |-> sign_declaration(b, n, f), max_fee |-> f, nonce |-> n])
get_legacy_declare_request(b, n, f) ==
  IF ClassHashFails(b.contract_class) THEN Err("ClassHash")
  ELSE Ok([type |-> "DECLARE_V1", sender_address |-> b.account.address,
           contract_class |-> Compressed(b.contract_class),
           signature |-> sign_legacy_declaration(b, n, f), max_fee |-> f, nonce |-> n])
get_deploy_request(b, n, f) ==
  Ok([type |-> "DEPLOY_ACCOUNT", class_hash |-> b.account.class_hash,
      contract_address_salt |-> b.salt, constructor_calldata |-> b.account.calldata,
      signature |-> sign_deployment(b, n, f), max_fee |-> f, nonce |-> n])

Request(b, n, f) ==
  CASE b.kind = "execution" -> get_invoke_request(b, n, f)
    [] b.kind = "declaration" -> get_declare_request(b, n, f)
    [] b.kind = "legacy" -> get_legacy_declare_request(b, n, f)
    [] b.kind = "deployment" -> get_deploy_request(b, n, f)

(* The fee that a builder without one offers for an estimate.                *)
OfferedFee(b, overall_fee) == (overall_fee * b.fee_estimate_multiplier) \div 10
============================================================================
