----------------------------- MODULE AccountProofs -----------------------------
(***************************************************************************)
(* Theorems about Account: whatever is lost, refused or repeated, and      *)
(* whichever provider a task uses, what it asks the node about is what its *)
(* builder was built for, a fixed nonce is used once, and a nonce that was *)
(* looked up is not older than the call.                                   *)
(***************************************************************************)
EXTENDS Account, EnumerationLemmas

-----------------------------------------------------------------------------
(***************************************************************************)
(* What the node reads.  u is the transaction of the builder b with the    *)
(* nonce n and the fee f, as it is when classes are unpacked.              *)
(***************************************************************************)
TransactionOf(u, b, n, f) ==
  /\ u.nonce = n /\ u.max_fee = f
  /\ b.kind = "execution" =>
       /\ u.type = "INVOKE_FUNCTION" /\ u.sender_address = b.account.address
       /\ u.calldata = raw_calldata(b.calls)
       /\ u.signature = sign_execution(b, n, f)
  /\ b.kind = "declaration" =>
       /\ u.type = "DECLARE_V2" /\ u.sender_address = b.account.address
       /\ u.contract_class = b.contract_class
       /\ u.compiled_class_hash = b.compiled_class_hash
       /\ u.signature = sign_declaration(b, n, f)
  /\ b.kind = "legacy" =>
       /\ u.type = "DECLARE_V1" /\ u.sender_address = b.account.address
       /\ u.contract_class = b.contract_class
       /\ u.signature = sign_legacy_declaration(b, n, f)
  /\ b.kind = "deployment" =>
       /\ u.type = "DEPLOY_ACCOUNT" /\ u.class_hash = b.account.class_hash
       /\ u.contract_address_salt = b.salt
       /\ u.constructor_calldata = b.account.calldata
       /\ u.signature = sign_deployment(b, n, f)

\* A request that a builder makes, by its kind.
LEMMA RequestOfKind ==
  ASSUME NEW b, NEW n, NEW f, b.kind \in Kinds, Request(b, n, f).ok
  PROVE  LET tx == Request(b, n, f).value
         IN  /\ b.kind = "execution" => tx = get_invoke_request(b, n, f).value
             /\ b.kind = "declaration" => tx = get_declare_request(b, n, f).value
             /\ b.kind = "legacy" =>
                  tx = get_legacy_declare_request(b, n, f).value /\ ~ ClassHashFails(b.contract_class)
             /\ b.kind = "deployment" => tx = get_deploy_request(b, n, f).value
BY DEF Request, Kinds, get_legacy_declare_request, Err

\* A request has one of the four types of a transaction.
LEMMA RequestType ==
  ASSUME NEW b, NEW n, NEW f, b.kind \in Kinds, Request(b, n, f).ok
  PROVE  Request(b, n, f).value.type
           \in {"INVOKE_FUNCTION", "DECLARE_V1", "DECLARE_V2", "DEPLOY_ACCOUNT"}
<1> DEFINE tx == Request(b, n, f).value
<1>1. /\ b.kind = "execution" => tx = get_invoke_request(b, n, f).value
      /\ b.kind = "declaration" => tx = get_declare_request(b, n, f).value
      /\ b.kind = "legacy" =>
           tx = get_legacy_declare_request(b, n, f).value /\ ~ ClassHashFails(b.contract_class)
      /\ b.kind = "deployment" => tx = get_deploy_request(b, n, f).value
  BY RequestOfKind
<1> HIDE DEF tx
<1>2. tx.type \in {"INVOKE_FUNCTION", "DECLARE_V1", "DECLARE_V2", "DEPLOY_ACCOUNT"}
  BY <1>1 DEF Kinds, get_invoke_request, get_declare_request, get_legacy_declare_request,
              get_deploy_request, Ok
<1> QED BY <1>2 DEF tx

\* The gateway unpacks the class of a declaration.
LEMMA UnpackedRequest ==
  ASSUME NEW b, NEW n, NEW f, b.kind \in Kinds, Request(b, n, f).ok
  PROVE  TransactionOf(Unpacked(Request(b, n, f).value), b, n, f)
<1> DEFINE tx == Request(b, n, f).value
<1>1. CASE b.kind = "execution"
  <2>1. tx = get_invoke_request(b, n, f).value
    BY <1>1, RequestOfKind
  <2> HIDE DEF tx
  <2>2. TransactionOf(Unpacked(tx), b, n, f)
    BY <1>1, <2>1 DEF TransactionOf, Unpacked, get_invoke_request, Ok
  <2> QED BY <2>2 DEF tx
<1>2. CASE b.kind = "declaration"
  <2>1. tx = get_declare_request(b, n, f).value
    BY <1>2, RequestOfKind
  <2> HIDE DEF tx
  <2>2. TransactionOf(Unpacked(tx), b, n, f)
    BY <1>2, <2>1 DEF TransactionOf, Unpacked, get_declare_request, Ok, Compressed
  <2> QED BY <2>2 DEF tx
<1>3. CASE b.kind = "legacy"
  <2>1. tx = get_legacy_declare_request(b, n, f).value /\ ~ ClassHashFails(b.contract_class)
    BY <1>3, RequestOfKind
  <2> HIDE DEF tx
  <2>2. TransactionOf(Unpacked(tx), b, n, f)
    BY <1>3, <2>1 DEF TransactionOf, Unpacked, get_legacy_declare_request, Ok, Compressed
  <2> QED BY <2>2 DEF tx
<1>4. CASE b.kind = "deployment"
  <2>1. tx = get_deploy_request(b, n, f).value
    BY <1>4, RequestOfKind
  <2> HIDE DEF tx
  <2>2. TransactionOf(Unpacked(tx), b, n, f)
    BY <1>4, <2>1 DEF TransactionOf, Unpacked, get_deploy_request, Ok
  <2> QED BY <2>2 DEF tx
<1> QED BY <1>1, <1>2, <1>3, <1>4 DEF Kinds

\* JSON-RPC carries the same fields, a Sierra class already decompressed.
LEMMA BroadcastedRequest ==
  ASSUME NEW b, NEW n, NEW f, b.kind \in Kinds, Request(b, n, f).ok
  PROVE  TransactionOf(RpcTx(Rpc!BroadcastedTransaction(Request(b, n, f).value)), b, n, f)
<1> DEFINE tx == Request(b, n, f).value
           sent == Rpc!BroadcastedTransaction(tx)
<1>1. CASE b.kind = "execution"
  <2>1. tx = get_invoke_request(b, n, f).value
    BY <1>1, RequestOfKind
  <2> HIDE DEF tx
  <2>2. sent = Rpc!BroadcastedInvoke(tx)
    BY <2>1 DEF get_invoke_request, Ok, Rpc!BroadcastedTransaction
  <2> HIDE DEF sent
  <2>3. TransactionOf(RpcTx(sent), b, n, f)
    BY <1>1, <2>1, <2>2
       DEF TransactionOf, RpcTx, Rpc!BroadcastedInvoke, get_invoke_request, Ok
  <2> QED BY <2>3 DEF sent, tx
<1>2. CASE b.kind = "declaration"
  <2>1. tx = get_declare_request(b, n, f).value
    BY <1>2, RequestOfKind
  <2> HIDE DEF tx
  <2>2. sent = Rpc!BroadcastedDeclareV2(tx)
    BY <2>1 DEF get_declare_request, Ok, Rpc!BroadcastedTransaction
  <2> HIDE DEF sent
  <2>3. TransactionOf(RpcTx(sent), b, n, f)
    BY <1>2, <2>1, <2>2
       DEF TransactionOf, RpcTx, Rpc!BroadcastedDeclareV2, get_declare_request, Ok, Compressed
  <2> QED BY <2>3 DEF sent, tx
<1>3. CASE b.kind = "legacy"
  <2>1. tx = get_legacy_declare_request(b, n, f).value /\ ~ ClassHashFails(b.contract_class)
    BY <1>3, RequestOfKind
  <2> HIDE DEF tx
  <2>2. sent = Rpc!BroadcastedDeclareV1(tx)
    BY <2>1 DEF get_legacy_declare_request, Ok, Rpc!BroadcastedTransaction
  <2> HIDE DEF sent
  <2>3. TransactionOf(RpcTx(sent), b, n, f)
    BY <1>3, <2>1, <2>2
       DEF TransactionOf, RpcTx, Unpacked, Rpc!BroadcastedDeclareV1,
           get_legacy_declare_request, Ok, Compressed
  <2> QED BY <2>3 DEF sent, tx
<1>4. CASE b.kind = "deployment"
  <2>1. tx = get_deploy_request(b, n, f).value
    BY <1>4, RequestOfKind
  <2> HIDE DEF tx
  <2>2. sent = Rpc!BroadcastedDeployAccount(tx)
    BY <2>1 DEF get_deploy_request, Ok, Rpc!BroadcastedTransaction
  <2> HIDE DEF sent
  <2>3. TransactionOf(RpcTx(sent), b, n, f)
    BY <1>4, <2>1, <2>2
       DEF TransactionOf, RpcTx, Rpc!BroadcastedDeployAccount, get_deploy_request, Ok
  <2> QED BY <2>3 DEF sent, tx
<1> QED BY <1>1, <1>2, <1>3, <1>4 DEF Kinds

\* A submission through the gateway.
LEMMA GatewayAdd ==
  ASSUME NEW tx
  PROVE  LET call == GatewayReads(Gateway!add_transaction(tx).request)
         IN  call.op = "add_transaction" /\ call.args.tx = Unpacked(tx)
<1> DEFINE request == Gateway!add_transaction(tx).request
<1>1. /\ request.url[2] = "add_transaction" /\ request.verb = "POST"
      /\ request.body = tx /\ DOMAIN request.query = {}
  BY DEF Gateway!add_transaction, Gateway!Ask, Gateway!PostRequest,
         Gateway!extend_gateway_url, Gateway!NoQuery
<1>2. QueryNames(request.query) = {}
  BY <1>1 DEF QueryNames
<1>3. BodyName["add_transaction"] = "tx" /\ GatewayBody("add_transaction", tx) = Unpacked(tx)
  BY DEF BodyName, GatewayBody
<1> HIDE DEF request
<1>4. GatewayReads(request).args.tx = Unpacked(tx)
  BY <1>1, <1>2, <1>3 DEF GatewayReads, CallOf, TakesBlock
<1> QED BY <1>1, <1>4 DEF GatewayReads, CallOf, request

\* The block that is added to a query is the block that is read from it, and
\* nothing else is.
LEMMA GatewayBlock ==
  ASSUME NEW q, NEW block \in {Latest, Pending},
         {"blockHash", "blockNumber"} \cap DOMAIN q = {}
  PROVE  LET query == Gateway!append_block_id(q, block)
         IN  /\ QueryBlock(query) = block
             /\ QueryNames(query) = QueryNames(q)
             /\ \A m \in DOMAIN q : query[m] = q[m]
<1>1. CASE block = Latest
  <2>1. Gateway!append_block_id(q, block) = q
    BY <1>1 DEF Gateway!append_block_id, Latest
  <2> QED BY <1>1, <2>1 DEF QueryBlock
<1>2. CASE block = Pending
  <2>1. Gateway!append_block_id(q, block) = Gateway!append_pair(q, "blockNumber", "pending")
    BY <1>2 DEF Gateway!append_block_id, Pending
  <2>2. "blockNumber" \notin DOMAIN QueryName
    BY DEF QueryName
  <2> QED BY <1>2, <2>1, <2>2 DEF QueryBlock, QueryNames, Gateway!append_pair
<1> QED BY <1>1, <1>2

\* A question about a transaction, put to the gateway with its block.
LEMMA GatewayAsk ==
  ASSUME NEW op \in {"estimate_fee", "simulate_transaction"}, NEW tx,
         NEW block \in {Latest, Pending}
  PROVE  LET query == Gateway!append_block_id(Gateway!skip_query(FALSE), block)
             call == GatewayReads(Gateway!post(op, query, tx).request)
         IN  call.op = op /\ call.args.tx = Unpacked(tx) /\ call.args.block = block
<1> DEFINE q == Gateway!skip_query(FALSE)
           query == Gateway!append_block_id(q, block)
           request == Gateway!post(op, query, tx).request
<1>1. /\ request.url[2] = op /\ request.verb = "POST" /\ request.body = tx
      /\ request.query = query
  BY DEF Gateway!post, Gateway!Ask, Gateway!PostRequest, Gateway!extend_feeder_gateway_url
<1>2. DOMAIN q = {"skipValidate"}
  BY DEF Gateway!skip_query
<1>3. QueryBlock(query) = block /\ QueryNames(query) = QueryNames(q)
  BY <1>2, GatewayBlock
<1>4. {QueryName[m] : m \in QueryNames(q)} = {"skip_validate"}
  <2>1. QueryNames(q) = {"skipValidate"} /\ QueryName["skipValidate"] = "skip_validate"
    BY <1>2 DEF QueryNames, QueryName
  <2> HIDE DEF q
  <2> QED BY <2>1
<1>5. BodyName[op] = "tx" /\ GatewayBody(op, tx) = Unpacked(tx) /\ op \in TakesBlock
  BY DEF BodyName, GatewayBody, TakesBlock
<1> HIDE DEF request, query, q
<1>6. GatewayReads(request).args.tx = Unpacked(tx) /\ GatewayReads(request).args.block = block
  BY <1>1, <1>3, <1>4, <1>5 DEF GatewayReads, CallOf
<1> QED BY <1>1, <1>6 DEF GatewayReads, CallOf, request, query, q

\* A question for a nonce, put to the gateway.
LEMMA GatewayNonce ==
  ASSUME NEW address, NEW block \in {Latest, Pending}
  PROVE  LET call == GatewayReads(Gateway!get_nonce(address, block).request)
         IN  call.op = "get_nonce" /\ call.args.contract = address /\ call.args.block = block
<1> DEFINE q == [contractAddress |-> address]
           query == Gateway!append_block_id(q, block)
           request == Gateway!get_nonce(address, block).request
<1>1. request.url[2] = "get_nonce" /\ request.verb = "GET" /\ request.query = query
  BY DEF Gateway!get_nonce, Gateway!get_felt, Gateway!Ask, Gateway!GetRequest,
         Gateway!extend_feeder_gateway_url
<1>2. DOMAIN q = {"contractAddress"} /\ q["contractAddress"] = address
  OBVIOUS
<1> HIDE DEF q
<1>3. /\ QueryBlock(query) = block /\ QueryNames(query) = QueryNames(q)
      /\ query["contractAddress"] = address
  BY <1>2, GatewayBlock
<1>4. QueryNames(q) = {"contractAddress"} /\ QueryName["contractAddress"] = "contract"
  BY <1>2 DEF QueryNames, QueryName
<1>5. {QueryName[m] : m \in QueryNames(q)} = {"contract"}
  BY <1>4
<1>6. (CHOOSE m \in QueryNames(query) : QueryName[m] = "contract") = "contractAddress"
  BY <1>3, <1>4
<1>7. QueryArg(query, "contract") = address
  BY <1>3, <1>6 DEF QueryArg
<1> HIDE DEF request, query
<1>8. "get_nonce" \in TakesBlock
  BY DEF TakesBlock
<1>9. /\ GatewayReads(request).args.contract = address
      /\ GatewayReads(request).args.block = block
  BY <1>1, <1>3, <1>5, <1>7, <1>8 DEF GatewayReads, CallOf
<1> QED BY <1>1, <1>9 DEF GatewayReads, CallOf, request

\* The arguments of JSON-RPC by position.
LEMMA RpcOne ==
  ASSUME NEW request, NEW op, NEW x,
         RpcMethods[request.method] = CallOf(op, <<"tx">>), request.params = <<x>>
  PROVE  RpcReads(request).op = op /\ RpcReads(request).args.tx = RpcTx(x)
<1> DEFINE names == <<"tx">>
<1>1. (CHOOSE i \in DOMAIN names : names[i] = "tx") = 1
  OBVIOUS
<1>2. ToSet(names) = {"tx"}
  BY DEF ToSet
<1> HIDE DEF names
<1>3. names[1] = "tx" /\ request.params[1] = x
  BY DEF names
<1> QED BY <1>1, <1>2, <1>3 DEF RpcReads, CallOf, names

\* A transaction and its block.
LEMMA RpcTwo ==
  ASSUME NEW request, NEW op, NEW x, NEW y,
         RpcMethods[request.method] = CallOf(op, <<"tx", "block">>), request.params = <<x, y>>
  PROVE  /\ RpcReads(request).op = op
         /\ RpcReads(request).args.tx = RpcTx(x) /\ RpcReads(request).args.block = RpcBlock(y)
<1> DEFINE names == <<"tx", "block">>
<1>1. /\ (CHOOSE i \in DOMAIN names : names[i] = "tx") = 1
      /\ (CHOOSE i \in DOMAIN names : names[i] = "block") = 2
  OBVIOUS
<1>2. ToSet(names) = {"tx", "block"}
  BY DEF ToSet
<1>3. /\ names[1] = "tx" /\ request.params[1] = x
      /\ names[2] = "block" /\ request.params[2] = y
  OBVIOUS
<1>4. RpcMethods[request.method].op = op /\ RpcMethods[request.method].args = names
  BY DEF CallOf
<1> HIDE DEF names
<1> QED BY <1>1, <1>2, <1>3, <1>4 DEF RpcReads, CallOf

\* A block and the account in it.
LEMMA RpcNonceArgs ==
  ASSUME NEW request, NEW x, NEW y,
         RpcMethods[request.method] = CallOf("get_nonce", <<"block", "contract">>),
         request.params = <<x, y>>
  PROVE  /\ RpcReads(request).op = "get_nonce"
         /\ RpcReads(request).args.block = RpcBlock(x)
         /\ RpcReads(request).args.contract = y
<1> DEFINE names == <<"block", "contract">>
<1>1. /\ (CHOOSE i \in DOMAIN names : names[i] = "block") = 1
      /\ (CHOOSE i \in DOMAIN names : names[i] = "contract") = 2
  OBVIOUS
<1>2. ToSet(names) = {"block", "contract"}
  BY DEF ToSet
<1>3. /\ names[1] = "block" /\ request.params[1] = x
      /\ names[2] = "contract" /\ request.params[2] = y
  OBVIOUS
<1>4. RpcMethods[request.method].op = "get_nonce" /\ RpcMethods[request.method].args = names
  BY DEF CallOf
<1> HIDE DEF names
<1> QED BY <1>1, <1>2, <1>3, <1>4 DEF RpcReads, CallOf

\* A block keeps its meaning.
LEMMA RpcBlocks ==
  ASSUME NEW block \in {Latest, Pending}
  PROVE  RpcBlock(Rpc!BlockIdOf(block)) = block
<1>1. CASE block = Latest
  <2>1. Rpc!BlockIdOf(block) = [tag |-> "latest"]
    BY <1>1 DEF Rpc!BlockIdOf, Latest
  <2> QED BY <1>1, <2>1 DEF RpcBlock
<1>2. CASE block = Pending
  <2>1. Rpc!BlockIdOf(block) = [tag |-> "pending"]
    BY <1>2 DEF Rpc!BlockIdOf, Pending
  <2> QED BY <1>2, <2>1 DEF RpcBlock
<1> QED BY <1>1, <1>2

-----------------------------------------------------------------------------
(***************************************************************************)
(* Both providers: the call that reaches the node is the call that was     *)
(* made.                                                                   *)
(***************************************************************************)
\* A question for a nonce.
LEMMA NonceReaches ==
  ASSUME NEW p, NEW address, NEW block \in {Latest, Pending}
  PROVE  LET ask == get_nonce(p, address, block)
             call == NodeReads(p, ask.request)
         IN  /\ ask.asks
             /\ call.op = "get_nonce"
             /\ call.args.contract = address /\ call.args.block = block
<1> DEFINE ask == get_nonce(p, address, block)
<1>1. CASE p = JsonRpcHttp
  <2>1. ask = Rpc!Ask(Rpc!Client!get_nonce(Rpc!BlockIdOf(block), address), "felt")
    BY <1>1 DEF get_nonce, Rpc!get_nonce
  <2>2. /\ ask.asks /\ ask.request.method = "starknet_getNonce"
        /\ ask.request.params = <<Rpc!BlockIdOf(block), address>>
    BY <2>1 DEF Rpc!Ask, Rpc!Client!get_nonce, Rpc!Client!send_request
  <2>3. RpcMethods[ask.request.method] = CallOf("get_nonce", <<"block", "contract">>)
    BY <2>2 DEF RpcMethods
  <2> HIDE DEF ask
  <2>4. ask.asks /\ RpcReads(ask.request).op = "get_nonce"
        /\ RpcReads(ask.request).args.contract = address /\ RpcReads(ask.request).args.block = block
    BY <2>2, <2>3, RpcNonceArgs, RpcBlocks
  <2> QED BY <1>1, <2>4 DEF NodeReads, ask
<1>2. CASE p # JsonRpcHttp
  <2>1. ask = Gateway!get_nonce(address, block) /\ ask.asks
    BY <1>2 DEF get_nonce, Gateway!get_nonce, Gateway!get_felt, Gateway!Ask
  <2> QED BY <1>2, <2>1, GatewayNonce DEF NodeReads
<1> QED BY <1>1, <1>2

\* A submission: the node reads the transaction of the builder.
LEMMA SubmissionReaches ==
  ASSUME NEW p, NEW b, NEW n, NEW f, b.kind \in Kinds, Request(b, n, f).ok
  PROVE  LET ask == add_transaction(p, Request(b, n, f).value)
             call == NodeReads(p, ask.request)
         IN  ask.asks /\ call.op = "add_transaction" /\ TransactionOf(call.args.tx, b, n, f)
<1> DEFINE tx == Request(b, n, f).value
           ask == add_transaction(p, tx)
<1>1. CASE p = JsonRpcHttp
  <2> DEFINE sent == Rpc!BroadcastedTransaction(tx)
  <2>1. tx.type \in {"INVOKE_FUNCTION", "DECLARE_V1", "DECLARE_V2", "DEPLOY_ACCOUNT"}
    BY RequestType
  <2>2. ask = Rpc!add_transaction(tx)
    BY <1>1 DEF add_transaction
  <2> HIDE DEF ask, tx
  <2>3. /\ ask.asks /\ ask.request.params = <<sent>>
        /\ ask.request.method \in {"starknet_addInvokeTransaction", "starknet_addDeclareTransaction",
                                   "starknet_addDeployAccountTransaction"}
    BY <2>1, <2>2
       DEF Rpc!add_transaction, Rpc!Ask, Rpc!BroadcastedTransaction, Rpc!Client!send_request,
           Rpc!Client!add_invoke_transaction, Rpc!Client!add_declare_transaction,
           Rpc!Client!add_deploy_account_transaction
  <2>4. RpcMethods[ask.request.method] = CallOf("add_transaction", <<"tx">>)
    BY <2>3 DEF RpcMethods
  <2> HIDE DEF sent
  <2>5. RpcReads(ask.request).op = "add_transaction" /\ RpcReads(ask.request).args.tx = RpcTx(sent)
    BY <2>3, <2>4, RpcOne
  <2>6. TransactionOf(RpcTx(sent), b, n, f)
    BY BroadcastedRequest DEF sent, tx
  <2> QED BY <1>1, <2>3, <2>5, <2>6 DEF NodeReads, ask, tx
<1>2. CASE p # JsonRpcHttp
  <2>1. ask = Gateway!add_transaction(tx) /\ ask.asks
    BY <1>2 DEF add_transaction, Gateway!add_transaction, Gateway!Ask
  <2>2. NodeReads(p, ask.request) = GatewayReads(ask.request)
    BY <1>2 DEF NodeReads
  <2> QED BY <2>1, <2>2, GatewayAdd, UnpackedRequest
<1> QED BY <1>1, <1>2

\* The two questions that put a transaction to a block.
FeeQuestion(p, tx, block) == estimate_fee(p, tx, block, FALSE)
Simulation(p, tx, block) == simulate_transaction(p, tx, block, FALSE)

\* A question for a fee: the node reads the transaction and the block.
LEMMA EstimateReaches ==
  ASSUME NEW p, NEW b, NEW n, NEW f, b.kind \in Kinds, Request(b, n, f).ok,
         NEW block \in {Latest, Pending}
  PROVE  LET ask == FeeQuestion(p, Request(b, n, f).value, block)
             call == NodeReads(p, ask.request)
         IN  /\ ask.asks
             /\ call.op = "estimate_fee" /\ call.args.block = block
             /\ TransactionOf(call.args.tx, b, n, f)
<1> DEFINE tx == Request(b, n, f).value
           ask == FeeQuestion(p, tx, block)
<1>1. CASE p = JsonRpcHttp
  <2> DEFINE sent == Rpc!BroadcastedTransaction(tx)
             at == Rpc!BlockIdOf(block)
  <2> HIDE DEF tx
  <2>1. ask = Rpc!Ask(Rpc!Client!estimate_fee(sent, at), "fee")
    BY <1>1 DEF FeeQuestion, estimate_fee, Rpc!estimate_fee
  <2> HIDE DEF ask, sent, at
  <2>2. ask.asks /\ ask.request.method = "starknet_estimateFee" /\ ask.request.params = <<sent, at>>
    BY <2>1 DEF Rpc!Ask, Rpc!Client!estimate_fee, Rpc!Client!send_request
  <2>3. RpcMethods[ask.request.method] = CallOf("estimate_fee", <<"tx", "block">>)
    BY <2>2 DEF RpcMethods
  <2>4. /\ RpcReads(ask.request).op = "estimate_fee"
        /\ RpcReads(ask.request).args.tx = RpcTx(sent)
        /\ RpcReads(ask.request).args.block = RpcBlock(at)
    BY <2>2, <2>3, RpcTwo
  <2>5. TransactionOf(RpcTx(sent), b, n, f) /\ RpcBlock(at) = block
    BY BroadcastedRequest, RpcBlocks DEF sent, tx, at
  <2> QED BY <1>1, <2>2, <2>4, <2>5 DEF NodeReads, ask, tx
<1>2. CASE p # JsonRpcHttp
  <2>1. /\ ask = Gateway!post("estimate_fee",
                   Gateway!append_block_id(Gateway!skip_query(FALSE), block), tx)
        /\ ask.asks
    BY <1>2 DEF FeeQuestion, estimate_fee, Gateway!estimate_fee, Gateway!post, Gateway!Ask
  <2>2. NodeReads(p, ask.request) = GatewayReads(ask.request)
    BY <1>2 DEF NodeReads
  <2>3. TransactionOf(Unpacked(tx), b, n, f)
    BY UnpackedRequest
  <2> HIDE DEF tx, ask
  <2>4. /\ GatewayReads(ask.request).op = "estimate_fee"
        /\ GatewayReads(ask.request).args.tx = Unpacked(tx)
        /\ GatewayReads(ask.request).args.block = block
    BY <2>1, GatewayAsk
  <2> QED BY <2>1, <2>2, <2>3, <2>4 DEF ask, tx
<1> QED BY <1>1, <1>2

\* JSON-RPC cannot simulate, and says so without asking.
LEMMA SimulationReaches ==
  ASSUME NEW p, NEW b, NEW n, NEW f, b.kind \in Kinds, Request(b, n, f).ok,
         NEW block \in {Latest, Pending}
  PROVE  LET ask == Simulation(p, Request(b, n, f).value, block)
             call == NodeReads(p, ask.request)
         IN  ask.asks => /\ call.op = "simulate_transaction" /\ call.args.block = block
                         /\ TransactionOf(call.args.tx, b, n, f)
<1> DEFINE tx == Request(b, n, f).value
           ask == Simulation(p, tx, block)
<1>1. CASE p = JsonRpcHttp
  <2>1. ~ ask.asks
    BY <1>1 DEF Simulation, simulate_transaction,
                Rpc!simulate_transaction, Rpc!NotSupported, Rpc!Answer
  <2> QED BY <2>1
<1>2. CASE p # JsonRpcHttp
  <2>1. ask = Gateway!post("simulate_transaction",
                Gateway!append_block_id(Gateway!skip_query(FALSE), block), tx)
    BY <1>2 DEF Simulation, simulate_transaction, Gateway!simulate_transaction
  <2>2. NodeReads(p, ask.request) = GatewayReads(ask.request)
    BY <1>2 DEF NodeReads
  <2>3. TransactionOf(Unpacked(tx), b, n, f)
    BY UnpackedRequest
  <2> HIDE DEF tx, ask
  <2>4. /\ GatewayReads(ask.request).op = "simulate_transaction"
        /\ GatewayReads(ask.request).args.tx = Unpacked(tx)
        /\ GatewayReads(ask.request).args.block = block
    BY <2>1, GatewayAsk
  <2> QED BY <2>2, <2>3, <2>4 DEF ask, tx
<1> QED BY <1>1, <1>2

-----------------------------------------------------------------------------
(***************************************************************************)
(* What the node makes of a transaction, and the client of a response.     *)
(***************************************************************************)
\* The prefix of a hash, its six common elements, and what may follow.
LEMMA ConcatTuples ==
  ASSUME NEW p1, NEW p2, NEW a1, NEW a2, NEW a3, NEW a4, NEW a5, NEW a6, NEW c
  PROVE  /\ <<p1, p2>> \o <<a1, a2, a3, a4, a5, a6>> \o <<>> = <<p1, p2, a1, a2, a3, a4, a5, a6>>
         /\ <<p1, p2>> \o <<a1, a2, a3, a4, a5, a6>> \o <<c>> = <<p1, p2, a1, a2, a3, a4, a5, a6, c>>
<1> DEFINE S == {p1, p2, a1, a2, a3, a4, a5, a6, c}
           s == <<p1, p2>>
           t == <<a1, a2, a3, a4, a5, a6>>
           d == <<c>>
           st == <<p1, p2, a1, a2, a3, a4, a5, a6>>
           stc == <<p1, p2, a1, a2, a3, a4, a5, a6, c>>
<1>1. s \in Seq(S) /\ t \in Seq(S) /\ st \in Seq(S) /\ stc \in Seq(S) /\ d \in Seq(S)
  OBVIOUS
<1>2. Len(s) = 2 /\ s[1] = p1 /\ s[2] = p2
  OBVIOUS
<1>3. /\ Len(t) = 6 /\ t[1] = a1 /\ t[2] = a2 /\ t[3] = a3
      /\ t[4] = a4 /\ t[5] = a5 /\ t[6] = a6
  OBVIOUS
<1>4. /\ Len(st) = 8 /\ st[1] = p1 /\ st[2] = p2 /\ st[3] = a1 /\ st[4] = a2
      /\ st[5] = a3 /\ st[6] = a4 /\ st[7] = a5 /\ st[8] = a6
  OBVIOUS
<1>5. /\ Len(stc) = 9 /\ stc[1] = p1 /\ stc[2] = p2 /\ stc[3] = a1 /\ stc[4] = a2
      /\ stc[5] = a3 /\ stc[6] = a4 /\ stc[7] = a5 /\ stc[8] = a6 /\ stc[9] = c
  OBVIOUS
<1>6. Len(d) = 1 /\ d[1] = c
  OBVIOUS
<1> HIDE DEF s, t, d, st, stc, S
<1> DEFINE w == s \o t
           wc == st \o d
<1>7. w = st
  <2>1. /\ w \in Seq(S) /\ Len(w) = Len(s) + Len(t)
        /\ \A i \in 1 .. Len(s) + Len(t) :
             w[i] = IF i <= Len(s) THEN s[i] ELSE t[i - Len(s)]
    BY <1>1, ConcatProperties, Zenon
  <2> HIDE DEF w
  <2>2. Len(w) = 8 /\ \A i \in 1..8 : w[i] = IF i <= 2 THEN s[i] ELSE t[i - 2]
    BY <2>1, <1>2, <1>3
  <2>3. /\ w[1] = s[1] /\ w[2] = s[2] /\ w[3] = t[1] /\ w[4] = t[2]
        /\ w[5] = t[3] /\ w[6] = t[4] /\ w[7] = t[5] /\ w[8] = t[6]
    BY <2>2
  <2>4. \A i \in 1 .. Len(w) : w[i] = st[i]
    BY <2>2, <2>3, <1>2, <1>3, <1>4
  <2> QED BY <2>1, <2>2, <2>4, <1>1, <1>4, SeqEqual
<1>8. wc = stc
  <2>1. /\ wc \in Seq(S) /\ Len(wc) = Len(st) + Len(d)
        /\ \A i \in 1 .. Len(st) + Len(d) :
             wc[i] = IF i <= Len(st) THEN st[i] ELSE d[i - Len(st)]
    BY <1>1, ConcatProperties, Zenon
  <2> HIDE DEF wc
  <2>2. Len(wc) = 9 /\ \A i \in 1..9 : wc[i] = IF i <= 8 THEN st[i] ELSE d[i - 8]
    BY <2>1, <1>4, <1>6
  <2>3. /\ wc[1] = st[1] /\ wc[2] = st[2] /\ wc[3] = st[3] /\ wc[4] = st[4]
        /\ wc[5] = st[5] /\ wc[6] = st[6] /\ wc[7] = st[7] /\ wc[8] = st[8] /\ wc[9] = d[1]
    BY <2>2
  <2>4. \A i \in 1 .. Len(wc) : wc[i] = stc[i]
    BY <2>2, <2>3, <1>4, <1>5, <1>6
  <2> QED BY <2>1, <2>2, <2>4, <1>1, <1>5, SeqEqual
<1>9. st \o <<>> = st
  BY <1>1, ConcatEmptySeq
<1> QED BY <1>7, <1>8, <1>9 DEF s, t, d, st, stc

\* The elements that the node hashes, in their order.
LEMMA HashOfFields ==
  ASSUME NEW u, NEW q1, NEW q2, TransactionPrefix(u.type) = <<q1, q2>>
  PROVE  LET h == compute_hash_on_elements(HashedPayload(u))
         IN  /\ u.type # "DECLARE_V2" =>
                  TransactionHash(u) = compute_hash_on_elements(
                    <<q1, q2, TransactionAddress(u), 0, h, u.max_fee, ChainId, u.nonce>>)
             /\ u.type = "DECLARE_V2" =>
                  TransactionHash(u) = compute_hash_on_elements(
                    <<q1, q2, TransactionAddress(u), 0, h, u.max_fee, ChainId, u.nonce,
                      u.compiled_class_hash>>)
<1> DEFINE h == compute_hash_on_elements(HashedPayload(u))
           a == TransactionAddress(u)
           m == u.max_fee
           k == u.nonce
           c == u.compiled_class_hash
           tail == IF u.type = "DECLARE_V2" THEN <<c>> ELSE <<>>
           elements == <<q1, q2>> \o <<a, 0, h, m, ChainId, k>> \o tail
<1>1. TransactionHash(u) = compute_hash_on_elements(elements)
  BY DEF TransactionHash
<1>2. /\ u.type # "DECLARE_V2" => tail = <<>>
      /\ u.type = "DECLARE_V2" => tail = <<c>>
  OBVIOUS
<1> HIDE DEF h, a, m, k, c, tail
<1>3. /\ <<q1, q2>> \o <<a, 0, h, m, ChainId, k>> \o <<>>
           = <<q1, q2, a, 0, h, m, ChainId, k>>
      /\ <<q1, q2>> \o <<a, 0, h, m, ChainId, k>> \o <<c>>
           = <<q1, q2, a, 0, h, m, ChainId, k, c>>
  BY ConcatTuples
<1>4. /\ u.type # "DECLARE_V2" => elements = <<q1, q2, a, 0, h, m, ChainId, k>>
      /\ u.type = "DECLARE_V2" => elements = <<q1, q2, a, 0, h, m, ChainId, k, c>>
  BY <1>2, <1>3
<1> HIDE DEF elements
<1> QED BY <1>1, <1>4 DEF h, a, m, k, c

\* The node finds the account of a builder and accepts the signature: it
\* hashes the same elements.
LEMMA TransactionAccepted ==
  ASSUME NEW b, Sound(b), NEW u, NEW n, NEW f, TransactionOf(u, b, n, f)
  PROVE  TransactionAddress(u) = AddressOf(b) /\ Accepted(u)
<1> USE DEF Sound, TransactionOf
<1>1. CASE b.kind = "execution"
  <2>1. TransactionAddress(u) = AddressOf(b)
    BY <1>1 DEF TransactionAddress, AddressOf
  <2>2. /\ u.type = "INVOKE_FUNCTION" /\ HashedPayload(u) = raw_calldata(b.calls)
        /\ u.max_fee = f /\ u.nonce = n /\ AddressOf(b) = b.account.address
        /\ TransactionPrefix(u.type) = <<"invoke", 1>>
    BY <1>1 DEF HashedPayload, TransactionPrefix, AddressOf
  <2>3. TransactionHash(u) = ExecutionHash(b, n, f)
    BY <2>1, <2>2, HashOfFields DEF ExecutionHash
  <2>4. u.signature = <<"signature", b.account.signer, ExecutionHash(b, n, f)>>
    BY <1>1 DEF sign_execution, sign_hash
  <2> QED BY <2>1, <2>3, <2>4 DEF Accepted, OwnerOf
<1>2. CASE b.kind = "declaration"
  <2>1. TransactionAddress(u) = AddressOf(b)
    BY <1>2 DEF TransactionAddress, AddressOf
  <2>2. /\ u.type = "DECLARE_V2" /\ HashedPayload(u) = <<b.contract_class.hash>>
        /\ u.max_fee = f /\ u.nonce = n /\ AddressOf(b) = b.account.address
        /\ TransactionPrefix(u.type) = <<"declare", 2>>
        /\ u.compiled_class_hash = b.compiled_class_hash
    BY <1>2 DEF HashedPayload, TransactionPrefix, AddressOf
  <2>3. TransactionHash(u) = DeclarationHash(b, n, f)
    BY <2>1, <2>2, HashOfFields DEF DeclarationHash
  <2>4. u.signature = <<"signature", b.account.signer, DeclarationHash(b, n, f)>>
    BY <1>2 DEF sign_declaration, sign_hash
  <2> QED BY <2>1, <2>3, <2>4 DEF Accepted, OwnerOf
<1>3. CASE b.kind = "legacy"
  <2>1. TransactionAddress(u) = AddressOf(b)
    BY <1>3 DEF TransactionAddress, AddressOf
  <2>2. /\ u.type = "DECLARE_V1" /\ HashedPayload(u) = <<b.contract_class.hash>>
        /\ u.max_fee = f /\ u.nonce = n /\ AddressOf(b) = b.account.address
        /\ TransactionPrefix(u.type) = <<"declare", 1>>
    BY <1>3 DEF HashedPayload, TransactionPrefix, AddressOf
  <2>3. TransactionHash(u) = LegacyDeclarationHash(b, n, f)
    BY <2>1, <2>2, HashOfFields DEF LegacyDeclarationHash
  <2>4. u.signature = <<"signature", b.account.signer, LegacyDeclarationHash(b, n, f)>>
    BY <1>3 DEF sign_legacy_declaration, sign_hash
  <2> QED BY <2>1, <2>3, <2>4 DEF Accepted, OwnerOf
<1>4. CASE b.kind = "deployment"
  <2>1. TransactionAddress(u) = AddressOf(b) /\ AddressOf(b) = DeploymentAddress(b)
    BY <1>4 DEF TransactionAddress, AddressOf, DeploymentAddress, calculate_contract_address
  <2>2. /\ u.type = "DEPLOY_ACCOUNT"
        /\ HashedPayload(u) = <<b.account.class_hash, b.salt>> \o b.account.calldata
        /\ u.max_fee = f /\ u.nonce = n
        /\ TransactionPrefix(u.type) = <<"deploy_account", 1>>
    BY <1>4 DEF HashedPayload, TransactionPrefix
  <2>3. TransactionHash(u) = DeploymentHash(b, n, f)
    BY <2>1, <2>2, HashOfFields DEF DeploymentHash
  <2>4. u.signature = <<"signature", b.account.signer, DeploymentHash(b, n, f)>>
    BY <1>4 DEF sign_deployment, sign_hash
  <2> QED BY <2>1, <2>3, <2>4 DEF Accepted, OwnerOf
<1> QED BY <1>1, <1>2, <1>3, <1>4 DEF Kinds

\* How the two questions are read; none of their readings invents a value.
LEMMA QuestionsRead ==
  ASSUME NEW p, NEW address, NEW block, NEW tx
  PROVE  /\ get_nonce(p, address, block).asks /\ get_nonce(p, address, block).reads = "felt"
         /\ FeeQuestion(p, tx, block).asks
         /\ FeeQuestion(p, tx, block).reads
              = IF p = JsonRpcHttp THEN "fee" ELSE "data"
BY DEF get_nonce, Rpc!get_nonce, Gateway!get_nonce, Gateway!get_felt, FeeQuestion, estimate_fee,
       Rpc!estimate_fee, Gateway!estimate_fee, Gateway!post, Rpc!Ask, Gateway!Ask

\* A response without a body of the node's is an error, and not the one that
\* says that a contract is missing.
LEMMA LostResponse ==
  ASSUME NEW p, NEW ask, ask.asks, ask.reads \in {"felt", "fee", "data"},
         NEW r \in {Broken, TooManyRequests, Garbage}
  PROVE  ~ received(p, ask, r).ok /\ ~ ContractMissing(received(p, ask, r))
<1> USE DEF received, Wrapped, AnyError, ContractMissing, Err, Other, RateLimited
<1>1. CASE p = JsonRpcHttp
  <2>1. Rpc!Client!HttpTransportFails(r)
    BY DEF Rpc!Client!HttpTransportFails, Broken, TooManyRequests, Garbage
  <2>2. Rpc!received(ask.reads, r) = Err(Other("TransportError"))
    BY <2>1 DEF Rpc!received, Rpc!Client!received, Rpc!Client!Err,
                Rpc!Err, Rpc!ProviderErrorOf, Rpc!Other
  <2> QED BY <1>1, <2>2 DEF received
<1>2. CASE p # JsonRpcHttp
  <2>1. \/ Gateway!received(ask.reads, r) = Err(Other("Network"))
        \/ Gateway!received(ask.reads, r) = Err(Other("Serde"))
        \/ Gateway!received(ask.reads, r) = Err(RateLimited)
    BY DEF Gateway!received, Gateway!Err, Gateway!Other, Gateway!RateLimited,
           Broken, TooManyRequests, Garbage
  <2> QED BY <1>2, <2>1 DEF received
<1> QED BY <1>1, <1>2

\* What the node said of a nonce is what the caller gets.
LEMMA NonceReceived ==
  ASSUME NEW p, NEW ask, ask.asks, ask.reads = "felt", NEW v, NEW e
  PROVE  /\ received(p, ask, NodeResponse(p, "get_nonce", Ok(v))) = Ok(v)
         /\ ~ received(p, ask, NodeResponse(p, "get_nonce", Err(e))).ok
<1>1. CASE p = JsonRpcHttp
  <2>1. NodeResponse(p, "get_nonce", Ok(v)) = Data(v)
    BY <1>1 DEF NodeResponse, RpcResponse, RpcUnknownTransaction, RpcData, Ok
  <2>2. Rpc!received("felt", Data(v)) = Ok(v)
    BY DEF Rpc!received, Rpc!Client!received, Rpc!Client!HttpTransportFails, Rpc!Client!Ok,
           Rpc!Ok, Rpc!Converted, Data, Ok
  <2>3. received(p, ask, Data(v)) = Wrapped(p, Ok(v))
    BY <1>1, <2>2 DEF received
  <2>4. Wrapped(p, Ok(v)) = Ok(v)
    BY DEF Wrapped, Ok
  <2>5. NodeResponse(p, "get_nonce", Err(e)) = NodeError(RpcRefusal[e])
    BY <1>1 DEF NodeResponse, RpcResponse, Err
  <2>6. ~ Rpc!received("felt", NodeError(RpcRefusal[e])).ok
    BY DEF Rpc!received, Rpc!Client!received, Rpc!Client!HttpTransportFails, Rpc!Client!Err,
           Rpc!Err, NodeError
  <2>7. ~ received(p, ask, NodeError(RpcRefusal[e])).ok
    BY <1>1, <2>6 DEF received, Wrapped, Err
  <2> QED BY <2>1, <2>3, <2>4, <2>5, <2>7
<1>2. CASE p # JsonRpcHttp
  <2>1. NodeResponse(p, "get_nonce", Ok(v)) = Data(v)
    BY <1>2 DEF NodeResponse, GatewayResponse, GatewayData, Ok
  <2>2. Gateway!received("felt", Data(v)) = Ok(v)
    BY DEF Gateway!received, Gateway!FeltResponse, Gateway!Ok, Data, Ok
  <2>3. received(p, ask, Data(v)) = Wrapped(p, Ok(v))
    BY <1>2, <2>2 DEF received
  <2>4. Wrapped(p, Ok(v)) = Ok(v)
    BY DEF Wrapped, Ok
  <2>5. NodeResponse(p, "get_nonce", Err(e)) = NodeError(GatewayRefusal[e])
    BY <1>2 DEF NodeResponse, GatewayResponse, Err
  <2>6. ~ Gateway!received("felt", NodeError(GatewayRefusal[e])).ok
    BY DEF Gateway!received, Gateway!FeltResponse, Gateway!SequencerError, Gateway!Err, NodeError
  <2>7. ~ received(p, ask, NodeError(GatewayRefusal[e])).ok
    BY <1>2, <2>6 DEF received, Wrapped, Err
  <2> QED BY <2>1, <2>3, <2>4, <2>5, <2>7
<1> QED BY <1>1, <1>2

\* And so is its estimate of a fee.
LEMMA FeeReceived ==
  ASSUME NEW p, NEW ask, ask.asks, ask.reads = IF p = JsonRpcHttp THEN "fee" ELSE "data",
         NEW v, NEW e
  PROVE  LET r == received(p, ask, NodeResponse(p, "estimate_fee", Ok(v)))
         IN  /\ r.ok /\ r.value.overall_fee = v.fee
             /\ ~ received(p, ask, NodeResponse(p, "estimate_fee", Err(e))).ok
<1> USE DEF received, Wrapped, Ok, Err, NodeResponse
<1>1. CASE p = JsonRpcHttp
  <2> DEFINE d == [overall_fee |-> v.fee, gas_price |-> v.gas_price, gas_consumed |-> v.gas]
  <2>1. RpcResponse("estimate_fee", Ok(v)) = Data(d)
    BY DEF RpcResponse, RpcUnknownTransaction, RpcData
  <2>2. /\ Rpc!received("fee", Data(d)).ok
        /\ Rpc!received("fee", Data(d)).value.overall_fee = v.fee
    BY DEF Rpc!received, Rpc!Client!received, Rpc!Client!HttpTransportFails, Rpc!Client!Ok,
           Rpc!Ok, Rpc!Converted, Rpc!FeeEstimateOf, Data
  <2>3. RpcResponse("estimate_fee", Err(e)) = NodeError(RpcRefusal[e])
    BY DEF RpcResponse
  <2>4. ~ Rpc!received("fee", NodeError(RpcRefusal[e])).ok
    BY DEF Rpc!received, Rpc!Client!received, Rpc!Client!HttpTransportFails, Rpc!Client!Err,
           Rpc!Err, NodeError
  <2> QED BY <1>1, <2>1, <2>2, <2>3, <2>4
<1>2. CASE p # JsonRpcHttp
  <2> DEFINE d == [overall_fee |-> v.fee, unit |-> "wei",
                   gas_price |-> v.gas_price, gas_usage |-> v.gas]
  <2>1. GatewayResponse("estimate_fee", Ok(v)) = Data(d)
    BY DEF GatewayResponse, GatewayData
  <2>2. Gateway!received("data", Data(d)) = Ok(d)
    BY DEF Gateway!received, Gateway!DataResponse, Gateway!Ok, Data
  <2>3. GatewayResponse("estimate_fee", Err(e)) = NodeError(GatewayRefusal[e])
    BY DEF GatewayResponse
  <2>4. ~ Gateway!received("data", NodeError(GatewayRefusal[e])).ok
    BY DEF Gateway!received, Gateway!DataResponse, Gateway!SequencerError, Gateway!Err, NodeError
  <2> QED BY <1>2, <2>1, <2>2, <2>3, <2>4
<1> QED BY <1>1, <1>2
-----------------------------------------------------------------------------
(***************************************************************************)
(* A sequence of sequences, flattened.                                     *)
(***************************************************************************)
FlattenStep(g, seqs, i) == IF i = 1 THEN seqs[i] ELSE g[i - 1] \o seqs[i]
FlattenTable(g, seqs, n) == g = [i \in 1..n |-> FlattenStep(g, seqs, i)]

\* Up to every index there is a table of concatenations.
LEMMA FlattenTables ==
  ASSUME NEW seqs, NEW n \in Nat
  PROVE  \E g : FlattenTable(g, seqs, n)
<1> USE DEF FlattenTable
<1> DEFINE S == {m \in Nat : ~ \E g : g = [i \in 1..m |-> FlattenStep(g, seqs, i)]}
<1> SUFFICES S = {}
  OBVIOUS
<1> SUFFICES ASSUME S # {} PROVE FALSE
  OBVIOUS
<1>1. PICK m \in S : \A k \in S : m <= k
  BY LeastElement
<1>2. CASE m = 0
  <2> DEFINE g == [i \in 1..0 |-> seqs]
  <2>1. g = [i \in 1..0 |-> FlattenStep(g, seqs, i)]
    OBVIOUS
  <2> QED BY <1>1, <1>2, <2>1
<1>3. CASE m # 0
  <2>1. m \in Nat /\ m - 1 \in Nat /\ m - 1 \notin S
    BY <1>1, <1>3
  <2>2. PICK g : g = [i \in 1..(m - 1) |-> FlattenStep(g, seqs, i)]
    BY <2>1
  <2> DEFINE h == [i \in 1..m |-> IF i = m THEN FlattenStep(g, seqs, m) ELSE g[i]]
  <2>3. ASSUME NEW i \in 1..m PROVE h[i] = FlattenStep(h, seqs, i)
    <3>1. CASE i = 1
      BY <2>1, <2>2, <3>1 DEF FlattenStep
    <3>2. CASE i # 1
      <4>1. i - 1 \in 1..m /\ i - 1 # m /\ (i # m => i \in 1..(m - 1))
        BY <2>1, <3>2
      <4>2. h[i - 1] = g[i - 1]
        BY <4>1
      <4>3. h[i] = IF i = m THEN FlattenStep(g, seqs, m) ELSE g[i]
        OBVIOUS
      <4>4. i # m => g[i] = FlattenStep(g, seqs, i)
        BY <2>2, <4>1
      <4> HIDE DEF h
      <4>5. FlattenStep(h, seqs, i) = FlattenStep(g, seqs, i)
        BY <3>2, <4>2 DEF FlattenStep
      <4> QED BY <4>3, <4>4, <4>5
    <3> QED BY <3>1, <3>2
  <2>4. h = [i \in 1..m |-> FlattenStep(h, seqs, i)]
    BY <2>3
  <2> QED BY <1>1, <2>4
<1> QED BY <1>2, <1>3

\* The last entry of such a table is the flattened sequence.
LEMMA FlattenIs ==
  ASSUME NEW s, NEW n \in Nat \ {0}, Len(s) = n, NEW r,
         \A i \in 1..n : r[i] = FlattenStep(r, s, i)
  PROVE  FlattenSeq(s) = r[n]
<1> DEFINE f == CHOOSE f : f = [i \in 1..n |-> FlattenStep(f, s, i)]
<1>1. FlattenSeq(s) = f[n]
  BY DEF FlattenSeq, FlattenStep
<1>2. \E g : FlattenTable(g, s, n)
  <2>1. n \in Nat
    OBVIOUS
  <2> QED BY <2>1, FlattenTables
<1>3. f = [i \in 1..n |-> FlattenStep(f, s, i)]
  BY <1>2 DEF FlattenTable
<1> HIDE DEF f
<1> DEFINE D == {i \in 1..n : f[i] # r[i]}
<1>4. CASE D = {}
  BY <1>1, <1>4
<1>5. CASE D # {}
  <2>0. D \in SUBSET Nat
    OBVIOUS
  <2>1. PICK m \in D : \A k \in D : m <= k
    BY <1>5, <2>0, LeastElement
  <2>2. f[m] = FlattenStep(f, s, m) /\ r[m] = FlattenStep(r, s, m)
    BY <1>3
  <2>3. m # 1 => f[m - 1] = r[m - 1]
    <3>1. m # 1 => m - 1 \in 1..n /\ ~ (m <= m - 1)
      OBVIOUS
    <3> QED BY <2>1, <3>1
  <2>4. f[m] = r[m]
    BY <2>2, <2>3 DEF FlattenStep
  <2> QED BY <2>4
<1> QED BY <1>4, <1>5

\* What the first k sequences come to.
Prefix(seqs, k) == FlattenSeq(SubSeq(seqs, 1, k))

\* Every sequence is added at the end of those before it.
LEMMA PrefixGrows ==
  ASSUME NEW T, NEW seqs \in Seq(Seq(T))
  PROVE  /\ Prefix(seqs, 0) = <<>>
         /\ \A k \in 1 .. Len(seqs) : Prefix(seqs, k) = Prefix(seqs, k - 1) \o seqs[k]
         /\ FlattenSeq(seqs) = Prefix(seqs, Len(seqs))
<1> DEFINE n == Len(seqs)
<1>1. n \in Nat /\ DOMAIN seqs = 1..n /\ \A i \in 1..n : seqs[i] \in Seq(T)
  OBVIOUS
<1>2. PICK g : FlattenTable(g, seqs, n)
  BY <1>1, FlattenTables
<1>3. \A i \in 1..n : g[i] = FlattenStep(g, seqs, i)
  BY <1>2 DEF FlattenTable
<1>4. SubSeq(seqs, 1, n) = seqs
  BY SubSeqFull
<1>5. Prefix(seqs, 0) = <<>>
  <2>1. SubSeq(seqs, 1, 0) = <<>>
    BY SubSeqEmpty
  <2>2. FlattenSeq(<<>>) = <<>>
    BY DEF FlattenSeq
  <2> QED BY <2>1, <2>2 DEF Prefix
<1>6. ASSUME NEW k \in 1..n PROVE Prefix(seqs, k) = g[k]
  <2> DEFINE s == SubSeq(seqs, 1, k)
  <2>1. Len(s) = k /\ \A i \in 1..k : s[i] = seqs[i]
    <3>1. \A i \in 1..k : seqs[i] \in Seq(T)
      BY <1>1
    <3> QED BY <3>1, SubSeqProperties
  <2> HIDE DEF s
  <2>2. \A i \in 1..k : g[i] = FlattenStep(g, s, i)
    BY <1>1, <1>3, <2>1 DEF FlattenStep
  <2>3. FlattenSeq(s) = g[k]
    BY <2>1, <2>2, FlattenIs
  <2> QED BY <2>3 DEF Prefix, s
<1>7. ASSUME NEW k \in 1..n PROVE Prefix(seqs, k) = Prefix(seqs, k - 1) \o seqs[k]
  <2>1. CASE k = 1
    <3>1. Prefix(seqs, k) = seqs[k]
      BY <1>3, <1>6, <2>1 DEF FlattenStep
    <3>2. <<>> \o seqs[k] = seqs[k]
      BY <1>1, ConcatEmptySeq
    <3> QED BY <1>5, <2>1, <3>1, <3>2
  <2>2. CASE k # 1
    <3>1. k - 1 \in 1..n
      BY <1>1, <2>2
    <3> QED BY <1>3, <1>6, <2>2, <3>1 DEF FlattenStep
  <2> QED BY <2>1, <2>2
<1> QED BY <1>4, <1>5, <1>7 DEF Prefix

\* The elements of a sequence are where the sequences before it end.
LEMMA FlattenPieces ==
  ASSUME NEW T, NEW seqs \in Seq(Seq(T)), NEW k \in 0 .. Len(seqs)
  PROVE  /\ Prefix(seqs, k) \in Seq(T)
         /\ \A i \in 1..k :
              /\ Len(Prefix(seqs, i - 1)) \in Nat
              /\ Len(Prefix(seqs, i - 1)) + Len(seqs[i]) <= Len(Prefix(seqs, k))
              /\ \A x \in 1 .. Len(seqs[i]) :
                   Prefix(seqs, k)[Len(Prefix(seqs, i - 1)) + x] = seqs[i][x]
<1> DEFINE Good(m) ==
             /\ Prefix(seqs, m) \in Seq(T)
             /\ \A i \in 1..m :
                  /\ Len(Prefix(seqs, i - 1)) \in Nat
                  /\ Len(Prefix(seqs, i - 1)) + Len(seqs[i]) <= Len(Prefix(seqs, m))
                  /\ \A x \in 1 .. Len(seqs[i]) :
                       Prefix(seqs, m)[Len(Prefix(seqs, i - 1)) + x] = seqs[i][x]
           n == Len(seqs)
           S == {m \in 0..n : ~ Good(m)}
<1>1. n \in Nat /\ \A i \in 1..n : seqs[i] \in Seq(T) /\ Len(seqs[i]) \in Nat
  OBVIOUS
<1>2. Good(0)
  <2>1. Prefix(seqs, 0) = <<>>
    BY PrefixGrows
  <2>2. <<>> \in Seq(T) /\ \A i \in 1..0 : FALSE
    OBVIOUS
  <2> QED BY <2>1, <2>2
<1>3. ASSUME NEW m \in 1..n, Good(m - 1) PROVE Good(m)
  <2> DEFINE p == Prefix(seqs, m - 1)
             q == Prefix(seqs, m)
             s == seqs[m]
  <2>1. q = p \o s
    BY PrefixGrows
  <2>2. p \in Seq(T) /\ s \in Seq(T) /\ Len(p) \in Nat /\ Len(s) \in Nat
    BY <1>1, <1>3
  <2>3. /\ q \in Seq(T) /\ Len(q) = Len(p) + Len(s)
        /\ \A y \in 1 .. Len(p) + Len(s) : q[y] = IF y <= Len(p) THEN p[y] ELSE s[y - Len(p)]
    <3> HIDE DEF p, q, s
    <3> QED BY <2>1, <2>2, ConcatProperties, Zenon
  <2>4. ASSUME NEW i \in 1..m
        PROVE  /\ Len(Prefix(seqs, i - 1)) \in Nat
               /\ Len(Prefix(seqs, i - 1)) + Len(seqs[i]) <= Len(q)
               /\ \A x \in 1 .. Len(seqs[i]) :
                    q[Len(Prefix(seqs, i - 1)) + x] = seqs[i][x]
    <3> DEFINE o == Len(Prefix(seqs, i - 1))
    <3>1. CASE i = m
      <4>1. o = Len(p) /\ seqs[i] = s
        BY <3>1
      <4> HIDE DEF o, p, q, s
      <4>2. ASSUME NEW x \in 1 .. Len(s) PROVE q[Len(p) + x] = s[x]
        <5>1. /\ Len(p) + x \in 1 .. Len(p) + Len(s) /\ ~ (Len(p) + x <= Len(p))
              /\ (Len(p) + x) - Len(p) = x
          BY <2>2
        <5> QED BY <2>3, <5>1
      <4>3. o \in Nat /\ o + Len(seqs[i]) <= Len(q)
        BY <2>2, <2>3, <4>1
      <4> QED BY <4>1, <4>2, <4>3 DEF o, q
    <3>2. CASE i # m
      <4>1. i \in 1 .. (m - 1) /\ i \in 1..n
        BY <1>1, <3>2
      <4>2. /\ o \in Nat /\ o + Len(seqs[i]) <= Len(p)
            /\ \A x \in 1 .. Len(seqs[i]) : p[o + x] = seqs[i][x]
        BY <1>3, <4>1
      <4>3. Len(seqs[i]) \in Nat
        BY <1>1, <4>1
      <4> HIDE DEF o, p, q, s
      <4>4. ASSUME NEW x \in 1 .. Len(seqs[i]) PROVE q[o + x] = seqs[i][x]
        <5>1. o + x \in 1 .. Len(p) + Len(s) /\ o + x <= Len(p)
          BY <2>2, <4>2, <4>3
        <5> QED BY <2>3, <4>2, <5>1
      <4>5. o + Len(seqs[i]) <= Len(q)
        BY <2>2, <2>3, <4>2, <4>3
      <4> QED BY <4>2, <4>4, <4>5 DEF o, q
    <3> QED BY <3>1, <3>2
  <2> QED BY <2>3, <2>4
<1> HIDE DEF Good
<1>4. S = {}
  <2> SUFFICES ASSUME S # {} PROVE FALSE
    OBVIOUS
  <2>1. S \in SUBSET Nat
    BY <1>1
  <2>2. PICK m \in S : \A x \in S : m <= x
    BY <2>1, LeastElement
  <2>3. m \in 1..n /\ m - 1 \in 0..n /\ m - 1 \notin S
    BY <1>1, <1>2, <2>2
  <2> QED BY <1>3, <2>2, <2>3
<1>5. Good(k)
  BY <1>4
<1> QED BY <1>5 DEF Good

\* Headers of four elements each.
LEMMA FlattenFours ==
  ASSUME NEW T, NEW seqs \in Seq(Seq(T)), \A i \in 1 .. Len(seqs) : Len(seqs[i]) = 4,
         NEW k \in 0 .. Len(seqs)
  PROVE  Len(Prefix(seqs, k)) = 4 * k
<1> DEFINE n == Len(seqs)
           S == {m \in 0..n : Len(Prefix(seqs, m)) # 4 * m}
<1>1. n \in Nat /\ \A i \in 1..n : seqs[i] \in Seq(T)
  OBVIOUS
<1>2. S = {}
  <2> SUFFICES ASSUME S # {} PROVE FALSE
    OBVIOUS
  <2>1. S \in SUBSET Nat
    BY <1>1
  <2>2. PICK m \in S : \A x \in S : m <= x
    BY <2>1, LeastElement
  <2>3. m # 0
    <3>1. Prefix(seqs, 0) = <<>>
      BY PrefixGrows
    <3> QED BY <2>2, <3>1
  <2>4. m \in 1..n /\ m - 1 \in 0..n /\ m - 1 \notin S
    BY <1>1, <2>2, <2>3
  <2> DEFINE p == Prefix(seqs, m - 1)
             q == Prefix(seqs, m)
             s == seqs[m]
  <2>5. Len(p) = 4 * (m - 1)
    BY <2>4
  <2>6. q = p \o s /\ p \in Seq(T) /\ s \in Seq(T) /\ Len(s) = 4
    BY <1>1, <2>4, PrefixGrows, FlattenPieces
  <2>7. Len(q) # 4 * m
    BY <2>2
  <2> HIDE DEF p, q, s
  <2>8. Len(q) = Len(p) + Len(s)
    BY <2>6, ConcatProperties
  <2> QED BY <2>4, <2>5, <2>6, <2>7, <2>8
<1> QED BY <1>2

-----------------------------------------------------------------------------
(***************************************************************************)
(* The account contract reads the calls of the builder from the calldata.  *)
(***************************************************************************)
\* Where the four parts of the calldata are.
LEMMA ConcatFour ==
  ASSUME NEW T, NEW a \in T, NEW c \in T, NEW s \in Seq(T), NEW t \in Seq(T)
  PROVE  LET raw == <<a>> \o s \o <<c>> \o t
         IN  /\ Len(raw) = Len(s) + Len(t) + 2 /\ raw[1] = a
             /\ \A x \in 1 .. Len(s) : raw[1 + x] = s[x]
             /\ \A y \in 1 .. Len(t) : raw[Len(s) + 2 + y] = t[y]
<1> DEFINE one == <<a>>
           two == one \o s
           mid == <<c>>
           three == two \o mid
           four == three \o t
<1>1. /\ one \in Seq(T) /\ Len(one) = 1 /\ one[1] = a
      /\ mid \in Seq(T) /\ Len(mid) = 1 /\ mid[1] = c
      /\ Len(s) \in Nat /\ Len(t) \in Nat
  OBVIOUS
<1> HIDE DEF one, mid
<1>2. /\ two \in Seq(T) /\ Len(two) = Len(one) + Len(s)
      /\ \A i \in 1 .. Len(one) + Len(s) : two[i] = IF i <= Len(one) THEN one[i] ELSE s[i - Len(one)]
  BY <1>1, ConcatProperties, Zenon
<1> HIDE DEF two
<1>3. /\ three \in Seq(T) /\ Len(three) = Len(two) + Len(mid)
      /\ \A i \in 1 .. Len(two) + Len(mid) :
           three[i] = IF i <= Len(two) THEN two[i] ELSE mid[i - Len(two)]
  <2>1. two \in Seq(T) /\ mid \in Seq(T)
    BY <1>1, <1>2
  <2> QED BY <2>1, ConcatProperties, Zenon
<1> HIDE DEF three
<1>4. /\ four \in Seq(T) /\ Len(four) = Len(three) + Len(t)
      /\ \A i \in 1 .. Len(three) + Len(t) :
           four[i] = IF i <= Len(three) THEN three[i] ELSE t[i - Len(three)]
  <2>1. three \in Seq(T)
    BY <1>3
  <2> QED BY <2>1, ConcatProperties, Zenon
<1> HIDE DEF four
<1>5. /\ Len(two) = Len(s) + 1 /\ Len(three) = Len(s) + 2
      /\ Len(four) = Len(s) + Len(t) + 2
  BY <1>1, <1>2, <1>3, <1>4
<1>6. four[1] = a
  BY <1>1, <1>2, <1>3, <1>4, <1>5
<1>7. ASSUME NEW x \in 1 .. Len(s) PROVE four[1 + x] = s[x]
  <2>1. 1 + x \in 1 .. Len(s) + 1 /\ (1 + x) - 1 = x /\ ~ (1 + x <= 1)
    BY <1>1
  <2>2. two[1 + x] = s[x]
    BY <1>1, <1>2, <2>1
  <2>3. three[1 + x] = two[1 + x]
    BY <1>1, <1>3, <1>5, <2>1
  <2>4. four[1 + x] = three[1 + x]
    BY <1>1, <1>4, <1>5, <2>1
  <2> QED BY <2>2, <2>3, <2>4
<1>8. ASSUME NEW y \in 1 .. Len(t) PROVE four[Len(s) + 2 + y] = t[y]
  <2>1. /\ Len(s) + 2 + y \in 1 .. (Len(s) + 2) + Len(t) /\ ~ (Len(s) + 2 + y <= Len(s) + 2)
        /\ (Len(s) + 2 + y) - (Len(s) + 2) = y
    BY <1>1
  <2> QED BY <1>4, <1>5, <2>1
<1> QED BY <1>5, <1>6, <1>7, <1>8 DEF four, three, two, one, mid

\* The calls come out as they went in.
LEMMA CallsDecoded ==
  ASSUME NEW calls, IsSequence(calls), \A i \in DOMAIN calls : IsCall(calls[i])
  PROVE  DecodedCalls(raw_calldata(calls)) = calls
<1> DEFINE n == Len(calls)
           data == [i \in DOMAIN calls |-> calls[i].calldata]
           header(i) == <<calls[i].to, calls[i].selector, Len(Prefix(data, i - 1)), Len(data[i])>>
           headers == [i \in DOMAIN calls |-> header(i)]
           H == FlattenSeq(headers)
           C == FlattenSeq(data)
           raw == <<n>> \o H \o <<Len(C)>> \o C
           T == Int \union {calls[i].to : i \in 1..n} \union {calls[i].selector : i \in 1..n}
                \union UNION {{calls[i].calldata[x] : x \in 1 .. Len(calls[i].calldata)} :
                                i \in 1..n}
<1>1. raw_calldata(calls) = raw
  BY DEF raw_calldata, Prefix
<1>2. n \in Nat /\ DOMAIN calls = 1..n /\ calls = [i \in 1..n |-> calls[i]]
  BY DEF IsSequence
<1>3. ASSUME NEW i \in 1..n
      PROVE  /\ calls[i].to \in T /\ calls[i].selector \in T
             /\ calls[i].calldata \in Seq(T) /\ Len(calls[i].calldata) \in Nat
  <2>1. calls[i].to \in T /\ calls[i].selector \in T
    OBVIOUS
  <2>2. \A x \in 1 .. Len(calls[i].calldata) : calls[i].calldata[x] \in T
    OBVIOUS
  <2>3. IsSequence(calls[i].calldata)
    BY <1>2 DEF IsCall
  <2> HIDE DEF T
  <2> QED BY <2>1, <2>2, <2>3 DEF IsSequence
<1>4. Int \subseteq T
  OBVIOUS
<1> HIDE DEF T
<1>5. /\ data \in Seq(Seq(T)) /\ Len(data) = n
      /\ \A i \in 1..n : data[i] = calls[i].calldata
  BY <1>2, <1>3
<1> HIDE DEF data
<1>6. C = Prefix(data, n)
  BY <1>5, PrefixGrows
<1>7. /\ C \in Seq(T)
      /\ \A i \in 1..n :
           /\ Len(Prefix(data, i - 1)) \in Nat
           /\ Len(Prefix(data, i - 1)) + Len(data[i]) <= Len(C)
           /\ \A x \in 1 .. Len(data[i]) : C[Len(Prefix(data, i - 1)) + x] = data[i][x]
  <2>1. n \in 0 .. Len(data)
    BY <1>2, <1>5
  <2>2. /\ Prefix(data, n) \in Seq(T)
        /\ \A i \in 1..n :
             /\ Len(Prefix(data, i - 1)) \in Nat
             /\ Len(Prefix(data, i - 1)) + Len(data[i]) <= Len(Prefix(data, n))
             /\ \A x \in 1 .. Len(data[i]) :
                  Prefix(data, n)[Len(Prefix(data, i - 1)) + x] = data[i][x]
    BY <1>5, <2>1, FlattenPieces
  <2> HIDE DEF C
  <2> QED BY <1>6, <2>2
<1> HIDE DEF C
<1>8. ASSUME NEW i \in 1..n
      PROVE  /\ header(i) \in Seq(T) /\ Len(header(i)) = 4
             /\ header(i)[1] = calls[i].to /\ header(i)[2] = calls[i].selector
             /\ header(i)[3] = Len(Prefix(data, i - 1)) /\ header(i)[4] = Len(data[i])
  <2> DEFINE o == Len(Prefix(data, i - 1))
             l == Len(data[i])
  <2>1. o \in T /\ l \in T /\ calls[i].to \in T /\ calls[i].selector \in T
    BY <1>3, <1>4, <1>5, <1>7
  <2> HIDE DEF o, l
  <2>2. /\ <<calls[i].to, calls[i].selector, o, l>> \in Seq(T)
        /\ Len(<<calls[i].to, calls[i].selector, o, l>>) = 4
    BY <2>1
  <2> QED BY <2>2 DEF o, l
<1> HIDE DEF header
<1>9. /\ headers \in Seq(Seq(T)) /\ Len(headers) = n
      /\ \A i \in 1..n : headers[i] = header(i)
  BY <1>2, <1>8
<1> HIDE DEF headers
<1>10. /\ H \in Seq(T) /\ Len(H) = 4 * n
       /\ \A i \in 1..n : \A x \in 1..4 : H[4 * (i - 1) + x] = header(i)[x]
  <2>1. H = Prefix(headers, n)
    BY <1>9, PrefixGrows
  <2>2. \A i \in 1 .. Len(headers) : Len(headers[i]) = 4
    BY <1>8, <1>9
  <2>3. \A k \in 0..n : Len(Prefix(headers, k)) = 4 * k
    BY <1>9, <2>2, FlattenFours
  <2>4. n \in 0 .. Len(headers)
    BY <1>2, <1>9
  <2>5. /\ Prefix(headers, n) \in Seq(T)
        /\ \A i \in 1..n : \A x \in 1 .. Len(headers[i]) :
             Prefix(headers, n)[Len(Prefix(headers, i - 1)) + x] = headers[i][x]
    BY <1>9, <2>4, FlattenPieces
  <2>6. \A i \in 1..n : i - 1 \in 0..n
    BY <1>2
  <2> HIDE DEF H, n
  <2>7. n \in 0..n
    BY <1>2
  <2>8. ASSUME NEW i \in 1..n, NEW x \in 1..4 PROVE H[4 * (i - 1) + x] = header(i)[x]
    <3>1. Len(Prefix(headers, i - 1)) = 4 * (i - 1)
      BY <2>3, <2>6
    <3>2. Len(headers[i]) = 4 /\ headers[i] = header(i)
      BY <1>8, <1>9
    <3> QED BY <2>1, <2>5, <3>1, <3>2
  <2> QED BY <2>1, <2>3, <2>5, <2>7, <2>8
<1> HIDE DEF H
<1>11. /\ Len(raw) = 4 * n + Len(C) + 2 /\ raw[1] = n
       /\ \A x \in 1 .. 4 * n : raw[1 + x] = H[x]
       /\ \A y \in 1 .. Len(C) : raw[4 * n + 2 + y] = C[y]
  <2> DEFINE c == Len(C)
  <2>1. n \in T /\ c \in T
    BY <1>2, <1>4, <1>7
  <2>2. raw = <<n>> \o H \o <<c>> \o C
    OBVIOUS
  <2> HIDE DEF n, c
  <2>3. C \in Seq(T) /\ H \in Seq(T)
    BY <1>7, <1>10
  <2>4. /\ Len(raw) = Len(H) + Len(C) + 2 /\ raw[1] = n
        /\ \A x \in 1 .. Len(H) : raw[1 + x] = H[x]
        /\ \A y \in 1 .. Len(C) : raw[Len(H) + 2 + y] = C[y]
    BY <2>1, <2>2, <2>3, ConcatFour
  <2> HIDE DEF raw
  <2> QED BY <1>10, <2>4
<1> HIDE DEF raw
<1>12. SubSeq(raw, 4 * n + 3, Len(raw)) = C
  <2> DEFINE d == SubSeq(raw, 4 * n + 3, Len(raw))
  <2>1. Len(C) \in Nat /\ \A y \in 1 .. Len(C) : C[y] \in T
    BY <1>7
  <2>2. \A i \in 4 * n + 3 .. Len(raw) : raw[i] \in T
    <3> TAKE i \in 4 * n + 3 .. Len(raw)
    <3> DEFINE y == i - (4 * n + 2)
    <3>1. y \in 1 .. Len(C) /\ 4 * n + 2 + y = i
      BY <1>2, <1>11, <2>1
    <3> HIDE DEF y
    <3> QED BY <1>11, <2>1, <3>1
  <2>3. /\ d \in Seq(T)
        /\ Len(d) = IF 4 * n + 3 <= Len(raw) THEN Len(raw) - (4 * n + 3) + 1 ELSE 0
        /\ \A i \in 1 .. Len(raw) - (4 * n + 3) + 1 : d[i] = raw[(4 * n + 3) + i - 1]
    BY <1>2, <1>11, <2>1, <2>2, SubSeqProperties
  <2> HIDE DEF d
  <2>4. Len(d) = Len(C)
    BY <1>2, <1>11, <2>1, <2>3
  <2>5. ASSUME NEW y \in 1 .. Len(C) PROVE d[y] = C[y]
    <3>1. (4 * n + 3) + y - 1 = 4 * n + 2 + y /\ y \in 1 .. Len(raw) - (4 * n + 3) + 1
      BY <1>2, <1>11, <2>1
    <3> QED BY <1>11, <2>3, <3>1
  <2>6. d = C
    BY <1>7, <2>3, <2>4, <2>5, SeqEqual
  <2> QED BY <2>6 DEF d
<1>13. ASSUME NEW i \in 1..n
       PROVE  /\ raw[4 * (i - 1) + 1 + 1] = calls[i].to
              /\ raw[4 * (i - 1) + 1 + 2] = calls[i].selector
              /\ raw[4 * (i - 1) + 1 + 3] = Len(Prefix(data, i - 1))
              /\ raw[4 * (i - 1) + 1 + 4] = Len(data[i])
  <2>1. ASSUME NEW x \in 1..4 PROVE raw[4 * (i - 1) + 1 + x] = header(i)[x]
    <3>1. 4 * (i - 1) + 1 + x = 1 + (4 * (i - 1) + x) /\ 4 * (i - 1) + x \in 1 .. 4 * n
      BY <1>2
    <3> QED BY <1>10, <1>11, <3>1
  <2> QED BY <2>1, <1>8
<1>14. ASSUME NEW i \in 1..n
       PROVE  SubSeq(C, Len(Prefix(data, i - 1)) + 1, Len(Prefix(data, i - 1)) + Len(data[i]))
                = calls[i].calldata
  <2> DEFINE o == Len(Prefix(data, i - 1))
             s == data[i]
             d == SubSeq(C, o + 1, o + Len(s))
  <2>1. /\ o \in Nat /\ s \in Seq(T) /\ Len(s) \in Nat /\ s = calls[i].calldata
        /\ \A x \in 1 .. Len(s) : C[o + x] = s[x] /\ s[x] \in T
    <3>1. o \in Nat /\ \A x \in 1 .. Len(s) : C[o + x] = s[x]
      BY <1>7
    <3>2. s = calls[i].calldata /\ s \in Seq(T)
      BY <1>3, <1>5
    <3> HIDE DEF o, s
    <3> QED BY <3>1, <3>2
  <2> HIDE DEF o, s
  <2>2. \A y \in o + 1 .. o + Len(s) : C[y] \in T
    <3> TAKE y \in o + 1 .. o + Len(s)
    <3>1. y - o \in 1 .. Len(s) /\ o + (y - o) = y
      BY <2>1
    <3> QED BY <2>1, <3>1
  <2>3. /\ d \in Seq(T)
        /\ Len(d) = IF o + 1 <= o + Len(s) THEN (o + Len(s)) - (o + 1) + 1 ELSE 0
        /\ \A x \in 1 .. (o + Len(s)) - (o + 1) + 1 : d[x] = C[(o + 1) + x - 1]
    BY <2>1, <2>2, SubSeqProperties
  <2> HIDE DEF d
  <2>4. Len(d) = Len(s)
    BY <2>1, <2>3
  <2>5. ASSUME NEW x \in 1 .. Len(s) PROVE d[x] = s[x]
    <3>1. (o + 1) + x - 1 = o + x /\ x \in 1 .. (o + Len(s)) - (o + 1) + 1
      BY <2>1
    <3> QED BY <2>1, <2>3, <3>1
  <2>6. d = s
    BY <2>1, <2>3, <2>4, <2>5, SeqEqual
  <2> QED BY <2>1, <2>6 DEF d, o, s
<1>15. DecodedCalls(raw)
         = [i \in 1..n |-> [to |-> calls[i].to, selector |-> calls[i].selector,
                            calldata |-> calls[i].calldata]]
  <2> HIDE DEF n
  <2> QED BY <1>11, <1>12, <1>13, <1>14 DEF DecodedCalls
<1>16. \A i \in 1..n : calls[i] = [to |-> calls[i].to, selector |-> calls[i].selector,
                                   calldata |-> calls[i].calldata]
  BY <1>2 DEF IsCall
<1> QED BY <1>1, <1>2, <1>15, <1>16

-----------------------------------------------------------------------------
(***************************************************************************)
(* The invariant.                                                          *)
(***************************************************************************)

\* The nonce that the account of a job had, in the block that its lookups
\* read, when the call began.
SeenBy(j, b) ==
  (IF block_id(j.builder.account) = Pending THEN b.pending ELSE b.latest)[AddressOf(j.builder)]

\* A nonce for a builder that has one, or that looked it up.
NonceFor(b, n, seen) ==
  /\ n \in Nat
  /\ IF b.nonce # <<>> THEN n = b.nonce[1] ELSE n >= seen

\* The fees that a builder may offer after these quotes.
FeesFor(b, n, quotes) ==
  IF b.max_fee # <<>> THEN {b.max_fee[1]}
  ELSE {OfferedFee(b, q[2]) : q \in {q \in quotes : q[1] = n}}

AskingNonce(t, j, seen) ==
  LET account == j.builder.account
      r == Provided(j, t.ask, t.response[1])
  IN  /\ t = [at |-> "nonce", nonce |-> 0, response |-> t.response,
              ask |-> get_nonce(account.provider, AddressOf(j.builder), block_id(account))]
      /\ j.builder.nonce = <<>>
      /\ t.response # <<>> => /\ t.response = <<t.response[1]>>
                              /\ r.ok => r.value \in Nat /\ r.value >= seen
                              /\ ContractMissing(r) => 0 >= seen

AskingFee(t, j, seen, quotes) ==
  LET account == j.builder.account
      request == Request(j.builder, t.nonce, 0)
      r == Provided(j, t.ask, t.response[1])
  IN  /\ t = [at |-> "estimate", nonce |-> t.nonce, response |-> t.response,
              ask |-> FeeQuestion(account.provider, request.value, block_id(account))]
      /\ request.ok /\ NonceFor(j.builder, t.nonce, seen)
      /\ j.op # "estimate_fee" => j.builder.max_fee = <<>>
      /\ t.response # <<>> => /\ t.response = <<t.response[1]>>
                              /\ r.ok => <<t.nonce, r.value.overall_fee>> \in quotes

Submission(j, n, f) ==
  LET account == j.builder.account
      request == Request(j.builder, n, f)
  IN  IF j.op = "simulate"
      THEN Simulation(account.provider, request.value, block_id(account))
      ELSE add_transaction(account.provider, request.value)

Submitting(t, j, seen, quotes) ==
  /\ NonceFor(j.builder, t.nonce, seen)
  /\ \E f \in FeesFor(j.builder, t.nonce, quotes) :
       /\ Request(j.builder, t.nonce, f).ok /\ Submission(j, t.nonce, f).asks
       /\ t = [at |-> "submit", nonce |-> t.nonce, response |-> t.response,
               ask |-> Submission(j, t.nonce, f)]

TaskSound(t, j, seen, quotes) ==
  \/ t.at \in {"idle", "done"}
  \/ AskingNonce(t, j, seen)
  \/ AskingFee(t, j, seen, quotes)
  \/ Submitting(t, j, seen, quotes)

\* A transaction that the node has is one of its sender's.
SentSound(m, j) ==
  LET b == j[m.by].builder
  IN  /\ m.by \in Senders /\ m.tx.nonce \in Nat
      /\ TransactionOf(m.tx, b, m.tx.nonce, m.tx.max_fee)
      /\ b.nonce # <<>> => m.tx.nonce = b.nonce[1]

NonceTable == [DOMAIN Owner -> Nat \union {NotDeployed}]

NoncesInv ==
  /\ latest \in NonceTable /\ pending \in NonceTable
  /\ \A a \in DOMAIN Owner : latest[a] <= pending[a]

BegunInv ==
  /\ begun = [s \in Senders |-> [latest |-> begun[s].latest, pending |-> begun[s].pending]]
  /\ \A s \in Senders :
       /\ begun[s].latest \in NonceTable /\ begun[s].pending \in NonceTable
       /\ \A a \in DOMAIN Owner :
            begun[s].latest[a] <= latest[a] /\ begun[s].pending[a] <= pending[a]

TasksInv ==
  /\ task = [s \in Senders |-> task[s]] /\ quoted = [s \in Senders |-> quoted[s]]
  /\ \A s \in Senders : TaskSound(task[s], job[s], SeenBy(job[s], begun[s]), quoted[s])

MempoolInv == \A m \in mempool : SentSound(m, job)

IncludedInv ==
  /\ IsSequence(included)
  /\ \A i \in 1 .. Len(included) :
       /\ SentSound(included[i], job)
       /\ included[i].tx.nonce < pending[TransactionAddress(included[i].tx)]
       /\ \A k \in 1 .. (i - 1) :
            TransactionAddress(included[k].tx) = TransactionAddress(included[i].tx)
              => included[k].tx.nonce < included[i].tx.nonce

AccountInv ==
  job \in Jobs /\ NoncesInv /\ BegunInv /\ TasksInv /\ MempoolInv /\ IncludedInv
-----------------------------------------------------------------------------
(***************************************************************************)
(* A task goes from one question to the next as the invariant says.        *)
(***************************************************************************)
\* A task that has no nonce asks for it.
LEMMA AskNonceSound ==
  ASSUME NEW j, NEW seen, NEW quotes, j.builder.nonce = <<>>
  PROVE  TaskSound(AskNonce(j, AddressOf(j.builder)), j, seen, quotes)
<1> DEFINE account == j.builder.account
           ask == get_nonce(account.provider, AddressOf(j.builder), block_id(account))
           t == [at |-> "nonce", nonce |-> 0, ask |-> ask, response |-> <<>>]
<1>1. AskNonce(j, AddressOf(j.builder)) = t
  BY QuestionsRead DEF AskNonce, Waiting
<1> HIDE DEF ask
<1>2. /\ t = [at |-> "nonce", nonce |-> 0, response |-> t.response, ask |-> ask]
      /\ t.response = <<>>
  OBVIOUS
<1> HIDE DEF t
<1>3. AskingNonce(t, j, seen)
  BY <1>2 DEF AskingNonce, ask
<1> QED BY <1>1, <1>3 DEF TaskSound

\* A task that has a nonce asks for the fee, unless it cannot sign.
LEMMA AskEstimateSound ==
  ASSUME NEW j, NEW n, NEW seen, NEW quotes,
         NonceFor(j.builder, n, seen), j.op # "estimate_fee" => j.builder.max_fee = <<>>
  PROVE  TaskSound(AskEstimate(j, n), j, seen, quotes)
<1> DEFINE account == j.builder.account
           request == Request(j.builder, n, 0)
           ask == FeeQuestion(account.provider, request.value, block_id(account))
           t == [at |-> "estimate", nonce |-> n, ask |-> ask, response |-> <<>>]
<1>1. CASE ~ request.ok
  BY <1>1 DEF AskEstimate, TaskSound, Done
<1>2. CASE request.ok
  <2>1. AskEstimate(j, n) = t
    BY <1>2, QuestionsRead DEF AskEstimate, Waiting, FeeQuestion
  <2> HIDE DEF ask
  <2>2. /\ t = [at |-> "estimate", nonce |-> n, response |-> t.response, ask |-> ask]
        /\ t.response = <<>> /\ t.nonce = n
    OBVIOUS
  <2> HIDE DEF t
  <2>3. AskingFee(t, j, seen, quotes)
    BY <1>2, <2>2 DEF AskingFee, ask
  <2> QED BY <2>1, <2>3 DEF TaskSound
<1> QED BY <1>1, <1>2

\* A task that has both submits, unless it cannot sign or be simulated.
LEMMA AskSubmitSound ==
  ASSUME NEW j, NEW n, NEW seen, NEW quotes, NEW f \in FeesFor(j.builder, n, quotes),
         NonceFor(j.builder, n, seen)
  PROVE  TaskSound(AskSubmit(j, n, f), j, seen, quotes)
<1> DEFINE request == Request(j.builder, n, f)
           ask == Submission(j, n, f)
           t == [at |-> "submit", nonce |-> n, ask |-> ask, response |-> <<>>]
<1>1. AskSubmit(j, n, f) = IF ~ request.ok THEN Done(request) ELSE Waiting(j, "submit", n, ask)
  BY DEF AskSubmit, Submission, Simulation
<1>2. CASE ~ request.ok \/ ~ ask.asks
  BY <1>1, <1>2 DEF TaskSound, Done, Waiting
<1>3. CASE request.ok /\ ask.asks
  <2>1. AskSubmit(j, n, f) = t
    BY <1>1, <1>3 DEF Waiting
  <2> HIDE DEF ask
  <2>2. /\ t = [at |-> "submit", nonce |-> n, response |-> t.response, ask |-> ask]
        /\ t.nonce = n
    OBVIOUS
  <2> HIDE DEF t
  <2>3. Submitting(t, j, seen, quotes)
    BY <1>3, <2>2 DEF Submitting, ask
  <2> QED BY <2>1, <2>3 DEF TaskSound
<1> QED BY <1>2, <1>3

\* What follows once the nonce is known.
LEMMA WithNonceSound ==
  ASSUME NEW j, NEW n, NEW seen, NEW quotes, NonceFor(j.builder, n, seen)
  PROVE  TaskSound(WithNonce(j, n), j, seen, quotes)
<1>1. CASE j.op # "estimate_fee" /\ j.builder.max_fee # <<>>
  <2>1. j.builder.max_fee[1] \in FeesFor(j.builder, n, quotes)
    BY <1>1 DEF FeesFor
  <2> QED BY <1>1, <2>1, AskSubmitSound DEF WithNonce
<1>2. CASE ~ (j.op # "estimate_fee" /\ j.builder.max_fee # <<>>)
  BY <1>2, AskEstimateSound DEF WithNonce
<1> QED BY <1>1, <1>2

\* The start of a call.
LEMMA StartSound ==
  ASSUME NEW j, Sound(j.builder), NEW seen, NEW quotes
  PROVE  TaskSound(StartOf(j, AddressOf(j.builder)), j, seen, quotes)
<1> DEFINE b == j.builder
           k == b.nonce[1]
<1>1. b.nonce # <<>> => NonceFor(b, k, seen)
  BY DEF Sound, IsOption, NonceFor
<1>2. CASE j.op = "prepared"
  <2>1. CASE b.nonce = <<>> \/ b.max_fee = <<>>
    BY <1>2, <2>1 DEF StartOf, StartPrepared, TaskSound, Done
  <2>2. CASE b.nonce # <<>> /\ b.max_fee # <<>>
    <3>1. b.max_fee[1] \in FeesFor(b, k, quotes)
      BY <2>2 DEF FeesFor
    <3> QED BY <1>1, <1>2, <2>2, <3>1, AskSubmitSound DEF StartOf, StartPrepared
  <2> QED BY <2>1, <2>2
<1>3. CASE j.op # "prepared"
  BY <1>1, <1>3, WithNonceSound, AskNonceSound DEF StartOf, Start
<1> QED BY <1>2, <1>3

\* What a task does with the response.
LEMMA ResumeSound ==
  ASSUME NEW t, NEW j, Sound(j.builder), NEW seen \in Int, NEW quotes,
         TaskSound(t, j, seen, quotes), t.response # <<>>,
         t.at \in {"nonce", "estimate", "submit"}
  PROVE  TaskSound(Resume(j, t, Provided(j, t.ask, t.response[1])), j, seen, quotes)
<1> DEFINE r == Provided(j, t.ask, t.response[1])
           b == j.builder
<1>1. CASE AskingNonce(t, j, seen)
  <2> DEFINE q == IF b.kind = "deployment" THEN fetch_nonce(r) ELSE r
  <2>1. /\ t.at = "nonce" /\ b.nonce = <<>>
        /\ r.ok => r.value \in Nat /\ r.value >= seen
        /\ ContractMissing(r) => 0 >= seen
    BY <1>1 DEF AskingNonce
  <2> HIDE DEF r
  <2>2. q.ok => q.value \in Nat /\ q.value >= seen
    BY <2>1 DEF fetch_nonce, Ok
  <2>3. Resume(j, t, r) = ResumeNonce(j, q)
    BY <2>1 DEF Resume
  <2> HIDE DEF q
  <2>4. CASE q.ok
    <3>1. NonceFor(b, q.value, seen)
      BY <2>1, <2>2, <2>4 DEF NonceFor
    <3> QED BY <2>3, <2>4, <3>1, WithNonceSound DEF ResumeNonce, r
  <2>5. CASE ~ q.ok
    BY <2>3, <2>5 DEF ResumeNonce, TaskSound, Done, r
  <2> QED BY <2>4, <2>5
<1>2. CASE AskingFee(t, j, seen, quotes)
  <2>1. /\ t.at = "estimate" /\ NonceFor(b, t.nonce, seen)
        /\ j.op # "estimate_fee" => b.max_fee = <<>>
        /\ r.ok => <<t.nonce, r.value.overall_fee>> \in quotes
    BY <1>2 DEF AskingFee
  <2> HIDE DEF r
  <2>2. Resume(j, t, r) = ResumeEstimate(j, t.nonce, r)
    BY <2>1 DEF Resume
  <2>3. CASE ~ r.ok \/ j.op = "estimate_fee"
    BY <2>2, <2>3 DEF ResumeEstimate, TaskSound, Done, r
  <2>4. CASE r.ok /\ j.op # "estimate_fee"
    <3> DEFINE fee == r.value.overall_fee
               f == OfferedFee(b, fee)
    <3>1. /\ <<t.nonce, fee>> \in quotes
          /\ <<t.nonce, fee>>[1] = t.nonce /\ <<t.nonce, fee>>[2] = fee
      BY <2>1, <2>4
    <3> HIDE DEF fee
    <3>2. f \in FeesFor(b, t.nonce, quotes)
      BY <2>1, <2>4, <3>1 DEF FeesFor
    <3> QED BY <2>1, <2>2, <2>4, <3>2, AskSubmitSound DEF ResumeEstimate, fee, r
  <2> QED BY <2>3, <2>4
<1>3. CASE Submitting(t, j, seen, quotes)
  <2>1. t.at = "submit"
    BY <1>3 DEF Submitting
  <2> QED BY <2>1 DEF Resume, TaskSound, Done
<1> QED BY <1>1, <1>2, <1>3 DEF TaskSound

\* More quotes take nothing away.
LEMMA MoreQuotes ==
  ASSUME NEW t, NEW j, NEW seen, NEW quotes, NEW more, quotes \subseteq more,
         TaskSound(t, j, seen, quotes)
  PROVE  TaskSound(t, j, seen, more)
<1>1. CASE AskingFee(t, j, seen, quotes)
  <2>1. AskingFee(t, j, seen, more)
    BY <1>1 DEF AskingFee
  <2> QED BY <2>1 DEF TaskSound
<1>2. CASE Submitting(t, j, seen, quotes)
  <2>1. FeesFor(j.builder, t.nonce, quotes) \subseteq FeesFor(j.builder, t.nonce, more)
    BY DEF FeesFor
  <2>2. Submitting(t, j, seen, more)
    BY <1>2, <2>1 DEF Submitting
  <2> QED BY <2>2 DEF TaskSound
<1> QED BY <1>1, <1>2 DEF TaskSound
-----------------------------------------------------------------------------
(***************************************************************************)
(* What the node is asked, and what its answers leave in a task.           *)
(***************************************************************************)
\* An account is set to a block and is in the tables of the node.
LEMMA BlockKnown ==
  ASSUME NEW b, Sound(b)
  PROVE  /\ block_id(b.account) \in {Latest, Pending} /\ b.kind \in Kinds
         /\ AddressOf(b) \in DOMAIN Owner
BY DEF Sound, block_id

\* A task that waits for a fee asked about its transaction, without a fee.
LEMMA FeeAsked ==
  ASSUME NEW t, NEW j, Sound(j.builder), NEW seen, NEW quotes, AskingFee(t, j, seen, quotes)
  PROVE  LET p == j.builder.account.provider
             call == NodeReads(p, t.ask.request)
         IN  /\ call.op = "estimate_fee" /\ TransactionOf(call.args.tx, j.builder, t.nonce, 0)
             /\ t.ask.asks /\ t.ask.reads = IF p = JsonRpcHttp THEN "fee" ELSE "data"
<1> DEFINE b == j.builder
           p == b.account.provider
           block == block_id(b.account)
           tx == Request(b, t.nonce, 0).value
           ask == FeeQuestion(p, tx, block)
           call == NodeReads(p, ask.request)
<1>1. t.ask = ask /\ Request(b, t.nonce, 0).ok
  BY DEF AskingFee
<1>2. block \in {Latest, Pending} /\ b.kind \in Kinds
  BY BlockKnown
<1>3. call.op = "estimate_fee" /\ TransactionOf(call.args.tx, b, t.nonce, 0) /\ ask.asks
  BY <1>1, <1>2, EstimateReaches
<1>4. ask.reads = IF p = JsonRpcHttp THEN "fee" ELSE "data"
  BY QuestionsRead
<1> HIDE DEF ask
<1> QED BY <1>1, <1>3, <1>4

\* A task that waits for a submission sent its transaction, with its fee.
LEMMA SubmissionAsked ==
  ASSUME NEW t, NEW j, Sound(j.builder), NEW seen, NEW quotes, Submitting(t, j, seen, quotes)
  PROVE  LET p == j.builder.account.provider
             call == NodeReads(p, t.ask.request)
         IN  /\ call.op \in {"simulate_transaction", "add_transaction"}
             /\ NonceFor(j.builder, t.nonce, seen)
             /\ \E f \in FeesFor(j.builder, t.nonce, quotes) :
                  TransactionOf(call.args.tx, j.builder, t.nonce, f)
<1>1. PICK f \in FeesFor(j.builder, t.nonce, quotes) :
        /\ Request(j.builder, t.nonce, f).ok /\ Submission(j, t.nonce, f).asks
        /\ t.ask = Submission(j, t.nonce, f)
  BY DEF Submitting
<1> DEFINE b == j.builder
           p == b.account.provider
           block == block_id(b.account)
           tx == Request(b, t.nonce, f).value
           call == NodeReads(p, t.ask.request)
<1>2. block \in {Latest, Pending} /\ b.kind \in Kinds
  BY BlockKnown
<1>3. NonceFor(b, t.nonce, seen)
  BY DEF Submitting
<1>4. CASE j.op = "simulate"
  <2>1. t.ask = Simulation(p, tx, block) /\ t.ask.asks
    BY <1>1, <1>4 DEF Submission
  <2>2. call.op = "simulate_transaction" /\ TransactionOf(call.args.tx, b, t.nonce, f)
    BY <1>1, <1>2, <2>1, SimulationReaches
  <2> QED BY <1>3, <2>2
<1>5. CASE j.op # "simulate"
  <2>1. t.ask = add_transaction(p, tx) /\ t.ask.asks
    BY <1>1, <1>5 DEF Submission
  <2>2. call.op = "add_transaction" /\ TransactionOf(call.args.tx, b, t.nonce, f)
    BY <1>1, <1>2, <2>1, SubmissionReaches
  <2> QED BY <1>3, <2>2
<1> QED BY <1>4, <1>5

\* A task that waits for a nonce asked for its account's, in its block.
LEMMA NonceAsked ==
  ASSUME NEW t, NEW j, Sound(j.builder), NEW seen, AskingNonce(t, j, seen)
  PROVE  LET p == j.builder.account.provider
             call == NodeReads(p, t.ask.request)
         IN  /\ call.op = "get_nonce" /\ call.args.block = block_id(j.builder.account)
             /\ call.args.contract = AddressOf(j.builder)
             /\ t.ask.asks /\ t.ask.reads = "felt"
<1> DEFINE b == j.builder
           p == b.account.provider
           block == block_id(b.account)
           ask == get_nonce(p, AddressOf(b), block)
           call == NodeReads(p, ask.request)
<1>1. t.ask = ask
  BY DEF AskingNonce
<1>2. block \in {Latest, Pending}
  BY BlockKnown
<1>3. /\ call.op = "get_nonce" /\ call.args.block = block /\ call.args.contract = AddressOf(b)
  BY <1>2, NonceReaches
<1>4. ask.asks /\ ask.reads = "felt"
  BY QuestionsRead
<1> HIDE DEF ask
<1> QED BY <1>1, <1>3, <1>4

\* The answer to the question for a nonce: the nonce of the block it was asked
\* of, which is not older than the one seen before.
LEMMA NonceAnswered ==
  ASSUME NEW t, NEW j, Sound(j.builder), NEW seen \in Int, AskingNonce(t, j, seen),
         NEW n \in Nat \union {NotDeployed}, n >= seen,
         n = Nonces(block_id(j.builder.account))[AddressOf(j.builder)],
         NEW call, call = NodeReads(j.builder.account.provider, t.ask.request),
         NEW response,
         response = NodeResponse(j.builder.account.provider, call.op, AnswerTo(call))
  PROVE  AskingNonce([t EXCEPT !.response = <<response>>], j, seen)
<1> DEFINE b == j.builder
           p == b.account.provider
           u == [t EXCEPT !.response = <<response>>]
           r == Provided(j, t.ask, response)
<1>1. /\ call.op = "get_nonce" /\ call.args.block = block_id(b.account)
      /\ call.args.contract = AddressOf(b)
      /\ t.ask.asks /\ t.ask.reads = "felt"
  BY NonceAsked
<1>2. AnswerTo(call) = IF n = NotDeployed THEN Err("no_contract") ELSE Ok(n)
  BY <1>1 DEF AnswerTo, NonceAnswer
<1>3. /\ r.ok => r.value \in Nat /\ r.value >= seen
      /\ ContractMissing(r) => 0 >= seen
  <2>1. r = received(p, t.ask, response)
    BY DEF Provided
  <2>2. CASE n = NotDeployed
    <3>1. ~ r.ok
      BY <1>1, <1>2, <2>1, <2>2, NonceReceived
    <3> QED BY <2>2, <3>1 DEF NotDeployed
  <2>3. CASE n # NotDeployed
    <3>1. r = Ok(n)
      BY <1>1, <1>2, <2>1, <2>3, NonceReceived
    <3> QED BY <2>3, <3>1 DEF Ok, ContractMissing
  <2> QED BY <2>2, <2>3
<1>4. /\ u = [at |-> "nonce", nonce |-> 0, response |-> u.response, ask |-> t.ask]
      /\ u.response = <<response>> /\ u.ask = t.ask
  BY DEF AskingNonce
<1> HIDE DEF u
<1>5. u.response[1] = response
  BY <1>4
<1>6. AskingNonce(u, j, seen)
  BY <1>3, <1>4, <1>5 DEF AskingNonce
<1> QED BY <1>6 DEF u

\* The answer to the question for a fee is among the quotes of the task.
LEMMA FeeAnswered ==
  ASSUME NEW t, NEW j, Sound(j.builder), NEW seen, NEW quotes, AskingFee(t, j, seen, quotes),
         NEW call, call = NodeReads(j.builder.account.provider, t.ask.request),
         NEW response,
         response = NodeResponse(j.builder.account.provider, call.op, AnswerTo(call)),
         NEW more, quotes \subseteq more,
         AnswerTo(call).ok => <<call.args.tx.nonce, price>> \in more
  PROVE  AskingFee([t EXCEPT !.response = <<response>>], j, seen, more)
<1> DEFINE b == j.builder
           p == b.account.provider
           u == [t EXCEPT !.response = <<response>>]
           r == Provided(j, t.ask, response)
           v == [fee |-> price, gas_price |-> price, gas |-> 1]
<1>1. /\ call.op = "estimate_fee" /\ call.args.tx.nonce = t.nonce
      /\ t.ask.asks /\ t.ask.reads = IF p = JsonRpcHttp THEN "fee" ELSE "data"
  BY FeeAsked DEF TransactionOf
<1>2. \/ AnswerTo(call) = Ok(v)
      \/ \E e : AnswerTo(call) = Err(e)
  BY <1>1 DEF AnswerTo, ExecutionAnswer
<1>3. r.ok => <<t.nonce, r.value.overall_fee>> \in more
  <2>1. r = received(p, t.ask, response)
    BY DEF Provided
  <2>2. CASE AnswerTo(call) = Ok(v)
    <3>1. r.value.overall_fee = v.fee
      BY <1>1, <2>1, <2>2, FeeReceived
    <3>2. v.fee = price /\ AnswerTo(call).ok
      BY <2>2 DEF Ok
    <3> QED BY <1>1, <3>1, <3>2
  <2>3. CASE \E e : AnswerTo(call) = Err(e)
    BY <1>1, <2>1, <2>3, FeeReceived
  <2> QED BY <1>2, <2>2, <2>3
<1>4. /\ u = [at |-> "estimate", nonce |-> u.nonce, response |-> u.response, ask |-> t.ask]
      /\ u.response = <<response>> /\ u.ask = t.ask /\ u.nonce = t.nonce
  BY DEF AskingFee
<1> HIDE DEF u
<1>5. u.response[1] = response
  BY <1>4
<1>6. AskingFee(u, j, seen, more)
  BY <1>3, <1>4, <1>5 DEF AskingFee
<1> QED BY <1>6 DEF u

\* Whatever the answer to a submission, the task is still the same.
LEMMA SubmissionAnswered ==
  ASSUME NEW t, NEW j, NEW seen, NEW quotes, Submitting(t, j, seen, quotes), NEW response
  PROVE  Submitting([t EXCEPT !.response = <<response>>], j, seen, quotes)
<1> DEFINE u == [t EXCEPT !.response = <<response>>]
<1>1. PICK f \in FeesFor(j.builder, t.nonce, quotes) :
        /\ Request(j.builder, t.nonce, f).ok /\ Submission(j, t.nonce, f).asks
        /\ t = [at |-> "submit", nonce |-> t.nonce, response |-> t.response,
                ask |-> Submission(j, t.nonce, f)]
  BY DEF Submitting
<1>2. /\ u = [at |-> "submit", nonce |-> u.nonce, response |-> u.response,
              ask |-> Submission(j, t.nonce, f)]
      /\ u.nonce = t.nonce
  BY <1>1
<1> HIDE DEF u
<1>3. Submitting(u, j, seen, quotes)
  BY <1>1, <1>2 DEF Submitting
<1> QED BY <1>3 DEF u
\* A response that brings nothing from the node.
LEMMA LostSound ==
  ASSUME NEW t, NEW j, Sound(j.builder), NEW seen, NEW quotes, TaskSound(t, j, seen, quotes),
         t.at \in {"nonce", "estimate", "submit"},
         NEW response \in {Broken, TooManyRequests, Garbage}
  PROVE  TaskSound([t EXCEPT !.response = <<response>>], j, seen, quotes)
<1> DEFINE u == [t EXCEPT !.response = <<response>>]
           p == j.builder.account.provider
<1>1. CASE AskingNonce(t, j, seen)
  <2>1. t.ask.asks /\ t.ask.reads = "felt"
    BY <1>1, NonceAsked
  <2>2. ~ Provided(j, t.ask, response).ok /\ ~ ContractMissing(Provided(j, t.ask, response))
    BY <2>1, LostResponse DEF Provided
  <2>3. /\ u = [at |-> "nonce", nonce |-> 0, response |-> u.response, ask |-> t.ask]
        /\ u.response = <<response>> /\ u.ask = t.ask
    BY <1>1 DEF AskingNonce
  <2> HIDE DEF u
  <2>4. u.response[1] = response
    BY <2>3
  <2>5. AskingNonce(u, j, seen)
    BY <1>1, <2>2, <2>3, <2>4 DEF AskingNonce
  <2> QED BY <2>5 DEF TaskSound, u
<1>2. CASE AskingFee(t, j, seen, quotes)
  <2>1. t.ask.asks /\ t.ask.reads \in {"fee", "data"}
    BY <1>2, FeeAsked
  <2>2. ~ Provided(j, t.ask, response).ok
    BY <2>1, LostResponse DEF Provided
  <2>3. /\ u = [at |-> "estimate", nonce |-> u.nonce, response |-> u.response, ask |-> t.ask]
        /\ u.response = <<response>> /\ u.ask = t.ask /\ u.nonce = t.nonce
    BY <1>2 DEF AskingFee
  <2> HIDE DEF u
  <2>4. u.response[1] = response
    BY <2>3
  <2>5. AskingFee(u, j, seen, quotes)
    BY <1>2, <2>2, <2>3, <2>4 DEF AskingFee
  <2> QED BY <2>5 DEF TaskSound, u
<1>3. CASE Submitting(t, j, seen, quotes)
  BY <1>3, SubmissionAnswered DEF TaskSound
<1> QED BY <1>1, <1>2, <1>3 DEF TaskSound
-----------------------------------------------------------------------------
(***************************************************************************)
(* The invariant holds in every state, one lemma per action.               *)
(***************************************************************************)
\* What the assumptions and the invariant say of a task.
LEMMA TaskFacts ==
  ASSUME AccountInv, NEW s \in Senders
  PROVE  /\ Sound(job[s].builder) /\ SeenBy(job[s], begun[s]) \in Nat \union {NotDeployed}
         /\ TaskSound(task[s], job[s], SeenBy(job[s], begun[s]), quoted[s])
<1>1. Sound(job[s].builder)
  BY JobsAssumption DEF AccountInv
<1>2. AddressOf(job[s].builder) \in DOMAIN Owner
  BY <1>1, BlockKnown
<1>3. /\ begun[s].latest \in NonceTable /\ begun[s].pending \in NonceTable
  BY DEF AccountInv, BegunInv
<1>4. SeenBy(job[s], begun[s]) \in Nat \union {NotDeployed}
  BY <1>2, <1>3 DEF SeenBy, NonceTable
<1> QED BY <1>1, <1>4 DEF AccountInv, TasksInv

\* The invariant holds at the start.
LEMMA InvInit == Init => AccountInv
<1> SUFFICES ASSUME Init PROVE AccountInv
  OBVIOUS
<1> USE DEF Init
<1>1. NoncesInv
  BY OwnerAssumption DEF NoncesInv, NonceTable, NotDeployed
<1>2. BegunInv
  <2>1. latest \in NonceTable /\ pending \in NonceTable
    BY <1>1 DEF NoncesInv
  <2>2. \A a \in DOMAIN Owner : latest[a] <= latest[a] /\ pending[a] <= pending[a]
    BY <2>1 DEF NonceTable, NotDeployed
  <2> QED BY <2>1, <2>2 DEF BegunInv
<1>3. TasksInv
  BY DEF TasksInv, TaskSound, Idle
<1>4. MempoolInv /\ IncludedInv
  BY DEF MempoolInv, IncludedInv, IsSequence
<1> QED BY <1>1, <1>2, <1>3, <1>4 DEF AccountInv

\* A step that leaves the nonces and the transactions of the node alone, and
\* of the tasks touches one.
LEMMA OneTask ==
  ASSUME AccountInv, NEW s \in Senders, UNCHANGED <<job, latest, pending, included>>,
         MempoolInv', BegunInv', NEW t, task' = [task EXCEPT ![s] = t],
         quoted' = [r \in Senders |-> quoted'[r]],
         \A r \in Senders \ {s} : begun'[r] = begun[r] /\ quoted'[r] = quoted[r],
         TaskSound(t, job[s], SeenBy(job[s], begun'[s]), quoted'[s])
  PROVE  AccountInv'
<1>1. job' \in Jobs /\ NoncesInv' /\ IncludedInv'
  BY DEF AccountInv, NoncesInv, IncludedInv, SentSound
<1>2. TasksInv'
  <2>1. task = [r \in Senders |-> task[r]]
    BY DEF AccountInv, TasksInv
  <2>2. task' = [r \in Senders |-> task'[r]] /\ task'[s] = t
    BY <2>1
  <2>3. ASSUME NEW r \in Senders
        PROVE  TaskSound(task'[r], job'[r], SeenBy(job'[r], begun'[r]), quoted'[r])
    <3>1. CASE r = s
      BY <2>2, <3>1
    <3>2. CASE r # s
      BY <2>1, <3>2 DEF AccountInv, TasksInv
    <3> QED BY <3>1, <3>2
  <2> QED BY <2>2, <2>3 DEF TasksInv
<1> QED BY <1>1, <1>2 DEF AccountInv

\* A call of a builder.
LEMMA InvCall ==
  ASSUME AccountInv, NEW s \in Senders, NEW kind, Call(s, kind)
  PROVE  AccountInv'
<1> DEFINE t == StartOf(job[s], AddressOf(job[s].builder))
<1>1. /\ task' = [task EXCEPT ![s] = t]
      /\ begun' = [begun EXCEPT ![s] = [latest |-> latest, pending |-> pending]]
      /\ UNCHANGED <<job, latest, pending, mempool, included, quoted>>
  BY DEF Call, node
<1> HIDE DEF t
<1>2. MempoolInv'
  BY <1>1 DEF AccountInv, MempoolInv, SentSound
<1>3. /\ begun' = [r \in Senders |-> begun'[r]]
      /\ begun'[s] = [latest |-> latest, pending |-> pending]
      /\ \A r \in Senders \ {s} : begun'[r] = begun[r]
  BY <1>1 DEF AccountInv, BegunInv
<1>4. BegunInv'
  <2>1. /\ latest \in NonceTable /\ pending \in NonceTable
        /\ \A a \in DOMAIN Owner : latest[a] <= latest[a] /\ pending[a] <= pending[a]
    BY DEF AccountInv, NoncesInv, NonceTable, NotDeployed
  <2>2. ASSUME NEW r \in Senders
        PROVE  /\ begun'[r] = [latest |-> begun'[r].latest, pending |-> begun'[r].pending]
               /\ begun'[r].latest \in NonceTable /\ begun'[r].pending \in NonceTable
               /\ \A a \in DOMAIN Owner :
                    begun'[r].latest[a] <= latest[a] /\ begun'[r].pending[a] <= pending[a]
    <3>1. CASE r = s
      BY <1>3, <2>1, <3>1
    <3>2. CASE r # s
      BY <1>3, <3>2 DEF AccountInv, BegunInv
    <3> QED BY <3>1, <3>2
  <2> QED BY <1>1, <1>3, <2>2 DEF BegunInv
<1>5. TaskSound(t, job[s], SeenBy(job[s], begun'[s]), quoted'[s])
  BY TaskFacts, StartSound DEF t
<1>6. quoted' = [r \in Senders |-> quoted'[r]]
  BY <1>1 DEF AccountInv, TasksInv
<1> QED BY <1>1, <1>2, <1>3, <1>4, <1>5, <1>6, OneTask

\* A task takes the response.
LEMMA InvReceive ==
  ASSUME AccountInv, NEW s \in Senders, Receive(s)
  PROVE  AccountInv'
<1> DEFINE t == Resume(job[s], task[s], Provided(job[s], task[s].ask, task[s].response[1]))
<1>1. /\ task' = [task EXCEPT ![s] = t]
      /\ task[s].response # <<>> /\ task[s].at \in {"nonce", "estimate", "submit"}
      /\ UNCHANGED <<job, latest, pending, mempool, included, begun, quoted>>
  BY DEF Receive, node, Awaits, AccountInv, TasksInv
<1>2. TaskSound(t, job[s], SeenBy(job[s], begun[s]), quoted[s])
  <2> DEFINE seen == SeenBy(job[s], begun[s])
  <2>1. /\ Sound(job[s].builder) /\ seen \in Nat \union {NotDeployed}
        /\ TaskSound(task[s], job[s], seen, quoted[s])
    BY TaskFacts
  <2> HIDE DEF seen
  <2>2. seen \in Int
    BY <2>1 DEF NotDeployed
  <2>3. TaskSound(t, job[s], seen, quoted[s])
    BY <1>1, <2>1, <2>2, ResumeSound
  <2> QED BY <2>3 DEF seen
<1> HIDE DEF t
<1>3. MempoolInv' /\ BegunInv'
  BY <1>1 DEF AccountInv, MempoolInv, SentSound, BegunInv
<1>4. quoted' = [r \in Senders |-> quoted'[r]]
  BY <1>1 DEF AccountInv, TasksInv
<1> QED BY <1>1, <1>2, <1>3, <1>4, OneTask

\* The network fails a request.
LEMMA InvNetworkFails ==
  ASSUME AccountInv, NEW s \in Senders, NetworkFails(s)
  PROVE  AccountInv'
<1>1. PICK response \in {Broken, TooManyRequests, Garbage} :
        task' = [task EXCEPT ![s].response = <<response>>]
  BY DEF NetworkFails
<1> DEFINE t == [task[s] EXCEPT !.response = <<response>>]
<1>2. /\ task' = [task EXCEPT ![s] = t]
      /\ task[s].at \in {"nonce", "estimate", "submit"}
      /\ UNCHANGED <<job, latest, pending, mempool, included, begun, quoted>>
  BY <1>1 DEF NetworkFails, node, Unanswered, Awaits, AccountInv, TasksInv
<1>3. TaskSound(t, job[s], SeenBy(job[s], begun[s]), quoted[s])
  BY <1>2, TaskFacts, LostSound
<1> HIDE DEF t
<1>4. MempoolInv' /\ BegunInv'
  BY <1>2 DEF AccountInv, MempoolInv, SentSound, BegunInv
<1>5. quoted' = [r \in Senders |-> quoted'[r]]
  BY <1>2 DEF AccountInv, TasksInv
<1> QED BY <1>2, <1>3, <1>4, <1>5, OneTask
\* The node answers a request.
LEMMA InvNodeAnswers ==
  ASSUME AccountInv, NEW s \in Senders, NodeAnswers(s)
  PROVE  AccountInv'
<1> DEFINE j == job[s]
           b == j.builder
           p == b.account.provider
           seen == SeenBy(j, begun[s])
           call == NodeReads(p, task[s].ask.request)
           outcome == AnswerTo(call)
           at == task[s]
<1>1. PICK response \in {NodeResponse(p, call.op, outcome), Broken} :
        task' = [task EXCEPT ![s].response = <<response>>]
  BY DEF NodeAnswers
<1>2. mempool' = IF outcome.ok /\ call.op = "add_transaction"
                 THEN mempool \union {[tx |-> call.args.tx, by |-> s]} ELSE mempool
  BY DEF NodeAnswers
<1>3. quoted' = IF outcome.ok /\ call.op = "estimate_fee"
                THEN [quoted EXCEPT ![s] = @ \union {<<call.args.tx.nonce, price>>}] ELSE quoted
  BY DEF NodeAnswers
<1> DEFINE t == [at EXCEPT !.response = <<response>>]
<1>4. /\ task' = [task EXCEPT ![s] = t]
      /\ at.at \in {"nonce", "estimate", "submit"}
      /\ UNCHANGED <<job, latest, pending, included, begun>>
  BY <1>1 DEF NodeAnswers, Unanswered, Awaits, AccountInv, TasksInv
<1>5. /\ Sound(b) /\ seen \in Nat \union {NotDeployed} /\ TaskSound(at, j, seen, quoted[s])
  BY TaskFacts
<1>6. seen \in Int
  BY <1>5 DEF NotDeployed
<1>7. /\ quoted' = [r \in Senders |-> quoted'[r]]
      /\ \A r \in Senders \ {s} : quoted'[r] = quoted[r]
      /\ quoted[s] \subseteq quoted'[s]
      /\ outcome.ok /\ call.op = "estimate_fee" => <<call.args.tx.nonce, price>> \in quoted'[s]
  BY <1>3 DEF AccountInv, TasksInv
<1>8. TaskSound(t, j, seen, quoted'[s])
  <2>1. CASE response = Broken
    <3>1. TaskSound(t, j, seen, quoted[s])
      BY <1>4, <1>5, <2>1, LostSound
    <3> QED BY <1>7, <3>1, MoreQuotes
  <2>2. CASE response = NodeResponse(p, call.op, outcome)
    <3>1. CASE AskingNonce(at, j, seen)
      <4> DEFINE n == Nonces(block_id(b.account))[AddressOf(b)]
      <4>1. n \in Nat \union {NotDeployed} /\ n >= seen
        <5>1. AddressOf(b) \in DOMAIN Owner
          BY <1>5, BlockKnown
        <5> HIDE DEF j
        <5>2. n = IF block_id(b.account) = Pending THEN pending[AddressOf(b)] ELSE latest[AddressOf(b)]
          BY DEF Nonces
        <5>3. seen = IF block_id(b.account) = Pending THEN begun[s].pending[AddressOf(b)]
                     ELSE begun[s].latest[AddressOf(b)]
          BY DEF SeenBy
        <5>4. /\ latest[AddressOf(b)] \in Nat \union {NotDeployed}
              /\ pending[AddressOf(b)] \in Nat \union {NotDeployed}
              /\ begun[s].latest[AddressOf(b)] <= latest[AddressOf(b)]
              /\ begun[s].pending[AddressOf(b)] <= pending[AddressOf(b)]
          BY <5>1 DEF AccountInv, NoncesInv, BegunInv, NonceTable
        <5> HIDE DEF n, seen
        <5> QED BY <1>6, <5>2, <5>3, <5>4 DEF NotDeployed
      <4> HIDE DEF call, n, seen, at
      <4>2. n = Nonces(block_id(b.account))[AddressOf(b)] /\ call = NodeReads(p, at.ask.request)
        BY DEF n, call, at
      <4> HIDE DEF j
      <4>3. AskingNonce(t, j, seen)
        BY <1>5, <1>6, <2>2, <3>1, <4>1, <4>2, NonceAnswered
      <4> QED BY <4>3 DEF TaskSound
    <3>2. CASE AskingFee(at, j, seen, quoted[s])
      <4>1. call.op = "estimate_fee"
        BY <1>5, <3>2, FeeAsked
      <4>2. outcome.ok => <<call.args.tx.nonce, price>> \in quoted'[s]
        BY <1>7, <4>1
      <4> HIDE DEF call, seen, at
      <4>3. call = NodeReads(p, at.ask.request)
        BY DEF call, at
      <4> HIDE DEF j
      <4>4. AskingFee(t, j, seen, quoted'[s])
        BY <1>5, <1>7, <2>2, <3>2, <4>2, <4>3, FeeAnswered
      <4> QED BY <4>4 DEF TaskSound
    <3>3. CASE Submitting(at, j, seen, quoted[s])
      <4>1. Submitting(t, j, seen, quoted[s])
        BY <3>3, SubmissionAnswered
      <4>2. TaskSound(t, j, seen, quoted[s])
        BY <4>1 DEF TaskSound
      <4> QED BY <1>7, <4>2, MoreQuotes
    <3> QED BY <1>4, <1>5, <3>1, <3>2, <3>3 DEF TaskSound
  <2> QED BY <2>1, <2>2
<1>9. MempoolInv'
  <2>1. CASE outcome.ok /\ call.op = "add_transaction"
    <3>1. Submitting(at, j, seen, quoted[s])
      <4>1. ~ AskingNonce(at, j, seen) /\ ~ AskingFee(at, j, seen, quoted[s])
        BY <1>5, <2>1, NonceAsked, FeeAsked
      <4> QED BY <1>4, <1>5, <4>1 DEF TaskSound
    <3>2. PICK f \in FeesFor(b, at.nonce, quoted[s]) :
            NonceFor(b, at.nonce, seen) /\ TransactionOf(call.args.tx, b, at.nonce, f)
      BY <1>5, <3>1, SubmissionAsked
    <3> DEFINE m == [tx |-> call.args.tx, by |-> s]
    <3>3. /\ m.tx = call.args.tx /\ m.by = s
          /\ m.tx.nonce = at.nonce /\ m.tx.max_fee = f
          /\ at.nonce \in Nat
          /\ b.nonce # <<>> => at.nonce = b.nonce[1]
      BY <3>2 DEF TransactionOf, NonceFor
    <3>4. mempool' = mempool \union {m}
      BY <1>2, <2>1
    <3> HIDE DEF m, call
    <3>5. SentSound(m, job)
      BY <3>2, <3>3 DEF SentSound
    <3> QED BY <1>4, <3>4, <3>5 DEF AccountInv, MempoolInv, SentSound
  <2>2. CASE ~ (outcome.ok /\ call.op = "add_transaction")
    BY <1>2, <1>4, <2>2 DEF AccountInv, MempoolInv, SentSound
  <2> QED BY <2>1, <2>2
<1>10. BegunInv' /\ \A r \in Senders : begun'[r] = begun[r]
  BY <1>4 DEF AccountInv, BegunInv
<1>11. TaskSound(t, job[s], SeenBy(job[s], begun'[s]), quoted'[s])
  BY <1>8, <1>10
<1> HIDE DEF t
<1> QED BY <1>4, <1>7, <1>9, <1>10, <1>11, OneTask

\* A step that only takes transactions out of the mempool, seals a block or
\* raises the price.
LEMMA InvNodeAlone ==
  ASSUME AccountInv, UNCHANGED <<job, task, pending, included, begun, quoted>>,
         mempool' \subseteq mempool, latest' \in {latest, pending}
  PROVE  AccountInv'
<1>1. NoncesInv'
  <2>1. \A a \in DOMAIN Owner : latest[a] <= pending[a] /\ pending[a] <= pending[a]
    BY DEF AccountInv, NoncesInv, NonceTable, NotDeployed
  <2> QED BY <2>1 DEF AccountInv, NoncesInv
<1>2. BegunInv'
  <2>1. ASSUME NEW r \in Senders, NEW a \in DOMAIN Owner
        PROVE  begun[r].latest[a] <= latest'[a]
    <3>1. begun[r].latest[a] <= latest[a] /\ latest[a] <= pending[a]
      BY DEF AccountInv, BegunInv, NoncesInv
    <3>2. /\ begun[r].latest[a] \in Nat \union {NotDeployed}
          /\ latest[a] \in Nat \union {NotDeployed} /\ pending[a] \in Nat \union {NotDeployed}
      BY DEF AccountInv, BegunInv, NoncesInv, NonceTable
    <3>3. latest'[a] = latest[a] \/ latest'[a] = pending[a]
      OBVIOUS
    <3> QED BY <3>1, <3>2, <3>3 DEF NotDeployed
  <2> QED BY <2>1 DEF AccountInv, BegunInv
<1>3. TasksInv'
  BY DEF AccountInv, TasksInv
<1>4. MempoolInv' /\ IncludedInv'
  BY DEF AccountInv, MempoolInv, IncludedInv, SentSound
<1> QED BY <1>1, <1>2, <1>3, <1>4 DEF AccountInv
\* A sequence that grows by one.
LEMMA AppendSequence ==
  ASSUME NEW q, IsSequence(q), NEW m
  PROVE  /\ IsSequence(Append(q, m)) /\ Len(Append(q, m)) = Len(q) + 1
         /\ \A i \in 1 .. Len(q) : Append(q, m)[i] = q[i]
         /\ Append(q, m)[Len(q) + 1] = m
<1> DEFINE S == {q[i] : i \in 1 .. Len(q)} \union {m}
<1>1. q \in Seq(S)
  BY DEF IsSequence
<1>2. m \in S
  OBVIOUS
<1> HIDE DEF S
<1>3. /\ Append(q, m) \in Seq(S) /\ Len(Append(q, m)) = Len(q) + 1
      /\ \A i \in 1 .. Len(q) : Append(q, m)[i] = q[i]
      /\ Append(q, m)[Len(q) + 1] = m
  BY <1>1, <1>2, AppendProperties
<1>4. IsSequence(Append(q, m))
  <2> DEFINE grown == Append(q, m)
  <2>1. grown \in Seq(S)
    BY <1>3
  <2> HIDE DEF grown
  <2>2. IsSequence(grown)
    BY <2>1 DEF IsSequence
  <2> QED BY <2>2 DEF grown
<1> QED BY <1>3, <1>4

\* A transaction of a task is one of its account's.
LEMMA SentBy ==
  ASSUME AccountInv, NEW m, SentSound(m, job)
  PROVE  /\ TransactionAddress(m.tx) = AddressOf(job[m.by].builder)
         /\ TransactionAddress(m.tx) \in DOMAIN Owner
         /\ m.by \in Senders /\ m.tx.nonce \in Nat
<1>1. m.by \in Senders /\ m.tx.nonce \in Nat
  BY DEF SentSound
<1>2. Sound(job[m.by].builder)
  BY <1>1, TaskFacts
<1>3. TransactionAddress(m.tx) = AddressOf(job[m.by].builder)
  BY <1>2, TransactionAccepted DEF SentSound
<1> QED BY <1>1, <1>2, <1>3, BlockKnown

\* A transaction is put into a block: its nonce is above all those before it.
LEMMA InvInclude ==
  ASSUME AccountInv, NEW m \in mempool, Include(m)
  PROVE  AccountInv'
<1> DEFINE a == TransactionAddress(m.tx)
           n == m.tx.nonce
<1>1. /\ n = ExpectedNonce(m.tx, pending) /\ pending' = [pending EXCEPT ![a] = n + 1]
      /\ mempool' = mempool \ {m} /\ included' = Append(included, m)
      /\ UNCHANGED <<job, task, latest, begun, quoted>>
  BY DEF Include
<1>2. SentSound(m, job)
  BY DEF AccountInv, MempoolInv
<1>3. a \in DOMAIN Owner /\ n \in Nat
  BY <1>2, SentBy
<1>4. latest \in NonceTable /\ pending \in NonceTable
  BY DEF AccountInv, NoncesInv
<1>5. pending[a] <= n
  <2>1. n = IF m.tx.type = "DEPLOY_ACCOUNT" /\ pending[a] = NotDeployed THEN 0 ELSE pending[a]
    BY <1>1 DEF ExpectedNonce
  <2> QED BY <1>3, <1>4, <2>1 DEF NonceTable, NotDeployed
<1> HIDE DEF a, n
<1>6. /\ pending' \in NonceTable /\ pending'[a] = n + 1
      /\ \A c \in DOMAIN Owner \ {a} : pending'[c] = pending[c]
  BY <1>1, <1>3, <1>4 DEF NonceTable
<1>7. \A c \in DOMAIN Owner : \A k \in Nat \union {NotDeployed} :
        k <= pending[c] => k <= pending'[c]
  <2> TAKE c \in DOMAIN Owner
  <2>1. pending[c] \in Nat \union {NotDeployed}
    BY <1>4 DEF NonceTable
  <2> QED BY <2>1, <1>3, <1>5, <1>6 DEF NotDeployed
<1>8. NoncesInv'
  BY <1>1, <1>4, <1>6, <1>7 DEF AccountInv, NoncesInv, NonceTable
<1>9. BegunInv'
  <2>1. ASSUME NEW r \in Senders, NEW c \in DOMAIN Owner
        PROVE  begun[r].pending[c] <= pending'[c]
    BY <1>7 DEF AccountInv, BegunInv, NonceTable
  <2> QED BY <1>1, <2>1 DEF AccountInv, BegunInv
<1>10. TasksInv'
  BY <1>1 DEF AccountInv, TasksInv
<1>11. MempoolInv'
  BY <1>1 DEF AccountInv, MempoolInv, SentSound
<1>12. IncludedInv'
  <2> DEFINE N == Len(included)
  <2>1. /\ IsSequence(included) /\ N \in Nat
    BY DEF AccountInv, IncludedInv, IsSequence
  <2>2. /\ IsSequence(included') /\ Len(included') = N + 1
        /\ \A i \in 1 .. N : included'[i] = included[i]
        /\ included'[N + 1] = m
    BY <1>1, <2>1, AppendSequence
  <2>3. ASSUME NEW i \in 1 .. N
        PROVE  /\ SentSound(included[i], job)
               /\ TransactionAddress(included[i].tx) \in DOMAIN Owner
               /\ included[i].tx.nonce \in Nat
               /\ included[i].tx.nonce < pending[TransactionAddress(included[i].tx)]
               /\ included[i].tx.nonce < pending'[TransactionAddress(included[i].tx)]
               /\ \A k \in 1 .. (i - 1) :
                    TransactionAddress(included[k].tx) = TransactionAddress(included[i].tx)
                      => included[k].tx.nonce < included[i].tx.nonce
    <3> DEFINE c == TransactionAddress(included[i].tx)
               x == included[i].tx.nonce
    <3>1. /\ SentSound(included[i], job) /\ x < pending[c]
          /\ \A k \in 1 .. (i - 1) : TransactionAddress(included[k].tx) = c
               => included[k].tx.nonce < x
      BY DEF AccountInv, IncludedInv
    <3>2. c \in DOMAIN Owner /\ x \in Nat
      BY <3>1, SentBy
    <3>3. pending[c] \in Nat \union {NotDeployed} /\ pending'[c] \in Nat \union {NotDeployed}
      BY <3>2, <1>4, <1>6 DEF NonceTable
    <3> HIDE DEF c, x
    <3>4. pending[c] <= pending'[c]
      BY <3>2, <3>3, <1>7 DEF NotDeployed
    <3>5. x < pending'[c]
      BY <3>1, <3>2, <3>3, <3>4 DEF NotDeployed
    <3> QED BY <3>1, <3>2, <3>5 DEF c, x
  <2> HIDE DEF N
  <2>4. ASSUME NEW i \in 1 .. N + 1
        PROVE  /\ SentSound(included'[i], job')
               /\ included'[i].tx.nonce < pending'[TransactionAddress(included'[i].tx)]
               /\ \A k \in 1 .. (i - 1) :
                    TransactionAddress(included'[k].tx) = TransactionAddress(included'[i].tx)
                      => included'[k].tx.nonce < included'[i].tx.nonce
    <3>1. CASE i = N + 1
      <4>1. included'[i] = m
        BY <2>2, <3>1
      <4>2. SentSound(m, job')
        BY <1>1, <1>2 DEF SentSound
      <4>3. n < pending'[a]
        BY <1>3, <1>6
      <4>4. ASSUME NEW k \in 1 .. N, TransactionAddress(included[k].tx) = a
            PROVE  included[k].tx.nonce < n
        <5>1. included[k].tx.nonce \in Nat /\ included[k].tx.nonce < pending[a]
          BY <2>3, <4>4
        <5>2. pending[a] \in Nat \union {NotDeployed}
          BY <1>3, <1>4 DEF NonceTable
        <5> QED BY <5>1, <5>2, <1>3, <1>5 DEF NotDeployed
      <4>5. \A k \in 1 .. (i - 1) : included'[k] = included[k] /\ k \in 1 .. N
        BY <2>1, <2>2, <3>1
      <4> QED BY <4>1, <4>2, <4>3, <4>4, <4>5 DEF a, n
    <3>2. CASE i \in 1 .. N
      <4>1. included'[i] = included[i]
        BY <2>2, <3>2
      <4>2. \A k \in 1 .. (i - 1) : included'[k] = included[k]
        BY <2>1, <2>2, <3>2
      <4>3. SentSound(included[i], job')
        BY <1>1, <2>3, <3>2 DEF SentSound
      <4> QED BY <2>3, <3>2, <4>1, <4>2, <4>3
    <3> QED BY <2>1, <3>1, <3>2
  <2> QED BY <2>2, <2>4 DEF IncludedInv
<1> QED BY <1>1, <1>8, <1>9, <1>10, <1>11, <1>12 DEF AccountInv

\* Every step keeps the invariant.
LEMMA InvNext == AccountInv /\ [Next]_vars => AccountInv'
<1> SUFFICES ASSUME AccountInv, [Next]_vars PROVE AccountInv'
  OBVIOUS
<1>1. ASSUME NEW s \in Senders, Sender(s) PROVE AccountInv'
  BY <1>1, InvCall, InvReceive
     DEF Sender, CallExecution, CallDeclaration, CallLegacyDeclaration, CallDeployment
<1>2. ASSUME NEW s \in Senders, NodeAnswers(s) \/ NetworkFails(s) PROVE AccountInv'
  BY <1>2, InvNodeAnswers, InvNetworkFails
<1>3. ASSUME NEW m \in mempool, Include(m) PROVE AccountInv'
  BY <1>3, InvInclude
<1>4. ASSUME NEW m \in mempool, Reject(m) PROVE AccountInv'
  BY <1>4, InvNodeAlone DEF Reject
<1>5. CASE SealBlock
  BY <1>5, InvNodeAlone DEF SealBlock
<1>6. CASE PriceRises
  BY <1>6, InvNodeAlone DEF PriceRises
<1>7. CASE UNCHANGED vars
  BY <1>7, InvNodeAlone DEF vars, node
<1> QED BY <1>1, <1>2, <1>3, <1>4, <1>5, <1>6, <1>7 DEF Next

\* The invariant holds in every state.
THEOREM AccountInvariant == Spec => []AccountInv
<1> QED BY InvInit, InvNext, PTL DEF Spec

-----------------------------------------------------------------------------
(***************************************************************************)
(* What it implies.                                                        *)
(***************************************************************************)
\* A nonce that an account looked up is not older than the call, however the
\* blocks and the tasks interleave.
THEOREM OwnNoncesSeen == Spec => []OwnNonceSeen
<1>1. ASSUME AccountInv PROVE OwnNonceSeen
  <2> SUFFICES ASSUME NEW s \in Senders, task[s].at \in {"estimate", "submit"},
                      job[s].builder.nonce = <<>>, ~ job[s].builder.account.wrapped
               PROVE  task[s].nonce >=
                        (IF job[s].builder.account.block_id = Pending THEN begun[s].pending
                         ELSE begun[s].latest)[AddressOf(job[s].builder)]
    BY DEF OwnNonceSeen
  <2> DEFINE j == job[s]
             seen == SeenBy(j, begun[s])
  <2>1. TaskSound(task[s], j, seen, quoted[s])
    BY <1>1, TaskFacts
  <2>2. seen = (IF j.builder.account.block_id = Pending THEN begun[s].pending
                ELSE begun[s].latest)[AddressOf(j.builder)]
    BY DEF SeenBy, block_id
  <2> HIDE DEF seen
  <2>3. NonceFor(j.builder, task[s].nonce, seen)
    BY <2>1 DEF TaskSound, AskingNonce, AskingFee, Submitting
  <2>4. task[s].nonce >= seen
    BY <2>3 DEF NonceFor
  <2> QED BY <2>2, <2>4
<1> QED BY <1>1, AccountInvariant, PTL

\* A builder with a nonce gets one transaction into blocks at most, however
\* often it is sent.
THEOREM FixedNonceUsedOnce == Spec => []FixedNonceOnce
<1>1. ASSUME AccountInv PROVE FixedNonceOnce
  <2> SUFFICES ASSUME NEW s \in Senders, job[s].builder.nonce # <<>>
               PROVE  Cardinality({i \in DOMAIN included : included[i].by = s}) <= 1
    BY DEF FixedNonceOnce
  <2> DEFINE mine == {i \in DOMAIN included : included[i].by = s}
  <2>1. DOMAIN included = 1 .. Len(included) /\ Len(included) \in Nat
    BY <1>1 DEF AccountInv, IncludedInv, IsSequence
  <2>2. ASSUME NEW i \in mine, NEW k \in mine, k < i
        PROVE  FALSE
    <3>1. /\ SentSound(included[i], job) /\ SentSound(included[k], job)
          /\ TransactionAddress(included[k].tx) = TransactionAddress(included[i].tx)
               => included[k].tx.nonce < included[i].tx.nonce
      BY <1>1, <2>1, <2>2 DEF AccountInv, IncludedInv
    <3>2. TransactionAddress(included[k].tx) = TransactionAddress(included[i].tx)
      BY <1>1, <3>1, SentBy
    <3>3. included[k].tx.nonce = included[i].tx.nonce /\ included[i].tx.nonce \in Nat
      BY <3>1 DEF SentSound
    <3> QED BY <3>1, <3>2, <3>3
  <2>3. CASE mine = {}
    <3> HIDE DEF mine
    <3>1. Cardinality(mine) = 0
      BY <2>3, FS_EmptySet
    <3> QED BY <3>1 DEF mine
  <2>4. CASE mine # {}
    <3>1. PICK i \in mine : TRUE
      BY <2>4
    <3>2. \A k \in mine : k = i
      BY <2>1, <2>2, <3>1
    <3> HIDE DEF mine
    <3>3. mine = {i}
      BY <3>1, <3>2
    <3>4. Cardinality(mine) = 1
      BY <3>3, FS_Singleton
    <3> QED BY <3>4 DEF mine
  <2> QED BY <2>3, <2>4
<1> QED BY <1>1, AccountInvariant, PTL
\* A transaction does what its builder was built for.
LEMMA TransactionCarriesOut ==
  ASSUME NEW b, Sound(b), NEW u, NEW n, NEW f, TransactionOf(u, b, n, f)
  PROVE  CarriesOut(u, b)
<1>1. CASE b.kind = "execution"
  <2>1. IsSequence(b.calls) /\ \A i \in DOMAIN b.calls : IsCall(b.calls[i])
    BY <1>1 DEF Sound
  <2>2. u.calldata = raw_calldata(b.calls)
    BY <1>1 DEF TransactionOf
  <2>3. DecodedCalls(u.calldata) = b.calls
    BY <2>1, <2>2, CallsDecoded
  <2> QED BY <1>1, <2>3 DEF CarriesOut
<1>2. CASE b.kind = "declaration"
  BY <1>2 DEF TransactionOf, CarriesOut
<1>3. CASE b.kind = "legacy"
  BY <1>3 DEF TransactionOf, CarriesOut
<1>4. CASE b.kind = "deployment"
  <2>1. TransactionAddress(u) = DeploymentAddress(b)
    BY <1>4, TransactionAccepted DEF AddressOf
  <2> QED BY <1>4, <2>1 DEF CarriesOut
<1> QED BY <1>1, <1>2, <1>3, <1>4 DEF Sound, Kinds

\* Every transaction that a task asks the node about, through either provider
\* and whatever happened before, is the one its builder was built for: signed
\* so that the account accepts it, with the nonce and the fee that were given
\* or, without one, a fee quoted for that nonce.
THEOREM AlwaysSentAsPrepared == Spec => []SentAsPrepared
<1>1. ASSUME AccountInv PROVE SentAsPrepared
  <2> SUFFICES ASSUME NEW s \in Senders, task[s].at \in {"estimate", "submit"}
               PROVE  LET b == job[s].builder
                          tx == AskedTransaction(s)
                      IN  /\ Accepted(tx) /\ CarriesOut(tx, b)
                          /\ b.nonce # <<>> => tx.nonce = b.nonce[1]
                          /\ task[s].at = "submit" =>
                               IF b.max_fee # <<>> THEN tx.max_fee = b.max_fee[1]
                               ELSE \E q \in quoted[s] :
                                      q[1] = tx.nonce /\ tx.max_fee = OfferedFee(b, q[2])
    BY DEF SentAsPrepared
  <2> DEFINE j == job[s]
             b == j.builder
             t == task[s]
             n == t.nonce
             tx == AskedTransaction(s)
             seen == SeenBy(j, begun[s])
  <2>1. Sound(b) /\ TaskSound(t, j, seen, quoted[s])
    BY <1>1, TaskFacts
  <2>2. \E f : /\ TransactionOf(tx, b, n, f) /\ NonceFor(b, n, seen)
               /\ t.at = "submit" => f \in FeesFor(b, n, quoted[s])
    <3>1. CASE AskingFee(t, j, seen, quoted[s])
      <4>1. TransactionOf(tx, b, n, 0)
        BY <2>1, <3>1, FeeAsked DEF AskedTransaction
      <4>2. t.at = "estimate" /\ NonceFor(b, n, seen)
        BY <3>1 DEF AskingFee
      <4> QED BY <4>1, <4>2
    <3>2. CASE Submitting(t, j, seen, quoted[s])
      BY <2>1, <3>2, SubmissionAsked DEF AskedTransaction
    <3>3. ~ AskingNonce(t, j, seen)
      BY DEF AskingNonce
    <3> QED BY <2>1, <3>1, <3>2, <3>3 DEF TaskSound
  <2>3. PICK f : /\ TransactionOf(tx, b, n, f) /\ NonceFor(b, n, seen)
                 /\ t.at = "submit" => f \in FeesFor(b, n, quoted[s])
    BY <2>2
  <2>4. Accepted(tx) /\ CarriesOut(tx, b)
    BY <2>1, <2>3, TransactionAccepted, TransactionCarriesOut
  <2>5. tx.nonce = n /\ tx.max_fee = f
    BY <2>3 DEF TransactionOf
  <2>6. b.nonce # <<>> => tx.nonce = b.nonce[1]
    BY <2>3, <2>5 DEF NonceFor
  <2> HIDE DEF tx, b, t
  <2>7. t.at = "submit" =>
          IF b.max_fee # <<>> THEN tx.max_fee = b.max_fee[1]
          ELSE \E q \in quoted[s] : q[1] = tx.nonce /\ tx.max_fee = OfferedFee(b, q[2])
    BY <2>3, <2>5 DEF FeesFor
  <2> QED BY <2>4, <2>6, <2>7 DEF tx, b, t
<1> QED BY <1>1, AccountInvariant, PTL
============================================================================
