------------------------------ MODULE Account ------------------------------
(* Clients that send transactions from accounts of starknet-accounts, each   *)
(* an asynchronous task over a provider, and the node they talk to.  A task  *)
(* stops at the three questions that a send may put: the nonce, the fee, and *)
(* the transaction itself.                                                   *)
EXTENDS AccountTransactions, ProviderAgreement, FiniteSets

CONSTANTS
  Senders,      \* the tasks
  Jobs,         \* a set of [Senders -> a builder, an operation, and how often the
                \* task calls it]
  Owner,        \* [address -> the public key its contract checks]
  FirstNonce,   \* [address -> its first nonce, NotDeployed without a contract]
  ChainId,      \* the chain of the node
  Prices        \* the fees a transaction may cost

NotDeployed == -1

ASSUME OwnerAssumption == FirstNonce \in [DOMAIN Owner -> Nat \union {NotDeployed}]
ASSUME PricesAssumption == Prices \subseteq Nat /\ Prices # {}

VARIABLES
  job,       \* [Senders -> builder, operation and number of calls]
  task,      \* [Senders -> where the task is, and what it is waiting for]
  sends,     \* [Senders -> how often it was called]
  latest,    \* the nonces in the latest block
  pending,   \* the nonces in the pending block
  mempool,   \* transactions the node has received, with their senders
  included,  \* the same, in the order they were put into blocks
  price,     \* what a transaction costs now
  begun,     \* [Senders -> the nonces of both blocks when the call began]
  quoted     \* [Senders -> the nonces and fees the node has quoted to it]

node == <<latest, pending, mempool, included, price>>
vars == <<job, task, sends, node, begun, quoted>>

-----------------------------------------------------------------------------
(* The control of a task.  An ask that the provider answers by itself ends   *)
(* the task at once.                                                         *)
Idle == [at |-> "idle"]
Done(result) == [at |-> "done", result |-> result]

Provided(j, ask, response) == received(j.builder.account.provider, ask, response)

Waiting(j, at, n, ask) ==
  IF ask.asks THEN [at |-> at, nonce |-> n, ask |-> ask, response |-> <<>>]
  ELSE Done(Provided(j, ask, Broken))

AskNonce(j, address) ==
  Waiting(j, "nonce", 0,
          get_nonce(j.builder.account.provider, address, block_id(j.builder.account)))

(* estimate_fee_with_nonce signs the transaction with a fee of zero.         *)
AskEstimate(j, n) ==
  LET request == Request(j.builder, n, 0)
      account == j.builder.account
  IN  IF ~request.ok THEN Done(request)
      ELSE Waiting(j, "estimate", n,
                   estimate_fee(account.provider, request.value, block_id(account), FALSE))

(* send and simulate of a prepared transaction.                              *)
AskSubmit(j, n, f) ==
  LET request == Request(j.builder, n, f)
      account == j.builder.account
  IN  IF ~request.ok THEN Done(request)
      ELSE Waiting(j, "submit", n,
             IF j.op = "simulate"
             THEN simulate_transaction(account.provider, request.value, block_id(account),
                                       FALSE)
             ELSE add_transaction(account.provider, request.value))

(* prepare, once the nonce is known; estimate_fee asks for the fee whether   *)
(* or not the builder has one.                                               *)
WithNonce(j, n) ==
  IF j.op # "estimate_fee" /\ j.builder.max_fee # <<>>
  THEN AskSubmit(j, n, j.builder.max_fee[1]) ELSE AskEstimate(j, n)

Start_always_fetching(j, address) == AskNonce(j, address)
Start(j, address) ==
  IF j.builder.nonce # <<>> THEN WithNonce(j, j.builder.nonce[1]) ELSE AskNonce(j, address)

(* prepared() refuses a builder without a nonce or a fee.                    *)
StartPrepared(j) ==
  IF j.builder.nonce = <<>> \/ j.builder.max_fee = <<>> THEN Done(Err("NotPrepared"))
  ELSE AskSubmit(j, j.builder.nonce[1], j.builder.max_fee[1])

StartOf(j, address) == IF j.op = "prepared" THEN StartPrepared(j) ELSE Start(j, address)

ContractMissing(r) ==
  ~r.ok /\ r.error.kind = "StarknetError" /\ r.error.code = "ContractNotFound"

(* fetch_nonce of a deployment: an account that is not there has nonce 0.    *)
fetch_nonce(r) == IF ContractMissing(r) THEN Ok(0) ELSE r

ResumeNonce(j, r) == IF r.ok THEN WithNonce(j, r.value) ELSE Done(r)

ResumeEstimate(j, n, r) ==
  IF ~r.ok \/ j.op = "estimate_fee" THEN Done(r)
  ELSE AskSubmit(j, n, OfferedFee(j.builder, r.value.overall_fee))

Resume(j, t, r) ==
  CASE t.at = "nonce" ->
         ResumeNonce(j, IF j.builder.kind = "deployment" THEN fetch_nonce(r) ELSE r)
    [] t.at = "estimate" -> ResumeEstimate(j, t.nonce, r)
    [] t.at = "submit" -> Done(r)

-----------------------------------------------------------------------------
(* The operations: the four builders are called, and their answers come.     *)
AddressOf(b) ==
  IF b.kind = "deployment" THEN DeploymentAddress(b) ELSE b.account.address

(* What the types of the code say of a builder, and that its account is the  *)
(* caller's: its key is the one that the contract checks, and its chain is   *)
(* the node's.  An account set to a block of the past is left out.           *)
Kinds == {"execution", "declaration", "legacy", "deployment"}

IsOption(o) == o = <<>> \/ (o = <<o[1]>> /\ o[1] \in Nat)
IsSequence(s) == Len(s) \in Nat /\ s = [k \in 1..Len(s) |-> s[k]]
IsCall(call) ==
  /\ call = [to |-> call.to, selector |-> call.selector, calldata |-> call.calldata]
  /\ IsSequence(call.calldata)

Sound(b) ==
  /\ b.kind \in Kinds
  /\ IsOption(b.nonce) /\ IsOption(b.max_fee)
  /\ b.account.block_id \in {Latest, Pending} /\ b.account.chain_id = ChainId
  /\ AddressOf(b) \in DOMAIN Owner
  /\ Owner[AddressOf(b)] = public_key(b.account.signer)
  /\ b.kind = "execution" =>
       IsSequence(b.calls) /\ \A i \in DOMAIN b.calls : IsCall(b.calls[i])

ASSUME JobsAssumption == \A j \in Jobs : \A s \in Senders : Sound(j[s].builder)

Call(s, kind) ==
  LET b == job[s].builder
  IN  /\ b.kind = kind
      /\ task[s].at \in {"idle", "done"} /\ sends[s] < job[s].times
      /\ task' = [task EXCEPT ![s] = StartOf(job[s], AddressOf(b))]
      /\ sends' = [sends EXCEPT ![s] = @ + 1]
      /\ begun' = [begun EXCEPT ![s] = [latest |-> latest, pending |-> pending]]
      /\ UNCHANGED <<job, node, quoted>>

CallExecution(s) == Call(s, "execution")
CallDeclaration(s) == Call(s, "declaration")
CallLegacyDeclaration(s) == Call(s, "legacy")
CallDeployment(s) == Call(s, "deployment")

Awaits(s) == task[s].at \in {"nonce", "estimate", "submit"}
Unanswered(s) == Awaits(s) /\ task[s].response = <<>>

Receive_until_served(s) ==
  /\ Awaits(s) /\ task[s].response # <<>>
  /\ LET r == Provided(job[s], task[s].ask, task[s].response[1])
     IN  task' = [task EXCEPT ![s] =
                    IF ~r.ok /\ r.error.kind = "RateLimited"
                    THEN [@ EXCEPT !.response = <<>>] ELSE Resume(job[s], @, r)]
  /\ UNCHANGED <<job, sends, node, begun, quoted>>
Receive(s) ==
  /\ Awaits(s) /\ task[s].response # <<>>
  /\ task' = [task EXCEPT ![s] =
                Resume(job[s], @, Provided(job[s], @.ask, @.response[1]))]
  /\ UNCHANGED <<job, sends, node, begun, quoted>>

-----------------------------------------------------------------------------
(* The node.  It recomputes the hash of a transaction from its fields, and   *)
(* checks the signature against the key of the account.                      *)
TransactionAddress(tx) ==
  IF tx.type = "DEPLOY_ACCOUNT"
  THEN compute_hash_on_elements(<<"STARKNET_CONTRACT_ADDRESS", 0, tx.contract_address_salt,
         tx.class_hash, compute_hash_on_elements(tx.constructor_calldata)>>)
  ELSE tx.sender_address

HashedPayload(tx) ==
  CASE tx.type = "INVOKE_FUNCTION" -> tx.calldata
    [] tx.type \in {"DECLARE_V1", "DECLARE_V2"} -> <<tx.contract_class.hash>>
    [] tx.type = "DEPLOY_ACCOUNT" ->
         <<tx.class_hash, tx.contract_address_salt>> \o tx.constructor_calldata

TransactionPrefix(type) ==
  CASE type = "INVOKE_FUNCTION" -> <<"invoke", 1>>
    [] type = "DECLARE_V1" -> <<"declare", 1>>
    [] type = "DECLARE_V2" -> <<"declare", 2>>
    [] type = "DEPLOY_ACCOUNT" -> <<"deploy_account", 1>>

TransactionHash(tx) ==
  compute_hash_on_elements(
    TransactionPrefix(tx.type) \o
    <<TransactionAddress(tx), 0, compute_hash_on_elements(HashedPayload(tx)), tx.max_fee,
      ChainId, tx.nonce>> \o
    IF tx.type = "DECLARE_V2" THEN <<tx.compiled_class_hash>> ELSE <<>>)

(* The key that owns an account; for a signature <<"signature", key, hash>>. *)
OwnerOf(tx) == Owner[TransactionAddress(tx)]
Accepted(tx) ==
  /\ public_key(tx.signature[2]) = OwnerOf(tx)
  /\ tx.signature[3] = TransactionHash(tx)

(* The nonce that an account has in a block, for a transaction of its.       *)
ExpectedNonce(tx, nonces) ==
  LET n == nonces[TransactionAddress(tx)]
  IN  IF tx.type = "DEPLOY_ACCOUNT" /\ n = NotDeployed THEN 0 ELSE n

Nonces(block) == IF block = Pending THEN pending ELSE latest

NonceAnswer(args) ==
  LET n == Nonces(args.block)[args.contract]
  IN  IF n = NotDeployed THEN Err("no_contract") ELSE Ok(n)

ExecutionAnswer(args) ==
  IF ExpectedNonce(args.tx, Nonces(args.block)) = NotDeployed THEN Err("no_contract")
  ELSE IF args.tx.nonce # ExpectedNonce(args.tx, Nonces(args.block)) THEN Err("bad_nonce")
  ELSE IF ~Accepted(args.tx) THEN Err("failed")
  ELSE Ok([fee |-> price, gas_price |-> price, gas |-> 1])

Receipt(tx) ==
  [transaction_hash |-> TransactionHash(tx),
   address |-> IF tx.type = "DEPLOY_ACCOUNT" THEN <<TransactionAddress(tx)>> ELSE <<>>,
   class_hash |-> IF tx.type \in {"DECLARE_V1", "DECLARE_V2"}
                  THEN <<tx.contract_class.hash>> ELSE <<>>]

AddAnswer(tx) ==
  IF ~Accepted(tx) THEN Err("failed")
  ELSE IF tx.nonce < ExpectedNonce(tx, pending) THEN Err("bad_nonce") ELSE Ok(Receipt(tx))

AnswerTo(call) ==
  CASE call.op = "get_nonce" -> NonceAnswer(call.args)
    [] call.op \in {"estimate_fee", "simulate_transaction"} -> ExecutionAnswer(call.args)
    [] call.op = "add_transaction" -> AddAnswer(call.args.tx)

(* The node handles a request; its answer may be lost.                       *)
NodeAnswers(s) ==
  /\ Unanswered(s)
  /\ LET p == job[s].builder.account.provider
         call == NodeReads(p, task[s].ask.request)
         outcome == AnswerTo(call)
     IN  /\ \E response \in {NodeResponse(p, call.op, outcome), Broken} :
              task' = [task EXCEPT ![s].response = <<response>>]
         /\ mempool' = IF outcome.ok /\ call.op = "add_transaction"
                       THEN mempool \union {[tx |-> call.args.tx, by |-> s]} ELSE mempool
         /\ quoted' = IF outcome.ok /\ call.op = "estimate_fee"
                      THEN [quoted EXCEPT ![s] = @ \union {<<call.args.tx.nonce, price>>}]
                      ELSE quoted
  /\ UNCHANGED <<job, sends, latest, pending, included, price, begun>>

(* The request is lost, or refused on the way, or answered by a proxy.       *)
NetworkFails(s) ==
  /\ Unanswered(s)
  /\ \E response \in {Broken, TooManyRequests, Garbage} :
       task' = [task EXCEPT ![s].response = <<response>>]
  /\ UNCHANGED <<job, sends, node, begun, quoted>>

Include(m) ==
  LET a == TransactionAddress(m.tx)
  IN  /\ m.tx.nonce = ExpectedNonce(m.tx, pending) /\ m.tx.max_fee >= price
      /\ pending' = [pending EXCEPT ![a] = m.tx.nonce + 1]
      /\ mempool' = mempool \ {m}
      /\ included' = Append(included, m)
      /\ UNCHANGED <<job, task, sends, latest, price, begun, quoted>>

Reject(m) ==
  /\ mempool' = mempool \ {m}
  /\ UNCHANGED <<job, task, sends, latest, pending, included, price, begun, quoted>>

SealBlock ==
  /\ latest # pending /\ latest' = pending
  /\ UNCHANGED <<job, task, sends, pending, mempool, included, price, begun, quoted>>

PriceRises ==
  /\ \E q \in Prices : q > price /\ price' = q
  /\ UNCHANGED <<job, task, sends, latest, pending, mempool, included, begun, quoted>>

-----------------------------------------------------------------------------
Init ==
  /\ job \in Jobs
  /\ task = [s \in Senders |-> Idle]
  /\ sends = [s \in Senders |-> 0]
  /\ latest = FirstNonce /\ pending = FirstNonce
  /\ mempool = {} /\ included = <<>>
  /\ price \in Prices
  /\ begun = [s \in Senders |-> [latest |-> latest, pending |-> pending]]
  /\ quoted = [s \in Senders |-> {}]

Sender(s) ==
  \/ CallExecution(s) \/ CallDeclaration(s) \/ CallLegacyDeclaration(s)
  \/ CallDeployment(s) \/ Receive(s)

Next ==
  \/ \E s \in Senders : Sender(s) \/ NodeAnswers(s) \/ NetworkFails(s)
  \/ \E m \in mempool : Include(m) \/ Reject(m)
  \/ SealBlock \/ PriceRises

(* A task that was woken runs on, and a request is answered or fails: there  *)
(* is no timeout, so that nothing else ends it.                              *)
Fairness ==
  \A s \in Senders : /\ WF_vars(Receive(s))
                     /\ WF_vars(NodeAnswers(s) \/ NetworkFails(s))

Spec == Init /\ [][Next]_vars /\ Fairness

-----------------------------------------------------------------------------
(* What an account contract reads from the calldata of an execution.         *)
DecodedCalls(calldata) ==
  LET n == calldata[1]
      data == SubSeq(calldata, 4 * n + 3, Len(calldata))
      At(i, field) == calldata[4 * (i - 1) + 1 + field]
  IN  [i \in 1..n |->
         [to |-> At(i, 1), selector |-> At(i, 2),
          calldata |-> SubSeq(data, At(i, 3) + 1, At(i, 3) + At(i, 4))]]

(* A transaction does what its builder was built for.                        *)
CarriesOut(tx, b) ==
  CASE b.kind = "execution" -> DecodedCalls(tx.calldata) = b.calls
    [] b.kind = "declaration" ->
         /\ tx.type = "DECLARE_V2" /\ tx.contract_class = b.contract_class
         /\ tx.compiled_class_hash = b.compiled_class_hash
    [] b.kind = "legacy" -> tx.type = "DECLARE_V1" /\ tx.contract_class = b.contract_class
    [] b.kind = "deployment" -> TransactionAddress(tx) = DeploymentAddress(b)

(* The transaction that a task is asking about.                              *)
AskedTransaction(s) ==
  NodeReads(job[s].builder.account.provider, task[s].ask.request).args.tx

(* Every transaction that leaves a task, through either provider and after   *)
(* any interleaving of the questions before it, is the one its builder was   *)
(* built for, under a signature that the account checks over all its fields, *)
(* with the nonce and the fee that were given or, without one, a fee that is *)
(* the multiple of what the node quoted for the very nonce.                  *)
SentAsPrepared ==
  \A s \in Senders :
    LET b == job[s].builder
        tx == AskedTransaction(s)
    IN  task[s].at \in {"estimate", "submit"} =>
          /\ Accepted(tx) /\ CarriesOut(tx, b)
          /\ b.nonce # <<>> => tx.nonce = b.nonce[1]
          /\ task[s].at = "submit" =>
               IF b.max_fee # <<>> THEN tx.max_fee = b.max_fee[1]
               ELSE \E q \in quoted[s] :
                      q[1] = tx.nonce /\ tx.max_fee = OfferedFee(b, q[2])

(* A builder with a nonce may be sent again whenever an answer was lost: its *)
(* transaction is put into blocks once at most, even if the fee was quoted   *)
(* anew.                                                                     *)
FixedNonceOnce ==
  \A s \in Senders :
    job[s].builder.nonce # <<>> =>
      Cardinality({i \in DOMAIN included : included[i].by = s}) <= 1

(* A nonce that the account looked up is not older than the block the        *)
(* account was set to was when the call began, so that an account set to the *)
(* pending block follows its own transactions before they are sealed.  An    *)
(* account used through a reference forgets the block it was set to.         *)
OwnNonceSeen ==
  \A s \in Senders :
    LET b == job[s].builder
        seen == IF b.account.block_id = Pending THEN begun[s].pending ELSE begun[s].latest
    IN  (task[s].at \in {"estimate", "submit"} /\ b.nonce = <<>> /\ ~b.account.wrapped)
          => task[s].nonce >= seen[AddressOf(b)]

(* Every call of a builder returns, whatever is lost or refused.             *)
SendReturns == \A s \in Senders : Awaits(s) ~> task[s].at = "done"
============================================================================
