----------------------------- MODULE MCAccount -----------------------------
(* Model for TLC: two tasks, one owner with a deployed account and another   *)
(* account that is still to be deployed.                                     *)
EXTENDS Account

CONSTANTS t1, t2

MCChain == "chain"
Key == "key"
Old == <<"account">>

Factories(p) ==
  {OpenZeppelinAccountFactory("oz", MCChain, Key, p),
   ArgentAccountFactory("proxy", "impl", MCChain, "guardian", Key, p)}
Deployments ==
  {AccountDeployment("salt", f) : f \in UNION {Factories(p) : p \in Variants}}
NewAccounts == {DeploymentAddress(d) : d \in Deployments}

MCOwner == [address \in {Old} \union NewAccounts |-> public_key(Key)]
MCFirstNonce == [address \in DOMAIN MCOwner |-> IF address = Old THEN 0 ELSE NotDeployed]

Owned(p) == SingleOwnerAccount(p, Key, Old, MCChain)
OnPending(p) == set_block_id(Owned(p), Pending)

Transfer == [to |-> "token", selector |-> "transfer", calldata |-> <<"x", "y">>]
Ping == [to |-> "oracle", selector |-> "ping", calldata |-> <<>>]
Bid == [to |-> "market", selector |-> "bid", calldata |-> <<"z">>]

Sierra == [hash |-> "sierra"]
Legacy == [hash |-> "cairo0"]
Hashless == [hash |-> "none"]

Job(builder, op, times) == [builder |-> builder, op |-> op, times |-> times]

Transfers == <<Transfer, Ping, Bid>>
NewAccount(p) == OpenZeppelinAccountFactory("oz", MCChain, Key, p)
NewOwner(p) ==
  SingleOwnerAccount(p, Key, DeploymentAddress(AccountDeployment("salt", NewAccount(p))),
                     MCChain)

\* Every kind of builder and operation by itself, over every provider; a call
\* may be repeated, whatever came of it.
JobsOf(p) ==
  {Job(Execution(Transfers, OnPending(p)), op, 1) : op \in {"estimate_fee", "simulate"}} \union
  {Job(Execution(Transfers, acc), "send", 2) : acc \in {Owned(p), OnPending(p)}} \union
  {Job(Execution(Transfers, Shared(OnPending(p))), "send", 1),
   Job(Execution(Transfers, Owned(p)), "prepared", 1),
   Job(nonce(max_fee(deploy("c", Owned(p), "udc", <<"v">>, "salt", TRUE), 15), 0),
       "prepared", 2),
   Job(nonce(Execution(<<Bid>>, Owned(p)), 0), "send", 2),
   Job(fee_estimate_multiplier(Declaration(Sierra, "casm", Owned(p)), 15), "send", 1),
   Job(LegacyDeclaration(Legacy, Owned(p)), "send", 1),
   Job(LegacyDeclaration(Hashless, Owned(p)), "send", 1)} \union
  {Job(AccountDeployment("salt", f), "send", 1) : f \in Factories(p)}

Nothing == Job(Execution(<<>>, Owned(SequencerGateway)), "prepared", 0)

\* Two tasks of one account, and the first call of an account that the other
\* task is deploying.
Bidding == Job(max_fee(Execution(<<Bid>>, OnPending(SequencerGateway)), 15), "send", 1)
Deploying == Job(AccountDeployment("salt", NewAccount(JsonRpcHttp)), "send", 1)
Joining == Job(max_fee(Execution(<<Ping>>, NewOwner(JsonRpcHttp)), 15), "send", 1)

MCJobs ==
  {t1 :> j @@ t2 :> Nothing : j \in UNION {JobsOf(p) : p \in Variants}} \union
  {t1 :> Job(Execution(<<Ping>>, OnPending(JsonRpcHttp)), "send", 1) @@ t2 :> Bidding,
   t1 :> Job(nonce(Execution(<<Ping>>, Owned(SequencerGateway)), 0), "send", 2) @@ t2 :> Bidding,
   t1 :> Deploying @@ t2 :> Joining}
============================================================================
