------------------------------- MODULE Settlement -------------------------------
(***************************************************************************)
(* Server, Cairo program and contract together: requests are accepted and  *)
(* batched by the server (BatchLog, which ProverServer implements), the    *)
(* program is run over a batch file, users register requests, and anyone   *)
(* passes anything to the contract's transitionState: an output, part of   *)
(* one, or what no program ever put out.  Nothing in the code ties these   *)
(* steps to each other.                                                    *)
(***************************************************************************)
EXTENDS TensorRoyale, CairoProgram

CONSTANTS
  Request,           \* requests as the server records them
  Capacity, NoBatch, Torn,
  Registration,      \* what users register: the arguments of registerRequest
  NoProof,           \* the program was not run yet
  MaxLog, MaxRegistrations,  \* bounds: the log, and the calls of registerRequest
  MaxCalldata        \* bound: requests in one call of transitionState

VARIABLES
  log, batch,  \* the server
  proof        \* the last run of the program: the batch it read, and its output

Server == INSTANCE BatchLog WITH HashOf <- hash_request

vars == <<contract, log, batch, proof>>

ASSUME SettlementAssumption ==
  /\ \A r \in Request :
       /\ r.id \in Id
       /\ r.request_type \in Arms => request_hash(r) \in Commitment \ {NoCommitment}
  /\ Registration \subseteq [sender : User, publicKey : Key, requestId : Id,
                             commitment : Commitment, usdcPayment : Nat]
  /\ Capacity \in Nat /\ MaxLog \in Nat /\ MaxRegistrations \in Nat /\ MaxCalldata \in Nat

\* swap_output_json: slots are handed out densely (ProverServer, SlotsAgree),
\* and no handler writes a public key.
Json(b) == [k \in DOMAIN b.log |-> [request |-> b.log[k], state_index |-> k - 1]]

\* The output as three values per request, as transitionState reads it.
ProgramOutput(b) ==
  [k \in DOMAIN Output(Json(b)) |->
     LET o == Output(Json(b))[k]
     IN  [requestId |-> o.id, publicKey |-> o.user_pub_key,
          requestCommitment |-> o.request_hash]]

SInit == Server!Init /\ Init /\ proof = NoProof

ServerStep ==
  /\ Server!Next
  /\ Len(log') <= MaxLog
  /\ UNCHANGED <<contract, proof>>

\* A torn file does not parse.
RunProgram ==
  /\ batch \notin {NoBatch, Torn}
  /\ Completes(Json(batch))
  /\ proof' = [batch |-> batch, output |-> ProgramOutput(batch)]
  /\ UNCHANGED <<contract, log, batch>>

Register(g) ==
  /\ FoldFunction(+, 0, registered) < MaxRegistrations
  /\ RegisterRequest(g.sender, g.publicKey, g.requestId, g.commitment, g.usdcPayment)
  /\ UNCHANGED <<log, batch, proof>>

SetToken == \E a \in Token \union {NoToken} :
  SetUsdcAddress(a) /\ UNCHANGED <<log, batch, proof>>

PayRegistered == TransferReturns /\ UNCHANGED <<log, batch, proof>>

\* No proof is asked for, and the caller is not looked at.
Settle ==
  \E n \in 0..MaxCalldata : \E output \in [1..n -> RequestKey] :
    TransitionState(output) /\ UNCHANGED <<log, batch, proof>>

Next ==
  \/ ServerStep
  \/ RunProgram
  \/ \E g \in Registration : Register(g)
  \/ SetToken
  \/ PayRegistered
  \/ Settle

Spec == SInit /\ [][Next]_vars
-----------------------------------------------------------------------------
(***************************************************************************)
(* Type invariant: a key is absent, or whole, valid and under its own id.  *)
(***************************************************************************)
TypeOK ==
  /\ requestKeys \in [Id -> RequestKey]
  /\ \A id \in Id : \/ requestKeys[id] = NoKey
                    \/ requestKeys[id].requestId = id /\ requestKeys[id].publicKey > 0
  /\ payments \in [Id -> [User -> Nat]]
  /\ usdcAddress \in Token \union {NoToken}
  /\ calls \in Seq(Call)
  /\ received \in Nat /\ unmoved \in Nat
  /\ registered \in [RealKey -> Nat]
  /\ settled \in [RealKey -> Nat]
  /\ log \in Seq(Request)
  /\ proof # NoProof => proof.batch.log \in Seq(Request)

(***************************************************************************)
(* A request settles at most once per registration of exactly its id, key  *)
(* and commitment, whoever passes whatever to transitionState: parts of an *)
(* output, an id twice in one array, what was passed before, or anything   *)
(* while the token is being called; and registrations can be overwritten   *)
(* at any time.  The all-zero key, which every id without a registration   *)
(* reads as under id 0, settles without one and is not counted.            *)
(***************************************************************************)
SettledOncePerRegistration == \A k \in RealKey : settled[k] <= registered[k]

(***************************************************************************)
(* What the program puts out for a batch of the server is never accepted   *)
(* by the contract, whatever was registered or settled: the handlers write *)
(* no public key, the program takes 0 for it, and under key 0 the contract *)
(* holds only the all-zero key, whose commitment is no hash.  (The contract*)
(* does not read the proof, so that this is about every run of the program *)
(* and not the last one only.)                                             *)
(***************************************************************************)
NoOutputSettles ==
  proof # NoProof /\ proof.output # <<>> => ~ Accepted(proof.output)

(***************************************************************************)
(* The payments the contract remembers are no more than the USDC it was    *)
(* sent and what other contracts were asked to send, which can be changed  *)
(* and changed back between two payments and while one is made: a payment  *)
(* is recorded once per answered call, and none for an address without     *)
(* code.  (Of contracts other than USDC the code does not learn whether    *)
(* they sent anything.)                                                    *)
(***************************************************************************)
PaymentsCovered ==
  FoldFunction(+, 0, [id \in Id |-> FoldFunction(+, 0, payments[id])]) <= received + unmoved

(***************************************************************************)
(* The leaf that the program writes for a dataset is the leaf under the    *)
(* root of the batch: the two hash its fields in the same order.           *)
(***************************************************************************)
Agrees(access) ==
  access.key < Capacity => proof.batch.leaves[access.key] = access.new_value

DatasetLeavesAgree ==
  proof # NoProof =>
    \A k \in DOMAIN proof.batch.log :
      proof.batch.log[k].request_type = "dataset" => Agrees(update_state(Json(proof.batch)[k]))

(***************************************************************************)
(* The program verifies the update of the tree, as main.cairo announces:   *)
(* its state dictionary holds the leaves under the new root, each of them  *)
(* and nothing else.                                                       *)
(***************************************************************************)
TreeUpdateVerified ==
  proof # NoProof =>
    LET dict == state_dict(Json(proof.batch))
    IN  {<<dict[k].key, dict[k].new_value>> : k \in DOMAIN dict} =
          {<<i, proof.batch.leaves[i]>> :
             i \in {j \in 0..(Capacity - 1) : proof.batch.leaves[j] # Zero}}
=============================================================================
