------------------------------ MODULE TensorRoyale ------------------------------
(***************************************************************************)
(* The contract, src/solidity_contracts/contracts/TensorRoyale.sol.  A     *)
(* call that reverts changes nothing, so every require is a guard.         *)
(*                                                                         *)
(* The token is external.  usdcAddress can be any address.  USDC moves the *)
(* amount or reverts, and calls nobody.  Of another contract nothing is    *)
(* known: it can call this one before it returns, and need not move        *)
(* anything; what it returns is not looked at.  A call to an address       *)
(* without code reverts.                                                   *)
(***************************************************************************)
EXTENDS Naturals, Sequences, FiniteSets, SequencesExt

CONSTANTS
  Id,            \* request ids
  User,
  Key,           \* public keys that callers pass, valid or not
  Commitment,    \* request commitments
  NoCommitment,  \* the commitment of a deleted or absent key
  StarkPrime,    \* 2^251 + 17 * 2^192 + 1
  Token, Usdc,   \* contracts that answer transferFrom; USDC is one of them
  NoToken        \* an address without code, as usdcAddress is initially

\* Ids, users and keys are numbers of 256 and 160 bits.
ASSUME ContractAssumption ==
  /\ IsFiniteSet(Id) /\ 0 \in Id /\ IsFiniteSet(User)
  /\ Id \subseteq Nat /\ Key \subseteq Nat /\ StarkPrime \in Nat
  /\ NoCommitment \in Commitment
  /\ Usdc \in Token /\ NoToken \notin Token

VARIABLES
  requestKeys, payments, usdcAddress,
  calls,       \* calls of registerRequest that wait for transferFrom, inner ones last
  received,    \* history: USDC moved by transferFrom
  unmoved,     \* history: what contracts other than USDC were asked to move
  registered,  \* history: how often a key was registered
  settled      \* history: how often a key was settled

contract == <<requestKeys, payments, usdcAddress, calls, received, unmoved, registered, settled>>

RequestKey == [requestId : Id, publicKey : Key \union {0}, requestCommitment : Commitment]

Call == [requestId : Id, sender : User, amount : Nat, token : Token]

\* An id without a key reads as all zero.
NoKey == [requestId |-> 0, publicKey |-> 0, requestCommitment |-> NoCommitment]

RealKey == RequestKey \ {NoKey}

Init ==
  /\ requestKeys = [id \in Id |-> NoKey]
  /\ payments = [id \in Id |-> [u \in User |-> 0]]
  /\ usdcAddress = NoToken
  /\ calls = <<>>
  /\ received = 0 /\ unmoved = 0
  /\ registered = [k \in RealKey |-> 0]
  /\ settled = [k \in RealKey |-> 0]

\* A transaction of its own, or a call that the token makes.
Callable == calls # <<>> => Last(calls).token # Usdc

\* Anyone may call it, with any address.
SetUsdcAddress(a) ==
  /\ Callable
  /\ usdcAddress' = a
  /\ UNCHANGED <<requestKeys, payments, calls, received, unmoved, registered, settled>>

\* Only the upper limit is checked.
ValidKey_or_zero(publicKey) == publicKey < StarkPrime

ValidKey(publicKey) == publicKey < StarkPrime /\ publicKey > 0

\* That nobody answers is not noticed.
CallTransferFrom_unchecked(sender, requestId, amount) ==
  calls' = IF amount = 0 THEN calls
           ELSE Append(calls, [requestId |-> requestId, sender |-> sender,
                               amount |-> amount, token |-> usdcAddress])

CallTransferFrom(sender, requestId, amount) ==
  /\ amount > 0 => usdcAddress # NoToken
  /\ calls' = IF amount = 0 THEN calls
              ELSE Append(calls, [requestId |-> requestId, sender |-> sender,
                                  amount |-> amount, token |-> usdcAddress])

\* Whatever key the id had is overwritten, before the token is called.
RegisterRequest(sender, publicKey, requestId, commitment, usdcPayment) ==
  LET key == [requestId |-> requestId, publicKey |-> publicKey,
              requestCommitment |-> commitment]
  IN  /\ Callable
      /\ ValidKey(publicKey)
      /\ requestKeys' = [requestKeys EXCEPT ![requestId] = key]
      /\ CallTransferFrom(sender, requestId, usdcPayment)
      /\ registered' = [registered EXCEPT ![key] = @ + 1]
      /\ UNCHANGED <<payments, usdcAddress, received, unmoved, settled>>

\* The innermost call goes on, whatever transferFrom returned.  The payment of
\* an earlier call is replaced.
TransferReturns ==
  /\ calls # <<>>
  /\ LET call == Last(calls)
     IN  /\ payments' = [payments EXCEPT ![call.requestId][call.sender] = call.amount]
         /\ received' = received + IF call.token = Usdc THEN call.amount ELSE 0
         /\ unmoved' = unmoved + IF call.token \in Token \ {Usdc} THEN call.amount ELSE 0
  /\ calls' = Front(calls)
  /\ UNCHANGED <<requestKeys, usdcAddress, registered, settled>>

\* The key the loop finds at step k: deleted if the id came before.
KeyAt(output, k) ==
  IF \E j \in 1..(k - 1) : output[j].requestId = output[k].requestId
  THEN NoKey ELSE requestKeys[output[k].requestId]

\* The settled keys stay registered.
Cleared_kept(output) == requestKeys

\* Only the id of a settled key is reset.
Cleared_id_only(output) ==
  [id \in Id |-> IF \E k \in DOMAIN output : output[k].requestId = id
                 THEN [requestKeys[id] EXCEPT !.requestId = 0] ELSE requestKeys[id]]

Cleared(output) ==
  [id \in Id |-> IF \E k \in DOMAIN output : output[k].requestId = id
                 THEN NoKey ELSE requestKeys[id]]

\* No require of the loop fails.
Accepted(output) == \A k \in DOMAIN output : KeyAt(output, k) = output[k]

\* Anyone may call it, with any array: output has its elements in threes, and
\* with a length that is no multiple of three the call reverts.
TransitionState(output) ==
  /\ Callable
  /\ Accepted(output)
  /\ requestKeys' = Cleared(output)
  /\ settled' = [key \in RealKey |->
                   settled[key] + Cardinality({k \in DOMAIN output : output[k] = key})]
  /\ UNCHANGED <<payments, usdcAddress, calls, received, unmoved, registered>>
=============================================================================
