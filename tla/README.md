# Tensor Royale prover: TLA+ models and proofs

Tensor Royale settles machine-learning competitions. Clients send requests
(a problem with a prize, a dataset, a model submission, a verification of
results) to a Rust server. The server records the hash of every request in a
leaf of a Merkle tree and, when asked to finalize, writes a batch file. A Cairo
program reads that file and outputs the id, the public key and the commitment of
each request; a Solidity contract holds the registered requests and settles those it
finds in an array of such triples.

This directory models that system in TLA+, checks the models with TLC and proves
theorems about them with TLAPS. Paths are relative to the repository.

## 1. Inventory

| Component | Source | State | Operations | Status |
|---|---|---|---|---|
| Leaf table | `src/trees/superficial_tree.rs` | `leaf_nodes`, `count`, `zero_idxs` | `new`, `from_tree`, `from_disk`, `first_zero_idx`, `update_leaf_node`, `update_zero_idxs`, `nth_leaf_node` | modelled, proved |
| Request handlers | `src/requests/*_request.rs` | shared: leaf table, `updated_state_hashes`, `swap_output_json` | `execute_problem_request`, `execute_data_request`, `execute_submission_request`, `execute_verification_request` | modelled, proved |
| Server loop | `src/main.rs` | the request queue (tiny_http) | one arm per url; `?` and `unwrap` end the process | modelled, proved |
| Finalization | `src/settlment/finalize_batch.rs` | the file `prover/batch_input.json` | `finalize_batch`, `tree_partition_update` | modelled, proved |
| Tree, parallel update | `src/trees/mod.rs`, `tree_utils.rs` | `leaf_nodes`, `inner_nodes`, `root`, preimage map | `batch_transition_updates`, its rayon tasks | modelled, proved |
| Tree, sequential algorithms | same files | none of its own | `get_proof`, `verify_root`, `build_tree`, `inner_from_leaf_nodes2`, `hash_tree_level`, `idx_to_binary_pos`, `proof_pos` | modelled, proved |
| Cairo program | `prover/main.cairo`, `prover/transactions/*.cairo` | state dictionary, output list | one arm per request type, `update_state` | modelled |
| Cairo ranking | `prover/verification/*.cairo` | none | consensus matrix, error rates, ranking | partly: functions without their hints, proved |
| Contract | `solidity_contracts/contracts/TensorRoyale.sol` | `requestKeys`, `payments`, `usdcAddress` | `registerRequest`, `transitionState`, `setUsdcAddress` | modelled, proved |
| Storage | `src/utils/storage.rs` | a sled database | `store_verification`, `get_all_verifications` | modelled, proved |
| Cryptography, request types | `src/utils/crypto_uitls.rs`, `request_types.rs` | none | hashes, signatures, parsing | partly: parsing left out |
| Rust rank models | `src/settlment/rank_models.rs` | none | none: the file holds imports only | left out |
| starknet-rs: field, curve, hashes, signatures | `crates/starknet-rs/starknet-{ff,curve,crypto,crypto-codegen}` | the half-filled state of `PoseidonHasher` | arithmetic, ECDSA, Pedersen, Poseidon, reading and writing of numbers | partly, on a small field |
| starknet-rs: accounts | `crates/starknet-rs/starknet-{accounts,contract,signers}` | a builder per call; what a task awaits | send, simulate, estimate of four kinds of transactions | modelled, proved |
| starknet-rs: providers | `crates/starknet-rs/starknet-providers` | none | the methods of the gateway, JSON-RPC and `AnyProvider` | modelled |
| starknet-rs: class hashes, short strings, addresses | `starknet-core/src/types/contract`, `starknet-core/src/utils.rs` | none | `class_hash`, `hash_entrypoints`, short strings, selectors, addresses | partly: reading and writing of artifacts left out |
| starknet-rs: types, generated models, macros | `starknet-core/src/types`, `jsonrpc/models/codegen.rs` | none | serialization | left out: data layout |
| Avail scripts | `avail-da/*.ts` | none | sequential calls of a remote node | left out: I/O |
| Contract scripts, sample test | `solidity_contracts/scripts`, `test` | none | deployment | left out |

How the parts interact:

- The loop in `main` owns everything. It takes one request off tiny_http's queue,
  runs the handler to its end and sends the response. Handlers reach the shared
  collections through `Arc<Mutex<..>>`. The Rust code below `main` has one other
  kind of concurrency, the rayon tasks of a tree update.
- `finalize_batch` reads the three collections, builds a fresh depth-16 `Tree`,
  applies `updated_state_hashes` to it as one batch and writes both roots, the
  preimages and the request list to `batch_input.json`.
- The Cairo program reads that file; it assumes that every request goes to a leaf
  that was empty before (`prev_value = 0` in `update_state`).
- The contract can be called by anyone. `registerRequest` calls the token in its middle,
  and the token is whatever address was last given to `setUsdcAddress`.
  `transitionState` takes any array; it looks at no proof, and nothing ties the array to
  an output of the program.
- The Rust side uses starknet-rs for field elements and hashes. The library also
  brings accounts that send transactions over a provider; nothing in the repository
  calls them yet.

What is hard, and what makes each part correct:

- **Leaf table.** `zero_idxs` is a cache that may hold stale slots, `count` stays
  *on* the slot of a gap write, and finalization rebuilds the cache. Correct means
  that no leaf is overwritten by an allocation, no empty slot is lost, and a
  rebuild changes nothing that can be observed.
- **Server.** One request is recorded in three collections; the process stops on
  any malformed body; memory is lost while the file stays; the file is truncated
  before it is written; clients retry. Correct means that the collections agree,
  that a file which exists in full commits to exactly the accepted requests, and
  that who is told of success finds its request there.
- **Tree update.** Tasks of a row run in parallel in an arbitrary split of an
  arbitrary order, and take the locks several times per entry. Correct means that
  the result is the Merkle root of the updated leaves, and that the preimage map
  opens both roots.
- **Program and contract.** The two sides must agree on types, hashes, order and
  on which requests are still open. Anyone passes any array to `transitionState`,
  registrations overwrite each other, and a token other than USDC can call the contract
  in the middle of `registerRequest`. Correct means that nothing settles more often than
  it was registered, and that what is recorded as paid was asked of a token.
- **Cryptography.** Special cases of point addition, tables generated at build time,
  a hasher fed in pieces. Correct means that each function is what its definition
  says, for every input of a field small enough to try them all.
- **Accounts.** A send asks for a nonce, then for a fee, then submits; other
  transactions, price changes and lost answers come between. Correct means that what
  is sent is what was prepared and quoted, that a retry with a fixed nonce executes
  once, and that the caller always gets a result.

`PROJECT.json` lists each hazard at its line with the properties that would catch
it, or the reason why none does yet.

## 2. Modules

| Module | What it is |
|---|---|
| `SuperficialTree` | The methods of the leaf table, as operators on a tree value |
| `SuperficialTreeAPI` | State machine: one table under every sequence of public calls |
| `BatchLog` | Abstract specification of the server: a log, and a batch that commits to it |
| `ProverServer` | The loop, the handlers and finalization; refines `BatchLog` |
| `MerkleCommitment` | Abstract specification of the tree update: one atomic step |
| `BatchUpdate` | The rayon tasks of the tree update; refines `MerkleCommitment` |
| `RequestHashes` | The order in which the Rust handlers hash the fields of a request |
| `CairoProgram` | The program as a function from a batch file to its dictionary and output |
| `TensorRoyale` | The contract |
| `Settlement` | `BatchLog`, `CairoProgram` and `TensorRoyale` together |
| `TreeAlgorithms` | `build_tree` with its chunks and copies, zero hashes, proof positions |
| `Storage` | The two inserts of a verification, stops between them, the sled database |
| `Ranking` | Consensus matrix, error rates and ranking of the Cairo program |
| `Algorithms` | The storage beside one input of `build_tree`, the ranking, Poseidon or the conversions of numbers, with what is promised of the value |
| `ClassHashes`, `CairoStrings` | The hashes of contract classes; short strings, selectors and addresses of starknet-core |
| `FieldElement`, `Curve`, `Ecdsa`, `Pedersen`, `Poseidon` | The cryptography of starknet-rs over a field given by constants |
| `ProviderTypes`, `Gateway`, `JsonRpcClient`, `JsonRpcProvider`, `AnyProvider` | What each method of a provider asks of the node, and how it reads the answer |
| `NodeApi` | External: how a node reads the requests of both interfaces and answers them |
| `ProviderAgreement` | What it means that the two providers agree on a call |
| `AccountTransactions` | The builders: transactions, hashes, signatures, addresses |
| `Account` | State machine: tasks that send, the network, the node, its mempool and blocks |
| `Enumeration`, `EnumerationLemmas` | Finite sets in order and parts of sequences, without recursion, and facts about them |
| `SuperficialTreeLemmas` | Facts about the operators of `SuperficialTree` |
| `SuperficialTreeProofs`, `ProverServerProofs`, `SettlementProofs`, `BatchUpdateProofs`, `AlgorithmProofs`, `AccountProofs` | The theorems (section 6) |
| `MC*` | What TLC needs: small sets, messages, a hash |

`ProverServer` and `SuperficialTreeAPI` both EXTEND `SuperficialTree`, so that the
methods exist once and the server's actions contain them whole.

### SuperficialTree and SuperficialTreeAPI

A tree value is a record of the three fields the methods read. Slots count from
zero as in the code, so slot `i` is `leaf_nodes[i + 1]`. `update_leaf_node` follows
the branches of the method: hash zero pushes the slot; a write beyond `count`
pushes the skipped slots and sets `count` to the slot; a write at `count` counts
on; a write below removes the slot from the stack. `first_zero_idx` recurses in the
code. The model names where the recursion ends: the last stack position with an
empty slot, or with none, the first empty slot from `count`. `Ascending` (the order
in which `enumerate` meets the empty leaves) is given by rank and not by recursion,
so that a proof can use it.

The state machine has an action per public use: `Allocate` (the pair of calls a
handler makes under one lock), `Write` (any slot, any hash, zero included) and
`Refresh`. The initial trees are those the constructors build.

### ProverServer

| Model | Code |
|---|---|
| `inbox`, `Send`, `Deliver` | tiny_http's queue: a request is queued when its head arrives, the body may come later |
| `stage` | where the loop is: taking a request, inside `finalize_batch`'s write, sending |
| `ExecuteRequest` and its four instances | a `POST` arm with its handler: read, parse, hash, take a slot, insert in the three collections |
| `ParseFails`, `HashPanics` | `?` on the parse and `unwrap` in `hash_request`: the process ends |
| `FinalizeBegin`, `FinalizeEnd` | `update_zero_idxs` and the truncation by `fs::write`; the completed write |
| `TestPage`, `NotFoundPage`, `Unrouted` | the other arms; a request no arm takes is dropped and tiny_http answers 500 |
| `Respond` | `request.respond(response)?` |
| `Crash`, `Restart` | the end of the process at any point, and a new one with empty memory |

A handler is one step, because the loop is the only thread that takes the three
locks: nothing can run between its lock sections. A state root is represented by the leaves it
commits to, over `Capacity` leaves (`2^16` in the code); that the tree update
computes the root of those leaves is what `BatchUpdate` is about. The request hash
is a constant operator. `acked` and `published` are history variables: no guard
reads them.

### BatchUpdate

One step is one locked section of a task. For every entry: read the sibling and
old values (`ReadFirstLeft` ... `ReadNextRight`; `Skip` leaves a left child to its
updated sibling), replace the parent (`UpdateParent`), insert the two preimages
(`InsertPreimages`), and for a left leaf write it last (`WriteLeftLeaf`). A task
ends by merging its parents into `next_row` (`MergeFound`); when all tasks of a row
have ended, `NextRow` or `EndBatch` follows. `Orders` is every iteration order of
the hash map, so that every cut into chunks occurs. The zero hashes are a recursive
function over the same recurrence that holds for the table in `tree_utils.rs`.
Between batches the tree can be asked for the proof of any leaf (`get_proof`) and for
`verify_root`.

### Settlement

`Settlement` composes the server's abstract specification (`BatchLog`, which
`ProverServer` implements), the program as one step that reads the file and leaves an
output, and the contract. Server and program share the file; nothing else is shared, so
that all steps interleave freely: the program may read a batch older than the log, and
users may register at any time.

| Model | Code |
|---|---|
| `Register` | `registerRequest` up to the call of `transferFrom`; whole when the amount is zero, since the token is not called then |
| `calls` | the calls of `registerRequest` that wait for `transferFrom`: a stack, as a token may call the contract again |
| `PayRegistered` (`TransferReturns`) | the rest of the innermost such call: the payment is recorded, the result of `transferFrom` is not looked at |
| `SetToken` | `setUsdcAddress`, by anyone, with any address |
| `Settle` (`TransitionState`) | `transitionState`, by anyone, with any array of up to `MaxCalldata` requests, in any state of the contract |

`transitionState` is the loop it is in the code: step `k` finds the key of its id deleted
if the id came before (`KeyAt`). A call that reverts changes nothing, so each `require` is
a guard (`Accepted`), a revert inside `transferFrom` is a call that never was, and an
array whose length is no multiple of three is left out. `0` is an id, because the
mapping answers an id without a key by all zero, and so the array `[0, 0, 0]` is
accepted with nothing registered.

The token is external. USDC moves the amount or reverts, and calls nobody. About
another contract nothing is assumed: it may call any function before it returns
(`Callable`), move nothing and return false. A call to an address without code reverts
(`NoToken`). `received` (USDC moved), `unmoved` (what other contracts were asked to
move), `registered` and `settled` are history variables; the last two do not count the
all-zero key, which nobody registers.

The hash `poseidon_hash_many` is a parameter; TLC takes the tuple of what is hashed. The
program takes public key 0 for an entry without a key (`public_key`), and the Rust
handlers write none. Two arms of the program cannot run to their end, because their hints
name variables and entries that do not exist (`BrokenArms`).

### Algorithms

In `Algorithms` a behaviour is one of the storage, or stays at one input of a pure
function, so that what the function promises is an invariant. What the inputs are is
stated as an assumption (`InputsAssumption`); `MCAlgorithms` gives the small sets and
adds the functions about which nothing is proved for all inputs. Loops with a running
value are recursive functions on the number of rounds they have gone. In the storage, a
store has a cache that sled may or may not have flushed when the process stops, and the
two inserts are two steps. The
repository never writes the first count of a problem, without which `store_verification`
panics; in the model the count is there initially or it is not.

`Ranking` is about the Cairo functions alone, over a memory that holds a problem as their
types say. The hints that would fill memory (`error_rate.cairo`, lines 189 to 227) use
names that are declared nowhere and variables that are assigned nowhere, so that no run
of the program comes to the functions (`BrokenArms`); the hints are not modelled, and
`RanksModels` says nothing of a run of the program. It says for which problems the
functions read only what the problem holds (`ReadsWithin`), and what they rank then.
Division in a field makes `num / 2` an index outside the array when `num` is odd; `half`
says so. In the Poseidon code, the comment
above `mix` gives 2 for an entry of the matrix where the code uses -2; the model
follows the code.

### Providers and accounts

A provider method is a value: ask the node (a request, and how its response is read)
or answer without asking. `Gateway` and `JsonRpcProvider` translate every method,
`AnyProvider` dispatches. Felts, blocks and classes are opaque.

`Account` gives each task the three places where a send awaits: nonce, fee, answer to
the submission. A task in between is at rest while the node and the other task run.
The four builders (`execution`, `declaration`, `legacy declaration`, `deployment`) have
the same control in four copies in the code; the model has the control once, with the
builder as a parameter, and an action per copy. Requests and answers can be lost,
refused for their rate, or arrive as text that does not parse. The node keeps nonces
of the latest and the pending block, a mempool and what it included, and its price
rises. `f64` multiplication of a fee is integer multiplication by tenths, cut as the
conversion cuts it. Hashes are injective terms; the reduction of a contract address
to its bound is left out there (`CairoStrings` has it). A builder of a job is as the types
of the code have it, and its account is the caller's own: its key is the one that the
contract at that address checks (`JobsAssumption`). An account that is set to a block of
the past is left out. An account that is used through a reference, `Box` or `Arc`
reads its nonce from the latest block, whatever it was set to: those implementations
of `ConnectedAccount` do not pass `block_id` on.

## 3. Runs

| Run | What it asks and shows | Bounds |
|---|---|---|
| `leaf_table` | Every sequence of public calls: no empty slot is lost (`NoSlotLost`), an allocation takes an empty slot and touches no other leaf (`AllocateTakesFreeSlot`), the table grows only when full (`GrowsOnlyWhenFull`), a refresh keeps what is reachable (`RefreshKeepsSlots`) | slots 0..3, two hashes and zero, restored trees of up to 2 leaves, stack of up to 3 before a push |
| `server` | Four handlers and finalize, two clients, crashes: `SlotsAgree`, `BatchReplays`, `FinalizedCoversAcked`, `BatchesAccumulate`, refinement of `BatchLog` | 3 recorded requests per process, tree of 2 leaves |
| `server_answers` | Every arm, malformed bodies included, under fairness: `ClientAnswered` | 2 clients, 2 recorded requests |
| `server_capacity` | expected violation: a slot past the tree | 9 requests |
| `server_batch_chain` | expected violation: the second batch does not start from the first one's root | 3 requests |
| `batch_update` | Every interleaving and order: `RowsAgree`, `PreimageSound`, `PreimageOpens`, `ProofsOpen`, `RootVerifies`, refinement of `MerkleCommitment` | depth 3, one entry per task, up to 4 tasks per row, 2 batches out of 3 |
| `batch_update_ends` | `BatchEnds` under fairness | depth 3, chunks of 2, 3 batches |
| `batch_update_shift` | expected violation: a tree with a shifted depth pads with the wrong value | depth 2, one batch |
| `settlement` | Server, program, contract, users, tokens and any array passed by anyone: `SettledOncePerRegistration`, `NoOutputSettles`, `PaymentsCovered`, `DatasetLeavesAgree` | logs of 2 requests out of 2, 2 registrations out of 5, arrays of up to 2 requests, two tokens and an address without code |
| `settlement_tree` | expected violation: the program's dictionary is not the update of the tree | the same, with submissions and verifications |
| `algorithms` | Each pure function against its definition, for every input: `BuildsTree`, `RanksModels`, `NumbersReadBack`, `ScalarsMultiply`, `SignaturesVerify`, `PedersenDefined`, `PermutationAgrees`, `HashersAgree`, `NamesAndClassesTold`, `ProvidersAgree`; and the storage with stops (`ReadsWhatWasStored`) | trees of depth 4 with up to 16 leaves, 3 models, a curve of 19 points over 23 elements; strings of 2 characters in elements of 3 bytes; classes that differ in one field each |
| `account` | `SentAsPrepared`, `FixedNonceOnce`, `OwnNonceSeen`, `SendReturns` | two tasks, two calls each, two prices |

Why the bounds are enough:

- *Leaf table.* A stale stack entry needs two gap writes and an allocation; losing
  a slot needs a gap, an erasure and a rewrite. Four slots hold two gaps, and
  erasing and rewriting revisits them without limit: the number of calls is not
  bounded, only the slots and the stack.
- *Server.* Three requests against a tree of two leaves reach the state where a slot
  is outside the root. Two clients are enough for one to be served while another
  waits or retries. The bound on requests is in the clients' guard and never blocks
  the server, so crashes and finalizations are not limited.
- *Tree update.* The batches hold a pair in one chunk and in two, lone left and
  right children, siblings with old values, an erased leaf, a rewritten leaf, and
  leaves that share a grandparent only; with one entry per task every pair of
  entries can run in parallel. The hash is the free one (a pair of terms), so values
  are equal only when the definition makes them equal.
- *Settlement.* Two registrations cover a settlement, an overwritten key, a registration
  after it, and a registration that a token makes inside another one. Arrays of two
  requests hold one id twice, an id of the program's output beside another, and the
  all-zero triple; every array over the ids, keys and commitments is tried, and longer
  ones repeat an id since there are two. A dataset and a submission share an id and so
  overwrite each other, and a problem has id 0, which is where the all-zero key is found.
- *Algorithms.* The curve has a prime order below the field, as the real one, and the
  bound on scalars is below both; each special case of the point addition is hit by
  some pair. Trees have up to 16 leaves in chunks of four: rows end inside a
  chunk, at its end and just after it. Ranking has equal error rates and odd numbers of
  verifications.
- *Accounts.* Every kind of builder runs alone over both providers, so that each of its
  requests meets each fault; pairs of tasks share an account through the gateway and
  through JSON-RPC, and one task calls from the account that the other deploys. The fees
  10 and 20 with a given fee of 15 make a transaction payable and later not.

In every run a property can fail: for each one `PROJECT.json` names a plausible
wrong version of a definition under which TLC finds it violated.

`CHECK_DEADLOCK FALSE` is set where the system may stop: in the leaf table, the tree
update and `settlement` the bounds stop the last caller, in `algorithms` an input has no
step, and in `account` a task that has returned does nothing more. The server's runs
check deadlock.

## 4. Fairness

- `ProverServer`: weak fairness of `ServerStep`, because the loop runs as long as
  the process does and no handler blocks; weak fairness of `Deliver`, which is an
  assumption on clients: the loop reads bodies itself and has no timeout, so one
  client that never completes its body holds up all others. Nothing says that
  clients send, that the process stops, or that somebody restarts it.
- `BatchUpdate`: weak fairness of each task's steps and of the two joins, because
  rayon runs both sides of a `join` to their end before it returns. `BeginBatch`
  is not fair.
- `Account`: weak fairness of `Receive`, because the executor runs a task that was
  woken, and of `NodeAnswers \/ NetworkFails`: a request is answered or its connection
  fails. The HTTP clients set no timeout, so that this is an assumption on the network;
  a connection that stays open without an answer would hold up the task for ever.
  Nothing says that the node includes transactions or seals blocks.

## 5. Findings

- `server_capacity`: `first_zero_idx` hands out `count` without a limit while the
  state tree is created with depth 3; the assertion that would have refused the
  ninth request is commented out in `update_leaf_node`.
- `server_batch_chain`: every batch is applied to a new empty tree, because the
  store after a batch is commented out; `prev_state_root` never is the root of the
  batch before.
- `batch_update_shift`: `update_leaf_node` pads with zero, `nth_leaf_node` reads an
  absent leaf as the zero hash of the shift. With a shift above zero the rows do not
  agree with the leaves. The server itself uses shift zero.
- `settlement_tree`: the call that would verify the update of the tree is a comment in
  `main.cairo`, and could not succeed: problems and submissions are hashed in another
  order than by the Rust handlers, and the entries of verifications have a type that
  no arm of the program has. Datasets do agree (`DatasetLeavesAgree`).

What the models show beside the findings:

- No output of the program for a batch of the server settles, unless it is empty: the
  handlers write no public key, the program then puts out key 0, and the contract
  registers no key 0 (`NoOutputSettles`). What settles is what callers put together
  themselves, at most once per registration (`SettledOncePerRegistration`), and the
  all-zero triple, which settles with nothing registered as long as id 0 is free.
- `registerRequest` replaces a payment, while the contract keeps both transfers: what it
  remembers is covered (`PaymentsCovered`), but not equal. With a token other than USDC
  it is covered only by what that contract was asked to move, since neither the address
  nor the result of `transferFrom` is checked.
- A signature whose inverse of `s` is beyond the bound is made by `sign` and refused by
  `verify`; the message zero does not verify (`SignaturesVerify`).
- The hints of `rank_models` fail for every input. The functions behind them read beyond
  the problem for an odd number of verifications of a model, and of two models with the
  same error rate leave one out (`RanksModels`).
- A send that is repeated without a fixed nonce after a lost answer may execute twice;
  with a fixed nonce it does not (`FixedNonceOnce`).
- The providers agree on what is asked and on absent contracts, blocks and classes
  (`ProvidersAgree`). They do not on other errors: a wrong nonce or a failed transaction
  is a `StarknetError` of one and `Other` of the other, and only the gateway
  reports `RateLimited`. The gateway maps "transaction not found" to
  `ContractNotFound`.

## 6. Proofs

TLAPS checks the following for every value of the constants.

| Theorem | Statement |
|---|---|
| `SuperficialTreeProofs!TypeCorrect` | `Spec => []TypeOK` |
| `SuperficialTreeProofs!NoSlotEverLost` | `Spec => []NoSlotLost` |
| `SuperficialTreeProofs!AllocationTakesFreeSlot` | `Spec => AllocateTakesFreeSlot` |
| `SuperficialTreeProofs!TableGrowsOnlyWhenFull` | `Spec => GrowsOnlyWhenFull` |
| `SuperficialTreeProofs!RefreshKeepsReachable` | `Spec => RefreshKeepsSlots` |
| `ProverServerProofs!TypeCorrect` | `Spec => []TypeOK` |
| `ProverServerProofs!SlotsAlwaysAgree` | `Spec => []SlotsAgree` |
| `ProverServerProofs!BatchesAlwaysReplay` | `Spec => []BatchReplays` |
| `ProverServerProofs!FinalizedAlwaysCovers` | `Spec => FinalizedCoversAcked` |
| `ProverServerProofs!BatchesAlwaysAccumulate` | `Spec => BatchesAccumulate` |
| `ProverServerProofs!ServerImplementsLog` | `Spec => ImplementsLog` |
| `SettlementProofs!TypeCorrect` | `Spec => []TypeOK` |
| `SettlementProofs!NeverSettledTwice` | `Spec => []SettledOncePerRegistration` |
| `SettlementProofs!DatasetLeavesAlwaysAgree` | `Spec => []DatasetLeavesAgree` |
| `SettlementProofs!NoOutputEverSettles` | `Spec => []NoOutputSettles` |
| `SettlementProofs!PaymentsAlwaysCovered` | `Spec => []PaymentsCovered` |
| `BatchUpdateProofs!TypeCorrect` | `Spec => []TypeOK` |
| `BatchUpdateProofs!RowsAlwaysAgree` | `Shift = 0`: `Spec => []RowsAgree` |
| `BatchUpdateProofs!PreimagesSound` | `Shift = 0`: `Spec => []PreimageSound` |
| `BatchUpdateProofs!BatchesAreAtomic` | `Shift = 0`: `Spec => ImplementsCommitment` |
| `BatchUpdateProofs!RootAlwaysVerifies` | `Shift = 0`: `Spec => []RootVerifies` |
| `BatchUpdateProofs!ProofsAlwaysOpen` | `Shift = 0`: `Spec => []ProofsOpen` |
| `BatchUpdateProofs!PreimagesOpenRoots` | `Shift = 0`: `Spec => [](NoCollision => PreimageOpens)` |
| `AlgorithmProofs!AlwaysReadsWhatWasStored` | `Spec => []ReadsWhatWasStored` |
| `AlgorithmProofs!AlwaysBuildsTree` | `AlgorithmsSpec => []BuildsTree` |
| `AlgorithmProofs!AlwaysRanksModels` | `AlgorithmsSpec => []RanksModels` |
| `AlgorithmProofs!AlwaysPermutationAgrees` | `AlgorithmsSpec => []PermutationAgrees` |
| `AlgorithmProofs!AlwaysHashersAgree` | `AlgorithmsSpec => []HashersAgree` |
| `AlgorithmProofs!AlwaysNumbersReadBack` | `AlgorithmsSpec => []NumbersReadBack` |
| `AlgorithmProofs!NamesReadBack` | `StringReadBack`, `FeltReadBack` and `DerivedInRange` for all strings and elements |
| `AlgorithmProofs!ClassesToldApart` | without collisions: `SierraTold`, `CompiledTold` and `LegacyTold` for all sets of classes |
| `AccountProofs!AccountInvariant` | `Spec => []AccountInv` |
| `AccountProofs!AlwaysSentAsPrepared` | `Spec => []SentAsPrepared` |
| `AccountProofs!FixedNonceUsedOnce` | `Spec => []FixedNonceOnce` |
| `AccountProofs!OwnNoncesSeen` | `Spec => []OwnNonceSeen` |

All safety invariants and action properties of the state machines that a passing run
checks are in this table, and both refinements.

Assumptions on the constants:

- `ZeroAssumption` (zero is a field element), `BoundsAssumption` (the bounds are
  naturals), `TreeAssumption` (depth and chunk length are positive),
  `BatchUpdateAssumption` (the updates of a batch are within the tree).
- `ServerAssumption`: which messages exist; `NoBatch` and `Torn` differ from each other
  and from every complete file.
- `HashAssumption` and its like in `SettlementAssumption`: the hash of a request is a
  field element and not zero. It stands for Poseidon never giving zero. With a zero hash
  the leaf would count as empty and be handed out again.
- `ContractAssumption` and the rest of `SettlementAssumption` type what users and
  requests bring. Ids and users are finite sets, as numbers of 256 and 160 bits are, 0 is
  an id, USDC is a contract, and `NoToken` is none. Nothing is assumed about other tokens,
  about callers, or about what is passed to `transitionState` but its length.
- `StorageAssumption`: an absent value is neither a verification nor a number.
- `InputsAssumption`: a tree gets between one leaf and as many as it has places; a problem
  to rank has the fields that the Cairo types say; states and messages are field
  elements. `BuildTreeAssumption`: no shift, and chunks of an even length (`STRIDE` is
  250), since a chunk of odd length would share a pair with the next.
  `RankingAssumption`: the field of the program has an odd prime. `RoundKeysAssumption`:
  three keys a round, any that are field elements.
- `FieldAssumption`: the prime is below the width of the integers it is kept in, which have
  an even number of hexadecimal digits, and all bytes but the first and two bits of that one
  hold no number beyond it. `2^251 + 17 * 2^192 + 1` in 256 bits is so, and
  the proofs use nothing else of the prime, not even that it is one.
- Of `NamesReadBack`: Keccak gives as many bytes as an element has, Pedersen hashes and the
  prefix of contract addresses are naturals, and the bound on addresses is positive.
- `OwnerAssumption`, `PricesAssumption`, `JobsAssumption`: nonces and prices are
  naturals, builders are as their types say, and their accounts belong to the caller. The
  contracts of `SentAsPrepared` accept a transaction only when this is so.
- `Shift = 0` is a hypothesis of six theorems: `update_leaf_node` pads with
  zero, so that in a tree with a shift the rows do not agree with the leaves. The run
  `batch_update_shift` shows it. Every tree of the repository has shift zero.

Hashes are any operators. Nothing is assumed about collisions, but in
`PreimagesOpenRoots`, where `NoCollision` says that no two different pairs of nodes of
the two trees at hand have the same hash: the preimage map holds one pair per hash, and
two pairs with one hash would leave only the last; and in `ClassesToldApart`, which is about
what the class hashes feed to the hash functions (`NoCollisions`).

*Leaf table.* The inductive invariant adds two facts to the type and `NoSlotLost`:
counting never passes the end of the table (`CountWithinTable`), since otherwise a
refresh, which looks at the table only, would forget a slot that counting has
passed; and the stack names slots of the table only (`StackWithinTable`), which
`GrowsOnlyWhenFull` needs. The work is in two lemmas about tree values.
`FirstZeroIdxSound`: the slot returned is empty and no *other* empty slot is
forgotten; for the moment between the two calls of a handler the returned slot may
lie past the table. `UpdateLeafNodeSound`: from such a state, every branch of the
write restores the invariant. They rest on the lemmas that make the CHOOSEs
meaningful (least and greatest elements) and on `AscendingElements`: enumeration by
rank lists a finite set exactly, because ranks are an injection of the set into
`1..n` and therefore onto it.

*Server.* `SlotsAgree` says that the table is dense, so a lemma about dense tables
(`DenseAppend`, `DenseRefresh`) replaces the general analysis. The invariant
further says what a complete file holds (`BatchFromTheStart`), that the last batch
of this run is a prefix of what is recorded (`PublishedBefore`), that the file is
cut short while it is written (`TornWhileWriting`), that acknowledged requests are
recorded (`AckedRecorded`), and that the response between handler and client is true
(`ReplyTrue`). The last one links the step that did the work to the later step in
which the client learns of it. Each conjunct has its own lemma, one case per
action. The refinement needs `TornWhileWriting` for the `Publish` step and the
lemma that the leaves of the map are the leaves of the log.

*Settlement.* That nothing settles more often than it was registered is not inductive: a
key that is open can settle once more. `Accounted` therefore counts an open key beside
the settlements: both together never exceed the registrations. A registration raises the
right side, even when it overwrites a key; a settlement moves one from open to settled
(`SettlesOpenKeys`), whatever array was passed: the contract holds each key under its own
id, which is part of `TypeOK`, and a loop that meets an id again finds the all-zero key
there, so that a real key is in an accepted array once. `NoOutputSettles` follows from what
an output is: each of its values belongs to a request of the batch that has an arm
(`ProgramOutputSound`, by a lemma about subsequences that the leaf table uses too), under key
0 and with a hash for its commitment, and by `TypeOK` no key of the contract is like that.
`DatasetLeavesAgree` holds for every hash function: the two sides hash the same sequence.
For the payments, `SumTable` gives the recursion that a fold over a finite set obeys, and
`SumUpdate` that a change of one term changes the sum by the difference. By `TypeOK` every
waiting call was made to a token, so that its return, which replaces one payment by its
amount, adds that amount to one of the two histories (`PayInv`).

*Tree update.* `ShapeInv` has the control: every task is within its chunk, chunks cover
the order and do not meet, no row outgrows its level. While a batch runs, `BatchInv` says of
every place of every row whether it holds the node of the tree before the batch or of
the tree after it (`RowInv`, `LeavesInv`, `NodesInv`), that the parents in the tasks' lists
and in `next_row` carry the values they replaced (`FoundInv`), and that a task between two
locks holds both children of its parent, old and new (`EntryInv`). No step of another task
can spoil what a task holds, because no two positions of a row have the same parent to
replace (`HandlersApart`): of two siblings that are both updated, one is skipped. The lone
left leaf is the subtle case: it is written last, after its parent, so that until then the
leaf row lags behind (`Written`). Between batches `RestInv` says that the rows are the
tree of the leaves. `TreeInv`, which is all this with `PreimageSound`, gives `RowsAgree`; the
refinement follows since only `EndBatch` moves what the mapping shows. `RootVerifies` and
`ProofsOpen` compare recursive functions with that tree, level by level. `OpeningInv` adds
for `PreimageOpens` that every ancestor of an updated leaf, old and new, has its two
children in the map as soon as its row is done (`PathsKept`), and `Opens` that a walk from a
root finds nothing else.

*Recursive functions.* The zero hashes, the rows of a tree, the climb of a proof and
`FlattenSeq` are recursive functions on numbers. That such a function exists, and what it
is at every argument, is induction over data, for which the library's theorems cannot be
used. These proofs go by a least counterexample instead: were the statement false for
some number, it would be false for a least one, and the step leads below it (`NodeTables`,
`HashTables`, `ClimbTables`, `FlattenTables`). The least element of a set of naturals is a
lemma of `EnumerationLemmas`.

*Storage.* `Holds` relates the entries below the count to the history, for the memory and
for what is on disk alike, and says nothing of the entry at the count: a call that was cut
short between its inserts has left one there, and the next call overwrites it. `CallSound`
says that the call in progress has read the count that is still there and, when it is about
to raise it, has written the entry.

*Algorithms.* What the recursions of the algorithms compute is again proved by least
counterexamples. That the recursive function exists is one lemma for all of them
(`Recursion`), about a step that is told which algorithm it belongs to.

`AlwaysBuildsTree` extends each row to the width of its level by the zero hash of
its height: the hash of a row extended by zero hashes is the extended hash of the row, so
that the short rows that `build_tree` keeps have the root of the full tree. A chunk of even
length, at the place where the chunks before it end, computes the parents of its own nodes
and no other's; only the last chunk pads, and only when its length is odd.

`AlwaysRanksModels` first finds that half of an odd number, in a field of odd prime,
lies beyond every array, so that `median_source` reads beyond the verifications of a model
with an odd number of them, and of one without any. Otherwise every rate is the quotient of two
sums; the loop keeps of the models with one rate the first, and the order of rates is
that of their ranks.

`AlwaysPermutationAgrees` compares two runs of the rounds that differ by the keys that
`compress_roundkeys_partial` has moved: after every round, the states differ by a
vector, and the linear layer takes that vector of one round to that of the next. It needs that
the layer is linear modulo the prime, and that a partial round touches the third
element only. `AlwaysHashersAgree` relates the state of a half-filled hasher to the
state after the whole pairs of messages, and one message more.

`AlwaysNumbersReadBack` rests on digits: what is left of a number after `k` divisions is the
number that its first digits denote, and a number has no other digits than these in
any base. The number of digits is compared between bases: powers of 16 with those of 10, 2
and 256, so that every loop ends within its buffer. Reading in decimal keeps the
number itself as long as it is below the width, and refuses it once it is not,
so it never wraps. `NamesReadBack` uses the same digits to base 256: a short string is
the digits of its element, the null bytes before it are the leading zeros that `to_bytes_be`
adds again.

`ClassesToldApart` goes through the lists that are hashed: rows of one width are told by what
they are flattened to (`FlattenTells`), a chain of Pedersen hashes with the length at its end
tells its elements (`ChainTells`), and so do the three kinds of entry points. A class is told by
its entry points, its data and the text that is hashed of it.

*Accounts.* `AccountInv` is about the three places where a task awaits. `TaskSound` says
which question a waiting task asks: that of its own builder, for a nonce at
the account's block, for the fee of a transaction with that nonce, or for a submission
whose nonce is given or was looked up and whose fee is given or was quoted to it for that
nonce. What a task sends has left the provider in the form of the gateway or of
JSON-RPC, so the lemmas `NonceReaches`, `EstimateReaches`, `SimulationReaches` and
`SubmissionReaches` say that the node reads back the question that was asked, through either
provider, and `NonceReceived` and `FeeReceived` that the caller reads back the answer.
`NoncesInv` says that nonces in the pending block are not below those in the latest one, and
`IncludedInv` that the transactions in blocks of one account have ascending nonces, all
below the account's next one. From these, `OwnNonceSeen` is monotonicity of nonces across the
awaits, and `FixedNonceOnce` follows since two transactions of one builder with a nonce
would have equal nonces. `SentAsPrepared` also needs that the account's contract accepts
the signature (`TransactionAccepted`: the hash that is signed is the hash that the node
computes of the transaction it received) and that the calldata decodes to the calls
(`CallsDecoded`), where the offsets of `encode_calls` are lengths of prefixes of one flat list
(`PrefixGrows`, `FlattenPieces`).

Only model-checked:

- Liveness: `ClientAnswered`, `BatchEnds`, `SendReturns`. Fairness and `ENABLED` are out of
  the prover's reach.
- `ScalarsMultiply`, `SignaturesVerify` and `PedersenDefined`: they hold by the group law of
  the curve and by Fermat's theorem, neither of which can be had here without proving
  the associativity of point addition for an arbitrary curve first.
- `NamesAndClassesTold` as a property of the run, where the strings and the classes are
  sets of their own; what it says is proved for all of them by `NamesReadBack` and
  `ClassesToldApart`.
- `ProvidersAgree`, which compares the providers on every method and on the errors of one
  node; the part of it that the accounts use is proved in the lemmas named above.

## 7. Plan

Done: everything in section 2. What could follow:

1. `ProvidersAgree` for the methods that accounts do not use, by cases over the calls in the
   manner of `NonceReaches`.
2. The group law of the curve, for a field of any prime above three, and from it `ScalarsMultiply`.
3. Progress of a batch as a proved measure: every step of a task lowers the number of
   entries and sections that are left, which is the part of `BatchEnds` without fairness.

## 8. Not modelled, and why

- Checks the code does not make: signatures in requests, the proof behind an output.
- JSON and hex formatting of requests and answers: they carry no decision. Reading and
  writing of field elements is modelled, since the conversion is what is at stake there.
- The mutexes of the server: one thread takes them, and no handler takes one twice, so the
  models have no locks and say nothing about them.
- The hints of the ranking, which fail for every input.
- Real sizes of the field and the curve: the algorithms are checked on a small curve, the
  constants of the real one are data. The HMAC that draws `k` is any draw.
- `sled`, tiny_http, reqwest, USDC, the node and Cairo's library functions are external
  and modelled from their use.
- The generated JSON-RPC models, the core types and the macros: data layout. The failure
  to decompress a class cannot happen for a class the library itself compressed.
- The Avail and deployment scripts: sequential calls of remote services.
