------------------------------ MODULE ProverServer ------------------------------
(***************************************************************************)
(* The request server: src/main.rs, src/requests/*.rs and                  *)
(* src/settlment/finalize_batch.rs.                                        *)
(*                                                                         *)
(* tiny_http queues the requests that arrive; one loop serves them in      *)
(* order.  A request handler takes a slot of the leaf table, writes the    *)
(* request's hash there, records it in updated_state_hashes and appends    *)
(* the request to swap_output_json.  /finalize turns the two collections   *)
(* into the file prover/batch_input.json that the Cairo program reads.     *)
(* All state but that file is lost when the process stops, and it stops on *)
(* any error: `?' leaves main, a failed unwrap panics.                     *)
(*                                                                         *)
(* A state root is represented by the leaves it commits to; that the tree  *)
(* update computes such a root is the subject of BatchUpdate.              *)
(***************************************************************************)
EXTENDS SuperficialTree

CONSTANTS
  Client,
  Body,               \* request bodies that parse and hold field elements
  NotJson,            \* a body serde_json rejects
  NotFelt,            \* a body with a string that hash_request cannot read
  Message,            \* the messages clients send
  hash_request(_, _), \* the hash of a request of a type with a body
  Capacity,           \* leaves of the batch tree: Tree::new(16, 0) has 2^16
  MaxRequests,        \* bound: requests accepted by one run of the server
  NoBatch, Torn       \* prover/batch_input.json absent, or cut short

Waiting    == [status |-> 0,   text |-> "waiting",    commitment |-> Zero]
NoReply    == [status |-> 0,   text |-> "none",       commitment |-> Zero]
Closed     == [status |-> 0,   text |-> "closed",     commitment |-> Zero]
Greetings  == [status |-> 200, text |-> "greetings",  commitment |-> Zero]
Finalized  == [status |-> 200, text |-> "finalized",  commitment |-> Zero]
NotFound   == [status |-> 404, text |-> "not found",  commitment |-> Zero]
Dropped    == [status |-> 500, text |-> "",           commitment |-> Zero]
Commitment(h) == [status |-> 200, text |-> "commitment", commitment |-> h]

\* let state_tree_ = SuperficialTree::new(3)
StateTreeDepth == 3

\* The urls of the four request handlers and the request_type each writes.
TypeOf == [problem |-> "problem",          dataset |-> "dataset",
           models  |-> "model_submission", results |-> "model_verification"]

RequestType == {TypeOf[u] : u \in DOMAIN TypeOf}

Request == [request_type : RequestType, request : Body]

HashOf(r) == hash_request(r.request_type, r.request)

\* An element of swap_output_json, and the file finalize_batch writes.
Entry == [request_type : RequestType, request : Body, state_index : Nat]

Root == [0..(Capacity - 1) -> Hash]

Batch == [prev_state_root : Root, new_state_root : Root, swap_output_json : Seq(Entry)]

ASSUME ServerAssumption ==
  /\ Message \subseteq [method : {"GET", "POST", "OPTIONS"},
                        url    : DOMAIN TypeOf \union {"finalize", "test", "other"},
                        body   : Body \union {NotJson, NotFelt}]
  /\ NotJson \notin Body /\ NotFelt \notin Body /\ NotJson # NotFelt
  /\ Capacity \in Nat /\ MaxRequests \in Nat
  /\ Torn # NoBatch /\ Torn \notin Batch /\ NoBatch \notin Batch

\* hash_many of a request is a field element and is not zero.
ASSUME HashAssumption ==
  \A t \in RequestType, b \in Body : hash_request(t, b) \in Hash \ {Zero}

VARIABLES
  running,               \* whether the process is up
  inbox,                 \* requests queued by tiny_http; the head is being served
  stage,                 \* where the loop is: "accept", "write" or "respond"
  reply,                 \* the response about to be sent
  response,              \* what each client last got
  state_tree,            \* Arc<Mutex<SuperficialTree>>
  updated_state_hashes,  \* Arc<Mutex<HashMap<u64, BigUint>>>
  swap_output_json,      \* Arc<Mutex<Vec<Map>>>
  batch_input,           \* the file prover/batch_input.json
  acked,                 \* history: requests acknowledged by this run of the server
  published              \* history: the batch this run of the server last completed

memory == <<state_tree, updated_state_hashes, swap_output_json>>
vars == <<running, inbox, stage, reply, response, memory, batch_input, acked, published>>

RequestOf(e) == [request_type |-> e.request_type, request |-> e.request]

\* The root covers the updated leaves only.
RootOf_updated_only(f) == f

\* The leaves under the root of a depth-16 tree updated with the map f.
RootOf(f) == [i \in 0..(Capacity - 1) |-> IF i \in DOMAIN f THEN f[i] ELSE Zero]

EmptyMap == [i \in {} |-> Zero]

Insert(f, k, v) == [i \in DOMAIN f \union {k} |-> IF i = k THEN v ELSE f[i]]

Init ==
  /\ running = TRUE
  /\ inbox = <<>>
  /\ stage = "accept"
  /\ reply = NoReply
  /\ response = [c \in Client |-> NoReply]
  /\ state_tree = new
  /\ updated_state_hashes = EmptyMap
  /\ swap_output_json = <<>>
  /\ batch_input = NoBatch
  /\ acked = {}
  /\ published = NoBatch

-----------------------------------------------------------------------------
(***************************************************************************)
(* Clients, one outstanding request each.  tiny_http queues a request when *)
(* its head has arrived; a large body may still be on its way.  The bound  *)
(* is on requests to be recorded only, and never blocks the server.        *)
(***************************************************************************)
Send(c, m, arrived) ==
  /\ running
  /\ response[c] # Waiting
  /\ m.url \in DOMAIN TypeOf =>
       Len(swap_output_json) + Len(inbox) < MaxRequests
  /\ inbox' = Append(inbox, [client |-> c, message |-> m, arrived |-> arrived])
  /\ response' = [response EXCEPT ![c] = Waiting]
  /\ UNCHANGED <<running, stage, reply, memory, batch_input, acked, published>>

\* The rest of a body arrives.
Deliver ==
  /\ \E k \in DOMAIN inbox :
       /\ ~inbox[k].arrived
       /\ inbox' = [inbox EXCEPT ![k].arrived = TRUE]
  /\ UNCHANGED <<running, stage, reply, response, memory, batch_input, acked, published>>

(***************************************************************************)
(* The end of the process: memory is gone, tiny_http closes every          *)
(* connection, the file stays as it is.                                    *)
(***************************************************************************)
Exit ==
  /\ running' = FALSE
  /\ inbox' = <<>>
  /\ stage' = "accept"
  /\ reply' = NoReply
  /\ response' = [c \in Client |-> IF response[c] = Waiting THEN Closed ELSE response[c]]
  /\ state_tree' = new
  /\ updated_state_hashes' = EmptyMap
  /\ swap_output_json' = <<>>
  /\ acked' = {}
  /\ published' = NoBatch
  /\ UNCHANGED batch_input

\* A kill, a failed write of the batch file (unwrap) or a failed respond (`?').
Crash == running /\ Exit

Restart ==
  /\ ~running
  /\ running' = TRUE
  /\ UNCHANGED <<inbox, stage, reply, response, memory, batch_input, acked, published>>

-----------------------------------------------------------------------------
(***************************************************************************)
(* The server loop.                                                        *)
(***************************************************************************)
Serving(method, url) ==
  /\ running
  /\ stage = "accept"
  /\ inbox # <<>>
  /\ Head(inbox).message.method = method
  /\ Head(inbox).message.url = url

\* The loop reads the body itself, and waits for it with every other client.
Reading(url) == Serving("POST", url) /\ Head(inbox).arrived

\* Hand a response to the part of the loop that sends it.
Answer(r) ==
  /\ stage' = "respond"
  /\ reply' = r

(***************************************************************************)
(* The four request handlers differ in the hash and the request_type.      *)
(* first_zero_idx and update_leaf_node run under one lock of state_tree.   *)
(***************************************************************************)
\* A hash that was recorded before is taken for a retry and not recorded again.
RecordRequest_or_insert(h, e) ==
  /\ state_tree' = update_leaf_node(first_zero_idx(state_tree).tree, h, e.state_index)
  /\ updated_state_hashes' =
       IF \E i \in DOMAIN updated_state_hashes : updated_state_hashes[i] = h
       THEN updated_state_hashes ELSE Insert(updated_state_hashes, e.state_index, h)
  /\ swap_output_json' = Append(swap_output_json, e)

\* The entry carries a one-based slot.
RecordRequest_one_based(h, e) ==
  /\ state_tree' = update_leaf_node(first_zero_idx(state_tree).tree, h, e.state_index)
  /\ updated_state_hashes' = Insert(updated_state_hashes, e.state_index, h)
  /\ swap_output_json' = Append(swap_output_json, [e EXCEPT !.state_index = @ + 1])

RecordRequest(h, e) ==
  /\ state_tree' = update_leaf_node(first_zero_idx(state_tree).tree, h, e.state_index)
  /\ updated_state_hashes' = Insert(updated_state_hashes, e.state_index, h)
  /\ swap_output_json' = Append(swap_output_json, e)

ExecuteRequest(url) ==
  LET b == Head(inbox).message.body
      h == hash_request(TypeOf[url], b)
      e == [request_type |-> TypeOf[url], request |-> b,
            state_index  |-> first_zero_idx(state_tree).idx]
  IN  /\ Reading(url)
      /\ b \in Body
      /\ RecordRequest(h, e)
      /\ Answer(Commitment(h))
      /\ UNCHANGED <<running, inbox, response, batch_input, acked, published>>

ExecuteProblemRequest      == ExecuteRequest("problem")
ExecuteDataRequest         == ExecuteRequest("dataset")
ExecuteSubmissionRequest   == ExecuteRequest("models")
ExecuteVerificationRequest == ExecuteRequest("results")

\* A body that does not parse leaves main through `?'.
ParseFails ==
  /\ \E url \in DOMAIN TypeOf : Reading(url)
  /\ Head(inbox).message.body = NotJson
  /\ Exit

\* hash_request unwraps the parse of every string as a number.
HashPanics ==
  /\ \E url \in DOMAIN TypeOf : Reading(url)
  /\ Head(inbox).message.body = NotFelt
  /\ Exit

(***************************************************************************)
(* finalize_batch.  The zero slots are refreshed, and the file is opened   *)
(* and truncated before the new contents are written to it.                *)
(***************************************************************************)
FinalizeBegin ==
  /\ Serving("POST", "finalize")
  /\ state_tree' = update_zero_idxs(state_tree)
  /\ batch_input' = Torn
  /\ stage' = "write"
  /\ UNCHANGED <<running, inbox, reply, response, updated_state_hashes,
                 swap_output_json, acked, published>>

\* The file is never completed when there is nothing to commit to.
FinalizeEnd_nonempty ==
  /\ stage = "write"
  /\ updated_state_hashes # EmptyMap
  /\ batch_input' = [prev_state_root  |-> RootOf(EmptyMap),
                     new_state_root   |-> RootOf(updated_state_hashes),
                     swap_output_json |-> swap_output_json]
  /\ published' = batch_input'
  /\ Answer(Finalized)
  /\ UNCHANGED <<running, inbox, response, memory, acked>>

\* Both roots are taken after the update.
FinalizeEnd_roots_after ==
  /\ stage = "write"
  /\ batch_input' = [prev_state_root  |-> RootOf(updated_state_hashes),
                     new_state_root   |-> RootOf(updated_state_hashes),
                     swap_output_json |-> swap_output_json]
  /\ published' = batch_input'
  /\ Answer(Finalized)
  /\ UNCHANGED <<running, inbox, response, memory, acked>>

\* The request list is cleared, but not the hashes that belong to it.
FinalizeEnd_clears_json ==
  /\ stage = "write"
  /\ batch_input' = [prev_state_root  |-> RootOf(EmptyMap),
                     new_state_root   |-> RootOf(updated_state_hashes),
                     swap_output_json |-> swap_output_json]
  /\ published' = batch_input'
  /\ Answer(Finalized)
  /\ swap_output_json' = <<>>
  /\ UNCHANGED <<running, inbox, response, state_tree, updated_state_hashes, acked>>

\* Reporting success before the file is complete.
FinalizeEnd_early_reply ==
  /\ stage = "write"
  /\ UNCHANGED batch_input
  /\ published' = batch_input'
  /\ Answer(Finalized)
  /\ UNCHANGED <<running, inbox, response, memory, acked>>

FinalizeEnd ==
  /\ stage = "write"
  /\ batch_input' = [prev_state_root  |-> RootOf(EmptyMap),
                     new_state_root   |-> RootOf(updated_state_hashes),
                     swap_output_json |-> swap_output_json]
  /\ published' = batch_input'
  /\ Answer(Finalized)
  /\ UNCHANGED <<running, inbox, response, memory, acked>>

-----------------------------------------------------------------------------
TestPage ==
  /\ Serving("GET", "test")
  /\ Answer(Greetings)
  /\ UNCHANGED <<running, inbox, response, memory, batch_input, acked, published>>

NotFoundPage ==
  /\ \E url \in {"test", "other"} : Serving("POST", url)
  /\ Answer(NotFound)
  /\ UNCHANGED <<running, inbox, response, memory, batch_input, acked, published>>

(***************************************************************************)
(* No arm of the loop matches: the request is dropped unanswered, and      *)
(* tiny_http answers 500 when a request is dropped.                        *)
(***************************************************************************)
Unrouted ==
  /\ running
  /\ stage = "accept"
  /\ inbox # <<>>
  /\ Head(inbox).message.method # "POST"
  /\ ~Serving("GET", "test")
  /\ inbox' = Tail(inbox)
  /\ response' = [response EXCEPT ![Head(inbox).client] = Dropped]
  /\ UNCHANGED <<running, stage, reply, memory, batch_input, acked, published>>

Respond ==
  /\ stage = "respond"
  /\ stage' = "accept"
  /\ inbox' = Tail(inbox)
  /\ response' = [response EXCEPT ![Head(inbox).client] = reply]
  /\ reply' = NoReply
  /\ acked' = IF reply.text = "commitment"
              THEN acked \union {[request_type |-> TypeOf[Head(inbox).message.url],
                                  request      |-> Head(inbox).message.body,
                                  commitment   |-> reply.commitment]}
              ELSE acked
  /\ UNCHANGED <<running, memory, batch_input, published>>

\* One step of the loop in main.
ServerStep ==
  \/ ExecuteProblemRequest
  \/ ExecuteDataRequest
  \/ ExecuteSubmissionRequest
  \/ ExecuteVerificationRequest
  \/ ParseFails
  \/ HashPanics
  \/ FinalizeBegin
  \/ FinalizeEnd
  \/ TestPage
  \/ NotFoundPage
  \/ Unrouted
  \/ Respond

Next ==
  \/ \E c \in Client, m \in Message, arrived \in BOOLEAN : Send(c, m, arrived)
  \/ Deliver
  \/ ServerStep
  \/ Crash
  \/ Restart

Spec == Init /\ [][Next]_vars

(***************************************************************************)
(* The loop keeps running while the process is up, and a client finishes   *)
(* the body it began: the server has no timeout, so a client that does not *)
(* would hold up all others.  Clients need not send, the process need not  *)
(* stop, and nobody need restart it.                                       *)
(***************************************************************************)
FairSpec == Spec /\ WF_vars(ServerStep) /\ WF_vars(Deliver)
-----------------------------------------------------------------------------
(***************************************************************************)
(* Properties.                                                             *)
(***************************************************************************)
IsPrefix(s, t) == Len(s) <= Len(t) /\ \A k \in DOMAIN s : s[k] = t[k]

Complete(f) == f \notin {NoBatch, Torn}

Reply == {NoReply, Greetings, Finalized, NotFound} \union {Commitment(h) : h \in Hash}

(***************************************************************************)
(* Type invariant, with the coupling of stage, inbox and running.          *)
(***************************************************************************)
TypeOK ==
  /\ running \in BOOLEAN
  /\ inbox \in Seq([client : Client, message : Message, arrived : BOOLEAN])
  /\ stage \in {"accept", "write", "respond"}
  /\ stage # "accept" => running /\ inbox # <<>>
  /\ reply \in Reply
  /\ response \in [Client -> Reply \union {Waiting, Closed, Dropped}]
  /\ state_tree \in TreeValue
  /\ DOMAIN updated_state_hashes \subseteq Nat
  /\ \A i \in DOMAIN updated_state_hashes : updated_state_hashes[i] \in Hash
  /\ swap_output_json \in Seq(Entry)
  /\ Complete(batch_input) => batch_input \in Batch
  /\ Complete(published) => published \in Batch
  /\ acked \subseteq [request_type : RequestType, request : Body, commitment : Hash]

(***************************************************************************)
(* The three collections the handlers keep under three locks agree: slots  *)
(* are handed out densely from zero, and slot i holds the hash of the i-th *)
(* accepted request in the leaf table, in updated_state_hashes and by the  *)
(* index in its swap_output_json entry, whatever finalizes came between.   *)
(***************************************************************************)
SlotsAgree ==
  /\ state_tree.zero_idxs = <<>>
  /\ state_tree.count = Len(swap_output_json)
  /\ state_tree.leaf_nodes = [k \in DOMAIN swap_output_json |-> HashOf(swap_output_json[k])]
  /\ DOMAIN updated_state_hashes = 0..(Len(swap_output_json) - 1)
  /\ \A k \in DOMAIN swap_output_json :
       /\ swap_output_json[k].state_index = k - 1
       /\ updated_state_hashes[k - 1] = HashOf(swap_output_json[k])

(***************************************************************************)
(* A complete batch file is consistent with itself as the Cairo program    *)
(* reads it: applying its requests in order, each to a slot that was empty *)
(* (prover/transactions/utils.cairo, update_state), turns the previous     *)
(* root into the new one.  It holds as long as the requests fit the tree.  *)
(***************************************************************************)
BatchReplays ==
  Complete(batch_input) /\ Len(batch_input.swap_output_json) <= Capacity =>
    LET es   == batch_input.swap_output_json
        prev == batch_input.prev_state_root
        next == batch_input.new_state_root
    IN  /\ \A k \in DOMAIN es :
             /\ es[k].state_index < Capacity
             /\ prev[es[k].state_index] = Zero
             /\ next[es[k].state_index] = HashOf(es[k])
        /\ \A j, k \in DOMAIN es : es[j].state_index = es[k].state_index => j = k
        /\ \A i \in 0..(Capacity - 1) :
             (\A k \in DOMAIN es : es[k].state_index # i) => next[i] = prev[i]

(***************************************************************************)
(* Who is told "Batch finalized successfully" finds a complete file that   *)
(* holds every request acknowledged before, by this run of the server, and *)
(* commits to the very hash the requester was given.                       *)
(***************************************************************************)
FinalizedCoversAcked ==
  [][\A c \in Client :
       response[c] = Waiting /\ response'[c] = Finalized =>
         /\ Complete(batch_input')
         /\ \A a \in acked : \E k \in DOMAIN batch_input'.swap_output_json :
              LET e == batch_input'.swap_output_json[k]
              IN  /\ RequestOf(e) = [request_type |-> a.request_type, request |-> a.request]
                  /\ e.state_index < Capacity =>
                       batch_input'.new_state_root[e.state_index] = a.commitment]_vars

(***************************************************************************)
(* Every client hears back: from the loop, or by its connection closing.   *)
(***************************************************************************)
ClientAnswered ==
  \A c \in Client : response[c] = Waiting ~> response[c] # Waiting

(***************************************************************************)
(* The server implements the log of BatchLog: the published commitment is  *)
(* to the hashes of the accepted requests in the order of acceptance.      *)
(***************************************************************************)
Log == INSTANCE BatchLog WITH
  log   <- [k \in DOMAIN swap_output_json |-> RequestOf(swap_output_json[k])],
  batch <- IF Complete(batch_input)
           THEN [log    |-> [k \in DOMAIN batch_input.swap_output_json |->
                               RequestOf(batch_input.swap_output_json[k])],
                 leaves |-> batch_input.new_state_root]
           ELSE batch_input

ImplementsLog == Log!Spec

(***************************************************************************)
(* Every slot handed out is a leaf of the state tree, as the assertion     *)
(* left as a comment in SuperficialTree::update_leaf_node demands.         *)
(***************************************************************************)
SlotWithinTree ==
  \A k \in DOMAIN swap_output_json : swap_output_json[k].state_index < 2 ^ StateTreeDepth

(***************************************************************************)
(* Each batch starts from the root the batch before it ended with, as the  *)
(* comment "Store the new tree to disk" in finalize_batch.rs supposes.     *)
(***************************************************************************)
BatchesChain ==
  [][published' # published /\ published # NoBatch /\ published' # NoBatch =>
       published'.prev_state_root = published.new_state_root]_vars

(***************************************************************************)
(* No request drops out again: while the process is up, every batch        *)
(* repeats the requests and the leaves of the batch before it, because     *)
(* finalize_batch clears neither collection.                               *)
(***************************************************************************)
BatchesAccumulate ==
  [][published' # published /\ published # NoBatch /\ published' # NoBatch =>
       /\ IsPrefix(published.swap_output_json, published'.swap_output_json)
       /\ \A i \in 0..(Capacity - 1) :
            published.new_state_root[i] # Zero =>
              published'.new_state_root[i] = published.new_state_root[i]]_vars
=============================================================================
