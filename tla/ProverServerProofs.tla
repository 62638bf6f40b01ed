--------------------------- MODULE ProverServerProofs ---------------------------
(***************************************************************************)
(* The request server, for every set of clients, bodies and messages and   *)
(* every capacity: its type, that its collections agree, and what a batch  *)
(* file holds.                                                             *)
(***************************************************************************)
EXTENDS ProverServer, SuperficialTreeLemmas

\* The leaves a root covers once the requests es have been recorded.
LeavesFrom(es) ==
  [i \in 0..(Capacity - 1) |-> IF i < Len(es) THEN HashOf(es[i + 1]) ELSE Zero]

\* A batch that holds the requests of one run of the server from its first.
FromTheStart(b) ==
  /\ b \in Batch
  /\ b.prev_state_root = RootOf(EmptyMap)
  /\ b.new_state_root = LeavesFrom(b.swap_output_json)
  /\ \A k \in DOMAIN b.swap_output_json : b.swap_output_json[k].state_index = k - 1

BatchFromTheStart == Complete(batch_input) => FromTheStart(batch_input)

\* The requests a client was given a commitment to, or is about to be.
Recorded(a) ==
  /\ a.commitment = hash_request(a.request_type, a.request)
  /\ \E k \in DOMAIN swap_output_json :
       RequestOf(swap_output_json[k]) = [request_type |-> a.request_type,
                                         request      |-> a.request]

AckedRecorded == \A a \in acked : Recorded(a)

\* The response about to be sent tells of what was done.
ReplyTrue ==
  stage = "respond" =>
    LET m == Head(inbox).message
    IN  /\ reply.text = "commitment" =>
             /\ m.url \in DOMAIN TypeOf /\ m.body \in Body
             /\ Recorded([request_type |-> TypeOf[m.url], request |-> m.body,
                          commitment   |-> reply.commitment])
        /\ reply = Finalized =>
             Complete(batch_input) /\ batch_input.swap_output_json = swap_output_json

\* The batch this run completed last is a prefix of what it has recorded since.
PublishedBefore ==
  published # NoBatch =>
    FromTheStart(published) /\ IsPrefix(published.swap_output_json, swap_output_json)

\* While finalize_batch writes, the file is cut short.
TornWhileWriting == stage = "write" => batch_input = Torn

(***************************************************************************)
(* The inductive invariant.  The tree's type depends on SlotsAgree (the    *)
(* slot an allocation finds), the acknowledged requests on the response    *)
(* between handler and client, a batch on the state it was taken from.     *)
(***************************************************************************)
IInv ==
  /\ TypeOK /\ SlotsAgree
  /\ BatchFromTheStart /\ PublishedBefore /\ TornWhileWriting
  /\ AckedRecorded /\ ReplyTrue
-----------------------------------------------------------------------------
(***************************************************************************)
(* The leaves of the recorded requests.                                    *)
(***************************************************************************)
Leaves(es) == [k \in DOMAIN es |-> HashOf(es[k])]

\* An entry hashes to a field element other than zero.
LEMMA HashOfType ==
  ASSUME NEW e \in Entry
  PROVE  HashOf(e) \in Hash \ {Zero}
BY HashAssumption DEF Entry, HashOf

\* The leaves of a list of entries are as many, and none is empty.
LEMMA LeavesType ==
  ASSUME NEW es \in Seq(Entry)
  PROVE  /\ Leaves(es) \in Seq(Hash \ {Zero})
         /\ Len(Leaves(es)) = Len(es)
<1>1. DOMAIN es = 1..Len(es) /\ Len(es) \in Nat /\ \A k \in 1..Len(es) : es[k] \in Entry
  OBVIOUS
<1> DEFINE ls == Leaves(es)
<1>2. ls \in [1..Len(es) -> Hash \ {Zero}]
  BY <1>1, HashOfType DEF Leaves
<1> HIDE DEF ls
<1>3. ls \in Seq(Hash \ {Zero}) /\ Len(ls) = Len(es)
  BY <1>1, <1>2, SeqDef
<1> QED BY <1>3 DEF ls

\* Recording a request appends its leaf.
LEMMA LeavesAppend ==
  ASSUME NEW es \in Seq(Entry), NEW e \in Entry
  PROVE  Leaves(Append(es, e)) = Append(Leaves(es), HashOf(e))
<1> DEFINE n == Len(es)
           l == Leaves(Append(es, e))
           r == Append(Leaves(es), HashOf(e))
<1>1. /\ n \in Nat /\ DOMAIN es = 1..n
      /\ Append(es, e) \in Seq(Entry) /\ Len(Append(es, e)) = n + 1
      /\ \A k \in 1..n : Append(es, e)[k] = es[k]
      /\ Append(es, e)[n + 1] = e
  BY AppendProperties
<1>2. DOMAIN Append(es, e) = 1..(n + 1)
  BY <1>1
<1>3. /\ Leaves(es) \in Seq(Hash \ {Zero}) /\ Len(Leaves(es)) = n
      /\ l \in Seq(Hash \ {Zero}) /\ Len(l) = n + 1
  BY <1>1, LeavesType
<1>4. /\ r \in Seq(Hash \ {Zero}) /\ Len(r) = n + 1
      /\ \A k \in 1..n : r[k] = Leaves(es)[k]
      /\ r[n + 1] = HashOf(e)
  BY <1>3, HashOfType, AppendProperties
<1> HIDE DEF r
<1>5. ASSUME NEW k \in 1..(n + 1) PROVE l[k] = r[k]
  <2>1. l[k] = HashOf(Append(es, e)[k])
    BY <1>2 DEF Leaves
  <2>2. CASE k \in 1..n
    <3>1. r[k] = HashOf(es[k])
      BY <1>1, <1>4, <2>2 DEF Leaves
    <3>2. Append(es, e)[k] = es[k]
      BY <1>1, <2>2
    <3> QED BY <2>1, <3>1, <3>2
  <2>3. CASE k = n + 1
    BY <1>1, <1>4, <2>1, <2>3
  <2> QED BY <1>1, <2>2, <2>3
<1> HIDE DEF l
<1>6. l = r
  BY <1>3, <1>4, <1>5, SeqEqual
<1> QED BY <1>6 DEF l, r

\* The leaf table of the server is dense.
LEMMA TreeIsDense ==
  ASSUME TypeOK, SlotsAgree
  PROVE  state_tree = Dense(Leaves(swap_output_json))
<1>1. swap_output_json \in Seq(Entry) /\ state_tree \in TreeValue
  BY DEF TypeOK
<1>2. Len(Leaves(swap_output_json)) = Len(swap_output_json)
  BY <1>1, LeavesType
<1>3. /\ state_tree.zero_idxs = <<>>
      /\ state_tree.count = Len(swap_output_json)
      /\ state_tree.leaf_nodes = Leaves(swap_output_json)
  BY DEF SlotsAgree, Leaves
<1> QED BY <1>1, <1>2, <1>3 DEF TreeValue, Dense

\* A dense table of entries is a value of the leaf table's type.
LEMMA DenseType ==
  ASSUME NEW es \in Seq(Entry)
  PROVE  Dense(Leaves(es)) \in TreeValue
<1>1. Leaves(es) \in Seq(Hash) /\ Len(Leaves(es)) \in Nat
  BY LeavesType, SeqMonotonic
<1> QED BY <1>1 DEF Dense, TreeValue

-----------------------------------------------------------------------------
(***************************************************************************)
(* What the steps do.                                                      *)
(***************************************************************************)
\* A step of the server is one of these, or changes nothing.
LEMMA StepCases ==
  ASSUME [Next]_vars
  PROVE  \/ \E c \in Client, m \in Message, arrived \in BOOLEAN : Send(c, m, arrived)
         \/ Deliver
         \/ \E url \in DOMAIN TypeOf : ExecuteRequest(url)
         \/ FinalizeBegin
         \/ FinalizeEnd
         \/ TestPage
         \/ NotFoundPage
         \/ Unrouted
         \/ Respond
         \/ Exit
         \/ Restart
         \/ UNCHANGED vars
<1>1. {"problem", "dataset", "models", "results"} \subseteq DOMAIN TypeOf
  BY DEF TypeOf
<1>2. ExecuteProblemRequest \/ ExecuteDataRequest \/ ExecuteSubmissionRequest
        \/ ExecuteVerificationRequest => \E url \in DOMAIN TypeOf : ExecuteRequest(url)
  BY <1>1 DEF ExecuteProblemRequest, ExecuteDataRequest, ExecuteSubmissionRequest,
              ExecuteVerificationRequest
<1>3. ParseFails \/ HashPanics \/ Crash => Exit
  BY DEF ParseFails, HashPanics, Crash
<1> QED BY <1>2, <1>3 DEF Next, ServerStep

\* A request handler records one entry, in the next slot.
LEMMA ExecuteRequestEffect ==
  ASSUME TypeOK, SlotsAgree, NEW url \in DOMAIN TypeOf, ExecuteRequest(url)
  PROVE  LET m == Head(inbox).message
             e == [request_type |-> TypeOf[url], request |-> m.body,
                   state_index  |-> Len(swap_output_json)]
         IN  /\ inbox # <<>> /\ running /\ m.url = url /\ m.body \in Body
             /\ e \in Entry
             /\ swap_output_json' = Append(swap_output_json, e)
             /\ state_tree' = Dense(Leaves(swap_output_json'))
             /\ updated_state_hashes' =
                  Insert(updated_state_hashes, Len(swap_output_json), HashOf(e))
             /\ stage' = "respond" /\ reply' = Commitment(HashOf(e))
             /\ UNCHANGED <<running, inbox, response, batch_input, acked, published>>
<1> DEFINE b == Head(inbox).message.body
           h == hash_request(TypeOf[url], b)
           leaves == Leaves(swap_output_json)
           got == first_zero_idx(state_tree)
           e == [request_type |-> TypeOf[url], request |-> b,
                 state_index  |-> Len(swap_output_json)]
<1>1. swap_output_json \in Seq(Entry) /\ Len(swap_output_json) \in Nat
  BY DEF TypeOK
<1>2. inbox # <<>> /\ running /\ Head(inbox).message.url = url /\ b \in Body
  BY DEF ExecuteRequest, Reading, Serving
<1>3. TypeOf[url] \in RequestType
  BY DEF RequestType
<1>4. e \in Entry
  BY <1>1, <1>2, <1>3 DEF Entry
<1>5. h \in Hash \ {Zero} /\ HashOf(e) = h
  BY <1>2, <1>3, HashAssumption DEF HashOf
<1>6. leaves \in Seq(Hash \ {Zero}) /\ Len(leaves) = Len(swap_output_json)
  BY <1>1, LeavesType
<1>7. state_tree = Dense(leaves)
  BY TreeIsDense
<1> HIDE DEF leaves, h
<1>8. /\ got.idx = Len(swap_output_json)
      /\ update_leaf_node(got.tree, h, got.idx) = Dense(Append(leaves, h))
  BY <1>5, <1>6, <1>7, DenseAppend
<1> HIDE DEF got
<1>9. /\ RecordRequest(h, e)
      /\ stage' = "respond" /\ reply' = Commitment(h)
      /\ UNCHANGED <<running, inbox, response, batch_input, acked, published>>
  BY <1>8 DEF ExecuteRequest, Answer, h, got
<1>10. /\ swap_output_json' = Append(swap_output_json, e)
       /\ updated_state_hashes' = Insert(updated_state_hashes, Len(swap_output_json), h)
       /\ state_tree' = update_leaf_node(got.tree, h, got.idx)
  BY <1>8, <1>9 DEF RecordRequest, got
<1>11. Leaves(swap_output_json') = Append(leaves, h)
  BY <1>1, <1>4, <1>5, <1>10, LeavesAppend DEF leaves
<1> QED BY <1>2, <1>4, <1>5, <1>8, <1>9, <1>10, <1>11

\* The refresh in finalize_batch finds no empty slot.
LEMMA FinalizeBeginEffect ==
  ASSUME TypeOK, SlotsAgree, FinalizeBegin
  PROVE  UNCHANGED <<state_tree, updated_state_hashes, swap_output_json>>
<1>1. Leaves(swap_output_json) \in Seq(Hash \ {Zero})
  BY LeavesType DEF TypeOK
<1>2. state_tree = Dense(Leaves(swap_output_json))
  BY TreeIsDense
<1> QED BY <1>1, <1>2, DenseRefresh DEF FinalizeBegin
\* The end of the process.
LEMMA ExitEffect ==
  ASSUME Exit
  PROVE  /\ running' = FALSE /\ inbox' = <<>> /\ stage' = "accept" /\ reply' = NoReply
         /\ response' = [c \in Client |-> IF response[c] = Waiting THEN Closed ELSE response[c]]
         /\ state_tree' = new /\ updated_state_hashes' = EmptyMap
         /\ swap_output_json' = <<>> /\ acked' = {} /\ published' = NoBatch
         /\ batch_input' = batch_input
BY DEF Exit

\* The server takes a finalize request only when it is idle, with one to serve.
LEMMA FinalizeBeginGuard ==
  ASSUME FinalizeBegin
  PROVE  running /\ stage = "accept" /\ inbox # <<>>
BY DEF FinalizeBegin, Serving

-----------------------------------------------------------------------------
(***************************************************************************)
(* The conjuncts of the invariant, one after the other.                    *)
(***************************************************************************)
Queued == [client : Client, message : Message, arrived : BOOLEAN]

\* What clients send keeps the queue, and does not change who is served.
LEMMA SendQueue ==
  ASSUME inbox \in Seq(Queued),
         NEW c \in Client, NEW m \in Message, NEW arrived \in BOOLEAN, Send(c, m, arrived)
  PROVE  /\ inbox' \in Seq(Queued) /\ inbox' # <<>>
         /\ inbox # <<>> => Head(inbox') = Head(inbox)
<1> DEFINE q == [client |-> c, message |-> m, arrived |-> arrived]
<1>1. q \in Queued
  BY DEF Queued
<1>2. inbox' = Append(inbox, q)
  BY DEF Send
<1> HIDE DEF q
<1> QED BY <1>1, <1>2, HeadTailAppend, AppendProperties

\* The rest of a body changes neither the queue's length nor its messages.
LEMMA DeliverQueue ==
  ASSUME inbox \in Seq(Queued), Deliver
  PROVE  /\ inbox' \in Seq(Queued) /\ inbox' # <<>> /\ inbox # <<>>
         /\ Head(inbox').message = Head(inbox).message
         /\ Head(inbox').client = Head(inbox).client
<1>1. PICK k \in DOMAIN inbox : inbox' = [inbox EXCEPT ![k].arrived = TRUE]
  BY DEF Deliver
<1>2. Len(inbox) \in Nat /\ DOMAIN inbox = 1..Len(inbox) /\ inbox[k] \in Queued
  OBVIOUS
<1> DEFINE q == [inbox[k] EXCEPT !.arrived = TRUE]
<1>3. q \in Queued /\ q.message = inbox[k].message /\ q.client = inbox[k].client
  BY <1>2 DEF Queued
<1>4. inbox' = [inbox EXCEPT ![k] = q]
  BY <1>1
<1> HIDE DEF q
<1>5. inbox' \in Seq(Queued) /\ Len(inbox') = Len(inbox)
  BY <1>2, <1>3, <1>4, ExceptSeq
<1>6. inbox'[1] = IF k = 1 THEN q ELSE inbox[1]
  BY <1>2, <1>4
<1>7. Len(inbox) # 0
  BY <1>2
<1>8. inbox' # <<>> /\ inbox # <<>>
  BY <1>2, <1>5, <1>7
<1>9. Head(inbox') = inbox'[1] /\ Head(inbox) = inbox[1]
  BY <1>5, <1>8
<1> QED BY <1>3, <1>5, <1>6, <1>8, <1>9

\* Every step preserves the agreement of the three collections.
LEMMA SlotsAgreeStep ==
  ASSUME IInv, [Next]_vars
  PROVE  SlotsAgree'
<1>0. TypeOK /\ SlotsAgree /\ swap_output_json \in Seq(Entry)
  BY DEF IInv, TypeOK
<1>1. ASSUME UNCHANGED memory PROVE SlotsAgree'
  BY <1>0, <1>1 DEF memory, SlotsAgree
<1>2. ASSUME NEW c \in Client, NEW m \in Message, NEW arrived \in BOOLEAN, Send(c, m, arrived)
      PROVE  SlotsAgree'
  BY <1>1, <1>2 DEF Send
<1>3. CASE Deliver
  BY <1>1, <1>3 DEF Deliver
<1>4. ASSUME NEW url \in DOMAIN TypeOf, ExecuteRequest(url) PROVE SlotsAgree'
  <2> DEFINE es == swap_output_json
             n == Len(es)
             e == [request_type |-> TypeOf[url], request |-> Head(inbox).message.body,
                   state_index  |-> n]
  <2>1. /\ e \in Entry
        /\ swap_output_json' = Append(es, e)
        /\ state_tree' = Dense(Leaves(swap_output_json'))
        /\ updated_state_hashes' = Insert(updated_state_hashes, n, HashOf(e))
    BY <1>0, <1>4, ExecuteRequestEffect
  <2>2. e.state_index = n
    OBVIOUS
  <2> HIDE DEF e
  <2>3. /\ n \in Nat /\ swap_output_json' \in Seq(Entry)
        /\ Len(swap_output_json') = n + 1 /\ DOMAIN swap_output_json' = 1..(n + 1)
        /\ \A k \in 1..n : swap_output_json'[k] = es[k]
        /\ swap_output_json'[n + 1] = e
        /\ DOMAIN es = 1..n
    BY <1>0, <2>1, AppendProperties
  <2>4. /\ DOMAIN updated_state_hashes = 0..(n - 1)
        /\ \A k \in 1..n : /\ es[k].state_index = k - 1
                            /\ updated_state_hashes[k - 1] = HashOf(es[k])
    BY <1>0, <2>3 DEF SlotsAgree
  <2>5. Len(Leaves(swap_output_json')) = n + 1
    BY <2>3, LeavesType
  <2>6. /\ state_tree'.zero_idxs = <<>>
        /\ state_tree'.count = Len(swap_output_json')
        /\ state_tree'.leaf_nodes = Leaves(swap_output_json')
    BY <2>1, <2>3, <2>5 DEF Dense
  <2>7. DOMAIN updated_state_hashes' = 0..n
    BY <2>1, <2>3, <2>4 DEF Insert
  <2>8. ASSUME NEW k \in 1..(n + 1)
        PROVE  /\ swap_output_json'[k].state_index = k - 1
               /\ updated_state_hashes'[k - 1] = HashOf(swap_output_json'[k])
    <3>1. k - 1 \in 0..n
      BY <2>3
    <3>2. CASE k \in 1..n
      <4>1. k - 1 \in 0..(n - 1) /\ k - 1 # n
        BY <2>3, <3>2
      <4>2. updated_state_hashes'[k - 1] = updated_state_hashes[k - 1]
        BY <2>1, <2>4, <4>1 DEF Insert
      <4> QED BY <2>3, <2>4, <3>2, <4>2
    <3>3. CASE k = n + 1
      <4>1. k - 1 = n
        BY <2>3, <3>3
      <4>2. updated_state_hashes'[n] = HashOf(e)
        BY <2>1 DEF Insert
      <4> QED BY <2>2, <2>3, <3>3, <4>1, <4>2
    <3> QED BY <2>3, <3>2, <3>3
  <2>9. (n + 1) - 1 = n
    BY <2>3
  <2> QED BY <2>3, <2>6, <2>7, <2>8, <2>9 DEF SlotsAgree, Leaves
<1>5. CASE FinalizeBegin
  BY <1>0, <1>1, <1>5, FinalizeBeginEffect DEF memory
<1>6. CASE FinalizeEnd
  BY <1>1, <1>6 DEF FinalizeEnd
<1>7. CASE TestPage \/ NotFoundPage \/ Unrouted \/ Respond \/ Restart
  BY <1>1, <1>7 DEF TestPage, NotFoundPage, Unrouted, Respond, Restart
<1>8. CASE Exit
  <2>1. state_tree' = new /\ updated_state_hashes' = EmptyMap /\ swap_output_json' = <<>>
    BY <1>8, ExitEffect
  <2>2. 0..(Len(<<>>) - 1) = {} /\ Len(<<>>) = 0 /\ DOMAIN <<>> = {}
    OBVIOUS
  <2>3. DOMAIN EmptyMap = {}
    BY DEF EmptyMap
  <2>4. [k \in DOMAIN <<>> |-> HashOf(<<>>[k])] = <<>>
    BY <2>2
  <2> QED BY <2>1, <2>2, <2>3, <2>4 DEF SlotsAgree, new
<1>9. CASE UNCHANGED vars
  BY <1>1, <1>9 DEF vars
<1> QED BY <1>2, <1>3, <1>4, <1>5, <1>6, <1>7, <1>8, <1>9, StepCases
\* The leaves under the root of a map of hashes are hashes.
LEMMA RootType ==
  ASSUME NEW f, \A i \in DOMAIN f : f[i] \in Hash
  PROVE  RootOf(f) \in Root
BY ZeroAssumption DEF RootOf, Root

\* The root of a tree without leaves is a root.
LEMMA EmptyRootType == RootOf(EmptyMap) \in Root
<1>1. DOMAIN EmptyMap = {}
  BY DEF EmptyMap
<1> QED BY <1>1, RootType

\* Under the invariant, the file finalize_batch writes is complete.
LEMMA FinalizeEndEffect ==
  ASSUME TypeOK, FinalizeEnd
  PROVE  LET b == [prev_state_root  |-> RootOf(EmptyMap),
                   new_state_root   |-> RootOf(updated_state_hashes),
                   swap_output_json |-> swap_output_json]
         IN  /\ stage = "write" /\ running /\ inbox # <<>>
             /\ b \in Batch /\ b # NoBatch /\ b # Torn
             /\ batch_input' = b /\ published' = b
             /\ stage' = "respond" /\ reply' = Finalized
             /\ UNCHANGED <<running, inbox, response, memory, acked>>
<1> DEFINE b == [prev_state_root  |-> RootOf(EmptyMap),
                 new_state_root   |-> RootOf(updated_state_hashes),
                 swap_output_json |-> swap_output_json]
<1>1. RootOf(updated_state_hashes) \in Root /\ RootOf(EmptyMap) \in Root
  BY RootType, EmptyRootType DEF TypeOK
<1>2. b \in Batch
  BY <1>1 DEF Batch, TypeOK
<1>3. b # NoBatch /\ b # Torn
  <2> HIDE DEF b
  <2> QED BY <1>2, ServerAssumption
<1>4. stage = "write" /\ running /\ inbox # <<>>
  BY DEF FinalizeEnd, TypeOK
<1> QED BY <1>2, <1>3, <1>4 DEF FinalizeEnd, Answer

\* Every step preserves the types.
LEMMA TypeStep ==
  ASSUME IInv, [Next]_vars
  PROVE  TypeOK'
<1>0. TypeOK /\ SlotsAgree /\ ReplyTrue
  BY DEF IInv
<1>1. inbox \in Seq(Queued)
  BY <1>0 DEF TypeOK, Queued
<1>2. ASSUME NEW c \in Client, NEW m \in Message, NEW arrived \in BOOLEAN, Send(c, m, arrived)
      PROVE  TypeOK'
  <2>1. inbox' \in Seq(Queued) /\ inbox' # <<>>
    BY <1>1, <1>2, SendQueue
  <2>2. response' \in [Client -> Reply \union {Waiting, Closed, Dropped}]
    BY <1>0, <1>2 DEF Send, TypeOK
  <2>3. UNCHANGED <<running, stage, reply, memory, batch_input, acked, published>>
    BY <1>2 DEF Send
  <2> QED BY <1>0, <2>1, <2>2, <2>3 DEF TypeOK, Queued, memory
<1>3. CASE Deliver
  <2>1. inbox' \in Seq(Queued) /\ inbox' # <<>>
    BY <1>1, <1>3, DeliverQueue
  <2>2. UNCHANGED <<running, stage, reply, response, memory, batch_input, acked, published>>
    BY <1>3 DEF Deliver
  <2> QED BY <1>0, <2>1, <2>2 DEF TypeOK, Queued, memory
<1>4. ASSUME NEW url \in DOMAIN TypeOf, ExecuteRequest(url) PROVE TypeOK'
  <2> DEFINE n == Len(swap_output_json)
             e == [request_type |-> TypeOf[url], request |-> Head(inbox).message.body,
                   state_index  |-> n]
  <2>1. /\ inbox # <<>> /\ running
        /\ e \in Entry
        /\ swap_output_json' = Append(swap_output_json, e)
        /\ state_tree' = Dense(Leaves(swap_output_json'))
        /\ updated_state_hashes' = Insert(updated_state_hashes, n, HashOf(e))
        /\ stage' = "respond" /\ reply' = Commitment(HashOf(e))
        /\ UNCHANGED <<running, inbox, response, batch_input, acked, published>>
    BY <1>0, <1>4, ExecuteRequestEffect
  <2> HIDE DEF e
  <2>2. n \in Nat /\ HashOf(e) \in Hash
    BY <1>0, <2>1, HashOfType DEF TypeOK
  <2>3. swap_output_json' \in Seq(Entry)
    BY <1>0, <2>1 DEF TypeOK
  <2>4. state_tree' \in TreeValue
    BY <2>1, <2>3, DenseType
  <2>5. /\ DOMAIN updated_state_hashes' \subseteq Nat
        /\ \A i \in DOMAIN updated_state_hashes' : updated_state_hashes'[i] \in Hash
    BY <1>0, <2>1, <2>2 DEF Insert, TypeOK
  <2>6. reply' \in Reply
    BY <2>1, <2>2 DEF Reply
  <2> QED BY <1>0, <2>1, <2>3, <2>4, <2>5, <2>6 DEF TypeOK
<1>5. CASE FinalizeBegin
  <2>1. UNCHANGED memory
    BY <1>0, <1>5, FinalizeBeginEffect DEF memory
  <2>2. running /\ inbox # <<>>
    BY <1>5, FinalizeBeginGuard
  <2>3. /\ batch_input' = Torn /\ stage' = "write"
        /\ UNCHANGED <<running, inbox, reply, response, acked, published>>
    BY <1>5 DEF FinalizeBegin
  <2> QED BY <1>0, <2>1, <2>2, <2>3 DEF TypeOK, memory, Complete
<1>6. CASE FinalizeEnd
  <2> DEFINE b == [prev_state_root  |-> RootOf(EmptyMap),
                   new_state_root   |-> RootOf(updated_state_hashes),
                   swap_output_json |-> swap_output_json]
  <2>1. /\ running /\ inbox # <<>> /\ b \in Batch
        /\ batch_input' = b /\ published' = b
        /\ stage' = "respond" /\ reply' = Finalized
        /\ UNCHANGED <<running, inbox, response, memory, acked>>
    BY <1>0, <1>6, FinalizeEndEffect
  <2> HIDE DEF b
  <2> QED BY <1>0, <2>1 DEF TypeOK, memory, Reply
<1>7. CASE TestPage
  BY <1>0, <1>7 DEF TestPage, Serving, Answer, TypeOK, memory, Reply
<1>8. CASE NotFoundPage
  BY <1>0, <1>8 DEF NotFoundPage, Serving, Answer, TypeOK, memory, Reply
<1>9. CASE Unrouted
  <2>1. /\ stage = "accept" /\ inbox # <<>> /\ inbox' = Tail(inbox)
        /\ response' = [response EXCEPT ![Head(inbox).client] = Dropped]
        /\ UNCHANGED <<running, stage, reply, memory, batch_input, acked, published>>
    BY <1>9 DEF Unrouted
  <2>2. inbox' \in Seq(Queued)
    BY <1>1, <2>1
  <2>3. response' \in [Client -> Reply \union {Waiting, Closed, Dropped}]
    BY <1>0, <2>1 DEF TypeOK
  <2> QED BY <1>0, <2>1, <2>2, <2>3 DEF TypeOK, Queued, memory
<1>10. CASE Respond
  <2>1. /\ stage = "respond" /\ stage' = "accept" /\ inbox' = Tail(inbox)
        /\ response' = [response EXCEPT ![Head(inbox).client] = reply]
        /\ reply' = NoReply
        /\ UNCHANGED <<running, memory, batch_input, published>>
    BY <1>10 DEF Respond
  <2>2. inbox # <<>>
    BY <1>0, <2>1 DEF TypeOK
  <2>3. inbox' \in Seq(Queued)
    BY <1>1, <2>1, <2>2
  <2>4. response' \in [Client -> Reply \union {Waiting, Closed, Dropped}]
    BY <1>0, <2>1 DEF TypeOK
  <2>5. acked' \subseteq [request_type : RequestType, request : Body, commitment : Hash]
    <3> DEFINE m == Head(inbox).message
               a == [request_type |-> TypeOf[m.url], request |-> m.body,
                     commitment   |-> reply.commitment]
    <3>1. CASE reply.text = "commitment"
      <4>1. m.url \in DOMAIN TypeOf /\ m.body \in Body /\ Recorded(a)
        BY <1>0, <2>1, <3>1 DEF ReplyTrue
      <4>2. TypeOf[m.url] \in RequestType
        BY <4>1 DEF RequestType
      <4>3. reply.commitment = hash_request(TypeOf[m.url], m.body)
        BY <4>1 DEF Recorded
      <4>4. reply.commitment \in Hash
        BY <4>1, <4>2, <4>3, HashAssumption
      <4>5. a \in [request_type : RequestType, request : Body, commitment : Hash]
        BY <4>1, <4>2, <4>4
      <4>6. acked' = acked \union {a}
        BY <1>10, <3>1 DEF Respond
      <4> QED BY <1>0, <4>5, <4>6 DEF TypeOK
    <3>2. CASE reply.text # "commitment"
      BY <1>0, <1>10, <3>2 DEF Respond, TypeOK
    <3> QED BY <3>1, <3>2
  <2>6. reply' \in Reply
    BY <2>1 DEF Reply
  <2> QED BY <1>0, <2>1, <2>3, <2>4, <2>5, <2>6 DEF TypeOK, Queued, memory
<1>11. CASE Exit
  <2>1. /\ running' = FALSE /\ inbox' = <<>> /\ stage' = "accept" /\ reply' = NoReply
        /\ response' = [c \in Client |-> IF response[c] = Waiting THEN Closed ELSE response[c]]
        /\ state_tree' = new /\ updated_state_hashes' = EmptyMap
        /\ swap_output_json' = <<>> /\ acked' = {} /\ published' = NoBatch
        /\ batch_input' = batch_input
    BY <1>11, ExitEffect
  <2>2. state_tree' \in TreeValue
    BY <2>1 DEF new, TreeValue
  <2>3. DOMAIN updated_state_hashes' = {}
    BY <2>1 DEF EmptyMap
  <2>4. response' \in [Client -> Reply \union {Waiting, Closed, Dropped}]
    BY <1>0, <2>1 DEF TypeOK
  <2>5. inbox' \in Seq(Queued) /\ swap_output_json' \in Seq(Entry)
    BY <2>1
  <2>6. reply' \in Reply
    BY <2>1 DEF Reply
  <2> QED BY <1>0, <2>1, <2>2, <2>3, <2>4, <2>5, <2>6 DEF TypeOK, Queued, Complete
<1>12. CASE Restart
  BY <1>0, <1>12 DEF Restart, TypeOK, memory
<1>13. CASE UNCHANGED vars
  BY <1>0, <1>13 DEF vars, TypeOK, memory
<1> QED BY <1>2, <1>3, <1>4, <1>5, <1>6, <1>7, <1>8, <1>9, <1>10, <1>11, <1>12, <1>13, StepCases

-----------------------------------------------------------------------------
\* A root of the map the handlers keep covers the leaves of the requests.
LEMMA RootOfRequests ==
  ASSUME TypeOK, SlotsAgree
  PROVE  RootOf(updated_state_hashes) = LeavesFrom(swap_output_json)
<1> DEFINE es == swap_output_json
<1>1. Len(es) \in Nat /\ DOMAIN es = 1..Len(es) /\ Capacity \in Nat
  BY ServerAssumption DEF TypeOK
<1>2. /\ DOMAIN updated_state_hashes = 0..(Len(es) - 1)
      /\ \A k \in 1..Len(es) : updated_state_hashes[k - 1] = HashOf(es[k])
  BY <1>1 DEF SlotsAgree
<1> HIDE DEF es
<1>3. ASSUME NEW i \in 0..(Capacity - 1)
      PROVE  (IF i \in DOMAIN updated_state_hashes THEN updated_state_hashes[i] ELSE Zero)
               = (IF i < Len(es) THEN HashOf(es[i + 1]) ELSE Zero)
  <2>1. i \in Nat
    BY <1>1
  <2>2. CASE i < Len(es)
    <3>1. i + 1 \in 1..Len(es) /\ (i + 1) - 1 = i /\ i \in 0..(Len(es) - 1)
      BY <1>1, <2>1, <2>2
    <3> QED BY <1>2, <2>2, <3>1
  <2>3. CASE ~(i < Len(es))
    <3>1. i \notin 0..(Len(es) - 1)
      BY <1>1, <2>1, <2>3
    <3> QED BY <1>2, <2>3, <3>1
  <2> QED BY <2>2, <2>3
<1> QED BY <1>3 DEF RootOf, LeavesFrom, es

\* Every step preserves what a complete batch file holds.
LEMMA BatchStep ==
  ASSUME IInv, [Next]_vars
  PROVE  BatchFromTheStart'
<1>0. TypeOK /\ SlotsAgree /\ BatchFromTheStart
  BY DEF IInv
<1>1. ASSUME UNCHANGED batch_input PROVE BatchFromTheStart'
  BY <1>0, <1>1 DEF BatchFromTheStart
<1>2. ASSUME NEW c \in Client, NEW m \in Message, NEW arrived \in BOOLEAN, Send(c, m, arrived)
      PROVE  BatchFromTheStart'
  BY <1>1, <1>2 DEF Send
<1>3. ASSUME NEW url \in DOMAIN TypeOf, ExecuteRequest(url) PROVE BatchFromTheStart'
  BY <1>1, <1>3 DEF ExecuteRequest
<1>4. CASE FinalizeBegin
  BY <1>4 DEF FinalizeBegin, BatchFromTheStart, Complete
<1>5. CASE FinalizeEnd
  <2> DEFINE b == [prev_state_root  |-> RootOf(EmptyMap),
                   new_state_root   |-> RootOf(updated_state_hashes),
                   swap_output_json |-> swap_output_json]
  <2>1. b \in Batch /\ batch_input' = b
    BY <1>0, <1>5, FinalizeEndEffect
  <2>2. b.new_state_root = LeavesFrom(b.swap_output_json)
    BY <1>0, RootOfRequests
  <2>3. \A k \in DOMAIN swap_output_json : swap_output_json[k].state_index = k - 1
    BY <1>0 DEF SlotsAgree
  <2>4. FromTheStart(b)
    BY <2>1, <2>2, <2>3 DEF FromTheStart
  <2> HIDE DEF b
  <2> QED BY <2>1, <2>4 DEF BatchFromTheStart
<1>6. CASE Deliver \/ TestPage \/ NotFoundPage \/ Unrouted \/ Respond \/ Exit \/ Restart
  BY <1>1, <1>6 DEF Deliver, TestPage, NotFoundPage, Unrouted, Respond, Exit, Restart
<1>7. CASE UNCHANGED vars
  BY <1>1, <1>7 DEF vars
<1> QED BY <1>2, <1>3, <1>4, <1>5, <1>6, <1>7, StepCases
\* A prefix of a list of entries is a prefix of the list with one more.
LEMMA AppendKeeps ==
  ASSUME NEW s \in Seq(Entry), NEW t \in Seq(Entry), NEW e \in Entry, IsPrefix(s, t)
  PROVE  IsPrefix(s, Append(t, e))
<1>1. /\ Len(s) \in Nat /\ DOMAIN s = 1..Len(s)
      /\ Len(t) \in Nat /\ Len(Append(t, e)) = Len(t) + 1
      /\ \A k \in 1..Len(t) : Append(t, e)[k] = t[k]
  BY AppendProperties
<1>2. Len(s) <= Len(t) /\ \A k \in 1..Len(s) : s[k] = t[k] /\ k \in 1..Len(t)
  BY <1>1 DEF IsPrefix
<1> QED BY <1>1, <1>2 DEF IsPrefix

\* What was recorded stays recorded when an entry is appended.
LEMMA RecordedKept ==
  ASSUME swap_output_json \in Seq(Entry), NEW e \in Entry,
         swap_output_json' = Append(swap_output_json, e),
         NEW a, Recorded(a)
  PROVE  Recorded(a)'
<1>1. /\ DOMAIN swap_output_json \subseteq DOMAIN swap_output_json'
      /\ \A k \in DOMAIN swap_output_json : swap_output_json'[k] = swap_output_json[k]
  OBVIOUS
<1> QED BY <1>1 DEF Recorded

\* Every step preserves that the last batch is a prefix of what is recorded.
LEMMA PublishedStep ==
  ASSUME IInv, [Next]_vars
  PROVE  PublishedBefore'
<1>0. TypeOK /\ SlotsAgree /\ PublishedBefore
  BY DEF IInv
<1>1. ASSUME UNCHANGED <<published, swap_output_json>> PROVE PublishedBefore'
  BY <1>0, <1>1 DEF PublishedBefore
<1>2. ASSUME NEW c \in Client, NEW m \in Message, NEW arrived \in BOOLEAN, Send(c, m, arrived)
      PROVE  PublishedBefore'
  BY <1>1, <1>2 DEF Send, memory
<1>3. ASSUME NEW url \in DOMAIN TypeOf, ExecuteRequest(url) PROVE PublishedBefore'
  <2>1. PICK e \in Entry : swap_output_json' = Append(swap_output_json, e)
    BY <1>0, <1>3, ExecuteRequestEffect
  <2>2. published' = published
    BY <1>3 DEF ExecuteRequest
  <2>3. ASSUME published # NoBatch
        PROVE  FromTheStart(published)
                 /\ IsPrefix(published.swap_output_json, swap_output_json')
    <3>1. FromTheStart(published) /\ IsPrefix(published.swap_output_json, swap_output_json)
      BY <1>0, <2>3 DEF PublishedBefore
    <3>2. published.swap_output_json \in Seq(Entry) /\ swap_output_json \in Seq(Entry)
      BY <1>0, <3>1 DEF FromTheStart, Batch, TypeOK
    <3> QED BY <2>1, <3>1, <3>2, AppendKeeps
  <2> QED BY <2>2, <2>3 DEF PublishedBefore
<1>4. CASE FinalizeBegin
  BY <1>1, <1>4 DEF FinalizeBegin
<1>5. CASE FinalizeEnd
  <2> DEFINE b == [prev_state_root  |-> RootOf(EmptyMap),
                   new_state_root   |-> RootOf(updated_state_hashes),
                   swap_output_json |-> swap_output_json]
  <2>1. b \in Batch /\ published' = b /\ batch_input' = b /\ UNCHANGED memory
        /\ b # NoBatch /\ b # Torn
    BY <1>0, <1>5, FinalizeEndEffect
  <2>2. BatchFromTheStart'
    BY BatchStep
  <2>3. FromTheStart(b)
    BY <2>1, <2>2 DEF BatchFromTheStart, Complete
  <2>4. swap_output_json' = swap_output_json /\ b.swap_output_json = swap_output_json
    BY <2>1 DEF memory
  <2>5. IsPrefix(swap_output_json, swap_output_json)
    BY <1>0 DEF IsPrefix, TypeOK
  <2> HIDE DEF b
  <2> QED BY <2>1, <2>3, <2>4, <2>5 DEF PublishedBefore
<1>6. CASE Deliver \/ TestPage \/ NotFoundPage \/ Unrouted \/ Respond \/ Restart
  BY <1>1, <1>6 DEF Deliver, TestPage, NotFoundPage, Unrouted, Respond, Restart, memory
<1>7. CASE Exit
  BY <1>7, ExitEffect DEF PublishedBefore
<1>8. CASE UNCHANGED vars
  BY <1>1, <1>8 DEF vars, memory
<1> QED BY <1>2, <1>3, <1>4, <1>5, <1>6, <1>7, <1>8, StepCases

\* Every step preserves that the file is cut short while it is written.
LEMMA TornStep ==
  ASSUME IInv, [Next]_vars
  PROVE  TornWhileWriting'
<1>0. TypeOK /\ SlotsAgree /\ TornWhileWriting
  BY DEF IInv
<1>1. ASSUME UNCHANGED <<stage, batch_input>> PROVE TornWhileWriting'
  BY <1>0, <1>1 DEF TornWhileWriting
<1>2. ASSUME stage' # "write" PROVE TornWhileWriting'
  BY <1>2 DEF TornWhileWriting
<1>3. ASSUME NEW c \in Client, NEW m \in Message, NEW arrived \in BOOLEAN, Send(c, m, arrived)
      PROVE  TornWhileWriting'
  BY <1>1, <1>3 DEF Send
<1>4. ASSUME NEW url \in DOMAIN TypeOf, ExecuteRequest(url) PROVE TornWhileWriting'
  BY <1>0, <1>2, <1>4, ExecuteRequestEffect
<1>5. CASE FinalizeBegin
  BY <1>5 DEF FinalizeBegin, TornWhileWriting
<1>6. CASE FinalizeEnd \/ TestPage \/ NotFoundPage \/ Respond \/ Exit
  BY <1>2, <1>6 DEF FinalizeEnd, TestPage, NotFoundPage, Respond, Exit, Answer
<1>7. CASE Deliver \/ Unrouted \/ Restart
  BY <1>1, <1>7 DEF Deliver, Unrouted, Restart
<1>8. CASE UNCHANGED vars
  BY <1>1, <1>8 DEF vars
<1> QED BY <1>3, <1>4, <1>5, <1>6, <1>7, <1>8, StepCases

\* Every step preserves that acknowledged requests are recorded.
LEMMA AckedStep ==
  ASSUME IInv, [Next]_vars
  PROVE  AckedRecorded'
<1>0. TypeOK /\ SlotsAgree /\ AckedRecorded /\ ReplyTrue
  BY DEF IInv
<1>1. ASSUME UNCHANGED <<acked, swap_output_json>> PROVE AckedRecorded'
  BY <1>0, <1>1 DEF AckedRecorded, Recorded
<1>2. ASSUME NEW c \in Client, NEW m \in Message, NEW arrived \in BOOLEAN, Send(c, m, arrived)
      PROVE  AckedRecorded'
  BY <1>1, <1>2 DEF Send, memory
<1>3. ASSUME NEW url \in DOMAIN TypeOf, ExecuteRequest(url) PROVE AckedRecorded'
  <2>1. PICK e \in Entry : swap_output_json' = Append(swap_output_json, e)
    BY <1>0, <1>3, ExecuteRequestEffect
  <2>2. acked' = acked
    BY <1>3 DEF ExecuteRequest
  <2>3. swap_output_json \in Seq(Entry)
    BY <1>0 DEF TypeOK
  <2>4. ASSUME NEW a \in acked PROVE Recorded(a)'
    <3>1. Recorded(a)
      BY <1>0 DEF AckedRecorded
    <3> QED BY <2>1, <2>3, <3>1, RecordedKept
  <2> QED BY <2>2, <2>4 DEF AckedRecorded
<1>4. CASE FinalizeBegin \/ FinalizeEnd \/ Deliver \/ TestPage \/ NotFoundPage \/ Unrouted \/ Restart
  BY <1>1, <1>4 DEF FinalizeBegin, FinalizeEnd, Deliver, TestPage, NotFoundPage, Unrouted,
                    Restart, memory
<1>5. CASE Respond
  <2> DEFINE m == Head(inbox).message
             a == [request_type |-> TypeOf[m.url], request |-> m.body,
                   commitment   |-> reply.commitment]
  <2>1. stage = "respond" /\ swap_output_json' = swap_output_json
    BY <1>5 DEF Respond, memory
  <2>2. reply.text = "commitment" => Recorded(a)
    BY <1>0, <2>1 DEF ReplyTrue
  <2>3. acked' = IF reply.text = "commitment" THEN acked \union {a} ELSE acked
    BY <1>5 DEF Respond
  <2> HIDE DEF a
  <2>4. \A x \in acked' : Recorded(x)
    BY <1>0, <2>2, <2>3 DEF AckedRecorded
  <2> QED BY <2>1, <2>4 DEF AckedRecorded, Recorded
<1>6. CASE Exit
  BY <1>6, ExitEffect DEF AckedRecorded
<1>7. CASE UNCHANGED vars
  BY <1>1, <1>7 DEF vars, memory
<1> QED BY <1>2, <1>3, <1>4, <1>5, <1>6, <1>7, StepCases

\* Every step preserves that the response about to be sent is true.
LEMMA ReplyStep ==
  ASSUME IInv, [Next]_vars
  PROVE  ReplyTrue'
<1>0. TypeOK /\ SlotsAgree /\ ReplyTrue
  BY DEF IInv
<1>1. ASSUME UNCHANGED <<stage, reply, batch_input, swap_output_json>>,
             stage = "respond" => Head(inbox').message = Head(inbox).message
      PROVE  ReplyTrue'
  BY <1>0, <1>1 DEF ReplyTrue, Recorded
<1>2. ASSUME stage' # "respond" PROVE ReplyTrue'
  BY <1>2 DEF ReplyTrue
<1>3. inbox \in Seq(Queued) /\ (stage # "accept" => running /\ inbox # <<>>)
  BY <1>0 DEF TypeOK, Queued
<1>4. ASSUME NEW c \in Client, NEW m \in Message, NEW arrived \in BOOLEAN, Send(c, m, arrived)
      PROVE  ReplyTrue'
  <2>1. inbox # <<>> => Head(inbox') = Head(inbox)
    BY <1>3, <1>4, SendQueue
  <2>2. UNCHANGED <<stage, reply, batch_input, swap_output_json>>
    BY <1>4 DEF Send, memory
  <2> QED BY <1>1, <1>3, <2>1, <2>2
<1>5. CASE Deliver
  <2>1. Head(inbox').message = Head(inbox).message
    BY <1>3, <1>5, DeliverQueue
  <2>2. UNCHANGED <<stage, reply, batch_input, swap_output_json>>
    BY <1>5 DEF Deliver, memory
  <2> QED BY <1>1, <2>1, <2>2
<1>6. ASSUME NEW url \in DOMAIN TypeOf, ExecuteRequest(url) PROVE ReplyTrue'
  <2> DEFINE m == Head(inbox).message
             n == Len(swap_output_json)
             e == [request_type |-> TypeOf[url], request |-> m.body, state_index |-> n]
             a == [request_type |-> TypeOf[url], request |-> m.body,
                   commitment   |-> HashOf(e)]
  <2>1. /\ m.url = url /\ m.body \in Body
        /\ e \in Entry
        /\ swap_output_json' = Append(swap_output_json, e)
        /\ reply' = Commitment(HashOf(e))
        /\ UNCHANGED inbox
    BY <1>0, <1>6, ExecuteRequestEffect
  <2>2. reply'.text = "commitment" /\ reply'.commitment = HashOf(e) /\ reply' # Finalized
    BY <2>1 DEF Commitment, Finalized
  <2>3. a.commitment = hash_request(a.request_type, a.request)
    BY DEF HashOf
  <2>4. RequestOf(e) = [request_type |-> a.request_type, request |-> a.request]
    BY DEF RequestOf
  <2>5. n + 1 \in DOMAIN swap_output_json' /\ swap_output_json'[n + 1] = e
    BY <1>0, <2>1 DEF TypeOK
  <2> HIDE DEF e
  <2>6. PICK x : x = a
    OBVIOUS
  <2>7. Recorded(x)'
    BY <2>3, <2>4, <2>5, <2>6 DEF Recorded
  <2>8. x = [request_type |-> TypeOf[Head(inbox').message.url],
             request      |-> Head(inbox').message.body,
             commitment   |-> reply'.commitment]
    BY <2>1, <2>2, <2>6
  <2>9. Head(inbox').message.url \in DOMAIN TypeOf /\ Head(inbox').message.body \in Body
    BY <1>6, <2>1
  <2> HIDE DEF m, a
  <2> QED BY <2>2, <2>7, <2>8, <2>9 DEF ReplyTrue
<1>7. CASE FinalizeBegin
  BY <1>2, <1>7 DEF FinalizeBegin
<1>8. CASE FinalizeEnd
  <2> DEFINE b == [prev_state_root  |-> RootOf(EmptyMap),
                   new_state_root   |-> RootOf(updated_state_hashes),
                   swap_output_json |-> swap_output_json]
  <2>1. /\ b # NoBatch /\ b # Torn
        /\ batch_input' = b /\ reply' = Finalized
        /\ UNCHANGED memory
    BY <1>0, <1>8, FinalizeEndEffect
  <2>2. b.swap_output_json = swap_output_json
    OBVIOUS
  <2>3. reply'.text # "commitment"
    BY <2>1 DEF Finalized
  <2> HIDE DEF b
  <2> QED BY <2>1, <2>2, <2>3 DEF ReplyTrue, Complete, memory
<1>9. CASE TestPage \/ NotFoundPage
  <2>1. reply' = Greetings \/ reply' = NotFound
    BY <1>9 DEF TestPage, NotFoundPage, Answer
  <2>2. reply'.text = "greetings" \/ reply'.text = "not found"
    <3>1. Greetings.text = "greetings" /\ NotFound.text = "not found"
      BY DEF Greetings, NotFound
    <3> QED BY <2>1, <3>1
  <2>3. Finalized.text = "finalized"
    BY DEF Finalized
  <2> QED BY <2>2, <2>3 DEF ReplyTrue
<1>10. CASE Unrouted
  BY <1>2, <1>10 DEF Unrouted
<1>11. CASE Respond \/ Exit
  BY <1>2, <1>11 DEF Respond, Exit
<1>12. CASE Restart
  BY <1>2, <1>3, <1>12 DEF Restart
<1>13. CASE UNCHANGED vars
  BY <1>1, <1>13 DEF vars, memory
<1> QED BY <1>4, <1>5, <1>6, <1>7, <1>8, <1>9, <1>10, <1>11, <1>12, <1>13, StepCases
-----------------------------------------------------------------------------
\* The state after start satisfies the invariant.
LEMMA InitIInv == Init => IInv
<1> SUFFICES ASSUME Init PROVE IInv
  OBVIOUS
<1>1. /\ running = TRUE /\ inbox = <<>> /\ stage = "accept" /\ reply = NoReply
      /\ response = [c \in Client |-> NoReply] /\ state_tree = new
      /\ updated_state_hashes = EmptyMap /\ swap_output_json = <<>>
      /\ batch_input = NoBatch /\ acked = {} /\ published = NoBatch
  BY DEF Init
<1>2. DOMAIN updated_state_hashes = {}
  BY <1>1 DEF EmptyMap
<1>3. NoReply \in Reply
  BY DEF Reply
<1>4. TypeOK
  <2>1. state_tree \in TreeValue
    BY <1>1 DEF new, TreeValue
  <2>2. /\ inbox \in Seq([client : Client, message : Message, arrived : BOOLEAN])
        /\ swap_output_json \in Seq(Entry)
    BY <1>1
  <2> QED BY <1>1, <1>2, <1>3, <2>1, <2>2 DEF TypeOK, Complete
<1>5. SlotsAgree
  <2>1. 0..(Len(<<>>) - 1) = {} /\ Len(<<>>) = 0 /\ DOMAIN <<>> = {}
    OBVIOUS
  <2>2. [k \in DOMAIN <<>> |-> HashOf(<<>>[k])] = <<>>
    BY <2>1
  <2> QED BY <1>1, <1>2, <2>1, <2>2 DEF SlotsAgree, new
<1>6. BatchFromTheStart /\ PublishedBefore
  BY <1>1 DEF BatchFromTheStart, PublishedBefore, Complete
<1>7. TornWhileWriting /\ AckedRecorded /\ ReplyTrue
  BY <1>1 DEF TornWhileWriting, AckedRecorded, ReplyTrue
<1> QED BY <1>4, <1>5, <1>6, <1>7 DEF IInv

\* Every step preserves the invariant.
LEMMA NextIInv == IInv /\ [Next]_vars => IInv'
BY TypeStep, SlotsAgreeStep, BatchStep, PublishedStep, TornStep, AckedStep, ReplyStep DEF IInv

(***************************************************************************)
(* The server's state always has its type: in particular the loop writes   *)
(* or responds only while the process is up and a request is being served. *)
(***************************************************************************)
THEOREM TypeCorrect == Spec => []TypeOK
<1>1. IInv => TypeOK
  BY DEF IInv
<1> QED BY InitIInv, NextIInv, <1>1, PTL DEF Spec

(***************************************************************************)
(* Leaf table, updated_state_hashes and swap_output_json, kept under three *)
(* different locks, always tell of the same requests in the same slots.    *)
(***************************************************************************)
THEOREM SlotsAlwaysAgree == Spec => []SlotsAgree
<1>1. IInv => SlotsAgree
  BY DEF IInv
<1> QED BY InitIInv, NextIInv, <1>1, PTL DEF Spec

\* How the two roots of a batch read.
LEMMA BatchRoots ==
  ASSUME NEW b, FromTheStart(b), NEW i \in 0..(Capacity - 1)
  PROVE  /\ b.prev_state_root[i] = Zero
         /\ b.new_state_root[i] = IF i < Len(b.swap_output_json)
                                  THEN HashOf(b.swap_output_json[i + 1]) ELSE Zero
<1>1. DOMAIN EmptyMap = {}
  BY DEF EmptyMap
<1> QED BY <1>1 DEF FromTheStart, RootOf, LeavesFrom

(***************************************************************************)
(* Replaying the requests of a complete batch file on its previous root    *)
(* always gives its new root, as long as they fit the tree.                *)
(***************************************************************************)
THEOREM BatchesAlwaysReplay == Spec => []BatchReplays
<1>1. ASSUME BatchFromTheStart PROVE BatchReplays
  <2> SUFFICES ASSUME Complete(batch_input), Len(batch_input.swap_output_json) <= Capacity
               PROVE  LET es   == batch_input.swap_output_json
                          prev == batch_input.prev_state_root
                          next == batch_input.new_state_root
                      IN  /\ \A k \in DOMAIN es :
                               /\ es[k].state_index < Capacity
                               /\ prev[es[k].state_index] = Zero
                               /\ next[es[k].state_index] = HashOf(es[k])
                          /\ \A j, k \in DOMAIN es :
                               es[j].state_index = es[k].state_index => j = k
                          /\ \A i \in 0..(Capacity - 1) :
                               (\A k \in DOMAIN es : es[k].state_index # i) => next[i] = prev[i]
    BY DEF BatchReplays
  <2> DEFINE es   == batch_input.swap_output_json
             prev == batch_input.prev_state_root
             next == batch_input.new_state_root
  <2>1. FromTheStart(batch_input)
    BY <1>1 DEF BatchFromTheStart
  <2>2. es \in Seq(Entry)
    BY <2>1 DEF FromTheStart, Batch
  <2>3. /\ Len(es) \in Nat /\ DOMAIN es = 1..Len(es) /\ Capacity \in Nat
        /\ Len(es) <= Capacity
    BY <2>2, ServerAssumption
  <2>4. \A k \in 1..Len(es) : es[k].state_index = k - 1
    BY <2>1, <2>3 DEF FromTheStart
  <2>5. \A i \in 0..(Capacity - 1) :
          prev[i] = Zero /\ next[i] = IF i < Len(es) THEN HashOf(es[i + 1]) ELSE Zero
    BY <2>1, BatchRoots
  <2> HIDE DEF es, prev, next
  <2>6. ASSUME NEW k \in 1..Len(es)
        PROVE  /\ es[k].state_index < Capacity
               /\ prev[es[k].state_index] = Zero
               /\ next[es[k].state_index] = HashOf(es[k])
    <3>1. k - 1 \in 0..(Capacity - 1) /\ k - 1 < Len(es) /\ (k - 1) + 1 = k
      BY <2>3
    <3>2. prev[k - 1] = Zero /\ next[k - 1] = HashOf(es[k])
      BY <2>5, <3>1
    <3> QED BY <2>3, <2>4, <3>1, <3>2
  <2>7. ASSUME NEW j \in 1..Len(es), NEW k \in 1..Len(es), es[j].state_index = es[k].state_index
        PROVE  j = k
    BY <2>3, <2>4, <2>7
  <2>8. ASSUME NEW i \in 0..(Capacity - 1), \A k \in 1..Len(es) : es[k].state_index # i
        PROVE  next[i] = prev[i]
    <3>1. ~(i < Len(es))
      <4>1. SUFFICES ASSUME i < Len(es) PROVE FALSE
        OBVIOUS
      <4>2. i + 1 \in 1..Len(es) /\ (i + 1) - 1 = i
        BY <2>3, <4>1
      <4> QED BY <2>4, <2>8, <4>2
    <3> QED BY <2>5, <3>1
  <2> QED BY <2>3, <2>6, <2>7, <2>8 DEF es, prev, next
<1>2. IInv => BatchReplays
  BY <1>1 DEF IInv
<1> QED BY InitIInv, NextIInv, <1>2, PTL DEF Spec

\* Only the loop tells a waiting client that its batch is finalized.
LEMMA FinalizedByRespond ==
  ASSUME IInv, Next, NEW c \in Client, response[c] = Waiting, response'[c] = Finalized
  PROVE  Respond /\ reply = Finalized
<1>0. TypeOK /\ SlotsAgree /\ response \in [Client -> Reply \union {Waiting, Closed, Dropped}]
  BY DEF IInv, TypeOK
<1>1. Finalized # Waiting /\ Finalized # Closed /\ Finalized # Dropped
  BY DEF Finalized, Waiting, Closed, Dropped
<1>2. ASSUME UNCHANGED response PROVE FALSE
  BY <1>1, <1>2
<1>3. ASSUME NEW d \in Client, NEW m \in Message, NEW arrived \in BOOLEAN, Send(d, m, arrived)
      PROVE  FALSE
  <2>1. response' = [response EXCEPT ![d] = Waiting]
    BY <1>3 DEF Send
  <2> QED BY <1>0, <1>1, <2>1
<1>4. ASSUME NEW url \in DOMAIN TypeOf, ExecuteRequest(url) PROVE FALSE
  BY <1>2, <1>4 DEF ExecuteRequest
<1>5. CASE Deliver \/ FinalizeBegin \/ FinalizeEnd \/ TestPage \/ NotFoundPage \/ Restart
  BY <1>2, <1>5 DEF Deliver, FinalizeBegin, FinalizeEnd, TestPage, NotFoundPage, Restart
<1>6. CASE Unrouted
  <2>1. response' = [response EXCEPT ![Head(inbox).client] = Dropped]
    BY <1>6 DEF Unrouted
  <2> QED BY <1>0, <1>1, <2>1
<1>7. CASE Respond
  <2>1. response' = [response EXCEPT ![Head(inbox).client] = reply]
    BY <1>7 DEF Respond
  <2> QED BY <1>0, <1>1, <1>7, <2>1
<1>8. CASE Exit
  <2>1. response' = [d \in Client |-> IF response[d] = Waiting THEN Closed ELSE response[d]]
    BY <1>8, ExitEffect
  <2> QED BY <1>1, <2>1
<1>9. CASE UNCHANGED vars
  BY <1>2, <1>9 DEF vars
<1> QED BY <1>3, <1>4, <1>5, <1>6, <1>7, <1>8, <1>9, StepCases

(***************************************************************************)
(* Whoever is told that a batch is finalized finds in the file every       *)
(* request acknowledged before, under the commitment its sender was given. *)
(***************************************************************************)
THEOREM FinalizedAlwaysCovers == Spec => FinalizedCoversAcked
<1> DEFINE Good ==
      \A c \in Client :
        response[c] = Waiting /\ response'[c] = Finalized =>
          /\ Complete(batch_input')
          /\ \A a \in acked : \E k \in DOMAIN batch_input'.swap_output_json :
               LET e == batch_input'.swap_output_json[k]
               IN  /\ RequestOf(e) = [request_type |-> a.request_type, request |-> a.request]
                   /\ e.state_index < Capacity =>
                        batch_input'.new_state_root[e.state_index] = a.commitment
<1>1. ASSUME IInv, Next PROVE Good
  <2> SUFFICES ASSUME NEW c \in Client, response[c] = Waiting, response'[c] = Finalized
               PROVE  /\ Complete(batch_input')
                      /\ \A a \in acked : \E k \in DOMAIN batch_input'.swap_output_json :
                           LET e == batch_input'.swap_output_json[k]
                           IN  /\ RequestOf(e) = [request_type |-> a.request_type,
                                                  request      |-> a.request]
                               /\ e.state_index < Capacity =>
                                    batch_input'.new_state_root[e.state_index] = a.commitment
    OBVIOUS
  <2> DEFINE es == swap_output_json
  <2>1. Respond /\ reply = Finalized
    BY <1>1, FinalizedByRespond
  <2>2. batch_input' = batch_input /\ stage = "respond"
    BY <2>1 DEF Respond
  <2>3. Complete(batch_input) /\ batch_input.swap_output_json = es
    BY <1>1, <2>1, <2>2 DEF IInv, ReplyTrue
  <2>4. FromTheStart(batch_input)
    BY <1>1, <2>3 DEF IInv, BatchFromTheStart
  <2>5. Len(es) \in Nat /\ DOMAIN es = 1..Len(es) /\ Capacity \in Nat
    BY <1>1, ServerAssumption DEF IInv, TypeOK
  <2>6. \A k \in 1..Len(es) : es[k].state_index = k - 1
    BY <2>3, <2>4, <2>5 DEF FromTheStart
  <2>7. \A i \in 0..(Capacity - 1) :
          batch_input.new_state_root[i] = IF i < Len(es) THEN HashOf(es[i + 1]) ELSE Zero
    BY <2>3, <2>4, BatchRoots
  <2>8. ASSUME NEW a \in acked
        PROVE  \E k \in DOMAIN es :
                 /\ RequestOf(es[k]) = [request_type |-> a.request_type, request |-> a.request]
                 /\ es[k].state_index < Capacity =>
                      batch_input.new_state_root[es[k].state_index] = a.commitment
    <3>1. Recorded(a)
      BY <1>1 DEF IInv, AckedRecorded
    <3>2. PICK k \in DOMAIN es :
            RequestOf(es[k]) = [request_type |-> a.request_type, request |-> a.request]
      BY <3>1 DEF Recorded
    <3>3. es[k].request_type = a.request_type /\ es[k].request = a.request
      BY <3>2 DEF RequestOf
    <3>4. HashOf(es[k]) = a.commitment
      BY <3>1, <3>3 DEF HashOf, Recorded
    <3> HIDE DEF es
    <3>5. es[k].state_index < Capacity =>
            batch_input.new_state_root[es[k].state_index] = a.commitment
      <4>1. es[k].state_index = k - 1 /\ k - 1 < Len(es) /\ (k - 1) + 1 = k /\ k \in Nat
        BY <2>5, <2>6
      <4>2. k - 1 < Capacity => k - 1 \in 0..(Capacity - 1)
        BY <2>5, <4>1
      <4> QED BY <2>7, <3>4, <4>1, <4>2
    <3> QED BY <3>2, <3>5
  <2> QED BY <2>2, <2>3, <2>8
<1>2. IInv /\ [Next]_vars => [Good]_vars
  BY <1>1
<1>3. Spec => [][Good]_vars
  BY InitIInv, NextIInv, <1>2, PTL DEF Spec
<1> QED BY <1>3 DEF FinalizedCoversAcked

(***************************************************************************)
(* While the process is up no request drops out: every batch extends the   *)
(* requests and keeps the leaves of the batch before it.                   *)
(***************************************************************************)
THEOREM BatchesAlwaysAccumulate == Spec => BatchesAccumulate
<1> DEFINE Good ==
      published' # published /\ published # NoBatch /\ published' # NoBatch =>
        /\ IsPrefix(published.swap_output_json, published'.swap_output_json)
        /\ \A i \in 0..(Capacity - 1) :
             published.new_state_root[i] # Zero =>
               published'.new_state_root[i] = published.new_state_root[i]
<1>1. ASSUME IInv, Next PROVE Good
  <2> SUFFICES ASSUME published' # published, published # NoBatch, published' # NoBatch
               PROVE  /\ IsPrefix(published.swap_output_json, published'.swap_output_json)
                      /\ \A i \in 0..(Capacity - 1) :
                           published.new_state_root[i] # Zero =>
                             published'.new_state_root[i] = published.new_state_root[i]
    OBVIOUS
  <2> DEFINE old == published.swap_output_json
             cur == swap_output_json
  <2>1. FinalizeEnd
    <3>1. ASSUME NEW c \in Client, NEW m \in Message, NEW arrived \in BOOLEAN, Send(c, m, arrived)
          PROVE  FALSE
      BY <3>1 DEF Send
    <3>2. ASSUME NEW url \in DOMAIN TypeOf, ExecuteRequest(url) PROVE FALSE
      BY <3>2 DEF ExecuteRequest
    <3>3. CASE Deliver \/ FinalizeBegin \/ TestPage \/ NotFoundPage \/ Unrouted \/ Respond \/ Restart
      BY <3>3 DEF Deliver, FinalizeBegin, TestPage, NotFoundPage, Unrouted, Respond, Restart
    <3>4. CASE Exit
      BY <3>4, ExitEffect
    <3>5. CASE UNCHANGED vars
      BY <3>5 DEF vars
    <3> QED BY <1>1, <3>1, <3>2, <3>3, <3>4, <3>5, StepCases
  <2>2. /\ published'.swap_output_json = cur
        /\ published'.new_state_root = LeavesFrom(cur)
    BY <1>1, <2>1, FinalizeEndEffect, RootOfRequests DEF IInv
  <2>3. FromTheStart(published) /\ IsPrefix(old, cur)
    BY <1>1 DEF IInv, PublishedBefore
  <2>4. /\ Len(old) \in Nat /\ DOMAIN old = 1..Len(old)
        /\ Len(cur) \in Nat /\ Capacity \in Nat
    BY <1>1, <2>3, ServerAssumption DEF IInv, TypeOK, FromTheStart, Batch
  <2>5. Len(old) <= Len(cur) /\ \A k \in 1..Len(old) : old[k] = cur[k]
    BY <2>3, <2>4 DEF IsPrefix
  <2>6. \A i \in 0..(Capacity - 1) :
          published.new_state_root[i] = IF i < Len(old) THEN HashOf(old[i + 1]) ELSE Zero
    BY <2>3, BatchRoots
  <2> HIDE DEF old, cur
  <2>7. ASSUME NEW i \in 0..(Capacity - 1), published.new_state_root[i] # Zero
        PROVE  LeavesFrom(cur)[i] = published.new_state_root[i]
    <3>1. i < Len(old)
      BY <2>6, <2>7
    <3>2. i + 1 \in 1..Len(old) /\ i < Len(cur)
      BY <2>4, <2>5, <3>1
    <3>3. HashOf(old[i + 1]) = HashOf(cur[i + 1])
      BY <2>5, <3>2
    <3> QED BY <2>6, <3>1, <3>2, <3>3 DEF LeavesFrom
  <2> QED BY <2>2, <2>3, <2>7 DEF old
<1>2. IInv /\ [Next]_vars => [Good]_vars
  BY <1>1
<1>3. Spec => [][Good]_vars
  BY InitIInv, NextIInv, <1>2, PTL DEF Spec
<1> QED BY <1>3 DEF BatchesAccumulate
-----------------------------------------------------------------------------
(***************************************************************************)
(* The refinement of BatchLog.                                             *)
(***************************************************************************)
Requests(es) == [k \in DOMAIN es |-> RequestOf(es[k])]

\* Recording an entry appends its request to the log.
LEMMA RequestsAppend ==
  ASSUME NEW es \in Seq(Entry), NEW e \in Entry
  PROVE  /\ Requests(Append(es, e)) = Append(Requests(es), RequestOf(e))
         /\ RequestOf(e) \in Request
<1> DEFINE n == Len(es)
           l == Requests(Append(es, e))
           r == Append(Requests(es), RequestOf(e))
           rs == Requests(es)
<1>1. /\ n \in Nat /\ DOMAIN es = 1..n /\ \A k \in 1..n : es[k] \in Entry
      /\ Append(es, e) \in Seq(Entry) /\ Len(Append(es, e)) = n + 1
      /\ \A k \in 1..n : Append(es, e)[k] = es[k]
      /\ Append(es, e)[n + 1] = e
  BY AppendProperties
<1>2. DOMAIN Append(es, e) = 1..(n + 1)
  BY <1>1
<1>3. \A x \in Entry : RequestOf(x) \in Request
  BY DEF RequestOf, Request, Entry
<1>4. rs \in Seq(Request) /\ Len(rs) = n
  <2>1. rs \in [1..n -> Request]
    BY <1>1, <1>3 DEF Requests
  <2> HIDE DEF rs
  <2> QED BY <1>1, <2>1, SeqDef
<1>5. l \in Seq(Request) /\ Len(l) = n + 1
  <2>1. \A k \in 1..(n + 1) : Append(es, e)[k] \in Entry
    BY <1>1
  <2>2. l \in [1..(n + 1) -> Request]
    BY <1>2, <1>3, <2>1 DEF Requests
  <2> HIDE DEF l
  <2> QED BY <1>1, <2>2, SeqDef
<1>6. /\ r \in Seq(Request) /\ Len(r) = n + 1
      /\ \A k \in 1..n : r[k] = rs[k]
      /\ r[n + 1] = RequestOf(e)
  <2> HIDE DEF rs
  <2>1. RequestOf(e) \in Request
    BY <1>3
  <2>2. r = Append(rs, RequestOf(e))
    BY DEF rs
  <2> QED BY <1>4, <2>1, <2>2, AppendProperties
<1> HIDE DEF r
<1>7. ASSUME NEW k \in 1..(n + 1) PROVE l[k] = r[k]
  <2>1. l[k] = RequestOf(Append(es, e)[k])
    BY <1>2 DEF Requests
  <2>2. CASE k \in 1..n
    <3>1. r[k] = RequestOf(es[k])
      BY <1>1, <1>6, <2>2 DEF Requests
    <3>2. Append(es, e)[k] = es[k]
      BY <1>1, <2>2
    <3> QED BY <2>1, <3>1, <3>2
  <2>3. CASE k = n + 1
    BY <1>1, <1>6, <2>1, <2>3
  <2> QED BY <1>1, <2>2, <2>3
<1> HIDE DEF l
<1>8. l = r
  BY <1>5, <1>6, <1>7, SeqEqual
<1> QED BY <1>3, <1>8 DEF l, r

\* The leaves a log commits to are those of the entries that hold its requests.
LEMMA LeavesOfRequests ==
  ASSUME NEW es \in Seq(Entry)
  PROVE  Log!LeavesOf(Requests(es)) = LeavesFrom(es)
<1>1. Len(es) \in Nat /\ DOMAIN es = 1..Len(es) /\ Capacity \in Nat
  BY ServerAssumption
<1>2. Len(Requests(es)) = Len(es)
  BY <1>1 DEF Requests
<1>3. \A k \in 1..Len(es) : HashOf(Requests(es)[k]) = HashOf(es[k])
  BY <1>1 DEF Requests, RequestOf, HashOf
<1>4. ASSUME NEW i \in 0..(Capacity - 1)
      PROVE  (IF i < Len(es) THEN HashOf(Requests(es)[i + 1]) ELSE Zero)
               = (IF i < Len(es) THEN HashOf(es[i + 1]) ELSE Zero)
  <2>1. i < Len(es) => i + 1 \in 1..Len(es)
    BY <1>1
  <2> QED BY <1>3, <2>1
<1> QED BY <1>2, <1>4 DEF Log!LeavesOf, LeavesFrom

\* Every step of the server is a step of the log, or changes neither log nor batch.
LEMMA StepRefines ==
  ASSUME IInv, [Next]_vars
  PROVE  [Log!Next]_Log!vars
<1>0. TypeOK /\ SlotsAgree /\ swap_output_json \in Seq(Entry)
  BY DEF IInv, TypeOK
<1>1. ASSUME UNCHANGED <<swap_output_json, batch_input>> PROVE UNCHANGED Log!vars
  BY <1>1 DEF Log!vars
<1>2. ASSUME NEW c \in Client, NEW m \in Message, NEW arrived \in BOOLEAN, Send(c, m, arrived)
      PROVE  UNCHANGED Log!vars
  BY <1>1, <1>2 DEF Send, memory
<1>3. ASSUME NEW url \in DOMAIN TypeOf, ExecuteRequest(url) PROVE Log!Next
  <2>1. PICK e \in Entry : swap_output_json' = Append(swap_output_json, e)
    BY <1>0, <1>3, ExecuteRequestEffect
  <2>2. /\ Requests(swap_output_json') = Append(Requests(swap_output_json), RequestOf(e))
        /\ RequestOf(e) \in Request
    BY <1>0, <2>1, RequestsAppend
  <2>3. batch_input' = batch_input
    BY <1>3 DEF ExecuteRequest
  <2>4. Log!Accept
    BY <2>2, <2>3 DEF Log!Accept, Requests
  <2> QED BY <2>4 DEF Log!Next
<1>4. CASE FinalizeBegin
  <2>1. batch_input' = Torn /\ swap_output_json' = swap_output_json
    BY <1>4 DEF FinalizeBegin
  <2>2. Log!Rewrite
    BY <2>1 DEF Log!Rewrite, Complete
  <2> QED BY <2>2 DEF Log!Next
<1>5. CASE FinalizeEnd
  <2> DEFINE b == [prev_state_root  |-> RootOf(EmptyMap),
                   new_state_root   |-> RootOf(updated_state_hashes),
                   swap_output_json |-> swap_output_json]
  <2>1. /\ stage = "write"
        /\ b # NoBatch /\ b # Torn /\ batch_input' = b
        /\ UNCHANGED memory
    BY <1>0, <1>5, FinalizeEndEffect
  <2>2. batch_input = Torn
    BY <2>1 DEF IInv, TornWhileWriting
  <2>3. /\ b.swap_output_json = swap_output_json
        /\ b.new_state_root = Log!LeavesOf(Requests(swap_output_json))
    BY <1>0, RootOfRequests, LeavesOfRequests
  <2> HIDE DEF b
  <2>4. Log!Publish
    BY <2>1, <2>2, <2>3 DEF Log!Publish, Complete, Requests, memory
  <2> QED BY <2>4 DEF Log!Next
<1>6. CASE Deliver \/ TestPage \/ NotFoundPage \/ Unrouted \/ Respond \/ Restart
  BY <1>1, <1>6 DEF Deliver, TestPage, NotFoundPage, Unrouted, Respond, Restart, memory
<1>7. CASE Exit
  <2>1. swap_output_json' = <<>> /\ batch_input' = batch_input
    BY <1>7, ExitEffect
  <2>2. Log!Lose
    BY <2>1 DEF Log!Lose
  <2> QED BY <2>2 DEF Log!Next
<1>8. CASE UNCHANGED vars
  BY <1>1, <1>8 DEF vars, memory
<1> QED BY <1>2, <1>3, <1>4, <1>5, <1>6, <1>7, <1>8, StepCases

(***************************************************************************)
(* The server implements BatchLog: what it publishes is always a           *)
(* commitment to all accepted requests in their order of acceptance.       *)
(***************************************************************************)
THEOREM ServerImplementsLog == Spec => ImplementsLog
<1>1. Init => Log!Init
  BY DEF Init, Log!Init, Complete
<1>2. IInv /\ [Next]_vars => [Log!Next]_Log!vars
  BY StepRefines
<1> QED BY InitIInv, NextIInv, <1>1, <1>2, PTL DEF Spec, ImplementsLog, Log!Spec
===============================================================================
