--------------------------- MODULE SettlementProofs ---------------------------
(***************************************************************************)
(* Theorems about Settlement: its type invariant, that no request settles  *)
(* more often than it was registered, that no output of the program        *)
(* settles, that the payments the contract remembers are covered, and that *)
(* the program and the server agree on the leaf of a dataset.              *)
(***************************************************************************)
EXTENDS Settlement, EnumerationLemmas

-----------------------------------------------------------------------------
(***************************************************************************)
(* The inductive invariant.  A key that is open can settle once more, so   *)
(* the registrations must cover it beside the settlements there were.  For *)
(* a deletion to close a key, the contract must hold it under its own id   *)
(* (TypeOK).  OutputSound says what the program puts out for a batch of    *)
(* the server, which has no public keys.                                   *)
(***************************************************************************)
Open(key) == \E id \in Id : requestKeys[id] = key

Accounted ==
  \A key \in RealKey :
    settled[key] + (IF Open(key) THEN 1 ELSE 0) <= registered[key]

BatchSound(b) ==
  /\ b.log \in Seq(Request)
  /\ b.leaves = Server!LeavesOf(b.log)

BatchFromLog == batch \notin {NoBatch, Torn} => BatchSound(batch)

\* What the program puts out for one request of a batch.
Unkeyed(o) == o.requestId \in Id /\ o.publicKey = 0 /\ o.requestCommitment # NoCommitment

OutputSound ==
  proof # NoProof =>
    /\ BatchSound(proof.batch)
    /\ proof.output # <<>> => 1 \in DOMAIN proof.output
    /\ \A k \in DOMAIN proof.output : Unkeyed(proof.output[k])

SettlementInv == TypeOK /\ Accounted /\ BatchFromLog /\ OutputSound /\ PaymentsCovered

-----------------------------------------------------------------------------
\* Every request in the program's output is a request of the batch that has
\* an arm: its id is an id of the contract, its hash is not zero, and as its
\* entry has no public key, the program took zero for it.
LEMMA ProgramOutputSound ==
  ASSUME NEW b, b.log \in Seq(Request)
  PROVE  /\ ProgramOutput(b) # <<>> => 1 \in DOMAIN ProgramOutput(b)
         /\ \A k \in DOMAIN ProgramOutput(b) : Unkeyed(ProgramOutput(b)[k])
<1> DEFINE Entry == [request : Request, state_index : Int]
           json == Json(b)
           K == {j \in DOMAIN json : json[j].request.request_type \in Arms}
           v == Verified(json)
<1>1. b.log \in [1..Len(b.log) -> Request] /\ Len(b.log) \in Nat /\ DOMAIN b.log = 1..Len(b.log)
  OBVIOUS
<1>2. json \in [1..Len(b.log) -> Entry]
  BY <1>1 DEF Json
<1>3. json \in Seq(Entry)
  <2> HIDE DEF json, Entry
  <2> QED BY <1>1, <1>2, SeqDef
<1>4. v \in Seq({json[j] : j \in K}) /\ Elements(v) = {json[j] : j \in K}
  <2> HIDE DEF Entry
  <2> QED BY <1>3, SubsequenceElements DEF Verified
<1>5. DOMAIN ProgramOutput(b) = DOMAIN v
  BY DEF Output, ProgramOutput
<1>6. ASSUME ProgramOutput(b) # <<>> PROVE 1 \in DOMAIN ProgramOutput(b)
  <2> HIDE DEF v, json, K
  <2>1. DOMAIN v = 1..Len(v) /\ Len(v) \in Nat
    BY <1>4
  <2>2. ProgramOutput(b) = [k \in 1..Len(v) |-> ProgramOutput(b)[k]]
    BY <1>5, <2>1 DEF ProgramOutput
  <2>3. Len(v) # 0
    <3> SUFFICES ASSUME Len(v) = 0 PROVE FALSE
      OBVIOUS
    <3>1. 1..0 = {}
      OBVIOUS
    <3> QED BY <1>6, <2>2, <3>1
  <2> QED BY <1>5, <2>1, <2>3
<1>7. ASSUME NEW k \in DOMAIN ProgramOutput(b) PROVE Unkeyed(ProgramOutput(b)[k])
  <2>1. k \in DOMAIN v
    BY <1>5, <1>7
  <2>2. PICK j \in K : v[k] = json[j]
    BY <1>4, <2>1 DEF Elements
  <2>3. j \in 1..Len(b.log) /\ json[j].request.request_type \in Arms
    BY <1>1, <1>2
  <2>4. v[k] \in Entry
    BY <1>2, <2>2, <2>3
  <2>5. v[k].request \in Request /\ v[k].request.request_type \in Arms
    BY <2>2, <2>3, <2>4
  <2>6. public_key(v[k]) = 0
    <3>1. v[k] = [request |-> b.log[j], state_index |-> j - 1]
      BY <1>1, <2>2, <2>3 DEF Json
    <3>2. "public_key" \notin DOMAIN [request |-> b.log[j], state_index |-> j - 1]
      OBVIOUS
    <3> HIDE DEF v
    <3> QED BY <3>1, <3>2 DEF public_key
  <2>7. Output(json)[k] = RequestOutput(v[k]) /\ DOMAIN Output(json) = DOMAIN v
    BY <2>1 DEF Output
  <2>8. /\ ProgramOutput(b)[k].requestId = v[k].request.id
        /\ ProgramOutput(b)[k].publicKey = 0
        /\ ProgramOutput(b)[k].requestCommitment = request_hash(v[k].request)
    BY <2>1, <2>6, <2>7 DEF ProgramOutput, RequestOutput
  <2> QED BY <2>5, <2>8, SettlementAssumption DEF Unkeyed
<1> QED BY <1>6, <1>7

\* A real key in the array is open under its own id, and there once.
LEMMA SettlesOpenKeys ==
  ASSUME TypeOK, NEW n \in Nat, NEW output \in [1..n -> RequestKey], Accepted(output),
         NEW key \in RealKey, NEW k \in 1..n, output[k] = key
  PROVE  /\ key.requestId \in Id
         /\ requestKeys[key.requestId] = key
         /\ {l \in DOMAIN output : output[l] = key} = {k}
<1>1. key.requestId \in Id /\ key # NoKey
  BY DEF RealKey, RequestKey
<1>2. ASSUME NEW l \in 1..n, output[l] = key
      PROVE  /\ requestKeys[key.requestId] = key
             /\ ~ \E j \in 1..(l - 1) : output[j].requestId = key.requestId
  <2>1. KeyAt(output, l) = key
    BY <1>2 DEF Accepted
  <2> QED BY <1>1, <1>2, <2>1 DEF KeyAt
<1>3. ASSUME NEW l \in 1..n, output[l] = key PROVE l = k
  <2>1. ~ (k < l)
    BY <1>2, <1>3
  <2>2. ~ (l < k)
    BY <1>2, <1>3
  <2> QED BY <2>1, <2>2
<1> QED BY <1>1, <1>2, <1>3

\* How often a key is in the array is a number.
LEMMA HitsCounted ==
  ASSUME NEW n \in Nat, NEW output \in [1..n -> RequestKey], NEW key
  PROVE  Cardinality({l \in DOMAIN output : output[l] = key}) \in Nat
<1> DEFINE Hits == {l \in DOMAIN output : output[l] = key}
<1>1. IsFiniteSet(1..n) /\ Hits \subseteq 1..n
  BY FS_Interval
<1>2. IsFiniteSet(Hits)
  BY <1>1, FS_Subset
<1> QED BY <1>2, FS_CardinalityType

-----------------------------------------------------------------------------
(***************************************************************************)
(* Sums over finite functions.  FoldFunction takes the elements of a set   *)
(* in an order that depends on the set alone, so that the sums of two      *)
(* functions on it are taken in the same order.                            *)
(***************************************************************************)
Total(f) == FoldFunction(+, 0, f)

Some(s) == CHOOSE x \in s : TRUE

SumStep(g, f, s) == IF s = {} THEN 0 ELSE f[Some(s)] + g[s \ {Some(s)}]

Upto(S, n) == {s \in SUBSET S : Cardinality(s) <= n}

\* A nonempty set loses one element with the one that is summed first.
LEMMA OneLess ==
  ASSUME NEW S, IsFiniteSet(S), NEW s \in SUBSET S, s # {}
  PROVE  /\ Some(s) \in s /\ s \ {Some(s)} \in SUBSET S
         /\ Cardinality(s) \in Nat \ {0} /\ Cardinality(s \ {Some(s)}) = Cardinality(s) - 1
<1>1. IsFiniteSet(s)
  BY FS_Subset
<1>2. Some(s) \in s
  BY DEF Some
<1>3. Cardinality(s) \in Nat /\ Cardinality(s) # 0
  BY <1>1, FS_CardinalityType, FS_EmptySet
<1>4. Cardinality(s \ {Some(s)}) = Cardinality(s) - 1
  BY <1>1, <1>2, FS_RemoveElement
<1> QED BY <1>2, <1>3, <1>4

\* There is a table of the sums over all subsets.
LEMMA SumTables ==
  ASSUME NEW S, IsFiniteSet(S), NEW f
  PROVE  \E g : g = [s \in SUBSET S |-> SumStep(g, f, s)]
<1> DEFINE Bad == {n \in Nat : ~ \E g : g = [s \in Upto(S, n) |-> SumStep(g, f, s)]}
<1>1. Bad = {}
  <2> SUFFICES ASSUME Bad # {} PROVE FALSE
    OBVIOUS
  <2>1. PICK m \in Bad : \A n \in Bad : m <= n
    BY LeastElement
  <2>2. CASE m = 0
    <3> DEFINE g == [s \in Upto(S, 0) |-> 0]
    <3>1. ASSUME NEW s \in Upto(S, 0) PROVE s = {}
      <4>1. s \in SUBSET S /\ Cardinality(s) <= 0
        BY DEF Upto
      <4>2. s # {} => Cardinality(s) \in Nat \ {0}
        BY <4>1, OneLess
      <4> QED BY <4>1, <4>2
    <3>2. g = [s \in Upto(S, 0) |-> SumStep(g, f, s)]
      BY <3>1 DEF SumStep
    <3> QED BY <2>1, <2>2, <3>2
  <2>3. CASE m # 0
    <3>1. m \in Nat /\ m - 1 \in Nat /\ m - 1 \notin Bad
      BY <2>1, <2>3
    <3>2. PICK g : g = [s \in Upto(S, m - 1) |-> SumStep(g, f, s)]
      BY <3>1
    <3> DEFINE h == [s \in Upto(S, m) |-> SumStep(g, f, s)]
    <3>3. ASSUME NEW s \in Upto(S, m) PROVE h[s] = SumStep(h, f, s)
      <4>1. CASE s = {}
        BY <4>1 DEF SumStep
      <4>2. CASE s # {}
        <5> DEFINE r == s \ {Some(s)}
        <5>1. r \in Upto(S, m - 1) /\ r \in Upto(S, m)
          BY <3>1, <4>2, OneLess DEF Upto
        <5>2. g[r] = SumStep(g, f, r) /\ h[r] = SumStep(g, f, r)
          BY <3>2, <5>1
        <5>3. h[s] = SumStep(g, f, s)
          OBVIOUS
        <5> HIDE DEF h
        <5> QED BY <4>2, <5>2, <5>3 DEF SumStep
      <4> QED BY <4>1, <4>2
    <3>4. h = [s \in Upto(S, m) |-> SumStep(h, f, s)]
      <4> HIDE DEF h
      <4>1. DOMAIN h = Upto(S, m) /\ h = [s \in Upto(S, m) |-> h[s]]
        BY DEF h
      <4> QED BY <3>3, <4>1
    <3> QED BY <2>1, <3>4
  <2> QED BY <2>2, <2>3
<1>2. Cardinality(S) \in Nat
  BY FS_CardinalityType
<1>3. Upto(S, Cardinality(S)) = SUBSET S
  BY FS_Subset DEF Upto
<1>4. PICK g : g = [s \in Upto(S, Cardinality(S)) |-> SumStep(g, f, s)]
  BY <1>1, <1>2
<1> QED BY <1>3, <1>4

\* The sums over all parts of a domain, and the total among them.
LEMMA SumTable ==
  ASSUME NEW f, IsFiniteSet(DOMAIN f)
  PROVE  \E g : g = [s \in SUBSET (DOMAIN f) |-> SumStep(g, f, s)] /\ Total(f) = g[DOMAIN f]
<1> DEFINE S == DOMAIN f
           t == CHOOSE g : g = [s \in SUBSET S |-> SumStep(g, f, s)]
<1>1. t = [s \in SUBSET S |-> SumStep(t, f, s)]
  BY SumTables
<1>2. Total(f) = t[S]
  BY DEF Total, FoldFunction, FoldFunctionOnSet, MapThenFoldSet, SumStep, Some
<1> QED BY <1>1, <1>2

\* Sums of naturals are naturals, and a function that is zero sums to zero.
LEMMA SumOfNaturals ==
  ASSUME NEW S, IsFiniteSet(S), NEW f \in [S -> Nat]
  PROVE  /\ Total(f) \in Nat
         /\ (\A x \in S : f[x] = 0) => Total(f) = 0
<1>1. PICK g : g = [s \in SUBSET S |-> SumStep(g, f, s)] /\ Total(f) = g[S]
  <2>1. DOMAIN f = S
    OBVIOUS
  <2> QED BY <2>1, SumTable
<1> DEFINE Good(s) == g[s] \in Nat /\ ((\A x \in S : f[x] = 0) => g[s] = 0)
           Bad == {n \in Nat : \E s \in SUBSET S : Cardinality(s) = n /\ ~ Good(s)}
<1>2. Bad = {}
  <2> SUFFICES ASSUME Bad # {} PROVE FALSE
    OBVIOUS
  <2>1. PICK m \in Bad : \A n \in Bad : m <= n
    BY LeastElement
  <2>2. PICK s \in SUBSET S : Cardinality(s) = m /\ ~ Good(s)
    BY <2>1
  <2>3. g[s] = SumStep(g, f, s)
    BY <1>1
  <2>4. s # {}
    BY <2>2, <2>3 DEF SumStep
  <2> DEFINE r == s \ {Some(s)}
  <2>5. Some(s) \in S /\ r \in SUBSET S /\ Cardinality(r) = m - 1 /\ m - 1 \in Nat
    BY <2>2, <2>4, OneLess
  <2>6. Good(r)
    <3>1. m - 1 \notin Bad
      BY <2>1, <2>5
    <3> QED BY <2>5, <3>1
  <2>7. g[s] = f[Some(s)] + g[r]
    BY <2>3, <2>4 DEF SumStep
  <2> HIDE DEF r
  <2>8. f[Some(s)] \in Nat
    BY <2>5
  <2> QED BY <2>2, <2>5, <2>6, <2>7, <2>8
<1>3. Good(S)
  <2>1. Cardinality(S) \in Nat /\ S \in SUBSET S
    BY FS_CardinalityType
  <2> QED BY <1>2, <2>1
<1> QED BY <1>1, <1>3

\* Replacing one value changes the sum by the difference.
LEMMA SumUpdate ==
  ASSUME NEW S, IsFiniteSet(S), NEW f \in [S -> Nat], NEW h \in [S -> Nat], NEW y \in S,
         \A x \in S : x # y => h[x] = f[x]
  PROVE  Total(h) + f[y] = Total(f) + h[y]
<1>1. \A x \in S : x # y => h[x] = f[x]
  OBVIOUS
<1>2. DOMAIN f = S /\ DOMAIN h = S
  OBVIOUS
<1>3. PICK a : a = [s \in SUBSET S |-> SumStep(a, f, s)] /\ Total(f) = a[S]
  BY <1>2, SumTable
<1>4. PICK b : b = [s \in SUBSET S |-> SumStep(b, h, s)] /\ Total(h) = b[S]
  BY <1>2, SumTable
<1> DEFINE Good(s) == /\ a[s] \in Nat /\ b[s] \in Nat
                      /\ IF y \in s THEN b[s] + f[y] = a[s] + h[y] ELSE b[s] = a[s]
           Bad == {n \in Nat : \E s \in SUBSET S : Cardinality(s) = n /\ ~ Good(s)}
<1>5. Bad = {}
  <2> SUFFICES ASSUME Bad # {} PROVE FALSE
    OBVIOUS
  <2>1. PICK m \in Bad : \A n \in Bad : m <= n
    BY LeastElement
  <2>2. PICK s \in SUBSET S : Cardinality(s) = m /\ ~ Good(s)
    BY <2>1
  <2>3. a[s] = SumStep(a, f, s) /\ b[s] = SumStep(b, h, s)
    BY <1>3, <1>4
  <2>4. s # {}
    BY <2>2, <2>3 DEF SumStep
  <2> DEFINE c == Some(s)
             r == s \ {c}
  <2>5. c \in s /\ c \in S /\ r \in SUBSET S /\ Cardinality(r) = m - 1 /\ m - 1 \in Nat
    BY <2>2, <2>4, OneLess
  <2>6. Good(r)
    <3>1. m - 1 \notin Bad
      BY <2>1, <2>5
    <3> QED BY <2>5, <3>1
  <2>7. a[s] = f[c] + a[r] /\ b[s] = h[c] + b[r]
    BY <2>3, <2>4 DEF SumStep
  <2>8. f[c] \in Nat /\ h[c] \in Nat /\ f[y] \in Nat
    BY <1>1, <2>5
  <2>9. c \notin r /\ (y # c => (y \in r <=> y \in s))
    OBVIOUS
  <2> HIDE DEF c, r
  <2>10. CASE c = y
    BY <1>1, <2>2, <2>5, <2>6, <2>7, <2>8, <2>9, <2>10
  <2>11. CASE c # y
    <3>1. h[c] = f[c]
      BY <1>1, <2>5, <2>11
    <3> QED BY <2>2, <2>6, <2>7, <2>8, <2>9, <2>11, <3>1
  <2> QED BY <2>10, <2>11
<1>6. Good(S)
  <2>1. Cardinality(S) \in Nat /\ S \in SUBSET S
    BY FS_CardinalityType
  <2> QED BY <1>5, <2>1
<1> QED BY <1>3, <1>4, <1>6

\* The total after a payment of one user changed.
LEMMA SumUpdateIds ==
  ASSUME NEW f \in [Id -> Nat], NEW h \in [Id -> Nat], NEW y \in Id,
         \A x \in Id : x # y => h[x] = f[x]
  PROVE  Total(h) + f[y] = Total(f) + h[y]
<1>1. IsFiniteSet(Id)
  BY ContractAssumption
<1> QED BY <1>1, SumUpdate

\* What the contract remembers of all payments.
Remembered == Total([id \in Id |-> Total(payments[id])])

\* It grows by no more than the payment.
LEMMA PaymentSum ==
  ASSUME payments \in [Id -> [User -> Nat]], NEW id \in Id, NEW u \in User, NEW amount \in Nat,
         payments' = [payments EXCEPT ![id][u] = amount]
  PROVE  Remembered \in Nat /\ Remembered' \in Nat /\ Remembered' <= Remembered + amount
<1> DEFINE s == [i \in Id |-> Total(payments[i])]
           p == payments[id]
           q == [p EXCEPT ![u] = amount]
<1> USE ContractAssumption
<1>1. ASSUME NEW i \in Id PROVE Total(payments[i]) \in Nat
  <2>1. payments[i] \in [User -> Nat]
    OBVIOUS
  <2> QED BY <2>1, SumOfNaturals
<1>2. s \in [Id -> Nat] /\ s[id] = Total(p)
  BY <1>1
<1>3. p \in [User -> Nat] /\ q \in [User -> Nat] /\ p[u] \in Nat
  OBVIOUS
<1> HIDE DEF q
<1>4. Total(q) + p[u] = Total(p) + amount /\ Total(q) \in Nat /\ Total(p) \in Nat
  <2>1. q[u] = amount /\ \A x \in User : x # u => q[x] = p[x]
    BY <1>3 DEF q
  <2> HIDE DEF p
  <2>2. Total(q) + p[u] = Total(p) + q[u]
    BY <1>3, <2>1, SumUpdate
  <2> QED BY <1>3, <2>1, <2>2, SumOfNaturals
<1> DEFINE t == [i \in Id |-> Total(payments'[i])]
<1>5. t \in [Id -> Nat] /\ t[id] = Total(q) /\ \A x \in Id : x # id => t[x] = s[x]
  <2>1. \A i \in Id : payments'[i] = IF i = id THEN q ELSE payments[i]
    BY DEF q
  <2> QED BY <1>1, <1>4, <2>1
<1>6. Remembered = Total(s) /\ Remembered' = Total(t)
  BY DEF Remembered
<1> HIDE DEF s, t, p
<1>7. Total(t) + s[id] = Total(s) + t[id]
  BY <1>2, <1>5, SumUpdateIds
<1>8. Total(s) \in Nat /\ Total(t) \in Nat
  BY <1>2, <1>5, SumOfNaturals
<1> QED BY <1>2, <1>3, <1>4, <1>5, <1>6, <1>7, <1>8

\* The property, with the two sums it compares.
LEMMA CoveredBySum == PaymentsCovered <=> Remembered <= received + unmoved
BY DEF PaymentsCovered, Remembered, Total

\* A step that pays nothing in keeps the payments covered.
LEMMA CoveredUnpaid ==
  ASSUME PaymentsCovered, UNCHANGED <<payments, received, unmoved>>
  PROVE  PaymentsCovered'
<1>1. Remembered' = Remembered
  BY DEF Remembered
<1>2. Remembered' <= received' + unmoved'
  BY <1>1, CoveredBySum
<1> QED BY <1>2 DEF PaymentsCovered, Remembered, Total

-----------------------------------------------------------------------------
\* Initially nothing is registered and there is no batch.
LEMMA InitInv == SInit => SettlementInv
<1> SUFFICES ASSUME SInit PROVE SettlementInv
  OBVIOUS
<1> USE ContractAssumption, SettlementAssumption DEF SInit, Init, Server!Init
<1>1. NoKey \in RequestKey
  BY DEF NoKey, RequestKey
<1>2. TypeOK
  BY <1>1 DEF TypeOK
<1>3. Accounted
  <2>1. ASSUME NEW key \in RealKey PROVE ~ Open(key)
    BY DEF Open, RealKey
  <2> QED BY <2>1 DEF Accounted
<1>4. BatchFromLog /\ OutputSound
  BY DEF BatchFromLog, OutputSound
<1>5. PaymentsCovered
  <2>1. \A id \in Id : payments[id] = [u \in User |-> 0]
    OBVIOUS
  <2>2. Total([u \in User |-> 0]) = 0
    <3> DEFINE z == [u \in User |-> 0]
    <3>1. z \in [User -> Nat] /\ \A u \in User : z[u] = 0
      OBVIOUS
    <3> HIDE DEF z
    <3> QED BY <3>1, SumOfNaturals
  <2> DEFINE t == [id \in Id |-> Total(payments[id])]
  <2>3. t \in [Id -> Nat] /\ \A id \in Id : t[id] = 0
    BY <2>1, <2>2
  <2>4. Remembered = Total(t)
    BY DEF Remembered
  <2> HIDE DEF t
  <2>5. Total(t) = 0
    BY <2>3, SumOfNaturals
  <2> QED BY <2>4, <2>5, CoveredBySum
<1> QED BY <1>2, <1>3, <1>4, <1>5 DEF SettlementInv

\* A step of the server leaves the contract and the program's output alone.
LEMMA ServerStepInv ==
  ASSUME SettlementInv, ServerStep
  PROVE  SettlementInv'
<1> USE DEF SettlementInv
<1>1. UNCHANGED <<contract, proof>> /\ Server!Next
  BY DEF ServerStep
<1>2. log' \in Seq(Request)
  <2>1. log \in Seq(Request)
    BY DEF TypeOK
  <2>2. CASE Server!Accept
    <3>1. PICK r \in Request : log' = Append(log, r)
      BY <2>2 DEF Server!Accept
    <3> QED BY <2>1, <3>1
  <2>3. CASE Server!Lose
    <3>1. log' = <<>>
      BY <2>3 DEF Server!Lose
    <3> QED BY <3>1
  <2>4. CASE Server!Rewrite \/ Server!Publish
    BY <2>1, <2>4 DEF Server!Rewrite, Server!Publish
  <2> QED BY <1>1, <2>2, <2>3, <2>4 DEF Server!Next
<1>3. TypeOK'
  BY <1>1, <1>2 DEF TypeOK, contract
<1>4. Accounted'
  BY <1>1 DEF Accounted, Open, contract
<1>5. BatchFromLog'
  <2>1. CASE Server!Publish
    <3>1. batch' = [log |-> log, leaves |-> Server!LeavesOf(log)]
      BY <2>1 DEF Server!Publish
    <3> QED BY <3>1 DEF BatchFromLog, BatchSound, TypeOK
  <2>2. CASE Server!Rewrite
    BY <2>2 DEF BatchFromLog, Server!Rewrite
  <2>3. CASE Server!Accept \/ Server!Lose
    BY <2>3 DEF BatchFromLog, BatchSound, Server!Accept, Server!Lose
  <2> QED BY <1>1, <2>1, <2>2, <2>3 DEF Server!Next
<1>6. OutputSound'
  BY <1>1 DEF OutputSound
<1>7. PaymentsCovered'
  BY <1>1, CoveredUnpaid DEF contract
<1> QED BY <1>3, <1>4, <1>5, <1>6, <1>7

\* A run of the program reads a sound batch and outputs what is in it.
LEMMA RunProgramInv ==
  ASSUME SettlementInv, RunProgram
  PROVE  SettlementInv'
<1> USE DEF SettlementInv
<1>1. /\ BatchSound(batch)
      /\ proof' = [batch |-> batch, output |-> ProgramOutput(batch)]
      /\ UNCHANGED <<contract, log, batch>>
  BY DEF RunProgram, BatchFromLog
<1>2. proof'.batch = batch /\ proof'.output = ProgramOutput(batch)
  BY <1>1
<1>3. TypeOK'
  BY <1>1, <1>2 DEF TypeOK, contract, BatchSound
<1>4. Accounted'
  BY <1>1 DEF Accounted, Open, contract
<1>5. BatchFromLog'
  BY <1>1 DEF BatchFromLog
<1>6. OutputSound'
  BY <1>1, <1>2, ProgramOutputSound DEF OutputSound, BatchSound
<1>7. PaymentsCovered'
  BY <1>1, CoveredUnpaid DEF contract
<1> QED BY <1>3, <1>4, <1>5, <1>6, <1>7

\* A registration opens one key and counts it.
LEMMA RegisterInv ==
  ASSUME SettlementInv, NEW g \in Registration, Register(g)
  PROVE  SettlementInv'
<1> USE DEF SettlementInv
<1> DEFINE key == [requestId |-> g.requestId, publicKey |-> g.publicKey,
                   requestCommitment |-> g.commitment]
           call == [requestId |-> g.requestId, sender |-> g.sender,
                    amount |-> g.usdcPayment, token |-> usdcAddress]
<1>1. /\ g.publicKey > 0
      /\ requestKeys' = [requestKeys EXCEPT ![g.requestId] = key]
      /\ g.usdcPayment > 0 => usdcAddress # NoToken
      /\ calls' = IF g.usdcPayment = 0 THEN calls ELSE Append(calls, call)
      /\ registered' = [registered EXCEPT ![key] = @ + 1]
      /\ UNCHANGED <<payments, usdcAddress, received, unmoved, settled, log, batch, proof>>
  BY DEF Register, RegisterRequest, ValidKey, CallTransferFrom
<1>2. /\ g.sender \in User /\ g.publicKey \in Key /\ g.requestId \in Id
      /\ g.commitment \in Commitment /\ g.usdcPayment \in Nat
  BY SettlementAssumption
<1>3. key \in RealKey /\ key \in RequestKey /\ key.requestId = g.requestId /\ key.publicKey > 0
  <2>1. key.publicKey # NoKey.publicKey
    BY <1>1, <1>2, ContractAssumption DEF NoKey
  <2> QED BY <1>1, <1>2, <2>1 DEF RequestKey, RealKey
<1>4. calls' \in Seq(Call)
  <2>1. calls \in Seq(Call) /\ usdcAddress \in Token \union {NoToken}
    BY DEF TypeOK
  <2>2. CASE g.usdcPayment = 0
    BY <1>1, <2>1, <2>2
  <2>3. CASE g.usdcPayment # 0
    <3>1. call \in Call
      BY <1>1, <1>2, <2>1, <2>3 DEF Call
    <3> HIDE DEF call
    <3> QED BY <1>1, <2>1, <2>3, <3>1
  <2> QED BY <2>2, <2>3
<1> HIDE DEF key, call
<1>5. TypeOK'
  <2>1. /\ requestKeys' \in [Id -> RequestKey]
        /\ \A id \in Id : \/ requestKeys'[id] = NoKey
                          \/ requestKeys'[id].requestId = id /\ requestKeys'[id].publicKey > 0
    BY <1>1, <1>2, <1>3 DEF TypeOK
  <2>2. registered' \in [RealKey -> Nat]
    BY <1>1, <1>3 DEF TypeOK
  <2> QED BY <1>1, <1>4, <2>1, <2>2 DEF TypeOK
<1>6. Accounted'
  <2> SUFFICES ASSUME NEW other \in RealKey
               PROVE  settled'[other] + (IF Open(other)' THEN 1 ELSE 0) <= registered'[other]
    BY DEF Accounted
  <2>1. settled'[other] = settled[other] /\ settled[other] \in Nat /\ registered[other] \in Nat
    BY <1>1 DEF TypeOK
  <2>2. settled[other] + (IF Open(other) THEN 1 ELSE 0) <= registered[other]
    BY DEF Accounted
  <2>3. CASE other = key
    <3>1. registered'[other] = registered[other] + 1
      BY <1>1, <1>3, <2>3 DEF TypeOK
    <3> QED BY <2>1, <2>2, <3>1
  <2>4. CASE other # key
    <3>1. registered'[other] = registered[other]
      BY <1>1, <1>3, <2>4 DEF TypeOK
    <3>2. Open(other)' => Open(other)
      BY <1>1, <1>2, <2>4 DEF Open, TypeOK
    <3> QED BY <2>1, <2>2, <3>1, <3>2
  <2> QED BY <2>3, <2>4
<1>7. BatchFromLog' /\ OutputSound'
  BY <1>1 DEF BatchFromLog, OutputSound
<1>8. PaymentsCovered'
  BY <1>1, CoveredUnpaid
<1> QED BY <1>5, <1>6, <1>7, <1>8

\* A payment is remembered when it was moved, or asked of another contract.
LEMMA PayInv ==
  ASSUME SettlementInv, PayRegistered
  PROVE  SettlementInv'
<1> USE DEF SettlementInv
<1> DEFINE call == Last(calls)
<1>1. /\ calls # <<>> /\ calls' = Front(calls)
      /\ payments' = [payments EXCEPT ![call.requestId][call.sender] = call.amount]
      /\ received' = received + IF call.token = Usdc THEN call.amount ELSE 0
      /\ unmoved' = unmoved + IF call.token \in Token \ {Usdc} THEN call.amount ELSE 0
      /\ UNCHANGED <<requestKeys, usdcAddress, registered, settled, log, batch, proof>>
  BY DEF PayRegistered, TransferReturns
<1>2. /\ calls \in Seq(Call) /\ payments \in [Id -> [User -> Nat]]
      /\ received \in Nat /\ unmoved \in Nat
  BY DEF TypeOK
<1>3. call \in Call /\ calls' \in Seq(Call)
  BY <1>1, <1>2 DEF Last, Front
<1>4. call.requestId \in Id /\ call.sender \in User /\ call.amount \in Nat /\ call.token \in Token
  <2> HIDE DEF call
  <2> QED BY <1>3 DEF Call
<1> HIDE DEF call
<1> DEFINE moved == IF call.token = Usdc THEN call.amount ELSE 0
           asked == IF call.token \in Token \ {Usdc} THEN call.amount ELSE 0
           paid  == call.amount
<1>5. moved \in Nat /\ asked \in Nat /\ paid \in Nat /\ moved + asked = paid
  BY <1>4
<1> HIDE DEF moved, asked, paid
<1>6. /\ received' = received + moved /\ unmoved' = unmoved + asked
      /\ received \in Nat /\ unmoved \in Nat
  BY <1>1, <1>2 DEF moved, asked
<1>7. received' \in Nat /\ unmoved' \in Nat /\ received' + unmoved' = (received + unmoved) + paid
  BY <1>5, <1>6
<1>8. payments' \in [Id -> [User -> Nat]]
  <2>1. payments[call.requestId] \in [User -> Nat]
    BY <1>2, <1>4
  <2>2. [payments[call.requestId] EXCEPT ![call.sender] = call.amount] \in [User -> Nat]
    BY <1>4, <2>1
  <2> QED BY <1>1, <1>2, <1>4, <2>2
<1>9. TypeOK'
  BY <1>1, <1>3, <1>7, <1>8 DEF TypeOK
<1>10. Accounted'
  BY <1>1 DEF Accounted, Open
<1>11. BatchFromLog' /\ OutputSound'
  BY <1>1 DEF BatchFromLog, OutputSound
<1>12. PaymentsCovered'
  <2>1. Remembered \in Nat /\ Remembered' \in Nat /\ Remembered' <= Remembered + paid
    BY <1>1, <1>2, <1>4, PaymentSum DEF paid
  <2>2. Remembered <= received + unmoved
    BY CoveredBySum
  <2>3. Remembered' <= received' + unmoved'
    BY <1>5, <1>6, <1>7, <2>1, <2>2
  <2> QED BY <2>3 DEF PaymentsCovered, Remembered, Total
<1> QED BY <1>9, <1>10, <1>11, <1>12

\* A settlement closes every key it settles, whatever array it was given.
LEMMA SettleInv ==
  ASSUME SettlementInv, Settle
  PROVE  SettlementInv'
<1> USE DEF SettlementInv
<1>1. PICK n \in 0..MaxCalldata : \E output \in [1..n -> RequestKey] :
        TransitionState(output) /\ UNCHANGED <<log, batch, proof>>
  BY DEF Settle
<1>2. PICK output \in [1..n -> RequestKey] :
        TransitionState(output) /\ UNCHANGED <<log, batch, proof>>
  BY <1>1
<1> DEFINE Hits(key) == {k \in DOMAIN output : output[k] = key}
<1>3. /\ Accepted(output)
      /\ requestKeys' = [id \in Id |-> IF \E k \in DOMAIN output : output[k].requestId = id
                                       THEN NoKey ELSE requestKeys[id]]
      /\ settled' = [key \in RealKey |-> settled[key] + Cardinality(Hits(key))]
      /\ UNCHANGED <<payments, usdcAddress, calls, received, unmoved, registered>>
      /\ UNCHANGED <<log, batch, proof>>
  BY <1>2 DEF TransitionState, Cleared
<1>4. n \in Nat /\ DOMAIN output = 1..n
  BY SettlementAssumption
<1>5. ASSUME NEW key PROVE Cardinality(Hits(key)) \in Nat
  BY <1>4, HitsCounted
<1> HIDE DEF Hits
<1>6. NoKey \in RequestKey
  BY ContractAssumption DEF NoKey, RequestKey
<1>7. TypeOK'
  <2>1. /\ requestKeys' \in [Id -> RequestKey]
        /\ \A id \in Id : \/ requestKeys'[id] = NoKey
                          \/ requestKeys'[id].requestId = id /\ requestKeys'[id].publicKey > 0
    BY <1>3, <1>6 DEF TypeOK
  <2>2. settled' \in [RealKey -> Nat]
    BY <1>3, <1>5 DEF TypeOK
  <2> QED BY <1>3, <2>1, <2>2 DEF TypeOK
<1>8. Accounted'
  <2> SUFFICES ASSUME NEW key \in RealKey
               PROVE  settled'[key] + (IF Open(key)' THEN 1 ELSE 0) <= registered'[key]
    BY DEF Accounted
  <2>1. /\ settled[key] \in Nat /\ registered[key] \in Nat /\ registered'[key] = registered[key]
        /\ settled'[key] = settled[key] + Cardinality(Hits(key))
    BY <1>3 DEF TypeOK
  <2>2. settled[key] + (IF Open(key) THEN 1 ELSE 0) <= registered[key]
    BY DEF Accounted
  <2>3. Open(key)' => Open(key)
    BY <1>3 DEF Open, RealKey
  <2>4. CASE Hits(key) # {}
    <3>1. PICK k \in 1..n : output[k] = key
      BY <1>4, <2>4 DEF Hits
    <3>2. /\ key.requestId \in Id /\ requestKeys[key.requestId] = key
          /\ Hits(key) = {k}
      BY <1>3, <1>4, <3>1, SettlesOpenKeys DEF Hits
    <3>3. Open(key)
      BY <3>2 DEF Open
    <3>4. ~ Open(key)'
      <4> SUFFICES ASSUME NEW id \in Id, requestKeys'[id] = key PROVE FALSE
        BY DEF Open
      <4>1. key # NoKey
        BY DEF RealKey
      <4>2. requestKeys[id] = key /\ ~ \E j \in DOMAIN output : output[j].requestId = id
        BY <1>3, <4>1
      <4>3. key.requestId = id
        BY <4>1, <4>2 DEF TypeOK
      <4> QED BY <1>4, <3>1, <4>2, <4>3
    <3>5. Cardinality(Hits(key)) = 1
      BY <3>2, FS_Singleton
    <3> QED BY <2>1, <2>2, <3>3, <3>4, <3>5
  <2>5. CASE Hits(key) = {}
    <3>1. Cardinality(Hits(key)) = 0
      BY <2>5, FS_EmptySet
    <3> QED BY <2>1, <2>2, <2>3, <3>1
  <2> QED BY <2>4, <2>5
<1>9. BatchFromLog' /\ OutputSound'
  BY <1>3 DEF BatchFromLog, OutputSound
<1>10. PaymentsCovered'
  BY <1>3, CoveredUnpaid
<1> QED BY <1>7, <1>8, <1>9, <1>10

\* The choice of a token and stuttering concern none of the invariant.
LEMMA TokenInv ==
  ASSUME SettlementInv, SetToken \/ UNCHANGED vars
  PROVE  SettlementInv'
<1> USE DEF SettlementInv
<1>1. /\ usdcAddress' \in Token \union {NoToken}
      /\ UNCHANGED <<requestKeys, payments, calls, received, unmoved, registered, settled,
                    log, batch, proof>>
  BY DEF SetToken, SetUsdcAddress, vars, contract, TypeOK
<1>2. TypeOK'
  BY <1>1 DEF TypeOK
<1>3. Accounted'
  BY <1>1 DEF Accounted, Open
<1>4. BatchFromLog' /\ OutputSound'
  BY <1>1 DEF BatchFromLog, OutputSound
<1>5. PaymentsCovered'
  BY <1>1, CoveredUnpaid
<1> QED BY <1>2, <1>3, <1>4, <1>5

\* The invariant is inductive.
LEMMA SettlementInvariant == Spec => []SettlementInv
<1>1. SInit => SettlementInv
  BY InitInv
<1>2. SettlementInv /\ [Next]_vars => SettlementInv'
  BY ServerStepInv, RunProgramInv, RegisterInv, PayInv, SettleInv, TokenInv DEF Next
<1> QED BY <1>1, <1>2, PTL DEF Spec

-----------------------------------------------------------------------------
(***************************************************************************)
(* Keys, payments and counters always have their types, and a key that the *)
(* contract holds is whole and lies under its own id.                      *)
(***************************************************************************)
THEOREM TypeCorrect == Spec => []TypeOK
<1>1. SettlementInv => TypeOK
  BY DEF SettlementInv
<1> QED BY <1>1, SettlementInvariant, PTL

(***************************************************************************)
(* No request settles more often than it was registered, whatever arrays   *)
(* are passed to transitionState by anyone, on their own or while a token  *)
(* is called, and whatever is registered in between.                       *)
(***************************************************************************)
THEOREM NeverSettledTwice == Spec => []SettledOncePerRegistration
<1>1. SettlementInv => SettledOncePerRegistration
  <2> SUFFICES ASSUME SettlementInv, NEW key \in RealKey
               PROVE  settled[key] <= registered[key]
    BY DEF SettledOncePerRegistration
  <2>1. settled[key] \in Nat /\ registered[key] \in Nat
    BY DEF SettlementInv, TypeOK
  <2>2. settled[key] + (IF Open(key) THEN 1 ELSE 0) <= registered[key]
    BY DEF SettlementInv, Accounted
  <2> QED BY <2>1, <2>2
<1> QED BY <1>1, SettlementInvariant, PTL

(***************************************************************************)
(* The payments that the contract remembers, of all users and ids          *)
(* together, are no more than the USDC moved for it and what contracts     *)
(* other than USDC were asked to move, whatever address is the token's at  *)
(* any time and whatever that contract calls.                              *)
(***************************************************************************)
THEOREM PaymentsAlwaysCovered == Spec => []PaymentsCovered
<1>1. SettlementInv => PaymentsCovered
  BY DEF SettlementInv
<1> QED BY <1>1, SettlementInvariant, PTL

(***************************************************************************)
(* The program and the server hash a dataset to the same leaf.             *)
(***************************************************************************)
THEOREM DatasetLeavesAlwaysAgree == Spec => []DatasetLeavesAgree
<1>1. SettlementInv => DatasetLeavesAgree
  <2> SUFFICES ASSUME SettlementInv, proof # NoProof,
                      NEW k \in DOMAIN proof.batch.log,
                      proof.batch.log[k].request_type = "dataset"
               PROVE  Agrees(update_state(Json(proof.batch)[k]))
    BY DEF DatasetLeavesAgree
  <2> DEFINE r == proof.batch.log[k]
  <2>1. /\ proof.batch.log \in Seq(Request)
        /\ proof.batch.leaves = Server!LeavesOf(proof.batch.log)
    BY DEF SettlementInv, OutputSound, BatchSound
  <2>2. k \in 1..Len(proof.batch.log) /\ Len(proof.batch.log) \in Nat
    BY <2>1
  <2>3. Json(proof.batch)[k] = [request |-> r, state_index |-> k - 1]
    BY DEF Json
  <2>4. /\ update_state(Json(proof.batch)[k]).key = k - 1
        /\ update_state(Json(proof.batch)[k]).new_value = request_hash(r)
    BY <2>3 DEF update_state
  <2>5. request_hash(r) = hash_request(r)
    BY DEF request_hash, hash_request, hash_dataset_req, hash_data_request
  <2>6. ASSUME k - 1 < Capacity PROVE proof.batch.leaves[k - 1] = hash_request(r)
    <3>1. k - 1 \in 0..(Capacity - 1)
      BY <2>2, <2>6, SettlementAssumption
    <3>2. k - 1 < Len(proof.batch.log) /\ (k - 1) + 1 = k
      BY <2>2
    <3> QED BY <2>1, <3>1, <3>2 DEF Server!LeavesOf
  <2> QED BY <2>4, <2>5, <2>6 DEF Agrees
<1> QED BY <1>1, SettlementInvariant, PTL

(***************************************************************************)
(* The contract accepts no output that the program has for a batch of the  *)
(* server, unless it is empty: the keys it holds are not zero, and the     *)
(* all-zero key commits to nothing.                                        *)
(***************************************************************************)
THEOREM NoOutputEverSettles == Spec => []NoOutputSettles
<1>1. SettlementInv => NoOutputSettles
  <2> SUFFICES ASSUME SettlementInv, proof # NoProof, proof.output # <<>>,
                      Accepted(proof.output)
               PROVE  FALSE
    BY DEF NoOutputSettles
  <2> DEFINE o == proof.output[1]
  <2>1. 1 \in DOMAIN proof.output /\ Unkeyed(o)
    BY DEF SettlementInv, OutputSound
  <2>2. KeyAt(proof.output, 1) = o
    BY <2>1 DEF Accepted
  <2>3. requestKeys[o.requestId] = o
    <3>1. 1..(1 - 1) = {}
      OBVIOUS
    <3> QED BY <2>2, <3>1 DEF KeyAt
  <2>4. o = NoKey \/ o.publicKey > 0
    BY <2>1, <2>3 DEF SettlementInv, TypeOK, Unkeyed
  <2>5. o # NoKey
    BY <2>1 DEF NoKey, Unkeyed
  <2> QED BY <2>1, <2>4, <2>5 DEF Unkeyed
<1> QED BY <1>1, SettlementInvariant, PTL
=============================================================================
