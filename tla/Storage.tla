-------------------------------- MODULE Storage --------------------------------
(***************************************************************************)
(* Storage of src/utils/storage.rs: the verifications of a problem in a    *)
(* sled database, numbered from zero, and under a key of its own their     *)
(* count.  store_verification makes two inserts.  sled writes its log to   *)
(* disk on its own, in order, so that a process that stops finds a prefix  *)
(* of its inserts when it opens the database again.                        *)
(***************************************************************************)
EXTENDS Integers, Sequences

CONSTANTS
  Problem,         \* problem ids
  Verification,    \* what is stored
  None,            \* Option::None
  MaxCount         \* bound: verifications of a problem

ASSUME StorageAssumption ==
  None \notin Verification /\ None \notin Nat /\ MaxCount \in Nat

VARIABLES
  db,        \* verification_db: the value of every key
  disk,      \* what is found when the database is opened again
  call,      \* the store_verification in progress
  stored,    \* history: the verifications of every problem whose call returned
  durable    \* history: those that are on disk

vars == <<db, disk, call, stored, durable>>

Entries == 0..MaxCount

Idle == [step |-> "idle", problem_id |-> None, verification |-> None, count |-> None]

\* The keys "<problem>count" and "<problem>-<i>".  Nothing in the repository
\* writes the first count of a problem: it is there or it is not.
Init ==
  /\ \E prepared \in SUBSET Problem :
       db = [p \in Problem |-> [count |-> IF p \in prepared THEN 0 ELSE None,
                                entry |-> [i \in Entries |-> None]]]
  /\ disk = db
  /\ call = Idle
  /\ stored = [p \in Problem |-> <<>>]
  /\ durable = stored

\* The count is unwrapped: without one the call panics and changes nothing.
ReadCount(p, v) ==
  /\ call = Idle
  /\ db[p].count \in 0..(MaxCount - 1)
  /\ call' = [step |-> "entry", problem_id |-> p, verification |-> v, count |-> db[p].count]
  /\ UNCHANGED <<db, disk, stored, durable>>

InsertEntry ==
  /\ call.step = "entry"
  /\ db' = [db EXCEPT ![call.problem_id].entry[call.count] = call.verification]
  /\ call' = [call EXCEPT !.step = "count"]
  /\ UNCHANGED <<disk, stored, durable>>

\* The entry is left where the next one goes.
InsertCount_kept ==
  /\ call.step = "count"
  /\ db' = [db EXCEPT ![call.problem_id].count = call.count]
  /\ call' = Idle
  /\ stored' = [stored EXCEPT ![call.problem_id] = Append(@, call.verification)]
  /\ UNCHANGED <<disk, durable>>

InsertCount ==
  /\ call.step = "count"
  /\ db' = [db EXCEPT ![call.problem_id].count = call.count + 1]
  /\ call' = Idle
  /\ stored' = [stored EXCEPT ![call.problem_id] = Append(@, call.verification)]
  /\ UNCHANGED <<disk, durable>>

\* sled's own thread.
Flush ==
  /\ disk # db
  /\ disk' = db
  /\ durable' = stored
  /\ UNCHANGED <<db, call, stored>>

\* Storage::new opens what is on disk.
Restart ==
  /\ <<db, call>> # <<disk, Idle>>
  /\ db' = disk
  /\ call' = Idle
  /\ stored' = durable
  /\ UNCHANGED <<disk, durable>>

Next ==
  \/ \E p \in Problem, v \in Verification : ReadCount(p, v)
  \/ InsertEntry
  \/ InsertCount
  \/ Flush
  \/ Restart

Spec == Init /\ [][Next]_vars

-----------------------------------------------------------------------------
get_all_verifications(p) == [i \in 1..db[p].count |-> db[p].entry[i - 1]]

(***************************************************************************)
(* Whenever it is asked, after any number of stops between the two         *)
(* inserts and before they reached the disk, get_all_verifications returns *)
(* the verifications whose calls returned and were not lost with the       *)
(* process, once each, in order.                                           *)
(***************************************************************************)
ReadsWhatWasStored ==
  \A p \in Problem : db[p].count # None => get_all_verifications(p) = stored[p]
=============================================================================
