------------------------------- MODULE BatchLog -------------------------------
(***************************************************************************)
(* What the prover server promises, without leaf tables, hash maps or      *)
(* files: accepted requests form a log; a finalized batch is the whole     *)
(* log, with a commitment to the hashes of its requests in log order; a    *)
(* batch being rewritten is unreadable; a stop of the server loses the log *)
(* but not the batch.                                                      *)
(***************************************************************************)
EXTENDS Naturals, Sequences

CONSTANTS
  Request,    \* what clients ask to be recorded
  HashOf(_),  \* the hash of a request
  Zero,       \* the value of a leaf that records nothing
  Capacity,   \* number of leaves a commitment covers
  NoBatch,    \* no batch was ever written
  Torn        \* a batch file that is being rewritten

VARIABLES log, batch

vars == <<log, batch>>

\* The leaves that a commitment to a log covers.
LeavesOf(l) ==
  [i \in 0..(Capacity - 1) |-> IF i < Len(l) THEN HashOf(l[i + 1]) ELSE Zero]

Init == log = <<>> /\ batch = NoBatch

Accept == /\ \E r \in Request : log' = Append(log, r)
          /\ UNCHANGED batch

Rewrite == batch' = Torn /\ UNCHANGED log

Publish == /\ batch = Torn
           /\ batch' = [log |-> log, leaves |-> LeavesOf(log)]
           /\ UNCHANGED log

Lose == log' = <<>> /\ UNCHANGED batch

Next == Accept \/ Rewrite \/ Publish \/ Lose

Spec == Init /\ [][Next]_vars
=============================================================================
