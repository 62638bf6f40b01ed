----------------------------- MODULE MCBatchUpdate -----------------------------
(* Model for TLC.  A hash is a term, so that different pairs hash to         *)
(* different values: a leaf is a one-tuple, the hash of two nodes their pair. *)
EXTENDS BatchUpdate, TLC

MCZero == <<0>>

MCPedersen(a, b) == <<a, b>>

\* A pair, in one chunk or in two, lone left and right children.
FirstBatch  == (0 :> <<1>>) @@ (1 :> <<2>>) @@ (4 :> <<3>>) @@ (7 :> <<1>>)
\* Children whose siblings hold values, and one leaf that is erased.
SecondBatch == (1 :> <<0>>) @@ (5 :> <<4>>) @@ (6 :> <<5>>)
\* Two leaves that share a grandparent only, and a leaf written again.
ThirdBatch  == (0 :> <<1>>) @@ (2 :> <<6>>)

MCBatches == {FirstBatch, SecondBatch, ThirdBatch}

\* A batch that leaves a gap before its only leaf.
GapBatch == {3 :> <<1>>}
=============================================================================
