---------------------------- MODULE MCEmbedding ----------------------------
(***************************************************************************)
(* An instance of Embedding with two threads: t1 makes two calls, one      *)
(* after the other or one inside the other, while t2 makes one.            *)
(***************************************************************************)
EXTENDS Embedding

CONSTANTS t1, t2

TwoAndOne == [t \in Thread |-> IF t = t1 THEN 2 ELSE 1]
=============================================================================
