---------------------------- MODULE MCReadIndex ----------------------------
(***************************************************************************)
(* Two clients: one pipelines two reads, the other sends one.              *)
(***************************************************************************)
EXTENDS ReadIndex

Reads == [c \in Client |-> IF c = 3 THEN 2 ELSE 1]
=============================================================================
