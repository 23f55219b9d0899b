------------------------ MODULE MCSnapshotTransfer ------------------------
(* Snapshots of one and of three bytes, sent a byte at a time.              *)
EXTENDS SnapshotTransfer

Bytes == {"a", "b", "c"}
Snapshots == [i \in Index |-> IF i = 1 THEN <<"a">> ELSE <<"a", "c", "b">>]
=============================================================================
