------------------------------ MODULE MCSocket ------------------------------
(* Packets are named by their size in bytes: two that share a buffer, one    *)
(* that does not fit into it any more and one that is larger than a buffer.  *)
EXTENDS Socket

SizeOf == [p \in Packet |-> p]
=============================================================================
