---------------------------- MODULE MCPcmStream ----------------------------
(* A sample is the pair of bytes it is made of. *)
EXTENDS PcmStream

BytePairs == (1..Bytes) \X (1..Bytes)
NoChunks == {}
=============================================================================
