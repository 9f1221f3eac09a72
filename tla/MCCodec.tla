------------------------------ MODULE MCCodec ------------------------------
(* A small instance of Codec: more blocks than the ring can hold, so that the
   indexes wrap, the ring fills and a block is refused; the code has 5 nodes
   and pools of 2 blocks. *)
EXTENDS Codec
=============================================================================
