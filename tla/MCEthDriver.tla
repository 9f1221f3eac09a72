---------------------------- MODULE MCEthDriver ----------------------------
(* Small instances of EthDriver: the two transmit descriptors of the code, and
   two or three of its four receive descriptors. *)
EXTENDS EthDriver
=============================================================================
