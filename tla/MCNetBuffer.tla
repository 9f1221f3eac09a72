---------------------------- MODULE MCNetBuffer ----------------------------
(* Small instances of NetBuffer: a ring of 6 units, blocks of 2 (the code:
   320 KB and 4 KB), water marks at 4 and 3 units (90 % and 80 %). *)
EXTENDS NetBuffer
=============================================================================
