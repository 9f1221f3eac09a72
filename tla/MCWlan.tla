------------------------------- MODULE MCWlan -------------------------------
(* Small instances of Wlan: a mailbox of 1 (the code: 8). *)
EXTENDS Wlan
=============================================================================
