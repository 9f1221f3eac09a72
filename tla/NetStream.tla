----------------------------- MODULE NetStream -----------------------------
(***************************************************************************)
(* What the network buffer promises the decoder, whatever its ring, water  *)
(* marks and semaphores do: the units of a stream come out in the order    *)
(* they were fetched, each at most once, and never before they were        *)
(* fetched.  The end of a job may drop the units nobody has read yet.      *)
(***************************************************************************)
EXTENDS Integers

VARIABLES
  fetched,    \* units of this stream the buffer has accepted
  delivered,  \* units of this stream handed to the reader
  last        \* the positions of the units the last read returned

streamVars == <<fetched, delivered, last>>

StreamInit == fetched = 0 /\ delivered = 0 /\ last = <<>>

Accept == fetched' > fetched /\ UNCHANGED <<delivered, last>>

Deliver ==
  \E n \in 1 .. (fetched - delivered) :
     /\ last' = [i \in 1 .. n |-> delivered + i - 1]
     /\ delivered' = delivered + n
     /\ UNCHANGED fetched

Restart == fetched' = 0 /\ delivered' = 0 /\ last' = <<>>

StreamNext == Accept \/ Deliver \/ Restart

StreamSpec == StreamInit /\ [][StreamNext]_streamVars
=============================================================================
