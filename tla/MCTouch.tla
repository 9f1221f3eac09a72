------------------------------ MODULE MCTouch ------------------------------
(* A small instance of Touch: the x axis runs backwards, as with the values of
   the board (0x7bd at the left, 0x20 at the right), and the converter also
   gives values beyond both edges. *)
EXTENDS Touch

MCCalibrations == {[min |-> 1, max |-> 5], [min |-> 1, max |-> 1]}
=============================================================================
