----------------------------- MODULE BlockLoan -----------------------------
(***************************************************************************)
(* What the sound driver promises a player about its PCM blocks: a block   *)
(* lent by the pool is queued once, comes back in the order the blocks     *)
(* were queued, and is never lent again while it is queued.  A full queue  *)
(* refuses a block, and the player then loses it; nothing else loses one.  *)
(***************************************************************************)
EXTENDS Sequences, Integers

CONSTANTS Blocks, Room

VARIABLES
  pool,   \* blocks nobody uses
  held,   \* blocks the player fills
  queue   \* blocks handed to the driver, the oldest first

loanVars == <<pool, held, queue>>

LoanInit == pool = Blocks /\ held = {} /\ queue = <<>>

Lend ==
  \E b \in pool : pool' = pool \ {b} /\ held' = held \cup {b} /\ UNCHANGED queue

Return ==
  \E b \in held : pool' = pool \cup {b} /\ held' = held \ {b} /\ UNCHANGED queue

Submit ==
  \E b \in held : queue' = Append(queue, b) /\ held' = held \ {b} /\ UNCHANGED pool

Lose ==
  /\ Len(queue) = Room
  /\ \E b \in held : held' = held \ {b}
  /\ UNCHANGED <<pool, queue>>

Played ==
  /\ queue # <<>>
  /\ queue' = Tail(queue) /\ pool' = pool \cup {Head(queue)} /\ UNCHANGED held

Flush ==
  /\ queue' = <<>>
  /\ pool' = pool \cup {queue[i] : i \in DOMAIN queue}
  /\ UNCHANGED held

LoanNext == Lend \/ Return \/ Submit \/ Lose \/ Played \/ Flush

LoanSpec == LoanInit /\ [][LoanNext]_loanVars
=============================================================================
