---------------------------- MODULE CodecProofs ----------------------------
(***************************************************************************)
(* Theorems about Codec for every ring size and every pool, also a pool    *)
(* larger than the ring.                                                   *)
(***************************************************************************)
EXTENDS Codec, SequenceTheorems, FiniteSetTheorems, TLAPS

(* The fields that are Booleans. *)
Flags ==
  /\ tx_complete \in BOOLEAN /\ ms \in BOOLEAN /\ chip_ms \in BOOLEAN
  /\ i2s \in BOOLEAN /\ nvic \in BOOLEAN /\ tc \in BOOLEAN /\ ms_read \in BOOLEAN

(* The nodes between the indexes hold blocks. *)
Queued(i) ==
  IF read_index <= put_index
    THEN read_index <= i /\ i < put_index
    ELSE read_index <= i \/ i < put_index
NodesFilled == \A i \in 0 .. Nodes - 1 : Queued(i) => data_list[i] # None

(* The player holds a block from Alloc to the end of codec_write. *)
PlayerOwns ==
  pc \in {"decoded", "store", "send", "write", "put"} => own # None

(* Inside codec_write: the interrupt may only have made room. *)
WriteHasRoom == pc = "put" => nxt = Succ(put_index) /\ nxt # read_index

(* Inside codec_close: the DMA is halted and cannot be restarted. *)
CloseHalted == pc = "drain" => dma = None /\ ~tc

(* A player out of the closed state has set the call-back. *)
CallbackSet == pc # "closed" => tx_complete

CodecInv ==
  /\ TypeOK /\ DmaServesHead /\ StreamArmed
  /\ NodesFilled /\ PlayerOwns /\ WriteHasRoom /\ CloseHalted /\ CallbackSet

(* The successor of an index is an index, differs from it, and different
   indexes have different successors. *)
LEMMA SuccFacts ==
  ASSUME NEW i \in 0 .. Nodes - 1
  PROVE  /\ Succ(i) \in 0 .. Nodes - 1 /\ Succ(i) # i
         /\ \A j \in 0 .. Nodes - 1 : Succ(j) = Succ(i) => j = i
  BY NodesAssumption DEF NodesAssumption, Succ

(* The i-th element of the queue is a node between the indexes. *)
LEMMA QueueNodes ==
  ASSUME TypeOK, NEW i \in 1 .. Length
  PROVE  /\ Wrapped(read_index + i - 1) \in 0 .. Nodes - 1
         /\ Queued(Wrapped(read_index + i - 1))
  BY NodesAssumption DEF NodesAssumption, TypeOK, Length, Wrapped, Queued

LEMMA InitInv == Init => CodecInv
<1> SUFFICES ASSUME Init PROVE CodecInv
  OBVIOUS
<1>1. TypeOK
  <2>1. data_list \in [0 .. Nodes - 1 -> Blocks \cup {None}]
    BY DEF Init
  <2>2. Flags
    BY DEF Init, Flags
  <2>3. 0 \in 0 .. Nodes - 1
    BY NodesAssumption DEF NodesAssumption
  <2>4. QED
    BY <2>1, <2>2, <2>3 DEF Init, TypeOK, Flags, PlayerPc
<1>2. NodesFilled
  BY NodesAssumption DEF NodesAssumption, Init, NodesFilled, Queued
<1>3. QED
  BY <1>1, <1>2
  DEF Init, CodecInv, DmaServesHead, StreamArmed, PlayerOwns, WriteHasRoom,
      CloseHalted, CallbackSet, Empty

(* The steps of the player that leave the ring and the DMA alone. *)
LocalStep ==
  \/ Open \/ Fill \/ Alloc \/ Discard \/ RateRead \/ RateStore \/ RateSend
  \/ SameRate \/ WriteCheck \/ CloseCheck \/ CloseMask

LEMMA LocalInv == CodecInv /\ LocalStep => CodecInv'
<1> SUFFICES ASSUME CodecInv, LocalStep PROVE CodecInv'
  OBVIOUS
<1> USE DEF CodecInv, ring, clock, stream, player
<1>1. UNCHANGED <<data_list, read_index, put_index, dma, tc>> /\ pc # "drain"
  BY DEF LocalStep, Open, Fill, Alloc, Discard, RateRead, RateStore, RateSend,
         SameRate, WriteCheck, CloseCheck, CloseMask
<1>2. TypeOK'
  <2>1. Succ(put_index) \in 0 .. Nodes - 1
    BY SuccFacts DEF TypeOK
  <2>2. Flags'
    BY DEF LocalStep, Open, Fill, Alloc, Discard, RateRead, RateStore, RateSend,
           SameRate, WriteCheck, CloseCheck, CloseMask, TypeOK, Flags
  <2>3. nxt' \in 0 .. Nodes - 1 /\ pc' \in PlayerPc
    BY <2>1 DEF LocalStep, Open, Fill, Alloc, Discard, RateRead, RateStore, RateSend,
           SameRate, WriteCheck, CloseCheck, CloseMask, TypeOK, PlayerPc
  <2>4. own' \in Blocks \cup {None} /\ free' \subseteq Blocks
    BY DEF LocalStep, Open, Fill, Alloc, Discard, RateRead, RateStore, RateSend,
           SameRate, WriteCheck, CloseCheck, CloseMask, TypeOK, PlayerOwns
  <2>5. QED
    BY <1>1, <2>2, <2>3, <2>4 DEF TypeOK, Flags
<1>3. DmaServesHead' /\ StreamArmed' /\ NodesFilled'
  BY <1>1 DEF DmaServesHead, StreamArmed, NodesFilled, Queued, Empty
<1>4. PlayerOwns' /\ CloseHalted' /\ CallbackSet'
  BY BlocksAssumption
  DEF BlocksAssumption, LocalStep, Open, Fill, Alloc, Discard, RateRead, RateStore,
      RateSend, SameRate, WriteCheck, CloseCheck, CloseMask, TypeOK, PlayerOwns,
      CloseHalted, CallbackSet
<1>5. WriteHasRoom'
  BY DEF LocalStep, Open, Fill, Alloc, Discard, RateRead, RateStore, RateSend,
         SameRate, WriteCheck, CloseCheck, CloseMask, WriteHasRoom, Refused, Succ
<1>6. QED
  BY <1>2, <1>3, <1>4, <1>5

(* The writer appends a block, and starts the DMA exactly on an empty ring. *)
LEMMA WritePutInv == CodecInv /\ WritePut => CodecInv'
<1> SUFFICES ASSUME CodecInv, WritePut PROVE CodecInv'
  OBVIOUS
<1> USE DEF CodecInv, clock, stream, StartsDma, StartPlaying, EnableClock
<1>1. /\ nxt = Succ(put_index) /\ nxt # read_index /\ own \in Blocks
      /\ nxt \in 0 .. Nodes - 1
  BY DEF WritePut, WriteHasRoom, PlayerOwns, TypeOK
<1>2. Succ(read_index) = nxt <=> Empty
  BY <1>1, SuccFacts DEF TypeOK, Empty
<1>3. ~Empty'
  BY <1>1 DEF WritePut, Empty
<1>4. data_list' = [data_list EXCEPT ![put_index] = own] /\ put_index' = nxt
      /\ read_index' = read_index /\ pc' = "loop" /\ own' = None
  BY DEF WritePut
<1>5. TypeOK'
  <2>1. data_list' \in [0 .. Nodes - 1 -> Blocks \cup {None}]
    BY <1>1, <1>4 DEF TypeOK
  <2>2. QED
    BY <1>1, <2>1 DEF WritePut, TypeOK, PlayerPc
<1>6. DmaServesHead' /\ StreamArmed'
  <2>1. CASE Empty
    BY <1>1, <1>2, <1>3, <1>4, <2>1, BlocksAssumption
    DEF BlocksAssumption, WritePut, DmaServesHead, StreamArmed, Empty, TypeOK
  <2>2. CASE ~Empty
    BY <1>1, <1>2, <1>3, <1>4, <2>2
    DEF WritePut, DmaServesHead, StreamArmed, Empty, TypeOK
  <2>3. QED
    BY <2>1, <2>2
<1>7. NodesFilled'
  BY <1>1, <1>4, NodesAssumption, BlocksAssumption
  DEF NodesAssumption, BlocksAssumption, NodesFilled, Queued, Succ, TypeOK
<1>8. PlayerOwns' /\ WriteHasRoom' /\ CloseHalted' /\ CallbackSet'
  BY <1>4 DEF WritePut, PlayerOwns, WriteHasRoom, CloseHalted, CallbackSet
<1>9. QED
  BY <1>5, <1>6, <1>7, <1>8

LEMMA CloseHaltInv == CodecInv /\ CloseHalt => CodecInv'
<1> SUFFICES ASSUME CodecInv, CloseHalt PROVE CodecInv'
  OBVIOUS
<1> USE DEF CodecInv, ring, player
<1>1. Flags'
  BY DEF CloseHalt, TypeOK, Flags
<1>2. TypeOK'
  BY <1>1 DEF CloseHalt, TypeOK, Flags, PlayerPc
<1>3. QED
  BY <1>2 DEF CloseHalt, DmaServesHead, StreamArmed, NodesFilled, Queued, PlayerOwns,
              WriteHasRoom, CloseHalted, CallbackSet, Empty

(* codec_close leaves the ring empty. *)
LEMMA CloseDrainInv == CodecInv /\ CloseDrain => CodecInv'
<1> SUFFICES ASSUME CodecInv, CloseDrain PROVE CodecInv'
  OBVIOUS
<1> USE DEF CodecInv, clock, stream, player
<1>1. Empty' /\ dma' = None /\ ~tc' /\ pc' = "closed" /\ data_list' = data_list
      /\ read_index' = put_index /\ put_index' = put_index
  BY DEF CloseDrain, CallbackSet, CloseHalted, Empty
<1>2. \A i \in 1 .. Length : Queue[i] \in Blocks
  <2> SUFFICES ASSUME NEW i \in 1 .. Length PROVE Queue[i] \in Blocks
    OBVIOUS
  <2>1. /\ Wrapped(read_index + i - 1) \in 0 .. Nodes - 1
        /\ Queued(Wrapped(read_index + i - 1))
    BY QueueNodes
  <2>2. Queue[i] = data_list[Wrapped(read_index + i - 1)]
    BY DEF Queue
  <2>3. QED
    BY <2>1, <2>2 DEF NodesFilled, TypeOK
<1>3. TypeOK'
  BY <1>1, <1>2 DEF CloseDrain, TypeOK, PlayerPc
<1>4. NodesFilled'
  BY <1>1 DEF NodesFilled, Queued, TypeOK
<1>5. QED
  BY <1>1, <1>3, <1>4
  DEF DmaServesHead, StreamArmed, PlayerOwns, WriteHasRoom, CloseHalted, CallbackSet

(* The hardware finishes the block at read_index. *)
LEMMA DmaDoneInv == CodecInv /\ DmaDone => CodecInv'
<1> SUFFICES ASSUME CodecInv, DmaDone PROVE CodecInv'
  OBVIOUS
<1> USE DEF CodecInv, ring, clock, player
<1>1. Flags'
  BY DEF DmaDone, TypeOK, Flags
<1>2. TypeOK'
  BY <1>1 DEF DmaDone, TypeOK, Flags
<1>3. QED
  BY <1>2 DEF DmaDone, DmaServesHead, StreamArmed, NodesFilled, Queued, PlayerOwns,
              WriteHasRoom, CloseHalted, CallbackSet, Empty

(* The handler gives the head back and arms the next block, if any. *)
LEMMA IsrInv == CodecInv /\ Isr => CodecInv'
<1> SUFFICES ASSUME CodecInv, Isr PROVE CodecInv'
  OBVIOUS
<1> USE DEF CodecInv, player
<1>1. ~Empty /\ dma = None /\ pc # "drain"
  BY DEF Isr, DmaServesHead, CloseHalted
<1>2. /\ read_index' = Succ(read_index) /\ put_index' = put_index
      /\ data_list' = data_list /\ pc' = pc /\ own' = own /\ nxt' = nxt /\ ~tc'
      /\ tx_complete' = tx_complete
  BY DEF Isr
<1>3. Succ(read_index) \in 0 .. Nodes - 1
  BY SuccFacts DEF TypeOK
<1>4. Queued(read_index) /\ (Succ(read_index) # put_index => Queued(Succ(read_index)))
  BY <1>1, NodesAssumption DEF NodesAssumption, Queued, Empty, Succ, TypeOK
<1>5. data_list[read_index] \in Blocks
  BY <1>4 DEF NodesFilled, TypeOK
<1>6. TypeOK'
  BY <1>1, <1>2, <1>3, <1>5 DEF Isr, NextBlock, Silence, Played, TypeOK
<1>7. DmaServesHead' /\ StreamArmed'
  <2>1. CASE Succ(read_index) # put_index /\ NextBlock
    BY <1>2, <1>3, <1>4, <2>1
    DEF NextBlock, DmaServesHead, StreamArmed, Empty, NodesFilled
  <2>2. CASE Succ(read_index) = put_index /\ Silence
    BY <1>1, <1>2, <2>2 DEF Silence, DmaServesHead, StreamArmed, Empty
  <2>3. QED
    BY <2>1, <2>2 DEF Isr
<1>8. NodesFilled'
  BY <1>1, <1>2, NodesAssumption
  DEF NodesAssumption, NodesFilled, Queued, Empty, Succ, TypeOK
<1>9. WriteHasRoom'
  BY <1>1, <1>2, SuccFacts DEF WriteHasRoom, Empty, TypeOK, Succ
<1>10. PlayerOwns' /\ CloseHalted' /\ CallbackSet'
  BY <1>1, <1>2 DEF PlayerOwns, CloseHalted, CallbackSet
<1>11. QED
  BY <1>6, <1>7, <1>8, <1>9, <1>10

(* The conjunction of the ring, the DMA and the program points is inductive. *)
LEMMA StepInv == CodecInv /\ [Next]_vars => CodecInv'
<1> SUFFICES ASSUME CodecInv, [Next]_vars PROVE CodecInv'
  OBVIOUS
<1>1. CASE LocalStep
  BY <1>1, LocalInv
<1>2. CASE WritePut
  BY <1>2, WritePutInv
<1>3. CASE CloseHalt
  BY <1>3, CloseHaltInv
<1>4. CASE CloseDrain
  BY <1>4, CloseDrainInv
<1>5. CASE DmaDone
  BY <1>5, DmaDoneInv
<1>6. CASE Isr
  BY <1>6, IsrInv
<1>7. CASE UNCHANGED vars
  BY <1>7 DEF vars, ring, clock, stream, player, CodecInv, TypeOK, DmaServesHead,
              StreamArmed, NodesFilled, Queued, PlayerOwns, WriteHasRoom, CloseHalted,
              CallbackSet, Empty
<1>8. QED
  BY <1>1, <1>2, <1>3, <1>4, <1>5, <1>6, <1>7 DEF Next, Player, LocalStep

LEMMA CodecSafe == Spec => []CodecInv
  BY InitInv, StepInv, PTL DEF Spec

(* Every field keeps its range: the indexes of data_list stay inside it. *)
THEOREM FieldsTyped == Spec => []TypeOK
<1>1. CodecInv => TypeOK
  BY DEF CodecInv
<1>2. QED
  BY <1>1, CodecSafe, PTL

(* The DMA plays only the oldest queued block, whatever codec_write,
   codec_close and the interrupt handler do around it. *)
THEOREM HeadServed == Spec => []DmaServesHead
<1>1. CodecInv => DmaServesHead
  BY DEF CodecInv
<1>2. QED
  BY <1>1, CodecSafe, PTL

(* No block waits in the ring without a transfer that serves it: codec_write
   and codec_dma_isr never both leave the start to the other. *)
THEOREM StartNeverLost == Spec => []StreamArmed
<1>1. CodecInv => StreamArmed
  BY DEF CodecInv
<1>2. QED
  BY <1>1, CodecSafe, PTL
------------------------------------------------------------------------------
(* The bit MS of r06 and the I2S port. *)

(* The port is off on an empty ring, the bit is set on one that is not, and
   sample_rate reads a cleared bit only while nothing can set it. *)
ClockInv ==
  /\ Empty => ~i2s
  /\ ~Empty => ms \/ pc = "drain"
  /\ pc = "drain" => ~i2s
  /\ pc = "store" /\ ~ms_read => ~ms

LEMMA InitClock == Init => ClockInv
  BY DEF Init, ClockInv, Empty

LEMMA ClockStep ==
  CodecInv /\ ClockInv /\ [Next]_vars
    => ClockInv' /\ (Split' => Split \/ pc = "store")
<1> SUFFICES ASSUME CodecInv, ClockInv, [Next]_vars
             PROVE  ClockInv' /\ (Split' => Split \/ pc = "store")
  OBVIOUS
<1> USE DEF CodecInv, ClockInv, Split, Empty, ring, clock, stream, player
<1>1. CASE LocalStep
  <2>1. UNCHANGED <<read_index, put_index, i2s>> /\ pc # "drain" /\ pc' # "drain"
    BY <1>1 DEF LocalStep, Open, Fill, Alloc, Discard, RateRead, RateStore, RateSend,
                SameRate, WriteCheck, CloseCheck, CloseMask
  <2>2. CASE RateRead
    BY <2>1, <2>2 DEF RateRead
  <2>3. CASE RateStore
    BY <2>1, <2>3 DEF RateStore
  <2>4. CASE ~RateRead /\ ~RateStore
    BY <1>1, <2>1, <2>4
    DEF LocalStep, Open, Fill, Alloc, Discard, RateSend, SameRate, WriteCheck,
        CloseCheck, CloseMask
  <2>5. QED
    BY <2>2, <2>3, <2>4
<1>2. CASE WritePut
  <2>1. Succ(read_index) = nxt <=> Empty
    BY <1>2, SuccFacts DEF WritePut, WriteHasRoom, TypeOK
  <2>2. pc' = "loop" /\ ~Empty'
    BY <1>2 DEF WritePut, WriteHasRoom
  <2>3. QED
    BY <1>2, <2>1, <2>2 DEF WritePut, StartsDma, StartPlaying, EnableClock
<1>3. CASE CloseHalt
  BY <1>3 DEF CloseHalt
<1>4. CASE CloseDrain
  BY <1>4 DEF CloseDrain, CallbackSet
<1>5. CASE DmaDone
  BY <1>5 DEF DmaDone
<1>6. CASE Isr
  <2>1. ~Empty /\ pc # "drain" /\ ms
    BY <1>6 DEF Isr, DmaServesHead, CloseHalted
  <2>2. CASE Succ(read_index) # put_index /\ NextBlock
    BY <1>6, <2>1, <2>2 DEF Isr, NextBlock
  <2>3. CASE Succ(read_index) = put_index /\ Silence
    BY <1>6, <2>1, <2>3 DEF Isr, Silence
  <2>4. QED
    BY <1>6, <2>2, <2>3 DEF Isr
<1>7. CASE UNCHANGED vars
  BY <1>7 DEF vars
<1>8. QED
  BY <1>1, <1>2, <1>3, <1>4, <1>5, <1>6, <1>7 DEF Next, Player, LocalStep

(* Only the store of sample_rate can make r06 say "playing" while the port is
   off, the state in which the next first block is never clocked out. *)
THEOREM SplitOnlyByRateChange == Spec => OnlyRateChangeSplits
<1>1. Spec => []ClockInv
  BY CodecSafe, InitClock, ClockStep, PTL DEF Spec
<1>2. CodecInv /\ ClockInv /\ [Next]_vars => [Split' => Split \/ pc = "store"]_vars
  BY ClockStep
<1>3. QED
  BY <1>1, <1>2, CodecSafe, PTL DEF Spec, OnlyRateChangeSplits
------------------------------------------------------------------------------
(* The loan of blocks. *)

(* The player holds no block elsewhere, and queues none before Open. *)
LoanInv ==
  /\ pc \notin {"decoded", "store", "send", "write", "put"} => own = None
  /\ ~Empty => tx_complete

Elements == Blocks \cup {None}

LEMMA QueueSeq ==
  ASSUME TypeOK
  PROVE  /\ Queue \in Seq(Elements) /\ Len(Queue) = Length /\ Length \in 0 .. Nodes - 1
         /\ \A i \in 1 .. Length : Queue[i] = data_list[Wrapped(read_index + i - 1)]
         /\ Length = 0 <=> Empty
<1>1. Length \in 0 .. Nodes - 1 /\ (Length = 0 <=> Empty)
  BY NodesAssumption DEF NodesAssumption, TypeOK, Length, Wrapped, Empty
<1>2. \A i \in 1 .. Length : data_list[Wrapped(read_index + i - 1)] \in Elements
  BY QueueNodes DEF TypeOK, Elements
<1>3. Length \in Nat
  BY <1>1, NodesAssumption DEF NodesAssumption
<1>4. Queue \in Seq(Elements) /\ Len(Queue) = Length
  BY <1>2, <1>3 DEF Queue
<1>5. QED
  BY <1>1, <1>4 DEF Queue

LEMMA LoanInvStep ==
  CodecInv /\ LoanInv /\ [Next]_vars => LoanInv'
<1> SUFFICES ASSUME CodecInv, LoanInv, [Next]_vars PROVE LoanInv'
  OBVIOUS
<1> USE DEF LoanInv, ring, clock, stream, player, Empty
<1>1. CASE LocalStep
  <2>1. UNCHANGED <<read_index, put_index>> /\ (tx_complete => tx_complete')
    BY <1>1 DEF LocalStep, Open, Fill, Alloc, Discard, RateRead, RateStore, RateSend,
         SameRate, WriteCheck, CloseCheck, CloseMask
  <2>2. pc' \notin {"decoded", "store", "send", "write", "put"} => own' = None
    BY <1>1 DEF LocalStep, Open, Fill, Alloc, Discard, RateRead, RateStore, RateSend,
         SameRate, WriteCheck, CloseCheck, CloseMask
  <2>3. QED
    BY <2>1, <2>2
<1>2. CASE WritePut
  BY <1>2 DEF WritePut, CodecInv, CallbackSet
<1>3. CASE CloseHalt \/ CloseDrain
  BY <1>3 DEF CloseHalt, CloseDrain
<1>4. CASE DmaDone
  BY <1>4 DEF DmaDone
<1>5. CASE Isr
  BY <1>5 DEF Isr, CodecInv, DmaServesHead
<1>6. CASE UNCHANGED vars
  BY <1>6 DEF vars
<1>7. QED
  BY <1>1, <1>2, <1>3, <1>4, <1>5, <1>6 DEF Next, Player, LocalStep

Held == IF own = None THEN {} ELSE {own}

LEMMA QueueKept ==
  ASSUME UNCHANGED ring
  PROVE  Queue' = Queue /\ Length' = Length
  BY DEF ring, Queue, Length

LEMMA LoanLocal ==
  ASSUME CodecInv, LoanInv, LocalStep
  PROVE  Loan!LoanNext \/ (UNCHANGED <<free, own>> /\ Queue' = Queue)
<1>1. Queue' = Queue
  BY QueueKept DEF LocalStep, Open, Fill, Alloc, Discard, RateRead, RateStore, RateSend,
         SameRate, WriteCheck, CloseCheck, CloseMask
<1>2. CASE Alloc
  <2>1. PICK b \in free : own' = b /\ free' = free \ {b}
    BY <1>2 DEF Alloc
  <2>2. own = None /\ b # None
    BY <1>2, BlocksAssumption DEF BlocksAssumption, Alloc, LoanInv, CodecInv, TypeOK
  <2>3. Loan!Lend
    BY <1>1, <2>1, <2>2 DEF Loan!Lend
  <2>4. QED
    BY <2>3 DEF Loan!LoanNext
<1>3. CASE Discard
  <2>1. own # None /\ free' = free \cup {own} /\ own' = None
    BY <1>3 DEF Discard, CodecInv, PlayerOwns
  <2>2. Loan!Return
    BY <1>1, <2>1 DEF Loan!Return
  <2>3. QED
    BY <2>2 DEF Loan!LoanNext
<1>4. CASE WriteCheck
  <2>1. CASE Refused
    <3>1. own # None /\ own' = None /\ free' = free
      BY <1>4, <2>1 DEF WriteCheck, CodecInv, PlayerOwns
    <3>2. Len(Queue) = Nodes - 1
      <4>1. TypeOK
        BY DEF CodecInv
      <4>2. Length = Nodes - 1
        BY <2>1, <4>1, NodesAssumption
        DEF NodesAssumption, TypeOK, Refused, Succ, Length, Wrapped
      <4>3. QED
        BY <4>1, <4>2, QueueSeq
    <3>3. Loan!Lose
      BY <1>1, <3>1, <3>2 DEF Loan!Lose
    <3>4. QED
      BY <3>3 DEF Loan!LoanNext
  <2>2. CASE ~Refused
    BY <1>1, <1>4, <2>2 DEF WriteCheck
  <2>3. QED
    BY <2>1, <2>2
<1>5. CASE Open \/ Fill \/ RateRead \/ RateStore \/ RateSend \/ SameRate \/ CloseCheck \/ CloseMask
  BY <1>1, <1>5 DEF Open, Fill, RateRead, RateStore, RateSend, SameRate, CloseCheck, CloseMask, player
<1>6. QED
  BY <1>2, <1>3, <1>4, <1>5 DEF LocalStep

(* codec_write puts the block behind the others. *)
LEMMA LoanWrite ==
  ASSUME CodecInv, LoanInv, WritePut
  PROVE  Loan!Submit
<1>1. TypeOK /\ TypeOK'
  BY StepInv DEF CodecInv, Next, Player
<1>2. own # None /\ own \in Elements /\ own' = None /\ free' = free
  BY DEF WritePut, CodecInv, PlayerOwns, TypeOK, Elements
<1>3. nxt = Succ(put_index) /\ nxt # read_index /\ put_index' = nxt /\ read_index' = read_index
  BY DEF WritePut, CodecInv, WriteHasRoom
<1>4. Length' = Length + 1 /\ Wrapped(read_index + (Length + 1) - 1) = put_index
  BY <1>1, <1>3, NodesAssumption DEF NodesAssumption, TypeOK, Succ, Length, Wrapped
<1>5. ASSUME NEW i \in 1 .. Length'
      PROVE  Queue'[i] = IF i <= Length THEN Queue[i] ELSE own
  <2>1. Queue'[i] = data_list'[Wrapped(read_index + i - 1)]
    BY <1>1, <1>3, <1>5 DEF Queue, Wrapped
  <2>2. CASE i = Length + 1
    BY <1>1, <1>4, <2>1, <2>2, QueueSeq DEF WritePut, TypeOK
  <2>3. CASE i # Length + 1
    <3>1. i \in 1 .. Length
      BY <1>1, <1>4, <2>3, QueueSeq
    <3>2. Wrapped(read_index + i - 1) # put_index /\ Wrapped(read_index + i - 1) \in 0 .. Nodes - 1
      BY <1>1, <3>1, NodesAssumption DEF NodesAssumption, TypeOK, Length, Wrapped
    <3>3. data_list'[Wrapped(read_index + i - 1)] = data_list[Wrapped(read_index + i - 1)]
      BY <1>1, <3>2 DEF WritePut, TypeOK
    <3>4. QED
      BY <1>1, <2>1, <3>1, <3>3, QueueSeq
  <2>4. QED
    BY <2>2, <2>3
<1>6. Queue' \in Seq(Elements) /\ Len(Queue') = Length + 1
  <2>1. (TypeOK => Queue \in Seq(Elements) /\ Len(Queue) = Length)'
    BY QueueSeq, PTL
  <2>2. QED
    BY <1>1, <1>4, <2>1 DEF Elements
<1>7. Queue' = Append(Queue, own)
  <2>1. Queue \in Seq(Elements) /\ Len(Queue) = Length /\ Length \in Nat
    BY <1>1, QueueSeq, NodesAssumption DEF NodesAssumption
  <2>2. /\ Append(Queue, own) \in Seq(Elements) /\ Len(Append(Queue, own)) = Length + 1
        /\ \A i \in 1 .. Length + 1 : Append(Queue, own)[i] = IF i <= Length THEN Queue[i] ELSE own
    BY <1>2, <2>1
  <2>3. \A i \in 1 .. Len(Queue') : Queue'[i] = Append(Queue, own)[i]
    BY <1>4, <1>5, <1>6, <2>2
  <2>4. QED
    BY <1>6, <2>2, <2>3, SeqEqual
<1>8. QED
  BY <1>2, <1>7 DEF Loan!Submit

(* The interrupt gives the oldest block back. *)
LEMMA LoanPlayed ==
  ASSUME CodecInv, LoanInv, Isr
  PROVE  Loan!Played
<1>1. TypeOK /\ TypeOK' /\ ~Empty /\ tx_complete
  BY StepInv DEF CodecInv, Next, DmaServesHead, Isr, LoanInv
<1>2. read_index' = Succ(read_index) /\ put_index' = put_index /\ data_list' = data_list
      /\ own' = own /\ free' = free \cup {data_list[read_index]}
  BY <1>1 DEF Isr, player, Played
<1>3. Length' = Length - 1 /\ Length \in 1 .. Nodes - 1
  BY <1>1, <1>2, NodesAssumption DEF NodesAssumption, TypeOK, Succ, Length, Wrapped, Empty
<1>4. Queue \in Seq(Elements) /\ Len(Queue) = Length /\ Queue # <<>>
  BY <1>1, <1>3, QueueSeq
<1>5. Head(Queue) = data_list[read_index]
  <2>1. Wrapped(read_index + 1 - 1) = read_index
    BY <1>1, NodesAssumption DEF NodesAssumption, TypeOK, Wrapped
  <2>2. 1 \in 1 .. Length
    BY <1>3, NodesAssumption DEF NodesAssumption
  <2>3. QED
    BY <1>1, <1>4, <2>1, <2>2, QueueSeq
<1>6. Queue' = Tail(Queue)
  <2>1. Queue' \in Seq(Elements) /\ Len(Queue') = Length - 1
    <3>1. (TypeOK => Queue \in Seq(Elements) /\ Len(Queue) = Length)'
      BY QueueSeq, PTL
    <3>2. QED
      BY <1>1, <1>3, <3>1 DEF Elements
  <2>2. /\ Tail(Queue) \in Seq(Elements) /\ Len(Tail(Queue)) = Length - 1
        /\ \A i \in 1 .. Length - 1 : Tail(Queue)[i] = Queue[i + 1]
    BY <1>4, HeadTailProperties
  <2>3. ASSUME NEW i \in 1 .. Length - 1
        PROVE  Queue'[i] = Queue[i + 1]
    <3>1. Queue'[i] = data_list[Wrapped(read_index' + i - 1)]
      BY <1>2, <1>3, <2>3 DEF Queue, Wrapped
    <3>2. Wrapped(read_index' + i - 1) = Wrapped(read_index + (i + 1) - 1)
      BY <1>1, <1>2, <1>3, NodesAssumption DEF NodesAssumption, TypeOK, Succ, Wrapped
    <3>3. i + 1 \in 1 .. Length
      BY <1>3, NodesAssumption DEF NodesAssumption
    <3>4. QED
      BY <1>1, <3>1, <3>2, <3>3, QueueSeq
  <2>4. \A i \in 1 .. Len(Queue') : Queue'[i] = Tail(Queue)[i]
    BY <2>1, <2>2, <2>3
  <2>5. QED
    BY <2>1, <2>2, <2>4, SeqEqual
<1>7. QED
  BY <1>2, <1>4, <1>5, <1>6 DEF Loan!Played

(* codec_close gives all back. *)
LEMMA LoanFlush ==
  ASSUME CodecInv, LoanInv, CloseDrain
  PROVE  Loan!Flush
<1>1. TypeOK /\ TypeOK' /\ tx_complete
  BY StepInv DEF CodecInv, Next, Player, CallbackSet, CloseDrain
<1>2. read_index' = put_index /\ put_index' = put_index /\ own' = own
      /\ free' = free \cup {Queue[i] : i \in 1 .. Length}
  BY <1>1 DEF CloseDrain, player
<1>3. Queue' = <<>>
  <2>1. (TypeOK => Queue \in Seq(Elements) /\ Len(Queue) = Length /\ (Length = 0 <=> Empty))'
    BY QueueSeq, PTL
  <2>2. Len(Queue') = 0 /\ Queue' \in Seq(Elements)
    BY <1>1, <1>2, <2>1 DEF Empty, Elements
  <2>3. QED
    BY <2>2
<1>4. DOMAIN Queue = 1 .. Length
  BY DEF Queue
<1>5. QED
  BY <1>2, <1>3, <1>4 DEF Loan!Flush

LEMMA LoanStep ==
  CodecInv /\ LoanInv /\ [Next]_vars => [Loan!LoanNext]_<<free, Held, Queue>>
<1> SUFFICES ASSUME CodecInv, LoanInv, [Next]_vars
             PROVE  Loan!LoanNext \/ (UNCHANGED <<free, own>> /\ Queue' = Queue)
  BY DEF Held
<1>1. CASE LocalStep
  BY <1>1, LoanLocal
<1>2. CASE WritePut
  BY <1>2, LoanWrite DEF Loan!LoanNext
<1>3. CASE CloseHalt \/ DmaDone \/ UNCHANGED vars
  BY <1>3, QueueKept DEF CloseHalt, DmaDone, vars, player
<1>4. CASE CloseDrain
  BY <1>4, LoanFlush DEF Loan!LoanNext
<1>5. CASE Isr
  BY <1>5, LoanPlayed DEF Loan!LoanNext
<1>6. QED
  BY <1>1, <1>2, <1>3, <1>4, <1>5 DEF Next, Player, LocalStep

(* The ring of codec_wm8978_i2c.c, its indexes and its interrupt implement the
   loan of blocks: each block is queued once, comes back in the order of the
   writes and is lost only to a full ring. *)
THEOREM RingImplementsLoan == Spec => BlocksLent
<1>1. Init => LoanInv
  BY DEF Init, LoanInv, Empty
<1>2. Init => free = Blocks /\ Held = {} /\ Queue = <<>>
  <2> SUFFICES ASSUME Init PROVE Queue = <<>>
    BY DEF Init, Held
  <2>1. TypeOK /\ Empty
    BY InitInv DEF CodecInv, Init, Empty
  <2>2. Queue \in Seq(Elements) /\ Len(Queue) = 0
    BY <2>1, QueueSeq
  <2>3. QED
    BY <2>2
<1>3. QED
  BY <1>1, <1>2, InitInv, StepInv, LoanInvStep, LoanStep, PTL
  DEF Spec, BlocksLent, Loan!LoanSpec, Loan!LoanInit, Loan!loanVars, Held
------------------------------------------------------------------------------
(* One holder of each block. *)

Apart ==
  /\ own = None \/ own \notin free
  /\ \A i \in 1 .. Len(Queue) : Queue[i] # None /\ Queue[i] \notin free /\ Queue[i] # own
  /\ \A i, j \in 1 .. Len(Queue) : Queue[i] = Queue[j] => i = j

(* A block is free, or filled by the player, or queued at one place of the
   ring; so the DMA plays a block that nobody else touches. *)
OneHolder ==
  /\ own # None => own \notin free /\ own # dma
  /\ dma # None => dma \notin free
  /\ \A i \in 1 .. Length : Queue[i] \notin free /\ Queue[i] # own
  /\ \A i, j \in 1 .. Length : Queue[i] = Queue[j] => i = j

LEMMA ApartStep ==
  ASSUME CodecInv, CodecInv', Apart, [Loan!LoanNext]_<<free, Held, Queue>>
  PROVE  Apart'
<1>1. /\ Queue \in Seq(Elements) /\ Queue' \in Seq(Elements)
      /\ None \notin free /\ None \notin free'
  <2>1. (TypeOK => Queue \in Seq(Elements))'
    BY QueueSeq, PTL
  <2>2. QED
    BY <2>1, QueueSeq, BlocksAssumption DEF BlocksAssumption, CodecInv, Elements, TypeOK
<1>2. \A x : x \in Held <=> x = own /\ x # None
  BY DEF Held
<1>3. \A x : x \in Held' <=> x = own' /\ x # None
  BY DEF Held
<1> HIDE DEF Held, Queue
<1> USE DEF Apart, Loan!LoanNext
<1>4. CASE Loan!Lend
  <2>1. PICK b \in free : free' = free \ {b} /\ Held' = Held \cup {b} /\ Queue' = Queue
    BY <1>4 DEF Loan!Lend, Held
  <2>2. own' = b
    BY <1>1, <1>3, <2>1
  <2>3. QED
    BY <2>1, <2>2
<1>5. CASE Loan!Return
  <2>1. PICK b \in Held : free' = free \cup {b} /\ Held' = Held \ {b} /\ Queue' = Queue
    BY <1>5 DEF Loan!Return, Held
  <2>2. b = own /\ own # None /\ own' = None
    BY <1>2, <1>3, <2>1
  <2>3. QED
    BY <2>1, <2>2
<1>6. CASE Loan!Submit
  <2>1. PICK b \in Held : Queue' = Append(Queue, b) /\ Held' = Held \ {b} /\ free' = free
    BY <1>6 DEF Loan!Submit, Held
  <2>2. b = own /\ own # None /\ own' = None
    BY <1>2, <1>3, <2>1
  <2>3. own \in Elements
    BY DEF CodecInv, TypeOK, Elements
  <2>4. /\ Len(Queue) \in Nat /\ Len(Queue') = Len(Queue) + 1
        /\ \A i \in 1 .. Len(Queue) + 1 : Queue'[i] = IF i <= Len(Queue) THEN Queue[i] ELSE own
    BY <1>1, <2>1, <2>2, <2>3
  <2>5. \A i \in 1 .. Len(Queue) + 1 : i \in 1 .. Len(Queue) \/ i = Len(Queue) + 1
    BY <2>4
  <2>6. ASSUME NEW i \in 1 .. Len(Queue')
        PROVE  Queue'[i] # None /\ Queue'[i] \notin free' /\ Queue'[i] # own'
    <3>1. CASE i \in 1 .. Len(Queue)
      BY <2>1, <2>2, <2>4, <3>1
    <3>2. CASE i = Len(Queue) + 1
      BY <2>1, <2>2, <2>4, <3>2
    <3>3. QED
      BY <2>4, <2>5, <2>6, <3>1, <3>2
  <2>7. ASSUME NEW i \in 1 .. Len(Queue'), NEW j \in 1 .. Len(Queue'), Queue'[i] = Queue'[j]
        PROVE  i = j
    <3>1. /\ i \in 1 .. Len(Queue) => Queue'[i] = Queue[i] /\ Queue[i] # own
          /\ j \in 1 .. Len(Queue) => Queue'[j] = Queue[j] /\ Queue[j] # own
          /\ i = Len(Queue) + 1 => Queue'[i] = own
          /\ j = Len(Queue) + 1 => Queue'[j] = own
      BY <2>4
    <3>2. QED
      BY <2>4, <2>5, <2>7, <3>1
  <2>8. (own = None)' /\ (\A i \in 1 .. Len(Queue) : Queue[i] # None /\ Queue[i] \notin free /\ Queue[i] # own)'
    BY <2>2, <2>6
  <2>9. (\A i, j \in 1 .. Len(Queue) : Queue[i] = Queue[j] => i = j)'
    BY <2>7
  <2>10. QED
    BY <2>8, <2>9
<1>7. CASE Loan!Lose
  BY <1>2, <1>3, <1>7 DEF Loan!Lose, Held
<1>8. CASE Loan!Played
  <2>1. /\ Queue # <<>> /\ Queue' = Tail(Queue) /\ free' = free \cup {Head(Queue)}
        /\ Held' = Held
    BY <1>8 DEF Loan!Played, Held
  <2>2. own' = own
    BY <1>2, <1>3, <2>1
  <2>3. /\ Len(Queue) \in Nat \ {0} /\ Len(Queue') = Len(Queue) - 1 /\ Head(Queue) = Queue[1]
        /\ \A i \in 1 .. Len(Queue) - 1 : Queue'[i] = Queue[i + 1] /\ i + 1 \in 1 .. Len(Queue)
    BY <1>1, <2>1, HeadTailProperties
  <2>4. \A i \in 1 .. Len(Queue) - 1 : i + 1 # 1
    BY <2>3
  <2>5. \A i, j \in 1 .. Len(Queue) - 1 : i + 1 = j + 1 => i = j
    BY <2>3
  <2>6. 1 \in 1 .. Len(Queue)
    BY <2>3
  <2>7. own = None \/ own \notin free'
    BY <2>1, <2>3, <2>6
  <2>8. (\A i \in 1 .. Len(Queue) : Queue[i] # None /\ Queue[i] \notin free /\ Queue[i] # own)'
    <3> SUFFICES ASSUME NEW i \in 1 .. Len(Queue) - 1
                 PROVE  Queue[i + 1] # None /\ Queue[i + 1] \notin free' /\ Queue[i + 1] # own'
      BY <2>3
    <3>1. i + 1 \in 1 .. Len(Queue) /\ i + 1 # 1
      BY <2>3, <2>4
    <3>2. Queue[i + 1] # Queue[1]
      BY <2>6, <3>1
    <3>3. QED
      BY <2>1, <2>2, <2>3, <3>1, <3>2
  <2>9. (\A i, j \in 1 .. Len(Queue) : Queue[i] = Queue[j] => i = j)'
    <3> SUFFICES ASSUME NEW i \in 1 .. Len(Queue) - 1, NEW j \in 1 .. Len(Queue) - 1,
                        Queue[i + 1] = Queue[j + 1]
                 PROVE  i = j
      BY <2>3
    <3>1. i + 1 = j + 1
      BY <2>3
    <3>2. QED
      BY <2>5, <3>1
  <2>10. QED
    BY <2>2, <2>7, <2>8, <2>9
<1>9. CASE Loan!Flush
  <2>1. Queue' = <<>> /\ free' = free \cup {Queue[i] : i \in DOMAIN Queue} /\ Held' = Held
    BY <1>9 DEF Loan!Flush, Held
  <2>2. own' = own
    BY <1>2, <1>3, <2>1
  <2>3. DOMAIN Queue = 1 .. Len(Queue) /\ Len(Queue') = 0
    BY <1>1, <2>1
  <2>4. own = None \/ own \notin free'
    BY <2>1, <2>3
  <2>5. QED
    BY <2>2, <2>3, <2>4
<1>10. CASE UNCHANGED <<free, Held, Queue>>
  <2>1. own' = own
    BY <1>2, <1>3, <1>10
  <2>2. QED
    BY <1>10, <2>1
<1>11. QED
  BY <1>4, <1>5, <1>6, <1>7, <1>8, <1>9, <1>10

LEMMA LoanHolds == Spec => [](CodecInv /\ LoanInv /\ Apart)
<1>1. ASSUME Init PROVE LoanInv /\ Apart
  <2>1. LoanInv /\ own = None
    BY <1>1 DEF Init, LoanInv, Empty
  <2>2. TypeOK /\ Empty
    BY <1>1, InitInv DEF CodecInv, Init, Empty
  <2>3. Len(Queue) = 0
    BY <2>2, QueueSeq
  <2>4. QED
    BY <2>1, <2>3 DEF Apart
<1>2. CodecInv /\ LoanInv /\ Apart /\ [Next]_vars => (CodecInv /\ LoanInv /\ Apart)'
  BY StepInv, LoanInvStep, LoanStep, ApartStep
<1>3. QED
  BY <1>1, <1>2, InitInv, PTL DEF Spec

(* A block of the pool is never filled, played and free at the same time, in
   whatever order codec_write, codec_close and codec_dma_isr run. *)
THEOREM BlocksApart == Spec => []OneHolder
<1>1. ASSUME CodecInv, Apart PROVE OneHolder
  <2>1. Len(Queue) = Length /\ (Length = 0 <=> Empty) /\ Length \in 0 .. Nodes - 1
        /\ \A i \in 1 .. Length : Queue[i] = data_list[Wrapped(read_index + i - 1)]
    BY <1>1, QueueSeq DEF CodecInv
  <2>2. dma # None => 1 \in 1 .. Length /\ dma = Queue[1]
    <3>1. Wrapped(read_index + 1 - 1) = read_index
      BY <1>1, NodesAssumption DEF NodesAssumption, CodecInv, TypeOK, Wrapped
    <3>2. ASSUME dma # None PROVE 1 \in 1 .. Length /\ dma = data_list[read_index]
      BY <1>1, <2>1, <3>2, NodesAssumption DEF NodesAssumption, CodecInv, DmaServesHead
    <3>3. QED
      BY <2>1, <3>1, <3>2
  <2>3. QED
    BY <1>1, <2>1, <2>2 DEF Apart, OneHolder
<1>2. QED
  BY <1>1, LoanHolds, PTL
------------------------------------------------------------------------------
(* A pool that is not larger than the ring. *)

(* Every block is free, with the player or in the ring. *)
AllHeld ==
  \A b \in Blocks : b \in free \/ b = own \/ \E i \in 1 .. Len(Queue) : Queue[i] = b

(* With a block in hand the player never finds the ring full: the queued blocks
   and its own would be more than there are. *)
LEMMA NeverRefused ==
  ASSUME IsFiniteSet(Blocks), Cardinality(Blocks) < Nodes, CodecInv, Apart, own # None
  PROVE  Len(Queue) # Nodes - 1
<1> SUFFICES ASSUME Len(Queue) = Nodes - 1 PROVE FALSE
  OBVIOUS
<1> DEFINE f == [i \in 1 .. Nodes |-> IF i = Nodes THEN own ELSE Queue[i]]
<1>1. Queue \in Seq(Elements) /\ Nodes \in Nat \ {0} /\ own \in Elements
  BY QueueSeq, NodesAssumption DEF NodesAssumption, CodecInv, TypeOK, Elements
<1>2. \A i \in 1 .. Nodes : i # Nodes => i \in 1 .. Len(Queue)
  BY <1>1
<1> HIDE DEF Queue
<1>3. ASSUME NEW i \in 1 .. Nodes PROVE f[i] \in Blocks
  <2>1. i \in 1 .. Len(Queue) => Queue[i] \in Elements /\ Queue[i] # None
    BY <1>1 DEF Apart
  <2>2. QED
    BY <1>1, <1>2, <2>1 DEF Elements
<1>4. ASSUME NEW i \in 1 .. Nodes, NEW j \in 1 .. Nodes, f[i] = f[j] PROVE i = j
  <2>1. /\ i \in 1 .. Len(Queue) => Queue[i] # own
        /\ j \in 1 .. Len(Queue) => Queue[j] # own
        /\ i \in 1 .. Len(Queue) /\ j \in 1 .. Len(Queue) /\ Queue[i] = Queue[j] => i = j
    BY DEF Apart
  <2>2. QED
    BY <1>2, <1>4, <2>1
<1>5. f \in Injection(1 .. Nodes, Blocks)
  BY <1>3, <1>4 DEF Injection, IsInjective
<1>6. Cardinality(1 .. Nodes) <= Cardinality(Blocks)
  BY <1>5, FS_Injection
<1>7. Cardinality(1 .. Nodes) = Nodes /\ Cardinality(Blocks) \in Nat
  BY <1>1, FS_Interval, FS_CardinalityType
<1>8. QED
  BY <1>1, <1>6, <1>7

LEMMA AllHeldStep ==
  ASSUME IsFiniteSet(Blocks), Cardinality(Blocks) < Nodes,
         CodecInv, CodecInv', Apart, AllHeld, [Loan!LoanNext]_<<free, Held, Queue>>
  PROVE  AllHeld'
<1>1. Queue \in Seq(Elements)
  BY QueueSeq DEF CodecInv
<1>2. \A x : x \in Held <=> x = own /\ x # None
  BY DEF Held
<1>3. \A x : x \in Held' <=> x = own' /\ x # None
  BY DEF Held
<1>4. None \notin Blocks
  BY BlocksAssumption DEF BlocksAssumption
<1> HIDE DEF Held, Queue
<1> SUFFICES ASSUME NEW b \in Blocks
             PROVE  b \in free' \/ b \in Held' \/ \E i \in 1 .. Len(Queue') : Queue'[i] = b
  BY <1>3 DEF AllHeld
<1>5. b \in free \/ b \in Held \/ \E i \in 1 .. Len(Queue) : Queue[i] = b
  BY <1>2, <1>4 DEF AllHeld
<1>6. CASE Loan!Lend
  BY <1>5, <1>6 DEF Loan!Lend, Held
<1>7. CASE Loan!Return
  BY <1>5, <1>7 DEF Loan!Return, Held
<1>8. CASE Loan!Submit
  <2>1. PICK c \in Held : Queue' = Append(Queue, c) /\ Held' = Held \ {c} /\ free' = free
    BY <1>8 DEF Loan!Submit, Held
  <2>2. c \in Elements
    BY <1>2, <2>1 DEF CodecInv, TypeOK, Elements
  <2>3. /\ Len(Queue) \in Nat /\ Len(Queue') = Len(Queue) + 1 /\ Queue'[Len(Queue) + 1] = c
        /\ \A i \in 1 .. Len(Queue) : i \in 1 .. Len(Queue') /\ Queue'[i] = Queue[i]
    BY <1>1, <2>1, <2>2
  <2>4. Len(Queue) + 1 \in 1 .. Len(Queue')
    BY <2>3
  <2>5. QED
    BY <1>5, <2>1, <2>3, <2>4
<1>9. CASE Loan!Lose
  <2>1. Len(Queue) = Nodes - 1 /\ own # None
    BY <1>2, <1>9 DEF Loan!Lose, Held
  <2>2. QED
    BY <2>1, NeverRefused
<1>10. CASE Loan!Played
  <2>1. /\ Queue # <<>> /\ Queue' = Tail(Queue) /\ free' = free \cup {Head(Queue)}
        /\ Held' = Held
    BY <1>10 DEF Loan!Played, Held
  <2>2. /\ Len(Queue) \in Nat \ {0} /\ Len(Queue') = Len(Queue) - 1 /\ Head(Queue) = Queue[1]
        /\ \A i \in 1 .. Len(Queue) - 1 : Queue'[i] = Queue[i + 1]
    BY <1>1, <2>1, HeadTailProperties
  <2>3. ASSUME NEW i \in 1 .. Len(Queue), Queue[i] = b, i # 1
        PROVE  \E j \in 1 .. Len(Queue') : Queue'[j] = b
    <3>1. i - 1 \in 1 .. Len(Queue) - 1 /\ (i - 1) + 1 = i
      BY <2>2, <2>3
    <3>2. Queue'[i - 1] = b
      BY <2>2, <2>3, <3>1
    <3>3. QED
      BY <2>2, <3>1, <3>2
  <2>4. QED
    BY <1>5, <2>1, <2>2, <2>3
<1>11. CASE Loan!Flush
  <2>1. Queue' = <<>> /\ free' = free \cup {Queue[i] : i \in DOMAIN Queue} /\ Held' = Held
    BY <1>11 DEF Loan!Flush, Held
  <2>2. DOMAIN Queue = 1 .. Len(Queue)
    BY <1>1
  <2>3. QED
    BY <1>5, <2>1, <2>2
<1>12. CASE UNCHANGED <<free, Held, Queue>>
  BY <1>5, <1>12
<1>13. QED
  BY <1>6, <1>7, <1>8, <1>9, <1>10, <1>11, <1>12 DEF Loan!LoanNext

(* With no more blocks than the ring has places, as mp3.c and wav.c have it (two
   blocks, five nodes), codec_write never refuses a block and the pool never
   loses one. *)
THEOREM NoBlockLost ==
  ASSUME IsFiniteSet(Blocks), Cardinality(Blocks) < Nodes
  PROVE  Spec => []AllHeld
<1>1. Init => AllHeld
  BY DEF Init, AllHeld
<1>2. CodecInv /\ LoanInv /\ Apart /\ AllHeld /\ [Next]_vars => AllHeld'
  BY StepInv, LoanStep, AllHeldStep
<1>3. QED
  BY <1>1, <1>2, LoanHolds, PTL DEF Spec
------------------------------------------------------------------------------
(* Playing goes on. *)

(* The port is on only with the chip's clock, and the interrupt is masked
   only inside codec_close. *)
PortInv ==
  /\ i2s => chip_ms
  /\ ~Empty => nvic \/ pc \in {"halt", "drain"}

(* For queued blocks a transfer is running, its interrupt pending, codec_close
   about to give them back; or the port is stalled. *)
PlaysOn ==
  ~Empty =>
    \/ dma # None /\ i2s /\ chip_ms
    \/ tc /\ nvic
    \/ pc \in {"halt", "drain"}
    \/ Stalled

LEMMA PortStep == CodecInv /\ ClockInv /\ PortInv /\ [Next]_vars => PortInv'
<1> SUFFICES ASSUME CodecInv, ClockInv, PortInv, [Next]_vars PROVE PortInv'
  OBVIOUS
<1> USE DEF PortInv, Empty, ring, clock, stream, player
<1>1. CASE RateSend
  BY <1>1 DEF RateSend, ClockInv
<1>2. CASE CloseMask
  BY <1>2 DEF CloseMask
<1>3. CASE LocalStep /\ ~RateSend /\ ~CloseMask
  BY <1>3
  DEF LocalStep, Open, Fill, Alloc, Discard, RateRead, RateStore, SameRate, WriteCheck,
      CloseCheck
<1>4. CASE WritePut
  <2>1. Succ(read_index) = nxt <=> Empty
    BY <1>4, SuccFacts DEF WritePut, CodecInv, WriteHasRoom, TypeOK
  <2>2. CASE Empty
    <3>1. StartPlaying(own)
      BY <1>4, <2>1, <2>2 DEF WritePut, StartsDma
    <3>2. nvic' /\ (i2s' => chip_ms')
      BY <3>1 DEF StartPlaying, EnableClock
    <3>3. QED
      BY <3>2
  <2>3. CASE ~Empty
    <3>1. UNCHANGED <<clock, stream>> /\ pc = "put"
      BY <1>4, <2>1, <2>3 DEF WritePut, StartsDma
    <3>2. QED
      BY <2>3, <3>1
  <2>4. QED
    BY <2>2, <2>3
<1>5. CASE CloseHalt
  BY <1>5 DEF CloseHalt
<1>6. CASE CloseDrain
  BY <1>6 DEF CloseDrain, CodecInv, CallbackSet
<1>7. CASE DmaDone
  BY <1>7 DEF DmaDone
<1>8. CASE Isr
  <2>1. nvic' = nvic /\ chip_ms' = chip_ms
    BY <1>8 DEF Isr
  <2>2. nvic /\ (NextBlock \/ Silence)
    BY <1>8 DEF Isr
  <2>3. i2s' => i2s
    BY <2>2 DEF NextBlock, Silence
  <2>4. QED
    BY <2>1, <2>2, <2>3
<1>9. CASE UNCHANGED vars
  BY <1>9 DEF vars
<1>10. QED
  BY <1>1, <1>2, <1>3, <1>4, <1>5, <1>6, <1>7, <1>8, <1>9 DEF Next, Player, LocalStep

(* The safety core of BlockReturns: a queued block is on its way back to the pool
   whenever the player may wait for it, but for the port left disabled. *)
THEOREM PlayingGoesOn == Spec => []PlaysOn
<1>1. Init => ClockInv /\ PortInv
  BY InitClock DEF Init, PortInv, Empty
<1>2. ASSUME CodecInv, ClockInv, PortInv PROVE PlaysOn
  BY <1>2 DEF CodecInv, StreamArmed, ClockInv, PortInv, PlaysOn, Stalled
<1>3. QED
  BY <1>1, <1>2, CodecSafe, ClockStep, PortStep, PTL DEF Spec
=============================================================================
