------------------------------- MODULE Codec -------------------------------
(***************************************************************************)
(* The sound driver drivers/codec_wm8978_i2c.c (CODEC_MASTER_MODE 1) under *)
(* a player thread: mp3_decoder_run of mp3.c and the loop of wav.c.  The   *)
(* player fills blocks of a pool and queues them in the ring data_list;    *)
(* the DMA plays the block at read_index; its interrupt starts the next    *)
(* block and gives the played one back to the pool.                        *)
(*                                                                         *)
(* An action of the player is what the interrupt cannot split: a section   *)
(* under rt_hw_interrupt_disable, or the code up to the next access to a   *)
(* variable the interrupt handler writes.  The handler is one action.      *)
(***************************************************************************)
EXTENDS Integers, Sequences, FiniteSets

CONSTANTS
  Nodes,   \* DATA_NODE_MAX: one node of the ring always stays empty
  Blocks,  \* the blocks of the player's memory pool
  None     \* no block

(* 5 nodes; mp3.c and wav.c have pools of 2 blocks. *)
ASSUME NodesAssumption == Nodes \in Nat /\ Nodes > 1
ASSUME BlocksAssumption == None \notin Blocks

VARIABLES
  data_list, read_index, put_index, \* fields of codec
  tx_complete,  \* codec.parent.tx_complete # RT_NULL
  ms,           \* r06 & MS: the driver's idea of "playing"
  chip_ms,      \* the MS bit last sent: the chip drives the bit clock
  i2s, nvic,    \* SPI3 and the DMA interrupt are enabled
  dma, tc,      \* the block under transfer; the transfer complete flag
  free,         \* the blocks of the pool
  pc, own,      \* player: position and the block it fills
  nxt,          \* codec_write: next_index
  ms_read       \* sample_rate: the bit it read in r06

ring   == <<data_list, read_index, put_index>>
clock  == <<ms, chip_ms, i2s>>
stream == <<nvic, dma, tc>>
player == <<own, nxt, ms_read>>
vars   == <<ring, tx_complete, clock, stream, free, pc, player>>

PlayerPc == {"closed", "loop", "alloc", "decoded", "store", "send", "write", "put",
             "close", "mask", "halt", "drain"}

(* The index after i, as every function of the driver computes it. *)
SuccNoWrap(i) == IF i + 1 > Nodes THEN 0 ELSE i + 1
Succ(i) == IF i + 1 >= Nodes THEN 0 ELSE i + 1

Empty == read_index = put_index

(* codec_hw_init; sbuf_init leaves every block free. *)
Init ==
  /\ data_list = [i \in 0 .. Nodes - 1 |-> None]
  /\ read_index = 0 /\ put_index = 0 /\ tx_complete = FALSE
  /\ ms = FALSE /\ chip_ms = FALSE /\ i2s = FALSE
  /\ nvic = TRUE /\ dma = None /\ tc = FALSE
  /\ free = Blocks
  /\ pc = "closed" /\ own = None /\ nxt = 0 /\ ms_read = FALSE
------------------------------------------------------------------------------
(* The player.  A definition that stands just before the one it spoils, and
   that nothing uses, is the code with one plausible mistake in it. *)

(* mp3_decoder_init; codec_open does nothing in this mode. *)
Open ==
  /\ pc = "closed"
  /\ tx_complete' = TRUE
  /\ pc' = "loop"
  /\ UNCHANGED <<ring, clock, stream, free, player>>

(* More data came, or the stream is over and the player closes the device. *)
Fill ==
  /\ pc = "loop"
  /\ pc' \in {"alloc", "close"}
  /\ UNCHANGED <<ring, tx_complete, clock, stream, free, player>>

(* sbuf_alloc, or rt_mp_alloc in wav.c, waits for a free block. *)
Alloc ==
  /\ pc = "alloc"
  /\ \E b \in free : own' = b /\ free' = free \ {b}
  /\ pc' = "decoded"
  /\ UNCHANGED <<ring, tx_complete, clock, stream, nxt, ms_read>>

(* The frame is bad, is silent, or the stream ends: the block goes back. *)
Discard ==
  /\ pc = "decoded"
  /\ free' = free \cup {own} /\ own' = None
  /\ pc' \in {"loop", "close"}
  /\ UNCHANGED <<ring, tx_complete, clock, stream, nxt, ms_read>>

(* A frame of another rate: sample_rate reads r06 to rebuild it ... *)
RateRead ==
  /\ pc = "decoded"
  /\ ms_read' = ms
  /\ pc' = "store"
  /\ UNCHANGED <<ring, tx_complete, clock, stream, free, own, nxt>>

(* ... stores it with the bit it read ... *)
RateStore ==
  /\ pc = "store"
  /\ ms' = ms_read
  /\ pc' = "send"
  /\ UNCHANGED <<ring, tx_complete, chip_ms, i2s, stream, free, player>>

(* ... and sends it after four transfers to the PLL registers. *)
RateSend ==
  /\ pc = "send"
  /\ chip_ms' = ms
  /\ pc' = "write"
  /\ UNCHANGED <<ring, tx_complete, ms, i2s, stream, free, player>>

(* A frame of the current rate goes straight to rt_device_write. *)
SameRate ==
  /\ pc = "decoded"
  /\ pc' = "write"
  /\ UNCHANGED <<ring, tx_complete, clock, stream, free, player>>

(* codec_write before its section: a full ring refuses the block, and the
   player, which ignores the result, forgets it. *)
Refused == Succ(put_index) = read_index

WriteCheck ==
  /\ pc = "write"
  /\ nxt' = Succ(put_index)
  /\ \/ ~Refused /\ pc' = "put" /\ own' = own
     \/ Refused /\ pc' = "loop" /\ own' = None
  /\ UNCHANGED <<ring, tx_complete, clock, stream, free, ms_read>>

StartsDmaAlways(alone) == TRUE
StartsDma(alone) == alone

EnableClockForgetsSend == ms' = TRUE /\ i2s' = TRUE /\ chip_ms' = FALSE
EnableClock == ms' = TRUE /\ i2s' = TRUE /\ chip_ms' = TRUE

(* The first block of a silent driver starts the DMA and, if r06 says that
   the clock is off, the clock. *)
StartPlaying(b) ==
  /\ nvic' = TRUE /\ dma' = b /\ tc' = FALSE
  /\ \/ ~ms /\ EnableClock
     \/ ms /\ ms' = ms /\ i2s' = FALSE /\ chip_ms' = FALSE

(* The section of codec_write. *)
WritePut ==
  /\ pc = "put"
  /\ data_list' = [data_list EXCEPT ![put_index] = own]
  /\ put_index' = nxt
  /\ \/ /\ StartsDma(Succ(read_index) = nxt)
        /\ StartPlaying(own)
     \/ /\ ~StartsDma(Succ(read_index) = nxt)
        /\ UNCHANGED <<clock, stream>>
  /\ own' = None
  /\ pc' = "loop"
  /\ UNCHANGED <<read_index, tx_complete, free, nxt, ms_read>>

(* codec_close: the test of r06, ... *)
CloseCheck ==
  /\ pc = "close"
  /\ pc' = IF ms THEN "mask" ELSE "closed"
  /\ UNCHANGED <<ring, tx_complete, clock, stream, free, player>>

(* ... the interrupt, ... *)
CloseMask ==
  /\ pc = "mask"
  /\ nvic' = FALSE
  /\ pc' = "halt"
  /\ UNCHANGED <<ring, tx_complete, clock, dma, tc, free, player>>

(* ... the DMA and the clock, ... *)
CloseHalt ==
  /\ pc = "halt"
  /\ dma' = None /\ tc' = FALSE
  /\ ms' = FALSE /\ i2s' = FALSE /\ chip_ms' = FALSE
  /\ pc' = "drain"
  /\ UNCHANGED <<ring, tx_complete, nvic, free, player>>

(* The nodes between the indexes, oldest first. *)
Wrapped(k) == IF k < Nodes THEN k ELSE k - Nodes
Length == Wrapped(put_index + Nodes - read_index)
Queue == [i \in 1 .. Length |-> data_list[Wrapped(read_index + i - 1)]]

(* ... and the section that gives every queued block back. *)
CloseDrain ==
  /\ pc = "drain"
  /\ IF tx_complete
       THEN /\ free' = free \cup {Queue[i] : i \in 1 .. Length}
            /\ read_index' = put_index
       ELSE UNCHANGED <<free, read_index>>
  /\ pc' = "closed"
  /\ UNCHANGED <<data_list, put_index, tx_complete, clock, stream, player>>

Player ==
  \/ Open \/ Fill \/ Alloc \/ Discard \/ RateRead \/ RateStore \/ RateSend \/ SameRate
  \/ WriteCheck \/ WritePut
  \/ CloseCheck \/ CloseMask \/ CloseHalt \/ CloseDrain
------------------------------------------------------------------------------
(* The hardware: the last half word of the block is out.  It takes the I2S
   port enabled and a bit clock, which the chip drives while it is master. *)
DmaDone ==
  /\ dma # None /\ i2s /\ chip_ms
  /\ dma' = None /\ tc' = TRUE
  /\ UNCHANGED <<ring, tx_complete, clock, nvic, free, pc, player>>

(* DMA1_Stream7_IRQHandler and codec_dma_isr. *)
PlayedAfterAdvance == data_list[Succ(read_index)]
Played == data_list[read_index]

(* Another block waits: the handler starts it.  It sets MS in r06 only. *)
NextBlockForgetsDma == dma' = None /\ ms' = TRUE /\ i2s' = i2s
NextBlock == dma' = data_list[Succ(read_index)] /\ ms' = TRUE /\ i2s' = i2s

(* The ring is empty: the handler halts the clock but not the chip. *)
SilenceKeepsMs ==
  /\ dma' = IF ms THEN None ELSE dma
  /\ i2s' = (i2s /\ ~ms)
  /\ ms' = ms
Silence ==
  /\ dma' = IF ms THEN None ELSE dma
  /\ i2s' = (i2s /\ ~ms)
  /\ ms' = FALSE

Isr ==
  /\ tc /\ nvic
  /\ tc' = FALSE
  /\ read_index' = Succ(read_index)
  /\ \/ Succ(read_index) # put_index /\ NextBlock
     \/ Succ(read_index) = put_index /\ Silence
  /\ free' = IF tx_complete THEN free \cup {Played} ELSE free
  /\ UNCHANGED <<data_list, put_index, tx_complete, chip_ms, nvic, pc, player>>

Next == Player \/ DmaDone \/ Isr

Spec == Init /\ [][Next]_vars

(* The hardware and its interrupt never stop, and a thread inside codec_close
   gets to its end; nothing makes the player go on decoding. *)
FairSpec ==
  /\ Spec
  /\ WF_vars(DmaDone) /\ WF_vars(Isr)
  /\ WF_vars(CloseMask \/ CloseHalt \/ CloseDrain)
------------------------------------------------------------------------------
(* Properties. *)

TypeOK ==
  /\ data_list \in [0 .. Nodes - 1 -> Blocks \cup {None}]
  /\ read_index \in 0 .. Nodes - 1 /\ put_index \in 0 .. Nodes - 1
  /\ nxt \in 0 .. Nodes - 1
  /\ tx_complete \in BOOLEAN /\ ms \in BOOLEAN /\ chip_ms \in BOOLEAN
  /\ i2s \in BOOLEAN /\ nvic \in BOOLEAN /\ tc \in BOOLEAN /\ ms_read \in BOOLEAN
  /\ dma \in Blocks \cup {None} /\ own \in Blocks \cup {None}
  /\ free \subseteq Blocks /\ pc \in PlayerPc

(* The DMA, or its interrupt about to run, serves the block at read_index
   and no other: it never plays a block the pool may lend again, and the
   handler never advances an empty ring, which would then look full. *)
DmaServesHead ==
  /\ dma # None => ~Empty /\ dma = data_list[read_index]
  /\ tc => ~Empty /\ dma = None

(* No start is lost between the handler that finds the ring empty and the
   writer that finds it held one block: while a block is queued its transfer
   is running or just over, except inside codec_close, which has halted it. *)
StreamArmed == ~Empty => dma # None \/ tc \/ pc = "drain"

(* The ring and its indexes implement the loan of blocks. *)
Loan == INSTANCE BlockLoan
          WITH Room <- Nodes - 1, pool <- free, queue <- Queue,
               held <- IF own = None THEN {} ELSE {own}
BlocksLent == Loan!LoanSpec

(* The DMA waits for a port that codec_write left disabled, because it found
   MS set: the block is never played, and the player never gets another. *)
Stalled == ms /\ ~i2s /\ dma # None

(* The bit MS of r06, written by two threads of control, says "playing" with
   the port off only after one thing: sample_rate stored back the bit it had
   read before the handler cleared it. *)
Split == ms /\ ~i2s
OnlyRateChangeSplits == [][Split' => Split \/ pc = "store"]_vars

(* A queued block is played and comes back; the one exception is the stall of
   a rate change: the handler clears MS between the read and the store of r06
   in sample_rate, which then sets it again. *)
BlockReturns ==
  \A b \in Blocks :
    (\E i \in 1 .. Length : Queue[i] = b)
      ~> Stalled \/ ~\E i \in 1 .. Length : Queue[i] = b
=============================================================================
