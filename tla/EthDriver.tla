----------------------------- MODULE EthDriver -----------------------------
(***************************************************************************)
(* The Ethernet driver at the end of drivers/stm32f4xx_eth.c: the threads  *)
(* etx and erx of the network interface call rt_stm32_eth_tx and           *)
(* rt_stm32_eth_rx, the MAC's DMA walks two rings of descriptors, the      *)
(* interrupt handler wakes the threads, and the PHY monitor thread         *)
(* initialises everything anew when the link comes up.                     *)
(*                                                                         *)
(* A thread runs only while no interrupt is pending; it is split at its    *)
(* accesses to the OWN bits and to what the handler writes.  The handler   *)
(* is split where it clears the status bits it read when it was entered,   *)
(* because the DMA goes on in between.  Frames are numbered.               *)
(***************************************************************************)
EXTENDS Integers

CONSTANTS
  TxBufs,    \* ETH_TXBUFNB
  RxBufs,    \* ETH_RXBUFNB
  MaxFrames, \* bound: frames sent, and frames received
  Drops,     \* TRUE: a received frame may be bad or find no pbuf
  Relink     \* TRUE: the link may come up again while the driver works

ASSUME RingsAssumption ==
  /\ TxBufs \in Nat \ {0} /\ RxBufs \in Nat \ {0}
  /\ MaxFrames \in Nat /\ Drops \in BOOLEAN /\ Relink \in BOOLEAN

VARIABLES
  tx_own, tx_frame, tx_set,   \* OWN bits, frames, DMATxDescToSet
  tx_dma, tx_run, tbus,       \* the DMA's descriptor, started, TBUS status
  tx_is_waiting, tx_wait,     \* the flag and the semaphore
  rx_own, rx_frame, rx_get,   \* OWN bits, frames, DMARxDescToGet
  rx_dma, rx_run, rbus,       \* the DMA's descriptor, started, RBUS status
  stT, stR,                   \* ETH_DMA_IT_T and ETH_DMA_IT_R in DMASR
  isr, seenT, seenR,          \* handler: inside, and the bits it read
  tpc, queued, sent,          \* etx: position; frames filled and sent so far
  rpc, mail, p,               \* erx: position, mailbox, p # RT_NULL
  arrived, got,               \* frames the DMA stored; the last one passed up
  ppc                         \* PHY monitor: position in rt_stm32_eth_init

txRing == <<tx_own, tx_frame, tx_set, tx_dma, tx_run, tbus>>
rxRing == <<rx_own, rx_frame, rx_get, rx_dma, rx_run, rbus>>
waitTx == <<tx_is_waiting, tx_wait>>
status == <<stT, stR>>
handler == <<isr, seenT, seenR>>
etx    == <<tpc, queued, sent>>
erx    == <<rpc, mail, p, arrived, got>>
vars   == <<txRing, rxRing, waitTx, status, handler, etx, erx, ppc>>

(* Descriptors are chained in a ring. *)
NextTxNoWrap(i) == i + 1
NextTx(i) == (i + 1) % TxBufs
NextRx(i) == (i + 1) % RxBufs

(* The state the first rt_stm32_eth_init leaves. *)
Init ==
  /\ tx_own = [i \in 0 .. TxBufs - 1 |-> FALSE]
  /\ tx_frame = [i \in 0 .. TxBufs - 1 |-> 0]
  /\ tx_set = 0 /\ tx_dma = 0 /\ tx_run = TRUE /\ tbus = FALSE
  /\ tx_is_waiting = FALSE /\ tx_wait = 0
  /\ rx_own = [i \in 0 .. RxBufs - 1 |-> TRUE]
  /\ rx_frame = [i \in 0 .. RxBufs - 1 |-> 0]
  /\ rx_get = 0 /\ rx_dma = 0 /\ rx_run = TRUE /\ rbus = FALSE
  /\ stT = FALSE /\ stR = FALSE
  /\ isr = FALSE /\ seenT = FALSE /\ seenR = FALSE
  /\ tpc = "idle" /\ queued = 0 /\ sent = 0
  /\ rpc = "idle" /\ mail = FALSE /\ p = FALSE /\ arrived = 0 /\ got = 0
  /\ ppc = "watch"
------------------------------------------------------------------------------
(* The threads.  A definition that stands just before the one it spoils, and
   that nothing uses, is the code with one plausible mistake in it. *)

NoInterrupt == ~isr /\ ~stT /\ ~stR

AtTx(from, to) == NoInterrupt /\ tpc = from /\ tpc' = to
AtRx(from, to) == NoInterrupt /\ rpc = from /\ rpc' = to

(* etx takes a packet out of its mailbox. *)
TxCall ==
  /\ queued < MaxFrames
  /\ AtTx("idle", "test")
  /\ UNCHANGED <<txRing, rxRing, waitTx, status, handler, queued, sent, erx, ppc>>

(* The while condition of rt_stm32_eth_tx. *)
DescriptorNeverBusy == FALSE
DescriptorBusy == tx_own[tx_set]

TxTest ==
  /\ AtTx("test", IF DescriptorBusy THEN "flag" ELSE "fill")
  /\ UNCHANGED <<txRing, rxRing, waitTx, status, handler, queued, sent, erx, ppc>>

TxFlagForgotten ==
  /\ AtTx("flag", "take")
  /\ UNCHANGED <<txRing, rxRing, waitTx, status, handler, queued, sent, erx, ppc>>
TxFlag ==
  /\ AtTx("flag", "take")
  /\ tx_is_waiting' = TRUE
  /\ UNCHANGED <<txRing, rxRing, tx_wait, status, handler, queued, sent, erx, ppc>>

(* rt_sem_take(tx_wait, FOREVER): on RT_EOK the loop ends without a second
   look at the descriptor. *)
TxTake ==
  /\ tx_wait > 0
  /\ AtTx("take", "fill")
  /\ tx_wait' = tx_wait - 1
  /\ UNCHANGED <<txRing, rxRing, tx_is_waiting, status, handler, queued, sent,
                 erx, ppc>>

(* The copy of the packet, then the OWN bit. *)
TxFill ==
  /\ AtTx("fill", "kick")
  /\ queued' = queued + 1
  /\ tx_frame' = [tx_frame EXCEPT ![tx_set] = queued']
  /\ tx_own' = [tx_own EXCEPT ![tx_set] = TRUE]
  /\ UNCHANGED <<tx_set, tx_dma, tx_run, tbus, rxRing, waitTx, status, handler,
                 sent, erx, ppc>>

(* TBUS and the poll demand, then the next descriptor. *)
TxKickForgetsPoll ==
  /\ AtTx("kick", "idle")
  /\ tx_set' = NextTx(tx_set)
  /\ UNCHANGED <<tx_own, tx_frame, tx_dma, tx_run, tbus, rxRing, waitTx, status,
                 handler, queued, sent, erx, ppc>>
TxKick ==
  /\ AtTx("kick", "idle")
  /\ tbus' = FALSE
  /\ tx_set' = NextTx(tx_set)
  /\ UNCHANGED <<tx_own, tx_frame, tx_dma, tx_run, rxRing, waitTx, status, handler,
                 queued, sent, erx, ppc>>

(* erx takes the driver's mail and polls until rt_stm32_eth_rx returns no
   frame. *)
RxMail ==
  /\ AtRx("idle", "poll") /\ mail
  /\ mail' = FALSE
  /\ UNCHANGED <<txRing, rxRing, waitTx, status, handler, etx, p, arrived, got, ppc>>

RxNone ==
  /\ rx_own[rx_get]
  /\ AtRx("poll", "idle")
  /\ UNCHANGED <<txRing, rxRing, waitTx, status, handler, etx, mail, p, arrived, got,
                 ppc>>

(* A frame: it is copied and passed up, or dropped for want of a pbuf or for
   the error bit. *)
FrameReadNext == rx_frame[NextRx(rx_get)]
FrameRead == rx_frame[rx_get]

RxCopy ==
  /\ ~rx_own[rx_get]
  /\ AtRx("poll", "give")
  /\ \/ p' = TRUE /\ got' = FrameRead
     \/ Drops /\ p' = FALSE /\ got' = got
  /\ UNCHANGED <<txRing, rxRing, waitTx, status, handler, etx, mail, arrived, ppc>>

(* The descriptor goes back to the DMA ... *)
RxGive ==
  /\ AtRx("give", "resume")
  /\ rx_own' = [rx_own EXCEPT ![rx_get] = TRUE]
  /\ UNCHANGED <<txRing, rx_frame, rx_get, rx_dma, rx_run, rbus, waitTx, status,
                 handler, etx, mail, p, arrived, got, ppc>>

(* ... RBUS and the poll demand, then the next descriptor.  A dropped frame
   looks to erx like an empty ring. *)
RxResumeForgotten ==
  /\ AtRx("resume", IF p THEN "poll" ELSE "idle")
  /\ rx_get' = NextRx(rx_get)
  /\ UNCHANGED <<txRing, rx_own, rx_frame, rx_dma, rx_run, rbus, waitTx, status,
                 handler, etx, mail, p, arrived, got, ppc>>
RxResume ==
  /\ AtRx("resume", IF p THEN "poll" ELSE "idle")
  /\ rbus' = FALSE
  /\ rx_get' = NextRx(rx_get)
  /\ UNCHANGED <<txRing, rx_own, rx_frame, rx_dma, rx_run, waitTx, status, handler,
                 etx, mail, p, arrived, got, ppc>>

(* The PHY monitor runs below both, while they are blocked.  It finds a link
   and initialises MAC, DMA and rings: the reset and the negotiation, ... *)
AtPhy(from, to) ==
  /\ NoInterrupt /\ rpc = "idle" /\ ~mail
  /\ tpc = "idle" \/ (tpc = "take" /\ tx_wait = 0)
  /\ ppc = from /\ ppc' = to

PhyReset ==
  /\ Relink
  /\ AtPhy("watch", "txset")
  /\ tx_run' = FALSE /\ rx_run' = FALSE /\ tbus' = FALSE /\ rbus' = FALSE
  /\ UNCHANGED <<tx_own, tx_frame, tx_set, tx_dma, rx_own, rx_frame, rx_get, rx_dma,
                 waitTx, status, handler, etx, erx>>

(* ... ETH_DMATxDescChainInit, pointer first, ... *)
PhyTxSet ==
  /\ AtPhy("txset", "txchain")
  /\ tx_set' = 0
  /\ UNCHANGED <<tx_own, tx_frame, tx_dma, tx_run, tbus, rxRing, waitTx, status,
                 handler, etx, erx>>

PhyTxChain ==
  /\ AtPhy("txchain", "rxchain")
  /\ tx_own' = [i \in 0 .. TxBufs - 1 |-> FALSE]
  /\ tx_dma' = 0
  /\ UNCHANGED <<tx_frame, tx_set, tx_run, tbus, rxRing, waitTx, status, handler,
                 etx, erx>>

(* ... ETH_DMARxDescChainInit, which no mail interrupts, and ETH_Start. *)
PhyRxChain ==
  /\ AtPhy("rxchain", "start")
  /\ rx_get' = 0 /\ rx_dma' = 0
  /\ rx_own' = [i \in 0 .. RxBufs - 1 |-> TRUE]
  /\ UNCHANGED <<txRing, rx_frame, rx_run, rbus, waitTx, status, handler, etx, erx>>

PhyStart ==
  /\ AtPhy("start", "watch")
  /\ tx_run' = TRUE /\ rx_run' = TRUE
  /\ UNCHANGED <<tx_own, tx_frame, tx_set, tx_dma, tbus, rx_own, rx_frame, rx_get,
                 rx_dma, rbus, waitTx, status, handler, etx, erx>>

Threads ==
  \/ TxCall \/ TxTest \/ TxFlag \/ TxTake \/ TxFill \/ TxKick
  \/ RxMail \/ RxNone \/ RxCopy \/ RxGive \/ RxResume
  \/ PhyReset \/ PhyTxSet \/ PhyTxChain \/ PhyRxChain \/ PhyStart
------------------------------------------------------------------------------
(* The DMA. *)

DmaSends ==
  /\ tx_run /\ ~tbus /\ tx_own[tx_dma]
  /\ sent' = tx_frame[tx_dma]
  /\ tx_own' = [tx_own EXCEPT ![tx_dma] = FALSE]
  /\ tx_dma' = NextTx(tx_dma)
  /\ stT' = TRUE
  /\ UNCHANGED <<tx_frame, tx_set, tx_run, tbus, rxRing, waitTx, stR, handler, tpc,
                 queued, erx, ppc>>

DmaSuspendsTx ==
  /\ tx_run /\ ~tbus /\ ~tx_own[tx_dma]
  /\ tbus' = TRUE
  /\ UNCHANGED <<tx_own, tx_frame, tx_set, tx_dma, tx_run, rxRing, waitTx, status,
                 handler, etx, erx, ppc>>

DmaStores ==
  /\ arrived < MaxFrames
  /\ rx_run /\ ~rbus /\ rx_own[rx_dma]
  /\ arrived' = arrived + 1
  /\ rx_frame' = [rx_frame EXCEPT ![rx_dma] = arrived']
  /\ rx_own' = [rx_own EXCEPT ![rx_dma] = FALSE]
  /\ rx_dma' = NextRx(rx_dma)
  /\ stR' = TRUE
  /\ UNCHANGED <<txRing, rx_get, rx_run, rbus, waitTx, stT, handler, etx, rpc, mail,
                 p, got, ppc>>

(* A frame comes and the next descriptor is the CPU's. *)
DmaSuspendsRx ==
  /\ rx_run /\ ~rbus /\ ~rx_own[rx_dma]
  /\ rbus' = TRUE
  /\ UNCHANGED <<txRing, rx_own, rx_frame, rx_get, rx_dma, rx_run, waitTx, status,
                 handler, etx, erx, ppc>>

(* ETH_IRQHandler reads DMASR and wakes the threads, ... *)
WakesSenderAlways == TRUE
WakesSender == tx_is_waiting

NotifiesUnlessSent == stR /\ ~stT
Notifies == stR

IsrEnter ==
  /\ ~isr /\ (stT \/ stR)
  /\ isr' = TRUE /\ seenT' = stT /\ seenR' = stR
  /\ \/ /\ stT /\ WakesSender
        /\ tx_is_waiting' = FALSE /\ tx_wait' = tx_wait + 1
     \/ ~(stT /\ WakesSender) /\ UNCHANGED waitTx
  /\ mail' = (mail \/ Notifies)
  /\ UNCHANGED <<txRing, rxRing, status, etx, rpc, p, arrived, got, ppc>>

(* ... and clears the bits it saw, set again or not. *)
ClearedRAlways == TRUE
ClearedR == seenR

IsrExit ==
  /\ isr
  /\ isr' = FALSE
  /\ stT' = (stT /\ ~seenT) /\ stR' = (stR /\ ~ClearedR)
  /\ UNCHANGED <<txRing, rxRing, waitTx, seenT, seenR, etx, erx, ppc>>

Next ==
  \/ Threads
  \/ DmaSends \/ DmaSuspendsTx \/ DmaStores \/ DmaSuspendsRx
  \/ IsrEnter \/ IsrExit

Spec == Init /\ [][Next]_vars

(* Threads, handler and DMA run; packets and frames need not come, and the
   link need not come up again. *)
FairSpec ==
  /\ Spec
  /\ WF_vars(IsrEnter \/ IsrExit) /\ WF_vars(DmaSends)
  /\ WF_vars(TxTest \/ TxFlag \/ TxTake \/ TxFill \/ TxKick)
  /\ WF_vars(RxMail \/ RxNone \/ RxCopy \/ RxGive \/ RxResume)
  /\ WF_vars(PhyTxSet \/ PhyTxChain \/ PhyRxChain \/ PhyStart)
------------------------------------------------------------------------------
(* Properties. *)

TypeOK ==
  /\ tx_own \in [0 .. TxBufs - 1 -> BOOLEAN] /\ rx_own \in [0 .. RxBufs - 1 -> BOOLEAN]
  /\ tx_frame \in [0 .. TxBufs - 1 -> Nat] /\ rx_frame \in [0 .. RxBufs - 1 -> Nat]
  /\ tx_set \in 0 .. TxBufs - 1 /\ tx_dma \in 0 .. TxBufs - 1
  /\ rx_get \in 0 .. RxBufs - 1 /\ rx_dma \in 0 .. RxBufs - 1
  /\ tx_run \in BOOLEAN /\ rx_run \in BOOLEAN /\ tbus \in BOOLEAN /\ rbus \in BOOLEAN
  /\ tx_is_waiting \in BOOLEAN /\ tx_wait \in Nat
  /\ stT \in BOOLEAN /\ stR \in BOOLEAN
  /\ isr \in BOOLEAN /\ seenT \in BOOLEAN /\ seenR \in BOOLEAN
  /\ mail \in BOOLEAN /\ p \in BOOLEAN
  /\ queued \in Nat /\ sent \in Nat /\ arrived \in Nat /\ got \in Nat
  /\ tpc \in {"idle", "test", "flag", "take", "fill", "kick"}
  /\ rpc \in {"idle", "poll", "give", "resume"}
  /\ ppc \in {"watch", "txset", "txchain", "rxchain", "start"}

(* The sender writes only into a buffer the DMA has given back, although it
   does not look at the descriptor again when the semaphore wakes it. *)
FillsFreeBuffer == tpc = "fill" => ~tx_own[tx_set]

(* Frames leave in the order they were queued, none twice and none skipped. *)
SendsInOrder == [][sent' # sent => sent' = sent + 1]_sent

(* Frames are passed up in the order they came; only a drop skips one. *)
ReceivesInOrder == [][got' # got => IF Drops THEN got' > got ELSE got' = got + 1]_got

(* A sender that sleeps on a busy descriptor is woken.  One that found its
   frame sent between the test and the flag may sleep on a free one. *)
BusySenderWakes == (tpc = "take" /\ tx_own[tx_set]) ~> tpc # "take"

(* Every frame handed to the DMA is sent: "clear it and resume transmission"
   (line 3614). *)
QueuedFrameSent == \A i \in 0 .. TxBufs - 1 : tx_own[i] ~> ~tx_own[i]

(* Without drops, a frame in the ring is never left unseen: the interrupt is
   pending, or erx has mail or is polling. *)
FrameNoticed == ~rx_own[rx_get] => stR \/ mail \/ rpc # "idle"

(* With drops a frame may wait for the next one, but a full ring is always
   about to be read. *)
FullRingNoticed ==
  (\A i \in 0 .. RxBufs - 1 : ~rx_own[i]) => stR \/ mail \/ rpc # "idle"

(* Reception suspended for want of a descriptor is resumed, although the
   interrupt for it is not enabled. *)
ReceptionResumes == rbus ~> ~rbus
=============================================================================
