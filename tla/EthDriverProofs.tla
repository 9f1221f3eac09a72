--------------------------- MODULE EthDriverProofs ---------------------------
(***************************************************************************)
(* Theorems about EthDriver for every number of descriptors.  With drops   *)
(* and a link that comes up again: the types, the receive ring, its order  *)
(* and its notices; when no frame is dropped: the notice of every frame;   *)
(* on a link that stays up: the transmit ring and its order.               *)
(***************************************************************************)
EXTENDS EthDriver, TLAPS

(* The successor of an index, without the remainder. *)
LEMMA NextFacts ==
  /\ \A i \in 0 .. TxBufs - 1 : NextTx(i) = IF i = TxBufs - 1 THEN 0 ELSE i + 1
  /\ \A i \in 0 .. RxBufs - 1 : NextRx(i) = IF i = RxBufs - 1 THEN 0 ELSE i + 1
<1> USE RingsAssumption DEF RingsAssumption
<1>1. ASSUME NEW i \in 0 .. TxBufs - 1
      PROVE  NextTx(i) = IF i = TxBufs - 1 THEN 0 ELSE i + 1
  BY DEF NextTx
<1>2. ASSUME NEW i \in 0 .. RxBufs - 1
      PROVE  NextRx(i) = IF i = RxBufs - 1 THEN 0 ELSE i + 1
  BY DEF NextRx
<1>3. QED
  BY <1>1, <1>2

LEMMA NextRange ==
  /\ \A i \in 0 .. TxBufs - 1 : NextTx(i) \in 0 .. TxBufs - 1
  /\ \A i \in 0 .. RxBufs - 1 : NextRx(i) \in 0 .. RxBufs - 1
  BY NextFacts, RingsAssumption DEF RingsAssumption
------------------------------------------------------------------------------
(* Types. *)

Flags ==
  /\ tx_run \in BOOLEAN /\ rx_run \in BOOLEAN /\ tbus \in BOOLEAN /\ rbus \in BOOLEAN
  /\ tx_is_waiting \in BOOLEAN /\ stT \in BOOLEAN /\ stR \in BOOLEAN
  /\ isr \in BOOLEAN /\ seenT \in BOOLEAN /\ seenR \in BOOLEAN
  /\ mail \in BOOLEAN /\ p \in BOOLEAN

Rings ==
  /\ tx_own \in [0 .. TxBufs - 1 -> BOOLEAN] /\ rx_own \in [0 .. RxBufs - 1 -> BOOLEAN]
  /\ tx_frame \in [0 .. TxBufs - 1 -> Nat] /\ rx_frame \in [0 .. RxBufs - 1 -> Nat]
  /\ tx_set \in 0 .. TxBufs - 1 /\ tx_dma \in 0 .. TxBufs - 1
  /\ rx_get \in 0 .. RxBufs - 1 /\ rx_dma \in 0 .. RxBufs - 1

Counts ==
  /\ tx_wait \in Nat /\ queued \in Nat /\ sent \in Nat /\ arrived \in Nat /\ got \in Nat
  /\ tpc \in {"idle", "test", "flag", "take", "fill", "kick"}
  /\ rpc \in {"idle", "poll", "give", "resume"}
  /\ ppc \in {"watch", "txset", "txchain", "rxchain", "start"}

LEMMA TypeParts == TypeOK <=> Flags /\ Rings /\ Counts
  BY DEF TypeOK, Flags, Rings, Counts

LEMMA InitType == Init => TypeOK
<1> SUFFICES ASSUME Init PROVE Flags /\ Rings /\ Counts
  BY TypeParts
<1>1. Flags
  BY DEF Init, Flags
<1>2. Rings
  BY RingsAssumption DEF RingsAssumption, Init, Rings
<1>3. Counts
  BY DEF Init, Counts
<1>4. QED
  BY <1>1, <1>2, <1>3

LEMMA TypeStep == TypeOK /\ [Next]_vars => TypeOK'
<1> SUFFICES ASSUME Flags, Rings, Counts, [Next]_vars PROVE Flags' /\ Rings' /\ Counts'
  BY TypeParts DEF TypeOK, Flags, Rings, Counts
<1> USE DEF txRing, rxRing, waitTx, status, handler, etx, erx, vars, AtTx, AtRx, AtPhy
<1>1. Flags'
  <2>1. CASE Threads
    <3>1. CASE RxCopy
      BY <3>1, ZenonT(40) DEF RxCopy, Flags
    <3>2. CASE PhyReset \/ PhyStart
      BY <3>2, ZenonT(40) DEF PhyReset, PhyStart, Flags
    <3>3. CASE TxFlag
      BY <3>3 DEF TxFlag, Flags
    <3>4. CASE RxMail
      BY <3>4 DEF RxMail, Flags
    <3>5. CASE TxKick
      BY <3>5 DEF TxKick, Flags
    <3>6. CASE RxResume
      BY <3>6, ZenonT(40) DEF RxResume, Flags
    <3>7. CASE UNCHANGED <<tx_run, rx_run, tbus, rbus, tx_is_waiting, stT, stR, handler, mail, p>>
      BY <3>7 DEF Flags
    <3>8. QED
      BY <2>1, <3>1, <3>2, <3>3, <3>4, <3>5, <3>6, <3>7
      DEF Threads, TxCall, TxTest, TxTake, TxFill, RxNone, RxGive, PhyTxSet, PhyTxChain,
          PhyRxChain
  <2>2. CASE DmaSends \/ DmaSuspendsTx \/ DmaStores \/ DmaSuspendsRx
    <3>1. CASE DmaSends
      BY <3>1 DEF DmaSends, Flags
    <3>2. CASE DmaSuspendsTx
      BY <3>2 DEF DmaSuspendsTx, Flags
    <3>3. CASE DmaStores
      BY <3>3 DEF DmaStores, Flags
    <3>4. CASE DmaSuspendsRx
      BY <3>4 DEF DmaSuspendsRx, Flags
    <3>5. QED
      BY <2>2, <3>1, <3>2, <3>3, <3>4
  <2>3. CASE IsrEnter
    <3>1. tx_is_waiting' \in BOOLEAN /\ mail' \in BOOLEAN
      BY <2>3 DEF IsrEnter, Flags
    <3>2. isr' \in BOOLEAN /\ seenT' \in BOOLEAN /\ seenR' \in BOOLEAN
      BY <2>3 DEF IsrEnter, Flags
    <3>3. QED
      BY <2>3, <3>1, <3>2 DEF IsrEnter, Flags
  <2>4. CASE IsrExit
    <3>1. stT' \in BOOLEAN /\ stR' \in BOOLEAN
      BY <2>4 DEF IsrExit
    <3>2. QED
      BY <2>4, <3>1 DEF IsrExit, Flags
  <2>5. CASE UNCHANGED vars
    BY <2>5 DEF Flags
  <2>6. QED
    BY <2>1, <2>2, <2>3, <2>4, <2>5 DEF Next
<1>2. Rings'
  <2>1. CASE TxFill
    BY <2>1 DEF TxFill, Rings, Counts
  <2>2. CASE TxKick
    BY <2>2, NextRange DEF TxKick, Rings
  <2>3. CASE RxGive
    BY <2>3 DEF RxGive, Rings
  <2>4. CASE RxResume
    BY <2>4, NextRange DEF RxResume, Rings
  <2>5. CASE PhyTxSet \/ PhyTxChain \/ PhyRxChain
    <3>1. tx_own' \in [0 .. TxBufs - 1 -> BOOLEAN]
      BY <2>5 DEF PhyTxSet, PhyTxChain, PhyRxChain, Rings
    <3>2. rx_own' \in [0 .. RxBufs - 1 -> BOOLEAN]
      BY <2>5 DEF PhyTxSet, PhyTxChain, PhyRxChain, Rings
    <3>3. UNCHANGED <<tx_frame, rx_frame>>
      BY <2>5 DEF PhyTxSet, PhyTxChain, PhyRxChain
    <3>4. /\ tx_set' \in {tx_set, 0} /\ tx_dma' \in {tx_dma, 0}
          /\ rx_get' \in {rx_get, 0} /\ rx_dma' \in {rx_dma, 0}
      BY <2>5 DEF PhyTxSet, PhyTxChain, PhyRxChain
    <3>5. QED
      BY <3>1, <3>2, <3>3, <3>4, RingsAssumption DEF RingsAssumption, Rings
  <2>6. CASE DmaSends
    BY <2>6, NextRange DEF DmaSends, Rings
  <2>7. CASE DmaStores
    <3>1. rx_frame' \in [0 .. RxBufs - 1 -> Nat] /\ rx_own' \in [0 .. RxBufs - 1 -> BOOLEAN]
      BY <2>7 DEF DmaStores, Rings, Counts
    <3>2. QED
      BY <2>7, <3>1, NextRange DEF DmaStores, Rings
  <2>8. CASE UNCHANGED <<tx_own, tx_frame, tx_set, tx_dma, rx_own, rx_frame, rx_get, rx_dma>>
    BY <2>8 DEF Rings
  <2>9. QED
    BY <2>1, <2>2, <2>3, <2>4, <2>5, <2>6, <2>7, <2>8
    DEF Next, Threads, TxCall, TxTest, TxFlag, TxTake, RxMail, RxNone, RxCopy, PhyReset,
        PhyStart, DmaSuspendsTx, DmaSuspendsRx, IsrEnter, IsrExit
<1>3. Counts'
  <2>1. sent' \in Nat /\ got' \in Nat
    BY DEF Rings, Counts, Next, Threads, TxCall, TxTest, TxFlag, TxTake, TxFill, TxKick,
           RxMail, RxNone, RxCopy, RxGive, RxResume, PhyReset, PhyTxSet, PhyTxChain,
           PhyRxChain, PhyStart, DmaSends, DmaSuspendsTx, DmaStores, DmaSuspendsRx,
           IsrEnter, IsrExit, FrameRead
  <2>2. tx_wait' \in Nat /\ queued' \in Nat /\ arrived' \in Nat
    BY DEF Counts, Next, Threads, TxCall, TxTest, TxFlag, TxTake, TxFill, TxKick,
           RxMail, RxNone, RxCopy, RxGive, RxResume, PhyReset, PhyTxSet, PhyTxChain,
           PhyRxChain, PhyStart, DmaSends, DmaSuspendsTx, DmaStores, DmaSuspendsRx,
           IsrEnter, IsrExit
  <2>3. /\ tpc' \in {"idle", "test", "flag", "take", "fill", "kick"}
        /\ rpc' \in {"idle", "poll", "give", "resume"}
        /\ ppc' \in {"watch", "txset", "txchain", "rxchain", "start"}
    BY DEF Counts, Next, Threads, TxCall, TxTest, TxFlag, TxTake, TxFill, TxKick,
           RxMail, RxNone, RxCopy, RxGive, RxResume, PhyReset, PhyTxSet, PhyTxChain,
           PhyRxChain, PhyStart, DmaSends, DmaSuspendsTx, DmaStores, DmaSuspendsRx,
           IsrEnter, IsrExit
  <2>4. QED
    BY <2>1, <2>2, <2>3 DEF Counts
<1>4. QED
  BY <1>1, <1>2, <1>3

(* Every field keeps its range: the pointers to descriptors stay inside the
   two rings, also while the PHY monitor initialises them anew. *)
THEOREM FieldsTyped == Spec => []TypeOK
  BY InitType, TypeStep, PTL DEF Spec
------------------------------------------------------------------------------
(* Reception.  The handler has put its notice in the mailbox before it clears
   the receive bit, no thread runs before it has, and a frame that is not
   dropped keeps erx polling. *)
NoticeInv ==
  /\ TypeOK /\ FrameNoticed
  /\ isr /\ seenR => mail
  /\ rpc \in {"give", "resume"} => p

LEMMA NoticeStep == ASSUME ~Drops PROVE NoticeInv /\ [Next]_vars => NoticeInv'
<1> SUFFICES ASSUME NoticeInv, [Next]_vars PROVE NoticeInv'
  OBVIOUS
<1>1. TypeOK'
  BY TypeStep DEF NoticeInv
<1>2. rx_own[rx_get] \in BOOLEAN /\ rx_get \in 0 .. RxBufs - 1 /\ rx_dma \in 0 .. RxBufs - 1
      /\ rx_own \in [0 .. RxBufs - 1 -> BOOLEAN]
  BY DEF NoticeInv, TypeOK
<1> USE DEF NoticeInv, FrameNoticed, NoInterrupt, AtTx, AtRx, AtPhy,
            txRing, rxRing, waitTx, status, handler, etx, erx
<1>3. CASE TxCall \/ TxTest \/ TxFlag \/ TxTake \/ TxFill \/ TxKick
  BY <1>1, <1>3 DEF TxCall, TxTest, TxFlag, TxTake, TxFill, TxKick
<1>4. CASE RxMail
  BY <1>1, <1>4 DEF RxMail
<1>5. CASE RxNone
  BY <1>1, <1>5 DEF RxNone
<1>6. CASE RxCopy
  BY <1>1, <1>6 DEF RxCopy
<1>7. CASE RxGive
  BY <1>1, <1>2, <1>7 DEF RxGive
<1>8. CASE RxResume
  BY <1>1, <1>8 DEF RxResume
<1>9. CASE PhyReset \/ PhyTxSet \/ PhyTxChain \/ PhyStart
  BY <1>1, <1>9 DEF PhyReset, PhyTxSet, PhyTxChain, PhyStart
<1>10. CASE PhyRxChain
  BY <1>1, <1>10, RingsAssumption DEF RingsAssumption, PhyRxChain
<1>11. CASE DmaSends \/ DmaSuspendsTx \/ DmaSuspendsRx
  BY <1>1, <1>11 DEF DmaSends, DmaSuspendsTx, DmaSuspendsRx
<1>12. CASE DmaStores
  BY <1>1, <1>12 DEF DmaStores
<1>13. CASE IsrEnter
  BY <1>1, <1>13 DEF IsrEnter, Notifies
<1>14. CASE IsrExit
  BY <1>1, <1>14 DEF IsrExit, ClearedR
<1>15. CASE UNCHANGED vars
  BY <1>1, <1>15 DEF vars
<1>16. QED
  BY <1>3, <1>4, <1>5, <1>6, <1>7, <1>8, <1>9, <1>10, <1>11, <1>12, <1>13, <1>14, <1>15
  DEF Next, Threads

(* A received frame in the ring is announced or being read, whatever comes
   between the reading and the clearing of the status bits, and also when the
   PHY monitor initialises the ring. *)
THEOREM FramesSeen == ASSUME ~Drops PROVE Spec => []FrameNoticed
<1>1. Init => NoticeInv
  <2>1. ASSUME Init PROVE rx_own[rx_get] /\ rpc = "idle" /\ ~isr
    BY <2>1, RingsAssumption DEF RingsAssumption, Init
  <2>2. QED
    BY <2>1, InitType DEF NoticeInv, FrameNoticed
<1>2. NoticeInv /\ [Next]_vars => NoticeInv'
  BY NoticeStep
<1>3. NoticeInv => FrameNoticed
  BY DEF NoticeInv
<1>4. QED
  BY <1>1, <1>2, <1>3, PTL DEF Spec
------------------------------------------------------------------------------
(* Transmission.  The frames queued and not yet sent lie in the ring one after
   the other from the DMA's descriptor on. *)
Pending == queued - sent
Dist(i) == IF i >= tx_dma THEN i - tx_dma ELSE i - tx_dma + TxBufs

(* The descriptor of the next frame, behind the pending ones. *)
Fresh == IF tpc = "kick" THEN NextTx(tx_set) ELSE tx_set
FreshFollows ==
  Fresh = IF tx_dma + Pending < TxBufs THEN tx_dma + Pending
                                       ELSE tx_dma + Pending - TxBufs

OwnedArePending ==
  \A i \in 0 .. TxBufs - 1 :
    /\ tx_own[i] <=> Dist(i) < Pending
    /\ tx_own[i] => tx_frame[i] = sent + 1 + Dist(i)

(* A transmit status and a token say that there is room: only a sender past
   its wait fills it, and threads do not run while a status is pending. *)
RoomSignalled ==
  /\ stT => Pending < TxBufs
  /\ tx_wait \in {0, 1}
  /\ tx_wait = 1 => tpc = "take" /\ ~tx_is_waiting /\ Pending < TxBufs
  /\ tx_is_waiting => tpc = "take"
  /\ tpc = "fill" => Pending < TxBufs

TxInv ==
  /\ TypeOK /\ ppc = "watch" /\ Pending \in 0 .. TxBufs
  /\ OwnedArePending /\ FreshFollows /\ RoomSignalled

LEMMA TxInit == Init => TxInv
<1> SUFFICES ASSUME Init PROVE TxInv
  OBVIOUS
<1>1. \A i \in 0 .. TxBufs - 1 : tx_own[i] = FALSE /\ Dist(i) = i
  BY DEF Init, Dist
<1>2. OwnedArePending
  BY <1>1 DEF Init, OwnedArePending, Pending
<1>3. QED
  BY <1>2, InitType, RingsAssumption
  DEF RingsAssumption, Init, TxInv, FreshFollows, Fresh, RoomSignalled, Pending

(* A free descriptor is room, and with room the fresh one is free. *)
LEMMA RoomIsFree ==
  ASSUME TxInv, tpc # "kick"
  PROVE  ~tx_own[tx_set] <=> Pending < TxBufs
<1>1. tx_set \in 0 .. TxBufs - 1 /\ tx_dma \in 0 .. TxBufs - 1 /\ Pending \in 0 .. TxBufs
  BY DEF TxInv, TypeOK
<1>2. tx_set = IF tx_dma + Pending < TxBufs THEN tx_dma + Pending
                                           ELSE tx_dma + Pending - TxBufs
  BY DEF TxInv, FreshFollows, Fresh
<1>3. tx_own[tx_set] <=> Dist(tx_set) < Pending
  BY <1>1 DEF TxInv, OwnedArePending
<1>4. Dist(tx_set) < Pending <=> Pending = TxBufs
  BY <1>1, <1>2, RingsAssumption DEF RingsAssumption, Dist
<1>5. QED
  BY <1>1, <1>3, <1>4, RingsAssumption DEF RingsAssumption

(* The DMA sends the oldest frame. *)
LEMMA DmaSendsInv ==
  ASSUME TxInv, DmaSends
  PROVE  TxInv' /\ sent' = sent + 1
<1>1. /\ tx_dma \in 0 .. TxBufs - 1 /\ tx_set \in 0 .. TxBufs - 1 /\ Pending \in 0 .. TxBufs
      /\ queued \in Nat /\ sent \in Nat /\ TxBufs \in Nat \ {0}
  BY RingsAssumption DEF RingsAssumption, TxInv, TypeOK
<1>2. Dist(tx_dma) = 0
  BY <1>1 DEF Dist
<1>3. Pending > 0 /\ sent' = sent + 1
  BY <1>1, <1>2 DEF DmaSends, TxInv, OwnedArePending
<1>4. Pending' = Pending - 1
  BY <1>1, <1>3 DEF DmaSends, Pending, etx
<1>5. tx_dma' = IF tx_dma = TxBufs - 1 THEN 0 ELSE tx_dma + 1
  BY <1>1, NextFacts DEF DmaSends
<1>6. OwnedArePending'
  <2> SUFFICES ASSUME NEW i \in 0 .. TxBufs - 1
               PROVE  /\ tx_own'[i] <=> Dist(i)' < Pending'
                      /\ tx_own'[i] => tx_frame'[i] = sent' + 1 + Dist(i)'
    BY DEF OwnedArePending
  <2>1. Dist(i)' = IF i = tx_dma THEN TxBufs - 1 ELSE Dist(i) - 1
    BY <1>1, <1>5 DEF Dist
  <2>2. tx_own'[i] = IF i = tx_dma THEN FALSE ELSE tx_own[i]
    BY DEF DmaSends, TxInv, TypeOK
  <2>3. tx_frame'[i] = tx_frame[i] /\ Dist(i) \in Int
    BY <1>1 DEF DmaSends, Dist
  <2>4. /\ tx_own[i] <=> Dist(i) < Pending
        /\ tx_own[i] => tx_frame[i] = sent + 1 + Dist(i)
    BY DEF TxInv, OwnedArePending
  <2>5. CASE i = tx_dma
    BY <1>1, <1>4, <2>1, <2>2, <2>5
  <2>6. CASE i # tx_dma
    BY <1>1, <1>3, <1>4, <2>1, <2>2, <2>3, <2>4, <2>6
  <2>7. QED
    BY <2>5, <2>6
<1>7. FreshFollows'
  <2>1. Fresh' = Fresh
    BY DEF DmaSends, Fresh
  <2>2. QED
    BY <1>1, <1>3, <1>4, <1>5, <2>1 DEF TxInv, FreshFollows
<1>8. RoomSignalled'
  BY <1>1, <1>3, <1>4 DEF DmaSends, TxInv, RoomSignalled, waitTx
<1>9. TypeOK'
  BY TypeStep DEF TxInv, Next
<1>10. QED
  BY <1>1, <1>3, <1>4, <1>6, <1>7, <1>8, <1>9 DEF DmaSends, TxInv

(* The sender puts its frame behind the pending ones. *)
LEMMA TxFillInv == ASSUME TxInv, TxFill PROVE TxInv'
<1>1. /\ tx_dma \in 0 .. TxBufs - 1 /\ tx_set \in 0 .. TxBufs - 1 /\ Pending \in 0 .. TxBufs
      /\ queued \in Nat /\ sent \in Nat /\ TxBufs \in Nat \ {0}
  BY RingsAssumption DEF RingsAssumption, TxInv, TypeOK
<1>2. tpc = "fill" /\ tpc' = "kick" /\ Pending < TxBufs
  BY DEF TxFill, AtTx, TxInv, RoomSignalled
<1>3. Pending' = Pending + 1 /\ sent' = sent /\ queued' = queued + 1
  BY <1>1 DEF TxFill, Pending
<1>4. tx_set = IF tx_dma + Pending < TxBufs THEN tx_dma + Pending
                                           ELSE tx_dma + Pending - TxBufs
  BY <1>2 DEF TxInv, FreshFollows, Fresh
<1>5. Dist(tx_set) = Pending
  BY <1>1, <1>2, <1>4 DEF Dist
<1>6. OwnedArePending'
  <2> SUFFICES ASSUME NEW i \in 0 .. TxBufs - 1
               PROVE  /\ tx_own'[i] <=> Dist(i)' < Pending'
                      /\ tx_own'[i] => tx_frame'[i] = sent' + 1 + Dist(i)'
    BY DEF OwnedArePending
  <2>1. Dist(i)' = Dist(i) /\ Dist(i) \in Int
    BY <1>1 DEF TxFill, Dist
  <2>2. tx_own'[i] = IF i = tx_set THEN TRUE ELSE tx_own[i]
    BY DEF TxFill, TxInv, TypeOK
  <2>3. tx_frame'[i] = IF i = tx_set THEN queued + 1 ELSE tx_frame[i]
    BY <1>3 DEF TxFill, TxInv, TypeOK
  <2>4. /\ tx_own[i] <=> Dist(i) < Pending
        /\ tx_own[i] => tx_frame[i] = sent + 1 + Dist(i)
    BY DEF TxInv, OwnedArePending
  <2>5. CASE i = tx_set
    BY <1>1, <1>3, <1>5, <2>1, <2>2, <2>3, <2>5 DEF Pending
  <2>6. CASE i # tx_set
    <3>1. Dist(i) # Pending
      BY <1>1, <1>5, <2>6 DEF Dist
    <3>2. QED
      BY <1>1, <1>3, <2>1, <2>2, <2>3, <2>4, <2>6, <3>1
  <2>7. QED
    BY <2>5, <2>6
<1>7. FreshFollows'
  <2>1. Fresh' = (IF tx_set = TxBufs - 1 THEN 0 ELSE tx_set + 1) /\ tx_dma' = tx_dma
    BY <1>1, <1>2, NextFacts DEF TxFill, Fresh, NextTx
  <2>2. QED
    BY <1>1, <1>2, <1>3, <1>4, <2>1 DEF FreshFollows
<1>8. RoomSignalled'
  BY <1>2 DEF TxFill, AtTx, NoInterrupt, TxInv, RoomSignalled, waitTx, status
<1>9. TypeOK'
  BY TypeStep DEF TxInv, Next, Threads
<1>10. QED
  BY <1>1, <1>2, <1>3, <1>6, <1>7, <1>8, <1>9 DEF TxFill, TxInv

(* Every other step leaves the frames where they are. *)
LEMMA TxOtherInv ==
  ASSUME ~Relink, TxInv, [Next]_vars, ~TxFill, ~DmaSends
  PROVE  TxInv' /\ sent' = sent
<1>1. ~PhyReset /\ ~PhyTxSet /\ ~PhyTxChain /\ ~PhyRxChain /\ ~PhyStart
  BY DEF TxInv, PhyReset, PhyTxSet, PhyTxChain, PhyRxChain, PhyStart, AtPhy
<1> USE DEF txRing, rxRing, waitTx, status, handler, etx, erx, vars, AtTx, AtRx
<1>2. UNCHANGED <<tx_own, tx_frame, tx_dma, queued, sent, ppc>>
  BY <1>1 DEF Next, Threads, TxCall, TxTest, TxFlag, TxTake, TxKick, RxMail, RxNone,
              RxCopy, RxGive, RxResume, DmaSuspendsTx, DmaStores, DmaSuspendsRx,
              IsrEnter, IsrExit
<1>3. Pending' = Pending /\ OwnedArePending'
  BY <1>2 DEF TxInv, Pending, OwnedArePending, Dist
<1>4. Fresh' = Fresh
  <2>1. CASE TxKick
    BY <2>1 DEF TxKick, Fresh, NextTx
  <2>2. CASE UNCHANGED tx_set /\ (tpc' = "kick" <=> tpc = "kick")
    BY <2>2 DEF Fresh, NextTx
  <2>3. QED
    BY <1>1, <2>1, <2>2
    DEF Next, Threads, TxCall, TxTest, TxFlag, TxTake, RxMail, RxNone, RxCopy, RxGive,
        RxResume, DmaSuspendsTx, DmaStores, DmaSuspendsRx, IsrEnter, IsrExit
<1>5. FreshFollows'
  BY <1>2, <1>3, <1>4 DEF TxInv, FreshFollows
<1>6. RoomSignalled'
  <2>1. CASE TxTest
    <3>1. tpc' = "fill" => Pending < TxBufs
      BY <2>1, RoomIsFree DEF TxTest, DescriptorBusy
    <3>2. QED
      BY <1>3, <2>1, <3>1 DEF TxTest, TxInv, RoomSignalled
  <2>2. CASE TxTake
    BY <1>3, <2>2 DEF TxTake, TxInv, RoomSignalled
  <2>3. CASE TxFlag
    BY <1>3, <2>3 DEF TxFlag, TxInv, RoomSignalled
  <2>4. CASE IsrEnter
    <3>1. stT /\ tx_is_waiting => tx_wait = 0 /\ tpc = "take" /\ Pending < TxBufs
      BY DEF TxInv, RoomSignalled
    <3>2. QED
      BY <1>3, <2>4, <3>1 DEF IsrEnter, WakesSender, TxInv, RoomSignalled
  <2>5. CASE IsrExit
    BY <1>3, <2>5 DEF IsrExit, TxInv, RoomSignalled
  <2>6. CASE TxCall \/ TxKick
    BY <1>3, <2>6 DEF TxCall, TxKick, TxInv, RoomSignalled
  <2>7. CASE UNCHANGED <<stT, tx_wait, tx_is_waiting, tpc>>
    BY <1>3, <2>7 DEF TxInv, RoomSignalled
  <2>8. QED
    BY <1>1, <2>1, <2>2, <2>3, <2>4, <2>5, <2>6, <2>7
    DEF Next, Threads, RxMail, RxNone, RxCopy, RxGive, RxResume, DmaSuspendsTx,
        DmaStores, DmaSuspendsRx
<1>7. TypeOK'
  BY TypeStep DEF TxInv
<1>8. QED
  BY <1>2, <1>3, <1>5, <1>6, <1>7 DEF TxInv

LEMMA TxStep ==
  ASSUME ~Relink PROVE TxInv /\ [Next]_vars => TxInv' /\ (sent' # sent => sent' = sent + 1)
  BY DmaSendsInv, TxFillInv, TxOtherInv DEF TxFill

LEMMA TxHolds == ASSUME ~Relink PROVE Spec => []TxInv
<1>1. TxInv /\ [Next]_vars => TxInv'
  BY TxStep
<1>2. QED
  BY <1>1, TxInit, PTL DEF Spec

(* A sender never writes into a buffer that the DMA has yet to send, although
   it does not look at the OWN bit again after the semaphore. *)
THEOREM FreeBufferFilled == ASSUME ~Relink PROVE Spec => []FillsFreeBuffer
<1>1. TxInv => FillsFreeBuffer
  BY RoomIsFree DEF TxInv, RoomSignalled, FillsFreeBuffer
<1>2. QED
  BY <1>1, TxHolds, PTL

(* Frames leave in the order of the calls, none twice and none skipped. *)
THEOREM SentInOrder == ASSUME ~Relink PROVE Spec => SendsInOrder
<1>1. TxInv /\ [Next]_vars => [sent' # sent => sent' = sent + 1]_sent
  BY TxStep
<1>2. QED
  BY <1>1, TxHolds, PTL DEF Spec, SendsInOrder
------------------------------------------------------------------------------
(* Transmission goes on: the DMA is suspended over a frame only until the
   sender that queued it polls, and a sender that waits is known to the handler
   or has its token. *)
MovesInv ==
  /\ TxInv /\ tx_run
  /\ tbus /\ Pending > 0 => tpc = "kick"
  /\ tpc = "take" => tx_is_waiting \/ tx_wait > 0

(* While the ring holds a frame, the DMA is at one and runs, or is about to be
   polled. *)
QueueMoves ==
  (\E i \in 0 .. TxBufs - 1 : tx_own[i]) => tx_run /\ tx_own[tx_dma] /\ (tbus => tpc = "kick")

(* For a sender that sleeps on a busy descriptor there is a token, or the
   handler knows of it and the DMA has a frame to send that will call the
   handler. *)
WakeComes ==
  tpc = "take" /\ tx_own[tx_set] =>
    tx_wait > 0 \/ (tx_is_waiting /\ tx_run /\ ~tbus /\ tx_own[tx_dma])

(* The DMA's descriptor holds a frame exactly when one is pending. *)
LEMMA DmaAtPending ==
  ASSUME TxInv
  PROVE  /\ tx_own[tx_dma] <=> Pending > 0
         /\ (\E i \in 0 .. TxBufs - 1 : tx_own[i]) => Pending > 0
<1>1. tx_dma \in 0 .. TxBufs - 1 /\ Pending \in 0 .. TxBufs /\ TxBufs \in Nat
  BY RingsAssumption DEF RingsAssumption, TxInv, TypeOK
<1>2. Dist(tx_dma) = 0 /\ \A i \in 0 .. TxBufs - 1 : Dist(i) \in Nat
  BY <1>1 DEF Dist
<1>3. QED
  BY <1>1, <1>2 DEF TxInv, OwnedArePending

LEMMA MovesStep == ASSUME ~Relink PROVE MovesInv /\ [Next]_vars => MovesInv'
<1> SUFFICES ASSUME MovesInv, [Next]_vars PROVE MovesInv'
  OBVIOUS
<1> TxInv /\ TxInv'
  BY TxStep DEF MovesInv
<1>1. Pending \in Nat /\ tx_wait \in Nat
  BY RingsAssumption DEF RingsAssumption, TxInv, TypeOK
<1>2. ~PhyReset /\ ~PhyTxSet /\ ~PhyTxChain /\ ~PhyRxChain /\ ~PhyStart
  BY <1>1 DEF TxInv, PhyReset, PhyTxSet, PhyTxChain, PhyRxChain, PhyStart, AtPhy
<1> USE DEF txRing, rxRing, waitTx, status, handler, etx, erx, vars, AtTx, AtRx, MovesInv
<1>3. CASE TxFill
  BY <1>1, <1>3 DEF TxFill
<1>4. CASE DmaSends
  BY <1>1, <1>4 DEF DmaSends
<1>5. CASE TxFlag \/ TxTest \/ TxCall
  <2>1. tpc # "kick" /\ (tpc' = "take" => tx_is_waiting') /\ UNCHANGED <<tbus, tx_run, queued, sent>>
    BY <1>5 DEF TxFlag, TxTest, TxCall
  <2>2. QED
    BY <1>1, <2>1 DEF Pending
<1>6. CASE TxTake
  <2>1. tpc' # "take" /\ (tbus' /\ Pending' > 0 => tpc' = "kick") /\ tx_run'
    BY <1>1, <1>6 DEF TxTake, Pending
  <2>2. QED
    BY <2>1
<1>7. CASE TxKick
  BY <1>1, <1>7 DEF TxKick, Pending
<1>8. CASE DmaSuspendsTx
  BY <1>1, <1>8, DmaAtPending DEF DmaSuspendsTx, Pending
<1>9. CASE IsrEnter
  BY <1>1, <1>9 DEF IsrEnter, Pending
<1>10. CASE UNCHANGED <<txRing, waitTx, etx>>
  BY <1>1, <1>10 DEF Pending
<1>11. QED
  BY <1>2, <1>3, <1>4, <1>5, <1>6, <1>7, <1>8, <1>9, <1>10
  DEF Next, Threads, RxMail, RxNone, RxCopy, RxGive, RxResume, DmaStores, DmaSuspendsRx, IsrExit

(* The safety core of QueuedFrameSent and of BusySenderWakes, on a link that
   stays up: neither a frame nor a sleeping sender is ever left with nothing
   that will move it ("clear it and resume transmission" in rt_stm32_eth_tx,
   tx_is_waiting in ETH_IRQHandler). *)
THEOREM SendingGoesOn == ASSUME ~Relink PROVE Spec => [](QueueMoves /\ WakeComes)
<1>1. Init => MovesInv
  BY TxInit, RingsAssumption DEF RingsAssumption, Init, MovesInv
<1>2. MovesInv /\ [Next]_vars => MovesInv'
  BY MovesStep
<1>3. ASSUME MovesInv PROVE QueueMoves
  BY <1>3, DmaAtPending DEF MovesInv, QueueMoves
<1>4. ASSUME MovesInv PROVE WakeComes
  BY <1>4, DmaAtPending DEF MovesInv, WakeComes, TxInv, TypeOK
<1>5. QED
  BY <1>1, <1>2, <1>3, <1>4, PTL DEF Spec
------------------------------------------------------------------------------
(* Reception with drops and a link that comes up again: a descriptor that was
   just given back is free, or its frame is announced. *)
FullInv ==
  /\ TypeOK /\ FullRingNoticed
  /\ isr /\ seenR => mail
  /\ rpc = "resume" => rx_own[rx_get] \/ stR \/ mail

LEMMA FullStep == FullInv /\ [Next]_vars => FullInv'
<1> SUFFICES ASSUME FullInv, [Next]_vars PROVE FullInv'
  OBVIOUS
<1>1. TypeOK'
  BY TypeStep DEF FullInv
<1>2. rx_get \in 0 .. RxBufs - 1 /\ rx_dma \in 0 .. RxBufs - 1
      /\ rx_own \in [0 .. RxBufs - 1 -> BOOLEAN]
  BY DEF FullInv, TypeOK
<1> USE DEF FullInv, FullRingNoticed, NoInterrupt, AtTx, AtRx, AtPhy,
            txRing, rxRing, waitTx, status, handler, etx, erx
<1>3. CASE TxCall \/ TxTest \/ TxFlag \/ TxTake \/ TxFill \/ TxKick
  BY <1>1, <1>3 DEF TxCall, TxTest, TxFlag, TxTake, TxFill, TxKick
<1>4. CASE RxMail \/ RxCopy
  BY <1>1, <1>4 DEF RxMail, RxCopy
<1>5. CASE RxNone
  BY <1>1, <1>2, <1>5 DEF RxNone
<1>6. CASE RxGive
  BY <1>1, <1>2, <1>6 DEF RxGive
<1>7. CASE RxResume
  BY <1>1, <1>2, <1>7 DEF RxResume
<1>8. CASE PhyReset \/ PhyTxSet \/ PhyTxChain \/ PhyStart
  BY <1>1, <1>8 DEF PhyReset, PhyTxSet, PhyTxChain, PhyStart
<1>9. CASE PhyRxChain
  BY <1>1, <1>9, RingsAssumption DEF RingsAssumption, PhyRxChain
<1>10. CASE DmaSends \/ DmaSuspendsTx \/ DmaSuspendsRx
  BY <1>1, <1>10 DEF DmaSends, DmaSuspendsTx, DmaSuspendsRx
<1>11. CASE DmaStores
  BY <1>1, <1>11 DEF DmaStores
<1>12. CASE IsrEnter
  BY <1>1, <1>12 DEF IsrEnter, Notifies
<1>13. CASE IsrExit
  BY <1>1, <1>13 DEF IsrExit, ClearedR
<1>14. CASE UNCHANGED vars
  BY <1>1, <1>14 DEF vars
<1>15. QED
  BY <1>3, <1>4, <1>5, <1>6, <1>7, <1>8, <1>9, <1>10, <1>11, <1>12, <1>13, <1>14
  DEF Next, Threads

(* A full receive ring is about to be read, also when frames are dropped and
   erx takes a dropped frame for the end of the ring, and when the PHY monitor
   initialises the ring. *)
THEOREM FullRingSeen == Spec => []FullRingNoticed
<1>1. Init => FullInv
  <2>1. ASSUME Init PROVE rx_own[0] /\ 0 \in 0 .. RxBufs - 1 /\ rpc = "idle" /\ ~isr
    BY <2>1, RingsAssumption DEF RingsAssumption, Init
  <2>2. QED
    BY <2>1, InitType DEF FullInv, FullRingNoticed
<1>2. FullInv => FullRingNoticed
  BY DEF FullInv
<1>3. QED
  BY <1>1, <1>2, FullStep, PTL DEF Spec
------------------------------------------------------------------------------
(* The order of reception.  While the DMA may run, the n frames that erx has not
   given back lie one after the other from Base on, the latest last; while the
   PHY monitor has stopped it, nothing calls erx. *)
Base == IF rpc = "resume" THEN NextRx(rx_get) ELSE rx_get
Ahead(i) == IF i >= Base THEN i - Base ELSE i - Base + RxBufs
Passed(n) == arrived - n + (IF rpc = "give" THEN 1 ELSE 0)

Holding(n) ==
  /\ rx_dma = IF Base + n < RxBufs THEN Base + n ELSE Base + n - RxBufs
  /\ \A i \in 0 .. RxBufs - 1 :
       /\ ~rx_own[i] <=> Ahead(i) < n
       /\ ~rx_own[i] => rx_frame[i] = arrived - n + 1 + Ahead(i)
  /\ got <= Passed(n) /\ (~Drops /\ ~Relink => got = Passed(n))
  /\ rpc = "give" => n > 0

Stopped ==
  /\ rx_run <=> ppc = "watch"
  /\ ~rx_run => Relink /\ rpc = "idle" /\ ~mail /\ ~stR /\ ~rbus /\ got <= arrived

Laid == ppc \in {"watch", "start"} => \E n \in 0 .. RxBufs : Holding(n)
RxInv == TypeOK /\ Stopped /\ Laid

(* What a step may do to the last frame passed up. *)
Passes == got' # got => IF Drops \/ Relink THEN got' > got ELSE got' = got + 1

LEMMA BaseRange ==
  ASSUME TypeOK
  PROVE  /\ Base \in 0 .. RxBufs - 1 /\ RxBufs \in Nat \ {0} /\ arrived \in Nat /\ got \in Nat
         /\ rx_get \in 0 .. RxBufs - 1 /\ rx_dma \in 0 .. RxBufs - 1
         /\ \A i \in 0 .. RxBufs - 1 : Ahead(i) \in 0 .. RxBufs - 1
<1>1. /\ Base \in 0 .. RxBufs - 1 /\ RxBufs \in Nat \ {0} /\ arrived \in Nat /\ got \in Nat
      /\ rx_get \in 0 .. RxBufs - 1 /\ rx_dma \in 0 .. RxBufs - 1
  BY NextRange, RingsAssumption DEF RingsAssumption, TypeOK, Base
<1>2. QED
  BY <1>1 DEF Ahead

LEMMA RxInit == Init => RxInv
<1> SUFFICES ASSUME Init PROVE RxInv
  OBVIOUS
<1>1. TypeOK /\ Base = 0 /\ RxBufs \in Nat \ {0}
  BY InitType, RingsAssumption DEF RingsAssumption, Init, Base
<1>2. Holding(0)
  BY <1>1 DEF Init, Holding, Ahead, Passed
<1>3. QED
  BY <1>1, <1>2 DEF Init, RxInv, Laid, Stopped

(* The DMA stores behind the frames it has stored. *)
LEMMA StoreHolds ==
  ASSUME RxInv, DmaStores, NEW n \in 0 .. RxBufs, Holding(n)
  PROVE  n + 1 \in 0 .. RxBufs /\ Holding(n + 1)'
<1>1. TypeOK
  BY DEF RxInv
<1>2. Ahead(rx_dma) = IF n = RxBufs THEN 0 ELSE n
  BY <1>1, BaseRange DEF Holding, Ahead
<1>3. n < RxBufs /\ Ahead(rx_dma) = n
  BY <1>1, <1>2, BaseRange DEF DmaStores, Holding
<1>4. Base' = Base /\ rpc' = rpc /\ arrived' = arrived + 1 /\ got' = got
  BY DEF DmaStores, Base, NextRx
<1>5. rx_dma' = IF Base + (n + 1) < RxBufs THEN Base + (n + 1) ELSE Base + (n + 1) - RxBufs
  BY <1>1, <1>3, NextFacts, BaseRange DEF DmaStores, Holding
<1>6. ASSUME NEW i \in 0 .. RxBufs - 1
      PROVE  /\ ~rx_own'[i] <=> Ahead(i)' < n + 1
             /\ ~rx_own'[i] => rx_frame'[i] = arrived' - (n + 1) + 1 + Ahead(i)'
  <2>1. Ahead(i)' = Ahead(i) /\ Ahead(i) \in Int
    BY <1>1, <1>4, BaseRange DEF Ahead
  <2>2. rx_own'[i] = (IF i = rx_dma THEN FALSE ELSE rx_own[i])
    BY <1>1 DEF DmaStores, TypeOK
  <2>3. rx_frame'[i] = IF i = rx_dma THEN arrived + 1 ELSE rx_frame[i]
    BY <1>1, <1>4 DEF DmaStores, TypeOK
  <2>4. CASE i = rx_dma
    BY <1>1, <1>3, <1>4, <2>1, <2>2, <2>3, <2>4, BaseRange
  <2>5. CASE i # rx_dma
    <3>1. Ahead(i) # n
      BY <1>1, <1>3, <2>5, BaseRange DEF Ahead
    <3>2. QED
      BY <1>1, <1>4, <2>1, <2>2, <2>3, <2>5, <3>1, BaseRange DEF Holding
  <2>6. QED
    BY <2>4, <2>5
<1>7. (got <= Passed(n + 1))' /\ (~Drops /\ ~Relink => got = Passed(n + 1))'
  BY <1>1, <1>4, BaseRange DEF Holding, Passed
<1>8. n + 1 \in 0 .. RxBufs /\ n + 1 > 0
  BY <1>1, <1>3, BaseRange
<1>9. Holding(n + 1)'
  BY <1>4, <1>5, <1>6, <1>7, <1>8 DEF Holding
<1>10. QED
  BY <1>8, <1>9

(* erx gives the oldest one back. *)
LEMMA GiveHolds ==
  ASSUME RxInv, RxGive, NEW n \in 0 .. RxBufs, Holding(n)
  PROVE  n - 1 \in 0 .. RxBufs /\ Holding(n - 1)'
<1>1. TypeOK /\ rpc = "give" /\ rpc' = "resume" /\ n > 0 /\ Base = rx_get
  BY DEF RxInv, RxGive, AtRx, Holding, Base
<1>2. UNCHANGED <<arrived, got, rx_frame, rx_dma, rx_get>>
  BY DEF RxGive
<1>3. Base' = IF Base = RxBufs - 1 THEN 0 ELSE Base + 1
  BY <1>1, <1>2, NextFacts, BaseRange DEF Base, NextRx
<1>4. rx_dma' = IF Base' + (n - 1) < RxBufs THEN Base' + (n - 1) ELSE Base' + (n - 1) - RxBufs
  BY <1>1, <1>2, <1>3, BaseRange DEF Holding
<1>5. ASSUME NEW i \in 0 .. RxBufs - 1
      PROVE  /\ ~rx_own'[i] <=> Ahead(i)' < n - 1
             /\ ~rx_own'[i] => rx_frame'[i] = arrived' - (n - 1) + 1 + Ahead(i)'
  <2>1. Ahead(i)' = IF i = Base THEN RxBufs - 1 ELSE Ahead(i) - 1
    BY <1>1, <1>3, BaseRange DEF Ahead
  <2>2. rx_own'[i] = (IF i = Base THEN TRUE ELSE rx_own[i])
    BY <1>1 DEF RxGive, TypeOK
  <2>3. CASE i = Base
    BY <1>1, <2>1, <2>2, <2>3, BaseRange
  <2>4. CASE i # Base
    BY <1>1, <1>2, <2>1, <2>2, <2>4, BaseRange DEF Holding
  <2>5. QED
    BY <2>3, <2>4
<1>6. (got <= Passed(n - 1))' /\ (~Drops /\ ~Relink => got = Passed(n - 1))'
  BY <1>1, <1>2, BaseRange DEF Holding, Passed
<1>7. n - 1 \in 0 .. RxBufs
  BY <1>1, BaseRange
<1>8. Holding(n - 1)'
  BY <1>1, <1>4, <1>5, <1>6 DEF Holding
<1>9. QED
  BY <1>7, <1>8

(* erx copies the oldest one. *)
LEMMA CopyHolds ==
  ASSUME RxInv, RxCopy, NEW n \in 0 .. RxBufs, Holding(n)
  PROVE  Holding(n)' /\ Passes
<1>1. TypeOK /\ rpc = "poll" /\ rpc' = "give" /\ Base = rx_get /\ Base' = Base /\ ~rx_own[rx_get]
  BY DEF RxInv, RxCopy, AtRx, Base, rxRing
<1>2. Ahead(rx_get) = 0
  BY <1>1, BaseRange DEF Ahead
<1>3. n > 0 /\ rx_frame[rx_get] = arrived - n + 1
  BY <1>1, <1>2, BaseRange DEF Holding
<1>4. UNCHANGED <<arrived, rx_own, rx_frame, rx_dma>> /\ (got' = arrived - n + 1 \/ (Drops /\ got' = got))
  BY <1>3 DEF RxCopy, FrameRead, rxRing
<1>5. got <= arrived - n /\ (~Drops /\ ~Relink => got = arrived - n)
  BY <1>1, BaseRange DEF Holding, Passed
<1>6. (got <= Passed(n))' /\ (~Drops /\ ~Relink => got = Passed(n))'
  BY <1>1, <1>4, <1>5, BaseRange DEF Passed
<1>7. \A i \in 0 .. RxBufs - 1 : Ahead(i)' = Ahead(i)
  BY <1>1 DEF Ahead
<1>8. Holding(n)'
  BY <1>1, <1>3, <1>4, <1>6, <1>7 DEF Holding
<1>9. QED
  BY <1>1, <1>4, <1>5, <1>8, BaseRange DEF Passes

Phy == PhyReset \/ PhyTxSet \/ PhyTxChain \/ PhyRxChain \/ PhyStart

(* The steps of the PHY monitor: it stops the DMA while erx sleeps without mail,
   and starts it on an empty ring. *)
LEMMA PhyHolds ==
  ASSUME RxInv, Phy
  PROVE  Stopped' /\ Laid' /\ got' = got
<1> USE DEF txRing, rxRing, waitTx, status, handler, etx, erx, AtPhy, NoInterrupt, Phy
<1>1. TypeOK /\ Stopped /\ Laid
  BY DEF RxInv
<1>2. CASE PhyReset
  <2>1. ppc = "watch" /\ rpc = "idle" /\ ~mail /\ ~stR /\ Relink
    BY <1>2 DEF PhyReset
  <2>2. PICK n \in 0 .. RxBufs : Holding(n)
    BY <1>1, <2>1 DEF Laid
  <2>3. got <= arrived
    BY <1>1, <2>1, <2>2, BaseRange DEF Holding, Passed
  <2>4. QED
    BY <1>2, <2>1, <2>3 DEF PhyReset, Stopped, Laid
<1>3. CASE PhyTxSet \/ PhyTxChain
  BY <1>1, <1>3 DEF PhyTxSet, PhyTxChain, Stopped, Laid
<1>4. CASE PhyRxChain
  <2>1. rpc = "idle" /\ got <= arrived /\ Relink
    BY <1>1, <1>4 DEF PhyRxChain, Stopped
  <2>2. RxBufs \in Nat \ {0} /\ arrived \in Nat /\ got \in Nat
    BY <1>1, BaseRange
  <2>3. /\ Base' = 0 /\ rx_dma' = 0 /\ rpc' = "idle" /\ got' = got /\ arrived' = arrived
        /\ \A i \in 0 .. RxBufs - 1 : rx_own'[i] = TRUE /\ Ahead(i)' = i
    BY <1>4, <2>1 DEF PhyRxChain, Base, Ahead
  <2>4. Holding(0)'
    BY <2>1, <2>2, <2>3 DEF Holding, Passed
  <2>5. Laid'
    BY <2>2, <2>4 DEF Laid
  <2>6. QED
    BY <1>1, <1>4, <2>5 DEF PhyRxChain, Stopped
<1>5. CASE PhyStart
  <2>1. PICK n \in 0 .. RxBufs : Holding(n)
    BY <1>1, <1>5 DEF PhyStart, Laid
  <2>2. /\ UNCHANGED <<rx_own, rx_frame, rx_get, rx_dma, rpc, arrived, got>>
        /\ Base' = Base /\ Passed(n)' = Passed(n)
    BY <1>5 DEF PhyStart, Base, NextRx, Passed
  <2>3. \A i \in 0 .. RxBufs - 1 : Ahead(i)' = Ahead(i)
    BY <2>2 DEF Ahead
  <2>4. Holding(n)'
    BY <2>1, <2>2, <2>3 DEF Holding
  <2>5. QED
    BY <1>5, <2>4 DEF PhyStart, Stopped, Laid
<1>6. QED
  BY <1>2, <1>3, <1>4, <1>5

(* The other steps leave the frames with erx where they are. *)
LEMMA RxOtherHolds ==
  ASSUME [Next]_vars, ~DmaStores, ~RxGive, ~RxCopy, ~Phy, NEW n \in 0 .. RxBufs, Holding(n)
  PROVE  Holding(n)' /\ got' = got
<1>1. ~PhyReset /\ ~PhyTxSet /\ ~PhyTxChain /\ ~PhyRxChain /\ ~PhyStart
  BY DEF Phy
<1> USE DEF txRing, rxRing, waitTx, status, handler, etx, erx, vars, AtTx, AtRx
<1>2. UNCHANGED <<rx_own, rx_frame, rx_dma, arrived, got>>
  BY <1>1 DEF Next, Threads, TxCall, TxTest, TxFlag, TxTake, TxFill, TxKick, RxMail, RxNone,
              RxResume, DmaSends, DmaSuspendsTx, DmaSuspendsRx, IsrEnter, IsrExit
<1>3. Base' = Base /\ (rpc = "give" <=> rpc' = "give")
  <2>1. CASE RxResume
    BY <2>1 DEF RxResume, Base, NextRx
  <2>2. CASE RxMail \/ RxNone
    BY <2>2 DEF RxMail, RxNone, Base
  <2>3. CASE UNCHANGED <<rx_get, rpc>>
    BY <2>3 DEF Base, NextRx
  <2>4. QED
    BY <1>1, <2>1, <2>2, <2>3
    DEF Next, Threads, TxCall, TxTest, TxFlag, TxTake, TxFill, TxKick, DmaSends, DmaSuspendsTx,
        DmaSuspendsRx, IsrEnter, IsrExit
<1>4. \A i \in 0 .. RxBufs - 1 : Ahead(i)' = Ahead(i)
  BY <1>3 DEF Ahead
<1>5. Passed(n)' = Passed(n)
  BY <1>2, <1>3 DEF Passed
<1>6. QED
  BY <1>2, <1>3, <1>4, <1>5 DEF Holding

(* No step but the monitor's leads out of the watch, and erx does not start
   while the DMA is stopped. *)
LEMMA StoppedStep ==
  ASSUME Stopped, TypeOK, [Next]_vars, ~Phy
  PROVE  Stopped' /\ ppc' = ppc /\ (~rx_run => UNCHANGED <<got, rpc>>)
<1>1. ~PhyReset /\ ~PhyTxSet /\ ~PhyTxChain /\ ~PhyRxChain /\ ~PhyStart
  BY DEF Phy
<1> USE DEF txRing, rxRing, waitTx, status, handler, etx, erx, vars, AtTx, AtRx, Stopped
<1>2. CASE TxCall \/ TxTest \/ TxFlag \/ TxTake \/ TxFill \/ TxKick \/ DmaSends \/ DmaSuspendsTx
  BY <1>2 DEF TxCall, TxTest, TxFlag, TxTake, TxFill, TxKick, DmaSends, DmaSuspendsTx
<1>3. CASE RxMail \/ RxNone \/ RxCopy \/ RxGive \/ RxResume
  BY <1>3 DEF RxMail, RxNone, RxCopy, RxGive, RxResume
<1>4. CASE DmaStores \/ DmaSuspendsRx
  BY <1>4 DEF DmaStores, DmaSuspendsRx
<1>5. CASE IsrEnter
  BY <1>5 DEF IsrEnter, Notifies
<1>6. CASE IsrExit
  BY <1>6 DEF IsrExit
<1>7. CASE UNCHANGED vars
  BY <1>7
<1>8. QED
  BY <1>1, <1>2, <1>3, <1>4, <1>5, <1>6, <1>7 DEF Next, Threads

LEMMA RxStep == ASSUME RxInv, [Next]_vars PROVE RxInv' /\ Passes
<1>1. TypeOK' /\ TypeOK /\ Stopped /\ Laid /\ got \in Nat
  BY TypeStep DEF RxInv, TypeOK
<1>2. CASE Phy
  BY <1>1, <1>2, PhyHolds DEF RxInv, Passes
<1>3. CASE ~Phy /\ ppc \notin {"watch", "start"}
  <2>1. Stopped' /\ ppc' = ppc /\ got' = got
    BY <1>1, <1>3, StoppedStep DEF Stopped
  <2>2. QED
    BY <1>1, <1>3, <2>1 DEF RxInv, Laid, Passes
<1>4. CASE ~Phy /\ ppc \in {"watch", "start"}
  <2>1. PICK n \in 0 .. RxBufs : Holding(n)
    BY <1>1, <1>4 DEF Laid
  <2>2. Stopped' /\ ppc' = ppc
    BY <1>1, <1>4, StoppedStep
  <2>3. CASE DmaStores
    <3>1. n + 1 \in 0 .. RxBufs /\ Holding(n + 1)' /\ got' = got
      BY <2>1, <2>3, StoreHolds DEF DmaStores
    <3>2. QED
      BY <1>1, <2>2, <3>1 DEF RxInv, Laid, Passes
  <2>4. CASE RxGive
    <3>1. n - 1 \in 0 .. RxBufs /\ Holding(n - 1)' /\ got' = got
      BY <2>1, <2>4, GiveHolds DEF RxGive
    <3>2. QED
      BY <1>1, <2>2, <3>1 DEF RxInv, Laid, Passes
  <2>5. CASE RxCopy
    BY <1>1, <2>1, <2>2, <2>5, CopyHolds DEF RxInv, Laid
  <2>6. CASE ~DmaStores /\ ~RxGive /\ ~RxCopy
    <3>1. Holding(n)' /\ got' = got
      BY <1>4, <2>1, <2>6, RxOtherHolds
    <3>2. QED
      BY <1>1, <2>2, <3>1 DEF RxInv, Laid, Passes
  <2>7. QED
    BY <2>3, <2>4, <2>5, <2>6
<1>5. QED
  BY <1>2, <1>3, <1>4

(* Also when the PHY monitor initialises the ring between two frames,
   rt_stm32_eth_rx passes frames up in the order the DMA stored them. *)
THEOREM NoneTwice == Spec => [][Passes]_got
<1>1. RxInv /\ [Next]_vars => RxInv' /\ [Passes]_got
  BY RxStep
<1>2. QED
  BY <1>1, RxInit, PTL DEF Spec

(* rt_stm32_eth_rx passes frames up in the order the DMA stored them, each
   once, and skips none that it does not drop, on a link that stays up; where
   frames are dropped the order is kept also when the link comes up again. *)
THEOREM ReceivedInOrder == ASSUME Drops \/ ~Relink PROVE Spec => ReceivesInOrder
<1>1. [Passes]_got => [got' # got => IF Drops THEN got' > got ELSE got' = got + 1]_got
  BY DEF Passes
<1>2. QED
  BY <1>1, NoneTwice, PTL DEF ReceivesInOrder
------------------------------------------------------------------------------
(* Reception goes on.  The DMA is suspended over a full ring only, or until erx,
   which has given a descriptor back, polls it. *)
SuspendInv ==
  rbus => rpc = "resume" \/ \A i \in 0 .. RxBufs - 1 : ~rx_own[i]

(* Somebody is on the way to resume it. *)
ResumeComes == rbus => stR \/ mail \/ rpc # "idle"

LEMMA SuspendsFull ==
  ASSUME RxInv, DmaSuspendsRx
  PROVE  \A i \in 0 .. RxBufs - 1 : ~rx_own[i]
<1>1. TypeOK
  BY DEF RxInv
<1>2. PICK n \in 0 .. RxBufs : Holding(n)
  BY DEF RxInv, Laid, Stopped, DmaSuspendsRx
<1>3. Ahead(rx_dma) = IF n = RxBufs THEN 0 ELSE n
  BY <1>1, <1>2, BaseRange DEF Holding, Ahead
<1>4. n = RxBufs
  BY <1>1, <1>2, <1>3, BaseRange DEF DmaSuspendsRx, Holding
<1>5. QED
  BY <1>1, <1>2, <1>4, BaseRange DEF Holding

LEMMA SuspendStep == RxInv /\ SuspendInv /\ [Next]_vars => SuspendInv'
<1> SUFFICES ASSUME RxInv, SuspendInv, [Next]_vars PROVE SuspendInv'
  OBVIOUS
<1> USE DEF txRing, rxRing, waitTx, status, handler, etx, erx, vars, AtTx, AtRx, AtPhy, SuspendInv
<1>1. CASE DmaSuspendsRx
  BY <1>1, SuspendsFull DEF DmaSuspendsRx
<1>2. CASE RxResume \/ PhyReset
  BY <1>2 DEF RxResume, PhyReset
<1>3. CASE RxGive
  BY <1>3 DEF RxGive
<1>4. CASE DmaStores
  BY <1>4 DEF DmaStores
<1>5. CASE PhyRxChain
  <2>1. ~rbus
    BY <1>5 DEF PhyRxChain, RxInv, Stopped
  <2>2. QED
    BY <1>5, <2>1 DEF PhyRxChain
<1>6. CASE UNCHANGED <<rbus, rx_own>> /\ (rpc = "resume" => rpc' = "resume")
  BY <1>6
<1>7. QED
  BY <1>1, <1>2, <1>3, <1>4, <1>5, <1>6
  DEF Next, Threads, TxCall, TxTest, TxFlag, TxTake, TxFill, TxKick, RxMail, RxNone, RxCopy,
      PhyTxSet, PhyTxChain, PhyStart, DmaSends, DmaSuspendsTx, IsrEnter, IsrExit

(* The safety core of ReceptionResumes: although the interrupt for a suspended
   reception is not enabled, the notice of a frame or erx at work always brings
   the poll demand of rt_stm32_eth_rx, also with drops and relinks. *)
THEOREM ReceptionGoesOn == Spec => []ResumeComes
<1>1. Init => RxInv /\ SuspendInv
  BY RxInit DEF Init, SuspendInv
<1>2. RxInv /\ SuspendInv /\ [Next]_vars => RxInv' /\ SuspendInv'
  BY RxStep, SuspendStep
<1>3. SuspendInv /\ FullRingNoticed => ResumeComes
  BY DEF SuspendInv, FullRingNoticed, ResumeComes
<1>4. QED
  BY <1>1, <1>2, <1>3, FullRingSeen, PTL DEF Spec
==============================================================================
