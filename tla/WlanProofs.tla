----------------------------- MODULE WlanProofs -----------------------------
(***************************************************************************)
(* Theorems about Wlan for every size of the mailbox and any number of     *)
(* frames and commands.                                                    *)
(***************************************************************************)
EXTENDS Wlan, TLAPS

LEMMA InitTyped == Init => TypeOK
<1> SUFFICES ASSUME Init PROVE TypeOK
  OBVIOUS
<1>1. /\ RxList \in Seq(Nat) /\ Len(RxList) = 0 /\ card_cmd \in Seq(Nat) /\ waiting \in Seq(Callers)
      /\ mail \in Seq({"wlan", "wired"}) /\ Len(mail) <= MailSlots
  BY WlanAssumption DEF WlanAssumption, Init
<1>2. mask \in BOOLEAN /\ irq \in BOOLEAN /\ nvic \in BOOLEAN /\ wakeup \in BOOLEAN
      /\ cur_cmd \in BOOLEAN /\ cmdwaitevent \in BOOLEAN
  BY DEF Init
<1>3. QED
  BY <1>1, <1>2 DEF Init, TypeOK, Bits

LEMMA PostTyped ==
  ASSUME TypeOK, NEW device \in {"wlan", "wired"}, Post(device)
  PROVE  mail' \in Seq({"wlan", "wired"}) /\ Len(mail') <= MailSlots
  BY WlanAssumption DEF WlanAssumption, TypeOK, Post

LEMMA SeqTyped ==
  ASSUME NEW S, NEW seq \in Seq(S), NEW e \in S
  PROVE  Append(seq, e) \in Seq(S) /\ <<e>> \in Seq(S)
  OBVIOUS

LEMMA TellTyped ==
  ASSUME TypeOK, NEW c \in Callers, CmdTell(c) PROVE card_cmd' \in Seq(Nat)
<1>1. card_cmd \in Seq(Nat) /\ sent \in Nat /\ card_cmd' \in {Append(card_cmd, sent), <<sent>>}
  BY DEF TypeOK, CmdTell
<1>2. QED
  BY <1>1, SeqTyped

LEMMA RecvTyped ==
  ASSUME TypeOK, NEW c \in Callers, CmdRecv(c) PROVE waiting' \in Seq(Callers)
<1>1. waiting \in Seq(Callers) /\ (waiting' = waiting \/ waiting' = Append(waiting, c))
  BY DEF TypeOK, CmdRecv
<1>2. QED
  BY <1>1, SeqTyped

LEMMA StepTyped == TypeOK /\ [Next]_vars => TypeOK'
<1> SUFFICES ASSUME TypeOK, [Next]_vars PROVE TypeOK'
  OBVIOUS
<1> USE DEF TypeOK, cardVars, line, wlanPc, rxQueue, command, caller, erx, Bits
<1>1. CASE Card
  <2>1. irq' \in BOOLEAN /\ nvic' \in BOOLEAN /\ wakeup' \in BOOLEAN /\ mask' \in BOOLEAN
        /\ cur_cmd' \in BOOLEAN /\ cmdwaitevent' \in BOOLEAN
    BY <1>1 DEF Card, CardFrame, CardReply, CardEvent, Raise
  <2>2. CASE CardFrame
    BY <2>1, <2>2 DEF CardFrame, Raise
  <2>3. CASE CardReply
    <3>1. card_cmd' \in Seq(Nat) /\ reply' \in Nat
      BY <2>3 DEF CardReply
    <3>2. QED
      BY <2>1, <2>3, <3>1 DEF CardReply, Raise
  <2>4. CASE CardEvent
    BY <2>1, <2>4 DEF CardEvent, Raise
  <2>5. QED
    BY <1>1, <2>2, <2>3, <2>4 DEF Card
<1>2. CASE Isr
  BY <1>2 DEF Isr
<1>3. CASE RxThread
  <2>1. CASE RxWake \/ RxStatus
    <3>1. wakeup' \in BOOLEAN /\ irq' \in BOOLEAN /\ nvic' \in BOOLEAN /\ mask' \in BOOLEAN
      BY <2>1 DEF RxWake, RxStatus, Listen
    <3>2. QED
      BY <2>1, <3>1 DEF RxWake, RxStatus
  <2>2. CASE RxFetch
    <3>1. RxList' \in Seq(Nat) /\ RxQueueCount' = Len(RxList')
      <4>1. CASE UNCHANGED rxQueue
        BY <4>1
      <4>2. CASE RxList' = Append(RxList, arrived) /\ RxQueueCount' = RxQueueCount + 1
        <5>1. RxList \in Seq(Nat) /\ arrived \in Nat /\ RxQueueCount = Len(RxList)
          OBVIOUS
        <5>2. QED
          BY <4>2, <5>1
      <4>3. QED
        BY <2>2, <4>1, <4>2 DEF RxFetch, Pushed
    <3>2. QED
      BY <2>2, <3>1 DEF RxFetch
  <2>3. CASE RxReply
    BY <2>3 DEF RxReply
  <2>4. CASE RxCommand
    <3>1. cmdwaitevent' \in BOOLEAN
      BY <2>4 DEF RxCommand, EventSend
    <3>2. waiting' \in Seq(Callers) /\ cpc' \in [Callers -> {"idle", "tell", "load", "store", "recv", "wait"}]
      <4>1. CASE UNCHANGED <<waiting, cpc>>
        BY <4>1
      <4>2. CASE waiting # <<>> /\ cpc' = [cpc EXCEPT ![Head(waiting)] = "idle"] /\ waiting' = Tail(waiting)
        BY <4>2
      <4>3. QED
        BY <2>4, <4>1, <4>2 DEF RxCommand, EventSend
    <3>3. answered' \in Nat /\ HisRegCpy' \subseteq Bits
      BY <2>4 DEF RxCommand
    <3>4. QED
      BY <2>4, <3>1, <3>2, <3>3 DEF RxCommand
  <2>5. CASE RxNotice
    <3>1. mail' \in Seq({"wlan", "wired"}) /\ Len(mail') <= MailSlots
      BY <2>5, PostTyped DEF RxNotice
    <3>2. QED
      BY <2>5, <3>1 DEF RxNotice
  <2>6. CASE RxEvent \/ RxCause
    <3>1. irq' \in BOOLEAN /\ nvic' \in BOOLEAN /\ wakeup' \in BOOLEAN /\ mask' \in BOOLEAN
          /\ cur_cmd' \in BOOLEAN /\ cmdwaitevent' \in BOOLEAN
      BY <2>6 DEF RxEvent, RxCause
    <3>2. QED
      BY <2>6, <3>1 DEF RxEvent, RxCause
  <2>7. QED
    BY <1>3, <2>1, <2>2, <2>3, <2>4, <2>5, <2>6 DEF RxThread
<1>4. ASSUME NEW c \in Callers, CmdSend(c) \/ CallGoesOn(c) PROVE TypeOK'
  <2>1. irq' \in BOOLEAN /\ nvic' \in BOOLEAN /\ wakeup' \in BOOLEAN /\ mask' \in BOOLEAN
        /\ cur_cmd' \in BOOLEAN /\ cmdwaitevent' \in BOOLEAN
    BY <1>4 DEF CallGoesOn, CmdSend, CmdTell, CmdLoad, CmdStore, CmdRecv, Received
  <2>2. CASE CmdSend(c)
    BY <2>1, <2>2 DEF CmdSend, Out
  <2>3. CASE CmdTell(c)
    <3>1. card_cmd' \in Seq(Nat)
      BY <2>3, TellTyped
    <3>2. QED
      BY <2>1, <2>3, <3>1 DEF CmdTell
  <2>4. CASE CmdLoad(c)
    BY <2>1, <2>4 DEF CmdLoad
  <2>5. CASE CmdStore(c)
    BY <2>1, <2>5 DEF CmdStore
  <2>6. CASE CmdRecv(c)
    <3>1. waiting' \in Seq(Callers)
      BY <2>6, RecvTyped
    <3>2. QED
      BY <2>1, <2>6, <3>1 DEF CmdRecv
  <2>7. QED
    BY <1>4, <2>2, <2>3, <2>4, <2>5, <2>6 DEF CallGoesOn
<1>5. CASE WiredNotice
  <2>1. mail' \in Seq({"wlan", "wired"}) /\ Len(mail') <= MailSlots
    BY <1>5, PostTyped DEF WiredNotice
  <2>2. QED
    BY <1>5, <2>1 DEF WiredNotice
<1>6. CASE ErxMail
  <2>1. mail' \in Seq({"wlan", "wired"}) /\ Len(mail') <= MailSlots
    BY <1>6, WlanAssumption DEF WlanAssumption, ErxMail
  <2>2. QED
    BY <1>6, <2>1 DEF ErxMail
<1>7. CASE ErxPop
  <2>1. RxList' \in Seq(Nat) /\ RxQueueCount' = Len(RxList') /\ got' \in Nat
    BY <1>7 DEF ErxPop, Popped
  <2>2. QED
    BY <1>7, <2>1 DEF ErxPop
<1>8. CASE ErxKeyed \/ ErxEmpty
  <2>1. epc' \in {"idle", "poll", "eapol"}
    BY <1>8 DEF ErxKeyed, ErxEmpty
  <2>2. mask' \in BOOLEAN /\ irq' \in BOOLEAN /\ nvic' \in BOOLEAN /\ wakeup' \in BOOLEAN
        /\ cur_cmd' \in BOOLEAN /\ cmdwaitevent' \in BOOLEAN
    BY <1>8 DEF ErxKeyed, ErxEmpty
  <2>3. QED
    BY <1>8, <2>1, <2>2 DEF ErxKeyed, ErxEmpty
<1>9. CASE UNCHANGED vars
  BY <1>9 DEF vars
<1>10. QED
  BY <1>1, <1>2, <1>3, <1>4, <1>5, <1>6, <1>7, <1>8, <1>9 DEF Next

(* The fields of the driver have their types, the mailbox its size, and the
   counter RxQueueCount is the length of the list (wlan_main.c). *)
THEOREM WlanTyped == Spec => []TypeOK
<1>1. QED
  BY InitTyped, StepTyped, PTL DEF Spec
-----------------------------------------------------------------------------
(* The frames in the list are in the order of their arrival and later than the
   last one taken; a frame that was announced is not in the list yet, and the
   card is masked while its status is worked on. *)
MaskedAtWork == rpc \in {"fetch", "reply"} => ~mask /\ status = {}
ListOrdered ==
  /\ got <= arrived
  /\ \A i \in 1 .. Len(RxList) : got < RxList[i] /\ RxList[i] <= arrived
  /\ \A i, j \in 1 .. Len(RxList) : i < j => RxList[i] < RxList[j]
FrameNew ==
  "rx" \in status \/ (rpc = "fetch" /\ "rx" \in ireg) =>
    got < arrived /\ \A i \in 1 .. Len(RxList) : RxList[i] < arrived
InOrder == MaskedAtWork /\ ListOrdered /\ FrameNew

LEMMA InOrderStep == TypeOK /\ InOrder /\ [Next]_vars => InOrder'
<1> SUFFICES ASSUME TypeOK, InOrder, [Next]_vars PROVE InOrder'
  OBVIOUS
<1>0. got \in Nat /\ arrived \in Nat /\ RxList \in Seq(Nat)
  BY DEF TypeOK
<1> USE <1>0 DEF cardVars, line, wlanPc, rxQueue, command, caller, erx, InOrder
<1>1. MaskedAtWork'
  BY DEF MaskedAtWork, Next, Card, CardFrame, CardReply, CardEvent, Raise, Isr, RxThread, RxWake,
    RxStatus, RxFetch, RxReply, RxCommand, EventSend, RxNotice, RxEvent, RxCause, CallGoesOn, CmdSend,
    CmdTell, CmdLoad, CmdStore, CmdRecv, WiredNotice, ErxMail, ErxPop, ErxKeyed, ErxEmpty, vars
<1>2. CASE CardFrame
  <2>1. arrived' = arrived + 1 /\ UNCHANGED <<got, RxList>>
    BY <1>2 DEF CardFrame, Raise
  <2>2. QED
    BY <1>1, <2>1 DEF ListOrdered, FrameNew
<1>3. CASE RxFetch
  <2>1. CASE UNCHANGED rxQueue
    BY <1>1, <1>3, <2>1 DEF RxFetch, ListOrdered, FrameNew
  <2>2. CASE "rx" \in ireg /\ RxList' = Append(RxList, arrived)
    <3>1. /\ Len(RxList') = Len(RxList) + 1 /\ UNCHANGED <<got, arrived>>
          /\ \A i \in 1 .. Len(RxList') : RxList'[i] = IF i = Len(RxList') THEN arrived ELSE RxList[i]
          /\ got < arrived /\ \A i \in 1 .. Len(RxList) : RxList[i] < arrived
      BY <1>3, <2>2 DEF RxFetch, FrameNew
    <3>2. ListOrdered'
      <4>1. \A i \in 1 .. Len(RxList') : got' < RxList'[i] /\ RxList'[i] <= arrived'
        BY <3>1, SMTT(30) DEF ListOrdered
      <4>2. ASSUME NEW i \in 1 .. Len(RxList'), NEW j \in 1 .. Len(RxList'), i < j
            PROVE  RxList'[i] < RxList'[j]
        <5>1. i \in 1 .. Len(RxList) /\ i # Len(RxList')
          BY <3>1, <4>2
        <5>2. CASE j = Len(RxList')
          BY <3>1, <5>1, <5>2
        <5>3. CASE j # Len(RxList')
          <6>1. j \in 1 .. Len(RxList)
            BY <3>1, <5>3
          <6>2. QED
            BY <3>1, <4>2, <5>1, <5>3, <6>1 DEF ListOrdered
        <5>4. QED
          BY <5>2, <5>3
      <4>3. QED
        BY <3>1, <4>1, <4>2 DEF ListOrdered
    <3>3. FrameNew'
      BY <1>3 DEF RxFetch, FrameNew, MaskedAtWork
    <3>4. QED
      BY <1>1, <3>2, <3>3
  <2>3. QED
    BY <1>3, <2>1, <2>2 DEF RxFetch, Pushed
<1>4. CASE ErxPop
  <2>1. /\ Len(RxList) > 0 /\ Len(RxList') = Len(RxList) - 1 /\ got' = RxList[1]
        /\ \A i \in 1 .. Len(RxList') : RxList'[i] = RxList[i + 1] /\ i + 1 \in 1 .. Len(RxList)
        /\ UNCHANGED <<arrived, status, rpc, ireg>>
    BY <1>4 DEF ErxPop
  <2>2. RxList[1] \in Nat /\ RxList[1] <= arrived /\ 1 \in 1 .. Len(RxList)
    BY <2>1 DEF ListOrdered
  <2>3. ListOrdered'
    <3>1. ASSUME NEW i \in 1 .. Len(RxList') PROVE got' < RxList'[i] /\ RxList'[i] <= arrived'
      <4>1. i + 1 \in 1 .. Len(RxList) /\ 1 < i + 1 /\ RxList'[i] = RxList[i + 1]
        BY <2>1
      <4>2. RxList[1] < RxList[i + 1] /\ RxList[i + 1] <= arrived
        BY <2>2, <4>1 DEF ListOrdered
      <4>3. QED
        BY <2>1, <4>1, <4>2
    <3>2. ASSUME NEW i \in 1 .. Len(RxList'), NEW j \in 1 .. Len(RxList'), i < j
          PROVE  RxList'[i] < RxList'[j]
      <4>1. i + 1 \in 1 .. Len(RxList) /\ j + 1 \in 1 .. Len(RxList) /\ i + 1 < j + 1
        BY <2>1, <3>2
      <4>2. RxList'[i] = RxList[i + 1] /\ RxList'[j] = RxList[j + 1]
        BY <2>1
      <4>3. QED
        BY <4>1, <4>2 DEF ListOrdered
    <3>3. QED
      BY <2>1, <2>2, <3>1, <3>2 DEF ListOrdered
  <2>4. FrameNew'
    BY <2>1, <2>2 DEF FrameNew
  <2>5. QED
    BY <1>1, <2>3, <2>4
<1>5. CASE UNCHANGED <<got, arrived, RxList>> /\ ("rx" \in status' => "rx" \in status)
           /\ (rpc' = "fetch" /\ "rx" \in ireg' => "rx" \in status \/ (rpc = "fetch" /\ "rx" \in ireg))
  BY <1>1, <1>5 DEF ListOrdered, FrameNew
<1>6. CASE [Next]_vars /\ ~CardFrame /\ ~RxFetch /\ ~ErxPop
  <2>1. UNCHANGED <<got, arrived, RxList>>
    BY <1>6 DEF Next, Card, CardReply, CardEvent, Raise, Isr, RxThread, RxWake, RxStatus, RxReply,
      RxCommand, RxNotice, RxEvent, RxCause, EventSend, CallGoesOn,
      CmdSend, CmdTell, CmdLoad, CmdStore, CmdRecv,
      WiredNotice, ErxMail, ErxKeyed, ErxEmpty, vars
  <2>2. "rx" \in status' => "rx" \in status
    BY <1>6 DEF Next, Card, CardReply, CardEvent, Raise, Isr, RxThread, RxWake, RxStatus, RxReply,
      RxCommand, RxNotice, RxEvent, RxCause, EventSend, CallGoesOn,
      CmdSend, CmdTell, CmdLoad, CmdStore, CmdRecv,
      WiredNotice, ErxMail, ErxKeyed, ErxEmpty, vars
  <2>3. rpc' = "fetch" /\ "rx" \in ireg' => "rx" \in status \/ (rpc = "fetch" /\ "rx" \in ireg)
    BY <1>6 DEF Next, Card, CardReply, CardEvent, Raise, Isr, RxThread, RxWake, RxStatus, RxReply,
      RxCommand, RxNotice, RxEvent, RxCause, EventSend, CallGoesOn,
      CmdSend, CmdTell, CmdLoad, CmdStore, CmdRecv,
      WiredNotice, ErxMail, ErxKeyed, ErxEmpty, vars
  <2>4. QED
    BY <1>5, <2>1, <2>2, <2>3
<1>7. QED
  BY <1>2, <1>3, <1>4, <1>6

(* The frames that mrvl_wlan_rx hands to lwIP come in the order the card
   received them, none twice, whatever frames are dropped in between. *)
THEOREM FramesOrdered == Spec => FramesInOrder
<1>1. Init => InOrder
  BY DEF Init, InOrder, MaskedAtWork, ListOrdered, FrameNew
<1>2. TypeOK /\ InOrder /\ [Next]_vars => [got' # got => got' > got]_got
  <2> SUFFICES ASSUME TypeOK, InOrder, [Next]_vars, got' # got PROVE got' > got
    OBVIOUS
  <2>1. ErxPop
    BY DEF Next, Card, CardFrame, CardReply, CardEvent, Raise, Isr, RxThread, RxWake, RxStatus,
      RxFetch, RxReply, RxCommand, RxNotice, RxEvent, RxCause, EventSend, CallGoesOn,
      CmdSend, CmdTell, CmdLoad, CmdStore, CmdRecv, WiredNotice, ErxMail, ErxKeyed, ErxEmpty, vars, erx
  <2>2. got' = RxList[1] /\ 1 \in 1 .. Len(RxList)
    BY <2>1 DEF ErxPop, TypeOK
  <2>3. got < RxList[1] /\ RxList[1] \in Nat
    BY <2>2 DEF InOrder, ListOrdered, TypeOK
  <2>4. QED
    BY <2>2, <2>3 DEF TypeOK
<1>3. QED
  BY <1>1, <1>2, InitTyped, StepTyped, InOrderStep, PTL DEF Spec, FramesInOrder
-----------------------------------------------------------------------------
LEMMA PostKeeps ==
  ASSUME TypeOK, NEW device \in {"wlan", "wired"}, Post(device),
         \E i \in DOMAIN mail : mail[i] = "wlan"
  PROVE  \E i \in DOMAIN mail' : mail'[i] = "wlan"
<1>1. mail \in Seq({"wlan", "wired"}) /\ mail' \in {mail, Append(mail, device)}
  BY DEF TypeOK, Post
<1>2. \A i \in DOMAIN mail : i \in DOMAIN mail' /\ mail'[i] = mail[i]
  BY <1>1
<1>3. QED
  BY <1>2

(* A notice that finds room is in the mailbox. *)
LEMMA PostDelivers ==
  ASSUME TypeOK, Post("wlan"), Len(mail) # MailSlots
  PROVE  \E i \in DOMAIN mail' : mail'[i] = "wlan"
<1>1. mail' = Append(mail, "wlan") /\ Len(mail) \in Nat
  BY WlanAssumption DEF WlanAssumption, TypeOK, Post
<1>2. Len(mail) + 1 \in DOMAIN mail' /\ mail'[Len(mail) + 1] = "wlan"
  BY <1>1 DEF TypeOK
<1>3. QED
  BY <1>2

LEMMA NoticeStep ==
  TypeOK /\ [Next]_vars /\ FrameNoticed
    => FrameNoticed' \/ (rpc = "notice" /\ Len(mail) = MailSlots)
<1> SUFFICES ASSUME TypeOK, [Next]_vars, FrameNoticed, RxList' # <<>>,
                    ~(rpc = "notice" /\ Len(mail) = MailSlots)
             PROVE  epc' # "idle" \/ NoticeDue' \/ \E i \in DOMAIN mail' : mail'[i] = "wlan"
  BY DEF FrameNoticed
<1> USE DEF cardVars, line, wlanPc, rxQueue, command, caller, erx
<1>1. CASE RxFetch
  <2>1. CASE UNCHANGED rxQueue
    BY <1>1, <2>1 DEF RxFetch, FrameNoticed, NoticeDue
  <2>2. CASE ~UNCHANGED rxQueue
    <3>1. CASE RxList = <<>>
      BY <1>1, <2>2, <3>1 DEF RxFetch, NoticeDue, TypeOK
    <3>2. CASE RxList # <<>>
      BY <1>1, <3>2 DEF RxFetch, FrameNoticed, NoticeDue
    <3>3. QED
      BY <3>1, <3>2
  <2>3. QED
    BY <2>1, <2>2
<1>2. CASE RxNotice
  <2>1. CASE "rx" \in HisRegCpy /\ RxQueueCount = 1
    BY <1>2, <2>1, PostDelivers DEF RxNotice
  <2>2. CASE ~("rx" \in HisRegCpy /\ RxQueueCount = 1)
    BY <1>2, <2>2 DEF RxNotice, FrameNoticed, NoticeDue
  <2>3. QED
    BY <2>1, <2>2
<1>3. CASE RxReply \/ RxCommand
  BY <1>3 DEF RxReply, RxCommand, FrameNoticed, NoticeDue
<1>4. CASE RxWake \/ RxStatus \/ RxEvent \/ RxCause
  BY <1>4 DEF RxWake, RxStatus, RxEvent, RxCause, FrameNoticed, NoticeDue
<1>5. ASSUME NEW c \in Callers, CmdSend(c) \/ CallGoesOn(c)
      PROVE  epc' # "idle" \/ NoticeDue' \/ \E i \in DOMAIN mail' : mail'[i] = "wlan"
  BY <1>5 DEF CallGoesOn, CmdSend, CmdTell, CmdLoad, CmdStore, CmdRecv, Runs, LetsRun, FrameNoticed,
    NoticeDue
<1>6. CASE WiredNotice
  BY <1>6, PostKeeps DEF WiredNotice, FrameNoticed, NoticeDue
<1>7. CASE ErxMail
  <2>1. CASE Head(mail) = "wlan"
    BY <1>7, <2>1 DEF ErxMail
  <2>2. ASSUME Head(mail) # "wlan", NEW i \in DOMAIN mail, mail[i] = "wlan"
        PROVE  \E k \in DOMAIN mail' : mail'[k] = "wlan"
    <3>1. i - 1 \in DOMAIN mail' /\ mail'[i - 1] = "wlan"
      BY <1>7, <2>2 DEF ErxMail, TypeOK
    <3>2. QED
      BY <3>1
  <2>3. QED
    BY <1>7, <2>1, <2>2 DEF ErxMail, FrameNoticed, NoticeDue
<1>8. CASE ErxPop \/ ErxKeyed \/ ErxEmpty
  BY <1>8 DEF ErxPop, ErxKeyed, ErxEmpty
<1>9. CASE Card \/ Isr \/ UNCHANGED vars
  BY <1>9 DEF Card, CardFrame, CardReply, CardEvent, Raise, Isr, vars, FrameNoticed, NoticeDue
<1>10. QED
  BY <1>1, <1>2, <1>3, <1>4, <1>5, <1>6, <1>7, <1>8, <1>9 DEF Next, RxThread

(* No step but a notice that finds erx's mailbox full leaves frames in the
   list that nobody is on the way to fetch; a caller's unlocked write of
   HisRegCpy in DownloadCommandToStation does not. *)
THEOREM FullMailboxStrands == Spec => OnlyFullMailboxStrands
<1>1. TypeOK /\ [Next]_vars
        => [FrameNoticed /\ ~FrameNoticed' => rpc = "notice" /\ Len(mail) = MailSlots]_vars
  BY NoticeStep
<1>2. QED
  BY <1>1, InitTyped, StepTyped, PTL DEF Spec, OnlyFullMailboxStrands
-----------------------------------------------------------------------------
(* Callers that wait are suspended in turn, each once, and only while the event
   is not set; a call that is not marked is the only one out. *)
InTurn ==
  /\ \A c \in Callers : cpc[c] = "wait" <=> \E i \in DOMAIN waiting : waiting[i] = c
  /\ \A i, j \in DOMAIN waiting : waiting[i] = waiting[j] => i = j
  /\ cmdwaitevent => waiting = <<>>
Alone ==
  \A c, d \in Callers : cpc[c] # "idle" /\ c \notin overlap /\ d # c => cpc[d] = "idle"

(* Where replies are on their way to a caller: with the card, announced, in the
   status that the thread read, in CmdResBuf, in the event. *)
Flag(b) == IF b THEN 1 ELSE 0
Announced == "cmd" \in status
Read == "cmd" \in ireg /\ rpc \in {"fetch", "reply"}
InBuffer == "cmd" \in ireg /\ rpc = "command"
Pending ==
  Len(card_cmd) + Flag(Announced) + Flag(Read) + Flag(InBuffer) + Flag(cmdwaitevent)

(* No caller writes the bit of a reply back after it was served. *)
BitServed ==
  "cmd" \notin HisRegCpy /\ \A c \in Callers : cpc[c] = "store" => "cmd" \notin hcopy[c]

(* There are no more replies than callers that told the card their command. *)
Told(c) == cpc[c] \in {"load", "store", "recv", "wait"}
Calls == Flag(Told("tshell")) + Flag(Told("erx"))
Counted == Pending <= Calls

(* While a call is alone, what is on its way is the reply to its command. *)
AllFor(n) ==
  /\ \A i \in DOMAIN card_cmd : card_cmd[i] = n
  /\ Announced \/ Read => reply = n
  /\ InBuffer => resp = n
  /\ cmdwaitevent => answered = n
Own ==
  \A c \in Callers :
    cpc[c] # "idle" /\ c \notin overlap =>
      AllFor(cmd[c]) /\ (cpc[c] = "tell" => cmd[c] = sent)
Replies == InTurn /\ Alone /\ BitServed /\ Counted /\ Own

(* Only the reply's arrival and the callers touch the state of the calls. *)
LEMMA CallsElsewhere ==
  ASSUME [Next]_vars
  PROVE  \/ RxCommand
         \/ \E c \in Callers : CmdSend(c) \/ CallGoesOn(c)
         \/ UNCHANGED <<cur_cmd, cmdwaitevent, waiting, answered, caller>>
<1> USE DEF cardVars, line, wlanPc, rxQueue, command, caller, erx
<1>1. CASE Card \/ Isr
  BY <1>1 DEF Card, CardFrame, CardReply, CardEvent, Raise, Isr
<1>2. CASE RxThread /\ ~RxCommand
  BY <1>2 DEF RxThread, RxWake, RxStatus, RxFetch, RxReply, RxNotice, RxEvent, RxCause
<1>3. CASE WiredNotice \/ ErxMail \/ ErxPop \/ ErxKeyed \/ ErxEmpty \/ UNCHANGED vars
  BY <1>3 DEF WiredNotice, ErxMail, ErxPop, ErxKeyed, ErxEmpty, vars
<1>4. QED
  BY <1>1, <1>2, <1>3 DEF Next

LEMMA FirstWaits ==
  ASSUME TypeOK, InTurn, waiting # <<>>
  PROVE  Head(waiting) \in Callers /\ cpc[Head(waiting)] = "wait"
<1>1. Head(waiting) = waiting[1] /\ 1 \in DOMAIN waiting /\ waiting[1] \in Callers
  BY DEF TypeOK
<1>2. QED
  BY <1>1 DEF InTurn

(* The event cause wakes nobody, or the first of the callers that wait. *)
LEMMA WakesFirst ==
  ASSUME TypeOK, InTurn, RxCommand
  PROVE  /\ UNCHANGED <<cur_cmd, hcopy, cmd, sent, overlap>>
         /\ \/ UNCHANGED <<cpc, waiting>>
            \/ \E c \in Callers : /\ cpc[c] = "wait" /\ waiting # <<>> /\ Head(waiting) = c
                                 /\ waiting' = Tail(waiting) /\ cpc' = [cpc EXCEPT ![c] = "idle"]
                                 /\ UNCHANGED cmdwaitevent
                                 /\ "cmd" \in HisRegCpy \cup ireg /\ answered' = resp
<1>1. UNCHANGED <<cur_cmd, hcopy, cmd, sent, overlap>>
  BY DEF RxCommand
<1>2. QED
  BY <1>1, FirstWaits DEF RxCommand, EventSend

LEMMA InTurnStep == TypeOK /\ InTurn /\ [Next]_vars => InTurn'
<1> SUFFICES ASSUME TypeOK, InTurn, [Next]_vars PROVE InTurn'
  OBVIOUS
<1>0. waiting \in Seq(Callers) /\ cpc \in [Callers -> {"idle", "tell", "load", "store", "recv", "wait"}]
  BY DEF TypeOK
<1>1. CASE RxCommand
  <2>1. CASE UNCHANGED <<cpc, waiting>>
    BY <1>1, <2>1 DEF InTurn, RxCommand, EventSend
  <2>2. ASSUME NEW c \in Callers, waiting # <<>>, Head(waiting) = c, waiting' = Tail(waiting),
               cpc' = [cpc EXCEPT ![c] = "idle"], UNCHANGED cmdwaitevent
        PROVE  InTurn'
    <3>1. /\ waiting[1] = c /\ 1 \in DOMAIN waiting
          /\ \A i \in DOMAIN waiting' : i + 1 \in DOMAIN waiting /\ waiting'[i] = waiting[i + 1] /\ i + 1 # 1
          /\ \A i \in DOMAIN waiting : i # 1 => i - 1 \in DOMAIN waiting' /\ waiting'[i - 1] = waiting[i]
      BY <1>0, <2>2
    <3>2. \A d \in Callers : cpc'[d] = "wait" <=> \E i \in DOMAIN waiting' : waiting'[i] = d
      <4> SUFFICES ASSUME NEW d \in Callers
                   PROVE  cpc'[d] = "wait" <=> \E i \in DOMAIN waiting' : waiting'[i] = d
        OBVIOUS
      <4>1. CASE d = c
        <5>1. cpc'[d] = "idle"
          BY <1>0, <2>2, <4>1
        <5>2. ASSUME NEW i \in DOMAIN waiting' PROVE waiting'[i] # d
          BY <3>1, <4>1 DEF InTurn
        <5>3. QED
          BY <5>1, <5>2
      <4>2. CASE d # c
        <5>1. cpc'[d] = cpc[d]
          BY <1>0, <2>2, <4>2
        <5>2. ASSUME NEW i \in DOMAIN waiting, waiting[i] = d
              PROVE  \E j \in DOMAIN waiting' : waiting'[j] = d
          BY <3>1, <4>2, <5>2
        <5>3. ASSUME NEW i \in DOMAIN waiting', waiting'[i] = d
              PROVE  \E j \in DOMAIN waiting : waiting[j] = d
          BY <3>1, <5>3
        <5>4. QED
          BY <5>1, <5>2, <5>3 DEF InTurn
      <4>3. QED
        BY <4>1, <4>2
    <3>3. ASSUME NEW i \in DOMAIN waiting', NEW j \in DOMAIN waiting', waiting'[i] = waiting'[j]
          PROVE  i = j
      <4>1. i + 1 = j + 1
        BY <3>1, <3>3 DEF InTurn
      <4>2. i \in Nat /\ j \in Nat
        BY <1>0, <2>2
      <4>3. QED
        BY <4>1, <4>2
    <3>4. cmdwaitevent' => waiting' = <<>>
      BY <2>2 DEF InTurn
    <3>5. QED
      BY <3>2, <3>3, <3>4 DEF InTurn
  <2>3. QED
    BY <1>1, <2>1, <2>2, WakesFirst
<1>2. ASSUME NEW c \in Callers, CmdRecv(c) PROVE InTurn'
  <2>1. CASE cmdwaitevent
    <3>1. cpc[c] = "recv" /\ cpc' = [cpc EXCEPT ![c] = "idle"] /\ waiting' = waiting /\ ~cmdwaitevent'
      BY <1>2, <2>1 DEF CmdRecv, Received
    <3>2. QED
      BY <1>0, <3>1 DEF InTurn
  <2>2. CASE ~cmdwaitevent
    <3>1. /\ cpc[c] = "recv" /\ cpc' = [cpc EXCEPT ![c] = "wait"] /\ waiting' = Append(waiting, c)
          /\ ~cmdwaitevent'
      BY <1>2, <2>2 DEF CmdRecv
    <3>2. /\ Len(waiting) + 1 \in DOMAIN waiting' /\ waiting'[Len(waiting) + 1] = c
          /\ \A i \in DOMAIN waiting : i \in DOMAIN waiting' /\ waiting'[i] = waiting[i]
          /\ \A i \in DOMAIN waiting' : i \in DOMAIN waiting \/ i = Len(waiting) + 1
      BY <1>0, <3>1
    <3>3. \A i \in DOMAIN waiting : waiting[i] # c
      BY <3>1 DEF InTurn
    <3>4. \A d \in Callers : cpc'[d] = "wait" <=> \E i \in DOMAIN waiting' : waiting'[i] = d
      BY <1>0, <3>1, <3>2 DEF InTurn
    <3>5. \A i, j \in DOMAIN waiting' : waiting'[i] = waiting'[j] => i = j
      BY <3>2, <3>3 DEF InTurn
    <3>6. QED
      BY <3>1, <3>4, <3>5 DEF InTurn
  <2>3. QED
    BY <2>1, <2>2
<1>3. ASSUME NEW c \in Callers, CmdSend(c) \/ CmdTell(c) \/ CmdLoad(c) \/ CmdStore(c) PROVE InTurn'
  <2>1. /\ cpc[c] # "wait" /\ UNCHANGED <<waiting, cmdwaitevent>>
        /\ \E at \in {"tell", "load", "store", "recv"} : cpc' = [cpc EXCEPT ![c] = at]
    BY <1>3 DEF CmdSend, CmdTell, CmdLoad, CmdStore, command
  <2>2. \A d \in Callers : cpc'[d] = "wait" <=> cpc[d] = "wait"
    BY <1>0, <2>1
  <2>3. QED
    BY <2>1, <2>2 DEF InTurn
<1>4. CASE UNCHANGED <<cur_cmd, cmdwaitevent, waiting, answered, caller>>
  BY <1>4 DEF InTurn, caller
<1>5. QED
  BY <1>1, <1>2, <1>3, <1>4, CallsElsewhere DEF CallGoesOn

LEMMA AloneStep == TypeOK /\ InTurn /\ Alone /\ [Next]_vars => Alone'
<1> SUFFICES ASSUME TypeOK, InTurn, Alone, [Next]_vars PROVE Alone'
  OBVIOUS
<1>0. cpc \in [Callers -> {"idle", "tell", "load", "store", "recv", "wait"}]
  BY DEF TypeOK
<1>1. CASE RxCommand
  BY <1>0, <1>1, WakesFirst DEF Alone
<1>2. ASSUME NEW c \in Callers, CmdSend(c) PROVE Alone'
  BY <1>0, <1>2 DEF CmdSend, Out, Alone
<1>3. ASSUME NEW c \in Callers, CallGoesOn(c) PROVE Alone'
  <2>1. cpc[c] # "idle" /\ (\E at : cpc' = [cpc EXCEPT ![c] = at]) /\ UNCHANGED overlap
    BY <1>3 DEF CallGoesOn, CmdTell, CmdLoad, CmdStore, CmdRecv
  <2>2. QED
    BY <1>0, <2>1 DEF Alone
<1>4. CASE UNCHANGED <<cur_cmd, cmdwaitevent, waiting, answered, caller>>
  BY <1>4 DEF Alone, caller
<1>5. QED
  BY <1>1, <1>2, <1>3, <1>4, CallsElsewhere

LEMMA BitStep == TypeOK /\ InTurn /\ BitServed /\ [Next]_vars => BitServed'
<1> SUFFICES ASSUME TypeOK, InTurn, BitServed, [Next]_vars PROVE BitServed'
  OBVIOUS
<1>0. /\ cpc \in [Callers -> {"idle", "tell", "load", "store", "recv", "wait"}]
      /\ hcopy \in [Callers -> SUBSET Bits]
  BY DEF TypeOK
<1>1. ASSUME NEW c \in Callers, CmdSend(c) \/ CallGoesOn(c) PROVE BitServed'
  <2>1. CASE CmdLoad(c)
    BY <1>0, <2>1 DEF CmdLoad, BitServed
  <2>2. CASE CmdStore(c)
    BY <1>0, <2>2 DEF CmdStore, BitServed
  <2>3. CASE CmdSend(c) \/ CmdTell(c) \/ CmdRecv(c)
    <3>1. UNCHANGED <<HisRegCpy, hcopy>> /\ \E at \in {"tell", "load", "idle", "wait"} : cpc' = [cpc EXCEPT ![c] = at]
      BY <2>3 DEF CmdSend, CmdTell, CmdRecv
    <3>2. QED
      BY <1>0, <3>1 DEF BitServed
  <2>4. QED
    BY <1>1, <2>1, <2>2, <2>3 DEF CallGoesOn
<1>2. CASE RxCommand
  <2>1. "cmd" \notin HisRegCpy'
    BY <1>2 DEF RxCommand
  <2>2. QED
    BY <1>0, <1>2, <2>1, WakesFirst DEF BitServed
<1>3. CASE UNCHANGED <<cur_cmd, cmdwaitevent, waiting, answered, caller>> /\ HisRegCpy' \subseteq HisRegCpy
  BY <1>3 DEF BitServed, caller
<1>4. CASE ~RxCommand /\ ~\E c \in Callers : CmdSend(c) \/ CallGoesOn(c)
  <2>1. HisRegCpy' \subseteq HisRegCpy
    <3>1. CASE Card \/ Isr
      BY <3>1 DEF Card, CardFrame, CardReply, CardEvent, Raise, Isr
    <3>2. CASE RxThread /\ ~RxCommand
      BY <3>2 DEF RxThread, RxWake, RxStatus, RxFetch, RxReply, RxNotice, RxEvent, RxCause
    <3>3. CASE WiredNotice \/ ErxMail \/ ErxPop \/ ErxKeyed \/ ErxEmpty \/ UNCHANGED vars
      BY <3>3 DEF WiredNotice, ErxMail, ErxPop, ErxKeyed, ErxEmpty, vars
    <3>4. QED
      BY <1>4, <3>1, <3>2, <3>3 DEF Next
  <2>2. QED
    BY <1>3, <1>4, <2>1, CallsElsewhere
<1>5. QED
  BY <1>1, <1>2, <1>4

(* A step that moves no reply. *)
Quiet ==
  /\ UNCHANGED <<card_cmd, reply, cmdwaitevent, answered, cur_cmd>>
  /\ (Announced' <=> Announced) /\ (Read' <=> Read) /\ (InBuffer' <=> InBuffer)
  /\ InBuffer => resp' = resp

LEMMA QuietSteps ==
  ASSUME [Next]_vars
  PROVE  \/ CardReply \/ RxStatus \/ RxReply \/ RxCommand
         \/ \E c \in Callers : CmdSend(c) \/ CallGoesOn(c)
         \/ Quiet /\ UNCHANGED caller
<1> USE DEF Quiet, Announced, Read, InBuffer, cardVars, line, wlanPc, rxQueue, command, caller, erx
<1>1. CASE CardFrame \/ CardEvent \/ Isr
  BY <1>1 DEF CardFrame, CardEvent, Raise, Isr
<1>2. CASE RxWake \/ RxFetch
  BY <1>2 DEF RxWake, RxFetch
<1>3. CASE RxNotice \/ RxEvent \/ RxCause
  BY <1>3 DEF RxNotice, RxEvent, RxCause
<1>4. CASE WiredNotice \/ ErxMail \/ ErxPop \/ ErxKeyed \/ ErxEmpty \/ UNCHANGED vars
  BY <1>4 DEF WiredNotice, ErxMail, ErxPop, ErxKeyed, ErxEmpty, vars
<1>5. QED
  BY <1>1, <1>2, <1>3, <1>4 DEF Next, Card, RxThread

(* The number of replies on their way, as the steps change it. *)
LEMMA CountsAreNumbers ==
  ASSUME TypeOK
  PROVE  /\ Pending \in Nat /\ Calls \in Nat /\ Len(card_cmd) \in Nat
         /\ Pending = 0 => card_cmd = <<>> /\ ~Announced /\ ~Read /\ ~InBuffer /\ ~cmdwaitevent
         /\ Pending <= 1 =>
              /\ card_cmd # <<>> => ~Announced /\ ~Read /\ ~InBuffer /\ ~cmdwaitevent
              /\ Announced => ~Read /\ ~InBuffer /\ ~cmdwaitevent
              /\ Read => ~InBuffer /\ ~cmdwaitevent
              /\ InBuffer => ~cmdwaitevent
              /\ Len(card_cmd) <= 1
<1>1. Len(card_cmd) \in Nat /\ (card_cmd = <<>> <=> Len(card_cmd) = 0)
  BY DEF TypeOK
<1>2. /\ Flag(Announced) \in {0, 1} /\ (Flag(Announced) = 1 <=> Announced)
      /\ Flag(Read) \in {0, 1} /\ (Flag(Read) = 1 <=> Read)
      /\ Flag(InBuffer) \in {0, 1} /\ (Flag(InBuffer) = 1 <=> InBuffer)
  BY DEF Flag, Announced, Read, InBuffer
<1>3. Flag(cmdwaitevent) \in {0, 1} /\ (Flag(cmdwaitevent) = 1 <=> cmdwaitevent)
  BY DEF Flag, TypeOK
<1>4. Flag(Told("tshell")) \in {0, 1} /\ Flag(Told("erx")) \in {0, 1}
  BY DEF Flag
<1>5. QED
  BY <1>1, <1>2, <1>3, <1>4 DEF Pending, Calls

LEMMA QuietCounts == ASSUME Quiet PROVE Pending' = Pending
  BY DEF Quiet, Pending, Flag

LEMMA MoveCounts ==
  ASSUME TypeOK, CardReply \/ RxStatus \/ RxReply
  PROVE  Pending' = Pending /\ UNCHANGED <<cmdwaitevent, answered, cur_cmd, caller>>
<1>1. Len(card_cmd) \in Nat
  BY DEF TypeOK
<1>2. UNCHANGED <<cmdwaitevent, answered, cur_cmd, caller>>
  BY DEF CardReply, RxStatus, RxReply, Raise, command, caller
<1>3. Flag(cmdwaitevent') = Flag(cmdwaitevent) /\ Flag(cmdwaitevent) \in {0, 1}
  BY <1>2 DEF Flag
<1>4. CASE CardReply
  <2>1. Len(card_cmd') = Len(card_cmd) - 1
    BY <1>4 DEF CardReply, TypeOK
  <2>2. "cmd" \notin status /\ "cmd" \in status' /\ UNCHANGED <<rpc, ireg>>
    BY <1>4 DEF CardReply, Raise, wlanPc
  <2>3. Flag(Announced) = 0 /\ Flag(Announced') = 1
    BY <2>2 DEF Flag, Announced
  <2>4. /\ Flag(Read') = Flag(Read) /\ Flag(Read) \in {0, 1}
        /\ Flag(InBuffer') = Flag(InBuffer) /\ Flag(InBuffer) \in {0, 1}
    BY <2>2 DEF Flag, Read, InBuffer
  <2>5. QED
    BY <1>1, <1>2, <1>3, <2>1, <2>3, <2>4 DEF Pending
<1>5. CASE RxStatus
  <2>1. /\ rpc = "status" /\ rpc' = "fetch" /\ ireg' = status /\ status' = {} /\ UNCHANGED card_cmd
    BY <1>5 DEF RxStatus
  <2>2. /\ Flag(Announced') = 0 /\ Flag(Read') = Flag(Announced) /\ Flag(Read) = 0
        /\ Flag(InBuffer') = 0 /\ Flag(InBuffer) = 0 /\ Flag(Announced) \in {0, 1}
    BY <2>1 DEF Flag, Announced, Read, InBuffer
  <2>3. QED
    BY <1>1, <1>2, <1>3, <2>1, <2>2 DEF Pending
<1>6. CASE RxReply
  <2>1. /\ rpc = "reply" /\ rpc' = "command" /\ UNCHANGED <<ireg, status, card_cmd>>
    BY <1>6 DEF RxReply
  <2>2. /\ Flag(Announced') = Flag(Announced) /\ Flag(Read') = 0 /\ Flag(InBuffer') = Flag(Read)
        /\ Flag(InBuffer) = 0 /\ Flag(Announced) \in {0, 1} /\ Flag(Read) \in {0, 1}
    BY <2>1 DEF Flag, Announced, Read, InBuffer
  <2>3. QED
    BY <1>1, <1>2, <1>3, <2>1, <2>2 DEF Pending
<1>7. QED
  BY <1>4, <1>5, <1>6

(* The event cause takes the reply out of CmdResBuf: nobody waits for it, the
   event keeps it, or the first that waits has it. *)
LEMMA CommandCounts ==
  ASSUME TypeOK, BitServed, RxCommand
  PROVE  /\ ~Read' /\ ~InBuffer' /\ (Announced' <=> Announced)
         /\ UNCHANGED <<card_cmd, reply, cur_cmd>>
         /\ \/ ~InBuffer /\ Pending' = Pending /\ UNCHANGED <<cmdwaitevent, cpc, answered>>
            \/ /\ InBuffer /\ ~cur_cmd /\ Pending' = Pending - 1
               /\ UNCHANGED <<cmdwaitevent, cpc, answered>>
            \/ /\ InBuffer /\ cmdwaitevent' /\ answered' = resp /\ UNCHANGED cpc
               /\ Pending' \in Nat /\ Pending' <= Pending /\ Pending' > 0
            \/ /\ InBuffer /\ Pending' = Pending - 1 /\ answered' = resp
               /\ UNCHANGED cmdwaitevent /\ waiting # <<>>
               /\ cpc' = [cpc EXCEPT ![Head(waiting)] = "idle"]
<1>1. /\ rpc = "command" /\ rpc' = "notice" /\ UNCHANGED <<ireg, status, card_cmd, reply, cur_cmd>>
      /\ "cmd" \notin HisRegCpy
  BY DEF RxCommand, BitServed, cardVars
<1>2. ~Read' /\ ~InBuffer' /\ (Announced' <=> Announced) /\ ~Read /\ (InBuffer <=> "cmd" \in ireg)
  BY <1>1 DEF Read, InBuffer, Announced
<1>3. /\ Flag(Announced') = Flag(Announced) /\ Flag(Announced) \in {0, 1} /\ Flag(Read') = 0 /\ Flag(Read) = 0
      /\ Flag(InBuffer') = 0 /\ Flag(InBuffer) = (IF InBuffer THEN 1 ELSE 0) /\ Len(card_cmd) \in Nat
      /\ Flag(cmdwaitevent) \in {0, 1} /\ Flag(cmdwaitevent') \in {0, 1}
  <2>1. Len(card_cmd) \in Nat
    BY DEF TypeOK
  <2>2. Flag(cmdwaitevent) \in {0, 1} /\ Flag(cmdwaitevent') \in {0, 1}
    BY DEF Flag
  <2>3. QED
    BY <1>1, <1>2, <2>1, <2>2 DEF Flag, Announced
<1>4. Pending' = Pending - Flag(InBuffer) - Flag(cmdwaitevent) + Flag(cmdwaitevent')
  BY <1>1, <1>3 DEF Pending
<1>5. Pending \in Nat
  BY CountsAreNumbers
<1>6. CASE ~InBuffer
  <2>1. UNCHANGED <<cmdwaitevent, cpc, answered>>
    BY <1>1, <1>2, <1>6 DEF RxCommand
  <2>2. Flag(cmdwaitevent') = Flag(cmdwaitevent)
    BY <2>1
  <2>3. Pending' = Pending
    BY <1>3, <1>4, <1>5, <1>6, <2>2
  <2>4. QED
    BY <1>1, <1>2, <1>6, <2>1, <2>3
<1>7. CASE InBuffer /\ ~cur_cmd
  <2>1. UNCHANGED <<cmdwaitevent, cpc, answered>>
    BY <1>1, <1>2, <1>7 DEF RxCommand
  <2>2. Flag(cmdwaitevent') = Flag(cmdwaitevent)
    BY <2>1
  <2>3. Pending' = Pending - 1
    BY <1>3, <1>4, <1>5, <1>7, <2>2
  <2>4. QED
    BY <1>1, <1>2, <1>7, <2>1, <2>3
<1>8. CASE InBuffer /\ cur_cmd /\ waiting = <<>>
  <2>1. cmdwaitevent' /\ UNCHANGED cpc /\ answered' = resp
    BY <1>1, <1>2, <1>8 DEF RxCommand, EventSend
  <2>2. Flag(cmdwaitevent') = 1
    BY <2>1 DEF Flag
  <2>3. Pending' \in Int /\ Pending' <= Pending
    BY <1>3, <1>4, <1>5, <1>8, <2>2
  <2>4. Pending' > 0
    BY <1>1, <1>3, <2>2 DEF Pending
  <2>5. QED
    BY <1>1, <1>2, <1>8, <2>1, <2>3, <2>4
<1>9. CASE InBuffer /\ cur_cmd /\ waiting # <<>>
  <2>1. /\ UNCHANGED cmdwaitevent /\ answered' = resp
        /\ cpc' = [cpc EXCEPT ![Head(waiting)] = "idle"]
    BY <1>1, <1>2, <1>9 DEF RxCommand, EventSend
  <2>2. Flag(cmdwaitevent') = Flag(cmdwaitevent)
    BY <2>1
  <2>3. Pending' = Pending - 1
    BY <1>3, <1>4, <1>5, <1>9, <2>2
  <2>4. QED
    BY <1>1, <1>2, <1>9, <2>1, <2>3
<1>10. QED
  BY <1>6, <1>7, <1>8, <1>9

(* A caller that tells adds a reply at most; one that takes the event takes one. *)
LEMMA CallCounts ==
  ASSUME TypeOK, NEW c \in Callers, CmdSend(c) \/ CallGoesOn(c)
  PROVE  \/ /\ CmdTell(c) /\ Pending' \in Nat /\ Pending' <= Pending + 1 /\ Pending' > 0
            /\ cpc[c] = "tell"
            /\ cpc' = [cpc EXCEPT ![c] = "load"]
         \/ /\ CmdRecv(c) /\ cmdwaitevent /\ Pending' = Pending - 1 /\ cpc[c] = "recv"
            /\ cpc' = [cpc EXCEPT ![c] = "idle"]
         \/ /\ CmdSend(c) /\ Pending' = Pending /\ cpc[c] = "idle" /\ cpc' = [cpc EXCEPT ![c] = "tell"]
         \/ /\ Pending' = Pending /\ Told(c)
            /\ \E at \in {"store", "recv", "wait"} : cpc' = [cpc EXCEPT ![c] = at]
<1>1. UNCHANGED <<status, reply, rpc, ireg, resp, answered>>
  BY DEF CallGoesOn, CmdSend, CmdTell, CmdLoad, CmdStore, CmdRecv, cardVars, wlanPc, command
<1>2. (Announced' <=> Announced) /\ (Read' <=> Read) /\ (InBuffer' <=> InBuffer)
  BY <1>1 DEF Announced, Read, InBuffer
<1>3. /\ Flag(Announced') = Flag(Announced) /\ Flag(Announced) \in {0, 1}
      /\ Flag(Read') = Flag(Read) /\ Flag(Read) \in {0, 1}
      /\ Flag(InBuffer') = Flag(InBuffer) /\ Flag(InBuffer) \in {0, 1}
      /\ Len(card_cmd) \in Nat /\ Flag(cmdwaitevent) \in {0, 1}
  <2>1. Len(card_cmd) \in Nat
    BY DEF TypeOK
  <2>2. Flag(cmdwaitevent) \in {0, 1}
    BY DEF Flag
  <2>3. QED
    BY <1>2, <2>1, <2>2 DEF Flag
<1>4. CASE CmdTell(c)
  <2>1. /\ card_cmd' \in {Append(card_cmd, sent), <<sent>>} /\ UNCHANGED cmdwaitevent
        /\ cpc[c] = "tell" /\ cpc' = [cpc EXCEPT ![c] = "load"]
    BY <1>4 DEF CmdTell, command
  <2>2. Len(card_cmd') \in {Len(card_cmd) + 1, 1}
    BY <2>1 DEF TypeOK
  <2>3. Flag(cmdwaitevent') = Flag(cmdwaitevent)
    BY <2>1
  <2>4. Pending' \in Nat /\ Pending' <= Pending + 1 /\ Pending' > 0
    <3>1. CASE Len(card_cmd') = Len(card_cmd) + 1
      BY <1>3, <2>3, <3>1 DEF Pending
    <3>2. CASE Len(card_cmd') = 1
      BY <1>3, <2>3, <3>2 DEF Pending
    <3>3. QED
      BY <2>2, <3>1, <3>2
  <2>5. QED
    BY <1>4, <2>1, <2>4
<1>5. CASE CmdRecv(c) /\ cmdwaitevent
  <2>1. /\ cpc[c] = "recv" /\ cpc' = [cpc EXCEPT ![c] = "idle"] /\ ~cmdwaitevent' /\ UNCHANGED card_cmd
    BY <1>5 DEF CmdRecv, Received, cardVars
  <2>2. Flag(cmdwaitevent') = 0 /\ Flag(cmdwaitevent) = 1
    BY <1>5, <2>1 DEF Flag
  <2>3. Pending' = Pending - 1
    BY <1>3, <2>1, <2>2 DEF Pending
  <2>4. QED
    BY <1>5, <2>1, <2>3
<1>6. CASE CmdSend(c)
  <2>1. cpc[c] = "idle" /\ cpc' = [cpc EXCEPT ![c] = "tell"] /\ UNCHANGED <<card_cmd, cmdwaitevent>>
    BY <1>6 DEF CmdSend
  <2>2. Flag(cmdwaitevent') = Flag(cmdwaitevent)
    BY <2>1
  <2>3. Pending' = Pending
    BY <1>3, <2>1, <2>2 DEF Pending
  <2>4. QED
    BY <1>6, <2>1, <2>3
<1>7. CASE CmdLoad(c) \/ CmdStore(c) \/ (CmdRecv(c) /\ ~cmdwaitevent)
  <2>1. /\ Told(c) /\ UNCHANGED <<card_cmd, cmdwaitevent>>
        /\ \E at \in {"store", "recv", "wait"} : cpc' = [cpc EXCEPT ![c] = at]
    BY <1>7 DEF CmdLoad, CmdStore, CmdRecv, Told, cardVars, command
  <2>2. Flag(cmdwaitevent') = Flag(cmdwaitevent)
    BY <2>1
  <2>3. Pending' = Pending
    BY <1>3, <2>1, <2>2 DEF Pending
  <2>4. QED
    BY <2>1, <2>3
<1>8. QED
  BY <1>4, <1>5, <1>6, <1>7 DEF CallGoesOn

(* The callers that told their commands, when one of them moves. *)
LEMMA CallsChange ==
  ASSUME TypeOK, NEW c \in Callers, NEW at, cpc' = [cpc EXCEPT ![c] = at]
  PROVE  Calls' = Calls - Flag(Told(c)) + Flag(at \in {"load", "store", "recv", "wait"})
<1>1. cpc \in [Callers -> {"idle", "tell", "load", "store", "recv", "wait"}]
  BY DEF TypeOK
<1>2. \A d \in Callers : cpc'[d] = IF d = c THEN at ELSE cpc[d]
  BY <1>1
<1>3. CASE c = "tshell"
  <2>1. Flag(Told("tshell")') = Flag(at \in {"load", "store", "recv", "wait"})
        /\ Flag(Told("erx")') = Flag(Told("erx"))
    BY <1>2, <1>3 DEF Told, Callers
  <2>2. QED
    BY <1>3, <2>1 DEF Calls, Flag
<1>4. CASE c = "erx"
  <2>1. Flag(Told("erx")') = Flag(at \in {"load", "store", "recv", "wait"})
        /\ Flag(Told("tshell")') = Flag(Told("tshell"))
    BY <1>2, <1>4 DEF Told, Callers
  <2>2. QED
    BY <1>4, <2>1 DEF Calls, Flag
<1>5. QED
  BY <1>3, <1>4 DEF Callers

LEMMA CountStep == TypeOK /\ InTurn /\ BitServed /\ Counted /\ [Next]_vars => Counted'
<1> SUFFICES ASSUME TypeOK, InTurn, BitServed, Counted, [Next]_vars PROVE Counted'
  OBVIOUS
<1>0. Pending \in Nat /\ Calls \in Nat /\ Pending <= Calls
  BY CountsAreNumbers DEF Counted
<1>1. CASE CardReply \/ RxStatus \/ RxReply
  <2>1. Pending' = Pending /\ cpc' = cpc
    BY <1>1, MoveCounts DEF caller
  <2>2. QED
    BY <1>0, <2>1 DEF Counted, Calls, Told
<1>2. CASE RxCommand
  <2>1. CASE Pending' \in Int /\ Pending' <= Pending /\ UNCHANGED cpc
    <3>1. Calls' = Calls
      BY <2>1 DEF Calls, Told
    <3>2. QED
      BY <1>0, <2>1, <3>1 DEF Counted
  <2>2. CASE Pending' = Pending - 1 /\ cpc' = [cpc EXCEPT ![Head(waiting)] = "idle"] /\ waiting # <<>>
    <3>1. Head(waiting) \in Callers /\ cpc[Head(waiting)] = "wait"
      BY <2>2, FirstWaits
    <3>2. Calls' = Calls - 1
      <4>1. Calls' = Calls - Flag(Told(Head(waiting))) + Flag("idle" \in {"load", "store", "recv", "wait"})
        BY <2>2, <3>1, CallsChange
      <4>2. Flag(Told(Head(waiting))) = 1 /\ Flag("idle" \in {"load", "store", "recv", "wait"}) = 0
        BY <3>1 DEF Flag, Told
      <4>3. QED
        BY <1>0, <4>1, <4>2
    <3>3. QED
      BY <1>0, <2>2, <3>2 DEF Counted
  <2>3. QED
    BY <1>0, <1>2, <2>1, <2>2, CommandCounts
<1>3. ASSUME NEW c \in Callers, CmdSend(c) \/ CallGoesOn(c) PROVE Counted'
  <2>1. CASE /\ Pending' \in Nat /\ Pending' <= Pending + 1 /\ cpc[c] = "tell"
             /\ cpc' = [cpc EXCEPT ![c] = "load"]
    <3>1. Calls' = Calls - Flag(Told(c)) + Flag("load" \in {"load", "store", "recv", "wait"})
      BY <2>1, CallsChange
    <3>2. Flag(Told(c)) = 0 /\ Flag("load" \in {"load", "store", "recv", "wait"}) = 1
      BY <2>1 DEF Flag, Told
    <3>3. QED
      BY <1>0, <2>1, <3>1, <3>2 DEF Counted
  <2>2. CASE Pending' = Pending - 1 /\ cpc[c] = "recv" /\ cpc' = [cpc EXCEPT ![c] = "idle"]
    <3>1. Calls' = Calls - Flag(Told(c)) + Flag("idle" \in {"load", "store", "recv", "wait"})
      BY <2>2, CallsChange
    <3>2. Flag(Told(c)) = 1 /\ Flag("idle" \in {"load", "store", "recv", "wait"}) = 0
      BY <2>2 DEF Flag, Told
    <3>3. QED
      BY <1>0, <2>2, <3>1, <3>2 DEF Counted
  <2>3. CASE Pending' = Pending /\ cpc[c] = "idle" /\ cpc' = [cpc EXCEPT ![c] = "tell"]
    <3>1. Calls' = Calls - Flag(Told(c)) + Flag("tell" \in {"load", "store", "recv", "wait"})
      BY <2>3, CallsChange
    <3>2. Flag(Told(c)) = 0 /\ Flag("tell" \in {"load", "store", "recv", "wait"}) = 0
      BY <2>3 DEF Flag, Told
    <3>3. QED
      BY <1>0, <2>3, <3>1, <3>2 DEF Counted
  <2>4. ASSUME NEW at \in {"store", "recv", "wait"}, Pending' = Pending, Told(c),
               cpc' = [cpc EXCEPT ![c] = at]
        PROVE  Counted'
    <3>1. Calls' = Calls - Flag(Told(c)) + Flag(at \in {"load", "store", "recv", "wait"})
      BY <2>4, CallsChange
    <3>2. Flag(Told(c)) = 1 /\ Flag(at \in {"load", "store", "recv", "wait"}) = 1
      BY <2>4 DEF Flag
    <3>3. Calls' = Calls
      BY <1>0, <3>1, <3>2
    <3>4. Pending' = Pending
      BY <2>4
    <3>5. QED
      BY <1>0, <3>3, <3>4 DEF Counted
  <2>5. QED
    BY <1>3, <2>1, <2>2, <2>3, <2>4, CallCounts
<1>4. CASE Quiet /\ UNCHANGED caller
  <2>1. Pending' = Pending /\ cpc' = cpc
    BY <1>4, QuietCounts DEF caller
  <2>2. QED
    BY <1>0, <2>1 DEF Counted, Calls, Told
<1>5. QED
  BY <1>1, <1>2, <1>3, <1>4, QuietSteps

(* A call that is alone finds nothing of another on the way when it starts. *)
LEMMA OwnStep == TypeOK /\ Replies /\ [Next]_vars => Own'
<1> SUFFICES ASSUME TypeOK, Replies, [Next]_vars,
                    NEW c \in Callers, cpc'[c] # "idle", c \notin overlap'
             PROVE  AllFor(cmd[c])' /\ (cpc'[c] = "tell" => cmd'[c] = sent')
  BY DEF Own
<1>0. /\ cpc \in [Callers -> {"idle", "tell", "load", "store", "recv", "wait"}]
      /\ cmd \in [Callers -> Nat] /\ card_cmd \in Seq(Nat) /\ sent \in Nat
  BY DEF TypeOK
<1>1. ASSUME cpc[c] # "idle", c \notin overlap
      PROVE  /\ Pending \in Nat /\ Pending <= 1 /\ (cpc[c] = "tell" => Pending = 0 /\ cmd[c] = sent)
             /\ AllFor(cmd[c])
             /\ \A d \in Callers : d # c => cpc[d] = "idle"
  <2>1. \A d \in Callers : d # c => cpc[d] = "idle"
    BY <1>1 DEF Replies, Alone
  <2>2. Calls <= 1 /\ Calls \in Nat /\ (cpc[c] = "tell" => Calls = 0)
    BY <2>1 DEF Calls, Told, Flag, Callers
  <2>3. Pending \in Nat /\ Pending <= Calls
    BY CountsAreNumbers DEF Replies, Counted
  <2>4. AllFor(cmd[c]) /\ (cpc[c] = "tell" => cmd[c] = sent)
    BY <1>1 DEF Replies, Own
  <2>5. QED
    BY <2>1, <2>2, <2>3, <2>4
<1>2. CASE CardReply \/ RxStatus \/ RxReply
  <2>1. cpc[c] # "idle" /\ c \notin overlap /\ UNCHANGED <<cmdwaitevent, answered, caller>>
    BY <1>2, MoveCounts DEF caller
  <2>2. Pending <= 1 /\ AllFor(cmd[c]) /\ (cpc[c] = "tell" => cmd[c] = sent)
    BY <1>1, <2>1
  <2>3. CASE CardReply
    <3>1. card_cmd # <<>> /\ ~Read /\ ~InBuffer /\ ~cmdwaitevent /\ Len(card_cmd) = 1
      <4>1. card_cmd # <<>>
        BY <2>3 DEF CardReply
      <4>2. ~Read /\ ~InBuffer /\ ~cmdwaitevent
        BY <2>2, <4>1, CountsAreNumbers
      <4>3. Len(card_cmd) \in Nat /\ Len(card_cmd) # 0
        BY <1>0, <4>1
      <4>4. Len(card_cmd) = 1
        BY <2>2, <4>3, CountsAreNumbers
      <4>5. QED
        BY <4>1, <4>2, <4>4
    <3>2. card_cmd' = <<>> /\ reply' = cmd[c]
      BY <1>0, <2>2, <2>3, <3>1 DEF CardReply, AllFor
    <3>3. UNCHANGED <<rpc, ireg>>
      BY <2>3 DEF CardReply, Raise, wlanPc
    <3>4. QED
      BY <2>1, <2>2, <3>1, <3>2, <3>3 DEF AllFor, Read, InBuffer, caller
  <2>4. CASE RxStatus
    BY <2>1, <2>2, <2>4 DEF RxStatus, AllFor, Announced, Read, InBuffer, caller
  <2>5. CASE RxReply
    BY <2>1, <2>2, <2>5 DEF RxReply, AllFor, Announced, Read, InBuffer, caller
  <2>6. QED
    BY <1>2, <2>3, <2>4, <2>5
<1>3. CASE RxCommand
  <2>1. cpc[c] # "idle" /\ c \notin overlap /\ UNCHANGED <<cmd, sent, overlap>> /\ (cpc'[c] = "tell" => cpc[c] = "tell")
    BY <1>0, <1>3, WakesFirst DEF Replies
  <2>2. AllFor(cmd[c]) /\ Pending <= 1 /\ (cpc[c] = "tell" => cmd[c] = sent)
    BY <1>1, <2>1
  <2>3. QED
    BY <1>3, <2>1, <2>2, CommandCounts, CountsAreNumbers DEF Replies, AllFor
<1>4. ASSUME NEW d \in Callers, CmdSend(d) PROVE AllFor(cmd[c])' /\ (cpc'[c] = "tell" => cmd'[c] = sent')
  <2>1. Out = {} /\ d = c /\ cmd'[c] = sent'
    BY <1>0, <1>4 DEF CmdSend, Out
  <2>2. Pending = 0
    <3>1. Calls = 0
      BY <2>1 DEF Out, Calls, Told, Flag, Callers
    <3>2. QED
      BY <3>1, CountsAreNumbers DEF Replies, Counted
  <2>3. /\ card_cmd' = <<>> /\ ~cmdwaitevent' /\ ~Announced' /\ ~Read' /\ ~InBuffer'
    BY <1>4, <2>2, CountsAreNumbers DEF CmdSend, Announced, Read, InBuffer, wlanPc
  <2>4. QED
    BY <2>1, <2>3 DEF AllFor
<1>5. ASSUME NEW d \in Callers, CallGoesOn(d) PROVE AllFor(cmd[c])' /\ (cpc'[c] = "tell" => cmd'[c] = sent')
  <2>1. /\ UNCHANGED <<cmd, sent, overlap, status, reply, rpc, ireg, resp, answered>>
        /\ cpc[d] # "idle" /\ \E at \in {"load", "store", "recv", "wait", "idle"} : cpc' = [cpc EXCEPT ![d] = at]
    BY <1>5 DEF CallGoesOn, CmdTell, CmdLoad, CmdStore, CmdRecv, cardVars, wlanPc, command
  <2>2. cpc[c] # "idle" /\ c \notin overlap /\ d = c /\ cpc'[c] # "tell"
    <3>1. cpc[c] # "idle" /\ c \notin overlap
      BY <1>0, <2>1
    <3>2. d = c
      BY <1>1, <2>1, <3>1
    <3>3. QED
      BY <1>0, <2>1, <3>1, <3>2
  <2>3. AllFor(cmd[c]) /\ (cpc[c] = "tell" => Pending = 0 /\ cmd[c] = sent)
    BY <1>1, <2>2
  <2>4. \A i \in DOMAIN card_cmd' : card_cmd'[i] = cmd'[c]
    <3>1. CASE CmdTell(c)
      <4>1. card_cmd = <<>> /\ cmd[c] = sent /\ card_cmd' \in {Append(card_cmd, sent), <<sent>>}
        BY <2>3, <3>1, CountsAreNumbers DEF CmdTell
      <4>2. card_cmd' = <<sent>>
        BY <1>0, <4>1
      <4>3. QED
        BY <2>1, <4>1, <4>2
    <3>2. CASE UNCHANGED card_cmd
      BY <2>1, <2>3, <3>2 DEF AllFor
    <3>3. QED
      BY <1>5, <2>2, <3>1, <3>2 DEF CallGoesOn, CmdLoad, CmdStore, CmdRecv, cardVars
  <2>5. cmdwaitevent' => cmdwaitevent
    BY <1>5 DEF CallGoesOn, CmdTell, CmdLoad, CmdStore, CmdRecv, Received, command
  <2>6. QED
    BY <2>1, <2>2, <2>3, <2>4, <2>5 DEF AllFor, Announced, Read, InBuffer
<1>6. CASE Quiet /\ UNCHANGED caller
  <2>1. cpc[c] # "idle" /\ c \notin overlap
    BY <1>6 DEF caller
  <2>2. QED
    BY <1>1, <1>6, <2>1 DEF AllFor, Quiet, caller
<1>7. QED
  BY <1>2, <1>3, <1>4, <1>5, <1>6, QuietSteps

LEMMA RepliesStep == TypeOK /\ Replies /\ [Next]_vars => Replies'
  BY InTurnStep, AloneStep, BitStep, CountStep, OwnStep DEF Replies

LEMMA InitReplies == Init => Replies
<1> SUFFICES ASSUME Init PROVE Replies
  OBVIOUS
<1>1. \A c \in Callers : cpc[c] = "idle"
  BY DEF Init
<1>2. InTurn /\ Alone /\ BitServed /\ Own
  BY <1>1 DEF Init, InTurn, Alone, BitServed, Own
<1>3. Counted
  BY <1>1 DEF Init, Counted, Pending, Calls, Announced, Read, InBuffer, Told, Flag, Callers
<1>4. QED
  BY <1>2, <1>3 DEF Replies

(* Of two senders, tshell and erx, that set CurCmd and wait on one event, the
   one whose call of DownloadCommandToStation the other's did not overlap is
   woken by the reply to its own command, although no reply is compared with
   CurCmd and whatever the calls before it left behind. *)
THEOREM RepliesMatch == Spec => OwnReplyOnly
<1>1. TypeOK /\ Replies /\ [Next]_vars
        => [\A c \in Callers \ overlap :
              cpc[c] # "idle" /\ cpc'[c] = "idle" => answered' = cmd[c]]_vars
  <2> SUFFICES ASSUME TypeOK, Replies, [Next]_vars, NEW c \in Callers \ overlap,
                      cpc[c] # "idle", cpc'[c] = "idle"
               PROVE  answered' = cmd[c]
    OBVIOUS
  <2>1. AllFor(cmd[c])
    BY DEF Replies, Own
  <2>2. CASE RxCommand
    BY <2>1, <2>2, CommandCounts DEF Replies, AllFor
  <2>3. ASSUME NEW d \in Callers, CmdSend(d) \/ CallGoesOn(d) PROVE answered' = cmd[c]
    <3>1. c = d /\ CmdRecv(d) /\ cmdwaitevent
      BY <2>3, CallCounts DEF TypeOK
    <3>2. QED
      BY <2>1, <3>1 DEF CmdRecv, AllFor
  <2>4. CASE UNCHANGED <<cur_cmd, cmdwaitevent, waiting, answered, caller>>
    BY <2>4 DEF caller
  <2>5. QED
    BY <2>2, <2>3, <2>4, CallsElsewhere
<1>2. QED
  BY <1>1, InitTyped, StepTyped, InitReplies, RepliesStep, PTL DEF Spec, OwnReplyOnly
-----------------------------------------------------------------------------
(* The way to the caller is open.  The card is masked only while its status is
   worked on; the line is disabled only until the thread, which is told, looks;
   and a status that was raised is noticed. *)
MaskedWhileRead == ~mask => rpc \in {"fetch", "reply"}
LineReturns == ~nvic => wakeup \/ rpc = "status"
StatusNoticed == status # {} => (irq /\ nvic) \/ wakeup \/ rpc = "status"

(* Once every call has told its command, a reply is on its way for the call
   that is alone, and for one of two calls that overlap. *)
Owed ==
  /\ \A c \in Callers : cpc[c] # "tell"
  /\ Out = Callers \/ \E c \in Out : c \notin overlap
ReplyOnWay == (Out # {} => cur_cmd) /\ (Owed => Pending > 0)

NothingLost == MaskedWhileRead /\ LineReturns /\ StatusNoticed /\ ReplyOnWay

LEMMA LineStep ==
  TypeOK /\ NothingLost /\ [Next]_vars => MaskedWhileRead' /\ LineReturns' /\ StatusNoticed'
<1> SUFFICES ASSUME TypeOK, NothingLost, [Next]_vars
             PROVE  MaskedWhileRead' /\ LineReturns' /\ StatusNoticed'
  OBVIOUS
<1>0. mask \in BOOLEAN /\ irq \in BOOLEAN /\ nvic \in BOOLEAN /\ wakeup \in BOOLEAN
  BY DEF TypeOK
<1> USE <1>0 DEF NothingLost, MaskedWhileRead, LineReturns, StatusNoticed, cardVars, line, wlanPc,
            rxQueue, command, caller, erx
<1>1. CASE Card
  BY <1>1 DEF Card, CardFrame, CardReply, CardEvent, Raise
<1>2. CASE Isr
  BY <1>2 DEF Isr
<1>3. CASE RxWake \/ RxStatus
  BY <1>3 DEF RxWake, RxStatus, Listen
<1>4. CASE RxFetch \/ RxReply \/ RxCommand
  BY <1>4 DEF RxFetch, RxReply, RxCommand
<1>5. CASE RxNotice \/ RxEvent \/ RxCause
  BY <1>5 DEF RxNotice, RxEvent, RxCause
<1>6. CASE \E c \in Callers : CmdSend(c) \/ CallGoesOn(c)
  BY <1>6 DEF CallGoesOn, CmdSend, CmdTell, CmdLoad, CmdStore, CmdRecv
<1>7. CASE WiredNotice \/ ErxMail \/ ErxPop \/ ErxKeyed \/ ErxEmpty \/ UNCHANGED vars
  BY <1>7 DEF WiredNotice, ErxMail, ErxPop, ErxKeyed, ErxEmpty, vars
<1>8. QED
  BY <1>1, <1>2, <1>3, <1>4, <1>5, <1>6, <1>7 DEF Next, RxThread

LEMMA WayStep == TypeOK /\ Replies /\ ReplyOnWay /\ [Next]_vars => ReplyOnWay'
<1> SUFFICES ASSUME TypeOK, Replies, ReplyOnWay, [Next]_vars PROVE ReplyOnWay'
  OBVIOUS
<1>0. cpc \in [Callers -> {"idle", "tell", "load", "store", "recv", "wait"}] /\ Pending \in Nat
  BY CountsAreNumbers DEF TypeOK
<1>1. CASE CardReply \/ RxStatus \/ RxReply
  <2>1. Pending' = Pending /\ UNCHANGED <<cur_cmd, cpc, overlap>>
    BY <1>1, MoveCounts DEF caller
  <2>2. QED
    BY <2>1 DEF ReplyOnWay, Owed, Out
<1>2. CASE RxCommand
  <2>1. UNCHANGED <<cur_cmd, overlap>>
    BY <1>2, WakesFirst DEF Replies
  <2>2. CASE UNCHANGED cpc
    <3>1. cur_cmd /\ Pending > 0 => Pending' > 0
      <4>1. ~(waiting # <<>> /\ cpc' = [cpc EXCEPT ![Head(waiting)] = "idle"])
        BY <1>0, <2>2, FirstWaits DEF Replies
      <4>2. Pending' = Pending \/ Pending' > 0 \/ ~cur_cmd
        BY <1>2, <4>1, CommandCounts DEF Replies
      <4>3. QED
        BY <4>2
    <3>2. Owed' => Owed /\ Out # {}
      BY <2>1, <2>2 DEF Owed, Out, Callers
    <3>3. QED
      BY <2>1, <2>2, <3>1, <3>2 DEF ReplyOnWay, Out
  <2>3. ASSUME NEW d \in Callers, cpc[d] = "wait", cpc' = [cpc EXCEPT ![d] = "idle"] PROVE ReplyOnWay'
    <3>1. Out' # Callers /\ d \notin Out' /\ Out' \subseteq Out
      BY <1>0, <2>3 DEF Out
    <3>2. \A c \in Out' : c \in overlap'
      BY <1>0, <2>1, <2>3, <3>1 DEF Replies, Alone, Out
    <3>3. QED
      BY <2>1, <3>1, <3>2 DEF ReplyOnWay, Owed
  <2>4. QED
    BY <1>2, <2>2, <2>3, WakesFirst DEF Replies
<1>3. ASSUME NEW c \in Callers, CmdSend(c) \/ CallGoesOn(c) PROVE ReplyOnWay'
  <2>1. Out' # {} => cur_cmd'
    BY <1>0, <1>3 DEF CallGoesOn, CmdSend, CmdTell, CmdLoad, CmdStore, CmdRecv, command, ReplyOnWay, Out
  <2>2. CASE CmdTell(c) /\ Pending' > 0
    BY <2>1, <2>2 DEF ReplyOnWay
  <2>3. CASE CmdRecv(c) /\ cpc[c] = "recv" /\ cpc' = [cpc EXCEPT ![c] = "idle"]
    <3>1. Out' # Callers /\ c \notin Out' /\ Out' \subseteq Out /\ UNCHANGED overlap
      BY <1>0, <2>3 DEF Out, CmdRecv
    <3>2. \A d \in Out' : d \in overlap'
      BY <1>0, <2>3, <3>1 DEF Replies, Alone, Out
    <3>3. QED
      BY <2>1, <3>1, <3>2 DEF ReplyOnWay, Owed
  <2>4. CASE CmdSend(c)
    <3>1. cpc'[c] = "tell"
      BY <1>0, <2>4 DEF CmdSend
    <3>2. QED
      BY <2>1, <3>1 DEF ReplyOnWay, Owed
  <2>5. ASSUME NEW at \in {"store", "recv", "wait"}, CallGoesOn(c), Pending' = Pending, Told(c),
               cpc' = [cpc EXCEPT ![c] = at]
        PROVE  ReplyOnWay'
    <3>1. UNCHANGED overlap
      BY <2>5 DEF CallGoesOn, CmdTell, CmdLoad, CmdStore, CmdRecv
    <3>2. \A d \in Callers : (cpc'[d] = "tell" <=> cpc[d] = "tell") /\ (cpc'[d] = "idle" <=> cpc[d] = "idle")
      BY <1>0, <2>5 DEF Told
    <3>3. Owed' <=> Owed
      BY <3>1, <3>2 DEF Owed, Out
    <3>4. QED
      BY <1>0, <2>1, <2>5, <3>3 DEF ReplyOnWay
  <2>6. QED
    BY <1>3, <2>2, <2>3, <2>4, <2>5, CallCounts
<1>4. CASE Quiet /\ UNCHANGED caller
  <2>1. Pending' = Pending /\ UNCHANGED <<cur_cmd, cpc, overlap>>
    BY <1>4, QuietCounts DEF Quiet, caller
  <2>2. QED
    BY <2>1 DEF ReplyOnWay, Owed, Out
<1>5. QED
  BY <1>1, <1>2, <1>3, <1>4, QuietSteps

(* With both senders, tshell and erx: no interrupt is lost, and no reply that a
   call depends on.  Once the commands are told, a reply is on its way for a
   call that is alone and for one of two calls that overlap (and CurCmd is set,
   so that wlan_process_rx_command sets the event); and a status that the card
   raised has its interrupt, or the thread it wakes, on the way
   (EXTI1_IRQHandler, sbi_get_int_status).  It is what CommandCompletes needs
   beyond fairness. *)
THEOREM ReplyNeverLost == Spec => []NothingLost
<1>1. Init => NothingLost
  <2>1. Init => MaskedWhileRead /\ LineReturns /\ StatusNoticed
    BY DEF Init, MaskedWhileRead, LineReturns, StatusNoticed
  <2>2. Init => ReplyOnWay
    BY DEF Init, ReplyOnWay, Owed, Out, Callers
  <2>3. QED
    BY <2>1, <2>2 DEF NothingLost
<1>2. TypeOK /\ Replies /\ NothingLost /\ [Next]_vars => NothingLost'
  BY LineStep, WayStep DEF NothingLost
<1>3. QED
  BY <1>1, <1>2, InitTyped, StepTyped, InitReplies, RepliesStep, PTL DEF Spec
=============================================================================
