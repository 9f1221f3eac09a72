-------------------------------- MODULE Wlan --------------------------------
(***************************************************************************)
(* The WiFi driver wifi_8686/: the thread "wlan" (priority 10) serves the  *)
(* card's interrupts; lwIP's thread erx (14) empties the list of received  *)
(* frames, told by a mailbox it shares with the wired port; two threads    *)
(* send commands and sleep on the event cmdwaitevent: tshell (20), and erx *)
(* itself, when the key exchange that it hands an EAPOL frame to sets a    *)
(* key (mrvl_wlan_rx, wlan_wpa_eapol_input, wlan_wpa_set_key).  No lock    *)
(* keeps one sender out while the other's command is out.                  *)
(*                                                                         *)
(* The thread "wlan" can block only where it takes gspi_lock for the SPI   *)
(* bus or allocates memory: its steps end there.  The others move only     *)
(* while it is blocked, and tshell only where erx may be.  HisRegCpy is    *)
(* read, changed and written by a sender without a lock, hence CmdLoad and *)
(* CmdStore.                                                               *)
(*                                                                         *)
(* All frames are taken to be SNAP frames, as the firmware passes up no    *)
(* others (wlan_rx.c:123); of another the driver uses the list node after  *)
(* it freed it (line 153).  Left out: the reply's result, which is stored  *)
(* in CurCmdRetCode and never read; a command that fails before it is      *)
(* sent; sending of frames, which touches no state shown here; the bits    *)
(* HIS_TxDnLdRdy and HIS_CmdDnLdRdy, which nothing tests.                  *)
(***************************************************************************)
EXTENDS Integers, Sequences

CONSTANTS
  MailSlots,  \* size of erx's mailbox (RT_LWIP_ETHTHREAD_MBOX_SIZE)
  Wired,      \* the wired port is in use as well
  MaxFrames,  \* frames the card receives (bounds the model)
  MaxCmds     \* commands sent (bounds the model)

ASSUME WlanAssumption ==
  MailSlots \in Nat \ {0} /\ Wired \in BOOLEAN /\ MaxFrames \in Nat /\ MaxCmds \in Nat

Callers == {"tshell", "erx"}

VARIABLES
  status, mask,     \* card: interrupt status; interrupts are not masked
  card_cmd,         \* card: the commands in work
  reply,            \* card: the command its reply is for
  arrived,          \* card: the last frame received
  irq, nvic,        \* EXTI line 1 is pending; its interrupt is enabled
  wakeup,           \* event WlanRxWakeUp
  rpc, ireg,        \* thread "wlan": position, status it read
  HisRegCpy, cur_cmd, cmdwaitevent, \* fields of the card; cur_cmd is CurCmd # NULL
  RxList, RxQueueCount,
  resp, answered,   \* the reply in CmdResBuf; the last one processed (history)
  waiting,          \* the callers suspended on cmdwaitevent
  cpc, hcopy, cmd,  \* callers: position, HisRegCpy as read, command number
  sent, overlap,    \* commands so far; calls that overlapped another (history)
  mail, epc, got    \* erx: mailbox, position, last frame taken

cardVars == <<status, mask, card_cmd, reply, arrived>>
line     == <<irq, nvic, wakeup>>
wlanPc   == <<rpc, ireg>>
rxQueue  == <<RxList, RxQueueCount>>
command  == <<cur_cmd, cmdwaitevent, waiting, resp, answered>>
caller   == <<cpc, hcopy, cmd, sent, overlap>>
erx      == <<mail, epc, got>>
vars == <<cardVars, line, wlanPc, HisRegCpy, rxQueue, command, caller, erx>>

Bits == {"cmd", "rx", "event"}

(* After WlanInitPhase3: the card is running and nothing is in progress. *)
Init ==
  /\ status = {} /\ mask = TRUE /\ card_cmd = <<>> /\ reply = 0 /\ arrived = 0
  /\ irq = FALSE /\ nvic = TRUE /\ wakeup = FALSE
  /\ rpc = "wait" /\ ireg = {}
  /\ HisRegCpy = {} /\ cur_cmd = FALSE /\ cmdwaitevent = FALSE /\ waiting = <<>>
  /\ RxList = <<>> /\ RxQueueCount = 0 /\ resp = 0 /\ answered = 0
  /\ cpc = [c \in Callers |-> "idle"] /\ hcopy = [c \in Callers |-> {}]
  /\ cmd = [c \in Callers |-> 0] /\ sent = 0 /\ overlap = {}
  /\ mail = <<>> /\ epc = "idle" /\ got = 0
------------------------------------------------------------------------------
(* The card.  It raises nothing while the host has masked it. *)

Raise(bit) ==
  /\ mask
  /\ status' = status \cup {bit}
  /\ irq' = TRUE
  /\ UNCHANGED <<mask, nvic, wakeup, wlanPc, HisRegCpy, rxQueue, command, caller, erx>>

(* One frame at a time: the next waits until the host has read the port. *)
CardFrame ==
  /\ arrived < MaxFrames /\ "rx" \notin status
  /\ Raise("rx")
  /\ arrived' = arrived + 1
  /\ UNCHANGED <<card_cmd, reply>>

(* One reply at a time as well. *)
CardReply ==
  /\ card_cmd # <<>> /\ "cmd" \notin status
  /\ Raise("cmd")
  /\ reply' = Head(card_cmd) /\ card_cmd' = Tail(card_cmd)
  /\ UNCHANGED arrived

CardEvent ==
  /\ "event" \notin status
  /\ Raise("event")
  /\ UNCHANGED <<card_cmd, reply, arrived>>

Card == CardFrame \/ CardReply \/ CardEvent

(* EXTI1_IRQHandler: wlan_interrupt, then the line is disabled and cleared. *)
Isr ==
  /\ irq /\ nvic
  /\ wakeup' = TRUE /\ nvic' = FALSE /\ irq' = FALSE
  /\ UNCHANGED <<cardVars, wlanPc, HisRegCpy, rxQueue, command, caller, erx>>
------------------------------------------------------------------------------
(* The thread "wlan".  A definition that stands just before the one it
   spoils, and that nothing uses, is the code with one plausible mistake. *)

RxWake ==
  /\ rpc = "wait" /\ wakeup
  /\ wakeup' = FALSE
  /\ rpc' = "status"
  /\ UNCHANGED <<cardVars, irq, nvic, ireg, HisRegCpy, rxQueue, command, caller, erx>>

(* sbi_get_int_status: masks the card, reads and clears the status, clears
   the pending line and enables it again, ... *)
ListenForgotten == nvic' = nvic
Listen == nvic' = TRUE

RxStatus ==
  /\ rpc = "status"
  /\ ireg' = status /\ status' = {} /\ mask' = FALSE
  /\ irq' = FALSE /\ Listen
  /\ rpc' = "fetch"
  /\ UNCHANGED <<card_cmd, reply, arrived, wakeup, HisRegCpy, rxQueue, command,
                 caller, erx>>

(* ... fetches a frame, which ProcessRxedPacket appends to the list, or drops
   when it is short or memory is out, ... *)
PushedFront(frame) == <<frame>> \o RxList
Pushed(frame) == Append(RxList, frame)

RxFetch ==
  /\ rpc = "fetch"
  /\ \/ /\ "rx" \in ireg
        /\ RxList' = Pushed(arrived) /\ RxQueueCount' = RxQueueCount + 1
     \/ UNCHANGED rxQueue
  /\ rpc' = "reply"
  /\ UNCHANGED <<cardVars, line, ireg, HisRegCpy, command, caller, erx>>

(* ... fetches a reply and lets the card interrupt again. *)
RxReply ==
  /\ rpc = "reply"
  /\ resp' = IF "cmd" \in ireg THEN reply ELSE resp
  /\ mask' = TRUE
  /\ rpc' = "command"
  /\ UNCHANGED <<status, card_cmd, reply, arrived, line, ireg, HisRegCpy, rxQueue,
                 cur_cmd, cmdwaitevent, waiting, answered, caller, erx>>

(* rt_event_send: the caller that waits longest gets the event and clears it. *)
EventSend ==
  \/ /\ waiting = <<>>
     /\ cmdwaitevent' = TRUE
     /\ UNCHANGED <<waiting, cpc>>
  \/ /\ waiting # <<>>
     /\ cpc' = [cpc EXCEPT ![Head(waiting)] = "idle"] /\ waiting' = Tail(waiting)
     /\ UNCHANGED cmdwaitevent

(* From here to the event cause the thread does not block.  The bits join
   those already in HisRegCpy; wlan_process_rx_command wakes a caller,
   whatever the reply says, unless CurCmd is NULL. *)
RxCommand ==
  /\ rpc = "command"
  /\ HisRegCpy' = (HisRegCpy \cup ireg) \ {"cmd"}
  /\ \/ /\ "cmd" \in HisRegCpy \cup ireg /\ cur_cmd
        /\ EventSend /\ answered' = resp
     \/ /\ ~("cmd" \in HisRegCpy \cup ireg /\ cur_cmd)
        /\ UNCHANGED <<cmdwaitevent, waiting, cpc, answered>>
  /\ rpc' = "notice"
  /\ UNCHANGED <<cardVars, line, ireg, rxQueue, cur_cmd, resp, hcopy, cmd, sent,
                 overlap, erx>>

(* eth_device_ready: a full mailbox refuses, and nobody looks at the result. *)
Post(device) == mail' = IF Len(mail) < MailSlots THEN Append(mail, device) ELSE mail

(* A frame came and is alone in the list: erx is told. *)
RxNotice ==
  /\ rpc = "notice"
  /\ HisRegCpy' = HisRegCpy \ {"rx"}
  /\ \/ "rx" \in HisRegCpy /\ RxQueueCount = 1 /\ Post("wlan")
     \/ ~("rx" \in HisRegCpy /\ RxQueueCount = 1) /\ UNCHANGED mail
  /\ rpc' = "event"
  /\ UNCHANGED <<cardVars, line, ireg, rxQueue, command, caller, epc, got>>

(* A card event: its cause is read over the bus and only logged. *)
RxEvent ==
  /\ rpc = "event"
  /\ HisRegCpy' = HisRegCpy \ {"event"}
  /\ rpc' = IF "event" \in HisRegCpy THEN "cause" ELSE "wait"
  /\ UNCHANGED <<cardVars, line, ireg, rxQueue, command, caller, erx>>

RxCause ==
  /\ rpc = "cause"
  /\ rpc' = "wait"
  /\ UNCHANGED <<cardVars, line, ireg, HisRegCpy, rxQueue, command, caller, erx>>

RxThread ==
  RxWake \/ RxStatus \/ RxFetch \/ RxReply \/ RxCommand \/ RxNotice \/ RxEvent \/ RxCause

(* The thread is the most urgent of the three: the others run while it
   sleeps, waits for the bus or for memory.  tshell runs where erx may do so,
   or wait for its command or for lwIP. *)
LetsRunAlways == TRUE
LetsRun == rpc \in {"status", "fetch", "reply", "cause"} \/ (rpc = "wait" /\ ~wakeup)
Runs(c) == LetsRun /\ (c = "tshell" => cpc["erx"] \notin {"load", "store", "recv"})
------------------------------------------------------------------------------
(* The callers, in DownloadCommandToStation. *)

Out == {c \in Callers : cpc[c] # "idle"}

(* tshell sends when it likes, erx for the key exchange.  CurCmd is set, the
   command is written to the card, ... *)
CmdSend(c) ==
  /\ Runs(c) /\ (c = "erx" => epc = "eapol")
  /\ cpc[c] = "idle" /\ sent < MaxCmds
  /\ sent' = sent + 1
  /\ cmd' = [cmd EXCEPT ![c] = sent + 1] /\ cur_cmd' = TRUE
  /\ cpc' = [cpc EXCEPT ![c] = "tell"]
  /\ overlap' = IF Out = {} THEN {} ELSE overlap \cup Out \cup {c}
  /\ UNCHANGED <<status, mask, card_cmd, reply, arrived, line, wlanPc, HisRegCpy, rxQueue,
                 cmdwaitevent, waiting, resp, answered, hcopy, erx>>

(* ... which is told: its port holds the command written last.  What the card
   does with a command while it works on another is not known: it takes it
   after that one, or in its place. *)
CmdTell(c) ==
  /\ Runs(c)
  /\ cpc[c] = "tell"
  /\ card_cmd' \in {Append(card_cmd, sent), <<sent>>}
  /\ cpc' = [cpc EXCEPT ![c] = "load"]
  /\ UNCHANGED <<status, mask, reply, arrived, line, wlanPc, HisRegCpy, rxQueue,
                 command, hcopy, cmd, sent, overlap, erx>>

(* HisRegCpy &= ~HIS_TxDnLdRdy, in two steps. *)
CmdLoad(c) ==
  /\ Runs(c)
  /\ cpc[c] = "load"
  /\ hcopy' = [hcopy EXCEPT ![c] = HisRegCpy]
  /\ cpc' = [cpc EXCEPT ![c] = "store"]
  /\ UNCHANGED <<cardVars, line, wlanPc, HisRegCpy, rxQueue, command, cmd, sent, overlap, erx>>

CmdStore(c) ==
  /\ Runs(c)
  /\ cpc[c] = "store"
  /\ HisRegCpy' = hcopy[c]
  /\ cpc' = [cpc EXCEPT ![c] = "recv"]
  /\ UNCHANGED <<cardVars, line, wlanPc, rxQueue, command, hcopy, cmd, sent, overlap, erx>>

(* rt_event_recv with RT_EVENT_FLAG_CLEAR, without a time limit, on an event
   whose waiters are served in the order they came (RT_IPC_FLAG_FIFO). *)
ReceivedKept == TRUE
Received == FALSE

CmdRecv(c) ==
  /\ Runs(c)
  /\ cpc[c] = "recv"
  /\ \/ /\ cmdwaitevent
        /\ cmdwaitevent' = Received
        /\ cpc' = [cpc EXCEPT ![c] = "idle"]
        /\ UNCHANGED waiting
     \/ /\ ~cmdwaitevent
        /\ waiting' = Append(waiting, c)
        /\ cpc' = [cpc EXCEPT ![c] = "wait"]
        /\ UNCHANGED cmdwaitevent
  /\ UNCHANGED <<cardVars, line, wlanPc, HisRegCpy, rxQueue, cur_cmd, resp, answered,
                 hcopy, cmd, sent, overlap, erx>>

CallGoesOn(c) == CmdTell(c) \/ CmdLoad(c) \/ CmdStore(c) \/ CmdRecv(c)
------------------------------------------------------------------------------
(* The wired port's interrupt announces its frames in the same mailbox. *)
WiredNotice ==
  /\ Wired
  /\ Post("wired")
  /\ UNCHANGED <<cardVars, line, wlanPc, HisRegCpy, rxQueue, command, caller, epc, got>>

(* erx takes a mail; for this device it polls until mrvl_wlan_rx has none. *)
ErxMail ==
  /\ LetsRun
  /\ epc = "idle" /\ mail # <<>>
  /\ mail' = Tail(mail)
  /\ epc' = IF Head(mail) = "wlan" THEN "poll" ELSE "idle"
  /\ UNCHANGED <<cardVars, line, wlanPc, HisRegCpy, rxQueue, command, caller, got>>

(* mrvl_wlan_rx: the oldest frame goes to lwIP, an EAPOL frame to the key
   exchange. *)
PoppedForgets == RxQueueCount' = IF Len(RxList) > 1 THEN RxQueueCount ELSE 0
Popped == RxQueueCount' = RxQueueCount - 1

ErxPop ==
  /\ LetsRun
  /\ epc = "poll" /\ RxList # <<>>
  /\ got' = Head(RxList) /\ RxList' = Tail(RxList) /\ Popped
  /\ epc' \in {"poll", "eapol"}
  /\ UNCHANGED <<cardVars, line, wlanPc, HisRegCpy, command, caller, mail>>

(* The key exchange, which may have sent commands, is done with the frame;
   the loop goes on. *)
ErxKeyed ==
  /\ LetsRun
  /\ epc = "eapol" /\ cpc["erx"] = "idle"
  /\ epc' = "poll"
  /\ UNCHANGED <<cardVars, line, wlanPc, HisRegCpy, rxQueue, command, caller, mail, got>>

ErxEmpty ==
  /\ LetsRun
  /\ epc = "poll" /\ RxList = <<>>
  /\ epc' = "idle"
  /\ UNCHANGED <<cardVars, line, wlanPc, HisRegCpy, rxQueue, command, caller, mail, got>>

Next ==
  \/ Card \/ Isr \/ RxThread
  \/ \E c \in Callers : CmdSend(c) \/ CallGoesOn(c)
  \/ WiredNotice \/ ErxMail \/ ErxPop \/ ErxKeyed \/ ErxEmpty

Spec == Init /\ [][Next]_vars

(* A reply that is ready is announced if the mask allows it again and again,
   and a caller runs if the more urgent threads leave the processor to one
   again and again. *)
FairSpec ==
  /\ Spec
  /\ SF_vars(CardReply) /\ WF_vars(Isr) /\ WF_vars(RxThread)
  /\ SF_vars(\E c \in Callers : CallGoesOn(c))
------------------------------------------------------------------------------
(* Properties. *)

(* Types; the counter, which decides about notices, is the list's length. *)
TypeOK ==
  /\ status \subseteq Bits /\ ireg \subseteq Bits
  /\ HisRegCpy \subseteq Bits /\ hcopy \in [Callers -> SUBSET Bits]
  /\ mask \in BOOLEAN /\ irq \in BOOLEAN /\ nvic \in BOOLEAN /\ wakeup \in BOOLEAN
  /\ cur_cmd \in BOOLEAN /\ cmdwaitevent \in BOOLEAN
  /\ card_cmd \in Seq(Nat) /\ reply \in Nat /\ arrived \in Nat
  /\ resp \in Nat /\ answered \in Nat /\ got \in Nat
  /\ cmd \in [Callers -> Nat] /\ sent \in Nat /\ overlap \subseteq Callers
  /\ waiting \in Seq(Callers)
  /\ RxList \in Seq(Nat) /\ RxQueueCount = Len(RxList)
  /\ mail \in Seq({"wlan", "wired"}) /\ Len(mail) <= MailSlots
  /\ rpc \in {"wait", "status", "fetch", "reply", "command", "notice", "event", "cause"}
  /\ cpc \in [Callers -> {"idle", "tell", "load", "store", "recv", "wait"}]
  /\ epc \in {"idle", "poll", "eapol"}

(* Frames reach erx in the order the card received them, none twice. *)
FramesInOrder == [][got' # got => got' > got]_got

(* The notice of a frame alone in the list is still to come. *)
NoticeDue ==
  /\ RxQueueCount = 1
  /\ \/ rpc \in {"reply", "command"} /\ "rx" \in ireg
     \/ rpc = "notice" /\ "rx" \in HisRegCpy

(* "notify device, RxReady" (wlan_main.c:401): a received frame does not stay
   in the list with nobody on the way to fetch it; erx is when it polls, or
   will again after the key exchange.  Only the first frame is announced, so
   that the frames after it would stay there too. *)
FrameNoticed ==
  RxList # <<>> =>
    epc # "idle" \/ NoticeDue \/ \E i \in DOMAIN mail : mail[i] = "wlan"

(* One step alone can strand frames in the list: the notice that finds the
   shared mailbox full.  In particular a caller's write of HisRegCpy, which takes
   no lock, never wipes out the bit of a frame. *)
OnlyFullMailboxStrands ==
  [][FrameNoticed /\ ~FrameNoticed' => rpc = "notice" /\ Len(mail) = MailSlots]_vars

(* A call that no other call overlaps is woken by the reply to its own command,
   whatever overlapped before: replies carry no number that anybody looks at,
   and the event outlives the call that waited.  Of two calls that overlap one
   may return on the other's reply: both set CurCmd and wait on one event. *)
OwnReplyOnly ==
  [][\A c \in Callers \ overlap :
       cpc[c] # "idle" /\ cpc'[c] = "idle" => answered' = cmd[c]]_vars

(* A caller waits without a time limit.  A call that no other overlaps returns,
   and of two calls that do one returns; the other may wait for ever: again and
   again nobody is in a call but one that another overlapped. *)
CommandCompletes == []<>(Out # Callers /\ Out \subseteq overlap)
=============================================================================
