------------------------------- MODULE SdHost --------------------------------
(***************************************************************************)
(* The SD host driver drivers/stm32f4xx_sd.c: the thread that sends a      *)
(* request and waits for the acknowledgement (mmcsd_core of the kernel     *)
(* lets one in at a time), the SDIO interrupt, and the peripheral with its *)
(* command path and its data path.                                         *)
(*                                                                         *)
(* The interrupt is one step and comes before the next step of the thread; *)
(* the thread's steps end where an interrupt between them makes a          *)
(* difference.  GO_IDLE_STATE is taken to be the only command without a    *)
(* reply: the driver goes by the command's code where it enables CMDSENT   *)
(* (line 392) and by its reply type elsewhere (line 376).  Left out are    *)
(* the addresses of DMA and the interrupts of SDIO cards.                  *)
(***************************************************************************)
EXTENDS Integers

CONSTANT MaxAcks \* bound of the counted acknowledgements

ASSUME SdHostAssumption == MaxAcks \in Nat /\ MaxAcks > 1

CommandErrors == {"CCRCFAIL", "CTIMEOUT"}
DataErrors == {"DCRCFAIL", "DTIMEOUT", "RXOVERR", "TXUNDERR"}
Errors == CommandErrors \cup DataErrors \cup {"STBITERR"} \* STM32F4XX_SDIO_ERRORS
Flags == Errors \cup {"CMDREND", "CMDSENT", "DATAEND"}

(* Commands without data and transfers with and without a stop command, by
   the types of their replies: none (GO_IDLE_STATE), R3 (and R4) without a
   checksum, R1 (and R2, R6, R7) and R1B (and R5) with one. *)
Requests ==
  [resp : {"none", "R3", "R1", "R1B"}, data : {"none"}, stop : {"none"}]
  \cup [resp : {"R1", "R1B"}, data : {"read", "write"}, stop : {"none", "R1", "R1B"}]

VARIABLES
  sta, mask,      \* SDIO->STA and SDIO->MASK
  cpsm, dpsm,     \* the command under way, and the transfer the data path is set to
  tpc, req,       \* position of the thread; its request
  cmd, status,    \* sdio->cmd and sdio->current_status
  err,            \* the commands and the data that were marked failed
  acks,           \* tokens of the semaphore the thread waits for
  done,           \* what the card and the peripheral did well for req (history)
  orphan,         \* the data path is set for a command that failed (history)
  odd,            \* a flag of such a data path came up (history)
  crossed,        \* a transfer failed, its command's reply being unserved and
                  \* a stop command due (history)
  forgiven,       \* commands whose reply came spoilt and is let pass (history)
  overrun         \* the FIFO ran over or empty in this request (history)

regs == <<sta, mask, cpsm, dpsm>>
sdio == <<cmd, status, err>>
hist == <<done, orphan, odd, crossed, forgiven, overrun>>
vars == <<regs, tpc, req, sdio, acks, hist>>

Init ==
  /\ sta = {} /\ mask = {} /\ cpsm = "none" /\ dpsm = "none"
  /\ tpc = "idle" /\ req = [resp |-> "none", data |-> "none", stop |-> "none"]
  /\ cmd = "none" /\ status = "init" /\ err = {} /\ acks = 0
  /\ done = {} /\ orphan = FALSE /\ odd = FALSE /\ overrun = FALSE
  /\ crossed = FALSE /\ forgiven = {}
------------------------------------------------------------------------------
(* The peripheral and the card. *)

(* The reply type of the command or the stop command. *)
Resp(c) == IF c = "stop" THEN req.stop ELSE req.resp

(* The types that resp_type(cmd) & (RESP_R3 | RESP_R4) lets pass.  They are
   numbers, not bits (R1 = 1, R1B = 2, R2 = 3, R3 = 4, R4 = 5, R6 = 6, R7 = 7,
   R5 = 8), and 1, 3, 4, 5, 6 and 7 share a bit with 4 | 5. *)
Forgiven == {"R3", "R1"}

(* The command under way ends: a reply, a broken reply or none. *)
CommandEnds ==
  /\ cpsm # "none"
  /\ \E flag \in IF Resp(cpsm) = "none" THEN {"CMDSENT"}
                 ELSE {"CMDREND", "CCRCFAIL", "CTIMEOUT"} :
       /\ sta' = sta \cup {flag}
       /\ done' = IF flag \in {"CMDREND", "CMDSENT"}
                     \/ (flag = "CCRCFAIL" /\ Resp(cpsm) = "R3")
                  THEN done \cup {cpsm} ELSE done
       /\ forgiven' = IF flag = "CCRCFAIL" /\ Resp(cpsm) = "R1"
                      THEN forgiven \cup {cpsm} ELSE forgiven
       /\ orphan' = (orphan \/ (cpsm = "cmd" /\ req.data # "none"
                                 /\ flag \in CommandErrors))
  /\ cpsm' = "none"
  /\ UNCHANGED <<mask, dpsm, tpc, req, sdio, acks, odd, crossed, overrun>>

(* The data path ends: complete, spoilt or timed out; after the reply to its
   command, unless that command failed. *)
DataEnds ==
  /\ dpsm # "none" /\ (cpsm # "cmd" \/ orphan)
  /\ \E flag \in {"DATAEND", "DTIMEOUT", "DCRCFAIL"}
               \cup (IF dpsm = "read" THEN {"RXOVERR", "STBITERR"} ELSE {"TXUNDERR"}) :
       /\ sta' = sta \cup {flag}
       /\ done' = IF flag = "DATAEND" /\ ~orphan THEN done \cup {"data"} ELSE done
       /\ overrun' = (overrun \/ flag \in {"RXOVERR", "TXUNDERR"})
       /\ crossed' = (crossed \/ ("CMDREND" \in sta /\ flag # "DATAEND"
                                    /\ req.stop # "none"))
  /\ dpsm' = "none"
  /\ odd' = (odd \/ orphan)
  /\ UNCHANGED <<mask, cpsm, tpc, req, sdio, acks, orphan, forgiven>>
------------------------------------------------------------------------------
(* The driver.  A definition that stands just before the one it spoils, and
   that nothing uses, is the code with one plausible mistake in it. *)

(* The interrupts that stm32f4xx_sdio_send_command enables for a command. *)
CommandIts(resp) ==
  IF resp = "none" THEN {"CMDSENT"} ELSE {"CCRCFAIL", "CMDREND", "CTIMEOUT"}

(* An interrupt that is due comes before the thread's next step. *)
Interrupted == sta \cap mask # {}

(* mmcsd_send_request clears the errors; stm32f4xx_sdio_request sets the state
   and enables the interrupts of the command.  After a flag that belongs to no
   request, or an acknowledgement that may come twice, the model takes no
   other request. *)
Request ==
  /\ tpc = "idle" /\ ~Interrupted /\ ~odd /\ ~crossed
  /\ req' \in Requests
  /\ err' = {} /\ cmd' = "cmd" /\ status' = "cmd"
  /\ mask' = mask \cup CommandIts(req'.resp)
  /\ tpc' = "issue"
  /\ done' = {} /\ forgiven' = {} /\ overrun' = FALSE
  /\ UNCHANGED <<sta, cpsm, dpsm, acks, orphan, odd, crossed>>

(* SDIO_SendCommand. *)
Issue ==
  /\ tpc = "issue" /\ ~Interrupted
  /\ cpsm' = "cmd"
  /\ tpc' = IF req.data = "none" THEN "wait" ELSE "config"
  /\ UNCHANGED <<sta, mask, dpsm, req, sdio, acks, hist>>

(* The data path is set up after the command was sent. *)
DataItsNoTimeout == {"DCRCFAIL", "DATAEND", "RXOVERR", "STBITERR"}
DataIts == {"DCRCFAIL", "DTIMEOUT", "DATAEND", "RXOVERR", "STBITERR"}

Config ==
  /\ tpc = "config" /\ ~Interrupted
  /\ dpsm' = req.data
  /\ mask' = mask \cup DataIts
  /\ orphan' = ("cmd" \notin done /\ cpsm # "cmd")
  /\ tpc' = "wait"
  /\ UNCHANGED <<sta, cpsm, req, sdio, acks, done, odd, crossed, forgiven, overrun>>

(* The semaphore of mmcsd_send_request. *)
Take ==
  /\ tpc = "wait" /\ ~Interrupted /\ acks > 0
  /\ acks' = acks - 1
  /\ tpc' = "idle"
  /\ UNCHANGED <<regs, req, sdio, hist>>

(* cmd->data: a stop command has none. *)
Data == IF cmd = "cmd" THEN req.data ELSE "none"

(* Whether this interrupt ends the command or the transfer. *)
CompletesOnReply == sta \cap (Errors \cup {"CMDREND", "CMDSENT", "DATAEND"}) # {}
Completes ==
  \/ sta \cap (Errors \cup {"CMDSENT", "DATAEND"}) # {}
  \/ "CMDREND" \in sta /\ Data = "none"

(* The errors stm32f4xx_sdio_completed_command notes: of a data error only the
   timeout and the checksum, and of a command error nothing if there is a data
   error as well. *)
Noted ==
  IF sta \cap Errors = {} THEN err \ {cmd}
  ELSE IF "CCRCFAIL" \in sta /\ Resp(cmd) \in Forgiven THEN err \ {cmd}
  ELSE IF sta \cap DataErrors = {} THEN err \cup {cmd}
  ELSE IF Data # "none" /\ sta \cap {"DTIMEOUT", "DCRCFAIL"} # {} THEN err \cup {"data"}
  ELSE err

(* stm32f4xx_sdio_process_next: the stop command, or the acknowledgement. *)
NextStep ==
  IF status = "cmd" /\ req.stop # "none"
  THEN /\ status' = "stop" /\ cmd' = "stop" /\ cpsm' = "stop"
       /\ mask' = (mask \ Errors) \cup CommandIts(req.stop)
       /\ UNCHANGED acks
  ELSE /\ acks' = acks + 1
       /\ mask' = mask \ Errors
       /\ UNCHANGED <<status, cmd, cpsm>>

(* SD_ProcessIRQSrc: errors first, and then nothing else is looked at. *)
ClearedForgetsData == IF sta \cap Errors # {} THEN Errors ELSE {"CMDREND", "CMDSENT"}
Cleared == IF sta \cap Errors # {} THEN Errors ELSE {"CMDREND", "CMDSENT", "DATAEND"}

Isr ==
  /\ Interrupted /\ acks < MaxAcks
  /\ sta' = sta \ Cleared
  /\ IF Completes
     THEN err' = Noted /\ NextStep
     ELSE UNCHANGED <<mask, cpsm, sdio, acks>>
  /\ UNCHANGED <<dpsm, tpc, req, hist>>
------------------------------------------------------------------------------
Next ==
  CommandEnds \/ DataEnds \/ Request \/ Issue \/ Config \/ Take \/ Isr

Spec == Init /\ [][Next]_vars

(* The peripheral ends what it has begun (a transfer by its timeout at the
   latest), a pending interrupt is served, and the thread goes on. *)
FairSpec ==
  /\ Spec
  /\ WF_vars(CommandEnds) /\ WF_vars(DataEnds) /\ WF_vars(Isr)
  /\ WF_vars(Issue \/ Config \/ Take)
------------------------------------------------------------------------------
(* Each request is acknowledged once.  If a transfer fails before the reply to
   its command was served, and a stop command is due, it may be twice: the
   handler leaves CMDREND pending and then takes it for the stop command's
   reply (stm32f4xx_sd.c:308-319, 446-453).  Nothing is said once a data path
   that was set up for a command that had failed raises a flag. *)
OneAckEach ==
  ~odd => acks + (IF tpc = "idle" THEN 1 ELSE 0) <= IF crossed THEN 2 ELSE 1

(* A request that is reported good was carried out, command, data and stop.
   What the driver does not see: data that overran or emptied the FIFO, which
   completed_command notes nowhere; a spoilt reply that line 259 lets pass, of
   a command and then of its data; the stop command behind a crossed reply.
   Nothing is said after a flag that belongs to no request. *)
Asked == {"cmd"} \cup (IF req.data # "none" THEN {"data"} ELSE {})
                \cup (IF req.stop # "none" THEN {"stop"} ELSE {})
Unseen == forgiven \cup (IF overrun \/ "cmd" \in forgiven THEN {"data"} ELSE {})
                   \cup (IF crossed THEN {"stop"} ELSE {})
SuccessMeansDone ==
  [][Take /\ err = {} => Asked \subseteq done \cup Unseen \/ odd]_vars

(* Every request is answered, unless the FIFO ran empty in a write: its
   interrupt TXUNDERR is never enabled. *)
RequestAnswered ==
  tpc = "wait" ~> tpc = "idle" \/ (req.data = "write" /\ overrun)
==============================================================================
