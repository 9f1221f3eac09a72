---------------------------- MODULE SdHostProofs ----------------------------
(***************************************************************************)
(* Theorems about SdHost for any number of requests, whatever the card and *)
(* the peripheral do.                                                      *)
(***************************************************************************)
EXTENDS SdHost, TLAPS

HostTypes ==
  /\ sta \subseteq Flags
  /\ cpsm \in {"none", "cmd", "stop"} /\ dpsm \in {"none", "read", "write"}
  /\ tpc \in {"idle", "issue", "config", "wait"} /\ req \in Requests
  /\ cmd \in {"none", "cmd", "stop"}
  /\ err \subseteq {"none", "cmd", "data", "stop"} /\ acks \in 0 .. MaxAcks
  /\ done \subseteq {"cmd", "data", "stop"}
  /\ orphan \in BOOLEAN /\ overrun \in BOOLEAN /\ odd \in BOOLEAN /\ crossed \in BOOLEAN
  /\ forgiven \subseteq {"cmd", "stop"}

LEMMA InitTypes == Init => HostTypes
<1> SUFFICES ASSUME Init PROVE HostTypes
  OBVIOUS
<1>1. req \in Requests /\ acks \in 0 .. MaxAcks
  BY SdHostAssumption DEF SdHostAssumption, Init, Requests
<1>2. orphan \in BOOLEAN /\ overrun \in BOOLEAN /\ odd \in BOOLEAN /\ crossed \in BOOLEAN
  BY DEF Init
<1>3. QED
  BY <1>1, <1>2 DEF Init, HostTypes

LEMMA StepTypes == HostTypes /\ [Next]_vars => HostTypes'
<1> SUFFICES ASSUME HostTypes, [Next]_vars PROVE HostTypes'
  OBVIOUS
<1> USE SdHostAssumption DEF SdHostAssumption, HostTypes, sdio, regs, hist
<1>1. CASE CommandEnds
  BY <1>1 DEF CommandEnds, Flags, Errors, CommandErrors
<1>2. CASE DataEnds
  BY <1>2 DEF DataEnds, Flags, Errors, DataErrors
<1>3. CASE Request
  BY <1>3 DEF Request
<1>4. CASE Issue
  BY <1>4 DEF Issue
<1>5. CASE Config
  <2>1. req.data \in {"none", "read", "write"}
    BY DEF Requests
  <2>2. QED
    BY <1>5, <2>1 DEF Config, DataIts, Flags, Errors, DataErrors
<1>6. CASE Take
  BY <1>6 DEF Take
<1>7. CASE Isr
  <2>1. Noted \subseteq {"none", "cmd", "data", "stop"}
    BY DEF Noted
  <2>2. CASE Completes
    <3>1. err' = Noted /\ NextStep /\ sta' \subseteq sta
      BY <1>7, <2>2 DEF Isr
    <3>2. acks' \in 0 .. MaxAcks /\ cmd' \in {"none", "cmd", "stop"} /\ cpsm' \in {"none", "cmd", "stop"}
      BY <1>7, <3>1 DEF NextStep, Isr
    <3>3. QED
      BY <1>7, <2>1, <3>1, <3>2 DEF Isr
  <2>3. CASE ~Completes
    BY <1>7, <2>3 DEF Isr
  <2>4. QED
    BY <2>2, <2>3
<1>8. CASE UNCHANGED vars
  BY <1>8 DEF vars
<1>9. QED
  BY <1>1, <1>2, <1>3, <1>4, <1>5, <1>6, <1>7, <1>8 DEF Next

-----------------------------------------------------------------------------
(* The reply to every command but GO_IDLE_STATE interrupts, for good. *)
ReplyEnabled == req.resp # "none" => "CMDREND" \in mask

(* What holds while nothing odd and no crossing has happened. *)

Sent == tpc \in {"config", "wait"}
Quiet == cpsm = "none" /\ sta = {}

(* No flag of a transfer of this request is still to come. *)
DataOver == (dpsm = "none" \/ orphan) /\ (tpc = "config" => "cmd" \notin done)

(* The reply to the command of a transfer, without a stop command, that was
   left when the transfer failed; it interrupts and ends nothing. *)
ReplyLeft == cpsm = "none" /\ sta = {"CMDREND"} /\ status = "cmd" /\ tpc = "wait"
             /\ req.data # "none" /\ req.stop = "none"

(* Where the thread is. *)
Positions ==
  /\ ~Sent => Quiet /\ (dpsm = "none" \/ orphan) /\ acks = 0
  /\ tpc = "issue" => status = "cmd" /\ done = {} /\ err = {} /\ forgiven = {} /\ ~overrun
  /\ tpc # "idle" => cmd = status /\ status \in {"cmd", "stop"}
  /\ tpc = "config" => req.data # "none"
  /\ status = "stop" => req.stop # "none"
  /\ Sent /\ acks = 0 => status \notin err /\ (status = "cmd" => err = {})

(* One of command, stop command and acknowledgement at a time. *)
OnePath ==
  /\ acks \in {0, 1}
  /\ acks = 1 => (Quiet \/ ReplyLeft) /\ DataOver /\ (req.stop # "none" => status = "stop")
  /\ cpsm # "none" => sta = {}
  /\ status = "stop" /\ tpc # "idle" => DataOver
  /\ cpsm = "stop" => status = "stop"
  /\ cpsm = "cmd" => status = "cmd" /\ done = {} /\ err = {} /\ forgiven = {} /\ ~overrun
  /\ dpsm # "none" /\ ~orphan => tpc = "wait" /\ req.data # "none"

(* Which flags come together, and what they say. *)
Failures == CommandErrors \cup DataErrors \cup {"STBITERR"}
FlagsAgree ==
  /\ sta \cap Errors # {} => sta \cap {"CMDSENT", "DATAEND"} = {}
  /\ sta \cap Errors # {} /\ "CMDREND" \in sta =>
       req.stop = "none" /\ tpc = "wait" /\ sta \cap CommandErrors = {}
  /\ sta \cap (Failures \cup {"CMDSENT", "DATAEND"}) # {} => DataOver
  /\ sta \cap CommandErrors # {} => sta \cap (DataErrors \cup {"STBITERR"}) = {}
  /\ sta \cap (DataErrors \cup {"STBITERR", "DATAEND"}) # {} => req.data # "none" /\ status = "cmd"
  /\ "CMDSENT" \in sta => req.resp = "none" /\ status = "cmd"
  /\ "CMDREND" \in sta => req.resp # "none" /\ (status = "cmd" => "cmd" \in done)
  /\ "CMDREND" \in sta /\ req.data = "none" => dpsm = "none" \/ orphan
  /\ status = "cmd" /\ sta \cap CommandErrors # {} /\ req.data # "none" => "cmd" \notin done
  /\ "DATAEND" \in sta => "data" \in done
  /\ sta \cap {"RXOVERR", "TXUNDERR"} # {} => overrun

(* What was not done was noted, or let pass, or its flag is there. *)
Results ==
  /\ Sent /\ cpsm # "cmd" =>
       \/ {"cmd"} \cap (done \cup err \cup forgiven) # {}
       \/ /\ status = "cmd" /\ sta \cap CommandErrors # {}
          /\ "CCRCFAIL" \in sta => req.resp \notin Forgiven
  /\ status = "cmd" /\ "CCRCFAIL" \in sta /\ req.resp = "R1" => "cmd" \in forgiven
  /\ (acks = 1 \/ status = "stop") /\ Sent /\ req.data # "none" =>
       err \cap {"cmd", "data"} # {} \/ "data" \in done \/ overrun \/ "cmd" \in forgiven
  /\ status = "stop" /\ cpsm = "none" /\ Sent =>
       \/ {"stop"} \cap (done \cup err \cup forgiven) # {}
       \/ /\ sta \cap CommandErrors # {}
          /\ "CCRCFAIL" \in sta => req.stop \notin Forgiven

Host == Positions /\ OnePath /\ FlagsAgree /\ Results

(* What holds after a crossing: until the stop command is sent both flags are
   up, and then the acknowledgements that are there, taken and to come are two
   at most. *)
Crossing ==
  /\ req.data # "none" /\ req.stop # "none" /\ "cmd" \in done
  /\ tpc \in {"wait", "idle"} /\ dpsm = "none"
  /\ cmd = status /\ status \in {"cmd", "stop"} /\ cpsm \in {"none", "stop"}
  /\ tpc = "wait" /\ acks = 0 => "CMDREND" \in sta
  /\ status = "cmd" =>
       /\ cpsm = "none" /\ tpc = "wait" /\ acks = 0 /\ err = {}
       /\ sta \cap Errors # {} /\ sta \subseteq DataErrors \cup {"STBITERR", "CMDREND"}
       /\ sta \cap {"RXOVERR", "TXUNDERR"} # {} => overrun
  /\ status = "stop" =>
       /\ sta \subseteq CommandErrors \cup {"CMDREND"}
       /\ cpsm = "stop" => sta \subseteq {"CMDREND"}
       /\ err \cap {"cmd", "data"} # {} \/ overrun
       /\ acks + (IF tpc = "idle" THEN 1 ELSE 0) + (IF "CMDREND" \in sta THEN 1 ELSE 0)
            + (IF cpsm # "none" \/ sta \cap CommandErrors # {} THEN 1 ELSE 0) <= 2

HostInv == ReplyEnabled /\ (~odd => IF crossed THEN Crossing ELSE Host)

LEMMA RequestShape ==
  ASSUME req \in Requests
  PROVE  /\ req.data \in {"none", "read", "write"}
         /\ req.stop \in {"none", "R1", "R1B"}
         /\ req.resp \in {"none", "R3", "R1", "R1B"}
         /\ req.data = "none" => req.stop = "none"
         /\ req.data # "none" => req.resp \in {"R1", "R1B"}
  BY DEF Requests

LEMMA CommandEndsHost == HostTypes /\ Host /\ CommandEnds => Host'
<1> SUFFICES ASSUME HostTypes, Host, CommandEnds PROVE Host'
  OBVIOUS
<1> USE RequestShape DEF HostTypes, Host, sdio, Sent, Quiet, DataOver, ReplyLeft
<1> PICK flag \in {"CMDSENT", "CMDREND", "CCRCFAIL", "CTIMEOUT"} :
       /\ sta' = sta \cup {flag}
       /\ Resp(cpsm) = "none" <=> flag = "CMDSENT"
       /\ done' = IF flag \in {"CMDREND", "CMDSENT"}
                     \/ (flag = "CCRCFAIL" /\ Resp(cpsm) = "R3")
                  THEN done \cup {cpsm} ELSE done
       /\ forgiven' = IF flag = "CCRCFAIL" /\ Resp(cpsm) = "R1"
                      THEN forgiven \cup {cpsm} ELSE forgiven
       /\ orphan' = (orphan \/ (cpsm = "cmd" /\ req.data # "none" /\ flag \in CommandErrors))
  BY DEF CommandEnds
<1>1. sta = {} /\ sta' = {flag} /\ Sent /\ Sent' /\ acks = 0 /\ cpsm \in {"cmd", "stop"}
  BY DEF CommandEnds, OnePath, Positions
<1>2. Resp(cpsm) = IF cpsm = "stop" THEN req.stop ELSE req.resp
  BY DEF Resp
<1>3. Positions'
  BY <1>1 DEF Positions, CommandEnds
<1>4. OnePath'
  BY <1>1 DEF Positions, OnePath, CommandEnds
<1>5. FlagsAgree'
  BY <1>1, <1>2 DEF Positions, OnePath, FlagsAgree, CommandEnds, Failures, CommandErrors, DataErrors, Errors
<1>6. Results'
  BY <1>1, <1>2 DEF Positions, OnePath, Results, CommandEnds, CommandErrors, Forgiven
<1>7. QED
  BY <1>3, <1>4, <1>5, <1>6

LEMMA DataEndsShape ==
  ASSUME HostTypes, Host, DataEnds, ~odd'
  PROVE  /\ ~orphan /\ tpc = "wait" /\ acks = 0 /\ status = "cmd" /\ cpsm = "none"
         /\ req.data # "none" /\ sta \subseteq {"CMDREND"}
         /\ "CMDREND" \in sta => "cmd" \in done
<1> USE RequestShape DEF HostTypes, Host, Sent, Quiet, DataOver, ReplyLeft
<1>1. ~orphan /\ tpc = "wait" /\ req.data # "none" /\ cpsm # "cmd"
  BY DEF DataEnds, OnePath
<1>2. acks = 0 /\ status = "cmd" /\ cpsm = "none"
  BY <1>1 DEF DataEnds, OnePath, Positions
<1>3. sta \subseteq {"CMDREND"}
  BY <1>1, <1>2 DEF DataEnds, FlagsAgree, Flags, Failures, Errors
<1>4. QED
  BY <1>1, <1>2, <1>3 DEF FlagsAgree

LEMMA DataEndsHost == HostTypes /\ Host /\ DataEnds /\ ~odd' /\ ~crossed' => Host'
<1> SUFFICES ASSUME HostTypes, Host, DataEnds, ~odd', ~crossed' PROVE Host'
  OBVIOUS
<1> USE RequestShape DEF HostTypes, Host, sdio, Sent, Quiet, DataOver, ReplyLeft
<1> PICK flag \in {"DATAEND", "DTIMEOUT", "DCRCFAIL", "RXOVERR", "STBITERR", "TXUNDERR"} :
       /\ sta' = sta \cup {flag}
       /\ done' = IF flag = "DATAEND" /\ ~orphan THEN done \cup {"data"} ELSE done
       /\ overrun' = (overrun \/ flag \in {"RXOVERR", "TXUNDERR"})
       /\ crossed' = (crossed \/ ("CMDREND" \in sta /\ flag # "DATAEND" /\ req.stop # "none"))
  BY DEF DataEnds
<1>1. /\ ~orphan /\ tpc = "wait" /\ acks = 0 /\ status = "cmd" /\ cpsm = "none"
      /\ req.data # "none" /\ sta \subseteq {"CMDREND"}
      /\ "CMDREND" \in sta => "cmd" \in done
  BY DataEndsShape
<1>2. Positions'
  BY <1>1 DEF Positions, DataEnds
<1>3. OnePath'
  BY <1>1 DEF Positions, OnePath, DataEnds
<1>4. FlagsAgree'
  <2>1. sta' \subseteq {"CMDREND", flag} /\ flag \in sta' /\ ("CMDREND" \in sta' => "CMDREND" \in sta)
    BY <1>1
  <2>2. sta' \cap CommandErrors = {} /\ "CMDSENT" \notin sta'
    BY <1>1 DEF CommandErrors
  <2>3. sta' \cap Errors # {} => flag # "DATAEND"
    BY <2>1 DEF Errors, CommandErrors, DataErrors
  <2>4. sta' \cap Errors # {} /\ "CMDREND" \in sta' => req.stop = "none"
    BY <2>1, <2>3
  <2>5. "DATAEND" \in sta' => flag = "DATAEND"
    BY <1>1
  <2>6. UNCHANGED <<tpc, req, status, cpsm, orphan>> /\ dpsm' = "none"
    BY DEF DataEnds
  <2>7. "CMDREND" \in sta' => req.resp # "none" /\ "cmd" \in done'
    BY <1>1, <2>1
  <2>8. sta' \cap {"RXOVERR", "TXUNDERR"} # {} => overrun'
    BY <1>1
  <2>9. "DATAEND" \in sta' => "data" \in done'
    BY <1>1, <2>5
  <2>10. sta' \cap Errors # {} => sta' \cap {"CMDSENT", "DATAEND"} = {}
    BY <2>2, <2>3, <2>5
  <2>11. QED
    BY <1>1, <2>2, <2>4, <2>6, <2>7, <2>8, <2>9, <2>10 DEF FlagsAgree
<1>5. Results'
  BY <1>1 DEF Results, DataEnds, CommandErrors
<1>6. QED
  BY <1>2, <1>3, <1>4, <1>5

(* A transfer that fails while the reply to its command is still up, with a
   stop command due. *)
LEMMA CrossingBegins == HostTypes /\ Host /\ DataEnds /\ ~odd' /\ ~crossed /\ crossed' => Crossing'
<1> SUFFICES ASSUME HostTypes, Host, DataEnds, ~odd', ~crossed, crossed' PROVE Crossing'
  OBVIOUS
<1> USE RequestShape DEF HostTypes, sdio
<1> PICK flag \in {"DTIMEOUT", "DCRCFAIL", "RXOVERR", "STBITERR", "TXUNDERR"} :
       /\ sta' = sta \cup {flag} /\ UNCHANGED done
       /\ overrun' = (overrun \/ flag \in {"RXOVERR", "TXUNDERR"})
       /\ "CMDREND" \in sta /\ req.stop # "none"
  BY DEF DataEnds
<1>1. /\ tpc = "wait" /\ acks = 0 /\ status = "cmd" /\ cpsm = "none"
      /\ req.data # "none" /\ sta \subseteq {"CMDREND"} /\ "cmd" \in done
  BY DataEndsShape
<1>2. cmd = "cmd" /\ err = {}
  BY <1>1 DEF Host, Positions, Sent
<1>3. UNCHANGED <<tpc, req, cmd, status, err, acks, cpsm>> /\ dpsm' = "none"
  BY DEF DataEnds
<1>4. sta' = {"CMDREND", flag}
  BY <1>1
<1>5. sta' \cap Errors # {} /\ sta' \subseteq DataErrors \cup {"STBITERR", "CMDREND"}
      /\ (sta' \cap {"RXOVERR", "TXUNDERR"} # {} => overrun')
  BY <1>4 DEF Errors, DataErrors
<1>6. QED
  BY <1>1, <1>2, <1>3, <1>4, <1>5 DEF Crossing

LEMMA ThreadHost ==
  HostTypes /\ Host /\ ReplyEnabled /\ (Request \/ Issue \/ Config \/ Take) => Host'
<1> SUFFICES ASSUME HostTypes, Host, ReplyEnabled, Request \/ Issue \/ Config \/ Take PROVE Host'
  OBVIOUS
<1> USE RequestShape DEF HostTypes, Host, sdio, regs, hist, Sent, Quiet, DataOver, ReplyLeft
<1>1. CASE Request
  BY <1>1 DEF Request, Positions, OnePath, FlagsAgree, Results, Failures, Errors, CommandErrors, DataErrors
<1>2. CASE Issue
  BY <1>2 DEF Issue, Positions, OnePath, FlagsAgree, Results, Failures, Errors, CommandErrors, DataErrors
<1>3. CASE Config
  <2>1. sta \cap (Failures \cup {"CMDSENT", "DATAEND"}) # {} => orphan'
    BY <1>3 DEF Config, FlagsAgree, OnePath
  <2>2. Positions' /\ OnePath'
    BY <1>3 DEF Config, Positions, OnePath
  <2>3. FlagsAgree'
    BY <1>3, <2>1 DEF Config, Positions, FlagsAgree, Failures, Errors, CommandErrors, DataErrors
  <2>4. Results'
    BY <1>3 DEF Config, Results
  <2>5. QED
    BY <2>2, <2>3, <2>4
<1>4. CASE Take
  <2>1. acks = 1 /\ ~ReplyLeft
    BY <1>4 DEF Take, OnePath, Interrupted, ReplyEnabled
  <2>2. Quiet
    BY <2>1 DEF OnePath
  <2>3. QED
    BY <1>4, <2>1, <2>2 DEF Take, Positions, OnePath, FlagsAgree, Results, Failures
<1>5. QED
  BY <1>1, <1>2, <1>3, <1>4

(* The handler that finds a reply left behind clears it and does nothing. *)
LEMMA ReplyLeftHost == HostTypes /\ Host /\ Isr /\ acks = 1 => Host'
<1> SUFFICES ASSUME HostTypes, Host, Isr, acks = 1 PROVE Host'
  OBVIOUS
<1> USE RequestShape DEF HostTypes, Host, sdio, regs, hist, Sent, Quiet, DataOver
<1>1. ReplyLeft /\ DataOver /\ cmd = "cmd"
  BY DEF Isr, Interrupted, OnePath, Positions, ReplyLeft
<1>2. ~Completes /\ sta' = {}
  BY <1>1 DEF Isr, Completes, Data, Cleared, ReplyLeft, Errors, CommandErrors, DataErrors
<1>3. UNCHANGED <<mask, cpsm, dpsm, tpc, req, cmd, status, err, acks, done, orphan, overrun, forgiven>>
  BY <1>2 DEF Isr
<1>4. Positions' /\ OnePath'
  BY <1>1, <1>2, <1>3 DEF Positions, OnePath, ReplyLeft
<1>5. FlagsAgree'
  BY <1>2 DEF FlagsAgree, Failures
<1>6. Results'
  BY <1>1, <1>2, <1>3 DEF Results, ReplyLeft, CommandErrors
<1>7. QED
  BY <1>4, <1>5, <1>6

LEMMA IsrHost == HostTypes /\ Host /\ Isr /\ acks # 1 => Host'
<1> SUFFICES ASSUME HostTypes, Host, Isr, acks # 1 PROVE Host'
  OBVIOUS
<1> USE RequestShape DEF HostTypes, Host, sdio, regs, hist, Sent, Quiet, DataOver
<1>1. sta # {} /\ cpsm = "none" /\ acks = 0 /\ Sent /\ status \in {"cmd", "stop"} /\ cmd = status
  BY DEF Isr, Interrupted, OnePath, Positions
<1>2. \/ sta' = {}
      \/ /\ sta' = {"CMDREND"} /\ "CMDREND" \in sta /\ sta \cap Errors # {}
         /\ req.stop = "none" /\ tpc = "wait" /\ status = "cmd" /\ req.data # "none"
  <2>1. CASE sta \cap Errors # {}
    <3>1. sta' = sta \ Errors /\ sta \cap {"CMDSENT", "DATAEND"} = {}
      BY <2>1 DEF Isr, Cleared, FlagsAgree
    <3>2. sta' \subseteq {"CMDREND"}
      BY <3>1 DEF Flags
    <3>3. "CMDREND" \in sta => req.stop = "none" /\ tpc = "wait" /\ sta \cap CommandErrors = {}
      BY <2>1 DEF FlagsAgree
    <3>4. "CMDREND" \in sta => status = "cmd" /\ req.data # "none"
      BY <2>1, <3>3 DEF FlagsAgree, Errors
    <3>5. QED
      BY <2>1, <3>1, <3>2, <3>3, <3>4
  <2>2. CASE sta \cap Errors = {}
    BY <2>2 DEF Isr, Cleared, Flags
  <2>3. QED
    BY <2>1, <2>2
<1>3. UNCHANGED <<dpsm, tpc, req, done, orphan, odd, crossed, overrun, forgiven>>
  BY DEF Isr
<1>4. FlagsAgree'
  <2>1. CASE sta' = {}
    BY <2>1 DEF FlagsAgree, Failures
  <2>2. CASE sta' = {"CMDREND"} /\ "CMDREND" \in sta
    <3>1. req.resp # "none" /\ "cmd" \in done
      BY <1>2, <2>2 DEF FlagsAgree
    <3>2. req.data # "none"
      BY <1>2, <2>2 DEF FlagsAgree, Isr, Cleared
    <3>3. sta' \cap Errors = {} /\ sta' \cap (Failures \cup {"CMDSENT", "DATAEND"}) = {}
      BY <2>2 DEF Failures, Errors, CommandErrors, DataErrors
    <3>4. QED
      BY <1>3, <2>2, <3>1, <3>2, <3>3 DEF FlagsAgree, Failures, CommandErrors, DataErrors
  <2>3. QED
    BY <1>2, <2>1, <2>2
<1>5. CASE ~Completes
  <2>1. sta = {"CMDREND"} /\ status = "cmd" /\ req.data # "none"
    BY <1>1, <1>5 DEF Completes, Data, Flags
  <2>2. UNCHANGED <<cpsm, dpsm, tpc, req, cmd, status, err, acks, done, orphan, overrun, forgiven>>
    BY <1>5 DEF Isr
  <2>3. sta' = {}
    BY <1>2, <2>1 DEF Errors, CommandErrors, DataErrors
  <2>4. Positions' /\ OnePath'
    BY <1>1, <2>1, <2>2, <2>3 DEF Positions, OnePath
  <2>5. Results'
    BY <1>1, <2>1, <2>2, <2>3 DEF Results, CommandErrors
  <2>6. QED
    BY <1>4, <2>4, <2>5
<1>6. CASE Completes
  <2>1. /\ err' = Noted
        /\ IF status = "cmd" /\ req.stop # "none"
           THEN status' = "stop" /\ cmd' = "stop" /\ cpsm' = "stop" /\ UNCHANGED acks
           ELSE acks' = acks + 1 /\ UNCHANGED <<status, cmd, cpsm>>
    BY <1>6 DEF Isr, NextStep
  <2>2. DataOver
    <3>1. CASE sta \cap (Failures \cup {"CMDSENT", "DATAEND"}) # {}
      BY <3>1 DEF FlagsAgree
    <3>2. CASE sta \cap (Failures \cup {"CMDSENT", "DATAEND"}) = {}
      <4>1. sta = {"CMDREND"} /\ Data = "none"
        BY <1>1, <1>6, <3>2 DEF Completes, Flags, Errors, Failures
      <4>2. QED
        BY <1>1, <4>1 DEF Data, OnePath, Positions, FlagsAgree
    <3>3. QED
      BY <3>1, <3>2
  <2>3. Positions'
    <3>1. status = "cmd" => err = {} /\ "stop" \notin err'
      BY <1>1, <2>1 DEF Positions, Noted
    <3>2. QED
      BY <1>1, <1>2, <1>3, <2>1, <2>2, <3>1 DEF Positions
  <2>4. OnePath'
    <3>1. CASE status = "cmd" /\ req.stop # "none"
      BY <1>1, <1>2, <1>3, <2>1, <2>2, <3>1 DEF OnePath
    <3>2. CASE ~(status = "cmd" /\ req.stop # "none")
      <4>1. acks' = 1 /\ UNCHANGED <<status, cmd, cpsm>> /\ (Quiet' \/ ReplyLeft')
        BY <1>1, <1>2, <1>3, <2>1, <3>2 DEF ReplyLeft
      <4>2. status = "stop" \/ req.stop = "none"
        BY <1>1, <3>2
      <4>3. QED
        BY <1>1, <1>3, <2>2, <4>1, <4>2 DEF OnePath
    <3>3. QED
      BY <3>1, <3>2
  <2>5. CASE status = "cmd"
    <3>1. {"cmd"} \cap (done \cup err' \cup forgiven) # {}
      <4>1. CASE "cmd" \in done \cup forgiven
        BY <4>1, <2>1
      <4>2. CASE "cmd" \notin done \cup forgiven
        <5>1. sta \cap CommandErrors # {} /\ ("CCRCFAIL" \in sta => req.resp \notin Forgiven)
          BY <1>1, <2>5, <4>2 DEF Results, Positions
        <5>2. sta \cap DataErrors = {} /\ sta \cap Errors # {} /\ err = {} /\ Resp(cmd) = req.resp
          BY <1>1, <2>5, <5>1 DEF FlagsAgree, Errors, Positions, Resp
        <5>3. Noted = {"cmd"}
          BY <1>1, <2>5, <5>1, <5>2 DEF Noted
        <5>4. QED
          BY <5>3, <2>1
      <4>3. QED
        BY <4>1, <4>2
    <3>2. req.data # "none" =>
            err' \cap {"cmd", "data"} # {} \/ "data" \in done \/ overrun \/ "cmd" \in forgiven
      <4> SUFFICES ASSUME req.data # "none", "data" \notin done, ~overrun, "cmd" \notin forgiven
                   PROVE  err' \cap {"cmd", "data"} # {}
        OBVIOUS
      <4>1. sta \cap Errors # {} /\ sta \cap {"RXOVERR", "TXUNDERR"} = {}
        BY <1>1, <1>6, <2>5 DEF Completes, Data, FlagsAgree
      <4>2. Resp(cmd) = req.resp /\ Data = req.data
        BY <1>1, <2>5 DEF Resp, Data
      <4>3. ~("CCRCFAIL" \in sta /\ Resp(cmd) \in Forgiven)
        BY <2>5, <4>2 DEF Results, Forgiven
      <4>4. CASE sta \cap DataErrors = {}
        BY <1>1, <2>1, <2>5, <4>1, <4>3, <4>4 DEF Noted
      <4>5. CASE sta \cap DataErrors # {}
        <5>1. sta \cap {"DTIMEOUT", "DCRCFAIL"} # {}
          BY <4>1, <4>5 DEF DataErrors
        <5>2. Noted = err \cup {"data"}
          BY <4>1, <4>2, <4>3, <4>5, <5>1 DEF Noted
        <5>3. QED
          BY <2>1, <5>2
      <4>6. QED
        BY <4>4, <4>5
    <3>3. status' = "cmd" => acks' = 1
      BY <1>1, <2>1, <2>5
    <3>4. "CCRCFAIL" \notin sta'
      BY <1>2
    <3>5. status' = "stop" => cpsm' = "stop"
      BY <1>1, <2>1, <2>5
    <3>6. Results'
      BY <1>3, <3>1, <3>2, <3>4, <3>5 DEF Results
    <3>7. QED
      BY <1>4, <2>3, <2>4, <3>6
  <2>6. CASE status = "stop"
    <3>1. sta' = {} /\ acks' = 1 /\ status' = "stop" /\ cpsm' = "none"
      BY <1>1, <1>2, <2>1, <2>6
    <3>2. \A e \in {"cmd", "data"} : e \in err => e \in err'
      BY <1>1, <2>1, <2>6 DEF Noted
    <3>3. {"stop"} \cap (done \cup err' \cup forgiven) # {}
      <4>1. CASE "stop" \in done \cup forgiven
        BY <4>1, <2>1
      <4>2. CASE "stop" \notin done \cup forgiven
        <5>1. sta \cap CommandErrors # {} /\ ("CCRCFAIL" \in sta => req.stop \notin Forgiven)
          BY <1>1, <2>6, <4>2 DEF Results, Positions
        <5>2. sta \cap DataErrors = {} /\ sta \cap Errors # {} /\ Resp(cmd) = req.stop
          BY <1>1, <2>6, <5>1 DEF FlagsAgree, Errors, Resp
        <5>3. "stop" \in Noted
          BY <1>1, <2>6, <5>1, <5>2 DEF Noted
        <5>4. QED
          BY <5>3, <2>1
      <4>3. QED
        BY <4>1, <4>2
    <3>4. {"cmd"} \cap (done \cup err \cup forgiven) # {}
      BY <1>1, <2>6 DEF Results
    <3>5. req.data # "none" =>
            err \cap {"cmd", "data"} # {} \/ "data" \in done \/ overrun \/ "cmd" \in forgiven
      BY <1>1, <2>6 DEF Results
    <3>6. Results'
      BY <1>3, <3>1, <3>2, <3>3, <3>4, <3>5 DEF Results
    <3>7. QED
      BY <1>4, <2>3, <2>4, <3>6
  <2>7. QED
    BY <1>1, <2>5, <2>6
<1>7. QED
  BY <1>5, <1>6

LEMMA EnabledStep == ReplyEnabled /\ [Next]_vars => ReplyEnabled'
<1> SUFFICES ASSUME ReplyEnabled, [Next]_vars PROVE ReplyEnabled'
  OBVIOUS
<1> USE DEF ReplyEnabled, sdio, regs, hist
<1>1. CASE Request
  BY <1>1 DEF Request, CommandIts
<1>2. CASE CommandEnds \/ DataEnds \/ Issue \/ Config \/ Take \/ UNCHANGED vars
  BY <1>2 DEF CommandEnds, DataEnds, Issue, Config, Take, vars
<1>3. CASE Isr
  <2>1. UNCHANGED req /\ (mask \ Errors) \subseteq mask'
    BY <1>3 DEF Isr, NextStep
  <2>2. QED
    BY <2>1 DEF Errors, CommandErrors, DataErrors
<1>4. QED
  BY <1>1, <1>2, <1>3 DEF Next

LEMMA CrossingStep ==
  HostTypes /\ Crossing /\ ReplyEnabled /\ crossed /\ ~odd /\ [Next]_vars => Crossing'
<1> SUFFICES ASSUME HostTypes, Crossing, ReplyEnabled, crossed, ~odd, [Next]_vars PROVE Crossing'
  OBVIOUS
<1> USE RequestShape DEF HostTypes, sdio, regs, hist
<1>1. CASE CommandEnds
  <2> PICK flag \in {"CMDREND", "CCRCFAIL", "CTIMEOUT"} : sta' = sta \cup {flag}
    BY <1>1 DEF CommandEnds, Crossing, Resp
  <2>1. UNCHANGED <<dpsm, tpc, req, cmd, status, err, acks, overrun>> /\ done \subseteq done'
    BY <1>1 DEF CommandEnds
  <2>2. cpsm = "stop" /\ cpsm' = "none" /\ status = "stop"
    BY <1>1 DEF CommandEnds, Crossing
  <2>3. sta' \subseteq CommandErrors \cup {"CMDREND"}
    BY <2>2 DEF Crossing, CommandErrors
  <2>4. (IF "CMDREND" \in sta' THEN 1 ELSE 0) + (IF cpsm' # "none" \/ sta' \cap CommandErrors # {} THEN 1 ELSE 0)
         <= (IF "CMDREND" \in sta THEN 1 ELSE 0) + 1
    <3>1. CASE flag = "CMDREND"
      <4>1. sta' \cap CommandErrors = {}
        BY <2>2, <3>1 DEF Crossing, CommandErrors
      <4>2. QED
        BY <2>2, <4>1
    <3>2. CASE flag # "CMDREND"
      <4>1. "CMDREND" \in sta' <=> "CMDREND" \in sta
        BY <3>2
      <4>2. QED
        BY <4>1
    <3>3. QED
      BY <3>1, <3>2
  <2>5. /\ acks' + (IF tpc' = "idle" THEN 1 ELSE 0) + (IF "CMDREND" \in sta' THEN 1 ELSE 0)
            + (IF cpsm' # "none" \/ sta' \cap CommandErrors # {} THEN 1 ELSE 0) <= 2
    BY <2>1, <2>2, <2>4 DEF Crossing
  <2>6. QED
    BY <2>1, <2>2, <2>3, <2>5 DEF Crossing
<1>2. CASE DataEnds \/ Request \/ Issue \/ Config
  BY <1>2 DEF Crossing, DataEnds, Request, Issue, Config
<1>3. CASE Take
  <2>1. UNCHANGED <<sta, cpsm, dpsm, req, cmd, status, err, done, overrun>>
        /\ acks' = acks - 1 /\ tpc = "wait" /\ tpc' = "idle" /\ acks > 0
    BY <1>3 DEF Take
  <2>2. QED
    BY <2>1 DEF Crossing
<1>4. CASE Isr /\ status = "cmd"
  <2>1. /\ cpsm = "none" /\ tpc = "wait" /\ acks = 0 /\ err = {} /\ cmd = "cmd"
        /\ sta \cap Errors # {} /\ sta \subseteq DataErrors \cup {"STBITERR", "CMDREND"}
        /\ sta \cap {"RXOVERR", "TXUNDERR"} # {} => overrun
        /\ req.data # "none" /\ req.stop # "none" /\ "CMDREND" \in sta
    BY <1>4 DEF Crossing
  <2>2. sta' = {"CMDREND"}
    BY <1>4, <2>1 DEF Isr, Cleared, Errors, DataErrors, CommandErrors
  <2>3. Completes
    BY <2>1 DEF Completes
  <2>4. /\ err' = Noted /\ status' = "stop" /\ cmd' = "stop" /\ cpsm' = "stop"
        /\ UNCHANGED <<dpsm, tpc, req, acks, done, overrun>>
    BY <1>4, <2>1, <2>3 DEF Isr, NextStep
  <2>5. err' \cap {"cmd", "data"} # {} \/ overrun
    <3>1. "CCRCFAIL" \notin sta /\ Data = req.data
      BY <2>1 DEF DataErrors, Data
    <3>2. CASE sta \cap DataErrors = {}
      BY <2>1, <2>4, <3>1, <3>2 DEF Noted
    <3>3. CASE sta \cap DataErrors # {} /\ sta \cap {"RXOVERR", "TXUNDERR"} = {}
      <4>1. sta \cap {"DTIMEOUT", "DCRCFAIL"} # {}
        BY <3>3 DEF DataErrors
      <4>2. QED
        BY <2>1, <2>4, <3>1, <3>3, <4>1 DEF Noted
    <3>4. QED
      BY <2>1, <3>2, <3>3
  <2>6. sta' \cap CommandErrors = {} /\ sta' \subseteq CommandErrors \cup {"CMDREND"}
    BY <2>2 DEF CommandErrors
  <2>7. QED
    BY <2>1, <2>2, <2>4, <2>5, <2>6 DEF Crossing
<1>5. CASE Isr /\ status = "stop"
  <2>1. /\ cmd = "stop" /\ sta # {} /\ sta \subseteq CommandErrors \cup {"CMDREND"}
        /\ err \cap {"cmd", "data"} # {} \/ overrun
    BY <1>5 DEF Crossing, Isr, Interrupted
  <2>2. Completes /\ Data = "none"
    BY <2>1 DEF Completes, Data, Errors
  <2>3. /\ err' = Noted /\ acks' = acks + 1
        /\ UNCHANGED <<cpsm, dpsm, tpc, req, cmd, status, done, overrun>>
    BY <1>5, <2>2 DEF Isr, NextStep
  <2>4. \A e \in {"cmd", "data"} : e \in err => e \in err'
    BY <2>1, <2>2, <2>3 DEF Noted
  <2>5. CASE sta \cap Errors # {}
    <3>1. sta' = sta \ Errors /\ sta \cap CommandErrors # {}
      BY <1>5, <2>1, <2>5 DEF Isr, Cleared, Errors, CommandErrors, DataErrors
    <3>2. sta' \cap CommandErrors = {} /\ ("CMDREND" \in sta' <=> "CMDREND" \in sta)
          /\ sta' \subseteq CommandErrors \cup {"CMDREND"}
      BY <2>1, <3>1 DEF Errors, CommandErrors, DataErrors
    <3>3. CASE cpsm = "none"
      <4>1. acks' + (IF tpc' = "idle" THEN 1 ELSE 0) + (IF "CMDREND" \in sta' THEN 1 ELSE 0)
             + (IF cpsm' # "none" \/ sta' \cap CommandErrors # {} THEN 1 ELSE 0) <= 2
        BY <1>5, <2>3, <3>1, <3>2, <3>3 DEF Crossing
      <4>2. QED
        BY <1>5, <2>1, <2>3, <2>4, <3>2, <4>1 DEF Crossing
    <3>4. CASE cpsm # "none"
      BY <1>5, <3>1, <3>4 DEF Crossing, CommandErrors
    <3>5. QED
      BY <3>3, <3>4
  <2>6. CASE sta \cap Errors = {}
    <3>1. sta = {"CMDREND"} /\ sta' = {}
      BY <1>5, <2>1, <2>6 DEF Isr, Cleared, Errors
    <3>2. acks' + (IF tpc' = "idle" THEN 1 ELSE 0) + (IF "CMDREND" \in sta' THEN 1 ELSE 0)
           + (IF cpsm' # "none" \/ sta' \cap CommandErrors # {} THEN 1 ELSE 0) <= 2
      BY <1>5, <2>3, <3>1 DEF Crossing, CommandErrors
    <3>3. QED
      BY <1>5, <2>1, <2>3, <2>4, <3>1, <3>2 DEF Crossing
  <2>7. QED
    BY <2>5, <2>6
<1>6. CASE UNCHANGED vars
  BY <1>6 DEF vars, Crossing
<1>7. QED
  BY <1>1, <1>2, <1>3, <1>4, <1>5, <1>6 DEF Next, Crossing

LEMMA HistoryStays ==
  ASSUME [Next]_vars
  PROVE  (odd => odd') /\ (crossed => crossed') /\ (~DataEnds => UNCHANGED <<odd, crossed>>)
<1>1. CASE DataEnds
  BY <1>1 DEF DataEnds
<1>2. CASE ~DataEnds
  BY <1>2 DEF Next, CommandEnds, Request, Issue, Config, Take, Isr, hist, vars
<1>3. QED
  BY <1>1, <1>2

LEMMA HostStep == HostTypes /\ HostInv /\ [Next]_vars => HostInv'
<1> SUFFICES ASSUME HostTypes, HostInv, [Next]_vars, ~odd'
             PROVE  IF crossed' THEN Crossing' ELSE Host'
  BY EnabledStep DEF HostInv
<1>1. ~odd /\ ReplyEnabled
  BY HistoryStays DEF HostInv
<1>2. CASE crossed
  <2>1. Crossing /\ crossed'
    BY <1>1, <1>2, HistoryStays DEF HostInv
  <2>2. QED
    BY <1>1, <1>2, <2>1, CrossingStep
<1>3. CASE ~crossed
  <2>1. Host
    BY <1>1, <1>3 DEF HostInv
  <2>2. CASE DataEnds
    BY <1>3, <2>1, <2>2, DataEndsHost, CrossingBegins
  <2>3. ASSUME ~DataEnds PROVE ~crossed'
    BY <1>3, <2>3, HistoryStays
  <2>4. CASE CommandEnds
    BY <2>1, <2>2, <2>3, <2>4, CommandEndsHost
  <2>5. CASE Request \/ Issue \/ Config \/ Take
    BY <1>1, <2>1, <2>2, <2>3, <2>5, ThreadHost
  <2>6. CASE Isr
    BY <2>1, <2>2, <2>3, <2>6, IsrHost, ReplyLeftHost
  <2>7. CASE UNCHANGED vars
    BY <1>3, <2>1, <2>7 DEF vars, regs, sdio, hist, Host, Positions, OnePath, FlagsAgree, Results,
      Sent, Quiet, DataOver, ReplyLeft
  <2>8. QED
    BY <2>2, <2>4, <2>5, <2>6, <2>7 DEF Next
<1>4. QED
  BY <1>2, <1>3

(* The thread's position, the two state machines, the flags and the results
   agree, and after a crossing at most one acknowledgement too many is there or
   to come; until a flag comes up that belongs to no request. *)
THEOREM HostHolds == Spec => [](HostTypes /\ HostInv)
<1>1. Init => HostInv
  <2> SUFFICES ASSUME Init PROVE Host /\ ReplyEnabled /\ ~crossed
    BY DEF HostInv
  <2>1. Positions /\ OnePath
    BY DEF Init, Positions, OnePath, Sent, Quiet, DataOver
  <2>2. FlagsAgree /\ Results
    BY DEF Init, FlagsAgree, Results, Sent
  <2>3. ReplyEnabled /\ ~crossed
    BY DEF Init, ReplyEnabled
  <2>4. QED
    BY <2>1, <2>2, <2>3 DEF Host
<1>2. QED
  BY <1>1, InitTypes, StepTypes, HostStep, PTL DEF Spec

(* Until a data path that was set up for a command that had failed raises a
   flag: the thread finds one token for each request and leaves none behind
   (stm32f4xx_sdio_process_next and mmcsd_send_request); one more comes at most
   if a transfer failed before the reply to its command was served and a stop
   command was due. *)
THEOREM OneAck == Spec => []OneAckEach
<1>1. HostTypes /\ HostInv => OneAckEach
  <2> SUFFICES ASSUME HostTypes, HostInv, ~odd
               PROVE  acks + (IF tpc = "idle" THEN 1 ELSE 0) <= IF crossed THEN 2 ELSE 1
    BY DEF OneAckEach
  <2>1. CASE ~crossed
    <3>1. acks \in {0, 1} /\ (tpc = "idle" => acks = 0)
      BY <2>1 DEF HostInv, Host, OnePath, Positions, Sent
    <3>2. QED
      BY <2>1, <3>1
  <2>2. CASE crossed /\ status = "cmd"
    BY <2>2 DEF HostInv, Crossing
  <2>3. CASE crossed /\ status = "stop"
    BY <2>3 DEF HostTypes, HostInv, Crossing
  <2>4. QED
    BY <2>1, <2>2, <2>3 DEF HostInv, Crossing
<1>2. QED
  BY <1>1, HostHolds, PTL

(* A request that mmcsd_send_request reports as good had its command answered,
   its data transferred and its stop command answered, but for what the driver
   cannot see or does not look at: a FIFO that ran over or empty, a spoilt
   reply of type R1, R2, R6 or R7, which line 259 lets pass together with its
   data, and the stop command behind a crossed reply. *)
THEOREM SuccessIsTrue == Spec => SuccessMeansDone
<1>1. HostTypes /\ HostInv /\ [Next]_vars
        => [Take /\ err = {} => Asked \subseteq done \cup Unseen \/ odd]_vars
  <2> SUFFICES ASSUME HostTypes, HostInv, Take, err = {}, ~odd
               PROVE Asked \subseteq done \cup Unseen
    OBVIOUS
  <2>1. CASE ~crossed
    <3>1. Host /\ Sent /\ acks = 1
      BY <2>1 DEF HostInv, Take, Sent, Host, OnePath, HostTypes
    <3>2. cpsm = "none" /\ (req.stop # "none" => status = "stop") /\ sta \cap CommandErrors = {}
      BY <3>1 DEF Host, OnePath, Quiet, ReplyLeft, CommandErrors
    <3>3. "cmd" \in done \cup forgiven
      BY <3>1, <3>2 DEF Host, Results
    <3>4. req.data # "none" => "data" \in done \/ overrun \/ "cmd" \in forgiven
      BY <3>1 DEF Host, Results
    <3>5. req.stop # "none" => "stop" \in done \cup forgiven
      BY <3>1, <3>2 DEF Host, Results
    <3>6. QED
      BY <3>3, <3>4, <3>5 DEF Asked, Unseen
  <2>2. CASE crossed
    <3>1. "cmd" \in done /\ overrun
      BY <2>2 DEF HostInv, Crossing, Take
    <3>2. QED
      BY <2>2, <3>1 DEF Asked, Unseen
  <2>3. QED
    BY <2>1, <2>2
<1>2. QED
  BY <1>1, HostHolds, PTL DEF Spec, SuccessMeansDone
-----------------------------------------------------------------------------
(* The interrupts of what is under way are enabled. *)
Enabling ==
  /\ tpc = "issue" \/ (Sent /\ acks = 0 /\ status = "cmd") => CommandIts(req.resp) \subseteq mask
  /\ Sent /\ acks = 0 /\ status = "stop" => CommandIts(req.stop) \subseteq mask
  /\ tpc = "wait" /\ acks = 0 /\ status = "cmd" /\ req.data # "none" => DataIts \subseteq mask

(* Which request a flag or a transfer is of. *)
OfRequest ==
  /\ dpsm # "none" /\ ~orphan => dpsm = req.data
  /\ "TXUNDERR" \in sta => req.data = "write"
  /\ req.resp = "none" => sta \subseteq {"CMDSENT"}

(* Between the reply to a command with data and its transfer nothing is raised,
   and a transfer is under way until it raises a flag. *)
Moving ==
  /\ Sent /\ acks = 0 /\ cpsm = "none" /\ sta = {} => status = "cmd" /\ req.data # "none"
  /\ tpc = "wait" /\ acks = 0 /\ status = "cmd" /\ req.data # "none" /\ sta \subseteq {"CMDREND"}
       => dpsm # "none"

Armed == Enabling /\ OfRequest /\ Moving
ArmedInv == ~odd /\ ~crossed => Armed

(* Of a request that waits and has no acknowledgement yet, a path of the
   peripheral is at work, or a flag is up that interrupts; the exception is the
   FIFO that ran empty in a write. *)
AckComes ==
  ~odd /\ tpc = "wait" /\ acks = 0 =>
    cpsm # "none" \/ dpsm # "none" \/ sta \cap mask # {} \/ (req.data = "write" /\ overrun)

LEMMA PeripheralArmed ==
  HostTypes /\ Host /\ Armed /\ (CommandEnds \/ DataEnds) /\ ~odd' => Armed'
<1> SUFFICES ASSUME HostTypes, Host, Armed, CommandEnds \/ DataEnds, ~odd' PROVE Armed'
  OBVIOUS
<1> USE RequestShape DEF HostTypes, Host, Armed, sdio, Sent, Quiet, DataOver
<1>1. CASE CommandEnds
  <2>1. sta = {} /\ sta' # {}
    BY <1>1 DEF CommandEnds, OnePath
  <2>2. req.resp = "none" => sta' \subseteq {"CMDSENT"}
    <3>1. req.resp = "none" => Resp(cpsm) = "none"
      BY <1>1 DEF CommandEnds, OnePath, Positions, Resp
    <3>2. QED
      BY <1>1, <2>1, <3>1 DEF CommandEnds
  <2>3. Enabling'
    BY <1>1 DEF CommandEnds, Enabling
  <2>4. OfRequest'
    BY <1>1, <2>1, <2>2 DEF CommandEnds, OfRequest
  <2>5. Moving'
    BY <1>1, <2>1 DEF CommandEnds, Moving
  <2>6. QED
    BY <2>3, <2>4, <2>5
<1>2. CASE DataEnds
  <2>1. ~orphan /\ ~(sta' \subseteq {"CMDREND"}) /\ req.data # "none" /\ dpsm = req.data
    BY <1>2 DEF DataEnds, OfRequest
  <2>2. "TXUNDERR" \in sta' => req.data = "write"
    BY <1>2, <2>1 DEF DataEnds, OfRequest
  <2>3. Enabling'
    BY <1>2 DEF DataEnds, Enabling
  <2>4. OfRequest'
    BY <1>2, <2>1, <2>2 DEF DataEnds, OfRequest
  <2>5. Moving'
    BY <2>1 DEF Moving
  <2>6. QED
    BY <2>3, <2>4, <2>5
<1>3. QED
  BY <1>1, <1>2

LEMMA ThreadArmed ==
  HostTypes /\ Host /\ Armed /\ (Request \/ Issue \/ Config \/ Take) => Armed'
<1> SUFFICES ASSUME HostTypes, Host, Armed, Request \/ Issue \/ Config \/ Take PROVE Armed'
  OBVIOUS
<1> USE RequestShape DEF HostTypes, Host, Armed, sdio, regs, hist, Sent, Quiet, DataOver
<1>1. CASE Request
  BY <1>1 DEF Request, Positions, Enabling, OfRequest, Moving
<1>2. CASE Issue
  BY <1>2 DEF Issue, Positions, Enabling, OfRequest, Moving
<1>3. CASE Config
  BY <1>3 DEF Config, Positions, Enabling, OfRequest, Moving
<1>4. CASE Take
  BY <1>4 DEF Take, Positions, Enabling, OfRequest, Moving
<1>5. QED
  BY <1>1, <1>2, <1>3, <1>4

LEMMA IsrArmed == HostTypes /\ Host /\ Armed /\ Isr => Armed'
<1> SUFFICES ASSUME HostTypes, Host, Armed, Isr PROVE Armed'
  OBVIOUS
<1> USE RequestShape DEF HostTypes, Host, Armed, sdio, regs, hist, Sent, Quiet, DataOver
<1>1. sta # {} /\ cpsm = "none" /\ Sent /\ status \in {"cmd", "stop"} /\ cmd = status
      /\ acks \in {0, 1}
  BY DEF Isr, Interrupted, OnePath, Positions, ReplyLeft
<1>2. sta' \subseteq sta /\ UNCHANGED <<dpsm, tpc, req, orphan>>
  BY DEF Isr
<1>3. OfRequest'
  BY <1>2 DEF OfRequest
<1>4. CASE ~Completes
  <2>1. sta = {"CMDREND"} /\ status = "cmd" /\ req.data # "none"
    BY <1>1, <1>4 DEF Completes, Data, Flags
  <2>2. UNCHANGED <<mask, cpsm, status, acks>>
    BY <1>4 DEF Isr
  <2>3. tpc = "wait" /\ acks = 0 => dpsm # "none"
    BY <1>1, <2>1 DEF Moving
  <2>4. QED
    BY <1>2, <1>3, <2>1, <2>2, <2>3 DEF Enabling, Moving
<1>5. CASE Completes /\ status = "cmd" /\ req.stop # "none"
  BY <1>1, <1>2, <1>3, <1>5 DEF Isr, NextStep, Enabling, Moving, CommandIts
<1>6. CASE Completes /\ ~(status = "cmd" /\ req.stop # "none")
  <2>1. acks' = acks + 1 /\ acks' # 0
    BY <1>1, <1>6 DEF Isr, NextStep
  <2>2. QED
    BY <1>1, <1>2, <1>3, <2>1 DEF Enabling, Moving
<1>7. QED
  BY <1>4, <1>5, <1>6

LEMMA ArmedStep == HostTypes /\ HostInv /\ ArmedInv /\ [Next]_vars => ArmedInv'
<1> SUFFICES ASSUME HostTypes, HostInv, ArmedInv, [Next]_vars, ~odd', ~crossed' PROVE Armed'
  BY DEF ArmedInv
<1>1. Host /\ Armed
  <2>1. ~odd /\ ~crossed
    BY HistoryStays
  <2>2. QED
    BY <2>1 DEF HostInv, ArmedInv
<1>2. CASE CommandEnds \/ DataEnds
  BY <1>1, <1>2, PeripheralArmed
<1>3. CASE Request \/ Issue \/ Config \/ Take
  BY <1>1, <1>3, ThreadArmed
<1>4. CASE Isr
  BY <1>1, <1>4, IsrArmed
<1>5. CASE UNCHANGED vars
  BY <1>1, <1>5 DEF vars, regs, sdio, hist, Armed, Enabling, OfRequest, Moving, Sent
<1>6. QED
  BY <1>2, <1>3, <1>4, <1>5 DEF Next

(* A flag that is up while the thread waits interrupts, TXUNDERR excepted. *)
LEMMA FlagInterrupts ==
  ASSUME HostTypes, Host, Armed, tpc = "wait", acks = 0, sta # {}
  PROVE  sta \cap mask # {} \/ (req.data = "write" /\ overrun)
<1> USE RequestShape DEF HostTypes, Host, Armed
<1> PICK flag \in sta : flag \in Flags
  OBVIOUS
<1>1. status \in {"cmd", "stop"}
  BY DEF Positions
<1>2. CASE flag = "TXUNDERR"
  BY <1>2 DEF OfRequest, FlagsAgree
<1>3. CASE flag \in {"CMDREND", "CCRCFAIL", "CTIMEOUT"}
  BY <1>1, <1>3 DEF OfRequest, Enabling, Sent, CommandIts, Positions
<1>4. CASE flag = "CMDSENT"
  BY <1>1, <1>4 DEF FlagsAgree, Enabling, Sent, CommandIts
<1>5. CASE flag \in DataIts
  BY <1>1, <1>5 DEF FlagsAgree, Enabling, DataIts, DataErrors
<1>6. QED
  BY <1>2, <1>3, <1>4, <1>5 DEF Flags, Errors, CommandErrors, DataErrors, DataIts

(* The safety core of RequestAnswered: mmcsd_send_request never waits for a
   semaphore that nothing is left to release, while nothing odd has happened. *)
THEOREM AckOnWay == Spec => []AckComes
<1>1. Init => ArmedInv
  BY DEF Init, ArmedInv, Armed, Enabling, OfRequest, Moving, Sent
<1>2. HostTypes /\ HostInv /\ ArmedInv => AckComes
  <2> SUFFICES ASSUME HostTypes, HostInv, ArmedInv, ~odd, tpc = "wait", acks = 0
               PROVE  cpsm # "none" \/ dpsm # "none" \/ sta \cap mask # {}
                        \/ (req.data = "write" /\ overrun)
    BY DEF AckComes
  <2>1. CASE ~crossed /\ sta = {}
    BY <2>1 DEF ArmedInv, Armed, Moving, Sent
  <2>2. CASE ~crossed /\ sta # {}
    BY <2>2, FlagInterrupts DEF HostInv, ArmedInv
  <2>3. CASE crossed
    BY <2>3, RequestShape DEF HostTypes, HostInv, Crossing, ReplyEnabled
  <2>4. QED
    BY <2>1, <2>2, <2>3
<1>3. QED
  BY <1>1, <1>2, HostHolds, ArmedStep, PTL DEF Spec
=============================================================================
