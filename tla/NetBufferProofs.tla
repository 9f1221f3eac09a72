-------------------------- MODULE NetBufferProofs --------------------------
(***************************************************************************)
(* Theorems about NetBuffer for every size, water mark and schedule.       *)
(***************************************************************************)
EXTENDS NetBuffer, TLAPS

(* A remainder of a positive divisor is a smaller natural number. *)
LEMMA ModBound ==
  ASSUME NEW a \in Int, NEW b \in Nat, b > 0
  PROVE  a % b \in 0 .. b - 1
  OBVIOUS

(* A copy that started at cri meets either the index it started from or the
   one a restarting worker has reset. *)
CopyIndex == cpc = "copy" => read_index \in {cri, 0}

TypeInv == TypeOK /\ CopyIndex

LEMMA InitType == Init => TypeInv
<1> SUFFICES ASSUME Init PROVE TypeInv
  OBVIOUS
<1>1. out \in Seq(Int)
  BY DEF Init
<1>2. store \in [0 .. Size - 1 -> Int]
  BY DEF Init
<1>3. is_wait_ready \in BOOLEAN
  BY DEF Init
<1>4. data_length \in 0 .. Word - 1 /\ cdl \in 0 .. Word - 1 /\ wdl \in 0 .. Word - 1
      /\ read_index \in 0 .. Size - 1 /\ save_index \in 0 .. Size - 1 /\ cri \in 0 .. Size - 1
      /\ wlen \in 0 .. Block /\ clen \in 0 .. ReadMax
  BY SizesAssumption DEF SizesAssumption, Init
<1>5. QED
  BY <1>1, <1>2, <1>3, <1>4 DEF Init, TypeInv, TypeOK, CopyIndex,
     STOPPED, BUFFERING, SUSPEND, STOPPING, WorkerPc, ClientPc

LEMMA ClientType == TypeInv /\ Client => TypeInv'
<1> SUFFICES ASSUME TypeInv, Client PROVE TypeInv'
  OBVIOUS
<1> USE SizesAssumption DEF SizesAssumption, TypeInv, TypeOK, CopyIndex, sync, worker, client, shared, history,
        AtClient, STOPPED, BUFFERING, SUSPEND, STOPPING, WorkerPc, ClientPc
<1>1. CASE StartJob
  BY <1>1 DEF StartJob
<1>2. CASE SendJob
  BY <1>2 DEF SendJob
<1>3. CASE \E n \in 1 .. ReadMax : ReadCall(n)
  BY <1>3 DEF ReadCall
<1>4. CASE ReadCheck
  BY <1>4 DEF ReadCheck
<1>5. CASE ReadFlag
  BY <1>5 DEF ReadFlag
<1>6. CASE ReadWait
  BY <1>6 DEF ReadWait
<1>7. CASE ReadGet
  BY <1>7 DEF ReadGet, Least
<1>8. CASE ReadCopy
  BY <1>8, ModBound DEF ReadCopy, NextRead
<1>9. CASE ReadSub
  BY <1>9, ModBound DEF ReadSub, Sub
<1>10. CASE ReadRelease
  BY <1>10 DEF ReadRelease
<1>11. QED
  BY <1>1, <1>2, <1>3, <1>4, <1>5, <1>6, <1>7, <1>8, <1>9, <1>10 DEF Client

LEMMA StopType == TypeInv /\ StopJob => TypeInv'
  BY DEF TypeInv, TypeOK, CopyIndex, StopJob, StopReleases, worker, client, history,
         STOPPED, BUFFERING, SUSPEND, STOPPING

LEMMA WorkerType == TypeInv /\ Worker => TypeInv'
<1> SUFFICES ASSUME TypeInv, Worker PROVE TypeInv'
  OBVIOUS
<1> USE SizesAssumption
    DEF SizesAssumption, TypeInv, TypeOK, CopyIndex, sync, worker, client, shared, history,
        STOPPED, BUFFERING, SUSPEND, STOPPING, WorkerPc, ClientPc, At, AtClient, Goto
<1>1. CASE TakeJob
  BY <1>1 DEF TakeJob
<1>2. CASE CheckJob
  BY <1>2 DEF CheckJob
<1>3. CASE ResetJob
  <2>1. out' \in Seq(Int)
    BY <1>3 DEF ResetJob
  <2>2. QED
    BY <1>3, <2>1 DEF ResetJob
<1>4. CASE LoopJob
  BY <1>4 DEF LoopJob
<1>5. CASE \E n \in 0 .. Block : Fetch(n)
  BY <1>5 DEF Fetch
<1>6. CASE CheckRoom
  BY <1>6 DEF CheckRoom
<1>7. CASE Suspend
  BY <1>7 DEF Suspend
<1>8. CASE Resume
  BY <1>8 DEF Resume
<1>9. CASE Save
  <2>1. save_index' \in 0 .. Size - 1
    BY <1>9 DEF Save, NextSave
  <2>2. store' \in [0 .. Size - 1 -> Int]
    BY <1>9, ModBound DEF Save
  <2>3. saved' \in Nat
    BY <1>9 DEF Save
  <2>4. QED
    BY <1>9, <2>1, <2>2, <2>3 DEF Save
<1>10. CASE AddLength
  BY <1>10, ModBound DEF AddLength, Add
<1>11. CASE Notify
  BY <1>11 DEF Notify
<1>12. CASE Post
  BY <1>12 DEF Post
<1>13. CASE CloseJob
  BY <1>13 DEF CloseJob
<1>14. CASE SetStopped
  BY <1>14 DEF SetStopped
<1>15. CASE StopWait
  BY <1>15 DEF StopWait
<1>16. CASE ResetLength
  <2>1. out' \in Seq(Int)
    BY <1>16 DEF ResetLength
  <2>2. QED
    BY <1>16, <2>1 DEF ResetLength
<1>17. CASE ResetIndexes
  BY <1>17 DEF ResetIndexes
<1>18. QED
  BY <1>1, <1>2, <1>3, <1>4, <1>5, <1>6, <1>7, <1>8, <1>9, <1>10, <1>11, <1>12,
     <1>13, <1>14, <1>15, <1>16, <1>17 DEF Worker

LEMMA TypeStep == TypeInv /\ [Next]_vars => TypeInv'
<1> SUFFICES ASSUME TypeInv, [Next]_vars PROVE TypeInv'
  OBVIOUS
<1>1. CASE UNCHANGED vars
  BY <1>1 DEF TypeInv, TypeOK, CopyIndex, vars, shared, sync, worker, client, history
<1>2. CASE Next
  BY <1>2, ClientType, StopType, WorkerType DEF Next
<1>3. QED
  BY <1>1, <1>2

(* Every field keeps its range whatever the priorities and the stops: in
   particular both ring indexes stay inside the buffer, so no memcpy of
   netbuffer.c starts outside it. *)
THEOREM TypeCorrect == Spec => []TypeOK
<1>1. TypeInv => TypeOK
  BY DEF TypeInv
<1>2. QED
  BY <1>1, InitType, TypeStep, PTL DEF Spec
------------------------------------------------------------------------------
(* The semaphore tokens and the single job. *)

Tokens == OneJobAtATime /\ ReadyTokens /\ ResumeTokens

LEMMA TokensStep == TypeInv /\ Tokens /\ [Next]_vars => Tokens'
<1> SUFFICES ASSUME TypeInv, Tokens, [Next]_vars PROVE Tokens'
  OBVIOUS
<1> USE DEF TypeInv, TypeOK, shared, sync, worker, client, history, At, AtClient, Goto,
           Tokens, OneJobAtATime, ReadyTokens, ResumeTokens, Working, WorkerPc,
           STOPPED, BUFFERING, SUSPEND, STOPPING
<1>1. CASE StartJob
  BY <1>1 DEF StartJob, MayStart
<1>2. CASE SendJob
  BY <1>2 DEF SendJob
<1>3. CASE \E n \in 1 .. ReadMax : ReadCall(n)
  BY <1>3 DEF ReadCall
<1>4. CASE ReadCheck
  BY <1>4 DEF ReadCheck
<1>5. CASE ReadFlag
  BY <1>5 DEF ReadFlag
<1>6. CASE ReadWait
  BY <1>6 DEF ReadWait
<1>7. CASE ReadGet
  BY <1>7 DEF ReadGet
<1>8. CASE ReadCopy
  BY <1>8 DEF ReadCopy
<1>9. CASE ReadSub
  BY <1>9 DEF ReadSub
<1>10. CASE ReadRelease
  BY <1>10 DEF ReadRelease
<1>11. CASE StopJob
  BY <1>11 DEF StopJob, StopReleases
<1>12. CASE TakeJob
  BY <1>12 DEF TakeJob
<1>13. CASE CheckJob
  BY <1>13 DEF CheckJob
<1>14. CASE ResetJob
  BY <1>14 DEF ResetJob
<1>15. CASE LoopJob
  BY <1>15 DEF LoopJob
<1>16. CASE \E n \in 0 .. Block : Fetch(n)
  BY <1>16 DEF Fetch
<1>17. CASE CheckRoom
  BY <1>17 DEF CheckRoom
<1>18. CASE Suspend
  BY <1>18 DEF Suspend
<1>19. CASE Resume
  BY <1>19 DEF Resume
<1>20. CASE Save
  BY <1>20 DEF Save
<1>21. CASE AddLength
  BY <1>21 DEF AddLength
<1>22. CASE Notify
  <2>1. CASE Ready
    <3>1. is_wait_ready /\ ~is_wait_ready' /\ wpc = "notify" /\ wpc' = "post"
      BY <1>22, <2>1 DEF Notify, Ready
    <3>2. QED
      BY <1>22, <3>1 DEF Notify
  <2>2. CASE ~Ready
    <3>1. (is_wait_ready <=> is_wait_ready') /\ wpc = "notify" /\ wpc' = "loop"
      BY <1>22, <2>2 DEF Notify
    <3>2. QED
      BY <1>22, <3>1 DEF Notify
  <2>3. QED
    BY <2>1, <2>2
<1>23. CASE Post
  BY <1>23 DEF Post
<1>24. CASE CloseJob
  BY <1>24 DEF CloseJob
<1>25. CASE SetStopped
  BY <1>25 DEF SetStopped
<1>26. CASE StopWait
  BY <1>26 DEF StopWait
<1>27. CASE ResetLength
  BY <1>27 DEF ResetLength
<1>28. CASE ResetIndexes
  BY <1>28 DEF ResetIndexes
<1>29. CASE UNCHANGED vars
  BY <1>29 DEF vars
<1>30. QED
  BY <1>1, <1>2, <1>3, <1>4, <1>5, <1>6, <1>7, <1>8, <1>9, <1>10, <1>11,
     <1>12, <1>13, <1>14, <1>15, <1>16, <1>17, <1>18, <1>19, <1>20, <1>21,
     <1>22, <1>23, <1>24, <1>25, <1>26, <1>27, <1>28, <1>29 DEF Next, Client, Worker

TokenInv == TypeInv /\ Tokens

LEMMA InitTokens == Init => TokenInv
<1>1. Init => OneJobAtATime
  BY DEF Init, OneJobAtATime, Working, WorkerPc
<1>2. Init => ReadyTokens
  BY DEF Init, ReadyTokens
<1>3. Init => ResumeTokens
  BY DEF Init, ResumeTokens, STOPPED, SUSPEND
<1>4. QED
  BY <1>1, <1>2, <1>3, InitType DEF TokenInv, Tokens

LEMMA TokensHold == Spec => []TokenInv
<1>1. TokenInv /\ [Next]_vars => TokenInv'
  BY TypeStep, TokensStep DEF TokenInv
<1>2. QED
  BY <1>1, InitTokens, PTL DEF Spec

(* A single job is claimed, queued or running at any time, under any
   schedule and any number of stops. *)
THEOREM SingleJob == Spec => []OneJobAtATime
  BY TokensHold, PTL DEF TokenInv, Tokens

(* The wait_ready handshake neither loses nor saves up a wake-up: a reader
   asleep is covered by its flag, a token, or a release under way. *)
THEOREM ReadyAccounted == Spec => []ReadyTokens
  BY TokensHold, PTL DEF TokenInv, Tokens

(* The wait_resume handshake: SUSPEND, a token or a release under way
   exactly while the worker is parked. *)
THEOREM ResumeAccounted == Spec => []ResumeTokens
  BY TokensHold, PTL DEF TokenInv, Tokens
------------------------------------------------------------------------------
(* The ring under the shipped schedule: the client above the worker, nobody
   stops the job. *)
Shipped == ReaderFirst /\ ~MayStop

(* Units in the ring that are saved and not yet copied out; positions. *)
InFlight == data_length - Copied + Unadded
Wrap(k) == IF k < Size THEN k ELSE k - Size

(* A job that is claimed and not yet begun stays in BUFFERING. *)
JobClaim ==
  stat # STOPPING /\ (cpc = "send" \/ mq > 0 \/ wpc = "check" => stat = BUFFERING)

(* What the worker has found room for, or was promised by the token that the
   reader gave below the resume mark, is still there. *)
RoomLeft ==
  /\ wpc \in {"room", "suspend", "resume", "save", "add"} => wlen >= 1
  /\ wpc = "save" => data_length + wlen <= Size
  /\ wpc = "resume" /\ stat # SUSPEND => data_length < ResumeWm
  /\ Resetting => data_length = 0
  /\ data_length + Unadded <= Size

(* The client's snapshot is up to date while it copies. *)
Reading ==
  /\ cpc \in {"check", "flag", "wait", "get", "copy", "sub"} => clen >= 1
  /\ cpc \in {"copy", "sub"} => clen <= data_length
  /\ cpc = "copy" => cri = read_index

(* The indexes and the length describe one region; it holds the units of the
   stream from taken on. *)
Region == ~Resetting => save_index = Wrap(read_index + InFlight)
Contents ==
  ~Resetting =>
    /\ saved = taken + InFlight
    /\ \A i \in 0 .. InFlight - 1 : store[Wrap(read_index + i)] = taken + i

Ring == JobClaim /\ RoomLeft /\ Reading /\ Region /\ Contents

LEMMA WrapIsMod ==
  ASSUME NEW b \in Nat \ {0}
  PROVE  /\ \A a \in 0 .. b - 1 : a % b = a
         /\ \A a \in b .. 2 * b - 1 : a % b = a - b
         /\ \A a \in -b .. -1 : a % b = a + b
<1>1. ASSUME NEW a \in 0 .. b - 1 PROVE a % b = a
  OBVIOUS
<1>2. ASSUME NEW a \in b .. 2 * b - 1 PROVE a % b = a - b
  OBVIOUS
<1>3. ASSUME NEW a \in -b .. -1 PROVE a % b = a + b
  OBVIOUS
<1>4. QED
  BY <1>1, <1>2, <1>3

LEMMA WrapOfIndex ==
  ASSUME NEW k \in 0 .. 2 * Size - 1
  PROVE  k % Size = Wrap(k)
<1>1. Size \in Nat \ {0}
  BY SizesAssumption DEF SizesAssumption
<1>2. QED
  BY <1>1, WrapIsMod DEF Wrap

(* The sums and differences of the code do not wrap round. *)
LEMMA NoWordWrap ==
  ASSUME NEW a \in 0 .. Size, NEW b \in 0 .. Size
  PROVE  Add(a, b) = a + b /\ (b <= a => Sub(a, b) = a - b)
<1>1. Word \in Nat \ {0} /\ a + b \in 0 .. Word - 1 /\ (b <= a => a - b \in 0 .. Word - 1)
  BY SizesAssumption DEF SizesAssumption
<1>2. QED
  BY <1>1, WrapIsMod DEF Add, Sub

LEMMA ClaimStep == Shipped /\ TokenInv /\ JobClaim /\ [Next]_vars => JobClaim'
<1> SUFFICES ASSUME Shipped, TokenInv, JobClaim, [Next]_vars PROVE JobClaim'
  OBVIOUS
<1> USE DEF Shipped, TokenInv, TypeInv, TypeOK, Tokens, OneJobAtATime, Working, WorkerPc, JobClaim, shared, sync,
           worker, client, history, AtClient, STOPPED, BUFFERING, SUSPEND, STOPPING
<1>1. CASE StartJob \/ SendJob
  BY <1>1 DEF StartJob, SendJob, MayStart
<1>2. CASE ReadCheck \/ ReadFlag \/ ReadWait \/ ReadGet \/ \E n \in 1 .. ReadMax : ReadCall(n)
  BY <1>2 DEF ReadCall, ReadCheck, ReadFlag, ReadWait, ReadGet
<1>3. CASE ReadCopy \/ ReadSub \/ ReadRelease
  BY <1>3, SMTT(30) DEF ReadCopy, ReadSub, ReadRelease
<1>4. CASE TakeJob \/ CheckJob
  BY <1>4 DEF TakeJob, CheckJob, At, Goto
<1>5. CASE ResetJob \/ LoopJob \/ CheckRoom \/ Resume \/ \E n \in 0 .. Block : Fetch(n)
  BY <1>5 DEF ResetJob, LoopJob, Fetch, CheckRoom, Resume, At, Goto
<1>6. CASE Suspend \/ SetStopped
  BY <1>6, SMTT(30) DEF Suspend, SetStopped, At, Goto
<1>7. CASE Save \/ AddLength \/ Notify \/ Post
  BY <1>7 DEF Save, AddLength, Notify, Post, At, Goto
<1>8. CASE CloseJob \/ StopWait \/ ResetLength \/ ResetIndexes
  BY <1>8 DEF CloseJob, StopWait, ResetLength, ResetIndexes, At, Goto
<1>9. CASE StopJob \/ UNCHANGED vars
  BY <1>9 DEF StopJob, vars
<1>10. QED
  BY <1>1, <1>2, <1>3, <1>4, <1>5, <1>6, <1>7, <1>8, <1>9 DEF Next, Client, Worker

(* A worker that moves finds no copy under way; a client that moves leaves the
   worker where it is. *)
LEMMA Alternate ==
  ASSUME Shipped, TypeInv
  PROVE  /\ Worker => cpc \in {"idle", "open", "wait"} /\ UNCHANGED <<cpc, clen, cri>> /\ Copied = 0 /\ Copied' = 0
         /\ Client => UNCHANGED <<wpc, wlen>>
<1>1. Client => UNCHANGED <<wpc, wlen>>
  BY DEF Client, StartJob, SendJob, ReadCall, ReadCheck, ReadFlag, ReadWait, ReadGet, ReadCopy,
    ReadSub, ReadRelease, AtClient, worker
<1>2. Worker => ClientLetsRun /\ UNCHANGED client
  BY DEF Shipped, Worker, TakeJob, CheckJob, ResetJob, LoopJob, Fetch, CheckRoom, Suspend, Resume,
    Save, AddLength, Notify, Post, CloseJob, SetStopped, StopWait, ResetLength, ResetIndexes, At
<1>3. QED
  BY <1>1, <1>2 DEF ClientLetsRun, client, Copied

(* Room and lengths are far from the word size. *)
LEMMA Lengths ==
  ASSUME TypeInv, RoomLeft
  PROVE  /\ data_length \in 0 .. Size /\ wlen \in 0 .. Size
         /\ Sub(Size, data_length) = Size - data_length
         /\ (clen <= data_length => Sub(data_length, clen) = data_length - clen)
         /\ Add(data_length, wlen) = data_length + wlen
<1>1. data_length \in 0 .. Size /\ wlen \in 0 .. Size /\ clen \in 0 .. Size /\ Size \in 0 .. Size
  BY SizesAssumption DEF SizesAssumption, TypeInv, TypeOK, RoomLeft, Unadded
<1>2. QED
  BY <1>1, NoWordWrap

LEMMA RoomStep ==
  Shipped /\ TokenInv /\ JobClaim /\ RoomLeft /\ Reading /\ [Next]_vars => RoomLeft'
<1> SUFFICES ASSUME Shipped, TokenInv, JobClaim, RoomLeft, Reading, [Next]_vars PROVE RoomLeft'
  OBVIOUS
<1> USE SizesAssumption DEF SizesAssumption, TokenInv, TypeInv, TypeOK, RoomLeft, Resetting,
           Unadded, shared, sync, worker, client, history, AtClient, At, Goto,
           STOPPED, BUFFERING, SUSPEND, STOPPING
<1>1. CASE StartJob \/ SendJob
  <2>1. CASE StartJob
    BY <2>1 DEF StartJob, MayStart
  <2>2. CASE SendJob
    BY <2>2 DEF SendJob
  <2>3. QED
    BY <1>1, <2>1, <2>2
<1>2. CASE ReadCheck \/ ReadFlag \/ ReadWait \/ ReadGet \/ \E n \in 1 .. ReadMax : ReadCall(n)
  BY <1>2 DEF ReadCall, ReadCheck, ReadFlag, ReadWait, ReadGet
<1>3. CASE ReadCopy \/ ReadRelease
  BY <1>3 DEF ReadCopy, ReadRelease
<1>4. CASE ReadSub
  <2>1. data_length' = data_length - clen /\ clen >= 1 /\ clen <= data_length
    BY <1>4, Lengths DEF ReadSub, Reading
  <2>2. stat = SUSPEND /\ stat' # SUSPEND => data_length' < ResumeWm
    BY <1>4 DEF ReadSub, BelowResume
  <2>3. UNCHANGED <<wpc, wlen>> /\ (stat # SUSPEND => stat' # SUSPEND)
    BY <1>4 DEF ReadSub
  <2>4. QED
    BY <2>1, <2>2, <2>3
<1>5. CASE TakeJob \/ CheckJob \/ ResetJob \/ LoopJob
  BY <1>5 DEF TakeJob, CheckJob, ResetJob, LoopJob
<1>6. CASE \E n \in 0 .. Block : Fetch(n)
  BY <1>6 DEF Fetch
<1>7. CASE CheckRoom
  BY <1>7, Lengths DEF CheckRoom, NoRoom
<1>8. CASE Suspend
  BY <1>8 DEF Suspend
<1>9. CASE Resume
  <2>1. data_length < ResumeWm
    BY <1>9 DEF Resume, Tokens, ResumeTokens
  <2>2. QED
    BY <1>9, <2>1 DEF Resume
<1>10. CASE Save
  BY <1>10 DEF Save
<1>11. CASE AddLength
  <2>1. data_length' = data_length + wlen
    BY <1>11, Lengths DEF AddLength
  <2>2. QED
    BY <1>11, <2>1 DEF AddLength
<1>12. CASE Notify \/ Post \/ CloseJob \/ SetStopped \/ StopWait
  BY <1>12 DEF Notify, Post, CloseJob, SetStopped, StopWait
<1>13. CASE ResetLength \/ ResetIndexes
  <2>1. data_length' = 0 /\ wpc' \in {"resetidx", "idle"}
    BY <1>13 DEF ResetLength, ResetIndexes
  <2>2. QED
    BY <2>1
<1>14. CASE StopJob
  BY <1>14 DEF StopJob, Shipped
<1>15. CASE UNCHANGED vars
  BY <1>15 DEF vars
<1>16. QED
  BY <1>1, <1>2, <1>3, <1>4, <1>5, <1>6, <1>7, <1>8, <1>9, <1>10, <1>11, <1>12, <1>13, <1>14, <1>15
  DEF Next, Client, Worker

LEMMA ReadingStep ==
  Shipped /\ TokenInv /\ RoomLeft /\ Reading /\ [Next]_vars => Reading'
<1> SUFFICES ASSUME Shipped, TokenInv, RoomLeft, Reading, [Next]_vars PROVE Reading'
  OBVIOUS
<1> USE SizesAssumption DEF SizesAssumption, TokenInv, TypeInv, TypeOK, Reading,
           shared, sync, worker, client, history, AtClient
<1>1. CASE Worker
  BY <1>1, Alternate
<1>2. CASE StartJob \/ SendJob
  BY <1>2 DEF StartJob, SendJob
<1>3. CASE ReadCheck \/ ReadFlag \/ ReadWait
  BY <1>3 DEF ReadCheck, ReadFlag, ReadWait
<1>4. CASE \E n \in 1 .. ReadMax : ReadCall(n)
  BY <1>4 DEF ReadCall
<1>5. CASE ReadGet
  BY <1>5 DEF ReadGet, Least
<1>6. CASE ReadCopy \/ ReadRelease
  BY <1>6 DEF ReadCopy, ReadRelease
<1>7. CASE ReadSub
  BY <1>7 DEF ReadSub
<1>8. CASE StopJob \/ UNCHANGED vars
  BY <1>8 DEF StopJob, vars, Shipped
<1>9. QED
  BY <1>1, <1>2, <1>3, <1>4, <1>5, <1>6, <1>7, <1>8 DEF Next, Client
(* The steps that touch neither indexes nor lengths nor contents, and stay on
   the same side of Resetting. *)
Elsewhere ==
  /\ UNCHANGED <<save_index, read_index, data_length, saved, taken, store>>
  /\ Copied' = Copied /\ Unadded' = Unadded
  /\ ~Resetting' => ~Resetting

LEMMA ElsewhereSteps ==
  ASSUME TypeInv, Shipped, RoomLeft, Reading, [Next]_vars,
         ~ReadCopy, ~ReadSub, ~Save, ~AddLength, ~ResetJob, ~ResetLength, ~ResetIndexes
  PROVE  Elsewhere
<1> USE DEF Elsewhere, Resetting, Copied, Unadded, shared, sync, worker, client, history, AtClient, At, Goto
<1>1. CASE StartJob \/ SendJob
  BY <1>1 DEF StartJob, SendJob
<1>2. CASE ReadCheck \/ ReadFlag \/ ReadWait
  BY <1>2 DEF ReadCheck, ReadFlag, ReadWait
<1>3. CASE ReadGet \/ \E n \in 1 .. ReadMax : ReadCall(n)
  BY <1>3 DEF ReadGet, ReadCall
<1>4. CASE ReadRelease
  BY <1>4 DEF ReadRelease
<1>5. CASE TakeJob \/ CheckJob \/ LoopJob
  BY <1>5 DEF TakeJob, CheckJob, LoopJob
<1>6. CASE \E n \in 0 .. Block : Fetch(n)
  BY <1>6 DEF Fetch
<1>7. CASE CheckRoom \/ Suspend \/ Resume
  BY <1>7 DEF CheckRoom, Suspend, Resume
<1>8. CASE Notify \/ Post
  BY <1>8 DEF Notify, Post
<1>9. CASE CloseJob \/ SetStopped \/ StopWait
  BY <1>9 DEF CloseJob, SetStopped, StopWait
<1>10. CASE StopJob
  BY <1>10 DEF StopJob, Shipped
<1>11. CASE UNCHANGED vars
  BY <1>11 DEF vars
<1>12. QED
  BY <1>1, <1>2, <1>3, <1>4, <1>5, <1>6, <1>7, <1>8, <1>9, <1>10, <1>11 DEF Next, Client, Worker

(* The copy out of the ring, its end, the copy in and its end, in numbers. *)
LEMMA CopyStep ==
  ASSUME TypeInv, Reading, ReadCopy
  PROVE  /\ clen \in 1 .. data_length /\ Copied = 0 /\ Copied' = clen
         /\ read_index' = Wrap(read_index + clen) /\ taken' = taken + clen
         /\ UNCHANGED <<save_index, data_length, saved, store, wpc, Unadded>>
<1>1. clen \in 1 .. data_length /\ cri = read_index /\ Copied = 0
  BY DEF ReadCopy, AtClient, Reading, Copied, TypeInv, TypeOK
<1>2. read_index' = Wrap(read_index + clen) /\ taken' = taken + clen
  BY <1>1, SizesAssumption DEF SizesAssumption, ReadCopy, NextRead, Wrap, TypeInv, TypeOK
<1>3. Copied' = clen
  BY DEF ReadCopy, Copied
<1>4. UNCHANGED <<save_index, data_length, saved, store, wpc, Unadded>>
  BY DEF ReadCopy, AtClient, worker, Unadded
<1>5. QED
  BY <1>1, <1>2, <1>3, <1>4

LEMMA SaveStep ==
  ASSUME TypeInv, Shipped, RoomLeft, Save
  PROVE  /\ Copied = 0 /\ Copied' = 0 /\ Unadded = 0 /\ Unadded' = wlen
         /\ wlen \in 1 .. Size /\ data_length + wlen <= Size
         /\ save_index' = Wrap(save_index + wlen) /\ saved' = saved + wlen
         /\ UNCHANGED <<read_index, data_length, taken>> /\ ~Resetting
<1>1. Copied = 0 /\ Copied' = 0
  BY Alternate DEF Worker
<1>2. wlen \in 1 .. Size /\ data_length + wlen <= Size /\ Unadded = 0 /\ ~Resetting
  BY SizesAssumption DEF SizesAssumption, Save, At, RoomLeft, Unadded, Resetting, TypeInv, TypeOK
<1>3. save_index' = Wrap(save_index + wlen) /\ saved' = saved + wlen
  BY <1>2, SizesAssumption DEF SizesAssumption, Save, NextSave, Wrap, TypeInv, TypeOK
<1>4. Unadded' = wlen /\ UNCHANGED <<read_index, data_length, taken>>
  BY DEF Save, Goto, Unadded
<1>5. QED
  BY <1>1, <1>2, <1>3, <1>4

LEMMA CountStep ==
  ASSUME TypeInv, Shipped, RoomLeft, Reading, ReadSub \/ AddLength
  PROVE  /\ InFlight' = InFlight
         /\ UNCHANGED <<save_index, read_index, saved, taken, store, Resetting>>
<1>1. CASE ReadSub
  <2>1. data_length' = data_length - clen /\ Copied = clen
    BY <1>1, Lengths DEF ReadSub, AtClient, Reading, Copied
  <2>2. Copied' = 0 /\ Unadded' = Unadded
    BY <1>1 DEF ReadSub, AtClient, worker, Copied, Unadded
  <2>3. UNCHANGED <<save_index, read_index, saved, taken, store, Resetting>>
    BY <1>1 DEF ReadSub, AtClient, worker, history, Resetting
  <2>4. data_length \in Int /\ clen \in Int /\ Unadded \in Int
    BY DEF TypeInv, TypeOK, Unadded
  <2>5. QED
    BY <2>1, <2>2, <2>3, <2>4 DEF InFlight
<1>2. CASE AddLength
  <2>1. data_length' = data_length + wlen /\ Unadded = wlen
    BY <1>2, Lengths DEF AddLength, At, Unadded
  <2>2. Unadded' = 0 /\ Copied = 0 /\ Copied' = 0
    BY <1>2, Alternate DEF AddLength, Goto, Unadded, Worker
  <2>3. UNCHANGED <<save_index, read_index, saved, taken, store, Resetting>>
    BY <1>2 DEF AddLength, At, Goto, history, Resetting
  <2>4. data_length \in Int /\ wlen \in Int
    BY DEF TypeInv, TypeOK
  <2>5. QED
    BY <2>1, <2>2, <2>3, <2>4 DEF InFlight
<1>3. QED
  BY <1>1, <1>2
LEMMA FlightRange ==
  ASSUME TypeInv, RoomLeft, Reading
  PROVE  InFlight \in 0 .. Size /\ Size \in Nat \ {0} /\ read_index \in 0 .. Size - 1 /\ Copied \in Nat
<1>1. data_length \in Nat /\ Copied \in Nat /\ Copied <= data_length /\ Unadded \in Nat
  BY DEF TypeInv, TypeOK, Copied, Unadded, Reading
<1>2. data_length + Unadded <= Size
  BY DEF RoomLeft
<1>3. QED
  BY <1>1, <1>2, SizesAssumption DEF SizesAssumption, InFlight, TypeInv, TypeOK

(* A job begins with an empty ring. *)
LEMMA ResetStep ==
  ASSUME TypeInv, Shipped, ResetJob
  PROVE  InFlight' = 0 /\ read_index' = 0 /\ save_index' = 0 /\ saved' = 0 /\ taken' = 0
<1>1. Copied' = 0
  BY Alternate DEF Worker
<1>2. Unadded' = 0
  BY DEF ResetJob, Goto, Unadded
<1>3. QED
  BY <1>1, <1>2 DEF ResetJob, InFlight

LEMMA RegionStep ==
  Shipped /\ TypeInv /\ RoomLeft /\ Reading /\ Region /\ [Next]_vars => Region'
<1> SUFFICES ASSUME Shipped, TypeInv, RoomLeft, Reading, Region, [Next]_vars, ~Resetting'
             PROVE  save_index' = Wrap(read_index' + InFlight')
  BY DEF Region, Wrap
<1>1. CASE ReadCopy
  <2>1. InFlight' = InFlight - clen
    BY <1>1, CopyStep, SMTT(30) DEF InFlight, TypeInv, TypeOK, Unadded
  <2>2. ~Resetting
    BY <1>1, CopyStep DEF Resetting
  <2>3. clen \in 1 .. InFlight
    BY <1>1, CopyStep DEF InFlight, Unadded, TypeInv, TypeOK
  <2>4. QED
    BY <1>1, <2>1, <2>2, <2>3, CopyStep, FlightRange DEF Region, Wrap
<1>2. CASE ReadSub \/ AddLength
  BY <1>2, CountStep DEF Region, Wrap
<1>3. CASE Save
  <2>1. InFlight' = InFlight + wlen
    BY <1>3, SaveStep, SMTT(30) DEF InFlight, TypeInv, TypeOK
  <2>2. InFlight + wlen <= Size
    BY <1>3, SaveStep DEF InFlight, TypeInv, TypeOK
  <2>3. QED
    BY <1>3, <2>1, <2>2, SaveStep, FlightRange DEF Region, Wrap
<1>4. CASE ResetJob
  BY <1>4, ResetStep, SizesAssumption DEF SizesAssumption, Wrap
<1>5. CASE ResetLength \/ ResetIndexes
  BY <1>5 DEF ResetLength, ResetIndexes, Goto, Resetting
<1>6. CASE ~(ReadCopy \/ ReadSub \/ Save \/ AddLength \/ ResetJob \/ ResetLength \/ ResetIndexes)
  BY <1>6, ElsewhereSteps DEF Elsewhere, Region, Wrap, InFlight
<1>7. QED
  BY <1>1, <1>2, <1>3, <1>4, <1>5, <1>6

(* Save writes the units behind the region and spoils none in it. *)
LEMMA SaveContents ==
  ASSUME TypeInv, Shipped, RoomLeft, Reading, Region, Contents, Save,
         NEW i \in 0 .. InFlight + wlen - 1
  PROVE  store'[Wrap(read_index + i)] = taken + i
<1> DEFINE p == Wrap(read_index + i)
           k == (p - save_index) % Size
<1>1. /\ InFlight \in 0 .. Size /\ Size \in Nat \ {0} /\ read_index \in 0 .. Size - 1
      /\ wlen \in 1 .. Size /\ InFlight + wlen <= Size
      /\ save_index = Wrap(read_index + InFlight) /\ saved = taken + InFlight /\ taken \in Int
  <2>1. InFlight + wlen <= Size /\ taken \in Int
    BY SaveStep, SMTT(30) DEF InFlight, TypeInv, TypeOK
  <2>2. save_index = Wrap(read_index + InFlight) /\ saved = taken + InFlight
    BY SaveStep DEF Region, Contents
  <2>3. QED
    BY <2>1, <2>2, SaveStep, FlightRange
<1>2. p \in 0 .. Size - 1
  BY <1>1 DEF Wrap
<1>3. store'[p] = IF k < wlen THEN saved + k ELSE store[p]
  BY <1>2 DEF Save
<1>4. CASE i >= InFlight
  <2>1. p - save_index = i - InFlight \/ p - save_index = i - InFlight - Size
    BY <1>1, <1>4 DEF Wrap
  <2>2. k = i - InFlight
    BY <1>1, <1>4, <2>1, WrapIsMod
  <2>3. QED
    BY <1>1, <1>3, <1>4, <2>2
<1>5. CASE i < InFlight
  <2>1. p - save_index = i - InFlight \/ p - save_index = i - InFlight + Size
    BY <1>1, <1>5 DEF Wrap
  <2>2. k = i - InFlight + Size
    <3>1. i - InFlight \in -Size .. -1 /\ i - InFlight + Size \in 0 .. Size - 1
      BY <1>1, <1>5
    <3>2. (i - InFlight) % Size = i - InFlight + Size
      BY <1>1, <3>1, WrapIsMod
    <3>3. (i - InFlight + Size) % Size = i - InFlight + Size
      BY <1>1, <3>1, WrapIsMod
    <3>4. QED
      BY <2>1, <3>2, <3>3
  <2>3. store[p] = taken + i
    <3>1. i \in 0 .. InFlight - 1 /\ ~Resetting
      BY <1>1, <1>5, SaveStep
    <3>2. QED
      BY <3>1 DEF Contents
  <2>4. QED
    BY <1>1, <1>3, <1>5, <2>2, <2>3
<1>6. QED
  BY <1>1, <1>4, <1>5

LEMMA ContentsStep ==
  Shipped /\ TypeInv /\ RoomLeft /\ Reading /\ Region /\ Contents /\ [Next]_vars => Contents'
<1> SUFFICES ASSUME Shipped, TypeInv, RoomLeft, Reading, Region, Contents, [Next]_vars, ~Resetting'
             PROVE  /\ saved' = taken' + InFlight'
                    /\ \A i \in 0 .. InFlight' - 1 : store'[Wrap(read_index' + i)] = taken' + i
  BY DEF Contents, Wrap
<1>1. CASE ReadCopy
  <2>1. InFlight' = InFlight - clen /\ clen \in 1 .. InFlight /\ taken \in Int
    BY <1>1, CopyStep DEF InFlight, TypeInv, TypeOK, Unadded
  <2>2. ~Resetting
    BY <1>1, CopyStep DEF Resetting
  <2>3. ASSUME NEW i \in 0 .. InFlight' - 1
        PROVE  store'[Wrap(read_index' + i)] = taken' + i
    <3>1. i + clen \in 0 .. InFlight - 1
      BY <2>1, FlightRange
    <3>2. Wrap(read_index' + i) = Wrap(read_index + (i + clen))
      BY <1>1, <2>1, CopyStep, FlightRange DEF Wrap
    <3>3. store[Wrap(read_index + (i + clen))] = taken + (i + clen)
      BY <2>2, <3>1 DEF Contents
    <3>4. QED
      BY <1>1, <2>1, <3>2, <3>3, CopyStep
  <2>4. QED
    BY <1>1, <2>1, <2>2, <2>3, CopyStep, FlightRange DEF Contents
<1>2. CASE ReadSub \/ AddLength
  BY <1>2, CountStep DEF Contents, Wrap
<1>3. CASE Save
  <2>1. InFlight' = InFlight + wlen /\ InFlight \in Int /\ taken \in Int /\ wlen \in Int
    BY <1>3, SaveStep DEF InFlight, TypeInv, TypeOK
  <2>2. UNCHANGED <<read_index, taken>> /\ saved' = saved + wlen /\ saved = taken + InFlight
    BY <1>3, SaveStep DEF Contents
  <2>3. QED
    BY <1>3, <2>1, <2>2, SaveContents
<1>4. CASE ResetJob
  BY <1>4, ResetStep
<1>5. CASE ResetLength \/ ResetIndexes
  BY <1>5 DEF ResetLength, ResetIndexes, Goto, Resetting
<1>6. CASE ~(ReadCopy \/ ReadSub \/ Save \/ AddLength \/ ResetJob \/ ResetLength \/ ResetIndexes)
  BY <1>6, ElsewhereSteps DEF Elsewhere, Contents, Wrap, InFlight
<1>7. QED
  BY <1>1, <1>2, <1>3, <1>4, <1>5, <1>6
LEMMA SessionsStep ==
  Shipped /\ TokenInv /\ JobClaim /\ SessionsOwned /\ [Next]_vars => SessionsOwned'
<1> SUFFICES ASSUME Shipped, TokenInv, JobClaim, SessionsOwned, [Next]_vars PROVE SessionsOwned'
  OBVIOUS
<1> USE SizesAssumption DEF SizesAssumption, Shipped, TokenInv, TypeInv, TypeOK, Tokens, OneJobAtATime,
           SessionsOwned, Working, WorkerPc, JobClaim, shared, sync, worker, client, history, AtClient, At, Goto
<1>1. CASE StartJob \/ SendJob
  <2>1. CASE StartJob
    BY <2>1 DEF StartJob, MayStart
  <2>2. CASE SendJob
    BY <2>2 DEF SendJob
  <2>3. QED
    BY <1>1, <2>1, <2>2
<1>2. CASE ReadCheck \/ ReadFlag \/ ReadWait \/ ReadGet
  BY <1>2 DEF ReadCheck, ReadFlag, ReadWait, ReadGet
<1>3. CASE ReadCopy \/ ReadSub \/ ReadRelease \/ \E n \in 1 .. ReadMax : ReadCall(n)
  BY <1>3 DEF ReadCall, ReadCopy, ReadSub, ReadRelease
<1>4. CASE TakeJob
  BY <1>4 DEF TakeJob
<1>5. CASE CheckJob
  BY <1>5 DEF CheckJob
<1>6. CASE ResetJob \/ LoopJob \/ CheckRoom
  BY <1>6 DEF ResetJob, LoopJob, CheckRoom
<1>7. CASE \E n \in 0 .. Block : Fetch(n)
  BY <1>7 DEF Fetch
<1>8. CASE Suspend \/ Resume
  BY <1>8 DEF Suspend, Resume
<1>9. CASE Save \/ AddLength
  BY <1>9 DEF Save, AddLength
<1>10. CASE Notify \/ Post
  <2>1. CASE Notify
    BY <2>1 DEF Notify
  <2>2. CASE Post
    BY <2>2 DEF Post
  <2>3. QED
    BY <1>10, <2>1, <2>2
<1>11. CASE CloseJob
  BY <1>11 DEF CloseJob
<1>12. CASE SetStopped \/ StopWait
  BY <1>12 DEF SetStopped, StopWait
<1>13. CASE ResetLength \/ ResetIndexes
  BY <1>13 DEF ResetLength, ResetIndexes
<1>14. CASE StopJob
  BY <1>14 DEF StopJob
<1>15. CASE UNCHANGED vars
  BY <1>15 DEF vars
<1>16. QED
  BY <1>1, <1>2, <1>3, <1>4, <1>5, <1>6, <1>7, <1>8, <1>9, <1>10, <1>11, <1>12, <1>13, <1>14, <1>15
  DEF Next, Client, Worker

RingInv == TokenInv /\ Ring /\ SessionsOwned

LEMMA InitRing == Init => RingInv
<1> SUFFICES ASSUME Init PROVE RingInv
  OBVIOUS
<1>1. JobClaim /\ SessionsOwned /\ Reading
  BY DEF Init, JobClaim, SessionsOwned, Working, WorkerPc, Reading, STOPPED, STOPPING
<1>2. RoomLeft /\ Region /\ Contents
  BY SizesAssumption DEF SizesAssumption, Init, RoomLeft, Region, Contents, Resetting, Unadded
<1>3. QED
  BY <1>1, <1>2, InitTokens DEF RingInv, Ring

LEMMA RingStep == Shipped /\ RingInv /\ [Next]_vars => RingInv'
<1> SUFFICES ASSUME Shipped, RingInv, [Next]_vars PROVE RingInv'
  OBVIOUS
<1>1. TokenInv'
  BY TypeStep, TokensStep DEF RingInv, TokenInv
<1>2. JobClaim' /\ RoomLeft' /\ Reading' /\ SessionsOwned'
  BY ClaimStep, RoomStep, ReadingStep, SessionsStep DEF RingInv, Ring
<1>3. Region' /\ Contents'
  BY RegionStep, ContentsStep DEF RingInv, Ring, TokenInv
<1>4. QED
  BY <1>1, <1>2, <1>3 DEF RingInv, Ring

LEMMA RingHolds == ASSUME Shipped PROVE Spec => []RingInv
  BY InitRing, RingStep, PTL DEF Spec

(* With the client above the worker and no stop: the indexes and the length of
   netbuffer.c, which two threads write at different times, describe one region
   of the ring. *)
THEOREM RingDescribed == ASSUME Shipped PROVE Spec => []RingAgrees
<1>1. RingInv => RingAgrees
  <2> SUFFICES ASSUME RingInv, ~Resetting PROVE save_index = (read_index + InFlight) % Size
    BY SMTT(30) DEF RingAgrees, InFlight, RingInv, TokenInv, TypeInv, TypeOK, Copied, Unadded
  <2>1. save_index = Wrap(read_index + InFlight)
    BY DEF RingInv, Ring, Region
  <2>2. read_index + InFlight \in 0 .. 2 * Size - 1 /\ Size \in Nat \ {0}
    BY FlightRange DEF RingInv, Ring, TokenInv
  <2>3. QED
    BY <2>1, <2>2, WrapIsMod DEF Wrap
<1>2. QED
  BY <1>1, RingHolds, PTL

(* Under the same schedule net_buf_do_job never overwrites a unit that is
   still to be read, although it looks for room once and outside the lock, and
   net_buf_read takes no more than there is. *)
THEOREM RingBounded == ASSUME Shipped PROVE Spec => []NoOverrun
<1>1. RingInv => NoOverrun
  BY DEF RingInv, Ring, RoomLeft, Reading, NoOverrun, TokenInv, TypeInv, TypeOK, Copied
<1>2. QED
  BY <1>1, RingHolds, PTL

(* Under the same schedule every session that net_buf_start_job takes over is
   closed once: no job is dropped by the queue or by the check of stat. *)
THEOREM SessionsClosed == ASSUME Shipped PROVE Spec => []SessionsOwned
  BY RingHolds, PTL DEF RingInv

LEMMA StreamDelivers ==
  ASSUME RingInv, ReadCopy
  PROVE  Stream!Deliver
<1>1. clen \in 1 .. (saved - taken) /\ clen \in Nat /\ taken' = taken + clen /\ UNCHANGED saved
      /\ cri = read_index /\ clen <= InFlight /\ ~Resetting
  <2>1. TypeInv /\ Reading /\ Contents /\ RoomLeft
    BY DEF RingInv, TokenInv, Ring
  <2>2. clen \in 1 .. data_length /\ Copied = 0 /\ ~Resetting
    BY <2>1, CopyStep DEF Resetting, RoomLeft, TypeInv, TypeOK
  <2>3. clen \in 1 .. InFlight /\ saved = taken + InFlight
    BY <2>1, <2>2 DEF Contents, InFlight, Unadded, TypeInv, TypeOK
  <2>4. QED
    BY <2>1, <2>2, <2>3, CopyStep DEF ReadCopy, AtClient, Reading, TypeInv, TypeOK, InFlight, Unadded
<1>2. ASSUME NEW i \in 1 .. clen PROVE store[(cri + i - 1) % Size] = taken + i - 1
  <2>1. InFlight \in 0 .. Size /\ Size \in Nat \ {0} /\ read_index \in 0 .. Size - 1 /\ taken \in Int
    BY FlightRange DEF RingInv, TokenInv, Ring, TypeInv, TypeOK
  <2>2. i - 1 \in 0 .. InFlight - 1
    BY <1>1, <2>1
  <2>3. (cri + i - 1) % Size = Wrap(read_index + (i - 1))
    <3>1. read_index + (i - 1) \in 0 .. 2 * Size - 1 /\ cri + i - 1 = read_index + (i - 1)
      BY <1>1, <2>1, <2>2
    <3>2. (read_index + (i - 1)) % Size = Wrap(read_index + (i - 1))
      BY <3>1, WrapOfIndex
    <3>3. QED
      BY <3>1, <3>2
  <2>4. store[Wrap(read_index + (i - 1))] = taken + (i - 1)
    BY <1>1, <2>2 DEF RingInv, Ring, Contents
  <2>5. QED
    BY <2>1, <2>3, <2>4
<1>3. out' = [i \in 1 .. clen |-> taken + i - 1]
  BY <1>2 DEF ReadCopy
<1>4. QED
  BY <1>1, <1>3 DEF Stream!Deliver

LEMMA StreamStep ==
  Shipped /\ RingInv /\ [Next]_vars => [Stream!StreamNext]_<<saved, taken, out>>
<1> SUFFICES ASSUME Shipped, RingInv, [Next]_vars PROVE [Stream!StreamNext]_<<saved, taken, out>>
  OBVIOUS
<1> USE DEF Stream!StreamNext
<1>1. CASE ReadCopy
  BY <1>1, StreamDelivers
<1>2. CASE Save
  <2>1. saved' = saved + wlen /\ wlen \in Nat \ {0} /\ saved \in Nat
    BY <1>2, SaveStep DEF RingInv, TokenInv, Ring, TypeInv, TypeOK
  <2>2. UNCHANGED <<taken, out>>
    BY <1>2 DEF Save
  <2>3. QED
    BY <2>1, <2>2 DEF Stream!Accept
<1>3. CASE ResetJob \/ ResetLength
  BY <1>3 DEF ResetJob, ResetLength, Stream!Restart
<1>4. CASE StartJob \/ SendJob \/ ReadCheck \/ ReadFlag \/ ReadWait \/ ReadGet
  BY <1>4 DEF StartJob, SendJob, ReadCheck, ReadFlag, ReadWait, ReadGet, history
<1>5. CASE ReadSub \/ ReadRelease \/ \E n \in 1 .. ReadMax : ReadCall(n)
  BY <1>5 DEF ReadSub, ReadRelease, ReadCall, history
<1>6. CASE TakeJob \/ CheckJob \/ LoopJob \/ \E n \in 0 .. Block : Fetch(n)
  BY <1>6 DEF TakeJob, CheckJob, LoopJob, Fetch, history
<1>7. CASE CheckRoom \/ Suspend \/ Resume \/ AddLength \/ Notify \/ Post
  BY <1>7 DEF CheckRoom, Suspend, Resume, AddLength, Notify, Post, history
<1>8. CASE CloseJob \/ SetStopped \/ StopWait \/ ResetIndexes
  BY <1>8 DEF CloseJob, SetStopped, StopWait, ResetIndexes, history
<1>9. CASE StopJob \/ UNCHANGED vars
  BY <1>9 DEF StopJob, vars, history
<1>10. QED
  BY <1>1, <1>2, <1>3, <1>4, <1>5, <1>6, <1>7, <1>8, <1>9 DEF Next, Client, Worker

(* Under the same schedule the ring of netbuffer.c implements the in-order
   stream: what net_buf_read returns is the next part of what was fetched. *)
THEOREM RingImplementsStream == ASSUME Shipped PROVE Spec => InOrderStream
<1>1. Init => Stream!StreamInit
  BY DEF Init, Stream!StreamInit
<1>2. QED
  BY <1>1, RingHolds, StreamStep, PTL DEF Spec, InOrderStream, Stream!StreamSpec, Stream!streamVars
------------------------------------------------------------------------------
(* A reader that sleeps on wait_ready, under the shipped schedule. *)

(* A job that net_buf_do_stop has not passed yet. *)
JobAlive == cpc = "send" \/ mq > 0 \/ wpc = "check" \/ Working \/ wpc = "stopped"

(* A status other than STOPPED stands for such a job, and a reader that raises
   its flag still finds it, or its stop before the test of the flag. *)
AliveInv ==
  /\ stat # STOPPED => JobAlive
  /\ cpc = "flag" \/ (cpc = "wait" /\ is_wait_ready) => JobAlive \/ wpc = "stopwait"

(* For a reader that sleeps there is a token, a release under way, or a raised
   flag and a job that has yet to look at it. *)
ReaderCovered ==
  cpc = "wait" =>
    \/ wait_ready > 0
    \/ wpc \in {"post", "stoppost"}
    \/ is_wait_ready /\ (JobAlive \/ wpc = "stopwait")

LEMMA AliveStep == Shipped /\ RingInv /\ AliveInv /\ [Next]_vars => AliveInv'
<1> SUFFICES ASSUME Shipped, RingInv, AliveInv, [Next]_vars PROVE AliveInv'
  OBVIOUS
<1>1. TypeOK /\ OneJobAtATime /\ JobClaim
  BY DEF RingInv, Ring, TokenInv, TypeInv, Tokens
<1> USE DEF AliveInv, JobAlive, Working, WorkerPc, shared, sync, worker, client, history,
           STOPPED, BUFFERING, SUSPEND, STOPPING
<1>2. CASE StartJob
  BY <1>1, <1>2 DEF StartJob, AtClient
<1>3. CASE SendJob
  BY <1>1, <1>3, SizesAssumption DEF SizesAssumption, SendJob, AtClient, TypeOK
<1>4. CASE ReadCheck
  BY <1>1, <1>4 DEF ReadCheck, MustWait, AtClient
<1>5. CASE ReadFlag
  BY <1>1, <1>5 DEF ReadFlag, AtClient
<1>6. CASE ReadWait \/ ReadGet \/ ReadCopy \/ ReadRelease \/ \E n \in 1 .. ReadMax : ReadCall(n)
  BY <1>1, <1>6 DEF ReadCall, ReadWait, ReadGet, ReadCopy, ReadRelease, AtClient
<1>7. CASE ReadSub
  BY <1>1, <1>7 DEF ReadSub, AtClient
<1>8. CASE Worker
  <2>1. cpc \in {"idle", "open", "wait"} /\ cpc' = cpc
    BY <1>8, Alternate DEF RingInv, TokenInv
  <2>2. CASE TakeJob \/ CheckJob
    BY <1>1, <2>1, <2>2 DEF TakeJob, CheckJob, At, Goto, JobClaim
  <2>3. CASE ResetJob \/ LoopJob \/ CheckRoom \/ Resume \/ \E n \in 0 .. Block : Fetch(n)
    BY <2>1, <2>3 DEF ResetJob, LoopJob, Fetch, CheckRoom, Resume, At, Goto
  <2>4. CASE Suspend \/ Save \/ AddLength
    BY <2>1, <2>4 DEF Suspend, Save, AddLength, At, Goto
  <2>5. CASE Notify
    <3>1. wpc = "notify" /\ wpc' \in {"loop", "post"}
      BY <2>5 DEF Notify, At, Goto
    <3>2. QED
      BY <3>1
  <2>6. CASE Post
    <3>1. CASE wpc = "post"
      BY <2>6, <3>1 DEF Post, At, Goto
    <3>2. CASE wpc = "stoppost"
      <4>1. is_wait_ready' = is_wait_ready /\ stat' = stat /\ mq' = mq /\ wpc' = "resetlen"
        BY <2>6, <3>2 DEF Post, At, Goto
      <4>2. QED
        BY <1>1, <2>1, <3>2, <4>1
    <3>3. QED
      BY <2>6, <3>1, <3>2 DEF Post, At
  <2>7. CASE CloseJob \/ SetStopped
    BY <1>1, <2>1, <2>7 DEF CloseJob, SetStopped, At, Goto, OneJobAtATime
  <2>8. CASE StopWait
    <3>1. wpc = "stopwait" /\ ~is_wait_ready' /\ stat' = stat /\ mq' = mq
      BY <2>8 DEF StopWait, At
    <3>2. QED
      BY <2>1, <3>1
  <2>9. CASE ResetLength \/ ResetIndexes
    BY <2>1, <2>9 DEF ResetLength, ResetIndexes, At, Goto
  <2>10. QED
    BY <1>8, <2>2, <2>3, <2>4, <2>5, <2>6, <2>7, <2>8, <2>9 DEF Worker
<1>9. CASE StopJob
  BY <1>9 DEF StopJob, Shipped
<1>10. CASE UNCHANGED vars
  BY <1>10 DEF vars
<1>11. QED
  BY <1>2, <1>3, <1>4, <1>5, <1>6, <1>7, <1>8, <1>9, <1>10 DEF Next, Client

(* The safety core of EofReleasesReader: with the client above the worker and no
   stop, net_buf_read never sleeps on wait_ready with nobody left to release
   it, although it reads stat long before it raises is_wait_ready. *)
THEOREM SleeperCovered == ASSUME Shipped PROVE Spec => []ReaderCovered
<1>1. Init => AliveInv
  BY DEF Init, AliveInv, STOPPED
<1>2. ASSUME TypeOK, ReadyTokens, AliveInv PROVE ReaderCovered
  <2>1. CASE is_wait_ready
    BY <1>2, <2>1 DEF AliveInv, ReaderCovered
  <2>2. CASE ~is_wait_ready
    BY <1>2, <2>2 DEF TypeOK, ReadyTokens, ReaderCovered
  <2>3. QED
    BY <2>1, <2>2
<1>3. RingInv => TypeOK /\ ReadyTokens
  BY DEF RingInv, TokenInv, TypeInv, Tokens
<1>4. QED
  BY <1>1, <1>2, <1>3, RingHolds, AliveStep, PTL DEF Spec
=============================================================================
