------------------------------ MODULE NetBuffer ------------------------------
(***************************************************************************)
(* The network buffer of applications/netbuffer.c: a worker thread ("nbuf",*)
(* priority 22) fetches blocks of a stream into a ring, a client thread    *)
(* starts the job and reads the ring (the MP3 decoder of mp3.c), and any   *)
(* other thread may ask for the job to be stopped.                         *)
(*                                                                         *)
(* One action is one stretch of code that no other thread can split: a     *)
(* section under rt_hw_interrupt_disable, or the code between two accesses *)
(* to a field another thread writes.  Data units stand for bytes; a unit   *)
(* is stamped with its position in the stream, so that a unit read out of  *)
(* order, twice or after being overwritten can be told from the right one. *)
(***************************************************************************)
EXTENDS Integers, Sequences

CONSTANTS
  Size,        \* _netbuf.size, in units
  Block,       \* NETBUF_BLOCK_SIZE: the most one fetch returns
  ReadMax,     \* the most one net_buf_read asks for
  ReadyWm,     \* _netbuf.ready_wm
  ResumeWm,    \* _netbuf.resume_wm
  Word,        \* rt_size_t counts modulo Word
  MqDepth,     \* depth of the message queue _netbuf_mq
  MaxFetch,    \* bound: units one stream delivers before it ends
  ReaderFirst, \* TRUE: the client's priority is above the worker's (tshell
               \* runs at 20), so the worker runs only while it is blocked
  MayStop      \* TRUE: some thread calls net_buf_stop_job

(* Sizes as net_buf_init computes them: 320 KB, 90 %, 80 %, 4 KB blocks.  *)
ASSUME SizesAssumption ==
  /\ Size \in Nat \ {0} /\ Block \in Nat \ {0} /\ ReadMax \in Nat \ {0}
  /\ ReadyWm \in Nat /\ ResumeWm \in Nat \ {0} /\ Word \in Nat
  /\ MqDepth \in Nat \ {0} /\ MaxFetch \in Nat
  /\ Block <= Size - ReadyWm /\ Block <= Size - ResumeWm
  /\ ResumeWm <= ReadyWm
  /\ ReadMax <= Size /\ Word > 2 * Size
ASSUME RegimeAssumption == ReaderFirst \in BOOLEAN /\ MayStop \in BOOLEAN

VARIABLES
  stat, data_length, read_index, save_index,  \* fields of _netbuf
  is_wait_ready, wait_ready, wait_resume,     \* the flag and two semaphores
  mq,                                         \* jobs queued in _netbuf_mq
  wpc, wlen, wdl,           \* worker: position, read_length, data_length
  cpc, clen, cri, cdl,      \* client: position, length, read_index, data_length
  store, saved, taken, out, \* history: stamps in the ring, units saved and
                            \* taken in this job, the units of the last copy
  sessions                  \* history: sessions handed over, not yet closed

shared  == <<stat, data_length, read_index, save_index>>
sync    == <<is_wait_ready, wait_ready, wait_resume, mq>>
worker  == <<wpc, wlen, wdl>>
client  == <<cpc, clen, cri, cdl>>
history == <<store, saved, taken, out, sessions>>
vars    == <<shared, sync, worker, client, history>>

STOPPED   == 0
BUFFERING == 1
SUSPEND   == 2
STOPPING  == 3

WorkerPc == {"idle", "check", "reset", "loop", "fetch", "room", "suspend",
             "resume", "save", "add", "notify", "post", "stop", "stopped",
             "stopwait", "stoppost", "resetlen", "resetidx"}
ClientPc == {"idle", "send", "open", "check", "flag", "wait", "get", "copy",
             "sub", "release"}

(* The worker holds a job whose session it has not closed. *)
Working == wpc \in WorkerPc \ {"idle", "check", "stopped", "stopwait",
                               "stoppost", "resetlen", "resetidx"}

(* Arithmetic of rt_size_t. *)
Sub(a, b) == (a - b) % Word
Add(a, b) == (a + b) % Word
Least(a, b) == IF a <= b THEN a ELSE b

(* net_buf_init *)
Init ==
  /\ stat = STOPPED /\ data_length = 0 /\ read_index = 0 /\ save_index = 0
  /\ is_wait_ready = FALSE /\ wait_ready = 0 /\ wait_resume = 0 /\ mq = 0
  /\ wpc = "idle" /\ wlen = 0 /\ wdl = 0
  /\ cpc = "idle" /\ clen = 0 /\ cri = 0 /\ cdl = 0
  /\ store = [i \in 0 .. Size - 1 |-> -1]
  /\ saved = 0 /\ taken = 0 /\ out = <<>> /\ sessions = 0
------------------------------------------------------------------------------
(* The client thread: net_buf_start_job and net_buf_read.  A definition that
   stands just before the one it spoils, and that nothing uses, is the code
   with one plausible mistake in it. *)

(* The client moves; the worker does not. *)
AtClient(from) == cpc = from /\ UNCHANGED worker

(* The section that claims a stopped worker; a refused job (-1) changes
   nothing, the caller closes its own session. *)
MayStartAlsoBuffering == stat \in {STOPPED, BUFFERING}
MayStart == stat = STOPPED

StartJob ==
  /\ AtClient("idle") /\ MayStart
  /\ stat' = BUFFERING
  /\ cpc' = "send"
  /\ sessions' = sessions + 1
  /\ UNCHANGED <<data_length, read_index, save_index, sync, clen, cri, cdl,
                 store, saved, taken, out>>

(* rt_mq_send, whose result the code ignores: a full queue drops the job. *)
SendJob ==
  /\ AtClient("send")
  /\ mq' = IF mq < MqDepth THEN mq + 1 ELSE mq
  /\ cpc' = "open"
  /\ UNCHANGED <<shared, is_wait_ready, wait_ready, wait_resume, clen, cri,
                 cdl, history>>

(* The decoder asks for up to n units; first read of data_length. *)
ReadCall(n) ==
  /\ AtClient("open")
  /\ clen' = n
  /\ cdl' = data_length
  /\ cpc' = "check"
  /\ UNCHANGED <<shared, sync, cri, history>>

MustWait == cdl = 0 /\ stat \in {BUFFERING, SUSPEND}

ReadCheck ==
  /\ AtClient("check")
  /\ cpc' = IF MustWait THEN "flag" ELSE "get"
  /\ UNCHANGED <<shared, sync, clen, cri, cdl, history>>

ReadFlag ==
  /\ AtClient("flag")
  /\ is_wait_ready' = TRUE
  /\ cpc' = "wait"
  /\ UNCHANGED <<shared, wait_ready, wait_resume, mq, clen, cri, cdl, history>>

(* rt_sem_take(wait_ready, FOREVER); nobody deletes the semaphore. *)
ReadWait ==
  /\ AtClient("wait") /\ wait_ready > 0
  /\ wait_ready' = wait_ready - 1
  /\ cpc' = "get"
  /\ UNCHANGED <<shared, is_wait_ready, wait_resume, mq, clen, cri, cdl,
                 history>>

(* Snapshot of the index and the length; an empty ring returns 0 and the
   decoder loop of mp3.c ends. *)
ReadGet ==
  /\ AtClient("get")
  /\ cri' = read_index
  /\ cdl' = data_length
  /\ clen' = Least(clen, data_length)
  /\ cpc' = IF data_length > 0 THEN "copy" ELSE "idle"
  /\ UNCHANGED <<shared, sync, history>>

(* Where read_index goes after n units (+= reads the field anew). *)
NextReadNoWrap(n) == IF Size - cri > n THEN read_index + n ELSE 0
NextRead(n) ==
  IF Size - cri > n THEN read_index + n ELSE n - (Size - cri)

(* Both memcpy branches and the update of read_index. *)
ReadCopy ==
  /\ AtClient("copy")
  /\ out' = [i \in 1 .. clen |-> store[(cri + i - 1) % Size]]
  /\ taken' = taken + clen
  /\ read_index' = NextRead(clen)
  /\ cpc' = "sub"
  /\ UNCHANGED <<stat, data_length, save_index, sync, clen, cri, cdl, store,
                 saved, sessions>>

BelowResume(n) == n < ResumeWm

ReadSubForgetsRelease ==
  /\ AtClient("sub")
  /\ data_length' = Sub(data_length, clen)
  /\ stat' = IF stat = SUSPEND /\ BelowResume(data_length') THEN BUFFERING ELSE stat
  /\ cpc' = "open"
  /\ UNCHANGED <<read_index, save_index, sync, clen, cri, cdl, history>>

(* The section that gives the space back and may resume the worker. *)
ReadSub ==
  /\ AtClient("sub")
  /\ data_length' = Sub(data_length, clen)
  /\ \/ /\ stat = SUSPEND /\ BelowResume(data_length')
        /\ stat' = BUFFERING
        /\ cpc' = "release"
     \/ /\ ~(stat = SUSPEND /\ BelowResume(data_length'))
        /\ stat' = stat
        /\ cpc' = "open"
  /\ UNCHANGED <<read_index, save_index, sync, clen, cri, cdl, history>>

ReadRelease ==
  /\ AtClient("release")
  /\ wait_resume' = wait_resume + 1
  /\ cpc' = "open"
  /\ UNCHANGED <<shared, is_wait_ready, wait_ready, mq, clen, cri, cdl,
                 history>>

Client ==
  \/ StartJob \/ SendJob \/ ReadCheck \/ ReadFlag \/ ReadWait
  \/ ReadGet \/ ReadCopy \/ ReadSub \/ ReadRelease
  \/ \E n \in 1 .. ReadMax : ReadCall(n)
------------------------------------------------------------------------------
(* Any thread: net_buf_stop_job, one section. *)
StopReleasesAlways == TRUE
StopReleases == stat = SUSPEND

StopJob ==
  /\ MayStop
  /\ stat \in {SUSPEND, BUFFERING}
  /\ wait_resume' = IF StopReleases THEN wait_resume + 1 ELSE wait_resume
  /\ stat' = STOPPING
  /\ UNCHANGED <<data_length, read_index, save_index, is_wait_ready, wait_ready,
                 mq, worker, client, history>>
------------------------------------------------------------------------------
(* The worker thread. *)

(* Blocked, or between two calls. *)
ClientLetsRun == cpc \in {"idle", "open"} \/ (cpc = "wait" /\ wait_ready = 0)

At(from) ==
  wpc = from /\ (ReaderFirst => ClientLetsRun) /\ UNCHANGED client
Goto(to) == wpc' = to

(* net_buf_thread_entry *)
TakeJob ==
  /\ At("idle") /\ mq > 0
  /\ mq' = mq - 1
  /\ Goto("check")
  /\ UNCHANGED <<shared, is_wait_ready, wait_ready, wait_resume, wlen, wdl,
                 history>>

CheckJob ==
  /\ At("check")
  /\ Goto(IF stat = BUFFERING THEN "reset" ELSE "idle")
  /\ UNCHANGED <<shared, sync, wlen, wdl, history>>

ResetJob ==
  /\ At("reset")
  /\ data_length' = 0 /\ read_index' = 0 /\ save_index' = 0
  /\ saved' = 0 /\ taken' = 0 /\ out' = <<>>
  /\ Goto("loop")
  /\ UNCHANGED <<stat, sync, wlen, wdl, store, sessions>>

(* net_buf_do_job *)
LoopJob ==
  /\ At("loop")
  /\ Goto(IF stat = STOPPING THEN "stop" ELSE "fetch")
  /\ UNCHANGED <<shared, sync, wlen, wdl, history>>

(* job->fetch: n units, or none at the end of the stream or on an error. *)
Fetch(n) ==
  /\ At("fetch") /\ saved + n <= MaxFetch
  /\ wlen' = n
  /\ Goto(IF n = 0 THEN "stop" ELSE "room")
  /\ UNCHANGED <<shared, sync, wdl, history>>

NoRoomWhenFull(dl) == Sub(Size, dl) = 0
NoRoom(dl) == Sub(Size, dl) < wlen

CheckRoom ==
  /\ At("room")
  /\ wdl' = data_length
  /\ Goto(IF NoRoom(data_length) THEN "suspend" ELSE "save")
  /\ UNCHANGED <<shared, sync, wlen, history>>

Suspend ==
  /\ At("suspend")
  /\ stat' = SUSPEND
  /\ Goto("resume")
  /\ UNCHANGED <<data_length, read_index, save_index, sync, wlen, wdl,
                 history>>

(* rt_sem_take(wait_resume, FOREVER); nobody deletes the semaphore. *)
Resume ==
  /\ At("resume") /\ wait_resume > 0
  /\ wait_resume' = wait_resume - 1
  /\ Goto("save")
  /\ UNCHANGED <<shared, is_wait_ready, wait_ready, mq, wlen, wdl, history>>

(* Where save_index goes after n units: both branches of the copy. *)
NextSaveNoWrap(n) ==
  IF Size - save_index < n THEN n - (Size - save_index) ELSE save_index + n
NextSaveNoSplit(n) == IF save_index + n >= Size THEN 0 ELSE save_index + n
NextSave(n) ==
  IF Size - save_index < n THEN n - (Size - save_index)
  ELSE IF save_index + n >= Size THEN 0 ELSE save_index + n

Save ==
  /\ At("save")
  /\ store' = [i \in 0 .. Size - 1 |->
                 LET k == (i - save_index) % Size
                 IN  IF k < wlen THEN saved + k ELSE store[i]]
  /\ save_index' = NextSave(wlen)
  /\ saved' = saved + wlen
  /\ Goto("add")
  /\ UNCHANGED <<stat, data_length, read_index, sync, wlen, wdl, taken, out,
                 sessions>>

AddLength ==
  /\ At("add")
  /\ data_length' = Add(data_length, wlen)
  /\ wdl' = data_length'
  /\ Goto("notify")
  /\ UNCHANGED <<stat, read_index, save_index, sync, wlen, history>>

ReadyUnasked == stat = BUFFERING /\ wdl >= ReadyWm
Ready == stat = BUFFERING /\ wdl >= ReadyWm /\ is_wait_ready

Notify ==
  /\ At("notify")
  /\ is_wait_ready' = (is_wait_ready /\ ~Ready)
  /\ Goto(IF Ready THEN "post" ELSE "loop")
  /\ UNCHANGED <<shared, wait_ready, wait_resume, mq, wlen, wdl, history>>

(* rt_sem_release(wait_ready), of net_buf_do_job and of net_buf_do_stop. *)
Post ==
  /\ At("post") \/ At("stoppost")
  /\ wait_ready' = wait_ready + 1
  /\ Goto(IF wpc = "post" THEN "loop" ELSE "resetlen")
  /\ UNCHANGED <<shared, is_wait_ready, wait_resume, mq, wlen, wdl, history>>

(* net_buf_do_stop: close, stat, waiting reader, length, indexes. *)
CloseJob ==
  /\ At("stop")
  /\ sessions' = sessions - 1
  /\ Goto("stopped")
  /\ UNCHANGED <<shared, sync, wlen, wdl, store, saved, taken, out>>

SetStopped ==
  /\ At("stopped")
  /\ stat' = STOPPED
  /\ Goto("stopwait")
  /\ UNCHANGED <<data_length, read_index, save_index, sync, wlen, wdl,
                 history>>

StopWaitForgetsPost ==
  /\ At("stopwait")
  /\ is_wait_ready' = FALSE
  /\ Goto("resetlen")
  /\ UNCHANGED <<shared, wait_ready, wait_resume, mq, wlen, wdl, history>>
StopWait ==
  /\ At("stopwait")
  /\ is_wait_ready' = FALSE
  /\ Goto(IF is_wait_ready THEN "stoppost" ELSE "resetlen")
  /\ UNCHANGED <<shared, wait_ready, wait_resume, mq, wlen, wdl, history>>

ResetLength ==
  /\ At("resetlen")
  /\ data_length' = 0
  /\ saved' = 0 /\ taken' = 0 /\ out' = <<>>
  /\ Goto("resetidx")
  /\ UNCHANGED <<stat, read_index, save_index, sync, wlen, wdl, store,
                 sessions>>

ResetIndexes ==
  /\ At("resetidx")
  /\ read_index' = 0 /\ save_index' = 0
  /\ Goto("idle")
  /\ UNCHANGED <<stat, data_length, sync, wlen, wdl, history>>

Worker ==
  \/ TakeJob \/ CheckJob \/ ResetJob \/ LoopJob \/ CheckRoom \/ Suspend
  \/ Resume \/ Save \/ AddLength \/ Notify \/ Post \/ CloseJob \/ SetStopped
  \/ StopWait \/ ResetLength \/ ResetIndexes
  \/ \E n \in 0 .. Block : Fetch(n)

Next == Client \/ StopJob \/ Worker

Spec == Init /\ [][Next]_vars
------------------------------------------------------------------------------
(* Properties. *)

TypeOK ==
  /\ stat \in {STOPPED, BUFFERING, SUSPEND, STOPPING}
  /\ data_length \in 0 .. Word - 1
  /\ read_index \in 0 .. Size - 1 /\ save_index \in 0 .. Size - 1
  /\ is_wait_ready \in BOOLEAN
  /\ wait_ready \in Nat /\ wait_resume \in Nat /\ mq \in Nat
  /\ wpc \in WorkerPc /\ wlen \in 0 .. Block /\ wdl \in 0 .. Word - 1
  /\ cpc \in ClientPc /\ clen \in 0 .. ReadMax
  /\ cri \in 0 .. Size - 1 /\ cdl \in 0 .. Word - 1
  /\ store \in [0 .. Size - 1 -> Int]
  /\ saved \in Nat /\ taken \in Nat /\ out \in Seq(Int) /\ sessions \in Int

(* A job is claimed only when no other is queued or running: the stopped
   state, the queue and the worker together admit one job, so the ignored
   result of rt_mq_send (line 173) never hides a full queue. *)
OneJobAtATime ==
  LET Claimed(p) == IF p THEN 1 ELSE 0
  IN  /\ Claimed(cpc = "send") + mq
           + Claimed(wpc = "check" \/ Working \/ wpc = "stopped") <= 1
      /\ stat = STOPPED => cpc # "send" /\ mq = 0 /\ ~Working
                           /\ wpc \notin {"check", "stopped"}

(* Every sem_release(wait_ready) answers exactly one reader that raised
   is_wait_ready and sleeps: no wake-up is lost between the flag and the
   semaphore, and none is left over for a later read. *)
ReadyTokens ==
  (IF is_wait_ready THEN 1 ELSE 0) + wait_ready
    + (IF wpc \in {"post", "stoppost"} THEN 1 ELSE 0)
  = IF cpc = "wait" THEN 1 ELSE 0

(* Whoever takes the status out of SUSPEND (a read or a stop) owes the
   parked worker one token, and nobody else releases one. *)
ResumeTokens ==
  (IF stat = SUSPEND THEN 1 ELSE 0) + wait_resume
    + (IF cpc = "release" THEN 1 ELSE 0)
  = IF wpc = "resume" THEN 1 ELSE 0

(* Units the reader has copied, and units the worker has saved, whose count
   data_length does not show yet. *)
Copied == IF cpc = "sub" THEN clen ELSE 0
Unadded == IF wpc = "add" THEN wlen ELSE 0
Resetting == wpc \in {"resetidx", "idle", "check", "reset"}

(* The two indexes and the length, written by two threads at different
   times, always describe the same region of the ring. *)
RingAgrees ==
  \/ Resetting
  \/ save_index = (read_index + data_length - Copied + Unadded) % Size

(* The worker never overwrites a unit that is still to be read, and the
   reader never takes more than there is (no wrap below zero). *)
NoOverrun == data_length - Copied >= 0 /\ data_length + Unadded <= Size

(* Each session handed over is owned by the queue or by the worker until the
   worker closes it: none is leaked, none closed twice. *)
SessionsOwned ==
  sessions = mq + (IF cpc = "send" THEN 1 ELSE 0)
                + (IF wpc = "check" \/ Working THEN 1 ELSE 0)

(* The ring, its indexes and semaphores implement the in-order stream. *)
Stream == INSTANCE NetStream
            WITH fetched <- saved, delivered <- taken, last <- out
InOrderStream == Stream!StreamSpec

(* The decoder loop keeps reading, the worker keeps running; the network
   may stay silent, so Fetch is not fair. *)
Fairness ==
  /\ WF_vars(ReadCheck \/ ReadFlag \/ ReadWait \/ ReadGet \/ ReadCopy \/ ReadSub
             \/ ReadRelease \/ SendJob \/ \E n \in 1 .. ReadMax : ReadCall(n))
  /\ SF_vars(Worker /\ wpc # "fetch")

FairSpec == Spec /\ Fairness

(* A reader asleep, or about to sleep, when the stream ends is woken by
   net_buf_do_stop. *)
EofReleasesReader ==
  (wpc = "stop" /\ cpc \in {"flag", "wait"}) ~> cpc \notin {"flag", "wait"}

(* A parked worker is resumed while its client goes on reading.  The two ways
   out are the hazards of the hand-over: the client gone, or asleep on a ring
   it emptied before the worker wrote SUSPEND. *)
ParkedWorkerResumes ==
  wpc = "resume" ~> \/ wpc # "resume"
                    \/ cpc = "idle"
                    \/ cpc = "wait" /\ stat = SUSPEND

(* "no free space yet, suspend itself" (line 266). *)
SuspendHasNoRoom == [][stat # SUSPEND /\ stat' = SUSPEND => NoRoom(data_length)]_vars
=============================================================================
