# Verification of realboard-stm32f4

TLA+ models of the concurrent and stateful parts of the RealTouch board software
(`software/realtouch`): the network buffer, the sound driver with its block
pool, the Ethernet and the WiFi driver, the touch screen, the SPI flash, the SD
host and the radio client. TLC checks them on small instances, and TLAPS
proves the most important invariants for every value of the constants.
`PROJECT.json` maps every definition to the lines it models.

## 1. The system

A single-core Cortex-M4 under the RT-Thread kernel: preemptive threads with
32 priorities (a lower number is more urgent), interrupts above all of them, and
`rt_hw_interrupt_disable` as the usual lock. The kernel is a submodule that is
not in the tree; its semaphores, queues and mailboxes are modelled as the code
uses them. Priorities that matter: wlan 10, tcpip 12, etx and erx 14, tshell 20
(runs the players and sends WiFi commands), nbuf 22, PHY monitor 30; touch is one
above the GUI.

| Component | State | Operations | Meets others through |
|---|---|---|---|
| Network buffer `applications/netbuffer.c` | status, length, two indexes, waiting flag, two semaphores, a job queue | start job, read, stop job, worker loop, end of job | the player reads, HTTP fetches |
| Sound driver `drivers/codec_wm8978_i2c.c` | ring of 5 nodes, r06 (bit MS), I2S port, DMA stream | write, close, rate change, DMA interrupt | blocks of the pool, call-back in the interrupt |
| Block pool, players `netbuffer.c`, `mp3.c`, `wav.c` | 2 blocks; decoder buffer | allocate, decode, write, release | sound driver, network buffer |
| Ethernet driver `drivers/stm32f4xx_eth.c` | two rings of descriptors, DMA position, status bits, flag and semaphore | send, receive, interrupt, initialise on link up | lwIP threads etx and erx, DMA |
| WiFi `wifi_8686/` | card's status and mask, current command, event, `HisRegCpy`, receive list | command and reply, receive thread, interrupt, frame to lwIP, key exchange | tshell and erx as senders of commands, erx's mailbox, SPI bus |
| Touch `drivers/touch.c` | pin, edge interrupt, coordinates, calibration | thread, interrupt, control | GUI events |
| SPI flash `drivers/spi_flash_w25qxx.c` | sectors, write-enable latch, busy bit, lock | open, read, write, identification | file system |
| SD host `drivers/stm32f4xx_sd.c` | SDIO flags and masks, command in progress, status | request, interrupt, stop command | mmcsd_core's semaphore |
| Radio `applications/http.c` | session, position in the chunk, title announced | open, read, close | socket, network buffer |
| Set-up, start-up, keys, clock, display, UI | see `PROJECT.json` | | |

What is hard in it, component by component:

* **Network buffer.** Two threads update the same length and indexes, only some
  of it under the lock; each may sleep on a semaphore the other releases; a
  third may stop the job. Correct means: data in order and never overwritten;
  each sleeper is woken exactly once for each sleep; one job and one session at
  a time, each closed once.
* **Sound.** An interrupt handler and a thread share a ring, a register copy and
  the DMA. Correct means: the DMA plays the oldest block and nothing else; no
  block is left waiting without a transfer; every block goes back to the pool
  once, after it was played.
* **Ethernet.** Driver and DMA meet only through OWN bits and status bits that
  are cleared with a delay; the PHY monitor starts everything anew at any time.
  Correct means: frames in order, none overwritten, none unseen in a ring,
  every sleeping sender woken.
* **WiFi.** One slot for the command in progress, replies that are matched with
  nothing, an event that outlives the call, two senders without a lock, a register
  copy that three threads change, an interrupt line that one party disables and the
  other enables. Correct means: a caller wakes by its own reply, and does wake (calls
  that overlap do not keep this); frames in order, none left in the list unannounced.
* **Touch.** The line is off while a press is handled, and an edge in the gap is
  cleared; the mode may change within a press; unsigned arithmetic beyond the edges.
  Correct means: presses and lifts alternate, and a held pen is reported.
* **SPI flash.** The chip ignores what comes at the wrong moment; a reset may come
  between erase and program. Correct means: to the file system it is a store of
  whole sectors, which loses at most the one being written.
* **SD host.** Command path and data path end in either order, also when one has
  failed. Correct means: one answer for each request, and a true one.
* **Radio.** Titles are cut out of reads that start and end anywhere. Correct means:
  the player gets the audio, all of it, in order.

Every hazard is in `PROJECT.json`, at its line and with the properties that cover it.

## 2. The modules

| Module | Models |
|---|---|
| `NetBuffer` | `netbuffer.c`, the client, any stopper, and the worker |
| `NetStream` | what the buffer promises: units of a stream, delivered in order |
| `Codec` | the sound driver, the player above it, the DMA below it |
| `BlockLoan` | what the driver promises: blocks lent, queued, returned in order |
| `EthDriver` | etx, erx, PHY monitor, interrupt handler, DMA |
| `Wlan` | the WiFi thread, card, the two senders of commands (tshell and erx), erx with its mailbox |
| `Touch` | pen, edge interrupt, touch thread, GUI thread |
| `SpiFlash` | the flash driver, its callers, the chip, resets and power |
| `BlockStore` | what the flash promises each call: the sectors it asked for, read and written whole |
| `SdHost` | the SD host driver, its interrupt, the peripheral with the card |
| `Shoutcast` | the radio client over a server's stream |
| `...Proofs` | theorems |
| `MC...` | the instances that TLC checks |

A definition that stands just before the one it spoils, and that nothing uses (such
as `NextReadNoWrap`), is the code with one plausible mistake.

### NetBuffer

Each thread has a program counter (`cpc`, `wpc`); one action is what no other
thread can split: a locked section, or the code between two accesses to a
shared field. The copies of shared fields that the code keeps in local variables
(`read_index`, `data_length`, `read_length`) are variables of the model, because
the code goes on with them after they have become stale. Data are numbered units
(`store`, `saved`, `taken`, `out` are history). `rt_size_t` counts modulo
`Word`, so an underflow would show as a huge length.

`ReaderFirst` is the scheduling that is shipped: the client (tshell, 20) is above
the worker (22), so the worker moves only while the client is blocked. With
`FALSE` the threads interleave freely, as if the player ran elsewhere. `MayStop` enables
`net_buf_stop_job`, which nothing in the product calls yet.

### Codec

The player is one thread, as in the product. `DmaDone` is the hardware: it takes
the port enabled and the chip driving the clock. `ms` is the bit MS of `r06`,
`chip_ms` the bit last sent to the chip: the handler changes the first only.
`sample_rate` is three actions, because the handler can change `r06` between its
read and its store. The handler itself is one action, as nothing the program has
splits it. The abstract queue of the refinement is the stretch of nodes between the
two indexes.

### EthDriver

Threads move only while no interrupt is pending (`NoInterrupt`), the PHY monitor
only while both others are blocked. The handler has two steps, since the DMA sets
status bits between the reading and the clearing. The DMA walks the rings, suspends
itself on a descriptor it does not own (`tbus`, `rbus`) and resumes on a poll demand.
Init is the state after the first `rt_stm32_eth_init`. `Relink` lets the PHY monitor
run it again; `Drops` lets a received frame be bad or find no memory.

The actors outside the repository (lwIP's two threads, the DMA) are `external` in the map.

### Wlan

The thread "wlan" is the most urgent, so its steps end only where it can block (the
SPI bus, memory), and the others move only there (`LetsRun`): that is what protects
`HisRegCpy`, which nobody locks. The mutant that lets a caller in anywhere breaks
`OnlyFullMailboxStrands`.

There are two senders, `Callers`. tshell sends what the shell is told; erx sends the
commands of the key exchange: `mrvl_wlan_rx` gives an EAPOL frame to `is_ieee802_11`, that to
`wlan_wpa_eapol_input`, and the WPA module sets keys by `wlan_wpa_set_key`, which sends and
waits in `DownloadCommandToStation` like any command. `ErxPop` may find such a frame, `ErxKeyed` ends
it; between them erx is a caller. Both write the one `CurCmd` and sleep on the one event
`cmdwaitevent`, whose waiters are served in the order they came (`waiting`, `EventSend`). erx is more
urgent than tshell, so it can start a command at any point of tshell's where the receive
thread lets it (`Runs`). `overlap` is history: calls that ran while the other's did. What the
card does with a command that comes while it works on another is not known; `CmdTell` allows
that it does both or only the later one.

 The card holds its interrupts back while it is masked, and
the line to the processor is disabled by the handler and enabled by the thread.
Transfers do not fail: the driver's own functions never return an error.

### Touch

One coordinate stands for both. The GUI thread moves while "touch" sleeps, delays or
waits for the bus. `torn` and `gui_down` are history: the mode was switched within a
press; the last event given to the GUI was a press. Noise leaves the coordinate as it was.
Calibration data are stored edge by edge; a set-up file may hold useless ones.

### SpiFlash and BlockStore

One SPI transfer is one step. A page holds the set of programs since its last erase, so
that a program over old data shows as two. `BlocksKept` is the refinement: the disk of
the abstract store is the chip's content, and while a writer holds the lock the content
at the time it took it. A reset leaves the chip at work; a loss of power spoils the
pages in work.

`BlockStore` takes one call at a time, the one whose caller holds the lock (`asked`, from `Begin` to
`Return`; one or two sectors each, in both modules), and lets it do
what it asked for and nothing else: a write changes the sectors asked for to the
data asked for, all of them when it returns; a read returns the data it read; a fault costs only
the sector at the write's place or the one the chip works on (`atwork`); only a reset takes
the device away. A driver that programs another sector, or a fault that spoils
another, has no step there.

### SdHost

The peripheral has a command path and a data path, whose flags come in any order the
hardware allows. Requests differ by their data, their stop command and the types of their replies:
none, R3 (and R4) without a checksum, R1 (and R2, R6, R7), and R1B (and R5). The distinction matters
in line 259, which tests the type with the mask `R3 | R4` although the types are numbers:
1, 3, 4, 5, 6 and 7 share a bit with 5, 2 and 8 do not (`Forgiven`).

Three histories name what the driver is not made for. `orphan`, `odd`: the data path is set up after the
command was sent, so if the command has failed by then a stray flag comes later, in another request.
`crossed`: a transfer fails before the reply to its command was served, and a stop
command is due; the handler looks at errors only, leaves `CMDREND` pending, starts the stop
command, completes it on the old `CMDREND` and again on its own reply. `forgiven`: commands
whose spoilt reply was let pass. After an odd flag or a crossing the model makes no
further request, since the acknowledgement too many belongs to none.

### Shoutcast

A stream is a sequence of audio bytes, length bytes and title bytes, of which a read
gets any prefix up to its size. `OnlyOddReadsSpoil` lists the reads the code is not made
for (`spoilt`): a session without titles, a title left over from the session before, a
cut title, two titles in a read, a length byte that did not come. Each is needed: without
any of them TLC finds a wrong stream.

## 3. The runs

| Run | Bounds | Shows |
|---|---|---|
| `ring` | 6 units, blocks of 2, reads up to 3, 8 units a stream | `RingAgrees`, `NoOverrun`, `SessionsOwned`, refinement `InOrderStream`, `EofReleasesReader`, `ParkedWorkerResumes`, in the shipped schedule |
| `any_schedule` | 3 units, blocks of 1, length modulo 7 | `TypeOK`, `OneJobAtATime`, `ReadyTokens`, `ResumeTokens` for free interleaving and any number of stops |
| `stale_room` | as `ring`, reads up to 2 | finding, in the shipped schedule |
| `sound` | 3 nodes, 3 blocks | `TypeOK`, `DmaServesHead`, `StreamArmed`, `OnlyRateChangeSplits`, refinement `BlocksLent`, `BlockReturns`, with a ring that fills and refuses |
| `eth_frames` | 2 and 3 descriptors, 4 frames each way | order both ways, `FillsFreeBuffer`, `FrameNoticed`, `BusySenderWakes`, `QueuedFrameSent`, on a link that stays up |
| `eth_relink` | 2 and 2, 3 frames, drops, link up at any time | `FullRingNoticed`, `ReceptionResumes` |
| `wlan` | 2 frames, 2 commands of 2 senders, mailbox of 1, wired port in use | `FramesInOrder`, `OnlyFullMailboxStrands`, `OwnReplyOnly`, `CommandCompletes` |
| `touch` | 7 raw values, 3 calibrations | `GuiAgrees`, `OnlyRearmLosesPress`, `PressReported`, `PressReleased` |
| `flash` | 2 sectors of 2 pages, 2 callers, 2 contents | refinement `BlocksKept`, `CallsReturn` |
| `sd` | every kind of request, reply type and failure | `OneAckEach`, `SuccessMeansDone`, `RequestAnswered` |
| `radio` | chunks of 4, reads of up to 6, 3 titles of 0 to 2 units of 2 | `OnlyOddReadsSpoil` |
| `radio_cut_title` | the same | finding |

**Why the bounds are enough.** In `ring` the stream is longer than the ring and the
block sizes divide it unevenly, so both indexes wrap, in the middle of a block and
exactly at the end; the water marks lie between one block and the full ring, so the
worker parks and is resumed, and several jobs follow each other. The wake-up
protocol of `any_schedule` does not depend on sizes (its theorems hold for all). The
sound ring has one place less than nodes: with three blocks it fills. Two transmit
descriptors are what the code has; of the four for reception two or three
are enough to fill the ring, suspend the DMA and resume. Frame counters let each
ring go round once more than it is long. In `wlan` two frames are one announced and one
that is not, a mailbox of one is filled by a wired notice, as one of eight is by eight, and
two commands follow each other or overlap. (A mailbox of two, and three commands with one frame, pass as well; they
take longer.) `touch` has
values inside, at and beyond both edges, an axis that runs backwards, and one of no
length. In `flash` two pages are the least that a reset can leave half written, and
calls of one and two sectors overlap. In `radio` a read may hold less than a chunk, a chunk
and a title, or two titles. In all models data are bounded by
named constants (`MaxFetch`, `MaxFrames`, `MaxCmds`, `Titles`, `MaxAcks`) in the guards.

**Deadlock** is not checked: every model may stop where the system waits for the
outside (no data from the network, no frame, nothing to play). That waiting actors
are woken is stated by the leads-to properties.

**Fairness.** *NetBuffer*: the client goes on reading and the worker on running;
the worker's fairness is strong because the client preempts it again and again; `Fetch`
is not fair (the network may be silent), starting a job and stopping it neither.
*Codec*: the DMA, its interrupt, and a thread inside `codec_close` go on; nothing makes
the player decode. *EthDriver*: interrupt, transmitting DMA, threads with work and a PHY
monitor inside its initialisation go on; no frame has to come, from either side.
*Wlan*: the card answers a command as soon as its mask lets it (strong, as the mask comes
and goes), interrupt and thread go on, and one of the callers goes on when the more urgent leave
the processor to one again and again (strong). *Touch*: interrupt and thread. *SpiFlash*: the chip ends its work,
a caller goes on; the mutex is first come, first served, hence strong fairness of `Enter`.
*SdHost*: the peripheral ends what it began, interrupt and thread go on.

**Exits in the liveness properties.** `ParkedWorkerResumes` excepts a client that
has left and one asleep on a ring it emptied before the worker wrote `SUSPEND`
(the case `stale_room` reaches). `BlockReturns` excepts the stall of a rate change:
`Stalled` is reachable, and `OnlyRateChangeSplits` says by which step alone.
`BusySenderWakes` is about busy descriptors: a sender that goes to sleep
too late may sleep on a free one. With `Relink` it fails as well:
a sender asleep while the rings are initialised anew is never woken. `PressReported`
excepts a pen that rests exactly 8 from the edge, `PressReleased` a switch of the mode
within the press, `RequestAnswered` a write whose FIFO ran empty, `CallsReturn` a reset.
`CommandCompletes` is about a call that no other overlaps, and about one of two that do:
of these the other may wait for ever.

**Exceptions in the safety properties.** `OwnReplyOnly`: calls that overlap another. `OneAckEach`: two
acknowledgements behind a crossing; nothing after an odd flag. `SuccessMeansDone`: a
forgiven reply, and the data behind it; data that overran or emptied the FIFO; the
stop command behind a crossing. Each is reachable, and TLC finds the property violated without it.

**Assumptions.** All WiFi frames are SNAP frames, as the firmware passes up no others
(`wlan_rx.c:123`); for another one the driver uses a list node it has freed. GO_IDLE_STATE is the only
SD command without a reply: line 392 of `stm32f4xx_sd.c` enables the interrupt by the command's
code, line 376 chooses the reply by its type, and another such command would never be answered. The GUI
takes every event: `touch.c` ignores the result of `rtgui_server_post_event`, and an event that were refused
would leave the GUI with a press without its lift.

## 4. What disagrees with the comments

Shown by a run:

1. `stale_room`: the worker suspends itself on a length that is out of date, with room in the ring.
2. `radio_cut_title`: a read that ends inside a title moves a negative number of bytes.

Met while modelling, and named in the properties as exceptions or in the hazards:

* Network buffer: a job is accepted while the worker is still closing the previous one;
  a stop of a parked worker lets it copy a block into a full ring.
* Ethernet: the sender raises its flag after the interrupt it waits for; a frame
  sent while the rings are initialised anew is stranded.
* WiFi: a notice that finds erx's mailbox full is lost, and with it the frames
  in the list, since only the first is announced. `wlan_cmd.c:407` says that a command is taken
  from a "command pending queue"; there is no queue and no lock, so a command that erx sends during one
  of tshell's takes its place in `CurCmd`, one may return on the other's reply, and one
  may wait for ever.
* Touch: an edge between the reading of the pin and the enabling of the line is lost;
  a pen exactly `previous_keep` from the edge is never reported.
* SPI flash: a reset during an erase leaves the board without its flash, as the chip does not
  answer the identity command.
* SD host: line 259 means replies without a checksum, and lets spoilt replies of type R1, R2, R6 and R7
  pass; a transfer that fails before its command's reply is served is acknowledged twice
  if it has a stop command (308-319, 446-453); FIFO errors are noted nowhere; a data path outlives
  its failed command. All are exceptions of the three properties.

## 5. What is proved

`NetBufferProofs`, from the assumptions on the sizes that `net_buf_init` fulfils
(`SizesAssumption`), for every schedule and any number of stops:

* `TypeCorrect`. `TypeOK` is not inductive: `read_index` is computed from a copy
  of the index made before the memory was copied, while a worker may have reset the field.
  `CopyIndex` adds that the field is then the copy or zero.
* `SingleJob`, `ReadyAccounted`, `ResumeAccounted`: the token counts of the two
  semaphores and the count of jobs. With `TypeInv` their conjunction `Tokens` is
  inductive; one step per action.

Under the shipped schedule (`Shipped`: the client above the worker, nobody stops
the job) the same module proves `RingDescribed`, `RingBounded`, `SessionsClosed` and the refinement
`RingImplementsStream`. `RingInv` adds to the tokens that
a claimed job stays in BUFFERING (`JobClaim`), that room found by the worker, or promised by
a release below the resume mark, is still there when it saves (`RoomLeft`), that the client's snapshot
is up to date while it copies (`Reading`), and that indexes and length describe one region
(`Region`) that holds the units of the stream from the first untaken one on (`Contents`).
`SleeperCovered` adds `AliveInv`: a status other than STOPPED stands for a job that has not
passed its stop, and a reader that raises its flag still finds that job, or its stop before the
test of the flag. So whoever sleeps has a token, a release under way, or someone who will look.
For other schedules these facts are not claimed: `stale_room` shows how the worker's copy ages.

`CodecProofs`, for every ring of at least two nodes and every pool, also one larger
than the ring:

* `FieldsTyped`, `HeadServed`, `StartNeverLost` from `CodecInv`, which adds
  what the three rest on: the nodes between the indexes hold blocks (`NodesFilled`), the player
  holds one from allocation to the end of the write (`PlayerOwns`), the
  interrupt only makes room under a writer past its test (`WriteHasRoom`), nothing restarts a halted DMA
  (`CloseHalted`), and the call-back is set (`CallbackSet`).
* `SplitOnlyByRateChange`, an action property, from `CodecInv` and `ClockInv`: the port
  is off exactly on an empty ring, MS set on any other, and a cleared bit read
  by `sample_rate` cannot be set before it stores it.
* `RingImplementsLoan`: each step of the driver is a step of `BlockLoan`, from `LoanInv` (the
  player holds no block outside the write) and the lemmas on `Queue` as a sequence.
* `BlocksApart`: a block is free, in the player's hands or queued, and queued once; `Apart` is
  inductive because each step is one of `BlockLoan`. `NoBlockLost`, for a pool smaller than the
  ring (two blocks and five nodes in the product): by the pigeonhole principle
  `codec_write` never refuses a block, so none is dropped.
* `PlayingGoesOn`: queued blocks have a transfer, a pending interrupt or `codec_close` to move
  them, or the port is stalled; `PortInv` adds that the port is on only with the chip's clock
  and the interrupt masked only inside `codec_close`.

`EthDriverProofs`, for every number of descriptors and of frames (`MaxFrames` is any number):

* `FieldsTyped`, with drops and relinks.
* `FramesSeen`: `FrameNoticed` when no frame is dropped, also under relinks.
  `NoticeInv` adds that the handler has put its notice in the mailbox before it
  clears the receive bit, and that a frame not dropped keeps erx polling.
* `FreeBufferFilled`, `SentInOrder`, on a link that stays up (a packet sent while the
  rings are initialised anew shows why not otherwise). `TxInv` says that the frames queued
  and not yet sent lie one after the other from the DMA's descriptor on
  (`OwnedArePending`, `FreshFollows`), and that a pending transmit status or a token
  of `tx_wait` means room (`RoomSignalled`): so the sender may skip the test
  of the descriptor after its wait.
* `FullRingSeen`, with drops and relinks: `FullInv` adds that the descriptor just given
  back is free or its frame announced.
* `NoneTwice`, with drops and relinks: frames reach lwIP in order, none twice. `RxInv` says
  that the frames erx has not given back lie one after the other from its index on, the latest
  just before the DMA's (`Holding`, `Laid`), and that reception is off and nothing is announced
  while the rings are laid anew (`Stopped`). `ReceivedInOrder` draws from it the property of the run
  `eth_frames`, with drops or on a link that stays up; a relink without drops loses
  frames too, and there the property, which asks for every number, is not claimed.
* `SendingGoesOn`, on a link that stays up: the DMA is suspended over a queued frame only until
  the sender's poll (`QueueMoves`), and a sender asleep on a busy descriptor has a token, or is
  known to the handler while the DMA works (`WakeComes`). `ReceptionGoesOn`, with drops and
  relinks: a suspended reception has a status bit, a notice or erx at work to resume it
  (`SuspendInv`: the DMA suspends over a full ring only).

`WlanProofs`, for every size of the mailbox and any number of frames and commands:
`WlanTyped`; `FramesOrdered` from `InOrder` (the list is in the order of arrival, an
announced frame is not in it yet, and the card is masked while its status is worked on);
`FullMailboxStrands`, an action property by cases on `Next`; and `RepliesMatch` from
`Replies`. A reply is pending in the card, the status, the register copy or the event; `Counted` says
that no more are pending than callers have told the card and wait, so that none is
left when nobody is in a call, and `Own` that the one pending for a call that is alone is its own. The others
say that the waiters are suspended once each, and only while the event is not set (`InTurn`), that a call outside
`overlap` is alone (`Alone`), and that no caller writes the bit of a reply back after it was
served (`BitServed`). `ReplyNeverLost` says the converse: while a lone call, or
two that overlap, have told the card and wait, a reply is pending (`Owed`); a card whose mask is off has a thread that
will set it, a line that is off has a wake-up, and a status has a notice (`NothingLost`).

`TouchProofs`, for every converter, calibration and filter: `FieldsTyped`;
`PressesPaired`, which is inductive with the types; `PressLostByRearm` from
`LineReady` (the line is enabled while the thread sleeps and nobody has woken it).
`Watching` (a thread that holds the pen for down does not sleep; otherwise the filter starts
from 0; places fit 16 bits) gives `LiftSeen` and `FirstSampleReported`, the latter with
`Differ`: the unsigned difference of two different places is never 0.

`SdHostProofs`, for any number of requests: `HostHolds`, `OneAck`, `SuccessIsTrue` and `AckOnWay`.
`Host` has four parts: what the thread's position says of the request
(`Positions`), one of command, stop command and acknowledgement at a time (`OnePath`), which flags
come together (`FlagsAgree`), and that what was not done was noted, forgiven or its flag is
still raised (`Results`). Behind a crossing `Crossing` takes the place of `Host`: the acknowledgements
there, taken and to come are two at most. `AckOnWay` adds `Armed`: the flags that may come are enabled in the
mask, belong to the request, and a path that has not ended is at work.

`SpiFlashProofs`, for any number of sectors, pages and callers: `FlashHolds`
and the refinement `FlashImplementsStore`, with the call in progress as a
part of the store's state. `FlashInv` says who holds the lock
(`LockHeld`), that the chip has its latch when it is set to work and works only while the owner
waits or on what was asked before a reset (`ChipReady`), where a call of each kind may be
(`CallShape`), and what has been written (`Progress`): sectors before the index whole, the one
at the index page by page, the others as they were. `TornWrite` draws from it what a reset
may leave, `PowerContent` what a loss of power costs, and `ReadDone` says that
a read has its sectors' content before it returns. `ChipObeys` says that
no command is given to a chip that would ignore it, and `CallsShrink` that each step of the
owner takes exactly one from the transfers left to its call (`Remaining`).

`ShoutcastProofs`, for every chunk size, read size, title length and number of titles, and any
number of sessions: `OnlyOddReads`. `IInv` says that a session nobody spoilt is either not
opened yet or stands at a place of its stream that fits its counters: inside a chunk,
with the bytes to the next title still to come (`Between`), or at a title (`AtTitle`), and has given
exactly the audio before it. The stream is a concatenation of any number of chunks
(`Layout`), so its shape needs induction over that number: `NatSets`, which has a set in the
place of the predicate, follows from the library's well-founded ordering of finite subsets.

Every invariant and every action property of a passing run is proved. Model-checked only is
liveness, as fairness and ENABLED are out of the prover's reach. What can be proved of
it is: for each leads-to property a theorem says that no reachable state is stuck:
whoever waits has somebody on the way to wake him, but for the exits of section 3.

| Leads-to property | The theorem under it |
|---|---|
| `EofReleasesReader`, `ParkedWorkerResumes` | `SleeperCovered`, `ResumeAccounted` |
| `BlockReturns` | `PlayingGoesOn` |
| `QueuedFrameSent`, `BusySenderWakes`, `ReceptionResumes` | `SendingGoesOn`, `ReceptionGoesOn` |
| `CommandCompletes` | `ReplyNeverLost` |
| `PressReported`, `PressReleased` | `FirstSampleReported`, `LiftSeen` |
| `CallsReturn` | `ChipObeys`, `CallsShrink` |
| `RequestAnswered` | `AckOnWay` |

What these leave to TLC is the last step: that whoever is on the way arrives, under the fairness
of section 3. `SessionsOwned`, `RingAgrees`, `NoOverrun`,
`InOrderStream` and `SleeperCovered` are proved for the shipped schedule only, as checked;
`FillsFreeBuffer`, `SendsInOrder` and `SendingGoesOn` for a link that stays up; `NoBlockLost`
for a pool smaller than the ring.

## 6. What is not modelled

Most of the tree is vendored: the STM32 peripheral library and CMSIS (twice), USB stacks,
the MP3 decoder, and near copies of the drivers under `software/examples`. They are taken as
the hardware they drive. The RT-Thread kernel, lwIP and the file system are not in the
tree. The examples and GUI programs are tutorials. Of the board's own code, what
is sequential and keeps no state the program tells apart is left out (register set-up, keys,
clock, display, the initialisation order, parsing of HTTP headers and JSON). In the modelled parts: sound
controls and the other codec mode; the vendor half of `stm32f4xx_eth.c`; the
WiFi driver's firmware download and information elements; the net buffer's console
command. A set of players is not modelled: one shell thread runs them. The reasons are in `PROJECT.json`.

## 7. Plan

1. `NetBuffer`, `Codec`, `EthDriver` with their abstract specifications and proofs. Done.
2. `Wlan`, `Touch`, `SpiFlash` over `BlockStore`, `SdHost`, `Shoutcast`. Done.
3. Theorems on step 2; the ring and both refinements of step 1; the safety under each liveness property. Done.
4. `Player`: the composition of network buffer, decoder buffer and sound driver;
   creation failure of the decoder.
