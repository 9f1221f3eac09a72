------------------------------ MODULE SpiFlash -------------------------------
(***************************************************************************)
(* The driver of the W25Qxx serial flash, drivers/spi_flash_w25qxx.c, its  *)
(* callers (the file system on behalf of any thread) and the chip.         *)
(*                                                                         *)
(* One SPI transfer is one step.  The chip takes a while to erase and to   *)
(* program, ignores everything but a status read meanwhile, needs its      *)
(* write-enable latch set before each, and drops the latch afterwards.  A  *)
(* program only clears bits: a page holds the set of the programs since    *)
(* its last erase.  The board may be reset, or lose power, at any moment.  *)
(***************************************************************************)
EXTENDS Integers, FiniteSets

CONSTANTS
  Sectors,   \* sectors, an interval of integers (512 and more in the product)
  Pages,     \* pages of a sector, SECTOR_SIZE / PAGE_SIZE
  Callers,   \* threads that use the device
  Data,      \* contents a sector may be given
  Garbage,   \* what power loss leaves of a page in work
  Lost, None

ASSUME FlashAssumption ==
  /\ Sectors \subseteq Int /\ Pages \in Nat \ {0}
  /\ Garbage \notin Data /\ Lost \notin Data /\ None \notin Callers

VARIABLES
  page,      \* the chip: page[s][p] is the set of what was programmed there
  wel, busy, \* its write-enable latch; it is at work
  work,      \* the pages it works on
  device,    \* "boot", then "registered" or "missing" (w25qxx_init)
  owner,     \* flash_device->lock
  pc, job,   \* position of each caller and the call it makes
  index, sub, \* i of w25qxx_flash_write, index of w25qxx_sector_write
  before,    \* what the disk held when the call took the lock (history)
  reply      \* what the read in progress gave (history)

chip == <<page, wel, busy, work>>
loop == <<index, sub>>
seen == <<before, reply>>
vars == <<chip, device, owner, pc, job, loop, seen>>

Span(first, count) == first .. first + count - 1

Calls == [kind : {"open"}] \cup
         { call \in [kind : {"read"}, first : Sectors, count : 1 .. 2]
             \cup [kind : {"write"}, first : Sectors, count : 1 .. 2, data : Data] :
             Span(call.first, call.count) \subseteq Sectors }

(* A sector is whole if all its pages hold the same one program. *)
Whole(s) == \E d \in Data : \A p \in 1 .. Pages : page[s][p] = {d}
Content ==
  [s \in Sectors |-> IF Whole(s)
                     THEN CHOOSE d \in Data : page[s][1] = {d}
                     ELSE Lost]

Init ==
  /\ \E disk \in [Sectors -> Data] :
       page = [s \in Sectors |-> [p \in 1 .. Pages |-> {disk[s]}]]
  /\ wel = FALSE /\ busy = FALSE /\ work = {} /\ device = "boot"
  /\ owner = None /\ pc = [c \in Callers |-> "idle"]
  /\ job = [c \in Callers |-> [kind |-> "open"]]
  /\ index = 0 /\ sub = 0 /\ before = None /\ reply = <<>>
------------------------------------------------------------------------------
(* The chip. *)

(* The operation in work ends, and with it the latch falls. *)
ChipDone ==
  /\ busy
  /\ busy' = FALSE /\ work' = {} /\ wel' = FALSE
  /\ UNCHANGED <<page, device, owner, pc, job, loop, seen>>

(* Work on the pages at, of whose old programs kept stay and to which added
   come, taken only by an idle chip with its latch set. *)
ChipWorks(at, kept, added) ==
  IF ~busy /\ wel
  THEN /\ busy' = TRUE /\ work' = at
       /\ page' = [s \in Sectors |-> [p \in 1 .. Pages |->
             IF <<s, p>> \in at THEN (page[s][p] \cap kept) \cup added ELSE page[s][p]]]
       /\ UNCHANGED wel
  ELSE UNCHANGED chip

(* WREN and WRDI. *)
Latch(on) ==
  /\ wel' = IF busy THEN wel ELSE on
  /\ UNCHANGED <<page, busy, work>>
------------------------------------------------------------------------------
(* The driver.  A definition that stands just before the one it spoils, and
   that nothing uses, is the code with one plausible mistake in it. *)

Go(c, to) == pc' = [pc EXCEPT ![c] = to]

(* w25qxx_init at start-up: a chip at work does not answer the identity
   command, and then the device is not registered. *)
Probe ==
  /\ device = "boot"
  /\ Latch(FALSE)
  /\ device' = IF busy THEN "missing" ELSE "registered"
  /\ UNCHANGED <<owner, pc, job, loop, seen>>

(* The file system calls open, read or write. *)
Call(c) ==
  /\ pc[c] = "idle" /\ device = "registered"
  /\ \E call \in Calls : job' = [job EXCEPT ![c] = call]
  /\ Go(c, "lock")
  /\ UNCHANGED <<chip, device, owner, loop, seen>>

(* flash_lock. *)
Lock == owner = None

Enter(c) ==
  /\ pc[c] = "lock" /\ Lock
  /\ owner' = c
  /\ before' = Content
  /\ Go(c, IF job[c].kind = "read" THEN "wrdi" ELSE "wren")
  /\ UNCHANGED <<chip, device, job, loop, reply>>

(* w25qxx_read: write disable, then the read in one transfer. *)
ReadDisable(c) ==
  /\ pc[c] = "wrdi" /\ job[c].kind = "read"
  /\ Latch(FALSE)
  /\ Go(c, "read")
  /\ UNCHANGED <<device, owner, job, loop, seen>>

Read(c) ==
  /\ pc[c] = "read"
  /\ reply' = [s \in Span(job[c].first, job[c].count) |->
                 IF busy THEN Lost ELSE Content[s]]
  /\ Go(c, "unlock")
  /\ UNCHANGED <<chip, device, owner, job, loop, before>>

(* CMD_WREN, before the status write, the erase and each page. *)
Enable(c) ==
  /\ pc[c] = "wren"
  /\ Latch(TRUE)
  /\ Go(c, IF job[c].kind = "open" THEN "wrsr"
           ELSE IF sub = 0 THEN "erase" ELSE "program")
  /\ UNCHANGED <<device, owner, job, loop, seen>>

(* CMD_WRSR in w25qxx_flash_open. *)
Status(c) ==
  /\ pc[c] = "wrsr"
  /\ ChipWorks({}, {}, {})
  /\ Go(c, "wait")
  /\ UNCHANGED <<device, owner, job, loop, seen>>

Sector(c) == job[c].first + index

(* CMD_ERASE_4K. *)
Erase(c) ==
  /\ pc[c] = "erase"
  /\ ChipWorks({Sector(c)} \X (1 .. Pages), {}, {})
  /\ Go(c, "wait")
  /\ UNCHANGED <<device, owner, job, loop, seen>>

(* CMD_PP. *)
Program(c) ==
  /\ pc[c] = "program"
  /\ ChipWorks({<<Sector(c), sub>>}, Data \cup {Garbage}, {job[c].data})
  /\ Go(c, "wait")
  /\ UNCHANGED <<device, owner, job, loop, seen>>

(* w25qxx_wait_busy, and what the caller does next. *)
ReadyAtOnce == TRUE
Ready == ~busy

LastPage == sub = Pages

Wait(c) ==
  /\ pc[c] = "wait" /\ Ready
  /\ \/ /\ job[c].kind = "open"
        /\ Go(c, "unlock") /\ UNCHANGED sub
     \/ /\ job[c].kind = "write" /\ LastPage
        /\ Go(c, "wrdi") /\ UNCHANGED sub
     \/ /\ job[c].kind = "write" /\ ~LastPage
        /\ Go(c, "wren") /\ sub' = sub + 1
  /\ UNCHANGED <<chip, device, owner, job, index, seen>>

(* CMD_WRDI after the sixteenth page; the next sector or the end. *)
WriteDisable(c) ==
  /\ pc[c] = "wrdi" /\ job[c].kind = "write"
  /\ Latch(FALSE)
  /\ index' = index + 1 /\ sub' = 0
  /\ Go(c, IF index' = job[c].count THEN "unlock" ELSE "wren")
  /\ UNCHANGED <<device, owner, job, seen>>

(* flash_unlock and return. *)
UnlockForgotten(c) == IF job[c].kind = "open" THEN owner ELSE None
Unlock(c) == None

Leave(c) ==
  /\ pc[c] = "unlock"
  /\ owner' = Unlock(c)
  /\ job' = [job EXCEPT ![c] = [kind |-> "open"]]
  /\ index' = 0 /\ sub' = 0 /\ before' = None /\ reply' = <<>>
  /\ Go(c, "idle")
  /\ UNCHANGED <<chip, device>>
------------------------------------------------------------------------------
(* Faults: the processor is reset and the chip works on, or both lose power
   and the pages in work are spoilt. *)

Restart ==
  /\ device' = "boot" /\ owner' = None
  /\ pc' = [c \in Callers |-> "idle"]
  /\ job' = [c \in Callers |-> [kind |-> "open"]]
  /\ index' = 0 /\ sub' = 0 /\ before' = None /\ reply' = <<>>

Reset == UNCHANGED chip /\ Restart

PowerLoss ==
  /\ page' = [s \in Sectors |-> [p \in 1 .. Pages |->
                IF <<s, p>> \in work THEN page[s][p] \cup {Garbage} ELSE page[s][p]]]
  /\ wel' = FALSE /\ busy' = FALSE /\ work' = {}
  /\ Restart
------------------------------------------------------------------------------
Step(c) ==
  \/ Call(c) \/ Enter(c) \/ ReadDisable(c) \/ Read(c) \/ Enable(c) \/ Status(c)
  \/ Erase(c) \/ Program(c) \/ Wait(c) \/ WriteDisable(c) \/ Leave(c)

Next == ChipDone \/ Probe \/ Reset \/ PowerLoss \/ \E c \in Callers : Step(c)

Spec == Init /\ [][Next]_vars

(* The chip finishes what it does, a caller goes on, and the mutex, made with
   RT_IPC_FLAG_FIFO, lets every waiting caller in. *)
FairSpec ==
  /\ Spec /\ WF_vars(ChipDone)
  /\ \A c \in Callers :
       /\ WF_vars(~(pc[c] \in {"idle", "lock"}) /\ Step(c))
       /\ SF_vars(Enter(c))
------------------------------------------------------------------------------
(* The disk as the callers may see it: as it was when the write began, until
   the write ends. *)
Disk == IF owner = None THEN Content ELSE before
Asked == IF owner = None THEN [kind |-> "open"] ELSE job[owner]
AtWork == {at[1] : at \in work}
Store == INSTANCE BlockStore
           WITH disk <- Disk, asked <- Asked, atwork <- AtWork, up <- device = "registered"

(* The driver is a block store, whatever the callers, resets and losses of
   power: reads are whole, writes atomic for readers and of the sectors and the
   data that were asked for, and a fault costs at most the sector being written
   (w25qxx_flash_write, w25qxx_sector_write). *)
BlocksKept == Store!Spec

(* Every call returns, unless the board is reset: the chip is always given the
   latch and the lock is always given back. *)
CallsReturn == \A c \in Callers : pc[c] = "lock" ~> pc[c] = "idle"
==============================================================================
