--------------------------- MODULE SpiFlashProofs ---------------------------
(***************************************************************************)
(* SpiFlash implements BlockStore, for every number of sectors, pages and  *)
(* callers, with resets and losses of power at any moment.                 *)
(***************************************************************************)
EXTENDS SpiFlash, TLAPS

Positions == {"idle", "lock", "wren", "wrsr", "erase", "program", "wait", "wrdi", "read", "unlock"}
Outside == {"idle", "lock"}

FlashTypes ==
  /\ page \in [Sectors -> [1 .. Pages -> SUBSET (Data \cup {Garbage})]]
  /\ wel \in BOOLEAN /\ busy \in BOOLEAN /\ work \subseteq Sectors \X (1 .. Pages)
  /\ device \in {"boot", "registered", "missing"}
  /\ owner \in Callers \cup {None}
  /\ pc \in [Callers -> Positions] /\ job \in [Callers -> Calls]
  /\ index \in 0 .. 2 /\ sub \in 0 .. Pages
  /\ owner # None => before \in [Sectors -> Data \cup {Lost}]

(* The lock, and who may use the device at all. *)
LockHeld ==
  /\ \A c \in Callers : owner = c <=> pc[c] \notin Outside
  /\ device # "registered" => \A c \in Callers : pc[c] = "idle"

(* The chip works only while the owner waits for it, or on what a processor
   that was reset had asked for; it has its latch when it is to work. *)
ChipReady ==
  /\ ~busy => work = {}
  /\ \A a, b \in work : a[1] = b[1]
  /\ device = "registered" /\ owner = None => ~busy
  /\ \A c \in Callers : pc[c] \notin Outside \cup {"wait"} => ~busy
  /\ \A c \in Callers : pc[c] \in {"wrsr", "erase", "program"} => wel

(* Where a call of each kind may be. *)
Untouched(c) == sub = 0 /\ pc[c] # "wait"
CallShape(c) ==
  /\ job[c].kind = "open" => pc[c] \in {"wren", "wrsr", "wait", "unlock"}
  /\ job[c].kind = "read" => pc[c] \in {"wrdi", "read", "unlock"}
  /\ job[c].kind # "write" => index = 0 /\ sub = 0
  /\ job[c].kind = "write" =>
       /\ pc[c] \in {"wren", "erase", "program", "wait", "wrdi", "unlock"}
       /\ index <= job[c].count /\ (index = job[c].count <=> pc[c] = "unlock")
       /\ pc[c] \in {"erase", "unlock"} => sub = 0
       /\ pc[c] = "program" => sub > 0
       /\ pc[c] = "wrdi" => sub = Pages
  /\ reply # <<>> => job[c].kind = "read" /\ pc[c] = "unlock"

(* A call that does not write leaves the disk as it was.  One that writes has
   written the sectors before its index whole, and of the one at its index the pages
   up to sub. *)
PageDone(c, p) == p < sub \/ (p = sub /\ pc[c] \notin {"wren", "program"})
Progress(c) ==
  IF job[c].kind # "write" THEN Content = before /\ work = {}
  ELSE /\ \A s \in Sectors \cap Span(job[c].first, index), p \in 1 .. Pages :
            page[s][p] = {job[c].data}
       /\ \A s \in Sectors \ Span(job[c].first, index) :
            s # Sector(c) \/ Untouched(c) => Content[s] = before[s]
       /\ ~Untouched(c) => \A p \in 1 .. Pages :
            page[Sector(c)][p] = IF PageDone(c, p) THEN {job[c].data} ELSE {}
       /\ \A a \in work : a[1] = Sector(c)

Writing == \A c \in Callers : owner = c => CallShape(c) /\ Progress(c)
FlashInv ==
  /\ FlashTypes /\ LockHeld /\ ChipReady /\ Writing
  /\ owner = None => reply = <<>> /\ index = 0 /\ sub = 0
  /\ Sectors = {} \/ Data # {}
------------------------------------------------------------------------------
(* What the sectors hold. *)

ContentSound ==
  page \in [Sectors -> [1 .. Pages -> SUBSET (Data \cup {Garbage})]] =>
    /\ Content \in [Sectors -> Data \cup {Lost}]
    /\ \A s \in Sectors, d \in Data :
         (\A p \in 1 .. Pages : page[s][p] = {d}) => Content[s] = d
    /\ \A s \in Sectors : ~Whole(s) => Content[s] = Lost

LEMMA ContentFacts == ContentSound
<1>1. 1 \in 1 .. Pages
  BY FlashAssumption DEF FlashAssumption
<1>2. ASSUME NEW s \in Sectors, NEW d \in Data, \A p \in 1 .. Pages : page[s][p] = {d}
      PROVE  Content[s] = d
  <2>1. Whole(s) /\ page[s][1] = {d}
    BY <1>1, <1>2 DEF Whole
  <2>2. page[s][1] = {CHOOSE e \in Data : page[s][1] = {e}}
    BY <2>1
  <2>3. Content[s] = CHOOSE e \in Data : page[s][1] = {e}
    BY <2>1 DEF Content
  <2>4. QED
    BY <2>1, <2>2, <2>3
<1>3. ASSUME NEW s \in Sectors, ~Whole(s) PROVE Content[s] = Lost
  BY <1>3 DEF Content
<1>4. ASSUME NEW s \in Sectors PROVE Content[s] \in Data \cup {Lost}
  <2>1. CASE Whole(s)
    BY <1>2, <2>1 DEF Whole
  <2>2. CASE ~Whole(s)
    BY <1>3, <2>2
  <2>3. QED
    BY <2>1, <2>2
<1>5. Content \in [Sectors -> Data \cup {Lost}]
  <2> DEFINE f(s) == IF Whole(s) THEN CHOOSE d \in Data : page[s][1] = {d} ELSE Lost
  <2>1. Content = [s \in Sectors |-> f(s)]
    BY DEF Content
  <2>2. \A s \in Sectors : f(s) \in Data \cup {Lost}
    BY <1>4, <2>1
  <2> HIDE DEF f
  <2>3. QED
    BY <2>1, <2>2
<1>6. QED
  BY <1>2, <1>3, <1>5 DEF ContentSound

LEMMA ContentNext == ContentSound'
  BY ContentFacts, PTL

(* A sector whose pages are left alone holds what it held. *)
LEMMA SameContent ==
  ASSUME FlashTypes, FlashTypes', NEW s \in Sectors, page'[s] = page[s]
  PROVE  Content'[s] = Content[s]
<1> USE DEF FlashTypes
<1>1. CASE Whole(s)
  <2>1. PICK d \in Data : \A p \in 1 .. Pages : page[s][p] = {d}
    BY <1>1 DEF Whole
  <2>2. Content[s] = d
    BY <2>1, ContentFacts DEF ContentSound
  <2>3. Content'[s] = d
    BY <2>1, ContentNext, SMTT(30) DEF ContentSound
  <2>4. QED
    BY <2>2, <2>3
<1>2. CASE ~Whole(s)
  <2>1. ~Whole(s)'
    BY <1>2 DEF Whole
  <2>2. Content[s] = Lost /\ Content'[s] = Lost
    BY <1>2, <2>1, ContentFacts, ContentNext DEF ContentSound
  <2>3. QED
    BY <2>2
<1>3. QED
  BY <1>1, <1>2

(* The parts of a call. *)
LEMMA CallParts ==
  ASSUME NEW call \in Calls
  PROVE  /\ call.kind \in {"open", "read", "write"}
         /\ call.kind # "open" =>
              /\ call.first \in Sectors /\ call.first \in Int /\ call.count \in 1 .. 2
              /\ Span(call.first, call.count) \subseteq Sectors
              /\ \A i \in 0 .. call.count - 1 : call.first + i \in Sectors
         /\ call.kind = "write" => call.data \in Data
<1>1. CASE call \in [kind : {"open"}]
  BY <1>1
<1>2. CASE /\ call \in [kind : {"read"}, first : Sectors, count : 1 .. 2]
                       \cup [kind : {"write"}, first : Sectors, count : 1 .. 2, data : Data]
           /\ Span(call.first, call.count) \subseteq Sectors
  <2>1. call.kind \in {"read", "write"} /\ (call.kind = "write" => call.data \in Data)
    BY <1>2
  <2>2. call.first \in Sectors /\ call.first \in Int /\ call.count \in 1 .. 2
    BY <1>2, FlashAssumption DEF FlashAssumption
  <2>3. ASSUME NEW i \in 0 .. call.count - 1 PROVE call.first + i \in Sectors
    <3>1. call.first + i \in call.first .. call.first + call.count - 1
      BY <2>2
    <3>2. QED
      BY <1>2, <3>1 DEF Span
  <2>4. QED
    BY <1>2, <2>1, <2>2, <2>3
<1>3. QED
  BY <1>1, <1>2 DEF Calls
------------------------------------------------------------------------------
(* The step of a caller inside its call, and what it asks of the chip. *)

Inside(c) ==
  \/ ReadDisable(c) \/ Read(c) \/ Enable(c) \/ Status(c) \/ Erase(c) \/ Program(c)
  \/ Wait(c) \/ WriteDisable(c) \/ Leave(c)

LEMMA Alone ==
  ASSUME FlashInv, NEW c \in Callers, pc[c] \notin Outside
  PROVE  /\ owner = c /\ owner # None /\ CallShape(c) /\ Progress(c)
         /\ device = "registered"
         /\ \A d \in Callers \ {c} : pc[d] \in Outside
  BY FlashAssumption DEF FlashAssumption, FlashInv, LockHeld, Writing, Outside

LEMMA InsideOwns ==
  ASSUME FlashInv, NEW c \in Callers, Inside(c)
  PROVE  pc[c] \notin Outside
  BY DEF Inside, Outside, ReadDisable, Read, Enable, Status, Erase, Program, Wait, WriteDisable, Leave

LEMMA CellType ==
  ASSUME FlashTypes, NEW s \in Sectors, NEW p \in 1 .. Pages
  PROVE  page[s][p] \in SUBSET (Data \cup {Garbage})
<1>1. page[s] \in [1 .. Pages -> SUBSET (Data \cup {Garbage})]
  BY DEF FlashTypes
<1>2. QED
  BY <1>1

Worked(at, kept, added) ==
  /\ busy' = TRUE /\ work' = at /\ wel' = wel
  /\ \A s \in Sectors, p \in 1 .. Pages :
       page'[s][p] = IF <<s, p>> \in at THEN (page[s][p] \cap kept) \cup added ELSE page[s][p]
  /\ page' \in [Sectors -> [1 .. Pages -> SUBSET (Data \cup {Garbage})]]

LEMMA ChipTakes ==
  ASSUME FlashTypes, ~busy, wel, NEW at \in SUBSET (Sectors \X (1 .. Pages)),
         NEW kept, NEW added \in SUBSET (Data \cup {Garbage}), ChipWorks(at, kept, added)
  PROVE  Worked(at, kept, added)
<1> DEFINE cell(s, p) == IF <<s, p>> \in at THEN (page[s][p] \cap kept) \cup added ELSE page[s][p]
<1>1. busy' = TRUE /\ work' = at /\ wel' = wel
  BY DEF ChipWorks
<1>2. page' = [s \in Sectors |-> [p \in 1 .. Pages |-> cell(s, p)]]
  BY DEF ChipWorks
<1>3. ASSUME NEW s \in Sectors, NEW p \in 1 .. Pages
      PROVE  cell(s, p) \in SUBSET (Data \cup {Garbage})
  <2>1. page[s][p] \in SUBSET (Data \cup {Garbage})
    BY CellType
  <2>2. QED
    BY <2>1
<1>4. \A s \in Sectors, p \in 1 .. Pages : page'[s][p] = cell(s, p)
  <2> HIDE DEF cell
  <2>1. QED
    BY <1>2
<1>5. page' \in [Sectors -> [1 .. Pages -> SUBSET (Data \cup {Garbage})]]
  <2> HIDE DEF cell
  <2>1. QED
    BY <1>2, <1>3
<1>6. QED
  BY <1>1, <1>4, <1>5 DEF Worked

LEMMA SameRow ==
  ASSUME FlashTypes, page' \in [Sectors -> [1 .. Pages -> SUBSET (Data \cup {Garbage})]],
         NEW s \in Sectors, \A p \in 1 .. Pages : page'[s][p] = page[s][p]
  PROVE  page'[s] = page[s]
<1>1. page[s] \in [1 .. Pages -> SUBSET (Data \cup {Garbage})]
  BY DEF FlashTypes
<1>2. page'[s] \in [1 .. Pages -> SUBSET (Data \cup {Garbage})]
  OBVIOUS
<1>3. page[s] = [p \in 1 .. Pages |-> page[s][p]] /\ page'[s] = [p \in 1 .. Pages |-> page'[s][p]]
  BY <1>1, <1>2
<1>4. QED
  BY <1>3

(* An action of the chip or of a fault changes no page but those in work. *)
LEMMA Spoilt ==
  ASSUME FlashTypes, PowerLoss
  PROVE  /\ page' \in [Sectors -> [1 .. Pages -> SUBSET (Data \cup {Garbage})]]
         /\ \A s \in Sectors : (\A a \in work : a[1] # s) => page'[s] = page[s]
         /\ \A s \in Sectors, p \in 1 .. Pages :
              page'[s][p] = IF <<s, p>> \in work THEN page[s][p] \cup {Garbage} ELSE page[s][p]
<1> DEFINE cell(s, p) == IF <<s, p>> \in work THEN page[s][p] \cup {Garbage} ELSE page[s][p]
<1>1. page' = [s \in Sectors |-> [p \in 1 .. Pages |-> cell(s, p)]]
  BY DEF PowerLoss
<1>2. ASSUME NEW s \in Sectors, NEW p \in 1 .. Pages
      PROVE  cell(s, p) \in SUBSET (Data \cup {Garbage})
  <2>1. page[s][p] \in SUBSET (Data \cup {Garbage})
    BY CellType
  <2>2. QED
    BY <2>1
<1>3. ASSUME NEW s \in Sectors, \A a \in work : a[1] # s PROVE page'[s] = page[s]
  <2>1. \A p \in 1 .. Pages : cell(s, p) = page[s][p]
    BY <1>3
  <2>2. page'[s] = [p \in 1 .. Pages |-> page[s][p]]
    BY <1>1, <2>1
  <2>3. page[s] = [p \in 1 .. Pages |-> page[s][p]]
    BY DEF FlashTypes
  <2>4. QED
    BY <2>2, <2>3
<1>4. /\ page' \in [Sectors -> [1 .. Pages -> SUBSET (Data \cup {Garbage})]]
      /\ \A s \in Sectors, p \in 1 .. Pages : page'[s][p] = cell(s, p)
  <2> HIDE DEF cell
  <2>1. QED
    BY <1>1, <1>2
<1>5. QED
  BY <1>3, <1>4

(* The chip has its latch and is idle when a caller sets it to work. *)
LEMMA MayWork ==
  ASSUME FlashInv, NEW c \in Callers, pc[c] \in {"wrsr", "erase", "program"}
  PROVE  /\ ~busy /\ wel
         /\ job[c].kind # "read"
         /\ pc[c] # "wrsr" => job[c].kind = "write" /\ Sector(c) \in Sectors /\ job[c].data \in Data
<1>1. pc[c] \notin Outside \cup {"wait"}
  BY DEF Outside
<1>2. ~busy /\ wel
  BY <1>1 DEF FlashInv, ChipReady
<1>3. CallShape(c) /\ job[c] \in Calls /\ index \in 0 .. 2
  BY <1>1, Alone DEF FlashInv, FlashTypes
<1>4. job[c].kind \in {"open", "read", "write"} /\ job[c].kind # "read"
  BY <1>3, CallParts DEF CallShape
<1>5. ASSUME pc[c] # "wrsr"
      PROVE  job[c].kind = "write" /\ Sector(c) \in Sectors /\ job[c].data \in Data
  <2>1. job[c].kind = "write"
    BY <1>3, <1>4, <1>5 DEF CallShape
  <2>2. index \in 0 .. job[c].count - 1
    BY <1>3, <2>1, CallParts DEF CallShape
  <2>3. QED
    BY <1>3, <2>1, <2>2, CallParts DEF Sector
<1>6. QED
  BY <1>2, <1>4, <1>5

LEMMA StatusWorks ==
  ASSUME FlashInv, NEW c \in Callers, Status(c)
  PROVE  busy' = TRUE /\ work' = {} /\ wel' = wel /\ page' = page
<1>1. ~busy /\ wel /\ ChipWorks({}, {}, {}) /\ FlashTypes
  BY MayWork DEF Status, FlashInv
<1>2. Worked({}, {}, {})
  BY <1>1, ChipTakes
<1>3. \A s \in Sectors, p \in 1 .. Pages : page'[s][p] = page[s][p]
  BY <1>2 DEF Worked
<1>4. \A s \in Sectors : page'[s] = page[s]
  BY <1>1, <1>2, <1>3, SameRow DEF Worked
<1>5. page = [s \in Sectors |-> page[s]] /\ page' = [s \in Sectors |-> page'[s]]
  BY <1>1, <1>2 DEF FlashTypes, Worked
<1>6. QED
  BY <1>2, <1>4, <1>5 DEF Worked

LEMMA SectorWorks ==
  ASSUME FlashInv, NEW c \in Callers, Erase(c) \/ Program(c)
  PROVE  /\ busy' = TRUE /\ wel' = wel /\ work' \subseteq {Sector(c)} \X (1 .. Pages)
         /\ page' \in [Sectors -> [1 .. Pages -> SUBSET (Data \cup {Garbage})]]
         /\ \A s \in Sectors \ {Sector(c)} : page'[s] = page[s]
         /\ Erase(c) => \A p \in 1 .. Pages : page'[Sector(c)][p] = {}
         /\ Program(c) => \A p \in 1 .. Pages :
              page'[Sector(c)][p] = IF p = sub THEN page[Sector(c)][p] \cup {job[c].data}
                                    ELSE page[Sector(c)][p]
<1> DEFINE Contents == Data \cup {Garbage}
<1>1. /\ ~busy /\ wel /\ FlashTypes /\ Sector(c) \in Sectors /\ job[c].data \in Data
      /\ page \in [Sectors -> [1 .. Pages -> SUBSET Contents]] /\ sub \in 0 .. Pages
  <2>1. pc[c] \in {"erase", "program"}
    BY DEF Erase, Program
  <2>2. QED
    BY <2>1, MayWork DEF FlashInv, FlashTypes
<1>2. CASE Erase(c)
  <2>1. {Sector(c)} \X (1 .. Pages) \in SUBSET (Sectors \X (1 .. Pages))
    BY <1>1
  <2>2. Worked({Sector(c)} \X (1 .. Pages), {}, {})
    BY <1>1, <1>2, <2>1, ChipTakes DEF Erase
  <2>3. \A s \in Sectors \ {Sector(c)} : \A p \in 1 .. Pages : page'[s][p] = page[s][p]
    BY <2>2 DEF Worked
  <2>4. \A s \in Sectors \ {Sector(c)} : page'[s] = page[s]
    BY <1>1, <2>2, <2>3, SameRow DEF Worked
  <2>5. \A p \in 1 .. Pages : page'[Sector(c)][p] = {}
    BY <1>1, <2>2 DEF Worked
  <2>6. ~Program(c)
    BY <1>2 DEF Erase, Program
  <2>7. QED
    BY <2>2, <2>4, <2>5, <2>6 DEF Worked
<1>3. CASE Program(c)
  <2>1. sub \in 1 .. Pages
    <3>1. pc[c] = "program" /\ job[c].kind = "write" /\ CallShape(c)
      BY <1>3, MayWork, Alone DEF Program, Outside
    <3>2. QED
      BY <1>1, <3>1 DEF CallShape
  <2>2. {<<Sector(c), sub>>} \in SUBSET (Sectors \X (1 .. Pages)) /\ {job[c].data} \subseteq Contents
    BY <1>1, <2>1
  <2>3. Worked({<<Sector(c), sub>>}, Contents, {job[c].data})
    BY <1>1, <1>3, <2>2, ChipTakes DEF Program
  <2>4. \A s \in Sectors \ {Sector(c)} : \A p \in 1 .. Pages : page'[s][p] = page[s][p]
    BY <2>3 DEF Worked
  <2>5. \A s \in Sectors \ {Sector(c)} : page'[s] = page[s]
    BY <1>1, <2>3, <2>4, SameRow DEF Worked
  <2>6. \A p \in 1 .. Pages : page[Sector(c)][p] \cap Contents = page[Sector(c)][p]
    BY <1>1, CellType
  <2>7. \A p \in 1 .. Pages :
          page'[Sector(c)][p] = IF p = sub THEN page[Sector(c)][p] \cup {job[c].data}
                                ELSE page[Sector(c)][p]
    BY <1>1, <2>3, <2>6 DEF Worked
  <2>8. ~Erase(c)
    BY <1>3 DEF Erase, Program
  <2>9. busy' = TRUE /\ wel' = wel /\ work' \subseteq {Sector(c)} \X (1 .. Pages)
    BY <2>1, <2>3 DEF Worked
  <2>10. page' \in [Sectors -> [1 .. Pages -> SUBSET Contents]]
    BY <2>3 DEF Worked
  <2>11. QED
    BY <2>5, <2>7, <2>8, <2>9, <2>10
<1>4. QED
  BY <1>2, <1>3
------------------------------------------------------------------------------
(* The invariant, part by part. *)

LEMMA PageTyped ==
  FlashInv /\ [Next]_vars => page' \in [Sectors -> [1 .. Pages -> SUBSET (Data \cup {Garbage})]]
<1> SUFFICES ASSUME FlashInv, [Next]_vars
             PROVE  page' \in [Sectors -> [1 .. Pages -> SUBSET (Data \cup {Garbage})]]
  OBVIOUS
<1>1. FlashTypes /\ page \in [Sectors -> [1 .. Pages -> SUBSET (Data \cup {Garbage})]]
  BY DEF FlashInv, FlashTypes
<1>2. CASE ChipDone \/ Probe \/ Reset \/ UNCHANGED vars
  BY <1>1, <1>2 DEF ChipDone, Probe, Reset, Latch, vars, chip
<1>3. CASE PowerLoss
  BY <1>1, <1>3, Spoilt
<1>4. ASSUME NEW c \in Callers, Step(c)
      PROVE  page' \in [Sectors -> [1 .. Pages -> SUBSET (Data \cup {Garbage})]]
  <2>1. CASE Status(c)
    BY <1>1, <2>1, StatusWorks
  <2>2. CASE Erase(c) \/ Program(c)
    BY <2>2, SectorWorks
  <2>3. CASE ~Status(c) /\ ~Erase(c) /\ ~Program(c)
    BY <1>1, <1>4, <2>3 DEF Step, Call, Enter, ReadDisable, Read, Enable, Wait, WriteDisable, Leave,
      Latch, chip
  <2>4. QED
    BY <2>1, <2>2, <2>3
<1>5. QED
  BY <1>2, <1>3, <1>4 DEF Next

LEMMA WorkTyped ==
  FlashInv /\ [Next]_vars =>
    wel' \in BOOLEAN /\ busy' \in BOOLEAN /\ work' \subseteq Sectors \X (1 .. Pages)
<1> SUFFICES ASSUME FlashInv, [Next]_vars
             PROVE  wel' \in BOOLEAN /\ busy' \in BOOLEAN /\ work' \subseteq Sectors \X (1 .. Pages)
  OBVIOUS
<1>1. wel \in BOOLEAN /\ busy \in BOOLEAN /\ work \subseteq Sectors \X (1 .. Pages)
  BY DEF FlashInv, FlashTypes
<1>2. CASE ChipDone \/ Probe \/ Reset \/ PowerLoss \/ UNCHANGED vars
  BY <1>1, <1>2 DEF ChipDone, Probe, Reset, PowerLoss, Latch, vars, chip
<1>3. ASSUME NEW c \in Callers, Step(c)
      PROVE  wel' \in BOOLEAN /\ busy' \in BOOLEAN /\ work' \subseteq Sectors \X (1 .. Pages)
  <2>1. CASE Status(c)
    BY <1>1, <2>1, StatusWorks
  <2>2. CASE Erase(c) \/ Program(c)
    <3>1. Sector(c) \in Sectors
      BY <2>2, MayWork DEF Erase, Program
    <3>2. QED
      BY <1>1, <2>2, <3>1, SectorWorks
  <2>3. CASE ~Status(c) /\ ~Erase(c) /\ ~Program(c)
    BY <1>1, <1>3, <2>3 DEF Step, Call, Enter, ReadDisable, Read, Enable, Wait, WriteDisable, Leave,
      Latch, chip
  <2>4. QED
    BY <2>1, <2>2, <2>3
<1>4. QED
  BY <1>2, <1>3 DEF Next

LEMMA ControlTyped ==
  FlashInv /\ [Next]_vars =>
    /\ device' \in {"boot", "registered", "missing"} /\ owner' \in Callers \cup {None}
    /\ pc' \in [Callers -> Positions] /\ job' \in [Callers -> Calls]
<1> SUFFICES ASSUME FlashInv, [Next]_vars
             PROVE  /\ device' \in {"boot", "registered", "missing"} /\ owner' \in Callers \cup {None}
                    /\ pc' \in [Callers -> Positions] /\ job' \in [Callers -> Calls]
  OBVIOUS
<1>1. /\ device \in {"boot", "registered", "missing"} /\ owner \in Callers \cup {None}
      /\ pc \in [Callers -> Positions] /\ job \in [Callers -> Calls]
  BY DEF FlashInv, FlashTypes
<1>2. [kind |-> "open"] \in Calls
  BY DEF Calls
<1>3. CASE ChipDone \/ Probe \/ UNCHANGED vars
  BY <1>1, <1>3 DEF ChipDone, Probe, vars
<1>4. CASE Restart
  BY <1>2, <1>4 DEF Restart, Positions
<1>5. ASSUME NEW c \in Callers, Step(c)
      PROVE  /\ device' \in {"boot", "registered", "missing"} /\ owner' \in Callers \cup {None}
             /\ pc' \in [Callers -> Positions] /\ job' \in [Callers -> Calls]
  <2>1. CASE Call(c)
    BY <1>1, <2>1 DEF Call, Go, Positions
  <2>2. CASE Leave(c)
    BY <1>1, <1>2, <2>2 DEF Leave, Go, Unlock, Positions
  <2>3. CASE ~Call(c) /\ ~Leave(c)
    <3>1. device' = device /\ job' = job /\ owner' \in {owner, c}
      BY <1>5, <2>3 DEF Step, Enter, ReadDisable, Read, Enable, Status, Erase, Program, Wait, WriteDisable
    <3>2. \E to \in Positions : Go(c, to)
      BY <1>5, <2>3 DEF Step, Enter, ReadDisable, Read, Enable, Status, Erase, Program, Wait, WriteDisable, Positions
    <3>3. QED
      BY <1>1, <3>1, <3>2 DEF Go
  <2>4. QED
    BY <2>1, <2>2, <2>3
<1>6. QED
  BY <1>3, <1>4, <1>5 DEF Next, Reset, PowerLoss

LEMMA LoopTyped ==
  FlashInv /\ [Next]_vars =>
    /\ index' \in 0 .. 2 /\ sub' \in 0 .. Pages
    /\ owner' # None => before' \in [Sectors -> Data \cup {Lost}]
<1> SUFFICES ASSUME FlashInv, [Next]_vars
             PROVE  /\ index' \in 0 .. 2 /\ sub' \in 0 .. Pages
                    /\ owner' # None => before' \in [Sectors -> Data \cup {Lost}]
  OBVIOUS
<1>1. /\ index \in 0 .. 2 /\ sub \in 0 .. Pages /\ Pages \in Nat \ {0}
      /\ owner # None => before \in [Sectors -> Data \cup {Lost}]
  BY FlashAssumption DEF FlashAssumption, FlashInv, FlashTypes
<1>2. CASE ChipDone \/ Probe \/ UNCHANGED vars
  BY <1>1, <1>2 DEF ChipDone, Probe, vars, loop, seen
<1>3. CASE Restart
  BY <1>1, <1>3 DEF Restart
<1>4. ASSUME NEW c \in Callers, Step(c)
      PROVE  /\ index' \in 0 .. 2 /\ sub' \in 0 .. Pages
             /\ owner' # None => before' \in [Sectors -> Data \cup {Lost}]
  <2>1. CASE Enter(c)
    BY <1>1, <2>1, ContentFacts DEF Enter, loop, ContentSound, FlashInv, FlashTypes
  <2>2. CASE WriteDisable(c)
    <3>1. CallShape(c) /\ job[c].kind = "write" /\ pc[c] = "wrdi" /\ job[c] \in Calls
      BY <2>2, Alone DEF WriteDisable, Outside, FlashInv, FlashTypes
    <3>2. job[c].count \in 1 .. 2
      BY <3>1, CallParts
    <3>3. index < job[c].count
      BY <1>1, <3>1, <3>2 DEF CallShape
    <3>4. QED
      BY <1>1, <2>2, <3>2, <3>3 DEF WriteDisable, seen
  <2>3. CASE Wait(c) \/ Leave(c)
    BY <1>1, <2>3 DEF Wait, Leave, LastPage, Unlock, seen
  <2>4. CASE ~Enter(c) /\ ~WriteDisable(c) /\ ~Wait(c) /\ ~Leave(c)
    BY <1>1, <1>4, <2>4 DEF Step, Call, ReadDisable, Read, Enable, Status, Erase, Program, loop, seen
  <2>5. QED
    BY <2>1, <2>2, <2>3, <2>4
<1>5. QED
  BY <1>2, <1>3, <1>4 DEF Next, Reset, PowerLoss

LEMMA TypesStep == FlashInv /\ [Next]_vars => FlashTypes'
  BY PageTyped, WorkTyped, ControlTyped, LoopTyped DEF FlashTypes

LEMMA LockStep == FlashInv /\ [Next]_vars => LockHeld'
<1> SUFFICES ASSUME FlashInv, [Next]_vars PROVE LockHeld'
  OBVIOUS
<1>1. /\ LockHeld /\ pc \in [Callers -> Positions] /\ None \notin Callers
  BY FlashAssumption DEF FlashAssumption, FlashInv, FlashTypes
<1>2. CASE ChipDone \/ Probe \/ UNCHANGED vars
  BY <1>1, <1>2 DEF ChipDone, Probe, vars, LockHeld
<1>3. CASE Restart
  BY <1>1, <1>3 DEF Restart, LockHeld, Outside
<1>4. ASSUME NEW c \in Callers, Step(c) PROVE LockHeld'
  <2>1. CASE Call(c)
    BY <1>1, <2>1 DEF Call, Go, LockHeld, Outside
  <2>2. CASE Enter(c)
    BY <1>1, <2>2 DEF Enter, Lock, Go, LockHeld, Outside
  <2>3. CASE Leave(c)
    BY <1>1, <2>3 DEF Leave, Unlock, Go, LockHeld, Outside
  <2>4. CASE Inside(c) /\ ~Leave(c)
    <3>1. owner = c /\ device = "registered" /\ pc[c] \notin Outside
      BY <2>4, InsideOwns, Alone
    <3>2. owner' = owner /\ device' = device /\ \E to : to \notin Outside /\ Go(c, to)
      BY <2>4 DEF Inside, ReadDisable, Read, Enable, Status, Erase, Program, Wait, WriteDisable, Outside
    <3>3. QED
      BY <1>1, <3>1, <3>2 DEF Go, LockHeld
  <2>5. QED
    BY <1>4, <2>1, <2>2, <2>3, <2>4 DEF Step, Inside
<1>5. QED
  BY <1>2, <1>3, <1>4 DEF Next, Reset, PowerLoss

LEMMA ReadyStep == FlashInv /\ [Next]_vars => ChipReady'
<1> SUFFICES ASSUME FlashInv, [Next]_vars PROVE ChipReady'
  OBVIOUS
<1>1. /\ ChipReady /\ LockHeld /\ pc \in [Callers -> Positions] /\ None \notin Callers
      /\ owner \in Callers \cup {None} /\ wel \in BOOLEAN /\ busy \in BOOLEAN
  BY FlashAssumption DEF FlashAssumption, FlashInv, FlashTypes
<1>2. CASE ChipDone
  BY <1>1, <1>2 DEF ChipDone, ChipReady, Outside
<1>3. CASE Probe
  BY <1>1, <1>3 DEF Probe, Latch, ChipReady, LockHeld, Outside
<1>4. CASE UNCHANGED vars
  BY <1>1, <1>4 DEF vars, chip, ChipReady
<1>5. CASE Reset \/ PowerLoss
  BY <1>1, <1>5 DEF Reset, PowerLoss, Restart, chip, ChipReady, Outside
<1>6. ASSUME NEW c \in Callers, Step(c) PROVE ChipReady'
  <2>1. CASE Call(c)
    BY <1>1, <2>1 DEF Call, Go, chip, ChipReady, Outside
  <2>2. CASE Enter(c)
    <3>1. device = "registered" /\ owner = None /\ ~busy
      BY <1>1, <2>2 DEF Enter, Lock, LockHeld, ChipReady
    <3>2. pc' \in [Callers -> Positions] /\ \A d \in Callers : pc'[d] \notin {"wrsr", "erase", "program"}
      <4>1. \A d \in Callers : pc[d] \in Outside
        BY <1>1, <3>1 DEF LockHeld
      <4>2. QED
        BY <1>1, <2>2, <4>1 DEF Enter, Go, Outside, Positions
    <3>3. QED
      BY <1>1, <2>2, <3>1, <3>2 DEF Enter, chip, ChipReady
  <2>3. CASE Inside(c)
    <3>1. /\ owner = c /\ pc[c] \notin Outside /\ \A d \in Callers \ {c} : pc[d] \in Outside
      BY <2>3, InsideOwns, Alone
    <3>2. ASSUME Erase(c) \/ Program(c) \/ Status(c) PROVE ChipReady'
      <4>1. busy' = TRUE /\ wel' = wel /\ work' \subseteq {Sector(c)} \X (1 .. Pages)
        BY <3>2, StatusWorks, SectorWorks
      <4>2. \A a \in work' : a[1] = Sector(c)
        BY <4>1
      <4>3. owner' # None /\ \A d \in Callers : pc'[d] \in Outside \cup {"wait"}
        BY <1>1, <3>1, <3>2 DEF Erase, Program, Status, Go
      <4>4. QED
        BY <4>1, <4>2, <4>3 DEF ChipReady, Outside
    <3>3. ASSUME ~Erase(c), ~Program(c), ~Status(c) PROVE ChipReady'
      <4>1. ~busy
        BY <1>1, <2>3, <3>1, <3>3 DEF Inside, Wait, Ready, ReadDisable, Read, Enable, WriteDisable, Leave,
          ChipReady, Outside
      <4>2. ~busy' /\ work' = work
        <5>1. UNCHANGED <<busy, work>>
          BY <2>3, <3>3 DEF Inside, Wait, ReadDisable, Read, Enable, WriteDisable, Leave, Latch, chip
        <5>2. QED
          BY <4>1, <5>1
      <4>3. pc'[c] \in {"wrsr", "erase", "program"} => wel'
        BY <1>1, <2>3, <3>3, <4>1 DEF Inside, Wait, ReadDisable, Read, Enable, WriteDisable, Leave, Latch, Go
      <4>4. \A d \in Callers \ {c} : pc'[d] = pc[d]
        BY <1>1, <2>3, <3>3 DEF Inside, Wait, ReadDisable, Read, Enable, WriteDisable, Leave, Go
      <4>5. QED
        BY <1>1, <3>1, <4>1, <4>2, <4>3, <4>4 DEF ChipReady, Outside
    <3>4. QED
      BY <3>2, <3>3
  <2>4. QED
    BY <1>6, <2>1, <2>2, <2>3 DEF Step, Inside
<1>7. QED
  BY <1>2, <1>3, <1>4, <1>5, <1>6 DEF Next

LEMMA IdleStep == FlashInv /\ [Next]_vars => (owner' = None => reply' = <<>> /\ index' = 0 /\ sub' = 0)
<1> SUFFICES ASSUME FlashInv, [Next]_vars, owner' = None
             PROVE  reply' = <<>> /\ index' = 0 /\ sub' = 0
  OBVIOUS
<1>1. /\ owner = None => reply = <<>> /\ index = 0 /\ sub = 0
      /\ None \notin Callers
  BY FlashAssumption DEF FlashAssumption, FlashInv
<1>2. CASE ChipDone \/ Probe \/ UNCHANGED vars
  BY <1>1, <1>2 DEF ChipDone, Probe, vars, loop, seen
<1>3. CASE Restart
  BY <1>3 DEF Restart
<1>4. ASSUME NEW c \in Callers, Step(c) PROVE reply' = <<>> /\ index' = 0 /\ sub' = 0
  <2>1. CASE Call(c) \/ Enter(c) \/ Leave(c)
    BY <1>1, <2>1 DEF Call, Enter, Leave, loop, seen
  <2>2. CASE Inside(c) /\ ~Leave(c)
    <3>1. owner = c
      BY <2>2, InsideOwns, Alone
    <3>2. owner' = owner
      BY <2>2 DEF Inside, ReadDisable, Read, Enable, Status, Erase, Program, Wait, WriteDisable
    <3>3. QED
      BY <1>1, <3>1, <3>2
  <2>3. QED
    BY <1>4, <2>1, <2>2 DEF Step, Inside
<1>5. QED
  BY <1>2, <1>3, <1>4 DEF Next, Reset, PowerLoss

LEMMA ShapeStep ==
  ASSUME FlashInv, [Next]_vars, NEW c \in Callers, owner' = c
  PROVE  CallShape(c)'
<1>1. /\ pc \in [Callers -> Positions] /\ job \in [Callers -> Calls] /\ None \notin Callers
      /\ LockHeld /\ index \in 0 .. 2 /\ sub \in 0 .. Pages /\ Pages \in Nat \ {0}
      /\ owner = c => CallShape(c)
  BY FlashAssumption DEF FlashAssumption, FlashInv, FlashTypes, Writing
<1>2. CASE ChipDone \/ Probe \/ UNCHANGED vars
  BY <1>1, <1>2 DEF ChipDone, Probe, vars, loop, seen, CallShape
<1>3. CASE Restart
  BY <1>1, <1>3 DEF Restart
<1>4. ASSUME NEW d \in Callers, Step(d), d # c PROVE CallShape(c)'
  <2>1. owner # d => ~Inside(d)
    BY InsideOwns, Alone
  <2>2. ~Enter(d) /\ ~Leave(d)
    BY <1>1, <1>4 DEF Enter, Leave, Unlock
  <2>3. ~Inside(d)
    <3> SUFFICES ASSUME Inside(d) PROVE FALSE
      OBVIOUS
    <3>1. owner' = owner /\ owner = d
      BY <2>1, <2>2 DEF Inside, ReadDisable, Read, Enable, Status, Erase, Program, Wait, WriteDisable
    <3>2. QED
      BY <1>4, <3>1
  <2>4. Call(d)
    BY <1>4, <2>2, <2>3 DEF Step, Inside
  <2>5. owner = c /\ pc'[c] = pc[c] /\ job'[c] = job[c] /\ UNCHANGED <<index, sub, reply>>
    BY <1>1, <1>4, <2>4 DEF Call, Go, loop, seen
  <2>6. QED
    BY <1>1, <2>5 DEF CallShape
<1>5. ASSUME Step(c) PROVE CallShape(c)'
  <2>1. job[c] \in Calls /\ job[c].kind \in {"open", "read", "write"}
        /\ (job[c].kind = "write" => job[c].count \in 1 .. 2)
    BY <1>1, CallParts
  <2>2. ~Call(c) /\ ~Leave(c)
    BY <1>1 DEF Call, Leave, LockHeld, Outside, Unlock
  <2>3. CASE Enter(c)
    <3>1. index = 0 /\ sub = 0 /\ reply = <<>>
      BY <2>3 DEF Enter, Lock, FlashInv
    <3>2. job'[c] = job[c] /\ UNCHANGED <<index, sub, reply>>
          /\ pc'[c] = IF job[c].kind = "read" THEN "wrdi" ELSE "wren"
      BY <1>1, <2>3 DEF Enter, Go, loop
    <3>3. QED
      BY <2>1, <3>1, <3>2 DEF CallShape
  <2>4. CASE Inside(c)
    <3>1. CallShape(c)
      BY <2>4, InsideOwns, Alone
    <3>2. CASE ReadDisable(c) \/ Read(c)
      BY <1>1, <2>1, <3>1, <3>2 DEF ReadDisable, Read, Go, loop, seen, CallShape
    <3>3. CASE Enable(c)
      BY <1>1, <2>1, <3>1, <3>3 DEF Enable, Go, loop, seen, CallShape
    <3>4. CASE Status(c) \/ Erase(c) \/ Program(c)
      <4>1. pc[c] # "unlock" /\ job'[c] = job[c] /\ UNCHANGED <<index, sub, reply>> /\ pc'[c] = "wait"
            /\ pc[c] \in {"wrsr", "erase", "program"}
        BY <1>1, <3>4 DEF Status, Erase, Program, Go, loop, seen
      <4>2. QED
        BY <2>1, <3>1, <4>1 DEF CallShape
    <3>5. CASE Wait(c)
      BY <1>1, <2>1, <3>1, <3>5 DEF Wait, LastPage, Go, seen, CallShape
    <3>6. CASE WriteDisable(c)
      BY <1>1, <2>1, <3>1, <3>6 DEF WriteDisable, Go, seen, CallShape
    <3>7. QED
      BY <2>2, <2>4, <3>2, <3>3, <3>4, <3>5, <3>6 DEF Inside
  <2>5. QED
    BY <1>5, <2>2, <2>3, <2>4 DEF Step, Inside
<1>6. QED
  BY <1>2, <1>3, <1>4, <1>5 DEF Next, Reset, PowerLoss

(* What holds of a sector does not depend on anything but its pages. *)
LEMMA SameDisk ==
  ASSUME UNCHANGED page PROVE Content' = Content
  BY DEF Content, Whole

LEMMA SpanGrows ==
  ASSUME NEW first \in Int, NEW n \in Nat
  PROVE  Span(first, n + 1) = Span(first, n) \cup {first + n}
  BY DEF Span

LEMMA OwnerProgress ==
  ASSUME FlashInv, [Next]_vars, NEW c \in Callers, Inside(c), ~Leave(c)
  PROVE  Progress(c)'
<1> DEFINE Mine == job[c]
<1>1. /\ FlashTypes /\ FlashTypes' /\ ChipReady /\ Pages \in Nat \ {0} /\ Sectors \subseteq Int
      /\ pc \in [Callers -> Positions] /\ index \in 0 .. 2 /\ sub \in 0 .. Pages
      /\ 1 \in 1 .. Pages
  BY TypesStep, FlashAssumption DEF FlashAssumption, FlashInv, FlashTypes
<1>2. pc[c] \notin Outside /\ CallShape(c) /\ Progress(c) /\ Mine \in Calls
  BY <1>1, InsideOwns, Alone DEF FlashTypes
<1>3. job' = job /\ before' = before
  BY DEF Inside, ReadDisable, Read, Enable, Status, Erase, Program, Wait, WriteDisable, seen
<1>4. \A s \in Sectors : page'[s] = page[s] => Content'[s] = Content[s]
  BY <1>1, SameContent
<1>5. CASE Erase(c)
  <2>1. /\ Mine.kind = "write" /\ Sector(c) \in Sectors /\ pc[c] = "erase" /\ pc'[c] = "wait"
        /\ UNCHANGED <<index, sub>>
    BY <1>1, <1>5, MayWork DEF Erase, Go, loop
  <2>2. sub = 0 /\ Sector(c)' = Sector(c) /\ Sector(c) \notin Span(Mine.first, index)
    BY <1>1, <1>2, <1>3, <2>1, CallParts DEF CallShape, Sector, Span
  <2>3. \A s \in Sectors \ {Sector(c)} : page'[s] = page[s]
    BY <1>5, SectorWorks
  <2>4. \A p \in 1 .. Pages : page'[Sector(c)][p] = {} /\ ~PageDone(c, p)'
    <3>1. \A p \in 1 .. Pages : page'[Sector(c)][p] = {}
      BY <1>5, SectorWorks
    <3>2. \A p \in 1 .. Pages : ~PageDone(c, p)'
      BY <1>1, <2>1, <2>2 DEF PageDone
    <3>3. QED
      BY <3>1, <3>2
  <2>5. \A a \in work' : a[1] = Sector(c)
    BY <1>5, SectorWorks
  <2>6. \A s \in Sectors \cap Span(Mine.first, index), p \in 1 .. Pages : page'[s][p] = {Mine.data}
    BY <1>2, <2>1, <2>2, <2>3 DEF Progress
  <2>7. \A s \in Sectors \ Span(Mine.first, index) : s # Sector(c) => Content'[s] = before[s]
    BY <1>2, <1>4, <2>1, <2>3 DEF Progress
  <2>8. ~Untouched(c)'
    BY <2>1 DEF Untouched
  <2>9. QED
    BY <1>3, <2>1, <2>2, <2>4, <2>5, <2>6, <2>7, <2>8, ZenonT(40) DEF Progress
<1>6. CASE Program(c)
  <2>1. /\ Mine.kind = "write" /\ Sector(c) \in Sectors /\ pc[c] = "program" /\ pc'[c] = "wait"
        /\ UNCHANGED <<index, sub>>
    BY <1>1, <1>6, MayWork DEF Program, Go, loop
  <2>2. sub > 0 /\ Sector(c)' = Sector(c) /\ Sector(c) \notin Span(Mine.first, index)
    BY <1>1, <1>2, <1>3, <2>1, CallParts DEF CallShape, Sector, Span
  <2>3. \A s \in Sectors \ {Sector(c)} : page'[s] = page[s]
    BY <1>6, SectorWorks
  <2>4. ~Untouched(c) /\ ~Untouched(c)'
    BY <2>1, <2>2 DEF Untouched
  <2>5. ASSUME NEW p \in 1 .. Pages
        PROVE  page'[Sector(c)][p] = IF PageDone(c, p)' THEN {Mine.data} ELSE {}
    <3>1. PageDone(c, p) <=> p < sub
      BY <2>1 DEF PageDone
    <3>2. PageDone(c, p)' <=> p < sub \/ p = sub
      BY <2>1 DEF PageDone
    <3>3. page[Sector(c)][p] = IF p < sub THEN {Mine.data} ELSE {}
      BY <1>2, <2>1, <2>4, <3>1 DEF Progress
    <3>4. page'[Sector(c)][p] = IF p = sub THEN page[Sector(c)][p] \cup {Mine.data} ELSE page[Sector(c)][p]
      BY <1>6, SectorWorks
    <3>5. QED
      BY <1>1, <3>2, <3>3, <3>4
  <2>6. \A a \in work' : a[1] = Sector(c)
    BY <1>6, SectorWorks
  <2>7. \A s \in Sectors \cap Span(Mine.first, index), p \in 1 .. Pages : page'[s][p] = {Mine.data}
    BY <1>2, <2>1, <2>2, <2>3 DEF Progress
  <2>8. \A s \in Sectors \ Span(Mine.first, index) : s # Sector(c) => Content'[s] = before[s]
    BY <1>2, <1>4, <2>1, <2>3 DEF Progress
  <2>9. QED
    BY <1>3, <2>1, <2>2, <2>4, <2>5, <2>6, <2>7, <2>8, ZenonT(40) DEF Progress
<1>7. CASE ~Erase(c) /\ ~Program(c)
  <2>1. page' = page /\ work' \in {work, {}}
    BY <1>7, StatusWorks DEF Inside, ReadDisable, Read, Enable, Wait, WriteDisable, Latch, chip
  <2>2. Content' = Content
    BY <2>1, SameDisk
  <2>3. CASE Mine.kind # "write"
    BY <1>2, <1>3, <2>1, <2>2, <2>3 DEF Progress
  <2>4. CASE Enable(c) /\ Mine.kind = "write"
    <3>1. pc[c] = "wren" /\ pc'[c] = (IF sub = 0 THEN "erase" ELSE "program") /\ UNCHANGED <<index, sub>>
      BY <1>1, <2>4 DEF Enable, Go, loop
    <3>2. /\ Sector(c)' = Sector(c) /\ Untouched(c)' = Untouched(c)
          /\ \A p \in 1 .. Pages : ~Untouched(c) => (PageDone(c, p)' <=> PageDone(c, p))
      BY <1>1, <1>3, <3>1 DEF Sector, Untouched, PageDone
    <3>3. QED
      BY <1>2, <1>3, <2>1, <2>2, <2>4, <3>1, <3>2 DEF Progress
  <2>5. CASE Wait(c) /\ Mine.kind = "write"
    <3>1. pc[c] = "wait" /\ UNCHANGED index /\ IF sub = Pages THEN pc'[c] = "wrdi" /\ sub' = sub
                                               ELSE pc'[c] = "wren" /\ sub' = sub + 1
      BY <1>1, <2>5 DEF Wait, LastPage, Go
    <3>2. /\ Sector(c)' = Sector(c) /\ ~Untouched(c) /\ ~Untouched(c)'
          /\ \A p \in 1 .. Pages : PageDone(c, p)' <=> PageDone(c, p)
      BY <1>1, <1>3, <3>1 DEF Sector, Untouched, PageDone
    <3>3. QED
      BY <1>2, <1>3, <2>1, <2>2, <2>5, <3>1, <3>2, ZenonT(40) DEF Progress
  <2>6. CASE WriteDisable(c) /\ Mine.kind = "write"
    <3>1. /\ pc[c] = "wrdi" /\ sub = Pages /\ index' = index + 1 /\ sub' = 0 /\ pc'[c] # "wait"
      BY <1>1, <1>2, <2>6 DEF WriteDisable, Go, CallShape
    <3>2. Mine.first \in Int /\ Sector(c) = Mine.first + index
      BY <1>2, <2>6, CallParts DEF Sector
    <3>3. Span(Mine.first, index') = Span(Mine.first, index) \cup {Sector(c)}
      BY <1>1, <3>1, <3>2, SpanGrows
    <3>4. Untouched(c)' /\ ~Untouched(c) /\ \A p \in 1 .. Pages : PageDone(c, p)
      BY <1>1, <3>1 DEF Untouched, PageDone
    <3>5. work' = {}
      <4>1. ~busy
        BY <1>1, <3>1 DEF ChipReady, Outside
      <4>2. QED
        BY <1>1, <2>1, <4>1 DEF ChipReady
    <3>6. \A s \in Sectors \cap Span(Mine.first, index'), p \in 1 .. Pages : page'[s][p] = {Mine.data}
      BY <1>2, <2>1, <2>6, <3>3, <3>4 DEF Progress
    <3>7. \A s \in Sectors \ Span(Mine.first, index') : Content'[s] = before[s]
      BY <1>2, <2>2, <2>6, <3>3 DEF Progress
    <3>8. QED
      BY <1>3, <2>6, <3>4, <3>5, <3>6, <3>7 DEF Progress
  <2>7. ASSUME Mine.kind = "write" PROVE Enable(c) \/ Wait(c) \/ WriteDisable(c)
    BY <1>2, <1>7, <2>7 DEF Inside, ReadDisable, Read, Status, CallShape
  <2>8. QED
    BY <2>3, <2>4, <2>5, <2>6, <2>7
<1>8. QED
  BY <1>5, <1>6, <1>7

LEMMA ProgressStep ==
  ASSUME FlashInv, [Next]_vars, NEW c \in Callers, owner' = c
  PROVE  Progress(c)'
<1>1. /\ None \notin Callers /\ LockHeld /\ ChipReady /\ pc \in [Callers -> Positions]
      /\ job \in [Callers -> Calls] /\ (owner = c => Progress(c) /\ CallShape(c))
  BY FlashAssumption DEF FlashAssumption, FlashInv, FlashTypes, Writing
<1>2. ASSUME owner = c, page' = page, work' \in {work, {}}, before' = before, job'[c] = job[c],
             pc'[c] = pc[c], UNCHANGED <<index, sub>>
      PROVE  Progress(c)'
  <2>1. Content' = Content
    BY <1>2, SameDisk
  <2>2. /\ Sector(c)' = Sector(c) /\ Untouched(c)' = Untouched(c)
        /\ \A p \in 1 .. Pages : PageDone(c, p)' <=> PageDone(c, p)
    BY <1>2 DEF Sector, Untouched, PageDone
  <2>3. QED
    BY <1>1, <1>2, <2>1, <2>2 DEF Progress
<1>3. CASE ChipDone \/ Probe \/ UNCHANGED vars
  BY <1>2, <1>3 DEF ChipDone, Probe, Latch, vars, loop, seen, chip
<1>4. CASE Restart
  BY <1>1, <1>4 DEF Restart
<1>5. ASSUME NEW d \in Callers, Call(d) PROVE Progress(c)'
  <2>1. owner = c /\ d # c
    BY <1>1, <1>5 DEF Call, LockHeld, Outside
  <2>2. page' = page /\ work' = work /\ before' = before /\ job'[c] = job[c] /\ pc'[c] = pc[c]
        /\ UNCHANGED <<index, sub>>
    BY <1>1, <1>5, <2>1 DEF Call, Go, loop, seen, chip
  <2>3. QED
    BY <1>2, <2>1, <2>2
<1>6. ASSUME NEW d \in Callers, Enter(d) PROVE Progress(c)'
  <2>1. owner = None /\ index = 0 /\ sub = 0 /\ d = c
    BY <1>6 DEF Enter, Lock, FlashInv
  <2>2. work = {}
    BY <1>1, <1>6, <2>1 DEF Enter, LockHeld, ChipReady
  <2>3. /\ page' = page /\ work' = {} /\ before' = Content /\ index' = 0 /\ sub' = 0
        /\ pc'[c] # "wait" /\ job' = job
    BY <1>1, <1>6, <2>1, <2>2 DEF Enter, Go, loop, chip
  <2>4. Content' = before'
    BY <2>3, SameDisk
  <2>5. Sectors \cap Span(job'[c].first, index') = {} \/ job[c].kind # "write"
    <3> SUFFICES ASSUME job[c].kind = "write" PROVE Sectors \cap Span(job'[c].first, index') = {}
      OBVIOUS
    <3>1. job[c].first \in Int
      BY <1>1, CallParts
    <3>2. QED
      BY <2>3, <3>1 DEF Span
  <2>6. Untouched(c)'
    BY <2>3 DEF Untouched
  <2>7. QED
    BY <2>3, <2>4, <2>5, <2>6 DEF Progress
<1>7. ASSUME NEW d \in Callers, Inside(d) PROVE Progress(c)'
  <2>1. owner = d /\ owner # None
    BY <1>7, InsideOwns, Alone
  <2>2. ~Leave(d)
    BY <1>1 DEF Leave, Unlock
  <2>3. d = c
    BY <1>7, <2>1, <2>2 DEF Inside, ReadDisable, Read, Enable, Status, Erase, Program, Wait, WriteDisable
  <2>4. QED
    BY <1>7, <2>2, <2>3, OwnerProgress
<1>8. QED
  BY <1>3, <1>4, <1>5, <1>6, <1>7 DEF Next, Reset, PowerLoss, Step, Inside

LEMMA FlashStep == FlashInv /\ [Next]_vars => FlashInv'
<1> SUFFICES ASSUME FlashInv, [Next]_vars PROVE FlashInv'
  OBVIOUS
<1>1. Writing'
  BY ShapeStep, ProgressStep DEF Writing
<1>2. QED
  BY <1>1, TypesStep, LockStep, ReadyStep, IdleStep DEF FlashInv

LEMMA FlashInit == Init => FlashInv
<1> SUFFICES ASSUME Init PROVE FlashInv
  OBVIOUS
<1>1. page \in [Sectors -> [1 .. Pages -> SUBSET (Data \cup {Garbage})]]
  BY DEF Init
<1>2. [kind |-> "open"] \in Calls /\ Pages \in Nat \ {0} /\ None \notin Callers
  BY FlashAssumption DEF FlashAssumption, Calls
<1>3. FlashTypes
  <2>1. wel \in BOOLEAN /\ busy \in BOOLEAN
    BY DEF Init
  <2>2. pc \in [Callers -> Positions] /\ job \in [Callers -> Calls]
    BY <1>2 DEF Init, Positions
  <2>3. QED
    BY <1>1, <1>2, <2>1, <2>2 DEF Init, FlashTypes
<1>4. LockHeld /\ ChipReady /\ Writing
  BY <1>2 DEF Init, LockHeld, ChipReady, Writing, Outside
<1>5. Sectors = {} \/ Data # {}
  BY DEF Init
<1>6. QED
  BY <1>3, <1>4, <1>5 DEF FlashInv, Init

(* The lock, the chip and the call in progress agree, whatever is reset. *)
THEOREM FlashHolds == Spec => []FlashInv
  BY FlashInit, FlashStep, PTL DEF Spec
------------------------------------------------------------------------------
(* Every step is a step of the block store or changes nothing of it. *)

(* The disk after n sectors of the call of c. *)
Wrote(c, n) ==
  [s \in Sectors |-> IF s \in Span(job[c].first, n) THEN job[c].data ELSE before[s]]

LEMMA StoreInit == Init => Store!Init
<1> SUFFICES ASSUME Init PROVE Store!Init
  OBVIOUS
<1>1. PICK disk \in [Sectors -> Data] :
        page = [s \in Sectors |-> [p \in 1 .. Pages |-> {disk[s]}]]
  BY DEF Init
<1>2. FlashTypes
  BY FlashInit DEF FlashInv
<1>3. \A s \in Sectors : Content[s] \in Data
  <2> SUFFICES ASSUME NEW s \in Sectors PROVE Content[s] \in Data
    OBVIOUS
  <2>1. \A p \in 1 .. Pages : page[s][p] = {disk[s]}
    BY <1>1
  <2>2. QED
    BY <1>2, <2>1, ContentFacts DEF ContentSound, FlashTypes
<1>4. Content \in [Sectors -> Data]
  BY <1>2, <1>3, ContentFacts DEF ContentSound, FlashTypes
<1>5. AtWork = {} /\ Asked = Store!Open /\ ~(device = "registered")
  BY DEF Init, AtWork, Asked, Store!Open
<1>6. QED
  BY <1>4, <1>5 DEF Init, Store!Init, Disk

(* A loss of power spoils the sector in work, if there is one. *)
LEMMA PowerContent ==
  ASSUME FlashInv, FlashTypes', Reset \/ PowerLoss, NEW s \in Sectors
  PROVE  \/ Content'[s] = Content[s] /\ page'[s] = page[s]
         \/ Content'[s] = Lost /\ \E a \in work : a[1] = s
<1>1. FlashTypes /\ work \subseteq Sectors \X (1 .. Pages)
  BY DEF FlashInv, FlashTypes
<1>2. CASE page'[s] = page[s]
  BY <1>1, <1>2, SameContent
<1>3. CASE page'[s] # page[s]
  <2>1. PowerLoss
    BY <1>3 DEF Reset, chip
  <2>2. PICK a \in work : a[1] = s
    BY <1>1, <1>3, <2>1, Spoilt
  <2>3. PICK p \in 1 .. Pages : <<s, p>> \in work
    BY <1>1, <2>2
  <2>4. Garbage \in page'[s][p]
    BY <1>1, <2>1, <2>3, Spoilt
  <2>5. ~Whole(s)'
    BY <2>4, FlashAssumption DEF FlashAssumption, Whole
  <2>6. QED
    BY <2>2, <2>5, ContentNext DEF ContentSound, FlashTypes
<1>4. QED
  BY <1>2, <1>3

(* A reset in the middle of a write: the sectors before the index are new,
   those behind it old, and the one at it old, new or lost. *)
LEMMA TornWrite ==
  ASSUME FlashInv, FlashTypes', Reset \/ PowerLoss,
         NEW c \in Callers, owner = c, job[c].kind = "write", pc[c] # "unlock"
  PROVE  Content' \in {Wrote(c, index), Wrote(c, index + 1),
                       [Wrote(c, index) EXCEPT ![Sector(c)] = Lost]}
<1>1. /\ Progress(c) /\ CallShape(c) /\ job[c] \in Calls /\ index \in 0 .. 2
      /\ FlashTypes /\ Pages \in Nat \ {0} /\ Sectors \subseteq Int
  BY FlashAssumption DEF FlashAssumption, FlashInv, Writing, FlashTypes
<1>2. index \in 0 .. job[c].count - 1 /\ job[c].first \in Int
  BY <1>1, CallParts DEF CallShape
<1>3. Sector(c) = job[c].first + index /\ Sector(c) \in Sectors /\ job[c].data \in Data
  BY <1>1, <1>2, CallParts DEF Sector
<1>4. Span(job[c].first, index + 1) = Span(job[c].first, index) \cup {Sector(c)}
      /\ Sector(c) \notin Span(job[c].first, index)
  BY <1>1, <1>2, <1>3, SpanGrows DEF Span
<1>5. ASSUME NEW s \in Sectors \ {Sector(c)} PROVE Content'[s] = Wrote(c, index)[s]
  <2>1. ~\E a \in work : a[1] = s
    BY <1>1 DEF Progress
  <2>2. Content'[s] = Content[s]
    BY <2>1, PowerContent
  <2>3. CASE s \in Span(job[c].first, index)
    <3>1. \A p \in 1 .. Pages : page[s][p] = {job[c].data}
      BY <1>1, <2>3 DEF Progress
    <3>2. Content[s] = job[c].data
      BY <1>1, <1>3, <3>1, ContentFacts DEF ContentSound, FlashTypes
    <3>3. QED
      BY <2>2, <2>3, <3>2 DEF Wrote
  <2>4. CASE s \notin Span(job[c].first, index)
    <3>1. Content[s] = before[s]
      BY <1>1, <2>4 DEF Progress
    <3>2. QED
      BY <2>2, <2>4, <3>1 DEF Wrote
  <2>5. QED
    BY <2>3, <2>4
<1>6. Content'[Sector(c)] \in {before[Sector(c)], Lost, job[c].data}
  <2>1. CASE Untouched(c)
    <3>1. Content[Sector(c)] = before[Sector(c)]
      BY <1>1, <1>3, <1>4, <2>1 DEF Progress
    <3>2. QED
      BY <1>3, <3>1, PowerContent
  <2>2. CASE ~Untouched(c)
    <3>1. \A p \in 1 .. Pages : page[Sector(c)][p] \in {{job[c].data}, {}}
      BY <1>1, <2>2 DEF Progress
    <3>2. CASE \A p \in 1 .. Pages : page[Sector(c)][p] = {job[c].data}
      <4>1. Content[Sector(c)] = job[c].data
        BY <1>1, <1>3, <3>2, ContentFacts DEF ContentSound, FlashTypes
      <4>2. QED
        BY <1>3, <4>1, PowerContent
    <3>3. CASE \E p \in 1 .. Pages : page[Sector(c)][p] = {}
      <4>1. ~Whole(Sector(c))
        BY <3>3 DEF Whole
      <4>2. Content[Sector(c)] = Lost
        BY <1>1, <1>3, <4>1, ContentFacts DEF ContentSound, FlashTypes
      <4>3. QED
        BY <1>3, <4>2, PowerContent
    <3>4. QED
      BY <3>1, <3>2, <3>3
  <2>3. QED
    BY <2>1, <2>2
<1>7. Content' \in [Sectors -> Data \cup {Lost}]
  BY ContentNext DEF ContentSound, FlashTypes
<1>8. Content' = [s \in Sectors |-> Content'[s]]
  BY <1>7
<1>9. CASE Content'[Sector(c)] = before[Sector(c)]
  <2>1. \A s \in Sectors : Content'[s] = IF s \in Span(job[c].first, index) THEN job[c].data ELSE before[s]
    BY <1>4, <1>5, <1>9 DEF Wrote
  <2>2. QED
    BY <1>8, <2>1 DEF Wrote
<1>10. CASE Content'[Sector(c)] = job[c].data
  <2>1. \A s \in Sectors : Content'[s] = IF s \in Span(job[c].first, index + 1) THEN job[c].data ELSE before[s]
    BY <1>4, <1>5, <1>10 DEF Wrote
  <2>2. QED
    BY <1>8, <2>1 DEF Wrote
<1>11. CASE Content'[Sector(c)] = Lost
  <2>1. \A s \in Sectors : Content'[s] = [Wrote(c, index) EXCEPT ![Sector(c)] = Lost][s]
    BY <1>3, <1>5, <1>11 DEF Wrote
  <2>2. [Wrote(c, index) EXCEPT ![Sector(c)] = Lost]
          = [s \in Sectors |-> [Wrote(c, index) EXCEPT ![Sector(c)] = Lost][s]]
    BY DEF Wrote
  <2>3. QED
    BY <1>8, <2>1, <2>2
<1>12. QED
  BY <1>6, <1>9, <1>10, <1>11

(* When the call of a writer is over, all its sectors are new. *)
LEMMA WholeWrite ==
  ASSUME FlashInv, NEW c \in Callers, owner = c, job[c].kind = "write", pc[c] = "unlock"
  PROVE  Content = Wrote(c, job[c].count) /\ work = {} /\ reply = <<>>
<1>1. /\ Progress(c) /\ CallShape(c) /\ job[c] \in Calls /\ FlashTypes /\ ChipReady
  BY DEF FlashInv, Writing, FlashTypes
<1>2. index = job[c].count /\ Untouched(c) /\ reply = <<>> /\ job[c].data \in Data
  BY <1>1, CallParts DEF CallShape, Untouched
<1>3. work = {}
  BY <1>1 DEF ChipReady, Outside
<1>4. ASSUME NEW s \in Sectors
      PROVE  Content[s] = IF s \in Span(job[c].first, index) THEN job[c].data ELSE before[s]
  <2>1. CASE s \in Span(job[c].first, index)
    <3>1. \A p \in 1 .. Pages : page[s][p] = {job[c].data}
      BY <1>1, <2>1 DEF Progress
    <3>2. QED
      BY <1>1, <1>2, <2>1, <3>1, ContentFacts DEF ContentSound, FlashTypes
  <2>2. CASE s \notin Span(job[c].first, index)
    BY <1>1, <1>2, <2>2 DEF Progress
  <2>3. QED
    BY <2>1, <2>2
<1>5. Content = [s \in Sectors |-> Content[s]]
  BY <1>1, ContentFacts DEF ContentSound, FlashTypes
<1>6. Content = Wrote(c, job[c].count)
  BY <1>2, <1>4, <1>5 DEF Wrote
<1>7. QED
  BY <1>2, <1>3, <1>6

(* A read that is over gave what the disk held. *)
ReadDone ==
  \A c \in Callers :
    owner = c /\ job[c].kind = "read" /\ pc[c] = "unlock" =>
      reply = [s \in Span(job[c].first, job[c].count) |-> before[s]]

LEMMA ReadStep == FlashInv /\ ReadDone /\ [Next]_vars => ReadDone'
<1> SUFFICES ASSUME FlashInv, ReadDone, [Next]_vars, NEW c \in Callers,
                    owner' = c, job'[c].kind = "read", pc'[c] = "unlock"
             PROVE  reply' = [s \in Span(job'[c].first, job'[c].count) |-> before'[s]]
  BY DEF ReadDone
<1>1. pc \in [Callers -> Positions] /\ job \in [Callers -> Calls] /\ None \notin Callers
  BY FlashAssumption DEF FlashAssumption, FlashInv, FlashTypes
<1>2. ASSUME owner = c, pc[c] = "unlock", job'[c] = job[c], UNCHANGED <<before, reply>>
      PROVE  reply' = [s \in Span(job'[c].first, job'[c].count) |-> before'[s]]
  BY <1>2 DEF ReadDone
<1>3. CASE ChipDone \/ Probe \/ UNCHANGED vars
  BY <1>2, <1>3 DEF ChipDone, Probe, vars, seen
<1>4. CASE Restart
  BY <1>1, <1>4 DEF Restart
<1>5. ASSUME NEW d \in Callers, Step(d)
      PROVE  reply' = [s \in Span(job'[c].first, job'[c].count) |-> before'[s]]
  <2>1. CASE Call(d)
    <3>1. owner = c /\ pc'[d] = "lock" /\ pc'[c] = "unlock"
      BY <1>1, <2>1 DEF Call, Go
    <3>2. d # c
      BY <3>1
    <3>3. job'[c] = job[c] /\ pc[c] = "unlock" /\ UNCHANGED <<before, reply>>
      BY <1>1, <2>1, <3>2 DEF Call, Go, seen
    <3>4. QED
      BY <1>2, <3>1, <3>3
  <2>2. CASE Enter(d)
    BY <1>1, <2>2 DEF Enter, Go
  <2>3. CASE Leave(d)
    BY <1>1, <2>3 DEF Leave, Unlock
  <2>4. CASE Inside(d) /\ ~Leave(d)
    <3>1. owner = d /\ d = c /\ CallShape(c) /\ Progress(c)
      <4>1. owner = d /\ CallShape(d) /\ Progress(d)
        BY <2>4, InsideOwns, Alone
      <4>2. owner' = owner
        BY <2>4 DEF Inside, ReadDisable, Read, Enable, Status, Erase, Program, Wait, WriteDisable
      <4>3. QED
        BY <4>1, <4>2
    <3>2. job' = job /\ before' = before
      BY <2>4 DEF Inside, ReadDisable, Read, Enable, Status, Erase, Program, Wait, WriteDisable, seen
    <3>3. CASE Read(c)
      <4>1. ~busy /\ Content = before
        BY <3>1, <3>2, <3>3 DEF Read, FlashInv, ChipReady, Progress, Outside
      <4>2. QED
        BY <3>2, <3>3, <4>1 DEF Read
    <3>4. CASE ~Read(c)
      <4>1. pc'[c] # "unlock"
        BY <1>1, <2>4, <3>1, <3>2, <3>4
        DEF Inside, ReadDisable, Enable, Status, Erase, Program, Wait, WriteDisable, Go
      <4>2. QED
        BY <4>1
    <3>5. QED
      BY <3>3, <3>4
  <2>5. QED
    BY <1>5, <2>1, <2>2, <2>3, <2>4 DEF Step, Inside
<1>6. QED
  BY <1>3, <1>4, <1>5 DEF Next, Reset, PowerLoss

(* What the store sees; a step that changes none of it, and one of the chip. *)
Seen == <<Disk, reply, Asked, AtWork, device = "registered">>

LEMMA SameSeen ==
  ASSUME FlashInv, UNCHANGED <<owner, before, reply, device, work>>, Disk' = Disk,
         owner \in Callers => job'[owner] = job[owner]
  PROVE  UNCHANGED Seen
  BY DEF Seen, Asked, AtWork, FlashInv, FlashTypes

LEMMA StoreWork ==
  ASSUME FlashInv, UNCHANGED <<owner, job, before, reply, device>>, Disk' = Disk,
         \/ work' = {}
         \/ /\ owner \in Callers /\ job[owner].kind = "write"
            /\ \E s \in Span(job[owner].first, job[owner].count) : AtWork' = {s}
  PROVE  Store!Next
<1>1. UNCHANGED <<Disk, reply, Asked, device = "registered">>
  BY DEF Asked
<1>2. CASE work' = {}
  <2>1. AtWork' = {}
    BY <1>2 DEF AtWork
  <2>2. QED
    BY <1>1, <2>1 DEF Store!Next, Store!Work
<1>3. CASE work' # {}
  <2>1. Asked = job[owner]
    BY <1>3, FlashAssumption DEF FlashAssumption, Asked
  <2>2. QED
    BY <1>1, <1>3, <2>1 DEF Store!Next, Store!Work, Store!Span, Span
<1>4. QED
  BY <1>2, <1>3

LEMMA StorePut ==
  ASSUME NEW c \in Callers, owner = c, NEW n
  PROVE  Store!Put(n) = Wrote(c, n)
  BY FlashAssumption DEF FlashAssumption, Store!Put, Store!Span, Span, Wrote, Disk, Asked

(* What every reset leaves behind. *)
LEMMA FaultLeaves ==
  ASSUME FlashInv, Reset \/ PowerLoss
  PROVE  /\ owner' = None /\ reply' = <<>> /\ Asked' = Store!Open /\ AtWork' \in {{}, AtWork}
         /\ (device = "registered")' = FALSE /\ Disk' = Content'
<1>1. owner' = None /\ reply' = <<>> /\ device' = "boot" /\ (work' = work \/ work' = {})
  BY DEF Reset, PowerLoss, Restart, chip
<1>2. AtWork' \in {{}, AtWork}
  BY <1>1 DEF AtWork
<1>3. QED
  BY <1>1, <1>2 DEF Asked, Disk, Store!Open

(* A reset while nobody uses the disk costs at most the sector that a caller
   before an earlier reset had the chip work on. *)
LEMMA FaultUnused ==
  ASSUME FlashInv, FlashTypes', Reset \/ PowerLoss, owner = None
  PROVE  Store!Reset
<1>1. work \subseteq Sectors \X (1 .. Pages) /\ \A a, b \in work : a[1] = b[1]
  BY DEF FlashInv, FlashTypes, ChipReady
<1>2. /\ Content \in [Sectors -> Data \cup {Lost}] /\ Content' \in [Sectors -> Data \cup {Lost}]
      /\ Content = [s \in Sectors |-> Content[s]] /\ Content' = [s \in Sectors |-> Content'[s]]
  BY ContentFacts, ContentNext DEF FlashInv, FlashTypes, ContentSound
<1>3. Disk = Content /\ Disk' = Content' /\ Asked.kind # "write"
  BY FaultLeaves DEF Disk, Asked
<1>4. Disk' = Disk \/ \E s \in AtWork : Disk' = [Disk EXCEPT ![s] = Lost]
  <2>1. CASE \A s \in Sectors : Content'[s] = Content[s]
    BY <1>2, <1>3, <2>1
  <2>2. ASSUME NEW at \in Sectors, Content'[at] # Content[at]
        PROVE  \E s \in AtWork : Disk' = [Disk EXCEPT ![s] = Lost]
    <3>1. Content'[at] = Lost /\ \E a \in work : a[1] = at
      BY <2>2, PowerContent
    <3>2. ASSUME NEW s \in Sectors \ {at} PROVE Content'[s] = Content[s]
      <4>1. ~\E a \in work : a[1] = s
        BY <1>1, <3>1
      <4>2. QED
        BY <4>1, PowerContent
    <3>3. Content' = [Content EXCEPT ![at] = Lost]
      BY <1>2, <3>1, <3>2
    <3>4. at \in AtWork
      BY <3>1 DEF AtWork
    <3>5. QED
      BY <1>3, <3>3, <3>4
  <2>3. QED
    BY <2>1, <2>2
<1>5. QED
  BY <1>3, <1>4, FaultLeaves DEF Store!Reset

LEMMA StoreFault ==
  ASSUME FlashInv, FlashTypes', Reset \/ PowerLoss
  PROVE  Store!Reset
<1>1. None \notin Callers /\ owner \in Callers \cup {None} /\ Sectors \subseteq Int
  BY FlashAssumption DEF FlashAssumption, FlashInv, FlashTypes
<1>2. Disk' = Content'
  BY FaultLeaves
<1>3. /\ Content = [s \in Sectors |-> Content[s]] /\ Content' = [s \in Sectors |-> Content'[s]]
  BY ContentFacts, ContentNext DEF FlashInv, FlashTypes, ContentSound
<1>4. CASE owner = None
  BY <1>4, FaultUnused
<1>5. ASSUME NEW c \in Callers, owner = c PROVE Store!Reset
  <2>1. /\ Disk = before /\ Asked = job[c]
        /\ Progress(c) /\ CallShape(c) /\ job[c] \in Calls /\ index \in 0 .. 2
    BY <1>1, <1>5 DEF Disk, Asked, FlashInv, Writing, FlashTypes
  <2>2. ASSUME work = {} PROVE Content' = Content
    <3>1. \A s \in Sectors : Content'[s] = Content[s]
      BY <2>2, PowerContent
    <3>2. QED
      BY <1>3, <3>1
  <2>3. CASE job[c].kind # "write"
    <3>1. Disk' = Disk
      BY <1>2, <2>1, <2>2, <2>3 DEF Progress
    <3>2. QED
      BY <2>1, <2>3, <3>1, FaultLeaves DEF Store!Reset
  <2>4. ASSUME job[c].kind = "write" PROVE job[c].first \in Int /\ job[c].count \in 1 .. 2
    BY <1>1, <2>1, <2>4, CallParts
  <2>5. CASE job[c].kind = "write" /\ pc[c] = "unlock"
    <3>1. Content = Wrote(c, job[c].count) /\ work = {}
      BY <1>5, <2>5, WholeWrite
    <3>2. Disk' = Store!Put(job[c].count)
      BY <1>2, <1>5, <2>2, <3>1, StorePut
    <3>3. job[c].count \in 0 .. job[c].count
      BY <2>4, <2>5
    <3>4. QED
      BY <2>1, <2>5, <3>2, <3>3, FaultLeaves DEF Store!Reset
  <2>6. CASE job[c].kind = "write" /\ pc[c] # "unlock"
    <3>1. Content' \in {Wrote(c, index), Wrote(c, index + 1), [Wrote(c, index) EXCEPT ![Sector(c)] = Lost]}
      BY <1>5, <2>6, TornWrite
    <3>2. index \in 0 .. job[c].count /\ index + 1 \in 0 .. job[c].count /\ index \in 0 .. job[c].count - 1
      BY <2>1, <2>4, <2>6 DEF CallShape
    <3>3. Store!Put(index) = Wrote(c, index) /\ Store!Put(index + 1) = Wrote(c, index + 1)
      BY <1>5, StorePut
    <3>4. \/ \E count \in 0 .. Asked.count : Disk' = Store!Put(count)
          \/ \E count \in 0 .. Asked.count - 1 : Disk' = [Store!Put(count) EXCEPT ![Asked.first + count] = Lost]
      BY <1>2, <2>1, <3>1, <3>2, <3>3 DEF Sector
    <3>5. QED
      BY <2>1, <2>6, <3>4, FaultLeaves DEF Store!Reset
  <2>7. QED
    BY <2>3, <2>5, <2>6
<1>6. QED
  BY <1>1, <1>4, <1>5

LEMMA StoreStep ==
  ASSUME FlashInv, FlashTypes', ReadDone, [Next]_vars
  PROVE  Store!Next \/ UNCHANGED Seen
<1>1. None \notin Callers /\ owner \in Callers \cup {None} /\ job \in [Callers -> Calls]
  BY FlashAssumption DEF FlashAssumption, FlashInv, FlashTypes
<1>2. ASSUME UNCHANGED page, UNCHANGED <<owner, before>> PROVE Disk' = Disk
  BY <1>2, SameDisk DEF Disk
<1>3. CASE UNCHANGED vars
  BY <1>2, <1>3, SameSeen DEF vars, chip, seen
<1>4. CASE Reset \/ PowerLoss
  BY <1>4, StoreFault DEF Store!Next
<1>5. CASE ChipDone
  <2>1. UNCHANGED <<owner, job, before, reply, device>> /\ Disk' = Disk /\ work' = {}
    BY <1>2, <1>5 DEF ChipDone, seen
  <2>2. QED
    BY <2>1, StoreWork
<1>6. CASE Probe
  <2>1. UNCHANGED <<owner, job, before, reply, work>> /\ Disk' = Disk
    BY <1>2, <1>6 DEF Probe, Latch, seen
  <2>2. UNCHANGED <<Asked, AtWork>>
    BY <2>1 DEF Asked, AtWork
  <2>3. CASE device' = "registered"
    BY <2>1, <2>2, <2>3 DEF Store!Next, Store!Boot
  <2>4. CASE device' # "registered"
    BY <1>6, <2>1, <2>2, <2>4 DEF Probe, Seen
  <2>5. QED
    BY <2>3, <2>4
<1>7. ASSUME NEW c \in Callers, Step(c) PROVE Store!Next \/ UNCHANGED Seen
  <2>1. CASE Call(c)
    <3>1. owner # c
      BY <2>1 DEF Call, FlashInv, LockHeld, Outside
    <3>2. /\ UNCHANGED <<owner, before, reply, device, work>> /\ Disk' = Disk
          /\ owner \in Callers => job'[owner] = job[owner]
      BY <1>1, <1>2, <2>1, <3>1 DEF Call, chip, seen
    <3>3. QED
      BY <3>2, SameSeen
  <2>2. CASE Enter(c)
    <3>1. owner = None /\ owner' = c /\ before' = Content /\ UNCHANGED <<reply, job, work, device>>
      BY <2>2 DEF Enter, Lock, chip
    <3>2. Disk' = Disk /\ AtWork' = AtWork
      BY <1>1, <3>1 DEF Disk, AtWork
    <3>3. Asked = Store!Open /\ Asked' = job[c]
      BY <1>1, <3>1 DEF Asked, Store!Open
    <3>4. job[c] \in Store!Calls
      BY <1>1 DEF Calls, Store!Calls, Store!Open, Store!Span, Span
    <3>5. QED
      BY <3>1, <3>2, <3>3, <3>4 DEF Store!Next, Store!Begin
  <2>3. CASE Inside(c)
    <3>1. /\ owner = c /\ owner # None /\ pc[c] \notin Outside /\ CallShape(c) /\ Progress(c)
          /\ job[c] \in Calls /\ Disk = before /\ Asked = job[c]
      BY <1>1, <2>3, InsideOwns, Alone DEF FlashInv, FlashTypes, Disk, Asked
    <3>2. CASE Read(c)
      <4>1. job[c].kind = "read" /\ ~busy
        <5>1. pc[c] = "read" /\ pc[c] \notin Outside \cup {"wait"}
          BY <3>2 DEF Read, Outside
        <5>2. job[c].kind = "read"
          BY <3>1, <5>1, CallParts DEF CallShape
        <5>3. QED
          BY <5>1, <5>2 DEF FlashInv, ChipReady
      <4>2. Content = Disk /\ Disk' = Disk /\ UNCHANGED <<Asked, AtWork, device>>
        BY <3>1, <3>2, <4>1 DEF Read, Progress, Disk, Asked, AtWork, chip
      <4>3. reply' = [s \in Store!Span(job[c].first, job[c].count) |-> Disk[s]]
        BY <3>2, <4>1, <4>2 DEF Read, Store!Span, Span
      <4>4. QED
        BY <3>1, <4>1, <4>2, <4>3 DEF Store!Next, Store!Read
    <3>3. CASE Leave(c)
      <4>1. owner' = None /\ reply' = <<>> /\ pc[c] = "unlock" /\ UNCHANGED <<page, work, device>>
        BY <3>3 DEF Leave, Unlock, chip
      <4>2. Disk' = Content /\ Asked' = Store!Open /\ AtWork' = AtWork
        BY <4>1, SameDisk DEF Disk, Asked, AtWork, Store!Open
      <4>3. Asked.kind = "read" => reply = [s \in Store!Span(Asked.first, Asked.count) |-> Disk[s]]
        BY <3>1, <4>1 DEF ReadDone, Store!Span, Span
      <4>4. Disk' = IF Asked.kind = "write" THEN Store!Put(Asked.count) ELSE Disk
        <5>1. CASE job[c].kind # "write"
          BY <3>1, <4>2, <5>1 DEF Progress
        <5>2. CASE job[c].kind = "write"
          BY <3>1, <4>1, <4>2, <5>2, WholeWrite, StorePut
        <5>3. QED
          BY <5>1, <5>2
      <4>5. QED
        BY <4>1, <4>2, <4>3, <4>4 DEF Store!Next, Store!Return
    <3>4. CASE ~Read(c) /\ ~Leave(c)
      <4>1. UNCHANGED <<owner, job, before, reply, device>> /\ Disk' = Disk
        BY <2>3, <3>1, <3>4
        DEF Inside, ReadDisable, Enable, Status, Erase, Program, Wait, WriteDisable, seen, Disk
      <4>2. ASSUME work' = work PROVE UNCHANGED Seen
        BY <3>1, <4>1, <4>2, SameSeen
      <4>3. CASE Status(c)
        <5>1. work' = {} \/ work' = work
          BY <4>3 DEF Status, ChipWorks, chip
        <5>2. QED
          BY <4>1, <4>2, <5>1, StoreWork
      <4>4. CASE Erase(c) \/ Program(c)
        <5>1. job[c].kind = "write" /\ Sector(c) \in Span(job[c].first, job[c].count)
          <6>1. pc[c] \in {"erase", "program"}
            BY <4>4 DEF Erase, Program
          <6>2. job[c].kind = "write" /\ job[c].count \in 1 .. 2 /\ job[c].first \in Int
            BY <3>1, <6>1, FlashAssumption, CallParts DEF FlashAssumption, CallShape
          <6>3. index \in 0 .. 2 /\ index <= job[c].count /\ index # job[c].count
            BY <3>1, <6>1, <6>2 DEF CallShape, FlashInv, FlashTypes
          <6>4. QED
            BY <6>2, <6>3 DEF Sector, Span
        <5>2. \/ work' = work
              \/ work' = {Sector(c)} \X (1 .. Pages)
              \/ work' = {<<Sector(c), sub>>}
          BY <4>4 DEF Erase, Program, ChipWorks, chip
        <5>3. work' = work \/ AtWork' = {Sector(c)}
          <6>1. 1 \in 1 .. Pages
            BY FlashAssumption DEF FlashAssumption
          <6>2. ASSUME work' = {Sector(c)} \X (1 .. Pages) PROVE AtWork' = {Sector(c)}
            <7>1. \A at \in work' : at[1] = Sector(c)
              BY <6>2
            <7>2. <<Sector(c), 1>> \in work' /\ <<Sector(c), 1>>[1] = Sector(c)
              BY <6>1, <6>2
            <7>3. \A s : s \in AtWork' <=> s = Sector(c)
              BY <7>1, <7>2 DEF AtWork
            <7>4. QED
              BY <7>3
          <6>3. ASSUME work' = {<<Sector(c), sub>>} PROVE AtWork' = {Sector(c)}
            BY <6>3 DEF AtWork
          <6>4. QED
            BY <5>2, <6>2, <6>3
        <5>4. QED
          BY <3>1, <4>1, <4>2, <5>1, <5>3, StoreWork
      <4>5. CASE ~Status(c) /\ ~Erase(c) /\ ~Program(c)
        <5>1. work' = work
          BY <2>3, <3>4, <4>5 DEF Inside, ReadDisable, Enable, Wait, WriteDisable, Latch, chip
        <5>2. QED
          BY <4>2, <5>1
      <4>6. QED
        BY <4>3, <4>4, <4>5
    <3>5. QED
      BY <3>2, <3>3, <3>4
  <2>4. QED
    BY <1>7, <2>1, <2>2, <2>3 DEF Step, Inside
<1>8. QED
  BY <1>3, <1>4, <1>5, <1>6, <1>7 DEF Next

(* The driver implements the block store, for any number of sectors, pages,
   callers, resets and losses of power (w25qxx_flash_write and
   w25qxx_sector_write under flash_lock). *)
THEOREM FlashImplementsStore == Spec => BlocksKept
<1>1. FlashInv /\ FlashInv' /\ ReadDone /\ [Next]_vars => [Store!Next]_(Store!vars)
  BY StoreStep DEF FlashInv, Store!vars, Seen
<1>2. Init => ReadDone
  BY FlashAssumption DEF FlashAssumption, Init, ReadDone
<1>3. QED
  BY <1>1, <1>2, ReadStep, StoreInit, FlashHolds, PTL DEF Spec, BlocksKept, Store!Spec
------------------------------------------------------------------------------
(* Why a call returns: the chip takes every command it is given, and each step
   of the call leaves fewer of them to give. *)

(* The transfers a call has still to make, the unlock included.  A page costs
   three: the latch, the program and the wait for it; a sector, before its
   pages, as many for the erase, and a write disable behind them. *)
Stage(c) ==
  CASE pc[c] = "wren" -> 4
    [] pc[c] \in {"wrsr", "erase", "program"} -> 3
    [] pc[c] = "wait" -> 2
    [] pc[c] \in {"wrdi", "read"} -> 1
    [] OTHER -> 0

Remaining(c) ==
  IF pc[c] = "unlock" THEN 1
  ELSE IF job[c].kind = "open" THEN Stage(c)
  ELSE IF job[c].kind = "read" THEN IF pc[c] = "wrdi" THEN 3 ELSE 2
  ELSE 1 + Stage(c) + 3 * (Pages - sub)
         + (IF job[c].count - index = 2 THEN 3 * Pages + 4 ELSE 0)

Counted == \A c \in Callers : owner = c => Remaining(c) \in Nat \ {0}

(* Nobody but the owner moves the owner. *)
LEMMA OwnerMoves ==
  ASSUME FlashInv, [Next]_vars, NEW c \in Callers, owner = c, owner' = c, pc'[c] # pc[c]
  PROVE  Inside(c) /\ ~Leave(c)
<1>1. pc \in [Callers -> Positions] /\ pc[c] \notin Outside /\ None \notin Callers
  BY FlashAssumption DEF FlashAssumption, FlashInv, FlashTypes, LockHeld
<1>2. ~(ChipDone \/ Probe \/ UNCHANGED vars)
  BY DEF ChipDone, Probe, vars
<1>3. ~(Reset \/ PowerLoss)
  BY <1>1 DEF Reset, PowerLoss, Restart
<1>4. ASSUME NEW d \in Callers, Step(d) PROVE d = c
  <2>1. \E to : pc' = [pc EXCEPT ![d] = to]
    BY <1>4 DEF Step, Call, Enter, ReadDisable, Read, Enable, Status, Erase, Program, Wait,
               WriteDisable, Leave, Go
  <2>2. QED
    BY <1>1, <2>1
<1>5. Step(c)
  BY <1>2, <1>3, <1>4 DEF Next
<1>6. ~Call(c) /\ ~Enter(c)
  BY <1>1 DEF Call, Enter, Outside
<1>7. ~Leave(c)
  BY <1>1 DEF Leave, Unlock
<1>8. QED
  BY <1>5, <1>6, <1>7 DEF Step, Inside

LEMMA RemainingFalls ==
  ASSUME FlashInv, [Next]_vars, NEW c \in Callers, owner = c, owner' = c, pc'[c] # pc[c]
  PROVE  Remaining(c)' = Remaining(c) - 1
<1>1. Inside(c) /\ ~Leave(c)
  BY OwnerMoves
<1>2. /\ pc \in [Callers -> Positions] /\ pc[c] \notin Outside /\ CallShape(c)
      /\ index \in 0 .. 2 /\ sub \in 0 .. Pages /\ Pages \in Nat \ {0}
      /\ job[c].kind \in {"open", "read", "write"}
      /\ job[c].kind = "write" => job[c].count \in 1 .. 2
  BY <1>1, FlashAssumption, InsideOwns, Alone, CallParts DEF FlashAssumption, FlashInv, FlashTypes
<1>3. job' = job
  BY <1>1 DEF Inside, ReadDisable, Read, Enable, Status, Erase, Program, Wait, WriteDisable
<1> USE DEF Go, Stage, Remaining, CallShape
<1>4. CASE ReadDisable(c)
  BY <1>2, <1>3, <1>4 DEF ReadDisable
<1>5. CASE Read(c)
  BY <1>2, <1>3, <1>5 DEF Read
<1>6. CASE Enable(c)
  BY <1>2, <1>3, <1>6 DEF Enable, loop
<1>7. CASE Status(c)
  BY <1>2, <1>3, <1>7 DEF Status, loop
<1>8. CASE Erase(c)
  BY <1>2, <1>3, <1>8 DEF Erase, loop
<1>9. CASE Program(c)
  BY <1>2, <1>3, <1>9 DEF Program, loop
<1>10. CASE Wait(c)
  BY <1>2, <1>3, <1>10, SMTT(30) DEF Wait, LastPage
<1>11. CASE WriteDisable(c)
  BY <1>2, <1>3, <1>11 DEF WriteDisable
<1>12. QED
  BY <1>1, <1>4, <1>5, <1>6, <1>7, <1>8, <1>9, <1>10, <1>11 DEF Inside

LEMMA AllCounted == FlashInv => Counted
<1> SUFFICES ASSUME FlashInv, NEW c \in Callers, owner = c PROVE Remaining(c) \in Nat \ {0}
  BY DEF Counted
<1>1. /\ pc[c] \in Positions \ Outside /\ CallShape(c)
      /\ index \in 0 .. 2 /\ sub \in 0 .. Pages /\ Pages \in Nat \ {0}
      /\ job[c].kind \in {"open", "read", "write"}
      /\ job[c].kind = "write" => job[c].count \in 1 .. 2
  BY FlashAssumption, Alone, CallParts DEF FlashAssumption, FlashInv, FlashTypes, LockHeld
<1>2. QED
  BY <1>1, SMTT(30) DEF Remaining, Stage, CallShape, Positions, Outside

(* The chip never ignores a command of the driver: what it is asked to do it
   does, what it is asked for it gives (w25qxx_wait_busy after each command). *)
Obeyed ==
  \A c \in Callers :
    /\ Status(c) \/ Erase(c) \/ Program(c) => ~busy /\ busy'
    /\ Enable(c) => wel'
    /\ Read(c) => ~busy

THEOREM ChipObeys == Spec => [][Obeyed]_vars
<1>1. FlashInv /\ [Next]_vars => [Obeyed]_vars
  <2> SUFFICES ASSUME FlashInv, NEW c \in Callers
               PROVE  /\ Status(c) \/ Erase(c) \/ Program(c) => ~busy /\ busy'
                      /\ Enable(c) => wel'
                      /\ Read(c) => ~busy
    BY DEF Obeyed
  <2>1. ASSUME Status(c) \/ Erase(c) \/ Program(c) PROVE ~busy /\ busy'
    <3>1. pc[c] \in {"wrsr", "erase", "program"}
      BY <2>1 DEF Status, Erase, Program
    <3>2. QED
      BY <2>1, <3>1, MayWork, StatusWorks, SectorWorks
  <2>2. ASSUME Enable(c) \/ Read(c) PROVE ~busy
    BY <2>2 DEF Enable, Read, FlashInv, ChipReady, Outside
  <2>3. ASSUME Enable(c) PROVE wel'
    BY <2>2, <2>3 DEF Enable, Latch
  <2>4. QED
    BY <2>1, <2>2, <2>3
<1>2. QED
  BY <1>1, FlashHolds, PTL DEF Spec

(* A call that has the lock is one transfer nearer to its end with every step,
   whatever the others do, until it gives the lock back or the board is reset
   (w25qxx_flash_open, w25qxx_flash_read, w25qxx_flash_write): with ChipObeys,
   and an end to whatever the chip works on, that is why CallsReturn holds. *)
Shrinks ==
  \A c \in Callers :
    owner = c /\ owner' = c /\ pc'[c] # pc[c] => Remaining(c)' = Remaining(c) - 1

THEOREM CallsShrink == Spec => []Counted /\ [][Shrinks]_vars
<1>1. FlashInv /\ [Next]_vars => [Shrinks]_vars
  BY RemainingFalls DEF Shrinks
<1>2. QED
  BY <1>1, AllCounted, FlashHolds, PTL DEF Spec
==============================================================================
