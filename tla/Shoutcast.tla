------------------------------ MODULE Shoutcast ------------------------------
(***************************************************************************)
(* The radio client of applications/http.c: shoutcast_session_read takes   *)
(* the titles out of the stream that the server sends.                     *)
(*                                                                         *)
(* After every MetaInt bytes of audio the server puts one byte that counts *)
(* units of title and then the title.  A read asks for Length bytes, and   *)
(* gets fewer only if the connection is slow or closed.  How many units a  *)
(* title has, and how much each read gets, is the network's choice.        *)
(***************************************************************************)
EXTENDS Integers, Sequences, SequencesExt

CONSTANTS
  MetaInt, \* icy-metaint of the server
  Unit,    \* bytes of title that one unit of the length byte stands for (16)
  Units,   \* values of the length byte
  Titles,  \* titles in the stream of one session (the bound of its length)
  Length   \* NETBUF_BLOCK_SIZE, the size the network buffer asks for

ASSUME ShoutcastAssumption ==
  /\ MetaInt \in Nat \ {0} /\ Unit \in Nat \ {0} /\ Length \in Nat \ {0}
  /\ Titles \in Nat /\ Units \subseteq Nat

VARIABLES
  stream, got,     \* what the server sends; how much of it was received
  open, metaint, current_meta_chunk, \* struct shoutcast_session
  first_meta_size, \* static in shoutcast_session_read
  fault,           \* a move of negative size, or out of the buffer
  given,           \* the bytes handed to the player in this session (history)
  spoilt           \* what this session met that the code is not made for (history)

session == <<stream, open, metaint>>
vars == <<session, got, current_meta_chunk, first_meta_size, fault, given, spoilt>>

(* A stream: audio bytes numbered in order, length bytes and title bytes. *)
Audio(n) == [kind |-> "audio", value |-> n]
Count(n) == [kind |-> "count", value |-> n]
Title    == [kind |-> "title", value |-> 0]
Chunk(k) == [i \in 1 .. MetaInt |-> Audio((k - 1) * MetaInt + i)]
Block(units) == <<Count(units)>> \o [i \in 1 .. Unit * units |-> Title]
StreamOf(titles) ==
  FlattenSeq([k \in 1 .. Titles |-> Chunk(k) \o Block(titles[k])])

(* The places from a to b of the stream that hold a byte of a kind, and the audio
   of the first n places. *)
Places(kind, a, b) == {i \in a .. b : stream[i].kind = kind}
Sound(n) == [i \in 1 .. Cardinality(Places("audio", 1, n)) |-> Audio(i)]

(* What the length byte at place i of bytes is taken for: another byte has any
   value. *)
Value(bytes, i) == IF bytes[i].kind = "count" THEN {bytes[i].value} ELSE Units

Init ==
  /\ stream = <<>> /\ got = 0 /\ open = FALSE /\ metaint = 0
  /\ current_meta_chunk = 0 /\ first_meta_size = 0
  /\ fault = FALSE /\ given = <<>> /\ spoilt = {}
------------------------------------------------------------------------------
(* shoutcast_session_open; a server that sends no titles names no interval. *)
Open ==
  /\ ~open /\ ~fault
  /\ open' = TRUE
  /\ \/ /\ metaint' = MetaInt
        /\ \E titles \in [1 .. Titles -> Units] : stream' = StreamOf(titles)
        /\ spoilt' = IF first_meta_size > 0 THEN {"left over"} ELSE {}
     \/ /\ metaint' = 0
        /\ stream' = FlattenSeq([k \in 1 .. Titles |-> Chunk(k)])
        /\ spoilt' = {"no titles"}
  /\ got' = 0 /\ current_meta_chunk' = 0 /\ given' = <<>>
  /\ UNCHANGED <<first_meta_size, fault>>

(* shoutcast_session_close. *)
Close ==
  /\ open /\ ~fault
  /\ open' = FALSE
  /\ UNCHANGED <<stream, got, metaint, current_meta_chunk, first_meta_size,
                 fault, given, spoilt>>

(* The loop of recv calls: n bytes in the buffer. *)
Received(n) == SubSeq(stream, got + 1, got + n)

(* A read the code is made for: of one title at most, not ending inside it. *)
Inside(i) == i < Len(stream) /\ stream[i + 1].kind = "title"
Blocks(n) ==
  Cardinality(Places("count", got + 1, got + n)) + (IF n > 0 /\ Inside(got) THEN 1 ELSE 0)
Oddities(n) ==
  (IF Inside(got + n) THEN {"cut title"} ELSE {}) \cup (IF Blocks(n) > 1 THEN {"two titles"} ELSE {})

(* The end of every read: keep what remains of the buffer, or fault. *)
Deliver(n, skipped, ok, kept) ==
  /\ fault' = ~ok
  /\ given' = IF ok THEN given \o kept ELSE given
  /\ got' = got + n + skipped
  /\ UNCHANGED session

(* A title was announced at the end of the previous read: it comes first. *)
ReadTitle(n) ==
  /\ first_meta_size > 0
  /\ LET ok == n >= first_meta_size IN
     Deliver(n, 0, ok, SubSeq(Received(n), first_meta_size + 1, n))
  /\ current_meta_chunk' = n - first_meta_size
  /\ first_meta_size' = 0

(* The chunk ends with the read: one byte more says how long the title is; if
   that byte does not come, the variable for it was never set. *)
AtEnd(n) == current_meta_chunk + n = metaint

ReadUpTo(n) ==
  /\ first_meta_size = 0 /\ AtEnd(n)
  /\ \/ /\ got + n < Len(stream)
        /\ \E units \in Value(stream, got + n + 1) : first_meta_size' = Unit * units
        /\ Deliver(n, 1, TRUE, Received(n))
     \/ /\ \E units \in Units : first_meta_size' = Unit * units
        /\ Deliver(n, 0, TRUE, Received(n))
  /\ current_meta_chunk' = 0

(* The chunk ends within the read: cut the title out of the buffer. *)
NextChunkKept(rest) == current_meta_chunk
NextChunk(rest) == rest

ReadAcross(n) ==
  /\ first_meta_size = 0 /\ current_meta_chunk + n > metaint
  /\ LET head == metaint - current_meta_chunk
         buffer == Received(n) IN
     IF head < 0
     THEN Deliver(n, 0, FALSE, <<>>) /\ UNCHANGED current_meta_chunk
     ELSE \E units \in Value(buffer, head + 1) :
            LET rest == n - head - (Unit * units + 1) IN
            /\ Deliver(n, 0, rest >= 0,
                 SubSeq(buffer, 1, head) \o SubSeq(buffer, n - rest + 1, n))
            /\ current_meta_chunk' = NextChunk(rest)
  /\ UNCHANGED first_meta_size

(* The read stays within the chunk. *)
ReadWithin(n) ==
  /\ first_meta_size = 0 /\ current_meta_chunk + n < metaint
  /\ Deliver(n, 0, TRUE, Received(n))
  /\ current_meta_chunk' = current_meta_chunk + n
  /\ UNCHANGED first_meta_size

(* shoutcast_session_read. *)
Read ==
  /\ open /\ ~fault
  /\ \E n \in 0 .. Length :
       /\ got + n <= Len(stream)
       /\ ReadTitle(n) \/ ReadUpTo(n) \/ ReadAcross(n) \/ ReadWithin(n)
       /\ spoilt' = spoilt \cup Oddities(n)
            \cup (IF AtEnd(n) /\ first_meta_size = 0 /\ got' = got + n
                  THEN {"no length"} ELSE {})

Next == Open \/ Close \/ Read

Spec == Init /\ [][Next]_vars
------------------------------------------------------------------------------
(* As long as the reads of a session meet whole titles, one at a time, the
   player is given the audio, all of it and in order, and no move leaves the
   buffer (shoutcast_session_read, lines 587-637). *)
OnlyOddReadsSpoil ==
  spoilt = {} => ~fault /\ given = Sound(got)

(* "skip meta data" (lines 590 and 622): a title never makes the move of the
   rest of the buffer one of negative size. *)
TitlesSkipped == fault => spoilt \cap {"no titles", "left over", "no length"} # {}
==============================================================================
