----------------------------- MODULE BlockStore ------------------------------
(***************************************************************************)
(* What a file system may expect of the SPI flash: sectors are read and    *)
(* written as wholes, a write of several sectors is seen whole or not at   *)
(* all, and a reset in the middle of a write leaves the sectors before     *)
(* some place new, those behind it old, and at most that one sector lost.  *)
(* Nothing but the write in progress changes a sector, but for a loss of   *)
(* power while the device works on one that a reset write left behind.     *)
(***************************************************************************)
EXTENDS Integers

CONSTANTS Sectors, Data, Lost

VARIABLES disk,   \* what each sector holds, Lost if it holds nothing whole
          reply,  \* what the read in progress gave: a function from the sectors read
          asked,  \* the call in progress
          atwork, \* the sectors the device works on: one at most
          up      \* the device is there: it is not after a reset, until it is found

vars == <<disk, reply, asked, atwork, up>>

(* The sectors of a call of count sectors at first. *)
Span(first, count) == first .. first + count - 1

(* To open the device asks nothing of it, as if no call were in progress. *)
Open == [kind |-> "open"]
Calls == {Open} \cup
         { call \in [kind : {"read"}, first : Sectors, count : 1 .. 2]
             \cup [kind : {"write"}, first : Sectors, count : 1 .. 2, data : Data] :
             Span(call.first, call.count) \subseteq Sectors }

Init == disk \in [Sectors -> Data] /\ reply = <<>> /\ asked = Open /\ atwork = {} /\ up = FALSE

Boot == up' = TRUE /\ UNCHANGED <<disk, reply, asked, atwork>>

(* The disk with the first count sectors of the write in progress. *)
Put(count) ==
  [s \in Sectors |-> IF s \in Span(asked.first, count) THEN asked.data ELSE disk[s]]

Begin ==
  /\ asked = Open
  /\ asked' \in Calls
  /\ UNCHANGED <<disk, reply, atwork, up>>

Work ==
  /\ \/ atwork' = {}
     \/ asked.kind = "write" /\ \E s \in Span(asked.first, asked.count) : atwork' = {s}
  /\ UNCHANGED <<disk, reply, asked, up>>

Read ==
  /\ asked.kind = "read"
  /\ reply' = [s \in Span(asked.first, asked.count) |-> disk[s]]
  /\ UNCHANGED <<disk, asked, atwork, up>>

Return ==
  /\ asked.kind = "read" => reply = [s \in Span(asked.first, asked.count) |-> disk[s]]
  /\ disk' = IF asked.kind = "write" THEN Put(asked.count) ELSE disk
  /\ asked' = Open /\ reply' = <<>>
  /\ UNCHANGED <<atwork, up>>

Reset ==
  /\ \/ /\ asked.kind = "write"
        /\ \/ \E count \in 0 .. asked.count : disk' = Put(count)
           \/ \E count \in 0 .. asked.count - 1 :
                disk' = [Put(count) EXCEPT ![asked.first + count] = Lost]
     \/ /\ asked.kind # "write"
        /\ disk' = disk \/ \E s \in atwork : disk' = [disk EXCEPT ![s] = Lost]
  /\ asked' = Open /\ reply' = <<>> /\ atwork' \in {{}, atwork} /\ up' = FALSE

Next == Boot \/ Begin \/ Work \/ Read \/ Return \/ Reset

Spec == Init /\ [][Next]_vars
==============================================================================
