----------------------------- MODULE Reassembly -----------------------------
(***************************************************************************)
(* The reassembly of long SMS (sms/concat.rs) over the modem's storage.    *)
(* The parts of a message share a key: sender, reference and number of     *)
(* parts; the reference has 8 or 16 bits and is used again.  Parts stay in *)
(* storage until their message is complete and forwarded, and are read and *)
(* fed again in every sweep; the table of groups is in RAM.                *)
(*                                                                         *)
(* Abstractions.  The content of a part, and its fingerprint, are the pair *)
(* of its message and its number.  A completed message is taken for        *)
(* forwarded; what may go wrong there is the subject of SmsForwarding.     *)
(* Time is counted in sweeps of the storage: 24 hours are GroupTtl of them. *)
(***************************************************************************)
EXTENDS Integers, Sequences, FiniteSets, SequencesExt

CONSTANTS
  Messages,       \* long messages that are sent to the device
  KeyOf,          \* sender, reference and total of each
  Total,          \* number of parts by key
  Direct,         \* messages whose parts arrive in +CMT and are never stored
  Copies,         \* how often the network delivers each part, <<message, number>>, at
                  \* most; a number may be malformed, as 0 or beyond the total
  SlotCount,      \* slots of the ME storage
  MaxGroups,      \* MAX_GROUPS, 8
  MaxSlots,       \* MAX_SLOTS_PER_GROUP, 64
  MaxMishaps,     \* bound: resets and SMS the operator erases with an AT command
  GroupTtl,       \* sweeps in GROUP_TTL
  Empty, NoSlot

Keys == {KeyOf[m] : m \in Messages}
Parts(m) == 1 .. Total[KeyOf[m]]
Sent == DOMAIN Copies
Slots == 1 .. SlotCount

ASSUME ReassemblyAssumption ==
  /\ DOMAIN KeyOf = Messages /\ Total \in [Keys -> Nat \ {0}]
  /\ Sent \subseteq Messages \X Nat /\ Copies \in [Sent -> Nat]
  /\ Direct \subseteq Messages
  /\ SlotCount \in Nat \ {0} /\ MaxGroups \in Nat \ {0} /\ MaxSlots \in Nat \ {0}
  /\ GroupTtl \in Nat \ {0}
  /\ MaxMishaps \in Nat
  /\ Empty \notin Sent /\ NoSlot \notin Slots

VARIABLES
  storage,        \* ME storage: slot -> part, or Empty
  groups,         \* in-flight groups, the one first seen first
  cursor,         \* next slot of the sweep
  deletions,      \* slots to delete, with the fingerprint of what was forwarded
  copies,         \* deliveries of every part so far
  forwarded,      \* contents of the messages forwarded
  met,            \* history: pairs of messages of one key, parts of which were held
                  \* at the same time
  mishaps         \* resets and erasures so far

vars == <<storage, groups, cursor, deletions, copies, forwarded, met, mishaps>>

Init ==
  /\ storage = [s \in Slots |-> Empty]
  /\ groups = <<>> /\ cursor = 1 /\ deletions = {}
  /\ copies = [c \in Sent |-> 0]
  /\ forwarded = {} /\ met = {} /\ mishaps = 0

-----------------------------------------------------------------------------
(* The table of groups. *)

NewGroup(key) == [key |-> key, parts |-> <<>>, slots |-> <<>>, sweeps |-> 0]

HasGroup(table, key) == \E i \in DOMAIN table : table[i].key = key
IndexOf(table, key) == CHOOSE i \in DOMAIN table : table[i].key = key

(* The group first seen gives way to a new one.                             *)
MakeRoom(table) == IF Len(table) >= MaxGroups THEN Tail(table) ELSE table

FindOrCreate(table, key) ==
  IF HasGroup(table, key) THEN table ELSE Append(MakeRoom(table), NewGroup(key))

Malformed(c) == c[2] \notin Parts(c[1])

(* Another content for a part that is there.                                *)
Conflicts(g, c) == c[2] \in DOMAIN g.parts /\ g.parts[c[2]] # c

(* Whether the group can vouch for the slot the part was read from.         *)
Trackable(g, slot, c) ==
  \/ slot = NoSlot
  \/ slot \in DOMAIN g.slots /\ g.slots[slot] = c
  \/ slot \notin DOMAIN g.slots /\ Cardinality(DOMAIN g.slots) < MaxSlots

With(f, x, value) == [y \in DOMAIN f \cup {x} |-> IF y = x THEN value ELSE f[y]]

(* The slots of a group name what was read from each when it was fed.        *)
Tracked(g, slot, c) ==
  IF slot = NoSlot THEN g ELSE [g EXCEPT !.slots = With(g.slots, slot, c)]

(* Mutant of Insert: a group lives on as long as parts of it are read.      *)
InsertAndRefresh(g, slot, c) ==
  [Tracked(g, slot, c) EXCEPT !.parts = With(g.parts, c[2], c), !.sweeps = 0]

(* Of a part that is there already nothing but the slot is new.             *)
Insert(g, slot, c) ==
  IF c[2] \in DOMAIN g.parts THEN Tracked(g, slot, c)
  ELSE [Tracked(g, slot, c) EXCEPT !.parts = With(g.parts, c[2], c)]

(* Mutant of Complete: a part that came twice counts twice.                 *)
CompleteByCount(g) == Cardinality(DOMAIN g.slots) = Total[g.key]

Complete(g) == DOMAIN g.parts = 1 .. Total[g.key]

(* feed_with_slot: the table that is left, and the groups (one or none) that *)
(* are complete.  A part that is refused may have made a group all the same. *)
Feed(c, slot) ==
  LET table == FindOrCreate(groups, KeyOf[c[1]])
      i == IndexOf(table, KeyOf[c[1]])
      g == Insert(table[i], slot, c)
  IN IF Malformed(c) THEN [table |-> groups, complete |-> {}]
     ELSE IF Conflicts(table[i], c) \/ ~Trackable(table[i], slot, c)
     THEN [table |-> table, complete |-> {}]
     ELSE IF Complete(g) THEN [table |-> RemoveAt(table, i), complete |-> {g}]
     ELSE [table |-> [table EXCEPT ![i] = g], complete |-> {}]

(* What becomes of a part that was read or received: a complete message is   *)
(* forwarded, and then its slots wait for their verified deletion.           *)
Process(c, slot) ==
  \E result \in {Feed(c, slot)} :
    /\ groups' = result.table
    /\ forwarded' = forwarded \cup {g.parts : g \in result.complete}
    /\ deletions' = deletions \cup
         UNION {{[slot |-> s, of |-> g.slots[s]] : s \in DOMAIN g.slots} : g \in result.complete}

Claimed(slot) == \E d \in deletions : d.slot = slot

ReadSlot(slot) ==
  IF storage[slot] = Empty \/ Claimed(slot)
  THEN UNCHANGED <<groups, forwarded, deletions>> ELSE Process(storage[slot], slot)

-----------------------------------------------------------------------------
(* The device. *)

(* A +CMTI may be served late, twice, or for a slot that was filled anew.   *)
ReadNotified(slot) ==
  /\ storage[slot] # Empty
  /\ ReadSlot(slot)
  /\ UNCHANGED <<storage, cursor, copies, met, mishaps>>

SweepSlot ==
  /\ cursor \in Slots
  /\ cursor' = cursor + 1
  /\ ReadSlot(cursor)
  /\ UNCHANGED <<storage, copies, met, mishaps>>

(* Hours lie between the sweeps that the model counts: what was to be       *)
(* deleted has been, and groups grow old.  They are in the order in which   *)
(* they were first seen, so that those past their time are the first.       *)
Expired(table) == {i \in DOMAIN table : table[i].sweeps >= GroupTtl}
Older(table) ==
  LET gone == Cardinality(Expired(table))
  IN [i \in 1 .. Len(table) - gone |->
        [table[i + gone] EXCEPT !.sweeps = table[i + gone].sweeps + 1]]
EndSweep ==
  /\ cursor = SlotCount + 1 /\ deletions = {}
  /\ cursor' = 1
  /\ groups' = Older(groups)
  /\ UNCHANGED <<storage, deletions, copies, forwarded, met, mishaps>>

(* Mutant of DeleteVerified: the slot is emptied whatever it holds.         *)
DeleteUnverified(d) ==
  /\ d \in deletions
  /\ deletions' = deletions \ {d}
  /\ storage' = [storage EXCEPT ![d.slot] = Empty]
  /\ UNCHANGED <<groups, cursor, copies, forwarded, met, mishaps>>

(* The slot is read again and emptied only if it holds what was forwarded.  *)
DeleteVerified(d) ==
  /\ d \in deletions
  /\ deletions' = deletions \ {d}
  /\ IF storage[d.slot] = d.of
     THEN storage' = [storage EXCEPT ![d.slot] = Empty]
     ELSE UNCHANGED storage
  /\ UNCHANGED <<groups, cursor, copies, forwarded, met, mishaps>>

Reset ==
  /\ mishaps < MaxMishaps /\ mishaps' = mishaps + 1
  /\ groups' = <<>> /\ deletions' = {} /\ cursor' = 1
  /\ UNCHANGED <<storage, copies, forwarded, met>>

-----------------------------------------------------------------------------
(* The network, the modem and the operator. *)

Held(m) ==
  \/ \E s \in Slots : storage[s] # Empty /\ storage[s][1] = m
  \/ \E i \in DOMAIN groups : \E p \in DOMAIN groups[i].parts : groups[i].parts[p][1] = m

(* A reference has 8 or 16 bits and comes back after 256 or 65536 messages   *)
(* of a sender, be anything of the older message still held or not.          *)
Meets(m) == {n \in Messages \ {m} : KeyOf[n] = KeyOf[m] /\ Held(n)}

Send(c) ==
  /\ copies[c] < Copies[c]
  /\ copies' = [copies EXCEPT ![c] = @ + 1]
  /\ met' = met \cup {{c[1], n} : n \in Meets(c[1])}

(* A part is stored in the first free slot.                                 *)
FirstFree(slot) == storage[slot] = Empty /\ \A s \in 1 .. slot - 1 : storage[s] # Empty
ArriveStored(c, slot) ==
  /\ c[1] \notin Direct /\ FirstFree(slot)
  /\ Send(c)
  /\ storage' = [storage EXCEPT ![slot] = c]
  /\ UNCHANGED <<groups, cursor, deletions, forwarded, mishaps>>

ArriveDirect(c) ==
  /\ c[1] \in Direct
  /\ Send(c)
  /\ Process(c, NoSlot)
  /\ UNCHANGED <<storage, cursor, mishaps>>

OperatorErases(slot) ==
  /\ mishaps < MaxMishaps /\ mishaps' = mishaps + 1
  /\ storage[slot] # Empty
  /\ storage' = [storage EXCEPT ![slot] = Empty]
  /\ UNCHANGED <<groups, cursor, deletions, copies, forwarded, met>>

-----------------------------------------------------------------------------
Sweep == SweepSlot \/ EndSweep
Delete == \E d \in deletions : DeleteVerified(d)
Main == Sweep \/ Delete
Arrive == \E c \in Sent : ArriveDirect(c) \/ \E slot \in Slots : ArriveStored(c, slot)

Next ==
  \/ Main \/ Arrive \/ Reset
  \/ \E slot \in Slots : ReadNotified(slot) \/ OperatorErases(slot)

Spec == Init /\ [][Next]_vars

(* The main loop goes from slot to slot and from sweep to sweep as long as  *)
(* it runs; that the cursor moves on is all the fairness there is.          *)
LiveSpec == Spec /\ WF_cursor(\E next \in 1 .. SlotCount + 1 : cursor' = next)

-----------------------------------------------------------------------------
(* The types; the table keeps to its limit, has one group for a key, the     *)
(* first seen first, holds only part numbers a group has room for, and no    *)
(* group that is complete or that has lost track of the limit of its slots.  *)
TypeOK ==
  /\ storage \in [Slots -> Sent \cup {Empty}]
  /\ cursor \in 1 .. SlotCount + 1
  /\ deletions \subseteq [slot : Slots, of : Sent]
  /\ \A c \in Sent : copies[c] \in 0 .. Copies[c]
  /\ met \subseteq SUBSET Messages
  /\ Len(groups) <= MaxGroups
  /\ \A i, j \in DOMAIN groups : groups[i].key = groups[j].key => i = j
  /\ \A i \in DOMAIN groups :
       /\ DOMAIN groups[i].parts \subseteq 1 .. Total[groups[i].key]
       /\ ~Complete(groups[i])
       /\ DOMAIN groups[i].slots \subseteq Slots
       /\ Cardinality(DOMAIN groups[i].slots) <= MaxSlots
  /\ \A i, j \in DOMAIN groups : i < j => groups[i].sweeps >= groups[j].sweeps

Whole(m) == [p \in Parts(m) |-> <<m, p>>]
Together(m, n) == m = n \/ {m, n} \in met
Apart(m) == \A n \in Messages : Together(m, n) => m = n

(* "Incomplete parts remain on the modem until the full message has been     *)
(* forwarded" (sms_handler.rs): a part that the device deleted was in a      *)
(* message that was forwarded, and in that of its own parts alone unless it  *)
(* met another under its key; whatever came twice, in any order, from slots  *)
(* that were erased and filled again, and across resets.                     *)
StoredUntilForwarded ==
  [][\A slot \in Slots :
       storage[slot] # Empty /\ storage'[slot] = Empty /\ mishaps' = mishaps
         => /\ \E text \in forwarded : storage[slot] \in Range(text)
            /\ Apart(storage[slot][1]) => Whole(storage[slot][1]) \in forwarded]_vars

(* What is forwarded has every part of its key once, in its place, and parts *)
(* of two messages only if these met: if parts of both were held at a time   *)
(* (concat.rs 135-199).  A reference that comes back when the parts of the   *)
(* older message are gone never mixes them, whatever the table remembers.    *)
MixedOnlyIfMet ==
  \A text \in forwarded : \E key \in Keys :
    /\ DOMAIN text = 1 .. Total[key]
    /\ \A p \in DOMAIN text : text[p][2] = p /\ KeyOf[text[p][1]] = key
    /\ \A p, q \in DOMAIN text : Together(text[p][1], text[q][1])

(* A message all of whose parts are in storage is forwarded, whatever was    *)
(* begun and not finished: direct parts that fill the table, parts that come *)
(* twice, a group that vouches for what a slot no longer holds.              *)
AllStored(m) == \A p \in Parts(m) : \E s \in Slots : storage[s] = <<m, p>>
Outstanding == \E m \in Messages : AllStored(m) /\ Whole(m) \notin forwarded
CompleteIsForwarded == []<>~Outstanding
=============================================================================
