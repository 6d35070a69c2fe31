------------------------------ MODULE FlashLog ------------------------------
(***************************************************************************)
(* The event log in flash (log_ring.rs): a ring of sectors, each of which  *)
(* is erased whole and then programmed record by record.  Power may be     *)
(* lost at any point, and erasing and programming may fail half way.       *)
(*                                                                         *)
(* Abstractions.  A slot's 256 bytes are a cell: erased, torn (programmed, *)
(* but no record by its magic, sequence, length and checksum), or a        *)
(* record.  Slot number s is the position <<s \div PerSector, s % PerSector>>. *)
(***************************************************************************)
EXTENDS Naturals, Sequences, FiniteSets, SequencesExt

CONSTANTS
  Sectors,        \* erasable sectors of the partition, 32 on the device
  PerSector,      \* slots_per_erase, 16 on the device
  MaxSeq,         \* u32::MAX
  MaxOffered,     \* bound: events offered to the log
  KindOf,         \* [1 .. MaxOffered -> Kinds], the LogKind of each event
  Kinds,          \* the kinds that occur
  WriteFaults     \* what a failed write may leave: "none", "part", "whole"

(* partitions_ota.csv and the fallback in RAM both have several sectors.    *)
ASSUME GeometryAssumption == Sectors \in Nat \ {0, 1} /\ PerSector \in Nat \ {0}

(* The flash wears out long before 2^32 records are written: 100000 erases  *)
(* of 32 sectors of 16 records are 51 million.                              *)
ASSUME LifetimeAssumption ==
  MaxSeq \in Nat /\ MaxOffered \in Nat /\ MaxOffered < MaxSeq

ASSUME FaultAssumption == WriteFaults \subseteq {"none", "part", "whole"}

Positions == (0 .. Sectors - 1) \X (0 .. PerSector - 1)

ASSUME KindAssumption == KindOf \in [1 .. MaxOffered -> Kinds]

(* Events are numbered in the order in which they are offered.              *)
Events == 1 .. MaxOffered

NoEvent == 0

Erased == [programmed |-> FALSE, seq |-> 0, event |-> NoEvent]
Torn == [programmed |-> TRUE, seq |-> 0, event |-> NoEvent]
Record(n, e) == [programmed |-> TRUE, seq |-> n, event |-> e]

Cells == {Erased, Torn} \union [programmed : {TRUE}, seq : 1 .. MaxSeq, event : Events]

VARIABLES
  flash,          \* [Positions -> Cells]
  nextSeq,        \* FlashLogRing.next_seq
  nextSlot,       \* FlashLogRing.next_slot
  appending,      \* the event of an append between erase and write, or NoEvent
  offered,        \* history: events offered so far
  acknowledged    \* history: events whose append returned Ok

vars == <<flash, nextSeq, nextSlot, appending, offered, acknowledged>>

-----------------------------------------------------------------------------
(* Positions and records. *)

NextSector(s) == IF s + 1 < Sectors THEN s + 1 ELSE 0

(* Mutant of After: the end of the partition is forgotten. *)
AfterUnwrapped(p) ==
  IF p[2] + 1 < PerSector THEN <<p[1], p[2] + 1>> ELSE <<p[1] + 1, 0>>

(* The next slot, modulo the number of slots.                               *)
After(p) == IF p[2] + 1 < PerSector THEN <<p[1], p[2] + 1>> ELSE <<NextSector(p[1]), 0>>

AtSectorStart(p) == p[2] = 0

(* Mutant of SkipSector: the division rounds down. *)
SkipNowhere(p) == <<p[1], 0>>

SkipSector(p) == <<NextSector(p[1]), 0>>

(* The order in which the slots are scanned.                                *)
Scanned(p, q) == p[1] < q[1] \/ (p[1] = q[1] /\ p[2] < q[2])

(* Programming can only clear bits: over anything but erased flash the      *)
(* record comes out with a wrong checksum.                                  *)
Program(cell, record) == IF cell = Erased THEN record ELSE Torn

(* What an interrupted write of a record may leave.  Its tail is padding,   *)
(* so a prefix may be the whole record.                                     *)
Interrupted(cell, record, fault) ==
  CASE fault = "none" -> cell
    [] fault = "part" -> Torn
    [] OTHER -> Program(cell, record)

RecordSlots(f) == {p \in Positions : f[p].seq # 0}

(* max_by_key keeps the last of equal maxima in slot order.                 *)
IsNewest(f, p) ==
  /\ p \in RecordSlots(f)
  /\ \A q \in RecordSlots(f) :
       f[q].seq < f[p].seq \/ (f[q].seq = f[p].seq /\ ~Scanned(p, q))

SeqAfter(n) == IF n = MaxSeq THEN 1 ELSE n + 1

-----------------------------------------------------------------------------
(* Mounting. *)

(* Mutant of ResumeAt: a torn slot is programmed over. *)
ResumeOverTorn(f, p) == p

(* A torn write must not be programmed over: go on in the next sector.      *)
ResumeAt(f, p) ==
  IF ~AtSectorStart(p) /\ f[p].programmed THEN SkipSector(p) ELSE p

Mount(f) ==
  IF RecordSlots(f) = {}
  THEN nextSeq' = 1 /\ nextSlot' = <<0, 0>>
  ELSE \E p \in RecordSlots(f) :
         /\ IsNewest(f, p)
         /\ nextSeq' = SeqAfter(f[p].seq)
         /\ nextSlot' = ResumeAt(f, After(p))

(* An empty partition.                                                      *)
Init ==
  /\ flash = [p \in Positions |-> Erased]
  /\ nextSeq = 1
  /\ nextSlot = <<0, 0>>
  /\ appending = NoEvent
  /\ offered = 0
  /\ acknowledged = {}

(* Any reset: what was in RAM is gone, and the log is mounted again.        *)
Reboot ==
  \E fault \in IF appending = NoEvent THEN {"none"} ELSE {"none", "part", "whole"} :
    LET f == [flash EXCEPT ![nextSlot] =
                Interrupted(@, Record(nextSeq, appending), fault)]
    IN  /\ flash' = f
        /\ appending' = NoEvent
        /\ Mount(f)
        /\ UNCHANGED <<offered, acknowledged>>

-----------------------------------------------------------------------------
(* Appending. *)

(* Erasing nextSlot's sector succeeds, or leaves each slot as it was, torn, *)
(* or erased.                                                               *)
EraseTo(p, outcome) ==
  [q \in Positions |->
     IF q[1] # p[1] \/ outcome[q[2]] = "kept" THEN flash[q]
     ELSE IF outcome[q[2]] = "erased" THEN Erased ELSE Torn]

(* append up to the erase of the sector it enters.                          *)
StartAppend ==
  /\ appending = NoEvent
  /\ offered < MaxOffered
  /\ offered' = offered + 1
  /\ appending' = offered'
  /\ flash' = IF AtSectorStart(nextSlot)
              THEN EraseTo(nextSlot, [i \in 0 .. PerSector - 1 |-> "erased"])
              ELSE flash
  /\ UNCHANGED <<nextSeq, nextSlot, acknowledged>>

(* The erase fails, and append with it; push only logs a warning.           *)
EraseFails ==
  /\ appending = NoEvent
  /\ offered < MaxOffered
  /\ AtSectorStart(nextSlot)
  /\ offered' = offered + 1
  /\ \E outcome \in [0 .. PerSector - 1 -> {"kept", "torn", "erased"}] :
       flash' = EraseTo(nextSlot, outcome)
  /\ UNCHANGED <<nextSeq, nextSlot, appending, acknowledged>>

Write ==
  /\ appending # NoEvent
  /\ flash' = [flash EXCEPT ![nextSlot] = Program(@, Record(nextSeq, appending))]
  /\ nextSeq' = SeqAfter(nextSeq)
  /\ nextSlot' = After(nextSlot)
  /\ appending' = NoEvent
  /\ acknowledged' = acknowledged \union {appending}
  /\ UNCHANGED offered

(* A slot is tried again only if its sector is erased before.               *)
SlotAfterFault(p) == IF AtSectorStart(p) THEN p ELSE SkipSector(p)

WriteFails ==
  /\ appending # NoEvent
  /\ \E fault \in WriteFaults :
       flash' = [flash EXCEPT ![nextSlot] =
                   Interrupted(@, Record(nextSeq, appending), fault)]
  /\ nextSlot' = SlotAfterFault(nextSlot)
  /\ appending' = NoEvent
  /\ UNCHANGED <<nextSeq, offered, acknowledged>>

Next ==
  \/ StartAppend
  \/ EraseFails
  \/ Write
  \/ WriteFails
  \/ Reboot

Spec == Init /\ [][Next]_vars

-----------------------------------------------------------------------------
(* Reading.  All read the flash, none changes it. *)

(* scan_records: the slots that hold records, in the order of the slots.    *)
ScanRecords ==
  SelectSeq([i \in 1 .. Sectors * PerSector |->
               <<(i - 1) \div PerSector, (i - 1) % PerSector>>],
            LAMBDA p : p \in RecordSlots(flash))

EventsAt(slots) == [i \in DOMAIN slots |-> flash[slots[i]].event]

(* entries: every record, sorted by sequence number.                        *)
Entries == EventsAt(SortSeq(ScanRecords, LAMBDA p, q : flash[p].seq < flash[q].seq))

(* Mutant of InsertNewest: a full list is never displaced from the front.   *)
InsertWhileRoom(slots, p, limit) ==
  LET older == Cardinality({i \in DOMAIN slots : flash[slots[i]].seq < flash[p].seq})
  IN  IF Len(slots) < limit THEN InsertAt(slots, older + 1, p) ELSE slots

(* insert_newest_header: keep the limit newest records, sorted.             *)
InsertNewest(slots, p, limit) ==
  LET older == Cardinality({i \in DOMAIN slots : flash[slots[i]].seq < flash[p].seq})
  IN  IF Len(slots) < limit THEN InsertAt(slots, older + 1, p)
      ELSE IF older > 0 THEN InsertAt(Tail(slots), older, p)
      ELSE slots

(* newest_record_headers: one pass over the slots in their order.           *)
NewestSlots(limit) ==
  FoldLeft(LAMBDA slots, p : InsertNewest(slots, p, limit), <<>>, ScanRecords)

LastN(n) ==
  IF n = 0 THEN <<>> ELSE EventsAt(NewestSlots(n))

(* page: skip the offset newest, then list limit of them, newest first.     *)
Page(offset, limit) ==
  LET newest == Reverse(NewestSlots(offset + limit))
  IN  IF limit = 0 THEN <<>>
      ELSE EventsAt(SubSeq(newest, offset + 1, Min({offset + limit, Len(newest)})))

LatestOfKind(kind) ==
  {flash[p].event : p \in {p \in RecordSlots(flash) :
     /\ KindOf[flash[p].event] = kind
     /\ \A q \in RecordSlots(flash) :
          KindOf[flash[q].event] = kind => flash[q].seq <= flash[p].seq}}

-----------------------------------------------------------------------------
(* Properties. *)

(* Every cell, sequence number and position is in range.                    *)
TypeOK ==
  /\ flash \in [Positions -> Cells]
  /\ nextSeq \in 1 .. MaxSeq
  /\ nextSlot \in Positions
  /\ appending \in Events \union {NoEvent}
  /\ offered \in 0 .. MaxOffered
  /\ acknowledged \subseteq Events

(* The events that can be read now.                                         *)
Kept == {flash[p].event : p \in RecordSlots(flash)}

Newest(events, n) ==
  {e \in events : Cardinality({d \in events : d > e}) < n}

InOrder(events) ==
  SelectSeq([n \in 1 .. MaxOffered |-> n], LAMBDA n : n \in events)

LatestAgrees ==
  \A kind \in Kinds : LatestOfKind(kind) = Newest({e \in Kept : KindOf[e] = kind}, 1)

(* Whatever was torn, skipped or erased, /log and /status show the events   *)
(* in the order in which they happened: the newest n of last_n, each page,  *)
(* and the latest of a kind (page, latest_of_kind, insert_newest_header).   *)
ReadsAgree ==
  /\ Entries = InOrder(Kept)
  /\ \A n \in 0 .. Sectors * PerSector : LastN(n) = InOrder(Newest(Kept, n))
  /\ \A offset \in 0 .. Sectors * PerSector, limit \in 0 .. Sectors * PerSector :
       Page(offset, limit) =
         Reverse(InOrder(Newest(Kept, offset + limit) \ Newest(Kept, offset)))
  /\ LatestAgrees

(* No erase and no torn slot costs the newest record: after every fault and *)
(* reset, the last acknowledged event or a newer one can be read, even      *)
(* before the next append succeeds (append, mount).                         *)
NewestSurvives == \A n \in acknowledged : \E e \in Kept : e >= n

(* The ring implements the abstract log: whatever was torn, skipped or      *)
(* erased, the sector that is erased holds the oldest events (mount,        *)
(* append).  In which order they are read is the subject of ReadsAgree.     *)
Abstract ==
  INSTANCE EventLog WITH Eviction <- PerSector, log <- Kept

EventLogSpec == Abstract!Spec
=============================================================================
