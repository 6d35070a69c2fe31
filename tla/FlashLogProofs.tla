--------------------------- MODULE FlashLogProofs ---------------------------
(***************************************************************************)
(* What holds of the flash log for every geometry and every number of      *)
(* events.  The newest record stands in a sector that is not about to be   *)
(* erased, and what follows it there is either torn at once or still       *)
(* erased: so the next record never meets programmed flash.                *)
(* The sectors are in the order of their age, from the one behind the      *)
(* newest record round to its own: so what an erase forgets is the oldest. *)
(***************************************************************************)
EXTENDS FlashLog, FiniteSetTheorems, TLAPS

(* A slot and those behind it in its sector. *)
ErasedFrom(f, p) ==
  \A q \in Positions : q[1] = p[1] /\ q[2] >= p[2] => f[q] = Erased

(* The record with the highest sequence number, and the place after it. *)
TopAt(t) ==
  /\ t \in RecordSlots(flash)
  /\ nextSeq = flash[t].seq + 1
  /\ \A n \in acknowledged : n <= flash[t].event
  /\ \A q \in Positions :
       q[1] = t[1] /\ q[2] = t[2] + 1 /\ ~flash[q].programmed => ErasedFrom(flash, q)
  /\ \/ nextSlot[2] = 0 /\ nextSlot[1] # t[1]
     \/ nextSlot = <<t[1], t[2] + 1>> /\ ErasedFrom(flash, nextSlot)

(* Nothing was ever completely written. *)
Blank ==
  /\ RecordSlots(flash) = {}
  /\ nextSeq = 1
  /\ nextSlot = <<0, 0>>
  /\ acknowledged = {}

(* Sequence numbers are never reused while a record holds them. *)
Sequenced ==
  /\ nextSeq <= offered + 1
  /\ appending # NoEvent => nextSeq <= offered /\ appending = offered
  /\ acknowledged \subseteq 1 .. offered
  /\ \A p \in RecordSlots(flash) : flash[p].seq < nextSeq
  /\ \A p, q \in RecordSlots(flash) : flash[p].seq = flash[q].seq => p = q

Prepared == appending # NoEvent => ErasedFrom(flash, nextSlot)

RingInv ==
  /\ TypeOK
  /\ Sequenced
  /\ Prepared
  /\ Blank \/ \E t \in Positions : TopAt(t)

-----------------------------------------------------------------------------
(* Positions. *)

(* The next slot, and the start of the next sector, are slots. *)
LEMMA Geometry ==
  /\ <<0, 0>> \in Positions
  /\ \A p \in Positions :
       /\ p = <<p[1], p[2]>>
       /\ p[1] \in 0 .. Sectors - 1 /\ p[2] \in 0 .. PerSector - 1
       /\ After(p) \in Positions /\ SkipSector(p) \in Positions
       /\ SkipSector(p)[1] # p[1] /\ SkipSector(p)[2] = 0
       /\ \/ After(p) = <<p[1], p[2] + 1>>
          \/ After(p) = SkipSector(p) /\ p[2] + 1 = PerSector
BY GeometryAssumption
   DEF Positions, After, SkipSector, NextSector

(* A cell that is not programmed is erased, and only records have numbers. *)
LEMMA CellKinds ==
  ASSUME NEW c \in Cells
  PROVE  /\ ~c.programmed <=> c = Erased
         /\ c.seq # 0 => c.programmed /\ c.seq \in 1 .. MaxSeq /\ c.event \in Events
<1>1. CASE c = Erased
  BY <1>1 DEF Erased
<1>2. CASE c = Torn
  BY <1>2 DEF Erased, Torn
<1>3. CASE c \in [programmed : {TRUE}, seq : 1 .. MaxSeq, event : Events]
  <2>1. c.programmed = TRUE /\ c.seq \in 1 .. MaxSeq /\ c.event \in Events
    BY <1>3
  <2>2. c.seq # Erased.seq
    BY <2>1, LifetimeAssumption DEF Erased
  <2> QED BY <2>1, <2>2
<1> QED BY <1>1, <1>2, <1>3 DEF Cells

(* Whatever a write leaves is a cell. *)
LEMMA FaultyCells ==
  ASSUME NEW c \in Cells, NEW n \in 1 .. MaxSeq, NEW e \in Events
  PROVE  /\ Record(n, e) \in Cells
         /\ Program(c, Record(n, e)) \in Cells
         /\ \A fault : Interrupted(c, Record(n, e), fault) \in Cells
         /\ Erased \in Cells /\ Torn \in Cells
BY DEF Cells, Erased, Torn, Record, Program, Interrupted
(* A record is none of the other contents. *)
LEMMA RecordKinds ==
  ASSUME NEW n \in 1 .. MaxSeq, NEW e \in Events
  PROVE  /\ Record(n, e).seq = n /\ Record(n, e).event = e
         /\ Erased.seq = 0 /\ Torn.seq = 0 /\ ~Erased.programmed /\ Torn.programmed
BY DEF Record, Erased, Torn

-----------------------------------------------------------------------------
(* The steps. *)

(* Erased flash satisfies the invariant. *)
LEMMA InitRing == Init => RingInv
<1> SUFFICES ASSUME Init PROVE RingInv
  OBVIOUS
<1>1. RecordSlots(flash) = {}
  BY DEF Init, RecordSlots, Erased
<1>2. TypeOK
  BY Geometry, LifetimeAssumption DEF Init, TypeOK, Cells, NoEvent
<1> QED BY <1>1, <1>2 DEF Init, RingInv, Sequenced, Prepared, Blank

(* Everything a cell can become when the sector is erased, wholly or in part. *)
LEMMA ErasingKeeps ==
  ASSUME RingInv, NEW outcome, AtSectorStart(nextSlot),
         flash' = EraseTo(nextSlot, outcome), UNCHANGED <<nextSeq, nextSlot, acknowledged>>
  PROVE  /\ flash' \in [Positions -> Cells]
         /\ \A p \in Positions : p[1] # nextSlot[1] => flash'[p] = flash[p]
         /\ RecordSlots(flash') \subseteq RecordSlots(flash)
         /\ \A p \in RecordSlots(flash') : flash'[p] = flash[p]
         /\ Blank' \/ \E t \in Positions : TopAt(t)'
<1>1. flash' \in [Positions -> Cells]
  BY DEF RingInv, TypeOK, EraseTo, Cells
<1>2. \A p \in Positions : p[1] # nextSlot[1] => flash'[p] = flash[p]
  BY DEF EraseTo
<1>3. \A p \in Positions : flash'[p] \in {flash[p], Erased, Torn}
  BY DEF EraseTo
<1>4. /\ RecordSlots(flash') \subseteq RecordSlots(flash)
      /\ \A p \in RecordSlots(flash') : flash'[p] = flash[p]
  BY <1>3 DEF RecordSlots, Erased, Torn
<1>5. ASSUME Blank PROVE Blank'
  BY <1>4, <1>5 DEF Blank
<1>6. ASSUME NEW t \in Positions, TopAt(t) PROVE TopAt(t)'
  <2>1. nextSlot[1] # t[1] /\ nextSlot[2] = 0
    BY <1>6, Geometry, GeometryAssumption DEF TopAt, AtSectorStart
  <2>2. flash'[t] = flash[t]
    BY <2>1, <1>2
  <2>3. \A q \in Positions : q[1] = t[1] => flash'[q] = flash[q]
    BY <2>1, <1>2
  <2> QED BY <1>6, <2>1, <2>2, <2>3 DEF TopAt, RecordSlots, ErasedFrom
<1> QED BY <1>1, <1>2, <1>4, <1>5, <1>6 DEF RingInv

(* The sector that is erased holds no newest record. *)
LEMMA StartAppendKeeps == RingInv /\ StartAppend => RingInv'
<1> SUFFICES ASSUME RingInv, StartAppend PROVE RingInv'
  OBVIOUS
<1> USE DEF NoEvent
<1>1. /\ offered \in Nat /\ offered' = offered + 1 /\ offered' \in Events
      /\ appending = NoEvent /\ appending' = offered'
      /\ UNCHANGED <<nextSeq, nextSlot, acknowledged>>
  BY LifetimeAssumption DEF RingInv, TypeOK, StartAppend, Events
<1>2. CASE AtSectorStart(nextSlot)
  <2>1. PICK outcome : /\ \A i \in 0 .. PerSector - 1 : outcome[i] = "erased"
                       /\ flash' = EraseTo(nextSlot, outcome)
    BY <1>2 DEF StartAppend
  <2>2. ErasedFrom(flash', nextSlot')
    BY <2>1, <1>1, Geometry DEF ErasedFrom, EraseTo, RingInv, TypeOK
  <2>3. /\ flash' \in [Positions -> Cells]
        /\ RecordSlots(flash') \subseteq RecordSlots(flash)
        /\ \A p \in RecordSlots(flash') : flash'[p] = flash[p]
        /\ Blank' \/ \E t \in Positions : TopAt(t)'
    BY <1>1, <1>2, <2>1, ErasingKeeps
  <2>4. TypeOK'
    BY <1>1, <2>3 DEF RingInv, TypeOK, Events
  <2>5. Sequenced'
    BY <1>1, <2>3 DEF RingInv, TypeOK, Sequenced
  <2> QED BY <2>2, <2>3, <2>4, <2>5 DEF RingInv, Prepared
<1>3. CASE ~AtSectorStart(nextSlot)
  <2>1. flash' = flash
    BY <1>3 DEF StartAppend
  <2>2. PICK t \in Positions : TopAt(t)
    BY <1>3 DEF RingInv, Blank, AtSectorStart
  <2>3. ErasedFrom(flash, nextSlot)
    BY <2>2, <1>3 DEF TopAt, AtSectorStart
  <2>4. TopAt(t)'
    BY <2>1, <2>2, <1>1 DEF TopAt, ErasedFrom, RecordSlots
  <2>5. TypeOK'
    BY <1>1, <2>1 DEF RingInv, TypeOK, Events
  <2>6. Sequenced'
    BY <1>1, <2>1 DEF RingInv, TypeOK, Sequenced
  <2>7. Prepared'
    BY <1>1, <2>1, <2>3 DEF Prepared, ErasedFrom
  <2> QED BY <2>4, <2>5, <2>6, <2>7 DEF RingInv
<1> QED BY <1>2, <1>3

(* Nor when the erase stops half way. *)
LEMMA EraseFailsKeeps == RingInv /\ EraseFails => RingInv'
<1> SUFFICES ASSUME RingInv, EraseFails PROVE RingInv'
  OBVIOUS
<1>1. PICK outcome : flash' = EraseTo(nextSlot, outcome)
  BY DEF EraseFails
<1>2. /\ offered \in Nat /\ offered' = offered + 1 /\ offered' \in 0 .. MaxOffered
      /\ appending = NoEvent /\ appending' = NoEvent
      /\ UNCHANGED <<nextSeq, nextSlot, acknowledged>>
  BY LifetimeAssumption DEF RingInv, TypeOK, EraseFails
<1>3. /\ flash' \in [Positions -> Cells]
      /\ RecordSlots(flash') \subseteq RecordSlots(flash)
      /\ \A p \in RecordSlots(flash') : flash'[p] = flash[p]
      /\ Blank' \/ \E t \in Positions : TopAt(t)'
  BY <1>1, <1>2, ErasingKeeps DEF EraseFails
<1>4. TypeOK'
  BY <1>2, <1>3 DEF RingInv, TypeOK
<1>5. Sequenced'
  BY <1>2, <1>3 DEF RingInv, TypeOK, Sequenced
<1> QED BY <1>2, <1>3, <1>4, <1>5 DEF RingInv, Prepared

(* What a write does to its cell when the cell is erased as it should be,   *)
(* and what every write that fails without completing the record may do.    *)
LEMMA WriteKeeps ==
  ASSUME RingInv, appending # NoEvent, NEW c, flash' = [flash EXCEPT ![nextSlot] = c]
  PROVE  /\ nextSlot \in Positions /\ flash[nextSlot] = Erased
         /\ nextSeq \in 1 .. MaxSeq - 1 /\ appending \in Events
         /\ \A p \in Positions : flash'[p] = IF p = nextSlot THEN c ELSE flash[p]
         /\ c \in Cells => flash' \in [Positions -> Cells]
<1>1. nextSlot \in Positions /\ flash \in [Positions -> Cells]
  BY DEF RingInv, TypeOK
<1>2. flash[nextSlot] = Erased
  BY <1>1, Geometry DEF RingInv, Prepared, ErasedFrom, Positions
<1>3. nextSeq \in 1 .. MaxSeq - 1 /\ appending \in Events
  BY LifetimeAssumption DEF RingInv, TypeOK, Sequenced
<1> QED BY <1>1, <1>2, <1>3

(* A record written after the newest one is the newest, wherever the log    *)
(* goes on: right behind it, or at the start of another sector.             *)
LEMMA WholeWriteTop ==
  ASSUME RingInv, appending # NoEvent,
         flash' = [flash EXCEPT ![nextSlot] = Record(nextSeq, appending)],
         nextSeq' = nextSeq + 1, nextSlot' = After(nextSlot),
         acknowledged' \in {acknowledged, acknowledged \union {appending}},
         offered' = offered, appending' = NoEvent
  PROVE  RingInv'
<1> DEFINE r == Record(nextSeq, appending)
<1>1. /\ nextSlot \in Positions /\ flash[nextSlot] = Erased
      /\ nextSeq \in 1 .. MaxSeq - 1 /\ appending \in Events
      /\ \A p \in Positions : flash'[p] = IF p = nextSlot THEN r ELSE flash[p]
      /\ r \in Cells => flash' \in [Positions -> Cells]
  BY WriteKeeps
<1>2. nextSeq \in 1 .. MaxSeq /\ r \in Cells /\ r.seq = nextSeq /\ r.event = appending
  <2>1. nextSeq \in 1 .. MaxSeq
    BY <1>1, LifetimeAssumption
  <2>2. r \in Cells
    BY <1>1, <2>1 DEF Cells, Record
  <2>3. r.seq = nextSeq /\ r.event = appending
    BY DEF Record
  <2> QED BY <2>1, <2>2, <2>3
<1> HIDE DEF r
<1>3. TypeOK'
  BY <1>1, <1>2, Geometry, LifetimeAssumption DEF RingInv, TypeOK
<1>4. RecordSlots(flash') = RecordSlots(flash) \union {nextSlot}
  BY <1>1, <1>2 DEF RecordSlots
<1>5. nextSlot \notin RecordSlots(flash)
  BY <1>1 DEF RecordSlots, Erased
<1>6. Sequenced'
  <2>1. nextSeq' <= offered' + 1 /\ acknowledged' \subseteq 1 .. offered'
    BY <1>1 DEF RingInv, TypeOK, Sequenced, Events
  <2>2. \A p \in RecordSlots(flash) : flash'[p] = flash[p] /\ flash[p].seq < nextSeq
    BY <1>1, <1>5 DEF RingInv, Sequenced, RecordSlots
  <2>3. \A p \in RecordSlots(flash') :
          \/ p = nextSlot /\ flash'[p].seq = nextSeq
          \/ p \in RecordSlots(flash) /\ flash'[p].seq = flash[p].seq /\ flash[p].seq < nextSeq
    BY <1>1, <1>2, <1>4, <2>2
  <2>4. \A p \in RecordSlots(flash) : flash[p].seq \in Nat
    BY <1>1, CellKinds, LifetimeAssumption DEF RecordSlots, RingInv, TypeOK
  <2>5. \A p \in RecordSlots(flash') : flash'[p].seq < nextSeq'
    BY <1>1, <2>3, <2>4
  <2>6. \A p, q \in RecordSlots(flash') : flash'[p].seq = flash'[q].seq => p = q
    BY <1>1, <2>3, <2>4 DEF RingInv, Sequenced
  <2> QED BY <2>1, <2>5, <2>6 DEF Sequenced
<1>7. \A q \in Positions : q[1] = nextSlot[1] /\ q[2] > nextSlot[2] => flash'[q] = Erased
  <2> SUFFICES ASSUME NEW q \in Positions, q[1] = nextSlot[1], q[2] > nextSlot[2]
               PROVE  flash'[q] = Erased
    OBVIOUS
  <2>1. q[2] \in Int /\ nextSlot[2] \in Int
    BY <1>1, Geometry
  <2>2. q # nextSlot /\ q[2] >= nextSlot[2]
    BY <2>1
  <2>3. flash[q] = Erased
    BY <2>2 DEF RingInv, Prepared, ErasedFrom
  <2> QED BY <1>1, <2>2, <2>3
<1>8. \E t \in Positions : TopAt(t)'
  <2>1. PICK t \in Positions : t = nextSlot
    BY <1>1
  <2>2. t \in RecordSlots(flash') /\ flash'[t] = r
    BY <1>1, <1>4, <2>1
  <2>3. \A n \in acknowledged' : n <= appending
    BY <1>1 DEF RingInv, TypeOK, Sequenced, Events
  <2>4. \A q \in Positions : q[1] = t[1] /\ q[2] = t[2] + 1 => ErasedFrom(flash', q)
    BY <1>7, <2>1, Geometry DEF ErasedFrom
  <2>5. CASE After(t) = <<t[1], t[2] + 1>>
    <3>1. After(t) \in Positions /\ After(t)[1] = t[1] /\ After(t)[2] = t[2] + 1
      <4>1. After(t) \in Positions
        BY Geometry
      <4> QED BY <2>5, <4>1
    <3>2. ErasedFrom(flash', After(t))
      BY <2>4, <3>1
    <3> QED BY <1>2, <2>1, <2>2, <2>3, <2>4, <2>5, <3>2 DEF TopAt
  <2>6. CASE After(t) = SkipSector(t)
    <3>1. nextSlot'[2] = 0 /\ nextSlot'[1] # t[1]
      BY <2>1, <2>6, Geometry
    <3> QED BY <1>2, <2>2, <2>3, <2>4, <3>1 DEF TopAt
  <2> QED BY <2>5, <2>6, Geometry
<1>9. Prepared'
  BY DEF Prepared
<1> QED BY <1>1, <1>3, <1>6, <1>8, <1>9 DEF RingInv

(* Sequence numbers below the limit do not wrap. *)
LEMMA SeqAfterNext == \A n \in 1 .. MaxSeq - 1 : SeqAfter(n) = n + 1
BY LifetimeAssumption DEF SeqAfter

(* The new record becomes the newest. *)
LEMMA WriteStepKeeps == RingInv /\ Write => RingInv'
<1> SUFFICES ASSUME RingInv, Write PROVE RingInv'
  OBVIOUS
<1>1. flash[nextSlot] = Erased /\ nextSeq \in 1 .. MaxSeq - 1
  BY WriteKeeps DEF Write
<1>2. flash' = [flash EXCEPT ![nextSlot] = Record(nextSeq, appending)]
  BY <1>1 DEF Write, Program
<1> QED BY <1>1, <1>2, WholeWriteTop, SeqAfterNext DEF Write

(* The newest record decides where a mount goes on. *)
LEMMA MountKeeps ==
  ASSUME flash' \in [Positions -> Cells], NEW t \in RecordSlots(flash'), Mount(flash'),
         \A p \in RecordSlots(flash') : flash'[p].seq <= flash'[t].seq,
         \A p \in RecordSlots(flash') : flash'[p].seq = flash'[t].seq => p = t,
         flash'[t].seq < MaxSeq,
         \A n \in acknowledged' : n <= flash'[t].event,
         \A q \in Positions :
           q[1] = t[1] /\ q[2] = t[2] + 1 /\ ~flash'[q].programmed => ErasedFrom(flash', q)
  PROVE  nextSeq' = flash'[t].seq + 1 /\ TopAt(t)'
<1>1. t \in Positions /\ \A p \in Positions : flash'[p] \in Cells
  BY DEF RecordSlots
<1>2. \A p \in RecordSlots(flash') : flash'[p].seq \in 1 .. MaxSeq
  BY <1>1, CellKinds DEF RecordSlots
<1>3. \A p : IsNewest(flash', p) => p = t
  <2> SUFFICES ASSUME NEW p, IsNewest(flash', p), p # t PROVE FALSE
    OBVIOUS
  <2>1. p \in RecordSlots(flash') /\ flash'[p].seq # flash'[t].seq
    BY DEF IsNewest
  <2>2. flash'[t].seq <= flash'[p].seq
    BY <1>2 DEF IsNewest
  <2> QED BY <1>2, <2>1, <2>2
<1>4. /\ nextSeq' = SeqAfter(flash'[t].seq)
      /\ nextSlot' = ResumeAt(flash', After(t))
  BY <1>3 DEF Mount
<1>5. nextSeq' = flash'[t].seq + 1
  BY <1>2, <1>4, SeqAfterNext, LifetimeAssumption
<1>6. After(t) \in Positions
  BY <1>1, Geometry
<1>7. \/ nextSlot'[2] = 0 /\ nextSlot'[1] # t[1]
      \/ nextSlot' = <<t[1], t[2] + 1>> /\ ErasedFrom(flash', nextSlot')
  <2>1. CASE After(t) = SkipSector(t)
    BY <1>1, <1>4, <2>1, Geometry DEF ResumeAt, AtSectorStart
  <2>2. CASE After(t) = <<t[1], t[2] + 1>> /\ flash'[After(t)].programmed
    <3>1. ~AtSectorStart(After(t)) /\ SkipSector(After(t)) = SkipSector(t)
      <4>1. After(t)[1] = t[1] /\ After(t)[2] = t[2] + 1
        BY <2>2
      <4>2. t[2] \in Nat
        BY <1>1, Geometry
      <4> QED BY <4>1, <4>2 DEF AtSectorStart, SkipSector
    <3> QED BY <1>1, <1>4, <2>2, <3>1, Geometry DEF ResumeAt
  <2>3. CASE After(t) = <<t[1], t[2] + 1>> /\ ~flash'[After(t)].programmed
    <3>1. After(t)[1] = t[1] /\ After(t)[2] = t[2] + 1
      BY <2>3
    <3>2. nextSlot' = After(t)
      BY <1>4, <2>3 DEF ResumeAt
    <3> QED BY <1>6, <2>3, <3>1, <3>2
  <2> QED BY <1>1, <2>1, <2>2, <2>3, Geometry
<1> QED BY <1>5, <1>7 DEF TopAt

(* A write that does not complete its record changes no record, and leaves  *)
(* what follows the newest one torn or erased.                              *)
LEMMA FaultyWrite ==
  ASSUME RingInv, appending # NoEvent, NEW c \in {Erased, Torn},
         flash' = [flash EXCEPT ![nextSlot] = c]
  PROVE  /\ flash' \in [Positions -> Cells]
         /\ RecordSlots(flash') = RecordSlots(flash)
         /\ \A p \in RecordSlots(flash) : flash'[p] = flash[p]
         /\ \A t \in Positions : TopAt(t) =>
              \A q \in Positions :
                q[1] = t[1] /\ q[2] = t[2] + 1 /\ ~flash'[q].programmed
                  => ErasedFrom(flash', q)
<1>1. /\ nextSlot \in Positions /\ flash[nextSlot] = Erased
      /\ \A p \in Positions : flash'[p] = IF p = nextSlot THEN c ELSE flash[p]
      /\ flash' \in [Positions -> Cells]
  BY WriteKeeps DEF Cells
<1>2. nextSlot \notin RecordSlots(flash) /\ c.seq = 0
  BY <1>1 DEF RecordSlots, Erased, Torn
<1>3. /\ RecordSlots(flash') = RecordSlots(flash)
      /\ \A p \in RecordSlots(flash) : flash'[p] = flash[p]
  BY <1>1, <1>2 DEF RecordSlots
<1>4. ASSUME NEW t \in Positions, TopAt(t), NEW q \in Positions,
             q[1] = t[1], q[2] = t[2] + 1, ~flash'[q].programmed
      PROVE  ErasedFrom(flash', q)
  <2>1. CASE q = nextSlot
    <3>1. c = Erased
      BY <1>1, <1>4, <2>1 DEF Torn
    <3>2. ErasedFrom(flash, q)
      BY <2>1 DEF RingInv, Prepared
    <3> QED BY <1>1, <3>1, <3>2 DEF ErasedFrom
  <2>2. CASE q # nextSlot
    <3>1. nextSlot[1] # t[1]
      <4>1. q = <<t[1], t[2] + 1>>
        BY <1>4, Geometry
      <4> QED BY <1>4, <2>2, <4>1 DEF TopAt
    <3>2. ErasedFrom(flash, q)
      BY <1>1, <1>4, <2>2 DEF TopAt
    <3> QED BY <1>1, <1>4, <3>1, <3>2 DEF ErasedFrom
  <2> QED BY <2>1, <2>2
<1> QED BY <1>1, <1>3, <1>4

(* A write into erased flash that does not complete leaves it erased or torn. *)
LEMMA FaultCells ==
  ASSUME NEW r, NEW fault \in {"none", "part"}
  PROVE  Interrupted(Erased, r, fault) \in {Erased, Torn}
BY DEF Interrupted

(* The slot of a failed write is skipped. *)
LEMMA WriteFailsKeeps ==
  ASSUME "whole" \notin WriteFaults, RingInv, WriteFails
  PROVE  RingInv'
<1>1. PICK fault \in {"none", "part"} :
        flash' = [flash EXCEPT ![nextSlot] =
                    Interrupted(@, Record(nextSeq, appending), fault)]
  BY FaultAssumption DEF WriteFails
<1>2. /\ appending # NoEvent /\ appending' = NoEvent
      /\ nextSlot' = SlotAfterFault(nextSlot)
      /\ UNCHANGED <<nextSeq, offered, acknowledged>>
  BY DEF WriteFails
<1>3. flash[nextSlot] = Erased /\ nextSlot \in Positions
  BY <1>1, <1>2, WriteKeeps
<1>4. PICK c \in {Erased, Torn} : flash' = [flash EXCEPT ![nextSlot] = c]
  BY <1>1, <1>3, FaultCells
<1>5. /\ flash' \in [Positions -> Cells]
      /\ RecordSlots(flash') = RecordSlots(flash)
      /\ \A p \in RecordSlots(flash) : flash'[p] = flash[p]
      /\ \A t \in Positions : TopAt(t) =>
           \A q \in Positions :
             q[1] = t[1] /\ q[2] = t[2] + 1 /\ ~flash'[q].programmed
               => ErasedFrom(flash', q)
  BY <1>2, <1>4, FaultyWrite
<1>6. nextSlot' \in Positions
  BY <1>2, <1>3, Geometry DEF SlotAfterFault
<1>7. TypeOK'
  BY <1>2, <1>5, <1>6 DEF RingInv, TypeOK
<1>8. Sequenced'
  BY <1>2, <1>5 DEF RingInv, TypeOK, Sequenced
<1>9. ASSUME Blank PROVE Blank'
  BY <1>2, <1>5, <1>9 DEF Blank, SlotAfterFault, AtSectorStart
<1>10. ASSUME NEW t \in Positions, TopAt(t) PROVE TopAt(t)'
  <2>1. nextSlot'[2] = 0 /\ nextSlot'[1] # t[1]
    <3>1. CASE AtSectorStart(nextSlot)
      BY <1>2, <1>3, <1>10, <3>1, Geometry DEF TopAt, SlotAfterFault, AtSectorStart
    <3>2. CASE ~AtSectorStart(nextSlot)
      <4>1. nextSlot[1] = t[1]
        BY <1>10, <3>2 DEF TopAt, AtSectorStart
      <4> QED BY <1>2, <1>3, <3>2, <4>1, Geometry DEF SlotAfterFault
    <3> QED BY <3>1, <3>2
  <2>2. t \in RecordSlots(flash') /\ flash'[t] = flash[t]
    BY <1>5, <1>10 DEF TopAt
  <2> QED BY <1>2, <1>5, <1>10, <2>1, <2>2 DEF TopAt
<1> QED BY <1>2, <1>7, <1>8, <1>9, <1>10 DEF RingInv, Prepared

(* A mount continues at a slot, with a number in range. *)
LEMMA MountTyped ==
  ASSUME flash' \in [Positions -> Cells], Mount(flash')
  PROVE  nextSeq' \in 1 .. MaxSeq /\ nextSlot' \in Positions
<1>1. CASE RecordSlots(flash') = {}
  <2>1. nextSeq' = 1 /\ nextSlot' = <<0, 0>>
    BY <1>1 DEF Mount
  <2>2. 1 \in 1 .. MaxSeq
    BY LifetimeAssumption
  <2> QED BY <2>1, <2>2, Geometry
<1>2. CASE RecordSlots(flash') # {}
  <2>1. PICK p \in RecordSlots(flash') :
          /\ nextSeq' = SeqAfter(flash'[p].seq)
          /\ nextSlot' = ResumeAt(flash', After(p))
    BY <1>2 DEF Mount
  <2>2. p \in Positions /\ flash'[p].seq \in 1 .. MaxSeq
    BY CellKinds DEF RecordSlots
  <2>3. nextSeq' \in 1 .. MaxSeq
    BY <2>1, <2>2, LifetimeAssumption DEF SeqAfter
  <2>4. nextSlot' \in Positions
    BY <2>1, <2>2, Geometry DEF ResumeAt
  <2> QED BY <2>3, <2>4
<1> QED BY <1>1, <1>2

(* A reset that completes no record finds the newest one where it was.      *)
LEMMA QuietReboot ==
  ASSUME RingInv, flash' \in [Positions -> Cells], Mount(flash'),
         RecordSlots(flash') = RecordSlots(flash),
         \A p \in RecordSlots(flash) : flash'[p] = flash[p],
         \A t \in Positions : TopAt(t) =>
           \A q \in Positions :
             q[1] = t[1] /\ q[2] = t[2] + 1 /\ ~flash'[q].programmed
               => ErasedFrom(flash', q),
         appending' = NoEvent, UNCHANGED <<offered, acknowledged>>
  PROVE  RingInv'
<1>1. TypeOK'
  BY MountTyped DEF RingInv, TypeOK
<1>2. \A p \in RecordSlots(flash) : flash[p].seq \in 1 .. MaxSeq
  BY CellKinds DEF RecordSlots, RingInv, TypeOK
<1>3. CASE Blank
  <2>1. Blank'
    BY <1>3 DEF Blank, Mount
  <2>2. Sequenced'
    BY <1>3, <2>1 DEF RingInv, Sequenced, Blank
  <2> QED BY <1>1, <2>1, <2>2 DEF RingInv, Prepared
<1>4. ASSUME NEW t \in Positions, TopAt(t) PROVE RingInv'
  <2>1. t \in RecordSlots(flash') /\ flash'[t] = flash[t] /\ flash[t].seq + 1 = nextSeq
    BY <1>4 DEF TopAt
  <2>2. /\ \A p \in RecordSlots(flash') : flash'[p].seq <= flash'[t].seq
        /\ \A p \in RecordSlots(flash') : flash'[p].seq = flash'[t].seq => p = t
    BY <1>2, <2>1 DEF RingInv, Sequenced
  <2>3. flash'[t].seq < MaxSeq
    BY <1>2, <2>1, LifetimeAssumption DEF RingInv, TypeOK
  <2>4. \A n \in acknowledged' : n <= flash'[t].event
    BY <1>4, <2>1 DEF TopAt
  <2>5. nextSeq' = flash'[t].seq + 1 /\ TopAt(t)'
    BY <1>4, <2>1, <2>2, <2>3, <2>4, MountKeeps
  <2>6. Sequenced'
    BY <2>1, <2>5 DEF RingInv, Sequenced
  <2> QED BY <1>1, <2>5, <2>6 DEF RingInv, Prepared
<1> QED BY <1>3, <1>4 DEF RingInv

(* A reset just after the last byte of a record: it is the newest one.      *)
LEMMA WholeRebootMounts ==
  ASSUME RingInv, appending # NoEvent, Mount(flash'),
         flash' = [flash EXCEPT ![nextSlot] = Record(nextSeq, appending)]
  PROVE  nextSeq' = nextSeq + 1 /\ nextSlot' = After(nextSlot)
<1> DEFINE r == Record(nextSeq, appending)
<1>1. /\ nextSlot \in Positions /\ flash[nextSlot] = Erased
      /\ nextSeq \in 1 .. MaxSeq - 1 /\ appending \in Events
      /\ \A p \in Positions : flash'[p] = IF p = nextSlot THEN r ELSE flash[p]
  BY WriteKeeps
<1>2. r.seq = nextSeq
  BY DEF Record
<1> HIDE DEF r
<1>3. RecordSlots(flash') = RecordSlots(flash) \union {nextSlot}
  BY <1>1, <1>2 DEF RecordSlots
<1>4. \A p \in RecordSlots(flash') \ {nextSlot} :
        flash'[p].seq < nextSeq /\ flash'[p].seq \in 1 .. MaxSeq
  BY <1>1, <1>3, CellKinds DEF RingInv, TypeOK, Sequenced, RecordSlots
<1>5. flash'[nextSlot].seq = nextSeq
  BY <1>1, <1>2
<1>6. \A p : IsNewest(flash', p) => p = nextSlot
  <2> SUFFICES ASSUME NEW p, IsNewest(flash', p), p # nextSlot PROVE FALSE
    OBVIOUS
  <2>1. flash'[p].seq < nextSeq /\ flash'[p].seq \in 1 .. MaxSeq
    BY <1>4 DEF IsNewest
  <2>2. nextSeq <= flash'[p].seq
    <3>1. nextSlot \in RecordSlots(flash')
      BY <1>3
    <3>2. flash'[nextSlot].seq <= flash'[p].seq
      <4>1. \/ flash'[nextSlot].seq < flash'[p].seq
            \/ flash'[nextSlot].seq = flash'[p].seq
        BY <3>1 DEF IsNewest
      <4> QED BY <1>1, <1>5, <2>1, <4>1
    <3> QED BY <1>5, <3>2
  <2> QED BY <1>1, <2>1, <2>2
<1>7. nextSeq' = nextSeq + 1 /\ nextSlot' = ResumeAt(flash', After(nextSlot))
  BY <1>1, <1>3, <1>5, <1>6, SeqAfterNext DEF Mount
<1>8. nextSlot' = After(nextSlot)
  <2>1. CASE After(nextSlot) = SkipSector(nextSlot)
    BY <1>1, <1>7, <2>1, Geometry DEF ResumeAt, AtSectorStart
  <2>2. CASE After(nextSlot) = <<nextSlot[1], nextSlot[2] + 1>>
    <3>1. /\ After(nextSlot) \in Positions /\ After(nextSlot) # nextSlot
          /\ After(nextSlot)[1] = nextSlot[1] /\ After(nextSlot)[2] >= nextSlot[2]
      <4>1. nextSlot[2] \in Nat
        BY <1>1, Geometry
      <4>2. After(nextSlot) \in Positions
        BY <1>1, Geometry
      <4>3. After(nextSlot)[1] = nextSlot[1] /\ After(nextSlot)[2] = nextSlot[2] + 1
        BY <2>2
      <4> QED BY <4>1, <4>2, <4>3
    <3>2. flash'[After(nextSlot)] = Erased
      BY <1>1, <3>1 DEF RingInv, Prepared, ErasedFrom
    <3> QED BY <1>7, <3>2 DEF ResumeAt, Erased
  <2> QED BY <1>1, <2>1, <2>2, Geometry
<1> QED BY <1>7, <1>8

LEMMA WholeReboot ==
  ASSUME RingInv, appending # NoEvent, Mount(flash'),
         flash' = [flash EXCEPT ![nextSlot] = Record(nextSeq, appending)],
         appending' = NoEvent, UNCHANGED <<offered, acknowledged>>
  PROVE  RingInv'
BY WholeRebootMounts, WholeWriteTop

(* A reset at any point is survived. *)
LEMMA RebootKeeps == RingInv /\ Reboot => RingInv'
<1> SUFFICES ASSUME RingInv, Reboot PROVE RingInv'
  OBVIOUS
<1>1. PICK fault \in IF appending = NoEvent THEN {"none"} ELSE {"none", "part", "whole"} :
        /\ flash' = [flash EXCEPT ![nextSlot] =
                       Interrupted(@, Record(nextSeq, appending), fault)]
        /\ Mount(flash')
        /\ appending' = NoEvent /\ UNCHANGED <<offered, acknowledged>>
  BY DEF Reboot
<1>2. nextSlot \in Positions /\ flash \in [Positions -> Cells]
  BY DEF RingInv, TypeOK
<1>3. CASE appending = NoEvent
  <2>1. flash' = flash
    BY <1>1, <1>2, <1>3 DEF Interrupted
  <2>2. \A t \in Positions : TopAt(t) =>
           \A q \in Positions :
             q[1] = t[1] /\ q[2] = t[2] + 1 /\ ~flash'[q].programmed
               => ErasedFrom(flash', q)
    BY <2>1 DEF TopAt
  <2> QED BY <1>1, <1>2, <2>1, <2>2, QuietReboot
<1>4. CASE appending # NoEvent /\ fault \in {"none", "part"}
  <2>1. flash[nextSlot] = Erased
    BY <1>1, <1>4, WriteKeeps
  <2>2. PICK c \in {Erased, Torn} : flash' = [flash EXCEPT ![nextSlot] = c]
    BY <1>1, <1>4, <2>1, FaultCells
  <2>3. /\ flash' \in [Positions -> Cells]
        /\ RecordSlots(flash') = RecordSlots(flash)
        /\ \A p \in RecordSlots(flash) : flash'[p] = flash[p]
        /\ \A t \in Positions : TopAt(t) =>
             \A q \in Positions :
               q[1] = t[1] /\ q[2] = t[2] + 1 /\ ~flash'[q].programmed
                 => ErasedFrom(flash', q)
    BY <1>4, <2>2, FaultyWrite
  <2> QED BY <1>1, <2>3, QuietReboot
<1>5. CASE appending # NoEvent /\ fault = "whole"
  <2>1. flash[nextSlot] = Erased
    BY <1>1, <1>5, WriteKeeps
  <2>2. flash' = [flash EXCEPT ![nextSlot] = Record(nextSeq, appending)]
    BY <1>1, <1>5, <2>1 DEF Interrupted, Program
  <2> QED BY <1>1, <1>5, <2>2, WholeReboot
<1> QED BY <1>1, <1>3, <1>4, <1>5

-----------------------------------------------------------------------------
(* The order of the sectors.  Seen from the newest record, the sector after *)
(* its own is the oldest, and its own the youngest.                         *)

Before(t, p, q) ==
  IF p[1] = q[1] THEN p[2] < q[2]
  ELSE IF p[1] > t[1] <=> q[1] > t[1] THEN p[1] < q[1]
  ELSE p[1] > t[1]

InRingOrder(t) ==
  \A p, q \in RecordSlots(flash) : Before(t, p, q) => flash[p].seq < flash[q].seq

(* The log goes on right behind the newest record, or in the next sector. *)
GoesOn(t) == nextSlot \in {<<t[1], t[2] + 1>>, SkipSector(t)}

(* Records are numbered in the order of their events. *)
Dated ==
  /\ \A p \in RecordSlots(flash) :
       flash[p].event <= offered /\ (appending # NoEvent => flash[p].event < appending)
  /\ \A p, q \in RecordSlots(flash) :
       flash[p].seq < flash[q].seq => flash[p].event < flash[q].event

AgeInv ==
  /\ Dated
  /\ \A t \in RecordSlots(flash) : nextSeq = flash[t].seq + 1 => GoesOn(t) /\ InRingOrder(t)

(* What a record says is a number. *)
LEMMA RecordNumbers ==
  ASSUME TypeOK
  PROVE  \A p \in RecordSlots(flash) :
           p \in Positions /\ flash[p].seq \in Nat \ {0} /\ flash[p].event \in Nat \ {0}
<1>1. \A p \in RecordSlots(flash) : p \in Positions /\ flash[p] \in Cells /\ flash[p].seq # 0
  BY DEF TypeOK, RecordSlots
<1> QED BY <1>1, CellKinds, LifetimeAssumption DEF Events

(* The next sector is the oldest. *)
LEMMA NextIsOldest ==
  ASSUME NEW t \in Positions, NEW p \in Positions, NEW q \in Positions,
         p[1] = SkipSector(t)[1], q[1] # p[1]
  PROVE  Before(t, p, q)
<1>1. /\ Sectors \in Nat \ {0, 1}
      /\ t[1] \in 0 .. Sectors - 1 /\ p[1] \in 0 .. Sectors - 1 /\ q[1] \in 0 .. Sectors - 1
  BY Geometry, GeometryAssumption
<1>2. p[1] = IF t[1] + 1 < Sectors THEN t[1] + 1 ELSE 0
  BY DEF SkipSector, NextSector
<1> QED BY <1>1, <1>2 DEF Before

(* When the log enters the next sector, the order of the others stays. *)
LEMMA OrderMoves ==
  ASSUME NEW t \in Positions, NEW n \in Positions, n[1] = SkipSector(t)[1],
         NEW p \in Positions, NEW q \in Positions, p[1] # n[1], q[1] # n[1], Before(n, p, q)
  PROVE  Before(t, p, q)
<1>1. /\ Sectors \in Nat \ {0, 1}
      /\ t[1] \in 0 .. Sectors - 1 /\ p[1] \in 0 .. Sectors - 1 /\ q[1] \in 0 .. Sectors - 1
      /\ p[2] \in Nat /\ q[2] \in Nat
  BY Geometry, GeometryAssumption
<1>2. n[1] = IF t[1] + 1 < Sectors THEN t[1] + 1 ELSE 0
  BY DEF SkipSector, NextSector
<1> QED BY <1>1, <1>2 DEF Before

(* Nothing written since the last record: the order is as it was. *)
LEMMA AgedShrinks ==
  ASSUME RingInv, AgeInv, nextSeq' = nextSeq,
         RecordSlots(flash') \subseteq RecordSlots(flash),
         \A p \in RecordSlots(flash') : flash'[p] = flash[p],
         offered' \in {offered, offered + 1},
         appending' # NoEvent => appending' = appending \/ appending' = offered + 1,
         \A t \in RecordSlots(flash') : nextSeq = flash[t].seq + 1 /\ GoesOn(t) => GoesOn(t)'
  PROVE  AgeInv'
<1>1. \A p \in RecordSlots(flash) : flash[p].event \in Nat \ {0}
  BY RecordNumbers DEF RingInv
<1>2. Dated'
  <2>1. \A p \in RecordSlots(flash') : flash'[p].event <= offered'
    BY <1>1 DEF AgeInv, Dated, RingInv, TypeOK
  <2>2. ASSUME NEW p \in RecordSlots(flash'), appending' # NoEvent
        PROVE  flash'[p].event < appending'
    BY <1>1, <2>2 DEF AgeInv, Dated, RingInv, TypeOK, Events, NoEvent
  <2> QED BY <2>1, <2>2 DEF AgeInv, Dated
<1>3. \A t \in RecordSlots(flash') :
        nextSeq' = flash'[t].seq + 1 => GoesOn(t)' /\ InRingOrder(t)'
  BY DEF AgeInv, InRingOrder
<1> QED BY <1>2, <1>3 DEF AgeInv

(* The record just written is the youngest. *)
LEMMA AgedGrows ==
  ASSUME RingInv, AgeInv, appending # NoEvent,
         flash' = [flash EXCEPT ![nextSlot] = Record(nextSeq, appending)],
         nextSeq' = nextSeq + 1, nextSlot' = After(nextSlot),
         offered' = offered, appending' = NoEvent
  PROVE  AgeInv'
<1> DEFINE r == Record(nextSeq, appending)
<1>1. /\ nextSlot \in Positions /\ flash[nextSlot] = Erased
      /\ nextSeq \in 1 .. MaxSeq - 1 /\ appending \in Events
      /\ \A p \in Positions : flash'[p] = IF p = nextSlot THEN r ELSE flash[p]
  BY WriteKeeps
<1>2. r.seq = nextSeq /\ r.event = appending
  BY DEF Record
<1> HIDE DEF r
<1>3. RecordSlots(flash') = RecordSlots(flash) \union {nextSlot} /\ flash'[nextSlot] = r
  BY <1>1, <1>2 DEF RecordSlots
<1>4. \A p \in RecordSlots(flash) :
        /\ p \in Positions /\ p # nextSlot /\ flash'[p] = flash[p]
        /\ flash[p].seq \in Nat /\ flash[p].event \in Nat
        /\ flash[p].seq < nextSeq /\ flash[p].event < appending
  <2>1. \A p \in RecordSlots(flash) : p \in Positions /\ p # nextSlot
    BY <1>1 DEF RecordSlots, Erased
  <2> QED BY <1>1, <2>1, RecordNumbers DEF RingInv, Sequenced, AgeInv, Dated
<1>5. appending = offered /\ appending \in Nat /\ offered \in Nat
  BY <1>1 DEF RingInv, Sequenced, TypeOK, Events
<1> DEFINE Old(p) == /\ p \in RecordSlots(flash)
                      /\ flash'[p].seq = flash[p].seq /\ flash'[p].event = flash[p].event
                      /\ flash[p].seq \in Nat /\ flash[p].event \in Nat
                      /\ flash[p].seq < nextSeq /\ flash[p].event < appending
           New(p) == p = nextSlot /\ flash'[p].seq = nextSeq /\ flash'[p].event = appending
<1>11. nextSeq \in Nat
  BY <1>1, LifetimeAssumption
<1>12. \A p \in RecordSlots(flash') : Old(p) \/ New(p)
  BY <1>2, <1>3, <1>4
<1>6. Dated'
  <2>1. \A p \in RecordSlots(flash') : flash'[p].event <= offered'
    BY <1>5, <1>12
  <2>2. ASSUME NEW p \in RecordSlots(flash'), NEW q \in RecordSlots(flash'),
               flash'[p].seq < flash'[q].seq
        PROVE  flash'[p].event < flash'[q].event
    <3>1. CASE New(p)
      <4>1. nextSeq < flash'[q].seq
        BY <2>2, <3>1
      <4>2. Old(q) \/ New(q)
        BY <1>12
      <4> QED BY <1>11, <4>1, <4>2
    <3>2. CASE Old(p) /\ New(q)
      BY <3>2
    <3>3. CASE Old(p) /\ Old(q)
      BY <2>2, <3>3 DEF AgeInv, Dated
    <3> QED BY <1>12, <3>1, <3>2, <3>3
  <2> QED BY <2>1, <2>2 DEF Dated
<1>7. ASSUME NEW t \in RecordSlots(flash'), nextSeq' = flash'[t].seq + 1
      PROVE  t = nextSlot
  <2>1. CASE Old(t)
    <3>1. nextSeq = flash[t].seq
      BY <1>7, <1>11, <2>1
    <3> QED BY <1>11, <2>1, <3>1
  <2>2. CASE New(t)
    BY <2>2
  <2> QED BY <1>7, <1>12, <2>1, <2>2
<1>8. \A t \in Positions : t = nextSlot => GoesOn(t)'
  BY <1>1, Geometry DEF GoesOn, SkipSector, NextSector
<1>9. ASSUME NEW p \in RecordSlots(flash'), NEW q \in RecordSlots(flash'),
             Before(nextSlot, p, q)
      PROVE  flash'[p].seq < flash'[q].seq
  <2>0. /\ p \in Positions /\ q \in Positions
        /\ p[1] \in Int /\ q[1] \in Int /\ nextSlot[1] \in Int
        /\ p[2] \in Int /\ q[2] \in Int /\ nextSlot[2] \in Int
    <3>1. p \in Positions /\ q \in Positions
      BY <1>1, <1>3, <1>4
    <3>2. \A x \in Positions : x[1] \in Int /\ x[2] \in Int
      BY Geometry
    <3> QED BY <1>1, <3>1, <3>2
  <2>1. CASE p = nextSlot
    <3>1. q[1] = nextSlot[1] /\ nextSlot[2] < q[2]
      BY <1>9, <2>0, <2>1 DEF Before
    <3>2. flash[q] = Erased
      BY <2>0, <3>1 DEF RingInv, Prepared, ErasedFrom
    <3>3. q \in RecordSlots(flash)
      <4>1. q # nextSlot
        BY <2>0, <3>1
      <4> QED BY <1>3, <4>1
    <3> QED BY <3>2, <3>3 DEF RecordSlots, Erased
  <2>2. CASE p # nextSlot /\ q = nextSlot
    BY <1>2, <1>3, <1>4, <1>12, <2>2
  <2>3. CASE p # nextSlot /\ q # nextSlot
    <3>1. p \in RecordSlots(flash) /\ q \in RecordSlots(flash)
      BY <1>3, <2>3
    <3>2. PICK t \in Positions : TopAt(t)
      BY <3>1 DEF RingInv, Blank
    <3>3. t \in RecordSlots(flash) /\ GoesOn(t) /\ InRingOrder(t)
      BY <3>2 DEF TopAt, AgeInv
    <3>4. Before(t, p, q)
      <4>1. CASE nextSlot = <<t[1], t[2] + 1>>
        BY <1>9, <4>1 DEF Before
      <4>2. CASE nextSlot = SkipSector(t)
        <5>1. nextSlot[2] = 0
          BY <4>2, Geometry
        <5>2. \A x \in Positions : x[1] = nextSlot[1] => x[2] >= nextSlot[2]
          BY <5>1, Geometry
        <5>3. p[1] # nextSlot[1] /\ q[1] # nextSlot[1]
          BY <2>0, <3>1, <5>2 DEF RingInv, Prepared, ErasedFrom, RecordSlots, Erased
        <5> QED BY <1>1, <1>9, <2>0, <4>2, <5>3, OrderMoves
      <4> QED BY <3>3, <4>1, <4>2 DEF GoesOn
    <3>5. flash[p].seq < flash[q].seq
      BY <3>1, <3>3, <3>4 DEF InRingOrder
    <3> QED BY <1>4, <3>1, <3>5
  <2> QED BY <2>1, <2>2, <2>3
<1>10. ASSUME NEW t \in RecordSlots(flash'), nextSeq' = flash'[t].seq + 1
       PROVE  GoesOn(t)' /\ InRingOrder(t)'
  <2>1. t = nextSlot
    BY <1>7, <1>10
  <2>2. GoesOn(t)'
    BY <1>1, <1>8, <2>1
  <2>3. InRingOrder(t)'
    BY <1>9, <2>1 DEF InRingOrder
  <2> QED BY <2>2, <2>3
<1> QED BY <1>6, <1>10 DEF AgeInv
(* The abstract log counts as this module does. *)
LEMMA SameCardinality == \A S : Abstract!Cardinality(S) = Cardinality(S)
BY DEF Abstract!Cardinality, Cardinality, Abstract!IsFiniteSet, IsFiniteSet

(* Erasing the sector that the log enters forgets some of the oldest        *)
(* events, but not the newest.                                              *)
LEMMA ErasingForgets ==
  ASSUME RingInv, AgeInv, NEW outcome, AtSectorStart(nextSlot),
         flash' = EraseTo(nextSlot, outcome), UNCHANGED acknowledged
  PROVE  Abstract!Forget \/ UNCHANGED <<Kept, acknowledged>>
<1>1. /\ \A p \in Positions : p[1] # nextSlot[1] => flash'[p] = flash[p]
      /\ \A p \in Positions : flash'[p] \in {flash[p], Erased, Torn}
  BY DEF EraseTo
<1>2. /\ RecordSlots(flash') \subseteq RecordSlots(flash)
      /\ \A p \in RecordSlots(flash') : flash'[p] = flash[p]
      /\ \A p \in RecordSlots(flash) : p[1] # nextSlot[1] => p \in RecordSlots(flash')
  BY <1>1 DEF RecordSlots, Erased, Torn
<1>3. Kept' = {flash'[p].event : p \in RecordSlots(flash')} /\ Kept' \subseteq Kept
  BY <1>2 DEF Kept
<1> DEFINE lost == Kept \ Kept'
<1>4. CASE lost = {}
  BY <1>3, <1>4
<1>5. CASE lost # {}
  <2>1. PICK t \in Positions : TopAt(t)
    BY <1>5 DEF RingInv, Blank, Kept
  <2>2. t \in RecordSlots(flash) /\ nextSeq = flash[t].seq + 1 /\ InRingOrder(t)
    BY <2>1 DEF TopAt, AgeInv
  <2>3. nextSlot = SkipSector(t) /\ nextSlot[1] # t[1]
    <3>1. GoesOn(t) /\ nextSlot[2] = 0
      BY <2>1 DEF TopAt, AgeInv, AtSectorStart
    <3>2. nextSlot # <<t[1], t[2] + 1>>
      BY <3>1, Geometry
    <3> QED BY <3>1, <3>2, Geometry DEF GoesOn
  <2>4. \A p \in RecordSlots(flash) :
          /\ p \in Positions /\ flash[p].seq \in Nat /\ flash[p].event \in Nat
          /\ flash[p].seq < nextSeq
    BY RecordNumbers DEF RingInv, Sequenced
  <2>5. flash[t].event \in Kept \ lost
    <3>1. t \in RecordSlots(flash') /\ flash'[t] = flash[t]
      BY <1>2, <2>2, <2>3
    <3> QED BY <1>3, <2>2, <3>1 DEF Kept
  <2>6. \A e \in Kept : e <= flash[t].event
    <3> SUFFICES ASSUME NEW p \in RecordSlots(flash)
                 PROVE  flash[p].event <= flash[t].event
      BY DEF Kept
    <3>1. flash[p].seq = flash[t].seq \/ flash[p].seq < flash[t].seq
      BY <2>2, <2>4
    <3>2. CASE flash[p].seq = flash[t].seq
      <4>1. p = t
        BY <2>2, <3>2 DEF RingInv, Sequenced
      <4> QED BY <2>4, <4>1
    <3>3. CASE flash[p].seq < flash[t].seq
      BY <2>2, <2>4, <3>3 DEF AgeInv, Dated
    <3> QED BY <3>1, <3>2, <3>3
  <2>7. ASSUME NEW e \in lost
        PROVE  Cardinality({d \in Kept : d < e}) < PerSector
    <3>1. PICK p \in RecordSlots(flash) : flash[p].event = e /\ p[1] = nextSlot[1]
      BY <1>2, <1>3, <2>7 DEF Kept
    <3>2. p[2] \in 0 .. PerSector - 1 /\ p = <<p[1], p[2]>>
      BY <2>4, Geometry
    <3> DEFINE places == {i \in 0 .. PerSector - 1 :
                            /\ i # p[2]
                            /\ <<p[1], i>> \in RecordSlots(flash)}
               older == {flash[<<p[1], i>>].event : i \in places}
               at == [i \in places |-> flash[<<p[1], i>>].event]
    <3>3. {d \in Kept : d < e} \subseteq older
      <4> SUFFICES ASSUME NEW q \in RecordSlots(flash), flash[q].event < e
                   PROVE  flash[q].event \in older
        BY DEF Kept
      <4>1. q # p /\ q \in Positions
        BY <2>4, <3>1
      <4>2. ~Before(t, p, q)
        BY <2>2, <2>4, <3>1 DEF InRingOrder, AgeInv, Dated
      <4>3. q[1] = p[1]
        BY <2>3, <2>4, <3>1, <4>1, <4>2, NextIsOldest
      <4>4. q = <<p[1], q[2]>> /\ q[2] \in 0 .. PerSector - 1
        BY <4>1, <4>3, Geometry
      <4>5. q[2] \in places
        BY <3>2, <4>1, <4>4
      <4> QED BY <4>4, <4>5
    <3>4. IsFiniteSet(places) /\ Cardinality(places) < PerSector
      <4>1. IsFiniteSet(0 .. PerSector - 1) /\ Cardinality(0 .. PerSector - 1) = PerSector
        BY FS_Interval, GeometryAssumption
      <4> DEFINE rest == (0 .. PerSector - 1) \ {p[2]}
      <4>2. IsFiniteSet(rest) /\ Cardinality(rest) = PerSector - 1
        BY <3>2, <4>1, FS_RemoveElement
      <4>3. places \in SUBSET rest
        OBVIOUS
      <4> HIDE DEF places, rest
      <4>4. IsFiniteSet(places) /\ Cardinality(places) <= PerSector - 1
        BY <4>2, <4>3, FS_Subset
      <4>5. Cardinality(places) \in Nat
        BY <4>4, FS_CardinalityType
      <4> QED BY <4>4, <4>5, GeometryAssumption
    <3>5. at \in Surjection(places, older)
      BY DEF Surjection
    <3> HIDE DEF places, older, at
    <3>6. IsFiniteSet(older) /\ Cardinality(older) <= Cardinality(places)
      BY <3>4, <3>5, FS_Surjection
    <3> DEFINE D == {d \in Kept : d < e}
    <3> HIDE DEF D
    <3>7. IsFiniteSet(D) /\ Cardinality(D) <= Cardinality(older)
      BY <3>3, <3>6, FS_Subset DEF D
    <3>8. Cardinality(D) \in Nat /\ Cardinality(older) \in Nat /\ Cardinality(places) \in Nat
      BY <3>4, <3>6, <3>7, FS_CardinalityType
    <3>9. Cardinality(D) < PerSector
      BY <3>4, <3>6, <3>7, <3>8, GeometryAssumption
    <3> QED BY <3>9 DEF D
  <2>8. lost \in SUBSET Abstract!Oldest(PerSector)
    BY <2>7, SameCardinality DEF Abstract!Oldest
  <2>9. Kept' = Kept \ lost
    BY <1>3
  <2> HIDE DEF lost
  <2> QED BY <2>5, <2>6, <2>8, <2>9 DEF Abstract!Forget
<1> QED BY <1>4, <1>5

(* The sector entered is erased: what is left keeps its order.              *)
LEMMA ErasingAges ==
  ASSUME RingInv, AgeInv, NEW outcome, AtSectorStart(nextSlot),
         flash' = EraseTo(nextSlot, outcome), UNCHANGED <<nextSeq, nextSlot, acknowledged>>,
         offered' = offered + 1, appending' \in {NoEvent, offered + 1}
  PROVE  AgeInv'
<1>1. /\ RecordSlots(flash') \subseteq RecordSlots(flash)
      /\ \A p \in RecordSlots(flash') : flash'[p] = flash[p]
  BY ErasingKeeps
<1>2. \A t \in RecordSlots(flash') : GoesOn(t) => GoesOn(t)'
  BY DEF GoesOn
<1> QED BY <1>1, <1>2, AgedShrinks

LEMMA StartAppendForgets ==
  ASSUME RingInv, AgeInv, StartAppend
  PROVE  AgeInv' /\ (Abstract!Forget \/ UNCHANGED <<Kept, acknowledged>>)
<1>1. /\ offered' = offered + 1 /\ appending' = offered + 1
      /\ UNCHANGED <<nextSeq, nextSlot, acknowledged>>
  BY DEF StartAppend
<1>2. CASE AtSectorStart(nextSlot)
  <2>1. PICK outcome : flash' = EraseTo(nextSlot, outcome)
    BY <1>2 DEF StartAppend
  <2> QED BY <1>1, <1>2, <2>1, ErasingForgets, ErasingAges
<1>3. CASE ~AtSectorStart(nextSlot)
  <2>1. flash' = flash
    BY <1>3 DEF StartAppend
  <2>2. AgeInv'
    BY <1>1, <2>1, AgedShrinks DEF GoesOn
  <2> QED BY <1>1, <2>1, <2>2 DEF Kept
<1> QED BY <1>2, <1>3

LEMMA EraseFailsForgets ==
  ASSUME RingInv, AgeInv, EraseFails
  PROVE  AgeInv' /\ (Abstract!Forget \/ UNCHANGED <<Kept, acknowledged>>)
<1>1. PICK outcome : flash' = EraseTo(nextSlot, outcome)
  BY DEF EraseFails
<1>2. /\ AtSectorStart(nextSlot)
      /\ offered' = offered + 1 /\ appending' = NoEvent
      /\ UNCHANGED <<nextSeq, nextSlot, acknowledged>>
  BY DEF EraseFails
<1> QED BY <1>1, <1>2, ErasingForgets, ErasingAges

(* A record that was written whole is newer than all that are kept.         *)
LEMMA WholeWriteAdds ==
  ASSUME RingInv, AgeInv, appending # NoEvent,
         flash' = [flash EXCEPT ![nextSlot] = Record(nextSeq, appending)],
         acknowledged' \in {acknowledged, acknowledged \union {appending}}
  PROVE  Abstract!Add(appending) /\ appending \in Events
<1> DEFINE r == Record(nextSeq, appending)
<1>1. /\ nextSlot \in Positions /\ flash[nextSlot] = Erased
      /\ nextSeq \in 1 .. MaxSeq - 1 /\ appending \in Events
      /\ \A p \in Positions : flash'[p] = IF p = nextSlot THEN r ELSE flash[p]
  BY WriteKeeps
<1>2. r.seq = nextSeq /\ r.event = appending /\ nextSeq # 0
  BY <1>1 DEF Record
<1> HIDE DEF r
<1>3. RecordSlots(flash') = RecordSlots(flash) \union {nextSlot} /\ flash'[nextSlot] = r
  BY <1>1, <1>2 DEF RecordSlots
<1>4. \A p \in RecordSlots(flash) : flash'[p] = flash[p]
  BY <1>1 DEF RecordSlots, Erased
<1>5. Kept' = Kept \union {appending}
  <2>1. Kept' = {flash'[p].event : p \in RecordSlots(flash')}
    BY DEF Kept
  <2>2. \A p \in RecordSlots(flash) : flash'[p].event = flash[p].event
    BY <1>4
  <2>3. flash'[nextSlot].event = appending
    BY <1>2, <1>3
  <2>4. Kept' \subseteq Kept \union {appending}
    BY <1>3, <2>1, <2>2, <2>3 DEF Kept
  <2>5. appending \in Kept'
    BY <1>3, <2>1, <2>3
  <2>6. Kept \subseteq Kept'
    <3> SUFFICES ASSUME NEW p \in RecordSlots(flash) PROVE flash[p].event \in Kept'
      BY DEF Kept
    <3> QED BY <1>3, <2>1, <2>2
  <2> QED BY <2>4, <2>5, <2>6
<1>6. \A d \in Kept : d < appending
  BY DEF Kept, AgeInv, Dated
<1> QED BY <1>1, <1>5, <1>6 DEF Abstract!Add

LEMMA WriteAdds ==
  ASSUME RingInv, AgeInv, Write
  PROVE  AgeInv' /\ \E e \in Events : Abstract!Add(e)
<1>1. flash[nextSlot] = Erased /\ nextSeq \in 1 .. MaxSeq - 1
  BY WriteKeeps DEF Write
<1>2. flash' = [flash EXCEPT ![nextSlot] = Record(nextSeq, appending)]
  BY <1>1 DEF Write, Program
<1>3. AgeInv'
  BY <1>1, <1>2, AgedGrows, SeqAfterNext DEF Write
<1>4. Abstract!Add(appending) /\ appending \in Events
  BY <1>2, WholeWriteAdds DEF Write
<1> QED BY <1>3, <1>4

(* A write that fails changes no record, and the log goes on in the next    *)
(* sector.                                                                  *)
LEMMA WriteFailsForgetsNothing ==
  ASSUME "whole" \notin WriteFaults, RingInv, AgeInv, WriteFails
  PROVE  AgeInv' /\ UNCHANGED <<Kept, acknowledged>>
<1>1. PICK fault \in {"none", "part"} :
        flash' = [flash EXCEPT ![nextSlot] =
                    Interrupted(@, Record(nextSeq, appending), fault)]
  BY FaultAssumption DEF WriteFails
<1>2. /\ appending # NoEvent /\ appending' = NoEvent
      /\ nextSlot' = SlotAfterFault(nextSlot)
      /\ UNCHANGED <<nextSeq, offered, acknowledged>>
  BY DEF WriteFails
<1>3. flash[nextSlot] = Erased /\ nextSlot \in Positions
  BY <1>1, <1>2, WriteKeeps
<1>4. PICK c \in {Erased, Torn} : flash' = [flash EXCEPT ![nextSlot] = c]
  BY <1>1, <1>3, FaultCells
<1>5. /\ RecordSlots(flash') = RecordSlots(flash)
      /\ \A p \in RecordSlots(flash) : flash'[p] = flash[p]
  BY <1>2, <1>4, FaultyWrite
<1>6. ASSUME NEW t \in RecordSlots(flash'), GoesOn(t) PROVE GoesOn(t)'
  <2>1. CASE AtSectorStart(nextSlot)
    BY <1>2, <1>6, <2>1 DEF SlotAfterFault, GoesOn
  <2>2. CASE ~AtSectorStart(nextSlot)
    <3>1. t \in Positions
      BY DEF RecordSlots
    <3>2. nextSlot # SkipSector(t)
      BY <2>2, <3>1, Geometry DEF AtSectorStart
    <3>3. nextSlot[1] = t[1]
      BY <1>6, <3>2 DEF GoesOn
    <3>4. nextSlot' = SkipSector(t)
      BY <1>2, <2>2, <3>3 DEF SlotAfterFault, SkipSector
    <3> QED BY <3>4 DEF GoesOn
  <2> QED BY <2>1, <2>2
<1>7. AgeInv'
  BY <1>2, <1>5, <1>6, AgedShrinks
<1> QED BY <1>2, <1>5, <1>7 DEF Kept

(* A mount finds the newest record again, and goes on behind it.            *)
LEMMA MountGoesOn ==
  ASSUME RingInv', flash' \in [Positions -> Cells], Mount(flash'),
         NEW t \in RecordSlots(flash'), nextSeq' = flash'[t].seq + 1
  PROVE  GoesOn(t)'
<1>1. PICK p \in RecordSlots(flash') :
        nextSeq' = SeqAfter(flash'[p].seq) /\ nextSlot' = ResumeAt(flash', After(p))
  BY DEF Mount
<1>2. /\ p \in Positions /\ t \in Positions
      /\ flash'[p].seq \in 1 .. MaxSeq /\ flash'[t].seq \in 1 .. MaxSeq
  BY CellKinds DEF RecordSlots
<1>3. flash'[p].seq < nextSeq' /\ nextSeq' \in Nat
  BY LifetimeAssumption DEF RingInv, Sequenced, TypeOK
<1>4. nextSeq' = flash'[p].seq + 1
  BY <1>1, <1>2, <1>3, LifetimeAssumption DEF SeqAfter
<1>5. p = t
  <2>1. flash'[p].seq = flash'[t].seq
    BY <1>2, <1>4
  <2> QED BY <2>1 DEF RingInv, Sequenced
<1>6. CASE After(p) = <<p[1], p[2] + 1>>
  <2>1. After(p)[1] = p[1] /\ SkipSector(After(p)) = SkipSector(p)
    BY <1>6 DEF SkipSector
  <2> QED BY <1>1, <1>5, <1>6, <2>1 DEF ResumeAt, GoesOn
<1>7. CASE After(p) = SkipSector(p)
  BY <1>1, <1>2, <1>5, <1>7, Geometry DEF ResumeAt, AtSectorStart, GoesOn
<1> QED BY <1>2, <1>6, <1>7, Geometry

LEMMA QuietRebootForgetsNothing ==
  ASSUME RingInv, RingInv', AgeInv, Mount(flash'),
         RecordSlots(flash') = RecordSlots(flash),
         \A p \in RecordSlots(flash) : flash'[p] = flash[p],
         appending' = NoEvent, UNCHANGED <<offered, acknowledged>>
  PROVE  AgeInv' /\ UNCHANGED <<Kept, acknowledged>>
<1>1. UNCHANGED <<Kept, acknowledged>>
  BY DEF Kept
<1>2. CASE RecordSlots(flash) = {}
  BY <1>1, <1>2 DEF AgeInv, Dated
<1>3. CASE RecordSlots(flash) # {}
  <2>1. PICK t \in Positions : TopAt(t)
    BY <1>3 DEF RingInv, Blank
  <2>2. PICK u \in Positions : TopAt(u)'
    BY <1>3 DEF RingInv, Blank
  <2>3. /\ t \in RecordSlots(flash) /\ nextSeq = flash[t].seq + 1
        /\ u \in RecordSlots(flash) /\ nextSeq' = flash[u].seq + 1
    BY <2>1, <2>2 DEF TopAt
  <2>4. \A p \in RecordSlots(flash) :
          flash[p].seq \in Nat /\ flash[p].seq < nextSeq /\ flash[p].seq < nextSeq'
    BY RecordNumbers DEF RingInv, Sequenced
  <2>5. nextSeq' = nextSeq
    BY <2>3, <2>4
  <2>6. \A x \in RecordSlots(flash') : nextSeq = flash[x].seq + 1 => GoesOn(x)'
    BY <2>5, MountGoesOn DEF RingInv, TypeOK
  <2>7. AgeInv'
    BY <2>5, <2>6, AgedShrinks
  <2> QED BY <1>1, <2>7
<1> QED BY <1>2, <1>3

(* A reset forgets nothing, and may have let the last record be completed.  *)
LEMMA RebootForgetsNothing ==
  ASSUME RingInv, RingInv', AgeInv, Reboot
  PROVE  AgeInv' /\ (UNCHANGED <<Kept, acknowledged>> \/ \E e \in Events : Abstract!Add(e))
<1>1. PICK fault \in IF appending = NoEvent THEN {"none"} ELSE {"none", "part", "whole"} :
        /\ flash' = [flash EXCEPT ![nextSlot] =
                       Interrupted(@, Record(nextSeq, appending), fault)]
        /\ Mount(flash')
        /\ appending' = NoEvent /\ UNCHANGED <<offered, acknowledged>>
  BY DEF Reboot
<1>2. nextSlot \in Positions /\ flash \in [Positions -> Cells]
  BY DEF RingInv, TypeOK
<1>3. CASE appending = NoEvent
  <2>1. flash' = flash
    BY <1>1, <1>2, <1>3 DEF Interrupted
  <2> QED BY <1>1, <2>1, QuietRebootForgetsNothing
<1>4. CASE appending # NoEvent /\ fault \in {"none", "part"}
  <2>1. flash[nextSlot] = Erased
    BY <1>1, <1>4, WriteKeeps
  <2>2. PICK c \in {Erased, Torn} : flash' = [flash EXCEPT ![nextSlot] = c]
    BY <1>1, <1>4, <2>1, FaultCells
  <2>3. /\ RecordSlots(flash') = RecordSlots(flash)
        /\ \A p \in RecordSlots(flash) : flash'[p] = flash[p]
    BY <1>4, <2>2, FaultyWrite
  <2> QED BY <1>1, <2>3, QuietRebootForgetsNothing
<1>5. CASE appending # NoEvent /\ fault = "whole"
  <2>1. flash[nextSlot] = Erased
    BY <1>1, <1>5, WriteKeeps
  <2>2. flash' = [flash EXCEPT ![nextSlot] = Record(nextSeq, appending)]
    BY <1>1, <1>5, <2>1 DEF Interrupted, Program
  <2>3. nextSeq' = nextSeq + 1 /\ nextSlot' = After(nextSlot)
    BY <1>1, <1>5, <2>2, WholeRebootMounts
  <2>4. AgeInv'
    BY <1>1, <1>5, <2>2, <2>3, AgedGrows
  <2>5. Abstract!Add(appending) /\ appending \in Events
    BY <1>1, <1>5, <2>2, WholeWriteAdds
  <2> QED BY <2>4, <2>5
<1> QED BY <1>1, <1>3, <1>4, <1>5

-----------------------------------------------------------------------------
(* The theorems. *)

(* The invariant holds for ever. *)
LEMMA RingAlways == ASSUME "whole" \notin WriteFaults PROVE Spec => []RingInv
<1>1. RingInv /\ UNCHANGED vars => RingInv'
  BY DEF RingInv, TypeOK, Sequenced, Prepared, Blank, TopAt, ErasedFrom, RecordSlots, vars
<1>2. RingInv /\ [Next]_vars => RingInv'
  BY <1>1, StartAppendKeeps, EraseFailsKeeps, WriteStepKeeps, WriteFailsKeeps, RebootKeeps
     DEF Next
<1> QED BY <1>2, InitRing, PTL DEF Spec

(* Every cell, number and position stays in range in every geometry (mount, *)
(* append).                                                                 *)
THEOREM RingTyped == ASSUME "whole" \notin WriteFaults PROVE Spec => []TypeOK
<1>1. RingInv => TypeOK
  BY DEF RingInv
<1> QED BY <1>1, RingAlways, PTL

(* The newest acknowledged event, or a newer one, can be read after every   *)
(* fault and every reset (append, mount).                                   *)
THEOREM NewestNeverLost ==
  ASSUME "whole" \notin WriteFaults PROVE Spec => []NewestSurvives
<1>1. RingInv => NewestSurvives
  <2> SUFFICES ASSUME RingInv, NEW n \in acknowledged PROVE \E e \in Kept : e >= n
    BY DEF NewestSurvives
  <2>1. PICK t \in Positions : TopAt(t)
    BY DEF RingInv, Blank
  <2>2. flash[t].event \in Kept /\ n <= flash[t].event
    BY <2>1 DEF TopAt, Kept
  <2>3. n \in Nat /\ flash[t].event \in Nat
    BY <2>1, CellKinds DEF RingInv, TypeOK, TopAt, RecordSlots, Events
  <2> QED BY <2>2, <2>3
<1> QED BY <1>1, RingAlways, PTL

(* The order of the records is kept, and every step is one of an event log. *)
LEMMA AgedInit == Init => AgeInv /\ Abstract!Init
<1> SUFFICES ASSUME Init PROVE AgeInv /\ Abstract!Init
  OBVIOUS
<1>1. RecordSlots(flash) = {} /\ acknowledged = {}
  BY DEF Init, RecordSlots, Erased
<1> QED BY <1>1 DEF AgeInv, Dated, Abstract!Init, Kept

LEMMA AgedNext ==
  ASSUME "whole" \notin WriteFaults
  PROVE  RingInv /\ RingInv' /\ AgeInv /\ [Next]_vars
           => AgeInv' /\ [Abstract!Next]_<<Kept, acknowledged>>
<1> SUFFICES ASSUME RingInv, RingInv', AgeInv, [Next]_vars
             PROVE  AgeInv' /\ (Abstract!Next \/ UNCHANGED <<Kept, acknowledged>>)
  OBVIOUS
<1>1. CASE StartAppend
  BY <1>1, StartAppendForgets DEF Abstract!Next
<1>2. CASE EraseFails
  BY <1>2, EraseFailsForgets DEF Abstract!Next
<1>3. CASE Write
  BY <1>3, WriteAdds DEF Abstract!Next
<1>4. CASE WriteFails
  BY <1>4, WriteFailsForgetsNothing
<1>5. CASE Reboot
  BY <1>5, RebootForgetsNothing DEF Abstract!Next
<1>6. CASE UNCHANGED vars
  BY <1>6 DEF vars, AgeInv, Dated, InRingOrder, GoesOn, RecordSlots, Kept
<1> QED BY <1>1, <1>2, <1>3, <1>4, <1>5, <1>6 DEF Next

LEMMA AgedAlways == ASSUME "whole" \notin WriteFaults PROVE Spec => []AgeInv
<1>1. RingInv /\ RingInv' /\ AgeInv /\ [Next]_vars => AgeInv'
  BY AgedNext
<1> QED BY <1>1, AgedInit, RingAlways, PTL DEF Spec

(* The flash log keeps what an event log promises, in every geometry: each  *)
(* event is added after all that are kept, and what is forgotten when a     *)
(* sector is erased is among the PerSector oldest events and never the      *)
(* newest (append, mount).                                                  *)
THEOREM LogForgetsOldest ==
  ASSUME "whole" \notin WriteFaults PROVE Spec => EventLogSpec
<1>1. RingInv /\ RingInv' /\ AgeInv /\ [Next]_vars => [Abstract!Next]_<<Kept, acknowledged>>
  BY AgedNext
<1> QED BY <1>1, AgedInit, AgedAlways, RingAlways, PTL DEF Spec, EventLogSpec, Abstract!Spec

(* The latest event of a kind, which /status shows, is the newest that is   *)
(* kept of that kind (latest_of_kind).                                      *)
THEOREM LatestIsNewest == ASSUME "whole" \notin WriteFaults PROVE Spec => []LatestAgrees
<1>1. RingInv /\ AgeInv => LatestAgrees
  <2> SUFFICES ASSUME RingInv, AgeInv, NEW kind \in Kinds
               PROVE  LatestOfKind(kind) = Newest({e \in Kept : KindOf[e] = kind}, 1)
    BY DEF LatestAgrees
  <2> DEFINE E == {e \in Kept : KindOf[e] = kind}
             Above(e) == {d \in E : d > e}
  <2>1. \A p \in RecordSlots(flash) :
          flash[p].event \in Events /\ flash[p].event \in Nat /\ flash[p].seq \in Nat
    BY CellKinds, LifetimeAssumption DEF RingInv, TypeOK, RecordSlots, Events
  <2>2. \A p, q \in RecordSlots(flash) :
          flash[q].seq <= flash[p].seq <=> flash[q].event <= flash[p].event
    <3> SUFFICES ASSUME NEW p \in RecordSlots(flash), NEW q \in RecordSlots(flash)
                 PROVE  flash[q].seq <= flash[p].seq <=> flash[q].event <= flash[p].event
      OBVIOUS
    <3>1. flash[q].seq = flash[p].seq => q = p
      BY DEF RingInv, Sequenced
    <3>2. /\ flash[q].seq < flash[p].seq => flash[q].event < flash[p].event
          /\ flash[p].seq < flash[q].seq => flash[p].event < flash[q].event
      BY DEF AgeInv, Dated
    <3> QED BY <2>1, <3>1, <3>2
  <2>3. LatestOfKind(kind) = {e \in E : Above(e) = {}}
    <3>1. \A p \in RecordSlots(flash) :
            (\A q \in RecordSlots(flash) :
               KindOf[flash[q].event] = kind => flash[q].seq <= flash[p].seq)
              <=> Above(flash[p].event) = {}
      BY <2>1, <2>2 DEF Kept
    <3> HIDE DEF Above
    <3> QED BY <3>1 DEF LatestOfKind, Kept
  <2>4. \A e : Cardinality(Above(e)) < 1 <=> Above(e) = {}
    <3> TAKE e
    <3>1. IsFiniteSet(Events)
      BY FS_Interval, LifetimeAssumption DEF Events
    <3>2. Above(e) \in SUBSET Events
      BY <2>1 DEF Kept
    <3> HIDE DEF Above
    <3>3. IsFiniteSet(Above(e))
      BY <3>1, <3>2, FS_Subset
    <3>4. Cardinality(Above(e)) \in Nat /\ (Cardinality(Above(e)) = 0 <=> Above(e) = {})
      BY <3>3, FS_CardinalityType, FS_EmptySet
    <3> QED BY <3>4
  <2> HIDE DEF E
  <2>5. Newest(E, 1) = {e \in E : Cardinality(Above(e)) < 1}
    BY Zenon DEF Newest
  <2> HIDE DEF Above
  <2>6. Newest(E, 1) = {e \in E : Above(e) = {}}
    BY <2>4, <2>5
  <2> QED BY <2>3, <2>6 DEF E
<1> QED BY <1>1, AgedAlways, RingAlways, PTL
=============================================================================
