-------------------------- MODULE ReassemblyProofs --------------------------
(***************************************************************************)
(* Theorems about Reassembly for every set of messages, every assignment   *)
(* of keys and numbers of parts, every size of the storage and of the      *)
(* table, every number of copies, resets and erasures, and references that *)
(* come back at any time.  Messages parts of which are held under one key  *)
(* at a time cannot be told apart by it: what is proved of the contents of *)
(* a message speaks of those it has met.                                   *)
(***************************************************************************)
EXTENDS Reassembly, QueueLemmas, FiniteSetTheorems

-----------------------------------------------------------------------------
(* A group that is sound holds each part under its number, only parts of    *)
(* its key, and slots only of parts that it holds.                          *)
PartMaps == UNION {[D -> Sent] : D \in SUBSET Nat}
SlotMaps == UNION {[D -> Sent] : D \in SUBSET Slots}
GroupRecords == [key : Keys, parts : PartMaps, slots : SlotMaps, sweeps : Nat]

OfKey(g) ==
  /\ DOMAIN g.parts \subseteq 1 .. Total[g.key]
  /\ \A p \in DOMAIN g.parts : g.parts[p][2] = p /\ KeyOf[g.parts[p][1]] = g.key
  /\ Cardinality(DOMAIN g.slots) <= MaxSlots
  /\ \A s \in DOMAIN g.slots : \E p \in DOMAIN g.parts : g.slots[s] = g.parts[p]

Sound == {g \in GroupRecords : OfKey(g)}
Open == {g \in Sound : ~Complete(g)}

(* The table: one open group for a key, the first seen first. *)
TableInv(table) ==
  /\ table \in Seq(Open) /\ Len(table) <= MaxGroups
  /\ \A i, j \in DOMAIN table : table[i].key = table[j].key => i = j
  /\ \A i, j \in DOMAIN table : i < j => table[i].sweeps >= table[j].sweeps

(* Parts in storage and in the table; the messages of those of one key met. *)
InTable(table, c) == \E i \in DOMAIN table : \E p \in DOMAIN table[i].parts : table[i].parts[p] = c
HeldPart(c) == (\E s \in Slots : storage[s] = c) \/ InTable(groups, c)
SameKey(c, e) == KeyOf[c[1]] = KeyOf[e[1]]
MetInv == \A c, e \in Sent : HeldPart(c) /\ HeldPart(e) /\ SameKey(c, e) => Together(c[1], e[1])

PlaceInv ==
  /\ storage \in [Slots -> Sent \cup {Empty}]
  /\ cursor \in 1 .. SlotCount + 1
  /\ deletions \subseteq [slot : Slots, of : Sent]
  /\ copies \in [Sent -> Nat] /\ \A c \in Sent : copies[c] <= Copies[c]
  /\ forwarded \subseteq PartMaps
  /\ met \subseteq SUBSET Messages
  /\ mishaps \in Nat

(* A part whose slot waits for its deletion was in a message forwarded. *)
DeletionInv == \A d \in deletions : \E text \in forwarded : d.of \in Range(text)

ReassemblyInv ==
  PlaceInv /\ TableInv(groups) /\ MetInv /\ MixedOnlyIfMet /\ DeletionInv

-----------------------------------------------------------------------------
(* Parts and groups. *)

(* The names in a part. *)
LEMMA PartOf ==
  ASSUME NEW c \in Sent
  PROVE  /\ c[1] \in Messages /\ c[2] \in Nat /\ c = <<c[1], c[2]>>
         /\ KeyOf[c[1]] \in Keys /\ Total[KeyOf[c[1]]] \in Nat \ {0}
         /\ c # Empty
BY ReassemblyAssumption DEF Keys

(* The slots of a group are finitely many. *)
LEMMA SlotsFinite ==
  ASSUME NEW D, D \subseteq Slots
  PROVE  IsFiniteSet(D) /\ Cardinality(D) \in Nat
<1>1. IsFiniteSet(Slots)
  BY ReassemblyAssumption, FS_Interval DEF Slots
<1> QED BY <1>1, FS_Subset, FS_CardinalityType

(* The fields of a group. *)
LEMMA GroupFields ==
  ASSUME NEW g \in Sound
  PROVE  /\ g \in GroupRecords /\ g.key \in Keys /\ g.sweeps \in Nat
         /\ DOMAIN g.slots \subseteq Slots /\ DOMAIN g.parts \subseteq Nat
         /\ \A p \in DOMAIN g.parts : g.parts[p] \in Sent
         /\ \A s \in DOMAIN g.slots : g.slots[s] \in Sent
         /\ OfKey(g)
<1>1. /\ g \in GroupRecords /\ g.key \in Keys /\ g.sweeps \in Nat /\ OfKey(g)
      /\ g.parts \in PartMaps /\ g.slots \in SlotMaps
  BY DEF Sound, GroupRecords
<1>2. PICK D \in SUBSET Nat : g.parts \in [D -> Sent]
  BY <1>1 DEF PartMaps
<1>3. PICK E \in SUBSET Slots : g.slots \in [E -> Sent]
  BY <1>1 DEF SlotMaps
<1> QED BY <1>1, <1>2, <1>3

(* A new group is sound and open. *)
LEMMA NewGroupOpen ==
  ASSUME NEW key \in Keys
  PROVE  NewGroup(key) \in Open
<1>1. <<>> \in PartMaps /\ <<>> \in SlotMaps /\ DOMAIN <<>> = {}
  <2>1. <<>> \in [{} -> Sent]
    OBVIOUS
  <2>2. {} \in SUBSET Nat /\ {} \in SUBSET Slots
    OBVIOUS
  <2> QED BY <2>1, <2>2 DEF PartMaps, SlotMaps
<1>2. Cardinality({}) = 0
  BY FS_EmptySet
<1>3. NewGroup(key) \in GroupRecords /\ OfKey(NewGroup(key))
  BY <1>1, <1>2, ReassemblyAssumption DEF NewGroup, GroupRecords, OfKey
<1>4. Total[key] \in Nat \ {0}
  BY ReassemblyAssumption
<1>5. ~Complete(NewGroup(key))
  BY <1>1, <1>4 DEF Complete, NewGroup
<1> QED BY <1>3, <1>5 DEF Sound, Open

(* What Insert makes of a group, field by field. *)
LEMMA InsertFields ==
  ASSUME NEW g \in GroupRecords, NEW slot, NEW c
  PROVE  Insert(g, slot, c) =
           [key |-> g.key,
            parts |-> IF c[2] \in DOMAIN g.parts THEN g.parts ELSE With(g.parts, c[2], c),
            slots |-> IF slot = NoSlot THEN g.slots ELSE With(g.slots, slot, c),
            sweeps |-> g.sweeps]
<1>1. Tracked(g, slot, c) =
        [key |-> g.key, parts |-> g.parts,
         slots |-> IF slot = NoSlot THEN g.slots ELSE With(g.slots, slot, c),
         sweeps |-> g.sweeps]
  BY DEF Tracked, GroupRecords
<1> QED BY <1>1 DEF Insert

(* A part that is accepted is one more part of the group, and its slot one  *)
(* more slot.                                                               *)
LEMMA InsertSound ==
  ASSUME NEW g \in Sound, NEW c \in Sent, NEW slot \in Slots \cup {NoSlot},
         KeyOf[c[1]] = g.key, ~Malformed(c), ~Conflicts(g, c), Trackable(g, slot, c)
  PROVE  /\ Insert(g, slot, c) \in Sound
         /\ Insert(g, slot, c).key = g.key /\ Insert(g, slot, c).sweeps = g.sweeps
         /\ \A p \in DOMAIN Insert(g, slot, c).parts :
              \/ Insert(g, slot, c).parts[p] = c
              \/ p \in DOMAIN g.parts /\ Insert(g, slot, c).parts[p] = g.parts[p]
<1> DEFINE parts == IF c[2] \in DOMAIN g.parts THEN g.parts ELSE With(g.parts, c[2], c)
           slots == IF slot = NoSlot THEN g.slots ELSE With(g.slots, slot, c)
           h == Insert(g, slot, c)
<1>1. h = [key |-> g.key, parts |-> parts, slots |-> slots, sweeps |-> g.sweeps]
  BY GroupFields, InsertFields
<1>2. c[2] \in 1 .. Total[g.key]
  BY DEF Malformed, Parts
<1>3. /\ parts \in PartMaps /\ DOMAIN parts = DOMAIN g.parts \cup {c[2]} /\ parts[c[2]] = c
      /\ \A p \in DOMAIN g.parts : parts[p] = g.parts[p]
  <2>1. CASE c[2] \in DOMAIN g.parts
    BY <2>1 DEF Conflicts, Sound, GroupRecords
  <2>2. CASE c[2] \notin DOMAIN g.parts
    <3>1. /\ parts = With(g.parts, c[2], c) /\ DOMAIN parts = DOMAIN g.parts \cup {c[2]}
          /\ parts[c[2]] = c /\ \A p \in DOMAIN g.parts : parts[p] = g.parts[p]
      BY <2>2 DEF With
    <3>2. DOMAIN parts \in SUBSET Nat /\ \A p \in DOMAIN parts : parts[p] \in Sent
      BY <3>1, GroupFields, PartOf
    <3>3. parts \in [DOMAIN parts -> Sent]
      BY <3>1, <3>2 DEF With
    <3> QED BY <3>1, <3>2, <3>3 DEF PartMaps
  <2> QED BY <2>1, <2>2
<1>4. /\ slots \in SlotMaps /\ Cardinality(DOMAIN slots) <= MaxSlots
      /\ \A s \in DOMAIN slots : slots[s] = c \/ (s \in DOMAIN g.slots /\ slots[s] = g.slots[s])
  <2>1. CASE slot = NoSlot
    BY <2>1, GroupFields DEF OfKey, GroupRecords
  <2>2. CASE slot # NoSlot
    <3>1. /\ slots = With(g.slots, slot, c) /\ DOMAIN slots = DOMAIN g.slots \cup {slot}
          /\ slots[slot] = c /\ \A s \in DOMAIN g.slots : s = slot \/ slots[s] = g.slots[s]
      BY <2>2 DEF With
    <3>2. DOMAIN slots \in SUBSET Slots /\ \A s \in DOMAIN slots : slots[s] \in Sent
      BY <2>2, <3>1, GroupFields
    <3>3. slots \in [DOMAIN slots -> Sent]
      BY <3>1, <3>2 DEF With
    <3>4. CASE slot \in DOMAIN g.slots
      <4>1. DOMAIN slots = DOMAIN g.slots
        BY <3>1, <3>4
      <4> QED BY <3>1, <3>2, <3>3, <4>1, GroupFields DEF OfKey, SlotMaps
    <3>5. CASE slot \notin DOMAIN g.slots
      <4>1. Cardinality(DOMAIN g.slots) < MaxSlots
        BY <2>2, <3>5 DEF Trackable
      <4>2. IsFiniteSet(DOMAIN g.slots) /\ Cardinality(DOMAIN g.slots) \in Nat
        BY GroupFields, SlotsFinite
      <4>3. Cardinality(DOMAIN slots) = Cardinality(DOMAIN g.slots) + 1
        BY <3>1, <3>5, <4>2, FS_AddElement
      <4>4. Cardinality(DOMAIN slots) <= MaxSlots
        BY <4>1, <4>2, <4>3, ReassemblyAssumption
      <4> QED BY <3>1, <3>2, <3>3, <4>4 DEF SlotMaps
    <3> QED BY <3>4, <3>5
  <2> QED BY <2>1, <2>2
<1> HIDE DEF parts, slots, h
<1>5. h.key = g.key /\ h.parts = parts /\ h.slots = slots /\ h.sweeps = g.sweeps
  BY <1>1
<1>6. h \in GroupRecords
  BY <1>1, <1>3, <1>4, GroupFields DEF GroupRecords
<1>7. OfKey(h)
  <2>1. DOMAIN parts \subseteq 1 .. Total[g.key]
    BY <1>2, <1>3, GroupFields DEF OfKey
  <2>2. \A p \in DOMAIN parts : parts[p][2] = p /\ KeyOf[parts[p][1]] = g.key
    BY <1>3, GroupFields DEF OfKey
  <2>3. \A s \in DOMAIN slots : \E p \in DOMAIN parts : slots[s] = parts[p]
    BY <1>3, <1>4, GroupFields DEF OfKey
  <2> QED BY <1>4, <1>5, <2>1, <2>2, <2>3 DEF OfKey
<1> QED BY <1>3, <1>5, <1>6, <1>7 DEF Sound, h

-----------------------------------------------------------------------------
(* The table. *)

(* The group of a key, found or created, with the eviction of the oldest.   *)
LEMMA FindOrCreateKeeps ==
  ASSUME NEW table, TableInv(table), NEW key \in Keys
  PROVE  /\ TableInv(FindOrCreate(table, key))
         /\ IndexOf(FindOrCreate(table, key), key) \in DOMAIN FindOrCreate(table, key)
         /\ FindOrCreate(table, key)[IndexOf(FindOrCreate(table, key), key)].key = key
         /\ \A j \in DOMAIN FindOrCreate(table, key) :
              \/ FindOrCreate(table, key)[j] = NewGroup(key)
              \/ \E k \in DOMAIN table : FindOrCreate(table, key)[j] = table[k]
<1> DEFINE t == FindOrCreate(table, key)
<1>0. /\ Len(table) \in Nat /\ DOMAIN table = 1 .. Len(table) /\ table \in Seq(Open)
      /\ \A j \in DOMAIN table : table[j] \in Open /\ table[j].sweeps \in Nat
  BY LenProperties, ElementOfSeq, GroupFields DEF TableInv, Open
<1>1. ASSUME HasGroup(t, key)
      PROVE  IndexOf(t, key) \in DOMAIN t /\ t[IndexOf(t, key)].key = key
  BY <1>1 DEF HasGroup, IndexOf
<1>2. CASE HasGroup(table, key)
  BY <1>1, <1>2 DEF FindOrCreate
<1>3. CASE ~HasGroup(table, key)
  <2> DEFINE room == MakeRoom(table)
             d == Len(table) - Len(room)
  <2>1. /\ room \in Seq(Open) /\ Len(room) \in Nat /\ d \in {0, 1} /\ Len(room) < MaxGroups
        /\ \A j \in 1 .. Len(room) : j + d \in DOMAIN table /\ room[j] = table[j + d]
    <3>1. CASE Len(table) >= MaxGroups
      <4>1. room = Tail(table) /\ table # <<>>
        BY <1>0, <3>1, ReassemblyAssumption DEF MakeRoom
      <4>2. /\ room \in Seq(Open) /\ Len(room) = Len(table) - 1
            /\ \A j \in 1 .. Len(room) : room[j] = table[j + 1]
        BY <1>0, <4>1, HeadTailProperties
      <4> QED BY <1>0, <3>1, <4>2, ReassemblyAssumption DEF TableInv
    <3>2. CASE ~(Len(table) >= MaxGroups)
      <4>1. room = table
        BY <3>2 DEF MakeRoom
      <4> QED BY <1>0, <3>2, <4>1, ReassemblyAssumption
    <3> QED BY <3>1, <3>2
  <2> HIDE DEF room
  <2>2. t = Append(room, NewGroup(key)) /\ NewGroup(key) \in Open
    BY <1>3, NewGroupOpen DEF FindOrCreate, room
  <2>3. /\ t \in Seq(Open) /\ Len(t) = Len(room) + 1 /\ DOMAIN t = 1 .. Len(room) + 1
        /\ \A j \in 1 .. Len(room) : t[j] = room[j]
        /\ t[Len(room) + 1] = NewGroup(key)
    <3>1. /\ t \in Seq(Open) /\ Len(t) = Len(room) + 1
          /\ \A j \in 1 .. Len(room) : t[j] = room[j]
          /\ t[Len(room) + 1] = NewGroup(key)
      BY <2>1, <2>2, AppendProperties
    <3> QED BY <3>1, LenProperties
  <2> HIDE DEF t, d
  <2>4. NewGroup(key).key = key /\ NewGroup(key).sweeps = 0
    BY DEF NewGroup
  <2>5. \A j \in DOMAIN t : \/ j = Len(room) + 1 /\ t[j] = NewGroup(key)
                            \/ j \in 1 .. Len(room) /\ j + d \in DOMAIN table /\ t[j] = table[j + d]
    BY <2>1, <2>3
  <2>6. \A j \in DOMAIN t : t[j] = NewGroup(key) \/ \E k \in DOMAIN table : t[j] = table[k]
    BY <2>5
  <2>7. \A i, j \in DOMAIN t : t[i].key = t[j].key => i = j
    <3> SUFFICES ASSUME NEW i \in DOMAIN t, NEW j \in DOMAIN t, t[i].key = t[j].key
                 PROVE  i = j
      OBVIOUS
    <3>1. \A k \in DOMAIN table : table[k].key # key
      BY <1>3 DEF HasGroup
    <3>2. i \in Nat /\ j \in Nat
      BY <2>1, <2>3
    <3>3. CASE i + d \in DOMAIN table /\ t[i] = table[i + d] /\ j + d \in DOMAIN table
               /\ t[j] = table[j + d]
      <4>1. i + d = j + d
        BY <3>3 DEF TableInv
      <4> QED BY <2>1, <3>2, <4>1
    <3> QED BY <2>4, <2>5, <3>1, <3>3
  <2>8. \A i, j \in DOMAIN t : i < j => t[i].sweeps >= t[j].sweeps
    <3> SUFFICES ASSUME NEW i \in DOMAIN t, NEW j \in DOMAIN t, i < j
                 PROVE  t[i].sweeps >= t[j].sweeps
      OBVIOUS
    <3>1. i \in 1 .. Len(room) /\ i + d \in DOMAIN table /\ t[i] = table[i + d]
          /\ t[i].sweeps \in Nat
      BY <1>0, <2>1, <2>3, <2>5
    <3>2. CASE j = Len(room) + 1 /\ t[j] = NewGroup(key)
      BY <2>4, <3>1, <3>2
    <3>3. CASE j \in 1 .. Len(room) /\ j + d \in DOMAIN table /\ t[j] = table[j + d]
      <4>1. i + d < j + d
        BY <2>1, <3>1, <3>3
      <4> QED BY <3>1, <3>3, <4>1 DEF TableInv
    <3> QED BY <2>5, <3>2, <3>3
  <2>9. Len(t) <= MaxGroups
    BY <2>1, <2>3, ReassemblyAssumption
  <2>10. HasGroup(t, key)
    BY <2>1, <2>3, <2>4 DEF HasGroup
  <2> QED BY <1>1, <2>3, <2>6, <2>7, <2>8, <2>9, <2>10 DEF TableInv, t
<1> QED BY <1>2, <1>3

(* A group gives way to a later state of itself that is open. *)
LEMMA ReplaceKeeps ==
  ASSUME NEW table, TableInv(table), NEW i \in DOMAIN table, NEW g \in Open,
         g.key = table[i].key, g.sweeps = table[i].sweeps
  PROVE  /\ TableInv([table EXCEPT ![i] = g]) /\ DOMAIN [table EXCEPT ![i] = g] = DOMAIN table
         /\ \A j \in DOMAIN table : [table EXCEPT ![i] = g][j] = IF j = i THEN g ELSE table[j]
<1> DEFINE t == [table EXCEPT ![i] = g]
<1>1. table \in Seq(Open) /\ i \in 1 .. Len(table)
  BY LenProperties DEF TableInv
<1>2. /\ t \in Seq(Open) /\ Len(t) = Len(table) /\ DOMAIN t = DOMAIN table
      /\ \A j \in DOMAIN table : t[j] = IF j = i THEN g ELSE table[j]
  BY <1>1, ExceptSeq, LenProperties
<1> HIDE DEF t
<1>3. \A j \in DOMAIN table : t[j].key = table[j].key /\ t[j].sweeps = table[j].sweeps
  BY <1>2
<1>4. TableInv(t)
  <2>1. \A j, k \in DOMAIN t : t[j].key = t[k].key => j = k
    BY <1>2, <1>3 DEF TableInv
  <2>2. \A j, k \in DOMAIN t : j < k => t[j].sweeps >= t[k].sweeps
    BY <1>2, <1>3 DEF TableInv
  <2>3. Len(t) <= MaxGroups
    BY <1>2 DEF TableInv
  <2> QED BY <1>2, <2>1, <2>2, <2>3 DEF TableInv
<1> QED BY <1>2, <1>4 DEF t

(* A group that is complete leaves the table. *)
LEMMA RemoveKeeps ==
  ASSUME NEW table, TableInv(table), NEW i \in DOMAIN table
  PROVE  /\ TableInv(RemoveAt(table, i))
         /\ \A j \in DOMAIN RemoveAt(table, i) :
              \E k \in DOMAIN table : RemoveAt(table, i)[j] = table[k]
<1> DEFINE t == RemoveAt(table, i)
<1>0. table \in Seq(Open) /\ i \in 1 .. Len(table)
  BY LenProperties DEF TableInv
<1>1. Len(table) \in Nat /\ DOMAIN table = 1 .. Len(table) /\ Len(table) <= MaxGroups
  BY <1>0, LenProperties DEF TableInv
<1>2. /\ t \in Seq(Open) /\ Len(t) = Len(table) - 1
      /\ \A j \in 1 .. Len(table) - 1 : t[j] = IF j < i THEN table[j] ELSE table[j + 1]
  BY <1>0, RemoveAtProperties
<1>3. DOMAIN t = 1 .. Len(table) - 1
  BY <1>2, LenProperties
<1> HIDE DEF t
<1> DEFINE At(j) == IF j < i THEN j ELSE j + 1
<1>4. \A j \in DOMAIN t : At(j) \in DOMAIN table /\ t[j] = table[At(j)]
  BY <1>0, <1>1, <1>2, <1>3
<1>5. \A j, k \in DOMAIN t : (At(j) = At(k) => j = k) /\ (j < k => At(j) < At(k))
  BY <1>0, <1>1, <1>3
<1> HIDE DEF At
<1>6. \A j, k \in DOMAIN t : t[j].key = t[k].key => j = k
  BY <1>4, <1>5 DEF TableInv
<1>7. \A j, k \in DOMAIN t : j < k => t[j].sweeps >= t[k].sweeps
  BY <1>4, <1>5 DEF TableInv
<1>8. Len(t) <= MaxGroups
  BY <1>1, <1>2, ReassemblyAssumption
<1> QED BY <1>2, <1>4, <1>6, <1>7, <1>8 DEF TableInv, t

(* A sweep ends: the oldest groups go, the others are a sweep older. *)
LEMMA OlderKeeps ==
  ASSUME NEW table, TableInv(table)
  PROVE  /\ TableInv(Older(table))
         /\ \A c : InTable(Older(table), c) => InTable(table, c)
<1> DEFINE gone == Cardinality(Expired(table))
           t == Older(table)
<1>1. /\ table \in Seq(Open) /\ Len(table) \in Nat /\ DOMAIN table = 1 .. Len(table)
      /\ Len(table) <= MaxGroups /\ \A i \in 1 .. Len(table) : table[i] \in Open
  BY LenProperties, ElementOfSeq DEF TableInv
<1>2. gone \in Nat /\ gone <= Len(table)
  <2>1. IsFiniteSet(DOMAIN table) /\ Cardinality(DOMAIN table) = Len(table)
    <3>1. \A k \in Nat : IsFiniteSet(1 .. k) /\ Cardinality(1 .. k) = k
      BY FS_Interval
    <3> QED BY <1>1, <3>1
  <2>2. Expired(table) \subseteq DOMAIN table
    BY DEF Expired
  <2> QED BY <2>1, <2>2, FS_Subset, FS_CardinalityType
<1>3. t = [i \in 1 .. Len(table) - gone |->
             [table[i + gone] EXCEPT !.sweeps = table[i + gone].sweeps + 1]]
  BY DEF Older
<1> HIDE DEF gone, t
<1>4. ASSUME NEW i \in 1 .. Len(table) - gone
      PROVE  /\ i + gone \in 1 .. Len(table) /\ t[i] \in Open
             /\ t[i].key = table[i + gone].key /\ t[i].parts = table[i + gone].parts
             /\ t[i].sweeps = table[i + gone].sweeps + 1 /\ table[i + gone].sweeps \in Nat
  <2> DEFINE g == table[i + gone]
             h == t[i]
  <2>1. i + gone \in 1 .. Len(table)
    BY <1>1, <1>2
  <2>2. g \in Open /\ g \in Sound /\ g \in GroupRecords /\ OfKey(g) /\ ~Complete(g)
        /\ g.sweeps \in Nat
    BY <1>1, <2>1, GroupFields DEF Open
  <2>3. h = [g EXCEPT !.sweeps = g.sweeps + 1]
    BY <1>3
  <2> HIDE DEF g, h
  <2>4. /\ h \in GroupRecords /\ h.key = g.key /\ h.parts = g.parts /\ h.slots = g.slots
        /\ h.sweeps = g.sweeps + 1
    BY <2>2, <2>3 DEF GroupRecords
  <2>5. OfKey(h) /\ ~Complete(h)
    BY <2>2, <2>4 DEF OfKey, Complete
  <2> QED BY <2>1, <2>2, <2>4, <2>5 DEF Open, Sound, g, h
<1>5. t \in Seq(Open) /\ Len(t) = Len(table) - gone /\ DOMAIN t = 1 .. Len(table) - gone
  <2> DEFINE n == Len(table) - gone
  <2>1. n \in Nat
    BY <1>1, <1>2
  <2>2. DOMAIN t = 1 .. n /\ t = [i \in 1 .. n |-> t[i]]
    BY <1>3
  <2>3. \A i \in 1 .. n : t[i] \in Open
    BY <1>4
  <2> HIDE DEF n
  <2>4. t \in Seq(Open) /\ Len(t) = n
    BY <2>1, <2>2, <2>3
  <2> QED BY <2>2, <2>4 DEF n
<1>6. \A i, j \in DOMAIN t : t[i].key = t[j].key => i = j
  <2> SUFFICES ASSUME NEW i \in DOMAIN t, NEW j \in DOMAIN t, t[i].key = t[j].key
               PROVE  i = j
    OBVIOUS
  <2>1. /\ i + gone \in DOMAIN table /\ j + gone \in DOMAIN table
        /\ table[i + gone].key = table[j + gone].key
    BY <1>1, <1>4, <1>5
  <2>2. i + gone = j + gone
    BY <2>1 DEF TableInv
  <2> QED BY <1>1, <1>2, <1>5, <2>2
<1>7. \A i, j \in DOMAIN t : i < j => t[i].sweeps >= t[j].sweeps
  <2> SUFFICES ASSUME NEW i \in DOMAIN t, NEW j \in DOMAIN t, i < j
               PROVE  t[i].sweeps >= t[j].sweeps
    OBVIOUS
  <2>1. i + gone < j + gone
    BY <1>1, <1>2, <1>5
  <2>2. table[i + gone].sweeps >= table[j + gone].sweeps
    BY <1>1, <1>4, <1>5, <2>1 DEF TableInv
  <2>3. /\ t[i].sweeps = table[i + gone].sweeps + 1 /\ table[i + gone].sweeps \in Nat
        /\ t[j].sweeps = table[j + gone].sweeps + 1 /\ table[j + gone].sweeps \in Nat
    BY <1>4, <1>5
  <2> QED BY <2>2, <2>3
<1>8. Len(t) <= MaxGroups
  BY <1>1, <1>2, <1>5, ReassemblyAssumption
<1>9. \A c : InTable(t, c) => InTable(table, c)
  BY <1>1, <1>4, <1>5 DEF InTable
<1> QED BY <1>5, <1>6, <1>7, <1>8, <1>9 DEF TableInv, t

(* What feed_with_slot does: the table stays well formed and gains no other *)
(* part, and a complete group is sound and holds the part and parts that    *)
(* were in the table.                                                       *)
LEMMA FeedKeeps ==
  ASSUME TableInv(groups), NEW c \in Sent, NEW slot \in Slots \cup {NoSlot}
  PROVE  /\ TableInv(Feed(c, slot).table)
         /\ \A e : InTable(Feed(c, slot).table, e) => InTable(groups, e) \/ e = c
         /\ \A g \in Feed(c, slot).complete :
              /\ g \in Sound /\ Complete(g) /\ g.key = KeyOf[c[1]]
              /\ \A p \in DOMAIN g.parts : g.parts[p] = c \/ InTable(groups, g.parts[p])
<1> DEFINE key == KeyOf[c[1]]
           table == FindOrCreate(groups, key)
           i == IndexOf(table, key)
           g == Insert(table[i], slot, c)
           result == Feed(c, slot)
<1>1. /\ result.table =
           IF Malformed(c) THEN groups
           ELSE IF Conflicts(table[i], c) \/ ~Trackable(table[i], slot, c) THEN table
           ELSE IF Complete(g) THEN RemoveAt(table, i) ELSE [table EXCEPT ![i] = g]
      /\ result.complete =
           IF Malformed(c) \/ Conflicts(table[i], c) \/ ~Trackable(table[i], slot, c) \/ ~Complete(g)
           THEN {} ELSE {g}
  BY DEF Feed
<1>2. key \in Keys
  BY PartOf
<1>3. /\ TableInv(table) /\ i \in DOMAIN table /\ table[i].key = key
      /\ \A j \in DOMAIN table :
           table[j] = NewGroup(key) \/ \E k \in DOMAIN groups : table[j] = groups[k]
  BY <1>2, FindOrCreateKeeps
<1> HIDE DEF result, g, i, table, key
<1>4. \A e : InTable(table, e) => InTable(groups, e)
  <2>1. DOMAIN NewGroup(key).parts = {}
    BY DEF NewGroup
  <2> QED BY <1>3, <2>1 DEF InTable
<1>5. CASE Malformed(c) \/ Conflicts(table[i], c) \/ ~Trackable(table[i], slot, c)
  BY <1>1, <1>3, <1>4, <1>5 DEF result
<1>6. CASE ~(Malformed(c) \/ Conflicts(table[i], c) \/ ~Trackable(table[i], slot, c))
  <2>1. table[i] \in Open /\ table[i] \in Sound
    BY <1>3, LenProperties, ElementOfSeq DEF TableInv, Open
  <2>2. /\ g \in Sound /\ g.key = table[i].key /\ g.sweeps = table[i].sweeps
        /\ \A p \in DOMAIN g.parts :
             g.parts[p] = c \/ (p \in DOMAIN table[i].parts /\ g.parts[p] = table[i].parts[p])
    BY <1>3, <1>6, <2>1, InsertSound DEF g, key
  <2>3. \A p \in DOMAIN g.parts : g.parts[p] = c \/ InTable(groups, g.parts[p])
    BY <1>3, <1>4, <2>2 DEF InTable
  <2>4. CASE Complete(g)
    <3>1. result.table = RemoveAt(table, i) /\ result.complete = {g}
      BY <1>1, <1>6, <2>4
    <3>2. TableInv(RemoveAt(table, i)) /\ \A e : InTable(RemoveAt(table, i), e) => InTable(table, e)
      BY <1>3, RemoveKeeps DEF InTable
    <3>3. g \in Sound /\ Complete(g) /\ g.key = key
      BY <1>3, <2>2, <2>4
    <3>4. \A e : InTable(result.table, e) => InTable(groups, e)
      BY <1>4, <3>1, <3>2
    <3> QED BY <2>3, <3>1, <3>2, <3>3, <3>4 DEF result, key
  <2>5. CASE ~Complete(g)
    <3>1. result.table = [table EXCEPT ![i] = g] /\ result.complete = {} /\ g \in Open
      BY <1>1, <1>6, <2>2, <2>5 DEF Open
    <3>2. /\ TableInv([table EXCEPT ![i] = g])
          /\ DOMAIN [table EXCEPT ![i] = g] = DOMAIN table
          /\ \A j \in DOMAIN table : [table EXCEPT ![i] = g][j] = IF j = i THEN g ELSE table[j]
      BY <1>3, <2>2, <3>1, ReplaceKeeps
    <3>3. \A e : InTable(result.table, e) => InTable(groups, e) \/ e = c
      BY <1>4, <2>3, <3>1, <3>2 DEF InTable
    <3> QED BY <3>1, <3>2, <3>3 DEF result
  <2> QED BY <2>4, <2>5
<1> QED BY <1>5, <1>6

-----------------------------------------------------------------------------
(* The steps. *)

(* The message of a part has met, by the end of the step, those of the     *)
(* parts of its key that are held.                                          *)
MeetsHeld(c) ==
  \A e \in Sent : HeldPart(e) /\ SameKey(c, e) => Together(c[1], e[1])'

(* Who has met has met for good, in either order. *)
LEMMA MetForGood ==
  ASSUME met \subseteq met', NEW m, NEW n
  PROVE  /\ Together(m, n) => Together(m, n)'
         /\ Together(m, n)' => Together(n, m)'
<1>1. {m, n} = {n, m}
  OBVIOUS
<1> QED BY <1>1 DEF Together

(* Two parts of a key that are held, or are the new part, have met. *)
LEMMA PartsMeet ==
  ASSUME MetInv, met \subseteq met', NEW c, MeetsHeld(c),
         NEW a \in Sent, NEW e \in Sent, SameKey(a, e),
         a = c \/ HeldPart(a), e = c \/ HeldPart(e)
  PROVE  Together(a[1], e[1])'
<1>1. CASE a = c /\ e = c
  BY <1>1 DEF Together
<1>2. CASE a = c /\ HeldPart(e)
  BY <1>2 DEF MeetsHeld
<1>3. CASE HeldPart(a) /\ e = c
  <2>1. SameKey(c, a)
    BY <1>3 DEF SameKey
  <2> QED BY <1>3, <2>1, MetForGood DEF MeetsHeld
<1>4. CASE HeldPart(a) /\ HeldPart(e)
  BY <1>4, MetForGood DEF MetInv
<1> QED BY <1>1, <1>2, <1>3, <1>4

(* One more part is held, and its message meets the others of its key. *)
LEMMA MetKept ==
  ASSUME MetInv, met \subseteq met', NEW c, MeetsHeld(c),
         \A e \in Sent : (HeldPart(e))' => HeldPart(e) \/ e = c
  PROVE  MetInv'
<1> SUFFICES ASSUME NEW a \in Sent, NEW e \in Sent, (HeldPart(a))', (HeldPart(e))', SameKey(a, e)
             PROVE  Together(a[1], e[1])'
  BY DEF MetInv, SameKey
<1> QED BY PartsMeet

(* What was forwarded stays as it is when more messages meet. *)
LEMMA ForwardedStays ==
  ASSUME MixedOnlyIfMet, met \subseteq met', NEW text \in forwarded
  PROVE  \E key \in Keys :
           /\ DOMAIN text = 1 .. Total[key]
           /\ \A p \in DOMAIN text : text[p][2] = p /\ KeyOf[text[p][1]] = key
           /\ \A p, q \in DOMAIN text : Together(text[p][1], text[q][1])'
<1>1. PICK key \in Keys :
        /\ DOMAIN text = 1 .. Total[key]
        /\ \A p \in DOMAIN text : text[p][2] = p /\ KeyOf[text[p][1]] = key
        /\ \A p, q \in DOMAIN text : Together(text[p][1], text[q][1])
  BY DEF MixedOnlyIfMet
<1> QED BY <1>1, MetForGood

(* A part is fed and what is complete is forwarded. *)
LEMMA ProcessKeeps ==
  ASSUME ReassemblyInv, NEW c \in Sent, NEW slot \in Slots \cup {NoSlot}, Process(c, slot),
         MeetsHeld(c), met \subseteq met', met' \subseteq SUBSET Messages,
         UNCHANGED <<storage, mishaps>>, cursor' \in 1 .. SlotCount + 1,
         copies' \in [Sent -> Nat], \A e \in Sent : copies'[e] <= Copies[e]
  PROVE  ReassemblyInv'
<1> DEFINE complete == Feed(c, slot).complete
           freed(g) == {[slot |-> s, of |-> g.slots[s]] : s \in DOMAIN g.slots}
<1>0. PlaceInv /\ TableInv(groups) /\ MetInv /\ MixedOnlyIfMet /\ DeletionInv
  BY DEF ReassemblyInv
<1>1. /\ TableInv(groups')
      /\ \A e : InTable(groups', e) => InTable(groups, e) \/ e = c
      /\ \A g \in complete :
           /\ g \in Sound /\ Complete(g)
           /\ \A p \in DOMAIN g.parts : g.parts[p] = c \/ InTable(groups, g.parts[p])
  <2>1. groups' = Feed(c, slot).table
    BY DEF Process
  <2> QED BY <1>0, <2>1, FeedKeeps
<1>2. /\ forwarded' = forwarded \cup {g.parts : g \in complete}
      /\ deletions' = deletions \cup UNION {freed(g) : g \in complete}
  BY DEF Process
<1> HIDE DEF complete
<1>3. ASSUME NEW g \in complete
      PROVE  /\ g.parts \in PartMaps /\ g.key \in Keys /\ DOMAIN g.parts = 1 .. Total[g.key]
             /\ \A p \in DOMAIN g.parts : g.parts[p][2] = p /\ KeyOf[g.parts[p][1]] = g.key
             /\ \A p, q \in DOMAIN g.parts : Together(g.parts[p][1], g.parts[q][1])'
             /\ \A s \in DOMAIN g.slots :
                  s \in Slots /\ g.slots[s] \in Sent /\ g.slots[s] \in Range(g.parts)
  <2>1. g \in Sound /\ OfKey(g) /\ g.parts \in PartMaps /\ g.key \in Keys
    BY <1>1, GroupFields DEF GroupRecords
  <2>2. DOMAIN g.parts = 1 .. Total[g.key]
    BY <1>1 DEF Complete
  <2>3. \A p \in DOMAIN g.parts :
          g.parts[p] \in Sent /\ g.parts[p][2] = p /\ KeyOf[g.parts[p][1]] = g.key
    BY <2>1, GroupFields DEF OfKey
  <2>4. ASSUME NEW p \in DOMAIN g.parts, NEW q \in DOMAIN g.parts
        PROVE  Together(g.parts[p][1], g.parts[q][1])'
    <3>1. g.parts[p] \in Sent /\ g.parts[q] \in Sent /\ SameKey(g.parts[p], g.parts[q])
      BY <2>3 DEF SameKey
    <3>2. /\ g.parts[p] = c \/ HeldPart(g.parts[p])
          /\ g.parts[q] = c \/ HeldPart(g.parts[q])
      BY <1>1 DEF HeldPart
    <3> QED BY <1>0, <3>1, <3>2, PartsMeet
  <2>5. ASSUME NEW s \in DOMAIN g.slots
        PROVE  s \in Slots /\ g.slots[s] \in Sent /\ g.slots[s] \in Range(g.parts)
    <3>1. PICK p \in DOMAIN g.parts : g.slots[s] = g.parts[p]
      BY <2>1 DEF OfKey
    <3> QED BY <2>1, <3>1, GroupFields DEF Range
  <2> QED BY <2>1, <2>2, <2>3, <2>4, <2>5
<1>4. ASSUME NEW d \in deletions', d \notin deletions
      PROVE  /\ d \in [slot : Slots, of : Sent]
             /\ \E text \in forwarded' : d.of \in Range(text)
  <2>1. PICK g \in complete : d \in freed(g)
    BY <1>2, <1>4
  <2>2. PICK s \in DOMAIN g.slots : d = [slot |-> s, of |-> g.slots[s]]
    BY <2>1
  <2>3. g.parts \in forwarded'
    BY <1>2
  <2> QED BY <1>3, <2>2, <2>3
<1>5. PlaceInv'
  <2>1. forwarded' \subseteq PartMaps
    BY <1>0, <1>2, <1>3 DEF PlaceInv
  <2>2. deletions' \subseteq [slot : Slots, of : Sent]
    BY <1>0, <1>4 DEF PlaceInv
  <2> QED BY <1>0, <2>1, <2>2 DEF PlaceInv
<1>6. MetInv'
  <2>1. \A e \in Sent : (HeldPart(e))' => HeldPart(e) \/ e = c
    BY <1>1 DEF HeldPart
  <2> QED BY <1>0, <2>1, MetKept
<1>7. MixedOnlyIfMet'
  <2> SUFFICES ASSUME NEW text \in forwarded'
               PROVE  \E key \in Keys :
                        /\ DOMAIN text = 1 .. Total[key]
                        /\ \A p \in DOMAIN text : text[p][2] = p /\ KeyOf[text[p][1]] = key
                        /\ \A p, q \in DOMAIN text : Together(text[p][1], text[q][1])'
    BY DEF MixedOnlyIfMet
  <2>1. CASE text \in forwarded
    BY <1>0, <2>1, ForwardedStays
  <2>2. CASE text \notin forwarded
    <3>1. PICK g \in complete : text = g.parts
      BY <1>2, <2>2
    <3> QED BY <1>3, <3>1
  <2> QED BY <2>1, <2>2
<1>8. DeletionInv'
  BY <1>0, <1>2, <1>4 DEF DeletionInv
<1> QED BY <1>1, <1>5, <1>6, <1>7, <1>8 DEF ReassemblyInv

(* A slot is read, for a notification or in the sweep. *)
LEMMA ReadSlotKeeps ==
  ASSUME ReassemblyInv, NEW slot \in Slots, ReadSlot(slot), UNCHANGED <<storage, copies, met, mishaps>>,
         cursor' \in 1 .. SlotCount + 1
  PROVE  ReassemblyInv'
<1>1. CASE storage[slot] = Empty \/ Claimed(slot)
  <2>1. UNCHANGED <<groups, forwarded, deletions>>
    BY <1>1 DEF ReadSlot
  <2> QED BY <2>1 DEF ReassemblyInv, PlaceInv, TableInv, MetInv, HeldPart, InTable,
                      Together, MixedOnlyIfMet, DeletionInv
<1>2. CASE ~(storage[slot] = Empty \/ Claimed(slot))
  <2> DEFINE c == storage[slot]
  <2>1. Process(c, slot) /\ c \in Sent /\ HeldPart(c)
    BY <1>2 DEF ReadSlot, HeldPart, ReassemblyInv, PlaceInv
  <2>2. MeetsHeld(c)
    BY <2>1 DEF ReassemblyInv, MetInv, MeetsHeld, Together
  <2>3. /\ copies' \in [Sent -> Nat] /\ \A e \in Sent : copies'[e] <= Copies[e]
        /\ met \subseteq met' /\ met' \subseteq SUBSET Messages
    BY DEF ReassemblyInv, PlaceInv
  <2> HIDE DEF c
  <2> QED BY <2>1, <2>2, <2>3, ProcessKeeps
<1> QED BY <1>1, <1>2

(* A part that is sent meets all that is held under its key. *)
LEMMA SentMeets ==
  ASSUME ReassemblyInv, NEW c \in Sent, Send(c)
  PROVE  /\ MeetsHeld(c) /\ met \subseteq met' /\ met' \subseteq SUBSET Messages
         /\ copies' \in [Sent -> Nat] /\ \A e \in Sent : copies'[e] <= Copies[e]
<1>0. met' = met \cup {{c[1], n} : n \in Meets(c[1])} /\ met \subseteq SUBSET Messages
  BY DEF Send, ReassemblyInv, PlaceInv
<1>1. ASSUME NEW e \in Sent, HeldPart(e), SameKey(c, e), e[1] # c[1]
      PROVE  {c[1], e[1]} \in met'
  <2>1. Held(e[1])
    <3>1. CASE \E s \in Slots : storage[s] = e
      BY <3>1, PartOf DEF Held
    <3>2. CASE InTable(groups, e)
      BY <3>2 DEF InTable, Held
    <3> QED BY <1>1, <3>1, <3>2 DEF HeldPart
  <2>2. e[1] \in Meets(c[1])
    BY <1>1, <2>1, PartOf DEF Meets, SameKey
  <2> QED BY <1>0, <2>2
<1>2. copies' = [copies EXCEPT ![c] = copies[c] + 1] /\ copies[c] < Copies[c]
      /\ copies \in [Sent -> Nat] /\ \A e \in Sent : copies[e] <= Copies[e]
      /\ Copies \in [Sent -> Nat]
  BY ReassemblyAssumption DEF Send, ReassemblyInv, PlaceInv
<1>3. copies' \in [Sent -> Nat]
  BY <1>2
<1>4. \A e \in Sent : copies'[e] <= Copies[e]
  BY <1>2
<1>5. MeetsHeld(c)
  BY <1>1 DEF MeetsHeld, Together
<1>6. met \subseteq met' /\ met' \subseteq SUBSET Messages
  BY <1>0, PartOf DEF Meets
<1> QED BY <1>3, <1>4, <1>5, <1>6

(* What takes parts away, and stores none, breaks nothing. *)
LEMMA LessKeeps ==
  ASSUME ReassemblyInv, UNCHANGED <<copies, forwarded, met>>, mishaps' \in Nat, deletions' \subseteq deletions,
         cursor' \in 1 .. SlotCount + 1,
         storage' = storage \/ \E s \in Slots : storage' = [storage EXCEPT ![s] = Empty],
         TableInv(groups'), \A c : InTable(groups', c) => InTable(groups, c)
  PROVE  ReassemblyInv'
<1>1. /\ storage' \in [Slots -> Sent \cup {Empty}]
      /\ \A s \in Slots : storage'[s] \in {storage[s], Empty}
  BY DEF ReassemblyInv, PlaceInv
<1>2. PlaceInv'
  BY <1>1 DEF ReassemblyInv, PlaceInv
<1>3. MetInv'
  <2>1. \A e \in Sent : (HeldPart(e))' => HeldPart(e)
    BY <1>1, PartOf DEF HeldPart
  <2> QED BY <2>1 DEF ReassemblyInv, MetInv, Together
<1>4. MixedOnlyIfMet' /\ DeletionInv'
  BY DEF ReassemblyInv, MixedOnlyIfMet, Together, DeletionInv
<1> QED BY <1>2, <1>3, <1>4 DEF ReassemblyInv

(* Every step keeps the invariant. *)
LEMMA ReassemblyStep == ReassemblyInv /\ [Next]_vars => ReassemblyInv'
<1> SUFFICES ASSUME ReassemblyInv, [Next]_vars PROVE ReassemblyInv'
  OBVIOUS
<1>0. /\ SlotCount \in Nat \ {0} /\ cursor \in 1 .. SlotCount + 1 /\ TableInv(groups)
      /\ 1 \in 1 .. SlotCount + 1 /\ mishaps \in Nat /\ mishaps + 1 \in Nat
  BY ReassemblyAssumption DEF ReassemblyInv, PlaceInv
<1>1. CASE SweepSlot
  <2>1. cursor' \in 1 .. SlotCount + 1
    BY <1>0, <1>1 DEF SweepSlot, Slots
  <2> QED BY <1>1, <2>1, ReadSlotKeeps DEF SweepSlot
<1>2. CASE EndSweep
  BY <1>0, <1>2, OlderKeeps, LessKeeps DEF EndSweep
<1>3. ASSUME NEW d \in deletions, DeleteVerified(d) PROVE ReassemblyInv'
  <2>1. d.slot \in Slots
    BY DEF ReassemblyInv, PlaceInv
  <2>2. /\ storage' = storage \/ storage' = [storage EXCEPT ![d.slot] = Empty]
        /\ deletions' \subseteq deletions
        /\ UNCHANGED <<groups, cursor, copies, forwarded, met, mishaps>>
    BY <1>3 DEF DeleteVerified
  <2> QED BY <1>0, <2>1, <2>2, LessKeeps
<1>4. ASSUME NEW c \in Sent, ArriveDirect(c) PROVE ReassemblyInv'
  <2>1. Send(c) /\ Process(c, NoSlot) /\ UNCHANGED <<storage, cursor, mishaps>>
    BY <1>4 DEF ArriveDirect
  <2> QED BY <1>0, <2>1, SentMeets, ProcessKeeps
<1>5. ASSUME NEW c \in Sent, NEW slot \in Slots, ArriveStored(c, slot) PROVE ReassemblyInv'
  <2>1. /\ Send(c) /\ storage' = [storage EXCEPT ![slot] = c]
        /\ UNCHANGED <<groups, cursor, deletions, forwarded, mishaps>>
    BY <1>5 DEF ArriveStored
  <2>2. \A s \in Slots : storage'[s] \in {storage[s], c}
    BY <2>1 DEF ReassemblyInv, PlaceInv
  <2>3. PlaceInv'
    BY <2>1, SentMeets DEF ReassemblyInv, PlaceInv
  <2>4. MetInv'
    <3>1. \A e \in Sent : (HeldPart(e))' => HeldPart(e) \/ e = c
      BY <2>1, <2>2 DEF HeldPart
    <3> QED BY <2>1, <3>1, SentMeets, MetKept DEF ReassemblyInv
  <2>5. MixedOnlyIfMet'
    <3>1. MixedOnlyIfMet /\ met \subseteq met' /\ forwarded' = forwarded
      BY <2>1, SentMeets DEF ReassemblyInv
    <3> QED BY <3>1, ForwardedStays DEF MixedOnlyIfMet
  <2>6. TableInv(groups') /\ DeletionInv'
    BY <2>1 DEF ReassemblyInv, TableInv, DeletionInv
  <2> QED BY <2>3, <2>4, <2>5, <2>6 DEF ReassemblyInv
<1>6. CASE Reset
  <2>1. TableInv(<<>>) /\ \A c : ~InTable(<<>>, c)
    <3>1. <<>> \in Seq(Open) /\ Len(<<>>) = 0 /\ DOMAIN <<>> = {}
      OBVIOUS
    <3> QED BY <3>1, ReassemblyAssumption DEF TableInv, InTable
  <2> QED BY <1>0, <1>6, <2>1, LessKeeps DEF Reset
<1>7. ASSUME NEW slot \in Slots, ReadNotified(slot) PROVE ReassemblyInv'
  BY <1>0, <1>7, ReadSlotKeeps DEF ReadNotified
<1>8. ASSUME NEW slot \in Slots, OperatorErases(slot) PROVE ReassemblyInv'
  BY <1>0, <1>8, LessKeeps DEF OperatorErases
<1>9. CASE UNCHANGED vars
  BY <1>0, <1>9, LessKeeps DEF vars
<1> QED BY <1>1, <1>2, <1>3, <1>4, <1>5, <1>6, <1>7, <1>8, <1>9
        DEF Next, Main, Sweep, Delete, Arrive

(* The device starts with nothing in storage. *)
LEMMA ReassemblyInit == Init => ReassemblyInv
<1> SUFFICES ASSUME Init PROVE ReassemblyInv
  OBVIOUS
<1> USE ReassemblyAssumption DEF Init
<1>1. <<>> \in Seq(Open) /\ Len(<<>>) = 0 /\ DOMAIN <<>> = {}
  OBVIOUS
<1>2. TableInv(groups)
  BY <1>1 DEF TableInv
<1>3. PlaceInv
  BY DEF PlaceInv
<1>4. \A c \in Sent : ~HeldPart(c)
  BY <1>1, PartOf DEF HeldPart, InTable
<1> QED BY <1>2, <1>3, <1>4 DEF ReassemblyInv, MetInv, MixedOnlyIfMet, DeletionInv

(* The invariant holds for ever. *)
LEMMA ReassemblyAlways == Spec => []ReassemblyInv
<1> QED BY ReassemblyInit, ReassemblyStep, PTL DEF Spec

-----------------------------------------------------------------------------
(* The types hold: the table keeps to its limit, to one group for a key and *)
(* to the order of age, and no group is complete or beyond its slots.       *)
THEOREM TableTyped == Spec => []TypeOK
<1>1. ReassemblyInv => TypeOK
  <2> SUFFICES ASSUME ReassemblyInv PROVE TypeOK
    OBVIOUS
  <2>1. \A c \in Sent : copies[c] \in 0 .. Copies[c]
    BY ReassemblyAssumption DEF ReassemblyInv, PlaceInv
  <2>2. \A i \in DOMAIN groups :
          /\ DOMAIN groups[i].parts \subseteq 1 .. Total[groups[i].key]
          /\ ~Complete(groups[i])
          /\ DOMAIN groups[i].slots \subseteq Slots
          /\ Cardinality(DOMAIN groups[i].slots) <= MaxSlots
    <3>1. \A i \in DOMAIN groups : groups[i] \in Open
      BY LenProperties, ElementOfSeq DEF ReassemblyInv, TableInv
    <3> QED BY <3>1, GroupFields DEF Open, OfKey
  <2> QED BY <2>1, <2>2 DEF TypeOK, ReassemblyInv, PlaceInv, TableInv
<1> QED BY <1>1, ReassemblyAlways, PTL

(* What is forwarded has every part of its key once, in its place, and      *)
(* parts of two messages only if these met, in whatever order, how often    *)
(* and from which slots parts were read, and whenever references come back. *)
THEOREM MixedOnlyWhenMet == Spec => []MixedOnlyIfMet
<1>1. ReassemblyInv => MixedOnlyIfMet
  BY DEF ReassemblyInv
<1> QED BY <1>1, ReassemblyAlways, PTL

(* What was forwarded with a part of a message that has met no other is     *)
(* that message.                                                            *)
LEMMA ApartIsWhole ==
  ASSUME ReassemblyInv, NEW text \in forwarded, NEW c \in Range(text), Apart(c[1])
  PROVE  text = Whole(c[1])
<1>1. text \in PartMaps /\ MixedOnlyIfMet
  BY DEF ReassemblyInv, PlaceInv
<1>2. PICK key \in Keys :
        /\ DOMAIN text = 1 .. Total[key]
        /\ \A p \in DOMAIN text : text[p][2] = p /\ KeyOf[text[p][1]] = key
        /\ \A p, q \in DOMAIN text : Together(text[p][1], text[q][1])
  BY <1>1 DEF MixedOnlyIfMet
<1>3. PICK i \in DOMAIN text : c = text[i]
  BY DEF Range
<1>4. PICK D \in SUBSET Nat : text \in [D -> Sent]
  BY <1>1 DEF PartMaps
<1>5. KeyOf[c[1]] = key /\ DOMAIN text = Parts(c[1])
  BY <1>2, <1>3 DEF Parts
<1>6. ASSUME NEW p \in DOMAIN text PROVE text[p] = <<c[1], p>>
  <2>1. text[p] \in Sent /\ text[p][2] = p /\ Together(c[1], text[p][1])
    BY <1>2, <1>3, <1>4
  <2>2. text[p][1] \in Messages /\ text[p] = <<text[p][1], text[p][2]>>
    BY <2>1, PartOf
  <2>3. c[1] = text[p][1]
    BY <2>1, <2>2 DEF Apart
  <2> QED BY <2>1, <2>2, <2>3
<1>7. text = [p \in DOMAIN text |-> text[p]]
  BY <1>4
<1> QED BY <1>5, <1>6, <1>7 DEF Whole

(* A part that the device deletes was forwarded, in its whole message if    *)
(* that has met no other.                                                   *)
THEOREM PartsStayUntilForwarded == Spec => StoredUntilForwarded
<1> DEFINE Kept ==
      \A slot \in Slots :
        storage[slot] # Empty /\ storage'[slot] = Empty /\ mishaps' = mishaps
          => /\ \E text \in forwarded : storage[slot] \in Range(text)
             /\ Apart(storage[slot][1]) => Whole(storage[slot][1]) \in forwarded
<1>1. ReassemblyInv /\ [Next]_vars => [Kept]_vars
  <2> SUFFICES ASSUME ReassemblyInv, Next, NEW slot \in Slots,
                      storage[slot] # Empty, storage'[slot] = Empty, mishaps' = mishaps
               PROVE  /\ \E text \in forwarded : storage[slot] \in Range(text)
                      /\ Apart(storage[slot][1]) => Whole(storage[slot][1]) \in forwarded
    OBVIOUS
  <2>1. storage' # storage
    OBVIOUS
  <2>2. ASSUME NEW d \in deletions, DeleteVerified(d)
        PROVE  /\ \E text \in forwarded : storage[slot] \in Range(text)
               /\ Apart(storage[slot][1]) => Whole(storage[slot][1]) \in forwarded
    <3>1. d.slot = slot /\ storage[slot] = d.of
      BY <2>1, <2>2 DEF DeleteVerified, ReassemblyInv, PlaceInv
    <3>2. PICK text \in forwarded : storage[slot] \in Range(text)
      BY <2>2, <3>1 DEF ReassemblyInv, DeletionInv
    <3> QED BY <3>2, ApartIsWhole
  <2>3. ASSUME NEW c \in Sent, NEW s \in Slots, ArriveStored(c, s) PROVE FALSE
    <3>1. c # Empty
      BY PartOf
    <3> QED BY <2>3, <3>1 DEF ArriveStored, ReassemblyInv, PlaceInv
  <2>4. ~Reset /\ \A s \in Slots : ~OperatorErases(s)
    <3>1. CASE Reset
      BY <2>1, <3>1 DEF Reset
    <3>2. ASSUME NEW s \in Slots, OperatorErases(s) PROVE FALSE
      <4>1. mishaps' = mishaps + 1 /\ mishaps \in Nat
        BY <3>2 DEF OperatorErases, ReassemblyInv, PlaceInv
      <4> QED BY <4>1
    <3> QED BY <3>1, <3>2
  <2>5. ~SweepSlot /\ ~EndSweep /\ (\A c \in Sent : ~ArriveDirect(c))
        /\ \A s \in Slots : ~ReadNotified(s)
    BY <2>1 DEF SweepSlot, EndSweep, ArriveDirect, ReadNotified
  <2> QED BY <2>2, <2>3, <2>4, <2>5 DEF Next, Main, Sweep, Delete, Arrive
<1> QED BY <1>1, ReassemblyAlways, PTL DEF Spec, StoredUntilForwarded
=============================================================================
