------------------------ MODULE SmsForwardingProofs ------------------------
(***************************************************************************)
(* Proofs about SmsForwarding, for any number of PDUs, slots and calls and *)
(* any limits of the queues.                                               *)
(***************************************************************************)
EXTENDS SmsForwarding, QueueLemmas, FiniteSetTheorems

SmsItem(m, slots) == [kind |-> "Sms", id |-> m, slots |-> slots]
PlainItem == [kind |-> "Plain", id |-> Notice, slots |-> {}]
CallItem(c) == [kind |-> "Call", id |-> c, slots |-> {}]

-----------------------------------------------------------------------------
(* The operations on the ready queue keep it a sequence of sound items.     *)

(* reserve_critical only removes. *)
LEMMA ReserveCriticalSeq ==
  ASSUME NEW S, NEW q \in Seq(S)
  PROVE  ReserveCritical(q) \in Seq(S)
<1>1. CASE ~HasRoom(q) /\ PlainIndices(q) # {}
  <2>1. PlainIndices(q) \subseteq 1 .. Len(q) /\ Len(q) \in Nat
    BY LenProperties DEF PlainIndices
  <2>2. Max(PlainIndices(q)) \in 1 .. Len(q)
    BY <1>1, <2>1, MaxInSet
  <2> QED BY <1>1, <2>2, RemoveAtProperties DEF ReserveCritical
<1>2. CASE ~(~HasRoom(q) /\ PlainIndices(q) # {})
  BY <1>2 DEF ReserveCritical
<1> QED BY <1>1, <1>2

(* reserve_ephemeral only removes. *)
LEMMA ReserveEphemeralSeq ==
  ASSUME NEW S, NEW q \in Seq(S)
  PROVE  ReserveEphemeral(q) \in Seq(S)
<1> DEFINE critical == ReserveCritical(q)
<1>0. critical \in Seq(S)
  BY ReserveCriticalSeq
<1>e. ReserveEphemeral(q) = IF ~HasRoom(critical) /\ StoredIndices(critical) # {}
                            THEN RemoveAt(critical, Max(StoredIndices(critical)))
                            ELSE critical
  BY DEF ReserveEphemeral
<1> HIDE DEF critical
<1>1. CASE ~HasRoom(critical) /\ StoredIndices(critical) # {}
  <2>1. StoredIndices(critical) \subseteq 1 .. Len(critical) /\ Len(critical) \in Nat
    BY <1>0, LenProperties DEF StoredIndices
  <2>2. Max(StoredIndices(critical)) \in 1 .. Len(critical)
    BY <1>1, <2>1, MaxInSet
  <2> QED BY <1>0, <1>1, <1>e, <2>2, RemoveAtProperties
<1>2. CASE ~(~HasRoom(critical) /\ StoredIndices(critical) # {})
  BY <1>0, <1>2, <1>e
<1> QED BY <1>1, <1>2

(* queue_plain adds nothing but a text. *)
LEMMA QueuePlainSeq ==
  ASSUME NEW S, NEW q \in Seq(S), PlainItem \in S
  PROVE  QueuePlain(q) \in Seq(S)
BY AppendProperties DEF QueuePlain, PlainItem

(* queue_sms adds nothing but the message. *)
LEMMA QueueSmsSeq ==
  ASSUME NEW S, NEW q \in Seq(S), NEW m, NEW slots, SmsItem(m, slots) \in S
  PROVE  QueueSms(q, m, slots) \in Seq(S)
<1> DEFINE i == IF PlainIndices(q) = {} THEN Len(q) + 1 ELSE Min(PlainIndices(q))
<1>1. PlainIndices(q) \subseteq 1 .. Len(q) /\ Len(q) \in Nat
  BY LenProperties DEF PlainIndices
<1>2. i \in 1 .. Len(q) + 1
  BY <1>1, MinInSet
<1>3. QueueSms(q, m, slots) = InsertAt(q, i, SmsItem(m, slots))
  BY DEF QueueSms, SmsItem
<1> QED BY <1>2, <1>3, InsertAtProperties

(* The index the pump takes is one of the queue's. *)
LEMMA PumpableIndex ==
  ASSUME NEW S, ready \in Seq(S), Pumpable # {}
  PROVE  Min(Pumpable) \in 1 .. Len(ready)
<1>1. Pumpable \subseteq 1 .. Len(ready) /\ Len(ready) \in Nat
  BY LenProperties DEF Pumpable
<1>2. Pumpable \subseteq Nat
  BY <1>1
<1>3. Min(Pumpable) \in Pumpable
  BY <1>2, MinInSet
<1> QED BY <1>1, <1>3

(* So the queue keeps what it has, with or without the message. *)
LEMMA QueuePreparedReady ==
  ASSUME NEW S, NEW q \in Seq(S), NEW m, NEW slots, SmsItem(m, slots) \in S,
         QueuePrepared(m, slots, q)
  PROVE  ready' \in Seq(S)
BY QueueSmsSeq DEF QueuePrepared

-----------------------------------------------------------------------------
(* Type correctness. *)

Entries == [item : Items, receipt : {"none", "ok", "failed"}]

(* What is put into the queue is a notification. *)
LEMMA ItemTypes ==
  /\ \A m \in Messages, slots \in SUBSET Copies : SmsItem(m, slots) \in Items
  /\ \A c \in Calls : CallItem(c) \in Items
  /\ PlainItem \in Items
BY DEF Items, SmsItem, CallItem, PlainItem

(* Preparing a PDU leaves well-typed queues. *)
LEMMA QueuePreparedType ==
  ASSUME TypeOK, NEW q \in Seq(Items), NEW m \in Messages,
         NEW slots \in SUBSET Copies, QueuePrepared(m, slots, q)
  PROVE  /\ ready' \in Seq(Items)
         /\ deletions' \subseteq [copy : Copies, retry : BOOLEAN]
         /\ dropped' \subseteq Messages
<1>1. ready' \in Seq(Items)
  BY ItemTypes, QueuePreparedReady
<1>2. PendingDeletions(slots) \subseteq [copy : Copies, retry : BOOLEAN]
  BY DEF PendingDeletions
<1> QED BY <1>1, <1>2 DEF QueuePrepared, TypeOK

(* A PDU that is retained changes nothing but the reservation. *)
LEMMA RetainType ==
  ASSUME TypeOK, NEW q \in Seq(Items), Retain(q)
  PROVE  /\ ready' \in Seq(Items)
         /\ deletions' \subseteq [copy : Copies, retry : BOOLEAN]
         /\ dropped' \subseteq Messages
BY DEF Retain, TypeOK

PartType == [pdu : Pdus, slots : SUBSET Copies]

(* Whatever becomes of a PDU, the queues stay well-typed. *)
LEMMA PrepareType ==
  ASSUME TypeOK, NEW q \in Seq(Items), NEW p \in Pdus,
         NEW slots \in SUBSET Copies, Prepare(p, slots, q)
  PROVE  /\ ready' \in Seq(Items)
         /\ deletions' \subseteq [copy : Copies, retry : BOOLEAN]
         /\ dropped' \subseteq Messages
         /\ concat' \subseteq PartType
<1>0. concat \subseteq PartType /\ MessageOf[p] \in Messages
  BY MessagesAssumption DEF TypeOK, PartType
<1>1. CASE p \in Unparsable
  BY <1>0, <1>1, RetainType DEF Prepare
<1>2. CASE p \notin Unparsable /\ PartsOf(MessageOf[p]) = {p}
  BY <1>0, <1>2, QueuePreparedType DEF Prepare
<1>3. CASE p \notin Unparsable /\ PartsOf(MessageOf[p]) # {p}
  <2>1. FeedPart(p, slots, q)
    BY <1>3 DEF Prepare
  <2>2. PICK expired \in SUBSET Expirable :
          LET live  == {g \in concat : MessageOf[g.pdu] \notin expired}
                         \union {[pdu |-> p, slots |-> slots]}
              group == {g \in live : MessageOf[g.pdu] = MessageOf[p]}
          IN  IF {g.pdu : g \in group} = PartsOf(MessageOf[p])
              THEN /\ concat' = live \ group
                   /\ QueuePrepared(MessageOf[p], UNION {g.slots : g \in group}, q)
              ELSE /\ concat' = live
                   /\ Retain(q)
    BY <2>1 DEF FeedPart
  <2> DEFINE live  == {g \in concat : MessageOf[g.pdu] \notin expired}
                        \union {[pdu |-> p, slots |-> slots]}
             group == {g \in live : MessageOf[g.pdu] = MessageOf[p]}
             held  == UNION {g.slots : g \in group}
  <2>3. live \subseteq PartType /\ group \subseteq live
    BY <1>0 DEF PartType
  <2>4. held \in SUBSET Copies
    BY <2>3 DEF PartType
  <2>5. \/ concat' = live \ group /\ QueuePrepared(MessageOf[p], held, q)
        \/ concat' = live /\ Retain(q)
    BY <2>2
  <2> HIDE DEF live, group, held
  <2> QED BY <1>0, <2>3, <2>4, <2>5, QueuePreparedType, RetainType
<1> QED BY <1>1, <1>2, <1>3

(* Boot. *)
LEMMA InitType == Init => TypeOK
<1> SUFFICES ASSUME Init PROVE TypeOK
  OBVIOUS
<1>1. ready \in Seq(Items)
  <2>1. <<>> \in Seq(Items)
    OBVIOUS
  <2> QED BY <2>1, ItemTypes, QueuePlainSeq DEF Init
<1>2. pending \in Seq(Entries)
  BY DEF Init
<1> QED BY <1>1, <1>2 DEF Init, TypeOK, Entries, Phases

(* The arrivals. *)
LEMMA NetworkType == TypeOK /\ Network => TypeOK'
<1> SUFFICES ASSUME TypeOK, Network PROVE TypeOK'
  OBVIOUS
<1>1. ASSUME NEW p \in Pdus, NEW s \in Slots, StoreSms(p, s) PROVE TypeOK'
  <2>1. [code |-> "CMTI", of |-> s] \in Urcs
    BY DEF Urcs
  <2>2. urcs' \subseteq Urcs
    BY <1>1, <2>1 DEF StoreSms, TypeOK
  <2>3. modem' \in [Slots -> Pdus \union {Empty}]
    BY <1>1 DEF StoreSms, TypeOK
  <2> QED BY <1>1, <2>2, <2>3 DEF StoreSms, TypeOK, store, history
<1>2. ASSUME NEW p \in Pdus, DirectSms(p) PROVE TypeOK'
  <2>1. [code |-> "CMT", of |-> p] \in Urcs
    BY DEF Urcs
  <2> QED BY <1>2, <2>1 DEF DirectSms, TypeOK, store, history
<1>3. ASSUME NEW c \in Calls, IncomingCall(c) PROVE TypeOK'
  <2>1. [code |-> "RING", of |-> c] \in Urcs
    BY DEF Urcs
  <2> QED BY <1>3, <2>1 DEF IncomingCall, TypeOK, store, history
<1> QED BY <1>1, <1>2, <1>3 DEF Network

(* Setting a receipt keeps an entry an entry. *)
LEMMA ReceiptType ==
  ASSUME TypeOK, NEW i \in DOMAIN pending, NEW r \in {"none", "ok", "failed"}
  PROVE  /\ [pending EXCEPT ![i].receipt = r] \in Seq(Entries)
         /\ pending[i].item \in Items
         /\ Accepted(pending[i].item) \subseteq Messages
<1>1. pending \in Seq(Entries) /\ i \in 1 .. Len(pending)
  BY LenProperties DEF TypeOK, Entries
<1>2. pending[i] \in Entries
  BY <1>1, ElementOfSeq
<1>3. [pending[i] EXCEPT !.receipt = r] \in Entries
  BY <1>2 DEF Entries
<1>4. [pending EXCEPT ![i] = [pending[i] EXCEPT !.receipt = r]] \in Seq(Entries)
  BY <1>1, <1>3, ExceptSeq
<1>5. pending[i].item \in Items
  BY <1>2 DEF Entries
<1>6. Accepted(pending[i].item) \subseteq Messages
  BY <1>5 DEF Accepted, Items
<1> QED BY <1>4, <1>5, <1>6

(* The worker's outcomes. *)
LEMMA WorkerType == TypeOK /\ Worker => TypeOK'
<1> SUFFICES ASSUME TypeOK, NEW i \in DOMAIN pending,
                    WorkerConfirms(i) \/ WorkerLosesAnswer(i) \/ WorkerFails(i)
             PROVE  TypeOK'
  BY DEF Worker
<1>1. /\ [pending EXCEPT ![i].receipt = "ok"] \in Seq(Entries)
      /\ [pending EXCEPT ![i].receipt = "failed"] \in Seq(Entries)
      /\ Accepted(pending[i].item) \subseteq Messages
  BY ReceiptType
<1>2. CASE WorkerConfirms(i)
  BY <1>1, <1>2 DEF WorkerConfirms, TypeOK, store, Entries
<1>3. CASE WorkerLosesAnswer(i)
  BY <1>1, <1>3 DEF WorkerLosesAnswer, TypeOK, store, Entries
<1>4. CASE WorkerFails(i)
  BY <1>1, <1>4 DEF WorkerFails, TypeOK, store, history, Entries
<1> QED BY <1>2, <1>3, <1>4

(* A reset. *)
LEMMA RebootType == TypeOK /\ Reboot => TypeOK'
<1> SUFFICES ASSUME TypeOK, Reboot PROVE TypeOK'
  OBVIOUS
<1>1. ready' \in Seq(Items)
  <2>1. <<>> \in Seq(Items)
    OBVIOUS
  <2> QED BY <2>1, ItemTypes, QueuePlainSeq DEF Reboot
<1>2. pending' \in Seq(Entries)
  BY DEF Reboot
<1>3. sweep' \subseteq MESlots
  BY DEF Reboot, StoredIn
<1> QED BY <1>1, <1>2, <1>3 DEF Reboot, TypeOK, Entries, Phases

(* Taking a receipt. *)
LEMMA ReceiptsType ==
  ASSUME TypeOK, NEW i \in DOMAIN pending, ProcessReceipt(i)
  PROVE  TypeOK'
<1>1. pending \in Seq(Entries) /\ i \in 1 .. Len(pending)
  BY LenProperties DEF TypeOK, Entries
<1>2. pending' \in Seq(Entries)
  BY <1>1, RemoveAtProperties DEF ProcessReceipt
<1>3. pending[i].item \in Items
  BY ReceiptType
<1>4. PendingDeletions(pending[i].item.slots) \subseteq [copy : Copies, retry : BOOLEAN]
  BY <1>3 DEF Items, PendingDeletions
<1> QED BY <1>2, <1>4 DEF ProcessReceipt, TypeOK, store, history, Entries

(* The three outcomes of a deletion. *)
LEMMA DeletionType ==
  ASSUME TypeOK, NEW d \in deletions, DeleteConsumedSlot(d)
  PROVE  TypeOK'
<1>1. d \in [copy : Copies, retry : BOOLEAN] /\ d.copy \in Copies /\ d.copy.slot \in Slots
  BY DEF TypeOK, Copies
<1>2. [d EXCEPT !.retry = TRUE] \in [copy : Copies, retry : BOOLEAN]
  BY <1>1
<1>3. /\ deletions' \subseteq [copy : Copies, retry : BOOLEAN]
      /\ consumed' \subseteq Copies
      /\ modem' \in [Slots -> Pdus \union {Empty}]
  <2>1. CASE DeleteSlot(d)
    BY <1>1, <1>2, <2>1 DEF DeleteSlot, TypeOK
  <2>2. CASE KeepChangedSlot(d)
    BY <1>1, <1>2, <2>2 DEF KeepChangedSlot, TypeOK
  <2>3. CASE DeleteFails(d)
    BY <1>1, <1>2, <2>3 DEF DeleteFails, TypeOK
  <2> QED BY <2>1, <2>2, <2>3 DEF DeleteConsumedSlot
<1> QED BY <1>3 DEF DeleteConsumedSlot, TypeOK, store, history, Phases

(* A +CMTI. *)
LEMMA ReadsType ==
  ASSUME TypeOK, NEW s \in Slots, PollCmti(s)
  PROVE  TypeOK'
<1> DEFINE Read == [slot : Slots, attempts : 0 .. MaxAttempts, retry : BOOLEAN]
<1>1. NewRead(s) \in Read
  BY BoundsAssumption DEF NewRead
<1>2. \A kept \in DisplacedReads(s) : kept \subseteq Read
  BY DEF DisplacedReads, TypeOK
<1>3. reads' \subseteq Read
  <2>1. CASE \E r \in reads : r.slot = s
    BY <2>1 DEF PollCmti, TypeOK
  <2>2. CASE ~\E r \in reads : r.slot = s
    <3>1. PICK kept \in DisplacedReads(s) :
            reads' = IF Cardinality(kept) < MaxReads THEN kept \union {NewRead(s)} ELSE kept
      BY <2>2 DEF PollCmti
    <3> QED BY <1>1, <1>2, <3>1
  <2> QED BY <2>1, <2>2
<1>4. urcs' \subseteq Urcs
  BY DEF PollCmti, TypeOK
<1> QED BY <1>3, <1>4 DEF PollCmti, TypeOK, store, history

(* A call. *)
LEMMA CallType ==
  ASSUME TypeOK, NEW c \in Calls, PollCall(c)
  PROVE  TypeOK'
<1> DEFINE q == ReserveEphemeral(ready)
<1>1. ready' = IF HasRoom(q) THEN <<CallItem(c)>> \o q ELSE q
  BY DEF PollCall, CallItem
<1>2. q \in Seq(Items)
  BY ReserveEphemeralSeq DEF TypeOK
<1>3. <<CallItem(c)>> \in Seq(Items)
  BY ItemTypes
<1>4. ready' \in Seq(Items)
  BY <1>1, <1>2, <1>3, ConcatProperties
<1>5. urcs' \subseteq Urcs
  BY DEF PollCall, TypeOK
<1> QED BY <1>4, <1>5 DEF PollCall, TypeOK, store, history

(* A direct PDU. *)
LEMMA DirectType ==
  ASSUME TypeOK, NEW p \in Pdus, PollDirect(p)
  PROVE  TypeOK'
<1> DEFINE q == ReserveEphemeral(ready)
<1>1. \/ HasRoom(q) /\ Prepare(p, {}, q)
      \/ ready' = q /\ UNCHANGED <<deletions, concat, dropped>>
  BY DEF PollDirect
<1>2. q \in Seq(Items)
  BY ReserveEphemeralSeq DEF TypeOK
<1> HIDE DEF q
<1>3. /\ ready' \in Seq(Items)
      /\ deletions' \subseteq [copy : Copies, retry : BOOLEAN]
      /\ dropped' \subseteq Messages
      /\ concat' \subseteq PartType
  BY <1>1, <1>2, PrepareType DEF TypeOK, PartType
<1>4. urcs' \subseteq Urcs
  BY DEF PollDirect, TypeOK
<1> QED BY <1>3, <1>4 DEF PollDirect, TypeOK, store, PartType

(* A single read, successful or not. *)
LEMMA ReadSlotType ==
  ASSUME TypeOK, NEW r \in reads, ReadSlot(r) \/ ReadSlotFails(r)
  PROVE  TypeOK'
<1>0. r \in [slot : Slots, attempts : 0 .. MaxAttempts, retry : BOOLEAN]
  BY DEF TypeOK
<1>1. CASE ReadSlot(r)
  <2> DEFINE q == ReserveCritical(ready)
             p == modem[r.slot]
             own == {[slot |-> r.slot, pdu |-> p]}
  <2>1. \/ HasRoom(q) /\ Prepare(p, own, q)
        \/ ready' \in {ready, q} /\ UNCHANGED <<deletions, concat, dropped>>
    BY <1>1 DEF ReadSlot
  <2>2. q \in Seq(Items)
    BY ReserveCriticalSeq DEF TypeOK
  <2>3. p \in Pdus /\ own \in SUBSET Copies
    BY <1>0, <1>1 DEF ReadSlot, TypeOK, Copies
  <2>4. reads' \subseteq reads
    BY <1>1 DEF ReadSlot
  <2> HIDE DEF q, p, own
  <2>5. /\ ready' \in Seq(Items)
        /\ deletions' \subseteq [copy : Copies, retry : BOOLEAN]
        /\ dropped' \subseteq Messages
        /\ concat' \subseteq PartType
    BY <2>1, <2>2, <2>3, PrepareType DEF TypeOK, PartType
  <2> QED BY <1>1, <2>4, <2>5 DEF ReadSlot, TypeOK, store, PartType, Phases
<1>2. CASE ReadSlotFails(r)
  <2> DEFINE failed == [r EXCEPT !.attempts = IF @ < MaxAttempts THEN @ + 1 ELSE @,
                                 !.retry = TRUE]
  <2>1. failed \in [slot : Slots, attempts : 0 .. MaxAttempts, retry : BOOLEAN]
    <3>1. MaxAttempts \in Nat
      BY BoundsAssumption
    <3>2. (IF r.attempts < MaxAttempts THEN r.attempts + 1 ELSE r.attempts)
            \in 0 .. MaxAttempts
      BY <1>0, <3>1
    <3> QED BY <1>0, <3>2
  <2>2. reads' \subseteq reads \union {failed}
    BY <1>2 DEF ReadSlotFails
  <2> HIDE DEF failed
  <2> QED BY <1>2, <2>1, <2>2 DEF ReadSlotFails, TypeOK, store, history, Phases
<1> QED BY <1>1, <1>2

(* An entry of a batch. *)
LEMMA SweepType ==
  ASSUME TypeOK, NEW c \in batch, SweepEntry(c)
  PROVE  TypeOK'
<1> DEFINE q == ReserveCritical(ready)
<1>0. c \in Copies /\ c.pdu \in Pdus /\ {c} \in SUBSET Copies /\ c.slot \in MESlots
  BY DEF TypeOK, Copies, Slots
<1>1. \/ HasRoom(q) /\ Prepare(c.pdu, {c}, q)
      \/ ready' \in {ready, q} /\ UNCHANGED <<deletions, concat, dropped>>
  BY DEF SweepEntry
<1>2. q \in Seq(Items)
  BY ReserveCriticalSeq DEF TypeOK
<1> HIDE DEF q
<1>3. /\ ready' \in Seq(Items)
      /\ deletions' \subseteq [copy : Copies, retry : BOOLEAN]
      /\ dropped' \subseteq Messages
      /\ concat' \subseteq PartType
  BY <1>0, <1>1, <1>2, PrepareType DEF TypeOK, PartType
<1>4. sweep' \subseteq MESlots
  BY <1>0 DEF SweepEntry, TypeOK
<1>5. batch' \subseteq [slot : MESlots, pdu : Pdus]
  BY DEF SweepEntry, TypeOK
<1> QED BY <1>3, <1>4, <1>5 DEF SweepEntry, TypeOK, store, PartType

(* The steps that only go on to the next phase. *)
LEMMA PassType ==
  ASSUME TypeOK,
         \/ EndReceipts \/ NoDeletionDue \/ NoAutoResume \/ EndUrcs \/ NoReadDue
         \/ NoScan \/ NoBatch \/ EndBatch \/ NoCommand \/ EndPass
  PROVE  TypeOK'
BY DEF TypeOK, store, history, Phases, EndReceipts, NoDeletionDue, NoAutoResume,
       EndUrcs, NoReadDue, NoScan, NoBatch, EndBatch, NoCommand, EndPass

(* The listing and the read of a batch. *)
LEMMA StorageReadType ==
  ASSUME TypeOK,
         \/ \E listed \in SUBSET StoredIn(MESlots) : ScanStorage(listed)
         \/ ReadSweepBatch
  PROVE  TypeOK'
<1>1. ASSUME NEW listed \in SUBSET StoredIn(MESlots), ScanStorage(listed)
      PROVE  TypeOK'
  <2>1. sweep' \subseteq MESlots
    BY <1>1 DEF ScanStorage, StoredIn
  <2>2. deletions' \subseteq deletions
    BY <1>1 DEF ScanStorage
  <2> QED BY <1>1, <2>1, <2>2 DEF ScanStorage, TypeOK, store, history, Phases
<1>2. ASSUME NEW indices \in BatchesOf(sweep),
             NEW readable \in SUBSET {s \in indices : modem[s] # Empty},
             ReadBatch(indices, readable)
      PROVE  TypeOK'
  <2>1. indices \subseteq MESlots
    BY DEF BatchesOf, TypeOK
  <2>2. \A s \in readable :
          [slot |-> s, pdu |-> modem[s]] \in [slot : MESlots, pdu : Pdus]
    BY <2>1 DEF TypeOK, Slots
  <2>3. batch' \subseteq [slot : MESlots, pdu : Pdus]
    BY <1>2, <2>2 DEF ReadBatch
  <2>4. sweep' \subseteq MESlots
    BY <1>2 DEF ReadBatch, TypeOK
  <2> QED BY <1>2, <2>3, <2>4 DEF ReadBatch, TypeOK, store, history, Phases
<1> QED BY <1>1, <1>2 DEF ReadSweepBatch

(* The end of a pause, and the operator's commands. *)
LEMMA OperatorType ==
  ASSUME TypeOK, AutoResume \/ DispatchCommand
  PROVE  TypeOK'
<1>1. QueuePlain(ready) \in Seq(Items)
  BY ItemTypes, QueuePlainSeq DEF TypeOK
<1>2. CASE AutoResume
  BY <1>1, <1>2 DEF AutoResume, TypeOK, history, Phases
<1>3. CASE DispatchCommand
  <2>1. /\ ready' \in Seq(Items)
        /\ blocked' \subseteq Messages
        /\ fwd' \in BOOLEAN
        /\ timer' \in BOOLEAN
    BY <1>1, <1>3 DEF DispatchCommand, Pause, Resume, Block, Unblock, AtReply, TypeOK
  <2> QED BY <1>3, <2>1 DEF DispatchCommand, TypeOK, history, Phases
<1> QED BY <1>2, <1>3

(* The hand-over to the worker. *)
LEMMA PumpType ==
  ASSUME TypeOK, PumpNotification
  PROVE  TypeOK'
<1> DEFINE next == Min(Pumpable)
           entry == [item |-> ready[next], receipt |-> "none"]
<1>1. ready \in Seq(Items) /\ next \in 1 .. Len(ready)
  BY PumpableIndex DEF TypeOK, PumpNotification
<1>2. ready' = RemoveAt(ready, next) /\ pending' = Append(pending, entry)
  BY DEF PumpNotification
<1> HIDE DEF next
<1>3. ready' \in Seq(Items)
  BY <1>1, <1>2, RemoveAtProperties
<1>4. entry \in Entries
  BY <1>1, ElementOfSeq DEF Entries
<1>5. pending' \in Seq(Entries)
  BY <1>2, <1>4, AppendProperties DEF TypeOK, Entries
<1> QED BY <1>3, <1>5 DEF PumpNotification, TypeOK, store, history, Entries

(* All steps of the main loop. *)
LEMMA MainLoopType == TypeOK /\ MainLoop => TypeOK'
BY ReceiptsType, DeletionType, ReadsType, CallType, DirectType, ReadSlotType,
   SweepType, PassType, StorageReadType, OperatorType, PumpType DEF MainLoop

(* Every queue, slot and history always holds values of its kind. *)
THEOREM TypeCorrect == Spec => []TypeOK
<1>1. TypeOK /\ [Next]_vars => TypeOK'
  <2>1. TypeOK /\ UNCHANGED vars => TypeOK'
    BY DEF TypeOK, vars, store, history
  <2> QED BY <2>1, NetworkType, WorkerType, MainLoopType, RebootType DEF Next
<1> QED BY <1>1, InitType, PTL DEF Spec

-----------------------------------------------------------------------------
(* No loss.  The inductive invariant says of every queue what the deletion   *)
(* of a slot relies on: a notification's slots hold parts of its message, a  *)
(* confirmed one was delivered, and a slot is queued for deletion only for a *)
(* settled message.                                                          *)

OfMessage(m, slots) == \A c \in slots : MessageOf[c.pdu] = m

SoundItems ==
  {item \in Items : item.kind = "Sms" => OfMessage(item.id, item.slots)}

SoundEntries(accepted) ==
  {e \in [item : SoundItems, receipt : {"none", "ok", "failed"}] :
     e.receipt = "ok" /\ e.item.kind = "Sms" => e.item.id \in accepted}

SoundParts == {g \in PartType : OfMessage(MessageOf[g.pdu], g.slots)}

SoundQueues ==
  /\ ready \in Seq(SoundItems)
  /\ pending \in Seq(SoundEntries(delivered))
  /\ concat \subseteq SoundParts

SafetyInv == TypeOK /\ SoundQueues /\ OnlySettledDeleted /\ NoLoss

(* What is put into the queue is sound. *)
LEMMA SoundItemTypes ==
  /\ \A m \in Messages, slots \in SUBSET Copies :
       OfMessage(m, slots) => SmsItem(m, slots) \in SoundItems
  /\ \A c \in Calls : CallItem(c) \in SoundItems
  /\ PlainItem \in SoundItems
BY DEF SoundItems, Items, SmsItem, CallItem, PlainItem

(* What preparing a PDU may change: the queues stay sound, and only slots of *)
(* a message dropped on purpose are queued for deletion.                     *)
PreparedSoundly ==
  /\ ready' \in Seq(SoundItems)
  /\ concat' \subseteq SoundParts
  /\ dropped \subseteq dropped'
  /\ \A d \in deletions' : d \in deletions \/ MessageOf[d.copy.pdu] \in dropped'

(* A prepared message is queued, or dropped with its own slots. *)
LEMMA QueuePreparedSound ==
  ASSUME NEW q \in Seq(SoundItems), NEW m \in Messages, NEW slots \in SUBSET Copies,
         OfMessage(m, slots), QueuePrepared(m, slots, q), concat' \subseteq SoundParts
  PROVE  PreparedSoundly
<1>1. ready' \in Seq(SoundItems)
  BY SoundItemTypes, QueuePreparedReady
<1>2. \A d \in PendingDeletions(slots) : MessageOf[d.copy.pdu] = m
  BY DEF PendingDeletions, OfMessage
<1> QED BY <1>1, <1>2 DEF QueuePrepared, PreparedSoundly

(* Reassembly joins only parts, and copies, of one message. *)
LEMMA PrepareSound ==
  ASSUME SoundQueues, NEW q \in Seq(SoundItems), NEW p \in Pdus,
         NEW slots \in SUBSET Copies, OfMessage(MessageOf[p], slots),
         Prepare(p, slots, q)
  PROVE  PreparedSoundly
<1>0. concat \subseteq SoundParts /\ MessageOf[p] \in Messages
  BY MessagesAssumption DEF SoundQueues
<1>1. CASE p \in Unparsable
  BY <1>0, <1>1 DEF Prepare, Retain, PreparedSoundly
<1>2. CASE p \notin Unparsable /\ PartsOf(MessageOf[p]) = {p}
  BY <1>0, <1>2, QueuePreparedSound DEF Prepare
<1>3. CASE p \notin Unparsable /\ PartsOf(MessageOf[p]) # {p}
  <2>1. FeedPart(p, slots, q)
    BY <1>3 DEF Prepare
  <2>2. PICK expired \in SUBSET Expirable :
          LET live  == {g \in concat : MessageOf[g.pdu] \notin expired}
                         \union {[pdu |-> p, slots |-> slots]}
              group == {g \in live : MessageOf[g.pdu] = MessageOf[p]}
          IN  IF {g.pdu : g \in group} = PartsOf(MessageOf[p])
              THEN /\ concat' = live \ group
                   /\ QueuePrepared(MessageOf[p], UNION {g.slots : g \in group}, q)
              ELSE /\ concat' = live
                   /\ Retain(q)
    BY <2>1 DEF FeedPart
  <2> DEFINE live  == {g \in concat : MessageOf[g.pdu] \notin expired}
                        \union {[pdu |-> p, slots |-> slots]}
             group == {g \in live : MessageOf[g.pdu] = MessageOf[p]}
             held  == UNION {g.slots : g \in group}
  <2>3. live \subseteq SoundParts
    BY <1>0 DEF SoundParts, PartType
  <2>4. held \in SUBSET Copies
    BY <2>3 DEF SoundParts, PartType
  <2>5. OfMessage(MessageOf[p], held)
    BY <2>3 DEF SoundParts, OfMessage
  <2>6. \/ concat' = live \ group /\ QueuePrepared(MessageOf[p], held, q)
        \/ concat' = live /\ Retain(q)
    BY <2>2
  <2> HIDE DEF live, group, held
  <2>7. concat' \subseteq SoundParts
    BY <2>3, <2>6
  <2>8. CASE QueuePrepared(MessageOf[p], held, q)
    BY <1>0, <2>4, <2>5, <2>7, <2>8, QueuePreparedSound
  <2>9. CASE Retain(q)
    BY <2>7, <2>9 DEF Retain, PreparedSoundly
  <2> QED BY <2>6, <2>8, <2>9
<1> QED BY <1>1, <1>2, <1>3

(* Messages stay settled. *)
LEMMA SoundEntriesGrow ==
  ASSUME NEW D, NEW E, D \subseteq E, NEW q \in Seq(SoundEntries(D))
  PROVE  q \in Seq(SoundEntries(E))
<1>1. SoundEntries(D) \subseteq SoundEntries(E)
  BY DEF SoundEntries
<1> QED BY <1>1, SeqMonotonic

(* A step that keeps the modem and what has arrived preserves the invariant  *)
(* when it prepares nothing wrong.                                           *)
LEMMA PreparingStep ==
  ASSUME SafetyInv, TypeOK', PreparedSoundly,
         UNCHANGED <<modem, arrived, pending, delivered>>
  PROVE  SafetyInv'
<1>1. SoundQueues'
  BY DEF SafetyInv, SoundQueues, PreparedSoundly
<1>2. OnlySettledDeleted'
  BY DEF SafetyInv, OnlySettledDeleted, Settled, PreparedSoundly
<1>3. NoLoss'
  BY DEF SafetyInv, NoLoss, Settled, PreparedSoundly
<1> QED BY <1>1, <1>2, <1>3 DEF SafetyInv

(* Boot. *)
LEMMA InitSafety == Init => SafetyInv
<1> SUFFICES ASSUME Init PROVE SafetyInv
  OBVIOUS
<1>1. ready \in Seq(SoundItems)
  <2>1. <<>> \in Seq(SoundItems)
    OBVIOUS
  <2> QED BY <2>1, SoundItemTypes, QueuePlainSeq DEF Init
<1>2. pending \in Seq(SoundEntries(delivered))
  BY DEF Init
<1>3. SoundQueues
  BY <1>1, <1>2 DEF Init, SoundQueues
<1> QED BY <1>3, InitType DEF Init, SafetyInv, OnlySettledDeleted, NoLoss

(* An arriving PDU is put into an empty slot and covers no other. *)
LEMMA NetworkSafety ==
  ASSUME SafetyInv, TypeOK', Network
  PROVE  SafetyInv'
<1>1. UNCHANGED <<ready, pending, concat, deletions, delivered, dropped>>
  BY DEF Network, StoreSms, DirectSms, IncomingCall, history
<1>2. SoundQueues' /\ OnlySettledDeleted'
  BY <1>1 DEF SafetyInv, SoundQueues, OnlySettledDeleted, Settled
<1>3. NoLoss'
  <2>1. ASSUME NEW p \in Pdus, NEW s \in Slots, StoreSms(p, s) PROVE NoLoss'
    <3>1. modem' = [modem EXCEPT ![s] = p] /\ modem \in [Slots -> Pdus \union {Empty}]
      BY <2>1 DEF StoreSms, SafetyInv, TypeOK
    <3>2. \A r \in Pdus, t \in Slots : modem[t] = r => modem'[t] = r
      BY <2>1, <3>1, StorageAssumption DEF StoreSms
    <3>3. modem'[s] = p
      BY <3>1
    <3>4. arrived' = arrived \union {p}
      BY <2>1 DEF StoreSms
    <3> QED BY <1>1, <3>2, <3>3, <3>4 DEF SafetyInv, NoLoss, Settled
  <2>2. ASSUME NEW p \in Pdus, DirectSms(p) PROVE NoLoss'
    BY <2>2, <1>1 DEF DirectSms, SafetyInv, NoLoss, Settled
  <2>3. ASSUME NEW c \in Calls, IncomingCall(c) PROVE NoLoss'
    <3>1. arrived' \intersect Pdus = arrived \intersect Pdus
      BY <2>3, MessagesAssumption DEF IncomingCall
    <3> QED BY <2>3, <1>1, <3>1 DEF IncomingCall, SafetyInv, NoLoss, Settled
  <2> QED BY <2>1, <2>2, <2>3 DEF Network
<1> QED BY <1>2, <1>3 DEF SafetyInv

(* A receipt says ok only of a message that is now delivered. *)
LEMMA WorkerSafety ==
  ASSUME SafetyInv, TypeOK', Worker
  PROVE  SafetyInv'
<1>1. PICK i \in DOMAIN pending :
        WorkerConfirms(i) \/ WorkerLosesAnswer(i) \/ WorkerFails(i)
  BY DEF Worker
<1>2. UNCHANGED <<ready, concat, deletions, dropped, modem, arrived>>
  BY <1>1 DEF WorkerConfirms, WorkerLosesAnswer, WorkerFails, history
<1>3. delivered \subseteq delivered'
  BY <1>1 DEF WorkerConfirms, WorkerLosesAnswer, WorkerFails, history
<1>4. pending \in Seq(SoundEntries(delivered')) /\ i \in 1 .. Len(pending)
  BY <1>3, SoundEntriesGrow, LenProperties DEF SafetyInv, SoundQueues
<1>5. pending[i] \in SoundEntries(delivered')
  BY <1>4, ElementOfSeq
<1>6. [pending[i] EXCEPT !.receipt = "failed"] \in SoundEntries(delivered')
  BY <1>5 DEF SoundEntries
<1>7. WorkerConfirms(i)
        => [pending[i] EXCEPT !.receipt = "ok"] \in SoundEntries(delivered')
  BY <1>5 DEF SoundEntries, WorkerConfirms, Accepted
<1>8. pending' \in Seq(SoundEntries(delivered'))
  <2>1. CASE WorkerConfirms(i)
    <3>1. pending' = [pending EXCEPT ![i] = [pending[i] EXCEPT !.receipt = "ok"]]
      BY <2>1 DEF WorkerConfirms
    <3> QED BY <1>4, <1>7, <2>1, <3>1, ExceptSeq
  <2>2. CASE WorkerLosesAnswer(i) \/ WorkerFails(i)
    <3>1. pending' = [pending EXCEPT ![i] = [pending[i] EXCEPT !.receipt = "failed"]]
      BY <2>2 DEF WorkerLosesAnswer, WorkerFails
    <3> QED BY <1>4, <1>6, <3>1, ExceptSeq
  <2> QED BY <1>1, <2>1, <2>2
<1>9. SoundQueues'
  BY <1>2, <1>8 DEF SafetyInv, SoundQueues
<1>10. OnlySettledDeleted' /\ NoLoss'
  BY <1>2, <1>3 DEF SafetyInv, OnlySettledDeleted, NoLoss, Settled
<1> QED BY <1>9, <1>10 DEF SafetyInv

(* A confirmed receipt releases the slots of a delivered message. *)
LEMMA ReceiptsSafety ==
  ASSUME SafetyInv, TypeOK', NEW i \in DOMAIN pending, ProcessReceipt(i)
  PROVE  SafetyInv'
<1>1. pending \in Seq(SoundEntries(delivered)) /\ i \in 1 .. Len(pending)
  BY LenProperties DEF SafetyInv, SoundQueues
<1>2. pending[i] \in SoundEntries(delivered)
  BY <1>1, ElementOfSeq
<1>3. SoundQueues'
  <2>1. pending' \in Seq(SoundEntries(delivered))
    BY <1>1, RemoveAtProperties DEF ProcessReceipt
  <2> QED BY <2>1 DEF ProcessReceipt, history, SafetyInv, SoundQueues
<1>4. OnlySettledDeleted'
  <2>1. ASSUME NEW d \in PendingDeletions(pending[i].item.slots), pending[i].receipt = "ok"
        PROVE  MessageOf[d.copy.pdu] \in delivered
    <3>1. d.copy \in pending[i].item.slots
      BY DEF PendingDeletions
    <3>2. pending[i].item \in SoundItems /\ pending[i].item.kind = "Sms"
      BY <1>2, <3>1 DEF SoundEntries, SoundItems, Items
    <3> QED BY <1>2, <2>1, <3>1, <3>2 DEF SoundEntries, SoundItems, OfMessage
  <2> QED BY <2>1 DEF ProcessReceipt, history, SafetyInv, OnlySettledDeleted, Settled
<1>5. NoLoss'
  BY DEF ProcessReceipt, history, SafetyInv, NoLoss, Settled
<1> QED BY <1>3, <1>4, <1>5 DEF SafetyInv

(* Only the expected PDU is erased, and its message is settled. *)
LEMMA DeletionSafety ==
  ASSUME SafetyInv, TypeOK', NEW d \in deletions, DeleteConsumedSlot(d)
  PROVE  SafetyInv'
<1>1. UNCHANGED <<ready, pending, concat, delivered, dropped, arrived>>
  BY DEF DeleteConsumedSlot, history
<1>2. \A e \in deletions' : \E f \in deletions : e.copy = f.copy
  <2>1. d \in [copy : Copies, retry : BOOLEAN]
    BY DEF SafetyInv, TypeOK
  <2>2. [d EXCEPT !.retry = TRUE].copy = d.copy
    BY <2>1
  <2> QED BY <2>2 DEF DeleteConsumedSlot, DeleteSlot, KeepChangedSlot, DeleteFails
<1>3. SoundQueues' /\ OnlySettledDeleted'
  BY <1>1, <1>2 DEF SafetyInv, SoundQueues, OnlySettledDeleted, Settled
<1>4. NoLoss'
  <2>1. CASE DeleteSlot(d)
    <3>1. modem' = [modem EXCEPT ![d.copy.slot] = Empty]
            /\ modem[d.copy.slot] = d.copy.pdu
            /\ modem \in [Slots -> Pdus \union {Empty}]
      BY <2>1 DEF DeleteSlot, SafetyInv, TypeOK
    <3>2. \A p \in Pdus, s \in Slots :
            modem[s] = p => modem'[s] = p \/ p = d.copy.pdu
      BY <3>1
    <3>3. MessageOf[d.copy.pdu] \in Settled
      BY DEF SafetyInv, OnlySettledDeleted
    <3> QED BY <1>1, <3>2, <3>3 DEF SafetyInv, NoLoss, Settled
  <2>2. CASE ~DeleteSlot(d)
    <3>1. modem' = modem
      BY <2>2 DEF DeleteConsumedSlot, KeepChangedSlot, DeleteFails
    <3> QED BY <1>1, <3>1 DEF SafetyInv, NoLoss, Settled
  <2> QED BY <2>1, <2>2
<1> QED BY <1>3, <1>4 DEF SafetyInv

(* The steps that may prepare a PDU. *)
LEMMA ReserveSound ==
  ASSUME SafetyInv
  PROVE  /\ ReserveCritical(ready) \in Seq(SoundItems)
         /\ ReserveEphemeral(ready) \in Seq(SoundItems)
         /\ QueuePlain(ready) \in Seq(SoundItems)
         /\ ready \in Seq(SoundItems)
BY ReserveCriticalSeq, ReserveEphemeralSeq, QueuePlainSeq, SoundItemTypes
   DEF SafetyInv, SoundQueues

(* Preparing or leaving a PDU alone. *)
LEMMA PreparedOrKept ==
  ASSUME SafetyInv, NEW q \in Seq(SoundItems), NEW p \in Pdus,
         NEW slots \in SUBSET Copies, OfMessage(MessageOf[p], slots),
         \/ Prepare(p, slots, q)
         \/ ready' \in {ready, q} /\ UNCHANGED <<deletions, concat, dropped>>
  PROVE  PreparedSoundly
BY PrepareSound DEF SafetyInv, SoundQueues, PreparedSoundly

(* Direct PDUs, single reads and entries of a batch. *)
LEMMA PreparationSafety ==
  ASSUME SafetyInv, TypeOK',
         \/ \E p \in Pdus : PollDirect(p)
         \/ \E r \in reads : ReadSlot(r)
         \/ \E c \in batch : SweepEntry(c)
  PROVE  SafetyInv'
<1>1. ASSUME NEW p \in Pdus, PollDirect(p) PROVE SafetyInv'
  <2> DEFINE q == ReserveEphemeral(ready)
  <2>1. \/ Prepare(p, {}, q)
        \/ ready' \in {ready, q} /\ UNCHANGED <<deletions, concat, dropped>>
    BY <1>1 DEF PollDirect
  <2>2. OfMessage(MessageOf[p], {})
    BY DEF OfMessage
  <2>3. q \in Seq(SoundItems)
    BY ReserveSound
  <2> HIDE DEF q
  <2>4. PreparedSoundly
    BY <2>1, <2>2, <2>3, PreparedOrKept
  <2> QED BY <1>1, <2>4, PreparingStep DEF PollDirect
<1>2. ASSUME NEW r \in reads, ReadSlot(r) PROVE SafetyInv'
  <2> DEFINE q == ReserveCritical(ready)
             p == modem[r.slot]
             own == {[slot |-> r.slot, pdu |-> p]}
  <2>1. \/ Prepare(p, own, q)
        \/ ready' \in {ready, q} /\ UNCHANGED <<deletions, concat, dropped>>
    BY <1>2 DEF ReadSlot
  <2>2. r.slot \in Slots
    BY DEF SafetyInv, TypeOK
  <2>3. p \in Pdus
    BY <1>2, <2>2 DEF ReadSlot, SafetyInv, TypeOK
  <2>4. own \in SUBSET Copies /\ OfMessage(MessageOf[p], own)
    BY <2>2, <2>3 DEF Copies, OfMessage
  <2>5. q \in Seq(SoundItems)
    BY ReserveSound
  <2> HIDE DEF q, p, own
  <2>6. PreparedSoundly
    BY <2>1, <2>3, <2>4, <2>5, PreparedOrKept
  <2> QED BY <1>2, <2>6, PreparingStep DEF ReadSlot
<1>3. ASSUME NEW c \in batch, SweepEntry(c) PROVE SafetyInv'
  <2> DEFINE q == ReserveCritical(ready)
             own == {c}
  <2>1. \/ Prepare(c.pdu, own, q)
        \/ ready' \in {ready, q} /\ UNCHANGED <<deletions, concat, dropped>>
    BY <1>3 DEF SweepEntry
  <2>2. c.pdu \in Pdus /\ own \in SUBSET Copies /\ OfMessage(MessageOf[c.pdu], own)
    BY DEF SafetyInv, TypeOK, Copies, Slots, OfMessage
  <2>3. q \in Seq(SoundItems)
    BY ReserveSound
  <2> HIDE DEF q, own
  <2>4. PreparedSoundly
    BY <2>1, <2>2, <2>3, PreparedOrKept
  <2> QED BY <1>3, <2>4, PreparingStep DEF SweepEntry
<1> QED BY <1>1, <1>2, <1>3

(* A call has no slots. *)
LEMMA CallSafety ==
  ASSUME SafetyInv, TypeOK', NEW c \in Calls, PollCall(c)
  PROVE  SafetyInv'
<1> DEFINE q == ReserveEphemeral(ready)
<1>1. ready' = IF HasRoom(q) THEN <<CallItem(c)>> \o q ELSE q
  BY DEF PollCall, CallItem
<1>2. q \in Seq(SoundItems) /\ <<CallItem(c)>> \in Seq(SoundItems)
  BY ReserveSound, SoundItemTypes
<1> HIDE DEF q
<1>3. ready' \in Seq(SoundItems)
  BY <1>1, <1>2, ConcatProperties
<1>4. PreparedSoundly
  BY <1>3 DEF PollCall, history, SafetyInv, SoundQueues, PreparedSoundly
<1> QED BY <1>4, PreparingStep DEF PollCall, history

(* A notification moves from one queue to the other. *)
LEMMA PumpSafety ==
  ASSUME SafetyInv, TypeOK', PumpNotification
  PROVE  SafetyInv'
<1> DEFINE next == Min(Pumpable)
           entry == [item |-> ready[next], receipt |-> "none"]
<1>1. ready \in Seq(SoundItems) /\ next \in 1 .. Len(ready)
  BY PumpableIndex DEF SafetyInv, SoundQueues, PumpNotification
<1>2. ready' = RemoveAt(ready, next) /\ pending' = Append(pending, entry)
  BY DEF PumpNotification
<1> HIDE DEF next
<1>3. ready' \in Seq(SoundItems)
  BY <1>1, <1>2, RemoveAtProperties
<1>4. entry \in SoundEntries(delivered)
  BY <1>1, ElementOfSeq DEF SoundEntries
<1>5. pending' \in Seq(SoundEntries(delivered))
  BY <1>2, <1>4, AppendProperties DEF SafetyInv, SoundQueues
<1> QED BY <1>3, <1>5
        DEF PumpNotification, history, SafetyInv, SoundQueues, OnlySettledDeleted,
            NoLoss, Settled

(* The steps of the main loop that touch the queues only to add a text or to *)
(* forget a deletion.                                                        *)
LEMMA PassSafety ==
  ASSUME SafetyInv, TypeOK',
         \/ EndReceipts \/ NoDeletionDue \/ NoAutoResume \/ EndUrcs \/ NoReadDue
         \/ NoScan \/ NoBatch \/ EndBatch \/ NoCommand \/ EndPass
         \/ AutoResume \/ DispatchCommand \/ ReadSweepBatch
         \/ \E s \in Slots : PollCmti(s)
         \/ \E r \in reads : ReadSlotFails(r)
         \/ \E listed \in SUBSET StoredIn(MESlots) : ScanStorage(listed)
  PROVE  SafetyInv'
<1>1. ready' \in {ready, QueuePlain(ready)} /\ deletions' \subseteq deletions
  BY DEF history, EndReceipts, NoDeletionDue, NoAutoResume, EndUrcs, NoReadDue,
         NoScan, NoBatch, EndBatch, NoCommand, EndPass, AutoResume,
         DispatchCommand, Pause, Resume, Block, Unblock, AtReply, ReadSweepBatch,
         ReadBatch, PollCmti, ReadSlotFails, ScanStorage
<1>2. UNCHANGED <<concat, dropped, modem, arrived, pending, delivered>>
  BY DEF history, EndReceipts, NoDeletionDue, NoAutoResume, EndUrcs, NoReadDue,
         NoScan, NoBatch, EndBatch, NoCommand, EndPass, AutoResume,
         DispatchCommand, ReadSweepBatch, ReadBatch, PollCmti, ReadSlotFails,
         ScanStorage
<1>3. PreparedSoundly
  BY <1>1, <1>2, ReserveSound DEF SafetyInv, SoundQueues, PreparedSoundly
<1> QED BY <1>2, <1>3, PreparingStep

(* A reset forgets everything but the modem and the histories. *)
LEMMA RebootSafety ==
  ASSUME SafetyInv, TypeOK', Reboot
  PROVE  SafetyInv'
<1>1. ready' \in Seq(SoundItems)
  <2>1. <<>> \in Seq(SoundItems)
    OBVIOUS
  <2> QED BY <2>1, SoundItemTypes, QueuePlainSeq DEF Reboot
<1>2. pending' \in Seq(SoundEntries(delivered'))
  BY DEF Reboot
<1> QED BY <1>1, <1>2
        DEF Reboot, SafetyInv, SoundQueues, OnlySettledDeleted, NoLoss, Settled

(* Every step preserves the invariant. *)
LEMMA SafetyStep ==
  ASSUME SafetyInv, TypeOK', [Next]_vars
  PROVE  SafetyInv'
<1>1. CASE Network
  BY <1>1, NetworkSafety
<1>2. CASE Worker
  BY <1>2, WorkerSafety
<1>3. CASE MainLoop
  BY <1>3, ReceiptsSafety, DeletionSafety, PreparationSafety, CallSafety,
     PumpSafety, PassSafety DEF MainLoop
<1>4. CASE Reboot
  BY <1>4, RebootSafety
<1>5. CASE UNCHANGED vars
  BY <1>5 DEF vars, store, history, SafetyInv, SoundQueues, OnlySettledDeleted,
              NoLoss, Settled
<1> QED BY <1>1, <1>2, <1>3, <1>4, <1>5 DEF Next

(* The invariant holds in every reachable state. *)
LEMMA SafetyCorrect == Spec => []SafetyInv
<1>1. SafetyInv /\ TypeOK' /\ [Next]_vars => SafetyInv'
  BY SafetyStep
<1> QED BY <1>1, InitSafety, TypeCorrect, PTL DEF Spec

(* A stored SMS is never lost, whatever is sent, fails, is put off, reuses a *)
(* slot or resets.                                                           *)
THEOREM NothingLost == Spec => []NoLoss
<1>1. SafetyInv => NoLoss
  BY DEF SafetyInv
<1> QED BY <1>1, SafetyCorrect, PTL

(* Only slots of messages that were delivered or dropped on purpose are ever *)
(* queued for deletion.                                                      *)
THEOREM DeletionsSettled == Spec => []OnlySettledDeleted
<1>1. SafetyInv => OnlySettledDeleted
  BY DEF SafetyInv
<1> QED BY <1>1, SafetyCorrect, PTL

-----------------------------------------------------------------------------
(* The order and the limits of the queues, for every limit: an invariant of  *)
(* the ready queue's operations, whichever of the calls, direct and stored   *)
(* SMS, operational texts and reservations meet.                             *)

TextsLast(q) ==
  \A i, j \in 1 .. Len(q) : i < j /\ q[i].kind = "Plain" => q[j].kind = "Plain"

(* A ready queue within its limit, with its operational texts at the end. *)
Orderly(q) == q \in Seq(Items) /\ Len(q) <= MaxReady /\ TextsLast(q)

(* Removing any element keeps a queue orderly and makes room. *)
LEMMA RemoveOrderly ==
  ASSUME NEW q, Orderly(q), NEW i \in 1 .. Len(q)
  PROVE  Orderly(RemoveAt(q, i)) /\ Len(RemoveAt(q, i)) = Len(q) - 1
<1> DEFINE r == RemoveAt(q, i)
<1>0. Len(q) \in Nat /\ MaxReady \in Nat \ {0}
  BY LenProperties, BoundsAssumption DEF Orderly
<1>1. /\ r \in Seq(Items)
      /\ Len(r) = Len(q) - 1
      /\ \A j \in 1 .. Len(q) - 1 : r[j] = IF j < i THEN q[j] ELSE q[j + 1]
  BY RemoveAtProperties DEF Orderly
<1> HIDE DEF r
<1>2. TextsLast(r)
  <2> SUFFICES ASSUME NEW j \in 1 .. Len(r), NEW k \in 1 .. Len(r), j < k,
                      r[j].kind = "Plain"
               PROVE  r[k].kind = "Plain"
    BY DEF TextsLast
  <2>1. PICK m \in 1 .. Len(q), n \in 1 .. Len(q) : m < n /\ r[j] = q[m] /\ r[k] = q[n]
    <3> DEFINE from(n) == IF n < i THEN n ELSE n + 1
    <3>1. from(j) \in 1 .. Len(q) /\ from(k) \in 1 .. Len(q) /\ from(j) < from(k)
      BY <1>0, <1>1
    <3>2. r[j] = q[from(j)] /\ r[k] = q[from(k)]
      BY <1>1
    <3> HIDE DEF from
    <3> QED BY <3>1, <3>2
  <2> QED BY <2>1 DEF Orderly, TextsLast
<1> QED BY <1>0, <1>1, <1>2 DEF Orderly, r

(* So do the reservations, which only ever remove. *)
LEMMA ReserveOrderly ==
  ASSUME NEW q, Orderly(q)
  PROVE  Orderly(ReserveCritical(q)) /\ Orderly(ReserveEphemeral(q))
<1> DEFINE critical == ReserveCritical(q)
<1>1. Orderly(critical)
  <2>1. PlainIndices(q) \subseteq 1 .. Len(q) /\ Len(q) \in Nat
    BY LenProperties DEF PlainIndices, Orderly
  <2>2. PlainIndices(q) # {} => Max(PlainIndices(q)) \in 1 .. Len(q)
    BY <2>1, MaxInSet
  <2> QED BY <2>2, RemoveOrderly DEF ReserveCritical
<1>2. ReserveEphemeral(q) = IF ~HasRoom(critical) /\ StoredIndices(critical) # {}
                            THEN RemoveAt(critical, Max(StoredIndices(critical)))
                            ELSE critical
  BY DEF ReserveEphemeral
<1> HIDE DEF critical
<1>3. StoredIndices(critical) \subseteq 1 .. Len(critical) /\ Len(critical) \in Nat
  BY <1>1, LenProperties DEF StoredIndices, Orderly
<1>4. StoredIndices(critical) # {} => Max(StoredIndices(critical)) \in 1 .. Len(critical)
  BY <1>3, MaxInSet
<1>5. Orderly(ReserveEphemeral(q))
  BY <1>1, <1>2, <1>4, RemoveOrderly
<1> QED BY <1>1, <1>5 DEF critical

(* A text is appended to a queue that has room. *)
LEMMA PlainOrderly ==
  ASSUME NEW q, Orderly(q)
  PROVE  Orderly(QueuePlain(q))
<1>0. q \in Seq(Items) /\ Len(q) \in Nat /\ MaxReady \in Nat
  BY LenProperties, BoundsAssumption DEF Orderly
<1>1. CASE HasRoom(q)
  <2> DEFINE r == Append(q, PlainItem)
  <2>1. QueuePlain(q) = r
    BY <1>1 DEF QueuePlain, PlainItem
  <2>2. /\ r \in Seq(Items)
        /\ Len(r) = Len(q) + 1
        /\ \A j \in 1 .. Len(q) : r[j] = q[j]
        /\ r[Len(q) + 1] = PlainItem
    BY <1>0, ItemTypes, AppendProperties
  <2> HIDE DEF r
  <2>3. TextsLast(r)
    <3> SUFFICES ASSUME NEW j \in 1 .. Len(r), NEW k \in 1 .. Len(r), j < k,
                        r[j].kind = "Plain"
                 PROVE  r[k].kind = "Plain"
      BY DEF TextsLast
    <3>1. j \in 1 .. Len(q) /\ r[j] = q[j]
      BY <1>0, <2>2
    <3>2. CASE k = Len(q) + 1
      BY <2>2, <3>2 DEF PlainItem
    <3>3. CASE k # Len(q) + 1
      <4>1. k \in 1 .. Len(q) /\ r[k] = q[k]
        BY <1>0, <2>2, <3>3
      <4> QED BY <3>1, <4>1 DEF Orderly, TextsLast
    <3> QED BY <3>2, <3>3
  <2> QED BY <1>0, <1>1, <2>1, <2>2, <2>3 DEF Orderly, HasRoom
<1>2. CASE ~HasRoom(q)
  BY <1>2 DEF QueuePlain
<1> QED BY <1>1, <1>2

(* A call goes before everything else. *)
LEMMA CallOrderly ==
  ASSUME NEW q, Orderly(q), HasRoom(q), NEW c \in Calls
  PROVE  Orderly(<<CallItem(c)>> \o q)
<1> DEFINE call == <<CallItem(c)>>
           r == call \o q
<1>0. q \in Seq(Items) /\ Len(q) \in Nat /\ MaxReady \in Nat
  BY LenProperties, BoundsAssumption DEF Orderly
<1>1. call \in Seq(Items) /\ Len(call) = 1 /\ call[1].kind = "Call"
  BY ItemTypes DEF CallItem
<1> HIDE DEF call
<1>2. /\ r \in Seq(Items)
      /\ Len(r) = 1 + Len(q)
      /\ \A j \in 1 .. 1 + Len(q) : r[j] = IF j <= 1 THEN call[j] ELSE q[j - 1]
  <2>1. /\ r \in Seq(Items)
        /\ Len(r) = Len(call) + Len(q)
        /\ \A j \in 1 .. Len(call) + Len(q) :
             r[j] = IF j <= Len(call) THEN call[j] ELSE q[j - Len(call)]
    BY <1>0, <1>1, ConcatProperties
  <2> QED BY <1>1, <2>1
<1> HIDE DEF r
<1>3. TextsLast(r)
  <2> SUFFICES ASSUME NEW j \in 1 .. Len(r), NEW k \in 1 .. Len(r), j < k,
                      r[j].kind = "Plain"
               PROVE  r[k].kind = "Plain"
    BY DEF TextsLast
  <2>1. j # 1 /\ j - 1 \in 1 .. Len(q) /\ k - 1 \in 1 .. Len(q) /\ j - 1 < k - 1
    BY <1>0, <1>1, <1>2
  <2>2. r[j] = q[j - 1] /\ r[k] = q[k - 1]
    BY <1>0, <1>2, <2>1
  <2> QED BY <2>1, <2>2 DEF Orderly, TextsLast
<1> QED BY <1>0, <1>2, <1>3 DEF Orderly, HasRoom, r, call

(* An SMS goes before the first text. *)
LEMMA SmsOrderly ==
  ASSUME NEW q, Orderly(q), HasRoom(q), NEW m \in Messages, NEW slots \in SUBSET Copies
  PROVE  Orderly(QueueSms(q, m, slots))
<1> DEFINE i == IF PlainIndices(q) = {} THEN Len(q) + 1 ELSE Min(PlainIndices(q))
           e == SmsItem(m, slots)
           r == InsertAt(q, i, e)
<1>0. q \in Seq(Items) /\ Len(q) \in Nat /\ MaxReady \in Nat
  BY LenProperties, BoundsAssumption DEF Orderly
<1>1. PlainIndices(q) \subseteq Nat /\ PlainIndices(q) \subseteq 1 .. Len(q)
  BY <1>0 DEF PlainIndices
<1>2. /\ i \in 1 .. Len(q) + 1
      /\ \A j \in 1 .. Len(q) : j < i => q[j].kind # "Plain"
      /\ \A j \in 1 .. Len(q) : j >= i => q[j].kind = "Plain"
  <2>1. CASE PlainIndices(q) = {}
    BY <1>0, <2>1 DEF PlainIndices
  <2>2. CASE PlainIndices(q) # {}
    <3>1. i \in PlainIndices(q) /\ \A y \in PlainIndices(q) : i <= y
      BY <1>1, <2>2, MinInSet
    <3>2. ASSUME NEW j \in 1 .. Len(q), j < i PROVE q[j].kind # "Plain"
      <4>1. j \notin PlainIndices(q)
        BY <1>0, <1>1, <3>1, <3>2
      <4>2. j \in DOMAIN q
        BY <1>0
      <4> QED BY <4>1, <4>2 DEF PlainIndices
    <3>3. q[i].kind = "Plain" /\ i \in 1 .. Len(q)
      BY <1>0, <3>1 DEF PlainIndices
    <3>4. \A j \in 1 .. Len(q) : j >= i => q[j].kind = "Plain"
      BY <1>0, <3>3 DEF Orderly, TextsLast
    <3> QED BY <1>0, <3>2, <3>3, <3>4
  <2> QED BY <2>1, <2>2
<1>3. QueueSms(q, m, slots) = r
  BY DEF QueueSms, SmsItem
<1> HIDE DEF i
<1>4. e \in Items /\ e.kind = "Sms"
  BY ItemTypes DEF SmsItem
<1> HIDE DEF e
<1>5. /\ r \in Seq(Items)
      /\ Len(r) = Len(q) + 1
      /\ \A j \in 1 .. Len(q) + 1 : r[j] = IF j < i THEN q[j]
                                           ELSE IF j = i THEN e ELSE q[j - 1]
  BY <1>0, <1>2, <1>4, InsertAtProperties
<1> HIDE DEF r
<1>6. TextsLast(r)
  <2> SUFFICES ASSUME NEW j \in 1 .. Len(r), NEW k \in 1 .. Len(r), j < k,
                      r[j].kind = "Plain"
               PROVE  r[k].kind = "Plain"
    BY DEF TextsLast
  <2>1. j > i
    <3>1. CASE j < i
      BY <1>0, <1>2, <1>5, <3>1
    <3>2. CASE j = i
      BY <1>0, <1>4, <1>5, <3>2
    <3> QED BY <1>0, <1>2, <3>1, <3>2
  <2>2. k - 1 \in 1 .. Len(q) /\ k - 1 >= i
    BY <1>0, <1>2, <1>5, <2>1
  <2>3. r[k] = q[k - 1]
    BY <1>0, <1>2, <1>5, <2>1
  <2> QED BY <1>2, <2>2, <2>3
<1> QED BY <1>0, <1>3, <1>5, <1>6 DEF Orderly, HasRoom

(* Preparing a PDU, with a place reserved, keeps the queue orderly. *)
LEMMA PrepareOrderly ==
  ASSUME TypeOK, NEW q, Orderly(q), HasRoom(q), NEW p \in Pdus,
         NEW slots \in SUBSET Copies, Prepare(p, slots, q)
  PROVE  Orderly(ready')
<1>0. concat \subseteq PartType /\ MessageOf[p] \in Messages
  BY MessagesAssumption DEF TypeOK, PartType
<1>1. ASSUME NEW m \in Messages, NEW held \in SUBSET Copies, QueuePrepared(m, held, q)
      PROVE  Orderly(ready')
  BY <1>1, SmsOrderly DEF QueuePrepared
<1>2. CASE p \in Unparsable
  BY <1>2 DEF Prepare, Retain
<1>3. CASE p \notin Unparsable /\ PartsOf(MessageOf[p]) = {p}
  BY <1>0, <1>1, <1>3 DEF Prepare
<1>4. CASE p \notin Unparsable /\ PartsOf(MessageOf[p]) # {p}
  <2>1. PICK expired \in SUBSET Expirable :
          LET live  == {g \in concat : MessageOf[g.pdu] \notin expired}
                         \union {[pdu |-> p, slots |-> slots]}
              group == {g \in live : MessageOf[g.pdu] = MessageOf[p]}
          IN  IF {g.pdu : g \in group} = PartsOf(MessageOf[p])
              THEN /\ concat' = live \ group
                   /\ QueuePrepared(MessageOf[p], UNION {g.slots : g \in group}, q)
              ELSE /\ concat' = live
                   /\ Retain(q)
    BY <1>4 DEF Prepare, FeedPart
  <2> DEFINE live  == {g \in concat : MessageOf[g.pdu] \notin expired}
                        \union {[pdu |-> p, slots |-> slots]}
             group == {g \in live : MessageOf[g.pdu] = MessageOf[p]}
             held  == UNION {g.slots : g \in group}
  <2>2. held \in SUBSET Copies
    BY <1>0 DEF PartType
  <2>3. QueuePrepared(MessageOf[p], held, q) \/ Retain(q)
    BY <2>1
  <2> HIDE DEF held
  <2> QED BY <1>0, <1>1, <2>2, <2>3 DEF Retain
<1> QED BY <1>2, <1>3, <1>4

-----------------------------------------------------------------------------
(* The steps. *)

Within == Orderly(ready) /\ Len(pending) <= MaxPending
            /\ IsFiniteSet(reads) /\ Cardinality(reads) <= MaxReads

(* The ready queue after a step is orderly. *)
LEMMA ReadyStep ==
  ASSUME TypeOK, Orderly(ready), [Next]_vars
  PROVE  Orderly(ready')
<1>1. ready' \in {ready, QueuePlain(ready)} => Orderly(ready')
  BY PlainOrderly
<1>2. CASE Network \/ Worker \/ UNCHANGED vars
  <2>1. ready' = ready
    BY <1>2 DEF Network, StoreSms, DirectSms, IncomingCall, Worker, WorkerConfirms,
                WorkerLosesAnswer, WorkerFails, vars
  <2> QED BY <2>1
<1>3. CASE Reboot
  <2>1. Orderly(<<>>)
    BY BoundsAssumption DEF Orderly, TextsLast
  <2> QED BY <1>3, <2>1, PlainOrderly DEF Reboot
<1>4. CASE MainLoop
  <2>1. ASSUME NEW c \in Calls, PollCall(c) PROVE Orderly(ready')
    <3> DEFINE q == ReserveEphemeral(ready)
    <3>1. Orderly(q)
      BY ReserveOrderly
    <3>2. ready' = IF HasRoom(q) THEN <<CallItem(c)>> \o q ELSE q
      BY <2>1 DEF PollCall, CallItem
    <3> HIDE DEF q
    <3> QED BY <3>1, <3>2, CallOrderly
  <2>2. ASSUME NEW p \in Pdus, PollDirect(p) PROVE Orderly(ready')
    <3> DEFINE q == ReserveEphemeral(ready)
    <3>1. Orderly(q)
      BY ReserveOrderly
    <3>2. (HasRoom(q) /\ Prepare(p, {}, q)) \/ ready' = q
      BY <2>2 DEF PollDirect
    <3> HIDE DEF q
    <3> QED BY <3>1, <3>2, PrepareOrderly
  <2>3. ASSUME NEW r \in reads, ReadSlot(r) PROVE Orderly(ready')
    <3> DEFINE q == ReserveCritical(ready)
               p == modem[r.slot]
               own == {[slot |-> r.slot, pdu |-> p]}
    <3>1. Orderly(q)
      BY ReserveOrderly
    <3>2. (HasRoom(q) /\ Prepare(p, own, q)) \/ ready' \in {ready, q}
      BY <2>3 DEF ReadSlot
    <3>3. p \in Pdus /\ own \in SUBSET Copies
      BY <2>3 DEF ReadSlot, TypeOK, Copies
    <3> HIDE DEF q, p, own
    <3> QED BY <3>1, <3>2, <3>3, PrepareOrderly
  <2>4. ASSUME NEW c \in batch, SweepEntry(c) PROVE Orderly(ready')
    <3> DEFINE q == ReserveCritical(ready)
               own == {c}
    <3>1. Orderly(q)
      BY ReserveOrderly
    <3>2. (HasRoom(q) /\ Prepare(c.pdu, own, q)) \/ ready' \in {ready, q}
      BY <2>4 DEF SweepEntry
    <3>3. c.pdu \in Pdus /\ own \in SUBSET Copies
      BY DEF TypeOK, Copies, Slots
    <3> HIDE DEF q, own
    <3> QED BY <3>1, <3>2, <3>3, PrepareOrderly
  <2>5. ASSUME PumpNotification PROVE Orderly(ready')
    <3>1. Min(Pumpable) \in 1 .. Len(ready)
      BY <2>5, PumpableIndex DEF PumpNotification, TypeOK
    <3> QED BY <2>5, <3>1, RemoveOrderly DEF PumpNotification
  <2>6. CASE \/ \E i \in DOMAIN pending : ProcessReceipt(i)
             \/ \E d \in deletions : DeleteConsumedSlot(d)
             \/ \E s \in Slots : PollCmti(s)
             \/ \E r \in reads : ReadSlotFails(r)
             \/ \E listed \in SUBSET StoredIn(MESlots) : ScanStorage(listed)
             \/ ReadSweepBatch \/ AutoResume \/ DispatchCommand
             \/ EndReceipts \/ NoDeletionDue \/ NoAutoResume \/ EndUrcs \/ NoReadDue
             \/ NoScan \/ NoBatch \/ EndBatch \/ NoCommand \/ EndPass
    <3>1. ready' \in {ready, QueuePlain(ready)}
      BY <2>6 DEF ProcessReceipt, DeleteConsumedSlot, PollCmti, ReadSlotFails,
           ScanStorage, ReadSweepBatch, ReadBatch, AutoResume, DispatchCommand,
           Pause, Resume, Block, Unblock, AtReply, EndReceipts, NoDeletionDue,
           NoAutoResume, EndUrcs, NoReadDue, NoScan, NoBatch, EndBatch, NoCommand,
           EndPass
    <3> QED BY <1>1, <3>1
  <2> QED BY <1>4, <2>1, <2>2, <2>3, <2>4, <2>5, <2>6 DEF MainLoop
<1> QED BY <1>2, <1>3, <1>4 DEF Next

(* The outbound queue grows only in the pump, which looks at its length. *)
LEMMA PendingStep ==
  ASSUME TypeOK, Len(pending) <= MaxPending, [Next]_vars
  PROVE  Len(pending') <= MaxPending
<1>0. pending \in Seq(Entries) /\ Len(pending) \in Nat /\ MaxPending \in Nat
  BY LenProperties, BoundsAssumption DEF TypeOK, Entries
<1>1. ASSUME PumpNotification PROVE Len(pending') <= MaxPending
  BY <1>0, <1>1, AppendProperties DEF PumpNotification
<1>2. ASSUME NEW i \in DOMAIN pending, ProcessReceipt(i)
      PROVE  Len(pending') <= MaxPending
  <2>1. i \in 1 .. Len(pending) /\ pending' = RemoveAt(pending, i)
    BY <1>0, <1>2 DEF ProcessReceipt
  <2>2. Len(pending') = Len(pending) - 1
    BY <1>0, <2>1, RemoveAtProperties
  <2> QED BY <1>0, <2>2
<1>3. ASSUME NEW i \in DOMAIN pending, NEW r \in {"none", "ok", "failed"},
             pending' = [pending EXCEPT ![i].receipt = r]
      PROVE  Len(pending') <= MaxPending
  BY <1>0, <1>3
<1>4. CASE Worker
  BY <1>3, <1>4 DEF Worker, WorkerConfirms, WorkerLosesAnswer, WorkerFails
<1>5. CASE Reboot
  BY <1>0, <1>5 DEF Reboot
<1>6. CASE Network \/ UNCHANGED vars
  BY <1>6 DEF Network, StoreSms, DirectSms, IncomingCall, vars
<1>7. CASE MainLoop
  BY <1>1, <1>2, <1>7 DEF MainLoop, DeleteConsumedSlot, PollCmti, ReadSlotFails,
       ScanStorage, ReadSweepBatch, ReadBatch, AutoResume, DispatchCommand,
       EndReceipts, NoDeletionDue, NoAutoResume, EndUrcs, NoReadDue, NoScan,
       NoBatch, EndBatch, NoCommand, EndPass, PollCall, PollDirect, ReadSlot,
       SweepEntry
<1> QED BY <1>4, <1>5, <1>6, <1>7 DEF Next

(* A +CMTI adds a read when there is a place, or takes that of an ME slot; a *)
(* failed read takes its own place again.                                    *)
LEMMA ReadsStep ==
  ASSUME TypeOK, IsFiniteSet(reads), Cardinality(reads) <= MaxReads, [Next]_vars
  PROVE  IsFiniteSet(reads') /\ Cardinality(reads') <= MaxReads
<1>0. Cardinality(reads) \in Nat /\ MaxReads \in Nat
  BY FS_CardinalityType, BoundsAssumption
<1>1. ASSUME NEW s \in Slots, PollCmti(s)
      PROVE  IsFiniteSet(reads') /\ Cardinality(reads') <= MaxReads
  <2>1. CASE reads' = reads
    BY <1>0, <2>1
  <2>2. CASE reads' # reads
    <3>1. PICK kept \in DisplacedReads(s) :
            reads' = IF Cardinality(kept) < MaxReads
                     THEN kept \union {NewRead(s)} ELSE kept
      BY <1>1, <2>2 DEF PollCmti
    <3>2. kept \subseteq reads
      BY DEF DisplacedReads
    <3>3. IsFiniteSet(kept) /\ Cardinality(kept) <= Cardinality(reads)
             /\ Cardinality(kept) \in Nat
      <4>1. IsFiniteSet(kept) /\ Cardinality(kept) <= Cardinality(reads)
        BY <3>2, FS_Subset
      <4> QED BY <4>1, FS_CardinalityType
    <3>4. /\ IsFiniteSet(kept \union {NewRead(s)})
          /\ Cardinality(kept \union {NewRead(s)}) <= Cardinality(kept) + 1
      BY <3>3, FS_AddElement, SMTT(20)
    <3>5. Cardinality(kept \union {NewRead(s)}) \in Nat
      BY <3>4, FS_CardinalityType
    <3> QED BY <1>0, <3>1, <3>3, <3>4, <3>5
  <2> QED BY <2>1, <2>2
<1>2. ASSUME NEW r \in reads, ReadSlot(r) \/ ReadSlotFails(r)
      PROVE  IsFiniteSet(reads') /\ Cardinality(reads') <= MaxReads
  <2> DEFINE rest == reads \ {r}
             failed == [r EXCEPT !.attempts = IF @ < MaxAttempts THEN @ + 1 ELSE @,
                                 !.retry = TRUE]
  <2>1. IsFiniteSet(rest) /\ Cardinality(rest) = Cardinality(reads) - 1
    BY FS_RemoveElement
  <2>2. reads' \in {rest, rest \union {failed}}
    BY <1>2 DEF ReadSlot, ReadSlotFails
  <2> HIDE DEF rest, failed
  <2>3. IsFiniteSet(rest \union {failed}) /\ Cardinality(rest) \in Nat
          /\ Cardinality(rest \union {failed}) \in {Cardinality(rest), Cardinality(rest) + 1}
    BY <2>1, FS_AddElement, FS_CardinalityType
  <2>4. CASE reads' = rest
    BY <1>0, <2>1, <2>4
  <2>5. CASE reads' = rest \union {failed}
    BY <1>0, <2>1, <2>3, <2>5
  <2> QED BY <2>2, <2>4, <2>5
<1>3. CASE Reboot
  BY <1>0, <1>3, FS_EmptySet DEF Reboot
<1>4. CASE Network \/ Worker \/ UNCHANGED vars
  BY <1>4 DEF Network, StoreSms, DirectSms, IncomingCall, Worker, WorkerConfirms,
       WorkerLosesAnswer, WorkerFails, vars
<1>5. CASE MainLoop
  BY <1>1, <1>2, <1>5 DEF MainLoop, ProcessReceipt, DeleteConsumedSlot, ScanStorage,
       ReadSweepBatch, ReadBatch, AutoResume, DispatchCommand, EndReceipts,
       NoDeletionDue, NoAutoResume, EndUrcs, NoReadDue, NoScan, NoBatch, EndBatch,
       NoCommand, EndPass, PollCall, PollDirect, SweepEntry, PumpNotification
<1> QED BY <1>3, <1>4, <1>5 DEF Next

(* The limits and the order hold in every reachable state. *)
LEMMA WithinAlways == Spec => []Within
<1>1. Init => Within
  <2> SUFFICES ASSUME Init PROVE Within
    OBVIOUS
  <2>1. Orderly(<<>>)
    BY BoundsAssumption DEF Orderly, TextsLast
  <2> QED BY <2>1, PlainOrderly, FS_EmptySet, BoundsAssumption DEF Init, Within
<1>2. TypeOK /\ Within /\ [Next]_vars => Within'
  BY ReadyStep, PendingStep, ReadsStep DEF Within
<1> QED BY <1>1, <1>2, TypeCorrect, PTL DEF Spec

(* The queues in RAM never exceed their limits. *)
THEOREM LimitsKept == Spec => []QueuesBounded
<1>1. Within => QueuesBounded
  BY DEF Within, Orderly, QueuesBounded
<1> QED BY <1>1, WithinAlways, PTL

(* Operational texts never stand before a call or an SMS. *)
THEOREM TextsWait == Spec => []PlainLast
<1>1. Within => PlainLast
  <2> SUFFICES ASSUME Within, NEW i \in PlainIndices(ready), NEW j \in DOMAIN ready, j > i
               PROVE  ready[j].kind = "Plain"
    BY DEF PlainLast
  <2>1. DOMAIN ready = 1 .. Len(ready) /\ Len(ready) \in Nat
    BY LenProperties DEF Within, Orderly
  <2>2. i \in 1 .. Len(ready) /\ j \in 1 .. Len(ready) /\ i < j /\ ready[i].kind = "Plain"
    BY <2>1 DEF PlainIndices
  <2> QED BY <2>2 DEF Within, Orderly, TextsLast
<1> QED BY <1>1, WithinAlways, PTL

-----------------------------------------------------------------------------
(* What leaves the ready queue. *)

(* Removing one element leaves the others. *)
LEMMA RemoveKeeps ==
  ASSUME NEW S, NEW q \in Seq(S), NEW i \in 1 .. Len(q), NEW k \in 1 .. Len(q), i # k
  PROVE  \E j \in DOMAIN RemoveAt(q, i) : RemoveAt(q, i)[j] = q[k]
<1> DEFINE r == RemoveAt(q, i)
           j == IF k < i THEN k ELSE k - 1
<1>0. Len(q) \in Nat
  BY LenProperties
<1>1. /\ r \in Seq(S)
      /\ Len(r) = Len(q) - 1
      /\ \A n \in 1 .. Len(q) - 1 : r[n] = IF n < i THEN q[n] ELSE q[n + 1]
  BY RemoveAtProperties
<1> HIDE DEF r
<1>2. j \in 1 .. Len(q) - 1 /\ r[j] = q[k]
  BY <1>0, <1>1
<1>3. j \in DOMAIN r
  BY <1>0, <1>1, <1>2
<1> QED BY <1>2, <1>3 DEF r

(* Room for a message costs at most an operational text. *)
LEMMA CriticalKeeps ==
  ASSUME NEW q \in Seq(Items), NEW k \in DOMAIN q, q[k].kind # "Plain"
  PROVE  \E j \in DOMAIN ReserveCritical(q) : ReserveCritical(q)[j] = q[k]
<1>1. PlainIndices(q) \subseteq 1 .. Len(q) /\ Len(q) \in Nat /\ k \in 1 .. Len(q)
  BY LenProperties DEF PlainIndices
<1>2. CASE ~HasRoom(q) /\ PlainIndices(q) # {}
  <2> DEFINE i == Max(PlainIndices(q))
  <2>1. i \in PlainIndices(q)
    BY <1>1, <1>2, MaxInSet
  <2>2. i \in 1 .. Len(q) /\ i # k
    BY <1>1, <2>1 DEF PlainIndices
  <2>3. ReserveCritical(q) = RemoveAt(q, i)
    BY <1>2 DEF ReserveCritical
  <2> HIDE DEF i
  <2> QED BY <1>1, <2>2, <2>3, RemoveKeeps
<1>3. CASE ~(~HasRoom(q) /\ PlainIndices(q) # {})
  BY <1>3 DEF ReserveCritical
<1> QED BY <1>2, <1>3

(* Room for a call or a direct SMS may cost a stored SMS, from a full queue  *)
(* without texts.                                                            *)
LEMMA EphemeralKeeps ==
  ASSUME NEW q, Orderly(q), NEW k \in DOMAIN q, q[k].kind # "Plain",
         \A j \in DOMAIN ReserveEphemeral(q) : ReserveEphemeral(q)[j] # q[k]
  PROVE  q[k].slots # {} /\ ~HasRoom(q) /\ PlainIndices(q) = {}
<1> DEFINE critical == ReserveCritical(q)
           i == Max(StoredIndices(critical))
<1>0. q \in Seq(Items) /\ Len(q) \in Nat /\ Len(q) <= MaxReady /\ MaxReady \in Nat
  BY LenProperties, BoundsAssumption DEF Orderly
<1>1. PICK n \in DOMAIN critical : critical[n] = q[k]
  BY <1>0, CriticalKeeps
<1>2. Orderly(critical)
  BY ReserveOrderly
<1>3. ReserveEphemeral(q) = IF ~HasRoom(critical) /\ StoredIndices(critical) # {}
                            THEN RemoveAt(critical, i) ELSE critical
  BY DEF ReserveEphemeral
<1>4. (~HasRoom(q) /\ PlainIndices(q) = {}) \/ HasRoom(critical)
  <2>1. CASE ~HasRoom(q) /\ PlainIndices(q) # {}
    <3>1. PlainIndices(q) \subseteq 1 .. Len(q)
      BY <1>0 DEF PlainIndices
    <3>2. Max(PlainIndices(q)) \in 1 .. Len(q)
      BY <1>0, <2>1, <3>1, MaxInSet
    <3>3. Len(critical) = Len(q) - 1
      BY <2>1, <3>2, RemoveOrderly DEF ReserveCritical
    <3> QED BY <1>0, <3>3 DEF HasRoom
  <2>2. CASE ~(~HasRoom(q) /\ PlainIndices(q) # {})
    BY <2>2 DEF ReserveCritical
  <2> QED BY <2>1, <2>2
<1> HIDE DEF critical
<1>5. ~HasRoom(critical) /\ StoredIndices(critical) # {}
  BY <1>1, <1>3
<1>6. critical \in Seq(Items) /\ Len(critical) \in Nat /\ n \in 1 .. Len(critical)
  BY <1>1, <1>2, LenProperties DEF Orderly
<1>7. i \in StoredIndices(critical) /\ i \in 1 .. Len(critical)
  <2>1. StoredIndices(critical) \subseteq 1 .. Len(critical)
    BY <1>6 DEF StoredIndices
  <2> QED BY <1>5, <1>6, <2>1, MaxInSet
<1> HIDE DEF i
<1>8. i = n
  <2> SUFFICES ASSUME i # n PROVE FALSE
    OBVIOUS
  <2>1. \E j \in DOMAIN RemoveAt(critical, i) : RemoveAt(critical, i)[j] = critical[n]
    BY <1>6, <1>7, RemoveKeeps
  <2> QED BY <1>1, <1>3, <1>5, <2>1
<1> QED BY <1>1, <1>4, <1>5, <1>7, <1>8 DEF StoredIndices

(* Inserting a message leaves every other. *)
LEMMA QueueSmsKeeps ==
  ASSUME NEW q \in Seq(Items), NEW k \in DOMAIN q, NEW m \in Messages,
         NEW slots \in SUBSET Copies
  PROVE  \E j \in DOMAIN QueueSms(q, m, slots) : QueueSms(q, m, slots)[j] = q[k]
<1> DEFINE i == IF PlainIndices(q) = {} THEN Len(q) + 1 ELSE Min(PlainIndices(q))
           e == SmsItem(m, slots)
           r == InsertAt(q, i, e)
           j == IF k < i THEN k ELSE k + 1
<1>0. /\ q \in Seq(Items) /\ Len(q) \in Nat /\ k \in 1 .. Len(q)
      /\ PlainIndices(q) \subseteq 1 .. Len(q)
  BY LenProperties DEF PlainIndices
<1>1. i \in 1 .. Len(q) + 1
  BY <1>0, MinInSet
<1>2. QueueSms(q, m, slots) = r
  BY DEF QueueSms, SmsItem
<1> HIDE DEF i
<1>3. e \in Items
  BY ItemTypes
<1> HIDE DEF e
<1>4. /\ r \in Seq(Items)
      /\ Len(r) = Len(q) + 1
      /\ \A n \in 1 .. Len(q) + 1 : r[n] = IF n < i THEN q[n]
                                           ELSE IF n = i THEN e ELSE q[n - 1]
  BY <1>0, <1>1, <1>3, InsertAtProperties
<1> HIDE DEF r
<1>5. j \in 1 .. Len(q) + 1 /\ r[j] = q[k]
  BY <1>0, <1>1, <1>4
<1>6. j \in DOMAIN r
  BY <1>0, <1>4, <1>5
<1> QED BY <1>2, <1>5, <1>6

(* Preparing a PDU takes nothing out of the queue. *)
LEMMA PrepareKeeps ==
  ASSUME TypeOK, NEW q \in Seq(Items), NEW k \in DOMAIN q, NEW p \in Pdus,
         NEW slots \in SUBSET Copies, Prepare(p, slots, q)
  PROVE  \E j \in DOMAIN ready' : ready'[j] = q[k]
<1>0. concat \subseteq PartType /\ MessageOf[p] \in Messages
  BY MessagesAssumption DEF TypeOK, PartType
<1>1. ASSUME NEW m \in Messages, NEW held \in SUBSET Copies, QueuePrepared(m, held, q)
      PROVE  \E j \in DOMAIN ready' : ready'[j] = q[k]
  BY <1>1, QueueSmsKeeps DEF QueuePrepared
<1>2. CASE p \in Unparsable
  BY <1>2 DEF Prepare, Retain
<1>3. CASE p \notin Unparsable /\ PartsOf(MessageOf[p]) = {p}
  BY <1>0, <1>1, <1>3 DEF Prepare
<1>4. CASE p \notin Unparsable /\ PartsOf(MessageOf[p]) # {p}
  <2>1. PICK expired \in SUBSET Expirable :
          LET live  == {g \in concat : MessageOf[g.pdu] \notin expired}
                         \union {[pdu |-> p, slots |-> slots]}
              group == {g \in live : MessageOf[g.pdu] = MessageOf[p]}
          IN  IF {g.pdu : g \in group} = PartsOf(MessageOf[p])
              THEN /\ concat' = live \ group
                   /\ QueuePrepared(MessageOf[p], UNION {g.slots : g \in group}, q)
              ELSE /\ concat' = live
                   /\ Retain(q)
    BY <1>4 DEF Prepare, FeedPart
  <2> DEFINE live  == {g \in concat : MessageOf[g.pdu] \notin expired}
                        \union {[pdu |-> p, slots |-> slots]}
             group == {g \in live : MessageOf[g.pdu] = MessageOf[p]}
             held  == UNION {g.slots : g \in group}
  <2>2. held \in SUBSET Copies
    BY <1>0 DEF PartType
  <2>3. QueuePrepared(MessageOf[p], held, q) \/ Retain(q)
    BY <2>1
  <2> HIDE DEF held
  <2> QED BY <1>0, <1>1, <2>2, <2>3 DEF Retain
<1> QED BY <1>2, <1>3, <1>4

(* Reserving for a message and preparing it takes out nothing but a text. *)
LEMMA CriticalPrepareKeeps ==
  ASSUME TypeOK, NEW k \in DOMAIN ready, ready[k].kind # "Plain", NEW p \in Pdus,
         NEW slots \in SUBSET Copies,
         \/ Prepare(p, slots, ReserveCritical(ready))
         \/ ready' \in {ready, ReserveCritical(ready)}
  PROVE  \E j \in DOMAIN ready' : ready'[j] = ready[k]
<1> DEFINE q == ReserveCritical(ready)
<1>1. ready \in Seq(Items) /\ q \in Seq(Items)
  BY ReserveCriticalSeq DEF TypeOK
<1>2. PICK n \in DOMAIN q : q[n] = ready[k]
  BY <1>1, CriticalKeeps
<1>3. Prepare(p, slots, q) \/ ready' \in {ready, q}
  OBVIOUS
<1> HIDE DEF q
<1> QED BY <1>1, <1>2, <1>3, PrepareKeeps

(* The notification taken by the pump is out for sending, the others stay. *)
LEMMA PumpKeeps ==
  ASSUME TypeOK, NEW k \in DOMAIN ready, PumpNotification
  PROVE  \/ \E j \in DOMAIN ready' : ready'[j] = ready[k]
         \/ \E j \in DOMAIN pending' : pending'[j].item = ready[k]
<1> DEFINE next == Min(Pumpable)
           out  == [item |-> ready[next], receipt |-> "none"]
<1>1. /\ ready \in Seq(Items) /\ pending \in Seq(Entries)
      /\ Len(pending) \in Nat /\ k \in 1 .. Len(ready)
  BY LenProperties DEF TypeOK, Entries
<1>2. next \in 1 .. Len(ready)
  BY <1>1, PumpableIndex DEF PumpNotification
<1>3. ready' = RemoveAt(ready, next) /\ pending' = Append(pending, out)
  BY DEF PumpNotification
<1>4. out \in Entries /\ out.item = ready[next]
  BY <1>1, <1>2, ElementOfSeq DEF Entries
<1> HIDE DEF next, out
<1>5. CASE k = next
  <2>1. /\ Append(pending, out) \in Seq(Entries)
        /\ Len(Append(pending, out)) = Len(pending) + 1
        /\ Append(pending, out)[Len(pending) + 1] = out
    BY <1>1, <1>4, AppendProperties
  <2>2. Len(pending) + 1 \in DOMAIN Append(pending, out)
    BY <1>1, <2>1
  <2> QED BY <1>3, <1>4, <1>5, <2>1, <2>2
<1>6. CASE k # next
  BY <1>1, <1>2, <1>3, <1>6, RemoveKeeps
<1> QED BY <1>5, <1>6

(* A text is appended behind everything else. *)
LEMMA PlainKeeps ==
  ASSUME NEW q \in Seq(Items), NEW k \in DOMAIN q
  PROVE  \E j \in DOMAIN QueuePlain(q) : QueuePlain(q)[j] = q[k]
<1>1. Len(q) \in Nat /\ k \in 1 .. Len(q)
  BY LenProperties
<1>2. CASE HasRoom(q)
  <2>1. QueuePlain(q) = Append(q, PlainItem)
    BY <1>2 DEF QueuePlain, PlainItem
  <2>2. /\ Append(q, PlainItem) \in Seq(Items)
        /\ Len(Append(q, PlainItem)) = Len(q) + 1
        /\ \A j \in 1 .. Len(q) : Append(q, PlainItem)[j] = q[j]
    BY ItemTypes, AppendProperties
  <2> QED BY <1>1, <2>1, <2>2
<1>3. CASE ~HasRoom(q)
  BY <1>3 DEF QueuePlain
<1> QED BY <1>2, <1>3

(* A call goes before everything else and pushes nothing out. *)
LEMMA CallKeeps ==
  ASSUME NEW q \in Seq(Items), NEW k \in DOMAIN q, NEW c \in Calls
  PROVE  \E j \in DOMAIN (<<CallItem(c)>> \o q) : (<<CallItem(c)>> \o q)[j] = q[k]
<1> DEFINE call == <<CallItem(c)>>
           r == call \o q
<1>1. Len(q) \in Nat /\ k \in 1 .. Len(q)
  BY LenProperties
<1>2. call \in Seq(Items) /\ Len(call) = 1
  BY ItemTypes
<1> HIDE DEF call
<1>3. /\ r \in Seq(Items)
      /\ Len(r) = Len(call) + Len(q)
      /\ \A j \in 1 .. Len(call) + Len(q) :
           r[j] = IF j <= Len(call) THEN call[j] ELSE q[j - Len(call)]
  BY <1>2, ConcatProperties
<1> HIDE DEF r
<1>4. k + 1 \in DOMAIN r /\ r[k + 1] = q[k]
  BY <1>1, <1>2, <1>3
<1> QED BY <1>4 DEF r, call

(* Of the steps, only a reset, the reservation for a call or a direct SMS    *)
(* and the pump take more than a text out of the ready queue.                *)
LEMMA LeavingStep ==
  ASSUME TypeOK, Orderly(ready), [Next]_vars, NEW item, Leaves(item),
         ~Reboot, item.kind # "Plain"
  PROVE  /\ item.slots # {} /\ ~HasRoom(ready) /\ PlainIndices(ready) = {}
         /\ \E u \in urcs \ urcs' : u.code \in {"RING", "CMT"}
<1> DEFINE Goal == /\ item.slots # {} /\ ~HasRoom(ready) /\ PlainIndices(ready) = {}
                   /\ \E u \in urcs \ urcs' : u.code \in {"RING", "CMT"}
<1>1. PICK k \in DOMAIN ready : item = ready[k]
  BY DEF Leaves
<1>2. /\ \A j \in DOMAIN ready' : ready'[j] # ready[k]
      /\ \A j \in DOMAIN pending' : pending'[j].item # ready[k]
  BY <1>1 DEF Leaves
<1>3. ready \in Seq(Items) /\ ready[k].kind # "Plain" /\ ready' # ready
  BY <1>1, <1>2 DEF Orderly
<1>4. CASE Network \/ Worker \/ UNCHANGED vars
  BY <1>3, <1>4 DEF Network, StoreSms, DirectSms, IncomingCall, Worker, WorkerConfirms,
       WorkerLosesAnswer, WorkerFails, vars
<1>5. CASE MainLoop
  <2>1. ASSUME NEW c \in Calls, PollCall(c) PROVE Goal
    <3> DEFINE q == ReserveEphemeral(ready)
    <3>1. q \in Seq(Items)
      BY ReserveOrderly DEF Orderly
    <3>2. ready' = IF HasRoom(q) THEN <<CallItem(c)>> \o q ELSE q
      BY <2>1 DEF PollCall, CallItem
    <3>3. \E u \in urcs \ urcs' : u.code \in {"RING", "CMT"}
      BY <2>1 DEF PollCall
    <3>4. ASSUME NEW n \in DOMAIN q PROVE q[n] # ready[k]
      <4> SUFFICES ASSUME q[n] = ready[k] PROVE FALSE
        OBVIOUS
      <4> HIDE DEF q
      <4>1. CASE HasRoom(q)
        <5>1. PICK j \in DOMAIN (<<CallItem(c)>> \o q) : (<<CallItem(c)>> \o q)[j] = q[n]
          BY <3>1, CallKeeps
        <5> QED BY <1>2, <3>2, <4>1, <5>1
      <4>2. CASE ~HasRoom(q)
        BY <1>2, <3>2, <4>2
      <4> QED BY <4>1, <4>2
    <3> QED BY <1>1, <1>3, <3>3, <3>4, EphemeralKeeps
  <2>2. ASSUME NEW p \in Pdus, PollDirect(p) PROVE Goal
    <3> DEFINE q == ReserveEphemeral(ready)
               none == {}
    <3>1. q \in Seq(Items) /\ none \in SUBSET Copies
      BY ReserveOrderly DEF Orderly
    <3>2. Prepare(p, none, q) \/ ready' = q
      BY <2>2 DEF PollDirect
    <3>3. \E u \in urcs \ urcs' : u.code \in {"RING", "CMT"}
      BY <2>2 DEF PollDirect
    <3>4. ASSUME NEW n \in DOMAIN q PROVE q[n] # ready[k]
      <4> SUFFICES ASSUME q[n] = ready[k] PROVE FALSE
        OBVIOUS
      <4> HIDE DEF q, none
      <4> QED BY <1>2, <3>1, <3>2, PrepareKeeps
    <3> QED BY <1>1, <1>3, <3>3, <3>4, EphemeralKeeps
  <2>3. ASSUME NEW r \in reads, ReadSlot(r) PROVE FALSE
    <3> DEFINE p == modem[r.slot]
               own == {[slot |-> r.slot, pdu |-> p]}
    <3>1. Prepare(p, own, ReserveCritical(ready)) \/ ready' \in {ready, ReserveCritical(ready)}
      BY <2>3 DEF ReadSlot
    <3>2. p \in Pdus /\ own \in SUBSET Copies
      BY <2>3 DEF ReadSlot, TypeOK, Copies
    <3> HIDE DEF p, own
    <3> QED BY <1>2, <1>3, <3>1, <3>2, CriticalPrepareKeeps
  <2>4. ASSUME NEW c \in batch, SweepEntry(c) PROVE FALSE
    <3> DEFINE own == {c}
    <3>1. Prepare(c.pdu, own, ReserveCritical(ready)) \/ ready' \in {ready, ReserveCritical(ready)}
      BY <2>4 DEF SweepEntry
    <3>2. c.pdu \in Pdus /\ own \in SUBSET Copies
      BY DEF TypeOK, Copies, Slots
    <3> HIDE DEF own
    <3> QED BY <1>2, <1>3, <3>1, <3>2, CriticalPrepareKeeps
  <2>5. ASSUME PumpNotification PROVE FALSE
    BY <1>2, <2>5, PumpKeeps
  <2>6. CASE \/ \E i \in DOMAIN pending : ProcessReceipt(i)
             \/ \E d \in deletions : DeleteConsumedSlot(d)
             \/ \E s \in Slots : PollCmti(s)
             \/ \E r \in reads : ReadSlotFails(r)
             \/ \E listed \in SUBSET StoredIn(MESlots) : ScanStorage(listed)
             \/ ReadSweepBatch \/ AutoResume \/ DispatchCommand
             \/ EndReceipts \/ NoDeletionDue \/ NoAutoResume \/ EndUrcs \/ NoReadDue
             \/ NoScan \/ NoBatch \/ EndBatch \/ NoCommand \/ EndPass
    <3>1. ready' \in {ready, QueuePlain(ready)}
      BY <2>6 DEF ProcessReceipt, DeleteConsumedSlot, PollCmti, ReadSlotFails,
           ScanStorage, ReadSweepBatch, ReadBatch, AutoResume, DispatchCommand,
           Pause, Resume, Block, Unblock, AtReply, EndReceipts, NoDeletionDue,
           NoAutoResume, EndUrcs, NoReadDue, NoScan, NoBatch, EndBatch, NoCommand,
           EndPass
    <3> QED BY <1>2, <1>3, <3>1, PlainKeeps
  <2> QED BY <1>5, <2>1, <2>2, <2>3, <2>4, <2>5, <2>6 DEF MainLoop
<1> QED BY <1>4, <1>5 DEF Next

(* A call or a direct SMS, of which the modem keeps no copy, leaves the      *)
(* queue only for the worker; a stored SMS is put off only from a full queue *)
(* without texts, and only while such a notification is taken in.            *)
THEOREM UnrepeatableAlways == Spec => UnrepeatableKept
<1> DEFINE Step ==
      \A item \in {ready[i] : i \in DOMAIN ready} :
        Leaves(item) =>
          \/ Reboot
          \/ item.kind = "Plain"
          \/ /\ item.slots # {}
             /\ ~HasRoom(ready)
             /\ PlainIndices(ready) = {}
             /\ \E u \in urcs \ urcs' : u.code \in {"RING", "CMT"}
<1>1. TypeOK /\ Within /\ [Next]_vars => [Step]_vars
  BY LeavingStep DEF Within
<1> QED BY <1>1, TypeCorrect, WithinAlways, PTL DEF Spec, UnrepeatableKept
-----------------------------------------------------------------------------
(***************************************************************************)
(* Who owns a slot of the modem, and how often a message is sent: for any  *)
(* number of PDUs, slots and calls, the RAM queues of SmsForwarding agree  *)
(* with the modem, no slot has two owners, and forwarding implements the   *)
(* mailbox it promises to be.                                              *)
(*                                                                         *)
(* What makes this hold is that a message is queued at most once.  A       *)
(* notification names a slot for every part of its message, each still     *)
(* holding that part, and a PDU is in one slot at most: so the guards      *)
(* notification_slot_in_flight and deletion_slot_pending, which look at    *)
(* slots, keep apart messages.  A direct message has no slots; it is kept  *)
(* apart because each of its parts is handed over once.                    *)
(***************************************************************************)

SmsIndices(q) == {i \in DOMAIN q : q[i].kind = "Sms"}

Ids(q) == {q[i].id : i \in SmsIndices(q)}

OutIndices == {i \in DOMAIN pending : pending[i].item.kind = "Sms"}

OutIds == {pending[i].item.id : i \in OutIndices}

SlotsOf(copies) == {c.slot : c \in copies}

HeldSlots(q) == UNION {SlotsOf(q[i].slots) : i \in DOMAIN q}

OutSlots == UNION {SlotsOf(pending[i].item.slots) : i \in DOMAIN pending}

PartSlots(parts) == UNION {SlotsOf(g.slots) : g \in parts}

(* The slots still hold what was read from them. *)
Backed(copies) == \A c \in copies : modem[c.slot] = c.pdu

(* All parts of a message are there, and the slots are theirs. *)
Gathered(m, slots) ==
  /\ PartsOf(m) # {}
  /\ PartsOf(m) \subseteq arrived
  /\ Backed(slots)
  /\ IF m \in Direct THEN slots = {} ELSE {c.pdu : c \in slots} = PartsOf(m)

(* A PDU on its way to the queue, from the given slots. *)
Fed(p, slots) ==
  /\ p \in arrived
  /\ Backed(slots)
  /\ IF MessageOf[p] \in Direct
     THEN slots = {} /\ MessageOf[p] \notin delivered
     ELSE {c.pdu : c \in slots} = {p}

(* A PDU is stored in one slot at most, and a direct one in none. *)
StorageInv ==
  /\ \A s, t \in Slots : modem[s] = modem[t] /\ modem[s] # Empty => s = t
  /\ \A s \in Slots : modem[s] # Empty =>
       modem[s] \in arrived /\ MessageOf[modem[s]] \notin Direct

(* A batch is handled before anything is deleted. *)
BatchInv ==
  /\ Backed(batch)
  /\ phase # "entries" => batch = {}

(* The ready queue q, the collected parts and the deletions. *)
QueueInv(q, parts, dels) ==
  /\ q \in Seq(Items)
  /\ \A i \in SmsIndices(q) :
       /\ Gathered(q[i].id, q[i].slots)
       /\ q[i].id \notin OutIds
       /\ q[i].id \in Direct => q[i].id \notin delivered
  /\ \A i, j \in SmsIndices(q) : q[i].id = q[j].id => i = j
  /\ parts \subseteq PartType
  /\ \A g \in parts :
       /\ Fed(g.pdu, g.slots)
       /\ PartsOf(MessageOf[g.pdu]) # {g.pdu}
       /\ MessageOf[g.pdu] \notin OutIds \union Ids(q)
  /\ \A d \in dels : d.copy.slot \notin HeldSlots(q) \union OutSlots \union PartSlots(parts)
  /\ \A d, e \in dels : d.copy.slot = e.copy.slot => d = e

(* What the worker has: a direct message is sent once. *)
OutInv ==
  /\ \A i \in OutIndices :
       /\ Gathered(pending[i].item.id, pending[i].item.slots)
       /\ pending[i].item.id \in Direct /\ pending[i].receipt = "none"
            => pending[i].item.id \notin delivered
  /\ \A i, j \in OutIndices : pending[i].item.id = pending[j].item.id => i = j

(* A direct PDU in the UART buffer has not been seen by the firmware. *)
DirectInv ==
  \A p \in Pdus : [code |-> "CMT", of |-> p] \in urcs =>
    /\ p \in arrived
    /\ MessageOf[p] \in Direct
    /\ MessageOf[p] \notin Ids(ready) \union OutIds \union delivered
    /\ \A g \in concat : g.pdu # p

(* A message goes out when all of it has arrived; what is left of it in the  *)
(* modem once that is confirmed waits for its receipt or its deletion.       *)
ConfirmedInv ==
  /\ \A m \in delivered : PartsOf(m) \subseteq arrived
  /\ \A s \in Slots :
       modem[s] # Empty /\ MessageOf[modem[s]] \in delivered \ unconfirmed =>
         \/ \E i \in OutIndices :
              /\ pending[i].receipt = "ok"
              /\ [slot |-> s, pdu |-> modem[s]] \in pending[i].item.slots
         \/ \E d \in deletions : d.copy = [slot |-> s, pdu |-> modem[s]]

OwnershipInv ==
  /\ StorageInv
  /\ BatchInv
  /\ QueueInv(ready, concat, deletions)
  /\ OutInv
  /\ DirectInv
  /\ ConfirmedInv

-----------------------------------------------------------------------------
(* A queue that grows by at most one notification and loses any.            *)

(* r holds elements of q, each at most once, and perhaps e. *)
Drawn(r, q, e) ==
  \E f \in [1 .. Len(r) -> 0 .. Len(q)] :
    /\ \A j \in 1 .. Len(r) : r[j] = IF f[j] = 0 THEN e ELSE q[f[j]]
    /\ \A j, k \in 1 .. Len(r) : f[j] = f[k] => j = k

(* Removal. *)
LEMMA RemoveDraws ==
  ASSUME NEW q \in Seq(Items), NEW i \in 1 .. Len(q), NEW e
  PROVE  RemoveAt(q, i) \in Seq(Items) /\ Drawn(RemoveAt(q, i), q, e)
<1> DEFINE r == RemoveAt(q, i)
           f == [j \in 1 .. Len(r) |-> IF j < i THEN j ELSE j + 1]
<1>0. Len(q) \in Nat
  BY LenProperties
<1>1. /\ r \in Seq(Items)
      /\ Len(r) = Len(q) - 1
      /\ \A j \in 1 .. Len(q) - 1 : r[j] = IF j < i THEN q[j] ELSE q[j + 1]
  BY RemoveAtProperties
<1> HIDE DEF r
<1>2. \A j \in 1 .. Len(r) : f[j] \in 1 .. Len(q) /\ r[j] = q[f[j]]
  BY <1>0, <1>1
<1>3. \A j, k \in 1 .. Len(r) : f[j] = f[k] => j = k
  BY <1>0, <1>1
<1>4. f \in [1 .. Len(r) -> 0 .. Len(q)]
  BY <1>0, <1>1
<1>5. \A j \in 1 .. Len(r) : r[j] = IF f[j] = 0 THEN e ELSE q[f[j]]
  BY <1>0, <1>2
<1> HIDE DEF f
<1> QED BY <1>1, <1>3, <1>4, <1>5 DEF Drawn, r

(* Insertion. *)
LEMMA InsertDraws ==
  ASSUME NEW q \in Seq(Items), NEW i \in 1 .. Len(q) + 1, NEW e \in Items
  PROVE  InsertAt(q, i, e) \in Seq(Items) /\ Drawn(InsertAt(q, i, e), q, e)
<1> DEFINE r == InsertAt(q, i, e)
<1>1. /\ r \in Seq(Items)
      /\ Len(r) = Len(q) + 1
      /\ \A j \in 1 .. Len(q) + 1 : r[j] = IF j < i THEN q[j]
                                           ELSE IF j = i THEN e ELSE q[j - 1]
  BY InsertAtProperties
<1> HIDE DEF r
<1>0. Len(q) \in Nat
  BY LenProperties
<1> DEFINE f == [j \in 1 .. Len(r) |-> IF j < i THEN j ELSE IF j = i THEN 0 ELSE j - 1]
<1>2. f \in [1 .. Len(r) -> 0 .. Len(q)]
  BY <1>0, <1>1
<1>3. \A j \in 1 .. Len(r) : r[j] = IF f[j] = 0 THEN e ELSE q[f[j]]
  BY <1>0, <1>1
<1>4. \A j, k \in 1 .. Len(r) : f[j] = f[k] => j = k
  BY <1>0, <1>1
<1> HIDE DEF f
<1> QED BY <1>1, <1>2, <1>3, <1>4 DEF Drawn, r

(* The back of the queue. *)
LEMMA AppendDraws ==
  ASSUME NEW q \in Seq(Items), NEW e \in Items
  PROVE  Append(q, e) \in Seq(Items) /\ Drawn(Append(q, e), q, e)
<1> DEFINE r == Append(q, e)
           f == [j \in 1 .. Len(r) |-> IF j = Len(q) + 1 THEN 0 ELSE j]
<1>0. Len(q) \in Nat
  BY LenProperties
<1>1. /\ r \in Seq(Items)
      /\ Len(r) = Len(q) + 1
      /\ \A j \in 1 .. Len(q) : r[j] = q[j]
      /\ r[Len(q) + 1] = e
  BY AppendProperties
<1> HIDE DEF r
<1>2. f \in [1 .. Len(r) -> 0 .. Len(q)]
  BY <1>0, <1>1
<1>3. \A j \in 1 .. Len(r) : r[j] = IF f[j] = 0 THEN e ELSE q[f[j]]
  BY <1>0, <1>1
<1>4. \A j, k \in 1 .. Len(r) : f[j] = f[k] => j = k
  BY <1>0, <1>1
<1> HIDE DEF f
<1> QED BY <1>1, <1>2, <1>3, <1>4 DEF Drawn, r

(* The front of the queue. *)
LEMMA FrontDraws ==
  ASSUME NEW q \in Seq(Items), NEW e \in Items
  PROVE  <<e>> \o q \in Seq(Items) /\ Drawn(<<e>> \o q, q, e)
<1> DEFINE call == <<e>>
           r == call \o q
           f == [j \in 1 .. Len(r) |-> j - 1]
<1>0. Len(q) \in Nat
  BY LenProperties
<1>1. call \in Seq(Items) /\ Len(call) = 1 /\ call[1] = e
  OBVIOUS
<1> HIDE DEF call
<1>2. /\ r \in Seq(Items)
      /\ Len(r) = Len(call) + Len(q)
      /\ \A j \in 1 .. Len(call) + Len(q) :
           r[j] = IF j <= Len(call) THEN call[j] ELSE q[j - Len(call)]
  BY <1>1, ConcatProperties
<1>3. Len(r) = 1 + Len(q) /\ \A j \in 1 .. Len(r) : r[j] = IF j = 1 THEN e ELSE q[j - 1]
  BY <1>0, <1>1, <1>2
<1> HIDE DEF r
<1>4. f \in [1 .. Len(r) -> 0 .. Len(q)]
  BY <1>0, <1>3
<1>5. \A j \in 1 .. Len(r) : r[j] = IF f[j] = 0 THEN e ELSE q[f[j]]
  BY <1>0, <1>3
<1>6. \A j, k \in 1 .. Len(r) : f[j] = f[k] => j = k
  BY <1>0, <1>3
<1> HIDE DEF f
<1> QED BY <1>2, <1>4, <1>5, <1>6 DEF Drawn, r, call

(* What may be added to the queue: a text, a call, or a message no other     *)
(* queue has, whose slots are not to be deleted.                             *)
Addable(e, q, parts, dels) ==
  e.kind = "Sms" =>
    /\ Gathered(e.id, e.slots)
    /\ e.id \notin Ids(q) \union OutIds
    /\ e.id \in Direct => e.id \notin delivered
    /\ \A g \in parts : MessageOf[g.pdu] # e.id
    /\ \A d \in dels : d.copy.slot \notin SlotsOf(e.slots)

(* The queue stays sound. *)
LEMMA DrawnKeeps ==
  ASSUME NEW q, NEW parts, NEW dels, QueueInv(q, parts, dels), NEW e \in Items,
         Addable(e, q, parts, dels), NEW r \in Seq(Items), Drawn(r, q, e)
  PROVE  /\ QueueInv(r, parts, dels)
         /\ Ids(r) \subseteq Ids(q) \union (IF e.kind = "Sms" THEN {e.id} ELSE {})
<1>0. q \in Seq(Items) /\ Len(q) \in Nat /\ Len(r) \in Nat
      /\ DOMAIN q = 1 .. Len(q) /\ DOMAIN r = 1 .. Len(r)
  BY LenProperties DEF QueueInv
<1>1. PICK f \in [1 .. Len(r) -> 0 .. Len(q)] :
        /\ \A j \in 1 .. Len(r) : r[j] = IF f[j] = 0 THEN e ELSE q[f[j]]
        /\ \A j, k \in 1 .. Len(r) : f[j] = f[k] => j = k
  BY DEF Drawn
<1>2. \A j \in DOMAIN r :
        \/ r[j] = e /\ f[j] = 0
        \/ f[j] \in DOMAIN q /\ r[j] = q[f[j]]
  <2> TAKE j \in DOMAIN r
  <2>1. f[j] \in 0 .. Len(q) /\ r[j] = IF f[j] = 0 THEN e ELSE q[f[j]]
    BY <1>0, <1>1
  <2>2. f[j] # 0 => f[j] \in 1 .. Len(q)
    BY <1>0, <2>1
  <2> QED BY <1>0, <2>1, <2>2
<1>3. \A j \in SmsIndices(r) :
        \/ e.kind = "Sms" /\ r[j] = e /\ f[j] = 0
        \/ f[j] \in SmsIndices(q) /\ r[j] = q[f[j]]
  BY <1>2 DEF SmsIndices
<1>4. Ids(r) \subseteq Ids(q) \union (IF e.kind = "Sms" THEN {e.id} ELSE {})
  BY <1>3 DEF Ids
<1>5. HeldSlots(r) \subseteq HeldSlots(q) \union SlotsOf(e.slots)
  BY <1>2 DEF HeldSlots
<1>6. e.kind # "Sms" => SlotsOf(e.slots) = {}
  BY DEF Items, SlotsOf
<1>7. ASSUME NEW i \in SmsIndices(r)
      PROVE  /\ Gathered(r[i].id, r[i].slots)
             /\ r[i].id \notin OutIds
             /\ r[i].id \in Direct => r[i].id \notin delivered
  <2>1. CASE f[i] \in SmsIndices(q) /\ r[i] = q[f[i]]
    BY <2>1 DEF QueueInv
  <2>2. CASE e.kind = "Sms" /\ r[i] = e
    BY <2>2 DEF Addable
  <2> QED BY <1>3, <2>1, <2>2
<1>8. ASSUME NEW i \in SmsIndices(r), NEW j \in SmsIndices(r), r[i].id = r[j].id
      PROVE  i = j
  <2>0. i \in 1 .. Len(r) /\ j \in 1 .. Len(r)
    BY <1>0 DEF SmsIndices
  <2>1. CASE f[i] \in SmsIndices(q) /\ r[i] = q[f[i]] /\ f[j] \in SmsIndices(q) /\ r[j] = q[f[j]]
    <3>1. f[i] = f[j]
      BY <1>8, <2>1 DEF QueueInv
    <3> QED BY <1>1, <2>0, <3>1
  <2>2. CASE f[i] = 0 /\ f[j] = 0
    BY <1>1, <2>0, <2>2
  <2>3. CASE f[i] \in SmsIndices(q) /\ r[i] = q[f[i]] /\ e.kind = "Sms" /\ r[j] = e
    BY <1>8, <2>3 DEF Addable, Ids
  <2>4. CASE f[j] \in SmsIndices(q) /\ r[j] = q[f[j]] /\ e.kind = "Sms" /\ r[i] = e
    BY <1>8, <2>4 DEF Addable, Ids
  <2> QED BY <1>3, <2>1, <2>2, <2>3, <2>4
<1>9. ASSUME NEW g \in parts PROVE MessageOf[g.pdu] \notin OutIds \union Ids(r)
  BY <1>4 DEF QueueInv, Addable
<1>10. ASSUME NEW d \in dels
       PROVE  d.copy.slot \notin HeldSlots(r) \union OutSlots \union PartSlots(parts)
  <2>1. d.copy.slot \notin SlotsOf(e.slots)
    BY <1>6 DEF Addable
  <2> QED BY <1>5, <2>1 DEF QueueInv
<1>11. QueueInv(r, parts, dels)
  BY <1>7, <1>8, <1>9, <1>10 DEF QueueInv
<1> QED BY <1>4, <1>11

(* The reservations and the texts. *)
LEMMA ReservationKeeps ==
  ASSUME NEW parts, NEW dels, NEW q, QueueInv(q, parts, dels)
  PROVE  /\ QueueInv(ReserveCritical(q), parts, dels)
         /\ Ids(ReserveCritical(q)) \subseteq Ids(q)
         /\ QueueInv(ReserveEphemeral(q), parts, dels)
         /\ Ids(ReserveEphemeral(q)) \subseteq Ids(q)
<1> DEFINE critical == ReserveCritical(q)
           ephemeral == ReserveEphemeral(q)
<1>1. ASSUME NEW r, QueueInv(r, parts, dels), NEW i \in 1 .. Len(r)
      PROVE  QueueInv(RemoveAt(r, i), parts, dels) /\ Ids(RemoveAt(r, i)) \subseteq Ids(r)
  <2>1. r \in Seq(Items)
    BY <1>1 DEF QueueInv
  <2>2. RemoveAt(r, i) \in Seq(Items) /\ Drawn(RemoveAt(r, i), r, PlainItem)
    BY <2>1, RemoveDraws
  <2>3. PlainItem \in Items /\ PlainItem.kind # "Sms"
    BY ItemTypes DEF PlainItem
  <2>4. Addable(PlainItem, r, parts, dels)
    BY <2>3 DEF Addable
  <2> QED BY <1>1, <2>2, <2>3, <2>4, DrawnKeeps
<1>2. QueueInv(critical, parts, dels) /\ Ids(critical) \subseteq Ids(q)
  <2>1. CASE ~HasRoom(q) /\ PlainIndices(q) # {}
    <3>1. PlainIndices(q) \subseteq 1 .. Len(q) /\ Len(q) \in Nat
      BY LenProperties DEF PlainIndices, QueueInv
    <3>2. Max(PlainIndices(q)) \in 1 .. Len(q)
      BY <2>1, <3>1, MaxInSet
    <3> QED BY <1>1, <2>1, <3>2 DEF ReserveCritical
  <2>2. CASE ~(~HasRoom(q) /\ PlainIndices(q) # {})
    BY <2>2 DEF ReserveCritical
  <2> QED BY <2>1, <2>2
<1>3. ephemeral = IF ~HasRoom(critical) /\ StoredIndices(critical) # {}
                  THEN RemoveAt(critical, Max(StoredIndices(critical)))
                  ELSE critical
  BY DEF ReserveEphemeral
<1> HIDE DEF critical, ephemeral
<1>4. QueueInv(ephemeral, parts, dels) /\ Ids(ephemeral) \subseteq Ids(q)
  <2>1. CASE ~HasRoom(critical) /\ StoredIndices(critical) # {}
    <3>1. StoredIndices(critical) \subseteq 1 .. Len(critical) /\ Len(critical) \in Nat
      BY <1>2, LenProperties DEF StoredIndices, QueueInv
    <3>2. Max(StoredIndices(critical)) \in 1 .. Len(critical)
      BY <2>1, <3>1, MaxInSet
    <3> QED BY <1>1, <1>2, <1>3, <2>1, <3>2
  <2>2. CASE ~(~HasRoom(critical) /\ StoredIndices(critical) # {})
    BY <1>2, <1>3, <2>2
  <2> QED BY <2>1, <2>2
<1> QED BY <1>2, <1>4 DEF critical, ephemeral

(* An operational text and a call have no slots. *)
LEMMA TextKeeps ==
  ASSUME NEW parts, NEW dels, NEW q, QueueInv(q, parts, dels)
  PROVE  /\ QueueInv(QueuePlain(q), parts, dels)
         /\ Ids(QueuePlain(q)) \subseteq Ids(q)
         /\ \A c \in Calls : /\ QueueInv(<<CallItem(c)>> \o q, parts, dels)
                            /\ Ids(<<CallItem(c)>> \o q) \subseteq Ids(q)
<1>0. q \in Seq(Items)
  BY DEF QueueInv
<1>1. PlainItem \in Items /\ PlainItem.kind # "Sms" /\ Addable(PlainItem, q, parts, dels)
  BY ItemTypes DEF PlainItem, Addable
<1>2. QueueInv(QueuePlain(q), parts, dels) /\ Ids(QueuePlain(q)) \subseteq Ids(q)
  <2>1. QueuePlain(q) = IF HasRoom(q) THEN Append(q, PlainItem) ELSE q
    BY DEF QueuePlain, PlainItem
  <2>2. Append(q, PlainItem) \in Seq(Items) /\ Drawn(Append(q, PlainItem), q, PlainItem)
    BY <1>0, <1>1, AppendDraws
  <2>3. QueueInv(Append(q, PlainItem), parts, dels) /\ Ids(Append(q, PlainItem)) \subseteq Ids(q)
    BY <1>1, <2>2, DrawnKeeps
  <2> QED BY <2>1, <2>3
<1>3. ASSUME NEW c \in Calls
      PROVE  QueueInv(<<CallItem(c)>> \o q, parts, dels) /\ Ids(<<CallItem(c)>> \o q) \subseteq Ids(q)
  <2> DEFINE e == CallItem(c)
  <2>1. e \in Items /\ e.kind # "Sms"
    BY ItemTypes DEF CallItem
  <2> HIDE DEF e
  <2>2. Addable(e, q, parts, dels)
    BY <2>1 DEF Addable
  <2>3. <<e>> \o q \in Seq(Items) /\ Drawn(<<e>> \o q, q, e)
    BY <1>0, <2>1, FrontDraws
  <2>4. QueueInv(<<e>> \o q, parts, dels) /\ Ids(<<e>> \o q) \subseteq Ids(q)
    BY <2>1, <2>2, <2>3, DrawnKeeps
  <2> QED BY <2>4 DEF e
<1> QED BY <1>2, <1>3

(* A message in no queue has its slots to itself: they hold its parts, and   *)
(* those of another message hold other parts.                                *)
LEMMA Elsewhere ==
  ASSUME TypeOK, OutInv, NEW q, NEW parts, NEW dels, QueueInv(q, parts, dels),
         NEW m, NEW slots \in SUBSET Copies, Gathered(m, slots),
         m \notin Ids(q) \union OutIds, \A g \in parts : MessageOf[g.pdu] # m
  PROVE  SlotsOf(slots) \intersect (HeldSlots(q) \union OutSlots \union PartSlots(parts)) = {}
<1>1. ASSUME NEW c \in slots PROVE MessageOf[c.pdu] = m /\ modem[c.slot] = c.pdu
  BY DEF Gathered, Backed, PartsOf
<1>2. ASSUME NEW n, NEW held, Gathered(n, held), NEW c \in held
      PROVE  MessageOf[c.pdu] = n /\ modem[c.slot] = c.pdu
  BY <1>2 DEF Gathered, Backed, PartsOf
<1>3. ASSUME NEW c \in slots, NEW i \in DOMAIN q, NEW d \in q[i].slots, c.slot = d.slot
      PROVE  FALSE
  <2>1. q[i] \in Items
    BY ElementOfSeq, LenProperties DEF QueueInv
  <2>2. i \in SmsIndices(q)
    BY <2>1, <1>3 DEF Items, SmsIndices
  <2>3. MessageOf[d.pdu] = q[i].id /\ modem[d.slot] = d.pdu
    BY <1>2, <2>2 DEF QueueInv
  <2> QED BY <1>1, <1>3, <2>2, <2>3 DEF Ids
<1>4. ASSUME NEW c \in slots, NEW i \in DOMAIN pending, NEW d \in pending[i].item.slots,
             c.slot = d.slot
      PROVE  FALSE
  <2>1. pending[i].item \in Items
    BY ReceiptType
  <2>2. i \in OutIndices
    BY <2>1, <1>4 DEF Items, OutIndices
  <2>3. MessageOf[d.pdu] = pending[i].item.id /\ modem[d.slot] = d.pdu
    BY <1>2, <2>2 DEF OutInv
  <2> QED BY <1>1, <1>4, <2>2, <2>3 DEF OutIds
<1>5. ASSUME NEW c \in slots, NEW g \in parts, NEW d \in g.slots, c.slot = d.slot
      PROVE  FALSE
  <2>1. Fed(g.pdu, g.slots)
    BY DEF QueueInv
  <2>2. d.pdu \in {e.pdu : e \in g.slots} /\ modem[d.slot] = d.pdu
    BY <1>5, <2>1 DEF Fed, Backed
  <2>3. d.pdu = g.pdu
    BY <1>5, <2>1, <2>2 DEF Fed
  <2> QED BY <1>1, <1>5, <2>2, <2>3
<1> QED BY <1>3, <1>4, <1>5 DEF SlotsOf, HeldSlots, OutSlots, PartSlots

(* What a PDU's preparation keeps when its message m is complete. *)
LEMMA QueuePreparedKeeps ==
  ASSUME TypeOK, OutInv, NEW q, NEW parts, QueueInv(q, parts, deletions),
         NEW m \in Messages, NEW slots \in SUBSET Copies, Gathered(m, slots),
         m \notin Ids(q) \union OutIds, m \in Direct => m \notin delivered,
         \A g \in parts : MessageOf[g.pdu] # m,
         \A d \in deletions : d.copy.slot \notin SlotsOf(slots),
         QueuePrepared(m, slots, q)
  PROVE  /\ QueueInv(ready', parts, deletions')
         /\ Ids(ready') \subseteq Ids(q) \union {m}
         /\ deletions \subseteq deletions'
         /\ dropped' \in {dropped, dropped \union {m}}
<1>0. q \in Seq(Items)
  BY DEF QueueInv
<1>1. CASE ready' = QueueSms(q, m, slots) /\ UNCHANGED <<dropped, deletions>>
  <2> DEFINE i == IF PlainIndices(q) = {} THEN Len(q) + 1 ELSE Min(PlainIndices(q))
             e == SmsItem(m, slots)
  <2>1. PlainIndices(q) \subseteq 1 .. Len(q) /\ Len(q) \in Nat
    BY <1>0, LenProperties DEF PlainIndices
  <2>2. i \in 1 .. Len(q) + 1
    BY <2>1, MinInSet
  <2>3. ready' = InsertAt(q, i, e)
    BY <1>1 DEF QueueSms, SmsItem
  <2>4. e \in Items /\ e.kind = "Sms" /\ e.id = m /\ e.slots = slots
    BY ItemTypes DEF SmsItem
  <2> HIDE DEF i, e
  <2>5. Addable(e, q, parts, deletions)
    BY <2>4 DEF Addable
  <2>6. ready' \in Seq(Items) /\ Drawn(ready', q, e)
    BY <1>0, <2>2, <2>3, <2>4, InsertDraws
  <2> QED BY <1>1, <2>4, <2>5, <2>6, DrawnKeeps
<1>2. CASE /\ ready' = q
           /\ dropped' = dropped \union {m}
           /\ deletions' = deletions \union PendingDeletions(slots)
  <2>1. \A d \in PendingDeletions(slots) : d.copy \in slots
    BY DEF PendingDeletions
  <2>2. ASSUME NEW d \in deletions'
        PROVE  d.copy.slot \notin HeldSlots(q) \union OutSlots \union PartSlots(parts)
    <3>1. CASE d \in deletions
      BY <3>1 DEF QueueInv
    <3>2. CASE d \in PendingDeletions(slots)
      <4>1. d.copy.slot \in SlotsOf(slots)
        BY <2>1, <3>2 DEF SlotsOf
      <4> QED BY <4>1, Elsewhere
    <3> QED BY <1>2, <3>1, <3>2
  <2>3. ASSUME NEW d \in deletions', NEW f \in deletions', d.copy.slot = f.copy.slot
        PROVE  d = f
    <3>1. CASE d \in deletions /\ f \in deletions
      BY <2>3, <3>1 DEF QueueInv
    <3>2. CASE d \in PendingDeletions(slots) /\ f \in PendingDeletions(slots)
      <4>1. d.copy \in slots /\ f.copy \in slots
        BY <2>1, <3>2
      <4>2. d.copy.pdu = f.copy.pdu
        BY <2>3, <4>1 DEF Gathered, Backed
      <4>3. d.copy = f.copy
        BY <2>3, <4>1, <4>2 DEF Copies
      <4>4. d \in [copy : slots, retry : BOOLEAN] /\ f \in [copy : slots, retry : BOOLEAN]
        BY <3>2 DEF PendingDeletions
      <4>5. d.retry = FALSE /\ f.retry = FALSE
        BY <3>2 DEF PendingDeletions
      <4> QED BY <4>3, <4>4, <4>5
    <3>3. ASSUME NEW x \in deletions, NEW y \in PendingDeletions(slots), x.copy.slot = y.copy.slot
          PROVE  FALSE
      BY <2>1, <3>3 DEF SlotsOf
    <3> QED BY <1>2, <2>3, <3>1, <3>2, <3>3
  <2>4. QueueInv(ready', parts, deletions')
    BY <1>2, <2>2, <2>3 DEF QueueInv
  <2> QED BY <1>2, <2>4
<1> QED BY <1>1, <1>2 DEF QueuePrepared

(* All of a message is there for the taking. *)
Complete(m) == \E slots \in SUBSET Copies : Gathered(m, slots)

(* What becomes of a PDU p that is prepared for the queue q. *)
PreparedApart(p, q) ==
  /\ QueueInv(ready', concat', deletions')
  /\ deletions \subseteq deletions'
  /\ \A g \in concat' : g \in concat \/ g.pdu = p
  /\ \A m \in Ids(ready') :
       \/ m \in Ids(q)
       \/ m = MessageOf[p] /\ PartsOf(m) \subseteq {p} \union {g.pdu : g \in concat}
  /\ \/ dropped' = dropped
     \/ dropped' = dropped \union {MessageOf[p]} /\ Complete(MessageOf[p])

(* What is dropped was complete. *)
DropsComplete ==
  \/ dropped' = dropped
  \/ \E m \in Messages : dropped' = dropped \union {m} /\ Complete(m)

(* Forgetting collected parts keeps the rest sound. *)
LEMMA FewerParts ==
  ASSUME NEW q, NEW parts, NEW dels, QueueInv(q, parts, dels), NEW fewer, fewer \subseteq parts
  PROVE  QueueInv(q, fewer, dels)
<1>1. PartSlots(fewer) \subseteq PartSlots(parts)
  BY DEF PartSlots
<1> QED BY <1>1 DEF QueueInv

(* Another part of a longer message. *)
LEMMA AnotherPart ==
  ASSUME NEW q, NEW parts, NEW dels, QueueInv(q, parts, dels), NEW p \in Pdus,
         NEW slots \in SUBSET Copies, Fed(p, slots),
         PartsOf(MessageOf[p]) # {p}, MessageOf[p] \notin Ids(q) \union OutIds,
         \A d \in dels : d.copy.slot \notin SlotsOf(slots)
  PROVE  QueueInv(q, parts \union {[pdu |-> p, slots |-> slots]}, dels)
<1> DEFINE g0 == [pdu |-> p, slots |-> slots]
<1>1. g0 \in PartType /\ g0.pdu = p /\ g0.slots = slots
  BY DEF PartType
<1> HIDE DEF g0
<1>2. PartSlots(parts \union {g0}) = PartSlots(parts) \union SlotsOf(slots)
  BY <1>1 DEF PartSlots
<1>3. \A d \in dels :
        d.copy.slot \notin HeldSlots(q) \union OutSlots \union PartSlots(parts \union {g0})
  BY <1>2 DEF QueueInv
<1>4. \A g \in parts \union {g0} : /\ Fed(g.pdu, g.slots)
                                 /\ PartsOf(MessageOf[g.pdu]) # {g.pdu}
                                 /\ MessageOf[g.pdu] \notin OutIds \union Ids(q)
  BY <1>1 DEF QueueInv
<1>5. QueueInv(q, parts \union {g0}, dels)
  BY <1>1, <1>3, <1>4 DEF QueueInv
<1> QED BY <1>5 DEF g0

(* The parts of a message make it complete. *)
LEMMA PartsGather ==
  ASSUME NEW group, group \subseteq PartType, group # {}, NEW m \in Messages,
         \A g \in group : MessageOf[g.pdu] = m /\ Fed(g.pdu, g.slots),
         {g.pdu : g \in group} = PartsOf(m)
  PROVE  Gathered(m, UNION {g.slots : g \in group})
<1> DEFINE held == UNION {g.slots : g \in group}
<1>1. PartsOf(m) # {} /\ PartsOf(m) \subseteq arrived
  BY DEF Fed
<1>2. Backed(held)
  BY DEF Fed, Backed
<1>3. m \in Direct => held = {}
  BY DEF Fed
<1>4. m \notin Direct => {c.pdu : c \in held} = PartsOf(m)
  <2> SUFFICES ASSUME m \notin Direct PROVE {c.pdu : c \in held} = PartsOf(m)
    OBVIOUS
  <2>1. \A g \in group : {c.pdu : c \in g.slots} = {g.pdu}
    BY DEF Fed
  <2>2. ASSUME NEW c \in held PROVE c.pdu \in PartsOf(m)
    <3>1. PICK g \in group : c \in g.slots
      OBVIOUS
    <3>2. c.pdu \in {e.pdu : e \in g.slots}
      BY <3>1
    <3>3. c.pdu = g.pdu
      BY <2>1, <3>2
    <3> QED BY <3>3
  <2>3. ASSUME NEW p \in PartsOf(m) PROVE p \in {c.pdu : c \in held}
    <3>1. PICK g \in group : p = g.pdu
      OBVIOUS
    <3>2. PICK c \in g.slots : c.pdu = p
      BY <2>1, <3>1
    <3> QED BY <3>1, <3>2
  <2> QED BY <2>2, <2>3
<1> HIDE DEF held
<1>5. Gathered(m, held)
  BY <1>1, <1>2, <1>3, <1>4 DEF Gathered
<1> QED BY <1>5 DEF held

(* Whatever becomes of a PDU, its message is queued at most once. *)
LEMMA PrepareOwns ==
  ASSUME TypeOK, OutInv, NEW q, QueueInv(q, concat, deletions), NEW p \in Pdus,
         NEW slots \in SUBSET Copies, Fed(p, slots),
         MessageOf[p] \notin Ids(q) \union OutIds,
         \A d \in deletions : d.copy.slot \notin SlotsOf(slots),
         Prepare(p, slots, q)
  PROVE  PreparedApart(p, q)
<1> DEFINE m == MessageOf[p]
<1>0. m \in Messages /\ m \notin Ids(q) \union OutIds /\ (m \in Direct => m \notin delivered)
        /\ concat \subseteq PartType
  BY MessagesAssumption DEF TypeOK, PartType, Fed
<1>1. CASE p \in Unparsable
  BY <1>1 DEF Prepare, Retain, PreparedApart
<1>2. CASE p \notin Unparsable /\ PartsOf(m) = {p}
  <2>1. QueuePrepared(m, slots, q) /\ concat' = concat
    BY <1>2 DEF Prepare
  <2>2. Gathered(m, slots)
    BY <1>2 DEF Gathered, Fed
  <2>3. \A g \in concat : MessageOf[g.pdu] # m
    <3> SUFFICES ASSUME NEW g \in concat, MessageOf[g.pdu] = m PROVE FALSE
      OBVIOUS
    <3>1. g.pdu \in PartsOf(m)
      BY <1>0 DEF PartsOf, PartType
    <3>2. PartsOf(MessageOf[g.pdu]) # {g.pdu}
      BY DEF QueueInv
    <3> QED BY <1>2, <3>1, <3>2
  <2>4. /\ QueueInv(ready', concat, deletions')
        /\ Ids(ready') \subseteq Ids(q) \union {m}
        /\ deletions \subseteq deletions'
        /\ dropped' \in {dropped, dropped \union {m}}
    BY <1>0, <2>1, <2>2, <2>3, QueuePreparedKeeps
  <2>5. Complete(m)
    BY <2>2 DEF Complete
  <2> QED BY <1>2, <2>1, <2>4, <2>5 DEF PreparedApart
<1>3. CASE p \notin Unparsable /\ PartsOf(m) # {p}
  <2>1. FeedPart(p, slots, q)
    BY <1>3 DEF Prepare
  <2>2. PICK expired \in SUBSET Expirable :
          LET live  == {g \in concat : MessageOf[g.pdu] \notin expired}
                         \union {[pdu |-> p, slots |-> slots]}
              group == {g \in live : MessageOf[g.pdu] = MessageOf[p]}
          IN  IF {g.pdu : g \in group} = PartsOf(MessageOf[p])
              THEN /\ concat' = live \ group
                   /\ QueuePrepared(MessageOf[p], UNION {g.slots : g \in group}, q)
              ELSE /\ concat' = live
                   /\ Retain(q)
    BY <2>1 DEF FeedPart
  <2> DEFINE kept  == {g \in concat : MessageOf[g.pdu] \notin expired}
             g0    == [pdu |-> p, slots |-> slots]
             live  == kept \union {g0}
             group == {g \in live : MessageOf[g.pdu] = m}
             held  == UNION {g.slots : g \in group}
  <2>3. \/ /\ {g.pdu : g \in group} = PartsOf(m)
           /\ concat' = live \ group /\ QueuePrepared(m, held, q)
        \/ concat' = live /\ Retain(q)
    BY <2>2
  <2>4. g0 \in PartType /\ g0.pdu = p /\ kept \subseteq concat
    BY DEF PartType
  <2>5. QueueInv(q, kept, deletions)
    BY <2>4, FewerParts
  <2> HIDE DEF kept
  <2>6. QueueInv(q, live, deletions)
    BY <1>0, <1>3, <2>5, AnotherPart
  <2> HIDE DEF g0
  <2>7. \A g \in live : g \in concat \/ g.pdu = p
    BY <2>4
  <2>8. CASE {g.pdu : g \in group} = PartsOf(m) /\ concat' = live \ group
               /\ QueuePrepared(m, held, q)
    <3>1. group \subseteq PartType /\ group # {} /\ live \subseteq PartType
      BY <1>0, <2>4
    <3>2. \A g \in group : MessageOf[g.pdu] = m /\ Fed(g.pdu, g.slots)
      BY <2>6 DEF QueueInv
    <3>3. Gathered(m, held)
      BY <1>0, <2>8, <3>1, <3>2, PartsGather
    <3>4. held \in SUBSET Copies
      BY <3>1 DEF PartType
    <3>5. \A d \in deletions : d.copy.slot \notin SlotsOf(held)
      <4>1. SlotsOf(held) \subseteq PartSlots(live)
        BY DEF SlotsOf, PartSlots
      <4> QED BY <2>6, <4>1 DEF QueueInv
    <3>6. QueueInv(q, live \ group, deletions)
      BY <2>6, FewerParts
    <3>7. \A g \in live \ group : MessageOf[g.pdu] # m
      OBVIOUS
    <3>8. PartsOf(m) \subseteq {p} \union {g.pdu : g \in concat}
      <4> SUFFICES ASSUME NEW b \in PartsOf(m) PROVE b \in {p} \union {g.pdu : g \in concat}
        OBVIOUS
      <4>1. PICK g \in group : b = g.pdu
        BY <2>8
      <4> QED BY <2>7, <4>1
    <3>9. Complete(m)
      BY <3>3, <3>4 DEF Complete
    <3> DEFINE rest == live \ group
    <3>10. \A g \in rest : g \in concat \/ g.pdu = p
      BY <2>7
    <3> HIDE DEF live, group, held, rest
    <3>11. /\ QueueInv(ready', rest, deletions')
           /\ Ids(ready') \subseteq Ids(q) \union {m}
           /\ deletions \subseteq deletions'
           /\ dropped' \in {dropped, dropped \union {m}}
      BY <1>0, <2>8, <3>3, <3>4, <3>5, <3>6, <3>7, QueuePreparedKeeps DEF rest
    <3>12. concat' = rest
      BY <2>8 DEF rest
    <3> QED BY <3>8, <3>9, <3>10, <3>11, <3>12 DEF PreparedApart
  <2>9. CASE concat' = live /\ Retain(q)
    <3> HIDE DEF live
    <3> QED BY <2>6, <2>7, <2>9 DEF PreparedApart, Retain
  <2> QED BY <2>3, <2>8, <2>9
<1> QED BY <1>1, <1>2, <1>3

-----------------------------------------------------------------------------
(* The steps that prepare a PDU or only change the ready queue.             *)

(* What the invariant of the queues looks at. *)
LEMMA SameSurroundings ==
  ASSUME UNCHANGED <<modem, arrived, pending, delivered>>
  PROVE  /\ QueueInv(ready', concat', deletions') => QueueInv(ready, concat, deletions)'
         /\ OutInv => OutInv'
         /\ StorageInv => StorageInv'
         /\ OutIds' = OutIds
<1>1. \A m, slots : Gathered(m, slots)' <=> Gathered(m, slots)
  BY DEF Gathered, Backed
<1>2. \A p, slots : Fed(p, slots)' <=> Fed(p, slots)
  BY DEF Fed, Backed
<1>3. OutIds' = OutIds /\ OutSlots' = OutSlots /\ OutIndices' = OutIndices
  BY DEF OutIds, OutIndices, OutSlots
<1>4. Ids(ready)' = Ids(ready') /\ SmsIndices(ready)' = SmsIndices(ready')
        /\ HeldSlots(ready)' = HeldSlots(ready') /\ PartSlots(concat)' = PartSlots(concat')
  BY DEF Ids, SmsIndices, HeldSlots, PartSlots, SlotsOf
<1>5. QueueInv(ready', concat', deletions') => QueueInv(ready, concat, deletions)'
  BY <1>1, <1>2, <1>3, <1>4 DEF QueueInv
<1>6. OutInv => OutInv'
  BY <1>1, <1>3 DEF OutInv
<1>7. StorageInv => StorageInv'
  BY DEF StorageInv
<1> QED BY <1>3, <1>5, <1>6, <1>7

(* A step that thins the ready queue or adds a text, and keeps the deletions *)
(* that confirmed messages wait for.                                         *)
LEMMA QuietStep ==
  ASSUME OwnershipInv, QueueInv(ready', concat', deletions'),
         Ids(ready') \subseteq Ids(ready), concat' \subseteq concat,
         \A d \in deletions : d \in deletions' \/ modem[d.copy.slot] # d.copy.pdu,
         \A p \in Pdus : [code |-> "CMT", of |-> p] \in urcs' => [code |-> "CMT", of |-> p] \in urcs,
         BatchInv', UNCHANGED <<modem, arrived, pending, delivered, unconfirmed>>
  PROVE  OwnershipInv'
<1>1. QueueInv(ready, concat, deletions)' /\ OutInv' /\ StorageInv' /\ OutIds' = OutIds
  BY SameSurroundings DEF OwnershipInv
<1>2. DirectInv'
  <2>1. Ids(ready)' = Ids(ready')
    BY DEF Ids, SmsIndices
  <2> QED BY <1>1, <2>1 DEF OwnershipInv, DirectInv
<1>3. ConfirmedInv'
  <2> SUFFICES ASSUME NEW s \in Slots, modem[s] # Empty,
                      MessageOf[modem[s]] \in delivered \ unconfirmed
               PROVE  \/ \E i \in OutIndices :
                           /\ pending[i].receipt = "ok"
                           /\ [slot |-> s, pdu |-> modem[s]] \in pending[i].item.slots
                      \/ \E d \in deletions' : d.copy = [slot |-> s, pdu |-> modem[s]]
    BY DEF ConfirmedInv, OwnershipInv, OutIndices
  <2>1. \/ \E i \in OutIndices :
             /\ pending[i].receipt = "ok"
             /\ [slot |-> s, pdu |-> modem[s]] \in pending[i].item.slots
        \/ \E d \in deletions : d.copy = [slot |-> s, pdu |-> modem[s]]
    BY DEF ConfirmedInv, OwnershipInv
  <2> QED BY <2>1
<1> QED BY <1>1, <1>2, <1>3 DEF OwnershipInv

(* A step that prepares a PDU. *)
LEMMA PreparingApart ==
  ASSUME OwnershipInv, NEW p \in Pdus, NEW q, PreparedApart(p, q), Ids(q) \subseteq Ids(ready),
         urcs' \subseteq urcs,
         MessageOf[p] \in Direct => [code |-> "CMT", of |-> p] \notin urcs',
         BatchInv', UNCHANGED <<modem, arrived, pending, delivered, unconfirmed>>
  PROVE  OwnershipInv'
<1>1. QueueInv(ready, concat, deletions)' /\ OutInv' /\ StorageInv' /\ OutIds' = OutIds
  BY SameSurroundings DEF OwnershipInv, PreparedApart
<1>2. DirectInv'
  <2> SUFFICES ASSUME NEW b \in Pdus, [code |-> "CMT", of |-> b] \in urcs'
               PROVE  /\ b \in arrived
                      /\ MessageOf[b] \in Direct
                      /\ MessageOf[b] \notin Ids(ready') \union OutIds \union delivered
                      /\ \A g \in concat' : g.pdu # b
    <3>1. Ids(ready)' = Ids(ready')
      BY DEF Ids, SmsIndices
    <3> QED BY <1>1, <3>1 DEF DirectInv
  <2>1. /\ b \in arrived
        /\ MessageOf[b] \in Direct
        /\ MessageOf[b] \notin Ids(ready) \union OutIds \union delivered
        /\ \A g \in concat : g.pdu # b
    BY DEF OwnershipInv, DirectInv
  <2>2. b # p
    BY <2>1
  <2>3. b \in PartsOf(MessageOf[b])
    BY DEF PartsOf
  <2>4. MessageOf[b] \notin Ids(ready')
    BY <2>1, <2>2, <2>3 DEF PreparedApart
  <2>5. \A g \in concat' : g.pdu # b
    BY <2>1, <2>2 DEF PreparedApart
  <2> QED BY <2>1, <2>4, <2>5
<1>3. ConfirmedInv'
  <2>1. deletions \subseteq deletions'
    BY DEF PreparedApart
  <2> QED BY <2>1 DEF OwnershipInv, ConfirmedInv, OutIndices
<1> QED BY <1>1, <1>2, <1>3 DEF OwnershipInv

(* A slot that is not in flight holds a PDU whose message is in no queue. *)
LEMMA NotInFlight ==
  ASSUME TypeOK, OwnershipInv, NEW s \in Slots, modem[s] # Empty, ~NotificationSlotInFlight(s)
  PROVE  /\ modem[s] \in Pdus
         /\ MessageOf[modem[s]] \notin Ids(ready) \union OutIds \union Direct
         /\ Fed(modem[s], {[slot |-> s, pdu |-> modem[s]]})
<1> DEFINE p == modem[s]
<1>1. p \in Pdus /\ p \in arrived /\ MessageOf[p] \notin Direct
  BY DEF TypeOK, OwnershipInv, StorageInv
<1>2. p \in PartsOf(MessageOf[p])
  BY <1>1 DEF PartsOf
<1>3. ASSUME NEW slots \in SUBSET Copies, Gathered(MessageOf[p], slots)
      PROVE  \E c \in slots : c.slot = s
  <2>1. PICK c \in slots : c.pdu = p
    BY <1>1, <1>2, <1>3 DEF Gathered
  <2>2. modem[c.slot] = p /\ c.slot \in Slots
    BY <1>3, <2>1 DEF Gathered, Backed, Copies
  <2> QED BY <2>1, <2>2 DEF OwnershipInv, StorageInv
<1>4. MessageOf[p] \notin Ids(ready)
  <2> SUFFICES ASSUME NEW i \in SmsIndices(ready), ready[i].id = MessageOf[p] PROVE FALSE
    BY DEF Ids
  <2>1. i \in DOMAIN ready /\ ready[i] \in Items
    BY ElementOfSeq, LenProperties DEF SmsIndices, TypeOK
  <2>2. Gathered(MessageOf[p], ready[i].slots) /\ ready[i].slots \in SUBSET Copies
    BY <2>1 DEF OwnershipInv, QueueInv, Items
  <2> QED BY <1>3, <2>1, <2>2 DEF NotificationSlotInFlight
<1>5. MessageOf[p] \notin OutIds
  <2> SUFFICES ASSUME NEW i \in OutIndices, pending[i].item.id = MessageOf[p] PROVE FALSE
    BY DEF OutIds
  <2>1. i \in DOMAIN pending /\ pending[i].item \in Items
    BY ReceiptType DEF OutIndices
  <2>2. Gathered(MessageOf[p], pending[i].item.slots) /\ pending[i].item.slots \in SUBSET Copies
    BY <2>1 DEF OwnershipInv, OutInv, Items
  <2> QED BY <1>3, <2>1, <2>2 DEF NotificationSlotInFlight
<1>6. Fed(p, {[slot |-> s, pdu |-> p]})
  BY <1>1 DEF Fed, Backed
<1> QED BY <1>1, <1>4, <1>5, <1>6

(* A direct PDU is handed over once. *)
LEMMA DirectApart ==
  ASSUME TypeOK, OwnershipInv, NEW p \in Pdus, PollDirect(p)
  PROVE  OwnershipInv' /\ DropsComplete
<1> DEFINE q == ReserveEphemeral(ready)
<1>1. \/ HasRoom(q) /\ Prepare(p, {}, q)
      \/ ready' = q /\ UNCHANGED <<deletions, concat, dropped>>
  BY DEF PollDirect
<1>2. QueueInv(q, concat, deletions) /\ Ids(q) \subseteq Ids(ready)
  BY ReservationKeeps DEF OwnershipInv
<1> HIDE DEF q
<1>3. /\ urcs' \subseteq urcs /\ [code |-> "CMT", of |-> p] \notin urcs'
      /\ UNCHANGED <<modem, arrived, pending, delivered, unconfirmed, batch, phase>>
  BY DEF PollDirect
<1>4. BatchInv'
  BY <1>3 DEF OwnershipInv, BatchInv, Backed
<1>5. CASE HasRoom(q) /\ Prepare(p, {}, q)
  <2>1. Fed(p, {}) /\ MessageOf[p] \notin Ids(q) \union OutIds
    BY <1>2 DEF PollDirect, OwnershipInv, DirectInv, Fed, Backed
  <2>2. \A d \in deletions : d.copy.slot \notin SlotsOf({})
    BY DEF SlotsOf
  <2>3. PreparedApart(p, q)
    BY <1>2, <1>5, <2>1, <2>2, PrepareOwns DEF OwnershipInv
  <2>4. DropsComplete
    BY <2>3, MessagesAssumption DEF PreparedApart, DropsComplete
  <2> QED BY <1>2, <1>3, <1>4, <2>3, <2>4, PreparingApart
<1>6. CASE ready' = q /\ UNCHANGED <<deletions, concat, dropped>>
  <2>1. OwnershipInv'
    BY <1>2, <1>3, <1>4, <1>6, QuietStep
  <2> QED BY <1>6, <2>1 DEF DropsComplete
<1> QED BY <1>1, <1>5, <1>6

(* A stored PDU is prepared only from a slot that nothing claims. *)
LEMMA StoredApart ==
  ASSUME TypeOK, OwnershipInv, NEW s \in Slots, modem[s] # Empty,
         LET q == ReserveCritical(ready)
         IN  \/ /\ ~NotificationSlotInFlight(s) /\ ~DeletionSlotPending(s)
                /\ Prepare(modem[s], {[slot |-> s, pdu |-> modem[s]]}, q)
             \/ ready' \in {ready, q} /\ UNCHANGED <<deletions, concat, dropped>>,
         BatchInv', UNCHANGED <<urcs, modem, arrived, pending, delivered, unconfirmed>>
  PROVE  OwnershipInv' /\ DropsComplete
<1> DEFINE q == ReserveCritical(ready)
           p == modem[s]
           own == {[slot |-> s, pdu |-> p]}
<1>1. \/ ~NotificationSlotInFlight(s) /\ ~DeletionSlotPending(s) /\ Prepare(p, own, q)
      \/ ready' \in {ready, q} /\ UNCHANGED <<deletions, concat, dropped>>
  OBVIOUS
<1>2. QueueInv(q, concat, deletions) /\ Ids(q) \subseteq Ids(ready)
  BY ReservationKeeps DEF OwnershipInv
<1> HIDE DEF q
<1>3. CASE ~NotificationSlotInFlight(s) /\ ~DeletionSlotPending(s) /\ Prepare(p, own, q)
  <2>1. p \in Pdus /\ MessageOf[p] \notin Ids(ready) \union OutIds \union Direct /\ Fed(p, own)
    BY <1>3, NotInFlight
  <2>2. own \in SUBSET Copies
    BY <2>1 DEF Copies
  <2>3. \A d \in deletions : d.copy.slot \notin SlotsOf(own)
    BY <1>3 DEF DeletionSlotPending, SlotsOf
  <2> HIDE DEF p, own
  <2>4. PreparedApart(p, q)
    BY <1>2, <1>3, <2>1, <2>2, <2>3, PrepareOwns DEF OwnershipInv
  <2>5. DropsComplete
    BY <2>1, <2>4, MessagesAssumption DEF PreparedApart, DropsComplete
  <2> QED BY <1>2, <2>1, <2>4, <2>5, PreparingApart
<1>4. CASE ready' \in {ready, q} /\ UNCHANGED <<deletions, concat, dropped>>
  <2>1. QueueInv(ready', concat', deletions') /\ Ids(ready') \subseteq Ids(ready)
    BY <1>2, <1>4 DEF OwnershipInv
  <2>2. OwnershipInv'
    BY <1>4, <2>1, QuietStep
  <2> QED BY <1>4, <2>2 DEF DropsComplete
<1> QED BY <1>1, <1>3, <1>4

(* A single read. *)
LEMMA ReadApart ==
  ASSUME TypeOK, OwnershipInv, NEW r \in reads, ReadSlot(r)
  PROVE  OwnershipInv' /\ DropsComplete
<1>1. r.slot \in Slots /\ modem[r.slot] # Empty
  BY DEF TypeOK, ReadSlot
<1>2. LET q == ReserveCritical(ready)
      IN  \/ /\ ~NotificationSlotInFlight(r.slot) /\ ~DeletionSlotPending(r.slot)
             /\ Prepare(modem[r.slot], {[slot |-> r.slot, pdu |-> modem[r.slot]]}, q)
          \/ ready' \in {ready, q} /\ UNCHANGED <<deletions, concat, dropped>>
  BY DEF ReadSlot
<1>3. BatchInv'
  BY DEF ReadSlot, OwnershipInv, BatchInv, Backed
<1> QED BY <1>1, <1>2, <1>3, StoredApart DEF ReadSlot

(* An entry of a batch, which is still in its slot. *)
LEMMA EntryApart ==
  ASSUME TypeOK, OwnershipInv, NEW c \in batch, SweepEntry(c)
  PROVE  OwnershipInv' /\ DropsComplete
<1>1. c \in [slot : MESlots, pdu : Pdus] /\ modem[c.slot] = c.pdu
  BY DEF TypeOK, OwnershipInv, BatchInv, Backed
<1>2. c.slot \in Slots /\ c = [slot |-> c.slot, pdu |-> modem[c.slot]] /\ modem[c.slot] # Empty
  BY <1>1, StorageAssumption DEF Slots
<1>3. LET q == ReserveCritical(ready)
      IN  \/ /\ ~NotificationSlotInFlight(c.slot) /\ ~DeletionSlotPending(c.slot)
             /\ Prepare(modem[c.slot], {[slot |-> c.slot, pdu |-> modem[c.slot]]}, q)
          \/ ready' \in {ready, q} /\ UNCHANGED <<deletions, concat, dropped>>
  BY <1>1, <1>2 DEF SweepEntry
<1>4. BatchInv'
  BY DEF SweepEntry, OwnershipInv, BatchInv, Backed
<1> QED BY <1>2, <1>3, <1>4, StoredApart DEF SweepEntry

(* A call. *)
LEMMA CallApart ==
  ASSUME TypeOK, OwnershipInv, NEW c \in Calls, PollCall(c)
  PROVE  OwnershipInv'
<1> DEFINE q == ReserveEphemeral(ready)
<1>1. ready' = IF HasRoom(q) THEN <<CallItem(c)>> \o q ELSE q
  BY DEF PollCall, CallItem
<1>2. QueueInv(q, concat, deletions) /\ Ids(q) \subseteq Ids(ready)
  BY ReservationKeeps DEF OwnershipInv
<1> HIDE DEF q
<1>3. /\ urcs' \subseteq urcs
      /\ UNCHANGED <<modem, arrived, pending, delivered, unconfirmed, batch, phase, deletions, concat>>
  BY DEF PollCall, history
<1>4. BatchInv'
  BY <1>3 DEF OwnershipInv, BatchInv, Backed
<1>5. QueueInv(ready', concat', deletions') /\ Ids(ready') \subseteq Ids(ready)
  BY <1>1, <1>2, <1>3, TextKeeps
<1> QED BY <1>3, <1>4, <1>5, QuietStep

(* The steps of the main loop that touch the queues only to add a text or to *)
(* forget the deletion of a slot that is empty.                              *)
LEMMA PassApart ==
  ASSUME TypeOK, OwnershipInv,
         \/ EndReceipts \/ NoDeletionDue \/ NoAutoResume \/ EndUrcs \/ NoReadDue
         \/ NoScan \/ NoBatch \/ EndBatch \/ NoCommand \/ EndPass
         \/ AutoResume \/ DispatchCommand \/ ReadSweepBatch
         \/ \E s \in Slots : PollCmti(s)
         \/ \E r \in reads : ReadSlotFails(r)
         \/ \E listed \in SUBSET StoredIn(MESlots) : ScanStorage(listed)
  PROVE  OwnershipInv'
<1>1. /\ ready' \in {ready, QueuePlain(ready)}
      /\ deletions' \subseteq deletions
      /\ urcs' \subseteq urcs
      /\ UNCHANGED <<concat, modem, arrived, pending, delivered, unconfirmed>>
  BY DEF history, EndReceipts, NoDeletionDue, NoAutoResume, EndUrcs, NoReadDue,
         NoScan, NoBatch, EndBatch, NoCommand, EndPass, AutoResume,
         DispatchCommand, Pause, Resume, Block, Unblock, AtReply, ReadSweepBatch,
         ReadBatch, PollCmti, ReadSlotFails, ScanStorage
<1>2. BatchInv'
  <2>1. CASE ReadSweepBatch
    <3>1. PICK indices \in BatchesOf(sweep) :
            \E readable \in SUBSET {s \in indices : modem[s] # Empty} :
              ReadBatch(indices, readable)
      BY <2>1 DEF ReadSweepBatch
    <3>2. Backed(batch)'
      BY <3>1 DEF ReadBatch, Backed
    <3> QED BY <3>1, <3>2 DEF BatchInv, ReadBatch
  <2>2. CASE ~ReadSweepBatch
    <3>1. batch' = batch
      BY <2>2 DEF EndReceipts, NoDeletionDue, NoAutoResume, EndUrcs, NoReadDue,
         NoScan, NoBatch, EndBatch, NoCommand, EndPass, AutoResume,
         DispatchCommand, PollCmti, ReadSlotFails, ScanStorage
    <3>2. phase' # "entries" => batch = {}
      BY <2>2 DEF OwnershipInv, BatchInv, EndReceipts, NoDeletionDue, NoAutoResume,
         EndUrcs, NoReadDue, NoScan, NoBatch, EndBatch, NoCommand, EndPass, AutoResume,
         DispatchCommand, PollCmti, ReadSlotFails, ScanStorage
    <3> QED BY <1>1, <3>1, <3>2 DEF OwnershipInv, BatchInv, Backed
  <2> QED BY <2>1, <2>2
<1>3. \A d \in deletions : d \in deletions' \/ modem[d.copy.slot] # d.copy.pdu
  <2>1. ASSUME NEW listed \in SUBSET StoredIn(MESlots), ScanStorage(listed),
               NEW d \in deletions, d \notin deletions'
        PROVE  modem[d.copy.slot] # d.copy.pdu
    <3>1. d.copy.slot \in Slots /\ d.copy.pdu \in Pdus
      BY DEF TypeOK, Copies
    <3>2. d.copy.slot \in MESlots /\ d.copy.slot \notin StoredIn(MESlots)
      BY <2>1, <3>1 DEF ScanStorage, Slots
    <3>3. modem[d.copy.slot] = Empty
      BY <3>2 DEF StoredIn
    <3> QED BY <3>1, <3>3, StorageAssumption
  <2>2. CASE ~\E listed \in SUBSET StoredIn(MESlots) : ScanStorage(listed)
    BY <2>2 DEF EndReceipts, NoDeletionDue, NoAutoResume, EndUrcs, NoReadDue,
         NoScan, NoBatch, EndBatch, NoCommand, EndPass, AutoResume,
         DispatchCommand, ReadSweepBatch, ReadBatch, PollCmti, ReadSlotFails
  <2> QED BY <2>1, <2>2
<1>4. QueueInv(ready', concat', deletions') /\ Ids(ready') \subseteq Ids(ready)
  <2>1. QueueInv(ready', concat, deletions) /\ Ids(ready') \subseteq Ids(ready)
    BY <1>1, TextKeeps DEF OwnershipInv
  <2>2. QueueInv(ready', concat, deletions')
    BY <1>1, <2>1 DEF QueueInv
  <2> QED BY <1>1, <2>1, <2>2
<1> QED BY <1>1, <1>2, <1>3, <1>4, QuietStep

-----------------------------------------------------------------------------
(* The steps of the outbound queue, the deletions, the modem and a reset.   *)

(* One slot holds parts of one message. *)
LEMMA SlotHolder ==
  ASSUME NEW m, NEW slots, Gathered(m, slots), NEW n, NEW held, Gathered(n, held),
         NEW c \in slots, NEW d \in held, c.slot = d.slot
  PROVE  m = n
<1>1. MessageOf[c.pdu] = m /\ modem[c.slot] = c.pdu
  BY DEF Gathered, Backed, PartsOf
<1>2. MessageOf[d.pdu] = n /\ modem[d.slot] = d.pdu
  BY DEF Gathered, Backed, PartsOf
<1> QED BY <1>1, <1>2

(* A notification moves from one queue to the other. *)
LEMMA PumpApart ==
  ASSUME TypeOK, OwnershipInv, PumpNotification
  PROVE  OwnershipInv'
<1> DEFINE next == Min(Pumpable)
           entry == [item |-> ready[next], receipt |-> "none"]
<1>0. ready \in Seq(Items) /\ pending \in Seq(Entries) /\ next \in 1 .. Len(ready)
  BY PumpableIndex DEF TypeOK, PumpNotification, Entries
<1>1. ready' = RemoveAt(ready, next) /\ pending' = Append(pending, entry)
        /\ UNCHANGED <<modem, arrived, urcs, deletions, concat, delivered, unconfirmed, batch, phase>>
  BY DEF PumpNotification, history
<1> HIDE DEF next
<1>2. ready[next] \in Items /\ entry \in Entries
  BY <1>0, ElementOfSeq DEF Entries
<1>3. /\ pending' \in Seq(Entries)
      /\ Len(pending') = Len(pending) + 1
      /\ \A j \in 1 .. Len(pending) : pending'[j] = pending[j]
      /\ pending'[Len(pending) + 1] = entry
  BY <1>0, <1>1, <1>2, AppendProperties
<1>4. /\ ready' \in Seq(Items)
      /\ Len(ready') = Len(ready) - 1
      /\ \A j \in 1 .. Len(ready) - 1 : ready'[j] = IF j < next THEN ready[j] ELSE ready[j + 1]
  BY <1>0, <1>1, RemoveAtProperties
<1>5. /\ DOMAIN ready = 1 .. Len(ready) /\ DOMAIN pending = 1 .. Len(pending)
      /\ DOMAIN ready' = 1 .. Len(ready') /\ DOMAIN pending' = 1 .. Len(pending')
      /\ Len(ready) \in Nat /\ Len(pending) \in Nat
  BY <1>0, <1>3, <1>4, LenProperties
<1>6. \A j \in DOMAIN pending' :
        \/ j \in DOMAIN pending /\ pending'[j] = pending[j]
        \/ j = Len(pending) + 1 /\ pending'[j] = entry
  BY <1>3, <1>5
<1>7. DOMAIN pending \subseteq DOMAIN pending' /\ \A j \in DOMAIN pending : pending'[j] = pending[j]
  BY <1>3, <1>5
<1>8. \A j \in DOMAIN ready' : \E k \in DOMAIN ready : ready'[j] = ready[k] /\ k # next
                                /\ k = IF j < next THEN j ELSE j + 1
  BY <1>0, <1>4, <1>5
<1> DEFINE x == ready[next]
<1>9. /\ x.kind = "Sms" => /\ Gathered(x.id, x.slots)
                           /\ x.id \notin OutIds
                           /\ x.id \in Direct => x.id \notin delivered
                           /\ x.id \in Ids(ready)
                           /\ \A j \in SmsIndices(ready) : j # next => ready[j].id # x.id
      /\ SlotsOf(x.slots) \subseteq HeldSlots(ready)
  <2>1. x.kind = "Sms" => next \in SmsIndices(ready)
    BY <1>0, <1>5 DEF SmsIndices
  <2> QED BY <1>0, <1>5, <2>1 DEF OwnershipInv, QueueInv, Ids, HeldSlots
<1>10. entry.item = x /\ entry.receipt = "none"
  OBVIOUS
<1> HIDE DEF x, entry
<1>11. /\ OutIds' \subseteq OutIds \union (IF x.kind = "Sms" THEN {x.id} ELSE {})
       /\ OutSlots' \subseteq OutSlots \union SlotsOf(x.slots)
  BY <1>6, <1>10 DEF OutIds, OutIndices, OutSlots, SlotsOf
<1>12. Ids(ready') \subseteq Ids(ready) /\ HeldSlots(ready') \subseteq HeldSlots(ready)
  BY <1>8 DEF Ids, SmsIndices, HeldSlots
<1>13. ASSUME NEW i \in SmsIndices(ready')
       PROVE  /\ Gathered(ready'[i].id, ready'[i].slots)
              /\ ready'[i].id \notin OutIds'
              /\ ready'[i].id \in Direct => ready'[i].id \notin delivered
  <2>1. PICK k \in DOMAIN ready : ready'[i] = ready[k] /\ k # next
    BY <1>8 DEF SmsIndices
  <2>2. k \in SmsIndices(ready)
    BY <2>1 DEF SmsIndices
  <2>3. x.kind = "Sms" => ready[k].id # x.id
    BY <1>9, <2>1, <2>2
  <2> QED BY <1>11, <2>1, <2>2, <2>3 DEF OwnershipInv, QueueInv
<1>14. ASSUME NEW i \in SmsIndices(ready'), NEW j \in SmsIndices(ready'), ready'[i].id = ready'[j].id
       PROVE  i = j
  <2>1. i \in 1 .. Len(ready') /\ j \in 1 .. Len(ready')
    BY <1>5 DEF SmsIndices
  <2>2. PICK k \in DOMAIN ready : ready'[i] = ready[k] /\ k = IF i < next THEN i ELSE i + 1
    BY <1>8 DEF SmsIndices
  <2>3. PICK l \in DOMAIN ready : ready'[j] = ready[l] /\ l = IF j < next THEN j ELSE j + 1
    BY <1>8 DEF SmsIndices
  <2>4. k \in SmsIndices(ready) /\ l \in SmsIndices(ready)
    BY <2>2, <2>3 DEF SmsIndices
  <2>5. k = l
    BY <1>14, <2>2, <2>3, <2>4 DEF OwnershipInv, QueueInv
  <2>6. next \in Int /\ i \in Int /\ j \in Int
    BY <1>0, <1>5, <2>1
  <2> QED BY <2>2, <2>3, <2>5, <2>6
<1>15. ASSUME NEW g \in concat PROVE MessageOf[g.pdu] \notin OutIds' \union Ids(ready')
  BY <1>9, <1>11, <1>12 DEF OwnershipInv, QueueInv
<1>16. ASSUME NEW d \in deletions
       PROVE  d.copy.slot \notin HeldSlots(ready') \union OutSlots' \union PartSlots(concat)
  BY <1>9, <1>11, <1>12 DEF OwnershipInv, QueueInv
<1>17. QueueInv(ready, concat, deletions)'
  <2>1. \A m, slots : Gathered(m, slots)' <=> Gathered(m, slots)
    BY <1>1 DEF Gathered, Backed
  <2>2. \A p, slots : Fed(p, slots)' <=> Fed(p, slots)
    BY <1>1 DEF Fed, Backed
  <2>3. Ids(ready)' = Ids(ready') /\ SmsIndices(ready)' = SmsIndices(ready')
          /\ HeldSlots(ready)' = HeldSlots(ready') /\ PartSlots(concat)' = PartSlots(concat)
    BY <1>1 DEF Ids, SmsIndices, HeldSlots, PartSlots, SlotsOf
  <2>4. concat' \subseteq PartType /\ deletions' = deletions /\ delivered' = delivered /\ concat' = concat
    BY <1>1 DEF OwnershipInv, QueueInv
  <2>5. \A g \in concat : Fed(g.pdu, g.slots) /\ PartsOf(MessageOf[g.pdu]) # {g.pdu}
    BY DEF OwnershipInv, QueueInv
  <2>6. \A d, e \in deletions : d.copy.slot = e.copy.slot => d = e
    BY DEF OwnershipInv, QueueInv
  <2> QED BY <1>4, <1>13, <1>14, <1>15, <1>16, <2>1, <2>2, <2>3, <2>4, <2>5, <2>6 DEF QueueInv
<1>18. OutInv'
  <2>1. \A m, slots : Gathered(m, slots)' <=> Gathered(m, slots)
    BY <1>1 DEF Gathered, Backed
  <2>2. \A i \in OutIndices' :
          \/ i \in OutIndices /\ pending'[i] = pending[i]
          \/ i = Len(pending) + 1 /\ pending'[i].item = x /\ x.kind = "Sms"
    BY <1>6, <1>10 DEF OutIndices
  <2>3. ASSUME NEW i \in OutIndices'
        PROVE  /\ Gathered(pending'[i].item.id, pending'[i].item.slots)
               /\ pending'[i].item.id \in Direct /\ pending'[i].receipt = "none"
                    => pending'[i].item.id \notin delivered
    <3>1. CASE i \in OutIndices /\ pending'[i] = pending[i]
      BY <3>1 DEF OwnershipInv, OutInv
    <3>2. CASE pending'[i].item = x /\ x.kind = "Sms"
      BY <1>9, <3>2
    <3> QED BY <2>2, <3>1, <3>2
  <2>4. ASSUME NEW i \in OutIndices', NEW j \in OutIndices', pending'[i].item.id = pending'[j].item.id
        PROVE  i = j
    <3>1. \A k \in OutIndices : pending[k].item.id \in OutIds
      BY DEF OutIds
    <3> QED BY <1>9, <2>2, <2>4, <3>1 DEF OwnershipInv, OutInv
  <2>5. delivered' = delivered
    BY <1>1
  <2> QED BY <2>1, <2>3, <2>4, <2>5 DEF OutInv
<1>19. StorageInv' /\ BatchInv'
  BY <1>1 DEF OwnershipInv, StorageInv, BatchInv, Backed
<1>20. DirectInv'
  <2>1. Ids(ready)' = Ids(ready')
    BY DEF Ids, SmsIndices
  <2> QED BY <1>1, <1>9, <1>11, <1>12, <2>1 DEF OwnershipInv, DirectInv
<1>21. ConfirmedInv'
  <2>1. \A i \in OutIndices : i \in OutIndices' /\ pending'[i] = pending[i]
    BY <1>7 DEF OutIndices
  <2> QED BY <1>1, <2>1 DEF OwnershipInv, ConfirmedInv
<1> QED BY <1>17, <1>18, <1>19, <1>20, <1>21 DEF OwnershipInv

(* A step of the modem that leaves the slots in use alone. *)
LEMMA KeptSlots ==
  ASSUME OwnershipInv, UNCHANGED <<ready, pending, concat, delivered>>, arrived \subseteq arrived',
         \A s \in HeldSlots(ready) \union OutSlots \union PartSlots(concat) : modem'[s] = modem[s],
         \A e \in deletions' : \E d \in deletions : e.copy = d.copy,
         \A d, e \in deletions' : d.copy.slot = e.copy.slot => d = e
  PROVE  QueueInv(ready, concat, deletions)' /\ OutInv'
<1>1. /\ OutIds' = OutIds /\ OutIndices' = OutIndices /\ OutSlots' = OutSlots
      /\ Ids(ready)' = Ids(ready) /\ SmsIndices(ready)' = SmsIndices(ready)
      /\ HeldSlots(ready)' = HeldSlots(ready) /\ PartSlots(concat)' = PartSlots(concat)
  BY DEF OutIds, OutIndices, OutSlots, SlotsOf, Ids, SmsIndices, HeldSlots, PartSlots
<1>2. \A i \in SmsIndices(ready) : Gathered(ready[i].id, ready[i].slots)'
  <2> TAKE i \in SmsIndices(ready)
  <2> DEFINE x == ready[i]
  <2>1. SlotsOf(x.slots) \subseteq HeldSlots(ready)
    BY DEF HeldSlots, SmsIndices
  <2>2. Gathered(x.id, x.slots) /\ x.id = x.id' /\ x.slots' = x.slots
    BY DEF OwnershipInv, QueueInv
  <2>3. Backed(x.slots)'
    BY <2>1, <2>2 DEF Gathered, Backed, SlotsOf
  <2> QED BY <2>2, <2>3 DEF Gathered
<1>3. \A i \in OutIndices : Gathered(pending[i].item.id, pending[i].item.slots)'
  <2> TAKE i \in OutIndices
  <2> DEFINE x == pending[i].item
  <2>1. SlotsOf(x.slots) \subseteq OutSlots
    BY DEF OutSlots, OutIndices
  <2>2. Gathered(x.id, x.slots) /\ x.id = x.id' /\ x.slots' = x.slots
    BY DEF OwnershipInv, OutInv
  <2>3. Backed(x.slots)'
    BY <2>1, <2>2 DEF Gathered, Backed, SlotsOf
  <2> QED BY <2>2, <2>3 DEF Gathered
<1>4. \A g \in concat : Fed(g.pdu, g.slots)'
  <2> TAKE g \in concat
  <2>1. SlotsOf(g.slots) \subseteq PartSlots(concat)
    BY DEF PartSlots
  <2>2. Fed(g.pdu, g.slots)
    BY DEF OwnershipInv, QueueInv
  <2>3. Backed(g.slots)'
    BY <2>1, <2>2 DEF Fed, Backed, SlotsOf
  <2> QED BY <2>2, <2>3 DEF Fed
<1>5. QueueInv(ready, concat, deletions)'
  <2>1. \A d \in deletions' :
          d.copy.slot \notin HeldSlots(ready) \union OutSlots \union PartSlots(concat)
    BY DEF OwnershipInv, QueueInv
  <2> QED BY <1>1, <1>2, <1>4, <2>1 DEF OwnershipInv, QueueInv
<1>6. OutInv'
  BY <1>1, <1>3 DEF OwnershipInv, OutInv
<1> QED BY <1>5, <1>6

(* The slots in use are slots of the modem, and none of them is empty. *)
LEMMA SlotsInUse ==
  ASSUME TypeOK, OwnershipInv
  PROVE  \A s \in HeldSlots(ready) \union OutSlots \union PartSlots(concat) :
           s \in Slots /\ modem[s] # Empty
<1>1. ASSUME NEW slots \in SUBSET Copies, Backed(slots)
      PROVE  \A s \in SlotsOf(slots) : s \in Slots /\ modem[s] # Empty
  BY <1>1, StorageAssumption DEF SlotsOf, Copies, Backed
<1>2. ASSUME NEW i \in DOMAIN ready
      PROVE  \A s \in SlotsOf(ready[i].slots) : s \in Slots /\ modem[s] # Empty
  <2>1. ready[i] \in Items
    BY ElementOfSeq, LenProperties DEF TypeOK
  <2>2. ready[i].slots \in SUBSET Copies /\ (ready[i].kind # "Sms" => ready[i].slots = {})
    BY <2>1 DEF Items
  <2>3. Backed(ready[i].slots)
    BY <2>2 DEF OwnershipInv, QueueInv, Gathered, SmsIndices, Backed
  <2> QED BY <1>1, <2>2, <2>3
<1>3. ASSUME NEW i \in DOMAIN pending
      PROVE  \A s \in SlotsOf(pending[i].item.slots) : s \in Slots /\ modem[s] # Empty
  <2>1. pending[i].item \in Items
    BY ReceiptType
  <2>2. /\ pending[i].item.slots \in SUBSET Copies
        /\ pending[i].item.kind # "Sms" => pending[i].item.slots = {}
    BY <2>1 DEF Items
  <2>3. Backed(pending[i].item.slots)
    BY <2>2 DEF OwnershipInv, OutInv, Gathered, OutIndices, Backed
  <2> QED BY <1>1, <2>2, <2>3
<1>4. ASSUME NEW g \in concat
      PROVE  \A s \in SlotsOf(g.slots) : s \in Slots /\ modem[s] # Empty
  <2>1. g.slots \in SUBSET Copies /\ Backed(g.slots)
    BY DEF OwnershipInv, QueueInv, PartType, Fed
  <2> QED BY <1>1, <2>1
<1> QED BY <1>2, <1>3, <1>4 DEF HeldSlots, OutSlots, PartSlots

(* The slot that is erased is nobody else's. *)
LEMMA DeletionApart ==
  ASSUME TypeOK, OwnershipInv, NEW d \in deletions, DeleteConsumedSlot(d)
  PROVE  OwnershipInv'
<1> DEFINE s == d.copy.slot
           later == [d EXCEPT !.retry = TRUE]
<1>0. d \in [copy : Copies, retry : BOOLEAN] /\ s \in Slots /\ d.copy.pdu \in Pdus /\ later.copy = d.copy
  BY DEF TypeOK, Copies
<1>1. /\ UNCHANGED <<ready, pending, concat, delivered, arrived, urcs, unconfirmed, batch>>
      /\ phase = "delete" /\ phase' = "resume"
  BY DEF DeleteConsumedSlot, history
<1>2. /\ modem' \in {modem, [modem EXCEPT ![s] = Empty]}
      /\ deletions' \in {deletions \ {d}, (deletions \ {d}) \union {later}}
  BY DEF DeleteConsumedSlot, DeleteSlot, KeepChangedSlot, DeleteFails
<1>3. \/ modem' = [modem EXCEPT ![s] = Empty]
      \/ modem' = modem /\ modem[s] # d.copy.pdu
      \/ modem' = modem /\ deletions' = (deletions \ {d}) \union {later}
  BY DEF DeleteConsumedSlot, DeleteSlot, KeepChangedSlot, DeleteFails
<1>4. modem \in [Slots -> Pdus \union {Empty}]
  BY DEF TypeOK
<1> HIDE DEF later, s
<1>5. \A t \in Slots : t # s => modem'[t] = modem[t]
  BY <1>0, <1>2, <1>4
<1>6. \A t \in Slots : modem'[t] # Empty => modem'[t] = modem[t]
  BY <1>0, <1>2, <1>4
<1>7. QueueInv(ready, concat, deletions)' /\ OutInv'
  <2>1. s \notin HeldSlots(ready) \union OutSlots \union PartSlots(concat)
    BY DEF OwnershipInv, QueueInv, s
  <2>2. \A t \in HeldSlots(ready) \union OutSlots \union PartSlots(concat) : t # s
    BY <2>1
  <2>3. \A t \in HeldSlots(ready) \union OutSlots \union PartSlots(concat) : modem'[t] = modem[t]
    BY <1>5, <2>2, SlotsInUse
  <2>4. \A e \in deletions' : (e \in deletions /\ e # d) \/ (e.copy = d.copy /\ e = later)
    BY <1>0, <1>2
  <2>5. \A e \in deletions' : \E f \in deletions : e.copy = f.copy
    BY <2>4
  <2>6. \A e, f \in deletions' : e.copy.slot = f.copy.slot => e = f
    <3>1. \A e, f \in deletions : e.copy.slot = f.copy.slot => e = f
      BY DEF OwnershipInv, QueueInv
    <3> QED BY <2>4, <3>1
  <2> QED BY <1>1, <2>3, <2>5, <2>6, KeptSlots
<1>8. StorageInv'
  BY <1>1, <1>6 DEF OwnershipInv, StorageInv
<1>9. BatchInv'
  BY <1>1 DEF OwnershipInv, BatchInv, Backed
<1>10. DirectInv'
  BY <1>1 DEF OwnershipInv, DirectInv, Ids, SmsIndices, OutIds, OutIndices
<1>11. ConfirmedInv'
  <2> SUFFICES ASSUME NEW t \in Slots, modem'[t] # Empty,
                      MessageOf[modem'[t]] \in delivered \ unconfirmed
               PROVE  \/ \E i \in OutIndices :
                           /\ pending[i].receipt = "ok"
                           /\ [slot |-> t, pdu |-> modem'[t]] \in pending[i].item.slots
                      \/ \E e \in deletions' : e.copy = [slot |-> t, pdu |-> modem'[t]]
    BY <1>1 DEF OwnershipInv, ConfirmedInv, OutIndices
  <2>1. modem'[t] = modem[t]
    BY <1>6
  <2>2. \/ \E i \in OutIndices :
             /\ pending[i].receipt = "ok"
             /\ [slot |-> t, pdu |-> modem[t]] \in pending[i].item.slots
        \/ \E e \in deletions : e.copy = [slot |-> t, pdu |-> modem[t]]
    BY <2>1 DEF OwnershipInv, ConfirmedInv
  <2>3. ASSUME NEW e \in deletions, e.copy = [slot |-> t, pdu |-> modem[t]]
        PROVE  \E f \in deletions' : f.copy = [slot |-> t, pdu |-> modem[t]]
    <3>1. CASE e # d
      <4>1. e \in deletions'
        BY <1>2, <3>1
      <4> QED BY <2>3, <4>1
    <3>2. CASE e = d
      <4>1. s = t /\ modem[s] = d.copy.pdu
        BY <2>3, <3>2 DEF s
      <4>2. modem' # [modem EXCEPT ![s] = Empty]
        BY <1>0, <1>4, <4>1
      <4>3. deletions' = (deletions \ {d}) \union {later}
        BY <1>3, <4>1, <4>2
      <4> QED BY <1>0, <2>3, <3>2, <4>3
    <3> QED BY <3>1, <3>2
  <2> QED BY <2>1, <2>2, <2>3
<1> QED BY <1>7, <1>8, <1>9, <1>10, <1>11 DEF OwnershipInv

(* A PDU that arrives is new, and stored in a slot that is not in use. *)
LEMMA NetworkApart ==
  ASSUME TypeOK, OwnershipInv, Network
  PROVE  OwnershipInv'
<1>1. /\ UNCHANGED <<ready, pending, concat, deletions, delivered, unconfirmed, batch, phase>>
      /\ arrived \subseteq arrived'
  BY DEF Network, StoreSms, DirectSms, IncomingCall, history
<1>2. \A d, e \in deletions : d.copy.slot = e.copy.slot => d = e
  BY DEF OwnershipInv, QueueInv
<1>3. OutIds' = OutIds /\ Ids(ready)' = Ids(ready) /\ OutIndices' = OutIndices
  BY <1>1 DEF OutIds, OutIndices, Ids, SmsIndices
<1>4. ASSUME NEW p \in Pdus, NEW s \in Slots, StoreSms(p, s) PROVE OwnershipInv'
  <2>1. /\ p \notin arrived /\ MessageOf[p] \notin Direct /\ modem[s] = Empty
        /\ arrived' = arrived \union {p}
        /\ modem' = [modem EXCEPT ![s] = p]
        /\ \A b \in Pdus : [code |-> "CMT", of |-> b] \in urcs' => [code |-> "CMT", of |-> b] \in urcs
    BY <1>4 DEF StoreSms
  <2>2. modem \in [Slots -> Pdus \union {Empty}] /\ p # Empty
    BY StorageAssumption DEF TypeOK
  <2>3. modem'[s] = p /\ \A t \in Slots : t # s => modem'[t] = modem[t]
    BY <2>1, <2>2
  <2>4. \A t \in Slots : modem[t] # Empty => modem'[t] = modem[t]
    BY <2>1, <2>3
  <2>5. QueueInv(ready, concat, deletions)' /\ OutInv'
    BY <1>1, <1>2, <2>4, SlotsInUse, KeptSlots
  <2>6. StorageInv'
    BY <2>1, <2>3 DEF OwnershipInv, StorageInv
  <2>7. BatchInv'
    <3>1. \A c \in batch : c.slot \in Slots /\ modem[c.slot] = c.pdu /\ c.pdu \in Pdus
      BY DEF OwnershipInv, BatchInv, Backed, TypeOK, Slots
    <3>2. \A c \in batch : modem'[c.slot] = c.pdu
      BY <2>4, <3>1, StorageAssumption
    <3> QED BY <1>1, <3>2 DEF OwnershipInv, BatchInv, Backed
  <2>8. DirectInv'
    BY <1>1, <1>3, <2>1 DEF OwnershipInv, DirectInv
  <2>9. ConfirmedInv'
    <3>1. \A m \in delivered' : PartsOf(m) \subseteq arrived'
      BY <1>1 DEF OwnershipInv, ConfirmedInv
    <3>2. MessageOf[p] \notin delivered
      BY <2>1 DEF OwnershipInv, ConfirmedInv, PartsOf
    <3>3. \A t \in Slots : modem'[t] # Empty /\ MessageOf[modem'[t]] \in delivered => modem'[t] = modem[t]
      BY <2>3, <3>2
    <3> QED BY <1>1, <1>3, <3>1, <3>3 DEF OwnershipInv, ConfirmedInv
  <2> QED BY <2>5, <2>6, <2>7, <2>8, <2>9 DEF OwnershipInv
<1>5. ASSUME modem' = modem, DirectInv' PROVE OwnershipInv'
  <2>1. QueueInv(ready, concat, deletions)' /\ OutInv'
    BY <1>1, <1>2, <1>5, KeptSlots
  <2>2. StorageInv' /\ BatchInv'
    BY <1>1, <1>5 DEF OwnershipInv, StorageInv, BatchInv, Backed
  <2>3. ConfirmedInv'
    BY <1>1, <1>3, <1>5 DEF OwnershipInv, ConfirmedInv
  <2> QED BY <1>5, <2>1, <2>2, <2>3 DEF OwnershipInv
<1>6. ASSUME NEW p \in Pdus, DirectSms(p) PROVE OwnershipInv'
  <2>1. /\ p \notin arrived /\ MessageOf[p] \in Direct /\ modem' = modem
        /\ arrived' = arrived \union {p}
        /\ urcs' = urcs \union {[code |-> "CMT", of |-> p]}
    BY <1>6 DEF DirectSms
  <2>2. p \in PartsOf(MessageOf[p])
    BY DEF PartsOf
  <2>3. MessageOf[p] \notin Ids(ready) \union OutIds \union delivered
    BY <2>1, <2>2 DEF OwnershipInv, QueueInv, OutInv, ConfirmedInv, Gathered, Ids, OutIds
  <2>4. \A g \in concat : g.pdu # p
    BY <2>1 DEF OwnershipInv, QueueInv, Fed
  <2>5. DirectInv'
    <3> SUFFICES ASSUME NEW b \in Pdus, [code |-> "CMT", of |-> b] \in urcs'
                 PROVE  /\ b \in arrived'
                        /\ MessageOf[b] \in Direct
                        /\ MessageOf[b] \notin Ids(ready) \union OutIds \union delivered
                        /\ \A g \in concat : g.pdu # b
      BY <1>1, <1>3 DEF DirectInv
    <3>1. CASE [code |-> "CMT", of |-> b] \in urcs
      BY <2>1, <3>1 DEF OwnershipInv, DirectInv
    <3>2. CASE [code |-> "CMT", of |-> b] = [code |-> "CMT", of |-> p]
      <4>1. b = p
        BY <3>2
      <4> QED BY <2>1, <2>3, <2>4, <4>1
    <3> QED BY <2>1, <3>1, <3>2
  <2> QED BY <1>5, <2>1, <2>5
<1>7. ASSUME NEW c \in Calls, IncomingCall(c) PROVE OwnershipInv'
  <2>1. DirectInv'
    BY <1>1, <1>3, <1>7 DEF OwnershipInv, DirectInv, IncomingCall
  <2> QED BY <1>5, <1>7, <2>1 DEF IncomingCall
<1> QED BY <1>4, <1>6, <1>7 DEF Network

(* What Telegram accepts is no longer new; a receipt says ok only of a       *)
(* message whose slots the worker's entry names.                             *)
LEMMA WorkerApart ==
  ASSUME TypeOK, OwnershipInv, Worker
  PROVE  OwnershipInv'
<1>1. PICK i \in DOMAIN pending :
        WorkerConfirms(i) \/ WorkerLosesAnswer(i) \/ WorkerFails(i)
  BY DEF Worker
<1> DEFINE x == pending[i].item
<1>2. /\ UNCHANGED <<ready, concat, deletions, modem, arrived, urcs, batch, phase>>
      /\ pending[i].receipt = "none"
      /\ \E r \in {"ok", "failed"} :
           /\ pending' = [pending EXCEPT ![i].receipt = r]
           /\ r = "ok" => delivered' = delivered \union Accepted(x) /\ unconfirmed' = unconfirmed
           /\ r = "failed" => \/ UNCHANGED <<delivered, unconfirmed>>
                              \/ /\ delivered' = delivered \union Accepted(x)
                                 /\ unconfirmed' = unconfirmed \union Accepted(x)
  BY <1>1 DEF WorkerConfirms, WorkerLosesAnswer, WorkerFails, history
<1>3. PICK r \in {"ok", "failed"} :
        /\ pending' = [pending EXCEPT ![i].receipt = r]
        /\ r = "ok" => delivered' = delivered \union Accepted(x) /\ unconfirmed' = unconfirmed
        /\ r = "failed" => \/ UNCHANGED <<delivered, unconfirmed>>
                           \/ /\ delivered' = delivered \union Accepted(x)
                              /\ unconfirmed' = unconfirmed \union Accepted(x)
  BY <1>2
<1>4. pending \in Seq(Entries) /\ DOMAIN pending = 1 .. Len(pending) /\ x \in Items
  BY LenProperties, ReceiptType DEF TypeOK, Entries
<1>5. /\ DOMAIN pending' = DOMAIN pending
      /\ \A j \in DOMAIN pending : j # i => pending'[j] = pending[j]
      /\ pending'[i] = [pending[i] EXCEPT !.receipt = r]
  BY <1>3, <1>4
<1>6. pending[i] \in Entries
  BY <1>4, ElementOfSeq
<1>7. pending'[i].item = x /\ pending'[i].receipt = r
  BY <1>5, <1>6 DEF Entries
<1>8. \A j \in DOMAIN pending : pending'[j].item = pending[j].item
  BY <1>5, <1>7
<1>9. OutIndices' = OutIndices /\ OutIds' = OutIds /\ OutSlots' = OutSlots
  BY <1>5, <1>8 DEF OutIndices, OutIds, OutSlots
<1>10. Accepted(x) \subseteq OutIds
  BY DEF Accepted, OutIds, OutIndices
<1>11. delivered \subseteq delivered' /\ delivered' \subseteq delivered \union Accepted(x)
  BY <1>3
<1>12. \A m, slots : Gathered(m, slots)' <=> Gathered(m, slots)
  BY <1>2 DEF Gathered, Backed
<1>13. /\ Ids(ready)' = Ids(ready) /\ SmsIndices(ready)' = SmsIndices(ready)
       /\ HeldSlots(ready)' = HeldSlots(ready) /\ PartSlots(concat)' = PartSlots(concat)
  BY <1>2 DEF Ids, SmsIndices, HeldSlots, SlotsOf, PartSlots
<1> HIDE DEF x
<1>14. QueueInv(ready, concat, deletions)'
  <2>1. \A g \in concat : Fed(g.pdu, g.slots)'
    <3> TAKE g \in concat
    <3>1. Fed(g.pdu, g.slots) /\ MessageOf[g.pdu] \notin OutIds
      BY DEF OwnershipInv, QueueInv
    <3>2. MessageOf[g.pdu] \in Direct => MessageOf[g.pdu] \notin delivered'
      BY <1>10, <1>11, <3>1 DEF Fed
    <3> QED BY <1>2, <3>1, <3>2 DEF Fed, Backed
  <2>2. \A j \in SmsIndices(ready) : /\ ready[j].id \notin OutIds
                                  /\ ready[j].id \in Direct => ready[j].id \notin delivered'
    BY <1>10, <1>11 DEF OwnershipInv, QueueInv
  <2> QED BY <1>2, <1>9, <1>12, <1>13, <2>1, <2>2 DEF OwnershipInv, QueueInv
<1>15. OutInv'
  <2>1. \A j \in OutIndices : Gathered(pending'[j].item.id, pending'[j].item.slots)
    BY <1>8 DEF OwnershipInv, OutInv, OutIndices
  <2>2. \A j, k \in OutIndices : pending'[j].item.id = pending'[k].item.id => j = k
    BY <1>8 DEF OwnershipInv, OutInv, OutIndices
  <2>3. ASSUME NEW j \in OutIndices, pending'[j].item.id \in Direct, pending'[j].receipt = "none"
        PROVE  pending'[j].item.id \notin delivered'
    <3>1. j # i /\ pending'[j] = pending[j] /\ j \in DOMAIN pending
      BY <1>5, <1>7, <2>3 DEF OutIndices
    <3>2. pending[j].item.id \notin delivered
      BY <2>3, <3>1 DEF OwnershipInv, OutInv
    <3>3. pending[j].item.id \notin Accepted(x)
      <4> SUFFICES ASSUME x.kind = "Sms", pending[j].item.id = x.id PROVE FALSE
        BY DEF Accepted
      <4>1. i \in OutIndices
        BY DEF OutIndices, x
      <4> QED BY <3>1, <4>1 DEF OwnershipInv, OutInv, x
    <3> QED BY <1>11, <3>1, <3>2, <3>3
  <2> QED BY <1>9, <1>12, <2>1, <2>2, <2>3 DEF OutInv
<1>16. StorageInv' /\ BatchInv'
  BY <1>2 DEF OwnershipInv, StorageInv, BatchInv, Backed
<1>17. DirectInv'
  BY <1>2, <1>9, <1>10, <1>11, <1>13 DEF OwnershipInv, DirectInv
<1>18. x.kind = "Sms" => i \in OutIndices /\ Gathered(x.id, x.slots) /\ x.slots \in SUBSET Copies
  BY <1>4 DEF OutIndices, OwnershipInv, OutInv, x, Items
<1>19. ConfirmedInv'
  <2>1. \A m \in delivered' : PartsOf(m) \subseteq arrived'
    <3>1. x.kind = "Sms" => PartsOf(x.id) \subseteq arrived
      BY <1>18 DEF Gathered
    <3> QED BY <1>2, <1>11, <3>1 DEF OwnershipInv, ConfirmedInv, Accepted
  <2>2. ASSUME NEW s \in Slots, modem[s] # Empty, MessageOf[modem[s]] \in delivered' \ unconfirmed'
        PROVE  \/ \E j \in OutIndices :
                    /\ pending'[j].receipt = "ok"
                    /\ [slot |-> s, pdu |-> modem[s]] \in pending'[j].item.slots
               \/ \E d \in deletions : d.copy = [slot |-> s, pdu |-> modem[s]]
    <3>1. CASE MessageOf[modem[s]] \in delivered \ unconfirmed
      <4>1. \/ \E j \in OutIndices :
                 /\ pending[j].receipt = "ok"
                 /\ [slot |-> s, pdu |-> modem[s]] \in pending[j].item.slots
            \/ \E d \in deletions : d.copy = [slot |-> s, pdu |-> modem[s]]
        BY <2>2, <3>1 DEF OwnershipInv, ConfirmedInv
      <4>2. \A j \in OutIndices : pending[j].receipt = "ok" => pending'[j] = pending[j]
        BY <1>2, <1>5 DEF OutIndices
      <4> QED BY <4>1, <4>2
    <3>2. CASE MessageOf[modem[s]] \notin delivered \ unconfirmed
      <4>1. r = "ok" /\ MessageOf[modem[s]] \in Accepted(x)
        BY <1>3, <2>2, <3>2
      <4>2. x.kind = "Sms" /\ MessageOf[modem[s]] = x.id
        BY <4>1 DEF Accepted
      <4>3. modem[s] \in Pdus /\ x.id \notin Direct
        BY <2>2, <4>2 DEF TypeOK, OwnershipInv, StorageInv
      <4>4. modem[s] \in PartsOf(x.id)
        BY <4>2, <4>3 DEF PartsOf
      <4>5. PICK c \in x.slots : c.pdu = modem[s]
        BY <1>18, <4>2, <4>3, <4>4 DEF Gathered
      <4>6. c \in Copies /\ modem[c.slot] = modem[s]
        BY <1>18, <4>2, <4>5 DEF Gathered, Backed
      <4>7. c.slot = s
        BY <2>2, <4>6 DEF OwnershipInv, StorageInv, Copies
      <4>8. c = [slot |-> s, pdu |-> modem[s]]
        BY <4>5, <4>6, <4>7 DEF Copies
      <4> QED BY <1>7, <1>18, <4>1, <4>2, <4>5, <4>8
    <3> QED BY <3>1, <3>2
  <2> QED BY <1>2, <1>9, <2>1, <2>2 DEF ConfirmedInv
<1> QED BY <1>14, <1>15, <1>16, <1>17, <1>19 DEF OwnershipInv

(* The slots of a delivered message pass from its receipt to the deletions. *)
LEMMA ReceiptsApart ==
  ASSUME TypeOK, OwnershipInv, NEW i \in DOMAIN pending, ProcessReceipt(i)
  PROVE  OwnershipInv'
<1> DEFINE x == pending[i].item
           released == IF pending[i].receipt = "ok" THEN PendingDeletions(x.slots) ELSE {}
<1>1. /\ UNCHANGED <<ready, concat, modem, arrived, urcs, batch, phase, delivered, unconfirmed>>
      /\ pending' = RemoveAt(pending, i)
      /\ deletions' = deletions \union released
  BY DEF ProcessReceipt, history
<1>2. pending \in Seq(Entries) /\ DOMAIN pending = 1 .. Len(pending) /\ i \in 1 .. Len(pending)
        /\ Len(pending) \in Nat
  BY LenProperties DEF TypeOK, Entries
<1>3. x \in Items
  BY ReceiptType
<1>4. /\ pending' \in Seq(Entries)
      /\ Len(pending') = Len(pending) - 1
      /\ \A j \in 1 .. Len(pending) - 1 : pending'[j] = IF j < i THEN pending[j] ELSE pending[j + 1]
  BY <1>1, <1>2, RemoveAtProperties
<1>5. DOMAIN pending' = 1 .. Len(pending) - 1
  BY <1>2, <1>4, LenProperties
<1>6. \A j \in DOMAIN pending' : \E k \in DOMAIN pending :
        pending'[j] = pending[k] /\ k # i /\ k = IF j < i THEN j ELSE j + 1
  BY <1>2, <1>4, <1>5
<1>7. \A k \in DOMAIN pending : k # i => \E j \in DOMAIN pending' : pending'[j] = pending[k]
  <2> SUFFICES ASSUME NEW k \in DOMAIN pending, k # i
               PROVE  \E j \in DOMAIN pending' : pending'[j] = pending[k]
    OBVIOUS
  <2>1. CASE k < i
    <3>1. k \in 1 .. Len(pending) - 1
      BY <1>2, <2>1
    <3> QED BY <1>4, <1>5, <2>1, <3>1
  <2>2. CASE k > i
    <3>1. k - 1 \in 1 .. Len(pending) - 1 /\ ~(k - 1 < i) /\ (k - 1) + 1 = k
      BY <1>2, <2>2
    <3> QED BY <1>4, <1>5, <3>1
  <2> QED BY <1>2, <2>1, <2>2
<1>8. OutIds' \subseteq OutIds /\ OutSlots' \subseteq OutSlots
  BY <1>6 DEF OutIds, OutIndices, OutSlots, SlotsOf
<1>9. ASSUME NEW j \in OutIndices'
      PROVE  \E k \in OutIndices : pending'[j] = pending[k] /\ k # i /\ k = IF j < i THEN j ELSE j + 1
  BY <1>6 DEF OutIndices
<1>10. \A m, slots : Gathered(m, slots)' <=> Gathered(m, slots)
  BY <1>1 DEF Gathered, Backed
<1>11. \A p, slots : Fed(p, slots)' <=> Fed(p, slots)
  BY <1>1 DEF Fed, Backed
<1>12. /\ Ids(ready)' = Ids(ready) /\ SmsIndices(ready)' = SmsIndices(ready)
       /\ HeldSlots(ready)' = HeldSlots(ready) /\ PartSlots(concat)' = PartSlots(concat)
  BY <1>1 DEF Ids, SmsIndices, HeldSlots, SlotsOf, PartSlots
<1>13. \A d \in released : d.copy \in x.slots /\ d \in [copy : Copies, retry : BOOLEAN] /\ d.retry = FALSE
  BY <1>3 DEF PendingDeletions, Items
<1>14. x.slots # {} => x.kind = "Sms" /\ i \in OutIndices /\ Gathered(x.id, x.slots)
  BY <1>3 DEF Items, OutIndices, OwnershipInv, OutInv
<1>15. \A c \in x.slots : c.slot \in OutSlots
  BY DEF OutSlots, SlotsOf
<1> HIDE DEF released, x
<1>16. ASSUME NEW d \in released
       PROVE  d.copy.slot \notin HeldSlots(ready) \union OutSlots' \union PartSlots(concat)
  <2> DEFINE c == d.copy
  <2>1. c \in x.slots /\ i \in OutIndices /\ Gathered(x.id, x.slots)
    BY <1>13, <1>14
  <2>2. x.id \in OutIds
    BY <2>1 DEF OutIds, x
  <2> HIDE DEF c
  <2>3. ASSUME NEW k \in DOMAIN ready, NEW e \in ready[k].slots, e.slot = c.slot PROVE FALSE
    <3>1. ready[k] \in Items
      BY ElementOfSeq, LenProperties DEF TypeOK
    <3>2. k \in SmsIndices(ready)
      BY <2>3, <3>1 DEF Items, SmsIndices
    <3>3. Gathered(ready[k].id, ready[k].slots) /\ ready[k].id \notin OutIds
      BY <3>2 DEF OwnershipInv, QueueInv
    <3>4. x.id = ready[k].id
      BY <2>1, <2>3, <3>3, SlotHolder
    <3> QED BY <2>2, <3>3, <3>4
  <2>4. ASSUME NEW j \in DOMAIN pending', NEW e \in pending'[j].item.slots, e.slot = c.slot
        PROVE  FALSE
    <3>1. PICK k \in DOMAIN pending : pending'[j] = pending[k] /\ k # i
      BY <1>6
    <3>2. pending[k].item \in Items
      BY ReceiptType
    <3>3. k \in OutIndices
      BY <2>4, <3>1, <3>2 DEF Items, OutIndices
    <3>4. Gathered(pending[k].item.id, pending[k].item.slots)
      BY <3>3 DEF OwnershipInv, OutInv
    <3>5. x.id = pending[k].item.id
      BY <2>1, <2>4, <3>1, <3>4, SlotHolder
    <3> QED BY <2>1, <3>1, <3>3, <3>5 DEF OwnershipInv, OutInv, x
  <2>5. ASSUME NEW g \in concat, NEW e \in g.slots, e.slot = c.slot PROVE FALSE
    <3>1. Fed(g.pdu, g.slots) /\ MessageOf[g.pdu] \notin OutIds
      BY DEF OwnershipInv, QueueInv
    <3>2. e.pdu \in {f.pdu : f \in g.slots} /\ modem[e.slot] = e.pdu
      BY <3>1 DEF Fed, Backed
    <3>3. e.pdu = g.pdu
      BY <2>5, <3>1, <3>2 DEF Fed
    <3>4. modem[c.slot] = c.pdu /\ MessageOf[c.pdu] = x.id
      BY <2>1 DEF Gathered, Backed, PartsOf
    <3> QED BY <2>2, <2>5, <3>1, <3>2, <3>3, <3>4
  <2> QED BY <2>3, <2>4, <2>5 DEF HeldSlots, OutSlots, PartSlots, SlotsOf, c
<1>17. \A d \in deletions' :
         d.copy.slot \notin HeldSlots(ready) \union OutSlots' \union PartSlots(concat)
  <2>1. \A d \in deletions : d.copy.slot \notin HeldSlots(ready) \union OutSlots \union PartSlots(concat)
    BY DEF OwnershipInv, QueueInv
  <2> QED BY <1>1, <1>8, <1>16, <2>1
<1>18. \A d, e \in deletions' : d.copy.slot = e.copy.slot => d = e
  <2> SUFFICES ASSUME NEW d \in deletions', NEW e \in deletions', d.copy.slot = e.copy.slot
               PROVE  d = e
    OBVIOUS
  <2>1. CASE d \in deletions /\ e \in deletions
    BY <2>1 DEF OwnershipInv, QueueInv
  <2>2. ASSUME NEW f \in deletions, NEW g \in released, f.copy.slot = g.copy.slot PROVE FALSE
    BY <1>13, <1>15, <2>2 DEF OwnershipInv, QueueInv
  <2>3. CASE d \in released /\ e \in released
    <3>1. d.copy \in x.slots /\ e.copy \in x.slots /\ Gathered(x.id, x.slots)
      BY <1>13, <1>14, <2>3
    <3>2. d.copy.pdu = e.copy.pdu
      BY <3>1 DEF Gathered, Backed
    <3>3. d \in [copy : Copies, retry : BOOLEAN] /\ e \in [copy : Copies, retry : BOOLEAN]
            /\ d.retry = FALSE /\ e.retry = FALSE
      BY <1>13, <2>3
    <3>4. d.copy = e.copy
      BY <3>2, <3>3 DEF Copies
    <3> QED BY <3>3, <3>4
  <2> QED BY <1>1, <2>1, <2>2, <2>3
<1>19. QueueInv(ready, concat, deletions)'
  <2>1. \A j \in SmsIndices(ready) : ready[j].id \notin OutIds'
    BY <1>8 DEF OwnershipInv, QueueInv
  <2>2. \A g \in concat : MessageOf[g.pdu] \notin OutIds'
    BY <1>8 DEF OwnershipInv, QueueInv
  <2> QED BY <1>1, <1>10, <1>11, <1>12, <1>17, <1>18, <2>1, <2>2 DEF OwnershipInv, QueueInv
<1>20. OutInv'
  <2>1. ASSUME NEW j \in OutIndices'
        PROVE  /\ Gathered(pending'[j].item.id, pending'[j].item.slots)
               /\ pending'[j].item.id \in Direct /\ pending'[j].receipt = "none"
                    => pending'[j].item.id \notin delivered
    BY <1>9 DEF OwnershipInv, OutInv
  <2>2. ASSUME NEW j \in OutIndices', NEW l \in OutIndices', pending'[j].item.id = pending'[l].item.id
        PROVE  j = l
    <3>1. PICK k \in OutIndices : pending'[j] = pending[k] /\ k = IF j < i THEN j ELSE j + 1
      BY <1>9
    <3>2. PICK n \in OutIndices : pending'[l] = pending[n] /\ n = IF l < i THEN l ELSE l + 1
      BY <1>9
    <3>3. k = n
      BY <2>2, <3>1, <3>2 DEF OwnershipInv, OutInv
    <3>4. i \in Int /\ j \in Int /\ l \in Int
      BY <1>2, <1>5 DEF OutIndices
    <3> QED BY <3>1, <3>2, <3>3, <3>4
  <2> QED BY <1>1, <1>10, <2>1, <2>2 DEF OutInv
<1>21. StorageInv' /\ BatchInv'
  BY <1>1 DEF OwnershipInv, StorageInv, BatchInv, Backed
<1>22. DirectInv'
  BY <1>1, <1>8, <1>12 DEF OwnershipInv, DirectInv
<1>23. ConfirmedInv'
  <2> SUFFICES ASSUME NEW s \in Slots, modem[s] # Empty,
                      MessageOf[modem[s]] \in delivered \ unconfirmed
               PROVE  \/ \E j \in OutIndices' :
                           /\ pending'[j].receipt = "ok"
                           /\ [slot |-> s, pdu |-> modem[s]] \in pending'[j].item.slots
                      \/ \E d \in deletions' : d.copy = [slot |-> s, pdu |-> modem[s]]
    BY <1>1 DEF OwnershipInv, ConfirmedInv
  <2> DEFINE copy == [slot |-> s, pdu |-> modem[s]]
  <2>1. \/ \E k \in OutIndices : pending[k].receipt = "ok" /\ copy \in pending[k].item.slots
        \/ \E d \in deletions : d.copy = copy
    BY DEF OwnershipInv, ConfirmedInv
  <2> HIDE DEF copy
  <2>2. CASE \E d \in deletions : d.copy = copy
    BY <1>1, <2>2 DEF copy
  <2>3. ASSUME NEW k \in OutIndices, pending[k].receipt = "ok", copy \in pending[k].item.slots, k # i
        PROVE  \E j \in OutIndices' : pending'[j].receipt = "ok" /\ copy \in pending'[j].item.slots
    <3>1. PICK j \in DOMAIN pending' : pending'[j] = pending[k]
      BY <1>7, <2>3 DEF OutIndices
    <3> QED BY <2>3, <3>1 DEF OutIndices
  <2>4. ASSUME pending[i].receipt = "ok", copy \in x.slots
        PROVE  \E d \in deletions' : d.copy = copy
    <3>1. [copy |-> copy, retry |-> FALSE] \in released
      BY <2>4 DEF released, PendingDeletions
    <3> QED BY <1>1, <3>1
  <2> QED BY <2>1, <2>2, <2>3, <2>4 DEF copy, x
<1> QED BY <1>19, <1>20, <1>21, <1>22, <1>23 DEF OwnershipInv

(* A reset forgets the queues, and that sends were confirmed. *)
LEMMA RebootApart ==
  ASSUME TypeOK, OwnershipInv, Reboot
  PROVE  OwnershipInv'
<1>1. /\ UNCHANGED <<modem, arrived, delivered>>
      /\ unconfirmed' = delivered
      /\ pending' = <<>> /\ ready' = QueuePlain(<<>>)
      /\ urcs' = {} /\ batch' = {} /\ deletions' = {} /\ concat' = {}
  BY DEF Reboot
<1>2. OutIndices' = {} /\ OutIds' = {}
  BY <1>1 DEF OutIndices, OutIds
<1>3. ready' \in Seq(Items) /\ SmsIndices(ready)' = {}
  <2>1. <<>> \in Seq(Items)
    OBVIOUS
  <2>2. ready' \in Seq(Items)
    BY <1>1, <2>1, ItemTypes, QueuePlainSeq
  <2>3. ready' = <<>> \/ ready' = Append(<<>>, PlainItem)
    BY <1>1 DEF QueuePlain, PlainItem
  <2>4. \A j \in DOMAIN ready' : ready'[j].kind = "Plain"
    BY <2>3 DEF PlainItem
  <2> QED BY <2>2, <2>4 DEF SmsIndices
<1>4. QueueInv(ready, concat, deletions)' /\ OutInv'
  BY <1>1, <1>2, <1>3 DEF QueueInv, OutInv
<1>5. StorageInv' /\ BatchInv' /\ DirectInv'
  BY <1>1 DEF OwnershipInv, StorageInv, BatchInv, Backed, DirectInv
<1>6. ConfirmedInv'
  BY <1>1 DEF OwnershipInv, ConfirmedInv
<1> QED BY <1>4, <1>5, <1>6 DEF OwnershipInv

(* Boot. *)
LEMMA InitApart == Init => OwnershipInv
<1> SUFFICES ASSUME Init PROVE OwnershipInv
  OBVIOUS
<1>1. /\ pending = <<>> /\ ready = QueuePlain(<<>>)
      /\ urcs = {} /\ batch = {} /\ deletions = {} /\ concat = {} /\ delivered = {}
      /\ modem = [s \in Slots |-> Empty]
  BY DEF Init
<1>2. OutIndices = {} /\ OutIds = {}
  BY <1>1 DEF OutIndices, OutIds
<1>3. ready \in Seq(Items) /\ SmsIndices(ready) = {}
  <2>1. <<>> \in Seq(Items)
    OBVIOUS
  <2>2. ready \in Seq(Items)
    BY <1>1, <2>1, ItemTypes, QueuePlainSeq
  <2>3. ready = <<>> \/ ready = Append(<<>>, PlainItem)
    BY <1>1 DEF QueuePlain, PlainItem
  <2>4. \A j \in DOMAIN ready : ready[j].kind = "Plain"
    BY <2>3 DEF PlainItem
  <2> QED BY <2>2, <2>4 DEF SmsIndices
<1>4. QueueInv(ready, concat, deletions) /\ OutInv
  BY <1>1, <1>2, <1>3 DEF QueueInv, OutInv
<1>5. StorageInv /\ BatchInv /\ DirectInv /\ ConfirmedInv
  BY <1>1 DEF StorageInv, BatchInv, Backed, DirectInv, ConfirmedInv
<1> QED BY <1>4, <1>5 DEF OwnershipInv

(* Every step keeps messages apart. *)
LEMMA OwnershipStep ==
  ASSUME TypeOK, OwnershipInv, [Next]_vars
  PROVE  OwnershipInv'
<1>1. CASE Network
  BY <1>1, NetworkApart
<1>2. CASE Worker
  BY <1>2, WorkerApart
<1>3. CASE MainLoop
  BY <1>3, ReceiptsApart, DeletionApart, DirectApart, ReadApart, EntryApart, CallApart,
     PumpApart, PassApart DEF MainLoop
<1>4. CASE Reboot
  BY <1>4, RebootApart
<1>5. CASE UNCHANGED vars
  <2>1. /\ UNCHANGED <<modem, arrived, pending, delivered, unconfirmed, ready, concat, deletions,
                       urcs, batch, phase>>
    BY <1>5 DEF vars, history
  <2>2. BatchInv'
    BY <2>1 DEF OwnershipInv, BatchInv, Backed
  <2>3. QueueInv(ready', concat', deletions')
    BY <2>1 DEF OwnershipInv
  <2> QED BY <2>1, <2>2, <2>3, QuietStep
<1> QED BY <1>1, <1>2, <1>3, <1>4, <1>5 DEF Next

(* The invariant holds in every reachable state. *)
LEMMA OwnershipAlways == Spec => []OwnershipInv
<1>1. TypeOK /\ OwnershipInv /\ [Next]_vars => OwnershipInv'
  BY OwnershipStep
<1> QED BY <1>1, InitApart, TypeCorrect, PTL DEF Spec

-----------------------------------------------------------------------------
(* What follows from messages being kept apart.                             *)

(* Only a stored message has slots, and they hold its parts. *)
LEMMA Holders ==
  ASSUME TypeOK, OwnershipInv
  PROVE  /\ \A i \in DOMAIN ready : \A c \in ready[i].slots :
              i \in SmsIndices(ready) /\ Gathered(ready[i].id, ready[i].slots)
         /\ \A i \in DOMAIN pending : \A c \in pending[i].item.slots :
              /\ i \in OutIndices
              /\ Gathered(pending[i].item.id, pending[i].item.slots)
<1>1. ASSUME NEW i \in DOMAIN ready, NEW c \in ready[i].slots
      PROVE  i \in SmsIndices(ready) /\ Gathered(ready[i].id, ready[i].slots)
  <2>1. ready[i] \in Items
    BY ElementOfSeq, LenProperties DEF TypeOK
  <2>2. i \in SmsIndices(ready)
    BY <2>1 DEF Items, SmsIndices
  <2> QED BY <2>2 DEF OwnershipInv, QueueInv
<1>2. ASSUME NEW i \in DOMAIN pending, NEW c \in pending[i].item.slots
      PROVE  /\ i \in OutIndices
             /\ Gathered(pending[i].item.id, pending[i].item.slots)
  <2>1. pending[i].item \in Items
    BY ReceiptType
  <2>2. i \in OutIndices
    BY <2>1 DEF Items, OutIndices
  <2> QED BY <2>2 DEF OwnershipInv, OutInv
<1> QED BY <1>1, <1>2

(* What is queued, out or collected is backed by the slots it names. *)
LEMMA BackedInFlight ==
  ASSUME TypeOK, OwnershipInv
  PROVE  InFlightBacked
<1>1. ASSUME NEW m, NEW slots, Gathered(m, slots), NEW c \in slots
      PROVE  modem[c.slot] = c.pdu /\ MessageOf[c.pdu] = m
  BY <1>1 DEF Gathered, Backed, PartsOf
<1>2. ASSUME NEW item \in InFlight, NEW c \in item.slots
      PROVE  modem[c.slot] = c.pdu /\ MessageOf[c.pdu] = item.id
  <2>1. Gathered(item.id, item.slots)
    BY Holders DEF InFlight
  <2> QED BY <1>1, <2>1
<1>3. ASSUME NEW g \in concat, NEW c \in g.slots
      PROVE  modem[c.slot] = c.pdu /\ c.pdu = g.pdu
  <2>1. Fed(g.pdu, g.slots)
    BY DEF OwnershipInv, QueueInv
  <2>2. c.pdu \in {d.pdu : d \in g.slots}
    OBVIOUS
  <2> QED BY <2>1, <2>2 DEF Fed, Backed
<1> QED BY <1>2, <1>3 DEF InFlightBacked

(* Two claims on a slot are the same one. *)
LEMMA OneClaim ==
  ASSUME TypeOK, OwnershipInv, NEW s \in Slots, NEW x \in Claims(s), NEW y \in Claims(s)
  PROVE  x = y
<1> DEFINE Queued(i) == i \in DOMAIN ready /\ \E c \in ready[i].slots : c.slot = s
           Sent(i) == i \in DOMAIN pending /\ \E c \in pending[i].item.slots : c.slot = s
           Deleted(d) == d \in deletions /\ d.copy.slot = s
<1>1. ASSUME NEW z \in Claims(s)
      PROVE  \/ \E i : z = <<"ready", i>> /\ Queued(i)
             \/ \E i : z = <<"pending", i>> /\ Sent(i)
             \/ \E d : z = <<"deletion", d>> /\ Deleted(d)
  BY DEF Claims
<1>2. ASSUME NEW i, NEW j, Queued(i), Queued(j) PROVE i = j
  <2>1. PICK c \in ready[i].slots : c.slot = s
    BY <1>2
  <2>2. PICK d \in ready[j].slots : d.slot = s
    BY <1>2
  <2>3. /\ i \in SmsIndices(ready) /\ Gathered(ready[i].id, ready[i].slots)
        /\ j \in SmsIndices(ready) /\ Gathered(ready[j].id, ready[j].slots)
    BY <1>2, Holders
  <2>4. ready[i].id = ready[j].id
    BY <2>1, <2>2, <2>3, SlotHolder
  <2> QED BY <2>3, <2>4 DEF OwnershipInv, QueueInv
<1>3. ASSUME NEW i, NEW j, Sent(i), Sent(j) PROVE i = j
  <2>1. PICK c \in pending[i].item.slots : c.slot = s
    BY <1>3
  <2>2. PICK d \in pending[j].item.slots : d.slot = s
    BY <1>3
  <2>3. /\ i \in OutIndices /\ Gathered(pending[i].item.id, pending[i].item.slots)
        /\ j \in OutIndices /\ Gathered(pending[j].item.id, pending[j].item.slots)
    BY <1>3, Holders
  <2>4. pending[i].item.id = pending[j].item.id
    BY <2>1, <2>2, <2>3, SlotHolder
  <2> QED BY <2>3, <2>4 DEF OwnershipInv, OutInv
<1>4. ASSUME NEW i, NEW j, Queued(i), Sent(j) PROVE FALSE
  <2>1. PICK c \in ready[i].slots : c.slot = s
    BY <1>4
  <2>2. PICK d \in pending[j].item.slots : d.slot = s
    BY <1>4
  <2>3. /\ i \in SmsIndices(ready) /\ Gathered(ready[i].id, ready[i].slots)
        /\ j \in OutIndices /\ Gathered(pending[j].item.id, pending[j].item.slots)
    BY <1>4, Holders
  <2>4. ready[i].id = pending[j].item.id
    BY <2>1, <2>2, <2>3, SlotHolder
  <2> QED BY <2>3, <2>4 DEF OwnershipInv, QueueInv, OutIds
<1>5. ASSUME NEW d, Deleted(d)
      PROVE  (~\E i : Queued(i)) /\ (~\E i : Sent(i))
  <2>1. s \notin HeldSlots(ready) \union OutSlots
    BY <1>5 DEF OwnershipInv, QueueInv
  <2> QED BY <2>1 DEF HeldSlots, OutSlots, SlotsOf
<1>6. ASSUME NEW d, NEW e, Deleted(d), Deleted(e) PROVE d = e
  BY <1>6 DEF OwnershipInv, QueueInv
<1> HIDE DEF Queued, Sent, Deleted
<1> QED BY <1>1, <1>2, <1>3, <1>4, <1>5, <1>6

(* A slot of the modem has one owner, whatever the number of PDUs, slots and *)
(* calls: what is queued, sent or collected is still in the slots it names,  *)
(* and no slot is claimed twice (notification_slot_in_flight and             *)
(* deletion_slot_pending suffice, although they look at slots only).         *)
THEOREM SlotsHaveOneOwner == Spec => []SlotsOwned
<1>1. ASSUME TypeOK, OwnershipInv PROVE SlotsOwned
  <2>1. ASSUME NEW s \in Slots PROVE Cardinality(Claims(s)) <= 1
    <3>1. CASE Claims(s) = {}
      BY <3>1, FS_EmptySet
    <3>2. CASE Claims(s) # {}
      <4>1. PICK x : x \in Claims(s)
        BY <3>2
      <4>2. Claims(s) = {x}
        BY <1>1, <4>1, OneClaim
      <4> QED BY <4>2, FS_Singleton
    <3> QED BY <3>1, <3>2
  <2>2. OneClaimPerSlot
    BY <2>1 DEF OneClaimPerSlot
  <2> QED BY <1>1, <2>2, BackedInFlight DEF SlotsOwned
<1> QED BY <1>1, TypeCorrect, OwnershipAlways, PTL

(* A message that waits to be sent, or whose receipt is still out, has not   *)
(* been accepted and confirmed before: its slots would be with the receipt   *)
(* or the deletion that the confirmed message left behind.                   *)
LEMMA NotConfirmed ==
  ASSUME TypeOK, OwnershipInv, NEW m \in Messages \ Direct, NEW slots \in SUBSET Copies,
         Gathered(m, slots), m \in delivered \ unconfirmed
  PROVE  \/ \E i \in OutIndices : pending[i].item.id = m /\ pending[i].receipt = "ok"
         \/ \E d \in deletions : d.copy.slot \in SlotsOf(slots)
<1>1. PICK c \in slots : TRUE
  BY DEF Gathered
<1>2. c \in Copies /\ modem[c.slot] = c.pdu /\ MessageOf[c.pdu] = m /\ modem[c.slot] # Empty
  BY StorageAssumption DEF Gathered, Backed, PartsOf, Copies
<1>3. \/ \E i \in OutIndices :
           /\ pending[i].receipt = "ok"
           /\ [slot |-> c.slot, pdu |-> modem[c.slot]] \in pending[i].item.slots
      \/ \E d \in deletions : d.copy = [slot |-> c.slot, pdu |-> modem[c.slot]]
  BY <1>2 DEF OwnershipInv, ConfirmedInv, Copies
<1>4. ASSUME NEW i \in OutIndices, pending[i].receipt = "ok",
             NEW e \in pending[i].item.slots, e.slot = c.slot
      PROVE  pending[i].item.id = m
  <2>1. Gathered(pending[i].item.id, pending[i].item.slots)
    BY DEF OwnershipInv, OutInv
  <2> QED BY <1>1, <1>4, <2>1, SlotHolder
<1>5. ASSUME NEW d \in deletions, d.copy = [slot |-> c.slot, pdu |-> modem[c.slot]]
      PROVE  d.copy.slot \in SlotsOf(slots)
  BY <1>5 DEF SlotsOf
<1> QED BY <1>3, <1>4, <1>5

(* A message is sent again only after an ambiguous send or a reset.  A stored *)
(* message that was accepted and confirmed keeps its slots claimed until they *)
(* are erased, so no read finds it free; a direct one is handed over once.   *)
THEOREM ConfirmedNotRepeated == Spec => []NoSpuriousDuplicate
<1>1. ASSUME TypeOK, OwnershipInv PROVE NoSpuriousDuplicate
  <2>1. ASSUME NEW i \in SmsIndices(ready) PROVE ready[i].id \notin delivered \ unconfirmed
    <3>1. /\ Gathered(ready[i].id, ready[i].slots)
          /\ ready[i].id \notin OutIds
          /\ ready[i].id \in Direct => ready[i].id \notin delivered
      BY <1>1 DEF OwnershipInv, QueueInv
    <3>2. ready[i] \in Items
      BY <1>1, ElementOfSeq, LenProperties DEF TypeOK, SmsIndices
    <3>3. ready[i].id \in Messages /\ ready[i].slots \in SUBSET Copies
      BY <3>2 DEF Items, SmsIndices
    <3>4. \A d \in deletions : d.copy.slot \notin SlotsOf(ready[i].slots)
      BY <1>1 DEF OwnershipInv, QueueInv, HeldSlots, SmsIndices
    <3>5. \A j \in OutIndices : pending[j].item.id # ready[i].id
      BY <3>1 DEF OutIds
    <3> QED BY <1>1, <3>1, <3>3, <3>4, <3>5, NotConfirmed
  <2>2. ASSUME NEW i \in OutIndices, pending[i].receipt = "none"
        PROVE  pending[i].item.id \notin delivered \ unconfirmed
    <3>1. /\ Gathered(pending[i].item.id, pending[i].item.slots)
          /\ pending[i].item.id \in Direct => pending[i].item.id \notin delivered
      BY <1>1, <2>2 DEF OwnershipInv, OutInv
    <3>2. pending[i].item \in Items
      BY <1>1, ReceiptType DEF OutIndices
    <3>3. pending[i].item.id \in Messages /\ pending[i].item.slots \in SUBSET Copies
      BY <3>2 DEF Items, OutIndices
    <3>4. \A d \in deletions : d.copy.slot \notin SlotsOf(pending[i].item.slots)
      BY <1>1 DEF OwnershipInv, QueueInv, OutSlots, OutIndices
    <3>5. \A j \in OutIndices : pending[j].item.id = pending[i].item.id => j = i
      BY <1>1 DEF OwnershipInv, OutInv
    <3> QED BY <1>1, <2>2, <3>1, <3>3, <3>4, <3>5, NotConfirmed
  <2> QED BY <2>1, <2>2 DEF NoSpuriousDuplicate, SmsIndices, OutIndices
<1> QED BY <1>1, TypeCorrect, OwnershipAlways, PTL

-----------------------------------------------------------------------------
(* The refinement of the mailbox.                                           *)

Received == arrived \intersect Pdus

Stored == {p \in Pdus : \E s \in Slots : modem[s] = p}

(* The state of the mailbox. *)
mailboxVars == <<Received, Stored, delivered, dropped>>

(* A message that is gathered is available to the mailbox. *)
LEMMA GatheredAvailable ==
  ASSUME NEW m \in Messages, NEW slots \in SUBSET Copies, Gathered(m, slots)
  PROVE  Mailbox!Available(m)
<1>1. PartsOf(m) \subseteq arrived \intersect Pdus
  BY DEF Gathered, PartsOf
<1>2. ASSUME m \notin Direct, NEW p \in PartsOf(m)
      PROVE  \E s \in Slots : modem[s] = p
  <2>1. PICK c \in slots : c.pdu = p
    BY <1>2 DEF Gathered
  <2>2. c.slot \in Slots /\ modem[c.slot] = p
    BY <2>1 DEF Gathered, Backed, Copies
  <2> QED BY <2>2
<1>3. \A p \in PartsOf(m) : p \in Pdus
  BY DEF PartsOf
<1> QED BY <1>1, <1>2, <1>3 DEF Mailbox!Available, Mailbox!Parts, PartsOf

(* A dropped message is discarded by the mailbox. *)
LEMMA DropDiscards ==
  ASSUME DropsComplete, UNCHANGED <<modem, arrived, delivered>>
  PROVE  Mailbox!Next \/ UNCHANGED mailboxVars
<1>1. UNCHANGED <<Received, Stored>>
  BY DEF Received, Stored
<1>2. CASE dropped' = dropped
  BY <1>1, <1>2 DEF mailboxVars
<1>3. ASSUME NEW m \in Messages, dropped' = dropped \union {m}, Complete(m)
      PROVE  Mailbox!Next
  <2>1. Mailbox!Available(m)
    BY <1>3, GatheredAvailable DEF Complete
  <2>2. Mailbox!Discard(m)
    BY <1>1, <1>3, <2>1 DEF Mailbox!Discard, Received, Stored
  <2> QED BY <2>2 DEF Mailbox!Next
<1> QED BY <1>2, <1>3 DEF DropsComplete

(* The network hands over a PDU, or the mailbox does not see the step. *)
LEMMA NetworkReceives ==
  ASSUME TypeOK, Network
  PROVE  Mailbox!Next \/ UNCHANGED mailboxVars
<1>1. ASSUME NEW p \in Pdus, NEW s \in Slots, StoreSms(p, s) PROVE Mailbox!Next
  <2>1. /\ p \notin arrived /\ MessageOf[p] \notin Direct /\ modem[s] = Empty
        /\ arrived' = arrived \union {p}
        /\ modem' = [modem EXCEPT ![s] = p]
        /\ UNCHANGED <<delivered, dropped>>
    BY <1>1 DEF StoreSms, history
  <2>2. modem'[s] = p /\ \A t \in Slots : t # s => modem'[t] = modem[t]
    BY <2>1 DEF TypeOK
  <2>3. Stored' = Stored \union {p}
    BY <2>1, <2>2, StorageAssumption DEF Stored
  <2>4. Received' = Received \union {p} /\ p \notin Received
    BY <2>1 DEF Received
  <2>5. Mailbox!Receive(p)
    BY <2>1, <2>3, <2>4 DEF Mailbox!Receive, Received, Stored
  <2> QED BY <2>5 DEF Mailbox!Next
<1>2. ASSUME NEW p \in Pdus, DirectSms(p) PROVE Mailbox!Next
  <2>1. /\ p \notin arrived /\ MessageOf[p] \in Direct
        /\ arrived' = arrived \union {p}
        /\ UNCHANGED <<modem, delivered, dropped>>
    BY <1>2 DEF DirectSms, history
  <2>2. Received' = Received \union {p} /\ p \notin Received /\ Stored' = Stored
    BY <2>1 DEF Received, Stored
  <2>3. Mailbox!Receive(p)
    BY <2>1, <2>2 DEF Mailbox!Receive, Received, Stored
  <2> QED BY <2>3 DEF Mailbox!Next
<1>3. ASSUME NEW c \in Calls, IncomingCall(c) PROVE UNCHANGED mailboxVars
  <2>1. arrived' = arrived \union {c} /\ UNCHANGED <<modem, delivered, dropped>>
    BY <1>3 DEF IncomingCall, history
  <2>2. c \notin Pdus
    BY MessagesAssumption
  <2> QED BY <2>1, <2>2 DEF mailboxVars, Received, Stored
<1> QED BY <1>1, <1>2, <1>3 DEF Network

(* What Telegram accepts is forwarded by the mailbox. *)
LEMMA WorkerForwards ==
  ASSUME TypeOK, OwnershipInv, Worker
  PROVE  Mailbox!Next \/ UNCHANGED mailboxVars
<1>1. PICK i \in DOMAIN pending :
        WorkerConfirms(i) \/ WorkerLosesAnswer(i) \/ WorkerFails(i)
  BY DEF Worker
<1> DEFINE x == pending[i].item
<1>2. /\ UNCHANGED <<modem, arrived, dropped>>
      /\ delivered' \in {delivered, delivered \union Accepted(x)}
  BY <1>1 DEF WorkerConfirms, WorkerLosesAnswer, WorkerFails, history
<1>3. UNCHANGED <<Received, Stored>>
  BY <1>2 DEF Received, Stored
<1>4. CASE x.kind # "Sms" \/ delivered' = delivered
  BY <1>2, <1>3, <1>4 DEF Accepted, mailboxVars
<1>5. CASE x.kind = "Sms" /\ delivered' = delivered \union {x.id}
  <2>1. x \in Items /\ i \in OutIndices
    BY <1>5, ReceiptType DEF OutIndices
  <2>2. x.id \in Messages /\ x.slots \in SUBSET Copies /\ Gathered(x.id, x.slots)
    BY <1>5, <2>1 DEF Items, OwnershipInv, OutInv
  <2> HIDE DEF x
  <2>3. Mailbox!Available(x.id)
    BY <2>2, GatheredAvailable
  <2>4. Mailbox!Forward(x.id)
    BY <1>2, <1>3, <1>5, <2>3 DEF Mailbox!Forward, Received, Stored
  <2> QED BY <2>2, <2>4 DEF Mailbox!Next
<1> QED BY <1>2, <1>4, <1>5 DEF Accepted

(* What is erased was settled. *)
LEMMA DeletionErases ==
  ASSUME SafetyInv, OwnershipInv, NEW d \in deletions, DeleteConsumedSlot(d)
  PROVE  Mailbox!Next \/ UNCHANGED mailboxVars
<1> DEFINE s == d.copy.slot
           p == d.copy.pdu
<1>1. UNCHANGED <<arrived, delivered, dropped>>
  BY DEF DeleteConsumedSlot, history
<1>2. \/ modem' = modem
      \/ modem[s] = p /\ modem' = [modem EXCEPT ![s] = Empty]
  BY DEF DeleteConsumedSlot, DeleteSlot, KeepChangedSlot, DeleteFails
<1>3. /\ modem \in [Slots -> Pdus \union {Empty}] /\ s \in Slots /\ p \in Pdus
      /\ MessageOf[p] \in delivered \union dropped
  BY DEF SafetyInv, TypeOK, Copies, OnlySettledDeleted, Settled
<1> HIDE DEF s, p
<1>4. Received' = Received
  BY <1>1 DEF Received
<1>5. CASE modem' = modem
  BY <1>1, <1>4, <1>5 DEF mailboxVars, Stored
<1>6. CASE modem[s] = p /\ modem' = [modem EXCEPT ![s] = Empty]
  <2>1. modem'[s] = Empty /\ \A t \in Slots : t # s => modem'[t] = modem[t]
    BY <1>3, <1>6
  <2>2. \A t \in Slots : modem[t] = p => t = s
    BY <1>3, <1>6, StorageAssumption DEF OwnershipInv, StorageInv
  <2>3. Stored' = Stored \ {p} /\ p \in Stored
    BY <1>3, <1>6, <2>1, <2>2, StorageAssumption DEF Stored
  <2>4. Mailbox!Erase(p)
    BY <1>1, <1>3, <1>4, <2>3 DEF Mailbox!Erase, Received, Stored
  <2> QED BY <1>3, <2>4 DEF Mailbox!Next
<1> QED BY <1>2, <1>5, <1>6

(* Every step is a step of the mailbox or unseen by it. *)
LEMMA MailboxStep ==
  ASSUME SafetyInv, OwnershipInv, [Next]_vars
  PROVE  Mailbox!Next \/ UNCHANGED mailboxVars
<1>0. TypeOK
  BY DEF SafetyInv
<1>1. CASE Network
  BY <1>0, <1>1, NetworkReceives
<1>2. CASE Worker
  BY <1>0, <1>2, WorkerForwards
<1>3. ASSUME NEW d \in deletions, DeleteConsumedSlot(d)
      PROVE  Mailbox!Next \/ UNCHANGED mailboxVars
  BY <1>3, DeletionErases
<1>4. CASE \/ \E p \in Pdus : PollDirect(p)
           \/ \E r \in reads : ReadSlot(r)
           \/ \E c \in batch : SweepEntry(c)
  <2>1. DropsComplete
    BY <1>0, <1>4, DirectApart, ReadApart, EntryApart
  <2>2. UNCHANGED <<modem, arrived, delivered>>
    BY <1>4 DEF PollDirect, ReadSlot, SweepEntry
  <2> QED BY <2>1, <2>2, DropDiscards
<1>5. ASSUME UNCHANGED <<modem, arrived, delivered, dropped>>
      PROVE  UNCHANGED mailboxVars
  BY <1>5 DEF mailboxVars, Received, Stored
<1>6. CASE \/ \E i \in DOMAIN pending : ProcessReceipt(i)
           \/ EndReceipts \/ NoDeletionDue \/ AutoResume \/ NoAutoResume
           \/ \E s \in Slots : PollCmti(s)
           \/ \E c \in Calls : PollCall(c)
           \/ EndUrcs
           \/ \E r \in reads : ReadSlotFails(r)
           \/ NoReadDue
           \/ \E listed \in SUBSET StoredIn(MESlots) : ScanStorage(listed)
           \/ NoScan \/ ReadSweepBatch \/ NoBatch \/ EndBatch
           \/ DispatchCommand \/ NoCommand \/ PumpNotification \/ EndPass
           \/ Reboot
           \/ UNCHANGED vars
  <2>1. UNCHANGED <<modem, arrived, delivered, dropped>>
    BY <1>6 DEF history, vars, ProcessReceipt, EndReceipts, NoDeletionDue, AutoResume,
       NoAutoResume, PollCmti, PollCall, EndUrcs, ReadSlotFails, NoReadDue, ScanStorage,
       NoScan, ReadSweepBatch, ReadBatch, NoBatch, EndBatch, DispatchCommand, NoCommand,
       PumpNotification, EndPass, Reboot
  <2> QED BY <1>5, <2>1
<1> QED BY <1>1, <1>2, <1>3, <1>4, <1>6 DEF Next, MainLoop

(* Forwarding implements the mailbox, for any number of PDUs, slots and      *)
(* queue limits: a message is accepted or dropped only when all of its parts *)
(* have arrived and are stored (if it is one that is stored), and a part is  *)
(* erased only after its message was accepted or dropped.                    *)
THEOREM ForwardingIsMailbox == Spec => MailboxSpec
<1>1. Init => Mailbox!Init
  <2> SUFFICES ASSUME Init PROVE Mailbox!Init
    OBVIOUS
  <2>1. /\ arrived = {} /\ delivered = {} /\ dropped = {}
        /\ \A s \in Slots : modem[s] = Empty
    BY DEF Init
  <2>2. {p \in Pdus : \E s \in Slots : modem[s] = p} = {}
    BY <2>1, StorageAssumption
  <2> QED BY <2>1, <2>2 DEF Mailbox!Init
<1>2. SafetyInv /\ OwnershipInv /\ [Next]_vars => [Mailbox!Next]_(Mailbox!mailbox)
  BY MailboxStep DEF Mailbox!mailbox, mailboxVars, Received, Stored
<1> QED BY <1>1, <1>2, SafetyCorrect, OwnershipAlways, PTL
     DEF Spec, MailboxSpec, Mailbox!Spec
=============================================================================
