--------------------------- MODULE SmsForwarding ---------------------------
(***************************************************************************)
(* The path of a received SMS through the gateway: modem storage, +CMTI    *)
(* reads and ME sweeps, reassembly, the ready queue, the outbound Telegram *)
(* worker, its receipts, and the verified deletion of the modem's copy.    *)
(*                                                                         *)
(* One pass of the main loop runs the phases below in this order; the      *)
(* modem (arrivals), the Telegram worker thread, the operator's commands   *)
(* and a reset interleave with them:                                       *)
(*   receipts, delete, resume, urc, read, scan, batch, entries, command,   *)
(*   pump, and receipts again.                                             *)
(*                                                                         *)
(* Abstractions.  A PDU stands for its text and for the fingerprint taken  *)
(* of it, a slot for its bank and index.  Clocks are choices: an entry     *)
(* whose retry_after is set may or may not be due.  RAM queues scanned     *)
(* from the front for the first due entry (reads, deletions, the sweep)    *)
(* are sets, the ready queue keeps its order.                              *)
(***************************************************************************)
EXTENDS Integers, Sequences, FiniteSets, SequencesExt

CONSTANTS
  Pdus,           \* the PDUs the network sends, each once
  Messages,       \* the messages they are parts of
  MessageOf,      \* [Pdus -> Messages]
  Direct,         \* the messages the modem delivers with +CMT, never stored
  Unparsable,     \* the PDUs parse_sms_pdu rejects
  Expirable,      \* the messages whose concat group may expire or be evicted
  Calls,          \* the incoming calls, each once
  MESlots,        \* indices of the modem's own storage, swept
  SMSlots,        \* indices of the SIM's storage, never swept
  Empty,          \* an unused storage slot
  Notice,         \* the identity of every operational text
  MaxReady,       \* MAX_READY_NOTIFICATIONS
  MaxPending,     \* MAX_PENDING_NOTIFICATIONS
  MaxDeletions,   \* MAX_PENDING_DELETIONS
  MaxReads,       \* MAX_PENDING_SMS_READS
  MaxAttempts,    \* reads of an ME slot before its +CMTI is given up
  BatchSize,      \* SMS_SWEEP_BATCH_SIZE
  Commands        \* the operator commands that occur

ASSUME MessagesAssumption ==
  /\ MessageOf \in [Pdus -> Messages]
  /\ Direct \subseteq Messages
  /\ Unparsable \subseteq Pdus
  /\ Expirable \subseteq Messages
  /\ Notice \notin Messages \union Calls
  /\ Calls \intersect (Messages \union Pdus) = {}

ASSUME StorageAssumption ==
  /\ MESlots \intersect SMSlots = {}
  /\ Empty \notin Pdus

ASSUME BoundsAssumption ==
  /\ {MaxReady, MaxPending, MaxDeletions, MaxReads, MaxAttempts, BatchSize}
       \subseteq Nat \ {0}
  /\ Commands \subseteq {"pause", "resume", "block", "unblock", "at"}

Slots == MESlots \union SMSlots

PartsOf(m) == {p \in Pdus : MessageOf[p] = m}

(* What the firmware remembers of a stored PDU: StorageSlot. *)
Copies == [slot : Slots, pdu : Pdus]

(* DeferredNotification.  Only an Sms prepared from storage has slots. *)
Items ==
  [kind : {"Sms"}, id : Messages, slots : SUBSET Copies]
    \union [kind : {"Call"}, id : Calls, slots : {{}}]
    \union [kind : {"Plain"}, id : {Notice}, slots : {{}}]

Phases == {"receipts", "delete", "resume", "urc", "read", "scan", "batch",
           "entries", "command", "pump"}

Urcs == [code : {"CMTI"}, of : Slots] \union [code : {"CMT"}, of : Pdus]
          \union [code : {"RING"}, of : Calls]

VARIABLES
  phase,        \* where the main loop is in its pass
  modem,        \* modem storage: [Slots -> Pdus \union {Empty}]
  arrived,      \* PDUs and calls the network has delivered so far
  urcs,         \* notifications in the UART buffer
  reads,        \* pending_sms_reads
  sweep,        \* pending_sweep_indices
  batch,        \* entries read by the sweep, not yet handled
  ready,        \* ready_notifications
  pending,      \* pending_notifications with the state of their receipts
  deletions,    \* pending_deletions
  consumed,     \* consumed_slots of this pass
  concat,       \* parts held by the ConcatReassembler
  fwd,          \* the store's FWD_ENABLED
  blocked,      \* messages whose sender is in the store's BLOCK_LIST
  timer,        \* whether pause_until is set
  delivered,    \* history: messages Telegram accepted
  dropped,      \* history: messages dropped because paused or blocked
  unconfirmed   \* history: accepted messages whose confirmation was lost

history == <<delivered, dropped, unconfirmed>>
store == <<fwd, blocked>>
vars == <<phase, modem, arrived, urcs, reads, sweep, batch, ready, pending,
          deletions, consumed, concat, fwd, blocked, timer, delivered, dropped,
          unconfirmed>>

-----------------------------------------------------------------------------
(* The ready queue. *)

PlainIndices(q) == {i \in DOMAIN q : q[i].kind = "Plain"}

StoredIndices(q) == {i \in DOMAIN q : q[i].kind = "Sms" /\ q[i].slots # {}}

(* Mutant of HasRoom: the limit compared with <=. *)
HasRoomOffByOne(q) == Len(q) <= MaxReady

HasRoom(q) == Len(q) < MaxReady

(* Make room for a message by dropping the last operational text. *)
ReserveCritical(q) ==
  IF ~HasRoom(q) /\ PlainIndices(q) # {}
  THEN RemoveAt(q, Max(PlainIndices(q)))
  ELSE q

(* Mutant of ReserveEphemeral: whatever is last makes room. *)
DropsLast(q) == IF HasRoom(q) THEN q ELSE RemoveAt(q, Len(q))

(* A call or a direct SMS may also displace a stored SMS, which the sweep    *)
(* will find again.                                                          *)
ReserveEphemeral(q) ==
  LET critical == ReserveCritical(q)
  IN  IF ~HasRoom(critical) /\ StoredIndices(critical) # {}
      THEN RemoveAt(critical, Max(StoredIndices(critical)))
      ELSE critical

QueuePlain(q) ==
  IF HasRoom(q)
  THEN Append(q, [kind |-> "Plain", id |-> Notice, slots |-> {}])
  ELSE q

(* Mutant of QueueSms: messages go to the back of the queue. *)
QueueSmsLast(q, m, slots) ==
  Append(q, [kind |-> "Sms", id |-> m, slots |-> slots])

(* Messages go before the operational texts. *)
QueueSms(q, m, slots) ==
  InsertAt(q,
           IF PlainIndices(q) = {} THEN Len(q) + 1 ELSE Min(PlainIndices(q)),
           [kind |-> "Sms", id |-> m, slots |-> slots])

(* Mutant of NotificationSlotInFlight: only the ready queue is searched. *)
ReadySlotOnly(s) == \E i \in DOMAIN ready : \E c \in ready[i].slots : c.slot = s

NotificationSlotInFlight(s) ==
  \/ \E i \in DOMAIN ready : \E c \in ready[i].slots : c.slot = s
  \/ \E i \in DOMAIN pending : \E c \in pending[i].item.slots : c.slot = s

(* Mutant of DeletionSlotPending: a deletion backing off is overlooked. *)
DeletionSlotDue(s) == \E d \in deletions : d.copy.slot = s /\ ~d.retry

DeletionSlotPending(s) == \E d \in deletions : d.copy.slot = s

PendingDeletions(slots) == [copy : slots, retry : {FALSE}]

-----------------------------------------------------------------------------
(* Preparing a PDU for Telegram: reassembly, then the intentional drop or    *)
(* the ready queue q, in which a place has been reserved.                    *)

QueuePrepared(m, slots, q) ==
  IF ~fwd \/ m \in blocked
  THEN /\ dropped' = dropped \union {m}
       /\ deletions' = deletions \union PendingDeletions(slots)
       /\ ready' = q
  ELSE /\ ready' = QueueSms(q, m, slots)
       /\ UNCHANGED <<dropped, deletions>>

Retain(q) == ready' = q /\ UNCHANGED <<deletions, dropped>>

(* Mutant of FeedPart: one missing part is taken for none. *)
FeedPartTooFew(p, slots, q) ==
  LET live  == concat \union {[pdu |-> p, slots |-> slots]}
      group == {g \in live : MessageOf[g.pdu] = MessageOf[p]}
  IN  IF Cardinality(group) >= Cardinality(PartsOf(MessageOf[p])) - 1
      THEN /\ concat' = live \ group
           /\ QueuePrepared(MessageOf[p], UNION {g.slots : g \in group}, q)
      ELSE /\ concat' = live
           /\ Retain(q)

(* One part of a longer message: the group completes, or waits for more. *)
FeedPart(p, slots, q) ==
  \E expired \in SUBSET Expirable :
    LET live  == {g \in concat : MessageOf[g.pdu] \notin expired}
                   \union {[pdu |-> p, slots |-> slots]}
        group == {g \in live : MessageOf[g.pdu] = MessageOf[p]}
    IN  IF {g.pdu : g \in group} = PartsOf(MessageOf[p])
        THEN /\ concat' = live \ group
             /\ QueuePrepared(MessageOf[p], UNION {g.slots : g \in group}, q)
        ELSE /\ concat' = live
             /\ Retain(q)

Prepare(p, slots, q) ==
  CASE p \in Unparsable -> Retain(q) /\ UNCHANGED concat
    [] p \notin Unparsable /\ PartsOf(MessageOf[p]) = {p} ->
         QueuePrepared(MessageOf[p], slots, q) /\ UNCHANGED concat
    [] OTHER -> FeedPart(p, slots, q)

-----------------------------------------------------------------------------
(* The network and the modem. *)

(* An SMS is stored; its +CMTI may be lost in the UART buffer. *)
StoreSms(p, s) ==
  /\ p \notin arrived
  /\ MessageOf[p] \notin Direct
  /\ modem[s] = Empty
  /\ arrived' = arrived \union {p}
  /\ modem' = [modem EXCEPT ![s] = p]
  /\ urcs' \in {urcs, urcs \union {[code |-> "CMTI", of |-> s]}}
  /\ UNCHANGED <<phase, reads, sweep, batch, ready, pending, deletions,
                 consumed, concat, store, timer, history>>

DirectSms(p) ==
  /\ p \notin arrived
  /\ MessageOf[p] \in Direct
  /\ arrived' = arrived \union {p}
  /\ urcs' = urcs \union {[code |-> "CMT", of |-> p]}
  /\ UNCHANGED <<phase, modem, reads, sweep, batch, ready, pending, deletions,
                 consumed, concat, store, timer, history>>

IncomingCall(c) ==
  /\ c \notin arrived
  /\ arrived' = arrived \union {c}
  /\ urcs' = urcs \union {[code |-> "RING", of |-> c]}
  /\ UNCHANGED <<phase, modem, reads, sweep, batch, ready, pending, deletions,
                 consumed, concat, store, timer, history>>

-----------------------------------------------------------------------------
(* The outbound worker thread and its receipts. *)

Accepted(item) == IF item.kind = "Sms" THEN {item.id} ELSE {}

(* Telegram accepts the message and the receipt says so. *)
WorkerConfirms(i) ==
  /\ pending[i].receipt = "none"
  /\ pending' = [pending EXCEPT ![i].receipt = "ok"]
  /\ delivered' = delivered \union Accepted(pending[i].item)
  /\ UNCHANGED <<phase, modem, arrived, urcs, reads, sweep, batch, ready,
                 deletions, consumed, concat, store, timer, dropped, unconfirmed>>

(* OutcomeUnknown: Telegram may have accepted what the receipt calls failed. *)
WorkerLosesAnswer(i) ==
  /\ pending[i].receipt = "none"
  /\ pending' = [pending EXCEPT ![i].receipt = "failed"]
  /\ delivered' = delivered \union Accepted(pending[i].item)
  /\ unconfirmed' = unconfirmed \union Accepted(pending[i].item)
  /\ UNCHANGED <<phase, modem, arrived, urcs, reads, sweep, batch, ready,
                 deletions, consumed, concat, store, timer, dropped>>

WorkerFails(i) ==
  /\ pending[i].receipt = "none"
  /\ pending' = [pending EXCEPT ![i].receipt = "failed"]
  /\ UNCHANGED <<phase, modem, arrived, urcs, reads, sweep, batch, ready,
                 deletions, consumed, concat, store, timer, history>>

-----------------------------------------------------------------------------
(* One pass of the main loop. *)

(* Mutant of ProcessReceipt: a failed send releases its slots too. *)
ProcessAnyReceipt(i) ==
  /\ phase = "receipts"
  /\ pending[i].receipt # "none"
  /\ pending' = RemoveAt(pending, i)
  /\ deletions' = deletions \union PendingDeletions(pending[i].item.slots)
  /\ UNCHANGED <<phase, modem, arrived, urcs, reads, sweep, batch, ready,
                 consumed, concat, store, timer, history>>

(* A receipt: a delivered SMS releases its slots, a failed one forgets them. *)
ProcessReceipt(i) ==
  /\ phase = "receipts"
  /\ pending[i].receipt # "none"
  /\ pending' = RemoveAt(pending, i)
  /\ deletions' = IF pending[i].receipt = "ok"
                  THEN deletions \union PendingDeletions(pending[i].item.slots)
                  ELSE deletions
  /\ UNCHANGED <<phase, modem, arrived, urcs, reads, sweep, batch, ready,
                 consumed, concat, store, timer, history>>

EndReceipts ==
  /\ phase = "receipts"
  /\ \A i \in DOMAIN pending : pending[i].receipt = "none"
  /\ phase' = "delete"
  /\ UNCHANGED <<modem, arrived, urcs, reads, sweep, batch, ready, pending,
                 deletions, consumed, concat, store, timer, history>>

(* Mutant of DeleteSlot: AT+CMGD without reading the slot back. *)
DeleteUnverified(d) ==
  /\ modem' = [modem EXCEPT ![d.copy.slot] = Empty]
  /\ \/ /\ deletions' = deletions \ {d}
        /\ consumed' = consumed \union {d.copy}
     \/ /\ deletions' = (deletions \ {d}) \union {[d EXCEPT !.retry = TRUE]}
        /\ UNCHANGED consumed

(* delete_verified_sms_slot read the expected PDU back and issues AT+CMGD,   *)
(* whose OK may be lost after the modem has executed it.                     *)
DeleteSlot(d) ==
  /\ modem[d.copy.slot] = d.copy.pdu
  /\ modem' = [modem EXCEPT ![d.copy.slot] = Empty]
  /\ \/ /\ deletions' = deletions \ {d}
        /\ consumed' = consumed \union {d.copy}
     \/ /\ deletions' = (deletions \ {d}) \union {[d EXCEPT !.retry = TRUE]}
        /\ UNCHANGED consumed

(* The slot holds another message by now: SlotChanged. *)
KeepChangedSlot(d) ==
  /\ modem[d.copy.slot] \notin {Empty, d.copy.pdu}
  /\ deletions' = deletions \ {d}
  /\ consumed' = consumed \union {d.copy}
  /\ UNCHANGED modem

(* The read back or AT+CMGD failed, or the slot is empty. *)
DeleteFails(d) ==
  /\ deletions' = (deletions \ {d}) \union {[d EXCEPT !.retry = TRUE]}
  /\ UNCHANGED <<modem, consumed>>

DeleteConsumedSlot(d) ==
  /\ phase = "delete"
  /\ DeleteSlot(d) \/ KeepChangedSlot(d) \/ DeleteFails(d)
  /\ phase' = "resume"
  /\ UNCHANGED <<arrived, urcs, reads, sweep, batch, ready, pending, concat,
                 store, timer, history>>

NoDeletionDue ==
  /\ phase = "delete"
  /\ deletions = {} \/ \E d \in deletions : d.retry
  /\ phase' = "resume"
  /\ UNCHANGED <<modem, arrived, urcs, reads, sweep, batch, ready, pending,
                 deletions, consumed, concat, store, timer, history>>

(* The pause expires; the result of the store write is ignored. *)
AutoResume ==
  /\ phase = "resume"
  /\ timer
  /\ timer' = FALSE
  /\ fwd' \in {TRUE, fwd}
  /\ ready' = QueuePlain(ready)
  /\ phase' = "urc"
  /\ UNCHANGED <<modem, arrived, urcs, reads, sweep, batch, pending, deletions,
                 consumed, concat, blocked, history>>

NoAutoResume ==
  /\ phase = "resume"
  /\ phase' = "urc"
  /\ UNCHANGED <<modem, arrived, urcs, reads, sweep, batch, ready, pending,
                 deletions, consumed, concat, store, timer, history>>

NewRead(s) == [slot |-> s, attempts |-> 0, retry |-> FALSE]

(* When the read queue is full an SM notification displaces an ME one. *)
DisplacedReads(s) ==
  LET displaceable == {r \in reads : r.slot \in MESlots}
  IN  IF Cardinality(reads) >= MaxReads /\ s \in SMSlots /\ displaceable # {}
      THEN {reads \ {r} : r \in displaceable}
      ELSE {reads}

PollCmti(s) ==
  /\ phase = "urc"
  /\ [code |-> "CMTI", of |-> s] \in urcs
  /\ urcs' = urcs \ {[code |-> "CMTI", of |-> s]}
  /\ IF \E r \in reads : r.slot = s
     THEN UNCHANGED reads
     ELSE \E kept \in DisplacedReads(s) :
            reads' = IF Cardinality(kept) < MaxReads
                     THEN kept \union {NewRead(s)}
                     ELSE kept
  /\ UNCHANGED <<phase, modem, arrived, sweep, batch, ready, pending, deletions,
                 consumed, concat, store, timer, history>>

(* A call notification goes to the front of the queue, or is lost. *)
PollCall(c) ==
  /\ phase = "urc"
  /\ [code |-> "RING", of |-> c] \in urcs
  /\ urcs' = urcs \ {[code |-> "RING", of |-> c]}
  /\ LET q == ReserveEphemeral(ready)
     IN  ready' = IF HasRoom(q)
                  THEN <<[kind |-> "Call", id |-> c, slots |-> {}]>> \o q
                  ELSE q
  /\ UNCHANGED <<phase, modem, arrived, reads, sweep, batch, pending, deletions,
                 consumed, concat, store, timer, history>>

(* A direct PDU has no copy in the modem: without a place it is lost. *)
PollDirect(p) ==
  /\ phase = "urc"
  /\ [code |-> "CMT", of |-> p] \in urcs
  /\ urcs' = urcs \ {[code |-> "CMT", of |-> p]}
  /\ LET q == ReserveEphemeral(ready)
     IN  IF HasRoom(q)
         THEN Prepare(p, {}, q)
         ELSE ready' = q /\ UNCHANGED <<deletions, concat, dropped>>
  /\ UNCHANGED <<phase, modem, arrived, reads, sweep, batch, pending, consumed,
                 store, timer, delivered, unconfirmed>>

EndUrcs ==
  /\ phase = "urc"
  /\ urcs = {}
  /\ phase' = "read"
  /\ UNCHANGED <<modem, arrived, urcs, reads, sweep, batch, ready, pending,
                 deletions, consumed, concat, store, timer, history>>

(* What a successful read of a stored PDU leads to.  A slot already being    *)
(* delivered or deleted is skipped; without a place the read is forgotten.   *)
ReadSlot(r) ==
  /\ phase = "read"
  /\ modem[r.slot] # Empty
  /\ reads' = reads \ {r}
  /\ phase' = "scan"
  /\ LET q == ReserveCritical(ready)
     IN  IF NotificationSlotInFlight(r.slot) \/ DeletionSlotPending(r.slot)
         THEN UNCHANGED <<ready, deletions, concat, dropped>>
         ELSE IF HasRoom(q)
              THEN Prepare(modem[r.slot],
                           {[slot |-> r.slot, pdu |-> modem[r.slot]]}, q)
              ELSE ready' = q /\ UNCHANGED <<deletions, concat, dropped>>
  /\ UNCHANGED <<modem, arrived, urcs, sweep, batch, pending, consumed, store,
                 timer, delivered, unconfirmed>>

(* The read failed: retried later, an ME slot only MaxAttempts times. *)
ReadSlotFails(r) ==
  /\ phase = "read"
  /\ LET failed == [r EXCEPT !.attempts = IF @ < MaxAttempts THEN @ + 1 ELSE @,
                             !.retry = TRUE]
     IN  reads' = (reads \ {r})
                    \union (IF failed.attempts < MaxAttempts \/ r.slot \in SMSlots
                            THEN {failed} ELSE {})
  /\ phase' = "scan"
  /\ UNCHANGED <<modem, arrived, urcs, sweep, batch, ready, pending, deletions,
                 consumed, concat, store, timer, history>>

NoReadDue ==
  /\ phase = "read"
  /\ \A r \in reads : r.retry
  /\ phase' = "scan"
  /\ UNCHANGED <<modem, arrived, urcs, reads, sweep, batch, ready, pending,
                 deletions, consumed, concat, store, timer, history>>

(* Mutant of StoredIn: the bank's last slot is not listed. *)
StoredExceptLast(bank) == {s \in bank : modem[s] # Empty /\ \E t \in bank : t > s}

StoredIn(bank) == {s \in bank : modem[s] # Empty}

(* The periodic AT+CMGL: a complete listing also retires the deletions whose *)
(* ME slot is gone; malformed lines hide slots and keep every deletion.      *)
ScanStorage(listed) ==
  /\ phase = "scan"
  /\ sweep = {}
  /\ sweep' = listed
  /\ deletions' = IF listed = StoredIn(MESlots)
                  THEN {d \in deletions : d.copy.slot \in SMSlots \union listed}
                  ELSE deletions
  /\ phase' = "batch"
  /\ UNCHANGED <<modem, arrived, urcs, reads, batch, ready, pending, consumed,
                 concat, store, timer, history>>

(* Not due, or the listing failed. *)
NoScan ==
  /\ phase = "scan"
  /\ phase' = "batch"
  /\ UNCHANGED <<modem, arrived, urcs, reads, sweep, batch, ready, pending,
                 deletions, consumed, concat, store, timer, history>>

BatchesOf(S) ==
  {b \in SUBSET S :
     Cardinality(b) = IF Cardinality(S) < BatchSize THEN Cardinality(S) ELSE BatchSize}

(* Mutant of ReadBatch: the read of a slot emptied meanwhile is believed. *)
ReadBatchOfAnything(indices, readable) ==
  /\ phase = "batch"
  /\ sweep # {}
  /\ HasRoom(ready) \/ PlainIndices(ready) # {}
  /\ sweep' = sweep \ indices
  /\ batch' = {[slot |-> s, pdu |-> modem[s]] : s \in indices}
  /\ phase' = "entries"
  /\ UNCHANGED <<modem, arrived, urcs, reads, ready, pending, deletions,
                 consumed, concat, store, timer, history>>

(* A bounded batch leaves the sweep; single reads in it may fail. *)
ReadBatch(indices, readable) ==
  /\ phase = "batch"
  /\ sweep # {}
  /\ HasRoom(ready) \/ PlainIndices(ready) # {}
  /\ sweep' = sweep \ indices
  /\ batch' = {[slot |-> s, pdu |-> modem[s]] : s \in readable}
  /\ phase' = "entries"
  /\ UNCHANGED <<modem, arrived, urcs, reads, ready, pending, deletions,
                 consumed, concat, store, timer, history>>

(* Nothing to read, backing off, or the batch failed and is put back. *)
NoBatch ==
  /\ phase = "batch"
  /\ phase' = "command"
  /\ UNCHANGED <<modem, arrived, urcs, reads, sweep, batch, ready, pending,
                 deletions, consumed, concat, store, timer, history>>

(* An entry of the batch; without a place its index returns to the sweep. *)
SweepEntry(c) ==
  /\ phase = "entries"
  /\ batch' = batch \ {c}
  /\ LET q == ReserveCritical(ready)
     IN  IF \/ c \in consumed
            \/ DeletionSlotPending(c.slot)
            \/ NotificationSlotInFlight(c.slot)
         THEN UNCHANGED <<ready, deletions, concat, dropped, sweep>>
         ELSE IF HasRoom(q)
              THEN Prepare(c.pdu, {c}, q) /\ UNCHANGED sweep
              ELSE /\ ready' = q
                   /\ sweep' = sweep \union {c.slot}
                   /\ UNCHANGED <<deletions, concat, dropped>>
  /\ UNCHANGED <<phase, modem, arrived, urcs, reads, pending, consumed, store,
                 timer, delivered, unconfirmed>>

EndBatch ==
  /\ phase = "entries"
  /\ batch = {}
  /\ phase' = "command"
  /\ UNCHANGED <<modem, arrived, urcs, reads, sweep, batch, ready, pending,
                 deletions, consumed, concat, store, timer, history>>

(* Operator commands that reach the store or the ready queue. *)
Pause == fwd' = FALSE /\ timer' = TRUE /\ UNCHANGED <<blocked, ready>>

Resume == fwd' = TRUE /\ UNCHANGED <<blocked, timer, ready>>

Block(m) == blocked' = blocked \union {m} /\ UNCHANGED <<fwd, timer, ready>>

Unblock(m) == blocked' = blocked \ {m} /\ UNCHANGED <<fwd, timer, ready>>

AtReply == ready' = QueuePlain(ready) /\ UNCHANGED <<fwd, blocked, timer>>

DispatchCommand ==
  /\ phase = "command"
  /\ \/ "pause" \in Commands /\ Pause
     \/ "resume" \in Commands /\ Resume
     \/ "block" \in Commands /\ \E m \in Messages : Block(m)
     \/ "unblock" \in Commands /\ \E m \in blocked : Unblock(m)
     \/ "at" \in Commands /\ AtReply
  /\ phase' = "pump"
  /\ UNCHANGED <<modem, arrived, urcs, reads, sweep, batch, pending, deletions,
                 consumed, concat, history>>

NoCommand ==
  /\ phase = "command"
  /\ phase' = "pump"
  /\ UNCHANGED <<modem, arrived, urcs, reads, sweep, batch, ready, pending,
                 deletions, consumed, concat, store, timer, history>>

(* The next notification to hand over: with too many deletions outstanding   *)
(* the first that is not an SMS.                                             *)
Pumpable ==
  IF Cardinality(deletions) >= MaxDeletions
  THEN {i \in DOMAIN ready : ready[i].kind # "Sms"}
  ELSE DOMAIN ready

PumpNotification ==
  /\ phase = "pump"
  /\ Len(pending) < MaxPending
  /\ Pumpable # {}
  /\ LET next == Min(Pumpable)
     IN  /\ ready' = RemoveAt(ready, next)
         /\ pending' = Append(pending, [item |-> ready[next], receipt |-> "none"])
  /\ UNCHANGED <<phase, modem, arrived, urcs, reads, sweep, batch, deletions,
                 consumed, concat, store, timer, history>>

(* Nothing to hand over, WiFi down, or the worker's queue full. *)
EndPass ==
  /\ phase = "pump"
  /\ phase' = "receipts"
  /\ consumed' = {}
  /\ UNCHANGED <<modem, arrived, urcs, reads, sweep, batch, ready, pending,
                 deletions, concat, store, timer, history>>

(* A reset of the ESP32 at any point: watchdogs, /restart, power loss.  RAM  *)
(* is lost; boot re-enables forwarding if the store lets it, sweeps ME and   *)
(* queues the startup text.                                                  *)
Reboot ==
  /\ phase' = "receipts"
  /\ sweep' \in SUBSET StoredIn(MESlots)
  /\ ready' = QueuePlain(<<>>)
  /\ pending' = <<>>
  /\ fwd' \in {TRUE, fwd}
  /\ urcs' = {} /\ reads' = {} /\ batch' = {} /\ deletions' = {}
  /\ consumed' = {} /\ concat' = {}
  /\ timer' = FALSE
  /\ unconfirmed' = delivered
  /\ UNCHANGED <<modem, arrived, blocked, delivered, dropped>>

-----------------------------------------------------------------------------

Init ==
  /\ phase = "receipts"
  /\ modem = [s \in Slots |-> Empty]
  /\ ready = QueuePlain(<<>>)
  /\ pending = <<>>
  /\ fwd = TRUE
  /\ timer = FALSE
  /\ arrived = {} /\ urcs = {} /\ reads = {} /\ sweep = {} /\ batch = {}
  /\ deletions = {} /\ consumed = {} /\ concat = {} /\ blocked = {}
  /\ delivered = {} /\ dropped = {} /\ unconfirmed = {}

Network ==
  \/ \E p \in Pdus, s \in Slots : StoreSms(p, s)
  \/ \E p \in Pdus : DirectSms(p)
  \/ \E c \in Calls : IncomingCall(c)

Worker ==
  \E i \in DOMAIN pending :
    WorkerConfirms(i) \/ WorkerLosesAnswer(i) \/ WorkerFails(i)

ReadSweepBatch ==
  \E indices \in BatchesOf(sweep) :
    \E readable \in SUBSET {s \in indices : modem[s] # Empty} :
      ReadBatch(indices, readable)

MainLoop ==
  \/ \E i \in DOMAIN pending : ProcessReceipt(i)
  \/ EndReceipts
  \/ \E d \in deletions : DeleteConsumedSlot(d)
  \/ NoDeletionDue
  \/ AutoResume \/ NoAutoResume
  \/ \E s \in Slots : PollCmti(s)
  \/ \E c \in Calls : PollCall(c)
  \/ \E p \in Pdus : PollDirect(p)
  \/ EndUrcs
  \/ \E r \in reads : ReadSlot(r) \/ ReadSlotFails(r)
  \/ NoReadDue
  \/ \E listed \in SUBSET StoredIn(MESlots) : ScanStorage(listed)
  \/ NoScan
  \/ ReadSweepBatch \/ NoBatch
  \/ \E c \in batch : SweepEntry(c)
  \/ EndBatch
  \/ DispatchCommand \/ NoCommand
  \/ PumpNotification \/ EndPass

Next == Network \/ Worker \/ MainLoop \/ Reboot

Spec == Init /\ [][Next]_vars
-----------------------------------------------------------------------------
(* Fairness.  The main loop never blocks for good (its waits are bounded and *)
(* the task watchdog resets it), each pass polls at most 64 notifications,   *)
(* and a request, listing, batch, single read or deletion that is retried    *)
(* for ever works again and again.  Resets eventually stop.                  *)

ScanEverything == ScanStorage(StoredIn(MESlots))

SweepReads(s) ==
  \E indices \in BatchesOf(sweep) :
    \E readable \in SUBSET {r \in indices : modem[r] # Empty} :
      s \in readable /\ ReadBatch(indices, readable)

WorkerDelivers == \E i \in DOMAIN pending : WorkerConfirms(i)

DeletionWorks ==
  \E d \in deletions : /\ DeleteConsumedSlot(d)
                       /\ deletions' = deletions \ {d}

Fairness ==
  /\ WF_vars(MainLoop)
  /\ SF_vars(EndUrcs)
  /\ SF_vars(ScanEverything)
  /\ SF_vars(ReadSweepBatch)
  /\ \A s \in MESlots : SF_vars(SweepReads(s))
  /\ SF_vars(PumpNotification)
  /\ SF_vars(WorkerDelivers)
  /\ SF_vars(DeletionWorks)
  /\ <>[][~Reboot]_vars

FairSpec == Spec /\ Fairness

-----------------------------------------------------------------------------
(* Correctness. *)

InFlight ==
  {ready[i] : i \in DOMAIN ready} \union {pending[i].item : i \in DOMAIN pending}

Settled == delivered \union dropped

(* Every queue, slot and history holds values of its kind. *)
TypeOK ==
  /\ phase \in Phases
  /\ modem \in [Slots -> Pdus \union {Empty}]
  /\ arrived \subseteq Pdus \union Calls
  /\ urcs \subseteq Urcs
  /\ reads \subseteq [slot : Slots, attempts : 0 .. MaxAttempts, retry : BOOLEAN]
  /\ sweep \subseteq MESlots
  /\ batch \subseteq [slot : MESlots, pdu : Pdus]
  /\ ready \in Seq(Items)
  /\ pending \in Seq([item : Items, receipt : {"none", "ok", "failed"}])
  /\ deletions \subseteq [copy : Copies, retry : BOOLEAN]
  /\ consumed \subseteq Copies
  /\ concat \subseteq [pdu : Pdus, slots : SUBSET Copies]
  /\ fwd \in BOOLEAN
  /\ timer \in BOOLEAN
  /\ blocked \subseteq Messages
  /\ delivered \subseteq Messages
  /\ dropped \subseteq Messages
  /\ unconfirmed \subseteq Messages

(* A stored SMS is never lost: once it has arrived, each of its PDUs is      *)
(* still in the modem unless Telegram has accepted the whole message or it   *)
(* was dropped on purpose, across failed and ambiguous sends, lost CMGD      *)
(* answers, reused slots, evictions and resets.                              *)
NoLoss ==
  \A p \in arrived \intersect Pdus :
    \/ MessageOf[p] \in Direct \union Settled
    \/ \E s \in Slots : modem[s] = p

(* The main loop never sends a text whose stored copy is gone, and never     *)
(* assembles one from a slot that holds something else by now.               *)
InFlightBacked ==
  /\ \A item \in InFlight : \A c \in item.slots :
       modem[c.slot] = c.pdu /\ MessageOf[c.pdu] = item.id
  /\ \A g \in concat : \A c \in g.slots :
       modem[c.slot] = c.pdu /\ c.pdu = g.pdu

(* A slot has one owner: at most one queued or in-flight notification, or    *)
(* one pending deletion, so no message is forwarded twice or deleted while   *)
(* it waits (notification_slot_in_flight, deletion_slot_pending).            *)
Claims(s) ==
  {<<"ready", i>> : i \in {i \in DOMAIN ready : \E c \in ready[i].slots : c.slot = s}}
    \union {<<"pending", i>> : i \in {i \in DOMAIN pending :
                                       \E c \in pending[i].item.slots : c.slot = s}}
    \union {<<"deletion", d>> : d \in {d \in deletions : d.copy.slot = s}}

OneClaimPerSlot == \A s \in Slots : Cardinality(Claims(s)) <= 1

(* The RAM queues and the modem's slots agree: what is queued, collected or  *)
(* out for sending is backed by the slots it names, and no slot is claimed   *)
(* by two of them or by a deletion at the same time.                         *)
SlotsOwned == InFlightBacked /\ OneClaimPerSlot

(* A message Telegram has accepted and confirmed is not queued again: the    *)
(* gateway repeats a message only after an ambiguous send or a reset.        *)
NoSpuriousDuplicate ==
  \A item \in {ready[i] : i \in DOMAIN ready}
                \union {pending[i].item : i \in {j \in DOMAIN pending :
                                                  pending[j].receipt = "none"}} :
    item.kind = "Sms" => item.id \notin delivered \ unconfirmed

(* The RAM queues respect their limits, whatever the mix of calls, direct    *)
(* and stored SMS, operational texts and evictions.                          *)
QueuesBounded ==
  /\ Len(ready) <= MaxReady
  /\ Len(pending) <= MaxPending
  /\ Cardinality(reads) <= MaxReads

(* Operational texts wait behind every call and SMS.                         *)
PlainLast ==
  \A i \in PlainIndices(ready) : \A j \in DOMAIN ready :
    j > i => ready[j].kind = "Plain"

(* Only a message Telegram has accepted, or one dropped on purpose, is queued *)
(* for deletion: never one whose send failed or is still out.                *)
OnlySettledDeleted == \A d \in deletions : MessageOf[d.copy.pdu] \in Settled

(* Forwarding implements the mailbox it promises to be: no message goes out   *)
(* before all of its parts are there, none is erased before it is settled.   *)
Mailbox ==
  INSTANCE SmsMailbox WITH
    received <- arrived \intersect Pdus,
    stored <- {p \in Pdus : \E s \in Slots : modem[s] = p},
    forwarded <- delivered,
    discarded <- dropped

MailboxSpec == Mailbox!Spec

Leaves(item) ==
  /\ item \in {ready[i] : i \in DOMAIN ready}
  /\ item \notin {ready[i] : i \in DOMAIN ready}'
  /\ item \notin {pending[i].item : i \in DOMAIN pending}'

(* A call or a direct SMS, which exists nowhere else, leaves the ready queue *)
(* only for the worker.  A stored SMS is put off only from a full queue with *)
(* no text left to drop, and only while a call or a direct SMS is taken from *)
(* the UART, even one that is then dropped: its place is reserved before it  *)
(* is prepared.  A reset alone may do otherwise.                             *)
UnrepeatableKept ==
  [][\A item \in {ready[i] : i \in DOMAIN ready} :
       Leaves(item) =>
         \/ Reboot
         \/ item.kind = "Plain"
         \/ /\ item.slots # {}
            /\ ~HasRoom(ready)
            /\ PlainIndices(ready) = {}
            /\ \E u \in urcs \ urcs' : u.code \in {"RING", "CMT"}]_vars

(* With as many deletions outstanding as the pump bears, no SMS is handed    *)
(* over.  The listing that retires those of vanished slots is one of ME: on  *)
(* the SIM they stay until their slots are filled again (main.rs 1456).      *)
HeldBackBySim ==
  Cardinality({d \in deletions : d.copy.slot \in SMSlots /\ modem[d.copy.slot] = Empty})
    >= MaxDeletions

(* A message wholly stored in ME is eventually forwarded, or dropped because *)
(* forwarding was paused or its sender blocked, even when its +CMTI was      *)
(* lost, its read displaced by one of the SIM, sends fail, texts are put off *)
(* and the firmware resets; unless deletions of vanished SIM slots hold all  *)
(* SMS back for good.                                                        *)
StoredInME(m) ==
  /\ m \notin Direct
  /\ \A p \in PartsOf(m) : p \notin Unparsable /\ \E s \in MESlots : modem[s] = p

StoredIsSettled ==
  []<>~HeldBackBySim => \A m \in Messages : StoredInME(m) ~> m \in Settled

-----------------------------------------------------------------------------
(* What the repository says and the code does not do. *)

(* The retry of a deletion whose slot has vanished is not kept for ever (the *)
(* comment in the periodic listing).  With the ready queue full of SMS, too   *)
(* many such deletions hold the SMS back, the SMS hold the sweep's batch     *)
(* back, and the unfinished sweep holds the listing back.                    *)
VanishedIsRetired ==
  \A s \in MESlots :
    (DeletionSlotPending(s) /\ modem[s] = Empty)
      ~> (~DeletionSlotPending(s) \/ modem[s] # Empty)
=============================================================================
