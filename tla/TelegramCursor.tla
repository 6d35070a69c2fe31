--------------------------- MODULE TelegramCursor ---------------------------
(***************************************************************************)
(* How the operator's messages reach the device and are carried out: the   *)
(* poll thread and its cursor (main.rs 466-619), the bounded channel to    *)
(* the main loop, the checkpoint of the cursor in NVS, the dispatch of one *)
(* update (main.rs 1593-1849, bridge/poller.rs), the outgoing SMS it may   *)
(* queue, and the resets that can fall between any two of these.           *)
(*                                                                         *)
(* Abstractions.  getUpdates asks for one update at a time                 *)
(* (GET_UPDATES_LIMIT), so a batch is an update or nothing.  Update ids    *)
(* are counted from 1, and a cursor n means that updates 1 .. n are        *)
(* passed: the code's cursor less one.  An update is one of: a /send, a    *)
(* reply to a forwarded SMS, /restart, /ota, or "plain", all that only     *)
(* answers, changes a setting, or is filtered out by its chat.             *)
(***************************************************************************)
EXTENDS SmsSender

CONSTANTS
  Inputs,         \* what the operator may send
  MaxPosts,       \* bound: updates the operator sends
  MaxCuts,        \* bound: power cuts, watchdog resets and restarts by a supervisor
  ChannelDepth,   \* the poll thread's queue, 8
  MaxEvents,      \* MAX_TG_POLL_EVENTS_PER_PASS, 8
  Durable         \* whether the store is NVS, or the MemStore of a failed NVS

ASSUME CursorAssumption ==
  /\ MaxPosts \in Nat
  /\ MaxCuts \in Nat
  /\ ChannelDepth \in Nat \ {0}
  /\ MaxEvents \in Nat \ {0}
  /\ Durable \in BOOLEAN

NoUpdate == 0

(* An event without an acknowledgement: a log entry, a request to recover   *)
(* the network, or an empty batch.                                          *)
Notice == 0

Kinds == {"send", "reply", "restart", "ota", "plain"}

Update == [kind : Kinds, msg : Messages]

ASSUME InputAssumption == Inputs \subseteq Update

Ids == 1 .. MaxPosts

VARIABLES
  inbox,          \* the operator's updates, in order
  forgotten,      \* Telegram has forgotten updates 1 .. forgotten
  saved,          \* IM_CURSOR in the store
  poller,         \* the poll thread: "ask", "offer" or "await"
  pollCursor,     \* cursor of the poll thread
  offering,       \* events the poll thread has yet to put into the channel
  channel,        \* tg_rx: Notice, or the update of an acknowledged batch
  phase,          \* place of the main loop in its pass
  room,           \* events that this pass may still take
  batch,          \* pending_tg_batch
  backoff,        \* whether cursor_retry_after is set
  persisted,      \* persisted_tg_cursor
  current,        \* the update being handled
  acked,          \* the update whose acknowledgement waits to be taken
  handled,        \* history: ids in the order in which they were handled
  interrupted,    \* history: ids that a reset has put out of reach
  cuts            \* bounded count of resets that no update asked for

pollVars == <<poller, pollCursor, offering>>
mainVars == <<phase, room, batch, backoff, persisted, current>>
histories == <<handled, interrupted, cuts>>
vars == <<inbox, forgotten, saved, pollVars, channel, mainVars, acked, histories, senderVars>>

Phases == {"collect", "checkpoint", "handle", "ack", "drain"}

(* How far a cursor can have got; also, the updates there are, and NoUpdate.*)
Cursors == 0 .. Len(inbox)

TypeOK ==
  /\ inbox \in Seq(Update)
  /\ Len(inbox) <= MaxPosts
  /\ forgotten \in Cursors /\ saved \in Cursors
  /\ pollCursor \in Cursors /\ persisted \in Cursors
  /\ batch \in Cursors /\ current \in Cursors /\ acked \in Cursors
  /\ poller \in {"ask", "offer", "await"}
  /\ offering \in Seq(Cursors)
  /\ channel \in Seq(Cursors)
  /\ phase \in Phases
  /\ backoff \in BOOLEAN
  /\ room \in 0 .. MaxEvents
  /\ handled \in Seq(Cursors \ {NoUpdate})
  /\ interrupted \subseteq Cursors
  /\ cuts \in 0 .. MaxCuts
  /\ SenderType

Init ==
  /\ inbox = <<>>
  /\ forgotten = 0
  /\ saved = 0
  /\ poller = "ask"
  /\ pollCursor = 0
  /\ offering = <<>>
  /\ channel = <<>>
  /\ phase = "collect"
  /\ room = MaxEvents
  /\ batch = NoUpdate
  /\ backoff = FALSE
  /\ persisted = 0
  /\ current = NoUpdate
  /\ acked = NoUpdate
  /\ handled = <<>>
  /\ interrupted = {}
  /\ cuts = 0
  /\ SenderInit

-----------------------------------------------------------------------------
(* The operator. *)

Post(u) ==
  /\ Len(inbox) < MaxPosts
  /\ inbox' = Append(inbox, u)
  /\ UNCHANGED <<forgotten, saved, pollVars, channel, mainVars, acked, histories, senderVars>>

-----------------------------------------------------------------------------
(* The poll thread. *)

(* Telegram forgets what lies below the offset it is asked for.             *)
Asked == IF pollCursor > forgotten THEN pollCursor ELSE forgotten

(* getUpdates answers with the oldest update it still has, or with nothing  *)
(* when the long poll ends.                                                 *)
PollAnswers ==
  /\ poller = "ask"
  /\ forgotten' = Asked
  /\ offering' = IF Asked < Len(inbox) THEN <<Asked + 1>> ELSE <<Notice>>
  /\ poller' = "offer"
  /\ UNCHANGED <<inbox, saved, pollCursor, channel, mainVars, acked, histories, senderVars>>

(* The request or its answer is lost, or the rate is limited: at most a log *)
(* entry and one more event go to the main loop.                            *)
PollFails ==
  /\ poller = "ask"
  /\ forgotten' \in {forgotten, Asked}
  /\ \E n \in 0 .. 2 : offering' = [i \in 1 .. n |-> Notice]
  /\ poller' = "offer"
  /\ UNCHANGED <<inbox, saved, pollCursor, channel, mainVars, acked, histories, senderVars>>

(* Mutant of AfterOffer: the offset advances with the hand-over. *)
AfterOfferAtOnce(e) ==
  poller' = "offer" /\ pollCursor' = IF e = Notice THEN pollCursor ELSE e

(* An update waits for its acknowledgement, and the next poll with it.      *)
AfterOffer(e) ==
  /\ poller' = IF e = Notice THEN "offer" ELSE "await"
  /\ UNCHANGED pollCursor

(* PollEventSender::send: a full channel is retried.                        *)
Offer ==
  /\ poller = "offer"
  /\ offering # <<>>
  /\ Len(channel) < ChannelDepth
  /\ channel' = Append(channel, Head(offering))
  /\ offering' = Tail(offering)
  /\ AfterOffer(Head(offering))
  /\ UNCHANGED <<inbox, forgotten, saved, mainVars, acked, histories, senderVars>>

AskAgain ==
  /\ poller = "offer"
  /\ offering = <<>>
  /\ poller' = "ask"
  /\ UNCHANGED <<inbox, forgotten, saved, pollCursor, offering, channel, mainVars, acked,
                 histories, senderVars>>

TakeAck ==
  /\ poller = "await"
  /\ acked # NoUpdate
  /\ pollCursor' = acked
  /\ acked' = NoUpdate
  /\ poller' = "ask"
  /\ UNCHANGED <<inbox, forgotten, saved, offering, channel, mainVars, histories, senderVars>>

-----------------------------------------------------------------------------
(* The main loop. *)

(* Mutant of Receive: the pass takes whatever is there. *)
ReceiveWithoutLimit ==
  /\ phase = "collect"
  /\ channel # <<>>
  /\ channel' = Tail(channel)
  /\ room' = room - 1
  /\ IF Head(channel) = Notice
     THEN UNCHANGED <<phase, batch>>
     ELSE phase' = "checkpoint" /\ batch' = Head(channel)
  /\ UNCHANGED <<inbox, forgotten, saved, pollVars, backoff, persisted, current, acked,
                 histories, senderVars>>

(* A batch ends the collection at once.                                     *)
Receive ==
  /\ phase = "collect"
  /\ room > 0
  /\ channel # <<>>
  /\ channel' = Tail(channel)
  /\ room' = room - 1
  /\ IF Head(channel) = Notice
     THEN UNCHANGED <<phase, batch>>
     ELSE phase' = "checkpoint" /\ batch' = Head(channel)
  /\ UNCHANGED <<inbox, forgotten, saved, pollVars, backoff, persisted, current, acked,
                 histories, senderVars>>

EndCollect ==
  /\ phase = "collect"
  /\ room = 0 \/ channel = <<>>
  /\ phase' = "checkpoint"
  /\ UNCHANGED <<inbox, forgotten, saved, pollVars, channel, room, batch, backoff, persisted,
                 current, acked, histories, senderVars>>

(* Mutant of SaveCursor: only the copy in RAM advances. *)
SaveCursorInRam ==
  /\ phase = "checkpoint"
  /\ batch # NoUpdate
  /\ persisted' = batch
  /\ current' = batch
  /\ batch' = NoUpdate
  /\ backoff' = FALSE
  /\ phase' = "handle"
  /\ UNCHANGED <<inbox, forgotten, saved, pollVars, channel, room, acked, histories, senderVars>>

(* checkpoint_cursor, before any effect of the update.                      *)
SaveCursor ==
  /\ phase = "checkpoint"
  /\ batch # NoUpdate
  /\ IF batch > persisted
     THEN saved' = batch /\ persisted' = batch
     ELSE UNCHANGED <<saved, persisted>>
  /\ current' = batch
  /\ batch' = NoUpdate
  /\ backoff' = FALSE
  /\ phase' = "handle"
  /\ UNCHANGED <<inbox, forgotten, pollVars, channel, room, acked, histories, senderVars>>

(* The batch waits five seconds for the next try.  NVS may report an error  *)
(* although the value was written.                                          *)
SaveFails ==
  /\ phase = "checkpoint"
  /\ batch > persisted
  /\ saved' \in {saved, batch}
  /\ backoff' = TRUE
  /\ phase' = "drain"
  /\ UNCHANGED <<inbox, forgotten, pollVars, channel, room, batch, persisted, current, acked,
                 histories, senderVars>>

NoCheckpoint ==
  /\ phase = "checkpoint"
  /\ batch = NoUpdate \/ backoff
  /\ phase' = "drain"
  /\ UNCHANGED <<inbox, forgotten, saved, pollVars, channel, room, batch, backoff, persisted,
                 current, acked, histories, senderVars>>

Handling(kind) == phase = "handle" /\ inbox[current].kind = kind

Handled ==
  /\ handled' = Append(handled, current)
  /\ phase' = "ack"
  /\ UNCHANGED <<inbox, forgotten, saved, pollVars, channel, room, batch, backoff, persisted,
                 current, acked, interrupted, cuts>>

(* apply_sentinels on the sentinel of /send.                                *)
HandleSend ==
  /\ Handling("send")
  /\ EnqueueCommandSend(inbox[current].msg)
  /\ Handled

(* A reply goes nowhere if the router has forgotten the message.            *)
HandleReply ==
  /\ Handling("reply")
  /\ Enqueue(inbox[current].msg) \/ UNCHANGED senderVars
  /\ Handled

(* Everything else that poll_and_dispatch and the loop carry out at once.   *)
HandlePlain ==
  /\ Handling("plain")
  /\ UNCHANGED senderVars
  /\ Handled

(* An /ota that is refused, or whose download or image is bad.  From the    *)
(* checkpoint until this step or UpdateSucceeds the update is under way.    *)
UpdateFails ==
  /\ Handling("ota")
  /\ UNCHANGED senderVars
  /\ Handled

(* Mutant of Acknowledge: an update without a message for the loop gets no  *)
(* acknowledgement. *)
AcknowledgeMessages ==
  /\ phase = "ack"
  /\ acked' = IF inbox[current].kind = "plain" THEN acked ELSE current
  /\ current' = NoUpdate
  /\ phase' = "drain"
  /\ UNCHANGED <<inbox, forgotten, saved, pollVars, channel, room, batch, backoff, persisted,
                 histories, senderVars>>

(* After the update was handled.                                            *)
Acknowledge ==
  /\ phase = "ack"
  /\ acked' = current
  /\ current' = NoUpdate
  /\ phase' = "drain"
  /\ UNCHANGED <<inbox, forgotten, saved, pollVars, channel, room, batch, backoff, persisted,
                 histories, senderVars>>

EndPass ==
  /\ phase = "drain"
  /\ phase' = "collect"
  /\ room' = MaxEvents
  /\ UNCHANGED <<inbox, forgotten, saved, pollVars, channel, batch, backoff, persisted, current,
                 acked, histories>>

(* drain_once, then the next pass.                                          *)
Drain == EndPass /\ DrainOnce
DrainIdle == EndPass /\ NothingDue

-----------------------------------------------------------------------------
(* Resets. *)

(* What is behind the cursors, or forgotten by Telegram, and was never      *)
(* handled will not come again.                                             *)
OutOfReach(done, cursor) ==
  {u \in Ids : (u <= cursor \/ u <= forgotten) /\ u \notin Range(done)}

Boot(done) ==
  /\ saved' = IF Durable THEN saved ELSE 0
  /\ persisted' = saved'
  /\ pollCursor' = saved'
  /\ poller' = "ask"
  /\ offering' = <<>>
  /\ channel' = <<>>
  /\ phase' = "collect"
  /\ room' = MaxEvents
  /\ batch' = NoUpdate
  /\ backoff' = FALSE
  /\ current' = NoUpdate
  /\ acked' = NoUpdate
  /\ handled' = done
  /\ interrupted' = interrupted \union OutOfReach(done, saved')
  /\ LoseQueue
  /\ UNCHANGED <<inbox, forgotten>>

(* /restart: the loop never gets to the acknowledgement.                    *)
HandleRestart ==
  /\ Handling("restart")
  /\ Boot(Append(handled, current))
  /\ UNCHANGED cuts

(* Nor does it when the new image has been selected.                        *)
UpdateSucceeds ==
  /\ Handling("ota")
  /\ Boot(Append(handled, current))
  /\ UNCHANGED cuts

(* Power, or a watchdog, at any time.                                       *)
Cut ==
  /\ cuts < MaxCuts
  /\ cuts' = cuts + 1
  /\ Boot(handled)

(* Mutant of MayRestart: the worker's events are drained once more, between *)
(* the checkpoint and the dispatch. *)
MayRestartBeforeDispatch ==
  phase \in {"handle", "ack"} \/ (phase = "collect" /\ (room = MaxEvents \/ channel = <<>>))

(* Where the main loop looks for stalled threads, stale polls and the       *)
(* worker's own request: before it collects, when it finds the poll thread  *)
(* dead, after it has dispatched, and, for the worker's request, after the  *)
(* first note and every progress note of an update of the firmware.         *)
MayRestart ==
  \/ phase = "collect" /\ (room = MaxEvents \/ channel = <<>>)
  \/ Handling("ota")
  \/ phase = "ack"

Supervise ==
  /\ cuts < MaxCuts
  /\ MayRestart
  /\ cuts' = cuts + 1
  /\ Boot(handled)

-----------------------------------------------------------------------------
PollThread == PollAnswers \/ PollFails \/ Offer \/ AskAgain \/ TakeAck

Handle ==
  HandleSend \/ HandleReply \/ HandlePlain \/ UpdateFails \/ HandleRestart \/ UpdateSucceeds

MainLoop ==
  \/ Receive \/ EndCollect
  \/ SaveCursor \/ SaveFails \/ NoCheckpoint
  \/ Handle \/ Acknowledge
  \/ Drain \/ DrainIdle

Next ==
  \/ \E u \in Inputs : Post(u)
  \/ PollThread
  \/ MainLoop
  \/ Cut
  \/ Supervise

(* Both threads go on; a poll and a write of the cursor that are tried      *)
(* again and again succeed again and again; retry delays end.               *)
Fairness ==
  /\ WF_vars(PollThread) /\ SF_vars(PollAnswers)
  /\ WF_vars(MainLoop) /\ SF_vars(SaveCursor)
  /\ SF_vars(Drain)

Spec == Init /\ [][Next]_vars

LiveSpec == Spec /\ Fairness

-----------------------------------------------------------------------------
(* Properties. *)

(* An update is handled at most once, and updates in the order in which     *)
(* they were sent, whatever resets, failed writes of the cursor and lost    *)
(* polls come between (main.rs 531-533, 1640-1849).                         *)
OnceInOrder ==
  \A i, j \in DOMAIN handled : i < j => handled[i] < handled[j]

(* Telegram is told to forget an update only when it was handled, unless a  *)
(* reset came between checkpoint and dispatch (main.rs 531-533).            *)
ForgottenIsHandled ==
  \A u \in 1 .. forgotten : u \in Range(handled) \union interrupted

(* /restart and an update of the firmware that succeeds put no update out   *)
(* of reach, and a restart by a supervisor none but the /ota that is under  *)
(* way, unless the store took a cursor whose write it reported as failed    *)
(* (main.rs 675, 719-755, 1072-1086, 1818, 2480-2564).                      *)
RestartsLoseOnlyOta ==
  [][saved = persisted =>
       /\ HandleRestart \/ UpdateSucceeds => interrupted' = interrupted
       /\ Supervise => \A u \in interrupted' \ interrupted : u = current /\ Handling("ota")]_vars

(* The modem is given a message at most MAX_ATTEMPTS times for every /send  *)
(* or reply of the operator, over all resets (sms/sender.rs 16, 203-214).   *)
SendsAreAsked ==
  \A m \in Messages :
    tries[m] <= MaxAttempts * Cardinality({i \in DOMAIN inbox :
                  inbox[i].kind \in {"send", "reply"} /\ inbox[i].msg = m})

(* A message reported as sent went out with all its parts                   *)
(* (sms/sender.rs 176-192, main.rs 1857-1872).                              *)
ReportedIsSent ==
  \A m \in reported : PartsOf[m] > 0 /\ aired[m] = 1 .. PartsOf[m]

(* What the operator is told of outgoing SMS is true: see both parts.       *)
SendsAreTrue == SendsAreAsked /\ ReportedIsSent

(* Every update is handled or falls victim to a reset, however often polls  *)
(* and writes of the cursor fail (main.rs 510-619, 1593-1676).              *)
UpdatesAreHandled ==
  \A u \in Ids : (u <= Len(inbox)) ~> (u \in Range(handled) \union interrupted)

=============================================================================
