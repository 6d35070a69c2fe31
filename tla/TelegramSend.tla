---------------------------- MODULE TelegramSend ----------------------------
(***************************************************************************)
(* The way out: a request goes from the main loop through a bounded queue  *)
(* to the send worker (im/telegram/worker.rs), over one HTTPS connection   *)
(* that is kept and reused (im/telegram/http.rs), to Telegram and back as  *)
(* a receipt; the id in the receipt is what replies are routed by          *)
(* (bridge/reply_router.rs).                                               *)
(*                                                                         *)
(* Abstractions.  Every accepted request has a number of its own; Telegram *)
(* numbers the messages it posts in the order in which it posts them.  A   *)
(* request whose body was written, wholly or in part, may be carried out   *)
(* then, later or never, whatever has become of the connection.  Time is   *)
(* the age of an operation: below five minutes ("young"), beyond ("old"),  *)
(* or past the 90 seconds on top that the main loop waits ("stalled").     *)
(***************************************************************************)
EXTENDS Integers, Sequences, FiniteSets

CONSTANTS
  Sms,            \* received SMS that wait to be forwarded
  Numbers,        \* telephone numbers
  SenderOf,       \* the number each was sent from
  Notes,          \* calls and operational texts, sent like SMS
  Depth,          \* OUTBOUND_QUEUE_DEPTH, 8
  MaxPending,     \* MAX_PENDING_NOTIFICATIONS, 8
  SlotCount,      \* SLOT_COUNT of the reply map, 200
  MaxRequests,    \* bound: requests accepted by the worker
  MaxResets,      \* bound: losses of power
  NoNumber        \* stands for a number that is not found

ASSUME SendAssumption ==
  /\ SenderOf \in [Sms -> Numbers]
  /\ Depth \in Nat \ {0} /\ MaxPending \in Nat \ {0} /\ SlotCount \in Nat \ {0}
  /\ MaxRequests \in Nat /\ MaxResets \in Nat /\ NoNumber \notin Numbers

VARIABLES
  pc,             \* place of the main loop: "events", "stall", "receipts" or "pump"
  wifi,           \* wifi_ok
  accepted,       \* requests accepted so far, as a sequence of what they carry
  queue,          \* the worker's channel: numbers of requests
  pending,        \* receipts the main loop waits for: number of request -> receipt
  overdue,        \* those among them queued longer ago than a receipt may take
  registered,     \* commands_registered
  restart,        \* whether a Restart event waits in the channel
  worker,         \* state, request and HTTP retry of the worker
  age,            \* of the operation in progress
  messenger,      \* "none", "closed" or "open": the worker's client and its connection
  posted,         \* requests Telegram may yet carry out, and whether their connection lives
  answers,        \* answers that wait on the open connection
  executed,       \* requests carried out, in the order of their message ids
  router,         \* reply map in RAM
  savedRouter,    \* reply map in the store
  resets          \* losses of power so far

mainVars == <<pc, wifi, accepted, pending, overdue, registered>>
workerVars == <<worker, age, messenger>>
remoteVars == <<posted, answers, executed>>
routerVars == <<router, savedRouter>>
vars == <<mainVars, queue, restart, workerVars, remoteVars, routerVars, resets>>

Menu == "menu"
Reply == "reply"

(* A request carries an SMS, a note, the command menu or the reply to a     *)
(* command; only the first two are tried again.                             *)
Retried(n) == accepted[n] \in Sms \cup Notes

(* What a receipt channel holds.                                            *)
NoReceipt == [kind |-> "none", id |-> 0]
Failed == [kind |-> "failed", id |-> 0]
Confirmed(id) == [kind |-> "ok", id |-> id]

Slots == 0 .. SlotCount - 1
EmptySlot == [id |-> 0, phone |-> NoNumber]
Requests == DOMAIN accepted

Idle == [state |-> "idle", n |-> 0, again |-> FALSE]
Starting == [state |-> "start", n |-> 0, again |-> FALSE]

Init ==
  /\ pc = "events" /\ wifi = TRUE
  /\ accepted = <<>> /\ queue = <<>>
  /\ pending = <<>> /\ overdue = {}
  /\ registered = FALSE /\ restart = FALSE
  /\ worker = Starting /\ age = "young" /\ messenger = "none"
  /\ posted = {} /\ answers = <<>> /\ executed = <<>>
  /\ router = [k \in Slots |-> EmptySlot]
  /\ savedRouter = [k \in Slots |-> EmptySlot]
  /\ resets = 0

-----------------------------------------------------------------------------
(* The reply map. *)

SlotOf(id) == id % SlotCount

(* Mutant of Lookup: the slot is taken without comparing the id.            *)
LookupSlot(id) == IF router[SlotOf(id)].id # 0 THEN router[SlotOf(id)].phone ELSE NoNumber

Lookup(id) ==
  LET slot == router[SlotOf(id)]
  IN IF slot.id = id /\ slot.id # 0 THEN slot.phone ELSE NoNumber

(* A failed write of the map leaves the new entry in RAM.                   *)
Put(id, phone) ==
  /\ router' = [router EXCEPT ![SlotOf(id)] = [id |-> id, phone |-> phone]]
  /\ savedRouter' \in {savedRouter, router'}

Load == [k \in Slots |->
  IF savedRouter[k].id # 0 /\ SlotOf(savedRouter[k].id) # k THEN EmptySlot ELSE savedRouter[k]]

-----------------------------------------------------------------------------
(* The main loop. *)

(* The receipts that are still waited for when some have been read.         *)
Without(read) == [n \in DOMAIN pending \ read |-> pending[n]]

(* The requests that Telegram may carry out once their connection is gone,  *)
(* and the dropping of that connection with what it still held.             *)
Severed == {[p EXCEPT !.live = FALSE] : p \in posted}
Disconnect == posted' = Severed /\ answers' = <<>> /\ UNCHANGED executed

(* Everything in RAM is lost.  What Telegram has, it may still carry out.   *)
Reset ==
  /\ pc' = "events"
  /\ queue' = <<>> /\ pending' = <<>> /\ overdue' = {}
  /\ registered' = FALSE /\ restart' = FALSE
  /\ worker' = Starting /\ age' = "young" /\ messenger' = "none"
  /\ Disconnect
  /\ router' = Load
  /\ UNCHANGED <<wifi, accepted, savedRouter>>

PowerLoss == resets < MaxResets /\ resets' = resets + 1 /\ Reset

DrainEvents ==
  /\ pc = "events"
  /\ IF restart /\ wifi THEN Reset
     ELSE /\ pc' = "register" /\ restart' = FALSE
          /\ UNCHANGED <<wifi, accepted, pending, overdue, registered, queue, workerVars,
                         remoteVars, routerVars>>
  /\ UNCHANGED resets

(* try_send: a full queue refuses the request.                              *)
TryEnqueue(what) ==
  /\ Len(queue) < Depth /\ Len(accepted) < MaxRequests
  /\ accepted' = Append(accepted, what)
  /\ queue' = Append(queue, Len(accepted'))

AwaitReceipt ==
  pending' = [n \in DOMAIN pending \cup {Len(accepted')} |->
                IF n \in DOMAIN pending THEN pending[n] ELSE NoReceipt]

Waiting(n) == n \in DOMAIN pending /\ pending[n] = NoReceipt
MenuAsked == {n \in DOMAIN pending : accepted[n] = Menu}

(* At most one registration at a time, tried again every minute at most; a  *)
(* refused or failed one is forgotten.                                      *)
RegisterCommands ==
  /\ pc = "register"
  /\ wifi /\ ~registered /\ MenuAsked = {}
  /\ TryEnqueue(Menu) /\ AwaitReceipt
  /\ UNCHANGED <<pc, wifi, overdue, registered, restart, workerVars, remoteVars, routerVars,
                 resets>>

ReadRegistration ==
  /\ pc = "register"
  /\ pc' = "stall"
  /\ \E answered \in {{n \in MenuAsked : ~Waiting(n)}} :
       /\ pending' = Without(answered)
       /\ registered' = (registered \/ \E n \in answered : pending[n].kind = "ok")
  /\ UNCHANGED <<wifi, accepted, overdue, queue, restart, workerVars, remoteVars, routerVars,
                 resets>>

(* Mutant of MustReboot: the worker is only looked at while Wi-Fi is up.    *)
MustRebootOnline == (wifi /\ age = "stalled") \/ overdue # {}

(* The supervision of the worker and of the receipts.                       *)
MustReboot == age = "stalled" \/ overdue # {}

CheckStalls ==
  /\ pc = "stall"
  /\ IF MustReboot THEN Reset
     ELSE /\ pc' = "receipts"
          /\ UNCHANGED <<wifi, accepted, pending, overdue, registered, queue, restart,
                         workerVars, remoteVars, routerVars>>
  /\ UNCHANGED resets

(* The receipts are read in turn; that of a forwarded SMS makes the message *)
(* one that can be replied to.                                              *)
NotificationsPending == DOMAIN pending \ MenuAsked
ProcessReceipt(n) ==
  /\ pc = "receipts"
  /\ n \in NotificationsPending /\ ~Waiting(n)
  /\ pending' = Without({n})
  /\ overdue' = overdue \ {n}
  /\ IF accepted[n] \in Sms /\ pending[n].kind = "ok"
     THEN Put(pending[n].id, SenderOf[accepted[n]]) ELSE UNCHANGED routerVars
  /\ UNCHANGED <<pc, wifi, accepted, registered, queue, restart, workerVars, remoteVars, resets>>

EndReceipts ==
  /\ pc = "receipts"
  /\ \A n \in NotificationsPending : Waiting(n)
  /\ pc' = "pump"
  /\ UNCHANGED <<wifi, accepted, pending, overdue, registered, queue, restart, workerVars,
                 remoteVars, routerVars, resets>>

(* The pump moves ready notifications into the channel while there is room. *)
Pump(item) ==
  /\ pc = "pump"
  /\ wifi /\ Cardinality(NotificationsPending) < MaxPending
  /\ TryEnqueue(item) /\ AwaitReceipt
  /\ UNCHANGED <<pc, wifi, overdue, registered, restart, workerVars, remoteVars, routerVars,
                 resets>>

(* A command's reply is queued without a receipt, or dropped.               *)
CommandReply ==
  /\ pc = "pump"
  /\ TryEnqueue(Reply)
  /\ UNCHANGED <<pc, wifi, pending, overdue, registered, restart, workerVars, remoteVars,
                 routerVars, resets>>

EndPump ==
  /\ pc = "pump"
  /\ pc' = "events"
  /\ \E up \in BOOLEAN : wifi' = up
  /\ UNCHANGED <<accepted, pending, overdue, registered, queue, restart, workerVars,
                 remoteVars, routerVars, resets>>

(* A receipt of a notification is waited for longer than the worker may     *)
(* take; the main loop can also be late to read one that has come.          *)
GrowOverdue(n) ==
  /\ n \in NotificationsPending
  /\ overdue' = overdue \cup {n}
  /\ UNCHANGED <<pc, wifi, accepted, pending, registered, queue, restart, workerVars,
                 remoteVars, routerVars, resets>>

-----------------------------------------------------------------------------
(* The worker. *)

unchangedByWorker == <<pc, wifi, accepted, overdue, registered, routerVars, resets>>

Finish(receipt) ==
  /\ worker' = Idle /\ age' = "young"
  /\ pending' = IF worker.n \in DOMAIN pending THEN [pending EXCEPT ![worker.n] = receipt]
                ELSE pending

Goto(state) == worker' = [worker EXCEPT !.state = state] /\ UNCHANGED <<age, pending>>

(* What run_with_retries makes of an attempt that sent nothing: the client  *)
(* is dropped, and the request is tried again, given up, or, when it has    *)
(* been tried for five minutes, given up with a request to reboot.          *)
RetriedInVain == restart' = TRUE /\ Finish(Failed)
NotSent ==
  /\ messenger' = "none"
  /\ Disconnect
  /\ IF ~Retried(worker.n) THEN Finish(Failed) /\ UNCHANGED restart
     ELSE IF age = "young" THEN Goto("sleep") /\ UNCHANGED restart
     ELSE RetriedInVain

(* Mutant of OutcomeUnknown: the request is tried again.                    *)
OutcomeUnknownRetried == NotSent

(* Mutant of OutcomeUnknown: the connection is kept for the next request.   *)
OutcomeUnknownReused == Finish(Failed) /\ UNCHANGED <<messenger, remoteVars, restart>>

(* An error of an attempt whose request may have been carried out.          *)
OutcomeUnknown ==
  /\ messenger' = "closed"
  /\ Disconnect
  /\ Finish(Failed) /\ UNCHANGED restart

WorkerStart ==
  /\ worker.state = "start"
  /\ messenger' \in {"none", "open"}
  /\ worker' = Idle /\ age' = "young"
  /\ UNCHANGED <<unchangedByWorker, queue, restart, pending, remoteVars>>

Take ==
  /\ worker.state = "idle" /\ queue # <<>>
  /\ worker' = [state |-> "attempt", n |-> Head(queue), again |-> FALSE]
  /\ queue' = Tail(queue)
  /\ UNCHANGED <<unchangedByWorker, restart, pending, age, messenger, remoteVars>>

(* ensure_worker_messenger: a client is built connected or not at all.      *)
EnsureMessenger ==
  /\ worker.state = "attempt"
  /\ \/ /\ messenger = "none" /\ NotSent
     \/ /\ worker' = [worker EXCEPT !.state = IF messenger = "none" THEN "header" ELSE "connect",
                                    !.again = FALSE]
        /\ messenger' = IF messenger = "none" THEN "open" ELSE messenger
        /\ UNCHANGED <<restart, pending, age, remoteVars>>
  /\ UNCHANGED <<unchangedByWorker, queue>>

(* ensure_connected: a connection in use is kept, one that was idle for 30  *)
(* seconds is replaced.                                                     *)
EnsureConnected ==
  /\ worker.state = "connect"
  /\ \/ messenger = "open" /\ Goto("header") /\ UNCHANGED <<messenger, restart, remoteVars>>
     \/ messenger' = "open" /\ Disconnect /\ Goto("header") /\ UNCHANGED restart
     \/ NotSent
  /\ UNCHANGED <<unchangedByWorker, queue>>

WriteHeader ==
  /\ worker.state = "header"
  /\ worker' = [worker EXCEPT !.state = "body", !.again = FALSE] /\ UNCHANGED <<age, pending>>
  /\ UNCHANGED <<unchangedByWorker, queue, restart, messenger, remoteVars>>

(* Nothing of the body has left: one more try on a new connection.          *)
HeaderFails ==
  /\ worker.state = "header"
  /\ IF worker.again THEN NotSent
     ELSE /\ worker' = [worker EXCEPT !.state = "connect", !.again = TRUE]
          /\ messenger' = "closed" /\ Disconnect
          /\ UNCHANGED <<restart, pending, age>>
  /\ UNCHANGED <<unchangedByWorker, queue>>

WriteBody ==
  /\ worker.state = "body"
  /\ Goto("answer")
  /\ posted' = posted \cup {[n |-> worker.n, live |-> TRUE]}
  /\ UNCHANGED <<unchangedByWorker, queue, restart, messenger, answers, executed>>

(* A failed write can have sent the body.                                   *)
BodyFails ==
  /\ worker.state = "body"
  /\ messenger' = "closed"
  /\ \E sent \in SUBSET {worker.n} :
       posted' = Severed \cup {[n |-> m, live |-> FALSE] : m \in sent}
  /\ answers' = <<>>
  /\ Finish(Failed)
  /\ UNCHANGED <<unchangedByWorker, queue, restart, executed>>

(* The next response on the connection is taken for the response to the     *)
(* request just written: nothing in it says which request it answers.       *)
ReadAnswer ==
  /\ worker.state = "answer" /\ answers # <<>>
  /\ Finish(IF Head(answers).ok THEN Confirmed(Head(answers).id) ELSE Failed)
  /\ IF Head(answers).close
     THEN messenger' = "closed" /\ Disconnect
     ELSE messenger' = messenger /\ answers' = Tail(answers) /\ UNCHANGED <<posted, executed>>
  /\ UNCHANGED <<unchangedByWorker, queue, restart>>

(* A timeout, a closed connection or a response that cannot be read.        *)
ReadFails ==
  /\ worker.state = "answer"
  /\ OutcomeUnknown
  /\ UNCHANGED <<unchangedByWorker, queue>>

Sleep ==
  /\ worker.state = "sleep"
  /\ IF age = "young" THEN Goto("attempt") /\ UNCHANGED restart ELSE RetriedInVain
  /\ UNCHANGED <<unchangedByWorker, queue, messenger, remoteVars>>

(* A call into the network stack that does not return.                      *)
Hang ==
  /\ worker.state \in {"start", "attempt", "connect", "header", "body", "answer"}
  /\ worker' = [Idle EXCEPT !.state = "hung"] /\ UNCHANGED <<age, pending>>
  /\ UNCHANGED <<unchangedByWorker, queue, restart, messenger, remoteVars>>

GrowOld ==
  /\ worker.state # "idle" /\ age # "stalled"
  /\ age' = IF age = "young" THEN "old" ELSE "stalled"
  /\ UNCHANGED <<unchangedByWorker, queue, restart, pending, worker, messenger, remoteVars>>

-----------------------------------------------------------------------------
(* Telegram. *)

unchangedByTelegram == <<mainVars, queue, restart, workerVars, routerVars, resets>>

Answers(p, answer) == answers' = IF p.live THEN Append(answers, answer) ELSE answers

(* A message is posted and answered with its id; what the menu is answered  *)
(* with has no id that anybody keeps.                                       *)
Execute(p) ==
  /\ p \in posted
  /\ posted' = posted \ {p}
  /\ executed' = Append(executed, p.n)
  /\ \E close, readable \in BOOLEAN :
       Answers(p, [ok |-> readable, id |-> IF readable THEN Len(executed') ELSE 0,
                   close |-> close])
  /\ UNCHANGED unchangedByTelegram

Refuse(p) ==
  /\ p \in posted
  /\ posted' = posted \ {p}
  /\ Answers(p, [ok |-> FALSE, id |-> 0, close |-> FALSE])
  /\ UNCHANGED <<executed, unchangedByTelegram>>

-----------------------------------------------------------------------------
MainStep ==
  \/ DrainEvents \/ ReadRegistration \/ CheckStalls \/ EndReceipts \/ EndPump
  \/ \E n \in NotificationsPending : ProcessReceipt(n)
MainAsks ==
  \/ RegisterCommands \/ CommandReply
  \/ \E item \in Sms \cup Notes : Pump(item)
WorkerStep ==
  \/ WorkerStart \/ Take \/ EnsureMessenger \/ EnsureConnected \/ WriteHeader \/ HeaderFails
  \/ WriteBody \/ BodyFails \/ ReadAnswer \/ ReadFails \/ Sleep
TimePasses == GrowOld \/ \E n \in NotificationsPending : GrowOverdue(n)
Telegram == \E p \in posted : Execute(p) \/ Refuse(p)

Next == MainStep \/ MainAsks \/ WorkerStep \/ Hang \/ TimePasses \/ Telegram \/ PowerLoss

Spec == Init /\ [][Next]_vars

(* The main loop runs for ever, the worker is a thread of its own whose     *)
(* calls have timeouts unless they hang, and an operation grows old.        *)
LiveSpec == Spec /\ WF_vars(MainStep) /\ WF_vars(WorkerStep) /\ WF_vars(GrowOld)

-----------------------------------------------------------------------------
Kinds == Sms \cup Notes \cup {Menu, Reply}
Receipts == {NoReceipt, Failed} \cup {Confirmed(id) : id \in 0 .. MaxRequests}
SlotRecords == [id : 0 .. MaxRequests, phone : Numbers \cup {NoNumber}]

(* The types of the variables; the channel of try_enqueue keeps to its      *)
(* depth and the pump to its limit, and what waits has been accepted.       *)
TypeOK ==
  /\ pc \in {"events", "register", "stall", "receipts", "pump"}
  /\ wifi \in BOOLEAN /\ registered \in BOOLEAN /\ restart \in BOOLEAN
  /\ accepted \in Seq(Kinds) /\ Len(accepted) <= MaxRequests
  /\ queue \in Seq(Requests) /\ Len(queue) <= Depth
  /\ DOMAIN pending \subseteq Requests /\ overdue \subseteq DOMAIN pending
  /\ \A n \in DOMAIN pending : pending[n] \in Receipts
  /\ Cardinality(NotificationsPending) <= MaxPending
  /\ worker \in [state : {"start", "idle", "attempt", "connect", "header", "body", "answer",
                          "sleep", "hung"},
                 n : Requests \cup {0}, again : BOOLEAN]
  /\ age \in {"young", "old", "stalled"} /\ messenger \in {"none", "closed", "open"}
  /\ posted \subseteq [n : Requests, live : BOOLEAN]
  /\ answers \in Seq([ok : BOOLEAN, id : 0 .. MaxRequests, close : BOOLEAN])
  /\ executed \in Seq(Requests)
  /\ router \in [Slots -> SlotRecords] /\ savedRouter \in [Slots -> SlotRecords]
  /\ resets \in 0 .. MaxResets

(* Neither the retries of run_with_retries nor the second try of post make  *)
(* Telegram carry out a request twice: only a request of whose body nothing *)
(* was written is written again.                                            *)
AtMostOnce ==
  \A i, j \in DOMAIN executed : executed[i] = executed[j] => i = j

(* The id in the receipt of a notification is the id of that notification,  *)
(* although responses carry nothing that says which request they answer.    *)
ReceiptsTrue ==
  \A n \in NotificationsPending :
    pending[n].kind = "ok" => pending[n].id \in DOMAIN executed /\ executed[pending[n].id] = n

(* A reply to a message goes to the number whose SMS the message showed, or *)
(* to nobody, whatever shares its slot in the map and whatever write of the *)
(* map was lost.                                                            *)
ReplyGoesToSender ==
  \A id \in DOMAIN executed :
    Lookup(id) \in {NoNumber} \cup
      {SenderOf[s] : s \in {accepted[executed[id]]} \cap Sms}

(* A notification that was queued gets its receipt, or the device restarts  *)
(* and the SMS is still in its storage: a worker that hangs, or that tries  *)
(* in vain for ever, is noticed.                                            *)
AcceptedIsAnswered ==
  \A n \in 1 .. MaxRequests : Waiting(n) ~> ~Waiting(n)
=============================================================================
