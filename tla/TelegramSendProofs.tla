------------------------- MODULE TelegramSendProofs -------------------------
(***************************************************************************)
(* Theorems about TelegramSend for every set of SMS, notes and numbers,    *)
(* every depth of the queues, every size of the reply map, and every       *)
(* number of requests and losses of power.                                 *)
(***************************************************************************)
EXTENDS TelegramSend, SequenceTheorems, FiniteSetTheorems, TLAPS

-----------------------------------------------------------------------------
(* Types, first without the bounds that follow from the rest. *)

Ids == [kind : {"none", "failed", "ok"}, id : Nat]
Answer == [ok : BOOLEAN, id : Nat, close : BOOLEAN]
Jobs(requests) ==
  [state : {"start", "idle", "attempt", "connect", "header", "body", "answer", "sleep", "hung"},
   n : requests \cup {0}, again : BOOLEAN]
Routers == [Slots -> [id : Nat, phone : Numbers \cup {NoNumber}]]

MainType ==
  /\ pc \in {"events", "register", "stall", "receipts", "pump"}
  /\ wifi \in BOOLEAN /\ registered \in BOOLEAN /\ restart \in BOOLEAN
  /\ age \in {"young", "old", "stalled"} /\ messenger \in {"none", "closed", "open"}

RequestType ==
  /\ resets \in 0 .. MaxResets
  /\ accepted \in Seq(Kinds) /\ Len(accepted) <= MaxRequests
  /\ queue \in Seq(Requests) /\ Len(queue) <= Depth
  /\ pending \in [DOMAIN pending -> Ids]
  /\ DOMAIN pending \subseteq Requests /\ overdue \subseteq NotificationsPending
  /\ Cardinality(NotificationsPending) <= MaxPending

RemoteType ==
  /\ worker \in Jobs(Requests)
  /\ posted \subseteq [n : Requests, live : BOOLEAN]
  /\ answers \in Seq(Answer) /\ executed \in Seq(Requests)
  /\ router \in Routers /\ savedRouter \in Routers

-----------------------------------------------------------------------------
(* The invariants. *)

(* A request has been started once its body was written. *)
Started(n) == (\E p \in posted : p.n = n) \/ (\E i \in DOMAIN executed : executed[i] = n)
NothingWritten == {"attempt", "connect", "header", "body", "sleep"}

(* Requests are started in the order of their numbers: those in the channel *)
(* come after the worker's and after all that were started, the worker's    *)
(* has not been started while it may be tried again, and what was started   *)
(* is with Telegram once: posted, executed, or refused.                     *)
OnceInv ==
  /\ \A i, j \in DOMAIN queue : i < j => queue[i] < queue[j]
  /\ \A i \in DOMAIN queue : worker.n < queue[i] /\ \A n \in Requests : Started(n) => n < queue[i]
  /\ worker.state \in NothingWritten => worker.n \in Requests /\ ~Started(worker.n)
  /\ \A p, q \in posted : p.n = q.n => p = q
  /\ \A p \in posted : \A i \in DOMAIN executed : executed[i] # p.n
  /\ AtMostOnce

(* While the worker does not hang, what lives on its connection belongs to  *)
(* the request in hand: one post or the one answer to it.                   *)
LinkInv ==
  /\ \A p \in posted : p.live =>
       worker.state = "hung" \/ (worker.state = "answer" /\ p.n = worker.n)
  /\ answers # <<>> =>
       \/ worker.state = "hung"
       \/ /\ worker.state = "answer" /\ Len(answers) = 1 /\ \A p \in posted : ~p.live
          /\ answers[1].ok => executed[answers[1].id] = worker.n
  /\ \A i \in DOMAIN answers :
       IF answers[i].ok THEN answers[i].id \in DOMAIN executed ELSE answers[i].id = 0

(* Every receipt that says ok has the id of its own request. *)
ReceiptInv ==
  \A n \in DOMAIN pending :
    /\ pending[n].kind = "ok" => pending[n].id \in DOMAIN executed /\ executed[pending[n].id] = n
    /\ pending[n].kind # "ok" => pending[n].id = 0

(* Every entry of a reply map is of a message that showed an SMS, and has   *)
(* the number of its sender.                                                *)
Shows(id, phone) ==
  /\ id \in DOMAIN executed /\ accepted[executed[id]] \in Sms
  /\ phone = SenderOf[accepted[executed[id]]]
Truthful(map) == \A k \in Slots : map[k].id # 0 => Shows(map[k].id, map[k].phone)

SendInv ==
  /\ MainType /\ RequestType /\ RemoteType
  /\ OnceInv /\ LinkInv /\ ReceiptInv /\ Truthful(router) /\ Truthful(savedRouter)

-----------------------------------------------------------------------------
(* Facts about the requests and the receipts. *)

(* Requests are numbered from 1, without gaps. *)
LEMMA RequestNumbers ==
  ASSUME RequestType
  PROVE  Requests = 1 .. Len(accepted) /\ Len(accepted) \in Nat
BY LenProperties DEF RequestType, Requests

(* The receipts waited for are finitely many. *)
LEMMA PendingFinite ==
  ASSUME RequestType
  PROVE  /\ IsFiniteSet(NotificationsPending) /\ Cardinality(NotificationsPending) \in Nat
         /\ \A S \in SUBSET NotificationsPending :
              Cardinality(S) \in Nat /\ Cardinality(S) <= Cardinality(NotificationsPending)
<1>1. IsFiniteSet(Requests)
  BY RequestNumbers, FS_Interval
<1>2. NotificationsPending \subseteq Requests
  BY DEF RequestType, NotificationsPending
<1>3. IsFiniteSet(NotificationsPending)
  BY <1>1, <1>2, FS_Subset
<1> QED BY <1>3, FS_Subset, FS_CardinalityType

(* The device starts with nothing under way. *)
LEMMA InitSend == Init => SendInv
<1> SUFFICES ASSUME Init PROVE SendInv
  OBVIOUS
<1> USE SendAssumption DEF Init
<1>1. MainType
  BY DEF MainType
<1>2. accepted \in Seq(Kinds) /\ queue \in Seq(Requests) /\ answers \in Seq(Answer)
      /\ executed \in Seq(Requests)
  BY EmptySeq
<1>3. DOMAIN accepted = {} /\ DOMAIN queue = {} /\ DOMAIN pending = {} /\ DOMAIN executed = {}
      /\ DOMAIN answers = {} /\ Len(accepted) = 0 /\ Len(queue) = 0
  OBVIOUS
<1>4. NotificationsPending = {} /\ Cardinality({}) = 0
  BY <1>3, FS_EmptySet DEF NotificationsPending
<1>5. RequestType
  BY <1>2, <1>3, <1>4 DEF RequestType
<1>6. RemoteType
  BY <1>2 DEF RemoteType, Jobs, Starting, Routers, EmptySlot, Slots
<1>7. OnceInv /\ LinkInv /\ ReceiptInv
  BY <1>3 DEF OnceInv, LinkInv, ReceiptInv, AtMostOnce, Started, NothingWritten, Starting
<1>8. Truthful(router) /\ Truthful(savedRouter)
  BY DEF Truthful, EmptySlot
<1> QED BY <1>1, <1>5, <1>6, <1>7, <1>8 DEF SendInv

(* What a step leaves alone stays as it was. *)
unchangedRequests == UNCHANGED <<accepted, queue, pending, overdue, resets>>
unchangedRemote == UNCHANGED <<worker, posted, answers, executed, router, savedRouter>>

(* A step that touches neither requests nor Telegram keeps the invariant. *)
LEMMA Unchanged ==
  ASSUME SendInv, unchangedRequests, unchangedRemote, MainType'
  PROVE  SendInv'
<1> USE DEF SendInv, unchangedRequests, unchangedRemote
<1>1. RequestType'
  BY DEF RequestType, Requests, NotificationsPending, MenuAsked
<1>2. RemoteType'
  BY DEF RemoteType, Requests
<1>3. OnceInv'
  BY DEF OnceInv, AtMostOnce, Started, Requests
<1>4. LinkInv' /\ ReceiptInv'
  BY DEF LinkInv, ReceiptInv
<1>5. Truthful(router)' /\ Truthful(savedRouter)'
  BY DEF Truthful, Shows
<1> QED BY <1>1, <1>2, <1>3, <1>4, <1>5

(* A longer set of elements has the sequences of the shorter one. *)
LEMMA SeqGrows ==
  ASSUME NEW S, NEW T, S \subseteq T, NEW s \in Seq(S)
  PROVE  s \in Seq(T)
OBVIOUS

(* A sequence of elements of a set is a sequence over it. *)
LEMMA SeqOf ==
  ASSUME NEW S, NEW T, NEW s \in Seq(S), \A i \in 1 .. Len(s) : s[i] \in T
  PROVE  s \in Seq(T)
OBVIOUS

(* What a new request changes: its number is greater than all, what the     *)
(* others carry stays.                                                      *)
LEMMA Enqueued ==
  ASSUME RequestType, NEW what \in Kinds, TryEnqueue(what)
  PROVE  /\ accepted' \in Seq(Kinds) /\ Len(accepted') = Len(accepted) + 1
         /\ Len(accepted) + 1 <= MaxRequests
         /\ Requests' = Requests \cup {Len(accepted')} /\ Len(accepted') \notin Requests
         /\ \A n \in Requests : accepted'[n] = accepted[n]
         /\ accepted'[Len(accepted')] = what
         /\ queue' \in Seq(Requests') /\ Len(queue') <= Depth
         /\ DOMAIN queue' = 1 .. Len(queue) + 1
         /\ \A i \in DOMAIN queue : queue'[i] = queue[i]
         /\ queue'[Len(queue) + 1] = Len(accepted')
<1>1. /\ accepted' \in Seq(Kinds) /\ Len(accepted') = Len(accepted) + 1
      /\ \A n \in 1 .. Len(accepted) : accepted'[n] = accepted[n]
      /\ accepted'[Len(accepted) + 1] = what
  BY AppendProperties DEF TryEnqueue, RequestType
<1>2. Requests = 1 .. Len(accepted) /\ Len(accepted) \in Nat /\ Requests' = 1 .. Len(accepted')
  BY <1>1, RequestNumbers, LenProperties DEF Requests
<1>3. Requests' = Requests \cup {Len(accepted')} /\ Len(accepted') \notin Requests
  BY <1>1, <1>2
<1>4. queue \in Seq(Requests') /\ Len(accepted') \in Requests'
  BY <1>3, SeqGrows DEF RequestType
<1>5. /\ queue' \in Seq(Requests') /\ Len(queue') = Len(queue) + 1
      /\ \A i \in 1 .. Len(queue) : queue'[i] = queue[i]
      /\ queue'[Len(queue) + 1] = Len(accepted')
  BY <1>4, AppendProperties DEF TryEnqueue
<1>6. Len(queue) \in Nat /\ DOMAIN queue = 1 .. Len(queue) /\ DOMAIN queue' = 1 .. Len(queue')
  BY <1>5, LenProperties DEF RequestType
<1>7. Len(queue') <= Depth /\ Len(accepted) + 1 <= MaxRequests
  BY <1>2, <1>5, <1>6, SendAssumption DEF TryEnqueue
<1> QED BY <1>1, <1>2, <1>3, <1>5, <1>6, <1>7

(* A request is queued, with or without a receipt. *)
LEMMA AskKeeps ==
  ASSUME SendInv, NEW what \in Kinds, TryEnqueue(what), unchangedRemote,
         UNCHANGED <<overdue, resets>>, MainType',
         \/ UNCHANGED pending
         \/ AwaitReceipt /\ (what = Menu \/ Cardinality(NotificationsPending) < MaxPending)
  PROVE  SendInv'
<1> DEFINE k == Len(accepted')
<1> USE DEF SendInv, unchangedRemote
<1>1. /\ accepted' \in Seq(Kinds) /\ k = Len(accepted) + 1 /\ k <= MaxRequests
      /\ Requests' = Requests \cup {k} /\ k \notin Requests
      /\ \A n \in Requests : accepted'[n] = accepted[n]
      /\ accepted'[k] = what
      /\ queue' \in Seq(Requests') /\ Len(queue') <= Depth
      /\ DOMAIN queue' = 1 .. Len(queue) + 1 /\ DOMAIN queue = 1 .. Len(queue)
      /\ Len(queue) \in Nat
      /\ \A i \in DOMAIN queue : queue'[i] = queue[i] /\ queue[i] \in Requests
      /\ queue'[Len(queue) + 1] = k
      /\ Requests = 1 .. Len(accepted) /\ Len(accepted) \in Nat
  BY Enqueued, RequestNumbers, LenProperties, ElementOfSeq DEF RequestType
<1> HIDE DEF k
<1>2. /\ \/ UNCHANGED pending
         \/ DOMAIN pending' = DOMAIN pending \cup {k} /\ pending'[k] = NoReceipt
      /\ \A n \in DOMAIN pending : pending'[n] = pending[n]
      /\ DOMAIN pending \subseteq Requests
      /\ pending' = [n \in DOMAIN pending' |-> pending'[n]]
  BY <1>1 DEF AwaitReceipt, RequestType, k
<1>3. RequestType'
  <2>1. pending' \in [DOMAIN pending' -> Ids]
    BY <1>1, <1>2 DEF RequestType, Ids, NoReceipt
  <2>2. \/ NotificationsPending' = NotificationsPending
        \/ /\ NotificationsPending' = NotificationsPending \cup {k}
           /\ Cardinality(NotificationsPending) < MaxPending
    BY <1>1, <1>2 DEF NotificationsPending, MenuAsked, AwaitReceipt
  <2>3. Cardinality(NotificationsPending') <= MaxPending
    <3>1. Cardinality(NotificationsPending \cup {k}) \in
            {Cardinality(NotificationsPending), Cardinality(NotificationsPending) + 1}
      BY PendingFinite, FS_AddElement
    <3>2. Cardinality(NotificationsPending) <= MaxPending
      BY DEF RequestType
    <3> QED BY <2>2, <3>1, <3>2, PendingFinite, SendAssumption
  <2> QED BY <1>1, <1>2, <2>1, <2>2, <2>3 DEF RequestType, k
<1>4. RemoteType'
  <2>1. executed \in Seq(Requests')
    BY <1>1, SeqGrows DEF RemoteType
  <2> QED BY <1>1, <2>1 DEF RemoteType, Jobs
<1>5. OnceInv'
  <2>1. \A n : Started(n) => n \in Requests
    BY ElementOfSeq, LenProperties DEF Started, RemoteType
  <2>2. worker.n < k /\ \A n \in Requests : n < k
    BY <1>1 DEF RemoteType, Jobs
  <2>3. UNCHANGED AtMostOnce /\ \A n : Started(n)' <=> Started(n)
    BY DEF AtMostOnce, Started
  <2>4. \A i, j \in DOMAIN queue' : i < j => queue'[i] < queue'[j]
    <3> SUFFICES ASSUME NEW i \in DOMAIN queue', NEW j \in DOMAIN queue', i < j
                 PROVE  queue'[i] < queue'[j]
      OBVIOUS
    <3>1. i \in DOMAIN queue /\ queue'[i] = queue[i] /\ queue[i] \in Requests
      BY <1>1
    <3>2. CASE j \in DOMAIN queue
      BY <1>1, <3>1, <3>2 DEF OnceInv
    <3>3. CASE j \notin DOMAIN queue
      <4>1. queue'[j] = k
        BY <1>1, <3>3
      <4> QED BY <2>2, <3>1, <4>1
    <3> QED BY <3>2, <3>3
  <2>5. \A i \in DOMAIN queue' :
          worker.n < queue'[i] /\ \A n \in Requests' : Started(n) => n < queue'[i]
    <3> SUFFICES ASSUME NEW i \in DOMAIN queue'
                 PROVE  worker.n < queue'[i] /\ \A n \in Requests : Started(n) => n < queue'[i]
      BY <2>1
    <3>1. CASE i \in DOMAIN queue
      BY <1>1, <3>1 DEF OnceInv
    <3>2. CASE i \notin DOMAIN queue
      <4>1. queue'[i] = k
        BY <1>1, <3>2
      <4> QED BY <2>2, <4>1
    <3> QED BY <3>1, <3>2
  <2>6. (worker.state \in NothingWritten => worker.n \in Requests /\ ~Started(worker.n))'
    BY <1>1 DEF OnceInv, Started
  <2> QED BY <2>3, <2>4, <2>5, <2>6 DEF OnceInv
<1>6. LinkInv' /\ ReceiptInv'
  BY <1>2 DEF LinkInv, ReceiptInv, NoReceipt
<1>7. ASSUME NEW map, Truthful(map)
      PROVE  \A i \in Slots : map[i].id # 0 => Shows(map[i].id, map[i].phone)'
  <2>1. \A i \in DOMAIN executed : accepted'[executed[i]] = accepted[executed[i]]
    BY <1>1, ElementOfSeq, LenProperties DEF RemoteType
  <2> QED BY <1>7, <2>1 DEF Truthful, Shows
<1>8. Truthful(router)' /\ Truthful(savedRouter)'
  BY <1>7 DEF Truthful
<1> QED BY <1>3, <1>4, <1>5, <1>6, <1>8

-----------------------------------------------------------------------------
(* Receipts are read. *)

(* A receipt that was read is forgotten, and may be entered into the map.   *)
LEMMA ForgetKeeps ==
  ASSUME SendInv, NEW read, pending' = Without(read), overdue' \subseteq overdue \ read,
         UNCHANGED <<accepted, queue, worker, posted, answers, executed, resets>>, MainType',
         router' \in Routers, savedRouter' \in Routers,
         Truthful(router'), Truthful(savedRouter')
  PROVE  SendInv'
<1> USE DEF SendInv
<1>1. /\ DOMAIN pending' \subseteq DOMAIN pending
      /\ \A n \in DOMAIN pending' : pending'[n] = pending[n]
      /\ pending' = [n \in DOMAIN pending' |-> pending'[n]]
  BY DEF Without
<1>2. RequestType'
  <2>1. pending' \in [DOMAIN pending' -> Ids]
    BY <1>1 DEF RequestType
  <2>2. NotificationsPending' \subseteq NotificationsPending
    BY <1>1 DEF NotificationsPending, MenuAsked
  <2>3. Cardinality(NotificationsPending') <= MaxPending
    BY <2>2, PendingFinite, SendAssumption DEF RequestType
  <2>4. overdue' \subseteq NotificationsPending'
    BY DEF NotificationsPending, MenuAsked, Without, RequestType
  <2> QED BY <1>1, <2>1, <2>3, <2>4 DEF RequestType, Requests
<1>3. RemoteType'
  BY DEF RemoteType, Requests
<1>4. OnceInv'
  BY DEF OnceInv, AtMostOnce, Started, Requests
<1>5. LinkInv' /\ ReceiptInv'
  BY <1>1 DEF LinkInv, ReceiptInv
<1>6. Truthful(router)' /\ Truthful(savedRouter)'
  BY DEF Truthful, Shows
<1> QED BY <1>2, <1>3, <1>4, <1>5, <1>6

(* Every message id has a slot in the router. *)
LEMMA SlotIndex == \A id \in Nat : SlotOf(id) \in Slots
BY SendAssumption DEF SlotOf, Slots

(* The entry made for a receipt is of the SMS whose message has that id. *)
LEMMA PutKeeps ==
  ASSUME SendInv, NEW n \in DOMAIN pending, pending[n].kind = "ok", accepted[n] \in Sms,
         Put(pending[n].id, SenderOf[accepted[n]])
  PROVE  /\ router' \in Routers /\ savedRouter' \in Routers
         /\ Truthful(router') /\ Truthful(savedRouter')
<1> USE DEF SendInv
<1> DEFINE id == pending[n].id  phone == SenderOf[accepted[n]]
<1>1. id \in Nat /\ phone \in Numbers /\ Shows(id, phone)
  <2>1. id \in DOMAIN executed /\ executed[id] = n
    BY DEF ReceiptInv
  <2>2. id \in Nat
    BY DEF RequestType, Ids
  <2> QED BY <2>1, <2>2, SendAssumption DEF Shows
<1> HIDE DEF id, phone
<1>2. /\ router' = [router EXCEPT ![SlotOf(id)] = [id |-> id, phone |-> phone]]
      /\ savedRouter' \in {savedRouter, router'}
  BY DEF Put, id, phone
<1>3. router' \in Routers /\ savedRouter' \in Routers
  <2> DEFINE entry == [id |-> id, phone |-> phone]
  <2>1. entry \in [id : Nat, phone : Numbers \cup {NoNumber}]
    BY <1>1
  <2> HIDE DEF entry
  <2>2. [router EXCEPT ![SlotOf(id)] = entry] \in Routers
    BY <2>1 DEF RemoteType, Routers
  <2> QED BY <1>2, <2>2 DEF RemoteType, entry
<1>4. Truthful(router')
  <2> SUFFICES ASSUME NEW k \in Slots, router'[k].id # 0
               PROVE  Shows(router'[k].id, router'[k].phone)
    BY DEF Truthful
  <2>1. CASE k = SlotOf(id)
    BY <1>1, <1>2, <2>1 DEF RemoteType, Routers
  <2>2. CASE k # SlotOf(id)
    BY <1>2, <2>2 DEF RemoteType, Routers, Truthful
  <2> QED BY <2>1, <2>2
<1> QED BY <1>2, <1>3, <1>4

(* A receipt that is processed is not waited for any more. *)
LEMMA ProcessReceiptKeeps ==
  ASSUME SendInv, NEW n \in NotificationsPending, ProcessReceipt(n)
  PROVE  SendInv'
<1> USE DEF SendInv
<1>1. n \in DOMAIN pending
  BY DEF NotificationsPending
<1>2. MainType'
  BY DEF ProcessReceipt, MainType, workerVars
<1>3. overdue' = overdue \ {n}
  BY DEF ProcessReceipt
<1>4. /\ router' \in Routers /\ savedRouter' \in Routers
      /\ Truthful(router') /\ Truthful(savedRouter')
  <2>1. CASE accepted[n] \in Sms /\ pending[n].kind = "ok"
    BY <1>1, <2>1, PutKeeps DEF ProcessReceipt
  <2>2. CASE ~(accepted[n] \in Sms /\ pending[n].kind = "ok")
    BY <2>2 DEF ProcessReceipt, routerVars, RemoteType
  <2> QED BY <2>1, <2>2
<1> QED BY <1>2, <1>3, <1>4, ForgetKeeps DEF ProcessReceipt, workerVars, remoteVars

(* Reading the receipt of the menu forgets that request only. *)
LEMMA ReadRegistrationKeeps == SendInv /\ ReadRegistration => SendInv'
<1> SUFFICES ASSUME SendInv, ReadRegistration PROVE SendInv'
  OBVIOUS
<1> USE DEF SendInv
<1>1. MainType'
  BY DEF ReadRegistration, MainType, workerVars
<1>2. PICK answered \in {{n \in MenuAsked : ~Waiting(n)}} : pending' = Without(answered)
  BY DEF ReadRegistration
<1>3. UNCHANGED <<accepted, queue, worker, posted, answers, executed, resets, router, savedRouter,
                  overdue>>
  BY DEF ReadRegistration, workerVars, remoteVars, routerVars
<1>4. overdue' \subseteq overdue \ answered
  BY <1>2, <1>3 DEF RequestType, NotificationsPending
<1> QED BY <1>1, <1>2, <1>3, <1>4, ForgetKeeps DEF RemoteType

-----------------------------------------------------------------------------
(* A reset. *)

(* What survives of a reply map is as truthful as it was. *)
LEMMA LoadKeeps == SendInv => Load \in Routers /\ Truthful(Load)
BY DEF SendInv, RemoteType, Routers, Load, Truthful, EmptySlot

(* Severing the connection keeps what was posted, without a way back. *)
LEMMA SeveredPosts ==
  ASSUME posted \subseteq [n : Requests, live : BOOLEAN]
  PROVE  /\ Severed \subseteq [n : Requests, live : BOOLEAN]
         /\ \A q \in Severed : ~q.live /\ \E p \in posted : q.n = p.n /\ q = [p EXCEPT !.live = FALSE]
         /\ \A p \in posted : \E q \in Severed : q.n = p.n
<1>1. \A p \in posted : /\ [p EXCEPT !.live = FALSE] \in [n : Requests, live : BOOLEAN]
                        /\ [p EXCEPT !.live = FALSE].n = p.n
                        /\ ~[p EXCEPT !.live = FALSE].live
  OBVIOUS
<1> QED BY <1>1 DEF Severed

(* A cut connection loses nothing that was started, and keeps it single. *)
LEMMA SeveredOnce ==
  ASSUME RemoteType, posted' = Severed, UNCHANGED executed
  PROVE  /\ \A n : Started(n)' <=> Started(n)
         /\ (\A p, q \in posted : p.n = q.n => p = q) =>
              \A p, q \in posted' : p.n = q.n => p = q
         /\ (\A p \in posted : \A i \in DOMAIN executed : executed[i] # p.n) =>
              \A p \in posted' : \A i \in DOMAIN executed' : executed'[i] # p.n
         /\ \A p \in posted' : ~p.live
         /\ posted' \subseteq [n : Requests, live : BOOLEAN]
BY SeveredPosts DEF RemoteType, Started

(* A reset forgets the requests, and no answer to one can arrive after it. *)
LEMMA ResetKeeps ==
  ASSUME SendInv, Reset, resets' \in 0 .. MaxResets
  PROVE  SendInv'
<1> USE DEF SendInv
<1>1. /\ queue' = <<>> /\ pending' = <<>> /\ overdue' = {} /\ worker' = Starting
      /\ posted' = Severed /\ answers' = <<>> /\ router' = Load
      /\ UNCHANGED <<accepted, executed, savedRouter>>
  BY DEF Reset, Disconnect
<1>2. MainType'
  BY DEF Reset, MainType
<1>3. RequestType'
  <2>1. queue' \in Seq(Requests') /\ Len(queue') = 0 /\ DOMAIN pending' = {}
        /\ NotificationsPending' = {} /\ Cardinality({}) = 0
    BY <1>1, EmptySeq, FS_EmptySet DEF NotificationsPending
  <2>2. pending' \in [DOMAIN pending' -> Ids]
    BY <1>1
  <2> QED BY <1>1, <2>1, <2>2, SendAssumption DEF RequestType
<1>4. RemoteType'
  BY <1>1, SeveredOnce, LoadKeeps, EmptySeq DEF RemoteType, Jobs, Starting, Requests
<1>5. OnceInv'
  BY <1>1, SeveredOnce DEF OnceInv, AtMostOnce, NothingWritten, Starting
<1>6. LinkInv' /\ ReceiptInv'
  BY <1>1, SeveredOnce DEF LinkInv, ReceiptInv
<1>7. Truthful(router)' /\ Truthful(savedRouter)'
  BY <1>1, LoadKeeps DEF Truthful, Shows
<1> QED BY <1>2, <1>3, <1>4, <1>5, <1>6, <1>7

-----------------------------------------------------------------------------
(* The worker. *)

(* A receipt put where one is waited for changes nothing else. *)
LEMMA FinishedReceipts ==
  ASSUME RequestType, NEW n, NEW receipt \in Ids,
         UNCHANGED <<accepted, queue, overdue, resets>>,
         pending' = IF n \in DOMAIN pending THEN [pending EXCEPT ![n] = receipt] ELSE pending
  PROVE  /\ RequestType' /\ DOMAIN pending' = DOMAIN pending
         /\ \A m \in DOMAIN pending : m # n => pending'[m] = pending[m]
         /\ n \in DOMAIN pending => pending'[n] = receipt
<1>1. pending \in [DOMAIN pending -> Ids]
  BY DEF RequestType
<1>2. DOMAIN pending' = DOMAIN pending
  OBVIOUS
<1>3. pending' \in [DOMAIN pending' -> Ids]
  BY <1>1, <1>2
<1>4. RequestType'
  BY <1>2, <1>3 DEF RequestType, Requests, NotificationsPending, MenuAsked
<1> QED BY <1>1, <1>2, <1>4

(* The steps of the worker that write no body and take no answer: they keep *)
(* an idle connection, or cut whatever there is, or hang, and they bring at *)
(* most a receipt that says failed.                                         *)
Idles == UNCHANGED <<posted, answers>> /\ worker.state \notin {"answer", "hung"}
Hangs == UNCHANGED <<posted, answers>> /\ worker'.state = "hung"
Cuts == posted' = Severed /\ answers' = <<>>

(* What the worker does between writing and reading: it keeps its request or *)
(* lets it go, and fails a receipt only of a request that is its own.        *)
LEMMA WorkerGoesOn ==
  ASSUME SendInv, MainType', worker' \in Jobs(Requests),
         UNCHANGED <<accepted, queue, overdue, resets, executed, router, savedRouter>>,
         worker'.n \in {0, worker.n},
         worker'.state \in NothingWritten =>
           worker.state \in NothingWritten /\ worker'.n = worker.n,
         Idles \/ Hangs \/ Cuts,
         \/ UNCHANGED pending
         \/ pending' = IF worker.n \in DOMAIN pending THEN [pending EXCEPT ![worker.n] = Failed]
                       ELSE pending
  PROVE  SendInv'
<1> USE DEF SendInv
<1>1. /\ RequestType' /\ DOMAIN pending' = DOMAIN pending
      /\ \A m \in DOMAIN pending : pending'[m] \in {pending[m], Failed}
  <2>1. CASE UNCHANGED pending
    BY <2>1 DEF RequestType, Requests, NotificationsPending, MenuAsked
  <2>2. CASE pending' = IF worker.n \in DOMAIN pending THEN [pending EXCEPT ![worker.n] = Failed]
                        ELSE pending
    <3>1. Failed \in Ids
      BY DEF Failed, Ids
    <3> QED BY <2>2, <3>1, FinishedReceipts
  <2> QED BY <2>1, <2>2
<1>2. /\ \A n : Started(n)' <=> Started(n)
      /\ \A p, q \in posted' : p.n = q.n => p = q
      /\ \A p \in posted' : \A i \in DOMAIN executed' : executed'[i] # p.n
      /\ posted' \subseteq [n : Requests, live : BOOLEAN]
  <2>1. CASE UNCHANGED <<posted, answers>>
    BY <2>1 DEF Started, OnceInv, RemoteType
  <2>2. CASE Cuts
    BY <2>2, SeveredOnce DEF Cuts, OnceInv
  <2> QED BY <2>1, <2>2 DEF Idles, Hangs
<1>3. RemoteType'
  BY <1>2, EmptySeq DEF RemoteType, Requests, Idles, Hangs, Cuts
<1>4. OnceInv'
  <2>1. \A i \in DOMAIN queue : queue[i] \in Nat \ {0}
    BY RequestNumbers, ElementOfSeq, LenProperties DEF RequestType
  <2>2. \A i \in DOMAIN queue' : worker'.n < queue'[i] /\ \A n \in Requests' : Started(n)' => n < queue'[i]
    BY <1>2, <2>1 DEF OnceInv, Requests
  <2>3. (worker.state \in NothingWritten => worker.n \in Requests /\ ~Started(worker.n))'
    BY <1>2 DEF OnceInv, Started, Requests
  <2>4. \A i, j \in DOMAIN queue' : i < j => queue'[i] < queue'[j]
    BY DEF OnceInv
  <2>5. AtMostOnce'
    BY DEF OnceInv, AtMostOnce
  <2> QED BY <1>2, <2>2, <2>3, <2>4, <2>5 DEF OnceInv
<1>5. LinkInv'
  <2>1. CASE Idles
    BY <2>1 DEF Idles, LinkInv
  <2>2. CASE Hangs
    BY <2>2 DEF Hangs, LinkInv
  <2>3. CASE Cuts
    BY <2>3, SeveredOnce DEF Cuts, LinkInv
  <2> QED BY <2>1, <2>2, <2>3
<1>6. ReceiptInv'
  BY <1>1 DEF ReceiptInv, Failed
<1>7. Truthful(router)' /\ Truthful(savedRouter)'
  BY DEF Truthful, Shows
<1> QED BY <1>1, <1>3, <1>4, <1>5, <1>6, <1>7

(* The steps of this kind. *)
LEMMA NotSentSteps ==
  ASSUME SendInv, NotSent
  PROVE  /\ worker' \in Jobs(Requests) /\ worker'.n \in {0, worker.n}
         /\ worker'.state \in {"idle", "sleep"}
         /\ worker'.state \in NothingWritten => worker'.n = worker.n
         /\ Cuts /\ UNCHANGED executed
         /\ \/ UNCHANGED pending
            \/ pending' = IF worker.n \in DOMAIN pending THEN [pending EXCEPT ![worker.n] = Failed]
                          ELSE pending
         /\ age' \in {"young", "old", "stalled"} /\ messenger' \in {"none", "closed", "open"}
         /\ restart' \in BOOLEAN
<1>1. worker \in Jobs(Requests)
  BY DEF SendInv, RemoteType
<1>2. Cuts /\ UNCHANGED executed /\ messenger' = "none"
  BY DEF NotSent, Disconnect, Cuts
<1>3. CASE Finish(Failed) /\ restart' \in {TRUE, restart}
  BY <1>1, <1>2, <1>3 DEF Finish, Idle, Jobs, NothingWritten, SendInv, MainType
<1>4. CASE Goto("sleep") /\ UNCHANGED restart
  BY <1>1, <1>2, <1>4 DEF Goto, Jobs, NothingWritten, SendInv, MainType
<1> QED BY <1>3, <1>4 DEF NotSent, RetriedInVain

(* What the worker never touches. *)
LEMMA ByWorker ==
  ASSUME unchangedByWorker' = unchangedByWorker
  PROVE  /\ UNCHANGED <<pc, wifi, registered>>
         /\ UNCHANGED <<accepted, overdue, resets, router, savedRouter>>
BY DEF unchangedByWorker, routerVars

(* The worker's start and its connections. *)
LEMMA WorkerSetsOut ==
  SendInv /\ (WorkerStart \/ EnsureMessenger \/ EnsureConnected) => SendInv'
<1> SUFFICES ASSUME SendInv, WorkerStart \/ EnsureMessenger \/ EnsureConnected PROVE SendInv'
  OBVIOUS
<1>1. worker \in Jobs(Requests)
  BY DEF SendInv, RemoteType
<1>2. CASE WorkerStart
  <2>1. /\ worker' = Idle /\ age' = "young" /\ messenger' \in {"none", "open"}
        /\ UNCHANGED <<queue, restart, pending, posted, answers, executed>>
        /\ worker.state = "start"
    BY <1>2 DEF WorkerStart, remoteVars
  <2>2. MainType'
    BY <1>2, <2>1, ByWorker DEF WorkerStart, SendInv, MainType
  <2> QED BY <1>2, <2>1, <2>2, ByWorker, WorkerGoesOn
          DEF WorkerStart, Idle, Jobs, NothingWritten, Idles
<1>3. CASE EnsureMessenger
  <2>0. worker.state = "attempt" /\ UNCHANGED queue /\ unchangedByWorker' = unchangedByWorker
    BY <1>3 DEF EnsureMessenger
  <2>1. CASE NotSent
    <3>1. MainType'
      BY <2>0, <2>1, NotSentSteps, ByWorker DEF SendInv, MainType
    <3> QED BY <2>0, <2>1, <3>1, NotSentSteps, ByWorker, WorkerGoesOn DEF NothingWritten
  <2>2. CASE ~NotSent
    <3>1. /\ worker' = [worker EXCEPT !.state = IF messenger = "none" THEN "header" ELSE "connect",
                                      !.again = FALSE]
          /\ messenger' = IF messenger = "none" THEN "open" ELSE messenger
          /\ UNCHANGED <<restart, pending, age, posted, answers, executed>>
      BY <1>3, <2>2 DEF EnsureMessenger, remoteVars
    <3>2. MainType'
      BY <2>0, <3>1, ByWorker DEF SendInv, MainType
    <3>3. worker' \in Jobs(Requests) /\ worker'.n = worker.n
      BY <1>1, <3>1 DEF Jobs
    <3> QED BY <2>0, <3>1, <3>2, <3>3, ByWorker, WorkerGoesOn DEF NothingWritten, Idles
  <2> QED BY <2>1, <2>2
<1>4. CASE EnsureConnected
  <2>0. worker.state = "connect" /\ UNCHANGED queue /\ unchangedByWorker' = unchangedByWorker
    BY <1>4 DEF EnsureConnected
  <2>1. CASE NotSent
    <3>1. MainType'
      BY <2>0, <2>1, NotSentSteps, ByWorker DEF SendInv, MainType
    <3> QED BY <2>0, <2>1, <3>1, NotSentSteps, ByWorker, WorkerGoesOn DEF NothingWritten
  <2>2. CASE ~NotSent
    <3>1. /\ worker' = [worker EXCEPT !.state = "header"] /\ messenger' \in {messenger, "open"}
          /\ UNCHANGED <<restart, pending, age, executed>>
          /\ UNCHANGED <<posted, answers>> \/ Cuts
      BY <1>4, <2>2 DEF EnsureConnected, Goto, Disconnect, Cuts, remoteVars
    <3>2. MainType'
      BY <2>0, <3>1, ByWorker DEF SendInv, MainType
    <3>3. worker' \in Jobs(Requests) /\ worker'.n = worker.n
      BY <1>1, <3>1 DEF Jobs
    <3> QED BY <2>0, <3>1, <3>2, <3>3, ByWorker, WorkerGoesOn DEF NothingWritten, Idles
  <2> QED BY <2>1, <2>2
<1> QED BY <1>2, <1>3, <1>4

(* The worker's failures before and after the request is written. *)
LEMMA WorkerTrips ==
  SendInv /\ (WriteHeader \/ HeaderFails \/ ReadFails \/ Sleep \/ Hang) => SendInv'
<1> SUFFICES ASSUME SendInv, WriteHeader \/ HeaderFails \/ ReadFails \/ Sleep \/ Hang
             PROVE  SendInv'
  OBVIOUS
<1>0. worker \in Jobs(Requests) /\ UNCHANGED queue /\ unchangedByWorker' = unchangedByWorker
  BY DEF SendInv, RemoteType, WriteHeader, HeaderFails, ReadFails, Sleep, Hang
<1>1. CASE NotSent /\ worker.state = "header"
  <2>1. MainType'
    BY <1>0, <1>1, NotSentSteps, ByWorker DEF SendInv, MainType
  <2> QED BY <1>0, <1>1, <2>1, NotSentSteps, ByWorker, WorkerGoesOn DEF NothingWritten
<1>2. CASE WriteHeader
  <2>1. /\ worker' = [worker EXCEPT !.state = "body", !.again = FALSE]
        /\ UNCHANGED <<restart, pending, age, messenger, posted, answers, executed>>
        /\ worker.state = "header"
    BY <1>2 DEF WriteHeader, remoteVars
  <2>2. MainType'
    BY <1>0, <2>1, ByWorker DEF SendInv, MainType
  <2>3. worker' \in Jobs(Requests) /\ worker'.n = worker.n
    BY <1>0, <2>1 DEF Jobs
  <2> QED BY <1>0, <2>1, <2>2, <2>3, ByWorker, WorkerGoesOn DEF NothingWritten, Idles
<1>3. CASE HeaderFails /\ ~NotSent
  <2>1. /\ worker' = [worker EXCEPT !.state = "connect", !.again = TRUE] /\ messenger' = "closed"
        /\ UNCHANGED <<restart, pending, age, executed>> /\ Cuts
        /\ worker.state = "header"
    BY <1>3 DEF HeaderFails, Disconnect, Cuts
  <2>2. MainType'
    BY <1>0, <2>1, ByWorker DEF SendInv, MainType
  <2>3. worker' \in Jobs(Requests) /\ worker'.n = worker.n
    BY <1>0, <2>1 DEF Jobs
  <2> QED BY <1>0, <2>1, <2>2, <2>3, ByWorker, WorkerGoesOn DEF NothingWritten
<1>4. CASE ReadFails
  <2>1. /\ worker' = Idle /\ age' = "young" /\ messenger' = "closed"
        /\ UNCHANGED <<restart, executed>> /\ Cuts
        /\ pending' = IF worker.n \in DOMAIN pending THEN [pending EXCEPT ![worker.n] = Failed]
                      ELSE pending
    BY <1>4 DEF ReadFails, OutcomeUnknown, Finish, Disconnect, Cuts
  <2>2. MainType'
    BY <1>0, <2>1, ByWorker DEF SendInv, MainType
  <2> QED BY <1>0, <2>1, <2>2, ByWorker, WorkerGoesOn DEF NothingWritten, Idle, Jobs
<1>5. CASE Sleep
  <2>1. /\ worker.state = "sleep"
        /\ UNCHANGED <<messenger, posted, answers, executed>>
        /\ \/ Goto("attempt") /\ UNCHANGED restart
           \/ restart' = TRUE /\ Finish(Failed)
    BY <1>5 DEF Sleep, RetriedInVain, remoteVars
  <2>2. CASE Goto("attempt") /\ UNCHANGED restart
    <3>1. worker' \in Jobs(Requests) /\ worker'.n = worker.n
      BY <1>0, <2>2 DEF Goto, Jobs
    <3>2. MainType' /\ UNCHANGED pending
      BY <1>0, <2>1, <2>2, ByWorker DEF Goto, SendInv, MainType
    <3> QED BY <1>0, <2>1, <3>1, <3>2, ByWorker, WorkerGoesOn DEF NothingWritten, Idles
  <2>3. CASE restart' = TRUE /\ Finish(Failed)
    <3>1. MainType'
      BY <1>0, <2>1, <2>3, ByWorker DEF Finish, SendInv, MainType
    <3> QED BY <1>0, <2>1, <2>3, <3>1, ByWorker, WorkerGoesOn
            DEF Finish, NothingWritten, Idle, Jobs, Idles
  <2> QED BY <2>1, <2>2, <2>3
<1>6. CASE Hang
  <2>1. /\ worker' = [Idle EXCEPT !.state = "hung"]
        /\ UNCHANGED <<restart, pending, age, messenger, posted, answers, executed>>
    BY <1>6 DEF Hang, remoteVars
  <2>2. MainType'
    BY <1>0, <2>1, ByWorker DEF SendInv, MainType
  <2>3. worker' \in Jobs(Requests) /\ worker'.n = 0 /\ worker'.state = "hung"
    BY <2>1 DEF Jobs, Idle
  <2> QED BY <1>0, <2>1, <2>2, <2>3, ByWorker, WorkerGoesOn DEF NothingWritten, Hangs
<1> QED BY <1>1, <1>2, <1>3, <1>4, <1>5, <1>6 DEF HeaderFails

(* The next request: it comes after all that were started. *)
LEMMA TakeKeeps == SendInv /\ Take => SendInv'
<1> SUFFICES ASSUME SendInv, Take PROVE SendInv'
  OBVIOUS
<1> USE DEF SendInv
<1>1. /\ worker.state = "idle" /\ queue # <<>> /\ queue' = Tail(queue)
      /\ worker' = [state |-> "attempt", n |-> Head(queue), again |-> FALSE]
      /\ UNCHANGED <<restart, pending, age, messenger, posted, answers, executed>>
      /\ UNCHANGED <<pc, wifi, registered, accepted, overdue, resets, router, savedRouter>>
  BY ByWorker DEF Take, remoteVars
<1>2. /\ Head(queue) = queue[1] /\ queue[1] \in Requests /\ queue' \in Seq(Requests)
      /\ Len(queue') = Len(queue) - 1 /\ Len(queue) \in Nat \ {0}
      /\ DOMAIN queue = 1 .. Len(queue) /\ DOMAIN queue' = 1 .. Len(queue) - 1
      /\ \A i \in 1 .. Len(queue) - 1 : queue'[i] = queue[i + 1]
  BY <1>1, HeadTailProperties, LenProperties, ElementOfSeq, EmptySeq DEF RequestType
<1>3. MainType'
  BY <1>1 DEF MainType
<1>4. RequestType'
  <2>1. Len(queue') <= Depth
    BY <1>2, SendAssumption DEF RequestType
  <2> QED BY <1>1, <1>2, <2>1 DEF RequestType, Requests, NotificationsPending, MenuAsked
<1>5. RemoteType'
  BY <1>1, <1>2 DEF RemoteType, Jobs, Requests
<1>6. OnceInv'
  <2>1. \A i \in 1 .. Len(queue) - 1 :
          i + 1 \in DOMAIN queue /\ queue'[i] = queue[i + 1] /\ queue[1] < queue[i + 1]
    <3> SUFFICES ASSUME NEW i \in 1 .. Len(queue) - 1
                 PROVE  i + 1 \in DOMAIN queue /\ queue'[i] = queue[i + 1] /\ queue[1] < queue[i + 1]
      OBVIOUS
    <3>1. 1 \in DOMAIN queue /\ i + 1 \in DOMAIN queue /\ 1 < i + 1
      BY <1>2
    <3> QED BY <1>2, <3>1 DEF OnceInv
  <2>2. \A i, j \in DOMAIN queue' : i < j => queue'[i] < queue'[j]
    <3> SUFFICES ASSUME NEW i \in DOMAIN queue', NEW j \in DOMAIN queue', i < j
                 PROVE  queue'[i] < queue'[j]
      OBVIOUS
    <3>1. i + 1 \in DOMAIN queue /\ j + 1 \in DOMAIN queue /\ i + 1 < j + 1
      BY <1>2
    <3>2. queue[i + 1] < queue[j + 1]
      BY <3>1 DEF OnceInv
    <3> QED BY <1>2, <3>2
  <2>3. \A n : Started(n)' <=> Started(n)
    BY <1>1 DEF Started
  <2>4. worker'.n = queue[1]
    BY <1>1, <1>2
  <2>5. ~Started(queue[1])
    <3>1. 1 \in DOMAIN queue /\ queue[1] \in Nat
      BY <1>2, RequestNumbers
    <3>2. Started(queue[1]) => queue[1] < queue[1]
      BY <1>2, <3>1 DEF OnceInv
    <3> QED BY <3>1, <3>2
  <2>6. \A i \in DOMAIN queue' :
          worker'.n < queue'[i] /\ \A n \in Requests' : Started(n)' => n < queue'[i]
    BY <1>1, <1>2, <2>1, <2>3, <2>4 DEF OnceInv, Requests
  <2>7. (worker.n \in Requests /\ ~Started(worker.n))'
    BY <1>1, <1>2, <2>4, <2>5 DEF Started, Requests
  <2> QED BY <1>1, <2>2, <2>6, <2>7 DEF OnceInv, AtMostOnce
<1>7. LinkInv' /\ ReceiptInv'
  BY <1>1 DEF LinkInv, ReceiptInv
<1>8. Truthful(router)' /\ Truthful(savedRouter)'
  BY <1>1 DEF Truthful, Shows
<1> QED BY <1>3, <1>4, <1>5, <1>6, <1>7, <1>8

(* While no answer is awaited there is nothing alive on the connection. *)
LEMMA Quiet ==
  ASSUME SendInv, worker.state \notin {"answer", "hung"}
  PROVE  answers = <<>> /\ Severed = posted /\ \A p \in posted : ~p.live
<1>1. answers = <<>> /\ \A p \in posted : ~p.live
  BY DEF SendInv, LinkInv
<1>2. \A p \in posted : [p EXCEPT !.live = FALSE] = p
  BY <1>1 DEF SendInv, RemoteType
<1> QED BY <1>1, <1>2 DEF Severed

(* A body that was written, wholly or in part, starts the request: it had   *)
(* not been started before.                                                 *)
LEMMA WriteKeeps ==
  ASSUME SendInv, worker.state = "body", MainType',
         UNCHANGED <<accepted, queue, overdue, resets, executed, router, savedRouter>>,
         NEW live \in BOOLEAN, NEW new \in SUBSET {[n |-> worker.n, live |-> live]},
         posted' = posted \cup new, answers' = <<>>,
         \/ worker' = Idle /\ ~live
         \/ worker' = [worker EXCEPT !.state = "answer"],
         \/ UNCHANGED pending
         \/ pending' = IF worker.n \in DOMAIN pending THEN [pending EXCEPT ![worker.n] = Failed]
                       ELSE pending
  PROVE  SendInv'
<1> USE DEF SendInv
<1>1. /\ worker.n \in Requests /\ ~Started(worker.n)
      /\ \A p \in posted : ~p.live
      /\ worker \in Jobs(Requests)
  BY Quiet DEF OnceInv, NothingWritten, RemoteType
<1>2. \A p \in new : p.n = worker.n /\ p.live = live
  OBVIOUS
<1>3. worker' \in Jobs(Requests) /\ worker'.state \in {"idle", "answer"}
      /\ worker'.n \in {0, worker.n}
      /\ (live => worker'.state = "answer" /\ worker'.n = worker.n)
  <2>1. CASE worker' = Idle /\ ~live
    BY <2>1 DEF Jobs, Idle
  <2>2. CASE worker' = [worker EXCEPT !.state = "answer"]
    <3>1. worker' \in Jobs(Requests) /\ worker'.state = "answer" /\ worker'.n = worker.n
      BY <1>1, <2>2 DEF Jobs
    <3> QED BY <3>1
  <2> QED BY <2>1, <2>2
<1>4. /\ RequestType' /\ DOMAIN pending' = DOMAIN pending
      /\ \A m \in DOMAIN pending : pending'[m] \in {pending[m], Failed}
  <2>1. CASE UNCHANGED pending
    BY <2>1 DEF RequestType, Requests, NotificationsPending, MenuAsked
  <2>2. CASE pending' = IF worker.n \in DOMAIN pending THEN [pending EXCEPT ![worker.n] = Failed]
                        ELSE pending
    <3>1. Failed \in Ids
      BY DEF Failed, Ids
    <3> QED BY <2>2, <3>1, FinishedReceipts
  <2> QED BY <2>1, <2>2
<1>5. RemoteType'
  <2>1. new \subseteq [n : Requests, live : BOOLEAN]
    BY <1>1
  <2> QED BY <1>3, <2>1, EmptySeq DEF RemoteType, Requests
<1>6. OnceInv'
  <2>1. \A n : Started(n)' => Started(n) \/ n = worker.n
    BY <1>2 DEF Started
  <2>2. \A i \in DOMAIN queue' : worker'.n < queue'[i] /\ \A n \in Requests' : Started(n)' => n < queue'[i]
    <3>1. \A i \in DOMAIN queue : queue[i] \in Nat \ {0}
      BY RequestNumbers, ElementOfSeq, LenProperties DEF RequestType
    <3> QED BY <1>3, <2>1, <3>1 DEF OnceInv, Requests
  <2>3. \A p \in posted : p.n # worker.n
    BY <1>1 DEF Started
  <2>4. \A i \in DOMAIN executed : executed[i] # worker.n
    BY <1>1 DEF Started
  <2>5. \A p, q \in posted' : p.n = q.n => p = q
    BY <1>2, <2>3 DEF OnceInv
  <2>6. \A p \in posted' : \A i \in DOMAIN executed' : executed'[i] # p.n
    BY <1>2, <2>4 DEF OnceInv
  <2>7. \A i, j \in DOMAIN queue' : i < j => queue'[i] < queue'[j]
    BY DEF OnceInv
  <2> QED BY <1>3, <2>2, <2>5, <2>6, <2>7 DEF OnceInv, AtMostOnce, NothingWritten
<1>7. LinkInv' /\ ReceiptInv'
  BY <1>1, <1>2, <1>3, <1>4 DEF LinkInv, ReceiptInv, Failed
<1>8. Truthful(router)' /\ Truthful(savedRouter)'
  BY DEF Truthful, Shows
<1> QED BY <1>4, <1>5, <1>6, <1>7, <1>8

(* Once the body is written the request may be executed, and only once. *)
LEMMA BodyKeeps == SendInv /\ (WriteBody \/ BodyFails) => SendInv'
<1> SUFFICES ASSUME SendInv, WriteBody \/ BodyFails PROVE SendInv'
  OBVIOUS
<1>1. /\ worker.state = "body" /\ UNCHANGED <<queue, restart, executed>>
      /\ unchangedByWorker' = unchangedByWorker
  BY DEF WriteBody, BodyFails
<1>2. answers = <<>> /\ Severed = posted
  BY <1>1, Quiet
<1>3. CASE WriteBody
  <2>1. /\ worker' = [worker EXCEPT !.state = "answer"]
        /\ UNCHANGED <<pending, age, messenger, answers>>
        /\ posted' = posted \cup {[n |-> worker.n, live |-> TRUE]}
    BY <1>3 DEF WriteBody, Goto
  <2>2. MainType'
    BY <1>1, <2>1, ByWorker DEF SendInv, MainType
  <2> QED BY <1>1, <1>2, <2>1, <2>2, ByWorker, WriteKeeps
<1>4. CASE BodyFails
  <2>1. /\ worker' = Idle /\ age' = "young" /\ messenger' = "closed" /\ answers' = <<>>
        /\ pending' = IF worker.n \in DOMAIN pending THEN [pending EXCEPT ![worker.n] = Failed]
                      ELSE pending
    BY <1>4 DEF BodyFails, Finish
  <2>2. MainType'
    BY <1>1, <2>1, ByWorker DEF SendInv, MainType
  <2>3. PICK sent \in SUBSET {worker.n} :
          posted' = posted \cup {[n |-> m, live |-> FALSE] : m \in sent}
    BY <1>2, <1>4 DEF BodyFails
  <2> DEFINE new == {[n |-> m, live |-> FALSE] : m \in sent}
  <2>4. new \in SUBSET {[n |-> worker.n, live |-> FALSE]}
    OBVIOUS
  <2> HIDE DEF new
  <2>5. posted' = posted \cup new
    BY <2>3 DEF new
  <2> QED BY <1>1, <2>1, <2>2, <2>4, <2>5, ByWorker, WriteKeeps
<1> QED BY <1>3, <1>4

(* The one answer on the connection is to the request in hand. *)
LEMMA ReadAnswerKeeps == SendInv /\ ReadAnswer => SendInv'
<1> SUFFICES ASSUME SendInv, ReadAnswer PROVE SendInv'
  OBVIOUS
<1> USE DEF SendInv
<1> DEFINE a == answers[1]
           receipt == IF a.ok THEN Confirmed(a.id) ELSE Failed
<1>1. worker.state = "answer" /\ answers # <<>>
  BY DEF ReadAnswer
<1>2. /\ Len(answers) = 1 /\ \A p \in posted : ~p.live
      /\ a.ok => executed[a.id] = worker.n
      /\ IF a.ok THEN a.id \in DOMAIN executed ELSE a.id = 0
      /\ a \in Answer /\ Head(answers) = a /\ Tail(answers) = <<>>
  <2>1. /\ Len(answers) = 1 /\ \A p \in posted : ~p.live
        /\ a.ok => executed[a.id] = worker.n
    BY <1>1 DEF LinkInv
  <2>2. 1 \in DOMAIN answers /\ a \in Answer /\ Head(answers) = a
    BY <1>1, <2>1, LenProperties, ElementOfSeq, HeadTailProperties DEF RemoteType
  <2>3. Tail(answers) = <<>>
    <3>1. Tail(answers) \in Seq(Answer) /\ Len(Tail(answers)) = 0
      BY <1>1, <2>1, HeadTailProperties DEF RemoteType
    <3> QED BY <3>1, EmptySeq
  <2> QED BY <2>1, <2>2, <2>3 DEF LinkInv
<1> HIDE DEF a
<1>3. posted' = posted /\ answers' = <<>> /\ messenger' \in {messenger, "closed"}
      /\ UNCHANGED executed
  <2>1. Severed = posted
    <3>1. \A p \in posted : [p EXCEPT !.live = FALSE] = p
      BY <1>2 DEF RemoteType
    <3> QED BY <3>1 DEF Severed
  <2> QED BY <1>2, <2>1 DEF ReadAnswer, Disconnect
<1>4. /\ worker' = Idle /\ age' = "young"
      /\ pending' = IF worker.n \in DOMAIN pending THEN [pending EXCEPT ![worker.n] = receipt]
                    ELSE pending
      /\ UNCHANGED <<queue, restart>>
      /\ UNCHANGED <<pc, wifi, registered, accepted, overdue, resets, router, savedRouter>>
  BY <1>2, ByWorker DEF ReadAnswer, Finish
<1>5. MainType'
  BY <1>3, <1>4 DEF MainType
<1>6. receipt \in Ids /\ (receipt.kind = "ok" => receipt.id = a.id /\ a.ok)
      /\ (receipt.kind # "ok" => receipt.id = 0)
  <2>1. a.id \in Nat
    BY <1>2 DEF Answer
  <2>2. CASE a.ok
    BY <2>1, <2>2 DEF Confirmed, Ids
  <2>3. CASE ~a.ok
    BY <2>3 DEF Failed, Ids
  <2> QED BY <2>2, <2>3
<1> HIDE DEF receipt
<1>7. /\ RequestType' /\ DOMAIN pending' = DOMAIN pending
      /\ \A m \in DOMAIN pending : m # worker.n => pending'[m] = pending[m]
      /\ worker.n \in DOMAIN pending => pending'[worker.n] = receipt
  BY <1>4, <1>6, FinishedReceipts
<1>8. RemoteType'
  BY <1>3, <1>4, EmptySeq DEF RemoteType, Requests, Jobs, Idle
<1>9. OnceInv'
  <2>1. \A i \in DOMAIN queue : queue[i] \in Nat \ {0}
    BY RequestNumbers, ElementOfSeq, LenProperties DEF RequestType
  <2>2. \A i \in DOMAIN queue' : worker'.n < queue'[i] /\ \A n \in Requests' : Started(n)' => n < queue'[i]
    BY <1>3, <1>4, <2>1 DEF OnceInv, Requests, Started, Idle
  <2> QED BY <1>3, <1>4, <2>2 DEF OnceInv, AtMostOnce, NothingWritten, Idle
<1>10. LinkInv' /\ ReceiptInv'
  <2>1. LinkInv'
    BY <1>2, <1>3 DEF LinkInv
  <2>2. ReceiptInv'
    BY <1>2, <1>3, <1>6, <1>7 DEF ReceiptInv
  <2> QED BY <2>1, <2>2
<1>11. Truthful(router)' /\ Truthful(savedRouter)'
  BY <1>3, <1>4 DEF Truthful, Shows
<1> QED BY <1>5, <1>7, <1>8, <1>9, <1>10, <1>11

-----------------------------------------------------------------------------
(* Telegram. *)

(* What a post was, once it is dealt with: nobody else's. *)
LEMMA PostTaken ==
  ASSUME SendInv, NEW p \in posted, posted' = posted \ {p}
  PROVE  /\ p.n \in Requests /\ p.live \in BOOLEAN
         /\ \A q \in posted' : q \in posted /\ q.n # p.n
         /\ \A i \in DOMAIN executed : executed[i] # p.n
         /\ p.live => /\ \A q \in posted' : q.live => worker.state = "hung"
                      /\ worker.state = "hung" \/ (worker.state = "answer" /\ p.n = worker.n
                                                   /\ answers = <<>>)
<1>1. p.n \in Requests /\ p.live \in BOOLEAN
  BY DEF SendInv, RemoteType
<1>2. \A q \in posted' : q \in posted /\ q.n # p.n
  BY DEF SendInv, OnceInv
<1>3. \A i \in DOMAIN executed : executed[i] # p.n
  BY DEF SendInv, OnceInv
<1>4. ASSUME p.live
      PROVE  /\ \A q \in posted' : q.live => worker.state = "hung"
             /\ worker.state = "hung" \/ (worker.state = "answer" /\ p.n = worker.n
                                          /\ answers = <<>>)
  BY <1>2, <1>4 DEF SendInv, LinkInv
<1> QED BY <1>1, <1>2, <1>3, <1>4

(* An answer is appended while its connection lives. *)
LEMMA AnswerGiven ==
  ASSUME SendInv, NEW p \in posted, NEW answer \in Answer, Answers(p, answer)
  PROVE  /\ answers' \in Seq(Answer)
         /\ \A i \in DOMAIN answers' :
              answers'[i] = answer \/ (i \in DOMAIN answers /\ answers'[i] = answers[i])
         /\ p.live /\ answers = <<>> => Len(answers') = 1 /\ answers'[1] = answer
         /\ ~p.live => answers' = answers
<1>1. CASE p.live
  <2>1. /\ answers' = Append(answers, answer) /\ answers \in Seq(Answer)
    BY <1>1 DEF Answers, SendInv, RemoteType
  <2>2. /\ answers' \in Seq(Answer) /\ Len(answers') = Len(answers) + 1
        /\ \A i \in 1 .. Len(answers) : answers'[i] = answers[i]
        /\ answers'[Len(answers) + 1] = answer
    BY <2>1, AppendProperties
  <2>3. DOMAIN answers' = 1 .. Len(answers) + 1 /\ DOMAIN answers = 1 .. Len(answers)
        /\ Len(answers) \in Nat
    BY <2>1, <2>2, LenProperties
  <2>4. answers = <<>> => Len(answers) = 0
    OBVIOUS
  <2> QED BY <1>1, <2>2, <2>3, <2>4
<1>2. CASE ~p.live
  BY <1>2 DEF Answers, SendInv, RemoteType
<1> QED BY <1>1, <1>2

(* What Telegram does changes neither the main loop nor the worker. *)
LEMMA ByTelegram ==
  ASSUME SendInv, UNCHANGED unchangedByTelegram
  PROVE  /\ MainType' /\ RequestType'
         /\ UNCHANGED <<accepted, queue, pending, overdue, resets, worker, router, savedRouter>>
<1>1. /\ UNCHANGED <<accepted, queue, pending, overdue, resets, worker, router, savedRouter>>
      /\ UNCHANGED <<pc, wifi, registered, restart, age, messenger>>
  BY DEF unchangedByTelegram, mainVars, workerVars, routerVars
<1>2. MainType'
  BY <1>1 DEF SendInv, MainType
<1>3. RequestType'
  BY <1>1 DEF SendInv, RequestType, Requests, NotificationsPending, MenuAsked
<1> QED BY <1>1, <1>2, <1>3

(* A request that is carried out leaves the posts, and its answer is on the *)
(* connection on which the worker waits for it, or nowhere.                 *)
LEMMA ExecuteKeeps == ASSUME SendInv, NEW p \in posted, Execute(p) PROVE SendInv'
<1> USE DEF SendInv
<1>1. /\ posted' = posted \ {p} /\ executed' = Append(executed, p.n)
      /\ UNCHANGED unchangedByTelegram
  BY DEF Execute
<1>2. PICK answer \in Answer :
        /\ Answers(p, answer)
        /\ IF answer.ok THEN answer.id = Len(executed') ELSE answer.id = 0
  <2>1. Len(executed') \in Nat
    BY <1>1, PostTaken, AppendProperties, LenProperties DEF RemoteType
  <2>2. PICK close, readable \in BOOLEAN :
          Answers(p, [ok |-> readable, id |-> IF readable THEN Len(executed') ELSE 0,
                      close |-> close])
    BY DEF Execute
  <2> DEFINE given == [ok |-> readable, id |-> IF readable THEN Len(executed') ELSE 0,
                       close |-> close]
  <2>3. given \in Answer /\ IF given.ok THEN given.id = Len(executed') ELSE given.id = 0
    <3>1. CASE readable
      BY <2>1, <3>1 DEF Answer
    <3>2. CASE ~readable
      BY <3>2 DEF Answer
    <3> QED BY <3>1, <3>2
  <2> HIDE DEF given
  <2> QED BY <2>2, <2>3 DEF given
<1>3. /\ executed' \in Seq(Requests) /\ Len(executed') = Len(executed) + 1
      /\ Len(executed) \in Nat
      /\ DOMAIN executed = 1 .. Len(executed) /\ DOMAIN executed' = 1 .. Len(executed) + 1
      /\ \A i \in DOMAIN executed : executed'[i] = executed[i]
      /\ executed'[Len(executed) + 1] = p.n
  <2>1. /\ executed' \in Seq(Requests) /\ Len(executed') = Len(executed) + 1
        /\ \A i \in 1 .. Len(executed) : executed'[i] = executed[i]
        /\ executed'[Len(executed) + 1] = p.n
    BY <1>1, PostTaken, AppendProperties DEF RemoteType
  <2> QED BY <2>1, LenProperties DEF RemoteType
<1>4. /\ MainType' /\ RequestType'
      /\ UNCHANGED <<accepted, queue, pending, overdue, resets, worker, router, savedRouter>>
  BY <1>1, ByTelegram
<1>5. RemoteType'
  BY <1>1, <1>2, <1>3, <1>4, AnswerGiven DEF RemoteType, Requests
<1>6. OnceInv'
  <2>1. \A n : Started(n)' <=> Started(n)
    BY <1>1, <1>3 DEF Started
  <2>2. \A q \in posted' : \A i \in DOMAIN executed' : executed'[i] # q.n
    BY <1>1, <1>3, PostTaken DEF OnceInv
  <2>3. AtMostOnce'
    BY <1>1, <1>3, PostTaken DEF OnceInv, AtMostOnce
  <2> QED BY <1>1, <1>4, <2>1, <2>2, <2>3 DEF OnceInv, Requests
<1>7. LinkInv'
  <2>1. \A i \in DOMAIN answers' :
          IF answers'[i].ok THEN answers'[i].id \in DOMAIN executed' ELSE answers'[i].id = 0
    <3>1. \A i \in DOMAIN answers :
            IF answers[i].ok THEN answers[i].id \in DOMAIN executed' ELSE answers[i].id = 0
      BY <1>3 DEF LinkInv
    <3>2. IF answer.ok THEN answer.id \in DOMAIN executed' ELSE answer.id = 0
      BY <1>2, <1>3
    <3> QED BY <1>2, <3>1, <3>2, AnswerGiven
  <2>2. CASE worker.state = "hung"
    BY <1>4, <2>1, <2>2 DEF LinkInv
  <2>3. CASE worker.state # "hung" /\ p.live
    <3>1. /\ worker.state = "answer" /\ p.n = worker.n /\ answers = <<>>
          /\ \A q \in posted' : ~q.live
      BY <1>1, <2>3, PostTaken
    <3>2. Len(answers') = 1 /\ answers'[1] = answer
      BY <1>2, <2>3, <3>1, AnswerGiven
    <3>3. answer.ok => executed'[answer.id] = worker.n
      BY <1>2, <1>3, <3>1
    <3> QED BY <1>4, <2>1, <3>1, <3>2, <3>3 DEF LinkInv
  <2>4. CASE worker.state # "hung" /\ ~p.live
    <3>1. answers' = answers
      BY <1>2, <2>4, AnswerGiven
    <3>2. \A q \in posted' : q.live => worker.state = "answer" /\ q.n = worker.n
      BY <1>1, <2>4 DEF LinkInv
    <3>3. answers # <<>> =>
            /\ worker.state = "answer" /\ Len(answers) = 1 /\ \A q \in posted' : ~q.live
            /\ answers[1].ok => executed'[answers[1].id] = worker.n
      <4> SUFFICES ASSUME answers # <<>>
                   PROVE  /\ worker.state = "answer" /\ Len(answers) = 1
                          /\ \A q \in posted' : ~q.live
                          /\ answers[1].ok => executed'[answers[1].id] = worker.n
        OBVIOUS
      <4>1. /\ worker.state = "answer" /\ Len(answers) = 1 /\ \A q \in posted : ~q.live
            /\ answers[1].ok => executed[answers[1].id] = worker.n
        BY <2>4 DEF LinkInv
      <4>2. 1 \in DOMAIN answers
        BY <4>1, LenProperties DEF RemoteType
      <4>3. answers[1].ok => answers[1].id \in DOMAIN executed
        BY <4>2 DEF LinkInv
      <4> QED BY <1>1, <1>3, <4>1, <4>3
    <3> QED BY <1>4, <2>1, <3>1, <3>2, <3>3 DEF LinkInv
  <2> QED BY <2>2, <2>3, <2>4
<1>8. ReceiptInv'
  BY <1>3, <1>4 DEF ReceiptInv
<1>9. Truthful(router)' /\ Truthful(savedRouter)'
  BY <1>3, <1>4 DEF Truthful, Shows
<1> QED BY <1>4, <1>5, <1>6, <1>7, <1>8, <1>9

(* A request that is refused is done with, too. *)
LEMMA RefuseKeeps == ASSUME SendInv, NEW p \in posted, Refuse(p) PROVE SendInv'
<1> USE DEF SendInv
<1> DEFINE answer == [ok |-> FALSE, id |-> 0, close |-> FALSE]
<1>1. posted' = posted \ {p} /\ UNCHANGED <<executed, unchangedByTelegram>> /\ Answers(p, answer)
  BY DEF Refuse
<1>2. answer \in Answer /\ ~answer.ok /\ answer.id = 0
  BY DEF Answer
<1> HIDE DEF answer
<1>3. /\ MainType' /\ RequestType'
      /\ UNCHANGED <<accepted, queue, pending, overdue, resets, worker, router, savedRouter>>
  BY <1>1, ByTelegram
<1>4. RemoteType'
  BY <1>1, <1>2, <1>3, AnswerGiven DEF RemoteType, Requests
<1>5. OnceInv'
  <2>1. \A n : Started(n)' => Started(n)
    BY <1>1 DEF Started
  <2> QED BY <1>1, <1>3, <2>1 DEF OnceInv, AtMostOnce, Requests
<1>6. LinkInv'
  <2>1. \A i \in DOMAIN answers' :
          IF answers'[i].ok THEN answers'[i].id \in DOMAIN executed' ELSE answers'[i].id = 0
    BY <1>1, <1>2, AnswerGiven DEF LinkInv
  <2>2. CASE worker.state = "hung"
    BY <1>3, <2>1, <2>2 DEF LinkInv
  <2>3. CASE worker.state # "hung" /\ p.live
    <3>1. worker.state = "answer" /\ answers = <<>> /\ \A q \in posted' : ~q.live
      BY <1>1, <2>3, PostTaken
    <3>2. Len(answers') = 1 /\ answers'[1] = answer
      BY <1>1, <1>2, <2>3, <3>1, AnswerGiven
    <3> QED BY <1>2, <1>3, <2>1, <3>1, <3>2 DEF LinkInv
  <2>4. CASE worker.state # "hung" /\ ~p.live
    <3>1. answers' = answers
      BY <1>1, <1>2, <2>4, AnswerGiven
    <3> QED BY <1>1, <1>3, <2>1, <2>4, <3>1 DEF LinkInv
  <2> QED BY <2>2, <2>3, <2>4
<1>7. ReceiptInv' /\ Truthful(router)' /\ Truthful(savedRouter)'
  BY <1>1, <1>3 DEF ReceiptInv, Truthful, Shows
<1> QED BY <1>3, <1>4, <1>5, <1>6, <1>7

-----------------------------------------------------------------------------
(* The other steps of the main loop, and the passing of time. *)

(* The steps of the main loop. *)
LEMMA MainKeeps == SendInv /\ MainStep => SendInv'
<1> SUFFICES ASSUME SendInv, MainStep PROVE SendInv'
  OBVIOUS
<1> USE DEF workerVars, remoteVars, routerVars
<1>1. CASE (DrainEvents \/ CheckStalls) /\ Reset
  <2>1. resets' \in 0 .. MaxResets
    BY <1>1 DEF DrainEvents, CheckStalls, SendInv, RequestType
  <2> QED BY <1>1, <2>1, ResetKeeps
<1>2. CASE DrainEvents /\ ~Reset
  <2>1. unchangedRequests /\ unchangedRemote /\ MainType'
    BY <1>2 DEF DrainEvents, unchangedRequests, unchangedRemote, SendInv, MainType
  <2> QED BY <2>1, Unchanged
<1>3. CASE CheckStalls /\ ~Reset
  <2>1. unchangedRequests /\ unchangedRemote /\ MainType'
    BY <1>3 DEF CheckStalls, unchangedRequests, unchangedRemote, SendInv, MainType
  <2> QED BY <2>1, Unchanged
<1>4. CASE ReadRegistration
  BY <1>4, ReadRegistrationKeeps
<1>5. CASE EndReceipts
  <2>1. unchangedRequests /\ unchangedRemote /\ MainType'
    BY <1>5 DEF EndReceipts, unchangedRequests, unchangedRemote, SendInv, MainType
  <2> QED BY <2>1, Unchanged
<1>6. CASE EndPump
  <2>1. unchangedRequests /\ unchangedRemote /\ MainType'
    BY <1>6 DEF EndPump, unchangedRequests, unchangedRemote, SendInv, MainType
  <2> QED BY <2>1, Unchanged
<1>7. CASE \E n \in NotificationsPending : ProcessReceipt(n)
  BY <1>7, ProcessReceiptKeeps
<1> QED BY <1>1, <1>2, <1>3, <1>4, <1>5, <1>6, <1>7 DEF MainStep

(* Its requests. *)
LEMMA AsksKeep == SendInv /\ MainAsks => SendInv'
<1> SUFFICES ASSUME SendInv, MainAsks PROVE SendInv'
  OBVIOUS
<1> USE DEF workerVars, remoteVars, routerVars
<1>1. CASE RegisterCommands
  <2>1. TryEnqueue(Menu) /\ AwaitReceipt /\ unchangedRemote /\ UNCHANGED <<overdue, resets>>
        /\ MainType'
    BY <1>1 DEF RegisterCommands, unchangedRemote, SendInv, MainType
  <2> QED BY <2>1, AskKeeps DEF Kinds
<1>2. CASE CommandReply
  <2>1. TryEnqueue(Reply) /\ UNCHANGED pending /\ unchangedRemote /\ UNCHANGED <<overdue, resets>>
        /\ MainType'
    BY <1>2 DEF CommandReply, unchangedRemote, SendInv, MainType
  <2> QED BY <2>1, AskKeeps DEF Kinds
<1>3. ASSUME NEW item \in Sms \cup Notes, Pump(item) PROVE SendInv'
  <2>1. /\ TryEnqueue(item) /\ AwaitReceipt /\ unchangedRemote /\ UNCHANGED <<overdue, resets>>
        /\ Cardinality(NotificationsPending) < MaxPending /\ MainType'
    BY <1>3 DEF Pump, unchangedRemote, SendInv, MainType
  <2> QED BY <2>1, AskKeeps DEF Kinds
<1> QED BY <1>1, <1>2, <1>3 DEF MainAsks

(* Time passes: a receipt gets overdue, the worker's request old. *)
LEMMA TimeKeeps == SendInv /\ TimePasses => SendInv'
<1> SUFFICES ASSUME SendInv, TimePasses PROVE SendInv'
  OBVIOUS
<1> USE DEF workerVars, remoteVars, routerVars
<1>1. CASE GrowOld
  <2>1. unchangedRequests /\ unchangedRemote
    BY <1>1, ByWorker DEF GrowOld, unchangedRequests, unchangedRemote
  <2>2. MainType'
    BY <1>1, ByWorker DEF GrowOld, SendInv, MainType
  <2> QED BY <2>1, <2>2, Unchanged
<1>2. ASSUME NEW n \in NotificationsPending, GrowOverdue(n) PROVE SendInv'
  <2> USE DEF SendInv
  <2>1. /\ UNCHANGED <<pc, wifi, accepted, pending, registered, queue, restart, worker, age,
                       messenger, posted, answers, executed, router, savedRouter, resets>>
        /\ overdue' = overdue \cup {n}
    BY <1>2 DEF GrowOverdue
  <2>2. MainType'
    BY <2>1 DEF MainType
  <2>3. RequestType'
    BY <2>1 DEF RequestType, Requests, NotificationsPending, MenuAsked
  <2>4. RemoteType'
    BY <2>1 DEF RemoteType, Requests
  <2>5. OnceInv'
    BY <2>1 DEF OnceInv, AtMostOnce, Started, Requests
  <2>6. LinkInv' /\ ReceiptInv'
    BY <2>1 DEF LinkInv, ReceiptInv
  <2>7. Truthful(router)' /\ Truthful(savedRouter)'
    BY <2>1 DEF Truthful, Shows
  <2> QED BY <2>2, <2>3, <2>4, <2>5, <2>6, <2>7
<1> QED BY <1>1, <1>2 DEF TimePasses

(* A loss of power is a reset. *)
LEMMA PowerLossKeeps == SendInv /\ PowerLoss => SendInv'
<1> SUFFICES ASSUME SendInv, PowerLoss PROVE SendInv'
  OBVIOUS
<1>1. Reset /\ resets' = resets + 1 /\ resets < MaxResets /\ resets \in 0 .. MaxResets
  BY DEF PowerLoss, SendInv, RequestType
<1>2. resets' \in 0 .. MaxResets
  BY <1>1, SendAssumption
<1> QED BY <1>1, <1>2, ResetKeeps

(* Every step keeps the invariant. *)
LEMMA SendStep == SendInv /\ [Next]_vars => SendInv'
<1> SUFFICES ASSUME SendInv, [Next]_vars PROVE SendInv'
  OBVIOUS
<1>1. CASE MainStep
  BY <1>1, MainKeeps
<1>2. CASE MainAsks
  BY <1>2, AsksKeep
<1>3. CASE WorkerStep
  BY <1>3, WorkerSetsOut, WorkerTrips, TakeKeeps, BodyKeeps, ReadAnswerKeeps DEF WorkerStep
<1>4. CASE Hang
  BY <1>4, WorkerTrips
<1>5. CASE TimePasses
  BY <1>5, TimeKeeps
<1>6. CASE Telegram
  BY <1>6, ExecuteKeeps, RefuseKeeps DEF Telegram
<1>7. CASE PowerLoss
  BY <1>7, PowerLossKeeps
<1>8. CASE UNCHANGED vars
  <2>1. unchangedRequests /\ unchangedRemote
    BY <1>8 DEF vars, mainVars, workerVars, remoteVars, routerVars, unchangedRequests,
                unchangedRemote
  <2>2. MainType'
    BY <1>8 DEF vars, mainVars, workerVars, SendInv, MainType
  <2> QED BY <2>1, <2>2, Unchanged
<1> QED BY <1>1, <1>2, <1>3, <1>4, <1>5, <1>6, <1>7, <1>8 DEF Next

(* The invariant holds for ever. *)
THEOREM SendAlways == Spec => []SendInv
<1>1. Init => SendInv
  BY InitSend
<1>2. SendInv /\ [Next]_vars => SendInv'
  BY SendStep
<1> QED BY <1>1, <1>2, PTL DEF Spec

-----------------------------------------------------------------------------
(* The properties. *)

(* Neither the retries of run_with_retries nor the second try of post make  *)
(* Telegram carry out a request twice.                                      *)
THEOREM ExecutedOnce == Spec => []AtMostOnce
<1>1. SendInv => AtMostOnce
  BY DEF SendInv, OnceInv
<1> QED BY <1>1, SendAlways, PTL

(* The id in the receipt of a notification is the id of that notification.  *)
THEOREM ReceiptsAreTrue == Spec => []ReceiptsTrue
<1>1. SendInv => ReceiptsTrue
  BY DEF SendInv, ReceiptInv, ReceiptsTrue, NotificationsPending
<1> QED BY <1>1, SendAlways, PTL

(* The reply map sends a reply to the sender of the SMS that the message    *)
(* showed, or nowhere, after any number of restarts.                        *)
THEOREM RepliesGoToSenders == Spec => []ReplyGoesToSender
<1>1. SendInv => ReplyGoesToSender
  <2> SUFFICES ASSUME SendInv, NEW id \in DOMAIN executed
               PROVE  Lookup(id) \in {NoNumber} \cup
                        {SenderOf[s] : s \in {accepted[executed[id]]} \cap Sms}
    BY DEF ReplyGoesToSender
  <2>1. id \in Nat
    BY LenProperties DEF SendInv, RemoteType
  <2>2. SlotOf(id) \in Slots
    BY <2>1, SlotIndex
  <2>3. CASE router[SlotOf(id)].id = id /\ router[SlotOf(id)].id # 0
    <3>1. Lookup(id) = router[SlotOf(id)].phone
      BY <2>3 DEF Lookup
    <3>2. Shows(id, router[SlotOf(id)].phone)
      BY <2>2, <2>3 DEF SendInv, Truthful
    <3> QED BY <3>1, <3>2 DEF Shows
  <2>4. CASE ~(router[SlotOf(id)].id = id /\ router[SlotOf(id)].id # 0)
    BY <2>4 DEF Lookup
  <2> QED BY <2>3, <2>4
<1> QED BY <1>1, SendAlways, PTL

(* A request is executed at most once, so the ids Telegram gives out stay   *)
(* below the number of requests.                                            *)
LEMMA IdsBounded == SendInv => Len(executed) <= MaxRequests
<1> SUFFICES ASSUME SendInv PROVE Len(executed) <= MaxRequests
  OBVIOUS
<1>1. /\ Requests = 1 .. Len(accepted) /\ Len(accepted) \in Nat /\ Len(accepted) <= MaxRequests
      /\ executed \in Seq(Requests)
  BY RequestNumbers DEF SendInv, RequestType, RemoteType
<1>2. Len(executed) \in Nat /\ DOMAIN executed = 1 .. Len(executed)
      /\ executed \in [DOMAIN executed -> Requests]
  BY <1>1, LenProperties
<1>3. executed \in Injection(DOMAIN executed, Requests)
  BY <1>2 DEF Injection, IsInjective, SendInv, OnceInv, AtMostOnce
<1>4. /\ IsFiniteSet(Requests) /\ Cardinality(Requests) = Len(accepted)
      /\ IsFiniteSet(DOMAIN executed) /\ Cardinality(DOMAIN executed) = Len(executed)
  <2>1. \A k \in Nat : IsFiniteSet(1 .. k) /\ Cardinality(1 .. k) = k
    BY FS_Interval
  <2> QED BY <1>1, <1>2, <2>1
<1>5. Cardinality(DOMAIN executed) <= Cardinality(Requests)
  BY <1>3, <1>4, FS_Injection
<1> QED BY <1>1, <1>2, <1>4, <1>5, SendAssumption

(* The types hold, with the bounds of the channel, of the pump and of the   *)
(* ids.                                                                     *)
THEOREM SendTypes == Spec => []TypeOK
<1>1. SendInv => TypeOK
  <2> SUFFICES ASSUME SendInv PROVE TypeOK
    OBVIOUS
  <2>1. /\ Len(executed) <= MaxRequests /\ Len(executed) \in Nat
        /\ DOMAIN executed = 1 .. Len(executed)
    BY IdsBounded, LenProperties DEF SendInv, RemoteType
  <2>2. \A id \in DOMAIN executed : id \in 0 .. MaxRequests
    BY <2>1, SendAssumption
  <2>3. 0 \in 0 .. MaxRequests
    BY SendAssumption
  <2>4. \A n \in DOMAIN pending : pending[n] \in Receipts
    <3> SUFFICES ASSUME NEW n \in DOMAIN pending PROVE pending[n] \in Receipts
      OBVIOUS
    <3>1. pending[n] \in Ids
      BY DEF SendInv, RequestType
    <3>2. CASE pending[n].kind = "ok"
      <4>1. pending[n].id \in 0 .. MaxRequests
        BY <2>2, <3>2 DEF SendInv, ReceiptInv
      <4>2. pending[n] = Confirmed(pending[n].id)
        BY <3>1, <3>2 DEF Ids, Confirmed
      <4> QED BY <4>1, <4>2 DEF Receipts
    <3>3. CASE pending[n].kind # "ok"
      <4>1. pending[n].id = 0
        BY <3>3 DEF SendInv, ReceiptInv
      <4> QED BY <3>1, <3>3, <4>1 DEF Ids, Receipts, NoReceipt, Failed
    <3> QED BY <3>2, <3>3
  <2>5. answers \in Seq([ok : BOOLEAN, id : 0 .. MaxRequests, close : BOOLEAN])
    <3>1. answers \in Seq(Answer)
      BY DEF SendInv, RemoteType
    <3>2. \A i \in DOMAIN answers : answers[i].id \in 0 .. MaxRequests
      BY <2>2, <2>3 DEF SendInv, LinkInv
    <3>3. \A i \in 1 .. Len(answers) :
            answers[i] \in [ok : BOOLEAN, id : 0 .. MaxRequests, close : BOOLEAN]
      <4> SUFFICES ASSUME NEW i \in 1 .. Len(answers)
                   PROVE  answers[i] \in [ok : BOOLEAN, id : 0 .. MaxRequests, close : BOOLEAN]
        OBVIOUS
      <4>1. i \in DOMAIN answers /\ answers[i] \in Answer
        BY <3>1, LenProperties, ElementOfSeq
      <4>2. answers[i].id \in 0 .. MaxRequests
        BY <3>2, <4>1
      <4> QED BY <4>1, <4>2 DEF Answer
    <3> QED BY <3>1, <3>3, SeqOf
  <2>6. ASSUME NEW map \in Routers, Truthful(map)
        PROVE  map \in [Slots -> SlotRecords]
    <3>1. \A k \in Slots : map[k].id \in 0 .. MaxRequests
      BY <2>2, <2>3, <2>6 DEF Truthful, Shows
    <3> QED BY <3>1 DEF Routers, SlotRecords
  <2>7. router \in [Slots -> SlotRecords] /\ savedRouter \in [Slots -> SlotRecords]
    BY <2>6 DEF SendInv, RemoteType
  <2>8. overdue \subseteq DOMAIN pending
    BY DEF SendInv, RequestType, NotificationsPending
  <2> QED BY <2>4, <2>5, <2>7, <2>8
          DEF TypeOK, SendInv, MainType, RequestType, RemoteType, Jobs
<1> QED BY <1>1, SendAlways, PTL
=============================================================================
