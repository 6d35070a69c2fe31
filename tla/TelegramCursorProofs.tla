------------------------ MODULE TelegramCursorProofs ------------------------
(***************************************************************************)
(* Theorems about TelegramCursor for every number of updates and resets,   *)
(* every depth of the channel and every limit of the outgoing queue.       *)
(***************************************************************************)
EXTENDS TelegramCursor, QueueLemmas, FiniteSetTheorems

-----------------------------------------------------------------------------
(* Types. *)

(* An update is handled and acknowledged only while there is one. *)
TypedInv ==
  /\ TypeOK
  /\ phase \in {"handle", "ack"} => current # NoUpdate

(* The outgoing queue starts well typed. *)
LEMMA SenderTypeInit == SenderInit => SenderType
<1> SUFFICES ASSUME SenderInit PROVE SenderType
  OBVIOUS
<1>1. entries \in Seq(Entries)
  BY EmptySeq DEF SenderInit
<1> QED BY <1>1, SenderAssumption DEF SenderInit, SenderType

(* Both ways of queueing keep its type. *)
LEMMA EnqueueType ==
  ASSUME SenderType, NEW m \in Messages, Enqueue(m) \/ EnqueueCommandSend(m)
  PROVE  SenderType'
<1>1. [msg |-> m, attempts |-> 0] \in Entries
  BY SenderAssumption DEF Entries
<1>2. Append(entries, [msg |-> m, attempts |-> 0]) \in Seq(Entries)
  BY <1>1, AppendProperties DEF SenderType
<1>3. entries' \in Seq(Entries)
  BY <1>2 DEF SenderType, Enqueue, EnqueueCommandSend
<1>4. windowCount' \in 0 .. CmdSendLimit
  BY SenderAssumption DEF SenderType, Enqueue, EnqueueCommandSend
<1> QED BY <1>3, <1>4 DEF SenderType, Enqueue, EnqueueCommandSend

(* An attempt keeps its type: an entry that stays has attempts left. *)
LEMMA DrainType ==
  ASSUME SenderType, DrainOnce
  PROVE  SenderType'
<1>1. PICK i \in DOMAIN entries : DropUnsendable(i) \/ SendSucceeds(i) \/ SendFails(i)
  BY DEF DrainOnce
<1>2. i \in 1 .. Len(entries) /\ entries[i] \in Entries
  BY <1>1, ElementOfSeq, LenProperties DEF SenderType
<1>3. entries[i].msg \in Messages /\ entries[i].attempts \in 0 .. MaxAttempts - 1
  BY <1>2 DEF Entries
<1>4. RemoveAt(entries, i) \in Seq(Entries)
  BY <1>2, RemoveAtProperties DEF SenderType
<1>5. Retryable(i) => [entries EXCEPT ![i].attempts = @ + 1] \in Seq(Entries)
  <2> SUFFICES ASSUME Retryable(i)
               PROVE  [entries EXCEPT ![i].attempts = @ + 1] \in Seq(Entries)
    OBVIOUS
  <2>1. [entries[i] EXCEPT !.attempts = @ + 1] \in Entries
    BY <1>2, <1>3, SenderAssumption DEF Entries, Retryable
  <2>2. [entries EXCEPT ![i] = [entries[i] EXCEPT !.attempts = @ + 1]] \in Seq(Entries)
    BY <1>2, <2>1, ExceptSeq DEF SenderType
  <2> QED BY <2>2
<1>6. entries' \in Seq(Entries)
  BY <1>1, <1>4, <1>5 DEF DropUnsendable, SendSucceeds, Succeed, SendFails
<1>7. reported' \subseteq Messages
  BY <1>1, <1>3 DEF DropUnsendable, SendSucceeds, Succeed, SendFails, SenderType
<1>8. PICK parts \in Nat : Attempt(i, parts)
  BY <1>1, <1>3, PartsAssumption DEF DropUnsendable, SendSucceeds, Succeed, SendFails
<1>9. /\ windowCount' \in 0 .. CmdSendLimit
      /\ tries' \in [Messages -> Nat]
      /\ aired' \in [Messages -> SUBSET Nat]
  BY <1>3, <1>8 DEF Attempt, SenderType
<1> QED BY <1>6, <1>7, <1>9 DEF SenderType

(* A reset empties it. *)
LEMMA LoseQueueType ==
  ASSUME SenderType, LoseQueue
  PROVE  SenderType'
<1>1. entries' \in Seq(Entries)
  BY EmptySeq DEF LoseQueue
<1> QED BY <1>1, SenderAssumption DEF LoseQueue, SenderType

(* Steps that do not touch the queue keep its type. *)
LEMMA SenderUnchanged ==
  ASSUME SenderType, UNCHANGED senderVars
  PROVE  SenderType'
BY DEF senderVars, SenderType, Entries

(* The types hold at the start. *)
LEMMA TypedInit == Init => TypedInv
<1> SUFFICES ASSUME Init PROVE TypedInv
  OBVIOUS
<1>1. Len(inbox) = 0 /\ inbox \in Seq(Update) /\ 0 \in Cursors
  BY EmptySeq DEF Init, Cursors
<1>2. /\ offering \in Seq(Cursors)
      /\ channel \in Seq(Cursors)
      /\ handled \in Seq(Cursors \ {NoUpdate})
  BY EmptySeq DEF Init
<1>3. /\ Len(inbox) <= MaxPosts
      /\ room \in 0 .. MaxEvents
      /\ cuts \in 0 .. MaxCuts
  BY <1>1, CursorAssumption DEF Init
<1>4. SenderType
  BY SenderTypeInit DEF Init
<1> QED BY <1>1, <1>2, <1>3, <1>4 DEF Init, TypedInv, TypeOK, Phases, NoUpdate

(* The steps that change neither the inbox nor the outgoing queue. *)
LEMMA QuietSteps ==
  ASSUME TypedInv, PollThread \/ Receive \/ EndCollect \/ SaveCursor \/ SaveFails
                     \/ NoCheckpoint \/ Acknowledge
  PROVE  TypedInv'
<1> USE CursorAssumption
<1>1. UNCHANGED inbox /\ UNCHANGED senderVars
  BY DEF PollThread, PollAnswers, PollFails, Offer, AskAgain, TakeAck, Receive, EndCollect,
         SaveCursor, SaveFails, NoCheckpoint, Acknowledge
<1>2. Cursors' = Cursors /\ SenderType' /\ inbox' \in Seq(Update) /\ Len(inbox') <= MaxPosts
  BY <1>1, SenderUnchanged DEF Cursors, TypedInv, TypeOK
<1>3. Notice \in Cursors /\ NoUpdate \in Cursors
  BY LenProperties DEF Cursors, Notice, NoUpdate, TypedInv, TypeOK
<1>4. Asked \in Cursors
  BY DEF Asked, TypedInv, TypeOK
<1>5. CASE PollAnswers
  <2>1. Asked < Len(inbox) => Asked + 1 \in Cursors
    BY <1>4, LenProperties DEF Cursors, TypedInv, TypeOK
  <2>2. offering' \in Seq(Cursors)
    BY <1>3, <1>5, <2>1 DEF PollAnswers
  <2> QED BY <1>2, <1>4, <1>5, <2>2 DEF PollAnswers, TypedInv, TypeOK, mainVars, histories
<1>6. CASE PollFails
  <2>1. PICK n \in 0 .. 2 : offering' = [i \in 1 .. n |-> Notice]
    BY <1>6 DEF PollFails
  <2>2. offering' \in Seq(Cursors)
    BY <1>3, <2>1
  <2> QED BY <1>2, <1>4, <1>6, <2>2 DEF PollFails, TypedInv, TypeOK, mainVars, histories
<1>7. CASE Offer
  <2>1. Head(offering) \in Cursors /\ Tail(offering) \in Seq(Cursors)
    BY <1>7, HeadTailProperties DEF Offer, TypedInv, TypeOK
  <2>2. Append(channel, Head(offering)) \in Seq(Cursors)
    BY <2>1, AppendProperties DEF TypedInv, TypeOK
  <2> QED BY <1>2, <1>7, <2>1, <2>2 DEF Offer, AfterOffer, TypedInv, TypeOK, mainVars, histories
<1>8. CASE AskAgain \/ TakeAck
  BY <1>2, <1>3, <1>8 DEF AskAgain, TakeAck, TypedInv, TypeOK, mainVars, histories
<1>9. CASE Receive
  <2>1. Head(channel) \in Cursors /\ Tail(channel) \in Seq(Cursors)
    BY <1>9, HeadTailProperties DEF Receive, TypedInv, TypeOK
  <2> QED BY <1>2, <1>9, <2>1 DEF Receive, TypedInv, TypeOK, Phases, pollVars, histories
<1>10. CASE EndCollect \/ SaveCursor \/ SaveFails \/ NoCheckpoint
  BY <1>2, <1>3, <1>10
     DEF EndCollect, SaveCursor, SaveFails, NoCheckpoint, TypedInv, TypeOK, Phases,
         pollVars, histories
<1>11. CASE Acknowledge
  BY <1>2, <1>3, <1>11 DEF Acknowledge, TypedInv, TypeOK, Phases, pollVars, histories
<1> QED BY <1>5, <1>6, <1>7, <1>8, <1>9, <1>10, <1>11 DEF PollThread

(* A handled update is added to the history. *)
LEMMA HandledType ==
  ASSUME TypedInv, Handled, phase = "handle", SenderType'
  PROVE  TypedInv'
<1>1. Cursors' = Cursors
  BY DEF Handled, Cursors
<1>2. handled' \in Seq(Cursors \ {NoUpdate})
  BY AppendProperties DEF Handled, TypedInv, TypeOK
<1> QED BY <1>1, <1>2 DEF Handled, TypedInv, TypeOK, Phases, pollVars

(* A reset keeps the types, whichever kind the store is. *)
LEMMA BootType ==
  ASSUME TypedInv, NEW done \in Seq(Cursors \ {NoUpdate}), Boot(done), cuts' \in 0 .. MaxCuts
  PROVE  TypedInv'
<1>1. Cursors' = Cursors /\ NoUpdate \in Cursors
  BY LenProperties DEF Boot, Cursors, NoUpdate, TypedInv, TypeOK
<1>2. saved' \in Cursors
  BY <1>1 DEF Boot, TypedInv, TypeOK, NoUpdate
<1>3. OutOfReach(done, saved') \subseteq Cursors
  <2>1. Len(inbox) \in Nat /\ MaxPosts \in Nat
    BY LenProperties, CursorAssumption DEF TypedInv, TypeOK
  <2>2. saved' <= Len(inbox) /\ saved' \in Nat /\ forgotten <= Len(inbox) /\ forgotten \in Nat
    BY <1>2, <2>1 DEF Cursors, TypedInv, TypeOK
  <2> QED BY <2>1, <2>2 DEF OutOfReach, Ids, Cursors
<1>4. SenderType'
  BY LoseQueueType DEF Boot, TypedInv, TypeOK
<1>5. offering' \in Seq(Cursors) /\ channel' \in Seq(Cursors)
  BY EmptySeq DEF Boot
<1>6. interrupted' \subseteq Cursors
  BY <1>3 DEF Boot, TypedInv, TypeOK
<1>7. room' \in 0 .. MaxEvents /\ handled' \in Seq(Cursors \ {NoUpdate})
  BY CursorAssumption DEF Boot
<1> QED BY <1>1, <1>2, <1>4, <1>5, <1>6, <1>7 DEF Boot, TypedInv, TypeOK, Phases

(* The steps that handle an update, send an SMS, or reset the device. *)
LEMMA OtherSteps ==
  ASSUME TypedInv, Handle \/ Drain \/ DrainIdle \/ Cut \/ Supervise
  PROVE  TypedInv'
<1>0. SenderType
  BY DEF TypedInv, TypeOK
<1>1. phase = "handle" => inbox[current].msg \in Messages
  <2> SUFFICES ASSUME phase = "handle" PROVE inbox[current].msg \in Messages
    OBVIOUS
  <2>1. current \in 1 .. Len(inbox)
    BY LenProperties DEF TypedInv, TypeOK, NoUpdate, Cursors
  <2>2. inbox[current] \in Update
    BY <2>1, ElementOfSeq DEF TypedInv, TypeOK
  <2> QED BY <2>2 DEF Update
<1>2. CASE HandleSend
  BY <1>0, <1>1, <1>2, EnqueueType, HandledType DEF HandleSend, Handling
<1>3. CASE HandleReply
  <2>1. SenderType'
    BY <1>0, <1>1, <1>3, EnqueueType, SenderUnchanged DEF HandleReply, Handling
  <2> QED BY <1>3, <2>1, HandledType DEF HandleReply, Handling
<1>4. CASE HandlePlain \/ UpdateFails
  BY <1>0, <1>4, SenderUnchanged, HandledType DEF HandlePlain, UpdateFails, Handling
<1>5. CASE HandleRestart \/ UpdateSucceeds
  <2>1. Append(handled, current) \in Seq(Cursors \ {NoUpdate})
    BY <1>5, AppendProperties DEF HandleRestart, UpdateSucceeds, Handling, TypedInv, TypeOK
  <2> QED BY <1>5, <2>1, BootType DEF HandleRestart, UpdateSucceeds, TypedInv, TypeOK
<1>6. CASE Drain \/ DrainIdle
  <2>1. SenderType'
    BY <1>0, <1>6, DrainType, SenderUnchanged DEF Drain, DrainIdle, NothingDue
  <2>2. EndPass
    BY <1>6 DEF Drain, DrainIdle
  <2>3. Cursors' = Cursors
    BY <2>2 DEF EndPass, Cursors
  <2> QED BY <2>1, <2>2, <2>3, CursorAssumption
          DEF EndPass, TypedInv, TypeOK, Phases, pollVars, histories
<1>7. CASE Cut \/ Supervise
  BY <1>7, BootType, CursorAssumption DEF Cut, Supervise, TypedInv, TypeOK
<1> QED BY <1>2, <1>3, <1>4, <1>5, <1>6, <1>7 DEF Handle

(* One more update widens the range of the cursors. *)
LEMMA PostType ==
  ASSUME TypedInv, NEW u \in Inputs, Post(u)
  PROVE  TypedInv'
<1>0. Len(inbox) \in Nat
  BY LenProperties DEF TypedInv, TypeOK
<1>1. inbox' \in Seq(Update) /\ Len(inbox') = Len(inbox) + 1
  BY InputAssumption, AppendProperties DEF Post, TypedInv, TypeOK
<1>2. Cursors \subseteq Cursors' /\ Cursors \ {NoUpdate} \subseteq (Cursors \ {NoUpdate})'
  BY <1>0, <1>1 DEF Cursors, NoUpdate
<1>3. /\ offering \in Seq(Cursors')
      /\ channel \in Seq(Cursors')
      /\ handled \in Seq((Cursors \ {NoUpdate})')
  BY <1>2, SeqMonotonic DEF TypedInv, TypeOK
<1>4. SenderType'
  BY SenderUnchanged DEF Post, TypedInv, TypeOK
<1>5. Len(inbox') <= MaxPosts
  BY <1>0, <1>1, CursorAssumption DEF Post
<1> QED BY <1>1, <1>2, <1>3, <1>4, <1>5
        DEF Post, TypedInv, TypeOK, Phases, pollVars, mainVars, histories

(* Every step keeps the types. *)
LEMMA TypedStep == TypedInv /\ [Next]_vars => TypedInv'
<1> SUFFICES ASSUME TypedInv, [Next]_vars PROVE TypedInv'
  OBVIOUS
<1>1. CASE UNCHANGED vars
  <2>1. SenderType' /\ Cursors' = Cursors
    BY <1>1, SenderUnchanged DEF vars, Cursors, TypedInv, TypeOK
  <2> QED BY <1>1, <2>1 DEF vars, pollVars, mainVars, histories, TypedInv, TypeOK
<1>2. CASE \E u \in Inputs : Post(u)
  BY <1>2, PostType
<1>3. CASE PollThread \/ MainLoop \/ Cut \/ Supervise
  BY <1>3, QuietSteps, OtherSteps DEF MainLoop
<1> QED BY <1>1, <1>2, <1>3 DEF Next

(* Every variable keeps its type, with either kind of store: cursors, the   *)
(* channel and the batch never get ahead of what the operator has sent, the *)
(* outgoing queue holds no entry that has used up its attempts, and the     *)
(* window never counts beyond its limit.                                    *)
THEOREM CursorTyped == Spec => []TypeOK
<1>1. TypedInv => TypeOK
  BY DEF TypedInv
<1> QED BY TypedInit, TypedStep, <1>1, PTL DEF Spec

-----------------------------------------------------------------------------
(* Updates on their way.  From here on the store is durable. *)

(* The update the operator sent next is in at most one place, behind a poll *)
(* thread that waits for its acknowledgement.                               *)
FlightInv ==
  /\ poller # "offer" => offering = <<>>
  /\ \A i \in 1 .. Len(offering) :
       offering[i] # Notice => Len(offering) = 1 /\ offering[i] = pollCursor + 1
  /\ \A i \in 1 .. Len(channel) :
       channel[i] # Notice =>
         /\ i = Len(channel) /\ channel[i] = pollCursor + 1
         /\ poller = "await" /\ batch = NoUpdate /\ current = NoUpdate /\ acked = NoUpdate
  /\ batch # NoUpdate =>
       /\ batch = pollCursor + 1
       /\ poller = "await" /\ current = NoUpdate /\ acked = NoUpdate
  /\ current # NoUpdate => current = pollCursor + 1 /\ poller = "await" /\ acked = NoUpdate
  /\ acked # NoUpdate => acked = pollCursor + 1 /\ poller = "await"

(* How far the updates have been handled. *)
Reached ==
  IF phase = "ack" THEN current ELSE IF acked # NoUpdate THEN acked ELSE pollCursor

Covered(u) == u \in Range(handled) \/ u \in interrupted

ProgressInv ==
  /\ current # NoUpdate => phase \in {"handle", "ack"}
  /\ forgotten <= pollCursor
  /\ pollCursor <= saved /\ persisted <= saved /\ current <= saved /\ acked <= saved
  /\ persisted <= IF phase = "handle" THEN current ELSE Reached
  /\ \A i \in DOMAIN handled : handled[i] <= Reached
  /\ \A u \in 1 .. Reached : Covered(u)

DurableInv == TypedInv /\ FlightInv /\ ProgressInv /\ OnceInOrder

(* The elements of a sequence to which one is appended. *)
LEMMA Appended ==
  ASSUME NEW S, NEW s \in Seq(S), NEW e \in S
  PROVE  /\ DOMAIN s = 1 .. Len(s) /\ Len(s) \in Nat
         /\ DOMAIN Append(s, e) = 1 .. Len(s) + 1
         /\ \A i \in 1 .. Len(s) : Append(s, e)[i] = s[i]
         /\ Append(s, e)[Len(s) + 1] = e
<1>1. /\ Append(s, e) \in Seq(S)
      /\ Len(Append(s, e)) = Len(s) + 1
      /\ \A i \in 1 .. Len(s) : Append(s, e)[i] = s[i]
      /\ Append(s, e)[Len(s) + 1] = e
  BY AppendProperties
<1> QED BY <1>1, LenProperties

(* A history that grows by an update later than all of it stays in order.   *)
LEMMA Extended ==
  ASSUME NEW n \in Nat, NEW s, NEW t, NEW e,
         DOMAIN s = 1 .. n, DOMAIN t = 1 .. n + 1,
         \A i \in 1 .. n : t[i] = s[i],
         t[n + 1] = e
  PROVE  /\ Range(t) = Range(s) \union {e}
         /\ /\ \A i \in 1 .. n : s[i] < e
            /\ \A i, j \in DOMAIN s : i < j => s[i] < s[j]
            => \A i, j \in DOMAIN t : i < j => t[i] < t[j]
<1>1. \A i \in 1 .. n + 1 : i = n + 1 \/ i \in 1 .. n
  OBVIOUS
<1>2. ASSUME NEW x
      PROVE  x \in Range(t) <=> x \in Range(s) \union {e}
  <2>1. ASSUME x \in Range(t) PROVE x \in Range(s) \union {e}
    <3>1. PICK i \in 1 .. n + 1 : x = t[i]
      BY <2>1 DEF Range
    <3> QED BY <1>1, <3>1 DEF Range
  <2>2. ASSUME x \in Range(s) PROVE x \in Range(t)
    <3>1. PICK i \in 1 .. n : x = s[i]
      BY <2>2 DEF Range
    <3>2. i \in 1 .. n + 1 /\ x = t[i]
      BY <3>1
    <3> QED BY <3>2 DEF Range
  <2>3. e \in Range(t)
    <3>1. n + 1 \in 1 .. n + 1
      OBVIOUS
    <3> QED BY <3>1 DEF Range
  <2> QED BY <2>1, <2>2, <2>3
<1>3. ASSUME \A i \in 1 .. n : s[i] < e,
             \A i, j \in DOMAIN s : i < j => s[i] < s[j],
             NEW i \in DOMAIN t, NEW j \in DOMAIN t, i < j
      PROVE  t[i] < t[j]
  <2>1. i \in 1 .. n /\ t[i] = s[i]
    BY <1>3
  <2>2. CASE j = n + 1
    BY <1>3, <2>1, <2>2
  <2>3. CASE j \in 1 .. n
    <3>1. t[j] = s[j] /\ s[i] < s[j]
      BY <1>3, <2>1, <2>3
    <3> QED BY <2>1, <3>1
  <2> QED BY <1>1, <2>2, <2>3
<1> QED BY <1>2, <1>3

(* What the types say about arithmetic. *)
LEMMA Numbers ==
  ASSUME TypedInv
  PROVE  /\ Cursors \subseteq Nat /\ Len(inbox) \in Nat
         /\ forgotten \in Nat /\ saved \in Nat /\ pollCursor \in Nat /\ persisted \in Nat
         /\ batch \in Nat /\ current \in Nat /\ acked \in Nat
         /\ Len(channel) \in Nat /\ Len(offering) \in Nat /\ Len(handled) \in Nat
BY LenProperties DEF TypedInv, TypeOK, Cursors

(* The invariant of a durable store holds at the start. *)
LEMMA DurableInit == Init => DurableInv
<1> SUFFICES ASSUME Init PROVE DurableInv
  OBVIOUS
<1>1. Len(offering) = 0 /\ Len(channel) = 0 /\ handled = <<>>
  BY EmptySeq DEF Init
<1>2. FlightInv
  BY <1>1 DEF Init, FlightInv
<1>3. ProgressInv /\ OnceInOrder
  BY <1>1 DEF Init, ProgressInv, Reached, OnceInOrder, NoUpdate
<1> QED BY <1>2, <1>3, TypedInit DEF DurableInv

(* The next update stays in one place while both threads work. *)
LEMMA FlightStep ==
  ASSUME DurableInv, MainLoop \/ PollThread
  PROVE  FlightInv'
<1>0. TypedInv /\ FlightInv /\ ProgressInv
  BY DEF DurableInv
<1>1. CASE PollAnswers
  <2>1. Asked = pollCursor
    BY <1>0, Numbers DEF Asked, ProgressInv
  <2> QED BY <1>0, <1>1, <2>1, Numbers DEF PollAnswers, FlightInv, mainVars, Notice, NoUpdate
<1>2. CASE PollFails
  <2>1. PICK n \in 0 .. 2 : offering' = [i \in 1 .. n |-> Notice]
    BY <1>2 DEF PollFails
  <2>2. \A i \in 1 .. Len(offering') : offering'[i] = Notice
    BY <2>1
  <2> QED BY <1>0, <1>2, <2>2 DEF PollFails, FlightInv, mainVars
<1>3. CASE Offer
  <2>1. /\ Head(offering) = offering[1] /\ Len(offering) \in Nat \ {0}
        /\ Tail(offering) \in Seq(Cursors) /\ Len(Tail(offering)) = Len(offering) - 1
        /\ \A i \in 1 .. Len(Tail(offering)) : Tail(offering)[i] = offering[i + 1]
    BY <1>0, <1>3, HeadTailProperties, EmptySeq DEF Offer, TypedInv, TypeOK
  <2>2. offering[1] \in Cursors
    BY <1>0, <2>1, ElementOfSeq DEF TypedInv, TypeOK
  <2>3. /\ Len(channel') = Len(channel) + 1
        /\ \A i \in 1 .. Len(channel) : channel'[i] = channel[i]
        /\ channel'[Len(channel) + 1] = offering[1]
    BY <1>0, <1>3, <2>1, <2>2, AppendProperties DEF Offer, TypedInv, TypeOK
  <2>4. \A i \in 1 .. Len(channel) : channel[i] = Notice
    BY <1>0, <1>3 DEF Offer, FlightInv
  <2>5. \A i \in 1 .. Len(channel') :
          channel'[i] # Notice => i = Len(channel') /\ channel'[i] = offering[1]
    <3> SUFFICES ASSUME NEW i \in 1 .. Len(channel'), channel'[i] # Notice
                 PROVE  i = Len(channel') /\ channel'[i] = offering[1]
      OBVIOUS
    <3>1. i \in 1 .. Len(channel) \/ i = Len(channel) + 1
      <4>1. Len(channel) \in Nat
        BY <1>0, Numbers
      <4> QED BY <2>3, <4>1
    <3> QED BY <2>3, <2>4, <3>1
  <2>6. offering[1] # Notice => offering' = <<>> /\ offering[1] = pollCursor + 1
    <3>1. offering[1] # Notice => Len(Tail(offering)) = 0 /\ offering[1] = pollCursor + 1
      BY <1>0, <2>1 DEF FlightInv
    <3> QED BY <1>3, <2>1, <3>1, EmptySeq DEF Offer
  <2>7. \A i \in 1 .. Len(offering') : offering[1] = Notice => offering'[i] = Notice
    <3> SUFFICES ASSUME NEW i \in 1 .. Len(offering'), offering[1] = Notice, offering'[i] # Notice
                 PROVE  FALSE
      OBVIOUS
    <3>1. offering'[i] = offering[i + 1] /\ i + 1 \in 1 .. Len(offering) /\ i + 1 # 1
      BY <1>3, <2>1 DEF Offer
    <3> QED BY <1>0, <3>1 DEF FlightInv
  <2>8. batch = NoUpdate /\ current = NoUpdate /\ acked = NoUpdate
    BY <1>0, <1>3 DEF Offer, FlightInv
  <2>9. CASE offering[1] = Notice
    BY <1>0, <1>3, <2>1, <2>5, <2>7, <2>8, <2>9 DEF Offer, AfterOffer, FlightInv, mainVars
  <2>10. CASE offering[1] # Notice
    BY <1>0, <1>3, <2>1, <2>5, <2>6, <2>8, <2>10, EmptySeq
       DEF Offer, AfterOffer, FlightInv, mainVars
  <2> QED BY <2>9, <2>10
<1>4. CASE AskAgain
  BY <1>0, <1>4 DEF AskAgain, FlightInv, mainVars
<1>5. CASE TakeAck
  <2>1. \A i \in 1 .. Len(offering) : FALSE
    BY <1>0, <1>5, EmptySeq DEF TakeAck, FlightInv
  <2> QED BY <1>0, <1>5, <2>1 DEF TakeAck, FlightInv, mainVars
<1>6. CASE Receive
  <2>1. /\ Head(channel) = channel[1] /\ Len(channel) \in Nat \ {0}
        /\ Len(Tail(channel)) = Len(channel) - 1
        /\ \A i \in 1 .. Len(Tail(channel)) : Tail(channel)[i] = channel[i + 1]
    BY <1>0, <1>6, HeadTailProperties, EmptySeq DEF Receive, TypedInv, TypeOK
  <2>2. /\ Len(channel') = Len(channel) - 1 /\ 1 \in 1 .. Len(channel)
        /\ \A i \in 1 .. Len(channel') :
             channel'[i] = channel[i + 1] /\ i + 1 \in 1 .. Len(channel)
    BY <1>6, <2>1 DEF Receive
  <2>3. CASE channel[1] = Notice
    <3>1. UNCHANGED <<batch, current, acked, pollVars>>
      BY <1>6, <2>1, <2>3 DEF Receive
    <3>2. \A i \in 1 .. Len(channel') : channel'[i] # Notice =>
            i = Len(channel') /\ channel'[i] = pollCursor + 1 /\ poller = "await"
            /\ batch = NoUpdate /\ current = NoUpdate /\ acked = NoUpdate
      <4> SUFFICES ASSUME NEW i \in 1 .. Len(channel'), channel'[i] # Notice
                   PROVE  /\ i = Len(channel') /\ channel'[i] = pollCursor + 1 /\ poller = "await"
                          /\ batch = NoUpdate /\ current = NoUpdate /\ acked = NoUpdate
        OBVIOUS
      <4>1. channel[i + 1] # Notice /\ i + 1 \in 1 .. Len(channel) /\ channel'[i] = channel[i + 1]
        BY <2>2
      <4>2. i + 1 = Len(channel)
        BY <1>0, <4>1 DEF FlightInv
      <4>3. i = Len(channel')
        BY <1>0, <2>2, <4>2, Numbers
      <4> QED BY <1>0, <4>1, <4>3 DEF FlightInv
    <3> QED BY <1>0, <3>1, <3>2 DEF FlightInv, pollVars
  <2>4. CASE channel[1] # Notice
    <3>1. Len(channel) = 1 /\ channel[1] = pollCursor + 1 /\ poller = "await"
          /\ current = NoUpdate /\ acked = NoUpdate
      BY <1>0, <2>2, <2>4 DEF FlightInv
    <3>2. batch' = channel[1] /\ UNCHANGED <<current, acked, pollVars>>
      BY <1>6, <2>1, <2>4 DEF Receive
    <3>3. Len(channel') = 0
      BY <2>2, <3>1
    <3> QED BY <1>0, <3>1, <3>2, <3>3 DEF FlightInv, pollVars
  <2> QED BY <2>3, <2>4
<1>7. CASE EndCollect \/ SaveFails \/ NoCheckpoint \/ Drain \/ DrainIdle
  BY <1>0, <1>7 DEF EndCollect, SaveFails, NoCheckpoint, Drain, DrainIdle, EndPass, FlightInv, pollVars
<1>8. CASE SaveCursor
  BY <1>0, <1>8 DEF SaveCursor, FlightInv, pollVars
<1>9. CASE HandleSend \/ HandleReply \/ HandlePlain \/ UpdateFails
  BY <1>0, <1>9 DEF HandleSend, HandleReply, HandlePlain, UpdateFails, Handled, FlightInv, pollVars
<1>10. CASE Acknowledge
  <2>1. current # NoUpdate
    BY <1>0, <1>10 DEF Acknowledge, TypedInv
  <2> QED BY <1>0, <1>10, <2>1 DEF Acknowledge, FlightInv, pollVars
<1>11. CASE HandleRestart \/ UpdateSucceeds
  BY <1>11, EmptySeq DEF HandleRestart, UpdateSucceeds, Boot, FlightInv
<1> QED BY <1>1, <1>2, <1>3, <1>4, <1>5, <1>6, <1>7, <1>8, <1>9, <1>10, <1>11
        DEF MainLoop, PollThread, Handle

(* The poll thread neither handles an update nor skips one. *)
LEMMA ProgressPoll ==
  ASSUME DurableInv, PollThread
  PROVE  ProgressInv' /\ OnceInOrder'
<1>0. TypedInv /\ FlightInv /\ ProgressInv /\ OnceInOrder
  BY DEF DurableInv
<1>1. OnceInOrder'
  BY <1>0 DEF PollThread, PollAnswers, PollFails, Offer, AskAgain, TakeAck, histories, OnceInOrder
<1>2. CASE PollAnswers \/ PollFails
  <2>1. Asked = pollCursor
    BY <1>0, Numbers DEF Asked, ProgressInv
  <2> QED BY <1>0, <1>1, <1>2, <2>1, Numbers, SMTT(20)
          DEF PollAnswers, PollFails, ProgressInv, Reached, Covered, mainVars, histories
<1>3. CASE Offer \/ AskAgain
  <2>1. pollCursor' = pollCursor
    BY <1>0, <1>3, HeadTailProperties, EmptySeq DEF Offer, AskAgain, AfterOffer
  <2> QED BY <1>0, <1>1, <1>3, <2>1
          DEF Offer, AskAgain, ProgressInv, Reached, Covered, mainVars, histories
<1>4. CASE TakeAck
  <2>1. current = NoUpdate /\ phase \notin {"handle", "ack"} /\ acked = pollCursor + 1
    BY <1>0, <1>4 DEF TakeAck, FlightInv, TypedInv
  <2>2. Reached' = Reached /\ UNCHANGED <<phase, current, saved, persisted, forgotten, handled, interrupted>>
    BY <1>4, <2>1 DEF TakeAck, Reached, mainVars, histories
  <2> QED BY <1>0, <1>1, <1>4, <2>1, <2>2, Numbers
          DEF TakeAck, ProgressInv, Covered, NoUpdate
<1> QED BY <1>2, <1>3, <1>4, <1>1 DEF PollThread

(* Nor does the main loop, which handles the one it was given. *)
LEMMA ProgressMain ==
  ASSUME DurableInv, MainLoop, ~HandleRestart, ~UpdateSucceeds
  PROVE  ProgressInv' /\ OnceInOrder'
<1>0. TypedInv /\ FlightInv /\ ProgressInv /\ OnceInOrder
  BY DEF DurableInv
<1>1. CASE Receive \/ EndCollect \/ NoCheckpoint \/ Drain \/ DrainIdle \/ SaveFails
  <2>1. /\ UNCHANGED <<forgotten, pollCursor, persisted, current, acked, handled, interrupted>>
        /\ phase \notin {"handle", "ack"} /\ phase' \notin {"handle", "ack"}
    BY <1>1 DEF Receive, EndCollect, NoCheckpoint, Drain, DrainIdle, EndPass, SaveFails,
                pollVars, histories
  <2>2. Reached' = Reached
    BY <2>1 DEF Reached
  <2>3. saved' = saved \/ (saved' = batch /\ batch > persisted /\ batch # NoUpdate)
    BY <1>0, <1>1, Numbers
       DEF Receive, EndCollect, NoCheckpoint, Drain, DrainIdle, EndPass, SaveFails, NoUpdate
  <2>4. /\ pollCursor <= saved' /\ persisted <= saved' /\ current <= saved' /\ acked <= saved'
    BY <1>0, <2>3, Numbers DEF ProgressInv, FlightInv, NoUpdate
  <2>5. ProgressInv'
    BY <1>0, <2>1, <2>2, <2>4 DEF ProgressInv, Covered
  <2> QED BY <1>0, <2>1, <2>5 DEF OnceInOrder
<1>2. CASE SaveCursor
  <2>1. /\ batch = pollCursor + 1 /\ current = NoUpdate /\ acked = NoUpdate
        /\ current' = batch /\ phase = "checkpoint" /\ phase' = "handle"
        /\ UNCHANGED <<forgotten, pollCursor, acked, handled, interrupted>>
    BY <1>0, <1>2 DEF SaveCursor, FlightInv, pollVars, histories
  <2>2. Reached' = pollCursor /\ Reached = pollCursor
    BY <2>1 DEF Reached
  <2>3. saved' >= batch /\ persisted' <= saved' /\ persisted' <= batch
    BY <1>0, <1>2, <2>1, <2>2, Numbers DEF SaveCursor, ProgressInv
  <2>4. ProgressInv'
    <3>1. pollCursor <= saved' /\ current' <= saved' /\ acked <= saved'
      BY <1>0, <1>2, <2>1, <2>3, Numbers DEF SaveCursor, ProgressInv, NoUpdate
    <3> QED BY <1>0, <2>1, <2>2, <2>3, <3>1 DEF ProgressInv, Covered
  <2> QED BY <1>0, <2>1, <2>4 DEF OnceInOrder
<1>3. CASE HandleSend \/ HandleReply \/ HandlePlain \/ UpdateFails
  <2>1. Handled /\ phase = "handle"
    BY <1>3 DEF HandleSend, HandleReply, HandlePlain, UpdateFails, Handling
  <2>2. /\ current = pollCursor + 1 /\ acked = NoUpdate /\ phase' = "ack"
        /\ UNCHANGED <<forgotten, saved, pollCursor, persisted, current, acked, interrupted>>
        /\ handled' = Append(handled, current)
    BY <1>0, <2>1 DEF Handled, FlightInv, TypedInv, pollVars
  <2>3. Reached = pollCursor /\ Reached' = current
    BY <2>1, <2>2 DEF Reached
  <2>4. /\ DOMAIN handled = 1 .. Len(handled) /\ DOMAIN handled' = 1 .. Len(handled) + 1
        /\ \A i \in 1 .. Len(handled) : handled'[i] = handled[i] /\ handled[i] \in Nat
        /\ handled'[Len(handled) + 1] = current
    <3>1. current \in Cursors \ {NoUpdate}
      BY <1>0, <2>1 DEF TypedInv, TypeOK
    <3>2. handled \in Seq(Cursors \ {NoUpdate})
      BY <1>0 DEF TypedInv, TypeOK
    <3>3. \A i \in 1 .. Len(handled) : handled[i] \in Nat
      BY <1>0, ElementOfSeq, Numbers DEF TypedInv, TypeOK
    <3> QED BY <2>2, <3>1, <3>2, <3>3, Appended
  <2>5. \A i \in 1 .. Len(handled) : handled[i] < current
    <3> SUFFICES ASSUME NEW i \in 1 .. Len(handled) PROVE handled[i] < current
      OBVIOUS
    <3>1. handled[i] <= pollCursor
      BY <1>0, <2>3, <2>4 DEF ProgressInv
    <3>2. handled[i] \in Nat /\ pollCursor \in Nat /\ current = pollCursor + 1
      BY <1>0, <2>2, <2>4, Numbers
    <3> QED BY <3>1, <3>2
  <2>6. Range(handled') = Range(handled) \union {current} /\ OnceInOrder'
    <3>1. Len(handled) \in Nat
      BY <1>0, Numbers
    <3>2. \A i, j \in DOMAIN handled : i < j => handled[i] < handled[j]
      BY <1>0 DEF OnceInOrder
    <3>3. /\ Range(handled') = Range(handled) \union {current}
          /\ \A i, j \in DOMAIN handled' : i < j => handled'[i] < handled'[j]
      BY <2>4, <2>5, <3>1, <3>2, Extended, SMTT(15)
    <3> QED BY <3>3 DEF OnceInOrder
  <2>7. \A u \in 1 .. current : Covered(u)'
    <3>1. \A u \in 1 .. current : u = current \/ u \in 1 .. pollCursor
      BY <1>0, <2>2, Numbers, SMTT(20)
    <3>2. \A u \in 1 .. pollCursor : Covered(u)
      BY <1>0, <2>3 DEF ProgressInv
    <3> QED BY <2>2, <2>6, <3>1, <3>2 DEF Covered
  <2>8. \A i \in DOMAIN handled' : handled'[i] <= current
    <3> SUFFICES ASSUME NEW i \in DOMAIN handled' PROVE handled'[i] <= current
      OBVIOUS
    <3>1. Len(handled) \in Nat /\ current \in Nat
      BY <1>0, Numbers
    <3>2. CASE i \in 1 .. Len(handled)
      <4>1. handled'[i] = handled[i] /\ handled[i] \in Nat /\ handled[i] < current
        BY <2>4, <2>5, <3>2
      <4> QED BY <3>1, <4>1
    <3>3. CASE i = Len(handled) + 1
      BY <2>4, <3>1, <3>3
    <3> QED BY <2>4, <3>1, <3>2, <3>3
  <2> QED BY <1>0, <2>1, <2>2, <2>3, <2>6, <2>7, <2>8 DEF ProgressInv
<1>4. CASE Acknowledge
  <2>1. /\ current = pollCursor + 1 /\ acked' = current /\ current' = NoUpdate
        /\ phase = "ack" /\ phase' = "drain"
        /\ UNCHANGED <<forgotten, saved, pollCursor, persisted, handled, interrupted>>
    BY <1>0, <1>4 DEF Acknowledge, FlightInv, TypedInv, pollVars, histories
  <2>2. Reached = current /\ Reached' = current
    BY <1>0, <2>1, Numbers DEF Reached, NoUpdate
  <2>3. ProgressInv'
    BY <1>0, <2>1, <2>2, Numbers DEF ProgressInv, Covered, NoUpdate
  <2> QED BY <1>0, <2>1, <2>3 DEF OnceInOrder
<1> QED BY <1>1, <1>2, <1>3, <1>4 DEF MainLoop, Handle

(* An update that resets the device is handled by it. *)
LEMMA CompletedInOrder ==
  ASSUME DurableInv, NEW done,
         \/ done = handled
         \/ phase = "handle" /\ done = Append(handled, current)
  PROVE  /\ \A i \in DOMAIN done : done[i] <= saved
         /\ \A i, j \in DOMAIN done : i < j => done[i] < done[j]
         /\ phase = "handle" /\ done # handled =>
              \A u \in 1 .. current : u \in Range(done) \/ u \in interrupted
<1>0. TypedInv /\ FlightInv /\ ProgressInv /\ OnceInOrder
  BY DEF DurableInv
<1>1. Reached <= saved /\ Reached \in Nat
  BY <1>0, Numbers DEF Reached, ProgressInv
<1>2. /\ DOMAIN handled = 1 .. Len(handled)
      /\ \A i \in DOMAIN handled : handled[i] \in Nat
  BY <1>0, LenProperties, ElementOfSeq, Numbers DEF TypedInv, TypeOK
<1>3. CASE done = handled
  BY <1>0, <1>1, <1>2, <1>3, Numbers DEF ProgressInv, OnceInOrder
<1>4. CASE phase = "handle" /\ done = Append(handled, current)
  <2>1. Reached = pollCursor /\ current = pollCursor + 1 /\ current # NoUpdate
    BY <1>0, <1>4 DEF Reached, TypedInv, FlightInv
  <2>2. /\ DOMAIN done = 1 .. Len(handled) + 1
        /\ \A i \in 1 .. Len(handled) : done[i] = handled[i]
        /\ done[Len(handled) + 1] = current
    <3>1. current \in Cursors \ {NoUpdate}
      BY <1>0, <2>1 DEF TypedInv, TypeOK
    <3>2. handled \in Seq(Cursors \ {NoUpdate})
      BY <1>0 DEF TypedInv, TypeOK
    <3> QED BY <1>4, <3>1, <3>2, Appended
  <2>3. \A i \in 1 .. Len(handled) : handled[i] < current
    <3> SUFFICES ASSUME NEW i \in 1 .. Len(handled) PROVE handled[i] < current
      OBVIOUS
    <3>1. handled[i] <= pollCursor /\ handled[i] \in Nat
      BY <1>0, <1>2, <2>1 DEF ProgressInv
    <3> QED BY <1>0, <2>1, <3>1, Numbers, SMTT(20)
  <2>4. /\ Range(done) = Range(handled) \union {current}
        /\ \A i, j \in DOMAIN done : i < j => done[i] < done[j]
    <3>1. Len(handled) \in Nat
      BY <1>0, Numbers
    <3>2. \A i, j \in DOMAIN handled : i < j => handled[i] < handled[j]
      BY <1>0 DEF OnceInOrder
    <3> QED BY <1>2, <2>2, <2>3, <3>1, <3>2, Extended, SMTT(20)
  <2>5. \A u \in 1 .. current : u = current \/ u \in 1 .. pollCursor
    BY <1>0, <2>1, Numbers
  <2>6. \A u \in 1 .. current : u \in Range(done) \/ u \in interrupted
    BY <1>0, <2>1, <2>4, <2>5 DEF ProgressInv, Covered
  <2>7. \A i \in DOMAIN done : done[i] <= saved
    <3>1. current <= saved /\ current \in Nat /\ saved \in Nat /\ Len(handled) \in Nat
      BY <1>0, <2>1, Numbers DEF ProgressInv
    <3>2. \A i \in 1 .. Len(handled) : done[i] \in Nat /\ done[i] < current
      BY <1>2, <2>2, <2>3
    <3> QED BY <2>2, <3>1, <3>2
  <2> QED BY <2>4, <2>6, <2>7
<1> QED BY <1>3, <1>4

(* A reset starts from the saved cursor; what lies behind it was handled or *)
(* is counted as interrupted. *)
LEMMA BootKeeps ==
  ASSUME DurableInv, Durable, NEW done, Boot(done),
         \/ done = handled
         \/ phase = "handle" /\ done = Append(handled, current)
  PROVE  FlightInv' /\ ProgressInv' /\ OnceInOrder'
<1>0. TypedInv /\ FlightInv /\ ProgressInv /\ OnceInOrder
  BY DEF DurableInv
<1>1. /\ saved' = saved /\ persisted' = saved /\ pollCursor' = saved
      /\ current' = NoUpdate /\ acked' = NoUpdate /\ batch' = NoUpdate
      /\ phase' = "collect" /\ poller' = "ask" /\ offering' = <<>> /\ channel' = <<>>
      /\ handled' = done /\ forgotten' = forgotten
      /\ interrupted' = interrupted \union OutOfReach(done, saved)
  BY DEF Boot
<1>2. FlightInv'
  BY <1>1, EmptySeq DEF FlightInv
<1>3. Reached' = saved
  BY <1>1 DEF Reached, NoUpdate
<1>4. /\ \A i \in DOMAIN done : done[i] <= saved
      /\ \A i, j \in DOMAIN done : i < j => done[i] < done[j]
  BY CompletedInOrder
<1>5. \A u \in 1 .. saved : u \in Range(done) \/ u \in OutOfReach(done, saved)
  <2> SUFFICES ASSUME NEW u \in 1 .. saved, u \notin Range(done)
               PROVE  u \in OutOfReach(done, saved)
    OBVIOUS
  <2>1. saved \in Nat /\ saved <= Len(inbox) /\ Len(inbox) <= MaxPosts
    BY <1>0, Numbers DEF TypedInv, TypeOK, Cursors
  <2>2. u \in Ids /\ u <= saved
    BY <2>1, Numbers, CursorAssumption DEF Ids
  <2> QED BY <2>2 DEF OutOfReach
<1>6. \A u \in 1 .. saved : Covered(u)'
  BY <1>1, <1>5 DEF Covered
<1>7. ProgressInv'
  BY <1>0, <1>1, <1>3, <1>4, <1>6, Numbers DEF ProgressInv, NoUpdate
<1> QED BY <1>1, <1>2, <1>4, <1>7 DEF OnceInOrder

(* A new update is behind all cursors. *)
LEMMA PostKeeps ==
  ASSUME DurableInv, NEW u \in Inputs, Post(u)
  PROVE  FlightInv' /\ ProgressInv' /\ OnceInOrder'
BY DEF DurableInv, Post, FlightInv, ProgressInv, Reached, Covered, OnceInOrder,
       pollVars, mainVars, histories

(* Every step keeps the invariant of a durable store. *)
LEMMA DurableStep ==
  ASSUME Durable
  PROVE  DurableInv /\ [Next]_vars => DurableInv'
<1> SUFFICES ASSUME DurableInv, [Next]_vars PROVE DurableInv'
  OBVIOUS
<1>1. TypedInv'
  BY TypedStep DEF DurableInv
<1>2. CASE UNCHANGED vars
  <2>1. FlightInv' /\ ProgressInv' /\ OnceInOrder'
    BY <1>2 DEF vars, pollVars, mainVars, histories, DurableInv, FlightInv, ProgressInv, Reached,
                Covered, OnceInOrder
  <2> QED BY <1>1, <2>1 DEF DurableInv
<1>3. CASE \E u \in Inputs : Post(u)
  BY <1>1, <1>3, PostKeeps DEF DurableInv
<1>4. CASE PollThread
  BY <1>1, <1>4, FlightStep, ProgressPoll DEF DurableInv
<1>5. CASE MainLoop /\ ~HandleRestart /\ ~UpdateSucceeds
  BY <1>1, <1>5, FlightStep, ProgressMain DEF DurableInv
<1>6. CASE HandleRestart \/ UpdateSucceeds
  <2>1. phase = "handle" /\ Boot(Append(handled, current))
    BY <1>6 DEF HandleRestart, UpdateSucceeds, Handling
  <2> QED BY <1>1, <2>1, BootKeeps DEF DurableInv
<1>7. CASE Cut \/ Supervise
  <2>1. Boot(handled)
    BY <1>7 DEF Cut, Supervise
  <2> QED BY <1>1, <2>1, BootKeeps DEF DurableInv
<1> QED BY <1>2, <1>3, <1>4, <1>5, <1>6, <1>7 DEF Next

(* Every update is handled at most once, and in order, for every number of  *)
(* updates and of resets, if the cursor outlives a reset (main.rs 531-533,  *)
(* 1640-1849).                                                              *)
THEOREM HandledOnceInOrder == ASSUME Durable PROVE Spec => []OnceInOrder
<1>1. DurableInv => OnceInOrder
  BY DEF DurableInv
<1> QED BY DurableInit, DurableStep, <1>1, PTL DEF Spec

(* Telegram forgets an update only when it was handled or put out of reach  *)
(* by a reset after its checkpoint (main.rs 531-533).                       *)
THEOREM NothingForgotten == ASSUME Durable PROVE Spec => []ForgottenIsHandled
<1>1. DurableInv => ForgottenIsHandled
  <2> SUFFICES ASSUME DurableInv, NEW u \in 1 .. forgotten
               PROVE  u \in Range(handled) \union interrupted
    BY DEF ForgottenIsHandled
  <2>1. TypedInv /\ FlightInv /\ ProgressInv
    BY DEF DurableInv
  <2>2. pollCursor <= Reached /\ Reached \in Nat
    BY <2>1, Numbers DEF Reached, FlightInv, TypedInv
  <2>3. u \in 1 .. Reached
    BY <2>1, <2>2, Numbers DEF ProgressInv
  <2> QED BY <2>1, <2>3 DEF ProgressInv, Covered
<1> QED BY DurableInit, DurableStep, <1>1, PTL DEF Spec

(* /restart and an update of the firmware cost no update of the operator,   *)
(* and a restart by a supervisor none but an /ota that is under way, unless *)
(* the store holds a cursor whose write it reported as failed (main.rs 675, *)
(* 719-755, 1072-1086, 1818, 2480-2564).                                    *)
THEOREM RestartsSpareTheRest == ASSUME Durable PROVE Spec => RestartsLoseOnlyOta
<1> DEFINE Spared ==
      saved = persisted =>
        /\ HandleRestart \/ UpdateSucceeds => interrupted' = interrupted
        /\ Supervise => \A u \in interrupted' \ interrupted : u = current /\ Handling("ota")
<1>1. DurableInv => Spared
  <2> SUFFICES ASSUME DurableInv, saved = persisted PROVE Spared
    OBVIOUS
  <2>0. TypedInv /\ FlightInv /\ ProgressInv
    BY DEF DurableInv
  <2>1. ASSUME NEW done, Boot(done)
        PROVE  /\ interrupted' = interrupted \union OutOfReach(done, saved)
               /\ \A u \in OutOfReach(done, saved) : u \in 1 .. saved /\ u \notin Range(done)
    <3>1. interrupted' = interrupted \union OutOfReach(done, saved)
      BY <2>1 DEF Boot
    <3>2. \A u \in OutOfReach(done, saved) : u \in 1 .. saved /\ u \notin Range(done)
      BY <2>0, Numbers DEF OutOfReach, Ids, ProgressInv
    <3> QED BY <3>1, <3>2
  <2>2. ASSUME HandleRestart \/ UpdateSucceeds PROVE interrupted' = interrupted
    <3> DEFINE done == Append(handled, current)
    <3>1. Boot(done) /\ phase = "handle"
      BY <2>2 DEF HandleRestart, UpdateSucceeds, Handling
    <3>2. saved <= current
      BY <2>0, <3>1 DEF ProgressInv
    <3>3. done # handled
      BY <2>0, <3>1, AppendProperties, Numbers DEF TypedInv, TypeOK
    <3> SUFFICES ASSUME NEW u \in OutOfReach(done, saved) PROVE u \in interrupted
      BY <2>1, <3>1
    <3>4. u \in 1 .. current /\ u \notin Range(done)
      BY <2>0, <2>1, <3>1, <3>2, Numbers
    <3> HIDE DEF done
    <3> QED BY <3>1, <3>3, <3>4, CompletedInOrder DEF done
  <2>3. ASSUME Supervise, NEW u \in interrupted', u \notin interrupted
        PROVE  u = current /\ Handling("ota")
    <3>1. Boot(handled) /\ MayRestart
      BY <2>3 DEF Supervise
    <3>2. u \in 1 .. saved /\ u \notin Range(handled)
      BY <2>1, <2>3, <3>1
    <3>3. u \notin 1 .. Reached
      BY <2>0, <2>3, <3>2 DEF ProgressInv, Covered
    <3>4. CASE phase = "handle"
      <4>1. Handling("ota")
        BY <3>1, <3>4 DEF MayRestart, Handling
      <4>2. /\ saved <= current /\ current = pollCursor + 1 /\ Reached = pollCursor
            /\ current \in Nat /\ pollCursor \in Nat /\ saved \in Nat
        BY <2>0, <3>4, Numbers DEF ProgressInv, FlightInv, TypedInv, Reached
      <4> QED BY <3>2, <3>3, <4>1, <4>2
    <3>5. CASE phase # "handle"
      <4>1. saved <= Reached
        BY <2>0, <3>5 DEF ProgressInv
      <4>2. u \in 1 .. Reached
        BY <2>0, <3>2, <4>1, Numbers DEF Reached
      <4> QED BY <3>3, <4>2
    <3> QED BY <3>4, <3>5
  <2> QED BY <2>2, <2>3
<1>2. DurableInv /\ [Next]_vars => [Spared]_vars
  BY <1>1
<1> QED BY DurableInit, DurableStep, <1>2, PTL DEF Spec, RestartsLoseOnlyOta

-----------------------------------------------------------------------------
(* What the operator is told of outgoing SMS.  Each request that was handled *)
(* buys a message a number of attempts; an entry of the queue holds those    *)
(* that its request has left.                                                *)

Requests(m) ==
  {u \in DOMAIN inbox : inbox[u].kind \in {"send", "reply"} /\ inbox[u].msg = m}

Served(m) == Requests(m) \intersect Range(handled)

Budget(m) == MaxAttempts * Cardinality(Served(m))

BudgetInv ==
  /\ \A m \in Messages : tries[m] <= Budget(m)
  /\ \A i \in DOMAIN entries :
       tries[entries[i].msg] + MaxAttempts - entries[i].attempts <= Budget(entries[i].msg)
  /\ \A i, j \in DOMAIN entries : i # j => entries[i].msg # entries[j].msg

AiredInv ==
  /\ \A m \in Messages : aired[m] \subseteq 1 .. PartsOf[m]
  /\ ReportedIsSent

(* Sets of updates can be counted. *)
LEMMA Countable ==
  ASSUME NEW n \in Nat, NEW S, S \subseteq 1 .. n, NEW T, T \subseteq S
  PROVE  /\ Cardinality(S) \in Nat /\ Cardinality(T) \in Nat
         /\ IsFiniteSet(S) /\ IsFiniteSet(T)
         /\ Cardinality(T) <= Cardinality(S)
<1>1. IsFiniteSet(1 .. n)
  BY FS_Interval
<1>2. IsFiniteSet(S)
  BY <1>1, FS_Subset
<1>3. IsFiniteSet(T) /\ Cardinality(T) <= Cardinality(S)
  BY <1>2, FS_Subset
<1> QED BY <1>2, <1>3, FS_CardinalityType

(* More requests buy more attempts. *)
LEMMA Products ==
  ASSUME NEW c \in Nat, NEW d \in Nat, c <= d
  PROVE  /\ MaxAttempts * c <= MaxAttempts * d
         /\ MaxAttempts * (c + 1) = MaxAttempts * c + MaxAttempts
<1>1. MaxAttempts \in Nat
  BY SenderAssumption
<1>2. PICK e \in Nat : d = c + e
  <2>1. d - c \in Nat /\ d = c + (d - c)
    OBVIOUS
  <2> QED BY <2>1
<1>3. MaxAttempts * e \in Nat
  BY <1>1
<1>4. MaxAttempts * (c + e) = MaxAttempts * c + MaxAttempts * e
  BY <1>1
<1>5. MaxAttempts * c <= MaxAttempts * d
  BY <1>1, <1>2, <1>3, <1>4
<1> QED BY <1>1, <1>5

(* What has been handled stays handled. *)
LEMMA BudgetGrows ==
  ASSUME TypedInv, TypedInv', NEW m, Served(m) \subseteq Served(m)'
  PROVE  /\ Budget(m) <= Budget(m)'
         /\ Budget(m) \in Nat /\ Budget(m)' \in Nat
<1>1. Len(inbox') \in Nat /\ Served(m)' \subseteq 1 .. Len(inbox')
  BY LenProperties DEF TypedInv, TypeOK, Served, Requests
<1>2. /\ Cardinality(Served(m)) \in Nat /\ Cardinality(Served(m)') \in Nat
      /\ Cardinality(Served(m)) <= Cardinality(Served(m)')
  BY <1>1, Countable
<1> QED BY <1>2, Products, SenderAssumption DEF Budget

(* The types of the outgoing queue. *)
LEMMA EntryTypes ==
  ASSUME TypedInv
  PROVE  /\ DOMAIN entries = 1 .. Len(entries) /\ Len(entries) \in Nat
         /\ \A i \in DOMAIN entries :
              /\ entries[i] \in Entries
              /\ entries[i].msg \in Messages
              /\ entries[i].attempts \in 0 .. MaxAttempts - 1
         /\ \A m \in Messages : tries[m] \in Nat
<1>1. entries \in Seq(Entries) /\ tries \in [Messages -> Nat]
  BY DEF TypedInv, TypeOK, SenderType
<1>2. DOMAIN entries = 1 .. Len(entries) /\ Len(entries) \in Nat
  BY <1>1, LenProperties
<1>3. \A i \in DOMAIN entries : entries[i] \in Entries
  BY <1>1, <1>2, ElementOfSeq
<1> QED BY <1>1, <1>2, <1>3 DEF Entries

(* Without an attempt or a new entry, the attempts left can only grow. *)
LEMMA BudgetStays ==
  ASSUME TypedInv, TypedInv', BudgetInv, UNCHANGED tries,
         entries' = entries \/ entries' = <<>>,
         \A m \in Messages : Served(m) \subseteq Served(m)'
  PROVE  BudgetInv'
<1>1. ASSUME NEW m \in Messages
      PROVE  Budget(m) <= Budget(m)' /\ Budget(m) \in Nat /\ Budget(m)' \in Nat
  BY BudgetGrows
<1>2. \A m \in Messages : tries'[m] <= Budget(m)'
  <2> TAKE m \in Messages
  <2>1. tries[m] \in Nat /\ tries[m] <= Budget(m) /\ tries' = tries
    BY EntryTypes DEF BudgetInv
  <2>2. Budget(m) <= Budget(m)' /\ Budget(m) \in Nat /\ Budget(m)' \in Nat
    BY <1>1
  <2> QED BY <2>1, <2>2
<1>3. CASE entries' = <<>>
  BY <1>2, <1>3 DEF BudgetInv
<1>4. CASE entries' = entries
  <2>1. ASSUME NEW i \in DOMAIN entries, NEW m \in Messages, m = entries[i].msg
        PROVE  tries[m] + MaxAttempts - entries[i].attempts <= Budget(m)'
    <3>1. /\ tries[m] \in Nat
          /\ entries[i].attempts \in 0 .. MaxAttempts - 1 /\ MaxAttempts \in Nat
      BY EntryTypes, SenderAssumption
    <3>2. tries[m] + MaxAttempts - entries[i].attempts <= Budget(m)
      BY <2>1 DEF BudgetInv
    <3>3. Budget(m) <= Budget(m)' /\ Budget(m) \in Nat /\ Budget(m)' \in Nat
      BY <1>1
    <3> QED BY <3>1, <3>2, <3>3
  <2>2. \A i \in DOMAIN entries : entries[i].msg \in Messages
    BY EntryTypes
  <2>3. \A i \in DOMAIN entries' :
          tries'[entries'[i].msg] + MaxAttempts - entries'[i].attempts
            <= Budget(entries[i].msg)'
    BY <1>4, <2>1, <2>2
  <2> QED BY <1>2, <1>4, <2>3 DEF BudgetInv
<1> QED BY <1>3, <1>4

(* A handled update was not handled before. *)
LEMMA Serving ==
  ASSUME DurableInv, Handled, phase = "handle"
  PROVE  /\ \A m \in Messages : Served(m) \subseteq Served(m)'
         /\ current \notin Range(handled)
         /\ Range(handled') = Range(handled) \union {current}
<1>0. TypedInv /\ FlightInv /\ ProgressInv
  BY DEF DurableInv
<1>1. Reached = pollCursor /\ current = pollCursor + 1 /\ current \in Nat /\ pollCursor \in Nat
  BY <1>0, Numbers DEF Reached, TypedInv, FlightInv
<1>2. handled \in Seq(Cursors \ {NoUpdate}) /\ current \in Cursors \ {NoUpdate}
  BY <1>0 DEF TypedInv, TypeOK
<1>3. /\ DOMAIN handled = 1 .. Len(handled) /\ Len(handled) \in Nat
      /\ DOMAIN handled' = 1 .. Len(handled) + 1
      /\ \A i \in 1 .. Len(handled) : handled'[i] = handled[i]
      /\ handled'[Len(handled) + 1] = current
  BY <1>2, Appended DEF Handled
<1>4. Range(handled') = Range(handled) \union {current}
  <2> DEFINE n == Len(handled)
  <2>1. /\ n \in Nat /\ DOMAIN handled = 1 .. n /\ DOMAIN handled' = 1 .. n + 1
        /\ \A i \in 1 .. n : handled'[i] = handled[i]
        /\ handled'[n + 1] = current
    BY <1>3
  <2> HIDE DEF n
  <2> QED BY <2>1, Extended
<1>5. current \notin Range(handled)
  <2> SUFFICES ASSUME NEW i \in DOMAIN handled PROVE handled[i] # current
    BY DEF Range
  <2>1. handled[i] <= pollCursor /\ handled[i] \in Nat
    BY <1>0, <1>1, <1>2, <1>3, ElementOfSeq, Numbers DEF ProgressInv
  <2> QED BY <1>1, <2>1
<1>6. inbox' = inbox
  BY DEF Handled
<1> QED BY <1>4, <1>5, <1>6 DEF Served, Requests

(* A request that is queued brings its attempts along. *)
LEMMA EnqueueBudget ==
  ASSUME DurableInv, BudgetInv, TypedInv', Handled, phase = "handle",
         NEW m \in Messages, inbox[current].msg = m,
         inbox[current].kind \in {"send", "reply"},
         Enqueue(m) \/ EnqueueCommandSend(m)
  PROVE  BudgetInv'
<1> DEFINE e == [msg |-> m, attempts |-> 0]
<1>0. TypedInv /\ UNCHANGED <<tries, inbox>>
  BY DEF DurableInv, Enqueue, EnqueueCommandSend, Handled
<1>1. \A x \in Messages : Served(x) \subseteq Served(x)'
  BY Serving
<1>2. CASE entries' = entries
  BY <1>0, <1>1, <1>2, BudgetStays
<1>3. CASE entries' # entries
  <2>1. entries' = Append(entries, e) /\ ~Queued(m)
    BY <1>3 DEF Enqueue, EnqueueCommandSend, CanEnqueue
  <2>2. e \in Entries /\ e.msg = m /\ e.attempts = 0
    BY SenderAssumption DEF Entries
  <2> HIDE DEF e
  <2>3. /\ DOMAIN entries = 1 .. Len(entries) /\ Len(entries) \in Nat
        /\ DOMAIN entries' = 1 .. Len(entries) + 1
        /\ \A i \in 1 .. Len(entries) : entries'[i] = entries[i]
        /\ entries'[Len(entries) + 1] = e
    <3>1. entries \in Seq(Entries)
      BY <1>0 DEF TypedInv, TypeOK, SenderType
    <3> QED BY <2>1, <2>2, <3>1, Appended
  <2>4. Budget(m)' = Budget(m) + MaxAttempts
    <3>1. current \in DOMAIN inbox
      <4>1. current \in Cursors \ {NoUpdate} /\ inbox \in Seq(Update)
        BY <1>0 DEF TypedInv, TypeOK
      <4>2. current \in 1 .. Len(inbox) /\ DOMAIN inbox = 1 .. Len(inbox)
        BY <4>1, LenProperties DEF Cursors, NoUpdate
      <4> QED BY <4>2
    <3>2. Served(m)' = Served(m) \union {current} /\ current \notin Served(m)
      BY <1>0, <3>1, Serving DEF Served, Requests
    <3>3. Len(inbox) \in Nat /\ Served(m) \subseteq 1 .. Len(inbox)
      BY <1>0, LenProperties DEF TypedInv, TypeOK, Served, Requests
    <3>4. IsFiniteSet(Served(m)) /\ Cardinality(Served(m)) \in Nat
      BY <3>3, Countable
    <3>5. Cardinality(Served(m)') = Cardinality(Served(m)) + 1
      BY <3>2, <3>4, FS_AddElement
    <3> QED BY <3>4, <3>5, Products DEF Budget
  <2>5. \A x \in Messages :
          /\ Budget(x) <= Budget(x)' /\ Budget(x) \in Nat /\ Budget(x)' \in Nat
          /\ tries[x] \in Nat /\ tries[x] <= Budget(x) /\ tries' = tries
    BY <1>0, <1>1, BudgetGrows, EntryTypes DEF BudgetInv
  <2>6. \A x \in Messages : tries'[x] <= Budget(x)'
    <3> TAKE x \in Messages
    <3> QED BY <2>5
  <2>7. ASSUME NEW i \in DOMAIN entries', NEW x \in Messages, x = entries'[i].msg
        PROVE  tries[x] + MaxAttempts - entries'[i].attempts <= Budget(x)'
    <3>1. CASE i = Len(entries) + 1
      <4>1. x = m /\ entries'[i].attempts = 0
        BY <2>2, <2>3, <2>7, <3>1
      <4>2. MaxAttempts \in Nat /\ tries[m] \in Nat /\ tries[m] <= Budget(m) /\ Budget(m) \in Nat
        BY <2>5, SenderAssumption
      <4> QED BY <2>4, <4>1, <4>2
    <3>2. CASE i # Len(entries) + 1
      <4>1. i \in DOMAIN entries /\ entries'[i] = entries[i]
        BY <2>3, <3>2
      <4>2. tries[x] + MaxAttempts - entries[i].attempts <= Budget(x)
        BY <2>7, <4>1 DEF BudgetInv
      <4>3. entries[i].attempts \in 0 .. MaxAttempts - 1 /\ MaxAttempts \in Nat
        BY <1>0, <4>1, EntryTypes, SenderAssumption
      <4>4. /\ Budget(x) <= Budget(x)' /\ Budget(x) \in Nat /\ Budget(x)' \in Nat
            /\ tries[x] \in Nat
        BY <2>5
      <4> QED BY <4>1, <4>2, <4>3, <4>4
    <3> QED BY <3>1, <3>2
  <2>8. ASSUME NEW i \in DOMAIN entries', NEW j \in DOMAIN entries', i # j
        PROVE  entries'[i].msg # entries'[j].msg
    <3>1. \A k \in DOMAIN entries : entries'[k] = entries[k] /\ entries[k].msg # m
      BY <2>1, <2>3 DEF Queued
    <3>2. \A k \in DOMAIN entries' : k \in DOMAIN entries \/ k = Len(entries) + 1
      BY <2>3
    <3>3. CASE i \in DOMAIN entries /\ j \in DOMAIN entries
      BY <2>8, <3>1, <3>3 DEF BudgetInv
    <3>4. CASE i = Len(entries) + 1 \/ j = Len(entries) + 1
      BY <2>2, <2>3, <2>8, <3>1, <3>2, <3>4
    <3> QED BY <3>2, <3>3, <3>4
  <2>9. \A i \in DOMAIN entries' : entries'[i].msg \in Messages
    <3>1. \A k \in DOMAIN entries' : k \in DOMAIN entries \/ k = Len(entries) + 1
      BY <2>3
    <3> QED BY <1>0, <2>2, <2>3, <3>1, EntryTypes
  <2>10. \A i \in DOMAIN entries' :
           tries'[entries'[i].msg] + MaxAttempts - entries'[i].attempts
             <= Budget(entries[i].msg)'
    BY <1>0, <2>7, <2>9
  <2> QED BY <2>6, <2>8, <2>10 DEF BudgetInv
<1> QED BY <1>2, <1>3

(* An attempt is paid by the entry that makes it. *)
LEMMA DrainBudget ==
  ASSUME TypedInv, TypedInv', BudgetInv, DrainOnce, UNCHANGED <<inbox, handled>>
  PROVE  BudgetInv'
<1>1. PICK i \in DOMAIN entries : DropUnsendable(i) \/ SendSucceeds(i) \/ SendFails(i)
  BY DEF DrainOnce
<1>2. PICK m \in Messages : m = entries[i].msg
  BY EntryTypes
<1>3. tries' = [tries EXCEPT ![m] = @ + 1]
  BY <1>1, <1>2 DEF DropUnsendable, SendSucceeds, Succeed, SendFails, Attempt
<1>4. \/ entries' = RemoveAt(entries, i)
      \/ entries' = [entries EXCEPT ![i].attempts = @ + 1]
  BY <1>1 DEF DropUnsendable, SendSucceeds, Succeed, SendFails
<1>5. ASSUME NEW x \in Messages
      PROVE  Budget(x)' = Budget(x) /\ Budget(x) \in Nat /\ tries[x] \in Nat /\ tries[x] <= Budget(x)
  <2>1. Budget(x)' = Budget(x)
    BY DEF Budget, Served, Requests
  <2>2. Served(x) \subseteq Served(x)'
    BY DEF Served, Requests
  <2>3. Budget(x) \in Nat
    BY <2>2, BudgetGrows
  <2> QED BY <2>1, <2>3, EntryTypes DEF BudgetInv
<1>6. /\ MaxAttempts \in Nat
      /\ \A k \in DOMAIN entries :
           entries[k].msg \in Messages /\ entries[k].attempts \in 0 .. MaxAttempts - 1
  BY EntryTypes, SenderAssumption
<1>7. \A k \in DOMAIN entries :
        tries[entries[k].msg] + MaxAttempts - entries[k].attempts <= Budget(entries[k].msg)
  BY DEF BudgetInv
<1>8. \A k, l \in DOMAIN entries : k # l => entries[k].msg # entries[l].msg
  BY DEF BudgetInv
<1>9. tries'[m] = tries[m] + 1 /\ \A x \in Messages : x # m => tries'[x] = tries[x]
  BY <1>3 DEF TypedInv, TypeOK, SenderType
<1>10. tries[m] + MaxAttempts - entries[i].attempts <= Budget(m)
  BY <1>2, <1>7
<1>11. \A x \in Messages : tries'[x] <= Budget(x)'
  <2> TAKE x \in Messages
  <2>1. entries[i].attempts \in 0 .. MaxAttempts - 1
    BY <1>6
  <2>2. CASE x = m
    BY <1>5, <1>6, <1>9, <1>10, <2>1, <2>2
  <2>3. CASE x # m
    BY <1>5, <1>9, <2>3
  <2> QED BY <2>2, <2>3
<1>12. ASSUME NEW k \in DOMAIN entries, k # i, NEW x \in Messages, x = entries[k].msg
       PROVE  x # m /\ tries'[x] + MaxAttempts - entries[k].attempts <= Budget(x)'
  <2>1. x # m
    BY <1>2, <1>8, <1>12
  <2> QED BY <1>5, <1>7, <1>9, <1>12, <2>1
<1>13. CASE entries' = RemoveAt(entries, i)
  <2> DEFINE from(j) == IF j < i THEN j ELSE j + 1
  <2>1. /\ DOMAIN entries = 1 .. Len(entries) /\ Len(entries) \in Nat
        /\ DOMAIN entries' = 1 .. Len(entries) - 1
        /\ \A j \in 1 .. Len(entries) - 1 :
             entries'[j] = IF j < i THEN entries[j] ELSE entries[j + 1]
    <3>1. entries \in Seq(Entries) /\ i \in 1 .. Len(entries)
      BY EntryTypes DEF TypedInv, TypeOK, SenderType
    <3>2. /\ RemoveAt(entries, i) \in Seq(Entries)
          /\ Len(RemoveAt(entries, i)) = Len(entries) - 1
          /\ \A j \in 1 .. Len(entries) - 1 :
               RemoveAt(entries, i)[j] = IF j < i THEN entries[j] ELSE entries[j + 1]
      BY <3>1, RemoveAtProperties
    <3> QED BY <1>13, <3>1, <3>2, LenProperties
  <2>2. \A j \in DOMAIN entries' :
          from(j) \in DOMAIN entries /\ from(j) # i /\ entries'[j] = entries[from(j)]
    BY <2>1
  <2>3. \A j, k \in DOMAIN entries' : j # k => from(j) # from(k)
    BY <2>1
  <2> HIDE DEF from
  <2>4. ASSUME NEW j \in DOMAIN entries'
        PROVE  tries'[entries'[j].msg] + MaxAttempts - entries'[j].attempts
                 <= Budget(entries[j].msg)'
    <3>1. PICK x \in Messages : x = entries'[j].msg
      BY <1>6, <2>2
    <3>2. tries'[x] + MaxAttempts - entries'[j].attempts <= Budget(x)'
      BY <1>12, <2>2, <3>1
    <3> QED BY <3>1, <3>2
  <2>5. \A j, k \in DOMAIN entries' : j # k => entries'[j].msg # entries'[k].msg
    BY <1>8, <2>2, <2>3
  <2> QED BY <1>11, <2>4, <2>5 DEF BudgetInv
<1>14. CASE entries' = [entries EXCEPT ![i].attempts = @ + 1]
  <2>1. DOMAIN entries' = DOMAIN entries
    BY <1>14
  <2>2. \A j \in DOMAIN entries : j # i => entries'[j] = entries[j]
    BY <1>14
  <2>3. entries'[i].msg = m /\ entries'[i].attempts = entries[i].attempts + 1
    <3>1. entries[i] \in Entries
      BY EntryTypes
    <3>2. entries'[i] = [entries[i] EXCEPT !.attempts = @ + 1]
      BY <1>14
    <3> QED BY <1>2, <3>1, <3>2 DEF Entries
  <2>4. ASSUME NEW j \in DOMAIN entries'
        PROVE  tries'[entries'[j].msg] + MaxAttempts - entries'[j].attempts
                 <= Budget(entries[j].msg)'
    <3>1. CASE j = i
      <4>1. tries'[m] + MaxAttempts - (entries[i].attempts + 1) <= Budget(m)'
        <5>1. entries[i].attempts \in 0 .. MaxAttempts - 1
          BY <1>6
        <5>2. tries[m] \in Nat /\ Budget(m) \in Nat /\ Budget(m)' = Budget(m)
          BY <1>5
        <5> QED BY <1>6, <1>9, <1>10, <5>1, <5>2
      <4> QED BY <2>3, <3>1, <4>1
    <3>2. CASE j # i
      <4>1. entries'[j] = entries[j] /\ j \in DOMAIN entries
        BY <2>1, <2>2, <3>2
      <4>2. PICK x \in Messages : x = entries[j].msg
        BY <1>6, <4>1
      <4>3. tries'[x] + MaxAttempts - entries[j].attempts <= Budget(x)'
        BY <1>12, <3>2, <4>1, <4>2
      <4> QED BY <4>1, <4>2, <4>3
    <3> QED BY <3>1, <3>2
  <2>5. \A j, k \in DOMAIN entries' : j # k => entries'[j].msg # entries'[k].msg
    <3>1. \A j \in DOMAIN entries : entries'[j].msg = entries[j].msg
      BY <1>2, <2>2, <2>3
    <3> QED BY <1>8, <2>1, <3>1
  <2> QED BY <1>11, <2>4, <2>5 DEF BudgetInv
<1> QED BY <1>4, <1>13, <1>14

(* Parts go out in order, and a success is reported of all of them. *)
LEMMA AiredStep ==
  ASSUME TypedInv, AiredInv, DrainOnce
  PROVE  AiredInv'
<1>1. PICK i \in DOMAIN entries : DropUnsendable(i) \/ SendSucceeds(i) \/ SendFails(i)
  BY DEF DrainOnce
<1>2. PICK m \in Messages : m = entries[i].msg
  BY EntryTypes
<1>3. PartsOf[m] \in Nat /\ aired \in [Messages -> SUBSET Nat] /\ reported \subseteq Messages
  BY PartsAssumption DEF TypedInv, TypeOK, SenderType
<1>4. PICK parts \in 0 .. PartsOf[m] :
        /\ aired' = [aired EXCEPT ![m] = @ \union 1 .. parts]
        /\ \/ reported' = reported
           \/ reported' = reported \union {m} /\ parts = PartsOf[m] /\ PartsOf[m] > 0
  BY <1>1, <1>2, <1>3 DEF DropUnsendable, SendSucceeds, Succeed, SendFails, Attempt
<1>5. 1 .. parts \subseteq 1 .. PartsOf[m]
  BY <1>3
<1>6. \A x \in Messages :
        aired'[x] = IF x = m THEN aired[m] \union 1 .. parts ELSE aired[x]
  BY <1>3, <1>4
<1>7. \A x \in Messages : aired'[x] \subseteq 1 .. PartsOf[x]
  BY <1>5, <1>6 DEF AiredInv
<1>8. ReportedIsSent'
  <2> SUFFICES ASSUME NEW x \in reported' PROVE PartsOf[x] > 0 /\ aired'[x] = 1 .. PartsOf[x]
    BY DEF ReportedIsSent
  <2>1. CASE x \in reported
    <3>1. PartsOf[x] > 0 /\ aired[x] = 1 .. PartsOf[x] /\ x \in Messages
      BY <1>3, <2>1 DEF AiredInv, ReportedIsSent
    <3> QED BY <1>5, <1>6, <3>1
  <2>2. CASE x \notin reported
    <3>1. x = m /\ parts = PartsOf[m] /\ PartsOf[m] > 0
      BY <1>4, <2>2
    <3> QED BY <1>6, <3>1 DEF AiredInv
  <2> QED BY <2>1, <2>2
<1> QED BY <1>7, <1>8 DEF AiredInv

SendsInv == DurableInv /\ BudgetInv /\ AiredInv

(* Nothing has been asked for, and nothing sent, at the start. *)
LEMMA SendsInit == ASSUME Durable PROVE Init => SendsInv
<1> SUFFICES ASSUME Init PROVE SendsInv
  OBVIOUS
<1>1. DurableInv /\ TypedInv
  BY DurableInit DEF DurableInv
<1>2. SenderInit
  BY DEF Init
<1>3. AiredInv
  BY <1>2 DEF SenderInit, AiredInv, ReportedIsSent
<1>4. ASSUME NEW m \in Messages PROVE tries[m] <= Budget(m)
  <2>1. Len(inbox) \in Nat /\ Served(m) \subseteq 1 .. Len(inbox)
    BY <1>1, LenProperties DEF TypedInv, TypeOK, Served, Requests
  <2>2. Cardinality(Served(m)) \in Nat
    BY <2>1, Countable
  <2>3. Budget(m) \in Nat
    BY <2>2, SenderAssumption DEF Budget
  <2> QED BY <1>2, <2>3 DEF SenderInit
<1>5. BudgetInv
  BY <1>2, <1>4 DEF BudgetInv, SenderInit
<1> QED BY <1>1, <1>3, <1>5 DEF SendsInv

(* Every step keeps within the budgets. *)
LEMMA SendsStep == ASSUME Durable PROVE SendsInv /\ [Next]_vars => SendsInv'
<1> SUFFICES ASSUME SendsInv, [Next]_vars PROVE SendsInv'
  OBVIOUS
<1>1. DurableInv /\ TypedInv /\ BudgetInv /\ AiredInv
  BY DEF SendsInv, DurableInv
<1>2. DurableInv' /\ TypedInv'
  BY <1>1, DurableStep DEF DurableInv
<1>3. ASSUME UNCHANGED <<aired, reported>> PROVE AiredInv'
  BY <1>1, <1>3 DEF AiredInv, ReportedIsSent
<1>4. CASE Drain
  <2>1. DrainOnce /\ UNCHANGED <<inbox, handled>>
    BY <1>4 DEF Drain, EndPass, histories
  <2> QED BY <1>1, <1>2, <2>1, DrainBudget, AiredStep DEF SendsInv
<1>5. CASE \E u \in Inputs : Post(u)
  <2>1. PICK u \in Inputs : Post(u)
    BY <1>5
  <2>2. UNCHANGED <<entries, tries, aired, reported, handled>>
    BY <2>1 DEF Post, senderVars, histories
  <2>3. /\ DOMAIN inbox = 1 .. Len(inbox) /\ Len(inbox) \in Nat
        /\ DOMAIN inbox' = 1 .. Len(inbox) + 1
        /\ \A i \in 1 .. Len(inbox) : inbox'[i] = inbox[i]
    <3>1. inbox \in Seq(Update) /\ u \in Update
      BY <1>1, InputAssumption DEF TypedInv, TypeOK
    <3> QED BY <2>1, <3>1, Appended DEF Post
  <2>4. \A m \in Messages : Served(m) \subseteq Served(m)'
    BY <2>2, <2>3 DEF Served, Requests
  <2> QED BY <1>1, <1>2, <1>3, <2>2, <2>4, BudgetStays DEF SendsInv
<1>6. CASE HandleSend \/ HandleReply \/ HandlePlain \/ UpdateFails
  <2>1. Handled /\ phase = "handle"
    BY <1>6 DEF HandleSend, HandleReply, HandlePlain, UpdateFails, Handling
  <2>2. \A m \in Messages : Served(m) \subseteq Served(m)'
    BY <1>1, <2>1, Serving
  <2>3. CASE UNCHANGED senderVars
    BY <1>1, <1>2, <1>3, <2>2, <2>3, BudgetStays DEF SendsInv, senderVars
  <2>4. CASE ~UNCHANGED senderVars
    <3>1. PICK m \in Messages : m = inbox[current].msg
      <4>1. current \in Cursors \ {NoUpdate} /\ inbox \in Seq(Update)
        BY <1>1, <2>1 DEF TypedInv, TypeOK
      <4>2. current \in 1 .. Len(inbox) /\ DOMAIN inbox = 1 .. Len(inbox)
        BY <4>1, LenProperties DEF Cursors, NoUpdate
      <4>3. inbox[current] \in Update
        BY <4>1, <4>2, ElementOfSeq
      <4> QED BY <4>3 DEF Update
    <3>2. /\ inbox[current].kind \in {"send", "reply"}
          /\ Enqueue(m) \/ EnqueueCommandSend(m)
      BY <1>6, <2>4, <3>1 DEF HandleSend, HandleReply, HandlePlain, UpdateFails, Handling
    <3>3. BudgetInv'
      BY <1>1, <1>2, <2>1, <3>1, <3>2, EnqueueBudget
    <3>4. UNCHANGED <<aired, reported>>
      BY <3>2 DEF Enqueue, EnqueueCommandSend
    <3> QED BY <1>2, <1>3, <3>3, <3>4 DEF SendsInv
  <2> QED BY <2>3, <2>4
<1>7. CASE HandleRestart \/ UpdateSucceeds \/ Cut \/ Supervise
  <2>1. PICK done : /\ Boot(done)
                    /\ \/ done = handled
                       \/ done = Append(handled, current) /\ phase = "handle"
    BY <1>7 DEF HandleRestart, UpdateSucceeds, Handling, Cut, Supervise
  <2>2. UNCHANGED <<tries, aired, reported, inbox>> /\ entries' = <<>> /\ handled' = done
    BY <2>1 DEF Boot, LoseQueue
  <2>3. Range(handled) \subseteq Range(handled')
    <3>1. CASE done = handled
      BY <2>2, <3>1
    <3>2. CASE done = Append(handled, current) /\ phase = "handle"
      <4>1. handled \in Seq(Cursors \ {NoUpdate}) /\ current \in Cursors \ {NoUpdate}
        BY <1>1, <3>2 DEF TypedInv, TypeOK
      <4>2. /\ DOMAIN handled = 1 .. Len(handled) /\ Len(handled) \in Nat
            /\ DOMAIN handled' = 1 .. Len(handled) + 1
            /\ \A i \in 1 .. Len(handled) : handled'[i] = handled[i]
        BY <2>2, <3>2, <4>1, Appended
      <4>3. DOMAIN handled \subseteq DOMAIN handled'
        BY <4>2
      <4> QED BY <4>2, <4>3 DEF Range
    <3> QED BY <2>1, <3>1, <3>2
  <2>4. \A m \in Messages : Served(m) \subseteq Served(m)'
    BY <2>2, <2>3 DEF Served, Requests
  <2> QED BY <1>1, <1>2, <1>3, <2>2, <2>4, BudgetStays DEF SendsInv
<1>8. CASE \/ PollThread
           \/ Receive \/ EndCollect \/ SaveCursor \/ SaveFails \/ NoCheckpoint
           \/ Acknowledge \/ DrainIdle
           \/ UNCHANGED vars
  <2>1. UNCHANGED <<entries, tries, aired, reported, inbox, handled>>
    BY <1>8 DEF PollThread, PollAnswers, PollFails, Offer, AskAgain, TakeAck, Receive,
                EndCollect, SaveCursor, SaveFails, NoCheckpoint, Acknowledge, DrainIdle,
                EndPass, NothingDue, senderVars, histories, vars
  <2>2. \A m \in Messages : Served(m) \subseteq Served(m)'
    BY <2>1 DEF Served, Requests
  <2> QED BY <1>1, <1>2, <1>3, <2>1, <2>2, BudgetStays DEF SendsInv
<1> QED BY <1>4, <1>5, <1>6, <1>7, <1>8 DEF Next, MainLoop, Handle

(* The modem is given a message at most MAX_ATTEMPTS times for every request *)
(* of the operator, over all resets and duplicates, and what is reported as  *)
(* sent went out with all its parts (sms/sender.rs 16, 176-214).             *)
THEOREM SendsStayTrue == ASSUME Durable PROVE Spec => []SendsAreTrue
<1>1. SendsInv => SendsAreTrue
  <2> SUFFICES ASSUME SendsInv PROVE SendsAreTrue
    OBVIOUS
  <2>1. DurableInv /\ TypedInv /\ BudgetInv /\ AiredInv
    BY DEF SendsInv, DurableInv
  <2>2. ASSUME NEW m \in Messages
        PROVE  tries[m] <= MaxAttempts * Cardinality(Requests(m))
    <3>1. Len(inbox) \in Nat /\ Requests(m) \subseteq 1 .. Len(inbox) /\ Served(m) \subseteq Requests(m)
      BY <2>1, LenProperties DEF TypedInv, TypeOK, Served, Requests
    <3>2. /\ Cardinality(Requests(m)) \in Nat /\ Cardinality(Served(m)) \in Nat
          /\ Cardinality(Served(m)) <= Cardinality(Requests(m))
      BY <3>1, Countable
    <3>3. Budget(m) <= MaxAttempts * Cardinality(Requests(m))
      BY <3>2, Products DEF Budget
    <3>4. /\ tries[m] \in Nat /\ tries[m] <= Budget(m) /\ Budget(m) \in Nat
          /\ MaxAttempts * Cardinality(Requests(m)) \in Nat
      BY <2>1, <3>2, EntryTypes, SenderAssumption DEF BudgetInv, Budget
    <3> QED BY <3>3, <3>4
  <2> QED BY <2>1, <2>2 DEF SendsAreTrue, SendsAreAsked, AiredInv, Requests
<1> QED BY SendsInit, SendsStep, <1>1, PTL DEF Spec
=============================================================================
