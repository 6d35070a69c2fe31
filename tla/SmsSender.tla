----------------------------- MODULE SmsSender -----------------------------
(***************************************************************************)
(* The queue of outgoing SMS (sms/sender.rs): filled by /send and by       *)
(* replies to forwarded messages, emptied one attempt at a time with three *)
(* retries, and lost when the device is reset.                             *)
(*                                                                         *)
(* Abstractions.  A message is a pair of number and text.  The retry       *)
(* delays are a choice: an entry that has failed before may or may not be  *)
(* due; one that has not is due at once.  Entry ids serve only             *)
(* cancellation, which nothing but the tests calls.                        *)
(***************************************************************************)
EXTENDS Naturals, Sequences, FiniteSets, SequencesExt

CONSTANTS
  Messages,       \* outgoing messages: a number and a text
  PartsOf,        \* [Messages -> Nat], the PDUs built for each; 0: too long
  QueueDepth,     \* QUEUE_DEPTH, 8
  MaxAttempts,    \* MAX_ATTEMPTS, 4
  CmdSendLimit    \* CMD_SEND_LIMIT, 5

ASSUME PartsAssumption == PartsOf \in [Messages -> Nat]

ASSUME SenderAssumption ==
  /\ QueueDepth \in Nat \ {0}
  /\ MaxAttempts \in Nat \ {0}
  /\ CmdSendLimit \in Nat \ {0}

VARIABLES
  entries,        \* SmsSender.entries: message and attempts made
  windowCount,    \* cmd_window_count
  tries,          \* history: attempts made for each message
  aired,          \* history: the parts of each message that have gone out
  reported        \* history: messages reported to the operator as sent

senderVars == <<entries, windowCount, tries, aired, reported>>

Entries == [msg : Messages, attempts : 0 .. MaxAttempts - 1]

SenderType ==
  /\ entries \in Seq(Entries)
  /\ windowCount \in 0 .. CmdSendLimit
  /\ tries \in [Messages -> Nat]
  /\ aired \in [Messages -> SUBSET Nat]
  /\ reported \subseteq Messages

SenderInit ==
  /\ entries = <<>>
  /\ windowCount = 0
  /\ tries = [m \in Messages |-> 0]
  /\ aired = [m \in Messages |-> {}]
  /\ reported = {}

Queued(m) == \E i \in DOMAIN entries : entries[i].msg = m

(* Neither a full queue nor an exact duplicate.                             *)
CanEnqueue(m) == Len(entries) < QueueDepth /\ ~Queued(m)

(* enqueue: the path of replies, without a rate limit.                      *)
Enqueue(m) ==
  /\ entries' = IF CanEnqueue(m)
                THEN Append(entries, [msg |-> m, attempts |-> 0])
                ELSE entries
  /\ UNCHANGED <<windowCount, tries, aired, reported>>

(* enqueue_command_send: the path of /send.  Only what was queued counts    *)
(* towards the limit; whether the 60 s window has expired is a choice.      *)
EnqueueCommandSend(m) ==
  \E count \in {windowCount, 0} :
    IF count < CmdSendLimit /\ CanEnqueue(m)
    THEN /\ entries' = Append(entries, [msg |-> m, attempts |-> 0])
         /\ windowCount' = count + 1
         /\ UNCHANGED <<tries, aired, reported>>
    ELSE /\ windowCount' = count
         /\ UNCHANGED <<entries, tries, aired, reported>>

(* The entry drain_once takes: the first that is due.                       *)
MayBeFirstReady(i) == \A j \in 1 .. i - 1 : entries[j].attempts > 0

(* An attempt: all parts in order, up to the first that fails.              *)
Attempt(i, parts) ==
  /\ MayBeFirstReady(i)
  /\ tries' = [tries EXCEPT ![entries[i].msg] = @ + 1]
  /\ aired' = [aired EXCEPT ![entries[i].msg] = @ \union 1 .. parts]
  /\ UNCHANGED windowCount

(* BadPdu: nothing can be built, and nobody is told.                        *)
DropUnsendable(i) ==
  /\ PartsOf[entries[i].msg] = 0
  /\ Attempt(i, 0)
  /\ entries' = RemoveAt(entries, i)
  /\ UNCHANGED reported

Succeed(i) ==
  /\ Attempt(i, PartsOf[entries[i].msg])
  /\ entries' = RemoveAt(entries, i)
  /\ reported' = reported \union {entries[i].msg}

(* Mutant of SendSucceeds: one accepted part is a success. *)
SendSucceedsInPart(i) ==
  \/ PartsOf[entries[i].msg] > 0 /\ Succeed(i)
  \/ /\ PartsOf[entries[i].msg] > 1
     /\ Attempt(i, 1)
     /\ entries' = RemoveAt(entries, i)
     /\ reported' = reported \union {entries[i].msg}

(* Sent: the modem answered OK for every part.                              *)
SendSucceeds(i) == PartsOf[entries[i].msg] > 0 /\ Succeed(i)

Retryable(i) == entries[i].attempts + 1 < MaxAttempts

(* Retrying or Dropped.  The parts before the one that failed went out, and *)
(* so may that one: its answer may be all that was lost.                    *)
SendFails(i) ==
  \E parts \in 0 .. PartsOf[entries[i].msg] :
    /\ PartsOf[entries[i].msg] > 0
    /\ Attempt(i, parts)
    /\ entries' = IF Retryable(i)
                  THEN [entries EXCEPT ![i].attempts = @ + 1]
                  ELSE RemoveAt(entries, i)
    /\ UNCHANGED reported

DrainOnce ==
  \E i \in DOMAIN entries : DropUnsendable(i) \/ SendSucceeds(i) \/ SendFails(i)

(* Idle: no entry is due.                                                   *)
NothingDue ==
  /\ \A i \in DOMAIN entries : entries[i].attempts > 0
  /\ UNCHANGED senderVars

(* A reset: the queue and the window are in RAM.                            *)
LoseQueue ==
  /\ entries' = <<>>
  /\ windowCount' = 0
  /\ UNCHANGED <<tries, aired, reported>>
=============================================================================
