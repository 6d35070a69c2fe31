----------------------------- MODULE SmsMailbox -----------------------------
(***************************************************************************)
(* What the gateway promises of the messages the network hands to it: a    *)
(* message is forwarded or dropped only from all of its parts, and a part  *)
(* leaves the modem's storage only after its message was forwarded or      *)
(* dropped on purpose.  Nothing is said of queues, receipts or resets.     *)
(***************************************************************************)
EXTENDS FiniteSets

CONSTANTS
  Pdus,         \* the parts the network sends
  Messages,     \* the messages they make up
  MessageOf,    \* [Pdus -> Messages]
  Direct        \* the messages that are never stored

VARIABLES
  received,     \* parts the network has handed over
  stored,       \* parts in the modem's storage
  forwarded,    \* messages Telegram has accepted
  discarded     \* messages dropped because of /pause or /block

mailbox == <<received, stored, forwarded, discarded>>

Parts(m) == {p \in Pdus : MessageOf[p] = m}

Available(m) ==
  /\ Parts(m) \subseteq received
  /\ m \notin Direct => Parts(m) \subseteq stored

Receive(p) ==
  /\ p \notin received
  /\ received' = received \union {p}
  /\ stored' = IF MessageOf[p] \in Direct THEN stored ELSE stored \union {p}
  /\ UNCHANGED <<forwarded, discarded>>

Forward(m) ==
  /\ Available(m)
  /\ forwarded' = forwarded \union {m}
  /\ UNCHANGED <<received, stored, discarded>>

Discard(m) ==
  /\ Available(m)
  /\ discarded' = discarded \union {m}
  /\ UNCHANGED <<received, stored, forwarded>>

Erase(p) ==
  /\ p \in stored
  /\ MessageOf[p] \in forwarded \union discarded
  /\ stored' = stored \ {p}
  /\ UNCHANGED <<received, forwarded, discarded>>

Init ==
  /\ received = {}
  /\ stored = {}
  /\ forwarded = {}
  /\ discarded = {}

Next ==
  \/ \E p \in Pdus : Receive(p) \/ Erase(p)
  \/ \E m \in Messages : Forward(m) \/ Discard(m)

Spec == Init /\ [][Next]_mailbox
=============================================================================
