-------------------------- MODULE MCSmsForwarding --------------------------
(***************************************************************************)
(* Small instances of SmsForwarding: MCSms*.cfg choose among them.         *)
(***************************************************************************)
EXTENDS SmsForwarding

CONSTANTS c1, a, b1, b2, x, A, B, X

(* A single-part message, a two-part message, a direct one. *)
MCMessageOf ==
  [p \in Pdus |-> CASE p = a -> A [] p = x -> X [] OTHER -> B]

(* A bound: nothing is explored beyond a state in which a sender is blocked  *)
(* while forwarding is paused.  Either of them drops a message the same way. *)
OneReasonToDrop == fwd \/ blocked = {}
=============================================================================
