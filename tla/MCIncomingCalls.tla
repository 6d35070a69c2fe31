-------------------------- MODULE MCIncomingCalls --------------------------
(* A stored SMS, a direct one, a call and a packet-data event.               *)
EXTENDS IncomingCalls

CONSTANTS s, d, c1, e
=============================================================================
