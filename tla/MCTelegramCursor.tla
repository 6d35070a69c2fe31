-------------------------- MODULE MCTelegramCursor --------------------------
(* A two-part message, one of a single part, and one that is too long.       *)
EXTENDS TelegramCursor

CONSTANTS short, long, endless

MCMessages == {short, long, endless}

MCPartsOf == [m \in MCMessages |-> CASE m = short -> 1 [] m = long -> 2 [] OTHER -> 0]

MCInputs ==
  {[kind |-> "send", msg |-> long], [kind |-> "reply", msg |-> short],
   [kind |-> "reply", msg |-> endless], [kind |-> "restart", msg |-> short],
   [kind |-> "ota", msg |-> short], [kind |-> "plain", msg |-> short]}
=============================================================================
