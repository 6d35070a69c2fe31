--------------------------- MODULE MCTelegramSend ---------------------------
(* An SMS and a text; message ids share the one slot of the reply map.       *)
EXTENDS TelegramSend, TLC
CONSTANTS s1, note, n1
MCSenderOf == s1 :> n1
=============================================================================
