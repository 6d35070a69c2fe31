----------------------------- MODULE MCSmsCodec -----------------------------
(* All texts up to twelve GSM-7 characters, and up to six of any; ten octets *)
(* hold 11 septets or 4 after a header, 5 units or 2.                        *)
EXTENDS SmsCodec
MCTexts(n, alphabet) == UNION {[1 .. k -> alphabet] : k \in 1 .. n}
MCBodies == MCTexts(12, {"e", "euro"}) \cup MCTexts(6, {"e", "han", "emoji"})
MCPhones == {[plus |-> TRUE, digits |-> <<4, 0, 9>>], [plus |-> FALSE, digits |-> <<9, 0>>]}
=============================================================================
