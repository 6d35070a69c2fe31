----------------------------- MODULE MCFlashLog -----------------------------
(***************************************************************************)
(* Small instances of FlashLog: MCFlashLog*.cfg give its geometry.         *)
(***************************************************************************)
EXTENDS FlashLog

(* Every third event is an SMS. *)
MCKindOf == [n \in Events |-> IF n % 3 = 1 THEN "sms" ELSE "system"]
=============================================================================
