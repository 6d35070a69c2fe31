-------------------------- MODULE MCFirmwareUpdate --------------------------
(* Slots of two chunks.  The server of "cut" announces more than it has,    *)
(* that of "long" announces nothing and has more than a slot can hold.      *)
EXTENDS FirmwareUpdate, TLC

CONSTANTS old, good, small, panics, doc, url, cut, long, usage

MCBatches ==
  {<<doc>>, <<url>>, <<cut>>, <<long>>, <<doc, url>>, <<url, doc>>, <<url, usage>>}
MCImageOf == (doc :> panics) @@ (url :> good) @@ (cut :> small) @@ (long :> good) @@ (usage :> old)
MCAnnounced == (doc :> 1) @@ (url :> 2) @@ (cut :> 2) @@ (long :> Unknown) @@ (usage :> Unknown)
MCServed == (doc :> 1) @@ (url :> 2) @@ (cut :> 1) @@ (long :> 3) @@ (usage :> 0)
MCLength == (old :> 2) @@ (good :> 2) @@ (small :> 1) @@ (panics :> 1)
=============================================================================
