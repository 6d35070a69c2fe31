--------------------------- MODULE FirmwareUpdate ---------------------------
(***************************************************************************)
(* The life of the device across its resets: the boot loader picks one of  *)
(* two firmware slots, the image in it sets the modem up (ModemSetup),     *)
(* confirms itself and enters the main loop, where an /ota request may     *)
(* stream another image into the other slot and restart into it (ota.rs,   *)
(* ota/download.rs, ota/url_update.rs, main.rs).                           *)
(*                                                                         *)
(* Abstractions.  An image has a length in chunks.  A bad image is one     *)
(* that is whole but panics before it gets to confirm itself.  ESP-IDF     *)
(* and its boot loader are modelled by what they promise: a slot is        *)
(* selected only if what was written is a whole image, an image that was   *)
(* not confirmed is rolled back by the next reset, and none is written     *)
(* while the running one is unconfirmed.                                   *)
(***************************************************************************)
EXTENDS ModemSetup, Integers, Sequences

CONSTANTS
  Requests,       \* /ota requests: documents and URLs
  Batches,        \* the sequences of them that may arrive in one batch
  Url,            \* those among them that are URLs
  Invalid,        \* those among them that parse as neither
  ImageOf,        \* the image each is about
  Announced,      \* the size each announces, or Unknown
  Served,         \* the chunks the server has for each
  Unknown,        \* stands for a size that is not announced
  Length,         \* the length of every image
  Bad,            \* the images that panic before they confirm themselves
  First,          \* the image the device was provisioned with
  Torn,           \* stands for what is not a whole image
  SlotSize,       \* the size of a slot
  MaxBatches      \* bound: batches of updates with /ota requests

ASSUME UpdateAssumption ==
  /\ Batches \subseteq Seq(Requests) \ {<<>>}
  /\ Url \subseteq Requests /\ Invalid \subseteq Requests
  /\ Length \in [{ImageOf[r] : r \in Requests} \cup {First} -> Nat \ {0}]
  /\ \A r \in Requests : Served[r] \in Nat /\ (Announced[r] \in Nat \/ Announced[r] = Unknown)
  /\ Unknown \notin Nat /\ First \notin Bad /\ Torn \notin DOMAIN Length
  /\ SlotSize \in Nat \ {0} /\ MaxBatches \in Nat

VARIABLES
  slots,          \* the image and the state of both slots
  running,        \* the slot the device was started from
  selected,       \* the slot the boot loader turns to
  batch,          \* the requests of the batch at hand that are left, the newest last
  latest,         \* latest_ota_cursor: the request to be carried out, or NoRequest
  written,        \* chunks written to the other slot
  batches,        \* batches so far
  leftAtBoot,     \* history: PIN tries that the SIM had left at the last boot
  newest          \* history: the newest valid request of the last batch

flashVars == <<slots, running, selected>>
updateVars == <<batch, latest, written, batches, newest>>
vars == <<setupVars, flashVars, updateVars, leftAtBoot>>

Slots == {1, 2}
Other(s) == 3 - s
NoRequest == Torn
Factory == [image |-> First, state |-> "valid"]
EmptySlot == [image |-> Torn, state |-> "undefined"]

Init ==
  /\ pin \in Pins
  /\ \E locked \in BOOLEAN :
       modem = [sim |-> IF locked THEN "pin" ELSE "ready", locked |-> locked, left |-> MaxTries,
                attached |-> ~locked, cnmi |-> FALSE, clip |-> FALSE]
  /\ pc = "board" /\ attempt = 1 /\ then = "config"
  /\ check = "due" /\ requested = TRUE /\ refreshDue = FALSE /\ verified = FALSE
  /\ mishaps = 0
  /\ slots = [s \in Slots |-> IF s = 1 THEN Factory ELSE EmptySlot]
  /\ running = 1 /\ selected = 1
  /\ batch = <<>> /\ latest = NoRequest /\ written = 0 /\ batches = 0
  /\ leftAtBoot = MaxTries /\ newest = NoRequest

-----------------------------------------------------------------------------
(* Resets. *)

(* The boot loader: a new image is tried once, and left again unless it has *)
(* confirmed itself by the next reset.                                      *)
BootLoader ==
  /\ pc = "reset"
  /\ CASE slots[selected].state = "new" ->
            /\ slots' = [slots EXCEPT ![selected].state = "pending"]
            /\ running' = selected /\ UNCHANGED selected
       [] slots[selected].state = "pending" ->
            /\ slots' = [slots EXCEPT ![selected].state = "aborted"]
            /\ running' = Other(selected) /\ selected' = Other(selected)
       [] OTHER -> running' = selected /\ UNCHANGED <<slots, selected>>
  /\ pc' = "board" /\ attempt' = 1 /\ then' = "config"
  /\ check' = "due" /\ requested' = TRUE /\ refreshDue' = FALSE /\ verified' = FALSE
  /\ batch' = <<>> /\ latest' = NoRequest /\ written' = 0
  /\ leftAtBoot' = modem.left
  /\ UNCHANGED <<modem, pin, mishaps, batches, newest>>

(* A cold boot is followed by the power-on sequence of the modem.           *)
PowerLoss ==
  /\ mishaps < MaxMishaps
  /\ mishaps' = mishaps + 1
  /\ modem' = PowerCycled(modem)
  /\ Step("reset")
  /\ UNCHANGED <<flashVars, updateVars, leftAtBoot>>

Booting == pc \notin {"reset", "loop", "updates", "open", "begin", "stream", "complete", "done"}

Panic ==
  /\ Booting /\ slots[running].image \in Bad
  /\ Step("reset")
  /\ UNCHANGED <<modem, mishaps, flashVars, updateVars, leftAtBoot>>

-----------------------------------------------------------------------------
(* mark_running_slot_valid, which may fail.                                 *)
MarkRunningSlotValid ==
  \/ slots' = [slots EXCEPT ![running].state = "valid"] /\ UNCHANGED mishaps
  \/ mishaps < MaxMishaps /\ mishaps' = mishaps + 1 /\ UNCHANGED slots

(* Mutant of ConfirmRunning: the image is confirmed before it has come up.  *)
ConfirmRunningFirst ==
  \/ /\ pc = "board" /\ slots[running].state # "valid"
     /\ MarkRunningSlotValid
     /\ UNCHANGED <<modem, pc, attempt, then, guardVars, running, selected>>
  \/ /\ pc = "confirm" /\ slots[running].image \notin Bad
     /\ pc' = "loop" /\ then' = "loop"
     /\ UNCHANGED <<modem, attempt, guardVars, mishaps, flashVars>>

(* The modem is up, and so is everything else the main loop needs.          *)
ConfirmRunning ==
  /\ pc = "confirm" /\ slots[running].image \notin Bad
  /\ MarkRunningSlotValid
  /\ pc' = "loop" /\ then' = "loop"
  /\ UNCHANGED <<modem, attempt, guardVars, running, selected>>

-----------------------------------------------------------------------------
(* A batch of updates.  Its cursor is saved: a reset loses what is left.    *)

Valid(b) == {i \in DOMAIN b : b[i] \notin Invalid}

(* Mutant of LatestOtaRequest: the oldest valid request of the batch.       *)
EarliestOtaRequest(b) ==
  IF Valid(b) = {} THEN NoRequest
  ELSE b[CHOOSE i \in Valid(b) : \A j \in Valid(b) : i <= j]

LatestOtaRequest(b) ==
  IF Valid(b) = {} THEN NoRequest
  ELSE b[CHOOSE i \in Valid(b) : \A j \in Valid(b) : j <= i]

(* The same for the property: the valid request behind which none is.       *)
Newest(b) ==
  IF \A i \in DOMAIN b : b[i] \in Invalid THEN NoRequest
  ELSE CHOOSE r \in Requests \ Invalid :
         \E i \in DOMAIN b : b[i] = r /\ \A j \in i + 1 .. Len(b) : b[j] \in Invalid

(* At a message about the update the send worker's events are read, one of  *)
(* which may ask for a restart.                                             *)
MustRestart ==
  /\ mishaps < MaxMishaps
  /\ mishaps' = mishaps + 1
  /\ Step("reset")

Drained(place) == MustRestart \/ (Step(place) /\ UNCHANGED mishaps)

ReceiveBatch ==
  /\ Loop /\ batches < MaxBatches
  /\ \E b \in Batches :
       /\ batch' = b
       /\ latest' = LatestOtaRequest(b)
       /\ newest' = Newest(b)
  /\ batches' = batches + 1
  /\ Step("updates")
  /\ UNCHANGED <<modem, mishaps, flashVars, written, leftAtBoot>>

Dismiss ==
  /\ pc = "updates" /\ batch # <<>> /\ Head(batch) # latest
  /\ batch' = Tail(batch)
  /\ Drained("updates")
  /\ UNCHANGED <<modem, flashVars, latest, written, batches, newest, leftAtBoot>>

StartUpdate ==
  /\ pc = "updates" /\ batch # <<>> /\ Head(batch) = latest
  /\ Drained("open")
  /\ UNCHANGED <<modem, flashVars, updateVars, leftAtBoot>>

EndBatch ==
  /\ pc = "updates" /\ batch = <<>>
  /\ latest' = NoRequest
  /\ Step("loop")
  /\ UNCHANGED <<modem, mishaps, flashVars, batch, written, batches, newest, leftAtBoot>>

-----------------------------------------------------------------------------
(* One update. *)

Proceed(place) == Step(place) /\ UNCHANGED <<modem, mishaps, flashVars, updateVars, leftAtBoot>>

(* The operator is told, and the other slot stays what the attempt has left *)
(* it.                                                                      *)
Failed ==
  /\ Drained("updates")
  /\ batch' = Tail(batch) /\ written' = 0
  /\ UNCHANGED <<modem, flashVars, latest, batches, newest, leftAtBoot>>

(* The request, its redirects, the flash, or the time allowed for it fail.  *)
TransferFails ==
  /\ pc \in {"open", "begin", "stream", "complete"}
  /\ mishaps < MaxMishaps
  /\ mishaps' = mishaps + 1
  /\ (Step("updates") \/ Step("reset"))
  /\ batch' = Tail(batch) /\ written' = 0
  /\ UNCHANGED <<modem, flashVars, latest, batches, newest, leftAtBoot>>

AnnouncesMoreThan(size) == Announced[latest] # Unknown /\ Announced[latest] > size

OpenDownload ==
  /\ pc = "open" /\ latest \in Url
  /\ IF Announced[latest] = 0 \/ AnnouncesMoreThan(SlotSize) THEN Failed ELSE Proceed("begin")

ResolveDocument ==
  /\ pc = "open" /\ latest \notin Url
  /\ IF AnnouncesMoreThan(SlotSize) THEN Failed ELSE Proceed("begin")

(* esp_ota_begin erases the other slot.                                     *)
InitiateUpdate ==
  /\ pc = "begin"
  /\ IF slots[running].state = "pending" THEN Failed
     ELSE /\ slots' = [slots EXCEPT ![Other(running)] = EmptySlot]
          /\ Step("stream")
          /\ UNCHANGED <<modem, mishaps, running, selected, updateVars, leftAtBoot>>

(* A chunk is written and the progress reported.                            *)
Write ==
  /\ written' = written + 1
  /\ Drained("stream")
  /\ UNCHANGED <<modem, flashVars, batch, latest, batches, newest, leftAtBoot>>

StreamUrl ==
  /\ pc = "stream" /\ latest \in Url /\ written < Served[latest]
  /\ IF \/ written + 1 > SlotSize
        \/ Announced[latest] # Unknown /\ written + 1 > Announced[latest]
     THEN Failed
     ELSE Write

(* Beyond the slot esp_ota_write fails.                                     *)
StreamDocument ==
  /\ pc = "stream" /\ latest \notin Url /\ written < Served[latest]
  /\ IF written = SlotSize THEN Failed ELSE Write

EndOfStream ==
  /\ pc = "stream" /\ written = Served[latest]
  /\ IF \/ latest \in Url /\ written = 0
        \/ Announced[latest] # Unknown /\ written # Announced[latest]
     THEN Failed
     ELSE Proceed("complete")

(* EspOtaUpdate::complete validates what was written and selects the slot.  *)
Complete ==
  /\ pc = "complete"
  /\ IF written = Length[ImageOf[latest]]
     THEN /\ slots' = [slots EXCEPT ![Other(running)] = [image |-> ImageOf[latest], state |-> "new"]]
          /\ selected' = Other(running)
          /\ Step("done")
          /\ UNCHANGED <<modem, mishaps, running, updateVars, leftAtBoot>>
     ELSE Failed

Restart == pc = "done" /\ Proceed("reset")

Update ==
  \/ Dismiss \/ StartUpdate \/ EndBatch
  \/ TransferFails \/ OpenDownload \/ ResolveDocument \/ InitiateUpdate
  \/ StreamUrl \/ StreamDocument \/ EndOfStream \/ Complete \/ Restart

OnModem(step) == step /\ UNCHANGED <<flashVars, updateVars, leftAtBoot>>

Device ==
  \/ OnModem(InitStep) \/ OnModem(GuardStep)
  \/ ConfirmRunning /\ UNCHANGED <<updateVars, leftAtBoot>>
  \/ BootLoader \/ Panic \/ Update

Next ==
  \/ Device \/ OnModem(CheckAges) \/ OnModem(RefreshAges)
  \/ OnModem(ModemAlone) \/ PowerLoss \/ ReceiveBatch

Spec == Init /\ [][Next]_vars

(* The main thread runs, time passes, and every pass of the loop looks at   *)
(* both of its clocks.                                                      *)
LiveSpec ==
  /\ Spec
  /\ WF_vars(Device)
  /\ SF_vars(OnModem(CheckAges)) /\ SF_vars(OnModem(RefreshAges))
  /\ SF_vars(OnModem(CheckPacketData)) /\ SF_vars(OnModem(CheckNotifications))

-----------------------------------------------------------------------------
(* Properties. *)

Whole(s) == slots[s].image \notin Bad \cup {Torn}

(* Whenever a reset comes, during an update, a first start or another       *)
(* reset, a good image is started or the next reset falls back on one.      *)
Recoverable ==
  \/ Whole(selected) /\ slots[selected].state = "valid"
  \/ /\ slots[selected].state \in {"new", "pending"}
     /\ Whole(Other(selected)) /\ slots[Other(selected)].state = "valid"

(* Failed and mismatched downloads leave the boot slot as it is; apart from *)
(* a rollback it goes only to the newest valid request of a batch, served   *)
(* whole, in the size that was announced.                                   *)
OnlyNewestSelected ==
  [][selected' # selected =>
       \/ slots[selected].state = "pending" /\ slots'[selected].state = "aborted"
       \/ /\ latest = newest /\ slots'[selected'].image = ImageOf[newest]
          /\ Served[newest] = Length[ImageOf[newest]]
          /\ Announced[newest] \in {Unknown, Served[newest]}]_vars

(* A boot with a wrong PIN costs the SIM no more tries than init makes      *)
(* attempts, also when answers are lost and the SIM is powered in between.  *)
PinSpared == modem.left >= leftAtBoot - InitAttempts

(* Packet data is detached again whatever attached it, noticed or not, and  *)
(* an enforcement that ends verified ends with the modem detached.          *)
PacketDataOff ==
  /\ modem.attached ~> ~modem.attached
  /\ [][verified' /\ pc \in {"detach", "readback", "enforce"} /\ pc' = then => ~modem'.attached]_vars

(* If the SIM stays usable, SMS and caller-id notifications come to stay,   *)
(* after lost settings, failed commands and resets of modem and device.     *)
ListensAgain == <>[](modem.sim = "ready") => <>[](modem.cnmi /\ modem.clip)

(* With a PIN that fits the SIM, the device always gets back to its main    *)
(* loop: out of failed initialisations, bad images and failed updates.      *)
ComesUp == (~modem.locked \/ pin = "right") => []<>Loop
=============================================================================
