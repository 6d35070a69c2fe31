--------------------------- MODULE FirmwareProofs ---------------------------
(***************************************************************************)
(* Theorems about FirmwareUpdate for every set of images and requests,     *)
(* every size of a slot, and every number of mishaps, batches and attempts *)
(* at initialisation.                                                      *)
(***************************************************************************)
EXTENDS FirmwareUpdate, QueueLemmas

-----------------------------------------------------------------------------
(* Types. *)

ModemStates ==
  [sim : {"ready", "pin", "puk"}, locked : BOOLEAN, left : 0 .. MaxTries,
   attached : BOOLEAN, cnmi : BOOLEAN, clip : BOOLEAN]

BootPlaces ==
  {"board", "probe", "sim", "unlock", "await", "config", "cnmi", "register", "failed",
   "detach", "readback", "enforce", "refresh", "restore", "clip", "confirm"}
DownloadPlaces == {"open", "begin", "stream", "complete"}
Places == BootPlaces \cup DownloadPlaces \cup {"reset", "loop", "updates", "done"}

(* The state of the modem and of the thread; a SIM without tries is blocked. *)
SetupType ==
  /\ modem \in ModemStates /\ (modem.left = 0 => modem.sim = "puk")
  /\ pc \in Places /\ then \in {"config", "refresh", "loop"}
  /\ attempt \in 1 .. InitAttempts

Images == DOMAIN Length \cup {Torn}
SlotStates == {"undefined", "new", "pending", "valid", "aborted"}

FlashType ==
  /\ slots \in [Slots -> [image : Images, state : SlotStates]]
  /\ running \in Slots /\ selected \in Slots

-----------------------------------------------------------------------------
(* The invariants. *)

(* The tries that this boot may have cost so far: one for each attempt at   *)
(* initialisation, but for the one at hand while it has sent no PIN.        *)
TriesSpent == IF pc \in {"board", "probe", "sim", "unlock"} THEN attempt - 1 ELSE attempt

PinInv == leftAtBoot \in Nat /\ modem.left >= leftAtBoot - TriesSpent

(* From its start on an image runs from the selected slot, until another    *)
(* one is selected; nothing is written unless it is confirmed.              *)
BootInv ==
  /\ Recoverable
  /\ \A s \in Slots : slots[s].state \in {"new", "pending", "valid"} => slots[s].image # Torn
  /\ pc \notin {"reset", "done"} =>
       running = selected /\ slots[running].state \in {"pending", "valid"}
  /\ pc \in {"stream", "complete"} => slots[running].state = "valid"

(* The request at hand is the newest valid one of its batch, and what is    *)
(* validated is as long as the server's image and as what was announced.    *)
DownloadInv ==
  /\ batch \in Seq(Requests) /\ written \in Nat
  /\ pc \in DownloadPlaces \cup {"updates"} => latest = newest
  /\ pc \in DownloadPlaces => latest \in Requests /\ batch # <<>>
  /\ pc = "complete" =>
       written = Served[latest] /\ Announced[latest] \in {Unknown, written}

FirmwareInv == SetupType /\ FlashType /\ PinInv /\ BootInv /\ DownloadInv

-----------------------------------------------------------------------------
(* The modem and the thread. *)

(* A modem with another value in one of its fields is a modem. *)
LEMMA ModemFields ==
  ASSUME NEW m \in ModemStates
  PROVE  /\ \A s \in {"ready", "pin", "puk"} : [m EXCEPT !.sim = s] \in ModemStates
         /\ \A n \in 0 .. MaxTries : [m EXCEPT !.left = n] \in ModemStates
         /\ \A b \in BOOLEAN : /\ [m EXCEPT !.attached = b] \in ModemStates
                               /\ [m EXCEPT !.cnmi = b] \in ModemStates
                               /\ [m EXCEPT !.clip = b] \in ModemStates
BY DEF ModemStates

(* What a command may do to the modem: it stays a modem, and only a refused *)
(* PIN costs a try.                                                         *)
LEMMA SendAtModem ==
  ASSUME SetupType, NEW cmd, NEW answer, SendAt(cmd, answer)
  PROVE  /\ modem' \in ModemStates /\ (modem'.left = 0 => modem'.sim = "puk")
         /\ modem'.left >= modem.left - 1
         /\ cmd # "cpin" => modem'.left = modem.left
<1>1. MaxTries \in Nat \ {0} /\ modem.left \in 0 .. MaxTries
  BY SetupAssumption DEF SetupType, ModemStates
<1>2. modem' \in {modem, Effect(cmd)}
  BY DEF SendAt
<1>3. \/ Effect(cmd) = modem
      \/ /\ cmd = "cpin" /\ modem.sim = "pin"
         /\ Effect(cmd) \in
              {[modem EXCEPT !.sim = "ready", !.left = MaxTries, !.attached = TRUE],
               [modem EXCEPT !.left = @ - 1, !.sim = IF modem.left = 1 THEN "puk" ELSE @]}
      \/ /\ cmd # "cpin"
         /\ Effect(cmd) \in {[modem EXCEPT !.attached = FALSE], [modem EXCEPT !.cnmi = TRUE],
                             [modem EXCEPT !.clip = TRUE]}
  BY Zenon DEF Effect
<1> DEFINE ready == [modem EXCEPT !.sim = "ready"]
           accepted == [ready EXCEPT !.left = MaxTries]
           refused == [modem EXCEPT !.left = modem.left - 1]
<1>4. CASE modem' = modem
  BY <1>1, <1>4 DEF SetupType
<1>5. CASE /\ cmd = "cpin" /\ modem.sim = "pin"
           /\ modem' = [accepted EXCEPT !.attached = TRUE]
  <2>1. modem' \in ModemStates
    <3>1. accepted \in ModemStates
      <4>1. ready \in ModemStates
        BY ModemFields DEF SetupType
      <4>2. MaxTries \in 0 .. MaxTries
        BY <1>1
      <4> HIDE DEF ready
      <4> QED BY <4>1, <4>2, ModemFields, Zenon
    <3> HIDE DEF accepted
    <3>2. [accepted EXCEPT !.attached = TRUE] \in ModemStates
      BY <3>1, ModemFields, Zenon
    <3> QED BY <1>5, <3>2
  <2>2. modem'.left = MaxTries
    BY <1>5 DEF SetupType, ModemStates
  <2> QED BY <1>1, <1>5, <2>1, <2>2
<1>6. CASE /\ cmd = "cpin" /\ modem.sim = "pin"
           /\ modem' = [refused EXCEPT !.sim = IF modem.left = 1 THEN "puk" ELSE @]
  <2>1. modem.left - 1 \in 0 .. MaxTries
    BY <1>1, <1>6 DEF SetupType
  <2>2. refused \in ModemStates /\ refused.sim = "pin" /\ refused.left = modem.left - 1
    BY <1>6, <2>1, ModemFields DEF SetupType, ModemStates
  <2> HIDE DEF refused
  <2>3. modem' \in ModemStates
    BY <1>6, <2>2, ModemFields
  <2>4. modem'.left = modem.left - 1 /\ modem'.sim = IF modem.left = 1 THEN "puk" ELSE "pin"
    BY <1>6, <2>2 DEF ModemStates
  <2> QED BY <1>1, <1>6, <2>3, <2>4
<1>7. CASE /\ cmd # "cpin"
           /\ modem' \in {[modem EXCEPT !.attached = FALSE], [modem EXCEPT !.cnmi = TRUE],
                           [modem EXCEPT !.clip = TRUE]}
  <2>1. modem' \in ModemStates
    BY <1>7, ModemFields DEF SetupType
  <2>2. modem'.left = modem.left /\ modem'.sim = modem.sim
    BY <1>7 DEF SetupType, ModemStates
  <2> QED BY <1>1, <1>7, <2>1, <2>2 DEF SetupType
<1> QED BY <1>2, <1>3, <1>4, <1>5, <1>6, <1>7

(* A reset of the modem costs no try. *)
LEMMA PowerCycledModem ==
  ASSUME SetupType
  PROVE  /\ PowerCycled(modem) \in ModemStates
         /\ PowerCycled(modem).left = 0 => PowerCycled(modem).sim = "puk"
         /\ PowerCycled(modem).left = modem.left
BY DEF SetupType, ModemStates, PowerCycled

(* Init and the guard, step by step: the thread keeps to their places, and  *)
(* the tries of the SIM are paid for by the attempt at hand.                *)
LEMMA InitKeeps ==
  ASSUME SetupType, PinInv, InitStep, UNCHANGED leftAtBoot
  PROVE  SetupType' /\ PinInv' /\ pc \in BootPlaces /\ pc' \in BootPlaces \cup {"reset"}
<1> USE SetupAssumption DEF BootPlaces, DownloadPlaces, Places
<1>1. CASE BoardInit
  BY <1>1 DEF BoardInit, Step, SetupType, PinInv, TriesSpent
<1>2. CASE ProbeModem
  BY <1>2, SendAtModem DEF ProbeModem, SetupType, PinInv, TriesSpent, ModemStates
<1>3. CASE EnsureSimUnlocked
  <2>1. /\ pc = "sim" /\ pc' \in {"detach", "unlock", "failed"}
        /\ UNCHANGED <<attempt, then>>
    BY <1>3, Zenon DEF EnsureSimUnlocked, Step
  <2>2. UNCHANGED modem \/ \E a \in Answers : SendAt("query", a)
    BY <1>3 DEF EnsureSimUnlocked, Unreadable, Answers
  <2> QED BY <2>1, <2>2, SendAtModem DEF SetupType, PinInv, TriesSpent, ModemStates
<1>4. CASE UnlockWithPin
  BY <1>4, SendAtModem DEF UnlockWithPin, Step, SetupType, PinInv, TriesSpent, ModemStates
<1>5. CASE AwaitSim
  BY <1>5, SendAtModem DEF AwaitSim, Unreadable, Step, SetupType, PinInv, TriesSpent
<1>6. CASE Configure
  BY <1>6, SendAtModem DEF Configure, Step, SetupType, PinInv, TriesSpent
<1>7. CASE EnableNotifications
  BY <1>7, SendAtModem DEF EnableNotifications, SetupType, PinInv, TriesSpent
<1>8. CASE AwaitRegistration
  BY <1>8, SendAtModem DEF AwaitRegistration, SetupType, PinInv, TriesSpent
<1>9. CASE InitFailed
  BY <1>9, PowerCycledModem DEF InitFailed, SetupType, PinInv, TriesSpent
<1> QED
  BY <1>1, <1>2, <1>3, <1>4, <1>5, <1>6, <1>7, <1>8, <1>9 DEF InitStep

(* The packet-data guard spends no try of the PIN and leaves only boot or the loop. *)
LEMMA GuardKeeps ==
  ASSUME SetupType, PinInv, GuardStep, UNCHANGED leftAtBoot
  PROVE  SetupType' /\ PinInv' /\ pc \in BootPlaces \cup {"loop"}
         /\ pc' \in BootPlaces \cup {"loop"}
<1> USE SetupAssumption DEF BootPlaces, DownloadPlaces, Places
<1>1. CASE Detach
  BY <1>1, SendAtModem DEF Detach, Enforced, Step, SetupType, PinInv, TriesSpent
<1>2. CASE Readback
  BY <1>2, SendAtModem DEF Readback, Enforced, Unreadable, SetupType, PinInv, TriesSpent
<1>3. CASE EnforcePacketDataDisabled
  BY <1>3, SendAtModem
     DEF EnforcePacketDataDisabled, Enforced, Unreadable, Step, SetupType, PinInv, TriesSpent
<1>4. CASE CheckPacketData
  BY <1>4 DEF CheckPacketData, Loop, SetupType, PinInv, TriesSpent
<1>5. CASE CheckNotifications
  BY <1>5 DEF CheckNotifications, Loop, SetupType, PinInv, TriesSpent
<1>6. CASE RefreshModemNotifications
  BY <1>6, SendAtModem
     DEF RefreshModemNotifications, Unreadable, Step, SetupType, PinInv, TriesSpent
<1>7. CASE RestoreNotifications
  BY <1>7, SendAtModem DEF RestoreNotifications, Step, SetupType, PinInv, TriesSpent
<1>8. CASE ReassertClip
  BY <1>8, SendAtModem DEF ReassertClip, Step, SetupType, PinInv, TriesSpent
<1> QED
  BY <1>1, <1>2, <1>3, <1>4, <1>5, <1>6, <1>7, <1>8 DEF GuardStep

(* The modem by itself, and the clocks of the loop: the thread stays where  *)
(* it is, and no try is spent.                                              *)
LEMMA AloneKeeps ==
  ASSUME SetupType, PinInv, CheckAges \/ RefreshAges \/ ModemAlone, UNCHANGED leftAtBoot
  PROVE  SetupType' /\ PinInv' /\ UNCHANGED pc
<1>1. CASE CheckAges
  BY <1>1 DEF CheckAges, SetupType, PinInv, TriesSpent
<1>2. CASE RefreshAges
  BY <1>2 DEF RefreshAges, SetupType, PinInv, TriesSpent
<1>3. CASE ModemResets
  BY <1>3, PowerCycledModem DEF ModemResets, SetupType, PinInv, TriesSpent
<1>4. CASE NetworkAttaches
  BY <1>4 DEF NetworkAttaches, SetupType, PinInv, TriesSpent, ModemStates
<1> QED BY <1>1, <1>2, <1>3, <1>4 DEF ModemAlone

(* So does every step on the modem: it changes nothing but the modem and    *)
(* the place, and gets no further than the end of the start-up or the loop. *)
OnModemStep == InitStep \/ GuardStep \/ CheckAges \/ RefreshAges \/ ModemAlone

(* Steps of the setup leave the flash and the download alone. *)
LEMMA OnModemKeeps ==
  ASSUME FirmwareInv, OnModem(OnModemStep)
  PROVE  FirmwareInv'
<1> USE DEF FirmwareInv, OnModem, OnModemStep
<1>1. UNCHANGED <<slots, running, selected, batch, latest, written, newest, leftAtBoot>>
  BY DEF flashVars, updateVars
<1>2. /\ SetupType' /\ PinInv'
      /\ \/ UNCHANGED pc
         \/ pc \in BootPlaces \cup {"loop"} /\ pc' \in BootPlaces \cup {"loop", "reset"}
  BY <1>1, InitKeeps, GuardKeeps, AloneKeeps
<1>3. FlashType' /\ DownloadInv'
  BY <1>1, <1>2 DEF FlashType, DownloadInv, BootPlaces, DownloadPlaces
<1>4. BootInv'
  BY <1>1, <1>2 DEF BootInv, Recoverable, Whole, BootPlaces, DownloadPlaces
<1> QED BY <1>2, <1>3, <1>4

-----------------------------------------------------------------------------
(* Resets. *)

(* The device as it was provisioned. *)
LEMMA InitFirmware == Init => FirmwareInv
<1> SUFFICES ASSUME Init PROVE FirmwareInv
  OBVIOUS
<1> USE SetupAssumption, UpdateAssumption DEF Init
<1>1. SetupType /\ PinInv
  BY DEF SetupType, ModemStates, Places, BootPlaces, PinInv, TriesSpent
<1>2. FlashType
  BY DEF FlashType, Images, SlotStates, Slots, Factory, EmptySlot
<1>3. BootInv
  BY DEF BootInv, Recoverable, Whole, Slots, Factory, EmptySlot
<1>4. DownloadInv
  BY DEF DownloadInv, DownloadPlaces
<1> QED BY <1>1, <1>2, <1>3, <1>4 DEF FirmwareInv

(* The boot loader leaves the device with a good image to fall back on, and *)
(* the tries of the SIM as the new boot finds them.                         *)
LEMMA BootLoaderKeeps == FirmwareInv /\ BootLoader => FirmwareInv'
<1> SUFFICES ASSUME FirmwareInv, BootLoader PROVE FirmwareInv'
  OBVIOUS
<1> USE SetupAssumption DEF FirmwareInv
<1>1. SetupType' /\ PinInv'
  BY DEF BootLoader, SetupType, PinInv, TriesSpent, ModemStates, Places, BootPlaces
<1>2. DownloadInv'
  BY DEF BootLoader, DownloadInv, DownloadPlaces
<1>3. \/ /\ slots[selected].state = "new"
         /\ slots' = [slots EXCEPT ![selected].state = "pending"]
         /\ running' = selected /\ UNCHANGED selected
      \/ /\ slots[selected].state = "pending"
         /\ slots' = [slots EXCEPT ![selected].state = "aborted"]
         /\ running' = Other(selected) /\ selected' = Other(selected)
      \/ /\ slots[selected].state \notin {"new", "pending"}
         /\ running' = selected /\ UNCHANGED <<slots, selected>>
  BY Zenon DEF BootLoader
<1>4. pc' = "board"
  BY DEF BootLoader
<1>5. FlashType' /\ BootInv'
  BY <1>3, <1>4 DEF FlashType, BootInv, Recoverable, Whole, Other, Slots, Images, SlotStates
<1> QED BY <1>1, <1>2, <1>5

(* A reset that comes at any time finds the flash as it is. *)
LEMMA PowerLossKeeps == FirmwareInv /\ PowerLoss => FirmwareInv'
<1> SUFFICES ASSUME FirmwareInv, PowerLoss PROVE FirmwareInv'
  OBVIOUS
<1> USE DEF FirmwareInv
<1>1. /\ UNCHANGED <<slots, running, selected, batch, latest, written, newest, leftAtBoot>>
      /\ pc' = "reset" /\ UNCHANGED <<attempt, then>> /\ modem' = PowerCycled(modem)
  BY DEF PowerLoss, Step, flashVars, updateVars
<1>2. SetupType' /\ PinInv'
  BY <1>1, PowerCycledModem, SetupAssumption DEF SetupType, PinInv, TriesSpent, Places, ModemStates
<1>3. FlashType' /\ DownloadInv'
  BY <1>1 DEF FlashType, DownloadInv, DownloadPlaces
<1>4. BootInv'
  BY <1>1 DEF BootInv, Recoverable, Whole
<1> QED BY <1>2, <1>3, <1>4

(* A reset that the image brings about itself, and the confirmation. *)
LEMMA PanicKeeps == FirmwareInv /\ Panic => FirmwareInv'
<1> SUFFICES ASSUME FirmwareInv, Panic PROVE FirmwareInv'
  OBVIOUS
<1> USE DEF FirmwareInv
<1>1. /\ UNCHANGED <<slots, running, selected, batch, latest, written, newest, leftAtBoot>>
      /\ pc' = "reset" /\ UNCHANGED <<attempt, then, modem>>
  BY DEF Panic, Step, flashVars, updateVars
<1>2. SetupType' /\ PinInv'
  BY <1>1, SetupAssumption DEF SetupType, PinInv, TriesSpent, Places, ModemStates
<1>3. FlashType' /\ DownloadInv'
  BY <1>1 DEF FlashType, DownloadInv, DownloadPlaces
<1>4. BootInv'
  BY <1>1 DEF BootInv, Recoverable, Whole
<1> QED BY <1>2, <1>3, <1>4

(* Confirming the running image: it is a good one, or it would not get here. *)
LEMMA ConfirmKeeps ==
  FirmwareInv /\ ConfirmRunning /\ UNCHANGED <<updateVars, leftAtBoot>> => FirmwareInv'
<1> SUFFICES ASSUME FirmwareInv, ConfirmRunning, UNCHANGED <<updateVars, leftAtBoot>>
             PROVE  FirmwareInv'
  OBVIOUS
<1> USE DEF FirmwareInv
<1>1. /\ UNCHANGED <<running, selected, batch, latest, written, newest, leftAtBoot>>
      /\ pc = "confirm" /\ pc' = "loop" /\ then' = "loop" /\ UNCHANGED <<attempt, modem>>
      /\ slots[running].image \notin Bad
      /\ slots' \in {slots, [slots EXCEPT ![running].state = "valid"]}
  BY DEF ConfirmRunning, MarkRunningSlotValid, updateVars
<1>2. SetupType' /\ PinInv'
  BY <1>1, SetupAssumption DEF SetupType, PinInv, TriesSpent, Places, ModemStates
<1>3. DownloadInv'
  BY <1>1 DEF DownloadInv, DownloadPlaces
<1>4. FlashType'
  BY <1>1 DEF FlashType, Slots, SlotStates
<1>5. BootInv'
  BY <1>1 DEF FlashType, BootInv, Recoverable, Whole, Slots, Other
<1> QED BY <1>2, <1>3, <1>4, <1>5

-----------------------------------------------------------------------------
(* Updates. *)

(* The newest valid request of a batch is the one the scan keeps. *)
LEMMA LatestIsNewest ==
  ASSUME NEW b \in Seq(Requests)
  PROVE  LatestOtaRequest(b) = Newest(b)
<1>1. CASE Valid(b) = {}
  BY <1>1 DEF Valid, LatestOtaRequest, Newest
<1>2. CASE Valid(b) # {}
  <2> DEFINE top == CHOOSE i \in Valid(b) : \A j \in Valid(b) : j <= i
  <2>1. DOMAIN b = 1 .. Len(b) /\ Len(b) \in Nat /\ \A i \in DOMAIN b : b[i] \in Requests
    BY ElementOfSeq, LenProperties
  <2>2. \E i \in Valid(b) : \A j \in Valid(b) : j <= i
    <3>1. Valid(b) \subseteq 1 .. Len(b)
      BY <2>1 DEF Valid
    <3>2. Max(Valid(b)) \in Valid(b) /\ \A y \in Valid(b) : Max(Valid(b)) >= y
      BY <1>2, <2>1, <3>1, MaxInSet
    <3> QED BY <2>1, <3>1, <3>2
  <2>3. top \in Valid(b) /\ \A j \in Valid(b) : j <= top
    BY <2>2
  <2> HIDE DEF top
  <2>4. /\ top \in 1 .. Len(b) /\ b[top] \in Requests \ Invalid
        /\ \A j \in top + 1 .. Len(b) : b[j] \in Invalid
    BY <2>1, <2>3 DEF Valid
  <2>5. ASSUME NEW i \in DOMAIN b, b[i] \notin Invalid,
               \A j \in i + 1 .. Len(b) : b[j] \in Invalid
        PROVE  i = top
    BY <2>1, <2>4, <2>5
  <2>6. Newest(b) = b[top]
    <3> DEFINE Is(r) == \E i \in DOMAIN b :
                          b[i] = r /\ \A j \in i + 1 .. Len(b) : b[j] \in Invalid
    <3>1. Is(b[top]) /\ b[top] \in Requests \ Invalid
      BY <2>1, <2>4
    <3>2. \A r \in Requests \ Invalid : Is(r) => r = b[top]
      BY <2>5
    <3>3. Newest(b) = CHOOSE r \in Requests \ Invalid : Is(r)
      BY <2>1, <2>4 DEF Newest
    <3> HIDE DEF Is
    <3> QED BY <3>1, <3>2, <3>3
  <2>7. LatestOtaRequest(b) = b[top]
    BY <1>2 DEF LatestOtaRequest, top
  <2> QED BY <2>6, <2>7
<1> QED BY <1>1, <1>2

(* Steps that leave flash and modem alone: what is left to look at is what  *)
(* they carry out and how far they have come.                               *)
LEMMA QuietKeeps ==
  ASSUME FirmwareInv, UNCHANGED <<modem, flashVars, leftAtBoot, attempt, then>>,
         pc \in DownloadPlaces \cup {"updates", "loop"},
         pc' \in DownloadPlaces \cup {"updates", "loop", "reset"},
         pc' \in {"stream", "complete"} => pc \in {"stream", "complete"}
  PROVE  SetupType' /\ FlashType' /\ PinInv' /\ BootInv'
<1> USE DEF FirmwareInv
<1>1. SetupType' /\ PinInv'
  BY SetupAssumption
     DEF SetupType, PinInv, TriesSpent, Places, DownloadPlaces, ModemStates
<1>2. FlashType'
  BY DEF FlashType, flashVars
<1>3. BootInv'
  BY DEF BootInv, Recoverable, Whole, flashVars, DownloadPlaces
<1> QED BY <1>1, <1>2, <1>3

(* A batch, and its end. *)
LEMMA ReceiveBatchKeeps == FirmwareInv /\ ReceiveBatch => FirmwareInv'
<1> SUFFICES ASSUME FirmwareInv, ReceiveBatch PROVE FirmwareInv'
  OBVIOUS
<1>1. /\ UNCHANGED <<modem, flashVars, leftAtBoot, attempt, then, written>>
      /\ pc = "loop" /\ pc' = "updates"
  BY DEF ReceiveBatch, Loop, Step
<1>2. PICK b \in Batches :
        batch' = b /\ latest' = LatestOtaRequest(b) /\ newest' = Newest(b)
  BY DEF ReceiveBatch
<1>3. b \in Seq(Requests) /\ latest' = newest'
  BY <1>2, LatestIsNewest, UpdateAssumption
<1>4. DownloadInv'
  BY <1>1, <1>2, <1>3 DEF FirmwareInv, DownloadInv, DownloadPlaces
<1> QED BY <1>1, <1>4, QuietKeeps DEF FirmwareInv, DownloadPlaces

(* The end of a batch of updates. *)
LEMMA EndBatchKeeps == FirmwareInv /\ EndBatch => FirmwareInv'
<1> SUFFICES ASSUME FirmwareInv, EndBatch PROVE FirmwareInv'
  OBVIOUS
<1>1. /\ UNCHANGED <<modem, flashVars, leftAtBoot, attempt, then, written, batch>>
      /\ pc = "updates" /\ pc' = "loop"
  BY DEF EndBatch, Step
<1>2. DownloadInv'
  BY <1>1 DEF FirmwareInv, DownloadInv, DownloadPlaces
<1> QED BY <1>1, <1>2, QuietKeeps DEF FirmwareInv, DownloadPlaces

(* A request that is not carried out, or fails, is taken off the batch. *)
LEMMA TakenOffKeeps ==
  ASSUME FirmwareInv, pc \in DownloadPlaces \cup {"updates"}, pc' \in {"updates", "reset"},
         batch # <<>>, batch' = Tail(batch), written' \in {0, written},
         UNCHANGED <<modem, flashVars, leftAtBoot, attempt, then, latest, newest>>
  PROVE  FirmwareInv'
<1>1. DownloadInv'
  <2>1. batch' \in Seq(Requests)
    BY HeadTailProperties DEF FirmwareInv, DownloadInv
  <2> QED BY <2>1 DEF FirmwareInv, DownloadInv, DownloadPlaces
<1> QED BY <1>1, QuietKeeps DEF FirmwareInv, DownloadPlaces

(* A request that is not the newest of its batch is taken off it. *)
LEMMA DismissKeeps == FirmwareInv /\ Dismiss => FirmwareInv'
<1> SUFFICES ASSUME FirmwareInv, Dismiss PROVE FirmwareInv'
  OBVIOUS
<1> QED BY TakenOffKeeps DEF Dismiss, Drained, MustRestart, Step

(* A failed download takes its update off the batch. *)
LEMMA FailedKeeps == FirmwareInv /\ pc \in DownloadPlaces /\ Failed => FirmwareInv'
<1> SUFFICES ASSUME FirmwareInv, pc \in DownloadPlaces, Failed PROVE FirmwareInv'
  OBVIOUS
<1> QED BY TakenOffKeeps DEF Failed, Drained, MustRestart, Step, FirmwareInv, DownloadInv

(* So does a transfer that breaks off. *)
LEMMA TransferFailsKeeps == FirmwareInv /\ TransferFails => FirmwareInv'
<1> SUFFICES ASSUME FirmwareInv, TransferFails PROVE FirmwareInv'
  OBVIOUS
<1> QED BY TakenOffKeeps DEF TransferFails, Step, FirmwareInv, DownloadInv, DownloadPlaces

(* The steps of an update that goes well. *)
LEMMA StartUpdateKeeps == FirmwareInv /\ StartUpdate => FirmwareInv'
<1> SUFFICES ASSUME FirmwareInv, StartUpdate PROVE FirmwareInv'
  OBVIOUS
<1>1. /\ UNCHANGED <<modem, flashVars, leftAtBoot, attempt, then, latest, newest, written, batch>>
      /\ pc = "updates" /\ pc' \in {"open", "reset"} /\ batch # <<>> /\ Head(batch) = latest
  BY DEF StartUpdate, Drained, MustRestart, Step, updateVars
<1>2. latest \in Requests
  BY <1>1, HeadTailProperties DEF FirmwareInv, DownloadInv
<1>3. DownloadInv'
  BY <1>1, <1>2 DEF FirmwareInv, DownloadInv, DownloadPlaces
<1> QED BY <1>1, <1>3, QuietKeeps DEF FirmwareInv, DownloadPlaces

(* Opening the download touches no slot. *)
LEMMA OpenKeeps == FirmwareInv /\ (OpenDownload \/ ResolveDocument) => FirmwareInv'
<1> SUFFICES ASSUME FirmwareInv, OpenDownload \/ ResolveDocument, ~Failed PROVE FirmwareInv'
  BY FailedKeeps DEF OpenDownload, ResolveDocument, DownloadPlaces
<1>1. /\ UNCHANGED <<modem, flashVars, leftAtBoot, attempt, then, latest, newest, written, batch>>
      /\ pc = "open" /\ pc' = "begin"
  BY DEF OpenDownload, ResolveDocument, Proceed, Step, updateVars
<1>2. DownloadInv'
  BY <1>1 DEF FirmwareInv, DownloadInv, DownloadPlaces
<1> QED BY <1>1, <1>2, QuietKeeps DEF FirmwareInv, DownloadPlaces

(* A block of the image is written into a slot that began empty. *)
LEMMA StreamKeeps == FirmwareInv /\ (StreamUrl \/ StreamDocument) => FirmwareInv'
<1> SUFFICES ASSUME FirmwareInv, StreamUrl \/ StreamDocument, ~Failed PROVE FirmwareInv'
  BY FailedKeeps DEF StreamUrl, StreamDocument, DownloadPlaces
<1>1. /\ UNCHANGED <<modem, flashVars, leftAtBoot, attempt, then, latest, newest, batch>>
      /\ pc = "stream" /\ pc' \in {"stream", "reset"} /\ written' = written + 1
  BY DEF StreamUrl, StreamDocument, Write, Drained, MustRestart, Step
<1>2. DownloadInv'
  BY <1>1 DEF FirmwareInv, DownloadInv, DownloadPlaces
<1> QED BY <1>1, <1>2, QuietKeeps DEF FirmwareInv, DownloadPlaces

(* The stream ends only at the size that was announced, if one was. *)
LEMMA EndOfStreamKeeps == FirmwareInv /\ EndOfStream => FirmwareInv'
<1> SUFFICES ASSUME FirmwareInv, EndOfStream, ~Failed PROVE FirmwareInv'
  BY FailedKeeps DEF EndOfStream, DownloadPlaces
<1>1. /\ UNCHANGED <<modem, flashVars, leftAtBoot, attempt, then, latest, newest, written, batch>>
      /\ pc = "stream" /\ pc' = "complete" /\ written = Served[latest]
      /\ Announced[latest] \in {Unknown, written}
  BY DEF EndOfStream, Proceed, Step, updateVars
<1>2. DownloadInv'
  BY <1>1 DEF FirmwareInv, DownloadInv, DownloadPlaces
<1> QED BY <1>1, <1>2, QuietKeeps DEF FirmwareInv, DownloadPlaces

(* The other slot is erased only under a confirmed image, and selected only *)
(* with a whole one in it.                                                  *)
LEMMA InitiateKeeps == FirmwareInv /\ InitiateUpdate => FirmwareInv'
<1> SUFFICES ASSUME FirmwareInv, InitiateUpdate, ~Failed PROVE FirmwareInv'
  BY FailedKeeps DEF InitiateUpdate, DownloadPlaces
<1>1. /\ UNCHANGED <<modem, running, selected, leftAtBoot, attempt, then, latest, newest, written,
                     batch>>
      /\ pc = "begin" /\ pc' = "stream" /\ slots[running].state # "pending"
      /\ slots' = [slots EXCEPT ![Other(running)] = EmptySlot]
  BY DEF InitiateUpdate, Step, updateVars
<1>2. SetupType' /\ PinInv'
  BY <1>1, SetupAssumption DEF FirmwareInv, SetupType, PinInv, TriesSpent, Places, ModemStates,
                               DownloadPlaces
<1>3. FlashType'
  BY <1>1 DEF FirmwareInv, FlashType, Slots, SlotStates, Images, EmptySlot
<1>4. BootInv'
  BY <1>1 DEF FirmwareInv, FlashType, BootInv, Recoverable, Whole, Slots, Other, EmptySlot
<1>5. DownloadInv'
  BY <1>1 DEF FirmwareInv, DownloadInv, DownloadPlaces
<1> QED BY <1>2, <1>3, <1>4, <1>5 DEF FirmwareInv

(* The other slot is selected only with a whole image in it. *)
LEMMA CompleteKeeps == FirmwareInv /\ Complete => FirmwareInv'
<1> SUFFICES ASSUME FirmwareInv, Complete, ~Failed PROVE FirmwareInv'
  BY FailedKeeps DEF Complete, DownloadPlaces
<1>1. /\ UNCHANGED <<modem, running, leftAtBoot, attempt, then, latest, newest, written, batch>>
      /\ pc = "complete" /\ pc' = "done" /\ selected' = Other(running)
      /\ slots' = [slots EXCEPT ![Other(running)] = [image |-> ImageOf[latest], state |-> "new"]]
  BY DEF Complete, Step, updateVars
<1>2. SetupType' /\ PinInv'
  BY <1>1, SetupAssumption DEF FirmwareInv, SetupType, PinInv, TriesSpent, Places, ModemStates
<1>3. ImageOf[latest] \in Images /\ ImageOf[latest] # Torn
  BY <1>1, UpdateAssumption DEF FirmwareInv, DownloadInv, DownloadPlaces, Images
<1>4. FlashType'
  BY <1>1, <1>3 DEF FirmwareInv, FlashType, Slots, SlotStates, Other
<1>5. BootInv'
  BY <1>1, <1>3 DEF FirmwareInv, FlashType, BootInv, Recoverable, Whole, Slots, Other
<1>6. DownloadInv'
  BY <1>1 DEF FirmwareInv, DownloadInv, DownloadPlaces
<1> QED BY <1>2, <1>4, <1>5, <1>6 DEF FirmwareInv

(* The restart after an update keeps what was selected. *)
LEMMA RestartKeeps == FirmwareInv /\ Restart => FirmwareInv'
<1> SUFFICES ASSUME FirmwareInv, Restart PROVE FirmwareInv'
  OBVIOUS
<1>1. /\ UNCHANGED <<modem, slots, running, selected, leftAtBoot, attempt, then, latest, newest,
                     written, batch>>
      /\ pc = "done" /\ pc' = "reset"
  BY DEF Restart, Proceed, Step, updateVars, flashVars
<1>2. SetupType' /\ PinInv'
  BY <1>1, SetupAssumption DEF FirmwareInv, SetupType, PinInv, TriesSpent, Places, ModemStates
<1>3. FlashType' /\ BootInv' /\ DownloadInv'
  BY <1>1 DEF FirmwareInv, FlashType, BootInv, Recoverable, Whole, DownloadInv, DownloadPlaces
<1> QED BY <1>2, <1>3 DEF FirmwareInv

(* All steps of an update. *)
LEMMA UpdateKeeps == FirmwareInv /\ Update => FirmwareInv'
BY DismissKeeps, StartUpdateKeeps, EndBatchKeeps, TransferFailsKeeps, OpenKeeps, InitiateKeeps,
   StreamKeeps, EndOfStreamKeeps, CompleteKeeps, RestartKeeps DEF Update

-----------------------------------------------------------------------------
(* Every step keeps the invariant. *)
LEMMA FirmwareStep == FirmwareInv /\ [Next]_vars => FirmwareInv'
<1> SUFFICES ASSUME FirmwareInv, [Next]_vars PROVE FirmwareInv'
  OBVIOUS
<1>1. CASE OnModem(OnModemStep)
  BY <1>1, OnModemKeeps
<1>2. CASE Device /\ ~OnModem(OnModemStep)
  <2>1. CASE ConfirmRunning /\ UNCHANGED <<updateVars, leftAtBoot>>
    BY <2>1, ConfirmKeeps
  <2>2. CASE BootLoader \/ Panic \/ Update
    BY <2>2, BootLoaderKeeps, PanicKeeps, UpdateKeeps
  <2> QED BY <1>2, <2>1, <2>2 DEF Device, OnModem, OnModemStep
<1>3. CASE PowerLoss \/ ReceiveBatch
  BY <1>3, PowerLossKeeps, ReceiveBatchKeeps
<1>4. CASE UNCHANGED vars
  <2>1. /\ UNCHANGED <<modem, pc, attempt, then, slots, running, selected, batch, latest, written,
                       newest, leftAtBoot>>
    BY <1>4 DEF vars, setupVars, flashVars, updateVars
  <2>2. SetupType' /\ PinInv' /\ FlashType' /\ DownloadInv'
    BY <2>1 DEF FirmwareInv, SetupType, PinInv, TriesSpent, FlashType, DownloadInv
  <2>3. BootInv'
    BY <2>1 DEF FirmwareInv, BootInv, Recoverable, Whole
  <2> QED BY <2>2, <2>3 DEF FirmwareInv
<1> QED BY <1>1, <1>2, <1>3, <1>4 DEF Next, OnModem, OnModemStep

(* The invariant holds in every reachable state. *)
LEMMA FirmwareAlways == Spec => []FirmwareInv
BY InitFirmware, FirmwareStep, PTL DEF Spec

(* Whenever a reset comes, during an update, during the first start of an   *)
(* image or during another reset, a good image is started or the next reset *)
(* falls back on one (ota.rs, main.rs confirm_running).                     *)
THEOREM AlwaysRecoverable == Spec => []Recoverable
<1>1. FirmwareInv => Recoverable
  BY DEF FirmwareInv, BootInv
<1> QED BY <1>1, FirmwareAlways, PTL

(* No boot costs the SIM more tries of its PIN than init makes attempts,    *)
(* for any number of attempts, lost answers and resets of the modem         *)
(* (sim.rs unlock_with_pin, boards/ta7670x.rs INIT_ATTEMPTS).               *)
THEOREM PinAlwaysSpared == Spec => []PinSpared
<1>1. FirmwareInv => PinSpared
  BY SetupAssumption DEF FirmwareInv, SetupType, ModemStates, PinInv, TriesSpent, PinSpared
<1> QED BY <1>1, FirmwareAlways, PTL

(* The boot slot changes only in a rollback, or to the newest valid request *)
(* of a batch, served whole and in the size announced (ota.rs run_ota,      *)
(* main.rs latest_ota_cursor).                                              *)
THEOREM NewestSelected == Spec => OnlyNewestSelected
<1> DEFINE Chosen ==
      selected' # selected =>
        \/ slots[selected].state = "pending" /\ slots'[selected].state = "aborted"
        \/ /\ latest = newest /\ slots'[selected'].image = ImageOf[newest]
           /\ Served[newest] = Length[ImageOf[newest]]
           /\ Announced[newest] \in {Unknown, Served[newest]}
<1>1. FirmwareInv /\ [Next]_vars => [Chosen]_vars
  <2> SUFFICES ASSUME FirmwareInv, Next, selected' # selected PROVE Chosen
    OBVIOUS
  <2>1. CASE BootLoader
    <3>1. slots[selected].state = "pending" /\ slots' = [slots EXCEPT ![selected].state = "aborted"]
      BY <2>1, Zenon DEF BootLoader
    <3> QED BY <3>1 DEF FirmwareInv, FlashType
  <2>2. CASE Complete /\ ~Failed
    <3>1. /\ written = Length[ImageOf[latest]] /\ selected' = Other(running)
          /\ slots' = [slots EXCEPT ![Other(running)] = [image |-> ImageOf[latest], state |-> "new"]]
          /\ pc = "complete"
      BY <2>2 DEF Complete
    <3>2. latest = newest /\ written = Served[latest] /\ Announced[latest] \in {Unknown, written}
      BY <3>1 DEF FirmwareInv, DownloadInv, DownloadPlaces
    <3>3. slots'[selected'].image = ImageOf[newest]
      BY <3>1, <3>2 DEF FirmwareInv, FlashType, Slots, Other
    <3> QED BY <3>1, <3>2, <3>3
  <2>3. Update => Failed \/ Complete
    BY DEF Update, Dismiss, StartUpdate, EndBatch, TransferFails, OpenDownload,
       ResolveDocument, InitiateUpdate, StreamUrl, StreamDocument, EndOfStream, Restart,
       Proceed, Write, flashVars
  <2>4. ~Failed /\ ~Panic /\ ~ConfirmRunning /\ ~PowerLoss /\ ~ReceiveBatch
    BY DEF Failed, Panic, ConfirmRunning, PowerLoss, ReceiveBatch, flashVars
  <2> QED BY <2>1, <2>2, <2>3, <2>4 DEF Next, Device, OnModem, flashVars
<1> QED BY <1>1, FirmwareAlways, PTL DEF Spec, OnlyNewestSelected
=============================================================================
