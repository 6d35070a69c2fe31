----------------------------- MODULE ModemSetup -----------------------------
(***************************************************************************)
(* How the device brings the modem up at boot (boards/ta7670x.rs,          *)
(* modem/a76xx/mod.rs, modem/a76xx/sim.rs) and what it does while it runs  *)
(* to keep packet data off (modem/a76xx/data.rs) and SMS and caller-id     *)
(* notifications on (main.rs): all of it is volatile state of the modem.   *)
(*                                                                         *)
(* Abstractions.  Of the commands only those are modelled that change the  *)
(* modem or whose answer decides what comes next; what is written to the   *)
(* log is left out.  An answer may be "ok", "error" or missing ("silent"). *)
(* The time limits of init pass only in a step in which the modem fails.   *)
(***************************************************************************)
EXTENDS Naturals

CONSTANTS
  Pins,           \* what modem.sim_pin may be: "right", "wrong", "none"
  MaxTries,       \* wrong PINs after which a SIM asks for its PUK, 3
  InitAttempts,   \* INIT_ATTEMPTS, 2
  MaxMishaps      \* bound: commands that fail, resets of the modem, attachments

ASSUME SetupAssumption ==
  /\ Pins \subseteq {"right", "wrong", "none"}
  /\ MaxTries \in Nat \ {0} /\ InitAttempts \in Nat \ {0} /\ MaxMishaps \in Nat

VARIABLES
  modem,          \* state of the modem and of its SIM; whether the SIM wants a PIN
  pin,            \* modem.sim_pin, which never changes
  pc,             \* place of the main thread
  attempt,        \* of INIT_ATTEMPTS
  then,           \* where the thread goes on after enforcing or refreshing
  check,          \* last_packet_data_check: "fresh", "cooled" (5 s) or "due" (30 s)
  requested,      \* packet_data_check_requested
  refreshDue,     \* whether the ten minutes since last_notification_check are over
  verified,       \* whether the last enforcement ended with a verified detachment
  mishaps         \* mishaps so far

setupVars == <<modem, pin, pc, attempt, then, check, requested, refreshDue, verified, mishaps>>
guardVars == <<pin, check, requested, refreshDue, verified>>

-----------------------------------------------------------------------------
(* The modem. *)

(* What a reset of the modem, or its power, leaves of its state.            *)
PowerCycled(m) ==
  [m EXCEPT !.sim = IF @ = "puk" THEN "puk" ELSE IF m.locked THEN "pin" ELSE "ready",
            !.attached = m.sim # "puk" /\ ~m.locked, !.cnmi = FALSE, !.clip = FALSE]

Accepts(cmd) ==
  CASE cmd = "cpin" -> modem.sim = "pin" /\ pin = "right"
    [] cmd \in {"detach", "cnmi", "clip"} -> modem.sim = "ready"
    [] OTHER -> TRUE

Effect(cmd) ==
  CASE cmd = "cpin" /\ modem.sim = "pin" ->
         IF pin = "right" THEN [modem EXCEPT !.sim = "ready", !.left = MaxTries, !.attached = TRUE]
         ELSE [modem EXCEPT !.left = @ - 1, !.sim = IF modem.left = 1 THEN "puk" ELSE @]
    [] cmd = "detach" /\ Accepts(cmd) -> [modem EXCEPT !.attached = FALSE]
    [] cmd = "cnmi" /\ Accepts(cmd) -> [modem EXCEPT !.cnmi = TRUE]
    [] cmd = "clip" /\ Accepts(cmd) -> [modem EXCEPT !.clip = TRUE]
    [] OTHER -> modem

(* A command and its answer.  It is answered as it should be; or, by a      *)
(* mishap, refused, or not answered whether or not it was carried out, or   *)
(* answered though the modem stays attached.                                *)
SendAt(cmd, answer) ==
  \/ /\ answer = IF Accepts(cmd) THEN "ok" ELSE "error"
     /\ modem' = Effect(cmd)
     /\ UNCHANGED mishaps
  \/ /\ mishaps < MaxMishaps
     /\ mishaps' = mishaps + 1
     /\ \/ answer = "error" /\ UNCHANGED modem
        \/ answer = "silent" /\ modem' \in {modem, Effect(cmd)}
        \/ answer = "ok" /\ cmd = "detach" /\ UNCHANGED modem

(* A query whose answer cannot be made sense of.                            *)
Unreadable ==
  /\ mishaps < MaxMishaps
  /\ mishaps' = mishaps + 1
  /\ UNCHANGED modem

Answers == {"ok", "error", "silent"}

ModemResets ==
  /\ mishaps < MaxMishaps
  /\ modem' = PowerCycled(modem)
  /\ mishaps' = mishaps + 1
  /\ UNCHANGED <<pc, attempt, then, guardVars>>

(* The network attaches the modem; the +CGEV that tells of it may be lost.  *)
NetworkAttaches ==
  /\ mishaps < MaxMishaps
  /\ modem.sim = "ready" /\ ~modem.attached
  /\ modem' = [modem EXCEPT !.attached = TRUE]
  /\ requested' \in {requested, TRUE}
  /\ mishaps' = mishaps + 1
  /\ UNCHANGED <<pin, pc, attempt, then, check, refreshDue, verified>>

ModemAlone == ModemResets \/ NetworkAttaches

-----------------------------------------------------------------------------
(* The initialisation at boot. *)

Step(place) == pc' = place /\ UNCHANGED <<attempt, then, guardVars>>

(* A cold boot powers the modem on; a warm one finds it as it was.          *)
BoardInit ==
  /\ pc = "board"
  /\ Step("probe")
  /\ UNCHANGED <<modem, mishaps>>

ProbeModem ==
  /\ pc = "probe"
  /\ \E a \in Answers :
       /\ SendAt("at", a)
       /\ IF a = "silent" THEN pc' \in {"probe", "failed"} ELSE pc' = "sim"
  /\ UNCHANGED <<attempt, then, guardVars>>

(* Mutant of EnsureSimUnlocked: a PIN that is configured is always sent.    *)
EnsureSimUnlockedBlindly ==
  /\ pc = "sim"
  /\ SendAt("query", "ok")
  /\ Step(IF modem.sim = "puk" THEN "failed"
          ELSE IF pin # "none" THEN "unlock"
          ELSE IF modem.sim = "ready" THEN "detach" ELSE "failed")

EnsureSimUnlocked ==
  /\ pc = "sim"
  /\ \/ /\ SendAt("query", "ok")
        /\ Step(CASE modem.sim = "ready" -> "detach"
                  [] modem.sim = "pin" /\ pin # "none" -> "unlock"
                  [] OTHER -> "failed")
     \/ (\E a \in {"error", "silent"} : SendAt("query", a)) /\ Step("failed")
     \/ Unreadable /\ Step("failed")

(* Mutant of UnlockWithPin: a PIN that was refused is sent again.           *)
UnlockWithPinAgain ==
  /\ pc = "unlock"
  /\ \E a \in Answers :
       /\ SendAt("cpin", a)
       /\ Step(CASE a = "ok" -> "await" [] a = "error" -> "sim" [] OTHER -> "failed")

UnlockWithPin ==
  /\ pc = "unlock"
  /\ \E a \in Answers :
       /\ SendAt("cpin", a)
       /\ Step(IF a = "ok" THEN "await" ELSE "failed")

AwaitSim ==
  /\ pc = "await"
  /\ \/ /\ SendAt("query", "ok")
        /\ Step(CASE modem.sim = "ready" -> "detach" [] modem.sim = "puk" -> "failed" [] OTHER -> "await")
     \/ (\E a \in {"error", "silent"} : SendAt("query", a)) /\ Step("failed")
     \/ Unreadable /\ (Step("await") \/ Step("failed"))
     \/ modem.sim = "pin" /\ Step("failed") /\ UNCHANGED <<modem, mishaps>>

(* AT+CMGF=0 and AT+CLIP=1: only a missing answer fails the attempt.        *)
Configure ==
  /\ pc = "config"
  /\ \E a \in Answers :
       /\ SendAt("clip", a)
       /\ Step(IF a = "silent" THEN "failed" ELSE "cnmi")

EnableNotifications ==
  /\ pc = "cnmi"
  /\ \E a \in Answers :
       /\ SendAt("cnmi", a)
       /\ IF a = "ok" THEN pc' = "register" ELSE pc' \in {"cnmi", "register"}
  /\ UNCHANGED <<attempt, then, guardVars>>

AwaitRegistration ==
  /\ pc = "register"
  /\ \E a \in Answers :
       /\ SendAt("query", a)
       /\ pc' = IF a = "silent" THEN "failed" ELSE "enforce"
  /\ then' = "refresh"
  /\ UNCHANGED <<attempt, guardVars>>

(* The first attempt that fails is followed by a hard reset of the modem    *)
(* and a second one, the second by a restart of the device.                 *)
InitFailed ==
  /\ pc = "failed"
  /\ IF attempt < InitAttempts
     THEN /\ attempt' = attempt + 1
          /\ pc' = "probe"
          /\ modem' = PowerCycled(modem)
     ELSE /\ pc' = "reset"
          /\ UNCHANGED <<attempt, modem>>
  /\ then' = "config"
  /\ UNCHANGED <<guardVars, mishaps>>

-----------------------------------------------------------------------------
(* Packet data: detach and require a readback of zero.                      *)

(* The caller only logs the outcome and goes on; the main loop also starts  *)
(* the cool-down.                                                           *)
Enforced(outcome) ==
  /\ verified' = outcome
  /\ pc' = then
  /\ check' = IF then = "loop" THEN "fresh" ELSE check
  /\ UNCHANGED <<pin, attempt, then, requested, refreshDue>>

Detach ==
  /\ pc = "detach"
  /\ \E a \in Answers :
       /\ SendAt("detach", a)
       /\ IF a = "ok" THEN Step("readback") ELSE Enforced(FALSE)

Readback ==
  /\ pc = "readback"
  /\ \/ SendAt("query", "ok") /\ Enforced(~modem.attached)
     \/ (\E a \in {"error", "silent"} : SendAt("query", a)) /\ Enforced(FALSE)
     \/ Unreadable /\ Enforced(FALSE)

EnforcePacketDataDisabled ==
  /\ pc = "enforce"
  /\ \/ SendAt("query", "ok") /\ IF modem.attached THEN Step("detach") ELSE Enforced(TRUE)
     \/ (\E a \in {"error", "silent"} : SendAt("query", a)) /\ Step("detach")
     \/ Unreadable /\ Step("detach")

-----------------------------------------------------------------------------
(* The main loop.  Its clocks run while nothing else is to be done.         *)

Loop == pc = "loop"

CheckAges ==
  /\ Loop /\ check # "due"
  /\ check' = IF check = "fresh" THEN "cooled" ELSE "due"
  /\ UNCHANGED <<modem, pin, pc, attempt, then, requested, refreshDue, verified, mishaps>>

RefreshAges ==
  /\ Loop /\ ~refreshDue
  /\ refreshDue' = TRUE
  /\ UNCHANGED <<modem, pin, pc, attempt, then, check, requested, verified, mishaps>>

(* Mutant of PacketDataCheckDue: only an event asks for a check.            *)
CheckDueOnEvent == requested /\ check # "fresh"

PacketDataCheckDue == check = "due" \/ (requested /\ check = "cooled")

CheckPacketData ==
  /\ Loop /\ PacketDataCheckDue
  /\ pc' = "enforce"
  /\ requested' = FALSE
  /\ UNCHANGED <<modem, pin, attempt, then, check, refreshDue, verified, mishaps>>

CheckNotifications ==
  /\ Loop /\ refreshDue
  /\ pc' = "refresh"
  /\ refreshDue' = FALSE
  /\ UNCHANGED <<modem, pin, attempt, then, check, requested, verified, mishaps>>

(* Mutant of RefreshModemNotifications: CNMI is queried and left as it is.  *)
RefreshWithoutRestore ==
  /\ pc = "refresh"
  /\ \E a \in Answers : SendAt("query", a) /\ Step("clip")

(* refresh_modem_notifications: query CNMI, set it unless it reads as       *)
(* configured, and set CLIP; failures are logged.                           *)
RefreshModemNotifications ==
  /\ pc = "refresh"
  /\ \/ SendAt("query", "ok") /\ Step(IF modem.cnmi THEN "clip" ELSE "restore")
     \/ (\E a \in {"error", "silent"} : SendAt("query", a)) /\ Step("restore")
     \/ Unreadable /\ Step("restore")

RestoreNotifications ==
  /\ pc = "restore"
  /\ \E a \in Answers : SendAt("cnmi", a)
  /\ Step("clip")

(* At boot the rest of the start-up follows, later the loop.                *)
ReassertClip ==
  /\ pc = "clip"
  /\ \E a \in Answers : SendAt("clip", a)
  /\ Step(IF then = "refresh" THEN "confirm" ELSE "loop")

InitStep ==
  \/ BoardInit \/ ProbeModem \/ EnsureSimUnlocked \/ UnlockWithPin \/ AwaitSim
  \/ Configure \/ EnableNotifications \/ AwaitRegistration \/ InitFailed

GuardStep ==
  \/ Detach \/ Readback \/ EnforcePacketDataDisabled
  \/ CheckPacketData \/ CheckNotifications
  \/ RefreshModemNotifications \/ RestoreNotifications \/ ReassertClip
=============================================================================
