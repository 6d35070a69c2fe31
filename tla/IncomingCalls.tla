--------------------------- MODULE IncomingCalls ---------------------------
(***************************************************************************)
(* What reaches the device from the network through the AT port: stored    *)
(* SMS (+CMTI), SMS delivered directly (+CMT and its PDU), calls (RING,    *)
(* +CLIP, NO CARRIER) and packet-data events (+CGEV), while the main loop  *)
(* polls the port, lets the call handler act, and sends commands whose     *)
(* answers may be late or lost (main.rs 1096-1170, bridge/call_handler.rs, *)
(* modem/a76xx/at.rs).                                                     *)
(***************************************************************************)
EXTENDS AtPort

CONSTANTS
  Stored,         \* SMS that the modem stores and announces
  Direct,         \* SMS that the modem delivers directly
  Calls,          \* incoming calls
  Events,         \* packet-data events
  MaxRings,       \* bound: RINGs of one call
  MaxNoise,       \* bound: deliveries whose PDU arrives as an overlong line
  MaxCommands,    \* bound: commands the main loop sends of its own accord
  OwnCommands,    \* what the main loop sends of its own accord
  LinesPerPass    \* lines that one pass of the main loop polls at most, 64

(* One pass of the main loop takes at least what the buffer can hold.       *)
ASSUME PassAssumption ==
  /\ OwnCommands \subseteq Commands \ {"chup"}
  /\ MaxRings \in Nat \ {0} /\ MaxNoise \in Nat /\ MaxCommands \in Nat
  /\ LinesPerPass \in Nat /\ LinesPerPass >= MaxUrc

(* SMS and calls are told apart from numbers of commands, and from nothing. *)
ASSUME PartiesAssumption ==
  /\ Direct \cap Nat = {}
  /\ NoLine \notin Direct \cup Calls
  /\ NoLine \notin [kind : LineKinds, of : Stored \cup Direct \cup Calls \cup Events \cup Nat]

VARIABLES
  pc,             \* "poll", "tick" or "work": place of the main loop in its pass
  room,           \* lines that this pass may still poll
  caller,         \* place the loop goes on from after the command in progress
  expected,       \* cmt_pdu_pending: the header whose PDU comes next, or NoLine
  handler,        \* CallHandler: its state, its call, and whether its time is up
  budget,         \* commands the main loop may still send
  ringing,        \* network: the call that rings, how often it rang, whether +CLIP was sent
  owed,           \* network: the direct SMS whose PDU the modem has yet to print
  arrived,        \* network: the lines printed so far, as a set
  noise,          \* network: overlong lines so far
  direct,         \* history: the headers and lines taken for direct SMS
  taken,          \* history: the lines handled by the main loop
  notified,       \* history: number of notifications of each call
  hangUps         \* history: hang-ups of each call that did not succeed

networkVars == <<ringing, owed, arrived, noise>>
loopVars == <<pc, room, caller, expected, handler, budget, direct, taken, notified, hangUps>>
vars == <<portVars, networkVars, loopVars>>

Nobody == NoLine
NoRing == [call |-> Nobody, rings |-> 0, clip |-> FALSE, over |-> FALSE]
Idle == [state |-> "idle", call |-> Nobody, due |-> FALSE]
Ringing(c) == [state |-> "ringing", call |-> c, due |-> FALSE]
Cooldown(c) == [state |-> "cooldown", call |-> c, due |-> FALSE]

Init ==
  /\ PortInit
  /\ pc = "poll" /\ room = LinesPerPass /\ caller = "poll"
  /\ expected = NoLine
  /\ handler = Idle
  /\ budget = MaxCommands
  /\ ringing = NoRing
  /\ owed = Nobody
  /\ arrived = {}
  /\ noise = 0
  /\ direct = {} /\ taken = {}
  /\ notified = [c \in Calls |-> 0]
  /\ hangUps = [c \in Calls |-> 0]

-----------------------------------------------------------------------------
(* The network, through the modem.  While a PDU is owed the modem prints no *)
(* other PDU, and it prints the one owed within CMT_BODY_TIMEOUT.           *)

Announce(line) ==
  /\ Emit(line)
  /\ arrived' = arrived \cup {line}
  /\ UNCHANGED <<port, op, jobs, issued, loopVars>>

SmsStored(m) ==
  /\ LineOf("cmti", m) \notin arrived
  /\ Announce(LineOf("cmti", m))
  /\ UNCHANGED <<ringing, owed, noise>>

SmsDelivered(m) ==
  /\ owed = Nobody
  /\ LineOf("cmt", m) \notin arrived
  /\ Announce(LineOf("cmt", m))
  /\ owed' = m
  /\ UNCHANGED <<ringing, noise>>

PduPrinted ==
  /\ owed # Nobody
  /\ Announce(LineOf("pdu", owed))
  /\ owed' = Nobody
  /\ UNCHANGED <<ringing, noise>>

PduGarbled ==
  /\ owed # Nobody /\ noise < MaxNoise
  /\ Announce(LineOf("noise", owed))
  /\ owed' = Nobody
  /\ noise' = noise + 1
  /\ UNCHANGED ringing

DataEvent(e) ==
  /\ LineOf("cgev", e) \notin arrived
  /\ Announce(LineOf("cgev", e))
  /\ UNCHANGED <<ringing, owed, noise>>

Ring(c) ==
  /\ \/ ringing = NoRing /\ LineOf("ring", c) \notin arrived
     \/ ringing.call = c /\ ringing.rings < MaxRings /\ ~ringing.over
  /\ Announce(LineOf("ring", c))
  /\ ringing' = [ringing EXCEPT !.call = c, !.rings = @ + 1]
  /\ UNCHANGED <<owed, noise>>

CallerId ==
  /\ ringing # NoRing /\ ~ringing.clip /\ ~ringing.over
  /\ Announce(LineOf("clip", ringing.call))
  /\ ringing' = [ringing EXCEPT !.clip = TRUE]
  /\ UNCHANGED <<owed, noise>>

(* The caller hangs up, or the modem reports the end of a call that the     *)
(* device has hung up.                                                      *)
CallEnds ==
  /\ ringing # NoRing
  /\ Announce(LineOf("gone", ringing.call))
  /\ ringing' = NoRing
  /\ UNCHANGED <<owed, noise>>

CallEndsSilently ==
  /\ ringing.over
  /\ ringing' = NoRing
  /\ UNCHANGED <<portVars, owed, arrived, noise, loopVars>>

(* The modem carries out what it answers: an OK to AT+CHUP ends the call.   *)
ModemAnswers ==
  /\ ModemStep
  /\ owed # Nobody => \A i \in DOMAIN wire' : i > Len(wire) => wire'[i].kind # "pdu"
  /\ LET ended == ringing # NoRing /\ Head(jobs).cmd = "chup"
                   /\ wire' = Append(wire, LineOf("ok", Head(jobs).n))
     IN ringing' = IF ended THEN [ringing EXCEPT !.over = TRUE] ELSE ringing
  /\ UNCHANGED <<owed, arrived, noise, loopVars>>

Network ==
  \/ \E m \in Stored : SmsStored(m)
  \/ \E m \in Direct : SmsDelivered(m)
  \/ \E e \in Events : DataEvent(e)
  \/ \E c \in Calls : Ring(c)
  \/ CallerId \/ CallEnds \/ CallEndsSilently

-----------------------------------------------------------------------------
(* The call handler, on the line of a URC or on a tick.                     *)

(* commit_call: the command first; the notification when it has ended.      *)
CommitCall(c, place) ==
  /\ SendAt("chup")
  /\ handler' = Ringing(c)
  /\ caller' = place
  /\ UNCHANGED notified

NoCommand == UNCHANGED <<op, caller>>

HandleUrcDeferred(line) ==
  CASE line.kind = "ring" /\ handler.state = "idle" ->
         handler' = Ringing(line.of) /\ NoCommand /\ UNCHANGED notified
    [] line.kind = "clip" /\ handler.state = "ringing" -> CommitCall(line.of, "poll")
    [] line.kind = "gone" /\ handler.state = "ringing" ->
         /\ handler' = Idle
         /\ notified' = [notified EXCEPT ![handler.call] = @ + 1]
         /\ NoCommand
    [] OTHER -> NoCommand /\ UNCHANGED <<handler, notified>>

(* Mutant of TickDeferred: the cool-down ends with the first tick.          *)
TickDeferredSoon ==
  IF handler.state = "ringing" /\ handler.due THEN CommitCall(handler.call, "work")
  ELSE /\ handler' = IF handler.state = "cooldown" THEN Idle ELSE handler
       /\ NoCommand /\ UNCHANGED notified

(* Mutant of TickDeferred: only a +CLIP commits a call.                     *)
TickDeferredIdly ==
  /\ handler' = IF handler.state = "cooldown" /\ handler.due THEN Idle ELSE handler
  /\ NoCommand /\ UNCHANGED notified

TickDeferred ==
  IF handler.state = "ringing" /\ handler.due THEN CommitCall(handler.call, "work")
  ELSE /\ handler' = IF handler.state = "cooldown" /\ handler.due THEN Idle ELSE handler
       /\ NoCommand /\ UNCHANGED notified

(* A deadline of the handler passes; the six seconds of the cool-down are   *)
(* longer than the polling of one pass, and pass while commands run.        *)
Elapse ==
  /\ handler.state # "idle" /\ ~handler.due
  /\ handler.state = "cooldown" => pc = "work"
  /\ handler' = [handler EXCEPT !.due = TRUE]
  /\ UNCHANGED <<portVars, networkVars, pc, room, caller, expected, budget, direct, taken, notified, hangUps>>

(* The loop is away from the port, and the header it has read of a direct   *)
(* SMS ages while the PDU waits in the UART.                                *)
Age ==
  /\ pc = "work" /\ op.state = "idle" /\ owed = Nobody
  /\ HeaderAges
  /\ UNCHANGED <<networkVars, loopVars>>
-----------------------------------------------------------------------------
(* The main loop. *)

(* What a pass does with one polled line, given the port without it.        *)
HandleLine(line, q) ==
  /\ port' = q
  /\ room' = room - 1
  /\ taken' = taken \cup {line}
  /\ IF expected # NoLine
     THEN /\ direct' = direct \cup {<<expected, line>>}
          /\ expected' = NoLine
          /\ NoCommand /\ UNCHANGED <<handler, notified>>
     ELSE /\ expected' = IF line.kind = "cmt" THEN line ELSE NoLine
          /\ HandleUrcDeferred(line)
          /\ UNCHANGED direct
  /\ UNCHANGED <<pc, budget, hangUps>>

Polling == pc = "poll" /\ op.state = "idle" /\ room > 0

(* poll_urc serves the buffer first.                                        *)
PollBuffered ==
  /\ Polling
  /\ LET q == ExpireHeader(port)
     IN /\ q.buf # <<>>
        /\ HandleLine(Head(q.buf), [q EXCEPT !.buf = Tail(@)])
  /\ UNCHANGED <<wire, jobs, issued, networkVars>>

(* Nothing to return yet: the ten milliseconds may be over, or not.         *)
NothingPolled(q, places) ==
  /\ port' = q
  /\ pc' \in places
  /\ UNCHANGED <<op, room, caller, expected, handler, budget, direct, taken, notified, hangUps>>

PollWire ==
  /\ Polling
  /\ port.buf = <<>> /\ wire # <<>>
  /\ LET line == Head(wire)
         p == ExpireHeader(port)
         q == IF port.late THEN DiscardStaleResponseLine(p, line) ELSE Absorb(p, line)
     IN IF ~port.late /\ ~Absorbed(p, line) THEN HandleLine(line, p)
        ELSE IF q.buf # <<>> THEN HandleLine(Head(q.buf), [q EXCEPT !.buf = Tail(@)])
        ELSE NothingPolled(q, IF port.late THEN {"tick"} ELSE {"poll", "tick"})
  /\ wire' = Tail(wire)
  /\ UNCHANGED <<jobs, issued, networkVars>>

EndPoll ==
  /\ pc = "poll" /\ op.state = "idle"
  /\ room = 0 \/ (port.buf = <<>> /\ wire = <<>>)
  /\ NothingPolled(IF room = 0 THEN port ELSE ExpireHeader(port), {"tick"})
  /\ UNCHANGED <<wire, jobs, issued, networkVars>>

Tick ==
  /\ pc = "tick"
  /\ TickDeferred
  /\ pc' = "work"
  /\ UNCHANGED <<port, wire, jobs, issued, networkVars, room, expected, budget, direct, taken, hangUps>>

Command(cmd) ==
  /\ pc = "work" /\ op.state = "idle" /\ budget > 0
  /\ SendAt(cmd)
  /\ budget' = budget - 1
  /\ caller' = "work"
  /\ UNCHANGED <<port, wire, jobs, issued, networkVars, pc, room, expected, handler,
                 direct, taken, notified, hangUps>>

CommandDone ==
  /\ op.state = "done"
  /\ op' = NoOp
  /\ IF op.cmd = "chup"
     THEN /\ handler' = Cooldown(handler.call)
          /\ notified' = [notified EXCEPT ![handler.call] = @ + 1]
          /\ hangUps' = [hangUps EXCEPT ![handler.call] = IF op.result = "ok" THEN @ ELSE @ + 1]
     ELSE UNCHANGED <<handler, notified, hangUps>>
  /\ pc' = caller
  /\ UNCHANGED <<port, wire, jobs, issued, networkVars, room, caller, expected, budget, direct, taken>>

EndPass ==
  /\ pc = "work" /\ op.state = "idle"
  /\ pc' = "poll"
  /\ room' = LinesPerPass
  /\ UNCHANGED <<portVars, networkVars, caller, expected, handler, budget, direct, taken, notified, hangUps>>

OnPort == PortStep /\ UNCHANGED <<networkVars, loopVars>>

Device ==
  \/ PollBuffered \/ PollWire \/ EndPoll \/ Tick
  \/ (\E cmd \in OwnCommands : Command(cmd))
  \/ CommandDone \/ EndPass \/ OnPort

Next == Network \/ PduPrinted \/ PduGarbled \/ ModemAnswers \/ Elapse \/ Age \/ Device

Spec == Init /\ [][Next]_vars

(* The device's thread runs; time passes; the modem prints the PDU it owes. *)
LiveSpec ==
  Spec /\ WF_vars(Device) /\ WF_vars(Elapse) /\ WF_vars(PduPrinted) /\ WF_vars(ModemAnswers)
-----------------------------------------------------------------------------
(* Properties. *)

Notices == {l \in arrived : l.kind \in {"cmti", "cmt", "ring", "clip", "gone"}}

TypeOK ==
  /\ pc \in {"poll", "tick", "work"} /\ caller \in {"poll", "work"}
  /\ room \in 0 .. LinesPerPass
  /\ Len(port.buf) <= MaxUrc
  /\ port.old => port.header # NoLine
  /\ \A i \in DOMAIN wire : wire[i].kind \in LineKinds
  /\ op.state \in {"idle", "sync", "probe", "collect", "prompt", "done"}
  /\ handler.state \in {"idle", "ringing", "cooldown"}
  /\ budget \in 0 .. MaxCommands

(* A terminal, a body line or a prompt that a command takes for its own is  *)
(* the answer to that command, though earlier ones timed out or were        *)
(* interrupted and are answered later or never.                             *)
AnswersMatch == op.got \subseteq {op.n}

(* A direct SMS is taken from the PDU that followed its own header, also    *)
(* when the pass ends, a command runs or the buffer overflows in between.   *)
CmtPaired ==
  /\ \A d \in direct : d[2] = LineOf("pdu", d[1].of)
  /\ \A l \in taken : l.kind = "cmt" => expected = l \/ \E d \in direct : d[1] = l
  /\ expected # NoLine => port.buf # <<>> /\ Head(port.buf) = LineOf("pdu", expected.of)

(* Whatever the network announced about an SMS or a call is on the wire,    *)
(* held by the port, handled, or counted among the dropped URCs; and a line *)
(* about a call is dropped for want of room only while nothing that can be  *)
(* recovered (+CMTI, +CGEV) keeps a place in the buffer.                    *)
NothingLostSilently ==
  /\ [](\A l \in Notices :
          \/ l \in taken \cup port.lost \cup {port.header}
          \/ l \in ToSet(port.buf) \cup ToSet(wire))
  /\ [][\A l \in port'.lost \ port.lost :
          l.kind \in {"ring", "clip", "gone"} =>
            \A i \in DOMAIN port'.buf : port'.buf[i].kind \notin {"cmti", "cgev"}]_vars

(* A call is notified a second time only if it could not be hung up: RINGs  *)
(* that waited in the buffer do not start it again when the cool-down ends. *)
HungUpOnce == \A c \in Calls : notified[c] <= 1 + hangUps[c]

(* A call that rings is notified in the end, though its +CLIP or its end    *)
(* was lost, a command was interrupted for it, or its hang-up times out or  *)
(* cannot be sent; unless its RING was dropped and counted, or came in the  *)
(* cool-down of another call.                                               *)
CallsNotified ==
  \A c \in Calls :
    LineOf("ring", c) \in arrived ~>
      \/ notified[c] > 0 \/ LineOf("ring", c) \in port.lost
      \/ \E k \in Calls \ {c} : notified[k] > 0
=============================================================================
