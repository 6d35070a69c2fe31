------------------------------- MODULE AtPort -------------------------------
(***************************************************************************)
(* The AT port of modem/a76xx/at.rs and the modem at the other end of the  *)
(* UART.  One thread owns the port; it sends one command at a time, and    *)
(* what the modem has to say on its own account (URCs) arrives between the *)
(* lines of an answer and is kept in a bounded buffer.                     *)
(*                                                                         *)
(* Abstractions.  A line arrives whole, or is longer than MAX_LINE_LEN     *)
(* ("noise"); writes to the UART succeed; the size of an answer is not     *)
(* modelled.  A line carries whose it is: the number of the command it     *)
(* answers or the event it announces.  The code never sees that.  A        *)
(* deadline passes only when the device has read all that arrived.         *)
(***************************************************************************)
EXTENDS Integers, Sequences, SequencesExt, FiniteSets

CONSTANTS
  MaxUrc,         \* MAX_URC_BUF, 32
  MaxWire,        \* bound: lines on their way to the device at once
  Sluggish,       \* whether an answer may come later than a whole resynchronisation
  NoLine          \* stands for a line that is not there

ASSUME AtPortAssumption == MaxUrc \in Nat \ {0, 1} /\ MaxWire \in Nat \ {0} /\ Sluggish \in BOOLEAN

VARIABLES
  port,           \* the fields of AtPort
  op,             \* the call of send_at, send_at_streaming or send_cmgs_pdu in progress
  wire,           \* lines on their way to the device
  jobs,           \* commands the modem has yet to answer
  issued          \* count of commands sent

portVars == <<port, op, wire, jobs, issued>>

LineOf(kind, of) == [kind |-> kind, of |-> of]

UrcKinds == {"cmti", "cmt", "cgev", "ring", "clip", "gone"}
AnswerKinds == {"ok", "error", "cmgf", "csq", "pdu", "prompt"}
LineKinds == UrcKinds \cup AnswerKinds \cup {"noise"}

(* Commands by the way they are answered and interrupted: "storage" stands  *)
(* for +CPMS, +CMGR, +CMGD and the streamed +CMGL, "query" for +CSQ, and    *)
(* "chup" for commands without a body.                                      *)
Commands == {"chup", "storage", "query", "cmgs"}

NoOp == [state |-> "idle", cmd |-> "chup", n |-> 0, marker |-> FALSE, got |-> {}, result |-> "none"]

PortInit ==
  /\ port = [buf |-> <<>>, header |-> NoLine, old |-> FALSE, late |-> FALSE, cmgf |-> FALSE,
             lost |-> {}]
  /\ op = NoOp
  /\ wire = <<>>
  /\ jobs = <<>>
  /\ issued = 0

-----------------------------------------------------------------------------
(* The URC buffer.  port.lost holds what diagnostics.dropped_urcs counts.   *)

DropHeader(p) ==
  IF p.header = NoLine THEN p
  ELSE [p EXCEPT !.header = NoLine, !.old = FALSE, !.lost = @ \cup {p.header}]

ExpireHeader(p) == IF p.old THEN DropHeader(p) ELSE p

(* One eviction: +CGEV goes first, then +CMTI, whose SMS a sweep finds.      *)
EvictOne(p) ==
  LET at(kind) == {i \in DOMAIN p.buf : p.buf[i].kind = kind}
  IN  IF at("cgev") # {} THEN [p EXCEPT !.buf = RemoveAt(@, Min(at("cgev")))]
      ELSE IF at("cmti") # {}
           THEN LET i == Min(at("cmti"))
                IN  [p EXCEPT !.buf = RemoveAt(@, i), !.lost = @ \cup {p.buf[i]}]
           ELSE p

MakeRoom(p, slots) == IF Len(p.buf) + slots <= MaxUrc THEN p ELSE EvictOne(p)

(* reserve_urc_slots.  The buffer holds no more than MaxUrc lines, so that  *)
(* as many evictions as slots are enough.                                   *)
ReserveUrcSlots(p, slots) ==
  IF slots = 1 THEN MakeRoom(p, 1) ELSE MakeRoom(MakeRoom(p, 2), 2)

PushUrcs(p, lines) ==
  LET q == ReserveUrcSlots(p, Len(lines))
  IN IF Len(q.buf) + Len(lines) <= MaxUrc THEN [q EXCEPT !.buf = @ \o lines]
     ELSE [q EXCEPT !.lost = @ \cup {lines[1]}]

QueueCgev(p, line) ==
  IF \E i \in DOMAIN p.buf : p.buf[i].kind = "cgev"
  THEN [p EXCEPT !.buf = [i \in DOMAIN @ |-> IF @[i].kind = "cgev" THEN line ELSE @[i]]]
  ELSE IF Len(p.buf) < MaxUrc - 1 THEN [p EXCEPT !.buf = Append(@, line)] ELSE p

QueueUrc(p, line) ==
  IF line.kind = "cgev" THEN QueueCgev(p, line) ELSE PushUrcs(p, <<line>>)

(* route_cmt_line: which lines it takes, and what becomes of the port.      *)
Routed(p, line) ==
  \/ line.kind = "cmt"
  \/ line.kind = "pdu" /\ ExpireHeader(p).header # NoLine

(* Mutant of RouteCmtLine: header and PDU are queued one by one.            *)
RouteCmtLineSingly(p, line) ==
  LET q == ExpireHeader(p)
  IN IF line.kind = "cmt" THEN [DropHeader(q) EXCEPT !.header = line]
     ELSE IF Routed(p, line)
          THEN PushUrcs(PushUrcs([q EXCEPT !.header = NoLine], <<q.header>>), <<line>>)
          ELSE q

RouteCmtLine(p, line) ==
  LET q == ExpireHeader(p)
  IN IF line.kind = "cmt" THEN [DropHeader(q) EXCEPT !.header = line]
     ELSE IF Routed(p, line)
          THEN PushUrcs([q EXCEPT !.header = NoLine], <<q.header, line>>)
          ELSE q

(* An overlong line is never returned by read_line, but drops the header.   *)
Absorbed(p, line) == line.kind = "noise" \/ Routed(p, line)
Absorb(p, line) == IF line.kind = "noise" THEN DropHeader(p) ELSE RouteCmtLine(p, line)

AbsorbOrQueue(p, line) ==
  IF Absorbed(p, line) THEN Absorb(p, line) ELSE QueueUrc(ExpireHeader(p), line)

(* Mutant of DiscardStaleResponseLine: everything but a terminal is stale.  *)
DiscardStaleUrcs(p, line) ==
  IF Absorbed(p, line) THEN Absorb(p, line)
  ELSE IF line.kind \in {"ok", "error"} THEN [ExpireHeader(p) EXCEPT !.late = FALSE]
       ELSE ExpireHeader(p)

(* What a late answer may do outside a command: end itself.                 *)
DiscardStaleResponseLine(p, line) ==
  IF Absorbed(p, line) THEN Absorb(p, line)
  ELSE LET q == ExpireHeader(p)
       IN IF line.kind \in {"ok", "error"} THEN [q EXCEPT !.late = FALSE]
          ELSE IF line.kind \in UrcKinds THEN QueueUrc(q, line) ELSE q

(* Mutant of MarkTimedOut: the next command is sent without more ado.       *)
MarkNothing(p) == p

MarkTimedOut(p) == [p EXCEPT !.late = TRUE, !.cmgf = FALSE]

-----------------------------------------------------------------------------
(* Commands.  "sync" is prepare_command while an answer may still be out:   *)
(* first two seconds for its terminal, then a probe with a distinctive      *)
(* answer.                                                                  *)

SendAt(cmd) == op' = [NoOp EXCEPT !.state = "sync", !.cmd = cmd]

NewJob(cmd) == [n |-> issued + 1, cmd |-> cmd, said |-> FALSE, given |-> "nothing"]

(* A command the modem gets while it is busy with another may go unheard.   *)
Deliver(cmd) ==
  /\ issued' = issued + 1
  /\ \/ jobs' = Append(jobs, NewJob(cmd))
     \/ jobs # <<>> /\ jobs' = jobs

ResyncRead ==
  /\ op.state = "sync" /\ port.late
  /\ wire # <<>>
  /\ port' = DiscardStaleResponseLine(port, Head(wire))
  /\ wire' = Tail(wire)
  /\ UNCHANGED <<op, jobs, issued>>

Probe == IF port.cmgf THEN "query" ELSE "cmgf"
Marker == IF port.cmgf THEN "cmgf" ELSE "csq"

SendProbe ==
  /\ op.state = "sync" /\ port.late
  /\ wire = <<>>
  /\ Deliver(Probe)
  /\ port' = [port EXCEPT !.cmgf = ~@]
  /\ op' = [op EXCEPT !.state = "probe", !.marker = FALSE]
  /\ UNCHANGED wire

ProbeRead ==
  /\ op.state = "probe"
  /\ wire # <<>>
  /\ wire' = Tail(wire)
  /\ LET line == Head(wire)
         synced == line.kind = "ok" /\ op.marker
     IN /\ port' = IF Absorbed(port, line) THEN Absorb(port, line)
                   ELSE IF synced THEN [ExpireHeader(port) EXCEPT !.late = FALSE]
                   ELSE IF line.kind \in UrcKinds THEN QueueUrc(ExpireHeader(port), line)
                   ELSE ExpireHeader(port)
        /\ op' = IF synced THEN [op EXCEPT !.state = "sync"]
                 ELSE [op EXCEPT !.marker = @ \/ line.kind = Marker]
  /\ UNCHANGED <<jobs, issued>>

(* Unless it is sluggish, an answer still out when the ten seconds of       *)
(* the probe end is the probe's own.                                        *)
ProbeTimeout ==
  /\ op.state = "probe"
  /\ wire = <<>>
  /\ Sluggish \/ \A i \in DOMAIN jobs : jobs[i].n = issued
  /\ op' = [op EXCEPT !.state = "done", !.result = "notready"]
  /\ UNCHANGED <<port, wire, jobs, issued>>

(* Every line that is waiting when a command begins goes to the buffer.     *)
DrainUrcs ==
  /\ op.state = "sync" /\ ~port.late
  /\ wire # <<>>
  /\ port' = AbsorbOrQueue(port, Head(wire))
  /\ wire' = Tail(wire)
  /\ UNCHANGED <<op, jobs, issued>>

Transmit ==
  /\ op.state = "sync" /\ ~port.late
  /\ wire = <<>>
  /\ Deliver(op.cmd)
  /\ op' = [op EXCEPT !.state = IF op.cmd = "cmgs" THEN "prompt" ELSE "collect", !.n = issued + 1]
  /\ UNCHANGED <<port, wire>>

(* collect_until_ok, and the loop of send_at_streaming.  got collects whose *)
(* answers were taken for this command's.                                   *)
CollectRead ==
  /\ op.state = "collect"
  /\ wire # <<>>
  /\ wire' = Tail(wire)
  /\ LET line == Head(wire)
         mine == ~Absorbed(port, line)
         terminal == mine /\ line.kind \in {"ok", "error"}
         call == mine /\ op.cmd = "storage" /\ line.kind \in {"ring", "clip"}
         urc == mine /\ line.kind \in UrcKinds
         q == IF ~mine THEN Absorb(port, line)
              ELSE IF urc THEN QueueUrc(ExpireHeader(port), line) ELSE ExpireHeader(port)
     IN /\ port' = IF call THEN MarkTimedOut(q) ELSE q
        /\ op' = [op EXCEPT !.state = IF terminal \/ call THEN "done" ELSE @,
                            !.result = IF terminal THEN line.kind
                                       ELSE IF call THEN "interrupted" ELSE @,
                            !.got = IF mine /\ ~urc THEN @ \cup {line.of} ELSE @]
  /\ UNCHANGED <<jobs, issued>>

CollectTimeout ==
  /\ op.state = "collect"
  /\ wire = <<>>
  /\ port' = MarkTimedOut(port)
  /\ op' = [op EXCEPT !.state = "done", !.result = "timeout"]
  /\ UNCHANGED <<wire, jobs, issued>>

(* What the device writes after the prompt: the PDU, or the escape that     *)
(* abandons the input.                                                      *)
Given(what) ==
  jobs' = [i \in DOMAIN jobs |-> IF jobs[i].n = op.n THEN [jobs[i] EXCEPT !.given = what] ELSE jobs[i]]

PromptRead ==
  /\ op.state = "prompt"
  /\ wire # <<>>
  /\ wire' = Tail(wire)
  /\ LET line == Head(wire)
         terminal == ~Absorbed(port, line) /\ line.kind \in {"ok", "error"}
     IN CASE line.kind = "prompt" ->
               /\ op' = [op EXCEPT !.state = "collect", !.got = @ \cup {line.of}]
               /\ Given("text")
               /\ UNCHANGED port
          [] terminal ->
               /\ op' = [op EXCEPT !.state = "done", !.result = "error", !.got = @ \cup {line.of}]
               /\ Given("escape")
               /\ port' = ExpireHeader(port)
          [] OTHER ->
               /\ port' = AbsorbOrQueue(port, line)
               /\ UNCHANGED <<op, jobs>>
  /\ UNCHANGED issued

PromptTimeout ==
  /\ op.state = "prompt"
  /\ wire = <<>>
  /\ Given("escape")
  /\ port' = MarkTimedOut(port)
  /\ op' = [op EXCEPT !.state = "done", !.result = "timeout"]
  /\ UNCHANGED <<wire, issued>>

(* More than CMT_BODY_TIMEOUT has passed since the header was read.         *)
HeaderAges ==
  /\ port.header # NoLine /\ ~port.old
  /\ port' = [port EXCEPT !.old = TRUE]
  /\ UNCHANGED <<op, wire, jobs, issued>>

PortStep ==
  \/ ResyncRead \/ SendProbe \/ ProbeRead \/ ProbeTimeout
  \/ DrainUrcs \/ Transmit
  \/ CollectRead \/ CollectTimeout \/ PromptRead \/ PromptTimeout

-----------------------------------------------------------------------------
(* The modem answers commands in the order in which it got them: a line of  *)
(* its own kind, then a terminal.                                           *)

Emit(line) == Len(wire) < MaxWire /\ wire' = Append(wire, line)

BodyKind(cmd) ==
  CASE cmd = "storage" -> "pdu" [] cmd = "query" -> "csq" [] cmd = "cmgf" -> "cmgf"
    [] cmd = "cmgs" -> "prompt"

Marked(cmd) == cmd \in {"query", "cmgf"}

AnswerBody ==
  /\ jobs # <<>>
  /\ LET job == Head(jobs)
     IN job.cmd # "chup" /\ ~job.said /\ Emit(LineOf(BodyKind(job.cmd), job.n))
  /\ jobs' = [jobs EXCEPT ![1].said = TRUE]
  /\ UNCHANGED <<port, op, issued>>

AnswerEnd(kind) ==
  /\ jobs # <<>>
  /\ LET job == Head(jobs)
     IN /\ kind = "ok" => /\ Marked(job.cmd) => job.said
                          /\ job.cmd = "cmgs" => job.given # "nothing"
        /\ Emit(LineOf(kind, job.n))
  /\ jobs' = Tail(jobs)
  /\ UNCHANGED <<port, op, issued>>

(* The modem never gets to answer: it was reset, or the line was lost.      *)
AnswerLost ==
  /\ jobs # <<>>
  /\ jobs' = Tail(jobs)
  /\ UNCHANGED <<port, op, wire, issued>>

ModemStep == AnswerBody \/ (\E kind \in {"ok", "error"} : AnswerEnd(kind)) \/ AnswerLost
=============================================================================
