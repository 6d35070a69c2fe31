# smsgate in TLA+

smsgate is firmware for an ESP32 with an A76xx modem: it forwards received SMS
and calls to a Telegram chat and sends SMS on the operator's behalf. This
directory holds a formal model of it, the TLC runs that check the model on
small instances, and proofs, checked by TLAPS, of what holds for every instance.
Source lines below are of `src/` in the repository unless another path is given.

    tlc -config MCSmsMultipart.cfg MCSmsForwarding      # one run
    tlapm SmsForwardingProofs.tla                       # proofs, one to seven minutes each
    tlapm IncomingCallsProofs.tla
    tlapm TelegramCursorProofs.tla
    tlapm TelegramSendProofs.tla
    tlapm ReassemblyProofs.tla
    tlapm FirmwareProofs.tla
    tlapm FlashLogProofs.tla
    tlapm QueueLemmas.tla

`PROJECT.json` is the machine-readable index: components, runs, the source lines
of every definition, the mutants that show each property can fail, findings,
hazards and theorems.

## The system

Three threads share one device. The **main loop** (`main.rs` 664-1947) owns the
modem, the store and every queue but the two that lead to the other threads.
The **outbound worker** (`im/telegram/worker.rs`) takes requests from a queue of
eight, talks to Telegram and answers each with a receipt. The **poll thread**
(`main.rs` 466-619) long-polls Telegram and hands batches of updates over a
queue of eight, each waiting for an acknowledgement. The modem and its storage
are a fourth party: they receive SMS at any time and survive a reset of the ESP32.

| component | state | operations | hard behaviour | what makes it correct |
|---|---|---|---|---|
| SMS forwarding: `main.rs`, `bridge/sms_handler.rs` | modem slots; reads, sweep, ready, pending and deletion queues | +CMTI reads, ME sweeps, send, receipt, verified delete | slot reuse, lost +CMTI, ambiguous sends, full queues, resets | nothing lost, no confirmed message repeated, slots freed |
| Reassembly: `sms/concat.rs` | up to 8 groups of parts | feed, expire, evict | order, duplicates, reused references | a message only from its own parts, all slots released together |
| Pause and block list: `bridge/forwarder.rs`, `bridge/poller.rs` | FWD_ENABLED, BLOCK_LIST in NVS, pause_until in RAM | /pause, /resume, /block, /unblock, auto-resume | failed writes, resets | a drop is deliberate |
| Outbound worker: `im/telegram/worker.rs`, `http.rs` | queue of 8, one connection, retry clock | send with retries every 30 s, restart after 5 min | unknown outcomes, stalls, answers left on the connection | posted once; a receipt says ok only for its own request |
| Reply routing: `bridge/reply_router.rs` | 200 slots by message id | put, lookup, load | collisions, persistence | a reply never reaches the wrong number |
| Poll thread and cursor: `main.rs`, `bridge/poller.rs` | server offset, IM_CURSOR in NVS | poll, checkpoint, dispatch, acknowledge | crash between checkpoint and execution | at most once, and not lost without a crash |
| Outbound SMS: `sms/sender.rs` | queue of 8, rate window | enqueue, drain | retries of multi-part messages | attempts bounded, "sent" only when all parts went out |
| AT port: `modem/a76xx/at.rs`, `modem/urc.rs` | URC buffer of 32, a +CMT header | command, resync, poll | late answers, interleaved +CMT, full buffer | answers belong to their command, a PDU to its header |
| Calls: `bridge/call_handler.rs` | Idle, Ringing, Cooldown | RING, +CLIP, NO CARRIER, tick | lost lines, cool-down, failed hang-up | each call notified, and once if it was hung up |
| Modem set-up: `modem/a76xx/mod.rs`, `sim.rs`, `boards/` | what the modem forgets in a reset | init sequence, PIN, second attempt, refresh | failed commands, resets | PIN tries spared, notifications on again |
| Packet-data guard: `modem/a76xx/data.rs` | check timer, request | detach, read back | failures, modem resets, lost +CGEV | detached in the end; "verified" only on a readback of 0 |
| OTA: `ota.rs`, `ota/` | firmware slots, boot slot | download, verify, switch, confirm | truncated images, power loss, bad images | a working image is always within one reset |
| Flash log: `log_ring.rs` | records in flash | append, mount, page | torn writes, erased sectors | newest complete record found |
| Codec: `sms/codec.rs` | none | count, encode, cut, pack, parse | escapes and surrogate pairs at a cut | what arrives is what was written |
| Store: `persist/` | four keys | load, save | failing NVS | modelled where it is used |
| Modem status, log clock, MMS, texts, configuration | none, or fixed at boot | parsing and formatting | - | not modelled |

How they interact: the AT port gives URCs to the main loop, which turns them into
reads, calls and direct PDUs; prepared messages wait in the ready queue, go to
the worker, and their receipts release slots for deletion and feed the reply map;
commands reach the main loop from the poll thread and change the store, the
sender's queue or the loop's timers; any of the watchdogs, /restart, an update
or a power cut resets the whole device.

The hazards in `PROJECT.json` name the lines where these behaviours bite. The
modules follow the messages: from the network through the AT port to the loop
(`AtPort`, `IncomingCalls`), from storage through reassembly to the queue
(`Reassembly`, `SmsForwarding`), out to Telegram and back as replies
(`TelegramSend`), in from the operator (`TelegramCursor`) and out as SMS
(`SmsSender`, `SmsCodec`); beside them the log (`FlashLog`) and the life of the
device across resets (`ModemSetup`, `FirmwareUpdate`). Each module takes what its
neighbours promise as its input: `SmsForwarding` takes the three outcomes of a
send that `TelegramSend` produces, and the notifications and losses that `AtPort`
allows; `Reassembly` takes a completed message for forwarded; a command that
changes forwarding is an input of `SmsForwarding` and a "plain" update of
`TelegramCursor`.

## Modules

### SMS forwarding

`SmsForwarding` is the detailed model. Its variables are the loop's:

| variable | code |
|---|---|
| `modem` | modem storage: ME slots are swept, SM slots are not |
| `urcs` | unread lines of the AT port's URC buffer |
| `reads` | `pending_sms_reads`, with attempts and whether a retry time is set |
| `sweep`, `batch` | `pending_sweep_indices`, and the entries of the batch being handled |
| `ready`, `pending` | `ready_notifications`, `pending_notifications` with their receipts |
| `deletions`, `consumed` | `pending_deletions`, `consumed_slots` |
| `concat` | the parts in the `ConcatReassembler` |
| `fwd`, `blocked`, `timer` | FWD_ENABLED, BLOCK_LIST, `pause_until` |
| `delivered`, `dropped`, `unconfirmed` | histories that only the properties read |
| `phase` | the place of the main loop in its pass |

One pass of the loop is a sequence of phases in the code's order: receipts, one
deletion, auto-resume, URCs with the calls and direct PDUs they bring, one single
read, the listing, a batch and its entries, a command, the pump. Each action is
one step of one phase, so that arrivals, the worker and a reset fall between any
two of them. Between two deletions, between two parts, and between the read of a
batch and the handling of its entries the modem may change. `Reboot` is every
reset: it empties the RAM and runs the boot sequence (363-443).

Abstractions, each with its reason:

- A PDU is a value that stands for its text and for the fingerprint taken of it;
  the network sends each PDU once. Two identical PDUs, or two that share a
  fingerprint, are therefore outside the model.
- Time is a choice. An entry with `retry_after` set may or may not be due; a
  periodic step may or may not be due; a pause may end in any pass. The order of
  queues that are searched for the first due entry is then irrelevant, and they
  are sets. The ready queue keeps its order, which decides who is displaced.
- A part belongs to one message: reference collisions, and the limits of 8 groups
  and 64 slots, are the subject of `Reassembly`. Here expiry and eviction are one
  choice, for the messages the constant `Expirable` names.
- Several commands of one batch are several passes. A command whose store write
  fails changes nothing and is a pass without a command.
- The three outcomes of a send are those the main loop can tell apart: confirmed,
  and failed with or without the message having reached Telegram.
- The CMTI of a stored SMS may be lost, a listing may miss slots (malformed
  lines) or fail, single reads of a batch may fail, and AT+CMGD may be executed
  although its answer is lost.

`SmsMailbox` is what all this amounts to: parts are received, messages are
forwarded or discarded only when all their parts are available, and a part is
erased only after its message was forwarded or discarded. `SmsForwarding`
implements it (`MailboxSpec`, through `Mailbox == INSTANCE SmsMailbox WITH ...`).

`MCSmsForwarding` names the model values and gives `MessageOf` for the runs.
`QueueLemmas` proves how inserting into and removing from a sequence affect its
type and range, and that sets of positions have a least and a greatest element.
`SmsForwardingProofs` holds the theorems: what is lost and deleted, the order and
the limits of the queues, and then who owns a slot, what is repeated, and the
mailbox.

### Flash log

`FlashLog` models `log_ring.rs`. `flash` is the partition, a cell for each slot:
erased, torn, or a record with its sequence number. `nextSeq` and `nextSlot` are
the fields of `FlashLogRing`; `appending` is the event of an `append` that has
erased its sector, if it had to, and not yet written. `offered` and
`acknowledged` are histories. `append` is two actions, `StartAppend` and `Write`,
because a reset may come between them; `EraseFails` and `WriteFails` are its two
error returns, and `Reboot` is a reset at any point followed by `mount`. A slot is
a pair of sector and place, so that the modulo arithmetic of the code becomes
"the next place, or the start of the next sector". Programming can only clear
bits, so a record written over anything but erased flash comes out torn.

An interrupted or failed erase leaves each slot of the sector as it was, torn or
erased; an interrupted write leaves nothing, a part, or the whole record. What a
write that *reports* an error may leave is the constant `WriteFaults`. Reads that
fail, and corruption of records at rest, are not modelled. The kind of each
event is an input (`KindOf`); its other fields, and their truncation to 240
bytes, are left out.

The sequence number wraps in the model as in the code, but `LifetimeAssumption`
keeps it from happening: 32 sectors of 16 records that last 100000 erases hold
51 million records, not 4 billion.

`EventLog` is the promise: events are added in order and forgotten from the old
end, at most a sector's worth at a time, and never the newest. Its `log` is the set
of the events kept; they are numbered, so their order is known. `FlashLog`
implements it (`EventLogSpec`) with the records in flash for `log`; that the code
reads them in their order is `ReadsAgree`. `MCFlashLog` gives kinds to the events.
`FlashLogProofs` holds the theorems.

### Operator's messages

`TelegramCursor` is the way of an update from Telegram to its effect, and
`SmsSender`, which it extends, the queue of outgoing SMS that some updates fill.

| variable | code |
|---|---|
| `inbox`, `forgotten` | what the operator sent; how much of it Telegram no longer offers |
| `poller`, `pollCursor`, `offering` | the poll thread: its place, its `cursor`, the events it has yet to send |
| `channel` | `tg_rx` |
| `acked` | the one-place acknowledgement channel of the batch |
| `phase`, `room` | the main loop's place, and how many events this pass may still take |
| `batch`, `backoff`, `current` | `pending_tg_batch`, `cursor_retry_after`, the update being handled |
| `saved`, `persisted` | IM_CURSOR in the store, and `persisted_tg_cursor`, the loop's copy |
| `entries`, `windowCount` | the entries of `SmsSender`, and its count of /send in the window |
| `tries`, `aired`, `reported`, `handled`, `interrupted` | histories that only the properties read |

The poll thread asks, puts events into the channel and, when one is an update,
waits for its acknowledgement. A pass of the main loop takes events until it has
an update, saves the cursor, handles the update, acknowledges it, and makes one
attempt at one outgoing SMS. Between any two of these steps power may fail
(`Cut`). The restarts that the supervisors in the loop decide on come where the code
has them (`Supervise`): while it collects, after the dispatch, and, when the Telegram
worker has asked for one, between the checkpoint and the end of an /ota, which drains
the worker's events after its first note and with every progress note
(`main.rs:2504`, `main.rs:2530`). An /ota in hand in the phase "handle" is one that
is under way; it ends as `UpdateFails` or `UpdateSucceeds`. The latter and
`HandleRestart`, which is /restart, reset the device before the acknowledgement.

Abstractions:

- `GET_UPDATES_LIMIT` is 1, so a batch is one update or empty. An update id is its
  number in the inbox, and a cursor is the last id passed, one less than in the
  code.
- Delays are choices: the retry delays of the sender, the window of /send, the
  pause after a failed write of the cursor, the time a poll takes. That a long
  delay ends is fairness.
- A failed poll may or may not have told Telegram to forget what the cursor had
  passed, and a failed write of the cursor may or may not have been made.
- Whether the router still knows the message a reply answers is a choice.
- An SMS is its number and text together, with the number of its PDUs.
- `Durable` says which store the boot chose: NVS, or the `MemStore` it falls back
  on.

`MCTelegramCursor` names a message of one part, one of two, and one that is too
long. `TelegramCursorProofs` holds the theorems.

### AT port and calls

`AtPort` is the port and the modem at the other end of the UART. `port` holds the
fields of `AtPort`: the URC buffer, the +CMT header that waits for its PDU, whether
an answer may still be out, and the mode last probed. `op` is the command in
progress and its place: resynchronising (`sync`, `probe`), waiting for the prompt
of AT+CMGS, collecting the answer, done. `wire` is the lines on their way, `jobs`
the commands the modem has to answer. A line carries what it belongs to, which
the code never sees: the histories compare it with what the code took it for.

`IncomingCalls` extends it by the network, which stores and delivers SMS, calls
and packet-data events, by the loop's polling (`main.rs` 1095-1169), and by
`CallHandler`. A pass polls, ticks the handler, and works; a hang-up and the loop's
own commands go through the port while lines keep arriving. `IncomingCallsProofs`
holds the theorems about both modules.

Every step of the port takes at most one line from the wire. Before a command is
written the lines already there are drained, one a step (`DrainUrcs`), and
the command goes out when none is left (`Transmit`).

Abstractions:

- The drain of the code ends after 32 lines or 100 ms (`at.rs` 312-329). Lines
  beyond that count here as arriving after the command was written: none of them
  is an answer, and the code treats the others alike in both places.
- SMS, calls and events are told apart from each other and from the numbers of
  commands (`PartiesAssumption`), so that a line belongs to one thing.
- Lines arrive whole, or longer than `MAX_LINE_LEN` ("noise"); writes to the UART
  succeed; the size of an answer is not modelled.
- Commands are told apart by how they are answered and interrupted: a storage
  command, a query, AT+CMGS, and one without a body.
- A command that reaches the modem while it is busy may go unheard; an answer may
  be late, lost, or cut short by a reset of the modem.
- Between a +CMT header and its PDU the modem prints no other PDU, and prints it
  within `CMT_BODY_TIMEOUT`; a header ages only while the loop is away.
- Deadlines are choices. The cool-down of six seconds does not end in the middle
  of polling. A pass takes at least what the buffer can hold
  (`PassAssumption`; 64 against 32 in the code).
- No answer comes later than a whole resynchronisation (`Sluggish` is FALSE).
  One that did could be taken for the answer to the probe.

### Outbound Telegram and replies

`TelegramSend` follows a request from the loop through the channel, the worker,
and the one HTTPS connection to Telegram, and its receipt back. The loop's pass is
`events` (a restart the worker asked for), `register` (the command menu), `stall`
(supervision of the worker and of receipts), `receipts`, `pump`. The worker's
`state` is its place in an attempt; `worker.again` is the one retry of `post` on a
new connection, allowed only before the body. `posted` is what Telegram may yet
carry out, now, later or never; `answers` is what waits on the connection, in
order and without a name. `router` is the reply map in RAM, `savedRouter` in the
store.

Messages get their ids in the order in which they are posted. An operation is
young, old (five minutes) or stalled (90 seconds more). Requests with receipts
and retries are SMS and notes, the menu is asked once at a time, and a reply has
neither. What a reset leaves in modem storage is in `SmsForwarding`: here the loop
may pump anything at any time. `TelegramSendProofs` holds the theorems.

### Reassembly

`Reassembly` is `ConcatReassembler` over the storage it is fed from. `groups` is
the table in the order in which groups were first seen, with their parts by number
and the slots each vouches for; `storage`, `cursor` and `deletions` are the ME
slots, the sweep and the verified deletions around it. Time is counted in sweeps:
`GroupTtl` of them are the 24 hours. A table in the order of first sight is one whose expired
groups are its first, so that `Older` cuts off a prefix. Keys are shared between
messages; parts come more than once, out of order, with numbers out of range; slots
are erased and filled again behind a group's back. `ReassemblyProofs` holds the
theorems.

A sender's reference comes back at any time, also while parts of an older message
under it are held. The device cannot tell the two apart. The history `met` has the
pairs of messages of which that is true: when a part is sent (`Send`), its message
meets every other one of its key that the storage or the table holds a part of.
`MixedOnlyIfMet` and `StoredUntilForwarded` say what holds for messages that met and
for those that did not.

### Codec

`SmsCodec` builds an outgoing SMS and reads it with the parser the device has
itself: counting for /send, GSM-7 septets with escape sequences, UTF-16 with
surrogate pairs, cutting, packing at a bit offset behind the header, semi-octet
addresses. The alphabets have one character of each kind. All sizes follow from
`Octets`, the room for user data.

### Modem set-up and firmware updates

`ModemSetup` is the initialisation and the upkeep of what the modem forgets.
`modem` is that state: the SIM with its tries, attachment, CNMI and CLIP.
`pc` is the place of the main thread: from `board` and `probe` through the PIN
(`sim`, `unlock`, `await`), the detachment (`detach`, `readback`), `config`,
`cnmi`, `register`, and the verification and refresh that boot and loop share
(`enforce`, `refresh`, `restore`, `clip`). A command may be refused, or not
answered whether it was carried out or not, or answered OK without effect; the
modem may reset itself, and the network attach it. The two clocks of the loop are
`check`, which has a cool-down and an interval, and `refreshDue`.

`FirmwareUpdate` extends it by the boot loader, the two slots, and the /ota
requests of a batch, from the choice of the newest to the switch of the boot slot
or a failure. (The device asks Telegram for one update at a time, so that its batches
have one request; the code that chooses among several is modelled with several.)
ESP-IDF is modelled by what it promises, with rollback enabled
(`sdkconfig.defaults`): a slot is selected only if what was written is a whole
image, an unconfirmed image is left by the next reset, and none is written while
the running one is unconfirmed. A reset at any point starts all over.
`FirmwareProofs` holds the theorems about both modules.

Abstractions: an image is its length in chunks, a bad one panics before it
confirms itself; URLs, redirects and headers fail or not; the cursor of the batch
is saved, so a reset loses what is left of it; only commands are modelled that
change the modem or whose answer decides what comes next.

## Runs

Every run but `SmsCodec`, where a message ends, checks for deadlock too. In the
SMS runs the real limits are 8 ready, 4 pending, 32 deletions, 128 reads, 8
attempts, batches of 4. The runs use 1 or 2 of each: what matters is that a limit
is reached and that a queue can hold both something to displace and something to
keep.

| run | instance | what it shows |
|---|---|---|
| `SmsMain` | a stored SMS, a direct one, a call, operational texts, one ME and one SM slot, 2 ready places, all commands; no sender is blocked while forwarding is paused (`OneReasonToDrop`) | nothing is deleted that was not settled (`OnlySettledDeleted`), neither displacement nor a second read repeats what was confirmed (`NoSpuriousDuplicate`), calls and direct SMS leave the queue only for the worker, and a stored SMS is put off only from a full queue without texts while a call or a direct SMS is taken in, even one that is then dropped (`UnrepeatableKept`), texts stay last (`PlainLast`), limits hold (`QueuesBounded`) |
| `SmsMultipart` | a single-part and a two-part message, two ME slots, expiry, batches of 2 | nothing is lost (`NoLoss`), queues and slots agree and a slot has one owner (`SlotsOwned`), and the model implements the mailbox (`MailboxSpec`) |
| `SmsLive` | two PDUs and a call, one ME and one SM slot, all limits 1, so that a +CMTI of the SIM puts an ME read out of the full queue | `StoredIsSettled` under fairness, unless a vanished SIM slot holds all SMS back for good |
| `FlashLog` | three sectors of two records, seven events of two kinds | the newest record survives every fault and reset (`NewestSurvives`), every way of reading agrees with the order of events (`ReadsAgree`), the ring implements `EventLog` |
| `TelegramCursor` | two updates out of six, two resets, a channel of 1, a queue of 2, 2 attempts, one /send in a window | each update is handled at most once, in order (`OnceInOrder`), or lost to an interrupted handling only (`ForgottenIsHandled`; where the code restarts by itself, only an /ota under way is: `RestartsLoseOnlyOta`), and in the end (`UpdatesAreHandled`); the modem gets each SMS a bounded number of times and "sent" is true of all parts (`SendsAreTrue`) |
| `PortNotices` | a stored SMS, a direct one, a call, a packet-data event, a buffer of 2, 2 lines on the wire | a PDU goes with its own header (`CmtPaired`); what is lost is counted, and lines about calls are dropped last (`NothingLostSilently`) |
| `PortCalls` | a call of two RINGs, a command of each kind, lost and late answers | a command takes only its own answer (`AnswersMatch`); a call is notified (`CallsNotified`), again only if it could not be hung up (`HungUpOnce`) |
| `TelegramSend` | an SMS and a note, two requests, a queue and a reply map of 1, one loss of power | nothing is posted twice by retries (`AtMostOnce`), receipts carry the right id (`ReceiptsTrue`), replies go to the sender or to nobody (`ReplyGoesToSender`), every receipt comes or the device restarts (`AcceptedIsAnswered`) |
| `SmsCodec` | 10 octets in a PDU, 4 parts, all GSM-7 texts up to 12 characters and all texts up to 6 | `ArrivesAsWritten`; `PartsFit` |
| `Reassembly` | two messages of one key, one of them never finished, an orphan, a direct one, three slots, two groups, one reset or erasure | parts of two messages are joined only if parts of both were held at a time (`MixedOnlyIfMet`), what is deleted was forwarded, and whole if its message met no other (`StoredUntilForwarded`), what is complete in storage is forwarded (`CompleteIsForwarded`) |
| `Firmware` | three kinds of PIN, locked or unlocked SIM, two batches out of seven, images that are good, bad, cut or endless, slots of 2 chunks, two mishaps | a working image is at most one reset away (`Recoverable`), only the newest request's whole image is selected (`OnlyNewestSelected`), a boot costs at most two tries of the PIN (`PinSpared`), the modem is detached and listening again (`PacketDataOff`, `ListensAgain`), the device gets to its loop (`ComesUp`) |
| `SmsVanished` | two PDUs, two slots, all limits 1 | a violation: see below |

In the SMS runs with two PDUs and one slot, a slot is reused while a deletion of
its old content is outstanding; with two ready places, a call meets a queue of one
stored SMS and one text; with `BatchSize` 1 or 2 a sweep needs several passes.
`OneReasonToDrop` keeps `SmsMain` within minutes: a pause and a block drop a
message in the same place, so each alone reaches it. The theorems hold without it.

Seven events fill the six slots of the log and enter the first sector again, and
with every slot skipped after a failed write it is entered sooner, so that sectors
half used, torn and half erased meet each other at the wrap.

Two updates are what an order needs, and two resets let the second strike while
the device recovers from the first. With room for one event in the channel and
one per pass both threads block on each other. Two equal updates meet the
queue's test for duplicates, two /send the limit of the window. The queue of
outgoing SMS never refuses for want of room in this run; a full one refuses as it
does a duplicate.

A URC buffer of two is filled by any two lines, and has room for a header and
its PDU only when everything else gives way. Two RINGs let one wait in the buffer
while the first is acted on. One command of the loop's own and the hang-up are
two commands whose answers can be exchanged; a probe is a third. The two port
runs split the lines by what they can disturb: notices compete for the buffer,
commands for answers.

Two requests are what it takes to confuse their answers, and one entry in the
reply map makes their ids collide. Requests are bounded by `MaxRequests`, but not
the attempts at each.

In ten octets there are 11 septets, or 4 behind a header, and 5 UTF-16 units, or
2: twelve characters with escapes make up to six parts where four are allowed, and
every position of a cut falls before, in and behind an escape sequence and a
surrogate pair. Fill bits run through all offsets within an octet.

In `Reassembly` two groups fill the table, so that the third key evicts; the parts
of one key outnumber the slots, and an expired group meets its parts again.
Two mishaps of `Firmware` let a failed command meet a reset, or a lost event an
attachment; two batches let a second update follow a failed or a confirmed first.

Each property has a mutant of the code that breaks it in the same run (deleting
without reading back, searching one of two queues, an off-by-one limit, reusing a
connection after an unknown outcome, cutting through an escape sequence, confirming
an image before it has come up, and so on).

### Fairness

`Fairness` in `SmsForwarding` says:

- the main loop goes on (`WF_vars(MainLoop)`): its waits are bounded and the task
  watchdog resets it otherwise; `SF_vars(EndUrcs)` because a pass polls at most
  64 notifications;
- a listing, a batch, the read of a given slot in a batch, a hand-over to the
  worker, a send and a deletion that are tried again and again succeed again and
  again (strong fairness): all are retried for ever, and the device resets itself
  when Telegram stays out of reach;
- resets stop at some time (`<>[][~Reboot]_vars`): a device that is reset for ever
  promises nothing.

`Fairness` in `TelegramCursor` lets both threads go on (`WF_vars(PollThread)`,
`WF_vars(MainLoop)`: each is watched by the task watchdog), and a poll, a write of
the cursor and an attempt at an SMS that are tried again and again come about
again and again (`SF_vars`): all are retried without limit, and the delays before
them are bounded. An attempt need not succeed. The number of resets is bounded by
the instance.

`LiveSpec` of `IncomingCalls`: the device's thread runs, deadlines pass, the modem
prints the PDU it owes and answers, or loses, the command it was given
(`WF_vars` of each). `LiveSpec` of `TelegramSend`: the main loop and the worker
run, and an operation grows old (`WF_vars`); that Telegram answers is not assumed,
nor that the worker does not hang. `LiveSpec` of `Reassembly`: the sweep moves on
(`WF_cursor`), and nothing else. `LiveSpec` of `FirmwareUpdate`: the main thread
runs (`WF_vars(Device)`), its two clocks advance and every pass of the loop tests
both of them (`SF_vars`); mishaps are finitely many by the bound `MaxMishaps`.

Nothing is assumed of the network, of lost +CMTI lines, or of single failures.
`StoredIsSettled` says nothing of SIM storage, which is not swept. The instance
of `SmsLive` has one ME slot, and that is why it escapes the finding below: with two
of them and a two-part message its deadlock is reached. That messages of several
parts are forwarded is `CompleteIsForwarded`, in the model without that queue.
`ListensAgain` supposes that the SIM stays ready: a modem that resets itself with
a locked SIM is not unlocked again before the device is reset.

### What the code does not do

`SmsVanished` shows a statement of the repository that the program does not keep:
deletions of vanished slots can be kept for ever (`main.rs:1456`). At the real
limits it takes 32 such deletions, eight SMS waiting and an unfinished sweep.

### Known limits

Met while modelling. They are behaviour of the code that a property here excludes
by an assumption or leaves alone; that they happen is checked by no run.

- A stored SMS displaced by a call is "swept later" (`main.rs:2031`) only when it
  is in ME; one on the SIM is not read again.
- Deletions of vanished SIM slots are retired by no listing, only by another SMS in the
  same slot (`main.rs:1456` is about ME): as many as the pump bears, 32 of different
  slots since the last reset, hold all SMS back until the next one. `StoredIsSettled`
  has that as its hypothesis (`HeldBackBySim`); with limit 1 the instance comes to it.
- A direct SMS displaces a stored one before it is prepared (`main.rs:1249`,
  `main.rs:2024`): one that is then dropped, because forwarding is paused, its
  sender blocked, it cannot be parsed or it is a part, has put the stored one off
  for nothing. `UnrepeatableKept` allows for it; nothing is lost.
- A store write that fails when a pause expires, or at boot, leaves forwarding
  paused with no timer (`main.rs:846`, `main.rs:367`).
- "Evicting the oldest sector" (`log_ring.rs:214`): a record ends in padding that
  is never programmed, so a write that fails may have completed it, and the next
  record gets the same sequence number. When the first of the two is in the last
  slot of the partition, the next mount goes on behind it and erases the sector
  of the second, the newest. `WriteFaults` with "whole" lets TLC find it.
- "An intentional reboot does not replay /restart or /ota" (`main.rs:1845`) holds
  for NVS only. With the `MemStore`, which a boot chooses when NVS cannot be opened,
  the checkpoint is gone after the reboot. `Durable` FALSE lets TLC find it.
- An /ota is lost, without an answer, if the Telegram worker's request for a restart
  is found while it is under way (`main.rs:2504`, `main.rs:2530`): the cursor was saved
  behind it before (`main.rs:1648`), and at the first of the two places nothing has been
  downloaded yet. `RestartsLoseOnlyOta` allows for it.
- "Incomplete parts remain on the modem until the full message has been forwarded"
  (`sms_handler.rs:396`): if a sender's reference comes round again while an orphan
  or unfinished part of an older message is held, the parts are joined, forwarded
  as one message and deleted (`concat.rs:157`). The instance of `Reassembly` comes to
  it; `MixedOnlyIfMet` says that it happens in no other case.
- "A stale OK cannot be mistaken for the next command's completion" (`at.rs:257`): the
  probe of a resynchronisation that gave up may be answered late itself. If the answer
  it was to wait for comes first, the port takes the one for the other, thinks nothing
  is out, and the probe's answer reaches the next command. `Sluggish` TRUE lets TLC
  find it.
- More unfinished messages in storage than the table has groups evict one another
  in every sweep, and a complete one among them may starve.
- The number of parts /send shows is counted character by character (`codec.rs:1156`)
  while the cut leaves room unused before an escape sequence (`codec.rs:1021`): a
  message shown as ten parts may be built as eleven and dropped. `PartsFit` states
  what holds: never fewer than shown, and as many for other alphabets.
- The PIN "is sent once" (`sim.rs:20`) in each call; init is tried twice in a boot
  (`boards/ta7670x.rs:103`) and the device restarts after the second failure
  (`main.rs:222-237`), so a wrong PIN costs two tries per boot and blocks the SIM in
  the second. `PinSpared` states what holds.
- A sim_pin that is not 4 to 8 digits fails init before packet data is detached,
  and the device restarts again and again with data attached.
- A good new image is rolled back if the modem cannot be initialised before
  `confirm_running` (`main.rs:445`).
- A receipt that has come but is read late, after a long update attempt, counts as
  overdue and resets the device (`main.rs:738`).
- `README.md:213` of the repository says that a stored SMS is deleted only after
  delivery, while one that arrives during a pause or from a blocked number is deleted
  undelivered, on purpose (`main.rs:1971`). `NoLoss` counts such messages as dropped.

## Proofs

The properties named here are those of the runs, unless they are said not to be:
a run shows them on its instance, the theorem for every value of the constants that
the named assumptions of the modules admit. The assumptions are typing, disjointness
and positive limits. Some theorems about the cursor, the log and the port
have a hypothesis of their own, explained where they are listed.

### Forwarding

`SmsForwardingProofs` proves, for all finite or infinite sets of PDUs, messages,
calls and slots and all positive limits:

- `TypeCorrect`: `Spec => []TypeOK`;
- `DeletionsSettled`: `Spec => []OnlySettledDeleted`;
- `NothingLost`: `Spec => []NoLoss`;
- `LimitsKept`: `Spec => []QueuesBounded`;
- `TextsWait`: `Spec => []PlainLast`;
- `UnrepeatableAlways`: `Spec => UnrepeatableKept`;
- `SlotsHaveOneOwner`: `Spec => []SlotsOwned`;
- `ConfirmedNotRepeated`: `Spec => []NoSpuriousDuplicate`;
- `ForwardingIsMailbox`: `Spec => MailboxSpec`.

`NoLoss` is not inductive. Erasing a slot is safe because the deletion is of a
settled message (`OnlySettledDeleted`); that a receipt of a delivered message
queues only such deletions needs the items in flight, and the parts in the
reassembler, to carry copies of their own message only, and a confirmed receipt
to imply delivery: `SoundQueues`. Their conjunction with `TypeOK` is `SafetyInv`,
shown to hold initially and to be preserved by each action in turn, first for the
types, then for the rest. Steps that rearrange the ready queue rest on
`QueueLemmas`: what is in a queue after `RemoveAt` and `InsertAt`, and that the
positions `Min` and `Max` choose exist.

The limits and the order of the texts depend on each other: which entry is
displaced is decided by position, so a place is reserved safely only in a queue
whose texts come last. `Within` therefore joins `Orderly(ready)` (texts last, no
more entries than `MaxReady`), the limit of `pending`, and the finiteness and
limit of `reads`; it is preserved because every insertion follows a reservation,
and a rollback returns an entry to the place it was taken from.

`UnrepeatableKept` follows from `Within` and `TypeOK` step by step (`LeavingStep`): each
way of changing the queue is shown to keep every entry but those it may drop. The
attempt found a mistake in the property as it was first stated, that a stored SMS
makes way only for a call or direct SMS that is then queued: its place is reserved
before the direct SMS is prepared, and the preparation may drop it. The instance of
`SmsMain` did not show it. The property now says what the code does, and the known
limits list it.

That a slot has one owner and that nothing confirmed is repeated is the same
argument. The code keeps apart *slots* (`notification_slot_in_flight`,
`deletion_slot_pending`) and the properties speak of *messages*. `OwnershipInv` is the
bridge. A notification names a slot for each part of its message, each still
holding that part (`Gathered`), and a PDU is in one slot at most (`StorageInv`), so that
a message that comes up twice comes up with a slot in common; a direct message has
no slots, but each of its PDUs is handed over once (`DirectInv`). Hence a message is
in the ready queue once, or with the worker once, and not in both (`QueueInv`,
`OutInv`); the slots of either, and those of the collected parts, have no deletion.
`ConfirmedInv` adds that what is left in the modem of a confirmed message waits for
its receipt or for its deletion. The steps that rearrange the queue share one
argument: what results holds elements of the old queue, each at most once, and at
most one more (`Drawn`).

The refinement maps an arrival to `Receive`, a hand-over that Telegram takes to
`Forward`, a deliberate drop to `Discard` and an erasure to `Erase`. `OwnershipInv` gives
their guards: what is forwarded or dropped has all its parts (`GatheredAvailable`,
`DropDiscards`), and a deletion is of a settled message. Every other step stutters.

### Flash log

`FlashLogProofs` proves, for every geometry of at least two sectors, every number
of events below 2^32, and failed writes that do not complete their record (the
hypothesis `"whole" \notin WriteFaults`; the known limits say what happens
without it):

- `RingTyped`: `Spec => []TypeOK`;
- `NewestNeverLost`: `Spec => []NewestSurvives`;
- `LogForgetsOldest`: `Spec => EventLogSpec`;
- `LatestIsNewest`: `Spec => []LatestAgrees`, the part of `ReadsAgree` about the latest
  event of a kind.

That the newest record survives depends on where the log will go on after a reset
that has not happened yet. `RingInv` says: sequence numbers are distinct and below
`nextSeq`; between erase and write the rest of the sector is erased (`Prepared`);
the newest record is in a sector that is not about to be erased, or directly
before `nextSlot`; and the slot behind it is programmed, or everything behind it in
its sector is erased (`TopAt`). The last part is what makes mount's look at a
single slot enough: it need not hold in any other sector, where an interrupted
erase may have left anything.

That only old events are forgotten depends on all sectors. `AgeInv` says that records
are numbered in the order of their events (`Dated`); that from the sector behind the
newest record, round to its own, every record is older than those of the sectors and
places after it (`InRingOrder`); and that the log goes on right behind the newest
record or at the start of the next sector (`GoesOn`), never further, however many
erases and writes have failed. The sector that is erased is then the oldest one,
and the events older than any of its records are in the same sector: fewer than it has
places. When the log enters it, the new record makes it the youngest and leaves the
order of the others as it was (`OrderMoves`).

### Operator's messages

`TelegramCursorProofs` proves, for every number of updates and resets, every depth
of the channel and all limits of the outgoing queue:

- `CursorTyped`: `Spec => []TypeOK`, with either kind of store;
- `HandledOnceInOrder`: `Spec => []OnceInOrder`, if the store is `Durable`;
- `NothingForgotten`: `Spec => []ForgottenIsHandled`, if it is `Durable`;
- `RestartsSpareTheRest`: `Spec => RestartsLoseOnlyOta`, if it is `Durable`;
- `SendsStayTrue`: `Spec => []SendsAreTrue`, if it is `Durable`.

`Durable` is what a boot gives whose NVS can be opened, the normal case; with the
`MemStore` the statements are false, as the known limits say.

The invariant has two parts. `FlightInv` says that the update after the poll
thread's cursor is in at most one place: about to be offered, last in the
channel, the pending batch, being handled, or acknowledged; the poll thread waits
meanwhile. `ProgressInv` orders the cursors: what Telegram has forgotten, the
poll thread's cursor, how far updates have been handled (`Reached`), and the saved
cursor, which may be ahead by the update in hand or by a write that was reported
as failed. Everything up to `Reached` was handled or is counted as interrupted,
and nothing beyond it was handled; so the next update handled is new and later
than all before. A reset continues at the saved cursor, and what lies between is
what it interrupts. `RestartsSpareTheRest` follows because at the places where the
loop restarts by itself the saved cursor is at `Reached`; during an /ota it is ahead
by that /ota, and after a write that was made but reported as failed by one update.

That the modem is given a message a bounded number of times cannot be counted from
the queue, since duplicates and resets empty it. `BudgetInv` counts requests instead:
each one that was handled buys `MaxAttempts` attempts, and an entry of the queue holds
those its request has left. Entries have different messages, so no attempt is counted
twice, and `OnceInOrder` keeps a request from buying twice.

### Outbound Telegram and replies

`TelegramSendProofs` proves, for every number of requests, losses of power and slots
of the reply map, and every depth of the queues:

- `SendTypes`: `Spec => []TypeOK` (in no run: the others rest on it);
- `ExecutedOnce`: `Spec => []AtMostOnce`;
- `ReceiptsAreTrue`: `Spec => []ReceiptsTrue`;
- `RepliesGoToSenders`: `Spec => []ReplyGoesToSender`.

`SendInv` orders the requests: those in the channel come after the worker's, and that
after all that Telegram was sent; the worker's own was not sent while it may be tried
again (`OnceInv`). It also says what lives on the connection: unless the worker hangs,
one post or the one answer to it, of the request in hand, and nothing when no answer
is awaited (`LinkInv`). So an answer that is read is to the request it is taken for,
which makes receipts true (`ReceiptInv`), and with them both reply maps (`Truthful`): a
slot's entry names the sender of the very message whose id it holds.

### AT port and calls

`IncomingCallsProofs` proves, for every set of SMS, calls, events and commands, every
size of the buffer, the wire and a pass, and every number of RINGs and garbled lines:

- `PortTyped`: `Spec => []TypeOK` (in no run);
- `NoticesAccounted`: `Spec => NothingLostSilently`;
- `PdusFollowHeaders`: `Spec => []CmtPaired`;
- `AnswersGoToCommands`: `Spec => []AnswersMatch`, if `Sluggish` is FALSE;
- `CallsHungUpOnce`: `Spec => []HungUpOnce`, if it is FALSE.

`Sluggish` lets an answer come later than a whole resynchronisation, which waits two
seconds for a terminal and ten for its probe (`at.rs` 19-20). The port tells answers
apart by their form only, so one as late as that can be taken for the answer to the
probe, and `AnswersMatch` is then false (TLC finds it). `HungUpOnce` rests on it: the
OK to a hang-up has to be its own. The other three do not need the hypothesis.

The code has many ways to treat a line: absorb it into a +CMT, queue it with or
without evicting others, keep it as an answer, discard it. `Reads` says what all of
them may do to the buffer, the header and the count of losses, and `PortStepEffect`
shows once that every step of the port reads one line so or leaves the buffer alone;
`EvictOneEffect` and `ReserveEffect` show that what is evicted can be recovered, that
no header loses its PDU, and that lines about calls stay in order (`Embeds`). Each
invariant then needs one argument about one line.

- `Types` includes that the loop stands still while a command runs (`Standstill`).
- `AllAccounted`: a notice that arrived was taken, is counted as lost, is the header in
  hand, or waits in the buffer or on the wire.
- `AllPaired`: in the buffer a header stands before its own PDU (`Paired`); on the wire
  the next PDU behind a header is its own or garbled (`Followed`), and a header that
  nothing follows is that of the PDU the modem owes (`Awaited`). A header grows old
  only while its PDU waits on the wire (`AgedInWait`), so while a command listens every
  direct PDU has its header before it (`Preceded`).
- `Answered`: outstanding answers, in the modem and on the wire, are in the order of
  their commands and each ends with its terminal (`InOrder`). While a command listens
  they are all its own; between commands there are none unless `late` is set; and then
  they are those of one command, not of the form of the probe, so that the marker of
  the probe is its own answer, with nothing older behind it.
- `CallsSettled`: in buffer and wire taken together the lines of one call are
  together, between the call the handler holds and the one that rings, its end last
  (`Grouped`). An OK to a hang-up therefore means that the call is dead and that no
  line of it is on the wire (`HangingUp`). A call that was hung up (`Settled`) is not
  held again: the lines of it that are left in the buffer are taken during the cool-down,
  which ends only at a tick after a poll that emptied the buffer (`Due`).

The last part rests on two facts about time that the abstractions of the module
name: a pass takes at least what the buffer can hold, and the cool-down does not end
in the middle of polling.

### Reassembly

`ReassemblyProofs` proves, for every set of messages, keys and numbers of parts, every
size of the storage and of the table, and every number of copies, resets and erasures:

- `TableTyped`: `Spec => []TypeOK` (in no run);
- `MixedOnlyWhenMet`: `Spec => []MixedOnlyIfMet`;
- `PartsStayUntilForwarded`: `Spec => StoredUntilForwarded`.

Neither has a hypothesis: references come back at any time.

`ReassemblyInv` says that every group of the table is open and sound (each part under
its own number and of the group's key, each slot vouched for by a part that the
group holds), that keys are distinct and the oldest group is first (`TableInv`); that
held parts of one key, in storage and in the table together, are of one message or of
messages that met (`MetInv`); and that a part whose slot waits for its deletion is in
a text that was forwarded (`DeletionInv`). Completion then joins parts that are held
at that moment, one for every number of the key, and the slots that are to be deleted
hold just those. If the message of a deleted part met no other, every part of that
text is of the message, which makes the text its whole.

### Modem set-up and firmware updates

`FirmwareProofs` proves, for every set of images, requests and PINs, every size of a
slot, and every number of mishaps, batches and attempts at initialisation:

- `AlwaysRecoverable`: `Spec => []Recoverable`;
- `PinAlwaysSpared`: `Spec => []PinSpared`;
- `NewestSelected`: `Spec => OnlyNewestSelected`.

`FirmwareInv` ties the slot that runs to the one that is selected, from the boot
loader to the switch, and lets nothing be written unless the running image is
confirmed (`BootInv`); it keeps the request in hand the newest of its batch, and says
at validation that what was written is all of it (`DownloadInv`); and it counts the
tries a boot may have cost by the attempts at initialisation that have come to send
the PIN (`PinInv`).

### What stays with TLC

- Liveness (`StoredIsSettled`, `UpdatesAreHandled`, `AcceptedIsAnswered`, `CompleteIsForwarded`,
  `CallsNotified`, `PacketDataOff`, `ListensAgain`, `ComesUp`): TLAPS proves nothing under
  fairness, nor about ENABLED.
- `ArrivesAsWritten` and `PartsFit`: what the recursive functions of `SmsCodec` compute
  for every text needs induction over data, which the provers cannot do.
- `ReadsAgree` but for `LatestAgrees`: the lists that /log shows are folds and sorted
  selections of sequences, whose value for every flash is an induction over data. The
  order of records that they rely on is proved (`Dated`, in `AgeInv`).
- Each hypothesis of a theorem has a counterexample without it, which TLC finds and the
  known limits describe (`Sluggish`, `Durable`, "whole" among `WriteFaults`).
  They are counterexamples to one statement each: `HungUpOnce` holds in the instance
  of `PortCalls` with `Sluggish` TRUE as well, but is not proved for it.

## Not modelled

- Modem status (`modem/status.rs`) and what /status, /log and /help show: parsing and
  wording that nothing in the program depends on.
- The log clock (`log_clock.rs`) and the comparison of wrapping timers (`timer.rs`):
  pure arithmetic on one counter, covered by unit tests; deadlines are choices here.
- Character tables, message texts and layout, MMS notifications, HTTP and JSON framing,
  URLs and redirects: parsing and formatting without state.
- Status reports, 8-bit data, alphanumeric senders and application ports in received
  PDUs.
- Edits of messages and answers to callbacks as requests of their own; the facade that
  waits for a receipt while an update is being written.
- Board set-up, provisioning over serial, Wi-Fi and SNTP start-up, test support.
