------------------------------ MODULE SmsCodec ------------------------------
(***************************************************************************)
(* An SMS on its way out (sms/codec.rs, commands/builtin/send.rs): it is   *)
(* counted for the operator, encoded, cut into parts, packed into PDUs,    *)
(* and read again at the other end by the parser this device has itself.   *)
(*                                                                         *)
(* Abstractions.  A text is a sequence of characters of four kinds: of the *)
(* GSM-7 table, of its extension table, and outside both with one or with  *)
(* two UTF-16 units.  A PDU is its address, coding, length field and user  *)
(* data; the octets around them are constants.  Sizes follow from Octets,  *)
(* the room for user data, 140: 160 and 153 septets, 70 and 67 units.      *)
(***************************************************************************)
EXTENDS Integers, Sequences, FiniteSets, SequencesExt

CONSTANTS
  Octets,         \* room for user data in a PDU, 140
  MaxParts,       \* MAX_SMS_PARTS, 10
  Bodies,         \* texts to send
  Phones          \* destinations: [plus : BOOLEAN, digits : Seq(0 .. 9)]

Characters == {"e", "euro", "han", "emoji"}

ASSUME CodecAssumption ==
  /\ Octets \in Nat /\ Octets > 8 /\ MaxParts \in Nat \ {0}
  /\ Bodies \subseteq Seq(Characters) \ {<<>>}
  /\ \A p \in Phones : p.plus \in BOOLEAN /\ p.digits \in Seq(0 .. 9) \ {<<>>}

HeaderOctets == 6                                 \* of a concatenation header
HeaderBits == 49                                  \* the same, up to a whole septet
SingleSeptets == (Octets * 8) \div 7
ChunkSeptets == (Octets * 8 - HeaderBits) \div 7
(* Mutant of ChunkOctets: the room of a message without a header.            *)
WholeOctets == Octets
ChunkOctets == Octets - HeaderOctets
ESC == 27

VARIABLES
  body, phone,    \* what is sent, and where to
  pc,             \* "asked", "refused", "queued", "cutting", "built", "bad" or "received"
  shown,          \* number of parts shown to the operator, 0 for a reply
  cuts,           \* ends of the parts cut so far, in septets or octets
  pdus,           \* PDUs built
  received        \* what the other end has read

vars == <<body, phone, pc, shown, cuts, pdus, received>>

Init ==
  /\ body \in Bodies /\ phone \in Phones
  /\ pc = "asked" /\ shown = 0
  /\ cuts = <<0>> /\ pdus = <<>> /\ received = <<>>

-----------------------------------------------------------------------------
(* The alphabets. *)

Gsm7 == [c \in {"e", "euro"} |-> IF c = "e" THEN <<101>> ELSE <<ESC, 101>>]
Utf16 == [c \in Characters |->
  CASE c = "e" -> <<101>> [] c = "euro" -> <<8364>> [] c = "han" -> <<20013>>
    [] c = "emoji" -> <<55357, 56832>>]
IsHigh(unit) == unit \in 55296 .. 56319
IsLow(unit) == unit \in 56320 .. 57343

IsGsm7(text) == \A i \in DOMAIN text : text[i] \in DOMAIN Gsm7
Units(text) == FlattenSeq([i \in DOMAIN text |-> Utf16[text[i]]])
Ucs2(text) ==
  FlattenSeq([i \in DOMAIN Units(text) |-> <<Units(text)[i] \div 256, Units(text)[i] % 256>>])

(* What is cut: septets or octets.                                           *)
Encoded(text) ==
  IF IsGsm7(text) THEN FlattenSeq([i \in DOMAIN text |-> Gsm7[text[i]]]) ELSE Ucs2(text)

(* A septet after ESC is looked up in the extension table; an ESC at the end *)
(* is dropped.                                                               *)
DecodeSeptets(septets) ==
  LET rest[i \in 1 .. Len(septets) + 2] ==
        IF i > Len(septets) THEN <<>>
        ELSE IF septets[i] # ESC THEN <<IF septets[i] = 101 THEN "e" ELSE "other">> \o rest[i + 1]
        ELSE IF i = Len(septets) THEN <<>>
        ELSE <<IF septets[i + 1] = 101 THEN "euro" ELSE "other">> \o rest[i + 2]
  IN rest[1]

(* Half a pair is dropped.                                                   *)
DecodeOctets(octets) ==
  LET n == Len(octets) \div 2
      unit == [i \in 1 .. n |-> 256 * octets[2 * i - 1] + octets[2 * i]]
      one(u) == {c \in Characters : Utf16[c] = <<u>>}
      rest[i \in 1 .. n + 2] ==
        IF i > n THEN <<>>
        ELSE IF IsHigh(unit[i]) /\ i < n /\ IsLow(unit[i + 1])
        THEN <<CHOOSE c \in Characters : Utf16[c] = <<unit[i], unit[i + 1]>>>> \o rest[i + 2]
        ELSE SetToSeq(one(unit[i])) \o rest[i + 1]
  IN rest[1]

-----------------------------------------------------------------------------
(* Septets in octets.  pack_septets sets the bits of every septet in one     *)
(* octet and, where it has a further one, the next; no two septets share a   *)
(* bit, so the disjunction is a sum.                                         *)

BitOf(offset, i) == offset + (i - 1) * 7
OctetOf(offset, i) == BitOf(offset, i) \div 8 + 1
Shifted(septets, offset, i) == septets[i] * 2 ^ (BitOf(offset, i) % 8)

Pack(septets, offset) ==
  LET size == (offset + Len(septets) * 7 + 7) \div 8
      low(k) == {i \in DOMAIN septets : OctetOf(offset, i) = k}
      high(k) == {i \in DOMAIN septets : OctetOf(offset, i) = k - 1}
  IN [k \in 1 .. size |->
        MapThenSumSet(LAMBDA i : Shifted(septets, offset, i) % 256, low(k))
      + MapThenSumSet(LAMBDA i : Shifted(septets, offset, i) \div 256, high(k))]

(* unpack_septets reads 16 bits around every septet.                         *)
Unpack(octets, count, offset) ==
  LET after(k) == IF k + 1 \in DOMAIN octets THEN octets[k + 1] ELSE 0
      whole == {i \in 1 .. count : OctetOf(offset, i) \in DOMAIN octets}
  IN [i \in whole |->
        LET k == OctetOf(offset, i)
        IN ((octets[k] + 256 * after(k)) \div 2 ^ (BitOf(offset, i) % 8)) % 128]

-----------------------------------------------------------------------------
(* Addresses: two digits in an octet, the first in the low half, and a       *)
(* filler of 15 after an odd number of them.                                 *)

EncodePhone(p) ==
  LET n == Len(p.digits)
      digit(i) == IF i \in DOMAIN p.digits THEN p.digits[i] ELSE 15
  IN [count |-> n, plus |-> p.plus,
      octets |-> [k \in 1 .. (n + 1) \div 2 |-> digit(2 * k - 1) + 16 * digit(2 * k)]]

(* The decoder stops at the count of digits or at the first half octet that  *)
(* is none.                                                                  *)
DecodeAddress(a) ==
  LET half(i) == IF i % 2 = 1 THEN a.octets[(i + 1) \div 2] % 16 ELSE a.octets[i \div 2] \div 16
      halves == 1 .. 2 * Len(a.octets)
      read == {i \in 1 .. a.count : i \in halves /\ \A j \in 1 .. i : half(j) <= 9}
  IN [plus |-> a.plus, digits |-> [i \in read |-> half(i)]]

-----------------------------------------------------------------------------
(* The number of parts shown to the operator: characters are put into parts  *)
(* one after the other, each into the part that has room for it.             *)

Fill(room, widths) ==
  FoldLeft(LAMBDA acc, w :
             IF acc.used + w > room THEN [parts |-> acc.parts + 1, used |-> w]
             ELSE [acc EXCEPT !.used = @ + w],
           [parts |-> 1, used |-> 0], widths).parts

CountSmsParts(text) ==
  LET alphabet == IF IsGsm7(text) THEN Gsm7 ELSE Utf16
      widths == [i \in DOMAIN text |-> Len(alphabet[text[i]])]
      single == IF IsGsm7(text) THEN SingleSeptets ELSE Octets \div 2
      room == IF IsGsm7(text) THEN ChunkSeptets ELSE ChunkOctets \div 2
      parts == IF FoldLeft(+, 0, widths) <= single THEN 1 ELSE Fill(room, widths)
  IN IF parts <= MaxParts THEN parts ELSE 0

(* Mutant of NextChunk: escape sequences are cut like anything else.         *)
NextChunkBlindly(pos) ==
  LET data == Encoded(body)
      room == IF IsGsm7(body) THEN ChunkSeptets ELSE ChunkOctets
  IN IF Len(data) - pos <= room THEN Len(data) - pos
     ELSE IF ~IsGsm7(body) /\ IsHigh(256 * data[pos + room - 1] + data[pos + room])
     THEN room - 2 ELSE room

(* The next part: what there is room for, but for an escape sequence or a    *)
(* surrogate pair that begins at its end.  An escape sequence that would     *)
(* still fit is left for the next part as well.                              *)
NextChunk(pos) ==
  LET data == Encoded(body)
      remaining == Len(data) - pos
      room == IF IsGsm7(body) THEN ChunkSeptets ELSE ChunkOctets
      at(i) == data[pos + i]
  IN IF remaining <= room THEN remaining
     ELSE IF IsGsm7(body)
     THEN IF at(room) = ESC THEN room - 1
          ELSE IF at(room - 1) = ESC THEN room - 2 ELSE room
     ELSE IF IsHigh(256 * at(room - 1) + at(room)) THEN room - 2 ELSE room

-----------------------------------------------------------------------------
(* /send shows how many parts there will be, or that there are too many.     *)
Ask ==
  /\ pc = "asked"
  /\ shown' = CountSmsParts(body)
  /\ pc' = IF shown' = 0 THEN "refused" ELSE "queued"
  /\ UNCHANGED <<body, phone, cuts, pdus, received>>

(* The answer to a forwarded SMS is queued uncounted.                        *)
Reply ==
  /\ pc = "asked"
  /\ pc' = "queued"
  /\ UNCHANGED <<body, phone, shown, cuts, pdus, received>>

Pdu(header, octets, udl) ==
  [address |-> EncodePhone(phone), gsm7 |-> IsGsm7(body), udhi |-> header # <<>>,
   udl |-> udl, ud |-> header \o octets]

SinglePdu ==
  LET data == Encoded(body)
  IN Pdu(<<>>, IF IsGsm7(body) THEN Pack(data, 0) ELSE data, Len(data))

FitsOne ==
  IF IsGsm7(body) THEN Len(Encoded(body)) <= SingleSeptets ELSE Len(Encoded(body)) <= Octets

BuildSingle ==
  /\ pc = "queued" /\ FitsOne
  /\ pdus' = <<SinglePdu>>
  /\ pc' = "built"
  /\ UNCHANGED <<body, phone, shown, cuts, received>>

StartCutting ==
  /\ pc = "queued" /\ ~FitsOne
  /\ pc' = "cutting"
  /\ UNCHANGED <<body, phone, shown, cuts, pdus, received>>

Cut ==
  /\ pc = "cutting" /\ Last(cuts) < Len(Encoded(body))
  /\ cuts' = Append(cuts, Last(cuts) + NextChunk(Last(cuts)))
  /\ UNCHANGED <<body, phone, pc, shown, pdus, received>>

(* The header overwrites the first octets of what was packed behind it.      *)
PartPdu(i, total, ref) ==
  LET chunk == SubSeq(Encoded(body), cuts[i] + 1, cuts[i + 1])
      header == <<5, 0, 3, ref, total, i>>
      packed == Pack(chunk, HeaderBits)
  IN IF IsGsm7(body)
     THEN Pdu(header, SubSeq(packed, HeaderOctets + 1, Len(packed)), 7 + Len(chunk))
     ELSE Pdu(header, chunk, HeaderOctets + Len(chunk))

(* The reference is a counter that wraps at 256.                             *)
BuildParts ==
  /\ pc = "cutting" /\ Last(cuts) = Len(Encoded(body))
  /\ LET total == Len(cuts) - 1
     IN IF total > MaxParts \/ total > 255
        THEN pc' = "bad" /\ UNCHANGED pdus
        ELSE /\ pc' = "built"
             /\ \E ref \in {0, 255} : pdus' = [i \in 1 .. total |-> PartPdu(i, total, ref)]
  /\ UNCHANGED <<body, phone, shown, cuts, received>>

(* parse_sms_pdu: the body begins at the septet after the header.            *)
ParsedContent(pdu) ==
  LET headerBits == IF pdu.udhi THEN (pdu.ud[1] + 1) * 8 ELSE 0
      fill == (7 - (headerBits % 7)) % 7
      start == headerBits + fill
  IN IF ~pdu.gsm7 THEN DecodeOctets(SubSeq(pdu.ud, headerBits \div 8 + 1, pdu.udl))
     ELSE IF pdu.udhi THEN DecodeSeptets(Unpack(pdu.ud, pdu.udl - start \div 7, start))
     ELSE DecodeSeptets(Unpack(pdu.ud, pdu.udl, 0))

Parse(pdu) ==
  [sender |-> DecodeAddress(pdu.address), content |-> ParsedContent(pdu),
   ref |-> IF pdu.udhi THEN pdu.ud[4] ELSE 0,
   total |-> IF pdu.udhi THEN pdu.ud[5] ELSE 1,
   part |-> IF pdu.udhi THEN pdu.ud[6] ELSE 1]

Deliver ==
  /\ pc = "built"
  /\ received' = Append(received, Parse(pdus[Len(received) + 1]))
  /\ pc' = IF Len(received') = Len(pdus) THEN "received" ELSE "built"
  /\ UNCHANGED <<body, phone, shown, cuts, pdus>>

Next == Ask \/ Reply \/ BuildSingle \/ StartCutting \/ Cut \/ BuildParts \/ Deliver

Spec == Init /\ [][Next]_vars

-----------------------------------------------------------------------------
(* Every part is a text of its own whose characters are whole, the parts are *)
(* the text that was sent, in order, numbered under one reference, and the   *)
(* address is the one that was dialled.                                      *)
ArrivesAsWritten ==
  pc = "received" =>
    /\ FlattenSeq([i \in DOMAIN received |-> received[i].content]) = body
    /\ \A i \in DOMAIN received :
         /\ received[i].sender = phone
         /\ received[i].part = i /\ received[i].total = Len(received)
         /\ received[i].ref = received[1].ref

(* No PDU has more user data than a PDU has room for, its length field says  *)
(* what it holds, no message has more parts than the limit, and one that     *)
(* /send showed in so many parts goes out in no fewer; in as many, if it is  *)
(* not GSM-7, where NextChunk may leave room for an escape sequence unused.  *)
PartsFit ==
  /\ Len(pdus) <= MaxParts
  /\ \A i \in DOMAIN pdus :
       /\ Len(pdus[i].ud) <= Octets
       /\ Len(pdus[i].ud) = IF pdus[i].gsm7 THEN (pdus[i].udl * 7 + 7) \div 8 ELSE pdus[i].udl
  /\ shown # 0 /\ pc \in {"built", "received"} =>
       Len(pdus) >= shown /\ (IsGsm7(body) \/ Len(pdus) = shown)
  /\ shown # 0 /\ ~IsGsm7(body) => pc # "bad"
=============================================================================
