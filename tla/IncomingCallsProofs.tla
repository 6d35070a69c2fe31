------------------------ MODULE IncomingCallsProofs ------------------------
(***************************************************************************)
(* Proofs about IncomingCalls and the AT port it uses, for any number of   *)
(* SMS, calls, events and commands and every size of the buffers: answers  *)
(* go to their commands, a direct SMS to its own header, no notice is lost *)
(* uncounted, and no call is notified again once it was hung up.           *)
(***************************************************************************)
EXTENDS IncomingCalls, QueueLemmas

Sources == Stored \cup Direct \cup Calls \cup Events \cup Nat

CallKinds == {"ring", "clip", "gone"}

NoticeKinds == {"cmti", "cmt"} \cup CallKinds

Evictable == {"cgev", "cmti"}

Lines ==
  {l \in [kind : LineKinds, of : Sources] :
     /\ l.kind \in CallKinds => l.of \in Calls
     /\ l.kind = "cmt" => l.of \in Direct
     /\ l.kind = "pdu" => l.of \in Direct \cup Nat
     /\ l.kind \in AnswerKinds \ {"pdu"} => l.of \in Nat}

Ports ==
  [buf : Seq(Lines), header : Lines \cup {NoLine}, old : BOOLEAN, late : BOOLEAN,
   cmgf : BOOLEAN, lost : SUBSET Lines]

SoundPort(p) ==
  /\ p \in Ports
  /\ Len(p.buf) <= MaxUrc
  /\ p.header # NoLine => p.header.kind = "cmt"
  /\ p.old => p.header # NoLine

-----------------------------------------------------------------------------
(* How a buffer may change. *)

CallLine(l) == l.kind \in CallKinds

(* The lines about calls of t are among those of s, in the same order. *)
Embeds(t, s) ==
  \E g \in [DOMAIN t -> Int] :
    \A i \in DOMAIN t :
      CallLine(t[i]) =>
        /\ g[i] \in DOMAIN s /\ s[g[i]] = t[i]
        /\ \A j \in DOMAIN t : CallLine(t[j]) /\ i < j => g[i] < g[j]

(* Every header in the buffer is followed by its own PDU. *)
Paired(b) ==
  \A i \in DOMAIN b :
    b[i].kind = "cmt" => i + 1 \in DOMAIN b /\ b[i + 1] = LineOf("pdu", b[i].of)

HeadStays(b, c) ==
  b # <<>> /\ b[1].kind = "pdu" => c # <<>> /\ c[1] = b[1]

NoEvictable(b) == \A i \in DOMAIN b : b[i].kind \notin Evictable

(* The buffer is thinned out: what went was recoverable. *)
Evicts(p, q) ==
  /\ SoundPort(q)
  /\ q.header = p.header /\ q.old = p.old /\ q.late = p.late /\ q.cmgf = p.cmgf
  /\ Len(q.buf) <= Len(p.buf)
  /\ Embeds(q.buf, p.buf)
  /\ \A l \in ToSet(p.buf) : l.kind \in NoticeKinds => l \in ToSet(q.buf) \cup q.lost
  /\ p.lost \subseteq q.lost
  /\ \A l \in q.lost \ p.lost : l.kind = "cmti"
  /\ HeadStays(p.buf, q.buf)
  /\ Paired(p.buf) => Paired(q.buf)

(* The order of call lines is kept by any number of changes. *)
LEMMA EmbedsRefl ==
  ASSUME NEW S, NEW s \in Seq(S)
  PROVE  Embeds(s, s)
<1> DEFINE g == [i \in DOMAIN s |-> i]
<1>1. g \in [DOMAIN s -> Int]
  OBVIOUS
<1> QED BY <1>1 DEF Embeds

LEMMA EmbedsTrans ==
  ASSUME NEW S, NEW r \in Seq(S), NEW s \in Seq(S), NEW t \in Seq(S),
         Embeds(t, s), Embeds(s, r)
  PROVE  Embeds(t, r)
<1>1. PICK g \in [DOMAIN t -> Int] :
        \A i \in DOMAIN t :
          CallLine(t[i]) =>
            /\ g[i] \in DOMAIN s /\ s[g[i]] = t[i]
            /\ \A j \in DOMAIN t : CallLine(t[j]) /\ i < j => g[i] < g[j]
  BY DEF Embeds
<1>2. PICK h \in [DOMAIN s -> Int] :
        \A i \in DOMAIN s :
          CallLine(s[i]) =>
            /\ h[i] \in DOMAIN r /\ r[h[i]] = s[i]
            /\ \A j \in DOMAIN s : CallLine(s[j]) /\ i < j => h[i] < h[j]
  BY DEF Embeds
<1> DEFINE f == [i \in DOMAIN t |-> IF CallLine(t[i]) THEN h[g[i]] ELSE 0]
<1>3. f \in [DOMAIN t -> Int]
  BY <1>1, <1>2
<1>4. ASSUME NEW i \in DOMAIN t, CallLine(t[i])
      PROVE  /\ f[i] \in DOMAIN r /\ r[f[i]] = t[i]
             /\ \A j \in DOMAIN t : CallLine(t[j]) /\ i < j => f[i] < f[j]
  BY <1>1, <1>2, <1>4
<1> HIDE DEF f
<1> QED BY <1>3, <1>4 DEF Embeds

(* Lines that follow both do not matter. *)
LEMMA EmbedsBefore ==
  ASSUME NEW S, NEW s \in Seq(S), NEW t \in Seq(S), NEW r \in Seq(S), Embeds(t, s)
  PROVE  Embeds(t \o r, s \o r)
<1>1. PICK g \in [DOMAIN t -> Int] :
        \A i \in DOMAIN t :
          CallLine(t[i]) =>
            /\ g[i] \in DOMAIN s /\ s[g[i]] = t[i]
            /\ \A j \in DOMAIN t : CallLine(t[j]) /\ i < j => g[i] < g[j]
  BY DEF Embeds
<1>2. /\ Len(s) \in Nat /\ Len(t) \in Nat /\ Len(r) \in Nat
      /\ DOMAIN s = 1 .. Len(s) /\ DOMAIN t = 1 .. Len(t)
  BY LenProperties
<1>3. /\ DOMAIN (t \o r) = 1 .. Len(t) + Len(r)
      /\ \A i \in 1 .. Len(t) + Len(r) :
           (t \o r)[i] = IF i <= Len(t) THEN t[i] ELSE r[i - Len(t)]
  BY ConcatProperties, LenProperties
<1>4. /\ DOMAIN (s \o r) = 1 .. Len(s) + Len(r)
      /\ \A i \in 1 .. Len(s) + Len(r) :
           (s \o r)[i] = IF i <= Len(s) THEN s[i] ELSE r[i - Len(s)]
  BY ConcatProperties, LenProperties
<1> DEFINE f == [i \in 1 .. Len(t) + Len(r) |->
                   IF i <= Len(t) THEN g[i] ELSE i - Len(t) + Len(s)]
<1>5. f \in [DOMAIN (t \o r) -> Int]
  BY <1>1, <1>2, <1>3
<1>6. ASSUME NEW i \in DOMAIN (t \o r), CallLine((t \o r)[i])
      PROVE  f[i] \in DOMAIN (s \o r) /\ (s \o r)[f[i]] = (t \o r)[i]
  <2>1. CASE i <= Len(t)
    <3>1. g[i] \in 1 .. Len(s) /\ s[g[i]] = t[i]
      BY <1>1, <1>2, <1>3, <1>6, <2>1
    <3> QED BY <1>2, <1>3, <1>4, <2>1, <3>1
  <2>2. CASE i > Len(t)
    BY <1>2, <1>3, <1>4, <2>2
  <2> QED BY <1>2, <1>3, <2>1, <2>2
<1>7. ASSUME NEW i \in DOMAIN (t \o r), NEW j \in DOMAIN (t \o r), i < j,
             CallLine((t \o r)[i]), CallLine((t \o r)[j])
      PROVE  f[i] < f[j]
  <2>1. CASE j <= Len(t)
    BY <1>1, <1>2, <1>3, <1>7, <2>1
  <2>2. CASE i <= Len(t) /\ j > Len(t)
    <3>1. g[i] \in 1 .. Len(s)
      BY <1>1, <1>2, <1>3, <1>7, <2>2
    <3> QED BY <1>2, <1>3, <1>7, <2>2, <3>1
  <2>3. CASE i > Len(t)
    BY <1>2, <1>3, <1>7, <2>3
  <2> QED BY <1>2, <1>3, <2>1, <2>2, <2>3
<1> HIDE DEF f
<1> QED BY <1>5, <1>6, <1>7 DEF Embeds

LEMMA RemovedEmbeds ==
  ASSUME NEW S, NEW s \in Seq(S), NEW i \in 1 .. Len(s), ~CallLine(s[i])
  PROVE  Embeds(RemoveAt(s, i), s)
<1>1. /\ RemoveAt(s, i) \in Seq(S) /\ Len(RemoveAt(s, i)) = Len(s) - 1
      /\ \A j \in 1 .. Len(s) - 1 : RemoveAt(s, i)[j] = IF j < i THEN s[j] ELSE s[j + 1]
  BY RemoveAtProperties
<1>2. Len(s) \in Nat /\ DOMAIN s = 1 .. Len(s) /\ DOMAIN RemoveAt(s, i) = 1 .. Len(s) - 1
  BY <1>1, LenProperties
<1> DEFINE g == [j \in 1 .. Len(s) - 1 |-> IF j < i THEN j ELSE j + 1]
<1>3. g \in [DOMAIN RemoveAt(s, i) -> Int]
  BY <1>2
<1>4. \A j \in 1 .. Len(s) - 1 : g[j] \in DOMAIN s /\ s[g[j]] = RemoveAt(s, i)[j]
  BY <1>1, <1>2
<1>5. \A j, k \in 1 .. Len(s) - 1 : j < k => g[j] < g[k]
  BY <1>2
<1> HIDE DEF g
<1> QED BY <1>2, <1>3, <1>4, <1>5 DEF Embeds

(* A line replaced by one of no call. *)
LEMMA ReplacedEmbeds ==
  ASSUME NEW S, NEW s \in Seq(S), NEW t \in Seq(S), Len(t) = Len(s),
         \A i \in 1 .. Len(s) : t[i] = s[i] \/ ~CallLine(t[i])
  PROVE  Embeds(t, s)
<1>1. DOMAIN s = 1 .. Len(s) /\ DOMAIN t = 1 .. Len(s) /\ Len(s) \in Nat
  BY LenProperties
<1> DEFINE g == [j \in 1 .. Len(s) |-> j]
<1>2. g \in [DOMAIN t -> Int]
  BY <1>1
<1> QED BY <1>1, <1>2 DEF Embeds

LEMMA AppendedEmbeds ==
  ASSUME NEW S, NEW s \in Seq(S), NEW t \in Seq(S), NEW e \in S, Embeds(t, s)
  PROVE  Embeds(Append(t, e), Append(s, e))
<1>1. <<e>> \in Seq(S)
  OBVIOUS
<1>2. Append(t, e) = t \o <<e>> /\ Append(s, e) = s \o <<e>>
  BY AppendIsConcat
<1> QED BY <1>1, <1>2, EmbedsBefore

(* A line that is not kept. *)
LEMMA DroppedEmbeds ==
  ASSUME NEW S, NEW s \in Seq(S), NEW t \in Seq(S), NEW e \in S, Embeds(t, s)
  PROVE  Embeds(t, Append(s, e))
<1>1. /\ Append(s, e) \in Seq(S)
      /\ Len(Append(s, e)) = Len(s) + 1 /\ Len(s) \in Nat
      /\ \A i \in 1 .. Len(s) : Append(s, e)[i] = s[i]
  BY AppendProperties, LenProperties
<1>2. DOMAIN s = 1 .. Len(s) /\ DOMAIN Append(s, e) = 1 .. Len(s) + 1
  BY <1>1, LenProperties
<1> QED BY <1>1, <1>2 DEF Embeds

(* A line of no call that was not there. *)
LEMMA AddedEmbeds ==
  ASSUME NEW S, NEW s \in Seq(S), NEW t \in Seq(S), NEW e \in S, Embeds(t, s), ~CallLine(e)
  PROVE  Embeds(Append(t, e), s)
<1>1. /\ Append(t, e) \in Seq(S)
      /\ Len(Append(t, e)) = Len(t) + 1 /\ Len(t) \in Nat
      /\ \A i \in 1 .. Len(t) : Append(t, e)[i] = t[i]
      /\ Append(t, e)[Len(t) + 1] = e
  BY AppendProperties, LenProperties
<1>2. DOMAIN t = 1 .. Len(t) /\ DOMAIN Append(t, e) = 1 .. Len(t) + 1
  BY <1>1, LenProperties
<1>3. PICK g \in [DOMAIN t -> Int] :
        \A i \in DOMAIN t :
          CallLine(t[i]) =>
            /\ g[i] \in DOMAIN s /\ s[g[i]] = t[i]
            /\ \A j \in DOMAIN t : CallLine(t[j]) /\ i < j => g[i] < g[j]
  BY DEF Embeds
<1> DEFINE f == [i \in 1 .. Len(t) + 1 |-> IF i <= Len(t) THEN g[i] ELSE 0]
<1>4. f \in [DOMAIN Append(t, e) -> Int]
  BY <1>1, <1>2, <1>3
<1>5. ASSUME NEW i \in DOMAIN Append(t, e), CallLine(Append(t, e)[i])
      PROVE  i \in DOMAIN t /\ Append(t, e)[i] = t[i] /\ f[i] = g[i]
  BY <1>1, <1>2, <1>5
<1> HIDE DEF f
<1>6. ASSUME NEW i \in DOMAIN Append(t, e), CallLine(Append(t, e)[i])
      PROVE  /\ f[i] \in DOMAIN s /\ s[f[i]] = Append(t, e)[i]
             /\ \A j \in DOMAIN Append(t, e) :
                  CallLine(Append(t, e)[j]) /\ i < j => f[i] < f[j]
  BY <1>3, <1>5, <1>6
<1> QED BY <1>4, <1>6 DEF Embeds

-----------------------------------------------------------------------------
(* The port's operations. *)

LEMMA SequenceAsSet ==
  ASSUME NEW S, NEW s \in Seq(S)
  PROVE  ToSet(s) = {s[i] : i \in 1 .. Len(s)} /\ ToSet(s) \subseteq S
BY LenProperties, ElementOfSeq DEF ToSet

LEMMA EvictsRefl ==
  ASSUME NEW p, SoundPort(p)
  PROVE  Evicts(p, p)
<1>1. p.buf \in Seq(Lines) /\ Len(p.buf) \in Nat
  BY LenProperties DEF SoundPort, Ports
<1>2. Embeds(p.buf, p.buf)
  BY <1>1, EmbedsRefl
<1> QED BY <1>1, <1>2 DEF Evicts, HeadStays

LEMMA EvictsTrans ==
  ASSUME NEW p, NEW q, NEW r, SoundPort(p), Evicts(p, q), Evicts(q, r)
  PROVE  Evicts(p, r)
<1>1. /\ p.buf \in Seq(Lines) /\ q.buf \in Seq(Lines) /\ r.buf \in Seq(Lines)
      /\ Len(p.buf) \in Nat /\ Len(q.buf) \in Nat /\ Len(r.buf) \in Nat
  BY LenProperties DEF SoundPort, Ports, Evicts
<1>2. Embeds(r.buf, p.buf)
  BY <1>1, EmbedsTrans DEF Evicts
<1>3. \A l \in ToSet(p.buf) : l.kind \in NoticeKinds => l \in ToSet(r.buf) \cup r.lost
  BY DEF Evicts
<1>4. HeadStays(p.buf, r.buf)
  BY DEF Evicts, HeadStays
<1> QED BY <1>1, <1>2, <1>3, <1>4 DEF Evicts

(* Removing what can be recovered, counted if it is a notice. *)
LEMMA RemovalEvicts ==
  ASSUME NEW p, SoundPort(p), NEW i \in 1 .. Len(p.buf), p.buf[i].kind \in Evictable,
         NEW lost \in SUBSET {p.buf[i]}, p.buf[i].kind = "cmti" <=> lost = {p.buf[i]}
  PROVE  LET q == [p EXCEPT !.buf = RemoveAt(p.buf, i), !.lost = p.lost \cup lost]
         IN  Evicts(p, q) /\ Len(q.buf) = Len(p.buf) - 1
<1> DEFINE q == [p EXCEPT !.buf = RemoveAt(p.buf, i), !.lost = p.lost \cup lost]
           b == RemoveAt(p.buf, i)
<1>1. /\ p.buf \in Seq(Lines) /\ Len(p.buf) \in Nat /\ DOMAIN p.buf = 1 .. Len(p.buf)
      /\ p \in Ports /\ MaxUrc \in Nat
  BY LenProperties, AtPortAssumption DEF SoundPort, Ports
<1>2. /\ b \in Seq(Lines) /\ Len(b) = Len(p.buf) - 1
      /\ \A j \in 1 .. Len(p.buf) - 1 : b[j] = IF j < i THEN p.buf[j] ELSE p.buf[j + 1]
  BY <1>1, RemoveAtProperties
<1>3. DOMAIN b = 1 .. Len(p.buf) - 1
  BY <1>1, <1>2, LenProperties
<1>4. Embeds(b, p.buf)
  BY <1>1, RemovedEmbeds DEF CallLine, CallKinds, Evictable
<1>5. p.buf[i] \in Lines
  BY <1>1, ElementOfSeq
<1> HIDE DEF b
<1>6. /\ q.buf = b /\ q.header = p.header /\ q.old = p.old /\ q.late = p.late
      /\ q.cmgf = p.cmgf /\ q.lost = p.lost \cup lost
  BY <1>1 DEF Ports, b
<1>7. q \in Ports
  BY <1>1, <1>2, <1>5 DEF Ports, b
<1> HIDE DEF q
<1>8. SoundPort(q)
  BY <1>1, <1>2, <1>6, <1>7 DEF SoundPort
<1>9. ASSUME NEW l \in ToSet(p.buf), l.kind \in NoticeKinds
      PROVE  l \in ToSet(b) \cup q.lost
  <2>1. PICK k \in 1 .. Len(p.buf) : l = p.buf[k]
    BY <1>1 DEF ToSet
  <2>2. CASE k = i
    BY <1>6, <1>9, <2>1, <2>2 DEF NoticeKinds, CallKinds, Evictable
  <2>3. CASE k < i
    <3>1. k \in 1 .. Len(p.buf) - 1 /\ b[k] = l
      BY <1>1, <1>2, <2>1, <2>3
    <3> QED BY <1>3, <3>1 DEF ToSet
  <2>4. CASE k > i
    <3>1. k - 1 \in 1 .. Len(p.buf) - 1 /\ b[k - 1] = l
      BY <1>1, <1>2, <2>1, <2>4
    <3> QED BY <1>3, <3>1 DEF ToSet
  <2> QED BY <1>1, <2>1, <2>2, <2>3, <2>4
<1>10. HeadStays(p.buf, b)
  <2> SUFFICES ASSUME p.buf # <<>>, p.buf[1].kind = "pdu" PROVE b # <<>> /\ b[1] = p.buf[1]
    BY DEF HeadStays
  <2>1. i > 1
    BY <1>1 DEF Evictable
  <2>2. 1 \in 1 .. Len(p.buf) - 1 /\ b[1] = p.buf[1]
    BY <1>1, <1>2, <2>1
  <2>3. Len(b) # 0
    BY <1>1, <1>2, <2>1
  <2> QED BY <2>2, <2>3, EmptySeq
<1>11. ASSUME Paired(p.buf) PROVE Paired(b)
  <2> SUFFICES ASSUME NEW j \in 1 .. Len(p.buf) - 1, b[j].kind = "cmt"
               PROVE  j + 1 \in 1 .. Len(p.buf) - 1 /\ b[j + 1] = LineOf("pdu", b[j].of)
    BY <1>3 DEF Paired
  <2>1. CASE j < i
    <3>1. b[j] = p.buf[j] /\ j \in DOMAIN p.buf
      BY <1>1, <1>2, <2>1
    <3>2. j + 1 \in DOMAIN p.buf /\ p.buf[j + 1] = LineOf("pdu", b[j].of)
      BY <1>11, <3>1 DEF Paired
    <3>3. j + 1 # i
      BY <3>2 DEF Evictable, LineOf
    <3> QED BY <1>1, <1>2, <2>1, <3>2, <3>3
  <2>2. CASE j >= i
    <3>1. b[j] = p.buf[j + 1] /\ j + 1 \in DOMAIN p.buf
      BY <1>1, <1>2, <2>2
    <3>2. j + 2 \in DOMAIN p.buf /\ p.buf[j + 2] = LineOf("pdu", b[j].of)
      BY <1>1, <1>11, <3>1 DEF Paired
    <3> QED BY <1>1, <1>2, <2>2, <3>2
  <2> QED BY <1>1, <2>1, <2>2
<1>12. \A l \in q.lost \ p.lost : l.kind = "cmti"
  BY <1>6
<1>13. Len(q.buf) = Len(p.buf) - 1 /\ Len(q.buf) <= Len(p.buf)
  BY <1>1, <1>2, <1>6
<1>14. Evicts(p, q)
  BY <1>4, <1>6, <1>8, <1>9, <1>10, <1>11, <1>12, <1>13 DEF Evicts
<1> QED BY <1>13, <1>14 DEF q

LEMMA EvictOneEffect ==
  ASSUME NEW p, SoundPort(p)
  PROVE  /\ Evicts(p, EvictOne(p))
         /\ \/ Len(EvictOne(p).buf) = Len(p.buf) - 1
            \/ EvictOne(p) = p /\ NoEvictable(p.buf)
<1> DEFINE at(kind) == {i \in DOMAIN p.buf : p.buf[i].kind = kind}
<1>1. /\ p.buf \in Seq(Lines) /\ Len(p.buf) \in Nat /\ DOMAIN p.buf = 1 .. Len(p.buf)
      /\ p \in Ports /\ p.lost \subseteq Lines
  BY LenProperties DEF SoundPort, Ports
<1>2. CASE at("cgev") # {}
  <2> DEFINE i == Min(at("cgev"))
  <2>0. at("cgev") \subseteq Nat
    BY <1>1
  <2>1. i \in at("cgev")
    BY <1>2, <2>0, MinInSet
  <2>2. i \in 1 .. Len(p.buf) /\ p.buf[i].kind = "cgev"
    BY <1>1, <2>1
  <2>3. EvictOne(p) = [p EXCEPT !.buf = RemoveAt(p.buf, i)]
    BY <1>2 DEF EvictOne
  <2> HIDE DEF i
  <2>4. [p EXCEPT !.buf = RemoveAt(p.buf, i)]
          = [p EXCEPT !.buf = RemoveAt(p.buf, i), !.lost = p.lost \cup {}]
    BY <1>1 DEF Ports
  <2>5. /\ {} \in SUBSET {p.buf[i]} /\ p.buf[i].kind \in Evictable
        /\ (p.buf[i].kind = "cmti" <=> {} = {p.buf[i]})
    BY <2>2 DEF Evictable
  <2>6. LET q == [p EXCEPT !.buf = RemoveAt(p.buf, i), !.lost = p.lost \cup {}]
        IN  Evicts(p, q) /\ Len(q.buf) = Len(p.buf) - 1
    BY <2>2, <2>5, RemovalEvicts
  <2> QED BY <2>3, <2>4, <2>6
<1>3. CASE at("cgev") = {} /\ at("cmti") # {}
  <2> DEFINE i == Min(at("cmti"))
  <2>0. at("cmti") \subseteq Nat
    BY <1>1
  <2>1. i \in at("cmti")
    BY <1>3, <2>0, MinInSet
  <2>2. i \in 1 .. Len(p.buf) /\ p.buf[i].kind = "cmti"
    BY <1>1, <2>1
  <2>3. EvictOne(p) = [p EXCEPT !.buf = RemoveAt(p.buf, i), !.lost = p.lost \cup {p.buf[i]}]
    BY <1>3 DEF EvictOne
  <2> HIDE DEF i
  <2>5. p.buf[i].kind \in Evictable
    BY <2>2 DEF Evictable
  <2>6. LET q == [p EXCEPT !.buf = RemoveAt(p.buf, i), !.lost = p.lost \cup {p.buf[i]}]
        IN  Evicts(p, q) /\ Len(q.buf) = Len(p.buf) - 1
    BY <2>2, <2>5, RemovalEvicts
  <2> QED BY <2>3, <2>6
<1>4. CASE at("cgev") = {} /\ at("cmti") = {}
  <2>1. EvictOne(p) = p
    BY <1>4 DEF EvictOne
  <2>2. NoEvictable(p.buf)
    BY <1>4 DEF NoEvictable, Evictable
  <2> QED BY <2>1, <2>2, EvictsRefl
<1> QED BY <1>2, <1>3, <1>4

(* Room is made, or there is nothing left to evict. *)
LEMMA ReserveEffect ==
  ASSUME NEW p, SoundPort(p), NEW slots \in {1, 2}
  PROVE  /\ Evicts(p, ReserveUrcSlots(p, slots))
         /\ \/ Len(ReserveUrcSlots(p, slots).buf) + slots <= MaxUrc
            \/ NoEvictable(ReserveUrcSlots(p, slots).buf)
<1>1. MaxUrc \in Nat
  BY AtPortAssumption
<1>2. ASSUME NEW r, SoundPort(r), NEW s \in {1, 2}
      PROVE  /\ Evicts(r, MakeRoom(r, s)) /\ Len(r.buf) \in Nat /\ Len(r.buf) <= MaxUrc
             /\ \/ Len(MakeRoom(r, s).buf) + s <= MaxUrc
                \/ MakeRoom(r, s) = EvictOne(r) /\ Len(EvictOne(r).buf) = Len(r.buf) - 1
                \/ MakeRoom(r, s) = r /\ NoEvictable(r.buf)
  <2>1. Len(r.buf) \in Nat /\ Len(r.buf) <= MaxUrc
    BY <1>2, LenProperties DEF SoundPort, Ports
  <2>2. CASE Len(r.buf) + s <= MaxUrc
    BY <1>2, <2>1, <2>2, EvictsRefl DEF MakeRoom
  <2>3. CASE ~(Len(r.buf) + s <= MaxUrc)
    BY <1>2, <2>1, <2>3, EvictOneEffect DEF MakeRoom
  <2> QED BY <2>2, <2>3
<1>3. CASE slots = 1
  BY <1>1, <1>2, <1>3 DEF ReserveUrcSlots
<1>4. CASE slots = 2
  <2> DEFINE q == MakeRoom(p, 2)
  <2>1. Evicts(p, q) /\ SoundPort(q)
    BY <1>2 DEF Evicts
  <2>2. Evicts(q, MakeRoom(q, 2))
    BY <1>2, <2>1
  <2>3. ReserveUrcSlots(p, 2) = MakeRoom(q, 2)
    BY DEF ReserveUrcSlots
  <2>4. Evicts(p, MakeRoom(q, 2))
    BY <2>1, <2>2, EvictsTrans
  <2>5. Len(MakeRoom(q, 2).buf) + 2 <= MaxUrc \/ NoEvictable(MakeRoom(q, 2).buf)
    <3>1. /\ Len(p.buf) \in Nat /\ Len(p.buf) <= MaxUrc
          /\ \/ Len(q.buf) + 2 <= MaxUrc
             \/ Len(q.buf) = Len(p.buf) - 1
             \/ NoEvictable(q.buf)
      BY <1>2
    <3>2. /\ Len(q.buf) \in Nat /\ Len(MakeRoom(q, 2).buf) \in Nat
          /\ Len(MakeRoom(q, 2).buf) <= Len(q.buf)
      BY <1>2, <2>1, <2>2, LenProperties DEF Evicts, SoundPort, Ports
    <3>3. \/ Len(MakeRoom(q, 2).buf) + 2 <= MaxUrc
          \/ Len(MakeRoom(q, 2).buf) = Len(q.buf) - 1
          \/ MakeRoom(q, 2) = q /\ NoEvictable(q.buf)
      BY <1>2, <2>1
    <3>4. CASE NoEvictable(q.buf) /\ Len(q.buf) + 2 > MaxUrc
      <4>1. MakeRoom(q, 2) = EvictOne(q)
        BY <1>1, <3>2, <3>4 DEF MakeRoom
      <4>2. EvictOne(q) = q
        BY <3>4 DEF EvictOne, NoEvictable, Evictable
      <4> QED BY <3>4, <4>1, <4>2
    <3> HIDE DEF q
    <3> QED BY <1>1, <3>1, <3>2, <3>3, <3>4
  <2> QED BY <1>4, <2>3, <2>4, <2>5
<1> QED BY <1>3, <1>4

Notice(l) == l.kind \in NoticeKinds

(* A line that does not belong to the header that waits. *)
HeaderMatches(p, line) ==
  p.header # NoLine /\ ~p.old /\ line.kind = "pdu" => line = LineOf("pdu", p.header.of)

FlagsKept(p, q) == q.late = p.late /\ q.cmgf = p.cmgf

HeaderAfter(p, q, line) ==
  /\ line.kind = "cmt" => q.header = line /\ ~q.old
  /\ line.kind \in {"pdu", "noise"} => q.header = NoLine
  /\ line.kind \notin {"cmt", "pdu", "noise"} => q.header = p.header \/ (p.old /\ q.header = NoLine)
  /\ q.old => p.old /\ q.header = p.header

LosesLate(p, q) ==
  \A l \in q.lost \ p.lost : CallLine(l) => NoEvictable(q.buf)

(* The line is put at the end of the buffer, or dropped and counted. *)
Pushes(p, q, line) ==
  /\ SoundPort(q)
  /\ FlagsKept(p, q)
  /\ Embeds(q.buf, Append(p.buf, line))
  /\ \A l \in ToSet(p.buf) : Notice(l) => l \in ToSet(q.buf) \cup q.lost
  /\ p.lost \subseteq q.lost
  /\ LosesLate(p, q)
  /\ HeadStays(p.buf, q.buf)

(* What the port may make of a line that it reads. *)
Reads(p, q, line) ==
  /\ SoundPort(q)
  /\ Embeds(q.buf, Append(p.buf, line))
  /\ HeaderAfter(p, q, line)
  /\ \A l \in ToSet(p.buf) \cup {p.header, line} :
       l # NoLine /\ Notice(l) => l \in ToSet(q.buf) \cup q.lost \cup {q.header}
  /\ p.lost \subseteq q.lost
  /\ LosesLate(p, q)
  /\ HeadStays(p.buf, q.buf)
  /\ HeaderMatches(p, line) /\ Paired(p.buf) => Paired(q.buf)

LEMMA DropEffect ==
  ASSUME NEW p, SoundPort(p)
  PROVE  LET q == DropHeader(p)
         IN  /\ SoundPort(q) /\ q.buf = p.buf /\ FlagsKept(p, q)
             /\ q.header = NoLine /\ ~q.old
             /\ q.lost = p.lost \cup (IF p.header = NoLine THEN {} ELSE {p.header})
<1>1. CASE p.header = NoLine
  BY <1>1 DEF DropHeader, SoundPort, FlagsKept, Ports
<1>2. CASE p.header # NoLine
  BY <1>2 DEF DropHeader, SoundPort, FlagsKept, Ports
<1> QED BY <1>1, <1>2

LEMMA ExpireEffect ==
  ASSUME NEW p, SoundPort(p)
  PROVE  LET q == ExpireHeader(p)
         IN  /\ SoundPort(q) /\ q.buf = p.buf /\ FlagsKept(p, q) /\ ~q.old
             /\ q.header = (IF p.old THEN NoLine ELSE p.header)
             /\ q.lost = p.lost \cup (IF p.old THEN {p.header} ELSE {})
<1>1. CASE p.old
  BY <1>1, DropEffect DEF ExpireHeader, SoundPort
<1>2. CASE ~p.old
  BY <1>2 DEF ExpireHeader, FlagsKept, SoundPort, Ports
<1> QED BY <1>1, <1>2 DEF SoundPort, Ports

(* Appending to the buffer. *)
LEMMA AppendedSound ==
  ASSUME NEW p, SoundPort(p), Len(p.buf) + 1 <= MaxUrc, NEW line \in Lines
  PROVE  LET q == [p EXCEPT !.buf = Append(p.buf, line)]
         IN  /\ SoundPort(q) /\ FlagsKept(p, q) /\ q.header = p.header /\ q.old = p.old
             /\ q.lost = p.lost /\ q.buf = Append(p.buf, line)
             /\ Len(q.buf) = Len(p.buf) + 1
             /\ ToSet(q.buf) = ToSet(p.buf) \cup {line}
             /\ HeadStays(p.buf, q.buf)
             /\ Paired(p.buf) /\ line.kind # "cmt" => Paired(q.buf)
<1> DEFINE q == [p EXCEPT !.buf = Append(p.buf, line)]
           b == Append(p.buf, line)
<1>1. p.buf \in Seq(Lines) /\ Len(p.buf) \in Nat /\ DOMAIN p.buf = 1 .. Len(p.buf) /\ p \in Ports
  BY LenProperties DEF SoundPort, Ports
<1>2. /\ b \in Seq(Lines) /\ b # <<>> /\ Len(b) = Len(p.buf) + 1
      /\ \A i \in 1 .. Len(p.buf) : b[i] = p.buf[i]
      /\ b[Len(p.buf) + 1] = line
  BY <1>1, AppendProperties
<1>3. DOMAIN b = 1 .. Len(p.buf) + 1
  BY <1>1, <1>2, LenProperties
<1> HIDE DEF b
<1>4. /\ q.buf = b /\ FlagsKept(p, q) /\ q.header = p.header /\ q.old = p.old /\ q.lost = p.lost
      /\ q \in Ports
  BY <1>1, <1>2 DEF Ports, FlagsKept, b
<1> HIDE DEF q
<1>5. SoundPort(q)
  BY <1>1, <1>2, <1>4 DEF SoundPort
<1>6. ToSet(b) = ToSet(p.buf) \cup {line}
  BY <1>1, <1>2, <1>3 DEF ToSet
<1>7. HeadStays(p.buf, b)
  <2> SUFFICES ASSUME p.buf # <<>> PROVE b[1] = p.buf[1]
    BY <1>2 DEF HeadStays
  <2>1. Len(p.buf) # 0
    BY <1>1, EmptySeq
  <2> QED BY <1>1, <1>2, <2>1
<1>8. ASSUME Paired(p.buf), line.kind # "cmt" PROVE Paired(b)
  <2> SUFFICES ASSUME NEW i \in 1 .. Len(p.buf) + 1, b[i].kind = "cmt"
               PROVE  i + 1 \in 1 .. Len(p.buf) + 1 /\ b[i + 1] = LineOf("pdu", b[i].of)
    BY <1>3 DEF Paired
  <2>1. i \in 1 .. Len(p.buf) /\ b[i] = p.buf[i]
    BY <1>1, <1>2, <1>8
  <2>2. i + 1 \in DOMAIN p.buf /\ p.buf[i + 1] = LineOf("pdu", b[i].of)
    BY <1>1, <1>8, <2>1 DEF Paired
  <2> QED BY <1>1, <1>2, <2>2
<1> QED BY <1>2, <1>4, <1>5, <1>6, <1>7, <1>8 DEF q, b

LEMMA PushOne ==
  ASSUME NEW p, SoundPort(p), NEW line \in Lines
  PROVE  LET q == PushUrcs(p, <<line>>)
         IN  /\ Pushes(p, q, line) /\ q.header = p.header /\ q.old = p.old
             /\ line \in ToSet(q.buf) \cup q.lost
             /\ Paired(p.buf) /\ line.kind # "cmt" => Paired(q.buf)
<1> DEFINE r == ReserveUrcSlots(p, 1)
           q == PushUrcs(p, <<line>>)
<1>0. Len(<<line>>) = 1 /\ <<line>>[1] = line
  OBVIOUS
<1>1. /\ Evicts(p, r)
      /\ Len(r.buf) + 1 <= MaxUrc \/ NoEvictable(r.buf)
  BY ReserveEffect
<1> HIDE DEF r
<1>2. /\ SoundPort(r) /\ r \in Ports /\ r.buf \in Seq(Lines) /\ p.buf \in Seq(Lines)
      /\ p \in Ports /\ p.lost \subseteq Lines /\ r.lost \subseteq Lines
  BY <1>1 DEF Evicts, SoundPort, Ports
<1>3. CASE Len(r.buf) + 1 <= MaxUrc
  <2> DEFINE s == [r EXCEPT !.buf = Append(r.buf, line)]
  <2>1. r.buf \o <<line>> = Append(r.buf, line)
    BY <1>2, AppendIsConcat
  <2>2. q = s
    BY <1>0, <1>3, <2>1 DEF PushUrcs, r
  <2>3. /\ SoundPort(s) /\ FlagsKept(r, s) /\ s.header = r.header /\ s.old = r.old
        /\ s.lost = r.lost /\ s.buf = Append(r.buf, line)
        /\ ToSet(s.buf) = ToSet(r.buf) \cup {line}
        /\ HeadStays(r.buf, s.buf)
        /\ Paired(r.buf) /\ line.kind # "cmt" => Paired(s.buf)
    BY <1>2, <1>3, AppendedSound
  <2> HIDE DEF s, q
  <2>4. Embeds(s.buf, Append(p.buf, line))
    BY <1>1, <1>2, <2>3, AppendedEmbeds DEF Evicts
  <2>5. LosesLate(p, s)
    BY <1>1, <2>3 DEF LosesLate, Evicts, CallLine, CallKinds
  <2>6. HeadStays(p.buf, s.buf)
    BY <1>1, <2>3 DEF Evicts, HeadStays
  <2>7. FlagsKept(p, s) /\ s.header = p.header /\ s.old = p.old /\ p.lost \subseteq s.lost
    BY <1>1, <2>3 DEF Evicts, FlagsKept
  <2>8. \A l \in ToSet(p.buf) : Notice(l) => l \in ToSet(s.buf) \cup s.lost
    BY <1>1, <2>3 DEF Evicts, Notice
  <2>9. Pushes(p, s, line)
    BY <2>3, <2>4, <2>5, <2>6, <2>7, <2>8 DEF Pushes
  <2>10. Paired(p.buf) /\ line.kind # "cmt" => Paired(s.buf)
    BY <1>1, <2>3 DEF Evicts
  <2> QED BY <2>2, <2>3, <2>7, <2>9, <2>10 DEF q
<1>4. CASE ~(Len(r.buf) + 1 <= MaxUrc)
  <2> DEFINE s == [r EXCEPT !.lost = r.lost \cup {line}]
  <2>2. q = s
    BY <1>0, <1>4 DEF PushUrcs, r
  <2>3. /\ s.buf = r.buf /\ s.lost = r.lost \cup {line} /\ s.header = r.header /\ s.old = r.old
        /\ FlagsKept(r, s) /\ SoundPort(s)
    BY <1>2 DEF Ports, SoundPort, FlagsKept
  <2> HIDE DEF s, q
  <2>4. Embeds(s.buf, Append(p.buf, line))
    BY <1>1, <1>2, <2>3, DroppedEmbeds DEF Evicts
  <2>5. LosesLate(p, s)
    BY <1>1, <1>4, <2>3 DEF LosesLate, Evicts, CallLine, CallKinds
  <2>7. FlagsKept(p, s) /\ s.header = p.header /\ s.old = p.old /\ p.lost \subseteq s.lost
    BY <1>1, <2>3 DEF Evicts, FlagsKept
  <2>8. \A l \in ToSet(p.buf) : Notice(l) => l \in ToSet(s.buf) \cup s.lost
    BY <1>1, <2>3 DEF Evicts, Notice
  <2>9. Pushes(p, s, line)
    BY <1>1, <2>3, <2>4, <2>5, <2>7, <2>8 DEF Pushes, Evicts
  <2>10. Paired(p.buf) => Paired(s.buf)
    BY <1>1, <2>3 DEF Evicts
  <2> QED BY <2>2, <2>3, <2>7, <2>9, <2>10 DEF q
<1> QED BY <1>3, <1>4

(* A header and its PDU are queued together or dropped together. *)
LEMMA PushPair ==
  ASSUME NEW p, SoundPort(p), NEW h \in Lines, NEW line \in Lines,
         h.kind = "cmt", line.kind = "pdu"
  PROVE  LET q == PushUrcs(p, <<h, line>>)
         IN  /\ Pushes(p, q, line) /\ q.header = p.header /\ q.old = p.old
             /\ h \in ToSet(q.buf) \cup q.lost
             /\ Paired(p.buf) /\ line = LineOf("pdu", h.of) => Paired(q.buf)
<1> DEFINE r == ReserveUrcSlots(p, 2)
           q == PushUrcs(p, <<h, line>>)
<1>0. Len(<<h, line>>) = 2 /\ <<h, line>>[1] = h /\ <<h, line>>[2] = line
      /\ <<h, line>> \in Seq(Lines)
  OBVIOUS
<1>1. /\ Evicts(p, r)
      /\ Len(r.buf) + 2 <= MaxUrc \/ NoEvictable(r.buf)
  BY ReserveEffect
<1> HIDE DEF r
<1>2. /\ SoundPort(r) /\ r \in Ports /\ r.buf \in Seq(Lines) /\ p.buf \in Seq(Lines)
      /\ p \in Ports /\ p.lost \subseteq Lines /\ r.lost \subseteq Lines
      /\ Len(r.buf) \in Nat
  BY <1>1, LenProperties DEF Evicts, SoundPort, Ports
<1>3. CASE Len(r.buf) + 2 <= MaxUrc
  <2> DEFINE b == r.buf \o <<h, line>>
             s == [r EXCEPT !.buf = b]
  <2>1. /\ b \in Seq(Lines) /\ Len(b) = Len(r.buf) + 2
        /\ \A i \in 1 .. Len(r.buf) + 2 :
             b[i] = IF i <= Len(r.buf) THEN r.buf[i] ELSE <<h, line>>[i - Len(r.buf)]
    BY <1>0, <1>2, ConcatProperties
  <2>2. /\ DOMAIN b = 1 .. Len(r.buf) + 2 /\ DOMAIN r.buf = 1 .. Len(r.buf)
        /\ \A i \in 1 .. Len(r.buf) : b[i] = r.buf[i]
        /\ b[Len(r.buf) + 1] = h /\ b[Len(r.buf) + 2] = line
    BY <1>0, <1>2, <2>1, LenProperties
  <2>3. b = Append(Append(r.buf, h), line)
    <3>0. <<h>> \in Seq(Lines) /\ <<line>> \in Seq(Lines)
      OBVIOUS
    <3>1. <<h, line>> = <<h>> \o <<line>>
      <4>1. /\ <<h>> \o <<line>> \in Seq(Lines) /\ Len(<<h>> \o <<line>>) = 2
            /\ \A i \in 1 .. 2 :
                 (<<h>> \o <<line>>)[i] = IF i <= 1 THEN <<h>>[i] ELSE <<line>>[i - 1]
        BY <3>0, ConcatProperties
      <4>2. (<<h>> \o <<line>>)[1] = h /\ (<<h>> \o <<line>>)[2] = line
        BY <4>1
      <4>3. \A i \in 1 .. 2 : <<h, line>>[i] = (<<h>> \o <<line>>)[i]
        BY <1>0, <4>2
      <4> QED BY <1>0, <4>1, <4>3, SeqEqual
    <3>2. Append(r.buf, h) \in Seq(Lines)
      BY <1>2, AppendProperties
    <3>3. Append(Append(r.buf, h), line) = (r.buf \o <<h>>) \o <<line>>
      BY <1>2, <3>2, AppendIsConcat
    <3> QED BY <1>2, <3>0, <3>1, <3>3, ConcatAssociative
  <2> HIDE DEF b
  <2>4. q = s
    BY <1>0, <1>3 DEF PushUrcs, r, b
  <2>5. /\ s.buf = b /\ s.lost = r.lost /\ s.header = r.header /\ s.old = r.old
        /\ FlagsKept(r, s) /\ SoundPort(s)
    BY <1>2, <1>3, <2>1 DEF Ports, SoundPort, FlagsKept
  <2> HIDE DEF s, q
  <2>6. Embeds(b, Append(p.buf, line))
    <3>1. Embeds(Append(r.buf, h), p.buf)
      BY <1>1, <1>2, AddedEmbeds DEF Evicts, CallLine, CallKinds
    <3>2. Append(r.buf, h) \in Seq(Lines)
      BY <1>2, AppendProperties
    <3> QED BY <1>2, <2>3, <3>1, <3>2, AppendedEmbeds
  <2>7. LosesLate(p, s)
    BY <1>1, <2>5 DEF LosesLate, Evicts, CallLine, CallKinds
  <2>8. HeadStays(p.buf, s.buf)
    <3> SUFFICES ASSUME p.buf # <<>>, p.buf[1].kind = "pdu" PROVE b # <<>> /\ b[1] = p.buf[1]
      BY <2>5 DEF HeadStays
    <3>1. r.buf # <<>> /\ r.buf[1] = p.buf[1]
      BY <1>1 DEF Evicts, HeadStays
    <3>2. Len(r.buf) # 0
      BY <1>2, <3>1, EmptySeq
    <3>3. Len(b) # 0 /\ b[1] = r.buf[1]
      BY <1>2, <2>1, <2>2, <3>2
    <3> QED BY <3>1, <3>3, EmptySeq
  <2>9. FlagsKept(p, s) /\ s.header = p.header /\ s.old = p.old /\ p.lost \subseteq s.lost
    BY <1>1, <2>5 DEF Evicts, FlagsKept
  <2>10. ToSet(r.buf) \subseteq ToSet(b) /\ h \in ToSet(b)
    BY <1>2, <2>2 DEF ToSet
  <2>11. \A l \in ToSet(p.buf) : Notice(l) => l \in ToSet(s.buf) \cup s.lost
    BY <1>1, <2>5, <2>10 DEF Evicts, Notice
  <2>12. ASSUME Paired(p.buf), line = LineOf("pdu", h.of) PROVE Paired(b)
    <3>1. Paired(r.buf)
      BY <1>1, <2>12 DEF Evicts
    <3> SUFFICES ASSUME NEW i \in 1 .. Len(r.buf) + 2, b[i].kind = "cmt"
                 PROVE  i + 1 \in 1 .. Len(r.buf) + 2 /\ b[i + 1] = LineOf("pdu", b[i].of)
      BY <2>2 DEF Paired
    <3>2. CASE i <= Len(r.buf)
      <4>1. i \in DOMAIN r.buf /\ b[i] = r.buf[i]
        BY <1>2, <2>2, <3>2
      <4>2. i + 1 \in DOMAIN r.buf /\ r.buf[i + 1] = LineOf("pdu", b[i].of)
        BY <3>1, <4>1 DEF Paired
      <4> QED BY <1>2, <2>2, <4>2
    <3>3. CASE i = Len(r.buf) + 1
      BY <1>2, <2>2, <2>12, <3>3
    <3>4. CASE i = Len(r.buf) + 2
      BY <2>2, <3>4
    <3> QED BY <1>2, <3>2, <3>3, <3>4
  <2>13. Pushes(p, s, line)
    BY <2>5, <2>6, <2>7, <2>8, <2>9, <2>11 DEF Pushes
  <2> QED BY <2>4, <2>5, <2>9, <2>10, <2>12, <2>13 DEF q
<1>4. CASE ~(Len(r.buf) + 2 <= MaxUrc)
  <2> DEFINE s == [r EXCEPT !.lost = r.lost \cup {h}]
  <2>2. q = s
    BY <1>0, <1>4 DEF PushUrcs, r
  <2>3. /\ s.buf = r.buf /\ s.lost = r.lost \cup {h} /\ s.header = r.header /\ s.old = r.old
        /\ FlagsKept(r, s) /\ SoundPort(s)
    BY <1>2 DEF Ports, SoundPort, FlagsKept
  <2> HIDE DEF s, q
  <2>4. Embeds(s.buf, Append(p.buf, line))
    BY <1>1, <1>2, <2>3, DroppedEmbeds DEF Evicts
  <2>5. LosesLate(p, s)
    BY <1>1, <2>3 DEF LosesLate, Evicts, CallLine, CallKinds
  <2>7. FlagsKept(p, s) /\ s.header = p.header /\ s.old = p.old /\ p.lost \subseteq s.lost
    BY <1>1, <2>3 DEF Evicts, FlagsKept
  <2>8. \A l \in ToSet(p.buf) : Notice(l) => l \in ToSet(s.buf) \cup s.lost
    BY <1>1, <2>3 DEF Evicts, Notice
  <2>9. Pushes(p, s, line)
    BY <1>1, <2>3, <2>4, <2>5, <2>7, <2>8 DEF Pushes, Evicts
  <2>10. Paired(p.buf) => Paired(s.buf)
    BY <1>1, <2>3 DEF Evicts
  <2> QED BY <2>2, <2>3, <2>7, <2>9, <2>10 DEF q
<1> QED BY <1>3, <1>4

LEMMA QueueCgevEffect ==
  ASSUME NEW p, SoundPort(p), NEW line \in Lines, line.kind = "cgev"
  PROVE  LET q == QueueCgev(p, line)
         IN  /\ Pushes(p, q, line) /\ q.header = p.header /\ q.old = p.old
             /\ Paired(p.buf) => Paired(q.buf)
<1> DEFINE q == QueueCgev(p, line)
<1>1. /\ p \in Ports /\ p.buf \in Seq(Lines) /\ p.lost \subseteq Lines /\ Len(p.buf) \in Nat
      /\ DOMAIN p.buf = 1 .. Len(p.buf) /\ Len(p.buf) <= MaxUrc /\ MaxUrc \in Nat
  BY LenProperties, AtPortAssumption DEF SoundPort, Ports
<1>2. Embeds(p.buf, p.buf) /\ Embeds(p.buf, Append(p.buf, line))
  BY <1>1, EmbedsRefl, DroppedEmbeds
<1>3. CASE \E i \in DOMAIN p.buf : p.buf[i].kind = "cgev"
  <2> DEFINE b == [i \in DOMAIN p.buf |-> IF p.buf[i].kind = "cgev" THEN line ELSE p.buf[i]]
             s == [p EXCEPT !.buf = b]
  <2>1. q = s
    BY <1>3 DEF QueueCgev
  <2>2. b \in Seq(Lines) /\ Len(b) = Len(p.buf)
    <3>1. b \in [1 .. Len(p.buf) -> Lines]
      BY <1>1, ElementOfSeq
    <3> QED BY <1>1, <3>1
  <2>3. DOMAIN b = DOMAIN p.buf
    OBVIOUS
  <2>4. \A i \in DOMAIN p.buf : b[i] = IF p.buf[i].kind = "cgev" THEN line ELSE p.buf[i]
    OBVIOUS
  <2> HIDE DEF b
  <2>5. /\ s.buf = b /\ s.lost = p.lost /\ s.header = p.header /\ s.old = p.old
        /\ FlagsKept(p, s) /\ SoundPort(s)
    BY <1>1, <2>2 DEF Ports, SoundPort, FlagsKept
  <2> HIDE DEF s, q
  <2>6. Embeds(b, p.buf)
    BY <1>1, <2>2, <2>4, ReplacedEmbeds DEF CallLine, CallKinds
  <2>7. Embeds(b, Append(p.buf, line))
    BY <1>1, <2>2, <2>6, DroppedEmbeds
  <2>8. \A l \in ToSet(p.buf) : Notice(l) => l \in ToSet(b)
    BY <2>3, <2>4 DEF ToSet, Notice, NoticeKinds, CallKinds
  <2>9. HeadStays(p.buf, b)
    <3> SUFFICES ASSUME p.buf # <<>>, p.buf[1].kind = "pdu" PROVE b # <<>> /\ b[1] = p.buf[1]
      BY DEF HeadStays
    <3>1. Len(p.buf) # 0
      BY <1>1, EmptySeq
    <3> QED BY <1>1, <2>2, <2>4, <3>1, EmptySeq
  <2>10. Paired(p.buf) => Paired(b)
    BY <2>3, <2>4 DEF Paired, LineOf
  <2>11. LosesLate(p, s)
    BY <2>5 DEF LosesLate
  <2> QED BY <2>1, <2>5, <2>7, <2>8, <2>9, <2>10, <2>11 DEF Pushes, q
<1>4. CASE (~ \E i \in DOMAIN p.buf : p.buf[i].kind = "cgev") /\ Len(p.buf) < MaxUrc - 1
  <2> DEFINE s == [p EXCEPT !.buf = Append(p.buf, line)]
  <2>1. q = s
    BY <1>4 DEF QueueCgev
  <2>2. Len(p.buf) + 1 <= MaxUrc
    BY <1>1, <1>4
  <2>3. /\ SoundPort(s) /\ FlagsKept(p, s) /\ s.header = p.header /\ s.old = p.old
        /\ s.lost = p.lost /\ s.buf = Append(p.buf, line)
        /\ ToSet(s.buf) = ToSet(p.buf) \cup {line}
        /\ HeadStays(p.buf, s.buf)
        /\ Paired(p.buf) /\ line.kind # "cmt" => Paired(s.buf)
    BY <2>2, AppendedSound
  <2> HIDE DEF s, q
  <2>4. Embeds(s.buf, Append(p.buf, line))
    BY <1>1, <1>2, <2>3, AppendedEmbeds
  <2>5. LosesLate(p, s)
    BY <2>3 DEF LosesLate
  <2> QED BY <2>1, <2>3, <2>4, <2>5 DEF Pushes, q
<1>5. CASE ~(\E i \in DOMAIN p.buf : p.buf[i].kind = "cgev") /\ ~(Len(p.buf) < MaxUrc - 1)
  <2>1. q = p
    BY <1>5 DEF QueueCgev
  <2> HIDE DEF q
  <2>2. FlagsKept(p, p) /\ LosesLate(p, p) /\ HeadStays(p.buf, p.buf)
    BY DEF FlagsKept, LosesLate, HeadStays
  <2> QED BY <1>2, <2>1, <2>2 DEF Pushes, q
<1> QED BY <1>3, <1>4, <1>5

LEMMA QueueUrcEffect ==
  ASSUME NEW p, SoundPort(p), NEW line \in Lines
  PROVE  LET q == QueueUrc(p, line)
         IN  /\ Pushes(p, q, line) /\ q.header = p.header /\ q.old = p.old
             /\ Notice(line) => line \in ToSet(q.buf) \cup q.lost
             /\ Paired(p.buf) /\ line.kind # "cmt" => Paired(q.buf)
<1>1. CASE line.kind = "cgev"
  BY <1>1, QueueCgevEffect DEF QueueUrc, Notice, NoticeKinds, CallKinds
<1>2. CASE line.kind # "cgev"
  BY <1>2, PushOne DEF QueueUrc
<1> QED BY <1>1, <1>2

(* A line that is read and not kept. *)
LEMMA ExpireReads ==
  ASSUME NEW p, SoundPort(p), NEW line \in Lines, ~Notice(line), line.kind # "noise",
         ~Routed(p, line)
  PROVE  LET q == ExpireHeader(p) IN Reads(p, q, line) /\ FlagsKept(p, q)
<1> DEFINE q == ExpireHeader(p)
<1>1. p.buf \in Seq(Lines) /\ p.header \in Lines \cup {NoLine} /\ p.old \in BOOLEAN
  BY DEF SoundPort, Ports
<1>2. /\ SoundPort(q) /\ q.buf = p.buf /\ FlagsKept(p, q) /\ ~q.old
      /\ q.header = (IF p.old THEN NoLine ELSE p.header)
      /\ q.lost = p.lost \cup (IF p.old THEN {p.header} ELSE {})
  BY ExpireEffect
<1>3. Embeds(q.buf, Append(p.buf, line))
  BY <1>1, <1>2, EmbedsRefl, DroppedEmbeds
<1>4. line.kind = "pdu" => q.header = NoLine
  BY DEF Routed
<1> HIDE DEF q
<1>5. HeaderAfter(p, q, line)
  BY <1>1, <1>2, <1>4 DEF HeaderAfter, Notice, NoticeKinds
<1>6. LosesLate(p, q)
  BY <1>2 DEF LosesLate, SoundPort, CallLine, CallKinds
<1>7. HeadStays(p.buf, q.buf)
  BY <1>2 DEF HeadStays
<1> QED BY <1>1, <1>2, <1>3, <1>5, <1>6, <1>7 DEF Reads, q

(* A line that is kept for later. *)
LEMMA QueueReads ==
  ASSUME NEW p, SoundPort(p), NEW line \in Lines, ~Absorbed(p, line)
  PROVE  LET q == QueueUrc(ExpireHeader(p), line) IN Reads(p, q, line) /\ FlagsKept(p, q)
<1> DEFINE r == ExpireHeader(p)
           q == QueueUrc(r, line)
<1>1. p.buf \in Seq(Lines) /\ p.header \in Lines \cup {NoLine} /\ p.old \in BOOLEAN
  BY DEF SoundPort, Ports
<1>2. /\ SoundPort(r) /\ r.buf = p.buf /\ FlagsKept(p, r) /\ ~r.old
      /\ r.header = (IF p.old THEN NoLine ELSE p.header)
      /\ r.lost = p.lost \cup (IF p.old THEN {p.header} ELSE {})
  BY ExpireEffect
<1>3. /\ line.kind \notin {"cmt", "noise"}
      /\ line.kind = "pdu" => r.header = NoLine
  BY DEF Absorbed, Routed
<1> HIDE DEF r
<1>4. /\ Pushes(r, q, line) /\ q.header = r.header /\ q.old = r.old
      /\ Notice(line) => line \in ToSet(q.buf) \cup q.lost
      /\ Paired(r.buf) /\ line.kind # "cmt" => Paired(q.buf)
  BY <1>2, QueueUrcEffect
<1> HIDE DEF q
<1>5. HeaderAfter(p, q, line)
  BY <1>1, <1>2, <1>3, <1>4 DEF HeaderAfter
<1>6. LosesLate(p, q)
  BY <1>2, <1>4 DEF LosesLate, Pushes, SoundPort, CallLine, CallKinds
<1>7. \A l \in ToSet(p.buf) \cup {p.header, line} :
        l # NoLine /\ Notice(l) => l \in ToSet(q.buf) \cup q.lost \cup {q.header}
  BY <1>2, <1>4 DEF Pushes
<1>8. Paired(p.buf) => Paired(q.buf)
  BY <1>2, <1>3, <1>4
<1> QED BY <1>2, <1>4, <1>5, <1>6, <1>7, <1>8 DEF Pushes, Reads, FlagsKept, q, r

(* A line that belongs to a direct SMS. *)
LEMMA AbsorbReads ==
  ASSUME NEW p, SoundPort(p), NEW line \in Lines, Absorbed(p, line)
  PROVE  LET q == Absorb(p, line) IN Reads(p, q, line) /\ FlagsKept(p, q)
<1> DEFINE r == ExpireHeader(p)
           q == Absorb(p, line)
<1>1. /\ p.buf \in Seq(Lines) /\ p.header \in Lines \cup {NoLine} /\ p.old \in BOOLEAN
      /\ p.old => p.header # NoLine
      /\ p.header # NoLine => p.header.kind = "cmt"
  BY DEF SoundPort, Ports
<1>2. /\ SoundPort(r) /\ r.buf = p.buf /\ FlagsKept(p, r) /\ ~r.old
      /\ r.header = (IF p.old THEN NoLine ELSE p.header)
      /\ r.lost = p.lost \cup (IF p.old THEN {p.header} ELSE {})
  BY ExpireEffect
<1>3. Embeds(p.buf, Append(p.buf, line)) /\ HeadStays(p.buf, p.buf)
  BY <1>1, EmbedsRefl, DroppedEmbeds DEF HeadStays
<1>4. CASE line.kind = "noise"
  <2>1. q = DropHeader(p)
    BY <1>4 DEF Absorb
  <2>2. /\ SoundPort(q) /\ q.buf = p.buf /\ FlagsKept(p, q)
        /\ q.header = NoLine /\ ~q.old
        /\ q.lost = p.lost \cup (IF p.header = NoLine THEN {} ELSE {p.header})
    BY <2>1, DropEffect
  <2> HIDE DEF q
  <2>3. HeaderAfter(p, q, line)
    BY <1>4, <2>2 DEF HeaderAfter
  <2>4. LosesLate(p, q)
    BY <1>1, <2>2 DEF LosesLate, CallLine, CallKinds
  <2>5. ~Notice(line)
    BY <1>4 DEF Notice, NoticeKinds, CallKinds
  <2> QED BY <1>3, <2>2, <2>3, <2>4, <2>5 DEF Reads, q
<1>5. CASE line.kind = "cmt"
  <2> DEFINE d == DropHeader(r)
  <2>1. q = [d EXCEPT !.header = line]
    BY <1>5 DEF Absorb, RouteCmtLine
  <2>2. /\ SoundPort(d) /\ d.buf = p.buf /\ FlagsKept(p, d) /\ ~d.old
        /\ d.lost = p.lost \cup (IF p.header = NoLine THEN {} ELSE {p.header})
    BY <1>1, <1>2, DropEffect DEF FlagsKept
  <2> HIDE DEF d
  <2>3. /\ SoundPort(q) /\ q.buf = p.buf /\ FlagsKept(p, q) /\ ~q.old /\ q.header = line
        /\ q.lost = d.lost
    BY <1>5, <2>1, <2>2 DEF SoundPort, Ports, FlagsKept
  <2> HIDE DEF q
  <2>4. HeaderAfter(p, q, line)
    BY <1>5, <2>3 DEF HeaderAfter
  <2>5. LosesLate(p, q)
    BY <1>1, <2>2, <2>3 DEF LosesLate, CallLine, CallKinds
  <2> QED BY <1>3, <2>2, <2>3, <2>4, <2>5 DEF Reads, q
<1>6. CASE line.kind = "pdu" /\ r.header # NoLine
  <2> DEFINE e == [r EXCEPT !.header = NoLine]
             h == r.header
  <2>0. h = p.header /\ h \in Lines /\ h.kind = "cmt" /\ ~p.old /\ r.lost = p.lost
    BY <1>1, <1>2, <1>6
  <2>1. q = PushUrcs(e, <<h, line>>)
    BY <1>6 DEF Absorb, RouteCmtLine, Routed
  <2>2. /\ SoundPort(e) /\ e.buf = p.buf /\ FlagsKept(p, e) /\ ~e.old /\ e.header = NoLine
        /\ e.lost = p.lost
    BY <1>2, <2>0 DEF SoundPort, Ports, FlagsKept
  <2> HIDE DEF e, h
  <2>3. /\ Pushes(e, q, line) /\ q.header = e.header /\ q.old = e.old
        /\ h \in ToSet(q.buf) \cup q.lost
        /\ Paired(e.buf) /\ line = LineOf("pdu", h.of) => Paired(q.buf)
    BY <1>6, <2>0, <2>1, <2>2, PushPair
  <2> HIDE DEF q
  <2>4. HeaderAfter(p, q, line)
    BY <1>6, <2>2, <2>3 DEF HeaderAfter
  <2>5. LosesLate(p, q)
    BY <2>2, <2>3 DEF LosesLate, Pushes
  <2>6. ~Notice(line)
    BY <1>6 DEF Notice, NoticeKinds, CallKinds
  <2>7. HeaderMatches(p, line) /\ Paired(p.buf) => Paired(q.buf)
    BY <1>6, <1>2, <2>0, <2>2, <2>3 DEF HeaderMatches, h
  <2>8. \A l \in ToSet(p.buf) \cup {p.header, line} :
          l # NoLine /\ Notice(l) => l \in ToSet(q.buf) \cup q.lost \cup {q.header}
    BY <2>0, <2>2, <2>3, <2>6 DEF Pushes
  <2> QED BY <2>2, <2>3, <2>4, <2>5, <2>7, <2>8 DEF Pushes, Reads, FlagsKept, q
<1> QED BY <1>4, <1>5, <1>6 DEF Absorbed, Routed

LEMMA AbsorbOrQueueReads ==
  ASSUME NEW p, SoundPort(p), NEW line \in Lines
  PROVE  LET q == AbsorbOrQueue(p, line) IN Reads(p, q, line) /\ FlagsKept(p, q)
BY AbsorbReads, QueueReads DEF AbsorbOrQueue

(* The flags of the port do not matter to what becomes of a line. *)
LEMMA FlaggedReads ==
  ASSUME NEW p, NEW q, NEW line, Reads(p, q, line), NEW f \in Ports,
         f.buf = q.buf, f.header = q.header, f.old = q.old, f.lost = q.lost
  PROVE  Reads(p, f, line)
<1>1. SoundPort(f)
  BY DEF Reads, SoundPort
<1>2. HeaderAfter(p, f, line) /\ LosesLate(p, f)
  BY DEF Reads, HeaderAfter, LosesLate
<1> QED BY <1>1, <1>2 DEF Reads

Terminal(line) == line.kind \in {"ok", "error"}

LEMMA DiscardReads ==
  ASSUME NEW p, SoundPort(p), NEW line \in Lines
  PROVE  LET q == DiscardStaleResponseLine(p, line)
         IN  /\ Reads(p, q, line) /\ q.cmgf = p.cmgf
             /\ q.late = (p.late /\ ~Terminal(line))
<1> DEFINE q == DiscardStaleResponseLine(p, line)
           r == ExpireHeader(p)
<1>0. p \in Ports /\ p.late \in BOOLEAN /\ p.cmgf \in BOOLEAN
  BY DEF SoundPort, Ports
<1>1. CASE Absorbed(p, line)
  <2>1. ~Terminal(line)
    BY <1>1 DEF Absorbed, Routed, Terminal
  <2> QED BY <1>0, <1>1, <2>1, AbsorbReads DEF DiscardStaleResponseLine, FlagsKept
<1>2. CASE ~Absorbed(p, line) /\ Terminal(line)
  <2>1. ~Notice(line)
    BY <1>2 DEF Terminal, Notice, NoticeKinds, CallKinds
  <2>2. Reads(p, r, line) /\ FlagsKept(p, r)
    BY <1>2, <2>1, ExpireReads DEF Absorbed
  <2>3. q = [r EXCEPT !.late = FALSE]
    BY <1>2 DEF DiscardStaleResponseLine, Terminal
  <2>4. r \in Ports
    BY <2>2 DEF Reads, SoundPort
  <2>5. /\ q \in Ports /\ q.buf = r.buf /\ q.header = r.header /\ q.old = r.old
        /\ q.lost = r.lost /\ q.late = FALSE /\ q.cmgf = r.cmgf
    BY <2>3, <2>4 DEF Ports
  <2> HIDE DEF q, r
  <2>6. Reads(p, q, line) /\ q.late = FALSE /\ q.cmgf = p.cmgf
    BY <2>2, <2>5, FlaggedReads DEF FlagsKept
  <2> QED BY <1>2, <2>6 DEF q
<1>3. CASE ~Absorbed(p, line) /\ ~Terminal(line) /\ line.kind \in UrcKinds
  BY <1>0, <1>3, QueueReads DEF DiscardStaleResponseLine, FlagsKept, Terminal
<1>4. CASE ~Absorbed(p, line) /\ ~Terminal(line) /\ line.kind \notin UrcKinds
  <2>1. ~Notice(line)
    BY <1>4 DEF UrcKinds, Notice, NoticeKinds, CallKinds
  <2>2. Reads(p, r, line) /\ FlagsKept(p, r)
    BY <1>4, <2>1, ExpireReads DEF Absorbed
  <2> QED BY <1>0, <1>4, <2>2 DEF DiscardStaleResponseLine, FlagsKept, Terminal
<1> QED BY <1>1, <1>2, <1>3, <1>4

(* poll_urc looks at the age of the header before it reads. *)
LEMMA ExpiredReads ==
  ASSUME NEW p, SoundPort(p), NEW line \in Lines, NEW q, Reads(ExpireHeader(p), q, line)
  PROVE  Reads(p, q, line)
<1> DEFINE r == ExpireHeader(p)
<1>1. /\ p.buf \in Seq(Lines) /\ p.header \in Lines \cup {NoLine} /\ p.old \in BOOLEAN
      /\ p.old => p.header # NoLine
      /\ p.header # NoLine => p.header.kind = "cmt"
  BY DEF SoundPort, Ports
<1>2. /\ SoundPort(r) /\ r.buf = p.buf /\ ~r.old
      /\ r.header = (IF p.old THEN NoLine ELSE p.header)
      /\ r.lost = p.lost \cup (IF p.old THEN {p.header} ELSE {})
  BY ExpireEffect
<1> HIDE DEF r
<1>3. Reads(r, q, line)
  BY DEF r
<1>4. HeaderAfter(p, q, line)
  BY <1>1, <1>2, <1>3 DEF Reads, HeaderAfter
<1>5. LosesLate(p, q)
  BY <1>1, <1>2, <1>3 DEF Reads, LosesLate, CallLine, CallKinds
<1>6. HeaderMatches(p, line) => HeaderMatches(r, line)
  BY <1>2 DEF HeaderMatches
<1> QED BY <1>1, <1>2, <1>3, <1>4, <1>5, <1>6 DEF Reads

(* The prompt is read by itself. *)
LEMMA PromptReads ==
  ASSUME NEW p, SoundPort(p), NEW line \in Lines, line.kind = "prompt"
  PROVE  Reads(p, p, line)
<1>1. p.buf \in Seq(Lines)
  BY DEF SoundPort, Ports
<1>2. Embeds(p.buf, Append(p.buf, line))
  BY <1>1, EmbedsRefl, DroppedEmbeds
<1>3. HeaderAfter(p, p, line) /\ LosesLate(p, p) /\ HeadStays(p.buf, p.buf) /\ ~Notice(line)
  BY DEF HeaderAfter, LosesLate, HeadStays, Notice, NoticeKinds, CallKinds
<1> QED BY <1>2, <1>3 DEF Reads

-----------------------------------------------------------------------------
(* Types. *)

Ops ==
  [state : {"idle", "sync", "probe", "collect", "prompt", "done"}, cmd : Commands, n : Nat,
   marker : BOOLEAN, got : SUBSET Sources,
   result : {"none", "ok", "error", "interrupted", "timeout", "notready"}]

Jobs ==
  [n : Nat, cmd : Commands \cup {"cmgf"}, said : BOOLEAN, given : {"nothing", "text", "escape"}]

PortTypes ==
  /\ SoundPort(port)
  /\ op \in Ops
  /\ wire \in Seq(Lines)
  /\ jobs \in Seq(Jobs)
  /\ issued \in Nat

NetworkTypes ==
  /\ ringing \in [call : Calls \cup {Nobody}, rings : Nat, clip : BOOLEAN, over : BOOLEAN]
  /\ ringing.call = Nobody => ringing = NoRing
  /\ owed \in Direct \cup {Nobody}
  /\ arrived \subseteq Lines

Handlers == [state : {"idle", "ringing", "cooldown"}, call : Calls \cup {Nobody}, due : BOOLEAN]

LoopTypes ==
  /\ pc \in {"poll", "tick", "work"} /\ caller \in {"poll", "work"}
  /\ room \in 0 .. LinesPerPass
  /\ expected \in Lines \cup {NoLine}
  /\ handler \in Handlers
  /\ handler.state # "idle" => handler.call \in Calls
  /\ budget \in 0 .. MaxCommands
  /\ direct \subseteq Lines \X Lines
  /\ taken \subseteq Lines
  /\ notified \in [Calls -> Nat]
  /\ hangUps \in [Calls -> Nat]

(* While a command runs the loop stands still, and a hang-up belongs to the *)
(* call that the handler holds.                                             *)
Standstill ==
  op.state # "idle" => pc # "tick" /\ (op.cmd = "chup" => handler.state = "ringing")

Types == PortTypes /\ NetworkTypes /\ LoopTypes /\ Standstill

Steady(p, q) == q.buf = p.buf /\ q.header = p.header /\ q.old = p.old /\ q.lost = p.lost

(* A step of the port reads a line, or leaves the buffer alone. *)
Reading == wire # <<>> /\ wire' = Tail(wire) /\ Reads(port, port', Head(wire))

LEMMA SteadySound ==
  ASSUME NEW p, SoundPort(p), NEW q \in Ports, Steady(p, q)
  PROVE  SoundPort(q)
BY DEF SoundPort, Steady

LEMMA HeadOfWire ==
  ASSUME PortTypes, wire # <<>>
  PROVE  Head(wire) \in Lines /\ Tail(wire) \in Seq(Lines)
BY HeadTailProperties DEF PortTypes

LEMMA GivenTypes ==
  ASSUME PortTypes, NEW what \in {"text", "escape"}, Given(what)
  PROVE  jobs' \in Seq(Jobs)
<1> DEFINE job(i) == IF jobs[i].n = op.n THEN [jobs[i] EXCEPT !.given = what] ELSE jobs[i]
<1>1. Len(jobs) \in Nat /\ DOMAIN jobs = 1 .. Len(jobs)
  BY LenProperties DEF PortTypes
<1>2. ASSUME NEW i \in 1 .. Len(jobs) PROVE job(i) \in Jobs
  <2>1. jobs[i] \in Jobs
    BY ElementOfSeq DEF PortTypes
  <2> QED BY <2>1 DEF Jobs
<1>3. jobs' = [i \in 1 .. Len(jobs) |-> job(i)]
  BY <1>1 DEF Given
<1> HIDE DEF job
<1>4. jobs' \in [1 .. Len(jobs) -> Jobs]
  BY <1>2, <1>3
<1> QED BY <1>1, <1>4

LEMMA DeliverTypes ==
  ASSUME PortTypes, NEW cmd \in Commands \cup {"cmgf"}, Deliver(cmd)
  PROVE  jobs' \in Seq(Jobs) /\ issued' \in Nat /\ issued' = issued + 1
<1>1. NewJob(cmd) \in Jobs
  BY DEF PortTypes, NewJob, Jobs
<1> QED BY <1>1, AppendProperties DEF PortTypes, Deliver

LEMMA PortStepEffect ==
  ASSUME PortTypes, PortStep
  PROVE  /\ PortTypes'
         /\ op.state # "idle" /\ op'.state # "idle" /\ op'.cmd = op.cmd
         /\ \/ Reading
            \/ wire' = wire /\ Steady(port, port')
<1> DEFINE line == Head(wire)
<1>0. /\ SoundPort(port) /\ port \in Ports /\ op \in Ops
      /\ wire \in Seq(Lines) /\ jobs \in Seq(Jobs) /\ issued \in Nat
  BY DEF PortTypes, SoundPort
<1>r. ASSUME wire # <<>>, wire' = Tail(wire), Reads(port, port', line)
      PROVE  Reading /\ SoundPort(port') /\ wire' \in Seq(Lines)
  BY <1>r, HeadOfWire DEF Reading, Reads
<1>l. wire # <<>> => line \in Lines
  BY HeadOfWire
<1> HIDE DEF line
<1>1. CASE ResyncRead
  <2>1. Reads(port, port', line)
    BY <1>0, <1>1, <1>l, DiscardReads DEF ResyncRead, line
  <2> QED BY <1>0, <1>1, <1>r, <2>1 DEF ResyncRead, PortTypes
<1>2. CASE SendProbe
  <2>1. Probe \in Commands \cup {"cmgf"}
    BY DEF Probe, Commands
  <2>2. jobs' \in Seq(Jobs) /\ issued' \in Nat
    BY <1>2, <2>1, DeliverTypes DEF SendProbe
  <2>3. port' \in Ports /\ Steady(port, port')
    BY <1>0, <1>2 DEF SendProbe, Ports, Steady
  <2>4. op' \in Ops /\ op'.state = "probe" /\ op'.cmd = op.cmd
    BY <1>0, <1>2 DEF SendProbe, Ops
  <2> QED BY <1>0, <1>2, <2>2, <2>3, <2>4, SteadySound DEF SendProbe, PortTypes
<1>3. CASE ProbeRead
  <2>1. Reads(port, port', line)
    <3> DEFINE q == ExpireHeader(port)
    <3>1. CASE Absorbed(port, line)
      BY <1>0, <1>3, <1>l, <3>1, AbsorbReads DEF ProbeRead, line
    <3>2. CASE ~Absorbed(port, line) /\ line.kind = "ok"
      <4>1. ~Notice(line) /\ line.kind \notin UrcKinds
        BY <3>2 DEF Notice, NoticeKinds, CallKinds, UrcKinds
      <4>2. Reads(port, q, line)
        BY <1>0, <1>3, <1>l, <3>2, <4>1, ExpireReads DEF ProbeRead, Absorbed
      <4>3. q \in Ports
        BY <4>2 DEF Reads, SoundPort
      <4>4. port' = [q EXCEPT !.late = FALSE] \/ port' = q
        BY <1>3, <3>2, <4>1 DEF ProbeRead, line
      <4> HIDE DEF q
      <4>5. port' \in Ports /\ Steady(q, port')
        BY <4>3, <4>4 DEF Ports, Steady
      <4> QED BY <4>2, <4>5, FlaggedReads DEF Steady
    <3>3. CASE ~Absorbed(port, line) /\ line.kind \in UrcKinds
      <4>1. port' = QueueUrc(q, line)
        BY <1>3, <3>3 DEF ProbeRead, line, UrcKinds
      <4> QED BY <1>0, <1>3, <1>l, <3>3, <4>1, QueueReads DEF ProbeRead
    <3>4. CASE ~Absorbed(port, line) /\ line.kind # "ok" /\ line.kind \notin UrcKinds
      <4>1. ~Notice(line)
        BY <3>4 DEF Notice, NoticeKinds, CallKinds, UrcKinds
      <4>2. port' = q
        BY <1>3, <3>4 DEF ProbeRead, line
      <4> QED BY <1>0, <1>3, <1>l, <3>4, <4>1, <4>2, ExpireReads DEF ProbeRead, Absorbed
    <3> QED BY <3>1, <3>2, <3>3, <3>4
  <2>2. op' \in Ops /\ op'.state # "idle" /\ op'.cmd = op.cmd
    BY <1>0, <1>3 DEF ProbeRead, Ops
  <2> QED BY <1>0, <1>3, <1>r, <2>1, <2>2 DEF ProbeRead, PortTypes
<1>4. CASE ProbeTimeout
  BY <1>0, <1>4 DEF ProbeTimeout, Ops, PortTypes, Steady
<1>5. CASE DrainUrcs
  <2>1. Reads(port, port', line)
    BY <1>0, <1>5, <1>l, AbsorbOrQueueReads DEF DrainUrcs, line
  <2> QED BY <1>0, <1>5, <1>r, <2>1 DEF DrainUrcs, PortTypes
<1>6. CASE Transmit
  <2>1. jobs' \in Seq(Jobs) /\ issued' \in Nat
    <3>1. op.cmd \in Commands \cup {"cmgf"}
      BY <1>0 DEF Ops
    <3> QED BY <1>6, <3>1, DeliverTypes DEF Transmit
  <2>2. op' \in Ops /\ op'.state # "idle" /\ op'.cmd = op.cmd
    <3>0. issued + 1 \in Nat /\ op \in Ops
      BY <1>0
    <3>1. CASE op.cmd = "cmgs"
      <4>1. op' = [op EXCEPT !.state = "prompt", !.n = issued + 1]
        BY <1>6, <3>1 DEF Transmit
      <4> QED BY <3>0, <4>1 DEF Ops
    <3>2. CASE op.cmd # "cmgs"
      <4>1. op' = [op EXCEPT !.state = "collect", !.n = issued + 1]
        BY <1>6, <3>2 DEF Transmit
      <4> QED BY <3>0, <4>1 DEF Ops
    <3> QED BY <3>1, <3>2
  <2> QED BY <1>0, <1>6, <2>1, <2>2 DEF Transmit, PortTypes, Steady
<1>7. CASE CollectRead
  <2> DEFINE q == IF Absorbed(port, line) THEN Absorb(port, line)
                  ELSE IF line.kind \in UrcKinds THEN QueueUrc(ExpireHeader(port), line)
                  ELSE ExpireHeader(port)
  <2>1. Reads(port, q, line)
    <3>1. CASE Absorbed(port, line)
      BY <1>0, <1>7, <1>l, <3>1, AbsorbReads DEF CollectRead
    <3>2. CASE ~Absorbed(port, line) /\ line.kind \in UrcKinds
      BY <1>0, <1>7, <1>l, <3>2, QueueReads DEF CollectRead
    <3>3. CASE ~Absorbed(port, line) /\ line.kind \notin UrcKinds
      <4>1. ~Notice(line)
        BY <3>3 DEF Notice, NoticeKinds, CallKinds, UrcKinds
      <4> QED BY <1>0, <1>7, <1>l, <3>3, <4>1, ExpireReads DEF CollectRead, Absorbed
    <3> QED BY <3>1, <3>2, <3>3
  <2>2. port' = MarkTimedOut(q) \/ port' = q
    BY <1>7 DEF CollectRead, line
  <2> HIDE DEF q
  <2>3. q \in Ports
    BY <2>1 DEF Reads, SoundPort
  <2>4. port' \in Ports /\ Steady(q, port')
    BY <2>2, <2>3 DEF MarkTimedOut, Ports, Steady
  <2>5. Reads(port, port', line)
    BY <2>1, <2>4, FlaggedReads DEF Steady
  <2>6. op' \in Ops /\ op'.state # "idle" /\ op'.cmd = op.cmd
    <3>1. line \in Lines /\ line.of \in Sources
      BY <1>7, <1>l DEF CollectRead, Lines
    <3> QED BY <1>0, <1>7, <3>1 DEF CollectRead, Ops, line
  <2> QED BY <1>0, <1>7, <1>r, <2>5, <2>6 DEF CollectRead, PortTypes
<1>8. CASE CollectTimeout
  <2>1. port' \in Ports /\ Steady(port, port')
    BY <1>0, <1>8 DEF CollectTimeout, MarkTimedOut, Ports, Steady
  <2>2. op' \in Ops /\ op'.state # "idle" /\ op'.cmd = op.cmd
    BY <1>0, <1>8 DEF CollectTimeout, Ops
  <2> QED BY <1>0, <1>8, <2>1, <2>2, SteadySound DEF CollectTimeout, PortTypes
<1>9. CASE PromptRead
  <2>1. /\ Reads(port, port', line) /\ jobs' \in Seq(Jobs)
        /\ op' \in Ops /\ op'.state # "idle" /\ op'.cmd = op.cmd
    <3>0. line \in Lines /\ line.of \in Sources
      BY <1>9, <1>l DEF PromptRead, Lines
    <3>1. CASE line.kind = "prompt"
      <4>1. port' = port /\ Given("text")
            /\ op' = [op EXCEPT !.state = "collect", !.got = @ \cup {line.of}]
        BY <1>9, <3>1 DEF PromptRead, line
      <4> QED BY <1>0, <3>0, <3>1, <4>1, PromptReads, GivenTypes DEF Ops
    <3>2. CASE line.kind # "prompt" /\ ~Absorbed(port, line) /\ Terminal(line)
      <4>1. port' = ExpireHeader(port) /\ Given("escape")
            /\ op' = [op EXCEPT !.state = "done", !.result = "error", !.got = @ \cup {line.of}]
        BY <1>9, <3>2 DEF PromptRead, line, Terminal
      <4>2. ~Notice(line)
        BY <3>2 DEF Notice, NoticeKinds, CallKinds, Terminal
      <4>3. Reads(port, port', line)
        BY <1>0, <3>0, <3>2, <4>1, <4>2, ExpireReads DEF Absorbed
      <4> QED BY <1>0, <3>0, <4>1, <4>3, GivenTypes DEF Ops
    <3>3. CASE line.kind # "prompt" /\ ~(~Absorbed(port, line) /\ Terminal(line))
      <4>1. port' = AbsorbOrQueue(port, line) /\ op' = op /\ jobs' = jobs
        BY <1>9, <3>3 DEF PromptRead, line, Terminal
      <4> QED BY <1>0, <1>9, <3>0, <4>1, AbsorbOrQueueReads DEF PromptRead
    <3> QED BY <3>1, <3>2, <3>3
  <2> QED BY <1>0, <1>9, <1>r, <2>1 DEF PromptRead, PortTypes
<1>10. CASE PromptTimeout
  <2>1. port' \in Ports /\ Steady(port, port')
    BY <1>0, <1>10 DEF PromptTimeout, MarkTimedOut, Ports, Steady
  <2>2. op' \in Ops /\ op'.state # "idle" /\ op'.cmd = op.cmd
    BY <1>0, <1>10 DEF PromptTimeout, Ops
  <2>3. jobs' \in Seq(Jobs)
    BY <1>10, GivenTypes DEF PromptTimeout
  <2> QED BY <1>0, <1>10, <2>1, <2>2, <2>3, SteadySound DEF PromptTimeout, PortTypes
<1> QED BY <1>1, <1>2, <1>3, <1>4, <1>5, <1>6, <1>7, <1>8, <1>9, <1>10 DEF PortStep

(* What the handler does with a line keeps its state sound. *)
HandlerTypes ==
  /\ handler \in Handlers
  /\ handler.state # "idle" => handler.call \in Calls
  /\ notified \in [Calls -> Nat]
  /\ caller \in {"poll", "work"}
  /\ op \in Ops

LEMMA ChupSent ==
  ASSUME HandlerTypes, NEW c \in Calls, NEW place \in {"poll", "work"}, CommitCall(c, place)
  PROVE  HandlerTypes' /\ op'.state = "sync" /\ op'.cmd = "chup" /\ handler'.state = "ringing"
<1>1. op' \in Ops /\ op'.state = "sync" /\ op'.cmd = "chup"
  BY DEF CommitCall, SendAt, NoOp, Ops, Commands
<1>2. handler' = Ringing(c) /\ handler' \in Handlers
  BY DEF CommitCall, Ringing, Handlers
<1> QED BY <1>1, <1>2 DEF CommitCall, HandlerTypes, Ringing

LEMMA UrcTypes ==
  ASSUME HandlerTypes, NEW line \in Lines, HandleUrcDeferred(line)
  PROVE  /\ HandlerTypes'
         /\ \/ op' = op
            \/ op'.state = "sync" /\ op'.cmd = "chup" /\ handler'.state = "ringing"
<1>1. CASE line.kind = "ring" /\ handler.state = "idle"
  <2>1. handler' = Ringing(line.of) /\ NoCommand /\ notified' = notified
    BY <1>1 DEF HandleUrcDeferred
  <2>2. line.of \in Calls
    BY <1>1 DEF Lines, CallKinds
  <2> QED BY <2>1, <2>2 DEF HandlerTypes, Ringing, Handlers, NoCommand
<1>2. CASE line.kind = "clip" /\ handler.state = "ringing"
  <2>1. CommitCall(line.of, "poll")
    BY <1>2 DEF HandleUrcDeferred
  <2>2. line.of \in Calls
    BY <1>2 DEF Lines, CallKinds
  <2> QED BY <2>1, <2>2, ChupSent
<1>3. CASE line.kind = "gone" /\ handler.state = "ringing"
  <2>1. /\ handler' = Idle /\ NoCommand
        /\ notified' = [notified EXCEPT ![handler.call] = @ + 1]
    BY <1>3 DEF HandleUrcDeferred
  <2>2. Idle \in Handlers /\ Idle.state = "idle"
    BY DEF Idle, Handlers
  <2>3. notified' \in [Calls -> Nat]
    BY <1>3, <2>1 DEF HandlerTypes
  <2> QED BY <2>1, <2>2, <2>3 DEF HandlerTypes, NoCommand
<1>4. CASE /\ ~(line.kind = "ring" /\ handler.state = "idle")
           /\ ~(line.kind = "clip" /\ handler.state = "ringing")
           /\ ~(line.kind = "gone" /\ handler.state = "ringing")
  BY <1>4 DEF HandleUrcDeferred, NoCommand, HandlerTypes
<1> QED BY <1>1, <1>2, <1>3, <1>4

LEMMA HandleLineTypes ==
  ASSUME Types, Polling, NEW line \in Lines, NEW q, SoundPort(q), HandleLine(line, q),
         wire' \in Seq(Lines), UNCHANGED <<jobs, issued, networkVars>>
  PROVE  Types'
<1>1. HandlerTypes /\ op.state = "idle" /\ pc = "poll" /\ room > 0
  BY DEF Types, LoopTypes, PortTypes, HandlerTypes, Polling
<1>2. /\ HandlerTypes'
      /\ op' = op \/ (op'.state = "sync" /\ op'.cmd = "chup" /\ handler'.state = "ringing")
      /\ expected' \in Lines \cup {NoLine}
      /\ direct' \subseteq Lines \X Lines
  <2>1. CASE expected # NoLine
    BY <1>1, <2>1 DEF HandleLine, NoCommand, HandlerTypes, Types, LoopTypes
  <2>2. CASE expected = NoLine
    <3>1. HandleUrcDeferred(line) /\ direct' = direct /\ expected' \in {line, NoLine}
      BY <2>2 DEF HandleLine
    <3> QED BY <1>1, <3>1, UrcTypes DEF Types, LoopTypes
  <2> QED BY <2>1, <2>2
<1>3. room' \in 0 .. LinesPerPass
  BY <1>1, PassAssumption DEF HandleLine, Types, LoopTypes
<1>4. PortTypes'
  BY <1>2 DEF HandleLine, HandlerTypes, Types, PortTypes
<1>5. LoopTypes'
  BY <1>2, <1>3 DEF HandleLine, HandlerTypes, Types, LoopTypes
<1>6. NetworkTypes'
  BY DEF networkVars, Types, NetworkTypes
<1>7. Standstill'
  BY <1>1, <1>2 DEF HandleLine, Standstill
<1> QED BY <1>4, <1>5, <1>6, <1>7 DEF Types

(* Lines that arrive. *)
LEMMA EmitTypes ==
  ASSUME PortTypes, NEW line \in Lines, Emit(line)
  PROVE  wire' \in Seq(Lines)
BY AppendProperties DEF Emit, PortTypes

LEMMA AnnounceTypes ==
  ASSUME Types, NEW line \in Lines, Announce(line),
         ringing' \in [call : Calls \cup {Nobody}, rings : Nat, clip : BOOLEAN, over : BOOLEAN],
         ringing'.call = Nobody => ringing' = NoRing,
         owed' \in Direct \cup {Nobody}
  PROVE  Types'
<1>1. PortTypes'
  BY EmitTypes DEF Announce, Types, PortTypes
<1>2. NetworkTypes'
  BY DEF Announce, Types, NetworkTypes
<1>3. LoopTypes'
  BY DEF Announce, loopVars, Types, LoopTypes
<1>4. Standstill'
  BY DEF Announce, loopVars, Types, Standstill
<1> QED BY <1>1, <1>2, <1>3, <1>4 DEF Types

(* Each line of the network is a line. *)
LEMMA LineTypes ==
  /\ \A m \in Stored : LineOf("cmti", m) \in Lines
  /\ \A m \in Direct : LineOf("cmt", m) \in Lines /\ LineOf("pdu", m) \in Lines
  /\ \A m \in Direct : LineOf("noise", m) \in Lines
  /\ \A e \in Events : LineOf("cgev", e) \in Lines
  /\ \A c \in Calls, k \in CallKinds : LineOf(k, c) \in Lines
  /\ \A n \in Nat, k \in AnswerKinds : LineOf(k, n) \in Lines
<1> USE DEF LineOf, Lines, LineKinds, UrcKinds, AnswerKinds, CallKinds, Sources
<1>1. \A m \in Stored : LineOf("cmti", m) \in Lines
  OBVIOUS
<1>2. \A m \in Direct : LineOf("cmt", m) \in Lines /\ LineOf("pdu", m) \in Lines
  OBVIOUS
<1>3. \A m \in Direct : LineOf("noise", m) \in Lines
  OBVIOUS
<1>4. \A e \in Events : LineOf("cgev", e) \in Lines
  OBVIOUS
<1>5. \A c \in Calls, k \in CallKinds : LineOf(k, c) \in Lines
  OBVIOUS
<1>6. \A n \in Nat, k \in AnswerKinds : LineOf(k, n) \in Lines
  OBVIOUS
<1> QED BY <1>1, <1>2, <1>3, <1>4, <1>5, <1>6

LEMMA NetworkTypesKept ==
  ASSUME Types, Network \/ PduPrinted \/ PduGarbled
  PROVE  Types'
<1> USE DEF Nobody
<1>0. /\ ringing \in [call : Calls \cup {Nobody}, rings : Nat, clip : BOOLEAN, over : BOOLEAN]
      /\ ringing.call = Nobody => ringing = NoRing
      /\ owed \in Direct \cup {Nobody}
      /\ NoRing \in [call : Calls \cup {Nobody}, rings : Nat, clip : BOOLEAN, over : BOOLEAN]
      /\ NoRing.call = Nobody /\ Nobody \notin Calls
  BY PartiesAssumption DEF Types, NetworkTypes, NoRing
<1>1. ASSUME NEW m \in Stored, SmsStored(m) PROVE Types'
  BY <1>0, <1>1, LineTypes, AnnounceTypes DEF SmsStored
<1>2. ASSUME NEW m \in Direct, SmsDelivered(m) PROVE Types'
  BY <1>0, <1>2, LineTypes, AnnounceTypes DEF SmsDelivered
<1>3. ASSUME NEW e \in Events, DataEvent(e) PROVE Types'
  BY <1>0, <1>3, LineTypes, AnnounceTypes DEF DataEvent
<1>4. ASSUME NEW c \in Calls, Ring(c) PROVE Types'
  <2>1. /\ ringing' \in [call : Calls \cup {Nobody}, rings : Nat, clip : BOOLEAN, over : BOOLEAN]
        /\ ringing'.call = c /\ owed' = owed /\ Announce(LineOf("ring", c))
    <3>1. ringing.rings + 1 \in Nat
      BY <1>0
    <3>2. /\ ringing' = [ringing EXCEPT !.call = c, !.rings = ringing.rings + 1]
          /\ owed' = owed /\ Announce(LineOf("ring", c))
      BY <1>4 DEF Ring
    <3> QED BY <1>0, <3>1, <3>2
  <2>2. LineOf("ring", c) \in Lines
    BY LineTypes DEF CallKinds
  <2> QED BY <1>0, <2>1, <2>2, AnnounceTypes
<1>5. CASE CallerId
  <2>1. /\ ringing' \in [call : Calls \cup {Nobody}, rings : Nat, clip : BOOLEAN, over : BOOLEAN]
        /\ ringing'.call = ringing.call /\ owed' = owed /\ ringing.call \in Calls
        /\ Announce(LineOf("clip", ringing.call))
    BY <1>0, <1>5 DEF CallerId
  <2>2. LineOf("clip", ringing.call) \in Lines
    BY <2>1, LineTypes DEF CallKinds
  <2> QED BY <1>0, <2>1, <2>2, AnnounceTypes
<1>6. CASE CallEnds
  <2>1. ringing' = NoRing /\ owed' = owed /\ Announce(LineOf("gone", ringing.call))
    BY <1>6 DEF CallEnds
  <2>2. LineOf("gone", ringing.call) \in Lines
    BY <1>0, <1>6, LineTypes DEF CallEnds, CallKinds
  <2> QED BY <1>0, <2>1, <2>2, AnnounceTypes
<1>7. CASE CallEndsSilently
  <2>1. NetworkTypes'
    BY <1>0, <1>7 DEF CallEndsSilently, Types, NetworkTypes
  <2>2. PortTypes' /\ LoopTypes' /\ Standstill'
    BY <1>7 DEF CallEndsSilently, portVars, loopVars, Types, PortTypes, LoopTypes, Standstill
  <2> QED BY <2>1, <2>2 DEF Types
<1>8. CASE PduPrinted
  <2>1. owed \in Direct /\ Announce(LineOf("pdu", owed)) /\ ringing' = ringing /\ owed' = Nobody
    BY <1>0, <1>8 DEF PduPrinted
  <2> QED BY <1>0, <2>1, LineTypes, AnnounceTypes
<1>9. CASE PduGarbled
  <2>1. owed \in Direct /\ Announce(LineOf("noise", owed)) /\ ringing' = ringing /\ owed' = Nobody
    BY <1>0, <1>9 DEF PduGarbled
  <2> QED BY <1>0, <2>1, LineTypes, AnnounceTypes
<1> QED BY <1>1, <1>2, <1>3, <1>4, <1>5, <1>6, <1>7, <1>8, <1>9 DEF Network

LEMMA ModemTypesKept ==
  ASSUME Types, ModemAnswers
  PROVE  /\ Types'
         /\ port' = port /\ op' = op /\ issued' = issued
         /\ \/ wire' = wire
            \/ \E k \in AnswerKinds :
                 wire' = Append(wire, LineOf(k, Head(jobs).n)) /\ Head(jobs).n \in Nat
<1>0. /\ PortTypes /\ op \in Ops /\ wire \in Seq(Lines) /\ jobs \in Seq(Jobs)
  BY DEF Types, PortTypes
<1>1. /\ PortTypes'
      /\ port' = port /\ op' = op /\ issued' = issued
      /\ \/ wire' = wire
         \/ \E k \in AnswerKinds :
              wire' = Append(wire, LineOf(k, Head(jobs).n)) /\ Head(jobs).n \in Nat
  <2>h. ASSUME jobs # <<>> PROVE Head(jobs) \in Jobs /\ Tail(jobs) \in Seq(Jobs) /\ Head(jobs) = jobs[1]
                                 /\ 1 \in 1 .. Len(jobs)
    BY <1>0, <2>h, HeadTailProperties, EmptySeq
  <2>1. CASE AnswerBody
    <3>1. /\ jobs # <<>> /\ Head(jobs).cmd # "chup"
          /\ Emit(LineOf(BodyKind(Head(jobs).cmd), Head(jobs).n))
          /\ jobs' = [jobs EXCEPT ![1].said = TRUE]
          /\ UNCHANGED <<port, op, issued>>
      BY <2>1 DEF AnswerBody
    <3>2. Head(jobs) \in Jobs /\ BodyKind(Head(jobs).cmd) \in AnswerKinds
      BY <2>h, <3>1 DEF Jobs, Commands, BodyKind, AnswerKinds
    <3>3. LineOf(BodyKind(Head(jobs).cmd), Head(jobs).n) \in Lines /\ Head(jobs).n \in Nat
      BY <3>2, LineTypes DEF Jobs
    <3>4. wire' \in Seq(Lines)
      BY <1>0, <3>1, <3>3, EmitTypes
    <3>5. jobs' \in Seq(Jobs)
      <4>1. [jobs[1] EXCEPT !.said = TRUE] \in Jobs
        BY <2>h, <3>1 DEF Jobs
      <4>2. jobs' = [jobs EXCEPT ![1] = [jobs[1] EXCEPT !.said = TRUE]]
        BY <3>1
      <4> QED BY <1>0, <2>h, <3>1, <4>1, <4>2, ExceptSeq
    <3> QED BY <1>0, <3>1, <3>2, <3>3, <3>4, <3>5 DEF PortTypes, Emit
  <2>2. ASSUME NEW kind \in {"ok", "error"}, AnswerEnd(kind)
        PROVE  /\ PortTypes' /\ UNCHANGED <<port, op, issued>>
               /\ kind \in AnswerKinds /\ Head(jobs).n \in Nat
               /\ wire' = Append(wire, LineOf(kind, Head(jobs).n))
    <3>1. /\ jobs # <<>> /\ Emit(LineOf(kind, Head(jobs).n)) /\ jobs' = Tail(jobs)
          /\ UNCHANGED <<port, op, issued>>
      BY <2>2 DEF AnswerEnd
    <3>2. Head(jobs) \in Jobs /\ Tail(jobs) \in Seq(Jobs) /\ kind \in AnswerKinds
      BY <2>h, <3>1 DEF AnswerKinds
    <3>3. LineOf(kind, Head(jobs).n) \in Lines /\ Head(jobs).n \in Nat
      BY <3>2, LineTypes DEF Jobs
    <3>4. wire' \in Seq(Lines)
      BY <1>0, <3>1, <3>3, EmitTypes
    <3> QED BY <1>0, <3>1, <3>2, <3>3, <3>4 DEF PortTypes, Emit
  <2>3. CASE AnswerLost
    BY <1>0, <2>3, <2>h DEF AnswerLost, PortTypes
  <2> QED BY <2>1, <2>2, <2>3 DEF ModemAnswers, ModemStep
<1>2. NetworkTypes'
  <2>1. ringing' = ringing \/ (ringing # NoRing /\ ringing' = [ringing EXCEPT !.over = TRUE])
    BY DEF ModemAnswers
  <2> QED BY <2>1 DEF ModemAnswers, Types, NetworkTypes
<1>3. LoopTypes' /\ Standstill'
  BY <1>1 DEF ModemAnswers, loopVars, Types, LoopTypes, Standstill
<1> QED BY <1>1, <1>2, <1>3 DEF Types

-----------------------------------------------------------------------------
(* What a poll does to the port: it pops the buffer, reads a line and       *)
(* keeps it, reads one and pops the buffer, or reads one and handles it.    *)

Popped(q, line) ==
  q.buf # <<>> /\ line = Head(q.buf) /\ HandleLine(line, [q EXCEPT !.buf = Tail(q.buf)])

LEMMA PoppedSound ==
  ASSUME NEW q, SoundPort(q), q.buf # <<>>
  PROVE  LET p == [q EXCEPT !.buf = Tail(q.buf)]
         IN  /\ SoundPort(p) /\ FlagsKept(q, p) /\ p.header = q.header /\ p.old = q.old
             /\ p.lost = q.lost /\ p.buf = Tail(q.buf)
             /\ Head(q.buf) \in Lines /\ Head(q.buf) = q.buf[1] /\ Tail(q.buf) \in Seq(Lines)
             /\ Len(Tail(q.buf)) = Len(q.buf) - 1 /\ Len(q.buf) \in Nat \ {0}
             /\ \A i \in 1 .. Len(q.buf) - 1 : Tail(q.buf)[i] = q.buf[i + 1]
<1> DEFINE p == [q EXCEPT !.buf = Tail(q.buf)]
<1>1. q \in Ports /\ q.buf \in Seq(Lines) /\ Len(q.buf) <= MaxUrc /\ MaxUrc \in Nat
  BY AtPortAssumption DEF SoundPort, Ports
<1>2. /\ Head(q.buf) \in Lines /\ Head(q.buf) = q.buf[1] /\ Tail(q.buf) \in Seq(Lines)
      /\ Len(Tail(q.buf)) = Len(q.buf) - 1 /\ Len(q.buf) \in Nat \ {0}
      /\ \A i \in 1 .. Len(q.buf) - 1 : Tail(q.buf)[i] = q.buf[i + 1]
  BY <1>1, HeadTailProperties, EmptySeq
<1>3. /\ p \in Ports /\ p.buf = Tail(q.buf) /\ FlagsKept(q, p) /\ p.header = q.header
      /\ p.old = q.old /\ p.lost = q.lost
  BY <1>1, <1>2 DEF Ports, FlagsKept
<1> HIDE DEF p
<1>4. SoundPort(p)
  BY <1>1, <1>2, <1>3 DEF SoundPort
<1> QED BY <1>2, <1>3, <1>4 DEF p

(* A poll that reads the wire. *)
LEMMA PollWireEffect ==
  ASSUME Types, PollWire
  PROVE  /\ wire # <<>> /\ wire' = Tail(wire) /\ port.buf = <<>>
         /\ UNCHANGED <<jobs, issued, networkVars>>
         /\ \/ /\ ~port.late /\ ~Absorbed(ExpireHeader(port), Head(wire))
               /\ HandleLine(Head(wire), ExpireHeader(port))
            \/ \E q : /\ Reads(port, q, Head(wire)) /\ q.cmgf = port.cmgf
                      /\ q.late = (port.late /\ ~Terminal(Head(wire)))
                      /\ \/ Popped(q, Head(q.buf))
                         \/ q.buf = <<>> /\ NothingPolled(q, {"poll", "tick"})
<1> DEFINE line == Head(wire)
           p == ExpireHeader(port)
           q == IF port.late THEN DiscardStaleResponseLine(p, line) ELSE Absorb(p, line)
<1>1. /\ wire # <<>> /\ wire' = Tail(wire) /\ port.buf = <<>> /\ UNCHANGED <<jobs, issued, networkVars>>
      /\ IF ~port.late /\ ~Absorbed(p, line) THEN HandleLine(line, p)
         ELSE IF q.buf # <<>> THEN HandleLine(Head(q.buf), [q EXCEPT !.buf = Tail(q.buf)])
         ELSE NothingPolled(q, IF port.late THEN {"tick"} ELSE {"poll", "tick"})
  BY DEF PollWire
<1>2. CASE ~port.late /\ ~Absorbed(p, line)
  BY <1>1, <1>2
<1>3. CASE ~(~port.late /\ ~Absorbed(p, line))
  <2>1. SoundPort(port) /\ line \in Lines /\ port.late \in BOOLEAN
    BY <1>1, HeadOfWire DEF Types, PortTypes, SoundPort, Ports
  <2>2. SoundPort(p) /\ FlagsKept(port, p)
    BY <2>1, ExpireEffect
  <2>3. Reads(p, q, line) /\ q.cmgf = port.cmgf /\ q.late = (port.late /\ ~Terminal(line))
    <3>1. CASE port.late
      BY <2>1, <2>2, <3>1, DiscardReads DEF FlagsKept
    <3>2. CASE ~port.late
      BY <1>3, <2>1, <2>2, <3>2, AbsorbReads DEF FlagsKept
    <3> QED BY <3>1, <3>2
  <2>4. Reads(port, q, line)
    BY <2>1, <2>3, ExpiredReads
  <2>5. \/ Popped(q, Head(q.buf))
        \/ q.buf = <<>> /\ NothingPolled(q, {"poll", "tick"})
    BY <1>1, <1>3 DEF Popped, NothingPolled
  <2> HIDE DEF q
  <2> QED BY <1>1, <2>3, <2>4, <2>5
<1> QED BY <1>2, <1>3

LEMMA PollBufferedEffect ==
  ASSUME Types, PollBuffered
  PROVE  /\ Popped(ExpireHeader(port), Head(port.buf)) /\ ExpireHeader(port).buf = port.buf
         /\ UNCHANGED <<wire, jobs, issued, networkVars>>
<1>1. ExpireHeader(port).buf = port.buf
  BY ExpireEffect DEF Types, PortTypes
<1> QED BY <1>1 DEF PollBuffered, Popped

LEMMA PoppedTypes ==
  ASSUME Types, Polling, NEW q, SoundPort(q), NEW line, Popped(q, line),
         wire' \in Seq(Lines), UNCHANGED <<jobs, issued, networkVars>>
  PROVE  Types'
<1> DEFINE p == [q EXCEPT !.buf = Tail(q.buf)]
<1>1. SoundPort(p) /\ line \in Lines /\ HandleLine(line, p)
  BY PoppedSound DEF Popped
<1> HIDE DEF p
<1> QED BY <1>1, HandleLineTypes

LEMMA NothingTypes ==
  ASSUME Types, op.state = "idle", NEW q, SoundPort(q), NothingPolled(q, {"poll", "tick"}),
         wire' \in Seq(Lines), UNCHANGED <<jobs, issued, networkVars>>
  PROVE  Types'
BY DEF NothingPolled, networkVars, Types, PortTypes, NetworkTypes, LoopTypes, Standstill

LEMMA PollingTypesKept ==
  ASSUME Types, PollBuffered \/ PollWire \/ EndPoll
  PROVE  Types'
<1>0. SoundPort(port) /\ SoundPort(ExpireHeader(port)) /\ PortTypes /\ wire \in Seq(Lines)
  BY ExpireEffect DEF Types, PortTypes
<1>1. CASE PollBuffered
  BY <1>0, <1>1, PollBufferedEffect, PoppedTypes DEF PollBuffered
<1>2. CASE PollWire
  <2>0. op.state = "idle" /\ Polling
    BY <1>2 DEF PollWire, Polling
  <2>1. /\ wire # <<>> /\ wire' = Tail(wire) /\ UNCHANGED <<jobs, issued, networkVars>>
    BY <1>2 DEF PollWire
  <2>2. wire' \in Seq(Lines) /\ Head(wire) \in Lines
    BY <1>0, <2>1, HeadOfWire
  <2>3. CASE HandleLine(Head(wire), ExpireHeader(port))
    BY <1>0, <2>0, <2>1, <2>2, <2>3, HandleLineTypes
  <2>4. ASSUME NEW q, Reads(port, q, Head(wire)),
               Popped(q, Head(q.buf)) \/ (q.buf = <<>> /\ NothingPolled(q, {"poll", "tick"}))
        PROVE  Types'
    <3>1. SoundPort(q)
      BY <2>4 DEF Reads
    <3> QED BY <2>0, <2>1, <2>2, <2>4, <3>1, PoppedTypes, NothingTypes
  <2> QED BY <1>2, <2>3, <2>4, PollWireEffect
<1>3. CASE EndPoll
  <2>1. \E q \in {port, ExpireHeader(port)} : NothingPolled(q, {"poll", "tick"})
    BY <1>3 DEF EndPoll, NothingPolled
  <2> QED BY <1>0, <1>3, <2>1, NothingTypes DEF EndPoll
<1> QED BY <1>1, <1>2, <1>3

LEMMA LoopTypesKept ==
  ASSUME Types,
         \/ Tick \/ CommandDone \/ EndPass \/ Elapse \/ Age
         \/ \E cmd \in OwnCommands : Command(cmd)
  PROVE  Types'
<1>0. /\ PortTypes /\ NetworkTypes /\ LoopTypes /\ Standstill /\ HandlerTypes /\ op \in Ops
      /\ SoundPort(port) /\ port \in Ports
  BY DEF Types, LoopTypes, PortTypes, HandlerTypes, SoundPort
<1>1. CASE Tick
  <2>1. op.state = "idle"
    BY <1>0, <1>1 DEF Standstill, Tick
  <2>2. HandlerTypes' /\ (op' = op \/ (op'.state = "sync" /\ op'.cmd = "chup" /\ handler'.state = "ringing"))
    <3>1. CASE handler.state = "ringing" /\ handler.due
      <4>1. CommitCall(handler.call, "work")
        BY <1>1, <3>1 DEF Tick, TickDeferred
      <4> QED BY <1>0, <3>1, <4>1, ChupSent DEF HandlerTypes
    <3>2. CASE ~(handler.state = "ringing" /\ handler.due)
      <4>1. handler' \in {handler, Idle} /\ NoCommand /\ notified' = notified
        BY <1>1, <3>2 DEF Tick, TickDeferred
      <4>2. Idle \in Handlers /\ Idle.state = "idle"
        BY DEF Idle, Handlers
      <4>3. op' = op /\ caller' = caller
        BY <4>1 DEF NoCommand
      <4> QED BY <1>0, <4>1, <4>2, <4>3 DEF HandlerTypes
    <3> QED BY <3>1, <3>2
  <2>3. PortTypes'
    BY <1>0, <1>1, <2>2 DEF Tick, PortTypes, HandlerTypes
  <2>4. LoopTypes'
    BY <1>0, <1>1, <2>2 DEF Tick, LoopTypes, HandlerTypes
  <2>5. NetworkTypes'
    BY <1>0, <1>1 DEF Tick, networkVars, NetworkTypes
  <2>6. Standstill'
    BY <1>1, <2>1, <2>2 DEF Tick, Standstill
  <2> QED BY <2>3, <2>4, <2>5, <2>6 DEF Types
<1>2. CASE CommandDone
  <2>1. NoOp \in Ops /\ NoOp.state = "idle"
    BY DEF NoOp, Ops, Commands
  <2>2. op.state # "idle" /\ op' = NoOp
    BY <1>2 DEF CommandDone
  <2>3. /\ handler' \in Handlers
        /\ handler'.state # "idle" => handler'.call \in Calls
        /\ notified' \in [Calls -> Nat] /\ hangUps' \in [Calls -> Nat]
    <3>1. CASE op.cmd = "chup"
      <4>1. handler.call \in Calls /\ notified \in [Calls -> Nat] /\ hangUps \in [Calls -> Nat]
        BY <1>0, <2>2, <3>1 DEF Standstill, LoopTypes
      <4>2. /\ handler' = Cooldown(handler.call)
            /\ notified' = [notified EXCEPT ![handler.call] = @ + 1]
            /\ hangUps' = [hangUps EXCEPT ![handler.call] = IF op.result = "ok" THEN @ ELSE @ + 1]
        BY <1>2, <3>1 DEF CommandDone
      <4> QED BY <4>1, <4>2 DEF Cooldown, Handlers
    <3>2. CASE op.cmd # "chup"
      BY <1>0, <1>2, <3>2 DEF CommandDone, LoopTypes
    <3> QED BY <3>1, <3>2
  <2>4. PortTypes'
    BY <1>0, <1>2, <2>1, <2>2 DEF CommandDone, PortTypes
  <2>5. LoopTypes'
    BY <1>0, <1>2, <2>3 DEF CommandDone, LoopTypes
  <2>6. NetworkTypes'
    BY <1>0, <1>2 DEF CommandDone, networkVars, NetworkTypes
  <2>7. Standstill'
    BY <2>1, <2>2 DEF Standstill
  <2> QED BY <2>4, <2>5, <2>6, <2>7 DEF Types
<1>3. CASE EndPass
  <2>1. room' \in 0 .. LinesPerPass
    BY <1>3, PassAssumption DEF EndPass
  <2>2. LoopTypes'
    BY <1>0, <1>3, <2>1 DEF EndPass, portVars, LoopTypes
  <2> QED BY <1>0, <1>3, <2>2
          DEF EndPass, portVars, networkVars, Types, PortTypes, NetworkTypes, Standstill
<1>4. CASE Elapse
  <2>1. handler' \in Handlers /\ handler'.state = handler.state /\ handler'.call = handler.call
    BY <1>0, <1>4 DEF Elapse, LoopTypes, Handlers
  <2>2. LoopTypes'
    BY <1>0, <1>4, <2>1 DEF Elapse, LoopTypes
  <2>3. Standstill'
    BY <1>0, <1>4, <2>1 DEF Elapse, portVars, Standstill
  <2>4. PortTypes' /\ NetworkTypes'
    BY <1>0, <1>4 DEF Elapse, portVars, networkVars, PortTypes, NetworkTypes
  <2> QED BY <2>2, <2>3, <2>4 DEF Types
<1>5. CASE Age
  <2>1. SoundPort(port') /\ UNCHANGED <<op, wire, jobs, issued>>
    BY <1>0, <1>5 DEF Age, HeaderAges, SoundPort, Ports
  <2>2. PortTypes'
    BY <1>0, <2>1 DEF PortTypes
  <2> QED BY <1>0, <1>5, <2>1, <2>2
          DEF Age, networkVars, loopVars, Types, NetworkTypes, LoopTypes, Standstill
<1>6. ASSUME NEW cmd \in OwnCommands, Command(cmd) PROVE Types'
  <2>1. cmd \in Commands /\ cmd # "chup"
    BY PassAssumption
  <2>2. op' \in Ops /\ op'.cmd # "chup" /\ pc = "work"
    BY <1>6, <2>1 DEF Command, SendAt, NoOp, Ops
  <2>3. budget' \in 0 .. MaxCommands
    BY <1>0, <1>6, PassAssumption DEF Command, LoopTypes
  <2>4. PortTypes'
    BY <1>0, <1>6, <2>2 DEF Command, PortTypes
  <2>5. LoopTypes'
    BY <1>0, <1>6, <2>3 DEF Command, LoopTypes
  <2>6. NetworkTypes'
    BY <1>0, <1>6 DEF Command, networkVars, NetworkTypes
  <2>7. Standstill'
    BY <1>6, <2>2 DEF Command, Standstill
  <2> QED BY <2>4, <2>5, <2>6, <2>7 DEF Types
<1> QED BY <1>1, <1>2, <1>3, <1>4, <1>5, <1>6

LEMMA TypesInit == Init => Types
<1> SUFFICES ASSUME Init PROVE Types
  OBVIOUS
<1>1. PortTypes
  <2>1. SoundPort(port)
    BY AtPortAssumption, EmptySeq DEF Init, PortInit, SoundPort, Ports
  <2>2. op \in Ops
    BY DEF Init, PortInit, NoOp, Ops, Commands
  <2> QED BY <2>1, <2>2 DEF Init, PortInit, PortTypes
<1>2. NetworkTypes
  BY DEF Init, NetworkTypes, NoRing
<1>3. LoopTypes
  BY PassAssumption DEF Init, LoopTypes, Idle, Handlers
<1>4. Standstill
  BY DEF Init, PortInit, NoOp, Standstill
<1> QED BY <1>1, <1>2, <1>3, <1>4 DEF Types

LEMMA TypesNext == Types /\ [Next]_vars => Types'
<1> SUFFICES ASSUME Types, [Next]_vars PROVE Types'
  OBVIOUS
<1>1. CASE OnPort
  <2>1. PortTypes' /\ op.state # "idle" /\ op'.state # "idle" /\ op'.cmd = op.cmd
    BY <1>1, PortStepEffect DEF OnPort, Types
  <2> QED BY <1>1, <2>1
          DEF OnPort, networkVars, loopVars, Types, NetworkTypes, LoopTypes, Standstill
<1>2. CASE UNCHANGED vars
  BY <1>2 DEF vars, portVars, networkVars, loopVars, Types, PortTypes, NetworkTypes, LoopTypes,
              Standstill
<1> QED BY <1>1, <1>2, NetworkTypesKept, ModemTypesKept, PollingTypesKept, LoopTypesKept
        DEF Next, Device

(* At every moment the port and the loop are in a state that the code can   *)
(* be in: the buffer of URCs within its capacity, an age only for a header  *)
(* that waits, a hang-up only while the handler holds a call.               *)
THEOREM PortTyped == Spec => []TypeOK
<1>1. Types => TypeOK
  <2> SUFFICES ASSUME Types PROVE TypeOK
    OBVIOUS
  <2>1. \A i \in DOMAIN wire : wire[i].kind \in LineKinds
    <3>1. DOMAIN wire = 1 .. Len(wire) /\ wire \in Seq(Lines)
      BY LenProperties DEF Types, PortTypes
    <3> QED BY <3>1, ElementOfSeq DEF Lines
  <2> QED BY <2>1 DEF Types, PortTypes, SoundPort, Ops, LoopTypes, Handlers, TypeOK
<1> QED BY <1>1, TypesInit, TypesNext, PTL DEF Spec

-----------------------------------------------------------------------------
(* Nothing is lost silently. *)

Accounted(l, p, w, t) ==
  \/ l \in t \cup p.lost \cup {p.header}
  \/ l \in ToSet(p.buf) \cup ToSet(w)

AllAccounted == \A l \in Notices : Accounted(l, port, wire, taken)

LEMMA NoticesAreLines ==
  ASSUME Types
  PROVE  \A l \in Notices : l \in Lines /\ Notice(l) /\ l # NoLine
BY PartiesAssumption DEF Types, NetworkTypes, Notices, Notice, NoticeKinds, CallKinds, Lines, Sources

LEMMA HeadAndRest ==
  ASSUME NEW S, NEW s \in Seq(S), s # <<>>
  PROVE  ToSet(s) = {Head(s)} \cup ToSet(Tail(s))
<1>1. /\ Len(s) \in Nat \ {0} /\ DOMAIN s = 1 .. Len(s) /\ Head(s) = s[1]
      /\ Tail(s) \in Seq(S) /\ Len(Tail(s)) = Len(s) - 1
      /\ \A i \in 1 .. Len(Tail(s)) : Tail(s)[i] = s[i + 1]
  BY HeadTailProperties, EmptySeq, LenProperties
<1>2. DOMAIN Tail(s) = 1 .. Len(s) - 1
  BY <1>1, LenProperties
<1>3. ASSUME NEW x \in ToSet(s) PROVE x = Head(s) \/ x \in ToSet(Tail(s))
  <2>1. PICK i \in 1 .. Len(s) : x = s[i]
    BY <1>1 DEF ToSet
  <2>2. CASE i > 1
    <3>1. i - 1 \in DOMAIN Tail(s) /\ Tail(s)[i - 1] = x
      BY <1>1, <1>2, <2>1, <2>2
    <3> QED BY <3>1 DEF ToSet
  <2> QED BY <1>1, <2>1, <2>2
<1>4. ASSUME NEW x \in ToSet(Tail(s)) PROVE x \in ToSet(s)
  <2>1. PICK i \in 1 .. Len(s) - 1 : x = Tail(s)[i]
    BY <1>2 DEF ToSet
  <2>2. i + 1 \in DOMAIN s /\ s[i + 1] = x
    BY <1>1, <2>1
  <2> QED BY <2>2 DEF ToSet
<1>5. Head(s) \in ToSet(s)
  BY <1>1 DEF ToSet
<1> QED BY <1>3, <1>4, <1>5

LEMMA AppendedSet ==
  ASSUME NEW S, NEW s \in Seq(S), NEW e \in S
  PROVE  ToSet(Append(s, e)) = ToSet(s) \cup {e}
<1>1. /\ Append(s, e) \in Seq(S) /\ Len(Append(s, e)) = Len(s) + 1 /\ Len(s) \in Nat
      /\ \A i \in 1 .. Len(s) : Append(s, e)[i] = s[i]
      /\ Append(s, e)[Len(s) + 1] = e
  BY AppendProperties, LenProperties
<1>2. DOMAIN s = 1 .. Len(s) /\ DOMAIN Append(s, e) = 1 .. Len(s) + 1
  BY <1>1, LenProperties
<1> QED BY <1>1, <1>2 DEF ToSet

(* A line goes from the wire to where the port keeps it. *)
LEMMA ReadAccounted ==
  ASSUME PortTypes, wire # <<>>, NEW q, Reads(port, q, Head(wire)), NEW l, Notice(l), l # NoLine,
         NEW t, Accounted(l, port, wire, t)
  PROVE  Accounted(l, q, Tail(wire), t)
<1>1. ToSet(wire) = {Head(wire)} \cup ToSet(Tail(wire))
  BY HeadAndRest DEF PortTypes
<1> QED BY <1>1 DEF Accounted, Reads

LEMMA PopAccounted ==
  ASSUME NEW q, SoundPort(q), q.buf # <<>>, NEW l, NEW w, NEW t, Accounted(l, q, w, t)
  PROVE  Accounted(l, [q EXCEPT !.buf = Tail(q.buf)], w, t \cup {Head(q.buf)})
<1> DEFINE p == [q EXCEPT !.buf = Tail(q.buf)]
<1>1. p.header = q.header /\ p.lost = q.lost /\ p.buf = Tail(q.buf)
  BY PoppedSound
<1>2. ToSet(q.buf) = {Head(q.buf)} \cup ToSet(Tail(q.buf))
  BY HeadAndRest DEF SoundPort, Ports
<1> HIDE DEF p
<1>3. Accounted(l, p, w, t \cup {Head(q.buf)})
  BY <1>1, <1>2 DEF Accounted
<1> QED BY <1>3 DEF p

(* When the last place went, nothing that can be recovered was kept. *)
LateLoss == \A l \in port'.lost \ port.lost : CallLine(l) => NoEvictable(port'.buf)

LEMMA PoppedLoses ==
  ASSUME NEW p, NEW q, SoundPort(q), q.buf # <<>>, LosesLate(p, q)
  PROVE  LosesLate(p, [q EXCEPT !.buf = Tail(q.buf)])
<1> DEFINE r == [q EXCEPT !.buf = Tail(q.buf)]
<1>1. /\ r.lost = q.lost /\ r.buf = Tail(q.buf) /\ Tail(q.buf) \in Seq(Lines) /\ q.buf \in Seq(Lines)
      /\ Len(Tail(q.buf)) = Len(q.buf) - 1 /\ Len(q.buf) \in Nat \ {0}
      /\ \A i \in 1 .. Len(q.buf) - 1 : Tail(q.buf)[i] = q.buf[i + 1]
  BY PoppedSound DEF SoundPort, Ports
<1>2. DOMAIN Tail(q.buf) = 1 .. Len(q.buf) - 1 /\ DOMAIN q.buf = 1 .. Len(q.buf)
  BY <1>1, LenProperties
<1> HIDE DEF r
<1>3. NoEvictable(q.buf) => NoEvictable(r.buf)
  BY <1>1, <1>2 DEF NoEvictable
<1>4. LosesLate(p, r)
  BY <1>1, <1>3 DEF LosesLate
<1> QED BY <1>4 DEF r

LEMMA ExpireLoses ==
  ASSUME NEW p, SoundPort(p)
  PROVE  LosesLate(p, ExpireHeader(p))
BY ExpireEffect DEF LosesLate, CallLine, CallKinds, SoundPort

LEMMA ExpireAccounted ==
  ASSUME NEW p, SoundPort(p), NEW l, l # NoLine, NEW w, NEW t, Accounted(l, p, w, t)
  PROVE  Accounted(l, ExpireHeader(p), w, t)
BY ExpireEffect DEF Accounted

LEMMA PollingAccounts ==
  ASSUME Types, AllAccounted, PollBuffered \/ PollWire \/ EndPoll
  PROVE  AllAccounted' /\ LateLoss
<1>0. SoundPort(port) /\ SoundPort(ExpireHeader(port)) /\ PortTypes
  BY ExpireEffect DEF Types, PortTypes
<1>n. \A l \in Notices : Notice(l) /\ l # NoLine /\ Accounted(l, port, wire, taken)
  BY NoticesAreLines DEF AllAccounted
<1>1. CASE PollBuffered
  <2> DEFINE q == ExpireHeader(port)
  <2>1. /\ Popped(q, Head(port.buf)) /\ q.buf = port.buf
        /\ UNCHANGED <<wire, arrived>>
    BY <1>1, PollBufferedEffect DEF networkVars
  <2>2. /\ port' = [q EXCEPT !.buf = Tail(q.buf)] /\ q.buf # <<>>
        /\ taken' = taken \cup {Head(q.buf)}
    BY <2>1 DEF Popped, HandleLine
  <2>3. Notices' = Notices
    BY <2>1 DEF Notices
  <2>4. LosesLate(port, q)
    BY <1>0, ExpireLoses
  <2>5. \A l \in Notices : Accounted(l, q, wire, taken)
    BY <1>0, <1>n, ExpireAccounted
  <2> HIDE DEF q
  <2>6. LateLoss
    BY <1>0, <2>2, <2>4, PoppedLoses DEF LosesLate, LateLoss, q
  <2>7. AllAccounted'
    <3> SUFFICES ASSUME NEW l \in Notices PROVE Accounted(l, port', wire', taken')
      BY <2>3 DEF AllAccounted, Accounted
    <3>1. Accounted(l, [q EXCEPT !.buf = Tail(q.buf)], wire, taken \cup {Head(q.buf)})
      BY <1>0, <2>2, <2>5, PopAccounted DEF q
    <3> QED BY <2>1, <2>2, <3>1
  <2> QED BY <2>6, <2>7
<1>2. CASE PollWire
  <2> DEFINE line == Head(wire)
  <2>1. wire # <<>> /\ wire' = Tail(wire) /\ arrived' = arrived /\ line \in Lines
    BY <1>0, <1>2, HeadOfWire DEF PollWire, networkVars
  <2>2. Notices' = Notices
    BY <2>1 DEF Notices
  <2>3. ToSet(wire) = {line} \cup ToSet(Tail(wire))
    BY <1>0, <2>1, HeadAndRest DEF PortTypes
  <2>4. CASE HandleLine(line, ExpireHeader(port))
    <3>1. port' = ExpireHeader(port) /\ taken' = taken \cup {line}
      BY <2>4 DEF HandleLine
    <3>2. \A l \in Notices : Accounted(l, port', wire, taken)
      BY <1>0, <1>n, <3>1, ExpireAccounted
    <3>3. \A l \in Notices : Accounted(l, port', wire', taken')
      BY <2>1, <2>3, <3>1, <3>2 DEF Accounted
    <3>4. AllAccounted'
      BY <2>2, <3>3 DEF AllAccounted, Accounted
    <3> QED BY <1>0, <3>1, <3>4, ExpireLoses DEF LateLoss, LosesLate
  <2>5. ASSUME NEW q, Reads(port, q, line),
               Popped(q, Head(q.buf)) \/ (q.buf = <<>> /\ NothingPolled(q, {"poll", "tick"}))
        PROVE  AllAccounted' /\ LateLoss
    <3>1. SoundPort(q) /\ LosesLate(port, q)
      BY <2>5 DEF Reads
    <3>2. \A l \in Notices : Accounted(l, q, Tail(wire), taken)
      BY <1>0, <1>n, <2>1, <2>5, ReadAccounted
    <3>3. CASE Popped(q, Head(q.buf))
      <4>1. /\ port' = [q EXCEPT !.buf = Tail(q.buf)] /\ q.buf # <<>>
            /\ taken' = taken \cup {Head(q.buf)}
        BY <3>3 DEF Popped, HandleLine
      <4>2. LateLoss
        BY <3>1, <4>1, PoppedLoses DEF LosesLate, LateLoss
      <4>3. \A l \in Notices : Accounted(l, port', wire', taken')
        BY <2>1, <3>1, <3>2, <4>1, PopAccounted
      <4> QED BY <2>2, <4>2, <4>3 DEF AllAccounted, Accounted
    <3>4. CASE NothingPolled(q, {"poll", "tick"})
      <4>1. port' = q /\ taken' = taken
        BY <3>4 DEF NothingPolled
      <4>2. \A l \in Notices : Accounted(l, port', wire', taken')
        BY <2>1, <3>2, <4>1
      <4> QED BY <2>2, <3>1, <4>1, <4>2 DEF AllAccounted, Accounted, LosesLate, LateLoss
    <3> QED BY <2>5, <3>3, <3>4
  <2> QED BY <1>2, <2>4, <2>5, PollWireEffect
<1>3. CASE EndPoll
  <2>1. PICK q \in {port, ExpireHeader(port)} : port' = q /\ taken' = taken
    BY <1>3 DEF EndPoll, NothingPolled
  <2>2. wire' = wire /\ Notices' = Notices
    BY <1>3 DEF EndPoll, networkVars, Notices
  <2>3. \A l \in Notices : Accounted(l, port', wire', taken')
    BY <1>0, <1>n, <2>1, <2>2, ExpireAccounted
  <2>4. AllAccounted'
    BY <2>2, <2>3 DEF AllAccounted, Accounted
  <2>5. LosesLate(port, q)
    BY <1>0, <2>1, ExpireLoses DEF LosesLate
  <2> QED BY <2>1, <2>4, <2>5 DEF LosesLate, LateLoss
<1> QED BY <1>1, <1>2, <1>3

LEMMA AccountedNext ==
  ASSUME Types, AllAccounted, [Next]_vars
  PROVE  AllAccounted' /\ LateLoss
<1>0. SoundPort(port) /\ PortTypes /\ wire \in Seq(Lines)
  BY DEF Types, PortTypes
<1>n. \A l \in Notices : l \in Lines /\ Notice(l) /\ l # NoLine /\ Accounted(l, port, wire, taken)
  BY NoticesAreLines DEF AllAccounted
<1>s. ASSUME port' = port PROVE LateLoss
  BY <1>s DEF LateLoss
<1>a. ASSUME NEW line \in Lines, Announce(line) PROVE AllAccounted' /\ LateLoss
  <2>1. /\ arrived' = arrived \cup {line} /\ wire' = Append(wire, line)
        /\ port' = port /\ taken' = taken
    BY <1>a DEF Announce, Emit, loopVars
  <2>2. ToSet(wire') = ToSet(wire) \cup {line}
    BY <1>0, <2>1, AppendedSet
  <2>3. \A l \in Notices' : Accounted(l, port', wire', taken')
    BY <1>n, <2>1, <2>2 DEF Notices, Accounted
  <2> QED BY <1>s, <2>1, <2>3 DEF AllAccounted, Accounted
<1>1. CASE Network \/ PduPrinted \/ PduGarbled
  <2>0. /\ ringing # NoRing => ringing.call \in Calls
        /\ owed # Nobody => owed \in Direct
    BY DEF Types, NetworkTypes
  <2>1. ASSUME NEW m \in Stored, SmsStored(m) PROVE AllAccounted' /\ LateLoss
    BY <1>a, <2>1, LineTypes DEF SmsStored
  <2>2. ASSUME NEW m \in Direct, SmsDelivered(m) PROVE AllAccounted' /\ LateLoss
    BY <1>a, <2>2, LineTypes DEF SmsDelivered
  <2>3. ASSUME NEW e \in Events, DataEvent(e) PROVE AllAccounted' /\ LateLoss
    BY <1>a, <2>3, LineTypes DEF DataEvent
  <2>4. ASSUME NEW c \in Calls, Ring(c) PROVE AllAccounted' /\ LateLoss
    BY <1>a, <2>4, LineTypes DEF Ring, CallKinds
  <2>5. CASE CallerId
    BY <1>a, <2>0, <2>5, LineTypes DEF CallerId, CallKinds
  <2>6. CASE CallEnds
    BY <1>a, <2>0, <2>6, LineTypes DEF CallEnds, CallKinds
  <2>7. CASE CallEndsSilently
    BY <1>n, <1>s, <2>7 DEF CallEndsSilently, portVars, loopVars, Notices, AllAccounted
  <2>8. CASE PduPrinted
    BY <1>a, <2>0, <2>8, LineTypes DEF PduPrinted
  <2>9. CASE PduGarbled
    BY <1>a, <2>0, <2>9, LineTypes DEF PduGarbled
  <2> QED BY <1>1, <2>1, <2>2, <2>3, <2>4, <2>5, <2>6, <2>7, <2>8, <2>9 DEF Network
<1>2. CASE ModemAnswers
  <2>1. port' = port /\ taken' = taken /\ Notices' = Notices
    BY <1>2, ModemTypesKept DEF ModemAnswers, loopVars, Notices
  <2>2. ToSet(wire) \subseteq ToSet(wire')
    <3>1. ASSUME NEW k \in AnswerKinds, Head(jobs).n \in Nat,
                 wire' = Append(wire, LineOf(k, Head(jobs).n))
          PROVE  ToSet(wire) \subseteq ToSet(wire')
      BY <1>0, <3>1, LineTypes, AppendedSet
    <3> QED BY <1>2, <3>1, ModemTypesKept
  <2>3. \A l \in Notices : Accounted(l, port', wire', taken')
    BY <1>n, <2>1, <2>2 DEF Accounted
  <2> QED BY <1>s, <2>1, <2>3 DEF AllAccounted, Accounted
<1>3. CASE OnPort
  <2>1. taken' = taken /\ Notices' = Notices /\ PortStep
    BY <1>3 DEF OnPort, networkVars, loopVars, Notices
  <2>2. CASE Reading
    <3>1. \A l \in Notices : Accounted(l, port', wire', taken')
      BY <1>0, <1>n, <2>1, <2>2, ReadAccounted DEF Reading
    <3> QED BY <2>1, <2>2, <3>1 DEF Reading, Reads, LosesLate, LateLoss, AllAccounted, Accounted
  <2>3. CASE wire' = wire /\ Steady(port, port')
    BY <1>n, <2>1, <2>3 DEF Steady, LateLoss, AllAccounted, Accounted
  <2> QED BY <1>0, <2>1, <2>2, <2>3, PortStepEffect
<1>4. CASE \/ Tick \/ CommandDone \/ EndPass \/ Elapse \/ Age
           \/ \E cmd \in OwnCommands : Command(cmd)
  <2>1. /\ wire' = wire /\ taken' = taken /\ Notices' = Notices
        /\ port' = port \/ port' = [port EXCEPT !.old = TRUE]
    BY <1>4 DEF Tick, CommandDone, EndPass, Elapse, Age, HeaderAges, Command, portVars,
                networkVars, loopVars, Notices
  <2>2. port'.header = port.header /\ port'.buf = port.buf /\ port'.lost = port.lost
    BY <1>0, <2>1 DEF SoundPort, Ports
  <2> QED BY <1>n, <2>1, <2>2 DEF LateLoss, AllAccounted, Accounted
<1>5. CASE UNCHANGED vars
  BY <1>n, <1>s, <1>5 DEF vars, portVars, networkVars, loopVars, Notices, AllAccounted, Accounted
<1> QED BY <1>1, <1>2, <1>3, <1>4, <1>5, PollingAccounts DEF Next, Device

(* Whatever the network announced about an SMS or a call is on the wire,    *)
(* held by the port, handled, or counted among the dropped URCs; and for a  *)
(* call line to go for want of room, all that can be recovered went first.  *)
THEOREM NoticesAccounted == Spec => NothingLostSilently
<1>1. Init => AllAccounted
  BY DEF Init, AllAccounted, Notices
<1>2. Types /\ AllAccounted /\ [Next]_vars => AllAccounted'
  BY AccountedNext
<1> DEFINE Held == \A l \in Notices :
                     \/ l \in taken \cup port.lost \cup {port.header}
                     \/ l \in ToSet(port.buf) \cup ToSet(wire)
           Loss == \A l \in port'.lost \ port.lost :
                     l.kind \in {"ring", "clip", "gone"} =>
                       \A i \in DOMAIN port'.buf : port'.buf[i].kind \notin {"cmti", "cgev"}
<1>3. AllAccounted => Held
  BY DEF AllAccounted, Accounted
<1>4. Types /\ AllAccounted /\ [Next]_vars => Loss
  BY AccountedNext DEF LateLoss, CallLine, CallKinds, NoEvictable, Evictable
<1>5. Types /\ AllAccounted /\ [Next]_vars => [Loss]_vars
  BY <1>4
<1> HIDE DEF Held, Loss
<1>6. Spec => []Held /\ [][Loss]_vars
  BY <1>1, <1>2, <1>3, <1>5, TypesInit, TypesNext, PTL DEF Spec
<1> QED BY <1>6 DEF NothingLostSilently, Held, Loss

-----------------------------------------------------------------------------
(* A direct SMS and its header.  The header the port holds stands before    *)
(* the lines on the wire, at index 0.                                       *)

Body(l) == l.kind \in {"cmt", "pdu", "noise"}

HeaderAt(p, w, i, m) ==
  \/ i = 0 /\ p.header # NoLine /\ p.header.of = m
  \/ i \in 1 .. Len(w) /\ w[i].kind = "cmt" /\ w[i].of = m

NoBody(w, i, j) == \A k \in i + 1 .. j - 1 : ~Body(w[k])

(* After a header, the next line of a direct SMS is its PDU or a garbled one. *)
Followed(p, w) ==
  \A i \in 0 .. Len(w), m \in Direct :
    HeaderAt(p, w, i, m) =>
      \A j \in i + 1 .. Len(w) :
        Body(w[j]) /\ NoBody(w, i, j) => w[j].kind = "noise" \/ w[j] = LineOf("pdu", m)

(* A header that nothing follows yet is that of the PDU owed. *)
Awaited(p, w, o) ==
  /\ \A i \in 0 .. Len(w), m \in Direct :
       HeaderAt(p, w, i, m) /\ NoBody(w, i, Len(w) + 1) => o = m
  /\ o # Nobody => \E i \in 0 .. Len(w) : HeaderAt(p, w, i, o) /\ NoBody(w, i, Len(w) + 1)

(* A header grows old only while its PDU waits on the wire. *)
AgedInWait(p, w) == p.old => \E i \in 1 .. Len(w) : Body(w[i])

(* The PDU of a direct SMS comes after its header. *)
Preceded(p, w) ==
  /\ ~p.old
  /\ \A j \in 1 .. Len(w) :
       w[j].kind = "pdu" /\ w[j].of \in Direct =>
         \E i \in 0 .. j - 1 : HeaderAt(p, w, i, w[j].of) /\ NoBody(w, i, j)

Listening == op.state \in {"collect", "prompt"}

WirePaired ==
  /\ Followed(port, wire)
  /\ Awaited(port, wire, owed)
  /\ AgedInWait(port, wire)
  /\ Listening => Preceded(port, wire)

LEMMA LineParts ==
  ASSUME NEW l \in Lines
  PROVE  /\ l.kind \in LineKinds /\ l.of \in Sources /\ l = LineOf(l.kind, l.of) /\ l # NoLine
         /\ l.kind = "cmt" => l.of \in Direct
         /\ l.kind \in CallKinds => l.of \in Calls
         /\ l.kind = "pdu" => l.of \in Direct \cup Nat
         /\ l.kind \in AnswerKinds \ {"pdu"} => l.of \in Nat
BY PartiesAssumption DEF Lines, LineOf, Sources

LEMMA TailOf ==
  ASSUME NEW S, NEW w \in Seq(S), w # <<>>
  PROVE  /\ Len(w) \in Nat \ {0} /\ Len(Tail(w)) = Len(w) - 1 /\ Head(w) = w[1]
         /\ Tail(w) \in Seq(S) /\ w[1] \in S
         /\ \A i \in 1 .. Len(w) - 1 : Tail(w)[i] = w[i + 1]
         /\ \A i \in 1 .. Len(w) : w[i] \in S
<1>1. /\ Len(w) \in Nat \ {0} /\ Len(Tail(w)) = Len(w) - 1 /\ Head(w) = w[1]
      /\ Tail(w) \in Seq(S)
      /\ \A i \in 1 .. Len(Tail(w)) : Tail(w)[i] = w[i + 1]
  BY HeadTailProperties, EmptySeq
<1> QED BY <1>1, ElementOfSeq

LEMMA AppendOf ==
  ASSUME NEW S, NEW w \in Seq(S), NEW e \in S
  PROVE  /\ Len(w) \in Nat /\ Len(Append(w, e)) = Len(w) + 1 /\ Append(w, e) \in Seq(S)
         /\ \A i \in 1 .. Len(w) : Append(w, e)[i] = w[i]
         /\ Append(w, e)[Len(w) + 1] = e
         /\ \A i \in 1 .. Len(w) : w[i] \in S
BY AppendProperties, LenProperties, ElementOfSeq

(* Where a header was before a line was read. *)
LEMMA HeaderWas ==
  ASSUME NEW w \in Seq(Lines), w # <<>>, NEW p, NEW q, HeaderAfter(p, q, w[1]),
         NEW i \in 0 .. Len(w) - 1, NEW m, HeaderAt(q, Tail(w), i, m)
  PROVE  \E h \in 0 .. i + 1 : HeaderAt(p, w, h, m) /\ NoBody(w, h, i + 2)
<1>1. /\ Len(w) \in Nat \ {0} /\ Len(Tail(w)) = Len(w) - 1
      /\ \A k \in 1 .. Len(w) - 1 : Tail(w)[k] = w[k + 1]
  BY TailOf
<1>2. CASE i > 0
  <2>1. HeaderAt(p, w, i + 1, m)
    BY <1>1, <1>2 DEF HeaderAt
  <2>2. NoBody(w, i + 1, i + 2)
    BY DEF NoBody
  <2> QED BY <1>1, <2>1, <2>2
<1>3. CASE i = 0
  <2>1. q.header # NoLine /\ q.header.of = m
    BY <1>3 DEF HeaderAt
  <2>2. CASE w[1].kind = "cmt"
    <3>1. HeaderAt(p, w, 1, m)
      BY <1>1, <2>1, <2>2 DEF HeaderAfter, HeaderAt
    <3>2. NoBody(w, 1, 2)
      BY DEF NoBody
    <3> QED BY <1>3, <3>1, <3>2
  <2>3. CASE w[1].kind # "cmt"
    <3>1. ~Body(w[1]) /\ q.header = p.header
      BY <2>1, <2>3 DEF HeaderAfter, Body
    <3>2. HeaderAt(p, w, 0, m)
      BY <2>1, <3>1 DEF HeaderAt
    <3>3. NoBody(w, 0, 2)
      BY <3>1 DEF NoBody
    <3> QED BY <1>3, <3>2, <3>3
  <2> QED BY <2>2, <2>3
<1> QED BY <1>2, <1>3

(* Where a header is after a line was read. *)
LEMMA HeaderIs ==
  ASSUME NEW w \in Seq(Lines), w # <<>>, NEW p, NEW q, HeaderAfter(p, q, w[1]),
         NEW i \in 0 .. Len(w), NEW m, HeaderAt(p, w, i, m),
         i = 0 => ~p.old /\ ~Body(w[1])
  PROVE  HeaderAt(q, Tail(w), IF i = 0 THEN 0 ELSE i - 1, m)
<1>1. /\ Len(w) \in Nat \ {0} /\ Len(Tail(w)) = Len(w) - 1 /\ w[1] \in Lines
      /\ \A k \in 1 .. Len(w) - 1 : Tail(w)[k] = w[k + 1]
  BY TailOf
<1>2. CASE i = 0
  BY <1>2 DEF HeaderAt, HeaderAfter, Body
<1>3. CASE i = 1
  <2>1. w[1].kind = "cmt" /\ w[1].of = m
    BY <1>3 DEF HeaderAt
  <2> QED BY <1>1, <1>3, <2>1, LineParts DEF HeaderAt, HeaderAfter
<1>4. CASE i > 1
  <2>1. w[i].kind = "cmt" /\ w[i].of = m /\ Tail(w)[i - 1] = w[i] /\ i - 1 \in 1 .. Len(Tail(w))
    BY <1>1, <1>4 DEF HeaderAt
  <2> QED BY <1>4, <2>1 DEF HeaderAt
<1> QED BY <1>2, <1>3, <1>4

(* A line is read. *)
LEMMA ReadPairs ==
  ASSUME NEW w \in Seq(Lines), w # <<>>, NEW p, NEW q, HeaderAfter(p, q, w[1]), NEW o,
         q.old => q.header # NoLine,
         Followed(p, w), Awaited(p, w, o), AgedInWait(p, w)
  PROVE  /\ Followed(q, Tail(w)) /\ Awaited(q, Tail(w), o) /\ AgedInWait(q, Tail(w))
         /\ Preceded(p, w) => Preceded(q, Tail(w))
<1> DEFINE v == Tail(w)
           n == Len(w)
<1>1. /\ n \in Nat \ {0} /\ Len(v) = n - 1 /\ \A k \in 1 .. n - 1 : v[k] = w[k + 1]
  BY TailOf
<1> HIDE DEF v, n
<1>2. ASSUME NEW i \in 0 .. n - 1, NEW j \in 1 .. n, NEW h \in 0 .. i + 1,
             NoBody(v, i, j), NoBody(w, h, i + 2)
      PROVE  NoBody(w, h, j + 1)
  <2> SUFFICES ASSUME NEW k \in h + 1 .. j PROVE ~Body(w[k])
    BY DEF NoBody
  <2>1. CASE k <= i + 1
    BY <1>2, <2>1 DEF NoBody
  <2>2. CASE k > i + 1
    <3>1. k - 1 \in i + 1 .. j - 1 /\ k - 1 \in 1 .. n - 1
      BY <1>1, <2>2
    <3>2. v[k - 1] = w[k]
      BY <1>1, <3>1
    <3> QED BY <1>2, <3>1, <3>2 DEF NoBody
  <2> QED BY <2>1, <2>2
<1>3. Followed(q, v)
  <2> SUFFICES ASSUME NEW i \in 0 .. n - 1, NEW m \in Direct, HeaderAt(q, v, i, m),
                      NEW j \in i + 1 .. n - 1, Body(v[j]), NoBody(v, i, j)
               PROVE  v[j].kind = "noise" \/ v[j] = LineOf("pdu", m)
    BY <1>1 DEF Followed
  <2>1. PICK h \in 0 .. i + 1 : HeaderAt(p, w, h, m) /\ NoBody(w, h, i + 2)
    BY <1>1, HeaderWas DEF v, n
  <2>2. NoBody(w, h, j + 1) /\ v[j] = w[j + 1] /\ j + 1 \in h + 1 .. n /\ h \in 0 .. n
    BY <1>1, <1>2, <2>1
  <2> QED BY <2>1, <2>2 DEF Followed, n
<1>4. ASSUME NEW i \in 0 .. n - 1, NEW m \in Direct, HeaderAt(q, v, i, m), NoBody(v, i, n)
      PROVE  o = m
  <2>1. PICK h \in 0 .. i + 1 : HeaderAt(p, w, h, m) /\ NoBody(w, h, i + 2)
    BY <1>1, <1>4, HeaderWas DEF v, n
  <2>2. NoBody(w, h, n + 1) /\ h \in 0 .. n
    BY <1>1, <1>2, <1>4, <2>1
  <2> QED BY <2>1, <2>2 DEF Awaited, n
<1>5. ASSUME NEW i \in 0 .. n, NEW j \in 1 .. n + 1, NoBody(w, i, j)
      PROVE  NoBody(v, IF i = 0 THEN 0 ELSE i - 1, j - 1)
  <2> DEFINE g == IF i = 0 THEN 0 ELSE i - 1
  <2> SUFFICES ASSUME NEW k \in g + 1 .. j - 2 PROVE ~Body(v[k])
    BY DEF NoBody
  <2>1. k + 1 \in i + 1 .. j - 1 /\ k \in 1 .. n - 1
    BY <1>1
  <2> QED BY <1>1, <1>5, <2>1 DEF NoBody
<1>6. ASSUME o # Nobody
      PROVE  \E i \in 0 .. n - 1 : HeaderAt(q, v, i, o) /\ NoBody(v, i, n)
  <2>1. PICK i \in 0 .. n : HeaderAt(p, w, i, o) /\ NoBody(w, i, n + 1)
    BY <1>6 DEF Awaited, n
  <2>2. ASSUME i = 0 PROVE ~p.old /\ ~Body(w[1])
    BY <1>1, <2>1, <2>2 DEF NoBody, AgedInWait, n
  <2>3. HeaderAt(q, v, IF i = 0 THEN 0 ELSE i - 1, o)
    BY <2>1, <2>2, HeaderIs DEF v, n
  <2>4. NoBody(v, IF i = 0 THEN 0 ELSE i - 1, n)
    BY <1>1, <1>5, <2>1
  <2> QED BY <1>1, <2>3, <2>4
<1>7. Awaited(q, v, o)
  <2>1. Len(v) = n - 1 /\ Len(v) + 1 = n
    BY <1>1
  <2> QED BY <1>4, <1>6, <2>1 DEF Awaited
<1>8. AgedInWait(q, v)
  <2> SUFFICES ASSUME q.old PROVE \E i \in 1 .. n - 1 : Body(v[i])
    BY <1>1 DEF AgedInWait
  <2>1. p.old /\ q.header = p.header
    BY DEF HeaderAfter
  <2>2. PICK i \in 1 .. n : Body(w[i])
    BY <2>1 DEF AgedInWait, n
  <2>3. CASE i = 1
    BY <2>1, <2>2, <2>3 DEF HeaderAfter, Body
  <2>4. CASE i > 1
    <3>1. i - 1 \in 1 .. n - 1 /\ v[i - 1] = w[i]
      BY <1>1, <2>4
    <3> QED BY <2>2, <3>1
  <2> QED BY <2>3, <2>4
<1>9. ASSUME Preceded(p, w) PROVE Preceded(q, v)
  <2>1. ~q.old
    BY <1>9 DEF Preceded, HeaderAfter
  <2> SUFFICES ASSUME NEW j \in 1 .. n - 1, v[j].kind = "pdu", v[j].of \in Direct
               PROVE  \E i \in 0 .. j - 1 : HeaderAt(q, v, i, v[j].of) /\ NoBody(v, i, j)
    BY <1>1, <2>1 DEF Preceded
  <2>2. j + 1 \in 1 .. n /\ v[j] = w[j + 1]
    BY <1>1
  <2>3. PICK i \in 0 .. j : HeaderAt(p, w, i, v[j].of) /\ NoBody(w, i, j + 1)
    BY <1>9, <2>2 DEF Preceded, n
  <2>4. ASSUME i = 0 PROVE ~p.old /\ ~Body(w[1])
    BY <1>9, <2>3, <2>4 DEF NoBody, Preceded
  <2>5. i \in 0 .. n
    BY <1>1
  <2>6. HeaderAt(q, v, IF i = 0 THEN 0 ELSE i - 1, v[j].of)
    BY <2>3, <2>4, <2>5, HeaderIs DEF v, n
  <2>7. NoBody(v, IF i = 0 THEN 0 ELSE i - 1, j)
    BY <1>1, <1>5, <2>3, <2>5
  <2> QED BY <2>6, <2>7
<1> QED BY <1>3, <1>7, <1>8, <1>9 DEF v

(* A line arrives. *)
LEMMA HeaderBefore ==
  ASSUME NEW w \in Seq(Lines), NEW line \in Lines, NEW p,
         NEW i \in 0 .. Len(w), NEW m
  PROVE  HeaderAt(p, Append(w, line), i, m) <=> HeaderAt(p, w, i, m)
<1>1. /\ Len(w) \in Nat /\ Len(Append(w, line)) = Len(w) + 1
      /\ \A k \in 1 .. Len(w) : Append(w, line)[k] = w[k]
  BY AppendOf
<1> QED BY <1>1 DEF HeaderAt

LEMMA BodyBefore ==
  ASSUME NEW w \in Seq(Lines), NEW line \in Lines,
         NEW i \in 0 .. Len(w), NEW j \in 0 .. Len(w) + 1
  PROVE  NoBody(Append(w, line), i, j) <=> NoBody(w, i, j)
<1>1. /\ Len(w) \in Nat /\ \A k \in 1 .. Len(w) : Append(w, line)[k] = w[k]
  BY AppendOf
<1> QED BY <1>1 DEF NoBody

(* A line that has to do with no direct SMS. *)
LEMMA OtherArrives ==
  ASSUME NEW w \in Seq(Lines), NEW line \in Lines, ~Body(line), NEW p, NEW o,
         Followed(p, w), Awaited(p, w, o), AgedInWait(p, w)
  PROVE  LET v == Append(w, line)
         IN  /\ Followed(p, v) /\ Awaited(p, v, o) /\ AgedInWait(p, v)
             /\ Preceded(p, w) => Preceded(p, v)
<1> DEFINE v == Append(w, line)
           n == Len(w)
<1>1. /\ n \in Nat /\ Len(v) = n + 1 /\ v[n + 1] = line
      /\ \A k \in 1 .. n : v[k] = w[k]
  BY AppendOf
<1>2. \A i \in 0 .. n : \A m : HeaderAt(p, v, i, m) <=> HeaderAt(p, w, i, m)
  BY HeaderBefore
<1>3. \A i \in 0 .. n, j \in 0 .. n + 1 : NoBody(v, i, j) <=> NoBody(w, i, j)
  BY BodyBefore
<1> HIDE DEF v, n
<1>4. \A m : ~HeaderAt(p, v, n + 1, m)
  BY <1>1 DEF HeaderAt, Body
<1>5. \A i \in 0 .. n : NoBody(v, i, n + 2) <=> NoBody(w, i, n + 1)
  <2> TAKE i \in 0 .. n
  <2>1. NoBody(v, i, n + 2) <=> NoBody(v, i, n + 1)
    BY <1>1 DEF NoBody
  <2> QED BY <1>1, <1>3, <2>1
<1>6. Followed(p, v)
  <2> SUFFICES ASSUME NEW i \in 0 .. n + 1, NEW m \in Direct, HeaderAt(p, v, i, m),
                      NEW j \in i + 1 .. n + 1, Body(v[j]), NoBody(v, i, j)
               PROVE  v[j].kind = "noise" \/ v[j] = LineOf("pdu", m)
    BY <1>1 DEF Followed
  <2>1. i \in 0 .. n /\ j \in i + 1 .. n /\ v[j] = w[j]
    BY <1>1, <1>4
  <2>2. HeaderAt(p, w, i, m) /\ NoBody(w, i, j)
    BY <1>1, <1>2, <1>3, <2>1
  <2> QED BY <2>1, <2>2 DEF Followed, n
<1>7. Awaited(p, v, o)
  <2>1. ASSUME NEW i \in 0 .. n + 1, NEW m \in Direct, HeaderAt(p, v, i, m), NoBody(v, i, n + 2)
        PROVE  o = m
    <3>1. i \in 0 .. n
      BY <1>1, <1>4, <2>1
    <3> QED BY <1>2, <1>5, <2>1, <3>1 DEF Awaited, n
  <2>2. o # Nobody => \E i \in 0 .. n + 1 : HeaderAt(p, v, i, o) /\ NoBody(v, i, n + 2)
    <3>1. \A i \in 0 .. n : i \in 0 .. n + 1
      BY <1>1
    <3> QED BY <1>2, <1>5, <3>1 DEF Awaited, n
  <2>3. Len(v) = n + 1 /\ Len(v) + 1 = n + 2
    BY <1>1
  <2> QED BY <2>1, <2>2, <2>3 DEF Awaited
<1>8. AgedInWait(p, v)
  BY <1>1 DEF AgedInWait, n
<1>9. ASSUME Preceded(p, w) PROVE Preceded(p, v)
  <2> SUFFICES ASSUME NEW j \in 1 .. n + 1, v[j].kind = "pdu", v[j].of \in Direct
               PROVE  \E i \in 0 .. j - 1 : HeaderAt(p, v, i, v[j].of) /\ NoBody(v, i, j)
    BY <1>1, <1>9 DEF Preceded
  <2>1. j \in 1 .. n /\ v[j] = w[j]
    BY <1>1 DEF Body
  <2>2. PICK i \in 0 .. j - 1 : HeaderAt(p, w, i, w[j].of) /\ NoBody(w, i, j)
    BY <1>9, <2>1 DEF Preceded, n
  <2>3. i \in 0 .. n /\ j \in 0 .. n + 1
    BY <1>1, <2>1
  <2> QED BY <1>2, <1>3, <2>1, <2>2, <2>3
<1> QED BY <1>6, <1>7, <1>8, <1>9 DEF v

(* The header of a direct SMS. *)
LEMMA HeaderArrives ==
  ASSUME NEW w \in Seq(Lines), NEW m \in Direct, NEW p,
         Followed(p, w), Awaited(p, w, Nobody), AgedInWait(p, w)
  PROVE  LET v == Append(w, LineOf("cmt", m))
         IN  /\ Followed(p, v) /\ Awaited(p, v, m) /\ AgedInWait(p, v)
             /\ Preceded(p, w) => Preceded(p, v)
<1> DEFINE v == Append(w, LineOf("cmt", m))
           n == Len(w)
<1>0. LineOf("cmt", m) \in Lines
  BY LineTypes
<1>1. /\ n \in Nat /\ Len(v) = n + 1 /\ v[n + 1] = LineOf("cmt", m)
      /\ \A k \in 1 .. n : v[k] = w[k]
  BY <1>0, AppendOf
<1>2. \A i \in 0 .. n : \A k : HeaderAt(p, v, i, k) <=> HeaderAt(p, w, i, k)
  BY <1>0, HeaderBefore
<1>3. \A i \in 0 .. n, j \in 0 .. n + 1 : NoBody(v, i, j) <=> NoBody(w, i, j)
  BY <1>0, BodyBefore
<1> HIDE DEF v, n
<1>4. HeaderAt(p, v, n + 1, m) /\ NoBody(v, n + 1, n + 2)
  BY <1>1 DEF HeaderAt, NoBody, LineOf
<1>p. \A k \in Direct : k # Nobody
  BY PartiesAssumption DEF Nobody
<1>5. \A i \in 0 .. n, k \in Direct : HeaderAt(p, w, i, k) => ~NoBody(w, i, n + 1)
  BY <1>p DEF Awaited, n
<1>6. Followed(p, v)
  <2> SUFFICES ASSUME NEW i \in 0 .. n + 1, NEW k \in Direct, HeaderAt(p, v, i, k),
                      NEW j \in i + 1 .. n + 1, Body(v[j]), NoBody(v, i, j)
               PROVE  v[j].kind = "noise" \/ v[j] = LineOf("pdu", k)
    BY <1>1 DEF Followed
  <2>1. i \in 0 .. n
    BY <1>1
  <2>2. HeaderAt(p, w, i, k) /\ NoBody(w, i, j) /\ j # n + 1
    BY <1>1, <1>2, <1>3, <1>5, <2>1
  <2>3. j \in i + 1 .. n /\ v[j] = w[j]
    BY <1>1, <2>2
  <2> QED BY <2>1, <2>2, <2>3 DEF Followed, n
<1>7. Awaited(p, v, m)
  <2>1. ASSUME NEW i \in 0 .. n + 1, NEW k \in Direct, HeaderAt(p, v, i, k), NoBody(v, i, n + 2)
        PROVE  m = k
    <3>1. CASE i = n + 1
      BY <1>1, <2>1, <3>1 DEF HeaderAt, LineOf
    <3>2. CASE i \in 0 .. n
      <4>1. HeaderAt(p, w, i, k) /\ NoBody(v, i, n + 1)
        BY <1>1, <1>2, <2>1, <3>2 DEF NoBody
      <4> QED BY <1>1, <1>3, <1>5, <3>2, <4>1
    <3> QED BY <1>1, <3>1, <3>2
  <2>2. Len(v) = n + 1 /\ Len(v) + 1 = n + 2 /\ n + 1 \in 0 .. n + 1
    BY <1>1
  <2> QED BY <1>4, <2>1, <2>2 DEF Awaited
<1>8. AgedInWait(p, v)
  BY <1>1 DEF AgedInWait, n
<1>9. ASSUME Preceded(p, w) PROVE Preceded(p, v)
  <2> SUFFICES ASSUME NEW j \in 1 .. n + 1, v[j].kind = "pdu", v[j].of \in Direct
               PROVE  \E i \in 0 .. j - 1 : HeaderAt(p, v, i, v[j].of) /\ NoBody(v, i, j)
    BY <1>1, <1>9 DEF Preceded
  <2>1. j \in 1 .. n /\ v[j] = w[j]
    BY <1>1 DEF LineOf
  <2>2. PICK i \in 0 .. j - 1 : HeaderAt(p, w, i, w[j].of) /\ NoBody(w, i, j)
    BY <1>9, <2>1 DEF Preceded, n
  <2>3. i \in 0 .. n /\ j \in 0 .. n + 1
    BY <1>1, <2>1
  <2> QED BY <1>2, <1>3, <2>1, <2>2, <2>3
<1> QED BY <1>6, <1>7, <1>8, <1>9 DEF v

(* The PDU owed, an overlong line in its place, or the body of an answer    *)
(* while none is owed.                                                      *)
LEMMA BodyArrives ==
  ASSUME NEW w \in Seq(Lines), NEW line \in Lines, line.kind \in {"pdu", "noise"}, NEW p,
         NEW o \in Direct \cup {Nobody},
         Followed(p, w), Awaited(p, w, o), AgedInWait(p, w),
         IF o = Nobody THEN line.kind = "pdu" /\ line.of \in Nat ELSE line.of = o
  PROVE  LET v == Append(w, line)
         IN  /\ Followed(p, v) /\ Awaited(p, v, Nobody) /\ AgedInWait(p, v)
             /\ Preceded(p, w) => Preceded(p, v)
<1> DEFINE v == Append(w, line)
           n == Len(w)
<1>1. /\ n \in Nat /\ Len(v) = n + 1 /\ v[n + 1] = line
      /\ \A k \in 1 .. n : v[k] = w[k]
  BY AppendOf
<1>2. \A i \in 0 .. n : \A k : HeaderAt(p, v, i, k) <=> HeaderAt(p, w, i, k)
  BY HeaderBefore
<1>3. \A i \in 0 .. n, j \in 0 .. n + 1 : NoBody(v, i, j) <=> NoBody(w, i, j)
  BY BodyBefore
<1> HIDE DEF v, n
<1>p. \A k \in Direct : k # Nobody /\ k \notin Nat
  BY PartiesAssumption DEF Nobody
<1>4. \A m : ~HeaderAt(p, v, n + 1, m)
  BY <1>1 DEF HeaderAt
<1>5. \A i \in 0 .. n, k \in Direct : HeaderAt(p, w, i, k) /\ NoBody(w, i, n + 1) => o = k
  BY DEF Awaited, n
<1>6. Followed(p, v)
  <2> SUFFICES ASSUME NEW i \in 0 .. n + 1, NEW k \in Direct, HeaderAt(p, v, i, k),
                      NEW j \in i + 1 .. n + 1, Body(v[j]), NoBody(v, i, j)
               PROVE  v[j].kind = "noise" \/ v[j] = LineOf("pdu", k)
    BY <1>1 DEF Followed
  <2>1. i \in 0 .. n
    BY <1>1
  <2>2. HeaderAt(p, w, i, k) /\ NoBody(w, i, j)
    BY <1>1, <1>2, <1>3, <2>1
  <2>3. CASE j = n + 1
    <3>1. o = k /\ o # Nobody
      BY <1>5, <1>p, <2>1, <2>2, <2>3
    <3> QED BY <1>1, <2>3, <3>1, LineParts
  <2>4. CASE j \in i + 1 .. n
    <3>1. v[j] = w[j]
      BY <1>1, <2>1, <2>4
    <3> QED BY <2>1, <2>2, <2>4, <3>1 DEF Followed, n
  <2> QED BY <1>1, <2>1, <2>3, <2>4
<1>7. Awaited(p, v, Nobody)
  <2>1. ASSUME NEW i \in 0 .. n + 1, NEW k \in Direct, HeaderAt(p, v, i, k), NoBody(v, i, n + 2)
        PROVE  FALSE
    <3>1. i \in 0 .. n /\ n + 1 \in i + 1 .. n + 2 - 1
      BY <1>1, <1>4, <2>1
    <3> QED BY <1>1, <2>1, <3>1 DEF NoBody, Body
  <2>2. Len(v) = n + 1 /\ Len(v) + 1 = n + 2
    BY <1>1
  <2> QED BY <2>1, <2>2 DEF Awaited
<1>8. AgedInWait(p, v)
  BY <1>1 DEF AgedInWait, n
<1>9. ASSUME Preceded(p, w) PROVE Preceded(p, v)
  <2> SUFFICES ASSUME NEW j \in 1 .. n + 1, v[j].kind = "pdu", v[j].of \in Direct
               PROVE  \E i \in 0 .. j - 1 : HeaderAt(p, v, i, v[j].of) /\ NoBody(v, i, j)
    BY <1>1, <1>9 DEF Preceded
  <2>1. CASE j \in 1 .. n
    <3>1. v[j] = w[j]
      BY <1>1, <2>1
    <3>2. PICK i \in 0 .. j - 1 : HeaderAt(p, w, i, w[j].of) /\ NoBody(w, i, j)
      BY <1>9, <2>1, <3>1 DEF Preceded, n
    <3>3. i \in 0 .. n /\ j \in 0 .. n + 1
      BY <1>1, <2>1
    <3> QED BY <1>2, <1>3, <3>1, <3>2, <3>3
  <2>2. CASE j = n + 1
    <3>1. line.of = o /\ o # Nobody
      BY <1>1, <1>p, <2>2
    <3>2. PICK i \in 0 .. n : HeaderAt(p, w, i, o) /\ NoBody(w, i, n + 1)
      BY <3>1 DEF Awaited, n
    <3>3. HeaderAt(p, v, i, v[j].of) /\ NoBody(v, i, j) /\ i \in 0 .. j - 1
      BY <1>1, <1>2, <1>3, <2>2, <3>1, <3>2
    <3> QED BY <3>3
  <2> QED BY <1>1, <2>1, <2>2
<1> QED BY <1>6, <1>7, <1>8, <1>9 DEF v

LEMMA SamePairs ==
  ASSUME NEW p, NEW q, q.header = p.header, q.old = p.old, NEW w, NEW o
  PROVE  /\ Followed(p, w) => Followed(q, w)
         /\ Awaited(p, w, o) => Awaited(q, w, o)
         /\ AgedInWait(p, w) => AgedInWait(q, w)
         /\ Preceded(p, w) => Preceded(q, w)
<1>1. \A i, m : HeaderAt(q, w, i, m) <=> HeaderAt(p, w, i, m)
  BY DEF HeaderAt
<1> QED BY <1>1 DEF Followed, Awaited, AgedInWait, Preceded

LEMMA ExpiredPairs ==
  ASSUME NEW p, SoundPort(p), NEW w \in Seq(Lines), NEW o,
         Followed(p, w), Awaited(p, w, o), AgedInWait(p, w)
  PROVE  LET q == ExpireHeader(p)
         IN  Followed(q, w) /\ Awaited(q, w, o) /\ AgedInWait(q, w)
<1> DEFINE q == ExpireHeader(p)
<1>1. q.header = (IF p.old THEN NoLine ELSE p.header) /\ ~q.old /\ p.old \in BOOLEAN
  BY ExpireEffect DEF SoundPort, Ports
<1> HIDE DEF q
<1>2. Len(w) \in Nat
  BY LenProperties
<1>3. \A i, m : HeaderAt(q, w, i, m) => HeaderAt(p, w, i, m)
  BY <1>1 DEF HeaderAt
<1>4. \A i, m : HeaderAt(p, w, i, m) => HeaderAt(q, w, i, m) \/ (i = 0 /\ p.old)
  BY <1>1 DEF HeaderAt
<1>5. p.old => ~NoBody(w, 0, Len(w) + 1)
  BY <1>2 DEF AgedInWait, NoBody
<1>6. Followed(q, w)
  BY <1>3 DEF Followed
<1>7. Awaited(q, w, o)
  <2>1. ASSUME o # Nobody
        PROVE  \E i \in 0 .. Len(w) : HeaderAt(q, w, i, o) /\ NoBody(w, i, Len(w) + 1)
    BY <1>4, <1>5, <2>1 DEF Awaited
  <2> QED BY <1>3, <2>1 DEF Awaited
<1> QED BY <1>1, <1>6, <1>7 DEF AgedInWait, q

(* What the loop has taken so far, and what waits in the buffer. *)
TakenPaired ==
  /\ Paired(port.buf)
  /\ expected # NoLine =>
       /\ expected.kind = "cmt"
       /\ port.buf # <<>> /\ port.buf[1] = LineOf("pdu", expected.of)
  /\ \A d \in direct : d[2] = LineOf("pdu", d[1].of)
  /\ \A l \in taken : l.kind = "cmt" => expected = l \/ \E d \in direct : d[1] = l

AllPaired == WirePaired /\ TakenPaired

LEMMA HandledQuietly ==
  ASSUME Types, Polling, NEW line \in Lines, NEW q, HandleLine(line, q)
  PROVE  ~Listening'
<1>1. HandlerTypes /\ op.state = "idle"
  BY DEF Types, LoopTypes, PortTypes, HandlerTypes, Polling
<1>2. op' = op \/ op'.state = "sync"
  <2>1. CASE expected # NoLine
    BY <2>1 DEF HandleLine, NoCommand
  <2>2. CASE expected = NoLine
    <3>1. HandleUrcDeferred(line)
      BY <2>2 DEF HandleLine
    <3> QED BY <1>1, <3>1, UrcTypes
  <2> QED BY <2>1, <2>2
<1> QED BY <1>1, <1>2 DEF Listening

(* The buffer is popped and the line handled. *)
LEMMA PoppedPairs ==
  ASSUME Types, TakenPaired, NEW q, SoundPort(q), Paired(q.buf), HeadStays(port.buf, q.buf),
         NEW line, Popped(q, line)
  PROVE  TakenPaired'
<1> DEFINE b == q.buf
<1>1. /\ b \in Seq(Lines) /\ b # <<>> /\ line = Head(b)
      /\ port' = [q EXCEPT !.buf = Tail(b)] /\ taken' = taken \cup {line}
  BY DEF SoundPort, Ports, Popped, HandleLine
<1>2. /\ port'.buf = Tail(b) /\ Len(b) \in Nat \ {0} /\ Len(Tail(b)) = Len(b) - 1 /\ Head(b) = b[1]
      /\ Tail(b) \in Seq(Lines) /\ b[1] \in Lines
      /\ \A i \in 1 .. Len(b) - 1 : Tail(b)[i] = b[i + 1]
  BY <1>1, PoppedSound, TailOf
<1>3. DOMAIN b = 1 .. Len(b) /\ DOMAIN Tail(b) = 1 .. Len(b) - 1
  BY <1>1, <1>2, LenProperties
<1> HIDE DEF b
<1>4. Paired(Tail(b))
  <2> SUFFICES ASSUME NEW i \in 1 .. Len(b) - 1, Tail(b)[i].kind = "cmt"
               PROVE  i + 1 \in 1 .. Len(b) - 1 /\ Tail(b)[i + 1] = LineOf("pdu", Tail(b)[i].of)
    BY <1>3 DEF Paired
  <2>1. i + 2 \in 1 .. Len(b) /\ b[i + 2] = LineOf("pdu", b[i + 1].of)
    BY <1>2, <1>3 DEF Paired, b
  <2> QED BY <1>2, <2>1
<1>5. CASE expected # NoLine
  <2>1. direct' = direct \cup {<<expected, line>>} /\ expected' = NoLine
    BY <1>5 DEF Popped, HandleLine
  <2>2. line = LineOf("pdu", expected.of)
    BY <1>1, <1>2, <1>5 DEF TakenPaired, HeadStays, LineOf, b
  <2>3. \A d \in direct' : d[2] = LineOf("pdu", d[1].of)
    BY <2>1, <2>2 DEF TakenPaired
  <2>4. \A l \in taken' : l.kind = "cmt" => \E d \in direct' : d[1] = l
    <3>1. line.kind = "pdu"
      BY <2>2 DEF LineOf
    <3>2. <<expected, line>> \in direct' /\ <<expected, line>>[1] = expected
      BY <2>1
    <3>3. \A l \in taken : l.kind = "cmt" => expected = l \/ \E d \in direct' : d[1] = l
      BY <2>1 DEF TakenPaired
    <3> QED BY <1>1, <3>1, <3>2, <3>3
  <2> QED BY <1>2, <1>4, <2>1, <2>3, <2>4 DEF TakenPaired
<1>6. CASE expected = NoLine
  <2>1. direct' = direct /\ expected' = IF line.kind = "cmt" THEN line ELSE NoLine
    BY <1>6 DEF Popped, HandleLine
  <2>2. ASSUME line.kind = "cmt"
        PROVE  Tail(b) # <<>> /\ Tail(b)[1] = LineOf("pdu", line.of)
    <3>1. 2 \in 1 .. Len(b) /\ b[2] = LineOf("pdu", line.of)
      BY <1>1, <1>2, <1>3, <2>2 DEF Paired, b
    <3>2. Len(Tail(b)) # 0 /\ Tail(b)[1] = b[2]
      BY <1>2, <3>1
    <3> QED BY <3>1, <3>2, EmptySeq
  <2>3. \A l \in taken : l.kind = "cmt" => \E d \in direct : d[1] = l
    <3>1. \A l \in taken : l # NoLine
      BY LineParts DEF Types, LoopTypes
    <3> QED BY <1>6, <3>1 DEF TakenPaired
  <2>4. \A l \in taken' : l.kind = "cmt" => expected' = l \/ \E d \in direct' : d[1] = l
    BY <1>1, <2>1, <2>3
  <2>5. \A d \in direct' : d[2] = LineOf("pdu", d[1].of)
    BY <2>1 DEF TakenPaired
  <2> QED BY <1>2, <1>4, <2>1, <2>2, <2>4, <2>5 DEF TakenPaired
<1> QED BY <1>5, <1>6

(* The line that comes after the port's header matches it. *)
LEMMA WireMatches ==
  ASSUME PortTypes, wire # <<>>, Followed(port, wire)
  PROVE  HeaderMatches(port, Head(wire))
<1> SUFFICES ASSUME port.header # NoLine, wire[1].kind = "pdu"
             PROVE  wire[1] = LineOf("pdu", port.header.of)
  BY TailOf DEF PortTypes, HeaderMatches
<1>1. Len(wire) \in Nat \ {0}
  BY TailOf DEF PortTypes
<1>2. port.header.of \in Direct
  <2>1. port.header \in Lines /\ port.header.kind = "cmt"
    BY DEF PortTypes, SoundPort, Ports
  <2> QED BY <2>1, LineParts
<1>3. HeaderAt(port, wire, 0, port.header.of)
  BY DEF HeaderAt
<1>4. Body(wire[1]) /\ NoBody(wire, 0, 1)
  BY DEF Body, NoBody
<1> QED BY <1>1, <1>2, <1>3, <1>4 DEF Followed

LEMMA ReadTaken ==
  ASSUME PortTypes, AllPaired, wire # <<>>, NEW q, Reads(port, q, Head(wire))
  PROVE  Paired(q.buf) /\ HeadStays(port.buf, q.buf)
BY WireMatches DEF AllPaired, WirePaired, TakenPaired, Reads

LEMMA ReadWirePaired ==
  ASSUME PortTypes, WirePaired, wire # <<>>, NEW q, SoundPort(q), HeaderAfter(port, q, Head(wire))
  PROVE  /\ Followed(q, Tail(wire)) /\ Awaited(q, Tail(wire), owed) /\ AgedInWait(q, Tail(wire))
         /\ Preceded(port, wire) => Preceded(q, Tail(wire))
<1>1. Head(wire) = wire[1] /\ wire \in Seq(Lines)
  BY TailOf DEF PortTypes
<1> QED BY <1>1, ReadPairs DEF WirePaired, SoundPort

LEMMA PollingPairs ==
  ASSUME Types, AllPaired, PollBuffered \/ PollWire \/ EndPoll
  PROVE  AllPaired'
<1>0. /\ SoundPort(port) /\ PortTypes /\ wire \in Seq(Lines) /\ WirePaired /\ TakenPaired
      /\ SoundPort(ExpireHeader(port)) /\ ExpireHeader(port).buf = port.buf
      /\ Followed(port, wire) /\ Awaited(port, wire, owed) /\ AgedInWait(port, wire)
  BY ExpireEffect DEF Types, PortTypes, AllPaired, WirePaired
<1>p. ASSUME NEW p, NEW w, Followed(p, w), Awaited(p, w, owed), AgedInWait(p, w),
             port'.header = p.header, port'.old = p.old, wire' = w, owed' = owed, ~Listening'
      PROVE  WirePaired'
  <2>1. Followed(port', wire') /\ Awaited(port', wire', owed') /\ AgedInWait(port', wire')
    BY <1>p, SamePairs
  <2> QED BY <1>p, <2>1 DEF WirePaired
<1>1. CASE PollBuffered
  <2> DEFINE q == ExpireHeader(port)
             line == Head(port.buf)
  <2>1. Popped(q, line) /\ q.buf = port.buf /\ wire' = wire /\ owed' = owed /\ Polling
    BY <1>1, PollBufferedEffect DEF networkVars, PollBuffered
  <2>2. Followed(q, wire) /\ Awaited(q, wire, owed) /\ AgedInWait(q, wire)
    BY <1>0, ExpiredPairs
  <2>3. Paired(q.buf) /\ HeadStays(port.buf, q.buf)
    BY <1>0 DEF TakenPaired, HeadStays
  <2>4. SoundPort(q)
    BY <1>0
  <2> HIDE DEF q
  <2>5. TakenPaired'
    BY <1>0, <2>1, <2>3, <2>4, PoppedPairs
  <2>6. port' = [q EXCEPT !.buf = Tail(q.buf)] /\ line \in Lines
    BY <2>1, <2>4, PoppedSound DEF Popped, HandleLine
  <2>7. port'.header = q.header /\ port'.old = q.old
    BY <2>1, <2>4, <2>6, PoppedSound DEF Popped
  <2>8. ~Listening'
    BY <2>1, <2>6, HandledQuietly DEF Popped
  <2> QED BY <1>p, <2>1, <2>2, <2>5, <2>7, <2>8 DEF AllPaired
<1>2. CASE PollWire
  <2> DEFINE line == Head(wire)
  <2>1. /\ wire # <<>> /\ wire' = Tail(wire) /\ port.buf = <<>> /\ owed' = owed /\ Polling
        /\ line \in Lines
    BY <1>0, <1>2, PollWireEffect, HeadOfWire DEF networkVars, PollWire
  <2>2. expected = NoLine
    BY <1>0, <2>1 DEF TakenPaired
  <2>3. ASSUME ~Absorbed(ExpireHeader(port), line), HandleLine(line, ExpireHeader(port))
        PROVE  AllPaired'
    <3> DEFINE q == ExpireHeader(port)
    <3>1. port' = q /\ direct' = direct /\ taken' = taken \cup {line}
          /\ expected' = IF line.kind = "cmt" THEN line ELSE NoLine
      BY <2>2, <2>3 DEF HandleLine
    <3>2. line.kind \notin {"cmt", "noise"} /\ (line.kind = "pdu" => q.header = NoLine)
      <4>1. ExpireHeader(q) = q
        BY ExpireEffect, <1>0 DEF ExpireHeader
      <4> QED BY <2>3, <4>1 DEF Absorbed, Routed
    <3>3. HeaderAfter(port, q, line)
      <4>1. /\ q.header = (IF port.old THEN NoLine ELSE port.header) /\ ~q.old
            /\ port.old \in BOOLEAN
        BY <1>0, ExpireEffect DEF SoundPort, Ports
      <4> HIDE DEF q
      <4> QED BY <3>2, <4>1 DEF HeaderAfter
    <3>4. q.buf = port.buf /\ SoundPort(q)
      BY <1>0
    <3> HIDE DEF q
    <3>5. TakenPaired'
      <4>1. \A l \in taken : l.kind = "cmt" => expected' = l \/ \E d \in direct' : d[1] = l
        <5>1. \A l \in taken : l # NoLine
          BY LineParts DEF Types, LoopTypes
        <5> QED BY <1>0, <2>2, <3>1, <5>1 DEF TakenPaired
      <4> QED BY <1>0, <3>1, <3>2, <3>4, <4>1 DEF TakenPaired
    <3>6. Followed(q, Tail(wire)) /\ Awaited(q, Tail(wire), owed) /\ AgedInWait(q, Tail(wire))
      BY <1>0, <2>1, <3>3, <3>4, ReadWirePaired
    <3>7. ~Listening'
      BY <2>1, <2>3, HandledQuietly
    <3> QED BY <1>p, <2>1, <3>1, <3>5, <3>6, <3>7 DEF AllPaired
  <2>4. ASSUME NEW q, Reads(port, q, line),
               Popped(q, Head(q.buf)) \/ (q.buf = <<>> /\ NothingPolled(q, {"poll", "tick"}))
        PROVE  AllPaired'
    <3>1. SoundPort(q) /\ HeaderAfter(port, q, line)
      BY <2>4 DEF Reads
    <3>2. Followed(q, Tail(wire)) /\ Awaited(q, Tail(wire), owed) /\ AgedInWait(q, Tail(wire))
      BY <1>0, <2>1, <3>1, ReadWirePaired
    <3>3. Paired(q.buf) /\ HeadStays(port.buf, q.buf)
      BY <1>0, <2>1, <2>4, ReadTaken DEF AllPaired
    <3>4. CASE Popped(q, Head(q.buf))
      <4>1. TakenPaired'
        BY <1>0, <3>1, <3>3, <3>4, PoppedPairs
      <4>2. port' = [q EXCEPT !.buf = Tail(q.buf)] /\ Head(q.buf) \in Lines
        BY <3>1, <3>4, PoppedSound DEF Popped, HandleLine
      <4>3. port'.header = q.header /\ port'.old = q.old
        BY <3>1, <3>4, <4>2, PoppedSound DEF Popped
      <4>4. ~Listening'
        BY <2>1, <3>4, <4>2, HandledQuietly DEF Popped
      <4> QED BY <1>p, <2>1, <3>2, <4>1, <4>3, <4>4 DEF AllPaired
    <3>5. CASE NothingPolled(q, {"poll", "tick"})
      <4>1. port' = q /\ UNCHANGED <<op, expected, direct, taken>>
        BY <3>5 DEF NothingPolled
      <4>2. TakenPaired'
        BY <1>0, <2>2, <3>3, <4>1 DEF TakenPaired
      <4>3. ~Listening'
        BY <2>1, <4>1 DEF Polling, Listening
      <4> QED BY <1>p, <2>1, <3>2, <4>1, <4>2, <4>3 DEF AllPaired
    <3> QED BY <2>4, <3>4, <3>5
  <2> QED BY <1>2, <2>3, <2>4, PollWireEffect
<1>3. CASE EndPoll
  <2>1. PICK q \in {port, ExpireHeader(port)} :
          port' = q /\ UNCHANGED <<op, expected, direct, taken, wire, owed>>
    BY <1>3 DEF EndPoll, NothingPolled, networkVars
  <2>2. q.buf = port.buf
    BY <1>0, <2>1
  <2>3. Followed(q, wire) /\ Awaited(q, wire, owed) /\ AgedInWait(q, wire)
    BY <1>0, <2>1, ExpiredPairs
  <2>4. TakenPaired'
    BY <1>0, <2>1, <2>2 DEF TakenPaired
  <2>5. ~Listening'
    BY <1>3, <2>1 DEF EndPoll, Listening
  <2> QED BY <1>p, <2>1, <2>3, <2>4, <2>5 DEF AllPaired
<1> QED BY <1>1, <1>2, <1>3

(* Lines that arrive leave the buffer and what was taken alone. *)
LEMMA ArrivingPairs ==
  ASSUME Types, AllPaired, Network \/ PduPrinted \/ PduGarbled \/ ModemAnswers
  PROVE  AllPaired'
<1>0. /\ PortTypes /\ wire \in Seq(Lines) /\ WirePaired /\ TakenPaired
      /\ Followed(port, wire) /\ Awaited(port, wire, owed) /\ AgedInWait(port, wire)
      /\ owed \in Direct \cup {Nobody}
      /\ ringing # NoRing => ringing.call \in Calls
      /\ Listening => Preceded(port, wire)
  BY DEF Types, PortTypes, NetworkTypes, AllPaired, WirePaired
<1>p. ASSUME UNCHANGED <<port, op, loopVars>>,
             Followed(port, wire'), Awaited(port, wire', owed'), AgedInWait(port, wire'),
             Listening => Preceded(port, wire')
      PROVE  AllPaired'
  <2>1. WirePaired'
    BY <1>p DEF WirePaired, Listening
  <2>2. TakenPaired'
    BY <1>0, <1>p DEF TakenPaired, loopVars
  <2> QED BY <2>1, <2>2 DEF AllPaired
<1>q. ASSUME NEW line \in Lines, ~Body(line), wire' = Append(wire, line), owed' = owed,
             UNCHANGED <<port, op, loopVars>>
      PROVE  AllPaired'
  BY <1>0, <1>p, <1>q, OtherArrives
<1>1. ASSUME NEW line \in Lines, ~Body(line), Announce(line), owed' = owed PROVE AllPaired'
  BY <1>1, <1>q DEF Announce, Emit
<1>2. ASSUME NEW m \in Stored, SmsStored(m) PROVE AllPaired'
  <2>1. ~Body(LineOf("cmti", m))
    BY DEF Body, LineOf
  <2> QED BY <1>1, <1>2, <2>1, LineTypes DEF SmsStored
<1>3. ASSUME NEW e \in Events, DataEvent(e) PROVE AllPaired'
  <2>1. ~Body(LineOf("cgev", e))
    BY DEF Body, LineOf
  <2> QED BY <1>1, <1>3, <2>1, LineTypes DEF DataEvent
<1>4. \A c \in Calls, k \in CallKinds : LineOf(k, c) \in Lines /\ ~Body(LineOf(k, c))
  BY LineTypes DEF Body, LineOf, CallKinds
<1>5. ASSUME NEW c \in Calls, Ring(c) PROVE AllPaired'
  BY <1>1, <1>4, <1>5 DEF Ring, CallKinds
<1>6. CASE CallerId
  BY <1>0, <1>1, <1>4, <1>6 DEF CallerId, CallKinds
<1>7. CASE CallEnds
  BY <1>0, <1>1, <1>4, <1>7 DEF CallEnds, CallKinds
<1>8. CASE CallEndsSilently
  BY <1>0, <1>p, <1>8 DEF CallEndsSilently, portVars
<1>9. ASSUME NEW m \in Direct, SmsDelivered(m) PROVE AllPaired'
  <2>1. owed = Nobody /\ owed' = m /\ wire' = Append(wire, LineOf("cmt", m))
        /\ UNCHANGED <<port, op, loopVars>>
    BY <1>9 DEF SmsDelivered, Announce, Emit
  <2> QED BY <1>0, <1>p, <2>1, HeaderArrives
<1>10. ASSUME NEW line \in Lines, line.kind \in {"pdu", "noise"}, wire' = Append(wire, line),
              owed' = Nobody, UNCHANGED <<port, op, loopVars>>,
              IF owed = Nobody THEN line.kind = "pdu" /\ line.of \in Nat ELSE line.of = owed
       PROVE  AllPaired'
  BY <1>0, <1>p, <1>10, BodyArrives
<1>11. CASE PduPrinted
  <2>1. /\ owed # Nobody /\ owed \in Direct /\ wire' = Append(wire, LineOf("pdu", owed))
        /\ owed' = Nobody /\ UNCHANGED <<port, op, loopVars>>
    BY <1>0, <1>11 DEF PduPrinted, Announce, Emit
  <2>2. LineOf("pdu", owed).kind = "pdu" /\ LineOf("pdu", owed).of = owed
    BY DEF LineOf
  <2> QED BY <1>10, <2>1, <2>2, LineTypes
<1>12. CASE PduGarbled
  <2>1. /\ owed # Nobody /\ owed \in Direct /\ wire' = Append(wire, LineOf("noise", owed))
        /\ owed' = Nobody /\ UNCHANGED <<port, op, loopVars>>
    BY <1>0, <1>12 DEF PduGarbled, Announce, Emit
  <2>2. LineOf("noise", owed).kind = "noise" /\ LineOf("noise", owed).of = owed
    BY DEF LineOf
  <2> QED BY <1>10, <2>1, <2>2, LineTypes
<1>13. CASE ModemAnswers
  <2>1. /\ UNCHANGED <<port, op, loopVars>> /\ owed' = owed
        /\ owed # Nobody => \A i \in DOMAIN wire' : i > Len(wire) => wire'[i].kind # "pdu"
    BY <1>13, ModemTypesKept DEF ModemAnswers
  <2>2. CASE wire' = wire
    BY <1>0, <1>p, <2>1, <2>2
  <2>3. ASSUME NEW k \in AnswerKinds, wire' = Append(wire, LineOf(k, Head(jobs).n)),
               Head(jobs).n \in Nat
        PROVE  AllPaired'
    <3> DEFINE line == LineOf(k, Head(jobs).n)
    <3>1. line \in Lines /\ line.kind = k /\ line.of \in Nat
      BY <2>3, LineTypes DEF LineOf
    <3>2. wire' = Append(wire, line)
      BY <2>3
    <3> HIDE DEF line
    <3>3. CASE k = "pdu"
      <4>1. /\ Len(wire) \in Nat /\ Len(wire') = Len(wire) + 1 /\ wire'[Len(wire) + 1] = line
            /\ wire' \in Seq(Lines)
        BY <1>0, <3>1, <3>2, AppendOf
      <4>2. Len(wire) + 1 \in DOMAIN wire' /\ Len(wire) + 1 > Len(wire)
        BY <4>1, LenProperties
      <4>3. owed = Nobody
        BY <2>1, <3>1, <3>3, <4>1, <4>2
      <4> QED BY <1>10, <2>1, <3>1, <3>2, <3>3, <4>3
    <3>4. CASE k # "pdu"
      <4>1. ~Body(line)
        BY <3>1, <3>4 DEF Body, AnswerKinds
      <4> QED BY <1>q, <2>1, <3>1, <3>2, <4>1
    <3> QED BY <3>3, <3>4
  <2> QED BY <1>13, <2>2, <2>3, ModemTypesKept
<1> QED BY <1>2, <1>3, <1>5, <1>6, <1>7, <1>8, <1>9, <1>11, <1>12, <1>13 DEF Network

LEMMA PairsNext ==
  ASSUME Types, AllPaired, [Next]_vars
  PROVE  AllPaired'
<1>0. /\ SoundPort(port) /\ PortTypes /\ wire \in Seq(Lines) /\ WirePaired /\ TakenPaired
      /\ Followed(port, wire) /\ Awaited(port, wire, owed) /\ AgedInWait(port, wire)
      /\ Listening => Preceded(port, wire)
  BY DEF Types, PortTypes, AllPaired, WirePaired
<1>1. CASE OnPort
  <2>1. UNCHANGED <<owed, expected, direct, taken>> /\ PortStep
    BY <1>1 DEF OnPort, networkVars, loopVars
  <2>2. CASE Reading
    <3>1. Listening' => Listening
      BY <1>0, <2>1, <2>2
         DEF PortTypes, Ops, Listening, Reading, PortStep, ResyncRead, SendProbe, ProbeRead,
             ProbeTimeout, DrainUrcs, Transmit, CollectRead, CollectTimeout, PromptRead,
             PromptTimeout
    <3>2. WirePaired'
      BY <1>0, <2>1, <2>2, <3>1, ReadWirePaired DEF Reading, Reads, WirePaired
    <3>3. TakenPaired'
      <4>1. Paired(port'.buf) /\ HeadStays(port.buf, port'.buf)
        BY <1>0, <2>2, ReadTaken DEF Reading, AllPaired
      <4> QED BY <1>0, <2>1, <4>1 DEF TakenPaired, HeadStays, LineOf
    <3> QED BY <3>2, <3>3 DEF AllPaired
  <2>3. CASE wire' = wire /\ Steady(port, port')
    <3>1. Listening' => Listening \/ wire = <<>>
      BY <1>0, <2>1, <2>3
         DEF PortTypes, Ops, Listening, PortStep, ResyncRead, SendProbe, ProbeRead,
             ProbeTimeout, DrainUrcs, Transmit, CollectRead, CollectTimeout, PromptRead,
             PromptTimeout
    <3>2. wire = <<>> => Preceded(port, wire)
      BY <1>0 DEF AgedInWait, Preceded
    <3>3. WirePaired'
      BY <1>0, <2>1, <2>3, <3>1, <3>2, SamePairs DEF Steady, WirePaired
    <3>4. TakenPaired'
      BY <1>0, <2>1, <2>3 DEF TakenPaired, Steady
    <3> QED BY <3>3, <3>4 DEF AllPaired
  <2> QED BY <1>0, <2>1, <2>2, <2>3, PortStepEffect
<1>2. CASE \/ Tick \/ CommandDone \/ EndPass \/ Elapse
           \/ (\E cmd \in OwnCommands : Command(cmd)) \/ UNCHANGED vars
  <2>1. UNCHANGED <<port, wire, owed, expected, direct, taken>>
    BY <1>2 DEF Tick, CommandDone, EndPass, Elapse, Command, portVars, networkVars, loopVars, vars
  <2>2. Listening' => Listening
    <3>1. NoOp.state = "idle" /\ \A cmd : SendAt(cmd) => op'.state = "sync"
      BY DEF SendAt, NoOp
    <3>2. CASE Tick
      BY <3>1, <3>2 DEF Tick, TickDeferred, CommitCall, NoCommand, Listening
    <3>3. CASE CommandDone
      BY <3>1, <3>3 DEF CommandDone, Listening
    <3>4. ASSUME NEW cmd \in OwnCommands, Command(cmd) PROVE ~Listening'
      BY <3>1, <3>4 DEF Command, Listening
    <3>5. CASE EndPass \/ Elapse \/ UNCHANGED vars
      BY <3>5 DEF EndPass, Elapse, portVars, vars, Listening
    <3> QED BY <1>2, <3>2, <3>3, <3>4, <3>5
  <2> QED BY <1>0, <2>1, <2>2 DEF AllPaired, WirePaired, TakenPaired
<1>3. CASE Age
  <2>1. /\ owed = Nobody /\ op.state = "idle" /\ port.header # NoLine
        /\ port' = [port EXCEPT !.old = TRUE] /\ UNCHANGED <<op, wire, owed, expected, direct, taken>>
    BY <1>3 DEF Age, HeaderAges, networkVars, loopVars
  <2>2. /\ port'.header = port.header /\ port'.buf = port.buf
    BY <1>0, <2>1 DEF SoundPort, Ports
  <2>3. AgedInWait(port', wire)
    <3>1. port.header.of \in Direct
      BY <1>0, <2>1, LineParts DEF SoundPort, Ports
    <3>2. HeaderAt(port, wire, 0, port.header.of) /\ port.header.of # Nobody
      BY <2>1, <3>1, PartiesAssumption DEF HeaderAt, Nobody
    <3>3. Len(wire) \in Nat
      BY <1>0, LenProperties
    <3>4. ~NoBody(wire, 0, Len(wire) + 1)
      BY <1>0, <2>1, <3>1, <3>2, <3>3 DEF Awaited
    <3> QED BY <3>3, <3>4 DEF NoBody, AgedInWait
  <2>4. \A i, m : HeaderAt(port', wire, i, m) <=> HeaderAt(port, wire, i, m)
    BY <2>2 DEF HeaderAt
  <2>5. Followed(port', wire) /\ Awaited(port', wire, owed)
    BY <1>0, <2>4 DEF Followed, Awaited
  <2>6. WirePaired'
    BY <2>1, <2>3, <2>5 DEF WirePaired, Listening
  <2>7. TakenPaired'
    BY <1>0, <2>1, <2>2 DEF TakenPaired
  <2> QED BY <2>6, <2>7 DEF AllPaired
<1> QED BY <1>1, <1>2, <1>3, ArrivingPairs, PollingPairs DEF Next, Device

LEMMA PairsInit == Init => AllPaired
<1> SUFFICES ASSUME Init PROVE AllPaired
  OBVIOUS
<1>1. /\ wire = <<>> /\ port.buf = <<>> /\ port.header = NoLine /\ port.old = FALSE
      /\ owed = Nobody /\ expected = NoLine /\ direct = {} /\ taken = {}
      /\ op.state = "idle"
  BY DEF Init, PortInit, NoOp
<1>2. \A i, m : ~HeaderAt(port, wire, i, m)
  BY <1>1, EmptySeq DEF HeaderAt
<1>3. Followed(port, wire) /\ Awaited(port, wire, owed) /\ AgedInWait(port, wire)
  BY <1>1, <1>2 DEF Followed, Awaited, AgedInWait
<1>4. WirePaired
  BY <1>1, <1>3 DEF WirePaired, Listening
<1>5. TakenPaired
  BY <1>1 DEF TakenPaired, Paired
<1> QED BY <1>4, <1>5 DEF AllPaired

(* A direct SMS is taken from the PDU that followed its own header, also    *)
(* when the pass ends, a command runs or the buffer overflows in between,   *)
(* and a header in the buffer always has its PDU behind it.                 *)
THEOREM PdusFollowHeaders == Spec => []CmtPaired
<1>1. Types /\ AllPaired => CmtPaired
  <2> SUFFICES ASSUME Types, AllPaired PROVE CmtPaired
    OBVIOUS
  <2>1. port.buf # <<>> => Head(port.buf) = port.buf[1]
    BY TailOf DEF Types, PortTypes, SoundPort, Ports
  <2> QED BY <2>1 DEF AllPaired, TakenPaired, CmtPaired
<1>2. Types /\ AllPaired /\ [Next]_vars => AllPaired'
  BY PairsNext
<1> QED BY <1>1, <1>2, PairsInit, TypesInit, TypesNext, PTL DEF Spec

-----------------------------------------------------------------------------
(* Answers.  The commands that the modem has yet to answer and the answers  *)
(* on the wire are outstanding.                                             *)

Ans(l) == l.kind \in AnswerKinds /\ l.of \in Nat

(* Answers come in the order of their commands, a terminal last.            *)
InOrder(w, js, top) ==
  /\ \A i \in 1 .. Len(js) : js[i].n \in 1 .. top
  /\ \A i, j \in 1 .. Len(js) : i < j => js[i].n < js[j].n
  /\ \A i \in 1 .. Len(w), j \in 1 .. Len(js) :
       Ans(w[i]) => w[i].of <= js[j].n /\ (Terminal(w[i]) => w[i].of # js[j].n)
  /\ \A i \in 1 .. Len(w) : Ans(w[i]) => w[i].of \in 1 .. top
  /\ \A i, j \in 1 .. Len(w) :
       i < j /\ Ans(w[i]) /\ Ans(w[j]) => w[i].of <= w[j].of /\ (Terminal(w[i]) => w[i].of # w[j].of)

AllOf(w, js, n) ==
  /\ \A i \in 1 .. Len(js) : js[i].n = n
  /\ \A i \in 1 .. Len(w) : Ans(w[i]) => w[i].of = n

NoneOut(w, js) == js = <<>> /\ \A i \in 1 .. Len(w) : ~Ans(w[i])

NoneLike(w, js, cmd) ==
  /\ \A i \in 1 .. Len(js) : js[i].cmd # cmd
  /\ \A i \in 1 .. Len(w) : Ans(w[i]) => w[i].kind # BodyKind(cmd)

(* The probe is the last command sent, and the only one of its kind.        *)
OnlyProbe(w, js, cmd, top) ==
  /\ \A i \in 1 .. Len(js) : js[i].n = top <=> js[i].cmd = cmd
  /\ \A i \in 1 .. Len(w) : Ans(w[i]) /\ w[i].kind = BodyKind(cmd) => w[i].of = top

Sent == IF port.cmgf THEN "cmgf" ELSE "query"

Between == op.state \in {"idle", "sync", "done"}

Answered ==
  /\ InOrder(wire, jobs, issued)
  /\ Listening => ~port.late /\ AllOf(wire, jobs, op.n) /\ NoneLike(wire, jobs, "cmgf")
  /\ Between /\ ~port.late => NoneOut(wire, jobs)
  /\ Between /\ port.late => (\E n \in Nat : AllOf(wire, jobs, n)) /\ NoneLike(wire, jobs, Probe)
  /\ op.state = "probe" => /\ port.late
                           /\ OnlyProbe(wire, jobs, Sent, issued)
                           /\ op.marker => AllOf(wire, jobs, issued)
  /\ op.state \in {"idle", "sync", "probe"} => op.got = {}
  /\ op.got \subseteq {op.n}

BodyKinds == {"query", "cmgf"}

LEMMA BodyKindOf ==
  /\ BodyKind("storage") = "pdu" /\ BodyKind("query") = "csq" /\ BodyKind("cmgf") = "cmgf"
  /\ BodyKind("cmgs") = "prompt"
BY DEF BodyKind

(* A line is read. *)
LEMMA AnswerRead ==
  ASSUME NEW w \in Seq(Lines), w # <<>>, NEW js \in Seq(Jobs), NEW top \in Nat
  PROVE  LET v == Tail(w)
         IN  /\ InOrder(w, js, top) => InOrder(v, js, top)
             /\ \A n : AllOf(w, js, n) => AllOf(v, js, n)
             /\ NoneOut(w, js) => NoneOut(v, js)
             /\ \A cmd : NoneLike(w, js, cmd) => NoneLike(v, js, cmd)
             /\ \A cmd : OnlyProbe(w, js, cmd, top) => OnlyProbe(v, js, cmd, top)
             /\ \A n : InOrder(w, js, top) /\ AllOf(w, js, n) /\ Ans(w[1]) /\ Terminal(w[1])
                         => NoneOut(v, js)
             /\ InOrder(w, js, top) /\ Ans(w[1]) /\ w[1].of = top => AllOf(v, js, top)
<1> DEFINE v == Tail(w)
           n == Len(w)
<1>1. /\ n \in Nat \ {0} /\ Len(v) = n - 1 /\ \A k \in 1 .. n - 1 : v[k] = w[k + 1]
  BY TailOf
<1>2. \A k \in 1 .. n - 1 : k + 1 \in 1 .. n /\ 1 < k + 1
  BY <1>1
<1>j. Len(js) \in Nat /\ \A i \in 1 .. Len(js) : js[i].n \in Nat
  <2>1. \A i \in 1 .. Len(js) : js[i] \in Jobs
    BY ElementOfSeq
  <2> QED BY <2>1, LenProperties DEF Jobs
<1> HIDE DEF v
<1>3. ASSUME InOrder(w, js, top) PROVE InOrder(v, js, top)
  <2>1. \A i, j \in 1 .. n - 1 :
          i < j /\ Ans(v[i]) /\ Ans(v[j]) => v[i].of <= v[j].of /\ (Terminal(v[i]) => v[i].of # v[j].of)
    <3> SUFFICES ASSUME NEW i \in 1 .. n - 1, NEW j \in 1 .. n - 1, i < j, Ans(v[i]), Ans(v[j])
                 PROVE  v[i].of <= v[j].of /\ (Terminal(v[i]) => v[i].of # v[j].of)
      OBVIOUS
    <3>1. v[i] = w[i + 1] /\ v[j] = w[j + 1] /\ i + 1 < j + 1 /\ i + 1 \in 1 .. n /\ j + 1 \in 1 .. n
      BY <1>1
    <3> QED BY <1>3, <3>1 DEF InOrder
  <2>2. ASSUME NEW i \in 1 .. n - 1, Ans(v[i])
        PROVE  /\ v[i].of \in 1 .. top
               /\ \A j \in 1 .. Len(js) :
                    v[i].of <= js[j].n /\ (Terminal(v[i]) => v[i].of # js[j].n)
    <3>1. v[i] = w[i + 1] /\ i + 1 \in 1 .. n
      BY <1>1
    <3> QED BY <1>3, <2>2, <3>1 DEF InOrder
  <2> QED BY <1>1, <1>3, <2>1, <2>2 DEF InOrder
<1>4. ASSUME NEW k, AllOf(w, js, k) PROVE AllOf(v, js, k)
  BY <1>1, <1>2, <1>4 DEF AllOf
<1>5. NoneOut(w, js) => NoneOut(v, js)
  BY <1>1, <1>2 DEF NoneOut
<1>6. ASSUME NEW cmd, NoneLike(w, js, cmd) PROVE NoneLike(v, js, cmd)
  BY <1>1, <1>2, <1>6 DEF NoneLike
<1>7. ASSUME NEW cmd, OnlyProbe(w, js, cmd, top) PROVE OnlyProbe(v, js, cmd, top)
  BY <1>1, <1>2, <1>7 DEF OnlyProbe
<1>8. ASSUME NEW k, InOrder(w, js, top), AllOf(w, js, k), Ans(w[1]), Terminal(w[1])
      PROVE  NoneOut(v, js)
  <2>1. w[1].of = k /\ 1 \in 1 .. n
    BY <1>1, <1>8 DEF AllOf
  <2>2. js = <<>>
    <3> SUFFICES ASSUME js # <<>> PROVE FALSE
      OBVIOUS
    <3>1. 1 \in 1 .. Len(js)
      BY EmptySeq
    <3> QED BY <1>8, <2>1, <3>1 DEF InOrder, AllOf
  <2>3. \A i \in 1 .. n - 1 : ~Ans(v[i])
    BY <1>1, <1>2, <1>8, <2>1 DEF InOrder, AllOf
  <2> QED BY <1>1, <2>2, <2>3 DEF NoneOut
<1>9. ASSUME InOrder(w, js, top), Ans(w[1]), w[1].of = top PROVE AllOf(v, js, top)
  <2>1. \A i \in 1 .. Len(js) : js[i].n = top
    BY <1>1, <1>9, <1>j DEF InOrder
  <2>2. ASSUME NEW i \in 1 .. n - 1, Ans(v[i]) PROVE v[i].of = top
    <3>1. v[i] = w[i + 1] /\ 1 < i + 1 /\ i + 1 \in 1 .. n /\ 1 \in 1 .. n
      BY <1>1
    <3>2. w[1].of <= w[i + 1].of /\ w[i + 1].of \in 1 .. top
      BY <1>9, <2>2, <3>1 DEF InOrder
    <3> QED BY <1>9, <3>1, <3>2
  <2> QED BY <1>1, <2>1, <2>2 DEF AllOf
<1> QED BY <1>3, <1>4, <1>5, <1>6, <1>7, <1>8, <1>9 DEF v

(* A line arrives that answers no command. *)
LEMMA NoticeArrives ==
  ASSUME NEW w \in Seq(Lines), NEW line \in Lines, ~Ans(line), NEW js \in Seq(Jobs), NEW top \in Nat
  PROVE  LET v == Append(w, line)
         IN  /\ InOrder(w, js, top) => InOrder(v, js, top)
             /\ \A n : AllOf(w, js, n) => AllOf(v, js, n)
             /\ NoneOut(w, js) => NoneOut(v, js)
             /\ \A cmd : NoneLike(w, js, cmd) => NoneLike(v, js, cmd)
             /\ \A cmd : OnlyProbe(w, js, cmd, top) => OnlyProbe(v, js, cmd, top)
<1> DEFINE v == Append(w, line)
           n == Len(w)
<1>1. /\ n \in Nat /\ Len(v) = n + 1 /\ v[n + 1] = line /\ \A k \in 1 .. n : v[k] = w[k]
  BY AppendOf
<1> HIDE DEF v, n
<1>2. \A i \in 1 .. n + 1 : Ans(v[i]) => i \in 1 .. n /\ v[i] = w[i]
  BY <1>1
<1>3. InOrder(w, js, top) => InOrder(v, js, top)
  BY <1>1, <1>2 DEF InOrder, n
<1>4. ASSUME NEW k, AllOf(w, js, k) PROVE AllOf(v, js, k)
  BY <1>1, <1>2, <1>4 DEF AllOf, n
<1>5. NoneOut(w, js) => NoneOut(v, js)
  BY <1>1, <1>2 DEF NoneOut, n
<1>6. ASSUME NEW cmd, NoneLike(w, js, cmd) PROVE NoneLike(v, js, cmd)
  BY <1>1, <1>2, <1>6 DEF NoneLike, n
<1>7. ASSUME NEW cmd, OnlyProbe(w, js, cmd, top) PROVE OnlyProbe(v, js, cmd, top)
  BY <1>1, <1>2, <1>7 DEF OnlyProbe, n
<1> QED BY <1>3, <1>4, <1>5, <1>6, <1>7 DEF v

(* An answer arrives that is due. *)
LEMMA AnswerAdded ==
  ASSUME NEW w \in Seq(Lines), NEW line \in Lines, Ans(line), NEW js \in Seq(Jobs), NEW top \in Nat,
         line.of \in 1 .. top,
         \A j \in 1 .. Len(js) : line.of <= js[j].n /\ (Terminal(line) => line.of # js[j].n),
         \A i \in 1 .. Len(w) :
           Ans(w[i]) => w[i].of <= line.of /\ (Terminal(w[i]) => w[i].of # line.of)
  PROVE  LET v == Append(w, line)
         IN  /\ InOrder(w, js, top) => InOrder(v, js, top)
             /\ \A n : AllOf(w, js, n) /\ line.of = n => AllOf(v, js, n)
             /\ \A cmd : NoneLike(w, js, cmd) /\ line.kind # BodyKind(cmd) => NoneLike(v, js, cmd)
             /\ \A cmd : OnlyProbe(w, js, cmd, top) /\ (line.kind = BodyKind(cmd) => line.of = top)
                           => OnlyProbe(v, js, cmd, top)
<1> DEFINE v == Append(w, line)
           n == Len(w)
<1>1. /\ n \in Nat /\ Len(v) = n + 1 /\ v[n + 1] = line /\ \A k \in 1 .. n : v[k] = w[k]
  BY AppendOf
<1> HIDE DEF v, n
<1>2. \A i \in 1 .. n + 1 : (i \in 1 .. n /\ v[i] = w[i]) \/ (i = n + 1 /\ v[i] = line)
  BY <1>1
<1>3. ASSUME InOrder(w, js, top) PROVE InOrder(v, js, top)
  <2>1. \A i, j \in 1 .. n + 1 :
          i < j /\ Ans(v[i]) /\ Ans(v[j]) => v[i].of <= v[j].of /\ (Terminal(v[i]) => v[i].of # v[j].of)
    <3> SUFFICES ASSUME NEW i \in 1 .. n + 1, NEW j \in 1 .. n + 1, i < j, Ans(v[i]), Ans(v[j])
                 PROVE  v[i].of <= v[j].of /\ (Terminal(v[i]) => v[i].of # v[j].of)
      OBVIOUS
    <3>1. i \in 1 .. n /\ v[i] = w[i]
      BY <1>1
    <3>2. CASE j \in 1 .. n
      BY <1>1, <1>3, <3>1, <3>2 DEF InOrder, n
    <3>3. CASE j = n + 1
      BY <1>1, <3>1, <3>3 DEF n
    <3> QED BY <1>1, <3>2, <3>3
  <2>2. \A i \in 1 .. n + 1 : Ans(v[i]) => v[i].of \in 1 .. top
    BY <1>2, <1>3 DEF InOrder, n
  <2>3. \A i \in 1 .. n + 1, j \in 1 .. Len(js) :
          Ans(v[i]) => v[i].of <= js[j].n /\ (Terminal(v[i]) => v[i].of # js[j].n)
    BY <1>2, <1>3 DEF InOrder, n
  <2> QED BY <1>1, <1>3, <2>1, <2>2, <2>3 DEF InOrder
<1>4. ASSUME NEW k, AllOf(w, js, k), line.of = k PROVE AllOf(v, js, k)
  BY <1>1, <1>2, <1>4 DEF AllOf, n
<1>6. ASSUME NEW cmd, NoneLike(w, js, cmd), line.kind # BodyKind(cmd) PROVE NoneLike(v, js, cmd)
  BY <1>1, <1>2, <1>6 DEF NoneLike, n
<1>7. ASSUME NEW cmd, OnlyProbe(w, js, cmd, top), line.kind = BodyKind(cmd) => line.of = top
      PROVE  OnlyProbe(v, js, cmd, top)
  BY <1>1, <1>2, <1>7 DEF OnlyProbe, n
<1> QED BY <1>3, <1>4, <1>6, <1>7 DEF v

(* Commands that are the same for this purpose. *)
SameJobs(js, ks) ==
  Len(ks) = Len(js) /\ \A i \in 1 .. Len(js) : ks[i].n = js[i].n /\ ks[i].cmd = js[i].cmd

LEMMA SameOut ==
  ASSUME NEW w, NEW js \in Seq(Jobs), NEW ks \in Seq(Jobs), SameJobs(js, ks), NEW top
  PROVE  /\ InOrder(w, js, top) => InOrder(w, ks, top)
         /\ \A n : AllOf(w, js, n) => AllOf(w, ks, n)
         /\ NoneOut(w, js) => NoneOut(w, ks)
         /\ \A cmd : NoneLike(w, js, cmd) => NoneLike(w, ks, cmd)
         /\ \A cmd : OnlyProbe(w, js, cmd, top) => OnlyProbe(w, ks, cmd, top)
<1>1. js = <<>> => ks = <<>>
  BY EmptySeq DEF SameJobs
<1> QED BY <1>1 DEF SameJobs, InOrder, AllOf, NoneOut, NoneLike, OnlyProbe

(* The first command is done with. *)
LEMMA FewerOut ==
  ASSUME NEW w, NEW js \in Seq(Jobs), js # <<>>, NEW top
  PROVE  LET ks == Tail(js)
         IN  /\ InOrder(w, js, top) => InOrder(w, ks, top)
             /\ \A n : AllOf(w, js, n) => AllOf(w, ks, n)
             /\ \A cmd : NoneLike(w, js, cmd) => NoneLike(w, ks, cmd)
             /\ \A cmd : OnlyProbe(w, js, cmd, top) => OnlyProbe(w, ks, cmd, top)
<1> DEFINE ks == Tail(js)
           n == Len(js)
<1>1. n \in Nat \ {0} /\ Len(ks) = n - 1 /\ \A i \in 1 .. n - 1 : ks[i] = js[i + 1]
  BY TailOf
<1> HIDE DEF ks, n
<1>2. \A i \in 1 .. n - 1 : i + 1 \in 1 .. n
  BY <1>1
<1>3. ASSUME InOrder(w, js, top) PROVE InOrder(w, ks, top)
  <2>1. \A i, j \in 1 .. n - 1 : i < j => ks[i].n < ks[j].n
    <3> SUFFICES ASSUME NEW i \in 1 .. n - 1, NEW j \in 1 .. n - 1, i < j PROVE ks[i].n < ks[j].n
      OBVIOUS
    <3>1. i + 1 < j + 1
      BY <1>1
    <3> QED BY <1>1, <1>2, <1>3, <3>1 DEF InOrder, n
  <2> QED BY <1>1, <1>2, <1>3, <2>1 DEF InOrder, n
<1>4. ASSUME NEW k, AllOf(w, js, k) PROVE AllOf(w, ks, k)
  BY <1>1, <1>2, <1>4 DEF AllOf, n
<1>5. ASSUME NEW cmd, NoneLike(w, js, cmd) PROVE NoneLike(w, ks, cmd)
  BY <1>1, <1>2, <1>5 DEF NoneLike, n
<1>6. ASSUME NEW cmd, OnlyProbe(w, js, cmd, top) PROVE OnlyProbe(w, ks, cmd, top)
  BY <1>1, <1>2, <1>6 DEF OnlyProbe, n
<1> QED BY <1>3, <1>4, <1>5, <1>6 DEF ks

LEMMA NothingOut ==
  ASSUME NEW w, NEW js, NoneOut(w, js)
  PROVE  (\A n : AllOf(w, js, n)) /\ (\A cmd : NoneLike(w, js, cmd))
<1>1. Len(js) = 0
  BY EmptySeq DEF NoneOut
<1> QED BY <1>1 DEF NoneOut, AllOf, NoneLike

(* A line is read, and the commands stay what they are. *)
LEMMA OutRead ==
  ASSUME PortTypes, wire # <<>>, wire' = Tail(wire), issued' = issued,
         jobs' \in Seq(Jobs), SameJobs(jobs, jobs')
  PROVE  /\ InOrder(wire, jobs, issued) => InOrder(wire', jobs', issued')
         /\ \A n : AllOf(wire, jobs, n) => AllOf(wire', jobs', n)
         /\ NoneOut(wire, jobs) => NoneOut(wire', jobs')
         /\ \A cmd : NoneLike(wire, jobs, cmd) => NoneLike(wire', jobs', cmd)
         /\ \A cmd : OnlyProbe(wire, jobs, cmd, issued) => OnlyProbe(wire', jobs', cmd, issued')
         /\ \A n : InOrder(wire, jobs, issued) /\ AllOf(wire, jobs, n)
                      /\ Ans(wire[1]) /\ Terminal(wire[1]) => NoneOut(wire', jobs')
         /\ InOrder(wire, jobs, issued) /\ Ans(wire[1]) /\ wire[1].of = issued
              => AllOf(wire', jobs', issued')
<1> DEFINE v == Tail(wire)
<1>1. wire \in Seq(Lines) /\ jobs \in Seq(Jobs) /\ issued \in Nat
  BY DEF PortTypes
<1>2. /\ InOrder(wire, jobs, issued) => InOrder(v, jobs, issued)
      /\ \A n : AllOf(wire, jobs, n) => AllOf(v, jobs, n)
      /\ NoneOut(wire, jobs) => NoneOut(v, jobs)
      /\ \A cmd : NoneLike(wire, jobs, cmd) => NoneLike(v, jobs, cmd)
      /\ \A cmd : OnlyProbe(wire, jobs, cmd, issued) => OnlyProbe(v, jobs, cmd, issued)
      /\ \A n : InOrder(wire, jobs, issued) /\ AllOf(wire, jobs, n)
                   /\ Ans(wire[1]) /\ Terminal(wire[1]) => NoneOut(v, jobs)
      /\ InOrder(wire, jobs, issued) /\ Ans(wire[1]) /\ wire[1].of = issued
           => AllOf(v, jobs, issued)
  BY <1>1, AnswerRead
<1> HIDE DEF v
<1>3. /\ InOrder(v, jobs, issued) => InOrder(v, jobs', issued)
      /\ \A n : AllOf(v, jobs, n) => AllOf(v, jobs', n)
      /\ NoneOut(v, jobs) => NoneOut(v, jobs')
      /\ \A cmd : NoneLike(v, jobs, cmd) => NoneLike(v, jobs', cmd)
      /\ \A cmd : OnlyProbe(v, jobs, cmd, issued) => OnlyProbe(v, jobs', cmd, issued)
  BY <1>1, SameOut
<1>4. wire' = v
  BY DEF v
<1> QED BY <1>2, <1>3, <1>4

LEMMA SameRefl ==
  ASSUME jobs' = jobs
  PROVE  SameJobs(jobs, jobs')
BY DEF SameJobs

LEMMA GivenSame ==
  ASSUME PortTypes, NEW what, Given(what)
  PROVE  SameJobs(jobs, jobs')
<1>1. Len(jobs) \in Nat /\ DOMAIN jobs = 1 .. Len(jobs) /\ \A i \in 1 .. Len(jobs) : jobs[i] \in Jobs
  BY LenProperties, ElementOfSeq DEF PortTypes
<1>2. DOMAIN jobs' = 1 .. Len(jobs) /\ Len(jobs') = Len(jobs)
  <2>1. jobs' = [i \in 1 .. Len(jobs) |->
                   IF jobs[i].n = op.n THEN [jobs[i] EXCEPT !.given = what] ELSE jobs[i]]
    BY <1>1 DEF Given
  <2> QED BY <1>1, <2>1
<1>3. ASSUME NEW i \in 1 .. Len(jobs) PROVE jobs'[i].n = jobs[i].n /\ jobs'[i].cmd = jobs[i].cmd
  <2>1. jobs'[i] = IF jobs[i].n = op.n THEN [jobs[i] EXCEPT !.given = what] ELSE jobs[i]
    BY <1>1 DEF Given
  <2> QED BY <1>1, <2>1 DEF Jobs
<1> QED BY <1>2, <1>3 DEF SameJobs

(* A command is sent, or goes unheard. *)
LEMMA CommandSent ==
  ASSUME PortTypes, wire = <<>>, NEW cmd \in Commands \cup {"cmgf"}, Deliver(cmd),
         InOrder(wire, jobs, issued)
  PROVE  /\ InOrder(wire, jobs', issued')
         /\ NoneLike(wire, jobs, cmd) => OnlyProbe(wire, jobs', cmd, issued')
         /\ NoneOut(wire, jobs) =>
              /\ AllOf(wire, jobs', issued')
              /\ \A c : c # cmd => NoneLike(wire, jobs', c)
<1> DEFINE n == Len(jobs)
<1>1. /\ jobs \in Seq(Jobs) /\ n \in Nat /\ issued \in Nat /\ issued' = issued + 1 /\ Len(wire) = 0
      /\ NewJob(cmd) \in Jobs /\ NewJob(cmd).n = issued + 1 /\ NewJob(cmd).cmd = cmd
      /\ jobs = <<>> => n = 0
  BY LenProperties, EmptySeq DEF PortTypes, Deliver, NewJob, Jobs
<1>2. \A i \in 1 .. n : jobs[i].n \in 1 .. issued
  BY DEF InOrder
<1>3. CASE jobs' = Append(jobs, NewJob(cmd))
  <2>1. /\ Len(jobs') = n + 1 /\ jobs'[n + 1] = NewJob(cmd) /\ \A i \in 1 .. n : jobs'[i] = jobs[i]
    BY <1>1, <1>3, AppendOf
  <2> HIDE DEF n
  <2>2. \A i \in 1 .. n + 1 : i \in 1 .. n \/ i = n + 1
    BY <1>1
  <2>3. InOrder(wire, jobs', issued')
    <3>1. \A i, j \in 1 .. n + 1 : i < j => jobs'[i].n < jobs'[j].n
      <4> SUFFICES ASSUME NEW i \in 1 .. n + 1, NEW j \in 1 .. n + 1, i < j
                   PROVE  jobs'[i].n < jobs'[j].n
        OBVIOUS
      <4>1. i \in 1 .. n /\ jobs'[i] = jobs[i] /\ jobs[i].n \in 1 .. issued
        BY <1>1, <1>2, <2>1 DEF n
      <4>2. CASE j \in 1 .. n
        BY <2>1, <4>1, <4>2 DEF InOrder, n
      <4>3. CASE j = n + 1
        BY <1>1, <2>1, <4>1, <4>3
      <4> QED BY <2>2, <4>2, <4>3
    <3>2. \A i \in 1 .. n + 1 : jobs'[i].n \in 1 .. issued + 1
      BY <1>1, <1>2, <2>1, <2>2 DEF n
    <3> QED BY <1>1, <2>1, <3>1, <3>2 DEF InOrder
  <2>4. ASSUME NoneLike(wire, jobs, cmd) PROVE OnlyProbe(wire, jobs', cmd, issued')
    <3>1. ASSUME NEW i \in 1 .. n PROVE jobs'[i].n # issued + 1 /\ jobs'[i].cmd # cmd
      BY <1>1, <1>2, <2>1, <2>4, <3>1 DEF NoneLike, n
    <3>2. jobs'[n + 1].n = issued + 1 /\ jobs'[n + 1].cmd = cmd
      BY <1>1, <2>1
    <3>3. \A i \in 1 .. n + 1 : jobs'[i].n = issued + 1 <=> jobs'[i].cmd = cmd
      BY <2>2, <3>1, <3>2
    <3> QED BY <1>1, <2>1, <3>3 DEF OnlyProbe
  <2>5. ASSUME NoneOut(wire, jobs)
        PROVE  AllOf(wire, jobs', issued') /\ \A c : c # cmd => NoneLike(wire, jobs', c)
    <3>1. n = 0
      BY <1>1, <2>5 DEF NoneOut
    <3> QED BY <1>1, <2>1, <3>1 DEF AllOf, NoneLike
  <2> QED BY <2>3, <2>4, <2>5
<1>4. CASE jobs # <<>> /\ jobs' = jobs
  <2>1. InOrder(wire, jobs', issued')
    BY <1>1, <1>2, <1>4 DEF InOrder
  <2>2. NoneLike(wire, jobs, cmd) => OnlyProbe(wire, jobs', cmd, issued')
    <3>1. \A i \in 1 .. n : jobs[i].n # issued + 1
      BY <1>1, <1>2
    <3> QED BY <1>1, <1>4, <3>1 DEF NoneLike, OnlyProbe
  <2> QED BY <1>4, <2>1, <2>2 DEF NoneOut
<1> QED BY <1>3, <1>4 DEF Deliver

(* A line that a command takes for its own answers a command. *)
LEMMA TakenIsAnswer ==
  ASSUME PortTypes, wire # <<>>
  PROVE  /\ Head(wire) = wire[1] /\ wire[1] \in Lines
         /\ Terminal(wire[1]) => Ans(wire[1]) /\ ~Absorbed(port, wire[1])
                                 /\ wire[1].kind \notin UrcKinds
         /\ wire[1].kind \in {"cmgf", "csq", "prompt"} => Ans(wire[1])
         /\ Preceded(port, wire) /\ ~Absorbed(port, wire[1]) /\ wire[1].kind \notin UrcKinds
              => Ans(wire[1])
<1> DEFINE line == wire[1]
<1>1. Head(wire) = line /\ line \in Lines /\ Len(wire) \in Nat \ {0}
  BY TailOf DEF PortTypes
<1>2. /\ line.kind \in LineKinds
      /\ line.kind = "pdu" => line.of \in Direct \cup Nat
      /\ line.kind \in AnswerKinds \ {"pdu"} => line.of \in Nat
  BY <1>1, LineParts
<1>3. Preceded(port, wire) /\ ~Absorbed(port, line) /\ line.kind \notin UrcKinds => Ans(line)
  <2> SUFFICES ASSUME Preceded(port, wire), ~Absorbed(port, line), line.kind \notin UrcKinds,
                      line.kind = "pdu", line.of \in Direct
               PROVE  FALSE
    BY <1>2 DEF Ans, LineKinds, Absorbed, AnswerKinds
  <2>1. port.header # NoLine
    <3>1. 1 \in 1 .. Len(wire) /\ \A i \in 0 .. 0 : i = 0
      BY <1>1
    <3>2. \E i \in 0 .. 1 - 1 : HeaderAt(port, wire, i, line.of)
      BY <3>1 DEF Preceded
    <3> QED BY <3>2 DEF HeaderAt
  <2>2. ~port.old
    BY DEF Preceded
  <2> QED BY <2>1, <2>2 DEF Absorbed, Routed, ExpireHeader
<1>4. Terminal(line) => Ans(line) /\ ~Absorbed(port, line) /\ line.kind \notin UrcKinds
  BY <1>2 DEF Terminal, Ans, AnswerKinds, Absorbed, Routed, UrcKinds
<1>5. line.kind \in {"cmgf", "csq", "prompt"} => Ans(line)
  BY <1>2 DEF Ans, AnswerKinds
<1> QED BY <1>1, <1>3, <1>4, <1>5

(* The steps of a call of the port that find no answer of it. *)
LEMMA SyncAnswers ==
  ASSUME ~Sluggish, Types, Answered,
         ResyncRead \/ SendProbe \/ ProbeRead \/ ProbeTimeout \/ DrainUrcs
  PROVE  Answered'
<1>0. /\ PortTypes /\ SoundPort(port) /\ op \in Ops /\ wire \in Seq(Lines) /\ jobs \in Seq(Jobs)
      /\ issued \in Nat /\ port.late \in BOOLEAN /\ port.cmgf \in BOOLEAN
      /\ op.state \in {"sync", "probe"} => op.got = {}
      /\ InOrder(wire, jobs, issued)
      /\ wire = <<>> => Len(wire) = 0
  BY DEF Types, PortTypes, SoundPort, Ports, Answered
<1>1. CASE ResyncRead
  <2> DEFINE line == wire[1]
  <2>1. /\ op.state = "sync" /\ port.late /\ op' = op /\ wire # <<>> /\ wire' = Tail(wire)
        /\ jobs' = jobs /\ issued' = issued /\ line \in Lines
        /\ port' = DiscardStaleResponseLine(port, line)
    BY <1>0, <1>1, TakenIsAnswer DEF ResyncRead
  <2>2. port'.cmgf = port.cmgf /\ port'.late = ~Terminal(line)
    BY <1>0, <2>1, DiscardReads
  <2>3. PICK n \in Nat : AllOf(wire, jobs, n)
    BY <2>1 DEF Answered, Between
  <2>4. NoneLike(wire, jobs, Probe) /\ Probe' = Probe
    BY <2>1, <2>2 DEF Answered, Between, Probe
  <2>5. /\ InOrder(wire', jobs', issued') /\ AllOf(wire', jobs', n) /\ NoneLike(wire', jobs', Probe')
        /\ Terminal(line) => NoneOut(wire', jobs')
    BY <1>0, <2>1, <2>3, <2>4, OutRead, SameRefl, TakenIsAnswer
  <2> QED BY <1>0, <2>1, <2>2, <2>5 DEF Answered, Between, Listening
<1>2. CASE SendProbe
  <2>1. /\ op.state = "sync" /\ port.late /\ wire = <<>> /\ wire' = wire /\ Deliver(Probe)
        /\ port' = [port EXCEPT !.cmgf = ~port.cmgf]
        /\ op' = [op EXCEPT !.state = "probe", !.marker = FALSE]
    BY <1>2 DEF SendProbe
  <2>2. port'.late /\ port'.cmgf = ~port.cmgf
    BY <1>0, <2>1 DEF SoundPort, Ports
  <2>3. Probe \in Commands \cup {"cmgf"} /\ Sent' = Probe
    BY <1>0, <2>2 DEF Probe, Sent, Commands
  <2>4. NoneLike(wire, jobs, Probe)
    BY <2>1 DEF Answered, Between
  <2>5. InOrder(wire, jobs', issued') /\ OnlyProbe(wire, jobs', Probe, issued')
    BY <1>0, <2>1, <2>3, <2>4, CommandSent
  <2>6. op'.state = "probe" /\ op'.marker = FALSE /\ op'.got = {} /\ op'.n = op.n
    BY <1>0, <2>1 DEF Ops
  <2> QED BY <2>1, <2>2, <2>3, <2>5, <2>6 DEF Answered, Between, Listening
<1>3. CASE ProbeRead
  <2> DEFINE line == wire[1]
             synced == line.kind = "ok" /\ op.marker
  <2>1. /\ op.state = "probe" /\ wire # <<>> /\ wire' = Tail(wire)
        /\ jobs' = jobs /\ issued' = issued /\ line \in Lines
        /\ port' = IF Absorbed(port, line) THEN Absorb(port, line)
                   ELSE IF synced THEN [ExpireHeader(port) EXCEPT !.late = FALSE]
                   ELSE IF line.kind \in UrcKinds THEN QueueUrc(ExpireHeader(port), line)
                   ELSE ExpireHeader(port)
        /\ op' = IF synced THEN [op EXCEPT !.state = "sync"]
                 ELSE [op EXCEPT !.marker = op.marker \/ line.kind = Marker]
    BY <1>0, <1>3, TakenIsAnswer DEF ProbeRead
  <2>2. /\ port.late /\ OnlyProbe(wire, jobs, Sent, issued)
        /\ op.marker => AllOf(wire, jobs, issued)
        /\ op.got = {} /\ op.marker \in BOOLEAN
    BY <1>0, <2>1 DEF Answered, Ops
  <2>3. /\ InOrder(wire', jobs', issued') /\ OnlyProbe(wire', jobs', Sent, issued')
        /\ op.marker => AllOf(wire', jobs', issued')
        /\ op.marker /\ Ans(line) /\ Terminal(line) => NoneOut(wire', jobs')
        /\ Ans(line) /\ line.of = issued => AllOf(wire', jobs', issued')
    BY <1>0, <2>1, <2>2, OutRead, SameRefl
  <2>4. SoundPort(ExpireHeader(port)) /\ FlagsKept(port, ExpireHeader(port))
        /\ ExpireHeader(port) \in Ports
    BY <1>0, ExpireEffect DEF SoundPort
  <2>5. CASE synced
    <3>1. Terminal(line)
      BY <2>5 DEF Terminal
    <3>2. Ans(line) /\ ~Absorbed(port, line)
      BY <1>0, <2>1, <3>1, TakenIsAnswer
    <3>3. port' = [ExpireHeader(port) EXCEPT !.late = FALSE]
      BY <2>1, <2>5, <3>2
    <3>4. ~port'.late
      BY <2>4, <3>3 DEF Ports
    <3>5. op'.state = "sync" /\ op'.got = {}
      BY <1>0, <2>1, <2>2, <2>5 DEF Ops
    <3> QED BY <2>3, <2>5, <3>1, <3>2, <3>4, <3>5 DEF Answered, Between, Listening
  <2>6. CASE ~synced
    <3>1. FlagsKept(port, port')
      <4>1. CASE Absorbed(port, line)
        BY <1>0, <2>1, <4>1, AbsorbReads
      <4>2. CASE ~Absorbed(port, line) /\ line.kind \in UrcKinds
        BY <1>0, <2>1, <2>6, <4>2, QueueReads
      <4>3. CASE ~Absorbed(port, line) /\ line.kind \notin UrcKinds
        BY <2>1, <2>4, <2>6, <4>3
      <4> QED BY <4>1, <4>2, <4>3
    <3>2. port'.late /\ Sent' = Sent
      BY <2>2, <3>1 DEF FlagsKept, Sent
    <3>3. /\ op'.state = "probe" /\ op'.got = {}
          /\ op'.marker <=> op.marker \/ line.kind = Marker
      BY <1>0, <2>1, <2>2, <2>6 DEF Ops
    <3>4. line.kind = Marker => AllOf(wire', jobs', issued')
      <4> SUFFICES ASSUME line.kind = Marker PROVE AllOf(wire', jobs', issued')
        OBVIOUS
      <4>1. Marker = BodyKind(Sent) /\ Marker \in {"cmgf", "csq", "prompt"}
        BY <1>0, BodyKindOf DEF Marker, Sent
      <4>2. Ans(line) /\ 1 \in 1 .. Len(wire)
        BY <1>0, <2>1, <4>1, TakenIsAnswer, TailOf
      <4>3. line.of = issued
        BY <2>2, <4>1, <4>2 DEF OnlyProbe
      <4> QED BY <2>3, <4>2, <4>3
    <3> QED BY <2>3, <3>2, <3>3, <3>4 DEF Answered, Between, Listening
  <2> QED BY <2>5, <2>6
<1>4. CASE ProbeTimeout
  <2>1. /\ op.state = "probe" /\ wire = <<>> /\ UNCHANGED <<port, wire, jobs, issued>>
        /\ \A i \in DOMAIN jobs : jobs[i].n = issued
        /\ op' = [op EXCEPT !.state = "done", !.result = "notready"]
    BY <1>4 DEF ProbeTimeout
  <2>2. \A i \in 1 .. Len(jobs) : jobs[i].n = issued
    BY <1>0, <2>1, LenProperties
  <2>3. /\ port.late /\ OnlyProbe(wire, jobs, Sent, issued) /\ op.got = {}
    BY <1>0, <2>1 DEF Answered
  <2>4. AllOf(wire, jobs, issued)
    BY <1>0, <2>1, <2>2 DEF AllOf
  <2>5. Sent # Probe
    BY DEF Sent, Probe
  <2>6. NoneLike(wire, jobs, Probe)
    BY <1>0, <2>1, <2>2, <2>3, <2>5 DEF OnlyProbe, NoneLike
  <2>7. op'.state = "done" /\ op'.got = {} /\ Probe' = Probe
    BY <1>0, <2>1, <2>3 DEF Ops, Probe
  <2> QED BY <1>0, <2>1, <2>3, <2>4, <2>6, <2>7 DEF Answered, Between, Listening
<1>5. CASE DrainUrcs
  <2>1. /\ op.state = "sync" /\ ~port.late /\ op' = op /\ wire # <<>> /\ wire' = Tail(wire)
        /\ jobs' = jobs /\ issued' = issued /\ wire[1] \in Lines
        /\ port' = AbsorbOrQueue(port, wire[1])
    BY <1>0, <1>5, TakenIsAnswer DEF DrainUrcs
  <2>2. ~port'.late
    BY <1>0, <2>1, AbsorbOrQueueReads DEF FlagsKept
  <2>3. NoneOut(wire, jobs)
    BY <2>1 DEF Answered, Between
  <2>4. InOrder(wire', jobs', issued') /\ NoneOut(wire', jobs')
    BY <1>0, <2>1, <2>3, OutRead, SameRefl
  <2> QED BY <1>0, <2>1, <2>2, <2>4 DEF Answered, Between, Listening
<1> QED BY <1>1, <1>2, <1>3, <1>4, <1>5

(* The steps of a call of the port whose command is out. *)
LEMMA ListenAnswers ==
  ASSUME Types, AllPaired, Answered,
         Transmit \/ CollectRead \/ CollectTimeout \/ PromptRead \/ PromptTimeout
  PROVE  Answered'
<1>0. /\ PortTypes /\ SoundPort(port) /\ port \in Ports /\ op \in Ops /\ wire \in Seq(Lines)
      /\ jobs \in Seq(Jobs) /\ issued \in Nat /\ port.late \in BOOLEAN /\ port.cmgf \in BOOLEAN
      /\ InOrder(wire, jobs, issued)
      /\ op.got \subseteq {op.n} /\ op.n \in Nat
  BY DEF Types, PortTypes, SoundPort, Ports, Answered, Ops
<1>l. ASSUME Listening
      PROVE  /\ ~port.late /\ AllOf(wire, jobs, op.n) /\ NoneLike(wire, jobs, "cmgf")
             /\ Preceded(port, wire)
  BY <1>l DEF Answered, AllPaired, WirePaired
<1>s. SoundPort(ExpireHeader(port)) /\ FlagsKept(port, ExpireHeader(port))
  BY <1>0, ExpireEffect
<1>t. ASSUME NEW p \in Ports, port' = MarkTimedOut(p)
      PROVE  port'.late /\ Probe' = "cmgf"
  BY <1>t DEF MarkTimedOut, Ports, Probe
<1>1. CASE Transmit
  <2>1. /\ op.state = "sync" /\ ~port.late /\ wire = <<>> /\ Deliver(op.cmd)
        /\ port' = port /\ wire' = wire /\ op.cmd \in Commands \cup {"cmgf"} /\ op.cmd # "cmgf"
        /\ op' = [op EXCEPT !.state = IF op.cmd = "cmgs" THEN "prompt" ELSE "collect",
                            !.n = issued + 1]
    BY <1>0, <1>1 DEF Transmit, Ops, Commands
  <2>2. NoneOut(wire, jobs) /\ op.got = {}
    BY <2>1 DEF Answered, Between
  <2>3. /\ InOrder(wire, jobs', issued') /\ AllOf(wire, jobs', issued')
        /\ NoneLike(wire, jobs', "cmgf")
    BY <1>0, <2>1, <2>2, CommandSent
  <2>4. /\ op'.state \in {"prompt", "collect"} /\ op'.got = {} /\ op'.n = issued + 1
        /\ issued' = issued + 1
    <3>1. CASE op.cmd = "cmgs"
      BY <1>0, <2>1, <2>2, <3>1 DEF Ops, Deliver
    <3>2. CASE op.cmd # "cmgs"
      BY <1>0, <2>1, <2>2, <3>2 DEF Ops, Deliver
    <3> QED BY <3>1, <3>2
  <2> QED BY <2>1, <2>3, <2>4 DEF Answered, Between, Listening
<1>2. CASE CollectRead
  <2> DEFINE line == wire[1]
             mine == ~Absorbed(port, line)
             urc == mine /\ line.kind \in UrcKinds
             terminal == mine /\ Terminal(line)
             call == mine /\ op.cmd = "storage" /\ line.kind \in {"ring", "clip"}
             q == IF ~mine THEN Absorb(port, line)
                  ELSE IF urc THEN QueueUrc(ExpireHeader(port), line) ELSE ExpireHeader(port)
  <2>1. /\ op.state = "collect" /\ wire # <<>> /\ wire' = Tail(wire)
        /\ jobs' = jobs /\ issued' = issued /\ line \in Lines
        /\ port' = IF call THEN MarkTimedOut(q) ELSE q
        /\ op' = [op EXCEPT !.state = IF terminal \/ call THEN "done" ELSE op.state,
                            !.result = IF terminal THEN line.kind
                                       ELSE IF call THEN "interrupted" ELSE op.result,
                            !.got = IF mine /\ ~urc THEN op.got \cup {line.of} ELSE op.got]
    BY <1>0, <1>2, TakenIsAnswer DEF CollectRead, Terminal
  <2>2. FlagsKept(port, q) /\ q \in Ports
    <3>1. CASE ~mine
      BY <1>0, <2>1, <3>1, AbsorbReads DEF Reads, SoundPort
    <3>2. CASE urc
      BY <1>0, <2>1, <3>2, QueueReads DEF Reads, SoundPort
    <3>3. CASE mine /\ ~urc
      BY <1>s, <3>3 DEF SoundPort
    <3> QED BY <3>1, <3>2, <3>3
  <2> HIDE DEF q
  <2>3. /\ ~port.late /\ AllOf(wire, jobs, op.n) /\ NoneLike(wire, jobs, "cmgf")
        /\ Preceded(port, wire)
    BY <1>l, <2>1 DEF Listening
  <2>4. /\ InOrder(wire', jobs', issued') /\ AllOf(wire', jobs', op.n)
        /\ NoneLike(wire', jobs', "cmgf")
        /\ Ans(line) /\ Terminal(line) => NoneOut(wire', jobs')
    BY <1>0, <2>1, <2>3, OutRead, SameRefl
  <2>5. mine /\ ~urc => line.of = op.n
    <3>1. mine /\ ~urc => Ans(line)
      BY <1>0, <2>1, <2>3, TakenIsAnswer
    <3>2. 1 \in 1 .. Len(wire)
      BY <1>0, <2>1, TailOf
    <3> QED BY <2>3, <3>1, <3>2 DEF AllOf
  <2>6. op'.got \subseteq {op.n} /\ op'.n = op.n
    BY <1>0, <2>1, <2>5 DEF Ops
  <2>7. CASE terminal
    <3>1. ~call
      BY <2>7 DEF Terminal
    <3>2. ~port'.late
      BY <2>1, <2>2, <2>3, <3>1 DEF FlagsKept
    <3>3. op'.state = "done"
      BY <1>0, <2>1, <2>7 DEF Ops
    <3>4. NoneOut(wire', jobs')
      BY <1>0, <2>1, <2>4, <2>7, TakenIsAnswer
    <3> QED BY <2>4, <2>6, <3>2, <3>3, <3>4 DEF Answered, Between, Listening
  <2>8. CASE call
    <3>1. port'.late /\ Probe' = "cmgf"
      BY <1>t, <2>1, <2>2, <2>8
    <3>2. op'.state = "done"
      BY <1>0, <2>1, <2>8 DEF Ops
    <3> QED BY <1>0, <2>4, <2>6, <3>1, <3>2 DEF Answered, Between, Listening
  <2>9. CASE ~terminal /\ ~call
    <3>1. ~port'.late
      BY <2>1, <2>2, <2>3, <2>9 DEF FlagsKept
    <3>2. op'.state = "collect"
      BY <1>0, <2>1, <2>9 DEF Ops
    <3> QED BY <2>4, <2>6, <3>1, <3>2 DEF Answered, Between, Listening
  <2> QED BY <2>7, <2>8, <2>9
<1>3. CASE CollectTimeout
  <2>1. /\ op.state = "collect" /\ port' = MarkTimedOut(port) /\ UNCHANGED <<wire, jobs, issued>>
        /\ op' = [op EXCEPT !.state = "done", !.result = "timeout"]
    BY <1>3 DEF CollectTimeout
  <2>2. AllOf(wire, jobs, op.n) /\ NoneLike(wire, jobs, "cmgf")
    BY <1>l, <2>1 DEF Listening
  <2>3. port'.late /\ Probe' = "cmgf"
    BY <1>0, <1>t, <2>1
  <2>4. op'.state = "done" /\ op'.got = op.got /\ op'.n = op.n
    BY <1>0, <2>1 DEF Ops
  <2> QED BY <1>0, <2>1, <2>2, <2>3, <2>4 DEF Answered, Between, Listening
<1>4. CASE PromptRead
  <2> DEFINE line == wire[1]
  <2>1. /\ op.state = "prompt" /\ wire # <<>> /\ wire' = Tail(wire) /\ issued' = issued
        /\ line \in Lines /\ Head(wire) = line
    BY <1>0, <1>4, TakenIsAnswer DEF PromptRead
  <2>2. /\ ~port.late /\ AllOf(wire, jobs, op.n) /\ NoneLike(wire, jobs, "cmgf")
    BY <1>l, <2>1 DEF Listening
  <2>3. Ans(line) => line.of = op.n
    <3>1. 1 \in 1 .. Len(wire)
      BY <1>0, <2>1, TailOf
    <3> QED BY <2>2, <3>1 DEF AllOf
  <2>4. ASSUME SameJobs(jobs, jobs'), jobs' \in Seq(Jobs)
        PROVE  /\ InOrder(wire', jobs', issued') /\ AllOf(wire', jobs', op.n)
               /\ NoneLike(wire', jobs', "cmgf")
               /\ Ans(line) /\ Terminal(line) => NoneOut(wire', jobs')
    BY <1>0, <2>1, <2>2, <2>4, OutRead
  <2>5. CASE line.kind = "prompt"
    <3>1. /\ port' = port /\ Given("text")
          /\ op' = [op EXCEPT !.state = "collect", !.got = op.got \cup {line.of}]
      BY <1>4, <2>1, <2>5 DEF PromptRead
    <3>2. Ans(line)
      BY <1>0, <2>1, <2>5, TakenIsAnswer
    <3>3. op'.state = "collect" /\ op'.got \subseteq {op.n} /\ op'.n = op.n
      BY <1>0, <2>3, <3>1, <3>2 DEF Ops
    <3>4. SameJobs(jobs, jobs') /\ jobs' \in Seq(Jobs)
      BY <1>0, <3>1, GivenSame, GivenTypes
    <3> QED BY <2>2, <2>4, <3>1, <3>3, <3>4 DEF Answered, Between, Listening
  <2>6. CASE line.kind # "prompt" /\ ~Absorbed(port, line) /\ Terminal(line)
    <3>1. /\ port' = ExpireHeader(port) /\ Given("escape")
          /\ op' = [op EXCEPT !.state = "done", !.result = "error", !.got = op.got \cup {line.of}]
      BY <1>4, <2>1, <2>6 DEF PromptRead, Terminal
    <3>2. Ans(line)
      BY <1>0, <2>1, <2>6, TakenIsAnswer
    <3>3. op'.state = "done" /\ op'.got \subseteq {op.n} /\ op'.n = op.n
      BY <1>0, <2>3, <3>1, <3>2 DEF Ops
    <3>4. SameJobs(jobs, jobs') /\ jobs' \in Seq(Jobs)
      BY <1>0, <3>1, GivenSame, GivenTypes
    <3>5. ~port'.late
      BY <1>s, <2>2, <3>1 DEF FlagsKept
    <3> QED BY <2>4, <2>6, <3>2, <3>3, <3>4, <3>5 DEF Answered, Between, Listening
  <2>7. CASE line.kind # "prompt" /\ ~(~Absorbed(port, line) /\ Terminal(line))
    <3>1. port' = AbsorbOrQueue(port, line) /\ op' = op /\ jobs' = jobs
      BY <1>4, <2>1, <2>7 DEF PromptRead, Terminal
    <3>2. ~port'.late
      BY <1>0, <2>1, <2>2, <3>1, AbsorbOrQueueReads DEF FlagsKept
    <3> QED BY <1>0, <2>1, <2>4, <3>1, <3>2, SameRefl DEF Answered, Between, Listening
  <2> QED BY <2>5, <2>6, <2>7
<1>5. CASE PromptTimeout
  <2>1. /\ op.state = "prompt" /\ port' = MarkTimedOut(port) /\ wire' = wire /\ issued' = issued
        /\ Given("escape")
        /\ op' = [op EXCEPT !.state = "done", !.result = "timeout"]
    BY <1>5 DEF PromptTimeout
  <2>2. AllOf(wire, jobs, op.n) /\ NoneLike(wire, jobs, "cmgf")
    BY <1>l, <2>1 DEF Listening
  <2>3. port'.late /\ Probe' = "cmgf"
    BY <1>0, <1>t, <2>1
  <2>4. op'.state = "done" /\ op'.got = op.got /\ op'.n = op.n
    BY <1>0, <2>1 DEF Ops
  <2>5. SameJobs(jobs, jobs') /\ jobs' \in Seq(Jobs)
    BY <1>0, <2>1, GivenSame, GivenTypes
  <2>6. AllOf(wire, jobs', op.n) /\ NoneLike(wire, jobs', "cmgf") /\ InOrder(wire, jobs', issued)
    BY <1>0, <2>2, <2>5, SameOut
  <2> QED BY <1>0, <2>1, <2>3, <2>4, <2>6 DEF Answered, Between, Listening
<1> QED BY <1>1, <1>2, <1>3, <1>4, <1>5

(* What arrives, and what the loop does between commands, keeps to this.    *)
LEMMA ArrivalKeeps ==
  ASSUME Answered, UNCHANGED <<port, op, issued>>,
         InOrder(wire, jobs, issued) => InOrder(wire', jobs', issued),
         \A n : AllOf(wire, jobs, n) => AllOf(wire', jobs', n),
         NoneOut(wire, jobs) => NoneOut(wire', jobs'),
         \A cmd \in BodyKinds : NoneLike(wire, jobs, cmd) => NoneLike(wire', jobs', cmd),
         \A cmd \in BodyKinds : OnlyProbe(wire, jobs, cmd, issued) => OnlyProbe(wire', jobs', cmd, issued)
  PROVE  Answered'
<1>1. /\ Probe \in BodyKinds /\ Sent \in BodyKinds /\ "cmgf" \in BodyKinds
      /\ Probe' = Probe /\ Sent' = Sent /\ (Between <=> Between') /\ (Listening <=> Listening')
  BY DEF Probe, Sent, BodyKinds, Between, Listening
<1>2. InOrder(wire', jobs', issued')
  BY DEF Answered
<1>3. Listening' => ~port'.late /\ AllOf(wire', jobs', op'.n) /\ NoneLike(wire', jobs', "cmgf")
  BY <1>1 DEF Answered
<1>4. Between' /\ ~port'.late => NoneOut(wire', jobs')
  BY <1>1 DEF Answered
<1>5. Between' /\ port'.late => (\E n \in Nat : AllOf(wire', jobs', n)) /\ NoneLike(wire', jobs', Probe')
  BY <1>1 DEF Answered
<1>6. op'.state = "probe" => /\ port'.late
                             /\ OnlyProbe(wire', jobs', Sent', issued')
                             /\ op'.marker => AllOf(wire', jobs', issued')
  BY <1>1 DEF Answered
<1>7. (op'.state \in {"idle", "sync", "probe"} => op'.got = {}) /\ op'.got \subseteq {op'.n}
  BY DEF Answered
<1> QED BY <1>2, <1>3, <1>4, <1>5, <1>6, <1>7 DEF Answered

LEMMA BetweenKeeps ==
  ASSUME Answered, FlagsKept(port, port'), UNCHANGED <<wire, jobs, issued>>,
         \/ op' = op
         \/ /\ op.state \in {"idle", "done"}
            /\ op'.state \in {"idle", "sync"} /\ op'.got = {}
  PROVE  Answered'
<1>1. port'.late = port.late /\ Probe' = Probe /\ Sent' = Sent
  BY DEF FlagsKept, Probe, Sent
<1>2. CASE op' = op
  BY <1>1, <1>2 DEF Answered, Between, Listening
<1>3. CASE /\ op.state \in {"idle", "done"}
           /\ op'.state \in {"idle", "sync"} /\ op'.got = {}
  BY <1>1, <1>3 DEF Answered, Between, Listening
<1> QED BY <1>2, <1>3

LEMMA AnswersArrive ==
  ASSUME Types, Answered, ModemAnswers
  PROVE  Answered'
<1> DEFINE job == jobs[1]
           n == Len(jobs)
<1>0. /\ PortTypes /\ wire \in Seq(Lines) /\ jobs \in Seq(Jobs) /\ issued \in Nat
      /\ port' = port /\ op' = op /\ issued' = issued /\ jobs' \in Seq(Jobs)
      /\ InOrder(wire, jobs, issued)
  BY ModemTypesKept DEF Types, PortTypes, Answered
<1>1. /\ jobs # <<>> /\ Head(jobs) = job /\ job \in Jobs /\ n \in Nat \ {0}
      /\ \A i \in 1 .. n : jobs[i] \in Jobs
      /\ Len(Tail(jobs)) = n - 1 /\ Tail(jobs) \in Seq(Jobs)
      /\ \A i \in 1 .. n - 1 : Tail(jobs)[i] = jobs[i + 1]
  <2>1. jobs # <<>>
    BY DEF ModemAnswers, ModemStep, AnswerBody, AnswerEnd, AnswerLost
  <2> QED BY <1>0, <2>1, TailOf
<1>2. ~NoneOut(wire, jobs)
  BY <1>1 DEF NoneOut
<1>3. job.n \in 1 .. issued /\ \A i \in 2 .. n : job.n < jobs[i].n
  <2>1. 1 \in 1 .. n /\ \A i \in 2 .. n : i \in 1 .. n /\ 1 < i
    BY <1>1
  <2> QED BY <1>0, <2>1 DEF InOrder
<1>4. \A i \in 1 .. Len(wire) : Ans(wire[i]) => wire[i].of <= job.n /\ (Terminal(wire[i]) => wire[i].of # job.n)
  <2>1. 1 \in 1 .. n
    BY <1>1
  <2> QED BY <1>0, <2>1 DEF InOrder
<1>5. \A k : AllOf(wire, jobs, k) => job.n = k
  <2>1. 1 \in 1 .. n
    BY <1>1
  <2> QED BY <2>1 DEF AllOf
<1>6. \A k \in AnswerKinds : LineOf(k, job.n) \in Lines /\ Ans(LineOf(k, job.n))
  BY <1>3, LineTypes DEF Ans, LineOf
<1>h. /\ \A k : AllOf(wire, jobs, k) => AllOf(wire, Tail(jobs), k)
      /\ InOrder(wire, jobs, issued) => InOrder(wire, Tail(jobs), issued)
      /\ \A cmd : NoneLike(wire, jobs, cmd) => NoneLike(wire, Tail(jobs), cmd)
      /\ \A cmd : OnlyProbe(wire, jobs, cmd, issued) => OnlyProbe(wire, Tail(jobs), cmd, issued)
  BY <1>0, <1>1, FewerOut
<1>7. CASE AnswerBody
  <2> DEFINE line == LineOf(BodyKind(job.cmd), job.n)
             v == Append(wire, line)
  <2>1. job.cmd # "chup" /\ wire' = v /\ jobs' = [jobs EXCEPT ![1].said = TRUE]
    BY <1>1, <1>7 DEF AnswerBody, Emit
  <2>2. job.cmd \in {"storage", "query", "cmgs", "cmgf"}
    BY <1>1, <2>1 DEF Jobs, Commands
  <2>3. /\ line.kind = BodyKind(job.cmd) /\ line.of = job.n
        /\ BodyKind(job.cmd) \in {"pdu", "csq", "cmgf", "prompt"}
        /\ \A cmd \in BodyKinds : BodyKind(job.cmd) = BodyKind(cmd) => job.cmd = cmd
    BY <2>2, BodyKindOf DEF LineOf, BodyKinds
  <2>4. line \in Lines /\ Ans(line) /\ ~Terminal(line)
    BY <1>6, <2>3 DEF AnswerKinds, Terminal
  <2> HIDE DEF line, v
  <2>5. \A j \in 1 .. n : line.of <= jobs[j].n
    BY <1>1, <1>3, <2>3 DEF Jobs
  <2>6. /\ InOrder(wire, jobs, issued) => InOrder(v, jobs, issued)
        /\ \A k : AllOf(wire, jobs, k) /\ line.of = k => AllOf(v, jobs, k)
        /\ \A cmd : NoneLike(wire, jobs, cmd) /\ line.kind # BodyKind(cmd) => NoneLike(v, jobs, cmd)
        /\ \A cmd : OnlyProbe(wire, jobs, cmd, issued) /\ (line.kind = BodyKind(cmd) => line.of = issued)
                      => OnlyProbe(v, jobs, cmd, issued)
    <3>1. line.of \in 1 .. issued
      BY <1>3, <2>3
    <3>2. \A i \in 1 .. Len(wire) :
            Ans(wire[i]) => wire[i].of <= line.of /\ (Terminal(wire[i]) => wire[i].of # line.of)
      BY <1>4, <2>3
    <3> QED BY <1>0, <2>4, <2>5, <3>1, <3>2, AnswerAdded DEF v
  <2>7. SameJobs(jobs, jobs')
    <3>1. jobs' = [jobs EXCEPT ![1] = [job EXCEPT !.said = TRUE]]
      BY <2>1
    <3>2. [job EXCEPT !.said = TRUE].n = job.n /\ [job EXCEPT !.said = TRUE].cmd = job.cmd
      BY <1>1 DEF Jobs
    <3>3. DOMAIN jobs = 1 .. n /\ DOMAIN jobs' = DOMAIN jobs
      BY <1>0, <3>1, LenProperties
    <3>4. Len(jobs') = n
      BY <1>0, <1>1, <3>3, LenProperties
    <3>5. \A i \in 1 .. n : jobs'[i] = IF i = 1 THEN [job EXCEPT !.said = TRUE] ELSE jobs[i]
      BY <1>1, <3>1, <3>3
    <3> QED BY <1>1, <3>2, <3>4, <3>5 DEF SameJobs
  <2>8. /\ InOrder(v, jobs, issued) => InOrder(v, jobs', issued)
        /\ \A k : AllOf(v, jobs, k) => AllOf(v, jobs', k)
        /\ \A cmd : NoneLike(v, jobs, cmd) => NoneLike(v, jobs', cmd)
        /\ \A cmd : OnlyProbe(v, jobs, cmd, issued) => OnlyProbe(v, jobs', cmd, issued)
    BY <1>0, <2>7, SameOut
  <2>9. \A cmd \in BodyKinds : NoneLike(wire, jobs, cmd) => NoneLike(v, jobs', cmd)
    <3> SUFFICES ASSUME NEW cmd \in BodyKinds, NoneLike(wire, jobs, cmd)
                 PROVE  NoneLike(v, jobs', cmd)
      OBVIOUS
    <3>1. 1 \in 1 .. n
      BY <1>1
    <3>2. job.cmd # cmd
      BY <3>1 DEF NoneLike
    <3> QED BY <2>3, <2>6, <2>8, <3>2
  <2>10. \A cmd \in BodyKinds : OnlyProbe(wire, jobs, cmd, issued) => OnlyProbe(v, jobs', cmd, issued)
    <3> SUFFICES ASSUME NEW cmd \in BodyKinds, OnlyProbe(wire, jobs, cmd, issued)
                 PROVE  OnlyProbe(v, jobs', cmd, issued)
      OBVIOUS
    <3>1. 1 \in 1 .. n
      BY <1>1
    <3>2. job.cmd = cmd => job.n = issued
      BY <3>1 DEF OnlyProbe
    <3> QED BY <2>3, <2>6, <2>8, <3>2
  <2>11. \A k : AllOf(wire, jobs, k) => AllOf(v, jobs', k)
    BY <1>5, <2>3, <2>6, <2>8
  <2>12. InOrder(wire, jobs, issued) => InOrder(v, jobs', issued)
    BY <2>6, <2>8
  <2> QED BY <1>0, <1>2, <2>1, <2>9, <2>10, <2>11, <2>12, ArrivalKeeps
<1>8. ASSUME NEW kind \in {"ok", "error"}, AnswerEnd(kind) PROVE Answered'
  <2> DEFINE line == LineOf(kind, job.n)
             v == Append(wire, line)
             ks == Tail(jobs)
  <2>1. wire' = v /\ jobs' = ks
    BY <1>1, <1>8 DEF AnswerEnd, Emit
  <2>2. line.kind = kind /\ line.of = job.n /\ line \in Lines /\ Ans(line)
    BY <1>6 DEF LineOf, AnswerKinds
  <2>3. /\ Len(ks) = n - 1 /\ ks \in Seq(Jobs) /\ \A i \in 1 .. n - 1 : ks[i] = jobs[i + 1]
    BY <1>1
  <2>h. /\ \A k : AllOf(wire, jobs, k) => AllOf(wire, ks, k)
        /\ InOrder(wire, jobs, issued) => InOrder(wire, ks, issued)
        /\ \A cmd : NoneLike(wire, jobs, cmd) => NoneLike(wire, ks, cmd)
        /\ \A cmd : OnlyProbe(wire, jobs, cmd, issued) => OnlyProbe(wire, ks, cmd, issued)
    BY <1>h
  <2> HIDE DEF line, v, ks
  <2>4. \A j \in 1 .. Len(ks) : line.of <= ks[j].n /\ line.of # ks[j].n
    <3> SUFFICES ASSUME NEW j \in 1 .. n - 1 PROVE job.n <= ks[j].n /\ job.n # ks[j].n
      BY <2>2, <2>3
    <3>1. j + 1 \in 2 .. n /\ j + 1 \in 1 .. n
      BY <1>1
    <3>2. ks[j] = jobs[j + 1] /\ jobs[j + 1] \in Jobs /\ job.n < jobs[j + 1].n
      BY <1>1, <1>3, <2>3, <3>1
    <3> QED BY <1>1, <3>2 DEF Jobs
  <2>5. /\ InOrder(wire, ks, issued) => InOrder(v, ks, issued)
        /\ \A k : AllOf(wire, ks, k) /\ line.of = k => AllOf(v, ks, k)
        /\ \A cmd : NoneLike(wire, ks, cmd) /\ line.kind # BodyKind(cmd) => NoneLike(v, ks, cmd)
        /\ \A cmd : OnlyProbe(wire, ks, cmd, issued) /\ (line.kind = BodyKind(cmd) => line.of = issued)
                      => OnlyProbe(v, ks, cmd, issued)
    <3>1. line.of \in 1 .. issued
      BY <1>3, <2>2
    <3>2. \A i \in 1 .. Len(wire) :
            Ans(wire[i]) => wire[i].of <= line.of /\ (Terminal(wire[i]) => wire[i].of # line.of)
      BY <1>4, <2>2
    <3> QED BY <1>0, <2>2, <2>3, <2>4, <3>1, <3>2, AnswerAdded DEF v
  <2>6. \A cmd \in BodyKinds : line.kind # BodyKind(cmd)
    BY <2>2, BodyKindOf DEF BodyKinds
  <2>7. \A k : AllOf(wire, jobs, k) => AllOf(v, ks, k)
    BY <1>5, <2>h, <2>2, <2>5
  <2> QED BY <1>0, <1>2, <2>h, <2>1, <2>5, <2>6, <2>7, ArrivalKeeps
<1>9. CASE AnswerLost
  <2>1. jobs' = Tail(jobs) /\ wire' = wire
    BY <1>9 DEF AnswerLost
  <2> QED BY <1>0, <1>2, <1>h, <2>1, ArrivalKeeps
<1> QED BY <1>7, <1>8, <1>9 DEF ModemAnswers, ModemStep

LEMMA NoticesKeepAnswers ==
  ASSUME Types, Answered, Network \/ PduPrinted \/ PduGarbled
  PROVE  Answered'
<1>0. /\ PortTypes /\ wire \in Seq(Lines) /\ jobs \in Seq(Jobs) /\ issued \in Nat
      /\ owed \in Direct \cup {Nobody}
      /\ ringing # NoRing => ringing.call \in Calls
  BY DEF Types, PortTypes, NetworkTypes
<1>1. ASSUME NEW line \in Lines, ~Ans(line), Announce(line) PROVE Answered'
  <2>1. wire' = Append(wire, line) /\ UNCHANGED <<port, op, jobs, issued>>
    BY <1>1 DEF Announce, Emit
  <2>2. /\ InOrder(wire, jobs, issued) => InOrder(wire', jobs, issued)
        /\ \A n : AllOf(wire, jobs, n) => AllOf(wire', jobs, n)
        /\ NoneOut(wire, jobs) => NoneOut(wire', jobs)
        /\ \A cmd : NoneLike(wire, jobs, cmd) => NoneLike(wire', jobs, cmd)
        /\ \A cmd : OnlyProbe(wire, jobs, cmd, issued) => OnlyProbe(wire', jobs, cmd, issued)
    BY <1>0, <1>1, <2>1, NoticeArrives
  <2> QED BY <2>1, <2>2, ArrivalKeeps
<1>2. ASSUME NEW m \in Stored, SmsStored(m) PROVE Answered'
  <2>1. ~Ans(LineOf("cmti", m))
    BY DEF Ans, LineOf, AnswerKinds
  <2> QED BY <1>1, <1>2, <2>1, LineTypes DEF SmsStored
<1>3. ASSUME NEW m \in Direct, SmsDelivered(m) PROVE Answered'
  <2>1. ~Ans(LineOf("cmt", m))
    BY DEF Ans, LineOf, AnswerKinds
  <2> QED BY <1>1, <1>3, <2>1, LineTypes DEF SmsDelivered
<1>4. ASSUME NEW e \in Events, DataEvent(e) PROVE Answered'
  <2>1. ~Ans(LineOf("cgev", e))
    BY DEF Ans, LineOf, AnswerKinds
  <2> QED BY <1>1, <1>4, <2>1, LineTypes DEF DataEvent
<1>5. \A c \in Calls, k \in CallKinds : LineOf(k, c) \in Lines /\ ~Ans(LineOf(k, c))
  BY LineTypes DEF Ans, LineOf, AnswerKinds, CallKinds
<1>6. ASSUME NEW c \in Calls, Ring(c) PROVE Answered'
  BY <1>1, <1>5, <1>6 DEF Ring, CallKinds
<1>7. CASE CallerId
  BY <1>0, <1>1, <1>5, <1>7 DEF CallerId, CallKinds
<1>8. CASE CallEnds
  BY <1>0, <1>1, <1>5, <1>8 DEF CallEnds, CallKinds
<1>9. CASE CallEndsSilently
  BY <1>9, BetweenKeeps DEF CallEndsSilently, portVars, FlagsKept
<1>10. CASE PduPrinted
  <2>1. owed \in Direct /\ ~Ans(LineOf("pdu", owed))
    BY <1>0, <1>10, PartiesAssumption DEF PduPrinted, Ans, LineOf
  <2> QED BY <1>1, <1>10, <2>1, LineTypes DEF PduPrinted
<1>11. CASE PduGarbled
  <2>1. owed \in Direct /\ ~Ans(LineOf("noise", owed))
    BY <1>0, <1>11 DEF PduGarbled, Ans, LineOf, AnswerKinds
  <2> QED BY <1>1, <1>11, <2>1, LineTypes DEF PduGarbled
<1> QED BY <1>2, <1>3, <1>4, <1>6, <1>7, <1>8, <1>9, <1>10, <1>11 DEF Network

(* A handled line at most makes the loop send its hang-up. *)
LEMMA HandledOp ==
  ASSUME Types, NEW line, NEW q, HandleLine(line, q)
  PROVE  /\ port' = q
         /\ op' = op \/ (op'.state = "sync" /\ op'.got = {} /\ op'.n = 0)
<1>1. \A c, place : CommitCall(c, place) => op'.state = "sync" /\ op'.got = {} /\ op'.n = 0
  BY DEF CommitCall, SendAt, NoOp
<1>2. CASE expected # NoLine
  BY <1>2 DEF HandleLine, NoCommand
<1>3. CASE expected = NoLine
  <2>1. HandleUrcDeferred(line) /\ port' = q
    BY <1>3 DEF HandleLine
  <2>2. CASE line.kind = "clip" /\ handler.state = "ringing"
    BY <1>1, <2>1, <2>2 DEF HandleUrcDeferred
  <2>3. CASE ~(line.kind = "clip" /\ handler.state = "ringing")
    BY <2>1, <2>3 DEF HandleUrcDeferred, NoCommand
  <2> QED BY <2>1, <2>2, <2>3
<1> QED BY <1>2, <1>3

LEMMA PollsKeepAnswers ==
  ASSUME Types, Answered, PollBuffered \/ PollWire \/ EndPoll
  PROVE  Answered'
<1>0. /\ PortTypes /\ SoundPort(port) /\ wire \in Seq(Lines) /\ jobs \in Seq(Jobs) /\ issued \in Nat
      /\ SoundPort(ExpireHeader(port)) /\ FlagsKept(port, ExpireHeader(port))
      /\ port.late \in BOOLEAN
  BY ExpireEffect DEF Types, PortTypes, SoundPort, Ports
<1>1. CASE PollBuffered
  <2> DEFINE q == ExpireHeader(port)
  <2>1. /\ Popped(q, Head(port.buf)) /\ UNCHANGED <<wire, jobs, issued>> /\ op.state = "idle"
    BY <1>1, PollBufferedEffect DEF PollBuffered, Polling
  <2>2. SoundPort(q) /\ FlagsKept(port, q)
    BY <1>0
  <2> HIDE DEF q
  <2>3. /\ port' = [q EXCEPT !.buf = Tail(q.buf)]
        /\ op' = op \/ (op'.state = "sync" /\ op'.got = {})
    BY <2>1, HandledOp DEF Popped
  <2>4. FlagsKept(port, port')
    BY <2>1, <2>2, <2>3, PoppedSound DEF Popped, FlagsKept
  <2> QED BY <2>1, <2>3, <2>4, BetweenKeeps
<1>2. CASE PollWire
  <2> DEFINE line == wire[1]
  <2>1. /\ wire # <<>> /\ wire' = Tail(wire) /\ UNCHANGED <<jobs, issued>> /\ op.state = "idle"
        /\ Head(wire) = line /\ line \in Lines /\ (Terminal(line) => Ans(line))
    BY <1>0, <1>2, PollWireEffect, TakenIsAnswer DEF PollWire, Polling
  <2>2. /\ port'.cmgf = port.cmgf /\ port'.late = (port.late /\ ~Terminal(line))
        /\ op' = op \/ (op'.state = "sync" /\ op'.got = {} /\ op'.n = 0)
    <3>1. ASSUME ~port.late, HandleLine(line, ExpireHeader(port))
          PROVE  /\ port'.cmgf = port.cmgf /\ port'.late = (port.late /\ ~Terminal(line))
                 /\ op' = op \/ (op'.state = "sync" /\ op'.got = {} /\ op'.n = 0)
      BY <1>0, <3>1, HandledOp DEF FlagsKept
    <3>2. ASSUME NEW q, SoundPort(q), q.cmgf = port.cmgf, q.late = (port.late /\ ~Terminal(line)),
                 Popped(q, Head(q.buf)) \/ NothingPolled(q, {"poll", "tick"})
          PROVE  /\ port'.cmgf = port.cmgf /\ port'.late = (port.late /\ ~Terminal(line))
                 /\ op' = op \/ (op'.state = "sync" /\ op'.got = {} /\ op'.n = 0)
      <4>1. CASE Popped(q, Head(q.buf))
        <5>1. /\ port' = [q EXCEPT !.buf = Tail(q.buf)] /\ q.buf # <<>>
              /\ op' = op \/ (op'.state = "sync" /\ op'.got = {} /\ op'.n = 0)
          BY <4>1, HandledOp DEF Popped
        <5>2. FlagsKept(q, port')
          BY <3>2, <5>1, PoppedSound
        <5> QED BY <3>2, <5>1, <5>2 DEF FlagsKept
      <4>2. CASE NothingPolled(q, {"poll", "tick"})
        BY <3>2, <4>2 DEF NothingPolled
      <4> QED BY <3>2, <4>1, <4>2
    <3>3. \/ ~port.late /\ HandleLine(line, ExpireHeader(port))
          \/ \E q : /\ SoundPort(q) /\ q.cmgf = port.cmgf
                    /\ q.late = (port.late /\ ~Terminal(line))
                    /\ Popped(q, Head(q.buf)) \/ NothingPolled(q, {"poll", "tick"})
      BY <1>2, <2>1, PollWireEffect DEF Reads
    <3> QED BY <3>1, <3>2, <3>3
  <2>3. op'.state \in {"idle", "sync"} /\ op'.got = {} /\ Probe' = Probe /\ op.got = {}
    BY <2>1, <2>2 DEF Answered, Probe
  <2>4. InOrder(wire', jobs', issued')
    BY <1>0, <2>1, OutRead, SameRefl DEF Answered
  <2>5. CASE ~port.late
    <3>1. NoneOut(wire, jobs)
      BY <2>1, <2>5 DEF Answered, Between
    <3>2. NoneOut(wire', jobs')
      BY <1>0, <2>1, <3>1, OutRead, SameRefl
    <3> QED BY <2>2, <2>3, <2>4, <2>5, <3>2 DEF Answered, Between, Listening
  <2>6. CASE port.late
    <3>1. PICK n \in Nat : AllOf(wire, jobs, n)
      BY <2>1, <2>6 DEF Answered, Between
    <3>2. NoneLike(wire, jobs, Probe) /\ InOrder(wire, jobs, issued)
      BY <2>1, <2>6 DEF Answered, Between
    <3>3. /\ AllOf(wire', jobs', n) /\ NoneLike(wire', jobs', Probe')
          /\ Terminal(line) => NoneOut(wire', jobs')
      BY <1>0, <2>1, <2>3, <3>1, <3>2, OutRead, SameRefl
    <3> QED BY <2>2, <2>3, <2>4, <2>6, <3>3 DEF Answered, Between, Listening
  <2> QED BY <1>0, <2>5, <2>6
<1>3. CASE EndPoll
  <2>1. port' \in {port, ExpireHeader(port)} /\ UNCHANGED <<op, wire, jobs, issued>>
    BY <1>3 DEF EndPoll, NothingPolled
  <2>2. FlagsKept(port, port')
    BY <1>0, <2>1 DEF FlagsKept
  <2> QED BY <2>1, <2>2, BetweenKeeps
<1> QED BY <1>1, <1>2, <1>3

LEMMA AnswersNext ==
  ASSUME ~Sluggish, Types, AllPaired, Answered, [Next]_vars
  PROVE  Answered'
<1>0. FlagsKept(port, port) /\ NoOp.state = "idle" /\ NoOp.got = {}
  BY DEF FlagsKept, NoOp
<1>1. CASE Network \/ PduPrinted \/ PduGarbled
  BY <1>1, NoticesKeepAnswers
<1>2. CASE ModemAnswers
  BY <1>2, AnswersArrive
<1>3. CASE Elapse
  BY <1>0, <1>3, BetweenKeeps DEF Elapse, portVars
<1>4. CASE Age
  <2>1. UNCHANGED <<op, wire, jobs, issued>> /\ port' = [port EXCEPT !.old = TRUE]
    BY <1>4 DEF Age, HeaderAges
  <2>2. FlagsKept(port, port')
    BY <2>1 DEF Types, PortTypes, SoundPort, Ports, FlagsKept
  <2> QED BY <2>1, <2>2, BetweenKeeps
<1>5. CASE PollBuffered \/ PollWire \/ EndPoll
  BY <1>5, PollsKeepAnswers
<1>6. CASE Tick
  <2>1. UNCHANGED <<port, wire, jobs, issued>> /\ op.state = "idle"
    BY <1>6 DEF Tick, Types, Standstill
  <2>2. op' = op \/ (op'.state = "sync" /\ op'.got = {})
    BY <1>6 DEF Tick, TickDeferred, CommitCall, SendAt, NoCommand, NoOp
  <2> QED BY <1>0, <2>1, <2>2, BetweenKeeps
<1>7. ASSUME NEW cmd \in OwnCommands, Command(cmd) PROVE Answered'
  <2>1. UNCHANGED <<port, wire, jobs, issued>> /\ op.state = "idle"
        /\ op'.state = "sync" /\ op'.got = {}
    BY <1>7 DEF Command, SendAt, NoOp
  <2> QED BY <1>0, <2>1, BetweenKeeps
<1>8. CASE CommandDone
  BY <1>0, <1>8, BetweenKeeps DEF CommandDone
<1>9. CASE EndPass \/ UNCHANGED vars
  BY <1>0, <1>9, BetweenKeeps DEF EndPass, portVars, vars
<1>10. CASE OnPort
  BY <1>10, SyncAnswers, ListenAnswers DEF OnPort, PortStep
<1> QED BY <1>1, <1>2, <1>3, <1>4, <1>5, <1>6, <1>7, <1>8, <1>9, <1>10 DEF Next, Device

LEMMA AnsweredInit == Init => Answered
<1> SUFFICES ASSUME Init PROVE Answered
  OBVIOUS
<1>1. /\ wire = <<>> /\ jobs = <<>> /\ port.late = FALSE /\ op.state = "idle" /\ op.got = {}
      /\ Len(wire) = 0 /\ Len(jobs) = 0
  BY EmptySeq DEF Init, PortInit, NoOp
<1>2. NoneOut(wire, jobs) /\ InOrder(wire, jobs, issued)
  BY <1>1 DEF NoneOut, InOrder
<1> QED BY <1>1, <1>2 DEF Answered, Between, Listening

(* A terminal, a body line or a prompt that a command takes for its own is  *)
(* the answer to that command, though earlier ones timed out or were        *)
(* interrupted and are answered later or never; provided that no answer     *)
(* comes later than a whole resynchronisation.                              *)
THEOREM AnswersGoToCommands == ASSUME ~Sluggish PROVE Spec => []AnswersMatch
<1>1. Types /\ AllPaired /\ Answered /\ [Next]_vars => Answered'
  BY AnswersNext
<1>2. Types /\ AllPaired /\ [Next]_vars => AllPaired'
  BY PairsNext
<1>3. Answered => AnswersMatch
  BY DEF Answered, AnswersMatch
<1> QED BY <1>1, <1>2, <1>3, AnsweredInit, PairsInit, TypesInit, TypesNext, PTL DEF Spec

-----------------------------------------------------------------------------
(* Calls.  The lines that the loop has yet to handle, those of the buffer   *)
(* before those of the wire, between the call the handler holds and the     *)
(* call that rings: the lines of one call are together, its end last.       *)

Grouped(s, h, r, known) ==
  /\ \A i, j, k \in 1 .. Len(s) :
       i < j /\ j < k /\ CallLine(s[i]) /\ CallLine(s[j]) /\ CallLine(s[k]) /\ s[i].of = s[k].of
         => s[j].of = s[i].of
  /\ \A j, k \in 1 .. Len(s) :
       j < k /\ CallLine(s[j]) /\ CallLine(s[k]) /\ s[k].of = h => s[j].of = h
  /\ \A i, j \in 1 .. Len(s) :
       i < j /\ CallLine(s[i]) /\ CallLine(s[j]) /\ s[i].of = r => s[j].of = r
  /\ h # Nobody /\ h = r => \A j \in 1 .. Len(s) : CallLine(s[j]) => s[j].of = h
  /\ \A i, k \in 1 .. Len(s) : i < k /\ s[i].kind = "gone" /\ CallLine(s[k]) => s[k].of # s[i].of
  /\ \A i \in 1 .. Len(s) : s[i].kind = "gone" => s[i].of # r
  /\ \A i \in 1 .. Len(s) : CallLine(s[i]) => LineOf("ring", s[i].of) \in known
  /\ \A c \in {h, r} \ {Nobody} : LineOf("ring", c) \in known

(* Lines may be dropped. *)
LEMMA GroupedKept ==
  ASSUME NEW s \in Seq(Lines), NEW t \in Seq(Lines), Embeds(t, s), NEW h, NEW r, NEW known,
         Grouped(s, h, r, known)
  PROVE  Grouped(t, h, r, known)
<1> DEFINE m == Len(s)
           n == Len(t)
<1>1. PICK g \in [DOMAIN t -> Int] :
        \A i \in DOMAIN t :
          CallLine(t[i]) =>
            /\ g[i] \in DOMAIN s /\ s[g[i]] = t[i]
            /\ \A j \in DOMAIN t : CallLine(t[j]) /\ i < j => g[i] < g[j]
  BY DEF Embeds
<1>2. DOMAIN s = 1 .. m /\ DOMAIN t = 1 .. n
  BY LenProperties
<1> HIDE DEF m, n
<1>3. /\ \A i \in 1 .. n : CallLine(t[i]) => g[i] \in 1 .. m /\ s[g[i]] = t[i]
      /\ \A i, j \in 1 .. n : i < j /\ CallLine(t[i]) /\ CallLine(t[j]) => g[i] < g[j]
      /\ \A i \in 1 .. n : t[i].kind = "gone" => CallLine(t[i])
  BY <1>1, <1>2 DEF CallLine, CallKinds
<1>a. \A i, j, k \in 1 .. m :
        i < j /\ j < k /\ CallLine(s[i]) /\ CallLine(s[j]) /\ CallLine(s[k]) /\ s[i].of = s[k].of
          => s[j].of = s[i].of
  BY DEF Grouped, m
<1>e. \A i, k \in 1 .. m : i < k /\ s[i].kind = "gone" /\ CallLine(s[k]) => s[k].of # s[i].of
  BY DEF Grouped, m
<1>b. \A j, k \in 1 .. m : j < k /\ CallLine(s[j]) /\ CallLine(s[k]) /\ s[k].of = h => s[j].of = h
  BY DEF Grouped, m
<1>c. \A i, j \in 1 .. m : i < j /\ CallLine(s[i]) /\ CallLine(s[j]) /\ s[i].of = r => s[j].of = r
  BY DEF Grouped, m
<1>d. h # Nobody /\ h = r => \A j \in 1 .. m : CallLine(s[j]) => s[j].of = h
  BY DEF Grouped, m
<1>4. \A i, j, k \in 1 .. n :
        i < j /\ j < k /\ CallLine(t[i]) /\ CallLine(t[j]) /\ CallLine(t[k]) /\ t[i].of = t[k].of
          => t[j].of = t[i].of
  <2> SUFFICES ASSUME NEW i \in 1 .. n, NEW j \in 1 .. n, NEW k \in 1 .. n, i < j, j < k,
                      CallLine(t[i]), CallLine(t[j]), CallLine(t[k]), t[i].of = t[k].of
               PROVE  t[j].of = t[i].of
    OBVIOUS
  <2> DEFINE x == g[i]
             y == g[j]
             z == g[k]
  <2>1. /\ x \in 1 .. m /\ y \in 1 .. m /\ z \in 1 .. m
        /\ s[x] = t[i] /\ s[y] = t[j] /\ s[z] = t[k] /\ x < y /\ y < z
    BY <1>3
  <2> HIDE DEF x, y, z
  <2>2. CallLine(s[x]) /\ CallLine(s[y]) /\ CallLine(s[z]) /\ s[x].of = s[z].of
    BY <2>1
  <2>3. s[y].of = s[x].of
    BY <1>a, <2>1, <2>2
  <2> QED BY <2>1, <2>3
<1>5. \A j, k \in 1 .. n : j < k /\ CallLine(t[j]) /\ CallLine(t[k]) /\ t[k].of = h => t[j].of = h
  <2> SUFFICES ASSUME NEW j \in 1 .. n, NEW k \in 1 .. n, j < k, CallLine(t[j]), CallLine(t[k]),
                      t[k].of = h
               PROVE  t[j].of = h
    OBVIOUS
  <2>1. g[j] \in 1 .. m /\ g[k] \in 1 .. m /\ s[g[j]] = t[j] /\ s[g[k]] = t[k] /\ g[j] < g[k]
    BY <1>3
  <2> QED BY <1>b, <2>1
<1>6. \A i, j \in 1 .. n : i < j /\ CallLine(t[i]) /\ CallLine(t[j]) /\ t[i].of = r => t[j].of = r
  <2> SUFFICES ASSUME NEW j \in 1 .. n, NEW k \in 1 .. n, j < k, CallLine(t[j]), CallLine(t[k]),
                      t[j].of = r
               PROVE  t[k].of = r
    OBVIOUS
  <2>1. g[j] \in 1 .. m /\ g[k] \in 1 .. m /\ s[g[j]] = t[j] /\ s[g[k]] = t[k] /\ g[j] < g[k]
    BY <1>3
  <2> QED BY <1>c, <2>1
<1>7. h # Nobody /\ h = r => \A j \in 1 .. n : CallLine(t[j]) => t[j].of = h
  <2> SUFFICES ASSUME h # Nobody, h = r, NEW j \in 1 .. n, CallLine(t[j]) PROVE t[j].of = h
    OBVIOUS
  <2>1. g[j] \in 1 .. m /\ s[g[j]] = t[j]
    BY <1>3
  <2> QED BY <1>d, <2>1
<1>8. \A i, k \in 1 .. n : i < k /\ t[i].kind = "gone" /\ CallLine(t[k]) => t[k].of # t[i].of
  <2> SUFFICES ASSUME NEW i \in 1 .. n, NEW k \in 1 .. n, i < k, t[i].kind = "gone", CallLine(t[k])
               PROVE  t[k].of # t[i].of
    OBVIOUS
  <2>1. g[i] \in 1 .. m /\ g[k] \in 1 .. m /\ s[g[i]] = t[i] /\ s[g[k]] = t[k] /\ g[i] < g[k]
    BY <1>3
  <2> QED BY <1>e, <2>1
<1>9. \A i \in 1 .. n : t[i].kind = "gone" => t[i].of # r
  BY <1>3 DEF Grouped, m
<1>10. \A i \in 1 .. n : CallLine(t[i]) => LineOf("ring", t[i].of) \in known
  BY <1>3 DEF Grouped, m
<1> QED BY <1>4, <1>5, <1>6, <1>7, <1>8, <1>9, <1>10 DEF Grouped, n

(* The first line is taken, and the handler may hold its call then. *)
LEMMA GroupedPopped ==
  ASSUME NEW s \in Seq(Lines), s # <<>>, NEW h, NEW r, NEW known, Grouped(s, h, r, known)
  PROVE  LET t == Tail(s)
         IN  /\ Grouped(t, h, r, known) /\ Grouped(t, Nobody, r, known)
             /\ CallLine(s[1]) /\ s[1].kind # "gone" => Grouped(t, s[1].of, r, known)
             /\ s[1].kind = "gone" /\ h \in Calls =>
                  /\ h # r /\ LineOf("ring", h) \in known
                  /\ \A i \in 1 .. Len(t) : CallLine(t[i]) => t[i].of # h
<1> DEFINE t == Tail(s)
           n == Len(s)
<1>1. /\ n \in Nat \ {0} /\ Len(t) = n - 1 /\ t \in Seq(Lines)
      /\ \A i \in 1 .. n - 1 : t[i] = s[i + 1]
      /\ \A i \in 1 .. n : s[i] \in Lines
  BY TailOf
<1>2. \A l \in Lines : CallLine(l) => l.of \in Calls /\ l.of # Nobody
  BY PartiesAssumption DEF Lines, CallLine, Nobody
<1> HIDE DEF t, n
<1>3. \A i \in 1 .. n - 1 : i + 1 \in 1 .. n /\ 1 < i + 1 /\ 1 \in 1 .. n
  BY <1>1
<1>a. \A i, j, k \in 1 .. n :
        i < j /\ j < k /\ CallLine(s[i]) /\ CallLine(s[j]) /\ CallLine(s[k]) /\ s[i].of = s[k].of
          => s[j].of = s[i].of
  BY DEF Grouped, n
<1>4. ASSUME NEW e, \A i \in 1 .. n - 1 : CallLine(s[i + 1]) /\ s[i + 1].of = e =>
                      \A j \in 1 .. i - 1 : CallLine(s[j + 1]) => s[j + 1].of = e,
             e # Nobody /\ e = r => \A j \in 1 .. n - 1 : CallLine(s[j + 1]) => s[j + 1].of = e,
             e # Nobody => LineOf("ring", e) \in known
      PROVE  Grouped(t, e, r, known)
  <2>1. \A i, j, k \in 1 .. n - 1 :
          i < j /\ j < k /\ CallLine(t[i]) /\ CallLine(t[j]) /\ CallLine(t[k]) /\ t[i].of = t[k].of
            => t[j].of = t[i].of
    <3> SUFFICES ASSUME NEW i \in 1 .. n - 1, NEW j \in 1 .. n - 1, NEW k \in 1 .. n - 1, i < j, j < k,
                        CallLine(t[i]), CallLine(t[j]), CallLine(t[k]), t[i].of = t[k].of
                 PROVE  t[j].of = t[i].of
      OBVIOUS
    <3>1. /\ i + 1 < j + 1 /\ j + 1 < k + 1 /\ i + 1 \in 1 .. n /\ j + 1 \in 1 .. n /\ k + 1 \in 1 .. n
          /\ t[i] = s[i + 1] /\ t[j] = s[j + 1] /\ t[k] = s[k + 1]
      BY <1>1
    <3> QED BY <1>a, <3>1
  <2>2. \A j, k \in 1 .. n - 1 : j < k /\ CallLine(t[j]) /\ CallLine(t[k]) /\ t[k].of = e => t[j].of = e
    <3> SUFFICES ASSUME NEW j \in 1 .. n - 1, NEW k \in 1 .. n - 1, j < k,
                        CallLine(t[j]), CallLine(t[k]), t[k].of = e
                 PROVE  t[j].of = e
      OBVIOUS
    <3>1. j \in 1 .. k - 1 /\ t[j] = s[j + 1] /\ t[k] = s[k + 1]
      BY <1>1
    <3> QED BY <1>4, <3>1
  <2>3. \A i, j \in 1 .. n - 1 : i < j /\ CallLine(t[i]) /\ CallLine(t[j]) /\ t[i].of = r => t[j].of = r
    <3> SUFFICES ASSUME NEW i \in 1 .. n - 1, NEW j \in 1 .. n - 1, i < j,
                        CallLine(t[i]), CallLine(t[j]), t[i].of = r
                 PROVE  t[j].of = r
      OBVIOUS
    <3>1. i + 1 < j + 1 /\ i + 1 \in 1 .. n /\ j + 1 \in 1 .. n /\ t[i] = s[i + 1] /\ t[j] = s[j + 1]
      BY <1>1
    <3> QED BY <3>1 DEF Grouped, n
  <2>4. e # Nobody /\ e = r => \A j \in 1 .. n - 1 : CallLine(t[j]) => t[j].of = e
    BY <1>1, <1>4
  <2>5. \A i, k \in 1 .. n - 1 : i < k /\ t[i].kind = "gone" /\ CallLine(t[k]) => t[k].of # t[i].of
    <3> SUFFICES ASSUME NEW i \in 1 .. n - 1, NEW k \in 1 .. n - 1, i < k, t[i].kind = "gone",
                        CallLine(t[k])
                 PROVE  t[k].of # t[i].of
      OBVIOUS
    <3>1. i + 1 < k + 1 /\ i + 1 \in 1 .. n /\ k + 1 \in 1 .. n /\ t[i] = s[i + 1] /\ t[k] = s[k + 1]
      BY <1>1
    <3> QED BY <3>1 DEF Grouped, n
  <2>6. \A i \in 1 .. n - 1 : t[i].kind = "gone" => t[i].of # r
    BY <1>1, <1>3 DEF Grouped, n
  <2>7. \A i \in 1 .. n - 1 : CallLine(t[i]) => LineOf("ring", t[i].of) \in known
    BY <1>1, <1>3 DEF Grouped, n
  <2>8. \A c \in {e, r} \ {Nobody} : LineOf("ring", c) \in known
    BY <1>4 DEF Grouped
  <2> QED BY <1>1, <2>1, <2>2, <2>3, <2>4, <2>5, <2>6, <2>7, <2>8 DEF Grouped
<1>5. Grouped(t, h, r, known)
  <2>1. ASSUME NEW i \in 1 .. n - 1, CallLine(s[i + 1]), s[i + 1].of = h,
               NEW j \in 1 .. i - 1, CallLine(s[j + 1])
        PROVE  s[j + 1].of = h
    <3>1. j + 1 < i + 1 /\ i + 1 \in 1 .. n /\ j + 1 \in 1 .. n
      BY <1>1
    <3> QED BY <2>1, <3>1 DEF Grouped, n
  <2>2. h # Nobody /\ h = r => \A j \in 1 .. n - 1 : CallLine(s[j + 1]) => s[j + 1].of = h
    BY <1>3 DEF Grouped, n
  <2>3. h # Nobody => LineOf("ring", h) \in known
    BY DEF Grouped
  <2> QED BY <1>4, <2>1, <2>2, <2>3
<1>6. Grouped(t, Nobody, r, known)
  <2>1. \A i \in 1 .. n - 1 : CallLine(s[i + 1]) => s[i + 1].of # Nobody
    BY <1>1, <1>2, <1>3
  <2> QED BY <1>4, <2>1
<1>7. ASSUME CallLine(s[1]), s[1].kind # "gone", n > 0 PROVE Grouped(t, s[1].of, r, known)
  <2> DEFINE c == s[1].of
  <2>0. 1 \in 1 .. n
    BY <1>1
  <2>1. ASSUME NEW i \in 1 .. n - 1, CallLine(s[i + 1]), s[i + 1].of = c,
               NEW j \in 1 .. i - 1, CallLine(s[j + 1])
        PROVE  s[j + 1].of = c
    <3>1. 1 < j + 1 /\ j + 1 < i + 1 /\ i + 1 \in 1 .. n /\ j + 1 \in 1 .. n
      BY <1>1
    <3> QED BY <1>7, <2>0, <2>1, <3>1 DEF Grouped, n
  <2>2. ASSUME c = r, NEW j \in 1 .. n - 1, CallLine(s[j + 1]) PROVE s[j + 1].of = c
    <3>1. 1 < j + 1 /\ j + 1 \in 1 .. n
      BY <1>1
    <3> QED BY <1>7, <2>0, <2>2, <3>1 DEF Grouped, n
  <2>3. LineOf("ring", c) \in known
    BY <1>7, <2>0 DEF Grouped, n
  <2> HIDE DEF c
  <2>4. Grouped(t, c, r, known)
    BY <1>4, <2>1, <2>2, <2>3
  <2> QED BY <2>4 DEF c
<1>8. ASSUME s[1].kind = "gone", h \in Calls
      PROVE  /\ h # r /\ LineOf("ring", h) \in known
             /\ \A i \in 1 .. n - 1 : CallLine(t[i]) => t[i].of # h
  <2>0. 1 \in 1 .. n /\ CallLine(s[1]) /\ h # Nobody
    BY <1>1, <1>8, PartiesAssumption DEF CallLine, CallKinds, Nobody
  <2>1. h # r
    BY <1>8, <2>0 DEF Grouped, n
  <2>2. ASSUME NEW i \in 1 .. n - 1, CallLine(t[i]), t[i].of = h PROVE FALSE
    <3>1. 1 < i + 1 /\ i + 1 \in 1 .. n /\ t[i] = s[i + 1]
      BY <1>1
    <3>2. s[1].of = h
      BY <2>0, <2>2, <3>1 DEF Grouped, n
    <3> QED BY <1>8, <2>0, <2>2, <3>1, <3>2 DEF Grouped, n
  <2>3. LineOf("ring", h) \in known
    BY <2>0 DEF Grouped
  <2> QED BY <2>1, <2>2, <2>3
<1> QED BY <1>1, <1>5, <1>6, <1>7, <1>8 DEF t

(* The call that rings is over, and more lines arrive. *)
LEMMA GroupedOver ==
  ASSUME NEW s \in Seq(Lines), NEW h, NEW r, NEW known, NEW more, Grouped(s, h, r, known),
         known \subseteq more
  PROVE  Grouped(s, h, r, more) /\ Grouped(s, h, Nobody, more)
<1>1. \A i \in 1 .. Len(s) : CallLine(s[i]) \/ s[i].kind = "gone" => s[i].of # Nobody
  <2>1. \A l \in Lines : CallLine(l) \/ l.kind = "gone" => l.of # Nobody
    BY PartiesAssumption DEF Lines, CallLine, CallKinds, Nobody
  <2> QED BY <2>1, ElementOfSeq
<1>2. Grouped(s, h, r, more)
  BY DEF Grouped
<1>3. Grouped(s, h, Nobody, more)
  BY <1>1 DEF Grouped
<1> QED BY <1>2, <1>3

(* A line of no call arrives. *)
LEMMA GroupedOther ==
  ASSUME NEW s \in Seq(Lines), NEW h, NEW r, NEW known, NEW more, Grouped(s, h, r, known),
         known \subseteq more, NEW line \in Lines, ~CallLine(line)
  PROVE  Grouped(Append(s, line), h, r, more)
<1>1. Append(s, line) \in Seq(Lines)
  BY AppendOf
<1>2. Embeds(Append(s, line), s)
  BY EmbedsRefl, AddedEmbeds
<1>3. Grouped(Append(s, line), h, r, known)
  BY <1>1, <1>2, GroupedKept
<1> QED BY <1>1, <1>3, GroupedOver

(* A call rings, or its number is told. *)
LEMMA GroupedRings ==
  ASSUME NEW s \in Seq(Lines), NEW h, NEW r, NEW known, NEW more, Grouped(s, h, r, known),
         known \subseteq more, NEW c \in Calls, NEW line \in Lines, line.kind \in {"ring", "clip"},
         line.of = c, LineOf("ring", c) \in more,
         r = c \/ (r = Nobody /\ LineOf("ring", c) \notin known)
  PROVE  Grouped(Append(s, line), h, c, more)
<1> DEFINE v == Append(s, line)
           n == Len(s)
<1>1. /\ n \in Nat /\ Len(v) = n + 1 /\ v[n + 1] = line /\ \A i \in 1 .. n : v[i] = s[i]
      /\ \A i \in 1 .. n : s[i] \in Lines
  BY AppendOf
<1> HIDE DEF v, n
<1>2. /\ \A i \in 1 .. n + 1 : (i \in 1 .. n /\ v[i] = s[i]) \/ (i = n + 1 /\ v[i] = line)
      /\ \A i, j \in 1 .. n + 1 : i < j => i \in 1 .. n /\ v[i] = s[i]
  BY <1>1
<1>3. CallLine(line) /\ line.kind # "gone" /\ c # Nobody
  BY PartiesAssumption DEF CallLine, CallKinds, Nobody
<1>g. \A i \in 1 .. n : s[i].kind = "gone" => CallLine(s[i])
  BY DEF CallLine, CallKinds
<1>4. /\ \A i, j \in 1 .. n : i < j /\ CallLine(s[i]) /\ CallLine(s[j]) /\ s[i].of = c => s[j].of = c
      /\ h = c => \A j \in 1 .. n : CallLine(s[j]) => s[j].of = c
      /\ \A i \in 1 .. n : s[i].kind = "gone" => s[i].of # c
  <2>1. CASE r = c
    BY <1>3, <2>1 DEF Grouped, n
  <2>2. CASE LineOf("ring", c) \notin known
    <3>1. \A i \in 1 .. n : CallLine(s[i]) => s[i].of # c
      BY <2>2 DEF Grouped, n
    <3>2. h # c
      BY <1>3, <2>2 DEF Grouped
    <3> QED BY <1>g, <3>1, <3>2
  <2> QED BY <2>1, <2>2
<1>5. \A i, j, k \in 1 .. n + 1 :
        i < j /\ j < k /\ CallLine(v[i]) /\ CallLine(v[j]) /\ CallLine(v[k]) /\ v[i].of = v[k].of
          => v[j].of = v[i].of
  <2> SUFFICES ASSUME NEW i \in 1 .. n + 1, NEW j \in 1 .. n + 1, NEW k \in 1 .. n + 1, i < j, j < k,
                      CallLine(v[i]), CallLine(v[j]), CallLine(v[k]), v[i].of = v[k].of
               PROVE  v[j].of = v[i].of
    OBVIOUS
  <2>1. i \in 1 .. n /\ j \in 1 .. n /\ v[i] = s[i] /\ v[j] = s[j]
    BY <1>2
  <2>2. CASE k \in 1 .. n
    <3>1. v[k] = s[k]
      BY <1>1, <2>2
    <3>2. \A x, y, z \in 1 .. n :
            x < y /\ y < z /\ CallLine(s[x]) /\ CallLine(s[y]) /\ CallLine(s[z]) /\ s[x].of = s[z].of
              => s[y].of = s[x].of
      BY DEF Grouped, n
    <3> QED BY <2>1, <2>2, <3>1, <3>2
  <2>3. CASE k = n + 1
    BY <1>1, <1>4, <2>1, <2>3
  <2> QED BY <1>2, <2>2, <2>3
<1>6. \A j, k \in 1 .. n + 1 : j < k /\ CallLine(v[j]) /\ CallLine(v[k]) /\ v[k].of = h => v[j].of = h
  <2> SUFFICES ASSUME NEW j \in 1 .. n + 1, NEW k \in 1 .. n + 1, j < k, CallLine(v[j]),
                      CallLine(v[k]), v[k].of = h
               PROVE  v[j].of = h
    OBVIOUS
  <2>1. j \in 1 .. n /\ v[j] = s[j]
    BY <1>2
  <2>2. CASE k \in 1 .. n
    BY <1>1, <2>1, <2>2 DEF Grouped, n
  <2>3. CASE k = n + 1
    BY <1>1, <1>4, <2>1, <2>3
  <2> QED BY <1>2, <2>2, <2>3
<1>7. \A i, j \in 1 .. n + 1 : i < j /\ CallLine(v[i]) /\ CallLine(v[j]) /\ v[i].of = c => v[j].of = c
  <2> SUFFICES ASSUME NEW i \in 1 .. n + 1, NEW j \in 1 .. n + 1, i < j, CallLine(v[i]),
                      CallLine(v[j]), v[i].of = c
               PROVE  v[j].of = c
    OBVIOUS
  <2>1. i \in 1 .. n /\ v[i] = s[i]
    BY <1>2
  <2>2. CASE j \in 1 .. n
    BY <1>1, <1>4, <2>1, <2>2
  <2>3. CASE j = n + 1
    BY <1>1, <2>3
  <2> QED BY <1>2, <2>2, <2>3
<1>8. h # Nobody /\ h = c => \A j \in 1 .. n + 1 : CallLine(v[j]) => v[j].of = h
  BY <1>2, <1>4
<1>9. \A i, k \in 1 .. n + 1 : i < k /\ v[i].kind = "gone" /\ CallLine(v[k]) => v[k].of # v[i].of
  <2> SUFFICES ASSUME NEW i \in 1 .. n + 1, NEW k \in 1 .. n + 1, i < k, v[i].kind = "gone",
                      CallLine(v[k])
               PROVE  v[k].of # v[i].of
    OBVIOUS
  <2>1. i \in 1 .. n /\ v[i] = s[i]
    BY <1>2
  <2>2. CASE k \in 1 .. n
    BY <1>1, <2>1, <2>2 DEF Grouped, n
  <2>3. CASE k = n + 1
    BY <1>1, <1>4, <2>1, <2>3
  <2> QED BY <1>2, <2>2, <2>3
<1>10. \A i \in 1 .. n + 1 : v[i].kind = "gone" => v[i].of # c
  BY <1>2, <1>3, <1>4
<1>11. \A i \in 1 .. n + 1 : CallLine(v[i]) => LineOf("ring", v[i].of) \in more
  BY <1>2 DEF Grouped, n
<1>12. \A k \in {h, c} \ {Nobody} : LineOf("ring", k) \in more
  BY DEF Grouped
<1>13. Grouped(v, h, c, more)
  BY <1>1, <1>5, <1>6, <1>7, <1>8, <1>9, <1>10, <1>11, <1>12 DEF Grouped
<1> QED BY <1>13 DEF v

(* The call that rings ends. *)
LEMMA GroupedEnds ==
  ASSUME NEW s \in Seq(Lines), NEW h, NEW r \in Calls, NEW known, NEW more, Grouped(s, h, r, known),
         known \subseteq more, NEW line \in Lines, line.kind = "gone", line.of = r
  PROVE  Grouped(Append(s, line), h, Nobody, more)
<1> DEFINE v == Append(s, line)
           n == Len(s)
<1>1. /\ n \in Nat /\ Len(v) = n + 1 /\ v[n + 1] = line /\ \A i \in 1 .. n : v[i] = s[i]
      /\ \A i \in 1 .. n : s[i] \in Lines
  BY AppendOf
<1> HIDE DEF v, n
<1>2. /\ \A i \in 1 .. n + 1 : (i \in 1 .. n /\ v[i] = s[i]) \/ (i = n + 1 /\ v[i] = line)
      /\ \A i, j \in 1 .. n + 1 : i < j => i \in 1 .. n /\ v[i] = s[i]
  BY <1>1
<1>3. /\ \A l \in Lines : CallLine(l) \/ l.kind = "gone" => l.of # Nobody
      /\ r # Nobody
  BY PartiesAssumption DEF Lines, CallLine, CallKinds, Nobody
<1>4. /\ \A i, j \in 1 .. n : i < j /\ CallLine(s[i]) /\ CallLine(s[j]) /\ s[i].of = r => s[j].of = r
      /\ h = r => \A j \in 1 .. n : CallLine(s[j]) => s[j].of = r
      /\ \A i \in 1 .. n : s[i].kind = "gone" => s[i].of # r
      /\ LineOf("ring", r) \in known
  BY <1>3 DEF Grouped, n
<1>5. \A i, j, k \in 1 .. n + 1 :
        i < j /\ j < k /\ CallLine(v[i]) /\ CallLine(v[j]) /\ CallLine(v[k]) /\ v[i].of = v[k].of
          => v[j].of = v[i].of
  <2> SUFFICES ASSUME NEW i \in 1 .. n + 1, NEW j \in 1 .. n + 1, NEW k \in 1 .. n + 1, i < j, j < k,
                      CallLine(v[i]), CallLine(v[j]), CallLine(v[k]), v[i].of = v[k].of
               PROVE  v[j].of = v[i].of
    OBVIOUS
  <2>1. i \in 1 .. n /\ j \in 1 .. n /\ v[i] = s[i] /\ v[j] = s[j]
    BY <1>2
  <2>2. CASE k \in 1 .. n
    <3>1. v[k] = s[k]
      BY <1>1, <2>2
    <3>2. \A x, y, z \in 1 .. n :
            x < y /\ y < z /\ CallLine(s[x]) /\ CallLine(s[y]) /\ CallLine(s[z]) /\ s[x].of = s[z].of
              => s[y].of = s[x].of
      BY DEF Grouped, n
    <3> QED BY <2>1, <2>2, <3>1, <3>2
  <2>3. CASE k = n + 1
    BY <1>1, <1>4, <2>1, <2>3
  <2> QED BY <1>2, <2>2, <2>3
<1>6. \A j, k \in 1 .. n + 1 : j < k /\ CallLine(v[j]) /\ CallLine(v[k]) /\ v[k].of = h => v[j].of = h
  <2> SUFFICES ASSUME NEW j \in 1 .. n + 1, NEW k \in 1 .. n + 1, j < k, CallLine(v[j]),
                      CallLine(v[k]), v[k].of = h
               PROVE  v[j].of = h
    OBVIOUS
  <2>1. j \in 1 .. n /\ v[j] = s[j]
    BY <1>2
  <2>2. CASE k \in 1 .. n
    BY <1>1, <2>1, <2>2 DEF Grouped, n
  <2>3. CASE k = n + 1
    BY <1>1, <1>4, <2>1, <2>3
  <2> QED BY <1>2, <2>2, <2>3
<1>7. \A i \in 1 .. n + 1 : CallLine(v[i]) \/ v[i].kind = "gone" => v[i].of # Nobody
  BY <1>1, <1>2, <1>3
<1>9. \A i, k \in 1 .. n + 1 : i < k /\ v[i].kind = "gone" /\ CallLine(v[k]) => v[k].of # v[i].of
  <2> SUFFICES ASSUME NEW i \in 1 .. n + 1, NEW k \in 1 .. n + 1, i < k, v[i].kind = "gone",
                      CallLine(v[k])
               PROVE  v[k].of # v[i].of
    OBVIOUS
  <2>1. i \in 1 .. n /\ v[i] = s[i]
    BY <1>2
  <2>2. CASE k \in 1 .. n
    BY <1>1, <2>1, <2>2 DEF Grouped, n
  <2>3. CASE k = n + 1
    BY <1>1, <1>4, <2>1, <2>3
  <2> QED BY <1>2, <2>2, <2>3
<1>11. \A i \in 1 .. n + 1 : CallLine(v[i]) => LineOf("ring", v[i].of) \in more
  BY <1>2, <1>4 DEF Grouped, n
<1>12. \A k \in {h, Nobody} \ {Nobody} : LineOf("ring", k) \in more
  BY DEF Grouped
<1>13. Grouped(v, h, Nobody, more)
  BY <1>1, <1>5, <1>6, <1>7, <1>9, <1>11, <1>12 DEF Grouped
<1> QED BY <1>13 DEF v

(* Lines waiting, when one arrives, is read, or is popped. *)
LEMMA WaitingGrows ==
  ASSUME NEW b \in Seq(Lines), NEW w \in Seq(Lines), NEW line \in Lines
  PROVE  b \o Append(w, line) = Append(b \o w, line)
<1>1. <<line>> \in Seq(Lines) /\ b \o w \in Seq(Lines)
  BY ConcatProperties
<1>2. Append(w, line) = w \o <<line>> /\ Append(b \o w, line) = (b \o w) \o <<line>>
  BY <1>1, AppendIsConcat
<1> QED BY <1>1, <1>2, ConcatAssociative

LEMMA WaitingRead ==
  ASSUME NEW b \in Seq(Lines), NEW w \in Seq(Lines), w # <<>>, NEW q, Reads(port, q, Head(w)),
         port.buf = b, SoundPort(q)
  PROVE  /\ q.buf \o Tail(w) \in Seq(Lines) /\ b \o w \in Seq(Lines)
         /\ Embeds(q.buf \o Tail(w), b \o w)
<1> DEFINE line == Head(w)
           t == Tail(w)
           u == Append(b, line)
<1>1. /\ line \in Lines /\ line = w[1] /\ t \in Seq(Lines) /\ Len(w) \in Nat \ {0}
      /\ Len(t) = Len(w) - 1 /\ \A i \in 1 .. Len(w) - 1 : t[i] = w[i + 1]
  BY TailOf
<1> HIDE DEF line, t
<1>2. /\ u \in Seq(Lines) /\ Len(u) = Len(b) + 1 /\ Len(b) \in Nat
      /\ \A i \in 1 .. Len(b) : u[i] = b[i]
      /\ u[Len(b) + 1] = line
  BY <1>1, AppendOf
<1> HIDE DEF u
<1>3. q.buf \in Seq(Lines)
  BY DEF SoundPort, Ports
<1>4. Embeds(q.buf \o t, u \o t)
  BY <1>1, <1>2, <1>3, EmbedsBefore DEF Reads, u, line
<1>5. u \o t = b \o w
  <2>1. /\ u \o t \in Seq(Lines) /\ b \o w \in Seq(Lines)
        /\ Len(u \o t) = Len(b) + Len(w) /\ Len(b \o w) = Len(b) + Len(w)
    <3>1. u \o t \in Seq(Lines) /\ Len(u \o t) = Len(u) + Len(t)
      BY <1>1, <1>2, ConcatProperties
    <3>2. b \o w \in Seq(Lines) /\ Len(b \o w) = Len(b) + Len(w)
      BY ConcatProperties
    <3> QED BY <1>1, <1>2, <3>1, <3>2
  <2>2. ASSUME NEW i \in 1 .. Len(b) + Len(w) PROVE (u \o t)[i] = (b \o w)[i]
    <3>1. (b \o w)[i] = IF i <= Len(b) THEN b[i] ELSE w[i - Len(b)]
      BY ConcatProperties
    <3>2. (u \o t)[i] = IF i <= Len(b) + 1 THEN u[i] ELSE t[i - (Len(b) + 1)]
      BY <1>1, <1>2, ConcatProperties
    <3>3. CASE i <= Len(b)
      BY <1>1, <1>2, <3>1, <3>2, <3>3
    <3>4. CASE i = Len(b) + 1
      BY <1>1, <1>2, <3>1, <3>2, <3>4
    <3>5. CASE i > Len(b) + 1
      <4>1. i - (Len(b) + 1) \in 1 .. Len(w) - 1 /\ i - (Len(b) + 1) + 1 = i - Len(b)
        BY <1>1, <1>2, <3>5
      <4>2. t[i - (Len(b) + 1)] = w[i - Len(b)]
        BY <1>1, <4>1
      <4>3. ~(i <= Len(b) + 1) /\ ~(i <= Len(b))
        BY <1>2, <3>5
      <4> QED BY <3>1, <3>2, <4>2, <4>3
    <3> QED BY <1>1, <1>2, <3>3, <3>4, <3>5
  <2> QED BY <2>1, <2>2, SeqEqual
<1>6. q.buf \o t \in Seq(Lines) /\ b \o w \in Seq(Lines)
  BY <1>1, <1>3, ConcatProperties
<1> QED BY <1>4, <1>5, <1>6 DEF t

LEMMA WaitingPopped ==
  ASSUME NEW b \in Seq(Lines), b # <<>>, NEW w \in Seq(Lines)
  PROVE  /\ b \o w \in Seq(Lines) /\ b \o w # <<>> /\ (b \o w)[1] = b[1]
         /\ Tail(b) \o w = Tail(b \o w)
<1>1. /\ Len(b) \in Nat \ {0} /\ Len(Tail(b)) = Len(b) - 1 /\ Tail(b) \in Seq(Lines)
      /\ \A i \in 1 .. Len(b) - 1 : Tail(b)[i] = b[i + 1]
  BY TailOf
<1>2. /\ b \o w \in Seq(Lines) /\ Len(b \o w) = Len(b) + Len(w) /\ Len(w) \in Nat
      /\ \A i \in 1 .. Len(b) + Len(w) : (b \o w)[i] = IF i <= Len(b) THEN b[i] ELSE w[i - Len(b)]
  BY ConcatProperties, LenProperties
<1>3. b \o w # <<>>
  BY <1>1, <1>2, EmptySeq
<1>4. /\ Tail(b \o w) \in Seq(Lines) /\ Len(Tail(b \o w)) = Len(b) + Len(w) - 1
      /\ \A i \in 1 .. Len(b) + Len(w) - 1 : Tail(b \o w)[i] = (b \o w)[i + 1]
  BY <1>2, <1>3, TailOf
<1>5. /\ Tail(b) \o w \in Seq(Lines) /\ Len(Tail(b) \o w) = Len(b) + Len(w) - 1
      /\ \A i \in 1 .. Len(b) + Len(w) - 1 :
           (Tail(b) \o w)[i] = IF i <= Len(b) - 1 THEN Tail(b)[i] ELSE w[i - (Len(b) - 1)]
  BY <1>1, <1>2, ConcatProperties
<1>6. ASSUME NEW i \in 1 .. Len(b) + Len(w) - 1 PROVE (Tail(b) \o w)[i] = Tail(b \o w)[i]
  <2>1. i + 1 \in 1 .. Len(b) + Len(w) /\ i + 1 - Len(b) = i - (Len(b) - 1)
    BY <1>1, <1>2
  <2>2. CASE i <= Len(b) - 1
    BY <1>1, <1>2, <1>4, <1>5, <2>1, <2>2
  <2>3. CASE i > Len(b) - 1
    BY <1>1, <1>2, <1>4, <1>5, <2>1, <2>3
  <2> QED BY <1>1, <2>2, <2>3
<1>7. Tail(b) \o w = Tail(b \o w)
  BY <1>4, <1>5, <1>6, SeqEqual
<1>8. (b \o w)[1] = b[1]
  BY <1>1, <1>2
<1> QED BY <1>2, <1>3, <1>7, <1>8

(* A line that starts a call, or could start it again. *)
Mentions(l, c) == l.kind \in {"ring", "clip"} /\ l.of = c

Free(w, c) == \A i \in 1 .. Len(w) : ~Mentions(w[i], c)

(* The call that the handler holds and has not notified. *)
Turn == IF handler.state = "ringing" THEN handler.call ELSE Nobody

(* The network prints no more RING or +CLIP of this call. *)
Dead(c) == LineOf("ring", c) \in arrived /\ (ringing.call = c => ringing.over)

(* When its cool-down is over, the pass that leads to the next tick takes   *)
(* what the buffer still has of it.                                         *)
Due(c) ==
  handler.due =>
    /\ pc = "tick" => Free(port.buf, c)
    /\ pc = "poll" => \A i \in 1 .. Len(port.buf) : Mentions(port.buf[i], c) => i <= room

Settled(c) ==
  /\ Dead(c) /\ Turn # c /\ Free(wire, c)
  /\ \/ Free(port.buf, c)
     \/ handler.state = "cooldown" /\ handler.call = c /\ Due(c)

InTurn == Grouped(port.buf \o wire, Turn, ringing.call, arrived)

(* The command in progress is the only one that the modem may answer, and   *)
(* runs where the loop stands.                                              *)
Alone ==
  /\ Listening => \A i \in 1 .. Len(jobs) : jobs[i].cmd = op.cmd
  /\ op.state # "idle" => caller = pc /\ (pc = "work" \/ handler.state = "ringing")

(* The OK to a hang-up is the end of the call. *)
HangingUp ==
  op.cmd = "chup" =>
    /\ Listening =>
         \A i \in 1 .. Len(wire) :
           wire[i].kind = "ok" /\ wire[i].of = op.n =>
             /\ Dead(handler.call)
             /\ \A j \in i + 1 .. Len(wire) : ~Mentions(wire[j], handler.call)
    /\ op.state = "done" /\ op.result = "ok" => Dead(handler.call) /\ Free(wire, handler.call)

Once ==
  \A c \in Calls :
    /\ notified[c] <= 1 + hangUps[c]
    /\ notified[c] = 1 + hangUps[c] => Settled(c)

CallsSettled == InTurn /\ Alone /\ HangingUp /\ Once

LEMMA FreeTail ==
  ASSUME NEW w \in Seq(Lines), w # <<>>, NEW c, Free(w, c)
  PROVE  Free(Tail(w), c)
<1>1. /\ Len(w) \in Nat \ {0} /\ Len(Tail(w)) = Len(w) - 1
      /\ \A i \in 1 .. Len(w) - 1 : Tail(w)[i] = w[i + 1] /\ i + 1 \in 1 .. Len(w)
  BY TailOf
<1> QED BY <1>1 DEF Free

LEMMA FreeAppend ==
  ASSUME NEW w \in Seq(Lines), NEW line \in Lines, NEW c, Free(w, c), ~Mentions(line, c)
  PROVE  Free(Append(w, line), c)
<1>1. /\ Len(w) \in Nat /\ Len(Append(w, line)) = Len(w) + 1
      /\ Append(w, line)[Len(w) + 1] = line /\ \A i \in 1 .. Len(w) : Append(w, line)[i] = w[i]
  BY AppendOf
<1>2. \A i \in 1 .. Len(w) + 1 : i \in 1 .. Len(w) \/ i = Len(w) + 1
  BY <1>1
<1> QED BY <1>1, <1>2 DEF Free

LEMMA FreeEmbeds ==
  ASSUME NEW s \in Seq(Lines), NEW t \in Seq(Lines), Embeds(t, s), NEW c, Free(s, c)
  PROVE  Free(t, c)
<1>1. DOMAIN s = 1 .. Len(s) /\ DOMAIN t = 1 .. Len(t)
  BY LenProperties
<1>2. \A i \in 1 .. Len(t) : CallLine(t[i]) => \E j \in 1 .. Len(s) : s[j] = t[i]
  BY <1>1 DEF Embeds
<1>3. \A l : Mentions(l, c) => CallLine(l)
  BY DEF Mentions, CallLine, CallKinds
<1> QED BY <1>2, <1>3 DEF Free

(* What a port reads leaves both free of a call. *)
LEMMA FreeRead ==
  ASSUME SoundPort(port), wire \in Seq(Lines), wire # <<>>, NEW q, Reads(port, q, Head(wire)),
         NEW c, Free(wire, c)
  PROVE  Free(Tail(wire), c) /\ (Free(port.buf, c) => Free(q.buf, c))
<1>1. /\ port.buf \in Seq(Lines) /\ q.buf \in Seq(Lines) /\ Head(wire) \in Lines
      /\ ~Mentions(Head(wire), c)
  BY TailOf DEF SoundPort, Ports, Reads, Free
<1>2. Embeds(q.buf, Append(port.buf, Head(wire))) /\ Append(port.buf, Head(wire)) \in Seq(Lines)
  BY <1>1, AppendOf DEF Reads
<1> QED BY <1>1, <1>2, FreeTail, FreeAppend, FreeEmbeds

(* How a call of the port begins to listen, and how it ends well. *)
LEMMA PortStepListens ==
  ASSUME Types, AllPaired, Answered, PortStep
  PROVE  /\ Listening' =>
              \/ Listening /\ op'.n = op.n /\ SameJobs(jobs, jobs')
              \/ wire' = <<>> /\ \A i \in 1 .. Len(jobs') : jobs'[i].cmd = op.cmd
         /\ op'.state = "done" /\ op'.result = "ok" =>
              /\ Listening /\ wire # <<>> /\ wire' = Tail(wire)
              /\ wire[1].kind = "ok" /\ wire[1].of = op.n
<1>0. /\ PortTypes /\ op \in Ops /\ wire \in Seq(Lines) /\ jobs \in Seq(Jobs) /\ issued \in Nat
  BY DEF Types, PortTypes
<1>1. CASE ResyncRead \/ DrainUrcs
  BY <1>1 DEF ResyncRead, DrainUrcs, Listening
<1>2. CASE SendProbe \/ ProbeTimeout
  BY <1>0, <1>2 DEF SendProbe, ProbeTimeout, Listening, Ops
<1>3. CASE ProbeRead
  BY <1>0, <1>3 DEF ProbeRead, Listening, Ops
<1>4. CASE Transmit
  <2>1. /\ wire' = <<>> /\ op.state = "sync" /\ ~port.late /\ Deliver(op.cmd)
        /\ op' = [op EXCEPT !.state = IF op.cmd = "cmgs" THEN "prompt" ELSE "collect",
                            !.n = issued + 1]
    BY <1>4 DEF Transmit
  <2>2. jobs = <<>>
    BY <2>1 DEF Answered, Between, NoneOut
  <2>3. jobs' = Append(jobs, NewJob(op.cmd)) /\ NewJob(op.cmd) \in Jobs /\ NewJob(op.cmd).cmd = op.cmd
    BY <1>0, <2>1, <2>2 DEF Deliver, NewJob, Jobs, Ops
  <2>4. Len(jobs) = 0 /\ Len(jobs') = Len(jobs) + 1 /\ jobs'[Len(jobs) + 1] = NewJob(op.cmd)
    BY <1>0, <2>2, <2>3, EmptySeq, AppendOf
  <2>5. \A i \in 1 .. Len(jobs') : jobs'[i].cmd = op.cmd
    BY <2>3, <2>4
  <2>6. op'.state \in {"prompt", "collect"}
    BY <1>0, <2>1 DEF Ops
  <2> QED BY <2>1, <2>5, <2>6
<1>5. CASE CollectRead
  <2> DEFINE line == wire[1]
             mine == ~Absorbed(port, line)
             terminal == mine /\ line.kind \in {"ok", "error"}
             call == mine /\ op.cmd = "storage" /\ line.kind \in {"ring", "clip"}
  <2>1. /\ op.state = "collect" /\ wire # <<>> /\ wire' = Tail(wire) /\ jobs' = jobs
        /\ op'.n = op.n
        /\ op'.state = (IF terminal \/ call THEN "done" ELSE op.state)
        /\ op'.result = (IF terminal THEN line.kind ELSE IF call THEN "interrupted" ELSE op.result)
    BY <1>0, <1>5, TakenIsAnswer DEF CollectRead, Ops
  <2>2. SameJobs(jobs, jobs') /\ Listening
    BY <2>1, SameRefl DEF Listening
  <2>3. op'.state = "done" /\ op'.result = "ok" => line.kind = "ok"
    BY <2>1
  <2>4. line.kind = "ok" => line.of = op.n
    <3>1. line.kind = "ok" => Ans(line)
      BY <1>0, <2>1, TakenIsAnswer DEF Terminal
    <3>2. 1 \in 1 .. Len(wire)
      BY <1>0, <2>1, TailOf
    <3> QED BY <2>2, <3>1, <3>2 DEF Answered, AllOf
  <2> QED BY <2>1, <2>2, <2>3, <2>4
<1>6. CASE CollectTimeout
  BY <1>0, <1>6 DEF CollectTimeout, Listening, Ops
<1>7. CASE PromptRead
  <2> DEFINE line == wire[1]
  <2>1. /\ op.state = "prompt" /\ Head(wire) = line /\ Listening
    BY <1>0, <1>7, TakenIsAnswer DEF PromptRead, Listening
  <2>2. CASE line.kind = "prompt"
    <3>1. Given("text") /\ op' = [op EXCEPT !.state = "collect", !.got = op.got \cup {line.of}]
      BY <1>7, <2>1, <2>2 DEF PromptRead
    <3>2. op'.state = "collect" /\ op'.n = op.n
      BY <1>0, <3>1 DEF Ops
    <3> QED BY <1>0, <2>1, <3>1, <3>2, GivenSame
  <2>3. CASE line.kind # "prompt" /\ ~Absorbed(port, line) /\ line.kind \in {"ok", "error"}
    <3>1. op' = [op EXCEPT !.state = "done", !.result = "error", !.got = op.got \cup {line.of}]
      BY <1>7, <2>1, <2>3 DEF PromptRead
    <3>2. op'.state = "done" /\ op'.result = "error"
      BY <1>0, <3>1 DEF Ops
    <3> QED BY <3>2 DEF Listening
  <2>4. CASE line.kind # "prompt" /\ ~(~Absorbed(port, line) /\ line.kind \in {"ok", "error"})
    <3>1. op' = op /\ jobs' = jobs
      BY <1>7, <2>1, <2>4 DEF PromptRead
    <3> QED BY <2>1, <3>1, SameRefl DEF Listening
  <2> QED BY <2>2, <2>3, <2>4
<1>8. CASE PromptTimeout
  BY <1>0, <1>8 DEF PromptTimeout, Listening, Ops
<1> QED BY <1>1, <1>2, <1>3, <1>4, <1>5, <1>6, <1>7, <1>8 DEF PortStep

(* A step of the port. *)
LEMMA PortSettles ==
  ASSUME Types, AllPaired, Answered, CallsSettled, OnPort
  PROVE  CallsSettled'
<1>0. /\ PortTypes /\ SoundPort(port) /\ wire \in Seq(Lines) /\ op.state # "idle" /\ op'.cmd = op.cmd
      /\ UNCHANGED <<ringing, arrived, pc, room, caller, handler, notified, hangUps>>
      /\ PortStep /\ port.buf \in Seq(Lines) /\ jobs \in Seq(Jobs)
      /\ Reading \/ (wire' = wire /\ port'.buf = port.buf)
  BY PortStepEffect DEF OnPort, networkVars, loopVars, Types, PortTypes, SoundPort, Ports, Steady
<1>1. Turn' = Turn /\ \A c : Dead(c)' <=> Dead(c)
  BY <1>0 DEF Turn, Dead
<1>r. ASSUME Reading
      PROVE  /\ wire # <<>> /\ wire' = Tail(wire) /\ Reads(port, port', Head(wire)) /\ SoundPort(port')
             /\ Len(wire) \in Nat \ {0} /\ Len(wire') = Len(wire) - 1
             /\ \A i \in 1 .. Len(wire) - 1 : wire'[i] = wire[i + 1]
  <2>1. wire # <<>> /\ wire' = Tail(wire) /\ Reads(port, port', Head(wire)) /\ SoundPort(port')
    BY <1>r DEF Reading, Reads
  <2> QED BY <1>0, <2>1, TailOf
<1>2. InTurn'
  <2>1. CASE Reading
    <3>1. /\ port'.buf \o wire' \in Seq(Lines) /\ port.buf \o wire \in Seq(Lines)
          /\ Embeds(port'.buf \o wire', port.buf \o wire)
      BY <1>0, <1>r, <2>1, WaitingRead
    <3> QED BY <1>0, <1>1, <3>1, GroupedKept DEF CallsSettled, InTurn
  <2>2. CASE wire' = wire /\ port'.buf = port.buf
    BY <1>0, <1>1, <2>2 DEF CallsSettled, InTurn
  <2> QED BY <1>0, <2>1, <2>2
<1>3. Alone'
  <2>1. Listening' => \A i \in 1 .. Len(jobs') : jobs'[i].cmd = op'.cmd
    BY <1>0, PortStepListens DEF CallsSettled, Alone, SameJobs
  <2>2. caller' = pc' /\ (pc' = "work" \/ handler'.state = "ringing")
    BY <1>0 DEF CallsSettled, Alone
  <2> QED BY <2>1, <2>2 DEF Alone
<1>4. HangingUp'
  <2> SUFFICES ASSUME op.cmd = "chup"
               PROVE  /\ Listening' =>
                           \A i \in 1 .. Len(wire') :
                             wire'[i].kind = "ok" /\ wire'[i].of = op'.n =>
                               /\ Dead(handler.call)
                               /\ \A j \in i + 1 .. Len(wire') : ~Mentions(wire'[j], handler.call)
                      /\ op'.state = "done" /\ op'.result = "ok" =>
                           Dead(handler.call) /\ Free(wire', handler.call)
    BY <1>0, <1>1 DEF HangingUp
  <2>h. Listening =>
          \A i \in 1 .. Len(wire) :
            wire[i].kind = "ok" /\ wire[i].of = op.n =>
              /\ Dead(handler.call)
              /\ \A j \in i + 1 .. Len(wire) : ~Mentions(wire[j], handler.call)
    BY DEF CallsSettled, HangingUp
  <2>1. ASSUME Listening', NEW i \in 1 .. Len(wire'), wire'[i].kind = "ok", wire'[i].of = op'.n
        PROVE  /\ Dead(handler.call)
               /\ \A j \in i + 1 .. Len(wire') : ~Mentions(wire'[j], handler.call)
    <3>1. wire' # <<>>
      BY <2>1, EmptySeq
    <3>2. Listening /\ op'.n = op.n
      BY <1>0, <2>1, <3>1, PortStepListens
    <3>3. CASE wire' = wire
      BY <2>1, <2>h, <3>2, <3>3
    <3>4. CASE Reading
      <4>1. i + 1 \in 1 .. Len(wire) /\ wire[i + 1] = wire'[i]
        BY <1>r, <2>1, <3>4
      <4>2. \A j \in i + 1 .. Len(wire') : j + 1 \in (i + 1) + 1 .. Len(wire) /\ wire'[j] = wire[j + 1]
        BY <1>r, <2>1, <3>4
      <4> QED BY <2>1, <2>h, <3>2, <4>1, <4>2
    <3> QED BY <1>0, <3>3, <3>4
  <2>2. ASSUME op'.state = "done", op'.result = "ok"
        PROVE  Dead(handler.call) /\ Free(wire', handler.call)
    <3>1. /\ Listening /\ wire # <<>> /\ wire' = Tail(wire)
          /\ wire[1].kind = "ok" /\ wire[1].of = op.n
      BY <1>0, <2>2, PortStepListens
    <3>2. /\ Len(wire) \in Nat \ {0} /\ Len(wire') = Len(wire) - 1
          /\ \A j \in 1 .. Len(wire) - 1 : wire'[j] = wire[j + 1]
      BY <1>0, <3>1, TailOf
    <3>3. 1 \in 1 .. Len(wire) /\ \A j \in 1 .. Len(wire) - 1 : j + 1 \in 1 + 1 .. Len(wire)
      BY <3>2
    <3> QED BY <2>h, <3>1, <3>2, <3>3 DEF Free
  <2> QED BY <2>1, <2>2
<1>5. Once'
  <2> SUFFICES ASSUME NEW c \in Calls, Settled(c) PROVE Settled(c)'
    BY <1>0 DEF CallsSettled, Once
  <2>1. Dead(c)' /\ Turn' # c /\ Free(wire', c)
    BY <1>0, <1>1, <1>r, FreeTail DEF Settled
  <2>2. CASE Free(port.buf, c)
    <3>1. Free(port'.buf, c)
      BY <1>0, <1>r, <2>2, FreeRead DEF Settled
    <3> QED BY <2>1, <3>1 DEF Settled
  <2>3. CASE handler.state = "cooldown" /\ handler.call = c
    <3>1. pc' = "work"
      BY <1>0, <2>3 DEF CallsSettled, Alone
    <3> QED BY <1>0, <2>1, <2>3, <3>1 DEF Settled, Due
  <2> QED BY <2>2, <2>3 DEF Settled
<1> QED BY <1>2, <1>3, <1>4, <1>5 DEF CallsSettled

(* A line arrives; a call that is dead stays so, and the line is not of it. *)
LEMMA ArrivalSettles ==
  ASSUME Types, CallsSettled, NEW line \in Lines, wire' = Append(wire, line),
         UNCHANGED <<port, op, loopVars>>, InTurn', Alone',
         \A c \in Calls : Dead(c) => Dead(c)' /\ ~Mentions(line, c),
         op.cmd = "chup" /\ Listening /\ line.kind = "ok" /\ line.of = op.n => Dead(handler.call)'
  PROVE  CallsSettled'
<1>0. /\ wire \in Seq(Lines) /\ port.buf \in Seq(Lines)
      /\ UNCHANGED <<port, op, pc, room, caller, handler, notified, hangUps>>
      /\ op.state # "idle" /\ op.cmd = "chup" => handler.call \in Calls
  BY DEF Types, PortTypes, SoundPort, Ports, LoopTypes, Standstill, loopVars
<1>1. /\ Len(wire) \in Nat /\ Len(wire') = Len(wire) + 1 /\ wire'[Len(wire) + 1] = line
      /\ \A i \in 1 .. Len(wire) : wire'[i] = wire[i]
  BY <1>0, AppendOf
<1>2. HangingUp'
  <2> SUFFICES ASSUME op.cmd = "chup"
               PROVE  /\ Listening =>
                           \A i \in 1 .. Len(wire') :
                             wire'[i].kind = "ok" /\ wire'[i].of = op.n =>
                               /\ Dead(handler.call)'
                               /\ \A j \in i + 1 .. Len(wire') : ~Mentions(wire'[j], handler.call)
                      /\ op.state = "done" /\ op.result = "ok" =>
                           Dead(handler.call)' /\ Free(wire', handler.call)
    BY <1>0 DEF HangingUp, Listening, Dead
  <2>1. ASSUME Listening, NEW i \in 1 .. Len(wire'), wire'[i].kind = "ok", wire'[i].of = op.n
        PROVE  /\ Dead(handler.call)'
               /\ \A j \in i + 1 .. Len(wire') : ~Mentions(wire'[j], handler.call)
    <3>1. handler.call \in Calls
      BY <1>0, <2>1 DEF Listening
    <3>2. CASE i = Len(wire) + 1
      <4>1. i + 1 .. Len(wire') = {}
        BY <1>1, <3>2
      <4> QED BY <1>1, <2>1, <3>2, <4>1
    <3>3. CASE i \in 1 .. Len(wire)
      <4>1. /\ Dead(handler.call)
            /\ \A j \in i + 1 .. Len(wire) : ~Mentions(wire[j], handler.call)
        BY <1>1, <2>1, <3>3 DEF CallsSettled, HangingUp
      <4>2. Dead(handler.call)' /\ ~Mentions(line, handler.call)
        BY <1>0, <3>1, <4>1
      <4>3. ASSUME NEW j \in i + 1 .. Len(wire') PROVE ~Mentions(wire'[j], handler.call)
        <5>1. (j \in i + 1 .. Len(wire) /\ wire'[j] = wire[j]) \/ wire'[j] = line
          BY <1>1, <3>3
        <5> QED BY <4>1, <4>2, <5>1
      <4> QED BY <4>2, <4>3
    <3> QED BY <1>1, <3>2, <3>3
  <2>2. ASSUME op.state = "done", op.result = "ok"
        PROVE  Dead(handler.call)' /\ Free(wire', handler.call)
    <3>1. handler.call \in Calls /\ Dead(handler.call) /\ Free(wire, handler.call)
      BY <1>0, <2>2 DEF CallsSettled, HangingUp
    <3> QED BY <1>0, <3>1, FreeAppend
  <2> QED BY <2>1, <2>2
<1>3. Once'
  <2> SUFFICES ASSUME NEW c \in Calls, Settled(c) PROVE Settled(c)'
    BY <1>0 DEF CallsSettled, Once
  <2>1. Dead(c)' /\ Turn' # c /\ Free(wire', c)
    BY <1>0, FreeAppend DEF Settled, Turn
  <2> QED BY <1>0, <2>1 DEF Settled, Due
<1> QED BY <1>2, <1>3 DEF CallsSettled

(* Nothing arrives, and the loop stays where it is. *)
LEMMA QuietSettles ==
  ASSUME Types, CallsSettled, wire' = wire, port'.buf = port.buf,
         UNCHANGED <<op, pc, room, caller, notified, hangUps>>,
         handler'.state = handler.state, handler'.call = handler.call,
         handler'.due = handler.due \/ pc = "work" \/ handler.state # "cooldown",
         InTurn', Alone', \A c \in Calls : Dead(c) => Dead(c)'
  PROVE  CallsSettled'
<1>1. HangingUp'
  <2>1. op.state # "idle" /\ op.cmd = "chup" => handler.call \in Calls
    BY DEF Types, LoopTypes, Standstill
  <2> QED BY <2>1 DEF CallsSettled, HangingUp, Listening
<1>2. Once'
  <2> SUFFICES ASSUME NEW c \in Calls, Settled(c) PROVE Settled(c)'
    BY DEF CallsSettled, Once
  <2>1. Dead(c)' /\ Turn' # c /\ Free(wire', c)
    BY DEF Settled, Turn
  <2>2. handler.state = "cooldown" /\ Due(c) => Due(c)'
    BY DEF Due
  <2> QED BY <2>1, <2>2 DEF Settled
<1> QED BY <1>1, <1>2 DEF CallsSettled

(* The network: it prints a line of no call, a call rings, its number is    *)
(* told, it ends.                                                           *)
LEMMA NetworkSettles ==
  ASSUME Types, CallsSettled, Network \/ PduPrinted \/ PduGarbled
  PROVE  CallsSettled'
<1> DEFINE waiting == port.buf \o wire
<1>0. /\ wire \in Seq(Lines) /\ port.buf \in Seq(Lines) /\ waiting \in Seq(Lines)
      /\ Grouped(waiting, Turn, ringing.call, arrived) /\ Alone
      /\ ringing \in [call : Calls \cup {Nobody}, rings : Nat, clip : BOOLEAN, over : BOOLEAN]
      /\ ringing.call = Nobody => ringing = NoRing
      /\ owed \in Direct \cup {Nobody}
      /\ NoRing.call = Nobody /\ Nobody \notin Calls
  BY ConcatProperties, PartiesAssumption
     DEF Types, PortTypes, NetworkTypes, SoundPort, Ports, CallsSettled, InTurn, NoRing, Nobody
<1>a. ASSUME NEW line \in Lines, Announce(line), line.kind # "ok",
             Grouped(Append(waiting, line), Turn, ringing'.call, arrived'),
             \A c \in Calls : Dead(c) => (ringing'.call = c => ringing'.over) /\ ~Mentions(line, c)
      PROVE  CallsSettled'
  <2>1. /\ wire' = Append(wire, line) /\ UNCHANGED <<port, op, jobs, loopVars>>
        /\ UNCHANGED <<pc, caller, handler>> /\ arrived' = arrived \cup {line}
    BY <1>a DEF Announce, Emit, loopVars
  <2>2. InTurn'
    <3>1. port.buf \o wire' = Append(waiting, line)
      BY <1>0, <2>1, WaitingGrows
    <3>2. Turn' = Turn /\ port' = port
      BY <2>1 DEF Turn
    <3> HIDE DEF waiting
    <3> QED BY <1>a, <3>1, <3>2 DEF InTurn
  <2>3. Alone'
    BY <1>0, <2>1 DEF Alone, Listening
  <2>4. \A c \in Calls : Dead(c) => Dead(c)' /\ ~Mentions(line, c)
    BY <1>a, <2>1 DEF Dead
  <2> QED BY <1>a, <2>1, <2>2, <2>3, <2>4, ArrivalSettles
<1> HIDE DEF waiting
<1>b. ASSUME NEW line \in Lines, Announce(line), line.kind # "ok", ~CallLine(line), ringing' = ringing
      PROVE  CallsSettled'
  <2>1. Grouped(Append(waiting, line), Turn, ringing.call, arrived')
    BY <1>0, <1>b, GroupedOther DEF Announce
  <2>2. \A c \in Calls : Dead(c) => (ringing.call = c => ringing.over) /\ ~Mentions(line, c)
    BY <1>b DEF Dead, Mentions, CallLine, CallKinds
  <2> QED BY <1>a, <1>b, <2>1, <2>2
<1>c. ASSUME NEW c \in Calls, NEW line \in Lines, line.kind \in {"ring", "clip"}, line.of = c,
             Announce(line), LineOf("ring", c) \in arrived', ringing'.call = c,
             \/ ringing.call = c /\ ~ringing.over
             \/ ringing.call = Nobody /\ LineOf("ring", c) \notin arrived
      PROVE  CallsSettled'
  <2>1. Grouped(Append(waiting, line), Turn, c, arrived')
    <3>1. arrived \subseteq arrived'
      BY <1>c DEF Announce
    <3> QED BY <1>0, <1>c, <3>1, GroupedRings
  <2>2. \A k \in Calls : Dead(k) => k # c
    BY <1>c DEF Dead
  <2>3. \A k \in Calls : Dead(k) => (ringing'.call = k => ringing'.over) /\ ~Mentions(line, k)
    BY <1>c, <2>2 DEF Mentions
  <2> QED BY <1>a, <1>c, <2>1, <2>3
<1>d. /\ \A m : /\ LineOf("cmti", m).kind = "cmti" /\ LineOf("cmt", m).kind = "cmt"
                /\ LineOf("cgev", m).kind = "cgev" /\ LineOf("pdu", m).kind = "pdu"
                /\ LineOf("noise", m).kind = "noise"
      /\ \A c, k : LineOf(k, c).kind = k /\ LineOf(k, c).of = c
      /\ \A l : CallLine(l) <=> l.kind \in {"ring", "clip", "gone"}
      /\ \A c \in Calls : /\ LineOf("ring", c) \in Lines /\ LineOf("clip", c) \in Lines
                          /\ LineOf("gone", c) \in Lines
  BY LineTypes DEF LineOf, CallLine, CallKinds
<1>1. ASSUME NEW m \in Stored, SmsStored(m) PROVE CallsSettled'
  BY <1>1, <1>b, <1>d, LineTypes DEF SmsStored
<1>2. ASSUME NEW m \in Direct, SmsDelivered(m) PROVE CallsSettled'
  BY <1>2, <1>b, <1>d, LineTypes DEF SmsDelivered
<1>3. ASSUME NEW e \in Events, DataEvent(e) PROVE CallsSettled'
  BY <1>3, <1>b, <1>d, LineTypes DEF DataEvent
<1>4. ASSUME NEW c \in Calls, Ring(c) PROVE CallsSettled'
  <2>1. /\ Announce(LineOf("ring", c)) /\ arrived' = arrived \cup {LineOf("ring", c)}
        /\ ringing' = [ringing EXCEPT !.call = c, !.rings = ringing.rings + 1]
        /\ \/ ringing = NoRing /\ LineOf("ring", c) \notin arrived
           \/ ringing.call = c /\ ~ringing.over
    BY <1>4 DEF Ring, Announce
  <2>2. ringing'.call = c
    BY <1>0, <2>1
  <2> QED BY <1>0, <1>c, <1>d, <2>1, <2>2
<1>5. CASE CallerId
  <2> DEFINE c == ringing.call
  <2>1. /\ Announce(LineOf("clip", c)) /\ arrived \subseteq arrived'
        /\ ringing' = [ringing EXCEPT !.clip = TRUE] /\ ~ringing.over /\ ringing # NoRing
    BY <1>5 DEF CallerId, Announce
  <2>2. ringing'.call = c /\ c \in Calls
    BY <1>0, <2>1
  <2>3. LineOf("ring", c) \in arrived
    BY <1>0, <2>2 DEF Grouped
  <2> HIDE DEF c
  <2>4. ringing.call = c
    BY DEF c
  <2>5. LineOf("clip", c).kind \in {"ring", "clip"}
    BY <1>d
  <2> QED BY <1>c, <1>d, <2>1, <2>2, <2>3, <2>4, <2>5
<1>6. CASE CallEnds
  <2> DEFINE line == LineOf("gone", ringing.call)
  <2>1. /\ Announce(line) /\ arrived \subseteq arrived' /\ ringing' = NoRing /\ ringing.call \in Calls
    BY <1>0, <1>6 DEF CallEnds, Announce
  <2>2. line \in Lines /\ line.kind = "gone" /\ line.of = ringing.call
    BY <1>d, <2>1
  <2> HIDE DEF line
  <2>3. Grouped(Append(waiting, line), Turn, ringing'.call, arrived')
    BY <1>0, <2>1, <2>2, GroupedEnds
  <2>4. \A c \in Calls : (ringing'.call = c => ringing'.over) /\ ~Mentions(line, c)
    BY <1>0, <2>1, <2>2 DEF Mentions
  <2> QED BY <1>a, <2>1, <2>2, <2>3, <2>4
<1>7. CASE CallEndsSilently
  <2>1. /\ ringing' = NoRing
        /\ UNCHANGED <<port, op, wire, jobs, arrived, pc, room, caller, handler, notified, hangUps>>
    BY <1>7 DEF CallEndsSilently, portVars, loopVars
  <2>2. Grouped(waiting, Turn, Nobody, arrived)
    BY <1>0, GroupedOver
  <2>3. InTurn'
    <3>1. (port.buf \o wire)' = waiting /\ Turn' = Turn /\ ringing'.call = Nobody
      BY <1>0, <2>1 DEF waiting, Turn
    <3> QED BY <2>1, <2>2, <3>1 DEF InTurn
  <2>4. Alone'
    BY <1>0, <2>1 DEF Alone, Listening
  <2>5. \A c \in Calls : Dead(c) => Dead(c)'
    BY <1>0, <2>1 DEF Dead
  <2> QED BY <2>1, <2>3, <2>4, <2>5, QuietSettles
<1>8. CASE PduPrinted
  <2>1. owed \in Direct
    BY <1>0, <1>8 DEF PduPrinted
  <2> QED BY <1>8, <1>b, <1>d, <2>1, LineTypes DEF PduPrinted
<1>9. CASE PduGarbled
  <2>1. owed \in Direct
    BY <1>0, <1>9 DEF PduGarbled
  <2> QED BY <1>9, <1>b, <1>d, <2>1, LineTypes DEF PduGarbled
<1> QED BY <1>1, <1>2, <1>3, <1>4, <1>5, <1>6, <1>7, <1>8, <1>9 DEF Network

(* The modem answers: its OK to a hang-up ends the call that rings, which   *)
(* is the one that the handler holds or comes after it.                     *)
LEMMA ModemSettles ==
  ASSUME Types, CallsSettled, ModemAnswers
  PROVE  CallsSettled'
<1> DEFINE waiting == port.buf \o wire
<1>0. /\ wire \in Seq(Lines) /\ port.buf \in Seq(Lines) /\ waiting \in Seq(Lines)
      /\ jobs \in Seq(Jobs) /\ PortTypes
      /\ Grouped(waiting, Turn, ringing.call, arrived) /\ Alone
      /\ ringing \in [call : Calls \cup {Nobody}, rings : Nat, clip : BOOLEAN, over : BOOLEAN]
      /\ ringing.call = Nobody => ringing = NoRing
      /\ NoRing.call = Nobody /\ Nobody \notin Calls
      /\ op.state # "idle" /\ op.cmd = "chup" => handler.state = "ringing" /\ handler.call \in Calls
  BY ConcatProperties, PartiesAssumption
     DEF Types, PortTypes, NetworkTypes, LoopTypes, Standstill, SoundPort, Ports, CallsSettled,
         InTurn, NoRing, Nobody
<1>1. /\ UNCHANGED <<port, op, loopVars, pc, room, caller, handler, notified, hangUps, arrived>>
      /\ jobs # <<>>
      /\ jobs' = [jobs EXCEPT ![1].said = TRUE] \/ jobs' = Tail(jobs)
  <2>1. jobs # <<>> /\ (jobs' = [jobs EXCEPT ![1].said = TRUE] \/ jobs' = Tail(jobs))
    BY DEF ModemAnswers, ModemStep, AnswerBody, AnswerEnd, AnswerLost
  <2> QED BY <2>1, ModemTypesKept DEF ModemAnswers, loopVars
<1>2. /\ Head(jobs) = jobs[1] /\ 1 \in 1 .. Len(jobs) /\ jobs[1] \in Jobs
      /\ \A cmd : (\A i \in 1 .. Len(jobs) : jobs[i].cmd = cmd) =>
                     \A i \in 1 .. Len(jobs') : jobs'[i].cmd = cmd
  <2>1. /\ Len(jobs) \in Nat \ {0} /\ Len(Tail(jobs)) = Len(jobs) - 1 /\ Head(jobs) = jobs[1]
        /\ \A i \in 1 .. Len(jobs) - 1 : Tail(jobs)[i] = jobs[i + 1] /\ i + 1 \in 1 .. Len(jobs)
        /\ \A i \in 1 .. Len(jobs) : jobs[i] \in Jobs
    BY <1>0, <1>1, TailOf
  <2>2. CASE jobs' = Tail(jobs)
    BY <2>1, <2>2
  <2>3. CASE jobs' = [jobs EXCEPT ![1].said = TRUE]
    <3>1. DOMAIN jobs = 1 .. Len(jobs) /\ jobs' = [jobs EXCEPT ![1] = [jobs[1] EXCEPT !.said = TRUE]]
      BY <1>0, <2>3, LenProperties
    <3>5. 1 \in 1 .. Len(jobs) /\ jobs[1] \in Jobs
      BY <2>1
    <3>2. [jobs[1] EXCEPT !.said = TRUE] \in Jobs /\ [jobs[1] EXCEPT !.said = TRUE].cmd = jobs[1].cmd
      BY <3>5 DEF Jobs
    <3>3. Len(jobs') = Len(jobs)
      BY <1>0, <2>1, <3>1, <3>2, ExceptSeq
    <3>4. \A i \in 1 .. Len(jobs) : jobs'[i].cmd = jobs[i].cmd
      BY <3>1, <3>2
    <3> QED BY <2>1, <3>3, <3>4
  <2> QED BY <1>1, <2>1, <2>2, <2>3
<1>3. Alone'
  BY <1>0, <1>1, <1>2 DEF Alone, Listening
<1>4. /\ ringing'.call = ringing.call /\ (ringing.over => ringing'.over)
      /\ \A c \in Calls : Dead(c) => Dead(c)'
  <2>1. ringing' = ringing \/ ringing' = [ringing EXCEPT !.over = TRUE]
    BY DEF ModemAnswers
  <2>2. ringing'.call = ringing.call /\ (ringing.over => ringing'.over)
    BY <1>0, <2>1
  <2> QED BY <1>1, <2>2 DEF Dead
<1>5. Turn' = Turn
  BY <1>1 DEF Turn
<1>6. CASE wire' = wire
  <2>1. InTurn'
    BY <1>0, <1>1, <1>4, <1>5, <1>6 DEF InTurn, waiting
  <2> QED BY <1>1, <1>3, <1>4, <1>6, <2>1, QuietSettles
<1>7. ASSUME NEW k \in AnswerKinds, Head(jobs).n \in Nat, wire' = Append(wire, LineOf(k, Head(jobs).n))
      PROVE  CallsSettled'
  <2> DEFINE line == LineOf(k, Head(jobs).n)
  <2>1. line \in Lines /\ line.kind = k /\ ~CallLine(line) /\ \A c : ~Mentions(line, c)
    BY <1>7, LineTypes DEF LineOf, AnswerKinds, CallLine, CallKinds, Mentions
  <2>2. InTurn'
    <3>1. port.buf \o wire' = Append(waiting, line)
      BY <1>0, <1>7, <2>1, WaitingGrows
    <3>2. Grouped(Append(waiting, line), Turn, ringing.call, arrived)
      BY <1>0, <2>1, GroupedOther
    <3> HIDE DEF waiting, line
    <3> QED BY <1>1, <1>4, <1>5, <3>1, <3>2 DEF InTurn
  <2>3. ASSUME op.cmd = "chup", Listening, line.kind = "ok", line.of = op.n PROVE Dead(handler.call)'
    <3>1. handler.state = "ringing" /\ handler.call \in Calls /\ handler'.call = handler.call
      BY <1>0, <1>1, <2>3 DEF Listening
    <3>2. Head(jobs).cmd = "chup" /\ wire' = Append(wire, LineOf("ok", Head(jobs).n))
      BY <1>0, <1>2, <1>7, <2>1, <2>3 DEF Alone
    <3>3. ringing' = IF ringing # NoRing THEN [ringing EXCEPT !.over = TRUE] ELSE ringing
      BY <3>2 DEF ModemAnswers
    <3>4. ringing'.call = handler.call => ringing'.over
      BY <1>0, <3>1, <3>3
    <3>5. LineOf("ring", handler.call) \in arrived
      BY <1>0, <3>1 DEF Turn, Grouped
    <3> QED BY <1>1, <3>1, <3>4, <3>5 DEF Dead
  <2> HIDE DEF line
  <2>4. wire' = Append(wire, line) /\ \A c \in Calls : Dead(c) => Dead(c)' /\ ~Mentions(line, c)
    BY <1>4, <1>7, <2>1 DEF line
  <2> QED BY <1>1, <1>3, <2>1, <2>2, <2>3, <2>4, ArrivalSettles
<1> QED BY <1>6, <1>7, ModemTypesKept

(* What the call handler makes of a line that the loop has polled. *)
LEMMA HandledCall ==
  ASSUME Types, NEW line, NEW q, HandleLine(line, q)
  PROVE  /\ port' = q /\ room' = room - 1 /\ pc' = pc /\ hangUps' = hangUps
         /\ \/ UNCHANGED <<handler, notified, op, caller>>
            \/ /\ line.kind = "ring" /\ handler.state = "idle" /\ handler' = Ringing(line.of)
               /\ UNCHANGED <<notified, op, caller>>
            \/ /\ line.kind = "clip" /\ handler.state = "ringing" /\ handler' = Ringing(line.of)
               /\ op'.state = "sync" /\ caller' = "poll" /\ notified' = notified
            \/ /\ line.kind = "gone" /\ handler.state = "ringing" /\ handler' = Idle
               /\ notified' = [notified EXCEPT ![handler.call] = notified[handler.call] + 1]
               /\ UNCHANGED <<op, caller>>
<1>0. port' = q /\ room' = room - 1 /\ pc' = pc /\ hangUps' = hangUps
  BY DEF HandleLine
<1>1. CASE expected # NoLine
  <2>1. UNCHANGED <<handler, notified, op, caller>>
    BY <1>1 DEF HandleLine, NoCommand
  <2> QED BY <1>0, <2>1
<1>2. CASE expected = NoLine
  <2>0. HandleUrcDeferred(line)
    BY <1>2 DEF HandleLine
  <2>1. CASE line.kind = "ring" /\ handler.state = "idle"
    <3>1. handler' = Ringing(line.of) /\ UNCHANGED <<notified, op, caller>>
      BY <2>0, <2>1 DEF HandleUrcDeferred, NoCommand
    <3> QED BY <1>0, <2>1, <3>1
  <2>2. CASE line.kind = "clip" /\ handler.state = "ringing"
    <3>1. CommitCall(line.of, "poll")
      BY <2>0, <2>2 DEF HandleUrcDeferred
    <3>2. /\ handler' = Ringing(line.of) /\ op'.state = "sync" /\ caller' = "poll"
          /\ notified' = notified
      BY <3>1 DEF CommitCall, SendAt, NoOp
    <3> QED BY <1>0, <2>2, <3>2
  <2>3. CASE line.kind = "gone" /\ handler.state = "ringing"
    <3>1. /\ handler' = Idle /\ UNCHANGED <<op, caller>>
          /\ notified' = [notified EXCEPT ![handler.call] = notified[handler.call] + 1]
      BY <2>0, <2>3 DEF HandleUrcDeferred, NoCommand
    <3> QED BY <1>0, <2>3, <3>1
  <2>4. CASE /\ ~(line.kind = "ring" /\ handler.state = "idle")
             /\ ~(line.kind = "clip" /\ handler.state = "ringing")
             /\ ~(line.kind = "gone" /\ handler.state = "ringing")
    <3>1. UNCHANGED <<handler, notified, op, caller>>
      BY <2>0, <2>4 DEF HandleUrcDeferred, NoCommand
    <3> QED BY <1>0, <3>1
  <2> QED BY <2>1, <2>2, <2>3, <2>4
<1> QED BY <1>1, <1>2

(* The loop handles the first of the waiting lines s. *)
LEMMA HandledSettles ==
  ASSUME Types, CallsSettled, Polling, NEW s \in Seq(Lines), s # <<>>,
         NEW q, HandleLine(s[1], q), q.buf \in Seq(Lines), wire' \in Seq(Lines),
         q.buf \o wire' = Tail(s), UNCHANGED networkVars,
         Grouped(s, Turn, ringing.call, arrived),
         \A c \in Calls : Settled(c) =>
           /\ Free(wire', c)
           /\ \/ ~Mentions(s[1], c) /\ Free(q.buf, c)
              \/ /\ handler.state = "cooldown" /\ handler.call = c
                 /\ handler.due =>
                      \A i \in 1 .. Len(q.buf) : Mentions(q.buf[i], c) => i <= room - 1
  PROVE  CallsSettled'
<1> DEFINE line == s[1]
           t == Tail(s)
<1>0. /\ op.state = "idle" /\ pc = "poll" /\ Once
      /\ handler.state # "idle" => handler.call \in Calls
      /\ notified \in [Calls -> Nat] /\ hangUps \in [Calls -> Nat]
      /\ UNCHANGED <<ringing, arrived>> /\ line \in Lines
      /\ \A c : Dead(c)' <=> Dead(c)
      /\ Nobody \notin Calls
  BY TailOf, PartiesAssumption DEF Polling, Types, LoopTypes, CallsSettled, networkVars, Dead, Nobody
<1>l. CallLine(line) => line.of \in Calls
  BY <1>0 DEF Lines, CallLine
<1>1. /\ Grouped(t, Turn, ringing.call, arrived) /\ Grouped(t, Nobody, ringing.call, arrived)
      /\ CallLine(line) /\ line.kind # "gone" => Grouped(t, line.of, ringing.call, arrived)
      /\ line.kind = "gone" /\ Turn \in Calls =>
           /\ Turn # ringing.call /\ LineOf("ring", Turn) \in arrived
           /\ \A i \in 1 .. Len(t) : CallLine(t[i]) => t[i].of # Turn
  BY GroupedPopped
<1>2. /\ port'.buf = q.buf /\ port'.buf \o wire' = t /\ pc' = "poll" /\ room' = room - 1
      /\ hangUps' = hangUps
  BY <1>0, HandledCall
<1> HIDE DEF line, t
<1>f. \A c \in Calls : Settled(c) =>
        /\ Free(wire', c) /\ Dead(c)'
        /\ handler.state # "cooldown" => ~Mentions(line, c) /\ Free(port'.buf, c)
        /\ \/ Free(port'.buf, c)
           \/ handler.state = "cooldown" /\ handler.call = c /\ (UNCHANGED handler => Due(c)')
  <2>1. \A c \in Calls :
          (UNCHANGED handler /\ (handler.due =>
             \A i \in 1 .. Len(q.buf) : Mentions(q.buf[i], c) => i <= room - 1)) => Due(c)'
    BY <1>2 DEF Due
  <2>2. \A c : Settled(c) => Dead(c)
    BY DEF Settled
  <2> QED BY <1>0, <1>2, <2>1, <2>2 DEF line
<1>3. CASE UNCHANGED <<handler, notified, op, caller>>
  <2>1. Turn' = Turn
    BY <1>3 DEF Turn
  <2>2. InTurn'
    BY <1>0, <1>1, <1>2, <2>1 DEF InTurn
  <2>3. Alone' /\ HangingUp'
    BY <1>0, <1>3 DEF Alone, HangingUp, Listening
  <2>4. \A c \in Calls : Settled(c) => Settled(c)'
    BY <1>3, <1>f, <2>1 DEF Settled
  <2>5. Once'
    BY <1>0, <1>2, <1>3, <2>4 DEF Once
  <2> QED BY <2>2, <2>3, <2>5 DEF CallsSettled
<1>4. ASSUME line.kind \in {"ring", "clip"}, handler.state # "cooldown", handler' = Ringing(line.of),
             notified' = notified,
             op' = op \/ (op'.state = "sync" /\ caller' = "poll")
      PROVE  CallsSettled'
  <2>1. Turn' = line.of /\ CallLine(line) /\ line.kind # "gone" /\ handler'.state = "ringing"
    BY <1>4 DEF Turn, Ringing, CallLine, CallKinds
  <2>2. InTurn'
    BY <1>0, <1>1, <1>2, <2>1 DEF InTurn
  <2>3. Alone' /\ HangingUp'
    BY <1>0, <1>2, <1>4, <2>1 DEF Alone, HangingUp, Listening
  <2>4. \A c \in Calls : Settled(c) => Settled(c)'
    BY <1>4, <1>f, <2>1 DEF Settled, Mentions
  <2>5. Once'
    BY <1>0, <1>2, <1>4, <2>4 DEF Once
  <2> QED BY <2>2, <2>3, <2>5 DEF CallsSettled
<1>5. ASSUME line.kind = "gone", handler.state = "ringing", handler' = Idle,
             notified' = [notified EXCEPT ![handler.call] = notified[handler.call] + 1],
             UNCHANGED <<op, caller>>
      PROVE  CallsSettled'
  <2>0. PICK h \in Calls : h = handler.call
    BY <1>0, <1>5
  <2>1. Turn' = Nobody /\ Turn = h
    BY <1>5, <2>0 DEF Turn, Idle
  <2>2. InTurn'
    BY <1>0, <1>1, <1>2, <2>1 DEF InTurn
  <2>3. Alone' /\ HangingUp'
    BY <1>0, <1>5 DEF Alone, HangingUp, Listening
  <2>4. \A c \in Calls : Settled(c) => Settled(c)'
    BY <1>0, <1>5, <1>f, <2>1 DEF Settled
  <2>5. Settled(h)'
    <3>1. Dead(h)'
      BY <1>0, <1>1, <1>5, <2>0, <2>1 DEF Dead
    <3>2. /\ Len(t) = Len(port'.buf) + Len(wire')
          /\ \A i \in 1 .. Len(port'.buf) : i \in 1 .. Len(t) /\ t[i] = port'.buf[i]
          /\ \A i \in 1 .. Len(wire') :
               Len(port'.buf) + i \in 1 .. Len(t) /\ t[Len(port'.buf) + i] = wire'[i]
      BY <1>2, ConcatProperties, LenProperties
    <3>3. \A i \in 1 .. Len(t) : ~Mentions(t[i], h)
      BY <1>1, <1>5, <2>0, <2>1 DEF Mentions, CallLine, CallKinds
    <3>4. Free(port'.buf, h) /\ Free(wire', h)
      BY <3>2, <3>3 DEF Free
    <3> QED BY <1>0, <2>0, <2>1, <3>1, <3>4 DEF Settled
  <2>6. notified[h] < 1 + hangUps[h]
    <3>1. ~Settled(h)
      BY <2>1 DEF Settled
    <3>2. notified[h] \in Nat /\ hangUps[h] \in Nat
      BY <1>0
    <3> QED BY <1>0, <3>1, <3>2 DEF Once
  <2>7. ASSUME NEW c \in Calls
        PROVE  notified'[c] <= 1 + hangUps'[c] /\ (notified'[c] = 1 + hangUps'[c] => Settled(c)')
    <3>1. CASE c = h
      <4>1. notified'[h] = notified[h] + 1 /\ notified[h] \in Nat /\ hangUps[h] \in Nat
        BY <1>0, <1>5, <2>0
      <4> QED BY <1>2, <2>5, <2>6, <3>1, <4>1
    <3>2. CASE c # h
      <4>1. notified'[c] = notified[c]
        BY <1>0, <1>5, <2>0, <3>2
      <4> QED BY <1>0, <1>2, <2>4, <4>1 DEF Once
    <3> QED BY <3>1, <3>2
  <2> QED BY <2>2, <2>3, <2>7 DEF CallsSettled, Once
<1> QED BY <1>3, <1>4, <1>5, HandledCall DEF line

(* The loop goes on without having handled a line. *)
LEMMA IdleSettles ==
  ASSUME Types, CallsSettled, ~Listening', op'.state # "done",
         op'.state # "idle" => caller' = pc' /\ (pc' = "work" \/ handler'.state = "ringing"),
         UNCHANGED <<networkVars, notified, hangUps>>, InTurn', Turn' = Turn,
         \A c \in Calls : Settled(c) =>
           /\ Free(wire', c)
           /\ \/ Free(port'.buf, c)
              \/ handler'.state = "cooldown" /\ handler'.call = c /\ Due(c)'
  PROVE  CallsSettled'
<1>1. Alone' /\ HangingUp'
  BY DEF Alone, HangingUp
<1>2. Once'
  <2> SUFFICES ASSUME NEW c \in Calls, Settled(c) PROVE Settled(c)'
    BY DEF CallsSettled, Once
  <2>1. Dead(c)' /\ Turn' # c
    BY DEF Settled, Dead, networkVars
  <2> QED BY <2>1 DEF Settled
<1> QED BY <1>1, <1>2 DEF CallsSettled

LEMMA PollsSettle ==
  ASSUME Types, CallsSettled, PollBuffered \/ PollWire \/ EndPoll
  PROVE  CallsSettled'
<1>0. /\ wire \in Seq(Lines) /\ port.buf \in Seq(Lines) /\ SoundPort(port)
      /\ SoundPort(ExpireHeader(port)) /\ ExpireHeader(port).buf = port.buf
      /\ Grouped(port.buf \o wire, Turn, ringing.call, arrived) /\ room \in Int
      /\ op.state = "idle" /\ pc = "poll"
      /\ \A c : Settled(c) => Free(wire, c)
  <2>1. op.state = "idle" /\ pc = "poll"
    BY DEF Polling, PollBuffered, PollWire, EndPoll
  <2>2. Grouped(port.buf \o wire, Turn, ringing.call, arrived) /\ \A c : Settled(c) => Free(wire, c)
    BY DEF CallsSettled, InTurn, Settled
  <2>3. room \in Int
    BY DEF Types, LoopTypes
  <2>4. /\ wire \in Seq(Lines) /\ port.buf \in Seq(Lines) /\ SoundPort(port)
        /\ SoundPort(ExpireHeader(port)) /\ ExpireHeader(port).buf = port.buf
    BY ExpireEffect DEF Types, PortTypes, SoundPort, Ports
  <2> QED BY <2>1, <2>2, <2>3, <2>4
<1>f. ASSUME NEW b \in Seq(Lines), b # <<>>, NEW c, Free(b, c)
      PROVE  ~Mentions(b[1], c) /\ Free(Tail(b), c)
  <2>1. 1 \in 1 .. Len(b)
    BY <1>f, TailOf
  <2>2. ~Mentions(b[1], c)
    BY <1>f, <2>1 DEF Free
  <2>3. Free(Tail(b), c)
    BY <1>f, FreeTail
  <2> QED BY <2>2, <2>3
<1>1. CASE PollBuffered
  <2> DEFINE b == port.buf
             q0 == ExpireHeader(port)
             q == [q0 EXCEPT !.buf = Tail(q0.buf)]
             s == b \o wire
  <2>1. /\ Popped(q0, Head(b)) /\ q0.buf = b /\ wire' = wire /\ UNCHANGED networkVars /\ Polling
        /\ b # <<>>
    BY <1>0, <1>1, PollBufferedEffect DEF PollBuffered
  <2>2. /\ s \in Seq(Lines) /\ s # <<>> /\ s[1] = b[1] /\ Tail(b) \o wire = Tail(s)
    BY <1>0, <2>1, WaitingPopped
  <2>3. /\ q.buf = Tail(b) /\ Head(b) = b[1] /\ Tail(b) \in Seq(Lines) /\ Len(b) \in Nat \ {0}
        /\ Len(Tail(b)) = Len(b) - 1 /\ \A i \in 1 .. Len(b) - 1 : Tail(b)[i] = b[i + 1]
    BY <1>0, <2>1, PoppedSound
  <2>4. HandleLine(b[1], q)
    BY <2>1, <2>3 DEF Popped
  <2>5. ASSUME NEW c \in Calls, Settled(c)
        PROVE  /\ Free(wire', c)
               /\ \/ ~Mentions(b[1], c) /\ Free(Tail(b), c)
                  \/ /\ handler.state = "cooldown" /\ handler.call = c
                     /\ handler.due =>
                          \A i \in 1 .. Len(Tail(b)) : Mentions(Tail(b)[i], c) => i <= room - 1
    <3>1. CASE Free(b, c)
      BY <1>0, <1>f, <2>1, <2>5, <3>1
    <3>2. CASE handler.state = "cooldown" /\ handler.call = c /\ Due(c)
      <4>1. handler.due => \A i \in 1 .. Len(b) : Mentions(b[i], c) => i <= room
        BY <1>0, <3>2 DEF Due
      <4>2. \A i \in 1 .. Len(Tail(b)) : i + 1 \in 1 .. Len(b) /\ Tail(b)[i] = b[i + 1]
        BY <2>3
      <4>3. handler.due =>
              \A i \in 1 .. Len(Tail(b)) : Mentions(Tail(b)[i], c) => i + 1 <= room
        BY <4>1, <4>2
      <4>4. ASSUME NEW i \in 1 .. Len(Tail(b)), i + 1 <= room PROVE i <= room - 1
        BY <1>0, <4>4
      <4>5. Free(wire', c)
        BY <1>0, <2>1, <2>5
      <4> HIDE DEF b
      <4>6. handler.due =>
              \A i \in 1 .. Len(Tail(b)) : Mentions(Tail(b)[i], c) => i <= room - 1
        BY <4>3, <4>4
      <4> QED BY <3>2, <4>5, <4>6
    <3> QED BY <2>5, <3>1, <3>2 DEF Settled
  <2>6. wire' \in Seq(Lines) /\ Grouped(s, Turn, ringing.call, arrived)
    BY <1>0, <2>1
  <2> HIDE DEF s, q, b
  <2>7. q.buf \o wire' = Tail(s)
    BY <2>1, <2>2, <2>3
  <2>8. s[1] = b[1] /\ q.buf = Tail(b) /\ q.buf \in Seq(Lines) /\ HandleLine(s[1], q)
    BY <2>2, <2>3, <2>4
  <2>9. \A c \in Calls : Settled(c) =>
           /\ Free(wire', c)
           /\ \/ ~Mentions(s[1], c) /\ Free(q.buf, c)
              \/ /\ handler.state = "cooldown" /\ handler.call = c
                 /\ handler.due =>
                      \A i \in 1 .. Len(q.buf) : Mentions(q.buf[i], c) => i <= room - 1
    BY <2>5, <2>8, Zenon
  <2>10. s \in Seq(Lines) /\ s # <<>> /\ Polling /\ UNCHANGED networkVars
    BY <2>1, <2>2
  <2> QED BY <2>6, <2>7, <2>8, <2>9, <2>10, HandledSettles
<1>2. CASE PollWire
  <2> DEFINE line == Head(wire)
             w == Tail(wire)
  <2>1. /\ wire # <<>> /\ wire' = w /\ port.buf = <<>> /\ UNCHANGED networkVars /\ Polling
        /\ w \in Seq(Lines) /\ line = wire[1]
    BY <1>0, <1>2, PollWireEffect, TailOf DEF PollWire
  <2>2. ASSUME HandleLine(line, ExpireHeader(port)) PROVE CallsSettled'
    <3>1. <<>> \o wire = wire /\ <<>> \o w = w
      BY <1>0, <2>1, ConcatEmptySeq
    <3>2. \A c \in Calls : Settled(c) => ~Mentions(wire[1], c) /\ Free(w, c)
      BY <1>0, <1>f, <2>1
    <3>3. \A c : Free(<<>>, c)
      BY EmptySeq DEF Free
    <3> HIDE DEF w, line
    <3>4. ExpireHeader(port).buf = <<>> /\ <<>> \o wire' = Tail(wire)
      BY <1>0, <2>1, <3>1 DEF w
    <3>5. Grouped(wire, Turn, ringing.call, arrived)
      BY <1>0, <2>1, <3>1
    <3>6. HandleLine(wire[1], ExpireHeader(port)) /\ ExpireHeader(port).buf \o wire' = Tail(wire)
      BY <2>1, <2>2, <3>4
    <3>7. \A c \in Calls : Settled(c) =>
             Free(wire', c) /\ ~Mentions(wire[1], c) /\ Free(ExpireHeader(port).buf, c)
      BY <2>1, <3>2, <3>3, <3>4
    <3>8. ExpireHeader(port).buf \in Seq(Lines) /\ wire' \in Seq(Lines)
      BY <1>0, <2>1
    <3> QED BY <1>0, <2>1, <3>5, <3>6, <3>7, <3>8, HandledSettles
  <2>3. ASSUME NEW q, Reads(port, q, line) PROVE
          /\ SoundPort(q) /\ q.buf \in Seq(Lines) /\ q.buf \o w \in Seq(Lines)
          /\ Grouped(q.buf \o w, Turn, ringing.call, arrived)
          /\ \A c : Settled(c) => Free(w, c) /\ Free(q.buf, c)
    <3>1. SoundPort(q) /\ q.buf \in Seq(Lines)
      BY <2>3 DEF Reads, SoundPort, Ports
    <3>2. /\ q.buf \o w \in Seq(Lines) /\ port.buf \o wire \in Seq(Lines)
          /\ Embeds(q.buf \o w, port.buf \o wire)
      BY <1>0, <2>1, <2>3, <3>1, WaitingRead
    <3>3. Grouped(q.buf \o w, Turn, ringing.call, arrived)
      BY <1>0, <3>2, GroupedKept
    <3>4. \A c : Free(port.buf, c)
      BY <2>1, EmptySeq DEF Free
    <3>5. \A c : Settled(c) => Free(w, c) /\ Free(q.buf, c)
      BY <1>0, <2>1, <2>3, <3>4, FreeRead
    <3> QED BY <3>1, <3>2, <3>3, <3>5
  <2>4. ASSUME NEW q, Reads(port, q, line), Popped(q, Head(q.buf)) PROVE CallsSettled'
    <3> DEFINE s == q.buf \o w
               p == [q EXCEPT !.buf = Tail(q.buf)]
    <3>1. q.buf # <<>> /\ HandleLine(Head(q.buf), p)
      BY <2>4 DEF Popped
    <3>2. /\ SoundPort(q) /\ q.buf \in Seq(Lines) /\ s \in Seq(Lines)
          /\ Grouped(s, Turn, ringing.call, arrived)
          /\ \A c : Settled(c) => Free(w, c) /\ Free(q.buf, c)
      BY <2>3, <2>4
    <3>3. s # <<>> /\ s[1] = q.buf[1] /\ Tail(q.buf) \o w = Tail(s)
      BY <2>1, <3>1, <3>2, WaitingPopped
    <3>4. p.buf = Tail(q.buf) /\ Head(q.buf) = q.buf[1] /\ Tail(q.buf) \in Seq(Lines)
      BY <3>1, <3>2, PoppedSound
    <3>5. \A c : Settled(c) => ~Mentions(q.buf[1], c) /\ Free(Tail(q.buf), c)
      BY <1>f, <3>1, <3>2
    <3> HIDE DEF s, p, w, line
    <3>6. p.buf \o wire' = Tail(s) /\ p.buf \in Seq(Lines) /\ wire' \in Seq(Lines) /\ HandleLine(s[1], p)
      BY <2>1, <3>1, <3>3, <3>4
    <3>7. \A c \in Calls : Settled(c) =>
             Free(wire', c) /\ ~Mentions(s[1], c) /\ Free(p.buf, c)
      BY <2>1, <3>2, <3>3, <3>4, <3>5
    <3> QED BY <2>1, <3>2, <3>3, <3>6, <3>7, HandledSettles
  <2>5. ASSUME NEW q, Reads(port, q, line), NothingPolled(q, {"poll", "tick"}) PROVE CallsSettled'
    <3>1. /\ port' = q /\ UNCHANGED <<op, handler, notified, hangUps>>
      BY <2>5 DEF NothingPolled
    <3>2. Turn' = Turn /\ UNCHANGED <<ringing, arrived>>
      BY <2>1, <3>1 DEF Turn, networkVars
    <3>3. /\ Grouped(q.buf \o w, Turn, ringing.call, arrived)
          /\ \A c : Settled(c) => Free(w, c) /\ Free(q.buf, c)
      BY <2>3, <2>5
    <3> HIDE DEF w, line
    <3>4. InTurn'
      BY <2>1, <3>1, <3>2, <3>3 DEF InTurn
    <3>5. \A c \in Calls : Settled(c) => Free(wire', c) /\ Free(port'.buf, c)
      BY <2>1, <3>1, <3>3
    <3>6. ~Listening' /\ op'.state = "idle"
      BY <1>0, <3>1 DEF Listening
    <3> QED BY <1>0, <2>1, <3>1, <3>2, <3>4, <3>5, <3>6, IdleSettles
  <2> HIDE DEF line
  <2>6. PollWire
    BY <1>2
  <2> QED BY <2>2, <2>4, <2>5, <2>6, PollWireEffect DEF line
<1>3. CASE EndPoll
  <2>1. /\ UNCHANGED <<wire, networkVars, op, handler, notified, hangUps>> /\ pc' = "tick"
        /\ room = 0 \/ port.buf = <<>>
        /\ port' \in {port, ExpireHeader(port)}
    BY <1>3 DEF EndPoll, NothingPolled
  <2>2. port'.buf = port.buf /\ Turn' = Turn /\ UNCHANGED <<ringing, arrived>>
    BY <1>0, <2>1 DEF Turn, networkVars
  <2>3. InTurn'
    BY <1>0, <2>1, <2>2 DEF InTurn
  <2>4. ~Listening' /\ op'.state = "idle"
    BY <1>0, <2>1 DEF Listening
  <2>5. ASSUME NEW c \in Calls, Settled(c)
        PROVE  \/ Free(port'.buf, c)
               \/ handler'.state = "cooldown" /\ handler'.call = c /\ Due(c)'
    <3>1. CASE Free(port.buf, c)
      BY <2>2, <3>1
    <3>2. CASE handler.state = "cooldown" /\ handler.call = c /\ Due(c)
      <4>1. CASE room = 0
        <5>1. handler.due => \A i \in 1 .. Len(port.buf) : Mentions(port.buf[i], c) => i <= 0
          BY <1>0, <3>2, <4>1 DEF Due
        <5>2. handler.due => Free(port.buf, c)
          BY <5>1 DEF Free
        <5> QED BY <2>1, <2>2, <3>2, <5>2 DEF Due
      <4>2. CASE port.buf = <<>>
        BY <2>2, <4>2, EmptySeq DEF Free
      <4> QED BY <2>1, <4>1, <4>2
    <3> QED BY <2>5, <3>1, <3>2 DEF Settled
  <2> QED BY <1>0, <2>1, <2>2, <2>3, <2>4, <2>5, IdleSettles
<1> QED BY <1>1, <1>2, <1>3

(* The handler lets go of its call. *)
LEMMA GroupedFreed ==
  ASSUME NEW s \in Seq(Lines), NEW h, NEW r, NEW known, Grouped(s, h, r, known)
  PROVE  Grouped(s, Nobody, r, known)
<1>1. \A i \in 1 .. Len(s) : CallLine(s[i]) => s[i].of # Nobody
  <2>1. \A l \in Lines : CallLine(l) => l.of # Nobody
    BY PartiesAssumption DEF Lines, CallLine, CallKinds, Nobody
  <2> QED BY <2>1, ElementOfSeq
<1> QED BY <1>1 DEF Grouped

(* A hang-up ends: it succeeded, and the call is over before the RINGs that *)
(* wait; or it did not, which is counted.                                   *)
LEMMA HangUpSettles ==
  ASSUME Types, CallsSettled, CommandDone, op.cmd = "chup"
  PROVE  CallsSettled'
<1>0. /\ handler.state = "ringing" /\ handler.call \in Calls
      /\ op.state = "done" /\ op' = NoOp
      /\ handler' = Cooldown(handler.call)
      /\ notified' = [notified EXCEPT ![handler.call] = @ + 1]
      /\ hangUps' = [hangUps EXCEPT ![handler.call] = IF op.result = "ok" THEN @ ELSE @ + 1]
      /\ UNCHANGED <<port, wire, ringing, arrived>>
      /\ notified \in [Calls -> Nat] /\ hangUps \in [Calls -> Nat] /\ Nobody \notin Calls
  BY PartiesAssumption DEF CommandDone, Types, LoopTypes, Standstill, networkVars, Nobody
<1>1. PICK h \in Calls : h = handler.call
  BY <1>0
<1>2. /\ handler' = Cooldown(h) /\ Turn = h /\ Turn' = Nobody /\ h # Nobody
      /\ op'.state = "idle"
  BY <1>0, <1>1 DEF Turn, Cooldown, NoOp
<1>3. InTurn'
  <2>1. port.buf \o wire \in Seq(Lines)
    BY ConcatProperties DEF Types, PortTypes, SoundPort, Ports
  <2>2. Grouped(port.buf \o wire, Nobody, ringing.call, arrived)
    BY <2>1, GroupedFreed DEF CallsSettled, InTurn
  <2> QED BY <1>0, <1>2, <2>2 DEF InTurn
<1>4. Alone' /\ HangingUp'
  BY <1>2 DEF Alone, HangingUp, Listening
<1>5. ASSUME NEW c \in Calls
      PROVE  notified'[c] <= 1 + hangUps'[c] /\ (notified'[c] = 1 + hangUps'[c] => Settled(c)')
  <2>0. /\ notified[c] \in Nat /\ hangUps[c] \in Nat
        /\ notified[c] <= 1 + hangUps[c] /\ (notified[c] = 1 + hangUps[c] => Settled(c))
    BY <1>0 DEF CallsSettled, Once
  <2>1. CASE c # h
    <3>1. notified'[c] = notified[c] /\ hangUps'[c] = hangUps[c]
      BY <1>0, <1>1, <2>1
    <3>2. Settled(c) => Settled(c)'
      <4>1. Dead(c) => Dead(c)'
        BY <1>0 DEF Dead
      <4> QED BY <1>0, <1>2, <4>1 DEF Settled
    <3> QED BY <2>0, <3>1, <3>2
  <2>2. CASE c = h
    <3>1. notified[c] < 1 + hangUps[c]
      <4>1. ~Settled(c)
        BY <1>2, <2>2 DEF Settled
      <4> QED BY <2>0, <4>1
    <3>2. /\ notified'[c] = notified[c] + 1
          /\ hangUps'[c] = IF op.result = "ok" THEN hangUps[c] ELSE hangUps[c] + 1
      BY <1>0, <1>1, <2>2
    <3>3. CASE op.result # "ok"
      <4>1. hangUps'[c] = hangUps[c] + 1
        BY <3>2, <3>3
      <4> QED BY <2>0, <3>1, <3>2, <4>1
    <3>4. CASE op.result = "ok"
      <4>1. Dead(c) /\ Free(wire, c)
        BY <1>0, <1>1, <2>2, <3>4 DEF CallsSettled, HangingUp
      <4>2. Dead(c)' /\ Free(wire', c) /\ Turn' # c
        BY <1>0, <1>2, <2>2, <4>1 DEF Dead
      <4>3. handler'.state = "cooldown" /\ handler'.call = c /\ ~handler'.due
        BY <1>2, <2>2 DEF Cooldown
      <4>4. Settled(c)'
        BY <4>2, <4>3 DEF Settled, Due
      <4>5. hangUps'[c] = hangUps[c]
        BY <3>2, <3>4
      <4> QED BY <2>0, <3>1, <3>2, <4>4, <4>5
    <3> QED BY <3>3, <3>4
  <2> QED BY <2>1, <2>2
<1>6. Once'
  BY <1>5 DEF Once
<1> QED BY <1>3, <1>4, <1>6 DEF CallsSettled

(* The loop itself. *)
LEMMA LoopSettles ==
  ASSUME Types, CallsSettled,
         \/ Tick \/ CommandDone \/ EndPass \/ Elapse \/ Age
         \/ \E cmd \in OwnCommands : Command(cmd)
  PROVE  CallsSettled'
<1>0. /\ InTurn /\ Alone /\ SoundPort(port) /\ port \in Ports /\ Standstill
      /\ handler \in Handlers /\ room \in Int
      /\ \A c : Settled(c) =>
           /\ Free(wire, c)
           /\ \/ Free(port.buf, c)
              \/ handler.state = "cooldown" /\ handler.call = c /\ Due(c)
  BY DEF CallsSettled, Types, PortTypes, LoopTypes, SoundPort, Settled
<1>t. ASSUME UNCHANGED <<port, wire, ringing, arrived>>, Turn' = Turn PROVE InTurn'
  BY <1>0, <1>t DEF InTurn
<1>1. CASE Tick
  <2>1. /\ pc = "tick" /\ pc' = "work" /\ op.state = "idle" /\ TickDeferred
        /\ UNCHANGED <<port, wire, networkVars, ringing, arrived, notified, hangUps>>
    BY <1>0, <1>1 DEF Tick, TickDeferred, CommitCall, NoCommand, Standstill, networkVars
  <2>2. CASE handler.state = "ringing" /\ handler.due
    <3>1. CommitCall(handler.call, "work")
      BY <2>1, <2>2 DEF TickDeferred
    <3>2. op'.state = "sync" /\ caller' = "work" /\ Turn' = Turn /\ handler.state # "cooldown"
      BY <2>2, <3>1 DEF CommitCall, SendAt, NoOp, Ringing, Turn
    <3>3. ~Listening' /\ InTurn'
      BY <1>t, <2>1, <3>2 DEF Listening
    <3>4. \A c \in Calls : Settled(c) => Free(wire', c) /\ Free(port'.buf, c)
      BY <1>0, <2>1, <3>2
    <3> QED BY <2>1, <3>2, <3>3, <3>4, IdleSettles
  <2>3. CASE ~(handler.state = "ringing" /\ handler.due)
    <3>1. /\ handler' = IF handler.state = "cooldown" /\ handler.due THEN Idle ELSE handler
          /\ op' = op /\ caller' = caller
      BY <2>1, <2>3 DEF TickDeferred, NoCommand
    <3>2. Turn' = Turn
      BY <3>1 DEF Turn, Idle
    <3>3. ~Listening' /\ InTurn' /\ op'.state = "idle"
      BY <1>t, <2>1, <3>1, <3>2 DEF Listening
    <3>4. \A c \in Calls : Settled(c) =>
             /\ Free(wire', c)
             /\ \/ Free(port'.buf, c)
                \/ handler'.state = "cooldown" /\ handler'.call = c /\ Due(c)'
      <4> SUFFICES ASSUME NEW c \in Calls, Settled(c)
                   PROVE  /\ Free(wire', c)
                          /\ \/ Free(port'.buf, c)
                             \/ handler'.state = "cooldown" /\ handler'.call = c /\ Due(c)'
        OBVIOUS
      <4>1. CASE Free(port.buf, c)
        BY <1>0, <2>1, <4>1
      <4>2. CASE handler.state = "cooldown" /\ handler.call = c /\ Due(c)
        <5>1. CASE handler.due
          <6>1. Free(port.buf, c)
            BY <2>1, <4>2, <5>1 DEF Due
          <6> QED BY <1>0, <2>1, <6>1
        <5>2. CASE ~handler.due
          BY <1>0, <2>1, <3>1, <4>2, <5>2 DEF Due
        <5> QED BY <5>1, <5>2
      <4> QED BY <1>0, <4>1, <4>2
    <3> QED BY <2>1, <3>1, <3>2, <3>3, <3>4, IdleSettles
  <2> QED BY <2>2, <2>3
<1>2. CASE CommandDone /\ op.cmd # "chup"
  <2>1. /\ op' = NoOp /\ pc' = caller /\ caller = pc
        /\ UNCHANGED <<port, wire, networkVars, ringing, arrived, room, handler, notified, hangUps>>
    BY <1>0, <1>2 DEF CommandDone, Alone, networkVars
  <2>2. Turn' = Turn /\ op'.state = "idle"
    BY <2>1 DEF Turn, NoOp
  <2>3. ~Listening' /\ InTurn'
    BY <1>t, <2>1, <2>2 DEF Listening
  <2>4. \A c : Due(c) => Due(c)'
    BY <2>1 DEF Due
  <2>5. \A c \in Calls : Settled(c) =>
           /\ Free(wire', c)
           /\ \/ Free(port'.buf, c)
              \/ handler'.state = "cooldown" /\ handler'.call = c /\ Due(c)'
    BY <1>0, <2>1, <2>4
  <2> QED BY <2>1, <2>2, <2>3, <2>5, IdleSettles
<1>3. CASE EndPass
  <2>1. /\ op' = op /\ op.state = "idle" /\ pc' = "poll" /\ room' = LinesPerPass
        /\ UNCHANGED <<port, wire, networkVars, ringing, arrived, handler, notified, hangUps>>
    BY <1>3 DEF EndPass, portVars, networkVars
  <2>2. Turn' = Turn
    BY <2>1 DEF Turn
  <2>3. ~Listening' /\ InTurn'
    BY <1>t, <2>1, <2>2 DEF Listening
  <2>4. \A i \in 1 .. Len(port.buf) : i <= LinesPerPass
    <3>1. Len(port.buf) \in Nat /\ Len(port.buf) <= MaxUrc
      BY <1>0, LenProperties DEF SoundPort, Ports
    <3> QED BY <3>1, PassAssumption, AtPortAssumption
  <2>5. \A c : Due(c)'
    BY <2>1, <2>4 DEF Due
  <2>6. \A c \in Calls : Settled(c) =>
           /\ Free(wire', c)
           /\ \/ Free(port'.buf, c)
              \/ handler'.state = "cooldown" /\ handler'.call = c /\ Due(c)'
    BY <1>0, <2>1, <2>5
  <2> QED BY <2>1, <2>2, <2>3, <2>6, IdleSettles
<1>4. CASE Elapse
  <2>1. /\ handler' = [handler EXCEPT !.due = TRUE]
        /\ pc = "work" \/ handler.state # "cooldown"
        /\ UNCHANGED <<port, op, wire, jobs, ringing, arrived, pc, room, caller, notified, hangUps>>
    BY <1>4 DEF Elapse, portVars, networkVars
  <2>2. handler'.state = handler.state /\ handler'.call = handler.call
    BY <1>0, <2>1 DEF Handlers
  <2>3. InTurn'
    BY <1>t, <2>1, <2>2 DEF Turn
  <2>4. Alone' /\ \A c \in Calls : Dead(c) => Dead(c)'
    BY <1>0, <2>1, <2>2 DEF Alone, Listening, Dead
  <2> QED BY <2>1, <2>2, <2>3, <2>4, QuietSettles
<1>5. CASE Age
  <2>1. /\ port' = [port EXCEPT !.old = TRUE]
        /\ UNCHANGED <<op, wire, jobs, ringing, arrived, pc, room, caller, handler, notified, hangUps>>
    BY <1>5 DEF Age, HeaderAges, networkVars, loopVars
  <2>2. port'.buf = port.buf
    BY <1>0, <2>1 DEF Ports
  <2>3. InTurn'
    BY <1>0, <2>1, <2>2 DEF InTurn, Turn
  <2>4. Alone' /\ \A c \in Calls : Dead(c) => Dead(c)'
    BY <1>0, <2>1 DEF Alone, Listening, Dead
  <2> QED BY <2>1, <2>2, <2>3, <2>4, QuietSettles
<1>6. ASSUME NEW cmd \in OwnCommands, Command(cmd) PROVE CallsSettled'
  <2>1. /\ op'.state = "sync" /\ caller' = "work" /\ pc' = "work"
        /\ UNCHANGED <<port, wire, networkVars, ringing, arrived, handler, notified, hangUps>>
    <3>1. SendAt(cmd) /\ caller' = "work" /\ pc' = "work"
          /\ UNCHANGED <<port, wire, networkVars, handler, notified, hangUps>>
      BY <1>6 DEF Command
    <3>2. op'.state = "sync"
      BY <3>1 DEF SendAt, NoOp
    <3>3. UNCHANGED <<ringing, arrived>>
      BY <3>1 DEF networkVars
    <3> QED BY <3>1, <3>2, <3>3
  <2>2. Turn' = Turn
    BY <2>1 DEF Turn
  <2>3. ~Listening' /\ InTurn'
    BY <1>t, <2>1, <2>2 DEF Listening
  <2>4. \A c : Due(c)'
    BY <2>1 DEF Due
  <2>5. \A c \in Calls : Settled(c) =>
           /\ Free(wire', c)
           /\ \/ Free(port'.buf, c)
              \/ handler'.state = "cooldown" /\ handler'.call = c /\ Due(c)'
    BY <1>0, <2>1, <2>4
  <2> QED BY <2>1, <2>2, <2>3, <2>5, IdleSettles
<1> QED BY <1>1, <1>2, <1>3, <1>4, <1>5, <1>6, HangUpSettles

LEMMA SettledNext ==
  ASSUME ~Sluggish, Types, AllPaired, Answered, CallsSettled, [Next]_vars
  PROVE  CallsSettled'
<1>1. CASE UNCHANGED vars
  <2>1. UNCHANGED <<port, op, wire, jobs, ringing, arrived, pc, room, caller, handler, notified, hangUps>>
    BY <1>1 DEF vars, portVars, networkVars, loopVars
  <2>2. InTurn' /\ Alone' /\ \A c \in Calls : Dead(c) => Dead(c)'
    BY <2>1 DEF CallsSettled, InTurn, Turn, Alone, Listening, Dead
  <2> QED BY <2>1, <2>2, QuietSettles
<1> QED BY <1>1, NetworkSettles, ModemSettles, PollsSettle, LoopSettles, PortSettles DEF Next, Device

LEMMA SettledInit == Init => CallsSettled
<1> SUFFICES ASSUME Init PROVE CallsSettled
  OBVIOUS
<1>1. /\ port.buf = <<>> /\ wire = <<>> /\ op.state = "idle" /\ handler.state = "idle"
      /\ ringing.call = Nobody /\ notified = [c \in Calls |-> 0] /\ hangUps = [c \in Calls |-> 0]
  BY DEF Init, PortInit, NoOp, Idle, NoRing
<1>2. InTurn
  <2>1. Turn = Nobody /\ ringing.call = Nobody
    BY <1>1 DEF Turn
  <2>2. port.buf \o wire = <<>>
    <3>1. <<>> \in Seq(Lines)
      BY EmptySeq
    <3> QED BY <1>1, <3>1, ConcatEmptySeq
  <2>3. Len(port.buf \o wire) = 0
    BY <2>2, EmptySeq
  <2> QED BY <2>1, <2>3 DEF InTurn, Grouped
<1>3. Alone /\ HangingUp
  BY <1>1 DEF Alone, HangingUp, Listening
<1>4. Once
  BY <1>1 DEF Once
<1> QED BY <1>2, <1>3, <1>4 DEF CallsSettled

(* A call is notified a second time only if it could not be hung up: RINGs  *)
(* that waited in the buffer do not start it again when the cool-down ends; *)
(* provided that no answer comes later than a whole resynchronisation.      *)
THEOREM CallsHungUpOnce == ASSUME ~Sluggish PROVE Spec => []HungUpOnce
<1>1. Types /\ AllPaired /\ Answered /\ CallsSettled /\ [Next]_vars => CallsSettled'
  BY SettledNext
<1>2. Types /\ AllPaired /\ Answered /\ [Next]_vars => Answered'
  BY AnswersNext
<1>3. Types /\ AllPaired /\ [Next]_vars => AllPaired'
  BY PairsNext
<1>4. CallsSettled => HungUpOnce
  BY DEF CallsSettled, Once, HungUpOnce
<1> QED BY <1>1, <1>2, <1>3, <1>4, SettledInit, AnsweredInit, PairsInit, TypesInit, TypesNext,
           PTL DEF Spec
=============================================================================
