---------------------------- MODULE QueueLemmas ----------------------------
(***************************************************************************)
(* Facts about the operations on queues that the components use: the least *)
(* and the greatest index of a set, removal from and insertion into a      *)
(* sequence.  Each says that the result is a sequence over the same set,   *)
(* so that with S a set of sound elements it also preserves soundness.     *)
(***************************************************************************)
EXTENDS Integers, SequencesExt, SequenceTheorems, WellFoundedInduction, TLAPS

LessThan == {w \in Nat \X Nat : w[1] < w[2]}

(* The order of the naturals, as a relation. *)
LEMMA NatWellFounded == IsWellFoundedOn(LessThan, Nat)
BY NatLessThanWellFounded DEF LessThan, OpToRel

(* Every nonempty set of naturals has a least element. *)
LEMMA LeastNat ==
  ASSUME NEW T, T \subseteq Nat, T # {}
  PROVE  \E x \in T : \A y \in T : x <= y
<1>1. PICK x \in T : \A y \in T : <<y, x>> \notin LessThan
  BY NatWellFounded, WFMin
<1>2. \A y \in T : ~(y < x)
  <2> SUFFICES ASSUME NEW y \in T, y < x PROVE FALSE
    OBVIOUS
  <2>1. <<y, x>> \in Nat \X Nat
    OBVIOUS
  <2> QED BY <1>1, <2>1 DEF LessThan
<1> QED BY <1>2

(* Min of a nonempty set of naturals is its least element. *)
LEMMA MinInSet ==
  ASSUME NEW T, T \subseteq Nat, T # {}
  PROVE  Min(T) \in T /\ \A y \in T : Min(T) <= y
BY LeastNat DEF Min

(* Max of a nonempty set of indices is its greatest element. *)
LEMMA MaxInSet ==
  ASSUME NEW n \in Nat, NEW T, T \subseteq 1 .. n, T # {}
  PROVE  Max(T) \in T /\ \A y \in T : Max(T) >= y
<1> DEFINE U == {n - t : t \in T}
<1>1. U \subseteq Nat /\ U # {}
  OBVIOUS
<1>2. PICK u \in U : \A v \in U : u <= v
  BY <1>1, LeastNat
<1>3. PICK t \in T : u = n - t
  OBVIOUS
<1>4. \A y \in T : t >= y
  <2> TAKE y \in T
  <2>1. n - y \in U
    OBVIOUS
  <2> QED BY <1>2, <1>3, <2>1
<1>5. \E g \in T : \A y \in T : g >= y
  BY <1>4
<1> QED BY <1>5 DEF Max

(* The elements before an index. *)
LEMMA PrefixProperties ==
  ASSUME NEW S, NEW q \in Seq(S), NEW i \in 1 .. Len(q) + 1
  PROVE  /\ SubSeq(q, 1, i - 1) \in Seq(S)
         /\ Len(SubSeq(q, 1, i - 1)) = i - 1
         /\ \A j \in 1 .. i - 1 : SubSeq(q, 1, i - 1)[j] = q[j]
<1>1. Len(q) \in Nat /\ \A j \in 1 .. Len(q) : q[j] \in S
  BY ElementOfSeq, LenProperties
<1>2. /\ SubSeq(q, 1, i - 1) \in Seq(S)
      /\ Len(SubSeq(q, 1, i - 1)) = IF 1 <= i - 1 THEN i - 1 - 1 + 1 ELSE 0
      /\ \A j \in 1 .. i - 1 - 1 + 1 : SubSeq(q, 1, i - 1)[j] = q[1 + j - 1]
  BY <1>1, SubSeqProperties
<1> QED BY <1>1, <1>2

(* The elements from an index on. *)
LEMMA SuffixProperties ==
  ASSUME NEW S, NEW q \in Seq(S), NEW i \in 1 .. Len(q) + 1
  PROVE  /\ SubSeq(q, i, Len(q)) \in Seq(S)
         /\ Len(SubSeq(q, i, Len(q))) = Len(q) - i + 1
         /\ \A j \in 1 .. Len(q) - i + 1 : SubSeq(q, i, Len(q))[j] = q[i + j - 1]
<1>1. Len(q) \in Nat /\ \A j \in 1 .. Len(q) : q[j] \in S
  BY ElementOfSeq, LenProperties
<1>2. /\ SubSeq(q, i, Len(q)) \in Seq(S)
      /\ Len(SubSeq(q, i, Len(q))) = IF i <= Len(q) THEN Len(q) - i + 1 ELSE 0
      /\ \A j \in 1 .. Len(q) - i + 1 : SubSeq(q, i, Len(q))[j] = q[i + j - 1]
  BY <1>1, SubSeqProperties
<1> QED BY <1>1, <1>2

(* Removing one element. *)
LEMMA RemoveAtProperties ==
  ASSUME NEW S, NEW q \in Seq(S), NEW i \in 1 .. Len(q)
  PROVE  /\ RemoveAt(q, i) \in Seq(S)
         /\ Len(RemoveAt(q, i)) = Len(q) - 1
         /\ \A j \in 1 .. Len(q) - 1 :
              RemoveAt(q, i)[j] = IF j < i THEN q[j] ELSE q[j + 1]
<1> DEFINE left == SubSeq(q, 1, i - 1)
           right == SubSeq(q, i + 1, Len(q))
<1>0. Len(q) \in Nat
  BY LenProperties
<1>1. /\ left \in Seq(S)
      /\ Len(left) = i - 1
      /\ \A j \in 1 .. i - 1 : left[j] = q[j]
  BY <1>0, PrefixProperties
<1>2. /\ right \in Seq(S)
      /\ Len(right) = Len(q) - i
      /\ \A j \in 1 .. Len(q) - i : right[j] = q[i + j]
  <2>1. i + 1 \in 1 .. Len(q) + 1
    BY <1>0
  <2>2. /\ right \in Seq(S)
        /\ Len(right) = Len(q) - (i + 1) + 1
        /\ \A j \in 1 .. Len(q) - (i + 1) + 1 : right[j] = q[i + 1 + j - 1]
    BY <2>1, SuffixProperties
  <2> QED BY <1>0, <2>2
<1>3. RemoveAt(q, i) = left \o right
  BY DEF RemoveAt
<1> HIDE DEF left, right
<1>4. /\ left \o right \in Seq(S)
      /\ Len(left \o right) = Len(left) + Len(right)
      /\ \A j \in 1 .. Len(left) + Len(right) :
           (left \o right)[j] = IF j <= Len(left) THEN left[j] ELSE right[j - Len(left)]
  BY <1>1, <1>2, ConcatProperties
<1>5. ASSUME NEW j \in 1 .. Len(q) - 1
      PROVE  RemoveAt(q, i)[j] = IF j < i THEN q[j] ELSE q[j + 1]
  <2>1. j \in 1 .. Len(left) + Len(right)
    BY <1>0, <1>1, <1>2
  <2>2. CASE j < i
    BY <1>0, <1>1, <1>3, <1>4, <2>1, <2>2
  <2>3. CASE ~(j < i)
    <3>1. j - Len(left) \in 1 .. Len(q) - i /\ i + (j - Len(left)) = j + 1
      BY <1>0, <1>1, <2>3
    <3>2. right[j - Len(left)] = q[j + 1]
      BY <1>2, <3>1
    <3> QED BY <1>0, <1>1, <1>3, <1>4, <2>1, <2>3, <3>2, SMTT(20)
  <2> QED BY <2>2, <2>3
<1> QED BY <1>0, <1>1, <1>2, <1>3, <1>4, <1>5

(* Inserting one element. *)
LEMMA InsertAtProperties ==
  ASSUME NEW S, NEW q \in Seq(S), NEW i \in 1 .. Len(q) + 1, NEW e \in S
  PROVE  /\ InsertAt(q, i, e) \in Seq(S)
         /\ Len(InsertAt(q, i, e)) = Len(q) + 1
         /\ \A j \in 1 .. Len(q) + 1 :
              InsertAt(q, i, e)[j] = IF j < i THEN q[j]
                                     ELSE IF j = i THEN e ELSE q[j - 1]
<1> DEFINE left == SubSeq(q, 1, i - 1)
           right == SubSeq(q, i, Len(q))
           middle == <<e>>
           front == left \o middle
<1>0. Len(q) \in Nat
  BY LenProperties
<1>1. /\ left \in Seq(S)
      /\ Len(left) = i - 1
      /\ \A j \in 1 .. i - 1 : left[j] = q[j]
  BY <1>0, PrefixProperties
<1>2. /\ right \in Seq(S)
      /\ Len(right) = Len(q) - i + 1
      /\ \A j \in 1 .. Len(q) - i + 1 : right[j] = q[i + j - 1]
  BY <1>0, SuffixProperties
<1>3. middle \in Seq(S) /\ Len(middle) = 1 /\ middle[1] = e
  OBVIOUS
<1>4. InsertAt(q, i, e) = front \o right
  BY DEF InsertAt
<1> HIDE DEF left, middle, right
<1>5. /\ front \in Seq(S)
      /\ Len(front) = i
      /\ \A j \in 1 .. i : front[j] = IF j < i THEN q[j] ELSE e
  <2>1. /\ front \in Seq(S)
        /\ Len(front) = Len(left) + Len(middle)
        /\ \A j \in 1 .. Len(left) + Len(middle) :
             front[j] = IF j <= Len(left) THEN left[j] ELSE middle[j - Len(left)]
    BY <1>1, <1>3, ConcatProperties
  <2> QED BY <1>0, <1>1, <1>3, <2>1
<1> HIDE DEF front
<1>6. /\ front \o right \in Seq(S)
      /\ Len(front \o right) = Len(front) + Len(right)
      /\ \A j \in 1 .. Len(front) + Len(right) :
           (front \o right)[j]
             = IF j <= Len(front) THEN front[j]
               ELSE right[j - Len(front)]
  BY <1>2, <1>5, ConcatProperties
<1>7. ASSUME NEW j \in 1 .. Len(q) + 1
      PROVE  InsertAt(q, i, e)[j] = IF j < i THEN q[j]
                                    ELSE IF j = i THEN e ELSE q[j - 1]
  <2>1. j \in 1 .. Len(front) + Len(right)
    BY <1>0, <1>2, <1>5
  <2>2. CASE j <= i
    BY <1>0, <1>4, <1>5, <1>6, <2>1, <2>2
  <2>3. CASE j > i
    <3>1. j - i \in 1 .. Len(q) - i + 1 /\ i + (j - i) - 1 = j - 1
      BY <1>0, <2>3
    <3>2. right[j - i] = q[j - 1]
      BY <1>2, <3>1
    <3> QED BY <1>0, <1>4, <1>5, <1>6, <2>1, <2>3, <3>2
  <2> QED BY <1>0, <2>2, <2>3
<1>8. Len(InsertAt(q, i, e)) = Len(q) + 1
  BY <1>0, <1>2, <1>4, <1>5, <1>6
<1>9. InsertAt(q, i, e) \in Seq(S)
  BY <1>4, <1>6
<1> QED BY <1>7, <1>8, <1>9
=============================================================================
