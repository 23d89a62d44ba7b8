--------------------------- MODULE SequenceLemmas ---------------------------
(***************************************************************************)
(* Lemmas about the sequence operators the models are built from.          *)
(***************************************************************************)
EXTENDS Integers, SequencesExt, SequenceTheorems, FiniteSetTheorems, FunctionTheorems,
        WellFoundedInduction, TLAPS

-----------------------------------------------------------------------------
(* Sequences and positions. *)

\* A set of natural numbers that is not empty has a least one: the first key of
\* a map.
LEMMA MinNat ==
    ASSUME NEW S \in SUBSET Nat, S # {}
    PROVE  /\ Min(S) \in S
           /\ \A i \in S : Min(S) <= i
<1>1. S \subseteq Nat
  OBVIOUS
<1>2. PICK x \in S : \A y \in S : ~ (<<y, x>> \in OpToRel(<, Nat))
  BY <1>1, NatLessThanWellFounded, WFMin
<1>3. ASSUME NEW y \in S PROVE x <= y
  <2>1. x \in Nat /\ y \in Nat
    BY <1>1
  <2>2. <<y, x>> \in Nat \X Nat /\ ~ (<<y, x>> \in OpToRel(<, Nat))
    BY <1>2, <2>1
  <2>3. ~ (y < x)
    BY <2>2 DEF OpToRel
  <2> QED  BY <2>1, <2>3
<1> QED
  BY <1>3 DEF Min

\* So has a set of positions: what find_if() and the loop of emplace() return.
LEMMA MinPosition ==
    ASSUME NEW n \in Nat, NEW S \in SUBSET (1..n), S # {}
    PROVE  /\ Min(S) \in S
           /\ \A i \in S : Min(S) <= i
<1>1. S \in SUBSET Nat
  OBVIOUS
<1> QED  BY <1>1, MinNat

\* Appending adds one element to what a sequence holds.
LEMMA ToSetAppend ==
    ASSUME NEW S, NEW s \in Seq(S), NEW e \in S
    PROVE  ToSet(Append(s, e)) = ToSet(s) \union {e}
<1>1. /\ Append(s, e) \in Seq(S)
      /\ DOMAIN s = 1..Len(s)
      /\ DOMAIN Append(s, e) = 1..(Len(s) + 1)
      /\ Len(s) \in Nat
  OBVIOUS
<1>2. /\ \A i \in 1..Len(s) : Append(s, e)[i] = s[i]
      /\ Append(s, e)[Len(s) + 1] = e
  OBVIOUS
<1>3. ASSUME NEW x \in ToSet(Append(s, e)) PROVE x \in ToSet(s) \union {e}
  <2>1. PICK i \in 1..(Len(s) + 1) : x = Append(s, e)[i]
    BY <1>1, <1>3 DEF ToSet
  <2>2. i \in 1..Len(s) \/ i = Len(s) + 1
    BY <1>1, <2>1
  <2> QED  BY <1>1, <1>2, <2>1, <2>2 DEF ToSet
<1>4. ASSUME NEW x \in ToSet(s) PROVE x \in ToSet(Append(s, e))
  <2>1. PICK i \in 1..Len(s) : x = s[i]
    BY <1>1, <1>4 DEF ToSet
  <2>2. i \in DOMAIN Append(s, e) /\ Append(s, e)[i] = x
    BY <1>1, <1>2, <2>1
  <2> QED  BY <2>2 DEF ToSet
<1>5. e \in ToSet(Append(s, e))
  <2>1. Len(s) + 1 \in DOMAIN Append(s, e)
    BY <1>1
  <2> QED  BY <1>2, <2>1 DEF ToSet
<1> QED  BY <1>3, <1>4, <1>5

\* Taking the head off loses at most the head.
LEMMA ToSetTail ==
    ASSUME NEW S, NEW s \in Seq(S), s # <<>>
    PROVE  /\ Head(s) \in S
           /\ Tail(s) \in Seq(S)
           /\ ToSet(s) = ToSet(Tail(s)) \union {Head(s)}
<1>1. Head(s) \in S /\ Tail(s) \in Seq(S)
  OBVIOUS
<1>2. ASSUME NEW x \in ToSet(s) PROVE x \in ToSet(Tail(s)) \union {Head(s)}
  <2>1. PICK i \in 1..Len(s) : x = s[i]
    BY <1>2 DEF ToSet
  <2>2. CASE i = 1
    BY <2>1, <2>2
  <2>3. CASE i # 1
    <3>1. i - 1 \in DOMAIN Tail(s) /\ Tail(s)[i - 1] = x
      BY <2>1, <2>3
    <3> QED  BY <3>1 DEF ToSet
  <2> QED  BY <2>2, <2>3
<1>3. ASSUME NEW x \in ToSet(Tail(s)) PROVE x \in ToSet(s)
  <2>1. PICK i \in DOMAIN Tail(s) : x = Tail(s)[i]
    BY <1>3 DEF ToSet
  <2>2. i + 1 \in DOMAIN s /\ s[i + 1] = x
    BY <2>1
  <2> QED  BY <2>2 DEF ToSet
<1>4. Head(s) \in ToSet(s)
  BY DEF ToSet
<1> QED  BY <1>1, <1>2, <1>3, <1>4

\* What InsertAt puts at each position.
LEMMA InsertAtElements ==
    ASSUME NEW S, NEW s \in Seq(S), NEW e \in S, NEW at \in 1..(Len(s) + 1)
    PROVE  /\ InsertAt(s, at, e) \in Seq(S)
           /\ Len(InsertAt(s, at, e)) = Len(s) + 1
           /\ \A k \in 1..(Len(s) + 1) :
                InsertAt(s, at, e)[k] = IF k < at THEN s[k]
                                        ELSE IF k = at THEN e ELSE s[k - 1]
<1> DEFINE a == SubSeq(s, 1, at - 1)
           b == SubSeq(s, at, Len(s))
           ae == a \o <<e>>
<1>0. Len(s) \in Nat /\ at \in Int /\ 1 <= at /\ at <= Len(s) + 1
  OBVIOUS
<1>1. /\ a \in Seq(S) /\ Len(a) = at - 1
      /\ \A i \in 1..(at - 1) : a[i] = s[i]
  OBVIOUS
<1>2. /\ b \in Seq(S) /\ Len(b) = Len(s) - at + 1
      /\ \A i \in 1..(Len(s) - at + 1) : b[i] = s[at + i - 1]
  OBVIOUS
<1>3. InsertAt(s, at, e) = ae \o b
  BY DEF InsertAt
<1> HIDE DEF a, b
<1>4. /\ ae \in Seq(S) /\ Len(ae) = at
      /\ \A i \in 1..at : ae[i] = IF i < at THEN a[i] ELSE e
  BY <1>0, <1>1
<1> HIDE DEF ae
<1>5. /\ ae \o b \in Seq(S)
      /\ Len(ae \o b) = Len(ae) + Len(b)
      /\ \A i \in 1..(Len(ae) + Len(b)) :
           (ae \o b)[i] = IF i <= Len(ae) THEN ae[i] ELSE b[i - Len(ae)]
  BY <1>2, <1>4, ConcatProperties
<1>6. Len(ae) + Len(b) = Len(s) + 1
  BY <1>0, <1>2, <1>4
<1>7. ASSUME NEW k \in 1..(Len(s) + 1)
      PROVE  (ae \o b)[k] = IF k < at THEN s[k] ELSE IF k = at THEN e ELSE s[k - 1]
  <2>0. k \in Int /\ 1 <= k /\ k <= Len(s) + 1
    BY <1>0
  <2>1. CASE k <= at
    <3>1. (ae \o b)[k] = ae[k] /\ k \in 1..at
      BY <1>0, <1>4, <1>5, <1>6, <2>0, <2>1
    <3>2. k < at => ae[k] = a[k] /\ k \in 1..(at - 1)
      BY <1>0, <1>4, <2>0, <3>1
    <3> QED  BY <1>0, <1>1, <1>4, <2>0, <2>1, <3>1, <3>2
  <2>2. CASE k > at
    <3>1. (ae \o b)[k] = b[k - at]
      BY <1>0, <1>4, <1>5, <1>6, <2>0, <2>2
    <3>2. k - at \in 1..(Len(s) - at + 1) /\ at + (k - at) - 1 = k - 1
      BY <1>0, <2>0, <2>2
    <3>3. b[k - at] = s[k - 1]
      BY <1>2, <3>2
    <3> QED  BY <1>0, <2>0, <2>2, <3>1, <3>3
  <2>3. k <= at \/ k > at
    BY <1>0, <2>0
  <2> QED  BY <2>1, <2>2, <2>3
<1> QED  BY <1>3, <1>5, <1>6, <1>7

\* What RemoveAt puts at each position.
LEMMA RemoveAtElements ==
    ASSUME NEW S, NEW s \in Seq(S), NEW at \in 1..Len(s)
    PROVE  /\ RemoveAt(s, at) \in Seq(S)
           /\ Len(RemoveAt(s, at)) = Len(s) - 1
           /\ \A k \in 1..(Len(s) - 1) :
                RemoveAt(s, at)[k] = IF k < at THEN s[k] ELSE s[k + 1]
<1> DEFINE a == SubSeq(s, 1, at - 1)
           b == SubSeq(s, at + 1, Len(s))
<1>0. Len(s) \in Nat /\ at \in Int /\ 1 <= at /\ at <= Len(s)
  OBVIOUS
<1>1. /\ a \in Seq(S) /\ Len(a) = at - 1
      /\ \A i \in 1..(at - 1) : a[i] = s[i]
  OBVIOUS
<1>2. /\ b \in Seq(S) /\ Len(b) = Len(s) - at
      /\ \A i \in 1..(Len(s) - at) : b[i] = s[at + i]
  OBVIOUS
<1>3. RemoveAt(s, at) = a \o b
  BY DEF RemoveAt
<1> HIDE DEF a, b
<1>4. /\ a \o b \in Seq(S)
      /\ Len(a \o b) = Len(a) + Len(b)
      /\ \A i \in 1..(Len(a) + Len(b)) :
           (a \o b)[i] = IF i <= Len(a) THEN a[i] ELSE b[i - Len(a)]
  BY <1>1, <1>2, ConcatProperties
<1>5. Len(a) + Len(b) = Len(s) - 1
  BY <1>0, <1>1, <1>2
<1>6. ASSUME NEW k \in 1..(Len(s) - 1)
      PROVE  (a \o b)[k] = IF k < at THEN s[k] ELSE s[k + 1]
  <2>0. k \in Int /\ 1 <= k /\ k <= Len(s) - 1
    BY <1>0
  <2>1. CASE k < at
    BY <1>0, <1>1, <1>4, <1>5, <2>0, <2>1
  <2>2. CASE k >= at
    <3>1. (a \o b)[k] = b[k - (at - 1)]
      BY <1>0, <1>1, <1>4, <1>5, <2>0, <2>2
    <3>2. k - (at - 1) \in 1..(Len(s) - at) /\ at + (k - (at - 1)) = k + 1
      BY <1>0, <2>0, <2>2
    <3>3. b[k - (at - 1)] = s[k + 1]
      BY <1>2, <3>2
    <3> QED  BY <1>0, <2>0, <2>2, <3>1, <3>3
  <2>3. k < at \/ k >= at
    BY <1>0, <2>0
  <2> QED  BY <2>1, <2>2, <2>3
<1> QED  BY <1>3, <1>4, <1>5, <1>6

\* Appending a sequence adds its elements.
LEMMA ToSetConcat ==
    ASSUME NEW S, NEW s \in Seq(S), NEW t \in Seq(S)
    PROVE  ToSet(s \o t) \subseteq ToSet(s) \union ToSet(t)
<1> SUFFICES ASSUME NEW x \in ToSet(s \o t) PROVE x \in ToSet(s) \union ToSet(t)
  OBVIOUS
<1>1. /\ Len(s) \in Nat /\ Len(t) \in Nat
      /\ DOMAIN s = 1..Len(s) /\ DOMAIN t = 1..Len(t)
      /\ DOMAIN (s \o t) = 1..(Len(s) + Len(t))
  BY ConcatProperties, LenProperties
<1>2. PICK i \in 1..(Len(s) + Len(t)) : x = (s \o t)[i]
  BY <1>1 DEF ToSet
<1>3. CASE i <= Len(s)
  <2>1. x = s[i] /\ i \in DOMAIN s
    BY <1>1, <1>2, <1>3, ConcatProperties
  <2> QED  BY <2>1 DEF ToSet
<1>4. CASE i > Len(s)
  <2>1. x = t[i - Len(s)] /\ i - Len(s) \in DOMAIN t
    BY <1>1, <1>2, <1>4, ConcatProperties
  <2> QED  BY <2>1 DEF ToSet
<1> QED  BY <1>1, <1>3, <1>4

\* What a concatenation holds.
LEMMA ToSetOfConcat ==
    ASSUME NEW S, NEW s \in Seq(S), NEW t \in Seq(S)
    PROVE  \A x : x \in ToSet(s \o t) <=> x \in ToSet(s) \/ x \in ToSet(t)
<1>1. /\ Len(s) \in Nat /\ Len(t) \in Nat
      /\ DOMAIN s = 1..Len(s) /\ DOMAIN t = 1..Len(t)
      /\ DOMAIN (s \o t) = 1..(Len(s) + Len(t))
  BY ConcatProperties, LenProperties
<1>2. ASSUME NEW x \in ToSet(s) PROVE x \in ToSet(s \o t)
  <2>1. PICK i \in 1..Len(s) : x = s[i]
    BY <1>1 DEF ToSet
  <2>2. i \in DOMAIN (s \o t) /\ (s \o t)[i] = x
    BY <1>1, <2>1, ConcatProperties
  <2> QED  BY <2>2 DEF ToSet
<1>3. ASSUME NEW x \in ToSet(t) PROVE x \in ToSet(s \o t)
  <2>1. PICK i \in 1..Len(t) : x = t[i]
    BY <1>1 DEF ToSet
  <2>2. PICK k \in 1..(Len(s) + Len(t)) : k = Len(s) + i
    BY <1>1
  <2>3. k - Len(s) = i /\ ~(k <= Len(s))
    BY <1>1, <2>2
  <2>4. k \in DOMAIN (s \o t) /\ (s \o t)[k] = x
    BY <1>1, <2>1, <2>3, ConcatProperties
  <2> QED  BY <2>4 DEF ToSet
<1> QED  BY <1>2, <1>3, ToSetConcat

\* An element between two sequences, what precedes a position, and what follows it.
Around(a, e, b) == a \o (<<e>> \o b)
Preceding(s, at) == SubSeq(s, 1, at - 1)
Following(s, at) == SubSeq(s, at + 1, Len(s))

\* A sequence around one of its elements.
LEMMA RemoveAtSplits ==
    ASSUME NEW S, NEW s \in Seq(S), NEW at \in 1..Len(s), NEW e, e = s[at]
    PROVE  /\ Preceding(s, at) \in Seq(S) /\ Following(s, at) \in Seq(S)
           /\ s = Around(Preceding(s, at), e, Following(s, at))
           /\ RemoveAt(s, at) = Preceding(s, at) \o Following(s, at)
<1> DEFINE a == SubSeq(s, 1, at - 1)
           b == SubSeq(s, at + 1, Len(s))
<1>1. Len(s) \in Nat /\ s[at] \in S
  BY LenProperties, ElementOfSeq
<1>2. a \in Seq(S) /\ b \in Seq(S)
  BY <1>1
<1>3. s = a \o (<<s[at]>> \o b)
  <2>1. SubSeq(s, 1, at - 1) \o SubSeq(s, (at - 1) + 1, Len(s)) = SubSeq(s, 1, Len(s))
    <3>1. /\ 1 \in 1..(Len(s) + 1) /\ at - 1 \in (1 - 1)..Len(s)
          /\ Len(s) \in (at - 1)..Len(s)
      BY <1>1
    <3> QED  BY <3>1, ConcatAdjacentSubSeq
  <2>2. (at - 1) + 1 = at
    BY <1>1
  <2>3. SubSeq(s, at, Len(s)) = <<s[at]>> \o SubSeq(s, at + 1, Len(s))
    BY <1>1, SubSeqRecursiveFirst
  <2> QED  BY <2>1, <2>2, <2>3, SubSeqFull
<1>4. RemoveAt(s, at) = a \o b
  BY DEF RemoveAt
<1>5. s = Around(a, e, b)
  BY <1>3 DEF Around
<1> QED  BY <1>2, <1>4, <1>5 DEF Preceding, Following

\* The first element and the rest.
LEMMA HeadThenTail ==
    ASSUME NEW S, NEW s \in Seq(S), s # <<>>
    PROVE  Head(s) \in S /\ Tail(s) \in Seq(S) /\ s = <<Head(s)>> \o Tail(s)
<1>1. Len(s) \in Nat /\ Len(s) # 0
  BY EmptySeq, LenProperties
<1>2. SubSeq(s, 1, Len(s)) = <<s[1]>> \o SubSeq(s, 2, Len(s))
  BY <1>1, SubSeqRecursiveFirst
<1> QED  BY <1>2, HeadTailProperties, SubSeqFull, TailIsSubSeq

\* Removing an element, or putting another in its place, adds none or that one.
LEMMA ToSetRemoveAt ==
    ASSUME NEW S, NEW s \in Seq(S), NEW i \in 1..Len(s), NEW e
    PROVE  /\ ToSet(RemoveAt(s, i)) \subseteq ToSet(s)
           /\ ToSet([s EXCEPT ![i] = e]) \subseteq ToSet(s) \union {e}
<1>1. Len(s) \in Nat /\ DOMAIN s = 1..Len(s)
  BY LenProperties
<1>2. /\ RemoveAt(s, i) \in Seq(S) /\ Len(RemoveAt(s, i)) = Len(s) - 1
      /\ \A k \in 1..(Len(s) - 1) :
            RemoveAt(s, i)[k] = IF k < i THEN s[k] ELSE s[k + 1]
  BY RemoveAtElements
<1>3. ASSUME NEW x \in ToSet(RemoveAt(s, i)) PROVE x \in ToSet(s)
  <2>1. DOMAIN RemoveAt(s, i) = 1..(Len(s) - 1)
    BY <1>2, LenProperties
  <2>2. PICK k \in 1..(Len(s) - 1) : x = RemoveAt(s, i)[k]
    BY <1>3, <2>1 DEF ToSet
  <2>3. PICK l \in DOMAIN s : x = s[l]
    <3>1. k \in DOMAIN s /\ k + 1 \in DOMAIN s
      BY <1>1
    <3> QED  BY <1>2, <2>2, <3>1
  <2> QED  BY <2>3 DEF ToSet
<1>4. ToSet([s EXCEPT ![i] = e]) \subseteq ToSet(s) \union {e}
  BY DEF ToSet
<1> QED  BY <1>3, <1>4

\* Putting an element in front adds it to what a sequence holds.
LEMMA ToSetPrepend ==
    ASSUME NEW S, NEW s \in Seq(S), NEW e \in S
    PROVE  ToSet(<<e>> \o s) = ToSet(s) \union {e}
<1> DEFINE f == <<e>>
<1>1. /\ f \in Seq(S) /\ Len(f) = 1 /\ f[1] = e /\ Len(s) \in Nat
  OBVIOUS
<1> HIDE DEF f
<1>2. /\ Len(f \o s) = Len(s) + 1
      /\ DOMAIN (f \o s) = 1..(Len(s) + 1)
      /\ \A k \in 1..(Len(s) + 1) : (f \o s)[k] = IF k <= 1 THEN f[k] ELSE s[k - 1]
  <2>1. /\ f \o s \in Seq(S)
        /\ Len(f \o s) = Len(f) + Len(s)
        /\ \A k \in 1..(Len(f) + Len(s)) :
             (f \o s)[k] = IF k <= Len(f) THEN f[k] ELSE s[k - Len(f)]
    BY <1>1, ConcatProperties
  <2> QED  BY <1>1, <2>1
<1>3. ASSUME NEW x \in ToSet(f \o s) PROVE x \in ToSet(s) \union {e}
  <2>1. PICK k \in 1..(Len(s) + 1) : x = (f \o s)[k]
    BY <1>2, <1>3 DEF ToSet
  <2>2. CASE k = 1
    BY <1>1, <1>2, <2>1, <2>2
  <2>3. CASE k # 1
    <3>1. k - 1 \in 1..Len(s) /\ x = s[k - 1]
      BY <1>1, <1>2, <2>1, <2>3
    <3> QED  BY <3>1 DEF ToSet
  <2> QED  BY <2>2, <2>3
<1>4. ASSUME NEW x \in ToSet(s) PROVE x \in ToSet(f \o s)
  <2>1. PICK k \in 1..Len(s) : x = s[k]
    BY <1>4 DEF ToSet
  <2>2. k + 1 \in 1..(Len(s) + 1) /\ (f \o s)[k + 1] = x
    BY <1>1, <1>2, <2>1
  <2> QED  BY <1>2, <2>2 DEF ToSet
<1>5. e \in ToSet(f \o s)
  <2>1. 1 \in 1..(Len(s) + 1) /\ (f \o s)[1] = e
    BY <1>1, <1>2
  <2> QED  BY <1>2, <2>1 DEF ToSet
<1> QED  BY <1>3, <1>4, <1>5 DEF f

\* A sequence with one of its elements moved to the front holds what it held.
LEMMA ToSetToFront ==
    ASSUME NEW S, NEW s \in Seq(S), NEW i \in 1..Len(s)
    PROVE  /\ <<s[i]>> \o RemoveAt(s, i) \in Seq(S)
           /\ ToSet(<<s[i]>> \o RemoveAt(s, i)) = ToSet(s)
<1> DEFINE r == RemoveAt(s, i)
           f == <<s[i]>>
<1>0. Len(s) \in Nat /\ i \in Int /\ 1 <= i /\ i <= Len(s)
  OBVIOUS
<1>1. s[i] \in S
  BY ElementOfSeq
<1>2. /\ r \in Seq(S) /\ Len(r) = Len(s) - 1
      /\ \A k \in 1..(Len(s) - 1) : r[k] = IF k < i THEN s[k] ELSE s[k + 1]
  BY RemoveAtElements
<1> HIDE DEF r
<1>3. f \in Seq(S) /\ Len(f) = 1 /\ f[1] = s[i]
  BY <1>1
<1> HIDE DEF f
<1>4. /\ f \o r \in Seq(S)
      /\ Len(f \o r) = Len(s)
      /\ \A k \in 1..Len(s) : (f \o r)[k] = IF k <= 1 THEN f[k] ELSE r[k - 1]
  <2>1. /\ f \o r \in Seq(S)
        /\ Len(f \o r) = Len(f) + Len(r)
        /\ \A k \in 1..(Len(f) + Len(r)) :
             (f \o r)[k] = IF k <= Len(f) THEN f[k] ELSE r[k - Len(f)]
    BY <1>2, <1>3, ConcatProperties
  <2> QED  BY <1>0, <1>2, <1>3, <2>1
<1>5. ASSUME NEW x \in ToSet(s) PROVE x \in ToSet(f \o r)
  <2>1. PICK k \in 1..Len(s) : x = s[k]
    BY <1>5 DEF ToSet
  <2> DEFINE j == IF k = i THEN 1 ELSE IF k < i THEN k + 1 ELSE k
  <2>2. j \in 1..Len(s) /\ (f \o r)[j] = x
    <3>1. CASE k = i
      BY <1>0, <1>3, <1>4, <2>1, <3>1
    <3>2. CASE k < i
      BY <1>0, <1>2, <1>4, <2>1, <3>2
    <3>3. CASE k > i
      BY <1>0, <1>2, <1>4, <2>1, <3>3
    <3>4. k = i \/ k < i \/ k > i
      BY <1>0, <2>1
    <3> QED  BY <3>1, <3>2, <3>3, <3>4
  <2>3. j \in DOMAIN (f \o r)
    BY <1>4, <2>2
  <2> QED  BY <2>2, <2>3 DEF ToSet
<1>6. ASSUME NEW x \in ToSet(f \o r) PROVE x \in ToSet(s)
  <2>1. PICK k \in 1..Len(s) : x = (f \o r)[k]
    BY <1>4, <1>6 DEF ToSet
  <2> DEFINE j == IF k = 1 THEN i ELSE IF k - 1 < i THEN k - 1 ELSE k
  <2>2. j \in 1..Len(s) /\ s[j] = x
    <3>1. CASE k = 1
      BY <1>0, <1>3, <1>4, <2>1, <3>1
    <3>2. CASE k # 1 /\ k - 1 < i
      BY <1>0, <1>2, <1>4, <2>1, <3>2
    <3>3. CASE k # 1 /\ k - 1 >= i
      BY <1>0, <1>2, <1>4, <2>1, <3>3
    <3>4. k = 1 \/ (k # 1 /\ k - 1 < i) \/ (k # 1 /\ k - 1 >= i)
      BY <1>0, <2>1
    <3> QED  BY <3>1, <3>2, <3>3, <3>4
  <2> QED  BY <2>2 DEF ToSet
<1> QED  BY <1>4, <1>5, <1>6 DEF r, f

-----------------------------------------------------------------------------
(* How many elements of a sequence belong to a set.                        *)

Positions(s, A) == {i \in DOMAIN s : s[i] \in A}
Among(s, A) == Cardinality(Positions(s, A))

\* It is a number: a sequence has finitely many positions.
LEMMA AmongType ==
    ASSUME NEW S, NEW s \in Seq(S), NEW A
    PROVE  IsFiniteSet(Positions(s, A)) /\ Among(s, A) \in Nat
<1>1. IsFiniteSet(1..Len(s)) /\ DOMAIN s = 1..Len(s)
  <2>1. Len(s) \in Nat /\ DOMAIN s = 1..Len(s)
    BY LenProperties
  <2> QED  BY <2>1, FS_Interval
<1>2. IsFiniteSet(Positions(s, A))
  BY <1>1, FS_Subset, Positions(s, A) \in SUBSET (1..Len(s)) DEF Positions
<1> QED  BY <1>2, FS_CardinalityType DEF Among

\* It is zero exactly when none does.
LEMMA AmongZero ==
    ASSUME NEW S, NEW s \in Seq(S), NEW A
    PROVE  Among(s, A) = 0 <=> \A i \in DOMAIN s : s[i] \notin A
<1>1. Among(s, A) = 0 <=> Positions(s, A) = {}
  BY AmongType, FS_EmptySet DEF Among
<1> QED  BY <1>1 DEF Positions

\* It is at most one exactly when no two positions do.
LEMMA AmongOne ==
    ASSUME NEW S, NEW s \in Seq(S), NEW A, Among(s, A) <= 1,
           NEW i \in DOMAIN s, NEW j \in DOMAIN s, s[i] \in A, s[j] \in A
    PROVE  i = j
<1>1. i \in Positions(s, A) /\ j \in Positions(s, A)
  BY DEF Positions
<1>2. Among(s, A) = 1
  <2>1. Among(s, A) # 0
    BY AmongZero
  <2> QED  BY <2>1, AmongType
<1>3. PICK x : Positions(s, A) = {x}
  BY <1>2, AmongType, FS_Singleton DEF Among
<1> QED  BY <1>1, <1>3

\* A concatenation has what its parts have.
LEMMA AmongConcat ==
    ASSUME NEW S, NEW s \in Seq(S), NEW t \in Seq(S), NEW A
    PROVE  Among(s \o t, A) = Among(s, A) + Among(t, A)
<1> DEFINE n == Len(s)
           P == Positions(s, A)
           Q == Positions(t, A)
           R == {n + i : i \in Q}
<1>1. /\ n \in Nat /\ DOMAIN s = 1..n
      /\ Len(t) \in Nat /\ DOMAIN t = 1..Len(t)
  BY LenProperties
<1>2. /\ s \o t \in Seq(S)
      /\ Len(s \o t) = n + Len(t)
      /\ \A i \in 1..(n + Len(t)) : (s \o t)[i] = IF i <= n THEN s[i] ELSE t[i - n]
  BY ConcatProperties
<1>2a. DOMAIN (s \o t) = 1..(n + Len(t))
  BY <1>1, <1>2, LenProperties
<1>3. IsFiniteSet(P) /\ IsFiniteSet(Q)
  BY AmongType
<1>4. P \subseteq 1..n /\ Q \subseteq 1..Len(t)
  BY <1>1 DEF Positions
<1>5. IsFiniteSet(R) /\ Cardinality(R) = Cardinality(Q)
  <2> DEFINE f == [i \in Q |-> n + i]
  <2>1. f \in [Q -> R]
    OBVIOUS
  <2>2. \A i, j \in Q : f[i] = f[j] => i = j
    <3> HIDE DEF Q
    <3> QED  BY <1>1, <1>4
  <2>3. \A r \in R : \E i \in Q : f[i] = r
    OBVIOUS
  <2>4. f \in Bijection(Q, R)
    BY <2>1, <2>2, <2>3 DEF Bijection, Injection, Surjection, IsInjective
  <2> QED  BY <1>3, <2>4, FS_Bijection DEF ExistsBijection
<1>6. P \intersect R = {}
  <2> SUFFICES ASSUME NEW i \in P, NEW j \in Q, i = n + j PROVE FALSE
    OBVIOUS
  <2>1. i \in 1..n /\ j \in 1..Len(t)
    BY <1>4
  <2> QED  BY <1>1, <2>1
<1>7. Positions(s \o t, A) = P \union R
  <2>1. ASSUME NEW i \in Positions(s \o t, A) PROVE i \in P \union R
    <3>1. i \in 1..(n + Len(t)) /\ (s \o t)[i] \in A
      BY <1>2a, <2>1 DEF Positions
    <3>2. CASE i <= n
      BY <1>1, <1>2, <3>1, <3>2 DEF Positions
    <3>3. CASE ~ (i <= n)
      <4>1. i - n \in 1..Len(t) /\ t[i - n] \in A
        BY <1>1, <1>2, <3>1, <3>3
      <4>2. i - n \in Q
        BY <1>1, <4>1 DEF Positions
      <4>3. i = n + (i - n)
        BY <1>1, <3>1
      <4> QED  BY <4>2, <4>3
    <3> QED  BY <3>2, <3>3
  <2>2. ASSUME NEW i \in P PROVE i \in Positions(s \o t, A)
    <3>1. i \in 1..n /\ s[i] \in A
      BY <1>1, <2>2 DEF Positions
    <3>2. i \in 1..(n + Len(t)) /\ i <= n
      BY <1>1, <3>1
    <3> QED  BY <1>2, <1>2a, <3>1, <3>2 DEF Positions
  <2>3. ASSUME NEW i \in Q PROVE n + i \in Positions(s \o t, A)
    <3>1. i \in 1..Len(t) /\ t[i] \in A
      BY <1>1, <2>3 DEF Positions
    <3>2. n + i \in 1..(n + Len(t)) /\ ~(n + i <= n) /\ (n + i) - n = i
      BY <1>1, <3>1
    <3> QED  BY <1>2, <1>2a, <3>1, <3>2 DEF Positions
  <2> QED  BY <2>1, <2>2, <2>3
<1>8. Cardinality(P \union R) = Cardinality(P) + Cardinality(R)
  <2>1. Cardinality(P \union R)
          = Cardinality(P) + Cardinality(R) - Cardinality(P \intersect R)
    BY <1>3, <1>5, FS_Union
  <2>2. Cardinality(P \intersect R) = 0
    BY <1>6, FS_EmptySet
  <2>3. Cardinality(P) \in Nat /\ Cardinality(R) \in Nat
    BY <1>3, <1>5, FS_CardinalityType
  <2> QED  BY <2>1, <2>2, <2>3
<1> QED  BY <1>5, <1>7, <1>8 DEF Among

\* What one element adds.
Weight(e, A) == IF e \in A THEN 1 ELSE 0

\* One element has its weight.
LEMMA AmongSingle ==
    ASSUME NEW S, NEW e \in S, NEW A
    PROVE  Among(<<e>>, A) = Weight(e, A)
<1>1. <<e>> \in Seq(S) /\ DOMAIN <<e>> = {1} /\ <<e>>[1] = e
  OBVIOUS
<1>2. CASE e \in A
  <2>1. Positions(<<e>>, A) = {1}
    BY <1>1, <1>2 DEF Positions
  <2> QED  BY <1>2, <2>1, FS_Singleton DEF Among, Weight
<1>3. CASE e \notin A
  <2>1. Positions(<<e>>, A) = {}
    BY <1>1, <1>3 DEF Positions
  <2> QED  BY <1>3, <2>1, FS_EmptySet DEF Among, Weight
<1> QED  BY <1>2, <1>3

\* The empty sequence has none.
LEMMA AmongEmpty == \A A : Among(<<>>, A) = 0
<1>1. \A A : Positions(<<>>, A) = {}
  BY DEF Positions
<1> QED  BY <1>1, FS_EmptySet DEF Among

\* Append() adds the weight of the new element.
LEMMA AmongAppend ==
    ASSUME NEW S, NEW s \in Seq(S), NEW e \in S, NEW A
    PROVE  Among(Append(s, e), A) = Among(s, A) + Weight(e, A)
<1>1. Append(s, e) = s \o <<e>> /\ <<e>> \in Seq(S)
  BY AppendIsConcat
<1>2. Among(s \o <<e>>, A) = Among(s, A) + Among(<<e>>, A)
  BY <1>1, AmongConcat
<1> QED  BY <1>1, <1>2, AmongSingle

\* Taking the head off takes its weight off.
LEMMA AmongTail ==
    ASSUME NEW S, NEW s \in Seq(S), s # <<>>, NEW A
    PROVE  Among(s, A) = Among(Tail(s), A) + Weight(Head(s), A)
<1>1. /\ Head(s) \in S /\ Tail(s) \in Seq(S) /\ <<Head(s)>> \in Seq(S)
  BY HeadTailProperties
<1>2. s = <<Head(s)>> \o Tail(s)
  BY HeadThenTail
<1>3. Among(s, A) = Among(<<Head(s)>>, A) + Among(Tail(s), A)
  <2>1. ASSUME NEW h \in Seq(S), NEW t \in Seq(S), s = h \o t
        PROVE  Among(s, A) = Among(h, A) + Among(t, A)
    BY <2>1, AmongConcat
  <2> QED  BY <1>1, <1>2, <2>1
<1>4. Among(<<Head(s)>>, A) = Weight(Head(s), A)
  BY <1>1, AmongSingle
<1>5. Among(Tail(s), A) \in Nat /\ Weight(Head(s), A) \in Nat
  BY <1>1, AmongType DEF Weight
<1> QED  BY <1>3, <1>4, <1>5

\* InsertAt() adds the weight of the new element.
LEMMA AmongInsertAt ==
    ASSUME NEW S, NEW s \in Seq(S), NEW e \in S, NEW at \in 1..(Len(s) + 1), NEW A
    PROVE  Among(InsertAt(s, at, e), A) = Among(s, A) + Weight(e, A)
<1> DEFINE a == SubSeq(s, 1, at - 1)
           b == SubSeq(s, at, Len(s))
<1>1. Len(s) \in Nat
  BY LenProperties
<1>2. a \in Seq(S) /\ b \in Seq(S) /\ <<e>> \in Seq(S)
  BY <1>1
<1>3. a \o b = s
  <2>1. SubSeq(s, 1, at - 1) \o SubSeq(s, (at - 1) + 1, Len(s)) = SubSeq(s, 1, Len(s))
    <3>1. /\ 1 \in 1..(Len(s) + 1) /\ at - 1 \in (1 - 1)..Len(s)
          /\ Len(s) \in (at - 1)..Len(s)
      BY <1>1
    <3> QED  BY <3>1, ConcatAdjacentSubSeq
  <2>2. (at - 1) + 1 = at
    BY <1>1
  <2> QED  BY <2>1, <2>2, SubSeqFull
<1>4. InsertAt(s, at, e) = (a \o <<e>>) \o b
  BY DEF InsertAt
<1> HIDE DEF a, b
<1>5. a \o <<e>> \in Seq(S)
  BY <1>2, ConcatProperties
<1>6. Among(InsertAt(s, at, e), A) = (Among(a, A) + Weight(e, A)) + Among(b, A)
  <2>1. Among((a \o <<e>>) \o b, A) = Among(a \o <<e>>, A) + Among(b, A)
    BY <1>2, <1>5, AmongConcat
  <2>2. Among(a \o <<e>>, A) = Among(a, A) + Among(<<e>>, A)
    BY <1>2, AmongConcat
  <2> QED  BY <1>4, <2>1, <2>2, AmongSingle
<1>7. Among(s, A) = Among(a, A) + Among(b, A)
  BY <1>2, <1>3, AmongConcat
<1>8. Among(a, A) \in Nat /\ Among(b, A) \in Nat /\ Weight(e, A) \in Nat
  BY <1>2, AmongType DEF Weight
<1> QED  BY <1>6, <1>7, <1>8

\* RemoveAt() takes off the weight of the element removed.
LEMMA AmongRemoveAt ==
    ASSUME NEW S, NEW s \in Seq(S), NEW at \in 1..Len(s), NEW A
    PROVE  Among(s, A) = Among(RemoveAt(s, at), A) + Weight(s[at], A)
<1>1. s[at] \in S
  BY LenProperties, ElementOfSeq
<1>a. PICK a, b : a = Preceding(s, at) /\ b = Following(s, at)
  OBVIOUS
<1>3. s = a \o (<<s[at]>> \o b) /\ a \in Seq(S) /\ b \in Seq(S) /\ RemoveAt(s, at) = a \o b
  <2>1. PICK e : e = s[at]
    OBVIOUS
  <2>s. s = Around(Preceding(s, at), e, Following(s, at))
    BY <2>1, RemoveAtSplits
  <2>r. /\ Preceding(s, at) \in Seq(S) /\ Following(s, at) \in Seq(S)
        /\ RemoveAt(s, at) = Preceding(s, at) \o Following(s, at)
    BY RemoveAtSplits
  <2>2. s = Around(a, e, b) /\ a \in Seq(S) /\ b \in Seq(S) /\ RemoveAt(s, at) = a \o b
    BY <1>a, <2>s, <2>r
  <2>3. Around(a, e, b) = a \o (<<e>> \o b)
    BY DEF Around
  <2> QED  BY <2>1, <2>2, <2>3
<1>2. a \in Seq(S) /\ b \in Seq(S) /\ <<s[at]>> \in Seq(S)
  BY <1>1, <1>3
<1>4. RemoveAt(s, at) = a \o b
  BY <1>3
<1>5. <<s[at]>> \o b \in Seq(S)
  BY <1>2, ConcatProperties
<1>6. Among(s, A) = Among(a, A) + (Weight(s[at], A) + Among(b, A))
  <2>1. Among(s, A) = Among(a, A) + Among(<<s[at]>> \o b, A)
    <3>1. ASSUME NEW h \in Seq(S), NEW t \in Seq(S), s = h \o t
          PROVE  Among(s, A) = Among(h, A) + Among(t, A)
      BY <3>1, AmongConcat
    <3> QED  BY <1>2, <1>3, <1>5, <3>1
  <2>2. Among(<<s[at]>> \o b, A) = Among(<<s[at]>>, A) + Among(b, A)
    BY <1>2, AmongConcat
  <2>3. Among(<<s[at]>>, A) = Weight(s[at], A)
    BY <1>1, AmongSingle
  <2> QED  BY <2>1, <2>2, <2>3
<1>7. Among(RemoveAt(s, at), A) = Among(a, A) + Among(b, A)
  BY <1>2, <1>4, AmongConcat
<1>8. Among(a, A) \in Nat /\ Among(b, A) \in Nat /\ Weight(s[at], A) \in Nat
  BY <1>2, AmongType DEF Weight
<1> QED  BY <1>6, <1>7, <1>8

=============================================================================
