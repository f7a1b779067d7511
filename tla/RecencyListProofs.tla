------------------------- MODULE RecencyListProofs -------------------------
(***************************************************************************)
(* What the operators of RecencyList do to a list without repetitions.     *)
(***************************************************************************)
EXTENDS RecencyList, Integers, SequenceTheorems, TLAPS

\* The place of an element is one of its places.
LEMMA PositionIsPlace ==
    ASSUME NEW S, NEW q \in Seq(S), NEW f \in ToSet(q)
    PROVE  Position(q, f) \in 1..Len(q) /\ q[Position(q, f)] = f
BY DEF Position, ToSet

\* Removing the element at a place: the rest moves up by one.
LEMMA RemoveAtElements ==
    ASSUME NEW S, NEW q \in Seq(S), NEW n \in 1..Len(q)
    PROVE  /\ RemoveAt(q, n) \in Seq(S)
           /\ Len(RemoveAt(q, n)) = Len(q) - 1
           /\ \A i \in 1..(Len(q) - 1) :
                RemoveAt(q, n)[i] = IF i < n THEN q[i] ELSE q[i + 1]
<1> DEFINE front == SubSeq(q, 1, n - 1)
           back == SubSeq(q, n + 1, Len(q))
<1>1. Len(q) \in Nat /\ n \in Nat /\ \A i \in 1..Len(q) : q[i] \in S
  OBVIOUS
<1>2. /\ front \in Seq(S)
      /\ Len(front) = n - 1
      /\ \A i \in 1..(n - 1) : front[i] = q[i]
  BY <1>1, SubSeqProperties
<1>3. /\ back \in Seq(S)
      /\ Len(back) = Len(q) - n
      /\ \A i \in 1..(Len(q) - n) : back[i] = q[n + i]
  <2>1. \A i \in (n + 1)..Len(q) : q[i] \in S
    BY <1>1
  <2>2. n + 1 \in Int /\ Len(q) \in Int
    BY <1>1
  <2>3. /\ back \in Seq(S)
        /\ Len(back) = IF n + 1 <= Len(q) THEN Len(q) - (n + 1) + 1 ELSE 0
        /\ \A i \in 1..(Len(q) - (n + 1) + 1) : back[i] = q[n + 1 + i - 1]
    BY <2>1, <2>2, SubSeqProperties
  <2> HIDE DEF back
  <2>4. ASSUME NEW i \in 1..(Len(q) - n)
        PROVE  back[i] = q[n + i]
    <3>1. n + 1 + i - 1 = n + i /\ i \in 1..(Len(q) - (n + 1) + 1)
      BY <1>1
    <3> QED BY <2>3, <3>1
  <2> QED BY <1>1, <2>3, <2>4
<1>4. RemoveAt(q, n) = front \o back
  BY DEF RemoveAt
<1> HIDE DEF front, back
<1>5. /\ front \o back \in Seq(S)
      /\ Len(front \o back) = Len(front) + Len(back)
      /\ \A i \in 1..(Len(front) + Len(back)) :
           (front \o back)[i] = IF i <= Len(front) THEN front[i]
                                                 ELSE back[i - Len(front)]
  BY <1>2, <1>3, ConcatProperties
<1>6. ASSUME NEW i \in 1..(Len(q) - 1)
      PROVE  (front \o back)[i] = IF i < n THEN q[i] ELSE q[i + 1]
  <2>1. CASE i < n
    BY <2>1, <1>1, <1>2, <1>3, <1>5
  <2>2. CASE ~(i < n)
    <3>1. /\ i - (n - 1) \in 1..(Len(q) - n)
          /\ n + (i - (n - 1)) = i + 1
      BY <2>2, <1>1
    <3>2. back[i - (n - 1)] = q[i + 1]
      BY <3>1, <1>3
    <3> QED BY <2>2, <3>2, <1>1, <1>2, <1>3, <1>5
  <2> QED BY <2>1, <2>2
<1> QED BY <1>1, <1>2, <1>3, <1>4, <1>5, <1>6

\* Without drops f and keeps every other element, still without repetitions.
LEMMA WithoutProperties ==
    ASSUME NEW S, NEW q \in Seq(S), NEW f, NoRepetition(q)
    PROVE  /\ Without(q, f) \in Seq(S)
           /\ NoRepetition(Without(q, f))
           /\ ToSet(Without(q, f)) = ToSet(q) \ {f}
<1>1. CASE f \notin ToSet(q)
  BY <1>1 DEF Without
<1>2. CASE f \in ToSet(q)
  <2> DEFINE n == Position(q, f)
             r == RemoveAt(q, n)
  <2>1. n \in 1..Len(q) /\ q[n] = f
    BY <1>2, PositionIsPlace
  <2>2. /\ r \in Seq(S)
        /\ Len(r) = Len(q) - 1
        /\ \A i \in 1..(Len(q) - 1) : r[i] = IF i < n THEN q[i] ELSE q[i + 1]
    BY <2>1, RemoveAtElements
  <2>3. Without(q, f) = r
    BY <1>2 DEF Without
  <2> HIDE DEF n, r
  <2>4. NoRepetition(r)
    <3>1. SUFFICES ASSUME NEW i \in 1..Len(r), NEW j \in 1..Len(r), r[i] = r[j]
                   PROVE  i = j
      BY <2>2 DEF NoRepetition
    <3> DEFINE i0 == IF i < n THEN i ELSE i + 1
               j0 == IF j < n THEN j ELSE j + 1
    <3>2. /\ i0 \in DOMAIN q /\ j0 \in DOMAIN q
          /\ r[i] = q[i0] /\ r[j] = q[j0]
      BY <2>1, <2>2
    <3>3. i0 = j0
      BY <3>1, <3>2 DEF NoRepetition
    <3> QED BY <3>3, <2>1, <2>2
  <2>5. ToSet(r) \subseteq ToSet(q) \ {f}
    BY <2>1, <2>2 DEF NoRepetition, ToSet
  <2>6. ToSet(q) \ {f} \subseteq ToSet(r)
    <3>1. SUFFICES ASSUME NEW i \in 1..Len(q), q[i] # f
                   PROVE  \E j \in 1..Len(r) : r[j] = q[i]
      BY <2>2 DEF ToSet
    <3>2. CASE i < n
      BY <3>1, <3>2, <2>1, <2>2
    <3>3. CASE i > n
      <4>1. i - 1 \in 1..Len(r) /\ r[i - 1] = q[i]
        BY <3>3, <2>1, <2>2
      <4> QED BY <4>1
    <3> QED BY <3>1, <3>2, <3>3, <2>1
  <2> QED BY <2>2, <2>3, <2>4, <2>5, <2>6
<1> QED BY <1>1, <1>2

\* Touched puts f last and keeps every other element.
LEMMA TouchedProperties ==
    ASSUME NEW S, NEW q \in Seq(S), NEW f \in S, NoRepetition(q)
    PROVE  /\ Touched(q, f) \in Seq(S)
           /\ NoRepetition(Touched(q, f))
           /\ ToSet(Touched(q, f)) = ToSet(q) \cup {f}
<1> DEFINE r == Without(q, f)
<1>1. r \in Seq(S) /\ NoRepetition(r) /\ ToSet(r) = ToSet(q) \ {f}
  BY WithoutProperties
<1>2. Touched(q, f) = Append(r, f)
  BY DEF Touched
<1> HIDE DEF r
<1>3. /\ Append(r, f) \in Seq(S)
      /\ Len(Append(r, f)) = Len(r) + 1
      /\ Append(r, f)[Len(r) + 1] = f
      /\ \A i \in 1..Len(r) : Append(r, f)[i] = r[i]
  BY <1>1
<1>4. NoRepetition(Append(r, f))
  <2>1. SUFFICES ASSUME NEW i \in 1..(Len(r) + 1), NEW j \in 1..(Len(r) + 1),
                        Append(r, f)[i] = Append(r, f)[j]
                 PROVE  i = j
    BY <1>3 DEF NoRepetition
  <2>2. \A k \in 1..Len(r) : r[k] # f
    BY <1>1 DEF ToSet
  <2>3. CASE i \in 1..Len(r) /\ j \in 1..Len(r)
    BY <1>1, <1>3, <2>1, <2>3 DEF NoRepetition
  <2> QED BY <1>1, <1>3, <2>1, <2>2, <2>3
<1>5. ToSet(Append(r, f)) = ToSet(r) \cup {f}
  BY <1>1, <1>3 DEF ToSet
<1> QED BY <1>1, <1>2, <1>3, <1>4, <1>5

\* The head leaves the rest without repetitions and without the head.
LEMMA TailProperties ==
    ASSUME NEW S, NEW q \in Seq(S), q # <<>>, NoRepetition(q)
    PROVE  /\ Head(q) \in S
           /\ Head(q) \in ToSet(q)
           /\ Tail(q) \in Seq(S)
           /\ NoRepetition(Tail(q))
           /\ ToSet(Tail(q)) = ToSet(q) \ {Head(q)}
<1>1. /\ Len(q) \in Nat \ {0} /\ Head(q) = q[1] /\ Tail(q) \in Seq(S)
      /\ Len(Tail(q)) = Len(q) - 1
      /\ \A i \in 1..(Len(q) - 1) : Tail(q)[i] = q[i + 1]
  OBVIOUS
<1>2. NoRepetition(Tail(q))
  BY <1>1 DEF NoRepetition
<1>3. ToSet(Tail(q)) \subseteq ToSet(q) \ {Head(q)}
  BY <1>1 DEF NoRepetition, ToSet
<1>4. ToSet(q) \ {Head(q)} \subseteq ToSet(Tail(q))
  <2>1. SUFFICES ASSUME NEW i \in 1..Len(q), q[i] # Head(q)
                 PROVE  q[i] \in ToSet(Tail(q))
    BY DEF ToSet
  <2>2. i # 1
    BY <1>1, <2>1
  <2>3. i - 1 \in 1..Len(Tail(q)) /\ Tail(q)[i - 1] = q[(i - 1) + 1]
    BY <1>1, <2>2
  <2>4. (i - 1) + 1 = i
    OBVIOUS
  <2>5. \A t \in Seq(S) : \A j \in 1..Len(t) : t[j] \in ToSet(t)
    BY DEF ToSet
  <2> QED BY <1>1, <2>3, <2>4, <2>5
<1> QED BY <1>1, <1>2, <1>3, <1>4 DEF ToSet
\* A new first element.
LEMMA ConsProperties ==
    ASSUME NEW S, NEW q \in Seq(S), NEW f \in S, f \notin ToSet(q), NoRepetition(q)
    PROVE  /\ NoRepetition(<<f>> \o q)
           /\ ToSet(<<f>> \o q) = ToSet(q) \cup {f}
<1> DEFINE r == <<f>> \o q
<1>1. /\ Len(q) \in Nat /\ r \in Seq(S) /\ Len(r) = Len(q) + 1
      /\ r[1] = f
      /\ \A i \in 2..(Len(q) + 1) : r[i] = q[i - 1]
  OBVIOUS
<1>2. \A i \in 1..Len(q) : q[i] # f
  BY DEF ToSet
<1> HIDE DEF r
<1>3. NoRepetition(r)
  <2>1. SUFFICES ASSUME NEW i \in 1..(Len(q) + 1), NEW j \in 1..(Len(q) + 1),
                        r[i] = r[j]
                 PROVE  i = j
    BY <1>1 DEF NoRepetition
  <2>2. CASE i = 1
    BY <1>1, <1>2, <2>1, <2>2
  <2>3. CASE j = 1
    BY <1>1, <1>2, <2>1, <2>3
  <2>4. CASE i # 1 /\ j # 1
    <3>1. /\ i - 1 \in DOMAIN q /\ j - 1 \in DOMAIN q
          /\ q[i - 1] = q[j - 1]
      BY <1>1, <2>1, <2>4
    <3>2. i - 1 = j - 1
      BY <3>1 DEF NoRepetition
    <3> QED BY <3>2
  <2> QED BY <2>2, <2>3, <2>4
<1>4. ToSet(r) = ToSet(q) \cup {f}
  <2>1. ToSet(r) \subseteq ToSet(q) \cup {f}
    BY <1>1 DEF ToSet
  <2>2. \A t \in Seq(S) : \A j \in 1..Len(t) : t[j] \in ToSet(t)
    BY DEF ToSet
  <2>3. f \in ToSet(r)
    BY <1>1, <2>2
  <2>4. ASSUME NEW x \in ToSet(q) PROVE x \in ToSet(r)
    <3>1. PICK i \in 1..Len(q) : q[i] = x
      BY DEF ToSet
    <3>2. i + 1 \in 1..Len(r) /\ r[i + 1] = q[(i + 1) - 1] /\ (i + 1) - 1 = i
      BY <1>1
    <3> QED BY <1>1, <2>2, <3>1, <3>2
  <2> QED BY <2>1, <2>3, <2>4
<1> QED BY <1>3, <1>4 DEF r

=============================================================================
