--------------------------- MODULE BPlusTreeProofs ---------------------------
(***************************************************************************)
(* Proofs about the B+ tree, for every set of keys, every bound and every  *)
(* order from 3 on; at order 2 remove fails an assertion, as a run shows.  *)
(*                                                                         *)
(* The inductive invariant says that the tree is one of a class, IsGood:   *)
(* of some height, its nodes with the right number of keys, its separators *)
(* first keys, its keys in order, and the chain through its leaves.  add   *)
(* and remove are followed down to the leaf and back up by induction on    *)
(* the height.                                                             *)
(***************************************************************************)
EXTENDS BPlusTree, SequenceTheorems, WellFoundedInduction, TLAPS

-----------------------------------------------------------------------------
(***************************************************************************)
(* Sequences: concatenation, order, and what adding and removing a key     *)
(* does.                                                                   *)
(***************************************************************************)

\* Induction, on a set of numbers rather than a predicate.
LEMMA SetInduction ==
  ASSUME NEW S, 0 \in S, \A n \in Nat : n \in S => n + 1 \in S
  PROVE  Nat \subseteq S
  <1> DEFINE T == Nat \ S
  <1>1. SUFFICES ASSUME T # {} PROVE FALSE
    OBVIOUS
  <1>2. PICK x \in T : \A y \in T : ~ (<<y, x>> \in OpToRel(<, Nat))
    <2>1. T \subseteq Nat
      OBVIOUS
    <2>2. IsWellFoundedOn(OpToRel(<, Nat), Nat)
      BY NatLessThanWellFounded
    <2> HIDE DEF T
    <2> QED
      BY <1>1, <2>1, <2>2, WFMin
  <1>3. \A y \in T : ~(y < x)
    BY <1>2 DEF OpToRel
  <1>4. x # 0 /\ x \in Nat /\ x \notin S
    OBVIOUS
  <1>5. x - 1 \in Nat /\ x - 1 \in S
    BY <1>3, <1>4
  <1> QED
    BY <1>4, <1>5

(***************************************************************************)
(* Concatenation, under a name of its own for the provers.                 *)
(***************************************************************************)

Cat(s, t) == s \o t
One(v) == <<v>>

\* The elements of a concatenation.
LEMMA CatIs ==
  ASSUME NEW S, NEW a \in Seq(S), NEW b \in Seq(S)
  PROVE  /\ Cat(a, b) \in Seq(S)
         /\ Len(Cat(a, b)) = Len(a) + Len(b)
         /\ \A i \in 1..Len(a) : Cat(a, b)[i] = a[i]
         /\ \A j \in 1..Len(b) : Cat(a, b)[Len(a) + j] = b[j]
  <1>1. /\ a \o b \in Seq(S)
        /\ Len(a \o b) = Len(a) + Len(b)
        /\ \A i \in 1..(Len(a) + Len(b)) :
             (a \o b)[i] = IF i <= Len(a) THEN a[i] ELSE b[i - Len(a)]
    BY ConcatProperties
  <1>2. /\ Cat(a, b) \in Seq(S)
        /\ Len(Cat(a, b)) = Len(a) + Len(b)
        /\ \A i \in 1..(Len(a) + Len(b)) :
             Cat(a, b)[i] = IF i <= Len(a) THEN a[i] ELSE b[i - Len(a)]
    BY <1>1, Zenon DEF Cat
  <1>3. Len(a) \in Nat /\ Len(b) \in Nat
    OBVIOUS
  <1>4. ASSUME NEW j \in 1..Len(b) PROVE Cat(a, b)[Len(a) + j] = b[j]
    <2>1. Len(a) + j \in 1..(Len(a) + Len(b)) /\ ~(Len(a) + j <= Len(a)) /\ Len(a) + j - Len(a) = j
      BY <1>3
    <2> QED
      BY ONLY <1>2, <2>1
  <1>5. ASSUME NEW i \in 1..Len(a) PROVE Cat(a, b)[i] = a[i]
    <2>1. i \in 1..(Len(a) + Len(b)) /\ i <= Len(a)
      BY <1>3
    <2> QED
      BY ONLY <1>2, <2>1
  <1> QED
    BY <1>2, <1>4, <1>5

\* A concatenation is a sequence, as long as its parts together.
LEMMA CatType ==
  ASSUME NEW S, NEW a \in Seq(S), NEW b \in Seq(S)
  PROVE  Cat(a, b) \in Seq(S) /\ Len(Cat(a, b)) = Len(a) + Len(b)
  BY CatIs, Zenon

\* The elements of a concatenation that come from its first part.
LEMMA CatFirst ==
  ASSUME NEW S, NEW a \in Seq(S), NEW b \in Seq(S), NEW i \in 1..Len(a)
  PROVE  Cat(a, b)[i] = a[i]
  BY CatIs

\* The elements of a concatenation that come from its second part.
LEMMA CatSecond ==
  ASSUME NEW S, NEW a \in Seq(S), NEW b \in Seq(S), NEW j \in 1..Len(b)
  PROVE  Cat(a, b)[Len(a) + j] = b[j]
  BY CatIs

\* Concatenation is associative.
LEMMA CatAssoc ==
  ASSUME NEW S, NEW a \in Seq(S), NEW b \in Seq(S), NEW c \in Seq(S)
  PROVE  Cat(Cat(a, b), c) = Cat(a, Cat(b, c))
  <1>1. (a \o b) \o c = a \o (b \o c)
    BY ONLY a \in Seq(S), b \in Seq(S), c \in Seq(S), ConcatAssociative, SMTT(60)
  <1> QED
    BY <1>1, Zenon DEF Cat

\* The empty sequence adds nothing to a concatenation.
LEMMA CatNil ==
  ASSUME NEW S, NEW a \in Seq(S)
  PROVE  Cat(a, <<>>) = a /\ Cat(<<>>, a) = a
  BY ConcatEmptySeq, Zenon DEF Cat

\* A sequence of one element.
LEMMA OneIs ==
  ASSUME NEW S, NEW v \in S
  PROVE  One(v) \in Seq(S) /\ Len(One(v)) = 1 /\ One(v)[1] = v
  BY DEF One

\* A place of a concatenation is one of the first or one of the second.
Place1(a, b, i) ==
    \/ i \in 1..Len(a) /\ Cat(a, b)[i] = a[i]
    \/ \E j \in 1..Len(b) : i = Len(a) + j /\ Cat(a, b)[i] = b[j]

\* Every place of a concatenation is one of its first or of its second part.
LEMMA CatPlaces ==
  ASSUME NEW S, NEW a \in Seq(S), NEW b \in Seq(S), NEW i \in 1..Len(Cat(a, b))
  PROVE  Place1(a, b, i)
  <1>0. Len(a) \in Nat /\ Len(b) \in Nat
    OBVIOUS
  <1>1. Len(Cat(a, b)) = Len(a) + Len(b)
    BY CatType, Zenon
  <1> DEFINE c == Cat(a, b)
  <1>4. /\ \A k \in 1..Len(a) : c[k] = a[k]
        /\ \A j \in 1..Len(b) : c[Len(a) + j] = b[j]
    BY CatFirst, CatSecond
  <1>5. i \in 1..(Len(a) + Len(b))
    BY <1>1
  <1> HIDE DEF c
  <1>2. CASE i <= Len(a)
    <2>1. i \in 1..Len(a)
      BY <1>0, <1>2, <1>5
    <2>2. c[i] = a[i]
      BY <1>4, <2>1
    <2> QED
      BY <2>1, <2>2 DEF c, Place1
  <1>3. CASE ~(i <= Len(a))
    <2>1. i - Len(a) \in 1..Len(b) /\ Len(a) + (i - Len(a)) = i
      BY <1>0, <1>5, <1>3
    <2>2. c[Len(a) + (i - Len(a))] = b[i - Len(a)]
      BY <2>1, <1>4
    <2>3. c[i] = b[i - Len(a)]
      BY <2>1, <2>2
    <2> QED
      BY <2>1, <2>3 DEF c, Place1
  <1> QED
    BY <1>2, <1>3 DEF Place1

\* The first and the rest; all but the last, and the last.
LEMMA FirstOff ==
  ASSUME NEW S, NEW s \in Seq(S), s # <<>>
  PROVE  /\ Head(s) \in S /\ Tail(s) \in Seq(S) /\ s = Cat(One(Head(s)), Tail(s))
         /\ s[1] = Head(s) /\ Len(Tail(s)) = Len(s) - 1
  <1>1. /\ Head(s) \in S /\ Tail(s) \in Seq(S) /\ Len(Tail(s)) = Len(s) - 1
        /\ \A i \in 1..Len(Tail(s)) : Tail(s)[i] = s[i + 1]
    BY HeadTailProperties
  <1>2. s[1] = Head(s) /\ Len(s) \in Nat \ {0}
    BY EmptySeq
  <1> DEFINE h == One(Head(s))
             t == Tail(s)
  <1>3. h \in Seq(S) /\ Len(h) = 1 /\ h[1] = Head(s) /\ t \in Seq(S)
    BY <1>1, OneIs
  <1> HIDE DEF h, t
  <1>4. Cat(h, t) \in Seq(S) /\ Len(Cat(h, t)) = Len(h) + Len(t)
    BY <1>3, CatType
  <1>5. Len(Cat(h, t)) = Len(s)
    BY <1>1, <1>2, <1>3, <1>4 DEF t
  <1>6. ASSUME NEW i \in 1..Len(s) PROVE s[i] = Cat(h, t)[i]
    <2>1. i \in 1..Len(Cat(h, t))
      BY <1>5
    <2>2. Place1(h, t, i)
      BY <1>3, <2>1, CatPlaces
    <2> QED
      BY <1>1, <1>2, <1>3, <2>2 DEF t, Place1
  <1>7. s = Cat(h, t)
    BY <1>4, <1>5, <1>6, SeqEqual
  <1> QED
    BY <1>1, <1>2, <1>7 DEF h, t

\* All elements but the last, and the last.
LEMMA LastOff ==
  ASSUME NEW S, NEW s \in Seq(S), s # <<>>
  PROVE  /\ Last(s) \in S /\ Front(s) \in Seq(S) /\ s = Cat(Front(s), One(Last(s)))
         /\ Len(Front(s)) = Len(s) - 1
  <1>1. Len(s) \in Nat \ {0} /\ \A i \in 1..Len(s) : s[i] \in S
    BY EmptySeq
  <1> DEFINE h == Front(s)
             t == One(Last(s))
  <1>2. h \in Seq(S) /\ Len(h) = Len(s) - 1 /\ \A i \in 1..(Len(s) - 1) : h[i] = s[i]
    <2> DEFINE m == Len(s) - 1
    <2>1. 1 \in Int /\ m \in Int /\ \A i \in 1..m : s[i] \in S
      BY <1>1
    <2>2. h = SubSeq(s, 1, m)
      BY DEF Front
    <2>4. m \in Nat
      BY <1>1
    <2> HIDE DEF h, m
    <2>3. /\ h \in Seq(S) /\ Len(h) = IF 1 <= m THEN m - 1 + 1 ELSE 0
          /\ \A i \in 1..(m - 1 + 1) : h[i] = s[1 + i - 1]
      BY <2>1, <2>2, SubSeqProperties
    <2>5. h \in Seq(S) /\ Len(h) = m /\ \A i \in 1..m : h[i] = s[i]
      BY <2>3, <2>4
    <2> QED
      BY <2>5 DEF m
  <1>3. Last(s) \in S /\ t \in Seq(S) /\ Len(t) = 1 /\ t[1] = s[Len(s)]
    BY <1>1, OneIs DEF Last
  <1> HIDE DEF h, t
  <1>4. Cat(h, t) \in Seq(S) /\ Len(Cat(h, t)) = Len(s)
    <2>1. Cat(h, t) \in Seq(S) /\ Len(Cat(h, t)) = Len(h) + Len(t)
      BY <1>2, <1>3, CatType, Zenon
    <2> QED
      BY <1>1, <1>2, <1>3, <2>1
  <1>6. ASSUME NEW i \in 1..Len(s) PROVE s[i] = Cat(h, t)[i]
    <2>2. Place1(h, t, i)
      BY <1>2, <1>3, <1>4, CatPlaces
    <2> QED
      BY <1>1, <1>2, <1>3, <2>2 DEF Place1
  <1>7. s = Cat(h, t)
    BY <1>4, <1>6, SeqEqual
  <1> QED
    BY <1>1, <1>2, <1>3, <1>7 DEF h, t

\* The parts of a sequence before and from a place.
LEMMA CutAt ==
  ASSUME NEW S, NEW s \in Seq(S), NEW k \in 1..(Len(s) + 1)
  PROVE  /\ SubSeq(s, 1, k - 1) \in Seq(S) /\ SubSeq(s, k, Len(s)) \in Seq(S)
         /\ Len(SubSeq(s, 1, k - 1)) = k - 1 /\ Len(SubSeq(s, k, Len(s))) = Len(s) + 1 - k
         /\ \A i \in 1..(k - 1) : SubSeq(s, 1, k - 1)[i] = s[i]
         /\ \A i \in 1..(Len(s) + 1 - k) : SubSeq(s, k, Len(s))[i] = s[k + i - 1]
         /\ s = Cat(SubSeq(s, 1, k - 1), SubSeq(s, k, Len(s)))
  <1>1. Len(s) \in Nat /\ \A i \in 1..Len(s) : s[i] \in S
    OBVIOUS
  <1> DEFINE a == SubSeq(s, 1, k - 1)
             b == SubSeq(s, k, Len(s))
  <1>2. a \in Seq(S) /\ Len(a) = k - 1 /\ \A i \in 1..(k - 1) : a[i] = s[i]
    <2>1. 1 \in Int /\ k - 1 \in Int /\ \A i \in 1..(k - 1) : s[i] \in S
      BY <1>1
    <2>2. /\ a \in Seq(S) /\ Len(a) = IF 1 <= k - 1 THEN (k - 1) - 1 + 1 ELSE 0
          /\ \A i \in 1..((k - 1) - 1 + 1) : a[i] = s[1 + i - 1]
      BY <2>1, SubSeqProperties
    <2> HIDE DEF a
    <2> QED
      BY <2>2
  <1>3. b \in Seq(S) /\ Len(b) = Len(s) + 1 - k
        /\ \A i \in 1..(Len(s) + 1 - k) : b[i] = s[k + i - 1]
    <2>1. k \in Int /\ Len(s) \in Int /\ \A i \in k..Len(s) : s[i] \in S
      BY <1>1
    <2>2. /\ b \in Seq(S) /\ Len(b) = IF k <= Len(s) THEN Len(s) - k + 1 ELSE 0
          /\ \A i \in 1..(Len(s) - k + 1) : b[i] = s[k + i - 1]
      BY <2>1, SubSeqProperties
    <2> HIDE DEF b
    <2> QED
      BY <1>1, <2>2
  <1> HIDE DEF a, b
  <1>4. Cat(a, b) \in Seq(S) /\ Len(Cat(a, b)) = Len(s)
    <2>1. Cat(a, b) \in Seq(S) /\ Len(Cat(a, b)) = Len(a) + Len(b)
      BY <1>2, <1>3, CatType, Zenon
    <2> QED
      BY <1>1, <1>2, <1>3, <2>1
  <1>5. ASSUME NEW i \in 1..Len(s) PROVE s[i] = Cat(a, b)[i]
    <2>1. Place1(a, b, i)
      BY <1>2, <1>3, <1>4, CatPlaces
    <2>2. ASSUME NEW j \in 1..Len(b), i = Len(a) + j PROVE b[j] = s[i]
      <3>1. k + j - 1 = i
        BY <1>2, <2>2
      <3> QED
        BY <1>3, <3>1
    <2> QED
      BY <1>2, <2>1, <2>2 DEF Place1
  <1>6. s = Cat(a, b)
    BY <1>4, <1>5, SeqEqual
  <1> QED
    BY <1>2, <1>3, <1>6 DEF a, b

(***************************************************************************)
(* Keys in order.                                                          *)
(***************************************************************************)

Sorted(s) == \A i, j \in 1..Len(s) : i <= j => s[i] <= s[j]

\* No key of s is larger than v; all of them are.
Upto(s, v) == \A i \in 1..Len(s) : s[i] <= v
Beyond(s, v) == \A i \in 1..Len(s) : v < s[i]

\* The keys of a and then those of b.
InOrder(a, b) == \A i \in 1..Len(a), j \in 1..Len(b) : a[i] <= b[j]

\* The elements of a sequence of keys are integers.
LEMMA KeysAreNumbers ==
  ASSUME NEW s \in Seq(Keys)
  PROVE  Len(s) \in Nat /\ \A i \in 1..Len(s) : s[i] \in Int /\ s[i] \in Keys
  <1>1. ASSUME NEW i \in 1..Len(s) PROVE s[i] \in Int /\ s[i] \in Keys
    <2>1. s[i] \in Keys
      OBVIOUS
    <2> QED
      BY <2>1, TreeAssumption DEF TreeAssumption
  <1>2. Len(s) \in Nat
    OBVIOUS
  <1> QED
    BY <1>1, <1>2

\* A bound on the keys of a concatenation bounds both parts.
LEMMA UptoCat ==
  ASSUME NEW S, NEW a \in Seq(S), NEW b \in Seq(S), NEW v
  PROVE  Upto(Cat(a, b), v) <=> Upto(a, v) /\ Upto(b, v)
  <1>0. Len(a) \in Nat /\ Len(b) \in Nat
    OBVIOUS
  <1>1. Len(Cat(a, b)) = Len(a) + Len(b)
    BY CatType, Zenon
  <1>2. ASSUME Upto(a, v), Upto(b, v), NEW i \in 1..Len(Cat(a, b)) PROVE Cat(a, b)[i] <= v
    <2>1. Place1(a, b, i)
      BY CatPlaces
    <2> QED
      BY <2>1, <1>2 DEF Place1, Upto
  <1>3. ASSUME Upto(Cat(a, b), v), NEW i \in 1..Len(a) PROVE a[i] <= v
    <2>1. i \in 1..Len(Cat(a, b)) /\ Cat(a, b)[i] = a[i]
      BY <1>0, <1>1, CatFirst
    <2> QED
      BY <2>1, <1>3 DEF Upto
  <1>4. ASSUME Upto(Cat(a, b), v), NEW i \in 1..Len(b) PROVE b[i] <= v
    <2>1. Len(a) + i \in 1..Len(Cat(a, b)) /\ Cat(a, b)[Len(a) + i] = b[i]
      BY <1>0, <1>1, CatSecond
    <2> QED
      BY <2>1, <1>4 DEF Upto
  <1> QED
    BY <1>2, <1>3, <1>4 DEF Upto

\* The keys of a concatenation lie beyond a key if those of both parts do.
LEMMA BeyondCat ==
  ASSUME NEW S, NEW a \in Seq(S), NEW b \in Seq(S), NEW v
  PROVE  Beyond(Cat(a, b), v) <=> Beyond(a, v) /\ Beyond(b, v)
  <1>0. Len(a) \in Nat /\ Len(b) \in Nat
    OBVIOUS
  <1>1. Len(Cat(a, b)) = Len(a) + Len(b)
    BY CatType, Zenon
  <1>2. ASSUME Beyond(a, v), Beyond(b, v), NEW i \in 1..Len(Cat(a, b)) PROVE v < Cat(a, b)[i]
    <2>1. Place1(a, b, i)
      BY CatPlaces
    <2> QED
      BY <2>1, <1>2 DEF Place1, Beyond
  <1>3. ASSUME Beyond(Cat(a, b), v), NEW i \in 1..Len(a) PROVE v < a[i]
    <2>1. i \in 1..Len(Cat(a, b)) /\ Cat(a, b)[i] = a[i]
      BY <1>0, <1>1, CatFirst
    <2> QED
      BY <2>1, <1>3 DEF Beyond
  <1>4. ASSUME Beyond(Cat(a, b), v), NEW i \in 1..Len(b) PROVE v < b[i]
    <2>1. Len(a) + i \in 1..Len(Cat(a, b)) /\ Cat(a, b)[Len(a) + i] = b[i]
      BY <1>0, <1>1, CatSecond
    <2> QED
      BY <2>1, <1>4 DEF Beyond
  <1> QED
    BY <1>2, <1>3, <1>4 DEF Beyond

\* A concatenation is in order if its parts are, one behind the other.
LEMMA SortedCat ==
  ASSUME NEW S, NEW a \in Seq(S), NEW b \in Seq(S)
  PROVE  Sorted(Cat(a, b)) <=> Sorted(a) /\ Sorted(b) /\ InOrder(a, b)
  <1>0. Len(a) \in Nat /\ Len(b) \in Nat
    OBVIOUS
  <1>1. Len(Cat(a, b)) = Len(a) + Len(b)
    BY CatType, Zenon
  <1>2. ASSUME Sorted(a), Sorted(b), InOrder(a, b),
               NEW i \in 1..Len(Cat(a, b)), NEW j \in 1..Len(Cat(a, b)), i <= j
        PROVE  Cat(a, b)[i] <= Cat(a, b)[j]
    <2>1. Place1(a, b, i) /\ Place1(a, b, j)
      BY CatPlaces
    <2> QED
      BY <2>1, <1>0, <1>2 DEF Place1, Sorted, InOrder
  <1>3. \A i \in 1..Len(a) : i \in 1..Len(Cat(a, b)) /\ Cat(a, b)[i] = a[i]
    BY <1>0, <1>1, CatFirst
  <1>4. \A i \in 1..Len(b) : Len(a) + i \in 1..Len(Cat(a, b)) /\ Cat(a, b)[Len(a) + i] = b[i]
    BY <1>0, <1>1, CatSecond
  <1>5. ASSUME Sorted(Cat(a, b)) PROVE Sorted(a) /\ Sorted(b) /\ InOrder(a, b)
    <2> DEFINE c == Cat(a, b)
    <2>1. \A i, j \in 1..Len(c) : i <= j => c[i] <= c[j]
      BY <1>5 DEF Sorted
    <2>2. /\ \A i \in 1..Len(a) : i \in 1..Len(c) /\ c[i] = a[i]
          /\ \A i \in 1..Len(b) : Len(a) + i \in 1..Len(c) /\ c[Len(a) + i] = b[i]
      BY <1>3, <1>4
    <2> HIDE DEF c
    <2>3. Sorted(a)
      BY <2>1, <2>2 DEF Sorted
    <2>4. Sorted(b)
      BY <1>0, <2>1, <2>2 DEF Sorted
    <2>5. InOrder(a, b)
      BY <1>0, <2>1, <2>2 DEF InOrder
    <2> QED
      BY <2>3, <2>4, <2>5
  <1> QED
    BY <1>2, <1>5 DEF Sorted

\* The first key is not larger than the others; nor are keys up to v larger than
\* those beyond it.
LEMMA HeadIsLeast ==
  ASSUME NEW s \in Seq(Keys), Sorted(s), s # <<>>
  PROVE  Head(s) \in Keys /\ \A i \in 1..Len(s) : Head(s) <= s[i]
  <1>1. s[1] = Head(s) /\ Head(s) \in Keys
    BY FirstOff, Zenon
  <1>2. 1 \in 1..Len(s)
    BY EmptySeq
  <1> QED
    BY <1>1, <1>2 DEF Sorted

\* Keys that come before one up to v are up to v.
LEMMA HeadInOrder ==
  ASSUME NEW a \in Seq(Keys), NEW b \in Seq(Keys), b # <<>>, NEW v \in Int,
         Head(b) <= v, Sorted(Cat(a, b))
  PROVE  Upto(a, v)
  <1>1. InOrder(a, b)
    BY SortedCat
  <1>2. b[1] = Head(b) /\ 1 \in 1..Len(b) /\ Head(b) \in Keys
    BY FirstOff, EmptySeq
  <1>3. \A i \in 1..Len(a) : a[i] \in Int /\ a[i] <= Head(b)
    BY <1>1, <1>2, KeysAreNumbers DEF InOrder
  <1>4. Head(b) \in Int
    BY <1>2, TreeAssumption DEF TreeAssumption
  <1> QED
    BY <1>3, <1>4 DEF Upto

\* Keys in order lie beyond v if the first one does.
LEMMA HeadBeyond ==
  ASSUME NEW b \in Seq(Keys), NEW v \in Int, Sorted(b), b = <<>> \/ v < Head(b)
  PROVE  Beyond(b, v)
  <1> SUFFICES ASSUME NEW i \in 1..Len(b) PROVE v < b[i]
    BY DEF Beyond
  <1>1. b # <<>>
    OBVIOUS
  <1>2. Head(b) <= b[i] /\ Head(b) \in Keys /\ b[i] \in Keys
    BY <1>1, HeadIsLeast
  <1>3. Head(b) \in Int /\ b[i] \in Int
    BY <1>2, TreeAssumption DEF TreeAssumption
  <1> QED
    BY <1>1, <1>2, <1>3

\* Where a key is added: behind the keys up to it.
LEMMA FirstLargerIs ==
  ASSUME NEW s \in Seq(Keys), NEW v \in Int, NEW none
  PROVE  \/ FirstLarger(s, v, none) = none /\ Upto(s, v)
         \/ /\ FirstLarger(s, v, none) \in 1..Len(s)
            /\ v < s[FirstLarger(s, v, none)]
            /\ \A j \in 1..Len(s) : j < FirstLarger(s, v, none) => s[j] <= v
  <1> DEFINE larger == {i \in DOMAIN s : v < s[i]}
             p == CHOOSE i \in larger : \A j \in larger : i <= j
  <1>1. FirstLarger(s, v, none) = IF larger = {} THEN none ELSE p
    BY DEF FirstLarger
  <1>2. \A i \in 1..Len(s) : s[i] \in Int
    BY KeysAreNumbers
  <1>3. CASE larger = {}
    <2>1. Upto(s, v)
      BY <1>2, <1>3 DEF Upto
    <2> QED
      BY <1>1, <1>3, <2>1
  <1>4. CASE larger # {}
    <2>1. larger \in SUBSET Nat
      OBVIOUS
    <2>2. \E i \in larger : \A j \in larger : i <= j
      <3> DEFINE B == {i \in Nat : i \notin larger /\ \A j \in larger : i < j}
      <3> SUFFICES ASSUME ~\E i \in larger : \A j \in larger : i <= j PROVE FALSE
        OBVIOUS
      <3>1. 0 \in B
        BY <2>1
      <3>2. ASSUME NEW n \in Nat, n \in B PROVE n + 1 \in B
        <4>1. \A j \in larger : n + 1 <= j
          BY <2>1, <3>2
        <4>2. n + 1 \notin larger
          BY <4>1
        <4> QED
          BY <2>1, <4>1, <4>2
      <3>3. Nat \subseteq B
        <4> HIDE DEF B
        <4> QED
          BY <3>1, <3>2, SetInduction
      <3> QED
        BY <1>4, <2>1, <3>3
    <2>3. p \in larger /\ \A j \in larger : p <= j
      BY <2>2
    <2> HIDE DEF p
    <2>4. p \in 1..Len(s) /\ v < s[p]
      BY <2>3
    <2>5. ASSUME NEW j \in 1..Len(s), j < p PROVE s[j] <= v
      <3>1. j \notin larger
        BY <2>3, <2>4, <2>5
      <3> QED
        BY <1>2, <3>1
    <2> QED
      BY <1>1, <1>4, <2>4, <2>5
  <1> QED
    BY <1>3, <1>4

\* A key that is added comes behind the keys up to it and before those beyond it.
LEMMA AddedAt ==
  ASSUME NEW a \in Seq(Keys), NEW b \in Seq(Keys), NEW v \in Keys,
         Upto(a, v), Beyond(b, v)
  PROVE  Added(Cat(a, b), v) = Cat(Cat(a, One(v)), b)
  <1> DEFINE s == Cat(a, b)
             p == FirstLarger(s, v, Len(s) + 1)
  <1>0. v \in Int /\ Len(a) \in Nat /\ Len(b) \in Nat
    BY TreeAssumption DEF TreeAssumption
  <1>1. s \in Seq(Keys) /\ Len(s) = Len(a) + Len(b)
    BY CatType, Zenon
  <1>2. \A i \in 1..Len(a) : s[i] = a[i]
    BY CatFirst
  <1>3. \A j \in 1..Len(b) : s[Len(a) + j] = b[j]
    BY CatSecond
  <1>4. Added(s, v) = (SubSeq(s, 1, p - 1) \o <<v>>) \o SubSeq(s, p, Len(s))
    BY Zenon DEF Added, InsertAt
  <1>4a. \A i \in 1..Len(s) : s[i] \in Int
    BY <1>1, KeysAreNumbers
  <1> HIDE DEF s
  <1>5. p = Len(a) + 1
    <2>1. \/ p = Len(s) + 1 /\ Upto(s, v)
          \/ p \in 1..Len(s) /\ v < s[p] /\ \A j \in 1..Len(s) : j < p => s[j] <= v
      BY <1>0, <1>1, FirstLargerIs
    <2> HIDE DEF p
    <2>2. CASE p = Len(s) + 1 /\ Upto(s, v)
      <3>1. ASSUME Len(b) # 0 PROVE FALSE
        <4>1. 1 \in 1..Len(b) /\ Len(a) + 1 \in 1..Len(s)
          BY <1>0, <1>1, <3>1
        <4>2. s[Len(a) + 1] = b[1] /\ v < b[1] /\ s[Len(a) + 1] <= v
          BY <1>3, <2>2, <4>1 DEF Upto, Beyond
        <4>3. b[1] \in Int
          BY <4>1, KeysAreNumbers
        <4> QED
          BY <1>0, <4>2, <4>3
      <3> QED
        BY <1>0, <1>1, <2>2, <3>1
    <2>3. CASE p \in 1..Len(s) /\ v < s[p] /\ \A j \in 1..Len(s) : j < p => s[j] <= v
      <3>1. ~(p <= Len(a))
        <4> SUFFICES ASSUME p <= Len(a) PROVE FALSE
          OBVIOUS
        <4>1. p \in 1..Len(a)
          BY <1>0, <2>3
        <4>2. s[p] = a[p] /\ a[p] <= v /\ a[p] \in Int
          BY <1>2, <4>1, KeysAreNumbers DEF Upto
        <4> QED
          BY <1>0, <2>3, <4>2
      <3>2. ~(p > Len(a) + 1)
        <4> SUFFICES ASSUME p > Len(a) + 1 PROVE FALSE
          OBVIOUS
        <4>1. Len(a) + 1 \in 1..Len(s) /\ 1 \in 1..Len(b)
          BY <1>0, <1>1, <2>3
        <4>2. s[Len(a) + 1] = b[1] /\ v < b[1] /\ s[Len(a) + 1] <= v /\ b[1] \in Int
          BY <1>3, <2>3, <4>1, KeysAreNumbers DEF Beyond
        <4> QED
          BY <1>0, <4>2
      <3> QED
        BY <1>0, <2>3, <3>1, <3>2
    <2> QED
      BY <2>1, <2>2, <2>3
  <1> HIDE DEF p
  <1>6. /\ SubSeq(s, 1, p - 1) = a
        /\ SubSeq(s, p, Len(s)) = b
    <2> DEFINE x == SubSeq(s, 1, p - 1)
               y == SubSeq(s, p, Len(s))
    <2>1. p \in 1..(Len(s) + 1)
      BY <1>0, <1>1, <1>5
    <2>2. /\ x \in Seq(Keys) /\ y \in Seq(Keys)
          /\ Len(x) = p - 1 /\ Len(y) = Len(s) + 1 - p
          /\ \A i \in 1..(p - 1) : x[i] = s[i]
          /\ \A i \in 1..(Len(s) + 1 - p) : y[i] = s[p + i - 1]
      BY <1>1, <2>1, CutAt
    <2> HIDE DEF x, y
    <2>3. Len(x) = Len(a) /\ Len(y) = Len(b)
      BY <1>0, <1>1, <1>5, <2>2
    <2>4. \A i \in 1..Len(x) : x[i] = a[i]
      BY <1>0, <1>2, <1>5, <2>2
    <2>5. ASSUME NEW i \in 1..Len(y) PROVE y[i] = b[i]
      <3>1. p + i - 1 = Len(a) + i /\ i \in 1..Len(b) /\ i \in 1..(Len(s) + 1 - p)
        BY <1>0, <1>5, <2>2, <2>3
      <3> QED
        BY <1>3, <2>2, <3>1
    <2>6. x = a
      BY <2>2, <2>3, <2>4, SeqEqual
    <2>7. y = b
      BY <2>2, <2>3, <2>5, SeqEqual
    <2> QED
      BY <2>6, <2>7 DEF x, y
  <1>7. Added(s, v) = (a \o <<v>>) \o b
    BY <1>4, <1>6, Zenon
  <1> QED
    BY <1>7, Zenon DEF s, Cat, One

\* LeafNode::add puts a key between those up to it and those beyond it.
LEMMA AddedSplits ==
  ASSUME NEW s \in Seq(Keys), Sorted(s), NEW v \in Keys
  PROVE  \E a, b \in Seq(Keys) : /\ s = Cat(a, b) /\ Upto(a, v) /\ Beyond(b, v)
                                 /\ Added(s, v) = Cat(Cat(a, One(v)), b)
  <1> DEFINE p == FirstLarger(s, v, Len(s) + 1)
             a == SubSeq(s, 1, p - 1)
             b == SubSeq(s, p, Len(s))
  <1>0. v \in Int /\ Len(s) \in Nat /\ \A i \in 1..Len(s) : s[i] \in Int
    BY KeysAreNumbers, TreeAssumption DEF TreeAssumption
  <1>1. \/ p = Len(s) + 1 /\ Upto(s, v)
        \/ p \in 1..Len(s) /\ v < s[p] /\ \A j \in 1..Len(s) : j < p => s[j] <= v
    BY <1>0, FirstLargerIs
  <1> HIDE DEF p
  <1>2. p \in 1..(Len(s) + 1)
    BY <1>0, <1>1
  <1>3. /\ a \in Seq(Keys) /\ b \in Seq(Keys)
        /\ Len(a) = p - 1 /\ Len(b) = Len(s) + 1 - p
        /\ \A i \in 1..(p - 1) : a[i] = s[i]
        /\ \A i \in 1..(Len(s) + 1 - p) : b[i] = s[p + i - 1]
        /\ s = Cat(a, b)
    BY <1>2, CutAt
  <1> HIDE DEF a, b
  <1>4. Upto(a, v)
    BY <1>0, <1>1, <1>2, <1>3 DEF Upto
  <1>5. Beyond(b, v)
    <2> SUFFICES ASSUME NEW i \in 1..Len(b) PROVE v < b[i]
      BY DEF Beyond
    <2>1. p \in 1..Len(s) /\ v < s[p]
      BY <1>0, <1>1, <1>3
    <2>2. b[i] = s[p + i - 1] /\ p + i - 1 \in 1..Len(s) /\ p <= p + i - 1
      BY <1>0, <1>3, <2>1
    <2>3. s[p] <= s[p + i - 1]
      BY <2>1, <2>2 DEF Sorted
    <2> QED
      BY <1>0, <2>1, <2>2, <2>3
  <1>6. Added(s, v) = Cat(Cat(a, One(v)), b)
    BY <1>3, <1>4, <1>5, AddedAt
  <1> QED
    BY <1>3, <1>4, <1>5, <1>6

\* Adding keeps the order, and makes the sequence one longer.
LEMMA AddedSorted ==
  ASSUME NEW s \in Seq(Keys), Sorted(s), NEW v \in Keys
  PROVE  /\ Added(s, v) \in Seq(Keys) /\ Len(Added(s, v)) = Len(s) + 1 /\ Sorted(Added(s, v))
  <1>1. PICK a \in Seq(Keys), b \in Seq(Keys) :
          s = Cat(a, b) /\ Upto(a, v) /\ Beyond(b, v) /\ Added(s, v) = Cat(Cat(a, One(v)), b)
    BY AddedSplits
  <1>2. One(v) \in Seq(Keys) /\ Len(One(v)) = 1 /\ One(v)[1] = v
    BY OneIs
  <1>3. Cat(a, One(v)) \in Seq(Keys) /\ Len(Cat(a, One(v))) = Len(a) + 1
    BY <1>2, CatType
  <1> DEFINE x == Cat(a, One(v))
  <1>4. /\ Cat(x, b) \in Seq(Keys) /\ Len(Cat(x, b)) = Len(x) + Len(b)
        /\ Len(Cat(a, b)) = Len(a) + Len(b)
    BY <1>3, CatType
  <1>5. Sorted(a) /\ Sorted(b) /\ InOrder(a, b)
    BY <1>1, SortedCat
  <1>6. Sorted(x)
    <2>1. Sorted(One(v)) /\ InOrder(a, One(v))
      <3>1. v \in Int
        BY TreeAssumption DEF TreeAssumption
      <3> QED
        BY <1>1, <1>2, <3>1 DEF Sorted, InOrder, Upto
    <2> QED
      BY <1>2, <1>5, <2>1, SortedCat
  <1>7. InOrder(x, b)
    <2> SUFFICES ASSUME NEW i \in 1..Len(x), NEW j \in 1..Len(b) PROVE x[i] <= b[j]
      BY DEF InOrder
    <2>1. Place1(a, One(v), i)
      BY <1>2, CatPlaces
    <2>2. v \in Int /\ b[j] \in Int
      BY KeysAreNumbers, TreeAssumption DEF TreeAssumption
    <2> QED
      BY <1>1, <1>2, <1>5, <2>1, <2>2 DEF Place1, InOrder, Beyond
  <1>8. Sorted(Cat(x, b))
    BY <1>3, <1>5, <1>6, <1>7, SortedCat
  <1>9. Len(Cat(x, b)) = Len(s) + 1
    BY <1>1, <1>3, <1>4
  <1> QED
    BY <1>1, <1>4, <1>8, <1>9

\* Adding to the middle part.
LEMMA AddedBetween ==
  ASSUME NEW x \in Seq(Keys), NEW s \in Seq(Keys), NEW y \in Seq(Keys), NEW v \in Keys,
         Sorted(s), Upto(x, v), Beyond(y, v)
  PROVE  Added(Cat(Cat(x, s), y), v) = Cat(Cat(x, Added(s, v)), y)
  <1>1. PICK a \in Seq(Keys), b \in Seq(Keys) :
          s = Cat(a, b) /\ Upto(a, v) /\ Beyond(b, v) /\ Added(s, v) = Cat(Cat(a, One(v)), b)
    BY AddedSplits
  <1>2. PICK w : w = One(v) /\ w \in Seq(Keys)
    BY OneIs
  <1>3. /\ Cat(x, a) \in Seq(Keys) /\ Cat(b, y) \in Seq(Keys) /\ Cat(a, b) \in Seq(Keys)
        /\ Cat(a, w) \in Seq(Keys)
    BY <1>2, CatType
  <1>3a. Cat(Cat(a, w), b) \in Seq(Keys) /\ Cat(x, Cat(a, w)) \in Seq(Keys)
    BY <1>3, CatType
  <1>4. Cat(Cat(x, Cat(a, b)), y) = Cat(Cat(x, a), Cat(b, y))
    <2>1. Cat(x, Cat(a, b)) = Cat(Cat(x, a), b)
      BY CatAssoc
    <2>2. Cat(Cat(Cat(x, a), b), y) = Cat(Cat(x, a), Cat(b, y))
      BY <1>3, CatAssoc
    <2> QED
      BY <2>1, <2>2
  <1>5. Upto(Cat(x, a), v) /\ Beyond(Cat(b, y), v)
    BY <1>1, UptoCat, BeyondCat
  <1>6. Added(Cat(Cat(x, a), Cat(b, y)), v) = Cat(Cat(Cat(x, a), w), Cat(b, y))
    BY <1>2, <1>3, <1>5, AddedAt
  <1>7. Cat(Cat(x, Cat(Cat(a, w), b)), y) = Cat(Cat(Cat(x, a), w), Cat(b, y))
    <2>1. Cat(x, Cat(Cat(a, w), b)) = Cat(Cat(x, Cat(a, w)), b)
      BY <1>3, CatAssoc
    <2>2. Cat(x, Cat(a, w)) = Cat(Cat(x, a), w)
      BY <1>2, CatAssoc
    <2>3. Cat(Cat(Cat(x, Cat(a, w)), b), y) = Cat(Cat(x, Cat(a, w)), Cat(b, y))
      BY <1>3a, CatAssoc
    <2> QED
      BY <2>1, <2>2, <2>3
  <1> QED
    BY <1>1, <1>2, <1>4, <1>6, <1>7

\* The element at a place and what is around it.
LEMMA TakenOut ==
  ASSUME NEW S, NEW s \in Seq(S), NEW p \in 1..Len(s)
  PROVE  /\ SubSeq(s, 1, p - 1) \in Seq(S) /\ SubSeq(s, p + 1, Len(s)) \in Seq(S)
         /\ Len(SubSeq(s, 1, p - 1)) = p - 1 /\ Len(SubSeq(s, p + 1, Len(s))) = Len(s) - p
         /\ \A i \in 1..(p - 1) : SubSeq(s, 1, p - 1)[i] = s[i]
         /\ \A i \in 1..(Len(s) - p) : SubSeq(s, p + 1, Len(s))[i] = s[p + i]
         /\ s = Cat(Cat(SubSeq(s, 1, p - 1), One(s[p])), SubSeq(s, p + 1, Len(s)))
         /\ RemoveAt(s, p) = Cat(SubSeq(s, 1, p - 1), SubSeq(s, p + 1, Len(s)))
  <1>1. Len(s) \in Nat /\ s[p] \in S
    OBVIOUS
  <1> DEFINE a == SubSeq(s, 1, p - 1)
             b == SubSeq(s, p + 1, Len(s))
             w == One(s[p])
             q == p + 1
  <1>2. p \in 1..(Len(s) + 1) /\ q \in 1..(Len(s) + 1)
    BY <1>1
  <1>3. a \in Seq(S) /\ Len(a) = p - 1 /\ \A i \in 1..(p - 1) : a[i] = s[i]
    BY <1>2, CutAt
  <1>4. b \in Seq(S) /\ Len(b) = Len(s) + 1 - q
        /\ \A i \in 1..(Len(s) + 1 - q) : b[i] = s[q + i - 1]
    <2> HIDE DEF q
    <2>1. /\ SubSeq(s, q, Len(s)) \in Seq(S) /\ Len(SubSeq(s, q, Len(s))) = Len(s) + 1 - q
          /\ \A i \in 1..(Len(s) + 1 - q) : SubSeq(s, q, Len(s))[i] = s[q + i - 1]
      BY <1>2, CutAt
    <2> QED
      BY <2>1 DEF q
  <1>5. w \in Seq(S) /\ Len(w) = 1 /\ w[1] = s[p]
    BY <1>1, OneIs
  <1>6. RemoveAt(s, p) = Cat(a, b)
    BY Zenon DEF RemoveAt, Cat
  <1> HIDE DEF a, b, w
  <1>7. Len(b) = Len(s) - p /\ \A i \in 1..(Len(s) - p) : b[i] = s[p + i]
    <2>1. Len(s) + 1 - q = Len(s) - p
      BY <1>1
    <2>2. ASSUME NEW i \in 1..(Len(s) - p) PROVE b[i] = s[p + i]
      <3>1. q + i - 1 = p + i
        OBVIOUS
      <3> QED
        BY <1>4, <2>1, <2>2, <3>1
    <2> QED
      BY <1>4, <2>1, <2>2
  <1> HIDE DEF q
  <1> DEFINE x == Cat(a, w)
  <1>8. x \in Seq(S) /\ Len(x) = p
    <2>1. Cat(a, w) \in Seq(S) /\ Len(Cat(a, w)) = Len(a) + Len(w)
      BY <1>3, <1>5, CatType, Zenon
    <2> QED
      BY <1>3, <1>5, <2>1
  <1>9. \A i \in 1..p : x[i] = s[i]
    <2> SUFFICES ASSUME NEW i \in 1..p PROVE x[i] = s[i]
      OBVIOUS
    <2>1. i \in 1..Len(Cat(a, w))
      BY <1>8
    <2>2. Place1(a, w, i)
      BY <1>3, <1>5, <2>1, CatPlaces
    <2> QED
      BY <1>3, <1>5, <2>2 DEF Place1
  <1> HIDE DEF x
  <1>10. Cat(x, b) \in Seq(S) /\ Len(Cat(x, b)) = Len(s)
    <2>1. Cat(x, b) \in Seq(S) /\ Len(Cat(x, b)) = Len(x) + Len(b)
      BY <1>4, <1>8, CatType, Zenon
    <2> QED
      BY <1>1, <1>7, <1>8, <2>1
  <1>11. ASSUME NEW i \in 1..Len(s) PROVE s[i] = Cat(x, b)[i]
    <2>1. i \in 1..Len(Cat(x, b))
      BY <1>10
    <2>2. Place1(x, b, i)
      BY <1>4, <1>8, <2>1, CatPlaces
    <2> QED
      BY <1>7, <1>8, <1>9, <2>2 DEF Place1
  <1>12. s = Cat(x, b)
    BY <1>10, <1>11, SeqEqual
  <1> QED
    BY <1>3, <1>4, <1>6, <1>7, <1>12 DEF a, b, w, x

\* What RemoveAt leaves, element by element.
LEMMA RemoveAtIs ==
  ASSUME NEW S, NEW s \in Seq(S), NEW p \in 1..Len(s)
  PROVE  /\ RemoveAt(s, p) \in Seq(S) /\ Len(RemoveAt(s, p)) = Len(s) - 1
         /\ \A i \in 1..(p - 1) : RemoveAt(s, p)[i] = s[i]
         /\ \A i \in p..(Len(s) - 1) : RemoveAt(s, p)[i] = s[i + 1]
  <1> DEFINE a == SubSeq(s, 1, p - 1)
             b == SubSeq(s, p + 1, Len(s))
  <1>1. /\ a \in Seq(S) /\ b \in Seq(S) /\ Len(a) = p - 1 /\ Len(b) = Len(s) - p
        /\ \A i \in 1..(p - 1) : a[i] = s[i]
        /\ \A i \in 1..(Len(s) - p) : b[i] = s[p + i]
        /\ RemoveAt(s, p) = Cat(a, b)
    BY TakenOut
  <1> HIDE DEF a, b
  <1>2. Len(s) \in Nat /\ Cat(a, b) \in Seq(S) /\ Len(Cat(a, b)) = Len(a) + Len(b)
    <2>1. Len(s) \in Nat
      OBVIOUS
    <2>2. a \in Seq(S) /\ b \in Seq(S)
      BY <1>1
    <2>3. Cat(a, b) \in Seq(S) /\ Len(Cat(a, b)) = Len(a) + Len(b)
      BY ONLY <2>2, CatType
    <2> QED
      BY <2>1, <2>3
  <1>3. ASSUME NEW i \in 1..(p - 1) PROVE Cat(a, b)[i] = s[i]
    <2>1. i \in 1..Len(a)
      BY <1>1
    <2> QED
      BY <1>1, <2>1, CatFirst
  <1>4. ASSUME NEW i \in p..(Len(s) - 1) PROVE Cat(a, b)[i] = s[i + 1]
    <2> DEFINE j == i - (p - 1)
    <2>1. j \in 1..Len(b) /\ Len(a) + j = i /\ p + j = i + 1 /\ j \in 1..(Len(s) - p)
      BY <1>1, <1>2
    <2> HIDE DEF j
    <2>2. Cat(a, b)[Len(a) + j] = b[j]
      <3>1. a \in Seq(S) /\ b \in Seq(S) /\ j \in 1..Len(b)
        BY <1>1, <2>1
      <3> QED
        BY ONLY <3>1, CatSecond
    <2> QED
      BY <1>1, <2>1, <2>2
  <1> QED
    BY <1>1, <1>2, <1>3, <1>4

\* RemoveFirst removes the key at the first place that holds it.
LEMMA RemovedFirst ==
  ASSUME NEW s \in Seq(Keys), NEW v, \E i \in 1..Len(s) : s[i] = v
  PROVE  \E p \in 1..Len(s) : s[p] = v /\ RemoveFirst(s, v) = RemoveAt(s, p)
                              /\ \A i \in 1..(p - 1) : s[i] # v
  <1> DEFINE I == {i \in 1..Len(s) : s[i] = v}
             p == SelectInSeq(s, LAMBDA w : w = v)
  <1>1. p = Min(I)
    BY DEF SelectInSeq
  <1>2. RemoveFirst(s, v) = RemoveAt(s, p)
    BY DEF RemoveFirst
  <1> HIDE DEF p
  <1>3. I \in SUBSET Nat /\ I # {}
    OBVIOUS
  <1>4. \E i \in I : \A j \in I : i <= j
    <2> DEFINE B == {i \in Nat : i \notin I /\ \A j \in I : i < j}
    <2> HIDE DEF I
    <2> SUFFICES ASSUME ~\E i \in I : \A j \in I : i <= j PROVE FALSE
      OBVIOUS
    <2>1. 0 \in B
      <3>1. 0 \notin I
        BY DEF I
      <3> QED
        BY <1>3, <3>1
    <2>2. ASSUME NEW n \in Nat, n \in B PROVE n + 1 \in B
      <3>1. \A j \in I : n + 1 <= j
        BY <1>3, <2>2
      <3>2. n + 1 \notin I
        BY <3>1
      <3> QED
        BY <1>3, <3>1, <3>2
    <2>3. Nat \subseteq B
      <3> HIDE DEF B
      <3> QED
        BY <2>1, <2>2, SetInduction
    <2> QED
      BY <1>3, <2>3
  <1>5. p \in I /\ \A j \in I : p <= j
    BY <1>1, <1>4 DEF Min
  <1>6. p \in 1..Len(s) /\ s[p] = v /\ \A i \in 1..(p - 1) : s[i] # v
    BY <1>5
  <1> QED
    BY <1>2, <1>6

\* In a sequence in order it does not matter which of the equal keys is removed.
LEMMA RemovedAt ==
  ASSUME NEW s \in Seq(Keys), Sorted(s), NEW k \in 1..Len(s)
  PROVE  RemoveFirst(s, s[k]) = RemoveAt(s, k)
  <1>1. PICK p \in 1..Len(s) : /\ s[p] = s[k] /\ RemoveFirst(s, s[k]) = RemoveAt(s, p)
                               /\ \A i \in 1..(p - 1) : s[i] # s[k]
    BY RemovedFirst
  <1>2. Len(s) \in Nat /\ \A i \in 1..Len(s) : s[i] \in Int
    BY KeysAreNumbers
  <1> DEFINE x == RemoveAt(s, p)
             y == RemoveAt(s, k)
  <1>3. /\ x \in Seq(Keys) /\ Len(x) = Len(s) - 1
        /\ \A i \in 1..(p - 1) : x[i] = s[i]
        /\ \A i \in p..(Len(s) - 1) : x[i] = s[i + 1]
    BY RemoveAtIs
  <1>4. /\ y \in Seq(Keys) /\ Len(y) = Len(s) - 1
        /\ \A i \in 1..(k - 1) : y[i] = s[i]
        /\ \A i \in k..(Len(s) - 1) : y[i] = s[i + 1]
    BY RemoveAtIs
  <1> HIDE DEF x, y
  <1>5. p <= k
    BY <1>1
  <1>6. \A i \in p..k : s[i] = s[k]
    BY <1>1, <1>2, <1>5 DEF Sorted
  <1>7. ASSUME NEW i \in 1..Len(x) PROVE x[i] = y[i]
    <2>1. CASE i < p
      BY <1>2, <1>3, <1>4, <1>5, <2>1
    <2>2. CASE i >= p /\ i < k
      <3>1. x[i] = s[i + 1] /\ y[i] = s[i] /\ i \in p..k /\ i + 1 \in p..k
        BY <1>2, <1>3, <1>4, <2>2
      <3> QED
        BY <1>6, <3>1
    <2>3. CASE i >= k
      BY <1>2, <1>3, <1>4, <1>5, <2>3
    <2> QED
      BY <2>1, <2>2, <2>3
  <1>8. x = y
    BY <1>3, <1>4, <1>7, SeqEqual
  <1> QED
    BY <1>1, <1>8 DEF x, y

\* Removing a key from between two parts leaves the parts.
LEMMA RemovedParts ==
  ASSUME NEW a \in Seq(Keys), NEW b \in Seq(Keys), NEW v \in Keys,
         Sorted(Cat(Cat(a, One(v)), b))
  PROVE  RemoveFirst(Cat(Cat(a, One(v)), b), v) = Cat(a, b)
  <1> DEFINE w == One(v)
             x == Cat(a, w)
             s == Cat(x, b)
             k == Len(a) + 1
  <1>1. w \in Seq(Keys) /\ Len(w) = 1 /\ w[1] = v
    BY OneIs
  <1>2. x \in Seq(Keys) /\ Len(x) = k
    <2>1. x \in Seq(Keys) /\ Len(x) = Len(a) + Len(w)
      BY <1>1, CatType, Zenon
    <2> QED
      BY <1>1, <2>1
  <1>3. x[k] = v
    <2>1. 1 \in 1..Len(w)
      BY <1>1
    <2> HIDE DEF w
    <2>2. Cat(a, w)[Len(a) + 1] = w[1]
      BY ONLY a \in Seq(Keys), <1>1, <2>1, CatSecond
    <2> QED
      BY <1>1, <2>2
  <1>4. \A i \in 1..Len(a) : x[i] = a[i]
    BY <1>1, CatFirst
  <1> HIDE DEF x
  <1>5. s \in Seq(Keys) /\ Len(s) = k + Len(b)
    <2>1. s \in Seq(Keys) /\ Len(s) = Len(x) + Len(b)
      BY <1>2, CatType, Zenon
    <2> QED
      BY <1>2, <2>1
  <1>6. \A i \in 1..Len(x) : s[i] = x[i]
    BY <1>2, CatFirst
  <1>7. \A j \in 1..Len(b) : s[Len(x) + j] = b[j]
    BY <1>2, CatSecond
  <1>8. Sorted(s)
    BY DEF x
  <1> HIDE DEF s
  <1>9. Len(a) \in Nat /\ Len(b) \in Nat
    OBVIOUS
  <1>10. k \in 1..Len(s) /\ s[k] = v
    BY <1>2, <1>3, <1>5, <1>6, <1>9
  <1>11. RemoveFirst(s, v) = RemoveAt(s, k)
    <2> HIDE DEF k
    <2>1. RemoveFirst(s, s[k]) = RemoveAt(s, k)
      BY <1>5, <1>8, <1>10, RemovedAt
    <2> QED
      BY <1>10, <2>1
  <1> DEFINE y == RemoveAt(s, k)
             z == Cat(a, b)
  <1>12. /\ y \in Seq(Keys) /\ Len(y) = Len(s) - 1
         /\ \A i \in 1..(k - 1) : y[i] = s[i]
         /\ \A i \in k..(Len(s) - 1) : y[i] = s[i + 1]
    <2> HIDE DEF k
    <2> QED
      BY <1>5, <1>10, RemoveAtIs
  <1>13. z \in Seq(Keys) /\ Len(z) = Len(a) + Len(b)
    BY CatType, Zenon
  <1> HIDE DEF y
  <1>14. ASSUME NEW i \in 1..Len(z) PROVE y[i] = z[i]
    <2>1. Place1(a, b, i)
      BY CatPlaces
    <2>2. CASE i \in 1..Len(a) /\ z[i] = a[i]
      <3>1. i \in 1..(k - 1) /\ i \in 1..Len(x)
        BY <1>2, <1>9, <2>2
      <3> QED
        BY <1>4, <1>6, <1>12, <2>2, <3>1
    <2>3. ASSUME NEW j \in 1..Len(b), i = Len(a) + j, z[i] = b[j] PROVE y[i] = z[i]
      <3>1. i \in k..(Len(s) - 1) /\ i + 1 = Len(x) + j
        BY <1>2, <1>5, <1>9, <2>3
      <3> QED
        BY <1>7, <1>12, <2>3, <3>1
    <2> QED
      BY <2>1, <2>2, <2>3 DEF Place1
  <1>15. y = z
    <2>1. Len(y) = Len(z)
      BY <1>5, <1>9, <1>12, <1>13
    <2>2. \A i \in 1..Len(y) : y[i] = z[i]
      BY <1>14, <2>1
    <2> HIDE DEF z
    <2> QED
      BY <1>12, <1>13, <2>1, <2>2, SeqEqual
  <1> QED
    BY <1>11, <1>15 DEF y, s, x

\* Removing from the middle part.
LEMMA RemovedBetween ==
  ASSUME NEW x \in Seq(Keys), NEW s \in Seq(Keys), NEW y \in Seq(Keys), NEW v \in Keys,
         Sorted(Cat(Cat(x, s), y)), \E i \in 1..Len(s) : s[i] = v
  PROVE  /\ RemoveFirst(Cat(Cat(x, s), y), v) = Cat(Cat(x, RemoveFirst(s, v)), y)
         /\ RemoveFirst(s, v) \in Seq(Keys) /\ Len(RemoveFirst(s, v)) = Len(s) - 1
  <1>1. PICK p \in 1..Len(s) : s[p] = v /\ RemoveFirst(s, v) = RemoveAt(s, p)
    BY RemovedFirst
  <1>2. PICK a \in Seq(Keys), b \in Seq(Keys) :
          s = Cat(Cat(a, One(v)), b) /\ RemoveAt(s, p) = Cat(a, b)
    <2> DEFINE a == SubSeq(s, 1, p - 1)
               b == SubSeq(s, p + 1, Len(s))
    <2>1. /\ a \in Seq(Keys) /\ b \in Seq(Keys)
          /\ s = Cat(Cat(a, One(s[p])), b) /\ RemoveAt(s, p) = Cat(a, b)
      BY TakenOut
    <2> HIDE DEF a, b
    <2> QED
      BY <1>1, <2>1
  <1>2a. RemoveAt(s, p) \in Seq(Keys) /\ Len(RemoveAt(s, p)) = Len(s) - 1
    BY RemoveAtIs
  <1>3. PICK w : w = One(v) /\ w \in Seq(Keys)
    BY OneIs
  <1>4. Cat(x, a) \in Seq(Keys) /\ Cat(b, y) \in Seq(Keys) /\ Cat(a, w) \in Seq(Keys)
    BY <1>3, CatType
  <1>4a. Cat(x, Cat(a, w)) \in Seq(Keys)
    BY <1>4, CatType
  <1>5. Cat(Cat(x, Cat(Cat(a, w), b)), y) = Cat(Cat(Cat(x, a), w), Cat(b, y))
    <2>1. Cat(x, Cat(Cat(a, w), b)) = Cat(Cat(x, Cat(a, w)), b)
      BY <1>4, CatAssoc
    <2>2. Cat(x, Cat(a, w)) = Cat(Cat(x, a), w)
      BY <1>3, CatAssoc
    <2>3. Cat(Cat(Cat(x, Cat(a, w)), b), y) = Cat(Cat(x, Cat(a, w)), Cat(b, y))
      BY <1>4a, CatAssoc
    <2> QED
      BY <2>1, <2>2, <2>3
  <1>6. RemoveFirst(Cat(Cat(Cat(x, a), One(v)), Cat(b, y)), v) = Cat(Cat(x, a), Cat(b, y))
    <2>1. Sorted(Cat(Cat(Cat(x, a), One(v)), Cat(b, y)))
      BY <1>2, <1>3, <1>5
    <2> QED
      BY <1>4, <2>1, RemovedParts
  <1>7. Cat(Cat(x, Cat(a, b)), y) = Cat(Cat(x, a), Cat(b, y))
    <2>1. Cat(x, Cat(a, b)) = Cat(Cat(x, a), b)
      BY CatAssoc
    <2>2. Cat(Cat(Cat(x, a), b), y) = Cat(Cat(x, a), Cat(b, y))
      BY <1>4, CatAssoc
    <2> QED
      BY <2>1, <2>2
  <1>8. RemoveFirst(Cat(Cat(x, s), y), v) = Cat(Cat(x, Cat(a, b)), y)
    BY <1>2, <1>3, <1>5, <1>6, <1>7
  <1> QED
    BY <1>1, <1>2, <1>2a, <1>8

(***************************************************************************)
(* Sequences of sequences, one behind the other.                           *)
(***************************************************************************)

\* f is defined step by step, from base, up to top.
Steps(S) == [Nat -> [S -> S]]

DefinedBy(f, S, base, step, top) ==
    /\ f \in [0..top -> S]
    /\ f[0] = base
    /\ \A n \in 1..top : f[n] = step[n][f[n - 1]]

\* A function that is defined step by step exists.
LEMMA StepByStep ==
  ASSUME NEW S, NEW base \in S, NEW step \in Steps(S), NEW N \in Nat
  PROVE  \E f : DefinedBy(f, S, base, step, N)
  <1> DEFINE Good(f, top) == f[0] = base /\ \A n \in 1..top : f[n] = step[n][f[n - 1]]
             T == {top \in Nat : \E f \in [0..top -> S] : Good(f, top)}
  <1>1. 0 \in T
    <2> DEFINE f == [n \in 0..0 |-> base]
    <2>1. f \in [0..0 -> S] /\ Good(f, 0)
      OBVIOUS
    <2> QED
      BY <2>1
  <1>2. ASSUME NEW top \in Nat, top \in T PROVE top + 1 \in T
    <2>1. PICK f \in [0..top -> S] : Good(f, top)
      BY <1>2
    <2> DEFINE g == [n \in 0..(top + 1) |-> IF n <= top THEN f[n] ELSE step[top + 1][f[top]]]
    <2>2. f[top] \in S /\ top + 1 \in Nat /\ step[top + 1] \in [S -> S]
      BY DEF Steps
    <2>3. step[top + 1][f[top]] \in S
      BY <2>2
    <2>4. g \in [0..(top + 1) -> S]
      BY <2>3
    <2>5. g[0] = base
      BY <2>1
    <2>6. ASSUME NEW n \in 1..(top + 1) PROVE g[n] = step[n][g[n - 1]]
      <3>1. CASE n <= top
        BY <2>1, <3>1
      <3>2. CASE n = top + 1
        <4>1. n - 1 = top /\ g[n - 1] = f[top] /\ g[n] = step[top + 1][f[top]]
          BY <3>2
        <4> QED
          BY <3>2, <4>1
      <3> QED
        BY <3>1, <3>2
    <2> HIDE DEF g
    <2> QED
      BY <2>4, <2>5, <2>6
  <1>3. Nat \subseteq T
    <2> HIDE DEF T
    <2> QED
      BY <1>1, <1>2, SetInduction
  <1>4. \E f \in [0..N -> S] : Good(f, N)
    BY <1>3
  <1> QED
    BY <1>4 DEF DefinedBy

Flat(ss) == FlattenSeq(ss)

\* f[n] are the first n sequences of ss, one behind the other.
Spread(f, S, ss) ==
    /\ f \in [0..Len(ss) -> Seq(S)]
    /\ f[0] = <<>>
    /\ \A n \in 1..Len(ss) : f[n] = Cat(f[n - 1], ss[n])

AreFlat(f, ss) ==
    f = [i \in 1..Len(ss) |-> IF i = 1 THEN ss[i] ELSE f[i - 1] \o ss[i]]

\* FlattenSeq appends one sequence after the other.
LEMMA FlatIs ==
  ASSUME NEW S, NEW ss \in Seq(Seq(S))
  PROVE  \E f : Spread(f, S, ss) /\ Flat(ss) = f[Len(ss)]
  <1> DEFINE L == Len(ss)
             T == Seq(S)
             at(n) == IF n \in 1..L THEN ss[n] ELSE <<>>
             step == [n \in Nat |-> [s \in T |-> Cat(s, at(n))]]
  <1>1. L \in Nat /\ <<>> \in T /\ \A n \in 1..L : ss[n] \in T
    BY EmptySeq
  <1>2. \A n \in Nat : at(n) \in T
    BY <1>1
  <1>3. step \in Steps(T)
    <2> HIDE DEF at
    <2>1. \A n \in Nat, s \in T : Cat(s, at(n)) \in T
      BY <1>2, CatType
    <2> HIDE DEF T
    <2> QED
      BY <2>1 DEF Steps
  <1> HIDE DEF step
  <1>4. PICK f : DefinedBy(f, T, <<>>, step, L)
    <2> HIDE DEF T, L
    <2> QED
      BY <1>1, <1>3, StepByStep
  <1>5. f \in [0..L -> T] /\ f[0] = <<>> /\ \A n \in 1..L : f[n] = step[n][f[n - 1]]
    BY <1>4 DEF DefinedBy
  <1>6. ASSUME NEW n \in 1..L PROVE f[n] = Cat(f[n - 1], ss[n])
    <2>1. f[n - 1] \in T /\ n \in Nat
      BY <1>5, <1>1
    <2> HIDE DEF T
    <2>2. step[n][f[n - 1]] = Cat(f[n - 1], ss[n])
      BY <2>1 DEF step
    <2> QED
      BY <1>5, <2>2
  <1>7. Spread(f, S, ss)
    BY <1>5, <1>6 DEF Spread
  <1>8. CASE L = 0
    <2>1. ss = <<>>
      BY <1>8, EmptySeq
    <2>2. Flat(ss) = <<>>
      BY <1>8, <2>1 DEF Flat, FlattenSeq
    <2> QED
      BY <1>5, <1>7, <1>8, <2>2
  <1>9. CASE L # 0
    <2> DEFINE g == [n \in 1..L |-> f[n]]
    <2>1. f[1] = ss[1]
      <3>1. 1 \in 1..L /\ f[1 - 1] = <<>>
        BY <1>1, <1>5, <1>9
      <3>2. f[1] = Cat(f[1 - 1], ss[1])
        BY <1>6, <3>1
      <3>3. ss[1] \in Seq(S)
        BY <1>1, <3>1
      <3>4. Cat(<<>>, ss[1]) = ss[1]
        BY <3>3, CatNil
      <3> QED
        BY <3>1, <3>2, <3>4
    <2>2. \A n \in 1..L : n # 1 => f[n] = f[n - 1] \o ss[n]
      BY <1>6, Zenon DEF Cat
    <2>3. \A n \in 1..L : n # 1 => n - 1 \in 1..L
      BY <1>1
    <2>4. \A n \in 1..L : g[n] = IF n = 1 THEN ss[n] ELSE g[n - 1] \o ss[n]
      BY <2>1, <2>2, <2>3, Zenon
    <2>5. g = [n \in 1..L |-> g[n]]
      OBVIOUS
    <2> HIDE DEF g
    <2>6. AreFlat(g, ss)
      BY <2>4, <2>5, Zenon DEF AreFlat
    <2> DEFINE flatten[i \in 1..Len(ss)] == IF i = 1 THEN ss[i] ELSE flatten[i - 1] \o ss[i]
    <2>7. AreFlat(flatten, ss)
      BY <2>6, Zenon DEF flatten, AreFlat
    <2>8. Flat(ss) = flatten[L]
      BY <1>9, Zenon DEF Flat, FlattenSeq, flatten
    <2> HIDE DEF flatten
    <2>9. \A n \in 1..L : flatten[n] = IF n = 1 THEN ss[n] ELSE flatten[n - 1] \o ss[n]
      BY <2>7, Zenon DEF AreFlat
    <2>9a. \A n \in 1..L : flatten[n] = IF n = 1 THEN ss[n] ELSE Cat(flatten[n - 1], ss[n])
      BY <2>9, Zenon DEF Cat
    <2> DEFINE Same == {n \in Nat : n + 1 \in 1..L => flatten[n + 1] = f[n + 1]}
    <2>10. 0 \in Same
      BY <2>1, <2>9a
    <2>11. ASSUME NEW n \in Nat, n \in Same PROVE n + 1 \in Same
      <3> SUFFICES ASSUME n + 1 + 1 \in 1..L PROVE flatten[n + 1 + 1] = f[n + 1 + 1]
        OBVIOUS
      <3>1. n + 1 \in 1..L /\ (n + 1 + 1) - 1 = n + 1 /\ n + 1 + 1 # 1
        BY <1>1
      <3>2. flatten[n + 1] = f[n + 1]
        BY <2>11, <3>1
      <3>3. flatten[n + 1 + 1] = Cat(flatten[n + 1], ss[n + 1 + 1])
        BY <2>9a, <3>1
      <3>4. f[n + 1 + 1] = Cat(f[n + 1], ss[n + 1 + 1])
        BY <1>6, <3>1
      <3> QED
        BY <3>2, <3>3, <3>4
    <2>12. Nat \subseteq Same
      <3> HIDE DEF Same
      <3> QED
        BY <2>10, <2>11, SetInduction
    <2>13. flatten[L] = f[L]
      <3>1. L - 1 \in Nat /\ (L - 1) + 1 = L /\ L \in 1..L
        BY <1>1, <1>9
      <3> QED
        BY <2>12, <3>1
    <2> QED
      BY <1>7, <2>8, <2>13
  <1> QED
    BY <1>8, <1>9

\* Flattening sequences over a set gives a sequence over it.
LEMMA FlatType ==
  ASSUME NEW S, NEW ss \in Seq(Seq(S))
  PROVE  Flat(ss) \in Seq(S)
  <1>1. PICK f : Spread(f, S, ss) /\ Flat(ss) = f[Len(ss)]
    BY FlatIs
  <1>2. Len(ss) \in 0..Len(ss)
    OBVIOUS
  <1> QED
    BY <1>1, <1>2 DEF Spread

\* Flattening nothing gives nothing.
LEMMA FlatNil == Flat(<<>>) = <<>>
  BY DEF Flat, FlattenSeq

\* Flattening one sequence gives that sequence.
LEMMA FlatOne ==
  ASSUME NEW S, NEW s \in Seq(S)
  PROVE  Flat(One(s)) = s
  <1>1. One(s) \in Seq(Seq(S)) /\ Len(One(s)) = 1 /\ One(s)[1] = s
    BY OneIs
  <1>2. PICK f : Spread(f, S, One(s)) /\ Flat(One(s)) = f[Len(One(s))]
    BY <1>1, FlatIs
  <1>3. f[1] = Cat(f[0], s) /\ f[0] = <<>>
    BY <1>1, <1>2 DEF Spread
  <1>4. Cat(<<>>, s) = s
    BY CatNil
  <1> QED
    BY <1>1, <1>2, <1>3, <1>4

\* Flattening a concatenation concatenates the flattened parts.
LEMMA FlatCat ==
  ASSUME NEW S, NEW x \in Seq(Seq(S)), NEW y \in Seq(Seq(S))
  PROVE  Flat(Cat(x, y)) = Cat(Flat(x), Flat(y))
  <1> DEFINE z == Cat(x, y)
             m == Len(x)
             n == Len(y)
  <1>0. m \in Nat /\ n \in Nat
    OBVIOUS
  <1>1. z \in Seq(Seq(S)) /\ Len(z) = m + n
    BY CatType, Zenon
  <1>2. \A i \in 1..m : z[i] = x[i]
    BY CatFirst
  <1>3. \A j \in 1..n : z[m + j] = y[j]
    BY CatSecond
  <1> HIDE DEF z
  <1>4. PICK f : Spread(f, S, x) /\ Flat(x) = f[m]
    BY FlatIs
  <1>5. PICK h : Spread(h, S, y) /\ Flat(y) = h[n]
    BY FlatIs
  <1>6. PICK g : Spread(g, S, z) /\ Flat(z) = g[Len(z)]
    BY <1>1, FlatIs
  <1>7. /\ f[0] = <<>> /\ \A i \in 1..m : f[i] = Cat(f[i - 1], x[i])
        /\ \A i \in 0..m : f[i] \in Seq(S)
    BY <1>4 DEF Spread
  <1>8. /\ h[0] = <<>> /\ \A i \in 1..n : h[i] = Cat(h[i - 1], y[i])
        /\ \A i \in 0..n : h[i] \in Seq(S)
    BY <1>5 DEF Spread
  <1>9. g[0] = <<>> /\ \A i \in 1..(m + n) : g[i] = Cat(g[i - 1], z[i])
    BY <1>1, <1>6 DEF Spread
  <1>10. g[m] = f[m]
    <2> DEFINE A == {i \in Nat : i <= m => g[i] = f[i]}
    <2>1. 0 \in A
      BY <1>7, <1>9
    <2>2. ASSUME NEW i \in Nat, i \in A PROVE i + 1 \in A
      <3> SUFFICES ASSUME i + 1 <= m PROVE g[i + 1] = f[i + 1]
        OBVIOUS
      <3>1. i + 1 \in 1..m /\ i + 1 \in 1..(m + n) /\ (i + 1) - 1 = i /\ i <= m
        BY <1>0
      <3>2. f[i + 1] = Cat(f[i], x[i + 1]) /\ g[i + 1] = Cat(g[i], z[i + 1])
        BY <1>7, <1>9, <3>1
      <3> QED
        BY <1>2, <2>2, <3>1, <3>2
    <2>3. Nat \subseteq A
      <3> HIDE DEF A
      <3> QED
        BY <2>1, <2>2, SetInduction
    <2> QED
      BY <1>0, <2>3
  <1> DEFINE B == {i \in Nat : i <= n => g[m + i] = Cat(f[m], h[i])}
  <1>11. 0 \in B
    <2>1. f[m] \in Seq(S)
      BY <1>0, <1>7
    <2>2. Cat(f[m], <<>>) = f[m]
      BY <2>1, CatNil
    <2>3. m + 0 = m
      BY <1>0
    <2> QED
      BY <1>8, <1>10, <2>2, <2>3
  <1>12. ASSUME NEW i \in Nat, i \in B PROVE i + 1 \in B
    <2> SUFFICES ASSUME i + 1 <= n PROVE g[m + (i + 1)] = Cat(f[m], h[i + 1])
      OBVIOUS
    <2>1. /\ i + 1 \in 1..n /\ m + (i + 1) \in 1..(m + n) /\ (m + (i + 1)) - 1 = m + i /\ i <= n
          /\ (i + 1) - 1 = i /\ i \in 0..n /\ m \in 0..m
      BY <1>0
    <2>2. g[m + (i + 1)] = Cat(g[m + i], y[i + 1])
      BY <1>3, <1>9, <2>1
    <2>3. g[m + i] = Cat(f[m], h[i])
      BY <1>12, <2>1
    <2>4. h[i + 1] = Cat(h[i], y[i + 1])
      BY <1>8, <2>1
    <2>5. f[m] \in Seq(S) /\ h[i] \in Seq(S) /\ y[i + 1] \in Seq(S)
      BY <1>7, <1>8, <2>1
    <2>6. Cat(Cat(f[m], h[i]), y[i + 1]) = Cat(f[m], Cat(h[i], y[i + 1]))
      BY ONLY <2>5, CatAssoc
    <2> QED
      BY <2>2, <2>3, <2>4, <2>6
  <1>13. Nat \subseteq B
    <2> HIDE DEF B
    <2> QED
      BY <1>11, <1>12, SetInduction
  <1>14. g[m + n] = Cat(f[m], h[n])
    BY <1>0, <1>13
  <1> QED
    BY <1>1, <1>4, <1>5, <1>6, <1>14 DEF z

\* The sequence is at least as long as there are parts, if none of them is empty.
LEMMA FlatLong ==
  ASSUME NEW S, NEW ss \in Seq(Seq(S)), \A i \in 1..Len(ss) : ss[i] # <<>>
  PROVE  Len(Flat(ss)) \in Nat /\ Len(Flat(ss)) >= Len(ss)
  <1>1. PICK f : Spread(f, S, ss) /\ Flat(ss) = f[Len(ss)]
    BY FlatIs
  <1>2. /\ f[0] = <<>> /\ \A i \in 1..Len(ss) : f[i] = Cat(f[i - 1], ss[i])
        /\ \A i \in 0..Len(ss) : f[i] \in Seq(S)
    BY <1>1 DEF Spread
  <1>3. Len(ss) \in Nat
    OBVIOUS
  <1> DEFINE A == {i \in Nat : i <= Len(ss) => Len(f[i]) >= i}
  <1>4. 0 \in A
    BY <1>2
  <1>5. ASSUME NEW i \in Nat, i \in A PROVE i + 1 \in A
    <2> SUFFICES ASSUME i + 1 <= Len(ss) PROVE Len(f[i + 1]) >= i + 1
      OBVIOUS
    <2>1. i + 1 \in 1..Len(ss) /\ (i + 1) - 1 = i /\ i \in 0..Len(ss)
      BY <1>3
    <2>2. f[i] \in Seq(S) /\ ss[i + 1] \in Seq(S) /\ ss[i + 1] # <<>> /\ f[i + 1] = Cat(f[i], ss[i + 1])
      BY <1>2, <2>1
    <2>3. Len(Cat(f[i], ss[i + 1])) = Len(f[i]) + Len(ss[i + 1])
      BY ONLY <2>2, CatType
    <2>4. Len(ss[i + 1]) >= 1 /\ Len(ss[i + 1]) \in Nat /\ Len(f[i]) \in Nat
      BY ONLY <2>2, EmptySeq, LenProperties
    <2>5. Len(f[i + 1]) = Len(f[i]) + Len(ss[i + 1])
      BY <2>2, <2>3
    <2>6. Len(f[i]) >= i
      BY <1>5, <2>1
    <2>7. \A p, q, k \in Nat : p >= k /\ q >= 1 => p + q >= k + 1
      OBVIOUS
    <2>8. Len(f[i]) + Len(ss[i + 1]) >= i + 1
      BY ONLY <2>4, <2>6, <2>7, i \in Nat
    <2> QED
      BY <2>5, <2>8, Zenon
  <1>6. Nat \subseteq A
    <2> HIDE DEF A
    <2> QED
      BY <1>4, <1>5, SetInduction
  <1>7. Len(f[Len(ss)]) >= Len(ss) /\ f[Len(ss)] \in Seq(S)
    BY <1>2, <1>3, <1>6
  <1> QED
    BY <1>1, <1>7

\* The parts of a flattened sequence in turn.
LEMMA FlatFirst ==
  ASSUME NEW S, NEW ss \in Seq(Seq(S)), ss # <<>>
  PROVE  /\ Head(ss) \in Seq(S) /\ Tail(ss) \in Seq(Seq(S))
         /\ Flat(ss) = Cat(Head(ss), Flat(Tail(ss)))
  <1> DEFINE h == Head(ss)
             t == Tail(ss)
             o == One(h)
  <1>1. h \in Seq(S) /\ t \in Seq(Seq(S)) /\ ss = Cat(o, t)
    BY FirstOff
  <1> HIDE DEF h, t
  <1>2. o \in Seq(Seq(S))
    BY <1>1, OneIs
  <1>3. Flat(o) = h
    BY <1>1, FlatOne
  <1> HIDE DEF o
  <1>4. Flat(Cat(o, t)) = Cat(Flat(o), Flat(t))
    BY <1>1, <1>2, FlatCat
  <1> QED
    BY <1>1, <1>3, <1>4 DEF h, t

-----------------------------------------------------------------------------
(***************************************************************************)
(* Nodes, and the functions that the model defines on them by recursion:   *)
(* each has its equation, as trees are finite.                             *)
(***************************************************************************)

(***************************************************************************)
(* The nodes, level by level.                                              *)
(***************************************************************************)

Levels == 0..(MaxKeys + 1)

\* The nodes with children among T.
Over(T) == {n \in [keys : Seq(Keys), kids : Seq(T)] : IsLeaf(n) \/ Len(n.kids) = Len(n.keys) + 1}

AreTrees(t, top) == t = [d \in 0..top |-> IF d = 0 THEN {} ELSE Over(t[d - 1])]

\* The function of the trees by levels exists, up to any level.
LEMMA TreesExist == \A top \in Nat : \E t : AreTrees(t, top)
  <1> DEFINE S == {top \in Nat : \E t : AreTrees(t, top)}
  <1>1. 0 \in S
    <2> DEFINE t == [d \in 0..0 |-> {}]
    <2>1. \A d \in 0..0 : d = 0
      OBVIOUS
    <2>2. AreTrees(t, 0)
      BY <2>1 DEF AreTrees
    <2> HIDE DEF t
    <2> QED
      BY <2>2
  <1>2. ASSUME NEW top \in Nat, top \in S PROVE top + 1 \in S
    <2>1. PICK t : AreTrees(t, top)
      BY <1>2
    <2>2. \A d \in 0..top : t[d] = IF d = 0 THEN {} ELSE Over(t[d - 1])
      BY <2>1, Zenon DEF AreTrees
    <2> DEFINE w == [d \in 0..(top + 1) |-> IF d \in 0..top THEN t[d] ELSE Over(t[d - 1])]
    <2>3. ASSUME NEW d \in 0..(top + 1) PROVE w[d] = IF d = 0 THEN {} ELSE Over(w[d - 1])
      <3>1. d = 0 \/ (d - 1 \in 0..top /\ d - 1 \in 0..(top + 1) /\ d # 0)
        OBVIOUS
      <3>2. d = 0 \/ w[d - 1] = t[d - 1]
        BY <3>1
      <3>3. w[d] = IF d = 0 THEN {} ELSE Over(t[d - 1])
        BY <2>2
      <3> HIDE DEF w
      <3> QED
        BY <3>2, <3>3
    <2>4. w = [d \in 0..(top + 1) |-> w[d]]
      OBVIOUS
    <2> HIDE DEF w
    <2>5. AreTrees(w, top + 1)
      BY <2>3, <2>4, Zenon DEF AreTrees
    <2> QED
      BY <2>5
  <1>3. Nat \subseteq S
    <2> HIDE DEF S
    <2> QED
      BY <1>1, <1>2, SetInduction
  <1> QED
    BY <1>3

\* The bound is a number and keys are integers.
LEMMA BoundIsNat == MaxKeys \in Nat /\ Keys \subseteq Int
  BY TreeAssumption DEF TreeAssumption

\* The trees of a level have children of the level below.
LEMMA TreesAre ==
  /\ Trees[0] = {}
  /\ \A d \in 1..(MaxKeys + 1) : Trees[d] = Over(Trees[d - 1])
  <1>1. PICK t : AreTrees(t, MaxKeys + 1)
    BY TreesExist, BoundIsNat
  <1>2. AreTrees(Trees, MaxKeys + 1)
    BY <1>1, Zenon DEF Trees, AreTrees, Over
  <1>3. \A d \in 0..(MaxKeys + 1) : Trees[d] = IF d = 0 THEN {} ELSE Over(Trees[d - 1])
    BY <1>2, Zenon DEF AreTrees
  <1>4. 0 \in 0..(MaxKeys + 1) /\ \A d \in 1..(MaxKeys + 1) : d \in 0..(MaxKeys + 1) /\ d # 0
    BY BoundIsNat
  <1> QED
    BY <1>3, <1>4, Zenon

\* What is known of a node.
LEMMA OverIs ==
  ASSUME NEW T, NEW n \in Over(T)
  PROVE  /\ n.keys \in Seq(Keys) /\ n.kids \in Seq(T) /\ n = Node(n.keys, n.kids)
         /\ IsLeaf(n) <=> Len(n.kids) = 0
         /\ ~IsLeaf(n) => Len(n.kids) = Len(n.keys) + 1
         /\ \A i \in 1..Len(n.kids) : n.kids[i] \in T
  <1>1. n \in [keys : Seq(Keys), kids : Seq(T)] /\ (IsLeaf(n) \/ Len(n.kids) = Len(n.keys) + 1)
    BY DEF Over
  <1>2. n.keys \in Seq(Keys) /\ n.kids \in Seq(T) /\ n = Node(n.keys, n.kids)
    BY <1>1 DEF Node
  <1>3. n.kids = <<>> <=> Len(n.kids) = 0
    BY <1>2, EmptySeq
  <1>4. \A i \in 1..Len(n.kids) : n.kids[i] \in T
    BY <1>2
  <1> QED
    BY <1>1, <1>2, <1>3, <1>4 DEF IsLeaf

\* A node with the right number of children among T is one over T.
LEMMA OverHas ==
  ASSUME NEW T, NEW keys \in Seq(Keys), NEW kids \in Seq(T),
         kids = <<>> \/ Len(kids) = Len(keys) + 1
  PROVE  Node(keys, kids) \in Over(T)
  BY DEF Over, Node, IsLeaf

\* More children allow more nodes.
LEMMA OverGrows ==
  ASSUME NEW T, NEW U, T \subseteq U
  PROVE  Over(T) \subseteq Over(U)
  <1> SUFFICES ASSUME NEW n \in Over(T) PROVE n \in Over(U)
    OBVIOUS
  <1>1. n \in [keys : Seq(Keys), kids : Seq(T)] /\ (IsLeaf(n) \/ Len(n.kids) = Len(n.keys) + 1)
    BY DEF Over
  <1>2. n.kids \in Seq(U)
    BY <1>1, SeqMonotonic
  <1>3. n \in [keys : Seq(Keys), kids : Seq(U)]
    BY <1>1, <1>2
  <1> QED
    BY <1>1, <1>3 DEF Over

\* A tree of d levels is one of at most d + 1 levels.
LEMMA TreesGrow == \A d \in 0..MaxKeys : Trees[d] \subseteq Trees[d + 1]
  <1> DEFINE S == {d \in Nat : d <= MaxKeys => Trees[d] \subseteq Trees[d + 1]}
  <1>1. 0 \in S
    BY TreesAre
  <1>2. ASSUME NEW d \in Nat, d \in S PROVE d + 1 \in S
    <2> SUFFICES ASSUME d + 1 <= MaxKeys PROVE Trees[d + 1] \subseteq Trees[(d + 1) + 1]
      OBVIOUS
    <2>1. /\ d + 1 \in 1..(MaxKeys + 1) /\ (d + 1) + 1 \in 1..(MaxKeys + 1) /\ d <= MaxKeys
          /\ (d + 1) - 1 = d /\ ((d + 1) + 1) - 1 = d + 1
      BY BoundIsNat
    <2>2. Trees[d] \subseteq Trees[d + 1]
      BY <1>2, <2>1
    <2>3. Trees[d + 1] = Over(Trees[d]) /\ Trees[(d + 1) + 1] = Over(Trees[d + 1])
      BY <2>1, TreesAre
    <2>4. Over(Trees[d]) \subseteq Over(Trees[d + 1])
      BY ONLY <2>2, OverGrows
    <2> QED
      BY <2>3, <2>4
  <1>3. Nat \subseteq S
    <2> HIDE DEF S
    <2> QED
      BY <1>1, <1>2, SetInduction
  <1> QED
    BY <1>3, BoundIsNat

\* The nodes are those over the trees of all levels but the top one.
LEMMA NodesAre ==
  /\ Nodes = Over(Trees[MaxKeys])
  /\ \A d \in Levels : Trees[d] \subseteq Nodes
  <1>1. MaxKeys + 1 \in 1..(MaxKeys + 1) /\ (MaxKeys + 1) - 1 = MaxKeys
    BY BoundIsNat
  <1>2. Nodes = Over(Trees[MaxKeys])
    BY <1>1, TreesAre DEF Nodes
  <1> DEFINE top == MaxKeys + 1
             S == {k \in Nat : k <= top => Trees[top - k] \subseteq Nodes}
  <1>3. 0 \in S
    <2>1. top - 0 = top
      BY BoundIsNat
    <2> QED
      BY <2>1 DEF Nodes
  <1>4. ASSUME NEW k \in Nat, k \in S PROVE k + 1 \in S
    <2> SUFFICES ASSUME k + 1 <= top PROVE Trees[top - (k + 1)] \subseteq Nodes
      OBVIOUS
    <2>1. top - (k + 1) \in 0..MaxKeys /\ (top - (k + 1)) + 1 = top - k /\ k <= top
      BY BoundIsNat
    <2>2. Trees[top - (k + 1)] \subseteq Trees[(top - (k + 1)) + 1]
      BY <2>1, TreesGrow
    <2> QED
      BY <1>4, <2>1, <2>2
  <1>5. Nat \subseteq S
    <2> HIDE DEF S
    <2> QED
      BY <1>3, <1>4, SetInduction
  <1>6. ASSUME NEW d \in Levels PROVE Trees[d] \subseteq Nodes
    <2>1. top - d \in Nat /\ top - d <= top /\ top - (top - d) = d
      BY BoundIsNat DEF Levels
    <2> QED
      BY <1>5, <2>1
  <1> QED
    BY <1>2, <1>6

\* A node of a level above 0 and its children.
LEMMA TreeIs ==
  ASSUME NEW d \in 0..MaxKeys, NEW n \in Trees[d + 1]
  PROVE  /\ n \in Over(Trees[d]) /\ n \in Nodes
         /\ \A i \in 1..Len(n.kids) : n.kids[i] \in Trees[d]
  <1>1. d + 1 \in 1..(MaxKeys + 1) /\ (d + 1) - 1 = d /\ d + 1 \in Levels
    BY BoundIsNat DEF Levels
  <1>2. n \in Over(Trees[d])
    BY <1>1, TreesAre
  <1>3. n \in Nodes
    BY <1>1, NodesAre
  <1> QED
    BY <1>2, <1>3, OverIs

\* What is known of a node: its entries are keys and nodes.
LEMMA NodeIs ==
  ASSUME NEW n \in Nodes
  PROVE  /\ n.keys \in Seq(Keys) /\ n.kids \in Seq(Nodes) /\ n = Node(n.keys, n.kids)
         /\ IsLeaf(n) <=> Len(n.kids) = 0
         /\ ~IsLeaf(n) => Len(n.kids) = Len(n.keys) + 1
         /\ \A i \in 1..Len(n.kids) : n.kids[i] \in Nodes
  <1>1. MaxKeys \in Levels
    BY BoundIsNat DEF Levels
  <1>2. n \in Over(Nodes)
    BY <1>1, NodesAre, OverGrows
  <1> QED
    BY <1>2, OverIs

\* findChild and getIndex lead to a child.
LEMMA ChildIsFound ==
  ASSUME NEW n \in Parents, NEW v \in Int
  PROVE  findChild(n, v) \in 1..Len(n.kids) /\ getIndex(n, v) \in 1..Len(n.kids)
  <1>1. n.keys \in Seq(Keys) /\ Len(n.kids) = Len(n.keys) + 1
    BY NodeIs DEF Parents
  <1>2. Len(n.keys) \in Nat
    BY <1>1
  <1>3. findChild(n, v) \in 1..Len(n.kids)
    <2>1. findChild(n, v) = Len(n.kids) \/ findChild(n, v) \in 1..Len(n.keys)
      BY <1>1, FirstLargerIs DEF findChild
    <2> QED
      BY <1>1, <1>2, <2>1
  <1>4. getIndex(n, v) \in 1..Len(n.kids)
    <2> DEFINE none == IF n.keys = <<>> THEN 1 ELSE Len(n.keys)
    <2>1. getIndex(n, v) = none \/ getIndex(n, v) \in 1..Len(n.keys)
      <3> HIDE DEF none
      <3>1. FirstLarger(n.keys, v, none) = none \/ FirstLarger(n.keys, v, none) \in 1..Len(n.keys)
        BY <1>1, FirstLargerIs
      <3> QED
        BY <3>1 DEF getIndex, none
    <2>2. none \in 1..Len(n.kids)
      BY <1>1, <1>2, EmptySeq
    <2> HIDE DEF none
    <2> QED
      BY <1>1, <1>2, <2>1, <2>2
  <1> QED
    BY <1>3, <1>4

(***************************************************************************)
(* The functions that follow the children of a node are what their         *)
(* equations say.                                                          *)
(***************************************************************************)

\* One case of the equation of Leaves, of Depths and so on, with f for the function.
LeavesBy(f, n) ==
    IF IsLeaf(n) THEN <<n.keys>> ELSE FlattenSeq([i \in DOMAIN n.kids |-> f[n.kids[i]]])

\* The equation of Leaves looks at the children alone.
LEMMA LeavesSame ==
  ASSUME NEW f, NEW g, NEW n \in Nodes,
         \A i \in 1..Len(n.kids) : f[n.kids[i]] = g[n.kids[i]]
  PROVE  LeavesBy(f, n) = LeavesBy(g, n)
  <1>1. DOMAIN n.kids = 1..Len(n.kids)
    BY NodeIs
  <1>2. [i \in DOMAIN n.kids |-> f[n.kids[i]]] = [i \in DOMAIN n.kids |-> g[n.kids[i]]]
    BY <1>1
  <1> QED
    BY <1>2, Zenon DEF LeavesBy

\* A function with the equation of Leaves exists: trees are finite.
LEMMA LeavesExist ==
  \E f : f = [n \in Nodes |-> LeavesBy(f, n)]
  <1> DEFINE L(d) == Trees[d]
             S == {d \in Nat : d <= MaxKeys + 1 => \E f : f = [n \in L(d) |-> LeavesBy(f, n)]}
  <1>1. 0 \in S
    <2> DEFINE f == [n \in L(0) |-> {}]
    <2>1. L(0) = {}
      BY TreesAre
    <2>2. f = [n \in L(0) |-> LeavesBy(f, n)]
      BY <2>1
    <2> HIDE DEF f, L
    <2> QED
      BY <2>2
  <1>2. ASSUME NEW d \in Nat, d \in S PROVE d + 1 \in S
    <2> SUFFICES ASSUME d + 1 <= MaxKeys + 1 PROVE \E f : f = [n \in L(d + 1) |-> LeavesBy(f, n)]
      OBVIOUS
    <2>1. d \in 0..MaxKeys /\ d <= MaxKeys + 1
      BY BoundIsNat
    <2>2. PICK f : f = [n \in L(d) |-> LeavesBy(f, n)]
      BY <1>2, <2>1
    <2>3. \A n \in L(d) : f[n] = LeavesBy(f, n)
      BY <2>2, Zenon
    <2> DEFINE g == [n \in L(d + 1) |-> LeavesBy(f, n)]
    <2>4. \A n \in L(d) : n \in L(d + 1) /\ g[n] = f[n]
      <3>1. L(d) \subseteq L(d + 1)
        BY <2>1, TreesGrow
      <3> HIDE DEF L
      <3> QED
        BY <2>3, <3>1
    <2>5. \A n \in L(d + 1) : g[n] = LeavesBy(g, n)
      <3> SUFFICES ASSUME NEW n \in L(d + 1) PROVE LeavesBy(f, n) = LeavesBy(g, n)
        BY Zenon
      <3>1. n \in Nodes /\ \A i \in 1..Len(n.kids) : n.kids[i] \in Trees[d]
        BY <2>1, TreeIs
      <3>2. \A i \in 1..Len(n.kids) : f[n.kids[i]] = g[n.kids[i]]
        <4> HIDE DEF g
        <4> QED
          BY <2>4, <3>1
      <3> HIDE DEF g
      <3> QED
        BY <3>1, <3>2, LeavesSame
    <2>6. g = [n \in L(d + 1) |-> g[n]]
      OBVIOUS
    <2> HIDE DEF g, L
    <2> QED
      BY <2>5, <2>6, Zenon
  <1>3. Nat \subseteq S
    <2> HIDE DEF S
    <2> QED
      BY <1>1, <1>2, SetInduction
  <1>4. MaxKeys + 1 \in S
    <2> HIDE DEF S
    <2> QED
      BY <1>3, BoundIsNat
  <1>5. L(MaxKeys + 1) = Nodes
    BY DEF Nodes
  <1>6. MaxKeys + 1 <= MaxKeys + 1
    BY BoundIsNat
  <1> HIDE DEF L
  <1> QED
    BY <1>4, <1>5, <1>6

\* Leaves has its equation.
LEMMA LeavesAre == \A n \in Nodes : Leaves[n] = LeavesBy(Leaves, n)
  <1>1. Leaves = [n \in Nodes |-> LeavesBy(Leaves, n)]
    BY LeavesExist, Zenon DEF Leaves, LeavesBy
  <1> QED
    BY <1>1, Zenon

SeparatorsBy(f, n) ==
    IF IsLeaf(n) THEN n
    ELSE Node([i \in 1..(Len(n.kids) - 1) |-> FirstKey(n.kids[i + 1])],
              [i \in DOMAIN n.kids |-> f[n.kids[i]]])

\* The equation of refreshSeparators looks at the children alone.
LEMMA SeparatorsSame ==
  ASSUME NEW f, NEW g, NEW n \in Nodes,
         \A i \in 1..Len(n.kids) : f[n.kids[i]] = g[n.kids[i]]
  PROVE  SeparatorsBy(f, n) = SeparatorsBy(g, n)
  <1>1. DOMAIN n.kids = 1..Len(n.kids)
    BY NodeIs
  <1>2. [i \in DOMAIN n.kids |-> f[n.kids[i]]] = [i \in DOMAIN n.kids |-> g[n.kids[i]]]
    BY <1>1
  <1> QED
    BY <1>2, Zenon DEF SeparatorsBy

\* A function with the equation of refreshSeparators exists.
LEMMA SeparatorsExist ==
  \E f : f = [n \in Nodes |-> SeparatorsBy(f, n)]
  <1> DEFINE L(d) == Trees[d]
             S == {d \in Nat : d <= MaxKeys + 1 => \E f : f = [n \in L(d) |-> SeparatorsBy(f, n)]}
  <1>1. 0 \in S
    <2> DEFINE f == [n \in L(0) |-> {}]
    <2>1. L(0) = {}
      BY TreesAre
    <2>2. f = [n \in L(0) |-> SeparatorsBy(f, n)]
      BY <2>1
    <2> HIDE DEF f, L
    <2> QED
      BY <2>2
  <1>2. ASSUME NEW d \in Nat, d \in S PROVE d + 1 \in S
    <2> SUFFICES ASSUME d + 1 <= MaxKeys + 1 PROVE \E f : f = [n \in L(d + 1) |-> SeparatorsBy(f, n)]
      OBVIOUS
    <2>1. d \in 0..MaxKeys /\ d <= MaxKeys + 1
      BY BoundIsNat
    <2>2. PICK f : f = [n \in L(d) |-> SeparatorsBy(f, n)]
      BY <1>2, <2>1
    <2>3. \A n \in L(d) : f[n] = SeparatorsBy(f, n)
      BY <2>2, Zenon
    <2> DEFINE g == [n \in L(d + 1) |-> SeparatorsBy(f, n)]
    <2>4. \A n \in L(d) : n \in L(d + 1) /\ g[n] = f[n]
      <3>1. L(d) \subseteq L(d + 1)
        BY <2>1, TreesGrow
      <3> HIDE DEF L
      <3> QED
        BY <2>3, <3>1
    <2>5. \A n \in L(d + 1) : g[n] = SeparatorsBy(g, n)
      <3> SUFFICES ASSUME NEW n \in L(d + 1) PROVE SeparatorsBy(f, n) = SeparatorsBy(g, n)
        BY Zenon
      <3>1. n \in Nodes /\ \A i \in 1..Len(n.kids) : n.kids[i] \in Trees[d]
        BY <2>1, TreeIs
      <3>2. \A i \in 1..Len(n.kids) : f[n.kids[i]] = g[n.kids[i]]
        <4> HIDE DEF g
        <4> QED
          BY <2>4, <3>1
      <3> HIDE DEF g
      <3> QED
        BY <3>1, <3>2, SeparatorsSame
    <2>6. g = [n \in L(d + 1) |-> g[n]]
      OBVIOUS
    <2> HIDE DEF g, L
    <2> QED
      BY <2>5, <2>6, Zenon
  <1>3. Nat \subseteq S
    <2> HIDE DEF S
    <2> QED
      BY <1>1, <1>2, SetInduction
  <1>4. MaxKeys + 1 \in S
    <2> HIDE DEF S
    <2> QED
      BY <1>3, BoundIsNat
  <1>5. L(MaxKeys + 1) = Nodes
    BY DEF Nodes
  <1>6. MaxKeys + 1 <= MaxKeys + 1
    BY BoundIsNat
  <1> HIDE DEF L
  <1> QED
    BY <1>4, <1>5, <1>6

\* refreshSeparators has its equation.
LEMMA SeparatorsAre == \A n \in Nodes : refreshSeparators[n] = SeparatorsBy(refreshSeparators, n)
  <1>1. refreshSeparators = [n \in Nodes |-> SeparatorsBy(refreshSeparators, n)]
    BY SeparatorsExist, Zenon DEF refreshSeparators, SeparatorsBy
  <1> QED
    BY <1>1, Zenon

DepthsBy(f, n) ==
    IF IsLeaf(n) THEN {0} ELSE {d + 1 : d \in UNION {f[m] : m \in ToSet(n.kids)}}

\* The equation of Depths looks at the children alone.
LEMMA DepthsSame ==
  ASSUME NEW f, NEW g, NEW n \in Nodes,
         \A i \in 1..Len(n.kids) : f[n.kids[i]] = g[n.kids[i]]
  PROVE  DepthsBy(f, n) = DepthsBy(g, n)
  <1>1. \A m \in ToSet(n.kids) : f[m] = g[m]
    <2>1. n.kids \in Seq(Nodes)
      BY NodeIs
    <2>2. DOMAIN n.kids = 1..Len(n.kids)
      BY <2>1
    <2>3. \A m \in ToSet(n.kids) : \E i \in 1..Len(n.kids) : m = n.kids[i]
      BY <2>2, Zenon DEF ToSet
    <2> QED
      BY <2>3
  <1>2. {f[m] : m \in ToSet(n.kids)} = {g[m] : m \in ToSet(n.kids)}
    BY <1>1
  <1> QED
    BY <1>2, Zenon DEF DepthsBy

\* A function with the equation of Depths exists.
LEMMA DepthsExist ==
  \E f : f = [n \in Nodes |-> DepthsBy(f, n)]
  <1> DEFINE L(d) == Trees[d]
             S == {d \in Nat : d <= MaxKeys + 1 => \E f : f = [n \in L(d) |-> DepthsBy(f, n)]}
  <1>1. 0 \in S
    <2> DEFINE f == [n \in L(0) |-> {}]
    <2>1. L(0) = {}
      BY TreesAre
    <2>2. f = [n \in L(0) |-> DepthsBy(f, n)]
      BY <2>1
    <2> HIDE DEF f, L
    <2> QED
      BY <2>2
  <1>2. ASSUME NEW d \in Nat, d \in S PROVE d + 1 \in S
    <2> SUFFICES ASSUME d + 1 <= MaxKeys + 1 PROVE \E f : f = [n \in L(d + 1) |-> DepthsBy(f, n)]
      OBVIOUS
    <2>1. d \in 0..MaxKeys /\ d <= MaxKeys + 1
      BY BoundIsNat
    <2>2. PICK f : f = [n \in L(d) |-> DepthsBy(f, n)]
      BY <1>2, <2>1
    <2>3. \A n \in L(d) : f[n] = DepthsBy(f, n)
      BY <2>2, Zenon
    <2> DEFINE g == [n \in L(d + 1) |-> DepthsBy(f, n)]
    <2>4. \A n \in L(d) : n \in L(d + 1) /\ g[n] = f[n]
      <3>1. L(d) \subseteq L(d + 1)
        BY <2>1, TreesGrow
      <3> HIDE DEF L
      <3> QED
        BY <2>3, <3>1
    <2>5. \A n \in L(d + 1) : g[n] = DepthsBy(g, n)
      <3> SUFFICES ASSUME NEW n \in L(d + 1) PROVE DepthsBy(f, n) = DepthsBy(g, n)
        BY Zenon
      <3>1. n \in Nodes /\ \A i \in 1..Len(n.kids) : n.kids[i] \in Trees[d]
        BY <2>1, TreeIs
      <3>2. \A i \in 1..Len(n.kids) : f[n.kids[i]] = g[n.kids[i]]
        <4> HIDE DEF g
        <4> QED
          BY <2>4, <3>1
      <3> HIDE DEF g
      <3> QED
        BY <3>1, <3>2, DepthsSame
    <2>6. g = [n \in L(d + 1) |-> g[n]]
      OBVIOUS
    <2> HIDE DEF g, L
    <2> QED
      BY <2>5, <2>6, Zenon
  <1>3. Nat \subseteq S
    <2> HIDE DEF S
    <2> QED
      BY <1>1, <1>2, SetInduction
  <1>4. MaxKeys + 1 \in S
    <2> HIDE DEF S
    <2> QED
      BY <1>3, BoundIsNat
  <1>5. L(MaxKeys + 1) = Nodes
    BY DEF Nodes
  <1>6. MaxKeys + 1 <= MaxKeys + 1
    BY BoundIsNat
  <1> HIDE DEF L
  <1> QED
    BY <1>4, <1>5, <1>6

\* Depths has its equation.
LEMMA DepthsAre == \A n \in Nodes : Depths[n] = DepthsBy(Depths, n)
  <1>1. Depths = [n \in Nodes |-> DepthsBy(Depths, n)]
    BY DepthsExist, Zenon DEF Depths, DepthsBy
  <1> QED
    BY <1>1, Zenon

BelowBy(f, n) == ToSet(n.kids) \cup UNION {f[m] : m \in ToSet(n.kids)}

\* The equation of Below looks at the children alone.
LEMMA BelowSame ==
  ASSUME NEW f, NEW g, NEW n \in Nodes,
         \A i \in 1..Len(n.kids) : f[n.kids[i]] = g[n.kids[i]]
  PROVE  BelowBy(f, n) = BelowBy(g, n)
  <1>1. \A m \in ToSet(n.kids) : f[m] = g[m]
    <2>1. n.kids \in Seq(Nodes)
      BY NodeIs
    <2>2. DOMAIN n.kids = 1..Len(n.kids)
      BY <2>1
    <2>3. \A m \in ToSet(n.kids) : \E i \in 1..Len(n.kids) : m = n.kids[i]
      BY <2>2, Zenon DEF ToSet
    <2> QED
      BY <2>3
  <1>2. {f[m] : m \in ToSet(n.kids)} = {g[m] : m \in ToSet(n.kids)}
    BY <1>1
  <1> QED
    BY <1>2, Zenon DEF BelowBy

\* A function with the equation of Below exists.
LEMMA BelowExist ==
  \E f : f = [n \in Nodes |-> BelowBy(f, n)]
  <1> DEFINE L(d) == Trees[d]
             S == {d \in Nat : d <= MaxKeys + 1 => \E f : f = [n \in L(d) |-> BelowBy(f, n)]}
  <1>1. 0 \in S
    <2> DEFINE f == [n \in L(0) |-> {}]
    <2>1. L(0) = {}
      BY TreesAre
    <2>2. f = [n \in L(0) |-> BelowBy(f, n)]
      BY <2>1
    <2> HIDE DEF f, L
    <2> QED
      BY <2>2
  <1>2. ASSUME NEW d \in Nat, d \in S PROVE d + 1 \in S
    <2> SUFFICES ASSUME d + 1 <= MaxKeys + 1 PROVE \E f : f = [n \in L(d + 1) |-> BelowBy(f, n)]
      OBVIOUS
    <2>1. d \in 0..MaxKeys /\ d <= MaxKeys + 1
      BY BoundIsNat
    <2>2. PICK f : f = [n \in L(d) |-> BelowBy(f, n)]
      BY <1>2, <2>1
    <2>3. \A n \in L(d) : f[n] = BelowBy(f, n)
      BY <2>2, Zenon
    <2> DEFINE g == [n \in L(d + 1) |-> BelowBy(f, n)]
    <2>4. \A n \in L(d) : n \in L(d + 1) /\ g[n] = f[n]
      <3>1. L(d) \subseteq L(d + 1)
        BY <2>1, TreesGrow
      <3> HIDE DEF L
      <3> QED
        BY <2>3, <3>1
    <2>5. \A n \in L(d + 1) : g[n] = BelowBy(g, n)
      <3> SUFFICES ASSUME NEW n \in L(d + 1) PROVE BelowBy(f, n) = BelowBy(g, n)
        BY Zenon
      <3>1. n \in Nodes /\ \A i \in 1..Len(n.kids) : n.kids[i] \in Trees[d]
        BY <2>1, TreeIs
      <3>2. \A i \in 1..Len(n.kids) : f[n.kids[i]] = g[n.kids[i]]
        <4> HIDE DEF g
        <4> QED
          BY <2>4, <3>1
      <3> HIDE DEF g
      <3> QED
        BY <3>1, <3>2, BelowSame
    <2>6. g = [n \in L(d + 1) |-> g[n]]
      OBVIOUS
    <2> HIDE DEF g, L
    <2> QED
      BY <2>5, <2>6, Zenon
  <1>3. Nat \subseteq S
    <2> HIDE DEF S
    <2> QED
      BY <1>1, <1>2, SetInduction
  <1>4. MaxKeys + 1 \in S
    <2> HIDE DEF S
    <2> QED
      BY <1>3, BoundIsNat
  <1>5. L(MaxKeys + 1) = Nodes
    BY DEF Nodes
  <1>6. MaxKeys + 1 <= MaxKeys + 1
    BY BoundIsNat
  <1> HIDE DEF L
  <1> QED
    BY <1>4, <1>5, <1>6

\* Below has its equation.
LEMMA BelowIs == \A n \in Nodes : Below[n] = BelowBy(Below, n)
  <1>1. Below = [n \in Nodes |-> BelowBy(Below, n)]
    BY BelowExist, Zenon DEF Below, BelowBy
  <1> QED
    BY <1>1, Zenon

LeafForBy(f, n, v) ==
    IF IsLeaf(n) THEN [leaf |-> n, at |-> 1]
    ELSE LET i == findChild(n, v) IN [f[n.kids[i]] EXCEPT !.at = LeavesBefore(n, i) + @]

\* The equation of LeafFor's descent looks at the children alone.
LEMMA LeafForSame ==
  ASSUME NEW f, NEW g, NEW n \in Nodes, NEW v \in Int,
         \A i \in 1..Len(n.kids) : f[n.kids[i]] = g[n.kids[i]]
  PROVE  LeafForBy(f, n, v) = LeafForBy(g, n, v)
  <1>1. CASE IsLeaf(n)
    BY <1>1 DEF LeafForBy
  <1>2. CASE ~IsLeaf(n)
    <2>1. findChild(n, v) \in 1..Len(n.kids)
      BY <1>2, ChildIsFound DEF Parents
    <2>2. f[n.kids[findChild(n, v)]] = g[n.kids[findChild(n, v)]]
      BY <2>1
    <2> QED
      BY <1>2, <2>2, Zenon DEF LeafForBy
  <1> QED
    BY <1>1, <1>2

\* A function with the equation of LeafFor's descent exists.
LEMMA LeafForExist ==
  ASSUME NEW v \in Int
  PROVE  \E f : f = [n \in Nodes |-> LeafForBy(f, n, v)]
  <1> DEFINE L(d) == Trees[d]
             S == {d \in Nat : d <= MaxKeys + 1 => \E f : f = [n \in L(d) |-> LeafForBy(f, n, v)]}
  <1>1. 0 \in S
    <2> DEFINE f == [n \in L(0) |-> {}]
    <2>1. L(0) = {}
      BY TreesAre
    <2>2. f = [n \in L(0) |-> LeafForBy(f, n, v)]
      BY <2>1
    <2> HIDE DEF f, L
    <2> QED
      BY <2>2
  <1>2. ASSUME NEW d \in Nat, d \in S PROVE d + 1 \in S
    <2> SUFFICES ASSUME d + 1 <= MaxKeys + 1 PROVE \E f : f = [n \in L(d + 1) |-> LeafForBy(f, n, v)]
      OBVIOUS
    <2>1. d \in 0..MaxKeys /\ d <= MaxKeys + 1
      BY BoundIsNat
    <2>2. PICK f : f = [n \in L(d) |-> LeafForBy(f, n, v)]
      BY <1>2, <2>1
    <2>3. \A n \in L(d) : f[n] = LeafForBy(f, n, v)
      BY <2>2, Zenon
    <2> DEFINE g == [n \in L(d + 1) |-> LeafForBy(f, n, v)]
    <2>4. \A n \in L(d) : n \in L(d + 1) /\ g[n] = f[n]
      <3>1. L(d) \subseteq L(d + 1)
        BY <2>1, TreesGrow
      <3> HIDE DEF L
      <3> QED
        BY <2>3, <3>1
    <2>5. \A n \in L(d + 1) : g[n] = LeafForBy(g, n, v)
      <3> SUFFICES ASSUME NEW n \in L(d + 1) PROVE LeafForBy(f, n, v) = LeafForBy(g, n, v)
        BY Zenon
      <3>1. n \in Nodes /\ \A i \in 1..Len(n.kids) : n.kids[i] \in Trees[d]
        BY <2>1, TreeIs
      <3>2. \A i \in 1..Len(n.kids) : f[n.kids[i]] = g[n.kids[i]]
        <4> HIDE DEF g
        <4> QED
          BY <2>4, <3>1
      <3> HIDE DEF g
      <3> QED
        BY <3>1, <3>2, LeafForSame
    <2>6. g = [n \in L(d + 1) |-> g[n]]
      OBVIOUS
    <2> HIDE DEF g, L
    <2> QED
      BY <2>5, <2>6, Zenon
  <1>3. Nat \subseteq S
    <2> HIDE DEF S
    <2> QED
      BY <1>1, <1>2, SetInduction
  <1>4. MaxKeys + 1 \in S
    <2> HIDE DEF S
    <2> QED
      BY <1>3, BoundIsNat
  <1>5. L(MaxKeys + 1) = Nodes
    BY DEF Nodes
  <1>6. MaxKeys + 1 <= MaxKeys + 1
    BY BoundIsNat
  <1> HIDE DEF L
  <1> QED
    BY <1>4, <1>5, <1>6

\* LeafFor has its equation.
LEMMA LeafForIs ==
  ASSUME NEW v \in Int
  PROVE  \E f : /\ \A n \in Nodes : f[n] = LeafForBy(f, n, v)
                /\ \A n : LeafFor(n, v) = f[n]
  <1> DEFINE from[m \in Nodes] ==
          IF IsLeaf(m) THEN [leaf |-> m, at |-> 1]
          ELSE LET i == findChild(m, v)
               IN  [from[m.kids[i]] EXCEPT !.at = LeavesBefore(m, i) + @]
  <1>1. from = [n \in Nodes |-> LeafForBy(from, n, v)]
    BY LeafForExist, Zenon DEF from, LeafForBy
  <1>2. \A n : LeafFor(n, v) = from[n]
    BY Zenon DEF LeafFor, from
  <1> HIDE DEF from
  <1> QED
    BY <1>1, <1>2, Zenon

PlaceBy(f, n, v) ==
    IF IsLeaf(n) THEN Place(Leaf(Added(n.keys, v)))
    ELSE LET i == findChild(n, v) IN Place(Spliced(n, i, f[n.kids[i]]))

\* The equation of addHelper looks at the children alone.
LEMMA PlaceSame ==
  ASSUME NEW f, NEW g, NEW n \in Nodes, NEW v \in Int,
         \A i \in 1..Len(n.kids) : f[n.kids[i]] = g[n.kids[i]]
  PROVE  PlaceBy(f, n, v) = PlaceBy(g, n, v)
  <1>1. CASE IsLeaf(n)
    BY <1>1 DEF PlaceBy
  <1>2. CASE ~IsLeaf(n)
    <2>1. findChild(n, v) \in 1..Len(n.kids)
      BY <1>2, ChildIsFound DEF Parents
    <2>2. f[n.kids[findChild(n, v)]] = g[n.kids[findChild(n, v)]]
      BY <2>1
    <2> QED
      BY <1>2, <2>2, Zenon DEF PlaceBy
  <1> QED
    BY <1>1, <1>2

\* A function with the equation of addHelper exists.
LEMMA PlaceExist ==
  ASSUME NEW v \in Int
  PROVE  \E f : f = [n \in Nodes |-> PlaceBy(f, n, v)]
  <1> DEFINE L(d) == Trees[d]
             S == {d \in Nat : d <= MaxKeys + 1 => \E f : f = [n \in L(d) |-> PlaceBy(f, n, v)]}
  <1>1. 0 \in S
    <2> DEFINE f == [n \in L(0) |-> {}]
    <2>1. L(0) = {}
      BY TreesAre
    <2>2. f = [n \in L(0) |-> PlaceBy(f, n, v)]
      BY <2>1
    <2> HIDE DEF f, L
    <2> QED
      BY <2>2
  <1>2. ASSUME NEW d \in Nat, d \in S PROVE d + 1 \in S
    <2> SUFFICES ASSUME d + 1 <= MaxKeys + 1 PROVE \E f : f = [n \in L(d + 1) |-> PlaceBy(f, n, v)]
      OBVIOUS
    <2>1. d \in 0..MaxKeys /\ d <= MaxKeys + 1
      BY BoundIsNat
    <2>2. PICK f : f = [n \in L(d) |-> PlaceBy(f, n, v)]
      BY <1>2, <2>1
    <2>3. \A n \in L(d) : f[n] = PlaceBy(f, n, v)
      BY <2>2, Zenon
    <2> DEFINE g == [n \in L(d + 1) |-> PlaceBy(f, n, v)]
    <2>4. \A n \in L(d) : n \in L(d + 1) /\ g[n] = f[n]
      <3>1. L(d) \subseteq L(d + 1)
        BY <2>1, TreesGrow
      <3> HIDE DEF L
      <3> QED
        BY <2>3, <3>1
    <2>5. \A n \in L(d + 1) : g[n] = PlaceBy(g, n, v)
      <3> SUFFICES ASSUME NEW n \in L(d + 1) PROVE PlaceBy(f, n, v) = PlaceBy(g, n, v)
        BY Zenon
      <3>1. n \in Nodes /\ \A i \in 1..Len(n.kids) : n.kids[i] \in Trees[d]
        BY <2>1, TreeIs
      <3>2. \A i \in 1..Len(n.kids) : f[n.kids[i]] = g[n.kids[i]]
        <4> HIDE DEF g
        <4> QED
          BY <2>4, <3>1
      <3> HIDE DEF g
      <3> QED
        BY <3>1, <3>2, PlaceSame
    <2>6. g = [n \in L(d + 1) |-> g[n]]
      OBVIOUS
    <2> HIDE DEF g, L
    <2> QED
      BY <2>5, <2>6, Zenon
  <1>3. Nat \subseteq S
    <2> HIDE DEF S
    <2> QED
      BY <1>1, <1>2, SetInduction
  <1>4. MaxKeys + 1 \in S
    <2> HIDE DEF S
    <2> QED
      BY <1>3, BoundIsNat
  <1>5. L(MaxKeys + 1) = Nodes
    BY DEF Nodes
  <1>6. MaxKeys + 1 <= MaxKeys + 1
    BY BoundIsNat
  <1> HIDE DEF L
  <1> QED
    BY <1>4, <1>5, <1>6

\* addHelper has its equation.
LEMMA PlaceIs ==
  ASSUME NEW v \in Int
  PROVE  \E f : /\ \A n \in Nodes : f[n] = PlaceBy(f, n, v)
                /\ \A n : PlaceWith(n, v) = f[n]
  <1> DEFINE from[m \in Nodes] ==
          IF IsLeaf(m) THEN Place(Leaf(Added(m.keys, v)))
          ELSE LET i == findChild(m, v) IN Place(Spliced(m, i, from[m.kids[i]]))
  <1>1. from = [n \in Nodes |-> PlaceBy(from, n, v)]
    BY PlaceExist, Zenon DEF from, PlaceBy
  <1>2. \A n : PlaceWith(n, v) = from[n]
    BY Zenon DEF PlaceWith, from
  <1> HIDE DEF from
  <1> QED
    BY <1>1, <1>2, Zenon

DescendedBy(f, n, v) ==
    IF IsLeaf(n) THEN 1
    ELSE LET i == getIndex(n, v) IN LeavesBefore(n, i) + f[n.kids[i]]

\* The equation of getRange's descent looks at the children alone.
LEMMA DescendedSame ==
  ASSUME NEW f, NEW g, NEW n \in Nodes, NEW v \in Int,
         \A i \in 1..Len(n.kids) : f[n.kids[i]] = g[n.kids[i]]
  PROVE  DescendedBy(f, n, v) = DescendedBy(g, n, v)
  <1>1. CASE IsLeaf(n)
    BY <1>1 DEF DescendedBy
  <1>2. CASE ~IsLeaf(n)
    <2>1. getIndex(n, v) \in 1..Len(n.kids)
      BY <1>2, ChildIsFound DEF Parents
    <2>2. f[n.kids[getIndex(n, v)]] = g[n.kids[getIndex(n, v)]]
      BY <2>1
    <2> QED
      BY <1>2, <2>2, Zenon DEF DescendedBy
  <1> QED
    BY <1>1, <1>2

\* A function with the equation of getRange's descent exists.
LEMMA DescendedExist ==
  ASSUME NEW v \in Int
  PROVE  \E f : f = [n \in Nodes |-> DescendedBy(f, n, v)]
  <1> DEFINE L(d) == Trees[d]
             S == {d \in Nat : d <= MaxKeys + 1 => \E f : f = [n \in L(d) |-> DescendedBy(f, n, v)]}
  <1>1. 0 \in S
    <2> DEFINE f == [n \in L(0) |-> {}]
    <2>1. L(0) = {}
      BY TreesAre
    <2>2. f = [n \in L(0) |-> DescendedBy(f, n, v)]
      BY <2>1
    <2> HIDE DEF f, L
    <2> QED
      BY <2>2
  <1>2. ASSUME NEW d \in Nat, d \in S PROVE d + 1 \in S
    <2> SUFFICES ASSUME d + 1 <= MaxKeys + 1 PROVE \E f : f = [n \in L(d + 1) |-> DescendedBy(f, n, v)]
      OBVIOUS
    <2>1. d \in 0..MaxKeys /\ d <= MaxKeys + 1
      BY BoundIsNat
    <2>2. PICK f : f = [n \in L(d) |-> DescendedBy(f, n, v)]
      BY <1>2, <2>1
    <2>3. \A n \in L(d) : f[n] = DescendedBy(f, n, v)
      BY <2>2, Zenon
    <2> DEFINE g == [n \in L(d + 1) |-> DescendedBy(f, n, v)]
    <2>4. \A n \in L(d) : n \in L(d + 1) /\ g[n] = f[n]
      <3>1. L(d) \subseteq L(d + 1)
        BY <2>1, TreesGrow
      <3> HIDE DEF L
      <3> QED
        BY <2>3, <3>1
    <2>5. \A n \in L(d + 1) : g[n] = DescendedBy(g, n, v)
      <3> SUFFICES ASSUME NEW n \in L(d + 1) PROVE DescendedBy(f, n, v) = DescendedBy(g, n, v)
        BY Zenon
      <3>1. n \in Nodes /\ \A i \in 1..Len(n.kids) : n.kids[i] \in Trees[d]
        BY <2>1, TreeIs
      <3>2. \A i \in 1..Len(n.kids) : f[n.kids[i]] = g[n.kids[i]]
        <4> HIDE DEF g
        <4> QED
          BY <2>4, <3>1
      <3> HIDE DEF g
      <3> QED
        BY <3>1, <3>2, DescendedSame
    <2>6. g = [n \in L(d + 1) |-> g[n]]
      OBVIOUS
    <2> HIDE DEF g, L
    <2> QED
      BY <2>5, <2>6, Zenon
  <1>3. Nat \subseteq S
    <2> HIDE DEF S
    <2> QED
      BY <1>1, <1>2, SetInduction
  <1>4. MaxKeys + 1 \in S
    <2> HIDE DEF S
    <2> QED
      BY <1>3, BoundIsNat
  <1>5. L(MaxKeys + 1) = Nodes
    BY DEF Nodes
  <1>6. MaxKeys + 1 <= MaxKeys + 1
    BY BoundIsNat
  <1> HIDE DEF L
  <1> QED
    BY <1>4, <1>5, <1>6

\* getRange's descent has its equation.
LEMMA DescendedIs ==
  ASSUME NEW v \in Int
  PROVE  \E f : /\ \A n \in Nodes : f[n] = DescendedBy(f, n, v)
                /\ \A n : Descended(n, v) = f[n]
  <1> DEFINE from[m \in Nodes] ==
          IF IsLeaf(m) THEN 1
          ELSE LET i == getIndex(m, v) IN LeavesBefore(m, i) + from[m.kids[i]]
  <1>1. from = [n \in Nodes |-> DescendedBy(from, n, v)]
    BY DescendedExist, Zenon DEF from, DescendedBy
  <1>2. \A n : Descended(n, v) = from[n]
    BY Zenon DEF Descended, from
  <1> HIDE DEF from
  <1> QED
    BY <1>1, <1>2, Zenon

RemovalBy(f, n, v) ==
    LET i      == findChild(n, v)
        parent == WithLeaf(n, i, RemoveFirst(n.kids[i].keys, v))
        now    == Repaired(parent, i)
        merges == Merges(parent, i)
        below  == f[n.kids[i]]
    IN  IF IsLeaf(n.kids[i])
        THEN [node |-> now, merges |-> merges, before |-> i > 1,
              short |-> merges /\ Len(now.keys) < getMinNodes]
        ELSE [below EXCEPT !.node = [n EXCEPT !.kids[i] = below.node]]

\* The equation of removeHelper looks at the children alone.
LEMMA RemovalSame ==
  ASSUME NEW f, NEW g, NEW n \in Parents, NEW v \in Int,
         \A i \in 1..Len(n.kids) : n.kids[i] \in Parents => f[n.kids[i]] = g[n.kids[i]]
  PROVE  RemovalBy(f, n, v) = RemovalBy(g, n, v)
  <1> DEFINE i == findChild(n, v)
  <1>0. i \in 1..Len(n.kids) /\ n.kids[i] \in Nodes
    <2>1. i \in 1..Len(n.kids)
      BY ChildIsFound
    <2> HIDE DEF i
    <2> QED
      BY <2>1, NodeIs DEF Parents
  <1>1. CASE IsLeaf(n.kids[i])
    BY <1>1, Zenon DEF RemovalBy
  <1>2. CASE ~IsLeaf(n.kids[i])
    <2>1. n.kids[i] \in Parents
      BY <1>0, <1>2 DEF Parents
    <2>2. f[n.kids[i]] = g[n.kids[i]]
      <3> HIDE DEF i
      <3> QED
        BY <1>0, <2>1
    <2> QED
      BY <1>2, <2>2, Zenon DEF RemovalBy
  <1> QED
    BY <1>1, <1>2

\* A function with the equation of removeHelper exists.
LEMMA RemovalExist ==
  ASSUME NEW v \in Int
  PROVE  \E f : f = [n \in Parents |-> RemovalBy(f, n, v)]
  <1> DEFINE L(d) == (Trees[d] \cap Parents)
             S == {d \in Nat : d <= MaxKeys + 1 => \E f : f = [n \in L(d) |-> RemovalBy(f, n, v)]}
  <1>1. 0 \in S
    <2> DEFINE f == [n \in L(0) |-> {}]
    <2>1. L(0) = {}
      BY TreesAre
    <2>2. f = [n \in L(0) |-> RemovalBy(f, n, v)]
      BY <2>1
    <2> HIDE DEF f, L
    <2> QED
      BY <2>2
  <1>2. ASSUME NEW d \in Nat, d \in S PROVE d + 1 \in S
    <2> SUFFICES ASSUME d + 1 <= MaxKeys + 1 PROVE \E f : f = [n \in L(d + 1) |-> RemovalBy(f, n, v)]
      OBVIOUS
    <2>1. d \in 0..MaxKeys /\ d <= MaxKeys + 1
      BY BoundIsNat
    <2>2. PICK f : f = [n \in L(d) |-> RemovalBy(f, n, v)]
      BY <1>2, <2>1
    <2>3. \A n \in L(d) : f[n] = RemovalBy(f, n, v)
      BY <2>2, Zenon
    <2> DEFINE g == [n \in L(d + 1) |-> RemovalBy(f, n, v)]
    <2>4. \A n \in L(d) : n \in L(d + 1) /\ g[n] = f[n]
      <3>1. L(d) \subseteq L(d + 1)
        BY <2>1, TreesGrow
      <3> HIDE DEF L
      <3> QED
        BY <2>3, <3>1
    <2>5. \A n \in L(d + 1) : g[n] = RemovalBy(g, n, v)
      <3> SUFFICES ASSUME NEW n \in L(d + 1) PROVE RemovalBy(f, n, v) = RemovalBy(g, n, v)
        BY Zenon
      <3>1. n \in Parents /\ \A i \in 1..Len(n.kids) : n.kids[i] \in Trees[d]
        BY <2>1, TreeIs
      <3>2. \A i \in 1..Len(n.kids) : n.kids[i] \in Parents => f[n.kids[i]] = g[n.kids[i]]
        <4> HIDE DEF g
        <4> QED
          BY <2>4, <3>1
      <3> HIDE DEF g
      <3> QED
        BY <3>1, <3>2, RemovalSame
    <2>6. g = [n \in L(d + 1) |-> g[n]]
      OBVIOUS
    <2> HIDE DEF g, L
    <2> QED
      BY <2>5, <2>6, Zenon
  <1>3. Nat \subseteq S
    <2> HIDE DEF S
    <2> QED
      BY <1>1, <1>2, SetInduction
  <1>4. MaxKeys + 1 \in S
    <2> HIDE DEF S
    <2> QED
      BY <1>3, BoundIsNat
  <1>5. L(MaxKeys + 1) = Parents
    BY DEF Nodes, Parents
  <1>6. MaxKeys + 1 <= MaxKeys + 1
    BY BoundIsNat
  <1> HIDE DEF L
  <1> QED
    BY <1>4, <1>5, <1>6

\* removeHelper has its equation.
LEMMA RemovalIs ==
  ASSUME NEW v \in Int
  PROVE  \E f : /\ \A n \in Parents : f[n] = RemovalBy(f, n, v)
                /\ \A n : Removal(n, v) = f[n]
  <1> DEFINE from[m \in Parents] ==
          LET i      == findChild(m, v)
              parent == WithLeaf(m, i, RemoveFirst(m.kids[i].keys, v))
              now    == Repaired(parent, i)
              merges == Merges(parent, i)
              below  == from[m.kids[i]]
          IN  IF IsLeaf(m.kids[i])
              THEN [node |-> now, merges |-> merges, before |-> i > 1,
                    short |-> merges /\ Len(now.keys) < getMinNodes]
              ELSE [below EXCEPT !.node = [m EXCEPT !.kids[i] = below.node]]
  <1>1. from = [n \in Parents |-> RemovalBy(from, n, v)]
    BY RemovalExist, Zenon DEF from, RemovalBy
  <1>2. \A n : Removal(n, v) = from[n]
    BY Zenon DEF Removal, from
  <1> HIDE DEF from
  <1> QED
    BY <1>1, <1>2, Zenon

TopBy(f, n) == IF Len(n.kids) = 1 THEN f[Head(n.kids)] ELSE n

\* The equation of collapseRootIfNeeded looks at the children alone.
LEMMA TopSame ==
  ASSUME NEW f, NEW g, NEW n \in Nodes,
         \A i \in 1..Len(n.kids) : f[n.kids[i]] = g[n.kids[i]]
  PROVE  TopBy(f, n) = TopBy(g, n)
  <1>1. CASE Len(n.kids) = 1
    <2>1. 1 \in 1..Len(n.kids) /\ Head(n.kids) = n.kids[1]
      BY <1>1, NodeIs
    <2> QED
      BY <1>1, <2>1 DEF TopBy
  <1>2. CASE Len(n.kids) # 1
    BY <1>2 DEF TopBy
  <1> QED
    BY <1>1, <1>2

\* A function with the equation of collapseRootIfNeeded exists.
LEMMA TopExist ==
  \E f : f = [n \in Nodes |-> TopBy(f, n)]
  <1> DEFINE L(d) == Trees[d]
             S == {d \in Nat : d <= MaxKeys + 1 => \E f : f = [n \in L(d) |-> TopBy(f, n)]}
  <1>1. 0 \in S
    <2> DEFINE f == [n \in L(0) |-> {}]
    <2>1. L(0) = {}
      BY TreesAre
    <2>2. f = [n \in L(0) |-> TopBy(f, n)]
      BY <2>1
    <2> HIDE DEF f, L
    <2> QED
      BY <2>2
  <1>2. ASSUME NEW d \in Nat, d \in S PROVE d + 1 \in S
    <2> SUFFICES ASSUME d + 1 <= MaxKeys + 1 PROVE \E f : f = [n \in L(d + 1) |-> TopBy(f, n)]
      OBVIOUS
    <2>1. d \in 0..MaxKeys /\ d <= MaxKeys + 1
      BY BoundIsNat
    <2>2. PICK f : f = [n \in L(d) |-> TopBy(f, n)]
      BY <1>2, <2>1
    <2>3. \A n \in L(d) : f[n] = TopBy(f, n)
      BY <2>2, Zenon
    <2> DEFINE g == [n \in L(d + 1) |-> TopBy(f, n)]
    <2>4. \A n \in L(d) : n \in L(d + 1) /\ g[n] = f[n]
      <3>1. L(d) \subseteq L(d + 1)
        BY <2>1, TreesGrow
      <3> HIDE DEF L
      <3> QED
        BY <2>3, <3>1
    <2>5. \A n \in L(d + 1) : g[n] = TopBy(g, n)
      <3> SUFFICES ASSUME NEW n \in L(d + 1) PROVE TopBy(f, n) = TopBy(g, n)
        BY Zenon
      <3>1. n \in Nodes /\ \A i \in 1..Len(n.kids) : n.kids[i] \in Trees[d]
        BY <2>1, TreeIs
      <3>2. \A i \in 1..Len(n.kids) : f[n.kids[i]] = g[n.kids[i]]
        <4> HIDE DEF g
        <4> QED
          BY <2>4, <3>1
      <3> HIDE DEF g
      <3> QED
        BY <3>1, <3>2, TopSame
    <2>6. g = [n \in L(d + 1) |-> g[n]]
      OBVIOUS
    <2> HIDE DEF g, L
    <2> QED
      BY <2>5, <2>6, Zenon
  <1>3. Nat \subseteq S
    <2> HIDE DEF S
    <2> QED
      BY <1>1, <1>2, SetInduction
  <1>4. MaxKeys + 1 \in S
    <2> HIDE DEF S
    <2> QED
      BY <1>3, BoundIsNat
  <1>5. L(MaxKeys + 1) = Nodes
    BY DEF Nodes
  <1>6. MaxKeys + 1 <= MaxKeys + 1
    BY BoundIsNat
  <1> HIDE DEF L
  <1> QED
    BY <1>4, <1>5, <1>6

\* A node with several children, or none, is not collapsed.
LEMMA NothingToCollapse ==
  ASSUME NEW n \in Nodes, Len(n.kids) # 1
  PROVE  collapseRootIfNeeded(n) = n
  <1> DEFINE from[m \in Nodes] == IF Len(m.kids) = 1 THEN from[Head(m.kids)] ELSE m
  <1>1. from = [m \in Nodes |-> TopBy(from, m)]
    BY TopExist, Zenon DEF from, TopBy
  <1>2. collapseRootIfNeeded(n) = from[n]
    BY Zenon DEF collapseRootIfNeeded, from
  <1> HIDE DEF from
  <1>3. from[n] = TopBy(from, n)
    BY <1>1, Zenon
  <1> QED
    BY <1>2, <1>3 DEF TopBy

(***************************************************************************)
(* The leaves and the keys below a node, and below several.                *)
(***************************************************************************)

\* What holds of a node if it holds of its children holds of all nodes.
LEMMA NodeInduction ==
  ASSUME NEW S,
         \A n \in Nodes : (\A i \in 1..Len(n.kids) : n.kids[i] \in S) => n \in S
  PROVE  Nodes \subseteq S
  <1> DEFINE D == {d \in Nat : d <= MaxKeys + 1 => Trees[d] \subseteq S}
  <1>1. 0 \in D
    BY TreesAre
  <1>2. ASSUME NEW d \in Nat, d \in D PROVE d + 1 \in D
    <2> SUFFICES ASSUME d + 1 <= MaxKeys + 1, NEW n \in Trees[d + 1] PROVE n \in S
      OBVIOUS
    <2>1. d \in 0..MaxKeys /\ d <= MaxKeys + 1
      BY BoundIsNat
    <2>2. n \in Nodes /\ \A i \in 1..Len(n.kids) : n.kids[i] \in Trees[d]
      BY <2>1, TreeIs
    <2>3. \A i \in 1..Len(n.kids) : n.kids[i] \in S
      BY <1>2, <2>1, <2>2
    <2> QED
      BY <2>2, <2>3
  <1>3. Nat \subseteq D
    <2> HIDE DEF D
    <2> QED
      BY <1>1, <1>2, SetInduction
  <1>4. MaxKeys + 1 \in Nat /\ MaxKeys + 1 <= MaxKeys + 1
    BY BoundIsNat
  <1> QED
    BY <1>3, <1>4 DEF Nodes

\* The leaves below the nodes ks, from left to right.
LS(ks) == Flat([i \in DOMAIN ks |-> Leaves[ks[i]]])

\* The leaves of a node are those of its children.
LEMMA LeavesStep ==
  ASSUME NEW n \in Nodes
  PROVE  /\ IsLeaf(n) => Leaves[n] = One(n.keys)
         /\ ~IsLeaf(n) => Leaves[n] = LS(n.kids)
  BY LeavesAre, Zenon DEF LeavesBy, LS, Flat, One

Rows == {r \in Seq(Seq(Keys)) : r # <<>>}

\* Every node has leaves below it, and they hold keys.
LEMMA LeavesType == \A n \in Nodes : Leaves[n] \in Rows
  <1> DEFINE S == {n \in Nodes : Leaves[n] \in Rows}
  <1>1. ASSUME NEW n \in Nodes, \A i \in 1..Len(n.kids) : n.kids[i] \in S PROVE n \in S
    <2>1. CASE IsLeaf(n)
      <3>1. n.keys \in Seq(Keys)
        BY NodeIs
      <3>2. One(n.keys) \in Seq(Seq(Keys)) /\ Len(One(n.keys)) = 1
        BY ONLY <3>1, OneIs
      <3>3. One(n.keys) # <<>>
        BY <3>2
      <3> QED
        BY <2>1, <3>2, <3>3, LeavesStep DEF Rows
    <2>2. CASE ~IsLeaf(n)
      <3> DEFINE ss == [i \in DOMAIN n.kids |-> Leaves[n.kids[i]]]
      <3>1. n.kids \in Seq(Nodes) /\ Len(n.kids) \in Nat /\ Len(n.kids) # 0
        BY <2>2, NodeIs
      <3>2. DOMAIN n.kids = 1..Len(n.kids)
        BY <3>1
      <3>3. \A i \in 1..Len(n.kids) : Leaves[n.kids[i]] \in Seq(Seq(Keys)) /\ Leaves[n.kids[i]] # <<>>
        BY <1>1 DEF Rows
      <3>4. ss \in Seq(Seq(Seq(Keys))) /\ Len(ss) = Len(n.kids)
        BY <3>1, <3>2, <3>3
      <3>5. \A i \in 1..Len(ss) : ss[i] # <<>>
        BY <3>2, <3>3, <3>4
      <3>6. Leaves[n] = Flat(ss)
        BY <2>2, LeavesStep, Zenon DEF LS
      <3> HIDE DEF ss
      <3>7. Flat(ss) \in Seq(Seq(Keys))
        BY ONLY <3>4, FlatType
      <3>8. Len(Flat(ss)) \in Nat /\ Len(Flat(ss)) >= Len(ss)
        BY ONLY <3>4, <3>5, FlatLong
      <3>9. Flat(ss) # <<>>
        BY <3>1, <3>4, <3>8
      <3> QED
        BY <3>6, <3>7, <3>9 DEF Rows
    <2> QED
      BY <2>1, <2>2
  <1>2. Nodes \subseteq S
    <2> HIDE DEF S
    <2> QED
      BY <1>1, NodeInduction
  <1> QED
    BY <1>2

\* The rows of the nodes ks, one of each.
RowsOf(ks) == [i \in DOMAIN ks |-> Leaves[ks[i]]]

\* The rows of several nodes, element by element.
LEMMA RowsOfIs ==
  ASSUME NEW ks \in Seq(Nodes)
  PROVE  /\ RowsOf(ks) \in Seq(Seq(Seq(Keys))) /\ Len(RowsOf(ks)) = Len(ks)
         /\ \A i \in 1..Len(ks) : RowsOf(ks)[i] = Leaves[ks[i]] /\ RowsOf(ks)[i] # <<>>
  <1>1. \A i \in 1..Len(ks) : Leaves[ks[i]] \in Seq(Seq(Keys)) /\ Leaves[ks[i]] # <<>>
    BY LeavesType DEF Rows
  <1>2. DOMAIN ks = 1..Len(ks) /\ Len(ks) \in Nat
    OBVIOUS
  <1> QED
    BY <1>1, <1>2 DEF RowsOf

\* The leaves below several nodes: at least one each.
LEMMA LSIs ==
  ASSUME NEW ks \in Seq(Nodes)
  PROVE  LS(ks) = Flat(RowsOf(ks)) /\ LS(ks) \in Seq(Seq(Keys))
         /\ Len(LS(ks)) \in Nat /\ Len(LS(ks)) >= Len(ks)
  <1>1. LS(ks) = Flat(RowsOf(ks))
    BY Zenon DEF LS, RowsOf
  <1>2. RowsOf(ks) \in Seq(Seq(Seq(Keys))) /\ \A i \in 1..Len(RowsOf(ks)) : RowsOf(ks)[i] # <<>>
    BY RowsOfIs
  <1>3. Flat(RowsOf(ks)) \in Seq(Seq(Keys))
    BY ONLY <1>2, FlatType
  <1>4. Len(Flat(RowsOf(ks))) \in Nat /\ Len(Flat(RowsOf(ks))) >= Len(RowsOf(ks))
    BY ONLY <1>2, FlatLong
  <1> QED
    BY <1>1, <1>3, <1>4, RowsOfIs

\* The leaves below the nodes of a concatenation.
LEMMA LSCat ==
  ASSUME NEW a \in Seq(Nodes), NEW b \in Seq(Nodes)
  PROVE  LS(Cat(a, b)) = Cat(LS(a), LS(b))
  <1>1. Cat(a, b) \in Seq(Nodes) /\ Len(Cat(a, b)) = Len(a) + Len(b)
    BY CatType, Zenon
  <1>2. /\ RowsOf(a) \in Seq(Seq(Seq(Keys))) /\ Len(RowsOf(a)) = Len(a)
        /\ RowsOf(b) \in Seq(Seq(Seq(Keys))) /\ Len(RowsOf(b)) = Len(b)
        /\ RowsOf(Cat(a, b)) \in Seq(Seq(Seq(Keys))) /\ Len(RowsOf(Cat(a, b))) = Len(Cat(a, b))
    BY <1>1, RowsOfIs
  <1>3. /\ Cat(RowsOf(a), RowsOf(b)) \in Seq(Seq(Seq(Keys)))
        /\ Len(Cat(RowsOf(a), RowsOf(b))) = Len(RowsOf(a)) + Len(RowsOf(b))
    BY ONLY <1>2, CatType
  <1>4. \A i \in 1..Len(Cat(a, b)) : RowsOf(Cat(a, b))[i] = Cat(RowsOf(a), RowsOf(b))[i]
    <2> TAKE i \in 1..Len(Cat(a, b))
    <2>1. RowsOf(Cat(a, b))[i] = Leaves[Cat(a, b)[i]]
      BY <1>1, RowsOfIs
    <2>2. Place1(a, b, i)
      BY CatPlaces, Zenon
    <2>3. CASE i \in 1..Len(a) /\ Cat(a, b)[i] = a[i]
      <3>1. RowsOf(a)[i] = Leaves[a[i]]
        BY <2>3, RowsOfIs
      <3>2. i \in 1..Len(RowsOf(a))
        BY <2>3, <1>2
      <3>3. Cat(RowsOf(a), RowsOf(b))[i] = RowsOf(a)[i]
        BY ONLY <1>2, <3>2, CatFirst
      <3> QED
        BY <2>1, <2>3, <3>1, <3>3
    <2>4. ASSUME NEW j \in 1..Len(b), i = Len(a) + j, Cat(a, b)[i] = b[j]
          PROVE  RowsOf(Cat(a, b))[i] = Cat(RowsOf(a), RowsOf(b))[i]
      <3>1. RowsOf(b)[j] = Leaves[b[j]]
        BY RowsOfIs
      <3>2. j \in 1..Len(RowsOf(b))
        BY <1>2
      <3>3. Cat(RowsOf(a), RowsOf(b))[Len(RowsOf(a)) + j] = RowsOf(b)[j]
        BY ONLY <1>2, <3>2, CatSecond
      <3> QED
        BY <1>2, <2>1, <2>4, <3>1, <3>3
    <2> QED
      BY <2>2, <2>3, <2>4 DEF Place1
  <1>5. RowsOf(Cat(a, b)) = Cat(RowsOf(a), RowsOf(b))
    <2> DEFINE x == RowsOf(Cat(a, b))
               y == Cat(RowsOf(a), RowsOf(b))
    <2>1. /\ x \in Seq(Seq(Seq(Keys))) /\ y \in Seq(Seq(Seq(Keys))) /\ Len(x) = Len(y)
          /\ \A i \in 1..Len(x) : x[i] = y[i]
      BY <1>1, <1>2, <1>3, <1>4
    <2> HIDE DEF x, y
    <2>2. x = y
      BY <2>1
    <2> QED
      BY <2>2 DEF x, y
  <1>6. Flat(Cat(RowsOf(a), RowsOf(b))) = Cat(Flat(RowsOf(a)), Flat(RowsOf(b)))
    BY ONLY <1>2, FlatCat
  <1> QED
    BY <1>1, <1>5, <1>6, LSIs

\* The leaves below one node.
LEMMA LSOne ==
  ASSUME NEW n \in Nodes
  PROVE  LS(One(n)) = Leaves[n]
  <1>1. One(n) \in Seq(Nodes) /\ Len(One(n)) = 1 /\ One(n)[1] = n
    BY OneIs, Zenon
  <1>2. Leaves[n] \in Seq(Seq(Keys))
    BY LeavesType DEF Rows
  <1>3. One(Leaves[n]) \in Seq(Seq(Seq(Keys))) /\ Len(One(Leaves[n])) = 1 /\ One(Leaves[n])[1] = Leaves[n]
    BY ONLY <1>2, OneIs
  <1>4. /\ RowsOf(One(n)) \in Seq(Seq(Seq(Keys))) /\ Len(RowsOf(One(n))) = 1
        /\ RowsOf(One(n))[1] = Leaves[n]
    BY <1>1, RowsOfIs
  <1>5. RowsOf(One(n)) = One(Leaves[n])
    <2> DEFINE x == RowsOf(One(n))
               y == One(Leaves[n])
    <2>1. /\ x \in Seq(Seq(Seq(Keys))) /\ y \in Seq(Seq(Seq(Keys))) /\ Len(x) = 1 /\ Len(y) = 1
          /\ x[1] = y[1]
      BY <1>3, <1>4
    <2> HIDE DEF x, y
    <2>2. x = y
      BY <2>1
    <2> QED
      BY <2>2 DEF x, y
  <1>6. Flat(One(Leaves[n])) = Leaves[n]
    BY ONLY <1>2, FlatOne
  <1> QED
    BY <1>1, <1>5, <1>6, LSIs

\* There are no leaves below no nodes.
LEMMA LSNil == LS(<<>>) = <<>>
  <1>1. [i \in DOMAIN <<>> |-> Leaves[<<>>[i]]] = <<>>
    OBVIOUS
  <1> QED
    BY <1>1, FlatNil, Zenon DEF LS

\* The keys below a node, and below the nodes ks.
KeysOf(n) == Flat(Leaves[n])
KS(ks) == Flat(LS(ks))

\* The keys below a node are keys.
LEMMA KeysOfType ==
  ASSUME NEW n \in Nodes
  PROVE  KeysOf(n) \in Seq(Keys)
  <1>1. Leaves[n] \in Seq(Seq(Keys))
    BY LeavesType DEF Rows
  <1> QED
    BY <1>1, FlatType DEF KeysOf

\* The keys below several nodes are keys.
LEMMA KSType ==
  ASSUME NEW ks \in Seq(Nodes)
  PROVE  KS(ks) \in Seq(Keys)
  <1>1. LS(ks) \in Seq(Seq(Keys))
    BY LSIs
  <1> QED
    BY <1>1, FlatType DEF KS

\* The keys below the nodes of a concatenation.
LEMMA KSCat ==
  ASSUME NEW a \in Seq(Nodes), NEW b \in Seq(Nodes)
  PROVE  KS(Cat(a, b)) = Cat(KS(a), KS(b))
  <1>1. LS(a) \in Seq(Seq(Keys)) /\ LS(b) \in Seq(Seq(Keys))
    BY LSIs
  <1>2. Flat(Cat(LS(a), LS(b))) = Cat(Flat(LS(a)), Flat(LS(b)))
    BY ONLY <1>1, FlatCat
  <1> QED
    BY <1>2, LSCat, Zenon DEF KS

\* The keys below one node.
LEMMA KSOne ==
  ASSUME NEW n \in Nodes
  PROVE  KS(One(n)) = KeysOf(n)
  BY LSOne, Zenon DEF KS, KeysOf

\* There are no keys below no nodes.
LEMMA KSNil == KS(<<>>) = <<>>
  BY LSNil, FlatNil, Zenon DEF KS

\* The keys below a node are those of the leaf, or of the children.
LEMMA KeysOfStep ==
  ASSUME NEW n \in Nodes
  PROVE  /\ IsLeaf(n) => KeysOf(n) = n.keys
         /\ ~IsLeaf(n) => KeysOf(n) = KS(n.kids)
  <1>1. n.keys \in Seq(Keys)
    BY NodeIs
  <1>2. Flat(One(n.keys)) = n.keys
    BY ONLY <1>1, FlatOne
  <1> QED
    BY <1>2, LeavesStep, Zenon DEF KeysOf, KS

\* What is below a child and what is before and behind it.
LEMMA AroundAKid ==
  ASSUME NEW ks \in Seq(Nodes), NEW i \in 1..Len(ks)
  PROVE  /\ SubSeq(ks, 1, i - 1) \in Seq(Nodes) /\ SubSeq(ks, i + 1, Len(ks)) \in Seq(Nodes)
         /\ ks[i] \in Nodes
         /\ LS(ks) = Cat(Cat(LS(SubSeq(ks, 1, i - 1)), Leaves[ks[i]]), LS(SubSeq(ks, i + 1, Len(ks))))
         /\ KS(ks) = Cat(Cat(KS(SubSeq(ks, 1, i - 1)), KeysOf(ks[i])), KS(SubSeq(ks, i + 1, Len(ks))))
  <1> DEFINE a == SubSeq(ks, 1, i - 1)
             c == SubSeq(ks, i + 1, Len(ks))
  <1>1. a \in Seq(Nodes) /\ c \in Seq(Nodes) /\ ks = Cat(Cat(a, One(ks[i])), c)
    BY TakenOut, Zenon
  <1>2. ks[i] \in Nodes
    OBVIOUS
  <1> HIDE DEF a, c
  <1>3. One(ks[i]) \in Seq(Nodes)
    BY ONLY <1>2, OneIs
  <1>4. Cat(a, One(ks[i])) \in Seq(Nodes)
    BY ONLY <1>1, <1>3, CatType
  <1>5. LS(ks) = Cat(LS(Cat(a, One(ks[i]))), LS(c)) /\ KS(ks) = Cat(KS(Cat(a, One(ks[i]))), KS(c))
    BY <1>1, <1>4, LSCat, KSCat
  <1>6. LS(Cat(a, One(ks[i]))) = Cat(LS(a), Leaves[ks[i]]) /\ KS(Cat(a, One(ks[i]))) = Cat(KS(a), KeysOf(ks[i]))
    BY <1>1, <1>2, <1>3, LSCat, KSCat, LSOne, KSOne
  <1> QED
    BY <1>1, <1>2, <1>5, <1>6 DEF a, c

\* LeavesBefore counts the leaves before a child.
LEMMA LeavesBeforeIs ==
  ASSUME NEW n \in Nodes, NEW i \in 1..Len(n.kids)
  PROVE  LeavesBefore(n, i) = Len(LS(SubSeq(n.kids, 1, i - 1)))
  <1> DEFINE a == SubSeq(n.kids, 1, i - 1)
  <1>1. n.kids \in Seq(Nodes)
    BY NodeIs
  <1>2. a \in Seq(Nodes) /\ Len(a) = i - 1 /\ \A j \in 1..(i - 1) : a[j] = n.kids[j]
    BY <1>1, TakenOut, Zenon
  <1>3. DOMAIN a = 1..(i - 1)
    <2> HIDE DEF a
    <2> QED
      BY <1>2
  <1>4. [j \in DOMAIN a |-> Leaves[a[j]]] = [j \in 1..(i - 1) |-> Leaves[n.kids[j]]]
    <2> HIDE DEF a
    <2> QED
      BY <1>2, <1>3
  <1> HIDE DEF a
  <1>5. LS(a) = FlattenSeq([j \in 1..(i - 1) |-> Leaves[n.kids[j]]])
    BY <1>4, Zenon DEF LS, Flat
  <1>6. LeavesBefore(n, i) = Len(LS(a))
    BY <1>5, Zenon DEF LeavesBefore
  <1> QED
    BY <1>6 DEF a

-----------------------------------------------------------------------------
(***************************************************************************)
(* The class of the trees: their height, the number of their keys, and     *)
(* their separators.                                                       *)
(***************************************************************************)

(***************************************************************************)
(* The balanced trees of each height.                                      *)
(***************************************************************************)

MinOf(o) == (o + 1) \div 2 - 1

\* The nodes among T that have neither too few keys nor too many.
Fit(o, T) == {n \in T : Len(n.keys) \in MinOf(o)..(o - 1)}

\* The separators of n are the first keys of the subtrees on their right.
Separated(n) == \A i \in 1..Len(n.keys) : n.keys[i] = FirstKey(n.kids[i + 1])

Above(o, b, T) == {n \in Over(Fit(o, T)) : ~IsLeaf(n) /\ (b = 1 => Separated(n))}

\* t[h] are the trees of height h, with separators that are first keys if b = 1.
AreTiers(t, o, b, top) == t = [h \in 0..top |-> IF h = 0 THEN Over({}) ELSE Above(o, b, t[h - 1])]
Tiers(o, b) == CHOOSE t : AreTiers(t, o, b, MaxKeys)

\* The function of the trees by height exists, up to any height.
LEMMA TiersExist == \A o, b : \A top \in Nat : \E t : AreTiers(t, o, b, top)
  <1> SUFFICES ASSUME NEW o, NEW b PROVE \A top \in Nat : \E t : AreTiers(t, o, b, top)
    OBVIOUS
  <1> DEFINE S == {top \in Nat : \E t : AreTiers(t, o, b, top)}
  <1>1. 0 \in S
    <2> DEFINE t == [h \in 0..0 |-> Over({})]
    <2>1. \A h \in 0..0 : h = 0
      OBVIOUS
    <2>2. AreTiers(t, o, b, 0)
      BY <2>1 DEF AreTiers
    <2> HIDE DEF t
    <2> QED
      BY <2>2
  <1>2. ASSUME NEW top \in Nat, top \in S PROVE top + 1 \in S
    <2>1. PICK t : AreTiers(t, o, b, top)
      BY <1>2
    <2>2. \A h \in 0..top : t[h] = IF h = 0 THEN Over({}) ELSE Above(o, b, t[h - 1])
      BY <2>1, Zenon DEF AreTiers
    <2> DEFINE w == [h \in 0..(top + 1) |-> IF h \in 0..top THEN t[h] ELSE Above(o, b, t[h - 1])]
    <2>3. ASSUME NEW h \in 0..(top + 1) PROVE w[h] = IF h = 0 THEN Over({}) ELSE Above(o, b, w[h - 1])
      <3>1. h = 0 \/ (h - 1 \in 0..top /\ h - 1 \in 0..(top + 1) /\ h # 0)
        OBVIOUS
      <3>2. h = 0 \/ w[h - 1] = t[h - 1]
        BY <3>1
      <3>3. w[h] = IF h = 0 THEN Over({}) ELSE Above(o, b, t[h - 1])
        BY <2>2
      <3> HIDE DEF w
      <3> QED
        BY <3>2, <3>3
    <2>4. w = [h \in 0..(top + 1) |-> w[h]]
      OBVIOUS
    <2> HIDE DEF w
    <2>5. AreTiers(w, o, b, top + 1)
      BY <2>3, <2>4, Zenon DEF AreTiers
    <2> QED
      BY <2>5
  <1>3. Nat \subseteq S
    <2> HIDE DEF S
    <2> QED
      BY <1>1, <1>2, SetInduction
  <1> QED
    BY <1>3

\* The trees of a height are made of trees of the height below.
LEMMA TiersAre ==
  ASSUME NEW o, NEW b
  PROVE  /\ Tiers(o, b)[0] = Over({})
         /\ \A h \in 1..MaxKeys : Tiers(o, b)[h] = Above(o, b, Tiers(o, b)[h - 1])
  <1>1. PICK t : AreTiers(t, o, b, MaxKeys)
    BY TiersExist, BoundIsNat
  <1>2. AreTiers(Tiers(o, b), o, b, MaxKeys)
    BY <1>1, Zenon DEF Tiers
  <1> DEFINE w == Tiers(o, b)
  <1> HIDE DEF w
  <1>3. \A h \in 0..MaxKeys : w[h] = IF h = 0 THEN Over({}) ELSE Above(o, b, w[h - 1])
    BY <1>2, Zenon DEF AreTiers, w
  <1>4. 0 \in 0..MaxKeys /\ \A h \in 1..MaxKeys : h \in 0..MaxKeys /\ h # 0
    BY BoundIsNat
  <1> QED
    BY <1>3, <1>4, Zenon DEF w

\* The trees of a height are nodes.
LEMMA TiersAreNodes ==
  ASSUME NEW o, NEW b
  PROVE  \A h \in 0..MaxKeys : Tiers(o, b)[h] \subseteq Trees[h + 1] /\ Tiers(o, b)[h] \subseteq Nodes
  <1> DEFINE T == Tiers(o, b)
             S == {h \in Nat : h <= MaxKeys => T[h] \subseteq Trees[h + 1]}
  <1>0. MaxKeys \in Nat
    BY BoundIsNat
  <1> HIDE DEF T
  <1>1. 0 \in S
    <2>1. T[0] = Over({})
      BY TiersAre DEF T
    <2>2. 1 \in 1..(MaxKeys + 1) /\ 1 - 1 = 0 /\ 0 + 1 = 1
      BY <1>0
    <2>3. Trees[1] = Over(Trees[1 - 1])
      BY <2>2, TreesAre
    <2> QED
      BY <2>1, <2>2, <2>3, TreesAre
  <1>2. ASSUME NEW h \in Nat, h \in S PROVE h + 1 \in S
    <2> SUFFICES ASSUME h + 1 <= MaxKeys PROVE T[h + 1] \subseteq Trees[(h + 1) + 1]
      OBVIOUS
    <2>1. /\ h + 1 \in 1..MaxKeys /\ (h + 1) + 1 \in 1..(MaxKeys + 1) /\ h <= MaxKeys
          /\ (h + 1) - 1 = h /\ ((h + 1) + 1) - 1 = h + 1
      BY <1>0
    <2>2. T[h] \subseteq Trees[h + 1]
      BY <1>2, <2>1
    <2>3. T[h + 1] = Above(o, b, T[h])
      <3>1. T[h + 1] = Above(o, b, T[(h + 1) - 1])
        BY <2>1, TiersAre DEF T
      <3> QED
        BY <2>1, <3>1
    <2>4. Trees[(h + 1) + 1] = Over(Trees[h + 1])
      <3>1. Trees[(h + 1) + 1] = Over(Trees[((h + 1) + 1) - 1])
        BY <2>1, TreesAre
      <3> QED
        BY <2>1, <3>1
    <2>5. Fit(o, T[h]) \subseteq Trees[h + 1]
      BY <2>2 DEF Fit
    <2>6. Over(Fit(o, T[h])) \subseteq Over(Trees[h + 1])
      BY ONLY <2>5, OverGrows
    <2>7. Above(o, b, T[h]) \subseteq Over(Fit(o, T[h]))
      BY Zenon DEF Above
    <2> QED
      BY <2>3, <2>4, <2>6, <2>7
  <1>3. Nat \subseteq S
    <2> HIDE DEF S
    <2> QED
      BY <1>1, <1>2, SetInduction
  <1>4. ASSUME NEW h \in 0..MaxKeys PROVE T[h] \subseteq Trees[h + 1] /\ T[h] \subseteq Nodes
    <2>1. h \in Nat /\ h <= MaxKeys /\ h + 1 \in Levels
      BY <1>0 DEF Levels
    <2>2. Trees[h + 1] \subseteq Nodes
      BY <2>1, NodesAre
    <2>3. T[h] \subseteq Trees[h + 1]
      BY <1>3, <2>1
    <2> QED
      BY <2>2, <2>3
  <1> QED
    BY <1>4 DEF T

\* A tree is a leaf, or its children are trees that are one lower.
LEMMA TierIs ==
  ASSUME NEW o, NEW b, NEW h \in 0..MaxKeys, NEW n \in Tiers(o, b)[h]
  PROVE  /\ n \in Nodes
         /\ h = 0 => IsLeaf(n)
         /\ h # 0 => /\ ~IsLeaf(n) /\ h - 1 \in 0..MaxKeys
                     /\ n.kids \in Seq(Fit(o, Tiers(o, b)[h - 1]))
                     /\ \A i \in 1..Len(n.kids) : n.kids[i] \in Fit(o, Tiers(o, b)[h - 1])
                     /\ b = 1 => Separated(n)
  <1> DEFINE T == Tiers(o, b)
  <1>0. MaxKeys \in Nat
    BY BoundIsNat
  <1>1. n \in Nodes
    BY TiersAreNodes
  <1>2. ASSUME h = 0 PROVE IsLeaf(n)
    <2>1. n \in Over({})
      BY <1>2, TiersAre
    <2>2. n.kids \in Seq({})
      BY <2>1, OverIs
    <2>3. n.kids = <<>>
      BY <2>2
    <2> QED
      BY <2>3 DEF IsLeaf
  <1>3. ASSUME h # 0
        PROVE  /\ ~IsLeaf(n) /\ h - 1 \in 0..MaxKeys
               /\ n.kids \in Seq(Fit(o, T[h - 1]))
               /\ \A i \in 1..Len(n.kids) : n.kids[i] \in Fit(o, T[h - 1])
               /\ b = 1 => Separated(n)
    <2>1. h \in 1..MaxKeys /\ h - 1 \in 0..MaxKeys
      BY <1>0, <1>3
    <2>2. n \in Above(o, b, T[h - 1])
      BY <2>1, TiersAre
    <2> HIDE DEF T
    <2>3. n \in Over(Fit(o, T[h - 1])) /\ ~IsLeaf(n) /\ (b = 1 => Separated(n))
      BY <2>2, Zenon DEF Above
    <2>4. n.kids \in Seq(Fit(o, T[h - 1])) /\ \A i \in 1..Len(n.kids) : n.kids[i] \in Fit(o, T[h - 1])
      BY <2>3, OverIs
    <2> QED
      BY <2>1, <2>3, <2>4
  <1> QED
    BY <1>1, <1>2, <1>3

\* A leaf is a tree of height 0.
LEMMA LeafTier ==
  ASSUME NEW o, NEW b, NEW keys \in Seq(Keys)
  PROVE  Leaf(keys) \in Tiers(o, b)[0] /\ IsLeaf(Leaf(keys)) /\ Leaf(keys).keys = keys
         /\ Leaf(keys) \in Nodes
  <1>1. Node(keys, <<>>) \in Over({})
    BY OverHas, EmptySeq
  <1>2. IsLeaf(Leaf(keys)) /\ Leaf(keys).keys = keys
    BY DEF Leaf, Node, IsLeaf
  <1>3. 0 \in 0..MaxKeys
    BY BoundIsNat
  <1>4. Leaf(keys) \in Tiers(o, b)[0]
    BY <1>1, TiersAre DEF Leaf
  <1> QED
    BY <1>2, <1>3, <1>4, TiersAreNodes

\* Entries of the height below make a tree.
LEMMA ParentTier ==
  ASSUME NEW o, NEW b, NEW h \in 1..MaxKeys, NEW keys \in Seq(Keys),
         NEW kids \in Seq(Fit(o, Tiers(o, b)[h - 1])), Len(kids) = Len(keys) + 1,
         b = 1 => Separated(Node(keys, kids))
  PROVE  /\ Node(keys, kids) \in Tiers(o, b)[h] /\ Node(keys, kids) \in Nodes
         /\ ~IsLeaf(Node(keys, kids))
         /\ Node(keys, kids).keys = keys /\ Node(keys, kids).kids = kids
  <1>1. Node(keys, kids).keys = keys /\ Node(keys, kids).kids = kids
    BY DEF Node
  <1>2. Node(keys, kids) \in Over(Fit(o, Tiers(o, b)[h - 1]))
    BY OverHas, Zenon
  <1>3. kids # <<>>
    BY EmptySeq
  <1>4. ~IsLeaf(Node(keys, kids))
    BY <1>1, <1>3 DEF IsLeaf
  <1>5. Node(keys, kids) \in Above(o, b, Tiers(o, b)[h - 1])
    BY <1>2, <1>4, Zenon DEF Above
  <1>6. h \in 0..MaxKeys
    BY BoundIsNat
  <1> QED
    BY <1>1, <1>4, <1>5, <1>6, TiersAre, TiersAreNodes

\* The nodes that can be a root of height h: not full, and a parent has a key.
Sound(o, b, h) == {n \in Tiers(o, b)[h] : Len(n.keys) < o /\ (h # 0 => n.keys # <<>>)}

IsOrder(o) == o \in Nat /\ o >= 3

\* From order 3 on, the fewest keys of a node are at least one.
LEMMA MinIs ==
  ASSUME NEW o, IsOrder(o)
  PROVE  MinOf(o) \in Nat /\ MinOf(o) >= 1 /\ MinOf(o) < o
  BY DEF MinOf, IsOrder

\* What is known of a fit child: it has a key, and could be a root.
LEMMA FitIs ==
  ASSUME NEW o, IsOrder(o), NEW b, NEW h \in 0..MaxKeys, NEW n \in Fit(o, Tiers(o, b)[h])
  PROVE  /\ n \in Tiers(o, b)[h] /\ n \in Nodes /\ n.keys # <<>> /\ n \in Sound(o, b, h)
         /\ Len(n.keys) \in MinOf(o)..(o - 1) /\ n.keys \in Seq(Keys)
  <1>1. n \in Tiers(o, b)[h] /\ Len(n.keys) \in MinOf(o)..(o - 1)
    BY DEF Fit
  <1>2. n \in Nodes
    BY <1>1, TiersAreNodes
  <1>3. n.keys \in Seq(Keys)
    BY <1>2, NodeIs
  <1>4. n.keys # <<>> /\ Len(n.keys) < o
    BY <1>1, <1>3, MinIs DEF IsOrder
  <1> QED
    BY <1>1, <1>2, <1>3, <1>4 DEF Sound

\* No leaf below n is empty.
Fulls == Seq(Keys) \ {<<>>}
Filled(n) == Leaves[n] \in Seq(Fulls)

\* The children of a tree, as nodes and with no empty leaf.
LEMMA TiersFilled ==
  ASSUME NEW o, IsOrder(o), NEW b
  PROVE  \A h \in 0..MaxKeys : \A n \in Tiers(o, b)[h] :
           /\ h # 0 \/ n.keys # <<>> => Filled(n)
           /\ n.keys # <<>> => Len(Leaves[n]) >= h + 1
  <1> DEFINE P(h) == \A n \in Tiers(o, b)[h] :
                       /\ h # 0 \/ n.keys # <<>> => Filled(n)
                       /\ n.keys # <<>> => Len(Leaves[n]) >= h + 1
             S == {h \in Nat : h <= MaxKeys => P(h)}
  <1>0. MaxKeys \in Nat
    BY BoundIsNat
  <1>1. 0 \in S
    <2> SUFFICES ASSUME NEW n \in Tiers(o, b)[0], n.keys # <<>>
                 PROVE  Filled(n) /\ Len(Leaves[n]) >= 0 + 1
      BY <1>0
    <2>1. n \in Nodes /\ IsLeaf(n)
      BY <1>0, TierIs
    <2>2. n.keys \in Fulls
      BY <2>1, NodeIs DEF Fulls
    <2>3. Leaves[n] = One(n.keys)
      BY <2>1, LeavesStep
    <2>4. One(n.keys) \in Seq(Fulls) /\ Len(One(n.keys)) = 1
      BY ONLY <2>2, OneIs
    <2> QED
      BY <2>3, <2>4 DEF Filled
  <1>2. ASSUME NEW h \in Nat, h \in S PROVE h + 1 \in S
    <2> SUFFICES ASSUME h + 1 <= MaxKeys, NEW n \in Tiers(o, b)[h + 1]
                 PROVE  Filled(n) /\ (n.keys # <<>> => Len(Leaves[n]) >= (h + 1) + 1)
      OBVIOUS
    <2>1. h + 1 \in 0..MaxKeys /\ h + 1 # 0 /\ (h + 1) - 1 = h /\ h \in 0..MaxKeys /\ h <= MaxKeys
      BY <1>0
    <2>2. /\ n \in Nodes /\ ~IsLeaf(n)
          /\ \A i \in 1..Len(n.kids) : n.kids[i] \in Fit(o, Tiers(o, b)[h])
      <3>1. /\ n \in Nodes /\ ~IsLeaf(n)
            /\ \A i \in 1..Len(n.kids) : n.kids[i] \in Fit(o, Tiers(o, b)[(h + 1) - 1])
        BY <2>1, TierIs
      <3> QED
        BY <2>1, <3>1
    <2>3. \A i \in 1..Len(n.kids) : Filled(n.kids[i]) /\ Len(Leaves[n.kids[i]]) >= h + 1
      <3> TAKE i \in 1..Len(n.kids)
      <3>1. n.kids[i] \in Tiers(o, b)[h] /\ n.kids[i].keys # <<>>
        BY <2>1, <2>2, FitIs
      <3> QED
        BY <1>2, <2>1, <3>1
    <2>4. n.kids \in Seq(Nodes) /\ Leaves[n] = LS(n.kids) /\ Len(n.kids) = Len(n.keys) + 1
          /\ n.keys \in Seq(Keys)
      BY <2>2, NodeIs, LeavesStep
    <2>5. Filled(n)
      <3>1. \A i \in 1..Len(n.kids) : RowsOf(n.kids)[i] \in Seq(Fulls)
        BY <2>3, <2>4, RowsOfIs DEF Filled
      <3>2. RowsOf(n.kids) \in Seq(Seq(Seq(Keys))) /\ Len(RowsOf(n.kids)) = Len(n.kids)
        BY <2>4, RowsOfIs
      <3>3. RowsOf(n.kids) \in Seq(Seq(Fulls))
        <4> DEFINE r == RowsOf(n.kids)
                   m == Len(n.kids)
                   X == Seq(Fulls)
        <4> HIDE DEF r, m, X
        <4>1. r \in Seq(Seq(Seq(Keys))) /\ Len(r) = m /\ \A i \in 1..m : r[i] \in X
          BY <3>1, <3>2 DEF r, m, X
        <4>2. r \in Seq(X)
          BY <4>1
        <4> QED
          BY <4>2 DEF r, X
      <3>4. Flat(RowsOf(n.kids)) \in Seq(Fulls)
        BY ONLY <3>3, FlatType
      <3> QED
        BY <2>4, <3>4, LSIs DEF Filled
    <2>6. ASSUME n.keys # <<>> PROVE Len(Leaves[n]) >= (h + 1) + 1
      <3> DEFINE a == SubSeq(n.kids, 1, 1 - 1)
                 c == SubSeq(n.kids, 1 + 1, Len(n.kids))
      <3>1. Len(n.keys) >= 1 /\ 1 \in 1..Len(n.kids)
        BY <2>4, <2>6
      <3>2. /\ a \in Seq(Nodes) /\ c \in Seq(Nodes) /\ n.kids[1] \in Nodes
            /\ LS(n.kids) = Cat(Cat(LS(a), Leaves[n.kids[1]]), LS(c))
        BY <2>4, <3>1, AroundAKid
      <3>3. Len(c) = Len(n.kids) - 1
        BY <2>4, <3>1, TakenOut
      <3> HIDE DEF a, c
      <3>4. LS(a) \in Seq(Seq(Keys)) /\ LS(c) \in Seq(Seq(Keys)) /\ Len(LS(c)) >= Len(c)
        BY <3>2, LSIs
      <3>5. Leaves[n.kids[1]] \in Seq(Seq(Keys)) /\ Len(Leaves[n.kids[1]]) >= h + 1
        BY <2>3, <3>1, <3>2, LeavesType DEF Rows
      <3>6. Cat(LS(a), Leaves[n.kids[1]]) \in Seq(Seq(Keys))
            /\ Len(Cat(LS(a), Leaves[n.kids[1]])) = Len(LS(a)) + Len(Leaves[n.kids[1]])
        BY ONLY <3>4, <3>5, CatType
      <3>7. Len(LS(n.kids)) = (Len(LS(a)) + Len(Leaves[n.kids[1]])) + Len(LS(c))
        <4>1. Len(Cat(Cat(LS(a), Leaves[n.kids[1]]), LS(c)))
                = Len(Cat(LS(a), Leaves[n.kids[1]])) + Len(LS(c))
          BY ONLY <3>4, <3>6, CatType
        <4> QED
          BY <3>2, <3>6, <4>1
      <3>8. Len(LS(a)) \in Nat /\ Len(LS(c)) \in Nat /\ Len(Leaves[n.kids[1]]) \in Nat
            /\ Len(n.keys) \in Nat
        BY <2>4, <3>4, <3>5
      <3> QED
        BY <2>4, <3>1, <3>3, <3>4, <3>5, <3>7, <3>8
    <2> QED
      BY <2>5, <2>6
  <1>3. Nat \subseteq S
    <2> HIDE DEF S
    <2> QED
      BY <1>1, <1>2, SetInduction
  <1> QED
    BY <1>0, <1>3

\* The first of a concatenation is the first of its first part.
LEMMA HeadCat ==
  ASSUME NEW S, NEW a \in Seq(S), NEW b \in Seq(S), a # <<>>
  PROVE  Cat(a, b) # <<>> /\ Head(Cat(a, b)) = Head(a)
  <1>1. Cat(a, b) \in Seq(S) /\ Len(Cat(a, b)) = Len(a) + Len(b) /\ 1 \in 1..Len(a)
        /\ Len(a) \in Nat /\ Len(b) \in Nat
    <2>1. Cat(a, b) \in Seq(S) /\ Len(Cat(a, b)) = Len(a) + Len(b)
      BY CatType, Zenon
    <2>2. Len(a) \in Nat /\ Len(b) \in Nat /\ Len(a) # 0
      BY EmptySeq
    <2> QED
      BY <2>1, <2>2
  <1>2. Cat(a, b)[1] = a[1]
    BY <1>1, CatFirst
  <1>3. Cat(a, b) # <<>>
    BY <1>1
  <1>4. Head(Cat(a, b)) = Cat(a, b)[1] /\ Head(a) = a[1]
    BY <1>1, <1>3, FirstOff
  <1> QED
    BY <1>2, <1>3, <1>4

\* The first key of a node is the first of the keys below it.
LEMMA FirstKeyIs ==
  ASSUME NEW n \in Nodes, Filled(n)
  PROVE  /\ KeysOf(n) \in Seq(Keys) /\ KeysOf(n) # <<>> /\ FirstKey(n) = Head(KeysOf(n))
         /\ Len(Leaves[n]) \in Nat /\ Len(KeysOf(n)) >= Len(Leaves[n])
  <1>1. Leaves[n] \in Seq(Seq(Keys)) /\ Leaves[n] # <<>>
    BY LeavesType DEF Rows
  <1>2. Leaves[n] \in Seq(Fulls)
    BY DEF Filled
  <1>3. \A i \in 1..Len(Leaves[n]) : Leaves[n][i] # <<>>
    BY <1>2 DEF Fulls
  <1>4. Len(Flat(Leaves[n])) \in Nat /\ Len(Flat(Leaves[n])) >= Len(Leaves[n])
    BY ONLY <1>1, <1>3, FlatLong
  <1>5. /\ Head(Leaves[n]) \in Seq(Keys) /\ Tail(Leaves[n]) \in Seq(Seq(Keys))
        /\ Flat(Leaves[n]) = Cat(Head(Leaves[n]), Flat(Tail(Leaves[n])))
    BY ONLY <1>1, FlatFirst
  <1>6. Head(Leaves[n]) # <<>>
    <2>1. Leaves[n][1] = Head(Leaves[n])
      BY ONLY <1>1, FirstOff
    <2>2. 1 \in 1..Len(Leaves[n])
      BY <1>1
    <2> QED
      BY <1>3, <2>1, <2>2
  <1>7. Flat(Tail(Leaves[n])) \in Seq(Keys)
    BY ONLY <1>5, FlatType
  <1>8. /\ Cat(Head(Leaves[n]), Flat(Tail(Leaves[n]))) # <<>>
        /\ Head(Cat(Head(Leaves[n]), Flat(Tail(Leaves[n])))) = Head(Head(Leaves[n]))
    BY ONLY <1>5, <1>6, <1>7, HeadCat
  <1>9. KeysOf(n) \in Seq(Keys)
    BY KeysOfType
  <1>10. Len(Leaves[n]) \in Nat
    BY <1>1
  <1> QED
    BY <1>4, <1>5, <1>8, <1>9, <1>10 DEF KeysOf, FirstKey

\* The leaves of a tree of height h are h below its root.
LEMMA TiersDepth ==
  ASSUME NEW o, IsOrder(o), NEW b
  PROVE  \A h \in 0..MaxKeys : \A n \in Tiers(o, b)[h] : Depths[n] = {h}
  <1> DEFINE S == {h \in Nat : h <= MaxKeys => \A n \in Tiers(o, b)[h] : Depths[n] = {h}}
  <1>0. MaxKeys \in Nat
    BY BoundIsNat
  <1>1. 0 \in S
    <2> SUFFICES ASSUME NEW n \in Tiers(o, b)[0] PROVE Depths[n] = {0}
      OBVIOUS
    <2>1. n \in Nodes /\ IsLeaf(n)
      BY <1>0, TierIs
    <2> QED
      BY <2>1, DepthsAre DEF DepthsBy
  <1>2. ASSUME NEW h \in Nat, h \in S PROVE h + 1 \in S
    <2> SUFFICES ASSUME h + 1 <= MaxKeys, NEW n \in Tiers(o, b)[h + 1] PROVE Depths[n] = {h + 1}
      OBVIOUS
    <2>1. h + 1 \in 0..MaxKeys /\ h + 1 # 0 /\ (h + 1) - 1 = h /\ h \in 0..MaxKeys /\ h <= MaxKeys
      BY <1>0
    <2>2. /\ n \in Nodes /\ ~IsLeaf(n)
          /\ \A i \in 1..Len(n.kids) : n.kids[i] \in Fit(o, Tiers(o, b)[h])
      <3>1. /\ n \in Nodes /\ ~IsLeaf(n)
            /\ \A i \in 1..Len(n.kids) : n.kids[i] \in Fit(o, Tiers(o, b)[(h + 1) - 1])
        BY <2>1, TierIs
      <3> QED
        BY <2>1, <3>1
    <2>3. \A i \in 1..Len(n.kids) : Depths[n.kids[i]] = {h}
      BY <1>2, <2>1, <2>2, FitIs
    <2>4. n.kids \in Seq(Nodes) /\ 1 \in 1..Len(n.kids) /\ DOMAIN n.kids = 1..Len(n.kids)
      BY <2>2, NodeIs
    <2>5. ToSet(n.kids) = {n.kids[i] : i \in 1..Len(n.kids)}
      BY <2>4, Zenon DEF ToSet
    <2>6. \A m \in ToSet(n.kids) : Depths[m] = {h}
      BY <2>3, <2>5
    <2>7. n.kids[1] \in ToSet(n.kids)
      BY <2>4, <2>5
    <2>8. UNION {Depths[m] : m \in ToSet(n.kids)} = {h}
      BY <2>6, <2>7
    <2>9. Depths[n] = {d + 1 : d \in UNION {Depths[m] : m \in ToSet(n.kids)}}
      BY <2>2, DepthsAre, Zenon DEF DepthsBy
    <2>10. Depths[n] = {d + 1 : d \in {h}}
      BY <2>8, <2>9
    <2> QED
      BY <2>10
  <1>3. Nat \subseteq S
    <2> HIDE DEF S
    <2> QED
      BY <1>1, <1>2, SetInduction
  <1> QED
    BY <1>0, <1>3

\* The nodes below a tree are fit, and separated if b = 1.
Proper(o, b, m) == Len(m.keys) \in MinOf(o)..(o - 1) /\ (b = 1 /\ ~IsLeaf(m) => Separated(m))

\* All nodes below a tree have the right number of keys, and separators that fit.
LEMMA TiersBelow ==
  ASSUME NEW o, IsOrder(o), NEW b
  PROVE  \A h \in 0..MaxKeys : \A n \in Tiers(o, b)[h] : \A m \in Below[n] : Proper(o, b, m) /\ m \in Nodes
  <1> DEFINE S == {h \in Nat : h <= MaxKeys =>
                     \A n \in Tiers(o, b)[h] : \A m \in Below[n] : Proper(o, b, m) /\ m \in Nodes}
  <1>0. MaxKeys \in Nat
    BY BoundIsNat
  <1>1. 0 \in S
    <2> SUFFICES ASSUME NEW n \in Tiers(o, b)[0] PROVE Below[n] = {}
      OBVIOUS
    <2>1. n \in Nodes /\ IsLeaf(n)
      BY <1>0, TierIs
    <2>2. ToSet(n.kids) = {}
      BY <2>1 DEF IsLeaf, ToSet
    <2>3. Below[n] = ToSet(n.kids) \cup UNION {Below[m] : m \in ToSet(n.kids)}
      BY <2>1, BelowIs, Zenon DEF BelowBy
    <2> QED
      BY <2>2, <2>3
  <1>2. ASSUME NEW h \in Nat, h \in S PROVE h + 1 \in S
    <2> SUFFICES ASSUME h + 1 <= MaxKeys, NEW n \in Tiers(o, b)[h + 1], NEW m \in Below[n]
                 PROVE  Proper(o, b, m) /\ m \in Nodes
      OBVIOUS
    <2>1. h + 1 \in 0..MaxKeys /\ h + 1 # 0 /\ (h + 1) - 1 = h /\ h \in 0..MaxKeys /\ h <= MaxKeys
      BY <1>0
    <2>2. /\ n \in Nodes
          /\ \A i \in 1..Len(n.kids) : n.kids[i] \in Fit(o, Tiers(o, b)[h])
      <3>1. /\ n \in Nodes
            /\ \A i \in 1..Len(n.kids) : n.kids[i] \in Fit(o, Tiers(o, b)[(h + 1) - 1])
        BY <2>1, TierIs
      <3> QED
        BY <2>1, <3>1
    <2>3. n.kids \in Seq(Nodes) /\ DOMAIN n.kids = 1..Len(n.kids)
      BY <2>2, NodeIs
    <2>4. ToSet(n.kids) = {n.kids[i] : i \in 1..Len(n.kids)}
      BY <2>3, Zenon DEF ToSet
    <2>5. \A x \in ToSet(n.kids) : x \in Fit(o, Tiers(o, b)[h])
      BY <2>2, <2>4
    <2>6. Below[n] = ToSet(n.kids) \cup UNION {Below[x] : x \in ToSet(n.kids)}
      BY <2>2, BelowIs, Zenon DEF BelowBy
    <2>7. CASE m \in ToSet(n.kids)
      <3>1. m \in Fit(o, Tiers(o, b)[h])
        BY <2>5, <2>7
      <3>2. m \in Tiers(o, b)[h] /\ m \in Nodes /\ Len(m.keys) \in MinOf(o)..(o - 1)
        BY <2>1, <3>1, FitIs
      <3>3. b = 1 /\ ~IsLeaf(m) => Separated(m)
        BY <2>1, <3>2, TierIs
      <3> QED
        BY <3>2, <3>3 DEF Proper
    <2>8. ASSUME NEW x \in ToSet(n.kids), m \in Below[x] PROVE Proper(o, b, m) /\ m \in Nodes
      <3>1. x \in Tiers(o, b)[h]
        BY <2>1, <2>5, FitIs
      <3> QED
        BY <1>2, <2>1, <2>8, <3>1
    <2> QED
      BY <2>6, <2>7, <2>8
  <1>3. Nat \subseteq S
    <2> HIDE DEF S
    <2> QED
      BY <1>1, <1>2, SetInduction
  <1> QED
    BY <1>0, <1>3

(***************************************************************************)
(* The way down to the leaf of a key.                                      *)
(***************************************************************************)

\* What is known of a parent among the trees with separators.
ParentHas(o, b, h, n) ==
    /\ n \in Nodes /\ n \in Parents /\ Filled(n) /\ ~IsLeaf(n)
    /\ n.keys \in Seq(Keys) /\ n.kids \in Seq(Nodes) /\ Len(n.kids) = Len(n.keys) + 1
    /\ Len(n.keys) \in Nat
    /\ h - 1 \in 0..MaxKeys
    /\ \A i \in 1..Len(n.kids) :
         /\ n.kids[i] \in Nodes /\ n.kids[i] \in Fit(o, Tiers(o, b)[h - 1])
         /\ n.kids[i] \in Sound(o, b, h - 1) /\ n.kids[i] \in Tiers(o, b)[h - 1]
         /\ Filled(n.kids[i])
    /\ b = 1 => \A i \in 1..Len(n.keys) : n.keys[i] = FirstKey(n.kids[i + 1])

\* What is known of the parents among the trees.
LEMMA ParentIs ==
  ASSUME NEW o, IsOrder(o), NEW b, NEW h \in 0..MaxKeys, h # 0, NEW n \in Tiers(o, b)[h]
  PROVE  ParentHas(o, b, h, n)
  <1>1. /\ n \in Nodes /\ ~IsLeaf(n) /\ h - 1 \in 0..MaxKeys
        /\ \A i \in 1..Len(n.kids) : n.kids[i] \in Fit(o, Tiers(o, b)[h - 1])
        /\ b = 1 => Separated(n)
    BY TierIs
  <1>2. n.keys \in Seq(Keys) /\ n.kids \in Seq(Nodes) /\ Len(n.kids) = Len(n.keys) + 1
    BY <1>1, NodeIs
  <1>3. Len(n.keys) \in Nat
    BY <1>2
  <1>4. \A i \in 1..Len(n.kids) :
              /\ n.kids[i] \in Nodes /\ n.kids[i] \in Fit(o, Tiers(o, b)[h - 1])
              /\ n.kids[i] \in Sound(o, b, h - 1) /\ n.kids[i] \in Tiers(o, b)[h - 1]
              /\ Filled(n.kids[i])
    <2> TAKE i \in 1..Len(n.kids)
    <2>1. n.kids[i] \in Fit(o, Tiers(o, b)[h - 1])
      BY <1>1
    <2>2. /\ n.kids[i] \in Nodes /\ n.kids[i] \in Sound(o, b, h - 1)
          /\ n.kids[i] \in Tiers(o, b)[h - 1] /\ n.kids[i].keys # <<>>
      BY <1>1, <2>1, FitIs
    <2>3. Filled(n.kids[i])
      BY <1>1, <2>2, TiersFilled
    <2> QED
      BY <2>1, <2>2, <2>3
  <1>5. Filled(n)
    BY TiersFilled
  <1>6. b = 1 => \A i \in 1..Len(n.keys) : n.keys[i] = FirstKey(n.kids[i + 1])
    BY <1>1 DEF Separated
  <1>7. n \in Parents
    BY <1>1 DEF Parents
  <1> QED
    BY <1>1, <1>2, <1>3, <1>4, <1>5, <1>6, <1>7 DEF ParentHas

\* The first of the keys below several nodes is that of the first node.
LEMMA FirstOfKids ==
  ASSUME NEW ks \in Seq(Nodes), ks # <<>>, Filled(ks[1])
  PROVE  KS(ks) \in Seq(Keys) /\ KS(ks) # <<>> /\ Head(KS(ks)) = FirstKey(ks[1])
  <1> DEFINE a == SubSeq(ks, 1, 1 - 1)
             c == SubSeq(ks, 1 + 1, Len(ks))
  <1>1. 1 \in 1..Len(ks) /\ ks[1] \in Nodes
    OBVIOUS
  <1>2. /\ a \in Seq(Nodes) /\ c \in Seq(Nodes)
        /\ KS(ks) = Cat(Cat(KS(a), KeysOf(ks[1])), KS(c))
    BY <1>1, AroundAKid
  <1>3. a = <<>>
    OBVIOUS
  <1> HIDE DEF a, c
  <1>4. KeysOf(ks[1]) \in Seq(Keys) /\ KeysOf(ks[1]) # <<>> /\ FirstKey(ks[1]) = Head(KeysOf(ks[1]))
    BY <1>1, FirstKeyIs
  <1>5. Cat(KS(a), KeysOf(ks[1])) = KeysOf(ks[1])
    BY <1>3, <1>4, KSNil, CatNil
  <1>6. KS(c) \in Seq(Keys)
    BY <1>2, KSType
  <1>7. /\ Cat(KeysOf(ks[1]), KS(c)) # <<>>
        /\ Head(Cat(KeysOf(ks[1]), KS(c))) = Head(KeysOf(ks[1]))
    BY ONLY <1>4, <1>6, HeadCat
  <1> QED
    BY <1>2, <1>4, <1>5, <1>7, KSType

\* The first key of a parent is that of its first child.
LEMMA FirstKeyOfParent ==
  ASSUME NEW o, IsOrder(o), NEW b, NEW h \in 0..MaxKeys, h # 0, NEW n \in Tiers(o, b)[h]
  PROVE  FirstKey(n) = FirstKey(n.kids[1])
  <1>1. /\ n \in Nodes /\ Filled(n) /\ ~IsLeaf(n) /\ n.kids \in Seq(Nodes)
        /\ Len(n.kids) = Len(n.keys) + 1 /\ Len(n.keys) \in Nat
        /\ \A i \in 1..Len(n.kids) : Filled(n.kids[i])
    <2>1. ParentHas(o, b, h, n)
      BY ParentIs
    <2> QED
      BY <2>1 DEF ParentHas
  <1>2. n.kids # <<>> /\ 1 \in 1..Len(n.kids)
    BY <1>1
  <1>3. Head(KS(n.kids)) = FirstKey(n.kids[1])
    BY <1>1, <1>2, FirstOfKids
  <1>4. FirstKey(n) = Head(KeysOf(n)) /\ KeysOf(n) = KS(n.kids)
    BY <1>1, FirstKeyIs, KeysOfStep
  <1> QED
    BY <1>3, <1>4

\* Around the child that findChild leads to: the keys before it are not larger
\* than the key, and those behind it are.
LEMMA ChildHolds ==
  ASSUME NEW o, IsOrder(o), NEW h \in 0..MaxKeys, h # 0, NEW n \in Tiers(o, 1)[h],
         Sorted(KeysOf(n)), NEW v \in Int
  PROVE  \E i \in 1..Len(n.kids) : \E pre, post \in Seq(Nodes) :
           /\ i = findChild(n, v)
           /\ pre = SubSeq(n.kids, 1, i - 1) /\ post = SubSeq(n.kids, i + 1, Len(n.kids))
           /\ Leaves[n] = Cat(Cat(LS(pre), Leaves[n.kids[i]]), LS(post))
           /\ KeysOf(n) = Cat(Cat(KS(pre), KeysOf(n.kids[i])), KS(post))
           /\ Sorted(KS(pre)) /\ Sorted(KeysOf(n.kids[i])) /\ Sorted(KS(post))
           /\ InOrder(KS(pre), KeysOf(n.kids[i]))
           /\ Upto(KS(pre), v) /\ Beyond(KS(post), v)
           /\ i # 1 => FirstKey(n.kids[i]) <= v
           /\ i = 1 => KS(pre) = <<>>
  <1> DEFINE i == findChild(n, v)
             pre == SubSeq(n.kids, 1, i - 1)
             post == SubSeq(n.kids, i + 1, Len(n.kids))
             kid == n.kids[i]
  <1>1. /\ n \in Nodes /\ n \in Parents /\ ~IsLeaf(n) /\ n.keys \in Seq(Keys) /\ n.kids \in Seq(Nodes)
        /\ Len(n.kids) = Len(n.keys) + 1 /\ Len(n.keys) \in Nat
        /\ \A j \in 1..Len(n.kids) : n.kids[j] \in Nodes /\ Filled(n.kids[j])
        /\ \A j \in 1..Len(n.keys) : n.keys[j] = FirstKey(n.kids[j + 1])
    BY ParentIs DEF ParentHas
  <1>2. i \in 1..Len(n.kids)
    BY <1>1, ChildIsFound
  <1>3. \/ i = Len(n.kids) /\ Upto(n.keys, v)
        \/ i \in 1..Len(n.keys) /\ v < n.keys[i] /\ \A j \in 1..Len(n.keys) : j < i => n.keys[j] <= v
    BY <1>1, FirstLargerIs DEF findChild
  <1> HIDE DEF i
  <1>4. /\ pre \in Seq(Nodes) /\ post \in Seq(Nodes) /\ Len(pre) = i - 1 /\ Len(post) = Len(n.kids) - i
        /\ \A j \in 1..(Len(n.kids) - i) : post[j] = n.kids[i + j]
    BY <1>1, <1>2, TakenOut, Zenon
  <1> HIDE DEF pre, post
  <1>5. /\ LS(n.kids) = Cat(Cat(LS(pre), Leaves[kid]), LS(post))
        /\ KS(n.kids) = Cat(Cat(KS(pre), KeysOf(kid)), KS(post))
    BY <1>1, <1>2, AroundAKid DEF pre, post
  <1>6. Leaves[n] = LS(n.kids) /\ KeysOf(n) = KS(n.kids)
    BY <1>1, LeavesStep, KeysOfStep
  <1>7. KS(pre) \in Seq(Keys) /\ KS(post) \in Seq(Keys)
    BY <1>4, KSType
  <1>8. /\ kid \in Nodes /\ KeysOf(kid) \in Seq(Keys) /\ KeysOf(kid) # <<>>
        /\ FirstKey(kid) = Head(KeysOf(kid))
    BY <1>1, <1>2, FirstKeyIs
  <1> HIDE DEF kid
  <1>9. Cat(KS(pre), KeysOf(kid)) \in Seq(Keys)
    BY ONLY <1>7, <1>8, CatType
  <1>10. Sorted(Cat(KS(pre), KeysOf(kid))) /\ Sorted(KS(post))
    <2>1. Sorted(Cat(Cat(KS(pre), KeysOf(kid)), KS(post)))
      BY <1>5, <1>6
    <2> QED
      BY ONLY <1>7, <1>9, <2>1, SortedCat
  <1>11. Sorted(KS(pre)) /\ Sorted(KeysOf(kid)) /\ InOrder(KS(pre), KeysOf(kid))
    BY ONLY <1>7, <1>8, <1>10, SortedCat
  <1>12. ASSUME i # 1 PROVE FirstKey(kid) <= v
    <2>1. i - 1 \in 1..Len(n.keys) /\ (i - 1) + 1 = i
      BY <1>1, <1>2, <1>12
    <2>2. n.keys[i - 1] <= v
      <3>1. i - 1 < i
        BY <1>2
      <3> QED
        BY <1>3, <2>1, <3>1 DEF Upto
    <2>3. n.keys[i - 1] = FirstKey(n.kids[(i - 1) + 1])
      BY <1>1, <2>1
    <2> QED
      BY <2>1, <2>2, <2>3 DEF kid
  <1>13. ASSUME i = 1 PROVE KS(pre) = <<>>
    <2>1. pre = <<>>
      BY <1>4, <1>13, EmptySeq
    <2> QED
      BY <2>1, KSNil
  <1>14. Upto(KS(pre), v)
    <2>1. CASE i = 1
      BY <1>13, <2>1 DEF Upto
    <2>2. CASE i # 1
      <3>1. Head(KeysOf(kid)) <= v
        BY <1>8, <1>12, <2>2
      <3> QED
        BY ONLY <1>7, <1>8, <1>10, <3>1, v \in Int, HeadInOrder
    <2> QED
      BY <2>1, <2>2
  <1>15. Beyond(KS(post), v)
    <2>1. CASE i = Len(n.kids)
      <3>1. post = <<>>
        BY <1>1, <1>4, <2>1, EmptySeq
      <3> QED
        BY <3>1, KSNil DEF Beyond
    <2>2. CASE i # Len(n.kids)
      <3>1. i \in 1..Len(n.keys) /\ v < n.keys[i] /\ n.keys[i] = FirstKey(n.kids[i + 1])
        BY <1>1, <1>3, <2>2
      <3>2. post # <<>> /\ post[1] = n.kids[i + 1] /\ Filled(post[1])
        <4>1. 1 \in 1..(Len(n.kids) - i) /\ i + 1 \in 1..Len(n.kids)
          BY <1>1, <3>1
        <4>2. post[1] = n.kids[i + 1] /\ Filled(n.kids[i + 1])
          BY <1>1, <1>4, <4>1
        <4> QED
          BY <1>4, <4>1, <4>2
      <3>3. Head(KS(post)) = FirstKey(post[1])
        BY <1>4, <3>2, FirstOfKids
      <3>4. v < Head(KS(post))
        BY <3>1, <3>2, <3>3
      <3> QED
        BY ONLY <1>7, <1>10, <3>4, v \in Int, HeadBeyond
    <2> QED
      BY <2>1, <2>2
  <1>16. /\ i = findChild(n, v)
         /\ pre = SubSeq(n.kids, 1, i - 1) /\ post = SubSeq(n.kids, i + 1, Len(n.kids))
         /\ kid = n.kids[i]
    BY DEF i, pre, post, kid
  <1> QED
    BY <1>2, <1>4, <1>5, <1>6, <1>10, <1>11, <1>12, <1>13, <1>14, <1>15, <1>16, Zenon

Has(s, v) == \E i \in 1..Len(s) : s[i] = v

\* A concatenation has a key if one of its parts has it.
LEMMA HasCat ==
  ASSUME NEW S, NEW a \in Seq(S), NEW b \in Seq(S), NEW v
  PROVE  Has(Cat(a, b), v) <=> Has(a, v) \/ Has(b, v)
  <1>1. Cat(a, b) \in Seq(S) /\ Len(Cat(a, b)) = Len(a) + Len(b)
    BY CatType, Zenon
  <1>2. Len(a) \in Nat /\ Len(b) \in Nat
    OBVIOUS
  <1>3. ASSUME Has(Cat(a, b), v) PROVE Has(a, v) \/ Has(b, v)
    <2>1. PICK i \in 1..Len(Cat(a, b)) : Cat(a, b)[i] = v
      BY <1>3 DEF Has
    <2>2. Place1(a, b, i)
      BY CatPlaces, Zenon
    <2> QED
      BY <2>1, <2>2 DEF Place1, Has
  <1>4. ASSUME Has(a, v) PROVE Has(Cat(a, b), v)
    <2>1. PICK i \in 1..Len(a) : a[i] = v
      BY <1>4 DEF Has
    <2>2. Cat(a, b)[i] = a[i]
      BY CatFirst, Zenon
    <2>3. i \in 1..Len(Cat(a, b))
      BY <1>1, <1>2
    <2> QED
      BY <2>1, <2>2, <2>3 DEF Has
  <1>5. ASSUME Has(b, v) PROVE Has(Cat(a, b), v)
    <2>1. PICK i \in 1..Len(b) : b[i] = v
      BY <1>5 DEF Has
    <2>2. Cat(a, b)[Len(a) + i] = b[i]
      BY CatSecond, Zenon
    <2>3. Len(a) + i \in 1..Len(Cat(a, b))
      BY <1>1, <1>2
    <2> QED
      BY <2>1, <2>2, <2>3 DEF Has
  <1> QED
    BY <1>3, <1>4, <1>5

\* r is the leaf of n that has the key v if n has it, and its position.
IsFound(n, v, r) ==
    /\ r = [leaf |-> r.leaf, at |-> r.at] /\ r.leaf \in Nodes /\ IsLeaf(r.leaf)
    /\ r.at \in 1..Len(Leaves[n]) /\ Leaves[n][r.at] = r.leaf.keys
    /\ Has(r.leaf.keys, v) <=> Has(KeysOf(n), v)

\* A key that is below some children is below the one that findChild leads to.
LEMMA HasInKid ==
  ASSUME NEW x \in Seq(Keys), NEW s \in Seq(Keys), NEW y \in Seq(Keys), NEW v \in Int,
         Sorted(s), InOrder(x, s), Upto(x, v), Beyond(y, v),
         x = <<>> \/ (s # <<>> /\ Head(s) <= v)
  PROVE  Has(Cat(Cat(x, s), y), v) <=> Has(s, v)
  <1>1. Cat(x, s) \in Seq(Keys)
    BY CatType, Zenon
  <1>2. Has(Cat(Cat(x, s), y), v) <=> (Has(x, v) \/ Has(s, v)) \/ Has(y, v)
    <2>1. Has(Cat(Cat(x, s), y), v) <=> Has(Cat(x, s), v) \/ Has(y, v)
      BY ONLY <1>1, y \in Seq(Keys), HasCat
    <2>2. Has(Cat(x, s), v) <=> Has(x, v) \/ Has(s, v)
      BY HasCat, Zenon
    <2> QED
      BY <2>1, <2>2
  <1>3. ~Has(y, v)
    <2>1. \A i \in 1..Len(y) : y[i] \in Int
      BY KeysAreNumbers
    <2> QED
      BY <2>1 DEF Has, Beyond
  <1>4. ASSUME Has(x, v) PROVE Has(s, v)
    <2>1. PICK i \in 1..Len(x) : x[i] = v
      BY <1>4 DEF Has
    <2>2. s # <<>> /\ Head(s) <= v
      BY <2>1
    <2>3. 1 \in 1..Len(s) /\ s[1] = Head(s) /\ Head(s) \in Int
      BY <2>2, KeysAreNumbers
    <2>4. v <= s[1]
      BY <2>1, <2>3 DEF InOrder
    <2> QED
      BY <2>2, <2>3, <2>4 DEF Has
  <1> QED
    BY <1>2, <1>3, <1>4

\* The descent by findChild ends at a leaf that has the key if any leaf has.
LEMMA LeafIsFound ==
  ASSUME NEW o, IsOrder(o), NEW v \in Int
  PROVE  \A h \in 0..MaxKeys : \A n \in Tiers(o, 1)[h] :
           Sorted(KeysOf(n)) => IsFound(n, v, LeafFor(n, v))
  <1>0. MaxKeys \in Nat
    BY BoundIsNat
  <1> PICK f : (\A n \in Nodes : f[n] = LeafForBy(f, n, v)) /\ (\A n : LeafFor(n, v) = f[n])
    BY LeafForIs
  <1>f. \A n \in Nodes : f[n] = LeafForBy(f, n, v)
    OBVIOUS
  <1>g. \A n : LeafFor(n, v) = f[n]
    OBVIOUS
  <1> DEFINE S == {h \in Nat : h <= MaxKeys => \A n \in Tiers(o, 1)[h] :
                     Sorted(KeysOf(n)) => IsFound(n, v, f[n])}
  <1>1. 0 \in S
    <2> SUFFICES ASSUME NEW n \in Tiers(o, 1)[0] PROVE IsFound(n, v, f[n])
      OBVIOUS
    <2>1. n \in Nodes /\ IsLeaf(n)
      BY <1>0, TierIs
    <2>2. f[n] = [leaf |-> n, at |-> 1]
      BY <1>f, <2>1, Zenon DEF LeafForBy
    <2>3. Leaves[n] = One(n.keys) /\ KeysOf(n) = n.keys /\ n.keys \in Seq(Keys)
      BY <2>1, LeavesStep, KeysOfStep, NodeIs
    <2>4. Len(One(n.keys)) = 1 /\ One(n.keys)[1] = n.keys
      BY ONLY <2>3, OneIs
    <2> QED
      BY <2>1, <2>2, <2>3, <2>4 DEF IsFound
  <1>2. ASSUME NEW h \in Nat, h \in S PROVE h + 1 \in S
    <2> SUFFICES ASSUME h + 1 <= MaxKeys, NEW n \in Tiers(o, 1)[h + 1], Sorted(KeysOf(n))
                 PROVE  IsFound(n, v, f[n])
      OBVIOUS
    <2>1. h + 1 \in 0..MaxKeys /\ h + 1 # 0 /\ (h + 1) - 1 = h /\ h \in 0..MaxKeys /\ h <= MaxKeys
      BY <1>0
    <2>2. /\ n \in Nodes /\ ~IsLeaf(n) /\ n.kids \in Seq(Nodes)
          /\ \A i \in 1..Len(n.kids) : /\ n.kids[i] \in Nodes /\ n.kids[i] \in Tiers(o, 1)[h]
                                       /\ Filled(n.kids[i])
      <3>1. /\ n \in Nodes /\ ~IsLeaf(n) /\ n.kids \in Seq(Nodes)
            /\ \A i \in 1..Len(n.kids) : /\ n.kids[i] \in Nodes
                                         /\ n.kids[i] \in Tiers(o, 1)[(h + 1) - 1]
                                         /\ Filled(n.kids[i])
        BY <2>1, ParentIs DEF ParentHas
      <3> QED
        BY <2>1, <3>1
    <2>3. PICK i \in 1..Len(n.kids), pre \in Seq(Nodes), post \in Seq(Nodes) :
           /\ i = findChild(n, v)
           /\ pre = SubSeq(n.kids, 1, i - 1) /\ post = SubSeq(n.kids, i + 1, Len(n.kids))
           /\ Leaves[n] = Cat(Cat(LS(pre), Leaves[n.kids[i]]), LS(post))
           /\ KeysOf(n) = Cat(Cat(KS(pre), KeysOf(n.kids[i])), KS(post))
           /\ Sorted(KS(pre)) /\ Sorted(KeysOf(n.kids[i])) /\ Sorted(KS(post))
           /\ InOrder(KS(pre), KeysOf(n.kids[i]))
           /\ Upto(KS(pre), v) /\ Beyond(KS(post), v)
           /\ i # 1 => FirstKey(n.kids[i]) <= v
           /\ i = 1 => KS(pre) = <<>>
      BY <2>1, ChildHolds
    <2> DEFINE kid == n.kids[i]
               r == f[kid]
               s == f[n]
               a == LS(pre)
               c == LS(post)
    <2>4. IsFound(kid, v, r)
      BY <1>2, <2>1, <2>2, <2>3
    <2>5. kid \in Nodes /\ Filled(kid)
      BY <2>2
    <2>6. s = [r EXCEPT !.at = LeavesBefore(n, i) + @]
      BY <1>f, <2>2, <2>3, Zenon DEF LeafForBy
    <2>7. LeavesBefore(n, i) = Len(a)
      BY <2>2, <2>3, LeavesBeforeIs
    <2>8. a \in Seq(Seq(Keys)) /\ c \in Seq(Seq(Keys)) /\ Leaves[kid] \in Seq(Seq(Keys))
      BY <2>5, LSIs, LeavesType DEF Rows
    <2>9. Has(KeysOf(n), v) <=> Has(KeysOf(kid), v)
      <3>1. KS(pre) \in Seq(Keys) /\ KS(post) \in Seq(Keys)
        BY KSType
      <3>2. /\ KeysOf(kid) \in Seq(Keys) /\ KeysOf(kid) # <<>>
            /\ FirstKey(kid) = Head(KeysOf(kid))
        BY <2>5, FirstKeyIs
      <3> DEFINE x == KS(pre)
                 y == KS(post)
                 z == KeysOf(kid)
      <3>3. x = <<>> \/ (z # <<>> /\ Head(z) <= v)
        BY <2>3, <3>2
      <3>4. /\ x \in Seq(Keys) /\ y \in Seq(Keys) /\ z \in Seq(Keys) /\ v \in Int
            /\ Sorted(z) /\ InOrder(x, z) /\ Upto(x, v) /\ Beyond(y, v)
        BY <2>3, <3>1, <3>2
      <3>5. KeysOf(n) = Cat(Cat(x, z), y)
        BY <2>3
      <3> HIDE DEF x, y, z
      <3>6. Has(Cat(Cat(x, z), y), v) <=> Has(z, v)
        BY ONLY <3>3, <3>4, HasInKid
      <3> QED
        BY <3>5, <3>6 DEF z
    <2>10. Leaves[n] = Cat(Cat(a, Leaves[kid]), c)
      BY <2>3
    <2> HIDE DEF kid, a, c, r, s
    <2>11. /\ Cat(a, Leaves[kid]) \in Seq(Seq(Keys))
           /\ Len(Cat(a, Leaves[kid])) = Len(a) + Len(Leaves[kid])
      BY ONLY <2>8, CatType
    <2>12. Len(Leaves[n]) = (Len(a) + Len(Leaves[kid])) + Len(c)
      <3>1. Len(Cat(Cat(a, Leaves[kid]), c)) = Len(Cat(a, Leaves[kid])) + Len(c)
        BY ONLY <2>8, <2>11, CatType
      <3> QED
        BY <2>10, <2>11, <3>1
    <2>13. Len(a) \in Nat /\ Len(c) \in Nat /\ Len(Leaves[kid]) \in Nat
      BY <2>8
    <2>14. /\ r = [leaf |-> r.leaf, at |-> r.at] /\ r.leaf \in Nodes /\ IsLeaf(r.leaf)
           /\ r.at \in 1..Len(Leaves[kid]) /\ Leaves[kid][r.at] = r.leaf.keys
           /\ Has(r.leaf.keys, v) <=> Has(KeysOf(kid), v)
      BY <2>4 DEF IsFound
    <2>15. s = [leaf |-> r.leaf, at |-> Len(a) + r.at]
      <3>1. s = [r EXCEPT !.at = Len(a) + @]
        BY <2>6, <2>7
      <3> QED
        BY <2>14, <3>1
    <2>16. s.at \in 1..Len(Leaves[n]) /\ Leaves[n][s.at] = r.leaf.keys
      <3>1. Len(a) + r.at \in 1..Len(Cat(a, Leaves[kid])) /\ Len(a) + r.at \in 1..Len(Leaves[n])
        <4>1. \A x, y, z, w \in Nat : w \in 1..y => x + w \in 1..(x + y) /\ x + w \in 1..((x + y) + z)
          OBVIOUS
        <4>2. r.at \in 1..Len(Leaves[kid]) /\ r.at \in Nat
          BY <2>13, <2>14
        <4> QED
          BY <2>11, <2>12, <2>13, <4>1, <4>2
      <3>2. Cat(Cat(a, Leaves[kid]), c)[Len(a) + r.at] = Cat(a, Leaves[kid])[Len(a) + r.at]
        BY ONLY <2>8, <2>11, <3>1, CatFirst
      <3>3. Cat(a, Leaves[kid])[Len(a) + r.at] = Leaves[kid][r.at]
        <4> DEFINE w == r.at
                   y == Leaves[kid]
        <4>1. w \in 1..Len(y) /\ a \in Seq(Seq(Keys)) /\ y \in Seq(Seq(Keys))
          BY <2>8, <2>14
        <4> HIDE DEF w, y
        <4>2. Cat(a, y)[Len(a) + w] = y[w]
          BY ONLY <4>1, CatSecond
        <4> QED
          BY <4>2 DEF w, y
      <3> QED
        BY <2>10, <2>14, <2>15, <3>1, <3>2, <3>3
    <2>17. IsFound(n, v, s)
      BY <2>9, <2>14, <2>15, <2>16 DEF IsFound
    <2> QED
      BY <2>17 DEF s
  <1>3. Nat \subseteq S
    <2> HIDE DEF S
    <2> QED
      BY <1>1, <1>2, SetInduction
  <1>4. ASSUME NEW h \in 0..MaxKeys, NEW n \in Tiers(o, 1)[h], Sorted(KeysOf(n))
        PROVE  IsFound(n, v, LeafFor(n, v))
    <2>1. h \in Nat /\ h <= MaxKeys
      BY <1>0
    <2>2. IsFound(n, v, f[n])
      BY <1>3, <1>4, <2>1
    <2> QED
      BY <1>g, <2>2
  <1> QED
    BY <1>4

-----------------------------------------------------------------------------
(***************************************************************************)
(* The chain of the leaves.                                                *)
(***************************************************************************)

(***************************************************************************)
(* The chain through n leaves.                                             *)
(***************************************************************************)

Onward(p, n) == IF p = n THEN Null ELSE p + 1

\* t is a tree with the links of n leaves.
Chained(t, n) ==
    /\ t = Tree(t.root, t.next, t.prev)
    /\ t.next \in Seq(Int) /\ Len(t.next) = n /\ \A p \in 1..n : t.next[p] = Onward(p, n)
    /\ t.prev \in Seq(Int) /\ Len(t.prev) = n /\ \A p \in 1..n : t.prev[p] = p - 1

SplitName(i, p) == IF p = i THEN Dangling ELSE IF p > i THEN p + 1 ELSE p
SplitMoved(i, link) == [j \in 1..(Len(link) + 1) |-> SplitName(i, IF j <= i THEN link[j] ELSE link[j - 1])]
SplitNext(i, link, before, after) ==
    [j \in DOMAIN SplitMoved(i, link) |->
       CASE j = before -> i
         [] j = i      -> i + 1
         [] j = i + 1  -> after
         [] OTHER      -> SplitMoved(i, link)[j]]
SplitPrev(i, link, before, after) ==
    [j \in DOMAIN SplitMoved(i, link) |->
       CASE j = after -> i + 1
         [] j = i     -> before
         [] j = i + 1 -> i
         [] OTHER     -> SplitMoved(i, link)[j]]

\* ChainSplit, in the terms above.
LEMMA ChainSplitIs ==
  ASSUME NEW t, NEW i
  PROVE  ChainSplit(t, i) =
           [t EXCEPT !.next = SplitNext(i, @, SplitName(i, t.prev[i]), SplitName(i, t.next[i])),
                     !.prev = SplitPrev(i, @, SplitName(i, t.prev[i]), SplitName(i, t.next[i]))]
  BY Zenon DEF ChainSplit, SplitNext, SplitPrev, SplitMoved, SplitName

\* What becomes of the links when a leaf is split, one by one.
LEMMA MovedIs ==
  ASSUME NEW link \in Seq(Int), NEW i \in Int
  PROVE  /\ DOMAIN SplitMoved(i, link) = 1..(Len(link) + 1)
         /\ \A j \in 1..(Len(link) + 1) :
              /\ SplitMoved(i, link)[j] = SplitName(i, IF j <= i THEN link[j] ELSE link[j - 1])
  BY DEF SplitMoved

\* A function on the first numbers is a sequence.
LEMMA IsSeq ==
  ASSUME NEW S, NEW k \in Nat, NEW f \in [1..k -> S]
  PROVE  f \in Seq(S) /\ Len(f) = k
  OBVIOUS

SplitNextHas(r, i, link, before, after) ==
    /\ r \in Seq(Int) /\ Len(r) = Len(link) + 1
    /\ \A j \in 1..(Len(link) + 1) :
         /\ j = before => r[j] = i
         /\ j # before /\ j = i => r[j] = i + 1
         /\ j # before /\ j = i + 1 => r[j] = after
         /\ j # before /\ j < i => r[j] = SplitName(i, link[j])
         /\ j # before /\ j > i + 1 => r[j] = SplitName(i, link[j - 1])

\* What becomes of the next_ pointers when a leaf is split.
LEMMA SplitNextIs ==
  ASSUME NEW link \in Seq(Int), NEW i \in 1..Len(link), NEW before \in Int, NEW after \in Int,
         before # i, before # i + 1
  PROVE  SplitNextHas(SplitNext(i, link, before, after), i, link, before, after)
  <1> DEFINE m == SplitMoved(i, link)
             r == SplitNext(i, link, before, after)
  <1>0. i \in Int /\ Len(link) \in Nat
    OBVIOUS
  <1>1. /\ DOMAIN m = 1..(Len(link) + 1)
        /\ \A j \in 1..(Len(link) + 1) :
             m[j] = SplitName(i, IF j <= i THEN link[j] ELSE link[j - 1])
    BY <1>0, MovedIs
  <1> HIDE DEF m
  <1>2. r = [j \in DOMAIN m |-> IF j = before THEN i ELSE IF j = i THEN i + 1
                                ELSE IF j = i + 1 THEN after ELSE m[j]]
    <2>1. ASSUME NEW j \in 1..(Len(link) + 1)
          PROVE  (CASE j = before -> i [] j = i -> i + 1 [] j = i + 1 -> after [] OTHER -> m[j])
                   = IF j = before THEN i ELSE IF j = i THEN i + 1
                     ELSE IF j = i + 1 THEN after ELSE m[j]
      <3>1. i # i + 1
        BY <1>0
      <3>2. CASE j = before
        BY <3>1, <3>2
      <3>3. CASE j = i
        BY <3>1, <3>3
      <3>4. CASE j = i + 1
        BY <3>1, <3>4
      <3>5. CASE j # before /\ j # i /\ j # i + 1
        BY <3>5
      <3> QED
        BY <3>2, <3>3, <3>4, <3>5
    <2> QED
      BY <1>1, <2>1, Zenon DEF SplitNext, m
  <1> HIDE DEF r
  <1>3. DOMAIN r = 1..(Len(link) + 1)
    BY <1>1, <1>2
  <1>4. \A j \in 1..(Len(link) + 1) :
          r[j] = IF j = before THEN i ELSE IF j = i THEN i + 1 ELSE IF j = i + 1 THEN after ELSE m[j]
    BY <1>1, <1>2
  <1>5. \A j \in 1..(Len(link) + 1) :
              /\ j = before => r[j] = i
              /\ j # before /\ j = i => r[j] = i + 1
              /\ j # before /\ j = i + 1 => r[j] = after
              /\ j # before /\ j < i => r[j] = SplitName(i, link[j])
              /\ j # before /\ j > i + 1 => r[j] = SplitName(i, link[j - 1])
    BY <1>0, <1>1, <1>4
  <1>6. \A j \in 1..(Len(link) + 1) : r[j] \in Int
    <2>1. \A p \in Int : SplitName(i, p) \in Int
      BY DEF SplitName, Dangling
    <2>2. \A j \in 1..(Len(link) + 1) : m[j] \in Int
      <3> TAKE j \in 1..(Len(link) + 1)
      <3>1. (IF j <= i THEN link[j] ELSE link[j - 1]) \in Int
        BY <1>0
      <3> QED
        BY <1>1, <2>1, <3>1
    <2> QED
      BY <1>0, <1>4, <2>2
  <1>7. r = [j \in 1..(Len(link) + 1) |-> r[j]]
    BY <1>2, <1>3
  <1>8. r \in [1..(Len(link) + 1) -> Int]
    BY <1>6, <1>7
  <1>9. Len(link) + 1 \in Nat
    BY <1>0
  <1>10. r \in Seq(Int) /\ Len(r) = Len(link) + 1
    BY ONLY <1>8, <1>9, IsSeq
  <1> QED
    BY <1>5, <1>10 DEF r, SplitNextHas

SplitPrevHas(r, i, link, before, after) ==
    /\ r \in Seq(Int) /\ Len(r) = Len(link) + 1
    /\ \A j \in 1..(Len(link) + 1) :
         /\ j = after => r[j] = i + 1
         /\ j # after /\ j = i => r[j] = before
         /\ j # after /\ j = i + 1 => r[j] = i
         /\ j # after /\ j < i => r[j] = SplitName(i, link[j])
         /\ j # after /\ j > i + 1 => r[j] = SplitName(i, link[j - 1])

\* What becomes of the prev_ pointers when a leaf is split.
LEMMA SplitPrevIs ==
  ASSUME NEW link \in Seq(Int), NEW i \in 1..Len(link), NEW before \in Int, NEW after \in Int,
         after # i, after # i + 1
  PROVE  SplitPrevHas(SplitPrev(i, link, before, after), i, link, before, after)
  <1> DEFINE m == SplitMoved(i, link)
             r == SplitPrev(i, link, before, after)
  <1>0. i \in Int /\ Len(link) \in Nat
    OBVIOUS
  <1>1. /\ DOMAIN m = 1..(Len(link) + 1)
        /\ \A j \in 1..(Len(link) + 1) :
             m[j] = SplitName(i, IF j <= i THEN link[j] ELSE link[j - 1])
    BY <1>0, MovedIs
  <1> HIDE DEF m
  <1>2. r = [j \in DOMAIN m |-> IF j = after THEN i + 1 ELSE IF j = i THEN before
                                ELSE IF j = i + 1 THEN i ELSE m[j]]
    <2>1. ASSUME NEW j \in 1..(Len(link) + 1)
          PROVE  (CASE j = after -> i + 1 [] j = i -> before [] j = i + 1 -> i [] OTHER -> m[j])
                   = IF j = after THEN i + 1 ELSE IF j = i THEN before
                     ELSE IF j = i + 1 THEN i ELSE m[j]
      <3>1. i # i + 1
        BY <1>0
      <3>2. CASE j = after
        BY <3>1, <3>2
      <3>3. CASE j = i
        BY <3>1, <3>3
      <3>4. CASE j = i + 1
        BY <3>1, <3>4
      <3>5. CASE j # after /\ j # i /\ j # i + 1
        BY <3>5
      <3> QED
        BY <3>2, <3>3, <3>4, <3>5
    <2> QED
      BY <1>1, <2>1, Zenon DEF SplitPrev, m
  <1> HIDE DEF r
  <1>3. DOMAIN r = 1..(Len(link) + 1)
    BY <1>1, <1>2
  <1>4. \A j \in 1..(Len(link) + 1) :
          r[j] = IF j = after THEN i + 1 ELSE IF j = i THEN before ELSE IF j = i + 1 THEN i ELSE m[j]
    BY <1>1, <1>2
  <1>5. \A j \in 1..(Len(link) + 1) :
              /\ j = after => r[j] = i + 1
              /\ j # after /\ j = i => r[j] = before
              /\ j # after /\ j = i + 1 => r[j] = i
              /\ j # after /\ j < i => r[j] = SplitName(i, link[j])
              /\ j # after /\ j > i + 1 => r[j] = SplitName(i, link[j - 1])
    BY <1>0, <1>1, <1>4
  <1>6. \A j \in 1..(Len(link) + 1) : r[j] \in Int
    <2>1. \A p \in Int : SplitName(i, p) \in Int
      BY DEF SplitName, Dangling
    <2>2. \A j \in 1..(Len(link) + 1) : m[j] \in Int
      <3> TAKE j \in 1..(Len(link) + 1)
      <3>1. (IF j <= i THEN link[j] ELSE link[j - 1]) \in Int
        BY <1>0
      <3> QED
        BY <1>1, <2>1, <3>1
    <2> QED
      BY <1>0, <1>4, <2>2
  <1>7. r = [j \in 1..(Len(link) + 1) |-> r[j]]
    BY <1>2, <1>3
  <1>8. r \in [1..(Len(link) + 1) -> Int]
    BY <1>6, <1>7
  <1>9. Len(link) + 1 \in Nat
    BY <1>0
  <1>10. r \in Seq(Int) /\ Len(r) = Len(link) + 1
    BY ONLY <1>8, <1>9, IsSeq
  <1> QED
    BY <1>5, <1>10 DEF r, SplitPrevHas

\* A leaf is split: the chain leads through both halves.
LEMMA ChainSplitChained ==
  ASSUME NEW n \in Nat, NEW t, Chained(t, n), NEW i \in 1..n
  PROVE  Chained(ChainSplit(t, i), n + 1) /\ ChainSplit(t, i).root = t.root
  <1> DEFINE a == t.next
             c == t.prev
             before == SplitName(i, t.prev[i])
             after == SplitName(i, t.next[i])
             nx == SplitNext(i, t.next, before, after)
             pv == SplitPrev(i, t.prev, before, after)
             w == ChainSplit(t, i)
  <1>1. /\ t = Tree(t.root, t.next, t.prev) /\ i \in Int /\ n \in Int
        /\ t.next \in Seq(Int) /\ Len(t.next) = n /\ \A p \in 1..n : t.next[p] = Onward(p, n)
        /\ t.prev \in Seq(Int) /\ Len(t.prev) = n /\ \A p \in 1..n : t.prev[p] = p - 1
    BY DEF Chained
  <1>2. w = [t EXCEPT !.next = nx, !.prev = pv]
    BY ChainSplitIs, Zenon
  <1> HIDE DEF w
  <1>b. before = SplitName(i, c[i]) /\ after = SplitName(i, a[i])
    BY Zenon
  <1>c. nx = SplitNext(i, a, before, after) /\ pv = SplitPrev(i, c, before, after)
    BY Zenon
  <1>d. /\ i \in Int /\ n \in Int
        /\ a \in Seq(Int) /\ Len(a) = n /\ \A p \in 1..n : a[p] = Onward(p, n)
        /\ c \in Seq(Int) /\ Len(c) = n /\ \A p \in 1..n : c[p] = p - 1
    BY <1>1
  <1> HIDE DEF before, after, nx, pv, a, c
  <1>3. before = i - 1
    <2>1. c[i] = i - 1
      BY <1>d
    <2> QED
      BY <1>b, <1>d, <2>1 DEF SplitName
  <1>4. after = IF i = n THEN 0 ELSE i + 2
    <2>1. a[i] = IF i = n THEN 0 ELSE i + 1
      BY <1>d DEF Onward, Null
    <2> QED
      BY <1>b, <1>d, <2>1 DEF SplitName
  <1>5. /\ before \in Int /\ after \in Int /\ before # i /\ before # i + 1 /\ after # i /\ after # i + 1
        /\ i \in 1..Len(a) /\ i \in 1..Len(c)
    BY <1>d, <1>3, <1>4
  <1>6. /\ nx \in Seq(Int) /\ Len(nx) = n + 1
        /\ \A j \in 1..(n + 1) :
              /\ j = before => nx[j] = i
              /\ j # before /\ j = i => nx[j] = i + 1
              /\ j # before /\ j = i + 1 => nx[j] = after
              /\ j # before /\ j < i => nx[j] = SplitName(i, a[j])
              /\ j # before /\ j > i + 1 => nx[j] = SplitName(i, a[j - 1])
    <2>1. SplitNextHas(SplitNext(i, a, before, after), i, a, before, after)
      BY <1>d, <1>5, SplitNextIs
    <2> QED
      BY <1>c, <1>d, <2>1 DEF SplitNextHas
  <1>7. /\ pv \in Seq(Int) /\ Len(pv) = n + 1
        /\ \A j \in 1..(n + 1) :
              /\ j = after => pv[j] = i + 1
              /\ j # after /\ j = i => pv[j] = before
              /\ j # after /\ j = i + 1 => pv[j] = i
              /\ j # after /\ j < i => pv[j] = SplitName(i, c[j])
              /\ j # after /\ j > i + 1 => pv[j] = SplitName(i, c[j - 1])
    <2>1. SplitPrevHas(SplitPrev(i, c, before, after), i, c, before, after)
      BY <1>d, <1>5, SplitPrevIs
    <2> QED
      BY <1>c, <1>d, <2>1 DEF SplitPrevHas
  <1>8. \A j \in 1..(n + 1) : nx[j] = Onward(j, n + 1)
    <2> TAKE j \in 1..(n + 1)
    <2>1. CASE j < i
      <3>1. j \in 1..n /\ j # n /\ a[j] = j + 1
        BY <1>d, <2>1 DEF Onward
      <3>2. j # before => SplitName(i, a[j]) = j + 1
        BY <1>d, <1>3, <2>1, <3>1 DEF SplitName
      <3>3. nx[j] = j + 1
        <4>1. CASE j = before
          BY <1>d, <1>3, <1>6, <4>1
        <4>2. CASE j # before
          BY <1>6, <2>1, <3>2, <4>2
        <4> QED
          BY <4>1, <4>2
      <3> QED
        BY <1>d, <2>1, <3>3 DEF Onward
    <2>2. CASE j = i
      BY <1>d, <1>3, <1>6, <2>2 DEF Onward
    <2>3. CASE j = i + 1
      <3>1. nx[j] = after
        BY <1>d, <1>3, <1>6, <2>3
      <3> QED
        BY <1>d, <1>4, <2>3, <3>1 DEF Onward, Null
    <2>4. CASE j > i + 1
      <3>1. nx[j] = SplitName(i, a[j - 1])
        BY <1>d, <1>3, <1>6, <2>4
      <3>2. j - 1 \in 1..n /\ a[j - 1] = IF j = n + 1 THEN 0 ELSE j
        BY <1>d, <2>4 DEF Onward, Null
      <3>3. nx[j] = IF j = n + 1 THEN 0 ELSE j + 1
        <4>1. CASE j = n + 1
          BY <1>d, <3>1, <3>2, <4>1 DEF SplitName
        <4>2. CASE j # n + 1
          BY <1>d, <2>4, <3>1, <3>2, <4>2 DEF SplitName
        <4> QED
          BY <4>1, <4>2
      <3> QED
        BY <3>3 DEF Onward, Null
    <2> QED
      BY <1>d, <2>1, <2>2, <2>3, <2>4
  <1>9. \A j \in 1..(n + 1) : pv[j] = j - 1
    <2> TAKE j \in 1..(n + 1)
    <2>1. CASE j < i
      <3>1. j \in 1..n /\ j # after /\ c[j] = j - 1
        BY <1>d, <1>4, <2>1
      <3>2. pv[j] = SplitName(i, c[j])
        BY <1>7, <2>1, <3>1
      <3> QED
        BY <1>d, <2>1, <3>1, <3>2 DEF SplitName
    <2>2. CASE j = i
      BY <1>d, <1>3, <1>5, <1>7, <2>2
    <2>3. CASE j = i + 1
      BY <1>d, <1>5, <1>7, <2>3
    <2>4. CASE j > i + 1 /\ j # after
      <3>1. pv[j] = SplitName(i, c[j - 1])
        BY <1>d, <1>7, <2>4
      <3>2. j - 1 \in 1..n /\ c[j - 1] = (j - 1) - 1 /\ i # n
        BY <1>d, <2>4
      <3>3. j # i + 2
        BY <1>4, <2>4, <3>2
      <3> QED
        BY <1>d, <2>4, <3>1, <3>2, <3>3 DEF SplitName
    <2>5. CASE j > i + 1 /\ j = after
      BY <1>d, <1>4, <1>7, <2>5
    <2> QED
      BY <1>d, <2>1, <2>2, <2>3, <2>4, <2>5
  <1>10. w = Tree(t.root, nx, pv)
    BY <1>1, <1>2 DEF Tree
  <1>11. w.root = t.root /\ w.next = nx /\ w.prev = pv
    BY <1>10 DEF Tree
  <1>12. Chained(w, n + 1)
    BY <1>6, <1>7, <1>8, <1>9, <1>10, <1>11 DEF Chained
  <1> QED
    BY <1>11, <1>12 DEF w

MergeName(i, p) == IF p = i + 1 THEN Dangling ELSE IF p > i + 1 THEN p - 1 ELSE p
MergeNamed(i, link) == [j \in 1..(Len(link) - 1) |-> MergeName(i, IF j <= i THEN link[j] ELSE link[j + 1])]
MergeNext(i, link) == [link EXCEPT ![i] = link[i + 1]]
MergePrev(i, link, after) == [j \in DOMAIN link |-> IF j = after THEN i ELSE link[j]]

\* ChainMerge, in the terms above.
LEMMA ChainMergeIs ==
  ASSUME NEW t, NEW i
  PROVE  ChainMerge(t, i) =
           [t EXCEPT !.next = MergeNamed(i, MergeNext(i, t.next)),
                     !.prev = MergeNamed(i, MergePrev(i, t.prev, t.next[i + 1]))]
  BY Zenon DEF ChainMerge, MergeName, MergeNamed, MergeNext, MergePrev

\* What becomes of the links when two leaves are merged, one by one.
LEMMA NamedIs ==
  ASSUME NEW link \in Seq(Int), NEW i \in 1..(Len(link) - 1)
  PROVE  /\ MergeNamed(i, link) \in Seq(Int) /\ Len(MergeNamed(i, link)) = Len(link) - 1
         /\ \A j \in 1..(Len(link) - 1) :
              MergeNamed(i, link)[j] = MergeName(i, IF j <= i THEN link[j] ELSE link[j + 1])
  <1> DEFINE k == Len(link) - 1
             r == MergeNamed(i, link)
  <1>1. k \in Nat /\ i \in Int
    OBVIOUS
  <1>2. \A p \in Int : MergeName(i, p) \in Int
    BY <1>1 DEF MergeName, Dangling
  <1>3. \A j \in 1..k : (IF j <= i THEN link[j] ELSE link[j + 1]) \in Int
    OBVIOUS
  <1>4. r \in [1..k -> Int] /\ \A j \in 1..k : r[j] = MergeName(i, IF j <= i THEN link[j] ELSE link[j + 1])
    BY <1>2, <1>3 DEF MergeNamed
  <1> HIDE DEF k, r
  <1>5. r \in Seq(Int) /\ Len(r) = k
    BY ONLY <1>1, <1>4, IsSeq
  <1> QED
    BY <1>4, <1>5 DEF k, r

\* Two leaves are merged: the chain leads past the one that is freed.
LEMMA ChainMergeChained ==
  ASSUME NEW n \in Nat, NEW t, Chained(t, n), NEW i \in 1..(n - 1)
  PROVE  Chained(ChainMerge(t, i), n - 1) /\ ChainMerge(t, i).root = t.root
  <1> DEFINE a == t.next
             c == t.prev
             x == MergeNext(i, a)
             y == MergePrev(i, c, a[i + 1])
             nx == MergeNamed(i, x)
             pv == MergeNamed(i, y)
             w == ChainMerge(t, i)
  <1>1. t = Tree(t.root, t.next, t.prev)
    BY DEF Chained
  <1>d. /\ i \in Int /\ n \in Int
        /\ a \in Seq(Int) /\ Len(a) = n /\ \A p \in 1..n : a[p] = Onward(p, n)
        /\ c \in Seq(Int) /\ Len(c) = n /\ \A p \in 1..n : c[p] = p - 1
    BY DEF Chained
  <1>2. w = [t EXCEPT !.next = nx, !.prev = pv]
    BY ChainMergeIs, Zenon
  <1> HIDE DEF a, c
  <1>3. a[i + 1] = IF i + 1 = n THEN 0 ELSE i + 2
    BY <1>d DEF Onward, Null
  <1>4. x \in Seq(Int) /\ Len(x) = n /\ x[i] = a[i + 1] /\ \A j \in 1..n : j # i => x[j] = a[j]
    <2>1. a[i + 1] \in Int /\ i \in 1..n
      BY <1>d, <1>3
    <2>2. a \in [1..n -> Int]
      BY <1>d
    <2>3. x \in [1..n -> Int] /\ x[i] = a[i + 1] /\ \A j \in 1..n : j # i => x[j] = a[j]
      BY <2>1, <2>2 DEF MergeNext
    <2> HIDE DEF x
    <2>4. x \in Seq(Int) /\ Len(x) = n
      BY ONLY <2>3, n \in Nat, IsSeq
    <2> QED
      BY <2>3, <2>4
  <1>5. DOMAIN c = 1..n
    BY <1>d
  <1>6. y \in [1..n -> Int] /\ \A j \in 1..n : y[j] = IF j = a[i + 1] THEN i ELSE c[j]
    BY <1>d, <1>5 DEF MergePrev
  <1> HIDE DEF x, y
  <1>7. y \in Seq(Int) /\ Len(y) = n
    BY ONLY <1>6, n \in Nat, IsSeq
  <1>8. i \in 1..(Len(x) - 1) /\ i \in 1..(Len(y) - 1)
    BY <1>4, <1>7
  <1>9. /\ nx \in Seq(Int) /\ Len(nx) = n - 1
        /\ \A j \in 1..(n - 1) : nx[j] = MergeName(i, IF j <= i THEN x[j] ELSE x[j + 1])
    BY <1>4, <1>8, NamedIs
  <1>10. /\ pv \in Seq(Int) /\ Len(pv) = n - 1
         /\ \A j \in 1..(n - 1) : pv[j] = MergeName(i, IF j <= i THEN y[j] ELSE y[j + 1])
    BY <1>7, <1>8, NamedIs
  <1> HIDE DEF nx, pv
  <1>11. \A j \in 1..(n - 1) : nx[j] = Onward(j, n - 1)
    <2> TAKE j \in 1..(n - 1)
    <2>1. CASE j < i
      <3>1. nx[j] = MergeName(i, x[j]) /\ x[j] = a[j] /\ a[j] = j + 1
        <4>1. nx[j] = MergeName(i, IF j <= i THEN x[j] ELSE x[j + 1])
          BY <1>9
        <4>2. j <= i
          BY <1>d, <2>1
        <4>3. nx[j] = MergeName(i, x[j])
          BY <4>1, <4>2
        <4>4. j \in 1..n /\ j # i /\ a[j] = j + 1
          BY <1>d, <2>1 DEF Onward
        <4> QED
          BY <1>4, <4>3, <4>4
      <3> QED
        BY <1>d, <2>1, <3>1 DEF MergeName, Onward
    <2>2. CASE j = i
      <3>1. nx[j] = MergeName(i, a[i + 1])
        <4>1. nx[j] = MergeName(i, IF j <= i THEN x[j] ELSE x[j + 1])
          BY <1>9
        <4>2. j <= i
          BY <1>d, <2>2
        <4> QED
          BY <1>4, <2>2, <4>1, <4>2
      <3>2. MergeName(i, a[i + 1]) = IF i + 1 = n THEN 0 ELSE i + 1
        <4>1. CASE i + 1 = n
          BY <1>d, <1>3, <4>1 DEF MergeName
        <4>2. CASE i + 1 # n
          BY <1>d, <1>3, <4>2 DEF MergeName
        <4> QED
          BY <4>1, <4>2
      <3> QED
        BY <1>d, <2>2, <3>1, <3>2 DEF Onward, Null
    <2>3. CASE j > i
      <3>1. nx[j] = MergeName(i, x[j + 1]) /\ x[j + 1] = a[j + 1]
        <4>1. nx[j] = MergeName(i, IF j <= i THEN x[j] ELSE x[j + 1])
          BY <1>9
        <4>2. ~(j <= i)
          BY <1>d, <2>3
        <4>3. nx[j] = MergeName(i, x[j + 1])
          BY <4>1, <4>2
        <4>4. j + 1 \in 1..n /\ j + 1 # i
          BY <1>d, <2>3 DEF Onward
        <4> QED
          BY <1>4, <4>3, <4>4
      <3>2. a[j + 1] = IF j + 1 = n THEN 0 ELSE j + 2
        BY <1>d, <2>3 DEF Onward, Null
      <3>3. nx[j] = IF j + 1 = n THEN 0 ELSE j + 1
        <4>1. CASE j + 1 = n
          BY <1>d, <3>1, <3>2, <4>1 DEF MergeName
        <4>2. CASE j + 1 # n
          BY <1>d, <2>3, <3>1, <3>2, <4>2 DEF MergeName
        <4> QED
          BY <4>1, <4>2
      <3> QED
        BY <1>d, <3>3 DEF Onward, Null
    <2> QED
      BY <1>d, <2>1, <2>2, <2>3
  <1>12. \A j \in 1..(n - 1) : pv[j] = j - 1
    <2> TAKE j \in 1..(n - 1)
    <2>1. CASE j <= i
      <3>1. pv[j] = MergeName(i, y[j])
        BY <1>d, <1>10, <2>1
      <3>2. y[j] = j - 1
        BY <1>d, <1>3, <1>6, <2>1
      <3> QED
        BY <1>d, <2>1, <3>1, <3>2 DEF MergeName
    <2>2. CASE j > i
      <3>1. pv[j] = MergeName(i, y[j + 1])
        <4>1. pv[j] = MergeName(i, IF j <= i THEN y[j] ELSE y[j + 1])
          BY <1>10
        <4>2. ~(j <= i)
          BY <1>d, <2>2
        <4> QED
          BY <4>1, <4>2
      <3>2. y[j + 1] = IF j = i + 1 THEN i ELSE j
        <4>1. j + 1 \in 1..n /\ i + 1 # n
          BY <1>d, <2>2
        <4>2. c[j + 1] = j
          BY <1>d, <4>1
        <4>3. a[i + 1] = i + 2
          BY <1>3, <4>1
        <4>4. y[j + 1] = IF j + 1 = a[i + 1] THEN i ELSE c[j + 1]
          BY <1>6, <4>1
        <4> QED
          BY <1>d, <4>2, <4>3, <4>4
      <3>3. pv[j] = j - 1
        <4>1. CASE j = i + 1
          BY <1>d, <3>1, <3>2, <4>1 DEF MergeName
        <4>2. CASE j # i + 1
          BY <1>d, <2>2, <3>1, <3>2, <4>2 DEF MergeName
        <4> QED
          BY <4>1, <4>2
      <3> QED
        BY <3>3
    <2> QED
      BY <1>d, <2>1, <2>2
  <1>13. w = Tree(t.root, nx, pv)
    BY <1>1, <1>2 DEF Tree
  <1>14. w.root = t.root /\ w.next = nx /\ w.prev = pv
    BY <1>13 DEF Tree
  <1> HIDE DEF w
  <1>15. Chained(w, n - 1)
    BY <1>9, <1>10, <1>11, <1>12, <1>13, <1>14 DEF Chained
  <1> QED
    BY <1>14, <1>15 DEF w

-----------------------------------------------------------------------------
(***************************************************************************)
(* add: what takes the place of a node, at a leaf, at a parent, and at the *)
(* root.                                                                   *)
(***************************************************************************)

(***************************************************************************)
(* What takes the place of a node that a key is added to.                  *)
(***************************************************************************)

Two(a, b) == <<a, b>>

\* A sequence of two elements.
LEMMA TwoIs ==
  ASSUME NEW S, NEW a \in S, NEW b \in S
  PROVE  /\ Two(a, b) \in Seq(S) /\ Len(Two(a, b)) = 2 /\ Two(a, b)[1] = a /\ Two(a, b)[2] = b
         /\ Two(a, b) = Cat(One(a), One(b))
  <1> DEFINE x == Two(a, b)
             y == Cat(One(a), One(b))
  <1>1. x \in Seq(S) /\ Len(x) = 2 /\ x[1] = a /\ x[2] = b
    BY DEF Two
  <1>2. /\ One(a) \in Seq(S) /\ Len(One(a)) = 1 /\ One(a)[1] = a
        /\ One(b) \in Seq(S) /\ Len(One(b)) = 1 /\ One(b)[1] = b
    BY OneIs, Zenon
  <1>3. y \in Seq(S) /\ Len(y) = Len(One(a)) + Len(One(b))
    BY ONLY <1>2, CatType
  <1>4. 1 \in 1..Len(One(a)) /\ 1 \in 1..Len(One(b))
    BY <1>2
  <1>5. y[1] = One(a)[1]
    BY ONLY <1>2, <1>4, CatFirst
  <1>6. y[Len(One(a)) + 1] = One(b)[1]
    <2>1. \A j \in 1..Len(One(b)) : y[Len(One(a)) + j] = One(b)[j]
      BY ONLY <1>2, CatSecond
    <2> HIDE DEF y
    <2> QED
      BY <1>4, <2>1
  <1>7. Len(y) = 2 /\ y[1] = a /\ y[2] = b
    BY <1>2, <1>3, <1>5, <1>6
  <1> HIDE DEF x, y
  <1>8. \A i \in 1..2 : i = 1 \/ i = 2
    OBVIOUS
  <1>9. \A i \in 1..2 : x[i] = y[i]
    BY <1>1, <1>7, <1>8
  <1>10. x = y
    BY <1>1, <1>3, <1>7, <1>9
  <1> QED
    BY <1>1, <1>10 DEF x, y

\* The leaves and keys below two nodes.
LEMMA BelowTwo ==
  ASSUME NEW a \in Nodes, NEW b \in Nodes
  PROVE  LS(Two(a, b)) = Cat(Leaves[a], Leaves[b]) /\ KS(Two(a, b)) = Cat(KeysOf(a), KeysOf(b))
  <1>1. Two(a, b) = Cat(One(a), One(b))
    BY TwoIs
  <1>2. One(a) \in Seq(Nodes) /\ One(b) \in Seq(Nodes)
    BY OneIs, Zenon
  <1> QED
    BY <1>1, <1>2, LSCat, KSCat, LSOne, KSOne

\* The first of the keys stays the first when a larger one is added.
LEMMA HeadAdded ==
  ASSUME NEW s \in Seq(Keys), Sorted(s), s # <<>>, NEW v \in Keys, Head(s) <= v
  PROVE  Head(Added(s, v)) = Head(s)
  <1>1. PICK a \in Seq(Keys), b \in Seq(Keys) :
          /\ s = Cat(a, b) /\ Upto(a, v) /\ Beyond(b, v)
          /\ Added(s, v) = Cat(Cat(a, One(v)), b)
    BY AddedSplits
  <1>2. a # <<>>
    <2> SUFFICES ASSUME a = <<>> PROVE FALSE
      OBVIOUS
    <2>1. s = b
      BY <1>1, CatNil
    <2>2. 1 \in 1..Len(b) /\ Head(s) = b[1] /\ b[1] \in Int /\ v \in Int
      BY <2>1, KeysAreNumbers, BoundIsNat
    <2> QED
      BY <1>1, <2>2 DEF Beyond
  <1>3. One(v) \in Seq(Keys)
    BY OneIs
  <1>4. Cat(a, One(v)) \in Seq(Keys) /\ Cat(a, One(v)) # <<>> /\ Head(Cat(a, One(v))) = Head(a)
    <2>1. Cat(a, One(v)) # <<>> /\ Head(Cat(a, One(v))) = Head(a)
      BY ONLY <1>2, <1>3, a \in Seq(Keys), HeadCat
    <2>2. Cat(a, One(v)) \in Seq(Keys)
      BY ONLY <1>3, a \in Seq(Keys), CatType
    <2> QED
      BY <2>1, <2>2
  <1>5. Head(Cat(Cat(a, One(v)), b)) = Head(Cat(a, One(v)))
    BY ONLY <1>4, b \in Seq(Keys), HeadCat
  <1>6. Head(Cat(a, b)) = Head(a)
    BY <1>2, HeadCat, Zenon
  <1> QED
    BY <1>1, <1>4, <1>5, <1>6

\* p is one node of height h, or two that are fit and the separator between them.
IsEntry(h, p) ==
    /\ p = Node(p.keys, p.kids) /\ p.keys \in Seq(Keys) /\ p.kids \in Seq(Nodes)
    /\ Len(p.kids) = Len(p.keys) + 1 /\ Len(p.keys) \in 0..1
    /\ \A i \in 1..Len(p.kids) : p.kids[i] \in Sound(order, 1, h) /\ Filled(p.kids[i])
    /\ \A i \in 1..Len(p.keys) : p.keys[i] = FirstKey(p.kids[i + 1])
    /\ Len(p.keys) = 1 =>
         \A i \in 1..Len(p.kids) : p.kids[i] \in Fit(order, Tiers(order, 1)[h])

AreFit(h, ks) == \A i \in 1..Len(ks) : ks[i] \in Fit(order, Tiers(order, 1)[h])

Single(n) == Node(<<>>, One(n))
Double(a, k, b) == Node(One(k), Two(a, b))

\* One node takes the place of another.
LEMMA SingleIs ==
  ASSUME IsOrder(order), NEW h \in 0..MaxKeys, NEW n \in Sound(order, 1, h), n.keys # <<>>
  PROVE  /\ IsEntry(h, Single(n)) /\ Single(n).kids = One(n) /\ Single(n).keys = <<>>
         /\ Len(n.keys) >= MinOf(order) => AreFit(h, Single(n).kids)
  <1>1. Single(n).keys = <<>> /\ Single(n).kids = One(n)
    BY DEF Single, Node
  <1>2. n \in Tiers(order, 1)[h] /\ Len(n.keys) < order
    BY DEF Sound
  <1>3. n \in Nodes /\ Filled(n)
    BY <1>2, TiersAreNodes, TiersFilled
  <1>4. One(n) \in Seq(Nodes) /\ Len(One(n)) = 1 /\ One(n)[1] = n
    BY ONLY <1>3, OneIs
  <1>5. n.keys \in Seq(Keys)
    BY <1>3, NodeIs
  <1>6. \A i \in 1..Len(One(n)) : One(n)[i] = n
    BY <1>4
  <1>7. <<>> \in Seq(Keys) /\ Len(<<>>) = 0
    OBVIOUS
  <1>8. IsEntry(h, Single(n))
    <2> DEFINE p == Single(n)
    <2>1. p = Node(p.keys, p.kids)
      BY <1>1, Zenon DEF Single
    <2>2. p.keys \in Seq(Keys) /\ p.kids \in Seq(Nodes) /\ Len(p.keys) = 0 /\ Len(p.kids) = 1
      BY <1>1, <1>4, <1>7
    <2>3. \A i \in 1..Len(p.kids) : p.kids[i] \in Sound(order, 1, h) /\ Filled(p.kids[i])
      BY <1>1, <1>3, <1>6
    <2> HIDE DEF p
    <2>4. IsEntry(h, p)
      BY <2>1, <2>2, <2>3 DEF IsEntry
    <2> QED
      BY <2>4 DEF p
  <1>9. Len(n.keys) >= MinOf(order) => AreFit(h, One(n))
    <2>1. Len(n.keys) >= MinOf(order) => Len(n.keys) \in MinOf(order)..(order - 1)
      BY <1>2, <1>5, MinIs DEF IsOrder
    <2> QED
      BY <1>2, <1>6, <2>1 DEF AreFit, Fit
  <1> QED
    BY <1>1, <1>8, <1>9

\* Two nodes and the separator between them take the place of one.
LEMMA DoubleIs ==
  ASSUME IsOrder(order), NEW h \in 0..MaxKeys,
         NEW a \in Fit(order, Tiers(order, 1)[h]), NEW b \in Fit(order, Tiers(order, 1)[h]),
         NEW k \in Keys, k = FirstKey(b)
  PROVE  /\ IsEntry(h, Double(a, k, b)) /\ AreFit(h, Double(a, k, b).kids)
         /\ Double(a, k, b).kids = Two(a, b)
         /\ LS(Double(a, k, b).kids) = Cat(Leaves[a], Leaves[b])
         /\ KS(Double(a, k, b).kids) = Cat(KeysOf(a), KeysOf(b))
  <1> DEFINE p == Double(a, k, b)
  <1>1. p.keys = One(k) /\ p.kids = Two(a, b) /\ p = Node(p.keys, p.kids)
    BY DEF Double, Node
  <1>2. /\ a \in Nodes /\ a \in Tiers(order, 1)[h] /\ a \in Sound(order, 1, h) /\ a.keys # <<>>
        /\ b \in Nodes /\ b \in Tiers(order, 1)[h] /\ b \in Sound(order, 1, h) /\ b.keys # <<>>
    BY FitIs
  <1>3. Filled(a) /\ Filled(b)
    BY <1>2, TiersFilled
  <1>4. Two(a, b) \in Seq(Nodes) /\ Len(Two(a, b)) = 2 /\ Two(a, b)[1] = a /\ Two(a, b)[2] = b
    BY ONLY <1>2, TwoIs
  <1>5. One(k) \in Seq(Keys) /\ Len(One(k)) = 1 /\ One(k)[1] = k
    BY OneIs, Zenon
  <1>6. \A i \in 1..2 : i = 1 \/ i = 2
    OBVIOUS
  <1>7. \A i \in 1..Len(p.kids) : p.kids[i] = a \/ p.kids[i] = b
    BY <1>1, <1>4, <1>6
  <1>8. \A i \in 1..Len(p.keys) : p.keys[i] = FirstKey(p.kids[i + 1])
    <2>1. \A i \in 1..1 : i = 1 /\ i + 1 = 2
      OBVIOUS
    <2> QED
      BY <1>1, <1>4, <1>5, <2>1
  <1> HIDE DEF p
  <1>9. IsEntry(h, p) /\ AreFit(h, p.kids)
    BY <1>1, <1>2, <1>3, <1>4, <1>5, <1>7, <1>8 DEF IsEntry, AreFit
  <1> QED
    BY <1>1, <1>2, <1>9, BelowTwo DEF p

\* splitNode, in the terms above.
LEMMA PlaceIsSingle ==
  ASSUME NEW n, Len(n.keys) # order
  PROVE  Place(n) = Single(n)
  BY DEF Place, Single, One

LeftKeys(n) == SubSeq(n.keys, 1, Len(n.keys) \div 2)
RightKeys(n) == SubSeq(n.keys, Len(n.keys) \div 2 + 1, Len(n.keys))
LeftKids(n) == SubSeq(n.kids, 1, Len(n.keys) \div 2 + 1)
RightKids(n) == SubSeq(n.kids, Len(n.keys) \div 2 + 2, Len(n.kids))

\* splitNode makes two nodes of a full one, in the terms above.
LEMMA PlaceIsDouble ==
  ASSUME NEW n, Len(n.keys) = order
  PROVE  Place(n) = IF IsLeaf(n)
                    THEN Double(Leaf(LeftKeys(n)), Head(RightKeys(n)), Leaf(RightKeys(n)))
                    ELSE Double(Node(LeftKeys(n), LeftKids(n)), Head(RightKeys(n)),
                                Node(Tail(RightKeys(n)), RightKids(n)))
  BY Zenon DEF Place, Split, Double, One, Two, LeftKeys, RightKeys, LeftKids, RightKids

\* A leaf that got a key is placed, split if it is full, with the same keys.
LEMMA LeafPlace ==
  ASSUME IsOrder(order), NEW keys \in Seq(Keys), Len(keys) \in 1..order
  PROVE  LET p == Place(Leaf(keys)) IN
         /\ IsEntry(0, p) /\ KS(p.kids) = keys
         /\ Len(LS(p.kids)) = IF Len(keys) = order THEN 2 ELSE 1
         /\ Len(keys) >= MinOf(order) => AreFit(0, p.kids)
  <1> DEFINE n == Leaf(keys)
             p == Place(n)
  <1>0. 0 \in 0..MaxKeys
    BY BoundIsNat
  <1>1. n \in Tiers(order, 1)[0] /\ IsLeaf(n) /\ n.keys = keys /\ n \in Nodes
    BY LeafTier
  <1> HIDE DEF n
  <1>2. CASE Len(keys) # order
    <2>1. p = Single(n)
      BY <1>1, <1>2, PlaceIsSingle
    <2>2. n \in Sound(order, 1, 0) /\ n.keys # <<>>
      BY <1>1, <1>2 DEF Sound, IsOrder
    <2>3. /\ IsEntry(0, Single(n)) /\ Single(n).kids = One(n)
          /\ Len(n.keys) >= MinOf(order) => AreFit(0, Single(n).kids)
      BY <1>0, <2>2, SingleIs
    <2>4. LS(One(n)) = Leaves[n] /\ KS(One(n)) = KeysOf(n) /\ Leaves[n] = One(keys) /\ KeysOf(n) = keys
      BY <1>1, LSOne, KSOne, LeavesStep, KeysOfStep
    <2>5. Len(One(keys)) = 1
      BY OneIs
    <2> QED
      BY <1>1, <1>2, <2>1, <2>3, <2>4, <2>5 DEF n
  <1>3. CASE Len(keys) = order
    <2> DEFINE left == LeftKeys(n)
               right == RightKeys(n)
               half == Len(keys) \div 2
               k == half + 1
    <2>1. p = Double(Leaf(left), Head(right), Leaf(right))
      BY <1>1, <1>3, PlaceIsDouble
    <2>2. /\ k \in 1..(Len(keys) + 1) /\ k - 1 = half /\ Len(keys) = order /\ half \in Nat
          /\ half >= MinOf(order) /\ half <= order - 1
          /\ order - half >= MinOf(order) /\ order - half <= order - 1 /\ order \in Nat
          /\ MinOf(order) \in Nat /\ MinOf(order) >= 1
      BY <1>3 DEF IsOrder, MinOf
    <2> HIDE DEF half, k
    <2>3. /\ SubSeq(keys, 1, k - 1) \in Seq(Keys) /\ SubSeq(keys, k, Len(keys)) \in Seq(Keys)
          /\ Len(SubSeq(keys, 1, k - 1)) = k - 1 /\ Len(SubSeq(keys, k, Len(keys))) = Len(keys) + 1 - k
          /\ keys = Cat(SubSeq(keys, 1, k - 1), SubSeq(keys, k, Len(keys)))
      BY <2>2, CutAt
    <2>4. left = SubSeq(keys, 1, k - 1) /\ right = SubSeq(keys, k, Len(keys))
      BY <1>1, <2>2 DEF LeftKeys, RightKeys, k, half
    <2> HIDE DEF left, right
    <2>5. /\ left \in Seq(Keys) /\ Len(left) \in MinOf(order)..(order - 1)
          /\ right \in Seq(Keys) /\ Len(right) \in MinOf(order)..(order - 1) /\ keys = Cat(left, right)
      <3>1. Len(keys) + 1 - k = order - half
        BY <2>2 DEF k
      <3> QED
        BY <2>2, <2>3, <2>4, <3>1
    <2>6. /\ Leaf(left) \in Tiers(order, 1)[0] /\ IsLeaf(Leaf(left)) /\ Leaf(left).keys = left
          /\ Leaf(left) \in Nodes
          /\ Leaf(right) \in Tiers(order, 1)[0] /\ IsLeaf(Leaf(right)) /\ Leaf(right).keys = right
          /\ Leaf(right) \in Nodes
      BY <2>5, LeafTier
    <2>7. Leaf(left) \in Fit(order, Tiers(order, 1)[0]) /\ Leaf(right) \in Fit(order, Tiers(order, 1)[0])
      BY <2>5, <2>6 DEF Fit
    <2>8. right # <<>> /\ Head(right) \in Keys
      BY <2>2, <2>5
    <2>9. KeysOf(Leaf(left)) = left /\ KeysOf(Leaf(right)) = right
          /\ Leaves[Leaf(left)] = One(left) /\ Leaves[Leaf(right)] = One(right)
      BY <2>6, KeysOfStep, LeavesStep
    <2>10. FirstKey(Leaf(right)) = Head(right)
      <3>1. Filled(Leaf(right))
        BY <1>0, <2>6, <2>8, TiersFilled
      <3> QED
        BY <2>6, <2>9, <3>1, FirstKeyIs
    <2>11. /\ IsEntry(0, p) /\ AreFit(0, p.kids)
           /\ LS(p.kids) = Cat(One(left), One(right)) /\ KS(p.kids) = keys
      BY <1>0, <2>1, <2>5, <2>7, <2>8, <2>9, <2>10, DoubleIs
    <2>12. Len(Cat(One(left), One(right))) = 2
      <3>1. /\ One(left) \in Seq(Seq(Keys)) /\ Len(One(left)) = 1
            /\ One(right) \in Seq(Seq(Keys)) /\ Len(One(right)) = 1
        BY <2>5, OneIs
      <3>2. Len(Cat(One(left), One(right))) = Len(One(left)) + Len(One(right))
        BY ONLY <3>1, CatType
      <3> QED
        BY <3>1, <3>2
    <2> QED
      BY <1>3, <2>11, <2>12 DEF n
  <1> QED
    BY <1>2, <1>3

\* The entries of a node of height h, with separators: what a node is made of.
AreEntries(h, keys, kids) ==
    /\ keys \in Seq(Keys) /\ kids \in Seq(Fit(order, Tiers(order, 1)[h]))
    /\ Len(kids) = Len(keys) + 1
    /\ \A i \in 1..Len(keys) : keys[i] = FirstKey(kids[i + 1])

IsMade(h, n, keys, kids) ==
    /\ n \in Tiers(order, 1)[h] /\ n \in Nodes /\ ~IsLeaf(n) /\ n.keys = keys /\ n.kids = kids
    /\ Leaves[n] = LS(kids) /\ KeysOf(n) = KS(kids) /\ FirstKey(n) = FirstKey(kids[1])

\* Entries with the separators that fit make a tree.
LEMMA EntriesMakeANode ==
  ASSUME IsOrder(order), NEW h \in 1..MaxKeys, NEW keys, NEW kids, AreEntries(h - 1, keys, kids)
  PROVE  IsMade(h, Node(keys, kids), keys, kids)
  <1> DEFINE n == Node(keys, kids)
  <1>1. /\ keys \in Seq(Keys) /\ kids \in Seq(Fit(order, Tiers(order, 1)[h - 1]))
        /\ Len(kids) = Len(keys) + 1
        /\ \A i \in 1..Len(keys) : keys[i] = FirstKey(kids[i + 1])
    BY DEF AreEntries
  <1>2. n.keys = keys /\ n.kids = kids
    BY DEF Node
  <1>3. Separated(n)
    BY <1>1, <1>2 DEF Separated
  <1>4. n \in Tiers(order, 1)[h] /\ n \in Nodes /\ ~IsLeaf(n)
    BY <1>1, <1>3, ParentTier
  <1>5. Leaves[n] = LS(kids) /\ KeysOf(n) = KS(kids)
    BY <1>2, <1>4, LeavesStep, KeysOfStep
  <1>6. h \in 0..MaxKeys /\ h # 0
    BY BoundIsNat
  <1>7. FirstKey(n) = FirstKey(kids[1])
    BY <1>2, <1>4, <1>6, FirstKeyOfParent
  <1> QED
    BY <1>2, <1>4, <1>5, <1>7 DEF IsMade

\* The entries before and behind a separator.
AreCut(h, keys, kids, k, a, b, x, y) ==
    /\ a = SubSeq(keys, 1, k - 1) /\ b = SubSeq(keys, k + 1, Len(keys))
    /\ x = SubSeq(kids, 1, k) /\ y = SubSeq(kids, k + 1, Len(kids))
    /\ AreEntries(h, a, x) /\ AreEntries(h, b, y)
    /\ Len(a) = k - 1 /\ Len(b) = Len(keys) - k
    /\ y[1] = kids[k + 1] /\ kids = Cat(x, y)

\* Entries can be cut at a separator.
LEMMA EntriesCut ==
  ASSUME NEW h, NEW keys, NEW kids, AreEntries(h, keys, kids), NEW k \in 1..Len(keys)
  PROVE  \E a, b, x, y : AreCut(h, keys, kids, k, a, b, x, y)
  <1> DEFINE F == Fit(order, Tiers(order, 1)[h])
             n == Len(keys)
             a == SubSeq(keys, 1, k - 1)
             b == SubSeq(keys, k + 1, Len(keys))
             x == SubSeq(kids, 1, k)
             y == SubSeq(kids, k + 1, Len(kids))
  <1>1. /\ keys \in Seq(Keys) /\ kids \in Seq(F) /\ Len(kids) = n + 1
        /\ \A i \in 1..n : keys[i] = FirstKey(kids[i + 1])
    BY DEF AreEntries
  <1>2. n \in Nat /\ k \in Int
    BY <1>1
  <1>3. /\ a \in Seq(Keys) /\ b \in Seq(Keys) /\ Len(a) = k - 1 /\ Len(b) = n - k
        /\ \A i \in 1..(k - 1) : a[i] = keys[i]
        /\ \A i \in 1..(n - k) : b[i] = keys[k + i]
    BY <1>1, TakenOut
  <1>4. /\ x \in Seq(F) /\ y \in Seq(F) /\ Len(x) = k /\ Len(y) = n + 1 - k
        /\ \A i \in 1..k : x[i] = kids[i]
        /\ \A i \in 1..(n + 1 - k) : y[i] = kids[k + i]
        /\ kids = Cat(x, y)
    <2> DEFINE q == k + 1
    <2>1. q \in 1..(Len(kids) + 1) /\ q - 1 = k /\ Len(kids) + 1 - q = n + 1 - k /\ \A i \in Int : q + i - 1 = k + i
      BY <1>1, <1>2
    <2>2. x = SubSeq(kids, 1, q - 1) /\ y = SubSeq(kids, q, Len(kids))
      BY <2>1
    <2> HIDE DEF q, x, y, F
    <2>3. /\ SubSeq(kids, 1, q - 1) \in Seq(F) /\ SubSeq(kids, q, Len(kids)) \in Seq(F)
          /\ Len(SubSeq(kids, 1, q - 1)) = q - 1 /\ Len(SubSeq(kids, q, Len(kids))) = Len(kids) + 1 - q
          /\ \A i \in 1..(q - 1) : SubSeq(kids, 1, q - 1)[i] = kids[i]
          /\ \A i \in 1..(Len(kids) + 1 - q) : SubSeq(kids, q, Len(kids))[i] = kids[q + i - 1]
          /\ kids = Cat(SubSeq(kids, 1, q - 1), SubSeq(kids, q, Len(kids)))
      BY ONLY <1>1, <2>1, CutAt
    <2> QED
      BY <1>2, <2>1, <2>2, <2>3
  <1> HIDE DEF a, b, x, y, F, n
  <1>5. \A i \in 1..Len(a) : a[i] = FirstKey(x[i + 1])
    <2> TAKE i \in 1..Len(a)
    <2>1. i \in 1..(k - 1) /\ i \in 1..n /\ i + 1 \in 1..k
      BY <1>2, <1>3 DEF n
    <2> QED
      BY <1>1, <1>3, <1>4, <2>1
  <1>6. \A i \in 1..Len(b) : b[i] = FirstKey(y[i + 1])
    <2> TAKE i \in 1..Len(b)
    <2>1. i \in 1..(n - k) /\ k + i \in 1..n /\ i + 1 \in 1..(n + 1 - k) /\ k + (i + 1) = (k + i) + 1
      BY <1>2, <1>3 DEF n
    <2>2. b[i] = keys[k + i] /\ keys[k + i] = FirstKey(kids[(k + i) + 1])
      BY <1>1, <1>3, <2>1
    <2>3. y[i + 1] = kids[k + (i + 1)]
      BY <1>4, <2>1
    <2> QED
      BY <2>1, <2>2, <2>3
  <1>7. AreEntries(h, a, x) /\ AreEntries(h, b, y)
    BY <1>2, <1>3, <1>4, <1>5, <1>6 DEF AreEntries, F
  <1>8. 1 \in 1..(n + 1 - k)
    BY <1>2 DEF n
  <1>9. /\ a = SubSeq(keys, 1, k - 1) /\ b = SubSeq(keys, k + 1, Len(keys))
        /\ x = SubSeq(kids, 1, k) /\ y = SubSeq(kids, k + 1, Len(kids)) /\ n = Len(keys)
    BY DEF a, b, x, y, n
  <1>10. y[1] = kids[k + 1]
    BY <1>4, <1>8
  <1> QED
    <2>1. AreCut(h, keys, kids, k, a, b, x, y)
      BY <1>2, <1>3, <1>4, <1>7, <1>9, <1>10 DEF AreCut
    <2> QED
      BY <2>1, Zenon

\* A parent that got an entry is placed, split if it is full, with the same leaves.
LEMMA ParentPlace ==
  ASSUME IsOrder(order), NEW h \in 1..MaxKeys, NEW keys, NEW kids,
         AreEntries(h - 1, keys, kids), Len(keys) \in 1..order
  PROVE  LET p == Place(Node(keys, kids)) IN
         /\ IsEntry(h, p) /\ KS(p.kids) = KS(kids) /\ LS(p.kids) = LS(kids)
         /\ Len(keys) >= MinOf(order) => AreFit(h, p.kids)
  <1> DEFINE n == Node(keys, kids)
             p == Place(n)
  <1>0. h \in 0..MaxKeys /\ keys \in Seq(Keys) /\ kids \in Seq(Fit(order, Tiers(order, 1)[h - 1]))
        /\ Len(kids) = Len(keys) + 1 /\ Len(keys) \in Nat
    BY BoundIsNat DEF AreEntries
  <1>1. /\ n \in Tiers(order, 1)[h] /\ n \in Nodes /\ ~IsLeaf(n) /\ n.keys = keys /\ n.kids = kids
        /\ Leaves[n] = LS(kids) /\ KeysOf(n) = KS(kids)
    BY EntriesMakeANode DEF IsMade
  <1> HIDE DEF n
  <1>2. CASE Len(keys) # order
    <2>1. p = Single(n)
      BY <1>1, <1>2, PlaceIsSingle
    <2>2. n \in Sound(order, 1, h) /\ n.keys # <<>>
      BY <1>0, <1>1, <1>2 DEF Sound, IsOrder
    <2>3. /\ IsEntry(h, Single(n)) /\ Single(n).kids = One(n)
          /\ Len(n.keys) >= MinOf(order) => AreFit(h, Single(n).kids)
      BY <1>0, <2>2, SingleIs
    <2>4. LS(One(n)) = LS(kids) /\ KS(One(n)) = KS(kids)
      BY <1>1, LSOne, KSOne
    <2> QED
      BY <1>1, <2>1, <2>3, <2>4 DEF n
  <1>3. CASE Len(keys) = order
    <2> DEFINE half == Len(keys) \div 2
               k == half + 1
               F == Fit(order, Tiers(order, 1)[h - 1])
    <2>1. /\ k \in 1..Len(keys) /\ k - 1 = half /\ half + 2 = k + 1 /\ half \in Nat /\ order \in Nat
          /\ half \in MinOf(order)..(order - 1) /\ Len(keys) - k \in MinOf(order)..(order - 1)
      <3>1. /\ order \in Nat /\ order >= 3 /\ half \in Nat
            /\ half + 1 \in 1..order /\ half \in ((order + 1) \div 2 - 1)..(order - 1)
            /\ order - (half + 1) \in ((order + 1) \div 2 - 1)..(order - 1)
        BY <1>3 DEF IsOrder
      <3> HIDE DEF half
      <3> QED
        BY <1>3, <3>1 DEF MinOf
    <2>0. k \in 1..Len(keys)
      BY <2>1
    <2> HIDE DEF k
    <2>a. PICK a, b, x, y : AreCut(h - 1, keys, kids, k, a, b, x, y)
      BY <2>0, EntriesCut
    <2>2. /\ a = SubSeq(keys, 1, k - 1) /\ b = SubSeq(keys, k + 1, Len(keys))
          /\ x = SubSeq(kids, 1, k) /\ y = SubSeq(kids, k + 1, Len(kids))
          /\ AreEntries(h - 1, a, x) /\ AreEntries(h - 1, b, y)
          /\ Len(a) = k - 1 /\ Len(b) = Len(keys) - k
          /\ y[1] = kids[k + 1] /\ kids = Cat(x, y)
      BY <2>a DEF AreCut
    <2>3. LeftKeys(n) = a /\ LeftKids(n) = x /\ RightKids(n) = y
      BY <1>1, <2>1, <2>2 DEF LeftKeys, LeftKids, RightKids, k
    <2>4. RightKeys(n) = SubSeq(keys, k, Len(keys))
      BY <1>1 DEF RightKeys, k
    <2> HIDE DEF half
    <2>5. Head(RightKeys(n)) = keys[k] /\ Tail(RightKeys(n)) = b
      BY <1>0, <2>0, <2>2, <2>4
    <2> HIDE DEF F
    <2>6. p = Double(Node(a, x), keys[k], Node(b, y))
      BY <1>1, <1>3, <2>3, <2>5, PlaceIsDouble
    <2>7. /\ Node(a, x) \in Tiers(order, 1)[h] /\ Node(a, x).keys = a /\ Leaves[Node(a, x)] = LS(x)
          /\ KeysOf(Node(a, x)) = KS(x)
      <3>1. AreEntries(h - 1, a, x)
        BY <2>2
      <3>2. IsMade(h, Node(a, x), a, x)
        BY <3>1, EntriesMakeANode
      <3> QED
        BY <3>2 DEF IsMade
    <2>8. /\ Node(b, y) \in Tiers(order, 1)[h] /\ Node(b, y).keys = b /\ Leaves[Node(b, y)] = LS(y)
          /\ KeysOf(Node(b, y)) = KS(y) /\ FirstKey(Node(b, y)) = FirstKey(y[1])
      <3>1. AreEntries(h - 1, b, y)
        BY <2>2
      <3>2. IsMade(h, Node(b, y), b, y)
        BY <3>1, EntriesMakeANode
      <3> QED
        BY <3>2 DEF IsMade
    <2>9. Node(a, x) \in Fit(order, Tiers(order, 1)[h]) /\ Node(b, y) \in Fit(order, Tiers(order, 1)[h])
      BY <2>1, <2>2, <2>7, <2>8 DEF Fit
    <2>10. keys[k] \in Keys /\ keys[k] = FirstKey(Node(b, y))
      BY <1>0, <2>1, <2>2, <2>8 DEF AreEntries
    <2>11. /\ IsEntry(h, p) /\ AreFit(h, p.kids)
           /\ LS(p.kids) = Cat(LS(x), LS(y)) /\ KS(p.kids) = Cat(KS(x), KS(y))
      BY <1>0, <2>6, <2>7, <2>8, <2>9, <2>10, DoubleIs
    <2>12. x \in Seq(Nodes) /\ y \in Seq(Nodes)
      <3>1. F \subseteq Nodes
        <4>1. h - 1 \in 0..MaxKeys
          BY BoundIsNat
        <4> QED
          BY <4>1, TiersAreNodes DEF F, Fit
      <3>2. x \in Seq(F) /\ y \in Seq(F)
        BY <2>2 DEF AreEntries, F
      <3> QED
        BY <3>1, <3>2, SeqMonotonic
    <2>13. Cat(LS(x), LS(y)) = LS(kids) /\ Cat(KS(x), KS(y)) = KS(kids)
      BY <2>2, <2>12, LSCat, KSCat
    <2> QED
      BY <2>11, <2>13 DEF n
  <1> QED
    BY <1>2, <1>3

(***************************************************************************)
(* What takes the place of a node takes its place among the children.      *)
(***************************************************************************)

\* The elements of three sequences, one behind the other.
ThreeAre(w, a, b, c) ==
    /\ Len(w) = (Len(a) + Len(b)) + Len(c)
    /\ \A j \in 1..Len(a) : w[j] = a[j]
    /\ \A j \in 1..Len(b) : w[Len(a) + j] = b[j]
    /\ \A j \in 1..Len(c) : w[(Len(a) + Len(b)) + j] = c[j]

\* The elements of three sequences, one behind the other.
LEMMA CatThree ==
  ASSUME NEW S, NEW a \in Seq(S), NEW b \in Seq(S), NEW c \in Seq(S)
  PROVE  Cat(Cat(a, b), c) \in Seq(S) /\ ThreeAre(Cat(Cat(a, b), c), a, b, c)
  <1> DEFINE u == Cat(a, b)
             w == Cat(u, c)
  <1>1. /\ u \in Seq(S) /\ Len(u) = Len(a) + Len(b)
        /\ \A i \in 1..Len(a) : u[i] = a[i]
        /\ \A j \in 1..Len(b) : u[Len(a) + j] = b[j]
    <2>1. u \in Seq(S) /\ Len(u) = Len(a) + Len(b)
      BY CatType, Zenon
    <2>2. \A i \in 1..Len(a) : u[i] = a[i]
      BY CatFirst, Zenon
    <2>3. \A j \in 1..Len(b) : u[Len(a) + j] = b[j]
      BY CatSecond, Zenon
    <2> HIDE DEF u
    <2> QED
      BY <2>1, <2>2, <2>3
  <1> HIDE DEF u
  <1>2. /\ w \in Seq(S) /\ Len(w) = Len(u) + Len(c)
        /\ \A i \in 1..Len(u) : w[i] = u[i]
        /\ \A j \in 1..Len(c) : w[Len(u) + j] = c[j]
    <2>0. u \in Seq(S)
      BY <1>1
    <2>1. w \in Seq(S) /\ Len(w) = Len(u) + Len(c)
      BY <2>0, CatType, Zenon
    <2>2. \A i \in 1..Len(u) : w[i] = u[i]
      BY <2>0, CatFirst, Zenon
    <2>3. \A j \in 1..Len(c) : w[Len(u) + j] = c[j]
      BY <2>0, CatSecond, Zenon
    <2> HIDE DEF w
    <2> QED
      BY <2>1, <2>2, <2>3
  <1> HIDE DEF w
  <1>3. Len(a) \in Nat /\ Len(b) \in Nat /\ Len(c) \in Nat
    OBVIOUS
  <1>4. \A j \in 1..Len(a) : w[j] = a[j]
    <2> TAKE j \in 1..Len(a)
    <2>1. j \in 1..Len(u)
      BY <1>1, <1>3
    <2> QED
      BY <1>1, <1>2, <2>1
  <1>5. \A j \in 1..Len(b) : w[Len(a) + j] = b[j]
    <2> TAKE j \in 1..Len(b)
    <2>1. Len(a) + j \in 1..Len(u)
      BY <1>1, <1>3
    <2> QED
      BY <1>1, <1>2, <2>1
  <1>6. Len(w) = (Len(a) + Len(b)) + Len(c)
    BY <1>1, <1>2
  <1>7. \A j \in 1..Len(c) : w[(Len(a) + Len(b)) + j] = c[j]
    BY <1>1, <1>2
  <1>8. ThreeAre(w, a, b, c)
    BY <1>4, <1>5, <1>6, <1>7 DEF ThreeAre
  <1> QED
    BY <1>2, <1>8 DEF w, u

\* m with p in the place of its child i.
IsSpliced(h, m, i, p, s) ==
    /\ s = Node(s.keys, s.kids) /\ AreEntries(h, s.keys, s.kids)
    /\ Len(s.keys) = Len(m.keys) + Len(p.keys)
    /\ s.kids = Cat(Cat(SubSeq(m.kids, 1, i - 1), p.kids), SubSeq(m.kids, i + 1, Len(m.kids)))

\* What Spliced makes of a parent: entries that fit again.
LEMMA SplicedIs ==
  ASSUME IsOrder(order), NEW h \in 0..MaxKeys, NEW m, AreEntries(h, m.keys, m.kids),
         NEW i \in 1..Len(m.kids), NEW p, IsEntry(h, p), AreFit(h, p.kids),
         i # 1 => FirstKey(p.kids[1]) = FirstKey(m.kids[i])
  PROVE  IsSpliced(h, m, i, p, Spliced(m, i, p))
  <1> DEFINE F == Fit(order, Tiers(order, 1)[h])
             s == Spliced(m, i, p)
             keys == m.keys
             kids == m.kids
             n == Len(keys)
             q == Len(p.keys)
             k1 == SubSeq(keys, 1, i - 1)
             k2 == SubSeq(keys, i, Len(keys))
             a == SubSeq(kids, 1, i - 1)
             c == SubSeq(kids, i + 1, Len(kids))
  <1>1. /\ keys \in Seq(Keys) /\ kids \in Seq(F) /\ Len(kids) = n + 1 /\ n \in Nat /\ i \in Int
        /\ \A j \in 1..n : keys[j] = FirstKey(kids[j + 1])
    BY DEF AreEntries
  <1>2. /\ p.keys \in Seq(Keys) /\ Len(p.kids) = q + 1 /\ q \in Nat
        /\ \A j \in 1..q : p.keys[j] = FirstKey(p.kids[j + 1])
        /\ p.kids \in Seq(Nodes) /\ \A j \in 1..(q + 1) : p.kids[j] \in F
    BY DEF IsEntry, AreFit
  <1>3. p.kids \in Seq(F)
    <2> DEFINE z == p.kids
    <2>1. z \in Seq(Nodes) /\ Len(z) = q + 1 /\ \A j \in 1..(q + 1) : z[j] \in F
      BY <1>2
    <2> HIDE DEF z, F
    <2> QED
      BY <2>1, <1>2 DEF z
  <1>4. /\ k1 \in Seq(Keys) /\ k2 \in Seq(Keys) /\ Len(k1) = i - 1 /\ Len(k2) = n + 1 - i
        /\ \A j \in 1..(i - 1) : k1[j] = keys[j]
        /\ \A j \in 1..(n + 1 - i) : k2[j] = keys[i + j - 1]
    <2>1. i \in 1..(Len(keys) + 1)
      BY <1>1
    <2> QED
      BY <1>1, <2>1, CutAt
  <1>5. /\ a \in Seq(F) /\ c \in Seq(F) /\ Len(a) = i - 1 /\ Len(c) = Len(kids) - i
        /\ \A j \in 1..(i - 1) : a[j] = kids[j]
        /\ \A j \in 1..(Len(kids) - i) : c[j] = kids[i + j]
    BY <1>1, TakenOut
  <1>6. s = Node(Cat(Cat(k1, p.keys), k2), Cat(Cat(a, p.kids), c))
    BY Zenon DEF Spliced, Cat
  <1> DEFINE w == Cat(Cat(k1, p.keys), k2)
             u == Cat(Cat(a, p.kids), c)
  <1>7. s.keys = w /\ s.kids = u
    BY <1>6 DEF Node
  <1> HIDE DEF k1, k2, a, c, F
  <1>8. w \in Seq(Keys) /\ ThreeAre(w, k1, p.keys, k2)
    BY ONLY <1>2, <1>4, CatThree
  <1>9. u \in Seq(F) /\ ThreeAre(u, a, p.kids, c)
    BY ONLY <1>3, <1>5, CatThree
  <1> HIDE DEF w, u, s, q, n, keys, kids
  <1>10. Len(w) = n + q /\ Len(u) = (n + q) + 1
    <2>1. Len(w) = (Len(k1) + q) + Len(k2) /\ Len(u) = (Len(a) + Len(p.kids)) + Len(c)
      BY <1>8, <1>9 DEF ThreeAre, q
    <2>2. \A x, y, z \in Int : ((z - 1) + y) + (x + 1 - z) = x + y
                               /\ ((z - 1) + (y + 1)) + ((x + 1) - z) = (x + y) + 1
      OBVIOUS
    <2>3. n \in Int /\ q \in Int
      BY <1>1, <1>2
    <2> QED
      BY <1>1, <1>2, <1>4, <1>5, <2>1, <2>2, <2>3
  <1>11. ASSUME NEW j \in 1..(i - 1) PROVE w[j] = FirstKey(u[j + 1])
    <2>1. w[j] = keys[j] /\ keys[j] = FirstKey(kids[j + 1])
      <3>1. j \in 1..Len(k1) /\ j \in 1..n
        BY <1>1, <1>4
      <3> QED
        BY <1>1, <1>4, <1>8, <3>1 DEF ThreeAre
    <2>2. CASE j + 1 \in 1..(i - 1)
      <3>1. u[j + 1] = kids[j + 1]
        BY <1>5, <1>9, <2>2 DEF ThreeAre
      <3> QED
        BY <2>1, <3>1
    <2>3. CASE j + 1 = i
      <3>1. 1 \in 1..Len(p.kids) /\ Len(a) + 1 = j + 1 /\ i # 1
        BY <1>1, <1>2, <1>5, <2>3
      <3>2. u[Len(a) + 1] = p.kids[1]
        BY <1>9, <3>1 DEF ThreeAre
      <3> QED
        BY <2>1, <2>3, <3>1, <3>2 DEF kids
    <2> QED
      BY <1>1, <2>2, <2>3
  <1>12. ASSUME NEW j \in 1..q PROVE w[(i - 1) + j] = FirstKey(u[((i - 1) + j) + 1])
    <2>1. w[Len(k1) + j] = p.keys[j]
      BY <1>8 DEF ThreeAre, q
    <2>2. j + 1 \in 1..Len(p.kids)
      BY <1>2
    <2>3. u[Len(a) + (j + 1)] = p.kids[j + 1]
      BY <1>9, <2>2 DEF ThreeAre
    <2>4. Len(k1) + j = (i - 1) + j /\ Len(a) + (j + 1) = ((i - 1) + j) + 1
      BY <1>1, <1>2, <1>4, <1>5
    <2> QED
      BY <1>2, <2>1, <2>3, <2>4
  <1>13. ASSUME NEW j \in 1..(n + 1 - i)
         PROVE  w[((i - 1) + q) + j] = FirstKey(u[(((i - 1) + q) + j) + 1])
    <2>1. w[(Len(k1) + q) + j] = k2[j]
      <3>1. j \in 1..Len(k2)
        BY <1>4
      <3> QED
        BY <1>8, <3>1 DEF ThreeAre, q
    <2>2. k2[j] = keys[i + j - 1] /\ i + j - 1 \in 1..n /\ (i + j - 1) + 1 = i + j
      <3>1. i + j - 1 \in 1..n /\ (i + j - 1) + 1 = i + j
        BY <1>1
      <3>2. k2[j] = keys[i + j - 1]
        BY <1>4
      <3> QED
        BY <3>1, <3>2
    <2>3. keys[i + j - 1] = FirstKey(kids[i + j])
      BY <1>1, <2>2
    <2>4. j \in 1..(Len(kids) - i)
      BY <1>1
    <2>5. u[(Len(a) + Len(p.kids)) + j] = kids[i + j]
      BY <1>5, <1>9, <2>4 DEF ThreeAre
    <2>6. (Len(k1) + q) + j = ((i - 1) + q) + j /\ (Len(a) + Len(p.kids)) + j = (((i - 1) + q) + j) + 1
      BY <1>1, <1>2, <1>4, <1>5
    <2> QED
      BY <2>1, <2>2, <2>3, <2>5, <2>6
  <1>14. \A j \in 1..Len(w) : w[j] = FirstKey(u[j + 1])
    <2> TAKE j \in 1..Len(w)
    <2>1. j \in Int /\ j >= 1 /\ j <= n + q
      BY <1>1, <1>2, <1>10
    <2>2. CASE j <= i - 1
      BY <1>1, <1>11, <2>1, <2>2
    <2>3. CASE j > i - 1 /\ j <= (i - 1) + q
      <3>1. j - (i - 1) \in 1..q /\ (i - 1) + (j - (i - 1)) = j
        BY <1>1, <1>2, <2>1, <2>3
      <3>2. w[(i - 1) + (j - (i - 1))] = FirstKey(u[((i - 1) + (j - (i - 1))) + 1])
        BY <1>12, <3>1
      <3> QED
        BY <3>1, <3>2
    <2>4. CASE j > (i - 1) + q
      <3>1. j - ((i - 1) + q) \in 1..(n + 1 - i) /\ ((i - 1) + q) + (j - ((i - 1) + q)) = j
        BY <1>1, <1>2, <2>1, <2>4
      <3>2. w[((i - 1) + q) + (j - ((i - 1) + q))] = FirstKey(u[(((i - 1) + q) + (j - ((i - 1) + q))) + 1])
        BY <1>13, <3>1
      <3> QED
        BY <3>1, <3>2
    <2> QED
      BY <1>1, <1>2, <2>1, <2>2, <2>3, <2>4
  <1>15. AreEntries(h, w, u)
    BY <1>8, <1>9, <1>10, <1>14 DEF AreEntries, F
  <1>16. s = Node(s.keys, s.kids)
    BY <1>6, <1>7 DEF w, u
  <1>17. u = Cat(Cat(SubSeq(m.kids, 1, i - 1), p.kids), SubSeq(m.kids, i + 1, Len(m.kids)))
    BY DEF u, a, c, kids
  <1>18. IsSpliced(h, m, i, p, s)
    BY <1>7, <1>10, <1>15, <1>16, <1>17 DEF IsSpliced, n, q, keys
  <1> QED
    BY <1>18 DEF s

\* LeafFor of a leaf, and of a parent by its child on the way.
LEMMA LeafForStep ==
  ASSUME NEW n \in Nodes, NEW v \in Int
  PROVE  /\ IsLeaf(n) => LeafFor(n, v) = [leaf |-> n, at |-> 1]
         /\ ~IsLeaf(n) => LeafFor(n, v) = [LeafFor(n.kids[findChild(n, v)], v) EXCEPT
                                             !.at = LeavesBefore(n, findChild(n, v)) + @]
  <1> PICK f : (\A m \in Nodes : f[m] = LeafForBy(f, m, v)) /\ (\A m : LeafFor(m, v) = f[m])
    BY LeafForIs
  <1>1. f[n] = LeafForBy(f, n, v) /\ \A m : LeafFor(m, v) = f[m]
    OBVIOUS
  <1> QED
    BY <1>1, Zenon DEF LeafForBy

\* addHelper of a leaf, and of a parent by its child on the way.
LEMMA PlaceStep ==
  ASSUME NEW n \in Nodes, NEW v \in Int
  PROVE  /\ IsLeaf(n) => PlaceWith(n, v) = Place(Leaf(Added(n.keys, v)))
         /\ ~IsLeaf(n) => PlaceWith(n, v)
              = Place(Spliced(n, findChild(n, v), PlaceWith(n.kids[findChild(n, v)], v)))
  <1> PICK f : (\A m \in Nodes : f[m] = PlaceBy(f, m, v)) /\ (\A m : PlaceWith(m, v) = f[m])
    BY PlaceIs
  <1>1. f[n] = PlaceBy(f, n, v) /\ \A m : PlaceWith(m, v) = f[m]
    OBVIOUS
  <1> QED
    BY <1>1, Zenon DEF PlaceBy

SplitsLeaf(m, v) == Len(LeafFor(m, v).leaf.keys) + 1 = order

\* What takes the place of m has its keys and v, and a leaf more if one is split.
IsPlaced(h, m, v, p) ==
    /\ IsEntry(h, p)
    /\ KS(p.kids) = Added(KeysOf(m), v)
    /\ Len(m.keys) >= MinOf(order) => AreFit(h, p.kids)
    /\ Len(LS(p.kids)) = Len(Leaves[m]) + (IF SplitsLeaf(m, v) THEN 1 ELSE 0)

\* What ChildHolds says, with a name.
IsChild(n, v, i, pre, post) ==
    /\ i \in 1..Len(n.kids) /\ pre \in Seq(Nodes) /\ post \in Seq(Nodes)
    /\ i = findChild(n, v)
    /\ pre = SubSeq(n.kids, 1, i - 1) /\ post = SubSeq(n.kids, i + 1, Len(n.kids))
    /\ Leaves[n] = Cat(Cat(LS(pre), Leaves[n.kids[i]]), LS(post))
    /\ KeysOf(n) = Cat(Cat(KS(pre), KeysOf(n.kids[i])), KS(post))
    /\ Sorted(KS(pre)) /\ Sorted(KeysOf(n.kids[i])) /\ Sorted(KS(post))
    /\ InOrder(KS(pre), KeysOf(n.kids[i]))
    /\ Upto(KS(pre), v) /\ Beyond(KS(post), v)
    /\ i # 1 => FirstKey(n.kids[i]) <= v
    /\ i = 1 => KS(pre) = <<>>

\* ChildHolds, for the named fact.
LEMMA AChild ==
  ASSUME NEW o, IsOrder(o), NEW h \in 0..MaxKeys, h # 0, NEW n \in Tiers(o, 1)[h],
         Sorted(KeysOf(n)), NEW v \in Int
  PROVE  \E i, pre, post : IsChild(n, v, i, pre, post)
  <1>1. PICK i \in 1..Len(n.kids), pre \in Seq(Nodes), post \in Seq(Nodes) :
           /\ i = findChild(n, v)
           /\ pre = SubSeq(n.kids, 1, i - 1) /\ post = SubSeq(n.kids, i + 1, Len(n.kids))
           /\ Leaves[n] = Cat(Cat(LS(pre), Leaves[n.kids[i]]), LS(post))
           /\ KeysOf(n) = Cat(Cat(KS(pre), KeysOf(n.kids[i])), KS(post))
           /\ Sorted(KS(pre)) /\ Sorted(KeysOf(n.kids[i])) /\ Sorted(KS(post))
           /\ InOrder(KS(pre), KeysOf(n.kids[i]))
           /\ Upto(KS(pre), v) /\ Beyond(KS(post), v)
           /\ i # 1 => FirstKey(n.kids[i]) <= v
           /\ i = 1 => KS(pre) = <<>>
    BY ChildHolds
  <1>2. IsChild(n, v, i, pre, post)
    BY <1>1, Zenon DEF IsChild
  <1> QED
    BY <1>2

\* addHelper at a leaf.
LEMMA PlacedInLeaf ==
  ASSUME IsOrder(order), NEW v \in Keys, NEW m \in Sound(order, 1, 0), Sorted(KeysOf(m))
  PROVE  IsPlaced(0, m, v, PlaceWith(m, v))
  <1>0. v \in Int /\ 0 \in 0..MaxKeys
    BY BoundIsNat
  <1>1. m \in Tiers(order, 1)[0] /\ Len(m.keys) < order
    BY DEF Sound
  <1>2. m \in Nodes /\ IsLeaf(m) /\ m.keys \in Seq(Keys)
    BY <1>0, <1>1, TierIs, NodeIs
  <1>3. KeysOf(m) = m.keys /\ Leaves[m] = One(m.keys)
    BY <1>2, KeysOfStep, LeavesStep
  <1> DEFINE added == Added(m.keys, v)
             p == Place(Leaf(added))
  <1>4. PlaceWith(m, v) = p
    BY <1>0, <1>2, PlaceStep
  <1>5. added \in Seq(Keys) /\ Len(added) = Len(m.keys) + 1
    BY <1>2, <1>3, AddedSorted
  <1>6. LeafFor(m, v).leaf = m
    BY <1>0, <1>2, LeafForStep
  <1> HIDE DEF added
  <1>7. Len(m.keys) \in Nat /\ order \in Nat /\ Len(added) \in 1..order
    BY <1>1, <1>2, <1>5 DEF IsOrder
  <1>8. /\ IsEntry(0, p) /\ KS(p.kids) = added
        /\ Len(LS(p.kids)) = IF Len(added) = order THEN 2 ELSE 1
        /\ Len(added) >= MinOf(order) => AreFit(0, p.kids)
    BY <1>5, <1>7, LeafPlace
  <1> HIDE DEF p
  <1>9. Len(Leaves[m]) = 1
    BY <1>2, <1>3, OneIs
  <1>10. MinOf(order) \in Nat
    BY MinIs
  <1>11. Len(LS(p.kids)) = Len(Leaves[m]) + (IF SplitsLeaf(m, v) THEN 1 ELSE 0)
    <2>1. SplitsLeaf(m, v) <=> Len(added) = order
      BY <1>5, <1>6 DEF SplitsLeaf
    <2> QED
      BY <1>8, <1>9, <2>1
  <1>12. KS(p.kids) = Added(KeysOf(m), v)
    BY <1>3, <1>8 DEF added
  <1>13. Len(m.keys) >= MinOf(order) => AreFit(0, p.kids)
    BY <1>5, <1>7, <1>8, <1>10
  <1>14. IsPlaced(0, m, v, p)
    BY <1>8, <1>11, <1>12, <1>13 DEF IsPlaced
  <1> QED
    BY <1>4, <1>14

\* What is known of a parent that can be a root.
LEMMA SoundParent ==
  ASSUME IsOrder(order), NEW h \in 0..MaxKeys, h # 0, NEW m \in Sound(order, 1, h)
  PROVE  /\ m \in Tiers(order, 1)[h] /\ m \in Nodes /\ ~IsLeaf(m) /\ h - 1 \in 0..MaxKeys
         /\ AreEntries(h - 1, m.keys, m.kids) /\ Len(m.keys) \in 1..(order - 1)
         /\ m.kids \in Seq(Nodes)
         /\ \A i \in 1..Len(m.kids) :
              /\ m.kids[i] \in Nodes /\ m.kids[i] \in Fit(order, Tiers(order, 1)[h - 1])
              /\ m.kids[i] \in Sound(order, 1, h - 1) /\ Filled(m.kids[i])
              /\ Len(m.kids[i].keys) >= MinOf(order)
  <1>1. m \in Tiers(order, 1)[h] /\ Len(m.keys) < order /\ m.keys # <<>>
    BY DEF Sound
  <1>2. /\ m \in Nodes /\ ~IsLeaf(m)
         /\ m.keys \in Seq(Keys) /\ m.kids \in Seq(Nodes) /\ Len(m.kids) = Len(m.keys) + 1
         /\ Len(m.keys) \in Nat
         /\ h - 1 \in 0..MaxKeys
         /\ \A i \in 1..Len(m.kids) :
              /\ m.kids[i] \in Nodes /\ m.kids[i] \in Fit(order, Tiers(order, 1)[h - 1])
              /\ m.kids[i] \in Sound(order, 1, h - 1) /\ m.kids[i] \in Tiers(order, 1)[h - 1]
              /\ Filled(m.kids[i])
    <2>1. ParentHas(order, 1, h, m)
      BY <1>1, ParentIs
    <2> QED
      BY <2>1 DEF ParentHas
  <1>3. m.kids \in Seq(Fit(order, Tiers(order, 1)[h - 1])) /\ Separated(m)
    BY <1>1, TierIs
  <1>4. AreEntries(h - 1, m.keys, m.kids)
    BY <1>2, <1>3 DEF AreEntries, Separated
  <1>5. Len(m.keys) \in 1..(order - 1)
    BY <1>1, <1>2 DEF IsOrder
  <1>6. \A i \in 1..Len(m.kids) : Len(m.kids[i].keys) >= MinOf(order)
    <2>1. \A i \in 1..Len(m.kids) : Len(m.kids[i].keys) \in MinOf(order)..(order - 1)
      BY <1>2 DEF Fit
    <2>2. MinOf(order) \in Int /\ order - 1 \in Int
      BY MinIs DEF IsOrder
    <2> QED
      BY <2>1, <2>2
  <1> QED
    BY <1>1, <1>2, <1>4, <1>5, <1>6

\* The leaves and keys below three groups of nodes, one behind the other.
LEMMA BelowThree ==
  ASSUME NEW a \in Seq(Nodes), NEW b \in Seq(Nodes), NEW c \in Seq(Nodes)
  PROVE  /\ LS(Cat(Cat(a, b), c)) = Cat(Cat(LS(a), LS(b)), LS(c))
         /\ KS(Cat(Cat(a, b), c)) = Cat(Cat(KS(a), KS(b)), KS(c))
  <1> DEFINE u == Cat(a, b)
  <1>1. u \in Seq(Nodes)
    BY CatType, Zenon
  <1>2. LS(u) = Cat(LS(a), LS(b)) /\ KS(u) = Cat(KS(a), KS(b))
    BY LSCat, KSCat, Zenon
  <1> HIDE DEF u
  <1>3. LS(Cat(u, c)) = Cat(LS(u), LS(c)) /\ KS(Cat(u, c)) = Cat(KS(u), KS(c))
    BY <1>1, LSCat, KSCat, Zenon
  <1> QED
    BY <1>2, <1>3 DEF u

\* The length of three sequences, one behind the other.
LEMMA ThreeLong ==
  ASSUME NEW S, NEW a \in Seq(S), NEW b \in Seq(S), NEW c \in Seq(S)
  PROVE  Len(Cat(Cat(a, b), c)) = (Len(a) + Len(b)) + Len(c)
  <1>1. ThreeAre(Cat(Cat(a, b), c), a, b, c)
    BY CatThree
  <1> QED
    BY <1>1 DEF ThreeAre

\* The key reaches the same leaf from a node and from the child on the way.
LEMMA SplitsBelow ==
  ASSUME NEW m \in Nodes, ~IsLeaf(m), NEW v \in Int, NEW kid, kid = m.kids[findChild(m, v)],
         NEW r, LeafFor(kid, v) = r, r = [leaf |-> r.leaf, at |-> r.at]
  PROVE  /\ LeafFor(m, v).leaf = r.leaf
         /\ LeafFor(m, v).at = LeavesBefore(m, findChild(m, v)) + r.at
         /\ SplitsLeaf(m, v) <=> SplitsLeaf(kid, v)
  <1>1. LeafFor(m, v) = [r EXCEPT !.at = LeavesBefore(m, findChild(m, v)) + @]
    BY LeafForStep, Zenon
  <1> DEFINE before == LeavesBefore(m, findChild(m, v))
  <1> HIDE DEF before
  <1>2. LeafFor(m, v) = [r EXCEPT !.at = before + @]
    BY <1>1 DEF before
  <1>3. [r EXCEPT !.at = before + @] = [leaf |-> r.leaf, at |-> before + r.at]
    OBVIOUS
  <1>4. LeafFor(m, v).leaf = r.leaf /\ LeafFor(m, v).at = before + r.at
    BY <1>2, <1>3
  <1>5. SplitsLeaf(m, v) <=> SplitsLeaf(kid, v)
    BY <1>4, Zenon DEF SplitsLeaf
  <1> QED
    BY <1>4, <1>5 DEF before

\* addHelper at a parent, if it is right at the child on the way.
LEMMA PlacedInParent ==
  ASSUME IsOrder(order), NEW v \in Keys, NEW h \in 0..MaxKeys, h # 0,
         NEW m \in Sound(order, 1, h), Sorted(KeysOf(m)),
         \A n \in Sound(order, 1, h - 1) : Sorted(KeysOf(n)) => IsPlaced(h - 1, n, v, PlaceWith(n, v))
  PROVE  IsPlaced(h, m, v, PlaceWith(m, v))
  <1>0. v \in Int /\ h \in 1..MaxKeys /\ h - 1 \in 0..MaxKeys
    BY BoundIsNat
  <1>1. /\ m \in Tiers(order, 1)[h] /\ m \in Nodes /\ ~IsLeaf(m)
         /\ AreEntries(h - 1, m.keys, m.kids) /\ Len(m.keys) \in 1..(order - 1)
         /\ m.kids \in Seq(Nodes)
         /\ \A i \in 1..Len(m.kids) :
              /\ m.kids[i] \in Nodes /\ m.kids[i] \in Fit(order, Tiers(order, 1)[h - 1])
              /\ m.kids[i] \in Sound(order, 1, h - 1) /\ Filled(m.kids[i])
              /\ Len(m.kids[i].keys) >= MinOf(order)
    BY SoundParent
  <1>2. PICK i, pre, post : IsChild(m, v, i, pre, post)
    BY <1>0, <1>1, AChild
  <1>3. /\ i \in 1..Len(m.kids) /\ pre \in Seq(Nodes) /\ post \in Seq(Nodes)
        /\ i = findChild(m, v)
        /\ pre = SubSeq(m.kids, 1, i - 1) /\ post = SubSeq(m.kids, i + 1, Len(m.kids))
        /\ Leaves[m] = Cat(Cat(LS(pre), Leaves[m.kids[i]]), LS(post))
        /\ KeysOf(m) = Cat(Cat(KS(pre), KeysOf(m.kids[i])), KS(post))
        /\ Sorted(KeysOf(m.kids[i]))
        /\ Upto(KS(pre), v) /\ Beyond(KS(post), v)
        /\ i # 1 => FirstKey(m.kids[i]) <= v
    BY <1>2, Zenon DEF IsChild
  <1> DEFINE kid == m.kids[i]
             q == PlaceWith(kid, v)
             s == Spliced(m, i, q)
             p == Place(s)
  <1>4. kid \in Nodes /\ kid \in Sound(order, 1, h - 1) /\ Filled(kid) /\ Len(kid.keys) >= MinOf(order)
        /\ kid \in Tiers(order, 1)[h - 1] /\ Sorted(KeysOf(kid))
    BY <1>1, <1>3 DEF Sound
  <1>5. PlaceWith(m, v) = p
    BY <1>0, <1>1, <1>3, PlaceStep
  <1>6. IsPlaced(h - 1, kid, v, q)
    BY <1>4
  <1> HIDE DEF kid, q, s, p
  <1>7. /\ IsEntry(h - 1, q) /\ KS(q.kids) = Added(KeysOf(kid), v) /\ AreFit(h - 1, q.kids)
        /\ Len(LS(q.kids)) = Len(Leaves[kid]) + (IF SplitsLeaf(kid, v) THEN 1 ELSE 0)
    BY <1>4, <1>6 DEF IsPlaced
  <1>8. /\ q.kids \in Seq(Nodes) /\ q.kids # <<>> /\ Filled(q.kids[1])
        /\ Len(q.keys) \in 0..1
    <2>1. /\ q.kids \in Seq(Nodes) /\ Len(q.kids) = Len(q.keys) + 1 /\ Len(q.keys) \in 0..1
          /\ \A j \in 1..Len(q.kids) : Filled(q.kids[j])
      BY <1>7 DEF IsEntry
    <2>2. q.kids # <<>> /\ 1 \in 1..Len(q.kids)
      BY <2>1
    <2> QED
      BY <2>1, <2>2
  <1>9. KeysOf(kid) \in Seq(Keys) /\ KeysOf(kid) # <<>> /\ FirstKey(kid) = Head(KeysOf(kid))
    BY <1>4, FirstKeyIs
  <1>10. i # 1 => FirstKey(q.kids[1]) = FirstKey(kid)
    <2> HAVE i # 1
    <2>1. Head(KS(q.kids)) = FirstKey(q.kids[1])
      BY <1>8, FirstOfKids
    <2>2. Head(KeysOf(kid)) <= v
      BY <1>3, <1>9 DEF kid
    <2>3. Head(Added(KeysOf(kid), v)) = Head(KeysOf(kid))
      BY <1>4, <1>9, <2>2, HeadAdded
    <2> QED
      BY <1>7, <1>9, <2>1, <2>3
  <1>11. IsSpliced(h - 1, m, i, q, s)
    BY <1>0, <1>1, <1>3, <1>7, <1>10, SplicedIs DEF s, kid
  <1>12. /\ s = Node(s.keys, s.kids) /\ AreEntries(h - 1, s.keys, s.kids)
         /\ Len(s.keys) = Len(m.keys) + Len(q.keys)
         /\ s.kids = Cat(Cat(pre, q.kids), post)
    BY <1>3, <1>11 DEF IsSpliced
  <1>13. Len(s.keys) \in 1..order /\ (Len(m.keys) >= MinOf(order) => Len(s.keys) >= MinOf(order))
    <2>1. order \in Nat /\ MinOf(order) \in Nat
      BY MinIs DEF IsOrder
    <2>2. \A a \in 1..(order - 1), b \in 0..1 :
            a + b \in 1..order /\ (a >= MinOf(order) => a + b >= MinOf(order))
      BY <2>1
    <2>3. Len(m.keys) \in 1..(order - 1) /\ Len(q.keys) \in 0..1
      BY <1>1, <1>8
    <2>4. Len(s.keys) = Len(m.keys) + Len(q.keys)
      BY <1>12
    <2> QED
      BY ONLY <2>2, <2>3, <2>4
  <1>14. /\ IsEntry(h, p) /\ KS(p.kids) = KS(s.kids) /\ LS(p.kids) = LS(s.kids)
         /\ Len(s.keys) >= MinOf(order) => AreFit(h, p.kids)
    <2>1. LET z == Place(Node(s.keys, s.kids)) IN
         /\ IsEntry(h, z) /\ KS(z.kids) = KS(s.kids) /\ LS(z.kids) = LS(s.kids)
         /\ Len(s.keys) >= MinOf(order) => AreFit(h, z.kids)
      BY <1>0, <1>12, <1>13, ParentPlace
    <2> QED
      BY <1>12, <2>1 DEF p
  <1>15. /\ LS(s.kids) = Cat(Cat(LS(pre), LS(q.kids)), LS(post))
         /\ KS(s.kids) = Cat(Cat(KS(pre), KS(q.kids)), KS(post))
    <2>1. pre \in Seq(Nodes) /\ post \in Seq(Nodes) /\ q.kids \in Seq(Nodes)
      BY <1>3, <1>8
    <2>2. /\ LS(Cat(Cat(pre, q.kids), post)) = Cat(Cat(LS(pre), LS(q.kids)), LS(post))
          /\ KS(Cat(Cat(pre, q.kids), post)) = Cat(Cat(KS(pre), KS(q.kids)), KS(post))
      BY ONLY <2>1, BelowThree
    <2>3. s.kids = Cat(Cat(pre, q.kids), post)
      BY <1>12
    <2> QED
      BY <2>2, <2>3, Zenon
  <1>16. KS(p.kids) = Added(KeysOf(m), v)
    <2>1. KS(pre) \in Seq(Keys) /\ KS(post) \in Seq(Keys)
      BY <1>3, KSType
    <2>2. Added(Cat(Cat(KS(pre), KeysOf(kid)), KS(post)), v)
            = Cat(Cat(KS(pre), Added(KeysOf(kid), v)), KS(post))
      BY <1>3, <1>4, <1>9, <2>1, AddedBetween
    <2> QED
      BY <1>3, <1>7, <1>14, <1>15, <2>2 DEF kid
  <1>17. Len(LS(p.kids)) = Len(Leaves[m]) + (IF SplitsLeaf(m, v) THEN 1 ELSE 0)
    <2>1. LS(pre) \in Seq(Seq(Keys)) /\ LS(post) \in Seq(Seq(Keys)) /\ LS(q.kids) \in Seq(Seq(Keys))
          /\ Leaves[kid] \in Seq(Seq(Keys))
      <3>1. LS(pre) \in Seq(Seq(Keys)) /\ LS(post) \in Seq(Seq(Keys)) /\ LS(q.kids) \in Seq(Seq(Keys))
        BY <1>3, <1>8, LSIs
      <3>2. Leaves[kid] \in Seq(Seq(Keys))
        BY <1>4, LeavesType DEF Rows
      <3> QED
        BY <3>1, <3>2
    <2>2. Len(Cat(Cat(LS(pre), LS(q.kids)), LS(post))) = (Len(LS(pre)) + Len(LS(q.kids))) + Len(LS(post))
      BY ONLY <2>1, ThreeLong
    <2>3. Len(Cat(Cat(LS(pre), Leaves[kid]), LS(post))) = (Len(LS(pre)) + Len(Leaves[kid])) + Len(LS(post))
      BY ONLY <2>1, ThreeLong
    <2>4. SplitsLeaf(m, v) <=> SplitsLeaf(kid, v)
      <3>1. IsFound(kid, v, LeafFor(kid, v))
        BY <1>0, <1>4, LeafIsFound
      <3>2. LeafFor(kid, v) = [leaf |-> LeafFor(kid, v).leaf, at |-> LeafFor(kid, v).at]
        BY <3>1 DEF IsFound
      <3>3. kid = m.kids[findChild(m, v)]
        BY <1>3 DEF kid
      <3> QED
        BY ONLY <1>0, <1>1, <3>2, <3>3, SplitsBelow
    <2>5. Len(LS(pre)) \in Nat /\ Len(LS(post)) \in Nat /\ Len(Leaves[kid]) \in Nat
      BY <2>1
    <2>6. \A a, b, c, d \in Int : (a + (b + d)) + c = ((a + b) + c) + d
      OBVIOUS
    <2>7. (IF SplitsLeaf(kid, v) THEN 1 ELSE 0) \in Int
      OBVIOUS
    <2>8. Len(Leaves[m]) = (Len(LS(pre)) + Len(Leaves[kid])) + Len(LS(post))
      BY <1>3, <2>3 DEF kid
    <2>9. Len(LS(p.kids)) = (Len(LS(pre)) + (Len(Leaves[kid]) + (IF SplitsLeaf(kid, v) THEN 1 ELSE 0))) + Len(LS(post))
      BY <1>7, <1>14, <1>15, <2>2
    <2> DEFINE d == IF SplitsLeaf(kid, v) THEN 1 ELSE 0
    <2>10. d = (IF SplitsLeaf(m, v) THEN 1 ELSE 0) /\ d \in Int
      BY <2>4, <2>7
    <2>11. Len(LS(p.kids)) = (Len(LS(pre)) + (Len(Leaves[kid]) + d)) + Len(LS(post))
      BY <2>9
    <2> HIDE DEF d
    <2> DEFINE x == Len(LS(pre))
               y == Len(LS(post))
               z == Len(Leaves[kid])
               u == Len(Leaves[m])
               w == Len(LS(p.kids))
    <2>13. x \in Int /\ y \in Int /\ z \in Int /\ u = (x + z) + y /\ w = (x + (z + d)) + y
      BY <2>5, <2>8, <2>11
    <2> HIDE DEF x, y, z, u, w
    <2>14. w = u + d
      BY <2>10, <2>13
    <2>12. Len(LS(p.kids)) = Len(Leaves[m]) + d
      BY <2>14 DEF w, u
    <2> QED
      BY <2>10, <2>12
  <1>18. Len(m.keys) >= MinOf(order) => AreFit(h, p.kids)
    BY <1>13, <1>14
  <1>19. IsPlaced(h, m, v, p)
    BY <1>14, <1>16, <1>17, <1>18 DEF IsPlaced
  <1> QED
    BY <1>5, <1>19

\* addHelper is right at every tree, of any height.
LEMMA PlaceHolds ==
  ASSUME IsOrder(order), NEW v \in Keys
  PROVE  \A h \in 0..MaxKeys : \A m \in Sound(order, 1, h) :
           Sorted(KeysOf(m)) => IsPlaced(h, m, v, PlaceWith(m, v))
  <1> DEFINE Holds(h) == \A m \in Sound(order, 1, h) :
                           Sorted(KeysOf(m)) => IsPlaced(h, m, v, PlaceWith(m, v))
             G == {h \in Nat : h <= MaxKeys => Holds(h)}
  <1>1. 0 \in G
    <2>1. Holds(0)
      BY PlacedInLeaf
    <2> QED
      BY <2>1
  <1>2. \A h \in Nat : h \in G => h + 1 \in G
    <2> SUFFICES ASSUME NEW h \in Nat, h \in G, h + 1 <= MaxKeys PROVE Holds(h + 1)
      OBVIOUS
    <2> DEFINE g == h + 1
    <2>1. g \in 0..MaxKeys /\ g # 0 /\ g - 1 = h /\ h <= MaxKeys
      BY BoundIsNat
    <2>2. Holds(g - 1)
      BY <2>1
    <2> HIDE DEF g
    <2>3. Holds(g)
      <3> SUFFICES ASSUME NEW m \in Sound(order, 1, g), Sorted(KeysOf(m))
                   PROVE  IsPlaced(g, m, v, PlaceWith(m, v))
        OBVIOUS
      <3> QED
        BY <2>1, <2>2, PlacedInParent
    <2> QED
      BY <2>3 DEF g
  <1> HIDE DEF Holds
  <1>3. Nat \subseteq G
    <2> HIDE DEF G
    <2> QED
      BY <1>1, <1>2, SetInduction
  <1>4. \A h \in 0..MaxKeys : Holds(h)
    BY <1>3, BoundIsNat
  <1> QED
    BY <1>4 DEF Holds

\* A tree of the class: the shape, the order and the chain are what they should be.
IsGood(t) == \E h \in 0..MaxKeys :
    t.root \in Sound(order, 1, h) /\ Sorted(KeysOf(t.root)) /\ Chained(t, Len(Leaves[t.root]))

\* A tree that gets another root keeps its chain.
LEMMA Rerooted ==
  ASSUME NEW t, NEW n, Chained(t, n), NEW r
  PROVE  Chained([t EXCEPT !.root = r], n) /\ [t EXCEPT !.root = r].root = r
  <1> DEFINE u == [t EXCEPT !.root = r]
  <1>1. t = Tree(t.root, t.next, t.prev)
    BY DEF Chained
  <1>2. u = Tree(r, t.next, t.prev)
    BY <1>1 DEF Tree
  <1>3. u.root = r /\ u.next = t.next /\ u.prev = t.prev
    BY <1>2 DEF Tree
  <1> HIDE DEF u
  <1>4. Chained(u, n)
    BY <1>2, <1>3 DEF Chained
  <1> QED
    BY <1>3, <1>4 DEF u

\* What addHelper returns for the root, made a root.
Root(p) == IF Len(p.kids) = 1 THEN p.kids[1] ELSE p

IsRoot(h, r, ks) == r \in Sound(order, 1, h) /\ r \in Nodes /\ Leaves[r] = LS(ks) /\ KeysOf(r) = KS(ks)

\* What addHelper returns makes a root: it is one node, or the new root above two.
LEMMA RootIs ==
  ASSUME IsOrder(order), NEW h \in 0..MaxKeys, NEW p, IsEntry(h, p), Len(KS(p.kids)) <= MaxKeys
  PROVE  \E g \in 0..MaxKeys : IsRoot(g, Root(p), p.kids)
  <1>1. /\ p = Node(p.keys, p.kids) /\ p.keys \in Seq(Keys) /\ p.kids \in Seq(Nodes)
        /\ Len(p.kids) = Len(p.keys) + 1 /\ Len(p.keys) \in 0..1
        /\ \A i \in 1..Len(p.kids) : p.kids[i] \in Sound(order, 1, h) /\ Filled(p.kids[i])
        /\ \A i \in 1..Len(p.keys) : p.keys[i] = FirstKey(p.kids[i + 1])
        /\ Len(p.keys) = 1 =>
             \A i \in 1..Len(p.kids) : p.kids[i] \in Fit(order, Tiers(order, 1)[h])
    BY DEF IsEntry
  <1>2. CASE Len(p.keys) = 0
    <2> DEFINE r == p.kids[1]
    <2>1. Len(p.kids) = 1 /\ 1 \in 1..Len(p.kids)
      BY <1>1, <1>2
    <2>2. r \in Nodes /\ r \in Sound(order, 1, h)
      BY <1>1, <2>1
    <2>3. p.kids = One(r)
      BY <1>1, <2>1 DEF One
    <2>4. Leaves[r] = LS(p.kids) /\ KeysOf(r) = KS(p.kids)
      BY <2>2, <2>3, LSOne, KSOne
    <2>5. Root(p) = r
      BY <2>1 DEF Root
    <2> HIDE DEF r
    <2>6. IsRoot(h, Root(p), p.kids)
      BY <2>2, <2>4, <2>5 DEF IsRoot
    <2> QED
      BY <2>6
  <1>3. CASE Len(p.keys) = 1
    <2>1. Len(p.kids) = 2 /\ Root(p) = p /\ p.keys # <<>>
      BY <1>1, <1>3 DEF Root
    <2> DEFINE a == p.kids[1]
               b == p.kids[2]
    <2>2. 1 \in 1..Len(p.kids) /\ 2 \in 1..Len(p.kids)
      BY <2>1
    <2>3. a \in Fit(order, Tiers(order, 1)[h]) /\ b \in Fit(order, Tiers(order, 1)[h])
          /\ a \in Nodes /\ b \in Nodes /\ Filled(a) /\ Filled(b)
      BY <1>1, <1>3, <2>2
    <2>4. p.kids = Two(a, b)
      BY <1>1, <2>1 DEF Two
    <2> HIDE DEF a, b
    <2>5. Len(Leaves[a]) >= h + 1 /\ Len(Leaves[b]) >= h + 1
      <3>1. a \in Tiers(order, 1)[h] /\ a.keys # <<>> /\ b \in Tiers(order, 1)[h] /\ b.keys # <<>>
        BY <2>3, FitIs
      <3> QED
        BY <3>1, TiersFilled
    <2>6. /\ KeysOf(a) \in Seq(Keys) /\ KeysOf(b) \in Seq(Keys)
          /\ Len(Leaves[a]) \in Nat /\ Len(Leaves[b]) \in Nat
          /\ Len(KeysOf(a)) >= Len(Leaves[a]) /\ Len(KeysOf(b)) >= Len(Leaves[b])
      BY <2>3, FirstKeyIs
    <2>7. Len(KS(p.kids)) = Len(KeysOf(a)) + Len(KeysOf(b))
      <3>1. KS(p.kids) = Cat(KeysOf(a), KeysOf(b))
        BY <2>3, <2>4, BelowTwo
      <3>2. Len(Cat(KeysOf(a), KeysOf(b))) = Len(KeysOf(a)) + Len(KeysOf(b))
        BY ONLY <2>6, CatType
      <3> QED
        BY <3>1, <3>2
    <2>8. h + 1 \in 1..MaxKeys /\ (h + 1) - 1 = h /\ h + 1 \in 0..MaxKeys /\ h + 1 # 0
      <3> DEFINE ka == Len(KeysOf(a))
                 kb == Len(KeysOf(b))
                 la == Len(Leaves[a])
                 lb == Len(Leaves[b])
      <3>1. /\ la \in Nat /\ lb \in Nat /\ ka \in Nat /\ kb \in Nat /\ ka >= la /\ kb >= lb
            /\ la >= h + 1 /\ lb >= h + 1 /\ ka + kb <= MaxKeys
        BY <2>5, <2>6, <2>7
      <3> HIDE DEF ka, kb, la, lb
      <3> QED
        BY <3>1, BoundIsNat
    <2> DEFINE g == h + 1
    <2>9. AreEntries(g - 1, p.keys, p.kids)
      <3>1. p.kids \in Seq(Fit(order, Tiers(order, 1)[h]))
        <4> DEFINE F == Fit(order, Tiers(order, 1)[h])
        <4>1. Two(a, b) \in Seq(F)
          <5>1. a \in F /\ b \in F
            BY <2>3
          <5> HIDE DEF F
          <5> QED
            BY <5>1, TwoIs
        <4> QED
          BY <2>4, <4>1
      <3>2. g - 1 = h
        BY <2>8
      <3> QED
        BY <1>1, <3>1, <3>2 DEF AreEntries
    <2>10. IsMade(g, Node(p.keys, p.kids), p.keys, p.kids)
      <3>1. g \in 1..MaxKeys
        BY <2>8
      <3> HIDE DEF g
      <3> QED
        BY <2>9, <3>1, EntriesMakeANode
    <2>11. IsMade(g, p, p.keys, p.kids)
      BY <1>1, <2>10
    <2>12. p \in Tiers(order, 1)[g] /\ p \in Nodes /\ Leaves[p] = LS(p.kids) /\ KeysOf(p) = KS(p.kids)
      BY <2>11 DEF IsMade
    <2>13. p \in Sound(order, 1, g)
      <3>1. Len(p.keys) < order
        BY <1>3 DEF IsOrder
      <3> HIDE DEF g
      <3> QED
        BY <2>1, <2>12, <3>1 DEF Sound
    <2>14. IsRoot(g, Root(p), p.kids)
      BY <2>1, <2>12, <2>13 DEF IsRoot
    <2> QED
      BY <2>8, <2>14
  <1> QED
    BY <1>1, <1>2, <1>3

\* add, in the terms above.
LEMMA AddIs ==
  ASSUME NEW t, NEW v
  PROVE  add(t, v) = [(IF SplitsLeaf(t.root, v) THEN ChainSplit(t, LeafFor(t.root, v).at) ELSE t)
                        EXCEPT !.root = Root(PlaceWith(t.root, v))]
  BY Zenon DEF add, SplitsLeaf, Root

\* add keeps the class, and adds the key.
LEMMA AddGood ==
  ASSUME IsOrder(order), NEW t, IsGood(t), NEW v \in Keys, Len(KeysOf(t.root)) < MaxKeys
  PROVE  IsGood(add(t, v)) /\ KeysOf(add(t, v).root) = Added(KeysOf(t.root), v)
  <1> DEFINE m == t.root
             p == PlaceWith(m, v)
             r == Root(p)
             n == Len(Leaves[m])
             at == LeafFor(m, v).at
             chain == IF SplitsLeaf(m, v) THEN ChainSplit(t, at) ELSE t
             k == n + (IF SplitsLeaf(m, v) THEN 1 ELSE 0)
  <1>1. PICK h \in 0..MaxKeys : m \in Sound(order, 1, h) /\ Sorted(KeysOf(m)) /\ Chained(t, n)
    BY DEF IsGood
  <1>2. m \in Tiers(order, 1)[h] /\ m \in Nodes /\ v \in Int
    BY <1>1, TierIs, BoundIsNat DEF Sound
  <1>3. n \in Nat
    <2>1. Leaves[m] \in Seq(Seq(Keys))
      BY <1>2, LeavesType DEF Rows
    <2> QED
      BY <2>1
  <1>4. IsPlaced(h, m, v, p)
    BY <1>1, PlaceHolds
  <1>5. at \in 1..n
    <2>1. IsFound(m, v, LeafFor(m, v))
      BY <1>1, <1>2, LeafIsFound
    <2> QED
      BY <2>1 DEF IsFound
  <1>6. KeysOf(m) \in Seq(Keys) /\ Added(KeysOf(m), v) \in Seq(Keys)
        /\ Len(Added(KeysOf(m), v)) = Len(KeysOf(m)) + 1 /\ Sorted(Added(KeysOf(m), v))
    <2>1. KeysOf(m) \in Seq(Keys)
      BY <1>2, KeysOfType
    <2> QED
      BY <1>1, <2>1, AddedSorted
  <1> HIDE DEF m, p, r, n, at
  <1>7. Chained(chain, k)
    <2>1. CASE SplitsLeaf(m, v)
      <3>1. Chained(ChainSplit(t, at), n + 1)
        BY <1>1, <1>3, <1>5, ChainSplitChained
      <3> QED
        BY <2>1, <3>1
    <2>2. CASE ~SplitsLeaf(m, v)
      <3>1. k = n /\ chain = t
        BY <1>3, <2>2
      <3> QED
        BY <1>1, <3>1
    <2> QED
      BY <2>1, <2>2
  <1>8. add(t, v) = [chain EXCEPT !.root = r]
    BY AddIs DEF m, p, r, at
  <1> HIDE DEF chain, k
  <1>9. Chained(add(t, v), k) /\ add(t, v).root = r
    <2>1. Chained([chain EXCEPT !.root = r], k) /\ [chain EXCEPT !.root = r].root = r
      BY <1>7, Rerooted
    <2> QED
      BY <1>8, <2>1, Zenon
  <1>10. IsEntry(h, p) /\ KS(p.kids) = Added(KeysOf(m), v) /\ Len(LS(p.kids)) = k
    BY <1>4 DEF IsPlaced, n, k
  <1>11. Len(KS(p.kids)) <= MaxKeys
    <2>1. Len(KeysOf(m)) \in Nat /\ Len(KeysOf(m)) < MaxKeys
      BY <1>6 DEF m
    <2> QED
      BY <1>6, <1>10, <2>1, BoundIsNat
  <1>12. PICK g \in 0..MaxKeys : IsRoot(g, r, p.kids)
    BY <1>10, <1>11, RootIs DEF r
  <1>13. r \in Sound(order, 1, g) /\ Len(Leaves[r]) = k /\ KeysOf(r) = Added(KeysOf(m), v)
    BY <1>10, <1>12 DEF IsRoot
  <1>14. IsGood(add(t, v))
    <2> DEFINE u == add(t, v)
    <2>1. u.root \in Sound(order, 1, g) /\ Sorted(KeysOf(u.root)) /\ Chained(u, Len(Leaves[u.root]))
      BY <1>6, <1>9, <1>13
    <2> HIDE DEF u
    <2>2. IsGood(u)
      BY <2>1 DEF IsGood
    <2> QED
      BY <2>2 DEF u
  <1> QED
    BY <1>9, <1>13, <1>14 DEF m

-----------------------------------------------------------------------------
(***************************************************************************)
(* remove: the repair of a parent whose leaf has lost a key.               *)
(***************************************************************************)

(***************************************************************************)
(* The children of the node that a remove repairs: one or two in the       *)
(* middle are replaced.                                                    *)
(***************************************************************************)

\* Three sequences, one behind the other, are a sequence with their elements.
LEMMA ThreeIs ==
  ASSUME NEW S, NEW a \in Seq(S), NEW b \in Seq(S), NEW c \in Seq(S), NEW w \in Seq(S),
         ThreeAre(w, a, b, c)
  PROVE  w = Cat(Cat(a, b), c)
  <1> DEFINE u == Cat(Cat(a, b), c)
  <1>1. u \in Seq(S) /\ ThreeAre(u, a, b, c)
    BY CatThree
  <1> HIDE DEF u
  <1>2. Len(a) \in Nat /\ Len(b) \in Nat /\ Len(c) \in Nat /\ Len(w) = (Len(a) + Len(b)) + Len(c) /\ Len(u) = Len(w)
    BY <1>1 DEF ThreeAre
  <1>3. ASSUME NEW i \in 1..Len(w) PROVE w[i] = u[i]
    <2>1. CASE i <= Len(a)
      <3>1. i \in 1..Len(a)
        BY <1>2, <2>1
      <3> QED
        BY <1>1, <3>1 DEF ThreeAre
    <2>2. CASE i > Len(a) /\ i <= Len(a) + Len(b)
      <3> DEFINE j == i - Len(a)
      <3>1. j \in 1..Len(b) /\ Len(a) + j = i
        BY <1>2, <2>2
      <3> HIDE DEF j
      <3>2. w[Len(a) + j] = b[j] /\ u[Len(a) + j] = b[j]
        BY <1>1, <3>1 DEF ThreeAre
      <3> QED
        BY <3>1, <3>2
    <2>3. CASE i > Len(a) + Len(b)
      <3> DEFINE j == i - (Len(a) + Len(b))
      <3>1. j \in 1..Len(c) /\ (Len(a) + Len(b)) + j = i
        BY <1>2, <2>3
      <3> HIDE DEF j
      <3>2. w[(Len(a) + Len(b)) + j] = c[j] /\ u[(Len(a) + Len(b)) + j] = c[j]
        BY <1>1, <3>1 DEF ThreeAre
      <3> QED
        BY <3>1, <3>2
    <2> QED
      BY <1>2, <2>1, <2>2, <2>3
  <1>4. w = u
    BY <1>1, <1>2, <1>3, SeqEqual
  <1> QED
    BY <1>4 DEF u

\* c with the elements of mid between those of a and b.
IsCut(c, a, mid, b, i) == c = Cat(Cat(a, mid), b) /\ Len(a) = i - 1

\* A sequence cut around one element.
LEMMA CutOne ==
  ASSUME NEW S, NEW c \in Seq(S), NEW i \in 1..Len(c)
  PROVE  \E a, b \in Seq(S) : /\ IsCut(c, a, One(c[i]), b, i) /\ Len(b) = Len(c) - i
                              /\ a = SubSeq(c, 1, i - 1) /\ b = SubSeq(c, i + 1, Len(c))
  <1> DEFINE a == SubSeq(c, 1, i - 1)
             b == SubSeq(c, i + 1, Len(c))
  <1>1. /\ a \in Seq(S) /\ b \in Seq(S) /\ Len(a) = i - 1 /\ Len(b) = Len(c) - i
        /\ c = Cat(Cat(a, One(c[i])), b)
    BY TakenOut
  <1>2. a = SubSeq(c, 1, i - 1) /\ b = SubSeq(c, i + 1, Len(c))
    OBVIOUS
  <1> HIDE DEF a, b
  <1>3. IsCut(c, a, One(c[i]), b, i)
    BY <1>1 DEF IsCut
  <1> QED
    BY <1>1, <1>2, <1>3

\* A sequence cut around two elements beside each other.
LEMMA CutTwo ==
  ASSUME NEW S, NEW c \in Seq(S), NEW i \in 1..(Len(c) - 1)
  PROVE  \E a, b \in Seq(S) : IsCut(c, a, Two(c[i], c[i + 1]), b, i)
  <1>0. Len(c) \in Nat /\ i \in 1..Len(c) /\ i + 1 \in 1..Len(c) /\ i \in Int /\ c[i] \in S /\ c[i + 1] \in S
    <2>1. Len(c) \in Nat
      OBVIOUS
    <2>2. i \in 1..Len(c) /\ i + 1 \in 1..Len(c) /\ i \in Int
      BY <2>1
    <2> QED
      BY <2>1, <2>2
  <1> DEFINE k == i + 1
             a == SubSeq(c, 1, i - 1)
             b == SubSeq(c, k + 1, Len(c))
             mid == Two(c[i], c[k])
  <1>1. /\ a \in Seq(S) /\ Len(a) = i - 1
        /\ \A j \in 1..(i - 1) : a[j] = c[j]
    BY <1>0, TakenOut
  <1>2. k \in 1..Len(c)
    BY <1>0
  <1>3. /\ b \in Seq(S) /\ Len(b) = Len(c) - k /\ \A j \in 1..(Len(c) - k) : b[j] = c[k + j]
    <2> HIDE DEF k
    <2> QED
      BY <1>2, TakenOut
  <1>4. mid \in Seq(S) /\ Len(mid) = 2 /\ mid[1] = c[i] /\ mid[2] = c[i + 1]
    <2> DEFINE x == c[i]
               y == c[i + 1]
    <2>1. x \in S /\ y \in S
      BY <1>0
    <2> HIDE DEF x, y
    <2>2. Two(x, y) \in Seq(S) /\ Len(Two(x, y)) = 2 /\ Two(x, y)[1] = x /\ Two(x, y)[2] = y
      BY <2>1, TwoIs
    <2> QED
      BY <2>2 DEF x, y
  <1> HIDE DEF a, b, mid
  <1>5. ThreeAre(c, a, mid, b)
    <2>1. Len(c) = (Len(a) + Len(mid)) + Len(b)
      BY <1>0, <1>1, <1>3, <1>4
    <2>2. \A j \in 1..Len(a) : c[j] = a[j]
      BY <1>1
    <2>3. \A j \in 1..Len(mid) : c[Len(a) + j] = mid[j]
      <3>1. \A j \in 1..2 : j = 1 \/ j = 2
        OBVIOUS
      <3>2. Len(a) + 1 = i /\ Len(a) + 2 = i + 1
        BY <1>0, <1>1
      <3> QED
        BY <1>4, <3>1, <3>2
    <2>4. \A j \in 1..Len(b) : c[(Len(a) + Len(mid)) + j] = b[j]
      <3> TAKE j \in 1..Len(b)
      <3>1. j \in Int /\ j \in 1..(Len(c) - k)
        BY <1>0, <1>3
      <3>2. (Len(a) + Len(mid)) + j = k + j
        BY <1>0, <1>1, <1>4, <3>1
      <3> QED
        BY <1>3, <3>1, <3>2
    <2> QED
      BY <2>1, <2>2, <2>3, <2>4 DEF ThreeAre
  <1>6. c = Cat(Cat(a, mid), b)
    BY <1>1, <1>3, <1>4, <1>5, ThreeIs
  <1>7. IsCut(c, a, Two(c[i], c[i + 1]), b, i)
    BY <1>1, <1>6 DEF IsCut, mid
  <1> QED
    BY <1>1, <1>3, <1>7

\* One element is replaced.
LEMMA PutOne ==
  ASSUME NEW S, NEW a \in Seq(S), NEW b \in Seq(S), NEW x \in S, NEW y \in S, NEW i \in Nat, NEW c,
         IsCut(c, a, One(x), b, i)
  PROVE  [c EXCEPT ![i] = y] \in Seq(S) /\ IsCut([c EXCEPT ![i] = y], a, One(y), b, i)
  <1> DEFINE d == [c EXCEPT ![i] = y]
             p == One(x)
             q == One(y)
  <1>1. p \in Seq(S) /\ Len(p) = 1 /\ q \in Seq(S) /\ Len(q) = 1 /\ q[1] = y
    BY OneIs
  <1> HIDE DEF p, q
  <1>2. c = Cat(Cat(a, p), b) /\ Len(a) = i - 1
    BY DEF IsCut, p
  <1>3. c \in Seq(S) /\ ThreeAre(c, a, p, b)
    BY <1>1, <1>2, CatThree
  <1>4. /\ Len(c) = (Len(a) + 1) + Len(b) /\ Len(a) \in Nat /\ Len(b) \in Nat
        /\ \A j \in 1..Len(a) : c[j] = a[j]
        /\ \A j \in 1..Len(b) : c[(Len(a) + 1) + j] = b[j]
    BY <1>1, <1>3 DEF ThreeAre
  <1>5. d \in Seq(S) /\ Len(d) = Len(c) /\ d[i] = y /\ \A j \in 1..Len(c) : j # i => d[j] = c[j]
    <2>1. i \in 1..Len(c)
      BY <1>2, <1>4
    <2> QED
      BY <1>3, <2>1
  <1> HIDE DEF d
  <1>6. ThreeAre(d, a, q, b)
    <2>1. Len(d) = (Len(a) + Len(q)) + Len(b)
      BY <1>1, <1>4, <1>5
    <2>2. \A j \in 1..Len(a) : d[j] = a[j]
      <3> TAKE j \in 1..Len(a)
      <3>1. j \in 1..Len(c) /\ j # i
        BY <1>2, <1>4
      <3> QED
        BY <1>4, <1>5, <3>1
    <2>3. \A j \in 1..Len(q) : d[Len(a) + j] = q[j]
      <3>1. \A j \in 1..1 : j = 1
        OBVIOUS
      <3>2. Len(a) + 1 = i
        BY <1>2
      <3> QED
        BY <1>1, <1>5, <3>1, <3>2
    <2>4. \A j \in 1..Len(b) : d[(Len(a) + Len(q)) + j] = b[j]
      <3> TAKE j \in 1..Len(b)
      <3>1. (Len(a) + 1) + j \in 1..Len(c) /\ (Len(a) + 1) + j # i
        BY <1>2, <1>4
      <3> QED
        BY <1>1, <1>4, <1>5, <3>1
    <2> QED
      BY <2>1, <2>2, <2>3, <2>4 DEF ThreeAre
  <1>7. d = Cat(Cat(a, q), b)
    BY <1>1, <1>5, <1>6, ThreeIs
  <1>8. IsCut(d, a, q, b, i)
    BY <1>2, <1>7 DEF IsCut
  <1> QED
    BY <1>5, <1>8 DEF d, q

\* Of two elements both are replaced, or the second is removed.
LEMMA PutTwo ==
  ASSUME NEW S, NEW a \in Seq(S), NEW b \in Seq(S), NEW x \in S, NEW y \in S,
         NEW z \in S, NEW u \in S, NEW i \in Nat, NEW c,
         IsCut(c, a, Two(x, y), b, i)
  PROVE  /\ [[c EXCEPT ![i] = z] EXCEPT ![i + 1] = u] \in Seq(S)
         /\ IsCut([[c EXCEPT ![i] = z] EXCEPT ![i + 1] = u], a, Two(z, u), b, i)
         /\ RemoveAt(c, i + 1) \in Seq(S)
         /\ IsCut(RemoveAt(c, i + 1), a, One(x), b, i)
  <1> DEFINE d == [[c EXCEPT ![i] = z] EXCEPT ![i + 1] = u]
             e == RemoveAt(c, i + 1)
             p == Two(x, y)
             q == Two(z, u)
             r == One(x)
  <1>1. /\ p \in Seq(S) /\ Len(p) = 2 /\ p[1] = x /\ q \in Seq(S) /\ Len(q) = 2 /\ q[1] = z /\ q[2] = u
        /\ r \in Seq(S) /\ Len(r) = 1 /\ r[1] = x
    <2>1. p \in Seq(S) /\ Len(p) = 2 /\ p[1] = x
      BY TwoIs
    <2>2. q \in Seq(S) /\ Len(q) = 2 /\ q[1] = z /\ q[2] = u
      BY TwoIs
    <2>3. r \in Seq(S) /\ Len(r) = 1 /\ r[1] = x
      BY OneIs
    <2> QED
      BY <2>1, <2>2, <2>3
  <1> HIDE DEF p, q, r
  <1>2. c = Cat(Cat(a, p), b) /\ Len(a) = i - 1
    BY DEF IsCut, p
  <1>3. c \in Seq(S) /\ ThreeAre(c, a, p, b)
    BY <1>1, <1>2, CatThree
  <1>4. /\ Len(c) = (Len(a) + 2) + Len(b) /\ Len(a) \in Nat /\ Len(b) \in Nat
        /\ \A j \in 1..Len(a) : c[j] = a[j]
        /\ c[Len(a) + 1] = x
        /\ \A j \in 1..Len(b) : c[(Len(a) + 2) + j] = b[j]
    <2>1. 1 \in 1..Len(p)
      BY <1>1
    <2> QED
      BY <1>1, <1>3, <2>1 DEF ThreeAre
  <1>5. i \in 1..Len(c) /\ i + 1 \in 1..Len(c) /\ i # i + 1 /\ Len(a) + 1 = i /\ Len(a) + 2 = i + 1
    BY <1>2, <1>4
  <1>6. /\ d \in Seq(S) /\ Len(d) = Len(c) /\ d[i] = z /\ d[i + 1] = u
        /\ \A j \in 1..Len(c) : j # i /\ j # i + 1 => d[j] = c[j]
    BY <1>3, <1>5
  <1>7. /\ e \in Seq(S) /\ Len(e) = Len(c) - 1
        /\ \A j \in 1..i : e[j] = c[j]
        /\ \A j \in (i + 1)..(Len(c) - 1) : e[j] = c[j + 1]
    <2> DEFINE k == i + 1
    <2>1. k \in 1..Len(c) /\ k - 1 = i
      BY <1>5
    <2> HIDE DEF k
    <2>2. /\ RemoveAt(c, k) \in Seq(S) /\ Len(RemoveAt(c, k)) = Len(c) - 1
          /\ \A j \in 1..(k - 1) : RemoveAt(c, k)[j] = c[j]
          /\ \A j \in k..(Len(c) - 1) : RemoveAt(c, k)[j] = c[j + 1]
      BY <1>3, <2>1, RemoveAtIs
    <2> DEFINE f == RemoveAt(c, k)
    <2>3. f = e
      BY DEF k
    <2>4. f \in Seq(S) /\ Len(f) = Len(c) - 1 /\ (\A j \in 1..i : f[j] = c[j])
          /\ \A j \in k..(Len(c) - 1) : f[j] = c[j + 1]
      BY <2>1, <2>2
    <2> HIDE DEF f, e
    <2> QED
      BY <2>3, <2>4 DEF k
  <1> HIDE DEF d, e
  <1>8. ThreeAre(d, a, q, b)
    <2>1. Len(d) = (Len(a) + Len(q)) + Len(b)
      BY <1>1, <1>4, <1>6
    <2>2. \A j \in 1..Len(a) : d[j] = a[j]
      <3> TAKE j \in 1..Len(a)
      <3>1. j \in 1..Len(c) /\ j # i /\ j # i + 1
        BY <1>2, <1>4
      <3> QED
        BY <1>4, <1>6, <3>1
    <2>3. \A j \in 1..Len(q) : d[Len(a) + j] = q[j]
      <3>1. \A j \in 1..2 : j = 1 \/ j = 2
        OBVIOUS
      <3> QED
        BY <1>1, <1>5, <1>6, <3>1
    <2>4. \A j \in 1..Len(b) : d[(Len(a) + Len(q)) + j] = b[j]
      <3> TAKE j \in 1..Len(b)
      <3>1. (Len(a) + 2) + j \in 1..Len(c) /\ (Len(a) + 2) + j # i /\ (Len(a) + 2) + j # i + 1
        BY <1>2, <1>4
      <3> QED
        BY <1>1, <1>4, <1>6, <3>1
    <2> QED
      BY <2>1, <2>2, <2>3, <2>4 DEF ThreeAre
  <1>9. ThreeAre(e, a, r, b)
    <2>1. Len(e) = (Len(a) + Len(r)) + Len(b)
      BY <1>1, <1>4, <1>7
    <2>2. \A j \in 1..Len(a) : e[j] = a[j]
      <3> TAKE j \in 1..Len(a)
      <3>1. j \in 1..i
        BY <1>2, <1>4
      <3> QED
        BY <1>4, <1>7, <3>1
    <2>3. \A j \in 1..Len(r) : e[Len(a) + j] = r[j]
      <3>1. \A j \in 1..1 : j = 1
        OBVIOUS
      <3>3. i \in 1..i
        BY <1>5
      <3> QED
        BY <1>1, <1>4, <1>5, <1>7, <3>1, <3>3
    <2>4. \A j \in 1..Len(b) : e[(Len(a) + Len(r)) + j] = b[j]
      <3> TAKE j \in 1..Len(b)
      <3>1. (Len(a) + 1) + j \in (i + 1)..(Len(c) - 1) /\ ((Len(a) + 1) + j) + 1 = (Len(a) + 2) + j
        BY <1>2, <1>4
      <3> QED
        BY <1>1, <1>4, <1>7, <3>1
    <2> QED
      BY <2>1, <2>2, <2>3, <2>4 DEF ThreeAre
  <1>10. d = Cat(Cat(a, q), b) /\ e = Cat(Cat(a, r), b)
    BY <1>1, <1>6, <1>7, <1>8, <1>9, ThreeIs
  <1>11. IsCut(d, a, q, b, i) /\ IsCut(e, a, r, b, i)
    BY <1>2, <1>10 DEF IsCut
  <1> QED
    BY <1>6, <1>7, <1>11 DEF d, e, q, r

(***************************************************************************)
(* Keys at the ends of a leaf.                                             *)
(***************************************************************************)

\* A key that is not larger than the others is added as the first.
LEMMA AddedLeast ==
  ASSUME NEW s \in Seq(Keys), Sorted(s), NEW x \in Keys, \A i \in 1..Len(s) : x <= s[i]
  PROVE  Added(s, x) = Cat(One(x), s)
  <1>1. PICK a, b \in Seq(Keys) : s = Cat(a, b) /\ Upto(a, x) /\ Beyond(b, x) /\ Added(s, x) = Cat(Cat(a, One(x)), b)
    BY AddedSplits
  <1> DEFINE w == One(x)
             u == Cat(a, w)
             z == Cat(w, a)
  <1>2. w \in Seq(Keys) /\ Len(w) = 1 /\ w[1] = x
    BY OneIs
  <1> HIDE DEF w
  <1>3. /\ u \in Seq(Keys) /\ Len(u) = Len(a) + 1 /\ z \in Seq(Keys) /\ Len(z) = 1 + Len(a)
        /\ \A i \in 1..Len(a) : u[i] = a[i]
        /\ \A j \in 1..Len(w) : u[Len(a) + j] = w[j]
        /\ \A i \in 1..Len(w) : z[i] = w[i]
        /\ \A j \in 1..Len(a) : z[Len(w) + j] = a[j]
    <2>1. a \in Seq(Keys)
      OBVIOUS
    <2>2. u \in Seq(Keys) /\ Len(u) = Len(a) + Len(w) /\ z \in Seq(Keys) /\ Len(z) = Len(w) + Len(a)
      BY <1>2, <2>1, CatType
    <2>3. \A i \in 1..Len(a) : u[i] = a[i]
      BY <1>2, <2>1, CatFirst
    <2>4. \A j \in 1..Len(w) : u[Len(a) + j] = w[j]
      BY <1>2, <2>1, CatSecond
    <2>5. \A i \in 1..Len(w) : z[i] = w[i]
      BY <1>2, <2>1, CatFirst
    <2>6. \A j \in 1..Len(a) : z[Len(w) + j] = a[j]
      BY <1>2, <2>1, CatSecond
    <2> HIDE DEF u, z
    <2> QED
      BY <1>2, <2>2, <2>3, <2>4, <2>5, <2>6
  <1>4. \A i \in 1..Len(a) : a[i] = x
    <2> TAKE i \in 1..Len(a)
    <2>1. a[i] = s[i] /\ i \in 1..Len(s)
      <3>1. s[i] = a[i]
        BY <1>1, CatFirst
      <3>2. Len(s) = Len(a) + Len(b)
        BY <1>1, CatType
      <3> QED
        BY <3>1, <3>2
    <2>2. a[i] <= x
      BY <1>1 DEF Upto
    <2>3. a[i] \in Int /\ x \in Int
      BY KeysAreNumbers, BoundIsNat
    <2> QED
      BY <2>1, <2>2, <2>3
  <1> HIDE DEF u, z
  <1>5. \A i \in 1..Len(u) : u[i] = x /\ z[i] = x
    <2> TAKE i \in 1..Len(u)
    <2>0. Len(a) \in Nat /\ i \in Int /\ 1 \in 1..Len(w)
      BY <1>2
    <2>1. u[i] = x
      <3>1. CASE i \in 1..Len(a)
        BY <1>3, <1>4, <3>1
      <3>2. CASE i = Len(a) + 1
        BY <1>2, <1>3, <2>0, <3>2
      <3> QED
        BY <1>3, <2>0, <3>1, <3>2
    <2>2. z[i] = x
      <3>1. CASE i = 1
        BY <1>2, <1>3, <2>0, <3>1
      <3>2. CASE i # 1
        <4>1. i - 1 \in 1..Len(a) /\ Len(w) + (i - 1) = i
          BY <1>2, <1>3, <2>0, <3>2
        <4>2. z[Len(w) + (i - 1)] = a[i - 1]
          BY <1>3, <4>1
        <4> QED
          BY <1>4, <4>1, <4>2
      <3> QED
        BY <3>1, <3>2
    <2> QED
      BY <2>1, <2>2
  <1>6. u = z
    <2>1. Len(u) = Len(z)
      BY <1>3
    <2> QED
      BY <1>3, <1>5, <2>1, SeqEqual
  <1>7. Cat(z, b) = Cat(w, s)
    BY <1>1, <1>2, CatAssoc DEF z
  <1> QED
    BY <1>1, <1>6, <1>7 DEF u, w

\* A key that is not smaller than the others is added as the last.
LEMMA AddedMost ==
  ASSUME NEW s \in Seq(Keys), NEW x \in Keys, Upto(s, x)
  PROVE  Added(s, x) = Cat(s, One(x))
  <1> DEFINE nil == <<>>
  <1>1. nil \in Seq(Keys) /\ Beyond(nil, x)
    BY DEF Beyond
  <1>2. Cat(s, nil) = s
    BY CatNil
  <1>3. One(x) \in Seq(Keys)
    BY OneIs
  <1>4. Cat(s, One(x)) \in Seq(Keys)
    BY <1>3, CatType
  <1>5. Cat(Cat(s, One(x)), nil) = Cat(s, One(x))
    BY <1>4, CatNil
  <1> HIDE DEF nil
  <1>6. Added(Cat(s, nil), x) = Cat(Cat(s, One(x)), nil)
    BY <1>1, AddedAt
  <1> QED
    BY <1>2, <1>5, <1>6

\* Removing a key keeps the order.
LEMMA RemovedSorted ==
  ASSUME NEW s \in Seq(Keys), Sorted(s), NEW v, Has(s, v)
  PROVE  /\ RemoveFirst(s, v) \in Seq(Keys) /\ Len(RemoveFirst(s, v)) = Len(s) - 1
         /\ Sorted(RemoveFirst(s, v))
  <1>1. PICK p \in 1..Len(s) : RemoveFirst(s, v) = RemoveAt(s, p)
    BY RemovedFirst DEF Has
  <1> DEFINE r == RemoveAt(s, p)
  <1>2. /\ r \in Seq(Keys) /\ Len(r) = Len(s) - 1
        /\ \A i \in 1..(p - 1) : r[i] = s[i]
        /\ \A i \in p..(Len(s) - 1) : r[i] = s[i + 1]
    BY RemoveAtIs
  <1> HIDE DEF r
  <1>3. Len(s) \in Nat /\ p \in Int
    OBVIOUS
  <1>4. ASSUME NEW i \in 1..Len(r), NEW j \in 1..Len(r), i <= j PROVE r[i] <= r[j]
    <2>1. CASE j <= p - 1
      <3>1. r[i] = s[i] /\ r[j] = s[j] /\ i \in 1..Len(s) /\ j \in 1..Len(s)
        BY <1>2, <1>3, <1>4, <2>1
      <3> QED
        BY <1>4, <3>1 DEF Sorted
    <2>2. CASE j > p - 1 /\ i <= p - 1
      <3>1. r[i] = s[i] /\ r[j] = s[j + 1] /\ i \in 1..Len(s) /\ j + 1 \in 1..Len(s) /\ i <= j + 1
        BY <1>2, <1>3, <1>4, <2>2
      <3> QED
        BY <3>1 DEF Sorted
    <2>3. CASE j > p - 1 /\ i > p - 1
      <3>1. r[i] = s[i + 1] /\ r[j] = s[j + 1] /\ i + 1 \in 1..Len(s) /\ j + 1 \in 1..Len(s) /\ i + 1 <= j + 1
        BY <1>2, <1>3, <1>4, <2>3
      <3> QED
        BY <3>1 DEF Sorted
    <2> QED
      BY <1>3, <2>1, <2>2, <2>3
  <1>5. Sorted(r)
    BY <1>4 DEF Sorted
  <1> QED
    BY <1>1, <1>2, <1>5 DEF r

(***************************************************************************)
(* Leaves as children.                                                     *)
(***************************************************************************)

Leafs == {n \in Nodes : IsLeaf(n)}
FitLeafs == Fit(order, Tiers(order, 0)[0])

\* What is known of a leaf.
LEMMA LeafsAre ==
  ASSUME NEW n \in Leafs
  PROVE  n \in Nodes /\ IsLeaf(n) /\ n.keys \in Seq(Keys) /\ n = Leaf(n.keys) /\ KeysOf(n) = n.keys /\ Len(Leaves[n]) = 1
  <1>1. n \in Nodes /\ IsLeaf(n)
    BY DEF Leafs
  <1>2. n.keys \in Seq(Keys) /\ n = Node(n.keys, n.kids)
    BY <1>1, NodeIs
  <1>3. n = Leaf(n.keys)
    BY <1>1, <1>2 DEF Leaf, IsLeaf
  <1>4. KeysOf(n) = n.keys /\ Leaves[n] = One(n.keys)
    BY <1>1, KeysOfStep, LeavesStep
  <1>5. Len(One(n.keys)) = 1
    BY <1>2, OneIs
  <1> QED
    BY <1>1, <1>2, <1>3, <1>4, <1>5

\* A leaf of given keys.
LEMMA LeafOf ==
  ASSUME NEW x \in Seq(Keys)
  PROVE  /\ Leaf(x) \in Leafs /\ Leaf(x).keys = x /\ KeysOf(Leaf(x)) = x
         /\ Len(x) \in MinOf(order)..(order - 1) => Leaf(x) \in FitLeafs
  <1>1. Leaf(x) \in Tiers(order, 0)[0] /\ IsLeaf(Leaf(x)) /\ Leaf(x).keys = x /\ Leaf(x) \in Nodes
    BY LeafTier
  <1>2. KeysOf(Leaf(x)) = x
    BY <1>1, KeysOfStep
  <1> QED
    BY <1>1, <1>2 DEF Leafs, FitLeafs, Fit

\* What is known of a fit leaf.
LEMMA FitLeafsAre ==
  FitLeafs \subseteq Leafs /\ \A n \in FitLeafs : Len(n.keys) \in MinOf(order)..(order - 1)
  <1>1. 0 \in 0..MaxKeys
    BY BoundIsNat
  <1>2. \A n \in Tiers(order, 0)[0] : n \in Nodes /\ IsLeaf(n)
    BY <1>1, TierIs
  <1> QED
    BY <1>2 DEF FitLeafs, Fit, Leafs

\* Leaves are a row of one each.
LEMMA LeafRows ==
  ASSUME NEW ks \in Seq(Leafs)
  PROVE  Len(LS(ks)) = Len(ks)
  <1> DEFINE rows == RowsOf(ks)
             T == Seq(Keys)
  <1>0. Leafs \subseteq Nodes
    BY DEF Leafs
  <1>1. ks \in Seq(Nodes)
    BY <1>0, SeqMonotonic
  <1>2. /\ rows \in Seq(Seq(T)) /\ Len(rows) = Len(ks)
        /\ \A i \in 1..Len(ks) : rows[i] = Leaves[ks[i]]
    BY <1>1, RowsOfIs
  <1>3. LS(ks) = Flat(rows)
    BY <1>1, LSIs
  <1>4. \A i \in 1..Len(rows) : Len(rows[i]) = 1 /\ rows[i] \in Seq(T)
    <2> TAKE i \in 1..Len(rows)
    <2>1. ks[i] \in Leafs
      BY <1>2
    <2>2. Len(Leaves[ks[i]]) = 1
      BY <2>1, LeafsAre
    <2> QED
      BY <1>2, <2>2
  <1> HIDE DEF rows, T
  <1>5. PICK f : Spread(f, T, rows) /\ Flat(rows) = f[Len(rows)]
    BY <1>2, FlatIs
  <1>6. /\ f \in [0..Len(rows) -> Seq(T)] /\ f[0] = <<>>
        /\ \A n \in 1..Len(rows) : f[n] = Cat(f[n - 1], rows[n])
    BY <1>5 DEF Spread
  <1> DEFINE G == {n \in Nat : n <= Len(rows) => Len(f[n]) = n}
  <1>7. 0 \in G
    BY <1>6
  <1>8. ASSUME NEW n \in Nat, n \in G PROVE n + 1 \in G
    <2> SUFFICES ASSUME n + 1 <= Len(rows) PROVE Len(f[n + 1]) = n + 1
      OBVIOUS
    <2> DEFINE k == n + 1
    <2>1. k \in 1..Len(rows) /\ k - 1 = n /\ n \in 0..Len(rows) /\ Len(f[n]) = n
      BY <1>2, <1>8
    <2> HIDE DEF k
    <2>2. f[k] = Cat(f[n], rows[k])
      BY <1>6, <2>1
    <2>3. f[n] \in Seq(T) /\ rows[k] \in Seq(T) /\ Len(rows[k]) = 1
      BY <1>4, <1>6, <2>1
    <2>4. Len(Cat(f[n], rows[k])) = Len(f[n]) + Len(rows[k])
      BY ONLY <2>3, CatType
    <2> QED
      BY <2>1, <2>2, <2>3, <2>4 DEF k
  <1>9. Nat \subseteq G
    <2> HIDE DEF G
    <2> QED
      BY <1>7, <1>8, SetInduction
  <1>10. Len(rows) \in Nat
    BY <1>2
  <1> QED
    BY <1>2, <1>3, <1>5, <1>9, <1>10

\* A sequence of elements of T.
LEMMA SeqAmong ==
  ASSUME NEW S, NEW T, NEW s \in Seq(S), \A j \in 1..Len(s) : s[j] \in T
  PROVE  s \in Seq(T)
  <1> DEFINE k == Len(s)
  <1>1. k \in Nat /\ s \in [1..k -> S]
    OBVIOUS
  <1>2. s = [j \in 1..k |-> s[j]]
    BY <1>1
  <1>3. \A j \in 1..k : s[j] \in T
    OBVIOUS
  <1> HIDE DEF k
  <1>4. s \in [1..k -> T]
    BY <1>2, <1>3
  <1> QED
    BY <1>1, <1>4, IsSeq

\* The leaves in a cut are those of the sequence; a and b are fit if all but those
\* in the middle are.
LEMMA OutsideFits ==
  ASSUME NEW c \in Seq(Leafs), NEW a \in Seq(Leafs), NEW b \in Seq(Leafs), NEW mid \in Seq(Leafs),
         NEW i \in Nat, IsCut(c, a, mid, b, i),
         \A k \in 1..Len(c) : k < i \/ k >= i + Len(mid) => c[k] \in FitLeafs
  PROVE  a \in Seq(FitLeafs) /\ b \in Seq(FitLeafs)
  <1>1. ThreeAre(c, a, mid, b) /\ Len(a) = i - 1
    BY CatThree DEF IsCut
  <1>2. /\ Len(c) = (Len(a) + Len(mid)) + Len(b) /\ Len(a) \in Nat /\ Len(b) \in Nat /\ Len(mid) \in Nat
        /\ \A j \in 1..Len(a) : c[j] = a[j]
        /\ \A j \in 1..Len(b) : c[(Len(a) + Len(mid)) + j] = b[j]
    BY <1>1 DEF ThreeAre
  <1>3. \A j \in 1..Len(a) : a[j] \in FitLeafs
    <2> TAKE j \in 1..Len(a)
    <2>1. j \in 1..Len(c) /\ j < i
      BY <1>1, <1>2
    <2> QED
      BY <1>2, <2>1
  <1>4. \A j \in 1..Len(b) : b[j] \in FitLeafs
    <2> TAKE j \in 1..Len(b)
    <2> DEFINE k == (Len(a) + Len(mid)) + j
    <2>1. k \in 1..Len(c) /\ k >= i + Len(mid)
      BY <1>1, <1>2
    <2> HIDE DEF k
    <2>2. c[k] \in FitLeafs
      BY <2>1
    <2> QED
      BY <1>2, <2>2 DEF k
  <1>5. a \in Seq(FitLeafs)
    BY <1>3, SeqAmong
  <1>6. b \in Seq(FitLeafs)
    BY <1>4, SeqAmong
  <1> QED
    BY <1>5, <1>6

\* What a repair makes of the leaves c: as many or one less, fit, with the same keys.
IsRow(d, k, c) == d \in Seq(FitLeafs) /\ Len(d) = k /\ KS(d) = KS(c)

\* Leaves in the middle are replaced by fit ones with the same keys.
LEMMA RowIs ==
  ASSUME NEW c, NEW a \in Seq(FitLeafs), NEW b \in Seq(FitLeafs),
         NEW old \in Seq(Leafs), NEW mid \in Seq(FitLeafs),
         c = Cat(Cat(a, old), b), KS(mid) = KS(old)
  PROVE  IsRow(Cat(Cat(a, mid), b), (Len(a) + Len(mid)) + Len(b), c)
  <1> DEFINE d == Cat(Cat(a, mid), b)
  <1>1. d \in Seq(FitLeafs) /\ Len(d) = (Len(a) + Len(mid)) + Len(b)
    <2>1. d \in Seq(FitLeafs) /\ ThreeAre(d, a, mid, b)
      BY CatThree
    <2> QED
      BY <2>1 DEF ThreeAre
  <1>2. a \in Seq(Nodes) /\ b \in Seq(Nodes) /\ old \in Seq(Nodes) /\ mid \in Seq(Nodes)
    <2>1. FitLeafs \subseteq Nodes /\ Leafs \subseteq Nodes
      BY FitLeafsAre DEF Leafs
    <2> QED
      BY <2>1, SeqMonotonic
  <1>3. KS(d) = Cat(Cat(KS(a), KS(mid)), KS(b)) /\ KS(c) = Cat(Cat(KS(a), KS(old)), KS(b))
    <2>1. KS(d) = Cat(Cat(KS(a), KS(mid)), KS(b))
      BY <1>2, BelowThree
    <2>2. KS(Cat(Cat(a, old), b)) = Cat(Cat(KS(a), KS(old)), KS(b))
      BY ONLY <1>2, BelowThree
    <2> QED
      BY <2>1, <2>2
  <1>4. KS(d) = KS(c)
    BY <1>3
  <1> HIDE DEF d
  <1>5. IsRow(d, (Len(a) + Len(mid)) + Len(b), c)
    BY <1>1, <1>4 DEF IsRow
  <1> QED
    BY <1>5 DEF d

\* The keys of two leaves, one beside the other, among those of all leaves.
LEMMA PairOrder ==
  ASSUME NEW a \in Seq(Leafs), NEW b \in Seq(Leafs), NEW x \in Leafs, NEW y \in Leafs,
         Sorted(KS(Cat(Cat(a, Two(x, y)), b)))
  PROVE  /\ KS(Two(x, y)) = Cat(x.keys, y.keys)
         /\ Sorted(x.keys) /\ Sorted(y.keys) /\ InOrder(x.keys, y.keys)
  <1>1. x \in Nodes /\ x.keys \in Seq(Keys) /\ KeysOf(x) = x.keys
    BY LeafsAre
  <1>2. y \in Nodes /\ y.keys \in Seq(Keys) /\ KeysOf(y) = y.keys
    BY LeafsAre
  <1> DEFINE mid == Two(x, y)
  <1>3. KS(mid) = Cat(x.keys, y.keys)
    BY <1>1, <1>2, BelowTwo
  <1>4. mid \in Seq(Nodes)
    <2>1. Two(x, y) \in Seq(Nodes)
      BY ONLY <1>1, <1>2, TwoIs
    <2> QED
      BY <2>1
  <1> HIDE DEF mid
  <1>5. a \in Seq(Nodes) /\ b \in Seq(Nodes)
    <2>1. Leafs \subseteq Nodes
      BY DEF Leafs
    <2> QED
      BY <2>1, SeqMonotonic
  <1>6. KS(Cat(Cat(a, mid), b)) = Cat(Cat(KS(a), KS(mid)), KS(b))
    BY ONLY <1>4, <1>5, BelowThree
  <1>7. KS(a) \in Seq(Keys) /\ KS(b) \in Seq(Keys) /\ KS(mid) \in Seq(Keys)
    BY <1>4, <1>5, KSType
  <1> DEFINE p == KS(a)
             q == KS(b)
             s == KS(mid)
             u == Cat(p, s)
  <1>8. p \in Seq(Keys) /\ q \in Seq(Keys) /\ s \in Seq(Keys) /\ Sorted(Cat(u, q))
    BY <1>6, <1>7 DEF mid
  <1> HIDE DEF p, q, s
  <1>9. u \in Seq(Keys)
    BY <1>8, CatType
  <1>10. Sorted(u)
    <2> HIDE DEF u
    <2> QED
      BY <1>8, <1>9, SortedCat
  <1>11. Sorted(s)
    BY <1>8, <1>10, SortedCat
  <1>12. Sorted(Cat(x.keys, y.keys))
    BY <1>3, <1>11 DEF s
  <1>13. Sorted(x.keys) /\ Sorted(y.keys) /\ InOrder(x.keys, y.keys)
    BY ONLY <1>1, <1>2, <1>12, SortedCat
  <1> QED
    BY <1>3, <1>13 DEF mid

\* Two leaves beside each other, the others being fit.
IsPair(c, j, x, y) ==
    /\ c \in Seq(Leafs) /\ j \in 1..(Len(c) - 1) /\ Sorted(KS(c))
    /\ \A k \in 1..Len(c) : k # j /\ k # j + 1 => c[k] \in FitLeafs
    /\ x = c[j].keys /\ y = c[j + 1].keys

\* What is proved of them.
PairHas(c, j, x, y) ==
    /\ x \in Seq(Keys) /\ y \in Seq(Keys) /\ Sorted(x) /\ Sorted(y) /\ InOrder(x, y)
    /\ \A u, w \in Seq(Keys) :
         /\ Len(u) \in MinOf(order)..(order - 1) /\ Len(w) \in MinOf(order)..(order - 1)
         /\ Cat(u, w) = Cat(x, y)
         => IsRow([[c EXCEPT ![j] = Leaf(u)] EXCEPT ![j + 1] = Leaf(w)], Len(c), c)
    /\ \A u \in Seq(Keys) :
         Len(u) \in MinOf(order)..(order - 1) /\ u = Cat(x, y)
         => IsRow([RemoveAt(c, j + 1) EXCEPT ![j] = Leaf(u)], Len(c) - 1, c)

\* Two leaves beside each other can share their keys, or become one, if the counts
\* allow it.
LEMMA PairIs ==
  ASSUME NEW c, NEW j, NEW x, NEW y, IsPair(c, j, x, y)
  PROVE  PairHas(c, j, x, y)
  <1>1. /\ c \in Seq(Leafs) /\ j \in 1..(Len(c) - 1) /\ Sorted(KS(c))
        /\ \A k \in 1..Len(c) : k # j /\ k # j + 1 => c[k] \in FitLeafs
        /\ x = c[j].keys /\ y = c[j + 1].keys
    BY DEF IsPair
  <1> DEFINE p == c[j]
             q == c[j + 1]
             old == Two(p, q)
  <1>2. j \in Nat /\ p \in Leafs /\ q \in Leafs /\ x = p.keys /\ y = q.keys /\ Len(c) \in Nat
    <2>1. Len(c) \in Nat
      BY <1>1
    <2>2. j \in 1..Len(c) /\ j + 1 \in 1..Len(c) /\ j \in Nat
      BY <1>1, <2>1
    <2> QED
      BY <1>1, <2>1, <2>2
  <1>3. PICK a, b \in Seq(Leafs) : IsCut(c, a, old, b, j)
    BY <1>1, CutTwo
  <1> HIDE DEF p, q
  <1>4. old \in Seq(Leafs) /\ Len(old) = 2
    <2>1. Two(p, q) \in Seq(Leafs) /\ Len(Two(p, q)) = 2
      BY ONLY <1>2, TwoIs
    <2> QED
      BY <2>1
  <1>5. a \in Seq(FitLeafs) /\ b \in Seq(FitLeafs)
    <2> HIDE DEF old
    <2>1. \A k \in 1..Len(c) : k < j \/ k >= j + Len(old) => c[k] \in FitLeafs
      <3> SUFFICES ASSUME NEW k \in 1..Len(c), k < j \/ k >= j + Len(old) PROVE c[k] \in FitLeafs
        OBVIOUS
      <3>1. k # j /\ k # j + 1
        BY <1>2, <1>4
      <3> QED
        BY <1>1, <3>1
    <2> QED
      BY <1>1, <1>2, <1>3, <1>4, <2>1, OutsideFits
  <1>6. c = Cat(Cat(a, old), b)
    BY <1>3 DEF IsCut
  <1>7. /\ KS(old) = Cat(x, y) /\ Sorted(x) /\ Sorted(y) /\ InOrder(x, y)
    <2>1. Sorted(KS(Cat(Cat(a, Two(p, q)), b)))
      BY <1>1, <1>6
    <2>2. /\ KS(Two(p, q)) = Cat(p.keys, q.keys) /\ Sorted(p.keys) /\ Sorted(q.keys) /\ InOrder(p.keys, q.keys)
      BY <1>2, <2>1, PairOrder
    <2> QED
      BY <1>2, <2>2
  <1>8. x \in Seq(Keys) /\ y \in Seq(Keys)
    BY <1>2, LeafsAre
  <1>9. Len(c) = (Len(a) + 2) + Len(b) /\ Len(a) \in Nat /\ Len(b) \in Nat
    <2> HIDE DEF old
    <2>0. a \in Seq(Leafs) /\ b \in Seq(Leafs) /\ old \in Seq(Leafs)
      BY <1>4
    <2>1. Len(Cat(Cat(a, old), b)) = (Len(a) + Len(old)) + Len(b)
      BY ONLY <2>0, ThreeLong
    <2> QED
      BY <1>4, <1>6, <2>1
  <1>10. ASSUME NEW u \in Seq(Keys), NEW w \in Seq(Keys),
                Len(u) \in MinOf(order)..(order - 1), Len(w) \in MinOf(order)..(order - 1),
                Cat(u, w) = Cat(x, y)
         PROVE  IsRow([[c EXCEPT ![j] = Leaf(u)] EXCEPT ![j + 1] = Leaf(w)], Len(c), c)
    <2> DEFINE m == Leaf(u)
               n == Leaf(w)
               mid == Two(m, n)
    <2>1. m \in Leafs /\ m \in FitLeafs /\ KeysOf(m) = u /\ n \in Leafs /\ n \in FitLeafs /\ KeysOf(n) = w
      BY <1>10, LeafOf
    <2> HIDE DEF m, n
    <2>2. m \in Nodes /\ n \in Nodes
      BY <2>1 DEF Leafs
    <2>3. mid \in Seq(FitLeafs) /\ Len(mid) = 2
      <3>1. Two(m, n) \in Seq(FitLeafs) /\ Len(Two(m, n)) = 2
        BY ONLY <2>1, TwoIs
      <3> QED
        BY <3>1
    <2>4. KS(mid) = Cat(u, w)
      BY <2>1, <2>2, BelowTwo
    <2>5. IsCut([[c EXCEPT ![j] = m] EXCEPT ![j + 1] = n], a, Two(m, n), b, j)
      <3>1. IsCut(c, a, Two(p, q), b, j)
        BY <1>3
      <3> QED
        BY <1>2, <2>1, <3>1, PutTwo
    <2> HIDE DEF old
    <2>6. IsRow(Cat(Cat(a, mid), b), (Len(a) + Len(mid)) + Len(b), c)
      <3> HIDE DEF mid
      <3> QED
        BY <1>4, <1>5, <1>6, <1>7, <1>10, <2>3, <2>4, RowIs
    <2>7. [[c EXCEPT ![j] = m] EXCEPT ![j + 1] = n] = Cat(Cat(a, mid), b)
      BY <2>5, Zenon DEF IsCut
    <2>8. (Len(a) + Len(mid)) + Len(b) = Len(c)
      <3> HIDE DEF mid
      <3> QED
        BY <1>9, <2>3
    <2> HIDE DEF mid
    <2> QED
      BY <2>6, <2>7, <2>8, Zenon DEF m, n
  <1>11. ASSUME NEW u \in Seq(Keys), Len(u) \in MinOf(order)..(order - 1), u = Cat(x, y)
         PROVE  IsRow([RemoveAt(c, j + 1) EXCEPT ![j] = Leaf(u)], Len(c) - 1, c)
    <2> DEFINE m == Leaf(u)
               mid == One(m)
    <2>1. m \in Leafs /\ m \in FitLeafs /\ KeysOf(m) = u
      BY <1>11, LeafOf
    <2> HIDE DEF m
    <2>2. m \in Nodes
      BY <2>1 DEF Leafs
    <2>3. mid \in Seq(FitLeafs) /\ Len(mid) = 1 /\ KS(mid) = u
      BY <2>1, <2>2, OneIs, KSOne
    <2> DEFINE e == RemoveAt(c, j + 1)
    <2>4. IsCut(e, a, One(p), b, j)
      <3>1. IsCut(c, a, Two(p, q), b, j)
        BY <1>3
      <3> QED
        BY <1>2, <3>1, PutTwo
    <2> HIDE DEF e
    <2>5. IsCut([e EXCEPT ![j] = m], a, One(m), b, j)
      BY <1>2, <2>1, <2>4, PutOne
    <2> HIDE DEF old
    <2>6. IsRow(Cat(Cat(a, mid), b), (Len(a) + Len(mid)) + Len(b), c)
      <3> HIDE DEF mid
      <3> QED
        BY <1>4, <1>5, <1>6, <1>7, <1>11, <2>3, RowIs
    <2>7. [e EXCEPT ![j] = m] = Cat(Cat(a, mid), b)
      BY <2>5, Zenon DEF IsCut
    <2>8. (Len(a) + Len(mid)) + Len(b) = Len(c) - 1
      <3> HIDE DEF mid
      <3> QED
        BY <1>9, <2>3
    <2> HIDE DEF mid
    <2> QED
      BY <2>6, <2>7, <2>8, Zenon DEF m, e
  <1> QED
    BY <1>7, <1>8, <1>10, <1>11 DEF PairHas

(***************************************************************************)
(* What removeHelper makes of the parent of a leaf that lost a key.        *)
(***************************************************************************)

\* WithLeaf replaces one child.
LEMMA WithLeafIs ==
  ASSUME NEW k, NEW c, NEW i, NEW x
  PROVE  WithLeaf(Node(k, c), i, x) = Node(k, [c EXCEPT ![i] = Leaf(x)])
  BY DEF WithLeaf, Node

\* What Shared makes of the children and separators.
LEMMA SharedIs ==
  ASSUME NEW k, NEW c, NEW i, NEW x, NEW y
  PROVE  Shared(Node(k, c), i, x, y)
           = Node([k EXCEPT ![i] = Head(y)], [[c EXCEPT ![i] = Leaf(x)] EXCEPT ![i + 1] = Leaf(y)])
  <1>1. WithLeaf(WithLeaf(Node(k, c), i, x), i + 1, y)
          = Node(k, [[c EXCEPT ![i] = Leaf(x)] EXCEPT ![i + 1] = Leaf(y)])
    <2> DEFINE e == [c EXCEPT ![i] = Leaf(x)]
               j == i + 1
    <2>1. WithLeaf(Node(k, c), i, x) = Node(k, e)
      BY WithLeafIs
    <2> HIDE DEF e, j
    <2>2. WithLeaf(Node(k, e), j, y) = Node(k, [e EXCEPT ![j] = Leaf(y)])
      BY WithLeafIs
    <2> QED
      BY <2>1, <2>2 DEF e, j
  <1> DEFINE d == [[c EXCEPT ![i] = Leaf(x)] EXCEPT ![i + 1] = Leaf(y)]
             z == Head(y)
  <1>2. Shared(Node(k, c), i, x, y) = [Node(k, d) EXCEPT !.keys[i] = z]
    BY <1>1, Zenon DEF Shared
  <1> HIDE DEF d, z
  <1>3. [Node(k, d) EXCEPT !.keys[i] = z] = Node([k EXCEPT ![i] = z], d)
    BY DEF Node
  <1> QED
    BY <1>2, <1>3, Zenon DEF d, z

\* What Merged makes of the children and separators.
LEMMA MergedIs ==
  ASSUME NEW k, NEW c, NEW i
  PROVE  Merged(Node(k, c), i)
           = Node(RemoveAt(k, i), [RemoveAt(c, i + 1) EXCEPT ![i] = Leaf(Cat(c[i].keys, c[i + 1].keys))])
  <1> DEFINE n == Node(k, c)
  <1>1. n.keys = k /\ n.kids = c
    BY DEF Node
  <1> HIDE DEF n
  <1>2. Merged(n, i) = WithLeaf(Node(RemoveAt(k, i), RemoveAt(c, i + 1)), i, Cat(c[i].keys, c[i + 1].keys))
    BY <1>1, Zenon DEF Merged, Cat
  <1> DEFINE a == RemoveAt(k, i)
             e == RemoveAt(c, i + 1)
             z == Cat(c[i].keys, c[i + 1].keys)
  <1>3. Merged(n, i) = WithLeaf(Node(a, e), i, z)
    BY <1>2
  <1> HIDE DEF a, e, z
  <1>4. WithLeaf(Node(a, e), i, z) = Node(a, [e EXCEPT ![i] = Leaf(z)])
    BY WithLeafIs
  <1> QED
    BY <1>3, <1>4, Zenon DEF n, a, e, z

\* A parent of leaves of which leaf i may be one key short.
IsDamaged(n, i) ==
    /\ n = Node(n.keys, n.kids) /\ n.keys \in Seq(Keys) /\ Len(n.keys) >= 1
    /\ n.kids \in Seq(Leafs) /\ Len(n.kids) = Len(n.keys) + 1 /\ i \in 1..Len(n.kids)
    /\ Sorted(KS(n.kids))
    /\ \A j \in 1..Len(n.kids) : j # i => n.kids[j] \in FitLeafs
    /\ Len(n.kids[i].keys) \in (MinOf(order) - 1)..(order - 1)

\* The parent r that is left has fit leaves, and the same keys are below it.
IsMended(n, i, r) ==
    /\ r = Node(r.keys, r.kids) /\ r.keys \in Seq(Keys)
    /\ Len(r.keys) = Len(n.keys) - (IF Merges(n, i) THEN 1 ELSE 0)
    /\ IsRow(r.kids, Len(r.keys) + 1, n.kids)

\* getMinNodes is the fewest keys of a node of this order.
LEMMA MinNodesIs == getMinNodes = MinOf(order)
  BY DEF getMinNodes, MinOf

\* A leaf that keeps enough keys needs no repair but its separator.
LEMMA KeptMended ==
  ASSUME IsOrder(order), NEW n, NEW i, IsDamaged(n, i), Kept(n, i)
  PROVE  IsMended(n, i, Repaired(n, i))
  <1> DEFINE k == n.keys
             c == n.kids
             x == c[i].keys
             r == Repaired(n, i)
  <1>1. /\ n = Node(k, c) /\ k \in Seq(Keys) /\ Len(k) >= 1 /\ Len(k) \in Nat
        /\ c \in Seq(Leafs) /\ Len(c) = Len(k) + 1 /\ i \in 1..Len(c)
        /\ \A j \in 1..Len(c) : j # i => c[j] \in FitLeafs
        /\ Len(x) \in (MinOf(order) - 1)..(order - 1)
    BY DEF IsDamaged
  <1>2. c[i] \in Leafs /\ x \in Seq(Keys) /\ c[i] = Leaf(x)
    <2>1. c[i] \in Leafs
      BY <1>1
    <2> QED
      BY <2>1, LeafsAre
  <1>3. ~Merges(n, i)
    BY DEF Merges
  <1>4. c \in Seq(FitLeafs)
    <2>1. Len(x) >= MinOf(order)
      BY MinNodesIs DEF Kept
    <2>2. Len(x) \in MinOf(order)..(order - 1)
      BY <1>1, <2>1, MinIs
    <2>3. c[i] \in FitLeafs
      <3> HIDE DEF x
      <3>1. Leaf(x) \in FitLeafs
        BY <1>2, <2>2, LeafOf
      <3> QED
        BY <1>2, <3>1
    <2>4. \A j \in 1..Len(c) : c[j] \in FitLeafs
      BY <1>1, <2>3
    <2> QED
      BY <1>1, <2>4, SeqAmong
  <1>5. IsRow(c, Len(c), c)
    BY <1>4 DEF IsRow
  <1>6. CASE i > 1 /\ x # <<>>
    <2> DEFINE z == Head(x)
               kk == [k EXCEPT ![i - 1] = z]
    <2>1. z \in Keys
      BY <1>2, <1>6
    <2>2. r = [n EXCEPT !.keys[i - 1] = z]
      BY <1>6, Zenon DEF Repaired
    <2> HIDE DEF z
    <2>3. r = Node(kk, c)
      <3>1. [Node(k, c) EXCEPT !.keys[i - 1] = z] = Node(kk, c)
        <4> HIDE DEF k, c
        <4> QED
          BY DEF Node
      <3> QED
        BY <1>1, <2>2, <3>1, Zenon
    <2>4. kk \in Seq(Keys) /\ Len(kk) = Len(k)
      <3> HIDE DEF k, c
      <3>1. i - 1 \in 1..Len(k)
        BY <1>1, <1>6
      <3> DEFINE j == i - 1
      <3>2. j \in 1..Len(k)
        BY <3>1
      <3> HIDE DEF j
      <3>3. [k EXCEPT ![j] = z] \in Seq(Keys) /\ Len([k EXCEPT ![j] = z]) = Len(k)
        BY <1>1, <2>1, <3>2
      <3> QED
        BY <3>3 DEF j
    <2> HIDE DEF kk, r, k, c
    <2>5. r.keys = kk /\ r.kids = c
      BY <2>3 DEF Node
    <2>6. IsMended(n, i, r)
      BY <1>1, <1>3, <1>5, <2>3, <2>4, <2>5 DEF IsMended, k, c
    <2> QED
      BY <2>6 DEF r
  <1>7. CASE ~(i > 1 /\ x # <<>>)
    <2>1. r = n
      BY <1>7, Zenon DEF Repaired
    <2> HIDE DEF r
    <2>2. IsMended(n, i, r)
      BY <1>1, <1>3, <1>5, <2>1 DEF IsMended
    <2> QED
      BY <2>2 DEF r
  <1> QED
    BY <1>6, <1>7

\* A node whose leaves j and j + 1 share their keys anew.
LEMMA SharedMended ==
  ASSUME NEW n, NEW i, IsDamaged(n, i), ~Merges(n, i), NEW j \in 1..Len(n.keys), i \in {j, j + 1},
         NEW u \in Seq(Keys), NEW w \in Seq(Keys), w # <<>>,
         Len(u) \in MinOf(order)..(order - 1), Len(w) \in MinOf(order)..(order - 1),
         Cat(u, w) = Cat(n.kids[j].keys, n.kids[j + 1].keys)
  PROVE  IsMended(n, i, Shared(n, j, u, w))
  <1> DEFINE k == n.keys
             c == n.kids
             x == c[j].keys
             y == c[j + 1].keys
             kk == [k EXCEPT ![j] = Head(w)]
             d == [[c EXCEPT ![j] = Leaf(u)] EXCEPT ![j + 1] = Leaf(w)]
             r == Shared(n, j, u, w)
  <1>1. /\ n = Node(k, c) /\ k \in Seq(Keys) /\ Len(k) >= 1 /\ Len(k) \in Nat
        /\ c \in Seq(Leafs) /\ Len(c) = Len(k) + 1 /\ Sorted(KS(c))
        /\ \A l \in 1..Len(c) : l # i => c[l] \in FitLeafs
    BY DEF IsDamaged
  <1>2. IsPair(c, j, x, y)
    <2>1. j \in 1..(Len(c) - 1)
      BY <1>1
    <2> HIDE DEF c
    <2>2. \A l \in 1..Len(c) : l # j /\ l # j + 1 => c[l] \in FitLeafs
      BY <1>1
    <2> QED
      BY <1>1, <2>1, <2>2 DEF IsPair
  <1>3. PairHas(c, j, x, y)
    <2> HIDE DEF c, x, y
    <2> QED
      BY <1>2, PairIs
  <1>4. IsRow(d, Len(c), c)
    <2> HIDE DEF c, x, y
    <2>1. Cat(u, w) = Cat(x, y)
      BY DEF x, y, c
    <2> QED
      BY <1>3, <2>1 DEF PairHas
  <1>5. Head(w) \in Keys
    OBVIOUS
  <1>6. kk \in Seq(Keys) /\ Len(kk) = Len(k)
    BY <1>1, <1>5
  <1>7. r = Node(kk, d)
    <2>1. Shared(Node(k, c), j, u, w) = Node(kk, d)
      <3> HIDE DEF k, c
      <3>1. Shared(Node(k, c), j, u, w)
              = Node([k EXCEPT ![j] = Head(w)], [[c EXCEPT ![j] = Leaf(u)] EXCEPT ![j + 1] = Leaf(w)])
        BY SharedIs
      <3> QED
        BY <3>1
    <2> QED
      BY <1>1, <2>1, Zenon
  <1> HIDE DEF kk, d, r
  <1>8. r.keys = kk /\ r.kids = d
    BY <1>7 DEF Node
  <1>9. IsMended(n, i, r)
    BY <1>1, <1>4, <1>6, <1>7, <1>8 DEF IsMended
  <1> QED
    BY <1>9 DEF r

\* Merging two leaves repairs the parent.
LEMMA MergedMended ==
  ASSUME NEW n, NEW i, IsDamaged(n, i), Merges(n, i), NEW j \in 1..Len(n.keys), i \in {j, j + 1},
         Len(n.kids[j].keys) + Len(n.kids[j + 1].keys) \in MinOf(order)..(order - 1)
  PROVE  IsMended(n, i, Merged(n, j))
  <1> DEFINE k == n.keys
             c == n.kids
             x == c[j].keys
             y == c[j + 1].keys
             u == Cat(x, y)
             kk == RemoveAt(k, j)
             d == [RemoveAt(c, j + 1) EXCEPT ![j] = Leaf(u)]
             r == Merged(n, j)
  <1>1. /\ n = Node(k, c) /\ k \in Seq(Keys) /\ Len(k) >= 1 /\ Len(k) \in Nat
        /\ c \in Seq(Leafs) /\ Len(c) = Len(k) + 1 /\ Sorted(KS(c))
        /\ \A l \in 1..Len(c) : l # i => c[l] \in FitLeafs
    BY DEF IsDamaged
  <1>2. IsPair(c, j, x, y)
    <2>1. j \in 1..(Len(c) - 1)
      BY <1>1
    <2> HIDE DEF c
    <2>2. \A l \in 1..Len(c) : l # j /\ l # j + 1 => c[l] \in FitLeafs
      BY <1>1
    <2> QED
      BY <1>1, <2>1, <2>2 DEF IsPair
  <1>3. PairHas(c, j, x, y)
    <2> HIDE DEF c, x, y
    <2> QED
      BY <1>2, PairIs
  <1>4. u \in Seq(Keys) /\ Len(u) \in MinOf(order)..(order - 1)
    <2>1. x \in Seq(Keys) /\ y \in Seq(Keys)
      BY <1>3 DEF PairHas
    <2>2. Len(x) + Len(y) \in MinOf(order)..(order - 1)
      OBVIOUS
    <2> HIDE DEF x, y
    <2>3. u \in Seq(Keys) /\ Len(u) = Len(x) + Len(y)
      BY <2>1, CatType
    <2> QED
      BY <2>2, <2>3
  <1>5. IsRow(d, Len(c) - 1, c)
    <2>0. u = Cat(x, y)
      OBVIOUS
    <2> HIDE DEF c, x, y, u
    <2> QED
      BY <1>3, <1>4, <2>0 DEF PairHas
  <1>6. kk \in Seq(Keys) /\ Len(kk) = Len(k) - 1
    BY <1>1, RemoveAtIs
  <1>7. r = Node(kk, d)
    <2>1. Merged(Node(k, c), j) = Node(kk, d)
      BY MergedIs, Zenon
    <2> QED
      BY <1>1, <2>1, Zenon
  <1> HIDE DEF kk, d, r
  <1>8. r.keys = kk /\ r.kids = d
    BY <1>7 DEF Node
  <1>10. Len(c) - 1 = (Len(k) - 1) + 1
    BY <1>1
  <1>9. IsMended(n, i, r)
    <2> HIDE DEF c
    <2>1. Len(r.keys) = Len(k) - 1 /\ Len(r.keys) + 1 = Len(c) - 1
      BY <1>6, <1>8, <1>10
    <2> QED
      BY <1>5, <1>6, <1>7, <1>8, <2>1 DEF IsMended, c
  <1> QED
    BY <1>9 DEF r

\* The keys of two leaves of a damaged node, one beside the other.
LEMMA PairOfDamaged ==
  ASSUME NEW n, NEW i, IsDamaged(n, i), NEW j \in 1..Len(n.keys), i \in {j, j + 1}
  PROVE  /\ n.kids[j].keys \in Seq(Keys) /\ n.kids[j + 1].keys \in Seq(Keys)
         /\ Sorted(n.kids[j].keys) /\ Sorted(n.kids[j + 1].keys)
         /\ InOrder(n.kids[j].keys, n.kids[j + 1].keys)
  <1> DEFINE c == n.kids
             x == c[j].keys
             y == c[j + 1].keys
  <1>1. /\ c \in Seq(Leafs) /\ Len(c) = Len(n.keys) + 1 /\ Sorted(KS(c)) /\ Len(n.keys) \in Nat
        /\ \A l \in 1..Len(c) : l # i => c[l] \in FitLeafs
    BY DEF IsDamaged
  <1>2. IsPair(c, j, x, y)
    <2>1. j \in 1..(Len(c) - 1)
      BY <1>1
    <2> HIDE DEF c
    <2>2. \A l \in 1..Len(c) : l # j /\ l # j + 1 => c[l] \in FitLeafs
      BY <1>1
    <2> QED
      BY <1>1, <2>1, <2>2 DEF IsPair
  <1>3. PairHas(c, j, x, y)
    <2> HIDE DEF c, x, y
    <2> QED
      BY <1>2, PairIs
  <1> HIDE DEF c, x, y
  <1>4. x \in Seq(Keys) /\ y \in Seq(Keys) /\ Sorted(x) /\ Sorted(y) /\ InOrder(x, y)
    BY <1>3 DEF PairHas
  <1> QED
    BY <1>4 DEF x, y, c

\* A leaf has enough keys to be fit, or is one short.
LEMMA DamagedSizes ==
  ASSUME IsOrder(order), NEW n, NEW i, IsDamaged(n, i), ~Kept(n, i)
  PROVE  /\ Len(n.kids[i].keys) = MinOf(order) - 1
         /\ \A j \in 1..Len(n.kids) : j # i => Len(n.kids[j].keys) \in MinOf(order)..(order - 1)
         /\ \A j : Lends(n, j) <=> j \in 1..Len(n.kids) /\ Len(n.kids[j].keys) > MinOf(order)
         /\ MinOf(order) \in Nat /\ MinOf(order) >= 1 /\ 2 * MinOf(order) - 1 <= order - 1 /\ order \in Nat
         /\ Len(n.keys) \in Nat /\ Len(n.keys) >= 1 /\ Len(n.kids) = Len(n.keys) + 1 /\ i \in 1..Len(n.kids)
  <1>1. /\ Len(n.kids[i].keys) \in (MinOf(order) - 1)..(order - 1)
        /\ \A j \in 1..Len(n.kids) : j # i => n.kids[j] \in FitLeafs
        /\ Len(n.keys) \in Nat /\ Len(n.keys) >= 1 /\ Len(n.kids) = Len(n.keys) + 1 /\ i \in 1..Len(n.kids)
        /\ n.kids \in Seq(Leafs)
    BY DEF IsDamaged
  <1>2. MinOf(order) \in Nat /\ MinOf(order) >= 1 /\ order \in Nat
    BY MinIs DEF IsOrder
  <1>3. 2 * MinOf(order) - 1 <= order - 1
    <2>1. order \in Nat
      BY <1>2
    <2> QED
      BY <2>1 DEF MinOf
  <1>4. Len(n.kids[i].keys) = MinOf(order) - 1
    <2>1. ~(Len(n.kids[i].keys) >= MinOf(order))
      BY MinNodesIs DEF Kept
    <2> QED
      BY <1>1, <1>2, <2>1
  <1>5. \A j \in 1..Len(n.kids) : j # i => Len(n.kids[j].keys) \in MinOf(order)..(order - 1)
    BY <1>1, FitLeafsAre
  <1>6. \A j : Lends(n, j) <=> j \in 1..Len(n.kids) /\ Len(n.kids[j].keys) > MinOf(order)
    BY <1>1, MinNodesIs DEF Lends
  <1> QED
    BY <1>1, <1>2, <1>3, <1>4, <1>5, <1>6

\* Borrowing from the right repairs the parent.
LEMMA BorrowedRight ==
  ASSUME IsOrder(order), NEW n, NEW i, IsDamaged(n, i), ~Kept(n, i), Lends(n, i + 1)
  PROVE  IsMended(n, i, Repaired(n, i))
  <1> DEFINE x == n.kids[i].keys
             y == n.kids[i + 1].keys
             z == Head(y)
             u == Added(x, z)
             w == Tail(y)
  <1>1. /\ Len(x) = MinOf(order) - 1 /\ i + 1 \in 1..Len(n.kids) /\ Len(y) > MinOf(order)
        /\ Len(y) \in MinOf(order)..(order - 1)
        /\ MinOf(order) \in Nat /\ MinOf(order) >= 1 /\ order \in Nat
        /\ i \in 1..Len(n.keys) /\ i \in {i, i + 1}
    <2>1. /\ Len(n.kids[i].keys) = MinOf(order) - 1
          /\ \A j \in 1..Len(n.kids) : j # i => Len(n.kids[j].keys) \in MinOf(order)..(order - 1)
          /\ \A j : Lends(n, j) <=> j \in 1..Len(n.kids) /\ Len(n.kids[j].keys) > MinOf(order)
          /\ MinOf(order) \in Nat /\ MinOf(order) >= 1 /\ order \in Nat
          /\ Len(n.keys) \in Nat /\ Len(n.kids) = Len(n.keys) + 1 /\ i \in 1..Len(n.kids)
      BY DamagedSizes
    <2>2. i + 1 \in 1..Len(n.kids) /\ Len(y) > MinOf(order)
      BY <2>1
    <2>3. i # i + 1 /\ i \in 1..Len(n.keys) /\ i \in {i, i + 1}
      BY <2>1, <2>2
    <2>4. Len(y) \in MinOf(order)..(order - 1)
      BY <2>1, <2>2, <2>3
    <2> QED
      BY <2>1, <2>2, <2>3, <2>4
  <1>2. x \in Seq(Keys) /\ y \in Seq(Keys) /\ Sorted(x) /\ Sorted(y) /\ InOrder(x, y)
    BY <1>1, PairOfDamaged
  <1> HIDE DEF x, y
  <1>3. y # <<>>
    BY <1>1, <1>2
  <1>4. z \in Keys /\ w \in Seq(Keys) /\ y = Cat(One(z), w) /\ y[1] = z /\ Len(w) = Len(y) - 1
    BY <1>2, <1>3, FirstOff
  <1>5. Upto(x, z)
    <2>1. 1 \in 1..Len(y)
      BY <1>1
    <2> QED
      BY <1>2, <1>4, <2>1 DEF InOrder, Upto
  <1> HIDE DEF z, w
  <1>6. u = Cat(x, One(z))
    BY <1>2, <1>4, <1>5, AddedMost
  <1>7. u \in Seq(Keys) /\ Len(u) = Len(x) + 1
    <2>1. One(z) \in Seq(Keys) /\ Len(One(z)) = 1
      BY <1>4, OneIs
    <2>2. Cat(x, One(z)) \in Seq(Keys) /\ Len(Cat(x, One(z))) = Len(x) + Len(One(z))
      BY <1>2, <2>1, CatType
    <2> HIDE DEF u
    <2> QED
      BY <1>6, <2>1, <2>2
  <1>8. Cat(u, w) = Cat(x, y)
    <2>1. One(z) \in Seq(Keys)
      BY <1>4, OneIs
    <2>2. Cat(Cat(x, One(z)), w) = Cat(x, Cat(One(z), w))
      BY <1>2, <1>4, <2>1, CatAssoc
    <2> QED
      BY <1>4, <1>6, <2>2
  <1> HIDE DEF u
  <1>9. Len(u) \in MinOf(order)..(order - 1) /\ Len(w) \in MinOf(order)..(order - 1) /\ w # <<>>
    <2>1. Len(u) \in MinOf(order)..(order - 1) /\ Len(w) \in MinOf(order)..(order - 1) /\ Len(w) # 0
      BY <1>1, <1>4, <1>7
    <2> QED
      BY <2>1
  <1>10. ~Merges(n, i)
    BY DEF Merges
  <1>11. IsMended(n, i, Shared(n, i, u, w))
    <2>1. Cat(u, w) = Cat(n.kids[i].keys, n.kids[i + 1].keys)
      BY <1>8 DEF x, y
    <2> QED
      BY <1>1, <1>4, <1>7, <1>9, <1>10, <2>1, SharedMended
  <1>12. Repaired(n, i) = Shared(n, i, u, w)
    BY Zenon DEF Repaired, rebalanceLeaf, u, w, x, y, z
  <1> QED
    BY <1>11, <1>12

\* Borrowing from the left repairs the parent.
LEMMA BorrowedLeft ==
  ASSUME IsOrder(order), NEW n, NEW i, IsDamaged(n, i), ~Kept(n, i), ~Lends(n, i + 1), Lends(n, i - 1)
  PROVE  IsMended(n, i, Repaired(n, i))
  <1> DEFINE j == i - 1
             x == n.kids[j].keys
             y == n.kids[i].keys
             z == Last(x)
             u == Front(x)
             w == Added(y, z)
  <1>1. /\ Len(y) = MinOf(order) - 1 /\ j \in 1..Len(n.kids) /\ Len(x) > MinOf(order)
        /\ Len(x) \in MinOf(order)..(order - 1)
        /\ MinOf(order) \in Nat /\ MinOf(order) >= 1 /\ order \in Nat
        /\ j \in 1..Len(n.keys) /\ i \in {j, j + 1} /\ j + 1 = i
    <2>1. /\ Len(n.kids[i].keys) = MinOf(order) - 1
          /\ \A l \in 1..Len(n.kids) : l # i => Len(n.kids[l].keys) \in MinOf(order)..(order - 1)
          /\ \A l : Lends(n, l) <=> l \in 1..Len(n.kids) /\ Len(n.kids[l].keys) > MinOf(order)
          /\ MinOf(order) \in Nat /\ MinOf(order) >= 1 /\ order \in Nat
          /\ Len(n.keys) \in Nat /\ Len(n.kids) = Len(n.keys) + 1 /\ i \in 1..Len(n.kids)
      BY DamagedSizes
    <2>2. j \in 1..Len(n.kids) /\ Len(x) > MinOf(order)
      BY <2>1
    <2>3. i # j /\ j \in 1..Len(n.keys) /\ i \in {j, j + 1} /\ j + 1 = i
      BY <2>1, <2>2
    <2> HIDE DEF j
    <2>4. Len(x) \in MinOf(order)..(order - 1)
      BY <2>1, <2>2, <2>3
    <2> QED
      BY <2>1, <2>2, <2>3, <2>4
  <1> HIDE DEF j
  <1>2. x \in Seq(Keys) /\ y \in Seq(Keys) /\ Sorted(x) /\ Sorted(y) /\ InOrder(x, y)
    <2>1. /\ n.kids[j].keys \in Seq(Keys) /\ n.kids[j + 1].keys \in Seq(Keys)
         /\ Sorted(n.kids[j].keys) /\ Sorted(n.kids[j + 1].keys)
         /\ InOrder(n.kids[j].keys, n.kids[j + 1].keys)
      BY <1>1, PairOfDamaged
    <2> QED
      BY <1>1, <2>1
  <1> HIDE DEF x, y
  <1>3. x # <<>>
    BY <1>1, <1>2
  <1>4. z \in Keys /\ u \in Seq(Keys) /\ x = Cat(u, One(z)) /\ Len(u) = Len(x) - 1
    BY <1>2, <1>3, LastOff
  <1>5. \A l \in 1..Len(y) : z <= y[l]
    <2>1. Len(x) \in 1..Len(x) /\ z = x[Len(x)]
      BY <1>1, <1>2 DEF Last
    <2> QED
      BY <1>2, <2>1 DEF InOrder
  <1> HIDE DEF z, u
  <1>6. w = Cat(One(z), y)
    BY <1>2, <1>4, <1>5, AddedLeast
  <1>7. w \in Seq(Keys) /\ Len(w) = Len(y) + 1
    <2>1. One(z) \in Seq(Keys) /\ Len(One(z)) = 1
      BY <1>4, OneIs
    <2>2. Cat(One(z), y) \in Seq(Keys) /\ Len(Cat(One(z), y)) = Len(One(z)) + Len(y)
      BY <1>2, <2>1, CatType
    <2>3. Len(y) \in Nat
      BY <1>2
    <2> HIDE DEF w
    <2> QED
      BY <1>6, <2>1, <2>2, <2>3
  <1>8. Cat(u, w) = Cat(x, y)
    <2>1. One(z) \in Seq(Keys)
      BY <1>4, OneIs
    <2>2. Cat(Cat(u, One(z)), y) = Cat(u, Cat(One(z), y))
      BY <1>2, <1>4, <2>1, CatAssoc
    <2> QED
      BY <1>4, <1>6, <2>2
  <1> HIDE DEF w
  <1>9. Len(u) \in MinOf(order)..(order - 1) /\ Len(w) \in MinOf(order)..(order - 1) /\ w # <<>>
    <2>1. Len(u) \in MinOf(order)..(order - 1) /\ Len(w) \in MinOf(order)..(order - 1) /\ Len(w) # 0
      BY <1>1, <1>4, <1>7
    <2> QED
      BY <2>1
  <1>10. ~Merges(n, i)
    BY DEF Merges
  <1>11. IsMended(n, i, Shared(n, j, u, w))
    <2>1. Cat(u, w) = Cat(n.kids[j].keys, n.kids[j + 1].keys)
      BY <1>1, <1>8 DEF x, y
    <2> QED
      BY <1>1, <1>4, <1>7, <1>9, <1>10, <2>1, SharedMended
  <1>12. Repaired(n, i) = Shared(n, j, u, w)
    BY Zenon DEF Repaired, rebalanceLeaf, u, w, x, y, z, j
  <1> QED
    BY <1>11, <1>12

\* Merging is possible when no neighbour can lend: the keys of two fit in one leaf.
LEMMA MergedWithNext ==
  ASSUME IsOrder(order), NEW n, NEW i, IsDamaged(n, i), ~Kept(n, i), ~Lends(n, i + 1), ~Lends(n, i - 1)
  PROVE  IsMended(n, i, Repaired(n, i))
  <1> DEFINE j == MergedAt(i)
  <1>1. /\ Len(n.kids[i].keys) = MinOf(order) - 1
        /\ \A l \in 1..Len(n.kids) : l # i => Len(n.kids[l].keys) \in MinOf(order)..(order - 1)
        /\ \A l : Lends(n, l) <=> l \in 1..Len(n.kids) /\ Len(n.kids[l].keys) > MinOf(order)
        /\ MinOf(order) \in Nat /\ MinOf(order) >= 1 /\ 2 * MinOf(order) - 1 <= order - 1 /\ order \in Nat
        /\ Len(n.keys) \in Nat /\ Len(n.keys) >= 1 /\ Len(n.kids) = Len(n.keys) + 1 /\ i \in 1..Len(n.kids)
    BY DamagedSizes
  <1>2. Merges(n, i)
    BY DEF Merges
  <1>3. j \in 1..Len(n.keys) /\ i \in {j, j + 1}
    BY <1>1 DEF MergedAt
  <1> DEFINE a == Len(n.kids[j].keys)
             b == Len(n.kids[j + 1].keys)
  <1>4. a + b = 2 * MinOf(order) - 1
    <2>1. \A l \in 1..Len(n.kids) : l # i /\ ~Lends(n, l) => Len(n.kids[l].keys) = MinOf(order)
      <3> TAKE l \in 1..Len(n.kids)
      <3> HAVE l # i /\ ~Lends(n, l)
      <3>1. Len(n.kids[l].keys) \in MinOf(order)..(order - 1) /\ ~(Len(n.kids[l].keys) > MinOf(order))
        BY <1>1
      <3>2. \A s \in MinOf(order)..(order - 1) : ~(s > MinOf(order)) => s = MinOf(order)
        BY <1>1
      <3> QED
        BY <3>1, <3>2
    <2>2. CASE i > 1
      <3>1. j = i - 1 /\ j + 1 = i /\ i - 1 \in 1..Len(n.kids) /\ i - 1 # i
        BY <1>1, <2>2 DEF MergedAt
      <3>2. a = MinOf(order) /\ b = MinOf(order) - 1
        BY <1>1, <2>1, <3>1
      <3> HIDE DEF a, b
      <3> QED
        BY <1>1, <3>2
    <2>3. CASE ~(i > 1)
      <3>1. j = i /\ i + 1 \in 1..Len(n.kids) /\ i + 1 # i
        BY <1>1, <2>3 DEF MergedAt
      <3>2. b = MinOf(order) /\ a = MinOf(order) - 1
        BY <1>1, <2>1, <3>1
      <3> HIDE DEF a, b
      <3> QED
        BY <1>1, <3>2
    <2> QED
      BY <2>2, <2>3
  <1>5. a + b \in MinOf(order)..(order - 1)
    <2> HIDE DEF a, b
    <2> QED
      BY <1>1, <1>4
  <1>6. IsMended(n, i, Merged(n, j))
    <2> HIDE DEF j
    <2> QED
      BY <1>2, <1>3, <1>5, MergedMended
  <1>7. Repaired(n, i) = Merged(n, j)
    BY Zenon DEF Repaired, rebalanceLeaf
  <1> QED
    BY <1>6, <1>7

\* Whatever removeHelper does, the parent's leaves are fit and hold the same keys.
LEMMA RepairedMended ==
  ASSUME IsOrder(order), NEW n, NEW i, IsDamaged(n, i)
  PROVE  IsMended(n, i, Repaired(n, i))
  <1>1. CASE Kept(n, i)
    BY <1>1, KeptMended
  <1>2. CASE ~Kept(n, i) /\ Lends(n, i + 1)
    BY <1>2, BorrowedRight
  <1>3. CASE ~Kept(n, i) /\ ~Lends(n, i + 1) /\ Lends(n, i - 1)
    BY <1>3, BorrowedLeft
  <1>4. CASE ~Kept(n, i) /\ ~Lends(n, i + 1) /\ ~Lends(n, i - 1)
    BY <1>4, MergedWithNext
  <1> QED
    BY <1>1, <1>2, <1>3, <1>4, Zenon

-----------------------------------------------------------------------------
(***************************************************************************)
(* remove: removeHelper on the way down to that parent.                    *)
(***************************************************************************)

(***************************************************************************)
(* What removeHelper returns for a parent that has the key below it.       *)
(***************************************************************************)

MergePlace(m, v, r) == IF r.before THEN LeafFor(m, v).at - 1 ELSE LeafFor(m, v).at

IsRemoved(h, m, v, r) ==
    /\ r = [node |-> r.node, merges |-> r.merges, before |-> r.before, short |-> r.short]
    /\ r.node \in Trees[h + 1] /\ r.node \in Nodes /\ ~IsLeaf(r.node)
    /\ KeysOf(r.node) = RemoveFirst(KeysOf(m), v)
    /\ Len(Leaves[r.node]) = Len(Leaves[m]) - (IF r.merges THEN 1 ELSE 0)
    /\ r.merges => MergePlace(m, v, r) \in 1..(Len(Leaves[m]) - 1)
    /\ h = 1 \/ ~r.short => r.node \in Tiers(order, 0)[h]
    /\ Len(r.node.keys) \in 0..Len(m.keys)
    /\ ~r.short /\ Len(m.keys) >= MinOf(order) => Len(r.node.keys) >= MinOf(order)
    /\ h # 1 \/ ~r.merges => Len(r.node.keys) = Len(m.keys)

\* The trees of height 0 are the leaves.
LEMMA LeafsOfTier ==
  ASSUME NEW o, NEW b
  PROVE  Tiers(o, b)[0] = Leafs
  <1>1. 0 \in 0..MaxKeys
    BY BoundIsNat
  <1>2. \A n \in Tiers(o, b)[0] : n \in Leafs
    BY <1>1, TierIs DEF Leafs
  <1>3. \A n \in Leafs : n \in Tiers(o, b)[0]
    <2> TAKE n \in Leafs
    <2>1. n = Leaf(n.keys) /\ n.keys \in Seq(Keys)
      BY LeafsAre
    <2>2. Leaf(n.keys) \in Tiers(o, b)[0]
      BY <2>1, LeafTier
    <2> QED
      BY <2>1, <2>2
  <1> QED
    BY <1>2, <1>3

\* The parent of the leaf that holds the key.
IsLowest(m, v, i, pre, post) ==
    /\ m \in Nodes /\ ~IsLeaf(m) /\ m = Node(m.keys, m.kids) /\ m.keys \in Seq(Keys)
    /\ Len(m.keys) \in 1..(order - 1) /\ Len(m.kids) = Len(m.keys) + 1
    /\ m.kids \in Seq(FitLeafs) /\ m.kids \in Seq(Leafs)
    /\ IsChild(m, v, i, pre, post) /\ Has(m.kids[i].keys, v)
    /\ KeysOf(m) = KS(m.kids) /\ Sorted(KeysOf(m)) /\ Len(Leaves[m]) = Len(m.kids)
    /\ LeafFor(m, v).at = i

\* What is known of the parent of the leaf with the key.
LEMMA LowestIs ==
  ASSUME IsOrder(order), 1 \in 0..MaxKeys, NEW m \in Sound(order, 1, 1), Sorted(KeysOf(m)),
         NEW v \in Keys, Has(KeysOf(m), v)
  PROVE  \E i, pre, post : IsLowest(m, v, i, pre, post)
  <1>0. v \in Int /\ 1 # 0 /\ 1 - 1 = 0
    BY BoundIsNat
  <1> DEFINE h == 1
  <1>1. h \in 0..MaxKeys /\ h # 0 /\ h - 1 = 0 /\ m \in Sound(order, 1, h)
    OBVIOUS
  <1> HIDE DEF h
  <1>2. /\ m \in Tiers(order, 1)[h] /\ m \in Nodes /\ ~IsLeaf(m)
        /\ AreEntries(h - 1, m.keys, m.kids) /\ Len(m.keys) \in 1..(order - 1)
    BY <1>1, SoundParent
  <1>3. /\ m.keys \in Seq(Keys) /\ m.kids \in Seq(Fit(order, Tiers(order, 1)[0])) /\ Len(m.kids) = Len(m.keys) + 1
    BY <1>1, <1>2 DEF AreEntries
  <1>4. m.kids \in Seq(FitLeafs) /\ m.kids \in Seq(Leafs)
    <2>1. Tiers(order, 1)[0] = Tiers(order, 0)[0]
      BY LeafsOfTier
    <2>2. m.kids \in Seq(FitLeafs)
      BY <1>3, <2>1 DEF FitLeafs
    <2>3. FitLeafs \subseteq Leafs
      BY FitLeafsAre
    <2> QED
      BY <2>2, <2>3, SeqMonotonic
  <1>5. PICK i, pre, post : IsChild(m, v, i, pre, post)
    BY <1>0, <1>1, <1>2, AChild
  <1>6. i \in 1..Len(m.kids) /\ i = findChild(m, v) /\ pre = SubSeq(m.kids, 1, i - 1)
    BY <1>5, Zenon DEF IsChild
  <1> DEFINE kid == m.kids[i]
  <1>7. kid \in Leafs
    BY <1>4, <1>6
  <1> HIDE DEF kid
  <1>8. kid \in Nodes /\ IsLeaf(kid)
    BY <1>7 DEF Leafs
  <1>9. LeafFor(kid, v) = [leaf |-> kid, at |-> 1]
    BY <1>0, <1>8, LeafForStep
  <1>10. LeafFor(m, v).leaf = kid /\ LeafFor(m, v).at = LeavesBefore(m, i) + 1
    <2> DEFINE r == [leaf |-> kid, at |-> 1]
    <2>1. LeafFor(kid, v) = r /\ r = [leaf |-> r.leaf, at |-> r.at] /\ r.leaf = kid /\ r.at = 1
      BY <1>9
    <2> HIDE DEF r
    <2>2. kid = m.kids[findChild(m, v)]
      BY <1>6 DEF kid
    <2>3. LeafFor(m, v).leaf = r.leaf /\ LeafFor(m, v).at = LeavesBefore(m, findChild(m, v)) + r.at
      BY <1>0, <1>2, <2>1, <2>2, SplitsBelow
    <2> QED
      BY <1>6, <2>1, <2>3
  <1>11. LeavesBefore(m, i) = i - 1
    <2>1. LeavesBefore(m, i) = Len(LS(pre))
      BY <1>2, <1>6, LeavesBeforeIs
    <2>2. pre \in Seq(Leafs) /\ Len(pre) = i - 1
      BY <1>4, <1>6, TakenOut
    <2>3. Len(LS(pre)) = Len(pre)
      BY <2>2, LeafRows
    <2> QED
      BY <2>1, <2>2, <2>3
  <1>12. LeafFor(m, v).at = i
    <2>1. i \in Int
      BY <1>6
    <2> QED
      BY <1>10, <1>11, <2>1
  <1>13. Has(kid.keys, v)
    <2>1. IsFound(m, v, LeafFor(m, v))
      BY <1>0, <1>1, <1>2, LeafIsFound
    <2> QED
      BY <1>10, <2>1 DEF IsFound
  <1>14. KeysOf(m) = KS(m.kids) /\ Leaves[m] = LS(m.kids) /\ m = Node(m.keys, m.kids)
    BY <1>2, KeysOfStep, LeavesStep, NodeIs
  <1>15. Len(LS(m.kids)) = Len(m.kids)
    BY <1>4, LeafRows
  <1>16. IsLowest(m, v, i, pre, post)
    BY <1>2, <1>3, <1>4, <1>5, <1>12, <1>13, <1>14, <1>15 DEF IsLowest, kid
  <1> QED
    BY <1>16

\* The parent without the key, before it is repaired.
LEMMA DamagedIs ==
  ASSUME IsOrder(order), NEW m, NEW v \in Keys, NEW i, NEW pre, NEW post, IsLowest(m, v, i, pre, post)
  PROVE  LET p == WithLeaf(m, i, RemoveFirst(m.kids[i].keys, v)) IN
         /\ IsDamaged(p, i) /\ p.keys = m.keys /\ Len(p.kids) = Len(m.kids)
         /\ KS(p.kids) = RemoveFirst(KeysOf(m), v)
  <1> DEFINE k == m.keys
             c == m.kids
             kid == c[i]
             x == kid.keys
             y == RemoveFirst(x, v)
             d == [c EXCEPT ![i] = Leaf(y)]
             p == WithLeaf(m, i, y)
  <1>1. /\ m = Node(k, c) /\ k \in Seq(Keys) /\ m \in Nodes
        /\ Len(k) \in 1..(order - 1) /\ Len(c) = Len(k) + 1
        /\ c \in Seq(FitLeafs) /\ c \in Seq(Leafs)
        /\ IsChild(m, v, i, pre, post) /\ Has(x, v)
        /\ KeysOf(m) = KS(c) /\ Sorted(KeysOf(m))
    BY DEF IsLowest
  <1>2. /\ i \in 1..Len(c) /\ pre \in Seq(Nodes) /\ post \in Seq(Nodes)
        /\ pre = SubSeq(c, 1, i - 1) /\ post = SubSeq(c, i + 1, Len(c))
        /\ KeysOf(m) = Cat(Cat(KS(pre), KeysOf(kid)), KS(post))
        /\ Sorted(KeysOf(kid))
    BY <1>1, Zenon DEF IsChild
  <1>3. kid \in Leafs /\ kid \in FitLeafs
    BY <1>1, <1>2
  <1>4. x \in Seq(Keys) /\ KeysOf(kid) = x /\ Len(x) \in MinOf(order)..(order - 1)
    BY <1>3, LeafsAre, FitLeafsAre
  <1>5. KS(pre) \in Seq(Keys) /\ KS(post) \in Seq(Keys) /\ KeysOf(m) \in Seq(Keys)
    BY <1>1, <1>2, KSType, KeysOfType
  <1>6. /\ RemoveFirst(KeysOf(m), v) = Cat(Cat(KS(pre), y), KS(post))
        /\ y \in Seq(Keys) /\ Len(y) = Len(x) - 1
    <2> HIDE DEF x
    <2>1. Sorted(Cat(Cat(KS(pre), x), KS(post))) /\ \E j \in 1..Len(x) : x[j] = v
      BY <1>1, <1>2, <1>4 DEF Has
    <2>2. /\ RemoveFirst(Cat(Cat(KS(pre), x), KS(post)), v) = Cat(Cat(KS(pre), RemoveFirst(x, v)), KS(post))
          /\ RemoveFirst(x, v) \in Seq(Keys) /\ Len(RemoveFirst(x, v)) = Len(x) - 1
      BY <1>4, <1>5, <2>1, RemovedBetween
    <2> QED
      BY <1>2, <1>4, <2>2
  <1>7. Sorted(RemoveFirst(KeysOf(m), v))
    <2> DEFINE s == KeysOf(m)
    <2>1. Has(s, v)
      <3> HIDE DEF x
      <3> DEFINE u == Cat(KS(pre), x)
      <3>1. u \in Seq(Keys) /\ (Has(u, v) <=> Has(KS(pre), v) \/ Has(x, v))
        <4>1. KS(pre) \in Seq(Keys) /\ x \in Seq(Keys)
          BY <1>4, <1>5
        <4>2. Cat(KS(pre), x) \in Seq(Keys)
          BY ONLY <4>1, CatType
        <4>3. Has(Cat(KS(pre), x), v) <=> Has(KS(pre), v) \/ Has(x, v)
          BY ONLY <4>1, HasCat
        <4> QED
          BY <4>2, <4>3
      <3> HIDE DEF u
      <3>2. Has(Cat(u, KS(post)), v) <=> Has(u, v) \/ Has(KS(post), v)
        BY <1>5, <3>1, HasCat
      <3> QED
        BY <1>1, <1>2, <1>4, <3>1, <3>2 DEF u
    <2>2. s \in Seq(Keys) /\ Sorted(s)
      BY <1>1, <1>5
    <2> HIDE DEF s
    <2>3. Sorted(RemoveFirst(s, v))
      BY <2>1, <2>2, RemovedSorted
    <2> QED
      BY <2>3 DEF s
  <1>8. p = Node(k, d)
    <2>1. WithLeaf(Node(k, c), i, y) = Node(k, d)
      <3> HIDE DEF k, c, y
      <3> QED
        BY WithLeafIs
    <2> QED
      BY <1>1, <2>1, Zenon
  <1>9. Leaf(y) \in Leafs /\ Leaf(y).keys = y /\ KeysOf(Leaf(y)) = y /\ Leaf(y) \in Nodes
    <2> HIDE DEF y
    <2> QED
      BY <1>6, LeafOf DEF Leafs
  <1>10. d \in Seq(Leafs) /\ Len(d) = Len(c) /\ d[i] = Leaf(y) /\ \A j \in 1..Len(c) : j # i => d[j] = c[j]
    <2> HIDE DEF c, y
    <2> QED
      BY <1>1, <1>2, <1>9
  <1>11. KS(d) = RemoveFirst(KeysOf(m), v)
    <2> DEFINE n == Leaf(y)
    <2>1. d = Cat(Cat(pre, One(n)), post)
      <3>0. c \in Seq(Leafs) /\ i \in 1..Len(c)
        BY <1>1, <1>2
      <3>1. PICK a, b \in Seq(Leafs) : /\ IsCut(c, a, One(kid), b, i)
                                       /\ a = SubSeq(c, 1, i - 1) /\ b = SubSeq(c, i + 1, Len(c))
        <4> HIDE DEF c
        <4>1. \E a, b \in Seq(Leafs) : /\ IsCut(c, a, One(c[i]), b, i) /\ Len(b) = Len(c) - i
                                       /\ a = SubSeq(c, 1, i - 1) /\ b = SubSeq(c, i + 1, Len(c))
          BY <3>0, CutOne, Zenon
        <4> QED
          BY <4>1, Zenon
      <3>2. a = pre /\ b = post /\ i \in Nat
        BY <1>2, <3>1
      <3> HIDE DEF n, kid, c
      <3>3. [c EXCEPT ![i] = n] = Cat(Cat(a, One(n)), b)
        <4>1. n \in Leafs
          BY <1>9 DEF n
        <4>2. IsCut([c EXCEPT ![i] = n], a, One(n), b, i)
          BY <1>3, <3>1, <3>2, <4>1, PutOne
        <4> QED
          BY <4>2, Zenon DEF IsCut
      <3> QED
        BY <3>2, <3>3 DEF n, c
    <2>2. n \in Nodes /\ KeysOf(n) = y
      BY <1>9
    <2> HIDE DEF n, d, y
    <2>3. One(n) \in Seq(Nodes) /\ KS(One(n)) = y
      BY <2>2, OneIs, KSOne
    <2>4. KS(Cat(Cat(pre, One(n)), post)) = Cat(Cat(KS(pre), KS(One(n))), KS(post))
      BY <1>2, <2>3, BelowThree
    <2> QED
      BY <1>6, <2>1, <2>3, <2>4
  <1> HIDE DEF d, p
  <1>12. p.keys = k /\ p.kids = d
    BY <1>8 DEF Node
  <1>13. Len(d[i].keys) \in (MinOf(order) - 1)..(order - 1)
    <2>1. Len(d[i].keys) = Len(x) - 1
      BY <1>6, <1>9, <1>10
    <2>2. MinOf(order) \in Nat /\ order \in Nat
      BY MinIs DEF IsOrder
    <2> QED
      BY <1>4, <2>1, <2>2
  <1>14. \A j \in 1..Len(d) : j # i => d[j] \in FitLeafs
    <2> HIDE DEF c
    <2> QED
      BY <1>1, <1>10
  <1>15. IsDamaged(p, i)
    <2>1. Len(k) >= 1 /\ Len(d) = Len(k) + 1 /\ i \in 1..Len(d) /\ Sorted(KS(d))
      BY <1>1, <1>2, <1>7, <1>10, <1>11
    <2> QED
      BY <1>1, <1>8, <1>10, <1>12, <1>13, <1>14, <2>1 DEF IsDamaged
  <1>16. IsDamaged(p, i) /\ p.keys = m.keys /\ Len(p.kids) = Len(m.kids)
         /\ KS(p.kids) = RemoveFirst(KeysOf(m), v)
    BY <1>10, <1>11, <1>12, <1>15
  <1> QED
    BY <1>16 DEF p

\* One step of removeHelper.
LEMMA RemovalStep ==
  ASSUME NEW n \in Parents, NEW v \in Int, NEW i, i = findChild(n, v)
  PROVE  /\ IsLeaf(n.kids[i]) =>
              LET p   == WithLeaf(n, i, RemoveFirst(n.kids[i].keys, v))
                  now == Repaired(p, i)
              IN  Removal(n, v) = [node |-> now, merges |-> Merges(p, i), before |-> i > 1,
                                   short |-> Merges(p, i) /\ Len(now.keys) < getMinNodes]
         /\ ~IsLeaf(n.kids[i]) =>
              Removal(n, v) = [Removal(n.kids[i], v) EXCEPT
                                 !.node = [n EXCEPT !.kids[i] = Removal(n.kids[i], v).node]]
  <1> PICK f : (\A m \in Parents : f[m] = RemovalBy(f, m, v)) /\ (\A m : Removal(m, v) = f[m])
    BY RemovalIs
  <1>1. f[n] = RemovalBy(f, n, v) /\ \A m : Removal(m, v) = f[m]
    OBVIOUS
  <1> QED
    BY <1>1, Zenon DEF RemovalBy

PutKid(n, i, x) == [n EXCEPT !.kids[i] = x]

\* removeHelper above the lowest inner node: the child on the way is replaced.
LEMMA RemovalAbove ==
  ASSUME NEW n \in Parents, NEW v \in Int, NEW i, i = findChild(n, v), ~IsLeaf(n.kids[i]),
         NEW x, x = Removal(n.kids[i], v)
  PROVE  Removal(n, v) = [x EXCEPT !.node = PutKid(n, i, x.node)]
  <1> PICK f : (\A m \in Parents : f[m] = RemovalBy(f, m, v)) /\ (\A m : Removal(m, v) = f[m])
    BY RemovalIs
  <1>1. f[n] = RemovalBy(f, n, v) /\ \A m : Removal(m, v) = f[m]
    OBVIOUS
  <1>2. RemovalBy(f, n, v) = [f[n.kids[i]] EXCEPT !.node = PutKid(n, i, f[n.kids[i]].node)]
    BY Zenon DEF RemovalBy, PutKid
  <1>3. x = f[n.kids[i]]
    BY <1>1
  <1> QED
    BY <1>1, <1>2, <1>3, Zenon

\* removeHelper at the parent of the leaf with the key.
LEMMA RemovedLowest ==
  ASSUME IsOrder(order), 1 \in 0..MaxKeys, NEW m \in Sound(order, 1, 1), Sorted(KeysOf(m)),
         NEW v \in Keys, Has(KeysOf(m), v)
  PROVE  IsRemoved(1, m, v, Removal(m, v))
  <1>1. PICK i, pre, post : IsLowest(m, v, i, pre, post)
    BY LowestIs
  <1> DEFINE p == WithLeaf(m, i, RemoveFirst(m.kids[i].keys, v))
             now == Repaired(p, i)
             r == Removal(m, v)
  <1>2. /\ IsDamaged(p, i) /\ p.keys = m.keys /\ Len(p.kids) = Len(m.kids)
        /\ KS(p.kids) = RemoveFirst(KeysOf(m), v)
    BY <1>1, DamagedIs
  <1>3. /\ m \in Nodes /\ ~IsLeaf(m) /\ m.keys \in Seq(Keys)
        /\ Len(m.keys) \in 1..(order - 1) /\ Len(m.kids) = Len(m.keys) + 1
        /\ m.kids \in Seq(Leafs) /\ IsChild(m, v, i, pre, post)
        /\ Len(Leaves[m]) = Len(m.kids) /\ LeafFor(m, v).at = i
    BY <1>1 DEF IsLowest
  <1>4. i \in 1..Len(m.kids) /\ i = findChild(m, v)
    BY <1>3, Zenon DEF IsChild
  <1>5. IsLeaf(m.kids[i])
    <2>1. m.kids[i] \in Leafs
      BY <1>3, <1>4
    <2> QED
      BY <2>1 DEF Leafs
  <1>6. r = [node |-> now, merges |-> Merges(p, i), before |-> i > 1,
             short |-> Merges(p, i) /\ Len(now.keys) < getMinNodes]
    <2>1. m \in Parents /\ v \in Int
      BY <1>3, BoundIsNat DEF Parents
    <2> QED
      BY <1>4, <1>5, <2>1, RemovalStep
  <1> HIDE DEF p
  <1>7. IsMended(p, i, now)
    BY <1>2, RepairedMended
  <1> HIDE DEF now, r
  <1>8. /\ r.node = now /\ (r.merges <=> Merges(p, i)) /\ (r.before <=> i > 1)
        /\ (r.short <=> Merges(p, i) /\ Len(now.keys) < MinOf(order))
        /\ r = [node |-> r.node, merges |-> r.merges, before |-> r.before, short |-> r.short]
    <2>1. r.node = now /\ r = [node |-> r.node, merges |-> r.merges, before |-> r.before, short |-> r.short]
      BY <1>6
    <2>2. r.merges <=> Merges(p, i)
      BY <1>6
    <2>3. r.before <=> i > 1
      BY <1>6
    <2>4. r.short <=> Merges(p, i) /\ Len(now.keys) < MinOf(order)
      BY <1>6, MinNodesIs
    <2> QED
      BY <2>1, <2>2, <2>3, <2>4
  <1>9. /\ now = Node(now.keys, now.kids) /\ now.keys \in Seq(Keys)
        /\ Len(now.keys) = Len(m.keys) - (IF r.merges THEN 1 ELSE 0)
        /\ now.kids \in Seq(FitLeafs) /\ Len(now.kids) = Len(now.keys) + 1
        /\ KS(now.kids) = RemoveFirst(KeysOf(m), v)
    BY <1>2, <1>7, <1>8 DEF IsMended, IsRow
  <1> DEFINE h == 1
  <1>10. h \in 1..MaxKeys /\ h \in 0..MaxKeys /\ h - 1 = 0
    BY BoundIsNat
  <1>11. now \in Tiers(order, 0)[h] /\ now \in Nodes /\ ~IsLeaf(now) /\ now \in Trees[h + 1]
    <2>1. now.kids \in Seq(Fit(order, Tiers(order, 0)[h - 1]))
      BY <1>9 DEF FitLeafs
    <2> HIDE DEF h
    <2> DEFINE kk == now.keys
               cc == now.kids
    <2>4. h \in 1..MaxKeys /\ kk \in Seq(Keys) /\ cc \in Seq(Fit(order, Tiers(order, 0)[h - 1])) /\ Len(cc) = Len(kk) + 1
      BY <1>9, <1>10, <2>1
    <2> HIDE DEF kk, cc
    <2>5. Node(kk, cc) \in Tiers(order, 0)[h] /\ Node(kk, cc) \in Nodes /\ ~IsLeaf(Node(kk, cc))
      <3>1. 0 = 1 => Separated(Node(kk, cc))
        OBVIOUS
      <3> QED
        BY ONLY <2>4, <3>1, ParentTier
    <2>2. /\ Node(now.keys, now.kids) \in Tiers(order, 0)[h] /\ Node(now.keys, now.kids) \in Nodes
          /\ ~IsLeaf(Node(now.keys, now.kids))
      BY <2>5 DEF kk, cc
    <2>3. Tiers(order, 0)[h] \subseteq Trees[h + 1]
      BY <1>10, TiersAreNodes
    <2> QED
      BY <1>9, <2>2, <2>3
  <1>12. KeysOf(now) = RemoveFirst(KeysOf(m), v)
    BY <1>9, <1>11, KeysOfStep
  <1>13. Len(Leaves[now]) = Len(now.kids)
    <2>1. Leaves[now] = LS(now.kids)
      BY <1>11, LeavesStep
    <2>2. now.kids \in Seq(Leafs)
      BY <1>9, FitLeafsAre, SeqMonotonic
    <2> QED
      BY <2>1, <2>2, LeafRows
  <1>14. /\ Len(Leaves[now]) = Len(Leaves[m]) - (IF r.merges THEN 1 ELSE 0)
         /\ Len(now.keys) \in 0..Len(m.keys)
         /\ ~r.merges => Len(now.keys) = Len(m.keys)
    <2>1. Len(m.keys) \in Nat /\ Len(m.keys) >= 1
      BY <1>3
    <2>2. CASE r.merges
      <3>1. Len(now.keys) = Len(m.keys) - 1
        BY <1>9, <2>2
      <3> QED
        BY <1>3, <1>9, <1>13, <2>1, <2>2, <3>1
    <2>3. CASE ~r.merges
      <3>1. Len(now.keys) = Len(m.keys)
        BY <1>9, <2>1, <2>3
      <3> QED
        BY <1>3, <1>9, <1>13, <2>1, <2>3, <3>1
    <2> QED
      BY <2>2, <2>3
  <1>15. MergePlace(m, v, r) \in 1..(Len(Leaves[m]) - 1)
    <2>1. Len(m.keys) \in Nat /\ Len(m.keys) >= 1
      BY <1>3
    <2>2. CASE i > 1
      BY <1>3, <1>4, <1>8, <2>1, <2>2 DEF MergePlace
    <2>3. CASE ~(i > 1)
      BY <1>3, <1>4, <1>8, <2>1, <2>3 DEF MergePlace
    <2> QED
      BY <2>2, <2>3
  <1>16. ~r.short /\ Len(m.keys) >= MinOf(order) => Len(now.keys) >= MinOf(order)
    <2> HAVE ~r.short /\ Len(m.keys) >= MinOf(order)
    <2>1. MinOf(order) \in Int /\ Len(now.keys) \in Int
      BY <1>9, MinIs
    <2>2. CASE r.merges
      BY <1>8, <2>1, <2>2
    <2>3. CASE ~r.merges
      BY <1>14, <2>3
    <2> QED
      BY <2>2, <2>3
  <1>17. IsRemoved(1, m, v, r)
    BY <1>8, <1>11, <1>12, <1>14, <1>15, <1>16 DEF IsRemoved
  <1> QED
    BY <1>17 DEF r

\* A child of a node is replaced.
LEMMA KidPut ==
  ASSUME NEW k, NEW c, NEW i, NEW x
  PROVE  PutKid(Node(k, c), i, x) = Node(k, [c EXCEPT ![i] = x])
  BY DEF Node, PutKid

\* Node n of at most h + 1 levels is m with x for child i, between pre and post.
IsPut(h, m, i, x, pre, post, n) ==
    /\ n \in Trees[h + 1] /\ n \in Nodes /\ ~IsLeaf(n) /\ n.keys = m.keys
    /\ n.kids = [m.kids EXCEPT ![i] = x]
    /\ Leaves[n] = Cat(Cat(LS(pre), Leaves[x]), LS(post))
    /\ KeysOf(n) = Cat(Cat(KS(pre), KeysOf(x)), KS(post))

\* Child i of a node of at most h + 1 levels is replaced.
LEMMA KidReplaced ==
  ASSUME NEW h \in 1..MaxKeys, NEW m \in Trees[h + 1], ~IsLeaf(m), NEW i \in 1..Len(m.kids),
         NEW pre, NEW post, pre = SubSeq(m.kids, 1, i - 1), post = SubSeq(m.kids, i + 1, Len(m.kids)),
         NEW x \in Trees[h]
  PROVE  IsPut(h, m, i, x, pre, post, PutKid(m, i, x))
  <1> DEFINE T == Trees[h]
             k == m.keys
             c == m.kids
             d == [c EXCEPT ![i] = x]
             n == PutKid(m, i, x)
  <1>1. h \in 0..MaxKeys /\ h \in Levels /\ h + 1 \in 1..(MaxKeys + 1) /\ (h + 1) - 1 = h /\ h + 1 \in Levels
    BY BoundIsNat DEF Levels
  <1>2. m \in Over(T) /\ m \in Nodes
    BY <1>1, TreeIs
  <1>3. k \in Seq(Keys) /\ c \in Seq(T) /\ m = Node(k, c) /\ Len(c) = Len(k) + 1
    BY <1>2, OverIs
  <1>4. T \subseteq Nodes
    BY <1>1, NodesAre
  <1>5. n = Node(k, d)
    <2>1. PutKid(Node(k, c), i, x) = Node(k, d)
      <3> HIDE DEF k, c
      <3> QED
        BY KidPut
    <2>2. n = PutKid(m, i, x)
      OBVIOUS
    <2> QED
      BY <1>3, <2>1, <2>2, Zenon
  <1>6. d \in Seq(T) /\ Len(d) = Len(c)
    <2>1. x \in T /\ i \in 1..Len(c)
      OBVIOUS
    <2> HIDE DEF c, T
    <2> QED
      BY <1>3, <2>1
  <1>7. Node(k, d) \in Over(T)
    <2> HIDE DEF k, d, c, T
    <2> QED
      BY <1>3, <1>6, OverHas
  <1>8. Trees[h + 1] = Over(T)
    <2> DEFINE g == h + 1
    <2>1. g \in 1..(MaxKeys + 1) /\ g - 1 = h
      BY <1>1
    <2> HIDE DEF g
    <2>2. Trees[g] = Over(Trees[g - 1])
      BY <2>1, TreesAre
    <2> QED
      BY <2>1, <2>2 DEF g
  <1>9. n \in Trees[h + 1] /\ n \in Nodes
    <2>1. n \in Trees[h + 1]
      BY <1>5, <1>7, <1>8, Zenon
    <2> QED
      BY <1>1, <2>1, NodesAre
  <1>10. d = Cat(Cat(pre, One(x)), post) /\ pre \in Seq(T) /\ post \in Seq(T)
    <2> HIDE DEF T
    <2>0. c \in Seq(T) /\ i \in 1..Len(c) /\ i \in Nat /\ x \in T
      <3>1. i \in Nat
        OBVIOUS
      <3> QED
        BY <1>3, <3>1 DEF T
    <2>1. PICK a, b \in Seq(T) : /\ IsCut(c, a, One(c[i]), b, i)
                                 /\ a = SubSeq(c, 1, i - 1) /\ b = SubSeq(c, i + 1, Len(c))
      <3> HIDE DEF c
      <3>1. \E a, b \in Seq(T) : /\ IsCut(c, a, One(c[i]), b, i) /\ Len(b) = Len(c) - i
                                 /\ a = SubSeq(c, 1, i - 1) /\ b = SubSeq(c, i + 1, Len(c))
        BY <2>0, CutOne, Zenon
      <3> QED
        BY <3>1, Zenon
    <2>2. a = pre /\ b = post
      BY <2>1
    <2> DEFINE y == c[i]
    <2>3. y \in T
      BY <2>0
    <2>4. IsCut(c, a, One(y), b, i)
      BY <2>1
    <2> HIDE DEF y, c
    <2>5. IsCut([c EXCEPT ![i] = x], a, One(x), b, i)
      BY <2>0, <2>3, <2>4, PutOne
    <2> QED
      BY <2>2, <2>5, Zenon DEF IsCut
  <1> HIDE DEF d, n
  <1>11. n.keys = k /\ n.kids = d
    BY <1>5 DEF Node
  <1>12. ~IsLeaf(n)
    <2>1. Len(d) # 0
      BY <1>3, <1>6
    <2> QED
      BY <1>11, <2>1 DEF IsLeaf
  <1>13. pre \in Seq(Nodes) /\ post \in Seq(Nodes) /\ x \in Nodes
    BY <1>4, <1>10, SeqMonotonic
  <1>14. One(x) \in Seq(Nodes) /\ LS(One(x)) = Leaves[x] /\ KS(One(x)) = KeysOf(x)
    BY <1>13, OneIs, LSOne, KSOne
  <1>15. LS(d) = Cat(Cat(LS(pre), Leaves[x]), LS(post)) /\ KS(d) = Cat(Cat(KS(pre), KeysOf(x)), KS(post))
    <2>1. /\ LS(Cat(Cat(pre, One(x)), post)) = Cat(Cat(LS(pre), LS(One(x))), LS(post))
          /\ KS(Cat(Cat(pre, One(x)), post)) = Cat(Cat(KS(pre), KS(One(x))), KS(post))
      BY ONLY <1>13, <1>14, BelowThree
    <2> QED
      BY <1>10, <1>14, <2>1
  <1>16. Leaves[n] = LS(d) /\ KeysOf(n) = KS(d)
    BY <1>9, <1>11, <1>12, LeavesStep, KeysOfStep
  <1>17. n.keys = m.keys /\ n.kids = [m.kids EXCEPT ![i] = x]
    BY <1>11 DEF d
  <1>18. IsPut(h, m, i, x, pre, post, n)
    BY <1>9, <1>12, <1>15, <1>16, <1>17 DEF IsPut
  <1> QED
    BY <1>18 DEF n

\* A tree with separators is a tree.
LEMMA TiersLoose ==
  ASSUME NEW o
  PROVE  \A h \in 0..MaxKeys : Tiers(o, 1)[h] \subseteq Tiers(o, 0)[h]
  <1> DEFINE G == {h \in Nat : h <= MaxKeys => Tiers(o, 1)[h] \subseteq Tiers(o, 0)[h]}
  <1>1. 0 \in G
    BY TiersAre
  <1>2. ASSUME NEW h \in Nat, h \in G PROVE h + 1 \in G
    <2> SUFFICES ASSUME h + 1 <= MaxKeys PROVE Tiers(o, 1)[h + 1] \subseteq Tiers(o, 0)[h + 1]
      OBVIOUS
    <2> DEFINE g == h + 1
    <2>1. g \in 1..MaxKeys /\ g \in 0..MaxKeys /\ g # 0 /\ g - 1 = h /\ h <= MaxKeys
      BY BoundIsNat
    <2> HIDE DEF g
    <2>2. Tiers(o, 1)[g - 1] \subseteq Tiers(o, 0)[g - 1]
      BY <1>2, <2>1
    <2>3. Fit(o, Tiers(o, 1)[g - 1]) \subseteq Fit(o, Tiers(o, 0)[g - 1])
      BY <2>2 DEF Fit
    <2> DEFINE T == Fit(o, Tiers(o, 1)[g - 1])
               U == Fit(o, Tiers(o, 0)[g - 1])
    <2>4. Tiers(o, 1)[g] = Above(o, 1, Tiers(o, 1)[g - 1]) /\ Tiers(o, 0)[g] = Above(o, 0, Tiers(o, 0)[g - 1])
      BY <2>1, TiersAre
    <2>5. Over(T) \subseteq Over(U)
      <3>1. T \subseteq U
        BY <2>3
      <3> HIDE DEF T, U
      <3> QED
        BY <3>1, OverGrows
    <2>6. Tiers(o, 1)[g] \subseteq Tiers(o, 0)[g]
      BY <2>4, <2>5 DEF Above
    <2> QED
      BY <2>6 DEF g
  <1>3. Nat \subseteq G
    <2> HIDE DEF G
    <2> QED
      BY <1>1, <1>2, SetInduction
  <1> QED
    BY <1>3, BoundIsNat

\* The child on the way to a key that is below the node.
IsKid(h, m, v, i, pre, post, kid) ==
    /\ i \in 1..Len(m.kids) /\ i = findChild(m, v) /\ kid = m.kids[i]
    /\ pre \in Seq(Nodes) /\ post \in Seq(Nodes)
    /\ pre = SubSeq(m.kids, 1, i - 1) /\ post = SubSeq(m.kids, i + 1, Len(m.kids))
    /\ Leaves[m] = Cat(Cat(LS(pre), Leaves[kid]), LS(post))
    /\ KeysOf(m) = Cat(Cat(KS(pre), KeysOf(kid)), KS(post))
    /\ kid \in Nodes /\ kid \in Sound(order, 1, h - 1) /\ kid \in Fit(order, Tiers(order, 1)[h - 1])
    /\ Len(kid.keys) >= MinOf(order)
    /\ KeysOf(kid) \in Seq(Keys) /\ Sorted(KeysOf(kid)) /\ Has(KeysOf(kid), v)

\* The child on the way to a key that is below the node.
LEMMA KidIs ==
  ASSUME IsOrder(order), NEW h \in 0..MaxKeys, h # 0, NEW m \in Sound(order, 1, h), Sorted(KeysOf(m)),
         NEW v \in Keys, Has(KeysOf(m), v)
  PROVE  \E i, pre, post, kid : IsKid(h, m, v, i, pre, post, kid)
  <1>0. v \in Int
    BY BoundIsNat
  <1>1. /\ m \in Tiers(order, 1)[h] /\ m \in Nodes
        /\ \A i \in 1..Len(m.kids) :
              /\ m.kids[i] \in Nodes /\ m.kids[i] \in Fit(order, Tiers(order, 1)[h - 1])
              /\ m.kids[i] \in Sound(order, 1, h - 1) /\ Filled(m.kids[i])
              /\ Len(m.kids[i].keys) >= MinOf(order)
    BY SoundParent
  <1>2. PICK i, pre, post : IsChild(m, v, i, pre, post)
    BY <1>0, <1>1, AChild
  <1> DEFINE kid == m.kids[i]
  <1>3. /\ i \in 1..Len(m.kids) /\ i = findChild(m, v)
        /\ pre \in Seq(Nodes) /\ post \in Seq(Nodes)
        /\ pre = SubSeq(m.kids, 1, i - 1) /\ post = SubSeq(m.kids, i + 1, Len(m.kids))
        /\ Leaves[m] = Cat(Cat(LS(pre), Leaves[kid]), LS(post))
        /\ KeysOf(m) = Cat(Cat(KS(pre), KeysOf(kid)), KS(post))
        /\ Sorted(KeysOf(kid)) /\ InOrder(KS(pre), KeysOf(kid))
        /\ Upto(KS(pre), v) /\ Beyond(KS(post), v)
        /\ i # 1 => FirstKey(kid) <= v
        /\ i = 1 => KS(pre) = <<>>
    BY <1>2, Zenon DEF IsChild
  <1>4. /\ kid \in Nodes /\ kid \in Fit(order, Tiers(order, 1)[h - 1])
        /\ kid \in Sound(order, 1, h - 1) /\ Filled(kid) /\ Len(kid.keys) >= MinOf(order)
    BY <1>1, <1>3
  <1>k. kid = m.kids[i]
    OBVIOUS
  <1> HIDE DEF kid
  <1>5. KeysOf(kid) \in Seq(Keys) /\ KeysOf(kid) # <<>> /\ FirstKey(kid) = Head(KeysOf(kid))
    BY <1>4, FirstKeyIs
  <1>6. Has(KeysOf(kid), v)
    <2>1. KS(pre) \in Seq(Keys) /\ KS(post) \in Seq(Keys)
      BY <1>3, KSType
    <2> DEFINE x == KS(pre)
               y == KS(post)
               s == KeysOf(kid)
    <2>2. /\ x \in Seq(Keys) /\ s \in Seq(Keys) /\ y \in Seq(Keys) /\ v \in Int
          /\ Sorted(s) /\ InOrder(x, s) /\ Upto(x, v) /\ Beyond(y, v)
          /\ (x = <<>> \/ (s # <<>> /\ Head(s) <= v))
          /\ KeysOf(m) = Cat(Cat(x, s), y)
      <3>1. KS(pre) = <<>> \/ (KeysOf(kid) # <<>> /\ Head(KeysOf(kid)) <= v)
        BY <1>3, <1>5
      <3> QED
        BY <1>0, <1>3, <1>5, <2>1, <3>1
    <2> HIDE DEF x, y, s
    <2>3. Has(Cat(Cat(x, s), y), v) <=> Has(s, v)
      BY <2>2, HasInKid
    <2> QED
      BY <2>2, <2>3 DEF s
  <1>7. IsKid(h, m, v, i, pre, post, kid)
    BY <1>3, <1>4, <1>5, <1>6, <1>k DEF IsKid
  <1> QED
    BY <1>7

\* The shape of a parent one of whose children is replaced by a fit one.
LEMMA TierReplaced ==
  ASSUME NEW h \in 1..MaxKeys, NEW m \in Tiers(order, 1)[h], m \in Nodes, NEW i \in 1..Len(m.kids),
         NEW x \in Fit(order, Tiers(order, 0)[h - 1]), m.keys \in Seq(Keys),
         m.kids \in Seq(Fit(order, Tiers(order, 1)[h - 1])), Len(m.kids) = Len(m.keys) + 1,
         NEW n, n = Node(m.keys, [m.kids EXCEPT ![i] = x])
  PROVE  n \in Tiers(order, 0)[h]
  <1> DEFINE k == m.keys
             c == m.kids
             T == Fit(order, Tiers(order, 0)[h - 1])
             d == [c EXCEPT ![i] = x]
  <1>1. h - 1 \in 0..MaxKeys
    BY BoundIsNat
  <1>2. Fit(order, Tiers(order, 1)[h - 1]) \subseteq T
    <2>1. Tiers(order, 1)[h - 1] \subseteq Tiers(order, 0)[h - 1]
      BY <1>1, TiersLoose
    <2> QED
      BY <2>1 DEF Fit
  <1>3. c \in Seq(T) /\ i \in 1..Len(c) /\ x \in T /\ Len(c) = Len(k) + 1 /\ k \in Seq(Keys)
    BY <1>2, SeqMonotonic
  <1>4. d \in Seq(T) /\ Len(d) = Len(k) + 1
    <2> HIDE DEF c, k, T
    <2> QED
      BY <1>3
  <1>5. 0 = 1 => Separated(Node(k, d))
    OBVIOUS
  <1>6. k \in Seq(Keys) /\ d \in Seq(Fit(order, Tiers(order, 0)[h - 1])) /\ h \in 1..MaxKeys /\ Len(d) = Len(k) + 1
    BY <1>3, <1>4
  <1>8. n = Node(k, d)
    OBVIOUS
  <1> HIDE DEF d, k
  <1>7. Node(k, d) \in Tiers(order, 0)[h]
    BY ONLY <1>5, <1>6, ParentTier
  <1> QED
    BY <1>7, <1>8

\* removeHelper above that parent, if it is right at the child on the way.
LEMMA RemovedHigher ==
  ASSUME IsOrder(order), NEW h \in 2..MaxKeys, NEW m \in Sound(order, 1, h), Sorted(KeysOf(m)),
         NEW v \in Keys, Has(KeysOf(m), v),
         \A n \in Sound(order, 1, h - 1) :
           Sorted(KeysOf(n)) /\ Has(KeysOf(n), v) => IsRemoved(h - 1, n, v, Removal(n, v))
  PROVE  IsRemoved(h, m, v, Removal(m, v))
  <1>0. /\ v \in Int /\ h \in 0..MaxKeys /\ h # 0 /\ h \in 1..MaxKeys /\ h # 1
        /\ h - 1 \in 0..MaxKeys /\ h - 1 # 0 /\ (h - 1) + 1 = h
    BY BoundIsNat
  <1>1. /\ m \in Tiers(order, 1)[h] /\ m \in Nodes /\ ~IsLeaf(m)
        /\ m.keys \in Seq(Keys) /\ m.kids \in Seq(Fit(order, Tiers(order, 1)[h - 1]))
        /\ Len(m.kids) = Len(m.keys) + 1 /\ Len(m.keys) \in Nat
    <2>1. m \in Tiers(order, 1)[h] /\ m \in Nodes /\ ~IsLeaf(m) /\ AreEntries(h - 1, m.keys, m.kids) /\ Len(m.keys) \in 1..(order - 1)
      BY <1>0, SoundParent
    <2>2. /\ m.keys \in Seq(Keys) /\ m.kids \in Seq(Fit(order, Tiers(order, 1)[h - 1]))
          /\ Len(m.kids) = Len(m.keys) + 1
      BY <2>1 DEF AreEntries
    <2> QED
      BY <2>1, <2>2
  <1>2. PICK i, pre, post, kid : IsKid(h, m, v, i, pre, post, kid)
    BY <1>0, KidIs
  <1>3. /\ i \in 1..Len(m.kids) /\ i = findChild(m, v) /\ kid = m.kids[i]
        /\ pre \in Seq(Nodes) /\ post \in Seq(Nodes)
        /\ pre = SubSeq(m.kids, 1, i - 1) /\ post = SubSeq(m.kids, i + 1, Len(m.kids))
        /\ Leaves[m] = Cat(Cat(LS(pre), Leaves[kid]), LS(post))
        /\ KeysOf(m) = Cat(Cat(KS(pre), KeysOf(kid)), KS(post))
        /\ kid \in Nodes /\ kid \in Sound(order, 1, h - 1) /\ kid \in Fit(order, Tiers(order, 1)[h - 1])
        /\ Len(kid.keys) >= MinOf(order)
        /\ KeysOf(kid) \in Seq(Keys) /\ Sorted(KeysOf(kid)) /\ Has(KeysOf(kid), v)
    BY <1>2 DEF IsKid
  <1> DEFINE q == Removal(kid, v)
             r == Removal(m, v)
             n == PutKid(m, i, q.node)
  <1>4. ~IsLeaf(kid) /\ kid \in Tiers(order, 1)[h - 1] /\ Len(kid.keys) \in Nat /\ Len(kid.keys) <= order - 1
    <2>1. kid \in Tiers(order, 1)[h - 1] /\ Len(kid.keys) \in MinOf(order)..(order - 1) /\ kid.keys \in Seq(Keys)
      BY <1>0, <1>3, FitIs
    <2>2. ~IsLeaf(kid)
      <3> DEFINE g == h - 1
      <3>1. g \in 0..MaxKeys /\ g # 0 /\ kid \in Tiers(order, 1)[g]
        BY <1>0, <2>1
      <3> HIDE DEF g
      <3> QED
        BY <3>1, TierIs
    <2> QED
      BY <2>1, <2>2, MinIs DEF IsOrder
  <1>5. IsRemoved(h - 1, kid, v, q)
    BY <1>3
  <1>6. r = [q EXCEPT !.node = n]
    <2>1. m \in Parents
      BY <1>1 DEF Parents
    <2>2. q = Removal(m.kids[i], v) /\ ~IsLeaf(m.kids[i]) /\ i = findChild(m, v)
      BY <1>3, <1>4
    <2> HIDE DEF q
    <2>3. Removal(m, v) = [q EXCEPT !.node = PutKid(m, i, q.node)]
      BY ONLY <1>0, <2>1, <2>2, RemovalAbove
    <2> QED
      BY <2>3, Zenon
  <1> HIDE DEF q, r
  <1>7. /\ q = [node |-> q.node, merges |-> q.merges, before |-> q.before, short |-> q.short]
        /\ q.node \in Trees[h] /\ q.node \in Nodes /\ ~IsLeaf(q.node)
        /\ KeysOf(q.node) = RemoveFirst(KeysOf(kid), v)
        /\ Len(Leaves[q.node]) = Len(Leaves[kid]) - (IF q.merges THEN 1 ELSE 0)
        /\ q.merges => MergePlace(kid, v, q) \in 1..(Len(Leaves[kid]) - 1)
        /\ ~q.short => q.node \in Tiers(order, 0)[h - 1]
        /\ Len(q.node.keys) \in 0..Len(kid.keys)
        /\ ~q.short => Len(q.node.keys) >= MinOf(order)
    BY <1>0, <1>3, <1>5 DEF IsRemoved
  <1>8. m \in Trees[h + 1]
    BY <1>0, <1>1, TiersAreNodes
  <1> DEFINE x == q.node
  <1>9. /\ n \in Trees[h + 1] /\ n \in Nodes /\ ~IsLeaf(n) /\ n.keys = m.keys
        /\ n.kids = [m.kids EXCEPT ![i] = x]
        /\ Leaves[n] = Cat(Cat(LS(pre), Leaves[x]), LS(post))
        /\ KeysOf(n) = Cat(Cat(KS(pre), KeysOf(x)), KS(post))
    <2>1. q.node \in Trees[h] /\ h \in 1..MaxKeys /\ i \in 1..Len(m.kids)
      BY <1>0, <1>3, <1>7
    <2> DEFINE y == q.node
    <2> HIDE DEF y
    <2>2. y \in Trees[h]
      BY <2>1 DEF y
    <2>3. IsPut(h, m, i, y, pre, post, PutKid(m, i, y))
      BY ONLY KidReplaced, <2>2, <2>1, <1>1, <1>3, <1>8, TreeAssumption
    <2> QED
      BY <2>3, Zenon DEF y, IsPut
  <1> HIDE DEF n
  <1>10. /\ r.node = n /\ r.merges = q.merges /\ r.before = q.before /\ r.short = q.short
         /\ r = [node |-> r.node, merges |-> r.merges, before |-> r.before, short |-> r.short]
    BY <1>6, <1>7
  <1>11. KeysOf(n) = RemoveFirst(KeysOf(m), v)
    <2>1. KS(pre) \in Seq(Keys) /\ KS(post) \in Seq(Keys)
      BY <1>3, KSType
    <2> DEFINE a == KS(pre)
               b == KS(post)
               s == KeysOf(kid)
    <2>2. a \in Seq(Keys) /\ b \in Seq(Keys) /\ s \in Seq(Keys) /\ Sorted(Cat(Cat(a, s), b)) /\ \E j \in 1..Len(s) : s[j] = v
      BY <1>3, <2>1 DEF Has
    <2> HIDE DEF a, b, s
    <2>3. RemoveFirst(Cat(Cat(a, s), b), v) = Cat(Cat(a, RemoveFirst(s, v)), b)
      BY <2>2, RemovedBetween
    <2> QED
      BY <1>3, <1>7, <1>9, <2>3 DEF a, b, s
  <1> DEFINE lp == Len(LS(pre))
             lq == Len(LS(post))
             lk == Len(Leaves[kid])
             lx == Len(Leaves[x])
             lm == Len(Leaves[m])
             ln == Len(Leaves[n])
             e == IF r.merges THEN 1 ELSE 0
  <1>12. lp \in Nat /\ lq \in Nat /\ lk \in Nat /\ lm = (lp + lk) + lq /\ ln = (lp + lx) + lq /\ lx = lk - e /\ e \in Int
    <2>1. LS(pre) \in Seq(Seq(Keys)) /\ LS(post) \in Seq(Seq(Keys))
      BY <1>3, LSIs
    <2>2. Leaves[kid] \in Seq(Seq(Keys)) /\ Leaves[x] \in Seq(Seq(Keys))
      BY <1>3, <1>7, LeavesType DEF Rows
    <2>3. Len(Cat(Cat(LS(pre), Leaves[kid]), LS(post))) = (Len(LS(pre)) + Len(Leaves[kid])) + Len(LS(post))
      BY ONLY <2>1, <2>2, ThreeLong
    <2>4. Len(Cat(Cat(LS(pre), Leaves[x]), LS(post))) = (Len(LS(pre)) + Len(Leaves[x])) + Len(LS(post))
      BY ONLY <2>1, <2>2, ThreeLong
    <2>5. Len(LS(pre)) \in Nat /\ Len(LS(post)) \in Nat /\ Len(Leaves[kid]) \in Nat
      BY <2>1, <2>2
    <2>6. lx = lk - e
      BY <1>7, <1>10
    <2>7. lm = (lp + lk) + lq
      BY <1>3, <2>3
    <2>8. ln = (lp + lx) + lq
      BY <1>9, <2>4
    <2>9. lp \in Nat /\ lq \in Nat /\ lk \in Nat
      BY <2>5
    <2>10. e \in Int
      OBVIOUS
    <2> HIDE DEF lp, lq, lk, lx, lm, ln, e
    <2> QED
      BY <2>6, <2>7, <2>8, <2>9, <2>10
  <1>13. LeafFor(m, v).at = lp + LeafFor(kid, v).at /\ LeafFor(kid, v).at \in Int
    <2> DEFINE t == LeafFor(kid, v)
    <2>1. IsFound(kid, v, t)
      <3>1. h - 1 \in 0..MaxKeys
        BY <1>0
      <3> QED
        BY <1>0, <1>3, <1>4, <3>1, LeafIsFound
    <2>2. t = [leaf |-> t.leaf, at |-> t.at] /\ t.at \in 1..Len(Leaves[kid])
      BY <2>1 DEF IsFound
    <2>3. LeafFor(kid, v) = t
      OBVIOUS
    <2> HIDE DEF t
    <2>4. LeafFor(m, v).at = LeavesBefore(m, findChild(m, v)) + t.at
      <3>1. kid = m.kids[findChild(m, v)]
        BY <1>3
      <3> QED
        BY ONLY <1>0, <1>1, <2>2, <2>3, <3>1, SplitsBelow
    <2>5. LeavesBefore(m, i) = lp
      BY <1>1, <1>3, LeavesBeforeIs
    <2> QED
      BY <1>3, <2>2, <2>3, <2>4, <2>5
  <1>14. r.merges => MergePlace(m, v, r) \in 1..(lm - 1)
    <2> HAVE r.merges
    <2> DEFINE p == MergePlace(kid, v, q)
    <2>1. p \in 1..(lk - 1)
      BY <1>7, <1>10
    <2>2. MergePlace(m, v, r) = lp + p
      <3> DEFINE a == LeafFor(kid, v).at
      <3>1. LeafFor(m, v).at = lp + a /\ a \in Int
        BY <1>13
      <3> HIDE DEF a, lp
      <3>2. MergePlace(m, v, r) = IF q.before THEN (lp + a) - 1 ELSE lp + a
        BY <1>10, <3>1, Zenon DEF MergePlace
      <3>3. p = IF q.before THEN a - 1 ELSE a
        BY Zenon DEF MergePlace, a
      <3> QED
        BY <1>12, <3>1, <3>2, <3>3
    <2> HIDE DEF p, lp, lk, lm, lq
    <2> QED
      BY <1>12, <2>1, <2>2
  <1>15. ln = lm - e
    <2> HIDE DEF lp, lq, lk, lx, lm, ln, e
    <2> QED
      BY <1>12
  <1>16. ~r.short => n \in Tiers(order, 0)[h]
    <2> HAVE ~r.short
    <2>1. x \in Tiers(order, 0)[h - 1] /\ Len(x.keys) >= MinOf(order)
      BY <1>7, <1>10
    <2>2. Len(x.keys) \in MinOf(order)..(order - 1)
      <3>1. MinOf(order) \in Int /\ order \in Int
        BY MinIs DEF IsOrder
      <3>2. \A a \in 0..Len(kid.keys) : a >= MinOf(order) => a \in MinOf(order)..(order - 1)
        BY <1>4, <3>1
      <3> QED
        BY <1>7, <2>1, <3>2
    <2>3. x \in Fit(order, Tiers(order, 0)[h - 1])
      BY <2>1, <2>2 DEF Fit
    <2>4. n = Node(m.keys, [m.kids EXCEPT ![i] = x])
      <3>1. n = Node(n.keys, n.kids)
        BY <1>9, NodeIs
      <3> QED
        BY <1>9, <3>1
    <2> HIDE DEF x
    <2> QED
      BY <1>0, <1>1, <1>3, <2>3, <2>4, TierReplaced
  <1>17. IsRemoved(h, m, v, r)
    <2>1. Len(n.keys) \in 0..Len(m.keys) /\ Len(n.keys) = Len(m.keys)
      BY <1>1, <1>9
    <2>2. Len(Leaves[n]) = Len(Leaves[m]) - (IF r.merges THEN 1 ELSE 0)
      BY <1>15
    <2>3. r.merges => MergePlace(m, v, r) \in 1..(Len(Leaves[m]) - 1)
      BY <1>14
    <2> QED
      BY <1>0, <1>9, <1>10, <1>11, <1>16, <2>1, <2>2, <2>3 DEF IsRemoved
  <1> QED
    BY <1>17 DEF r

\* removeHelper is right at every tree, of any height.
LEMMA RemovalHolds ==
  ASSUME IsOrder(order), NEW v \in Keys
  PROVE  \A h \in 1..MaxKeys : \A m \in Sound(order, 1, h) :
           Sorted(KeysOf(m)) /\ Has(KeysOf(m), v) => IsRemoved(h, m, v, Removal(m, v))
  <1> DEFINE Holds(h) == \A m \in Sound(order, 1, h) :
                           Sorted(KeysOf(m)) /\ Has(KeysOf(m), v) => IsRemoved(h, m, v, Removal(m, v))
             G == {h \in Nat : h + 1 <= MaxKeys => Holds(h + 1)}
  <1>1. 0 \in G
    <2>1. 1 <= MaxKeys => Holds(1)
      <3>1. 1 <= MaxKeys => 1 \in 0..MaxKeys
        BY BoundIsNat
      <3> QED
        BY <3>1, RemovedLowest
    <2>2. 0 + 1 = 1
      OBVIOUS
    <2> HIDE DEF Holds
    <2> QED
      BY <2>1, <2>2
  <1>2. \A h \in Nat : h \in G => h + 1 \in G
    <2> SUFFICES ASSUME NEW h \in Nat, h \in G, (h + 1) + 1 <= MaxKeys PROVE Holds((h + 1) + 1)
      OBVIOUS
    <2> DEFINE g == (h + 1) + 1
    <2>1. g \in 2..MaxKeys /\ g - 1 = h + 1 /\ h + 1 <= MaxKeys
      BY BoundIsNat
    <2>2. Holds(g - 1)
      BY <2>1
    <2> HIDE DEF g
    <2>3. Holds(g)
      <3> SUFFICES ASSUME NEW m \in Sound(order, 1, g), Sorted(KeysOf(m)), Has(KeysOf(m), v)
                   PROVE  IsRemoved(g, m, v, Removal(m, v))
        OBVIOUS
      <3> QED
        BY <2>1, <2>2, RemovedHigher
    <2> QED
      BY <2>3 DEF g
  <1> HIDE DEF Holds
  <1>3. Nat \subseteq G
    <2> HIDE DEF G
    <2> QED
      BY <1>1, <1>2, SetInduction
  <1>4. ASSUME NEW h \in 1..MaxKeys PROVE Holds(h)
    <2>1. h - 1 \in Nat /\ (h - 1) + 1 = h /\ h <= MaxKeys
      BY BoundIsNat
    <2> QED
      BY <1>3, <2>1
  <1> QED
    BY <1>4 DEF Holds

-----------------------------------------------------------------------------
(***************************************************************************)
(* remove: the rebuilt tree, the refreshed separators, and the whole call. *)
(***************************************************************************)

\* The empty tree is one of the class.
LEMMA EmptyIs ==
  ASSUME IsOrder(order)
  PROVE  IsGood(EmptyTree) /\ KeysOf(EmptyTree.root) = <<>>
  <1> DEFINE n == Leaf(<<>>)
  <1>1. n \in Tiers(order, 1)[0] /\ IsLeaf(n) /\ n.keys = <<>> /\ n \in Nodes
    <2>1. <<>> \in Seq(Keys)
      OBVIOUS
    <2> QED
      BY <2>1, LeafTier
  <1>2. EmptyTree.root = n /\ EmptyTree.next = <<Null>> /\ EmptyTree.prev = <<Null>>
        /\ EmptyTree = Tree(EmptyTree.root, EmptyTree.next, EmptyTree.prev)
    BY DEF EmptyTree, Tree
  <1> HIDE DEF n
  <1>3. KeysOf(n) = <<>> /\ Leaves[n] = One(<<>>) /\ Len(Leaves[n]) = 1
    <2>1. KeysOf(n) = <<>> /\ Leaves[n] = One(<<>>)
      BY <1>1, KeysOfStep, LeavesStep
    <2>2. Len(One(<<>>)) = 1
      BY DEF One
    <2> QED
      BY <2>1, <2>2
  <1>4. n \in Sound(order, 1, 0)
    BY <1>1 DEF Sound, IsOrder
  <1>5. Sorted(KeysOf(n))
    BY <1>3 DEF Sorted
  <1>6. Chained(EmptyTree, 1)
    <2>1. \A p \in 1..1 : p = 1
      OBVIOUS
    <2>2. <<Null>> \in Seq(Int) /\ Len(<<Null>>) = 1 /\ <<Null>>[1] = 0
      BY DEF Null
    <2> QED
      BY <1>2, <2>1, <2>2 DEF Chained, Onward, Null
  <1>7. 0 \in 0..MaxKeys
    BY BoundIsNat
  <1> DEFINE u == EmptyTree
  <1>8. u.root \in Sound(order, 1, 0) /\ Sorted(KeysOf(u.root)) /\ Chained(u, Len(Leaves[u.root])) /\ KeysOf(u.root) = <<>>
    BY <1>2, <1>3, <1>4, <1>5, <1>6
  <1> HIDE DEF u
  <1>9. IsGood(u)
    BY <1>7, <1>8 DEF IsGood
  <1> QED
    BY <1>8, <1>9 DEF u

BuiltBy(f, s, k) == IF k = 0 THEN EmptyTree ELSE add(f[k - 1], s[k])

\* The trees that rebuildTreeFromLeaves makes one after the other exist.
LEMMA BuiltExist ==
  ASSUME NEW s
  PROVE  \A top \in Nat : \E f : f = [k \in 0..top |-> BuiltBy(f, s, k)]
  <1> DEFINE S == {top \in Nat : \E f : f = [k \in 0..top |-> BuiltBy(f, s, k)]}
  <1>1. 0 \in S
    <2> DEFINE t == [d \in 0..0 |-> EmptyTree]
    <2>1. \A d \in 0..0 : d = 0
      OBVIOUS
    <2>2. t = [k \in 0..0 |-> BuiltBy(t, s, k)]
      BY <2>1 DEF BuiltBy
    <2> HIDE DEF t
    <2> QED
      BY <2>2
  <1>2. ASSUME NEW top \in Nat, top \in S PROVE top + 1 \in S
    <2>1. PICK t : t = [k \in 0..top |-> BuiltBy(t, s, k)]
      BY <1>2
    <2>2. \A d \in 0..top : t[d] = BuiltBy(t, s, d)
      BY <2>1, Zenon
    <2> DEFINE w == [d \in 0..(top + 1) |-> IF d \in 0..top THEN t[d] ELSE BuiltBy(t, s, d)]
    <2>3. ASSUME NEW d \in 0..(top + 1) PROVE w[d] = BuiltBy(w, s, d)
      <3>1. d = 0 \/ (d - 1 \in 0..top /\ d - 1 \in 0..(top + 1) /\ d # 0)
        OBVIOUS
      <3>2. d = 0 \/ w[d - 1] = t[d - 1]
        BY <3>1
      <3>3. w[d] = BuiltBy(t, s, d)
        BY <2>2
      <3> HIDE DEF w
      <3> QED
        BY <3>2, <3>3 DEF BuiltBy
    <2>4. w = [d \in 0..(top + 1) |-> w[d]]
      OBVIOUS
    <2> HIDE DEF w
    <2>5. w = [k \in 0..(top + 1) |-> BuiltBy(w, s, k)]
      BY <2>3, <2>4, Zenon
    <2> QED
      BY <2>5
  <1>3. Nat \subseteq S
    <2> HIDE DEF S
    <2> QED
      BY <1>1, <1>2, SetInduction
  <1> QED
    BY <1>3

\* rebuildTreeFromLeaves builds a tree of the class with the same keys.
LEMMA RebuildGood ==
  ASSUME IsOrder(order), NEW t, t.root \in Nodes, Sorted(KeysOf(t.root)), Len(KeysOf(t.root)) <= MaxKeys
  PROVE  IsGood(rebuildTreeFromLeaves(t)) /\ KeysOf(rebuildTreeFromLeaves(t).root) = KeysOf(t.root)
  <1> DEFINE s == KeysOf(t.root)
             n == Len(s)
             upTo[k \in 0..n] == IF k = 0 THEN EmptyTree ELSE add(upTo[k - 1], s[k])
  <1>1. s \in Seq(Keys) /\ Sorted(s) /\ n \in Nat /\ n <= MaxKeys
    BY KeysOfType
  <1>2. rebuildTreeFromLeaves(t) = upTo[n]
    BY Zenon DEF rebuildTreeFromLeaves, KeysOf, Flat
  <1>3. upTo = [k \in 0..n |-> BuiltBy(upTo, s, k)]
    <2> HIDE DEF s, n
    <2>1. \E f : f = [k \in 0..n |-> BuiltBy(f, s, k)]
      BY <1>1, BuiltExist
    <2> QED
      BY <2>1, Zenon DEF upTo, BuiltBy
  <1> HIDE DEF upTo
  <1>4. upTo[0] = EmptyTree /\ \A k \in 1..n : upTo[k] = add(upTo[k - 1], s[k])
    <2>1. \A k \in 0..n : upTo[k] = BuiltBy(upTo, s, k)
      BY <1>3, Zenon
    <2>2. 0 \in 0..n /\ \A k \in 1..n : k \in 0..n /\ k # 0
      BY <1>1
    <2> QED
      BY <2>1, <2>2, Zenon DEF BuiltBy
  <1>n. n = Len(s)
    OBVIOUS
  <1>s. s = KeysOf(t.root)
    OBVIOUS
  <1> HIDE DEF s, n
  <1> DEFINE G == {k \in Nat : k <= n => IsGood(upTo[k]) /\ KeysOf(upTo[k].root) = SubSeq(s, 1, k)}
  <1>5. 0 \in G
    <2>1. SubSeq(s, 1, 0) = <<>>
      BY <1>1
    <2> QED
      BY <1>4, <2>1, EmptyIs
  <1>6. ASSUME NEW k \in Nat, k \in G PROVE k + 1 \in G
    <2> SUFFICES ASSUME k + 1 <= n
                 PROVE  IsGood(upTo[k + 1]) /\ KeysOf(upTo[k + 1].root) = SubSeq(s, 1, k + 1)
      OBVIOUS
    <2> DEFINE g == k + 1
               u == upTo[k]
               v == s[g]
               a == SubSeq(s, 1, k)
    <2>1. g \in 1..n /\ g - 1 = k /\ k <= n /\ g \in 1..Len(s) /\ k < MaxKeys
      BY <1>1, <1>n, BoundIsNat
    <2>2. IsGood(u) /\ KeysOf(u.root) = a
      BY <1>6, <2>1
    <2>3. upTo[g] = add(u, v)
      BY <1>4, <2>1
    <2>4. v \in Keys /\ a \in Seq(Keys) /\ Len(a) = k /\ \A i \in 1..k : a[i] = s[i]
      <3>1. g \in 1..(Len(s) + 1)
        BY <2>1
      <3>2. v \in Keys
        BY <1>1, <2>1
      <3>3. SubSeq(s, 1, g - 1) \in Seq(Keys) /\ Len(SubSeq(s, 1, g - 1)) = g - 1
            /\ \A i \in 1..(g - 1) : SubSeq(s, 1, g - 1)[i] = s[i]
        BY <1>1, <3>1, CutAt
      <3> QED
        BY <2>1, <3>2, <3>3
    <2>5. Upto(a, v)
      <3> SUFFICES ASSUME NEW i \in 1..Len(a) PROVE a[i] <= v
        BY DEF Upto
      <3>1. i \in 1..Len(s) /\ i <= g /\ g \in 1..Len(s)
        BY <2>1, <2>4
      <3>2. s[i] <= s[g]
        BY <1>1, <3>1 DEF Sorted
      <3> QED
        BY <2>4, <3>2
    <2>6. Cat(a, One(v)) = SubSeq(s, 1, g)
      <3>1. \A i \in 1..Len(s) : s[i] \in Keys
        BY <1>1
      <3>2. SubSeq(s, 1, g) \in Seq(Keys) /\ Len(SubSeq(s, 1, g)) = g /\ \A i \in 1..g : SubSeq(s, 1, g)[i] = s[i]
        BY <1>1, <2>1
      <3>3. One(v) \in Seq(Keys) /\ Len(One(v)) = 1 /\ One(v)[1] = v
        BY <2>4, OneIs
      <3> HIDE DEF a, v
      <3>4. /\ Cat(a, One(v)) \in Seq(Keys) /\ Len(Cat(a, One(v))) = Len(a) + 1
            /\ \A i \in 1..Len(a) : Cat(a, One(v))[i] = a[i]
            /\ Cat(a, One(v))[Len(a) + 1] = v
        <4> DEFINE w == One(v)
        <4>1. w \in Seq(Keys) /\ a \in Seq(Keys) /\ 1 \in 1..Len(w) /\ Len(w) = 1 /\ w[1] = v
          BY <2>4, <3>3
        <4> HIDE DEF w
        <4>2. /\ Cat(a, w) \in Seq(Keys) /\ Len(Cat(a, w)) = Len(a) + Len(w)
              /\ \A i \in 1..Len(a) : Cat(a, w)[i] = a[i]
              /\ \A j \in 1..Len(w) : Cat(a, w)[Len(a) + j] = w[j]
          <5>1. Cat(a, w) \in Seq(Keys) /\ Len(Cat(a, w)) = Len(a) + Len(w)
            BY ONLY <4>1, CatType
          <5>2. \A i \in 1..Len(a) : Cat(a, w)[i] = a[i]
            BY ONLY <4>1, CatFirst
          <5>3. \A j \in 1..Len(w) : Cat(a, w)[Len(a) + j] = w[j]
            BY ONLY <4>1, CatSecond
          <5> QED
            BY <5>1, <5>2, <5>3
        <4>3. Cat(a, w)[Len(a) + 1] = v
          BY <4>1, <4>2
        <4> QED
          BY <4>1, <4>2, <4>3 DEF w
      <3> DEFINE x == Cat(a, One(v))
                 y == SubSeq(s, 1, g)
      <3>5. x \in Seq(Keys) /\ y \in Seq(Keys) /\ Len(x) = g /\ Len(y) = g
        BY <2>1, <2>4, <3>2, <3>4
      <3>6. ASSUME NEW i \in 1..g PROVE x[i] = y[i]
        <4>1. CASE i = g
          BY <2>1, <2>4, <3>2, <3>4, <4>1 DEF v
        <4>2. CASE i # g
          <5>1. i \in 1..k
            BY <2>1, <4>2
          <5> QED
            BY <2>4, <3>2, <3>4, <5>1
        <4> QED
          BY <4>1, <4>2
      <3> HIDE DEF x, y, g
      <3>7. x = y
        BY <3>5, <3>6
      <3> QED
        BY <3>7 DEF x, y
    <2> HIDE DEF g, u, v, a
    <2>7. Added(a, v) = Cat(a, One(v))
      BY <2>4, <2>5, AddedMost
    <2>8. Len(KeysOf(u.root)) < MaxKeys
      BY <2>1, <2>2, <2>4
    <2>9. IsGood(add(u, v)) /\ KeysOf(add(u, v).root) = Added(KeysOf(u.root), v)
      BY <2>2, <2>4, <2>8, AddGood
    <2>10. IsGood(upTo[g]) /\ KeysOf(upTo[g].root) = SubSeq(s, 1, g)
      BY <2>2, <2>3, <2>6, <2>7, <2>9
    <2> QED
      BY <2>10 DEF g
  <1>7. Nat \subseteq G
    <2> HIDE DEF G
    <2> QED
      BY <1>5, <1>6, SetInduction
  <1>8. n <= n
    BY <1>1
  <1>9. IsGood(upTo[n]) /\ KeysOf(upTo[n].root) = SubSeq(s, 1, n)
    BY <1>1, <1>7, <1>8
  <1>10. SubSeq(s, 1, n) = s
    BY <1>1, <1>n
  <1> QED
    BY <1>2, <1>9, <1>10, <1>s

IsRefreshed(h, n, r) ==
    /\ r \in Tiers(order, 1)[h] /\ r \in Nodes
    /\ Leaves[r] = Leaves[n] /\ Len(r.keys) = Len(n.keys)

\* refreshSeparators at a parent, if it is right at the children.
LEMMA RefreshedParent ==
  ASSUME IsOrder(order), NEW h \in 0..MaxKeys, h # 0, NEW n \in Tiers(order, 0)[h],
         \A m \in Tiers(order, 0)[h - 1] : IsRefreshed(h - 1, m, refreshSeparators[m])
  PROVE  IsRefreshed(h, n, refreshSeparators[n])
  <1> DEFINE c == n.kids
             k == Len(n.keys)
             K == [i \in 1..(Len(c) - 1) |-> FirstKey(c[i + 1])]
             C == [i \in DOMAIN c |-> refreshSeparators[c[i]]]
             F == Fit(order, Tiers(order, 1)[h - 1])
  <1>1. ParentHas(order, 0, h, n)
    BY ParentIs
  <1>2. /\ n \in Nodes /\ ~IsLeaf(n) /\ c \in Seq(Nodes) /\ Len(c) = k + 1 /\ k \in Nat /\ h - 1 \in 0..MaxKeys
        /\ \A i \in 1..Len(c) :
             /\ c[i] \in Nodes /\ c[i] \in Fit(order, Tiers(order, 0)[h - 1])
             /\ c[i] \in Tiers(order, 0)[h - 1] /\ Filled(c[i])
    BY <1>1 DEF ParentHas
  <1>3. refreshSeparators[n] = Node(K, C)
    BY <1>2, SeparatorsAre, Zenon DEF SeparatorsBy
  <1>4. h \in 1..MaxKeys
    BY BoundIsNat
  <1> HIDE DEF c, k, F
  <1>5. /\ DOMAIN c = 1..Len(c) /\ Len(c) \in Nat
        /\ C = [i \in 1..Len(c) |-> refreshSeparators[c[i]]]
    BY <1>2
  <1>6. ASSUME NEW i \in 1..Len(c)
        PROVE  /\ C[i] \in F /\ C[i] \in Nodes /\ Leaves[C[i]] = Leaves[c[i]]
               /\ FirstKey(C[i]) = FirstKey(c[i]) /\ FirstKey(c[i]) \in Keys
    <2> DEFINE x == c[i]
               r == refreshSeparators[x]
    <2>1. x \in Nodes /\ x \in Tiers(order, 0)[h - 1] /\ Filled(x) /\ x \in Fit(order, Tiers(order, 0)[h - 1])
      BY <1>2
    <2>2. C[i] = r
      BY <1>5
    <2>3. IsRefreshed(h - 1, x, r)
      BY <2>1
    <2> HIDE DEF x, r
    <2>4. r \in F
      BY <2>1, <2>3 DEF Fit, IsRefreshed, F
    <2>5. FirstKey(r) = FirstKey(x)
      BY <2>3 DEF FirstKey, IsRefreshed
    <2>6. FirstKey(x) \in Keys
      <3>1. KeysOf(x) \in Seq(Keys) /\ KeysOf(x) # <<>> /\ FirstKey(x) = Head(KeysOf(x))
        BY <2>1, FirstKeyIs
      <3> QED
        BY <3>1
    <2>7. r \in Nodes /\ Leaves[r] = Leaves[x]
      BY <2>3 DEF IsRefreshed
    <2>8. c[i] = x
      BY DEF x
    <2> HIDE DEF C
    <2> QED
      BY <2>2, <2>4, <2>5, <2>6, <2>7, <2>8
  <1>7. C \in Seq(F) /\ C \in Seq(Nodes) /\ Len(C) = Len(c)
    <2> DEFINE l == Len(c)
    <2>1. C \in [1..l -> F] /\ C \in [1..l -> Nodes] /\ l \in Nat
      BY <1>5, <1>6
    <2> HIDE DEF C, l
    <2>2. C \in Seq(F) /\ C \in Seq(Nodes) /\ Len(C) = l
      BY <2>1, IsSeq
    <2> QED
      BY <2>2 DEF l
  <1>8. K \in Seq(Keys) /\ Len(K) = k /\ \A i \in 1..k : i + 1 \in 1..Len(c) /\ K[i] = FirstKey(c[i + 1])
    <2>1. Len(c) - 1 = k /\ \A i \in 1..k : i + 1 \in 1..Len(c)
      BY <1>2
    <2>2. K = [i \in 1..k |-> FirstKey(c[i + 1])]
      BY <2>1
    <2>3. \A i \in 1..k : FirstKey(c[i + 1]) \in Keys
      BY <1>6, <2>1
    <2>4. K \in [1..k -> Keys]
      BY <2>2, <2>3
    <2>5. \A i \in 1..k : K[i] = FirstKey(c[i + 1])
      BY <2>2
    <2> HIDE DEF K
    <2>6. K \in Seq(Keys) /\ Len(K) = k
      BY <1>2, <2>4, IsSeq
    <2> QED
      BY <2>1, <2>5, <2>6
  <1>9. Separated(Node(K, C))
    <2>1. Node(K, C).keys = K /\ Node(K, C).kids = C
      BY DEF Node
    <2> HIDE DEF K, C
    <2>2. \A i \in 1..Len(K) : K[i] = FirstKey(C[i + 1])
      BY <1>6, <1>8
    <2> QED
      BY <2>1, <2>2, Zenon DEF Separated
  <1>10. RowsOf(C) = RowsOf(c)
    <2>1. DOMAIN C = DOMAIN c /\ \A i \in DOMAIN c : Leaves[C[i]] = Leaves[c[i]]
      BY <1>5, <1>6
    <2> HIDE DEF C
    <2> QED
      BY <2>1, Zenon DEF RowsOf
  <1> HIDE DEF K, C
  <1>11. LS(C) = LS(c)
    BY <1>2, <1>7, <1>10, LSIs
  <1> DEFINE r == Node(K, C)
  <1>12. r \in Tiers(order, 1)[h] /\ r \in Nodes /\ ~IsLeaf(r) /\ r.keys = K /\ r.kids = C
    <2>1. C \in Seq(Fit(order, Tiers(order, 1)[h - 1])) /\ Len(C) = Len(K) + 1 /\ K \in Seq(Keys)
      BY <1>2, <1>7, <1>8 DEF F
    <2>2. 1 = 1 => Separated(Node(K, C))
      BY <1>9
    <2> QED
      BY ONLY <1>4, <2>1, <2>2, ParentTier
  <1> HIDE DEF r
  <1>13. Leaves[r] = Leaves[n]
    <2>1. Leaves[r] = LS(r.kids) /\ Leaves[n] = LS(n.kids)
      BY <1>2, <1>12, LeavesStep
    <2> QED
      BY <1>11, <1>12, <2>1 DEF c
  <1>14. Len(r.keys) = Len(n.keys)
    BY <1>8, <1>12 DEF k
  <1>15. refreshSeparators[n] = r
    BY <1>3 DEF r, K, C
  <1> QED
    BY <1>12, <1>13, <1>14, <1>15 DEF IsRefreshed

\* refreshSeparators makes a tree with separators, with the same leaves.
LEMMA RefreshHolds ==
  ASSUME IsOrder(order)
  PROVE  \A h \in 0..MaxKeys : \A n \in Tiers(order, 0)[h] : IsRefreshed(h, n, refreshSeparators[n])
  <1> DEFINE Holds(h) == \A n \in Tiers(order, 0)[h] : IsRefreshed(h, n, refreshSeparators[n])
             G == {h \in Nat : h <= MaxKeys => Holds(h)}
  <1>1. Holds(0)
    <2> SUFFICES ASSUME NEW n \in Tiers(order, 0)[0] PROVE IsRefreshed(0, n, refreshSeparators[n])
      OBVIOUS
    <2>1. 0 \in 0..MaxKeys
      BY BoundIsNat
    <2>2. n \in Nodes /\ IsLeaf(n)
      BY <2>1, TierIs
    <2>3. refreshSeparators[n] = n
      BY <2>2, SeparatorsAre, Zenon DEF SeparatorsBy
    <2>4. n \in Tiers(order, 1)[0]
      BY TiersAre
    <2> QED
      BY <2>2, <2>3, <2>4 DEF IsRefreshed
  <1>2. \A h \in Nat : h \in G => h + 1 \in G
    <2> SUFFICES ASSUME NEW h \in Nat, h \in G, h + 1 <= MaxKeys PROVE Holds(h + 1)
      OBVIOUS
    <2> DEFINE g == h + 1
    <2>1. g \in 0..MaxKeys /\ g - 1 = h /\ h <= MaxKeys /\ g # 0
      BY BoundIsNat
    <2>2. Holds(g - 1)
      BY <2>1
    <2> HIDE DEF g
    <2>3. Holds(g)
      BY <2>1, <2>2, RefreshedParent
    <2> QED
      BY <2>3 DEF g
  <1>3. 0 \in G
    BY <1>1
  <1> HIDE DEF Holds
  <1>4. Nat \subseteq G
    <2> HIDE DEF G
    <2> QED
      BY <1>2, <1>3, SetInduction
  <1>5. ASSUME NEW h \in 0..MaxKeys PROVE Holds(h)
    BY <1>4, BoundIsNat
  <1> QED
    BY <1>5 DEF Holds

\* What removeHelper leaves: a tree of the class but for its separators.
IsNearly(t) == \E h \in 0..MaxKeys :
    /\ t.root \in Tiers(order, 0)[h] /\ Len(t.root.keys) < order /\ (h # 0 => t.root.keys # <<>>)
    /\ Sorted(KeysOf(t.root)) /\ Chained(t, Len(Leaves[t.root]))

\* A tree of the class is one but for its separators, too.
LEMMA GoodIsNearly ==
  ASSUME NEW t, IsGood(t)
  PROVE  IsNearly(t)
  <1>1. PICK h \in 0..MaxKeys :
          t.root \in Sound(order, 1, h) /\ Sorted(KeysOf(t.root)) /\ Chained(t, Len(Leaves[t.root]))
    BY DEF IsGood
  <1>2. t.root \in Tiers(order, 0)[h]
    BY <1>1, TiersLoose DEF Sound
  <1> QED
    BY <1>1, <1>2 DEF IsNearly, Sound

\* A root that is a leaf, or has a separator and so two children, is not collapsed.
LEMMA NotCollapsed ==
  ASSUME NEW o, NEW b, NEW h \in 0..MaxKeys, NEW n \in Tiers(o, b)[h], h # 0 => n.keys # <<>>
  PROVE  collapseRootIfNeeded(n) = n
  <1>1. n \in Nodes /\ (h = 0 => IsLeaf(n)) /\ (h # 0 => ~IsLeaf(n))
    BY TierIs
  <1>2. n.keys \in Seq(Keys) /\ (IsLeaf(n) <=> Len(n.kids) = 0) /\ (~IsLeaf(n) => Len(n.kids) = Len(n.keys) + 1)
    BY <1>1, NodeIs
  <1>3. Len(n.kids) # 1
    <2>1. CASE h = 0
      <3>1. Len(n.kids) = 0
        BY <1>1, <1>2, <2>1
      <3> QED
        BY <3>1
    <2>2. CASE h # 0
      <3>1. Len(n.keys) # 0 /\ Len(n.keys) \in Nat
        BY <1>2, <2>2
      <3>2. Len(n.kids) = Len(n.keys) + 1
        BY <1>1, <1>2, <2>2
      <3> QED
        BY <3>1, <3>2
    <2> QED
      BY <2>1, <2>2
  <1> QED
    BY <1>1, <1>3, NothingToCollapse

\* No empty leaf is asked for its first key.
LEMMA NothingAborts ==
  ASSUME IsOrder(order), NEW h \in 0..MaxKeys, NEW n \in Tiers(order, 0)[h]
  PROVE  ~RefreshAborts(n)
  <1>1. CASE h = 0
    BY <1>1, TierIs DEF RefreshAborts
  <1>2. CASE h # 0
    <2>1. Filled(n)
      BY <1>2, TiersFilled
    <2>2. Leaves[n] \in Seq(Fulls)
      BY <2>1 DEF Filled
    <2>3. \A i \in DOMAIN Leaves[n] : Leaves[n][i] # <<>>
      BY <2>2 DEF Fulls
    <2> QED
      BY <2>3 DEF RefreshAborts, ToSet
  <1> QED
    BY <1>1, <1>2

\* The tree that remove returns with: no assertion has failed.
IsNormal(t, u) == IsGood(u) /\ KeysOf(u.root) = KeysOf(t.root)

\* What remove does after removeHelper makes a tree of the class, and asserts
\* nothing.
LEMMA Normalized ==
  ASSUME IsOrder(order), NEW t, IsNearly(t)
  PROVE  LET top == collapseRootIfNeeded(t.root) IN
         /\ ~RefreshAborts(top)
         /\ IsNormal(t, [t EXCEPT !.root = collapseRootIfNeeded(refreshSeparators[top])])
  <1> DEFINE m == t.root
             r == refreshSeparators[m]
             u == [t EXCEPT !.root = r]
  <1>1. PICK h \in 0..MaxKeys :
          /\ m \in Tiers(order, 0)[h] /\ Len(m.keys) < order /\ (h # 0 => m.keys # <<>>)
          /\ Sorted(KeysOf(m)) /\ Chained(t, Len(Leaves[m]))
    BY DEF IsNearly
  <1>2. collapseRootIfNeeded(m) = m /\ ~RefreshAborts(m)
    BY <1>1, NotCollapsed, NothingAborts
  <1>3. IsRefreshed(h, m, r)
    BY <1>1, RefreshHolds
  <1> HIDE DEF m, r
  <1>4. r \in Tiers(order, 1)[h] /\ r \in Nodes /\ Leaves[r] = Leaves[m] /\ Len(r.keys) = Len(m.keys)
    BY <1>3 DEF IsRefreshed
  <1>5. KeysOf(r) = KeysOf(m)
    BY <1>4 DEF KeysOf
  <1>6. h # 0 => r.keys # <<>>
    <2>1. m \in Nodes
      BY <1>1, TierIs
    <2>2. m.keys \in Seq(Keys) /\ r.keys \in Seq(Keys)
      BY <1>4, <2>1, NodeIs
    <2> QED
      BY <1>1, <1>4, <2>2
  <1>7. collapseRootIfNeeded(r) = r
    BY <1>4, <1>6, NotCollapsed
  <1>8. Chained(u, Len(Leaves[m])) /\ u.root = r
    BY <1>1, Rerooted
  <1> HIDE DEF u
  <1>9. r \in Sound(order, 1, h)
    BY <1>1, <1>4, <1>6 DEF Sound
  <1>10. u.root \in Sound(order, 1, h) /\ Sorted(KeysOf(u.root)) /\ Chained(u, Len(Leaves[u.root]))
    BY <1>1, <1>4, <1>5, <1>8, <1>9
  <1>11. IsGood(u)
    BY <1>10 DEF IsGood
  <1>12. IsNormal(t, u)
    BY <1>5, <1>8, <1>11 DEF IsNormal, m
  <1>13. [t EXCEPT !.root = collapseRootIfNeeded(refreshSeparators[collapseRootIfNeeded(t.root)])] = u
    BY <1>2, <1>7, Zenon DEF m, r, u
  <1>14. ~RefreshAborts(collapseRootIfNeeded(t.root))
    BY <1>2 DEF m
  <1> QED
    BY <1>12, <1>13, <1>14

\* removeHelper: what it makes of a tree of the class.
IsLess(t, u, v) == IsNearly(u) /\ KeysOf(u.root) = RemoveFirst(KeysOf(t.root), v)

\* removeHelper in a tree that is a leaf.
LEMMA RemovedFromLeaf ==
  ASSUME IsOrder(order), NEW t, NEW v \in Keys, t.root \in Sound(order, 1, 0), Sorted(KeysOf(t.root)),
         Chained(t, Len(Leaves[t.root])), Has(KeysOf(t.root), v)
  PROVE  IsLess(t, [t EXCEPT !.root = Leaf(RemoveFirst(@.keys, v))], v)
  <1> DEFINE m == t.root
             s == RemoveFirst(m.keys, v)
             n == Leaf(s)
             u == [t EXCEPT !.root = n]
  <1>0. 0 \in 0..MaxKeys
    BY BoundIsNat
  <1>1. m \in Nodes /\ IsLeaf(m) /\ Len(m.keys) < order
    BY <1>0, TierIs DEF Sound
  <1>2. KeysOf(m) = m.keys /\ m.keys \in Seq(Keys)
    BY <1>1, KeysOfStep, NodeIs
  <1>3. s \in Seq(Keys) /\ Len(s) = Len(m.keys) - 1 /\ Sorted(s)
    BY <1>2, RemovedSorted
  <1>m. m = t.root
    OBVIOUS
  <1>4. [t EXCEPT !.root = Leaf(RemoveFirst(@.keys, v))] = u
    OBVIOUS
  <1> HIDE DEF m
  <1>s. s = RemoveFirst(m.keys, v)
    OBVIOUS
  <1> HIDE DEF s
  <1>5. n \in Tiers(order, 0)[0] /\ IsLeaf(n) /\ n.keys = s /\ n \in Nodes
    BY <1>3, LeafTier
  <1> HIDE DEF n
  <1>6. KeysOf(n) = s /\ Len(Leaves[n]) = 1 /\ Len(Leaves[m]) = 1
    <2>1. KeysOf(n) = s /\ Leaves[n] = One(s) /\ Leaves[m] = One(m.keys)
      BY <1>1, <1>5, KeysOfStep, LeavesStep
    <2>2. Len(One(s)) = 1 /\ Len(One(m.keys)) = 1
      BY DEF One
    <2> QED
      BY <2>1, <2>2
  <1>7. Chained(u, 1) /\ u.root = n
    BY <1>6, <1>m, Rerooted
  <1> HIDE DEF u
  <1>8. Len(s) < order
    BY <1>1, <1>2, <1>3 DEF IsOrder
  <1>9. /\ u.root \in Tiers(order, 0)[0] /\ Len(u.root.keys) < order /\ (0 # 0 => u.root.keys # <<>>)
        /\ Sorted(KeysOf(u.root)) /\ Chained(u, Len(Leaves[u.root]))
    BY <1>3, <1>5, <1>6, <1>7, <1>8
  <1>10. IsNearly(u)
    BY <1>0, <1>9 DEF IsNearly
  <1>11. KeysOf(u.root) = RemoveFirst(KeysOf(t.root), v)
    BY <1>2, <1>6, <1>7, <1>m, <1>s
  <1> QED
    BY <1>4, <1>10, <1>11 DEF IsLess

\* The parent of leaves that is left with one of them.
LEMMA OnlyLeaf ==
  ASSUME IsOrder(order), 1 \in 0..MaxKeys, NEW n \in Tiers(order, 0)[1], n.keys = <<>>
  PROVE  LET x == Head(n.kids) IN
         /\ x \in Tiers(order, 0)[0] /\ Len(x.keys) < order
         /\ Leaves[x] = Leaves[n] /\ KeysOf(x) = KeysOf(n)
  <1> DEFINE x == n.kids[1]
  <1>1. ParentHas(order, 0, 1, n)
    BY ParentIs
  <1>2. /\ n \in Nodes /\ ~IsLeaf(n) /\ n.kids \in Seq(Nodes) /\ Len(n.kids) = 1
        /\ x \in Nodes /\ x \in Fit(order, Tiers(order, 0)[0])
    <2>1. Len(n.keys) = 0 /\ 1 - 1 = 0
      OBVIOUS
    <2>2. /\ n \in Nodes /\ ~IsLeaf(n) /\ n.kids \in Seq(Nodes) /\ Len(n.kids) = Len(n.keys) + 1
          /\ \A i \in 1..Len(n.kids) :
               /\ n.kids[i] \in Nodes /\ n.kids[i] \in Fit(order, Tiers(order, 0)[1 - 1])
      BY <1>1 DEF ParentHas
    <2>3. Len(n.kids) = 1 /\ 1 \in 1..Len(n.kids)
      BY <2>1, <2>2
    <2> QED
      BY <2>1, <2>2, <2>3
  <1>3. n.kids = One(x) /\ Head(n.kids) = x
    BY <1>2 DEF One
  <1> HIDE DEF x
  <1>4. Leaves[x] = Leaves[n] /\ KeysOf(x) = KeysOf(n)
    <2>1. LS(One(x)) = Leaves[x] /\ KS(One(x)) = KeysOf(x)
      BY <1>2, LSOne, KSOne
    <2>2. Leaves[n] = LS(n.kids) /\ KeysOf(n) = KS(n.kids)
      BY <1>2, LeavesStep, KeysOfStep
    <2> QED
      BY <1>3, <2>1, <2>2
  <1>5. x \in Tiers(order, 0)[0] /\ Len(x.keys) < order
    <2>1. 0 \in 0..MaxKeys
      BY BoundIsNat
    <2>2. x \in Sound(order, 0, 0)
      BY <1>2, <2>1, FitIs
    <2> QED
      BY <2>2 DEF Sound
  <1> QED
    BY <1>3, <1>4, <1>5

\* removeHelper in a tree of several levels: the merged root goes, or the tree is
\* rebuilt.
LEMMA RemovedFromParent ==
  ASSUME IsOrder(order), NEW t, NEW v \in Keys, NEW h \in 0..MaxKeys, h # 0,
         t.root \in Sound(order, 1, h), Sorted(KeysOf(t.root)), Len(KeysOf(t.root)) <= MaxKeys,
         Chained(t, Len(Leaves[t.root])), Has(KeysOf(t.root), v)
  PROVE  IsLess(t, removeHelper(t, v), v)
  <1> DEFINE m == t.root
             r == Removal(m, v)
             n == r.node
             i == findChild(m, v)
             k == Len(Leaves[m])
             e == IF r.merges THEN 1 ELSE 0
             atRoot == IsLeaf(m.kids[i])
             chain == IF r.merges
                      THEN ChainMerge(t, IF r.before THEN LeafFor(m, v).at - 1 ELSE LeafFor(m, v).at)
                      ELSE t
             whole == [chain EXCEPT !.root = n]
             w == removeHelper(t, v)
  <1>0. v \in Int /\ h \in 1..MaxKeys
    BY BoundIsNat
  <1>1. /\ m \in Tiers(order, 1)[h] /\ m \in Nodes /\ ~IsLeaf(m)
        /\ Len(m.keys) \in 1..(order - 1)
        /\ \A j \in 1..Len(m.kids) : m.kids[j] \in Fit(order, Tiers(order, 1)[h - 1])
    BY SoundParent
  <1>2. atRoot <=> h = 1
    <2>1. i \in 1..Len(m.kids)
      <3>1. m \in Parents
        BY <1>1 DEF Parents
      <3> QED
        BY <1>0, <3>1, ChildIsFound
    <2> DEFINE g == h - 1
    <2>2. g \in 0..MaxKeys /\ (g = 0 <=> h = 1)
      BY <1>0, BoundIsNat
    <2>3. m.kids[i] \in Tiers(order, 1)[g]
      BY <1>1, <2>1 DEF Fit
    <2> HIDE DEF g
    <2>4. (g = 0 => IsLeaf(m.kids[i])) /\ (g # 0 => ~IsLeaf(m.kids[i]))
      BY <2>2, <2>3, TierIs
    <2> QED
      BY <2>2, <2>4
  <1>3. w = IF atRoot /\ r.merges /\ n.keys = <<>> THEN [chain EXCEPT !.root = Head(n.kids)]
            ELSE IF ~atRoot /\ r.short THEN rebuildTreeFromLeaves(whole)
            ELSE whole
    BY <1>1, Zenon DEF removeHelper
  <1>4. IsRemoved(h, m, v, r)
    BY <1>0, RemovalHolds
  <1>m. m = t.root
    OBVIOUS
  <1>c. r.merges => chain = ChainMerge(t, MergePlace(m, v, r))
    BY Zenon DEF MergePlace
  <1> HIDE DEF atRoot, w, r, m, i
  <1>5. /\ n \in Nodes /\ ~IsLeaf(n) /\ KeysOf(n) = RemoveFirst(KeysOf(m), v)
        /\ Len(Leaves[n]) = k - e
        /\ r.merges => MergePlace(m, v, r) \in 1..(k - 1)
        /\ h = 1 \/ ~r.short => n \in Tiers(order, 0)[h]
        /\ Len(n.keys) \in 0..Len(m.keys)
        /\ h # 1 \/ ~r.merges => Len(n.keys) = Len(m.keys)
    BY <1>4 DEF IsRemoved
  <1>6. k \in Nat
    <2>1. Leaves[m] \in Seq(Seq(Keys))
      BY <1>1, LeavesType DEF Rows
    <2> QED
      BY <2>1
  <1>n. n = r.node
    OBVIOUS
  <1> HIDE DEF n
  <1>7. Chained(chain, Len(Leaves[n]))
    <2>0. Chained(t, k)
      BY <1>m
    <2>1. CASE r.merges
      <3>1. MergePlace(m, v, r) \in 1..(k - 1) /\ Len(Leaves[n]) = k - 1
        BY <1>5, <2>1
      <3> HIDE DEF k, chain
      <3>2. Chained(ChainMerge(t, MergePlace(m, v, r)), k - 1)
        BY <1>6, <2>0, <3>1, ChainMergeChained
      <3> QED
        BY <1>c, <2>1, <3>1, <3>2
    <2>2. CASE ~r.merges
      <3>1. Len(Leaves[n]) = k /\ chain = t
        BY <1>5, <1>6, <2>2
      <3> QED
        BY <2>0, <3>1
    <2> QED
      BY <2>1, <2>2
  <1>8. /\ KeysOf(n) \in Seq(Keys) /\ Sorted(KeysOf(n)) /\ Len(KeysOf(n)) <= MaxKeys
    <2> DEFINE s == KeysOf(m)
    <2>1. s \in Seq(Keys) /\ Sorted(s) /\ Has(s, v) /\ Len(s) <= MaxKeys
      BY <1>1, <1>m, KeysOfType
    <2> HIDE DEF s
    <2>2. RemoveFirst(s, v) \in Seq(Keys) /\ Len(RemoveFirst(s, v)) = Len(s) - 1 /\ Sorted(RemoveFirst(s, v))
      BY <2>1, RemovedSorted
    <2>3. Len(s) \in Nat
      BY <2>1
    <2>4. Len(RemoveFirst(s, v)) <= MaxKeys
      BY <2>1, <2>2, <2>3, BoundIsNat
    <2> QED
      BY <1>5, <2>2, <2>4 DEF s
  <1> HIDE DEF chain, k, e
  <1>9. Chained(whole, Len(Leaves[n])) /\ whole.root = n
    BY <1>7, Rerooted
  <1> HIDE DEF whole
  <1>10. KeysOf(n) = RemoveFirst(KeysOf(t.root), v)
    BY <1>5, <1>m
  <1>11. CASE atRoot /\ r.merges /\ n.keys = <<>>
    <2> DEFINE x == Head(n.kids)
               u == [chain EXCEPT !.root = x]
    <2>1. n \in Tiers(order, 0)[1] /\ 1 \in 0..MaxKeys
      BY <1>0, <1>2, <1>5, <1>11
    <2>2. /\ x \in Tiers(order, 0)[0] /\ Len(x.keys) < order
          /\ Leaves[x] = Leaves[n] /\ KeysOf(x) = KeysOf(n)
      BY <1>11, <2>1, OnlyLeaf
    <2> HIDE DEF x
    <2>3. Chained(u, Len(Leaves[n])) /\ u.root = x
      BY <1>7, Rerooted
    <2>4. w = u
      BY <1>3, <1>11 DEF x
    <2> HIDE DEF u
    <2>5. /\ u.root \in Tiers(order, 0)[0] /\ Len(u.root.keys) < order /\ (0 # 0 => u.root.keys # <<>>)
          /\ Sorted(KeysOf(u.root)) /\ Chained(u, Len(Leaves[u.root]))
      BY <1>8, <2>2, <2>3
    <2>6. 0 \in 0..MaxKeys
      BY BoundIsNat
    <2>7. IsNearly(u)
      BY <2>5, <2>6 DEF IsNearly
    <2>8. IsLess(t, u, v)
      BY <1>10, <2>2, <2>3, <2>7 DEF IsLess
    <2> QED
      BY <2>4, <2>8 DEF w
  <1>12. CASE ~atRoot /\ r.short
    <2> DEFINE u == rebuildTreeFromLeaves(whole)
    <2>1. whole.root \in Nodes /\ Sorted(KeysOf(whole.root)) /\ Len(KeysOf(whole.root)) <= MaxKeys
      BY <1>5, <1>8, <1>9
    <2>2. IsGood(u) /\ KeysOf(u.root) = KeysOf(whole.root)
      BY <2>1, RebuildGood
    <2>3. w = u
      BY <1>3, <1>12
    <2> HIDE DEF u
    <2>4. IsLess(t, u, v)
      BY <1>9, <1>10, <2>2, GoodIsNearly DEF IsLess
    <2> QED
      BY <2>3, <2>4 DEF w
  <1>13. CASE ~(atRoot /\ r.merges /\ n.keys = <<>>) /\ ~(~atRoot /\ r.short)
    <2>1. w = whole
      BY <1>3, <1>13
    <2>2. n \in Tiers(order, 0)[h]
      BY <1>2, <1>5, <1>13
    <2>3. n.keys # <<>>
      <3>1. n.keys \in Seq(Keys)
        BY <1>5, NodeIs
      <3>2. CASE h = 1 /\ r.merges
        BY <1>2, <1>13, <3>2
      <3>3. CASE h # 1 \/ ~r.merges
        <4>1. Len(n.keys) # 0
          BY <1>1, <1>5, <3>3
        <4> QED
          BY <3>1, <4>1
      <3> QED
        BY <3>2, <3>3
    <2>4. Len(n.keys) < order
      BY <1>1, <1>5 DEF IsOrder
    <2> DEFINE u == whole
    <2>5. /\ u.root \in Tiers(order, 0)[h] /\ Len(u.root.keys) < order /\ (h # 0 => u.root.keys # <<>>)
          /\ Sorted(KeysOf(u.root)) /\ Chained(u, Len(Leaves[u.root]))
      BY <1>8, <1>9, <2>2, <2>3, <2>4
    <2>6. IsNearly(whole)
      BY <2>5 DEF IsNearly
    <2>7. IsLess(t, whole, v)
      BY <1>9, <1>10, <2>6 DEF IsLess
    <2> QED
      BY <2>1, <2>7 DEF w
  <1> QED
    BY <1>11, <1>12, <1>13

\* remove makes a tree of the class that has lost the key.
LEMMA RemoveGood ==
  ASSUME IsOrder(order), NEW t, IsGood(t), NEW v \in Keys, Has(KeysOf(t.root), v),
         Len(KeysOf(t.root)) <= MaxKeys
  PROVE  IsLess(t, removeHelper(t, v), v)
  <1>1. PICK h \in 0..MaxKeys :
          t.root \in Sound(order, 1, h) /\ Sorted(KeysOf(t.root)) /\ Chained(t, Len(Leaves[t.root]))
    BY DEF IsGood
  <1>2. CASE h = 0
    <2>1. t.root \in Sound(order, 1, 0) /\ 0 \in 0..MaxKeys
      BY <1>1, <1>2
    <2>2. IsLeaf(t.root)
      BY <2>1, TierIs DEF Sound
    <2>3. removeHelper(t, v) = [t EXCEPT !.root = Leaf(RemoveFirst(@.keys, v))]
      BY <2>2, Zenon DEF removeHelper
    <2>4. IsLess(t, [t EXCEPT !.root = Leaf(RemoveFirst(@.keys, v))], v)
      BY <1>1, <2>1, RemovedFromLeaf
    <2> QED
      BY <2>3, <2>4, Zenon
  <1>3. CASE h # 0
    BY <1>1, <1>3, RemovedFromParent
  <1> QED
    BY <1>2, <1>3

-----------------------------------------------------------------------------
(***************************************************************************)
(* The inductive invariant, and what follows from it.                      *)
(***************************************************************************)

\* Every order but 2 is at least 3.
LEMMA OrderIs ==
  ASSUME 2 \notin Orders, order \in Orders
  PROVE  IsOrder(order)
  BY TreeAssumption DEF TreeAssumption, IsOrder

\* The inductive invariant: the tree is one of the class, within the bound.
TreeInv ==
    /\ order \in Orders
    /\ aborted = FALSE
    /\ IsGood(tree)
    /\ Len(Content) <= MaxKeys

\* The keys in the tree are those below its root.
LEMMA ContentIs == Content = KeysOf(root) /\ tree.root = root
  BY DEF Content, KeysOf, Flat, tree, Tree

\* What is known of the tree.
RootHas(h) ==
    /\ IsOrder(order) /\ h \in 0..MaxKeys /\ root \in Sound(order, 1, h) /\ root \in Tiers(order, 1)[h]
    /\ root \in Nodes /\ Len(root.keys) < order /\ (h # 0 => root.keys # <<>>)
    /\ Sorted(KeysOf(root)) /\ KeysOf(root) \in Seq(Keys)
    /\ Chained(tree, Len(Leaves[root])) /\ Leaves[root] \in Seq(Seq(Keys)) /\ Len(Leaves[root]) \in Nat

\* What the invariant says of the root.
LEMMA RootIsSound ==
  ASSUME 2 \notin Orders, TreeInv
  PROVE  \E h : RootHas(h)
  <1>1. tree.root = root
    BY ContentIs
  <1>2. PICK h \in 0..MaxKeys :
          root \in Sound(order, 1, h) /\ Sorted(KeysOf(root)) /\ Chained(tree, Len(Leaves[root]))
    <2> DEFINE t == tree
    <2>1. t.root = root /\ IsGood(t)
      BY <1>1 DEF TreeInv
    <2> HIDE DEF t
    <2>2. \E h \in 0..MaxKeys :
            root \in Sound(order, 1, h) /\ Sorted(KeysOf(root)) /\ Chained(t, Len(Leaves[root]))
      BY <2>1 DEF IsGood
    <2> QED
      BY <2>2 DEF t
  <1>3. IsOrder(order)
    BY OrderIs DEF TreeInv
  <1>4. root \in Tiers(order, 1)[h] /\ Len(root.keys) < order /\ (h # 0 => root.keys # <<>>)
    BY <1>2 DEF Sound
  <1>5. root \in Nodes
    BY <1>4, TierIs
  <1>6. KeysOf(root) \in Seq(Keys)
    BY <1>5, KeysOfType
  <1>7. Leaves[root] \in Seq(Seq(Keys))
    BY <1>5, LeavesType DEF Rows
  <1>8. Len(Leaves[root]) \in Nat
    BY <1>7
  <1> QED
    BY <1>2, <1>3, <1>4, <1>5, <1>6, <1>7, <1>8 DEF RootHas

\* A tree of the class becomes the tree.
LEMMA BecomesGood ==
  ASSUME NEW u, IsGood(u), Become(u), order' = order
  PROVE  IsGood(tree)' /\ Content' = KeysOf(u.root)
  <1>1. PICK h \in 0..MaxKeys :
          u.root \in Sound(order, 1, h) /\ Sorted(KeysOf(u.root)) /\ Chained(u, Len(Leaves[u.root]))
    BY DEF IsGood
  <1>2. u = Tree(u.root, u.next, u.prev)
    BY <1>1 DEF Chained
  <1>3. tree' = u /\ root' = u.root
    BY <1>2 DEF tree, Become
  <1>4. tree'.root \in Sound(order', 1, h) /\ Sorted(KeysOf(tree'.root)) /\ Chained(tree', Len(Leaves[tree'.root]))
    BY <1>1, <1>3
  <1>5. IsGood(tree)'
    BY <1>4, Zenon DEF IsGood
  <1>6. Content' = KeysOf(u.root)
    BY <1>3, Zenon DEF Content, KeysOf, Flat
  <1> QED
    BY <1>5, <1>6

\* The invariant holds at the start.
LEMMA InvInit ==
  ASSUME 2 \notin Orders, Init
  PROVE  TreeInv
  <1>1. order \in Orders /\ aborted = FALSE /\ IsOrder(order)
    BY OrderIs DEF Init
  <1>2. tree = EmptyTree /\ root = EmptyTree.root
    BY DEF Init, tree, EmptyTree, Tree
  <1>3. IsGood(tree)
    BY <1>1, <1>2, EmptyIs
  <1>4. Content = <<>>
    BY <1>1, <1>2, EmptyIs, ContentIs
  <1> QED
    BY <1>1, <1>3, <1>4, BoundIsNat DEF TreeInv

\* add keeps the invariant and adds its key.
LEMMA AddStep ==
  ASSUME 2 \notin Orders, TreeInv, NEW v \in Keys, AddKey(v)
  PROVE  TreeInv' /\ Content' = Added(Content, v)
  <1>1. IsOrder(order) /\ IsGood(tree) /\ tree.root = root /\ Content = KeysOf(root)
    BY OrderIs, ContentIs DEF TreeInv
  <1>2. Content \in Seq(Keys) /\ Sorted(Content)
    <2>1. PICK h : RootHas(h)
      BY RootIsSound
    <2> QED
      BY <1>1, <2>1 DEF RootHas
  <1>3. Len(Content) < MaxKeys /\ Become(add(tree, v)) /\ order' = order /\ aborted' = aborted
    BY DEF AddKey
  <1> DEFINE u == add(tree, v)
  <1>4. IsGood(u) /\ KeysOf(u.root) = Added(Content, v)
    BY <1>1, <1>3, AddGood
  <1>5. Become(u)
    BY <1>3
  <1> HIDE DEF u
  <1>6. IsGood(tree)' /\ Content' = Added(Content, v)
    BY <1>3, <1>4, <1>5, BecomesGood
  <1>7. Len(Content') <= MaxKeys
    <2> DEFINE s == Content
    <2>1. s \in Seq(Keys) /\ Sorted(s) /\ Len(s) < MaxKeys
      BY <1>2, <1>3
    <2> HIDE DEF s
    <2>2. Len(Added(s, v)) = Len(s) + 1 /\ Len(s) \in Nat
      BY <2>1, AddedSorted
    <2>3. Len(Added(s, v)) <= MaxKeys
      BY <2>1, <2>2, BoundIsNat
    <2> QED
      BY <1>6, <2>3 DEF s
  <1> QED
    BY <1>3, <1>6, <1>7 DEF TreeInv

\* contains answers whether a leaf has the key.
LEMMA ContainsIs ==
  ASSUME 2 \notin Orders, TreeInv, NEW v \in Int
  PROVE  contains(v) <=> Has(Content, v)
  <1>1. PICK h : RootHas(h)
    BY RootIsSound
  <1>2. IsOrder(order) /\ h \in 0..MaxKeys /\ root \in Tiers(order, 1)[h] /\ Sorted(KeysOf(root))
    BY <1>1 DEF RootHas
  <1>3. IsFound(root, v, LeafFor(root, v))
    BY <1>2, LeafIsFound
  <1>4. Has(LeafFor(root, v).leaf.keys, v) <=> Has(KeysOf(root), v)
    BY <1>3 DEF IsFound
  <1>5. contains(v) <=> Has(LeafFor(root, v).leaf.keys, v)
    BY Zenon DEF contains, Contains, Has
  <1> QED
    BY <1>4, <1>5, ContentIs

\* remove keeps the invariant and removes its key.
LEMMA RemoveStep ==
  ASSUME 2 \notin Orders, TreeInv, NEW v \in Keys, RemoveKey(v)
  PROVE  TreeInv' /\ Content' = RemoveFirst(Content, v)
  <1> DEFINE t   == removeHelper(tree, v)
             top == collapseRootIfNeeded(t.root)
             u   == [t EXCEPT !.root = collapseRootIfNeeded(refreshSeparators[top])]
  <1>1. IsOrder(order) /\ IsGood(tree) /\ tree.root = root /\ Content = KeysOf(root) /\ Len(Content) <= MaxKeys
    BY OrderIs, ContentIs DEF TreeInv
  <1>2. Content \in Seq(Keys) /\ Sorted(Content)
    <2>1. PICK h : RootHas(h)
      BY RootIsSound
    <2> QED
      BY <1>1, <2>1 DEF RootHas
  <1>3. Has(Content, v)
    <2>1. v \in Int /\ contains(v)
      BY BoundIsNat DEF RemoveKey
    <2> QED
      BY <2>1, ContainsIs
  <1>4. IsLess(tree, t, v)
    BY <1>1, <1>3, RemoveGood
  <1>5. /\ aborted' = RefreshAborts(top) /\ order' = order
        /\ ~RefreshAborts(top) => Become(u)
    BY Zenon DEF RemoveKey
  <1>t. /\ top = collapseRootIfNeeded(t.root)
        /\ u = [t EXCEPT !.root = collapseRootIfNeeded(refreshSeparators[top])]
    OBVIOUS
  <1> HIDE DEF t
  <1>6. IsNearly(t) /\ KeysOf(t.root) = RemoveFirst(Content, v)
    BY <1>1, <1>4 DEF IsLess
  <1>7. ~RefreshAborts(top) /\ IsNormal(t, u)
    BY <1>1, <1>6, Normalized
  <1> HIDE DEF top, u
  <1>8. IsGood(u) /\ KeysOf(u.root) = RemoveFirst(Content, v) /\ Become(u)
    BY <1>5, <1>6, <1>7 DEF IsNormal
  <1>9. IsGood(tree)' /\ Content' = RemoveFirst(Content, v)
    BY <1>5, <1>8, BecomesGood
  <1>10. Len(Content') <= MaxKeys
    <2> DEFINE s == Content
    <2>1. s \in Seq(Keys) /\ Sorted(s) /\ Len(s) <= MaxKeys /\ Has(s, v)
      BY <1>1, <1>2, <1>3
    <2> HIDE DEF s
    <2>2. Len(RemoveFirst(s, v)) = Len(s) - 1 /\ Len(s) \in Nat
      BY <2>1, RemovedSorted
    <2>3. Len(RemoveFirst(s, v)) <= MaxKeys
      BY <2>1, <2>2, BoundIsNat
    <2> QED
      BY <1>9, <2>3 DEF s
  <1>11. aborted' = FALSE
    BY <1>5, <1>7
  <1>12. order' \in Orders
    BY <1>5 DEF TreeInv
  <1> QED
    BY <1>9, <1>10, <1>11, <1>12 DEF TreeInv

\* Every step keeps the invariant.
LEMMA InvNext ==
  ASSUME 2 \notin Orders, TreeInv, [Next]_vars
  PROVE  TreeInv'
  <1>1. CASE Next
    <2>1. PICK v \in Keys : AddKey(v) \/ RemoveKey(v)
      BY <1>1 DEF Next
    <2> QED
      BY <2>1, AddStep, RemoveStep
  <1>2. CASE UNCHANGED vars
    <2>1. order' = order /\ aborted' = aborted /\ Content' = Content /\ tree' = tree
      BY <1>2, Zenon DEF vars, Content, tree
    <2>2. IsGood(tree)'
      <3>1. IsGood(tree)
        BY DEF TreeInv
      <3> QED
        BY <2>1, <3>1, Zenon DEF IsGood
    <2> QED
      BY <2>1, <2>2 DEF TreeInv
  <1> QED
    BY <1>1, <1>2

\* Whatever keys are added and removed, the tree is one of the class: balanced, in
\* order, with separators that are first keys and a chain through all its leaves.
THEOREM TreeInvariant ==
  ASSUME 2 \notin Orders
  PROVE  Spec => []TreeInv
  <1>1. Init => TreeInv
    BY InvInit
  <1>2. TreeInv /\ [Next]_vars => TreeInv'
    BY InvNext
  <1> QED
    BY <1>1, <1>2, PTL DEF Spec

\* The invariant gives the types.
LEMMA InvType ==
  ASSUME 2 \notin Orders, TreeInv
  PROVE  TypeOK
  <1>1. PICK h : RootHas(h)
    BY RootIsSound
  <1>2. root \in Nodes /\ Chained(tree, Len(Leaves[root]))
    BY <1>1 DEF RootHas
  <1>3. tree.next = next /\ tree.prev = prev
    BY DEF tree, Tree
  <1>4. Len(next) = Len(Leaves[root]) /\ Len(prev) = Len(Leaves[root])
    BY <1>2, <1>3 DEF Chained
  <1> QED
    BY <1>2, <1>4 DEF TypeOK, TreeInv

\* The invariant gives the balance.
LEMMA InvBalanced ==
  ASSUME 2 \notin Orders, TreeInv
  PROVE  TreeIsBalanced
  <1>1. PICK h : RootHas(h)
    BY RootIsSound
  <1>2. IsOrder(order) /\ h \in 0..MaxKeys /\ root \in Tiers(order, 1)[h] /\ Len(root.keys) < order
    BY <1>1 DEF RootHas
  <1>3. Depths[root] = {h}
    BY <1>2, TiersDepth
  <1>4. \A m \in Below[root] : Proper(order, 1, m)
    BY <1>2, TiersBelow
  <1> QED
    BY <1>2, <1>3, <1>4, MinNodesIs DEF TreeIsBalanced, Proper

\* The invariant gives the separators.
LEMMA InvSeparated ==
  ASSUME 2 \notin Orders, TreeInv
  PROVE  SeparatorsAreFirstKeys
  <1>1. PICK h : RootHas(h)
    BY RootIsSound
  <1>2. IsOrder(order) /\ h \in 0..MaxKeys /\ root \in Tiers(order, 1)[h] /\ root \in Nodes
    BY <1>1 DEF RootHas
  <1>3. \A m \in Below[root] : Proper(order, 1, m) /\ m \in Nodes
    BY <1>2, TiersBelow
  <1>4. ~IsLeaf(root) => Separated(root)
    BY <1>2, TierIs
  <1>5. ASSUME NEW n \in Below[root] \cup {root}, ~IsLeaf(n), NEW i \in DOMAIN n.keys
        PROVE  n.keys[i] = FirstKey(n.kids[i + 1])
    <2>1. n \in Nodes /\ Separated(n)
      BY <1>2, <1>3, <1>4, <1>5 DEF Proper
    <2>2. n.keys \in Seq(Keys)
      BY <2>1, NodeIs
    <2>3. i \in 1..Len(n.keys)
      BY <2>2
    <2> QED
      BY <2>1, <2>3 DEF Separated
  <1> QED
    BY <1>5 DEF SeparatorsAreFirstKeys

\* The invariant gives the chain.
LEMMA InvChain ==
  ASSUME 2 \notin Orders, TreeInv
  PROVE  ChainLinksLeaves
  <1>1. PICK h : RootHas(h)
    BY RootIsSound
  <1> DEFINE n == Len(Leaves[root])
  <1>2. n \in Nat /\ Chained(tree, n)
    BY <1>1 DEF RootHas
  <1>3. tree.next = next /\ tree.prev = prev
    BY DEF tree, Tree
  <1> HIDE DEF n
  <1>4. /\ next \in Seq(Int) /\ Len(next) = n /\ \A p \in 1..n : next[p] = Onward(p, n)
        /\ prev \in Seq(Int) /\ Len(prev) = n /\ \A p \in 1..n : prev[p] = p - 1
    BY <1>2, <1>3 DEF Chained
  <1>5. next = [i \in 1..n |-> IF i = n THEN Null ELSE i + 1] /\ DOMAIN next = 1..n
    BY <1>4 DEF Onward
  <1>6. prev = [i \in 1..n |-> i - 1] /\ DOMAIN prev = 1..n
    BY <1>4
  <1> QED
    BY <1>4, <1>5, <1>6 DEF ChainLinksLeaves

\* By the invariant, contains finds the keys.
LEMMA InvContains ==
  ASSUME 2 \notin Orders, TreeInv
  PROVE  ContainsFindsKeys
  <1> SUFFICES ASSUME NEW v \in Keys PROVE contains(v) <=> v \in ToSet(Content)
    BY DEF ContainsFindsKeys
  <1>1. v \in Int
    BY BoundIsNat
  <1>2. contains(v) <=> Has(Content, v)
    BY <1>1, ContainsIs
  <1>3. Content \in Seq(Keys)
    <2>1. PICK h : RootHas(h)
      BY RootIsSound
    <2> QED
      BY <2>1, ContentIs DEF RootHas
  <1> DEFINE s == Content
  <1>4. Has(s, v) <=> v \in ToSet(s)
    <2>1. s \in Seq(Keys)
      BY <1>3
    <2> HIDE DEF s
    <2> QED
      BY <2>1 DEF Has, ToSet
  <1> QED
    BY <1>2, <1>4

\* The root is a node and the chain has a link for each leaf, after any calls of
\* add and remove.
THEOREM TypesHold ==
  ASSUME 2 \notin Orders
  PROVE  Spec => []TypeOK
  <1>1. TreeInv => TypeOK
    BY InvType
  <1> QED
    BY <1>1, TreeInvariant, PTL

\* After any calls of add and remove all leaves are equally deep, no node is full,
\* and none but the root has fewer keys than getMinNodes.
THEOREM BalanceHolds ==
  ASSUME 2 \notin Orders
  PROVE  Spec => []TreeIsBalanced
  <1>1. TreeInv => TreeIsBalanced
    BY InvBalanced
  <1> QED
    BY <1>1, TreeInvariant, PTL

\* After any calls every separator is the first key of the subtree on its right:
\* what remove's refreshSeparators is for.
THEOREM SeparatorsHold ==
  ASSUME 2 \notin Orders
  PROVE  Spec => []SeparatorsAreFirstKeys
  <1>1. TreeInv => SeparatorsAreFirstKeys
    BY InvSeparated
  <1> QED
    BY <1>1, TreeInvariant, PTL

\* After any splits, merges and rebuilds the chain of the leaves leads through all
\* of them, from left to right and back.
THEOREM ChainHolds ==
  ASSUME 2 \notin Orders
  PROVE  Spec => []ChainLinksLeaves
  <1>1. TreeInv => ChainLinksLeaves
    BY InvChain
  <1> QED
    BY <1>1, TreeInvariant, PTL

\* contains finds exactly the keys that were added and not removed, those among the
\* separators and the repeated ones too.
THEOREM ContainsHolds ==
  ASSUME 2 \notin Orders
  PROVE  Spec => []ContainsFindsKeys
  <1>1. TreeInv => ContainsFindsKeys
    BY InvContains
  <1> QED
    BY <1>1, TreeInvariant, PTL

\* No assertion of the code fails: refreshSeparators meets no empty leaf.
THEOREM NoAssertionFails ==
  ASSUME 2 \notin Orders
  PROVE  Spec => []NeverAborts
  <1>1. TreeInv => NeverAborts
    BY DEF TreeInv, NeverAborts
  <1> QED
    BY <1>1, TreeInvariant, PTL

\* Each call of add or remove changes the one key it is given, also when the leaf
\* is split, repaired or merged, or the tree rebuilt.
THEOREM CallsChangeTheKey ==
  ASSUME 2 \notin Orders
  PROVE  Spec => CallsChangeOneKey
  <1>1. TreeInv => \A v \in Keys : /\ AddKey(v) => Content' = Added(Content, v)
                                   /\ RemoveKey(v) /\ ~aborted' => Content' = RemoveFirst(Content, v)
    BY AddStep, RemoveStep
  <1>2. TreeInv => [\A v \in Keys : /\ AddKey(v) => Content' = Added(Content, v)
                                    /\ RemoveKey(v) /\ ~aborted' => Content' = RemoveFirst(Content, v)]_vars
    BY <1>1
  <1> QED
    BY <1>2, TreeInvariant, PTL DEF CallsChangeOneKey

-----------------------------------------------------------------------------
(***************************************************************************)
(* getRange: the scan of the chain.                                        *)
(***************************************************************************)

\* One step of Within, with f for the results of the steps before.
InRange(x, lo, hi) == lo <= x /\ x <= hi
WithinBy(f, s, lo, hi, k) ==
    IF k = 0 THEN <<>>
    ELSE IF InRange(s[k], lo, hi) THEN Append(f[k - 1], s[k])
    ELSE f[k - 1]

SiftsAll(f, s, lo, hi, top) == f = [k \in 0..top |-> WithinBy(f, s, lo, hi, k)]

\* The results that Within makes one after the other exist.
LEMMA WithinExist ==
  ASSUME NEW s, NEW lo, NEW hi
  PROVE  \A top \in Nat : \E f : SiftsAll(f, s, lo, hi, top)
  <1> DEFINE S == {top \in Nat : \E f : f = [k \in 0..top |-> WithinBy(f, s, lo, hi, k)]}
  <1>1. 0 \in S
    <2> DEFINE t == [d \in 0..0 |-> <<>>]
    <2>1. \A d \in 0..0 : d = 0
      OBVIOUS
    <2>2. t = [k \in 0..0 |-> WithinBy(t, s, lo, hi, k)]
      BY <2>1 DEF WithinBy
    <2> HIDE DEF t
    <2> QED
      BY <2>2
  <1>2. ASSUME NEW top \in Nat, top \in S PROVE top + 1 \in S
    <2>1. PICK t : t = [k \in 0..top |-> WithinBy(t, s, lo, hi, k)]
      BY <1>2
    <2>2. \A d \in 0..top : t[d] = WithinBy(t, s, lo, hi, d)
      BY <2>1, Zenon
    <2> DEFINE w == [d \in 0..(top + 1) |-> IF d \in 0..top THEN t[d] ELSE WithinBy(t, s, lo, hi, d)]
    <2>3. ASSUME NEW d \in 0..(top + 1) PROVE w[d] = WithinBy(w, s, lo, hi, d)
      <3>1. d = 0 \/ (d - 1 \in 0..top /\ d - 1 \in 0..(top + 1) /\ d # 0)
        OBVIOUS
      <3>2. d = 0 \/ w[d - 1] = t[d - 1]
        BY <3>1
      <3>3. w[d] = WithinBy(t, s, lo, hi, d)
        BY <2>2
      <3> HIDE DEF w
      <3> QED
        BY <3>2, <3>3 DEF WithinBy
    <2>4. w = [d \in 0..(top + 1) |-> w[d]]
      OBVIOUS
    <2> HIDE DEF w
    <2>5. w = [k \in 0..(top + 1) |-> WithinBy(w, s, lo, hi, k)]
      BY <2>3, <2>4, Zenon
    <2> QED
      BY <2>5
  <1>3. Nat \subseteq S
    <2> HIDE DEF S
    <2> QED
      BY <1>1, <1>2, SetInduction
  <1>4. \A top \in Nat : \E f : f = [k \in 0..top |-> WithinBy(f, s, lo, hi, k)]
    BY <1>3
  <1> QED
    BY <1>4, Zenon DEF SiftsAll

\* f[k] are the keys from lo to hi among the first k of s.
IsSifted(f, s, lo, hi) ==
    /\ f[0] = <<>>
    /\ \A k \in 1..Len(s) :
         /\ InRange(s[k], lo, hi) => f[k] = Cat(f[k - 1], One(s[k]))
         /\ ~InRange(s[k], lo, hi) => f[k] = f[k - 1]
    /\ \A k \in 0..Len(s) : f[k] \in Seq(Keys)

\* Within takes the keys in the range, one by one.
LEMMA WithinIs ==
  ASSUME NEW s \in Seq(Keys), NEW lo, NEW hi
  PROVE  \E f : IsSifted(f, s, lo, hi) /\ Within(s, lo, hi) = f[Len(s)]
  <1> DEFINE n == Len(s)
             upTo[k \in 0..n] ==
               IF k = 0 THEN <<>>
               ELSE IF lo <= s[k] /\ s[k] <= hi THEN Append(upTo[k - 1], s[k])
               ELSE upTo[k - 1]
  <1>1. n \in Nat /\ \A k \in 1..n : s[k] \in Keys
    OBVIOUS
  <1>2. Within(s, lo, hi) = upTo[n]
    BY Zenon DEF Within
  <1>3. upTo = [k \in 0..n |-> WithinBy(upTo, s, lo, hi, k)]
    <2> HIDE DEF n
    <2>1. \E f : f = [k \in 0..n |-> WithinBy(f, s, lo, hi, k)]
      <3>1. n \in Nat
        BY <1>1
      <3>2. \E f : SiftsAll(f, s, lo, hi, n)
        BY <3>1, WithinExist, Zenon
      <3> QED
        BY <3>2, Zenon DEF SiftsAll
    <2> QED
      BY <2>1, Zenon DEF upTo, WithinBy, InRange
  <1> HIDE DEF upTo
  <1>4. /\ upTo[0] = <<>>
        /\ \A k \in 1..n : upTo[k] = IF InRange(s[k], lo, hi) THEN Append(upTo[k - 1], s[k]) ELSE upTo[k - 1]
    <2>1. \A k \in 0..n : upTo[k] = WithinBy(upTo, s, lo, hi, k)
      BY <1>3, Zenon
    <2>2. 0 \in 0..n /\ \A k \in 1..n : k \in 0..n /\ k # 0
      BY <1>1
    <2> QED
      BY <2>1, <2>2, Zenon DEF WithinBy
  <1> DEFINE G == {k \in Nat : k <= n => upTo[k] \in Seq(Keys)}
  <1>n. n = Len(s)
    OBVIOUS
  <1> HIDE DEF n
  <1>5. 0 \in G
    <2>1. upTo[0] \in Seq(Keys)
      <3>1. <<>> \in Seq(Keys)
        OBVIOUS
      <3> QED
        BY <1>4, <3>1
    <2> QED
      BY <2>1
  <1>6. \A k \in Nat : k \in G => k + 1 \in G
    <2> SUFFICES ASSUME NEW k \in Nat, k \in G, k + 1 <= n PROVE upTo[k + 1] \in Seq(Keys)
      OBVIOUS
    <2>1. k + 1 \in 1..n /\ (k + 1) - 1 = k /\ upTo[k] \in Seq(Keys)
      BY <1>1
    <2>2. upTo[k + 1] = IF InRange(s[k + 1], lo, hi) THEN Append(upTo[k], s[k + 1]) ELSE upTo[k]
      BY <1>4, <2>1
    <2> QED
      BY <1>1, <2>1, <2>2
  <1>7. Nat \subseteq G
    <2> HIDE DEF G
    <2> QED
      BY <1>5, <1>6, SetInduction
  <1>8. \A k \in 0..n : upTo[k] \in Seq(Keys)
    BY <1>1, <1>7
  <1>9. \A k \in 1..n : InRange(s[k], lo, hi) => upTo[k] = Cat(upTo[k - 1], One(s[k]))
    <2> TAKE k \in 1..n
    <2> HAVE InRange(s[k], lo, hi)
    <2>1. upTo[k - 1] \in Seq(Keys)
      BY <1>1, <1>8
    <2>2. upTo[k] = Append(upTo[k - 1], s[k])
      BY <1>4
    <2>3. \A a \in Seq(Keys) : \A x \in Keys : Append(a, x) = Cat(a, One(x))
      BY DEF Cat, One
    <2> QED
      BY <1>1, <2>1, <2>2, <2>3
  <1>10. IsSifted(upTo, s, lo, hi)
    BY <1>4, <1>8, <1>9, <1>n DEF IsSifted
  <1> QED
    BY <1>2, <1>10, <1>n

\* What Within makes of a concatenation, and of keys outside the range.
LEMMA WithinCat ==
  ASSUME NEW a \in Seq(Keys), NEW b \in Seq(Keys), NEW lo, NEW hi
  PROVE  /\ Within(Cat(a, b), lo, hi) = Cat(Within(a, lo, hi), Within(b, lo, hi))
         /\ Within(a, lo, hi) \in Seq(Keys)
  <1> DEFINE s == Cat(a, b)
             n == Len(a)
             m == Len(b)
  <1>1. /\ s \in Seq(Keys) /\ Len(s) = n + m /\ n \in Nat /\ m \in Nat
        /\ \A i \in 1..n : s[i] = a[i]
        /\ \A j \in 1..m : s[n + j] = b[j]
    <2>0. n \in Nat /\ m \in Nat
      OBVIOUS
    <2>1. s \in Seq(Keys) /\ Len(s) = n + m
      BY CatType
    <2>2. \A i \in 1..n : s[i] = a[i]
      BY CatFirst
    <2>3. \A j \in 1..m : s[n + j] = b[j]
      BY CatSecond
    <2> QED
      BY <2>0, <2>1, <2>2, <2>3
  <1>2. PICK f : IsSifted(f, s, lo, hi) /\ Within(s, lo, hi) = f[Len(s)]
    BY <1>1, WithinIs
  <1>3. PICK g : IsSifted(g, a, lo, hi) /\ Within(a, lo, hi) = g[n]
    BY WithinIs
  <1>4. PICK e : IsSifted(e, b, lo, hi) /\ Within(b, lo, hi) = e[m]
    BY WithinIs
  <1>s. Cat(a, b) = s
    OBVIOUS
  <1>a. Len(a) = n /\ Len(b) = m
    OBVIOUS
  <1> HIDE DEF s, n, m
  <1>5. /\ f[0] = <<>>
        /\ \A k \in 1..(n + m) :
             /\ InRange(s[k], lo, hi) => f[k] = Cat(f[k - 1], One(s[k]))
             /\ ~InRange(s[k], lo, hi) => f[k] = f[k - 1]
    BY <1>1, <1>2 DEF IsSifted
  <1>6. /\ g[0] = <<>>
        /\ \A k \in 1..n :
             /\ InRange(a[k], lo, hi) => g[k] = Cat(g[k - 1], One(a[k]))
             /\ ~InRange(a[k], lo, hi) => g[k] = g[k - 1]
        /\ \A k \in 0..n : g[k] \in Seq(Keys)
    BY <1>3, <1>a DEF IsSifted
  <1>7. /\ e[0] = <<>>
        /\ \A k \in 1..m :
             /\ InRange(b[k], lo, hi) => e[k] = Cat(e[k - 1], One(b[k]))
             /\ ~InRange(b[k], lo, hi) => e[k] = e[k - 1]
        /\ \A k \in 0..m : e[k] \in Seq(Keys)
    BY <1>4, <1>a DEF IsSifted
  <1>8. \A k \in 0..n : f[k] = g[k]
    <2> DEFINE G == {k \in Nat : k <= n => f[k] = g[k]}
    <2>1. 0 \in G
      BY <1>5, <1>6
    <2>2. \A k \in Nat : k \in G => k + 1 \in G
      <3> SUFFICES ASSUME NEW k \in Nat, k \in G, k + 1 <= n PROVE f[k + 1] = g[k + 1]
        OBVIOUS
      <3>1. k + 1 \in 1..n /\ k + 1 \in 1..(n + m) /\ (k + 1) - 1 = k /\ f[k] = g[k]
        BY <1>1
      <3>2. s[k + 1] = a[k + 1]
        BY <1>1, <3>1
      <3> QED
        BY <1>5, <1>6, <3>1, <3>2
    <2>3. Nat \subseteq G
      <3> HIDE DEF G
      <3> QED
        BY <2>1, <2>2, SetInduction
    <2> QED
      BY <1>1, <2>3
  <1>9. g[n] \in Seq(Keys) /\ f[n] = g[n]
    BY <1>1, <1>6, <1>8
  <1>10. \A k \in 0..m : f[n + k] = Cat(g[n], e[k])
    <2> DEFINE G == {k \in Nat : k <= m => f[n + k] = Cat(g[n], e[k])}
    <2>1. 0 \in G
      <3>1. Cat(g[n], <<>>) = g[n]
        BY <1>9, CatNil
      <3>2. n + 0 = n
        BY <1>1
      <3> QED
        BY <1>7, <1>9, <3>1, <3>2
    <2>2. \A k \in Nat : k \in G => k + 1 \in G
      <3> SUFFICES ASSUME NEW k \in Nat, k \in G, k + 1 <= m PROVE f[n + (k + 1)] = Cat(g[n], e[k + 1])
        OBVIOUS
      <3> DEFINE j == k + 1
                 p == n + j
      <3>1. j \in 1..m /\ j - 1 = k /\ p \in 1..(n + m) /\ p - 1 = n + k /\ k <= m /\ k \in 0..m
        BY <1>1
      <3>2. s[p] = b[j]
        BY <1>1, <3>1
      <3>3. f[p - 1] = Cat(g[n], e[k])
        BY <3>1
      <3>4. e[k] \in Seq(Keys) /\ b[j] \in Keys
        BY <1>7, <1>a, <3>1
      <3>5. f[p] = Cat(g[n], e[j])
        <4> HIDE DEF p, j
        <4>1. CASE InRange(b[j], lo, hi)
          <5> DEFINE x == e[k]
                     y == g[n]
                     z == One(b[j])
          <5>1. f[p] = Cat(Cat(y, x), z)
            BY <1>5, <3>1, <3>2, <3>3, <4>1
          <5>2. e[j] = Cat(x, z)
            BY <1>7, <3>1, <4>1
          <5>3. x \in Seq(Keys) /\ y \in Seq(Keys) /\ z \in Seq(Keys)
            BY <1>9, <3>4, OneIs
          <5> HIDE DEF x, y, z
          <5>4. Cat(Cat(y, x), z) = Cat(y, Cat(x, z))
            BY <5>3, CatAssoc
          <5> QED
            BY <5>1, <5>2, <5>4 DEF y
        <4>2. CASE ~InRange(b[j], lo, hi)
          BY <1>5, <1>7, <3>1, <3>2, <3>3, <4>2
        <4> QED
          BY <4>1, <4>2
      <3> QED
        BY <3>5
    <2>3. Nat \subseteq G
      <3> HIDE DEF G
      <3> QED
        BY <2>1, <2>2, SetInduction
    <2> QED
      BY <1>1, <2>3
  <1>11. f[n + m] = Cat(g[n], e[m])
    BY <1>1, <1>10
  <1>12. Within(s, lo, hi) = Cat(Within(a, lo, hi), Within(b, lo, hi))
    BY <1>1, <1>2, <1>3, <1>4, <1>11
  <1> QED
    BY <1>3, <1>9, <1>12, <1>s

\* Within takes nothing where no key is in the range.
LEMMA WithinNone ==
  ASSUME NEW s \in Seq(Keys), NEW lo, NEW hi, \A i \in 1..Len(s) : ~InRange(s[i], lo, hi)
  PROVE  Within(s, lo, hi) = <<>>
  <1> DEFINE n == Len(s)
  <1>1. PICK f : IsSifted(f, s, lo, hi) /\ Within(s, lo, hi) = f[n]
    BY WithinIs
  <1>2. n \in Nat /\ f[0] = <<>> /\ \A k \in 1..n : f[k] = f[k - 1]
    BY <1>1 DEF IsSifted
  <1> HIDE DEF n
  <1> DEFINE G == {k \in Nat : k <= n => f[k] = <<>>}
  <1>3. 0 \in G
    BY <1>2
  <1>4. \A k \in Nat : k \in G => k + 1 \in G
    <2> SUFFICES ASSUME NEW k \in Nat, k \in G, k + 1 <= n PROVE f[k + 1] = <<>>
      OBVIOUS
    <2>1. k + 1 \in 1..n /\ (k + 1) - 1 = k /\ f[k] = <<>>
      BY <1>2
    <2> QED
      BY <1>2, <2>1
  <1>5. Nat \subseteq G
    <2> HIDE DEF G
    <2> QED
      BY <1>3, <1>4, SetInduction
  <1> QED
    BY <1>1, <1>2, <1>5

\* The descent of getRange ends at a leaf.
LEMMA DescendedAt ==
  ASSUME NEW lo \in Int, NEW n \in Nodes
  PROVE  Descended(n, lo) \in 1..Len(Leaves[n])
  <1> DEFINE S == {m \in Nodes : Descended(m, lo) \in 1..Len(Leaves[m])}
  <1>1. ASSUME NEW m \in Nodes, \A i \in 1..Len(m.kids) : m.kids[i] \in S PROVE m \in S
    <2>1. PICK f : /\ \A x \in Nodes : f[x] = DescendedBy(f, x, lo)
                   /\ \A x : Descended(x, lo) = f[x]
      BY DescendedIs
    <2>2. Descended(m, lo) = DescendedBy(f, m, lo)
      BY <2>1
    <2>3. CASE IsLeaf(m)
      <3>1. Descended(m, lo) = 1
        BY <2>2, <2>3 DEF DescendedBy
      <3>2. Leaves[m] = One(m.keys)
        BY <2>3, LeavesStep
      <3>3. Len(One(m.keys)) = 1
        BY DEF One
      <3>4. Len(Leaves[m]) = 1
        BY <3>2, <3>3
      <3>5. Descended(m, lo) \in 1..Len(Leaves[m])
        BY <3>1, <3>4
      <3> QED
        BY <3>5
    <2>4. CASE ~IsLeaf(m)
      <3> DEFINE i == getIndex(m, lo)
                 c == m.kids
                 x == c[i]
                 d == Descended(x, lo)
      <3>1. i \in 1..Len(c) /\ c \in Seq(Nodes)
        <4>1. m \in Parents
          BY <2>4 DEF Parents
        <4> QED
          BY <4>1, ChildIsFound, NodeIs
      <3>2. Descended(m, lo) = LeavesBefore(m, i) + d
        BY <2>1, <2>2, <2>4, Zenon DEF DescendedBy
      <3>3. d \in 1..Len(Leaves[x])
        BY <1>1, <3>1
      <3>4. LeavesBefore(m, i) = Len(LS(SubSeq(c, 1, i - 1)))
        BY <3>1, LeavesBeforeIs
      <3>5. Leaves[m] = LS(c)
        BY <2>4, LeavesStep
      <3> DEFINE a == SubSeq(c, 1, i - 1)
                 b == SubSeq(c, i + 1, Len(c))
      <3> HIDE DEF i, c, d
      <3>6. /\ a \in Seq(Nodes) /\ b \in Seq(Nodes) /\ x \in Nodes
            /\ LS(c) = Cat(Cat(LS(a), Leaves[x]), LS(b))
        BY <3>1, AroundAKid
      <3> HIDE DEF a, b, x
      <3>7. /\ LS(a) \in Seq(Seq(Keys)) /\ LS(b) \in Seq(Seq(Keys)) /\ Leaves[x] \in Seq(Seq(Keys))
        BY <3>6, LSIs, LeavesType DEF Rows
      <3>8. Len(LS(c)) = (Len(LS(a)) + Len(Leaves[x])) + Len(LS(b))
        <4>1. Len(Cat(Cat(LS(a), Leaves[x]), LS(b))) = (Len(LS(a)) + Len(Leaves[x])) + Len(LS(b))
          BY ONLY <3>7, ThreeLong
        <4> QED
          BY <3>6, <4>1
      <3> DEFINE la == Len(LS(a))
                 lb == Len(LS(b))
                 lx == Len(Leaves[x])
                 lm == Len(Leaves[m])
      <3>9. la \in Nat /\ lb \in Nat /\ lx \in Nat /\ lm = (la + lx) + lb /\ d \in 1..lx
        BY <3>3, <3>5, <3>7, <3>8
      <3>10. Descended(m, lo) = la + d
        BY <3>2, <3>4 DEF a
      <3> HIDE DEF la, lb, lx, lm
      <3>11. la + d \in 1..lm
        BY <3>9
      <3> QED
        BY <3>10, <3>11 DEF lm
    <2> QED
      BY <2>3, <2>4
  <1>2. Nodes \subseteq S
    <2> HIDE DEF S
    <2> QED
      BY <1>1, NodeInduction
  <1> QED
    BY <1>2

\* The rows before one and from one on.
Until(L, q) == Flat(SubSeq(L, 1, q - 1))
From(L, q) == Flat(SubSeq(L, q, Len(L)))

\* The elements from a place on are the one there and those behind it.
LEMMA SubHead ==
  ASSUME NEW S, NEW s \in Seq(S), NEW q \in 1..Len(s)
  PROVE  SubSeq(s, q, Len(s)) = Cat(One(s[q]), SubSeq(s, q + 1, Len(s)))
  <1> DEFINE t == SubSeq(s, q, Len(s))
  <1>1. t \in Seq(S) /\ Len(t) = Len(s) + 1 - q /\ \A i \in 1..(Len(s) + 1 - q) : t[i] = s[q + i - 1]
    BY CutAt
  <1>2. Len(s) \in Nat /\ Len(s) + 1 - q >= 1
    OBVIOUS
  <1>3. t # <<>> /\ t[1] = s[q]
    <2> HIDE DEF t
    <2>1. 1 \in 1..(Len(s) + 1 - q) /\ q + 1 - 1 = q
      BY <1>2
    <2>2. t[1] = s[q]
      BY <1>1, <2>1
    <2>3. Len(t) # 0
      BY <1>1, <1>2
    <2> QED
      BY <2>2, <2>3
  <1>4. Tail(t) = SubSeq(s, q + 1, Len(s))
    OBVIOUS
  <1> HIDE DEF t
  <1>5. t = Cat(One(Head(t)), Tail(t)) /\ t[1] = Head(t)
    BY <1>1, <1>3, FirstOff
  <1> QED
    BY <1>3, <1>4, <1>5 DEF t

\* The keys of some rows are those of the first ones and of the rest.
LEMMA RowsCut ==
  ASSUME NEW L \in Seq(Seq(Keys)), NEW q \in 1..Len(L)
  PROVE  /\ Until(L, q) \in Seq(Keys) /\ From(L, q) \in Seq(Keys) /\ From(L, q + 1) \in Seq(Keys)
         /\ Flat(L) = Cat(Until(L, q), From(L, q))
         /\ From(L, q) = Cat(L[q], From(L, q + 1))
         /\ q = Len(L) => From(L, q + 1) = <<>>
  <1> DEFINE S == Seq(Keys)
             a == SubSeq(L, 1, q - 1)
             b == SubSeq(L, q, Len(L))
             c == SubSeq(L, q + 1, Len(L))
  <1>1. q \in 1..(Len(L) + 1) /\ L[q] \in S
    OBVIOUS
  <1>2. a \in Seq(S) /\ b \in Seq(S) /\ L = Cat(a, b)
    BY <1>1, CutAt
  <1>3. c \in Seq(S) /\ b = Cat(One(L[q]), c)
    <2>1. c \in Seq(S)
      BY TakenOut
    <2>2. b = Cat(One(L[q]), c)
      BY SubHead
    <2> QED
      BY <2>1, <2>2
  <1>4. q = Len(L) => c = <<>>
    OBVIOUS
  <1>5. Until(L, q) = Flat(a) /\ From(L, q) = Flat(b) /\ From(L, q + 1) = Flat(c)
    BY DEF Until, From
  <1> DEFINE r == L[q]
  <1>6. r \in Seq(Keys) /\ a \in Seq(Seq(Keys)) /\ b \in Seq(Seq(Keys)) /\ c \in Seq(Seq(Keys)) /\ b = Cat(One(r), c)
    BY <1>1, <1>2, <1>3
  <1> HIDE DEF a, b, c, r
  <1>7. Flat(a) \in Seq(Keys) /\ Flat(b) \in Seq(Keys) /\ Flat(c) \in Seq(Keys)
    BY <1>6, FlatType
  <1>8. Flat(L) = Cat(Flat(a), Flat(b))
    BY <1>2, <1>6, FlatCat
  <1>9. Flat(b) = Cat(r, Flat(c))
    <2>1. One(r) \in Seq(Seq(Keys)) /\ Flat(One(r)) = r
      BY <1>6, OneIs, FlatOne
    <2>2. Flat(Cat(One(r), c)) = Cat(Flat(One(r)), Flat(c))
      BY <1>6, <2>1, FlatCat
    <2> QED
      BY <1>6, <2>1, <2>2
  <1>10. q = Len(L) => From(L, q + 1) = <<>>
    BY <1>4, <1>5, FlatNil DEF c
  <1> QED
    BY <1>5, <1>7, <1>8, <1>9, <1>10 DEF r

\* The rows of the tree and the chain that links them.
Linked(L, n) ==
    /\ L = Leaves[root] /\ L \in Seq(Seq(Keys)) /\ Len(L) = n /\ n \in Nat /\ n >= 1
    /\ DOMAIN next = 1..n /\ \A p \in 1..n : next[p] = Onward(p, n)
    /\ DOMAIN prev = 1..n /\ \A p \in 1..n : prev[p] = p - 1
    /\ n = 1 \/ \A p \in 1..n : L[p] # <<>>
    /\ Sorted(Flat(L))

\* What the invariant says of the leaves and the chain.
LEMMA LinkedIs ==
  ASSUME 2 \notin Orders, TreeInv
  PROVE  \E L, n : Linked(L, n)
  <1> DEFINE L == Leaves[root]
             n == Len(L)
  <1>1. PICK h : RootHas(h)
    BY RootIsSound
  <1>2. /\ IsOrder(order) /\ h \in 0..MaxKeys /\ root \in Tiers(order, 1)[h] /\ root \in Nodes
        /\ (h # 0 => root.keys # <<>>) /\ Sorted(KeysOf(root))
        /\ Chained(tree, n) /\ L \in Seq(Seq(Keys)) /\ n \in Nat
    BY <1>1 DEF RootHas
  <1>3. n >= 1
    <2>1. L # <<>>
      BY <1>2, LeavesType DEF Rows
    <2> HIDE DEF L
    <2>2. L \in Seq(Seq(Keys))
      BY <1>2
    <2> QED
      BY <2>1, <2>2
  <1>4. Sorted(Flat(L))
    BY <1>2 DEF KeysOf
  <1>5. n = 1 \/ \A p \in 1..n : L[p] # <<>>
    <2>1. CASE h = 0
      <3>1. IsLeaf(root)
        BY <1>2, <2>1, TierIs
      <3>2. Leaves[root] = One(root.keys)
        BY <1>2, <3>1, LeavesStep
      <3>3. Len(One(root.keys)) = 1
        BY DEF One
      <3> QED
        BY <3>2, <3>3
    <2>2. CASE h # 0
      <3>1. Filled(root)
        BY <1>2, <2>2, TiersFilled
      <3>2. L \in Seq(Fulls)
        BY <3>1 DEF Filled
      <3> HIDE DEF L
      <3>3. \A p \in 1..Len(L) : L[p] \in Fulls
        BY <3>2
      <3> QED
        BY <3>3 DEF Fulls
    <2> QED
      BY <2>1, <2>2
  <1>l. L = Leaves[root] /\ Len(L) = n
    OBVIOUS
  <1> HIDE DEF L, n
  <1>6. tree.next = next /\ tree.prev = prev
    BY DEF tree, Tree
  <1>7. /\ next \in Seq(Int) /\ Len(next) = n /\ \A p \in 1..n : next[p] = Onward(p, n)
        /\ prev \in Seq(Int) /\ Len(prev) = n /\ \A p \in 1..n : prev[p] = p - 1
    BY <1>2, <1>6 DEF Chained
  <1>8. DOMAIN next = 1..n /\ DOMAIN prev = 1..n
    BY <1>7
  <1>9. Linked(L, n)
    BY <1>2, <1>3, <1>4, <1>5, <1>7, <1>8, <1>l DEF Linked
  <1> QED
    BY <1>9

\* Whether ShiftedLeft stays at leaf q, and one step of it.
Stays(q, lo) == prev[q] = Null \/ KeysAt(prev[q]) = <<>> \/ Last(KeysAt(prev[q])) < lo
ShiftBy(f, q, lo) == IF Stays(q, lo) THEN q ELSE f[prev[q]]
ShiftsAll(f, lo, top) == f = [q \in 1..top |-> ShiftBy(f, q, lo)]

\* A function with the equation of ShiftedLeft exists.
LEMMA ShiftExist ==
  ASSUME NEW lo, NEW n \in Nat, \A p \in 1..n : prev[p] = p - 1
  PROVE  \E f : ShiftsAll(f, lo, n)
  <1> DEFINE S == {top \in Nat : top <= n => \E f : f = [q \in 1..top |-> ShiftBy(f, q, lo)]}
  <1>1. 0 \in S
    <2> DEFINE t == [d \in 1..0 |-> 0]
    <2>1. 1..0 = {}
      OBVIOUS
    <2>2. t = [q \in 1..0 |-> ShiftBy(t, q, lo)]
      BY <2>1
    <2> HIDE DEF t
    <2> QED
      BY <2>2
  <1>2. ASSUME NEW top \in Nat, top \in S PROVE top + 1 \in S
    <2> SUFFICES ASSUME top + 1 <= n PROVE \E f : f = [q \in 1..(top + 1) |-> ShiftBy(f, q, lo)]
      OBVIOUS
    <2>0. top <= n
      OBVIOUS
    <2>1. PICK t : t = [q \in 1..top |-> ShiftBy(t, q, lo)]
      BY <1>2, <2>0
    <2>2. \A q \in 1..top : t[q] = ShiftBy(t, q, lo)
      BY <2>1, Zenon
    <2> DEFINE w == [q \in 1..(top + 1) |-> IF q \in 1..top THEN t[q] ELSE ShiftBy(t, q, lo)]
    <2>3. ASSUME NEW q \in 1..(top + 1) PROVE w[q] = ShiftBy(w, q, lo)
      <3>0. q \in 1..n /\ prev[q] = q - 1
        <4>1. q \in 1..n
          OBVIOUS
        <4> QED
          BY <4>1
      <3>1. prev[q] = Null \/ (prev[q] \in 1..top /\ prev[q] \in 1..(top + 1))
        BY <3>0 DEF Null
      <3>2. prev[q] = Null \/ w[prev[q]] = t[prev[q]]
        BY <3>1
      <3>3. w[q] = ShiftBy(t, q, lo)
        BY <2>2
      <3> HIDE DEF w
      <3> QED
        BY <3>2, <3>3 DEF ShiftBy, Stays
    <2>4. w = [q \in 1..(top + 1) |-> w[q]]
      OBVIOUS
    <2> HIDE DEF w
    <2>5. w = [q \in 1..(top + 1) |-> ShiftBy(w, q, lo)]
      BY <2>3, <2>4, Zenon
    <2> QED
      BY <2>5
  <1>3. Nat \subseteq S
    <2> HIDE DEF S
    <2> QED
      BY <1>1, <1>2, SetInduction
  <1>4. n \in S /\ n <= n
    BY <1>3
  <1>5. \E f : f = [q \in 1..n |-> ShiftBy(f, q, lo)]
    BY <1>4
  <1> QED
    BY <1>5, Zenon DEF ShiftsAll

\* The scan starts at or before the leaf of the descent, behind a leaf of keys that
\* are all smaller than lo.
LEMMA ShiftedAt ==
  ASSUME NEW L, NEW n, Linked(L, n), NEW lo \in Int, NEW p \in 1..n
  PROVE  ShiftedLeft(p, lo) \in 1..n /\ Stays(ShiftedLeft(p, lo), lo)
  <1> DEFINE from[q \in DOMAIN prev] ==
               IF \/ prev[q] = Null
                  \/ KeysAt(prev[q]) = <<>>
                  \/ Last(KeysAt(prev[q])) < lo
               THEN q
               ELSE from[prev[q]]
  <1>1. n \in Nat /\ DOMAIN prev = 1..n /\ \A q \in 1..n : prev[q] = q - 1
    BY DEF Linked
  <1>2. ShiftedLeft(p, lo) = from[p]
    BY Zenon DEF ShiftedLeft
  <1>3. from = [q \in DOMAIN prev |-> ShiftBy(from, q, lo)]
    <2>1. \E f : ShiftsAll(f, lo, n)
      BY <1>1, ShiftExist
    <2>2. \E f : f = [q \in DOMAIN prev |-> ShiftBy(f, q, lo)]
      BY <1>1, <2>1, Zenon DEF ShiftsAll
    <2> QED
      BY <2>2, Zenon DEF from, ShiftBy, Stays
  <1> HIDE DEF from
  <1>4. \A q \in 1..n : from[q] = ShiftBy(from, q, lo)
    BY <1>1, <1>3, Zenon
  <1> DEFINE G == {k \in Nat : k + 1 <= n => from[k + 1] \in 1..n /\ Stays(from[k + 1], lo)}
  <1>5. 0 \in G
    <2> SUFFICES ASSUME 1 <= n PROVE from[1] \in 1..n /\ Stays(from[1], lo)
      OBVIOUS
    <2>1. 1 \in 1..n /\ prev[1] = Null
      BY <1>1 DEF Null
    <2>2. from[1] = 1 /\ Stays(1, lo)
      BY <1>4, <2>1 DEF ShiftBy, Stays
    <2> QED
      BY <2>1, <2>2
  <1>6. \A k \in Nat : k \in G => k + 1 \in G
    <2> SUFFICES ASSUME NEW k \in Nat, k \in G, (k + 1) + 1 <= n
                 PROVE  from[(k + 1) + 1] \in 1..n /\ Stays(from[(k + 1) + 1], lo)
      OBVIOUS
    <2> DEFINE q == (k + 1) + 1
    <2>1. q \in 1..n /\ prev[q] = k + 1 /\ k + 1 <= n
      BY <1>1
    <2>2. from[k + 1] \in 1..n /\ Stays(from[k + 1], lo)
      BY <2>1
    <2> HIDE DEF q
    <2>3. from[q] \in 1..n /\ Stays(from[q], lo)
      BY <1>4, <2>1, <2>2 DEF ShiftBy
    <2> QED
      BY <2>3 DEF q
  <1>7. Nat \subseteq G
    <2> HIDE DEF G
    <2> QED
      BY <1>5, <1>6, SetInduction
  <1>8. p - 1 \in Nat /\ (p - 1) + 1 = p /\ p <= n
    BY <1>1
  <1>9. from[p] \in 1..n /\ Stays(from[p], lo)
    BY <1>7, <1>8
  <1> QED
    BY <1>2, <1>9

\* The keys before that leaf are smaller than lo.
LEMMA SmallerBefore ==
  ASSUME NEW L, NEW n, Linked(L, n), NEW lo \in Int, NEW p \in 1..n, Stays(p, lo)
  PROVE  \A i \in 1..Len(Until(L, p)) : Until(L, p)[i] < lo
  <1>1. /\ L = Leaves[root] /\ L \in Seq(Seq(Keys)) /\ Len(L) = n /\ n \in Nat
        /\ prev[p] = p - 1 /\ (n = 1 \/ \A q \in 1..n : L[q] # <<>>) /\ Sorted(Flat(L))
    BY DEF Linked
  <1>2. CASE p = 1
    <2>1. SubSeq(L, 1, p - 1) = <<>>
      BY <1>1, <1>2
    <2>2. Until(L, p) = <<>>
      BY <2>1, FlatNil DEF Until
    <2> QED
      BY <2>2
  <1>3. CASE p # 1
    <2> DEFINE S == Seq(Keys)
               a == SubSeq(L, 1, p - 1)
               r == L[p - 1]
               u == Until(L, p)
    <2>1. p - 1 \in 1..n /\ p - 1 # 0 /\ n # 1 /\ p \in 1..(Len(L) + 1) /\ p \in 1..Len(L)
      BY <1>1, <1>3
    <2>2. r # <<>> /\ r \in Seq(Keys) /\ Last(r) < lo
      <3>1. KeysAt(prev[p]) = r
        BY <1>1 DEF KeysAt
      <3>2. r # <<>> /\ r \in Seq(Keys)
        BY <1>1, <2>1
      <3> QED
        BY <1>1, <2>1, <3>1, <3>2 DEF Stays, Null
    <2>3. a \in Seq(S) /\ Len(a) = p - 1 /\ a[p - 1] = r
      <3>1. p - 1 \in 1..(p - 1)
        BY <2>1
      <3>2. a \in Seq(S) /\ Len(a) = p - 1 /\ \A i \in 1..(p - 1) : a[i] = L[i]
        BY <1>1, <2>1, CutAt
      <3> QED
        BY <3>1, <3>2
    <2>4. u = Flat(a) /\ u \in Seq(Keys) /\ Sorted(u)
      <3>1. u \in Seq(Keys) /\ From(L, p) \in Seq(Keys) /\ Flat(L) = Cat(u, From(L, p))
        BY <1>1, <2>1, RowsCut
      <3> DEFINE y == From(L, p)
      <3>2. u = Flat(a)
        BY DEF Until
      <3>3. Sorted(Cat(u, y)) /\ u \in Seq(Keys) /\ y \in Seq(Keys)
        BY <1>1, <3>1
      <3> HIDE DEF u, y
      <3>4. Sorted(u)
        BY <3>3, SortedCat
      <3> QED
        BY <3>1, <3>2, <3>4
    <2> HIDE DEF a, r, u
    <2>5. a # <<>> /\ Last(a) = r
      <3>1. Len(a) # 0
        BY <2>1, <2>3
      <3>2. a # <<>>
        BY <3>1
      <3>3. Last(a) = a[Len(a)]
        BY DEF Last
      <3> QED
        BY <2>3, <3>2, <3>3
    <2>6. /\ Front(a) \in Seq(S) /\ a = Cat(Front(a), One(r))
      BY <2>3, <2>5, LastOff
    <2> DEFINE b == Front(a)
               x == Flat(b)
    <2>7. u = Cat(x, r) /\ x \in Seq(Keys)
      <3>1. b \in Seq(Seq(Keys)) /\ a = Cat(b, One(r))
        BY <2>6
      <3> HIDE DEF b
      <3>2. One(r) \in Seq(Seq(Keys)) /\ Flat(One(r)) = r
        BY <2>2, OneIs, FlatOne
      <3>3. Flat(Cat(b, One(r))) = Cat(Flat(b), Flat(One(r)))
        BY <3>1, <3>2, FlatCat
      <3>4. Flat(b) \in Seq(Keys)
        BY <3>1, FlatType
      <3> QED
        BY <2>4, <3>1, <3>2, <3>3, <3>4
    <2> HIDE DEF x, b
    <2>8. PICK z : z \in Seq(Keys) /\ u = Cat(z, One(Last(r)))
      <3> DEFINE f == Front(r)
                 l == One(Last(r))
      <3>1. Last(r) \in Keys /\ f \in Seq(Keys) /\ r = Cat(f, l)
        BY <2>2, LastOff
      <3>2. l \in Seq(Keys)
        BY <3>1, OneIs
      <3>e. l = One(Last(r))
        OBVIOUS
      <3> HIDE DEF f, l
      <3>3. Cat(x, Cat(f, l)) = Cat(Cat(x, f), l)
        BY <2>7, <3>1, <3>2, CatAssoc
      <3>4. Cat(x, f) \in Seq(Keys)
        BY <2>7, <3>1, CatType
      <3> QED
        BY <2>7, <3>1, <3>3, <3>4, <3>e
    <2> DEFINE e == Last(r)
    <2>9. e \in Keys /\ e \in Int /\ e < lo
      BY <2>2, LastOff, BoundIsNat
    <2> HIDE DEF e
    <2>10. u = Cat(z, One(e)) /\ One(e) \in Seq(Keys) /\ Len(One(e)) = 1 /\ One(e)[1] = e
      BY <2>8, <2>9, OneIs DEF e
    <2> DEFINE w == One(e)
    <2>11. /\ Len(u) = Len(z) + 1 /\ u[Len(z) + 1] = e
      <3>1. w \in Seq(Keys) /\ Len(w) = 1 /\ w[1] = e /\ 1 \in 1..Len(w) /\ u = Cat(z, w) /\ z \in Seq(Keys)
        BY <2>8, <2>10
      <3> HIDE DEF w
      <3>2. Len(Cat(z, w)) = Len(z) + Len(w)
        BY ONLY <3>1, CatType
      <3>3. \A j \in 1..Len(w) : Cat(z, w)[Len(z) + j] = w[j]
        BY ONLY <3>1, CatSecond
      <3> QED
        BY <3>1, <3>2, <3>3
    <2>12. \A i \in 1..Len(u) : u[i] < lo
      <3> TAKE i \in 1..Len(u)
      <3>1. Len(u) \in 1..Len(u) /\ i <= Len(u)
        BY <2>4, <2>8, <2>11
      <3>2. u[i] <= u[Len(u)]
        BY <2>4, <3>1 DEF Sorted
      <3>3. u[i] \in Int
        BY <2>4, KeysAreNumbers
      <3> QED
        BY <2>9, <2>11, <3>2, <3>3
    <2> QED
      BY <2>12 DEF u
  <1> QED
    BY <1>2, <1>3

\* Whether the scan ends at leaf q, and one step of it.
Ends(q, hi) == (\E k \in ToSet(KeysAt(q)) : k > hi) \/ next[q] = Null
CollectBy(f, q, lo, hi) ==
    LET here == Within(KeysAt(q), lo, hi) IN IF Ends(q, hi) THEN here ELSE here \o f[next[q]]

\* What is still to be collected at leaf q.
Rest(L, q, lo, hi) == Within(From(L, q), lo, hi)

\* One step of the scan collects what is in the range from its leaf on.
LEMMA RestIs ==
  ASSUME NEW L, NEW n, Linked(L, n), NEW lo \in Int, NEW hi \in Int, NEW q \in 1..n, NEW f,
         q # n => f[q + 1] = Rest(L, q + 1, lo, hi)
  PROVE  CollectBy(f, q, lo, hi) = Rest(L, q, lo, hi)
  <1>1. /\ L = Leaves[root] /\ L \in Seq(Seq(Keys)) /\ Len(L) = n /\ n \in Nat
        /\ next[q] = Onward(q, n) /\ Sorted(Flat(L))
    BY DEF Linked
  <1> DEFINE r == L[q]
             y == From(L, q + 1)
             u == Until(L, q)
             z == From(L, q)
  <1>2. /\ u \in Seq(Keys) /\ z \in Seq(Keys) /\ y \in Seq(Keys) /\ Flat(L) = Cat(u, z)
        /\ z = Cat(r, y) /\ (q = n => y = <<>>)
    BY <1>1, RowsCut
  <1>3. r \in Seq(Keys) /\ KeysAt(q) = r
    BY <1>1 DEF KeysAt
  <1>y. Rest(L, q + 1, lo, hi) = Within(y, lo, hi) /\ Rest(L, q, lo, hi) = Within(z, lo, hi)
    BY DEF Rest
  <1> HIDE DEF r, y, u, z
  <1>4. Sorted(z)
    <2>1. Sorted(Cat(u, z))
      BY <1>1, <1>2
    <2> QED
      BY <1>2, <2>1, SortedCat
  <1>5. InOrder(r, y)
    <2>1. Sorted(Cat(r, y))
      BY <1>2, <1>4
    <2> QED
      BY <1>2, <1>3, <2>1, SortedCat
  <1>6. /\ Within(z, lo, hi) = Cat(Within(r, lo, hi), Within(y, lo, hi))
        /\ Within(r, lo, hi) \in Seq(Keys) /\ Within(y, lo, hi) \in Seq(Keys)
    <2>1. /\ Within(Cat(r, y), lo, hi) = Cat(Within(r, lo, hi), Within(y, lo, hi))
          /\ Within(r, lo, hi) \in Seq(Keys)
      BY <1>2, <1>3, WithinCat
    <2>2. Within(y, lo, hi) \in Seq(Keys)
      BY <1>2, WithinCat
    <2> QED
      BY <1>2, <2>1, <2>2
  <1>7. CASE Ends(q, hi)
    <2>1. Within(y, lo, hi) = <<>>
      <3>1. CASE q = n
        <4>1. y = <<>>
          BY <1>2, <3>1
        <4>2. \A i \in 1..Len(y) : ~InRange(y[i], lo, hi)
          BY <4>1
        <4> QED
          BY <1>2, <4>2, WithinNone
      <3>2. CASE q # n
        <4>1. next[q] # Null
          BY <1>1, <3>2 DEF Onward, Null
        <4>2. PICK k \in ToSet(r) : k > hi
          BY <1>3, <1>7, <4>1 DEF Ends
        <4>3. PICK j \in 1..Len(r) : r[j] = k
          BY <1>3, <4>2 DEF ToSet
        <4>4. ASSUME NEW i \in 1..Len(y) PROVE ~InRange(y[i], lo, hi)
          <5>1. r[j] <= y[i]
            BY <1>5 DEF InOrder
          <5>2. r[j] \in Int /\ y[i] \in Int
            BY <1>2, <1>3, KeysAreNumbers
          <5> QED
            BY <4>2, <4>3, <5>1, <5>2 DEF InRange
        <4> QED
          BY <1>2, <4>4, WithinNone
      <3> QED
        BY <3>1, <3>2
    <2>2. CollectBy(f, q, lo, hi) = Within(r, lo, hi)
      BY <1>3, <1>7 DEF CollectBy
    <2>3. Cat(Within(r, lo, hi), <<>>) = Within(r, lo, hi)
      BY <1>6, CatNil
    <2> QED
      BY <1>6, <1>y, <2>1, <2>2, <2>3
  <1>8. CASE ~Ends(q, hi)
    <2>1. q # n /\ next[q] = q + 1
      BY <1>1, <1>8 DEF Ends, Onward, Null
    <2>2. CollectBy(f, q, lo, hi) = Cat(Within(r, lo, hi), f[q + 1])
      BY <1>3, <1>8, <2>1 DEF CollectBy, Cat
    <2> QED
      BY <1>6, <1>y, <2>1, <2>2
  <1> QED
    BY <1>7, <1>8

\* From leaf p on, the scan collects what is in the range.
LEMMA CollectedIs ==
  ASSUME NEW L, NEW n, Linked(L, n), NEW lo \in Int, NEW hi \in Int, NEW p \in 1..n
  PROVE  Collected(p, lo, hi) = Rest(L, p, lo, hi)
  <1> DEFINE from[q \in DOMAIN next] ==
               LET here == Within(KeysAt(q), lo, hi)
                   done == \E k \in ToSet(KeysAt(q)) : k > hi
               IN  IF done \/ next[q] = Null THEN here ELSE here \o from[next[q]]
  <1>1. n \in Nat /\ DOMAIN next = 1..n
    BY DEF Linked
  <1>2. Collected(p, lo, hi) = from[p]
    BY Zenon DEF Collected
  <1>3. from = [q \in DOMAIN next |-> CollectBy(from, q, lo, hi)]
    <2> DEFINE g == [q \in 1..n |-> Rest(L, q, lo, hi)]
    <2>1. ASSUME NEW q \in 1..n PROVE CollectBy(g, q, lo, hi) = g[q]
      <3>1. q # n => g[q + 1] = Rest(L, q + 1, lo, hi)
        <4>1. q # n => q + 1 \in 1..n
          BY <1>1
        <4> QED
          BY <4>1
      <3>2. g[q] = Rest(L, q, lo, hi)
        OBVIOUS
      <3> HIDE DEF g
      <3> QED
        BY <3>1, <3>2, RestIs
    <2>2. g = [q \in 1..n |-> g[q]]
      OBVIOUS
    <2> HIDE DEF g
    <2>3. g = [q \in DOMAIN next |-> CollectBy(g, q, lo, hi)]
      BY <1>1, <2>1, <2>2, Zenon
    <2>4. \E f : f = [q \in DOMAIN next |-> CollectBy(f, q, lo, hi)]
      BY <2>3, Zenon
    <2> QED
      BY <2>4, Zenon DEF from, CollectBy, Ends
  <1> HIDE DEF from
  <1>4. \A q \in 1..n : from[q] = CollectBy(from, q, lo, hi)
    BY <1>1, <1>3, Zenon
  <1> DEFINE G == {k \in Nat : k < n => from[n - k] = Rest(L, n - k, lo, hi)}
  <1>5. 0 \in G
    <2> SUFFICES ASSUME 0 < n PROVE from[n - 0] = Rest(L, n - 0, lo, hi)
      OBVIOUS
    <2>1. n - 0 = n /\ n \in 1..n
      BY <1>1
    <2>2. n # n => from[n + 1] = Rest(L, n + 1, lo, hi)
      OBVIOUS
    <2>3. CollectBy(from, n, lo, hi) = Rest(L, n, lo, hi)
      BY <2>1, <2>2, RestIs
    <2> QED
      BY <1>4, <2>1, <2>3
  <1>6. \A k \in Nat : k \in G => k + 1 \in G
    <2> SUFFICES ASSUME NEW k \in Nat, k \in G, k + 1 < n
                 PROVE  from[n - (k + 1)] = Rest(L, n - (k + 1), lo, hi)
      OBVIOUS
    <2> DEFINE q == n - (k + 1)
    <2>1. q \in 1..n /\ q + 1 = n - k /\ k < n
      BY <1>1
    <2>2. from[q + 1] = Rest(L, q + 1, lo, hi)
      BY <2>1
    <2> HIDE DEF q
    <2>3. CollectBy(from, q, lo, hi) = Rest(L, q, lo, hi)
      BY <2>1, <2>2, RestIs
    <2>4. from[q] = Rest(L, q, lo, hi)
      BY <1>4, <2>1, <2>3
    <2> QED
      BY <2>4 DEF q
  <1>7. Nat \subseteq G
    <2> HIDE DEF G
    <2> QED
      BY <1>5, <1>6, SetInduction
  <1>8. n - p \in Nat /\ n - p < n /\ n - (n - p) = p
    BY <1>1
  <1>9. from[p] = Rest(L, p, lo, hi)
    <2> DEFINE k == n - p
    <2>1. k \in Nat /\ k < n /\ n - k = p
      BY <1>8
    <2> HIDE DEF k
    <2> QED
      BY <1>7, <2>1
  <1> QED
    BY <1>2, <1>9

\* By the invariant, getRange returns the keys of the range.
LEMMA InvRanges ==
  ASSUME 2 \notin Orders, TreeInv
  PROVE  RangesAreExact
  <1> SUFFICES ASSUME NEW lo \in Keys, NEW hi \in Keys PROVE getRange(lo, hi) = Within(Content, lo, hi)
    BY DEF RangesAreExact
  <1>1. lo \in Int /\ hi \in Int
    BY BoundIsNat
  <1>2. PICK L, n : Linked(L, n)
    BY LinkedIs
  <1>3. L = Leaves[root] /\ L \in Seq(Seq(Keys)) /\ Len(L) = n /\ n \in Nat
    BY <1>2 DEF Linked
  <1>4. Content = Flat(L)
    BY <1>3, ContentIs DEF KeysOf
  <1>5. CASE lo > hi
    <2> DEFINE s == Content
    <2>1. s \in Seq(Keys)
      BY <1>3, <1>4, FlatType
    <2> HIDE DEF s
    <2>2. \A i \in 1..Len(s) : ~InRange(s[i], lo, hi)
      <3> TAKE i \in 1..Len(s)
      <3>1. s[i] \in Int
        BY <2>1, KeysAreNumbers
      <3> QED
        BY <1>1, <1>5, <3>1 DEF InRange
    <2>3. Within(s, lo, hi) = <<>>
      BY <2>1, <2>2, WithinNone
    <2>4. getRange(lo, hi) = <<>>
      BY <1>5 DEF getRange
    <2> QED
      BY <2>3, <2>4 DEF s
  <1>6. CASE ~(lo > hi)
    <2> DEFINE d == Descended(root, lo)
               p == ShiftedLeft(d, lo)
               u == Until(L, p)
               z == From(L, p)
    <2>1. d \in 1..n
      <3>1. root \in Nodes
        <4>1. PICK h : RootHas(h)
          BY RootIsSound
        <4> QED
          BY <4>1 DEF RootHas
      <3> QED
        BY <1>1, <1>3, <3>1, DescendedAt
    <2> HIDE DEF d
    <2>2. p \in 1..n /\ Stays(p, lo)
      BY <1>1, <1>2, <2>1, ShiftedAt
    <2>p. p = ShiftedLeft(Descended(root, lo), lo)
      BY DEF d
    <2> HIDE DEF p
    <2>3. getRange(lo, hi) = Collected(p, lo, hi)
      BY <1>6, <2>p, Zenon DEF getRange
    <2>4. Collected(p, lo, hi) = Within(z, lo, hi)
      BY <1>1, <1>2, <2>2, CollectedIs DEF Rest
    <2>5. u \in Seq(Keys) /\ z \in Seq(Keys) /\ Flat(L) = Cat(u, z)
      BY <1>3, <2>2, RowsCut
    <2>6. \A i \in 1..Len(u) : u[i] < lo
      BY <1>1, <1>2, <2>2, SmallerBefore
    <2> HIDE DEF u, z
    <2>7. \A i \in 1..Len(u) : ~InRange(u[i], lo, hi)
      <3> TAKE i \in 1..Len(u)
      <3>1. u[i] \in Int /\ u[i] < lo
        BY <2>5, <2>6, KeysAreNumbers
      <3> QED
        BY <1>1, <3>1 DEF InRange
    <2>8. Within(u, lo, hi) = <<>>
      BY <2>5, <2>7, WithinNone
    <2>9. Within(Cat(u, z), lo, hi) = Cat(Within(u, lo, hi), Within(z, lo, hi)) /\ Within(z, lo, hi) \in Seq(Keys)
      BY <2>5, WithinCat
    <2>10. Cat(<<>>, Within(z, lo, hi)) = Within(z, lo, hi)
      BY <2>9, CatNil
    <2> QED
      BY <1>4, <2>3, <2>4, <2>5, <2>8, <2>9, <2>10
  <1> QED
    BY <1>5, <1>6

\* getRange returns every key of its range with its repetitions, in order, and no
\* other, whatever splits and merges made of the leaves.
THEOREM RangesHold ==
  ASSUME 2 \notin Orders
  PROVE  Spec => []RangesAreExact
  <1>1. TreeInv => RangesAreExact
    BY InvRanges
  <1> QED
    BY <1>1, TreeInvariant, PTL

=============================================================================
