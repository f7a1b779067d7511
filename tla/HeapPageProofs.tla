--------------------------- MODULE HeapPageProofs ---------------------------
(***************************************************************************)
(* Proofs about HeapPage, for every page size, every set of tuples and any *)
(* number of calls.                                                        *)
(*                                                                         *)
(*   1. GapCorrect, DisjointCorrect, ReadsBackCorrect: until a tuple is    *)
(*      replaced by a larger one, the page is intact.                      *)
(*   2. GrowthCorrect: what the first such replacement leaves intact.      *)
(*                                                                         *)
(* The properties of HeapPage are not inductive: that the tuples are       *)
(* disjoint says nothing of their order, and an insertion needs to know    *)
(* that all of them lie above free_space_end.  WellFormed (module          *)
(* HeapPageOpsProofs) says both, and each operation keeps it.              *)
(***************************************************************************)
EXTENDS HeapPage, HeapPageOpsProofs, WellFoundedInduction

Rows == Tuples \cup {<<>>}

-----------------------------------------------------------------------------
(***************************************************************************)
(* 1. The page is intact until a tuple grows.                              *)
(***************************************************************************)

Inv ==
    /\ rows \in Seq(Rows)
    /\ grows \in 0..MaxGrows
    /\ BeforeGrowth => Intact(page, rows)

\* Tuples are sequences of words.
LEMMA RowsAreTuples ==
    /\ Tuples \subseteq Seq(Nat)
    /\ rows \in Seq(Rows) => rows \in Seq(Seq(Nat))
<1>1. <<>> \in Seq(Nat)
  OBVIOUS
<1>2. Rows \subseteq Seq(Nat)
  BY <1>1, PageAssumption DEF Rows
<1> QED BY <1>2, PageAssumption

LEMMA InitInv == Init => Inv
<1> SUFFICES ASSUME Init PROVE Inv
  OBVIOUS
<1>1. <<>> \in Seq(Rows) /\ ZeroPage \in Pages
  BY DEF Pages, ZeroPage
<1>2. 0 \in 0..MaxGrows
  BY PageAssumption
<1> QED BY <1>1, <1>2 DEF Init, Inv, Intact

\* What a call finds before a tuple has grown.
LEMMA OpenedPage ==
    ASSUME Inv, BeforeGrowth
    PROVE  Opened(page) \in Pages /\ WellFormed(Opened(page), rows)
BY OpenedIsWellFormed, RowsAreTuples DEF Inv, Intact

LEMMA NextInv == Inv /\ [Next]_vars => Inv'
<1> SUFFICES ASSUME Inv, [Next]_vars PROVE Inv'
  OBVIOUS
<1> DEFINE pg == Opened(page)
<1>1. rows \in Seq(Rows) /\ grows \in 0..MaxGrows /\ grows \in Nat /\ MaxGrows \in Nat
  BY PageAssumption DEF Inv
<1>2. BeforeGrowth => pg \in Pages /\ WellFormed(pg, rows)
  BY OpenedPage
<1>3. Tuples \subseteq Rows /\ <<>> \in Rows
  BY DEF Rows
<1>4. Slots = SlotsOf(rows) /\ rows \in Seq(Seq(Nat)) /\ Tuples \subseteq Seq(Nat)
  BY <1>1, RowsAreTuples DEF Slots, SlotsOf
<1> HIDE DEF pg
<1>5. ASSUME NEW t \in Tuples, InsertTuple(t) PROVE Inv'
  <2>1. rows' = Append(rows, t) /\ page' = Inserted(pg, t) /\ Fits(pg, t) /\ grows' = grows
    BY <1>5 DEF InsertTuple, pg
  <2>2. rows' \in Seq(Rows)
    BY <1>1, <1>3, <2>1
  <2>3. BeforeGrowth => page' \in Pages /\ WellFormed(page', rows')
    BY <1>2, <1>4, <2>1, InsertedIsWellFormed
  <2> QED BY <1>1, <2>1, <2>2, <2>3 DEF Inv, Intact, BeforeGrowth
<1>6. ASSUME NEW t \in Tuples, InsertRefused(t) PROVE Inv'
  <2>1. rows' = rows /\ page' = pg /\ grows' = grows
    BY <1>6 DEF InsertRefused, pg
  <2> QED BY <1>1, <1>2, <2>1 DEF Inv, Intact, BeforeGrowth
<1>7. ASSUME NEW i \in Slots, NEW row \in Rows
      PROVE  [rows EXCEPT ![i + 1] = row] \in Seq(Rows)
  <2>1. i + 1 \in 1..Len(rows)
    BY <1>4, RowsAreSequences
  <2> QED BY <1>1, <2>1
<1>8. ASSUME NEW t \in Tuples, NEW i \in Slots, ChangeInPlace(i, t) PROVE Inv'
  <2>1. /\ Len(t) <= length(pg, i) /\ page' = changeTuple(pg, i, t)
        /\ rows' = [rows EXCEPT ![i + 1] = t] /\ grows' = grows
    BY <1>8 DEF ChangeInPlace, ChangeTuple, pg
  <2>2. ASSUME BeforeGrowth PROVE page' \in Pages /\ WellFormed(page', rows')
    <3>1. length(pg, i) \in Nat
      BY <1>2, <1>4, <2>2, PlaceOfSlot
    <3>2. Len(t) \in Nat
      BY PageAssumption
    <3>3. ~(SizeDiff(pg, i, t) > 0)
      BY <2>1, <3>1, <3>2 DEF SizeDiff
    <3>4. page' = Rewritten(pg, i, t)
      BY <2>1, <3>3 DEF changeTuple
    <3> QED BY <1>2, <1>4, <2>1, <2>2, <3>4, RewrittenIsWellFormed
  <2> QED BY <1>1, <1>3, <1>7, <2>1, <2>2 DEF Inv, Intact, BeforeGrowth
<1>9. ASSUME NEW t \in Tuples, NEW i \in Slots, ChangeToLarger(i, t) PROVE Inv'
  <2>1. rows' = [rows EXCEPT ![i + 1] = t] /\ grows' = grows + 1 /\ grows < MaxGrows
    BY <1>9 DEF ChangeToLarger, ChangeTuple
  <2>2. grows' \in 0..MaxGrows /\ grows' # 0
    BY <1>1, <2>1
  <2> QED BY <1>3, <1>7, <2>1, <2>2 DEF Inv, BeforeGrowth
<1>10. ASSUME NEW i \in Slots, ApplyDelete(i) PROVE Inv'
  <2>1. /\ page' = applyDelete(pg, i) /\ rows' = [rows EXCEPT ![i + 1] = <<>>]
        /\ grows' = grows
    BY <1>10 DEF ApplyDelete, pg
  <2>2. BeforeGrowth => page' \in Pages /\ WellFormed(page', rows')
    BY <1>2, <1>4, <2>1, DeletedIsWellFormed
  <2> QED BY <1>1, <1>3, <1>7, <2>1, <2>2 DEF Inv, Intact, BeforeGrowth
<1>11. CASE UNCHANGED vars
  BY <1>11 DEF vars, Inv, BeforeGrowth
<1> QED BY <1>5, <1>6, <1>8, <1>9, <1>10, <1>11 DEF Next

LEMMA Invariant == Spec => []Inv
BY InitInv, NextInv, PTL DEF Spec

\* The three properties of an intact page.
LEMMA WellFormedPages ==
    Inv /\ BeforeGrowth => FreeSpaceIsTheGap /\ TuplesAreDisjoint /\ ReadsBack
<1> SUFFICES ASSUME Inv, BeforeGrowth
             PROVE  FreeSpaceIsTheGap /\ TuplesAreDisjoint /\ ReadsBack
  OBVIOUS
<1>1. page \in Pages /\ rows \in Seq(Seq(Nat)) /\ Slots = SlotsOf(rows)
  BY RowsAreTuples DEF Inv, Intact, Slots, SlotsOf
<1>2. CASE WellFormed(page, rows)
  <2>1. ASSUME NEW i \in Slots
        PROVE  /\ offset(page, i) \in Nat /\ length(page, i) \in Nat
               /\ free_space_end(page) <= offset(page, i)
               /\ offset(page, i) + length(page, i) <= PageSize
    BY <1>1, <1>2, PlaceOfSlot
  <2>2. free_space_end(page) \in Nat /\ PageSize \in Nat
    BY <1>1, Sizes DEF Pages, free_space_end
  <2>3. ASSUME NEW i \in Slots
        PROVE  Extent(i) \subseteq free_space_end(page)..(PageSize - 1)
    BY <2>1, <2>2 DEF Extent
  <2>4. FreeSpaceIsTheGap
    BY <1>1, <1>2, <2>3 DEF FreeSpaceIsTheGap, WellFormed
  <2>5. ASSUME NEW i \in Slots, NEW j \in Slots, i < j
        PROVE  Extent(i) \cap Extent(j) = {}
    <3>1. offset(page, j) + length(page, j) <= offset(page, i)
      BY <1>1, <1>2, <2>5 DEF WellFormed
    <3> QED BY <2>1, <3>1 DEF Extent
  <2>6. TuplesAreDisjoint
    <3>1. \A i, j \in Slots : i < j \/ j < i \/ i = j
      BY DEF Slots
    <3> QED BY <2>5, <3>1 DEF TuplesAreDisjoint
  <2>7. ReadsBack
    <3>1. SUFFICES ASSUME NEW i \in Slots PROVE getTuple(page, i) = rows[i + 1]
      BY DEF ReadsBack, Row
    <3>2. Placed(page, i, rows[i + 1]) /\ rows[i + 1] \in Seq(Nat)
      BY <1>1, <1>2, RowsAreSequences DEF WellFormed
    <3> QED BY <3>2, PlacedReadsBack
  <2> QED BY <2>4, <2>6, <2>7
<1>3. CASE page = ZeroPage /\ rows = <<>>
  <2>1. Slots = {}
    BY <1>3 DEF Slots
  <2> QED BY <1>3, <2>1 DEF FreeSpaceIsTheGap, TuplesAreDisjoint, ReadsBack
<1> QED BY <1>2, <1>3 DEF Inv, Intact

\* Until a tuple is replaced by a larger one, whatever else is called, no word of
\* the page leaves its type: no offset or length goes below zero.
THEOREM TypeCorrect == Spec => [](BeforeGrowth => TypeOK)
<1>1. Inv => (BeforeGrowth => TypeOK)
  BY DEF Inv, Intact, TypeOK, Pages, Rows
<1> QED BY <1>1, Invariant, PTL

\* Under the same condition: the directory grows from the front, the tuples from the back, and the
\* free space of the header is the gap between them.
THEOREM GapCorrect == Spec => []GapBeforeGrowth
<1>1. Inv => GapBeforeGrowth
  BY WellFormedPages DEF GapBeforeGrowth
<1> QED BY <1>1, Invariant, PTL

\* No two tuples share a word.
THEOREM DisjointCorrect == Spec => []DisjointBeforeGrowth
<1>1. Inv => DisjointBeforeGrowth
  BY WellFormedPages DEF DisjointBeforeGrowth
<1> QED BY <1>1, Invariant, PTL

\* Every slot reads back what was last stored in it, for tuples and pages of any
\* size and any interleaving of the calls.
THEOREM ReadsBackCorrect == Spec => []ReadsBackBeforeGrowth
<1>1. Inv => ReadsBackBeforeGrowth
  BY WellFormedPages DEF ReadsBackBeforeGrowth
<1> QED BY <1>1, Invariant, PTL

-----------------------------------------------------------------------------
(***************************************************************************)
(* 2. The first tuple that grows.                                          *)
(***************************************************************************)

\* Induction, on a set of numbers rather than a predicate.
LEMMA SetInduction ==
    ASSUME NEW S, 0 \in S, \A n \in Nat : n \in S => n + 1 \in S
    PROVE  Nat \subseteq S
<1> DEFINE T == Nat \ S
<1>1. SUFFICES ASSUME T # {} PROVE FALSE
  OBVIOUS
<1>2. PICK x \in T : \A y \in T : ~ (<<y, x>> \in OpToRel(<, Nat))
  <2>1. T \subseteq Nat
    OBVIOUS
  <2>2. IsWellFoundedOn(OpToRel(<, Nat), Nat)
    BY NatLessThanWellFounded
  <2> HIDE DEF T
  <2> QED BY <1>1, <2>1, <2>2, WFMin
<1>3. \A y \in T : ~(y < x)
  BY <1>2 DEF OpToRel
<1>4. x # 0 /\ x \in Nat /\ x \notin S
  OBVIOUS
<1>5. x - 1 \in Nat /\ x - 1 \in S
  BY <1>3, <1>4
<1> QED BY <1>4, <1>5

\* h[j] is the page after the turn for slot j, from page pg on.
AreTurns(h, pg, i, last, d) ==
    h = [j \in i..last |-> IF j = i THEN pg ELSE MovedDown(h[j - 1], j, d)]

\* The loop of changeTuple is well defined: its pages exist, for any number of turns.
LEMMA TurnsExist ==
    ASSUME NEW pg, NEW i \in Nat, NEW d
    PROVE  \A n \in Nat : \E h : AreTurns(h, pg, i, i + n, d)
<1> DEFINE S == {n \in Nat : \E h : AreTurns(h, pg, i, i + n, d)}
<1>1. 0 \in S
  <2> DEFINE h == [j \in i..(i + 0) |-> pg]
  <2>1. \A j \in i..(i + 0) : j = i
    OBVIOUS
  <2>2. AreTurns(h, pg, i, i + 0, d)
    BY <2>1 DEF AreTurns
  <2> HIDE DEF h
  <2> QED BY <2>2
<1>2. ASSUME NEW n \in Nat, n \in S PROVE n + 1 \in S
  <2>1. PICK h : h = [j \in i..(i + n) |->
                        IF j = i THEN pg ELSE MovedDown(h[j - 1], j, d)]
    BY <1>2 DEF AreTurns
  <2> DEFINE more == i..(i + (n + 1))
             g == [j \in more |-> IF j \in i..(i + n) THEN h[j]
                                  ELSE MovedDown(h[j - 1], j, d)]
  <2>2. ASSUME NEW j \in more
        PROVE  g[j] = IF j = i THEN pg ELSE MovedDown(g[j - 1], j, d)
    <3>1. CASE j = i
      <4>1. j \in i..(i + n)
        BY <3>1
      <4>2. h[j] = pg
        BY <2>1, <3>1, <4>1
      <4> QED BY <3>1, <4>1, <4>2
    <3>2. CASE j # i
      <4>1. j - 1 \in i..(i + n) /\ j - 1 \in more
        BY <3>2
      <4>2. g[j - 1] = h[j - 1]
        BY <4>1
      <4>3. j \in i..(i + n) => h[j] = MovedDown(h[j - 1], j, d)
        BY <2>1, <3>2
      <4>4. g[j] = MovedDown(h[j - 1], j, d)
        BY <4>3
      <4> QED BY <3>2, <4>2, <4>4
    <3> QED BY <3>1, <3>2
  <2>3. g = [j \in more |-> g[j]]
    OBVIOUS
  <2> HIDE DEF g
  <2>4. AreTurns(g, pg, i, i + (n + 1), d)
    BY <2>2, <2>3 DEF AreTurns
  <2> QED BY <2>4
<1>3. Nat \subseteq S
  <2> HIDE DEF S
  <2> QED BY <1>1, <1>2, SetInduction
<1> QED BY <1>3

LEMMA TurnsDef ==
    ASSUME NEW pg, NEW i \in Nat, NEW last \in Nat, i <= last, NEW d
    PROVE  AreTurns(Turns(pg, i, last, d), pg, i, last, d)
<1> DEFINE turn[j \in i..last] ==
             IF j = i THEN pg ELSE MovedDown(turn[j - 1], j, d)
<1>1. \E h : AreTurns(h, pg, i, last, d)
  <2>1. last - i \in Nat /\ i + (last - i) = last
    OBVIOUS
  <2>2. \E h : AreTurns(h, pg, i, i + (last - i), d)
    BY <2>1, TurnsExist
  <2> QED BY <2>1, <2>2
<1>2. turn = [j \in i..last |-> IF j = i THEN pg ELSE MovedDown(turn[j - 1], j, d)]
  BY <1>1, Zenon DEF turn, AreTurns
<1>3. Turns(pg, i, last, d) = turn
  BY Zenon DEF Turns, turn
<1>4. AreTurns(turn, pg, i, last, d)
  <2> HIDE DEF turn
  <2> QED BY <1>2, Zenon DEF AreTurns
<1> QED BY <1>3, <1>4

\* Where a larger tuple of slot i goes: it ends where the smaller one ended.
NewOffset(pg, i, t) == offset(pg, i) - SizeDiff(pg, i, t)

\* The larger tuple lies between the directory and the end of the smaller one.
LEMMA NewPlace ==
    ASSUME NEW pg \in Pages, NEW rs \in Seq(Seq(Nat)), WellFormed(pg, rs),
           NEW i \in SlotsOf(rs), NEW t \in Seq(Nat),
           Len(t) > length(pg, i), Changeable(pg, i, t)
    PROVE  /\ SizeDiff(pg, i, t) \in Nat
           /\ SizeDiff(pg, i, t) <= free_space_end(pg) - free_space_start(pg)
           /\ free_space_start(pg) \in Nat /\ free_space_start(pg) >= 3
           /\ free_space_end(pg) \in Nat /\ free_space_start(pg) <= free_space_end(pg)
           /\ NewOffset(pg, i, t) \in Nat
           /\ free_space_start(pg) <= NewOffset(pg, i, t)
           /\ NewOffset(pg, i, t) + Len(t) = offset(pg, i) + length(pg, i)
<1> DEFINE dir == free_space_start(pg)
           end == free_space_end(pg)
           d == SizeDiff(pg, i, t)
           at == offset(pg, i)
           size == length(pg, i)
           n == Len(t)
<1>1. /\ dir \in Nat /\ end \in Nat /\ 3 <= dir /\ dir <= end /\ end <= PageSize
      /\ PageSize \in Nat
  <2>1. Len(rs) \in Nat /\ dir = 3 + 2 * Len(rs)
    BY Sizes, RowsAreSequences DEF WellFormed
  <2>2. end \in Nat /\ dir <= end /\ end <= PageSize /\ PageSize \in Nat
    BY Sizes DEF WellFormed, Pages, free_space_end
  <2>3. dir \in Nat /\ 3 <= dir
    BY <2>1
  <2> QED BY <2>2, <2>3
<1>2. at \in Nat /\ size \in Nat /\ end <= at /\ n \in Nat /\ n > size
  BY PlaceOfSlot
<1>3. d = n - size
  BY DEF SizeDiff
<1>4. NewOffset(pg, i, t) = at - d
  BY DEF NewOffset
<1>5. d <= Unsigned16(FreeWords(pg)) /\ FreeWords(pg) = end - dir
  BY DEF Changeable, FreeWords
<1> HIDE DEF dir, end, d, at, size, n
<1>6. end - dir \in Nat /\ end - dir <= PageSize
  BY <1>1
<1>7. d <= end - dir
  BY <1>5, <1>6, Sizes
<1>8. d \in Nat
  BY <1>2, <1>3
<1>9. at - d \in Nat /\ dir <= at - d
  BY <1>1, <1>2, <1>7, <1>8
<1>10. (at - d) + n = at + size
  BY <1>2, <1>3
<1> QED BY <1>1, <1>4, <1>7, <1>8, <1>9, <1>10 DEF dir, end, d, at, size, n

\* What the first half of changeTuple writes: the larger tuple, the slot, the header.
LEMMA EnlargedWords ==
    ASSUME NEW pg \in Pages, NEW rs \in Seq(Seq(Nat)), WellFormed(pg, rs),
           NEW i \in SlotsOf(rs), NEW t \in Seq(Nat),
           Len(t) > length(pg, i), Changeable(pg, i, t)
    PROVE  /\ Enlarged(pg, i, t) \in Pages
           /\ offset(Enlarged(pg, i, t), i) = NewOffset(pg, i, t)
           /\ Placed(Enlarged(pg, i, t), i, t)
           /\ \A w \in Words :
                /\ 3 <= w /\ w \notin {SlotAt(i), SlotAt(i) + 1}
                /\ w < free_space_start(pg) \/ offset(pg, i) + length(pg, i) <= w
                => Enlarged(pg, i, t)[w] = pg[w]
<1> DEFINE dir == free_space_start(pg)
           d == SizeDiff(pg, i, t)
           at == NewOffset(pg, i, t)
           top == offset(pg, i) + length(pg, i)
           n == Len(t)
           slot == SlotAt(i)
           copied == Copied(pg, at, t)
           sized == [copied EXCEPT ![slot + 1] = n]
           listed == [sized EXCEPT ![slot] = copied[slot] - d]
           header == Unsigned32(copied[1] - d)
           final == [listed EXCEPT ![1] = header]
<1>1. /\ dir \in Nat /\ 3 <= dir /\ at \in Nat /\ dir <= at /\ at + n = top /\ n \in Nat
      /\ d \in Nat
  BY NewPlace
<1>2. /\ slot \in Words /\ slot + 1 \in Words /\ 1 \in Words
      /\ slot \notin {0, 1, 2} /\ slot + 1 \notin {0, 1, 2} /\ slot # slot + 1
      /\ slot < dir /\ slot + 1 < dir
  <2>1. slot \in Words /\ slot + 1 \in Words /\ 1 \in Words
        /\ slot \notin {0, 1, 2} /\ slot + 1 \notin {0, 1, 2} /\ slot # slot + 1
    BY SlotWords, Sizes
  <2>2. slot + 1 < dir
    BY PlaceOfSlot
  <2>3. slot \in Nat
    BY <2>1, Sizes
  <2> HIDE DEF slot, dir
  <2> QED BY <1>1, <2>1, <2>2, <2>3
<1>3. top <= PageSize /\ PageSize \in Nat /\ Words = 0..(PageSize - 1)
  BY PlaceOfSlot, Sizes
<1>4. /\ copied \in Pages
      /\ \A w \in Words : w \notin at..(at + n - 1) => copied[w] = pg[w]
      /\ \A k \in 1..n : at + k - 1 \in Words => copied[at + k - 1] = t[k]
  BY <1>1, CopiedWords
<1> HIDE DEF copied, at, n, slot, dir, d, top
<1>5. /\ sized \in Pages /\ sized[slot + 1] = n
      /\ \A w \in Words \ {slot + 1} : sized[w] = copied[w]
  <2> DEFINE word == slot + 1
  <2>1. word \in Words
    BY <1>2
  <2> HIDE DEF word
  <2>2. LET s == [copied EXCEPT ![word] = n]
        IN  s \in Pages /\ s[word] = n /\ \A w \in Words \ {word} : s[w] = copied[w]
    BY <1>1, <1>4, <2>1, StoredWord
  <2> QED BY <2>2 DEF word
<1> HIDE DEF sized
<1>6. /\ listed \in Pages /\ listed[slot] = at
      /\ \A w \in Words \ {slot} : listed[w] = sized[w]
  <2>1. copied[slot] = pg[slot]
    <3>1. slot \notin at..(at + n - 1)
      BY <1>1, <1>2, <1>3
    <3> QED BY <1>2, <1>4, <3>1
  <2>2. pg[slot] - d = at
    BY DEF slot, d, at, NewOffset, offset
  <2>3. copied[slot] - d = at
    BY <2>1, <2>2
  <2>4. listed = [sized EXCEPT ![slot] = at]
    BY <2>3
  <2> QED BY <1>1, <1>2, <1>5, <2>4, StoredWord
<1> HIDE DEF listed
<1>7. header \in Nat
  <2>1. copied[1] \in Nat
    BY <1>2, <1>4 DEF Pages
  <2>2. \A m \in Int : Unsigned32(m) \in Nat
    BY DEF Unsigned32
  <2>3. copied[1] - d \in Int
    BY <1>1, <2>1
  <2> QED BY <2>2, <2>3
<1> HIDE DEF header
<1>8. final \in Pages /\ \A w \in Words \ {1} : final[w] = listed[w]
  BY <1>2, <1>6, <1>7, StoredWord
<1>9. Enlarged(pg, i, t) = final
  BY Zenon DEF Enlarged, copied, at, n, slot, d, NewOffset, header, listed, sized, final
<1> HIDE DEF final
<1>10. offset(final, i) = at /\ length(final, i) = n
  BY <1>2, <1>5, <1>6, <1>8 DEF offset, length, slot
<1>11. \A w \in Words \ {1, slot, slot + 1} : final[w] = copied[w]
  BY <1>5, <1>6, <1>8
<1>12. ASSUME NEW k \in 1..n PROVE final[at + k - 1] = t[k]
  <2>1. at + k - 1 \in Words
    BY <1>1, <1>3
  <2>2. slot \in Nat
    BY <1>2, <1>3
  <2>3. at + k - 1 \notin {1, slot, slot + 1}
    BY <1>1, <1>2, <2>2
  <2> QED BY <1>4, <1>11, <2>1, <2>3
<1>13. Placed(final, i, t)
  <2>1. at + n <= PageSize
    BY <1>1, <1>3
  <2>2. \A k \in 1..Len(t) : final[offset(final, i) + k - 1] = t[k]
    BY <1>10, <1>12 DEF n
  <2> QED BY <1>10, <2>1, <2>2 DEF Placed, n
<1>14. ASSUME NEW w \in Words, 3 <= w, w \notin {slot, slot + 1}, w < dir \/ top <= w
       PROVE  final[w] = pg[w]
  <2>1. w \in Nat
    BY <1>3
  <2>2. w \notin at..(at + n - 1) /\ w # 1
    BY <1>1, <1>14, <2>1
  <2> QED BY <1>4, <1>11, <1>14, <2>2
<1> QED BY <1>8, <1>9, <1>10, <1>13, <1>14 DEF at, dir, top, slot

\* A turn of the loop writes the tuple d words lower and its slot, no other word,
\* if that leaves the slot alone.
LEMMA OneTurn ==
    ASSUME NEW pg \in Pages, NEW j \in Nat, SlotAt(j) \in Words, NEW d \in Nat,
           d <= offset(pg, j), offset(pg, j) + length(pg, j) <= PageSize,
           offset(pg, j) \in Nat, length(pg, j) \in Nat,
           SlotAt(j) < offset(pg, j) - d
    PROVE  /\ MovedDown(pg, j, d) \in Pages
           /\ offset(MovedDown(pg, j, d), j) = offset(pg, j) - d
           /\ \A k \in 1..length(pg, j) :
                MovedDown(pg, j, d)[offset(pg, j) - d + k - 1] = pg[offset(pg, j) + k - 1]
           /\ \A w \in Words :
                /\ w # SlotAt(j)
                /\ w \notin (offset(pg, j) - d)..(offset(pg, j) - d + length(pg, j) - 1)
                => MovedDown(pg, j, d)[w] = pg[w]
<1> DEFINE at == offset(pg, j)
           size == length(pg, j)
           low == at - d
           tuple == WordsAt(pg, at, size)
           slot == SlotAt(j)
           copied == Copied(pg, low, tuple)
<1>1. /\ at \in Nat /\ size \in Nat /\ low \in Nat /\ slot \in Words
      /\ at + size <= PageSize /\ PageSize \in Nat /\ Words = 0..(PageSize - 1)
  BY Sizes
<1>2. tuple \in Seq(Nat) /\ Len(tuple) = size
  <2> HIDE DEF at, size
  <2>1. \A k \in 1..size : at + k - 1 \in Words
    BY <1>1
  <2>2. \A k \in 1..size : pg[at + k - 1] \in Nat
    BY <2>1 DEF Pages
  <2> QED BY <1>1, <2>2 DEF WordsAt
<1>3. slot \in Nat /\ slot < low /\ low <= at /\ at = pg[slot]
  BY Sizes DEF offset
<1>4. \A k \in 1..size : tuple[k] = pg[at + k - 1]
  BY DEF WordsAt
<1> HIDE DEF tuple, at, size, low, slot
<1>5. /\ copied \in Pages
      /\ \A w \in Words : w \notin low..(low + size - 1) => copied[w] = pg[w]
      /\ \A k \in 1..size : low + k - 1 \in Words => copied[low + k - 1] = tuple[k]
  <2>1. /\ copied \in Pages
        /\ \A w \in Words : w \notin low..(low + Len(tuple) - 1) => copied[w] = pg[w]
        /\ \A k \in 1..Len(tuple) : low + k - 1 \in Words => copied[low + k - 1] = tuple[k]
    <3>1. low \in Nat /\ tuple \in Seq(Nat)
      BY <1>1, <1>2
    <3> QED BY <3>1, CopiedWords
  <2> QED BY <1>2, <2>1
<1>6. copied[slot] = at
  BY <1>1, <1>3, <1>5
<1>7. MovedDown(pg, j, d) = [copied EXCEPT ![slot] = low]
  <2>1. MovedDown(pg, j, d) = [copied EXCEPT ![slot] = @ - d]
    BY DEF MovedDown, copied, slot, low, tuple, at, size
  <2>2. copied[slot] - d = low
    BY <1>6 DEF low
  <2> HIDE DEF copied
  <2>3. [copied EXCEPT ![slot] = @ - d] = [copied EXCEPT ![slot] = low]
    BY <2>2
  <2> QED BY <2>1, <2>3
<1> HIDE DEF copied
<1> DEFINE moved == [copied EXCEPT ![slot] = low]
<1>8. moved \in Pages /\ moved[slot] = low /\ \A w \in Words \ {slot} : moved[w] = copied[w]
  BY <1>1, <1>5, StoredWord
<1> HIDE DEF moved
<1>9. ASSUME NEW k \in 1..size PROVE moved[low + k - 1] = pg[at + k - 1]
  <2>1. low + k - 1 \in Words \ {slot}
    BY <1>1, <1>3
  <2> QED BY <1>4, <1>5, <1>8, <2>1
<1>10. MovedDown(pg, j, d) = moved
  BY <1>7 DEF moved
<1> QED BY <1>5, <1>8, <1>9, <1>10 DEF slot, low, at, size, offset

\* The words the turns for the slots up to k leave as they were: what lies from
\* the larger tuple on, and the directory except the offsets of the slots moved.
Kept(pg, i, t, k, w) ==
    \/ NewOffset(pg, i, t) <= w
    \/ /\ 3 <= w /\ w < free_space_start(pg)
       /\ \A j \in (i + 1)..k : w # SlotAt(j)

\* The pages of the loop of changeTuple, up to the last slot.
TurnsOf(pg, i, t) ==
    Turns(Enlarged(pg, i, t), i, num_slots(pg) - 1, SizeDiff(pg, i, t))

LEMMA TurnByTurn ==
    ASSUME NEW pg, NEW i \in Nat, NEW t, num_slots(pg) - 1 \in Nat, i <= num_slots(pg) - 1
    PROVE  \A k \in i..(num_slots(pg) - 1) :
             TurnsOf(pg, i, t)[k] =
               IF k = i THEN Enlarged(pg, i, t)
               ELSE MovedDown(TurnsOf(pg, i, t)[k - 1], k, SizeDiff(pg, i, t))
<1> DEFINE last == num_slots(pg) - 1
           turn == TurnsOf(pg, i, t)
           head == Enlarged(pg, i, t)
           d == SizeDiff(pg, i, t)
<1>1. last \in Nat /\ i <= last
  OBVIOUS
<1> HIDE DEF last, head, d
<1>2. AreTurns(Turns(head, i, last, d), head, i, last, d)
  BY <1>1, TurnsDef
<1>3. turn = Turns(head, i, last, d)
  BY DEF TurnsOf, head, last, d
<1> HIDE DEF turn
<1>4. turn = [k \in i..last |-> IF k = i THEN head ELSE MovedDown(turn[k - 1], k, d)]
  BY <1>2, <1>3, Zenon DEF AreTurns
<1>5. ASSUME NEW k \in i..last
      PROVE  turn[k] = IF k = i THEN head ELSE MovedDown(turn[k - 1], k, d)
  BY <1>4, Zenon
<1> QED BY <1>5 DEF last, turn, head, d

\* Where the later slot j and its tuple are, before and after its turn.
LEMMA PlaceOfLater ==
    ASSUME NEW pg \in Pages, NEW rs \in Seq(Seq(Nat)), WellFormed(pg, rs),
           NEW i \in SlotsOf(rs), NEW t \in Seq(Nat),
           Len(t) > length(pg, i), Changeable(pg, i, t),
           NEW j \in (i + 1)..(num_slots(pg) - 1)
    PROVE  /\ j \in Nat /\ j \in SlotsOf(rs) /\ i < j
           /\ offset(pg, j) \in Nat /\ length(pg, j) \in Nat /\ SizeDiff(pg, i, t) \in Nat
           /\ offset(pg, j) + length(pg, j) <= PageSize
           /\ SizeDiff(pg, i, t) <= offset(pg, j)
           /\ free_space_start(pg) \in Nat /\ 3 <= free_space_start(pg)
           /\ free_space_start(pg) <= offset(pg, j) - SizeDiff(pg, i, t)
           /\ NewOffset(pg, i, t) \in Nat
           /\ offset(pg, j) - SizeDiff(pg, i, t) + length(pg, j) <= NewOffset(pg, i, t)
           /\ SlotAt(j) \in Nat /\ SlotAt(j) \in Words /\ SlotAt(j) + 1 \in Words
           /\ 3 <= SlotAt(j) /\ SlotAt(j) + 1 < free_space_start(pg)
<1> DEFINE d == SizeDiff(pg, i, t)
           dir == free_space_start(pg)
           end == free_space_end(pg)
           new == NewOffset(pg, i, t)
           at == offset(pg, j)
           size == length(pg, j)
           slot == SlotAt(j)
<1>1. j \in Nat /\ j \in SlotsOf(rs) /\ i < j /\ i \in Nat
  <2>1. num_slots(pg) = Len(rs) /\ Len(rs) \in Nat /\ i \in Nat
    BY RowsAreSequences DEF SlotsOf, WellFormed
  <2> QED BY <2>1 DEF SlotsOf
<1>2. /\ d \in Nat /\ d <= end - dir /\ dir \in Nat /\ dir >= 3 /\ end \in Nat
      /\ new \in Nat /\ new = offset(pg, i) - d
  BY NewPlace DEF NewOffset
<1>3. /\ at \in Nat /\ size \in Nat /\ end <= at /\ at + size <= PageSize
      /\ slot \in Words /\ slot + 1 \in Words /\ 3 <= slot /\ slot + 1 < dir
  BY <1>1, PlaceOfSlot
<1>4. at + size <= offset(pg, i) /\ offset(pg, i) \in Nat
  BY <1>1, PlaceOfSlot DEF WellFormed
<1>5. slot \in Nat
  BY <1>3, Sizes
<1> HIDE DEF d, dir, end, new, at, size, slot
<1>6. d <= at /\ dir <= at - d /\ at - d + size <= new
  BY <1>2, <1>3, <1>4
<1> QED BY <1>1, <1>2, <1>3, <1>5, <1>6 DEF d, dir, new, at, size, slot

\* The turn of slot k + 1 finds it where it was, and moves its words.
LEMMA NextTurn ==
    ASSUME NEW pg \in Pages, NEW rs \in Seq(Seq(Nat)), WellFormed(pg, rs),
           NEW i \in SlotsOf(rs), NEW t \in Seq(Nat),
           Len(t) > length(pg, i), Changeable(pg, i, t),
           NEW k \in i..(num_slots(pg) - 1), k # num_slots(pg) - 1,
           TurnsOf(pg, i, t)[k] \in Pages,
           \A w \in Words : Kept(pg, i, t, k, w)
                              => TurnsOf(pg, i, t)[k][w] = Enlarged(pg, i, t)[w]
    PROVE  /\ TurnsOf(pg, i, t)[k + 1] \in Pages
           /\ offset(TurnsOf(pg, i, t)[k + 1], k + 1) = offset(pg, k + 1) - SizeDiff(pg, i, t)
           /\ \A x \in 1..length(pg, k + 1) :
                TurnsOf(pg, i, t)[k + 1][offset(pg, k + 1) - SizeDiff(pg, i, t) + x - 1]
                  = TurnsOf(pg, i, t)[k][offset(pg, k + 1) + x - 1]
           /\ \A w \in Words :
                /\ w # SlotAt(k + 1)
                /\ w \notin (offset(pg, k + 1) - SizeDiff(pg, i, t))..
                              (offset(pg, k + 1) - SizeDiff(pg, i, t) + length(pg, k + 1) - 1)
                => TurnsOf(pg, i, t)[k + 1][w] = TurnsOf(pg, i, t)[k][w]
<1> DEFINE last == num_slots(pg) - 1
           j == k + 1
           q == TurnsOf(pg, i, t)[k]
           head == Enlarged(pg, i, t)
           d == SizeDiff(pg, i, t)
           at == offset(pg, j)
           size == length(pg, j)
           slot == SlotAt(j)
           dir == free_space_start(pg)
<1>1. /\ i \in Nat /\ last \in Nat /\ i <= last /\ k \in Nat
      /\ j \in (i + 1)..last /\ j \in i..last /\ j # i /\ j - 1 = k
  BY RowsAreSequences DEF SlotsOf, WellFormed
<1>2. TurnsOf(pg, i, t)[j] = MovedDown(q, j, d)
  <2>1. TurnsOf(pg, i, t)[j] = IF j = i THEN head ELSE MovedDown(TurnsOf(pg, i, t)[j - 1], j, d)
    BY <1>1, TurnByTurn
  <2> HIDE DEF j, d, head
  <2> QED BY <1>1, <2>1
<1>3. /\ j \in Nat /\ j \in SlotsOf(rs) /\ i < j /\ at \in Nat /\ size \in Nat /\ d \in Nat
      /\ at + size <= PageSize /\ d <= at /\ dir \in Nat /\ dir <= at - d
      /\ slot \in Nat /\ slot \in Words /\ slot + 1 \in Words /\ 3 <= slot /\ slot + 1 < dir
  BY <1>1, PlaceOfLater
<1>4. \A m \in (i + 1)..k : slot # SlotAt(m) /\ slot + 1 # SlotAt(m)
  <2> HIDE DEF j
  <2>1. j \in Nat
    BY <1>3
  <2>2. \A m \in Nat : m < j => slot # SlotAt(m) /\ slot + 1 # SlotAt(m)
    BY <2>1, Sizes
  <2>3. \A m \in (i + 1)..k : m \in Nat /\ m < j
    BY <1>1 DEF j
  <2> QED BY <2>2, <2>3
<1>5. /\ head[slot] = pg[slot] /\ head[slot + 1] = pg[slot + 1]
  <2>1. slot \notin {SlotAt(i), SlotAt(i) + 1} /\ slot + 1 \notin {SlotAt(i), SlotAt(i) + 1}
    BY <1>1, <1>3, SlotsApart
  <2> HIDE DEF slot, dir
  <2>2. 3 <= slot + 1 /\ slot < dir
    BY <1>3
  <2> QED BY <1>3, <2>1, <2>2, EnlargedWords DEF dir
<1>6. q[slot] = pg[slot] /\ q[slot + 1] = pg[slot + 1]
  <2> HIDE DEF slot, head, q
  <2>1. 3 <= slot + 1 /\ slot < dir
    BY <1>3
  <2>2. Kept(pg, i, t, k, slot) /\ Kept(pg, i, t, k, slot + 1)
    BY <1>3, <1>4, <2>1 DEF Kept
  <2> QED BY <1>3, <1>5, <2>2 DEF q, head
<1>7. offset(q, j) = at /\ length(q, j) = size
  BY <1>6 DEF offset, length
<1> HIDE DEF q, j, at, size, d, slot
<1>8. slot < at - d
  BY <1>3
<1>9. /\ MovedDown(q, j, d) \in Pages
      /\ offset(MovedDown(q, j, d), j) = at - d
      /\ \A x \in 1..size : MovedDown(q, j, d)[at - d + x - 1] = q[at + x - 1]
      /\ \A w \in Words : w # slot /\ w \notin (at - d)..(at - d + size - 1)
                            => MovedDown(q, j, d)[w] = q[w]
  <2>1. /\ offset(q, j) \in Nat /\ length(q, j) \in Nat
        /\ offset(q, j) + length(q, j) <= PageSize /\ d <= offset(q, j)
        /\ SlotAt(j) < offset(q, j) - d
    BY <1>3, <1>7, <1>8 DEF slot
  <2>2. q \in Pages /\ j \in Nat /\ d \in Nat /\ SlotAt(j) \in Words
    BY <1>3 DEF q, slot
  <2>3. /\ MovedDown(q, j, d) \in Pages
        /\ offset(MovedDown(q, j, d), j) = offset(q, j) - d
        /\ \A x \in 1..length(q, j) :
             MovedDown(q, j, d)[offset(q, j) - d + x - 1] = q[offset(q, j) + x - 1]
        /\ \A w \in Words :
             /\ w # SlotAt(j)
             /\ w \notin (offset(q, j) - d)..(offset(q, j) - d + length(q, j) - 1)
             => MovedDown(q, j, d)[w] = q[w]
    BY <2>1, <2>2, OneTurn
  <2> QED BY <1>7, <2>3 DEF slot
<1> QED BY <1>2, <1>9 DEF q, j, at, size, d, slot

LEMMA TurnsKeep ==
    ASSUME NEW pg \in Pages, NEW rs \in Seq(Seq(Nat)), WellFormed(pg, rs),
           NEW i \in SlotsOf(rs), NEW t \in Seq(Nat),
           Len(t) > length(pg, i), Changeable(pg, i, t)
    PROVE  \A k \in i..(num_slots(pg) - 1) :
             /\ TurnsOf(pg, i, t)[k] \in Pages
             /\ \A w \in Words : Kept(pg, i, t, k, w)
                                   => TurnsOf(pg, i, t)[k][w] = Enlarged(pg, i, t)[w]
<1> DEFINE last == num_slots(pg) - 1
           turn == TurnsOf(pg, i, t)
           head == Enlarged(pg, i, t)
           d == SizeDiff(pg, i, t)
           dir == free_space_start(pg)
           new == NewOffset(pg, i, t)
           Good(k) == /\ turn[k] \in Pages
                      /\ \A w \in Words : Kept(pg, i, t, k, w) => turn[k][w] = head[w]
<1>1. i \in Nat /\ last \in Nat /\ i <= last
  BY RowsAreSequences DEF SlotsOf, WellFormed
<1>2. Good(i)
  <2>1. turn[i] = head
    BY <1>1, TurnByTurn
  <2> QED BY <2>1, EnlargedWords
<1>3. ASSUME NEW k \in i..last, Good(k), k # last PROVE Good(k + 1)
  <2> DEFINE j == k + 1
             at == offset(pg, j)
             size == length(pg, j)
             slot == SlotAt(j)
  <2>1. k \in Nat /\ j \in Nat /\ j \in (i + 1)..last
    BY <1>1, <1>3
  <2>2. /\ at \in Nat /\ size \in Nat /\ d \in Nat /\ dir \in Nat
        /\ dir <= at - d /\ new \in Nat /\ at - d + size <= new
        /\ slot \in Nat /\ slot < dir
    BY <2>1, PlaceOfLater
  <2>3. /\ turn[j] \in Pages
        /\ \A w \in Words : w # slot /\ w \notin (at - d)..(at - d + size - 1)
                              => turn[j][w] = turn[k][w]
    BY <1>3, NextTurn
  <2> HIDE DEF j, at, size, slot, d, turn, head
  <2>4. ASSUME NEW w \in Words, Kept(pg, i, t, j, w)
        PROVE  w # slot /\ w \notin (at - d)..(at - d + size - 1) /\ Kept(pg, i, t, k, w)
    <3>1. w \in Nat
      BY Sizes
    <3>2. CASE new <= w
      BY <2>2, <3>1, <3>2 DEF Kept
    <3>3. CASE w < dir /\ 3 <= w /\ \A m \in (i + 1)..j : w # SlotAt(m)
      <4>1. j \in (i + 1)..j /\ \A m \in (i + 1)..k : m \in (i + 1)..j
        BY <1>1, <2>1 DEF j
      <4>2. w # slot
        BY <3>3, <4>1 DEF slot
      <4>3. Kept(pg, i, t, k, w)
        BY <3>3, <4>1 DEF Kept
      <4>4. w \notin (at - d)..(at - d + size - 1)
        BY <2>2, <3>1, <3>3
      <4> QED BY <4>2, <4>3, <4>4
    <3> QED BY <2>4, <3>2, <3>3 DEF Kept
  <2>5. \A w \in Words : Kept(pg, i, t, j, w) => turn[j][w] = head[w]
    BY <1>3, <2>3, <2>4
  <2> QED BY <2>3, <2>5 DEF j
<1> HIDE DEF last, turn, head
<1> DEFINE S == {m \in Nat : i + m \in i..last => Good(i + m)}
<1>4. 0 \in S
  <2>1. i + 0 = i
    BY <1>1
  <2> QED BY <1>2, <2>1
<1>5. ASSUME NEW m \in Nat, m \in S PROVE m + 1 \in S
  <2>1. SUFFICES ASSUME i + (m + 1) \in i..last PROVE Good(i + (m + 1))
    OBVIOUS
  <2>2. i + m \in i..last /\ i + m # last /\ i + (m + 1) = (i + m) + 1
    BY <1>1, <2>1
  <2>3. Good(i + m)
    BY <1>5, <2>2
  <2> HIDE DEF Good
  <2> QED BY <1>3, <2>2, <2>3
<1>6. Nat \subseteq S
  <2> HIDE DEF S
  <2> QED BY <1>4, <1>5, SetInduction
<1>7. ASSUME NEW k \in i..last PROVE Good(k)
  <2>1. k - i \in Nat /\ i + (k - i) = k
    BY <1>1
  <2>2. k - i \in S
    BY <1>6, <2>1
  <2> HIDE DEF Good
  <2> QED BY <2>1, <2>2
<1> QED BY <1>7 DEF head, last, turn

\* Below the larger tuple the page keeps its words, the directory apart.
LEMMA EnlargedBelow ==
    ASSUME NEW pg \in Pages, NEW rs \in Seq(Seq(Nat)), WellFormed(pg, rs),
           NEW i \in SlotsOf(rs), NEW t \in Seq(Nat),
           Len(t) > length(pg, i), Changeable(pg, i, t),
           NEW w \in Words, free_space_start(pg) <= w, w < NewOffset(pg, i, t)
    PROVE  Enlarged(pg, i, t)[w] = pg[w]
<1> DEFINE dir == free_space_start(pg)
           at == NewOffset(pg, i, t)
           slot == SlotAt(i)
           copied == Copied(pg, at, t)
<1>1. dir \in Nat /\ 3 <= dir /\ at \in Nat /\ w \in Nat
  BY NewPlace, Sizes
<1>2. slot + 1 < dir /\ slot \in Nat
  BY PlaceOfSlot, Sizes
<1>3. copied[w] = pg[w]
  BY <1>1 DEF Copied
<1>4. w # 1 /\ w # slot /\ w # slot + 1
  BY <1>1, <1>2
<1>5. Enlarged(pg, i, t)[w] = copied[w]
  <2> DEFINE sized == [copied EXCEPT ![slot + 1] = Len(t)]
             listed == [sized EXCEPT ![slot] = copied[slot] - SizeDiff(pg, i, t)]
             final == [listed EXCEPT ![1] = Unsigned32(copied[1] - SizeDiff(pg, i, t))]
  <2>1. Enlarged(pg, i, t) = final
    BY Zenon DEF Enlarged, copied, at, slot, NewOffset
  <2>2. DOMAIN copied = Words
    BY DEF Copied
  <2> HIDE DEF copied, slot
  <2>3. final[w] = copied[w]
    BY <1>4, <2>2
  <2> QED BY <2>1, <2>3
<1> QED BY <1>3, <1>5

\* On a well-formed page the larger tuple and those inserted before it survive.
LEMMA GrownKeepsEarlier ==
    ASSUME NEW pg \in Pages, NEW rs \in Seq(Seq(Nat)), WellFormed(pg, rs),
           NEW i \in SlotsOf(rs), NEW t \in Tuples,
           Len(t) > length(pg, i), Changeable(pg, i, t), NEW j \in 0..i
    PROVE  Placed(Grown(pg, i, t), j, [rs EXCEPT ![i + 1] = t][j + 1])
<1> DEFINE head == Enlarged(pg, i, t)
           last == num_slots(pg) - 1
           page2 == Grown(pg, i, t)
           new == NewOffset(pg, i, t)
           dir == free_space_start(pg)
           top == offset(pg, i) + length(pg, i)
<1>1. t \in Seq(Nat)
  BY PageAssumption
<1>2. /\ i \in Nat /\ last \in i..last /\ last = Len(rs) - 1 /\ Len(rs) \in Nat
      /\ j \in SlotsOf(rs) /\ j \in Nat /\ j <= i
  BY RowsAreSequences DEF SlotsOf, WellFormed
<1>3. page2 = TurnsOf(pg, i, t)[last]
  BY DEF Grown, TurnsOf
<1>4. \A w \in Words : Kept(pg, i, t, last, w) => page2[w] = head[w]
  BY <1>1, <1>2, <1>3, TurnsKeep
<1>5. /\ head \in Pages /\ offset(head, i) = new /\ Placed(head, i, t)
      /\ \A w \in Words :
           /\ 3 <= w /\ w \notin {SlotAt(i), SlotAt(i) + 1}
           /\ w < dir \/ top <= w
           => head[w] = pg[w]
  BY <1>1, EnlargedWords
<1>6. /\ dir \in Nat /\ 3 <= dir /\ new \in Nat /\ dir <= new /\ new + Len(t) = top
      /\ Len(t) \in Nat
  BY <1>1, NewPlace
<1>7. top <= PageSize /\ PageSize \in Nat /\ Words = 0..(PageSize - 1)
  BY PlaceOfSlot, Sizes
<1> HIDE DEF head, page2, new, dir, top
<1>8. /\ SlotAt(j) \in Words /\ SlotAt(j) + 1 \in Words
      /\ 3 <= SlotAt(j) /\ 3 <= SlotAt(j) + 1 /\ SlotAt(j) < dir /\ SlotAt(j) + 1 < dir
  <2> DEFINE slot == SlotAt(j)
  <2>1. slot \in Words /\ slot + 1 \in Words /\ 3 <= slot /\ slot + 1 < dir
    BY <1>2, PlaceOfSlot DEF dir
  <2>2. slot \in Nat
    BY <1>7, <2>1
  <2> HIDE DEF slot
  <2>3. 3 <= slot + 1 /\ slot < dir
    BY <1>6, <2>1, <2>2
  <2> QED BY <2>1, <2>3 DEF slot
<1>9. page2[SlotAt(j)] = head[SlotAt(j)] /\ page2[SlotAt(j) + 1] = head[SlotAt(j) + 1]
  <2>1. \A k \in (i + 1)..last : SlotAt(j) # SlotAt(k) /\ SlotAt(j) + 1 # SlotAt(k)
    <3>1. \A k \in Nat : k > j => SlotAt(j) # SlotAt(k) /\ SlotAt(j) + 1 # SlotAt(k)
      BY <1>2, Sizes
    <3>2. \A k \in (i + 1)..last : k \in Nat /\ k > j
      BY <1>2
    <3> QED BY <3>1, <3>2
  <2>2. Kept(pg, i, t, last, SlotAt(j)) /\ Kept(pg, i, t, last, SlotAt(j) + 1)
    BY <1>8, <2>1 DEF Kept, dir
  <2> QED BY <1>4, <1>8, <2>2
<1>10. \A w \in Words : new <= w => page2[w] = head[w]
  BY <1>4 DEF Kept, new
<1>11. CASE j = i
  <2>1. [rs EXCEPT ![i + 1] = t][j + 1] = t
    BY <1>11, RowsAreSequences
  <2>2. offset(page2, i) = new /\ length(page2, i) = length(head, i)
    BY <1>5, <1>9, <1>11 DEF offset, length
  <2>3. \A w \in new..(new + Len(t) - 1) : w \in Words /\ new <= w
    BY <1>6, <1>7
  <2>4. \A w \in new..(new + Len(t) - 1) : page2[w] = head[w]
    BY <1>10, <2>3
  <2>5. Placed(page2, i, t)
    BY <1>1, <1>5, <1>6, <2>2, <2>4, PlacedAgain
  <2> QED BY <1>11, <2>1, <2>5 DEF page2
<1>12. CASE j # i
  <2> DEFINE at == offset(pg, j)
             size == length(pg, j)
  <2>1. [rs EXCEPT ![i + 1] = t][j + 1] = rs[j + 1]
    <3>1. j + 1 \in 1..Len(rs) /\ j + 1 # i + 1
      BY <1>2, <1>12, RowsAreSequences
    <3> QED BY <3>1
  <2>2. /\ at \in Nat /\ size \in Nat /\ at + size <= PageSize /\ top <= at
    <3>1. j < i
      BY <1>2, <1>12
    <3> QED BY <1>2, <3>1, PlaceOfSlot DEF WellFormed, top
  <2>3. page2[SlotAt(j)] = pg[SlotAt(j)] /\ page2[SlotAt(j) + 1] = pg[SlotAt(j) + 1]
    <3>1. /\ SlotAt(j) \notin {SlotAt(i), SlotAt(i) + 1}
          /\ SlotAt(j) + 1 \notin {SlotAt(i), SlotAt(i) + 1}
      BY <1>2, <1>12, SlotsApart
    <3> QED BY <1>5, <1>8, <1>9, <3>1
  <2>4. ASSUME NEW w \in at..(at + size - 1) PROVE page2[w] = pg[w]
    <3>1. w \notin {SlotAt(i), SlotAt(i) + 1} /\ w \in Words
      BY <1>2, SlotWords
    <3> HIDE DEF at, size
    <3>2. 3 <= w /\ top <= w /\ new <= w
      <4>1. top \in Nat /\ new \in Nat /\ 3 <= top /\ new <= top
        BY <1>6
      <4> QED BY <2>2, <2>4, <4>1
    <3> QED BY <1>5, <1>10, <3>1, <3>2
  <2>5. Placed(page2, j, rs[j + 1])
    BY <1>2, <2>3, <2>4, SlotUntouched
  <2> QED BY <2>1, <2>5 DEF page2
<1> QED BY <1>11, <1>12

\* Where the turns up to that of slot k have got: the page below is as it was,
\* and of the slots moved all words but the last d are d words lower.
Lowered(pg, i, t, k, m) ==
    LET d == SizeDiff(pg, i, t) IN
      /\ offset(TurnsOf(pg, i, t)[k], m) = offset(pg, m) - d
      /\ \A x \in 1..(length(pg, m) - d) :
           TurnsOf(pg, i, t)[k][offset(pg, m) - d + x - 1] = pg[offset(pg, m) + x - 1]
Untouched(pg, i, t, k, w) ==
    free_space_start(pg) <= w /\ w < offset(pg, k) - SizeDiff(pg, i, t)

LEMMA TurnsLower ==
    ASSUME NEW pg \in Pages, NEW rs \in Seq(Seq(Nat)), WellFormed(pg, rs),
           NEW i \in SlotsOf(rs), NEW t \in Seq(Nat),
           Len(t) > length(pg, i), Changeable(pg, i, t)
    PROVE  \A k \in i..(num_slots(pg) - 1) :
             /\ \A w \in Words : Untouched(pg, i, t, k, w) => TurnsOf(pg, i, t)[k][w] = pg[w]
             /\ \A m \in (i + 1)..k : Lowered(pg, i, t, k, m)
<1> DEFINE last == num_slots(pg) - 1
           turn == TurnsOf(pg, i, t)
           d == SizeDiff(pg, i, t)
           dir == free_space_start(pg)
           Good(k) == /\ \A w \in Words : Untouched(pg, i, t, k, w) => turn[k][w] = pg[w]
                      /\ \A m \in (i + 1)..k : Lowered(pg, i, t, k, m)
<1>1. i \in Nat /\ last \in Nat /\ i <= last /\ last = Len(rs) - 1 /\ Len(rs) \in Nat
  BY RowsAreSequences DEF SlotsOf, WellFormed
<1>2. Good(i)
  <2>1. turn[i] = Enlarged(pg, i, t)
    BY <1>1, TurnByTurn
  <2>2. \A w \in Words : Untouched(pg, i, t, i, w) => turn[i][w] = pg[w]
    BY <2>1, EnlargedBelow DEF Untouched, NewOffset
  <2>3. (i + 1)..i = {}
    BY <1>1
  <2> QED BY <2>2, <2>3
<1>3. ASSUME NEW k \in i..last, Good(k), k # last PROVE Good(k + 1)
  <2> DEFINE j == k + 1
             at == offset(pg, j)
             size == length(pg, j)
             slot == SlotAt(j)
  <2>1. k \in Nat /\ j \in Nat /\ j \in (i + 1)..last /\ k < j
    BY <1>1, <1>3
  <2>2. /\ at \in Nat /\ size \in Nat /\ d \in Nat /\ dir \in Nat /\ at + size <= PageSize
        /\ dir <= at - d /\ slot \in Nat /\ slot < dir /\ j \in SlotsOf(rs)
    BY <2>1, PlaceOfLater
  <2>3. /\ offset(turn[j], j) = at - d
        /\ \A x \in 1..size : turn[j][at - d + x - 1] = turn[k][at + x - 1]
        /\ \A w \in Words : w # slot /\ w \notin (at - d)..(at - d + size - 1)
                              => turn[j][w] = turn[k][w]
    BY <1>3, NextTurn, TurnsKeep
  <2>4. /\ k \in SlotsOf(rs) /\ offset(pg, k) \in Nat /\ at + size <= offset(pg, k)
    <3>1. k \in SlotsOf(rs)
      BY <1>1, <1>3, <2>1 DEF SlotsOf
    <3> QED BY <2>1, <2>2, <3>1, PlaceOfSlot DEF WellFormed
  <2>5. PageSize \in Nat /\ Words = 0..(PageSize - 1)
    BY Sizes
  <2> HIDE DEF d, turn, at, size, slot, j, dir
  <2>6. ASSUME NEW w \in Words, Untouched(pg, i, t, j, w) PROVE turn[j][w] = pg[w]
    <3>1. w \in Nat /\ dir <= w /\ w < at - d
      BY <2>5, <2>6 DEF Untouched, dir, d, at
    <3>2. w # slot /\ w \notin (at - d)..(at - d + size - 1)
      BY <2>2, <3>1
    <3>3. w < offset(pg, k) - d
      BY <2>2, <2>4, <3>1
    <3>4. Untouched(pg, i, t, k, w)
      BY <3>1, <3>3 DEF Untouched, dir, d
    <3> QED BY <1>3, <2>3, <3>2, <3>4
  <2>7. Lowered(pg, i, t, j, j)
    <3>1. ASSUME NEW x \in 1..(size - d) PROVE turn[j][at - d + x - 1] = pg[at + x - 1]
      <4>1. x \in 1..size /\ at + x - 1 \in Words
        BY <2>2, <2>5
      <4>2. dir <= at + x - 1 /\ at + x - 1 < offset(pg, k) - d
        BY <2>2, <2>4
      <4>3. Untouched(pg, i, t, k, at + x - 1)
        BY <4>2 DEF Untouched, dir, d
      <4> QED BY <1>3, <2>3, <4>1, <4>3
    <3> QED BY <2>3, <3>1 DEF Lowered, turn, at, size, d
  <2>8. ASSUME NEW m \in (i + 1)..k PROVE Lowered(pg, i, t, j, m)
    <3> DEFINE low == offset(pg, m) - d
               len == length(pg, m)
    <3>1. m \in (i + 1)..last /\ m \in Nat /\ m < j
      BY <1>1, <1>3, <2>1
    <3>2. /\ m \in SlotsOf(rs) /\ offset(pg, m) \in Nat /\ len \in Nat
          /\ SlotAt(m) \in Words /\ SlotAt(m) \in Nat /\ SlotAt(m) < dir
          /\ offset(pg, m) + len <= PageSize
      BY <3>1, PlaceOfLater DEF dir
    <3>3. at + size <= offset(pg, m)
      <4>1. offset(pg, j) + length(pg, j) <= offset(pg, m)
        BY <2>1, <2>2, <3>1, <3>2 DEF WellFormed
      <4> QED BY <4>1 DEF at, size
    <3>4. /\ offset(turn[k], m) = low
          /\ \A x \in 1..(len - d) : turn[k][low + x - 1] = pg[offset(pg, m) + x - 1]
      BY <1>3 DEF Lowered, turn, d
    <3>5. offset(turn[j], m) = low
      <4>1. SlotAt(m) # slot
        BY <2>1, <3>1, Sizes DEF slot
      <4>2. SlotAt(m) \notin (at - d)..(at - d + size - 1)
        BY <2>2, <3>2
      <4> QED BY <2>3, <3>2, <3>4, <4>1, <4>2 DEF offset
    <3>6. ASSUME NEW x \in 1..(len - d) PROVE turn[j][low + x - 1] = turn[k][low + x - 1]
      <4> HIDE DEF len
      <4>1. low + x - 1 \in Words
        BY <2>2, <2>5, <3>2, <3>3
      <4>2. offset(pg, m) \in Nat /\ at \in Nat /\ size \in Nat /\ d \in Nat /\ dir \in Nat
            /\ slot \in Nat /\ dir <= at - d /\ slot < dir /\ at + size <= offset(pg, m) /\ x \in Nat
            /\ 1 <= x
        BY <2>2, <3>2, <3>3
      <4>3. low + x - 1 # slot /\ low + x - 1 \notin (at - d)..(at - d + size - 1)
        BY <4>2
      <4> QED BY <2>3, <4>1, <4>3
    <3> QED BY <3>4, <3>5, <3>6 DEF Lowered, turn, d
  <2>9. \A m \in (i + 1)..j : m = j \/ m \in (i + 1)..k
    BY <1>1, <2>1 DEF j
  <2> QED BY <2>6, <2>7, <2>8, <2>9 DEF j
<1> HIDE DEF last, turn
<1> DEFINE S == {m \in Nat : i + m \in i..last => Good(i + m)}
<1>4. 0 \in S
  <2>1. i + 0 = i
    BY <1>1
  <2> HIDE DEF Good
  <2> QED BY <1>2, <2>1
<1>5. ASSUME NEW m \in Nat, m \in S PROVE m + 1 \in S
  <2>1. SUFFICES ASSUME i + (m + 1) \in i..last PROVE Good(i + (m + 1))
    OBVIOUS
  <2>2. i + m \in i..last /\ i + m # last /\ i + (m + 1) = (i + m) + 1
    BY <1>1, <2>1
  <2>3. Good(i + m)
    BY <1>5, <2>2
  <2> HIDE DEF Good
  <2> QED BY <1>3, <2>2, <2>3
<1>6. Nat \subseteq S
  <2> HIDE DEF S
  <2> QED BY <1>4, <1>5, SetInduction
<1>7. ASSUME NEW k \in i..last PROVE Good(k)
  <2>1. k - i \in Nat /\ i + (k - i) = k
    BY <1>1
  <2>2. k - i \in S
    BY <1>6, <2>1
  <2> HIDE DEF Good
  <2> QED BY <2>1, <2>2
<1> QED BY <1>7 DEF last, turn

\* On a well-formed page a tuple inserted later loses no more than its last d words.
LEMMA GrownDamagesTails ==
    ASSUME NEW pg \in Pages, NEW rs \in Seq(Seq(Nat)), WellFormed(pg, rs),
           NEW i \in SlotsOf(rs), NEW t \in Tuples,
           Len(t) > length(pg, i), Changeable(pg, i, t),
           NEW j \in SlotsOf(rs), j \notin 0..i
    PROVE  /\ length(Grown(pg, i, t), j) = Len(rs[j + 1])
           /\ \A k \in 1..(Len(rs[j + 1]) - SizeDiff(pg, i, t)) :
                getTuple(Grown(pg, i, t), j)[k] = rs[j + 1][k]
<1> DEFINE last == num_slots(pg) - 1
           d == SizeDiff(pg, i, t)
           page2 == Grown(pg, i, t)
           at == offset(pg, j)
           row == rs[j + 1]
           slot == SlotAt(j)
           dir == free_space_start(pg)
<1>1. t \in Seq(Nat)
  BY PageAssumption
<1>2. /\ i \in Nat /\ last \in i..last /\ last = Len(rs) - 1 /\ j \in (i + 1)..last
      /\ j \in Nat
  BY RowsAreSequences DEF SlotsOf, WellFormed
<1>3. page2 = TurnsOf(pg, i, t)[last]
  BY DEF Grown, TurnsOf
<1>4. Placed(pg, j, row) /\ length(pg, j) = Len(row) /\ Len(row) \in Nat
  BY PlaceOfSlot DEF WellFormed
<1>5. Lowered(pg, i, t, last, j)
  BY <1>1, <1>2, TurnsLower
<1>6. /\ slot \in Nat /\ slot + 1 \in Words /\ 3 <= slot /\ slot + 1 < dir /\ d \in Nat
      /\ dir \in Nat
  BY <1>1, <1>2, PlaceOfLater
<1>7. page2[slot + 1] = pg[slot + 1]
  <2>1. slot + 1 \notin {SlotAt(i), SlotAt(i) + 1}
    BY <1>2, SlotsApart
  <2>2. \A m \in (i + 1)..last : slot + 1 # SlotAt(m)
    <3>1. \A m \in Nat : slot + 1 # SlotAt(m)
      BY <1>2, Sizes
    <3>2. \A m \in (i + 1)..last : m \in Nat
      BY <1>2
    <3> QED BY <3>1, <3>2
  <2> HIDE DEF slot, last, page2
  <2>3. 3 <= slot + 1
    BY <1>6
  <2>4. Kept(pg, i, t, last, slot + 1)
    BY <1>6, <2>2, <2>3 DEF Kept
  <2>5. TurnsOf(pg, i, t)[last][slot + 1] = Enlarged(pg, i, t)[slot + 1]
    BY <1>1, <1>2, <1>6, <2>4, TurnsKeep DEF last
  <2>6. Enlarged(pg, i, t)[slot + 1] = pg[slot + 1]
    BY <1>1, <1>6, <2>1, <2>3, EnlargedWords
  <2> QED BY <1>3, <2>5, <2>6
<1>8. length(page2, j) = Len(row)
  BY <1>4, <1>7 DEF length
<1>9. ASSUME NEW k \in 1..(Len(row) - d) PROVE getTuple(page2, j)[k] = row[k]
  <2> HIDE DEF page2, row, d, last
  <2>1. k \in 1..Len(row)
    BY <1>4, <1>6
  <2>2. getTuple(page2, j)[k] = page2[offset(page2, j) + k - 1]
    BY <1>8, <2>1 DEF getTuple, WordsAt
  <2>3. offset(page2, j) = at - d
    BY <1>3, <1>5 DEF Lowered, d
  <2>4. page2[at - d + k - 1] = pg[at + k - 1]
    BY <1>3, <1>4, <1>5 DEF Lowered, d
  <2>5. pg[at + k - 1] = row[k]
    BY <1>4, <2>1 DEF Placed
  <2> QED BY <2>2, <2>3, <2>4, <2>5
<1> QED BY <1>8, <1>9

\* The first replacement of a tuple by one that is d words longer, on any page: the
\* tuples of the slots before it read back, and so does the new one; those behind it
\* keep all words but the last d.  (FreeSpaceIsTheGap does not survive.)
THEOREM GrowthCorrect == Spec => GrowthDamagesTailsOnly
<1> DEFINE Earlier(i) == \A j \in 0..i : getTuple(page', j) = rows'[j + 1]
           Later(i, t) ==
             \A j \in Slots \ 0..i :
               /\ length(page', j) = Len(Row(j))
               /\ \A k \in 1..(Len(Row(j)) - (Len(t) - Len(Row(i)))) :
                    getTuple(page', j)[k] = Row(j)[k]
<1>1. ASSUME Inv, NEW i \in Slots, NEW t \in Tuples, ChangeToLarger(i, t), BeforeGrowth
      PROVE  Earlier(i) /\ Later(i, t)
  <2> DEFINE pg == Opened(page)
  <2>1. /\ Changeable(pg, i, t) /\ Len(t) > length(pg, i)
        /\ page' = changeTuple(pg, i, t) /\ rows' = [rows EXCEPT ![i + 1] = t]
    BY <1>1 DEF ChangeToLarger, ChangeTuple
  <2>2. /\ pg \in Pages /\ WellFormed(pg, rows) /\ rows \in Seq(Seq(Nat))
        /\ i \in SlotsOf(rows) /\ Slots = SlotsOf(rows)
    BY <1>1, OpenedPage, RowsAreTuples DEF Inv, Slots, SlotsOf
  <2> HIDE DEF pg
  <2>3. t \in Seq(Nat) /\ Len(t) \in Nat /\ length(pg, i) \in Nat
        /\ length(pg, i) = Len(Row(i))
    BY <2>2, PageAssumption, PlaceOfSlot DEF Row
  <2>4. page' = Grown(pg, i, t)
    <3>1. SizeDiff(pg, i, t) > 0
      BY <2>1, <2>3 DEF SizeDiff
    <3> QED BY <2>1, <3>1 DEF changeTuple
  <2>5. ASSUME NEW j \in 0..i PROVE getTuple(page', j) = rows'[j + 1]
    <3>1. Placed(page', j, rows'[j + 1])
      BY <1>1, <2>1, <2>2, <2>4, GrownKeepsEarlier
    <3>2. rows'[j + 1] \in Seq(Nat)
      <4>1. j \in SlotsOf(rows) /\ j + 1 \in 1..Len(rows) /\ i + 1 \in 1..Len(rows)
        BY <2>2, RowsAreSequences DEF SlotsOf
      <4>2. rows[j + 1] \in Seq(Nat)
        BY <2>2, <4>1, RowsAreSequences
      <4> QED BY <2>1, <2>2, <2>3, <4>1, <4>2
    <3> QED BY <3>1, <3>2, PlacedReadsBack
  <2>6. Later(i, t)
    <3>1. SizeDiff(pg, i, t) = Len(t) - Len(Row(i))
      BY <2>3 DEF SizeDiff
    <3>2. ASSUME NEW j \in Slots \ 0..i
          PROVE  /\ length(page', j) = Len(rows[j + 1])
                 /\ \A k \in 1..(Len(rows[j + 1]) - SizeDiff(pg, i, t)) :
                      getTuple(page', j)[k] = rows[j + 1][k]
      BY <2>1, <2>2, <2>4, GrownDamagesTails
    <3> QED BY <3>1, <3>2 DEF Row
  <2> QED BY <2>5, <2>6
<1>2. Inv /\ [Next]_vars =>
        [\A i \in Slots, t \in Tuples :
           ChangeToLarger(i, t) /\ BeforeGrowth => Earlier(i) /\ Later(i, t)]_vars
  <2> HIDE DEF Earlier, Later
  <2> QED BY <1>1
<1>3. Inv /\ [Next]_vars =>
        [\A i \in Slots, t \in Tuples :
           ChangeToLarger(i, t) /\ BeforeGrowth
           => /\ \A j \in 0..i : getTuple(page', j) = rows'[j + 1]
              /\ \A j \in Slots \ 0..i :
                   /\ length(page', j) = Len(Row(j))
                   /\ \A k \in 1..(Len(Row(j)) - (Len(t) - Len(Row(i)))) :
                        getTuple(page', j)[k] = Row(j)[k]]_vars
  BY <1>2
<1> QED BY <1>3, Invariant, PTL DEF Spec, GrowthDamagesTailsOnly

=============================================================================
