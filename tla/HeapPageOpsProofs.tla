-------------------------- MODULE HeapPageOpsProofs --------------------------
(***************************************************************************)
(* What insertTuple, changeTuple (to a tuple that is not larger) and       *)
(* applyDelete do to the words of a page, for every page size and any      *)
(* tuples.  The tuples of a page lie in it from the back in the order of   *)
(* their slots, the directory lies before them: WellFormed.  The order is  *)
(* needed because that the tuples are disjoint does not say where the next *)
(* one goes.                                                               *)
(***************************************************************************)
EXTENDS HeapPageOps, TLAPS

Pages == [Words -> Nat]

\* The slots of a page that keeps the rows rs.
SlotsOf(rs) == 0..(Len(rs) - 1)

\* The words of slot i and of its tuple, on page pg.
Placed(pg, i, row) ==
    /\ offset(pg, i) + length(pg, i) <= PageSize
    /\ length(pg, i) = Len(row)
    /\ \A k \in 1..Len(row) : pg[offset(pg, i) + k - 1] = row[k]

\* Page pg keeps the rows rs: header, directory, and tuples from the back on.
WellFormed(pg, rs) ==
    /\ num_slots(pg) = Len(rs)
    /\ free_space_start(pg) = SlotAt(Len(rs))
    /\ free_space_start(pg) <= free_space_end(pg)
    /\ free_space_end(pg) <= PageSize
    /\ \A i \in SlotsOf(rs) : /\ free_space_end(pg) <= offset(pg, i)
                              /\ Placed(pg, i, rs[i + 1])
    /\ \A i, j \in SlotsOf(rs) :
         i < j => offset(pg, j) + length(pg, j) <= offset(pg, i)

\* The page, as the last call left it.
Intact(pg, rs) == pg \in Pages /\ (WellFormed(pg, rs) \/ (pg = ZeroPage /\ rs = <<>>))

-----------------------------------------------------------------------------
(***************************************************************************)
(* The operations on a well-formed page.                                   *)
(***************************************************************************)

LEMMA Sizes ==
    /\ PageSize \in Nat /\ PageSize >= 5 /\ PageSize < 16384
    /\ HeaderSize = 3 /\ SlotSize = 2
    /\ Words = 0..(PageSize - 1)
    /\ \A n : SlotAt(n) = 3 + 2 * n
    /\ \A n \in Nat : n <= PageSize => Unsigned32(n) = n /\ Unsigned16(n) = n
<1>1. PageSize \in Nat /\ PageSize >= 5 /\ PageSize < 16384
  BY PageSizeAssumption DEF HeaderSize, SlotSize
<1>2. ASSUME NEW n \in Nat, n <= PageSize
      PROVE  Unsigned32(n) = n /\ Unsigned16(n) = n
  BY <1>1, <1>2 DEF Unsigned32, Unsigned16
<1> QED BY <1>1, <1>2 DEF HeaderSize, SlotSize, Words, SlotAt

LEMMA RowsAreSequences ==
    ASSUME NEW rs \in Seq(Seq(Nat))
    PROVE  /\ Len(rs) \in Nat
           /\ \A i \in SlotsOf(rs) : i + 1 \in 1..Len(rs) /\ rs[i + 1] \in Seq(Nat)
                                     /\ Len(rs[i + 1]) \in Nat
<1>2. ASSUME NEW i \in SlotsOf(rs)
      PROVE  i + 1 \in 1..Len(rs) /\ rs[i + 1] \in Seq(Nat) /\ Len(rs[i + 1]) \in Nat
  <2>1. i + 1 \in 1..Len(rs)
    BY DEF SlotsOf
  <2>2. rs[i + 1] \in Seq(Nat)
    BY <2>1
  <2> QED BY <2>1, <2>2
<1> QED BY <1>2

\* Where a slot and its tuple are.
LEMMA PlaceOfSlot ==
    ASSUME NEW pg \in Pages, NEW rs \in Seq(Seq(Nat)), WellFormed(pg, rs),
           NEW i \in SlotsOf(rs)
    PROVE  /\ i \in Nat /\ i < Len(rs)
           /\ SlotAt(i) \in Words /\ SlotAt(i) + 1 \in Words
           /\ SlotAt(i) >= 3 /\ SlotAt(i) + 1 < free_space_start(pg)
           /\ offset(pg, i) \in Nat /\ length(pg, i) \in Nat
           /\ length(pg, i) = Len(rs[i + 1])
           /\ free_space_end(pg) <= offset(pg, i)
           /\ offset(pg, i) + length(pg, i) <= PageSize
<1>1. i \in Nat /\ i < Len(rs) /\ Len(rs) \in Nat
  BY RowsAreSequences DEF SlotsOf
<1>2. /\ free_space_start(pg) = 3 + 2 * Len(rs)
      /\ free_space_start(pg) <= free_space_end(pg)
      /\ free_space_end(pg) <= PageSize /\ free_space_end(pg) \in Nat
  BY Sizes DEF WellFormed, Pages, free_space_end
<1>3. SlotAt(i) = 3 + 2 * i
  BY Sizes
<1>4. /\ SlotAt(i) \in Words /\ SlotAt(i) + 1 \in Words /\ SlotAt(i) >= 3
      /\ SlotAt(i) + 1 < free_space_start(pg)
  BY <1>1, <1>2, <1>3, Sizes
<1>5. offset(pg, i) \in Nat /\ length(pg, i) \in Nat
  BY <1>4 DEF Pages, offset, length
<1> QED BY <1>1, <1>4, <1>5 DEF WellFormed, Placed

\* The constructor makes a page of zeros a well-formed page without slots, and
\* leaves a well-formed page alone.
LEMMA OpenedIsWellFormed ==
    ASSUME NEW pg \in Pages, NEW rs \in Seq(Seq(Nat)),
           WellFormed(pg, rs) \/ (pg = ZeroPage /\ rs = <<>>)
    PROVE  Opened(pg) \in Pages /\ WellFormed(Opened(pg), rs)
<1>1. CASE WellFormed(pg, rs)
  <2>1. free_space_start(pg) # 0
    BY <1>1, Sizes, RowsAreSequences DEF WellFormed
  <2> QED BY <1>1, <2>1 DEF Opened
<1>2. CASE pg = ZeroPage /\ rs = <<>>
  <2> DEFINE op == [pg EXCEPT ![0] = 0, ![1] = HeaderSize, ![2] = PageSize]
  <2>1. 0 \in Words /\ 1 \in Words /\ 2 \in Words
    BY Sizes
  <2>2. op \in Pages /\ op[0] = 0 /\ op[1] = 3 /\ op[2] = PageSize
    BY <2>1, Sizes DEF Pages
  <2>3. Opened(pg) = op
    BY <1>2, <2>1 DEF Opened, free_space_start, ZeroPage
  <2> HIDE DEF op
  <2>4. Len(rs) = 0 /\ SlotsOf(rs) = {} /\ SlotAt(Len(rs)) = 3
    BY <1>2, Sizes DEF SlotsOf
  <2>5. WellFormed(op, rs)
    BY <2>2, <2>4, Sizes
       DEF WellFormed, num_slots, free_space_start, free_space_end
  <2> QED BY <2>2, <2>3, <2>5
<1> QED BY <1>1, <1>2

\* A store of one word.
LEMMA StoredWord ==
    ASSUME NEW pg \in Pages, NEW w \in Words, NEW v \in Nat
    PROVE  /\ [pg EXCEPT ![w] = v] \in Pages
           /\ [pg EXCEPT ![w] = v][w] = v
           /\ \A x \in Words \ {w} : [pg EXCEPT ![w] = v][x] = pg[x]
BY DEF Pages

\* memcpy writes the words of the tuple and no other.
LEMMA CopiedWords ==
    ASSUME NEW pg \in Pages, NEW at \in Nat, NEW t \in Seq(Nat)
    PROVE  /\ Copied(pg, at, t) \in Pages
           /\ \A w \in Words : w \notin at..(at + Len(t) - 1) => Copied(pg, at, t)[w] = pg[w]
           /\ \A k \in 1..Len(t) :
                at + k - 1 \in Words => Copied(pg, at, t)[at + k - 1] = t[k]
<1>1. Len(t) \in Nat /\ \A k \in 1..Len(t) : t[k] \in Nat
  OBVIOUS
<1>2. ASSUME NEW w \in Words
      PROVE  /\ Copied(pg, at, t)[w] \in Nat
             /\ w \notin at..(at + Len(t) - 1) => Copied(pg, at, t)[w] = pg[w]
             /\ w \in at..(at + Len(t) - 1) => Copied(pg, at, t)[w] = t[w - at + 1]
  <2>1. w \in Nat /\ pg[w] \in Nat
    BY Sizes DEF Pages
  <2>2. w \in at..(at + Len(t) - 1) => w - at + 1 \in 1..Len(t)
    BY <1>1, <2>1
  <2> QED BY <1>1, <2>1, <2>2 DEF Copied
<1>3. ASSUME NEW k \in 1..Len(t), at + k - 1 \in Words
      PROVE  Copied(pg, at, t)[at + k - 1] = t[k]
  <2>1. at + k - 1 \in at..(at + Len(t) - 1) /\ (at + k - 1) - at + 1 = k
    BY <1>1
  <2> QED BY <1>2, <1>3, <2>1
<1>4. Copied(pg, at, t) \in Pages
  <2>1. Copied(pg, at, t) = [w \in Words |-> Copied(pg, at, t)[w]]
    BY DEF Copied
  <2> QED BY <1>2, <2>1 DEF Pages
<1> QED BY <1>2, <1>3, <1>4

\* A tuple stays where it is as long as its words and its slot's do.
LEMMA PlacedAgain ==
    ASSUME NEW pg \in Pages, NEW pg2, NEW i, NEW row \in Seq(Nat),
           Placed(pg, i, row), offset(pg, i) \in Nat,
           offset(pg2, i) = offset(pg, i), length(pg2, i) = length(pg, i),
           \A w \in offset(pg, i)..(offset(pg, i) + Len(row) - 1) : pg2[w] = pg[w]
    PROVE  Placed(pg2, i, row)
<1> DEFINE at == offset(pg, i)
<1>1. Len(row) \in Nat
  OBVIOUS
<1> HIDE DEF at
<1>2. \A k \in 1..Len(row) : at + k - 1 \in at..(at + Len(row) - 1)
  <2>1. at \in Nat
    BY DEF at
  <2> QED BY <1>1, <2>1
<1>3. \A k \in 1..Len(row) : pg2[at + k - 1] = row[k]
  BY <1>2 DEF Placed, at
<1> QED BY <1>3 DEF Placed, at

\* A tuple that is placed reads back.
LEMMA PlacedReadsBack ==
    ASSUME NEW pg, NEW i, NEW row \in Seq(Nat), Placed(pg, i, row)
    PROVE  getTuple(pg, i) = row
<1>1. getTuple(pg, i) = [k \in 1..Len(row) |-> pg[offset(pg, i) + k - 1]]
  BY DEF getTuple, WordsAt, Placed
<1>2. \A k \in 1..Len(row) : pg[offset(pg, i) + k - 1] = row[k]
  BY DEF Placed
<1>3. row = [k \in 1..Len(row) |-> row[k]]
  OBVIOUS
<1> QED BY <1>1, <1>2, <1>3

\* Where insertTuple copies the tuple t.
StartOf(pg, t) == free_space_end(pg) - Len(t)

\* insertTuple: the new slot, the new tuple, the header, and nothing else.
LEMMA InsertedWords ==
    ASSUME NEW pg \in Pages, NEW rs \in Seq(Seq(Nat)), WellFormed(pg, rs),
           NEW t \in Seq(Nat), Fits(pg, t)
    PROVE  /\ StartOf(pg, t) \in Nat /\ free_space_start(pg) \in Nat
           /\ 3 <= free_space_start(pg)
           /\ free_space_start(pg) + 2 <= StartOf(pg, t)
           /\ StartOf(pg, t) <= free_space_end(pg)
           /\ StartOf(pg, t) + Len(t) <= PageSize
           /\ Inserted(pg, t) \in Pages
           /\ Inserted(pg, t)[0] = Len(rs) + 1
           /\ Inserted(pg, t)[1] = free_space_start(pg) + 2
           /\ Inserted(pg, t)[2] = StartOf(pg, t)
           /\ Inserted(pg, t)[free_space_start(pg)] = StartOf(pg, t)
           /\ Inserted(pg, t)[free_space_start(pg) + 1] = Len(t)
           /\ \A k \in 1..Len(t) : Inserted(pg, t)[StartOf(pg, t) + k - 1] = t[k]
           /\ \A w \in Words :
                3 <= w /\ (w < free_space_start(pg) \/ free_space_end(pg) <= w)
                => Inserted(pg, t)[w] = pg[w]
<1> DEFINE end == free_space_end(pg)
           dir == free_space_start(pg)
           start == StartOf(pg, t)
           copied == Copied(pg, start, t)
           moved == [copied EXCEPT ![1] = @ + SlotSize]
           listed == [[moved EXCEPT ![dir] = start] EXCEPT ![dir + 1] = Len(t)]
           final == [[listed EXCEPT ![0] = @ + 1] EXCEPT ![2] = start]
<1>1. /\ Len(rs) \in Nat /\ Len(t) \in Nat
      /\ dir = 3 + 2 * Len(rs) /\ dir <= end /\ end <= PageSize /\ end \in Nat
      /\ pg[0] = Len(rs) /\ pg[1] = dir /\ pg[2] = end
  BY Sizes, RowsAreSequences
     DEF WellFormed, Pages, num_slots, free_space_start, free_space_end
<1>2. end - dir >= Len(t) + 2
  <2> HIDE DEF end, dir
  <2>1. end - dir \in Nat /\ end - dir <= PageSize
    BY <1>1, Sizes
  <2>2. Unsigned32(end - dir) = end - dir
    BY <2>1, Sizes
  <2> QED BY <2>2, Sizes DEF Fits, FreeWords, end, dir
<1>3. start \in Nat /\ dir \in Nat /\ 3 <= dir /\ dir + 2 <= start /\ start <= PageSize
      /\ start = end - Len(t)
  <2>1. start = end - Len(t)
    BY DEF StartOf
  <2> HIDE DEF end, dir, start
  <2>2. dir \in Nat /\ 3 <= dir
    BY <1>1
  <2>3. PageSize \in Nat /\ end \in Nat /\ end <= PageSize /\ Len(t) \in Nat
    BY <1>1, Sizes
  <2> QED BY <1>2, <2>1, <2>2, <2>3
<1>4. /\ 0 \in Words /\ 1 \in Words /\ 2 \in Words
      /\ dir \in Words /\ dir + 1 \in Words
  BY <1>1, <1>3, Sizes
<1>5. /\ copied \in Pages
      /\ \A w \in Words : w \notin start..(start + Len(t) - 1) => copied[w] = pg[w]
      /\ \A k \in 1..Len(t) : start + k - 1 \in Words => copied[start + k - 1] = t[k]
  BY <1>3, CopiedWords
<1>6. copied[0] = Len(rs) /\ copied[1] = dir /\ copied[2] = end
  <2>1. {0, 1, 2} \cap start..(start + Len(t) - 1) = {}
    BY <1>1, <1>3
  <2> HIDE DEF copied, end, dir, start
  <2> QED BY <1>1, <1>4, <1>5, <2>1
<1>7. Inserted(pg, t) = final
  BY <1>6 DEF Inserted, free_space_start, StartOf
<1> HIDE DEF copied, end, dir, start
<1>8. /\ final \in Pages
      /\ final[0] = Len(rs) + 1 /\ final[1] = dir + 2 /\ final[2] = start
      /\ final[dir] = start /\ final[dir + 1] = Len(t)
      /\ \A w \in Words \ {0, 1, 2, dir, dir + 1} : final[w] = copied[w]
  <2>1. moved = [copied EXCEPT ![1] = dir + 2]
    BY <1>4, <1>5, <1>6, Sizes DEF Pages, moved
  <2>2. moved \in Pages /\ moved[1] = dir + 2
        /\ \A w \in Words \ {1} : moved[w] = copied[w]
    <3>1. dir + 2 \in Nat
      BY <1>3
    <3> QED BY <1>4, <1>5, <2>1, <3>1, StoredWord
  <2> HIDE DEF moved
  <2> DEFINE offsetStored == [moved EXCEPT ![dir] = start]
  <2>3. offsetStored \in Pages /\ offsetStored[dir] = start
        /\ \A w \in Words \ {dir} : offsetStored[w] = moved[w]
    BY <1>3, <1>4, <2>2, StoredWord
  <2>4. listed = [offsetStored EXCEPT ![dir + 1] = Len(t)]
    BY DEF listed
  <2> HIDE DEF offsetStored, listed
  <2>5. listed \in Pages /\ listed[dir + 1] = Len(t)
        /\ \A w \in Words \ {dir + 1} : listed[w] = offsetStored[w]
    <3>1. Len(t) \in Nat /\ dir + 1 \in Words
      BY <1>1, <1>4
    <3> DEFINE at == dir + 1
               n == Len(t)
               stored == [offsetStored EXCEPT ![at] = n]
    <3>2. at \in Words /\ n \in Nat
      BY <3>1
    <3> HIDE DEF at, n
    <3>3. stored \in Pages /\ stored[at] = n
          /\ \A w \in Words \ {at} : stored[w] = offsetStored[w]
      BY <2>3, <3>2, StoredWord
    <3> QED BY <2>4, <3>3 DEF at, n
  <2>6. dir \notin {0, 1, 2, dir + 1} /\ dir + 1 \notin {0, 1, 2}
    BY <1>3
  <2>7. listed[0] = Len(rs) /\ listed[1] = dir + 2
    BY <1>4, <1>6, <2>2, <2>3, <2>5, <2>6
  <2> DEFINE counted == [listed EXCEPT ![0] = Len(rs) + 1]
  <2>8. [listed EXCEPT ![0] = @ + 1] = counted
    BY <1>4, <2>5, <2>7 DEF Pages
  <2>9. counted \in Pages /\ counted[0] = Len(rs) + 1
        /\ \A w \in Words \ {0} : counted[w] = listed[w]
    BY <1>1, <1>4, <2>5, StoredWord
  <2>10. final = [counted EXCEPT ![2] = start]
    BY <2>8 DEF final
  <2> HIDE DEF counted, final
  <2>11. final \in Pages /\ final[2] = start
         /\ \A w \in Words \ {2} : final[w] = counted[w]
    <3>1. start \in Nat /\ 2 \in Words
      BY <1>3, <1>4
    <3> DEFINE stored == [counted EXCEPT ![2] = start]
    <3>2. stored \in Pages /\ stored[2] = start
          /\ \A w \in Words \ {2} : stored[w] = counted[w]
      BY <2>9, <3>1, StoredWord
    <3> QED BY <2>10, <3>2
  <2> QED BY <1>4, <2>2, <2>3, <2>5, <2>6, <2>7, <2>9, <2>11
<1> HIDE DEF final
<1>9. ASSUME NEW k \in 1..Len(t) PROVE final[start + k - 1] = t[k]
  <2>1. start + k - 1 \in Words /\ start + k - 1 \notin {0, 1, 2, dir, dir + 1}
    <3>1. /\ end \in Nat /\ end <= PageSize /\ Len(t) \in Nat /\ PageSize \in Nat
          /\ Words = 0..(PageSize - 1)
      BY <1>1, Sizes
    <3> QED BY <1>3, <3>1
  <2> QED BY <1>5, <1>8, <2>1
<1>10. ASSUME NEW w \in Words, 3 <= w, w < dir \/ end <= w PROVE final[w] = pg[w]
  <2>1. /\ w \in Nat /\ w \notin {0, 1, 2, dir, dir + 1}
        /\ w \notin start..(start + Len(t) - 1)
    <3>1. /\ end \in Nat /\ end <= PageSize /\ Len(t) \in Nat /\ PageSize \in Nat
          /\ Words = 0..(PageSize - 1)
      BY <1>1, Sizes
    <3> QED BY <1>3, <1>10, <3>1
  <2> QED BY <1>5, <1>8, <2>1
<1>11. start <= end /\ start + Len(t) <= PageSize
  <2>1. end \in Nat /\ Len(t) \in Nat /\ end <= PageSize /\ PageSize \in Nat
    BY <1>1, Sizes
  <2> QED BY <1>3, <2>1
<1> QED BY <1>3, <1>7, <1>8, <1>9, <1>10, <1>11 DEF end, dir, start

\* A slot whose words and whose tuple's words are unchanged.
LEMMA SlotUntouched ==
    ASSUME NEW pg \in Pages, NEW rs \in Seq(Seq(Nat)), WellFormed(pg, rs),
           NEW i \in SlotsOf(rs), NEW pg2,
           pg2[SlotAt(i)] = pg[SlotAt(i)], pg2[SlotAt(i) + 1] = pg[SlotAt(i) + 1],
           \A w \in offset(pg, i)..(offset(pg, i) + length(pg, i) - 1) : pg2[w] = pg[w]
    PROVE  /\ offset(pg2, i) = offset(pg, i) /\ length(pg2, i) = length(pg, i)
           /\ Placed(pg2, i, rs[i + 1])
<1>1. offset(pg2, i) = offset(pg, i) /\ length(pg2, i) = length(pg, i)
  BY DEF offset, length
<1>2. rs[i + 1] \in Seq(Nat)
  BY RowsAreSequences
<1>3. /\ Placed(pg, i, rs[i + 1])
      /\ offset(pg, i) \in Nat /\ length(pg, i) = Len(rs[i + 1])
  BY PlaceOfSlot DEF WellFormed
<1>4. \A w \in offset(pg, i)..(offset(pg, i) + Len(rs[i + 1]) - 1) : pg2[w] = pg[w]
  BY <1>3
<1> QED BY <1>1, <1>2, <1>3, <1>4, PlacedAgain

\* insertTuple of a tuple that fits keeps the page well formed.
LEMMA InsertedIsWellFormed ==
    ASSUME NEW pg \in Pages, NEW rs \in Seq(Seq(Nat)), WellFormed(pg, rs),
           NEW t \in Seq(Nat), Fits(pg, t)
    PROVE  Inserted(pg, t) \in Pages /\ WellFormed(Inserted(pg, t), Append(rs, t))
<1> DEFINE n == Len(rs)
           pg2 == Inserted(pg, t)
           rs2 == Append(rs, t)
           start == StartOf(pg, t)
           dir == free_space_start(pg)
           end == free_space_end(pg)
<1>1. t \in Seq(Nat) /\ n \in Nat /\ Len(t) \in Nat
  OBVIOUS
<1>2. /\ rs2 \in Seq(Seq(Nat)) /\ Len(rs2) = n + 1 /\ rs2[n + 1] = t
      /\ \A i \in SlotsOf(rs) : rs2[i + 1] = rs[i + 1]
  BY <1>1 DEF SlotsOf
<1>3. /\ start \in Nat /\ dir \in Nat /\ dir + 2 <= start /\ start <= end
      /\ start + Len(t) <= PageSize
      /\ pg2 \in Pages /\ pg2[0] = n + 1 /\ pg2[1] = dir + 2 /\ pg2[2] = start
      /\ pg2[dir] = start /\ pg2[dir + 1] = Len(t)
      /\ \A k \in 1..Len(t) : pg2[start + k - 1] = t[k]
      /\ \A w \in Words : 3 <= w /\ (w < dir \/ end <= w) => pg2[w] = pg[w]
      /\ 3 <= dir
  BY <1>1, InsertedWords
<1>4. dir = SlotAt(n) /\ end \in Nat /\ end <= PageSize
  BY Sizes DEF WellFormed, Pages, free_space_end
<1>5. \A i \in SlotsOf(rs2) : i \in SlotsOf(rs) \/ i = n
  BY <1>1, <1>2 DEF SlotsOf
<1> HIDE DEF pg2, rs2, start, dir, end, n
<1>6. ASSUME NEW i \in SlotsOf(rs)
      PROVE  /\ offset(pg2, i) = offset(pg, i) /\ length(pg2, i) = length(pg, i)
             /\ Placed(pg2, i, rs2[i + 1])
             /\ end <= offset(pg2, i)
  <2>1. /\ SlotAt(i) \in Words /\ SlotAt(i) + 1 \in Words
        /\ SlotAt(i) >= 3 /\ SlotAt(i) + 1 < dir
        /\ offset(pg, i) \in Nat /\ length(pg, i) \in Nat
        /\ end <= offset(pg, i) /\ offset(pg, i) + length(pg, i) <= PageSize
    BY PlaceOfSlot DEF dir, end
  <2>2. pg2[SlotAt(i)] = pg[SlotAt(i)] /\ pg2[SlotAt(i) + 1] = pg[SlotAt(i) + 1]
    <3>1. SlotAt(i) < dir /\ SlotAt(i) + 1 >= 3
      BY <1>3, <2>1, Sizes
    <3> QED BY <1>3, <2>1, <3>1
  <2>3. ASSUME NEW w \in offset(pg, i)..(offset(pg, i) + length(pg, i) - 1)
        PROVE  pg2[w] = pg[w]
    <3>1. w \in Words /\ 3 <= w /\ end <= w
      <4> DEFINE at == offset(pg, i)
                 size == length(pg, i)
      <4>1. /\ at \in Nat /\ size \in Nat /\ end <= at /\ at + size <= PageSize
            /\ w \in at..(at + size - 1)
        BY <2>1
      <4>2. PageSize \in Nat /\ Words = 0..(PageSize - 1)
        BY Sizes
      <4>3. 3 <= end /\ end \in Nat
        BY <1>3, <1>4
      <4> HIDE DEF at, size
      <4> QED BY <4>1, <4>2, <4>3
    <3> QED BY <1>3, <3>1
  <2>4. offset(pg2, i) = offset(pg, i) /\ length(pg2, i) = length(pg, i)
        /\ Placed(pg2, i, rs[i + 1])
    BY <2>2, <2>3, SlotUntouched
  <2> QED BY <1>2, <2>1, <2>4
<1>7. offset(pg2, n) = start /\ length(pg2, n) = Len(t) /\ Placed(pg2, n, rs2[n + 1])
  <2>1. offset(pg2, n) = start /\ length(pg2, n) = Len(t)
    BY <1>3, <1>4 DEF offset, length
  <2> QED BY <1>2, <1>3, <2>1 DEF Placed
<1>8. ASSUME NEW i \in SlotsOf(rs2)
      PROVE  start <= offset(pg2, i) /\ Placed(pg2, i, rs2[i + 1])
  <2>1. CASE i \in SlotsOf(rs)
    <3>1. offset(pg2, i) \in Nat
      BY <1>6, <2>1, PlaceOfSlot
    <3> QED BY <1>3, <1>4, <1>6, <2>1, <3>1
  <2>2. CASE i = n
    BY <1>3, <1>7, <2>2
  <2> QED BY <1>5, <2>1, <2>2
<1>9. ASSUME NEW i \in SlotsOf(rs2), NEW j \in SlotsOf(rs2), i < j
      PROVE  offset(pg2, j) + length(pg2, j) <= offset(pg2, i)
  <2>1. i \in SlotsOf(rs)
    BY <1>1, <1>2, <1>5, <1>9 DEF SlotsOf, n
  <2>2. CASE j \in SlotsOf(rs)
    BY <1>6, <1>9, <2>1, <2>2 DEF WellFormed
  <2>3. CASE j = n
    <3>1. start + Len(t) = end
      BY <1>1, <1>4 DEF start, end, StartOf
    <3>2. offset(pg2, j) + length(pg2, j) = end
      BY <1>7, <2>3, <3>1
    <3> QED BY <1>6, <2>1, <3>2
  <2> QED BY <1>5, <2>2, <2>3
<1>10. /\ num_slots(pg2) = Len(rs2) /\ free_space_start(pg2) = SlotAt(Len(rs2))
       /\ free_space_end(pg2) = start
  <2>1. SlotAt(n + 1) = SlotAt(n) + 2
    BY <1>1, Sizes DEF n
  <2> QED BY <1>2, <1>3, <1>4, <2>1 DEF num_slots, free_space_start, free_space_end
<1>11. SlotAt(Len(rs2)) = dir + 2 /\ start <= PageSize
  <2>1. free_space_start(pg2) = dir + 2
    BY <1>3 DEF free_space_start
  <2>2. PageSize \in Nat
    BY Sizes
  <2> QED BY <1>3, <1>4, <1>10, <2>1, <2>2
<1>12. WellFormed(pg2, rs2)
  BY <1>3, <1>8, <1>9, <1>10, <1>11 DEF WellFormed
<1> QED BY <1>3, <1>12 DEF pg2, rs2

\* The directory and the header lie below the tuples, and a slot's words are its own.
LEMMA SlotsApart ==
    ASSUME NEW rs \in Seq(Seq(Nat)), NEW i \in SlotsOf(rs), NEW j \in SlotsOf(rs), i # j
    PROVE  /\ SlotAt(i) \notin {SlotAt(j), SlotAt(j) + 1}
           /\ SlotAt(i) + 1 \notin {SlotAt(j), SlotAt(j) + 1}
<1>1. i \in Nat /\ j \in Nat
  BY RowsAreSequences DEF SlotsOf
<1>2. SlotAt(i) = 3 + 2 * i /\ SlotAt(j) = 3 + 2 * j
  BY Sizes
<1> QED BY <1>1, <1>2

\* A page on which slot i, at the same offset, keeps another row that is not
\* longer, and the rest is unchanged, is well formed.
LEMMA RowReplaced ==
    ASSUME NEW pg \in Pages, NEW rs \in Seq(Seq(Nat)), WellFormed(pg, rs),
           NEW i \in SlotsOf(rs), NEW row \in Seq(Nat), Len(row) <= length(pg, i),
           NEW pg2 \in Pages,
           \A w \in {0, 1, 2} : pg2[w] = pg[w],
           offset(pg2, i) = offset(pg, i), Placed(pg2, i, row),
           \A j \in SlotsOf(rs) \ {i} :
             /\ pg2[SlotAt(j)] = pg[SlotAt(j)] /\ pg2[SlotAt(j) + 1] = pg[SlotAt(j) + 1]
             /\ \A w \in offset(pg, j)..(offset(pg, j) + length(pg, j) - 1) : pg2[w] = pg[w]
    PROVE  WellFormed(pg2, [rs EXCEPT ![i + 1] = row])
<1> DEFINE rs2 == [rs EXCEPT ![i + 1] = row]
<1>1. /\ rs2 \in Seq(Seq(Nat)) /\ Len(rs2) = Len(rs) /\ rs2[i + 1] = row
      /\ \A j \in SlotsOf(rs) \ {i} : rs2[j + 1] = rs[j + 1]
      /\ Len(rs) \in Nat
  <2>1. i + 1 \in 1..Len(rs) /\ Len(rs) \in Nat
    BY RowsAreSequences
  <2>2. rs2 \in Seq(Seq(Nat)) /\ Len(rs2) = Len(rs) /\ rs2[i + 1] = row
    BY <2>1
  <2>3. \A k \in 1..Len(rs) \ {i + 1} : rs2[k] = rs[k]
    BY <2>1
  <2>4. \A j \in SlotsOf(rs) \ {i} : j + 1 \in 1..Len(rs) \ {i + 1}
    BY <2>1 DEF SlotsOf
  <2> HIDE DEF rs2
  <2> QED BY <2>1, <2>2, <2>3, <2>4
<1> HIDE DEF rs2
<1>2. SlotsOf(rs2) = SlotsOf(rs)
  BY <1>1 DEF SlotsOf
<1>3. /\ num_slots(pg2) = Len(rs2) /\ free_space_start(pg2) = SlotAt(Len(rs2))
      /\ free_space_end(pg2) = free_space_end(pg)
      /\ free_space_start(pg2) <= free_space_end(pg2) /\ free_space_end(pg2) <= PageSize
  BY <1>1 DEF WellFormed, num_slots, free_space_start, free_space_end
<1>4. ASSUME NEW j \in SlotsOf(rs)
      PROVE  /\ offset(pg2, j) = offset(pg, j) /\ offset(pg, j) \in Nat
             /\ length(pg, j) \in Nat /\ length(pg2, j) \in Nat
             /\ length(pg2, j) <= length(pg, j)
             /\ free_space_end(pg) <= offset(pg2, j)
             /\ Placed(pg2, j, rs2[j + 1])
  <2>1. /\ offset(pg, j) \in Nat /\ length(pg, j) \in Nat
        /\ free_space_end(pg) <= offset(pg, j)
        /\ SlotAt(j) + 1 \in Words
    BY PlaceOfSlot
  <2>2. length(pg2, j) \in Nat
    BY <2>1 DEF length, Pages
  <2>3. CASE j = i
    BY <1>1, <2>1, <2>2, <2>3 DEF Placed
  <2>4. CASE j # i
    <3>1. /\ offset(pg2, j) = offset(pg, j) /\ length(pg2, j) = length(pg, j)
          /\ Placed(pg2, j, rs[j + 1])
      BY <2>4, SlotUntouched
    <3> QED BY <1>1, <2>1, <2>4, <3>1
  <2> QED BY <2>3, <2>4
<1>5. ASSUME NEW j \in SlotsOf(rs), NEW k \in SlotsOf(rs), j < k
      PROVE  offset(pg2, k) + length(pg2, k) <= offset(pg2, j)
  <2>1. offset(pg, k) + length(pg, k) <= offset(pg, j)
    BY <1>5 DEF WellFormed
  <2> QED BY <1>4, <2>1
<1>6. WellFormed(pg2, rs2)
  BY <1>2, <1>3, <1>4, <1>5 DEF WellFormed
<1> QED BY <1>6 DEF rs2

\* The words below free_space_end: header and directory.  Those of a slot are
\* neither words of the header nor words of a tuple.
LEMMA SlotWords ==
    ASSUME NEW pg \in Pages, NEW rs \in Seq(Seq(Nat)), WellFormed(pg, rs),
           NEW i \in SlotsOf(rs), NEW j \in SlotsOf(rs)
    PROVE  /\ SlotAt(i) \in Words /\ SlotAt(i) + 1 \in Words
           /\ SlotAt(i) \notin {0, 1, 2} /\ SlotAt(i) + 1 \notin {0, 1, 2}
           /\ SlotAt(i) # SlotAt(i) + 1
           /\ offset(pg, j)..(offset(pg, j) + length(pg, j) - 1) \subseteq Words
           /\ \A w \in offset(pg, j)..(offset(pg, j) + length(pg, j) - 1) :
                w \notin {0, 1, 2, SlotAt(i), SlotAt(i) + 1}
<1> DEFINE at == offset(pg, j)
           size == length(pg, j)
           end == free_space_end(pg)
           slot == SlotAt(i)
<1>1. slot \in Words /\ slot + 1 \in Words /\ slot >= 3 /\ slot + 1 < free_space_start(pg)
  BY PlaceOfSlot
<1>2. at \in Nat /\ size \in Nat /\ end <= at /\ at + size <= PageSize
  BY PlaceOfSlot
<1>3. /\ free_space_start(pg) <= end /\ end \in Nat /\ free_space_start(pg) \in Nat
      /\ PageSize \in Nat /\ Words = 0..(PageSize - 1)
  BY Sizes, PlaceOfSlot DEF WellFormed, Pages, free_space_end, free_space_start
<1> HIDE DEF at, size, end, slot
<1>4. slot \in Nat /\ slot + 1 < end /\ 3 <= end
  BY <1>1, <1>3
<1>5. ASSUME NEW w \in at..(at + size - 1)
      PROVE  w \in Words /\ w \notin {0, 1, 2, slot, slot + 1}
  BY <1>2, <1>3, <1>4, <1>5
<1>6. slot \notin {0, 1, 2} /\ slot + 1 \notin {0, 1, 2} /\ slot # slot + 1
  BY <1>1, <1>4
<1> QED BY <1>1, <1>5, <1>6 DEF at, size, slot

\* applyDelete empties the slot.
LEMMA DeletedIsWellFormed ==
    ASSUME NEW pg \in Pages, NEW rs \in Seq(Seq(Nat)), WellFormed(pg, rs),
           NEW i \in SlotsOf(rs)
    PROVE  /\ applyDelete(pg, i) \in Pages
           /\ WellFormed(applyDelete(pg, i), [rs EXCEPT ![i + 1] = <<>>])
<1> DEFINE pg2 == applyDelete(pg, i)
           word == SlotAt(i) + 1
<1>1. word \in Words /\ 0 \in Nat
  BY SlotWords
<1>2. pg2 \in Pages /\ pg2[word] = 0 /\ \A w \in Words \ {word} : pg2[w] = pg[w]
  BY <1>1, StoredWord DEF applyDelete
<1>3. 0 \in Words /\ 1 \in Words /\ 2 \in Words
  BY Sizes
<1> HIDE DEF pg2
<1>4. \A w \in {0, 1, 2} : pg2[w] = pg[w]
  BY <1>2, <1>3, SlotWords
<1>5. offset(pg2, i) = offset(pg, i) /\ length(pg2, i) = 0
  BY <1>2, SlotWords DEF offset, length
<1>6. Placed(pg2, i, <<>>)
  <2>1. /\ offset(pg, i) \in Nat /\ length(pg, i) \in Nat /\ PageSize \in Nat
        /\ offset(pg, i) + length(pg, i) <= PageSize
    BY PlaceOfSlot, Sizes
  <2>2. offset(pg2, i) + length(pg2, i) <= PageSize
    BY <1>5, <2>1
  <2>3. \A k \in 1..Len(<<>>) : FALSE
    OBVIOUS
  <2> QED BY <1>5, <2>2, <2>3 DEF Placed
<1>7. ASSUME NEW j \in SlotsOf(rs) \ {i}
      PROVE  /\ pg2[SlotAt(j)] = pg[SlotAt(j)] /\ pg2[SlotAt(j) + 1] = pg[SlotAt(j) + 1]
             /\ \A w \in offset(pg, j)..(offset(pg, j) + length(pg, j) - 1) : pg2[w] = pg[w]
  <2>1. SlotAt(j) \in Words \ {word} /\ SlotAt(j) + 1 \in Words \ {word}
    BY SlotWords, SlotsApart
  <2>2. offset(pg, j)..(offset(pg, j) + length(pg, j) - 1) \subseteq Words \ {word}
    BY SlotWords
  <2> HIDE DEF word
  <2> QED BY <1>2, <2>1, <2>2
<1>8. <<>> \in Seq(Nat) /\ Len(<<>>) <= length(pg, i)
  BY PlaceOfSlot
<1> QED BY <1>2, <1>4, <1>5, <1>6, <1>7, <1>8, RowReplaced DEF pg2

\* changeTuple to the same size or a smaller one rewrites the tuple in place.
LEMMA RewrittenIsWellFormed ==
    ASSUME NEW pg \in Pages, NEW rs \in Seq(Seq(Nat)), WellFormed(pg, rs),
           NEW i \in SlotsOf(rs), NEW t \in Seq(Nat), Len(t) <= length(pg, i)
    PROVE  /\ Rewritten(pg, i, t) \in Pages
           /\ WellFormed(Rewritten(pg, i, t), [rs EXCEPT ![i + 1] = t])
<1> DEFINE word == SlotAt(i) + 1
           at == offset(pg, i)
           size == length(pg, i)
           n == Len(t)
           pg1 == [pg EXCEPT ![word] = n]
           pg2 == Copied(pg1, at, t)
<1>1. t \in Seq(Nat) /\ n \in Nat
  OBVIOUS
<1>2. word \in Words
  BY SlotWords
<1>3. /\ at \in Nat /\ size \in Nat /\ at + size <= PageSize /\ n <= size
      /\ PageSize \in Nat /\ Words = 0..(PageSize - 1)
  BY PlaceOfSlot, Sizes
<1>4. pg1 \in Pages /\ pg1[word] = n /\ \A w \in Words \ {word} : pg1[w] = pg[w]
  <2> HIDE DEF word, n
  <2> QED BY <1>1, <1>2, StoredWord
<1> HIDE DEF pg1
<1>5. /\ pg2 \in Pages
      /\ \A w \in Words : w \notin at..(at + n - 1) => pg2[w] = pg1[w]
      /\ \A k \in 1..n : at + k - 1 \in Words => pg2[at + k - 1] = t[k]
  BY <1>1, <1>3, <1>4, CopiedWords
<1>6. Rewritten(pg, i, t) = pg2
  BY DEF Rewritten, pg1
<1> HIDE DEF pg2
<1>7. \A w \in at..(at + n - 1) : w \in at..(at + size - 1)
  <2> HIDE DEF at, size, n
  <2> QED BY <1>1, <1>3
<1>8. \A w \in Words : w \notin at..(at + size - 1) /\ w # word => pg2[w] = pg[w]
  <2> HIDE DEF at, size, n, word
  <2> QED BY <1>4, <1>5, <1>7
<1>9. \A w \in {0, 1, 2} : pg2[w] = pg[w]
  <2>1. 0 \in Words /\ 1 \in Words /\ 2 \in Words
    BY Sizes
  <2>2. \A w \in {0, 1, 2} : w \notin at..(at + size - 1) /\ w # word
    BY SlotWords
  <2> QED BY <1>8, <2>1, <2>2
<1>10. offset(pg2, i) = at /\ length(pg2, i) = n
  <2>1. SlotAt(i) \in Words /\ SlotAt(i) # word
    BY SlotWords
  <2>2. SlotAt(i) \notin at..(at + size - 1) /\ word \notin at..(at + size - 1)
    BY SlotWords
  <2>3. pg2[SlotAt(i)] = pg[SlotAt(i)]
    BY <1>8, <2>1, <2>2
  <2>4. pg2[word] = n
    BY <1>2, <1>4, <1>5, <1>7, <2>2
  <2> QED BY <2>3, <2>4 DEF offset, length
<1>11. Placed(pg2, i, t)
  <2> HIDE DEF at, size, n
  <2>1. at + n <= PageSize
    BY <1>1, <1>3
  <2>2. \A k \in 1..n : at + k - 1 \in Words
    BY <1>1, <1>3, <2>1
  <2> QED BY <1>5, <1>10, <2>1, <2>2 DEF Placed, n
<1>12. ASSUME NEW j \in SlotsOf(rs) \ {i}
       PROVE  /\ pg2[SlotAt(j)] = pg[SlotAt(j)] /\ pg2[SlotAt(j) + 1] = pg[SlotAt(j) + 1]
              /\ \A w \in offset(pg, j)..(offset(pg, j) + length(pg, j) - 1) : pg2[w] = pg[w]
  <2>1. /\ SlotAt(j) \in Words /\ SlotAt(j) \notin at..(at + size - 1) /\ SlotAt(j) # word
        /\ SlotAt(j) + 1 \in Words /\ SlotAt(j) + 1 \notin at..(at + size - 1)
        /\ SlotAt(j) + 1 # word
    BY SlotWords, SlotsApart
  <2> DEFINE atj == offset(pg, j)
             sizej == length(pg, j)
  <2>2. ASSUME NEW w \in atj..(atj + sizej - 1)
        PROVE  w \in Words /\ w # word /\ w \notin at..(at + size - 1)
    <3>1. w \in Words /\ w # word
      BY SlotWords
    <3>2. /\ i \in Nat /\ j \in Nat /\ i # j /\ atj \in Nat /\ sizej \in Nat
          /\ i < j => atj + sizej <= at
          /\ j < i => at + size <= atj
      BY PlaceOfSlot DEF WellFormed
    <3> HIDE DEF at, size, atj, sizej
    <3>3. w \notin at..(at + size - 1)
      BY <1>3, <2>2, <3>2
    <3> QED BY <3>1, <3>3
  <2> HIDE DEF atj, sizej, at, size, word
  <2>3. \A w \in atj..(atj + sizej - 1) : pg2[w] = pg[w]
    BY <1>8, <2>2
  <2> QED BY <1>8, <2>1, <2>3 DEF atj, sizej
<1>13. WellFormed(pg2, [rs EXCEPT ![i + 1] = t])
  BY <1>1, <1>5, <1>9, <1>10, <1>11, <1>12, RowReplaced
<1> QED BY <1>5, <1>6, <1>13

=============================================================================
