---------------------------- MODULE HeapPageOps ----------------------------
(***************************************************************************)
(* The operations of HeapPage on the bytes of one page, as operators from  *)
(* a page to a page.  A page is an array of words; a word stands for four  *)
(* bytes, so the three uint32_t of HeapPageHeader take three words and a   *)
(* Slot two, and a tuple is a sequence of words.  Everything shares the    *)
(* one array, as in the code: a copy that reaches too far overwrites       *)
(* whatever is there.  The loads and stores are in the order of the code.  *)
(***************************************************************************)
EXTENDS Integers, Sequences

CONSTANT PageSize \* PAGE_SIZE, in words

HeaderSize == 3
SlotSize == 2

\* A page has room for a slot, and its offsets for every word.
ASSUME PageSizeAssumption ==
    PageSize \in Nat /\ PageSize >= HeaderSize + SlotSize /\ PageSize < 2^14

Words == 0..(PageSize - 1)

\* A header field is a uint32_t, getFreeSpace returns a uint16_t (in words).
Unsigned32(n) == n % 2^30
Unsigned16(n) == n % 2^14

ZeroPage == [w \in Words |-> 0]

num_slots(pg) == pg[0]
free_space_start(pg) == pg[1]
free_space_end(pg) == pg[2]
FreeWords(pg) == free_space_end(pg) - free_space_start(pg)

\* getSlot(i): where the two words of slot i are.
SlotAt(i) == HeaderSize + SlotSize * i
offset(pg, i) == pg[SlotAt(i)]
length(pg, i) == pg[SlotAt(i) + 1]

\* memcpy of the tuple t to place at.
Copied(pg, at, t) ==
    [w \in Words |-> IF w \in at..(at + Len(t) - 1) THEN t[w - at + 1] ELSE pg[w]]

\* The n words from place at on.
WordsAt(pg, at, n) == [k \in 1..n |-> pg[at + k - 1]]

\* The constructor: a page whose free_space_start is 0 is taken for a new one.
Opened(pg) ==
    IF free_space_start(pg) = 0
    THEN [pg EXCEPT ![0] = 0, ![1] = HeaderSize, ![2] = PageSize]
    ELSE pg

getTuple(pg, i) == WordsAt(pg, offset(pg, i), length(pg, i))

\* Mutant: the room for the slot is not counted.
MutantFits(pg, t) == Unsigned32(FreeWords(pg)) >= Len(t)

\* insertTuple, the check and the stores.
Fits(pg, t) == Unsigned32(FreeWords(pg)) >= Len(t) + SlotSize

\* Mutant: free_space_end is not moved.
MutantInserted(pg, t) ==
    LET start  == free_space_end(pg) - Len(t)
        copied == Copied(pg, start, t)
        slot   == free_space_start(copied)
        moved  == [copied EXCEPT ![1] = @ + SlotSize]
        listed == [[moved EXCEPT ![slot] = start] EXCEPT ![slot + 1] = Len(t)]
    IN  [listed EXCEPT ![0] = @ + 1]

Inserted(pg, t) ==
    LET start  == free_space_end(pg) - Len(t)
        copied == Copied(pg, start, t)
        slot   == free_space_start(copied)
        moved  == [copied EXCEPT ![1] = @ + SlotSize]
        listed == [[moved EXCEPT ![slot] = start] EXCEPT ![slot + 1] = Len(t)]
    IN  [[listed EXCEPT ![0] = @ + 1] EXCEPT ![2] = start]

\* Mutant: a deleted slot is marked with the length -1.
MutantApplyDelete(pg, i) == [pg EXCEPT ![SlotAt(i) + 1] = -1]

applyDelete(pg, i) == [pg EXCEPT ![SlotAt(i) + 1] = 0]

\* changeTuple: how many more words the new tuple needs, and the check.
SizeDiff(pg, i, t) == Len(t) - length(pg, i)
Changeable(pg, i, t) ==
    i < num_slots(pg) /\ SizeDiff(pg, i, t) <= Unsigned16(FreeWords(pg))

\* Mutant: the length of the slot is not updated.
MutantRewritten(pg, i, t) == Copied(pg, offset(pg, i), t)

\* The same size or a smaller one: in place, the slot keeps its offset.
Rewritten(pg, i, t) ==
    Copied([pg EXCEPT ![SlotAt(i) + 1] = Len(t)], offset(pg, i), t)

\* Mutant: the words are moved, the slot keeps its offset.
MutantMovedDown(pg, i, d) ==
    LET at == offset(pg, i) IN
      Copied(pg, at - d, WordsAt(pg, at, length(pg, i)))

\* One turn of the loop of changeTuple: the tuple of slot i moves d words down.
\* The offset is read again after the copy, which may have changed it.
MovedDown(pg, i, d) ==
    LET at == offset(pg, i) IN
      [Copied(pg, at - d, WordsAt(pg, at, length(pg, i))) EXCEPT ![SlotAt(i)] = @ - d]

\* A larger size: the tuple is written d words lower,
Enlarged(pg, i, t) ==
    LET d == SizeDiff(pg, i, t) IN
      [Copied(pg, offset(pg, i) - d, t) EXCEPT ![SlotAt(i) + 1] = Len(t),
                                               ![SlotAt(i)] = @ - d,
                                               ![1] = Unsigned32(@ - d)]

\* then the tuples of the later slots, up to the last one, follow one after the
\* other: the page after each turn of the loop.
Turns(pg, i, last, d) ==
    LET turn[j \in i..last] ==
          IF j = i THEN pg ELSE MovedDown(turn[j - 1], j, d)
    IN  turn

Grown(pg, i, t) ==
    LET last == num_slots(pg) - 1
    IN  Turns(Enlarged(pg, i, t), i, last, SizeDiff(pg, i, t))[last]

changeTuple(pg, i, t) ==
    IF SizeDiff(pg, i, t) > 0 THEN Grown(pg, i, t) ELSE Rewritten(pg, i, t)

=============================================================================
