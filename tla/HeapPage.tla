------------------------------ MODULE HeapPage ------------------------------
(***************************************************************************)
(* One slotted page in use: TableHeap puts a HeapPage over the bytes of a  *)
(* page for every call, so each step opens the page first.  rows is what   *)
(* the calls have promised to keep in each slot; no action reads it except *)
(* to know the slots that exist.                                           *)
(***************************************************************************)
EXTENDS HeapPageOps, SequencesExt

CONSTANTS Tuples,   \* the tuples that are stored: sequences of words
          MaxSlots, \* bound on the number of slots
          MaxGrows  \* bound on the changes to a larger tuple

ASSUME PageAssumption ==
    /\ Tuples \subseteq Seq(Nat)
    /\ MaxSlots \in Nat /\ MaxGrows \in Nat

VARIABLES page,  \* the words of the page
          rows,  \* rows[i + 1]: the tuple promised in slot i, <<>> if deleted
          grows  \* how many tuples have been replaced by a larger one

vars == <<page, rows, grows>>

Slots == 0..(Len(rows) - 1)
Row(i) == rows[i + 1]

\* newPage hands out a page of zeros.
Init == page = ZeroPage /\ rows = <<>> /\ grows = 0

\* Past this the code reads or writes outside the page, which is undefined: the
\* slot that insertTuple appends, and the slots that exist, lie in the page.
InsidePage(pg) ==
    /\ free_space_start(pg) + SlotSize <= PageSize
    /\ \A i \in Slots : /\ SlotAt(i) + SlotSize <= PageSize
                        /\ offset(pg, i) + length(pg, i) <= PageSize

InsertTuple(t) ==
    LET pg == Opened(page) IN
      /\ InsidePage(pg)
      /\ Len(rows) < MaxSlots
      /\ Fits(pg, t)
      /\ page' = Inserted(pg, t)
      /\ rows' = Append(rows, t)
      /\ UNCHANGED grows

\* nullopt: the page was opened and that is all.
InsertRefused(t) ==
    LET pg == Opened(page) IN
      /\ ~Fits(pg, t)
      /\ page' = pg
      /\ UNCHANGED <<rows, grows>>

ChangeTuple(i, t) ==
    LET pg == Opened(page) IN
      /\ InsidePage(pg)
      /\ Changeable(pg, i, t)
      /\ page' = changeTuple(pg, i, t)
      /\ rows' = [rows EXCEPT ![i + 1] = t]

ChangeInPlace(i, t) ==
    /\ Len(t) <= length(Opened(page), i)
    /\ ChangeTuple(i, t)
    /\ UNCHANGED grows

ChangeToLarger(i, t) ==
    /\ grows < MaxGrows
    /\ Len(t) > length(Opened(page), i)
    /\ ChangeTuple(i, t)
    /\ grows' = grows + 1

ApplyDelete(i) ==
    /\ InsidePage(Opened(page))
    /\ page' = applyDelete(Opened(page), i)
    /\ rows' = [rows EXCEPT ![i + 1] = <<>>]
    /\ UNCHANGED grows

Next ==
    \/ \E t \in Tuples : \/ InsertTuple(t)
                         \/ InsertRefused(t)
                         \/ \E i \in Slots : \/ ChangeInPlace(i, t)
                                             \/ ChangeToLarger(i, t)
    \/ \E i \in Slots : ApplyDelete(i)

Spec == Init /\ [][Next]_vars

-----------------------------------------------------------------------------
(***************************************************************************)
(* Properties.                                                             *)
(***************************************************************************)

TypeOK ==
    /\ page \in [Words -> Nat]
    /\ rows \in Seq(Tuples \cup {<<>>})
    /\ grows \in 0..MaxGrows

\* The words the tuple of slot i occupies.
Extent(i) == offset(page, i)..(offset(page, i) + length(page, i) - 1)

\* README: the slot directory grows from the front, the tuples from the back,
\* and "Free space is the gap between those two regions".
FreeSpaceIsTheGap ==
    page # ZeroPage =>
      /\ num_slots(page) = Len(rows)
      /\ free_space_start(page) = SlotAt(Len(rows))
      /\ free_space_start(page) <= free_space_end(page)
      /\ \A i \in Slots : Extent(i) \subseteq free_space_end(page)..(PageSize - 1)

\* No two tuples share a word of the page.
TuplesAreDisjoint ==
    \A i, j \in Slots : i # j => Extent(i) \cap Extent(j) = {}

\* Every slot reads back what was last stored in it, however the inserts,
\* replacements and deletes of the other slots were interleaved.
ReadsBack == \A i \in Slots : getTuple(page, i) = Row(i)

\* As long as no tuple has been replaced by a larger one.
BeforeGrowth == grows = 0
GapBeforeGrowth == BeforeGrowth => FreeSpaceIsTheGap
DisjointBeforeGrowth == BeforeGrowth => TuplesAreDisjoint
ReadsBackBeforeGrowth == BeforeGrowth => ReadsBack

\* Replacing a tuple of an intact page by one that is d words longer stores the
\* new one whole and keeps the tuples that were inserted before it.  Of each tuple
\* inserted after it, moved onto the one next to it before that one was moved, the
\* length is kept and every word but the last d.
GrowthDamagesTailsOnly ==
    [][\A i \in Slots, t \in Tuples :
         ChangeToLarger(i, t) /\ BeforeGrowth
         => /\ \A j \in 0..i : getTuple(page', j) = rows'[j + 1]
            /\ \A j \in Slots \ 0..i :
                 /\ length(page', j) = Len(Row(j))
                 /\ \A k \in 1..(Len(Row(j)) - (Len(t) - Len(Row(i)))) :
                      getTuple(page', j)[k] = Row(j)[k]]_vars

=============================================================================
