-------------------------- MODULE TableHeapProofs --------------------------
(***************************************************************************)
(* Proofs about TableHeap, for every number of frames, pages, tables and   *)
(* rows, every set of tuples and every page size; the process may end at any *)
(* point.  No caller edits a tuple into a larger one in its place (~Grows): *)
(* the run heap_page_growth shows what that does to a page.                *)
(*                                                                         *)
(*   1. Pages as the calls leave them, and their rows.                     *)
(*   2. The inductive invariant.                                           *)
(*   3. The calls of the pool, of one client that fetches page 65535       *)
(*      before it exists (BufferPoolProofs has many clients, and no such   *)
(*      fetch).                                                            *)
(*   4. Every step keeps the invariant.                                    *)
(*   5. TypeCorrect, RowsAreOnDisk, FirstPagesCorrect, ReadsCorrect,       *)
(*      PoolIsClean, FrameIsFound: what the callers may rely on.           *)
(*   6. TableImplemented: TableHeap implements HeapTable.                  *)
(***************************************************************************)
EXTENDS TableHeap, HeapPageOpsProofs, RecencyListProofs, FiniteSetTheorems,
        WellFoundedInduction

Frames == 0..(Capacity - 1)
PageIds == 0..(MaxPages - 1)

\* What a slot may hold.
Row == Tuples \cup {<<>>}

\* A page that has been through nothing but the calls of this module.
Sound(pg) == RowsOn(pg) \in Seq(Row) /\ Intact(pg, RowsOn(pg))

-----------------------------------------------------------------------------
(***************************************************************************)
(* 1. Pages and their rows.                                                *)
(***************************************************************************)

LEMMA RowsAreWords == Tuples \subseteq Seq(Nat) /\ Row \subseteq Seq(Nat) /\ Seq(Row) \subseteq Seq(Seq(Nat))
<1>1. <<>> \in Seq(Nat)
  OBVIOUS
<1>2. Tuples \subseteq Seq(Nat) /\ Row \subseteq Seq(Nat)
  BY <1>1, TableAssumption DEF Row
<1> QED BY <1>2

\* The rows of an intact page are the ones it keeps.
LEMMA RowsOfIntact ==
    ASSUME NEW pg \in Pages, NEW rs \in Seq(Seq(Nat)), Intact(pg, rs)
    PROVE  RowsOn(pg) = rs /\ num_slots(pg) = Len(rs)
<1>1. CASE WellFormed(pg, rs)
  <2>1. num_slots(pg) = Len(rs)
    BY <1>1 DEF WellFormed
  <2>2. ASSUME NEW i \in 1..Len(rs) PROVE getTuple(pg, i - 1) = rs[i]
    <3>1. i - 1 \in SlotsOf(rs) /\ (i - 1) + 1 = i
      BY DEF SlotsOf
    <3>2. \A k \in SlotsOf(rs) : Placed(pg, k, rs[k + 1])
      BY <1>1 DEF WellFormed
    <3>3. Placed(pg, i - 1, rs[(i - 1) + 1])
      BY <3>1, <3>2
    <3>4. Placed(pg, i - 1, rs[i]) /\ rs[i] \in Seq(Nat)
      BY <3>1, <3>3
    <3> QED BY <3>4, PlacedReadsBack
  <2>3. RowsOn(pg) = [i \in 1..Len(rs) |-> getTuple(pg, i - 1)]
    BY <2>1 DEF RowsOn
  <2>4. rs = [i \in 1..Len(rs) |-> rs[i]]
    OBVIOUS
  <2> QED BY <2>1, <2>2, <2>3, <2>4
<1>2. CASE pg = ZeroPage /\ rs = <<>>
  <2>1. num_slots(pg) = 0
    BY <1>2, Sizes DEF num_slots, ZeroPage
  <2>2. RowsOn(pg) = <<>>
    <3>1. RowsOn(pg) = [i \in 1..0 |-> getTuple(pg, i - 1)]
      BY <2>1 DEF RowsOn
    <3> QED BY <3>1
  <2> QED BY <1>2, <2>1, <2>2
<1> QED BY <1>1, <1>2 DEF Intact

LEMMA SoundPage ==
    ASSUME NEW pg, Sound(pg)
    PROVE  /\ pg \in Pages /\ RowsOn(pg) \in Seq(Row) /\ RowsOn(pg) \in Seq(Seq(Nat))
           /\ num_slots(pg) = Len(RowsOn(pg)) /\ Len(RowsOn(pg)) \in Nat
           /\ DOMAIN RowsOn(pg) = 1..num_slots(pg)
           /\ \A i \in 0..(num_slots(pg) - 1) : getTuple(pg, i) = RowsOn(pg)[i + 1]
<1>1. pg \in Pages /\ RowsOn(pg) \in Seq(Row) /\ RowsOn(pg) \in Seq(Seq(Nat))
  BY RowsAreWords DEF Sound, Intact
<1>2. num_slots(pg) = Len(RowsOn(pg)) /\ Len(RowsOn(pg)) \in Nat
  BY <1>1, RowsOfIntact DEF Sound
<1>3. ASSUME NEW i \in 0..(num_slots(pg) - 1) PROVE getTuple(pg, i) = RowsOn(pg)[i + 1]
  <2>1. i + 1 \in 1..num_slots(pg) /\ (i + 1) - 1 = i
    BY <1>2
  <2> QED BY <2>1 DEF RowsOn
<1>4. DOMAIN RowsOn(pg) = 1..num_slots(pg)
  BY DEF RowsOn
<1> QED BY <1>1, <1>2, <1>3, <1>4

\* A well-formed page is sound, and opening it changes nothing.
LEMMA WellFormedIsSound ==
    ASSUME NEW pg \in Pages, NEW rs \in Seq(Row), WellFormed(pg, rs)
    PROVE  Sound(pg) /\ RowsOn(pg) = rs /\ Opened(pg) = pg
<1>1. rs \in Seq(Seq(Nat)) /\ Intact(pg, rs)
  BY RowsAreWords DEF Intact
<1>2. RowsOn(pg) = rs
  BY <1>1, RowsOfIntact
<1>3. Opened(pg) = pg
  <2>1. Len(rs) \in Nat
    OBVIOUS
  <2>2. free_space_start(pg) # 0
    BY <2>1, Sizes DEF WellFormed
  <2> QED BY <2>2 DEF Opened
<1> QED BY <1>1, <1>2, <1>3 DEF Sound

LEMMA ZeroIsSound == ZeroPage \in Pages /\ Sound(ZeroPage) /\ RowsOn(ZeroPage) = <<>>
<1>1. ZeroPage \in Pages /\ <<>> \in Seq(Seq(Nat)) /\ <<>> \in Seq(Row)
  BY DEF ZeroPage, Pages
<1>2. Intact(ZeroPage, <<>>)
  BY <1>1 DEF Intact
<1>3. RowsOn(ZeroPage) = <<>>
  BY <1>1, <1>2, RowsOfIntact
<1> QED BY <1>1, <1>2, <1>3 DEF Sound

\* The constructor of HeapPage on a sound page.
LEMMA OpenedIsSound ==
    ASSUME NEW pg, Sound(pg)
    PROVE  /\ Opened(pg) \in Pages /\ WellFormed(Opened(pg), RowsOn(pg))
           /\ Sound(Opened(pg)) /\ RowsOn(Opened(pg)) = RowsOn(pg)
           /\ Opened(Opened(pg)) = Opened(pg)
<1>1. Opened(pg) \in Pages /\ WellFormed(Opened(pg), RowsOn(pg))
  BY SoundPage, OpenedIsWellFormed DEF Sound, Intact
<1> QED BY <1>1, SoundPage, WellFormedIsSound

\* Two pages that open to the same words have the same rows.
LEMMA OpenedAlike ==
    ASSUME NEW pg, Sound(pg), NEW pg2, Sound(pg2), Opened(pg) = Opened(pg2)
    PROVE  RowsOn(pg) = RowsOn(pg2)
BY OpenedIsSound

LEMMA InsertedIsSound ==
    ASSUME NEW pg, Sound(pg), NEW t \in Tuples, Fits(Opened(pg), t)
    PROVE  /\ Sound(Inserted(Opened(pg), t))
           /\ RowsOn(Inserted(Opened(pg), t)) = Append(RowsOn(pg), t)
           /\ num_slots(Opened(pg)) = Len(RowsOn(pg))
<1> DEFINE op == Opened(pg)
           rs == RowsOn(pg)
<1>1. op \in Pages /\ WellFormed(op, rs) /\ rs \in Seq(Row) /\ rs \in Seq(Seq(Nat))
  BY OpenedIsSound, SoundPage
<1> HIDE DEF op, rs
<1>2. t \in Seq(Nat) /\ t \in Row
  BY RowsAreWords DEF Row
<1>3. Inserted(op, t) \in Pages /\ WellFormed(Inserted(op, t), Append(rs, t))
  BY <1>1, <1>2, InsertedIsWellFormed DEF op
<1>4. Append(rs, t) \in Seq(Row)
  BY <1>1, <1>2
<1> QED BY <1>1, <1>3, <1>4, WellFormedIsSound DEF op, rs, WellFormed

LEMMA DeletedIsSound ==
    ASSUME NEW pg, Sound(pg), NEW i \in 0..(num_slots(pg) - 1)
    PROVE  /\ Sound(applyDelete(Opened(pg), i))
           /\ RowsOn(applyDelete(Opened(pg), i)) = [RowsOn(pg) EXCEPT ![i + 1] = <<>>]
<1> DEFINE op == Opened(pg)
           rs == RowsOn(pg)
<1>1. /\ op \in Pages /\ WellFormed(op, rs) /\ rs \in Seq(Row) /\ rs \in Seq(Seq(Nat))
      /\ i \in SlotsOf(rs) /\ i + 1 \in 1..Len(rs)
  BY OpenedIsSound, SoundPage DEF SlotsOf
<1> HIDE DEF op, rs
<1>2. applyDelete(op, i) \in Pages
      /\ WellFormed(applyDelete(op, i), [rs EXCEPT ![i + 1] = <<>>])
  BY <1>1, DeletedIsWellFormed
<1>3. [rs EXCEPT ![i + 1] = <<>>] \in Seq(Row)
  BY <1>1 DEF Row
<1> QED BY <1>2, <1>3, WellFormedIsSound DEF op, rs

LEMMA RewrittenIsSound ==
    ASSUME NEW pg, Sound(pg), NEW i \in 0..(num_slots(pg) - 1), NEW t \in Tuples,
           ~(SizeDiff(Opened(pg), i, t) > 0)
    PROVE  /\ Sound(changeTuple(Opened(pg), i, t))
           /\ RowsOn(changeTuple(Opened(pg), i, t)) = [RowsOn(pg) EXCEPT ![i + 1] = t]
<1> DEFINE op == Opened(pg)
           rs == RowsOn(pg)
<1>1. /\ op \in Pages /\ WellFormed(op, rs) /\ rs \in Seq(Row) /\ rs \in Seq(Seq(Nat))
      /\ i \in SlotsOf(rs) /\ i + 1 \in 1..Len(rs)
  BY OpenedIsSound, SoundPage DEF SlotsOf
<1>2. ~(SizeDiff(op, i, t) > 0)
  OBVIOUS
<1> HIDE DEF op, rs
<1>3. t \in Seq(Nat) /\ t \in Row /\ Len(t) \in Nat
  BY RowsAreWords DEF Row
<1>4. Len(t) <= length(op, i)
  <2>1. length(op, i) \in Nat
    BY <1>1, PlaceOfSlot
  <2> QED BY <1>2, <1>3, <2>1 DEF SizeDiff
<1>5. changeTuple(op, i, t) = Rewritten(op, i, t)
  BY <1>2 DEF changeTuple
<1>6. Rewritten(op, i, t) \in Pages
      /\ WellFormed(Rewritten(op, i, t), [rs EXCEPT ![i + 1] = t])
  BY <1>1, <1>3, <1>4, RewrittenIsWellFormed
<1>7. [rs EXCEPT ![i + 1] = t] \in Seq(Row)
  BY <1>1, <1>3
<1> QED BY <1>5, <1>6, <1>7, WellFormedIsSound DEF op, rs

-----------------------------------------------------------------------------
(***************************************************************************)
(* 2. The inductive invariant.                                             *)
(***************************************************************************)

\* The call holds the page it is at.
Busy == call.at \in {"use", "unpin"}

Resident(p) == frameTable[p] # -1
InFrame(p) == frames[frameTable[p]].data

PageObject ==
    [page_id : PageIds \cup {-1}, data : Pages, is_dirty : BOOLEAN, pins : Nat]

PoolTypes ==
    /\ frames \in [Frames -> PageObject]
    /\ frameTable \in [PageIds -> Frames \cup {-1}]
    /\ unused \in Seq(Frames) /\ NoRepetition(unused)
    /\ lru \in Seq(Frames) /\ NoRepetition(lru)
    /\ file \in [PageIds -> Pages]
    /\ fileLen \in 0..MaxPages /\ nextPageId \in 0..MaxPages

\* Every frame is unused, evictable or that of the page the call holds, and only
\* a page the call has changed is dirty.
PoolShape ==
    /\ \A p \in PageIds : Resident(p) => frames[frameTable[p]].page_id = p
    /\ \A f \in ToSet(unused) : /\ f \notin ToSet(lru) /\ frames[f].data = ZeroPage
                                /\ \A p \in PageIds : frameTable[p] # f
    /\ \A f \in ToSet(lru) : /\ frames[f].page_id \in PageIds
                             /\ frameTable[frames[f].page_id] = f
    /\ \A f \in Frames : \/ f \in ToSet(unused) \cup ToSet(lru)
                         \/ Busy /\ f = frameTable[call.page]
    /\ Busy => frameTable[call.page] \notin ToSet(lru)
    /\ Busy \/ call.at = "flush" => Resident(call.page)
    /\ \A f \in Frames :
         frames[f].pins = IF Busy /\ f = frameTable[call.page] THEN 1 ELSE 0
    /\ \A f \in Frames :
         frames[f].is_dirty => call.dirty /\ f = frameTable[call.page]
    /\ held = [c \in {Main} |-> IF Busy THEN Pool!Hold(call.page, frameTable[call.page])
                                ELSE Pool!NoHold]

\* The rows of some page of the file, or none: what a page past its end shows.
Stale(rs) == rs = <<>> \/ \E q \in 0..(fileLen - 1) : rs = RowsOn(file[q])

\* The file is sound; in the pool are its pages, opened or not, but for the one
\* the call has changed and for page 65535 before it is in the file.
FilePages ==
    \A p \in PageIds : Sound(file[p]) /\ (p >= fileLen => file[p] = ZeroPage)
FramePages ==
    /\ \A f \in Frames : Sound(frames[f].data)
    /\ \A p \in PageIds : Resident(p) /\ ~(call.dirty /\ p = call.page) =>
         IF p < fileLen THEN Opened(InFrame(p)) = Opened(file[p])
         ELSE /\ p = call.page /\ p = Overflow /\ call.op = "insert"
              /\ Stale(RowsOn(InFrame(p)))

\* Page p is in no table and has no rows.
Unheard(p) ==
    file[p] = ZeroPage /\ p \notin tables /\ \A rid \in DOMAIN stored : rid.page_id # p

\* An identifier that allocatePage has yet to return, page 65535 apart.
FreshIdsAreUnheard ==
    \A p \in PageIds : p >= nextPageId /\ p # Overflow => ~Resident(p) /\ Unheard(p)

\* What the callers know of is in the file.
KnownRows ==
    /\ stored = [rid \in DOMAIN stored |-> stored[rid]]
    /\ \A rid \in DOMAIN stored :
         /\ rid = RID(rid.page_id, rid.slot_id)
         /\ rid.page_id \in 0..(fileLen - 1)
         /\ rid.slot_id \in 0..(num_slots(file[rid.page_id]) - 1)
         /\ RowsOn(file[rid.page_id])[rid.slot_id + 1] = stored[rid]
KnownTables ==
    \A p \in tables :
      /\ p \in 0..(fileLen - 1) /\ p # Overflow
      /\ \A i \in 0..(num_slots(file[p]) - 1) : RID(p, i) \in DOMAIN stored

OnRow == {"get", "delete", "edit"}
CallFields == {"op", "at", "page", "table", "rid", "tuple", "dirty", "then"}

\* How far a call has come, and what it is about.
CallShape ==
    /\ DOMAIN call = CallFields
    /\ call.op \in Operations
    /\ call.at \in {"none", "fetch", "use", "unpin", "flush"}
    /\ call.op = "none" <=> call = Idle
    /\ call.at = "none" <=> call = Idle
    /\ call # Idle => call.page \in PageIds
    /\ call.then \in {"return", "next", "reinsert"} /\ call.dirty \in BOOLEAN
    /\ call.at \in {"none", "fetch", "use"} => ~call.dirty /\ call.then = "return"
    /\ call.at = "flush" => call.dirty
    /\ call.op = "create" => call.dirty /\ call.then = "return"
    /\ call.dirty => call.op \in {"create", "insert", "delete", "edit"}
                     /\ call.then # "next"
    /\ call.then = "reinsert" => call.op = "edit" /\ call.dirty
    /\ call.at = "unpin" /\ ~call.dirty /\ call.op \in {"insert", "delete", "edit"}
         => call.then = "next"
    /\ call.then = "next" => call.op \in OnRow \cup {"insert"}
CallSubject ==
    /\ call.op \in OnRow \cup {"insert", "scan"} =>
         call.table \in tables /\ call.page \in {call.table, Overflow}
    /\ call.op = "scan" => call.page = call.table
    /\ call.op \in OnRow =>
         /\ call.rid \in DOMAIN stored /\ call.rid.page_id \in {call.table, Overflow}
         /\ call.page \in {call.table, call.rid.page_id}
         /\ call.then = "next" => call.page # call.rid.page_id
         /\ call.dirty => call.page = call.rid.page_id
    /\ call.op \in {"insert", "edit"} => call.tuple \in Tuples
    /\ call.op = "edit" /\ ~call.dirty => ~GrowsInPlace(call.rid, call.tuple)

\* The changed page that is not in the file yet, and what will be there instead.
ChangeIsOne ==
    call.dirty =>
      LET p  == call.page
          rs == RowsOn(InFrame(p))
      IN  /\ call.op = "create" => InFrame(p) = ZeroPage /\ p # Overflow /\ Unheard(p)
          /\ call.op = "insert" =>
               \E old \in Seq(Row) :
                 /\ IF p < fileLen THEN old = RowsOn(file[p])
                    ELSE p = Overflow /\ Stale(old)
                 /\ rs = Append(old, call.tuple)
                 /\ call.rid = RID(p, Len(old))
          /\ call.op \in {"delete", "edit"} =>
               rs = [RowsOn(file[p]) EXCEPT ![call.rid.slot_id + 1] = StoredBy(call)]

Inv ==
    /\ PoolTypes /\ PoolShape
    /\ FilePages /\ FramePages /\ FreshIdsAreUnheard
    /\ KnownRows /\ KnownTables
    /\ CallShape /\ CallSubject /\ ChangeIsOne
    /\ ReadsReturnStored

-----------------------------------------------------------------------------
(***************************************************************************)
(* 3. The pool under one client.                                           *)
(***************************************************************************)

LEMMA Numbers ==
    /\ Capacity \in Nat /\ Capacity > 0 /\ MaxPages \in Nat
    /\ Overflow \in PageIds
    /\ Frames = 0..(Capacity - 1) /\ PageIds = 0..(MaxPages - 1)
    /\ \A f \in Frames : f \in Nat /\ f # -1
    /\ \A p \in PageIds : p \in Nat
    /\ Pool!Frames = Frames /\ Pool!PageIds = PageIds
BY TableAssumption DEF Frames, PageIds, Pool!Frames, Pool!PageIds

\* The replacer of the pool is that of module RecencyList.
LEMMA SameList ==
    /\ \A q, f : Pool!Without(q, f) = Without(q, f)
    /\ \A q, f : Pool!Touched(q, f) = Touched(q, f)
<1>1. ASSUME NEW q, NEW f PROVE Pool!Without(q, f) = Without(q, f)
  BY DEF Without, Pool!Without, Position, Pool!Position, RemoveAt, Pool!RemoveAt,
         ToSet, Pool!ToSet
<1> QED BY <1>1 DEF Touched, Pool!Touched

\* The methods of Page, on the objects of the frames.
LEMMA NewObjects ==
    /\ Pool!EmptyPage = [page_id |-> -1, data |-> ZeroPage, is_dirty |-> FALSE, pins |-> 0]
    /\ Pool!EmptyPage \in PageObject
    /\ \A p \in PageIds, d \in Pages, b \in BOOLEAN :
         [page_id |-> p, data |-> d, is_dirty |-> b, pins |-> 1] \in PageObject
BY ZeroIsSound DEF PageObject, Pool!EmptyPage, Pool!INVALID_PAGE_ID

LEMMA PageMethods ==
    ASSUME NEW pg \in PageObject
    PROVE  /\ pg.page_id \in PageIds \cup {-1} /\ pg.data \in Pages
           /\ pg.is_dirty \in BOOLEAN /\ pg.pins \in Nat
           /\ \A d \in Pages :
                /\ Pool!Filled(pg, d) \in PageObject
                /\ Pool!Filled(pg, d).page_id = pg.page_id /\ Pool!Filled(pg, d).data = d
                /\ Pool!Filled(pg, d).is_dirty = pg.is_dirty
                /\ Pool!Filled(pg, d).pins = pg.pins
           /\ Pool!Pinned(pg) \in PageObject
           /\ Pool!Pinned(pg).page_id = pg.page_id /\ Pool!Pinned(pg).data = pg.data
           /\ Pool!Pinned(pg).is_dirty = pg.is_dirty /\ Pool!Pinned(pg).pins = pg.pins + 1
           /\ Pool!Cleaned(pg) \in PageObject
           /\ Pool!Cleaned(pg).page_id = pg.page_id /\ Pool!Cleaned(pg).data = pg.data
           /\ Pool!Cleaned(pg).is_dirty = FALSE /\ Pool!Cleaned(pg).pins = pg.pins
<1>1. /\ pg.page_id \in PageIds \cup {-1} /\ pg.data \in Pages
      /\ pg.is_dirty \in BOOLEAN /\ pg.pins \in Nat
  BY DEF PageObject
<1>2. ASSUME NEW d \in Pages
      PROVE  /\ Pool!Filled(pg, d) \in PageObject
             /\ Pool!Filled(pg, d).page_id = pg.page_id /\ Pool!Filled(pg, d).data = d
             /\ Pool!Filled(pg, d).is_dirty = pg.is_dirty
             /\ Pool!Filled(pg, d).pins = pg.pins
  BY DEF PageObject, Pool!Filled
<1>3. /\ Pool!Pinned(pg) \in PageObject
      /\ Pool!Pinned(pg).page_id = pg.page_id /\ Pool!Pinned(pg).data = pg.data
      /\ Pool!Pinned(pg).is_dirty = pg.is_dirty /\ Pool!Pinned(pg).pins = pg.pins + 1
  BY DEF PageObject, Pool!Pinned
<1>4. /\ Pool!Cleaned(pg) \in PageObject
      /\ Pool!Cleaned(pg).page_id = pg.page_id /\ Pool!Cleaned(pg).data = pg.data
      /\ Pool!Cleaned(pg).is_dirty = FALSE /\ Pool!Cleaned(pg).pins = pg.pins
  BY DEF PageObject, Pool!Cleaned
<1> QED BY <1>1, <1>2, <1>3, <1>4

LEMMA UnpinnedObject ==
    ASSUME NEW pg \in PageObject, pg.pins = 1, NEW b \in BOOLEAN
    PROVE  /\ Pool!Unpinned(pg, b) \in PageObject
           /\ Pool!Unpinned(pg, b).page_id = pg.page_id
           /\ Pool!Unpinned(pg, b).data = pg.data
           /\ Pool!Unpinned(pg, b).is_dirty = (pg.is_dirty \/ b)
           /\ Pool!Unpinned(pg, b).pins = 0
<1>1. pg.pins - 1 = 0 /\ 0 \in Nat
  BY DEF PageObject
<1>2. (pg.is_dirty \/ b) \in BOOLEAN
  OBVIOUS
<1> QED BY <1>1, <1>2, Zenon DEF PageObject, Pool!Unpinned

\* A page p comes into frame f with the words d, by any of the calls that do so.
Loads(f, p, d, b) ==
    /\ f \in ToSet(unused) \cup ToSet(lru)
    /\ frames' = [frames EXCEPT ![f] =
                    [page_id |-> p, data |-> d, is_dirty |-> b, pins |-> 1]]
    /\ frameTable' \in [PageIds -> Frames \cup {-1}]
    /\ \A q \in PageIds :
         frameTable'[q] = IF q = p THEN f ELSE IF frameTable[q] = f THEN -1 ELSE frameTable[q]
    /\ unused' \in Seq(Frames) /\ NoRepetition(unused') /\ ToSet(unused') = ToSet(unused) \ {f}
    /\ lru' \in Seq(Frames) /\ NoRepetition(lru') /\ ToSet(lru') = ToSet(lru) \ {f}
    /\ held' = [c \in {Main} |-> Pool!Hold(p, f)]
    /\ UNCHANGED <<file, fileLen>>

\* A frame that is unused or evictable is one no call holds.
LEMMA FreeFrames ==
    ASSUME PoolTypes, PoolShape
    PROVE  /\ ToSet(unused) \subseteq Frames /\ ToSet(lru) \subseteq Frames
           /\ \A f \in Frames : frames[f] \in PageObject
<1> QED BY DEF PoolTypes, ToSet

\* fetchPage of a page that is not in the pool.
LEMMA FetchLoads ==
    ASSUME PoolTypes, PoolShape, ~Busy, ~call.dirty, NEW p \in PageIds,
           Pool!FetchIntoUnused(Main, p) \/ Pool!FetchEvicting(Main, p)
    PROVE  /\ ~Resident(p) /\ nextPageId' = nextPageId
           /\ \E f \in Frames :
                Loads(f, p, IF p < fileLen THEN file[p] ELSE frames[f].data, FALSE)
<1>1. CASE Pool!FetchIntoUnused(Main, p)
  <2> DEFINE f == Head(unused)
             d == IF p < fileLen THEN file[p] ELSE frames[f].data
  <2>1. /\ frameTable[p] = -1 /\ unused # <<>>
        /\ frames' = [frames EXCEPT ![f] =
                        [page_id |-> p, data |-> d, is_dirty |-> FALSE, pins |-> 1]]
        /\ frameTable' = [frameTable EXCEPT ![p] = f]
        /\ lru' = Pool!Without(lru, f)
        /\ held' = [held EXCEPT ![Main] = Pool!Hold(p, f)]
        /\ unused' = Tail(unused)
        /\ UNCHANGED <<file, fileLen, nextPageId>>
    BY <1>1 DEF Pool!FetchIntoUnused, Pool!Resident, Pool!NoFrame, Pool!LoadedPage,
                Pool!ReadPage, Pool!diskVars
  <2>2. /\ f \in Frames /\ f \in ToSet(unused)
        /\ unused' \in Seq(Frames) /\ NoRepetition(unused')
        /\ ToSet(unused') = ToSet(unused) \ {f}
    BY <2>1, TailProperties DEF PoolTypes
  <2> HIDE DEF f, d
  <2>3. lru' \in Seq(Frames) /\ NoRepetition(lru') /\ ToSet(lru') = ToSet(lru) \ {f}
    BY <2>1, SameList, WithoutProperties DEF PoolTypes
  <2>4. /\ frameTable' \in [PageIds -> Frames \cup {-1}]
        /\ \A q \in PageIds : frameTable[q] # f
        /\ \A q \in PageIds : frameTable'[q] = IF q = p THEN f ELSE frameTable[q]
    BY <2>1, <2>2 DEF PoolTypes, PoolShape
  <2>5. held' = [c \in {Main} |-> Pool!Hold(p, f)]
    BY <2>1 DEF PoolShape
  <2>6. Loads(f, p, d, FALSE)
    BY <2>1, <2>2, <2>3, <2>4, <2>5 DEF Loads
  <2> QED BY <2>1, <2>2, <2>6 DEF Resident, d
<1>2. CASE Pool!FetchEvicting(Main, p)
  <2> DEFINE f == Head(lru)
             d == IF p < fileLen THEN file[p] ELSE frames[f].data
             v == frames[f].page_id
  <2>1. /\ frameTable[p] = -1 /\ lru # <<>> /\ unused = <<>>
        /\ Pool!SaveVictim(f)
        /\ frames' = [frames EXCEPT ![f] =
                        [page_id |-> p, data |-> IF p < fileLen' THEN file'[p] ELSE frames[f].data,
                         is_dirty |-> FALSE, pins |-> 1]]
        /\ frameTable' = [[frameTable EXCEPT ![v] = -1] EXCEPT ![p] = f]
        /\ held' = [held EXCEPT ![Main] = Pool!Hold(p, f)]
        /\ lru' = Tail(lru)
        /\ UNCHANGED <<unused, nextPageId>>
    BY <1>2 DEF Pool!FetchEvicting, Pool!MayEvict, Pool!Resident, Pool!NoFrame,
                Pool!LoadedPage, Pool!ReadPage, Pool!WithoutVictim
  <2>2. /\ f \in Frames /\ f \in ToSet(lru)
        /\ lru' \in Seq(Frames) /\ NoRepetition(lru')
        /\ ToSet(lru') = ToSet(lru) \ {f}
    BY <2>1, TailProperties DEF PoolTypes
  <2> HIDE DEF f
  <2>3. ~frames[f].is_dirty
    BY <2>2 DEF PoolShape
  <2>4. UNCHANGED <<file, fileLen>>
    BY <2>1, <2>3 DEF Pool!SaveVictim, Pool!diskVars
  <2>5. /\ v \in PageIds /\ frameTable[v] = f
        /\ \A q \in PageIds : frameTable[q] = f => q = v
    BY <2>2, Numbers DEF PoolShape, Resident
  <2> HIDE DEF v, d
  <2>6. /\ frameTable' \in [PageIds -> Frames \cup {-1}]
        /\ \A q \in PageIds :
             frameTable'[q] = IF q = p THEN f ELSE IF frameTable[q] = f THEN -1 ELSE frameTable[q]
    BY <2>1, <2>2, <2>5 DEF PoolTypes
  <2>7. held' = [c \in {Main} |-> Pool!Hold(p, f)]
    BY <2>1 DEF PoolShape
  <2>8. unused' \in Seq(Frames) /\ NoRepetition(unused') /\ ToSet(unused') = ToSet(unused) \ {f}
    <3>1. f \notin ToSet(unused)
      BY <2>2 DEF PoolShape
    <3> QED BY <2>1, <3>1 DEF PoolTypes
  <2>9. frames' = [frames EXCEPT ![f] =
                     [page_id |-> p, data |-> d, is_dirty |-> FALSE, pins |-> 1]]
    BY <2>1, <2>4 DEF d
  <2>10. Loads(f, p, d, FALSE)
    BY <2>2, <2>4, <2>6, <2>7, <2>8, <2>9 DEF Loads
  <2> QED BY <2>1, <2>2, <2>10 DEF Resident, d
<1> QED BY <1>1, <1>2

\* allocatePage and newPage.
LEMMA NewLoads ==
    ASSUME PoolTypes, PoolShape, ~Busy, ~call.dirty,
           Pool!NewPageInUnused(Main) \/ Pool!NewPageEvicting(Main)
    PROVE  /\ nextPageId \in PageIds /\ nextPageId' = nextPageId + 1
           /\ \E f \in Frames : /\ \A p \in PageIds : frameTable[p] = f => frames[f].page_id = p
                                /\ Loads(f, nextPageId, ZeroPage, TRUE)
<1> DEFINE p == nextPageId
<1>1. nextPageId \in PageIds /\ nextPageId' = nextPageId + 1
  BY Numbers DEF PoolTypes, Pool!NewPageInUnused, Pool!NewPageEvicting, Pool!MayAllocate
<1>2. CASE Pool!NewPageInUnused(Main)
  <2> DEFINE f == Head(unused)
  <2>1. /\ unused # <<>>
        /\ frames' = [frames EXCEPT ![f] =
                        [page_id |-> p, data |-> ZeroPage, is_dirty |-> TRUE, pins |-> 1]]
        /\ frameTable' = [frameTable EXCEPT ![p] = f]
        /\ held' = [held EXCEPT ![Main] = Pool!Hold(p, f)]
        /\ unused' = Tail(unused)
        /\ UNCHANGED <<lru, file, fileLen>>
    BY <1>2 DEF Pool!NewPageInUnused, Pool!FreshPage, Pool!diskVars
  <2>2. /\ f \in Frames /\ f \in ToSet(unused)
        /\ unused' \in Seq(Frames) /\ NoRepetition(unused')
        /\ ToSet(unused') = ToSet(unused) \ {f}
    BY <2>1, TailProperties DEF PoolTypes
  <2> HIDE DEF f, p
  <2>3. lru' \in Seq(Frames) /\ NoRepetition(lru') /\ ToSet(lru') = ToSet(lru) \ {f}
    BY <2>1, <2>2 DEF PoolTypes, PoolShape
  <2>4. /\ frameTable' \in [PageIds -> Frames \cup {-1}]
        /\ \A q \in PageIds : frameTable[q] # f
        /\ \A q \in PageIds : frameTable'[q] = IF q = p THEN f ELSE frameTable[q]
    BY <1>1, <2>1, <2>2 DEF PoolTypes, PoolShape, p
  <2>5. held' = [c \in {Main} |-> Pool!Hold(p, f)]
    BY <2>1 DEF PoolShape
  <2>6. Loads(f, p, ZeroPage, TRUE)
    BY <2>1, <2>2, <2>3, <2>4, <2>5 DEF Loads
  <2> QED BY <1>1, <2>2, <2>4, <2>6 DEF p
<1>3. CASE Pool!NewPageEvicting(Main)
  <2> DEFINE f == Head(lru)
             v == frames[f].page_id
  <2>1. /\ lru # <<>> /\ unused = <<>>
        /\ Pool!SaveVictim(f)
        /\ frames' = [frames EXCEPT ![f] =
                        [page_id |-> p, data |-> ZeroPage, is_dirty |-> TRUE, pins |-> 1]]
        /\ frameTable' = [[frameTable EXCEPT ![v] = -1] EXCEPT ![p] = f]
        /\ held' = [held EXCEPT ![Main] = Pool!Hold(p, f)]
        /\ lru' = Tail(lru)
        /\ UNCHANGED unused
    BY <1>3 DEF Pool!NewPageEvicting, Pool!MayEvict, Pool!NoFrame, Pool!FreshPage,
                Pool!WithoutVictim
  <2>2. /\ f \in Frames /\ f \in ToSet(lru)
        /\ lru' \in Seq(Frames) /\ NoRepetition(lru')
        /\ ToSet(lru') = ToSet(lru) \ {f}
    BY <2>1, TailProperties DEF PoolTypes
  <2> HIDE DEF f, p
  <2>3. ~frames[f].is_dirty
    BY <2>2 DEF PoolShape
  <2>4. UNCHANGED <<file, fileLen>>
    BY <2>1, <2>3 DEF Pool!SaveVictim, Pool!diskVars
  <2>5. /\ v \in PageIds /\ frameTable[v] = f
        /\ \A q \in PageIds : frameTable[q] = f => q = v
    BY <2>2, Numbers DEF PoolShape, Resident
  <2> HIDE DEF v
  <2>6. /\ frameTable' \in [PageIds -> Frames \cup {-1}]
        /\ \A q \in PageIds :
             frameTable'[q] = IF q = p THEN f ELSE IF frameTable[q] = f THEN -1 ELSE frameTable[q]
    BY <1>1, <2>1, <2>2, <2>5 DEF PoolTypes, p
  <2>7. held' = [c \in {Main} |-> Pool!Hold(p, f)]
    BY <2>1 DEF PoolShape
  <2>8. unused' \in Seq(Frames) /\ NoRepetition(unused') /\ ToSet(unused') = ToSet(unused) \ {f}
    <3>1. f \notin ToSet(unused)
      BY <2>2 DEF PoolShape
    <3> QED BY <2>1, <3>1 DEF PoolTypes
  <2>9. Loads(f, p, ZeroPage, TRUE)
    BY <2>1, <2>2, <2>4, <2>6, <2>7, <2>8 DEF Loads
  <2> QED BY <1>1, <2>2, <2>5, <2>9 DEF p, v
<1> QED BY <1>2, <1>3

\* What a load leaves, whichever call it was.
LEMMA LoadsKeep ==
    ASSUME PoolTypes, PoolShape, ~Busy, ~call.dirty,
           NEW f \in Frames, NEW p \in PageIds, NEW d \in Pages, NEW b \in BOOLEAN,
           ~Resident(p), Loads(f, p, d, b),
           Busy', call'.page = p, b => call'.dirty, nextPageId' \in 0..MaxPages
    PROVE  /\ PoolTypes' /\ PoolShape'
           /\ frameTable'[p] = f /\ frames'[f].data = d
           /\ \A g \in Frames \ {f} : frames'[g].data = frames[g].data
           /\ \A q \in PageIds \ {p} :
                Resident(q)' => /\ Resident(q) /\ frameTable'[q] = frameTable[q]
                                /\ frameTable[q] \in Frames \ {f}
<1> DEFINE obj == [page_id |-> p, data |-> d, is_dirty |-> b, pins |-> 1]
<1>1. obj \in PageObject /\ obj.page_id = p /\ obj.data = d /\ obj.is_dirty = b /\ obj.pins = 1
  BY NewObjects
<1>2. /\ frames' = [frames EXCEPT ![f] = obj]
      /\ frames \in [Frames -> PageObject]
      /\ frameTable \in [PageIds -> Frames \cup {-1}]
  BY DEF Loads, PoolTypes
<1> HIDE DEF obj
<1>3. /\ frames' \in [Frames -> PageObject] /\ frames'[f] = obj
      /\ \A g \in Frames \ {f} : frames'[g] = frames[g]
  BY <1>1, <1>2
<1>4. PoolTypes'
  BY <1>3 DEF PoolTypes, Loads
<1>5. /\ frameTable'[p] = f /\ f # -1
      /\ \A q \in PageIds \ {p} :
           frameTable'[q] # -1 => /\ frameTable[q] # -1 /\ frameTable'[q] = frameTable[q]
                                  /\ frameTable[q] \in Frames \ {f}
  BY <1>2, Numbers DEF Loads
<1>6. \A q \in PageIds : Resident(q)' => frames'[frameTable'[q]].page_id = q
  <2> SUFFICES ASSUME NEW q \in PageIds, frameTable'[q] # -1
               PROVE  frames'[frameTable'[q]].page_id = q
    BY DEF Resident
  <2>1. CASE q = p
    BY <1>1, <1>3, <1>5, <2>1
  <2>2. CASE q # p
    BY <1>3, <1>5, <2>2 DEF PoolShape, Resident
  <2> QED BY <2>1, <2>2
<1>7. \A g \in ToSet(unused') : /\ g \notin ToSet(lru') /\ frames'[g].data = ZeroPage
                                /\ \A q \in PageIds : frameTable'[q] # g
  <2> SUFFICES ASSUME NEW g \in ToSet(unused')
               PROVE  /\ g \notin ToSet(lru') /\ frames'[g].data = ZeroPage
                      /\ \A q \in PageIds : frameTable'[q] # g
    OBVIOUS
  <2>1. /\ g \in ToSet(unused) /\ g # f /\ ToSet(lru') = ToSet(lru) \ {f}
        /\ g \in Frames /\ g # -1
    BY FreeFrames, Numbers DEF Loads
  <2> QED BY <1>3, <1>5, <2>1 DEF PoolShape
<1>8. \A g \in ToSet(lru') : /\ frames'[g].page_id \in PageIds
                             /\ frameTable'[frames'[g].page_id] = g
  <2> SUFFICES ASSUME NEW g \in ToSet(lru')
               PROVE  /\ frames'[g].page_id \in PageIds
                      /\ frameTable'[frames'[g].page_id] = g
    OBVIOUS
  <2>1. g \in ToSet(lru) /\ g # f /\ g \in Frames /\ g # -1
    BY FreeFrames, Numbers DEF Loads
  <2>2. frames'[g] = frames[g]
    BY <1>3, <2>1
  <2>3. frames[g].page_id \in PageIds /\ frameTable[frames[g].page_id] = g
    BY <2>1 DEF PoolShape
  <2>4. frames[g].page_id # p
    BY <2>1, <2>3 DEF Resident
  <2> QED BY <2>1, <2>2, <2>3, <2>4 DEF Loads
<1>9. \A g \in Frames : g \in ToSet(unused') \cup ToSet(lru') \/ g = f
  BY DEF PoolShape, Loads
<1>10. f \notin ToSet(lru')
  BY DEF Loads
<1>11. \A g \in Frames : /\ frames'[g].pins = IF g = f THEN 1 ELSE 0
                         /\ frames'[g].is_dirty => call'.dirty /\ g = f
  <2> SUFFICES ASSUME NEW g \in Frames
               PROVE  /\ frames'[g].pins = IF g = f THEN 1 ELSE 0
                      /\ frames'[g].is_dirty => call'.dirty /\ g = f
    OBVIOUS
  <2>1. CASE g = f
    BY <1>1, <1>3, <2>1
  <2>2. CASE g # f
    BY <1>3, <2>2 DEF PoolShape
  <2> QED BY <2>1, <2>2
<1>12. held' = [c \in {Main} |-> Pool!Hold(p, f)]
  BY DEF Loads
<1>13. PoolShape'
  BY <1>5, <1>6, <1>7, <1>8, <1>9, <1>10, <1>11, <1>12 DEF PoolShape, Resident
<1> QED BY <1>1, <1>3, <1>4, <1>5, <1>13 DEF Resident

\* fetchPage of a page that is in the pool.
LEMMA ResidentKeep ==
    ASSUME PoolTypes, PoolShape, ~Busy, ~call.dirty, NEW p \in PageIds,
           Pool!FetchResident(Main, p), Busy', call'.page = p
    PROVE  /\ PoolTypes' /\ PoolShape' /\ Resident(p)
           /\ \A f \in Frames : frames'[f].data = frames[f].data
           /\ UNCHANGED <<frameTable, file, fileLen, nextPageId>>
<1> DEFINE f == frameTable[p]
<1>1. /\ f # -1
      /\ frames' = [frames EXCEPT ![f] = Pool!Pinned(frames[f])]
      /\ lru' = Pool!Without(lru, f)
      /\ held' = [held EXCEPT ![Main] = Pool!Hold(p, f)]
      /\ UNCHANGED <<frameTable, unused, file, fileLen, nextPageId>>
  BY DEF Pool!FetchResident, Pool!Resident, Pool!NoFrame, Pool!diskVars
<1>2. f \in Frames /\ frames[f] \in PageObject /\ frames[f].pins = 0 /\ frames[f].page_id = p
  BY <1>1 DEF PoolTypes, PoolShape, Resident
<1>3. f \notin ToSet(unused)
  BY DEF PoolShape
<1> HIDE DEF f
<1>4. /\ frames' \in [Frames -> PageObject]
      /\ \A g \in Frames : /\ frames'[g].page_id = frames[g].page_id
                           /\ frames'[g].data = frames[g].data
                           /\ frames'[g].is_dirty = frames[g].is_dirty
                           /\ frames'[g].pins = IF g = f THEN 1 ELSE frames[g].pins
  <2>1. /\ frames \in [Frames -> PageObject]
        /\ Pool!Pinned(frames[f]) \in PageObject
        /\ Pool!Pinned(frames[f]).page_id = frames[f].page_id
        /\ Pool!Pinned(frames[f]).data = frames[f].data
        /\ Pool!Pinned(frames[f]).is_dirty = frames[f].is_dirty
        /\ Pool!Pinned(frames[f]).pins = frames[f].pins + 1
    BY <1>2, PageMethods DEF PoolTypes
  <2>2. Pool!Pinned(frames[f]).pins = 1
    BY <1>2, <2>1
  <2> QED BY <1>1, <1>2, <2>1, <2>2
<1>5. lru' \in Seq(Frames) /\ NoRepetition(lru') /\ ToSet(lru') = ToSet(lru) \ {f}
  BY <1>1, SameList, WithoutProperties DEF PoolTypes
<1>6. held' = [c \in {Main} |-> Pool!Hold(p, f)]
  BY <1>1 DEF PoolShape
<1>7. PoolTypes'
  BY <1>1, <1>4, <1>5 DEF PoolTypes
<1>8. PoolShape'
  <2>1. \A q \in PageIds : Resident(q)' => frames'[frameTable'[q]].page_id = q
    BY <1>1, <1>4, Numbers DEF PoolShape, PoolTypes, Resident
  <2>2. \A g \in ToSet(unused') : /\ g \notin ToSet(lru') /\ frames'[g].data = ZeroPage
                                  /\ \A q \in PageIds : frameTable'[q] # g
    BY <1>1, <1>4, <1>5, FreeFrames DEF PoolShape
  <2>3. \A g \in ToSet(lru') : /\ frames'[g].page_id \in PageIds
                               /\ frameTable'[frames'[g].page_id] = g
    BY <1>1, <1>4, <1>5, FreeFrames DEF PoolShape
  <2>4. \A g \in Frames : g \in ToSet(unused') \cup ToSet(lru') \/ g = f
    BY <1>1, <1>5 DEF PoolShape
  <2>5. \A g \in Frames : /\ frames'[g].pins = IF g = f THEN 1 ELSE 0
                          /\ ~frames'[g].is_dirty
    BY <1>4 DEF PoolShape
  <2>6. frameTable'[call'.page] = f /\ f \notin ToSet(lru') /\ frameTable'[call'.page] # -1
    BY <1>1, <1>5 DEF Resident, f
  <2> QED BY <1>6, <2>1, <2>2, <2>3, <2>4, <2>5, <2>6 DEF PoolShape, Resident
<1> QED BY <1>1, <1>4, <1>7, <1>8 DEF Resident, f

\* The call leaves the words pg in the page it holds.
LEMMA LeavingKeep ==
    ASSUME PoolTypes, PoolShape, call.at = "use", ~call.dirty, call.page \in PageIds,
           NEW pg \in Pages, NEW c, Leaving(pg, c), call'.at = "unpin", call'.page = call.page
    PROVE  /\ PoolTypes' /\ PoolShape'
           /\ frames'[frameTable[call.page]].data = pg
           /\ \A f \in Frames \ {frameTable[call.page]} : frames'[f].data = frames[f].data
           /\ UNCHANGED <<frameTable, file, fileLen, nextPageId, tables, stored>>
<1> DEFINE p == call.page
           f == frameTable[p]
<1>1. Busy /\ Busy' /\ call'.at # "flush"
  BY DEF Busy
<1>2. f # -1 /\ f \in Frames /\ frames[f] \in PageObject
  BY <1>1 DEF PoolShape, PoolTypes, Resident
<1>3. held[Main].frame = f
  BY <1>1 DEF PoolShape, Pool!Hold
<1>4. /\ frames' = [frames EXCEPT ![f] = Pool!Filled(frames[f], pg)]
      /\ UNCHANGED <<frameTable, unused, lru, file, fileLen, nextPageId, held, tables, stored>>
  BY <1>3 DEF Leaving
<1>5. f \notin ToSet(unused)
  BY DEF PoolShape
<1>6. call'.page = p
  OBVIOUS
<1> HIDE DEF f, p
<1>7. /\ frames' \in [Frames -> PageObject]
      /\ \A g \in Frames : /\ frames'[g].page_id = frames[g].page_id
                           /\ frames'[g].data = IF g = f THEN pg ELSE frames[g].data
                           /\ frames'[g].is_dirty = frames[g].is_dirty
                           /\ frames'[g].pins = frames[g].pins
  <2>1. /\ frames \in [Frames -> PageObject]
        /\ Pool!Filled(frames[f], pg) \in PageObject
        /\ Pool!Filled(frames[f], pg).page_id = frames[f].page_id
        /\ Pool!Filled(frames[f], pg).data = pg
        /\ Pool!Filled(frames[f], pg).is_dirty = frames[f].is_dirty
        /\ Pool!Filled(frames[f], pg).pins = frames[f].pins
    BY <1>2, PageMethods DEF PoolTypes
  <2> QED BY <1>2, <1>4, <2>1
<1>8. PoolTypes'
  BY <1>4, <1>7 DEF PoolTypes
<1>9. PoolShape'
  <2>1. \A q \in PageIds : Resident(q)' => frames'[frameTable'[q]].page_id = q
    BY <1>4, <1>7, Numbers DEF PoolShape, PoolTypes, Resident
  <2>2. \A g \in ToSet(unused') : /\ g \notin ToSet(lru') /\ frames'[g].data = ZeroPage
                                  /\ \A q \in PageIds : frameTable'[q] # g
    BY <1>4, <1>5, <1>7, FreeFrames DEF PoolShape
  <2>3. \A g \in ToSet(lru') : /\ frames'[g].page_id \in PageIds
                               /\ frameTable'[frames'[g].page_id] = g
    BY <1>4, <1>7, FreeFrames DEF PoolShape
  <2>4. \A g \in Frames : g \in ToSet(unused') \cup ToSet(lru') \/ g = f
    BY <1>4 DEF PoolShape, f, p
  <2>5. \A g \in Frames : /\ frames'[g].pins = IF g = f THEN 1 ELSE 0
                          /\ ~frames'[g].is_dirty
    BY <1>1, <1>7 DEF PoolShape, f, p
  <2>6. frameTable'[call'.page] = f /\ f \notin ToSet(lru') /\ frameTable'[call'.page] # -1
    BY <1>1, <1>2, <1>4, <1>6 DEF Resident, f, PoolShape, p
  <2>7. held' = [cl \in {Main} |-> Pool!Hold(call'.page, f)]
    BY <1>1, <1>4, <1>6 DEF PoolShape, f, p
  <2> QED BY <1>1, <2>1, <2>2, <2>3, <2>4, <2>5, <2>6, <2>7 DEF PoolShape, Resident
<1> QED BY <1>2, <1>4, <1>7, <1>8, <1>9 DEF f, p

\* The call unpins the page it holds: it is the one holder, so the frame becomes
\* evictable.
LEMMA UnpinKeep ==
    ASSUME PoolTypes, PoolShape, call.at = "unpin", call.page \in PageIds,
           call.dirty \in BOOLEAN, Pool!UnpinPage(Main, call.dirty), ~Busy',
           call.dirty => call'.dirty, call.dirty \/ call'.at = "flush" => call'.page = call.page
    PROVE  /\ PoolTypes' /\ PoolShape'
           /\ \A f \in Frames : frames'[f].data = frames[f].data
           /\ UNCHANGED <<frameTable, file, fileLen, nextPageId>>
<1> DEFINE p == call.page
           f == frameTable[p]
           dirty == call.dirty
<1>1. Busy
  BY DEF Busy
<1>2. f # -1 /\ f \in Frames /\ frames[f] \in PageObject /\ frames[f].pins = 1
  BY <1>1 DEF PoolShape, PoolTypes, Resident
<1>3. held = [c \in {Main} |-> Pool!Hold(p, f)] /\ held[Main].page = p
  BY <1>1 DEF PoolShape, Pool!Hold
<1>4. /\ frames' = [frames EXCEPT ![f] = Pool!Unpinned(frames[f], dirty)]
      /\ lru' = Touched(lru, f)
      /\ held' = [held EXCEPT ![Main] = Pool!NoHold]
      /\ UNCHANGED <<frameTable, unused, file, fileLen, nextPageId>>
  BY <1>2, <1>3, SameList DEF Pool!UnpinPage, Pool!diskVars
<1>5. f \notin ToSet(unused) /\ f \notin ToSet(lru)
  BY <1>1 DEF PoolShape
<1>6. dirty \in BOOLEAN /\ (dirty => call'.dirty /\ call'.page = p)
      /\ (call'.at = "flush" => call'.page = p) /\ frames[f].page_id = p
  BY <1>2 DEF PoolShape, Resident
<1> HIDE DEF f, p, dirty
<1>7. /\ frames' \in [Frames -> PageObject]
      /\ \A g \in Frames :
           /\ frames'[g].page_id = frames[g].page_id
           /\ frames'[g].data = frames[g].data
           /\ frames'[g].is_dirty = IF g = f THEN (frames[g].is_dirty \/ dirty)
                                    ELSE frames[g].is_dirty
           /\ frames'[g].pins = IF g = f THEN 0 ELSE frames[g].pins
  <2>1. /\ frames \in [Frames -> PageObject]
        /\ Pool!Unpinned(frames[f], dirty) \in PageObject
        /\ Pool!Unpinned(frames[f], dirty).page_id = frames[f].page_id
        /\ Pool!Unpinned(frames[f], dirty).data = frames[f].data
        /\ Pool!Unpinned(frames[f], dirty).is_dirty = (frames[f].is_dirty \/ dirty)
        /\ Pool!Unpinned(frames[f], dirty).pins = 0
    BY <1>2, <1>6, UnpinnedObject DEF PoolTypes
  <2>2. ASSUME NEW g \in Frames
        PROVE  frames'[g] = IF g = f THEN Pool!Unpinned(frames[f], dirty) ELSE frames[g]
    BY <1>4, <2>1
  <2>3. frames' \in [Frames -> PageObject]
    BY <1>4, <2>1
  <2>4. ASSUME NEW g \in Frames
        PROVE  /\ frames'[g].page_id = frames[g].page_id
               /\ frames'[g].data = frames[g].data
               /\ frames'[g].is_dirty = IF g = f THEN (frames[g].is_dirty \/ dirty)
                                        ELSE frames[g].is_dirty
               /\ frames'[g].pins = IF g = f THEN 0 ELSE frames[g].pins
    <3>1. CASE g = f
      BY <2>1, <2>2, <3>1
    <3>2. CASE g # f
      BY <2>2, <3>2
    <3> QED BY <3>1, <3>2
  <2> QED BY <2>3, <2>4
<1>8. /\ lru' \in Seq(Frames) /\ NoRepetition(lru') /\ ToSet(lru') = ToSet(lru) \cup {f}
  BY <1>2, <1>4, TouchedProperties DEF PoolTypes
<1>9. PoolTypes'
  BY <1>4, <1>7, <1>8 DEF PoolTypes
<1>10. PoolShape'
  <2>1. \A q \in PageIds : Resident(q)' => frames'[frameTable'[q]].page_id = q
    BY <1>4, <1>7, Numbers DEF PoolShape, PoolTypes, Resident
  <2>2. \A g \in ToSet(unused') : /\ g \notin ToSet(lru') /\ frames'[g].data = ZeroPage
                                  /\ \A q \in PageIds : frameTable'[q] # g
    BY <1>4, <1>5, <1>7, <1>8, FreeFrames DEF PoolShape
  <2>3. \A g \in ToSet(lru') : /\ frames'[g].page_id \in PageIds
                               /\ frameTable'[frames'[g].page_id] = g
    <3>1. frames[f].page_id \in PageIds /\ frameTable[frames[f].page_id] = f
      BY <1>6 DEF f, p
    <3> QED BY <1>4, <1>7, <1>8, <3>1, FreeFrames DEF PoolShape
  <2>4. \A g \in Frames : g \in ToSet(unused') \cup ToSet(lru')
    BY <1>4, <1>8 DEF PoolShape, f, p
  <2>5. \A g \in Frames : frames'[g].pins = 0
    BY <1>7 DEF PoolShape, f, p
  <2>6. \A g \in Frames : frames'[g].is_dirty => call'.dirty /\ g = frameTable'[call'.page]
    BY <1>4, <1>6, <1>7 DEF PoolShape, f, p, dirty
  <2>7. call'.at = "flush" => frameTable'[call'.page] # -1
    BY <1>2, <1>4, <1>6 DEF f
  <2>8. held' = [c \in {Main} |-> Pool!NoHold]
    BY <1>3, <1>4
  <2> QED BY <2>1, <2>2, <2>3, <2>4, <2>5, <2>6, <2>7, <2>8 DEF PoolShape, Resident
<1> QED BY <1>4, <1>7, <1>9, <1>10

\* The call flushes the page it has changed.
LEMMA FlushKeep ==
    ASSUME PoolTypes, PoolShape, call.at = "flush", call.page \in PageIds,
           Pool!FlushPage(call.page), ~Busy', call'.at # "flush"
    PROVE  /\ PoolTypes' /\ PoolShape'
           /\ \A f \in Frames : frames'[f].data = frames[f].data
           /\ file' = [file EXCEPT ![call.page] = InFrame(call.page)]
           /\ fileLen' = IF call.page < fileLen THEN fileLen ELSE call.page + 1
           /\ UNCHANGED <<frameTable, nextPageId>>
<1> DEFINE p == call.page
           f == frameTable[p]
<1>1. ~Busy
  BY DEF Busy
<1>2. f # -1 /\ f \in Frames /\ frames[f] \in PageObject /\ frames[f].page_id = p
  BY DEF PoolShape, PoolTypes, Resident
<1>3. /\ frames' = [frames EXCEPT ![f] = Pool!Cleaned(frames[f])]
      /\ file' = [file EXCEPT ![p] = frames[f].data]
      /\ fileLen' = IF p < fileLen THEN fileLen ELSE p + 1
      /\ UNCHANGED <<frameTable, unused, lru, nextPageId, held>>
  BY <1>2 DEF Pool!FlushPage, Pool!WriteBack
<1>4. p \in PageIds /\ frames[f].data \in Pages
  BY <1>2, PageMethods
<1> HIDE DEF f, p
<1>5. /\ frames' \in [Frames -> PageObject]
      /\ \A g \in Frames : /\ frames'[g].page_id = frames[g].page_id
                           /\ frames'[g].data = frames[g].data
                           /\ frames'[g].is_dirty = IF g = f THEN FALSE ELSE frames[g].is_dirty
                           /\ frames'[g].pins = frames[g].pins
  <2>1. /\ frames \in [Frames -> PageObject]
        /\ Pool!Cleaned(frames[f]) \in PageObject
        /\ Pool!Cleaned(frames[f]).page_id = frames[f].page_id
        /\ Pool!Cleaned(frames[f]).data = frames[f].data
        /\ Pool!Cleaned(frames[f]).is_dirty = FALSE
        /\ Pool!Cleaned(frames[f]).pins = frames[f].pins
    BY <1>2, PageMethods DEF PoolTypes
  <2> QED BY <1>2, <1>3, <2>1
<1>6. PoolTypes'
  <2>1. file' \in [PageIds -> Pages]
    BY <1>3, <1>4 DEF PoolTypes
  <2>2. fileLen' \in 0..MaxPages
    BY <1>3, <1>4, Numbers DEF PoolTypes
  <2> QED BY <1>3, <1>5, <2>1, <2>2 DEF PoolTypes
<1>7. PoolShape'
  <2>1. \A q \in PageIds : Resident(q)' => frames'[frameTable'[q]].page_id = q
    <3> SUFFICES ASSUME NEW q \in PageIds, frameTable[q] # -1
                 PROVE  frames'[frameTable[q]].page_id = q
      BY <1>3 DEF Resident
    <3>1. frameTable[q] \in Frames /\ frames[frameTable[q]].page_id = q
      BY DEF PoolShape, PoolTypes, Resident
    <3> QED BY <1>5, <3>1
  <2>2. \A g \in ToSet(unused') : /\ g \notin ToSet(lru') /\ frames'[g].data = ZeroPage
                                  /\ \A q \in PageIds : frameTable'[q] # g
    <3> SUFFICES ASSUME NEW g \in ToSet(unused)
                 PROVE  /\ g \notin ToSet(lru) /\ frames'[g].data = ZeroPage
                        /\ \A q \in PageIds : frameTable[q] # g
      BY <1>3
    <3>1. /\ g \in Frames /\ g \notin ToSet(lru) /\ frames[g].data = ZeroPage
          /\ \A q \in PageIds : frameTable[q] # g
      BY FreeFrames DEF PoolShape
    <3> QED BY <1>5, <3>1
  <2>3. \A g \in ToSet(lru') : /\ frames'[g].page_id \in PageIds
                               /\ frameTable'[frames'[g].page_id] = g
    <3> SUFFICES ASSUME NEW g \in ToSet(lru)
                 PROVE  /\ frames'[g].page_id \in PageIds
                        /\ frameTable[frames'[g].page_id] = g
      BY <1>3
    <3>1. g \in Frames /\ frames[g].page_id \in PageIds /\ frameTable[frames[g].page_id] = g
      BY FreeFrames DEF PoolShape
    <3> QED BY <1>5, <3>1
  <2>4. \A g \in Frames : g \in ToSet(unused') \cup ToSet(lru')
    BY <1>1, <1>3 DEF PoolShape
  <2>5. \A g \in Frames : frames'[g].pins = 0 /\ ~frames'[g].is_dirty
    BY <1>1, <1>5 DEF PoolShape, f, p
  <2>6. held' = [c \in {Main} |-> Pool!NoHold]
    BY <1>1, <1>3 DEF PoolShape
  <2> QED BY <2>1, <2>2, <2>3, <2>4, <2>5, <2>6 DEF PoolShape
<1> QED BY <1>3, <1>5, <1>6, <1>7 DEF f, p, InFrame

\* The process ends, and starts again with an empty pool.
LEMMA CrashKeep ==
    ASSUME file \in [PageIds -> Pages], fileLen \in 0..MaxPages, Pool!Crash, call' = Idle
    PROVE  /\ PoolTypes' /\ PoolShape'
           /\ nextPageId' = fileLen /\ UNCHANGED <<file, fileLen>>
           /\ \A f \in Frames : frames'[f].data = ZeroPage
           /\ \A p \in PageIds : ~Resident(p)'
<1>1. /\ frames' = [f \in Frames |-> Pool!EmptyPage]
      /\ frameTable' = [p \in PageIds |-> -1]
      /\ unused' = [i \in 1..Capacity |-> i - 1]
      /\ lru' = <<>>
      /\ nextPageId' = fileLen
      /\ held' = [c \in {Main} |-> Pool!NoHold]
      /\ UNCHANGED <<file, fileLen>>
  BY Numbers DEF Pool!Crash, Pool!NoFrame, Pool!AllUnused, Pool!diskVars
<1>2. frames' \in [Frames -> PageObject]
      /\ \A f \in Frames : frames'[f].data = ZeroPage /\ frames'[f].pins = 0
                           /\ ~frames'[f].is_dirty
  BY <1>1, NewObjects
<1>3. /\ unused' \in Seq(Frames) /\ NoRepetition(unused') /\ ToSet(unused') = Frames
  <2>1. unused' \in Seq(Frames) /\ DOMAIN unused' = 1..Capacity
        /\ \A i \in 1..Capacity : unused'[i] = i - 1
    BY <1>1, Numbers
  <2>2. NoRepetition(unused')
    BY <2>1, Numbers DEF NoRepetition
  <2>3. \A f \in Frames : f + 1 \in 1..Capacity /\ unused'[f + 1] = f
    BY <2>1, Numbers
  <2>4. ToSet(unused') = Frames
    <3>1. ToSet(unused') = {unused'[i] : i \in 1..Capacity}
      BY <2>1 DEF ToSet
    <3>2. \A i \in 1..Capacity : unused'[i] \in Frames
      BY <2>1, Numbers
    <3> QED BY <2>3, <3>1, <3>2
  <2> QED BY <2>1, <2>2, <2>4
<1>4. lru' \in Seq(Frames) /\ NoRepetition(lru') /\ ToSet(lru') = {}
  BY <1>1 DEF NoRepetition, ToSet
<1>5. ~Busy' /\ call'.at # "flush"
  BY DEF Idle, Busy
<1>6. PoolTypes'
  BY <1>1, <1>2, <1>3, <1>4, Numbers DEF PoolTypes
<1>7. PoolShape'
  <2>1. \A p \in PageIds : frameTable'[p] = -1
    BY <1>1
  <2> QED BY <1>1, <1>2, <1>3, <1>4, <1>5, <2>1, Numbers DEF PoolShape, Resident
<1> QED BY <1>1, <1>2, <1>6, <1>7 DEF Resident

-----------------------------------------------------------------------------
(***************************************************************************)
(* 4. Every step keeps the invariant.  The file changes in Flush alone.    *)
(***************************************************************************)

LEMMA InitInv == Init => Inv
<1> SUFFICES ASSUME Init PROVE Inv
  OBVIOUS
<1>1. /\ frames = [f \in Frames |-> Pool!EmptyPage]
      /\ frameTable = [p \in PageIds |-> -1]
      /\ unused = [i \in 1..Capacity |-> i - 1]
      /\ lru = <<>>
      /\ file = [p \in PageIds |-> ZeroPage] /\ fileLen = 0 /\ nextPageId = 0
      /\ held = [c \in {Main} |-> Pool!NoHold]
      /\ tables = {} /\ call = Idle /\ stored = <<>>
  BY Numbers DEF Init, Pool!Init, Pool!NoFrame, Pool!AllUnused
<1>2. /\ frames \in [Frames -> PageObject]
      /\ \A f \in Frames : /\ frames[f].data = ZeroPage /\ frames[f].pins = 0
                           /\ ~frames[f].is_dirty
  BY <1>1, NewObjects
<1>3. unused \in Seq(Frames) /\ NoRepetition(unused) /\ ToSet(unused) = Frames
  <2>1. unused \in Seq(Frames) /\ DOMAIN unused = 1..Capacity
        /\ \A i \in 1..Capacity : unused[i] = i - 1
    BY <1>1, Numbers
  <2>2. NoRepetition(unused)
    BY <2>1, Numbers DEF NoRepetition
  <2>3. \A f \in Frames : f + 1 \in 1..Capacity /\ unused[f + 1] = f
    BY <2>1, Numbers
  <2>4. ToSet(unused) = {unused[i] : i \in 1..Capacity}
    BY <2>1 DEF ToSet
  <2>5. \A i \in 1..Capacity : unused[i] \in Frames
    BY <2>1, Numbers
  <2> QED BY <2>1, <2>2, <2>3, <2>4, <2>5
<1>4. lru \in Seq(Frames) /\ NoRepetition(lru) /\ ToSet(lru) = {}
  BY <1>1 DEF NoRepetition, ToSet
<1>5. /\ DOMAIN call = CallFields /\ call.op = "none" /\ call.at = "none" /\ ~call.dirty
      /\ call.dirty = FALSE /\ call.then = "return" /\ ~Busy
  BY <1>1 DEF Idle, CallFields, Busy
<1>6. stored = [rid \in DOMAIN stored |-> stored[rid]] /\ DOMAIN stored = {}
  BY <1>1
<1>7. PoolTypes
  <2>1. frameTable \in [PageIds -> Frames \cup {-1}] /\ file \in [PageIds -> Pages]
    BY <1>1, ZeroIsSound
  <2>2. fileLen \in 0..MaxPages /\ nextPageId \in 0..MaxPages
    BY <1>1, Numbers
  <2> QED BY <1>2, <1>3, <1>4, <2>1, <2>2 DEF PoolTypes
<1>8. PoolShape
  BY <1>1, <1>2, <1>3, <1>4, <1>5, Numbers DEF PoolShape, Resident
<1>9. FilePages /\ FramePages
  BY <1>1, <1>2, ZeroIsSound DEF FilePages, FramePages, Resident
<1>10. FreshIdsAreUnheard /\ KnownRows /\ KnownTables
  BY <1>1, <1>6 DEF FreshIdsAreUnheard, KnownRows, KnownTables, Resident, Unheard
<1>11. CallShape /\ CallSubject /\ ChangeIsOne /\ ReadsReturnStored
  BY <1>1, <1>5 DEF CallShape, CallSubject, ChangeIsOne, ReadsReturnStored, Operations, OnRow
<1> QED BY <1>7, <1>8, <1>9, <1>10, <1>11 DEF Inv

\* What the file shows and what the callers know of it.
LEMMA FileStays ==
    ASSUME Inv, UNCHANGED <<file, fileLen, tables, stored>>
    PROVE  FilePages' /\ KnownRows' /\ KnownTables'
BY DEF Inv, FilePages, KnownRows, KnownTables

\* A call between two others, or between two pages, has changed nothing.
LEMMA PageOfCall ==
    ASSUME Inv, call # Idle
    PROVE  /\ call.page \in PageIds /\ call.op \in {"create", "insert", "scan"} \cup OnRow
           /\ call.at \in {"fetch", "use"} => ~call.dirty /\ call.op # "create"
           /\ call.at \in {"fetch", "use"} /\ call.page >= fileLen =>
                call.page = Overflow /\ call.op = "insert"
           /\ call.op # "create" =>
                \/ call.page \in tables \cup {Overflow}
                \/ \E rid \in DOMAIN stored : rid.page_id = call.page
<1>1. call.page \in PageIds /\ call.op \in {"create", "insert", "scan"} \cup OnRow
  BY DEF Inv, CallShape, Operations, OnRow
<1>2. call.at \in {"fetch", "use"} => ~call.dirty /\ call.op # "create"
  BY DEF Inv, CallShape
<1>3. call.op # "create" =>
        \/ call.page \in tables \cup {Overflow}
        \/ \E rid \in DOMAIN stored : rid.page_id = call.page
  BY <1>1 DEF Inv, CallSubject
<1>4. \A p \in tables : p < fileLen
  BY DEF Inv, KnownTables, PoolTypes
<1>5. \A rid \in DOMAIN stored : rid.page_id < fileLen
  BY DEF Inv, KnownRows, PoolTypes
<1>6. call.at \in {"fetch", "use"} /\ call.page >= fileLen =>
        call.page = Overflow /\ call.op = "insert"
  <2> SUFFICES ASSUME call.at \in {"fetch", "use"}, call.page >= fileLen
               PROVE  call.page = Overflow /\ call.op = "insert"
    OBVIOUS
  <2>0. fileLen \in Nat /\ \A p \in tables : p \in Nat
    BY DEF Inv, KnownTables, PoolTypes
  <2>1. call.page # call.table
    BY <1>1, <1>2, <1>4, <2>0, Numbers DEF Inv, CallSubject
  <2>2. call.op \in OnRow => call.page # call.rid.page_id
    BY <1>1, <1>5, <2>0, Numbers DEF Inv, CallSubject
  <2> QED BY <1>1, <1>2, <2>1, <2>2 DEF Inv, CallSubject
<1> QED BY <1>1, <1>2, <1>3, <1>6

\* A call that has changed the page, and one that is on its way to a page.
LEMMA ShapeOfChange ==
    ASSUME DOMAIN call' = CallFields, call'.at = "unpin", call'.page \in PageIds,
           call'.op \in {"create", "insert", "delete", "edit"}, call'.dirty = TRUE,
           call'.then = "return" \/ (call'.then = "reinsert" /\ call'.op = "edit")
    PROVE  CallShape'
<1>1. call'.dirty /\ call'.dirty \in BOOLEAN
  OBVIOUS
<1>2. call' # Idle
  BY DEF Idle
<1> HIDE DEF Idle
<1>3. /\ call'.op = "none" <=> call' = Idle
      /\ call'.at = "none" <=> call' = Idle
  BY <1>2
<1>4. /\ call'.op \in Operations
      /\ call'.at \in {"none", "fetch", "use", "unpin", "flush"}
      /\ call' # Idle => call'.page \in PageIds
      /\ call'.then \in {"return", "next", "reinsert"} /\ call'.dirty \in BOOLEAN
  BY <1>1 DEF Operations, OnRow
<1>5. /\ call'.at \in {"none", "fetch", "use"} => ~call'.dirty /\ call'.then = "return"
      /\ call'.at = "flush" => call'.dirty
      /\ call'.op = "create" => call'.dirty /\ call'.then = "return"
      /\ call'.dirty => call'.op \in {"create", "insert", "delete", "edit"}
                        /\ call'.then # "next"
      /\ call'.then = "reinsert" => call'.op = "edit" /\ call'.dirty
      /\ call'.at = "unpin" /\ ~call'.dirty /\ call'.op \in {"insert", "delete", "edit"}
           => call'.then = "next"
      /\ call'.then = "next" => call'.op \in OnRow \cup {"insert"}
  BY <1>1
<1> QED BY <1>3, <1>4, <1>5 DEF CallShape

LEMMA ShapeOfStart ==
    ASSUME DOMAIN call' = CallFields, call'.at \in {"fetch", "use"}, call'.page \in PageIds,
           call'.op \in {"insert", "scan"} \cup OnRow, call'.dirty = FALSE,
           call'.then = "return"
    PROVE  CallShape'
<1>1. ~call'.dirty /\ call'.dirty \in BOOLEAN
  OBVIOUS
<1>2. call' # Idle
  BY DEF Idle
<1> HIDE DEF Idle
<1>3. /\ call'.op = "none" <=> call' = Idle
      /\ call'.at = "none" <=> call' = Idle
  BY <1>2 DEF OnRow
<1>4. /\ call'.op \in Operations
      /\ call'.at \in {"none", "fetch", "use", "unpin", "flush"}
      /\ call' # Idle => call'.page \in PageIds
      /\ call'.then \in {"return", "next", "reinsert"} /\ call'.dirty \in BOOLEAN
  BY <1>1 DEF Operations, OnRow
<1>5. /\ call'.at \in {"none", "fetch", "use"} => ~call'.dirty /\ call'.then = "return"
      /\ call'.at = "flush" => call'.dirty
      /\ call'.op = "create" => call'.dirty /\ call'.then = "return"
      /\ call'.dirty => call'.op \in {"create", "insert", "delete", "edit"}
                        /\ call'.then # "next"
      /\ call'.then = "reinsert" => call'.op = "edit" /\ call'.dirty
      /\ call'.at = "unpin" /\ ~call'.dirty /\ call'.op \in {"insert", "delete", "edit"}
           => call'.then = "next"
      /\ call'.then = "next" => call'.op \in OnRow \cup {"insert"}
  BY <1>1 DEF OnRow
<1> QED BY <1>3, <1>4, <1>5 DEF CallShape

\* An identifier nobody has heard of stays so.
LEMMA FreshStay ==
    ASSUME Inv, UNCHANGED <<file, tables, stored>>, nextPageId' >= nextPageId, nextPageId' \in Nat,
           \A p \in PageIds : Resident(p)' => \/ Resident(p) \/ p < nextPageId'
                                              \/ p \in tables \cup {Overflow}
                                              \/ \E rid \in DOMAIN stored : rid.page_id = p
    PROVE  FreshIdsAreUnheard'
<1> SUFFICES ASSUME NEW p \in PageIds, p >= nextPageId', p # Overflow
             PROVE  ~Resident(p)' /\ Unheard(p)'
  BY DEF FreshIdsAreUnheard
<1>1. p >= nextPageId /\ p \in Nat /\ nextPageId \in Nat /\ ~(p < nextPageId')
  BY Numbers DEF Inv, PoolTypes
<1>2. ~Resident(p) /\ Unheard(p)
  BY <1>1 DEF Inv, FreshIdsAreUnheard
<1> QED BY <1>1, <1>2 DEF Unheard

\* The words the call finds in the frame it has got.
LEMMA FetchedPage ==
    ASSUME Inv, call.at = "fetch", NEW f \in Frames,
           f \in ToSet(unused) \cup ToSet(lru), ~Resident(call.page)
    PROVE  Stale(RowsOn(frames[f].data))
<1>1. CASE f \in ToSet(unused)
  <2>1. frames[f].data = ZeroPage
    BY <1>1 DEF Inv, PoolShape
  <2> QED BY <2>1, ZeroIsSound DEF Stale
<1>2. CASE f \in ToSet(lru)
  <2> DEFINE v == frames[f].page_id
  <2>1. v \in PageIds /\ frameTable[v] = f /\ Resident(v) /\ v # call.page
    BY <1>2, Numbers DEF Inv, PoolShape, Resident
  <2>2. InFrame(v) = frames[f].data
    BY <2>1 DEF InFrame
  <2>3. v < fileLen /\ Opened(frames[f].data) = Opened(file[v])
    BY <2>1, <2>2 DEF Inv, FramePages
  <2>4. Sound(frames[f].data) /\ Sound(file[v])
    BY <2>1 DEF Inv, FramePages, FilePages
  <2>5. RowsOn(frames[f].data) = RowsOn(file[v])
    BY <2>3, <2>4, OpenedAlike
  <2>6. v \in 0..(fileLen - 1)
    BY <2>1, <2>3, Numbers DEF Inv, PoolTypes
  <2> QED BY <2>5, <2>6 DEF Stale
<1> QED BY <1>1, <1>2

LEMMA FetchInv ==
    ASSUME Inv, Fetch
    PROVE  Inv' /\ UNCHANGED <<file, fileLen, tables, stored>>
<1> DEFINE p == call.page
<1>1. call # Idle /\ call.at = "fetch" /\ ~Busy
  BY DEF Fetch, Inv, CallShape, Busy
<1>2. p \in PageIds /\ ~call.dirty /\ call.op \in {"insert", "scan"} \cup OnRow
  BY <1>1, PageOfCall
<1>3. /\ DOMAIN call' = CallFields /\ call'.at = "use" /\ call'.op = call.op
      /\ call'.page = p /\ call'.table = call.table /\ call'.rid = call.rid
      /\ call'.tuple = call.tuple /\ call'.dirty = call.dirty /\ call'.then = call.then
  BY DEF Fetch, Inv, CallShape, CallFields
<1>4. Busy' /\ ~call'.dirty /\ UNCHANGED <<tables, stored>>
  BY <1>2, <1>3 DEF Busy, Fetch
<1> HIDE DEF p
<1>5. PoolTypes /\ PoolShape
  BY DEF Inv
<1>6. /\ PoolTypes' /\ PoolShape' /\ UNCHANGED <<file, fileLen>> /\ nextPageId' = nextPageId
      /\ \A q \in PageIds : Resident(q)' => Resident(q) \/ q = p
      /\ FramePages'
  <2>1. CASE Pool!FetchResident(Main, p)
    <3>1. /\ PoolTypes' /\ PoolShape' /\ Resident(p)
          /\ \A f \in Frames : frames'[f].data = frames[f].data
          /\ UNCHANGED <<frameTable, file, fileLen, nextPageId>>
      BY <1>1, <1>2, <1>3, <1>4, <1>5, <2>1, ResidentKeep
    <3>2. \A q \in PageIds : Resident(q) => frames'[frameTable[q]].data = InFrame(q)
      BY <1>5, <3>1 DEF PoolTypes, Resident, InFrame
    <3>3. \A q \in PageIds : Resident(q) =>
            IF q < fileLen THEN Opened(InFrame(q)) = Opened(file[q])
            ELSE q = p /\ q = Overflow /\ call.op = "insert" /\ Stale(RowsOn(InFrame(q)))
      BY <1>2 DEF Inv, FramePages, p
    <3>4. \A f \in Frames : Sound(frames[f].data)
      BY DEF Inv, FramePages
    <3>5. FramePages'
      BY <1>3, <3>1, <3>2, <3>3, <3>4 DEF FramePages, Resident, InFrame, Stale
    <3> QED BY <3>1, <3>5 DEF Resident
  <2>2. CASE Pool!FetchIntoUnused(Main, p) \/ Pool!FetchEvicting(Main, p)
    <3>1. PICK f \in Frames :
            /\ ~Resident(p) /\ nextPageId' = nextPageId
            /\ Loads(f, p, IF p < fileLen THEN file[p] ELSE frames[f].data, FALSE)
      BY <1>1, <1>2, <1>5, <2>2, FetchLoads
    <3> DEFINE d == IF p < fileLen THEN file[p] ELSE frames[f].data
    <3>2. d \in Pages /\ Sound(d)
      BY <1>2 DEF Inv, FramePages, FilePages, Sound, Intact
    <3>3. nextPageId' \in 0..MaxPages /\ FALSE \in BOOLEAN
      BY <1>5, <3>1 DEF PoolTypes
    <3>4. Loads(f, p, d, FALSE)
      BY <3>1
    <3>5. p >= fileLen => p = Overflow /\ call.op = "insert" /\ Stale(RowsOn(d))
      <4>1. p >= fileLen => p = Overflow /\ call.op = "insert"
        BY <1>1, PageOfCall DEF p
      <4>2. f \in ToSet(unused) \cup ToSet(lru)
        BY <3>1 DEF Loads
      <4>3. Stale(RowsOn(frames[f].data))
        BY <1>1, <3>1, <4>2, FetchedPage DEF p
      <4>4. p >= fileLen => ~(p < fileLen)
        BY <1>2, Numbers DEF Inv, PoolTypes
      <4> QED BY <4>1, <4>3, <4>4
    <3> HIDE DEF d
    <3>6. /\ PoolTypes' /\ PoolShape'
          /\ frameTable'[p] = f /\ frames'[f].data = d
          /\ \A g \in Frames \ {f} : frames'[g].data = frames[g].data
          /\ \A q \in PageIds \ {p} :
               Resident(q)' => /\ Resident(q) /\ frameTable'[q] = frameTable[q]
                               /\ frameTable[q] \in Frames \ {f}
      <4>1. ~Busy /\ ~call.dirty /\ ~Resident(p) /\ Busy' /\ call'.page = p
        BY <1>1, <1>2, <1>3, <1>4, <3>1
      <4> HIDE DEF Busy, Resident
      <4> QED BY <1>2, <1>5, <3>2, <3>3, <3>4, <4>1, LoadsKeep
    <3>7. UNCHANGED <<file, fileLen>>
      BY <3>1 DEF Loads
    <3>8. \A g \in Frames : Sound(frames'[g].data)
      BY <3>2, <3>6 DEF Inv, FramePages
    <3>9. p < fileLen => Opened(d) = Opened(file[p])
      BY DEF d
    <3>10. ASSUME NEW q \in PageIds, Resident(q)', q # p
           PROVE  /\ frames'[frameTable'[q]].data = InFrame(q)
                  /\ q < fileLen /\ Opened(InFrame(q)) = Opened(file[q])
      <4>1. Resident(q) /\ frameTable'[q] = frameTable[q] /\ frameTable[q] \in Frames \ {f}
        BY <3>6, <3>10
      <4>2. frames'[frameTable'[q]].data = InFrame(q)
        BY <3>6, <4>1 DEF InFrame
      <4> QED BY <3>10, <4>1, <4>2 DEF Inv, FramePages, p
    <3>11. FramePages'
      <4> SUFFICES ASSUME NEW q \in PageIds, Resident(q)'
                   PROVE  IF q < fileLen
                          THEN Opened(frames'[frameTable'[q]].data) = Opened(file[q])
                          ELSE /\ q = p /\ q = Overflow /\ call.op = "insert"
                               /\ Stale(RowsOn(frames'[frameTable'[q]].data))
        BY <1>3, <3>7, <3>8 DEF FramePages, InFrame, Stale
      <4>1. CASE q = p
        <5>1. frames'[frameTable'[q]].data = d
          BY <3>6, <4>1
        <5>2. ~(q < fileLen) => q >= fileLen
          BY Numbers DEF Inv, PoolTypes
        <5> QED BY <3>5, <3>9, <4>1, <5>1, <5>2
      <4>2. CASE q # p
        BY <3>10, <4>2
      <4> QED BY <4>1, <4>2
    <3> QED BY <3>1, <3>6, <3>7, <3>11
  <2> QED BY <2>1, <2>2 DEF Fetch, p
<1>7. FilePages' /\ KnownRows' /\ KnownTables'
  BY <1>4, <1>6, FileStays
<1>8. FreshIdsAreUnheard'
  <2>1. p \in tables \cup {Overflow} \/ \E rid \in DOMAIN stored : rid.page_id = p
    BY <1>1, <1>2, PageOfCall DEF p, OnRow
  <2>2. nextPageId \in Nat
    BY <1>5 DEF PoolTypes
  <2> QED BY <1>4, <1>6, <2>1, <2>2, FreshStay
<1>9. CallShape'
  BY <1>1, <1>2, <1>3, <1>4 DEF Inv, CallShape, p, Idle, OnRow
<1>10. CallSubject'
  BY <1>2, <1>3, <1>4, <1>6 DEF Inv, CallSubject, p, GrowsInPlace
<1>11. ChangeIsOne' /\ ReadsReturnStored'
  BY <1>3, <1>4 DEF ChangeIsOne, ReadsReturnStored
<1> QED BY <1>4, <1>6, <1>7, <1>8, <1>9, <1>10, <1>11 DEF Inv

\* The words the call works on are those of the page it holds, opened.
LEMMA AtUse ==
    ASSUME Inv, call.at = "use"
    PROVE  /\ call.page \in PageIds /\ frameTable[call.page] \in Frames
           /\ Sound(InFrame(call.page)) /\ hp = Opened(InFrame(call.page))
           /\ Sound(hp) /\ hp \in Pages /\ Opened(hp) = hp
           /\ RowsOn(hp) = RowsOn(InFrame(call.page))
           /\ IF call.page < fileLen
              THEN hp = Opened(file[call.page]) /\ RowsOn(hp) = RowsOn(file[call.page])
              ELSE call.page = Overflow /\ call.op = "insert" /\ Stale(RowsOn(hp))
<1> DEFINE p == call.page
           d == InFrame(p)
<1>1. call # Idle /\ p \in PageIds /\ Busy /\ ~call.dirty
  BY PageOfCall DEF Inv, CallShape, Busy
<1>2. Resident(p) /\ frameTable[p] \in Frames
  BY <1>1 DEF Inv, PoolShape, PoolTypes, Resident
<1>3. held[Main].frame = frameTable[p]
  BY <1>1 DEF Inv, PoolShape, Pool!Hold
<1>4. hp = Opened(d) /\ Sound(d)
  BY <1>2, <1>3 DEF hp, InFrame, Inv, FramePages
<1>5. Sound(hp) /\ hp \in Pages /\ Opened(hp) = hp /\ RowsOn(hp) = RowsOn(d)
  BY <1>4, OpenedIsSound
<1>6. IF p < fileLen THEN Opened(d) = Opened(file[p])
      ELSE p = Overflow /\ call.op = "insert" /\ Stale(RowsOn(d))
  BY <1>1, <1>2 DEF Inv, FramePages
<1>7. Sound(file[p])
  BY <1>1 DEF Inv, FilePages
<1>8. p < fileLen => RowsOn(d) = RowsOn(file[p])
  BY <1>4, <1>6, <1>7, OpenedAlike
<1> QED BY <1>1, <1>2, <1>4, <1>5, <1>6, <1>8

\* The call has found the page of its RID: the slot is there, and in the file.
LEMMA AtRow ==
    ASSUME Inv, call.at = "use", call.op \in OnRow, call.rid.page_id = call.page
    PROVE  /\ call.page < fileLen /\ call.rid \in DOMAIN stored
           /\ hp = file[call.page]
           /\ call.rid.slot_id \in 0..(num_slots(hp) - 1)
           /\ call.rid.slot_id \in 0..(num_slots(InFrame(call.page)) - 1)
           /\ call.rid.slot_id \in Nat
           /\ getTuple(hp, call.rid.slot_id) = stored[call.rid]
<1> DEFINE p == call.page
           i == call.rid.slot_id
<1>1. /\ call.rid \in DOMAIN stored /\ p \in 0..(fileLen - 1)
      /\ i \in 0..(num_slots(file[p]) - 1)
      /\ RowsOn(file[p])[i + 1] = stored[call.rid]
  BY DEF Inv, CallSubject, KnownRows
<1>2. p < fileLen
  BY <1>1 DEF Inv, PoolTypes
<1>3. /\ hp = Opened(file[p]) /\ RowsOn(hp) = RowsOn(file[p])
      /\ Sound(hp) /\ Sound(InFrame(p)) /\ RowsOn(hp) = RowsOn(InFrame(p)) /\ p \in PageIds
  BY <1>2, AtUse
<1>4. Sound(file[p])
  BY <1>3 DEF Inv, FilePages
<1>5. /\ num_slots(hp) = num_slots(file[p]) /\ num_slots(hp) = num_slots(InFrame(p))
      /\ num_slots(hp) \in Nat
  BY <1>3, <1>4, SoundPage
<1>6. getTuple(hp, i) = stored[call.rid]
  BY <1>1, <1>3, <1>5, SoundPage
<1>7. hp = file[p]
  <2>1. file[p] # ZeroPage
    BY <1>1, Sizes DEF num_slots, ZeroPage
  <2>2. WellFormed(file[p], RowsOn(file[p]))
    BY <1>4, <2>1 DEF Sound, Intact
  <2>3. file[p] \in Pages /\ RowsOn(file[p]) \in Seq(Row)
    BY <1>4, SoundPage
  <2> QED BY <1>3, <2>2, <2>3, WellFormedIsSound
<1> QED BY <1>1, <1>2, <1>3, <1>5, <1>6, <1>7

\* What every step that leaves a page has in common.
LEMMA LeavingInv ==
    ASSUME Inv, call.at = "use", NEW pg, NEW c, Leaving(pg, c), Sound(pg),
           call'.at = "unpin", call'.page = call.page, call'.op = call.op,
           call'.dirty \/ pg = hp
    PROVE  /\ PoolTypes' /\ PoolShape'
           /\ FilePages' /\ FramePages' /\ FreshIdsAreUnheard' /\ KnownRows' /\ KnownTables'
           /\ frames'[frameTable'[call.page]].data = pg
           /\ UNCHANGED <<file, fileLen, tables, stored>>
<1> DEFINE p == call.page
<1>1. /\ p \in PageIds /\ frameTable[p] \in Frames /\ hp = Opened(InFrame(p)) /\ Opened(hp) = hp
      /\ RowsOn(hp) = RowsOn(InFrame(p))
  BY AtUse
<1>2. ~call.dirty /\ pg \in Pages /\ PoolTypes /\ PoolShape
  BY DEF Inv, CallShape, Sound, Intact
<1>3. /\ PoolTypes' /\ PoolShape'
      /\ frames'[frameTable[p]].data = pg
      /\ \A f \in Frames \ {frameTable[p]} : frames'[f].data = frames[f].data
      /\ UNCHANGED <<frameTable, file, fileLen, nextPageId, tables, stored>>
  BY <1>1, <1>2, LeavingKeep
<1> HIDE DEF p
<1>4. \A f \in Frames : Sound(frames'[f].data)
  BY <1>1, <1>3 DEF Inv, FramePages
<1>5. ASSUME NEW q \in PageIds, Resident(q), q # p
      PROVE  /\ frames'[frameTable[q]].data = InFrame(q)
             /\ q < fileLen /\ Opened(InFrame(q)) = Opened(file[q])
  <2>1. frameTable[q] \in Frames \ {frameTable[p]}
    <3>1. frameTable[q] \in Frames /\ frames[frameTable[q]].page_id = q
      BY <1>2, <1>5 DEF PoolTypes, PoolShape, Resident
    <3>2. frames[frameTable[p]].page_id = p
      BY <1>1, <1>2, Numbers DEF PoolShape, Resident
    <3> QED BY <1>5, <3>1, <3>2
  <2> QED BY <1>3, <1>5, <2>1 DEF InFrame, Inv, FramePages, p
<1>6. FramePages'
  <2> SUFFICES ASSUME NEW q \in PageIds, Resident(q), ~(call'.dirty /\ q = p)
               PROVE  IF q < fileLen
                      THEN Opened(frames'[frameTable[q]].data) = Opened(file[q])
                      ELSE /\ q = p /\ q = Overflow /\ call.op = "insert"
                           /\ Stale(RowsOn(frames'[frameTable[q]].data))
    BY <1>3, <1>4 DEF FramePages, Resident, InFrame, Stale, p
  <2>1. CASE q = p
    <3>1. pg = hp /\ frames'[frameTable[q]].data = hp
      BY <1>3, <2>1
    <3>2. IF q < fileLen THEN Opened(InFrame(q)) = Opened(file[q])
          ELSE q = p /\ q = Overflow /\ call.op = "insert" /\ Stale(RowsOn(InFrame(q)))
      BY <1>2 DEF Inv, FramePages, p
    <3> QED BY <1>1, <2>1, <3>1, <3>2
  <2>2. CASE q # p
    BY <1>5, <2>2
  <2> QED BY <2>1, <2>2
<1>7. FilePages' /\ KnownRows' /\ KnownTables'
  BY <1>3, FileStays
<1>8. FreshIdsAreUnheard'
  <2>1. nextPageId \in Nat /\ \A q \in PageIds : Resident(q)' => Resident(q)
    BY <1>2, <1>3 DEF PoolTypes, Resident
  <2> QED BY <1>3, <2>1, FreshStay
<1> QED BY <1>3, <1>6, <1>7, <1>8 DEF p

LEMMA InsertHereInv ==
    ASSUME Inv, InsertHere
    PROVE  Inv' /\ UNCHANGED <<file, fileLen, tables, stored>>
<1> DEFINE p == call.page
           t == call.tuple
           pg == Inserted(hp, t)
           old == RowsOn(hp)
           c == [Changed(call) EXCEPT !.rid = RID(p, num_slots(hp))]
<1>1. call.at = "use" /\ call.op = "insert" /\ Fits(hp, t) /\ Leaving(pg, c)
      /\ call' = [c EXCEPT !.at = "unpin"]
  BY DEF InsertHere, Using, Leaving
<1>2. t \in Tuples /\ call.table \in tables /\ p \in {call.table, Overflow} /\ call.then = "return"
  BY <1>1 DEF Inv, CallSubject, CallShape
<1>3. /\ p \in PageIds /\ Sound(hp) /\ Opened(hp) = hp
      /\ IF p < fileLen THEN old = RowsOn(file[p]) ELSE p = Overflow /\ Stale(old)
  BY <1>1, AtUse
<1>4. Sound(pg) /\ RowsOn(pg) = Append(old, t) /\ num_slots(hp) = Len(old) /\ old \in Seq(Row)
  BY <1>1, <1>2, <1>3, InsertedIsSound, SoundPage
<1>5. /\ DOMAIN call' = CallFields /\ call'.at = "unpin" /\ call'.op = "insert"
      /\ call'.page = p /\ call'.table = call.table /\ call'.rid = RID(p, num_slots(hp))
      /\ call'.tuple = t /\ call'.dirty = TRUE /\ call'.then = "return"
  BY <1>1, <1>2 DEF Inv, CallShape, CallFields, Changed
<1> HIDE DEF p, t, pg, old, c
<1>6. /\ PoolTypes' /\ PoolShape'
      /\ FilePages' /\ FramePages' /\ FreshIdsAreUnheard' /\ KnownRows' /\ KnownTables'
      /\ frames'[frameTable'[p]].data = pg
      /\ UNCHANGED <<file, fileLen, tables, stored>>
  BY <1>1, <1>4, <1>5, LeavingInv DEF p
<1>7. CallShape'
  BY <1>3, <1>5, ShapeOfChange
<1>8. CallSubject'
  BY <1>2, <1>5, <1>6 DEF CallSubject, OnRow, p, t
<1>9. ChangeIsOne'
  <2>1. PICK rs \in Seq(Row) : rs = old
    BY <1>4
  <2>2. IF p < fileLen' THEN rs = RowsOn(file'[p]) ELSE p = Overflow /\ Stale(rs)'
    BY <1>3, <1>6, <2>1 DEF Stale
  <2>3. RowsOn(InFrame(call.page)') = Append(rs, call'.tuple)
        /\ call'.rid = RID(p, Len(rs))
    BY <1>4, <1>5, <1>6, <2>1 DEF InFrame
  <2>4. call'.op = "insert" /\ call'.page = p
    BY <1>5
  <2> QED BY <2>2, <2>3, <2>4 DEF ChangeIsOne
<1>10. ReadsReturnStored'
  BY <1>5 DEF ReadsReturnStored
<1> QED BY <1>6, <1>7, <1>8, <1>9, <1>10 DEF Inv

LEMMA PassOnInv ==
    ASSUME Inv, PassOn
    PROVE  Inv' /\ UNCHANGED <<file, fileLen, tables, stored>>
<1>1. /\ call.at = "use" /\ Leaving(hp, [call EXCEPT !.then = "next"])
      /\ call.op = "insert" \/ (call.op \in OnRow /\ call.rid.page_id # call.page)
  BY DEF PassOn, Using, Found, OnRow
<1>2. Sound(hp) /\ call.page \in PageIds
  BY <1>1, AtUse
<1>3. call' = [[call EXCEPT !.then = "next"] EXCEPT !.at = "unpin"]
  BY <1>1 DEF Leaving
<1>4. /\ DOMAIN call' = CallFields /\ call'.at = "unpin" /\ call'.op = call.op
      /\ call'.page = call.page /\ call'.table = call.table /\ call'.rid = call.rid
      /\ call'.tuple = call.tuple /\ call'.dirty = call.dirty /\ call'.then = "next"
      /\ ~call.dirty
  BY <1>1, <1>3 DEF Inv, CallShape, CallFields
<1>5. /\ PoolTypes' /\ PoolShape'
      /\ FilePages' /\ FramePages' /\ FreshIdsAreUnheard' /\ KnownRows' /\ KnownTables'
      /\ UNCHANGED <<file, fileLen, tables, stored>>
  BY <1>1, <1>2, <1>4, LeavingInv
<1>6. CallShape'
  BY <1>1, <1>2, <1>4 DEF Inv, CallShape, Idle, OnRow
<1>7. CallSubject'
  BY <1>1, <1>4, <1>5 DEF Inv, CallSubject, OnRow, GrowsInPlace
<1>8. ChangeIsOne' /\ ReadsReturnStored'
  BY <1>4 DEF ChangeIsOne, ReadsReturnStored
<1> QED BY <1>5, <1>6, <1>7, <1>8 DEF Inv

LEMMA GetHereInv ==
    ASSUME Inv, GetHere
    PROVE  Inv' /\ UNCHANGED <<file, fileLen, tables, stored>>
<1> DEFINE t == getTuple(hp, call.rid.slot_id)
<1>1. /\ call.at = "use" /\ Leaving(hp, [call EXCEPT !.tuple = t])
      /\ call.op = "get" /\ call.rid.page_id = call.page
  BY DEF GetHere, Using, Found
<1>2. Sound(hp) /\ call.page \in PageIds
  BY <1>1, AtUse
<1>3. t = stored[call.rid]
  BY <1>1, AtRow DEF OnRow
<1>4. call' = [[call EXCEPT !.tuple = t] EXCEPT !.at = "unpin"]
  BY <1>1 DEF Leaving
<1> HIDE DEF t
<1>5. /\ DOMAIN call' = CallFields /\ call'.at = "unpin" /\ call'.op = "get"
      /\ call'.page = call.page /\ call'.table = call.table /\ call'.rid = call.rid
      /\ call'.tuple = t /\ call'.dirty = call.dirty /\ call'.then = "return"
      /\ ~call.dirty
  BY <1>1, <1>4 DEF Inv, CallShape, CallFields
<1>6. /\ PoolTypes' /\ PoolShape'
      /\ FilePages' /\ FramePages' /\ FreshIdsAreUnheard' /\ KnownRows' /\ KnownTables'
      /\ UNCHANGED <<file, fileLen, tables, stored>>
  BY <1>1, <1>2, <1>5, LeavingInv
<1>7. CallShape'
  BY <1>1, <1>2, <1>5 DEF Inv, CallShape, Idle, OnRow
<1>8. CallSubject'
  BY <1>1, <1>5, <1>6 DEF Inv, CallSubject, OnRow
<1>9. ChangeIsOne' /\ ReadsReturnStored'
  BY <1>3, <1>5, <1>6 DEF ChangeIsOne, ReadsReturnStored
<1> QED BY <1>6, <1>7, <1>8, <1>9 DEF Inv

\* The RIDs that were handed out in the first page of a table are its slots, so
\* their number is that of the slots.
LEMMA RidsAreSlots ==
    ASSUME Inv, NEW p \in tables
    PROVE  LET first == {rid \in DOMAIN stored : rid.page_id = p}
           IN  [i \in 1..Cardinality(first) |-> stored[RID(p, i - 1)]] = RowsOn(file[p])
<1> DEFINE first == {rid \in DOMAIN stored : rid.page_id = p}
           n == num_slots(file[p])
           ridOf == [i \in 1..n |-> RID(p, i - 1)]
<1>1. p \in PageIds /\ \A i \in 0..(n - 1) : RID(p, i) \in DOMAIN stored
  BY Numbers DEF Inv, KnownTables, PoolTypes
<1>2. Sound(file[p])
  BY <1>1 DEF Inv, FilePages
<1>3. n \in Nat /\ RowsOn(file[p]) \in Seq(Row) /\ DOMAIN RowsOn(file[p]) = 1..n
  BY <1>2, SoundPage
<1>4. \A i \in 1..n : ridOf[i] = RID(p, i - 1) /\ ridOf[i] \in first
  BY <1>1, <1>3 DEF RID
<1>5. \A rid \in first : /\ rid = RID(p, rid.slot_id) /\ rid.slot_id \in 0..(n - 1)
                         /\ RowsOn(file[p])[rid.slot_id + 1] = stored[rid]
  BY DEF Inv, KnownRows
<1>6. ridOf \in Bijection(1..n, first)
  <2>1. ridOf \in [1..n -> first]
    BY <1>4
  <2>2. \A i, j \in 1..n : ridOf[i] = ridOf[j] => i = j
    BY <1>3, <1>4 DEF RID
  <2>3. \A rid \in first : \E i \in 1..n : ridOf[i] = rid
    <3> SUFFICES ASSUME NEW rid \in first PROVE \E i \in 1..n : ridOf[i] = rid
      OBVIOUS
    <3>1. rid.slot_id + 1 \in 1..n /\ (rid.slot_id + 1) - 1 = rid.slot_id
      BY <1>3, <1>5
    <3> QED BY <1>4, <1>5, <3>1
  <2> HIDE DEF ridOf, first
  <2> QED BY <2>1, <2>2, <2>3 DEF Bijection, Injection, Surjection, IsInjective
<1>7. Cardinality(first) = n
  <2>1. ExistsBijection(1..n, first)
    BY <1>6, Zenon DEF ExistsBijection
  <2>2. IsFiniteSet(1..n) /\ Cardinality(1..n) = n
    BY <1>3, FS_Interval
  <2> HIDE DEF first, n
  <2> QED BY <2>1, <2>2, FS_Bijection
<1>8. ASSUME NEW i \in 1..n PROVE stored[RID(p, i - 1)] = RowsOn(file[p])[i]
  <2>1. RID(p, i - 1) \in first /\ RID(p, i - 1).slot_id = i - 1 /\ (i - 1) + 1 = i
    BY <1>3, <1>4 DEF RID
  <2> QED BY <1>5, <2>1
<1> HIDE DEF first, n
<1>9. RowsOn(file[p]) = [i \in 1..n |-> RowsOn(file[p])[i]]
  BY <1>3
<1> QED BY <1>7, <1>8, <1>9 DEF first

LEMMA ScanHereInv ==
    ASSUME Inv, ScanHere
    PROVE  Inv' /\ UNCHANGED <<file, fileLen, tables, stored>>
<1> DEFINE t == Scanned(hp)
<1>1. /\ call.at = "use" /\ Leaving(hp, [call EXCEPT !.tuple = t]) /\ call.op = "scan"
  BY DEF ScanHere, Using
<1>2. Sound(hp) /\ call.page \in PageIds /\ call.page < fileLen /\ RowsOn(hp) = RowsOn(file[call.page])
  BY <1>1, AtUse
<1>3. call.table \in tables /\ call.page = call.table
  BY <1>1 DEF Inv, CallSubject
<1>4. call' = [[call EXCEPT !.tuple = t] EXCEPT !.at = "unpin"]
  BY <1>1 DEF Leaving
<1>5. t = NotEmpty(RowsOn(hp))
  BY DEF Scanned
<1> HIDE DEF t
<1>6. /\ DOMAIN call' = CallFields /\ call'.at = "unpin" /\ call'.op = "scan"
      /\ call'.page = call.page /\ call'.table = call.table /\ call'.rid = call.rid
      /\ call'.tuple = t /\ call'.dirty = call.dirty /\ call'.then = "return"
      /\ ~call.dirty
  BY <1>1, <1>4 DEF Inv, CallShape, CallFields
<1>7. /\ PoolTypes' /\ PoolShape'
      /\ FilePages' /\ FramePages' /\ FreshIdsAreUnheard' /\ KnownRows' /\ KnownTables'
      /\ UNCHANGED <<file, fileLen, tables, stored>>
  BY <1>1, <1>2, <1>6, LeavingInv
<1>8. CallShape'
  BY <1>1, <1>2, <1>6 DEF Inv, CallShape, Idle, OnRow
<1>9. CallSubject'
  BY <1>1, <1>6, <1>7 DEF Inv, CallSubject, OnRow
<1>10. ChangeIsOne'
  BY <1>6 DEF ChangeIsOne
<1>11. ReadsReturnStored'
  <2> DEFINE first == {rid \in DOMAIN stored : rid.page_id = call.table}
             rows == [i \in 1..Cardinality(first) |-> stored[RID(call.table, i - 1)]]
  <2>1. rows = RowsOn(hp)
    BY <1>2, <1>3, RidsAreSlots
  <2>2. t = NotEmpty(rows)
    BY <1>5, <2>1
  <2> QED BY <1>6, <1>7, <2>2 DEF ReadsReturnStored
<1> QED BY <1>7, <1>8, <1>9, <1>10, <1>11 DEF Inv

LEMMA DeleteHereInv ==
    ASSUME Inv, DeleteHere
    PROVE  Inv' /\ UNCHANGED <<file, fileLen, tables, stored>>
<1> DEFINE p == call.page
           i == call.rid.slot_id
           pg == applyDelete(hp, i)
<1>1. /\ call.at = "use" /\ call.op = "delete" /\ call.rid.page_id = p
      /\ Leaving(pg, Changed(call)) /\ call' = [Changed(call) EXCEPT !.at = "unpin"]
  BY DEF DeleteHere, Using, Found, Leaving
<1>2. /\ p \in PageIds /\ Sound(InFrame(p)) /\ hp = Opened(InFrame(p))
      /\ p < fileLen /\ RowsOn(InFrame(p)) = RowsOn(file[p])
      /\ i \in 0..(num_slots(InFrame(p)) - 1)
  BY <1>1, AtUse, AtRow DEF OnRow
<1>3. Sound(pg) /\ RowsOn(pg) = [RowsOn(file[p]) EXCEPT ![i + 1] = <<>>]
  BY <1>2, DeletedIsSound
<1>4. /\ DOMAIN call' = CallFields /\ call'.at = "unpin" /\ call'.op = "delete"
      /\ call'.page = p /\ call'.table = call.table /\ call'.rid = call.rid
      /\ call'.tuple = call.tuple /\ call'.dirty = TRUE /\ call'.then = "return"
  BY <1>1 DEF Inv, CallShape, CallFields, Changed
<1> HIDE DEF p, pg, i
<1>5. /\ PoolTypes' /\ PoolShape'
      /\ FilePages' /\ FramePages' /\ FreshIdsAreUnheard' /\ KnownRows' /\ KnownTables'
      /\ frames'[frameTable'[p]].data = pg
      /\ UNCHANGED <<file, fileLen, tables, stored>>
  BY <1>1, <1>3, <1>4, LeavingInv DEF p
<1>6. CallShape'
  BY <1>2, <1>4, ShapeOfChange
<1>7. CallSubject'
  BY <1>1, <1>4, <1>5 DEF Inv, CallSubject, OnRow, p
<1>8. ChangeIsOne'
  BY <1>3, <1>4, <1>5 DEF ChangeIsOne, InFrame, StoredBy, i
<1>9. ReadsReturnStored'
  BY <1>4 DEF ReadsReturnStored
<1> QED BY <1>5, <1>6, <1>7, <1>8, <1>9 DEF Inv

\* As the callers edit, a tuple that is changed in place does not become larger.
LEMMA EditHereInv ==
    ASSUME Inv, EditHere
    PROVE  Inv' /\ UNCHANGED <<file, fileLen, tables, stored>>
<1> DEFINE p == call.page
           i == call.rid.slot_id
           t == call.tuple
           pg == changeTuple(hp, i, t)
<1>1. /\ call.at = "use" /\ call.op = "edit" /\ call.rid.page_id = p
      /\ Changeable(hp, i, t)
      /\ Leaving(pg, Changed(call)) /\ call' = [Changed(call) EXCEPT !.at = "unpin"]
  BY DEF EditHere, Using, Found, Leaving
<1>2. /\ p \in PageIds /\ Sound(InFrame(p)) /\ hp = Opened(InFrame(p))
      /\ p < fileLen /\ RowsOn(InFrame(p)) = RowsOn(file[p]) /\ hp = file[p]
      /\ i \in 0..(num_slots(InFrame(p)) - 1)
  BY <1>1, AtUse, AtRow DEF OnRow
<1>3. t \in Tuples /\ ~GrowsInPlace(call.rid, t) /\ call.then = "return"
  BY <1>1 DEF Inv, CallSubject, CallShape
<1>4. ~(SizeDiff(hp, i, t) > 0)
  BY <1>1, <1>2, <1>3 DEF GrowsInPlace
<1>5. Sound(pg) /\ RowsOn(pg) = [RowsOn(file[p]) EXCEPT ![i + 1] = t]
  <2> DEFINE d == InFrame(p)
  <2>1. ~(SizeDiff(Opened(d), i, t) > 0) /\ Sound(d) /\ i \in 0..(num_slots(d) - 1)
    BY <1>2, <1>4
  <2> HIDE DEF d, i, t, p
  <2>2. /\ Sound(changeTuple(Opened(d), i, t))
        /\ RowsOn(changeTuple(Opened(d), i, t)) = [RowsOn(d) EXCEPT ![i + 1] = t]
    BY <1>3, <2>1, RewrittenIsSound
  <2>3. Opened(d) = hp /\ RowsOn(d) = RowsOn(file[p])
    BY <1>2 DEF d
  <2> QED BY <2>2, <2>3
<1>6. /\ DOMAIN call' = CallFields /\ call'.at = "unpin" /\ call'.op = "edit"
      /\ call'.page = p /\ call'.table = call.table /\ call'.rid = call.rid
      /\ call'.tuple = t /\ call'.dirty = TRUE /\ call'.then = "return"
  BY <1>1, <1>3 DEF Inv, CallShape, CallFields, Changed
<1> HIDE DEF p, pg, i, t
<1>7. /\ PoolTypes' /\ PoolShape'
      /\ FilePages' /\ FramePages' /\ FreshIdsAreUnheard' /\ KnownRows' /\ KnownTables'
      /\ frames'[frameTable'[p]].data = pg
      /\ UNCHANGED <<file, fileLen, tables, stored>>
  BY <1>1, <1>5, <1>6, LeavingInv DEF p
<1>8. CallShape'
  BY <1>2, <1>6, ShapeOfChange
<1>9. CallSubject'
  BY <1>1, <1>3, <1>6, <1>7 DEF Inv, CallSubject, OnRow, p
<1>10. ChangeIsOne'
  BY <1>5, <1>6, <1>7 DEF ChangeIsOne, InFrame, StoredBy, i
<1>11. ReadsReturnStored'
  BY <1>6 DEF ReadsReturnStored
<1> QED BY <1>7, <1>8, <1>9, <1>10, <1>11 DEF Inv

LEMMA EditMovesInv ==
    ASSUME Inv, EditMoves
    PROVE  Inv' /\ UNCHANGED <<file, fileLen, tables, stored>>
<1> DEFINE p == call.page
           i == call.rid.slot_id
           pg == applyDelete(hp, i)
           c == [Changed(call) EXCEPT !.then = "reinsert"]
<1>1. /\ call.at = "use" /\ call.op = "edit" /\ call.rid.page_id = p
      /\ Leaving(pg, c) /\ call' = [c EXCEPT !.at = "unpin"]
  BY DEF EditMoves, Using, Found, Leaving
<1>2. /\ p \in PageIds /\ Sound(InFrame(p)) /\ hp = Opened(InFrame(p))
      /\ p < fileLen /\ RowsOn(InFrame(p)) = RowsOn(file[p])
      /\ i \in 0..(num_slots(InFrame(p)) - 1)
  BY <1>1, AtUse, AtRow DEF OnRow
<1>3. Sound(pg) /\ RowsOn(pg) = [RowsOn(file[p]) EXCEPT ![i + 1] = <<>>]
  BY <1>2, DeletedIsSound
<1>4. /\ DOMAIN call' = CallFields /\ call'.at = "unpin" /\ call'.op = "edit"
      /\ call'.page = p /\ call'.table = call.table /\ call'.rid = call.rid
      /\ call'.tuple = call.tuple /\ call'.dirty = TRUE /\ call'.then = "reinsert"
  BY <1>1 DEF Inv, CallShape, CallFields, Changed
<1> HIDE DEF p, pg, i, c
<1>5. /\ PoolTypes' /\ PoolShape'
      /\ FilePages' /\ FramePages' /\ FreshIdsAreUnheard' /\ KnownRows' /\ KnownTables'
      /\ frames'[frameTable'[p]].data = pg
      /\ UNCHANGED <<file, fileLen, tables, stored>>
  BY <1>1, <1>3, <1>4, LeavingInv DEF p
<1>6. CallShape'
  BY <1>2, <1>4, ShapeOfChange
<1>7. CallSubject'
  BY <1>1, <1>4, <1>5 DEF Inv, CallSubject, OnRow, p
<1>8. ChangeIsOne'
  BY <1>3, <1>4, <1>5 DEF ChangeIsOne, InFrame, StoredBy, i
<1>9. ReadsReturnStored'
  BY <1>4 DEF ReadsReturnStored
<1> QED BY <1>5, <1>6, <1>7, <1>8, <1>9 DEF Inv

LEMMA UnpinInv ==
    ASSUME Inv, Unpin
    PROVE  Inv' /\ UNCHANGED <<file, fileLen, tables, stored>>
<1> DEFINE p == call.page
<1>1. call.at = "unpin" /\ Pool!UnpinPage(Main, call.dirty) /\ UNCHANGED <<tables, stored>>
      /\ call' = IF call.dirty THEN [call EXCEPT !.at = "flush"]
                 ELSE IF call.then = "next" THEN NextPage(call) ELSE Idle
  BY DEF Unpin
<1>2. /\ PoolTypes /\ PoolShape /\ DOMAIN call = CallFields /\ call.dirty \in BOOLEAN
      /\ call # Idle /\ p \in PageIds
  BY <1>1, PageOfCall DEF Inv, CallShape
<1>3. ~Busy' /\ (call.dirty => call'.dirty)
      /\ (call.dirty \/ call'.at = "flush" => call'.page = p)
  BY <1>1, <1>2 DEF Busy, CallFields, NextPage, Idle
<1>4. /\ PoolTypes' /\ PoolShape'
      /\ \A f \in Frames : frames'[f].data = frames[f].data
      /\ UNCHANGED <<frameTable, file, fileLen, nextPageId>>
  BY <1>1, <1>2, <1>3, UnpinKeep
<1> HIDE DEF p
<1>5. FilePages' /\ KnownRows' /\ KnownTables'
  BY <1>1, <1>4, FileStays
<1>6. FreshIdsAreUnheard'
  BY <1>1, <1>4 DEF Inv, FreshIdsAreUnheard, Unheard, Resident
<1>7. \A q \in PageIds : Resident(q) => frames'[frameTable[q]].data = InFrame(q)
  BY <1>2, <1>4 DEF PoolTypes, Resident, InFrame
<1>8. /\ \A f \in Frames : Sound(frames'[f].data)
      /\ \A q \in PageIds : Resident(q) /\ ~(call.dirty /\ q = p) =>
           IF q < fileLen THEN Opened(InFrame(q)) = Opened(file[q])
           ELSE q = p /\ q = Overflow /\ call.op = "insert" /\ Stale(RowsOn(InFrame(q)))
  BY <1>4 DEF Inv, FramePages, p
<1>9. CASE call.dirty
  <2>1. /\ DOMAIN call' = CallFields /\ call'.at = "flush" /\ call'.op = call.op
        /\ call'.page = p /\ call'.table = call.table /\ call'.rid = call.rid
        /\ call'.tuple = call.tuple /\ call'.dirty = call.dirty /\ call'.then = call.then
    BY <1>1, <1>2, <1>9 DEF CallFields, p
  <2>2. FramePages'
    BY <1>4, <1>7, <1>8, <2>1 DEF FramePages, Resident, InFrame, Stale
  <2>3. CallShape'
    BY <1>2, <1>9, <2>1 DEF Inv, CallShape, Idle, OnRow, p
  <2>4. CallSubject'
    BY <1>1, <1>4, <1>9, <2>1 DEF Inv, CallSubject, p
  <2>5. ChangeIsOne'
    <3>1. frames'[frameTable[p]].data = InFrame(p)
      BY <1>1, <1>2, <1>7 DEF PoolShape, Busy, p
    <3>2. StoredBy(call)' = StoredBy(call) /\ \A old : Stale(old) => Stale(old)'
      BY <1>4, <2>1 DEF StoredBy, Stale
    <3>3. InFrame(call.page)' = InFrame(p)
      BY <1>4, <2>1, <3>1 DEF InFrame
    <3>4. /\ call.op = "create" => InFrame(p) = ZeroPage /\ p # Overflow /\ Unheard(p)
          /\ call.op = "insert" =>
               \E old \in Seq(Row) :
                 /\ IF p < fileLen THEN old = RowsOn(file[p])
                    ELSE p = Overflow /\ Stale(old)
                 /\ RowsOn(InFrame(p)) = Append(old, call.tuple)
                 /\ call.rid = RID(p, Len(old))
          /\ call.op \in {"delete", "edit"} =>
               RowsOn(InFrame(p)) =
                 [RowsOn(file[p]) EXCEPT ![call.rid.slot_id + 1] = StoredBy(call)]
      BY <1>9 DEF Inv, ChangeIsOne, p
    <3>5. call.op = "create" =>
            InFrame(call.page)' = ZeroPage /\ p # Overflow /\ Unheard(call.page)'
      BY <1>1, <1>4, <2>1, <3>3, <3>4 DEF Unheard
    <3>6. ASSUME call.op = "insert"
          PROVE  \E old \in Seq(Row) :
                   /\ IF p < fileLen' THEN old = RowsOn(file'[p])
                      ELSE p = Overflow /\ Stale(old)'
                   /\ RowsOn(InFrame(call.page)') = Append(old, call'.tuple)
                   /\ call'.rid = RID(p, Len(old))
      <4>1. PICK old \in Seq(Row) :
              /\ IF p < fileLen THEN old = RowsOn(file[p])
                 ELSE p = Overflow /\ Stale(old)
              /\ RowsOn(InFrame(p)) = Append(old, call.tuple)
              /\ call.rid = RID(p, Len(old))
        BY <3>4, <3>6
      <4>2. IF p < fileLen' THEN old = RowsOn(file'[p]) ELSE p = Overflow /\ Stale(old)'
        BY <1>4, <3>2, <4>1
      <4> QED BY <2>1, <3>3, <4>1, <4>2
    <3>7. call.op \in {"delete", "edit"} =>
            RowsOn(InFrame(call.page)') =
              [RowsOn(file'[p]) EXCEPT ![call'.rid.slot_id + 1] = StoredBy(call)']
      BY <1>4, <2>1, <3>2, <3>3, <3>4
    <3> QED BY <2>1, <3>5, <3>6, <3>7 DEF ChangeIsOne
  <2>6. ReadsReturnStored'
    BY <2>1 DEF ReadsReturnStored
  <2> QED BY <1>1, <1>4, <1>5, <1>6, <2>2, <2>3, <2>4, <2>5, <2>6 DEF Inv
<1>10. CASE ~call.dirty /\ call.then = "next"
  <2>1. /\ DOMAIN call' = CallFields /\ call'.at = "fetch" /\ call'.op = call.op
        /\ call'.page = Overflow /\ call'.table = call.table /\ call'.rid = call.rid
        /\ call'.tuple = call.tuple /\ call'.dirty = FALSE /\ call'.then = "return"
    BY <1>1, <1>2, <1>10 DEF CallFields, NextPage
  <2>2. FramePages'
    BY <1>4, <1>7, <1>8, <1>10, <2>1 DEF FramePages, Resident, InFrame, Stale
  <2>3. CallShape'
    <3>1. call.op \in {"insert"} \cup OnRow
      BY <1>10 DEF Inv, CallShape
    <3> QED BY <2>1, <3>1, Numbers, ShapeOfStart
  <2>4. CallSubject'
    BY <1>1, <1>4, <1>10, <2>1 DEF Inv, CallSubject, CallShape, OnRow, GrowsInPlace
  <2>5. ChangeIsOne' /\ ReadsReturnStored'
    BY <2>1 DEF ChangeIsOne, ReadsReturnStored
  <2> QED BY <1>1, <1>4, <1>5, <1>6, <2>2, <2>3, <2>4, <2>5 DEF Inv
<1>11. CASE ~call.dirty /\ call.then # "next"
  <2>1. call.op # "insert"
    BY <1>1, <1>11 DEF Inv, CallShape
  <2>2. call' = Idle /\ ~Idle.dirty /\ Idle.op = "none" /\ Idle.at = "none"
    BY <1>1, <1>11 DEF Idle
  <2>3. FramePages'
    BY <1>4, <1>7, <1>8, <1>11, <2>1, <2>2 DEF FramePages, Resident, InFrame, Stale
  <2>4. CallShape' /\ CallSubject'
    BY <2>2 DEF CallShape, CallSubject, Idle, Operations, CallFields, OnRow
  <2>5. ChangeIsOne' /\ ReadsReturnStored'
    BY <2>2 DEF ChangeIsOne, ReadsReturnStored
  <2> QED BY <1>1, <1>4, <1>5, <1>6, <2>3, <2>4, <2>5 DEF Inv
<1>12. Inv'
  BY <1>2, <1>9, <1>10, <1>11
<1> QED BY <1>1, <1>4, <1>12

\* The changed page goes to the file; no other page of the file changes.
LEMMA FlushedFile ==
    ASSUME Inv, Flush
    PROVE  /\ call.page \in PageIds /\ call.dirty /\ call.op \in {"create", "insert", "delete", "edit"}
           /\ ~call'.dirty /\ ~Busy'
           /\ PoolTypes' /\ PoolShape'
           /\ \A f \in Frames : frames'[f].data = frames[f].data
           /\ UNCHANGED <<frameTable, nextPageId>>
           /\ Resident(call.page) /\ Sound(InFrame(call.page))
           /\ file'[call.page] = InFrame(call.page)
           /\ \A q \in PageIds : q # call.page => file'[q] = file[q]
           /\ fileLen \in Nat /\ fileLen' \in Nat
           /\ fileLen' >= fileLen /\ call.page < fileLen'
           /\ fileLen' = IF call.page < fileLen THEN fileLen ELSE call.page + 1
<1> DEFINE p == call.page
<1>1. call.at = "flush" /\ Pool!FlushPage(p)
      /\ call' = IF call.then = "reinsert" THEN Call("insert", call.table, NoRid, call.tuple)
                 ELSE Idle
  BY DEF Flush
<1>2. PoolTypes /\ PoolShape /\ call # Idle /\ p \in PageIds /\ call.dirty
      /\ call.op \in {"create", "insert", "delete", "edit"}
  BY <1>1, PageOfCall DEF Inv, CallShape
<1>3. ~call'.dirty /\ call'.at # "flush" /\ ~Busy'
  BY <1>1 DEF Call, Idle, Busy
<1>4. /\ PoolTypes' /\ PoolShape'
      /\ \A f \in Frames : frames'[f].data = frames[f].data
      /\ file' = [file EXCEPT ![p] = InFrame(p)]
      /\ fileLen' = IF p < fileLen THEN fileLen ELSE p + 1
      /\ UNCHANGED <<frameTable, nextPageId>>
  BY <1>1, <1>2, <1>3, FlushKeep
<1> HIDE DEF p
<1>5. Resident(p) /\ Sound(InFrame(p))
  BY <1>1, <1>2 DEF PoolShape, PoolTypes, Resident, InFrame, Inv, FramePages, p
<1>6. file'[p] = InFrame(p) /\ \A q \in PageIds : q # p => file'[q] = file[q]
  BY <1>2, <1>4 DEF PoolTypes
<1>7. fileLen \in Nat /\ fileLen' \in Nat /\ fileLen' >= fileLen /\ p < fileLen'
  BY <1>2, <1>4, Numbers DEF PoolTypes
<1> QED BY <1>2, <1>3, <1>4, <1>5, <1>6, <1>7 DEF p

\* The three calls that change the rows of a page, and the one that makes it.
LEMMA FlushCreate ==
    ASSUME Inv, Flush, call.op = "create"
    PROVE  /\ file'[call.page] = ZeroPage /\ file[call.page] = ZeroPage
           /\ call.page # Overflow /\ call.page \notin tables
           /\ \A rid \in DOMAIN stored : rid.page_id # call.page
           /\ tables' = tables \cup {call.page} /\ stored' = stored /\ call' = Idle
<1>1. InFrame(call.page) = ZeroPage /\ call.page # Overflow /\ Unheard(call.page)
  BY FlushedFile DEF Inv, ChangeIsOne
<1>2. call.then = "return"
  BY DEF Inv, CallShape
<1> QED BY <1>1, <1>2, FlushedFile DEF Flush, Unheard

LEMMA FlushInsert ==
    ASSUME Inv, Flush, call.op = "insert"
    PROVE  /\ tables' = tables /\ call' = Idle /\ call.tuple \in Tuples
           /\ \E old \in Seq(Row) :
                /\ IF call.page < fileLen THEN old = RowsOn(file[call.page])
                   ELSE call.page = Overflow /\ Stale(old)
                /\ RowsOn(file'[call.page]) = Append(old, call.tuple)
                /\ call.rid = RID(call.page, Len(old))
                /\ stored' = [rid \in DOMAIN stored \cup {call.rid} |->
                                IF rid = call.rid THEN call.tuple ELSE stored[rid]]
<1>1. call.dirty /\ file'[call.page] = InFrame(call.page)
  BY FlushedFile
<1>2. call.then = "return"
  BY <1>1 DEF Inv, CallShape
<1>3. StoredBy(call) = call.tuple
  BY <1>2 DEF StoredBy
<1>4. PICK old \in Seq(Row) :
        /\ IF call.page < fileLen THEN old = RowsOn(file[call.page])
           ELSE call.page = Overflow /\ Stale(old)
        /\ RowsOn(InFrame(call.page)) = Append(old, call.tuple)
        /\ call.rid = RID(call.page, Len(old))
  BY <1>1 DEF Inv, ChangeIsOne
<1>5. tables' = tables /\ call' = Idle
      /\ stored' = [rid \in DOMAIN stored \cup {call.rid} |->
                      IF rid = call.rid THEN call.tuple ELSE stored[rid]]
  BY <1>2, <1>3 DEF Flush
<1>6. call.tuple \in Tuples
  BY DEF Inv, CallSubject
<1> QED BY <1>1, <1>4, <1>5, <1>6

LEMMA FlushRow ==
    ASSUME Inv, Flush, call.op \in {"delete", "edit"}
    PROVE  /\ tables' = tables /\ call.page < fileLen /\ StoredBy(call) \in Row
           /\ call.rid \in DOMAIN stored /\ call.rid.page_id = call.page
           /\ call.rid = RID(call.page, call.rid.slot_id)
           /\ call.rid.slot_id \in 0..(num_slots(file[call.page]) - 1)
           /\ RowsOn(file'[call.page]) =
                [RowsOn(file[call.page]) EXCEPT ![call.rid.slot_id + 1] = StoredBy(call)]
           /\ stored' = [rid \in DOMAIN stored |->
                           IF rid = call.rid THEN StoredBy(call) ELSE stored[rid]]
<1>1. call.dirty /\ file'[call.page] = InFrame(call.page)
  BY FlushedFile
<1>2. call.rid \in DOMAIN stored /\ call.rid.page_id = call.page
  BY <1>1 DEF Inv, CallSubject, OnRow
<1>3. /\ call.rid = RID(call.page, call.rid.slot_id) /\ call.page \in 0..(fileLen - 1)
      /\ call.rid.slot_id \in 0..(num_slots(file[call.page]) - 1)
  BY <1>2 DEF Inv, KnownRows
<1>4. call.page < fileLen
  BY <1>3, FlushedFile
<1>5. RowsOn(file'[call.page]) =
        [RowsOn(file[call.page]) EXCEPT ![call.rid.slot_id + 1] = StoredBy(call)]
  BY <1>1 DEF Inv, ChangeIsOne
<1>6. StoredBy(call) \in Row
  BY DEF StoredBy, Row, Inv, CallSubject
<1>7. DOMAIN stored \cup {call.rid} = DOMAIN stored
  BY <1>2
<1>8. tables' = tables
      /\ stored' = [rid \in DOMAIN stored |->
                      IF rid = call.rid THEN StoredBy(call) ELSE stored[rid]]
  BY <1>7 DEF Flush
<1> QED BY <1>2, <1>3, <1>4, <1>5, <1>6, <1>8

LEMMA Widened ==
    ASSUME NEW a \in Nat, NEW b \in Nat, b >= a, NEW k \in 0..(a - 1)
    PROVE  k \in 0..(b - 1)
OBVIOUS

LEMMA FlushedKnown ==
    ASSUME Inv, Flush
    PROVE  KnownRows' /\ KnownTables'
<1> DEFINE p == call.page
           i == call.rid.slot_id
           n == num_slots(file[p])
           n2 == num_slots(file'[p])
<1>1. /\ p \in PageIds /\ call.op \in {"create", "insert", "delete", "edit"}
      /\ file'[p] = InFrame(p) /\ Sound(InFrame(p))
      /\ \A q \in PageIds : q # p => file'[q] = file[q]
      /\ fileLen \in Nat /\ fileLen' \in Nat /\ fileLen' >= fileLen /\ p < fileLen'
  BY FlushedFile
<1>2. /\ Sound(file[p]) /\ Sound(file'[p])
      /\ \A q \in PageIds : q \in Nat
      /\ 0..(fileLen - 1) \subseteq PageIds
  BY <1>1, Numbers DEF Inv, FilePages, PoolTypes
<1>3. /\ n \in Nat /\ n = Len(RowsOn(file[p])) /\ RowsOn(file[p]) \in Seq(Row)
      /\ n2 \in Nat /\ n2 = Len(RowsOn(file'[p])) /\ RowsOn(file'[p]) \in Seq(Row)
  BY <1>2, SoundPage
<1>4. /\ stored = [rid \in DOMAIN stored |-> stored[rid]]
      /\ \A rid \in DOMAIN stored :
           /\ rid = RID(rid.page_id, rid.slot_id) /\ rid.page_id \in 0..(fileLen - 1)
           /\ rid.slot_id \in 0..(num_slots(file[rid.page_id]) - 1)
           /\ RowsOn(file[rid.page_id])[rid.slot_id + 1] = stored[rid]
  BY DEF Inv, KnownRows
<1>5. \A q \in tables :
        /\ q \in 0..(fileLen - 1) /\ q # Overflow
        /\ \A k \in 0..(num_slots(file[q]) - 1) : RID(q, k) \in DOMAIN stored
  BY DEF Inv, KnownTables
\* A page that is in the file stays there, and so do the other pages' rows.
<1>6. \A q \in 0..(fileLen - 1) : q \in 0..(fileLen' - 1) /\ (q # p => file'[q] = file[q])
  <2> SUFFICES ASSUME NEW q \in 0..(fileLen - 1)
               PROVE  q \in 0..(fileLen' - 1) /\ (q # p => file'[q] = file[q])
    OBVIOUS
  <2>1. q \in PageIds
    BY <1>2
  <2>2. q \in 0..(fileLen' - 1)
    <3>1. fileLen \in Nat /\ fileLen' \in Nat /\ fileLen' >= fileLen
      BY <1>1
    <3> QED BY <3>1, Widened
  <2> QED BY <1>1, <2>1, <2>2
<1> HIDE DEF n, n2
<1>7. CASE call.op = "create"
  <2>1. /\ file'[p] = ZeroPage /\ p # Overflow /\ stored' = stored /\ tables' = tables \cup {p}
        /\ \A rid \in DOMAIN stored : rid.page_id # p
        /\ p \notin tables
    BY <1>7, FlushCreate
  <2>2. n2 = 0
    BY <2>1, Sizes DEF n2, num_slots, ZeroPage
  <2> HIDE DEF p
  <2>3. KnownRows'
    BY <1>4, <1>6, <2>1 DEF KnownRows
  <2>4. KnownTables'
    <3> SUFFICES ASSUME NEW q \in tables'
                 PROVE  /\ q \in 0..(fileLen' - 1) /\ q # Overflow
                        /\ \A k \in 0..(num_slots(file'[q]) - 1) : RID(q, k) \in DOMAIN stored
      BY <2>1 DEF KnownTables
    <3>1. CASE q = p
      <4>1. q \in 0..(fileLen' - 1)
        BY <1>1, <1>2, <3>1
      <4>2. 0..(num_slots(file'[q]) - 1) = {}
        BY <2>2, <3>1 DEF n2, p
      <4> QED BY <2>1, <3>1, <4>1, <4>2
    <3>2. CASE q # p
      BY <1>5, <1>6, <2>1, <3>2
    <3> QED BY <3>1, <3>2
  <2> QED BY <2>3, <2>4
<1>8. CASE call.op = "insert"
  <2>1. PICK old \in Seq(Row) :
          /\ IF p < fileLen THEN old = RowsOn(file[p]) ELSE p = Overflow /\ Stale(old)
          /\ RowsOn(file'[p]) = Append(old, call.tuple)
          /\ call.rid = RID(p, Len(old))
          /\ stored' = [rid \in DOMAIN stored \cup {call.rid} |->
                          IF rid = call.rid THEN call.tuple ELSE stored[rid]]
    BY <1>8, FlushInsert
  <2>2. tables' = tables /\ call.tuple \in Row
    BY <1>8, FlushInsert DEF Row
  <2> DEFINE m == Len(old)
             t == call.tuple
             new == call.rid
  <2>3. /\ m \in Nat /\ n2 = m + 1 /\ (p < fileLen => m = n)
        /\ \A k \in 1..m : RowsOn(file'[p])[k] = old[k]
        /\ RowsOn(file'[p])[m + 1] = t
    BY <1>3, <2>1, <2>2
  <2>4. new = RID(p, m) /\ new.page_id = p /\ new.slot_id = m
    BY <2>1 DEF RID
  <2>5. /\ DOMAIN stored' = DOMAIN stored \cup {new}
        /\ stored' = [rid \in DOMAIN stored' |-> stored'[rid]]
        /\ stored'[new] = t
        /\ \A rid \in DOMAIN stored : rid # new => stored'[rid] = stored[rid]
    BY <2>1
  <2> HIDE DEF p, m, t, new
  <2>6. KnownRows'
    <3> SUFFICES ASSUME NEW rid \in DOMAIN stored'
                 PROVE  /\ rid = RID(rid.page_id, rid.slot_id)
                        /\ rid.page_id \in 0..(fileLen' - 1)
                        /\ rid.slot_id \in 0..(num_slots(file'[rid.page_id]) - 1)
                        /\ RowsOn(file'[rid.page_id])[rid.slot_id + 1] = stored'[rid]
      BY <2>5 DEF KnownRows
    <3>1. CASE rid = new
      <4>1. num_slots(file'[rid.page_id]) = n2
        BY <2>4, <3>1 DEF n2, p
      <4>2. rid.page_id \in 0..(fileLen' - 1)
        BY <1>1, <1>2, <2>4, <3>1 DEF p
      <4>3. rid.slot_id \in 0..(n2 - 1)
        BY <2>3, <2>4, <3>1
      <4>4. rid = RID(p, m) /\ rid.page_id = p /\ rid.slot_id = m
        BY <2>4, <3>1
      <4>5. RowsOn(file'[rid.page_id])[rid.slot_id + 1] = stored'[rid]
        <5>1. stored'[rid] = t
          BY <2>5, <3>1
        <5> QED BY <2>3, <4>4, <5>1
      <4> QED BY <4>1, <4>2, <4>3, <4>4, <4>5
    <3>2. CASE rid # new /\ rid.page_id = p
      <4>1. /\ rid \in DOMAIN stored /\ rid = RID(p, rid.slot_id) /\ p \in 0..(fileLen - 1)
            /\ rid.slot_id \in 0..(n - 1) /\ RowsOn(file[p])[rid.slot_id + 1] = stored[rid]
        BY <1>4, <2>5, <3>2 DEF n, p
      <4>2. p < fileLen /\ m = n /\ old = RowsOn(file[p])
        BY <1>1, <2>1, <2>3, <4>1 DEF p
      <4>3. rid.slot_id + 1 \in 1..m /\ rid.slot_id \in 0..(n2 - 1)
        BY <1>3, <2>3, <4>1, <4>2
      <4>4. RowsOn(file'[p])[rid.slot_id + 1] = stored'[rid]
        BY <2>3, <2>5, <3>2, <4>1, <4>2, <4>3
      <4>5. p \in 0..(fileLen' - 1)
        BY <1>6, <4>1
      <4> QED BY <3>2, <4>1, <4>3, <4>4, <4>5 DEF n2, p
    <3>3. CASE rid # new /\ rid.page_id # p
      <4>1. rid \in DOMAIN stored
        BY <2>5, <3>3
      <4> QED BY <1>4, <1>6, <2>5, <3>3, <4>1
    <3> QED BY <3>1, <3>2, <3>3
  <2>7. KnownTables'
    <3> SUFFICES ASSUME NEW q \in tables
                 PROVE  /\ q \in 0..(fileLen' - 1) /\ q # Overflow
                        /\ \A k \in 0..(num_slots(file'[q]) - 1) : RID(q, k) \in DOMAIN stored'
      BY <2>2 DEF KnownTables
    <3>1. CASE q # p
      BY <1>5, <1>6, <2>5, <3>1
    <3>2. CASE q = p
      <4>1. p \in 0..(fileLen - 1) /\ \A k \in 0..(n - 1) : RID(p, k) \in DOMAIN stored
        BY <1>5, <3>2 DEF n, p
      <4>2. n2 = n + 1
        BY <1>1, <2>3, <4>1 DEF p
      <4>3. \A k \in 0..(n2 - 1) : k \in 0..(n - 1) \/ k = m
        BY <1>1, <1>3, <2>3, <4>1, <4>2 DEF p
      <4>4. \A k \in 0..(n2 - 1) : RID(p, k) \in DOMAIN stored'
        BY <2>4, <2>5, <4>1, <4>3
      <4> QED BY <1>5, <1>6, <3>2, <4>4 DEF n2, p
    <3> QED BY <3>1, <3>2
  <2> QED BY <2>6, <2>7
<1>9. CASE call.op \in {"delete", "edit"}
  <2> DEFINE old == RowsOn(file[p])
             t == StoredBy(call)
             r == call.rid
  <2>1. /\ tables' = tables /\ p < fileLen /\ t \in Row /\ r \in DOMAIN stored /\ r.page_id = p
        /\ r = RID(p, i) /\ i \in 0..(n - 1)
        /\ RowsOn(file'[p]) = [old EXCEPT ![i + 1] = t]
        /\ stored' = [rid \in DOMAIN stored |-> IF rid = r THEN t ELSE stored[rid]]
    BY <1>9, FlushRow DEF n
  <2> HIDE DEF t, r, p, i
  <2>2. /\ n2 = n /\ i + 1 \in 1..n
        /\ \A k \in 1..n : RowsOn(file'[p])[k] = IF k = i + 1 THEN t ELSE old[k]
    BY <1>3, <2>1
  <2>3. /\ DOMAIN stored' = DOMAIN stored
        /\ stored' = [rid \in DOMAIN stored' |-> stored'[rid]]
        /\ \A rid \in DOMAIN stored : stored'[rid] = IF rid = r THEN t ELSE stored[rid]
    BY <2>1
  <2> HIDE DEF old
  <2>4. KnownRows'
    <3> SUFFICES ASSUME NEW rid \in DOMAIN stored
                 PROVE  /\ rid = RID(rid.page_id, rid.slot_id)
                        /\ rid.page_id \in 0..(fileLen' - 1)
                        /\ rid.slot_id \in 0..(num_slots(file'[rid.page_id]) - 1)
                        /\ RowsOn(file'[rid.page_id])[rid.slot_id + 1] = stored'[rid]
      BY <2>3 DEF KnownRows
    <3>1. CASE rid.page_id = p
      <4>1. /\ rid = RID(p, rid.slot_id) /\ p \in 0..(fileLen - 1)
            /\ rid.slot_id \in 0..(n - 1) /\ old[rid.slot_id + 1] = stored[rid]
        BY <1>4, <3>1 DEF n, p, old
      <4>2. rid = r <=> rid.slot_id = i
        <5>1. r.slot_id = i
          BY DEF r, i
        <5> QED BY <2>1, <4>1, <5>1
      <4>3. rid.slot_id + 1 \in 1..n /\ (rid.slot_id + 1 = i + 1 <=> rid.slot_id = i)
        BY <1>3, <2>1, <4>1
      <4>4. RowsOn(file'[p])[rid.slot_id + 1] = stored'[rid]
        BY <2>2, <2>3, <4>1, <4>2, <4>3
      <4> QED BY <1>6, <2>2, <3>1, <4>1, <4>4 DEF n2, p
    <3>2. CASE rid.page_id # p
      <4>1. rid # r
        BY <2>1, <3>2
      <4> QED BY <1>4, <1>6, <2>3, <3>2, <4>1
    <3> QED BY <3>1, <3>2
  <2>5. KnownTables'
    <3> SUFFICES ASSUME NEW q \in tables
                 PROVE  /\ q \in 0..(fileLen' - 1) /\ q # Overflow
                        /\ \A k \in 0..(num_slots(file'[q]) - 1) : RID(q, k) \in DOMAIN stored
      BY <2>1, <2>3 DEF KnownTables
    <3>1. num_slots(file'[q]) = num_slots(file[q])
      BY <1>5, <1>6, <2>2 DEF n, n2, p
    <3> QED BY <1>5, <1>6, <3>1
  <2> QED BY <2>4, <2>5
<1> QED BY <1>1, <1>7, <1>8, <1>9

LEMMA FlushInv ==
    ASSUME Inv, Flush
    PROVE  Inv'
<1> DEFINE p == call.page
<1>1. /\ p \in PageIds /\ call.dirty /\ call.op \in {"create", "insert", "delete", "edit"}
      /\ ~call'.dirty /\ ~Busy' /\ PoolTypes' /\ PoolShape'
      /\ \A f \in Frames : frames'[f].data = frames[f].data
      /\ UNCHANGED <<frameTable, nextPageId>>
      /\ Resident(p) /\ Sound(InFrame(p))
      /\ file'[p] = InFrame(p)
      /\ \A q \in PageIds : q # p => file'[q] = file[q]
      /\ fileLen \in Nat /\ fileLen' \in Nat
      /\ fileLen' >= fileLen /\ p < fileLen'
  BY FlushedFile
<1>2. \/ call' = Idle
      \/ /\ call.op = "edit" /\ call' = Call("insert", call.table, NoRid, call.tuple)
         /\ call.table \in tables /\ call.tuple \in Tuples
  <2>1. call' = IF call.then = "reinsert" THEN Call("insert", call.table, NoRid, call.tuple)
                ELSE Idle
    BY DEF Flush
  <2> QED BY <2>1 DEF Inv, CallShape, CallSubject, OnRow
<1>3. tables \subseteq tables' /\ \A q \in tables' : q \in tables \cup {p}
  BY <1>1, FlushCreate, FlushInsert, FlushRow
<1>4. \A rid \in DOMAIN stored' : rid \in DOMAIN stored \/ rid.page_id = p
  <2>1. CASE call.op = "create"
    BY <2>1, FlushCreate
  <2>2. CASE call.op = "insert"
    <3>1. DOMAIN stored' = DOMAIN stored \cup {call.rid} /\ call.rid.page_id = p
      <4>1. PICK old \in Seq(Row) :
              /\ call.rid = RID(p, Len(old))
              /\ stored' = [rid \in DOMAIN stored \cup {call.rid} |->
                              IF rid = call.rid THEN call.tuple ELSE stored[rid]]
        BY <2>2, FlushInsert
      <4> QED BY <4>1 DEF RID
    <3> QED BY <3>1
  <2>3. CASE call.op \in {"delete", "edit"}
    BY <2>3, FlushRow
  <2> QED BY <1>1, <2>1, <2>2, <2>3
<1> HIDE DEF p
<1>5. FilePages'
  <2> SUFFICES ASSUME NEW q \in PageIds
               PROVE  Sound(file'[q]) /\ (q >= fileLen' => file'[q] = ZeroPage)
    BY DEF FilePages
  <2>1. q \in Nat /\ p \in Nat
    BY <1>1, Numbers
  <2> QED BY <1>1, <2>1 DEF Inv, FilePages
<1>6. FramePages'
  <2>1. \A f \in Frames : Sound(frames'[f].data)
    BY <1>1 DEF Inv, FramePages
  <2>2. ASSUME NEW q \in PageIds, Resident(q)
        PROVE  q < fileLen' /\ Opened(frames'[frameTable[q]].data) = Opened(file'[q])
    <3>1. frames'[frameTable[q]].data = InFrame(q)
      BY <1>1, <2>2 DEF Inv, PoolTypes, Resident, InFrame
    <3>2. q # p => q < fileLen /\ Opened(InFrame(q)) = Opened(file[q])
      BY <2>2 DEF Inv, FramePages, p
    <3>3. q \in Nat
      BY Numbers
    <3> QED BY <1>1, <3>1, <3>2, <3>3
  <2> QED BY <1>1, <2>1, <2>2 DEF FramePages, Resident, InFrame
<1>7. KnownRows' /\ KnownTables'
  BY FlushedKnown
<1>8. FreshIdsAreUnheard'
  <2> SUFFICES ASSUME NEW q \in PageIds, q >= nextPageId, q # Overflow
               PROVE  ~Resident(q)' /\ Unheard(q)'
    BY <1>1 DEF FreshIdsAreUnheard
  <2>1. ~Resident(q) /\ Unheard(q)
    BY DEF Inv, FreshIdsAreUnheard
  <2>2. q # p
    BY <1>1, <2>1
  <2> QED BY <1>1, <1>3, <1>4, <2>1, <2>2 DEF Unheard, Resident
<1>9. CallShape' /\ CallSubject' /\ ChangeIsOne' /\ ReadsReturnStored'
  <2>1. CASE call' = Idle
    BY <2>1 DEF CallShape, CallSubject, ChangeIsOne, ReadsReturnStored, Idle, Operations,
                CallFields, OnRow
  <2>2. CASE /\ call' = Call("insert", call.table, NoRid, call.tuple)
             /\ call.table \in tables /\ call.tuple \in Tuples
    <3>1. call.table \in tables' /\ call.table \in PageIds
      BY <1>3, <2>2, Numbers DEF Inv, KnownTables, PoolTypes
    <3>2. /\ DOMAIN call' = CallFields /\ call'.at = "fetch" /\ call'.op = "insert"
          /\ call'.page = call.table /\ call'.table = call.table
          /\ call'.tuple = call.tuple /\ call'.dirty = FALSE /\ call'.then = "return"
      BY <2>2 DEF Call, CallFields
    <3>3. CallShape'
      BY <3>1, <3>2, ShapeOfStart
    <3>4. CallSubject' /\ ChangeIsOne' /\ ReadsReturnStored'
      BY <2>2, <3>1, <3>2 DEF CallSubject, ChangeIsOne, ReadsReturnStored, OnRow
    <3> QED BY <3>3, <3>4
  <2> QED BY <1>2, <2>1, <2>2
<1> QED BY <1>1, <1>5, <1>6, <1>7, <1>8, <1>9 DEF Inv

LEMMA CrashInv ==
    ASSUME Inv, Crash
    PROVE  Inv' /\ UNCHANGED <<file, fileLen, tables, stored>>
<1>1. Pool!Crash /\ call' = Idle /\ UNCHANGED <<tables, stored>>
  BY DEF Crash
<1>2. file \in [PageIds -> Pages] /\ fileLen \in 0..MaxPages /\ fileLen \in Nat
  BY DEF Inv, PoolTypes
<1>3. /\ PoolTypes' /\ PoolShape'
      /\ nextPageId' = fileLen /\ UNCHANGED <<file, fileLen>>
      /\ \A f \in Frames : frames'[f].data = ZeroPage
      /\ \A p \in PageIds : ~Resident(p)'
  BY <1>1, <1>2, CrashKeep
<1>4. FilePages' /\ KnownRows' /\ KnownTables'
  BY <1>1, <1>3, FileStays
<1>5. FramePages'
  BY <1>3, ZeroIsSound DEF FramePages
<1>6. FreshIdsAreUnheard'
  <2> SUFFICES ASSUME NEW p \in PageIds, p >= fileLen
               PROVE  Unheard(p)
    BY <1>1, <1>3 DEF FreshIdsAreUnheard, Unheard
  <2>1. file[p] = ZeroPage /\ p \in Nat
    BY Numbers DEF Inv, FilePages
  <2>2. p \notin 0..(fileLen - 1)
    BY <1>2, <2>1
  <2> QED BY <2>1, <2>2 DEF Unheard, Inv, KnownRows, KnownTables
<1>7. CallShape' /\ CallSubject' /\ ChangeIsOne' /\ ReadsReturnStored'
  BY <1>1 DEF CallShape, CallSubject, ChangeIsOne, ReadsReturnStored, Idle, Operations,
              CallFields, OnRow
<1> QED BY <1>1, <1>3, <1>4, <1>5, <1>6, <1>7 DEF Inv

LEMMA CreateTableInv ==
    ASSUME Inv, CreateTable
    PROVE  Inv' /\ UNCHANGED <<file, fileLen, tables, stored>>
<1> DEFINE p == nextPageId
<1>1. /\ call = Idle /\ p # Overflow /\ UNCHANGED <<tables, stored>>
      /\ Pool!NewPageInUnused(Main) \/ Pool!NewPageEvicting(Main)
      /\ call' = [[Call("create", p, NoRid, <<>>) EXCEPT !.at = "unpin"] EXCEPT !.dirty = TRUE]
  BY DEF CreateTable
<1>2. ~Busy /\ ~call.dirty /\ PoolTypes /\ PoolShape
  BY <1>1 DEF Idle, Busy, Inv
<1>3. PICK f \in Frames : Loads(f, p, ZeroPage, TRUE)
  BY <1>1, <1>2, NewLoads
<1>4. p \in PageIds /\ nextPageId' = p + 1 /\ p \in Nat /\ p \in 0..MaxPages
  BY <1>1, <1>2, NewLoads, Numbers DEF PoolTypes
<1>5. ~Resident(p) /\ Unheard(p)
  BY <1>1, <1>4 DEF Inv, FreshIdsAreUnheard
<1>6. /\ DOMAIN call' = CallFields /\ call'.at = "unpin" /\ call'.op = "create"
      /\ call'.page = p /\ call'.dirty = TRUE /\ call'.then = "return" /\ Busy'
  BY <1>1 DEF Call, CallFields, Busy
<1>7. nextPageId' \in 0..MaxPages /\ TRUE \in BOOLEAN /\ ZeroPage \in Pages
  BY <1>4, Numbers, ZeroIsSound
<1> HIDE DEF p
<1>8. /\ PoolTypes' /\ PoolShape'
      /\ frameTable'[p] = f /\ frames'[f].data = ZeroPage
      /\ \A g \in Frames \ {f} : frames'[g].data = frames[g].data
      /\ \A q \in PageIds \ {p} :
           Resident(q)' => /\ Resident(q) /\ frameTable'[q] = frameTable[q]
                           /\ frameTable[q] \in Frames \ {f}
  BY <1>2, <1>3, <1>4, <1>5, <1>6, <1>7, LoadsKeep
<1>9. UNCHANGED <<file, fileLen, tables, stored>>
  BY <1>1, <1>3 DEF Loads
<1>10. FilePages' /\ KnownRows' /\ KnownTables'
  BY <1>9, FileStays
<1>11. FramePages'
  <2>1. \A g \in Frames : Sound(frames'[g].data)
    BY <1>8, ZeroIsSound DEF Inv, FramePages
  <2>2. ASSUME NEW q \in PageIds, Resident(q)', q # p
        PROVE  q < fileLen /\ Opened(frames'[frameTable'[q]].data) = Opened(file[q])
    <3>1. Resident(q) /\ frameTable'[q] = frameTable[q] /\ frameTable[q] \in Frames \ {f}
      BY <1>8, <2>2
    <3>2. frames'[frameTable'[q]].data = InFrame(q)
      BY <1>8, <3>1 DEF InFrame
    <3>3. call.op # "insert"
      BY <1>1 DEF Idle
    <3> QED BY <1>2, <3>1, <3>2, <3>3 DEF Inv, FramePages
  <2> QED BY <1>6, <1>9, <2>1, <2>2 DEF FramePages, InFrame
<1>12. FreshIdsAreUnheard'
  <2>1. nextPageId' >= nextPageId /\ nextPageId' \in Nat /\ p < nextPageId'
    BY <1>4 DEF p
  <2> QED BY <1>8, <1>9, <2>1, FreshStay
<1>13. CallShape'
  BY <1>4, <1>6, ShapeOfChange
<1>14. CallSubject' /\ ReadsReturnStored'
  BY <1>6 DEF CallSubject, ReadsReturnStored, OnRow
<1>15. ChangeIsOne'
  BY <1>1, <1>5, <1>6, <1>8, <1>9 DEF ChangeIsOne, InFrame, Unheard, p
<1> QED BY <1>8, <1>9, <1>10, <1>11, <1>12, <1>13, <1>14, <1>15 DEF Inv

\* The callers edit as without Grows: into a tuple that does not grow in place.
LEMMA BeginInv ==
    ASSUME Inv, Begin, ~Grows
    PROVE  Inv' /\ UNCHANGED <<file, fileLen, tables, stored>>
<1>1. /\ call = Idle
      /\ UNCHANGED <<frames, frameTable, unused, lru, file, fileLen, nextPageId, held,
                     tables, stored>>
  BY DEF Begin, poolVars
<1>2. PICK table \in tables :
        \/ \E t \in Tuples : BeginTuple(table, t)
        \/ \E rid \in RidsOf(table), op \in {"get", "delete"} :
             call' = Call(op, table, rid, <<>>)
        \/ call' = Call("scan", table, NoRid, <<>>)
  BY DEF Begin
<1>3. table \in PageIds
  BY Numbers DEF Inv, KnownTables, PoolTypes
<1>4. /\ DOMAIN call' = CallFields /\ call'.at = "fetch" /\ call'.page = table
      /\ call'.table = table /\ call'.dirty = FALSE /\ call'.then = "return"
      /\ call'.op \in {"insert", "scan"} \cup OnRow
      /\ call'.op \in OnRow => call'.rid \in RidsOf(table)
      /\ call'.op \in {"insert", "edit"} => call'.tuple \in Tuples
      /\ call'.op = "edit" => ~GrowsInPlace(call'.rid, call'.tuple)
  <2>1. ASSUME NEW t \in Tuples, BeginTuple(table, t) PROVE <1>4
    <3>1. CASE call' = Call("insert", table, NoRid, t)
      BY <3>1 DEF Call, CallFields, OnRow
    <3>2. ASSUME NEW rid \in RidsOf(table), ~GrowsInPlace(rid, t),
                 call' = Call("edit", table, rid, t)
          PROVE  <1>4
      BY <3>2 DEF Call, CallFields, OnRow
    <3> QED BY <2>1, <3>1, <3>2 DEF BeginTuple
  <2>2. ASSUME NEW rid \in RidsOf(table), NEW op \in {"get", "delete"},
               call' = Call(op, table, rid, <<>>)
        PROVE  <1>4
    BY <2>2 DEF Call, CallFields, OnRow
  <2>3. ASSUME call' = Call("scan", table, NoRid, <<>>) PROVE <1>4
    BY <2>3 DEF Call, CallFields, OnRow
  <2> QED BY <1>2, <2>1, <2>2, <2>3
<1>5. /\ ~Busy /\ ~Busy' /\ ~call.dirty /\ call'.at # "flush" /\ call.at # "flush"
      /\ call.op = "none"
  BY <1>1, <1>4 DEF Busy, Idle
<1>6. PoolTypes' /\ PoolShape'
  <2>1. PoolTypes'
    BY <1>1 DEF Inv, PoolTypes
  <2>2. PoolShape'
    BY <1>1, <1>5 DEF Inv, PoolShape, Resident
  <2> QED BY <2>1, <2>2
<1>7. FilePages' /\ KnownRows' /\ KnownTables'
  BY <1>1, FileStays
<1>8. FramePages'
  BY <1>1, <1>4, <1>5 DEF Inv, FramePages, Resident, InFrame
<1>9. FreshIdsAreUnheard'
  BY <1>1 DEF Inv, FreshIdsAreUnheard, Resident, Unheard
<1>10. CallShape'
  BY <1>3, <1>4, ShapeOfStart
<1>11. CallSubject'
  <2>1. GrowsInPlace(call.rid, call.tuple)' = GrowsInPlace(call'.rid, call'.tuple)
    BY <1>1 DEF GrowsInPlace
  <2> QED BY <1>1, <1>4, <2>1 DEF CallSubject, RidsOf, OnRow
<1>12. ChangeIsOne' /\ ReadsReturnStored'
  BY <1>4 DEF ChangeIsOne, ReadsReturnStored
<1> QED BY <1>1, <1>6, <1>7, <1>8, <1>9, <1>10, <1>11, <1>12 DEF Inv

LEMMA StutterInv ==
    ASSUME Inv, UNCHANGED vars
    PROVE  Inv' /\ UNCHANGED <<file, fileLen, tables, stored>>
<1>1. UNCHANGED <<frames, frameTable, unused, lru, file, fileLen, nextPageId, held,
                  tables, call, stored>>
  BY DEF vars, poolVars
<1>2. PoolTypes' /\ PoolShape'
  BY <1>1 DEF Inv, PoolTypes, PoolShape, Resident, Busy
<1>3. FilePages' /\ KnownRows' /\ KnownTables'
  BY <1>1, FileStays
<1>4. FramePages' /\ FreshIdsAreUnheard'
  BY <1>1 DEF Inv, FramePages, FreshIdsAreUnheard, Resident, InFrame, Unheard, Stale
<1>5. CallShape' /\ CallSubject' /\ ChangeIsOne'
  BY <1>1 DEF Inv, CallShape, CallSubject, ChangeIsOne, InFrame, Unheard, Stale, GrowsInPlace,
              StoredBy
<1>6. ReadsReturnStored'
  BY <1>1 DEF Inv, ReadsReturnStored
<1> QED BY <1>1, <1>2, <1>3, <1>4, <1>5, <1>6 DEF Inv

LEMMA NextInv ==
    ASSUME Inv, [Next]_vars, ~Grows
    PROVE  Inv' /\ (Flush \/ UNCHANGED <<file, fileLen, tables, stored>>)
<1>1. CASE CreateTable
  BY <1>1, CreateTableInv
<1>2. CASE Begin
  BY <1>2, BeginInv
<1>3. CASE Fetch
  BY <1>3, FetchInv
<1>4. CASE InsertHere
  BY <1>4, InsertHereInv
<1>5. CASE PassOn
  BY <1>5, PassOnInv
<1>6. CASE GetHere
  BY <1>6, GetHereInv
<1>7. CASE ScanHere
  BY <1>7, ScanHereInv
<1>8. CASE DeleteHere
  BY <1>8, DeleteHereInv
<1>9. CASE EditHere
  BY <1>9, EditHereInv
<1>10. CASE EditMoves
  BY <1>10, EditMovesInv
<1>11. CASE Unpin
  BY <1>11, UnpinInv
<1>12. CASE Flush
  BY <1>12, FlushInv
<1>13. CASE Crash
  BY <1>13, CrashInv
<1>14. CASE UNCHANGED vars
  BY <1>14, StutterInv
<1> QED BY <1>1, <1>2, <1>3, <1>4, <1>5, <1>6, <1>7, <1>8, <1>9, <1>10, <1>11, <1>12, <1>13,
           <1>14 DEF Next, Continue

LEMMA Invariant ==
    ASSUME ~Grows
    PROVE  Spec => []Inv
<1>1. Inv /\ [Next]_vars => Inv'
  BY NextInv
<1> QED BY <1>1, InitInv, PTL DEF Spec

-----------------------------------------------------------------------------
(***************************************************************************)
(* 5. What the callers of TableHeap may rely on, as long as none of them   *)
(* edits a tuple into a larger one in its place.                           *)
(***************************************************************************)

\* The state of the calls stays within its types.
THEOREM TypeCorrect ==
    ASSUME ~Grows
    PROVE  Spec => []TypeOK
<1>1. Inv => TypeOK
  <2> SUFFICES ASSUME Inv PROVE TypeOK
    OBVIOUS
  <2>1. tables \subseteq 0..(MaxPages - 1)
    BY Numbers DEF Inv, KnownTables, PoolTypes
  <2>2. call.op # "none" => call.page \in 0..(MaxPages - 1)
    BY DEF Inv, CallShape, PageIds, Idle
  <2>3. ASSUME NEW rid \in DOMAIN stored PROVE stored[rid] \in Tuples \cup {<<>>}
    <3>1. /\ rid.page_id \in PageIds
          /\ rid.slot_id \in 0..(num_slots(file[rid.page_id]) - 1)
          /\ RowsOn(file[rid.page_id])[rid.slot_id + 1] = stored[rid]
      BY <2>3, Numbers DEF Inv, KnownRows, PoolTypes
    <3>2. Sound(file[rid.page_id])
      BY <3>1 DEF Inv, FilePages
    <3> DEFINE rs == RowsOn(file[rid.page_id])
               n == num_slots(file[rid.page_id])
               i == rid.slot_id
    <3>3. rs \in Seq(Row) /\ n = Len(rs) /\ n \in Nat
      BY <3>2, SoundPage
    <3>4. i \in 0..(n - 1) /\ rs[i + 1] = stored[rid]
      BY <3>1
    <3> HIDE DEF rs, n, i
    <3>5. rs[i + 1] \in Row
      BY <3>3, <3>4
    <3> QED BY <3>4, <3>5 DEF Row
  <2>4. call.op \in Operations /\ call.at \in {"none", "fetch", "use", "unpin", "flush"}
    BY DEF Inv, CallShape
  <2> QED BY <2>1, <2>2, <2>3, <2>4 DEF TypeOK
<1> QED BY <1>1, Invariant, PTL

\* A row whose RID was returned is in the file under that RID: the change was
\* flushed before the call returned, and no later call, eviction or crash takes
\* it away.
THEOREM RowsAreOnDisk ==
    ASSUME ~Grows
    PROVE  Spec => []StoredRowsAreOnDisk
<1>1. Inv => StoredRowsAreOnDisk
  <2> SUFFICES ASSUME Inv, NEW rid \in DOMAIN stored
               PROVE  /\ rid.page_id < fileLen
                      /\ getTuple(file[rid.page_id], rid.slot_id) = stored[rid]
    BY DEF StoredRowsAreOnDisk
  <2>1. /\ rid.page_id \in 0..(fileLen - 1)
        /\ rid.slot_id \in 0..(num_slots(file[rid.page_id]) - 1)
        /\ RowsOn(file[rid.page_id])[rid.slot_id + 1] = stored[rid]
    BY DEF Inv, KnownRows
  <2>2. rid.page_id \in PageIds /\ rid.page_id < fileLen
    BY <2>1, Numbers DEF Inv, PoolTypes
  <2>3. Sound(file[rid.page_id])
    BY <2>2 DEF Inv, FilePages
  <2> QED BY <2>1, <2>2, <2>3, SoundPage
<1> QED BY <1>1, Invariant, PTL

\* Every slot of the first page of a table was returned to a caller: a restart
\* brings back no row nobody inserted.
THEOREM FirstPagesCorrect ==
    ASSUME ~Grows
    PROVE  Spec => []FirstPagesHaveNoOtherRows
<1>1. Inv => FirstPagesHaveNoOtherRows
  BY DEF Inv, KnownTables, FirstPagesHaveNoOtherRows
<1> QED BY <1>1, Invariant, PTL

\* getTuple and scanTuples return what was last stored, also from a page that
\* was evicted and read again, or that the process was restarted on.
THEOREM ReadsCorrect ==
    ASSUME ~Grows
    PROVE  Spec => []ReadsReturnStored
<1>1. Inv => ReadsReturnStored
  BY DEF Inv
<1> QED BY <1>1, Invariant, PTL

\* Between two calls nothing is pinned and nothing is dirty.
THEOREM PoolIsClean ==
    ASSUME ~Grows
    PROVE  Spec => []IdlePoolIsClean
<1>1. Inv => IdlePoolIsClean
  <2> SUFFICES ASSUME Inv, call = Idle, NEW p \in DOMAIN frameTable, Pool!Resident(p)
               PROVE  frames[frameTable[p]].pins = 0 /\ ~frames[frameTable[p]].is_dirty
    BY DEF IdlePoolIsClean
  <2>1. ~Busy /\ ~call.dirty
    BY DEF Idle, Busy
  <2>2. frameTable[p] \in Frames
    BY DEF Inv, PoolTypes, Pool!Resident, Pool!NoFrame
  <2> QED BY <2>1, <2>2 DEF Inv, PoolShape
<1> QED BY <1>1, Invariant, PTL

\* A call that fetches holds no other page, so with one frame or more the pool
\* has one to give: fetchPage does not return nullptr.
THEOREM FrameIsFound ==
    ASSUME ~Grows
    PROVE  Spec => []FetchFindsAFrame
<1>1. Inv => FetchFindsAFrame
  <2> SUFFICES ASSUME Inv, call.at = "fetch" PROVE unused # <<>> \/ lru # <<>>
    BY DEF FetchFindsAFrame
  <2>1. ~Busy /\ 0 \in Frames
    BY Numbers DEF Busy
  <2>2. 0 \in ToSet(unused) \cup ToSet(lru)
    BY <2>1 DEF Inv, PoolShape
  <2>3. ToSet(<<>>) = {}
    BY DEF ToSet
  <2> QED BY <2>2, <2>3
<1> QED BY <1>1, Invariant, PTL

-----------------------------------------------------------------------------
(***************************************************************************)
(* 6. TableHeap implements HeapTable.                                      *)
(***************************************************************************)

pagesOf == [p \in 0..(fileLen - 1) |-> RowsPut(p, RowsOn(file[p]), DOMAIN stored)]

\* A set of numbers that is not empty has a least one.
LEMMA LeastNumber ==
    ASSUME NEW S \in SUBSET Nat, S # {}
    PROVE  \E x \in S : \A y \in S : x <= y
<1>1. IsWellFoundedOn(OpToRel(<, Nat), Nat)
  BY NatLessThanWellFounded
<1>2. PICK x \in S : \A y \in S : ~ (<<y, x>> \in OpToRel(<, Nat))
  BY <1>1, WFMin
<1>3. \A y \in S : ~ (y < x)
  BY <1>2 DEF OpToRel
<1> QED BY <1>3

\* The rows that were put in a page begin at its first known slot, or after all.
LEMMA FirstIsFirst ==
    ASSUME NEW p, NEW n \in Nat, NEW known
    PROVE  /\ FirstPut(p, n, known) \in 0..n
           /\ \A i \in KnownSlots(p, n, known) : FirstPut(p, n, known) <= i
<1> DEFINE put == KnownSlots(p, n, known)
<1>1. put \in SUBSET Nat /\ put \subseteq 0..(n - 1)
  BY DEF KnownSlots
<1> HIDE DEF put
<1>2. CASE p # Overflow \/ put = {}
  BY <1>1, <1>2 DEF FirstPut, put
<1>3. CASE p = Overflow /\ put # {}
  <2> DEFINE first == CHOOSE i \in put : \A j \in put : i <= j
  <2>1. first \in put /\ \A j \in put : first <= j
    BY <1>1, <1>3, LeastNumber
  <2>2. FirstPut(p, n, known) = first
    BY <1>3 DEF FirstPut, put
  <2> HIDE DEF first
  <2> QED BY <1>1, <2>1, <2>2 DEF put
<1> QED BY <1>2, <1>3

\* They depend on the known RIDs of that page only.
LEMMA FirstSame ==
    ASSUME NEW p, NEW n, NEW a, NEW b, \A i : RID(p, i) \in a <=> RID(p, i) \in b
    PROVE  FirstPut(p, n, a) = FirstPut(p, n, b)
<1> DEFINE inA == KnownSlots(p, n, a)
           inB == KnownSlots(p, n, b)
<1>1. inA = inB
  BY DEF KnownSlots
<1> HIDE DEF inA, inB
<1>2. FirstPut(p, n, a) = IF p # Overflow THEN 0
                          ELSE IF inA = {} THEN n
                          ELSE CHOOSE i \in inA : \A j \in inA : i <= j
  BY DEF FirstPut, inA
<1>3. FirstPut(p, n, b) = IF p # Overflow THEN 0
                          ELSE IF inB = {} THEN n
                          ELSE CHOOSE i \in inB : \A j \in inB : i <= j
  BY DEF FirstPut, inB
<1> QED BY <1>1, <1>2, <1>3

LEMMA RowsPutSame ==
    ASSUME NEW p, NEW rs, NEW a, NEW b, \A i : RID(p, i) \in a <=> RID(p, i) \in b
    PROVE  RowsPut(p, rs, a) = RowsPut(p, rs, b)
<1>1. FirstPut(p, Len(rs), a) = FirstPut(p, Len(rs), b)
  BY FirstSame
<1> QED BY <1>1 DEF RowsPut

\* A row that is put behind the others does not change where they begin.
LEMMA FirstStays ==
    ASSUME NEW p, NEW n \in Nat, NEW known
    PROVE  FirstPut(p, n + 1, known \cup {RID(p, n)}) = FirstPut(p, n, known)
<1> DEFINE put == KnownSlots(p, n, known)
           put2 == KnownSlots(p, n + 1, known \cup {RID(p, n)})
           least(S) == CHOOSE i \in S : \A j \in S : i <= j
<1>1. put2 = put \cup {n}
  <2>1. \A i \in 0..n : RID(p, i) = RID(p, n) <=> i = n
    BY DEF RID
  <2>2. 0..((n + 1) - 1) = 0..n /\ 0..n = 0..(n - 1) \cup {n} /\ n \notin 0..(n - 1)
    OBVIOUS
  <2> QED BY <2>1, <2>2 DEF KnownSlots
<1>2. put \in SUBSET Nat /\ put \subseteq 0..(n - 1)
  BY DEF KnownSlots
<1> HIDE DEF put, put2
<1>3. CASE p # Overflow
  BY <1>3 DEF FirstPut
<1>4. CASE p = Overflow /\ put = {}
  <2>1. put2 = {n}
    BY <1>1, <1>4
  <2>2. least({n}) = n
    OBVIOUS
  <2> QED BY <1>4, <2>1, <2>2 DEF FirstPut, put, put2
<1>5. CASE p = Overflow /\ put # {}
  <2>1. PICK x \in put : \A y \in put : x <= y
    BY <1>2, <1>5, LeastNumber
  <2>2. x \in put2 /\ \A y \in put2 : x <= y
    BY <1>1, <1>2, <2>1
  <2>3. put \subseteq Nat /\ put2 \subseteq Nat
    BY <1>1, <1>2
  <2>4. least(put) = x /\ least(put2) = x
    <3>1. ASSUME NEW S, S \subseteq Nat, x \in S, \A y \in S : x <= y PROVE least(S) = x
      <4>1. least(S) \in S /\ \A y \in S : least(S) <= y
        BY <3>1
      <4> HIDE DEF least
      <4>2. least(S) <= x /\ x <= least(S) /\ least(S) \in Nat /\ x \in Nat
        BY <3>1, <4>1
      <4> QED BY <4>2
    <3> HIDE DEF least
    <3> QED BY <2>1, <2>2, <2>3, <3>1
  <2>5. FirstPut(p, n, known) = least(put) /\ FirstPut(p, n + 1, known \cup {RID(p, n)}) = least(put2)
    BY <1>1, <1>5 DEF FirstPut, put, put2
  <2> QED BY <2>4, <2>5
<1> QED BY <1>3, <1>4, <1>5

\* What is put in a page: where the rows lie, one more of them, another one.
LEMMA RowsPutIn ==
    ASSUME NEW p, NEW rs \in Seq(Row), NEW known
    PROVE  /\ FirstPut(p, Len(rs), known) \in 0..Len(rs)
           /\ RowsPut(p, rs, known) \in Seq(Row)
           /\ Len(RowsPut(p, rs, known)) = Len(rs) - FirstPut(p, Len(rs), known)
           /\ \A k \in 1..(Len(rs) - FirstPut(p, Len(rs), known)) :
                RowsPut(p, rs, known)[k] = rs[FirstPut(p, Len(rs), known) + k]
<1> DEFINE f == FirstPut(p, Len(rs), known)
<1>1. f \in 0..Len(rs) /\ Len(rs) \in Nat
  BY FirstIsFirst
<1>2. RowsPut(p, rs, known) = SubSeq(rs, f + 1, Len(rs))
  BY DEF RowsPut
<1> HIDE DEF f
<1>3. SubSeq(rs, f + 1, Len(rs)) = [k \in 1..(Len(rs) - f) |-> rs[f + k]]
  BY <1>1
<1>4. \A k \in 1..(Len(rs) - f) : rs[f + k] \in Row
  BY <1>1
<1> QED BY <1>1, <1>2, <1>3, <1>4 DEF f

\* The row t follows the rows rs of page p, under the next RID.
OneMore(p, rs, rs2, t, known, known2) ==
    /\ rs \in Seq(Row) /\ rs2 \in Seq(Row) /\ t \in Row
    /\ Len(rs2) = Len(rs) + 1
    /\ \A k \in 1..(Len(rs) + 1) : rs2[k] = IF k = Len(rs) + 1 THEN t ELSE rs[k]
    /\ \A i : RID(p, i) \in known2 <=> RID(p, i) \in known \/ i = Len(rs)

\* The row t takes the place of the one with slot i, whose RID is known.
OneInstead(p, rs, rs2, i, t, known) ==
    /\ rs \in Seq(Row) /\ rs2 \in Seq(Row) /\ t \in Row
    /\ i \in 0..(Len(rs) - 1) /\ RID(p, i) \in known
    /\ Len(rs2) = Len(rs)
    /\ \A m \in 1..Len(rs) : rs2[m] = IF m = i + 1 THEN t ELSE rs[m]

LEMMA RowsPutAfter ==
    ASSUME NEW p, NEW rs, NEW rs2, NEW t, NEW known, NEW known2,
           OneMore(p, rs, rs2, t, known, known2)
    PROVE  /\ RowsPut(p, rs, known) \in Seq(Row)
           /\ RowsPut(p, rs2, known2) \in Seq(Row)
           /\ Len(RowsPut(p, rs2, known2)) = Len(RowsPut(p, rs, known)) + 1
           /\ \A k \in 1..(Len(RowsPut(p, rs, known)) + 1) :
                RowsPut(p, rs2, known2)[k]
                  = IF k = Len(RowsPut(p, rs, known)) + 1 THEN t ELSE RowsPut(p, rs, known)[k]
<1> DEFINE n == Len(rs)
           f == FirstPut(p, n, known)
           old == RowsPut(p, rs, known)
           new == RowsPut(p, rs2, known2)
<1>1. /\ n \in Nat /\ rs \in Seq(Row) /\ rs2 \in Seq(Row) /\ t \in Row
      /\ Len(rs2) = n + 1
      /\ \A k \in 1..n : rs2[k] = rs[k]
      /\ rs2[n + 1] = t
  BY DEF OneMore
<1>2. /\ f \in 0..n
      /\ old \in Seq(Row)
      /\ Len(old) = n - f
      /\ \A k \in 1..(n - f) : old[k] = rs[f + k]
  BY <1>1, RowsPutIn
<1>3. FirstPut(p, n + 1, known2) = f
  <2> DEFINE more == known \cup {RID(p, n)}
  <2>1. \A i : RID(p, i) \in known2 <=> RID(p, i) \in more
    BY DEF RID, OneMore
  <2>2. FirstPut(p, n + 1, more) = f
    BY <1>1, FirstStays
  <2> HIDE DEF more, n, f
  <2> QED BY <2>1, <2>2, FirstSame
<1>4. /\ new \in Seq(Row)
      /\ Len(new) = n + 1 - f
      /\ \A k \in 1..(n + 1 - f) : new[k] = rs2[f + k]
  <2> HIDE DEF n, f
  <2>1. FirstPut(p, Len(rs2), known2) = f /\ Len(rs2) - f = n + 1 - f
    <3>1. Len(rs2) = n + 1 /\ n \in Nat /\ f \in 0..n
      BY <1>1, <1>2
    <3> QED BY <1>3, <3>1
  <2>2. rs2 \in Seq(Row)
    BY <1>1
  <2> QED BY <2>1, <2>2, RowsPutIn
<1> HIDE DEF n, f, old, new
<1>5. ASSUME NEW k \in 1..(n + 1 - f)
      PROVE  new[k] = IF k = n + 1 - f THEN t ELSE old[k]
  <2>1. new[k] = rs2[f + k]
    BY <1>4
  <2>2. CASE k = n + 1 - f
    BY <1>1, <1>2, <2>1, <2>2
  <2>3. CASE k \in 1..(n - f)
    <3>1. f + k \in 1..n /\ k # n + 1 - f
      BY <1>1, <1>2, <2>3
    <3> QED BY <1>1, <1>2, <2>1, <2>3, <3>1
  <2> QED BY <1>1, <1>2, <2>2, <2>3
<1>6. Len(old) + 1 = n + 1 - f
  BY <1>1, <1>2
<1> QED BY <1>2, <1>4, <1>5, <1>6 DEF new, old

LEMMA RowPutInstead ==
    ASSUME NEW p, NEW rs, NEW rs2, NEW i, NEW t, NEW known,
           OneInstead(p, rs, rs2, i, t, known)
    PROVE  /\ RowsPut(p, rs, known) \in Seq(Row)
           /\ RowsPut(p, rs2, known) \in Seq(Row)
           /\ Len(RowsPut(p, rs2, known)) = Len(RowsPut(p, rs, known))
           /\ \E k \in 1..Len(RowsPut(p, rs, known)) :
                \A m \in 1..Len(RowsPut(p, rs, known)) :
                  RowsPut(p, rs2, known)[m] = IF m = k THEN t ELSE RowsPut(p, rs, known)[m]
<1> DEFINE n == Len(rs)
           f == FirstPut(p, n, known)
           old == RowsPut(p, rs, known)
           new == RowsPut(p, rs2, known)
           k == i + 1 - f
<1>1. /\ n \in Nat /\ rs \in Seq(Row) /\ rs2 \in Seq(Row) /\ t \in Row
      /\ i \in Nat /\ i + 1 \in 1..n
      /\ Len(rs2) = n
      /\ \A m \in 1..n : rs2[m] = IF m = i + 1 THEN t ELSE rs[m]
  BY DEF OneInstead
<1>2. /\ f \in 0..n
      /\ old \in Seq(Row)
      /\ Len(old) = n - f
      /\ \A m \in 1..(n - f) : old[m] = rs[f + m]
  BY <1>1, RowsPutIn
<1>3. /\ new \in Seq(Row)
      /\ Len(new) = n - f
      /\ \A m \in 1..(n - f) : new[m] = rs2[f + m]
  <2>1. f = FirstPut(p, Len(rs2), known)
    BY <1>1
  <2> HIDE DEF n, f
  <2> QED BY <1>1, <2>1, RowsPutIn
<1>4. f <= i
  <2>1. i \in KnownSlots(p, n, known)
    BY <1>1 DEF KnownSlots, OneInstead
  <2> QED BY <1>1, <2>1, FirstIsFirst
<1> HIDE DEF n, f, old, new
<1>5. k \in 1..(n - f) /\ DOMAIN old = 1..(n - f)
  BY <1>1, <1>2, <1>4
<1>6. ASSUME NEW m \in 1..(n - f) PROVE new[m] = IF m = k THEN t ELSE old[m]
  <2>1. f + m \in 1..n /\ (f + m = i + 1 <=> m = k)
    BY <1>1, <1>2
  <2> QED BY <1>1, <1>2, <1>3, <2>1
<1> HIDE DEF k
<1> QED BY <1>2, <1>3, <1>5, <1>6 DEF old, new

LEMMA NothingPutIn ==
    ASSUME NEW p, NEW known
    PROVE  RowsPut(p, <<>>, known) = <<>>
<1>1. FirstPut(p, 0, known) \in 0..0
  BY FirstIsFirst
<1>2. FirstPut(p, 0, known) = 0
  BY <1>1
<1>3. Len(<<>>) = 0
  OBVIOUS
<1>4. RowsPut(p, <<>>, known) = SubSeq(<<>>, 1, 0)
  BY <1>2, <1>3 DEF RowsPut
<1> QED BY <1>4

\* A flush makes no RID known but one of its page.
LEMMA FlushedRids ==
    ASSUME Inv, Flush, NEW q, q # call.page
    PROVE  \A i : RID(q, i) \in DOMAIN stored' <=> RID(q, i) \in DOMAIN stored
<1>1. call.op \in {"create", "insert", "delete", "edit"}
  BY FlushedFile
<1>2. CASE call.op = "create"
  BY <1>2, FlushCreate
<1>3. CASE call.op = "insert"
  <2>1. PICK rs \in Seq(Row) :
          /\ call.rid = RID(call.page, Len(rs))
          /\ stored' = [rid \in DOMAIN stored \cup {call.rid} |->
                          IF rid = call.rid THEN call.tuple ELSE stored[rid]]
    BY <1>3, FlushInsert
  <2>2. DOMAIN stored' = DOMAIN stored \cup {call.rid}
    BY <2>1
  <2>3. \A i : RID(q, i) # call.rid
    BY <2>1 DEF RID
  <2> QED BY <2>2, <2>3
<1>4. CASE call.op \in {"delete", "edit"}
  <2>1. stored' = [rid \in DOMAIN stored |->
                     IF rid = call.rid THEN StoredBy(call) ELSE stored[rid]]
    BY <1>4, FlushRow
  <2> QED BY <2>1
<1> QED BY <1>1, <1>2, <1>3, <1>4

\* The rows put in the file after a flush: page by page, those of the pages before
\* and of the new one; the pages between are empty.
LEMMA FlushedPages ==
    ASSUME Inv, Flush
    PROVE  /\ pagesOf' = [q \in 0..(fileLen - 1) \cup 0..call.page |->
                            IF q = call.page THEN RowsPut(q, RowsOn(file'[q]), DOMAIN stored')
                            ELSE IF q \in 0..(fileLen - 1) THEN pagesOf[q] ELSE <<>>]
           /\ DOMAIN pagesOf = 0..(fileLen - 1)
           /\ \A q \in 0..(fileLen - 1) :
                pagesOf[q] = RowsPut(q, RowsOn(file[q]), DOMAIN stored)
<1> DEFINE p == call.page
<1>1. /\ p \in PageIds /\ p \in Nat
      /\ \A q \in PageIds : q # p => file'[q] = file[q]
      /\ fileLen \in Nat /\ fileLen' = IF p < fileLen THEN fileLen ELSE p + 1
  BY FlushedFile, Numbers
<1>2. 0..(fileLen - 1) \cup 0..p = 0..(fileLen' - 1)
  BY <1>1
<1>3. \A q \in 0..(fileLen' - 1) : q \in PageIds
  BY <1>1, Numbers DEF Inv, PoolTypes
<1>4. ASSUME NEW q \in 0..(fileLen' - 1), q # p, q \notin 0..(fileLen - 1)
      PROVE  RowsPut(q, RowsOn(file'[q]), DOMAIN stored') = <<>>
  <2>1. q >= fileLen /\ file'[q] = file[q] /\ q \in PageIds
    BY <1>1, <1>3, <1>4
  <2>2. file[q] = ZeroPage
    BY <2>1 DEF Inv, FilePages
  <2>3. RowsOn(file'[q]) = <<>>
    BY <2>1, <2>2, ZeroIsSound
  <2>4. RowsPut(q, <<>>, DOMAIN stored') = <<>>
    BY NothingPutIn
  <2> QED BY <2>3, <2>4
<1>5. ASSUME NEW q \in 0..(fileLen' - 1), q # p
      PROVE  RowsPut(q, RowsOn(file'[q]), DOMAIN stored')
               = RowsPut(q, RowsOn(file[q]), DOMAIN stored)
  <2>1. file'[q] = file[q]
    BY <1>1, <1>3, <1>5
  <2>2. \A i : RID(q, i) \in DOMAIN stored' <=> RID(q, i) \in DOMAIN stored
    BY <1>5, FlushedRids
  <2> QED BY <2>1, <2>2, RowsPutSame
<1>6. pagesOf' = [q \in 0..(fileLen' - 1) |-> RowsPut(q, RowsOn(file'[q]), DOMAIN stored')]
  BY DEF pagesOf
<1>7. \A q \in 0..(fileLen - 1) : pagesOf[q] = RowsPut(q, RowsOn(file[q]), DOMAIN stored)
  BY DEF pagesOf
<1> HIDE DEF p
<1>8. ASSUME NEW q \in 0..(fileLen' - 1)
      PROVE  RowsPut(q, RowsOn(file'[q]), DOMAIN stored')
               = IF q = p THEN RowsPut(q, RowsOn(file'[q]), DOMAIN stored')
                 ELSE IF q \in 0..(fileLen - 1) THEN pagesOf[q] ELSE <<>>
  BY <1>4, <1>5, <1>7
<1>9. pagesOf' = [q \in 0..(fileLen - 1) \cup 0..p |->
                    IF q = p THEN RowsPut(q, RowsOn(file'[q]), DOMAIN stored')
                    ELSE IF q \in 0..(fileLen - 1) THEN pagesOf[q] ELSE <<>>]
  BY <1>2, <1>6, <1>8
<1>10. DOMAIN pagesOf = 0..(fileLen - 1)
  BY DEF pagesOf
<1> QED BY <1>7, <1>9, <1>10 DEF p

LEMMA FlushIsTableStep ==
    ASSUME Inv, Flush
    PROVE  Rows!Next \/ pagesOf' = pagesOf
<1> DEFINE p == call.page
           t == call.tuple
           dom == 0..(fileLen - 1)
           known == DOMAIN stored
           known2 == DOMAIN stored'
           old == RowsOn(file[p])
           new == RowsOn(file'[p])
           up == [q \in dom \cup 0..p |-> IF q \in dom THEN pagesOf[q] ELSE <<>>]
<1>1. /\ pagesOf' = [q \in dom \cup 0..p |->
                       IF q = p THEN RowsPut(p, new, known2)
                       ELSE IF q \in dom THEN pagesOf[q] ELSE <<>>]
      /\ DOMAIN pagesOf = dom
      /\ \A q \in dom : pagesOf[q] = RowsPut(q, RowsOn(file[q]), known)
  BY FlushedPages
<1>2. /\ p \in PageIds /\ p \in Nat /\ p \in 0..p /\ fileLen \in Nat
      /\ call.op \in {"create", "insert", "delete", "edit"}
  BY FlushedFile, Numbers
<1>3. p < fileLen <=> p \in dom
  BY <1>2
<1>4. Rows!UpTo(p) = up
  BY <1>1 DEF Rows!UpTo, Rows!Empty, pagesOf
<1>5. DOMAIN up = dom \cup 0..p
  OBVIOUS
<1>6. old \in Seq(Row) /\ Len(old) = num_slots(file[p])
  BY <1>2, SoundPage DEF Inv, FilePages
<1>7. CASE call.op = "create"
  <2>1. file'[p] = ZeroPage /\ file[p] = ZeroPage /\ stored' = stored
    BY <1>7, FlushCreate
  <2>2. new = <<>> /\ old = <<>>
    BY <2>1, ZeroIsSound
  <2>3. RowsPut(p, <<>>, known) = <<>>
    BY NothingPutIn
  <2> HIDE DEF dom, p, known, known2, old, new
  <2>4. pagesOf' = up
    <3>1. known2 = known
      BY <2>1 DEF known, known2
    <3>2. RowsPut(p, new, known2) = <<>> /\ (p \in dom => pagesOf[p] = <<>>)
      BY <1>1, <2>2, <2>3, <3>1 DEF old
    <3> QED BY <1>1, <3>2
  <2>5. CASE p \in dom
    <3>1. dom \cup 0..p = dom
      BY <1>2, <2>5 DEF dom
    <3>2. up = [q \in dom |-> pagesOf[q]]
      BY <3>1
    <3>3. pagesOf = [q \in dom |-> pagesOf[q]]
      BY DEF pagesOf, dom
    <3> QED BY <2>4, <3>2, <3>3
  <2>6. CASE p \notin dom
    <3>1. Rows!AddPage(p)
      BY <1>1, <1>4, <2>4, <2>6 DEF Rows!AddPage, pagesOf
    <3> QED BY <1>2, <3>1 DEF Rows!Next, PageIds
  <2> QED BY <2>5, <2>6
<1>8. CASE call.op = "insert"
  <2>1. PICK rs \in Seq(Row) :
          /\ IF p < fileLen THEN rs = old ELSE p = Overflow /\ Stale(rs)
          /\ new = Append(rs, t)
          /\ known2 = known \cup {RID(p, Len(rs))}
    BY <1>8, FlushInsert
  <2>2. t \in Tuples /\ t \in Row
    BY <1>8, FlushInsert DEF Row
  <2>3. RowsPut(p, new, known2) = Append(RowsPut(p, rs, known), t)
    <3> HIDE DEF p, t, known, known2, new
    <3>1. \A i : RID(p, i) \in known2 <=> RID(p, i) \in known \/ i = Len(rs)
      BY <2>1 DEF RID
    <3>2. OneMore(p, rs, new, t, known, known2)
      <4>1. new = Append(rs, t)
        BY <2>1
      <4> QED BY <2>2, <3>1, <4>1 DEF OneMore
    <3> DEFINE oldPut == RowsPut(p, rs, known)
               newPut == RowsPut(p, new, known2)
    <3>3. /\ oldPut \in Seq(Row)
          /\ newPut \in Seq(Row)
          /\ Len(newPut) = Len(oldPut) + 1
          /\ \A k \in 1..(Len(oldPut) + 1) :
               newPut[k] = IF k = Len(oldPut) + 1 THEN t ELSE oldPut[k]
      BY <3>2, RowsPutAfter
    <3> HIDE DEF oldPut, newPut
    <3>4. newPut = Append(oldPut, t)
      BY <2>2, <3>3
    <3> QED BY <3>4 DEF oldPut, newPut
  <2>4. up[p] = RowsPut(p, rs, known)
    <3>1. CASE p \in dom
      BY <1>1, <1>2, <1>3, <2>1, <3>1
    <3>2. CASE p \notin dom
      <4>1. \A n \in Nat : KnownSlots(p, n, known) = {}
        <5>1. \A rid \in known : rid.page_id # p
          BY <3>2 DEF Inv, KnownRows
        <5>2. \A i : RID(p, i).page_id = p
          BY DEF RID
        <5> QED BY <5>1, <5>2 DEF KnownSlots
      <4>2. p = Overflow /\ Len(rs) \in Nat
        BY <1>3, <2>1, <3>2
      <4>3. FirstPut(p, Len(rs), known) = Len(rs)
        BY <4>1, <4>2 DEF FirstPut
      <4>4. RowsPut(p, rs, known) = <<>>
        <5>1. RowsPut(p, rs, known) = [k \in 1..(Len(rs) - Len(rs)) |-> rs[Len(rs) + k]]
          BY <4>3, RowsPutIn
        <5>2. 1..(Len(rs) - Len(rs)) = {}
          BY <4>2
        <5> QED BY <5>1, <5>2
      <4> QED BY <1>2, <3>2, <4>4
    <3> QED BY <3>1, <3>2
  <2> HIDE DEF dom, p, t, known, known2, new
  <2>5. pagesOf' = [up EXCEPT ![p] = Append(@, t)]
    BY <1>1, <1>2, <2>3, <2>4
  <2>6. Rows!AddRow(p, t)
    BY <1>4, <2>5 DEF Rows!AddRow, pagesOf
  <2> QED BY <1>2, <2>2, <2>6 DEF Rows!Next, PageIds
<1>9. CASE call.op \in {"delete", "edit"}
  <2> DEFINE i == call.rid.slot_id
             s == StoredBy(call)
  <2>1. /\ p \in dom /\ s \in Row /\ RID(p, i) \in known /\ known2 = known
        /\ i \in 0..(num_slots(file[p]) - 1)
        /\ new = [old EXCEPT ![i + 1] = s]
    BY <1>3, <1>9, FlushRow
  <2>2. pagesOf[p] = RowsPut(p, old, known)
    BY <1>1, <2>1
  <2>3. dom \cup 0..p = dom
    BY <1>2, <2>1
  <2> HIDE DEF dom, p, i, s, known, known2, old, new
  <2>4. PICK k \in DOMAIN pagesOf[p] : RowsPut(p, new, known) = [pagesOf[p] EXCEPT ![k] = s]
    <3>1. i \in 0..(Len(old) - 1) /\ old \in Seq(Row)
      BY <1>6, <2>1
    <3>2. s \in Row /\ RID(p, i) \in known
      BY <2>1
    <3>3. OneInstead(p, old, new, i, s, known)
      <4>1. new = [old EXCEPT ![i + 1] = s]
        BY <2>1
      <4> QED BY <3>1, <3>2, <4>1 DEF OneInstead
    <3> DEFINE oldPut == RowsPut(p, old, known)
               newPut == RowsPut(p, new, known)
    <3>4. /\ oldPut \in Seq(Row)
          /\ newPut \in Seq(Row)
          /\ Len(newPut) = Len(oldPut)
          /\ \E k \in 1..Len(oldPut) : \A m \in 1..Len(oldPut) :
               newPut[m] = IF m = k THEN s ELSE oldPut[m]
      BY <3>3, RowPutInstead
    <3> HIDE DEF oldPut, newPut
    <3>5. PICK k \in DOMAIN oldPut : newPut = [oldPut EXCEPT ![k] = s]
      BY <3>4
    <3> QED BY <2>2, <3>5 DEF oldPut, newPut
  <2>5. pagesOf = [q \in dom |-> pagesOf[q]]
    BY DEF pagesOf, dom
  <2>6. pagesOf' = [pagesOf EXCEPT ![p] = [pagesOf[p] EXCEPT ![k] = s]]
    BY <1>1, <2>1, <2>3, <2>4, <2>5
  <2>7. Rows!SetRow(p, k, s)
    BY <2>6 DEF Rows!SetRow, pagesOf
  <2>8. s \in Tuples \cup {Rows!Deleted}
    BY <2>1 DEF Row, Rows!Deleted
  <2> QED BY <1>1, <1>2, <1>4, <2>1, <2>4, <2>7, <2>8 DEF Rows!Next, PageIds, pagesOf
<1> QED BY <1>2, <1>7, <1>8, <1>9

\* The rows that inserts put in the file change by whole rows and one at a time,
\* whatever is evicted and wherever the process ends: every step of TableHeap is a
\* step of HeapTable.
THEOREM TableImplemented ==
    ASSUME ~Grows
    PROVE  Spec => ImplementsHeapTable
<1>1. Init => Rows!Init
  <2> SUFFICES ASSUME Init PROVE Rows!Init
    OBVIOUS
  <2>1. fileLen = 0
    BY DEF Init, Pool!Init
  <2>2. 0..(fileLen - 1) = {}
    BY <2>1
  <2> QED BY <2>2 DEF Rows!Init
<1>2. Inv /\ [Next]_vars => [Rows!Next]_pagesOf
  <2> SUFFICES ASSUME Inv, [Next]_vars PROVE Rows!Next \/ pagesOf' = pagesOf
    OBVIOUS
  <2>1. CASE Flush
    BY <2>1, FlushIsTableStep
  <2>2. CASE UNCHANGED <<file, fileLen, tables, stored>>
    BY <2>2 DEF pagesOf
  <2> QED BY <2>1, <2>2, NextInv
<1>3. Inv /\ [Next]_vars => [Rows!Next]_[p \in 0..(fileLen - 1) |-> RowsPut(p, RowsOn(file[p]), DOMAIN stored)]
  BY <1>2 DEF pagesOf
<1> QED BY <1>1, <1>3, Invariant, PTL DEF Spec, ImplementsHeapTable, Rows!Spec

=============================================================================
