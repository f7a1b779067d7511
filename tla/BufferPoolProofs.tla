-------------------------- MODULE BufferPoolProofs --------------------------
(***************************************************************************)
(* Proofs about BufferPool, for every value of its constants; the process  *)
(* may end at any point and reads and writes may fail.                     *)
(*                                                                         *)
(*   1. TypeCorrect: the type invariant.                                   *)
(*   2. TableCorrect, UnusedCorrect: the frame table and the unused        *)
(*      frames, with every kind of call.                                   *)
(*                                                                         *)
(* From here on clients neither call deletePage nor fetch pages that do    *)
(* not exist (they are Disciplined), as main does, and TableHeap but for   *)
(* page 65535.                                                             *)
(*                                                                         *)
(*   3. VictimsAreUnpinned, PinsCorrect, HeldPagesCorrect: pins.           *)
(*   4. CleanPagesCorrect: a page that is not marked dirty and that nobody *)
(*      has written into is in the file.                                   *)
(*   5. StoreImplemented: the pool over the file implements PageStore.     *)
(*   6. FramesAreAccounted: what failed calls cost in frames.              *)
(*                                                                         *)
(* The inductive invariant of 3 and 6 is PinInv: newPage maps the page it  *)
(* is given without looking whether it is resident, and only               *)
(* FreshIdsAreUnknown makes this right.  That of 4 and 5 is StoreInv,      *)
(* which adds NothingPastTheEnd: when a page is written behind the end of  *)
(* the file, the pages in between come into being as zeros.                *)
(***************************************************************************)
EXTENDS BufferPool, RecencyListProofs, FiniteSetTheorems

-----------------------------------------------------------------------------
(***************************************************************************)
(* 1. Types.                                                               *)
(***************************************************************************)

\* The records the actions store have the types of what they replace.
LEMMA RecordTypes ==
    /\ EmptyPage \in PageObject
    /\ \A p \in PageIds, d \in Data :
         LoadedPage(p, d) \in PageObject /\ FreshPage(p) \in PageObject
    /\ \A p \in PageIds, f \in Frames : Hold(p, f) \in HoldRecord
BY PoolAssumption DEF EmptyPage, PageObject, LoadedPage, FreshPage, NoHold, Hold, HoldRecord, INVALID_PAGE_ID, NoFrame

\* The fields of a Page.
LEMMA PageFields ==
    ASSUME NEW pg \in PageObject
    PROVE  /\ pg.page_id \in PageIds \cup {INVALID_PAGE_ID}
           /\ pg.data \in Data
           /\ pg.is_dirty \in BOOLEAN
           /\ pg.pins \in Nat
BY Zenon DEF PageObject

\* What the methods of Page change, and that they change nothing else.
LEMMA PinnedPage ==
    ASSUME NEW pg \in PageObject
    PROVE  /\ Pinned(pg) \in PageObject
           /\ Pinned(pg).page_id = pg.page_id
           /\ Pinned(pg).data = pg.data
           /\ Pinned(pg).is_dirty = pg.is_dirty
           /\ Pinned(pg).pins = pg.pins + 1
<1>1. pg.pins + 1 \in Nat
  BY PageFields
<1> QED BY <1>1, Zenon DEF PageObject, Pinned

LEMMA UnpinnedPage ==
    ASSUME NEW pg \in PageObject, NEW dirty \in BOOLEAN, pg.pins > 0
    PROVE  /\ Unpinned(pg, dirty) \in PageObject
           /\ Unpinned(pg, dirty).page_id = pg.page_id
           /\ Unpinned(pg, dirty).data = pg.data
           /\ Unpinned(pg, dirty).is_dirty = (pg.is_dirty \/ dirty)
           /\ Unpinned(pg, dirty).pins = pg.pins - 1
<1>1. pg.pins - 1 \in Nat
  BY PageFields
<1>2. (pg.is_dirty \/ dirty) \in BOOLEAN
  BY Zenon
<1> QED BY <1>1, <1>2, Zenon DEF PageObject, Unpinned

LEMMA FilledPage ==
    ASSUME NEW pg \in PageObject, NEW d \in Data
    PROVE  /\ Filled(pg, d) \in PageObject
           /\ Filled(pg, d).page_id = pg.page_id
           /\ Filled(pg, d).data = d
           /\ Filled(pg, d).is_dirty = pg.is_dirty
           /\ Filled(pg, d).pins = pg.pins
BY Zenon DEF PageObject, Filled

LEMMA CleanedPage ==
    ASSUME NEW pg \in PageObject
    PROVE  /\ Cleaned(pg) \in PageObject
           /\ Cleaned(pg).page_id = pg.page_id
           /\ Cleaned(pg).data = pg.data
           /\ Cleaned(pg).is_dirty = FALSE
           /\ Cleaned(pg).pins = pg.pins
BY Zenon DEF PageObject, Cleaned

\* Writing a frame back keeps the types of the file.
LEMMA WriteBackType ==
    ASSUME TypeOK, NEW f \in Frames, WriteBack(f)
    PROVE  file' \in [PageIds -> Data] /\ fileLen' \in 0..MaxPages
<1> DEFINE p == frames[f].page_id
<1>1. frames[f] \in PageObject
  BY DEF TypeOK
<1>2. frames[f].data \in Data
  BY <1>1, PageFields
<1>3. p \in -1..(MaxPages - 1)
  BY <1>1, PageFields, PoolAssumption DEF PageIds, INVALID_PAGE_ID
<1>4. file' \in [PageIds -> Data]
  BY <1>2 DEF WriteBack, TypeOK
<1>5. fileLen' \in 0..MaxPages
  BY <1>3, PoolAssumption DEF WriteBack, TypeOK
<1> QED BY <1>4, <1>5

LEMMA SaveVictimType ==
    ASSUME TypeOK, NEW f \in Frames, SaveVictim(f)
    PROVE  file' \in [PageIds -> Data] /\ fileLen' \in 0..MaxPages
BY WriteBackType DEF SaveVictim, diskVars, TypeOK

\* What is read into a frame is a page content.
LEMMA ReadPageType ==
    ASSUME NEW fl \in [PageIds -> Data], NEW len, NEW p \in PageIds, NEW d \in Data
    PROVE  ReadPage(fl, len, p, d) \in Data
BY DEF ReadPage

\* The list operators on sequences of frames, repetitions or not.
LEMMA WithoutType ==
    ASSUME NEW q \in Seq(Frames), NEW f
    PROVE  Without(q, f) \in Seq(Frames)
<1>1. CASE f \in ToSet(q)
  <2>1. Position(q, f) \in 1..Len(q)
    BY <1>1, PositionIsPlace
  <2> QED BY <1>1, <2>1, RemoveAtElements DEF Without
<1>2. CASE f \notin ToSet(q)
  BY <1>2 DEF Without
<1> QED BY <1>1, <1>2

LEMMA AllUnusedType ==
    AllUnused \in Seq(Frames) /\ <<>> \in Seq(Frames)
<1>1. \A i \in 1..Capacity : i - 1 \in Frames
  BY PoolAssumption DEF Frames
<1> QED BY <1>1, PoolAssumption DEF AllUnused

LEMMA InitType == Init => TypeOK
BY AllUnusedType, RecordTypes, PoolAssumption DEF Init, TypeOK, NoFrame

LEMMA FetchResidentType ==
    ASSUME TypeOK, NEW c \in Clients, NEW p \in PageIds, FetchResident(c, p)
    PROVE  TypeOK'
<1> DEFINE f == frameTable[p]
<1>1. f \in Frames
  BY DEF FetchResident, Resident, TypeOK
<1>2. frames' \in [Frames -> PageObject]
  BY <1>1, PinnedPage DEF FetchResident, TypeOK
<1>3. lru' \in Seq(Frames)
  BY WithoutType DEF FetchResident, TypeOK
<1>4. held' \in [Clients -> HoldRecord \cup {NoHold}]
  BY <1>1, RecordTypes DEF FetchResident, TypeOK, HoldRecord
<1> QED BY <1>2, <1>3, <1>4 DEF FetchResident, TypeOK, diskVars, HoldRecord

LEMMA FetchIntoUnusedType ==
    ASSUME TypeOK, NEW c \in Clients, NEW p \in PageIds, FetchIntoUnused(c, p)
    PROVE  TypeOK'
<1> DEFINE f == Head(unused)
           read == ReadPage(file, fileLen, p, frames[f].data)
<1>1. f \in Frames /\ Tail(unused) \in Seq(Frames)
  BY DEF FetchIntoUnused, TypeOK
<1>2. read \in Data
  BY <1>1, ReadPageType DEF TypeOK, PageObject
<1>3. frames' \in [Frames -> PageObject]
  BY <1>1, <1>2, RecordTypes DEF FetchIntoUnused, TypeOK
<1>4. lru' \in Seq(Frames)
  BY WithoutType DEF FetchIntoUnused, TypeOK
<1>5. held' \in [Clients -> HoldRecord \cup {NoHold}]
  BY <1>1, RecordTypes DEF FetchIntoUnused, TypeOK, HoldRecord
<1> QED BY <1>1, <1>3, <1>4, <1>5 DEF FetchIntoUnused, TypeOK, diskVars, HoldRecord

LEMMA FetchEvictingType ==
    ASSUME TypeOK, NEW c \in Clients, NEW p \in PageIds, FetchEvicting(c, p)
    PROVE  TypeOK'
<1> DEFINE f == Head(lru)
           read == ReadPage(file', fileLen', p, frames[f].data)
<1>1. f \in Frames /\ Tail(lru) \in Seq(Frames)
  BY DEF FetchEvicting, MayEvict, TypeOK
<1>2. file' \in [PageIds -> Data] /\ fileLen' \in 0..MaxPages
  BY <1>1, SaveVictimType DEF FetchEvicting
<1>3. read \in Data
  BY <1>1, <1>2, ReadPageType DEF TypeOK, PageObject
<1>4. frames' \in [Frames -> PageObject]
  BY <1>1, <1>3, RecordTypes DEF FetchEvicting, TypeOK
<1>5. held' \in [Clients -> HoldRecord \cup {NoHold}]
  BY <1>1, RecordTypes DEF FetchEvicting, TypeOK, HoldRecord
<1>6. frameTable' \in [PageIds -> Frames \cup {NoFrame}]
  BY <1>1 DEF FetchEvicting, TypeOK, WithoutVictim
<1> QED BY <1>1, <1>2, <1>4, <1>5, <1>6 DEF FetchEvicting, TypeOK, HoldRecord
LEMMA NewPageInUnusedType ==
    ASSUME TypeOK, NEW c \in Clients, NewPageInUnused(c)
    PROVE  TypeOK'
<1> DEFINE f == Head(unused)
<1>1. f \in Frames /\ Tail(unused) \in Seq(Frames)
  BY DEF NewPageInUnused, TypeOK
<1>2. nextPageId \in PageIds /\ nextPageId + 1 \in 0..MaxPages
  BY PoolAssumption DEF NewPageInUnused, MayAllocate, TypeOK, PageIds
<1>3. Zero \in Data
  BY PoolAssumption
<1>4. frames' \in [Frames -> PageObject]
  BY <1>1, <1>2, <1>3, RecordTypes DEF NewPageInUnused, TypeOK
<1>5. held' \in [Clients -> HoldRecord \cup {NoHold}]
  BY <1>1, <1>2, RecordTypes DEF NewPageInUnused, TypeOK
<1> QED BY <1>1, <1>2, <1>4, <1>5 DEF NewPageInUnused, TypeOK, diskVars

LEMMA NewPageEvictingType ==
    ASSUME TypeOK, NEW c \in Clients, NewPageEvicting(c)
    PROVE  TypeOK'
<1> DEFINE f == Head(lru)
<1>1. f \in Frames /\ Tail(lru) \in Seq(Frames)
  BY DEF NewPageEvicting, MayEvict, TypeOK
<1>2. nextPageId \in PageIds /\ nextPageId + 1 \in 0..MaxPages
  BY PoolAssumption DEF NewPageEvicting, MayAllocate, TypeOK, PageIds
<1>3. Zero \in Data
  BY PoolAssumption
<1>4. frames' \in [Frames -> PageObject]
  BY <1>1, <1>2, <1>3, RecordTypes DEF NewPageEvicting, TypeOK
<1>5. held' \in [Clients -> HoldRecord \cup {NoHold}]
  BY <1>1, <1>2, RecordTypes DEF NewPageEvicting, TypeOK
<1>6. file' \in [PageIds -> Data] /\ fileLen' \in 0..MaxPages
  BY <1>1, SaveVictimType DEF NewPageEvicting
<1>7. frameTable' \in [PageIds -> Frames \cup {NoFrame}]
  BY <1>1 DEF NewPageEvicting, TypeOK, WithoutVictim
<1> QED BY <1>1, <1>2, <1>4, <1>5, <1>6, <1>7 DEF NewPageEvicting, TypeOK

LEMMA WriteType ==
    ASSUME TypeOK, NEW c \in Clients, NEW d \in Data, Write(c, d)
    PROVE  TypeOK'
<1>1. held[c] \in HoldRecord
  BY DEF Write, InUse, TypeOK
<1>2. Written(held[c]) \in HoldRecord
  BY <1>1, Zenon DEF Written, HoldRecord
<1>3. held' \in [Clients -> HoldRecord \cup {NoHold}]
  BY <1>2 DEF Write, TypeOK
<1>4. frames' \in [Frames -> PageObject]
  BY FilledPage DEF Write, TypeOK
<1> QED BY <1>3, <1>4 DEF Write, TypeOK, diskVars

\* An unpin that is not refused finds a frame with a positive pin count.
LEMMA UnpinnableFrame ==
    ASSUME TypeOK, NEW c \in InUse, Unpinnable(held[c].page)
    PROVE  /\ held[c].page \in PageIds
           /\ frameTable[held[c].page] \in Frames
           /\ frames[frameTable[held[c].page]] \in PageObject
           /\ frames[frameTable[held[c].page]].pins > 0
<1>1. held[c] \in HoldRecord
  BY DEF InUse, TypeOK
<1>2. held[c].page \in PageIds
  BY <1>1 DEF HoldRecord
<1> QED BY <1>2 DEF Unpinnable, Resident, TypeOK

LEMMA UnpinPageType ==
    ASSUME TypeOK, NEW c \in Clients, NEW dirty \in BOOLEAN, UnpinPage(c, dirty)
    PROVE  TypeOK'
<1> DEFINE f == frameTable[held[c].page]
<1>1. f \in Frames /\ frames[f] \in PageObject /\ frames[f].pins > 0
  BY UnpinnableFrame DEF UnpinPage
<1>2. frames' \in [Frames -> PageObject]
  BY <1>1, UnpinnedPage DEF UnpinPage, TypeOK
<1>3. Append(Without(lru, f), f) \in Seq(Frames)
  BY <1>1, WithoutType DEF TypeOK
<1>4. lru' \in Seq(Frames)
  BY <1>3 DEF UnpinPage, TypeOK, Touched
<1>5. held' \in [Clients -> HoldRecord \cup {NoHold}]
  BY RecordTypes DEF UnpinPage, TypeOK
<1> QED BY <1>2, <1>4, <1>5 DEF UnpinPage, TypeOK, diskVars

LEMMA UnpinRefusedType ==
    ASSUME TypeOK, NEW c \in Clients, UnpinRefused(c)
    PROVE  TypeOK'
<1>1. held' \in [Clients -> HoldRecord \cup {NoHold}]
  BY RecordTypes DEF UnpinRefused, TypeOK
<1> QED BY <1>1 DEF UnpinRefused, TypeOK, poolVars, diskVars

LEMMA FlushPageType ==
    ASSUME TypeOK, NEW p \in PageIds, FlushPage(p)
    PROVE  TypeOK'
<1> DEFINE f == frameTable[p]
<1>1. f \in Frames
  BY DEF FlushPage, Resident, TypeOK
<1>2. file' \in [PageIds -> Data] /\ fileLen' \in 0..MaxPages
  BY <1>1, WriteBackType DEF FlushPage
<1>3. frames' \in [Frames -> PageObject]
  BY <1>1, CleanedPage DEF FlushPage, TypeOK
<1> QED BY <1>2, <1>3 DEF FlushPage, TypeOK

LEMMA DeletePageType ==
    ASSUME TypeOK, NEW p \in PageIds, DeletePage(p)
    PROVE  TypeOK'
<1> DEFINE f == frameTable[p]
<1>1. f \in Frames
  BY DEF DeletePage, Resident, TypeOK
<1>2. <<f>> \o unused \in Seq(Frames)
  BY <1>1 DEF TypeOK
<1>3. frames' \in [Frames -> PageObject]
  BY <1>1, RecordTypes DEF DeletePage, TypeOK
<1> QED BY <1>2, <1>3 DEF DeletePage, TypeOK, diskVars

LEMMA AllocatePageType ==
    ASSUME TypeOK, AllocatePage
    PROVE  TypeOK'
<1>1. nextPageId + 1 \in 0..MaxPages
  BY PoolAssumption DEF AllocatePage, MayAllocate, TypeOK
<1> QED BY <1>1 DEF AllocatePage, TypeOK, poolVars, diskVars

LEMMA IOFailureType ==
    ASSUME TypeOK, IOFailure
    PROVE  TypeOK'
<1>1. ASSUME NEW c \in Clients, NewPageWriteFails(c)
      PROVE  TypeOK'
  <2>1. Tail(lru) \in Seq(Frames)
    BY <1>1 DEF NewPageWriteFails, EvictionFails, MayEvict, TypeOK
  <2>2. nextPageId + 1 \in 0..MaxPages
    BY <1>1, PoolAssumption DEF NewPageWriteFails, MayAllocate, TypeOK
  <2> QED
    BY <1>1, <2>1, <2>2
    DEF NewPageWriteFails, EvictionFails, TypeOK, diskVars
<1>2. ASSUME NEW c \in Clients, NEW p \in PageIds, FetchWriteFails(c, p)
      PROVE  TypeOK'
  <2>1. Tail(lru) \in Seq(Frames)
    BY <1>2 DEF FetchWriteFails, EvictionFails, MayEvict, TypeOK
  <2> QED BY <1>2, <2>1 DEF FetchWriteFails, EvictionFails, TypeOK, diskVars
<1>3. ASSUME NEW c \in Clients, NEW p \in PageIds, UnusedReadFails(c, p)
      PROVE  TypeOK'
  <2>1. Head(unused) \in Frames /\ Tail(unused) \in Seq(Frames)
    BY <1>3 DEF UnusedReadFails, TypeOK
  <2>2. frames[Head(unused)].data \in Data
    BY <2>1, PageFields DEF TypeOK
  <2>3. frames' \in [Frames -> PageObject]
    BY <1>3, <2>1, <2>2, RecordTypes DEF UnusedReadFails, TypeOK
  <2> QED BY <1>3, <2>1, <2>3 DEF UnusedReadFails, TypeOK, diskVars
<1>4. ASSUME NEW c \in Clients, NEW p \in PageIds, EvictingReadFails(c, p)
      PROVE  TypeOK'
  <2>1. Head(lru) \in Frames /\ Tail(lru) \in Seq(Frames)
    BY <1>4 DEF EvictingReadFails, MayEvict, TypeOK
  <2>2. frames[Head(lru)].data \in Data
    BY <2>1, PageFields DEF TypeOK
  <2>3. frames' \in [Frames -> PageObject]
    BY <1>4, <2>1, <2>2, RecordTypes DEF EvictingReadFails, TypeOK
  <2>4. file' \in [PageIds -> Data] /\ fileLen' \in 0..MaxPages
    BY <1>4, <2>1, SaveVictimType DEF EvictingReadFails
  <2>5. frameTable' \in [PageIds -> Frames \cup {NoFrame}]
    BY <1>4 DEF EvictingReadFails, TypeOK, WithoutVictim
  <2> QED BY <1>4, <2>1, <2>3, <2>4, <2>5 DEF EvictingReadFails, TypeOK
<1> QED BY <1>1, <1>2, <1>3, <1>4 DEF IOFailure, WriteFailure, ReadFailure

LEMMA CrashType ==
    ASSUME TypeOK, Crash
    PROVE  TypeOK'
<1>1. AllUnused \in Seq(Frames) /\ <<>> \in Seq(Frames)
  BY AllUnusedType
<1> QED BY <1>1, RecordTypes DEF Crash, TypeOK, diskVars, NoFrame

LEMMA NextType == TypeOK /\ [Next]_vars => TypeOK'
<1> SUFFICES ASSUME TypeOK, [Next]_vars PROVE TypeOK'
  OBVIOUS
<1>1. ASSUME NEW c \in Clients, ClientStep(c) PROVE TypeOK'
  BY <1>1, FetchResidentType, FetchIntoUnusedType, FetchEvictingType,
     NewPageInUnusedType, NewPageEvictingType, WriteType, UnpinPageType,
     UnpinRefusedType DEF ClientStep
<1>2. CASE AllocatePage
  BY <1>2, AllocatePageType
<1>3. ASSUME NEW p \in PageIds, FlushPage(p) \/ DeletePage(p) PROVE TypeOK'
  BY <1>3, FlushPageType, DeletePageType
<1>4. CASE IOFailure
  BY <1>4, IOFailureType
<1>5. CASE Crash
  BY <1>5, CrashType
<1>6. CASE UNCHANGED vars
  BY <1>6 DEF vars, TypeOK
<1> QED BY <1>1, <1>2, <1>3, <1>4, <1>5, <1>6 DEF Next

\* Every variable of the pool keeps its type.
THEOREM TypeCorrect == Spec => []TypeOK
BY InitType, NextType, PTL DEF Spec

-----------------------------------------------------------------------------
(***************************************************************************)
(* 2. The frame table and the unused frames, with every call and failure.  *)
(***************************************************************************)

Structure == TypeOK /\ TableMatchesFrames /\ UnusedFramesAreFree

\* A frame serves at most one page, and an unused one none.
LEMMA FramesServeOnePage ==
    ASSUME Structure, NEW p \in PageIds, Resident(p)
    PROVE  /\ frameTable[p] \in Frames
           /\ frameTable[p] \notin ToSet(unused)
           /\ \A q \in PageIds : frameTable[q] = frameTable[p] => q = p
<1>1. frameTable[p] \in Frames /\ NoFrame \notin Frames
  BY PoolAssumption DEF Structure, TypeOK, Resident, Frames, NoFrame
<1>2. frameTable[p] \notin ToSet(unused)
  BY <1>1 DEF Structure, UnusedFramesAreFree, Mapped
<1>3. \A q \in PageIds : frameTable[q] = frameTable[p] => q = p
  BY <1>1 DEF Structure, TableMatchesFrames, Resident
<1> QED BY <1>1, <1>2, <1>3

\* A new value for the Page of one frame f that keeps its page_id and, if f is
\* unused, is not made, leaves the structure as it is.
LEMMA SamePagesKeepStructure ==
    ASSUME Structure, TypeOK',
           UNCHANGED <<frameTable, unused>>,
           NEW f \in Frames, f \notin ToSet(unused),
           \A g \in Frames \ {f} : frames'[g] = frames[g],
           frames'[f].page_id = frames[f].page_id
    PROVE  Structure'
<1>1. TableMatchesFrames'
  BY DEF Structure, TypeOK, TableMatchesFrames, Resident
<1>2. UnusedFramesAreFree'
  <2>1. \A g \in ToSet(unused) : g \in Frames
    BY DEF Structure, TypeOK, ToSet
  <2> QED BY <2>1 DEF Structure, UnusedFramesAreFree, Mapped
<1> QED BY <1>1, <1>2 DEF Structure

\* Frame f, taken from the front of unused_frames_, starts to serve p.
LEMMA UnusedFrameTaken ==
    ASSUME Structure, TypeOK', unused # <<>>, NEW p \in PageIds,
           unused' = Tail(unused),
           frameTable' = [frameTable EXCEPT ![p] = Head(unused)],
           \A g \in Frames \ {Head(unused)} : frames'[g] = frames[g],
           frames'[Head(unused)].page_id = p
    PROVE  Structure'
<1> DEFINE f == Head(unused)
<1>1. /\ f \in Frames /\ f \in ToSet(unused)
      /\ NoRepetition(Tail(unused))
      /\ ToSet(Tail(unused)) = ToSet(unused) \ {f}
  BY TailProperties DEF Structure, TypeOK, UnusedFramesAreFree
<1>2. \A q \in PageIds : frameTable[q] # f
  BY <1>1 DEF Structure, UnusedFramesAreFree, Mapped
<1>3. TableMatchesFrames'
  BY <1>1, <1>2 DEF Structure, TypeOK, TableMatchesFrames, Resident
<1>4. UnusedFramesAreFree'
  <2>1. \A g \in ToSet(unused) : g \in Frames
    BY DEF Structure, TypeOK, ToSet
  <2> QED BY <1>1, <2>1 DEF Structure, TypeOK, UnusedFramesAreFree, Mapped
<1> QED BY <1>3, <1>4 DEF Structure

\* A frame f that the replacer gave up starts to serve p, nothing being unused.
LEMMA VictimTaken ==
    ASSUME Structure, TypeOK', unused = <<>>, unused' = <<>>,
           NEW f \in Frames, NEW p \in PageIds,
           frameTable' = [WithoutVictim(f) EXCEPT ![p] = f],
           \A g \in Frames \ {f} : frames'[g] = frames[g],
           frames'[f].page_id = p
    PROVE  Structure'
<1>1. \A q \in PageIds : frameTable'[q] # NoFrame /\ q # p =>
        frameTable'[q] = frameTable[q] /\ q # frames[f].page_id
  BY DEF Structure, TypeOK, WithoutVictim
<1>2. frameTable'[p] = f
  BY DEF Structure, TypeOK, WithoutVictim
<1>3. TableMatchesFrames'
  BY <1>1, <1>2 DEF Structure, TypeOK, TableMatchesFrames, Resident
<1>4. UnusedFramesAreFree'
  BY DEF UnusedFramesAreFree, NoRepetition, ToSet
<1> QED BY <1>3, <1>4 DEF Structure

LEMMA ClientStepStructure ==
    ASSUME Structure, TypeOK', NEW c \in Clients, ClientStep(c)
    PROVE  Structure'
<1>1. ASSUME NEW p \in PageIds, FetchResident(c, p) PROVE Structure'
  <2>1. frames[frameTable[p]] \in PageObject
    BY <1>1, FramesServeOnePage DEF FetchResident, Structure, TypeOK
  <2> QED
    BY <1>1, <2>1, PinnedPage, FramesServeOnePage, SamePagesKeepStructure
    DEF FetchResident, Structure, TypeOK
<1>2. ASSUME NEW p \in PageIds, FetchIntoUnused(c, p) PROVE Structure'
  <2>1. Head(unused) \in Frames
    BY <1>2 DEF FetchIntoUnused, Structure, TypeOK
  <2>2. frames'[Head(unused)].page_id = p
    BY <1>2, <2>1 DEF FetchIntoUnused, Structure, TypeOK, LoadedPage
  <2>3. \A g \in Frames \ {Head(unused)} : frames'[g] = frames[g]
    BY <1>2 DEF FetchIntoUnused, Structure, TypeOK
  <2> QED BY <1>2, <2>2, <2>3, UnusedFrameTaken DEF FetchIntoUnused
<1>3. ASSUME NEW p \in PageIds, FetchEvicting(c, p) PROVE Structure'
  <2>1. Head(lru) \in Frames
    BY <1>3 DEF FetchEvicting, MayEvict, Structure, TypeOK
  <2>2. frames'[Head(lru)].page_id = p
    BY <1>3, <2>1 DEF FetchEvicting, Structure, TypeOK, LoadedPage
  <2>3. \A g \in Frames \ {Head(lru)} : frames'[g] = frames[g]
    BY <1>3 DEF FetchEvicting, Structure, TypeOK
  <2> QED BY <1>3, <2>1, <2>2, <2>3, VictimTaken DEF FetchEvicting, MayEvict
<1>4. ASSUME NewPageInUnused(c) PROVE Structure'
  <2>1. Head(unused) \in Frames
    BY <1>4 DEF NewPageInUnused, Structure, TypeOK
  <2>2. nextPageId \in PageIds
    BY <1>4, PoolAssumption
    DEF NewPageInUnused, MayAllocate, Structure, TypeOK, PageIds
  <2>3. frames'[Head(unused)].page_id = nextPageId
    BY <1>4, <2>1 DEF NewPageInUnused, Structure, TypeOK, FreshPage
  <2>4. \A g \in Frames \ {Head(unused)} : frames'[g] = frames[g]
    BY <1>4 DEF NewPageInUnused, Structure, TypeOK
  <2> QED BY <1>4, <2>2, <2>3, <2>4, UnusedFrameTaken DEF NewPageInUnused
<1>5. ASSUME NewPageEvicting(c) PROVE Structure'
  <2>1. Head(lru) \in Frames
    BY <1>5 DEF NewPageEvicting, MayEvict, Structure, TypeOK
  <2>2. nextPageId \in PageIds
    BY <1>5, PoolAssumption
    DEF NewPageEvicting, MayAllocate, Structure, TypeOK, PageIds
  <2>3. frames'[Head(lru)].page_id = nextPageId
    BY <1>5, <2>1 DEF NewPageEvicting, Structure, TypeOK, FreshPage
  <2>4. \A g \in Frames \ {Head(lru)} : frames'[g] = frames[g]
    BY <1>5 DEF NewPageEvicting, Structure, TypeOK
  <2> QED
    BY <1>5, <2>1, <2>2, <2>3, <2>4, VictimTaken DEF NewPageEvicting, MayEvict
<1>6. ASSUME NEW d \in Data, Write(c, d) PROVE Structure'
  \* The frame written to may be one that has been deleted and is unused.
  <2>1. \A f \in Frames : /\ frames'[f].page_id = frames[f].page_id
                          /\ frames'[f].pins = frames[f].pins
    BY <1>6, FilledPage DEF Write, Structure, TypeOK
  <2>2. \A f \in ToSet(unused) : f \in Frames
    BY DEF Structure, TypeOK, ToSet
  <2> QED
    BY <1>6, <2>1, <2>2 DEF Write, Structure, TypeOK, TableMatchesFrames,
       UnusedFramesAreFree, Mapped, Resident
<1>7. ASSUME NEW dirty \in BOOLEAN, UnpinPage(c, dirty) PROVE Structure'
  <2> DEFINE p == held[c].page
  <2>1. /\ p \in PageIds /\ Resident(p)
        /\ frames[frameTable[p]] \in PageObject
        /\ frames[frameTable[p]].pins > 0
    BY <1>7, UnpinnableFrame DEF UnpinPage, Unpinnable, Structure
  <2> HIDE DEF p
  <2>2. frameTable[p] \in Frames /\ frameTable[p] \notin ToSet(unused)
    BY <2>1, FramesServeOnePage
  <2>3. frames' = [frames EXCEPT ![frameTable[p]] = Unpinned(@, dirty)]
    BY <1>7 DEF UnpinPage, p
  <2>4. frames'[frameTable[p]].page_id = frames[frameTable[p]].page_id
    BY <2>1, <2>2, <2>3, UnpinnedPage DEF Structure, TypeOK
  <2>5. \A g \in Frames \ {frameTable[p]} : frames'[g] = frames[g]
    BY <2>3 DEF Structure, TypeOK
  <2> QED BY <1>7, <2>2, <2>4, <2>5, SamePagesKeepStructure DEF UnpinPage
<1>8. ASSUME UnpinRefused(c) PROVE Structure'
  BY <1>8 DEF UnpinRefused, poolVars, Structure, TableMatchesFrames,
     UnusedFramesAreFree, Mapped, Resident
<1> QED BY <1>1, <1>2, <1>3, <1>4, <1>5, <1>6, <1>7, <1>8 DEF ClientStep
LEMMA DeletePageStructure ==
    ASSUME Structure, TypeOK', NEW p \in PageIds, DeletePage(p)
    PROVE  Structure'
<1> DEFINE f == frameTable[p]
<1>1. /\ f \in Frames /\ f \notin ToSet(unused)
      /\ \A q \in PageIds : frameTable[q] = f => q = p
  BY FramesServeOnePage DEF DeletePage
<1>2. /\ frameTable' = [frameTable EXCEPT ![p] = NoFrame]
      /\ frames' = [frames EXCEPT ![f] = EmptyPage]
      /\ unused' = <<f>> \o unused
  BY DEF DeletePage
<1> HIDE DEF f
<1>3. NoFrame \notin Frames
  BY DEF Frames, NoFrame
<1>4. TableMatchesFrames'
  BY <1>1, <1>2, <1>3 DEF Structure, TypeOK, TableMatchesFrames, Resident
<1>5. /\ NoRepetition(unused') /\ ToSet(unused') = ToSet(unused) \cup {f}
  BY <1>1, <1>2, ConsProperties DEF Structure, TypeOK, UnusedFramesAreFree
<1>6. \A g \in Frames : frameTable' [p] # g
  BY <1>2, <1>3 DEF Structure, TypeOK
<1>7. \A g \in ToSet(unused') : g \notin Mapped' /\ frames'[g].pins = 0
  <2>1. \A g \in ToSet(unused) : g \in Frames
    BY DEF Structure, TypeOK, ToSet
  <2>2. ASSUME NEW g \in ToSet(unused) PROVE g \notin Mapped' /\ frames'[g].pins = 0
    BY <1>1, <1>2, <1>6, <2>1 DEF Structure, TypeOK, UnusedFramesAreFree, Mapped
  <2>3. f \notin Mapped' /\ frames'[f].pins = 0
    BY <1>1, <1>2, <1>6 DEF Structure, TypeOK, Mapped, EmptyPage
  <2> QED BY <1>5, <2>2, <2>3
<1> QED BY <1>4, <1>5, <1>7 DEF Structure, UnusedFramesAreFree

LEMMA IOFailureStructure ==
    ASSUME Structure, TypeOK', IOFailure
    PROVE  Structure'
<1>1. ASSUME NEW c \in Clients, NewPageWriteFails(c) PROVE Structure'
  BY <1>1 DEF NewPageWriteFails, Structure, TableMatchesFrames,
     UnusedFramesAreFree, Mapped, Resident
<1>2. ASSUME NEW c \in Clients, NEW p \in PageIds, FetchWriteFails(c, p)
      PROVE  Structure'
  BY <1>2 DEF FetchWriteFails, Structure, TableMatchesFrames,
     UnusedFramesAreFree, Mapped, Resident
<1>3. ASSUME NEW c \in Clients, NEW p \in PageIds, UnusedReadFails(c, p)
      PROVE  Structure'
  <2> DEFINE f == Head(unused)
  <2>1. /\ unused # <<>> /\ unused' = Tail(unused)
        /\ frames' = [frames EXCEPT ![f] = LoadedPage(p, frames[f].data)]
        /\ frameTable' = frameTable
    BY <1>3 DEF UnusedReadFails
  <2> HIDE DEF f
  <2>2. /\ f \in Frames /\ f \in ToSet(unused)
        /\ NoRepetition(unused') /\ ToSet(unused') = ToSet(unused) \ {f}
    BY <2>1, TailProperties DEF Structure, TypeOK, UnusedFramesAreFree, f
  <2>3. \A q \in PageIds : frameTable[q] # f
    BY <2>2 DEF Structure, UnusedFramesAreFree, Mapped
  <2>4. TableMatchesFrames'
    BY <2>1, <2>2, <2>3 DEF Structure, TypeOK, TableMatchesFrames, Resident
  <2>5. \A g \in ToSet(unused) : g \in Frames
    BY DEF Structure, TypeOK, ToSet
  <2>6. UnusedFramesAreFree'
    BY <2>1, <2>2, <2>5 DEF Structure, TypeOK, UnusedFramesAreFree, Mapped
  <2> QED BY <2>4, <2>6 DEF Structure
<1>4. ASSUME NEW c \in Clients, NEW p \in PageIds, EvictingReadFails(c, p)
      PROVE  Structure'
  <2> DEFINE f == Head(lru)
  <2>1. /\ unused = <<>> /\ unused' = <<>> /\ f \in Frames
        /\ frames' = [frames EXCEPT ![f] = LoadedPage(p, frames[f].data)]
        /\ frameTable' = WithoutVictim(f)
    BY <1>4 DEF EvictingReadFails, MayEvict, Structure, TypeOK
  <2> HIDE DEF f
  <2>2. \A q \in PageIds : frameTable'[q] # NoFrame =>
          frameTable'[q] = frameTable[q] /\ q # frames[f].page_id
    BY <2>1 DEF Structure, TypeOK, WithoutVictim
  <2>3. TableMatchesFrames'
    BY <2>1, <2>2 DEF Structure, TypeOK, TableMatchesFrames, Resident
  <2>4. UnusedFramesAreFree'
    BY <2>1 DEF UnusedFramesAreFree, NoRepetition, ToSet
  <2> QED BY <2>3, <2>4 DEF Structure
<1> QED BY <1>1, <1>2, <1>3, <1>4 DEF IOFailure, WriteFailure, ReadFailure

\* The unused frames of a pool that has just been constructed.
LEMMA AllUnusedOnce ==
    /\ NoRepetition(AllUnused)
    /\ \A f \in ToSet(AllUnused) : f \in Frames
    /\ NoFrame \notin Frames
<1>1. NoRepetition(AllUnused)
  BY PoolAssumption DEF AllUnused, NoRepetition
<1>2. \A f \in ToSet(AllUnused) : f \in Frames
  BY AllUnusedType DEF ToSet
<1> QED BY <1>1, <1>2 DEF Frames, NoFrame

LEMMA InitStructure == Init => Structure
BY InitType, AllUnusedOnce DEF Init, Structure, TableMatchesFrames, Resident,
   UnusedFramesAreFree, Mapped, EmptyPage

LEMMA CrashStructure ==
    ASSUME TypeOK', Crash
    PROVE  Structure'
BY AllUnusedOnce DEF Crash, Structure, TableMatchesFrames, Resident,
   UnusedFramesAreFree, Mapped, EmptyPage

LEMMA NextStructure == Structure /\ [Next]_vars => Structure'
<1> SUFFICES ASSUME Structure, [Next]_vars PROVE Structure'
  OBVIOUS
<1>1. TypeOK'
  BY NextType DEF Structure
<1>2. ASSUME NEW c \in Clients, ClientStep(c) PROVE Structure'
  BY <1>1, <1>2, ClientStepStructure
<1>3. CASE AllocatePage
  BY <1>1, <1>3 DEF AllocatePage, poolVars, Structure, TableMatchesFrames,
     UnusedFramesAreFree, Mapped, Resident
<1>4. ASSUME NEW p \in PageIds, FlushPage(p) PROVE Structure'
  <2> DEFINE f == frameTable[p]
  <2>1. f \in Frames /\ f \notin ToSet(unused)
    BY <1>4, FramesServeOnePage DEF FlushPage
  <2>2. frames'[f].page_id = frames[f].page_id
    BY <1>4, <2>1, CleanedPage DEF FlushPage, Structure, TypeOK
  <2>3. \A g \in Frames \ {f} : frames'[g] = frames[g]
    BY <1>4 DEF FlushPage, Structure, TypeOK
  <2> QED
    BY <1>1, <1>4, <2>1, <2>2, <2>3, SamePagesKeepStructure DEF FlushPage
<1>5. ASSUME NEW p \in PageIds, DeletePage(p) PROVE Structure'
  BY <1>1, <1>5, DeletePageStructure
<1>6. CASE IOFailure
  BY <1>1, <1>6, IOFailureStructure
<1>7. CASE Crash
  BY <1>1, <1>7, CrashStructure
<1>8. CASE UNCHANGED vars
  BY <1>8 DEF vars, Structure, TypeOK, TableMatchesFrames,
     UnusedFramesAreFree, Mapped, Resident
<1> QED BY <1>2, <1>3, <1>4, <1>5, <1>6, <1>7, <1>8 DEF Next

LEMMA StructureInvariant == Spec => []Structure
BY InitStructure, NextStructure, PTL DEF Spec

\* With every kind of call and failure, each entry of frame_table_ leads to a
\* frame that holds that page.
THEOREM TableCorrect == Spec => []TableMatchesFrames
BY StructureInvariant, PTL DEF Structure

\* With every kind of call and failure, the frames of unused_frames_ are listed
\* once, serve no page and are not pinned.
THEOREM UnusedCorrect == Spec => []UnusedFramesAreFree
BY StructureInvariant, PTL DEF Structure

-----------------------------------------------------------------------------
(***************************************************************************)
(* 3. Pins, holders and victims.                                           *)
(***************************************************************************)

Disciplined == ~Deletes /\ ~Probes

\* An identifier that allocatePage has yet to return is nowhere in the pool, and
\* the file ends before it.
FreshIdsAreUnknown ==
    /\ fileLen <= nextPageId
    /\ \A p \in PageIds : Resident(p) => p < nextPageId

PinInv ==
    /\ Structure
    /\ OnlyUnpinnedAreEvictable
    /\ PinsCountHolders
    /\ HeldPagesStay
    /\ FreshIdsAreUnknown

Holders(f) == {c \in InUse : held[c].frame = f}

(***************************************************************************)
(* Counting holders.                                                       *)
(***************************************************************************)

LEMMA HoldersFinite ==
    ASSUME NEW f
    PROVE  /\ IsFiniteSet(Holders(f))
           /\ Cardinality(Holders(f)) \in Nat
           /\ Cardinality(Holders(f)) = 0 <=> Holders(f) = {}
<1>1. IsFiniteSet(Clients) /\ Holders(f) \in SUBSET Clients
  BY PoolAssumption DEF Holders, InUse
<1>2. IsFiniteSet(Holders(f))
  BY <1>1, FS_Subset
<1> QED BY <1>2, FS_EmptySet, FS_CardinalityType

\* What a client holds is never taken for NoHold.
LEMMA HoldIsNotNoHold ==
    /\ \A p \in PageIds, f \in Frames : Hold(p, f) # NoHold
    /\ \A h \in HoldRecord : h # NoHold /\ Written(h) # NoHold
<1>1. INVALID_PAGE_ID \notin PageIds
  BY DEF INVALID_PAGE_ID, PageIds
<1>2. ASSUME NEW p \in PageIds, NEW f \in Frames PROVE Hold(p, f) # NoHold
  <2>1. Hold(p, f).page = p /\ NoHold.page = INVALID_PAGE_ID
    BY DEF Hold, NoHold
  <2> QED BY <1>1, <2>1
<1>3. ASSUME NEW h \in HoldRecord PROVE h # NoHold /\ Written(h) # NoHold
  <2>1. /\ h.page \in PageIds /\ Written(h).page = h.page
        /\ NoHold.page = INVALID_PAGE_ID
    BY Zenon DEF HoldRecord, NoHold, Written
  <2> QED BY <1>1, <2>1
<1> QED BY <1>2, <1>3

\* A client takes hold of frame f.
LEMMA HolderAdded ==
    ASSUME TypeOK, NEW c \in Clients, NEW p \in PageIds, NEW f \in Frames,
           held[c] = NoHold, held' = [held EXCEPT ![c] = Hold(p, f)]
    PROVE  /\ InUse' = InUse \cup {c}
           /\ Cardinality(Holders(f)') = Cardinality(Holders(f)) + 1
           /\ \A g \in Frames \ {f} : Holders(g)' = Holders(g)
<1>1. /\ held'[c] = Hold(p, f) /\ Hold(p, f) # NoHold
      /\ Hold(p, f).frame = f
      /\ \A d \in Clients \ {c} : held'[d] = held[d]
  BY HoldIsNotNoHold DEF TypeOK, Hold
<1>2. InUse' = InUse \cup {c} /\ c \notin InUse
  BY <1>1 DEF InUse
<1>3. Holders(f)' = Holders(f) \cup {c} /\ c \notin Holders(f)
  BY <1>1, <1>2 DEF Holders, InUse
<1>4. \A g \in Frames \ {f} : Holders(g)' = Holders(g)
  BY <1>1, <1>2 DEF Holders, InUse
<1> QED BY <1>2, <1>3, <1>4, HoldersFinite, FS_AddElement

\* A client lets go of what it held.
LEMMA HolderRemoved ==
    ASSUME TypeOK, NEW c \in InUse, NEW f, held[c].frame = f,
           held' = [held EXCEPT ![c] = NoHold]
    PROVE  /\ InUse' = InUse \ {c}
           /\ Cardinality(Holders(f)') = Cardinality(Holders(f)) - 1
           /\ \A g \in Frames \ {f} : Holders(g)' = Holders(g)
<1>1. /\ c \in Clients /\ held'[c] = NoHold
      /\ \A d \in Clients \ {c} : held'[d] = held[d]
  BY DEF TypeOK, InUse
<1>2. InUse' = InUse \ {c}
  BY <1>1 DEF InUse
<1>3. Holders(f)' = Holders(f) \ {c} /\ c \in Holders(f)
  BY <1>1, <1>2 DEF Holders, InUse
<1>4. \A g \in Frames \ {f} : Holders(g)' = Holders(g)
  BY <1>1, <1>2 DEF Holders, InUse
<1> QED BY <1>2, <1>3, <1>4, HoldersFinite, FS_RemoveElement

\* Who holds a frame has it mapped; a frame that serves no page has no holder.
LEMMA HeldFramesAreMapped ==
    ASSUME PinInv, NEW c \in InUse
    PROVE  /\ held[c] \in HoldRecord
           /\ held[c].page \in PageIds
           /\ held[c].frame \in Frames
           /\ held[c].frame \in Mapped
<1>1. held[c] \in HoldRecord
  BY DEF PinInv, Structure, TypeOK, InUse
<1>2. held[c].page \in PageIds /\ held[c].frame \in Frames
  BY <1>1 DEF HoldRecord
<1> QED BY <1>1, <1>2 DEF PinInv, HeldPagesStay, Mapped

LEMMA NoHolders ==
    ASSUME PinInv, NEW f \in Frames, f \in Mapped => frames[f].pins = 0
    PROVE  Holders(f) = {}
<1>1. CASE f \in Mapped
  <2>1. Cardinality(Holders(f)) = 0
    BY <1>1 DEF PinInv, PinsCountHolders, Holders
  <2> QED BY <2>1, HoldersFinite
<1>2. CASE f \notin Mapped
  BY <1>2, HeldFramesAreMapped DEF Holders
<1> QED BY <1>1, <1>2

(***************************************************************************)
(* The ways a step changes what frames serve.                              *)
(***************************************************************************)

PinProperties == OnlyUnpinnedAreEvictable /\ PinsCountHolders /\ HeldPagesStay

\* A frame nobody holds stops serving its page, if it had one, and serves p for
\* client c.
LEMMA FrameTaken ==
    ASSUME PinInv, TypeOK',
           NEW c \in Clients, NEW p \in PageIds, NEW f \in Frames,
           held[c] = NoHold, held' = [held EXCEPT ![c] = Hold(p, f)],
           ~Resident(p), Holders(f) = {},
           frames'[f].pins = 1,
           \A g \in Frames \ {f} : frames'[g] = frames[g],
           frameTable'[p] = f,
           \A q \in PageIds \ {p} :
               frameTable'[q] = IF frameTable[q] = f THEN NoFrame
                                                     ELSE frameTable[q],
           NoRepetition(lru'), ToSet(lru') = ToSet(lru) \ {f}
    PROVE  PinProperties'
<1>1. NoFrame \notin Frames
  BY AllUnusedOnce
<1>2. TypeOK
  BY DEF PinInv, Structure
<1>3. /\ InUse' = InUse \cup {c}
      /\ Cardinality(Holders(f)') = Cardinality(Holders(f)) + 1
      /\ \A g \in Frames \ {f} : Holders(g)' = Holders(g)
  BY <1>2, HolderAdded
<1>4. Mapped' = Mapped \cup {f}
  BY <1>1 DEF Mapped, Resident
<1>5. \A g \in ToSet(lru) : g \in Frames
  BY <1>2 DEF TypeOK, ToSet
<1>6. OnlyUnpinnedAreEvictable'
  BY <1>4, <1>5 DEF PinInv, OnlyUnpinnedAreEvictable
<1>7. PinsCountHolders'
  <2>1. SUFFICES ASSUME NEW g \in Mapped'
                 PROVE  frames'[g].pins = Cardinality(Holders(g)')
    BY DEF PinsCountHolders, Holders
  <2>2. CASE g = f
    <3>1. Cardinality(Holders(f)) = 0
      BY HoldersFinite
    <3> QED BY <1>3, <2>2, <3>1
  <2>3. CASE g # f
    <3>1. g \in Mapped /\ g \in Frames
      BY <1>4, <2>1, <2>3 DEF Mapped
    <3> QED BY <1>3, <2>3, <3>1 DEF PinInv, PinsCountHolders, Holders
  <2> QED BY <2>2, <2>3
<1>8. HeldPagesStay'
  <2>1. SUFFICES ASSUME NEW d \in InUse'
                 PROVE  frameTable'[held'[d].page] = held'[d].frame
    BY DEF HeldPagesStay
  <2>2. CASE d = c
    BY <1>2, <2>2 DEF Hold, TypeOK
  <2>3. CASE d # c
    <3>1. d \in InUse /\ held'[d] = held[d]
      BY <1>2, <1>3, <2>1, <2>3 DEF TypeOK, InUse
    <3>2. held[d].frame # f /\ held[d].page \in PageIds /\ held[d].frame \in Frames
      BY <3>1, HeldFramesAreMapped DEF Holders
    <3>3. frameTable[held[d].page] = held[d].frame
      BY <3>1 DEF PinInv, HeldPagesStay
    <3>4. held[d].page # p
      BY <1>1, <3>2, <3>3 DEF Resident
    <3> QED BY <3>1, <3>2, <3>3, <3>4
  <2> QED BY <2>2, <2>3
<1> QED BY <1>6, <1>7, <1>8 DEF PinProperties

\* A step that leaves the table, the replacer and the holds as they are, and of
\* the frames that serve a page every pin count.
LEMMA PinsUntouched ==
    ASSUME PinInv, UNCHANGED <<frameTable, held>>,
           NoRepetition(lru'), ToSet(lru') \subseteq ToSet(lru),
           \A g \in Mapped : frames'[g].pins = frames[g].pins
    PROVE  PinProperties'
<1>1. Mapped' = Mapped /\ InUse' = InUse
  BY DEF Mapped, InUse
<1> QED
  BY <1>1 DEF PinInv, PinProperties, OnlyUnpinnedAreEvictable,
     PinsCountHolders, HeldPagesStay

LEMMA FetchResidentPins ==
    ASSUME PinInv, TypeOK', NEW c \in Clients, NEW p \in PageIds,
           FetchResident(c, p)
    PROVE  PinProperties'
<1>1. PICK f \in Frames :
        /\ held[c] = NoHold
        /\ frames' = [frames EXCEPT ![f] = Pinned(@)]
        /\ held' = [held EXCEPT ![c] = Hold(p, f)]
        /\ lru' = Without(lru, f)
        /\ frameTable' = frameTable /\ frameTable[p] = f
  <2>1. frameTable[p] \in Frames
    BY FramesServeOnePage DEF FetchResident, PinInv
  <2> QED BY <2>1 DEF FetchResident, MayFetch
<1>2. TypeOK
  BY DEF PinInv, Structure
<1>3. /\ NoRepetition(lru') /\ ToSet(lru') = ToSet(lru) \ {f}
  BY <1>1, <1>2, WithoutProperties DEF PinInv, OnlyUnpinnedAreEvictable, TypeOK
<1>4. /\ InUse' = InUse \cup {c}
      /\ Cardinality(Holders(f)') = Cardinality(Holders(f)) + 1
      /\ \A g \in Frames \ {f} : Holders(g)' = Holders(g)
  BY <1>1, <1>2, HolderAdded
<1>5. /\ frames'[f].pins = frames[f].pins + 1
      /\ \A g \in Frames \ {f} : frames'[g] = frames[g]
  BY <1>1, <1>2, PinnedPage DEF TypeOK
<1>6. Mapped' = Mapped
  BY <1>1 DEF Mapped
<1>7. OnlyUnpinnedAreEvictable'
  BY <1>3, <1>5, <1>6 DEF PinInv, OnlyUnpinnedAreEvictable, Mapped
<1>8. PinsCountHolders'
  <2>1. ASSUME NEW g \in Mapped
        PROVE  frames'[g].pins = Cardinality(Holders(g)')
    <3>1. g \in Frames /\ frames[g].pins = Cardinality(Holders(g))
      BY DEF PinInv, PinsCountHolders, Holders, Mapped
    <3>2. CASE g = f
      BY <1>4, <1>5, <3>1, <3>2
    <3>3. CASE g # f
      BY <1>4, <1>5, <3>1, <3>3
    <3> QED BY <3>2, <3>3
  <2> QED BY <1>6, <2>1 DEF PinsCountHolders, Holders
<1>9. HeldPagesStay'
  <2>1. SUFFICES ASSUME NEW d \in InUse'
                 PROVE  frameTable'[held'[d].page] = held'[d].frame
    BY DEF HeldPagesStay
  <2>2. CASE d = c
    BY <1>1, <1>2, <2>2 DEF Hold, TypeOK
  <2>3. CASE d # c
    <3>1. d \in InUse /\ held'[d] = held[d]
      BY <1>1, <1>2, <1>4, <2>1, <2>3 DEF TypeOK, InUse
    <3> QED BY <1>1, <3>1 DEF PinInv, HeldPagesStay
  <2> QED BY <2>2, <2>3
<1> QED BY <1>7, <1>8, <1>9 DEF PinProperties

\* The front of unused_frames_ serves no page and is not evictable.
LEMMA UnusedFront ==
    ASSUME PinInv, unused # <<>>
    PROVE  /\ Head(unused) \in Frames
           /\ \A q \in PageIds : frameTable[q] # Head(unused)
           /\ Head(unused) \notin ToSet(lru)
           /\ Holders(Head(unused)) = {}
<1>1. Head(unused) \in ToSet(unused) /\ Head(unused) \in Frames
  BY TailProperties DEF PinInv, Structure, TypeOK, UnusedFramesAreFree
<1>2. Head(unused) \notin Mapped
  BY <1>1 DEF PinInv, Structure, UnusedFramesAreFree
<1> QED
  BY <1>1, <1>2, NoHolders DEF PinInv, OnlyUnpinnedAreEvictable, Mapped

\* The victim serves the page of its label and nobody holds it; taking it leaves
\* every other entry of the table.
LEMMA VictimProperties ==
    ASSUME PinInv, MayEvict
    PROVE  /\ Head(lru) \in Frames
           /\ frames[Head(lru)].page_id \in PageIds
           /\ frameTable[frames[Head(lru)].page_id] = Head(lru)
           /\ Holders(Head(lru)) = {}
           /\ NoRepetition(Tail(lru))
           /\ ToSet(Tail(lru)) = ToSet(lru) \ {Head(lru)}
           /\ \A q \in PageIds :
                WithoutVictim(Head(lru))[q] =
                  IF frameTable[q] = Head(lru) THEN NoFrame ELSE frameTable[q]
<1> DEFINE f == Head(lru)
<1>1. /\ f \in Frames /\ f \in ToSet(lru) /\ NoRepetition(Tail(lru))
      /\ ToSet(Tail(lru)) = ToSet(lru) \ {f}
  BY TailProperties
  DEF MayEvict, PinInv, Structure, TypeOK, OnlyUnpinnedAreEvictable
<1>2. f \in Mapped /\ frames[f].pins = 0
  BY <1>1 DEF PinInv, OnlyUnpinnedAreEvictable
<1>3. PICK q \in PageIds : frameTable[q] = f
  BY <1>2 DEF Mapped
<1>4. frames[f].page_id = q
  BY <1>1, <1>3, AllUnusedOnce DEF PinInv, Structure, TableMatchesFrames, Resident
<1>5. Holders(f) = {}
  BY <1>1, <1>2, NoHolders
<1>6. \A r \in PageIds : frameTable[r] = f => r = q
  BY <1>1, <1>3, <1>4, AllUnusedOnce
  DEF PinInv, Structure, TableMatchesFrames, Resident
<1>7. \A r \in PageIds :
        WithoutVictim(f)[r] = IF frameTable[r] = f THEN NoFrame ELSE frameTable[r]
  BY <1>3, <1>4, <1>6 DEF WithoutVictim, PinInv, Structure, TypeOK
<1> QED BY <1>1, <1>3, <1>4, <1>5, <1>7

LEMMA FetchIntoUnusedPins ==
    ASSUME PinInv, TypeOK', NEW c \in Clients, NEW p \in PageIds,
           FetchIntoUnused(c, p)
    PROVE  PinProperties'
<1> DEFINE f == Head(unused)
<1>1. /\ unused # <<>> /\ held[c] = NoHold /\ ~Resident(p)
      /\ frames' = [frames EXCEPT ![f] =
                      LoadedPage(p, ReadPage(file, fileLen, p, frames[f].data))]
      /\ frameTable' = [frameTable EXCEPT ![p] = f]
      /\ held' = [held EXCEPT ![c] = Hold(p, f)]
      /\ lru' = Without(lru, f)
  BY DEF FetchIntoUnused, MayFetch
<1>2. TypeOK
  BY DEF PinInv, Structure
<1>3. /\ f \in Frames /\ Holders(f) = {}
      /\ \A q \in PageIds : frameTable[q] # f
  BY <1>1, UnusedFront
<1> HIDE DEF f
<1>4. /\ NoRepetition(lru') /\ ToSet(lru') = ToSet(lru) \ {f}
  BY <1>1, <1>2, WithoutProperties DEF PinInv, OnlyUnpinnedAreEvictable, TypeOK
<1>5. /\ frames'[f].pins = 1
      /\ \A g \in Frames \ {f} : frames'[g] = frames[g]
  BY <1>1, <1>2, <1>3 DEF TypeOK, LoadedPage
<1>6. /\ frameTable'[p] = f
      /\ \A q \in PageIds \ {p} :
           frameTable'[q] = IF frameTable[q] = f THEN NoFrame ELSE frameTable[q]
  BY <1>1, <1>2, <1>3 DEF TypeOK
<1> QED BY <1>1, <1>3, <1>4, <1>5, <1>6, FrameTaken

LEMMA FetchEvictingPins ==
    ASSUME PinInv, TypeOK', NEW c \in Clients, NEW p \in PageIds,
           FetchEvicting(c, p)
    PROVE  PinProperties'
<1> DEFINE f == Head(lru)
<1>1. /\ MayEvict /\ held[c] = NoHold /\ ~Resident(p)
      /\ frames' = [frames EXCEPT ![f] =
                      LoadedPage(p, ReadPage(file', fileLen', p, frames[f].data))]
      /\ frameTable' = [WithoutVictim(f) EXCEPT ![p] = f]
      /\ held' = [held EXCEPT ![c] = Hold(p, f)]
      /\ lru' = Tail(lru)
  BY DEF FetchEvicting, MayFetch
<1>2. TypeOK
  BY DEF PinInv, Structure
<1>3. /\ f \in Frames /\ Holders(f) = {}
      /\ NoRepetition(lru') /\ ToSet(lru') = ToSet(lru) \ {f}
      /\ \A q \in PageIds :
           WithoutVictim(f)[q] =
             IF frameTable[q] = f THEN NoFrame ELSE frameTable[q]
  BY <1>1, VictimProperties
<1> HIDE DEF f
<1>4. /\ frames'[f].pins = 1
      /\ \A g \in Frames \ {f} : frames'[g] = frames[g]
  BY <1>1, <1>2, <1>3 DEF TypeOK, LoadedPage
<1>5. /\ frameTable'[p] = f
      /\ \A q \in PageIds \ {p} :
           frameTable'[q] = IF frameTable[q] = f THEN NoFrame ELSE frameTable[q]
  BY <1>1, <1>2, <1>3 DEF TypeOK, WithoutVictim
<1> QED BY <1>1, <1>3, <1>4, <1>5, FrameTaken

\* The identifier newPage is called with.
LEMMA NextIdIsFresh ==
    ASSUME PinInv, MayAllocate
    PROVE  nextPageId \in PageIds /\ ~Resident(nextPageId)
<1>1. nextPageId \in PageIds
  BY PoolAssumption DEF MayAllocate, PinInv, Structure, TypeOK, PageIds
<1>2. ~(nextPageId < nextPageId)
  BY <1>1 DEF PageIds
<1> QED BY <1>1, <1>2 DEF PinInv, FreshIdsAreUnknown

LEMMA NewPageInUnusedPins ==
    ASSUME PinInv, TypeOK', NEW c \in Clients, NewPageInUnused(c)
    PROVE  PinProperties'
<1>1. nextPageId \in PageIds /\ ~Resident(nextPageId)
  BY NextIdIsFresh DEF NewPageInUnused
<1>2. TypeOK
  BY DEF PinInv, Structure
<1>3. PICK p \in PageIds, f \in Frames :
        /\ held[c] = NoHold /\ ~Resident(p)
        /\ Holders(f) = {} /\ f \notin ToSet(lru)
        /\ \A q \in PageIds : frameTable[q] # f
        /\ frames' = [frames EXCEPT ![f] = FreshPage(p)]
        /\ frameTable' = [frameTable EXCEPT ![p] = f]
        /\ held' = [held EXCEPT ![c] = Hold(p, f)]
        /\ lru' = lru
  BY <1>1, UnusedFront DEF NewPageInUnused
<1>4. NoRepetition(lru') /\ ToSet(lru') = ToSet(lru) \ {f}
  BY <1>3 DEF PinInv, OnlyUnpinnedAreEvictable
<1>5. /\ frames'[f].pins = 1
      /\ \A g \in Frames \ {f} : frames'[g] = frames[g]
  BY <1>2, <1>3 DEF TypeOK, FreshPage
<1>6. /\ frameTable'[p] = f
      /\ \A q \in PageIds \ {p} :
           frameTable'[q] = IF frameTable[q] = f THEN NoFrame ELSE frameTable[q]
  BY <1>2, <1>3 DEF TypeOK
<1> QED BY <1>3, <1>4, <1>5, <1>6, FrameTaken

LEMMA NewPageEvictingPins ==
    ASSUME PinInv, TypeOK', NEW c \in Clients, NewPageEvicting(c)
    PROVE  PinProperties'
<1>1. nextPageId \in PageIds /\ ~Resident(nextPageId)
  BY NextIdIsFresh DEF NewPageEvicting
<1>2. TypeOK
  BY DEF PinInv, Structure
<1>3. PICK p \in PageIds, f \in Frames :
        /\ held[c] = NoHold /\ ~Resident(p)
        /\ Holders(f) = {}
        /\ NoRepetition(lru') /\ ToSet(lru') = ToSet(lru) \ {f}
        /\ \A q \in PageIds :
             WithoutVictim(f)[q] =
               IF frameTable[q] = f THEN NoFrame ELSE frameTable[q]
        /\ frames' = [frames EXCEPT ![f] = FreshPage(p)]
        /\ frameTable' = [WithoutVictim(f) EXCEPT ![p] = f]
        /\ held' = [held EXCEPT ![c] = Hold(p, f)]
  BY <1>1, VictimProperties DEF NewPageEvicting
<1>4. /\ frames'[f].pins = 1
      /\ \A g \in Frames \ {f} : frames'[g] = frames[g]
  BY <1>2, <1>3 DEF TypeOK, FreshPage
<1>5. /\ frameTable'[p] = f
      /\ \A q \in PageIds \ {p} :
           frameTable'[q] = IF frameTable[q] = f THEN NoFrame ELSE frameTable[q]
  BY <1>2, <1>3 DEF TypeOK, WithoutVictim
<1> QED BY <1>3, <1>4, <1>5, FrameTaken

LEMMA WritePins ==
    ASSUME PinInv, NEW c \in Clients, NEW d \in Data, Write(c, d)
    PROVE  PinProperties'
<1>1. TypeOK
  BY DEF PinInv, Structure
<1>2. \A g \in Frames : frames'[g].pins = frames[g].pins
  BY <1>1, FilledPage DEF Write, TypeOK
<1>3. held[c] \in HoldRecord /\ c \in InUse
  BY HeldFramesAreMapped DEF Write
<1>4. /\ Written(held[c]).page = held[c].page
      /\ Written(held[c]).frame = held[c].frame
      /\ Written(held[c]) # NoHold
  BY <1>3, HoldIsNotNoHold, Zenon DEF Written, HoldRecord
<1>5. \A b \in Clients : /\ held'[b].page = held[b].page
                         /\ held'[b].frame = held[b].frame
                         /\ held'[b] = NoHold <=> held[b] = NoHold
  BY <1>1, <1>3, <1>4 DEF Write, TypeOK, InUse
<1>6. InUse' = InUse
  BY <1>5 DEF InUse
<1>7. Mapped' = Mapped /\ \A g \in Mapped : g \in Frames
  BY DEF Mapped, Write
<1>8. \A g : Holders(g)' = Holders(g)
  BY <1>5, <1>6 DEF Holders, InUse
<1>9. OnlyUnpinnedAreEvictable'
  BY <1>2, <1>7 DEF PinInv, OnlyUnpinnedAreEvictable, Write
<1>10. PinsCountHolders'
  BY <1>2, <1>7, <1>8 DEF PinInv, PinsCountHolders, Holders
<1>11. HeldPagesStay'
  BY <1>5, <1>6 DEF PinInv, HeldPagesStay, Write, InUse
<1> QED BY <1>9, <1>10, <1>11 DEF PinProperties

\* The page a client holds can be unpinned: unpinPage finds it and its count is
\* positive.
LEMMA HolderMayUnpin ==
    ASSUME PinInv, NEW c \in InUse
    PROVE  Unpinnable(held[c].page) /\ frameTable[held[c].page] = held[c].frame
<1>1. /\ held[c].page \in PageIds /\ held[c].frame \in Frames
      /\ held[c].frame \in Mapped
      /\ frameTable[held[c].page] = held[c].frame
  BY HeldFramesAreMapped DEF PinInv, HeldPagesStay
<1>2. Resident(held[c].page)
  BY <1>1, AllUnusedOnce DEF Resident
<1>3. frames[held[c].frame].pins = Cardinality(Holders(held[c].frame))
  BY <1>1 DEF PinInv, PinsCountHolders, Holders
<1>4. Holders(held[c].frame) # {}
  BY DEF Holders
<1>5. frames[held[c].frame].pins > 0
  BY <1>3, <1>4, HoldersFinite
<1> QED BY <1>1, <1>2, <1>5 DEF Unpinnable

LEMMA UnpinPagePins ==
    ASSUME PinInv, NEW c \in Clients, NEW dirty \in BOOLEAN, UnpinPage(c, dirty)
    PROVE  PinProperties'
<1>1. TypeOK /\ c \in InUse
  BY DEF PinInv, Structure, UnpinPage
<1>2. PICK f \in Frames :
        /\ held[c].frame = f /\ f \in Mapped
        /\ frames[f] \in PageObject /\ frames[f].pins > 0
        /\ frames' = [frames EXCEPT ![f] = Unpinned(@, dirty)]
        /\ lru' = IF frames[f].pins = 1 THEN Touched(lru, f) ELSE lru
        /\ held' = [held EXCEPT ![c] = NoHold]
        /\ frameTable' = frameTable
  BY <1>1, HolderMayUnpin, HeldFramesAreMapped, UnpinnableFrame DEF UnpinPage
<1>3. /\ InUse' = InUse \ {c}
      /\ Cardinality(Holders(f)') = Cardinality(Holders(f)) - 1
      /\ \A g \in Frames \ {f} : Holders(g)' = Holders(g)
  BY <1>1, <1>2, HolderRemoved
<1>4. /\ frames'[f].pins = frames[f].pins - 1
      /\ \A g \in Frames \ {f} : frames'[g] = frames[g]
  BY <1>1, <1>2, UnpinnedPage DEF TypeOK
<1>5. Mapped' = Mapped /\ \A g \in Mapped : g \in Frames
  BY <1>2 DEF Mapped
<1>6. frames[f].pins \in Nat
  BY <1>2, PageFields
<1>7. OnlyUnpinnedAreEvictable'
  <2>1. f \notin ToSet(lru)
    BY <1>2 DEF PinInv, OnlyUnpinnedAreEvictable
  <2>2. CASE frames[f].pins = 1
    <3>1. NoRepetition(lru') /\ ToSet(lru') = ToSet(lru) \cup {f}
      BY <1>1, <1>2, <2>2, TouchedProperties
      DEF PinInv, OnlyUnpinnedAreEvictable, TypeOK
    <3> QED
      BY <1>2, <1>4, <1>5, <2>2, <3>1 DEF PinInv, OnlyUnpinnedAreEvictable
  <2>3. CASE frames[f].pins # 1
    <3>1. lru' = lru
      BY <1>2, <2>3
    <3> QED BY <1>4, <1>5, <2>1, <3>1 DEF PinInv, OnlyUnpinnedAreEvictable
  <2> QED BY <2>2, <2>3
<1>8. PinsCountHolders'
  <2>1. ASSUME NEW g \in Mapped
        PROVE  frames'[g].pins = Cardinality(Holders(g)')
    <3>1. g \in Frames /\ frames[g].pins = Cardinality(Holders(g))
      BY DEF PinInv, PinsCountHolders, Holders, Mapped
    <3>2. CASE g = f
      BY <1>3, <1>4, <1>5, <3>1, <3>2
    <3>3. CASE g # f
      BY <1>3, <1>4, <1>5, <3>1, <3>3
    <3> QED BY <3>2, <3>3
  <2> QED BY <1>5, <2>1 DEF PinsCountHolders, Holders
<1>9. HeldPagesStay'
  <2>1. \A b \in InUse' : b \in InUse /\ held'[b] = held[b]
    BY <1>1, <1>2, <1>3 DEF TypeOK, InUse
  <2> QED BY <1>2, <2>1 DEF PinInv, HeldPagesStay
<1> QED BY <1>7, <1>8, <1>9 DEF PinProperties

LEMMA ClientStepPins ==
    ASSUME PinInv, TypeOK', NEW c \in Clients, ClientStep(c)
    PROVE  PinProperties'
<1>1. ~UnpinRefused(c)
  BY HolderMayUnpin DEF UnpinRefused
<1> QED
  BY <1>1, FetchResidentPins, FetchIntoUnusedPins, FetchEvictingPins,
     NewPageInUnusedPins, NewPageEvictingPins, WritePins, UnpinPagePins
  DEF ClientStep

LEMMA FlushPagePins ==
    ASSUME PinInv, NEW p \in PageIds, FlushPage(p)
    PROVE  PinProperties'
<1>1. \A g \in Mapped : frames'[g].pins = frames[g].pins
  BY CleanedPage DEF FlushPage, PinInv, Structure, TypeOK, Mapped
<1> QED
  BY <1>1, PinsUntouched DEF FlushPage, PinInv, OnlyUnpinnedAreEvictable

LEMMA IOFailurePins ==
    ASSUME PinInv, IOFailure
    PROVE  PinProperties'
<1>1. ASSUME NEW c \in Clients, EvictionFails(c),
             UNCHANGED <<frames, frameTable, held>>
      PROVE  PinProperties'
  BY <1>1, VictimProperties, PinsUntouched DEF EvictionFails
<1>2. ASSUME NEW c \in Clients, NEW p \in PageIds, UnusedReadFails(c, p)
      PROVE  PinProperties'
  <2>1. \A g \in Mapped : frames'[g].pins = frames[g].pins
    BY <1>2, UnusedFront DEF UnusedReadFails, PinInv, Structure, TypeOK, Mapped
  <2> QED
    BY <1>2, <2>1, PinsUntouched
    DEF UnusedReadFails, PinInv, OnlyUnpinnedAreEvictable
<1>3. ASSUME NEW c \in Clients, NEW p \in PageIds, EvictingReadFails(c, p)
      PROVE  PinProperties'
  <2>1. PICK f \in Frames :
          /\ Holders(f) = {}
          /\ NoRepetition(lru') /\ ToSet(lru') = ToSet(lru) \ {f}
          /\ \A q \in PageIds :
               frameTable'[q] = IF frameTable[q] = f THEN NoFrame
                                                     ELSE frameTable[q]
          /\ \A g \in Frames \ {f} : frames'[g] = frames[g]
          /\ held' = held
    BY <1>3, VictimProperties DEF EvictingReadFails, PinInv, Structure, TypeOK
  <2>2. Mapped' = Mapped \ {f} /\ InUse' = InUse
    BY <2>1, AllUnusedOnce DEF Mapped, InUse
  <2>3. OnlyUnpinnedAreEvictable'
    BY <2>1, <2>2 DEF PinInv, OnlyUnpinnedAreEvictable, Mapped
  <2>4. PinsCountHolders'
    <3>1. \A g \in Mapped \ {f} : frames'[g] = frames[g] /\ g \in Frames
      BY <2>1 DEF Mapped
    <3> QED BY <2>1, <2>2, <3>1 DEF PinInv, PinsCountHolders
  <2>5. HeldPagesStay'
    <3>1. \A b \in InUse : held[b].frame # f /\ held[b].page \in PageIds
      BY <2>1, HeldFramesAreMapped DEF Holders
    <3> QED BY <2>1, <2>2, <3>1 DEF PinInv, HeldPagesStay
  <2> QED BY <2>3, <2>4, <2>5 DEF PinProperties
<1> QED BY <1>1, <1>2, <1>3 DEF IOFailure, WriteFailure, ReadFailure, NewPageWriteFails, FetchWriteFails

(***************************************************************************)
(* Identifiers that allocatePage has yet to return.                        *)
(***************************************************************************)

\* The file grows only to the end of a page that is resident.
LEMMA SavedLength ==
    ASSUME PinInv, NEW f \in Frames, NEW p \in PageIds, frameTable[p] = f,
           WriteBack(f) \/ UNCHANGED diskVars
    PROVE  fileLen' <= nextPageId
<1>1. Resident(p) /\ frames[f].page_id = p /\ p < nextPageId
  BY AllUnusedOnce
  DEF Resident, PinInv, Structure, TableMatchesFrames, FreshIdsAreUnknown
<1>2. nextPageId \in Int /\ fileLen \in Int /\ fileLen <= nextPageId
  BY DEF PinInv, Structure, TypeOK, FreshIdsAreUnknown
<1> QED BY <1>1, <1>2 DEF WriteBack, diskVars, PageIds

LEMMA EvictedLength ==
    ASSUME PinInv, MayEvict, SaveVictim(Head(lru))
    PROVE  fileLen' <= nextPageId
BY VictimProperties, SavedLength DEF SaveVictim

\* A client that keeps to existing pages fetches only what was allocated.
LEMMA FetchedIsAllocated ==
    ASSUME PinInv, ~Probes, NEW c \in Clients, NEW p \in PageIds, MayFetch(c, p)
    PROVE  p < nextPageId
BY DEF MayFetch, PinInv, FreshIdsAreUnknown, Structure, TypeOK, PageIds

LEMMA NextFreshIds ==
    ASSUME PinInv, TypeOK', Disciplined, [Next]_vars
    PROVE  FreshIdsAreUnknown'
<1>1. /\ TypeOK /\ nextPageId \in Int /\ nextPageId' \in Int
      /\ fileLen \in Int /\ fileLen' \in Int
      /\ fileLen <= nextPageId
      /\ \A q \in PageIds : Resident(q) => q < nextPageId
      /\ \A q \in PageIds : q \in Int
  BY DEF PinInv, Structure, TypeOK, FreshIdsAreUnknown, PageIds
<1>2. ASSUME NEW c \in Clients, NEW p \in PageIds, FetchResident(c, p)
      PROVE  FreshIdsAreUnknown'
  BY <1>2 DEF FetchResident, FreshIdsAreUnknown, Resident, PinInv, diskVars
<1>3. ASSUME NEW c \in Clients, NEW p \in PageIds, FetchIntoUnused(c, p)
      PROVE  FreshIdsAreUnknown'
  <2>1. p < nextPageId
    BY <1>3, FetchedIsAllocated DEF FetchIntoUnused, Disciplined
  <2>2. \A q \in PageIds : Resident(q)' => Resident(q) \/ q = p
    BY <1>1, <1>3 DEF FetchIntoUnused, Resident, TypeOK
  <2> QED
    BY <1>1, <1>3, <2>1, <2>2 DEF FetchIntoUnused, diskVars, FreshIdsAreUnknown
<1>4. ASSUME NEW c \in Clients, NEW p \in PageIds, FetchEvicting(c, p)
      PROVE  FreshIdsAreUnknown'
  <2>1. p < nextPageId /\ fileLen' <= nextPageId
    BY <1>4, FetchedIsAllocated, EvictedLength DEF FetchEvicting, Disciplined
  <2>2. \A q \in PageIds : Resident(q)' => Resident(q) \/ q = p
    BY <1>1, <1>4 DEF FetchEvicting, WithoutVictim, Resident, TypeOK
  <2> QED BY <1>1, <1>4, <2>1, <2>2 DEF FetchEvicting, FreshIdsAreUnknown
<1>5. ASSUME NEW c \in Clients, NewPageInUnused(c)
      PROVE  FreshIdsAreUnknown'
  <2>1. \A q \in PageIds : Resident(q)' => Resident(q) \/ q = nextPageId
    BY <1>1, <1>5 DEF NewPageInUnused, Resident, TypeOK
  <2> QED
    BY <1>1, <1>5, <2>1 DEF NewPageInUnused, diskVars, FreshIdsAreUnknown
<1>6. ASSUME NEW c \in Clients, NewPageEvicting(c)
      PROVE  FreshIdsAreUnknown'
  <2>1. fileLen' <= nextPageId
    BY <1>6, EvictedLength DEF NewPageEvicting
  <2>2. \A q \in PageIds : Resident(q)' => Resident(q) \/ q = nextPageId
    BY <1>1, <1>6 DEF NewPageEvicting, WithoutVictim, Resident, TypeOK
  <2> QED BY <1>1, <1>6, <2>1, <2>2 DEF NewPageEvicting, FreshIdsAreUnknown
<1>7. ASSUME NEW c \in Clients, ClientStep(c)
      PROVE  FreshIdsAreUnknown'
  <2>1. ASSUME NEW d \in Data, Write(c, d) PROVE FreshIdsAreUnknown'
    BY <2>1 DEF Write, diskVars, FreshIdsAreUnknown, Resident, PinInv
  <2>2. ASSUME NEW dirty \in BOOLEAN, UnpinPage(c, dirty) \/ UnpinRefused(c)
        PROVE  FreshIdsAreUnknown'
    BY <2>2 DEF UnpinPage, UnpinRefused, diskVars, poolVars,
       FreshIdsAreUnknown, Resident, PinInv
  <2> QED
    BY <1>2, <1>3, <1>4, <1>5, <1>6, <1>7, <2>1, <2>2 DEF ClientStep
<1>8. CASE AllocatePage
  BY <1>1, <1>8 DEF AllocatePage, poolVars, diskVars, FreshIdsAreUnknown, Resident
<1>9. ASSUME NEW p \in PageIds, FlushPage(p)
      PROVE  FreshIdsAreUnknown'
  <2>1. frameTable[p] \in Frames
    BY <1>9, FramesServeOnePage DEF FlushPage, PinInv
  <2>2. fileLen' <= nextPageId
    BY <1>9, <2>1, SavedLength DEF FlushPage
  <2> QED BY <1>1, <1>9, <2>2 DEF FlushPage, FreshIdsAreUnknown, Resident
<1>10. ASSUME NEW p \in PageIds, DeletePage(p)
       PROVE  FreshIdsAreUnknown'
  BY <1>10 DEF DeletePage, Disciplined
<1>11. CASE IOFailure
  <2>1. ASSUME NEW c \in Clients, NewPageWriteFails(c)
        PROVE  FreshIdsAreUnknown'
    BY <1>1, <2>1 DEF NewPageWriteFails, diskVars, FreshIdsAreUnknown, Resident
  <2>2. ASSUME NEW c \in Clients, NEW p \in PageIds,
               FetchWriteFails(c, p) \/ UnusedReadFails(c, p)
        PROVE  FreshIdsAreUnknown'
    BY <1>1, <2>2 DEF FetchWriteFails, UnusedReadFails, diskVars,
       FreshIdsAreUnknown, Resident
  <2>3. ASSUME NEW c \in Clients, NEW p \in PageIds, EvictingReadFails(c, p)
        PROVE  FreshIdsAreUnknown'
    <3>1. fileLen' <= nextPageId
      BY <2>3, EvictedLength DEF EvictingReadFails
    <3>2. \A q \in PageIds : Resident(q)' => Resident(q)
      BY <1>1, <2>3 DEF EvictingReadFails, WithoutVictim, Resident, TypeOK
    <3> QED BY <1>1, <2>3, <3>1, <3>2 DEF EvictingReadFails, FreshIdsAreUnknown
  <2> QED BY <1>11, <2>1, <2>2, <2>3 DEF IOFailure, WriteFailure, ReadFailure
<1>12. CASE Crash
  BY <1>1, <1>12 DEF Crash, diskVars, FreshIdsAreUnknown, Resident
<1>13. CASE UNCHANGED vars
  BY <1>1, <1>13 DEF vars, FreshIdsAreUnknown, Resident
<1> QED BY <1>7, <1>8, <1>9, <1>10, <1>11, <1>12, <1>13 DEF Next

(***************************************************************************)
(* The invariant and the theorems.                                         *)
(***************************************************************************)

LEMMA NextPins ==
    ASSUME PinInv, TypeOK', Disciplined, [Next]_vars
    PROVE  PinProperties'
<1>1. ASSUME NEW c \in Clients, ClientStep(c) PROVE PinProperties'
  BY <1>1, ClientStepPins
<1>2. CASE AllocatePage \/ UNCHANGED vars
  BY <1>2, PinsUntouched
  DEF AllocatePage, poolVars, vars, PinInv, OnlyUnpinnedAreEvictable
<1>3. ASSUME NEW p \in PageIds, FlushPage(p) \/ DeletePage(p)
      PROVE  PinProperties'
  BY <1>3, FlushPagePins DEF DeletePage, Disciplined
<1>4. CASE IOFailure
  BY <1>4, IOFailurePins
<1>5. CASE Crash
  <2>1. Mapped' = {} /\ InUse' = {}
    BY <1>5, AllUnusedOnce DEF Crash, Mapped, InUse
  <2>2. NoRepetition(lru') /\ ToSet(lru') = {}
    BY <1>5 DEF Crash, NoRepetition, ToSet
  <2> QED
    BY <2>1, <2>2 DEF PinProperties, OnlyUnpinnedAreEvictable,
       PinsCountHolders, HeldPagesStay
<1> QED BY <1>1, <1>2, <1>3, <1>4, <1>5 DEF Next

LEMMA InitPins == Init => PinInv
<1> SUFFICES ASSUME Init PROVE PinInv
  OBVIOUS
<1>1. Mapped = {} /\ InUse = {}
  BY AllUnusedOnce DEF Init, Mapped, InUse
<1>2. NoRepetition(lru) /\ ToSet(lru) = {}
  BY DEF Init, NoRepetition, ToSet
<1>3. FreshIdsAreUnknown
  BY DEF Init, FreshIdsAreUnknown, Resident
<1> QED
  BY <1>1, <1>2, <1>3, InitStructure DEF PinInv, OnlyUnpinnedAreEvictable,
     PinsCountHolders, HeldPagesStay

LEMMA PinInvariant ==
    ASSUME Disciplined
    PROVE  Spec => []PinInv
<1>1. PinInv /\ [Next]_vars => PinInv'
  <2> SUFFICES ASSUME PinInv, [Next]_vars PROVE PinInv'
    OBVIOUS
  <2>1. Structure' /\ TypeOK'
    BY NextStructure DEF PinInv, Structure
  <2> QED BY <2>1, NextPins, NextFreshIds DEF PinInv, PinProperties
<1> QED BY <1>1, InitPins, PTL DEF Spec

\* A frame that a caller has pinned is never in the replacer, so that it cannot
\* be chosen as a victim; the replacer lists no frame twice.
THEOREM VictimsAreUnpinned ==
    ASSUME Disciplined
    PROVE  Spec => []OnlyUnpinnedAreEvictable
BY PinInvariant, PTL DEF PinInv

\* pins_ of a frame in the table is the number of callers that hold its page.
THEOREM PinsCorrect ==
    ASSUME Disciplined
    PROVE  Spec => []PinsCountHolders
BY PinInvariant, PTL DEF PinInv

\* A Page* goes on to lead to the page its caller asked for until it is unpinned.
THEOREM HeldPagesCorrect ==
    ASSUME Disciplined
    PROVE  Spec => []HeldPagesStay
BY PinInvariant, PTL DEF PinInv

-----------------------------------------------------------------------------
(***************************************************************************)
(* 4. Pages that nobody is writing to.                                     *)
(***************************************************************************)

NothingPastTheEnd == \A p \in PageIds : fileLen <= p => file[p] = Zero

StoreInv == PinInv /\ CleanPagesAreInFile /\ NothingPastTheEnd

\* No change to the frame is waiting to be written to the file.
Settled(f) ==
    /\ ~frames[f].is_dirty
    /\ \A c \in InUse : held[c].frame = f => ~held[c].wrote

StoreProperties == CleanPagesAreInFile /\ NothingPastTheEnd

(***************************************************************************)
(* Writing a frame to the file.                                            *)
(***************************************************************************)

\* What the types say of the numbers and the contents.
LEMMA StoreTypes ==
    ASSUME PinInv
    PROVE  /\ TypeOK
           /\ fileLen \in Nat /\ nextPageId \in Nat
           /\ file \in [PageIds -> Data]
           /\ \A p \in PageIds : p \in Nat
           /\ NoFrame \notin Frames
           /\ \A p \in PageIds :
                Resident(p) => /\ frameTable[p] \in Frames
                               /\ frames[frameTable[p]] \in PageObject
                               /\ frames[frameTable[p]].data \in Data
<1>1. TypeOK /\ Structure
  BY DEF PinInv, Structure
<1>2. fileLen \in Nat /\ nextPageId \in Nat /\ \A p \in PageIds : p \in Nat
  BY <1>1, PoolAssumption DEF TypeOK, PageIds
<1>3. ASSUME NEW p \in PageIds, Resident(p)
      PROVE  /\ frameTable[p] \in Frames
             /\ frames[frameTable[p]] \in PageObject
             /\ frames[frameTable[p]].data \in Data
  BY <1>1, <1>3, FramesServeOnePage, PageFields DEF TypeOK
<1> QED BY <1>1, <1>2, <1>3, AllUnusedOnce DEF TypeOK

\* The page of a frame is written at its place, and the file reaches it.
LEMMA WrittenFile ==
    ASSUME PinInv, NothingPastTheEnd, NEW p \in PageIds, Resident(p),
           WriteBack(frameTable[p])
    PROVE  /\ file'[p] = frames[frameTable[p]].data
           /\ \A q \in PageIds \ {p} : file'[q] = file[q]
           /\ fileLen' = IF p < fileLen THEN fileLen ELSE p + 1
           /\ NothingPastTheEnd'
<1>1. frames[frameTable[p]].page_id = p
  BY DEF PinInv, Structure, TableMatchesFrames
<1>2. /\ file' = [file EXCEPT ![p] = frames[frameTable[p]].data]
      /\ fileLen' = IF p < fileLen THEN fileLen ELSE p + 1
  BY <1>1 DEF WriteBack
<1>3. /\ file'[p] = frames[frameTable[p]].data
      /\ \A q \in PageIds \ {p} : file'[q] = file[q]
  BY <1>2, StoreTypes
<1>4. \A q \in PageIds : fileLen' <= q => fileLen <= q /\ q # p
  BY <1>2, StoreTypes
<1> QED BY <1>2, <1>3, <1>4 DEF NothingPastTheEnd

\* The page of the victim.
Victim == frames[Head(lru)].page_id

\* The pages an eviction writes: the victim's if it is dirty.
SavedPages == IF frames[Head(lru)].is_dirty THEN {Victim} ELSE {}

\* After an eviction the victim's page is in the file as it was in the pool,
\* whether it had to be written or not.
LEMMA VictimIsInFile ==
    ASSUME StoreInv, MayEvict, SaveVictim(Head(lru))
    PROVE  /\ Victim \in PageIds /\ frameTable[Victim] = Head(lru)
           /\ Victim < fileLen'
           /\ file'[Victim] = frames[Head(lru)].data
           /\ \A q \in PageIds \ {Victim} : file'[q] = file[q]
           /\ fileLen' = IF SavedPages = {} \/ Victim < fileLen
                         THEN fileLen ELSE Victim + 1
           /\ NothingPastTheEnd'
<1> DEFINE f == Head(lru)
<1>1. /\ f \in Frames /\ Victim \in PageIds /\ frameTable[Victim] = f
      /\ Holders(f) = {}
  BY VictimProperties DEF StoreInv, Victim
<1>2. Resident(Victim)
  BY <1>1, AllUnusedOnce DEF Resident
<1>3. fileLen \in Nat /\ Victim \in Nat
  BY <1>1, StoreTypes DEF StoreInv
<1>4. CASE frames[f].is_dirty
  <2>1. WriteBack(frameTable[Victim]) /\ SavedPages = {Victim}
    BY <1>1, <1>4 DEF SaveVictim, SavedPages
  <2>2. /\ file'[Victim] = frames[frameTable[Victim]].data
        /\ \A q \in PageIds \ {Victim} : file'[q] = file[q]
        /\ fileLen' = IF Victim < fileLen THEN fileLen ELSE Victim + 1
        /\ NothingPastTheEnd'
    BY <1>1, <1>2, <2>1, WrittenFile DEF StoreInv
  <2>3. SavedPages # {}
    BY <2>1
  <2>4. Victim < fileLen'
    BY <1>3, <2>2
  <2> QED BY <1>1, <2>2, <2>3, <2>4
<1>5. CASE ~frames[f].is_dirty
  <2>1. UNCHANGED diskVars /\ SavedPages = {}
    BY <1>5 DEF SaveVictim, SavedPages
  <2>2. \A c \in InUse : held[c].frame # f
    BY <1>1 DEF Holders
  <2>3. Victim < fileLen /\ frames[f].data = file[Victim]
    BY <1>1, <1>2, <1>5, <2>2 DEF StoreInv, CleanPagesAreInFile
  <2> QED BY <1>1, <2>1, <2>3 DEF diskVars, StoreInv, NothingPastTheEnd
<1> QED BY <1>4, <1>5

(***************************************************************************)
(* Clean pages.                                                            *)
(***************************************************************************)

\* Client c gets page p in frame f, which nobody held; the page that f served, if
\* any, leaves the pool.
Takes(c, p, f) ==
    /\ f \in Frames
    /\ Holders(f) = {}
    /\ ~Resident(p)
    /\ held[c] = NoHold
    /\ held' = [held EXCEPT ![c] = Hold(p, f)]
    /\ \A g \in Frames \ {f} : frames'[g] = frames[g]
    /\ frameTable'[p] = f
    /\ \A q \in PageIds \ {p} :
         frameTable'[q] = IF frameTable[q] = f THEN NoFrame ELSE frameTable[q]

\* A Page object a page has been read into.
LEMMA LoadedPageFields ==
    ASSUME NEW p, NEW d
    PROVE  LoadedPage(p, d).pins = 1 /\ LoadedPage(p, d).data = d
BY DEF LoadedPage

LEMMA FetchIntoUnusedTakes ==
    ASSUME PinInv, NEW c \in Clients, NEW p \in PageIds, FetchIntoUnused(c, p)
    PROVE  /\ Takes(c, p, Head(unused))
           /\ \A q \in PageIds : frameTable[q] # Head(unused)
           /\ frames'[Head(unused)] =
                LoadedPage(p, ReadPage(file, fileLen, p, frames[Head(unused)].data))
<1> DEFINE f == Head(unused)
<1>1. /\ unused # <<>> /\ held[c] = NoHold /\ ~Resident(p)
      /\ frames' = [frames EXCEPT ![f] =
                      LoadedPage(p, ReadPage(file, fileLen, p, frames[f].data))]
      /\ frameTable' = [frameTable EXCEPT ![p] = f]
      /\ held' = [held EXCEPT ![c] = Hold(p, f)]
  BY DEF FetchIntoUnused, MayFetch
<1>2. TypeOK
  BY DEF PinInv, Structure
<1>3. /\ f \in Frames /\ Holders(f) = {}
      /\ \A q \in PageIds : frameTable[q] # f
  BY <1>1, UnusedFront
<1> HIDE DEF f
<1>4. /\ frames'[f] = LoadedPage(p, ReadPage(file, fileLen, p, frames[f].data))
      /\ \A g \in Frames \ {f} : frames'[g] = frames[g]
  BY <1>1, <1>2, <1>3 DEF TypeOK
<1>5. /\ frameTable'[p] = f
      /\ \A q \in PageIds \ {p} :
           frameTable'[q] = IF frameTable[q] = f THEN NoFrame ELSE frameTable[q]
  BY <1>1, <1>2, <1>3 DEF TypeOK
<1>6. Takes(c, p, f)
  BY <1>1, <1>3, <1>4, <1>5 DEF Takes
<1> QED BY <1>3, <1>4, <1>6 DEF f

LEMMA NewPageInUnusedTakes ==
    ASSUME PinInv, NEW c \in Clients, NewPageInUnused(c)
    PROVE  /\ nextPageId \in PageIds
           /\ Takes(c, nextPageId, Head(unused))
           /\ \A q \in PageIds : frameTable[q] # Head(unused)
           /\ frames'[Head(unused)] = FreshPage(nextPageId)
<1> DEFINE f == Head(unused)
<1>1. nextPageId \in PageIds /\ ~Resident(nextPageId)
  BY NextIdIsFresh DEF NewPageInUnused
<1>2. /\ unused # <<>> /\ held[c] = NoHold
      /\ frames' = [frames EXCEPT ![f] = FreshPage(nextPageId)]
      /\ frameTable' = [frameTable EXCEPT ![nextPageId] = f]
      /\ held' = [held EXCEPT ![c] = Hold(nextPageId, f)]
  BY DEF NewPageInUnused
<1>3. TypeOK
  BY DEF PinInv, Structure
<1>4. /\ f \in Frames /\ Holders(f) = {}
      /\ \A q \in PageIds : frameTable[q] # f
  BY <1>2, UnusedFront
<1> HIDE DEF f
<1>5. /\ frames'[f] = FreshPage(nextPageId)
      /\ \A g \in Frames \ {f} : frames'[g] = frames[g]
  BY <1>2, <1>3, <1>4 DEF TypeOK
<1>6. /\ frameTable'[nextPageId] = f
      /\ \A q \in PageIds \ {nextPageId} :
           frameTable'[q] = IF frameTable[q] = f THEN NoFrame ELSE frameTable[q]
  BY <1>1, <1>2, <1>3, <1>4 DEF TypeOK
<1>7. Takes(c, nextPageId, f)
  BY <1>1, <1>2, <1>4, <1>5, <1>6 DEF Takes
<1> QED BY <1>1, <1>4, <1>5, <1>7 DEF f

LEMMA FetchEvictingTakes ==
    ASSUME PinInv, NEW c \in Clients, NEW p \in PageIds, FetchEvicting(c, p)
    PROVE  /\ Takes(c, p, Head(lru))
           /\ frames'[Head(lru)] =
                LoadedPage(p, ReadPage(file', fileLen', p, frames[Head(lru)].data))
<1> DEFINE f == Head(lru)
<1>1. /\ MayEvict /\ held[c] = NoHold /\ ~Resident(p)
      /\ frames' = [frames EXCEPT ![f] =
                      LoadedPage(p, ReadPage(file', fileLen', p, frames[f].data))]
      /\ frameTable' = [WithoutVictim(f) EXCEPT ![p] = f]
      /\ held' = [held EXCEPT ![c] = Hold(p, f)]
  BY DEF FetchEvicting, MayFetch
<1>2. TypeOK
  BY DEF PinInv, Structure
<1>3. /\ f \in Frames /\ Holders(f) = {}
      /\ \A q \in PageIds :
           WithoutVictim(f)[q] = IF frameTable[q] = f THEN NoFrame ELSE frameTable[q]
  BY <1>1, VictimProperties
<1> HIDE DEF f
<1>4. /\ frames'[f] = LoadedPage(p, ReadPage(file', fileLen', p, frames[f].data))
      /\ \A g \in Frames \ {f} : frames'[g] = frames[g]
  BY <1>1, <1>2, <1>3 DEF TypeOK
<1>5. /\ frameTable'[p] = f
      /\ \A q \in PageIds \ {p} :
           frameTable'[q] = IF frameTable[q] = f THEN NoFrame ELSE frameTable[q]
  BY <1>1, <1>2, <1>3 DEF TypeOK, WithoutVictim
<1>6. Takes(c, p, f)
  BY <1>1, <1>3, <1>4, <1>5 DEF Takes
<1> QED BY <1>4, <1>6 DEF f

LEMMA NewPageEvictingTakes ==
    ASSUME PinInv, NEW c \in Clients, NewPageEvicting(c)
    PROVE  /\ nextPageId \in PageIds
           /\ Takes(c, nextPageId, Head(lru))
           /\ frames'[Head(lru)] = FreshPage(nextPageId)
<1> DEFINE f == Head(lru)
<1>1. nextPageId \in PageIds /\ ~Resident(nextPageId)
  BY NextIdIsFresh DEF NewPageEvicting
<1>2. /\ MayEvict /\ held[c] = NoHold
      /\ frames' = [frames EXCEPT ![f] = FreshPage(nextPageId)]
      /\ frameTable' = [WithoutVictim(f) EXCEPT ![nextPageId] = f]
      /\ held' = [held EXCEPT ![c] = Hold(nextPageId, f)]
  BY DEF NewPageEvicting
<1>3. TypeOK
  BY DEF PinInv, Structure
<1>4. /\ f \in Frames /\ Holders(f) = {}
      /\ \A q \in PageIds :
           WithoutVictim(f)[q] = IF frameTable[q] = f THEN NoFrame ELSE frameTable[q]
  BY <1>2, VictimProperties
<1> HIDE DEF f
<1>5. /\ frames'[f] = FreshPage(nextPageId)
      /\ \A g \in Frames \ {f} : frames'[g] = frames[g]
  BY <1>2, <1>3, <1>4 DEF TypeOK
<1>6. /\ frameTable'[nextPageId] = f
      /\ \A q \in PageIds \ {nextPageId} :
           frameTable'[q] = IF frameTable[q] = f THEN NoFrame ELSE frameTable[q]
  BY <1>1, <1>2, <1>3, <1>4 DEF TypeOK, WithoutVictim
<1>7. Takes(c, nextPageId, f)
  BY <1>1, <1>2, <1>4, <1>5, <1>6 DEF Takes
<1> QED BY <1>1, <1>5, <1>7 DEF f

\* What a step may take from a page without making it unsafe to drop: nothing, if
\* its frame, its content and the file's stay and no client that wrote lets go.
LEMMA CleanPageStays ==
    ASSUME StoreInv, NEW q \in PageIds, Resident(q), frameTable'[q] = frameTable[q],
           frames'[frameTable[q]].data = frames[frameTable[q]].data,
           frames[frameTable[q]].is_dirty => frames'[frameTable[q]].is_dirty,
           \A c \in InUse : held[c].frame = frameTable[q] /\ held[c].wrote =>
               \/ c \in InUse' /\ held'[c] = held[c]
               \/ frames'[frameTable[q]].is_dirty,
           fileLen' \in Nat, fileLen <= fileLen', file'[q] = file[q]
    PROVE  Settled(frameTable[q])'
           => q < fileLen' /\ frames'[frameTable[q]].data = file'[q]
<1> SUFFICES ASSUME Settled(frameTable[q])'
             PROVE  q < fileLen' /\ frames'[frameTable[q]].data = file'[q]
  OBVIOUS
<1>1. q \in Nat /\ fileLen \in Nat
  BY StoreTypes DEF StoreInv
<1>2. ~frames'[frameTable[q]].is_dirty
  BY DEF Settled
<1>3. \A c \in InUse : held[c].frame = frameTable[q] => ~held[c].wrote
  BY <1>2 DEF Settled
<1>4. q < fileLen /\ frames[frameTable[q]].data = file[q]
  BY <1>2, <1>3 DEF StoreInv, CleanPagesAreInFile
<1> QED BY <1>1, <1>4

\* A page enters the pool as the file has it, or marked dirty.
LEMMA TakenKeepsClean ==
    ASSUME StoreInv, NEW c \in Clients, NEW p \in PageIds, NEW f, Takes(c, p, f),
           \/ frames'[f].is_dirty
           \/ p < fileLen' /\ frames'[f].data = file'[p],
           fileLen' \in Nat, fileLen <= fileLen',
           \A q \in PageIds : Resident(q) /\ frameTable[q] # f => file'[q] = file[q]
    PROVE  CleanPagesAreInFile'
<1>1. SUFFICES ASSUME NEW q \in PageIds, Resident(q)', Settled(frameTable[q])'
               PROVE  q < fileLen' /\ frames'[frameTable'[q]].data = file'[q]
  BY DEF CleanPagesAreInFile, Settled
<1>2. CASE q = p
  BY <1>1, <1>2 DEF Takes, Settled
<1>3. CASE q # p
  <2>1. Resident(q) /\ frameTable[q] # f /\ frameTable'[q] = frameTable[q]
    BY <1>1, <1>3 DEF Takes, Resident
  <2>2. frameTable[q] \in Frames /\ TypeOK
    BY <2>1, StoreTypes DEF StoreInv
  <2>3. frames'[frameTable[q]] = frames[frameTable[q]]
    BY <2>1, <2>2 DEF Takes
  <2>4. \A d \in InUse : d \in InUse' /\ held'[d] = held[d]
    BY <2>2 DEF Takes, InUse, TypeOK
  <2> QED BY <1>1, <2>1, <2>3, <2>4, CleanPageStays
<1> QED BY <1>2, <1>3

\* A step that leaves the table and the file as they are, and the contents and
\* dirty marks of the frames that serve a page.
LEMMA SameFileKeepsClean ==
    ASSUME StoreInv, UNCHANGED <<frameTable, file, fileLen>>,
           \A q \in PageIds : Resident(q) =>
               /\ frames'[frameTable[q]].data = frames[frameTable[q]].data
               /\ frames[frameTable[q]].is_dirty => frames'[frameTable[q]].is_dirty,
           \A c \in InUse : held[c].wrote =>
               \/ c \in InUse' /\ held'[c] = held[c]
               \/ frames'[held[c].frame].is_dirty
    PROVE  StoreProperties'
<1>1. ASSUME NEW q \in PageIds, Resident(q)', Settled(frameTable[q])'
      PROVE  q < fileLen' /\ frames'[frameTable'[q]].data = file'[q]
  <2>1. Resident(q) /\ frameTable'[q] = frameTable[q]
    BY <1>1 DEF Resident
  <2>2. fileLen' = fileLen /\ fileLen \in Nat /\ file'[q] = file[q]
    BY StoreTypes DEF StoreInv
  <2> QED BY <1>1, <2>1, <2>2, CleanPageStays
<1>2. CleanPagesAreInFile'
  BY <1>1 DEF CleanPagesAreInFile, Settled
<1> QED BY <1>2 DEF StoreInv, StoreProperties, NothingPastTheEnd

LEMMA FetchStore ==
    ASSUME StoreInv, ~Probes, NEW c \in Clients, NEW p \in PageIds,
           FetchResident(c, p) \/ FetchIntoUnused(c, p) \/ FetchEvicting(c, p)
    PROVE  StoreProperties'
<1>1. /\ PinInv /\ fileLen \in Nat /\ p \in Nat /\ NothingPastTheEnd
      /\ TypeOK /\ file \in [PageIds -> Data]
  BY StoreTypes DEF StoreInv
<1>2. CASE FetchResident(c, p)
  <2>1. frameTable[p] \in Frames /\ frames[frameTable[p]] \in PageObject
    BY <1>1, <1>2, StoreTypes DEF FetchResident
  <2>2. \A q \in PageIds : Resident(q) =>
            /\ frames'[frameTable[q]].data = frames[frameTable[q]].data
            /\ frames'[frameTable[q]].is_dirty = frames[frameTable[q]].is_dirty
    BY <1>1, <1>2, <2>1, StoreTypes, PinnedPage DEF FetchResident, TypeOK
  <2>3. \A d \in InUse : d \in InUse' /\ held'[d] = held[d]
    BY <1>1, <1>2 DEF FetchResident, MayFetch, InUse, TypeOK
  <2> QED
    BY <1>2, <2>2, <2>3, SameFileKeepsClean DEF FetchResident, diskVars
<1>3. CASE FetchIntoUnused(c, p)
  <2>1. /\ Takes(c, p, Head(unused))
        /\ frames'[Head(unused)] =
             LoadedPage(p, ReadPage(file, fileLen, p, frames[Head(unused)].data))
    BY <1>1, <1>3, FetchIntoUnusedTakes
  <2>2. p < fileLen /\ file' = file /\ fileLen' = fileLen
    BY <1>3 DEF FetchIntoUnused, MayFetch, diskVars
  <2>3. frames'[Head(unused)].data = file'[p]
    BY <2>1, <2>2 DEF LoadedPage, ReadPage
  <2>4. CleanPagesAreInFile'
    BY <1>1, <2>1, <2>2, <2>3, TakenKeepsClean
  <2> QED BY <1>1, <2>2, <2>4 DEF StoreProperties, NothingPastTheEnd
<1>4. CASE FetchEvicting(c, p)
  <2>1. MayEvict /\ SaveVictim(Head(lru)) /\ p < fileLen /\ ~Resident(p)
    BY <1>4 DEF FetchEvicting, MayFetch
  <2>2. /\ Victim \in PageIds /\ frameTable[Victim] = Head(lru)
        /\ \A q \in PageIds \ {Victim} : file'[q] = file[q]
        /\ fileLen' = IF SavedPages = {} \/ Victim < fileLen
                      THEN fileLen ELSE Victim + 1
        /\ NothingPastTheEnd'
    BY <2>1, VictimIsInFile
  <2>3. fileLen' \in Nat /\ fileLen <= fileLen' /\ p < fileLen'
    BY <1>1, <2>1, <2>2, StoreTypes
  <2>4. /\ Takes(c, p, Head(lru))
        /\ frames'[Head(lru)] =
             LoadedPage(p, ReadPage(file', fileLen', p, frames[Head(lru)].data))
    BY <1>1, <1>4, FetchEvictingTakes
  <2>5. frames'[Head(lru)].data = file'[p]
    BY <2>3, <2>4 DEF LoadedPage, ReadPage
  <2>6. CleanPagesAreInFile'
    BY <2>2, <2>3, <2>4, <2>5, TakenKeepsClean
  <2> QED BY <2>2, <2>6 DEF StoreProperties
<1> QED BY <1>2, <1>3, <1>4

LEMMA NewPageStore ==
    ASSUME StoreInv, NEW c \in Clients, NewPageInUnused(c) \/ NewPageEvicting(c)
    PROVE  StoreProperties'
<1>1. PinInv /\ fileLen \in Nat /\ NothingPastTheEnd
  BY StoreTypes DEF StoreInv
<1>2. CASE NewPageInUnused(c)
  <2>1. /\ nextPageId \in PageIds /\ Takes(c, nextPageId, Head(unused))
        /\ frames'[Head(unused)] = FreshPage(nextPageId)
    BY <1>1, <1>2, NewPageInUnusedTakes
  <2>2. file' = file /\ fileLen' = fileLen
    BY <1>2 DEF NewPageInUnused, diskVars
  <2>3. CleanPagesAreInFile'
    BY <1>1, <2>1, <2>2, TakenKeepsClean DEF FreshPage
  <2> QED BY <1>1, <2>2, <2>3 DEF StoreProperties, NothingPastTheEnd
<1>3. CASE NewPageEvicting(c)
  <2>1. MayEvict /\ SaveVictim(Head(lru))
    BY <1>3 DEF NewPageEvicting
  <2>2. /\ Victim \in PageIds /\ frameTable[Victim] = Head(lru)
        /\ \A q \in PageIds \ {Victim} : file'[q] = file[q]
        /\ fileLen' = IF SavedPages = {} \/ Victim < fileLen
                      THEN fileLen ELSE Victim + 1
        /\ NothingPastTheEnd'
    BY <2>1, VictimIsInFile
  <2>3. fileLen' \in Nat /\ fileLen <= fileLen'
    BY <1>1, <2>2, StoreTypes
  <2>4. /\ nextPageId \in PageIds /\ Takes(c, nextPageId, Head(lru))
        /\ frames'[Head(lru)] = FreshPage(nextPageId)
    BY <1>1, <1>3, NewPageEvictingTakes
  <2>5. CleanPagesAreInFile'
    BY <2>2, <2>3, <2>4, TakenKeepsClean DEF FreshPage
  <2> QED BY <2>2, <2>5 DEF StoreProperties
<1> QED BY <1>2, <1>3

\* A client that has written into a page keeps it from being taken for clean.
LEMMA WriteStore ==
    ASSUME StoreInv, NEW c \in Clients, NEW d \in Data, Write(c, d)
    PROVE  StoreProperties'
<1> DEFINE f == held[c].frame
<1>1. PinInv /\ TypeOK /\ c \in InUse
  BY StoreTypes DEF StoreInv, Write
<1>2. /\ held[c] \in HoldRecord /\ f \in Frames
      /\ held' = [held EXCEPT ![c] = Written(@)]
      /\ frames' = [frames EXCEPT ![f] = Filled(@, d)]
      /\ UNCHANGED <<frameTable, file, fileLen>>
  BY <1>1, HeldFramesAreMapped DEF Write, diskVars
<1>3. /\ held'[c].frame = f /\ held'[c].wrote /\ held'[c] # NoHold
  BY <1>1, <1>2, HoldIsNotNoHold, Zenon DEF TypeOK, InUse, Written, HoldRecord
<1>4. c \in InUse' /\ \A b \in InUse \ {c} : b \in InUse' /\ held'[b] = held[b]
  BY <1>1, <1>2, <1>3 DEF TypeOK, InUse
<1> HIDE DEF f
<1>5. \A g \in Frames \ {f} : frames'[g] = frames[g]
  BY <1>1, <1>2 DEF TypeOK
<1>6. ASSUME NEW q \in PageIds, Resident(q)', Settled(frameTable[q])'
      PROVE  q < fileLen' /\ frames'[frameTable'[q]].data = file'[q]
  <2>1. Resident(q) /\ frameTable'[q] = frameTable[q] /\ frameTable[q] \in Frames
    BY <1>1, <1>2, <1>6, StoreTypes DEF Resident
  <2>2. frameTable[q] # f
    BY <1>3, <1>4, <1>6, <2>1 DEF Settled
  <2>3. frames'[frameTable[q]] = frames[frameTable[q]]
    BY <1>5, <2>1, <2>2
  <2>4. \A b \in InUse : held[b].frame = frameTable[q] => b \in InUse' /\ held'[b] = held[b]
    BY <1>4, <2>2 DEF f
  <2>5. fileLen' = fileLen /\ fileLen \in Nat /\ file'[q] = file[q]
    BY <1>1, <1>2, StoreTypes
  <2> QED BY <1>6, <2>1, <2>3, <2>4, <2>5, CleanPageStays
<1>7. CleanPagesAreInFile'
  BY <1>6 DEF CleanPagesAreInFile, Settled
<1> QED BY <1>2, <1>7 DEF StoreInv, StoreProperties, NothingPastTheEnd

\* A client that has written unpins with is_dirty set.
LEMMA UnpinPageStore ==
    ASSUME StoreInv, NEW c \in Clients, NEW dirty \in BOOLEAN, UnpinPage(c, dirty)
    PROVE  StoreProperties'
<1>1. PinInv /\ TypeOK /\ c \in InUse
  BY StoreTypes DEF StoreInv, UnpinPage
<1>2. PICK f \in Frames :
        /\ held[c].frame = f
        /\ frames[f] \in PageObject /\ frames[f].pins > 0
        /\ frames' = [frames EXCEPT ![f] = Unpinned(@, dirty)]
        /\ held' = [held EXCEPT ![c] = NoHold]
        /\ held[c].wrote => dirty
        /\ UNCHANGED <<frameTable, file, fileLen>>
  BY <1>1, HolderMayUnpin, HeldFramesAreMapped, UnpinnableFrame
  DEF UnpinPage, diskVars
<1>3. /\ frames'[f].data = frames[f].data
      /\ frames'[f].is_dirty = (frames[f].is_dirty \/ dirty)
      /\ \A g \in Frames \ {f} : frames'[g] = frames[g]
  BY <1>1, <1>2, UnpinnedPage DEF TypeOK
<1>4. \A q \in PageIds : Resident(q) =>
          /\ frames'[frameTable[q]].data = frames[frameTable[q]].data
          /\ frames[frameTable[q]].is_dirty => frames'[frameTable[q]].is_dirty
  BY <1>1, <1>3, StoreTypes
<1>5. \A b \in InUse : held[b].wrote => \/ b \in InUse' /\ held'[b] = held[b]
                                        \/ frames'[held[b].frame].is_dirty
  BY <1>1, <1>2, <1>3 DEF TypeOK, InUse
<1> QED BY <1>2, <1>4, <1>5, SameFileKeepsClean

LEMMA FlushPageStore ==
    ASSUME StoreInv, NEW p \in PageIds, FlushPage(p)
    PROVE  StoreProperties'
<1> DEFINE f == frameTable[p]
<1>1. /\ PinInv /\ TypeOK /\ NothingPastTheEnd /\ Resident(p)
      /\ f \in Frames /\ frames[f] \in PageObject
      /\ fileLen \in Nat /\ p \in Nat
  BY StoreTypes DEF StoreInv, FlushPage
<1>2. /\ file'[p] = frames[f].data
      /\ \A q \in PageIds \ {p} : file'[q] = file[q]
      /\ fileLen' = IF p < fileLen THEN fileLen ELSE p + 1
      /\ NothingPastTheEnd'
  BY <1>1, WrittenFile DEF FlushPage
<1>3. fileLen' \in Nat /\ fileLen <= fileLen' /\ p < fileLen'
  BY <1>1, <1>2
<1>4. frameTable' = frameTable /\ held' = held /\ InUse' = InUse
  BY DEF FlushPage, InUse
<1>5. /\ frames'[f].data = frames[f].data
      /\ \A g \in Frames \ {f} : frames'[g] = frames[g]
  BY <1>1, CleanedPage DEF FlushPage, TypeOK
<1>6. ASSUME NEW q \in PageIds, Resident(q)', Settled(frameTable[q])'
      PROVE  q < fileLen' /\ frames'[frameTable'[q]].data = file'[q]
  <2>1. CASE q = p
    BY <1>2, <1>3, <1>4, <1>5, <2>1
  <2>2. CASE q # p
    <3>1. Resident(q) /\ frameTable'[q] = frameTable[q] /\ frameTable[q] # f
      BY <1>1, <1>4, <1>6, <2>2, FramesServeOnePage DEF Resident, PinInv
    <3>2. frames'[frameTable[q]] = frames[frameTable[q]]
      BY <1>1, <1>5, <3>1, StoreTypes
    <3> QED BY <1>2, <1>3, <1>4, <1>6, <2>2, <3>1, <3>2, CleanPageStays
  <2> QED BY <2>1, <2>2
<1>7. CleanPagesAreInFile'
  BY <1>6 DEF CleanPagesAreInFile, Settled
<1> QED BY <1>2, <1>7 DEF StoreProperties

\* The frame a read fails for: it serves no page any more.
LEMMA EvictingReadFailsTakes ==
    ASSUME PinInv, NEW c \in Clients, NEW p \in PageIds, EvictingReadFails(c, p)
    PROVE  /\ MayEvict /\ SaveVictim(Head(lru)) /\ held' = held
           /\ \A g \in Frames \ {Head(lru)} : frames'[g] = frames[g]
           /\ \A q \in PageIds :
                frameTable'[q] = IF frameTable[q] = Head(lru) THEN NoFrame
                                                              ELSE frameTable[q]
BY VictimProperties, StoreTypes DEF EvictingReadFails, TypeOK

LEMMA IOFailureStore ==
    ASSUME StoreInv, IOFailure
    PROVE  StoreProperties'
<1>1. PinInv /\ TypeOK /\ fileLen \in Nat
  BY StoreTypes DEF StoreInv
<1>2. ASSUME UNCHANGED <<frames, frameTable, diskVars, held>>
      PROVE  StoreProperties'
  BY <1>2, SameFileKeepsClean DEF diskVars, InUse
<1>3. ASSUME NEW c \in Clients, NEW p \in PageIds, UnusedReadFails(c, p)
      PROVE  StoreProperties'
  <2>1. \A q \in PageIds : Resident(q) => frames'[frameTable[q]] = frames[frameTable[q]]
    BY <1>1, <1>3, UnusedFront, StoreTypes DEF UnusedReadFails, TypeOK
  <2> QED BY <1>3, <2>1, SameFileKeepsClean DEF UnusedReadFails, diskVars, InUse
<1>4. ASSUME NEW c \in Clients, NEW p \in PageIds, EvictingReadFails(c, p)
      PROVE  StoreProperties'
  <2>1. /\ MayEvict /\ SaveVictim(Head(lru)) /\ held' = held
        /\ \A g \in Frames \ {Head(lru)} : frames'[g] = frames[g]
        /\ \A q \in PageIds :
             frameTable'[q] = IF frameTable[q] = Head(lru) THEN NoFrame
                                                           ELSE frameTable[q]
    BY <1>1, <1>4, EvictingReadFailsTakes
  <2>2. /\ Victim \in PageIds /\ frameTable[Victim] = Head(lru)
        /\ \A q \in PageIds \ {Victim} : file'[q] = file[q]
        /\ fileLen' = IF SavedPages = {} \/ Victim < fileLen
                      THEN fileLen ELSE Victim + 1
        /\ NothingPastTheEnd'
    BY <2>1, VictimIsInFile
  <2>3. fileLen' \in Nat /\ fileLen <= fileLen'
    BY <1>1, <2>2, StoreTypes
  <2>4. ASSUME NEW q \in PageIds, Resident(q)', Settled(frameTable[q])'
        PROVE  q < fileLen' /\ frames'[frameTable'[q]].data = file'[q]
    <3>1. Resident(q) /\ frameTable[q] # Head(lru) /\ frameTable'[q] = frameTable[q]
      BY <2>1, <2>4 DEF Resident
    <3>2. frames'[frameTable[q]] = frames[frameTable[q]]
      BY <1>1, <2>1, <3>1, StoreTypes
    <3>3. q # Victim /\ InUse' = InUse
      BY <2>1, <2>2, <3>1 DEF InUse
    <3> QED BY <2>1, <2>2, <2>3, <2>4, <3>1, <3>2, <3>3, CleanPageStays
  <2>5. CleanPagesAreInFile'
    BY <2>4 DEF CleanPagesAreInFile, Settled
  <2> QED BY <2>2, <2>5 DEF StoreProperties
<1> QED
  BY <1>2, <1>3, <1>4 DEF IOFailure, WriteFailure, ReadFailure, NewPageWriteFails, FetchWriteFails, EvictionFails

LEMMA NextStore ==
    ASSUME StoreInv, Disciplined, [Next]_vars
    PROVE  StoreProperties'
<1>1. ASSUME NEW c \in Clients, ClientStep(c) PROVE StoreProperties'
  <2>1. ~UnpinRefused(c)
    BY HolderMayUnpin DEF UnpinRefused, StoreInv
  <2> QED
    BY <1>1, <2>1, FetchStore, NewPageStore, WriteStore, UnpinPageStore
    DEF ClientStep, Disciplined
<1>2. CASE AllocatePage \/ UNCHANGED vars
  BY <1>2, SameFileKeepsClean DEF AllocatePage, vars, poolVars, diskVars, InUse
<1>3. ASSUME NEW p \in PageIds, FlushPage(p) \/ DeletePage(p)
      PROVE  StoreProperties'
  BY <1>3, FlushPageStore DEF DeletePage, Disciplined
<1>4. CASE IOFailure
  BY <1>4, IOFailureStore
<1>5. CASE Crash
  BY <1>5 DEF Crash, StoreInv, StoreProperties, CleanPagesAreInFile,
     NothingPastTheEnd, Resident, diskVars
<1> QED BY <1>1, <1>2, <1>3, <1>4, <1>5 DEF Next

LEMMA StoreInvariant ==
    ASSUME Disciplined
    PROVE  Spec => []StoreInv
<1>1. Init => StoreInv
  BY InitPins
  DEF Init, StoreInv, CleanPagesAreInFile, NothingPastTheEnd, Resident
<1>2. StoreInv /\ [Next]_vars => StoreInv'
  <2> SUFFICES ASSUME StoreInv, [Next]_vars PROVE StoreInv'
    OBVIOUS
  <2>1. PinInv'
    <3>1. Structure' /\ TypeOK'
      BY NextStructure DEF StoreInv, PinInv, Structure
    <3> QED BY <3>1, NextPins, NextFreshIds DEF StoreInv, PinInv, PinProperties
  <2> QED BY <2>1, NextStore DEF StoreInv, StoreProperties
<1> QED BY <1>1, <1>2, PTL DEF Spec

\* A page that no caller has open and that is not marked dirty equals its copy in
\* the file, so that fetchPage and newPage may drop it.
THEOREM CleanPagesCorrect ==
    ASSUME Disciplined
    PROVE  Spec => []CleanPagesAreInFile
BY StoreInvariant, PTL DEF StoreInv

-----------------------------------------------------------------------------
(***************************************************************************)
(* 5. The pool over the file implements PageStore.  content and durable    *)
(* are the refinement mapping; a step that the store does not see is a     *)
(* stutter, and an eviction of a dirty page is its Save, alone or within   *)
(* Create.                                                                 *)
(***************************************************************************)

LEMMA AbsentIsNoContent ==
    ASSUME PinInv, NEW p \in PageIds
    PROVE  /\ durable[p] = Absent <=> fileLen <= p
           /\ p < fileLen => durable[p] = file[p]
           /\ content[p] = Absent <=> ~Resident(p) /\ fileLen <= p
           /\ Resident(p) => content[p] = frames[frameTable[p]].data
           /\ ~Resident(p) => content[p] = durable[p]
<1>1. fileLen \in Nat /\ p \in Nat /\ file[p] # Absent
  BY StoreTypes, PoolAssumption
<1>2. Resident(p) => frames[frameTable[p]].data # Absent
  BY StoreTypes, PoolAssumption
<1> QED BY <1>1, <1>2 DEF durable, content

\* Pages the store shows as before, page by page.
LEMMA SameContent ==
    ASSUME \A p \in PageIds : content'[p] = content[p] /\ durable'[p] = durable[p]
    PROVE  UNCHANGED Store!vars
<1>1. content' = [p \in PageIds |-> content'[p]] /\ content = [p \in PageIds |-> content[p]]
  BY DEF content
<1>2. durable' = [p \in PageIds |-> durable'[p]] /\ durable = [p \in PageIds |-> durable[p]]
  BY DEF durable
<1>3. content' = content /\ durable' = durable
  BY <1>1, <1>2
<1> QED BY <1>3 DEF Store!vars

\* What PageStore!Extended does to pages of the file.
LEMMA DurableExtended ==
    ASSUME StoreInv, NEW v \in PageIds, NEW d \in Data,
           file'[v] = d, \A q \in PageIds \ {v} : file'[q] = file[q],
           fileLen' = IF v < fileLen THEN fileLen ELSE v + 1
    PROVE  /\ durable'[v] = d
           /\ \A q \in PageIds \ {v} : durable'[q] = Store!Extended(durable, {v})[q]
<1>1. /\ PinInv /\ fileLen \in Nat /\ v \in Nat /\ NothingPastTheEnd
  BY StoreTypes DEF StoreInv
<1>2. durable'[v] = d
  BY <1>1 DEF durable
<1>3. ASSUME NEW q \in PageIds \ {v}
      PROVE  durable'[q] = Store!Extended(durable, {v})[q]
  <2>1. q \in Nat /\ (durable[q] = Absent <=> fileLen <= q)
    BY <1>1, AbsentIsNoContent, StoreTypes
  <2>2. Store!Extended(durable, {v})[q] = IF fileLen <= q /\ q < v THEN Zero ELSE durable[q]
    BY <2>1 DEF Store!Extended
  <2>3. durable'[q] = IF q < fileLen' THEN file[q] ELSE Absent
    BY DEF durable
  <2>4. CASE q < fileLen
    BY <1>1, <2>1, <2>2, <2>3, <2>4 DEF durable
  <2>5. CASE fileLen <= q /\ q < v
    BY <1>1, <2>1, <2>2, <2>3, <2>5 DEF NothingPastTheEnd
  <2>6. CASE fileLen <= q /\ ~(q < v)
    <3>1. ~(q < fileLen')
      BY <1>1, <2>1, <2>6
    <3> QED BY <2>1, <2>2, <2>3, <2>6, <3>1
  <2> QED BY <1>1, <2>1, <2>4, <2>5, <2>6
<1> QED BY <1>2, <1>3

\* A page of which the store has the content d at hand is written to the file.
LEMMA DurableSaved ==
    ASSUME StoreInv, NEW v \in PageIds, NEW d \in Data, content[v] = d,
           file'[v] = d, \A q \in PageIds \ {v} : file'[q] = file[q],
           fileLen' = IF v < fileLen THEN fileLen ELSE v + 1
    PROVE  durable' = Store!Saved({v})
<1>1. /\ durable'[v] = d
      /\ \A q \in PageIds \ {v} : durable'[q] = Store!Extended(durable, {v})[q]
  BY DurableExtended
<1>2. durable' = [q \in PageIds |-> durable'[q]]
  BY DEF durable
<1>3. \A q \in PageIds : durable'[q] = Store!Saved({v})[q]
  BY <1>1 DEF Store!Saved
<1>4. Store!Saved({v}) = [q \in PageIds |-> Store!Saved({v})[q]]
  BY DEF Store!Saved
<1> QED BY <1>2, <1>3, <1>4

\* Saving nothing is no change.
LEMMA NothingSaved ==
    /\ Store!Saved({}) = durable
    /\ Store!Extended(content, {}) = content
<1>1. Store!Extended(durable, {}) = durable
  BY DEF Store!Extended, durable
<1>2. Store!Extended(content, {}) = content
  BY DEF Store!Extended, content
<1>3. Store!Saved({}) = durable
  BY <1>1 DEF Store!Saved, durable
<1> QED BY <1>2, <1>3

\* An eviction saves the victim's page if it is dirty; what is then in the file is
\* what the store shows of the pages that are not in the pool.
LEMMA EvictionSaves ==
    ASSUME StoreInv, MayEvict, SaveVictim(Head(lru))
    PROVE  /\ durable' = Store!Saved(SavedPages)
           /\ SavedPages \in Store!MayBeSaved
           /\ \A q \in PageIds :
                /\ Resident(q) => Store!Extended(content, SavedPages)[q] = content[q]
                /\ ~Resident(q) \/ q = Victim
                   => durable'[q] = Store!Extended(content, SavedPages)[q]
<1> DEFINE v == Victim
           d == frames[Head(lru)].data
<1>1. /\ v \in PageIds /\ frameTable[v] = Head(lru)
      /\ file'[v] = d
      /\ \A q \in PageIds \ {v} : file'[q] = file[q]
      /\ fileLen' = IF SavedPages = {} \/ v < fileLen THEN fileLen ELSE v + 1
      /\ v < fileLen'
  BY VictimIsInFile
<1>2. PinInv /\ Resident(v) /\ d \in Data /\ content[v] = d /\ content[v] # Absent
  <2>1. PinInv /\ Head(lru) \in Frames
    BY VictimProperties DEF StoreInv
  <2>2. Resident(v)
    BY <1>1, <2>1, StoreTypes DEF Resident
  <2> QED BY <1>1, <2>1, <2>2, StoreTypes, AbsentIsNoContent
<1>3. SavedPages \in Store!MayBeSaved
  <2>1. SavedPages = {} \/ SavedPages = {v}
    BY DEF SavedPages
  <2> QED BY <1>1, <1>2, <2>1 DEF Store!MayBeSaved, Store!Existing
<1>4. \A q \in PageIds :
        Resident(q) => Store!Extended(content, SavedPages)[q] = content[q]
  BY <1>2, AbsentIsNoContent DEF Store!Extended
<1> HIDE DEF v, d
<1>5. CASE SavedPages = {}
  <2>1. fileLen' = fileLen /\ durable' = [q \in PageIds |-> durable'[q]]
    BY <1>1, <1>5 DEF durable
  <2>2. UNCHANGED diskVars
    <3>1. ~frames[Head(lru)].is_dirty
      BY <1>5 DEF SavedPages
    <3> QED BY <3>1 DEF SaveVictim
  <2>3. durable' = durable
    BY <2>2 DEF durable, diskVars
  <2>4. \A q \in PageIds : ~Resident(q) => durable'[q] = content[q]
    BY <1>2, <2>3, AbsentIsNoContent
  <2>5. durable'[v] = content[v]
    BY <1>1, <1>2 DEF durable
  <2> QED BY <1>3, <1>4, <1>5, <2>3, <2>4, <2>5, NothingSaved DEF v
<1>6. CASE SavedPages # {}
  <2>1. SavedPages = {v}
    BY <1>6 DEF SavedPages, v
  <2>2. fileLen' = IF v < fileLen THEN fileLen ELSE v + 1
    BY <1>1, <1>6
  <2>3. durable' = Store!Saved({v})
    BY <1>1, <1>2, <2>2, DurableSaved
  <2>4. /\ durable'[v] = d
        /\ \A q \in PageIds \ {v} : durable'[q] = Store!Extended(durable, {v})[q]
    BY <1>1, <1>2, <2>2, DurableExtended
  <2>5. ASSUME NEW q \in PageIds, ~Resident(q)
        PROVE  durable'[q] = Store!Extended(content, {v})[q]
    <3>1. content[q] = durable[q] /\ q # v
      BY <1>2, <2>5, AbsentIsNoContent
    <3>2. Store!Extended(content, {v})[q] = Store!Extended(durable, {v})[q]
      BY <3>1 DEF Store!Extended
    <3> QED BY <2>4, <3>1, <3>2
  <2>6. durable'[v] = Store!Extended(content, {v})[v]
    BY <1>1, <1>2, <1>4, <2>1, <2>4
  <2> QED BY <1>3, <1>4, <2>1, <2>3, <2>5, <2>6 DEF v
<1> QED BY <1>5, <1>6

\* A step that saves W and otherwise shows what it showed is a Save or a stutter.
LEMMA SaveIsAStep ==
    ASSUME NEW W, W \in Store!MayBeSaved,
           durable' = Store!Saved(W),
           \A q \in PageIds : content'[q] = Store!Extended(content, W)[q]
    PROVE  [Store!Next]_Store!vars
<1>1. content' = Store!Extended(content, W)
  <2>1. content' = [q \in PageIds |-> content'[q]]
    BY DEF content
  <2>2. Store!Extended(content, W) = [q \in PageIds |-> Store!Extended(content, W)[q]]
    BY DEF Store!Extended
  <2> QED BY <2>1, <2>2
<1>2. CASE W = {}
  BY <1>1, <1>2, NothingSaved DEF Store!vars
<1>3. CASE W # {}
  <2>1. PICK v \in Store!Existing : W = {v} /\ v \in PageIds
    BY <1>3 DEF Store!MayBeSaved, Store!Existing
  <2>2. Store!Save(v)
    BY <1>1, <2>1 DEF Store!Save
  <2> QED BY <2>1, <2>2 DEF Store!Next
<1> QED BY <1>2, <1>3

\* A page that client c takes in a frame nobody held; the others are shown as
\* before, or as the file has them.
LEMMA TakenContent ==
    ASSUME StoreInv, NEW c \in Clients, NEW p \in PageIds, NEW f, Takes(c, p, f)
    PROVE  /\ content'[p] = frames'[f].data
           /\ \A q \in PageIds \ {p} :
                content'[q] = IF Resident(q) /\ frameTable[q] # f
                              THEN content[q] ELSE durable'[q]
<1>1. PinInv /\ f \in Frames /\ NoFrame \notin Frames
  BY StoreTypes DEF StoreInv, Takes
<1>2. content'[p] = frames'[f].data
  BY <1>1 DEF Takes, content, Resident
<1>3. ASSUME NEW q \in PageIds \ {p}
      PROVE  content'[q] = IF Resident(q) /\ frameTable[q] # f
                           THEN content[q] ELSE durable'[q]
  <2>1. CASE Resident(q) /\ frameTable[q] # f
    <3>1. Resident(q)' /\ frameTable'[q] = frameTable[q]
      BY <2>1 DEF Takes, Resident
    <3>2. frames'[frameTable[q]] = frames[frameTable[q]]
      BY <1>1, <2>1, StoreTypes DEF Takes
    <3> QED BY <2>1, <3>1, <3>2 DEF content
  <2>2. CASE ~(Resident(q) /\ frameTable[q] # f)
    <3>1. ~Resident(q)'
      BY <1>3, <2>2 DEF Takes, Resident
    <3> QED BY <2>2, <3>1 DEF content
  <2> QED BY <2>1, <2>2
<1> QED BY <1>2, <1>3

LEMMA FetchImplements ==
    ASSUME StoreInv, ~Probes, NEW c \in Clients, NEW p \in PageIds,
           FetchResident(c, p) \/ FetchIntoUnused(c, p) \/ FetchEvicting(c, p)
    PROVE  [Store!Next]_Store!vars
<1>1. PinInv /\ TypeOK /\ fileLen \in Nat /\ p \in Nat
  BY StoreTypes DEF StoreInv
<1>2. CASE FetchResident(c, p)
  <2>1. frameTable[p] \in Frames /\ frames[frameTable[p]] \in PageObject
    BY <1>1, <1>2, StoreTypes DEF FetchResident
  <2>2. \A q \in PageIds : Resident(q) =>
            frames'[frameTable[q]].data = frames[frameTable[q]].data
    BY <1>1, <1>2, <2>1, StoreTypes, PinnedPage DEF FetchResident, TypeOK
  <2> QED
    BY <1>2, <2>2, SameContent DEF FetchResident, diskVars, content, durable, Resident
<1>3. CASE FetchIntoUnused(c, p)
  <2> DEFINE f == Head(unused)
  <2>1. /\ Takes(c, p, f)
        /\ \A q \in PageIds : frameTable[q] # f
        /\ frames'[f] = LoadedPage(p, ReadPage(file, fileLen, p, frames[f].data))
    BY <1>1, <1>3, FetchIntoUnusedTakes
  <2>2. p < fileLen /\ durable' = durable /\ ~Resident(p)
    BY <1>3 DEF FetchIntoUnused, MayFetch, diskVars, durable
  <2> HIDE DEF f
  <2>3. frames'[f].data = durable[p]
    BY <2>1, <2>2 DEF LoadedPage, ReadPage, durable
  <2>4. \A q \in PageIds : content'[q] = content[q]
    BY <1>1, <2>1, <2>2, <2>3, TakenContent, AbsentIsNoContent
  <2> QED BY <2>2, <2>4, SameContent
<1>4. CASE FetchEvicting(c, p)
  <2> DEFINE f == Head(lru)
  <2>1. MayEvict /\ SaveVictim(f) /\ p < fileLen /\ ~Resident(p)
    BY <1>4 DEF FetchEvicting, MayFetch
  <2>2. /\ Takes(c, p, f)
        /\ frames'[f] = LoadedPage(p, ReadPage(file', fileLen', p, frames[f].data))
    BY <1>1, <1>4, FetchEvictingTakes
  <2>3. /\ durable' = Store!Saved(SavedPages) /\ SavedPages \in Store!MayBeSaved
        /\ \A q \in PageIds :
             /\ Resident(q) => Store!Extended(content, SavedPages)[q] = content[q]
             /\ ~Resident(q) \/ q = Victim
                => durable'[q] = Store!Extended(content, SavedPages)[q]
    BY <2>1, EvictionSaves
  <2>4. Victim \in PageIds /\ \A q \in PageIds : frameTable[q] = f => q = Victim
    <3>1. Victim \in PageIds /\ frameTable[Victim] = f /\ f \in Frames
      BY <1>1, <2>1, VictimProperties DEF Victim
    <3> QED BY <1>1, <3>1, StoreTypes, FramesServeOnePage DEF PinInv, Resident
  <2>5. p < fileLen'
    <3>1. Victim \in Nat
      BY <1>1, <2>4, StoreTypes
    <3>2. fileLen' = IF SavedPages = {} \/ Victim < fileLen
                     THEN fileLen ELSE Victim + 1
      BY <2>1, VictimIsInFile
    <3> QED BY <1>1, <2>1, <3>1, <3>2
  <2> HIDE DEF f
  <2>6. frames'[f].data = durable'[p]
    BY <2>2, <2>5 DEF LoadedPage, ReadPage, durable
  <2>7. \A q \in PageIds : content'[q] = Store!Extended(content, SavedPages)[q]
    BY <2>1, <2>2, <2>3, <2>4, <2>6, TakenContent
  <2> QED BY <2>3, <2>7, SaveIsAStep
<1> QED BY <1>2, <1>3, <1>4

\* newPage creates the page it was given an identifier for.
LEMMA NewPageImplements ==
    ASSUME StoreInv, NEW c \in Clients, NewPageInUnused(c) \/ NewPageEvicting(c)
    PROVE  Store!Next
<1> DEFINE p == nextPageId
<1>1. /\ PinInv /\ p \in PageIds /\ content[p] = Absent
  <2>1. PinInv /\ p \in PageIds /\ ~Resident(p) /\ fileLen <= p
    BY NextIdIsFresh
    DEF StoreInv, PinInv, FreshIdsAreUnknown, NewPageInUnused, NewPageEvicting
  <2> QED BY <2>1, AbsentIsNoContent
<1>2. SUFFICES \E W \in Store!MayBeSaved :
                 /\ durable' = Store!Saved(W)
                 /\ content' = [Store!Extended(content, W) EXCEPT ![p] = Zero]
  BY <1>1 DEF Store!Next, Store!Create
<1>3. ASSUME NEW W, content'[p] = Zero,
             \A q \in PageIds \ {p} : content'[q] = Store!Extended(content, W)[q]
      PROVE  content' = [Store!Extended(content, W) EXCEPT ![p] = Zero]
  <2>1. content' = [q \in PageIds |-> content'[q]]
    BY DEF content
  <2>2. [Store!Extended(content, W) EXCEPT ![p] = Zero]
        = [q \in PageIds |-> IF q = p THEN Zero ELSE Store!Extended(content, W)[q]]
    BY DEF Store!Extended
  <2> QED BY <1>3, <2>1, <2>2
<1>4. CASE NewPageInUnused(c)
  <2>1. /\ Takes(c, p, Head(unused))
        /\ \A q \in PageIds : frameTable[q] # Head(unused)
        /\ frames'[Head(unused)] = FreshPage(p)
    BY <1>1, <1>4, NewPageInUnusedTakes
  <2>2. durable' = durable /\ frames'[Head(unused)].data = Zero
    BY <1>4, <2>1 DEF NewPageInUnused, diskVars, durable, FreshPage
  <2>3. content'[p] = Zero /\ \A q \in PageIds \ {p} : content'[q] = content[q]
    BY <1>1, <2>1, <2>2, TakenContent, AbsentIsNoContent
  <2>4. /\ durable' = Store!Saved({})
        /\ content' = [Store!Extended(content, {}) EXCEPT ![p] = Zero]
    BY <1>3, <2>2, <2>3, NothingSaved
  <2>5. {} \in Store!MayBeSaved
    BY DEF Store!MayBeSaved
  <2> QED BY <2>4, <2>5
<1>5. CASE NewPageEvicting(c)
  <2> DEFINE f == Head(lru)
  <2>1. MayEvict /\ SaveVictim(f)
    BY <1>5 DEF NewPageEvicting
  <2>2. Takes(c, p, f) /\ frames'[f].data = Zero
    BY <1>1, <1>5, NewPageEvictingTakes DEF FreshPage
  <2>3. /\ durable' = Store!Saved(SavedPages) /\ SavedPages \in Store!MayBeSaved
        /\ \A q \in PageIds :
             /\ Resident(q) => Store!Extended(content, SavedPages)[q] = content[q]
             /\ ~Resident(q) \/ q = Victim
                => durable'[q] = Store!Extended(content, SavedPages)[q]
    BY <2>1, EvictionSaves
  <2>4. Victim \in PageIds /\ \A q \in PageIds : frameTable[q] = f => q = Victim
    <3>1. Victim \in PageIds /\ frameTable[Victim] = f /\ f \in Frames
      BY <1>1, <2>1, VictimProperties DEF Victim
    <3> QED BY <1>1, <3>1, StoreTypes, FramesServeOnePage DEF PinInv, Resident
  <2> HIDE DEF f
  <2>5. /\ content'[p] = Zero
        /\ \A q \in PageIds \ {p} : content'[q] = Store!Extended(content, SavedPages)[q]
    BY <1>1, <2>2, <2>3, <2>4, TakenContent
  <2>6. content' = [Store!Extended(content, SavedPages) EXCEPT ![p] = Zero]
    BY <1>3, <2>5
  <2> QED BY <2>3, <2>6
<1> QED BY <1>4, <1>5

\* A client changes the page it asked for and no other.
LEMMA WriteImplements ==
    ASSUME StoreInv, NEW c \in Clients, NEW d \in Data, Write(c, d)
    PROVE  Store!Next
<1> DEFINE p == held[c].page
           f == held[c].frame
<1>1. /\ PinInv /\ TypeOK /\ p \in PageIds /\ f \in Frames /\ Resident(p)
      /\ frameTable[p] = f
      /\ frames' = [frames EXCEPT ![f] = Filled(@, d)]
      /\ UNCHANGED <<frameTable, file, fileLen>>
  BY HeldFramesAreMapped, HolderMayUnpin, StoreTypes
  DEF StoreInv, Write, Unpinnable, diskVars
<1> HIDE DEF p, f
<1>2. /\ frames'[f].data = d
      /\ \A g \in Frames \ {f} : frames'[g] = frames[g]
  BY <1>1, FilledPage DEF TypeOK
<1>3. \A q \in PageIds \ {p} : content'[q] = content[q]
  <2>1. \A q \in PageIds \ {p} : Resident(q) => frameTable[q] \in Frames \ {f}
    BY <1>1, StoreTypes, FramesServeOnePage DEF PinInv
  <2> QED BY <1>1, <1>2, <2>1 DEF content, durable, Resident
<1>4. content'[p] = d
  BY <1>1, <1>2 DEF content, Resident
<1>5. content' = [content EXCEPT ![p] = d]
  <2>1. content' = [q \in PageIds |-> content'[q]]
    BY DEF content
  <2>2. [content EXCEPT ![p] = d] = [q \in PageIds |-> IF q = p THEN d ELSE content[q]]
    BY DEF content
  <2> QED BY <1>3, <1>4, <2>1, <2>2
<1>6. durable' = durable
  BY <1>1 DEF durable
<1>7. p \in Store!Existing
  BY <1>1, AbsentIsNoContent DEF Store!Existing
<1>8. Store!Write(p, d)
  BY <1>5, <1>6, <1>7 DEF Store!Write
<1> QED BY <1>1, <1>8 DEF Store!Next

LEMMA UnpinPageImplements ==
    ASSUME StoreInv, NEW c \in Clients, NEW dirty \in BOOLEAN, UnpinPage(c, dirty)
    PROVE  UNCHANGED Store!vars
<1>1. PinInv /\ TypeOK /\ c \in InUse
  BY StoreTypes DEF StoreInv, UnpinPage
<1>2. PICK f \in Frames :
        /\ frames[f] \in PageObject /\ frames[f].pins > 0
        /\ frames' = [frames EXCEPT ![f] = Unpinned(@, dirty)]
        /\ UNCHANGED <<frameTable, file, fileLen>>
  BY <1>1, UnpinnableFrame DEF UnpinPage, diskVars
<1>3. \A g \in Frames : frames'[g].data = frames[g].data
  BY <1>1, <1>2, UnpinnedPage DEF TypeOK
<1> QED BY <1>1, <1>2, <1>3, StoreTypes, SameContent DEF content, durable, Resident

\* flushPage saves the page it is called for.
LEMMA FlushPageImplements ==
    ASSUME StoreInv, NEW p \in PageIds, FlushPage(p)
    PROVE  Store!Next
<1> DEFINE f == frameTable[p]
           d == frames[f].data
<1>1. /\ PinInv /\ TypeOK /\ NothingPastTheEnd /\ Resident(p)
      /\ f \in Frames /\ frames[f] \in PageObject /\ d \in Data
  BY StoreTypes DEF StoreInv, FlushPage
<1>2. content[p] = d /\ content[p] # Absent
  BY <1>1, AbsentIsNoContent
<1>3. /\ file'[p] = d
      /\ \A q \in PageIds \ {p} : file'[q] = file[q]
      /\ fileLen' = IF p < fileLen THEN fileLen ELSE p + 1
  BY <1>1, WrittenFile DEF FlushPage
<1>4. frameTable' = frameTable /\ \A g \in Frames : frames'[g].data = frames[g].data
  BY <1>1, CleanedPage DEF FlushPage, TypeOK
<1> HIDE DEF d, f
<1>5. /\ durable' = Store!Saved({p})
      /\ \A q \in PageIds \ {p} : durable'[q] = Store!Extended(durable, {p})[q]
  BY <1>1, <1>2, <1>3, DurableSaved, DurableExtended
<1>6. ASSUME NEW q \in PageIds PROVE content'[q] = Store!Extended(content, {p})[q]
  <2>1. CASE Resident(q)
    <3>1. content'[q] = content[q] /\ content[q] # Absent
      BY <1>1, <1>4, <2>1, StoreTypes, AbsentIsNoContent DEF content, Resident
    <3> QED BY <3>1 DEF Store!Extended
  <2>2. CASE ~Resident(q)
    <3>1. content'[q] = durable'[q] /\ q # p /\ content[q] = durable[q]
      BY <1>1, <1>4, <2>2, AbsentIsNoContent DEF content, Resident
    <3>2. Store!Extended(content, {p})[q] = Store!Extended(durable, {p})[q]
      BY <3>1 DEF Store!Extended
    <3> QED BY <1>5, <3>1, <3>2
  <2> QED BY <2>1, <2>2
<1>7. content' = Store!Extended(content, {p})
  <2>1. content' = [q \in PageIds |-> content'[q]]
    BY DEF content
  <2>2. Store!Extended(content, {p}) = [q \in PageIds |-> Store!Extended(content, {p})[q]]
    BY DEF Store!Extended
  <2> QED BY <1>6, <2>1, <2>2
<1>8. Store!Save(p)
  BY <1>2, <1>5, <1>7 DEF Store!Save, Store!Existing
<1> QED BY <1>8 DEF Store!Next

LEMMA IOFailureImplements ==
    ASSUME StoreInv, IOFailure
    PROVE  [Store!Next]_Store!vars
<1>1. PinInv /\ TypeOK /\ fileLen \in Nat
  BY StoreTypes DEF StoreInv
<1>2. ASSUME UNCHANGED <<frames, frameTable, diskVars>>
      PROVE  UNCHANGED Store!vars
  BY <1>2, SameContent DEF diskVars, content, durable, Resident
<1>3. ASSUME NEW c \in Clients, NEW p \in PageIds, UnusedReadFails(c, p)
      PROVE  UNCHANGED Store!vars
  <2>1. \A q \in PageIds : Resident(q) => frames'[frameTable[q]] = frames[frameTable[q]]
    BY <1>1, <1>3, UnusedFront, StoreTypes DEF UnusedReadFails, TypeOK
  <2> QED
    BY <1>3, <2>1, SameContent DEF UnusedReadFails, diskVars, content, durable, Resident
<1>4. ASSUME NEW c \in Clients, NEW p \in PageIds, EvictingReadFails(c, p)
      PROVE  [Store!Next]_Store!vars
  <2> DEFINE f == Head(lru)
  <2>1. /\ MayEvict /\ SaveVictim(f)
        /\ \A g \in Frames \ {f} : frames'[g] = frames[g]
        /\ \A q \in PageIds :
             frameTable'[q] = IF frameTable[q] = f THEN NoFrame ELSE frameTable[q]
    BY <1>1, <1>4, EvictingReadFailsTakes
  <2>2. /\ durable' = Store!Saved(SavedPages) /\ SavedPages \in Store!MayBeSaved
        /\ \A q \in PageIds :
             /\ Resident(q) => Store!Extended(content, SavedPages)[q] = content[q]
             /\ ~Resident(q) \/ q = Victim
                => durable'[q] = Store!Extended(content, SavedPages)[q]
    BY <2>1, EvictionSaves
  <2>3. Victim \in PageIds /\ \A q \in PageIds : frameTable[q] = f => q = Victim
    <3>1. Victim \in PageIds /\ frameTable[Victim] = f /\ f \in Frames
      BY <1>1, <2>1, VictimProperties DEF Victim
    <3> QED BY <1>1, <3>1, StoreTypes, FramesServeOnePage DEF PinInv, Resident
  <2> HIDE DEF f
  <2>4. ASSUME NEW q \in PageIds
        PROVE  content'[q] = Store!Extended(content, SavedPages)[q]
    <3>1. CASE Resident(q) /\ frameTable[q] # f
      <4>1. Resident(q)' /\ frameTable'[q] = frameTable[q]
        BY <2>1, <3>1 DEF Resident
      <4>2. frames'[frameTable[q]] = frames[frameTable[q]]
        BY <1>1, <2>1, <3>1, StoreTypes
      <4>3. content'[q] = content[q]
        BY <3>1, <4>1, <4>2 DEF content
      <4> QED BY <2>2, <3>1, <4>3
    <3>2. CASE ~Resident(q) \/ frameTable[q] = f
      <4>1. ~Resident(q)'
        BY <2>1, <3>2 DEF Resident
      <4>2. content'[q] = durable'[q]
        BY <4>1 DEF content
      <4> QED BY <2>2, <2>3, <3>2, <4>2
    <3> QED BY <3>1, <3>2
  <2> QED BY <2>2, <2>4, SaveIsAStep
<1> QED
  BY <1>2, <1>3, <1>4 DEF IOFailure, WriteFailure, ReadFailure, NewPageWriteFails, FetchWriteFails, EvictionFails

LEMMA NextImplements ==
    ASSUME StoreInv, Disciplined, [Next]_vars
    PROVE  [Store!Next]_Store!vars
<1>1. ASSUME NEW c \in Clients, ClientStep(c) PROVE [Store!Next]_Store!vars
  <2>1. ~UnpinRefused(c)
    BY HolderMayUnpin DEF UnpinRefused, StoreInv
  <2> QED
    BY <1>1, <2>1, FetchImplements, NewPageImplements, WriteImplements,
       UnpinPageImplements DEF ClientStep, Disciplined
<1>2. CASE AllocatePage \/ UNCHANGED vars
  BY <1>2, SameContent
  DEF AllocatePage, vars, poolVars, diskVars, content, durable, Resident
<1>3. ASSUME NEW p \in PageIds, FlushPage(p) \/ DeletePage(p) PROVE Store!Next
  BY <1>3, FlushPageImplements DEF DeletePage, Disciplined
<1>4. CASE IOFailure
  BY <1>4, IOFailureImplements
<1>5. CASE Crash
  <2>1. durable' = durable
    BY <1>5 DEF Crash, diskVars, durable
  <2>2. content' = durable'
    <3>1. \A p \in PageIds : ~Resident(p)'
      BY <1>5 DEF Crash, Resident
    <3>2. content' = [p \in PageIds |-> durable'[p]]
      BY <3>1 DEF content
    <3> QED BY <3>2 DEF durable
  <2>3. Store!Crash
    BY <2>1, <2>2 DEF Store!Crash
  <2> QED BY <2>3 DEF Store!Next
<1> QED BY <1>1, <1>2, <1>3, <1>4, <1>5 DEF Next

\* The pool and the file together are one store of pages, for any number of
\* frames, pages and clients: no eviction, reload, failed call or restart changes
\* what a page contains.
THEOREM StoreImplemented ==
    ASSUME Disciplined
    PROVE  Spec => ImplementsPageStore
<1>1. Init => Store!Init
  BY DEF Init, Store!Init, content, durable, Resident
<1>2. StoreInv /\ [Next]_vars => [Store!Next]_Store!vars
  BY NextImplements
<1> QED BY <1>1, <1>2, StoreInvariant, PTL DEF Spec, ImplementsPageStore, Store!Spec

-----------------------------------------------------------------------------
(***************************************************************************)
(* 6. Frames that a step takes from the pool.                              *)
(***************************************************************************)

\* Frames that stay free or evictable, or stay in use with their pin count, are
\* not lost; the step may choose what becomes of f.
LEMMA NoNewLeak ==
    ASSUME NEW f, f \notin Lost', f \notin Stranded',
           \A g \in Frames \ {f} :
               /\ g \in ToSet(unused) \cup ToSet(lru)
                  => g \in ToSet(unused') \cup ToSet(lru')
               /\ g \in Mapped => frames'[g].pins = frames[g].pins
               /\ g \in Mapped' <=> g \in Mapped
    PROVE  NoFrameIsLost
<1>1. ASSUME NEW g, g \in Lost' PROVE g \in Lost
  BY <1>1 DEF Lost
<1>2. ASSUME NEW g, g \in Stranded' PROVE g \in Stranded
  <2>1. g \in Frames \ {f} /\ g \in Mapped' /\ g \notin ToSet(unused') \cup ToSet(lru')
        /\ frames'[g].pins = 0
    BY <1>2 DEF Stranded, Mapped
  <2>2. g \in Mapped /\ frames[g].pins = 0 /\ g \notin ToSet(unused) \cup ToSet(lru)
    BY <2>1
  <2> QED BY <2>2 DEF Stranded
<1> QED BY <1>1, <1>2 DEF NoFrameIsLost

\* A frame that a client takes is pinned, and what was free or evictable besides
\* it still is.
LEMMA TakenIsNoLeak ==
    ASSUME PinInv, NEW c \in Clients, NEW p \in PageIds, NEW f, Takes(c, p, f),
           frames'[f].pins = 1,
           ToSet(unused) \cup ToSet(lru) \subseteq ToSet(unused') \cup ToSet(lru') \cup {f}
    PROVE  NoFrameIsLost
<1>1. f \in Frames /\ f \in Mapped'
  BY DEF Takes, Mapped
<1>2. f \notin Lost' /\ f \notin Stranded'
  BY <1>1 DEF Lost, Stranded
<1>3. ASSUME NEW g \in Frames \ {f}, g \in Mapped
      PROVE  g \in Mapped' /\ frames'[g].pins = frames[g].pins
  <2>1. PICK q \in PageIds : frameTable[q] = g
    BY <1>3 DEF Mapped
  <2>2. frameTable'[q] = g
    BY <1>3, <2>1, StoreTypes DEF Takes, Resident
  <2> QED BY <2>2 DEF Takes, Mapped
<1>4. ASSUME NEW g \in Frames \ {f}, g \in Mapped' PROVE g \in Mapped
  <2>1. PICK q \in PageIds : frameTable'[q] = g
    BY <1>4 DEF Mapped
  <2>2. q # p /\ frameTable[q] = g
    BY <1>4, <2>1, StoreTypes DEF Takes, Frames, NoFrame
  <2> QED BY <2>2 DEF Mapped
<1> QED BY <1>2, <1>3, <1>4, NoNewLeak

\* The front of unused_frames_ and the victim leave their lists, nobody else.
LEMMA FrontsLeave ==
    ASSUME PinInv
    PROVE  /\ unused # <<>> =>
                ToSet(unused) \subseteq ToSet(Tail(unused)) \cup {Head(unused)}
           /\ MayEvict => ToSet(lru) \subseteq ToSet(Tail(lru)) \cup {Head(lru)}
BY TailProperties
DEF PinInv, Structure, TypeOK, UnusedFramesAreFree, OnlyUnpinnedAreEvictable, MayEvict

LEMMA ClientStepLeaks ==
    ASSUME PinInv, NEW c \in Clients, ClientStep(c)
    PROVE  NoFrameIsLost
<1>1. TypeOK /\ NoRepetition(lru)
  BY DEF PinInv, Structure, OnlyUnpinnedAreEvictable
<1>2. ASSUME NEW p \in PageIds, FetchResident(c, p) PROVE NoFrameIsLost
  <2> DEFINE f == frameTable[p]
  <2>1. /\ f \in Frames /\ f \in Mapped /\ Mapped' = Mapped
        /\ frames[f] \in PageObject /\ unused' = unused
        /\ frames' = [frames EXCEPT ![f] = Pinned(@)]
        /\ lru' = Without(lru, f)
    BY <1>2, StoreTypes DEF FetchResident, Mapped
  <2> HIDE DEF f
  <2>2. /\ frames'[f].pins = frames[f].pins + 1 /\ frames[f].pins \in Nat
        /\ \A g \in Frames \ {f} : frames'[g] = frames[g]
    BY <1>1, <2>1, PinnedPage, PageFields DEF TypeOK
  <2>3. ToSet(lru') = ToSet(lru) \ {f}
    BY <1>1, <2>1, WithoutProperties DEF TypeOK
  <2>4. f \notin Lost' /\ f \notin Stranded'
    BY <2>1, <2>2 DEF Lost, Stranded
  <2> QED BY <2>1, <2>2, <2>3, <2>4, NoNewLeak
<1>3. ASSUME NEW p \in PageIds, FetchIntoUnused(c, p) PROVE NoFrameIsLost
  <2> DEFINE f == Head(unused)
  <2>1. Takes(c, p, f) /\ frames'[f].pins = 1
    BY <1>3, FetchIntoUnusedTakes, LoadedPageFields
  <2>2. unused # <<>> /\ unused' = Tail(unused) /\ lru' = Without(lru, f)
    BY <1>3 DEF FetchIntoUnused
  <2>3. ToSet(lru') = ToSet(lru) \ {f}
    BY <1>1, <2>2, WithoutProperties DEF TypeOK
  <2>4. ToSet(unused) \subseteq ToSet(unused') \cup {f}
    BY <2>2, FrontsLeave
  <2> HIDE DEF f
  <2> QED BY <2>1, <2>3, <2>4, TakenIsNoLeak
<1>4. ASSUME NEW p \in PageIds, FetchEvicting(c, p) PROVE NoFrameIsLost
  <2> DEFINE f == Head(lru)
  <2>1. Takes(c, p, f) /\ frames'[f].pins = 1
    BY <1>4, FetchEvictingTakes, LoadedPageFields
  <2>2. ToSet(lru) \subseteq ToSet(lru') \cup {f} /\ unused' = unused
    BY <1>4, FrontsLeave DEF FetchEvicting
  <2> HIDE DEF f
  <2> QED BY <2>1, <2>2, TakenIsNoLeak
<1>5. ASSUME NewPageInUnused(c) PROVE NoFrameIsLost
  <2> DEFINE f == Head(unused)
  <2>1. nextPageId \in PageIds /\ Takes(c, nextPageId, f) /\ frames'[f].pins = 1
    BY <1>5, NewPageInUnusedTakes DEF FreshPage
  <2>2. ToSet(unused) \subseteq ToSet(unused') \cup {f} /\ lru' = lru
    BY <1>5, FrontsLeave DEF NewPageInUnused
  <2> HIDE DEF f
  <2> QED BY <2>1, <2>2, TakenIsNoLeak
<1>6. ASSUME NewPageEvicting(c) PROVE NoFrameIsLost
  <2> DEFINE f == Head(lru)
  <2>1. nextPageId \in PageIds /\ Takes(c, nextPageId, f) /\ frames'[f].pins = 1
    BY <1>6, NewPageEvictingTakes DEF FreshPage
  <2>2. ToSet(lru) \subseteq ToSet(lru') \cup {f} /\ unused' = unused
    BY <1>6, FrontsLeave DEF NewPageEvicting
  <2> HIDE DEF f
  <2> QED BY <2>1, <2>2, TakenIsNoLeak
<1>7. ASSUME NEW d \in Data, Write(c, d) PROVE NoFrameIsLost
  <2>1. held[c].frame \in Frames /\ \A g \in Frames : frames'[g].pins = frames[g].pins
    BY <1>1, <1>7, HeldFramesAreMapped, FilledPage DEF Write, TypeOK
  <2> QED BY <1>7, <2>1 DEF Write, NoFrameIsLost, Lost, Stranded, Mapped
<1>8. ASSUME NEW dirty \in BOOLEAN, UnpinPage(c, dirty) PROVE NoFrameIsLost
  <2>1. PICK f \in Frames :
          /\ f \in Mapped /\ Mapped' = Mapped /\ unused' = unused
          /\ frames[f] \in PageObject /\ frames[f].pins > 0
          /\ frames' = [frames EXCEPT ![f] = Unpinned(@, dirty)]
          /\ lru' = IF frames[f].pins = 1 THEN Touched(lru, f) ELSE lru
    <3>1. c \in InUse
      BY <1>8 DEF UnpinPage
    <3> QED
      BY <1>1, <1>8, <3>1, HolderMayUnpin, HeldFramesAreMapped, UnpinnableFrame
      DEF UnpinPage, Mapped
  <2>2. /\ frames'[f].pins = frames[f].pins - 1 /\ frames[f].pins \in Nat
        /\ \A g \in Frames \ {f} : frames'[g] = frames[g]
    BY <1>1, <2>1, UnpinnedPage, PageFields DEF TypeOK
  <2>3. CASE frames[f].pins = 1
    <3>1. ToSet(lru') = ToSet(lru) \cup {f}
      BY <1>1, <2>1, <2>3, TouchedProperties DEF TypeOK
    <3>2. f \notin Lost' /\ f \notin Stranded'
      BY <3>1 DEF Lost, Stranded
    <3> QED BY <2>1, <2>2, <3>1, <3>2, NoNewLeak
  <2>4. CASE frames[f].pins # 1
    <3>1. lru' = lru /\ frames'[f].pins # 0
      BY <2>1, <2>2, <2>4
    <3>2. f \notin Lost' /\ f \notin Stranded'
      BY <2>1, <3>1 DEF Lost, Stranded
    <3> QED BY <2>1, <2>2, <3>1, <3>2, NoNewLeak
  <2> QED BY <2>3, <2>4
<1>9. ~UnpinRefused(c)
  BY HolderMayUnpin DEF UnpinRefused
<1> QED BY <1>2, <1>3, <1>4, <1>5, <1>6, <1>7, <1>8, <1>9 DEF ClientStep

LEMMA NextLeaks ==
    ASSUME PinInv, TypeOK', Disciplined, [Next]_vars
    PROVE  NoFrameIsLost \/ IOFailure \/ UNCHANGED vars
<1>1. ASSUME NEW c \in Clients, ClientStep(c) PROVE NoFrameIsLost
  BY <1>1, ClientStepLeaks
<1>2. CASE AllocatePage
  BY <1>2 DEF AllocatePage, poolVars, NoFrameIsLost, Lost, Stranded, Mapped
<1>3. ASSUME NEW p \in PageIds, FlushPage(p) \/ DeletePage(p)
      PROVE  NoFrameIsLost
  <2>1. \A g \in Frames : frames'[g].pins = frames[g].pins
    BY <1>3, StoreTypes, CleanedPage DEF FlushPage, DeletePage, Disciplined, TypeOK
  <2> QED BY <1>3, <2>1 DEF FlushPage, DeletePage, Disciplined, NoFrameIsLost, Lost, Stranded, Mapped
<1>4. CASE Crash
  <2>1. ASSUME NEW f \in Frames PROVE f \in ToSet(AllUnused)
    <3>1. /\ f + 1 \in 1..Capacity /\ AllUnused[f + 1] = f
          /\ DOMAIN AllUnused = 1..Capacity
      BY PoolAssumption DEF Frames, AllUnused
    <3> QED BY <3>1 DEF ToSet
  <2> QED BY <1>4, <2>1 DEF Crash, NoFrameIsLost, Lost, Stranded, Mapped
<1> QED BY <1>1, <1>2, <1>3, <1>4 DEF Next

\* The victim has left the replacer, and its page is still in the table.
LEMMA WriteFailureStrands ==
    ASSUME PinInv, WriteFailure
    PROVE  Lost' = Lost /\ \E f \in Frames : Stranded' = Stranded \cup {f}
<1> DEFINE f == Head(lru)
<1>1. /\ lru # <<>> /\ unused = <<>> /\ lru' = Tail(lru)
      /\ frames' = frames /\ frameTable' = frameTable /\ unused' = unused
  BY DEF WriteFailure, NewPageWriteFails, FetchWriteFails, EvictionFails, MayEvict
<1>2. /\ f \in ToSet(lru) /\ ToSet(lru') = ToSet(lru) \ {f}
      /\ f \in Mapped /\ f \in Frames /\ frames[f].pins = 0
  BY <1>1, TailProperties DEF PinInv, Structure, TypeOK, OnlyUnpinnedAreEvictable, Mapped
<1>3. f \notin ToSet(unused)
  BY <1>1 DEF ToSet
<1> HIDE DEF f
<1>4. Lost' = Lost
  BY <1>1, <1>2 DEF Lost, Mapped
<1>5. Stranded' = Stranded \cup {f}
  BY <1>1, <1>2, <1>3 DEF Stranded, Mapped
<1> QED BY <1>2, <1>4, <1>5

\* The frame that was read into is on no list and in no entry of the table.
LEMMA ReadFailureLoses ==
    ASSUME PinInv, ReadFailure
    PROVE  Stranded' = Stranded /\ \E f \in Frames : Lost' = Lost \cup {f}
<1>1. ASSUME NEW c \in Clients, NEW p \in PageIds, UnusedReadFails(c, p)
      PROVE  Stranded' = Stranded /\ \E f \in Frames : Lost' = Lost \cup {f}
  <2> DEFINE f == Head(unused)
  <2>1. /\ unused # <<>> /\ unused' = Tail(unused) /\ lru' = lru
        /\ frameTable' = frameTable
        /\ \A g \in Frames \ {f} : frames'[g] = frames[g]
    BY <1>1, StoreTypes DEF UnusedReadFails, PinInv, Structure, TypeOK
  <2>2. /\ f \in ToSet(unused) /\ ToSet(unused') = ToSet(unused) \ {f}
        /\ f \notin Mapped /\ f \in Frames /\ f \notin ToSet(lru)
    BY <2>1, TailProperties
    DEF PinInv, Structure, TypeOK, UnusedFramesAreFree, OnlyUnpinnedAreEvictable
  <2>3. Mapped' = Mapped /\ Mapped \subseteq Frames
    BY <2>1 DEF Mapped
  <2> HIDE DEF f
  <2>4. Lost' = Lost \cup {f}
    BY <2>1, <2>2, <2>3 DEF Lost
  <2>5. Stranded' = Stranded
    BY <2>1, <2>2, <2>3 DEF Stranded
  <2> QED BY <2>2, <2>4, <2>5
<1>2. ASSUME NEW c \in Clients, NEW p \in PageIds, EvictingReadFails(c, p)
      PROVE  Stranded' = Stranded /\ \E f \in Frames : Lost' = Lost \cup {f}
  <2> DEFINE f == Head(lru)
  <2>1. /\ lru # <<>> /\ unused = <<>> /\ lru' = Tail(lru) /\ unused' = unused
        /\ \A g \in Frames \ {f} : frames'[g] = frames[g]
        /\ \A q \in PageIds :
             frameTable'[q] = IF frameTable[q] = f THEN NoFrame ELSE frameTable[q]
    BY <1>2, EvictingReadFailsTakes DEF EvictingReadFails, MayEvict
  <2>2. /\ f \in ToSet(lru) /\ ToSet(lru') = ToSet(lru) \ {f}
        /\ f \in Mapped /\ f \in Frames
    BY <2>1, TailProperties DEF PinInv, Structure, TypeOK, OnlyUnpinnedAreEvictable, Mapped
  <2>3. f \notin ToSet(unused)
    BY <2>1 DEF ToSet
  <2>4. f # NoFrame
    BY <2>2, StoreTypes DEF Frames, NoFrame
  <2> HIDE DEF f
  <2>5. Mapped' = Mapped \ {f} /\ Mapped \subseteq Frames
    <3>1. \A g \in Frames : g # NoFrame
      BY PoolAssumption DEF Frames, NoFrame
    <3> QED BY <2>1, <3>1 DEF Mapped
  <2>6. Lost' = Lost \cup {f}
    BY <2>1, <2>2, <2>3, <2>5 DEF Lost
  <2>7. Stranded' = Stranded
    BY <2>1, <2>2, <2>5 DEF Stranded
  <2> QED BY <2>2, <2>6, <2>7
<1> QED BY <1>1, <1>2 DEF ReadFailure

\* A call that does not fail takes no frame from the pool; a failed write strands
\* one, whose page stays, and a failed read loses one.
THEOREM FramesAreAccounted ==
    ASSUME Disciplined
    PROVE  Spec => FailuresCostOneFrame
<1> DEFINE cost ==
      \/ NoFrameIsLost
      \/ WriteFailure /\ Lost' = Lost /\ \E f \in Frames : Stranded' = Stranded \cup {f}
      \/ ReadFailure /\ Stranded' = Stranded /\ \E f \in Frames : Lost' = Lost \cup {f}
<1>1. PinInv /\ PinInv' /\ [Next]_vars => [cost]_vars
  BY NextLeaks, WriteFailureStrands, ReadFailureLoses DEF PinInv, Structure, IOFailure
<1>2. [][cost]_vars => FailuresCostOneFrame
  BY DEF FailuresCostOneFrame
<1> QED BY <1>1, <1>2, PinInvariant, PTL DEF Spec

=============================================================================
