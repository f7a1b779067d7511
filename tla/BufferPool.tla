----------------------------- MODULE BufferPool -----------------------------
(***************************************************************************)
(* The buffer pool of marksql over its disk manager: BufferPoolManager,    *)
(* Page and DiskManager, with the replacer as the order it keeps (module   *)
(* LRUReplacer shows the linked list keeps that order).                    *)
(*                                                                         *)
(* A client is a place in the program that holds a Page* from fetchPage or *)
(* newPage until it calls unpinPage.  The program has one thread, so a     *)
(* call is one step; clients interleave because a caller may fetch a page  *)
(* while it holds another one.  A client keeps the calling convention of   *)
(* TableHeap and main: it unpins once what it fetched, with is_dirty set   *)
(* when it wrote into the page.                                            *)
(***************************************************************************)
EXTENDS Integers, FiniteSets, RecencyList

CONSTANTS
    Capacity,   \* BUFFER_POOL_CAPACITY
    MaxPages,   \* bound: at most this many page identifiers are allocated
    Data, Zero, \* contents of a page, and the content of all zero bytes
    Absent,     \* in the properties: a page that does not exist
    Clients,
    Deletes,    \* clients call deletePage
    Probes,     \* clients fetch pages that nobody has created
    IOErrors    \* pwrite and pread may fail, the exception being survived

Frames == 0..(Capacity - 1)
PageIds == 0..(MaxPages - 1)
NoFrame == -1          \* frame_table_ has no entry
INVALID_PAGE_ID == -1

ASSUME PoolAssumption ==
    /\ Capacity \in Nat \ {0}
    /\ MaxPages \in Nat
    /\ Zero \in Data
    /\ Absent \notin Data
    /\ {Deletes, Probes, IOErrors} \subseteq BOOLEAN
    /\ IsFiniteSet(Clients)

VARIABLES
    frames,     \* frames_: the Page object of each frame
    frameTable, \* frame_table_: page id |-> frame, NoFrame when absent
    unused,     \* unused_frames_
    lru,        \* replacer_, least recently unpinned first
    file,       \* the pages of the database file; zeros past its end
    fileLen,    \* the length of the file, in pages
    nextPageId, \* DiskManager::next_page_id_
    held        \* what each client holds: its page, its Page* (a frame), and
                \* whether it wrote through it

poolVars == <<frames, frameTable, unused, lru>>
diskVars == <<file, fileLen>>
vars == <<frames, frameTable, unused, lru, file, fileLen, nextPageId, held>>

\* Page(): the state of a frame no page has been loaded into.
EmptyPage ==
    [page_id |-> INVALID_PAGE_ID, data |-> Zero, is_dirty |-> FALSE, pins |-> 0]

\* Mutant: an unpin without changes takes the dirty mark of earlier ones away.
MutantUnpinned(pg, dirty) == [pg EXCEPT !.pins = @ - 1, !.is_dirty = dirty]

\* The methods of Page the pool and its clients call on a Page they have.
Pinned(pg) == [pg EXCEPT !.pins = @ + 1]
Unpinned(pg, dirty) == [pg EXCEPT !.pins = @ - 1, !.is_dirty = @ \/ dirty]
Filled(pg, d) == [pg EXCEPT !.data = d]
Cleaned(pg) == [pg EXCEPT !.is_dirty = FALSE]

NoHold == [page |-> INVALID_PAGE_ID, frame |-> NoFrame, wrote |-> FALSE]
Hold(p, f) == [page |-> p, frame |-> f, wrote |-> FALSE]
Written(h) == [h EXCEPT !.wrote = TRUE]

\* unused_frames_ as the constructor fills it.
AllUnused == [i \in 1..Capacity |-> i - 1]

Init ==
    /\ frames = [f \in Frames |-> EmptyPage]
    /\ frameTable = [p \in PageIds |-> NoFrame]
    /\ unused = AllUnused
    /\ lru = <<>>
    /\ file = [p \in PageIds |-> Zero]
    /\ fileLen = 0
    /\ nextPageId = 0
    /\ held = [c \in Clients |-> NoHold]

Resident(p) == frameTable[p] # NoFrame
InUse == {c \in Clients : held[c] # NoHold}

-----------------------------------------------------------------------------
(***************************************************************************)
(* DiskManager.                                                            *)
(***************************************************************************)

\* writePage of frame f: pwrite past the end of the file extends it.
WriteBack(f) ==
    LET p == frames[f].page_id IN
      /\ file' = [file EXCEPT ![p] = frames[f].data]
      /\ fileLen' = IF p < fileLen THEN fileLen ELSE p + 1

\* What readPage leaves in a buffer that held old, with the file as fl and len
\* say: at or past the end pread returns 0, which is not an error, and stores
\* nothing.
ReadPage(fl, len, p, old) == IF p < len THEN fl[p] ELSE old

-----------------------------------------------------------------------------
(***************************************************************************)
(* fetchPage.  With every frame pinned it returns nullptr and changes      *)
(* nothing, which is no step here.                                         *)
(***************************************************************************)

\* A client asks for pages that exist.  (With Probes: for any page.)
MayFetch(c, p) ==
    /\ held[c] = NoHold
    /\ Probes \/ p < fileLen \/ Resident(p)

\* The Page object of a frame that p has been read into.
LoadedPage(p, data) ==
    [page_id |-> p, data |-> data, is_dirty |-> FALSE, pins |-> 1]

\* Mutant: fetchPage pins a resident page and forgets the replacer.
MutantFetchResident(c, p) ==
    /\ MayFetch(c, p)
    /\ Resident(p)
    /\ LET f == frameTable[p] IN
         /\ frames' = [frames EXCEPT ![f] = Pinned(@)]
         /\ held' = [held EXCEPT ![c] = Hold(p, f)]
    /\ UNCHANGED <<frameTable, unused, lru, diskVars, nextPageId>>

FetchResident(c, p) ==
    /\ MayFetch(c, p)
    /\ Resident(p)
    /\ LET f == frameTable[p] IN
         /\ frames' = [frames EXCEPT ![f] = Pinned(@)]
         /\ lru' = Without(lru, f)
         /\ held' = [held EXCEPT ![c] = Hold(p, f)]
    /\ UNCHANGED <<frameTable, unused, diskVars, nextPageId>>

FetchIntoUnused(c, p) ==
    /\ MayFetch(c, p)
    /\ ~Resident(p)
    /\ unused # <<>>
    /\ LET f == Head(unused)
           read == ReadPage(file, fileLen, p, frames[f].data) IN
         /\ frames' = [frames EXCEPT ![f] = LoadedPage(p, read)]
         /\ frameTable' = [frameTable EXCEPT ![p] = f]
         /\ lru' = Without(lru, f)
         /\ held' = [held EXCEPT ![c] = Hold(p, f)]
    /\ unused' = Tail(unused)
    /\ UNCHANGED <<diskVars, nextPageId>>

\* Mutant: a victim is dropped without a look at its dirty mark.
MutantSaveVictim(f) == UNCHANGED diskVars

\* A dirty victim is written to the file before its frame is reused.
SaveVictim(f) ==
    IF frames[f].is_dirty THEN WriteBack(f) ELSE UNCHANGED diskVars

\* Mutant: the victim keeps its entry in the table.
MutantWithoutVictim(f) == frameTable

\* The table without the page of the victim f.
WithoutVictim(f) == [frameTable EXCEPT ![frames[f].page_id] = NoFrame]

\* No frame is unused and the replacer has a victim.
MayEvict == unused = <<>> /\ lru # <<>>

\* The read comes after the write: it sees what the eviction put in the file.
FetchEvicting(c, p) ==
    /\ MayFetch(c, p)
    /\ ~Resident(p)
    /\ MayEvict
    /\ LET f == Head(lru)
           read == ReadPage(file', fileLen', p, frames[f].data) IN
         /\ SaveVictim(f)
         /\ frames' = [frames EXCEPT ![f] = LoadedPage(p, read)]
         /\ frameTable' = [WithoutVictim(f) EXCEPT ![p] = f]
         /\ held' = [held EXCEPT ![c] = Hold(p, f)]
    /\ lru' = Tail(lru)
    /\ UNCHANGED <<unused, nextPageId>>

-----------------------------------------------------------------------------
(***************************************************************************)
(* allocatePage and newPage, called one after the other by TableHeap.      *)
(***************************************************************************)

\* The bound: MaxPages identifiers, reused after a crash.
MayAllocate == nextPageId < MaxPages

\* allocatePage on its own: main reserves its metadata page this way, and the
\* identifier of a newPage that returns nullptr is spent.
AllocatePage ==
    /\ MayAllocate
    /\ nextPageId' = nextPageId + 1
    /\ UNCHANGED <<poolVars, diskVars, held>>

\* Mutant: newPage forgets to set the pin count of the Page it has reset.
MutantFreshPage(p) ==
    [page_id |-> p, data |-> Zero, is_dirty |-> TRUE, pins |-> 0]

FreshPage(p) ==
    [page_id |-> p, data |-> Zero, is_dirty |-> TRUE, pins |-> 1]

\* newPage leaves the replacer alone.
NewPageInUnused(c) ==
    /\ held[c] = NoHold
    /\ MayAllocate
    /\ unused # <<>>
    /\ LET f == Head(unused) IN
         /\ frames' = [frames EXCEPT ![f] = FreshPage(nextPageId)]
         /\ frameTable' = [frameTable EXCEPT ![nextPageId] = f]
         /\ held' = [held EXCEPT ![c] = Hold(nextPageId, f)]
    /\ unused' = Tail(unused)
    /\ nextPageId' = nextPageId + 1
    /\ UNCHANGED <<lru, diskVars>>

NewPageEvicting(c) ==
    /\ held[c] = NoHold
    /\ MayAllocate
    /\ MayEvict
    /\ LET f == Head(lru) IN
         /\ SaveVictim(f)
         /\ frames' = [frames EXCEPT ![f] = FreshPage(nextPageId)]
         /\ frameTable' = [WithoutVictim(f) EXCEPT ![nextPageId] = f]
         /\ held' = [held EXCEPT ![c] = Hold(nextPageId, f)]
    /\ lru' = Tail(lru)
    /\ nextPageId' = nextPageId + 1
    /\ UNCHANGED unused

-----------------------------------------------------------------------------
(***************************************************************************)
(* The other calls of the buffer pool, and the client's own writes.        *)
(***************************************************************************)

\* The client writes through the Page* it holds, whatever that frame holds now.
Write(c, d) ==
    /\ c \in InUse
    /\ frames' = [frames EXCEPT ![held[c].frame] = Filled(@, d)]
    /\ held' = [held EXCEPT ![c] = Written(@)]
    /\ UNCHANGED <<frameTable, unused, lru, diskVars, nextPageId>>

Unpinnable(p) == Resident(p) /\ frames[frameTable[p]].pins > 0

\* Mutant: unpinPage hands the frame to the replacer whatever the pin count.
MutantUnpinAlways(c, dirty) ==
    /\ c \in InUse
    /\ held[c].wrote => dirty
    /\ Unpinnable(held[c].page)
    /\ LET f == frameTable[held[c].page] IN
         /\ frames' = [frames EXCEPT ![f] = Unpinned(@, dirty)]
         /\ lru' = Touched(lru, f)
    /\ held' = [held EXCEPT ![c] = NoHold]
    /\ UNCHANGED <<frameTable, unused, diskVars, nextPageId>>

UnpinPage(c, dirty) ==
    /\ c \in InUse
    /\ held[c].wrote => dirty
    /\ Unpinnable(held[c].page)
    /\ LET f == frameTable[held[c].page] IN
         /\ frames' = [frames EXCEPT ![f] = Unpinned(@, dirty)]
         /\ lru' = IF frames[f].pins = 1 THEN Touched(lru, f) ELSE lru
    /\ held' = [held EXCEPT ![c] = NoHold]
    /\ UNCHANGED <<frameTable, unused, diskVars, nextPageId>>

\* unpinPage returns false; the callers of the repository ignore it.
UnpinRefused(c) ==
    /\ c \in InUse
    /\ ~Unpinnable(held[c].page)
    /\ held' = [held EXCEPT ![c] = NoHold]
    /\ UNCHANGED <<poolVars, diskVars, nextPageId>>

FlushPage(p) ==
    /\ Resident(p)
    /\ WriteBack(frameTable[p])
    /\ frames' = [frames EXCEPT ![frameTable[p]] = Cleaned(@)]
    /\ UNCHANGED <<frameTable, unused, lru, nextPageId, held>>

\* Mutant: deletePage leaves the entry in the table.
MutantDeletePage(p) ==
    /\ Deletes
    /\ Resident(p)
    /\ LET f == frameTable[p] IN
         /\ frames[f].pins = 0
         /\ frames' = [frames EXCEPT ![f] = EmptyPage]
         /\ unused' = <<f>> \o unused
    /\ UNCHANGED <<frameTable, lru, diskVars, nextPageId, held>>

\* The frame goes back to unused_frames_ and stays in the replacer.
DeletePage(p) ==
    /\ Deletes
    /\ Resident(p)
    /\ LET f == frameTable[p] IN
         /\ frames[f].pins = 0
         /\ frames' = [frames EXCEPT ![f] = EmptyPage]
         /\ unused' = <<f>> \o unused
    /\ frameTable' = [frameTable EXCEPT ![p] = NoFrame]
    /\ UNCHANGED <<lru, diskVars, nextPageId, held>>

-----------------------------------------------------------------------------
(***************************************************************************)
(* Failures.  writePage and readPage throw when the system call fails.     *)
(* What the call had done to the pool by then stays done.                  *)
(***************************************************************************)

\* The victim has left the replacer and is still in the table.
EvictionFails(c) ==
    /\ IOErrors
    /\ held[c] = NoHold
    /\ MayEvict
    /\ frames[Head(lru)].is_dirty
    /\ lru' = Tail(lru)

\* Mutant: the victim leaves the table before it is written.
MutantFetchWriteFails(c, p) ==
    /\ MayFetch(c, p)
    /\ ~Resident(p)
    /\ EvictionFails(c)
    /\ frameTable' = WithoutVictim(Head(lru))
    /\ UNCHANGED <<frames, unused, diskVars, nextPageId, held>>

FetchWriteFails(c, p) ==
    /\ MayFetch(c, p)
    /\ ~Resident(p)
    /\ EvictionFails(c)
    /\ UNCHANGED <<frames, frameTable, unused, diskVars, nextPageId, held>>

NewPageWriteFails(c) ==
    /\ MayAllocate
    /\ EvictionFails(c)
    /\ nextPageId' = nextPageId + 1
    /\ UNCHANGED <<frames, frameTable, unused, diskVars, held>>

\* The frame has been taken and labelled p; the table never learns of it.
UnusedReadFails(c, p) ==
    /\ IOErrors
    /\ MayFetch(c, p)
    /\ ~Resident(p)
    /\ unused # <<>>
    /\ LET f == Head(unused) IN
         frames' = [frames EXCEPT ![f] = LoadedPage(p, frames[f].data)]
    /\ unused' = Tail(unused)
    /\ UNCHANGED <<frameTable, lru, diskVars, nextPageId, held>>

EvictingReadFails(c, p) ==
    /\ IOErrors
    /\ MayFetch(c, p)
    /\ ~Resident(p)
    /\ MayEvict
    /\ LET f == Head(lru) IN
         /\ SaveVictim(f)
         /\ frames' = [frames EXCEPT ![f] = LoadedPage(p, frames[f].data)]
         /\ frameTable' = WithoutVictim(f)
    /\ lru' = Tail(lru)
    /\ UNCHANGED <<unused, nextPageId, held>>

\* Mutant: the next identifier is one more than the pages of the file.
MutantCrash ==
    /\ frames' = [f \in Frames |-> EmptyPage]
    /\ frameTable' = [p \in PageIds |-> NoFrame]
    /\ unused' = AllUnused
    /\ lru' = <<>>
    /\ nextPageId' = fileLen + 1
    /\ held' = [c \in Clients |-> NoHold]
    /\ UNCHANGED diskVars

\* The process ends at any point and starts again on the same file.
Crash ==
    /\ frames' = [f \in Frames |-> EmptyPage]
    /\ frameTable' = [p \in PageIds |-> NoFrame]
    /\ unused' = AllUnused
    /\ lru' = <<>>
    /\ nextPageId' = fileLen
    /\ held' = [c \in Clients |-> NoHold]
    /\ UNCHANGED diskVars

WriteFailure ==
    \E c \in Clients : NewPageWriteFails(c) \/ \E p \in PageIds : FetchWriteFails(c, p)

ReadFailure ==
    \E c \in Clients, p \in PageIds : UnusedReadFails(c, p) \/ EvictingReadFails(c, p)

IOFailure == WriteFailure \/ ReadFailure

ClientStep(c) ==
    \/ \E p \in PageIds : \/ FetchResident(c, p)
                          \/ FetchIntoUnused(c, p)
                          \/ FetchEvicting(c, p)
    \/ NewPageInUnused(c)
    \/ NewPageEvicting(c)
    \/ \E d \in Data : Write(c, d)
    \/ \E dirty \in BOOLEAN : UnpinPage(c, dirty)
    \/ UnpinRefused(c)

Next ==
    \/ \E c \in Clients : ClientStep(c)
    \/ AllocatePage
    \/ \E p \in PageIds : FlushPage(p) \/ DeletePage(p)
    \/ IOFailure
    \/ Crash

Spec == Init /\ [][Next]_vars

-----------------------------------------------------------------------------
(***************************************************************************)
(* Properties.                                                             *)
(***************************************************************************)

PageObject ==
    [page_id : PageIds \cup {INVALID_PAGE_ID}, data : Data,
     is_dirty : BOOLEAN, pins : Nat]

HoldRecord == [page : PageIds, frame : Frames, wrote : BOOLEAN]

TypeOK ==
    /\ frames \in [Frames -> PageObject]
    /\ frameTable \in [PageIds -> Frames \cup {NoFrame}]
    /\ unused \in Seq(Frames)
    /\ lru \in Seq(Frames)
    /\ file \in [PageIds -> Data]
    /\ fileLen \in 0..MaxPages
    /\ nextPageId \in 0..MaxPages
    /\ held \in [Clients -> HoldRecord \cup {NoHold}]

Mapped == {f \in Frames : \E p \in PageIds : frameTable[p] = f}

\* Every entry of frame_table_ leads to a frame that holds that page, so no
\* frame serves two pages.  Holds with every kind of call and failure.
TableMatchesFrames ==
    \A p \in PageIds : Resident(p) => frames[frameTable[p]].page_id = p

\* A frame of unused_frames_ is listed once and serves no page: what fetchPage
\* and newPage take from the front is never in use.  Also with deletePage.
UnusedFramesAreFree ==
    /\ NoRepetition(unused)
    /\ \A f \in ToSet(unused) : f \notin Mapped /\ frames[f].pins = 0

\* The replacer has only frames that serve a page nobody has pinned (README:
\* "unpinned frames"), each once: a pinned frame cannot be chosen as a victim.
OnlyUnpinnedAreEvictable ==
    /\ NoRepetition(lru)
    /\ \A f \in ToSet(lru) : f \in Mapped /\ frames[f].pins = 0

\* pins_ counts the clients that hold the frame of a page: an unpin is neither
\* lost nor counted twice, whatever the order of fetches, evictions and crashes.
PinsCountHolders ==
    \A f \in Mapped :
        frames[f].pins = Cardinality({c \in InUse : held[c].frame = f})

\* Frames that are not free and serve no page: no call finds them again.
Lost == Frames \ (ToSet(unused) \cup ToSet(lru) \cup Mapped)

\* Frames of a page nobody has pinned that the replacer does not know: they cannot
\* be reused before their page is fetched and unpinned once more.
Stranded == {f \in Mapped \ (ToSet(unused) \cup ToSet(lru)) : frames[f].pins = 0}

NoFrameIsLost == Lost' \subseteq Lost /\ Stranded' \subseteq Stranded

\* A call that does not fail leaves each frame free, evictable or pinned in the name
\* of a page.  A failed write strands one frame, whose page stays in the table; a
\* failed read loses one.  A stranded frame is not lost later.
FailuresCostOneFrame ==
    [][\/ NoFrameIsLost
       \/ WriteFailure /\ Lost' = Lost /\ \E f \in Frames : Stranded' = Stranded \cup {f}
       \/ ReadFailure /\ Stranded' = Stranded /\ \E f \in Frames : Lost' = Lost \cup {f}]_vars

\* A Page* stays valid until it is unpinned: the frame a client holds goes on
\* holding the page that client asked for (test: CannotEvictPinned).
HeldPagesStay ==
    \A c \in InUse : frameTable[held[c].page] = held[c].frame

\* A page that no client has open and that is not marked dirty equals its copy
\* in the file, so dropping it from the pool loses nothing.
CleanPagesAreInFile ==
    \A p \in PageIds :
        LET f == frameTable[p] IN
          /\ Resident(p)
          /\ ~frames[f].is_dirty
          /\ \A c \in InUse : held[c].frame = f => ~held[c].wrote
          => p < fileLen /\ frames[f].data = file[p]

\* The pages as PageStore describes them.
durable == [p \in PageIds |-> IF p < fileLen THEN file[p] ELSE Absent]
content ==
    [p \in PageIds |-> IF Resident(p) THEN frames[frameTable[p]].data
                                      ELSE durable[p]]

Store == INSTANCE PageStore

\* The pool and the file implement one store of pages: eviction, write-back and
\* reloading never change what a page contains, only a client that holds the
\* page does, and a crash goes back to what was written.
ImplementsPageStore == Store!Spec

\* A page that enters the pool shows what the file has at its place, and zeros
\* past the end of the file (README: "loads it from disk into a free frame or an
\* evicted frame").
LoadedFromDisk ==
    [][\A p \in PageIds :
         ~Resident(p) /\ Resident(p)' /\ nextPageId' = nextPageId
         => content'[p] = IF p < fileLen' THEN file'[p] ELSE Zero]_vars

=============================================================================
