----------------------------- MODULE TableHeap -----------------------------
(***************************************************************************)
(* Tables over the buffer pool: each call of TableHeap is the sequence of  *)
(* steps it makes on the pool (module BufferPool, which this one           *)
(* instantiates with a single client, the program) and on the words of the *)
(* page it has fetched (module HeapPageOps).  The process may end between  *)
(* any two of them.                                                        *)
(*                                                                         *)
(* HeapPage keeps the number of the next page in the C++ object, not in    *)
(* the page, and sets it to -1 there; read as a uint16_t it is 65535.  So  *)
(* after the first page of a table every walk goes to page 65535, here     *)
(* Overflow, and then to itself.                                           *)
(***************************************************************************)
EXTENDS HeapPageOps, FiniteSets, Functions

CONSTANTS
    Capacity,  \* BUFFER_POOL_CAPACITY
    MaxPages,  \* bound on the page identifiers
    Overflow,  \* page 65535
    MaxTables, \* bound on the tables that are created
    MaxRows,   \* bound on the RIDs that are returned
    Tuples,    \* the tuples that are stored: sequences of words
    Grows      \* callers edit a tuple into a larger one that fits in the page

ASSUME TableAssumption ==
    /\ Capacity \in Nat \ {0}
    /\ MaxPages \in Nat
    /\ Overflow \in 0..(MaxPages - 1)
    /\ MaxTables \in 0..Overflow /\ MaxRows \in Nat
    /\ Tuples \subseteq Seq(Nat) /\ <<>> \notin Tuples
    /\ Grows \in BOOLEAN

VARIABLES
    frames, frameTable, unused, lru, file, fileLen, nextPageId, held,
    tables, \* first_page_id_ of the tables, which their owners remember
    call,   \* the call of TableHeap that is running
    stored  \* history: what the file has been made to hold at each RID, <<>>
            \* when deleted; no action reads it but to choose an RID to ask for

poolVars == <<frames, frameTable, unused, lru, file, fileLen, nextPageId, held>>
vars == <<poolVars, tables, call, stored>>

Main == "main"

Pool == INSTANCE BufferPool
          WITH Data <- [Words -> Nat], Zero <- ZeroPage, Absent <- <<>>,
               Clients <- {Main}, Deletes <- FALSE, Probes <- TRUE,
               IOErrors <- FALSE

RID(p, i) == [page_id |-> p, slot_id |-> i]
NoRid == RID(-1, -1)

\* A call: its name, the step it is at, the page it is at (curr_page_id), the
\* table, the RID and the tuple it is about (for a scan the tuples), whether it
\* changed the page, and what it does after it has left the page.
Call(op, table, rid, t) ==
    [op |-> op, at |-> "fetch", page |-> table, table |-> table, rid |-> rid,
     tuple |-> t, dirty |-> FALSE, then |-> "return"]
Idle ==
    [op |-> "none", at |-> "none", page |-> -1, table |-> -1, rid |-> NoRid,
     tuple |-> <<>>, dirty |-> FALSE, then |-> "return"]

Init ==
    /\ Pool!Init
    /\ tables = {}
    /\ call = Idle
    /\ stored = <<>>

-----------------------------------------------------------------------------
(***************************************************************************)
(* The calls.                                                              *)
(***************************************************************************)

\* The RIDs that were handed out for a table: in its first page or after it.
RidsOf(table) == {rid \in DOMAIN stored : rid.page_id \in {table, Overflow}}

\* What changeTuple would do to the tuple of rid is to make it larger in place.
GrowsInPlace(rid, t) ==
    LET pg == file[rid.page_id] IN
      Changeable(pg, rid.slot_id, t) /\ SizeDiff(pg, rid.slot_id, t) > 0

\* A call that is given a tuple: it may take one more row.
BeginTuple(table, t) ==
    /\ Cardinality(DOMAIN stored) < MaxRows
    /\ \/ call' = Call("insert", table, NoRid, t)
       \/ \E rid \in RidsOf(table) :
            /\ Grows \/ ~GrowsInPlace(rid, t)
            /\ call' = Call("edit", table, rid, t)

Begin ==
    /\ call = Idle
    /\ \E table \in tables :
         \/ \E t \in Tuples : BeginTuple(table, t)
         \/ \E rid \in RidsOf(table), op \in {"get", "delete"} :
              call' = Call(op, table, rid, <<>>)
         \/ call' = Call("scan", table, NoRid, <<>>)
    /\ UNCHANGED <<poolVars, tables, stored>>

\* The constructor of a new table: allocatePage and newPage, then as any call
\* that has changed a page.  The bound keeps clear of page 65535.
CreateTable ==
    /\ call = Idle
    /\ Cardinality(tables) < MaxTables
    /\ nextPageId # Overflow
    /\ Pool!NewPageInUnused(Main) \/ Pool!NewPageEvicting(Main)
    /\ call' = [Call("create", nextPageId, NoRid, <<>>)
                  EXCEPT !.at = "unpin", !.dirty = TRUE]
    /\ UNCHANGED <<tables, stored>>

-----------------------------------------------------------------------------
(***************************************************************************)
(* The steps of a call.                                                    *)
(***************************************************************************)

Fetch ==
    /\ call.at = "fetch"
    /\ \/ Pool!FetchResident(Main, call.page)
       \/ Pool!FetchIntoUnused(Main, call.page)
       \/ Pool!FetchEvicting(Main, call.page)
    /\ call' = [call EXCEPT !.at = "use"]
    /\ UNCHANGED <<tables, stored>>

\* HeapPage hp(page->get_data()): the words of the page, opened.
hp == Opened(frames[held[Main].frame].data)

\* The call op has fetched a page; it has found the page of its RID.
Using(op) == call.at = "use" /\ call.op = op
Found(op) == Using(op) /\ call.rid.page_id = call.page

\* The call leaves the words pg in the page and goes on as c.
Leaving(pg, c) ==
    /\ frames' = [frames EXCEPT ![held[Main].frame] = Pool!Filled(@, pg)]
    /\ call' = [c EXCEPT !.at = "unpin"]
    /\ UNCHANGED <<frameTable, unused, lru, file, fileLen, nextPageId, held,
                   tables, stored>>

Changed(c) == [c EXCEPT !.dirty = TRUE]

\* Mutant: the slot of the RID is counted after the insertion.
MutantInsertHere ==
    /\ Using("insert")
    /\ Fits(hp, call.tuple)
    /\ Leaving(Inserted(hp, call.tuple),
               [Changed(call) EXCEPT !.rid = RID(call.page, num_slots(hp) + 1)])

InsertHere ==
    /\ Using("insert")
    /\ Fits(hp, call.tuple)
    /\ Leaving(Inserted(hp, call.tuple),
               [Changed(call) EXCEPT !.rid = RID(call.page, num_slots(hp))])

\* The page is full, or it is not the page of the RID: on to the next one.
PassOn ==
    /\ \/ Using("insert") /\ ~Fits(hp, call.tuple)
       \/ \E op \in {"get", "delete", "edit"} : Using(op) /\ ~Found(op)
    /\ Leaving(hp, [call EXCEPT !.then = "next"])

\* Mutant: the slot is read in the page at hand, whichever it is.
MutantGetHere ==
    /\ Using("get")
    /\ Leaving(hp, [call EXCEPT !.tuple = getTuple(hp, call.rid.slot_id)])

GetHere ==
    /\ Found("get")
    /\ Leaving(hp, [call EXCEPT !.tuple = getTuple(hp, call.rid.slot_id)])

\* The rows of a page, slot by slot.
RowsOn(pg) == [i \in 1..num_slots(pg) |-> getTuple(pg, i - 1)]

\* scanTuples reads the first page only, and leaves out empty tuples.
NotEmpty(rows) == SelectSeq(rows, LAMBDA t : t # <<>>)
Scanned(pg) == NotEmpty(RowsOn(pg))

ScanHere ==
    /\ Using("scan")
    /\ Leaving(hp, [call EXCEPT !.tuple = Scanned(hp)])

DeleteHere ==
    /\ Found("delete")
    /\ Leaving(applyDelete(hp, call.rid.slot_id), Changed(call))

EditHere ==
    /\ Found("edit")
    /\ Changeable(hp, call.rid.slot_id, call.tuple)
    /\ Leaving(changeTuple(hp, call.rid.slot_id, call.tuple), Changed(call))

\* There is no room: the tuple is deleted and inserted again somewhere.
EditMoves ==
    /\ Found("edit")
    /\ ~Changeable(hp, call.rid.slot_id, call.tuple)
    /\ Leaving(applyDelete(hp, call.rid.slot_id),
               [Changed(call) EXCEPT !.then = "reinsert"])

\* Mutant: the next page is the -1 of HeapPage.
MutantNextPage(c) == [c EXCEPT !.at = "fetch", !.page = -1, !.then = "return"]

\* The page the walk is at after the one it leaves: getNextPage().
NextPage(c) ==
    [c EXCEPT !.at = "fetch", !.page = Overflow, !.then = "return"]

\* Mutant: a page that has been changed is not flushed.
MutantUnflushed ==
    /\ call.at = "unpin"
    /\ Pool!UnpinPage(Main, call.dirty)
    /\ call' = IF call.then = "next" THEN NextPage(call) ELSE Idle
    /\ UNCHANGED <<tables, stored>>

\* Mutant: a call that only reads returns without unpinPage.
MutantUnpin ==
    /\ call.at = "unpin"
    /\ IF call.dirty \/ call.then = "next"
       THEN Pool!UnpinPage(Main, call.dirty)
       ELSE /\ held' = [held EXCEPT ![Main] = Pool!NoHold]
            /\ UNCHANGED <<frames, frameTable, unused, lru, file, fileLen,
                           nextPageId>>
    /\ call' = IF call.dirty THEN [call EXCEPT !.at = "flush"]
               ELSE IF call.then = "next" THEN NextPage(call)
               ELSE Idle
    /\ UNCHANGED <<tables, stored>>

\* Mutant: a walk that is not an insert's stays at its page.
MutantUnpinStays ==
    /\ call.at = "unpin"
    /\ Pool!UnpinPage(Main, call.dirty)
    /\ call' = IF call.dirty THEN [call EXCEPT !.at = "flush"]
               ELSE IF call.then = "next" /\ call.op = "insert" THEN NextPage(call)
               ELSE IF call.then = "next"
               THEN [call EXCEPT !.at = "fetch", !.then = "return"]
               ELSE Idle
    /\ UNCHANGED <<tables, stored>>

Unpin ==
    /\ call.at = "unpin"
    /\ Pool!UnpinPage(Main, call.dirty)
    /\ call' = IF call.dirty THEN [call EXCEPT !.at = "flush"]
               ELSE IF call.then = "next" THEN NextPage(call)
               ELSE Idle
    /\ UNCHANGED <<tables, stored>>

\* What the call stores at its RID.
StoredBy(c) == IF c.op = "delete" \/ c.then = "reinsert" THEN <<>> ELSE c.tuple

\* Mutant: flushPage is not called.
MutantFlush ==
    /\ call.at = "flush"
    /\ IF call.op = "create"
       THEN tables' = tables \cup {call.page} /\ UNCHANGED stored
       ELSE /\ stored' = [rid \in DOMAIN stored \cup {call.rid} |->
                           IF rid = call.rid THEN StoredBy(call) ELSE stored[rid]]
            /\ UNCHANGED tables
    /\ call' = IF call.then = "reinsert"
               THEN Call("insert", call.table, NoRid, call.tuple)
               ELSE Idle
    /\ UNCHANGED poolVars

Flush ==
    /\ call.at = "flush"
    /\ Pool!FlushPage(call.page)
    /\ IF call.op = "create"
       THEN tables' = tables \cup {call.page} /\ UNCHANGED stored
       ELSE /\ stored' = [rid \in DOMAIN stored \cup {call.rid} |->
                           IF rid = call.rid THEN StoredBy(call) ELSE stored[rid]]
            /\ UNCHANGED tables
    /\ call' = IF call.then = "reinsert"
               THEN Call("insert", call.table, NoRid, call.tuple)
               ELSE Idle

Crash ==
    /\ Pool!Crash
    /\ call' = Idle
    /\ UNCHANGED <<tables, stored>>

\* The thread that runs the call goes on with it.
Continue ==
    \/ Fetch
    \/ InsertHere
    \/ PassOn
    \/ GetHere
    \/ ScanHere
    \/ DeleteHere
    \/ EditHere
    \/ EditMoves
    \/ Unpin
    \/ Flush

Next == CreateTable \/ Begin \/ Continue \/ Crash

Spec == Init /\ [][Next]_vars

\* Nothing keeps the thread from taking the next step of the call it runs.
FairSpec == Spec /\ WF_vars(Continue)

-----------------------------------------------------------------------------
(***************************************************************************)
(* Properties.                                                             *)
(***************************************************************************)

Operations == {"none", "create", "insert", "get", "scan", "delete", "edit"}

TypeOK ==
    /\ tables \subseteq 0..(MaxPages - 1)
    /\ call.op \in Operations
    /\ call.at \in {"none", "fetch", "use", "unpin", "flush"}
    /\ call.op # "none" => call.page \in 0..(MaxPages - 1)
    /\ \A rid \in DOMAIN stored : stored[rid] \in Tuples \cup {<<>>}

\* Every row that a call has stored is in the file, at the RID the call
\* returned, whatever was evicted, reloaded or lost in a crash since.
StoredRowsAreOnDisk ==
    \A rid \in DOMAIN stored :
        /\ rid.page_id < fileLen
        /\ getTuple(file[rid.page_id], rid.slot_id) = stored[rid]

\* The first page of a table has no rows but its own: every slot of it was
\* returned to a caller, so a restart brings back no row nobody inserted.
FirstPagesHaveNoOtherRows ==
    \A p \in tables :
        p < fileLen => \A i \in 0..(num_slots(file[p]) - 1) : RID(p, i) \in DOMAIN stored

\* What reads return is what was last stored: getTuple at its RID, scanTuples in
\* the first page of the table, slot by slot and without the deleted rows.
ReadsReturnStored ==
    LET first == {rid \in DOMAIN stored : rid.page_id = call.table}
        rows  == [i \in 1..Cardinality(first) |-> stored[RID(call.table, i - 1)]]
    IN  call.at = "unpin" /\ call.then = "return" =>
          /\ call.op = "get" => call.tuple = stored[call.rid]
          /\ call.op = "scan" => call.tuple = NotEmpty(rows)

\* Between two calls no frame is pinned and none is dirty: every call has
\* unpinned what it fetched and flushed what it changed.
IdlePoolIsClean ==
    call = Idle =>
      \A p \in DOMAIN frameTable :
          Pool!Resident(p) => /\ frames[frameTable[p]].pins = 0
                              /\ ~frames[frameTable[p]].is_dirty

\* fetchPage never returns nullptr to TableHeap, which insertTuple would follow.
FetchFindsAFrame ==
    call.at = "fetch" =>
      \/ Pool!Resident(call.page)
      \/ unused # <<>>
      \/ lru # <<>>

\* The slots of page p, which has n, whose RIDs are known.
KnownSlots(p, n, known) == {i \in 0..(n - 1) : RID(p, i) \in known}

\* The first slot of page p that an insert has put in the file.  Page 65535 may
\* come into being with slots nobody inserted, as its frame shows what it held
\* before.  They come first, have no RID, and no scan reads them.
FirstPut(p, n, known) ==
    IF p # Overflow THEN 0
    ELSE IF KnownSlots(p, n, known) = {} THEN n
    ELSE CHOOSE i \in KnownSlots(p, n, known) :
           \A j \in KnownSlots(p, n, known) : i <= j

\* Of the rows rs of page p, those that inserts have put there: on a first page all.
RowsPut(p, rs, known) == SubSeq(rs, FirstPut(p, Len(rs), known) + 1, Len(rs))

Rows == INSTANCE HeapTable
          WITH PageIds <- 0..(MaxPages - 1),
               pages <- [p \in 0..(fileLen - 1) |->
                           RowsPut(p, RowsOn(file[p]), DOMAIN stored)]

\* TableHeap implements HeapTable: whatever is evicted, flushed or lost, the rows
\* that inserts have put in the file change by whole rows and one at a time.  An
\* edit that moves its row is two such changes, and a crash may come between them.
ImplementsHeapTable == Rows!Spec

\* Reading or deleting a row that exists ends.
RowCallsReturn == call.op \in {"get", "delete", "scan"} ~> call = Idle

\* README: insertTuple "Returns an RID with (page_id, slot_id)".
InsertReturns == call.op = "insert" ~> call = Idle

=============================================================================
