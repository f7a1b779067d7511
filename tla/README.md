# marksql in TLA+

Specifications of marksql (a small single-threaded DBMS in C++20: page file,
buffer pool, slotted pages, table heap, SQL front end, and a B+ tree that is not
yet connected to the rest), model-checked with TLC and proved about with TLAPS, for
every size of the pool, the pages, the tables, the lines and the tree.
Paths are relative to the repository root.

## The system

| Component | State | Operations | Talks to |
|---|---|---|---|
| Disk manager (`DiskLayer/`) | the file, `next_page_id_` | `writePage`, `readPage`, `allocatePage`, constructor | the operating system |
| LRU replacer (`MemoryManagementLayer/Replacer/`) | linked list with two sentinels, map from frame to node | `victim`, `pin`, `unpin` | called by the pool |
| Buffer pool (`MemoryManagementLayer/`) | `frames_`, `frame_table_`, `unused_frames_` | `fetchPage`, `newPage`, `unpinPage`, `flushPage`, `deletePage` | replacer, disk manager |
| Heap page (`RecordLayer/`) | none: a view of the bytes of a frame | `insertTuple`, `getTuple`, `changeTuple`, `applyDelete` | the frame of a pinned page |
| Table heap (`TableLayer/`) | `first_page_id_` | `insertTuple`, `getTuple`, `scanTuples`, `applyDelete`, `editTuple`, two constructors | pool, disk manager (`allocatePage`), heap page |
| B+ tree (`BPlusTree/`) | tree of owned nodes, leaf chain of raw pointers | `add`, `remove`, `contains`, `getRange` | nobody yet |
| Catalog (`CatalogLayer/`) | map from names to tables | `createTable`, `loadTable`, `getTable` | table heap |
| Tokenizer, parser, binder (`SyntaxLayer/`, `BinderLayer/`) | none | text to statement, statement to bound statement | catalog |
| Executors, row codec (`ExecutionLayer/`) | none | `INSERT`, `SELECT` | table heap |
| REPL (`main.cpp`) | metadata page 0 | bootstrap or reopen, then one statement per line | all of them |

There is one thread and no log. What makes the code hard:

- *Sequences of calls.* A page is pinned by one holder while another fetches,
  evicts or deletes; the state that says "may be evicted" is spread over the pin
  count, the replacer, the table and the free list.
- *Crashes.* Nothing but `flushPage` and evictions reaches the file, and the next
  process has only the file, its length, and (in the REPL) page 0.
- *Failures in the middle.* `readPage` and `writePage` throw after the pool has
  changed part of its state.
- *Words in a page.* Header, slots and tuples share one array.
- *Loops.* A walk over the pages of a table ends only if it finds what it wants.
- *Lines.* Whatever is typed is split, parsed, bound and stored; a row that does
  not decode would make every later `SELECT` fail, in this process and the next.
- *Repair of a tree.* Splits, borrowing, merges and rebuilds must keep the
  separators, the leaf chain and every key.

What makes each component correct is stated with its module below; the hazards
are listed, each at its line, in `PROJECT.json`.

## Modules

    RecencyList <- Replacer <- LRUReplacer            PageStore
         ^                                               ^ refinement
         +---------------- BufferPool -------------------+
                              ^
       HeapPageOps <- HeapPage|
            ^                 | INSTANCE
            +------------ TableHeap                   BPlusTree
                              | refinement
                           HeapTable
                              | INSTANCE
    Tokenizer, Parser, Catalog -> Binder, RowCodec -> Repl <- MCRepl

The proofs are in modules of their own; `<-` is EXTENDS:

    RecencyListProofs <- LRUReplacerProofs, BufferPoolProofs, TableHeapProofs
    HeapPageOpsProofs <- HeapPageProofs, TableHeapProofs
    BPlusTreeProofs, ReplProofs

**RecencyList**: the order of the replacer as a sequence, `Without` and `Touched`.

**Replacer** and **LRUReplacer**: the abstract replacer (an order, a victim) and
the code's linked list. A node is named by its `key_`: the map is consulted
before a node is allocated, so a frame has one live node. `order` is a history of
what the calls ask for. `LinksMatchOrder` says that both link directions and the
map agree with it, `ImplementsReplacer` that the list is a `Replacer`.

**BufferPool**: pool, pages and disk manager. One action per call and per outcome
(`FetchResident`, `FetchIntoUnused`, `FetchEvicting`, ...); a call is one step as
there is one thread. `Clients` are places in the program that hold a `Page*`:
`held[c]` is the page asked for, the frame behind the pointer, and whether the
client wrote. `Write` goes to that *frame*, whatever it now holds, as a pointer
does. A client obeys the convention of `TableHeap` and `main.cpp`: it unpins once,
and passes `is_dirty` when it wrote. `file` and `fileLen` are the file; reading
past its end leaves the buffer as it was, as `pread` returning 0 does. Two
constants let callers break the convention of the rest: `Deletes` (calls of
`deletePage`, which only tests make) and `Probes` (fetches of a page nobody
created, which `TableHeap` makes of page 65535). `IOErrors` adds the exceptions:
the state changed so far stays, and the caller holds nothing. `main.cpp` does not
catch them; a caller that does is what the tests of the pool and any embedding
would be. `Crash` is the end of the process and a start on the same file.

**PageStore**: what pool and file promise together: one current content and one
durable content per page; only a writer of a page changes it; a crash goes back
to the durable ones. `BufferPool` refines it with `content` read through the
table and `durable` read from the file.

**HeapPageOps** and **HeapPage**: a page as an array of words of four bytes
(header 3 words, slot 2), with the loads and stores in the order of the code, so
that a copy that reaches too far destroys what is there. Field widths are kept
(`Unsigned32`, `Unsigned16`). `HeapPage` applies the operations in any order and
compares with `rows`, what was promised. Once `changeTuple` has replaced a tuple
by a larger one the layout is broken (see findings), so the layout properties are
stated up to that point, and for that step `GrowthDamagesTailsOnly`: a growth by `d`
words costs at most the last `d` words of each tuple behind the grown one, and
nothing else. `InsidePage` stops where the code would leave the page.

**TableHeap**: instantiates `BufferPool` with one client and splits every call
into its steps: fetch, use the page, unpin, flush. `call` is the program counter.
`tables` are the first pages, remembered by the owner as `main.cpp` does in its
metadata, so that a table is reopened after a `Crash` by using it again. Opening a
page writes its header into the frame without marking it dirty; that is harmless
because opening is repeated, and it is modelled. `HeapPage::getNextPage` is
always 65535 (`next_page_id_` is set to -1 by every constructor and read as a
`uint16_t`), here `Overflow`. `stored` is a history of what calls made durable at
each RID. `Grows` lets edits grow a tuple in place.

**HeapTable**: what table heap, pool and file promise together to the statements
above them: a file of pages, each with a sequence of rows that inserts put there; a
step appends a row, replaces one or empties its slot. `TableHeap` implements it
(`ImplementsHeapTable`), with `pages` read from the words of the file: no eviction,
flush or crash changes a row, leaves half a change in the file, or makes two at once.
Two things it does not say. `RowsPut` leaves out the slots page 65535 may begin with
when it was first fetched, before it existed, into a frame that held another page:
nobody inserted those copies, no RID names them and no scan reads them, but they are in
the file (`pool_probe` is about them). And an edit that moves its row is two changes,
the deletion and the insertion; a crash between them leaves the first.

**Tokenizer**, **Parser**, **Catalog**, **Binder**, **RowCodec**: the functions of
the front end, as operators and recursive functions. A line is a sequence of
characters whose classes are constants, so key words can be one letter in a run.
`Tokenizer` and `Parser` also state what the functions have to return without
following a loop: a character is inside a literal when an odd number of quotes
comes before it, a token starts where the class changes, a list has commas at its
even places. The messages of parse errors are left out. `Optional` is
`std::optional`.

**Repl**: `main.cpp` on a `HeapTable`, of which it uses `AddPage` and `AddRow`. `pc`
is where `main` is: `started` (page 0 read), `created` (the table's page is in the
file, the metadata is not), `prompt`, `insert` (the tuple is about to be stored),
`reply` (about to be printed), `failed` (returned 1), `down`. Bootstrap is two
steps because it writes the file twice; the write of a page is one step. `Crash`
is the end of the process anywhere, an exception included; the start after it has
the file only. `acked` is a history of the rows that were printed as inserted,
with the values of their lines; `unanswered` counts rows whose process ended
before it could say so. `HasRoom` decides whether a row goes to the first page or
to page 65535; when both are full, `insertTuple` does not return (finding
`table_insert`) and only a crash goes on from `insert`. The pool has room for both
pages, so page 65535 is never read into a used frame here.

**BPlusTree**: a node owns its children, so the tree is a value; the leaf chain is
kept as two sequences of positions, and splitting, merging and freeing a leaf
renames them, with `Dangling` for a pointer to a freed leaf. `addHelper` and
`splitNode` become one function that returns what takes the place of a node in its
parent (`PlaceWith`), the way of `removeHelper` down to a leaf and the repair of its
parent another (`Removal`); `removeHelper`, `rebalanceLeaf`, `rebuildTreeFromLeaves`,
`collapseRootIfNeeded` and `refreshSeparators` keep their names. The functions recurse
over `Nodes`, the nodes with up to `MaxKeys + 1` levels: a finite number of levels is
what makes a recursive function well-defined, and no tree of `MaxKeys` keys has as
many. A failed `assert` sets `aborted`.

## Runs

| Run | Shows | Bounds |
|---|---|---|
| `lru_list` | links in both directions and map keep one order; the list is a `Replacer` | 5 frames: every node has every kind of neighbour |
| `pool` | pins count holders, held pages stay, victims are unpinned, clean pages are in the file, a failed call costs one frame and no other call any, pool and file are a `PageStore` | 2 frames, 3 pages, 2 clients, 2 contents; failures and crashes |
| `pool_all_calls` | table and free list stay consistent with `deletePage` and probes too | same, 1 content |
| `heap_page` | layout, disjointness and read-back up to a growing change; that change costs later tuples their last words and no other tuple anything | 16 words, 4 slots, tuples of three sizes |
| `table_heap` | rows returned are on disk, reads return them, no foreign rows in first pages, calls leave no pin and no dirty page, a frame is always found, reads and deletes end; implements `HeapTable` | 9 words, 2 frames, 3 pages (two tables and page 65535), 3 rows |
| `bplustree` | balance, occupancy, separators, leaf chain, lookups, ranges, one key per call, no assertion fails | orders 3, 4, 5; 7 keys of 4 values |
| `repl` | lines are split and answered as the grammar says; a `SELECT` shows what was inserted; answered rows are durable; one row per `INSERT`; a failed start loses nothing | some 1100 lines, 2 columns, 2 rows, 2 pages of room for one to three rows |
| `pool_delete`, `pool_probe`, `heap_page_growth`, `table_insert`, `bplustree_order_2` | findings, below | smallest that show them |

Why the bounds are enough. In the pool, two frames with three pages force
evictions while another page is held, and two clients are enough for every
relation between two holders of one page; the proofs remove the bounds for the
safety properties. In the table heap a page of 9 words takes two small rows, so
first pages fill, rows overflow, and both tables meet in page 65535 while only
two of the three pages fit in the pool. Seven keys in a tree of order 3 make three
levels, so an internal node can fall below its minimum and the tree be rebuilt;
with four values, a key can fill several leaves. The lines of `repl` are all lines
of up to three characters over seven (space, quote, digit, letter, underscore,
comma, and a sign that belongs to nothing), every line that is one word dropped,
added or replaced away from a `SELECT *`, a `SELECT` of two columns in the other
order and an `INSERT`, and some that need more: empty literals, literals with the
separator, spaces and signs, a row too long for a page, a lower-case key word.
Every line is answered in every state of the file. Page identifiers are bounded by
`MaxPages`, rows by `MaxRows`, tables by `MaxTables`, slots by `MaxSlots`, growing
changes by `MaxGrows`, keys by `MaxKeys`; each is a guard of the action that would
pass it.

Symmetry is not used: the runs are small, and the liveness run may not use it.

Deadlock is checked except in `heap_page` and `heap_page_growth`, where a page
that has its four slots and no other change allowed really has nothing left to do.

*Fairness.* Only `TableHeap` has any: `WF_vars(Continue)`, the thread that runs a
call takes its next step. Nothing can block it: there is one thread and no lock. `Repl` has none: the process
may end, and an `INSERT` may really never return.
Starting calls and crashing are not fair.

### Findings

- `pool_delete`: `deletePage` leaves the frame in the replacer. After `newPage`
  and a miss, a held page loses its frame.
- `pool_probe`: a page past the end of the file shows what its frame held before.
- `heap_page_growth`: `changeTuple` to a larger tuple moves `free_space_start`
  back instead of `free_space_end`.
- `table_insert`: an insert that finds no room on page 65535 never returns.
- `bplustree_order_2`: with order 2, allowed by the comments, a remove ends in a
  failed assertion.

One more disagreement has no run. `Tests/TableHeapTests.cpp:129` expects `editTuple` to
delete the row and insert the larger one; the code tries `changeTuple` first
(`TableHeap.cpp:143`), which grows the tuple in place whenever the page has room. What
that leaves of the other rows is `GrowthDamagesTailsOnly`.

## Proofs

Every theorem below holds for all values of the constants that satisfy the named
assumptions of the modules and, where one is named, the assumption of the theorem.
TLC evaluates the modules' assumptions in each run.

**RecencyListProofs**: what `Without` and `Touched` do to the elements of a
sequence and that they repeat none.

**LRUReplacerProofs**: `TypeCorrect`, `LinksCorrect` (`LinksMatchOrder`) and
`ReplacerImplemented`. `LinksMatchOrder` and the types together are inductive: they
fix every link an operation reads. `Chain` is the order between its sentinels;
taking a node out of a chain or putting one before the end changes two links
(`NodeRemoved`, `NodeAppended`). For the refinement the walk over the links is
shown to be `order`, by induction on its length (`WalkIsOrder`).

**BufferPoolProofs**. With every kind of call and failure: `TypeCorrect`,
`TableCorrect` (`TableMatchesFrames`) and `UnusedCorrect` (`UnusedFramesAreFree`).
The table proof needs that the table is injective by way of the page identifiers in
the frames, the free-list proof that a frame that enters the list was mapped and is
unmapped in the same call.

The rest is for programs that call no `deletePage` and fetch only pages that exist
(`ASSUME Disciplined`), with failures and crashes; the runs `pool_delete` and
`pool_probe` show that the assumption is needed.

- `VictimsAreUnpinned` (`OnlyUnpinnedAreEvictable`), `PinsCorrect`
  (`PinsCountHolders`), `HeldPagesCorrect` (`HeldPagesStay`). None of the three is
  inductive. `PinInv` adds the structure of table and free list, and
  `FreshIdsAreUnknown`: the identifier `allocatePage` returns next is neither in
  the table nor held. Without it `newPage` could remap a page under its holder.
  The pin count of a mapped frame is the size of the set of its holders; lemmas on
  cardinality say what one hold more or less does to it. From "pins = holders" and
  "evictable frames have no pins" it follows that a victim has no holder.
- `CleanPagesCorrect` (`CleanPagesAreInFile`), by `StoreInv`, which adds
  `NothingPastTheEnd`: a write behind the end of the file makes the pages between
  them come into being as zeros, so an unwritten page has to count as zero already.
  The one place where the pin argument is needed again is that a frame filled by a
  miss is held by nobody who could still write to it.
- `StoreImplemented` (`ImplementsPageStore`): every call of a client is a step of
  `PageStore` or none. An eviction writes its victim back, which changes what is
  durable and not what is current (`SaveIsAStep`); a failing read after it leaves
  just that step.
- `FramesAreAccounted` (`FailuresCostOneFrame`). The frames a call cannot find again
  are `Lost` (in no list and in no entry of the table) or `Stranded` (their page is in
  the table, unpinned, and the replacer does not know them). A failed write strands its
  victim, which `fetchPage` and `unpinPage` of that page give back; a failed read loses
  the frame it read into; no other call adds to either, and none makes a stranded frame
  a lost one.

**HeapPageOpsProofs** and **HeapPageProofs**: what the operations do to the words of
a page, and `TypeCorrect`, `GapCorrect`, `DisjointCorrect`, `ReadsBackCorrect`
(`...BeforeGrowth`) and `GrowthCorrect` (`GrowthDamagesTailsOnly`), for every page
size and any tuples. That tuples are disjoint is not inductive: an insertion also has
to know that all of them lie above `free_space_end`. `WellFormed` says where
everything is: the directory in front, then the gap, then the tuples from the back
in the order of their slots. Each operation keeps it as long as it moves nothing
below `free_space_end`; the loop of `changeTuple` is followed by induction over its
turns, which gives what a growing change still leaves intact: header, slots and earlier
tuples (`TurnsKeep`), and of each tuple that was moved all but the last words, which the
turn before may have overwritten (`TurnsLower`). After
such a change `TypeOK` has no theorem and could have none: a directory that was
overwritten is read as offsets, and what they then are depends on the tuples. The run
checks it for tuples whose words are no offsets.

**TableHeapProofs**, for every number of frames, pages, tables and rows, every page
size and set of tuples, with crashes between any two steps: `TypeCorrect`,
`RowsAreOnDisk` (`StoredRowsAreOnDisk`), `FirstPagesCorrect`
(`FirstPagesHaveNoOtherRows`), `ReadsCorrect` (`ReadsReturnStored`), `PoolIsClean`
(`IdlePoolIsClean`), `FrameIsFound` (`FetchFindsAFrame`) and `TableImplemented`
(`ImplementsHeapTable`). All of them assume that no caller edits a tuple into a
larger one in its place (`ASSUME ~Grows`): no statement of the program edits at all,
and the run `heap_page_growth` shows what that does to a page.

One invariant, `Inv`, carries all seven. None of the properties is inductive alone,
as each depends on what sits in which frame while a call is between its steps:

- `PoolTypes`, `PoolShape`: every frame is unused, evictable or the one the call has
  pinned, and only a page the call has changed is dirty. With that a frame is always
  found, and no eviction writes.
- `FilePages`: every page of the file is well-formed, so `HeapPageOpsProofs` applies
  to whatever is read. `FramePages`: what is in a frame is what is in the file, up
  to the opening of the page, but for the page being changed and for page 65535
  before it exists, which shows zeros or the rows of another page (`Stale`). The
  lemmas of `BufferPoolProofs` cannot be used here: this fetch is a probe.
- `FreshIdsAreUnheard`: a page `allocatePage` has not returned yet is zero, in no
  table, and no row is known on it. `createTable` needs it after a restart.
- `KnownRows`, `KnownTables`: what the callers know of is in the file, and is all
  that is in first pages.
- `CallShape`, `CallSubject`: how far a call has come and what it is about.
- `ChangeIsOne`: the changed page differs from the file by the one row of the call.
  A step that writes the file is therefore one step of `HeapTable`, and `Flush` is
  the only one (`FlushIsTableStep`). That the rows nobody inserted stay in front, and
  that an insertion makes one RID of its page known and no other, is what the lemmas on
  `RowsPut` and `FlushedRids` say.

TLC checked `Inv` on the instance of the run `table_heap` before it was proved.

**ReplProofs** begins with lemmas on the operators a line goes through, for lines and
rows of any length. `RoundTrip`: values without the separator come back from `serialize`
and `deserialize` as they were. `TokensAreProper`: a token has one of the types and
a sequence of characters as its lexeme, and no name is the star. `ParseInsertIs` and
`ParseSelectIs`: which token sequences are accepted, and the statement made of them.
`LineIsSplit`: what `tokenize` returns for a line, by induction from its end: what the
loop finds from a place on is there if the rest of the line is legal, is the text kept
from there, and has one token for each start from there. What a place is (`AtTurn`:
outside of quotes and of a word) comes from the parity of the quotes before it.

Its theorems hold for any lines, key words, names, schema and page size, with crashes
anywhere:

- `StartsLoseNothing` (`FailedStartsLoseNothing`), by `BootInv`: without metadata
  there is no row and no answer, lines are only read with metadata, and an empty
  catalog never refuses `users`, so only a cut-off bootstrap makes a start fail.
- `RowsAreDurable` (`AcknowledgedRowsAreDurable`), by `RowInv`, which adds that the
  catalog leads to the page in the metadata, that the tuple about to be stored is
  that of the values about to be remembered, and that the RID about to be printed
  names it. `InsertRow` appends to one page (`InsertRowAppends`), no other step
  changes a row (`StoredStays`), and no line is answered with "inserted" before
  `insertTuple` has returned (`HandledInserts`).
- `RowsAreCounted` (`OneRowPerInsert`), by `CountInv`: the rows of the file are a
  finite set that grows by one with `InsertRow` (`InsertRowAddsOne`), and a row about
  to be printed is in the file and was not printed yet.
- `TypeCorrect`, and `SelectsAreRight` (`SelectShowsRows`), by `TypeInv`: every row in
  the file is the tuple of as many storable values as the schema has columns. That
  there are as many comes from the binder, that they are storable and come back from
  the codec, and which of them a `SELECT` asked for from the parser.
- `LinesAreSplit` (`LinesAreSplitAsWritten`), from `LineIsSplit`.
- `LinesAreAnswered` (`LinesAreAnsweredByTheGrammar`), by `AnswerInv`: the line that is
  being inserted is one the grammar accepts, with these values. `SelectIsAnswered` and
  `InsertIsAnswered` go through parser and binder for a line that starts with the key
  word, `LineIsAnswered` puts them and the lines of `main` itself together.

`ReplAssumption` and `TokenizerAssumption` say what `main.cpp` and the character
functions of the C locale fix: a schema of two or more distinct columns, an
identifier of the overflow page other than 0 and 1, disjoint classes of characters,
key words of letters. `PageSizeAssumption` says that a page has room for a slot and
that offsets fit their types.

**BPlusTreeProofs**, for any set of keys, any number of levels and any orders but 2
(`ASSUME 2 \notin Orders`: a tree of order 2 may get an empty leaf and then fails an
assertion, as the run `bplustree_order_2` shows): `TypesHold` (`TypeOK`),
`BalanceHolds` (`TreeIsBalanced`), `SeparatorsHold` (`SeparatorsAreFirstKeys`),
`ChainHolds` (`ChainLinksLeaves`), `ContainsHolds` (`ContainsFindsKeys`), `RangesHold`
(`RangesAreExact`), `CallsChangeTheKey` (`CallsChangeOneKey`) and `NoAssertionFails`
(`NeverAborts`). No property of the tree is inductive alone: where a key goes depends
on the separators, what a split, a loan or a merge leaves depends on the numbers of
keys, and what the chain must be on the leaves that are there. One invariant,
`TreeInv` (`TreeInvariant`), carries all eight:

- `Tiers(order, b)[h]` are the nodes of height `h` whose proper descendants have from
  `getMinNodes` to `order - 1` keys and, with `b = 1`, whose separators are first keys;
  `Sound` adds what is asked of a root. `IsGood` says that the tree is one of these, of
  some height, that its keys are in order from left to right, and that its chain is
  `Chained`.
- Every function of the model has first to be what its equation says (`DefinedBy`), by
  induction on the levels. What it returns follows by induction on the height.
- `add`: what takes the place of a node is an entry of its height (`IsEntry`), one node
  or two with the separator between them, and has the keys of the node and the new one.
  That is shown for a leaf, for a parent that takes an entry in (`IsSpliced`) and for
  the two halves of a full node (`AreCut`); the chain follows the leaf that was split.
- `remove`: the parent of the leaf is damaged at one place (`IsDamaged`) and each of
  the cases of `rebalanceLeaf` mends it (`IsMended`), keys and their order included.
  On the way back up separators may be stale, so the tree is in `Tiers(order, 0)` until
  `refreshSeparators` brings it into `Tiers(order, 1)`; that it meets no empty leaf is
  where the order matters. A tree whose internal node fell short is built anew by
  `add`, key by key (`BuiltBy`), and a chain of only children is collapsed.
- `contains`: all keys left of the way down are at most the key, all right of it are
  larger (`IsFound`). `getRange`: when `ShiftedLeft` stops, every key before its leaf
  is below the range, wherever `getIndex` led to, and `Collected` is what `Within`
  leaves of the keys from there on.

How loops are proved about: the induction theorems of the library take a predicate
as a parameter, which the provers cannot instantiate. `SetInduction` says the same of
a *set* of numbers, and that is enough to show that a recursive function is what its
equation says and to follow a loop by its index, or a tree by its height.

Only model-checked:

- liveness, `RowCallsReturn`: out of the prover's reach;
- `TypeOK` of a page after a growing change, as said above.


## Not modelled

- The text that is printed (`printRows`, `printHelp`, the messages of parse errors)
  and the types and nullability of columns, which nothing reads.
- The bytes of the metadata page: it has the magic number and a page, or not. A
  write of a page that is cut in the middle.
- A `SELECT` does not show rows on page 65535, as `scanTuples` reads the first page
  only (README.md:222 says the links of pages are not stored yet); the model does
  the same, and `SelectShowsRows` is about the first page.
- `DiskManager::getByteOffset`: exact here; in the code it overflows an `int`
  from page 524288 on.
- `toString` of the tree, printing, and functions that only tests call
  (`HeapPage::setSlot`, `setNumSlots`, `setNextPage`, `setPrevPage`,
  `InternalNode::add`, `remove`, `removeChild`).
- An edit that is cut by a crash between its delete and its insertion loses the
  row: the steps are there, but the code promises nothing that could be stated.
- What a table keeps when an edit grows a row in place (`Grows = TRUE`): the page's part
  of it is `GrowthDamagesTailsOnly`, and no property speaks of the table.

## Plan

*Growing edits*: which rows of a table survive one, as `GrowthDamagesTailsOnly`
says it of a page.
