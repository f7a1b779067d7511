-------------------------------- MODULE Repl --------------------------------
(***************************************************************************)
(* main.cpp: the program from its start to its prompt, and what it does    *)
(* with a line.  The users table is a HeapTable, which TableHeap           *)
(* implements; page 0 is the metadata page, which does not go through the  *)
(* buffer pool.  The process may end between any two steps: when it writes *)
(* to the file there is always a step before and one after it.             *)
(***************************************************************************)
EXTENDS Tokenizer, Binder, RowCodec

CONSTANTS
    Lines,     \* the lines that are typed
    ExitLines, \* exit, EXIT, quit, QUIT, .exit
    HelpLine,  \* .help
    Users,     \* the name of the table
    Schema,    \* users_schema: the names of its columns
    Overflow,  \* page 65535
    PageRoom,  \* the bytes of a page for tuples and slots
    SLOT_SIZE, \* the bytes of a slot
    MaxRows    \* bound on the rows in the file

ASSUME ReplAssumption ==
    /\ Users # <<>> /\ Schema \in Seq(Seq(STRING)) /\ ~hasDuplicateColumns(Schema)
    /\ Len(Schema) > 1
    /\ Overflow \in Nat /\ Overflow > 1
    /\ PageRoom \in Nat /\ SLOT_SIZE \in Nat
    /\ MaxRows \in Nat
    /\ Lines \subseteq Seq(STRING)
    /\ HelpLine \notin ExitLines

VARIABLES
    metadata, \* page 0: users_first_page_id, or NoMetadata without the magic
    pages,    \* the rows of the pages of the file, of page 0 none
    pc,       \* where main is
    next_page_id_,
    tables_,  \* the catalog
    line,     \* the line that is being answered
    job,      \* what insertTuple is called with: the tuple, its values, the heap
    reply,    \* what is printed
    acked,    \* history: the values of the rows that were printed as inserted
    unanswered \* history: how many rows were stored without an answer

vars == <<metadata, pages, pc, next_page_id_, tables_, line, job, reply, acked,
          unanswered>>

File == INSTANCE HeapTable WITH Tuples <- {}, PageIds <- {1, Overflow}

NoMetadata == -1
NoLine == <<>>
Job(values, tuple, page) == [values |-> values, tuple |-> tuple, page |-> page]
NoJob == Job(<<>>, <<>>, -1)
RID(page, slot) == [page_id |-> page, slot_id |-> slot]
NoRid == RID(-1, -1)
Reply(kind, rows, rid) == [kind |-> kind, rows |-> rows, rid |-> rid]
NoReply == Reply("none", <<>>, NoRid)
Error(kind) == Reply(kind, <<>>, NoRid)

Init ==
    /\ metadata = NoMetadata
    /\ File!Init
    /\ pc = "down"
    /\ next_page_id_ = 0
    /\ tables_ = NoTables
    /\ line = NoLine /\ job = NoJob /\ reply = NoReply
    /\ acked = [rid \in {} |-> <<>>]
    /\ unanswered = 0

-----------------------------------------------------------------------------
(***************************************************************************)
(* The start.                                                              *)
(***************************************************************************)

\* The DiskManager counts the pages of the file, readMetadata reads page 0.
Start ==
    /\ pc = "down"
    /\ pc' = "started"
    /\ next_page_id_' = Cardinality(DOMAIN pages)
    /\ UNCHANGED <<metadata, pages, tables_, line, job, reply, acked, unanswered>>

\* main returns 1: allocatePage has returned another page than 0, or the catalog
\* refuses the table.
StartFails ==
    /\ pc = "started"
    /\ IF metadata = NoMetadata
       THEN next_page_id_ # 0 \/ ~MayAdd(tables_, Users, Schema)
       ELSE ~MayLoad(tables_, Users, Schema, metadata)
    /\ pc' = "failed"
    /\ UNCHANGED <<metadata, pages, next_page_id_, tables_, line, job, reply, acked,
                   unanswered>>

\* allocatePage and createTable, whose TableHeap flushes an empty page.
CreateUsers ==
    /\ pc = "started"
    /\ metadata = NoMetadata
    /\ next_page_id_ = 0
    /\ MayAdd(tables_, Users, Schema)
    /\ File!AddPage(next_page_id_ + 1)
    /\ tables_' = WithTable(tables_, Users, Schema, next_page_id_ + 1)
    /\ next_page_id_' = next_page_id_ + 2
    /\ pc' = "created"
    /\ UNCHANGED <<metadata, line, job, reply, acked, unanswered>>

\* Mutant: the metadata of a new file is kept in memory only.
MutantWriteMetadata ==
    /\ pc = "created"
    /\ pc' = "prompt"
    /\ UNCHANGED <<metadata, pages, next_page_id_, tables_, line, job, reply, acked,
                   unanswered>>

WriteMetadata ==
    /\ pc = "created"
    /\ metadata' = tables_[Users].first_page_id
    /\ pc' = "prompt"
    /\ UNCHANGED <<pages, next_page_id_, tables_, line, job, reply, acked, unanswered>>

\* Mutant: the table is created again, on the next page, instead of loaded.
MutantLoadUsers ==
    /\ pc = "started"
    /\ metadata # NoMetadata
    /\ MayLoad(tables_, Users, Schema, next_page_id_)
    /\ tables_' = WithTable(tables_, Users, Schema, next_page_id_)
    /\ pc' = "prompt"
    /\ UNCHANGED <<metadata, pages, next_page_id_, line, job, reply, acked, unanswered>>

LoadUsers ==
    /\ pc = "started"
    /\ metadata # NoMetadata
    /\ MayLoad(tables_, Users, Schema, metadata)
    /\ tables_' = WithTable(tables_, Users, Schema, metadata)
    /\ pc' = "prompt"
    /\ UNCHANGED <<metadata, pages, next_page_id_, line, job, reply, acked, unanswered>>

-----------------------------------------------------------------------------
(***************************************************************************)
(* A line.                                                                 *)
(***************************************************************************)

\* The tokens of the lines, each computed once.
Tokens == [l \in Lines |-> tokenize(l)]

\* scanTuples: the first page only, without the tuples that have no bytes.
scanTuples(name) ==
    LET page == pages[tables_[name].first_page_id]
        upTo[n \in 0..Len(page)] ==
          IF n = 0 THEN <<>>
          ELSE IF page[n] = <<>> THEN upTo[n - 1] ELSE Append(upTo[n - 1], page[n])
    IN  upTo[Len(page)]

\* SelectExecutor: all rows have to decode.
Selected(bound) ==
    LET tuples == scanTuples(bound.table)
        row(k) == deserialize(tuples[k], Len(tables_[bound.table].schema))
    IN  IF \A k \in DOMAIN tuples : row(k).has_value
        THEN Some([k \in DOMAIN tuples |->
                     [c \in DOMAIN bound.columns |-> row(k).value[bound.columns[c]]]])
        ELSE nullopt

handleSelect(tokens) ==
    LET s     == parseSelect(tokens)
        bound == bindSelect(tables_, s.value)
        rows  == Selected(bound.value)
    IN  IF ~s.has_value THEN Error("parse error")
        ELSE IF ~bound.has_value THEN Error("bind error")
        ELSE IF ~rows.has_value THEN Error("execution error")
        ELSE Reply("rows", rows.value, NoRid)

\* handleInsert up to insertTuple: the answer, or what is to be stored.
handleInsert(tokens) ==
    LET s     == parseInsert(tokens)
        bound == bindInsert(tables_, s.value)
        tuple == serialize(bound.value.values)
    IN  IF ~s.has_value THEN Error("parse error")
        ELSE IF ~bound.has_value THEN Error("bind error")
        ELSE IF ~tuple.has_value THEN Error("execution error")
        ELSE Reply("insert", <<bound.value, tuple.value>>, NoRid)

\* What the loop of main does with a line that does not end it.
Handled(l) ==
    LET tokens == Tokens[l] IN
      CASE l = HelpLine          -> Error("nothing")
        [] l # HelpLine /\ ~tokens.has_value -> Error("tokenizer error")
        [] OTHER ->
             IF tokens.value = <<>> THEN Error("nothing")
             ELSE CASE tokens.value[1].type = "SELECT" -> handleSelect(tokens.value)
                    [] tokens.value[1].type = "INSERT" -> handleInsert(tokens.value)
                    [] OTHER -> Error("unsupported")

\* The rows in the file, by their RIDs.
RowsInFile ==
    {rid \in [page_id : DOMAIN pages, slot_id : 0..(MaxRows - 1)] :
        rid.slot_id < Len(pages[rid.page_id])}

\* A line that is answered without a change of the file.
Answer(l) ==
    /\ pc = "prompt"
    /\ l \notin ExitLines
    /\ LET answer == Handled(l) IN answer.kind # "insert" /\ reply' = answer
    /\ line' = l
    /\ pc' = "reply"
    /\ UNCHANGED <<metadata, pages, next_page_id_, tables_, job, acked, unanswered>>

BeginInsert(l) ==
    /\ pc = "prompt"
    /\ l \notin ExitLines
    /\ Cardinality(RowsInFile) < MaxRows
    /\ LET answer == Handled(l)
           s      == answer.rows[1]
       IN  /\ answer.kind = "insert"
           /\ job' = Job(s.values, answer.rows[2], tables_[s.table].first_page_id)
    /\ line' = l
    /\ pc' = "insert"
    /\ UNCHANGED <<metadata, pages, next_page_id_, tables_, reply, acked, unanswered>>

\* The room that the tuples of a page and their slots take.
Used(p) ==
    LET upTo[n \in 0..Len(pages[p])] ==
          IF n = 0 THEN 0 ELSE upTo[n - 1] + Len(pages[p][n]) + SLOT_SIZE
    IN  IF p \in DOMAIN pages THEN upTo[Len(pages[p])] ELSE 0

HasRoom(p, tuple) == Used(p) + Len(tuple) + SLOT_SIZE <= PageRoom

Slots(p) == IF p \in DOMAIN pages THEN Len(pages[p]) ELSE 0

\* Mutant: insertTuple goes on to page 65535 when it has stored the row.
MutantInsertRow ==
    /\ pc = "insert"
    /\ HasRoom(job.page, job.tuple) /\ HasRoom(Overflow, job.tuple)
    /\ pages' = [q \in 0..Overflow |->
                   IF q \in {job.page, Overflow}
                   THEN (IF q \in DOMAIN pages THEN pages[q] ELSE <<>>) \o <<job.tuple>>
                   ELSE <<>>]
    /\ reply' = Reply("inserted", <<>>, RID(job.page, Slots(job.page)))
    /\ pc' = "reply"
    /\ UNCHANGED <<metadata, next_page_id_, tables_, line, job, acked, unanswered>>

\* Mutant: the page of the row is not flushed, and is lost with the process.
MutantInsertRowUnflushed ==
    /\ pc = "insert"
    /\ HasRoom(job.page, job.tuple)
    /\ reply' = Reply("inserted", <<>>, RID(job.page, Slots(job.page)))
    /\ pc' = "reply"
    /\ UNCHANGED <<metadata, pages, next_page_id_, tables_, line, job, acked, unanswered>>

\* insertTuple: the row goes into the first page, or into page 65535 when that
\* is full; when both are, insertTuple does not return.
InsertRow ==
    /\ pc = "insert"
    /\ \E p \in {job.page, Overflow} :
         /\ HasRoom(p, job.tuple)
         /\ p = Overflow => ~HasRoom(job.page, job.tuple)
         /\ File!AddRow(p, job.tuple)
         /\ reply' = Reply("inserted", <<>>, RID(p, Slots(p)))
    /\ pc' = "reply"
    /\ UNCHANGED <<metadata, next_page_id_, tables_, line, job, acked, unanswered>>

Inserted == pc = "reply" /\ reply.kind = "inserted"

\* The answer is printed, and main asks for the next line.
Prompt ==
    /\ pc = "reply"
    /\ acked' = IF Inserted
                THEN [rid \in DOMAIN acked \cup {reply.rid} |->
                        IF rid = reply.rid THEN job.values ELSE acked[rid]]
                ELSE acked
    /\ pc' = "prompt"
    /\ line' = NoLine /\ job' = NoJob /\ reply' = NoReply
    /\ UNCHANGED <<metadata, pages, next_page_id_, tables_, unanswered>>

\* The process is gone; what it had in memory is too.
Ended ==
    /\ pc' = "down"
    /\ next_page_id_' = 0 /\ tables_' = NoTables
    /\ line' = NoLine /\ job' = NoJob /\ reply' = NoReply
    /\ UNCHANGED <<metadata, pages, acked>>

\* The end of the input, exit and its like.
Exit ==
    /\ pc = "prompt"
    /\ Ended
    /\ UNCHANGED unanswered

\* The process ends anywhere else: it is killed, it throws, it returns 1.
Crash ==
    /\ pc \notin {"down", "prompt"}
    /\ unanswered' = IF Inserted THEN unanswered + 1 ELSE unanswered
    /\ Ended

Next ==
    \/ Start
    \/ StartFails
    \/ CreateUsers
    \/ WriteMetadata
    \/ LoadUsers
    \/ \E l \in Lines : Answer(l)
    \/ \E l \in Lines : BeginInsert(l)
    \/ InsertRow
    \/ Prompt
    \/ Exit
    \/ Crash

Spec == Init /\ [][Next]_vars

-----------------------------------------------------------------------------
(***************************************************************************)
(* Properties.                                                             *)
(***************************************************************************)

Down == {"down", "started", "failed"}
Serving == {"prompt", "insert", "reply"}

\* While main serves lines its catalog has the one table users, whose first page
\* is the one the metadata page names; before that it has no table.
TypeOK ==
    /\ pc \in Down \cup {"created"} \cup Serving
    /\ metadata \in {NoMetadata} \cup DOMAIN pages
    /\ pc \in Down => tables_ = NoTables
    /\ pc \in Serving =>
          metadata # NoMetadata /\ tables_ = WithTable(NoTables, Users, Schema, metadata)
    /\ pc = "insert" => job.tuple = serialize(job.values).value
    /\ \A rid \in DOMAIN acked : acked[rid] \in Seq(Seq(STRING))
    /\ unanswered \in 0..MaxRows

\* A line has tokens if and only if no quote is left open and no sign outside of
\* quotes is foreign; nothing of it is lost or added but the space outside of
\* quotes, and it is split where a token starts and nowhere else.
LinesAreSplitAsWritten ==
    pc = "reply" =>
      /\ Tokens[line].has_value = Legible(line)
      /\ Legible(line) =>
           /\ Sources(Tokens[line].value) = Kept(line)
           /\ Len(Tokens[line].value)
                = Cardinality({i \in DOMAIN line : StartsToken(line, i)})

\* What a line deserves, from the types of its tokens and the names in it.
NamesIn(tokens) == {k \in DOMAIN tokens : tokens[k].type = "IDENTIFIER"}
ValuesIn(tokens) ==
    {k \in DOMAIN tokens : tokens[k].type \in {"STRING_LITERAL", "INTEGER_LITERAL"}}

SelectVerdict(types, tokens) ==
    LET table == Len(tokens) - 1 IN
      CASE ~IsSelect(types) -> "parse error"
        [] IsSelect(types) /\ \/ tokens[table].lexeme # Users
                              \/ \E k \in NamesIn(tokens) \ {table} :
                                   tokens[k].lexeme \notin Range(Schema) -> "bind error"
        [] OTHER -> "rows"

InsertVerdict(types, tokens) ==
    CASE ~IsInsert(types) -> "parse error"
      [] IsInsert(types) /\ \/ tokens[3].lexeme # Users
                            \/ Cardinality(ValuesIn(tokens)) # Len(Schema) -> "bind error"
      [] OTHER ->
           IF \E k \in ValuesIn(tokens) : FIELD_SEPARATOR \in Range(tokens[k].lexeme)
           THEN "execution error"
           ELSE "inserted"

Verdict(tokens) ==
    LET types == [k \in DOMAIN tokens |-> tokens[k].type] IN
      CASE tokens = <<>> -> "nothing"
        [] tokens # <<>> /\ types[1] = "SELECT" -> SelectVerdict(types, tokens)
        [] tokens # <<>> /\ types[1] = "INSERT" -> InsertVerdict(types, tokens)
        [] OTHER -> "unsupported"

\* The answer to a line is the one its grammar, the catalog and the separator
\* call for, in every state of the file: a row that was stored never makes a
\* later SELECT fail, and a statement is neither refused nor accepted by accident.
LinesAreAnsweredByTheGrammar ==
    pc = "reply" =>
      CASE line = HelpLine -> reply.kind = "nothing"
        [] line # HelpLine /\ ~Legible(line) -> reply.kind = "tokenizer error"
        [] OTHER -> reply.kind = Verdict(Tokens[line].value)

\* The columns that a SELECT asks for, by name.
AskedColumns(tokens) ==
    IF tokens[2].type = "STAR" THEN Schema
    ELSE [k \in 1..((Len(tokens) - 3) \div 2) |-> tokens[2 * k].lexeme]

ValueOf(values, column) == values[CHOOSE i \in DOMAIN Schema : Schema[i] = column]

\* A SELECT shows one line per row of the first page, in the order of the slots,
\* and of a row whose INSERT was answered the values that INSERT gave, under the
\* columns that are asked for and in their order.
SelectShowsRows ==
    pc = "reply" /\ reply.kind = "rows" =>
      LET asked == AskedColumns(Tokens[line].value) IN
        /\ Len(reply.rows) = Len(pages[metadata])
        /\ \A rid \in DOMAIN acked :
             rid.page_id = metadata =>
               reply.rows[rid.slot_id + 1]
                 = [k \in DOMAIN asked |-> ValueOf(acked[rid], asked[k])]

\* A row that was printed as inserted is in the file under that RID, as the tuple of
\* the values of its INSERT, whenever the process ends and however often it starts.
AcknowledgedRowsAreDurable ==
    \A rid \in DOMAIN acked :
        /\ rid.page_id \in DOMAIN pages
        /\ rid.slot_id + 1 \in DOMAIN pages[rid.page_id]
        /\ pages[rid.page_id][rid.slot_id + 1] = serialize(acked[rid]).value

\* Every other row in the file is that of an INSERT which was cut off before its
\* answer, or is about to be answered: no INSERT stores two rows, and none that
\* is refused, or cut off before it was at the page, stores one.
OneRowPerInsert ==
    Cardinality(RowsInFile \ DOMAIN acked) = unanswered + (IF Inserted THEN 1 ELSE 0)

\* A start that fails leaves nothing behind that could be lost: only a file whose
\* bootstrap was cut off refuses to open, and that one has no rows.
FailedStartsLoseNothing ==
    pc = "failed" => metadata = NoMetadata /\ RowsInFile = {} /\ acked = <<>>

=============================================================================
