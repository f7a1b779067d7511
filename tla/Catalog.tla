------------------------------ MODULE Catalog ------------------------------
(***************************************************************************)
(* Catalog and Schema.  The catalog maps the name of a table to its        *)
(* TableInfo, here the schema and the first page of the heap; a schema is  *)
(* the sequence of the names of its columns.  The types of the columns and *)
(* whether they are nullable are stored and never read.                    *)
(***************************************************************************)
EXTENDS Integers, Sequences, Functions, Optional

TableInfo(schema, page) == [schema |-> schema, first_page_id |-> page]

NoTables == [name \in {} |-> TableInfo(<<>>, -1)]

hasDuplicateColumns(schema) ==
    \/ <<>> \in Range(schema)
    \/ ~IsInjective(schema)

\* What createTable and loadTable ask before they add a table.
MayAdd(tables, name, schema) ==
    /\ name # <<>>
    /\ schema # <<>>
    /\ ~hasDuplicateColumns(schema)
    /\ name \notin DOMAIN tables

WithTable(tables, name, schema, page) ==
    [n \in DOMAIN tables \cup {name} |->
        IF n = name THEN TableInfo(schema, page) ELSE tables[n]]

MayLoad(tables, name, schema, page) == MayAdd(tables, name, schema) /\ page >= 0

getColumnIndex(schema, name) ==
    IF name \in Range(schema)
    THEN Some(CHOOSE i \in DOMAIN schema :
                schema[i] = name /\ \A j \in 1..(i - 1) : schema[j] # name)
    ELSE nullopt

=============================================================================
