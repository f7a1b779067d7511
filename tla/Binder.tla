------------------------------- MODULE Binder -------------------------------
(***************************************************************************)
(* Binder: the names in a statement are looked up in the catalog.          *)
(***************************************************************************)
EXTENDS Parser, Catalog

bindInsert(tables, s) ==
    IF /\ s.table \in DOMAIN tables
       /\ Len(tables[s.table].schema) = Len(s.values)
    THEN Some(s)
    ELSE nullopt

requestsWildcard(names) == names = <<>> \/ names = <<Wildcard>>

\* Mutant: the columns come in the order of the schema.
MutantBoundColumns(schema, names) ==
    IF requestsWildcard(names) THEN Some([i \in DOMAIN schema |-> i])
    ELSE IF \A k \in DOMAIN names : getColumnIndex(schema, names[k]).has_value
    THEN Some(SelectSeq([i \in DOMAIN schema |-> i],
                        LAMBDA i : schema[i] \in Range(names)))
    ELSE nullopt

\* The indices of the columns that are asked for, in that order.
BoundColumns(schema, names) ==
    IF requestsWildcard(names) THEN Some([i \in DOMAIN schema |-> i])
    ELSE IF \A k \in DOMAIN names : getColumnIndex(schema, names[k]).has_value
    THEN Some([k \in DOMAIN names |-> getColumnIndex(schema, names[k]).value])
    ELSE nullopt

bindSelect(tables, s) ==
    IF s.table \notin DOMAIN tables THEN nullopt
    ELSE LET columns == BoundColumns(tables[s.table].schema, s.columns)
         IN  IF columns.has_value
             THEN Some([table |-> s.table, columns |-> columns.value])
             ELSE nullopt

=============================================================================
