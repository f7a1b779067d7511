------------------------------- MODULE Parser -------------------------------
(***************************************************************************)
(* Parser: from tokens to a statement.  current is the index of the next   *)
(* token; a check that fails ends the parse.  The messages of the failures *)
(* are left out.                                                           *)
(***************************************************************************)
EXTENDS Integers, Sequences, Optional

\* The column that stands for all columns.
Wildcard == <<"*">>

SelectStatement(columns, table) == [columns |-> columns, table |-> table]
InsertStatement(table, values) == [table |-> table, values |-> values]

\* There is a token at current, and it is of one of the types.
IsAt(tokens, current, types) ==
    current <= Len(tokens) /\ tokens[current].type \in types

\* Mutant: a comma may end the list.
MutantListAt(tokens, start, types) ==
    LET from[k \in start..(Len(tokens) + 2)] ==
          IF ~IsAt(tokens, k, types) THEN Some([items |-> <<>>, next |-> k])
          ELSE LET item == <<tokens[k].lexeme>>
                   more == from[k + 2]
               IN  IF ~IsAt(tokens, k + 1, {"COMMA"})
                   THEN Some([items |-> item, next |-> k + 1])
                   ELSE IF more.has_value
                        THEN Some([more.value EXCEPT !.items = item \o @])
                        ELSE nullopt
    IN  from[start]

\* The loop over a list: one token of the types, and another one after each
\* comma.  The lexemes and the index behind the list.
ListAt(tokens, start, types) ==
    LET from[k \in start..(Len(tokens) + 2)] ==
          IF ~IsAt(tokens, k, types) THEN nullopt
          ELSE LET item == <<tokens[k].lexeme>>
                   more == from[k + 2]
               IN  IF ~IsAt(tokens, k + 1, {"COMMA"})
                   THEN Some([items |-> item, next |-> k + 1])
                   ELSE IF more.has_value
                        THEN Some([more.value EXCEPT !.items = item \o @])
                        ELSE nullopt
    IN  from[start]

\* A star must be the only column.
ProjectionAt(tokens, current) ==
    IF ~IsAt(tokens, current, {"STAR"})
    THEN ListAt(tokens, current, {"IDENTIFIER"})
    ELSE IF IsAt(tokens, current + 1, {"COMMA"}) THEN nullopt
    ELSE Some([items |-> <<Wildcard>>, next |-> current + 1])

parseSelect(tokens) ==
    LET columns == ProjectionAt(tokens, 2)
        current == columns.value.next
    IN  IF /\ IsAt(tokens, 1, {"SELECT"})
           /\ columns.has_value
           /\ IsAt(tokens, current, {"FROM"})
           /\ IsAt(tokens, current + 1, {"IDENTIFIER"})
           /\ IsAt(tokens, current + 2, {"SEMICOLON"})
           /\ Len(tokens) = current + 2
        THEN Some(SelectStatement(columns.value.items, tokens[current + 1].lexeme))
        ELSE nullopt

parseInsert(tokens) ==
    LET values  == ListAt(tokens, 6, {"STRING_LITERAL", "INTEGER_LITERAL"})
        current == values.value.next
    IN  IF /\ IsAt(tokens, 1, {"INSERT"})
           /\ IsAt(tokens, 2, {"INTO"})
           /\ IsAt(tokens, 3, {"IDENTIFIER"})
           /\ IsAt(tokens, 4, {"VALUES"})
           /\ IsAt(tokens, 5, {"LEFT_PAREN"})
           /\ values.has_value
           /\ IsAt(tokens, current, {"RIGHT_PAREN"})
           /\ IsAt(tokens, current + 1, {"SEMICOLON"})
           /\ Len(tokens) = current + 1
        THEN Some(InsertStatement(tokens[3].lexeme, values.value.items))
        ELSE nullopt

-----------------------------------------------------------------------------
(***************************************************************************)
(* The grammar, as what the types of the tokens of a statement are.        *)
(***************************************************************************)

\* x , x , ... , x with every x in types.
IsList(s, types) ==
    /\ Len(s) % 2 = 1
    /\ \A k \in DOMAIN s : IF k % 2 = 1 THEN s[k] \in types ELSE s[k] = "COMMA"

\* SELECT a , b FROM t ; and INSERT INTO t VALUES ( 1 , 'x' ) ;
IsSelect(s) ==
    LET n == Len(s)
        projection == SubSeq(s, 2, n - 3)
    IN  /\ n >= 5 /\ s[1] = "SELECT"
        /\ projection = <<"STAR">> \/ IsList(projection, {"IDENTIFIER"})
        /\ SubSeq(s, n - 2, n) = <<"FROM", "IDENTIFIER", "SEMICOLON">>

IsInsert(s) ==
    LET n == Len(s) IN
        /\ n >= 8
        /\ SubSeq(s, 1, 5) = <<"INSERT", "INTO", "IDENTIFIER", "VALUES", "LEFT_PAREN">>
        /\ IsList(SubSeq(s, 6, n - 2), {"STRING_LITERAL", "INTEGER_LITERAL"})
        /\ SubSeq(s, n - 1, n) = <<"RIGHT_PAREN", "SEMICOLON">>

=============================================================================
