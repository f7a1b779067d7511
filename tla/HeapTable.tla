----------------------------- MODULE HeapTable -----------------------------
(***************************************************************************)
(* What tables promise of the rows that are put in the file: each page has *)
(* a sequence of them, and a step of the program appends a row, replaces   *)
(* one or takes one away (it stays, without bytes).  No step leaves half a *)
(* row, and neither an eviction nor the end of the process changes a row.  *)
(* TableHeap implements this, Repl is built on it.                         *)
(***************************************************************************)
EXTENDS Integers, Sequences

CONSTANTS
    Tuples, \* the tuples that are stored, each with at least one byte
    PageIds \* the page identifiers

VARIABLE pages \* the rows put in the pages of the file; these are 0..(n - 1)

Empty == <<>>
Deleted == <<>>

Init == pages = [p \in {} |-> Empty]

\* The file after page p has been written: the pages before it are there too.
UpTo(p) ==
    [q \in DOMAIN pages \cup 0..p |-> IF q \in DOMAIN pages THEN pages[q] ELSE Empty]

\* The first page of a new table.
AddPage(p) ==
    /\ p \notin DOMAIN pages
    /\ pages' = UpTo(p)

AddRow(p, t) == pages' = [UpTo(p) EXCEPT ![p] = Append(@, t)]

SetRow(p, i, t) == pages' = [pages EXCEPT ![p][i] = t]

Next ==
    \E p \in PageIds :
        \/ AddPage(p)
        \/ \E t \in Tuples : AddRow(p, t)
        \/ /\ p \in DOMAIN pages
           /\ \E i \in DOMAIN pages[p], t \in Tuples \cup {Deleted} : SetRow(p, i, t)

Spec == Init /\ [][Next]_pages

=============================================================================
