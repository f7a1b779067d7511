----------------------------- MODULE PageStore -----------------------------
(***************************************************************************)
(* What the buffer pool and the disk manager together promise to whoever   *)
(* stores data in pages: a page has one current content, whatever frame or *)
(* file offset it happens to be in; a change is only ever made by a writer *)
(* of that page; and a crash takes every page back to what was last        *)
(* written to the file.                                                    *)
(***************************************************************************)
EXTENDS Integers

CONSTANTS PageIds, \* page identifiers, integers in the order of the file
          Data,    \* what a page can hold
          Zero,    \* the content of a fresh page and of a hole in the file
          Absent   \* the page does not exist

VARIABLES content, \* what a reader of the page sees
          durable  \* what a reader would see after a crash

vars == <<content, durable>>

Init ==
    /\ content = [p \in PageIds |-> Absent]
    /\ durable = [p \in PageIds |-> Absent]

\* The file grows to the end of the last page written, zeros in between.
Extended(view, W) ==
    [p \in PageIds |->
        IF view[p] = Absent /\ \E q \in W : p < q THEN Zero ELSE view[p]]

\* The current contents of the pages in W reach the file.
Saved(W) ==
    [p \in PageIds |-> IF p \in W THEN content[p] ELSE Extended(durable, W)[p]]

Existing == {p \in PageIds : content[p] # Absent}

\* Making room for a page may save another one.
MayBeSaved == {W \in SUBSET Existing : \A p, q \in W : p = q}

Create(p) ==
    /\ content[p] = Absent
    /\ \E W \in MayBeSaved :
         /\ durable' = Saved(W)
         /\ content' = [Extended(content, W) EXCEPT ![p] = Zero]

Write(p, d) ==
    /\ p \in Existing
    /\ content' = [content EXCEPT ![p] = d]
    /\ UNCHANGED durable

Save(p) ==
    /\ p \in Existing
    /\ durable' = Saved({p})
    /\ content' = Extended(content, {p})

Crash ==
    /\ content' = durable
    /\ UNCHANGED durable

Next ==
    \/ \E p \in PageIds : \/ Create(p)
                          \/ Save(p)
                          \/ \E d \in Data : Write(p, d)
    \/ Crash

Spec == Init /\ [][Next]_vars

=============================================================================
