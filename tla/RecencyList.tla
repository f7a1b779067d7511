---------------------------- MODULE RecencyList ----------------------------
(***************************************************************************)
(* The order the replacer keeps, as a sequence without repetitions whose   *)
(* head is the frame that has been unpinned the longest.  The operators    *)
(* are shared by the abstract replacer (module Replacer), by the linked    *)
(* list that implements it (LRUReplacer) and by the buffer pool that calls *)
(* it (BufferPool).                                                        *)
(***************************************************************************)
EXTENDS Naturals, Sequences, SequencesExt

\* No element occurs twice.
NoRepetition(q) == \A i, j \in DOMAIN q : q[i] = q[j] => i = j

\* The place of f in q, for an f that occurs in q.
Position(q, f) == CHOOSE i \in DOMAIN q : q[i] = f

\* q without f, the others in the order they had.
Without(q, f) ==
    IF f \in ToSet(q) THEN RemoveAt(q, Position(q, f)) ELSE q

\* q with f as its most recent element, whether or not f was in it.
Touched(q, f) == Append(Without(q, f), f)

=============================================================================
