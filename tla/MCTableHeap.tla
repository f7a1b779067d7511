---------------------------- MODULE MCTableHeap ----------------------------
\* Tuples for model checking: one word and two words.
EXTENDS TableHeap

MCTuples == {<<101>>, <<102, 103>>}

=============================================================================
