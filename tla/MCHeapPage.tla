----------------------------- MODULE MCHeapPage -----------------------------
\* Tuples for model checking: two of one size, a smaller and a larger one.
\* No word is a plausible offset or length of the small page.
EXTENDS HeapPage

MCTuples == {<<101>>, <<102, 103>>, <<104, 105>>, <<106, 107, 108>>}

=============================================================================
