\* Odd and even orders; enough keys for three levels, and for a key that fills
\* several leaves.
CONSTANTS
  Keys = {1, 2, 3, 4}
  Orders = {3, 4, 5}
  MaxKeys = 7
SPECIFICATION Spec
INVARIANT TypeOK
INVARIANT TreeIsBalanced
INVARIANT SeparatorsAreFirstKeys
INVARIANT ChainLinksLeaves
INVARIANT ContainsFindsKeys
INVARIANT RangesAreExact
PROPERTY CallsChangeOneKey
INVARIANT NeverAborts
