----------------------------- MODULE BPlusTree -----------------------------
(***************************************************************************)
(* The B+ tree of marksql: BPlusTree, LeafNode and InternalNode.  It is    *)
(* used by one caller at a time, so a call is one step.                    *)
(*                                                                         *)
(* A node owns its children, so the tree is a value.  The leaves are also  *)
(* linked by raw pointers, prev_ and next_: a pointer to a leaf is the     *)
(* position of that leaf, counted from the left, and the operators that    *)
(* replace or free a leaf rename the pointers.                             *)
(***************************************************************************)
EXTENDS Integers, SequencesExt

CONSTANTS
    Keys,    \* the keys that are added, looked for and removed
    Orders,  \* the values of order_ a tree is constructed with
    MaxKeys  \* bound on the keys in the tree

ASSUME TreeAssumption ==
    /\ Keys \subseteq Int
    /\ Orders \subseteq Nat \ {0, 1}
    /\ MaxKeys \in Nat

VARIABLES
    order,  \* order_
    root,   \* root_
    next,   \* next_ of the leaf at each position
    prev,   \* prev_ of the leaf at each position
    aborted \* an assertion of the code has failed

vars == <<order, root, next, prev, aborted>>

\* The pointers that lead to no leaf: nullptr, and one to a leaf that was freed.
Null == 0
Dangling == -1

Node(keys, kids) == [keys |-> keys, kids |-> kids]
Leaf(keys) == Node(keys, <<>>)
IsLeaf(n) == n.kids = <<>>

\* The nodes with at most d levels, and with as many as a tree of MaxKeys keys can
\* have.  A node that is no leaf has a child more than keys.
Trees[d \in 0..(MaxKeys + 1)] ==
    IF d = 0 THEN {}
    ELSE {n \in [keys : Seq(Keys), kids : Seq(Trees[d - 1])] :
            IsLeaf(n) \/ Len(n.kids) = Len(n.keys) + 1}
Nodes == Trees[MaxKeys + 1]
Parents == {n \in Nodes : ~IsLeaf(n)}

\* A tree with its leaf chain.
Tree(n, nxt, prv) == [root |-> n, next |-> nxt, prev |-> prv]
EmptyTree == Tree(Leaf(<<>>), <<Null>>, <<Null>>)

Init ==
    /\ order \in Orders
    /\ root = EmptyTree.root
    /\ next = EmptyTree.next
    /\ prev = EmptyTree.prev
    /\ aborted = FALSE

\* ceil(order_ / 2.0) - 1
getMinNodes == (order + 1) \div 2 - 1

-----------------------------------------------------------------------------
(***************************************************************************)
(* Nodes, the way down to a leaf, and the leaves from left to right.       *)
(***************************************************************************)

\* Of the positions of keys, the first whose key is larger than v, or none.
FirstLarger(keys, v, none) ==
    LET larger == {i \in DOMAIN keys : v < keys[i]}
    IN  IF larger = {} THEN none ELSE CHOOSE i \in larger : \A j \in larger : i <= j

\* LeafNode::add: a key goes behind the keys equal to it.
Added(keys, v) == InsertAt(keys, FirstLarger(keys, v, Len(keys) + 1), v)

\* Mutant: a key equal to a separator is looked for on its left.
MutantFindChild(n, v) ==
    LET reached == {i \in DOMAIN n.keys : v <= n.keys[i]}
    IN  IF reached = {} THEN Len(n.kids)
        ELSE CHOOSE i \in reached : \A j \in reached : i <= j

\* The child that findChild goes to, and the one getRange goes to with getIndex:
\* the last child but one when lo is behind every separator.
findChild(n, v) == FirstLarger(n.keys, v, Len(n.kids))
getIndex(n, v) ==
    FirstLarger(n.keys, v, IF n.keys = <<>> THEN 1 ELSE Len(n.keys))

\* The keys of the leaves below n, from left to right.
Leaves[n \in Nodes] ==
    IF IsLeaf(n) THEN <<n.keys>>
    ELSE FlattenSeq([i \in DOMAIN n.kids |-> Leaves[n.kids[i]]])

\* How many leaves of n come before its child i.
LeavesBefore(n, i) == Len(FlattenSeq([j \in 1..(i - 1) |-> Leaves[n.kids[j]]]))

\* The leaf below n that findChild leads to, and its position.
LeafFor(n, v) ==
    LET from[m \in Nodes] ==
          IF IsLeaf(m) THEN [leaf |-> m, at |-> 1]
          ELSE LET i == findChild(m, v)
               IN  [from[m.kids[i]] EXCEPT !.at = LeavesBefore(m, i) + @]
    IN  from[n]

-----------------------------------------------------------------------------
(***************************************************************************)
(* The leaf chain.                                                         *)
(***************************************************************************)

\* The leaf at i is replaced by two, at i and i + 1, between its neighbours.
ChainSplit(t, i) ==
    LET name(p) == IF p = i THEN Dangling ELSE IF p > i THEN p + 1 ELSE p
        moved(link) == [j \in 1..(Len(link) + 1) |->
                          name(IF j <= i THEN link[j] ELSE link[j - 1])]
        before == name(t.prev[i])
        after  == name(t.next[i])
    IN  [t EXCEPT
           !.next = [j \in DOMAIN moved(@) |->
                       CASE j = before -> i
                         [] j = i      -> i + 1
                         [] j = i + 1  -> after
                         [] OTHER      -> moved(t.next)[j]],
           !.prev = [j \in DOMAIN moved(@) |->
                       CASE j = after -> i + 1
                         [] j = i     -> before
                         [] j = i + 1 -> i
                         [] OTHER     -> moved(t.prev)[j]]]

\* Mutant: the leaf behind the merged ones keeps its prev_.
MutantChainMerge(t, i) ==
    LET name(p) ==
            IF p = i + 1 THEN Dangling ELSE IF p > i + 1 THEN p - 1 ELSE p
        nxt == [t.next EXCEPT ![i] = t.next[i + 1]]
        named(link) == [j \in 1..(Len(link) - 1) |->
                          name(IF j <= i THEN link[j] ELSE link[j + 1])]
    IN  [t EXCEPT !.next = named(nxt), !.prev = named(@)]

\* The leaf at i takes the keys of the one at i + 1, which is freed.
ChainMerge(t, i) ==
    LET name(p) ==
            IF p = i + 1 THEN Dangling ELSE IF p > i + 1 THEN p - 1 ELSE p
        after == t.next[i + 1]
        nxt == [t.next EXCEPT ![i] = after]
        prv == [j \in DOMAIN t.prev |-> IF j = after THEN i ELSE t.prev[j]]
        named(link) == [j \in 1..(Len(link) - 1) |->
                          name(IF j <= i THEN link[j] ELSE link[j + 1])]
    IN  [t EXCEPT !.next = named(nxt), !.prev = named(prv)]

-----------------------------------------------------------------------------
(***************************************************************************)
(* add.  What takes the place of a node in its parent is a node or, after  *)
(* splitNode, two nodes and the separator between them: the entries of a   *)
(* node.                                                                   *)
(***************************************************************************)

\* Mutant: a leaf promotes its last key on the left.
MutantSplit(n) ==
    LET half  == Len(n.keys) \div 2
        left  == SubSeq(n.keys, 1, half)
        right == SubSeq(n.keys, half + 1, Len(n.keys))
    IN  IF IsLeaf(n)
        THEN Node(<<Last(left)>>, <<Leaf(left), Leaf(right)>>)
        ELSE Node(<<Head(right)>>,
                  <<Node(left, SubSeq(n.kids, 1, half + 1)),
                    Node(Tail(right), SubSeq(n.kids, half + 2, Len(n.kids)))>>)

\* Mutant: the key that an internal node promotes also stays on its right.
MutantSplitKeeps(n) ==
    LET half  == Len(n.keys) \div 2
        left  == SubSeq(n.keys, 1, half)
        right == SubSeq(n.keys, half + 1, Len(n.keys))
    IN  IF IsLeaf(n)
        THEN Node(<<Head(right)>>, <<Leaf(left), Leaf(right)>>)
        ELSE Node(<<Head(right)>>,
                  <<Node(left, SubSeq(n.kids, 1, half + 1)),
                    Node(right, SubSeq(n.kids, half + 2, Len(n.kids)))>>)

\* splitNode
Split(n) ==
    LET half  == Len(n.keys) \div 2
        left  == SubSeq(n.keys, 1, half)
        right == SubSeq(n.keys, half + 1, Len(n.keys))
    IN  IF IsLeaf(n)
        THEN Node(<<Head(right)>>, <<Leaf(left), Leaf(right)>>)
        ELSE Node(<<Head(right)>>,
                  <<Node(left, SubSeq(n.kids, 1, half + 1)),
                    Node(Tail(right), SubSeq(n.kids, half + 2, Len(n.kids)))>>)

Place(n) == IF Len(n.keys) = order THEN Split(n) ELSE Node(<<>>, <<n>>)

\* Child i of n, and no separator, make room for what takes its place.
Spliced(n, i, place) ==
    Node(SubSeq(n.keys, 1, i - 1) \o place.keys
           \o SubSeq(n.keys, i, Len(n.keys)),
         SubSeq(n.kids, 1, i - 1) \o place.kids
           \o SubSeq(n.kids, i + 1, Len(n.kids)))

\* addHelper
PlaceWith(n, v) ==
    LET from[m \in Nodes] ==
          IF IsLeaf(m) THEN Place(Leaf(Added(m.keys, v)))
          ELSE LET i == findChild(m, v) IN Place(Spliced(m, i, from[m.kids[i]]))
    IN  from[n]

add(t, v) ==
    LET place == PlaceWith(t.root, v)
        there == LeafFor(t.root, v)
        chain == IF Len(there.leaf.keys) + 1 = order THEN ChainSplit(t, there.at) ELSE t
    IN  [chain EXCEPT !.root = IF Len(place.kids) = 1 THEN place.kids[1] ELSE place]

-----------------------------------------------------------------------------
(***************************************************************************)
(* remove.  The parent n of a leaf that lost a key repairs it: leaf i.     *)
(***************************************************************************)

WithLeaf(n, i, keys) == [n EXCEPT !.kids[i] = Leaf(keys)]

\* Mutant: a leaf may be one key short.
MutantKept(n, i) == Len(n.kids[i].keys) + 1 >= getMinNodes

Kept(n, i) == Len(n.kids[i].keys) >= getMinNodes

\* Leaf i of n exists and has a key it can lend.
Lends(n, i) == i \in DOMAIN n.kids /\ Len(n.kids[i].keys) > getMinNodes

Merges(n, i) == ~Kept(n, i) /\ ~Lends(n, i + 1) /\ ~Lends(n, i - 1)

\* A leaf is merged with the one before it or, being the first, the one after.
MergedAt(i) == IF i > 1 THEN i - 1 ELSE i

\* Leaves i and i + 1 have the keys left and right, and right's first between.
Shared(n, i, left, right) ==
    [WithLeaf(WithLeaf(n, i, left), i + 1, right) EXCEPT !.keys[i] = Head(right)]

\* Mutant: the keys of the two leaves are swapped.
MutantMergedOrder(n, i) ==
    WithLeaf(Node(RemoveAt(n.keys, i), RemoveAt(n.kids, i + 1)),
             i, n.kids[i + 1].keys \o n.kids[i].keys)

\* Leaf i has the keys of itself and of leaf i + 1, which is gone.
Merged(n, i) ==
    WithLeaf(Node(RemoveAt(n.keys, i), RemoveAt(n.kids, i + 1)),
             i, n.kids[i].keys \o n.kids[i + 1].keys)

\* rebalanceLeaf: borrow from the right, from the left, or merge.
rebalanceLeaf(n, i) ==
    LET keys(j) == n.kids[j].keys IN
      CASE Lends(n, i + 1) ->
             Shared(n, i, Added(keys(i), Head(keys(i + 1))), Tail(keys(i + 1)))
        [] ~Lends(n, i + 1) /\ Lends(n, i - 1) ->
             Shared(n, i - 1, Front(keys(i - 1)), Added(keys(i), Last(keys(i - 1))))
        [] OTHER -> Merged(n, MergedAt(i))

\* What removeHelper makes of n.
Repaired(n, i) ==
    IF ~Kept(n, i) THEN rebalanceLeaf(n, i)
    ELSE IF i > 1 /\ n.kids[i].keys # <<>>
         THEN [n EXCEPT !.keys[i - 1] = Head(n.kids[i].keys)]
         ELSE n

rebuildTreeFromLeaves(t) ==
    LET keys == FlattenSeq(Leaves[t.root])
        upTo[k \in 0..Len(keys)] == IF k = 0 THEN EmptyTree ELSE add(upTo[k - 1], keys[k])
    IN  upTo[Len(keys)]

\* removeHelper below n, which is no leaf: what becomes of n, whether the leaf was
\* merged, and with the leaf before it, and whether that left its parent short.
Removal(n, v) ==
    LET from[m \in Parents] ==
          LET i      == findChild(m, v)
              parent == WithLeaf(m, i, RemoveFirst(m.kids[i].keys, v))
              now    == Repaired(parent, i)
              merges == Merges(parent, i)
              below  == from[m.kids[i]]
          IN  IF IsLeaf(m.kids[i])
              THEN [node |-> now, merges |-> merges, before |-> i > 1,
                    short |-> merges /\ Len(now.keys) < getMinNodes]
              ELSE [below EXCEPT !.node = [m EXCEPT !.kids[i] = below.node]]
    IN  from[n]

\* removeHelper, for a key that is in the leaf it leads to.
removeHelper(t, v) ==
    LET there  == LeafFor(t.root, v)
        r      == Removal(t.root, v)
        atRoot == IsLeaf(t.root.kids[findChild(t.root, v)])
        chain  == IF r.merges
                  THEN ChainMerge(t, IF r.before THEN there.at - 1 ELSE there.at)
                  ELSE t
        whole  == [chain EXCEPT !.root = r.node]
    IN  IF IsLeaf(t.root) THEN [t EXCEPT !.root = Leaf(RemoveFirst(@.keys, v))]
        ELSE IF atRoot /\ r.merges /\ r.node.keys = <<>>
        THEN [chain EXCEPT !.root = Head(r.node.kids)]
        ELSE IF ~atRoot /\ r.short THEN rebuildTreeFromLeaves(whole)
        ELSE whole

collapseRootIfNeeded(n) ==
    LET from[m \in Nodes] == IF Len(m.kids) = 1 THEN from[Head(m.kids)] ELSE m
    IN  from[n]

\* The first key of the leftmost leaf of n.
FirstKey(n) == Head(Head(Leaves[n]))

refreshSeparators[n \in Nodes] ==
    IF IsLeaf(n) THEN n
    ELSE Node([i \in 1..(Len(n.kids) - 1) |-> FirstKey(n.kids[i + 1])],
              [i \in DOMAIN n.kids |-> refreshSeparators[n.kids[i]]])

\* refreshSeparators asks an empty leaf for its first key: LeafNode::at asserts.
RefreshAborts(n) == ~IsLeaf(n) /\ <<>> \in ToSet(Leaves[n])

-----------------------------------------------------------------------------
(***************************************************************************)
(* The calls that change the tree.  A remove that finds no key changes     *)
(* nothing.                                                                *)
(***************************************************************************)

tree == Tree(root, next, prev)

Become(t) == root' = t.root /\ next' = t.next /\ prev' = t.prev

Content == FlattenSeq(Leaves[root])

AddKey(v) ==
    /\ ~aborted
    /\ Len(Content) < MaxKeys
    /\ Become(add(tree, v))
    /\ UNCHANGED <<order, aborted>>

contains(v) == Contains(LeafFor(root, v).leaf.keys, v)

RemoveKey(v) ==
    /\ ~aborted
    /\ contains(v)
    /\ LET t   == removeHelper(tree, v)
           top == collapseRootIfNeeded(t.root)
       IN  /\ aborted' = RefreshAborts(top)
           /\ IF RefreshAborts(top)
              THEN UNCHANGED <<root, next, prev>>
              ELSE Become([t EXCEPT !.root = collapseRootIfNeeded(refreshSeparators[top])])
    /\ UNCHANGED order

Next == \E v \in Keys : AddKey(v) \/ RemoveKey(v)

Spec == Init /\ [][Next]_vars

-----------------------------------------------------------------------------
(***************************************************************************)
(* The calls that look into it.                                            *)
(***************************************************************************)

\* The position of the leaf getRange goes down to.
Descended(n, lo) ==
    LET from[m \in Nodes] ==
          IF IsLeaf(m) THEN 1
          ELSE LET i == getIndex(m, lo) IN LeavesBefore(m, i) + from[m.kids[i]]
    IN  from[n]

KeysAt(p) == Leaves[root][p]

\* Mutant: the scan starts at the leaf of the descent.
MutantShiftedLeft(p, lo) == p

\* To the left as long as the leaf before may have keys in the range.
ShiftedLeft(p, lo) ==
    LET from[q \in DOMAIN prev] ==
          IF \/ prev[q] = Null
             \/ KeysAt(prev[q]) = <<>>
             \/ Last(KeysAt(prev[q])) < lo
          THEN q
          ELSE from[prev[q]]
    IN  from[p]

\* The keys from lo to hi.
Within(keys, lo, hi) ==
    LET upTo[k \in 0..Len(keys)] ==
          IF k = 0 THEN <<>>
          ELSE IF lo <= keys[k] /\ keys[k] <= hi THEN Append(upTo[k - 1], keys[k])
          ELSE upTo[k - 1]
    IN  upTo[Len(keys)]

\* To the right until a key is behind the range.
Collected(p, lo, hi) ==
    LET from[q \in DOMAIN next] ==
          LET here == Within(KeysAt(q), lo, hi)
              done == \E k \in ToSet(KeysAt(q)) : k > hi
          IN  IF done \/ next[q] = Null THEN here ELSE here \o from[next[q]]
    IN  from[p]

getRange(lo, hi) ==
    IF lo > hi THEN <<>>
    ELSE Collected(ShiftedLeft(Descended(root, lo), lo), lo, hi)

-----------------------------------------------------------------------------
(***************************************************************************)
(* Properties.                                                             *)
(***************************************************************************)

\* The depths of the leaves below n.
Depths[n \in Nodes] ==
    IF IsLeaf(n) THEN {0} ELSE {d + 1 : d \in UNION {Depths[m] : m \in ToSet(n.kids)}}

\* The nodes of n, itself excluded.
Below[n \in Nodes] == ToSet(n.kids) \cup UNION {Below[m] : m \in ToSet(n.kids)}

TypeOK ==
    /\ order \in Orders
    /\ aborted \in BOOLEAN
    /\ root \in Nodes
    /\ Len(next) = Len(Leaves[root]) /\ Len(prev) = Len(next)

\* add and remove leave a valid B+ tree: all leaves are equally deep, no node is
\* full, and none but the root has fewer keys than getMinNodes.
TreeIsBalanced ==
    /\ \A d, e \in Depths[root] : d = e
    /\ Len(root.keys) < order
    /\ \A n \in Below[root] : Len(n.keys) \in getMinNodes..(order - 1)

\* Every separator is the first key of the subtree on its right, whichever keys
\* were borrowed, merged, split or removed around it.
SeparatorsAreFirstKeys ==
    \A n \in Below[root] \cup {root} :
        ~IsLeaf(n) =>
          \A i \in DOMAIN n.keys : n.keys[i] = FirstKey(n.kids[i + 1])

\* The chain leads through all leaves from left to right and back, and to no leaf
\* that a split, a merge or a rebuild has freed.
ChainLinksLeaves ==
    /\ next = [i \in DOMAIN next |-> IF i = Len(next) THEN Null ELSE i + 1]
    /\ prev = [i \in DOMAIN prev |-> i - 1]

\* Each call adds or removes the one key it is given, and the leaves stay in
\* order; a remove that repairs, merges or rebuilds loses and doubles none.
CallsChangeOneKey ==
    [][\A v \in Keys : /\ AddKey(v) => Content' = Added(Content, v)
                       /\ RemoveKey(v) /\ ~aborted' => Content' = RemoveFirst(Content, v)]_vars

\* contains finds each key that was added and not removed, and no other: also
\* when it is a separator, or is in several leaves.
ContainsFindsKeys == \A v \in Keys : contains(v) <=> v \in ToSet(Content)

\* getRange returns the keys of the range with their repetitions, in order.
RangesAreExact ==
    \A lo, hi \in Keys :
        getRange(lo, hi) = Within(Content, lo, hi)

\* No assertion fails (comment of add: "order_ is a valid B+ tree order greater
\* than 1"; of remove: "The tree is normalized before returning").
NeverAborts == ~aborted

=============================================================================
