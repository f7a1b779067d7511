---------------------------- MODULE LRUReplacer ----------------------------
(***************************************************************************)
(* LRUReplacer: a doubly linked list between two sentinel nodes and a map  *)
(* from frame identifiers to their nodes.                                  *)
(*                                                                         *)
(* map_ is consulted before a Node is allocated, so a frame has at most    *)
(* one live node and the node is named here by its key_.  A freed node has *)
(* Null links: following one would take the list out of its type.          *)
(*                                                                         *)
(* order is a history variable: the order the calls ask for.  No action    *)
(* reads it.                                                               *)
(***************************************************************************)
EXTENDS RecencyList

CONSTANTS Frames, NoFrame, DummyStart, DummyEnd, Null

Sentinels == {DummyStart, DummyEnd}
Nodes == Frames \cup Sentinels

ASSUME NodesAssumption ==
    /\ DummyStart # DummyEnd
    /\ Sentinels \cap Frames = {}
    /\ Null \notin Nodes
    /\ NoFrame \notin Frames

VARIABLES next,      \* Node::next_ of every node
          prev,      \* Node::prev_ of every node
          map,       \* the keys of map_
          victimOut, \* what the last call of victim() stored in *frame_id
          order      \* history: the frames in the order of their last unpin

vars == <<next, prev, map, victimOut, order>>

Init ==
    /\ next = [n \in Nodes |-> IF n = DummyStart THEN DummyEnd ELSE Null]
    /\ prev = [n \in Nodes |-> IF n = DummyEnd THEN DummyStart ELSE Null]
    /\ map = {}
    /\ victimOut = NoFrame
    /\ order = <<>>

\* Mutant: deleteNode joins the neighbours in one direction only.
MutantPrevWithout(n) == [prev EXCEPT ![n] = Null]

\* deleteNode(n), then delete n: its neighbours are joined, its links are gone.
NextWithout(n) == [next EXCEPT ![prev[n]] = next[n], ![n] = Null]
PrevWithout(n) == [prev EXCEPT ![next[n]] = prev[n], ![n] = Null]

\* addToBack(n), on the links nx and pv.
NextWithLast(nx, pv, n) == [nx EXCEPT ![pv[DummyEnd]] = n, ![n] = DummyEnd]
PrevWithLast(pv, n) == [pv EXCEPT ![n] = pv[DummyEnd], ![DummyEnd] = n]

\* Mutants: the node behind the first one is taken; the last one is taken.
MutantVictimSecond ==
    /\ map # {}
    /\ LET lruFrame == next[next[DummyStart]] IN
         /\ next' = NextWithout(lruFrame)
         /\ prev' = PrevWithout(lruFrame)
         /\ map' = map \ {lruFrame}
         /\ victimOut' = lruFrame
    /\ order' = Tail(order)
MutantVictimLast ==
    /\ map # {}
    /\ LET lruFrame == prev[DummyEnd] IN
         /\ next' = NextWithout(lruFrame)
         /\ prev' = PrevWithout(lruFrame)
         /\ map' = map \ {lruFrame}
         /\ victimOut' = lruFrame
    /\ order' = Tail(order)

\* victim() with map_ empty returns false and changes nothing: no step.
Victim ==
    /\ map # {}
    /\ LET lruFrame == next[DummyStart] IN
         /\ next' = NextWithout(lruFrame)
         /\ prev' = PrevWithout(lruFrame)
         /\ map' = map \ {lruFrame}
         /\ victimOut' = lruFrame
    /\ order' = Tail(order)

PinPresent(f) ==
    /\ f \in map
    /\ next' = NextWithout(f)
    /\ prev' = PrevWithout(f)
    /\ map' = map \ {f}
    /\ victimOut' = NoFrame
    /\ order' = Without(order, f)

PinAbsent(f) ==
    /\ f \notin map
    /\ victimOut' = NoFrame
    /\ UNCHANGED <<next, prev, map, order>>

UnpinAbsent(f) ==
    /\ f \notin map
    /\ next' = NextWithLast(next, prev, f)
    /\ prev' = PrevWithLast(prev, f)
    /\ map' = map \cup {f}
    /\ victimOut' = NoFrame
    /\ order' = Append(order, f)

\* The node is unlinked and linked again at the back; it is not reallocated.
UnpinPresent(f) ==
    /\ f \in map
    /\ next' = NextWithLast(NextWithout(f), PrevWithout(f), f)
    /\ prev' = PrevWithLast(PrevWithout(f), f)
    /\ victimOut' = NoFrame
    /\ order' = Touched(order, f)
    /\ UNCHANGED map

Next ==
    \/ Victim
    \/ \E f \in Frames : \/ PinPresent(f)
                         \/ PinAbsent(f)
                         \/ UnpinAbsent(f)
                         \/ UnpinPresent(f)

Spec == Init /\ [][Next]_vars

-----------------------------------------------------------------------------
(***************************************************************************)
(* Properties.                                                             *)
(***************************************************************************)

\* The i-th node after DummyStart along the next_ links.
NodeAt[i \in 0..Cardinality(map)] ==
    IF i = 0 THEN DummyStart ELSE next[NodeAt[i - 1]]

\* The list as victim() walks it, one node for each key of map_.
Walk == [i \in 1..Cardinality(map) |-> NodeAt[i]]

TypeOK ==
    /\ next \in [Nodes -> Nodes \cup {Null}]
    /\ prev \in [Nodes -> Nodes \cup {Null}]
    /\ map \in SUBSET Frames
    /\ victimOut \in Frames \cup {NoFrame}
    /\ order \in Seq(Frames)

\* The two chains of links and the map stand for one and the same order, the
\* one the calls asked for: no call of victim/pin/unpin, in any sequence, drops
\* a node, leaves one behind, or joins the wrong neighbours in one direction.
LinksMatchOrder ==
    LET chain == <<DummyStart>> \o order \o <<DummyEnd>> IN
      /\ NoRepetition(order)
      /\ ToSet(order) = map
      /\ \A i \in 1..(Len(chain) - 1) : /\ next[chain[i]] = chain[i + 1]
                                        /\ prev[chain[i + 1]] = chain[i]

\* The list implements the replacer the buffer pool relies on: read off the
\* next_ links, its order and the frames victim() hands out are Replacer's.
Abstract == INSTANCE Replacer WITH lru <- Walk
ImplementsReplacer == Abstract!Spec

=============================================================================
