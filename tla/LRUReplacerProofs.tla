------------------------- MODULE LRUReplacerProofs -------------------------
(***************************************************************************)
(* Proofs about LRUReplacer, for every set of frames.                      *)
(*                                                                         *)
(*   1. TypeCorrect, LinksCorrect: no call, in any sequence, takes the     *)
(*      links out of their type or apart from the order the calls ask for. *)
(*   2. ReplacerImplemented: the list read off its links is the abstract   *)
(*      replacer.                                                          *)
(*                                                                         *)
(* LinksMatchOrder is inductive together with the types: it fixes every    *)
(* link an operation reads.                                                *)
(***************************************************************************)
EXTENDS LRUReplacer, RecencyListProofs, FiniteSetTheorems, WellFoundedInduction

\* The nodes of a list that stands for q, sentinels included.
Chain(q) == <<DummyStart>> \o q \o <<DummyEnd>>

\* The links nx and pv join the nodes of Chain(q), in both directions.
Linked(nx, pv, q) ==
    \A i \in 1..(Len(q) + 1) : /\ nx[Chain(q)[i]] = Chain(q)[i + 1]
                               /\ pv[Chain(q)[i + 1]] = Chain(q)[i]

Links == [Nodes -> Nodes \cup {Null}]

-----------------------------------------------------------------------------
(***************************************************************************)
(* Chains.                                                                 *)
(***************************************************************************)

LEMMA ChainElements ==
    ASSUME NEW q \in Seq(Frames)
    PROVE  /\ Len(q) \in Nat
           /\ Len(Chain(q)) = Len(q) + 2
           /\ Chain(q)[1] = DummyStart
           /\ Chain(q)[Len(q) + 2] = DummyEnd
           /\ \A i \in 1..Len(q) : Chain(q)[i + 1] = q[i] /\ q[i] \in Frames
           /\ \A i \in 1..(Len(q) + 2) : Chain(q)[i] \in Nodes
<1> DEFINE front == <<DummyStart>> \o q
<1>1. q \in Seq(Nodes) /\ DummyStart \in Nodes /\ DummyEnd \in Nodes
  BY DEF Nodes, Sentinels
<1>2. /\ Len(q) \in Nat /\ \A i \in 1..Len(q) : q[i] \in Frames
  OBVIOUS
<1>3. /\ front \in Seq(Nodes) /\ Len(front) = Len(q) + 1
      /\ front[1] = DummyStart
      /\ \A i \in 1..Len(q) : front[i + 1] = q[i]
  BY <1>1
<1>4. Chain(q) = front \o <<DummyEnd>>
  BY DEF Chain
<1> HIDE DEF front
<1>5. /\ Chain(q) \in Seq(Nodes)
      /\ Len(Chain(q)) = Len(front) + 1
      /\ Chain(q)[Len(front) + 1] = DummyEnd
      /\ \A i \in 1..Len(front) : Chain(q)[i] = front[i]
  BY <1>1, <1>3, <1>4
<1>6. \A i \in 1..(Len(q) + 2) : Chain(q)[i] \in Nodes
  BY <1>2, <1>3, <1>5
<1>7. \A i \in 1..Len(q) : Chain(q)[i + 1] = q[i]
  BY <1>2, <1>3, <1>5
<1>8. Chain(q)[1] = DummyStart
  BY <1>2, <1>3, <1>5
<1> QED BY <1>2, <1>3, <1>5, <1>6, <1>7, <1>8

\* No node occurs twice.
LEMMA ChainDistinct ==
    ASSUME NEW q \in Seq(Frames), NoRepetition(q),
           NEW i \in 1..(Len(q) + 2), NEW j \in 1..(Len(q) + 2),
           Chain(q)[i] = Chain(q)[j]
    PROVE  i = j
<1>1. /\ Len(q) \in Nat
      /\ Chain(q)[1] = DummyStart /\ Chain(q)[Len(q) + 2] = DummyEnd
      /\ \A k \in 1..Len(q) : Chain(q)[k + 1] = q[k] /\ q[k] \in Frames
  BY ChainElements
<1>2. /\ \A k \in 1..Len(q) : q[k] # DummyStart /\ q[k] # DummyEnd
      /\ DummyStart # DummyEnd
  BY <1>1, NodesAssumption DEF Sentinels
<1>3. ASSUME NEW k \in 1..(Len(q) + 2), k # 1, k # Len(q) + 2
      PROVE  k - 1 \in 1..Len(q) /\ Chain(q)[k] = q[k - 1]
  <2>1. k - 1 \in 1..Len(q)
    BY <1>1, <1>3
  <2>2. (k - 1) + 1 = k
    BY <1>1
  <2> QED BY <1>1, <2>1, <2>2
<1>4. CASE i = 1 \/ j = 1
  BY <1>1, <1>2, <1>3, <1>4
<1>5. CASE i = Len(q) + 2 \/ j = Len(q) + 2
  BY <1>1, <1>2, <1>3, <1>5
<1>6. CASE i \notin {1, Len(q) + 2} /\ j \notin {1, Len(q) + 2}
  <2>1. q[i - 1] = q[j - 1] /\ i - 1 \in 1..Len(q) /\ j - 1 \in 1..Len(q)
    BY <1>3, <1>6
  <2>2. i - 1 = j - 1
    BY <2>1 DEF NoRepetition
  <2> QED BY <1>1, <2>2
<1> QED BY <1>4, <1>5, <1>6

\* r is q without its element at place n.
IsWithout(r, q, n) ==
    /\ r \in Seq(Frames) /\ Len(r) = Len(q) - 1
    /\ \A i \in 1..(Len(q) - 1) : r[i] = IF i < n THEN q[i] ELSE q[i + 1]

\* Its chain is that of q without the node of that element.
LEMMA ChainWithout ==
    ASSUME NEW q \in Seq(Frames), NEW n \in 1..Len(q), NEW r, IsWithout(r, q, n)
    PROVE  \A i \in 1..(Len(q) + 1) :
             Chain(r)[i] = IF i <= n THEN Chain(q)[i] ELSE Chain(q)[i + 1]
<1>1. /\ Len(q) \in Nat /\ n \in Nat /\ Len(r) = Len(q) - 1
      /\ Chain(q)[1] = DummyStart /\ Chain(q)[Len(q) + 2] = DummyEnd
      /\ \A k \in 1..Len(q) : Chain(q)[k + 1] = q[k]
  BY ChainElements DEF IsWithout
<1>2. /\ Chain(r)[1] = DummyStart /\ Chain(r)[Len(q) + 1] = DummyEnd
      /\ \A k \in 1..(Len(q) - 1) : Chain(r)[k + 1] = r[k]
  BY <1>1, ChainElements DEF IsWithout
<1>3. ASSUME NEW i \in 1..(Len(q) + 1)
      PROVE  Chain(r)[i] = IF i <= n THEN Chain(q)[i] ELSE Chain(q)[i + 1]
  <2>1. CASE i = 1
    BY <1>1, <1>2, <2>1
  <2>2. CASE i = Len(q) + 1
    BY <1>1, <1>2, <2>2
  <2>3. CASE i # 1 /\ i # Len(q) + 1
    <3>1. i - 1 \in 1..(Len(q) - 1) /\ i - 1 \in 1..Len(q) /\ (i - 1) + 1 = i
      BY <1>1, <2>3
    <3>2. Chain(r)[i] = r[i - 1] /\ Chain(q)[i] = q[i - 1]
      BY <1>1, <1>2, <3>1
    <3>3. r[i - 1] = IF i - 1 < n THEN q[i - 1] ELSE q[(i - 1) + 1]
      BY <3>1 DEF IsWithout
    <3>4. i \in 1..Len(q) /\ Chain(q)[i + 1] = q[i]
      BY <1>1, <2>3
    <3> QED BY <1>1, <3>1, <3>2, <3>3, <3>4
  <2> QED BY <2>1, <2>2, <2>3
<1> QED BY <1>3

\* What the links of the node at a place are, and that they are nodes.
LEMMA LinksOfNode ==
    ASSUME NEW nx, NEW pv, NEW q \in Seq(Frames), Linked(nx, pv, q),
           NEW n \in 1..Len(q)
    PROVE  /\ q[n] = Chain(q)[n + 1]
           /\ nx[q[n]] = Chain(q)[n + 2] /\ nx[q[n]] \in Nodes
           /\ pv[q[n]] = Chain(q)[n] /\ pv[q[n]] \in Nodes
<1>1. Len(q) \in Nat /\ n + 1 \in 1..(Len(q) + 1) /\ n \in 1..(Len(q) + 1)
  OBVIOUS
<1>2. q[n] = Chain(q)[n + 1] /\ (n + 1) + 1 = n + 2
  BY ChainElements
<1>3. nx[Chain(q)[n + 1]] = Chain(q)[n + 2] /\ pv[Chain(q)[n + 1]] = Chain(q)[n]
  BY <1>1, <1>2 DEF Linked
<1>4. Chain(q)[n + 2] \in Nodes /\ Chain(q)[n] \in Nodes
  BY <1>1, ChainElements
<1> QED BY <1>2, <1>3, <1>4

\* deleteNode leaves a list for the other elements.
LEMMA NodeRemoved ==
    ASSUME next \in Links, prev \in Links,
           NEW q \in Seq(Frames), NoRepetition(q), Linked(next, prev, q),
           NEW n \in 1..Len(q), NEW r, IsWithout(r, q, n)
    PROVE  /\ Linked(NextWithout(q[n]), PrevWithout(q[n]), r)
           /\ NextWithout(q[n]) \in Links /\ PrevWithout(q[n]) \in Links
<1> DEFINE f == q[n]
           nx == NextWithout(f)
           pv == PrevWithout(f)
<1>1. /\ Len(q) \in Nat /\ n \in Nat /\ Len(r) = Len(q) - 1
      /\ f \in Nodes /\ f = Chain(q)[n + 1]
      /\ next[f] = Chain(q)[n + 2] /\ next[f] \in Nodes
      /\ prev[f] = Chain(q)[n] /\ prev[f] \in Nodes
  BY LinksOfNode DEF IsWithout, Nodes
<1>2. /\ nx = [next EXCEPT ![prev[f]] = next[f], ![f] = Null]
      /\ pv = [prev EXCEPT ![next[f]] = prev[f], ![f] = Null]
  BY DEF NextWithout, PrevWithout
<1>3. \A i, j \in 1..(Len(q) + 2) : Chain(q)[i] = Chain(q)[j] => i = j
  BY ChainDistinct
<1>4. \A i \in 1..(Len(q) + 2) : Chain(q)[i] \in Nodes
  BY ChainElements
<1>5. \A i \in 1..(Len(q) + 1) :
        /\ Chain(r)[i] = IF i <= n THEN Chain(q)[i] ELSE Chain(q)[i + 1]
        /\ next[Chain(q)[i]] = Chain(q)[i + 1]
        /\ prev[Chain(q)[i + 1]] = Chain(q)[i]
  BY ChainWithout DEF Linked
<1>6. nx \in Links /\ pv \in Links
  BY <1>1, <1>2 DEF Links
<1> HIDE DEF f, nx, pv
<1>7. prev[f] # f /\ next[f] # f
  <2>1. n \in 1..(Len(q) + 2) /\ n + 1 \in 1..(Len(q) + 2) /\ n + 2 \in 1..(Len(q) + 2)
    BY <1>1
  <2>2. n # n + 1 /\ n + 2 # n + 1
    BY <1>1
  <2> QED BY <1>1, <1>3, <2>1, <2>2
<1>8. /\ nx[prev[f]] = next[f]
      /\ \A m \in Nodes \ {f, prev[f]} : nx[m] = next[m]
      /\ pv[next[f]] = prev[f]
      /\ \A m \in Nodes \ {f, next[f]} : pv[m] = prev[m]
  BY <1>1, <1>2, <1>7 DEF Links
<1>9. ASSUME NEW i \in 1..(Len(r) + 1)
      PROVE  nx[Chain(r)[i]] = Chain(r)[i + 1] /\ pv[Chain(r)[i + 1]] = Chain(r)[i]
  <2>1. /\ i \in 1..(Len(q) + 1) /\ i + 1 \in 1..(Len(q) + 1)
        /\ i \in 1..(Len(q) + 2) /\ i + 1 \in 1..(Len(q) + 2)
        /\ i + 2 \in 1..(Len(q) + 2)
        /\ n \in 1..(Len(q) + 2) /\ n + 1 \in 1..(Len(q) + 2)
        /\ n + 2 \in 1..(Len(q) + 2)
        /\ (i + 1) + 1 = i + 2
    BY <1>1
  <2>2. CASE i < n
    <3>1. Chain(r)[i] = Chain(q)[i] /\ Chain(r)[i + 1] = Chain(q)[i + 1]
      BY <1>1, <1>5, <2>1, <2>2
    <3>2. Chain(q)[i] \notin {f, prev[f]} /\ Chain(q)[i + 1] \notin {f, next[f]}
      <4>1. i # n /\ i # n + 1 /\ i + 1 # n + 1 /\ i + 1 # n + 2
        BY <1>1, <2>2
      <4> QED BY <1>1, <1>3, <2>1, <4>1
    <3> QED BY <1>4, <1>5, <1>8, <2>1, <3>1, <3>2
  <2>3. CASE i = n
    <3>1. Chain(r)[i] = Chain(q)[n] /\ Chain(r)[i + 1] = Chain(q)[n + 2]
      BY <1>1, <1>5, <2>1, <2>3
    <3> QED BY <1>1, <1>8, <3>1
  <2>4. CASE i > n
    <3>1. Chain(r)[i] = Chain(q)[i + 1] /\ Chain(r)[i + 1] = Chain(q)[i + 2]
      BY <1>1, <1>5, <2>1, <2>4
    <3>2. Chain(q)[i + 1] \notin {f, prev[f]} /\ Chain(q)[i + 2] \notin {f, next[f]}
      <4>1. i + 1 # n /\ i + 1 # n + 1 /\ i + 2 # n + 1 /\ i + 2 # n + 2
        BY <1>1, <2>4
      <4> QED BY <1>1, <1>3, <2>1, <4>1
    <3> QED BY <1>4, <1>5, <1>8, <2>1, <3>1, <3>2
  <2> QED BY <1>1, <2>1, <2>2, <2>3, <2>4
<1> QED BY <1>6, <1>9 DEF Linked, f, nx, pv

\* addToBack makes a new node the last one.
LEMMA NodeAppended ==
    ASSUME NEW nx \in Links, NEW pv \in Links,
           NEW q \in Seq(Frames), NoRepetition(q), Linked(nx, pv, q),
           NEW f \in Frames, f \notin ToSet(q)
    PROVE  /\ Linked(NextWithLast(nx, pv, f), PrevWithLast(pv, f), Append(q, f))
           /\ NextWithLast(nx, pv, f) \in Links /\ PrevWithLast(pv, f) \in Links
<1> DEFINE n == Len(q)
           r == Append(q, f)
           last == pv[DummyEnd]
           nx2 == NextWithLast(nx, pv, f)
           pv2 == PrevWithLast(pv, f)
<1>1. /\ n \in Nat /\ Chain(q)[1] = DummyStart /\ Chain(q)[n + 2] = DummyEnd
      /\ \A k \in 1..n : Chain(q)[k + 1] = q[k] /\ q[k] \in Frames
      /\ \A i \in 1..(n + 2) : Chain(q)[i] \in Nodes
  BY ChainElements
<1>2. /\ r \in Seq(Frames) /\ Len(r) = n + 1 /\ r[n + 1] = f
      /\ \A k \in 1..n : r[k] = q[k]
  OBVIOUS
<1>3. /\ Chain(r)[1] = DummyStart /\ Chain(r)[n + 3] = DummyEnd
      /\ \A k \in 1..(n + 1) : Chain(r)[k + 1] = r[k]
  <2> HIDE DEF n, r
  <2>1. /\ Chain(r)[1] = DummyStart /\ Chain(r)[Len(r) + 2] = DummyEnd
        /\ \A k \in 1..Len(r) : Chain(r)[k + 1] = r[k]
    BY <1>2, ChainElements
  <2>2. Len(r) + 2 = n + 3
    BY <1>1, <1>2
  <2> QED BY <1>2, <2>1, <2>2
<1>4. last = Chain(q)[n + 1] /\ last \in Nodes
  <2>1. n + 1 \in 1..(n + 1) /\ n + 1 \in 1..(n + 2) /\ (n + 1) + 1 = n + 2
    BY <1>1
  <2> QED BY <1>1, <2>1 DEF Linked
<1>5. f \in Nodes /\ DummyEnd \in Nodes /\ f # DummyEnd /\ f # DummyStart
  BY NodesAssumption DEF Nodes, Sentinels
<1>6. nx2 = [nx EXCEPT ![last] = f, ![f] = DummyEnd]
  BY DEF NextWithLast
<1>7. pv2 = [pv EXCEPT ![f] = last, ![DummyEnd] = f]
  BY DEF PrevWithLast
<1>8. nx2 \in Links /\ pv2 \in Links
  BY <1>4, <1>5, <1>6, <1>7 DEF Links
<1>9. \A i \in 1..(n + 2) : Chain(q)[i] # f
  <2>1. \A k \in 1..n : q[k] # f
    BY DEF ToSet
  <2>2. ASSUME NEW i \in 1..(n + 2), i # 1, i # n + 2
        PROVE  Chain(q)[i] # f
    <3>1. i - 1 \in 1..n /\ (i - 1) + 1 = i
      BY <1>1, <2>2
    <3> QED BY <1>1, <2>1, <3>1
  <2> QED BY <1>1, <1>5, <2>2
<1>10. \A i, j \in 1..(n + 2) : Chain(q)[i] = Chain(q)[j] => i = j
  BY ChainDistinct
<1>11. \A i \in 1..(n + 1) : Chain(r)[i] = Chain(q)[i]
  <2>1. ASSUME NEW i \in 1..(n + 1), i # 1
        PROVE  Chain(r)[i] = Chain(q)[i]
    <3>1. i - 1 \in 1..n /\ (i - 1) + 1 = i /\ i - 1 \in 1..(n + 1)
      BY <1>1, <2>1
    <3> QED BY <1>1, <1>2, <1>3, <3>1
  <2> QED BY <1>1, <1>3, <2>1
<1>12. Chain(r)[n + 2] = f
  <2>1. n + 1 \in 1..(n + 1) /\ (n + 1) + 1 = n + 2
    BY <1>1
  <2> QED BY <1>2, <1>3, <2>1
<1>13. \A i \in 1..(n + 1) : nx[Chain(q)[i]] = Chain(q)[i + 1]
                             /\ pv[Chain(q)[i + 1]] = Chain(q)[i]
  BY DEF Linked
<1> HIDE DEF n, r, last, nx2, pv2
<1>14. last # f
  BY <1>1, <1>4, <1>9
<1>15. /\ nx2[last] = f /\ nx2[f] = DummyEnd
       /\ \A m \in Nodes \ {last, f} : nx2[m] = nx[m]
       /\ pv2[f] = last /\ pv2[DummyEnd] = f
       /\ \A m \in Nodes \ {f, DummyEnd} : pv2[m] = pv[m]
  BY <1>4, <1>5, <1>6, <1>7, <1>14 DEF Links
<1>16. ASSUME NEW i \in 1..(n + 2)
       PROVE  nx2[Chain(r)[i]] = Chain(r)[i + 1] /\ pv2[Chain(r)[i + 1]] = Chain(r)[i]
  <2>1. CASE i <= n
    <3>1. /\ i \in 1..(n + 1) /\ i + 1 \in 1..(n + 1)
          /\ i \in 1..(n + 2) /\ i + 1 \in 1..(n + 2)
          /\ n + 1 \in 1..(n + 2) /\ n + 2 \in 1..(n + 2)
          /\ i # n + 1 /\ i + 1 # n + 2
      BY <1>1, <2>1
    <3>2. Chain(q)[i] \in Nodes \ {last, f} /\ Chain(q)[i + 1] \in Nodes \ {f, DummyEnd}
      BY <1>1, <1>4, <1>9, <1>10, <3>1
    <3> QED BY <1>11, <1>13, <1>15, <3>1, <3>2
  <2>2. CASE i = n + 1
    <3>1. n + 1 \in 1..(n + 1) /\ i + 1 = n + 2
      BY <1>1, <2>2
    <3>2. Chain(r)[i] = last /\ Chain(r)[i + 1] = f
      BY <1>4, <1>11, <1>12, <2>2, <3>1
    <3> QED BY <1>15, <3>2
  <2>3. CASE i = n + 2
    <3>1. i + 1 = n + 3
      BY <1>1, <2>3
    <3>2. Chain(r)[i] = f /\ Chain(r)[i + 1] = DummyEnd
      BY <1>3, <1>12, <2>3, <3>1
    <3> QED BY <1>15, <3>2
  <2> QED BY <1>1, <2>1, <2>2, <2>3
<1>17. Len(r) + 1 = n + 2
  BY <1>1, <1>2
<1> QED BY <1>8, <1>16, <1>17 DEF Linked, r, nx2, pv2

-----------------------------------------------------------------------------
(***************************************************************************)
(* 1. The types and the links.                                             *)
(***************************************************************************)

Inv == TypeOK /\ LinksMatchOrder

\* LinksMatchOrder says that the links are those of order.
ListInv ==
    /\ next \in Links /\ prev \in Links
    /\ map \in SUBSET Frames
    /\ victimOut \in Frames \cup {NoFrame}
    /\ order \in Seq(Frames)
    /\ NoRepetition(order) /\ ToSet(order) = map
    /\ Linked(next, prev, order)

LEMMA InvMeansLinked == Inv <=> ListInv
<1>1. ASSUME order \in Seq(Frames)
      PROVE  Len(Chain(order)) - 1 = Len(order) + 1
  <2>1. Len(order) \in Nat /\ Len(Chain(order)) = Len(order) + 2
    BY <1>1, ChainElements
  <2> QED BY <2>1
<1> QED BY <1>1 DEF Inv, ListInv, TypeOK, LinksMatchOrder, Linked, Links, Chain

\* The first node after DummyStart is that of the head of order.
LEMMA FirstNode ==
    ASSUME Inv, map # {}
    PROVE  /\ order # <<>> /\ 1 \in 1..Len(order)
           /\ next[DummyStart] = Head(order) /\ Head(order) = order[1]
           /\ IsWithout(Tail(order), order, 1)
           /\ Head(order) \in Frames
           /\ NoRepetition(Tail(order))
           /\ ToSet(Tail(order)) = map \ {Head(order)}
<1>1. /\ order \in Seq(Frames) /\ ToSet(order) = map /\ NoRepetition(order)
      /\ Linked(next, prev, order)
  BY InvMeansLinked DEF ListInv
<1>2. order # <<>> /\ Len(order) \in Nat /\ 1 \in 1..Len(order)
  BY <1>1 DEF ToSet
<1>3. Head(order) = order[1] /\ Head(order) \in Frames
  BY <1>1, <1>2
<1>4. next[DummyStart] = order[1]
  <2>1. 1 \in 1..(Len(order) + 1) /\ 1 + 1 = 2
    BY <1>2
  <2>2. next[Chain(order)[1]] = Chain(order)[2]
    BY <1>1, <2>1 DEF Linked
  <2> QED BY <1>1, <1>2, <2>1, <2>2, ChainElements
<1>5. IsWithout(Tail(order), order, 1)
  BY <1>1, <1>2 DEF IsWithout
<1> QED BY <1>1, <1>2, <1>3, <1>4, <1>5, TailProperties

\* A frame of the map has a place in order.
LEMMA FrameHasPlace ==
    ASSUME Inv, NEW f \in map
    PROVE  \E n \in 1..Len(order) :
             order[n] = f /\ IsWithout(Without(order, f), order, n)
<1>1. order \in Seq(Frames) /\ f \in ToSet(order)
  BY InvMeansLinked DEF ListInv
<1> DEFINE n == Position(order, f)
<1>2. n \in 1..Len(order) /\ order[n] = f
  BY <1>1, PositionIsPlace
<1>3. Without(order, f) = RemoveAt(order, n)
  BY <1>1 DEF Without
<1> HIDE DEF n
<1>4. IsWithout(Without(order, f), order, n)
  BY <1>1, <1>2, <1>3, RemoveAtElements DEF IsWithout
<1> QED BY <1>2, <1>4

LEMMA InitInv == Init => Inv
<1> SUFFICES ASSUME Init PROVE Inv
  OBVIOUS
<1>1. order \in Seq(Frames) /\ Len(order) = 0
  <2>1. <<>> \in Seq(Frames)
    OBVIOUS
  <2> QED BY <2>1 DEF Init
<1>2. next \in Links /\ prev \in Links
  BY DEF Init, Links, Nodes, Sentinels
<1>3. NoRepetition(order) /\ ToSet(order) = {}
  BY DEF Init, NoRepetition, ToSet
<1>4. Linked(next, prev, order)
  <2>1. Chain(order)[1] = DummyStart /\ Chain(order)[2] = DummyEnd
    <3>1. Len(order) + 2 = 2
      BY <1>1
    <3> QED BY <1>1, <3>1, ChainElements
  <2>2. next[DummyStart] = DummyEnd /\ prev[DummyEnd] = DummyStart
    BY DEF Init, Nodes, Sentinels
  <2>3. \A i \in 1..(Len(order) + 1) : i = 1 /\ i + 1 = 2
    BY <1>1
  <2> QED BY <2>1, <2>2, <2>3 DEF Linked
<1> QED BY <1>1, <1>2, <1>3, <1>4, InvMeansLinked DEF Init, ListInv

LEMMA NextInv == Inv /\ [Next]_vars => Inv'
<1> SUFFICES ASSUME Inv, [Next]_vars PROVE Inv'
  OBVIOUS
<1>1. SUFFICES ListInv'
  BY InvMeansLinked, PTL
<1>2. /\ next \in Links /\ prev \in Links /\ map \in SUBSET Frames
      /\ victimOut \in Frames \cup {NoFrame}
      /\ order \in Seq(Frames) /\ NoRepetition(order) /\ ToSet(order) = map
      /\ Linked(next, prev, order)
  BY InvMeansLinked DEF ListInv
<1>3. CASE Victim
  <2>1. /\ order # <<>> /\ 1 \in 1..Len(order)
        /\ next[DummyStart] = order[1] /\ order[1] \in Frames
        /\ IsWithout(Tail(order), order, 1)
        /\ NoRepetition(Tail(order))
        /\ ToSet(Tail(order)) = map \ {order[1]}
    BY <1>3, FirstNode DEF Victim
  <2>2. /\ Linked(NextWithout(order[1]), PrevWithout(order[1]), Tail(order))
        /\ NextWithout(order[1]) \in Links /\ PrevWithout(order[1]) \in Links
    BY <1>2, <2>1, NodeRemoved
  <2> QED BY <1>2, <1>3, <2>1, <2>2 DEF Victim, IsWithout, ListInv
<1>4. ASSUME NEW f \in Frames, PinPresent(f) PROVE ListInv'
  <2>1. f \in map
    BY <1>4 DEF PinPresent
  <2>2. PICK n \in 1..Len(order) :
          order[n] = f /\ IsWithout(Without(order, f), order, n)
    BY <2>1, FrameHasPlace
  <2>3. /\ Linked(NextWithout(f), PrevWithout(f), Without(order, f))
        /\ NextWithout(f) \in Links /\ PrevWithout(f) \in Links
    BY <1>2, <2>2, NodeRemoved
  <2>4. /\ Without(order, f) \in Seq(Frames) /\ NoRepetition(Without(order, f))
        /\ ToSet(Without(order, f)) = map \ {f}
    BY <1>2, WithoutProperties
  <2> QED BY <1>2, <1>4, <2>3, <2>4 DEF PinPresent, ListInv
<1>5. ASSUME NEW f \in Frames, PinAbsent(f) PROVE ListInv'
  BY <1>2, <1>5 DEF PinAbsent, ListInv
<1>6. ASSUME NEW f \in Frames, UnpinAbsent(f) PROVE ListInv'
  <2>1. f \notin ToSet(order)
    BY <1>2, <1>6 DEF UnpinAbsent
  <2>2. /\ Linked(NextWithLast(next, prev, f), PrevWithLast(prev, f), Append(order, f))
        /\ NextWithLast(next, prev, f) \in Links /\ PrevWithLast(prev, f) \in Links
    BY <1>2, <2>1, NodeAppended
  <2>3. Touched(order, f) = Append(order, f)
    BY <2>1 DEF Touched, Without
  <2>4. /\ Touched(order, f) \in Seq(Frames) /\ NoRepetition(Touched(order, f))
        /\ ToSet(Touched(order, f)) = map \cup {f}
    BY <1>2, TouchedProperties
  <2> QED BY <1>2, <1>6, <2>2, <2>3, <2>4 DEF UnpinAbsent, ListInv
<1>7. ASSUME NEW f \in Frames, UnpinPresent(f) PROVE ListInv'
  <2>1. f \in map
    BY <1>7 DEF UnpinPresent
  <2>2. PICK n \in 1..Len(order) :
          order[n] = f /\ IsWithout(Without(order, f), order, n)
    BY <2>1, FrameHasPlace
  <2>3. /\ Linked(NextWithout(f), PrevWithout(f), Without(order, f))
        /\ NextWithout(f) \in Links /\ PrevWithout(f) \in Links
    BY <1>2, <2>2, NodeRemoved
  <2>4. /\ Without(order, f) \in Seq(Frames) /\ NoRepetition(Without(order, f))
        /\ ToSet(Without(order, f)) = map \ {f}
    BY <1>2, WithoutProperties
  <2> DEFINE nx == NextWithout(f)
             pv == PrevWithout(f)
             q == Without(order, f)
  <2>5. f \notin ToSet(q)
    BY <2>4
  <2>6. Touched(order, f) = Append(q, f)
    BY DEF Touched
  <2>7. /\ Touched(order, f) \in Seq(Frames) /\ NoRepetition(Touched(order, f))
        /\ ToSet(Touched(order, f)) = map \cup {f}
    BY <1>2, TouchedProperties
  <2>8. /\ next' = NextWithLast(nx, pv, f) /\ prev' = PrevWithLast(pv, f)
        /\ order' = Append(q, f) /\ map' = map /\ victimOut' = NoFrame
    BY <1>7, <2>6 DEF UnpinPresent
  <2> HIDE DEF nx, pv, q
  <2>9. nx \in Links /\ pv \in Links /\ Linked(nx, pv, q) /\ q \in Seq(Frames)
        /\ NoRepetition(q)
    BY <2>3, <2>4 DEF nx, pv, q
  <2>10. /\ Linked(next', prev', order') /\ next' \in Links /\ prev' \in Links
    BY <2>5, <2>8, <2>9, NodeAppended
  <2> QED BY <1>2, <2>1, <2>6, <2>7, <2>8, <2>10 DEF ListInv
<1>8. CASE UNCHANGED vars
  BY <1>2, <1>8 DEF vars, ListInv
<1> QED BY <1>3, <1>4, <1>5, <1>6, <1>7, <1>8 DEF Next

LEMMA Invariant == Spec => []Inv
BY InitInv, NextInv, PTL DEF Spec

\* Every link leads to a node or nowhere: no operation of the replacer follows a
\* link of a node that has been deleted.
THEOREM TypeCorrect == Spec => []TypeOK
BY Invariant, PTL DEF Inv

\* For any number of frames, after any calls, both chains of links run through
\* the frames of map_ in the order in which they were last unpinned.
THEOREM LinksCorrect == Spec => []LinksMatchOrder
BY Invariant, PTL DEF Inv

-----------------------------------------------------------------------------
(***************************************************************************)
(* 2. The refinement.                                                      *)
(***************************************************************************)

\* Induction, on a set of numbers rather than a predicate.
LEMMA SetInduction ==
    ASSUME NEW S, 0 \in S, \A n \in Nat : n \in S => n + 1 \in S
    PROVE  Nat \subseteq S
<1> DEFINE T == Nat \ S
<1>1. SUFFICES ASSUME T # {} PROVE FALSE
  OBVIOUS
<1>2. PICK x \in T : \A y \in T : ~ (<<y, x>> \in OpToRel(<, Nat))
  <2>1. T \subseteq Nat
    OBVIOUS
  <2>2. IsWellFoundedOn(OpToRel(<, Nat), Nat)
    BY NatLessThanWellFounded
  <2> HIDE DEF T
  <2> QED BY <1>1, <2>1, <2>2, WFMin
<1>3. \A y \in T : ~(y < x)
  BY <1>2 DEF OpToRel
<1>4. x # 0 /\ x \in Nat /\ x \notin S
  OBVIOUS
<1>5. x - 1 \in Nat /\ x - 1 \in S
  BY <1>3, <1>4
<1> QED BY <1>4, <1>5

\* order holds each key of the map once.
LEMMA OneElementPerKey ==
    ASSUME Inv
    PROVE  Cardinality(map) = Len(order)
<1>1. /\ order \in Seq(Frames) /\ ToSet(order) = map /\ NoRepetition(order)
      /\ Len(order) \in Nat
  BY InvMeansLinked DEF ListInv
<1>2. order \in [1..Len(order) -> map]
  BY <1>1 DEF ToSet
<1>3. order \in Surjection(1..Len(order), map)
  BY <1>1, <1>2 DEF Surjection, ToSet
<1>4. order \in Injection(1..Len(order), map)
  BY <1>1, <1>2 DEF Injection, IsInjective, NoRepetition
<1>5. ExistsBijection(1..Len(order), map)
  BY <1>3, <1>4 DEF ExistsBijection, Bijection
<1> QED BY <1>1, <1>5, FS_CountingElements

\* The equation that defines NodeAt has a solution: the nodes of the chain.
LEMMA NodeAtDef ==
    ASSUME Inv
    PROVE  NodeAt = [i \in 0..Len(order) |->
                       IF i = 0 THEN DummyStart ELSE next[NodeAt[i - 1]]]
<1> DEFINE n == Len(order)
           places == 0..Cardinality(map)
           h == [i \in places |-> Chain(order)[i + 1]]
<1>1. n \in Nat /\ Cardinality(map) = n /\ order \in Seq(Frames)
  BY OneElementPerKey, InvMeansLinked DEF ListInv
<1>2. Chain(order)[1] = DummyStart
  BY <1>1, ChainElements
<1>3. \A i \in 1..(n + 1) : next[Chain(order)[i]] = Chain(order)[i + 1]
  BY InvMeansLinked DEF ListInv, Linked
<1>4. ASSUME NEW i \in places
      PROVE  h[i] = IF i = 0 THEN DummyStart ELSE next[h[i - 1]]
  <2>1. CASE i = 0
    <3>1. 0 + 1 = 1
      OBVIOUS
    <3> QED BY <1>2, <2>1, <3>1
  <2>2. CASE i # 0
    <3>1. i - 1 \in places /\ (i - 1) + 1 = i /\ i \in 1..(n + 1)
      BY <1>1, <2>2
    <3>2. h[i - 1] = Chain(order)[i] /\ h[i] = Chain(order)[i + 1]
      BY <3>1
    <3> QED BY <1>3, <2>2, <3>1, <3>2
  <2> QED BY <2>1, <2>2
<1>5. h = [i \in places |-> IF i = 0 THEN DummyStart ELSE next[h[i - 1]]]
  <2>1. h = [i \in places |-> h[i]]
    OBVIOUS
  <2> HIDE DEF h
  <2> QED BY <1>4, <2>1
<1>6. \E g : g = [i \in places |-> IF i = 0 THEN DummyStart ELSE next[g[i - 1]]]
  <2> HIDE DEF h
  <2> QED BY <1>5
<1>7. NodeAt = [i \in places |-> IF i = 0 THEN DummyStart ELSE next[NodeAt[i - 1]]]
  BY <1>6, Zenon DEF NodeAt
<1> QED BY <1>1, <1>7

\* The nodes victim() walks through stand for order.
LEMMA WalkIsOrder == Inv => Walk = order
<1> SUFFICES ASSUME Inv PROVE Walk = order
  OBVIOUS
<1> DEFINE n == Len(order)
<1>1. n \in Nat /\ Cardinality(map) = n /\ order \in Seq(Frames)
  BY OneElementPerKey, InvMeansLinked DEF ListInv
<1>2. \A i \in 1..(n + 1) : next[Chain(order)[i]] = Chain(order)[i + 1]
  BY InvMeansLinked DEF ListInv, Linked
<1>3. /\ Chain(order)[1] = DummyStart
      /\ \A i \in 1..n : Chain(order)[i + 1] = order[i]
  BY <1>1, ChainElements
<1> HIDE DEF n
<1>4. \A i \in 0..n : NodeAt[i] = IF i = 0 THEN DummyStart ELSE next[NodeAt[i - 1]]
  BY NodeAtDef DEF n
<1> DEFINE reached == {i \in Nat : i <= n => NodeAt[i] = Chain(order)[i + 1]}
<1>5. 0 \in reached
  <2>1. 0 + 1 = 1 /\ 0 \in 0..n
    BY <1>1
  <2> QED BY <1>3, <1>4, <2>1
<1>6. ASSUME NEW i \in Nat, i \in reached PROVE i + 1 \in reached
  <2>1. SUFFICES ASSUME i + 1 <= n PROVE NodeAt[i + 1] = Chain(order)[(i + 1) + 1]
    OBVIOUS
  <2>2. /\ i + 1 \in 0..n /\ i + 1 # 0 /\ (i + 1) - 1 = i
        /\ i + 1 \in 1..(n + 1) /\ i <= n
    BY <1>1, <2>1
  <2> QED BY <1>2, <1>4, <1>6, <2>2
<1>7. Nat \subseteq reached
  <2> HIDE DEF reached
  <2> QED BY <1>5, <1>6, SetInduction
<1>8. \A i \in 1..n : NodeAt[i] = order[i]
  BY <1>1, <1>3, <1>7
<1>9. Walk = [i \in 1..n |-> order[i]]
  BY <1>1, <1>8 DEF Walk
<1>10. order = [i \in 1..n |-> order[i]]
  BY <1>1 DEF n
<1> QED BY <1>9, <1>10

\* The abstract replacer's list operators are those of RecencyList.
LEMMA SameOperators ==
    ASSUME NEW q, NEW f
    PROVE  Abstract!Without(q, f) = Without(q, f) /\ Abstract!Touched(q, f) = Touched(q, f)
<1>1. Abstract!Without(q, f) = Without(q, f)
  BY DEF Abstract!Without, Without, Abstract!ToSet, ToSet, Abstract!RemoveAt, RemoveAt,
         Abstract!Position, Position
<1> QED BY <1>1 DEF Abstract!Touched, Touched

LEMMA InitAbstract == Init => Abstract!Init
<1> SUFFICES ASSUME Init PROVE Abstract!Init
  OBVIOUS
<1>1. Walk = order
  BY InitInv, WalkIsOrder
<1> QED BY <1>1 DEF Init, Abstract!Init

LEMMA NextAbstract ==
    Inv /\ Inv' /\ [Next]_vars => [Abstract!Next]_(Abstract!vars)
<1> SUFFICES ASSUME Inv, Inv', [Next]_vars
             PROVE  Abstract!Next \/ UNCHANGED Abstract!vars
  OBVIOUS
<1>1. Walk = order
  BY WalkIsOrder
<1>2. Walk' = order'
  <2>1. (Walk = order)'
    BY WalkIsOrder, PTL
  <2> QED BY <2>1
<1>3. ToSet(order) = map
  BY InvMeansLinked DEF ListInv
<1> HIDE DEF Walk
<1>4. CASE Victim
  <2>1. order # <<>> /\ next[DummyStart] = Head(order)
    BY <1>4, FirstNode DEF Victim
  <2>2. victimOut' = Head(order) /\ order' = Tail(order)
    BY <1>4, <2>1 DEF Victim
  <2>3. Abstract!Victim
    BY <1>1, <1>2, <2>1, <2>2 DEF Abstract!Victim
  <2> QED BY <2>3 DEF Abstract!Next
<1>5. ASSUME NEW f \in Frames, PinPresent(f) \/ PinAbsent(f)
      PROVE  Abstract!Next
  <2>1. order' = Without(order, f) /\ victimOut' = NoFrame
    BY <1>3, <1>5 DEF PinPresent, PinAbsent, Without
  <2>2. Abstract!Pin(f)
    BY <1>1, <1>2, <2>1, SameOperators DEF Abstract!Pin
  <2> QED BY <2>2 DEF Abstract!Next
<1>6. ASSUME NEW f \in Frames, UnpinAbsent(f) \/ UnpinPresent(f)
      PROVE  Abstract!Next
  <2>1. order' = Touched(order, f) /\ victimOut' = NoFrame
    BY <1>3, <1>6 DEF UnpinAbsent, UnpinPresent, Touched, Without
  <2>2. Abstract!Unpin(f)
    BY <1>1, <1>2, <2>1, SameOperators DEF Abstract!Unpin
  <2> QED BY <2>2 DEF Abstract!Next
<1>7. CASE UNCHANGED vars
  BY <1>1, <1>2, <1>7 DEF vars, Abstract!vars
<1> QED BY <1>4, <1>5, <1>6, <1>7 DEF Next

\* For any number of frames: the order of the list and the frames victim() hands
\* out are those of the replacer the buffer pool was written against.
THEOREM ReplacerImplemented == Spec => ImplementsReplacer
<1>1. Spec => []Inv
  BY Invariant
<1>2. Init => Abstract!Init
  BY InitAbstract
<1>3. Inv /\ Inv' /\ [Next]_vars => [Abstract!Next]_(Abstract!vars)
  BY NextAbstract
<1> QED BY <1>1, <1>2, <1>3, PTL DEF Spec, ImplementsReplacer, Abstract!Spec

=============================================================================
