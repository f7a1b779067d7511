----------------------------- MODULE ReplProofs -----------------------------
(***************************************************************************)
(* A start that fails has lost nothing.  Rows come after the metadata page *)
(* and the metadata page is never taken back, so what has to be carried    *)
(* along is where main has to be for the one to be there and not yet the   *)
(* other, and that an empty catalog never refuses the table users.         *)
(*                                                                         *)
(* A row that was printed as inserted stays in the file: a step of main    *)
(* appends to one page or leaves all rows alone, the catalog leads to the  *)
(* same first page after every start, and the RID that is printed is that  *)
(* of the row just appended.                                               *)
(*                                                                         *)
(* The rows of the file are counted (CountInv), so that none is stored     *)
(* twice and none without an INSERT.  TypeInv adds that every row in the   *)
(* file is the tuple of as many storable values as the schema has columns; *)
(* with the lemmas on statements (lines to statements, values to tuples    *)
(* and back), which come first, this gives what a SELECT shows.            *)
(***************************************************************************)
EXTENDS Repl, SequenceTheorems, FiniteSetTheorems, TLAPS

-----------------------------------------------------------------------------
(***************************************************************************)
(* Statements: lemmas about the operators a line goes through, for lines   *)
(* and rows of any length: the row codec, the tokenizer, the parser and    *)
(* the binder.  Each of them is a loop, here a recursive function; a lemma *)
(* says first that the function is what its equation says, the next ones   *)
(* use the equation, by induction on the index of the loop.                *)
(***************************************************************************)

\* Induction, on a set of numbers rather than a predicate.
LEMMA SetInduction ==
  ASSUME NEW S, 0 \in S, \A n \in Nat : n \in S => n + 1 \in S
  PROVE  Nat \subseteq S
  <1> DEFINE T == Nat \ S
  <1>1. SUFFICES ASSUME T # {} PROVE FALSE
    OBVIOUS
  <1>2. PICK x \in T : \A y \in T : ~ (<<y, x>> \in OpToRel(<, Nat))
    <2>1. T \subseteq Nat
      OBVIOUS
    <2>2. IsWellFoundedOn(OpToRel(<, Nat), Nat)
      BY NatLessThanWellFounded
    <2> HIDE DEF T
    <2> QED
      BY <1>1, <2>1, <2>2, WFMin
  <1>3. \A y \in T : ~(y < x)
    BY <1>2 DEF OpToRel
  <1>4. x # 0 /\ x \in Nat /\ x \notin S
    OBVIOUS
  <1>5. x - 1 \in Nat /\ x - 1 \in S
    BY <1>3, <1>4
  <1> QED
    BY <1>4, <1>5

\* Concatenation, a name of its own for the provers.
Cat(s, t) == s \o t

LEMMA CatAssociative ==
  ASSUME NEW S, NEW s \in Seq(S), NEW t \in Seq(S), NEW u \in Seq(S)
  PROVE  Cat(Cat(s, t), u) = Cat(s, Cat(t, u))
  <1>1. (s \o t) \o u = s \o (t \o u)
    BY ONLY s \in Seq(S), t \in Seq(S), u \in Seq(S), ConcatAssociative, SMTT(60)
  <1> QED
    BY <1>1, Zenon DEF Cat

-----------------------------------------------------------------------------
(***************************************************************************)
(* The row codec.                                                          *)
(***************************************************************************)

Chars == STRING \cup {FIELD_SEPARATOR}

\* The values of a row that can be stored.
Storable(values) ==
    /\ values \in Seq(Seq(STRING))
    /\ Len(values) >= 1
    /\ \A i \in DOMAIN values : FIELD_SEPARATOR \notin Range(values[i])

\* u[n] is the tuple of the first n values.
AreTuples(u, values, top) ==
    u = [n \in 0..top |->
           IF n = 0 THEN <<>>
           ELSE IF n = 1 THEN values[1]
           ELSE u[n - 1] \o <<FIELD_SEPARATOR>> \o values[n]]

LEMMA TuplesExist ==
  ASSUME NEW values
  PROVE  \A top \in Nat : \E u : AreTuples(u, values, top)
  <1> DEFINE S == {top \in Nat : \E u : AreTuples(u, values, top)}
             Next1(u, n) == IF n = 0 THEN <<>>
                            ELSE IF n = 1 THEN values[1]
                            ELSE u[n - 1] \o <<FIELD_SEPARATOR>> \o values[n]
  <1>1. 0 \in S
    <2> DEFINE u == [n \in 0..0 |-> <<>>]
    <2>1. \A n \in 0..0 : n = 0
      OBVIOUS
    <2>2. AreTuples(u, values, 0)
      BY <2>1 DEF AreTuples
    <2> HIDE DEF u
    <2> QED
      BY <2>2
  <1>2. ASSUME NEW top \in Nat, top \in S PROVE top + 1 \in S
    <2>1. PICK u : AreTuples(u, values, top)
      BY <1>2
    <2>2. \A n \in 0..top : u[n] = Next1(u, n)
      BY <2>1 DEF AreTuples
    <2> HIDE DEF Next1
    <2> DEFINE more == 0..(top + 1)
               w == [n \in more |-> IF n \in 0..top THEN u[n] ELSE Next1(u, n)]
    <2>3. ASSUME NEW n \in more PROVE w[n] = Next1(w, n)
      <3>1. w[n] = Next1(u, n)
        BY <2>2
      <3>2. n = 0 \/ (n - 1 \in 0..top /\ n - 1 \in more)
        OBVIOUS
      <3>3. n = 0 \/ w[n - 1] = u[n - 1]
        BY <3>2
      <3>4. Next1(w, n) = Next1(u, n)
        BY <3>3 DEF Next1
      <3> QED
        BY <3>1, <3>4
    <2>4. w = [n \in more |-> w[n]]
      OBVIOUS
    <2> HIDE DEF w
    <2>5. AreTuples(w, values, top + 1)
      BY <2>3, <2>4 DEF AreTuples, Next1
    <2> QED
      BY <2>5
  <1>3. Nat \subseteq S
    <2> HIDE DEF S
    <2> QED
      BY <1>1, <1>2, SetInduction
  <1> QED
    BY <1>3

LEMMA SerializeDef ==
  ASSUME NEW values, Len(values) \in Nat
  PROVE  \E u : /\ AreTuples(u, values, Len(values))
                /\ (\A i \in DOMAIN values : FIELD_SEPARATOR \notin Range(values[i]))
                     => serialize(values) = Some(u[Len(values)])
  <1> DEFINE upTo[n \in 0..Len(values)] ==
               IF n = 0 THEN <<>>
               ELSE IF n = 1 THEN values[1]
               ELSE upTo[n - 1] \o <<FIELD_SEPARATOR>> \o values[n]
  <1>1. \E u : AreTuples(u, values, Len(values))
    BY TuplesExist
  <1>2. AreTuples(upTo, values, Len(values))
    BY <1>1, Zenon DEF upTo, AreTuples
  <1>3. (\A i \in DOMAIN values : FIELD_SEPARATOR \notin Range(values[i]))
           => serialize(values) = Some(upTo[Len(values)])
    BY Zenon DEF serialize, upTo
  <1> HIDE DEF upTo
  <1> QED
    BY <1>2, <1>3

\* f[n] is what deserialize has of the values after n characters of the tuple.
AfterChar(f, tuple, n) ==
    IF tuple[n] = FIELD_SEPARATOR
    THEN Append(f, <<>>)
    ELSE [f EXCEPT ![Len(f)] = Append(@, tuple[n])]

AreFields(f, tuple, top) ==
    f = [n \in 0..top |-> IF n = 0 THEN << <<>> >> ELSE AfterChar(f[n - 1], tuple, n)]

LEMMA FieldsExist ==
  ASSUME NEW tuple
  PROVE  \A top \in Nat : \E f : AreFields(f, tuple, top)
  <1> DEFINE S == {top \in Nat : \E f : AreFields(f, tuple, top)}
             NextF(f, n) == IF n = 0 THEN << <<>> >> ELSE AfterChar(f[n - 1], tuple, n)
  <1>1. 0 \in S
    <2> DEFINE f == [n \in 0..0 |-> << <<>> >>]
    <2>1. \A n \in 0..0 : n = 0
      OBVIOUS
    <2>2. AreFields(f, tuple, 0)
      BY <2>1 DEF AreFields
    <2> HIDE DEF f
    <2> QED
      BY <2>2
  <1>2. ASSUME NEW top \in Nat, top \in S PROVE top + 1 \in S
    <2>1. PICK f : AreFields(f, tuple, top)
      BY <1>2
    <2>2. \A n \in 0..top : f[n] = NextF(f, n)
      BY <2>1 DEF AreFields
    <2> HIDE DEF NextF
    <2> DEFINE more == 0..(top + 1)
               w == [n \in more |-> IF n \in 0..top THEN f[n] ELSE NextF(f, n)]
    <2>3. ASSUME NEW n \in more PROVE w[n] = NextF(w, n)
      <3>1. w[n] = NextF(f, n)
        BY <2>2
      <3>2. n = 0 \/ (n - 1 \in 0..top /\ n - 1 \in more)
        OBVIOUS
      <3>3. n = 0 \/ w[n - 1] = f[n - 1]
        BY <3>2
      <3>4. NextF(w, n) = NextF(f, n)
        BY <3>3 DEF NextF
      <3> QED
        BY <3>1, <3>4
    <2>4. w = [n \in more |-> w[n]]
      OBVIOUS
    <2> HIDE DEF w
    <2>5. AreFields(w, tuple, top + 1)
      BY <2>3, <2>4 DEF AreFields, NextF
    <2> QED
      BY <2>5
  <1>3. Nat \subseteq S
    <2> HIDE DEF S
    <2> QED
      BY <1>1, <1>2, SetInduction
  <1> QED
    BY <1>3

LEMMA FieldsDef ==
  ASSUME NEW tuple, Len(tuple) \in Nat
  PROVE  \E f : AreFields(f, tuple, Len(tuple)) /\ Fields(tuple) = f[Len(tuple)]
  <1> DEFINE upTo[n \in 0..Len(tuple)] ==
               IF n = 0 THEN << <<>> >>
               ELSE LET fields == upTo[n - 1] IN
                      IF tuple[n] = FIELD_SEPARATOR
                      THEN Append(fields, <<>>)
                      ELSE [fields EXCEPT ![Len(fields)] = Append(@, tuple[n])]
  <1>1. \E f : AreFields(f, tuple, Len(tuple))
    BY FieldsExist
  <1>2. AreFields(upTo, tuple, Len(tuple))
    BY <1>1, Zenon DEF upTo, AreFields, AfterChar
  <1>3. Fields(tuple) = upTo[Len(tuple)]
    BY Zenon DEF Fields, upTo
  <1> HIDE DEF upTo
  <1> QED
    BY <1>2, <1>3

\* Where value m begins in the tuple of the first n >= m values; u are the tuples.
StartOf(u, m) == IF m = 1 THEN 0 ELSE Len(u[m - 1]) + 1

\* The tuple s has the first n values, one behind the other, with a separator
\* before each but the first.
Spells(s, u, values, n) ==
    /\ \A m \in 1..n : \A k \in 1..Len(values[m]) :
          StartOf(u, m) + k \in 1..Len(s) /\ s[StartOf(u, m) + k] = values[m][k]
    /\ \A m \in 2..n :
          StartOf(u, m) \in 1..Len(s) /\ s[StartOf(u, m)] = FIELD_SEPARATOR

\* Concatenation, character by character.
LEMMA Concatenated ==
  ASSUME NEW S, NEW s \in Seq(S), NEW c \in S, NEW t \in Seq(S)
  PROVE  /\ s \o <<c>> \o t \in Seq(S)
         /\ Len(s \o <<c>> \o t) = Len(s) + 1 + Len(t)
         /\ \A i \in 1..Len(s) : (s \o <<c>> \o t)[i] = s[i]
         /\ (s \o <<c>> \o t)[Len(s) + 1] = c
         /\ \A i \in 1..Len(t) : (s \o <<c>> \o t)[Len(s) + 1 + i] = t[i]
  <1>1. s \o <<c>> \in Seq(S) /\ Len(s \o <<c>>) = Len(s) + 1
        /\ (s \o <<c>>)[Len(s) + 1] = c
        /\ \A i \in 1..Len(s) : (s \o <<c>>)[i] = s[i]
    OBVIOUS
  <1> DEFINE r == s \o <<c>>
  <1> HIDE DEF r
  <1>2. /\ r \o t \in Seq(S) /\ Len(r \o t) = Len(r) + Len(t)
        /\ \A i \in 1..Len(r) : (r \o t)[i] = r[i]
        /\ \A i \in 1..Len(t) : (r \o t)[Len(r) + i] = t[i]
    BY <1>1 DEF r
  <1>3. Len(r) = Len(s) + 1 /\ r[Len(s) + 1] = c /\ \A i \in 1..Len(s) : r[i] = s[i]
    BY <1>1 DEF r
  <1>4. Len(s) \in Nat /\ Len(t) \in Nat
    OBVIOUS
  <1>5. r \o t = s \o <<c>> \o t
    BY DEF r
  <1>6. \A i \in 1..Len(s) : i \in 1..Len(r)
    BY <1>3, <1>4
  <1>7. Len(s) + 1 \in 1..Len(r)
    BY <1>3, <1>4
  <1>8. \A i \in 1..Len(t) : (r \o t)[Len(s) + 1 + i] = t[i]
    BY <1>2, <1>3
  <1>9. Len(r \o t) = Len(s) + 1 + Len(t)
    BY <1>2, <1>3, <1>4
  <1>10. (r \o t)[Len(s) + 1] = c /\ \A i \in 1..Len(s) : (r \o t)[i] = s[i]
    BY <1>2, <1>3, <1>6, <1>7
  <1> QED
    BY <1>2, <1>5, <1>8, <1>9, <1>10

\* A tuple spells its values.
LEMMA TuplesSpell ==
  ASSUME NEW values, Storable(values), NEW u, AreTuples(u, values, Len(values))
  PROVE  \A n \in 1..Len(values) :
            /\ u[n] \in Seq(Chars)
            /\ Len(u[n]) = StartOf(u, n) + Len(values[n])
            /\ Spells(u[n], u, values, n)
  <1> DEFINE N == Len(values)
             Good(n) == /\ u[n] \in Seq(Chars)
                        /\ Len(u[n]) = StartOf(u, n) + Len(values[n])
                        /\ Spells(u[n], u, values, n)
             S == {x \in Nat : x + 1 \in 1..N => Good(x + 1)}
  <1>1. N \in Nat /\ N >= 1 /\ \A n \in 1..N : values[n] \in Seq(Chars)
    <2>1. N \in Nat /\ N >= 1 /\ \A n \in 1..N : values[n] \in Seq(STRING)
      BY DEF Storable
    <2>2. Seq(STRING) \subseteq Seq(Chars)
      BY DEF Chars
    <2> QED
      BY <2>1, <2>2
  <1>2. /\ \A n \in 1..N : n = 1 => u[n] = values[n]
        /\ \A n \in 1..N : n > 1 => u[n] = u[n - 1] \o <<FIELD_SEPARATOR>> \o values[n]
    <2>1. \A n \in 0..N : u[n] = IF n = 0 THEN <<>>
                                 ELSE IF n = 1 THEN values[1]
                                 ELSE u[n - 1] \o <<FIELD_SEPARATOR>> \o values[n]
      BY Zenon DEF AreTuples
    <2>2. \A n \in 1..N : n \in 0..N /\ n # 0 /\ (n > 1 => n # 1)
      BY <1>1
    <2> QED
      BY <2>1, <2>2
  <1>3. 0 \in S
    <2>1. 1 \in 1..N /\ 0 + 1 = 1
      BY <1>1
    <2>2. u[1] = values[1] /\ values[1] \in Seq(Chars)
      BY <1>1, <1>2, <2>1
    <2>3. StartOf(u, 1) = 0
      BY DEF StartOf
    <2>4. Spells(u[1], u, values, 1)
      <3>1. \A m \in 1..1 : m = 1
        OBVIOUS
      <3>2. \A m \in 2..1 : FALSE
        OBVIOUS
      <3>3. \A k \in 1..Len(values[1]) : 0 + k = k
        BY <2>2
      <3> QED
        BY <2>2, <2>3, <3>1, <3>2, <3>3 DEF Spells
    <2>5. Good(1)
      BY <2>2, <2>3, <2>4
    <2> QED
      BY <2>1, <2>5
  <1>4. ASSUME NEW x \in Nat, x \in S PROVE x + 1 \in S
    <2> SUFFICES ASSUME x + 2 \in 1..N PROVE Good(x + 2)
      OBVIOUS
    <2> DEFINE n == x + 1
               s == u[n]
               t == values[n + 1]
    <2>1. n \in 1..N /\ n + 1 \in 1..N /\ n + 1 > 1 /\ (n + 1) - 1 = n /\ n + 1 = x + 2
          /\ n \in Nat
      BY <1>1
    <2>2. Good(n)
      BY <1>4, <2>1
    <2> HIDE DEF n
    <2>3. s \in Seq(Chars) /\ t \in Seq(Chars) /\ FIELD_SEPARATOR \in Chars
      BY <1>1, <2>1, <2>2 DEF Chars
    <2>4. u[n + 1] = s \o <<FIELD_SEPARATOR>> \o t
      BY <1>2, <2>1
    <2> DEFINE w == u[n + 1]
    <2>5. /\ w \in Seq(Chars)
          /\ Len(w) = Len(s) + 1 + Len(t)
          /\ \A i \in 1..Len(s) : w[i] = s[i]
          /\ w[Len(s) + 1] = FIELD_SEPARATOR
          /\ \A i \in 1..Len(t) : w[Len(s) + 1 + i] = t[i]
      <3> DEFINE v == s \o <<FIELD_SEPARATOR>> \o t
      <3>1. /\ v \in Seq(Chars)
            /\ Len(v) = Len(s) + 1 + Len(t)
            /\ \A i \in 1..Len(s) : v[i] = s[i]
            /\ v[Len(s) + 1] = FIELD_SEPARATOR
            /\ \A i \in 1..Len(t) : v[Len(s) + 1 + i] = t[i]
        <4> HIDE DEF s, t
        <4> QED
          BY <2>3, Concatenated
      <3>2. w = v
        BY <2>4
      <3> HIDE DEF v, w, s, t
      <3> QED
        BY <3>1, <3>2
    <2>6. StartOf(u, n + 1) = Len(s) + 1
      BY <2>1 DEF StartOf
    <2>7. Len(s) \in Nat /\ Len(t) \in Nat
      BY <2>3
    <2>8. Spells(s, u, values, n)
      BY <2>2
    <2> HIDE DEF s, t, w
    <2>9. ASSUME NEW m \in 1..(n + 1), NEW k \in 1..Len(values[m])
          PROVE  StartOf(u, m) + k \in 1..Len(w) /\ w[StartOf(u, m) + k] = values[m][k]
      <3>1. CASE m = n + 1
        <4>1. k \in 1..Len(t) /\ values[m][k] = t[k]
          BY <3>1 DEF t
        <4>2. StartOf(u, m) + k = Len(s) + 1 + k
          BY <2>6, <3>1
        <4>3. Len(s) + 1 + k \in 1..Len(w)
          BY <2>5, <2>7, <4>1
        <4> QED
          BY <2>5, <4>1, <4>2, <4>3
      <3>2. CASE m # n + 1
        <4>1. m \in 1..n
          BY <2>1, <3>2
        <4>2. StartOf(u, m) + k \in 1..Len(s) /\ s[StartOf(u, m) + k] = values[m][k]
          BY <2>8, <4>1 DEF Spells
        <4>3. StartOf(u, m) + k \in 1..Len(w)
          BY <2>5, <2>7, <4>2
        <4> QED
          BY <2>5, <4>2, <4>3
      <3> QED
        BY <3>1, <3>2
    <2>10. ASSUME NEW m \in 2..(n + 1)
           PROVE  StartOf(u, m) \in 1..Len(w) /\ w[StartOf(u, m)] = FIELD_SEPARATOR
      <3>1. CASE m = n + 1
        BY <2>5, <2>6, <2>7, <3>1
      <3>2. CASE m # n + 1
        <4>1. m \in 2..n
          BY <2>1, <3>2
        <4>2. StartOf(u, m) \in 1..Len(s) /\ s[StartOf(u, m)] = FIELD_SEPARATOR
          BY <2>8, <4>1 DEF Spells
        <4>3. StartOf(u, m) \in 1..Len(w)
          BY <2>5, <2>7, <4>2
        <4> QED
          BY <2>5, <4>2, <4>3
      <3> QED
        BY <3>1, <3>2
    <2>11. Spells(w, u, values, n + 1)
      BY <2>9, <2>10 DEF Spells
    <2>12. Good(n + 1)
      BY <2>5, <2>6, <2>11 DEF w, t
    <2> QED
      BY <2>1, <2>12
  <1>5. Nat \subseteq S
    <2> HIDE DEF S
    <2> QED
      BY <1>3, <1>4, SetInduction
  <1>6. ASSUME NEW n \in 1..N PROVE Good(n)
    <2>1. n - 1 \in Nat /\ (n - 1) + 1 = n
      OBVIOUS
    <2>2. n - 1 \in S
      BY <1>5, <2>1
    <2> HIDE DEF Good
    <2> QED
      BY <2>1, <2>2
  <1> QED
    BY <1>6

\* fs are the first n values, the last of them up to its first k characters.
Parsed(fs, values, n, k) ==
    /\ fs \in Seq(Seq(Chars)) /\ Len(fs) = n
    /\ \A j \in 1..(n - 1) : fs[j] = values[j]
    /\ Len(fs[n]) = k /\ \A i \in 1..k : fs[n][i] = values[n][i]

\* The next character of a value.
LEMMA ParsedCharacter ==
  ASSUME NEW fs, NEW values, NEW n \in Nat \ {0}, NEW k \in Nat, Parsed(fs, values, n, k),
         NEW c \in Chars, c = values[n][k + 1]
  PROVE  Parsed([fs EXCEPT ![Len(fs)] = Append(@, c)], values, n, k + 1)
  <1> DEFINE last == Append(fs[n], c)
             gs == [fs EXCEPT ![n] = last]
  <1>1. n \in 1..Len(fs) /\ fs[n] \in Seq(Chars) /\ fs \in Seq(Seq(Chars)) /\ Len(fs) = n
        /\ Len(fs[n]) = k
    BY DEF Parsed
  <1>2. /\ last \in Seq(Chars) /\ Len(last) = k + 1 /\ last[k + 1] = c
        /\ \A i \in 1..k : last[i] = fs[n][i]
    BY <1>1
  <1> HIDE DEF last
  <1>3. gs \in Seq(Seq(Chars)) /\ Len(gs) = n /\ gs[n] = last
        /\ \A j \in 1..(n - 1) : gs[j] = fs[j]
    BY <1>1, <1>2
  <1>4. gs = [fs EXCEPT ![Len(fs)] = Append(@, c)]
    BY <1>1 DEF last
  <1> HIDE DEF gs
  <1>5. \A i \in 1..(k + 1) : last[i] = values[n][i]
    <2> SUFFICES ASSUME NEW i \in 1..(k + 1) PROVE last[i] = values[n][i]
      OBVIOUS
    <2>1. CASE i = k + 1
      BY <1>2, <2>1
    <2>2. CASE i # k + 1
      <3>1. i \in 1..k
        BY <2>2
      <3> QED
        BY <1>2, <3>1 DEF Parsed
    <2> QED
      BY <2>1, <2>2
  <1>6. Parsed(gs, values, n, k + 1)
    BY <1>2, <1>3, <1>5 DEF Parsed
  <1> QED
    BY <1>4, <1>6

\* The separator behind a whole value.
LEMMA ParsedSeparator ==
  ASSUME NEW fs, NEW values, NEW n \in Nat \ {0}, values[n] \in Seq(Chars),
         Parsed(fs, values, n, Len(values[n]))
  PROVE  Parsed(Append(fs, <<>>), values, n + 1, 0)
  <1> DEFINE gs == Append(fs, <<>>)
  <1>1. fs \in Seq(Seq(Chars)) /\ Len(fs) = n /\ fs[n] \in Seq(Chars) /\ <<>> \in Seq(Chars)
        /\ Len(<<>>) = 0
    BY DEF Parsed
  <1>2. gs \in Seq(Seq(Chars)) /\ Len(gs) = n + 1 /\ gs[n + 1] = <<>>
        /\ \A j \in 1..n : gs[j] = fs[j]
    BY <1>1
  <1>3. fs[n] = values[n]
    <2>1. Len(fs[n]) = Len(values[n]) /\ \A i \in 1..Len(values[n]) : fs[n][i] = values[n][i]
      BY DEF Parsed
    <2> DEFINE a == fs[n]
               b == values[n]
    <2>2. a \in Seq(Chars) /\ b \in Seq(Chars)
          /\ Len(a) = Len(b) /\ \A i \in 1..Len(b) : a[i] = b[i]
      BY <1>1, <2>1
    <2> HIDE DEF a, b
    <2>3. a = b
      BY <2>2
    <2> QED
      BY <2>3 DEF a, b
  <1>4. \A j \in 1..n : gs[j] = values[j]
    <2> SUFFICES ASSUME NEW j \in 1..n PROVE gs[j] = values[j]
      OBVIOUS
    <2>1. j = n \/ j \in 1..(n - 1)
      OBVIOUS
    <2> QED
      BY <1>2, <1>3, <2>1 DEF Parsed
  <1> HIDE DEF gs
  <1>5. (n + 1) - 1 = n /\ \A i \in 1..0 : FALSE
    OBVIOUS
  <1>6. Parsed(gs, values, n + 1, 0)
    BY <1>1, <1>2, <1>4, <1>5 DEF Parsed
  <1> QED
    BY <1>6 DEF gs

\* A row that is stored is read back as it was.
LEMMA RoundTrip ==
  ASSUME NEW values, Storable(values)
  PROVE  /\ serialize(values).has_value
         /\ serialize(values).value \in Seq(Chars)
         /\ Len(values) > 1 => serialize(values).value # <<>>
         /\ deserialize(serialize(values).value, Len(values)) = Some(values)
  <1> DEFINE N == Len(values)
  <1>1. /\ N \in Nat /\ N >= 1
        /\ \A n \in 1..N : values[n] \in Seq(Chars) /\ Len(values[n]) \in Nat
        /\ \A n \in 1..N : \A k \in 1..Len(values[n]) : values[n][k] # FIELD_SEPARATOR
    <2>1. N \in Nat /\ N >= 1 /\ \A n \in 1..N : values[n] \in Seq(STRING)
      BY DEF Storable
    <2>2. Seq(STRING) \subseteq Seq(Chars)
      BY DEF Chars
    <2>3. \A n \in 1..N : FIELD_SEPARATOR \notin Range(values[n])
      BY DEF Storable
    <2>4. ASSUME NEW n \in 1..N, NEW k \in 1..Len(values[n])
          PROVE  values[n][k] # FIELD_SEPARATOR
      BY <2>1, <2>3 DEF Range
    <2> QED
      BY <2>1, <2>2, <2>4
  <1>2. PICK u : AreTuples(u, values, N) /\ serialize(values) = Some(u[N])
    BY <1>1, SerializeDef DEF Storable
  <1> DEFINE T == u[N]
             L == Len(T)
  <1>3. \A n \in 1..N : /\ u[n] \in Seq(Chars)
                        /\ Len(u[n]) = StartOf(u, n) + Len(values[n])
                        /\ Spells(u[n], u, values, n)
    BY <1>2, TuplesSpell
  <1>4. T \in Seq(Chars) /\ L \in Nat /\ Spells(T, u, values, N)
    BY <1>1, <1>3
  <1>5. \A n \in 1..N : StartOf(u, n) \in Nat /\ Len(u[n]) \in Nat
    BY <1>3 DEF StartOf
  <1>6. \A n \in 1..N : n < N => StartOf(u, n + 1) = Len(u[n]) + 1 /\ n + 1 \in 2..N
    <2> SUFFICES ASSUME NEW n \in 1..N, n < N
                 PROVE  StartOf(u, n + 1) = Len(u[n]) + 1 /\ n + 1 \in 2..N
      OBVIOUS
    <2>1. n + 1 # 1 /\ (n + 1) - 1 = n /\ n + 1 \in 2..N
      BY <1>1
    <2> QED
      BY <2>1 DEF StartOf
  <1>7. PICK f : AreFields(f, T, L) /\ Fields(T) = f[L]
    BY <1>4, FieldsDef
  <1>8. f[0] = << <<>> >> /\ \A x \in 0..L : x # 0 => f[x] = AfterChar(f[x - 1], T, x)
    <2>1. \A x \in 0..L : f[x] = IF x = 0 THEN << <<>> >> ELSE AfterChar(f[x - 1], T, x)
      BY <1>7, Zenon DEF AreFields
    <2>2. 0 \in 0..L
      BY <1>4
    <2> HIDE DEF L, T
    <2> QED
      BY <2>1, <2>2
  <1> HIDE DEF T, L, N
  <1> DEFINE Good(x) == \E n \in 1..N : \E k \in 0..Len(values[n]) :
                           x = StartOf(u, n) + k /\ Parsed(f[x], values, n, k)
             S == {x \in Nat : x \in 0..L => Good(x)}
  <1>9. 0 \in S
    <2>1. 1 \in 1..N /\ 0 \in 0..Len(values[1])
      BY <1>1
    <2>2. StartOf(u, 1) = 0
      BY DEF StartOf
    <2>3. Parsed(<< <<>> >>, values, 1, 0)
      <3> DEFINE fs == << <<>> >>
      <3>1. <<>> \in Seq(Chars) /\ Len(<<>>) = 0
        OBVIOUS
      <3>2. fs \in Seq(Seq(Chars)) /\ Len(fs) = 1 /\ fs[1] = <<>>
        BY <3>1
      <3>3. (\A j \in 1..(1 - 1) : FALSE) /\ \A i \in 1..0 : FALSE
        OBVIOUS
      <3> HIDE DEF fs
      <3>4. Parsed(fs, values, 1, 0)
        BY <3>1, <3>2, <3>3 DEF Parsed
      <3> QED
        BY <3>4 DEF fs
    <2>4. Good(0)
      BY <1>8, <2>1, <2>2, <2>3
    <2> QED
      BY <2>4
  <1>10. ASSUME NEW x \in Nat, x \in S PROVE x + 1 \in S
    <2> SUFFICES ASSUME x + 1 \in 0..L PROVE Good(x + 1)
      OBVIOUS
    <2>1. x \in 0..L /\ x + 1 # 0 /\ (x + 1) - 1 = x
      BY <1>4
    <2>2. PICK n \in 1..N : \E k \in 0..Len(values[n]) :
                 x = StartOf(u, n) + k /\ Parsed(f[x], values, n, k)
      BY <1>10, <2>1
    <2>3. PICK k \in 0..Len(values[n]) : x = StartOf(u, n) + k /\ Parsed(f[x], values, n, k)
      BY <2>2
    <2>4. f[x + 1] = AfterChar(f[x], T, x + 1)
      BY <1>8, <2>1
    <2>5. n \in Nat \ {0} /\ k \in Nat /\ Len(values[n]) \in Nat /\ StartOf(u, n) \in Nat
      BY <1>1, <1>5, <2>2, <2>3
    <2>6. CASE k # Len(values[n])
      <3>1. k + 1 \in 1..Len(values[n]) /\ k + 1 \in 0..Len(values[n])
        BY <2>5, <2>6
      <3>2. x + 1 = StartOf(u, n) + (k + 1)
        BY <2>3, <2>5
      <3>3. T[x + 1] = values[n][k + 1] /\ T[x + 1] # FIELD_SEPARATOR
        BY <1>1, <1>4, <3>1, <3>2 DEF Spells
      <3>4. T[x + 1] \in Chars
        BY <1>1, <3>1, <3>3
      <3>5. f[x + 1] = [f[x] EXCEPT ![Len(f[x])] = Append(@, T[x + 1])]
        BY <2>4, <3>3 DEF AfterChar
      <3>6. Parsed(f[x + 1], values, n, k + 1)
        <4> DEFINE c == T[x + 1]
                   fs == f[x]
        <4>1. c \in Chars /\ c = values[n][k + 1] /\ Parsed(fs, values, n, k)
          BY <2>3, <3>3, <3>4
        <4>2. f[x + 1] = [fs EXCEPT ![Len(fs)] = Append(@, c)]
          BY <3>5
        <4> HIDE DEF c, fs
        <4>3. Parsed([fs EXCEPT ![Len(fs)] = Append(@, c)], values, n, k + 1)
          BY <2>5, <4>1, ParsedCharacter
        <4> QED
          BY <4>2, <4>3
      <3> QED
        BY <3>1, <3>2, <3>6
    <2>7. CASE k = Len(values[n])
      <3>1. x = Len(u[n])
        BY <1>3, <2>3, <2>7
      <3>2. n < N
        <4>1. n = N => x = L
          BY <3>1 DEF T, L
        <4>2. x # L
          BY <1>4
        <4> QED
          BY <1>1, <2>5, <4>1, <4>2
      <3>3. StartOf(u, n + 1) = x + 1 /\ n + 1 \in 2..N
        BY <1>6, <3>1, <3>2
      <3>4. T[x + 1] = FIELD_SEPARATOR
        BY <1>4, <3>3 DEF Spells
      <3>5. f[x + 1] = Append(f[x], <<>>)
        BY <2>4, <3>4 DEF AfterChar
      <3>6. Parsed(f[x + 1], values, n + 1, 0)
        BY <1>1, <2>3, <2>5, <2>7, <3>5, ParsedSeparator
      <3>7. n + 1 \in 1..N /\ 0 \in 0..Len(values[n + 1]) /\ x + 1 = StartOf(u, n + 1) + 0
        BY <1>1, <3>3
      <3> QED
        BY <3>6, <3>7
    <2> QED
      BY <2>6, <2>7
  <1>11. Good(L)
    <2>1. Nat \subseteq S
      <3> HIDE DEF S
      <3> QED
        BY <1>9, <1>10, SetInduction
    <2>2. L \in 0..L
      BY <1>4
    <2> HIDE DEF Good
    <2> QED
      BY <1>4, <2>1, <2>2
  <1>12. PICK n \in 1..N : \E k \in 0..Len(values[n]) :
               L = StartOf(u, n) + k /\ Parsed(f[L], values, n, k)
    BY <1>11
  <1>13. PICK k \in 0..Len(values[n]) : L = StartOf(u, n) + k /\ Parsed(f[L], values, n, k)
    BY <1>12
  <1>14. n \in Nat /\ k \in Nat /\ StartOf(u, n) \in Nat /\ Len(values[n]) \in Nat
    BY <1>1, <1>5, <1>12, <1>13
  <1>15. n = N
    <2> SUFFICES ASSUME n < N PROVE FALSE
      BY <1>1, <1>14
    <2>1. StartOf(u, n + 1) = Len(u[n]) + 1 /\ n + 1 \in 2..N
      BY <1>6
    <2>2. Len(u[n]) + 1 \in 1..L
      BY <1>4, <2>1 DEF Spells, L
    <2>3. L <= Len(u[n])
      <3>1. Len(u[n]) = StartOf(u, n) + Len(values[n])
        BY <1>3
      <3> QED
        BY <1>13, <1>14, <3>1
    <2> QED
      BY <1>4, <1>5, <2>2, <2>3
  <1>16. k = Len(values[n])
    <2>1. L = StartOf(u, n) + Len(values[n])
      BY <1>3, <1>15 DEF T, L
    <2> QED
      BY <1>13, <1>14, <2>1
  <1>17. Fields(T) = values
    <2>1. f[L] \in Seq(Seq(Chars)) /\ Len(f[L]) = N
          /\ \A j \in 1..(N - 1) : f[L][j] = values[j]
      BY <1>13, <1>15 DEF Parsed
    <2>2. f[L][N] = values[N]
      <3>1. f[L][N] \in Seq(Chars) /\ values[N] \in Seq(Chars)
        BY <1>1, <2>1
      <3>2. Len(f[L][N]) = Len(values[N])
            /\ \A i \in 1..Len(values[N]) : f[L][N][i] = values[N][i]
        BY <1>13, <1>15, <1>16 DEF Parsed
      <3> QED
        BY <3>1, <3>2
    <2>3. \A j \in 1..N : f[L][j] = values[j]
      <3>1. \A j \in 1..N : j = N \/ j \in 1..(N - 1)
        BY <1>1
      <3> QED
        BY <2>1, <2>2, <3>1
    <2>4. values \in Seq(Seq(STRING)) /\ Len(values) = N
      BY DEF Storable, N
    <2>5. f[L] = values
      BY <2>1, <2>3, <2>4
    <2> QED
      BY <1>7, <2>5
  <1>18. N > 1 => T # <<>>
    <2> SUFFICES ASSUME N > 1 PROVE T # <<>>
      OBVIOUS
    <2>1. 2 \in 2..N
      BY <1>1
    <2>2. StartOf(u, 2) \in 1..Len(T)
      BY <1>4, <2>1 DEF Spells
    <2>3. Len(<<>>) = 0
      OBVIOUS
    <2> QED
      BY <2>2, <2>3
  <1>19. deserialize(T, N) = Some(values)
    BY <1>1, <1>17 DEF deserialize, N
  <1>20. serialize(values) = Some(T)
    BY <1>2 DEF T
  <1>21. serialize(values).has_value /\ serialize(values).value = T
    BY <1>20 DEF Some
  <1> QED
    BY <1>4, <1>18, <1>19, <1>21 DEF N

-----------------------------------------------------------------------------
(***************************************************************************)
(* The lists of the parser.                                                *)
(***************************************************************************)

\* h[k] is what the loop over a list makes of the tokens from k on.
ListFrom(h, tokens, types, k) ==
    IF ~IsAt(tokens, k, types) THEN nullopt
    ELSE IF ~IsAt(tokens, k + 1, {"COMMA"})
         THEN Some([items |-> <<tokens[k].lexeme>>, next |-> k + 1])
         ELSE IF h[k + 2].has_value
              THEN Some([h[k + 2].value EXCEPT !.items = <<tokens[k].lexeme>> \o @])
              ELSE nullopt

AreLists(h, tokens, types, low) ==
    h = [k \in low..(Len(tokens) + 2) |-> ListFrom(h, tokens, types, k)]

LEMMA ListsExist ==
  ASSUME NEW tokens, Len(tokens) \in Nat, NEW types
  PROVE  \A m \in Nat : \E h : AreLists(h, tokens, types, Len(tokens) + 3 - m)
  <1> DEFINE top == Len(tokens) + 2
             S == {m \in Nat : \E h : AreLists(h, tokens, types, top + 1 - m)}
  <1>0. top \in Nat /\ \A m \in Nat : Len(tokens) + 3 - m = top + 1 - m
    OBVIOUS
  <1>1. 0 \in S
    <2> DEFINE h == [k \in {} |-> nullopt]
    <2>1. (top + 1 - 0)..top = {}
      BY <1>0
    <2>2. AreLists(h, tokens, types, top + 1 - 0)
      <3>1. h = [k \in {} |-> ListFrom(h, tokens, types, k)]
        OBVIOUS
      <3> HIDE DEF h
      <3> QED
        BY <2>1, <3>1 DEF AreLists
    <2> HIDE DEF h
    <2> QED
      BY <2>2
  <1>2. ASSUME NEW m \in Nat, m \in S PROVE m + 1 \in S
    <2>1. PICK h : AreLists(h, tokens, types, top + 1 - m)
      BY <1>2
    <2> DEFINE old == (top + 1 - m)..top
               more == (top + 1 - (m + 1))..top
               w == [k \in more |-> IF k \in old THEN h[k] ELSE ListFrom(h, tokens, types, k)]
    <2>2. \A k \in old : h[k] = ListFrom(h, tokens, types, k)
      BY <2>1 DEF AreLists
    <2>3. ASSUME NEW k \in more PROVE w[k] = ListFrom(w, tokens, types, k)
      <3>1. w[k] = ListFrom(h, tokens, types, k)
        BY <2>2
      <3>2. IsAt(tokens, k, types) => w[k + 2] = h[k + 2]
        <4> SUFFICES ASSUME IsAt(tokens, k, types) PROVE w[k + 2] = h[k + 2]
          OBVIOUS
        <4>1. k <= Len(tokens)
          BY DEF IsAt
        <4>2. k + 2 \in old /\ k + 2 \in more
          BY <1>0, <4>1
        <4> QED
          BY <4>2
      <3> HIDE DEF w, old, more
      <3>3. ListFrom(w, tokens, types, k) = ListFrom(h, tokens, types, k)
        BY <3>2 DEF ListFrom
      <3> QED
        BY <3>1, <3>3
    <2>4. w = [k \in more |-> w[k]]
      OBVIOUS
    <2>5. more = (top + 1 - (m + 1))..(Len(tokens) + 2)
      OBVIOUS
    <2> HIDE DEF w, more
    <2>6. AreLists(w, tokens, types, top + 1 - (m + 1))
      BY <2>3, <2>4, <2>5 DEF AreLists
    <2> QED
      BY <2>6
  <1>3. Nat \subseteq S
    <2> HIDE DEF S
    <2> QED
      BY <1>1, <1>2, SetInduction
  <1> QED
    BY <1>0, <1>3

LEMMA ListAtDef ==
  ASSUME NEW tokens, Len(tokens) \in Nat, NEW types, NEW start \in 1..(Len(tokens) + 2)
  PROVE  \E h : AreLists(h, tokens, types, start) /\ ListAt(tokens, start, types) = h[start]
  <1> DEFINE from[k \in start..(Len(tokens) + 2)] ==
               IF ~IsAt(tokens, k, types) THEN nullopt
               ELSE LET item == <<tokens[k].lexeme>>
                        more == from[k + 2]
                    IN  IF ~IsAt(tokens, k + 1, {"COMMA"})
                        THEN Some([items |-> item, next |-> k + 1])
                        ELSE IF more.has_value
                             THEN Some([more.value EXCEPT !.items = item \o @])
                             ELSE nullopt
  <1>1. \E h : AreLists(h, tokens, types, start)
    <2>1. Len(tokens) + 3 - start \in Nat
          /\ Len(tokens) + 3 - (Len(tokens) + 3 - start) = start
      OBVIOUS
    <2>2. \E h : AreLists(h, tokens, types, Len(tokens) + 3 - (Len(tokens) + 3 - start))
      BY <2>1, ListsExist
    <2> QED
      BY <2>1, <2>2
  <1>2. AreLists(from, tokens, types, start)
    BY <1>1, Zenon DEF from, AreLists, ListFrom
  <1>3. ListAt(tokens, start, types) = from[start]
    BY Zenon DEF ListAt, from
  <1> HIDE DEF from
  <1> QED
    BY <1>2, <1>3

\* From start on there are n tokens of the types with commas between them, and no
\* comma behind the last one.
IsListOf(tokens, start, types, n) ==
    /\ \A i \in 1..n : IsAt(tokens, start + 2 * i - 2, types)
    /\ \A i \in 1..(n - 1) : IsAt(tokens, start + 2 * i - 1, {"COMMA"})
    /\ ~IsAt(tokens, start + 2 * n - 1, {"COMMA"})

ItemsOf(tokens, start, n) == [i \in 1..n |-> tokens[start + 2 * i - 2].lexeme]

LEMMA ItemBefore ==
  ASSUME NEW old, NEW next, NEW item
  PROVE  [[items |-> old, next |-> next] EXCEPT !.items = item \o @]
           = [items |-> item \o old, next |-> next]
  <1> DEFINE r == [items |-> old, next |-> next]
             new == item \o old
  <1>1. DOMAIN r = {"items", "next"} /\ r.next = next /\ r.items = old
    OBVIOUS
  <1>2. item \o r.items = new
    BY <1>1
  <1> HIDE DEF r, new
  <1>3. [r EXCEPT !.items = item \o @]
          = [x \in {"items", "next"} |-> IF x = "items" THEN new ELSE r[x]]
    BY <1>1, <1>2
  <1>4. [items |-> new, next |-> next]
          = [x \in {"items", "next"} |-> IF x = "items" THEN new ELSE next]
    OBVIOUS
  <1>5. [r EXCEPT !.items = item \o @] = [items |-> new, next |-> next]
    BY <1>1, <1>3, <1>4
  <1> QED
    BY <1>5 DEF r, new

\* The loop over a list accepts the lists and returns their items.
LEMMA ListAtIsList ==
  ASSUME NEW tokens, Len(tokens) \in Nat, NEW types, NEW start \in 1..(Len(tokens) + 2)
  PROVE  /\ \A n \in Nat \ {0} :
              IsListOf(tokens, start, types, n) =>
                ListAt(tokens, start, types)
                  = Some([items |-> ItemsOf(tokens, start, n), next |-> start + 2 * n - 1])
         /\ ListAt(tokens, start, types).has_value =>
              \E n \in Nat \ {0} : IsListOf(tokens, start, types, n)
  <1> DEFINE top == Len(tokens) + 2
  <1>1. PICK h : AreLists(h, tokens, types, start) /\ ListAt(tokens, start, types) = h[start]
    BY ListAtDef
  <1>2. \A k \in start..top : h[k] = ListFrom(h, tokens, types, k)
    BY <1>1, Zenon DEF AreLists
  <1> DEFINE Result(k, n) == Some([items |-> ItemsOf(tokens, k, n), next |-> k + 2 * n - 1])
             Good(k) == /\ \A n \in Nat \ {0} :
                              IsListOf(tokens, k, types, n) => h[k] = Result(k, n)
                        /\ h[k].has_value => \E n \in Nat \ {0} : IsListOf(tokens, k, types, n)
             S == {m \in Nat : \A k \in start..top : top - m < k => Good(k)}
  <1> USE DEF nullopt, Some
  <1>3. ASSUME NEW k \in start..top, k + 2 \in start..top => Good(k + 2) PROVE Good(k)
    <2>0. k \in Nat /\ k >= 1 /\ h[k] = ListFrom(h, tokens, types, k)
      BY <1>2
    <2> HIDE DEF Result
    <2>1. CASE ~IsAt(tokens, k, types)
      <3>1. ~h[k].has_value
        BY <2>0, <2>1 DEF ListFrom
      <3>2. ASSUME NEW n \in Nat \ {0}, IsListOf(tokens, k, types, n) PROVE FALSE
        <4>1. 1 \in 1..n /\ k + 2 * 1 - 2 = k
          BY <2>0
        <4> QED
          BY <2>1, <3>2, <4>1 DEF IsListOf
      <3> QED
        BY <3>1, <3>2
    <2>2. CASE IsAt(tokens, k, types) /\ ~IsAt(tokens, k + 1, {"COMMA"})
      <3>1. h[k] = Some([items |-> <<tokens[k].lexeme>>, next |-> k + 1])
        BY <2>0, <2>2 DEF ListFrom
      <3>2. ASSUME NEW n \in Nat \ {0}, IsListOf(tokens, k, types, n) PROVE n = 1
        <4> SUFFICES ASSUME n # 1 PROVE FALSE
          OBVIOUS
        <4>1. 1 \in 1..(n - 1) /\ k + 2 * 1 - 1 = k + 1
          BY <2>0
        <4> QED
          BY <2>2, <3>2, <4>1 DEF IsListOf
      <3>3. k + 2 * 1 - 2 = k /\ k + 2 * 1 - 1 = k + 1 /\ 1 \in Nat \ {0}
            /\ (\A i \in 1..1 : i = 1) /\ \A i \in 1..(1 - 1) : FALSE
        BY <2>0
      <3>4. IsListOf(tokens, k, types, 1)
        BY <2>2, <3>3 DEF IsListOf
      <3>5. ItemsOf(tokens, k, 1) = <<tokens[k].lexeme>>
        BY <3>3 DEF ItemsOf
      <3>6. h[k] = Result(k, 1)
        BY <3>1, <3>3, <3>5 DEF Result
      <3> QED
        BY <3>2, <3>3, <3>4, <3>6
    <2>3. CASE IsAt(tokens, k, types) /\ IsAt(tokens, k + 1, {"COMMA"})
      <3>1. k <= Len(tokens) /\ k \in 1..Len(tokens)
        BY <2>0, <2>3 DEF IsAt
      <3>2. k + 2 \in start..top
        BY <3>1
      <3>3. Good(k + 2)
        BY <1>3, <3>2
      <3>4. h[k] = IF h[k + 2].has_value
                   THEN Some([h[k + 2].value EXCEPT !.items = <<tokens[k].lexeme>> \o @])
                   ELSE nullopt
        BY <2>0, <2>3 DEF ListFrom
      <3>5. ASSUME NEW n \in Nat \ {0}
            PROVE  IsListOf(tokens, k, types, n) <=> n > 1 /\ IsListOf(tokens, k + 2, types, n - 1)
        <4>1. ASSUME IsListOf(tokens, k, types, n)
              PROVE  n > 1 /\ IsListOf(tokens, k + 2, types, n - 1)
          <5>1. n # 1
            <6>1. k + 2 * 1 - 1 = k + 1
              BY <2>0
            <6> QED
              BY <2>3, <4>1, <6>1 DEF IsListOf
          <5>2. ASSUME NEW i \in 1..(n - 1)
                PROVE  IsAt(tokens, (k + 2) + 2 * i - 2, types)
            <6>1. i + 1 \in 1..n /\ k + 2 * (i + 1) - 2 = (k + 2) + 2 * i - 2
              BY <2>0
            <6> QED
              BY <4>1, <6>1 DEF IsListOf
          <5>3. ASSUME NEW i \in 1..((n - 1) - 1)
                PROVE  IsAt(tokens, (k + 2) + 2 * i - 1, {"COMMA"})
            <6>1. i + 1 \in 1..(n - 1) /\ k + 2 * (i + 1) - 1 = (k + 2) + 2 * i - 1
              BY <2>0
            <6> QED
              BY <4>1, <6>1 DEF IsListOf
          <5>4. k + 2 * n - 1 = (k + 2) + 2 * (n - 1) - 1
            BY <2>0
          <5> QED
            BY <4>1, <5>1, <5>2, <5>3, <5>4 DEF IsListOf
        <4>2. ASSUME n > 1, IsListOf(tokens, k + 2, types, n - 1)
              PROVE  IsListOf(tokens, k, types, n)
          <5>1. ASSUME NEW i \in 1..n PROVE IsAt(tokens, k + 2 * i - 2, types)
            <6>1. CASE i = 1
              <7>1. k + 2 * 1 - 2 = k
                BY <2>0
              <7> QED
                BY <2>3, <6>1, <7>1
            <6>2. CASE i # 1
              <7>1. i - 1 \in 1..(n - 1) /\ (k + 2) + 2 * (i - 1) - 2 = k + 2 * i - 2
                BY <2>0, <6>2
              <7> QED
                BY <4>2, <7>1 DEF IsListOf
            <6> QED
              BY <6>1, <6>2
          <5>2. ASSUME NEW i \in 1..(n - 1) PROVE IsAt(tokens, k + 2 * i - 1, {"COMMA"})
            <6>1. CASE i = 1
              <7>1. k + 2 * 1 - 1 = k + 1
                BY <2>0
              <7> QED
                BY <2>3, <6>1, <7>1
            <6>2. CASE i # 1
              <7>1. i - 1 \in 1..((n - 1) - 1) /\ (k + 2) + 2 * (i - 1) - 1 = k + 2 * i - 1
                BY <2>0, <6>2
              <7> QED
                BY <4>2, <7>1 DEF IsListOf
            <6> QED
              BY <6>1, <6>2
          <5>3. k + 2 * n - 1 = (k + 2) + 2 * (n - 1) - 1
            BY <2>0
          <5> QED
            BY <4>2, <5>1, <5>2, <5>3 DEF IsListOf
        <4> QED
          BY <4>1, <4>2
      <3>6. ASSUME NEW n \in Nat \ {0}, IsListOf(tokens, k, types, n) PROVE h[k] = Result(k, n)
        <4>1. n - 1 \in Nat \ {0} /\ IsListOf(tokens, k + 2, types, n - 1)
          BY <3>5, <3>6
        <4>2. h[k + 2] = Result(k + 2, n - 1)
          BY <3>3, <4>1
        <4> DEFINE rest == ItemsOf(tokens, k + 2, n - 1)
                   first == tokens[k].lexeme
        <4>3. h[k] = Some([items |-> <<first>> \o rest, next |-> (k + 2) + 2 * (n - 1) - 1])
          <5> DEFINE after == (k + 2) + 2 * (n - 1) - 1
          <5>1. h[k + 2].has_value /\ h[k + 2].value = [items |-> rest, next |-> after]
            BY <4>2 DEF Result
          <5> HIDE DEF rest, first, after
          <5>2. [[items |-> rest, next |-> after] EXCEPT !.items = <<first>> \o @]
                  = [items |-> <<first>> \o rest, next |-> after]
            BY ItemBefore
          <5>3. h[k] = Some([h[k + 2].value EXCEPT !.items = <<first>> \o @])
            BY <3>4, <5>1 DEF first
          <5>4. h[k] = Some([items |-> <<first>> \o rest, next |-> after])
            BY <5>1, <5>2, <5>3
          <5> QED
            BY <5>4 DEF after
        <4>4. (k + 2) + 2 * (n - 1) - 1 = k + 2 * n - 1
          BY <2>0
        <4>5. <<first>> \o rest = ItemsOf(tokens, k, n)
          <5> DEFINE E == {first} \cup {rest[i] : i \in 1..(n - 1)}
                     all == ItemsOf(tokens, k, n)
          <5>1. rest = [i \in 1..(n - 1) |-> tokens[(k + 2) + 2 * i - 2].lexeme]
            BY DEF ItemsOf
          <5>2. \A i \in 1..(n - 1) : (k + 2) + 2 * i - 2 = k + 2 * (i + 1) - 2
            BY <2>0
          <5>3. \A i \in 1..(n - 1) : rest[i] = tokens[k + 2 * (i + 1) - 2].lexeme
            BY <5>1, <5>2
          <5>4. all = [i \in 1..n |-> tokens[k + 2 * i - 2].lexeme]
            BY DEF ItemsOf
          <5>5. k + 2 * 1 - 2 = k
            BY <2>0
          <5>6. all[1] = first /\ \A i \in 1..(n - 1) : all[i + 1] = rest[i]
            BY <5>3, <5>4, <5>5
          <5>7. rest \in Seq(E) /\ Len(rest) = n - 1
            BY <4>1, <5>1
          <5>8. DOMAIN all = 1..n /\ all = [i \in 1..n |-> all[i]]
            BY <5>4
          <5> HIDE DEF rest, all, first
          <5>9. /\ <<first>> \o rest \in Seq(E) /\ Len(<<first>> \o rest) = n
                /\ (<<first>> \o rest)[1] = first
                /\ \A i \in 1..(n - 1) : (<<first>> \o rest)[i + 1] = rest[i]
            BY <4>1, <5>7
          <5> DEFINE both == <<first>> \o rest
          <5> HIDE DEF both, E
          <5>10. \A i \in 1..n : both[i] = all[i]
            <6> SUFFICES ASSUME NEW i \in 1..n PROVE both[i] = all[i]
              OBVIOUS
            <6>1. CASE i = 1
              BY <5>6, <5>9, <6>1 DEF both
            <6>2. CASE i # 1
              <7>1. i - 1 \in 1..(n - 1) /\ (i - 1) + 1 = i
                BY <6>2
              <7> QED
                BY <5>6, <5>9, <7>1 DEF both
            <6> QED
              BY <6>1, <6>2
          <5>11. both \in Seq(E) /\ Len(both) = n
            BY <5>9 DEF both
          <5>12. both = [i \in 1..n |-> both[i]]
            BY <5>11
          <5> QED
            BY <5>8, <5>10, <5>12 DEF both, all
        <4> QED
          BY <4>3, <4>4, <4>5 DEF Result
      <3>7. ASSUME h[k].has_value PROVE \E n \in Nat \ {0} : IsListOf(tokens, k, types, n)
        <4>1. h[k + 2].has_value
          BY <3>4, <3>7
        <4>2. PICK n \in Nat \ {0} : IsListOf(tokens, k + 2, types, n)
          BY <3>3, <4>1
        <4>3. n + 1 \in Nat \ {0} /\ (n + 1) - 1 = n /\ n + 1 > 1
          OBVIOUS
        <4>4. IsListOf(tokens, k, types, n + 1)
          BY <3>5, <4>2, <4>3
        <4> QED
          BY <4>3, <4>4
      <3> QED
        BY <3>6, <3>7
    <2> QED
      BY <2>1, <2>2, <2>3
  <1> HIDE DEF Good
  <1>4. 0 \in S
    OBVIOUS
  <1>5. ASSUME NEW m \in Nat, m \in S PROVE m + 1 \in S
    <2> SUFFICES ASSUME NEW k \in start..top, top - (m + 1) < k PROVE Good(k)
      OBVIOUS
    <2>1. k + 2 \in start..top => top - m < k + 2
      OBVIOUS
    <2>2. k + 2 \in start..top => Good(k + 2)
      BY <1>5, <2>1
    <2> QED
      BY <1>3, <2>2
  <1>6. Nat \subseteq S
    <2> HIDE DEF S
    <2> QED
      BY <1>4, <1>5, SetInduction
  <1>7. Good(start)
    <2>1. top \in Nat /\ start \in start..top /\ top - top < start
      OBVIOUS
    <2>2. top \in S
      BY <1>6, <2>1
    <2> QED
      BY <2>1, <2>2
  <1> QED
    BY <1>1, <1>7 DEF Good

-----------------------------------------------------------------------------
(***************************************************************************)
(* The tokenizer.                                                          *)
(***************************************************************************)

\* From i up to, and without, end there are such characters, and no more of them.
IsRun(input, i, end, chars) ==
    /\ end \in i..(Len(input) + 1)
    /\ \A k \in i..(end - 1) : input[k] \in chars
    /\ end = Len(input) + 1 \/ input[end] \notin chars

LEMMA EndOfIsRun ==
  ASSUME NEW input, Len(input) \in Nat, NEW i \in 1..(Len(input) + 1), NEW chars
  PROVE  IsRun(input, i, EndOf(input, i, chars), chars)
  <1> DEFINE stop == Len(input) + 1
             T == {j \in i..stop : j = stop \/ input[j] \notin chars}
  <1>1. stop \in T /\ T \subseteq Nat
    OBVIOUS
  <1>2. PICK j \in T : \A y \in T : ~ (<<y, j>> \in OpToRel(<, Nat))
    <2>1. IsWellFoundedOn(OpToRel(<, Nat), Nat)
      BY NatLessThanWellFounded
    <2> HIDE DEF T
    <2> QED
      BY <1>1, <2>1, WFMin
  <1>3. \A y \in T : ~(y < j)
    BY <1>1, <1>2 DEF OpToRel
  <1>4. ASSUME NEW k \in i..(j - 1) PROVE input[k] \in chars
    <2>1. k \in i..stop /\ k < j
      OBVIOUS
    <2> QED
      BY <1>3, <2>1
  <1>5. IsRun(input, i, j, chars)
    BY <1>4 DEF IsRun
  <1> QED
    BY <1>5 DEF EndOf, IsRun

\* What a turn of the loop of tokenize may read at i: a sign,
ReadsSign(input, i, t) ==
    /\ input[i] \in DOMAIN Punctuation
    /\ t = [token |-> Token(Punctuation[input[i]], <<input[i]>>), next |-> i + 1]

\* a literal between two quotes,
ReadsLiteral(input, i, t) ==
    /\ input[i] = Quote
    /\ t.next \in (i + 2)..(Len(input) + 1) /\ input[t.next - 1] = Quote
    /\ \A k \in (i + 1)..(t.next - 2) : input[k] # Quote
    /\ t.token = Token("STRING_LITERAL", SubSeq(input, i + 1, t.next - 2))

\* a number,
ReadsNumber(input, i, t) ==
    /\ input[i] \in Digit
    /\ t.next > i /\ IsRun(input, i, t.next, Digit)
    /\ t.token = Token("INTEGER_LITERAL", SubSeq(input, i, t.next - 1))

\* or a word.
ReadsWord(input, i, t) ==
    /\ input[i] \in IdentifierStart
    /\ t.next > i /\ IsRun(input, i, t.next, IdentifierPart)
    /\ LET lexeme == SubSeq(input, i, t.next - 1)
       IN  t.token = Token(classifyIdentifier(lexeme), lexeme)

\* The classes of characters exclude each other.
LEMMA Classes ==
  ASSUME NEW c
  PROVE  /\ c \in DOMAIN Punctuation => c # Quote /\ c \notin IdentifierPart /\ c \notin Space
         /\ c = Quote => c \notin IdentifierPart /\ c \notin Space
         /\ c \in Digit => c \notin IdentifierStart
         /\ c \in IdentifierPart <=> c \in Digit \/ c \in IdentifierStart
         /\ c \in IdentifierPart => c \notin Space
  <1>1. "'" # "_" /\ DOMAIN Punctuation = {"*", ",", ";", "(", ")"}
        /\ "'" \notin {"*", ",", ";", "(", ")"} /\ "_" \notin {"*", ",", ";", "(", ")"}
    BY DEF Punctuation
  <1> HIDE DEF Punctuation
  <1> QED
    BY <1>1, TokenizerAssumption
       DEF TokenizerAssumption, Quote, Underscore, IdentifierStart, IdentifierPart

LEMMA ReadTokenIs ==
  ASSUME NEW input, Len(input) \in Nat, DOMAIN input = 1..Len(input),
         NEW i \in 1..Len(input)
  PROVE  LET r == readToken(input, i) IN
           /\ r.has_value \in BOOLEAN
           /\ r.has_value => \/ ReadsSign(input, i, r.value)
                             \/ ReadsLiteral(input, i, r.value)
                             \/ ReadsNumber(input, i, r.value)
                             \/ ReadsWord(input, i, r.value)
           /\ ~r.has_value =>
                \/ input[i] = Quote /\ \A k \in (i + 1)..Len(input) : input[k] # Quote
                \/ input[i] \notin DOMAIN Punctuation \cup {Quote} \cup IdentifierPart
  <1> DEFINE c == input[i]
             r == readToken(input, i)
             Goal == /\ r.has_value \in BOOLEAN
                     /\ r.has_value => \/ ReadsSign(input, i, r.value)
                                       \/ ReadsLiteral(input, i, r.value)
                                       \/ ReadsNumber(input, i, r.value)
                                       \/ ReadsWord(input, i, r.value)
                     /\ ~r.has_value =>
                          \/ c = Quote /\ \A k \in (i + 1)..Len(input) : input[k] # Quote
                          \/ c \notin DOMAIN Punctuation \cup {Quote} \cup IdentifierPart
  <1> SUFFICES Goal
    OBVIOUS
  <1>0. i \in 1..(Len(input) + 1) /\ i + 1 \in 1..(Len(input) + 1)
    OBVIOUS
  <1>1. CASE c \in DOMAIN Punctuation
    <2>1. c # Quote /\ c \notin Digit /\ c \notin IdentifierStart
      BY <1>1, Classes
    <2>2. r = Read(Token(Punctuation[c], <<c>>), i + 1)
      BY <1>1, <2>1 DEF readToken
    <2>3. r.has_value /\ r.value = [token |-> Token(Punctuation[c], <<c>>), next |-> i + 1]
      BY <2>2 DEF Read, Some
    <2>4. ReadsSign(input, i, r.value) /\ r.has_value = TRUE
      BY <1>1, <2>2, <2>3 DEF ReadsSign, Read, Some
    <2> QED
      BY <2>4
  <1>2. CASE c = Quote
    <2> DEFINE chars == {input[k] : k \in DOMAIN input} \ {Quote}
               end == EndOf(input, i + 1, chars)
    <2>1. c \notin DOMAIN Punctuation /\ c \notin Digit /\ c \notin IdentifierStart
      BY <1>2, Classes
    <2>2. r = readStringLiteral(input, i)
      BY <1>2, <2>1 DEF readToken
    <2>3. IsRun(input, i + 1, end, chars)
      BY <1>0, EndOfIsRun
    <2>4. r = IF end > Len(input) THEN nullopt
              ELSE Read(Token("STRING_LITERAL", SubSeq(input, i + 1, end - 1)), end + 1)
      BY <2>2 DEF readStringLiteral
    <2>5. \A k \in 1..Len(input) : input[k] \in chars <=> input[k] # Quote
      OBVIOUS
    <2>6. /\ end \in (i + 1)..(Len(input) + 1)
          /\ \A k \in (i + 1)..(end - 1) : input[k] \in chars
          /\ end = Len(input) + 1 \/ input[end] \notin chars
      BY <2>3 DEF IsRun
    <2> HIDE DEF end, chars, r
    <2>7. \A k \in (i + 1)..(end - 1) : input[k] # Quote
      <3> SUFFICES ASSUME NEW k \in (i + 1)..(end - 1) PROVE input[k] # Quote
        OBVIOUS
      <3>1. k \in 1..Len(input)
        BY <2>6
      <3> QED
        BY <2>5, <2>6, <3>1
    <2>8. CASE end > Len(input)
      <3>1. ~r.has_value /\ r.has_value \in BOOLEAN
        BY <2>4, <2>8 DEF nullopt
      <3>2. end - 1 = Len(input)
        BY <2>6, <2>8
      <3> QED
        BY <1>2, <2>7, <3>1, <3>2
    <2>9. CASE ~(end > Len(input))
      <3>1. r = Some([token |-> Token("STRING_LITERAL", SubSeq(input, i + 1, end - 1)),
                      next |-> end + 1])
        BY <2>4, <2>9 DEF Read
      <3>2. /\ r.has_value = TRUE /\ r.value.next = end + 1
            /\ r.value.token = Token("STRING_LITERAL", SubSeq(input, i + 1, end - 1))
        BY <3>1 DEF Some
      <3>3. /\ end + 1 \in (i + 2)..(Len(input) + 1)
            /\ (end + 1) - 1 = end /\ (end + 1) - 2 = end - 1 /\ end \in 1..Len(input)
        BY <2>6, <2>9
      <3>4. input[end] = Quote
        BY <2>5, <2>6, <2>9, <3>3
      <3>5. ReadsLiteral(input, i, r.value)
        BY <1>2, <2>7, <3>2, <3>3, <3>4 DEF ReadsLiteral
      <3> QED
        BY <3>2, <3>5
    <2> QED
      BY <2>8, <2>9
  <1>3. CASE c \in Digit
    <2> DEFINE end == EndOf(input, i, Digit)
    <2>1. c \notin DOMAIN Punctuation /\ c # Quote /\ c \notin IdentifierStart
      BY <1>3, Classes
    <2>2. r = readIntegerLiteral(input, i)
      BY <1>3, <2>1 DEF readToken
    <2>3. IsRun(input, i, end, Digit)
      BY <1>0, EndOfIsRun
    <2>4. r = Read(Token("INTEGER_LITERAL", SubSeq(input, i, end - 1)), end)
      BY <2>2 DEF readIntegerLiteral
    <2> HIDE DEF end, r
    <2>5. /\ r.has_value = TRUE /\ r.value.next = end
          /\ r.value.token = Token("INTEGER_LITERAL", SubSeq(input, i, end - 1))
      BY <2>4 DEF Read, Some
    <2>6. end > i
      BY <1>3, <2>3 DEF IsRun
    <2>7. ReadsNumber(input, i, r.value)
      BY <1>3, <2>3, <2>5, <2>6 DEF ReadsNumber
    <2> QED
      BY <2>5, <2>7
  <1>4. CASE c \in IdentifierStart
    <2> DEFINE end == EndOf(input, i, IdentifierPart)
               lexeme == SubSeq(input, i, end - 1)
    <2>1. c \notin DOMAIN Punctuation /\ c # Quote /\ c \notin Digit /\ c \in IdentifierPart
      BY <1>4, Classes
    <2>2. r = readIdentifier(input, i)
      BY <1>4, <2>1 DEF readToken
    <2>3. IsRun(input, i, end, IdentifierPart)
      BY <1>0, EndOfIsRun
    <2>4. r = Read(Token(classifyIdentifier(lexeme), lexeme), end)
      BY <2>2 DEF readIdentifier
    <2> HIDE DEF end, r
    <2>5. /\ r.has_value = TRUE /\ r.value.next = end
          /\ r.value.token = Token(classifyIdentifier(lexeme), lexeme)
      BY <2>4 DEF Read, Some
    <2>6. end > i
      BY <2>1, <2>3 DEF IsRun
    <2>7. ReadsWord(input, i, r.value)
      BY <1>4, <2>3, <2>5, <2>6 DEF ReadsWord
    <2> QED
      BY <2>5, <2>7
  <1>5. CASE c \notin DOMAIN Punctuation \cup {Quote} \cup Digit \cup IdentifierStart
    <2>1. r = nullopt
      BY <1>5 DEF readToken
    <2>2. c \notin IdentifierPart
      BY <1>5, Classes
    <2>3. r.has_value = FALSE
      BY <2>1 DEF nullopt
    <2> QED
      BY <1>5, <2>2, <2>3
  <1> QED
    BY <1>1, <1>2, <1>3, <1>4, <1>5

\* Every token ends behind its beginning.
LEMMA ReadsOn ==
  ASSUME NEW input, Len(input) \in Nat, DOMAIN input = 1..Len(input),
         NEW i \in 1..Len(input), readToken(input, i).has_value
  PROVE  readToken(input, i).value.next \in (i + 1)..(Len(input) + 1)
  <1> DEFINE t == readToken(input, i).value
  <1>1. \/ ReadsSign(input, i, t)
        \/ ReadsLiteral(input, i, t)
        \/ ReadsNumber(input, i, t)
        \/ ReadsWord(input, i, t)
    BY ReadTokenIs
  <1> HIDE DEF t
  <1>2. ReadsSign(input, i, t) => t.next = i + 1
    BY DEF ReadsSign
  <1>3. t.next \in (i + 1)..(Len(input) + 1)
    BY <1>1, <1>2 DEF ReadsLiteral, ReadsNumber, ReadsWord, IsRun
  <1> QED
    BY <1>3 DEF t

\* h[i] is what tokenize makes of the line from i on.
TokensFrom(h, input, i) ==
    IF i > Len(input) THEN Some(<<>>)
    ELSE IF input[i] \in Space THEN h[i + 1]
    ELSE LET first == readToken(input, i)
             rest  == h[first.value.next]
         IN  IF first.has_value /\ rest.has_value
             THEN Some(<<first.value.token>> \o rest.value)
             ELSE nullopt

AreTokens(h, input, low) ==
    h = [i \in low..(Len(input) + 1) |-> TokensFrom(h, input, i)]

LEMMA TokensExist ==
  ASSUME NEW input, Len(input) \in Nat, DOMAIN input = 1..Len(input)
  PROVE  \A m \in Nat : m <= Len(input) + 1 =>
            \E h : AreTokens(h, input, Len(input) + 2 - m)
  <1> DEFINE top == Len(input) + 1
             S == {m \in Nat : m <= top => \E h : AreTokens(h, input, top + 1 - m)}
  <1>0. top \in Nat /\ \A m \in Nat : Len(input) + 2 - m = top + 1 - m
    OBVIOUS
  <1>1. 0 \in S
    <2> DEFINE h == [i \in {} |-> nullopt]
    <2>1. (top + 1 - 0)..top = {}
      BY <1>0
    <2>2. AreTokens(h, input, top + 1 - 0)
      <3>1. h = [i \in {} |-> TokensFrom(h, input, i)]
        OBVIOUS
      <3> HIDE DEF h
      <3> QED
        BY <2>1, <3>1 DEF AreTokens
    <2> HIDE DEF h
    <2> QED
      BY <2>2
  <1>2. ASSUME NEW m \in Nat, m \in S PROVE m + 1 \in S
    <2> SUFFICES ASSUME m + 1 <= top PROVE \E h : AreTokens(h, input, top + 1 - (m + 1))
      OBVIOUS
    <2>1. PICK h : AreTokens(h, input, top + 1 - m)
      BY <1>0, <1>2
    <2> DEFINE old == (top + 1 - m)..top
               more == (top + 1 - (m + 1))..top
               w == [i \in more |-> IF i \in old THEN h[i] ELSE TokensFrom(h, input, i)]
    <2>2. \A i \in old : h[i] = TokensFrom(h, input, i)
      BY <2>1 DEF AreTokens
    <2>3. ASSUME NEW i \in more PROVE w[i] = TokensFrom(w, input, i)
      <3>1. w[i] = TokensFrom(h, input, i)
        BY <2>2
      <3>2. \A j \in (i + 1)..top : w[j] = h[j]
        <4>1. \A j \in (i + 1)..top : j \in old /\ j \in more
          BY <1>0
        <4> QED
          BY <4>1
      <3>3. i \in 1..top
        BY <1>0
      <3> HIDE DEF w, old, more
      <3>4. CASE i > Len(input)
        BY <3>1, <3>4 DEF TokensFrom
      <3>5. CASE i <= Len(input) /\ input[i] \in Space
        <4>1. i + 1 \in (i + 1)..top
          BY <3>3, <3>5
        <4>2. TokensFrom(h, input, i) = h[i + 1] /\ TokensFrom(w, input, i) = w[i + 1]
          BY <3>3, <3>5 DEF TokensFrom
        <4> QED
          BY <3>1, <3>2, <4>1, <4>2
      <3>6. CASE i <= Len(input) /\ input[i] \notin Space
        <4> DEFINE first == readToken(input, i)
        <4>1. i \in 1..Len(input)
          BY <3>3, <3>6
        <4>2. first.has_value => w[first.value.next] = h[first.value.next]
          BY <3>2, <4>1, ReadsOn
        <4> HIDE DEF first
        <4>3. \A g : TokensFrom(g, input, i)
                       = IF first.has_value /\ g[first.value.next].has_value
                         THEN Some(<<first.value.token>> \o g[first.value.next].value)
                         ELSE nullopt
          BY <3>3, <3>6 DEF TokensFrom, first
        <4> QED
          BY <3>1, <4>2, <4>3
      <3> QED
        BY <3>3, <3>4, <3>5, <3>6
    <2>4. w = [i \in more |-> w[i]]
      OBVIOUS
    <2>5. more = (top + 1 - (m + 1))..(Len(input) + 1)
      OBVIOUS
    <2> HIDE DEF w, more
    <2>6. AreTokens(w, input, top + 1 - (m + 1))
      BY <2>3, <2>4, <2>5 DEF AreTokens
    <2> QED
      BY <2>6
  <1>3. Nat \subseteq S
    <2> HIDE DEF S
    <2> QED
      BY <1>1, <1>2, SetInduction
  <1> QED
    BY <1>0, <1>3

LEMMA TokenizeDef ==
  ASSUME NEW input, Len(input) \in Nat, DOMAIN input = 1..Len(input)
  PROVE  \E h : /\ \A i \in 1..(Len(input) + 1) : h[i] = TokensFrom(h, input, i)
                /\ tokenize(input) = h[1]
  <1> DEFINE from[i \in 1..(Len(input) + 1)] ==
               IF i > Len(input) THEN Some(<<>>)
               ELSE IF input[i] \in Space THEN from[i + 1]
               ELSE LET first == readToken(input, i)
                        rest  == from[first.value.next]
                    IN  IF first.has_value /\ rest.has_value
                        THEN Some(<<first.value.token>> \o rest.value)
                        ELSE nullopt
  <1>1. \E h : AreTokens(h, input, 1)
    <2>1. /\ Len(input) + 1 \in Nat /\ Len(input) + 1 <= Len(input) + 1
          /\ Len(input) + 2 - (Len(input) + 1) = 1
      OBVIOUS
    <2>2. \E h : AreTokens(h, input, Len(input) + 2 - (Len(input) + 1))
      BY <2>1, TokensExist
    <2> QED
      BY <2>1, <2>2
  <1>2. AreTokens(from, input, 1)
    BY <1>1, Zenon DEF from, AreTokens, TokensFrom
  <1>3. tokenize(input) = from[1]
    BY Zenon DEF tokenize, from
  <1> HIDE DEF from
  <1>4. \A i \in 1..(Len(input) + 1) : from[i] = TokensFrom(from, input, i)
    BY <1>2, Zenon DEF AreTokens
  <1> QED
    BY <1>3, <1>4

TokenTypes ==
    {"STAR", "COMMA", "SEMICOLON", "LEFT_PAREN", "RIGHT_PAREN", "STRING_LITERAL",
     "INTEGER_LITERAL", "IDENTIFIER", "SELECT", "FROM", "INSERT", "INTO", "VALUES"}

\* What tokenize may return; a name is never the star.
ProperTokens ==
    {t \in [type : TokenTypes, lexeme : Seq(STRING)] :
        t.type = "IDENTIFIER" => t.lexeme # Wildcard}

\* Part of a line.
LEMMA PartOfLine ==
  ASSUME NEW S, NEW s \in Seq(S), NEW m \in 1..(Len(s) + 1), NEW n \in (m - 1)..Len(s)
  PROVE  /\ SubSeq(s, m, n) \in Seq(S)
         /\ Len(SubSeq(s, m, n)) = n - m + 1
         /\ \A k \in 1..(n - m + 1) : SubSeq(s, m, n)[k] = s[m + k - 1]
  OBVIOUS

\* Whatever is read is a proper token.
LEMMA ReadsProper ==
  ASSUME NEW input \in Seq(STRING), NEW i \in 1..Len(input),
         readToken(input, i).has_value
  PROVE  readToken(input, i).value.token \in ProperTokens
  <1> DEFINE t == readToken(input, i).value
             Proper == [type : TokenTypes, lexeme : Seq(STRING)]
  <1>1. Len(input) \in Nat /\ DOMAIN input = 1..Len(input)
    OBVIOUS
  <1>2. \/ ReadsSign(input, i, t)
        \/ ReadsLiteral(input, i, t)
        \/ ReadsNumber(input, i, t)
        \/ ReadsWord(input, i, t)
    BY <1>1, ReadTokenIs
  <1> HIDE DEF t
  <1> SUFFICES t.token \in ProperTokens
    BY DEF t
  <1>3. CASE ReadsSign(input, i, t)
    <2> DEFINE c == input[i]
               type == Punctuation[c]
    <2>1. t.token = Token(type, <<c>>)
      BY <1>3 DEF ReadsSign
    <2>2. type \in {"STAR", "COMMA", "SEMICOLON", "LEFT_PAREN", "RIGHT_PAREN"}
      BY <1>3 DEF ReadsSign, Punctuation
    <2>3. c \in STRING
      BY <1>1
    <2> HIDE DEF c, type
    <2>4. <<c>> \in Seq(STRING)
      BY <2>3
    <2>5. type \in TokenTypes /\ type # "IDENTIFIER"
      BY <2>2 DEF TokenTypes
    <2> QED
      BY <2>1, <2>4, <2>5 DEF ProperTokens, Token
  <1>4. CASE ReadsLiteral(input, i, t)
    <2> DEFINE lexeme == SubSeq(input, i + 1, t.next - 2)
    <2>1. i + 1 \in 1..(Len(input) + 1) /\ t.next - 2 \in ((i + 1) - 1)..Len(input)
      BY <1>1, <1>4 DEF ReadsLiteral
    <2>2. lexeme \in Seq(STRING)
      BY <2>1, PartOfLine
    <2>3. t.token = Token("STRING_LITERAL", lexeme)
      BY <1>4 DEF ReadsLiteral
    <2> HIDE DEF lexeme
    <2> QED
      BY <2>2, <2>3 DEF ProperTokens, Token, TokenTypes
  <1>5. CASE ReadsNumber(input, i, t)
    <2> DEFINE lexeme == SubSeq(input, i, t.next - 1)
    <2>1. i \in 1..(Len(input) + 1) /\ t.next - 1 \in (i - 1)..Len(input)
      BY <1>1, <1>5 DEF ReadsNumber, IsRun
    <2>2. lexeme \in Seq(STRING)
      BY <2>1, PartOfLine
    <2>3. t.token = Token("INTEGER_LITERAL", lexeme)
      BY <1>5 DEF ReadsNumber
    <2> HIDE DEF lexeme
    <2> QED
      BY <2>2, <2>3 DEF ProperTokens, Token, TokenTypes
  <1>6. CASE ReadsWord(input, i, t)
    <2> DEFINE lexeme == SubSeq(input, i, t.next - 1)
               type == classifyIdentifier(lexeme)
    <2>1. i \in 1..(Len(input) + 1) /\ t.next - 1 \in (i - 1)..Len(input) /\ t.next - 1 >= i
      BY <1>1, <1>6 DEF ReadsWord, IsRun
    <2>2. lexeme \in Seq(STRING) /\ lexeme[1] = input[i]
      <3>1. 1 \in 1..((t.next - 1) - i + 1) /\ i + 1 - 1 = i
        BY <2>1
      <3> QED
        BY <2>1, <3>1, PartOfLine
    <2>3. t.token = Token(type, lexeme)
      BY <1>6 DEF ReadsWord
    <2>4. type \in {"IDENTIFIER", "SELECT", "FROM", "INSERT", "INTO", "VALUES"}
      BY TokenizerAssumption DEF classifyIdentifier, TokenizerAssumption, Range
    <2>5. input[i] # "*"
      <3>1. input[i] \in IdentifierPart
        BY <1>6, Classes DEF ReadsWord
      <3>2. "*" \in DOMAIN Punctuation
        BY DEF Punctuation
      <3> QED
        BY <3>1, <3>2, Classes
    <2> HIDE DEF lexeme, type
    <2>6. lexeme # Wildcard
      BY <2>2, <2>5 DEF Wildcard
    <2> QED
      BY <2>2, <2>3, <2>4, <2>6 DEF ProperTokens, Token, TokenTypes
  <1> QED
    BY <1>2, <1>3, <1>4, <1>5, <1>6

\* A token before the others.
LEMMA TokenBefore ==
  ASSUME NEW S, NEW t \in S, NEW rest \in Seq(S)
  PROVE  /\ <<t>> \o rest \in Seq(S)
         /\ Len(<<t>> \o rest) = Len(rest) + 1
         /\ (<<t>> \o rest)[1] = t
         /\ \A k \in 1..Len(rest) : (<<t>> \o rest)[k + 1] = rest[k]
  OBVIOUS

\* The tokens of a line are proper.
LEMMA TokensAreProper ==
  ASSUME NEW input \in Seq(STRING)
  PROVE  /\ tokenize(input).has_value \in BOOLEAN
         /\ tokenize(input).has_value => tokenize(input).value \in Seq(ProperTokens)
  <1>1. Len(input) \in Nat /\ DOMAIN input = 1..Len(input)
    OBVIOUS
  <1> DEFINE top == Len(input) + 1
  <1>2. PICK h : /\ \A i \in 1..top : h[i] = TokensFrom(h, input, i)
                 /\ tokenize(input) = h[1]
    BY <1>1, TokenizeDef
  <1> DEFINE Good(i) == /\ h[i].has_value \in BOOLEAN
                        /\ h[i].has_value => h[i].value \in Seq(ProperTokens)
             S == {m \in Nat : \A i \in 1..top : top - m < i => Good(i)}
  <1>3. ASSUME NEW i \in 1..top, \A j \in (i + 1)..top : Good(j) PROVE Good(i)
    <2>1. h[i] = TokensFrom(h, input, i)
      BY <1>2
    <2>2. CASE i > Len(input)
      <3>1. h[i] = Some(<<>>)
        BY <2>1, <2>2 DEF TokensFrom
      <3>2. <<>> \in Seq(ProperTokens)
        OBVIOUS
      <3> QED
        BY <3>1, <3>2 DEF Some
    <2>3. CASE i <= Len(input) /\ input[i] \in Space
      <3>1. h[i] = h[i + 1]
        BY <1>1, <2>1, <2>3 DEF TokensFrom
      <3>2. i + 1 \in (i + 1)..top
        BY <1>1, <2>3
      <3> QED
        BY <1>3, <3>1, <3>2
    <2>4. CASE i <= Len(input) /\ input[i] \notin Space
      <3> DEFINE first == readToken(input, i)
                 rest == h[first.value.next]
      <3>1. h[i] = IF first.has_value /\ rest.has_value
                   THEN Some(<<first.value.token>> \o rest.value)
                   ELSE nullopt
        BY <1>1, <2>1, <2>4 DEF TokensFrom
      <3>2. i \in 1..Len(input)
        BY <1>1, <2>4
      <3>3. CASE first.has_value /\ rest.has_value
        <4>1. first.value.next \in (i + 1)..top
          BY <1>1, <3>2, <3>3, ReadsOn
        <4>2. rest.value \in Seq(ProperTokens)
          BY <1>3, <3>3, <4>1
        <4>3. first.value.token \in ProperTokens
          BY <3>2, <3>3, ReadsProper
        <4> DEFINE all == <<first.value.token>> \o rest.value
        <4>4. h[i] = Some(all)
          BY <3>1, <3>3
        <4> HIDE DEF first, rest
        <4>5. all \in Seq(ProperTokens)
          BY <4>2, <4>3, TokenBefore
        <4> HIDE DEF all
        <4> QED
          BY <4>4, <4>5 DEF Some
      <3>4. CASE ~(first.has_value /\ rest.has_value)
        <4>1. h[i] = nullopt
          BY <3>1, <3>4
        <4> QED
          BY <4>1 DEF nullopt
      <3> QED
        BY <3>3, <3>4
    <2> QED
      BY <1>1, <2>2, <2>3, <2>4
  <1> HIDE DEF Good
  <1>4. 0 \in S
    BY <1>1
  <1>5. ASSUME NEW m \in Nat, m \in S PROVE m + 1 \in S
    <2> SUFFICES ASSUME NEW i \in 1..top, top - (m + 1) < i PROVE Good(i)
      OBVIOUS
    <2>1. \A j \in (i + 1)..top : j \in 1..top /\ top - m < j
      BY <1>1
    <2>2. \A j \in (i + 1)..top : Good(j)
      BY <1>5, <2>1
    <2> QED
      BY <1>3, <2>2
  <1>6. Nat \subseteq S
    <2> HIDE DEF S
    <2> QED
      BY <1>4, <1>5, SetInduction
  <1>7. Good(1)
    <2>1. top \in Nat /\ 1 \in 1..top /\ top - top < 1
      BY <1>1
    <2>2. top \in S
      BY <1>6, <2>1
    <2> QED
      BY <2>1, <2>2
  <1> QED
    BY <1>2, <1>7 DEF Good

-----------------------------------------------------------------------------
(***************************************************************************)
(* The statements of the parser.                                           *)
(***************************************************************************)

\* Token k is of the type.
TypeAt(tokens, k, type) == k \in 1..Len(tokens) /\ tokens[k].type = type

Literals == {"STRING_LITERAL", "INTEGER_LITERAL"}

\* SELECT, n columns or a star, FROM, a name, and a semicolon.
IsSelectOf(tokens, n) ==
    /\ Len(tokens) = 2 * n + 3
    /\ TypeAt(tokens, 1, "SELECT")
    /\ \/ n = 1 /\ TypeAt(tokens, 2, "STAR")
       \/ IsListOf(tokens, 2, {"IDENTIFIER"}, n)
    /\ TypeAt(tokens, 2 * n + 1, "FROM")
    /\ TypeAt(tokens, 2 * n + 2, "IDENTIFIER")
    /\ TypeAt(tokens, 2 * n + 3, "SEMICOLON")

\* INSERT INTO, a name, VALUES, and n literals in parentheses, and a semicolon.
IsInsertOf(tokens, n) ==
    /\ Len(tokens) = 2 * n + 6
    /\ TypeAt(tokens, 1, "INSERT") /\ TypeAt(tokens, 2, "INTO")
    /\ TypeAt(tokens, 3, "IDENTIFIER") /\ TypeAt(tokens, 4, "VALUES")
    /\ TypeAt(tokens, 5, "LEFT_PAREN")
    /\ IsListOf(tokens, 6, Literals, n)
    /\ TypeAt(tokens, 2 * n + 5, "RIGHT_PAREN")
    /\ TypeAt(tokens, 2 * n + 6, "SEMICOLON")

\* The columns of a SELECT, as the parser returns them.
ColumnsOf(tokens, n) ==
    IF TypeAt(tokens, 2, "STAR") THEN <<Wildcard>> ELSE ItemsOf(tokens, 2, n)

LEMMA IsAtOne ==
  ASSUME NEW tokens, Len(tokens) \in Nat, NEW k \in Nat \ {0}, NEW type
  PROVE  IsAt(tokens, k, {type}) <=> TypeAt(tokens, k, type)
  BY DEF IsAt, TypeAt

\* The parser accepts these INSERTs and no others.
LEMMA ParseInsertIs ==
  ASSUME NEW tokens, Len(tokens) \in Nat
  PROVE  /\ \A n \in Nat \ {0} : IsInsertOf(tokens, n) =>
              parseInsert(tokens)
                = Some(InsertStatement(tokens[3].lexeme, ItemsOf(tokens, 6, n)))
         /\ parseInsert(tokens).has_value => \E n \in Nat \ {0} : IsInsertOf(tokens, n)
         /\ parseInsert(tokens).has_value \in BOOLEAN
  <1> DEFINE values == ListAt(tokens, 6, Literals)
             current == values.value.next
             ok == /\ IsAt(tokens, 1, {"INSERT"})
                   /\ IsAt(tokens, 2, {"INTO"})
                   /\ IsAt(tokens, 3, {"IDENTIFIER"})
                   /\ IsAt(tokens, 4, {"VALUES"})
                   /\ IsAt(tokens, 5, {"LEFT_PAREN"})
                   /\ values.has_value
                   /\ IsAt(tokens, current, {"RIGHT_PAREN"})
                   /\ IsAt(tokens, current + 1, {"SEMICOLON"})
                   /\ Len(tokens) = current + 1
  <1>1. parseInsert(tokens) = IF ok
                              THEN Some(InsertStatement(tokens[3].lexeme, values.value.items))
                              ELSE nullopt
    BY DEF parseInsert, Literals
  <1>2. parseInsert(tokens).has_value <=> ok
    BY <1>1 DEF Some, nullopt
  <1>3. parseInsert(tokens).has_value \in BOOLEAN
    BY <1>1 DEF Some, nullopt
  <1>4. ASSUME NEW n \in Nat \ {0}, IsInsertOf(tokens, n)
        PROVE  parseInsert(tokens)
                 = Some(InsertStatement(tokens[3].lexeme, ItemsOf(tokens, 6, n)))
    <2>1. IsListOf(tokens, 6, Literals, n) /\ 6 \in 1..(Len(tokens) + 2)
          /\ 6 + 2 * n - 1 = 2 * n + 5 /\ (2 * n + 5) + 1 = 2 * n + 6
          /\ Len(tokens) = 2 * n + 6
      BY <1>4 DEF IsInsertOf
    <2>2. values = Some([items |-> ItemsOf(tokens, 6, n), next |-> 6 + 2 * n - 1])
      BY <2>1, ListAtIsList
    <2>3. values.has_value /\ current = 2 * n + 5 /\ values.value.items = ItemsOf(tokens, 6, n)
      BY <2>1, <2>2 DEF Some
    <2> HIDE DEF values
    <2>4. ok
      BY <1>4, <2>1, <2>3, IsAtOne DEF IsInsertOf
    <2> QED
      BY <1>1, <2>3, <2>4
  <1>5. ASSUME ok PROVE \E n \in Nat \ {0} : IsInsertOf(tokens, n)
    <2>1. 5 <= Len(tokens) /\ 6 \in 1..(Len(tokens) + 2)
      BY <1>5 DEF IsAt
    <2>2. PICK n \in Nat \ {0} : IsListOf(tokens, 6, Literals, n)
      BY <1>5, <2>1, ListAtIsList
    <2>3. values = Some([items |-> ItemsOf(tokens, 6, n), next |-> 6 + 2 * n - 1])
      BY <2>1, <2>2, ListAtIsList
    <2>4. 6 + 2 * n - 1 = 2 * n + 5 /\ (2 * n + 5) + 1 = 2 * n + 6
          /\ 2 * n + 5 \in Nat \ {0} /\ 2 * n + 6 \in Nat \ {0}
      OBVIOUS
    <2>5. current = 2 * n + 5
      BY <2>3, <2>4 DEF Some
    <2> HIDE DEF values
    <2>6. IsInsertOf(tokens, n)
      BY <1>5, <2>2, <2>4, <2>5, IsAtOne DEF IsInsertOf
    <2> QED
      BY <2>6
  <1> QED
    BY <1>2, <1>3, <1>4, <1>5

\* The parser accepts these SELECTs and no others.
LEMMA ParseSelectIs ==
  ASSUME NEW tokens, Len(tokens) \in Nat
  PROVE  /\ \A n \in Nat \ {0} : IsSelectOf(tokens, n) =>
              parseSelect(tokens)
                = Some(SelectStatement(ColumnsOf(tokens, n), tokens[2 * n + 2].lexeme))
         /\ parseSelect(tokens).has_value => \E n \in Nat \ {0} : IsSelectOf(tokens, n)
         /\ parseSelect(tokens).has_value \in BOOLEAN
  <1> DEFINE columns == ProjectionAt(tokens, 2)
             current == columns.value.next
             ok == /\ IsAt(tokens, 1, {"SELECT"})
                   /\ columns.has_value
                   /\ IsAt(tokens, current, {"FROM"})
                   /\ IsAt(tokens, current + 1, {"IDENTIFIER"})
                   /\ IsAt(tokens, current + 2, {"SEMICOLON"})
                   /\ Len(tokens) = current + 2
  <1>1. parseSelect(tokens)
          = IF ok
            THEN Some(SelectStatement(columns.value.items, tokens[current + 1].lexeme))
            ELSE nullopt
    BY DEF parseSelect
  <1>2. parseSelect(tokens).has_value <=> ok
    BY <1>1 DEF Some, nullopt
  <1>3. parseSelect(tokens).has_value \in BOOLEAN
    BY <1>1 DEF Some, nullopt
  <1>4. columns = IF ~TypeAt(tokens, 2, "STAR") THEN ListAt(tokens, 2, {"IDENTIFIER"})
                  ELSE IF TypeAt(tokens, 3, "COMMA") THEN nullopt
                  ELSE Some([items |-> <<Wildcard>>, next |-> 3])
    <2>1. 2 + 1 = 3
      OBVIOUS
    <2> QED
      BY <2>1, IsAtOne DEF ProjectionAt
  <1>5. ASSUME NEW n \in Nat \ {0}, IsSelectOf(tokens, n)
        PROVE  parseSelect(tokens)
                 = Some(SelectStatement(ColumnsOf(tokens, n), tokens[2 * n + 2].lexeme))
    <2>1. 2 \in 1..(Len(tokens) + 2) /\ 2 + 2 * n - 1 = 2 * n + 1
          /\ (2 * n + 1) + 1 = 2 * n + 2 /\ (2 * n + 1) + 2 = 2 * n + 3
          /\ Len(tokens) = 2 * n + 3 /\ 1 \in 1..n /\ 2 + 2 * 1 - 2 = 2
          /\ 2 * n + 1 \in Nat \ {0} /\ 2 * n + 2 \in Nat \ {0} /\ 2 * n + 3 \in Nat \ {0}
      BY <1>5 DEF IsSelectOf
    <2>2. columns = Some([items |-> ColumnsOf(tokens, n), next |-> 2 * n + 1])
      <3>1. CASE TypeAt(tokens, 2, "STAR")
        <4>1. ~IsListOf(tokens, 2, {"IDENTIFIER"}, n)
          BY <2>1, <3>1 DEF IsListOf, IsAt, TypeAt
        <4>2. n = 1 /\ TypeAt(tokens, 3, "FROM")
          BY <1>5, <4>1 DEF IsSelectOf
        <4> QED
          BY <1>4, <3>1, <4>2 DEF TypeAt, ColumnsOf
      <3>2. CASE ~TypeAt(tokens, 2, "STAR")
        <4>1. IsListOf(tokens, 2, {"IDENTIFIER"}, n)
          BY <1>5, <3>2 DEF IsSelectOf
        <4>2. ListAt(tokens, 2, {"IDENTIFIER"})
                = Some([items |-> ItemsOf(tokens, 2, n), next |-> 2 + 2 * n - 1])
          BY <2>1, <4>1, ListAtIsList
        <4> QED
          BY <1>4, <2>1, <3>2, <4>2 DEF ColumnsOf
      <3> QED
        BY <3>1, <3>2
    <2>3. columns.has_value /\ current = 2 * n + 1 /\ columns.value.items = ColumnsOf(tokens, n)
      BY <2>2 DEF Some
    <2> HIDE DEF columns
    <2>4. ok
      BY <1>5, <2>1, <2>3, IsAtOne DEF IsSelectOf
    <2> QED
      BY <1>1, <2>1, <2>3, <2>4
  <1>6. ASSUME ok PROVE \E n \in Nat \ {0} : IsSelectOf(tokens, n)
    <2>1. 1 <= Len(tokens) /\ 2 \in 1..(Len(tokens) + 2)
      BY <1>6 DEF IsAt
    <2>2. PICK n \in Nat \ {0} : /\ current = 2 * n + 1
                                 /\ \/ n = 1 /\ TypeAt(tokens, 2, "STAR")
                                    \/ IsListOf(tokens, 2, {"IDENTIFIER"}, n)
      <3>1. CASE TypeAt(tokens, 2, "STAR")
        <4>1. current = 3
          BY <1>4, <1>6, <3>1 DEF Some, nullopt
        <4>2. 3 = 2 * 1 + 1 /\ 1 \in Nat \ {0}
          OBVIOUS
        <4> QED
          BY <3>1, <4>1, <4>2
      <3>2. CASE ~TypeAt(tokens, 2, "STAR")
        <4>1. columns = ListAt(tokens, 2, {"IDENTIFIER"})
          BY <1>4, <3>2
        <4>2. PICK n \in Nat \ {0} : IsListOf(tokens, 2, {"IDENTIFIER"}, n)
          BY <1>6, <2>1, <4>1, ListAtIsList
        <4>3. columns = Some([items |-> ItemsOf(tokens, 2, n), next |-> 2 + 2 * n - 1])
          BY <2>1, <4>1, <4>2, ListAtIsList
        <4>4. 2 + 2 * n - 1 = 2 * n + 1
          OBVIOUS
        <4>5. current = 2 * n + 1
          BY <4>3, <4>4 DEF Some
        <4> QED
          BY <4>2, <4>5
      <3> QED
        BY <3>1, <3>2
    <2>3. (2 * n + 1) + 1 = 2 * n + 2 /\ (2 * n + 1) + 2 = 2 * n + 3
          /\ 2 * n + 1 \in Nat \ {0} /\ 2 * n + 2 \in Nat \ {0} /\ 2 * n + 3 \in Nat \ {0}
      OBVIOUS
    <2> HIDE DEF columns
    <2>4. IsSelectOf(tokens, n)
      BY <1>6, <2>2, <2>3, IsAtOne DEF IsSelectOf
    <2> QED
      BY <2>4
  <1> QED
    BY <1>2, <1>3, <1>5, <1>6

\* The items of a list of proper tokens.
LEMMA ItemsAreProper ==
  ASSUME NEW tokens \in Seq(ProperTokens), NEW start \in Nat \ {0}, NEW types,
         NEW n \in Nat, IsListOf(tokens, start, types, n)
  PROVE  /\ ItemsOf(tokens, start, n) \in Seq(Seq(STRING))
         /\ Len(ItemsOf(tokens, start, n)) = n
         /\ \A i \in 1..n : /\ start + 2 * i - 2 \in 1..Len(tokens)
                            /\ tokens[start + 2 * i - 2].type \in types
                            /\ ItemsOf(tokens, start, n)[i] = tokens[start + 2 * i - 2].lexeme
  <1> DEFINE items == ItemsOf(tokens, start, n)
  <1>1. Len(tokens) \in Nat
    OBVIOUS
  <1>2. ASSUME NEW i \in 1..n
        PROVE  /\ start + 2 * i - 2 \in 1..Len(tokens)
               /\ tokens[start + 2 * i - 2].type \in types
               /\ tokens[start + 2 * i - 2].lexeme \in Seq(STRING)
               /\ items[i] = tokens[start + 2 * i - 2].lexeme
    <2> DEFINE k == start + 2 * i - 2
    <2>1. k \in Nat /\ k >= 1
      OBVIOUS
    <2>2. IsAt(tokens, k, types)
      BY DEF IsListOf
    <2>3. items[i] = tokens[k].lexeme
      BY DEF ItemsOf
    <2> HIDE DEF k
    <2>4. k \in 1..Len(tokens) /\ tokens[k].type \in types
      BY <1>1, <2>1, <2>2 DEF IsAt
    <2>5. tokens[k] \in ProperTokens
      BY <2>4
    <2>6. tokens[k].lexeme \in Seq(STRING)
      BY <2>5 DEF ProperTokens
    <2> QED
      BY <2>3, <2>4, <2>6 DEF k
  <1>3. items = [i \in 1..n |-> items[i]]
    BY DEF ItemsOf
  <1>4. \A i \in 1..n : items[i] \in Seq(STRING)
    BY <1>2
  <1> HIDE DEF items
  <1>5. items \in Seq(Seq(STRING)) /\ Len(items) = n
    BY <1>3, <1>4
  <1> QED
    BY <1>2, <1>5 DEF items

-----------------------------------------------------------------------------
(***************************************************************************)
(* The grammar, as what the types of the tokens are.                       *)
(***************************************************************************)

TypesOf(tokens) == [k \in DOMAIN tokens |-> tokens[k].type]

\* A part of a sequence is what it is element by element.
LEMMA PartEquals ==
  ASSUME NEW S, NEW s \in Seq(S), NEW t \in Seq(S), Len(t) >= 1,
         NEW m \in 1..Len(s), m + Len(t) - 1 <= Len(s)
  PROVE  SubSeq(s, m, m + Len(t) - 1) = t <=> \A i \in 1..Len(t) : s[m + i - 1] = t[i]
  <1> DEFINE n == m + Len(t) - 1
             part == SubSeq(s, m, n)
  <1>1. m \in 1..(Len(s) + 1) /\ n \in (m - 1)..Len(s) /\ n - m + 1 = Len(t)
    OBVIOUS
  <1>2. part \in Seq(S) /\ Len(part) = Len(t) /\ \A k \in 1..Len(t) : part[k] = s[m + k - 1]
    BY <1>1, PartOfLine
  <1> HIDE DEF part
  <1>3. (\A i \in 1..Len(t) : s[m + i - 1] = t[i]) => part = t
    BY <1>2, SeqEqual
  <1>4. part = t => \A i \in 1..Len(t) : s[m + i - 1] = t[i]
    BY <1>2
  <1> QED
    BY <1>3, <1>4 DEF part

\* The types of proper tokens.
LEMMA TypesAre ==
  ASSUME NEW tokens \in Seq(ProperTokens)
  PROVE  /\ TypesOf(tokens) \in Seq(TokenTypes)
         /\ Len(TypesOf(tokens)) = Len(tokens) /\ Len(tokens) \in Nat
         /\ DOMAIN tokens = 1..Len(tokens)
         /\ \A k \in 1..Len(tokens) : TypesOf(tokens)[k] = tokens[k].type
  <1>1. DOMAIN tokens = 1..Len(tokens) /\ Len(tokens) \in Nat
    OBVIOUS
  <1>2. \A k \in 1..Len(tokens) : tokens[k].type \in TokenTypes
    <2> SUFFICES ASSUME NEW k \in 1..Len(tokens) PROVE tokens[k].type \in TokenTypes
      OBVIOUS
    <2>1. tokens[k] \in ProperTokens
      OBVIOUS
    <2> QED
      BY <2>1 DEF ProperTokens
  <1>3. TypesOf(tokens) = [k \in 1..Len(tokens) |-> tokens[k].type]
    BY <1>1 DEF TypesOf
  <1> QED
    BY <1>1, <1>2, <1>3

\* A list among the tokens, from start to the one before end.
ListBetween(tokens, start, end, types, n) ==
    /\ end = start + 2 * n - 1
    /\ \A i \in 1..n : tokens[start + 2 * i - 2].type \in types
    /\ \A i \in 1..(n - 1) : tokens[start + 2 * i - 1].type = "COMMA"

LEMMA ListPart ==
  ASSUME NEW tokens \in Seq(ProperTokens), NEW start \in 1..Len(tokens),
         NEW end \in start..(Len(tokens) + 1), NEW types
  PROVE  IsList(SubSeq(TypesOf(tokens), start, end - 1), types)
           <=> \E n \in Nat \ {0} : ListBetween(tokens, start, end, types, n)
  <1> DEFINE s == TypesOf(tokens)
             part == SubSeq(s, start, end - 1)
             L == end - start
  <1>1. s \in Seq(TokenTypes) /\ Len(s) = Len(tokens) /\ Len(tokens) \in Nat
        /\ \A k \in 1..Len(tokens) : s[k] = tokens[k].type
    BY TypesAre
  <1>2. start \in 1..(Len(s) + 1) /\ end - 1 \in (start - 1)..Len(s) /\ (end - 1) - start + 1 = L
        /\ L \in Nat
    BY <1>1
  <1>3. part \in Seq(TokenTypes) /\ Len(part) = L /\ \A k \in 1..L : part[k] = s[start + k - 1]
    <2> HIDE DEF s
    <2> QED
      BY <1>1, <1>2, PartOfLine
  <1>4. \A k \in 1..L : part[k] = tokens[start + k - 1].type
    <2>1. \A k \in 1..L : start + k - 1 \in 1..Len(tokens)
      BY <1>1, <1>2
    <2> QED
      BY <1>1, <1>3, <2>1
  <1> HIDE DEF part, s
  <1>5. IsList(part, types) <=> /\ L % 2 = 1
                                /\ \A k \in 1..L : IF k % 2 = 1
                                                   THEN tokens[start + k - 1].type \in types
                                                   ELSE tokens[start + k - 1].type = "COMMA"
    <2>1. DOMAIN part = 1..L
      BY <1>3
    <2> QED
      BY <1>3, <1>4, <2>1 DEF IsList
  <1>6. ASSUME NEW n \in Nat \ {0}, ListBetween(tokens, start, end, types, n)
        PROVE  IsList(part, types)
    <2>1. L = 2 * n - 1
      BY <1>6 DEF ListBetween
    <2>2. L % 2 = 1
      BY <2>1
    <2>3. ASSUME NEW k \in 1..L, k % 2 = 1 PROVE tokens[start + k - 1].type \in types
      <3>1. PICK i \in Nat : k = 2 * i + 1
        <4>1. k = 2 * (k \div 2) + 1 /\ k \div 2 \in Nat
          BY <2>3
        <4> QED
          BY <4>1
      <3>2. i + 1 \in 1..n /\ start + 2 * (i + 1) - 2 = start + k - 1
        BY <2>1, <3>1
      <3> QED
        BY <1>6, <3>2 DEF ListBetween
    <2>4. ASSUME NEW k \in 1..L, k % 2 # 1 PROVE tokens[start + k - 1].type = "COMMA"
      <3>1. PICK i \in Nat : k = 2 * i
        <4>1. k = 2 * (k \div 2) /\ k \div 2 \in Nat
          BY <2>4
        <4> QED
          BY <4>1
      <3>2. i \in 1..(n - 1) /\ start + 2 * i - 1 = start + k - 1
        BY <2>1, <3>1
      <3> QED
        BY <1>6, <3>2 DEF ListBetween
    <2> QED
      BY <1>5, <2>2, <2>3, <2>4
  <1>7. ASSUME IsList(part, types)
        PROVE  \E n \in Nat \ {0} : ListBetween(tokens, start, end, types, n)
    <2>1. L % 2 = 1
      BY <1>5, <1>7
    <2>2. PICK n \in Nat \ {0} : L = 2 * n - 1
      <3>1. L = 2 * ((L \div 2) + 1) - 1 /\ (L \div 2) + 1 \in Nat \ {0}
        BY <1>2, <2>1
      <3> QED
        BY <3>1
    <2>3. end = start + 2 * n - 1
      BY <2>2
    <2>4. ASSUME NEW i \in 1..n PROVE tokens[start + 2 * i - 2].type \in types
      <3>1. 2 * i - 1 \in 1..L /\ (2 * i - 1) % 2 = 1 /\ start + (2 * i - 1) - 1 = start + 2 * i - 2
        BY <2>2
      <3> QED
        BY <1>5, <1>7, <3>1
    <2>5. ASSUME NEW i \in 1..(n - 1) PROVE tokens[start + 2 * i - 1].type = "COMMA"
      <3>1. 2 * i \in 1..L /\ (2 * i) % 2 # 1 /\ start + 2 * i - 1 = start + (2 * i) - 1
        BY <2>2
      <3> QED
        BY <1>5, <1>7, <3>1
    <2> QED
      BY <2>3, <2>4, <2>5 DEF ListBetween
  <1> QED
    BY <1>6, <1>7 DEF part, s

\* A list that something else than a comma stands behind.
LEMMA ListIsBetween ==
  ASSUME NEW tokens \in Seq(ProperTokens), NEW start \in 1..Len(tokens), NEW types,
         NEW n \in Nat \ {0}, NEW end \in start..Len(tokens), end = start + 2 * n - 1,
         tokens[end].type # "COMMA"
  PROVE  IsListOf(tokens, start, types, n) <=> ListBetween(tokens, start, end, types, n)
  <1>1. Len(tokens) \in Nat
    OBVIOUS
  <1>2. ~IsAt(tokens, start + 2 * n - 1, {"COMMA"})
    BY DEF IsAt
  <1>3. \A i \in 1..n : start + 2 * i - 2 <= Len(tokens)
    BY <1>1
  <1>4. \A i \in 1..(n - 1) : start + 2 * i - 1 <= Len(tokens)
    BY <1>1
  <1> QED
    BY <1>2, <1>3, <1>4 DEF IsListOf, ListBetween, IsAt

\* The types of a SELECT, by their numbers.
LEMMA SelectTypes ==
  ASSUME NEW tokens \in Seq(ProperTokens)
  PROVE  IsSelect(TypesOf(tokens)) <=> \E n \in Nat \ {0} : IsSelectOf(tokens, n)
  <1> DEFINE s == TypesOf(tokens)
             N == Len(tokens)
             tail == <<"FROM", "IDENTIFIER", "SEMICOLON">>
             projection == SubSeq(s, 2, N - 3)
             Names == {"IDENTIFIER"}
             Ends == /\ tokens[N - 2].type = "FROM" /\ tokens[N - 1].type = "IDENTIFIER"
                     /\ tokens[N].type = "SEMICOLON"
             Form == /\ N >= 5 /\ tokens[1].type = "SELECT"
                     /\ \/ N = 5 /\ tokens[2].type = "STAR"
                        \/ \E n \in Nat \ {0} : ListBetween(tokens, 2, N - 2, Names, n)
                     /\ Ends
  <1>1. /\ s \in Seq(TokenTypes) /\ Len(s) = N /\ N \in Nat
        /\ \A k \in 1..N : s[k] = tokens[k].type
    BY TypesAre
  <1> HIDE DEF s
  <1>2. ASSUME N >= 5
        PROVE  SubSeq(s, N - 2, N) = tail <=> Ends
    <2>1. tail \in Seq(TokenTypes) /\ Len(tail) = 3
          /\ tail[1] = "FROM" /\ tail[2] = "IDENTIFIER" /\ tail[3] = "SEMICOLON"
      BY DEF TokenTypes
    <2> DEFINE m == N - 2
    <2>2. m \in 1..Len(s) /\ m + 3 - 1 = N /\ m + 3 - 1 <= Len(s)
          /\ m + 1 - 1 = N - 2 /\ m + 2 - 1 = N - 1
          /\ N - 2 \in 1..N /\ N - 1 \in 1..N /\ N \in 1..N
      BY <1>1, <1>2
    <2> HIDE DEF tail, m
    <2>3. SubSeq(s, m, m + Len(tail) - 1) = tail
            <=> \A i \in 1..Len(tail) : s[m + i - 1] = tail[i]
      BY <1>1, <2>1, <2>2, PartEquals
    <2>4. (\A i \in 1..3 : s[m + i - 1] = tail[i])
            <=> s[N - 2] = "FROM" /\ s[N - 1] = "IDENTIFIER" /\ s[N] = "SEMICOLON"
      <3>1. \A i \in 1..3 : i = 1 \/ i = 2 \/ i = 3
        OBVIOUS
      <3>2. 1 \in 1..3 /\ 2 \in 1..3 /\ 3 \in 1..3
        OBVIOUS
      <3> QED
        BY <2>1, <2>2, <3>1, <3>2
    <2>5. SubSeq(s, N - 2, N) = SubSeq(s, m, m + 3 - 1)
      BY <2>2 DEF m
    <2> QED
      BY <1>1, <2>1, <2>2, <2>3, <2>4, <2>5
  <1>3. ASSUME N >= 5
        PROVE  projection = <<"STAR">> <=> N = 5 /\ tokens[2].type = "STAR"
    <2>1. 2 \in 1..(Len(s) + 1) /\ N - 3 \in (2 - 1)..Len(s) /\ (N - 3) - 2 + 1 = N - 4
      BY <1>1, <1>3
    <2>2. /\ projection \in Seq(TokenTypes) /\ Len(projection) = N - 4
          /\ \A k \in 1..(N - 4) : projection[k] = s[2 + k - 1]
      BY <1>1, <2>1, PartOfLine
    <2> HIDE DEF projection
    <2> DEFINE star == <<"STAR">>
    <2>3. star \in Seq(TokenTypes) /\ Len(star) = 1 /\ star[1] = "STAR"
      BY DEF TokenTypes
    <2> HIDE DEF star
    <2>4. ASSUME N = 5 PROVE projection[1] = tokens[2].type
      BY <1>1, <2>2, <2>4
    <2>5. ASSUME N = 5, tokens[2].type = "STAR" PROVE projection = star
      <3>1. \A k \in 1..1 : projection[k] = star[k]
        BY <2>3, <2>4, <2>5
      <3>2. Len(projection) = 1
        BY <2>2, <2>5
      <3> QED
        BY <2>2, <2>3, <3>1, <3>2, SeqEqual
    <2>6. ASSUME projection = star PROVE N = 5
      <3>1. N - 4 = 1 /\ N \in Nat
        <4>1. Len(projection) = N - 4 /\ Len(projection) = 1
          BY <2>2, <2>3, <2>6
        <4> QED
          BY ONLY <1>1, <4>1
      <3> QED
        BY ONLY <3>1
    <2> QED
      BY <2>3, <2>4, <2>5, <2>6 DEF star
  <1>4. ASSUME N >= 5
        PROVE  IsList(projection, Names)
                 <=> \E n \in Nat \ {0} : ListBetween(tokens, 2, N - 2, Names, n)
    <2>1. 2 \in 1..N /\ N - 2 \in 2..(N + 1) /\ (N - 2) - 1 = N - 3
      BY <1>1, <1>4
    <2> DEFINE end == N - 2
    <2> HIDE DEF end, Names
    <2>2. IsList(SubSeq(TypesOf(tokens), 2, end - 1), Names)
            <=> \E n \in Nat \ {0} : ListBetween(tokens, 2, end, Names, n)
      <3>1. end \in 2..(Len(tokens) + 1) /\ 2 \in 1..Len(tokens)
        BY <2>1 DEF end
      <3> QED
        BY <3>1, ListPart
    <2> QED
      BY <2>1, <2>2 DEF end, s
  <1>5. IsSelect(s) <=> /\ N >= 5 /\ s[1] = "SELECT"
                        /\ projection = <<"STAR">> \/ IsList(projection, Names)
                        /\ SubSeq(s, N - 2, N) = tail
    BY <1>1, Zenon DEF IsSelect
  <1>6. IsSelect(s) <=> Form
    <2> HIDE DEF projection, tail, Names, Ends
    <2>1. N >= 5 => 1 \in 1..N
      BY <1>1
    <2> QED
      BY <1>1, <1>2, <1>3, <1>4, <1>5, <2>1
  <1> HIDE DEF s, projection, tail
  <1>7. ASSUME NEW n \in Nat \ {0}, N = 2 * n + 3, Ends
        PROVE  IsListOf(tokens, 2, Names, n) <=> ListBetween(tokens, 2, N - 2, Names, n)
    <2> DEFINE end == N - 2
    <2>1. 2 \in 1..Len(tokens) /\ end \in 2..Len(tokens) /\ end = 2 + 2 * n - 1
      <3>1. N \in Nat /\ N = 2 * n + 3
        BY <1>1, <1>7
      <3> QED
        BY ONLY <3>1, n \in Nat \ {0}
    <2>2. tokens[end].type # "COMMA"
      BY <1>7
    <2> HIDE DEF end, Names
    <2>3. IsListOf(tokens, 2, Names, n) <=> ListBetween(tokens, 2, end, Names, n)
      BY <2>1, <2>2, ListIsBetween
    <2> QED
      BY <2>3 DEF end
  <1>8. ASSUME Form PROVE \E n \in Nat \ {0} : IsSelectOf(tokens, n)
    <2>1. PICK n \in Nat \ {0} : /\ N = 2 * n + 3
                                 /\ \/ n = 1 /\ tokens[2].type = "STAR"
                                    \/ ListBetween(tokens, 2, N - 2, Names, n)
      <3>1. CASE N = 5 /\ tokens[2].type = "STAR"
        <4>1. 1 \in Nat \ {0} /\ N = 2 * 1 + 3
          BY <3>1
        <4> QED
          BY <3>1, <4>1
      <3>2. CASE \E n \in Nat \ {0} : ListBetween(tokens, 2, N - 2, Names, n)
        <4>1. PICK n \in Nat \ {0} : ListBetween(tokens, 2, N - 2, Names, n)
          BY <3>2
        <4>2. N - 2 = 2 + 2 * n - 1
          BY <4>1 DEF ListBetween
        <4>3. N = 2 * n + 3
          BY <1>1, <4>2
        <4> QED
          BY <4>1, <4>3
      <3> QED
        BY <1>8, <3>1, <3>2
    <2>2. N - 2 = 2 * n + 1 /\ N - 1 = 2 * n + 2 /\ N = 2 * n + 3
          /\ 1 \in 1..N /\ 2 \in 1..N /\ 2 * n + 1 \in 1..N /\ 2 * n + 2 \in 1..N
          /\ 2 * n + 3 \in 1..N
      BY <2>1
    <2>3. (n = 1 /\ TypeAt(tokens, 2, "STAR")) \/ IsListOf(tokens, 2, Names, n)
      <3> HIDE DEF Names
      <3> QED
        BY <1>7, <1>8, <2>1, <2>2 DEF TypeAt
    <2>4. IsSelectOf(tokens, n)
      BY <1>8, <2>1, <2>2, <2>3 DEF IsSelectOf, TypeAt
    <2> QED
      BY <2>4
  <1>9. ASSUME NEW n \in Nat \ {0}, IsSelectOf(tokens, n) PROVE Form
    <2>1. /\ N = 2 * n + 3 /\ N >= 5 /\ N - 2 = 2 * n + 1 /\ N - 1 = 2 * n + 2
          /\ n = 1 => N = 5
      BY <1>9 DEF IsSelectOf
    <2>2. Ends /\ tokens[1].type = "SELECT"
      BY <1>9, <2>1 DEF IsSelectOf, TypeAt
    <2>3. \/ n = 1 /\ tokens[2].type = "STAR"
          \/ IsListOf(tokens, 2, Names, n)
      BY <1>9 DEF IsSelectOf, TypeAt
    <2> HIDE DEF Names
    <2> QED
      BY <1>7, <2>1, <2>2, <2>3
  <1> QED
    BY <1>6, <1>8, <1>9 DEF s

\* The types of an INSERT, by their numbers.
LEMMA InsertTypes ==
  ASSUME NEW tokens \in Seq(ProperTokens)
  PROVE  IsInsert(TypesOf(tokens)) <=> \E n \in Nat \ {0} : IsInsertOf(tokens, n)
  <1> DEFINE s == TypesOf(tokens)
             N == Len(tokens)
             head == <<"INSERT", "INTO", "IDENTIFIER", "VALUES", "LEFT_PAREN">>
             tail == <<"RIGHT_PAREN", "SEMICOLON">>
             Starts == /\ tokens[1].type = "INSERT" /\ tokens[2].type = "INTO"
                       /\ tokens[3].type = "IDENTIFIER" /\ tokens[4].type = "VALUES"
                       /\ tokens[5].type = "LEFT_PAREN"
             Ends == tokens[N - 1].type = "RIGHT_PAREN" /\ tokens[N].type = "SEMICOLON"
             Form == /\ N >= 8 /\ Starts
                     /\ \E n \in Nat \ {0} : ListBetween(tokens, 6, N - 1, Literals, n)
                     /\ Ends
  <1>1. /\ s \in Seq(TokenTypes) /\ Len(s) = N /\ N \in Nat
        /\ \A k \in 1..N : s[k] = tokens[k].type
    BY TypesAre
  <1> HIDE DEF s
  <1>2. ASSUME N >= 8
        PROVE  SubSeq(s, N - 1, N) = tail <=> Ends
    <2>1. tail \in Seq(TokenTypes) /\ Len(tail) = 2
          /\ tail[1] = "RIGHT_PAREN" /\ tail[2] = "SEMICOLON"
      BY DEF TokenTypes
    <2> DEFINE m == N - 1
    <2>2. m \in 1..Len(s) /\ m + 2 - 1 = N /\ m + 2 - 1 <= Len(s)
          /\ m + 1 - 1 = N - 1 /\ N - 1 \in 1..N /\ N \in 1..N
      BY <1>1, <1>2
    <2> HIDE DEF tail, m
    <2>3. SubSeq(s, m, m + Len(tail) - 1) = tail
            <=> \A i \in 1..Len(tail) : s[m + i - 1] = tail[i]
      BY <1>1, <2>1, <2>2, PartEquals
    <2>4. (\A i \in 1..2 : s[m + i - 1] = tail[i])
            <=> s[N - 1] = "RIGHT_PAREN" /\ s[N] = "SEMICOLON"
      <3>1. \A i \in 1..2 : i = 1 \/ i = 2
        OBVIOUS
      <3>2. 1 \in 1..2 /\ 2 \in 1..2
        OBVIOUS
      <3> QED
        BY <2>1, <2>2, <3>1, <3>2
    <2>5. SubSeq(s, N - 1, N) = SubSeq(s, m, m + 2 - 1)
      BY <2>2 DEF m
    <2> QED
      BY <1>1, <2>1, <2>2, <2>3, <2>4, <2>5
  <1>3. ASSUME N >= 8
        PROVE  SubSeq(s, 1, 5) = head <=> Starts
    <2>1. head \in Seq(TokenTypes) /\ Len(head) = 5
          /\ head[1] = "INSERT" /\ head[2] = "INTO" /\ head[3] = "IDENTIFIER"
          /\ head[4] = "VALUES" /\ head[5] = "LEFT_PAREN"
      BY DEF TokenTypes
    <2>2. 1 \in 1..Len(s) /\ 1 + 5 - 1 = 5 /\ 1 + 5 - 1 <= Len(s)
          /\ \A i \in 1..5 : 1 + i - 1 = i /\ i \in 1..N
      BY <1>1, <1>3
    <2> HIDE DEF head
    <2>3. SubSeq(s, 1, 1 + Len(head) - 1) = head
            <=> \A i \in 1..Len(head) : s[1 + i - 1] = head[i]
      BY <1>1, <2>1, <2>2, PartEquals
    <2>4. (\A i \in 1..5 : s[1 + i - 1] = head[i])
            <=> /\ s[1] = "INSERT" /\ s[2] = "INTO" /\ s[3] = "IDENTIFIER"
                /\ s[4] = "VALUES" /\ s[5] = "LEFT_PAREN"
      <3>1. \A i \in 1..5 : i = 1 \/ i = 2 \/ i = 3 \/ i = 4 \/ i = 5
        OBVIOUS
      <3>2. 1 \in 1..5 /\ 2 \in 1..5 /\ 3 \in 1..5 /\ 4 \in 1..5 /\ 5 \in 1..5
        OBVIOUS
      <3> QED
        BY <2>1, <2>2, <3>1, <3>2
    <2>5. \A i \in {1, 2, 3, 4, 5} : s[i] = tokens[i].type
      BY <1>1, <1>3
    <2> QED
      BY <2>1, <2>2, <2>3, <2>4, <2>5
  <1>4. ASSUME N >= 8
        PROVE  IsList(SubSeq(s, 6, N - 2), Literals)
                 <=> \E n \in Nat \ {0} : ListBetween(tokens, 6, N - 1, Literals, n)
    <2>1. 6 \in 1..N /\ N - 1 \in 6..(N + 1) /\ (N - 1) - 1 = N - 2
      BY <1>1, <1>4
    <2> DEFINE end == N - 1
    <2> HIDE DEF end
    <2>2. IsList(SubSeq(TypesOf(tokens), 6, end - 1), Literals)
            <=> \E n \in Nat \ {0} : ListBetween(tokens, 6, end, Literals, n)
      <3>1. end \in 6..(Len(tokens) + 1) /\ 6 \in 1..Len(tokens)
        BY <2>1 DEF end
      <3> QED
        BY <3>1, ListPart
    <2> QED
      BY <2>1, <2>2 DEF end, s
  <1>5. IsInsert(s) <=> /\ N >= 8
                        /\ SubSeq(s, 1, 5) = head
                        /\ IsList(SubSeq(s, 6, N - 2), Literals)
                        /\ SubSeq(s, N - 1, N) = tail
    BY <1>1, Zenon DEF IsInsert, Literals
  <1>6. IsInsert(s) <=> Form
    <2> HIDE DEF head, tail, Starts, Ends
    <2> QED
      BY <1>2, <1>3, <1>4, <1>5
  <1> HIDE DEF s, head, tail
  <1>7. ASSUME NEW n \in Nat \ {0}, N = 2 * n + 6, Ends
        PROVE  IsListOf(tokens, 6, Literals, n) <=> ListBetween(tokens, 6, N - 1, Literals, n)
    <2> DEFINE end == N - 1
    <2>1. 6 \in 1..Len(tokens) /\ end \in 6..Len(tokens) /\ end = 6 + 2 * n - 1
      <3>1. N \in Nat /\ N = 2 * n + 6
        BY <1>1, <1>7
      <3> QED
        BY ONLY <3>1, n \in Nat \ {0}
    <2>2. tokens[end].type # "COMMA"
      BY <1>7
    <2> HIDE DEF end
    <2>3. IsListOf(tokens, 6, Literals, n) <=> ListBetween(tokens, 6, end, Literals, n)
      BY <2>1, <2>2, ListIsBetween
    <2> QED
      BY <2>3 DEF end
  <1>8. ASSUME Form PROVE \E n \in Nat \ {0} : IsInsertOf(tokens, n)
    <2>1. PICK n \in Nat \ {0} : ListBetween(tokens, 6, N - 1, Literals, n)
      BY <1>8
    <2>2. N = 2 * n + 6
      <3>1. N - 1 = 6 + 2 * n - 1
        BY <2>1 DEF ListBetween
      <3> QED
        BY ONLY <1>1, <3>1, n \in Nat \ {0}
    <2>3. N - 1 = 2 * n + 5 /\ N = 2 * n + 6
          /\ 1 \in 1..N /\ 2 \in 1..N /\ 3 \in 1..N /\ 4 \in 1..N /\ 5 \in 1..N
          /\ 2 * n + 5 \in 1..N /\ 2 * n + 6 \in 1..N
      BY <2>2
    <2>4. IsListOf(tokens, 6, Literals, n)
      BY <1>7, <1>8, <2>1, <2>2
    <2>5. IsInsertOf(tokens, n)
      BY <1>8, <2>2, <2>3, <2>4 DEF IsInsertOf, TypeAt
    <2> QED
      BY <2>5
  <1>9. ASSUME NEW n \in Nat \ {0}, IsInsertOf(tokens, n) PROVE Form
    <2>1. N = 2 * n + 6 /\ N >= 8 /\ N - 1 = 2 * n + 5
      BY <1>9 DEF IsInsertOf
    <2>2. Ends /\ Starts /\ IsListOf(tokens, 6, Literals, n)
      BY <1>9, <2>1 DEF IsInsertOf, TypeAt
    <2> HIDE DEF Starts
    <2> QED
      BY <1>7, <2>1, <2>2
  <1> QED
    BY <1>6, <1>8, <1>9 DEF s

-----------------------------------------------------------------------------
(***************************************************************************)
(* The names and the values of a statement.                                *)
(***************************************************************************)

\* The names of a SELECT: its columns, if there is no star, and its table.
LEMMA SelectNames ==
  ASSUME NEW tokens \in Seq(ProperTokens), NEW n \in Nat \ {0}, IsSelectOf(tokens, n)
  PROVE  {k \in DOMAIN tokens : tokens[k].type = "IDENTIFIER"} \ {Len(tokens) - 1}
           = IF tokens[2].type = "STAR" THEN {} ELSE {2 * i : i \in 1..n}
  <1> DEFINE N == Len(tokens)
             names == {k \in DOMAIN tokens : tokens[k].type = "IDENTIFIER"} \ {N - 1}
  <1>1. N = 2 * n + 3 /\ DOMAIN tokens = 1..N /\ N - 1 = 2 * n + 2
    BY DEF IsSelectOf
  <1>2. tokens[1].type = "SELECT" /\ tokens[2 * n + 1].type = "FROM"
        /\ tokens[2 * n + 3].type = "SEMICOLON"
    BY DEF IsSelectOf, TypeAt
  <1> HIDE DEF N
  <1>3. \A k \in DOMAIN tokens : k \in names <=> tokens[k].type = "IDENTIFIER" /\ k # 2 * n + 2
    BY <1>1
  <1>4. \A k \in 1..N : \/ k = 1 \/ k = 2 * n + 1 \/ k = 2 * n + 2 \/ k = 2 * n + 3
                        \/ \E i \in 1..n : k = 2 * i
                        \/ \E i \in 1..(n - 1) : k = 2 * i + 1
    <2> SUFFICES ASSUME NEW k \in 1..N
                 PROVE  \/ k = 1 \/ k = 2 * n + 1 \/ k = 2 * n + 2 \/ k = 2 * n + 3
                        \/ \E i \in 1..n : k = 2 * i
                        \/ \E i \in 1..(n - 1) : k = 2 * i + 1
      OBVIOUS
    <2>1. PICK i \in Nat : k = 2 * i \/ k = 2 * i + 1
      <3>1. k \div 2 \in Nat /\ (k = 2 * (k \div 2) \/ k = 2 * (k \div 2) + 1)
        BY <1>1
      <3> QED
        BY <3>1
    <2>2. CASE k = 2 * i
      <3>1. i \in 1..n \/ k = 2 * n + 2
        BY <1>1, <2>2
      <3> QED
        BY <2>2, <3>1
    <2>3. CASE k = 2 * i + 1
      <3>1. i \in 1..(n - 1) \/ k = 1 \/ k = 2 * n + 1 \/ k = 2 * n + 3
        BY <1>1, <2>3
      <3> QED
        BY <2>3, <3>1
    <2> QED
      BY <2>1, <2>2, <2>3
  <1>5. CASE tokens[2].type = "STAR"
    <2>1. n = 1
      <3>1. 1 \in 1..n /\ 2 + 2 * 1 - 2 = 2
        OBVIOUS
      <3>2. ~IsListOf(tokens, 2, {"IDENTIFIER"}, n)
        BY <1>5, <3>1 DEF IsListOf, IsAt
      <3> QED
        BY <3>2 DEF IsSelectOf
    <2>2. names = {}
      <3>1. \A k \in 1..N : k = 1 \/ k = 2 \/ k = 3 \/ k = 4 \/ k = 5
        BY <1>1, <2>1
      <3>2. tokens[3].type = "FROM" /\ tokens[5].type = "SEMICOLON" /\ 2 * n + 2 = 4
        BY <1>2, <2>1
      <3> QED
        BY <1>1, <1>2, <1>3, <1>5, <3>1, <3>2
    <2> QED
      BY <1>5, <2>2 DEF N
  <1>6. CASE tokens[2].type # "STAR"
    <2>1. IsListOf(tokens, 2, {"IDENTIFIER"}, n)
      BY <1>6 DEF IsSelectOf, TypeAt
    <2>2. \A i \in 1..n : /\ 2 * i \in 1..N /\ 2 * i # 2 * n + 2
                          /\ tokens[2 * i].type = "IDENTIFIER"
      <3> SUFFICES ASSUME NEW i \in 1..n
                   PROVE  /\ 2 * i \in 1..N /\ 2 * i # 2 * n + 2
                          /\ tokens[2 * i].type = "IDENTIFIER"
        OBVIOUS
      <3>1. 2 + 2 * i - 2 = 2 * i /\ 2 * i \in 1..N /\ 2 * i # 2 * n + 2
        BY <1>1
      <3>2. IsAt(tokens, 2 + 2 * i - 2, {"IDENTIFIER"})
        BY <2>1 DEF IsListOf
      <3> QED
        BY <3>1, <3>2 DEF IsAt
    <2>3. \A i \in 1..(n - 1) : tokens[2 * i + 1].type = "COMMA"
      <3> SUFFICES ASSUME NEW i \in 1..(n - 1) PROVE tokens[2 * i + 1].type = "COMMA"
        OBVIOUS
      <3>1. 2 + 2 * i - 1 = 2 * i + 1
        OBVIOUS
      <3>2. IsAt(tokens, 2 + 2 * i - 1, {"COMMA"})
        BY <2>1 DEF IsListOf
      <3> QED
        BY <3>1, <3>2 DEF IsAt
    <2>4. \A k \in names : k \in {2 * i : i \in 1..n}
      <3> SUFFICES ASSUME NEW k \in names PROVE \E i \in 1..n : k = 2 * i
        OBVIOUS
      <3>1. k \in 1..N /\ tokens[k].type = "IDENTIFIER" /\ k # 2 * n + 2
        BY <1>1
      <3> HIDE DEF names
      <3> QED
        BY <1>2, <1>4, <2>3, <3>1
    <2>5. \A k \in {2 * i : i \in 1..n} : k \in names
      BY <1>1, <1>3, <2>2
    <2> HIDE DEF names
    <2>6. names = {2 * i : i \in 1..n}
      BY <2>4, <2>5
    <2> QED
      BY <1>6, <2>6 DEF N, names
  <1> QED
    BY <1>5, <1>6

\* The values of an INSERT are every second token from the sixth on; there are n.
LEMMA InsertValues ==
  ASSUME NEW tokens \in Seq(ProperTokens), NEW n \in Nat \ {0}, IsInsertOf(tokens, n)
  PROVE  LET values == {k \in DOMAIN tokens : tokens[k].type \in Literals} IN
           /\ values = {2 * i + 4 : i \in 1..n}
           /\ Cardinality(values) = n
  <1> DEFINE N == Len(tokens)
             values == {k \in DOMAIN tokens : tokens[k].type \in Literals}
             places == {2 * i + 4 : i \in 1..n}
  <1>1. N = 2 * n + 6 /\ DOMAIN tokens = 1..N
    BY DEF IsInsertOf
  <1>2. /\ tokens[1].type = "INSERT" /\ tokens[2].type = "INTO" /\ tokens[3].type = "IDENTIFIER"
        /\ tokens[4].type = "VALUES" /\ tokens[5].type = "LEFT_PAREN"
        /\ tokens[2 * n + 5].type = "RIGHT_PAREN" /\ tokens[2 * n + 6].type = "SEMICOLON"
        /\ IsListOf(tokens, 6, Literals, n)
    BY DEF IsInsertOf, TypeAt
  <1> HIDE DEF N
  <1>3. \A k \in 1..N : \/ k \in 1..5 \/ k = 2 * n + 5 \/ k = 2 * n + 6
                        \/ \E i \in 1..n : k = 2 * i + 4
                        \/ \E i \in 1..(n - 1) : k = 2 * i + 5
    <2> SUFFICES ASSUME NEW k \in 1..N
                 PROVE  \/ k \in 1..5 \/ k = 2 * n + 5 \/ k = 2 * n + 6
                        \/ \E i \in 1..n : k = 2 * i + 4
                        \/ \E i \in 1..(n - 1) : k = 2 * i + 5
      OBVIOUS
    <2>1. PICK j \in Nat : k = 2 * j \/ k = 2 * j + 1
      <3>1. k \div 2 \in Nat /\ (k = 2 * (k \div 2) \/ k = 2 * (k \div 2) + 1)
        BY <1>1
      <3> QED
        BY <3>1
    <2>2. CASE k = 2 * j
      <3>1. k \in 1..5 \/ k = 2 * n + 6 \/ (j - 2 \in 1..n /\ k = 2 * (j - 2) + 4)
        BY <1>1, <2>2
      <3> QED
        BY <3>1
    <2>3. CASE k = 2 * j + 1
      <3>1. k \in 1..5 \/ k = 2 * n + 5 \/ (j - 2 \in 1..(n - 1) /\ k = 2 * (j - 2) + 5)
        BY <1>1, <2>3
      <3> QED
        BY <3>1
    <2> QED
      BY <2>1, <2>2, <2>3
  <1>4. \A i \in 1..n : /\ 2 * i + 4 \in 1..N
                        /\ tokens[2 * i + 4].type \in Literals
    <2> SUFFICES ASSUME NEW i \in 1..n
                 PROVE  2 * i + 4 \in 1..N /\ tokens[2 * i + 4].type \in Literals
      OBVIOUS
    <2>1. 6 + 2 * i - 2 = 2 * i + 4 /\ 2 * i + 4 \in 1..N
      BY <1>1
    <2>2. IsAt(tokens, 6 + 2 * i - 2, Literals)
      BY <1>2 DEF IsListOf
    <2> QED
      BY <2>1, <2>2 DEF IsAt
  <1>5. \A i \in 1..(n - 1) : tokens[2 * i + 5].type = "COMMA"
    <2> SUFFICES ASSUME NEW i \in 1..(n - 1) PROVE tokens[2 * i + 5].type = "COMMA"
      OBVIOUS
    <2>1. 6 + 2 * i - 1 = 2 * i + 5
      OBVIOUS
    <2>2. IsAt(tokens, 6 + 2 * i - 1, {"COMMA"})
      BY <1>2 DEF IsListOf
    <2> QED
      BY <2>1, <2>2 DEF IsAt
  <1>6. values = places
    <2>1. ASSUME NEW k \in values PROVE k \in places
      <3>1. k \in 1..N /\ tokens[k].type \in Literals
        BY <1>1
      <3>2. \A j \in 1..5 : j = 1 \/ j = 2 \/ j = 3 \/ j = 4 \/ j = 5
        OBVIOUS
      <3>3. k \notin 1..5
        BY <1>2, <3>1, <3>2 DEF Literals
      <3> HIDE DEF values
      <3>4. \E i \in 1..n : k = 2 * i + 4
        BY <1>2, <1>3, <1>5, <3>1, <3>3 DEF Literals
      <3> QED
        BY <3>4
    <2>2. ASSUME NEW k \in places PROVE k \in values
      BY <1>1, <1>4
    <2> HIDE DEF values, places
    <2> QED
      BY <2>1, <2>2
  <1>7. Cardinality(places) = n
    <2> DEFINE f == [i \in 1..n |-> 2 * i + 4]
    <2>1. f \in Bijection(1..n, places)
      <3>1. f \in [1..n -> places]
        OBVIOUS
      <3>2. \A i, j \in 1..n : f[i] = f[j] => i = j
        OBVIOUS
      <3>3. \A k \in places : \E i \in 1..n : f[i] = k
        OBVIOUS
      <3> HIDE DEF f, places
      <3> QED
        BY <3>1, <3>2, <3>3 DEF Bijection, Injection, Surjection, IsInjective
    <2> HIDE DEF f, places
    <2>2. IsFiniteSet(1..n) /\ Cardinality(1..n) = n
      <3>1. 1 \in Int /\ n \in Int /\ 1 <= n /\ n - 1 + 1 = n
        OBVIOUS
      <3> QED
        BY <3>1, FS_Interval
    <2>3. ExistsBijection(1..n, places)
      BY <2>1 DEF ExistsBijection
    <2> QED
      BY <2>2, <2>3, FS_Bijection
  <1> QED
    BY <1>6, <1>7

-----------------------------------------------------------------------------
(***************************************************************************)
(* How tokenize splits a line.                                             *)
(***************************************************************************)

\* One quote more behind a quote, and as many as before behind anything else.
LEMMA QuotesCounted ==
  ASSUME NEW input, NEW i \in Nat \ {0}
  PROVE  /\ QuotesBefore(input, i) \in Nat
         /\ QuotesBefore(input, 1) = 0
         /\ input[i] = Quote => QuotesBefore(input, i + 1) = QuotesBefore(input, i) + 1
  <1> DEFINE Quotes(j) == {k \in 1..(j - 1) : input[k] = Quote}
  <1>1. ASSUME NEW j \in Nat PROVE IsFiniteSet(Quotes(j)) /\ Cardinality(Quotes(j)) \in Nat
    <2>1. IsFiniteSet(1..(j - 1))
      BY FS_Interval
    <2>2. IsFiniteSet(Quotes(j))
      BY <2>1, FS_Subset
    <2> QED
      BY <2>2, FS_CardinalityType
  <1>2. Quotes(1) = {}
    OBVIOUS
  <1>3. ASSUME input[i] = Quote PROVE Cardinality(Quotes(i + 1)) = Cardinality(Quotes(i)) + 1
    <2>1. Quotes(i + 1) = Quotes(i) \cup {i} /\ i \notin Quotes(i)
      BY <1>3
    <2> HIDE DEF Quotes
    <2> QED
      BY <1>1, <2>1, FS_AddElement
  <1>4. Cardinality(Quotes(i)) \in Nat /\ Cardinality(Quotes(1)) = 0
    BY <1>1, <1>2, FS_EmptySet
  <1> QED
    BY <1>3, <1>4 DEF QuotesBefore

\* Without a quote on the way the count stays.
LEMMA NoQuoteBetween ==
  ASSUME NEW input, NEW i \in Nat \ {0}, NEW j \in Nat, j >= i,
         \A k \in i..(j - 1) : input[k] # Quote
  PROVE  QuotesBefore(input, j) = QuotesBefore(input, i)
  <1>1. {k \in 1..(j - 1) : input[k] = Quote} = {k \in 1..(i - 1) : input[k] = Quote}
    OBVIOUS
  <1> QED
    BY <1>1 DEF QuotesBefore

\* No quote is open before i, and a word that is at i starts a token there: so it
\* is wherever the loop of tokenize has a turn.
AtTurn(input, i) ==
    /\ QuotesBefore(input, i) % 2 = 0
    /\ i \in 1..Len(input) /\ input[i] \in IdentifierPart => StartsToken(input, i)

\* What may stand outside of quotes.
Legal == Space \cup IdentifierPart \cup {Quote} \cup DOMAIN Punctuation

Dropped(input, i) == input[i] \in Space /\ ~Inside(input, i)

\* A token of the line: it starts at i and no other one before next, all of it is
\* kept, and next is where the loop goes on.
IsSpan(input, i, t) ==
    /\ StartsToken(input, i)
    /\ \A k \in (i + 1)..(t.next - 1) : ~StartsToken(input, k)
    /\ \A k \in i..(t.next - 1) : (Inside(input, k) \/ input[k] \in Legal) /\ ~Dropped(input, k)
    /\ AtTurn(input, t.next)
    /\ Source(t.token) = SubSeq(input, i, t.next - 1)

\* What stands at i while no quote is open.
LEMMA AtEvenQuotes ==
  ASSUME NEW input, NEW i \in Nat \ {0}, QuotesBefore(input, i) % 2 = 0
  PROVE  /\ ~Inside(input, i)
         /\ input[i] \in DOMAIN Punctuation \cup {Quote} => StartsToken(input, i)
         /\ input[i] \in Space => ~StartsToken(input, i)
         /\ input[i] = Quote => QuotesBefore(input, i + 1) % 2 = 1
  <1>1. ~Inside(input, i)
    BY DEF Inside
  <1>2. input[i] \in Space => /\ input[i] \notin DOMAIN Punctuation /\ input[i] # Quote
                              /\ input[i] \notin IdentifierPart
                              /\ input[i] \notin IdentifierStart
    BY Classes
  <1>3. input[i] = Quote => QuotesBefore(input, i + 1) % 2 = 1
    BY QuotesCounted
  <1> QED
    BY <1>1, <1>2, <1>3 DEF StartsToken

\* Behind a character that belongs to no word, with no quote open, a turn begins.
LEMMA TurnBehind ==
  ASSUME NEW input, NEW j \in Nat \ {0, 1}, QuotesBefore(input, j) % 2 = 0,
         input[j - 1] \notin IdentifierPart
  PROVE  AtTurn(input, j)
  <1>1. WordBefore(input, j) = {}
    BY DEF WordBefore
  <1>2. ~Inside(input, j)
    BY AtEvenQuotes
  <1> QED
    BY <1>1, <1>2 DEF AtTurn, StartsToken

\* A sign is a token.
LEMMA SignIsSpan ==
  ASSUME NEW input \in Seq(STRING), NEW i \in 1..Len(input), AtTurn(input, i), NEW t,
         ReadsSign(input, i, t)
  PROVE  IsSpan(input, i, t)
  <1>1. t.next = i + 1 /\ t.token.type = Punctuation[input[i]] /\ t.token.lexeme = <<input[i]>>
    BY DEF ReadsSign, Token
  <1>2. input[i] \in DOMAIN Punctuation /\ input[i] # Quote /\ input[i] \notin IdentifierPart
        /\ input[i] \notin Space
    BY Classes DEF ReadsSign
  <1>3. QuotesBefore(input, i + 1) = QuotesBefore(input, i)
    <2>1. \A k \in i..((i + 1) - 1) : k = i
      OBVIOUS
    <2> QED
      BY <1>2, <2>1, NoQuoteBetween
  <1>4. AtTurn(input, i + 1)
    BY <1>2, <1>3, TurnBehind DEF AtTurn
  <1>5. StartsToken(input, i)
    BY <1>2, AtEvenQuotes DEF AtTurn
  <1>6. Source(t.token) = <<input[i]>>
    <2>1. Punctuation[input[i]] # "STRING_LITERAL"
      BY <1>2 DEF Punctuation
    <2> QED
      BY <1>1, <2>1 DEF Source
  <1>7. SubSeq(input, i, (i + 1) - 1) = <<input[i]>>
    <2>1. i \in 1..(Len(input) + 1) /\ i \in (i - 1)..Len(input) /\ i - i + 1 = 1 /\ (i + 1) - 1 = i
      OBVIOUS
    <2>2. /\ SubSeq(input, i, i) \in Seq(STRING) /\ Len(SubSeq(input, i, i)) = 1
          /\ SubSeq(input, i, i)[1] = input[i]
      BY <2>1, PartOfLine
    <2>3. <<input[i]>> \in Seq(STRING) /\ Len(<<input[i]>>) = 1 /\ <<input[i]>>[1] = input[i]
      OBVIOUS
    <2> DEFINE part == SubSeq(input, i, i)
               one == <<input[i]>>
    <2>4. part \in Seq(STRING) /\ one \in Seq(STRING) /\ Len(part) = Len(one)
          /\ \A k \in 1..Len(part) : part[k] = one[k]
      BY <2>2, <2>3
    <2> HIDE DEF part, one
    <2>5. part = one
      BY <2>4, SeqEqual
    <2> QED
      BY <2>1, <2>5 DEF part, one
  <1>8. \A k \in i..((i + 1) - 1) : k = i
    OBVIOUS
  <1>9. \A k \in (i + 1)..((i + 1) - 1) : FALSE
    OBVIOUS
  <1> QED
    BY <1>1, <1>2, <1>4, <1>5, <1>6, <1>7, <1>8, <1>9 DEF IsSpan, Legal, Dropped

\* A literal is a token, with both of its quotes.
LEMMA LiteralIsSpan ==
  ASSUME NEW input \in Seq(STRING), NEW i \in 1..Len(input), AtTurn(input, i), NEW t,
         ReadsLiteral(input, i, t)
  PROVE  IsSpan(input, i, t)
  <1> DEFINE next == t.next
  <1>1. /\ next \in (i + 2)..(Len(input) + 1) /\ next \in Nat /\ input[next - 1] = Quote
        /\ input[i] = Quote
        /\ \A k \in (i + 1)..(next - 2) : input[k] # Quote
        /\ t.token.type = "STRING_LITERAL" /\ t.token.lexeme = SubSeq(input, i + 1, next - 2)
    BY DEF ReadsLiteral, Token
  <1> HIDE DEF next
  <1>2. \A k \in (i + 1)..(next - 1) : QuotesBefore(input, k) = QuotesBefore(input, i) + 1
    <2> SUFFICES ASSUME NEW k \in (i + 1)..(next - 1)
                 PROVE  QuotesBefore(input, k) = QuotesBefore(input, i) + 1
      OBVIOUS
    <2>1. QuotesBefore(input, k) = QuotesBefore(input, i + 1)
      <3>1. \A m \in (i + 1)..(k - 1) : m \in (i + 1)..(next - 2)
        BY <1>1
      <3>2. i + 1 \in Nat \ {0} /\ k \in Nat /\ k >= i + 1
        BY <1>1
      <3> QED
        BY <1>1, <3>1, <3>2, NoQuoteBetween
    <2>2. i \in Nat \ {0}
      OBVIOUS
    <2>3. QuotesBefore(input, i + 1) = QuotesBefore(input, i) + 1
      BY <1>1, <2>2, QuotesCounted
    <2> QED
      BY <2>1, <2>3
  <1>3. QuotesBefore(input, i) \in Nat /\ QuotesBefore(input, i) % 2 = 0
    BY QuotesCounted DEF AtTurn
  <1>4. QuotesBefore(input, next) = QuotesBefore(input, i) + 2
    <2>1. next - 1 \in (i + 1)..(next - 1) /\ next - 1 \in Nat \ {0} /\ (next - 1) + 1 = next
      BY <1>1
    <2>2. QuotesBefore(input, next) = QuotesBefore(input, next - 1) + 1
      BY <1>1, <2>1, QuotesCounted
    <2> QED
      BY <1>2, <1>3, <2>1, <2>2
  <1>5. \A k \in (i + 1)..(next - 1) : QuotesBefore(input, k) % 2 = 1
    BY <1>2, <1>3
  <1>6. Quote \notin DOMAIN Punctuation /\ Quote \notin IdentifierPart /\ Quote \notin Space
        /\ Quote \notin IdentifierStart
    BY Classes
  <1>7. AtTurn(input, next)
    <2>1. QuotesBefore(input, next) % 2 = 0 /\ next \in Nat \ {0, 1}
      BY <1>1, <1>3, <1>4
    <2> QED
      BY <1>1, <1>6, <2>1, TurnBehind
  <1>8. StartsToken(input, i)
    BY <1>1, AtEvenQuotes DEF AtTurn
  <1>9. \A k \in (i + 1)..(next - 1) : ~StartsToken(input, k)
    <2> SUFFICES ASSUME NEW k \in (i + 1)..(next - 1) PROVE ~StartsToken(input, k)
      OBVIOUS
    <2>1. CASE k \in (i + 1)..(next - 2)
      BY <1>1, <1>5, <2>1 DEF StartsToken, Inside
    <2>2. CASE k = next - 1
      <3>1. input[k] = Quote /\ ~(QuotesBefore(input, k) % 2 = 0)
        BY <1>1, <1>5, <2>2
      <3> QED
        BY <1>6, <3>1 DEF StartsToken
    <2> QED
      BY <1>1, <2>1, <2>2
  <1>10. \A k \in i..(next - 1) :
            (Inside(input, k) \/ input[k] \in Legal) /\ ~Dropped(input, k)
    <2> SUFFICES ASSUME NEW k \in i..(next - 1)
                 PROVE  (Inside(input, k) \/ input[k] \in Legal) /\ ~Dropped(input, k)
      OBVIOUS
    <2>1. CASE k \in (i + 1)..(next - 2)
      BY <1>1, <1>5, <2>1 DEF Inside, Dropped
    <2>2. CASE input[k] = Quote
      BY <1>6, <2>2 DEF Legal, Dropped
    <2> QED
      BY <1>1, <2>1, <2>2
  <1>11. Source(t.token) = SubSeq(input, i, next - 1)
    <2>1. SubSeq(input, i, next - 1) = <<input[i]>> \o SubSeq(input, i + 1, next - 1)
      BY <1>1, SubSeqRecursiveFirst
    <2>2. SubSeq(input, i + 1, next - 1) = SubSeq(input, i + 1, (next - 1) - 1) \o <<input[next - 1]>>
      <3>1. i + 1 \in 1..Len(input) /\ next - 1 \in (i + 1)..Len(input)
        BY <1>1
      <3> QED
        BY <3>1, SubSeqRecursiveSecond
    <2>3. SubSeq(input, i + 1, next - 2) \in Seq(STRING)
      <3>1. i + 1 \in 1..(Len(input) + 1) /\ next - 2 \in ((i + 1) - 1)..Len(input)
        BY <1>1
      <3> QED
        BY <3>1, PartOfLine
    <2>4. <<Quote>> \in Seq(STRING) /\ (next - 1) - 1 = next - 2
      BY <1>1 DEF Quote
    <2>5. <<Quote>> \o (SubSeq(input, i + 1, next - 2) \o <<Quote>>)
            = (<<Quote>> \o SubSeq(input, i + 1, next - 2)) \o <<Quote>>
      <3> DEFINE q == <<Quote>>
                 middle == SubSeq(input, i + 1, next - 2)
      <3>1. q \in Seq(STRING) /\ middle \in Seq(STRING)
        BY <2>3, <2>4
      <3> HIDE DEF q, middle
      <3>2. q \o (middle \o q) = (q \o middle) \o q
        BY <3>1, ConcatAssociative
      <3> QED
        BY <3>2 DEF q, middle
    <2> QED
      BY <1>1, <2>1, <2>2, <2>4, <2>5 DEF Source
  <1> QED
    BY <1>7, <1>8, <1>9, <1>10, <1>11 DEF IsSpan, next

\* What numbers and words have in common: characters of words, no quote among them.
LEMMA WordCharacters ==
  ASSUME NEW input \in Seq(STRING), NEW i \in 1..Len(input), AtTurn(input, i),
         NEW next \in (i + 1)..(Len(input) + 1),
         \A k \in i..(next - 1) : input[k] \in IdentifierPart
  PROVE  /\ \A k \in i..next : QuotesBefore(input, k) % 2 = 0 /\ ~Inside(input, k)
         /\ \A k \in i..(next - 1) :
              (Inside(input, k) \/ input[k] \in Legal) /\ ~Dropped(input, k)
         /\ \A k \in (i + 1)..next : i \in WordBefore(input, k)
         /\ \A k \in (i + 1)..next : \A m \in WordBefore(input, k) :
              m \in i..(k - 1) \/ m \in WordBefore(input, i)
         /\ StartsToken(input, i)
  <1>1. \A k \in i..(next - 1) : input[k] # Quote /\ input[k] \notin Space
    BY Classes
  <1>2. \A k \in i..next : QuotesBefore(input, k) % 2 = 0 /\ ~Inside(input, k)
    <2> SUFFICES ASSUME NEW k \in i..next
                 PROVE  QuotesBefore(input, k) % 2 = 0 /\ ~Inside(input, k)
      OBVIOUS
    <2>1. \A m \in i..(k - 1) : m \in i..(next - 1)
      OBVIOUS
    <2>2. QuotesBefore(input, k) = QuotesBefore(input, i)
      BY <1>1, <2>1, NoQuoteBetween
    <2> QED
      BY <2>2, AtEvenQuotes DEF AtTurn
  <1>3. ASSUME NEW k \in (i + 1)..next PROVE i \in WordBefore(input, k)
    BY <1>2 DEF WordBefore
  <1>4. ASSUME NEW k \in (i + 1)..next, NEW m \in WordBefore(input, k)
        PROVE  m \in i..(k - 1) \/ m \in WordBefore(input, i)
    BY DEF WordBefore
  <1>5. StartsToken(input, i)
    BY DEF AtTurn
  <1> QED
    BY <1>1, <1>2, <1>3, <1>4, <1>5 DEF Legal, Dropped

\* A number is a token; a letter right behind it begins the next one.
LEMMA NumberIsSpan ==
  ASSUME NEW input \in Seq(STRING), NEW i \in 1..Len(input), AtTurn(input, i), NEW t,
         ReadsNumber(input, i, t)
  PROVE  IsSpan(input, i, t)
  <1> DEFINE next == t.next
  <1>1. /\ next \in (i + 1)..(Len(input) + 1) /\ input[i] \in Digit
        /\ \A k \in i..(next - 1) : input[k] \in Digit
        /\ next = Len(input) + 1 \/ input[next] \notin Digit
        /\ t.token.type = "INTEGER_LITERAL" /\ t.token.lexeme = SubSeq(input, i, next - 1)
    <2>1. next > i /\ IsRun(input, i, next, Digit) /\ input[i] \in Digit
          /\ t.token = Token("INTEGER_LITERAL", SubSeq(input, i, next - 1))
      BY DEF ReadsNumber
    <2>2. next \in (i + 1)..(Len(input) + 1)
      BY <2>1 DEF IsRun
    <2> HIDE DEF next
    <2>3. t.token.type = "INTEGER_LITERAL" /\ t.token.lexeme = SubSeq(input, i, next - 1)
      <3> DEFINE lexeme == SubSeq(input, i, next - 1)
                 token == t.token
      <3>1. token = Token("INTEGER_LITERAL", lexeme)
        BY <2>1
      <3> HIDE DEF lexeme, token
      <3>2. token.type = "INTEGER_LITERAL" /\ token.lexeme = lexeme
        BY <3>1 DEF Token
      <3> QED
        BY <3>2 DEF lexeme, token
    <2>4. /\ \A k \in i..(next - 1) : input[k] \in Digit
          /\ next = Len(input) + 1 \/ input[next] \notin Digit
      BY <2>1, <2>2 DEF IsRun
    <2> QED
      BY <2>1, <2>2, <2>3, <2>4
  <1> HIDE DEF next
  <1>2. \A k \in i..(next - 1) : /\ input[k] \in IdentifierPart /\ input[k] \notin IdentifierStart
                                 /\ input[k] \notin DOMAIN Punctuation /\ input[k] # Quote
    BY <1>1, Classes
  <1>3. /\ \A k \in i..next : QuotesBefore(input, k) % 2 = 0 /\ ~Inside(input, k)
        /\ \A k \in i..(next - 1) :
             (Inside(input, k) \/ input[k] \in Legal) /\ ~Dropped(input, k)
        /\ \A k \in (i + 1)..next : i \in WordBefore(input, k)
        /\ \A k \in (i + 1)..next : \A m \in WordBefore(input, k) :
             m \in i..(k - 1) \/ m \in WordBefore(input, i)
        /\ StartsToken(input, i)
    BY <1>1, <1>2, WordCharacters
  <1>4. \A k \in (i + 1)..(next - 1) : ~StartsToken(input, k)
    <2> SUFFICES ASSUME NEW k \in (i + 1)..(next - 1) PROVE ~StartsToken(input, k)
      OBVIOUS
    <2>1. k \in i..(next - 1) /\ k \in (i + 1)..next
      BY <1>1
    <2> QED
      BY <1>2, <1>3, <2>1 DEF StartsToken
  <1>5. WordBefore(input, i) = {}
    <2>1. i \in i..(next - 1)
      BY <1>1
    <2> QED
      BY <1>2, <1>3, <2>1 DEF StartsToken
  <1>6. AtTurn(input, next)
    <2>1. next \in i..next /\ next \in (i + 1)..next
      BY <1>1
    <2>2. ASSUME next \in 1..Len(input), input[next] \in IdentifierPart
          PROVE  StartsToken(input, next)
      <3>1. input[next] \in IdentifierStart
        BY <1>1, <2>2, Classes
      <3>2. \A m \in WordBefore(input, next) : input[m] \in Digit
        BY <1>1, <1>3, <1>5, <2>1
      <3> QED
        BY <1>3, <2>1, <3>1, <3>2 DEF StartsToken
    <2> QED
      BY <1>3, <2>1, <2>2 DEF AtTurn
  <1>7. Source(t.token) = SubSeq(input, i, next - 1)
    BY <1>1 DEF Source
  <1> QED
    BY <1>3, <1>4, <1>6, <1>7 DEF IsSpan, next

\* A word is a token.
LEMMA WordIsSpan ==
  ASSUME NEW input \in Seq(STRING), NEW i \in 1..Len(input), AtTurn(input, i), NEW t,
         ReadsWord(input, i, t)
  PROVE  IsSpan(input, i, t)
  <1> DEFINE next == t.next
  <1>1. /\ next \in (i + 1)..(Len(input) + 1) /\ input[i] \in IdentifierStart
        /\ \A k \in i..(next - 1) : input[k] \in IdentifierPart
        /\ next = Len(input) + 1 \/ input[next] \notin IdentifierPart
        /\ t.token.type = classifyIdentifier(SubSeq(input, i, next - 1))
        /\ t.token.lexeme = SubSeq(input, i, next - 1)
    BY DEF ReadsWord, Token, IsRun
  <1> HIDE DEF next
  <1>2. \A k \in i..(next - 1) : input[k] \notin DOMAIN Punctuation /\ input[k] # Quote
    BY <1>1, Classes
  <1>3. /\ \A k \in i..next : QuotesBefore(input, k) % 2 = 0 /\ ~Inside(input, k)
        /\ \A k \in i..(next - 1) :
             (Inside(input, k) \/ input[k] \in Legal) /\ ~Dropped(input, k)
        /\ \A k \in (i + 1)..next : i \in WordBefore(input, k)
        /\ StartsToken(input, i)
    BY <1>1, WordCharacters
  <1>4. input[i] \notin Digit
    BY <1>1, Classes
  <1>5. \A k \in (i + 1)..(next - 1) : ~StartsToken(input, k)
    <2> SUFFICES ASSUME NEW k \in (i + 1)..(next - 1) PROVE ~StartsToken(input, k)
      OBVIOUS
    <2>1. k \in i..(next - 1) /\ k \in (i + 1)..next
      BY <1>1
    <2> QED
      BY <1>2, <1>3, <1>4, <2>1 DEF StartsToken
  <1>6. AtTurn(input, next)
    <2>1. next \in i..next
      BY <1>1
    <2> QED
      BY <1>1, <1>3, <2>1 DEF AtTurn
  <1>7. Source(t.token) = SubSeq(input, i, next - 1)
    <2>1. classifyIdentifier(SubSeq(input, i, next - 1)) # "STRING_LITERAL"
      BY TokenizerAssumption DEF classifyIdentifier, TokenizerAssumption, Range
    <2> QED
      BY <1>1, <2>1 DEF Source
  <1> QED
    BY <1>3, <1>5, <1>6, <1>7 DEF IsSpan, next

\* What a step makes of the value before it.
Steps(S) == [Nat -> [S -> S]]

\* f is defined by steps from base, up to top.
DefinedBy(f, S, base, step, top) ==
    /\ f \in [0..top -> S]
    /\ f[0] = base
    /\ \A n \in 1..top : f[n] = step[n][f[n - 1]]

\* A function that is defined step by step exists.
LEMMA StepByStep ==
  ASSUME NEW S, NEW base \in S, NEW step \in Steps(S), NEW N \in Nat
  PROVE  \E f : DefinedBy(f, S, base, step, N)
  <1> DEFINE Good(f, top) == f[0] = base /\ \A n \in 1..top : f[n] = step[n][f[n - 1]]
             T == {top \in Nat : \E f \in [0..top -> S] : Good(f, top)}
  <1>1. 0 \in T
    <2> DEFINE f == [n \in 0..0 |-> base]
    <2>1. f \in [0..0 -> S] /\ Good(f, 0)
      OBVIOUS
    <2> QED
      BY <2>1
  <1>2. ASSUME NEW top \in Nat, top \in T PROVE top + 1 \in T
    <2>1. PICK f \in [0..top -> S] : Good(f, top)
      BY <1>2
    <2> DEFINE g == [n \in 0..(top + 1) |-> IF n <= top THEN f[n] ELSE step[top + 1][f[top]]]
    <2>2. f[top] \in S /\ top + 1 \in Nat /\ step[top + 1] \in [S -> S]
      BY DEF Steps
    <2>3. step[top + 1][f[top]] \in S
      BY <2>2
    <2>4. g \in [0..(top + 1) -> S]
      BY <2>3
    <2>5. g[0] = base
      BY <2>1
    <2>6. ASSUME NEW n \in 1..(top + 1) PROVE g[n] = step[n][g[n - 1]]
      <3>1. CASE n <= top
        BY <2>1, <3>1
      <3>2. CASE n = top + 1
        <4>1. n - 1 = top /\ g[n - 1] = f[top] /\ g[n] = step[top + 1][f[top]]
          BY <3>2
        <4> QED
          BY <3>2, <4>1
      <3> QED
        BY <3>1, <3>2
    <2> HIDE DEF g
    <2> QED
      BY <2>4, <2>5, <2>6
  <1>3. Nat \subseteq T
    <2> HIDE DEF T
    <2> QED
      BY <1>1, <1>2, SetInduction
  <1>4. \E f \in [0..N -> S] : Good(f, N)
    BY <1>3
  <1> QED
    BY <1>4 DEF DefinedBy

\* g[n] are the characters that are kept of the first n.
AreKept(g, input, top) ==
    g = [i \in 0..top |->
           IF i = 0 THEN <<>>
           ELSE IF input[i] \in Space /\ ~Inside(input, i) THEN g[i - 1]
           ELSE Append(g[i - 1], input[i])]

LEMMA KeptDef ==
  ASSUME NEW input \in Seq(STRING)
  PROVE  \E g \in [0..Len(input) -> Seq(STRING)] :
            /\ g[0] = <<>>
            /\ \A n \in 1..Len(input) :
                 g[n] = IF Dropped(input, n) THEN g[n - 1] ELSE Append(g[n - 1], input[n])
            /\ Kept(input) = g[Len(input)]
  <1> DEFINE L == Len(input)
             step == [n \in Nat |-> [s \in Seq(STRING) |->
                        IF n \notin 1..L \/ Dropped(input, n) THEN s
                        ELSE Append(s, input[n])]]
             Good(f) == \A n \in 1..L : f[n] = IF Dropped(input, n) THEN f[n - 1]
                                               ELSE Append(f[n - 1], input[n])
  <1>1. step \in [Nat -> [Seq(STRING) -> Seq(STRING)]]
    <2>1. ASSUME NEW n \in Nat, NEW s \in Seq(STRING), n \in 1..L
          PROVE  Append(s, input[n]) \in Seq(STRING)
      <3>1. input[n] \in STRING
        BY <2>1
      <3> QED
        BY <3>1, AppendProperties
    <2> QED
      BY <2>1
  <1>2. <<>> \in Seq(STRING) /\ L \in Nat
    OBVIOUS
  <1>3. PICK f \in [0..L -> Seq(STRING)] :
          f[0] = <<>> /\ \A n \in 1..L : f[n] = step[n][f[n - 1]]
    <2> DEFINE S == Seq(STRING)
               none == <<>>
    <2>1. none \in S /\ step \in Steps(S)
      BY <1>1, <1>2 DEF Steps
    <2> HIDE DEF step, S, none
    <2>2. L \in Nat
      BY <1>2
    <2> HIDE DEF L
    <2>3. \E f : DefinedBy(f, S, none, step, L)
      BY <2>1, <2>2, StepByStep
    <2> QED
      BY <2>3 DEF S, none, DefinedBy
  <1>4. Good(f)
    <2> SUFFICES ASSUME NEW n \in 1..L
                 PROVE  f[n] = IF Dropped(input, n) THEN f[n - 1] ELSE Append(f[n - 1], input[n])
      OBVIOUS
    <2>1. n - 1 \in 0..L /\ n \in Nat
      OBVIOUS
    <2>2. f[n - 1] \in Seq(STRING)
      BY <2>1
    <2>3. step[n][f[n - 1]] = IF Dropped(input, n) THEN f[n - 1] ELSE Append(f[n - 1], input[n])
      BY <2>2
    <2> QED
      BY <1>3, <2>3
  <1> HIDE DEF step
  <1>5. AreKept(f, input, L)
    <2>1. \A n \in 0..L : n # 0 => n \in 1..L
      BY <1>2
    <2>2. \A n \in 0..L : f[n] = IF n = 0 THEN <<>>
                                 ELSE IF input[n] \in Space /\ ~Inside(input, n) THEN f[n - 1]
                                 ELSE Append(f[n - 1], input[n])
      BY <1>3, <1>4, <2>1, Zenon DEF Dropped
    <2>3. f = [n \in 0..L |-> f[n]]
      OBVIOUS
    <2> QED
      BY <2>2, <2>3, Zenon DEF AreKept
  <1> DEFINE keeps[i \in 0..Len(input)] ==
               IF i = 0 THEN <<>>
               ELSE IF input[i] \in Space /\ ~Inside(input, i) THEN keeps[i - 1]
               ELSE Append(keeps[i - 1], input[i])
  <1>6. AreKept(keeps, input, L)
    BY <1>5, Zenon DEF keeps, AreKept
  <1>7. Kept(input) = keeps[L]
    BY Zenon DEF Kept, keeps
  <1> HIDE DEF keeps
  <1> DEFINE Same == {n \in Nat : n \in 0..L => keeps[n] = f[n]}
  <1>8. \A n \in 0..L : keeps[n] = IF n = 0 THEN <<>>
                                   ELSE IF Dropped(input, n) THEN keeps[n - 1]
                                   ELSE Append(keeps[n - 1], input[n])
    BY <1>6, Zenon DEF AreKept, Dropped
  <1>9. 0 \in Same
    BY <1>3, <1>8
  <1>10. ASSUME NEW n \in Nat, n \in Same PROVE n + 1 \in Same
    <2> SUFFICES ASSUME n + 1 \in 0..L PROVE keeps[n + 1] = f[n + 1]
      OBVIOUS
    <2>1. n \in 0..L /\ n + 1 \in 1..L /\ (n + 1) - 1 = n /\ n + 1 # 0
      BY <1>2
    <2>2. keeps[n] = f[n]
      BY <1>10, <2>1
    <2> QED
      BY <1>4, <1>8, <2>1, <2>2
  <1>11. Nat \subseteq Same
    <2> HIDE DEF Same
    <2> QED
      BY <1>9, <1>10, SetInduction
  <1>12. keeps[L] = f[L]
    BY <1>2, <1>11
  <1> QED
    BY <1>3, <1>4, <1>7, <1>12

\* A part of a line, a name of its own for the provers.
Part(s, m, n) == SubSeq(s, m, n)

\* One character more.
LEMMA OneMore ==
  ASSUME NEW S, NEW s \in Seq(S), NEW i \in 1..Len(s), NEW k \in i..Len(s)
  PROVE  /\ Part(s, i, i - 1) = <<>>
         /\ Part(s, i, k - 1) \in Seq(S)
         /\ Part(s, i, k) = Append(Part(s, i, k - 1), s[k])
  <1> DEFINE part == SubSeq(s, i, k - 1)
  <1>1. k \in 1..Len(s) /\ i \in 1..(Len(s) + 1) /\ k - 1 \in (i - 1)..Len(s)
    OBVIOUS
  <1>2. part \in Seq(S) /\ s[k] \in S
    BY <1>1, PartOfLine
  <1>3. SubSeq(s, i, k) = part \o <<s[k]>>
    BY <1>1, SubSeqRecursiveSecond
  <1>4. SubSeq(s, i, i - 1) = <<>>
    BY SubSeqEmpty
  <1> HIDE DEF part
  <1>5. Append(part, s[k]) = part \o <<s[k]>>
    BY <1>2, AppendIsConcat
  <1> QED
    BY <1>2, <1>3, <1>4, <1>5 DEF part, Part

\* Append to the second of two sequences.
LEMMA AppendSecond ==
  ASSUME NEW S, NEW s \in Seq(S), NEW t \in Seq(S), NEW c \in S
  PROVE  /\ s \o <<>> = s
         /\ s \o Append(t, c) = Append(s \o t, c)
  <1> DEFINE one == <<c>>
  <1>1. one \in Seq(S)
    OBVIOUS
  <1>2. s \o t \in Seq(S)
    BY ConcatProperties
  <1>3. Append(t, c) = t \o one /\ Append(s \o t, c) = (s \o t) \o one
    BY <1>2, AppendIsConcat
  <1> HIDE DEF one
  <1>4. (s \o t) \o one = s \o (t \o one)
    BY <1>1, ConcatAssociative
  <1>5. s \o <<>> = s
    BY ConcatEmptySeq
  <1> QED
    BY <1>3, <1>4, <1>5

LEMMA CatAppend ==
  ASSUME NEW S, NEW s \in Seq(S), NEW t \in Seq(S), NEW c \in S
  PROVE  Cat(s, Append(t, c)) = Append(Cat(s, t), c)
  <1>1. s \o Append(t, c) = Append(s \o t, c)
    BY ONLY s \in Seq(S), t \in Seq(S), c \in S, AppendSecond, SMTT(60)
  <1> QED
    BY <1>1, Zenon DEF Cat

\* What is kept of a part of the line in which nothing is dropped is that part.
LEMMA KeptSpan ==
  ASSUME NEW input \in Seq(STRING), NEW g \in [0..Len(input) -> Seq(STRING)],
         \A n \in 1..Len(input) :
            g[n] = IF Dropped(input, n) THEN g[n - 1] ELSE Append(g[n - 1], input[n]),
         NEW i \in 1..Len(input), NEW next \in (i + 1)..(Len(input) + 1),
         \A k \in i..(next - 1) : ~Dropped(input, k)
  PROVE  g[next - 1] = g[i - 1] \o Part(input, i, next - 1)
  <1> DEFINE before == g[i - 1]
             Good(k) == g[k] = before \o Part(input, i, k)
             S == {m \in Nat : i + m <= next - 1 => Good(i + m)}
  <1>1. before \in Seq(STRING) /\ Part(input, i, i - 1) = <<>>
    <2>1. i - 1 \in 0..Len(input) /\ i \in i..Len(input)
      OBVIOUS
    <2> QED
      BY <2>1, OneMore
  <1>2. g[i - 1] = before
    OBVIOUS
  <1> HIDE DEF before
  <1>3. Good(i - 1)
    BY <1>1, <1>2, ConcatEmptySeq
  <1>4. ASSUME NEW k \in i..(next - 1), Good(k - 1) PROVE Good(k)
    <2>1. k \in 1..Len(input) /\ k \in i..Len(input)
      OBVIOUS
    <2>2. Part(input, i, k - 1) \in Seq(STRING) /\ input[k] \in STRING
          /\ Part(input, i, k) = Append(Part(input, i, k - 1), input[k])
      BY <2>1, OneMore
    <2>3. g[k] = Append(g[k - 1], input[k])
      BY <2>1
    <2>4. before \o Append(Part(input, i, k - 1), input[k])
            = Append(before \o Part(input, i, k - 1), input[k])
      <3> DEFINE part == Part(input, i, k - 1)
                 c == input[k]
      <3>1. before \in Seq(STRING) /\ part \in Seq(STRING) /\ c \in STRING
        BY <1>1, <2>2
      <3> HIDE DEF part, c
      <3>2. before \o Append(part, c) = Append(before \o part, c)
        <4>1. PICK T : T = STRING
          OBVIOUS
        <4>2. before \in Seq(T) /\ part \in Seq(T) /\ c \in T
          BY <3>1, <4>1
        <4>3. Cat(before, Append(part, c)) = Append(Cat(before, part), c)
          BY ONLY <4>2, CatAppend
        <4> QED
          BY <4>3, Zenon DEF Cat
      <3> QED
        BY <3>2 DEF part, c
    <2> QED
      BY <1>4, <2>2, <2>3, <2>4
  <1> HIDE DEF Good
  <1>5. 0 \in S
    <2>1. i + 0 = i /\ i \in i..(next - 1)
      OBVIOUS
    <2>2. Good(i)
      BY <1>3, <1>4, <2>1
    <2> QED
      BY <2>1, <2>2
  <1>6. ASSUME NEW m \in Nat, m \in S PROVE m + 1 \in S
    <2> SUFFICES ASSUME i + (m + 1) <= next - 1 PROVE Good(i + (m + 1))
      OBVIOUS
    <2>1. Good(i + m) /\ (i + (m + 1)) - 1 = i + m /\ i + (m + 1) \in i..(next - 1)
      BY <1>6
    <2> QED
      BY <1>4, <2>1
  <1>7. Nat \subseteq S
    <2> HIDE DEF S
    <2> QED
      BY <1>5, <1>6, SetInduction
  <1>8. Good(next - 1)
    <2>1. (next - 1) - i \in Nat /\ i + ((next - 1) - i) = next - 1
      OBVIOUS
    <2>2. (next - 1) - i \in S
      BY <1>7, <2>1
    <2> QED
      BY <2>1, <2>2
  <1> QED
    BY <1>8 DEF Good, before

\* The characters of lines and quotes.
Text == STRING \cup {Quote}

LEMMA PlainText == Seq(STRING) \subseteq Seq(Text) /\ <<Quote>> \in Seq(Text)
  <1>1. Seq(STRING) \subseteq Seq(Text)
    BY DEF Text
  <1>2. Quote \in Text
    BY DEF Text
  <1> QED
    BY <1>1, <1>2

\* The characters of a proper token.
LEMMA SourceIsText == ASSUME NEW t \in ProperTokens PROVE Source(t) \in Seq(Text)
  <1>1. t.lexeme \in Seq(Text)
    BY PlainText DEF ProperTokens
  <1>2. <<Quote>> \in Seq(Text)
    BY PlainText
  <1> DEFINE q == <<Quote>>
  <1> HIDE DEF q
  <1>3. q \o t.lexeme \o q \in Seq(Text)
    <2>1. q \in Seq(Text)
      BY <1>2 DEF q
    <2>2. q \o t.lexeme \in Seq(Text)
      BY <1>1, <2>1, ConcatProperties
    <2> QED
      BY <2>1, <2>2, ConcatProperties
  <1> QED
    BY <1>1, <1>3 DEF Source, q

\* u[n] are the characters of the first n tokens.
AreSources(u, tokens, top) ==
    u = [n \in 0..top |-> IF n = 0 THEN <<>> ELSE u[n - 1] \o Source(tokens[n])]

LEMMA SourcesDef ==
  ASSUME NEW tokens \in Seq(ProperTokens)
  PROVE  \E u \in [0..Len(tokens) -> Seq(Text)] :
            /\ u[0] = <<>>
            /\ \A n \in 1..Len(tokens) : u[n] = u[n - 1] \o Source(tokens[n])
            /\ Sources(tokens) = u[Len(tokens)]
  <1> DEFINE L == Len(tokens)
             step == [n \in Nat |-> [s \in Seq(Text) |->
                        IF n \notin 1..L THEN s ELSE s \o Source(tokens[n])]]
  <1>1. step \in [Nat -> [Seq(Text) -> Seq(Text)]]
    <2>1. ASSUME NEW n \in Nat, NEW s \in Seq(Text), n \in 1..L
          PROVE  s \o Source(tokens[n]) \in Seq(Text)
      <3>1. tokens[n] \in ProperTokens
        BY <2>1
      <3>2. Source(tokens[n]) \in Seq(Text)
        BY <3>1, SourceIsText
      <3> QED
        BY <3>2, ConcatProperties
    <2> QED
      BY <2>1
  <1>2. <<>> \in Seq(Text) /\ L \in Nat
    OBVIOUS
  <1>3. PICK f \in [0..L -> Seq(Text)] :
          f[0] = <<>> /\ \A n \in 1..L : f[n] = step[n][f[n - 1]]
    <2> DEFINE S == Seq(Text)
               none == <<>>
    <2>1. none \in S /\ step \in Steps(S)
      BY <1>1, <1>2 DEF Steps
    <2> HIDE DEF step, S, none
    <2>2. L \in Nat
      BY <1>2
    <2> HIDE DEF L
    <2>3. \E f : DefinedBy(f, S, none, step, L)
      BY <2>1, <2>2, StepByStep
    <2> QED
      BY <2>3 DEF S, none, DefinedBy
  <1>4. \A n \in 1..L : f[n] = f[n - 1] \o Source(tokens[n])
    <2> SUFFICES ASSUME NEW n \in 1..L PROVE f[n] = f[n - 1] \o Source(tokens[n])
      OBVIOUS
    <2>1. n - 1 \in 0..L /\ n \in Nat
      OBVIOUS
    <2>2. f[n - 1] \in Seq(Text)
      BY <2>1
    <2>3. step[n] = [s \in Seq(Text) |-> s \o Source(tokens[n])]
      BY <2>1
    <2>4. step[n][f[n - 1]] = f[n - 1] \o Source(tokens[n])
      BY <2>2, <2>3, Zenon
    <2> QED
      BY <1>3, <2>4
  <1> HIDE DEF step
  <1>5. AreSources(f, tokens, L)
    <2>1. \A n \in 0..L : n # 0 => n \in 1..L
      BY <1>2
    <2>2. \A n \in 0..L : f[n] = IF n = 0 THEN <<>> ELSE f[n - 1] \o Source(tokens[n])
      BY <1>3, <1>4, <2>1, Zenon
    <2>3. f = [n \in 0..L |-> f[n]]
      OBVIOUS
    <2> QED
      BY <2>2, <2>3, Zenon DEF AreSources
  <1> DEFINE upTo[n \in 0..Len(tokens)] ==
               IF n = 0 THEN <<>> ELSE upTo[n - 1] \o Source(tokens[n])
  <1>6. AreSources(upTo, tokens, L)
    BY <1>5, Zenon DEF upTo, AreSources
  <1>7. Sources(tokens) = upTo[L]
    BY Zenon DEF Sources, upTo
  <1> HIDE DEF upTo
  <1> DEFINE Same == {n \in Nat : n \in 0..L => upTo[n] = f[n]}
  <1>8. \A n \in 0..L : upTo[n] = IF n = 0 THEN <<>> ELSE upTo[n - 1] \o Source(tokens[n])
    BY <1>6, Zenon DEF AreSources
  <1>9. 0 \in Same
    BY <1>3, <1>8
  <1>10. ASSUME NEW n \in Nat, n \in Same PROVE n + 1 \in Same
    <2> SUFFICES ASSUME n + 1 \in 0..L PROVE upTo[n + 1] = f[n + 1]
      OBVIOUS
    <2>1. n \in 0..L /\ n + 1 \in 1..L /\ (n + 1) - 1 = n /\ n + 1 # 0
      BY <1>2
    <2>2. upTo[n] = f[n]
      BY <1>10, <2>1
    <2> QED
      BY <1>4, <1>8, <2>1, <2>2
  <1>11. Nat \subseteq Same
    <2> HIDE DEF Same
    <2> QED
      BY <1>9, <1>10, SetInduction
  <1>12. upTo[L] = f[L]
    BY <1>2, <1>11
  <1> QED
    BY <1>3, <1>4, <1>7, <1>12

\* The characters of a token, and then those of the others.
LEMMA SourcesBefore ==
  ASSUME NEW t \in ProperTokens, NEW rest \in Seq(ProperTokens)
  PROVE  /\ Sources(<<>>) = <<>>
         /\ Sources(rest) \in Seq(Text)
         /\ Sources(<<t>> \o rest) = Source(t) \o Sources(rest)
  <1> DEFINE all == <<t>> \o rest
             m == Len(rest)
  <1>1. /\ all \in Seq(ProperTokens) /\ Len(all) = m + 1 /\ all[1] = t /\ m \in Nat
        /\ \A k \in 1..m : all[k + 1] = rest[k]
    BY TokenBefore
  <1> HIDE DEF all
  <1>2. PICK u \in [0..m -> Seq(Text)] :
          /\ u[0] = <<>> /\ \A n \in 1..m : u[n] = u[n - 1] \o Source(rest[n])
          /\ Sources(rest) = u[m]
    BY SourcesDef
  <1>3. PICK v \in [0..(m + 1) -> Seq(Text)] :
          /\ v[0] = <<>> /\ \A n \in 1..(m + 1) : v[n] = v[n - 1] \o Source(all[n])
          /\ Sources(all) = v[m + 1]
    BY <1>1, SourcesDef
  <1>4. Source(t) \in Seq(Text)
    BY SourceIsText
  <1> DEFINE S == {n \in Nat : n <= m => v[n + 1] = Source(t) \o u[n]}
  <1>5. 0 \in S
    <2>1. 1 \in 1..(m + 1) /\ 1 - 1 = 0 /\ 0 + 1 = 1
      BY <1>1
    <2>2. v[1] = <<>> \o Source(t)
      BY <1>1, <1>3, <2>1
    <2> QED
      BY <1>2, <1>4, <2>1, <2>2, ConcatEmptySeq
  <1>6. ASSUME NEW n \in Nat, n \in S PROVE n + 1 \in S
    <2> SUFFICES ASSUME n + 1 <= m PROVE v[(n + 1) + 1] = Source(t) \o u[n + 1]
      OBVIOUS
    <2>1. n + 1 \in 1..m /\ (n + 1) + 1 \in 1..(m + 1) /\ ((n + 1) + 1) - 1 = n + 1
          /\ (n + 1) - 1 = n /\ n \in 0..m
      BY <1>1
    <2>2. v[n + 1] = Source(t) \o u[n] /\ all[(n + 1) + 1] = rest[n + 1]
          /\ rest[n + 1] \in ProperTokens
      BY <1>1, <1>6, <2>1
    <2> DEFINE x == Source(t)
               y == u[n]
               z == Source(rest[n + 1])
    <2>3. x \in Seq(Text) /\ y \in Seq(Text) /\ z \in Seq(Text)
      BY <1>2, <1>4, <2>1, <2>2, SourceIsText
    <2>4. v[(n + 1) + 1] = (x \o y) \o z
      BY <1>3, <2>1, <2>2
    <2>5. u[n + 1] = y \o z
      BY <1>2, <2>1
    <2> HIDE DEF x, y, z
    <2>6. (x \o y) \o z = x \o (y \o z)
      <3>1. Cat(Cat(x, y), z) = Cat(x, Cat(y, z))
        BY ONLY <2>3, CatAssociative
      <3> QED
        BY <3>1, Zenon DEF Cat
    <2> QED
      BY <2>4, <2>5, <2>6 DEF x
  <1>7. Nat \subseteq S
    <2> HIDE DEF S
    <2> QED
      BY <1>5, <1>6, SetInduction
  <1>8. v[m + 1] = Source(t) \o u[m]
    <2>1. m <= m
      BY <1>1
    <2>2. m \in S
      <3> HIDE DEF S
      <3> QED
        BY <1>1, <1>7
    <2> QED
      BY <2>1, <2>2
  <1>9. Sources(rest) \in Seq(Text)
    BY <1>1, <1>2
  <1>10. Sources(<<>>) = <<>>
    <2>1. <<>> \in Seq(ProperTokens) /\ Len(<<>>) = 0
      OBVIOUS
    <2> QED
      BY <2>1, SourcesDef
  <1> QED
    BY <1>2, <1>3, <1>8, <1>9, <1>10 DEF all

\* What the line has to be from i on to be split.
LegalFrom(input, i) ==
    /\ QuotesBefore(input, Len(input) + 1) % 2 = 0
    /\ \A k \in i..Len(input) : Inside(input, k) \/ input[k] \in Legal

StartsFrom(input, i) == {k \in i..Len(input) : StartsToken(input, k)}

\* r is the split of the line from i on; g are the characters that are kept.
IsSplit(r, g, input, i) ==
    /\ r.has_value \in BOOLEAN
    /\ r.has_value <=> LegalFrom(input, i)
    /\ r.has_value => /\ r.value \in Seq(ProperTokens)
                      /\ Len(r.value) = Cardinality(StartsFrom(input, i))
                      /\ g[i - 1] \o Sources(r.value) = g[Len(input)]

\* g are the characters kept of the line.
AreKeptOf(g, input) ==
    /\ g \in [0..Len(input) -> Seq(STRING)]
    /\ \A n \in 1..Len(input) :
         g[n] = IF Dropped(input, n) THEN g[n - 1] ELSE Append(g[n - 1], input[n])

LEMMA FiniteStarts ==
  ASSUME NEW input, Len(input) \in Nat, NEW i \in Nat
  PROVE  IsFiniteSet(StartsFrom(input, i)) /\ Cardinality(StartsFrom(input, i)) \in Nat
  <1>1. IsFiniteSet(i..Len(input))
    BY FS_Interval
  <1>2. IsFiniteSet(StartsFrom(input, i))
    BY <1>1, FS_Subset DEF StartsFrom
  <1> QED
    BY <1>2, FS_CardinalityType

\* Nothing is left of the line.
LEMMA SplitEnd ==
  ASSUME NEW input \in Seq(STRING), NEW g, AreKeptOf(g, input),
         AtTurn(input, Len(input) + 1)
  PROVE  IsSplit(Some(<<>>), g, input, Len(input) + 1)
  <1> DEFINE L == Len(input)
  <1>1. L \in Nat /\ (L + 1)..L = {} /\ (L + 1) - 1 = L
    OBVIOUS
  <1>2. LegalFrom(input, L + 1)
    BY <1>1 DEF LegalFrom, AtTurn
  <1>3. Cardinality(StartsFrom(input, L + 1)) = 0
    <2>1. StartsFrom(input, L + 1) = {}
      BY <1>1 DEF StartsFrom
    <2> QED
      BY <2>1, FS_EmptySet
  <1>4. <<>> \in Seq(ProperTokens) /\ Len(<<>>) = 0
    OBVIOUS
  <1>5. Sources(<<>>) = <<>>
    BY <1>4, SourcesDef
  <1>6. g[L] \o <<>> = g[L]
    <2>1. g[L] \in Seq(STRING)
      BY <1>1 DEF AreKeptOf
    <2> QED
      BY <2>1, ConcatEmptySeq
  <1> QED
    BY <1>1, <1>2, <1>3, <1>4, <1>5, <1>6 DEF IsSplit, Some

\* A space is dropped.
LEMMA SplitSpace ==
  ASSUME NEW input \in Seq(STRING), NEW g, AreKeptOf(g, input),
         NEW i \in 1..Len(input), AtTurn(input, i), input[i] \in Space
  PROVE  /\ AtTurn(input, i + 1)
         /\ \A r : IsSplit(r, g, input, i + 1) => IsSplit(r, g, input, i)
  <1>1. QuotesBefore(input, i) % 2 = 0
    BY DEF AtTurn
  <1>2. input[i] # Quote /\ input[i] \notin IdentifierPart
    BY Classes
  <1>3. ~Inside(input, i) /\ ~StartsToken(input, i)
    BY <1>1, AtEvenQuotes
  <1>4. AtTurn(input, i + 1)
    <2>1. QuotesBefore(input, i + 1) = QuotesBefore(input, i)
      <3>1. \A k \in i..((i + 1) - 1) : k = i
        OBVIOUS
      <3> QED
        BY <1>2, <3>1, NoQuoteBetween
    <2>2. i + 1 \in Nat \ {0, 1} /\ (i + 1) - 1 = i
      OBVIOUS
    <2> QED
      BY <1>1, <1>2, <2>1, <2>2, TurnBehind
  <1>5. \A k \in i..Len(input) : k = i \/ k \in (i + 1)..Len(input)
    OBVIOUS
  <1>6. LegalFrom(input, i) <=> LegalFrom(input, i + 1)
    <2>1. input[i] \in Legal
      BY DEF Legal
    <2> QED
      BY <1>5, <2>1 DEF LegalFrom
  <1>7. StartsFrom(input, i) = StartsFrom(input, i + 1)
    BY <1>3, <1>5 DEF StartsFrom
  <1>8. g[(i + 1) - 1] = g[i - 1]
    BY <1>3 DEF AreKeptOf, Dropped
  <1> QED
    BY <1>4, <1>6, <1>7, <1>8 DEF IsSplit

\* A token, and then the others.
LEMMA SplitToken ==
  ASSUME NEW input \in Seq(STRING), NEW g, AreKeptOf(g, input),
         NEW i \in 1..Len(input), NEW t, t.next \in (i + 1)..(Len(input) + 1),
         t.token \in ProperTokens, IsSpan(input, i, t),
         NEW rest, IsSplit(rest, g, input, t.next)
  PROVE  IsSplit(IF rest.has_value THEN Some(<<t.token>> \o rest.value) ELSE nullopt,
                 g, input, i)
  <1> DEFINE next == t.next
             all == <<t.token>> \o rest.value
             L == Len(input)
  <1>1. next \in (i + 1)..(L + 1) /\ L \in Nat
    OBVIOUS
  <1>2. /\ StartsToken(input, i)
        /\ \A k \in (i + 1)..(next - 1) : ~StartsToken(input, k)
        /\ \A k \in i..(next - 1) : (Inside(input, k) \/ input[k] \in Legal) /\ ~Dropped(input, k)
        /\ Source(t.token) = Part(input, i, next - 1)
    BY DEF IsSpan, Part
  <1>3. rest.has_value \in BOOLEAN /\ (rest.has_value <=> LegalFrom(input, next))
    BY DEF IsSplit
  <1>4. rest.has_value => /\ rest.value \in Seq(ProperTokens)
                          /\ Len(rest.value) = Cardinality(StartsFrom(input, next))
                          /\ g[next - 1] \o Sources(rest.value) = g[L]
    BY DEF IsSplit
  <1> HIDE DEF next
  <1>5. \A k \in i..L : k \in i..(next - 1) \/ k \in next..L
    BY <1>1
  <1>6. LegalFrom(input, i) <=> LegalFrom(input, next)
    <2>1. \A k \in next..L : k \in i..L
      BY <1>1
    <2> QED
      BY <1>2, <1>5, <2>1 DEF LegalFrom
  <1>7. CASE ~rest.has_value
    <2>1. nullopt.has_value = FALSE
      BY DEF nullopt
    <2> QED
      BY <1>3, <1>6, <1>7, <2>1 DEF IsSplit
  <1>8. CASE rest.has_value
    <2>1. /\ all \in Seq(ProperTokens) /\ Len(all) = Len(rest.value) + 1
          /\ Sources(all) = Source(t.token) \o Sources(rest.value)
          /\ Sources(rest.value) \in Seq(Text)
      <3> DEFINE first == t.token
                 tail == rest.value
      <3>1. first \in ProperTokens /\ tail \in Seq(ProperTokens)
        BY <1>4, <1>8
      <3> HIDE DEF first, tail
      <3>2. /\ <<first>> \o tail \in Seq(ProperTokens) /\ Len(<<first>> \o tail) = Len(tail) + 1
            /\ Sources(<<first>> \o tail) = Source(first) \o Sources(tail)
            /\ Sources(tail) \in Seq(Text)
        BY <3>1, TokenBefore, SourcesBefore
      <3> QED
        BY <3>2 DEF first, tail
    <2> HIDE DEF all
    <2>2. Cardinality(StartsFrom(input, i)) = Cardinality(StartsFrom(input, next)) + 1
      <3>1. StartsFrom(input, i) = StartsFrom(input, next) \cup {i}
        <4>1. \A k \in i..L : k = i \/ k \in (i + 1)..(next - 1) \/ k \in next..L
          BY <1>1
        <4>2. \A k \in next..L : k \in i..L
          BY <1>1
        <4> QED
          BY <1>2, <4>1, <4>2 DEF StartsFrom
      <3>2. i \notin StartsFrom(input, next)
        BY <1>1 DEF StartsFrom
      <3>3. IsFiniteSet(StartsFrom(input, next))
        BY <1>1, FiniteStarts
      <3> QED
        BY <3>1, <3>2, <3>3, FS_AddElement
    <2>3. g[i - 1] \o Sources(all) = g[L]
      <3> DEFINE x == g[i - 1]
                 y == Source(t.token)
                 z == Sources(rest.value)
      <3>1. x \in Seq(STRING)
        BY <1>1 DEF AreKeptOf
      <3>2. x \in Seq(Text) /\ y \in Seq(Text) /\ z \in Seq(Text)
        BY <2>1, <3>1, PlainText, SourceIsText
      <3>3. g[next - 1] = x \o y
        <4>1. g[next - 1] = g[i - 1] \o Part(input, i, next - 1)
          BY <1>1, <1>2, KeptSpan DEF AreKeptOf
        <4> QED
          BY <1>2, <4>1
      <3> HIDE DEF x, y, z
      <3>4. (x \o y) \o z = x \o (y \o z)
        <4>1. Cat(Cat(x, y), z) = Cat(x, Cat(y, z))
          BY ONLY <3>2, CatAssociative
        <4> QED
          BY <4>1, Zenon DEF Cat
      <3>5. (x \o y) \o z = g[L]
        BY <1>4, <1>8, <3>3 DEF z
      <3>6. Sources(all) = y \o z
        BY <2>1 DEF y, z
      <3> QED
        BY <3>4, <3>5, <3>6 DEF x
    <2>4. Some(all).has_value = TRUE /\ Some(all).value = all
      BY DEF Some
    <2>5. IsSplit(Some(all), g, input, i)
      BY <1>3, <1>4, <1>6, <1>8, <2>1, <2>2, <2>3, <2>4 DEF IsSplit
    <2> QED
      BY <1>8, <2>5 DEF all
  <1> QED
    BY <1>3, <1>7, <1>8

\* Where nothing can be read the line cannot be split.
LEMMA SplitFails ==
  ASSUME NEW input \in Seq(STRING), NEW g, NEW i \in 1..Len(input), AtTurn(input, i),
         input[i] \notin Space, ~readToken(input, i).has_value
  PROVE  IsSplit(nullopt, g, input, i)
  <1>1. Len(input) \in Nat /\ DOMAIN input = 1..Len(input)
    OBVIOUS
  <1>2. nullopt.has_value = FALSE
    BY DEF nullopt
  <1>3. ~LegalFrom(input, i)
    <2>1. CASE input[i] = Quote /\ \A k \in (i + 1)..Len(input) : input[k] # Quote
      <3>1. QuotesBefore(input, i + 1) % 2 = 1
        BY <2>1, AtEvenQuotes DEF AtTurn
      <3>2. \A k \in (i + 1)..((Len(input) + 1) - 1) : input[k] # Quote
        BY <1>1, <2>1
      <3>3. i + 1 \in Nat \ {0} /\ Len(input) + 1 \in Nat /\ Len(input) + 1 >= i + 1
        BY <1>1
      <3>4. QuotesBefore(input, Len(input) + 1) = QuotesBefore(input, i + 1)
        BY <3>2, <3>3, NoQuoteBetween
      <3> QED
        BY <3>1, <3>4 DEF LegalFrom
    <2>2. CASE input[i] \notin DOMAIN Punctuation \cup {Quote} \cup IdentifierPart
      <3>1. ~Inside(input, i)
        BY AtEvenQuotes DEF AtTurn
      <3>2. input[i] \notin Legal
        BY <2>2 DEF Legal
      <3>3. i \in i..Len(input)
        BY <1>1
      <3> QED
        BY <3>1, <3>2, <3>3 DEF LegalFrom
    <2> QED
      BY <1>1, <2>1, <2>2, ReadTokenIs
  <1> QED
    BY <1>2, <1>3 DEF IsSplit

\* A line has tokens if and only if it is legible, and they are its tokens.
LEMMA LineIsSplit ==
  ASSUME NEW input \in Seq(STRING)
  PROVE  LET r == tokenize(input) IN
           /\ r.has_value = Legible(input)
           /\ r.has_value \in BOOLEAN
           /\ Legible(input) =>
                /\ Sources(r.value) = Kept(input)
                /\ Len(r.value) = Cardinality({i \in DOMAIN input : StartsToken(input, i)})
  <1>1. Len(input) \in Nat /\ DOMAIN input = 1..Len(input)
    OBVIOUS
  <1> DEFINE top == Len(input) + 1
  <1>2. PICK h : /\ \A i \in 1..top : h[i] = TokensFrom(h, input, i)
                 /\ tokenize(input) = h[1]
    BY <1>1, TokenizeDef
  <1>3. PICK g : AreKeptOf(g, input) /\ g[0] = <<>> /\ Kept(input) = g[Len(input)]
    BY KeptDef DEF AreKeptOf
  <1> DEFINE Good(i) == AtTurn(input, i) => IsSplit(h[i], g, input, i)
             S == {m \in Nat : \A i \in 1..top : top - m < i => Good(i)}
  <1>4. ASSUME NEW i \in 1..top, \A j \in (i + 1)..top : Good(j) PROVE Good(i)
    <2> SUFFICES ASSUME AtTurn(input, i) PROVE IsSplit(h[i], g, input, i)
      OBVIOUS
    <2>1. h[i] = TokensFrom(h, input, i)
      BY <1>2
    <2>2. CASE i > Len(input)
      <3>1. h[i] = Some(<<>>) /\ i = Len(input) + 1
        BY <1>1, <2>1, <2>2 DEF TokensFrom
      <3> QED
        BY <1>3, <3>1, SplitEnd
    <2>3. CASE i <= Len(input) /\ input[i] \in Space
      <3>1. h[i] = h[i + 1] /\ i \in 1..Len(input) /\ i + 1 \in (i + 1)..top
        BY <1>1, <2>1, <2>3 DEF TokensFrom
      <3>2. AtTurn(input, i + 1)
            /\ (IsSplit(h[i + 1], g, input, i + 1) => IsSplit(h[i + 1], g, input, i))
        BY <1>3, <2>3, <3>1, SplitSpace
      <3> QED
        BY <1>4, <3>1, <3>2
    <2>4. CASE i <= Len(input) /\ input[i] \notin Space
      <3> DEFINE first == readToken(input, i)
                 rest == h[first.value.next]
      <3>1. h[i] = IF first.has_value /\ rest.has_value
                   THEN Some(<<first.value.token>> \o rest.value)
                   ELSE nullopt
        BY <1>1, <2>1, <2>4 DEF TokensFrom
      <3>2. i \in 1..Len(input)
        BY <1>1, <2>4
      <3>3. CASE first.has_value
        <4> DEFINE t == first.value
        <4>1. t.next \in (i + 1)..top
          BY <1>1, <3>2, <3>3, ReadsOn
        <4>2. t.token \in ProperTokens
          BY <3>2, <3>3, ReadsProper
        <4>3. \/ ReadsSign(input, i, t)
              \/ ReadsLiteral(input, i, t)
              \/ ReadsNumber(input, i, t)
              \/ ReadsWord(input, i, t)
          BY <1>1, <3>2, <3>3, ReadTokenIs
        <4>4. h[i] = IF h[t.next].has_value THEN Some(<<t.token>> \o h[t.next].value)
                     ELSE nullopt
          BY <3>1, <3>3
        <4> HIDE DEF t
        <4>5. IsSpan(input, i, t)
          BY <3>2, <4>3, SignIsSpan, LiteralIsSpan, NumberIsSpan, WordIsSpan
        <4>6. IsSplit(h[t.next], g, input, t.next)
          BY <1>4, <4>1, <4>5 DEF IsSpan
        <4>7. IsSplit(IF h[t.next].has_value THEN Some(<<t.token>> \o h[t.next].value)
                      ELSE nullopt, g, input, i)
          BY <1>3, <3>2, <4>1, <4>2, <4>5, <4>6, SplitToken
        <4> QED
          BY <4>4, <4>7
      <3>4. CASE ~first.has_value
        <4>1. h[i] = nullopt
          BY <3>1, <3>4
        <4> QED
          BY <2>4, <3>2, <3>4, <4>1, SplitFails
      <3> QED
        BY <3>3, <3>4
    <2> QED
      BY <1>1, <2>2, <2>3, <2>4
  <1> HIDE DEF Good
  <1>5. 0 \in S
    BY <1>1
  <1>6. ASSUME NEW m \in Nat, m \in S PROVE m + 1 \in S
    <2> SUFFICES ASSUME NEW i \in 1..top, top - (m + 1) < i PROVE Good(i)
      OBVIOUS
    <2>1. \A j \in (i + 1)..top : j \in 1..top /\ top - m < j
      BY <1>1
    <2>2. \A j \in (i + 1)..top : Good(j)
      BY <1>6, <2>1
    <2> QED
      BY <1>4, <2>2
  <1>7. Nat \subseteq S
    <2> HIDE DEF S
    <2> QED
      BY <1>5, <1>6, SetInduction
  <1>8. Good(1)
    <2>1. top \in Nat /\ 1 \in 1..top /\ top - top < 1
      BY <1>1
    <2>2. top \in S
      BY <1>7, <2>1
    <2> QED
      BY <2>1, <2>2
  <1>9. AtTurn(input, 1)
    <2>1. QuotesBefore(input, 1) % 2 = 0
      BY QuotesCounted
    <2>2. WordBefore(input, 1) = {} /\ ~Inside(input, 1)
      BY <2>1, AtEvenQuotes DEF WordBefore
    <2> QED
      BY <2>1, <2>2 DEF AtTurn, StartsToken
  <1>10. IsSplit(h[1], g, input, 1)
    BY <1>8, <1>9 DEF Good
  <1>11. LegalFrom(input, 1) = Legible(input)
    BY <1>1 DEF LegalFrom, Legible, Legal
  <1>12. StartsFrom(input, 1) = {i \in DOMAIN input : StartsToken(input, i)}
    BY <1>1 DEF StartsFrom
  <1>13. ASSUME h[1].has_value PROVE Sources(h[1].value) = Kept(input)
    <2> DEFINE tokens == h[1].value
    <2>1. tokens \in Seq(ProperTokens) /\ g[1 - 1] \o Sources(tokens) = g[Len(input)]
      BY <1>10, <1>13 DEF IsSplit
    <2> HIDE DEF tokens
    <2>3. Sources(tokens) \in Seq(Text)
      <3>1. Len(tokens) \in 0..Len(tokens)
        BY <2>1
      <3> QED
        BY <2>1, <3>1, SourcesDef
    <2>4. <<>> \o Sources(tokens) = Sources(tokens)
      BY <2>3, ConcatEmptySeq
    <2>5. 1 - 1 = 0
      OBVIOUS
    <2> QED
      BY <1>3, <2>1, <2>4, <2>5 DEF tokens
  <1>14. h[1].has_value = Legible(input)
    <2>1. h[1].has_value \in BOOLEAN /\ (h[1].has_value <=> LegalFrom(input, 1))
      BY <1>10 DEF IsSplit
    <2>2. Legible(input) \in BOOLEAN
      BY DEF Legible
    <2> QED
      BY <1>11, <2>1, <2>2
  <1>15. h[1].has_value \in BOOLEAN
         /\ (h[1].has_value =>
               Len(h[1].value) = Cardinality({i \in DOMAIN input : StartsToken(input, i)}))
    BY <1>10, <1>12 DEF IsSplit
  <1> QED
    BY <1>2, <1>13, <1>14, <1>15, Zenon

-----------------------------------------------------------------------------
(***************************************************************************)
(* The program: starts, rows and answers.                                  *)
(***************************************************************************)

\* The catalog that holds users with its heap at page.
UsersAt(page) == WithTable(NoTables, Users, Schema, page)

\* What main has done by pc; without metadata there is no row.
BootInv ==
    /\ metadata = NoMetadata \/ metadata \in Nat
    /\ pc \in Down => tables_ = NoTables
    /\ pc = "created" => metadata = NoMetadata /\ \E p \in Nat : tables_ = UsersAt(p)
    /\ pc \in Serving => metadata # NoMetadata
    /\ pc \in Down \cup {"created"} \cup Serving
    /\ pc = "failed" => metadata = NoMetadata
    /\ metadata = NoMetadata => /\ \A p \in DOMAIN pages : pages[p] = <<>>
                                /\ acked = <<>>

\* An empty catalog takes the table users.
LEMMA UsersFit == MayAdd(NoTables, Users, Schema)
  BY ReplAssumption DEF MayAdd, NoTables, ReplAssumption

\* The page of users is the one it was put into the catalog with.
LEMMA UsersPage == ASSUME NEW page PROVE UsersAt(page)[Users].first_page_id = page
  BY DEF UsersAt, WithTable, TableInfo, NoTables

\* BootInv holds at the start and is kept by every step.
LEMMA BootInvInit == Init => BootInv
  <1> SUFFICES ASSUME Init PROVE BootInv
    OBVIOUS
  <1>1. pages = [p \in {} |-> <<>>]
    BY DEF Init, File!Init, File!Empty
  <1>2. acked = <<>>
    BY DEF Init
  <1> QED
    BY <1>1, <1>2 DEF Init, BootInv, NoMetadata, Down, Serving

\* Every step of main keeps BootInv.
LEMMA BootInvStep == BootInv /\ [Next]_vars => BootInv'
  <1> SUFFICES ASSUME BootInv, [Next]_vars PROVE BootInv'
    OBVIOUS
  <1> USE DEF BootInv, Down, Serving
  <1>1. CASE Start
    BY <1>1 DEF Start
  <1>2. CASE StartFails
    <2>1. tables_ = NoTables /\ (metadata # NoMetadata => metadata >= 0)
      BY <1>2 DEF StartFails, NoMetadata
    <2>2. metadata # NoMetadata => MayLoad(tables_, Users, Schema, metadata)
      BY <2>1, UsersFit DEF MayLoad
    <2>3. metadata = NoMetadata
      BY <1>2, <2>2 DEF StartFails
    <2> QED
      BY <1>2, <2>1, <2>3 DEF StartFails
  <1>3. CASE CreateUsers
    <2>1. tables_' = UsersAt(next_page_id_ + 1) /\ next_page_id_ = 0
      BY <1>3 DEF CreateUsers, UsersAt
    <2>2. \A p \in DOMAIN pages' : pages'[p] = <<>>
      BY <1>3 DEF CreateUsers, File!AddPage, File!UpTo, File!Empty
    <2> QED
      BY <1>3, <2>1, <2>2 DEF CreateUsers
  <1>4. CASE WriteMetadata
    <2>1. PICK p \in Nat : tables_ = UsersAt(p)
      BY <1>4 DEF WriteMetadata
    <2>2. metadata' \in Nat
      BY <1>4, <2>1, UsersPage DEF WriteMetadata
    <2> QED
      BY <1>4, <2>2 DEF WriteMetadata, NoMetadata
  <1>5. CASE LoadUsers
    BY <1>5 DEF LoadUsers
  <1>6. CASE \E l \in Lines : Answer(l)
    BY <1>6 DEF Answer
  <1>7. CASE \E l \in Lines : BeginInsert(l)
    BY <1>7 DEF BeginInsert
  <1>8. CASE InsertRow
    BY <1>8 DEF InsertRow
  <1>9. CASE Prompt
    BY <1>9 DEF Prompt
  <1>10. CASE Exit
    BY <1>10 DEF Exit, Ended
  <1>11. CASE Crash
    BY <1>11 DEF Crash, Ended
  <1>12. CASE UNCHANGED vars
    BY <1>12 DEF vars
  <1> QED
    BY <1>1, <1>2, <1>3, <1>4, <1>5, <1>6, <1>7, <1>8, <1>9, <1>10, <1>11, <1>12
       DEF Next

\* Where a start has failed there is no metadata, so no row and no answer.
LEMMA BootInvEnough == BootInv => FailedStartsLoseNothing
  <1> SUFFICES ASSUME BootInv, pc = "failed"
               PROVE metadata = NoMetadata /\ RowsInFile = {} /\ acked = <<>>
    BY DEF FailedStartsLoseNothing
  <1>1. metadata = NoMetadata
    BY DEF BootInv
  <1>2. acked = <<>> /\ \A p \in DOMAIN pages : pages[p] = <<>>
    BY <1>1 DEF BootInv
  <1>3. ASSUME NEW rid \in RowsInFile PROVE FALSE
    <2>1. rid.page_id \in DOMAIN pages /\ rid.slot_id \in 0..(MaxRows - 1)
          /\ rid.slot_id < Len(pages[rid.page_id])
      BY <1>3 DEF RowsInFile
    <2>2. Len(pages[rid.page_id]) = 0
      BY <1>2, <2>1
    <2> QED
      BY <2>1, <2>2, ReplAssumption DEF ReplAssumption
  <1> QED
    BY <1>1, <1>2, <1>3

\* In every history of crashes and starts, with any lines, a start that fails finds
\* a file without metadata and without a row, and no INSERT has been answered.
THEOREM StartsLoseNothing == Spec => []FailedStartsLoseNothing
  <1>1. Spec => []BootInv
    BY BootInvInit, BootInvStep, PTL DEF Spec
  <1> QED
    BY <1>1, BootInvEnough, PTL

-----------------------------------------------------------------------------

\* The row of these values is in the file under this RID.
Stored(rid, values) ==
    /\ rid.page_id \in DOMAIN pages
    /\ rid.slot_id + 1 \in DOMAIN pages[rid.page_id]
    /\ pages[rid.page_id][rid.slot_id + 1] = serialize(values).value

\* The pages have sequences of rows, of whatever kind.
Sequenced == \A p \in DOMAIN pages : \E S : pages[p] \in Seq(S)

\* BootInv with the catalog, the job of insertTuple and the rows.
RowInv ==
    /\ BootInv
    /\ pc \in Serving => metadata \in Nat /\ tables_ = UsersAt(metadata)
    /\ Sequenced
    /\ pc = "insert" => job.page = metadata
    /\ pc = "insert" \/ Inserted => job.tuple = serialize(job.values).value
    /\ Inserted => Stored(reply.rid, job.values)
    /\ \A rid \in DOMAIN acked : Stored(rid, acked[rid])

\* What Append does to a sequence of rows.
LEMMA AppendRow ==
  ASSUME NEW S, NEW s \in Seq(S), NEW t
  PROVE  /\ Append(s, t) \in Seq(S \cup {t})
         /\ DOMAIN s = 1..Len(s) /\ Len(s) \in Nat
         /\ DOMAIN Append(s, t) = 1..(Len(s) + 1)
         /\ \A i \in DOMAIN s : Append(s, t)[i] = s[i]
         /\ Append(s, t)[Len(s) + 1] = t
  <1>1. s \in Seq(S \cup {t})
    OBVIOUS
  <1> QED
    BY <1>1

\* No row is taken away or changed.
Extended ==
    \A p \in DOMAIN pages :
        /\ p \in DOMAIN pages'
        /\ \A i \in DOMAIN pages[p] : i \in DOMAIN pages'[p] /\ pages'[p][i] = pages[p][i]

\* A stored row stays stored when rows are only added.
LEMMA StoredStays ==
  ASSUME Extended, NEW rid, NEW values, Stored(rid, values)
  PROVE  /\ rid.page_id \in DOMAIN pages'
         /\ rid.slot_id + 1 \in DOMAIN pages'[rid.page_id]
         /\ pages'[rid.page_id][rid.slot_id + 1] = serialize(values).value
  BY DEF Extended, Stored

\* A line is never answered with "inserted" before insertTuple has returned, and
\* what goes to insertTuple is the tuple of the values, for a table of the catalog.
LEMMA HandledInserts ==
  ASSUME NEW l
  PROVE  /\ Handled(l).kind # "inserted"
         /\ Handled(l).kind = "insert" =>
              LET s == Handled(l).rows[1] IN
                /\ s.table \in DOMAIN tables_
                /\ Handled(l).rows[2] = serialize(s.values).value
  <1> DEFINE tokens == Tokens[l]
  <1>1. handleSelect(tokens.value).kind \notin {"insert", "inserted"}
    BY DEF handleSelect, Reply, Error
  <1>2. /\ handleInsert(tokens.value).kind # "inserted"
        /\ handleInsert(tokens.value).kind = "insert" =>
             LET s == handleInsert(tokens.value).rows[1] IN
               /\ s.table \in DOMAIN tables_
               /\ handleInsert(tokens.value).rows[2] = serialize(s.values).value
    BY DEF handleInsert, Reply, Error, bindInsert, Some, nullopt
  <1>3. \/ Handled(l) = handleSelect(tokens.value)
        \/ Handled(l) = handleInsert(tokens.value)
        \/ Handled(l).kind \in {"nothing", "tokenizer error", "unsupported"}
    BY DEF Handled, Error, Reply
  <1> QED
    BY <1>1, <1>2, <1>3

\* RowInv holds at the start.
LEMMA RowInvInit == Init => RowInv
  <1> SUFFICES ASSUME Init PROVE RowInv
    OBVIOUS
  <1>1. BootInv
    BY BootInvInit
  <1>2. pages = [p \in {} |-> <<>>] /\ acked = [rid \in {} |-> <<>>] /\ pc = "down"
    BY DEF Init, File!Init, File!Empty
  <1> QED
    BY <1>1, <1>2 DEF RowInv, Sequenced, Inserted, Serving

\* A step that adds no row and prints none keeps the rows as they are.
LEMMA RowsUntouched ==
  ASSUME RowInv, UNCHANGED <<pages, acked>>
  PROVE  Sequenced' /\ \A rid \in DOMAIN acked' : Stored(rid, acked[rid])'
  BY DEF RowInv, Sequenced, Stored

\* insertTuple appends one row to one page, and the RID is that of the row.
LEMMA InsertRowAppends ==
  ASSUME RowInv, InsertRow
  PROVE  /\ Extended
         /\ Sequenced'
         /\ Stored(reply.rid, job.values)'
  <1> USE DEF Serving
  <1>1. PICK p \in {job.page, Overflow} :
          /\ File!AddRow(p, job.tuple)
          /\ reply' = Reply("inserted", <<>>, RID(p, Slots(p)))
    BY DEF InsertRow
  <1>2. p \in Nat
    BY ReplAssumption DEF RowInv, InsertRow, ReplAssumption
  <1> DEFINE old(q) == IF q \in DOMAIN pages THEN pages[q] ELSE <<>>
             domain == DOMAIN pages \cup 0..p
  <1>3. pages' = [q \in domain |-> IF q = p THEN Append(old(q), job.tuple) ELSE old(q)]
    BY <1>1, <1>2 DEF File!AddRow, File!UpTo, File!Empty
  <1>4. p \in domain
    BY <1>2
  <1>5. \A q \in domain : \E S : old(q) \in Seq(S)
    BY DEF RowInv, Sequenced
  <1>6. PICK S : old(p) \in Seq(S)
    BY <1>4, <1>5
  <1>7. /\ Append(old(p), job.tuple) \in Seq(S \cup {job.tuple})
        /\ DOMAIN old(p) = 1..Len(old(p)) /\ Len(old(p)) \in Nat
        /\ DOMAIN Append(old(p), job.tuple) = 1..(Len(old(p)) + 1)
        /\ \A i \in DOMAIN old(p) : Append(old(p), job.tuple)[i] = old(p)[i]
        /\ Append(old(p), job.tuple)[Len(old(p)) + 1] = job.tuple
    BY <1>6, AppendRow
  <1> HIDE DEF domain
  <1>8. DOMAIN pages' = domain /\ pages'[p] = Append(old(p), job.tuple)
        /\ \A q \in domain \ {p} : pages'[q] = old(q)
    BY <1>3, <1>4
  <1>9. DOMAIN pages \subseteq domain
    BY DEF domain
  <1>10. Extended
    <2> SUFFICES ASSUME NEW q \in DOMAIN pages
                 PROVE  /\ q \in DOMAIN pages'
                        /\ \A i \in DOMAIN pages[q] :
                             i \in DOMAIN pages'[q] /\ pages'[q][i] = pages[q][i]
      BY DEF Extended
    <2>1. CASE q = p
      BY <1>7, <1>8, <1>9, <2>1
    <2>2. CASE q # p
      BY <1>8, <1>9, <2>2
    <2> QED
      BY <2>1, <2>2
  <1>11. Sequenced'
    <2> SUFFICES ASSUME NEW q \in domain PROVE \E T : pages'[q] \in Seq(T)
      BY <1>8 DEF Sequenced
    <2>1. CASE q = p
      BY <1>7, <1>8, <2>1
    <2>2. CASE q # p
      BY <1>5, <1>8, <2>2
    <2> QED
      BY <2>1, <2>2
  <1>12. reply'.rid.page_id = p /\ reply'.rid.slot_id = Len(old(p))
    BY <1>1 DEF Reply, RID, Slots
  <1>13. pages'[p][Len(old(p)) + 1] = serialize(job.values).value
    BY <1>7, <1>8 DEF RowInv, InsertRow
  <1>14. job' = job
    BY DEF InsertRow
  <1>15. Stored(reply.rid, job.values)'
    BY <1>4, <1>7, <1>8, <1>12, <1>13, <1>14 DEF Stored
  <1> QED
    BY <1>10, <1>11, <1>15

\* Every step of main keeps RowInv.
LEMMA RowInvStep == RowInv /\ [Next]_vars => RowInv'
  <1> SUFFICES ASSUME RowInv, [Next]_vars PROVE RowInv'
    OBVIOUS
  <1> USE DEF Serving
  <1>0. BootInv'
    BY BootInvStep DEF RowInv
  <1>1. CASE Start \/ StartFails
    <2>1. UNCHANGED <<pages, acked>> /\ pc' \in {"started", "failed"}
      BY <1>1 DEF Start, StartFails
    <2> QED
      BY <1>0, <2>1, RowsUntouched DEF RowInv, Inserted
  <1>2. CASE CreateUsers
    <2>1. acked = <<>> /\ acked' = acked /\ pc' = "created"
      BY <1>2 DEF CreateUsers, RowInv, BootInv
    <2>2. \A p \in DOMAIN pages' : pages'[p] = <<>>
      BY <1>2 DEF CreateUsers, File!AddPage, File!UpTo, File!Empty, RowInv, BootInv
    <2>3. <<>> \in Seq({})
      OBVIOUS
    <2>5. Sequenced'
      <3> SUFFICES ASSUME NEW p \in DOMAIN pages' PROVE \E S : pages'[p] \in Seq(S)
        BY DEF Sequenced
      <3>1. pages'[p] = <<>>
        BY <2>2
      <3>2. pages'[p] \in Seq({})
        BY <2>3, <3>1
      <3> QED
        BY <3>2
    <2>4. \A rid \in DOMAIN acked' : Stored(rid, acked[rid])'
      BY <2>1
    <2> QED
      BY <1>0, <2>1, <2>4, <2>5 DEF RowInv, Inserted
  <1>3. CASE WriteMetadata
    <2>1. UNCHANGED <<pages, acked, tables_>> /\ pc' = "prompt"
      BY <1>3 DEF WriteMetadata
    <2>2. PICK p \in Nat : tables_ = UsersAt(p)
      BY <1>3 DEF WriteMetadata, RowInv, BootInv
    <2>3. metadata' = p
      BY <1>3, <2>2, UsersPage DEF WriteMetadata
    <2> QED
      BY <1>0, <2>1, <2>2, <2>3, RowsUntouched DEF RowInv, Inserted, UsersAt
  <1>4. CASE LoadUsers
    <2>1. UNCHANGED <<pages, acked, metadata>> /\ pc' = "prompt"
      BY <1>4 DEF LoadUsers
    <2>2. metadata \in Nat /\ tables_ = NoTables
      BY <1>4 DEF LoadUsers, RowInv, BootInv, Down
    <2>3. tables_' = UsersAt(metadata)
      BY <1>4, <2>2 DEF LoadUsers, UsersAt
    <2> QED
      BY <1>0, <2>1, <2>2, <2>3, RowsUntouched DEF RowInv, Inserted, UsersAt
  <1>5. ASSUME NEW l \in Lines, Answer(l) PROVE RowInv'
    <2>1. UNCHANGED <<pages, acked, metadata, tables_>> /\ pc = "prompt" /\ pc' = "reply"
      BY <1>5 DEF Answer
    <2>2. reply'.kind # "inserted"
      BY <1>5, HandledInserts DEF Answer
    <2> QED
      BY <1>0, <2>1, <2>2, RowsUntouched DEF RowInv, Inserted, UsersAt
  <1>6. ASSUME NEW l \in Lines, BeginInsert(l) PROVE RowInv'
    <2> DEFINE s == Handled(l).rows[1]
    <2>1. UNCHANGED <<pages, acked, metadata, tables_>> /\ pc = "prompt" /\ pc' = "insert"
      BY <1>6 DEF BeginInsert
    <2>2. Handled(l).kind = "insert"
          /\ job' = Job(s.values, Handled(l).rows[2], tables_[s.table].first_page_id)
      BY <1>6 DEF BeginInsert
    <2>3. s.table \in DOMAIN tables_ /\ Handled(l).rows[2] = serialize(s.values).value
      BY <2>2, HandledInserts
    <2>4. tables_ = UsersAt(metadata)
      BY <2>1 DEF RowInv
    <2>5. s.table = Users
      BY <2>3, <2>4 DEF UsersAt, WithTable, NoTables
    <2>6. job'.page = metadata /\ job'.tuple = serialize(job'.values).value
      BY <2>2, <2>3, <2>4, <2>5, UsersPage DEF Job
    <2> QED
      BY <1>0, <2>1, <2>6, RowsUntouched DEF RowInv, Inserted, UsersAt
  <1>7. CASE InsertRow
    <2>1. /\ UNCHANGED <<metadata, tables_, job, acked>>
          /\ pc = "insert" /\ pc' = "reply"
      BY <1>7 DEF InsertRow
    <2>2. Extended /\ Sequenced' /\ Stored(reply.rid, job.values)'
      BY <1>7, InsertRowAppends
    <2>3. \A rid \in DOMAIN acked' : Stored(rid, acked[rid])'
      BY <2>1, <2>2, StoredStays DEF RowInv, Stored
    <2> QED
      BY <1>0, <2>1, <2>2, <2>3 DEF RowInv, Inserted, UsersAt
  <1>8. CASE Prompt
    <2>1. UNCHANGED <<pages, metadata, tables_>> /\ pc = "reply" /\ pc' = "prompt"
      BY <1>8 DEF Prompt
    <2>2. ASSUME NEW rid \in DOMAIN acked' PROVE Stored(rid, acked[rid])'
      <3>1. CASE Inserted /\ rid = reply.rid
        BY <1>8, <2>1, <3>1 DEF Prompt, RowInv, Stored
      <3>2. CASE ~(Inserted /\ rid = reply.rid)
        BY <1>8, <2>1, <2>2, <3>2 DEF Prompt, RowInv, Stored
      <3> QED
        BY <3>1, <3>2
    <2>3. Sequenced'
      BY <2>1 DEF Sequenced, RowInv
    <2> QED
      BY <1>0, <2>1, <2>2, <2>3 DEF RowInv, Inserted, UsersAt
  <1>9. CASE Exit \/ Crash
    <2>1. UNCHANGED <<pages, acked>> /\ pc' = "down"
      BY <1>9 DEF Exit, Crash, Ended
    <2> QED
      BY <1>0, <2>1, RowsUntouched DEF RowInv, Inserted
  <1>10. CASE UNCHANGED vars
    <2>1. UNCHANGED <<pages, acked, pc, metadata, tables_, job, reply>>
      BY <1>10 DEF vars
    <2> QED
      BY <1>0, <2>1, RowsUntouched DEF RowInv, Inserted, UsersAt, Stored
  <1> QED
    BY <1>1, <1>2, <1>3, <1>4, <1>5, <1>6, <1>7, <1>8, <1>9, <1>10 DEF Next

\* Whatever lines are typed and wherever the process ends, a row that was printed
\* as inserted is in the file, at its RID and with its values, from then on.
THEOREM RowsAreDurable == Spec => []AcknowledgedRowsAreDurable
  <1>1. RowInv => AcknowledgedRowsAreDurable
    BY DEF RowInv, Stored, AcknowledgedRowsAreDurable
  <1>2. Spec => []RowInv
    BY RowInvInit, RowInvStep, PTL DEF Spec
  <1> QED
    BY <1>1, <1>2, PTL

-----------------------------------------------------------------------------

\* RowInv with the rows counted: those that were answered, those whose INSERT was
\* cut off, and the one whose answer is about to be printed.
CountInv ==
    /\ RowInv
    /\ IsFiniteSet(DOMAIN pages)
    /\ DOMAIN acked \subseteq RowsInFile
    /\ pc = "insert" => Cardinality(RowsInFile) < MaxRows
    /\ Inserted => reply.rid \in RowsInFile \ DOMAIN acked
    /\ unanswered \in Nat
    /\ Cardinality(RowsInFile) <= MaxRows
    /\ OneRowPerInsert

\* There are finitely many rows.
LEMMA FinitelyManyRows ==
  ASSUME IsFiniteSet(DOMAIN pages)
  PROVE  /\ IsFiniteSet(RowsInFile) /\ Cardinality(RowsInFile) \in Nat
         /\ \A S : IsFiniteSet(RowsInFile \ S) /\ Cardinality(RowsInFile \ S) \in Nat
  <1> DEFINE slots == 0..(MaxRows - 1)
             pairs == (DOMAIN pages) \X slots
             row(x) == [page_id |-> x[1], slot_id |-> x[2]]
             rows == {row(x) : x \in pairs}
             rowOf == [x \in pairs |-> row(x)]
  <1>1. MaxRows \in Nat
    BY ReplAssumption DEF ReplAssumption
  <1>2. IsFiniteSet(slots)
    BY <1>1, FS_Interval
  <1>3. IsFiniteSet(pairs)
    <2> HIDE DEF slots
    <2>1. IsFiniteSet((DOMAIN pages) \X slots)
      BY <1>2, FS_Product, Zenon
    <2> QED
      BY <2>1
  <1>4. IsFiniteSet(rows)
    <2>1. rowOf \in Surjection(pairs, rows)
      <3> HIDE DEF pairs, row
      <3> QED
        BY DEF Surjection
    <2> QED
      BY <1>3, <2>1, FS_Surjection
  <1>5. RowsInFile \subseteq rows
    <2> SUFFICES ASSUME NEW rid \in RowsInFile PROVE rid \in rows
      OBVIOUS
    <2>1. rid \in [page_id : DOMAIN pages, slot_id : slots]
      BY DEF RowsInFile
    <2>2. PICK p \in DOMAIN pages, i \in slots : rid = [page_id |-> p, slot_id |-> i]
      BY <2>1
    <2>3. <<p, i>> \in pairs /\ row(<<p, i>>) = rid
      BY <2>2
    <2> QED
      BY <2>3
  <1>6. IsFiniteSet(RowsInFile)
    BY <1>4, <1>5, FS_Subset
  <1>7. ASSUME NEW S PROVE IsFiniteSet(RowsInFile \ S)
    BY <1>6, FS_Subset
  <1> QED
    BY <1>6, <1>7, FS_CardinalityType

\* The rows depend on the pages only.
LEMMA SameRows ==
  ASSUME UNCHANGED pages
  PROVE  RowsInFile' = RowsInFile
  BY DEF RowsInFile

\* insertTuple adds one row to those of the file, at the RID it returns.  A page
\* with MaxRows rows cannot be, as there are fewer rows than that in all.
LEMMA InsertRowAddsOne ==
  ASSUME RowInv, InsertRow, IsFiniteSet(DOMAIN pages), Cardinality(RowsInFile) < MaxRows
  PROVE  /\ IsFiniteSet(DOMAIN pages')
         /\ reply'.rid \notin RowsInFile
         /\ RowsInFile' = RowsInFile \cup {reply'.rid}
  <1> USE DEF Serving
  <1>1. PICK p \in {job.page, Overflow} :
          /\ File!AddRow(p, job.tuple)
          /\ reply' = Reply("inserted", <<>>, RID(p, Slots(p)))
    BY DEF InsertRow
  <1>2. p \in Nat
    BY ReplAssumption DEF RowInv, InsertRow, ReplAssumption
  <1>3. MaxRows \in Nat
    BY ReplAssumption DEF ReplAssumption
  <1> DEFINE old(q) == IF q \in DOMAIN pages THEN pages[q] ELSE <<>>
             domain == DOMAIN pages \cup 0..p
             n == Len(old(p))
             slots == 0..(MaxRows - 1)
  <1>4. pages' = [q \in domain |-> IF q = p THEN Append(old(q), job.tuple) ELSE old(q)]
    BY <1>1, <1>2 DEF File!AddRow, File!UpTo, File!Empty
  <1>5. p \in domain
    BY <1>2
  <1>6. IsFiniteSet(domain)
    <2>1. IsFiniteSet(0..p)
      BY <1>2, FS_Interval
    <2> QED
      BY <2>1, FS_Union
  <1>7. PICK S : old(p) \in Seq(S)
    BY DEF RowInv, Sequenced
  <1>8. n \in Nat /\ Len(Append(old(p), job.tuple)) = n + 1
    <2>1. Append(old(p), job.tuple) \in Seq(S \cup {job.tuple})
          /\ DOMAIN Append(old(p), job.tuple) = 1..(n + 1) /\ n \in Nat
      BY <1>7, AppendRow
    <2> QED
      BY <2>1
  <1>9. reply'.rid = RID(p, n)
    BY <1>1 DEF Reply, Slots
  <1>10. n < MaxRows
    <2> SUFFICES ASSUME n >= MaxRows, MaxRows # 0 PROVE FALSE
      BY <1>3, <1>8, FinitelyManyRows
    <2>1. p \in DOMAIN pages
      BY <1>3
    <2> DEFINE row(i) == [page_id |-> p, slot_id |-> i]
               rows == {row(i) : i \in slots}
    <2>2. rows \subseteq RowsInFile
      BY <1>3, <1>8, <2>1 DEF RowsInFile
    <2>3. IsFiniteSet(slots) /\ Cardinality(slots) = MaxRows
      BY <1>3, FS_Interval
    <2>4. Cardinality(rows) = MaxRows
      <3> DEFINE f == [i \in slots |-> row(i)]
      <3>1. f \in [slots -> rows] /\ \A i \in slots : f[i] = row(i)
        OBVIOUS
      <3>2. \A i, j \in slots : row(i) = row(j) => i = j
        OBVIOUS
      <3> HIDE DEF f, row, slots
      <3>3. f \in Bijection(slots, rows)
        BY <3>1, <3>2 DEF Bijection, Injection, Surjection, IsInjective
      <3>4. ExistsBijection(slots, rows)
        BY <3>3 DEF ExistsBijection
      <3> QED
        BY <2>3, <3>4, FS_Bijection
    <2>5. Cardinality(rows) <= Cardinality(RowsInFile)
      BY <2>2, FinitelyManyRows, FS_Subset
    <2> QED
      BY <1>3, <2>4, <2>5, FinitelyManyRows
  <1> HIDE DEF domain, n, slots
  <1>11. DOMAIN pages' = domain /\ Len(pages'[p]) = n + 1
         /\ \A q \in domain \ {p} : pages'[q] = old(q)
    BY <1>4, <1>5, <1>8
  <1>12. DOMAIN pages \subseteq domain
    BY DEF domain
  <1>13. Len(<<>>) = 0
    OBVIOUS
  <1>14. RID(p, n) \notin RowsInFile
    <2>1. p \in DOMAIN pages => Len(pages[p]) = n
      BY DEF n
    <2> QED
      BY <1>8, <2>1 DEF RowsInFile, RID
  <1>15. RID(p, n) \in RowsInFile'
    BY <1>3, <1>5, <1>8, <1>10, <1>11 DEF RowsInFile, RID
  <1>16. ASSUME NEW rid \in RowsInFile PROVE rid \in RowsInFile'
    <2>1. /\ rid \in [page_id : DOMAIN pages, slot_id : 0..(MaxRows - 1)]
          /\ rid.slot_id < Len(pages[rid.page_id])
      BY DEF RowsInFile
    <2>2. rid \in [page_id : DOMAIN pages', slot_id : 0..(MaxRows - 1)]
      BY <1>11, <1>12, <2>1
    <2>3. rid.slot_id \in Int
      BY <1>3, <2>1
    <2>4. rid.slot_id < Len(pages'[rid.page_id])
      <3>1. CASE rid.page_id = p
        <4>1. Len(pages[p]) = n
          BY <2>1, <3>1 DEF n
        <4> QED
          BY <1>8, <1>11, <2>1, <2>3, <3>1, <4>1
      <3>2. CASE rid.page_id # p
        BY <1>11, <1>12, <2>1, <3>2
      <3> QED
        BY <3>1, <3>2
    <2> QED
      BY <2>2, <2>4 DEF RowsInFile
  <1>17. ASSUME NEW rid \in RowsInFile', rid # RID(p, n) PROVE rid \in RowsInFile
    <2>1. /\ rid \in [page_id : domain, slot_id : 0..(MaxRows - 1)]
          /\ rid.slot_id < Len(pages'[rid.page_id])
      BY <1>11 DEF RowsInFile
    <2>2. rid.slot_id \in Nat
      BY <1>3, <2>1
    <2>3. CASE rid.page_id = p
      <3>1. rid.slot_id # n
        BY <1>17, <2>1, <2>3 DEF RID
      <3>2. rid.slot_id < n
        BY <1>8, <1>11, <2>1, <2>2, <2>3, <3>1
      <3>3. p \in DOMAIN pages /\ Len(pages[p]) = n
        BY <2>2, <3>2 DEF n
      <3> QED
        BY <2>1, <2>3, <3>2, <3>3 DEF RowsInFile
    <2>4. CASE rid.page_id # p
      <3>1. rid.slot_id < Len(old(rid.page_id))
        BY <1>11, <2>1, <2>4
      <3>2. rid.page_id \in DOMAIN pages
        BY <1>13, <2>2, <3>1
      <3> QED
        BY <2>1, <3>1, <3>2 DEF RowsInFile
    <2> QED
      BY <2>3, <2>4
  <1> QED
    BY <1>6, <1>9, <1>11, <1>14, <1>15, <1>16, <1>17

\* CountInv holds at the start.
LEMMA CountInvInit == Init => CountInv
  <1> SUFFICES ASSUME Init PROVE CountInv
    OBVIOUS
  <1>1. RowInv
    BY RowInvInit
  <1>2. DOMAIN pages = {} /\ DOMAIN acked = {} /\ pc = "down" /\ unanswered = 0
    BY DEF Init, File!Init, File!Empty
  <1>3. RowsInFile = {}
    BY <1>2 DEF RowsInFile
  <1>4. MaxRows \in Nat
    BY ReplAssumption DEF ReplAssumption
  <1>5. IsFiniteSet(DOMAIN pages) /\ Cardinality(RowsInFile) = 0
        /\ Cardinality(RowsInFile \ DOMAIN acked) = 0
    BY <1>2, <1>3, FS_EmptySet
  <1> QED
    BY <1>1, <1>2, <1>3, <1>4, <1>5 DEF CountInv, OneRowPerInsert, Inserted

\* A step that leaves the rows, the answers and the count alone, and neither enters
\* insertTuple nor comes from it.
LEMMA CountsUntouched ==
  ASSUME CountInv, RowInv', UNCHANGED <<pages, acked, unanswered>>,
         pc' # "insert", ~Inserted, ~Inserted'
  PROVE  CountInv'
  BY SameRows DEF CountInv, OneRowPerInsert

\* Every step of main keeps CountInv.
LEMMA CountInvStep == CountInv /\ [Next]_vars => CountInv'
  <1> SUFFICES ASSUME CountInv, [Next]_vars PROVE CountInv'
    OBVIOUS
  <1>0. RowInv'
    BY RowInvStep DEF CountInv
  <1>a. /\ MaxRows \in Nat
        /\ IsFiniteSet(RowsInFile) /\ Cardinality(RowsInFile) \in Nat
        /\ IsFiniteSet(RowsInFile \ DOMAIN acked)
        /\ Cardinality(RowsInFile \ DOMAIN acked) \in Nat
    BY FinitelyManyRows, ReplAssumption DEF ReplAssumption, CountInv
  <1>1. CASE Start \/ StartFails \/ WriteMetadata \/ LoadUsers \/ Exit
    <2>1. UNCHANGED <<pages, acked, unanswered>> /\ pc # "reply"
          /\ pc' \in {"started", "failed", "prompt", "down"}
      BY <1>1 DEF Start, StartFails, WriteMetadata, LoadUsers, Exit, Ended
    <2> QED
      BY <1>0, <2>1, CountsUntouched DEF Inserted
  <1>2. CASE CreateUsers
    <2>1. /\ DOMAIN pages' = DOMAIN pages \cup 0..1
          /\ \A p \in DOMAIN pages' : pages'[p] = <<>>
          /\ \A p \in DOMAIN pages : pages[p] = <<>>
      BY <1>2 DEF CreateUsers, File!AddPage, File!UpTo, File!Empty, CountInv, RowInv, BootInv
    <2>2. RowsInFile = {} /\ RowsInFile' = {}
      <3>1. Len(<<>>) = 0
        OBVIOUS
      <3>2. ASSUME NEW i \in 0..(MaxRows - 1) PROVE ~(i < 0)
        BY <1>a
      <3> QED
        BY <2>1, <3>1, <3>2 DEF RowsInFile
    <2>3. IsFiniteSet(DOMAIN pages')
      <3>1. IsFiniteSet(0..1)
        BY 0 \in Int, 1 \in Int, FS_Interval
      <3> QED
        BY <2>1, <3>1, FS_Union DEF CountInv
    <2>4. acked' = acked /\ unanswered' = unanswered /\ pc = "started" /\ pc' = "created"
      BY <1>2 DEF CreateUsers
    <2> QED
      BY <1>0, <2>2, <2>3, <2>4 DEF CountInv, OneRowPerInsert, Inserted
  <1>3. CASE \E l \in Lines : Answer(l)
    <2>1. PICK l \in Lines : Answer(l)
      BY <1>3
    <2>2. UNCHANGED <<pages, acked, unanswered>> /\ pc = "prompt" /\ pc' = "reply"
      BY <2>1 DEF Answer
    <2>3. reply'.kind # "inserted"
      BY <2>1, HandledInserts DEF Answer
    <2> QED
      BY <1>0, <2>2, <2>3, CountsUntouched DEF Inserted
  <1>4. CASE \E l \in Lines : BeginInsert(l)
    <2>1. PICK l \in Lines : BeginInsert(l)
      BY <1>4
    <2>2. /\ UNCHANGED <<pages, acked, unanswered>> /\ pc = "prompt" /\ pc' = "insert"
          /\ Cardinality(RowsInFile) < MaxRows
      BY <2>1 DEF BeginInsert
    <2> QED
      BY <1>0, <2>2, SameRows DEF CountInv, OneRowPerInsert, Inserted
  <1>5. CASE InsertRow
    <2>1. /\ UNCHANGED <<acked, unanswered>> /\ pc = "insert" /\ pc' = "reply"
          /\ reply'.kind = "inserted"
      BY <1>5 DEF InsertRow, Reply
    <2>2. /\ IsFiniteSet(DOMAIN pages')
          /\ reply'.rid \notin RowsInFile
          /\ RowsInFile' = RowsInFile \cup {reply'.rid}
      BY <1>5, <2>1, InsertRowAddsOne DEF CountInv
    <2>3. Cardinality(RowsInFile') = Cardinality(RowsInFile) + 1
      BY <1>a, <2>2, FS_AddElement
    <2>4. /\ reply'.rid \notin RowsInFile \ DOMAIN acked
          /\ RowsInFile' \ DOMAIN acked' = (RowsInFile \ DOMAIN acked) \cup {reply'.rid}
          /\ reply'.rid \in RowsInFile' \ DOMAIN acked'
          /\ DOMAIN acked' \subseteq RowsInFile'
      BY <2>1, <2>2 DEF CountInv
    <2>5. Cardinality(RowsInFile' \ DOMAIN acked') = Cardinality(RowsInFile \ DOMAIN acked) + 1
      BY <1>a, <2>4, FS_AddElement
    <2>6. Cardinality(RowsInFile') <= MaxRows
      BY <1>a, <2>1, <2>3 DEF CountInv
    <2>7. Cardinality(RowsInFile \ DOMAIN acked) = unanswered /\ unanswered \in Nat
      BY <2>1 DEF CountInv, OneRowPerInsert, Inserted
    <2>8. OneRowPerInsert'
      BY <2>1, <2>5, <2>7 DEF OneRowPerInsert, Inserted
    <2> QED
      BY <1>0, <2>1, <2>2, <2>4, <2>6, <2>7, <2>8 DEF CountInv
  <1>6. CASE Prompt
    <2>1. UNCHANGED <<pages, unanswered>> /\ pc = "reply" /\ pc' = "prompt"
      BY <1>6 DEF Prompt
    <2>2. RowsInFile' = RowsInFile
      BY <2>1, SameRows
    <2>3. CASE Inserted
      <3>1. DOMAIN acked' = DOMAIN acked \cup {reply.rid}
        BY <1>6, <2>3 DEF Prompt
      <3>2. reply.rid \in RowsInFile \ DOMAIN acked
            /\ RowsInFile \ DOMAIN acked' = (RowsInFile \ DOMAIN acked) \ {reply.rid}
            /\ DOMAIN acked' \subseteq RowsInFile
        BY <2>3, <3>1 DEF CountInv
      <3>3. Cardinality(RowsInFile \ DOMAIN acked') = Cardinality(RowsInFile \ DOMAIN acked) - 1
        BY <1>a, <3>2, FS_RemoveElement
      <3>4. Cardinality(RowsInFile \ DOMAIN acked) = unanswered + 1 /\ unanswered \in Nat
        BY <2>3 DEF CountInv, OneRowPerInsert
      <3>5. OneRowPerInsert'
        BY <2>1, <2>2, <3>3, <3>4 DEF OneRowPerInsert, Inserted
      <3> QED
        BY <1>0, <2>1, <2>2, <3>2, <3>5 DEF CountInv, Inserted
    <2>4. CASE ~Inserted
      <3>1. acked' = acked
        BY <1>6, <2>4 DEF Prompt
      <3> QED
        BY <1>0, <2>1, <2>4, <3>1, CountsUntouched DEF Inserted
    <2> QED
      BY <2>3, <2>4
  <1>7. CASE Crash
    <2>1. UNCHANGED <<pages, acked>> /\ pc' = "down"
          /\ unanswered' = IF Inserted THEN unanswered + 1 ELSE unanswered
      BY <1>7 DEF Crash, Ended
    <2>2. RowsInFile' = RowsInFile
      BY <2>1, SameRows
    <2>3. unanswered' \in Nat /\ OneRowPerInsert'
      BY <2>1, <2>2 DEF CountInv, OneRowPerInsert, Inserted
    <2> QED
      BY <1>0, <2>1, <2>2, <2>3 DEF CountInv, Inserted
  <1>8. CASE UNCHANGED vars
    <2>1. UNCHANGED <<pages, acked, pc, reply, unanswered>>
      BY <1>8 DEF vars
    <2> QED
      BY <1>0, <2>1, SameRows DEF CountInv, OneRowPerInsert, Inserted
  <1> QED
    BY <1>1, <1>2, <1>3, <1>4, <1>5, <1>6, <1>7, <1>8 DEF Next

\* No INSERT stores two rows, and none that is refused or is cut off before
\* insertTuple has stored its row stores one, however many lines are typed and
\* wherever the process ends: the rows of the file that were not answered are as
\* many as the INSERTs that were cut off behind insertTuple.
THEOREM RowsAreCounted == Spec => []OneRowPerInsert
  <1>1. Spec => []CountInv
    BY CountInvInit, CountInvStep, PTL DEF Spec
  <1>2. CountInv => OneRowPerInsert
    BY DEF CountInv
  <1> QED
    BY <1>1, <1>2, PTL

-----------------------------------------------------------------------------

\* The values of a row of users that can be stored.
Row(values) == Storable(values) /\ Len(values) = Len(Schema)

\* What is stored in the pages is the tuples of such rows.
HasRows(page) ==
    /\ \E S : page \in Seq(S)
    /\ \A i \in 1..Len(page) : \E values : Row(values) /\ page[i] = serialize(values).value

LEMMA SchemaFacts ==
  /\ Schema \in Seq(Seq(STRING)) /\ Len(Schema) \in Nat /\ Len(Schema) > 1
  /\ DOMAIN Schema = 1..Len(Schema)
  /\ \A i, j \in 1..Len(Schema) : Schema[i] = Schema[j] => i = j
  <1>1. Schema \in Seq(Seq(STRING)) /\ Len(Schema) > 1 /\ IsInjective(Schema)
    BY ReplAssumption DEF ReplAssumption, hasDuplicateColumns
  <1>2. DOMAIN Schema = 1..Len(Schema) /\ Len(Schema) \in Nat
    BY <1>1
  <1>3. \A i, j \in DOMAIN Schema : Schema[i] = Schema[j] => i = j
    BY <1>1 DEF IsInjective
  <1> QED
    BY <1>1, <1>2, <1>3

\* The tokens of a line.
LEMMA TokensOfLine ==
  ASSUME NEW l \in Lines
  PROVE  /\ Tokens[l] = tokenize(l)
         /\ Tokens[l].has_value \in BOOLEAN
         /\ Tokens[l].has_value =>
              /\ Tokens[l].value \in Seq(ProperTokens)
              /\ Len(Tokens[l].value) \in Nat
              /\ DOMAIN Tokens[l].value = 1..Len(Tokens[l].value)
  <1>1. Tokens[l] = tokenize(l)
    BY DEF Tokens
  <1>2. l \in Seq(STRING)
    BY ReplAssumption DEF ReplAssumption
  <1>3. /\ tokenize(l).has_value \in BOOLEAN
        /\ tokenize(l).has_value => tokenize(l).value \in Seq(ProperTokens)
    BY <1>2, TokensAreProper
  <1>4. \A s \in Seq(ProperTokens) : Len(s) \in Nat /\ DOMAIN s = 1..Len(s)
    OBVIOUS
  <1> QED
    BY <1>1, <1>3, <1>4

\* Who answers a line.
LEMMA HandledBy ==
  ASSUME NEW l
  PROVE  LET tokens == Tokens[l].value IN
           /\ l = HelpLine => Handled(l) = Error("nothing")
           /\ l # HelpLine /\ ~Tokens[l].has_value => Handled(l) = Error("tokenizer error")
           /\ l # HelpLine /\ Tokens[l].has_value =>
                /\ tokens = <<>> => Handled(l) = Error("nothing")
                /\ tokens # <<>> /\ tokens[1].type = "SELECT" => Handled(l) = handleSelect(tokens)
                /\ tokens # <<>> /\ tokens[1].type = "INSERT" => Handled(l) = handleInsert(tokens)
                /\ tokens # <<>> /\ tokens[1].type \notin {"SELECT", "INSERT"} =>
                     Handled(l) = Error("unsupported")
  BY DEF Handled

\* Only an INSERT is answered with what is to be stored, only a SELECT with rows.
LEMMA AnswerKinds ==
  ASSUME NEW tokens
  PROVE  /\ handleSelect(tokens).kind \in {"parse error", "bind error", "execution error", "rows"}
         /\ handleInsert(tokens).kind \in {"parse error", "bind error", "execution error", "insert"}
  BY DEF handleSelect, handleInsert, Reply, Error

\* The values that an INSERT stores can be read back.
LEMMA InsertedRow ==
  ASSUME NEW l \in Lines, NEW page, tables_ = UsersAt(page), Handled(l).kind = "insert"
  PROVE  Row(Handled(l).rows[1].values)
  <1> DEFINE tokens == Tokens[l].value
             s == parseInsert(tokens)
             bound == bindInsert(tables_, s.value)
             tuple == serialize(bound.value.values)
  <1>1. \A k \in {"nothing", "tokenizer error", "unsupported", "parse error", "bind error",
                  "execution error"} : Error(k).kind = k /\ k # "insert"
    BY DEF Error, Reply
  <1>2. /\ Tokens[l].has_value
        /\ Handled(l) = handleInsert(tokens)
    <2>1. \/ l = HelpLine
          \/ l # HelpLine /\ ~Tokens[l].has_value
          \/ l # HelpLine /\ Tokens[l].has_value
      OBVIOUS
    <2>2. handleSelect(tokens).kind # "insert"
      BY AnswerKinds
    <2> HIDE DEF tokens
    <2>3. /\ l = HelpLine => Handled(l) = Error("nothing")
          /\ l # HelpLine /\ ~Tokens[l].has_value => Handled(l) = Error("tokenizer error")
          /\ l # HelpLine /\ Tokens[l].has_value =>
                /\ tokens = <<>> => Handled(l) = Error("nothing")
                /\ tokens # <<>> /\ tokens[1].type = "SELECT" => Handled(l) = handleSelect(tokens)
                /\ tokens # <<>> /\ tokens[1].type = "INSERT" => Handled(l) = handleInsert(tokens)
                /\ tokens # <<>> /\ tokens[1].type \notin {"SELECT", "INSERT"} =>
                     Handled(l) = Error("unsupported")
      BY HandledBy DEF tokens
    <2> QED
      BY <1>1, <2>1, <2>2, <2>3
  <1>3. tokens \in Seq(ProperTokens) /\ Len(tokens) \in Nat
    BY <1>2, TokensOfLine
  <1>4. s.has_value \in BOOLEAN
    BY <1>3, ParseInsertIs
  <1>5. s.has_value /\ bound.has_value /\ tuple.has_value
        /\ Handled(l) = Reply("insert", <<bound.value, tuple.value>>, NoRid)
    <2>1. bound.has_value \in BOOLEAN /\ tuple.has_value \in BOOLEAN
      BY DEF bindInsert, serialize, Some, nullopt
    <2>2. handleInsert(tokens)
            = IF ~s.has_value THEN Error("parse error")
              ELSE IF ~bound.has_value THEN Error("bind error")
              ELSE IF ~tuple.has_value THEN Error("execution error")
              ELSE Reply("insert", <<bound.value, tuple.value>>, NoRid)
      BY DEF handleInsert
    <2> HIDE DEF s, bound, tuple, tokens
    <2> QED
      BY <1>1, <1>2, <1>4, <2>1, <2>2
  <1>6. Handled(l).rows[1] = bound.value
    <2> DEFINE a == bound.value
               b == tuple.value
    <2> HIDE DEF a, b
    <2>1. Handled(l) = Reply("insert", <<a, b>>, NoRid)
      BY <1>5 DEF a, b
    <2>2. Handled(l).rows = <<a, b>>
      BY <2>1 DEF Reply
    <2>3. Handled(l).rows[1] = a
      BY <2>2
    <2> QED
      BY <2>3 DEF a
  <1>7. bound.value = s.value /\ s.value.table \in DOMAIN tables_
        /\ Len(tables_[s.value.table].schema) = Len(s.value.values)
    BY <1>5 DEF bindInsert, Some, nullopt
  <1>8. PICK n \in Nat \ {0} : IsInsertOf(tokens, n)
    BY <1>3, <1>5, ParseInsertIs
  <1> DEFINE items == ItemsOf(tokens, 6, n)
  <1>9. s = Some(InsertStatement(tokens[3].lexeme, items))
    BY <1>3, <1>8, ParseInsertIs
  <1>10. s.value.values = items
    <2> HIDE DEF s, items, tokens
    <2> QED
      BY <1>9 DEF Some, InsertStatement
  <1>11. items \in Seq(Seq(STRING)) /\ Len(items) = n
    <2>1. IsListOf(tokens, 6, Literals, n) /\ 6 \in Nat \ {0}
      BY <1>8 DEF IsInsertOf
    <2> HIDE DEF tokens
    <2> QED
      BY <1>3, <2>1, ItemsAreProper
  <1>12. Len(items) = Len(Schema)
    <2>1. s.value.table = Users
      BY <1>7 DEF UsersAt, WithTable, NoTables
    <2>2. tables_[Users].schema = Schema
      BY DEF UsersAt, WithTable, TableInfo, NoTables
    <2> QED
      BY <1>7, <1>10, <2>1, <2>2
  <1>13. \A i \in DOMAIN items : FIELD_SEPARATOR \notin Range(items[i])
    <2>1. tuple = serialize(items)
      BY <1>7, <1>10
    <2>2. serialize(items).has_value
      BY <1>5, <2>1
    <2> HIDE DEF items
    <2> QED
      BY <2>2 DEF serialize, nullopt, Some
  <1>14. Row(items)
    <2> HIDE DEF items
    <2> QED
      BY <1>11, <1>12, <1>13 DEF Row, Storable
  <1> QED
    BY <1>6, <1>7, <1>10, <1>14

\* scanTuples returns all rows of a page without deleted rows.
LEMMA ScanAll ==
  ASSUME NEW name, NEW S, pages[tables_[name].first_page_id] \in Seq(S),
         \A i \in 1..Len(pages[tables_[name].first_page_id]) :
            pages[tables_[name].first_page_id][i] # <<>>
  PROVE  scanTuples(name) = pages[tables_[name].first_page_id]
  <1> DEFINE page == pages[tables_[name].first_page_id]
             upTo[n \in 0..Len(page)] ==
               IF n = 0 THEN <<>>
               ELSE IF page[n] = <<>> THEN upTo[n - 1] ELSE Append(upTo[n - 1], page[n])
             Follows(h) ==
               h = [n \in 0..Len(page) |->
                      IF n = 0 THEN <<>>
                      ELSE IF page[n] = <<>> THEN h[n - 1] ELSE Append(h[n - 1], page[n])]
             first == [n \in 0..Len(page) |-> [i \in 1..n |-> page[i]]]
  <1>1. page \in Seq(S) /\ Len(page) \in Nat /\ \A i \in 1..Len(page) : page[i] # <<>>
    OBVIOUS
  <1>2. scanTuples(name) = upTo[Len(page)]
    BY Zenon DEF scanTuples, upTo, page
  <1> HIDE DEF page
  <1>3. first[0] = <<>>
    BY <1>1
  <1>4. ASSUME NEW n \in 0..Len(page), n # 0 PROVE first[n] = Append(first[n - 1], page[n])
    <2>1. n - 1 \in 0..Len(page) /\ \A i \in 1..n : page[i] \in S
      BY <1>1, <1>4
    <2> DEFINE before == [i \in 1..(n - 1) |-> page[i]]
    <2>2. before \in Seq(S) /\ Len(before) = n - 1 /\ page[n] \in S
      BY <1>4, <2>1
    <2>3. \A i \in 1..(n - 1) : before[i] = page[i]
      OBVIOUS
    <2>4. first[n - 1] = before /\ first[n] = [i \in 1..n |-> page[i]]
      BY <2>1
    <2> HIDE DEF before, first
    <2>5. Append(before, page[n]) = [i \in 1..n |-> page[i]]
      <3> DEFINE after == Append(before, page[n])
      <3>1. after \in Seq(S) /\ Len(after) = n /\ after[n] = page[n]
            /\ \A i \in 1..(n - 1) : after[i] = before[i]
        BY <1>4, <2>2
      <3> HIDE DEF after
      <3>2. \A i \in 1..n : i = n \/ i \in 1..(n - 1)
        OBVIOUS
      <3>3. \A i \in 1..n : after[i] = page[i]
        BY <2>3, <3>1, <3>2
      <3>4. after = [i \in 1..n |-> after[i]]
        BY <3>1
      <3> QED
        BY <3>3, <3>4 DEF after
    <2> QED
      BY <2>4, <2>5
  <1>5. Follows(first)
    <2>1. \A n \in 0..Len(page) : n # 0 => page[n] # <<>>
      BY <1>1
    <2>2. first = [n \in 0..Len(page) |-> first[n]]
      OBVIOUS
    <2> HIDE DEF first
    <2> QED
      BY <1>3, <1>4, <2>1, <2>2
  <1>6. Follows(upTo)
    <2>1. \E h : Follows(h)
      BY <1>5
    <2> QED
      BY <2>1, Zenon DEF upTo, Follows
  <1> HIDE DEF upTo, first
  <1> DEFINE T == {m \in Nat : m \in 0..Len(page) => upTo[m] = first[m]}
  <1>7. 0 \in T
    <2>1. 0 \in 0..Len(page)
      BY <1>1
    <2>2. upTo[0] = <<>>
      BY <1>6, <2>1
    <2> QED
      BY <1>3, <2>2
  <1>8. ASSUME NEW m \in Nat, m \in T PROVE m + 1 \in T
    <2> SUFFICES ASSUME m + 1 \in 0..Len(page) PROVE upTo[m + 1] = first[m + 1]
      OBVIOUS
    <2>1. m \in 0..Len(page) /\ m + 1 # 0 /\ (m + 1) - 1 = m /\ m + 1 \in 1..Len(page)
      BY <1>1
    <2>2. upTo[m + 1] = Append(upTo[m], page[m + 1])
      <3>1. upTo[m + 1] = IF m + 1 = 0 THEN <<>>
                          ELSE IF page[m + 1] = <<>> THEN upTo[(m + 1) - 1]
                          ELSE Append(upTo[(m + 1) - 1], page[m + 1])
        BY <1>6
      <3> QED
        BY <1>1, <2>1, <3>1
    <2>3. first[m + 1] = Append(first[m], page[m + 1])
      BY <1>4, <2>1
    <2>4. upTo[m] = first[m]
      BY <1>8, <2>1
    <2> QED
      BY <2>2, <2>3, <2>4
  <1>9. upTo[Len(page)] = first[Len(page)]
    <2>1. Nat \subseteq T
      <3> HIDE DEF T
      <3> QED
        BY <1>7, <1>8, SetInduction
    <2> QED
      BY <1>1, <2>1
  <1>10. first[Len(page)] = page
    BY <1>1 DEF first
  <1> QED
    BY <1>2, <1>9, <1>10 DEF page

\* Where a column of users is.
ColumnAt(column) == CHOOSE i \in DOMAIN Schema : Schema[i] = column

LEMMA ColumnAtIs ==
  /\ \A i \in 1..Len(Schema) : ColumnAt(Schema[i]) = i
  /\ \A column : /\ getColumnIndex(Schema, column).has_value \in BOOLEAN
                 /\ getColumnIndex(Schema, column).has_value <=> column \in Range(Schema)
                 /\ column \in Range(Schema) =>
                      /\ getColumnIndex(Schema, column).value = ColumnAt(column)
                      /\ ColumnAt(column) \in 1..Len(Schema)
  <1>1. ASSUME NEW i \in 1..Len(Schema) PROVE ColumnAt(Schema[i]) = i
    BY SchemaFacts DEF ColumnAt
  <1>2. ASSUME NEW column
        PROVE  /\ getColumnIndex(Schema, column).has_value \in BOOLEAN
               /\ getColumnIndex(Schema, column).has_value <=> column \in Range(Schema)
               /\ column \in Range(Schema) =>
                    /\ getColumnIndex(Schema, column).value = ColumnAt(column)
                    /\ ColumnAt(column) \in 1..Len(Schema)
    <2> DEFINE Found(i) == Schema[i] = column /\ \A j \in 1..(i - 1) : Schema[j] # column
    <2>1. CASE column \in Range(Schema)
      <3>1. PICK i \in 1..Len(Schema) : Schema[i] = column
        BY <2>1, SchemaFacts DEF Range
      <3>2. ColumnAt(column) = i
        BY <1>1, <3>1
      <3>3. ASSUME NEW j \in 1..Len(Schema) PROVE Found(j) <=> j = i
        <4>1. Schema[j] = column => j = i
          BY <3>1, SchemaFacts
        <4>2. \A m \in 1..(i - 1) : m \in 1..Len(Schema) /\ m # i
          BY SchemaFacts
        <4>3. \A m \in 1..(i - 1) : Schema[m] # column
          BY <3>1, <4>2, SchemaFacts
        <4> QED
          BY <3>1, <4>1, <4>3
      <3> HIDE DEF Found
      <3>4. (CHOOSE j \in DOMAIN Schema : Found(j)) = i
        BY <3>3, SchemaFacts
      <3>5. getColumnIndex(Schema, column) = Some(CHOOSE j \in DOMAIN Schema : Found(j))
        BY <2>1 DEF getColumnIndex, Found
      <3> QED
        BY <2>1, <3>2, <3>4, <3>5 DEF Some
    <2>2. CASE column \notin Range(Schema)
      BY <2>2 DEF getColumnIndex, nullopt
    <2> QED
      BY <2>1, <2>2
  <1> QED
    BY <1>1, <1>2

LEMMA UsersEntry ==
  ASSUME NEW page
  PROVE  /\ DOMAIN UsersAt(page) = {Users}
         /\ UsersAt(page)[Users].schema = Schema
         /\ UsersAt(page)[Users].first_page_id = page
  BY DEF UsersAt, WithTable, TableInfo, NoTables

\* A SELECT asks for columns of the schema, and the binder finds them.
LEMMA SelectIsBound ==
  ASSUME NEW page, tables_ = UsersAt(page),
         NEW tokens \in Seq(ProperTokens), NEW n \in Nat \ {0}, IsSelectOf(tokens, n)
  PROVE  LET bound == bindSelect(tables_, parseSelect(tokens).value)
             asked == AskedColumns(tokens)
         IN  /\ bound.has_value \in BOOLEAN
             /\ bound.has_value <=>
                  /\ tokens[2 * n + 2].lexeme = Users
                  /\ tokens[2].type # "STAR" =>
                       \A k \in 1..n : tokens[2 * k].lexeme \in Range(Schema)
             /\ bound.has_value =>
                  /\ bound.value.table = Users
                  /\ DOMAIN bound.value.columns = DOMAIN asked
                  /\ \A k \in DOMAIN asked :
                       /\ bound.value.columns[k] \in 1..Len(Schema)
                       /\ bound.value.columns[k] = ColumnAt(asked[k])
  <1> DEFINE s == SelectStatement(ColumnsOf(tokens, n), tokens[2 * n + 2].lexeme)
             names == ColumnsOf(tokens, n)
             bound == bindSelect(tables_, s)
             asked == AskedColumns(tokens)
             Asked == /\ DOMAIN bound.value.columns = DOMAIN asked
                      /\ \A k \in DOMAIN asked :
                           /\ bound.value.columns[k] \in 1..Len(Schema)
                           /\ bound.value.columns[k] = ColumnAt(asked[k])
             table == tokens[2 * n + 2].lexeme
             Goal == /\ bound.has_value \in BOOLEAN
                     /\ bound.has_value <=>
                          /\ table = Users
                          /\ tokens[2].type # "STAR" =>
                               \A k \in 1..n : tokens[2 * k].lexeme \in Range(Schema)
                     /\ bound.has_value => bound.value.table = Users /\ Asked
  <1>1. Len(tokens) \in Nat
    OBVIOUS
  <1>2. parseSelect(tokens).value = s
    BY <1>1, ParseSelectIs DEF Some
  <1> SUFFICES Goal
    BY <1>2
  <1>3. s.table = table /\ s.columns = names
    BY DEF SelectStatement
  <1> DEFINE columns == BoundColumns(Schema, names)
  <1>4. bound = IF table # Users THEN nullopt
                ELSE IF columns.has_value
                     THEN Some([table |-> table, columns |-> columns.value])
                     ELSE nullopt
    <2> HIDE DEF s, table, names
    <2> QED
      BY <1>3, UsersEntry DEF bindSelect
  <1>5. /\ bound.has_value \in BOOLEAN
        /\ bound.has_value <=> table = Users /\ columns.has_value
        /\ bound.has_value => bound.value.table = Users /\ bound.value.columns = columns.value
    <2> HIDE DEF bound, table, columns
    <2> QED
      BY <1>4 DEF Some, nullopt
  <1>6. Len(tokens) = 2 * n + 3 /\ 2 \in 1..Len(tokens)
    BY <1>1 DEF IsSelectOf
  <1>7. CASE tokens[2].type = "STAR"
    <2>1. names = <<Wildcard>> /\ asked = Schema
      BY <1>6, <1>7 DEF ColumnsOf, TypeAt, AskedColumns
    <2>2. columns = Some([i \in DOMAIN Schema |-> i])
      BY <2>1 DEF BoundColumns, requestsWildcard
    <2>3. columns.has_value /\ columns.value = [i \in DOMAIN Schema |-> i]
      BY <2>2 DEF Some
    <2> HIDE DEF columns, bound, names, table
    <2>4. bound.has_value => Asked
      <3> SUFFICES ASSUME bound.has_value PROVE Asked
        OBVIOUS
      <3>1. bound.value.columns = [i \in 1..Len(Schema) |-> i]
        BY <1>5, <2>3, SchemaFacts
      <3>2. DOMAIN asked = 1..Len(Schema) /\ \A k \in 1..Len(Schema) : ColumnAt(asked[k]) = k
        BY <2>1, SchemaFacts, ColumnAtIs
      <3> HIDE DEF asked
      <3> QED
        BY <3>1, <3>2
    <2> QED
      BY <1>5, <1>7, <2>3, <2>4
  <1>8. CASE tokens[2].type # "STAR"
    <2>1. names = ItemsOf(tokens, 2, n) /\ IsListOf(tokens, 2, {"IDENTIFIER"}, n)
      BY <1>8 DEF ColumnsOf, TypeAt, IsSelectOf
    <2>2. /\ names \in Seq(Seq(STRING)) /\ Len(names) = n
          /\ \A i \in 1..n : /\ 2 + 2 * i - 2 \in 1..Len(tokens)
                             /\ tokens[2 + 2 * i - 2].type \in {"IDENTIFIER"}
                             /\ names[i] = tokens[2 + 2 * i - 2].lexeme
      BY <2>1, ItemsAreProper
    <2>3. \A i \in 1..n : /\ 2 * i \in 1..Len(tokens) /\ tokens[2 * i].type = "IDENTIFIER"
                          /\ names[i] = tokens[2 * i].lexeme
      <3>1. \A i \in 1..n : 2 + 2 * i - 2 = 2 * i
        OBVIOUS
      <3> HIDE DEF names
      <3> QED
        BY <2>2, <3>1
    <2>4. asked = [k \in 1..n |-> tokens[2 * k].lexeme]
      <3>1. (Len(tokens) - 3) \div 2 = n
        BY <1>6
      <3> QED
        BY <1>8, <3>1 DEF AskedColumns
    <2>5. ~requestsWildcard(names)
      <3>1. Len(names) = n /\ Len(<<>>) = 0 /\ Len(<<Wildcard>>) = 1 /\ <<Wildcard>>[1] = Wildcard
        BY <2>2
      <3>2. 1 \in 1..n /\ 2 * 1 = 2
        OBVIOUS
      <3>3. tokens[2] \in ProperTokens /\ tokens[2].type = "IDENTIFIER"
            /\ names[1] = tokens[2].lexeme
        BY <1>6, <2>3, <3>2
      <3>4. names[1] # Wildcard
        BY <3>3 DEF ProperTokens
      <3> HIDE DEF names
      <3> QED
        BY <3>1, <3>4 DEF requestsWildcard
    <2>6. DOMAIN names = 1..n
      BY <2>2
    <2> HIDE DEF names, bound, table, asked
    <2>7. columns = IF \A k \in 1..n : getColumnIndex(Schema, names[k]).has_value
                    THEN Some([k \in 1..n |-> getColumnIndex(Schema, names[k]).value])
                    ELSE nullopt
      BY <2>5, <2>6 DEF BoundColumns
    <2> HIDE DEF columns
    <2>8. columns.has_value <=> \A k \in 1..n : tokens[2 * k].lexeme \in Range(Schema)
      <3>1. columns.has_value <=> \A k \in 1..n : getColumnIndex(Schema, names[k]).has_value
        BY <2>7 DEF Some, nullopt
      <3>2. \A k \in 1..n : getColumnIndex(Schema, names[k]).has_value
                              <=> tokens[2 * k].lexeme \in Range(Schema)
        BY <2>3, ColumnAtIs
      <3> QED
        BY <3>1, <3>2
    <2>9. bound.has_value => Asked
      <3> SUFFICES ASSUME bound.has_value PROVE Asked
        OBVIOUS
      <3>1. columns.has_value /\ bound.value.columns = columns.value
        BY <1>5
      <3>2. columns.value = [k \in 1..n |-> getColumnIndex(Schema, names[k]).value]
        BY <2>7, <3>1 DEF Some, nullopt
      <3>3. \A k \in 1..n : names[k] \in Range(Schema) /\ asked[k] = names[k]
        BY <2>3, <2>4, <2>8, <3>1
      <3>4. DOMAIN asked = 1..n
        BY <2>4
      <3>5. \A k \in 1..n : columns.value[k] = ColumnAt(asked[k])
                            /\ ColumnAt(asked[k]) \in 1..Len(Schema)
        BY <3>2, <3>3, ColumnAtIs
      <3> QED
        BY <3>1, <3>2, <3>4, <3>5
    <2> QED
      BY <1>5, <1>8, <2>8, <2>9
  <1> QED
    BY <1>7, <1>8

\* A stored row is not empty, and what is read of it is its values.
LEMMA RowsAreRead ==
  ASSUME NEW page, HasRows(page)
  PROVE  /\ Len(page) \in Nat /\ DOMAIN page = 1..Len(page)
         /\ \A i \in 1..Len(page) :
              /\ page[i] # <<>>
              /\ deserialize(page[i], Len(Schema)).has_value
              /\ \A values : Row(values) /\ page[i] = serialize(values).value =>
                   deserialize(page[i], Len(Schema)).value = values
  <1>1. Len(page) \in Nat /\ DOMAIN page = 1..Len(page)
    BY DEF HasRows
  <1>2. ASSUME NEW i \in 1..Len(page), NEW values, Row(values), page[i] = serialize(values).value
        PROVE  /\ page[i] # <<>>
               /\ deserialize(page[i], Len(Schema)).has_value
               /\ deserialize(page[i], Len(Schema)).value = values
    <2>1. Storable(values) /\ Len(values) = Len(Schema) /\ Len(values) > 1
      BY <1>2, SchemaFacts DEF Row
    <2>2. /\ page[i] # <<>>
          /\ deserialize(page[i], Len(Schema)) = Some(values)
      BY <1>2, <2>1, RoundTrip
    <2> QED
      BY <2>2 DEF Some
  <1>3. \A i \in 1..Len(page) : \E values : Row(values) /\ page[i] = serialize(values).value
    BY DEF HasRows
  <1> QED
    BY <1>1, <1>2, <1>3

\* What a SELECT reads from a page of rows.
LEMMA SelectedIs ==
  ASSUME NEW page, tables_ = UsersAt(page), HasRows(pages[page]),
         NEW bound, bound.table = Users
  PROVE  /\ Selected(bound).has_value
         /\ Len(Selected(bound).value) = Len(pages[page])
         /\ \A k \in 1..Len(pages[page]) : \A values :
              Row(values) /\ pages[page][k] = serialize(values).value =>
                Selected(bound).value[k]
                  = [c \in DOMAIN bound.columns |-> values[bound.columns[c]]]
  <1> DEFINE rows == pages[page]
             row(k) == deserialize(rows[k], Len(Schema))
             value == [k \in 1..Len(rows) |->
                         [c \in DOMAIN bound.columns |-> row(k).value[bound.columns[c]]]]
  <1>1. /\ Len(rows) \in Nat /\ DOMAIN rows = 1..Len(rows)
        /\ \A k \in 1..Len(rows) :
             /\ rows[k] # <<>>
             /\ row(k).has_value
             /\ \A values : Row(values) /\ rows[k] = serialize(values).value =>
                  row(k).value = values
    BY RowsAreRead
  <1>2. tables_[Users].first_page_id = page /\ tables_[Users].schema = Schema
    BY UsersEntry
  <1>3. scanTuples(Users) = rows
    <2>1. PICK S : rows \in Seq(S)
      BY DEF HasRows
    <2>2. pages[tables_[Users].first_page_id] = rows
      BY <1>2
    <2> HIDE DEF rows
    <2> QED
      BY <1>1, <2>1, <2>2, ScanAll
  <1>4. Selected(bound) = IF \A k \in DOMAIN rows : row(k).has_value
                          THEN Some([k \in DOMAIN rows |->
                                 [c \in DOMAIN bound.columns |-> row(k).value[bound.columns[c]]]])
                          ELSE nullopt
    <2> HIDE DEF rows
    <2> QED
      BY <1>2, <1>3 DEF Selected
  <1> HIDE DEF rows
  <1>5. Selected(bound) = Some(value)
    <2> HIDE DEF row
    <2> QED
      BY <1>1, <1>4
  <1> HIDE DEF row
  <1>6. Selected(bound).has_value /\ Selected(bound).value = value
    BY <1>5 DEF Some
  <1>7. Len(value) = Len(rows)
    BY <1>1
  <1>8. ASSUME NEW k \in 1..Len(rows), NEW values, Row(values),
               rows[k] = serialize(values).value
        PROVE  value[k] = [c \in DOMAIN bound.columns |-> values[bound.columns[c]]]
    BY <1>1, <1>8
  <1> HIDE DEF value
  <1> QED
    BY <1>6, <1>7, <1>8 DEF rows

\* What a SELECT answers.
LEMMA SelectAnswer ==
  ASSUME NEW l \in Lines, NEW page, tables_ = UsersAt(page), HasRows(pages[page]),
         Handled(l).kind = "rows"
  PROVE  LET asked == AskedColumns(Tokens[l].value) IN
           /\ Len(Handled(l).rows) = Len(pages[page])
           /\ \A k \in 1..Len(pages[page]) : \A values :
                Row(values) /\ pages[page][k] = serialize(values).value =>
                  Handled(l).rows[k] = [c \in DOMAIN asked |-> ValueOf(values, asked[c])]
  <1> DEFINE tokens == Tokens[l].value
             asked == AskedColumns(tokens)
             s == parseSelect(tokens)
             bound == bindSelect(tables_, s.value)
             rows == Selected(bound.value)
             Goal == /\ Len(Handled(l).rows) = Len(pages[page])
                     /\ \A k \in 1..Len(pages[page]) : \A values :
                          Row(values) /\ pages[page][k] = serialize(values).value =>
                            Handled(l).rows[k] = [c \in DOMAIN asked |-> ValueOf(values, asked[c])]
  <1> SUFFICES Goal
    OBVIOUS
  <1>1. \A k \in {"nothing", "tokenizer error", "unsupported", "parse error", "bind error",
                  "execution error"} : Error(k).kind # "rows"
    BY DEF Error, Reply
  <1>2. handleInsert(tokens).kind # "rows"
    BY AnswerKinds
  <1>3. Handled(l) = handleSelect(tokens) /\ Tokens[l].has_value /\ l # HelpLine
    <2> HIDE DEF tokens
    <2> QED
      BY <1>1, <1>2, HandledBy, TokensOfLine DEF tokens
  <1>4. tokens \in Seq(ProperTokens) /\ Len(tokens) \in Nat
    BY <1>3, TokensOfLine
  <1>5. s.has_value \in BOOLEAN /\ bound.has_value \in BOOLEAN /\ rows.has_value \in BOOLEAN
    <2>1. s.has_value \in BOOLEAN
      BY <1>4, ParseSelectIs
    <2>2. bound.has_value \in BOOLEAN
      BY DEF bindSelect, Some, nullopt
    <2>3. rows.has_value \in BOOLEAN
      BY DEF Selected, Some, nullopt
    <2> QED
      BY <2>1, <2>2, <2>3
  <1>6. s.has_value /\ bound.has_value /\ rows.has_value
        /\ Handled(l) = Reply("rows", rows.value, NoRid)
    <2>1. handleSelect(tokens)
            = IF ~s.has_value THEN Error("parse error")
              ELSE IF ~bound.has_value THEN Error("bind error")
              ELSE IF ~rows.has_value THEN Error("execution error")
              ELSE Reply("rows", rows.value, NoRid)
      BY DEF handleSelect
    <2> HIDE DEF s, bound, rows, tokens
    <2> QED
      BY <1>1, <1>3, <1>5, <2>1
  <1>7. PICK n \in Nat \ {0} : IsSelectOf(tokens, n)
    BY <1>4, <1>6, ParseSelectIs
  <1>8. /\ bound.value.table = Users
        /\ DOMAIN bound.value.columns = DOMAIN asked
        /\ \A k \in DOMAIN asked : bound.value.columns[k] = ColumnAt(asked[k])
    <2> HIDE DEF tokens
    <2> QED
      BY <1>4, <1>6, <1>7, SelectIsBound
  <1>9. Handled(l).rows = rows.value
    <2> HIDE DEF rows
    <2> QED
      BY <1>6 DEF Reply
  <1> DEFINE b == bound.value
  <1> HIDE DEF b
  <1>10. /\ rows.value = Selected(b).value
         /\ b.table = Users /\ DOMAIN b.columns = DOMAIN asked
         /\ \A k \in DOMAIN asked : b.columns[k] = ColumnAt(asked[k])
    BY <1>8 DEF b
  <1> HIDE DEF asked, rows
  <1>11. /\ Len(rows.value) = Len(pages[page])
         /\ \A k \in 1..Len(pages[page]) : \A values :
              Row(values) /\ pages[page][k] = serialize(values).value =>
                rows.value[k] = [c \in DOMAIN b.columns |-> values[b.columns[c]]]
    BY <1>10, SelectedIs
  <1>12. \A values : [c \in DOMAIN b.columns |-> values[b.columns[c]]]
                       = [c \in DOMAIN asked |-> ValueOf(values, asked[c])]
    BY <1>10 DEF ValueOf, ColumnAt
  <1> QED
    BY <1>9, <1>11, <1>12

-----------------------------------------------------------------------------

\* SelectShowsRows of the answer to line l, with the file and the history given.
Shows(l, shown, inPages, first, given) ==
    LET asked == AskedColumns(Tokens[l].value) IN
      /\ Len(shown) = Len(inPages[first])
      /\ \A rid \in DOMAIN given :
           rid.page_id = first =>
             shown[rid.slot_id + 1] = [k \in DOMAIN asked |-> ValueOf(given[rid], asked[k])]

\* CountInv with what the rows of the file are, and what was read of them.
TypeInv ==
    /\ CountInv
    /\ metadata # NoMetadata => metadata \in DOMAIN pages
    /\ pc = "created" => \E p \in DOMAIN pages : tables_ = UsersAt(p)
    /\ pc = "insert" \/ Inserted => Row(job.values)
    /\ \A rid \in DOMAIN acked : Row(acked[rid])
    /\ \A p \in DOMAIN pages : HasRows(pages[p])
    /\ SelectShowsRows

\* A page without rows, and one with one row more.
LEMMA NoRowsYet == HasRows(<<>>)
  <1>1. <<>> \in Seq({}) /\ 1..Len(<<>>) = {}
    OBVIOUS
  <1> QED
    BY <1>1 DEF HasRows

LEMMA OneRowMore ==
  ASSUME NEW page, HasRows(page), NEW values, Row(values)
  PROVE  HasRows(Append(page, serialize(values).value))
  <1> DEFINE tuple == serialize(values).value
  <1> HIDE DEF tuple
  <1>1. PICK S : page \in Seq(S)
    BY DEF HasRows
  <1>2. /\ Append(page, tuple) \in Seq(S \cup {tuple})
        /\ DOMAIN page = 1..Len(page) /\ Len(page) \in Nat
        /\ DOMAIN Append(page, tuple) = 1..(Len(page) + 1)
        /\ \A i \in DOMAIN page : Append(page, tuple)[i] = page[i]
        /\ Append(page, tuple)[Len(page) + 1] = tuple
    BY <1>1, AppendRow
  <1> DEFINE longer == Append(page, tuple)
  <1> HIDE DEF longer
  <1>3. /\ longer \in Seq(S \cup {tuple}) /\ Len(page) \in Nat
        /\ Len(longer) = Len(page) + 1
        /\ \A i \in 1..Len(page) : longer[i] = page[i]
        /\ longer[Len(page) + 1] = tuple
    <2>1. /\ longer \in Seq(S \cup {tuple}) /\ Len(page) \in Nat
          /\ DOMAIN longer = 1..(Len(page) + 1)
          /\ \A i \in 1..Len(page) : longer[i] = page[i]
          /\ longer[Len(page) + 1] = tuple
      BY <1>2 DEF longer
    <2> QED
      BY <2>1
  <1>4. ASSUME NEW i \in 1..Len(longer)
        PROVE  \E vs : Row(vs) /\ longer[i] = serialize(vs).value
    <2>1. CASE i \in 1..Len(page)
      BY <1>3, <2>1 DEF HasRows
    <2>2. CASE i = Len(page) + 1
      BY <1>3, <2>2 DEF tuple
    <2> QED
      BY <1>3, <2>1, <2>2
  <1> QED
    BY <1>3, <1>4 DEF HasRows, longer, tuple

\* insertTuple leaves rows in every page.
LEMMA InsertRowKeepsRows ==
  ASSUME RowInv, InsertRow, Row(job.values), \A p \in DOMAIN pages : HasRows(pages[p])
  PROVE  /\ DOMAIN pages \subseteq DOMAIN pages'
         /\ \A p \in DOMAIN pages' : HasRows(pages'[p])
  <1>1. PICK p \in {job.page, Overflow} : File!AddRow(p, job.tuple)
    BY DEF InsertRow
  <1>2. p \in Nat
    BY ReplAssumption DEF RowInv, InsertRow, ReplAssumption, Serving
  <1> DEFINE old(q) == IF q \in DOMAIN pages THEN pages[q] ELSE <<>>
             domain == DOMAIN pages \cup 0..p
  <1>3. pages' = [q \in domain |-> IF q = p THEN Append(old(q), job.tuple) ELSE old(q)]
    BY <1>1, <1>2 DEF File!AddRow, File!UpTo, File!Empty
  <1>4. \A q \in domain : HasRows(old(q))
    BY NoRowsYet
  <1>5. job.tuple = serialize(job.values).value /\ p \in domain
    BY <1>2 DEF RowInv, InsertRow
  <1>6. DOMAIN pages \subseteq domain
    OBVIOUS
  <1> HIDE DEF old, domain
  <1>7. HasRows(Append(old(p), job.tuple))
    BY <1>4, <1>5, OneRowMore
  <1> QED
    BY <1>3, <1>4, <1>5, <1>6, <1>7

\* A step that neither changes the file nor shows rows of it, with nothing to store.
LEMMA TypesUntouched ==
  ASSUME TypeInv, CountInv', UNCHANGED <<pages, metadata, acked>>,
         pc' \notin {"created", "insert", "reply"}
  PROVE  TypeInv'
  BY DEF TypeInv, Inserted, SelectShowsRows

LEMMA TypeInvInit == Init => TypeInv
  <1> SUFFICES ASSUME Init PROVE TypeInv
    OBVIOUS
  <1>1. CountInv
    BY CountInvInit
  <1>2. /\ pages = [p \in {} |-> <<>>] /\ acked = [rid \in {} |-> <<>>]
        /\ pc = "down" /\ metadata = NoMetadata
    BY DEF Init, File!Init, File!Empty
  <1> QED
    BY <1>1, <1>2 DEF TypeInv, Inserted, SelectShowsRows

\* Every step of main keeps TypeInv.
LEMMA TypeInvStep == TypeInv /\ [Next]_vars => TypeInv'
  <1> SUFFICES ASSUME TypeInv, [Next]_vars PROVE TypeInv'
    OBVIOUS
  <1>0. CountInv'
    BY CountInvStep DEF TypeInv
  <1>1. CASE Start \/ StartFails \/ LoadUsers \/ Exit \/ Crash
    <2>1. UNCHANGED <<pages, metadata, acked>> /\ pc' \in {"started", "failed", "prompt", "down"}
      BY <1>1 DEF Start, StartFails, LoadUsers, Exit, Crash, Ended
    <2> QED
      BY <1>0, <2>1, TypesUntouched
  <1>2. CASE CreateUsers
    <2>1. /\ DOMAIN pages' = DOMAIN pages \cup 0..1
          /\ \A p \in DOMAIN pages' : pages'[p] = <<>>
          /\ tables_' = UsersAt(1) /\ UNCHANGED <<metadata, acked>> /\ pc' = "created"
          /\ metadata = NoMetadata
      <3>1. metadata = NoMetadata /\ tables_ = NoTables /\ \A p \in DOMAIN pages : pages[p] = <<>>
        BY <1>2 DEF CreateUsers, TypeInv, CountInv, RowInv, BootInv, Down
      <3>2. DOMAIN pages' = DOMAIN pages \cup 0..1 /\ \A p \in DOMAIN pages' : pages'[p] = <<>>
        BY <1>2, <3>1 DEF CreateUsers, File!AddPage, File!UpTo, File!Empty
      <3> QED
        BY <1>2, <3>1, <3>2 DEF CreateUsers, UsersAt
    <2>2. 1 \in DOMAIN pages'
      BY <2>1
    <2>3. \A p \in DOMAIN pages' : HasRows(pages'[p])
      BY <2>1, NoRowsYet
    <2> QED
      BY <1>0, <2>1, <2>2, <2>3 DEF TypeInv, Inserted, SelectShowsRows, UsersAt
  <1>3. CASE WriteMetadata
    <2>1. UNCHANGED <<pages, acked>> /\ pc' = "prompt" /\ pc = "created"
          /\ metadata' = tables_[Users].first_page_id
      BY <1>3 DEF WriteMetadata
    <2>2. metadata' \in DOMAIN pages'
      BY <2>1, UsersPage DEF TypeInv
    <2> QED
      BY <1>0, <2>1, <2>2 DEF TypeInv, Inserted, SelectShowsRows
  <1>4. CASE \E l \in Lines : Answer(l)
    <2>1. PICK l \in Lines : Answer(l)
      BY <1>4
    <2>2. /\ UNCHANGED <<pages, metadata, acked, job>> /\ pc = "prompt" /\ pc' = "reply"
          /\ line' = l /\ reply' = Handled(l)
      BY <2>1 DEF Answer
    <2>3. reply'.kind # "inserted"
      BY <2>2, HandledInserts
    <2>4. tables_ = UsersAt(metadata) /\ HasRows(pages[metadata])
          /\ \A rid \in DOMAIN acked : Stored(rid, acked[rid]) /\ Row(acked[rid])
      BY <2>2 DEF TypeInv, CountInv, RowInv, BootInv, Serving
    <2>5. SelectShowsRows'
      <3> DEFINE asked == AskedColumns(Tokens[l].value)
      <3> HIDE DEF asked
      <3> SUFFICES ASSUME Handled(l).kind = "rows"
                   PROVE  /\ Len(Handled(l).rows) = Len(pages[metadata])
                          /\ \A rid \in DOMAIN acked :
                               rid.page_id = metadata =>
                                 Handled(l).rows[rid.slot_id + 1]
                                   = [k \in DOMAIN asked |-> ValueOf(acked[rid], asked[k])]
        <4>1. SelectShowsRows'
                <=> (pc' = "reply" /\ reply'.kind = "rows"
                       => Shows(line', reply'.rows, pages', metadata', acked'))
          BY Zenon DEF SelectShowsRows, Shows, AskedColumns, ValueOf, Tokens
        <4>2. Handled(l).kind = "rows" => Shows(l, Handled(l).rows, pages, metadata, acked)
          BY Zenon DEF Shows, asked
        <4> QED
          BY <2>2, <4>1, <4>2, Zenon
      <3>1. /\ Len(Handled(l).rows) = Len(pages[metadata])
            /\ \A k \in 1..Len(pages[metadata]) : \A values :
                 Row(values) /\ pages[metadata][k] = serialize(values).value =>
                   Handled(l).rows[k] = [c \in DOMAIN asked |-> ValueOf(values, asked[c])]
        BY <2>4, SelectAnswer DEF asked
      <3>2. DOMAIN pages[metadata] = 1..Len(pages[metadata])
        BY <2>4, RowsAreRead
      <3> QED
        BY <2>4, <3>1, <3>2 DEF Stored
    <2> QED
      BY <1>0, <2>2, <2>3, <2>5 DEF TypeInv, Inserted
  <1>5. CASE \E l \in Lines : BeginInsert(l)
    <2>1. PICK l \in Lines : BeginInsert(l)
      BY <1>5
    <2>2. /\ UNCHANGED <<pages, metadata, acked>> /\ pc = "prompt" /\ pc' = "insert"
          /\ Handled(l).kind = "insert" /\ job'.values = Handled(l).rows[1].values
      BY <2>1 DEF BeginInsert, Job
    <2>3. tables_ = UsersAt(metadata)
      BY <2>2 DEF TypeInv, CountInv, RowInv, Serving
    <2>4. Row(job'.values)
      BY <2>2, <2>3, InsertedRow
    <2> QED
      BY <1>0, <2>2, <2>4 DEF TypeInv, Inserted, SelectShowsRows, Row
  <1>6. CASE InsertRow
    <2>1. /\ UNCHANGED <<acked, job, metadata>> /\ pc = "insert" /\ pc' = "reply"
          /\ reply'.kind = "inserted"
      BY <1>6 DEF InsertRow, Reply
    <2>2. DOMAIN pages \subseteq DOMAIN pages' /\ \A p \in DOMAIN pages' : HasRows(pages'[p])
      BY <1>6, <2>1, InsertRowKeepsRows DEF TypeInv, CountInv
    <2> QED
      BY <1>0, <2>1, <2>2 DEF TypeInv, Inserted, SelectShowsRows
  <1>7. CASE Prompt
    <2>1. UNCHANGED <<pages, metadata>> /\ pc = "reply" /\ pc' = "prompt"
      BY <1>7 DEF Prompt
    <2>2. \A rid \in DOMAIN acked' : Row(acked'[rid])
      BY <1>7, <2>1 DEF Prompt, TypeInv
    <2> QED
      BY <1>0, <2>1, <2>2 DEF TypeInv, Inserted, SelectShowsRows
  <1>8. CASE UNCHANGED vars
    <2>1. UNCHANGED <<pages, metadata, acked, pc, tables_, job, reply, line>>
      BY <1>8 DEF vars
    <2> QED
      BY <1>0, <2>1 DEF TypeInv, Inserted, SelectShowsRows, UsersAt, Row, HasRows
  <1> QED
    BY <1>1, <1>2, <1>3, <1>4, <1>5, <1>6, <1>7, <1>8 DEF Next

\* While main serves lines its catalog is the one table users, with the page that
\* the metadata names, a page of the file; the values it was given have the
\* columns of users, and the count of cut-off INSERTs is one of rows of the file.
THEOREM TypeCorrect == Spec => []TypeOK
  <1>1. Spec => []TypeInv
    BY TypeInvInit, TypeInvStep, PTL DEF Spec
  <1>2. TypeInv => TypeOK
    <2> SUFFICES ASSUME TypeInv PROVE TypeOK
      OBVIOUS
    <2> DEFINE n == Cardinality(RowsInFile \ DOMAIN acked)
               m == Cardinality(RowsInFile)
    <2>1. n <= m /\ n \in Nat /\ m \in Nat
      <3>1. IsFiniteSet(RowsInFile)
            /\ Cardinality(RowsInFile \ DOMAIN acked) \in Nat
            /\ Cardinality(RowsInFile) \in Nat
        BY FinitelyManyRows DEF TypeInv, CountInv
      <3>2. RowsInFile \ DOMAIN acked \subseteq RowsInFile
        OBVIOUS
      <3> QED
        BY <3>1, <3>2, FS_Subset
    <2>2. m <= MaxRows /\ unanswered \in Nat
          /\ n = unanswered + (IF Inserted THEN 1 ELSE 0) /\ MaxRows \in Nat
      BY ReplAssumption DEF TypeInv, CountInv, OneRowPerInsert, ReplAssumption
    <2> HIDE DEF n, m
    <2>3. unanswered \in 0..MaxRows
      <3>1. CASE Inserted
        BY <2>1, <2>2, <3>1
      <3>2. CASE ~Inserted
        BY <2>1, <2>2, <3>2
      <3> QED
        BY <3>1, <3>2
    <2>4. \A rid \in DOMAIN acked : acked[rid] \in Seq(Seq(STRING))
      BY DEF TypeInv, Row, Storable
    <2>5. pc \in Serving => metadata # NoMetadata
                            /\ tables_ = WithTable(NoTables, Users, Schema, metadata)
      BY DEF TypeInv, CountInv, RowInv, BootInv, UsersAt
    <2>6. /\ pc \in Down \cup {"created"} \cup Serving
          /\ pc \in Down => tables_ = NoTables
          /\ pc = "insert" => job.tuple = serialize(job.values).value
          /\ metadata \in {NoMetadata} \cup DOMAIN pages
      BY DEF TypeInv, CountInv, RowInv, BootInv
    <2> QED
      BY <2>3, <2>4, <2>5, <2>6 DEF TypeOK
  <1> QED
    BY <1>1, <1>2, PTL

\* Whatever was typed before and however often the program was started again, a
\* SELECT shows every row of the first page, and of the rows that were answered
\* the values their INSERTs gave, in the columns that are asked for.
THEOREM SelectsAreRight == Spec => []SelectShowsRows
  <1>1. Spec => []TypeInv
    BY TypeInvInit, TypeInvStep, PTL DEF Spec
  <1>2. TypeInv => SelectShowsRows
    BY DEF TypeInv
  <1> QED
    BY <1>1, <1>2, PTL

-----------------------------------------------------------------------------
(***************************************************************************)
(* The answer to a line.                                                   *)
(***************************************************************************)

\* What handleSelect answers is what the grammar and the catalog call for.
LEMMA SelectIsAnswered ==
  ASSUME NEW page, tables_ = UsersAt(page), HasRows(pages[page]),
         NEW tokens \in Seq(ProperTokens)
  PROVE  handleSelect(tokens).kind = SelectVerdict(TypesOf(tokens), tokens)
  <1> DEFINE types == TypesOf(tokens)
             N == Len(tokens)
             Foreign == \/ tokens[N - 1].lexeme # Users
                        \/ \E k \in NamesIn(tokens) \ {N - 1} :
                             tokens[k].lexeme \notin Range(Schema)
             s == parseSelect(tokens)
             bound == bindSelect(tables_, s.value)
             rows == Selected(bound.value)
  <1>1. N \in Nat
    OBVIOUS
  <1>2. SelectVerdict(types, tokens)
          = IF ~IsSelect(types) THEN "parse error"
            ELSE IF Foreign THEN "bind error" ELSE "rows"
    BY DEF SelectVerdict
  <1>3. handleSelect(tokens)
          = IF ~s.has_value THEN Error("parse error")
            ELSE IF ~bound.has_value THEN Error("bind error")
            ELSE IF ~rows.has_value THEN Error("execution error")
            ELSE Reply("rows", rows.value, NoRid)
    BY DEF handleSelect
  <1>4. /\ Error("parse error").kind = "parse error"
        /\ Error("bind error").kind = "bind error"
        /\ Reply("rows", rows.value, NoRid).kind = "rows"
    <2> DEFINE value == rows.value
    <2> HIDE DEF value
    <2> QED
      BY DEF Error, Reply, value
  <1>5. s.has_value \in BOOLEAN /\ (s.has_value <=> IsSelect(types))
    <2>1. IsSelect(types) <=> \E n \in Nat \ {0} : IsSelectOf(tokens, n)
      BY SelectTypes
    <2>2. \A n \in Nat \ {0} : IsSelectOf(tokens, n) => s.has_value
      BY <1>1, ParseSelectIs DEF Some
    <2>3. s.has_value => \E n \in Nat \ {0} : IsSelectOf(tokens, n)
      BY <1>1, ParseSelectIs
    <2>4. s.has_value \in BOOLEAN
      BY <1>1, ParseSelectIs
    <2> HIDE DEF s, types
    <2> QED
      BY <2>1, <2>2, <2>3, <2>4
  <1>6. ASSUME IsSelect(types)
        PROVE  /\ bound.has_value \in BOOLEAN /\ (bound.has_value <=> ~Foreign)
               /\ bound.has_value => rows.has_value
    <2>1. PICK n \in Nat \ {0} : IsSelectOf(tokens, n)
      BY <1>6, SelectTypes
    <2>2. /\ bound.has_value \in BOOLEAN
          /\ bound.has_value <=>
               /\ tokens[2 * n + 2].lexeme = Users
               /\ tokens[2].type # "STAR" =>
                    \A k \in 1..n : tokens[2 * k].lexeme \in Range(Schema)
          /\ bound.has_value => bound.value.table = Users
      BY <2>1, SelectIsBound
    <2>3. NamesIn(tokens) \ {N - 1} = IF tokens[2].type = "STAR" THEN {} ELSE {2 * i : i \in 1..n}
      BY <2>1, SelectNames DEF NamesIn
    <2>4. N - 1 = 2 * n + 2
      BY <2>1 DEF IsSelectOf
    <2>5. bound.has_value => rows.has_value
      BY <2>2, SelectedIs
    <2> DEFINE names == NamesIn(tokens) \ {N - 1}
    <2> HIDE DEF names, bound, rows, N
    <2>6. (\E k \in names : tokens[k].lexeme \notin Range(Schema))
            <=> tokens[2].type # "STAR" /\ \E k \in 1..n : tokens[2 * k].lexeme \notin Range(Schema)
      BY <2>3 DEF names
    <2> QED
      BY <2>2, <2>4, <2>5, <2>6 DEF names
  <1> HIDE DEF s, bound, rows, types, Foreign
  <1> QED
    BY <1>2, <1>3, <1>4, <1>5, <1>6 DEF types

\* What is to be stored becomes the answer "inserted".
InsertAnswer(kind) == IF kind = "inserted" THEN "insert" ELSE kind

\* So it is with handleInsert.
LEMMA InsertIsAnswered ==
  ASSUME NEW page, tables_ = UsersAt(page), NEW tokens \in Seq(ProperTokens)
  PROVE  handleInsert(tokens).kind = InsertAnswer(InsertVerdict(TypesOf(tokens), tokens))
  <1> DEFINE types == TypesOf(tokens)
             Foreign == \/ tokens[3].lexeme # Users
                        \/ Cardinality(ValuesIn(tokens)) # Len(Schema)
             Separated == \E k \in ValuesIn(tokens) : FIELD_SEPARATOR \in Range(tokens[k].lexeme)
             s == parseInsert(tokens)
             bound == bindInsert(tables_, s.value)
             tuple == serialize(bound.value.values)
  <1>1. Len(tokens) \in Nat
    OBVIOUS
  <1>2. InsertVerdict(types, tokens)
          = IF ~IsInsert(types) THEN "parse error"
            ELSE IF Foreign THEN "bind error"
            ELSE IF Separated THEN "execution error" ELSE "inserted"
    BY DEF InsertVerdict
  <1>3. handleInsert(tokens)
          = IF ~s.has_value THEN Error("parse error")
            ELSE IF ~bound.has_value THEN Error("bind error")
            ELSE IF ~tuple.has_value THEN Error("execution error")
            ELSE Reply("insert", <<bound.value, tuple.value>>, NoRid)
    BY DEF handleInsert
  <1>4. /\ Error("parse error").kind = "parse error"
        /\ Error("bind error").kind = "bind error"
        /\ Error("execution error").kind = "execution error"
        /\ Reply("insert", <<bound.value, tuple.value>>, NoRid).kind = "insert"
    <2> DEFINE value == <<bound.value, tuple.value>>
    <2> HIDE DEF value
    <2> QED
      BY DEF Error, Reply, value
  <1>5. s.has_value \in BOOLEAN /\ (s.has_value <=> IsInsert(types))
    <2>1. IsInsert(types) <=> \E n \in Nat \ {0} : IsInsertOf(tokens, n)
      BY InsertTypes
    <2>2. \A n \in Nat \ {0} : IsInsertOf(tokens, n) => s.has_value
      BY <1>1, ParseInsertIs DEF Some
    <2>3. s.has_value => \E n \in Nat \ {0} : IsInsertOf(tokens, n)
      BY <1>1, ParseInsertIs
    <2>4. s.has_value \in BOOLEAN
      BY <1>1, ParseInsertIs
    <2> HIDE DEF s, types
    <2> QED
      BY <2>1, <2>2, <2>3, <2>4
  <1>6. ASSUME IsInsert(types)
        PROVE  /\ bound.has_value \in BOOLEAN /\ (bound.has_value <=> ~Foreign)
               /\ tuple.has_value \in BOOLEAN
               /\ bound.has_value => (tuple.has_value <=> ~Separated)
    <2>1. PICK n \in Nat \ {0} : IsInsertOf(tokens, n)
      BY <1>6, InsertTypes
    <2> DEFINE items == ItemsOf(tokens, 6, n)
               st == InsertStatement(tokens[3].lexeme, items)
    <2>2. s.value = st
      BY <1>1, <2>1, ParseInsertIs DEF Some
    <2>3. /\ items \in Seq(Seq(STRING)) /\ Len(items) = n
          /\ \A i \in 1..n : /\ 6 + 2 * i - 2 \in 1..Len(tokens)
                             /\ items[i] = tokens[6 + 2 * i - 2].lexeme
      <3>1. IsListOf(tokens, 6, Literals, n) /\ 6 \in Nat \ {0}
        BY <2>1 DEF IsInsertOf
      <3> QED
        BY <3>1, ItemsAreProper
    <2>4. ValuesIn(tokens) = {2 * i + 4 : i \in 1..n} /\ Cardinality(ValuesIn(tokens)) = n
      BY <2>1, InsertValues DEF ValuesIn, Literals
    <2> HIDE DEF items
    <2>5. st.table = tokens[3].lexeme /\ st.values = items
      BY DEF InsertStatement
    <2> HIDE DEF st
    <2>6. bound = IF tokens[3].lexeme = Users /\ Len(Schema) = n THEN Some(st) ELSE nullopt
      <3>1. DOMAIN tables_ = {Users} /\ tables_[Users].schema = Schema
        BY UsersEntry
      <3> HIDE DEF s
      <3> QED
        BY <2>2, <2>3, <2>5, <3>1 DEF bindInsert
    <2>7. bound.has_value \in BOOLEAN /\ (bound.has_value <=> ~Foreign)
      BY <2>4, <2>6 DEF Some, nullopt
    <2>8. bound.has_value => bound.value = st
      BY <2>6 DEF Some, nullopt
    <2>9. tuple.has_value \in BOOLEAN
      BY DEF serialize, Some, nullopt
    <2>10. serialize(items).has_value
             <=> ~\E i \in DOMAIN items : FIELD_SEPARATOR \in Range(items[i])
      BY DEF serialize, Some, nullopt
    <2>11. (\E i \in DOMAIN items : FIELD_SEPARATOR \in Range(items[i])) <=> Separated
      <3>1. DOMAIN items = 1..n
        BY <2>3
      <3>2. \A i \in 1..n : items[i] = tokens[2 * i + 4].lexeme
        <4>1. \A i \in 1..n : 6 + 2 * i - 2 = 2 * i + 4
          OBVIOUS
        <4> QED
          BY <2>3, <4>1
      <3> QED
        BY <2>4, <3>1, <3>2
    <2> HIDE DEF bound, Separated
    <2>12. bound.has_value => tuple = serialize(items)
      BY <2>5, <2>8
    <2> HIDE DEF tuple
    <2> QED
      BY <2>7, <2>9, <2>10, <2>11, <2>12
  <1> HIDE DEF s, bound, tuple, types, Foreign, Separated
  <1> QED
    BY <1>2, <1>3, <1>4, <1>5, <1>6 DEF types, InsertAnswer

\* What a line deserves, whatever is in the file.
Deserved(l) ==
    IF l = HelpLine THEN "nothing"
    ELSE IF ~Legible(l) THEN "tokenizer error"
    ELSE Verdict(Tokens[l].value)

\* While the catalog has the table users and its first page has rows, main does with
\* a line what it deserves.
LEMMA LineIsAnswered ==
  ASSUME NEW l \in Lines, NEW page, tables_ = UsersAt(page), HasRows(pages[page])
  PROVE  Handled(l).kind = InsertAnswer(Deserved(l))
  <1> DEFINE tokens == Tokens[l].value
             types == TypesOf(tokens)
  <1>1. \A k \in {"nothing", "tokenizer error", "unsupported"} :
          Error(k).kind = k /\ InsertAnswer(k) = k
    BY DEF Error, Reply, InsertAnswer
  <1>2. Tokens[l].has_value = Legible(l) /\ Tokens[l].has_value \in BOOLEAN
    BY ReplAssumption, TokensOfLine, LineIsSplit DEF ReplAssumption
  <1>3. /\ l = HelpLine => Handled(l) = Error("nothing")
        /\ l # HelpLine /\ ~Tokens[l].has_value => Handled(l) = Error("tokenizer error")
        /\ l # HelpLine /\ Tokens[l].has_value =>
             /\ tokens = <<>> => Handled(l) = Error("nothing")
             /\ tokens # <<>> /\ tokens[1].type = "SELECT" => Handled(l) = handleSelect(tokens)
             /\ tokens # <<>> /\ tokens[1].type = "INSERT" => Handled(l) = handleInsert(tokens)
             /\ tokens # <<>> /\ tokens[1].type \notin {"SELECT", "INSERT"} =>
                  Handled(l) = Error("unsupported")
    BY HandledBy
  <1>4. CASE l = HelpLine
    BY <1>1, <1>3, <1>4 DEF Deserved
  <1>5. CASE l # HelpLine /\ ~Tokens[l].has_value
    <2>1. Deserved(l) = "tokenizer error"
      BY <1>2, <1>5 DEF Deserved
    <2> QED
      BY <1>1, <1>3, <1>5, <2>1
  <1>6. CASE l # HelpLine /\ Tokens[l].has_value
    <2>1. tokens \in Seq(ProperTokens) /\ Len(tokens) \in Nat /\ DOMAIN tokens = 1..Len(tokens)
      BY <1>6, TokensOfLine
    <2>2. Deserved(l) = Verdict(tokens)
      BY <1>2, <1>6 DEF Deserved
    <2> HIDE DEF tokens
    <2>3. handleSelect(tokens).kind = SelectVerdict(types, tokens)
          /\ handleInsert(tokens).kind = InsertAnswer(InsertVerdict(types, tokens))
      BY <2>1, SelectIsAnswered, InsertIsAnswered
    <2>4. InsertAnswer(SelectVerdict(types, tokens)) = SelectVerdict(types, tokens)
      BY <2>3, AnswerKinds DEF InsertAnswer
    <2>5. tokens # <<>> => types[1] = tokens[1].type
      <3> SUFFICES ASSUME tokens # <<>> PROVE types[1] = tokens[1].type
        OBVIOUS
      <3>1. 1 \in 1..Len(tokens)
        BY <2>1
      <3> QED
        BY <2>1, <3>1, TypesAre
    <2>6. Verdict(tokens)
            = IF tokens = <<>> THEN "nothing"
              ELSE IF types[1] = "SELECT" THEN SelectVerdict(types, tokens)
              ELSE IF types[1] = "INSERT" THEN InsertVerdict(types, tokens)
              ELSE "unsupported"
      BY DEF Verdict, TypesOf
    <2> HIDE DEF types
    <2> QED
      BY <1>1, <1>3, <1>6, <2>2, <2>3, <2>4, <2>5, <2>6
  <1> QED
    BY <1>2, <1>4, <1>5, <1>6

\* TypeInv with the line that is being answered: what is stored deserves it, and
\* what is printed is what the line deserves.
AnswerInv ==
    /\ TypeInv
    /\ pc \in {"insert", "reply"} => line \in Lines
    /\ pc = "insert" => Deserved(line) = "inserted"
    /\ pc = "reply" => reply.kind = Deserved(line)

\* A step to where no line is being answered.
LEMMA AnswersUntouched ==
  ASSUME TypeInv', pc' \notin {"insert", "reply"}
  PROVE  AnswerInv'
  BY DEF AnswerInv

LEMMA AnswerInvInit == Init => AnswerInv
  BY TypeInvInit DEF AnswerInv, Init

\* Every step of main keeps AnswerInv.
LEMMA AnswerInvStep == AnswerInv /\ [Next]_vars => AnswerInv'
  <1> SUFFICES ASSUME AnswerInv, [Next]_vars PROVE AnswerInv'
    OBVIOUS
  <1>1. TypeInv'
    BY TypeInvStep DEF AnswerInv
  <1>2. \A l : Deserved(l)' = Deserved(l)
    BY DEF Deserved, Legible, Verdict, Tokens
  <1>3. \A k : InsertAnswer(k) = "insert" /\ k # "insert" => k = "inserted"
    BY DEF InsertAnswer
  <1>4. \A k : InsertAnswer(k) # "insert" => InsertAnswer(k) = k
    BY DEF InsertAnswer
  <1>5. CASE Start \/ StartFails \/ CreateUsers \/ WriteMetadata \/ LoadUsers \/ Prompt \/ Exit
             \/ Crash
    <2>1. pc' \notin {"insert", "reply"}
      BY <1>5 DEF Start, StartFails, CreateUsers, WriteMetadata, LoadUsers, Prompt, Exit, Crash,
                  Ended
    <2> QED
      BY <1>1, <2>1, AnswersUntouched
  <1>6. ASSUME pc = "prompt", NEW l \in Lines
        PROVE  Handled(l).kind = InsertAnswer(Deserved(l))
    <2>1. tables_ = UsersAt(metadata) /\ HasRows(pages[metadata])
      BY <1>6 DEF AnswerInv, TypeInv, CountInv, RowInv, BootInv, Serving
    <2> QED
      BY <2>1, LineIsAnswered
  <1>7. CASE \E l \in Lines : Answer(l)
    <2>1. PICK l \in Lines : Answer(l)
      BY <1>7
    <2>2. pc = "prompt" /\ pc' = "reply" /\ line' = l /\ reply' = Handled(l)
          /\ Handled(l).kind # "insert"
      BY <2>1 DEF Answer
    <2>3. reply'.kind = Deserved(l)
      BY <1>4, <1>6, <2>2
    <2> QED
      BY <1>1, <1>2, <2>2, <2>3 DEF AnswerInv
  <1>8. CASE \E l \in Lines : BeginInsert(l)
    <2>1. PICK l \in Lines : BeginInsert(l)
      BY <1>8
    <2>2. pc = "prompt" /\ pc' = "insert" /\ line' = l /\ Handled(l).kind = "insert"
      BY <2>1 DEF BeginInsert
    <2>3. Deserved(l) # "insert"
      BY DEF Deserved, Verdict, SelectVerdict, InsertVerdict
    <2>4. Deserved(l) = "inserted"
      BY <1>3, <1>6, <2>2, <2>3
    <2> QED
      BY <1>1, <1>2, <2>2, <2>4 DEF AnswerInv
  <1>9. CASE InsertRow
    <2>1. pc = "insert" /\ pc' = "reply" /\ line' = line /\ reply'.kind = "inserted"
      BY <1>9 DEF InsertRow, Reply
    <2> QED
      BY <1>1, <1>2, <2>1 DEF AnswerInv
  <1>10. CASE UNCHANGED vars
    <2>1. pc' = pc /\ line' = line /\ reply' = reply
      BY <1>10 DEF vars
    <2> QED
      BY <1>1, <1>2, <2>1 DEF AnswerInv
  <1> QED
    BY <1>5, <1>7, <1>8, <1>9, <1>10 DEF Next

\* Every line that is answered was split as it is written: it has tokens if and
\* only if no quote is left open and no sign is foreign, they are all of it but the
\* space outside of quotes, and there are as many as start in it.
THEOREM LinesAreSplit == Spec => []LinesAreSplitAsWritten
  <1>1. Spec => []AnswerInv
    BY AnswerInvInit, AnswerInvStep, PTL DEF Spec
  <1>2. AnswerInv => LinesAreSplitAsWritten
    <2> SUFFICES ASSUME AnswerInv, pc = "reply"
                 PROVE  /\ Tokens[line].has_value = Legible(line)
                        /\ Legible(line) =>
                             /\ Sources(Tokens[line].value) = Kept(line)
                             /\ Len(Tokens[line].value)
                                  = Cardinality({i \in DOMAIN line : StartsToken(line, i)})
      BY DEF LinesAreSplitAsWritten
    <2>1. line \in Lines /\ line \in Seq(STRING)
      BY ReplAssumption DEF AnswerInv, ReplAssumption
    <2> QED
      BY <2>1, TokensOfLine, LineIsSplit
  <1> QED
    BY <1>1, <1>2, PTL

\* The answer to a line is the one that its grammar, the catalog and the separator
\* call for, whatever was stored before: a row never makes a later SELECT fail, and
\* no statement is refused or accepted by accident.
THEOREM LinesAreAnswered == Spec => []LinesAreAnsweredByTheGrammar
  <1>1. Spec => []AnswerInv
    BY AnswerInvInit, AnswerInvStep, PTL DEF Spec
  <1>2. AnswerInv => LinesAreAnsweredByTheGrammar
    <2> SUFFICES ASSUME AnswerInv, pc = "reply"
                 PROVE  CASE line = HelpLine -> reply.kind = "nothing"
                          [] line # HelpLine /\ ~Legible(line) -> reply.kind = "tokenizer error"
                          [] OTHER -> reply.kind = Verdict(Tokens[line].value)
      BY Zenon DEF LinesAreAnsweredByTheGrammar
    <2>1. reply.kind = Deserved(line)
      BY DEF AnswerInv
    <2> QED
      BY <2>1 DEF Deserved
  <1> QED
    BY <1>1, <1>2, PTL

=============================================================================
