-------------------------- MODULE BoundedInduction --------------------------
(***************************************************************************)
(* Induction over the numbers up to a bound, with a set in the place of a  *)
(* property, and the existence of functions defined by recursion up to a   *)
(* bound; then what the recursive definitions of a selection of rows and   *)
(* of sequences put end to end come to.                                    *)
(***************************************************************************)
EXTENDS Integers, SequencesExt, Selection, WellFoundedInduction, SequenceTheorems, TLAPS

\* The order of the natural numbers as a relation.
Less == {p \in Nat \X Nat : p[1] < p[2]}

(***************************************************************************)
(* A set of natural numbers that is not empty has a least element.         *)
(***************************************************************************)
LEMMA LeastElement ==
  ASSUME NEW S \in SUBSET Nat, S # {}
  PROVE  \E m \in S : \A k \in S : m <= k
<1>1. IsWellFoundedOn(Less, Nat)
  <2>1. Less = OpToRel(<, Nat)
    BY DEF Less, OpToRel
  <2> QED BY <2>1, NatLessThanWellFounded
<1>2. PICK m \in S : \A k \in S : <<k, m>> \notin Less
  BY <1>1, WFMin
<1>3. ASSUME NEW k \in S PROVE m <= k
  <2>1. m \in Nat /\ k \in Nat /\ ~(k < m)
    BY <1>2 DEF Less
  <2> QED BY <2>1
<1> QED BY <1>3

(***************************************************************************)
(* Induction over the numbers up to a bound, for a set in place of a       *)
(* property.                                                               *)
(***************************************************************************)
LEMMA UpTo ==
  ASSUME NEW N \in Nat, NEW S, 0 \in S,
         \A n \in 1..N : n - 1 \in S => n \in S
  PROVE  0..N \subseteq S
<1> SUFFICES ASSUME (0..N) \ S # {} PROVE FALSE
  OBVIOUS
<1>1. PICK m \in (0..N) \ S : \A k \in (0..N) \ S : m <= k
  <2>1. (0..N) \ S \in SUBSET Nat
    OBVIOUS
  <2> QED BY <2>1, LeastElement
<1>2. m \in 1..N /\ m - 1 \in 0..N /\ ~(m <= m - 1)
  BY <1>1
<1>3. m - 1 \in S
  BY <1>1, <1>2
<1> QED BY <1>1, <1>2, <1>3

\* g is defined by recursion up to N, from base by step.
Recursive(N, T, base, step, g) ==
  /\ g \in [0..N -> T] /\ g[0] = base
  /\ \A n \in 1..N : g[n] = step[n][g[n - 1]]

(***************************************************************************)
(* A function defined by recursion up to a bound exists: the equations can *)
(* be met, here one number at a time.                                      *)
(***************************************************************************)
LEMMA RecursionExists ==
  ASSUME NEW N \in Nat, NEW T, NEW base \in T, NEW step \in [1..N -> [T -> T]]
  PROVE  \E g : Recursive(N, T, base, step, g)
<1> DEFINE Meets(g, m) ==
             /\ g \in [0..m -> T] /\ g[0] = base
             /\ \A n \in 1..m : g[n] = step[n][g[n - 1]]
           S == {m \in 0..N : \E g \in [0..m -> T] : Meets(g, m)}
<1>1. 0 \in S
  <2> DEFINE g == [n \in 0..0 |-> base]
  <2>1. g \in [0..0 -> T] /\ Meets(g, 0)
    OBVIOUS
  <2> HIDE DEF Meets, g
  <2> QED BY <2>1
<1>2. ASSUME NEW m \in 1..N, m - 1 \in S PROVE m \in S
  <2>1. PICK g \in [0..(m - 1) -> T] : Meets(g, m - 1)
    BY <1>2
  <2> DEFINE h == [n \in 0..m |-> IF n = m THEN step[m][g[m - 1]] ELSE g[n]]
  <2>2. g[m - 1] \in T /\ step[m][g[m - 1]] \in T
    BY <2>1
  <2>3. h \in [0..m -> T] /\ h[0] = base
    BY <2>1, <2>2
  <2>4. ASSUME NEW n \in 1..m PROVE h[n] = step[n][h[n - 1]]
    <3>1. h[n - 1] = g[n - 1]
      OBVIOUS
    <3>2. CASE n = m
      BY <3>1, <3>2
    <3>3. CASE n # m
      <4>1. n \in 1..(m - 1)
        BY <3>3
      <4>2. h[n] = g[n] /\ g[n] = step[n][g[n - 1]]
        BY <2>1, <4>1
      <4> QED BY <3>1, <4>2
    <3> QED BY <3>2, <3>3
  <2>5. Meets(h, m)
    BY <2>3, <2>4
  <2> HIDE DEF Meets, h
  <2> QED BY <2>3, <2>5
<1>3. N \in S
  <2> HIDE DEF S
  <2>1. 0..N \subseteq S
    BY <1>1, <1>2, UpTo
  <2> QED BY <2>1
<1> QED BY <1>3 DEF Recursive

-----------------------------------------------------------------------------
(* Rows, and selections of them.                                            *)

(***************************************************************************)
(* A row more in the table is a row more to be found.                      *)
(***************************************************************************)
LEMMA AppendedRow ==
  ASSUME NEW T, NEW s \in Seq(T), NEW r \in T
  PROVE  Append(s, r) \in Seq(T) /\ ToSet(Append(s, r)) = ToSet(s) \union {r}
<1>1. /\ Append(s, r) \in Seq(T) /\ Len(s) \in Nat
      /\ DOMAIN Append(s, r) = 1..(Len(s) + 1) /\ DOMAIN s = 1..Len(s)
      /\ \A i \in 1..Len(s) : Append(s, r)[i] = s[i]
      /\ Append(s, r)[Len(s) + 1] = r
  BY AppendProperties, LenProperties
<1>2. 1..(Len(s) + 1) = 1..Len(s) \union {Len(s) + 1}
  BY <1>1
<1> QED BY <1>1, <1>2 DEF ToSet

(***************************************************************************)
(* A table is empty when there is no row to be found.                      *)
(***************************************************************************)
LEMMA SomeRows ==
  ASSUME NEW T, NEW s \in Seq(T)
  PROVE  s # <<>> <=> ToSet(s) # {}
<1>1. s # <<>> <=> Len(s) # 0
  BY EmptySeq
<1>2. Len(s) \in Nat /\ DOMAIN s = 1..Len(s)
  BY LenProperties
<1>3. Len(s) # 0 <=> 1..Len(s) # {}
  BY <1>2
<1> QED BY <1>1, <1>2, <1>3 DEF ToSet

(***************************************************************************)
(* A query picks the rows of the table that are in its set, and no others. *)
(***************************************************************************)
LEMMA KeptRows ==
  ASSUME NEW T, NEW s \in Seq(T), NEW X
  PROVE  Kept(s, X) \in Seq(T) /\ ToSet(Kept(s, X)) = ToSet(s) \cap X
<1> DEFINE N == Len(s)
           Follows(g) ==
             g = [n \in 0..N |-> IF n = 0 THEN <<>>
                                 ELSE IF s[n] \in X THEN Append(g[n - 1], s[n])
                                      ELSE g[n - 1]]
           upTo == CHOOSE g : Follows(g)
           Rows(n) == {s[i] : i \in 1..n}
           step == [n \in 1..N |-> [q \in Seq(T) |->
                      IF s[n] \in X THEN Append(q, s[n]) ELSE q]]
           S == {n \in 0..N : upTo[n] \in Seq(T) /\ ToSet(upTo[n]) = Rows(n) \cap X}
<1>1. /\ N \in Nat /\ DOMAIN s = 1..N /\ \A n \in 1..N : s[n] \in T
      /\ \A n \in 1..N : n - 1 \in 0..N /\ n \in 0..N
      /\ \A n \in 0..N : n # 0 => n \in 1..N
  BY LenProperties, ElementOfSeq
<1>2. \E g : Follows(g)
  <2>1. step \in [1..N -> [Seq(T) -> Seq(T)]]
    <3>1. \A n \in 1..N, q \in Seq(T) : Append(q, s[n]) \in Seq(T)
      BY <1>1, AppendProperties
    <3> HIDE DEF N
    <3> QED BY <3>1
  <2>2. <<>> \in Seq(T)
    BY EmptySeq
  <2> HIDE DEF step, N
  <2>3. PICK g : Recursive(N, Seq(T), <<>>, step, g)
    BY ONLY <1>1, <2>1, <2>2, RecursionExists
  <2>4. ASSUME NEW n \in 1..N
        PROVE  step[n][g[n - 1]] = IF s[n] \in X THEN Append(g[n - 1], s[n]) ELSE g[n - 1]
    <3>1. g[n - 1] \in Seq(T)
      BY <1>1, <2>3 DEF Recursive
    <3> QED BY <3>1 DEF step
  <2>5. Follows(g)
    BY <1>1, <2>3, <2>4 DEF Recursive
  <2> QED BY <2>5
<1>3. Follows(upTo)
  <2> HIDE DEF Follows
  <2> QED BY <1>2
<1>4. Kept(s, X) = upTo[N]
  BY DEF Kept
<1> HIDE DEF upTo, N, S, Rows, step
<1>5. 0 \in S
  <2>1. upTo[0] = <<>>
    BY <1>1, <1>3
  <2>2. ToSet(<<>>) = {} /\ Rows(0) = {} /\ <<>> \in Seq(T)
    BY EmptySeq DEF ToSet, Rows
  <2>3. upTo[0] \in Seq(T) /\ ToSet(upTo[0]) = Rows(0) \cap X
    BY <2>1, <2>2
  <2> QED BY <1>1, <2>3 DEF S
<1>6. ASSUME NEW n \in 1..N, n - 1 \in S PROVE n \in S
  <2> DEFINE before == upTo[n - 1]
  <2>1. before \in Seq(T) /\ ToSet(before) = Rows(n - 1) \cap X
    BY <1>6 DEF S
  <2>2. upTo[n] = IF s[n] \in X THEN Append(before, s[n]) ELSE before
    <3>1. n \in 0..N /\ n # 0
      BY <1>1
    <3> QED BY <1>3, <3>1
  <2>3. Rows(n) = Rows(n - 1) \union {s[n]}
    <3>1. 1..n = 1..(n - 1) \union {n}
      BY <1>1
    <3> QED BY <3>1 DEF Rows
  <2> HIDE DEF before
  <2>4. Append(before, s[n]) \in Seq(T)
        /\ ToSet(Append(before, s[n])) = ToSet(before) \union {s[n]}
    <3>1. s[n] \in T
      BY <1>1
    <3> QED BY <2>1, <3>1, AppendedRow
  <2>5. upTo[n] \in Seq(T) /\ ToSet(upTo[n]) = Rows(n) \cap X
    BY <2>1, <2>2, <2>3, <2>4
  <2> QED BY <1>1, <2>5 DEF S
<1>7. 0..N \subseteq S
  BY <1>1, <1>5, <1>6, UpTo
<1>8. N \in S
  BY <1>1, <1>7
<1>9. Rows(N) = ToSet(s)
  BY <1>1 DEF ToSet, Rows
<1> QED BY <1>4, <1>8, <1>9 DEF S

(***************************************************************************)
(* The rows of two tables put together.                                    *)
(***************************************************************************)
LEMMA MoreRows ==
  ASSUME NEW T, NEW a \in Seq(T), NEW b \in Seq(T)
  PROVE  a \o b \in Seq(T) /\ ToSet(a) \subseteq ToSet(a \o b) /\ ToSet(b) \subseteq ToSet(a \o b)
<1>1. /\ a \o b \in Seq(T) /\ Len(a \o b) = Len(a) + Len(b)
      /\ Len(a) \in Nat /\ Len(b) \in Nat
      /\ DOMAIN a = 1..Len(a) /\ DOMAIN b = 1..Len(b) /\ DOMAIN (a \o b) = 1..Len(a \o b)
      /\ \A i \in 1..(Len(a) + Len(b)) :
           (a \o b)[i] = IF i <= Len(a) THEN a[i] ELSE b[i - Len(a)]
  BY ConcatProperties, LenProperties
<1>2. ASSUME NEW i \in 1..Len(a) PROVE a[i] \in ToSet(a \o b)
  <2>1. i \in DOMAIN (a \o b) /\ (a \o b)[i] = a[i]
    BY <1>1
  <2> QED BY <2>1 DEF ToSet
<1>3. ASSUME NEW i \in 1..Len(b) PROVE b[i] \in ToSet(a \o b)
  <2>1. /\ Len(a) + i \in DOMAIN (a \o b) /\ ~(Len(a) + i <= Len(a))
        /\ Len(a) + i \in 1..(Len(a) + Len(b)) /\ (Len(a) + i) - Len(a) = i
    BY <1>1
  <2>2. (a \o b)[Len(a) + i] = b[i]
    BY <1>1, <2>1
  <2> QED BY <2>1, <2>2 DEF ToSet
<1> QED BY <1>1, <1>2, <1>3 DEF ToSet

-----------------------------------------------------------------------------
(* Sequences put end to end.                                                *)

\* g holds the concatenations of the first sequences of s.
Concatenates(T, s, g) ==
  /\ g \in [0..Len(s) -> Seq(T)] /\ g[0] = <<>>
  /\ \A n \in 1..Len(s) : g[n] = g[n - 1] \o s[n]

(***************************************************************************)
(* There is a function that holds the concatenations.                      *)
(***************************************************************************)
LEMMA Concatenations ==
  ASSUME NEW T, NEW s \in Seq(Seq(T))
  PROVE  \E g : Concatenates(T, s, g)
<1> DEFINE N == Len(s)
           step == [n \in 1..N |-> [q \in Seq(T) |-> q \o s[n]]]
<1>1. N \in Nat /\ \A n \in 1..N : s[n] \in Seq(T)
  BY LenProperties, ElementOfSeq
<1>2. step \in [1..N -> [Seq(T) -> Seq(T)]]
  <2>1. \A n \in 1..N, q \in Seq(T) : q \o s[n] \in Seq(T)
    BY <1>1, ConcatProperties
  <2> HIDE DEF N
  <2> QED BY <2>1
<1>3. <<>> \in Seq(T)
  BY EmptySeq
<1> HIDE DEF step
<1>4. PICK g : Recursive(N, Seq(T), <<>>, step, g)
  BY <1>1, <1>2, <1>3, RecursionExists
<1>5. ASSUME NEW n \in 1..N PROVE g[n] = g[n - 1] \o s[n]
  <2>1. n - 1 \in 0..N
    BY <1>1
  <2>2. g[n - 1] \in Seq(T) /\ g[n] = step[n][g[n - 1]]
    BY <1>4, <2>1 DEF Recursive
  <2> QED BY <2>2 DEF step
<1> QED BY <1>4, <1>5 DEF Recursive, Concatenates

(***************************************************************************)
(* The sequences put end to end are the last of the concatenations: what   *)
(* FlattenSeq computes by a recursive function.                            *)
(***************************************************************************)
LEMMA Flattened ==
  ASSUME NEW T, NEW s \in Seq(Seq(T)), NEW g, Concatenates(T, s, g)
  PROVE  FlattenSeq(s) = g[Len(s)]
<1> DEFINE N == Len(s)
           Follows(h) == h = [i \in 1..N |-> IF i = 1 THEN s[i] ELSE h[i - 1] \o s[i]]
           flatten == CHOOSE h : Follows(h)
           S == {n \in 0..N : n >= 1 => flatten[n] = g[n]}
<1>1. N \in Nat /\ \A n \in 1..N : s[n] \in Seq(T)
  BY LenProperties, ElementOfSeq
<1>2. CASE N = 0
  BY <1>2, EmptySeq DEF FlattenSeq, Concatenates
<1>4. ASSUME N # 0 PROVE g[1] = s[1]
  <2>1. 1 \in 1..N /\ 1 - 1 = 0
    BY <1>1, <1>4
  <2>2. g[1] = g[1 - 1] \o s[1] /\ g[0] = <<>>
    BY <2>1 DEF Concatenates
  <2>3. g[1] = <<>> \o s[1] /\ s[1] \in Seq(T)
    BY <1>1, <2>1, <2>2
  <2> QED BY <2>3, ConcatEmptySeq
<1>3. CASE N # 0
  <2>1. \E h : Follows(h)
    <3> DEFINE h == [i \in 1..N |-> g[i]]
    <3>1. ASSUME NEW i \in 1..N PROVE h[i] = IF i = 1 THEN s[i] ELSE h[i - 1] \o s[i]
      <4>1. CASE i = 1
        BY <1>3, <1>4, <4>1
      <4>2. CASE i # 1
        <5>1. g[i] = g[i - 1] \o s[i]
          BY DEF Concatenates
        <5>2. i - 1 \in 1..N
          BY <1>1, <4>2
        <5>3. h[i - 1] = g[i - 1] /\ h[i] = g[i]
          BY <5>2
        <5> QED BY <4>2, <5>1, <5>3
      <4> QED BY <4>1, <4>2
    <3>2. Follows(h)
      BY <3>1
    <3> QED BY <3>2
  <2>2. Follows(flatten)
    <3> HIDE DEF Follows
    <3> QED BY <2>1
  <2>3. FlattenSeq(s) = flatten[N]
    BY <1>3 DEF FlattenSeq
  <2> HIDE DEF flatten
  <2>4. 0 \in S
    BY <1>1
  <2>5. ASSUME NEW n \in 1..N, n - 1 \in S PROVE n \in S
    <3>1. CASE n = 1
      <4>1. flatten[1] = s[1]
        BY <2>2, <3>1
      <4> QED BY <1>1, <1>3, <1>4, <3>1, <4>1
    <3>2. CASE n # 1
      <4>1. flatten[n] = flatten[n - 1] \o s[n]
        BY <2>2, <3>2
      <4>2. n - 1 >= 1 /\ flatten[n - 1] = g[n - 1]
        BY <1>1, <2>5, <3>2
      <4>3. g[n] = g[n - 1] \o s[n]
        BY DEF Concatenates
      <4>4. flatten[n] = g[n]
        BY <4>1, <4>2, <4>3
      <4> QED BY <1>1, <4>4
    <3> QED BY <3>1, <3>2
  <2> HIDE DEF S
  <2>6. 0..N \subseteq S
    BY <1>1, <2>4, <2>5, UpTo
  <2>7. N \in S
    BY <1>1, <2>6
  <2> QED BY <1>1, <1>3, <2>3, <2>7 DEF S
<1> QED BY <1>2, <1>3
=============================================================================
