--------------------------- MODULE SequenceLemmas ---------------------------
(***************************************************************************)
(* Facts about sequences and recursive functions over 1 .. n that the      *)
(* proofs of several components rest on.                                   *)
(***************************************************************************)
EXTENDS Integers, SequencesExt, TLAPS, WellFoundedInduction, SequenceTheorems

\* A set of naturals that is not empty has a least element.
LEMMA LeastElement ==
  ASSUME NEW T, T \subseteq Nat, T # {}
  PROVE  \E x \in T : \A y \in T : x <= y
<1>1. \E x \in T : \A y \in T : ~ (<<y, x>> \in OpToRel(<, Nat))
  BY NatLessThanWellFounded, WFMin
<1>2. PICK x \in T : \A y \in T : ~ (<<y, x>> \in OpToRel(<, Nat))
  BY <1>1
<1>3. \A y \in T : ~ (y < x)
  BY <1>2 DEF OpToRel
<1> QED
  BY <1>3

\* A nonempty set of positions up to n has a greatest element.
LEMMA GreatestElement ==
  ASSUME NEW n \in Nat, NEW T, T \subseteq 1 .. n, T # {}
  PROVE  \E x \in T : \A y \in T : y <= x
<1> DEFINE U == {u \in Nat : n - u \in T}
<1>1. \A x \in T : n - x \in U /\ n - (n - x) = x /\ x \in Nat
  OBVIOUS
<1>2. U \subseteq Nat /\ U # {}
  BY <1>1
<1>3. PICK u \in U : \A v \in U : u <= v
  <2> HIDE DEF U
  <2> QED
    BY <1>2, LeastElement
<1>4. n - u \in T /\ u \in Nat
  OBVIOUS
<1>5. \A y \in T : y <= n - u
  <2> TAKE y \in T
  <2>1. u <= n - y
    BY <1>1, <1>3
  <2> QED
    BY <1>1, <1>4, <2>1
<1> QED
  BY <1>4, <1>5

\* Induction over 1 .. n, with the set of the indices already reached.
LEMMA UpTo ==
  ASSUME NEW n \in Nat, NEW Reached,
         n > 0 => 1 \in Reached,
         \A k \in 1 .. n - 1 : k \in Reached => k + 1 \in Reached
  PROVE  \A k \in 1 .. n : k \in Reached
<1> DEFINE T == {k \in 1 .. n : k \notin Reached}
<1>1. SUFFICES ASSUME T # {} PROVE FALSE
  BY <1>1
<1>2. PICK m \in T : \A y \in T : m <= y
  <2>1. T \subseteq Nat
    OBVIOUS
  <2> QED
    BY <1>1, <2>1, LeastElement
<1>3. m \in 1 .. n /\ m \notin Reached
  BY <1>2
<1>4. m # 1
  BY <1>3
<1>5. m - 1 \in 1 .. n - 1 /\ m - 1 \in 1 .. n /\ (m - 1) + 1 = m
  BY <1>3, <1>4
<1>6. m - 1 \in Reached
  <2>1. m - 1 \notin T
    BY <1>2, <1>5
  <2> QED
    BY <1>5, <2>1
<1> QED
  BY <1>3, <1>5, <1>6

\* The same from 0 on.
LEMMA FromZero ==
  ASSUME NEW n \in Nat, NEW Reached,
         0 \in Reached,
         \A k \in 1 .. n : k - 1 \in Reached => k \in Reached
  PROVE  \A k \in 0 .. n : k \in Reached
<1>1. n > 0 => 1 \in Reached
  <2>1. n > 0 => 1 \in 1 .. n /\ 1 - 1 = 0
    OBVIOUS
  <2> QED
    BY <2>1
<1>2. ASSUME NEW k \in 1 .. n - 1, k \in Reached PROVE k + 1 \in Reached
  <2>1. k + 1 \in 1 .. n /\ (k + 1) - 1 = k
    OBVIOUS
  <2> QED
    BY <1>2, <2>1
<1>3. \A k \in 1 .. n : k \in Reached
  BY <1>1, <1>2, UpTo
<1>4. \A k \in 0 .. n : k = 0 \/ k \in 1 .. n
  OBVIOUS
<1> QED
  BY <1>3, <1>4

\* A value for each of 0 .. n, computed from the one before.
Iterable(n, S, first, step) ==
  \E f \in [0 .. n -> S] :
    f[0] = first /\ \A k \in 1 .. n : f[k] = step[k][f[k - 1]]

\* Starting anywhere in S, steps that stay in S can be taken one after another.
LEMMA Iterates ==
  ASSUME NEW n \in Nat, NEW S, NEW first \in S, NEW step \in [1 .. n -> [S -> S]]
  PROVE  Iterable(n, S, first, step)
<1> DEFINE Steps(m, f) == f[0] = first /\ \A k \in 1 .. m : f[k] = step[k][f[k - 1]]
           Reached == {m \in 0 .. n : \E f \in [0 .. m -> S] : Steps(m, f)}
<1>1. 0 \in Reached
  <2> DEFINE g == [k \in 0 .. 0 |-> first]
  <2>1. g \in [0 .. 0 -> S] /\ g[0] = first
    OBVIOUS
  <2>2. \A k \in 1 .. 0 : FALSE
    OBVIOUS
  <2>3. 0 \in 0 .. n
    OBVIOUS
  <2> HIDE DEF g
  <2>4. Steps(0, g)
    BY <2>1, <2>2
  <2> QED
    BY <2>1, <2>3, <2>4
<1>2. ASSUME NEW m \in 1 .. n, m - 1 \in Reached PROVE m \in Reached
  <2>1. PICK f \in [0 .. m - 1 -> S] : Steps(m - 1, f)
    BY <1>2
  <2> DEFINE g == [k \in 0 .. m |-> IF k = m THEN step[m][f[m - 1]] ELSE f[k]]
  <2>2. /\ m \in Nat /\ m - 1 \in 0 .. m - 1 /\ m \in 0 .. n /\ 0 # m /\ 0 \in 0 .. m
        /\ \A k \in 0 .. m : k = m \/ k \in 0 .. m - 1
        /\ \A k \in 0 .. m - 1 : k # m /\ k \in 0 .. m
        /\ \A k \in 1 .. m : k = m \/ k \in 1 .. m - 1
        /\ \A k \in 1 .. m : k - 1 \in 0 .. m - 1
        /\ 0 \in 0 .. m - 1 /\ m \in 0 .. m
    OBVIOUS
  <2>3. step[m][f[m - 1]] \in S
    BY <2>2
  <2>4. g \in [0 .. m -> S]
    BY <2>2, <2>3
  <2>5. /\ \A k \in 0 .. m - 1 : g[k] = f[k]
        /\ g[m] = step[m][f[m - 1]]
    BY <2>2, Zenon
  <2> HIDE DEF g
  <2>6. ASSUME NEW k \in 1 .. m PROVE g[k] = step[k][g[k - 1]]
    <3>1. g[k - 1] = f[k - 1]
      BY <2>2, <2>5
    <3>2. CASE k = m
      BY <2>5, <3>1, <3>2
    <3>3. CASE k \in 1 .. m - 1
      <4>1. k \in 0 .. m - 1
        BY <3>3
      <4>2. f[k] = step[k][f[k - 1]]
        BY <2>1, <3>3
      <4> QED
        BY <2>5, <3>1, <4>1, <4>2
    <3> QED
      BY <2>2, <3>2, <3>3
  <2>7. g[0] = first
    BY <2>1, <2>2, <2>5
  <2>8. Steps(m, g)
    BY <2>6, <2>7
  <2> QED
    BY <2>2, <2>4, <2>8
<1> HIDE DEF Reached
<1>3. \A k \in 0 .. n : k \in Reached
  BY <1>1, <1>2, FromZero
<1>4. n \in Reached
  BY <1>3
<1> QED
  BY <1>4 DEF Reached, Iterable

\* The first m steps by which FlattenSeq appends one sequence after the other.
Flattening(seqs, m, f) ==
  f = [k \in 1 .. m |-> IF k = 1 THEN seqs[k] ELSE f[k - 1] \o seqs[k]]

\* They can be taken for any list of sequences.
LEMMA FlatteningExists ==
  ASSUME NEW S, NEW seqs \in Seq(Seq(S)), Len(seqs) # 0
  PROVE  \E f : Flattening(seqs, Len(seqs), f)
<1> DEFINE n == Len(seqs)
           Reached == {m \in 1 .. n : \E f : Flattening(seqs, m, f)}
<1>1. n \in Nat /\ n > 0
  OBVIOUS
<1> HIDE DEF n
<1>2. 1 \in Reached
  <2> DEFINE g == [k \in 1 .. 1 |-> seqs[k]]
  <2>1. g = [k \in 1 .. 1 |-> IF k = 1 THEN seqs[k] ELSE g[k - 1] \o seqs[k]]
    OBVIOUS
  <2>2. Flattening(seqs, 1, g)
    BY <2>1 DEF Flattening
  <2>3. \E f : Flattening(seqs, 1, f)
    BY <2>2
  <2>4. 1 \in 1 .. n
    BY <1>1
  <2> QED
    BY <2>3, <2>4
<1>3. ASSUME NEW m \in 1 .. n - 1, m \in Reached PROVE m + 1 \in Reached
  <2>1. PICK f : Flattening(seqs, m, f)
    BY <1>3
  <2> DEFINE g == [k \in 1 .. m + 1 |-> IF k = m + 1 THEN f[m] \o seqs[m + 1] ELSE f[k]]
  <2>2. /\ \A k \in 1 .. m : g[k] = f[k]
        /\ g[m + 1] = f[m] \o seqs[m + 1]
    <3>1. /\ m \in Nat /\ m + 1 \in 1 .. m + 1
          /\ \A k \in 1 .. m : k # m + 1 /\ k \in 1 .. m + 1
      BY <1>1
    <3> QED
      BY <3>1, Zenon
  <2>3. g = [k \in 1 .. m + 1 |-> g[k]]
    OBVIOUS
  <2> HIDE DEF g
  <2>4. \A k \in 1 .. m : f[k] = IF k = 1 THEN seqs[k] ELSE f[k - 1] \o seqs[k]
    BY <2>1 DEF Flattening
  <2>5. ASSUME NEW k \in 1 .. m + 1
        PROVE  g[k] = IF k = 1 THEN seqs[k] ELSE g[k - 1] \o seqs[k]
    <3>1. CASE k = m + 1
      <4>1. (m + 1) - 1 = m /\ m + 1 # 1 /\ m \in 1 .. m
        BY <1>1
      <4> QED
        BY <2>2, <3>1, <4>1, Zenon
    <3>2. CASE k \in 1 .. m
      <4>1. k = 1 \/ k - 1 \in 1 .. m
        BY <1>1, <3>2
      <4> QED
        BY <2>2, <2>4, <3>2, <4>1, Zenon
    <3> QED
      BY <1>1, <3>1, <3>2
  <2>6. Flattening(seqs, m + 1, g)
    BY <2>3, <2>5 DEF Flattening
  <2>7. \E f1 : Flattening(seqs, m + 1, f1)
    BY <2>6
  <2>8. m + 1 \in 1 .. n
    BY <1>1
  <2> QED
    BY <2>7, <2>8
<1> HIDE DEF Reached
<1>4. \A k \in 1 .. n : k \in Reached
  BY <1>1, <1>2, <1>3, UpTo
<1>5. n \in Reached
  BY <1>1, <1>4
<1> QED
  BY <1>5 DEF Reached, n

\* FlattenSeq is the last of those steps.
LEMMA FlattenUnfolds ==
  ASSUME NEW S, NEW seqs \in Seq(Seq(S)), Len(seqs) # 0
  PROVE  \E f : Flattening(seqs, Len(seqs), f) /\ FlattenSeq(seqs) = f[Len(seqs)]
<1> DEFINE chosen == CHOOSE f : Flattening(seqs, Len(seqs), f)
<1>1. Flattening(seqs, Len(seqs), chosen)
  BY FlatteningExists, Zenon
<1>2. FlattenSeq(seqs) = chosen[Len(seqs)]
  BY DEF FlattenSeq, Flattening
<1> QED
  BY <1>1, <1>2

\* What Len and indexing see of s \o t.
LEMMA Concatenation ==
  ASSUME NEW s \in Seq(Nat), NEW t \in Seq(Nat)
  PROVE  /\ s \o t \in Seq(Nat) /\ Len(s \o t) = Len(s) + Len(t)
         /\ \A k \in 1 .. Len(s) : (s \o t)[k] = s[k]
         /\ \A k \in Len(s) + 1 .. Len(s) + Len(t) : (s \o t)[k] = t[k - Len(s)]
         /\ s \o t = [k \in 1 .. Len(s) + Len(t) |-> (s \o t)[k]]
<1>1. /\ s \o t \in Seq(Nat) /\ Len(s \o t) = Len(s) + Len(t)
      /\ \A k \in 1 .. Len(s) : (s \o t)[k] = s[k]
      /\ \A k \in Len(s) + 1 .. Len(s) + Len(t) : (s \o t)[k] = t[k - Len(s)]
  OBVIOUS
<1>2. \A u \in Seq(Nat) : u = [k \in 1 .. Len(u) |-> u[k]]
  OBVIOUS
<1> QED
  BY <1>1, <1>2, Zenon

\* `whole` is `before` followed by `after`.
Joins(S, n, before, m, after, whole) ==
  /\ whole \in [1 .. n + m -> S]
  /\ \A k \in 1 .. n : whole[k] = before[k]
  /\ \A k \in n + 1 .. n + m : whole[k] = after[k - n]

\* Concatenation, position by position.
LEMMA Joining ==
  ASSUME NEW S, NEW n \in Nat, NEW m \in Nat, NEW s \in [1 .. n -> S], NEW t \in [1 .. m -> S]
  PROVE  Joins(S, n, s, m, t, s \o t)
<1>1. s \in Seq(S) /\ t \in Seq(S) /\ Len(s) = n /\ Len(t) = m
  OBVIOUS
<1>2. s \o t \in Seq(S) /\ Len(s \o t) = n + m
  BY <1>1
<1>3. \A k \in 1 .. n : (s \o t)[k] = s[k]
  BY <1>1
<1>4. \A k \in n + 1 .. n + m : (s \o t)[k] = t[k - n]
  BY <1>1
<1> DEFINE u == s \o t
<1>5. u \in Seq(S) /\ Len(u) = n + m
  BY <1>2
<1> HIDE DEF u
<1>6. u \in [1 .. n + m -> S]
  BY <1>5
<1> QED
  BY <1>3, <1>4, <1>6 DEF u, Joins

\* `whole` has e at this position, and what followed has moved by one.
Inserts(S, n, s, at, e, whole) ==
  /\ whole \in [1 .. n + 1 -> S]
  /\ \A k \in 1 .. n + 1 :
       whole[k] = IF k < at THEN s[k] ELSE IF k = at THEN e ELSE s[k - 1]

\* An element inserted at k: those before it stay, those after it move by one.
LEMMA Inserting ==
  ASSUME NEW S, NEW n \in Nat, NEW s \in [1 .. n -> S], NEW at \in 1 .. n + 1, NEW e \in S
  PROVE  Inserts(S, n, s, at, e, InsertAt(s, at, e))
<1> DEFINE left   == at - 1
           right  == n - at + 1
           before == SubSeq(s, 1, at - 1)
           after  == SubSeq(s, at, Len(s))
           mid    == before \o <<e>>
           whole  == mid \o after
<1>1. s \in Seq(S) /\ Len(s) = n
  OBVIOUS
<1>2. /\ before \in [1 .. left -> S]
      /\ \A k \in 1 .. left : before[k] = s[k]
  <2>1. \A k \in 1 .. at - 1 : s[k] \in S
    OBVIOUS
  <2>2. /\ before \in Seq(S) /\ Len(before) = at - 1
        /\ \A k \in 1 .. (at - 1) - 1 + 1 : before[k] = s[1 + k - 1]
    BY <2>1, SubSeqProperties
  <2> HIDE DEF before
  <2> QED
    BY <2>2
<1>3. /\ after \in [1 .. right -> S]
      /\ \A k \in 1 .. right : after[k] = s[at + k - 1]
  <2>1. \A k \in at .. Len(s) : s[k] \in S
    BY <1>1
  <2>2. /\ after \in Seq(S) /\ Len(after) = n - at + 1
        /\ \A k \in 1 .. Len(s) - at + 1 : after[k] = s[at + k - 1]
    BY <1>1, <2>1, SubSeqProperties
  <2> HIDE DEF after
  <2> QED
    BY <1>1, <2>2
<1>4. /\ left \in Nat /\ right \in Nat /\ left + 1 = at /\ at \in Nat /\ at + right = n + 1
  OBVIOUS
<1>5. <<e>> \in [1 .. 1 -> S] /\ 1 \in Nat /\ <<e>>[1] = e
  OBVIOUS
<1>6. InsertAt(s, at, e) = whole
  BY DEF InsertAt
<1> HIDE DEF before, after, mid, left, right, whole
<1>7. Joins(S, left, before, 1, <<e>>, mid)
  <2>1. Joins(S, left, before, 1, <<e>>, before \o <<e>>)
    BY <1>2, <1>4, <1>5, Joining, Zenon
  <2> QED
    BY <2>1 DEF mid
<1>8. mid \in [1 .. at -> S] /\ mid[at] = e /\ \A k \in 1 .. left : mid[k] = s[k]
  BY <1>2, <1>4, <1>5, <1>7 DEF Joins
<1>9. Joins(S, at, mid, right, after, whole)
  <2>1. Joins(S, at, mid, right, after, mid \o after)
    BY <1>3, <1>4, <1>8, Joining, Zenon
  <2> QED
    BY <2>1 DEF whole
<1>10. /\ whole \in [1 .. n + 1 -> S]
       /\ \A k \in 1 .. at : whole[k] = mid[k]
       /\ \A k \in at + 1 .. n + 1 : whole[k] = after[k - at]
  BY <1>4, <1>9 DEF Joins
<1>11. ASSUME NEW k \in 1 .. n + 1
       PROVE  whole[k] = IF k < at THEN s[k] ELSE IF k = at THEN e ELSE s[k - 1]
  <2>1. CASE k < at
    BY <1>4, <1>8, <1>10, <2>1
  <2>2. CASE k = at
    BY <1>4, <1>8, <1>10, <2>2
  <2>3. CASE k > at
    <3>1. k \in at + 1 .. n + 1 /\ k - at \in 1 .. right /\ at + (k - at) - 1 = k - 1
      BY <1>4, <2>3
    <3>2. whole[k] = after[k - at] /\ after[k - at] = s[k - 1]
      BY <1>3, <1>10, <3>1
    <3> QED
      BY <1>4, <2>3, <3>2
  <2> QED
    BY <1>4, <2>1, <2>2, <2>3
<1> QED
  BY <1>6, <1>10, <1>11 DEF Inserts
=============================================================================
