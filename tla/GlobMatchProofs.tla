--------------------------- MODULE GlobMatchProofs ---------------------------
(***************************************************************************)
(* Proofs about globMatch, for patterns of any number of segments and      *)
(* values of any length over any letters: to cut a value behind the        *)
(* leftmost occurrence of each segment is never a mistake, so that         *)
(* globMatch decides what a pattern means.                                 *)
(***************************************************************************)
EXTENDS GlobMatch, ListProofs

-----------------------------------------------------------------------------
(* Where segments occur.                                                   *)

OccursAt(segment, str, n) ==
  /\ n + Len(segment) <= Len(str)
  /\ \A i \in 1 .. Len(segment) : str[n + i] = segment[i]

\* An occurrence is a subsequence that equals the segment.
LEMMA SubSeqOccurs ==
  ASSUME NEW L, NEW segment \in Seq(L), NEW str \in Seq(L), NEW n \in Nat,
         n + Len(segment) <= Len(str)
  PROVE  SubSeq(str, n + 1, n + Len(segment)) = segment <=> OccursAt(segment, str, n)
<1> DEFINE sub == SubSeq(str, n + 1, n + Len(segment))
<1>1. sub \in Seq(L) /\ Len(sub) = Len(segment)
  OBVIOUS
<1>2. \A i \in 1 .. Len(segment) : sub[i] = str[n + i]
  OBVIOUS
<1> HIDE DEF sub
<1>3. (\A i \in 1 .. Len(segment) : sub[i] = segment[i]) => sub = segment
  BY <1>1
<1>4. sub = segment <=> OccursAt(segment, str, n)
  BY <1>2, <1>3 DEF OccursAt
<1> QED
  BY <1>4 DEF sub

\* What is left of a value, and what occurs there.
LEMMA AfterWord ==
  ASSUME NEW L, NEW str \in Seq(L), NEW o \in 0 .. Len(str)
  PROVE  /\ After(str, o) \in Seq(L)
         /\ Len(After(str, o)) = Len(str) - o
         /\ \A i \in 1 .. Len(str) - o : After(str, o)[i] = str[o + i]
         /\ \A segment \in Seq(L), n \in Nat :
              OccursAt(segment, After(str, o), n) <=> OccursAt(segment, str, o + n)
         /\ \A m \in 0 .. Len(str) - o : After(After(str, o), m) = After(str, o + m)
<1>1. /\ After(str, o) \in Seq(L)
      /\ Len(After(str, o)) = Len(str) - o
      /\ \A i \in 1 .. Len(str) - o : After(str, o)[i] = str[o + i]
  BY DEF After
<1>2. ASSUME NEW segment \in Seq(L), NEW n \in Nat
      PROVE  OccursAt(segment, After(str, o), n) <=> OccursAt(segment, str, o + n)
  <2>1. Len(segment) \in Nat /\ Len(str) \in Nat
    OBVIOUS
  <2>2. n + Len(segment) <= Len(str) - o <=> o + n + Len(segment) <= Len(str)
    BY <2>1
  <2>3. ASSUME n + Len(segment) <= Len(str) - o, NEW i \in 1 .. Len(segment)
        PROVE  After(str, o)[n + i] = str[o + n + i]
    <3>1. n + i \in 1 .. Len(str) - o
      BY <2>1, <2>3
    <3> QED
      BY <1>1, <3>1
  <2> QED
    BY <1>1, <2>2, <2>3 DEF OccursAt
<1>3. ASSUME NEW m \in 0 .. Len(str) - o
      PROVE  After(After(str, o), m) = After(str, o + m)
  BY DEF After
<1> QED
  BY <1>1, <1>2, <1>3

\* The set of occurrences is the one that Index searches.
LEMMA OccurrencesOf ==
  ASSUME NEW L, NEW segment \in Seq(L), NEW str \in Seq(L)
  PROVE  /\ Occurrences(segment, str) = {n \in Nat : OccursAt(segment, str, n)}
         /\ Occurrences(segment, str) \subseteq Nat
<1>1. Len(segment) \in Nat /\ Len(str) \in Nat
  OBVIOUS
<1>2. ASSUME NEW n \in Nat
      PROVE  n \in Occurrences(segment, str) <=> OccursAt(segment, str, n)
  <2>1. CASE n + Len(segment) <= Len(str)
    BY <1>1, <2>1, SubSeqOccurs DEF Occurrences
  <2>2. CASE ~(n + Len(segment) <= Len(str))
    BY <1>1, <2>2 DEF Occurrences, OccursAt
  <2> QED
    BY <2>1, <2>2
<1>3. Occurrences(segment, str) \subseteq Nat
  BY <1>1 DEF Occurrences
<1> QED
  BY <1>2, <1>3

\* strings.Index finds the leftmost occurrence if there is one.
LEMMA IndexIsLeftmost ==
  ASSUME NEW L, NEW segment \in Seq(L), NEW str \in Seq(L),
         Occurrences(segment, str) # {}
  PROVE  /\ Index(segment, str) \in Nat
         /\ OccursAt(segment, str, Index(segment, str))
         /\ \A n \in Nat : OccursAt(segment, str, n) => Index(segment, str) <= n
<1> DEFINE O == Occurrences(segment, str)
           R == OpToRel(<, Nat)
<1>1. O = {n \in Nat : OccursAt(segment, str, n)} /\ O \subseteq Nat /\ O # {}
  BY OccurrencesOf
<1>2. IsWellFoundedOn(R, Nat)
  BY NatLessThanWellFounded
<1>3. \A x, y \in Nat : x < y => <<x, y>> \in R
  BY DEF OpToRel
<1> HIDE DEF O, R
<1>4. PICK x \in O : \A y \in O : ~ (<<y, x>> \in R)
  BY <1>1, <1>2, WFMin
<1>5. ASSUME NEW y \in O PROVE x <= y
  <2>1. x \in Nat /\ y \in Nat /\ ~(<<y, x>> \in R)
    BY <1>1, <1>4
  <2>2. ~(y < x)
    BY <1>3, <2>1
  <2> QED
    BY <2>1, <2>2
<1>6. Index(segment, str) \in O /\ \A m \in O : Index(segment, str) <= m
  BY <1>4, <1>5 DEF Index, O
<1> QED
  BY <1>1, <1>6

-----------------------------------------------------------------------------
(* A pattern in two parts.                                                 *)

\* The first k segments occur one after the other, from the start to e.
StartsUpTo(segments, str, k, e) ==
  \E at \in [1 .. k -> Nat] :
    /\ at[1] = 0
    /\ \A j \in 1 .. k : OccursAt(segments[j], str, at[j])
    /\ \A j \in 1 .. k - 1 : at[j] + Len(segments[j]) <= at[j + 1]
    /\ at[k] + Len(segments[k]) = e

\* The segments behind the first k occur one after the other, from o on to the
\* end.
EndsFrom(segments, str, k, o) ==
  LET n == Len(segments)
  IN  \E at \in [k + 1 .. n -> Nat] :
        /\ o <= at[k + 1]
        /\ \A j \in k + 1 .. n : OccursAt(segments[j], str, at[j])
        /\ \A j \in k + 1 .. n - 1 : at[j] + Len(segments[j]) <= at[j + 1]
        /\ at[n] + Len(segments[n]) = Len(str)

Placed(segments, str, at) ==
  LET n == Len(segments)
  IN  /\ at[1] = 0
      /\ \A j \in 1 .. n : OccursAt(segments[j], str, at[j])
      /\ \A j \in 1 .. n - 1 : at[j] + Len(segments[j]) <= at[j + 1]
      /\ at[n] + Len(segments[n]) = Len(str)

\* What a pattern means, without the bound on the places.
LEMMA MeansByOccurrence ==
  ASSUME NEW L, NEW segments \in Seq(Seq(L)), segments # <<>>, NEW str \in Seq(L)
  PROVE  Means(segments, str) <=>
           \E at \in [1 .. Len(segments) -> Nat] : Placed(segments, str, at)
<1> DEFINE n == Len(segments)
<1>1. n \in Nat \ {0} /\ \A j \in 1 .. n : segments[j] \in Seq(L) /\ Len(segments[j]) \in Nat
  OBVIOUS
<1>2. Len(str) \in Nat
  OBVIOUS
<1>3. ASSUME Means(segments, str)
      PROVE  \E at \in [1 .. n -> Nat] : Placed(segments, str, at)
  <2>1. PICK at \in [1 .. n -> 0 .. Len(str)] :
          /\ at[1] = 0
          /\ at[n] + Len(segments[n]) = Len(str)
          /\ \A j \in 1 .. n - 1 : at[j] + Len(segments[j]) <= at[j + 1]
          /\ \A j \in 1 .. n :
               SubSeq(str, at[j] + 1, at[j] + Len(segments[j])) = segments[j]
    BY <1>3 DEF Means
  <2>2. at \in [1 .. n -> Nat]
    BY <1>2, <2>1
  <2>3. ASSUME NEW j \in 1 .. n PROVE OccursAt(segments[j], str, at[j])
    <3>1. at[j] \in Nat /\ at[j] + Len(segments[j]) <= Len(str)
      <4>1. CASE j = n
        BY <1>1, <1>2, <2>1, <2>2, <4>1
      <4>2. CASE j # n
        <5>1. j \in 1 .. n - 1 /\ j + 1 \in 1 .. n
          BY <1>1, <4>2
        <5>2. at[j] \in 0 .. Len(str) /\ at[j + 1] \in 0 .. Len(str)
          BY <2>1, <5>1
        <5>3. PICK x \in Nat, y \in Nat, l \in Nat, size \in Nat :
                /\ x = at[j] /\ y = at[j + 1] /\ y <= size
                /\ l = Len(segments[j]) /\ size = Len(str)
          BY <1>1, <1>2, <5>2
        <5>4. x + l <= y
          BY <2>1, <5>1, <5>3
        <5>5. \A u, v, w, t \in Nat : u + v <= w /\ w <= t => u + v <= t
          OBVIOUS
        <5>6. x + l <= size
          BY <5>3, <5>4, <5>5
        <5> QED
          BY <5>3, <5>6
      <4> QED
        BY <4>1, <4>2
    <3> QED
      BY <1>1, <2>1, <3>1, SubSeqOccurs
  <2> QED
    BY <2>1, <2>2, <2>3 DEF Placed
<1>4. ASSUME NEW at \in [1 .. n -> Nat], Placed(segments, str, at)
      PROVE  Means(segments, str)
  <2>1. ASSUME NEW j \in 1 .. n
        PROVE  /\ at[j] \in 0 .. Len(str)
               /\ SubSeq(str, at[j] + 1, at[j] + Len(segments[j])) = segments[j]
    <3>1. at[j] \in Nat /\ at[j] + Len(segments[j]) <= Len(str)
      BY <1>4 DEF Placed, OccursAt
    <3> QED
      BY <1>1, <1>2, <1>4, <3>1, SubSeqOccurs, SMTT(30) DEF Placed
  <2>2. at \in [1 .. n -> 0 .. Len(str)]
    BY <2>1
  <2> QED
    BY <1>4, <2>1, <2>2 DEF Means, Placed
<1> QED
  BY <1>3, <1>4

\* A pattern means a value if its first segments do up to some place, and the
\* others from there on.
LEMMA MeansInTwoParts ==
  ASSUME NEW L, NEW segments \in Seq(Seq(L)), NEW str \in Seq(L),
         NEW k \in 1 .. Len(segments) - 1
  PROVE  Means(segments, str) <=>
           \E e \in Nat : StartsUpTo(segments, str, k, e) /\ EndsFrom(segments, str, k, e)
<1> DEFINE n == Len(segments)
<1>1. n \in Nat \ {0} /\ k \in 1 .. n - 1 /\ \A j \in 1 .. n : Len(segments[j]) \in Nat
  OBVIOUS
<1>2. Means(segments, str) <=> \E at \in [1 .. n -> Nat] : Placed(segments, str, at)
  BY <1>1, MeansByOccurrence
<1>5. \A at : Placed(segments, str, at) <=>
        /\ at[1] = 0
        /\ \A j \in 1 .. n : OccursAt(segments[j], str, at[j])
        /\ \A j \in 1 .. n - 1 : at[j] + Len(segments[j]) <= at[j + 1]
        /\ at[n] + Len(segments[n]) = Len(str)
  BY DEF Placed
<1> HIDE DEF n
<1>3. ASSUME NEW at \in [1 .. n -> Nat],
             /\ at[1] = 0
             /\ \A j \in 1 .. n : OccursAt(segments[j], str, at[j])
             /\ \A j \in 1 .. n - 1 : at[j] + Len(segments[j]) <= at[j + 1]
             /\ at[n] + Len(segments[n]) = Len(str)
      PROVE  \E e \in Nat : StartsUpTo(segments, str, k, e) /\ EndsFrom(segments, str, k, e)
  <2> DEFINE a == [j \in 1 .. k |-> at[j]]
             b == [j \in k + 1 .. n |-> at[j]]
             e == at[k] + Len(segments[k])
  <2>1. a \in [1 .. k -> Nat] /\ b \in [k + 1 .. n -> Nat] /\ e \in Nat
    <3>1. 1 .. k \subseteq 1 .. n /\ k + 1 .. n \subseteq 1 .. n /\ k \in 1 .. n
      BY <1>1
    <3>2. a \in [1 .. k -> Nat] /\ b \in [k + 1 .. n -> Nat]
      BY <3>1
    <3>3. at[k] \in Nat /\ Len(segments[k]) \in Nat
      BY <1>1, <3>1
    <3>4. e \in Nat
      BY <3>3
    <3> HIDE DEF a, b, e
    <3> QED
      BY <3>2, <3>4
  <2>7. /\ \A j \in 1 .. k : a[j] = at[j]
        /\ \A j \in k + 1 .. n : b[j] = at[j]
        /\ e = at[k] + Len(segments[k])
    OBVIOUS
  <2>8. /\ 1 \in 1 .. k /\ k \in 1 .. k /\ k \in 1 .. n - 1
        /\ k + 1 \in k + 1 .. n /\ n \in k + 1 .. n
    BY <1>1
  <2> HIDE DEF a, b, e
  <2>2. StartsUpTo(segments, str, k, e)
    <3>1. a[1] = 0 /\ a[k] + Len(segments[k]) = e
      BY <1>3, <2>7, <2>8
    <3>2. ASSUME NEW j \in 1 .. k PROVE OccursAt(segments[j], str, a[j])
      <4>1. j \in 1 .. n
        BY <1>1
      <4> QED
        BY <1>3, <2>7, <4>1
    <3>3. ASSUME NEW j \in 1 .. k - 1 PROVE a[j] + Len(segments[j]) <= a[j + 1]
      <4>1. j \in 1 .. n - 1 /\ j \in 1 .. k /\ j + 1 \in 1 .. k
        BY <1>1
      <4> QED
        BY <1>3, <2>7, <4>1
    <3> QED
      BY <2>1, <3>1, <3>2, <3>3 DEF StartsUpTo
  <2>3. e <= b[k + 1] /\ b[n] + Len(segments[n]) = Len(str)
    BY <1>3, <2>7, <2>8
  <2>4. ASSUME NEW j \in k + 1 .. n PROVE OccursAt(segments[j], str, b[j])
    <3>1. j \in 1 .. n
      BY <1>1
    <3> QED
      BY <1>3, <2>7, <3>1
  <2>5. ASSUME NEW j \in k + 1 .. n - 1 PROVE b[j] + Len(segments[j]) <= b[j + 1]
    <3>1. j \in 1 .. n - 1 /\ j \in k + 1 .. n /\ j + 1 \in k + 1 .. n
      BY <1>1
    <3> QED
      BY <1>3, <2>7, <3>1
  <2>6. EndsFrom(segments, str, k, e)
    BY <2>1, <2>3, <2>4, <2>5 DEF EndsFrom, n
  <2> QED
    BY <2>1, <2>2, <2>6
<1>4. ASSUME NEW e \in Nat, StartsUpTo(segments, str, k, e), EndsFrom(segments, str, k, e)
      PROVE  \E at \in [1 .. n -> Nat] : Placed(segments, str, at)
  <2>1. PICK a \in [1 .. k -> Nat] :
          /\ a[1] = 0
          /\ \A j \in 1 .. k : OccursAt(segments[j], str, a[j])
          /\ \A j \in 1 .. k - 1 : a[j] + Len(segments[j]) <= a[j + 1]
          /\ a[k] + Len(segments[k]) = e
    BY <1>4 DEF StartsUpTo
  <2>2. PICK b \in [k + 1 .. n -> Nat] :
          /\ e <= b[k + 1]
          /\ \A j \in k + 1 .. n : OccursAt(segments[j], str, b[j])
          /\ \A j \in k + 1 .. n - 1 : b[j] + Len(segments[j]) <= b[j + 1]
          /\ b[n] + Len(segments[n]) = Len(str)
    BY <1>4 DEF EndsFrom, n
  <2> DEFINE at == [j \in 1 .. n |-> IF j <= k THEN a[j] ELSE b[j]]
  <2>a. \A j \in 1 .. n : (j <= k => j \in 1 .. k) /\ (~(j <= k) => j \in k + 1 .. n)
    BY <1>1
  <2>b. /\ \A j \in 1 .. k : j \in 1 .. n /\ j <= k
        /\ \A j \in k + 1 .. n : j \in 1 .. n /\ ~(j <= k)
    BY <1>1
  <2>3. at \in [1 .. n -> Nat]
    BY <2>a
  <2>7. /\ \A j \in 1 .. k : at[j] = a[j]
        /\ \A j \in k + 1 .. n : at[j] = b[j]
    BY <2>b
  <2> HIDE DEF at
  <2>8. 1 \in 1 .. k /\ k \in 1 .. k /\ k + 1 \in k + 1 .. n /\ n \in k + 1 .. n
    BY <1>1
  <2>4. ASSUME NEW j \in 1 .. n PROVE OccursAt(segments[j], str, at[j])
    <3>1. j \in 1 .. k \/ j \in k + 1 .. n
      BY <1>1
    <3> QED
      BY <2>1, <2>2, <2>7, <3>1
  <2>5. at[1] = 0 /\ at[n] + Len(segments[n]) = Len(str)
    BY <2>1, <2>2, <2>7, <2>8
  <2>6. ASSUME NEW j \in 1 .. n - 1 PROVE at[j] + Len(segments[j]) <= at[j + 1]
    <3>1. CASE j < k
      <4>1. j \in 1 .. k - 1 /\ j \in 1 .. k /\ j + 1 \in 1 .. k
        BY <1>1, <3>1
      <4> QED
        BY <2>1, <2>7, <4>1
    <3>2. CASE j = k
      BY <2>1, <2>2, <2>7, <2>8, <3>2
    <3>3. CASE j > k
      <4>1. j \in k + 1 .. n - 1 /\ j \in k + 1 .. n /\ j + 1 \in k + 1 .. n
        BY <1>1, <3>3
      <4> QED
        BY <2>2, <2>7, <4>1
    <3> QED
      BY <1>1, <3>1, <3>2, <3>3
  <2> QED
    BY <1>5, <2>3, <2>4, <2>5, <2>6
<1> QED
  BY <1>2, <1>3, <1>4, <1>5

\* The first segments occur up to e2 if the last of them does so behind the
\* others.
LEMMA OneSegmentMore ==
  ASSUME NEW L, NEW segments \in Seq(Seq(L)), NEW str \in Seq(L),
         NEW k \in 1 .. Len(segments) - 1, NEW e2 \in Nat
  PROVE  StartsUpTo(segments, str, k + 1, e2) <=>
           \E e, m \in Nat : /\ StartsUpTo(segments, str, k, e)
                             /\ e <= m
                             /\ OccursAt(segments[k + 1], str, m)
                             /\ e2 = m + Len(segments[k + 1])
<1>1. k \in Nat \ {0} /\ \A j \in 1 .. k + 1 : Len(segments[j]) \in Nat
  OBVIOUS
<1>2. ASSUME StartsUpTo(segments, str, k + 1, e2)
      PROVE  \E e, m \in Nat : /\ StartsUpTo(segments, str, k, e)
                               /\ e <= m
                               /\ OccursAt(segments[k + 1], str, m)
                               /\ e2 = m + Len(segments[k + 1])
  <2>1. PICK at \in [1 .. k + 1 -> Nat] :
          /\ at[1] = 0
          /\ \A j \in 1 .. k + 1 : OccursAt(segments[j], str, at[j])
          /\ \A j \in 1 .. (k + 1) - 1 : at[j] + Len(segments[j]) <= at[j + 1]
          /\ at[k + 1] + Len(segments[k + 1]) = e2
    BY <1>2 DEF StartsUpTo
  <2> DEFINE a == [j \in 1 .. k |-> at[j]]
             e == at[k] + Len(segments[k])
  <2>2. a \in [1 .. k -> Nat] /\ e \in Nat /\ at[k + 1] \in Nat
    <3>1. k \in 1 .. k + 1 /\ k + 1 \in 1 .. k + 1 /\ 1 .. k \subseteq 1 .. k + 1
      BY <1>1
    <3>2. at[k] \in Nat /\ at[k + 1] \in Nat /\ Len(segments[k]) \in Nat
      BY <1>1, <3>1
    <3>3. a \in [1 .. k -> Nat]
      BY <3>1
    <3>4. e \in Nat
      BY <3>2
    <3> HIDE DEF a, e
    <3> QED
      BY <3>2, <3>3, <3>4
  <2>5. /\ \A j \in 1 .. k : a[j] = at[j]
        /\ e = at[k] + Len(segments[k])
    OBVIOUS
  <2> HIDE DEF a, e
  <2>3. StartsUpTo(segments, str, k, e)
    <3>1. a[1] = 0 /\ a[k] + Len(segments[k]) = e
      <4>1. 1 \in 1 .. k /\ k \in 1 .. k
        BY <1>1
      <4> QED
        BY <2>1, <2>5, <4>1
    <3>2. \A j \in 1 .. k : OccursAt(segments[j], str, a[j])
      BY <1>1, <2>1, <2>5
    <3>3. \A j \in 1 .. k - 1 : a[j] + Len(segments[j]) <= a[j + 1]
      BY <1>1, <2>1, <2>5
    <3> QED
      BY <2>2, <3>1, <3>2, <3>3 DEF StartsUpTo
  <2>4. e <= at[k + 1] /\ OccursAt(segments[k + 1], str, at[k + 1])
    BY <1>1, <2>1, <2>5
  <2> QED
    BY <2>1, <2>2, <2>3, <2>4
<1>3. ASSUME NEW e \in Nat, NEW m \in Nat,
             /\ StartsUpTo(segments, str, k, e)
             /\ e <= m
             /\ OccursAt(segments[k + 1], str, m)
             /\ e2 = m + Len(segments[k + 1])
      PROVE  StartsUpTo(segments, str, k + 1, e2)
  <2>1. PICK a \in [1 .. k -> Nat] :
          /\ a[1] = 0
          /\ \A j \in 1 .. k : OccursAt(segments[j], str, a[j])
          /\ \A j \in 1 .. k - 1 : a[j] + Len(segments[j]) <= a[j + 1]
          /\ a[k] + Len(segments[k]) = e
    BY <1>3 DEF StartsUpTo
  <2> DEFINE at == [j \in 1 .. k + 1 |-> IF j <= k THEN a[j] ELSE m]
  <2>2. at \in [1 .. k + 1 -> Nat] /\ at[1] = 0
    BY <1>1, <2>1
  <2>3. \A j \in 1 .. k + 1 : OccursAt(segments[j], str, at[j])
    BY <1>1, <1>3, <2>1, SMTT(30)
  <2>4. ASSUME NEW j \in 1 .. (k + 1) - 1 PROVE at[j] + Len(segments[j]) <= at[j + 1]
    <3>1. CASE j < k
      BY <1>1, <2>1, <3>1
    <3>2. CASE j = k
      BY <1>1, <1>3, <2>1, <3>2
    <3> QED
      BY <1>1, <3>1, <3>2
  <2>5. at[k + 1] + Len(segments[k + 1]) = e2
    BY <1>1, <1>3
  <2> HIDE DEF at
  <2> QED
    BY <2>2, <2>3, <2>4, <2>5 DEF StartsUpTo
<1> QED
  BY <1>2, <1>3

\* The first segment alone occurs at the start.
LEMMA FirstSegment ==
  ASSUME NEW L, NEW segment \in Seq(L), NEW segments, segments[1] = segment,
         NEW str \in Seq(L), NEW e \in Nat
  PROVE  /\ IsPrefix(segment, str) <=> OccursAt(segment, str, 0)
         /\ StartsUpTo(segments, str, 1, e) <=>
              IsPrefix(segment, str) /\ e = Len(segment)
<1>1. Len(segment) \in Nat
  OBVIOUS
<1>2. IsPrefix(segment, str) <=> OccursAt(segment, str, 0)
  BY <1>1 DEF IsPrefix, OccursAt
<1>3. ASSUME StartsUpTo(segments, str, 1, e)
      PROVE  OccursAt(segment, str, 0) /\ e = Len(segment)
  BY <1>1, <1>3 DEF StartsUpTo
<1>4. ASSUME OccursAt(segment, str, 0), e = Len(segment)
      PROVE  StartsUpTo(segments, str, 1, e)
  <2> DEFINE at == [j \in 1 .. 1 |-> 0]
  <2>1. at \in [1 .. 1 -> Nat] /\ at[1] = 0
    OBVIOUS
  <2>2. \A j \in 1 .. 1 : j = 1
    OBVIOUS
  <2>3. (1 .. 1 - 1) = {} /\ at[1] + Len(segments[1]) = e
    BY <1>1, <1>4
  <2> HIDE DEF at
  <2> QED
    BY <1>4, <2>1, <2>2, <2>3 DEF StartsUpTo
<1> QED
  BY <1>2, <1>3, <1>4

\* Segments that occur one after the other from o on all occur from o on.
LEMMA AllFromThere ==
  ASSUME NEW k \in Nat, NEW n \in Nat, NEW o \in Nat,
         NEW at \in [k + 1 .. n -> Nat], k < n, o <= at[k + 1],
         NEW len \in [k + 1 .. n -> Nat],
         \A j \in k + 1 .. n - 1 : at[j] + len[j] <= at[j + 1]
  PROVE  \A j \in k + 1 .. n : o <= at[j]
<1> DEFINE S == {i \in Nat : k + 1 + i \in k + 1 .. n => o <= at[k + 1 + i]}
<1>1. 0 \in S
  OBVIOUS
<1>2. ASSUME NEW i \in Nat, i \in S PROVE i + 1 \in S
  <2> DEFINE j == k + 1 + i
  <2>1. SUFFICES ASSUME j + 1 \in k + 1 .. n PROVE o <= at[j + 1]
    OBVIOUS
  <2>2. j \in k + 1 .. n /\ j \in k + 1 .. n - 1
    BY <2>1
  <2>3. o <= at[j]
    BY <1>2, <2>2
  <2>4. at[j] \in Nat /\ at[j + 1] \in Nat /\ len[j] \in Nat /\ at[j] + len[j] <= at[j + 1]
    BY <2>1, <2>2
  <2>5. \A x, y, l \in Nat : o <= x /\ x + l <= y => o <= y
    OBVIOUS
  <2> HIDE DEF j
  <2> QED
    BY <2>3, <2>4, <2>5
<1> HIDE DEF S
<1>3. Nat \subseteq S
  BY <1>1, <1>2, SetInduction
<1>4. ASSUME NEW j \in k + 1 .. n PROVE o <= at[j]
  <2>1. j - (k + 1) \in Nat /\ k + 1 + (j - (k + 1)) = j
    OBVIOUS
  <2>2. j - (k + 1) \in S
    BY <1>3, <2>1
  <2> QED
    BY <2>1, <2>2 DEF S
<1> QED
  BY <1>4

\* The places of the segments behind the first k, from o on up to size.
\* Occurs holds the pairs of a segment and a place where it occurs, len the
\* lengths.
PlacedFrom(b, k, n, o, size, len, Occurs) ==
  /\ o <= b[k + 1]
  /\ \A j \in k + 1 .. n : <<j, b[j]>> \in Occurs
  /\ \A j \in k + 1 .. n - 1 : b[j] + len[j] <= b[j + 1]
  /\ b[n] + len[n] = size

\* The same places counted from o, behind an empty segment.
CountedFrom(at, k, n, o, size, len, Occurs) ==
  LET r == n - k + 1
  IN  /\ at[1] = 0
      /\ \A j \in 2 .. r : <<k + j - 1, o + at[j]>> \in Occurs
      /\ \A j \in 2 .. r - 1 : at[j] + len[k + j - 1] <= at[j + 1]
      /\ at[r] + len[n] = size - o

\* There are such places if there are such counted places.
LEMMA CountedOrNot ==
  ASSUME NEW k \in Nat, NEW n \in Nat, k < n, NEW o \in Nat, NEW size \in Nat,
         NEW len \in [k + 1 .. n -> Nat], NEW Occurs,
         NEW r \in Nat, r = n - k + 1
  PROVE  (\E at \in [1 .. r -> Nat] : CountedFrom(at, k, n, o, size, len, Occurs)) <=>
         (\E b \in [k + 1 .. n -> Nat] : PlacedFrom(b, k, n, o, size, len, Occurs))
<1>1. ASSUME NEW at \in [1 .. r -> Nat],
             at[1] = 0,
             \A j \in 2 .. r : <<k + j - 1, o + at[j]>> \in Occurs,
             \A j \in 2 .. r - 1 : at[j] + len[k + j - 1] <= at[j + 1],
             at[r] + len[n] = size - o
      PROVE  \E b \in [k + 1 .. n -> Nat] : PlacedFrom(b, k, n, o, size, len, Occurs)
  <2> DEFINE b == [j \in k + 1 .. n |-> o + at[j - k + 1]]
  <2>1. \A j \in k + 1 .. n : j - k + 1 \in 2 .. r /\ j - k + 1 \in 1 .. r
                                /\ k + (j - k + 1) - 1 = j
    OBVIOUS
  <2>2. \A j \in k + 1 .. n : b[j] = o + at[j - k + 1] /\ at[j - k + 1] \in Nat
    BY <2>1
  <2>3. b \in [k + 1 .. n -> Nat]
    BY <2>2
  <2> HIDE DEF b
  <2>4. o <= b[k + 1]
    <3>1. k + 1 \in k + 1 .. n
      OBVIOUS
    <3> QED
      BY <2>2, <3>1
  <2>5. ASSUME NEW j \in k + 1 .. n PROVE <<j, b[j]>> \in Occurs
    <3>1. <<k + (j - k + 1) - 1, o + at[j - k + 1]>> \in Occurs
      BY <1>1, <2>1
    <3> QED
      BY <2>1, <2>2, <3>1
  <2>6. ASSUME NEW j \in k + 1 .. n - 1 PROVE b[j] + len[j] <= b[j + 1]
    <3>1. /\ j \in k + 1 .. n /\ j + 1 \in k + 1 .. n /\ j - k + 1 \in 2 .. r - 1
          /\ (j + 1) - k + 1 = (j - k + 1) + 1 /\ k + (j - k + 1) - 1 = j
      OBVIOUS
    <3>2. at[j - k + 1] + len[j] <= at[(j - k + 1) + 1]
      BY <1>1, <3>1
    <3>3. b[j] = o + at[j - k + 1] /\ b[j + 1] = o + at[(j - k + 1) + 1]
      BY <2>2, <3>1
    <3>4. at[j - k + 1] \in Nat /\ at[(j - k + 1) + 1] \in Nat /\ len[j] \in Nat
      BY <2>2, <3>1
    <3>5. \A x, y, l \in Nat : x + l <= y => (o + x) + l <= o + y
      OBVIOUS
    <3>6. (o + at[j - k + 1]) + len[j] <= o + at[(j - k + 1) + 1]
      BY <3>2, <3>4, <3>5
    <3> QED
      BY <3>3, <3>6
  <2>7. b[n] + len[n] = size
    <3>1. n \in k + 1 .. n /\ n - k + 1 = r
      OBVIOUS
    <3>2. b[n] = o + at[r] /\ at[r] \in Nat /\ len[n] \in Nat
      BY <2>2, <3>1
    <3>3. at[r] + len[n] = size - o
      BY <1>1
    <3>4. \A x, y \in Nat : x + y = size - o => (o + x) + y = size
      OBVIOUS
    <3>5. (o + at[r]) + len[n] = size
      BY <3>2, <3>3, <3>4
    <3> QED
      BY <3>2, <3>5
  <2> QED
    BY <2>3, <2>4, <2>5, <2>6, <2>7 DEF PlacedFrom
<1>2. ASSUME NEW b \in [k + 1 .. n -> Nat],
             o <= b[k + 1],
             \A j \in k + 1 .. n : <<j, b[j]>> \in Occurs,
             \A j \in k + 1 .. n - 1 : b[j] + len[j] <= b[j + 1],
             b[n] + len[n] = size
      PROVE  \E at \in [1 .. r -> Nat] : CountedFrom(at, k, n, o, size, len, Occurs)
  <2> DEFINE at == [j \in 1 .. r |-> IF j = 1 THEN 0 ELSE b[k + j - 1] - o]
  <2>1. \A j \in k + 1 .. n : o <= b[j]
    BY <1>2, AllFromThere
  <2>2. \A j \in 2 .. r : k + j - 1 \in k + 1 .. n /\ j \in 1 .. r /\ j # 1
    OBVIOUS
  <2>3. ASSUME NEW j \in 2 .. r
        PROVE  at[j] = b[k + j - 1] - o /\ at[j] \in Nat /\ o + at[j] = b[k + j - 1]
    <3>1. b[k + j - 1] \in Nat /\ o <= b[k + j - 1]
      BY <2>1, <2>2
    <3>2. at[j] = b[k + j - 1] - o
      BY <2>2
    <3> QED
      BY <3>1, <3>2
  <2>4. at[1] = 0 /\ \A j \in 1 .. r : j = 1 \/ j \in 2 .. r
    OBVIOUS
  <2>5. at \in [1 .. r -> Nat]
    BY <2>3, <2>4
  <2> HIDE DEF at
  <2>6. ASSUME NEW j \in 2 .. r PROVE <<k + j - 1, o + at[j]>> \in Occurs
    BY <1>2, <2>2, <2>3
  <2>7. ASSUME NEW j \in 2 .. r - 1 PROVE at[j] + len[k + j - 1] <= at[j + 1]
    <3>1. /\ k + j - 1 \in k + 1 .. n - 1 /\ k + j - 1 \in k + 1 .. n
          /\ (k + j - 1) + 1 = k + (j + 1) - 1
          /\ j \in 2 .. r /\ j + 1 \in 2 .. r
      OBVIOUS
    <3>2. b[k + j - 1] + len[k + j - 1] <= b[k + (j + 1) - 1]
      BY <1>2, <3>1
    <3>3. /\ o + at[j] = b[k + j - 1] /\ o + at[j + 1] = b[k + (j + 1) - 1]
          /\ at[j] \in Nat /\ at[j + 1] \in Nat /\ len[k + j - 1] \in Nat
      BY <2>3, <3>1
    <3>4. \A x, y, z \in Nat : (o + x) + y <= o + z => x + y <= z
      OBVIOUS
    <3>5. (o + at[j]) + len[k + j - 1] <= o + at[j + 1]
      BY <3>2, <3>3
    <3> QED
      BY <3>3, <3>4, <3>5
  <2>8. at[r] + len[n] = size - o
    <3>1. r \in 2 .. r /\ k + r - 1 = n /\ n \in k + 1 .. n
      OBVIOUS
    <3>2. o + at[r] = b[n] /\ at[r] \in Nat /\ len[n] \in Nat
      BY <2>3, <3>1
    <3>3. \A x, y \in Nat : (o + x) + y = size => x + y = size - o
      OBVIOUS
    <3>4. (o + at[r]) + len[n] = size
      BY <1>2, <3>2
    <3> QED
      BY <3>2, <3>3, <3>4
  <2> QED
    BY <2>4, <2>5, <2>6, <2>7, <2>8 DEF CountedFrom
<1> QED
  BY <1>1, <1>2 DEF CountedFrom, PlacedFrom

\* The entries of a concatenation.
LEMMA Concatenated ==
  ASSUME NEW S, NEW a \in Seq(S), NEW b \in Seq(S)
  PROVE  /\ a \o b \in Seq(S)
         /\ Len(a \o b) = Len(a) + Len(b)
         /\ \A i \in 1 .. Len(a) : (a \o b)[i] = a[i]
         /\ \A i \in Len(a) + 1 .. Len(a) + Len(b) : (a \o b)[i] = b[i - Len(a)]
OBVIOUS

\* The rest of a pattern behind a star: no segment, then those behind the first
\* k.
LEMMA RestOfPattern ==
  ASSUME NEW L, NEW segments \in Seq(Seq(L)), NEW k \in 1 .. Len(segments) - 1
  PROVE  LET rest == <<<<>>>> \o After(segments, k)
             r    == Len(segments) - k + 1
         IN  /\ rest \in Seq(Seq(L)) /\ rest # <<>> /\ Len(rest) = r
             /\ rest[1] = <<>>
             /\ \A j \in 2 .. r : rest[j] = segments[k + j - 1]
<1> DEFINE n == Len(segments)
           head == <<<<>>>>
           tail == After(segments, k)
<1>1. n \in Nat /\ k \in 1 .. n - 1
  OBVIOUS
<1>2. /\ tail \in Seq(Seq(L)) /\ Len(tail) = n - k
      /\ \A j \in 1 .. n - k : tail[j] = segments[k + j]
  <2>1. k \in 0 .. Len(segments)
    BY <1>1
  <2>2. /\ After(segments, k) \in Seq(Seq(L))
        /\ Len(After(segments, k)) = Len(segments) - k
        /\ \A i \in 1 .. Len(segments) - k : After(segments, k)[i] = segments[k + i]
    BY <2>1, AfterWord
  <2> QED
    BY <2>2
<1>3. <<>> \in Seq(L)
  OBVIOUS
<1>4. head \in Seq(Seq(L)) /\ Len(head) = 1 /\ head[1] = <<>>
  BY <1>3
<1> HIDE DEF tail, head, n
<1>5. /\ head \o tail \in Seq(Seq(L)) /\ Len(head \o tail) = n - k + 1
      /\ (head \o tail)[1] = <<>>
      /\ \A j \in 2 .. n - k + 1 : (head \o tail)[j] = tail[j - 1]
  <2>1. /\ head \o tail \in Seq(Seq(L)) /\ Len(head \o tail) = 1 + (n - k)
        /\ \A i \in 1 .. 1 : (head \o tail)[i] = head[i]
        /\ \A i \in 1 + 1 .. 1 + (n - k) : (head \o tail)[i] = tail[i - 1]
    <3> DEFINE S == Seq(L)
    <3>1. head \in Seq(S) /\ tail \in Seq(S)
      BY <1>2, <1>4
    <3> HIDE DEF S
    <3>2. /\ head \o tail \in Seq(S)
          /\ Len(head \o tail) = Len(head) + Len(tail)
          /\ \A i \in 1 .. Len(head) : (head \o tail)[i] = head[i]
          /\ \A i \in Len(head) + 1 .. Len(head) + Len(tail) :
               (head \o tail)[i] = tail[i - Len(head)]
      BY <3>1, Concatenated
    <3> QED
      BY <1>2, <1>4, <3>2 DEF S
  <2>2. 1 + (n - k) = n - k + 1 /\ 1 + 1 = 2 /\ 1 \in 1 .. 1
    BY <1>1
  <2> QED
    BY <1>4, <2>1, <2>2
<1>6. ASSUME NEW j \in 2 .. n - k + 1 PROVE (head \o tail)[j] = segments[k + j - 1]
  <2>1. j - 1 \in 1 .. n - k /\ k + (j - 1) = k + j - 1
    BY <1>1
  <2>2. (head \o tail)[j] = tail[j - 1] /\ tail[j - 1] = segments[k + (j - 1)]
    BY <1>2, <1>5, <2>1
  <2> QED
    BY <2>1, <2>2
<1>7. head \o tail # <<>>
  BY <1>1, <1>5
<1> QED
  BY <1>5, <1>6, <1>7 DEF head, tail, n

\* It means the rest of a value exactly if the segments occur from there on.
LEMMA MeaningOfRest ==
  ASSUME NEW L, NEW segments \in Seq(Seq(L)), NEW str \in Seq(L),
         NEW k \in 1 .. Len(segments) - 1, NEW o \in 0 .. Len(str)
  PROVE  Means(<<<<>>>> \o After(segments, k), After(str, o)) <=>
           EndsFrom(segments, str, k, o)
<1> DEFINE n == Len(segments)
           rest == <<<<>>>> \o After(segments, k)
           left == After(str, o)
           size == Len(str)
           r == n - k + 1
           len == [j \in k + 1 .. n |-> Len(segments[j])]
           Occurs == {p \in (k + 1 .. n) \X Nat : OccursAt(segments[p[1]], str, p[2])}
<1>1. /\ n \in Nat /\ k \in Nat /\ k < n /\ k >= 1 /\ o \in Nat /\ size \in Nat
      /\ r \in Nat /\ r = n - k + 1 /\ r >= 2
  OBVIOUS
<1>2. \A j \in k + 1 .. n : segments[j] \in Seq(L) /\ Len(segments[j]) \in Nat
  BY <1>1
<1>3. len \in [k + 1 .. n -> Nat] /\ \A j \in k + 1 .. n : len[j] = Len(segments[j])
  BY <1>2
<1>4. \A j \in k + 1 .. n, m \in Nat : <<j, m>> \in Occurs <=> OccursAt(segments[j], str, m)
  OBVIOUS
<1>5. rest \in Seq(Seq(L)) /\ rest # <<>> /\ Len(rest) = r /\ rest[1] = <<>>
  BY RestOfPattern
<1>6. \A j \in 2 .. r : rest[j] = segments[k + j - 1]
  BY RestOfPattern
<1>7. left \in Seq(L) /\ Len(left) = size - o
  BY AfterWord
<1>8. \A segment \in Seq(L), m \in Nat :
        OccursAt(segment, left, m) <=> OccursAt(segment, str, o + m)
  BY AfterWord
<1>9. Means(rest, left) <=> \E at \in [1 .. r -> Nat] : Placed(rest, left, at)
  BY <1>5, <1>7, MeansByOccurrence
<1>10. \A at : Placed(rest, left, at) <=>
         /\ at[1] = 0
         /\ \A j \in 1 .. r : OccursAt(rest[j], left, at[j])
         /\ \A j \in 1 .. r - 1 : at[j] + Len(rest[j]) <= at[j + 1]
         /\ at[r] + Len(rest[r]) = size - o
  BY <1>5, <1>7 DEF Placed
<1>11. EndsFrom(segments, str, k, o) <=>
         \E b \in [k + 1 .. n -> Nat] :
           /\ o <= b[k + 1]
           /\ \A j \in k + 1 .. n : OccursAt(segments[j], str, b[j])
           /\ \A j \in k + 1 .. n - 1 : b[j] + Len(segments[j]) <= b[j + 1]
           /\ b[n] + Len(segments[n]) = size
  BY DEF EndsFrom
<1> HIDE DEF n, rest, left, size, len, Occurs
<1>12. ASSUME NEW b \in [k + 1 .. n -> Nat]
       PROVE  PlacedFrom(b, k, n, o, size, len, Occurs) <=>
                /\ o <= b[k + 1]
                /\ \A j \in k + 1 .. n : OccursAt(segments[j], str, b[j])
                /\ \A j \in k + 1 .. n - 1 : b[j] + Len(segments[j]) <= b[j + 1]
                /\ b[n] + Len(segments[n]) = size
  <2>1. \A j \in k + 1 .. n : <<j, b[j]>> \in Occurs <=> OccursAt(segments[j], str, b[j])
    BY <1>4
  <2>2. n \in k + 1 .. n /\ \A j \in k + 1 .. n - 1 : j \in k + 1 .. n
    BY <1>1
  <2> QED
    BY <1>3, <2>1, <2>2 DEF PlacedFrom
<1>13. ASSUME NEW at \in [1 .. r -> Nat]
       PROVE  CountedFrom(at, k, n, o, size, len, Occurs) <=> Placed(rest, left, at)
  <2> DEFINE Counted == CountedFrom(at, k, n, o, size, len, Occurs)
  <2>8. Counted <=> /\ at[1] = 0
                    /\ \A j \in 2 .. r : <<k + j - 1, o + at[j]>> \in Occurs
                    /\ \A j \in 2 .. r - 1 : at[j] + len[k + j - 1] <= at[j + 1]
                    /\ at[r] + len[n] = size - o
    BY DEF CountedFrom
  <2> HIDE DEF Counted, r
  <2>1. ASSUME NEW j \in 2 .. r
        PROVE  /\ <<k + j - 1, o + at[j]>> \in Occurs <=> OccursAt(rest[j], left, at[j])
               /\ len[k + j - 1] = Len(rest[j])
    <3>1. k + j - 1 \in k + 1 .. n /\ at[j] \in Nat
      BY <1>1
    <3>2. o + at[j] \in Nat
      BY <1>1, <3>1
    <3>3. rest[j] = segments[k + j - 1] /\ segments[k + j - 1] \in Seq(L)
      BY <1>2, <1>6, <3>1
    <3> QED
      BY <1>3, <1>4, <1>8, <3>1, <3>2, <3>3
  <2>2. r \in 2 .. r /\ len[n] = Len(rest[r])
    <3>1. r \in 2 .. r /\ k + r - 1 = n
      BY <1>1
    <3> QED
      BY <2>1, <3>1
  <2>3. at[1] = 0 => OccursAt(rest[1], left, at[1])
    <3>1. Len(rest[1]) = 0 /\ 0 <= Len(left)
      BY <1>5, <1>7
    <3> QED
      BY <3>1 DEF OccursAt
  <2>4. at[1] = 0 => at[1] + Len(rest[1]) <= at[1 + 1]
    <3>1. Len(rest[1]) = 0 /\ 1 + 1 \in 1 .. r
      BY <1>1, <1>5
    <3>2. at[1 + 1] \in Nat
      BY <3>1
    <3> QED
      BY <3>1, <3>2
  <2>5. /\ \A j \in 2 .. r : j \in 1 .. r
        /\ \A j \in 2 .. r - 1 : j \in 1 .. r - 1 /\ j \in 2 .. r
        /\ \A j \in 1 .. r : j = 1 \/ j \in 2 .. r
        /\ \A j \in 1 .. r - 1 : j = 1 \/ j \in 2 .. r - 1
    BY <1>1
  <2>6. ASSUME Counted PROVE Placed(rest, left, at)
    <3>1. \A j \in 1 .. r : OccursAt(rest[j], left, at[j])
      BY <2>1, <2>3, <2>5, <2>6, <2>8
    <3>2. \A j \in 1 .. r - 1 : at[j] + Len(rest[j]) <= at[j + 1]
      BY <2>1, <2>4, <2>5, <2>6, <2>8
    <3>3. at[1] = 0 /\ at[r] + Len(rest[r]) = size - o
      BY <2>2, <2>6, <2>8
    <3> QED
      BY <1>10, <3>1, <3>2, <3>3
  <2>7. ASSUME Placed(rest, left, at) PROVE Counted
    <3>1. \A j \in 2 .. r : <<k + j - 1, o + at[j]>> \in Occurs
      BY <1>10, <2>1, <2>5, <2>7
    <3>2. \A j \in 2 .. r - 1 : at[j] + len[k + j - 1] <= at[j + 1]
      BY <1>10, <2>1, <2>5, <2>7
    <3>3. at[1] = 0 /\ at[r] + Len(rest[r]) = size - o
      BY <1>10, <2>7
    <3> QED
      BY <2>2, <2>8, <3>1, <3>2, <3>3
  <2> QED
    BY <2>6, <2>7 DEF Counted
<1> HIDE DEF r
<1>14. (\E at \in [1 .. r -> Nat] : CountedFrom(at, k, n, o, size, len, Occurs)) <=>
       (\E b \in [k + 1 .. n -> Nat] : PlacedFrom(b, k, n, o, size, len, Occurs))
  BY <1>1, <1>3, CountedOrNot, ZenonT(40)
<1>15. Means(rest, left) <=> EndsFrom(segments, str, k, o)
  BY <1>9, <1>11, <1>12, <1>13, <1>14
<1> QED
  BY <1>15 DEF rest, left

-----------------------------------------------------------------------------
(* The cuts, one after the other.                                          *)

\* The recursion of CutTo has a solution, as each cut is made from the one
\* before it.
LEMMA CutByCut ==
  ASSUME NEW L, NEW pattern \in Seq(Seq(L)), NEW str, pattern # <<>>
  PROVE  /\ CutTo(pattern, str, 1) = CutFirst(pattern[1], str)
         /\ \A k \in 1 .. Len(pattern) - 1 :
              CutTo(pattern, str, k + 1) = CutSegment(CutTo(pattern, str, k), pattern[k + 1])
<1> DEFINE n == Len(pattern)
           Next(f, j) == IF j = 1 THEN CutFirst(pattern[1], str)
                         ELSE CutSegment(f[j - 1], pattern[j])
           S == {i \in Nat : \E f : f = [j \in 1 .. i |-> Next(f, j)]}
           cut == CHOOSE f : f = [j \in 1 .. n |-> Next(f, j)]
<1>1. n \in Nat /\ n >= 1 /\ DOMAIN pattern = 1 .. n
  OBVIOUS
<1>2. 0 \in S
  <2> DEFINE f == [j \in 1 .. 0 |-> 0]
  <2>1. f = [j \in 1 .. 0 |-> Next(f, j)]
    OBVIOUS
  <2> QED
    BY <2>1
<1>3. ASSUME NEW i \in Nat, i \in S PROVE i + 1 \in S
  <2>1. PICK f : f = [j \in 1 .. i |-> Next(f, j)]
    BY <1>3
  <2> DEFINE g == [j \in 1 .. i + 1 |-> Next(f, j)]
  <2>2. ASSUME NEW j \in 1 .. i + 1 PROVE Next(f, j) = Next(g, j)
    <3>1. CASE j = 1
      BY <3>1
    <3>2. CASE j # 1
      <4>1. j - 1 \in 1 .. i /\ j - 1 \in 1 .. i + 1
        BY <3>2
      <4>2. g[j - 1] = Next(f, j - 1)
        BY <4>1
      <4>3. f[j - 1] = Next(f, j - 1)
        <5> HIDE DEF Next
        <5> QED
          BY <2>1, <4>1
      <4>4. f[j - 1] = g[j - 1]
        BY <4>2, <4>3
      <4> HIDE DEF g
      <4> QED
        BY <3>2, <4>4
    <3> QED
      BY <3>1, <3>2
  <2> HIDE DEF Next
  <2>3. g = [j \in 1 .. i + 1 |-> Next(g, j)]
    BY <2>2
  <2> HIDE DEF g
  <2>4. \E h : h = [j \in 1 .. i + 1 |-> Next(h, j)]
    BY <2>3
  <2> QED
    BY <2>4
<1>4. Nat \subseteq S
  <2> HIDE DEF S
  <2> QED
    BY <1>2, <1>3, SetInduction
<1>5. \E f : f = [j \in 1 .. n |-> Next(f, j)]
  BY <1>1, <1>4
<1>6. cut = [j \in 1 .. n |-> Next(cut, j)]
  <2> HIDE DEF Next
  <2> QED
    BY <1>5
<1>7. \A k : CutTo(pattern, str, k) = cut[k]
  BY <1>1 DEF CutTo
<1> HIDE DEF cut
<1>8. cut[1] = CutFirst(pattern[1], str)
  <2>1. cut[1] = Next(cut, 1)
    <3>1. 1 \in 1 .. n
      BY <1>1
    <3> HIDE DEF Next, S
    <3> QED
      BY <1>6, <3>1
  <2> QED
    BY <2>1
<1>9. ASSUME NEW k \in 1 .. n - 1 PROVE cut[k + 1] = CutSegment(cut[k], pattern[k + 1])
  <2>1. k + 1 \in 1 .. n /\ k + 1 # 1 /\ (k + 1) - 1 = k
    BY <1>1
  <2>2. cut[k + 1] = Next(cut, k + 1)
    <3> HIDE DEF Next
    <3> QED
      BY <1>6, <2>1
  <2> QED
    BY <2>1, <2>2
<1> QED
  BY <1>7, <1>8, <1>9

\* A cut is right: the segments so far are found if they occur one after the
\* other from the start, and it is made at the first place where they end.
RightCut(segments, str, k, cut) ==
  /\ cut.found =>
       \E o \in 0 .. Len(str) :
         /\ cut.left = After(str, o)
         /\ StartsUpTo(segments, str, k, o)
         /\ \A e \in Nat : StartsUpTo(segments, str, k, e) => o <= e
  /\ ~cut.found => \A e \in Nat : ~StartsUpTo(segments, str, k, e)

CutTypes(L) == [found : BOOLEAN, left : Seq(L)]

\* The first cut is right.
LEMMA FirstCutRight ==
  ASSUME NEW L, NEW segments \in Seq(Seq(L)), segments # <<>>, NEW str \in Seq(L)
  PROVE  /\ CutFirst(segments[1], str) \in CutTypes(L)
         /\ RightCut(segments, str, 1, CutFirst(segments[1], str))
<1> DEFINE first == segments[1]
           cut == CutFirst(first, str)
<1>1. first \in Seq(L) /\ Len(first) \in Nat /\ Len(str) \in Nat
  OBVIOUS
<1>2. /\ cut.found = IsPrefix(first, str)
      /\ cut.left = After(str, Len(first))
      /\ cut = [found |-> IsPrefix(first, str), left |-> After(str, Len(first))]
  BY DEF CutFirst
<1>3. IsPrefix(first, str) \in BOOLEAN
  BY DEF IsPrefix
<1>4. After(str, Len(first)) \in Seq(L)
  BY <1>1 DEF After
<1>5. cut \in CutTypes(L)
  BY <1>2, <1>3, <1>4 DEF CutTypes
<1> HIDE DEF first, cut
<1>6. /\ IsPrefix(first, str) <=> OccursAt(first, str, 0)
      /\ \A e \in Nat : StartsUpTo(segments, str, 1, e) <=>
                          IsPrefix(first, str) /\ e = Len(first)
  BY <1>1, FirstSegment DEF first
<1>7. ASSUME cut.found
      PROVE  \E o \in 0 .. Len(str) :
               /\ cut.left = After(str, o)
               /\ StartsUpTo(segments, str, 1, o)
               /\ \A e \in Nat : StartsUpTo(segments, str, 1, e) => o <= e
  <2>1. IsPrefix(first, str)
    BY <1>2, <1>7
  <2>2. Len(first) \in 0 .. Len(str)
    BY <1>1, <1>6, <2>1 DEF OccursAt
  <2>3. StartsUpTo(segments, str, 1, Len(first))
    BY <1>1, <1>6, <2>1
  <2>4. \A e \in Nat : StartsUpTo(segments, str, 1, e) => Len(first) <= e
    BY <1>1, <1>6
  <2> QED
    BY <1>2, <2>2, <2>3, <2>4
<1>8. RightCut(segments, str, 1, cut)
  BY <1>2, <1>6, <1>7 DEF RightCut
<1> QED
  BY <1>5, <1>8 DEF cut, first

\* A right cut stays right when another segment is cut.
LEMMA NextCutRight ==
  ASSUME NEW L, NEW segments \in Seq(Seq(L)), NEW str \in Seq(L),
         NEW k \in 1 .. Len(segments) - 1,
         NEW cut \in CutTypes(L), RightCut(segments, str, k, cut)
  PROVE  /\ CutSegment(cut, segments[k + 1]) \in CutTypes(L)
         /\ RightCut(segments, str, k + 1, CutSegment(cut, segments[k + 1]))
<1> DEFINE segment == segments[k + 1]
           next == CutSegment(cut, segment)
           Here(e) == StartsUpTo(segments, str, k, e)
           Beyond(e) == StartsUpTo(segments, str, k + 1, e)
<1>1. segment \in Seq(L) /\ Len(segment) \in Nat /\ Len(str) \in Nat
  OBVIOUS
<1>2. ASSUME NEW e2 \in Nat
      PROVE  Beyond(e2) <=> \E e, m \in Nat : /\ Here(e) /\ e <= m
                                              /\ OccursAt(segment, str, m)
                                              /\ e2 = m + Len(segment)
  BY OneSegmentMore
<1> HIDE DEF segment, Here, Beyond
<1>3. /\ cut.found => \E o \in 0 .. Len(str) :
           /\ cut.left = After(str, o) /\ Here(o)
           /\ \A e \in Nat : Here(e) => o <= e
      /\ ~cut.found => \A e \in Nat : ~Here(e)
  BY DEF RightCut, Here
<1>4. cut.found \in BOOLEAN /\ cut.left \in Seq(L)
  BY DEF CutTypes
<1>5. CASE cut.found /\ Occurrences(segment, cut.left) # {}
  <2>1. PICK o \in 0 .. Len(str) : /\ cut.left = After(str, o) /\ Here(o)
                                   /\ \A e \in Nat : Here(e) => o <= e
    BY <1>3, <1>5
  <2>2. PICK m \in Nat : /\ m = Index(segment, cut.left)
                         /\ OccursAt(segment, cut.left, m)
                         /\ \A n \in Nat : OccursAt(segment, cut.left, n) => m <= n
    BY <1>1, <1>4, <1>5, IndexIsLeftmost
  <2>3. next = [found |-> cut.found, left |-> After(cut.left, m + Len(segment))]
    BY <1>5, <2>2 DEF CutSegment, CutTypes
  <2>4. /\ Len(cut.left) = Len(str) - o /\ o \in Nat
        /\ \A n \in Nat : OccursAt(segment, cut.left, n) <=> OccursAt(segment, str, o + n)
        /\ \A n \in 0 .. Len(str) - o : After(cut.left, n) = After(str, o + n)
    <3> DEFINE w == After(str, o)
    <3>1. /\ Len(w) = Len(str) - o
          /\ \A s \in Seq(L), n \in Nat : OccursAt(s, w, n) <=> OccursAt(s, str, o + n)
          /\ \A n \in 0 .. Len(str) - o : After(w, n) = After(str, o + n)
      BY AfterWord
    <3>2. w = cut.left
      BY <2>1
    <3> HIDE DEF w
    <3> QED
      BY <1>1, <3>1, <3>2
  <2>12. PICK l \in Nat, size \in Nat : l = Len(segment) /\ size = Len(str)
    BY <1>1
  <2> DEFINE e2 == o + m + l
  <2>5. m + l <= Len(str) - o /\ m + l <= size - o
    BY <2>2, <2>4, <2>12 DEF OccursAt
  <2>6. /\ m + l \in 0 .. Len(str) - o /\ e2 \in 0 .. Len(str) /\ o + (m + l) = e2
        /\ e2 \in Nat /\ o + m \in Nat /\ o <= o + m /\ e2 = (o + m) + l
    <3>1. o \in Nat /\ Len(str) = size /\ m + l <= size - o
      BY <2>4, <2>5, <2>12
    <3>2. m + l \in 0 .. size - o /\ e2 \in 0 .. size /\ o + (m + l) = e2 /\ e2 \in Nat
      BY <3>1
    <3>3. o + m \in Nat /\ o <= o + m /\ e2 = (o + m) + l
      BY <3>1
    <3> QED
      BY <3>1, <3>2, <3>3
  <2>7. next.found /\ next.left = After(str, e2)
    BY <1>5, <2>3, <2>4, <2>6, <2>12
  <2>8. next \in CutTypes(L)
    <3>1. After(str, e2) \in Seq(L)
      BY <2>6, AfterWord
    <3> QED
      BY <1>4, <2>3, <2>7, <3>1 DEF CutTypes
  <2>9. Beyond(e2)
    BY <1>2, <2>1, <2>2, <2>4, <2>6, <2>12
  <2>10. ASSUME NEW e3 \in Nat, Beyond(e3) PROVE e2 <= e3
    <3>1. PICK e \in Nat, p \in Nat : Here(e) /\ e <= p /\ OccursAt(segment, str, p) /\ e3 = p + l
      BY <1>2, <2>10, <2>12
    <3>2. o <= e /\ o <= p
      BY <2>1, <2>4, <3>1
    <3>3. PICK n \in Nat : o + n = p
      <4>1. p - o \in Nat /\ o + (p - o) = p
        BY <2>4, <3>2
      <4> QED
        BY <4>1
    <3>4. m <= n
      BY <2>2, <2>4, <3>1, <3>3
    <3> QED
      BY <2>4, <3>1, <3>3, <3>4
  <2> HIDE DEF next, e2
  <2>11. RightCut(segments, str, k + 1, next)
    BY <2>6, <2>7, <2>9, <2>10 DEF RightCut, Beyond
  <2> QED
    BY <2>8, <2>11 DEF next, segment
<1>6. CASE ~(cut.found /\ Occurrences(segment, cut.left) # {})
  <2>1. next = [found |-> FALSE, left |-> cut.left]
    BY <1>6 DEF CutSegment, CutTypes
  <2>2. next \in CutTypes(L) /\ ~next.found
    BY <1>4, <2>1 DEF CutTypes
  <2>3. ASSUME NEW e2 \in Nat, Beyond(e2) PROVE FALSE
    <3>1. PICK e \in Nat, p \in Nat : Here(e) /\ e <= p /\ OccursAt(segment, str, p)
      BY <1>2, <2>3
    <3>2. cut.found
      BY <1>3, <3>1
    <3>3. PICK o \in 0 .. Len(str) : cut.left = After(str, o) /\ o <= e
      BY <1>3, <3>1, <3>2
    <3>4. PICK n \in Nat : o + n = p
      <4>1. o \in Nat /\ p - o \in Nat /\ o + (p - o) = p
        BY <3>1, <3>3
      <4> QED
        BY <4>1
    <3>5. OccursAt(segment, cut.left, n)
      <4>1. OccursAt(segment, After(str, o), n) <=> OccursAt(segment, str, o + n)
        BY <1>1, AfterWord
      <4> QED
        BY <3>1, <3>3, <3>4, <4>1
    <3>6. n \in Occurrences(segment, cut.left)
      BY <1>1, <1>4, <3>5, OccurrencesOf, ZenonT(40)
    <3> QED
      BY <1>6, <3>2, <3>6
  <2> HIDE DEF next
  <2>4. RightCut(segments, str, k + 1, next)
    BY <2>2, <2>3 DEF RightCut, Beyond
  <2> QED
    BY <2>2, <2>4 DEF next, segment
<1> QED
  BY <1>5, <1>6

\* Every cut is right.
LEMMA CutsRight ==
  ASSUME NEW L, NEW segments \in Seq(Seq(L)), segments # <<>>, NEW str \in Seq(L),
         NEW k \in 1 .. Len(segments)
  PROVE  /\ CutTo(segments, str, k) \in CutTypes(L)
         /\ RightCut(segments, str, k, CutTo(segments, str, k))
<1> DEFINE n == Len(segments)
           Right(j) == /\ CutTo(segments, str, j) \in CutTypes(L)
                       /\ RightCut(segments, str, j, CutTo(segments, str, j))
           S == {i \in Nat : i + 1 \in 1 .. n => Right(i + 1)}
<1>1. n \in Nat /\ n >= 1
  OBVIOUS
<1>2. Right(1)
  BY CutByCut, FirstCutRight
<1>3. ASSUME NEW j \in 1 .. n - 1, Right(j) PROVE Right(j + 1)
  <2>1. CutTo(segments, str, j + 1) = CutSegment(CutTo(segments, str, j), segments[j + 1])
    BY <1>3, CutByCut
  <2> QED
    BY <1>3, <2>1, NextCutRight
<1> HIDE DEF Right, n
<1>4. 0 \in S
  BY <1>2
<1>5. ASSUME NEW i \in Nat, i \in S PROVE i + 1 \in S
  <2>1. SUFFICES ASSUME i + 1 + 1 \in 1 .. n PROVE Right(i + 1 + 1)
    OBVIOUS
  <2>2. i + 1 \in 1 .. n /\ i + 1 \in 1 .. n - 1
    BY <1>1, <2>1
  <2> QED
    BY <1>3, <1>5, <2>2
<1> HIDE DEF S
<1>6. Nat \subseteq S
  BY <1>4, <1>5, SetInduction
<1>7. k - 1 \in Nat /\ (k - 1) + 1 = k /\ k \in 1 .. n
  BY DEF n
<1>8. k - 1 \in S
  BY <1>6, <1>7
<1>9. Right(k)
  BY <1>7, <1>8 DEF S
<1> QED
  BY <1>9 DEF Right

\* A pattern means a value exactly if the first k segments can be cut, and the
\* others occur behind the cut.
LEMMA EndsBehindTheCut ==
  ASSUME NEW L, NEW segments \in Seq(Seq(L)), NEW str \in Seq(L),
         NEW k \in 1 .. Len(segments) - 1
  PROVE  LET cut == CutTo(segments, str, k)
         IN  /\ cut \in CutTypes(L)
             /\ ~cut.found => ~Means(segments, str)
             /\ cut.found =>
                  \E o \in 0 .. Len(str) :
                    /\ cut.left = After(str, o)
                    /\ Means(segments, str) <=> EndsFrom(segments, str, k, o)
<1> DEFINE cut == CutTo(segments, str, k)
<1>1. k \in 1 .. Len(segments) /\ segments # <<>>
  OBVIOUS
<1>2. cut \in CutTypes(L) /\ RightCut(segments, str, k, cut)
  BY <1>1, CutsRight
<1>3. Means(segments, str) <=>
        \E e \in Nat : StartsUpTo(segments, str, k, e) /\ EndsFrom(segments, str, k, e)
  BY MeansInTwoParts
<1> HIDE DEF cut
<1>4. ~cut.found => ~Means(segments, str)
  BY <1>2, <1>3 DEF RightCut
<1>5. ASSUME cut.found
      PROVE  \E o \in 0 .. Len(str) :
               /\ cut.left = After(str, o)
               /\ Means(segments, str) <=> EndsFrom(segments, str, k, o)
  <2>1. PICK o \in 0 .. Len(str) :
          /\ cut.left = After(str, o)
          /\ StartsUpTo(segments, str, k, o)
          /\ \A e \in Nat : StartsUpTo(segments, str, k, e) => o <= e
    BY <1>2, <1>5 DEF RightCut
  <2>2. o \in Nat
    OBVIOUS
  <2>3. EndsFrom(segments, str, k, o) => Means(segments, str)
    BY <1>3, <2>1, <2>2
  <2>4. ASSUME NEW e \in Nat, o <= e, EndsFrom(segments, str, k, e)
        PROVE  EndsFrom(segments, str, k, o)
    <3> DEFINE n == Len(segments)
               T == [k + 1 .. n -> Nat]
               Rest(at) ==
                 /\ \A j \in k + 1 .. n : OccursAt(segments[j], str, at[j])
                 /\ \A j \in k + 1 .. n - 1 : at[j] + Len(segments[j]) <= at[j + 1]
                 /\ at[n] + Len(segments[n]) = Len(str)
    <3>1. \A x \in Nat : EndsFrom(segments, str, k, x) <=>
                           \E at \in T : x <= at[k + 1] /\ Rest(at)
      BY DEF EndsFrom
    <3>2. \A at \in T : at[k + 1] \in Nat
      <4>1. k + 1 \in k + 1 .. n
        OBVIOUS
      <4> QED
        BY <4>1
    <3>3. \A x \in Nat : e <= x => o <= x
      BY <2>2, <2>4
    <3> HIDE DEF T, Rest
    <3>4. PICK at \in T : e <= at[k + 1] /\ Rest(at)
      BY <2>4, <3>1
    <3>5. o <= at[k + 1]
      BY <3>2, <3>3, <3>4
    <3> QED
      BY <2>2, <3>1, <3>4, <3>5
  <2>5. Means(segments, str) => EndsFrom(segments, str, k, o)
    BY <1>3, <2>1, <2>4
  <2> QED
    BY <2>1, <2>3, <2>5
<1> QED
  BY <1>2, <1>4, <1>5 DEF cut

\* No cut is ever regretted: what is left of a pattern behind a star means what
\* is left of the value exactly if the whole means the whole.
THEOREM CutsNotRegretted ==
  ASSUME NEW L, NEW segments \in Seq(Seq(L)), NEW str \in Seq(L),
         NEW k \in 1 .. Len(segments) - 1
  PROVE  LET cut  == CutTo(segments, str, k)
             rest == <<<<>>>> \o After(segments, k)
         IN  Means(segments, str) <=> cut.found /\ Means(rest, cut.left)
<1> DEFINE cut == CutTo(segments, str, k)
           rest == <<<<>>>> \o After(segments, k)
<1>1. ~cut.found => ~Means(segments, str)
  BY EndsBehindTheCut
<1>2. cut.found =>
        \E o \in 0 .. Len(str) :
          /\ cut.left = After(str, o)
          /\ Means(segments, str) <=> EndsFrom(segments, str, k, o)
  BY EndsBehindTheCut
<1>3. \A o \in 0 .. Len(str) :
        Means(rest, After(str, o)) <=> EndsFrom(segments, str, k, o)
  BY MeaningOfRest
<1> HIDE DEF cut, rest
<1>4. Means(segments, str) <=> cut.found /\ Means(rest, cut.left)
  BY <1>1, <1>2, <1>3
<1> QED
  BY <1>4 DEF cut, rest

-----------------------------------------------------------------------------
(* The last segment.                                                       *)

\* A word ends a value exactly if it occurs that far before its end.
LEMMA SuffixOccurs ==
  ASSUME NEW L, NEW word \in Seq(L), NEW str \in Seq(L)
  PROVE  IsSuffix(word, str) <=>
           /\ Len(word) <= Len(str)
           /\ OccursAt(word, str, Len(str) - Len(word))
<1> DEFINE m == Len(word)
           n == Len(str)
           w == [i \in 1 .. m |-> word[m - i + 1]]
           s == [i \in 1 .. n |-> str[n - i + 1]]
<1>1. m \in Nat /\ n \in Nat
  OBVIOUS
<1>2. Reverse(word) = w /\ Reverse(str) = s
  BY DEF Reverse
<1>3. /\ \A i \in 1 .. m : m - i + 1 \in 1 .. m
      /\ \A i \in 1 .. n : n - i + 1 \in 1 .. n
  OBVIOUS
<1>4. /\ w \in Seq(L) /\ Len(w) = m /\ \A i \in 1 .. m : w[i] = word[m - i + 1]
      /\ s \in Seq(L) /\ Len(s) = n /\ \A i \in 1 .. n : s[i] = str[n - i + 1]
  BY <1>1, <1>3
<1> HIDE DEF w, s
<1>5. IsPrefix(w, s) <=> m <= n /\ \A i \in 1 .. m : w[i] = s[i]
  <2>1. m <= n => SubSeq(s, 1, m) \in Seq(L) /\ Len(SubSeq(s, 1, m)) = m
                    /\ \A i \in 1 .. m : SubSeq(s, 1, m)[i] = s[i]
    BY <1>1, <1>4
  <2>2. /\ SubSeq(w, 1, m) \in Seq(L) /\ Len(SubSeq(w, 1, m)) = m
        /\ \A i \in 1 .. m : SubSeq(w, 1, m)[i] = w[i]
    BY <1>1, <1>4
  <2>3. m <= n /\ (\A i \in 1 .. m : w[i] = s[i]) => SubSeq(w, 1, m) = SubSeq(s, 1, m)
    BY <1>1, <2>1, <2>2
  <2> QED
    BY <1>4, <2>1, <2>2, <2>3 DEF IsPrefix
<1>6. ASSUME m <= n
      PROVE  (\A i \in 1 .. m : w[i] = s[i]) <=>
               \A i \in 1 .. m : str[n - m + i] = word[i]
  <2>1. \A i \in 1 .. m : m - i + 1 \in 1 .. m /\ i \in 1 .. n
                            /\ n - i + 1 = n - m + (m - i + 1)
                            /\ m - (m - i + 1) + 1 = i
    BY <1>1, <1>6
  <2>2. \A i \in 1 .. m : w[i] = word[m - i + 1] /\ s[i] = str[n - m + (m - i + 1)]
    BY <1>4, <2>1
  <2>3. (\A i \in 1 .. m : str[n - m + i] = word[i]) => \A i \in 1 .. m : w[i] = s[i]
    BY <2>1, <2>2
  <2>4. ASSUME \A i \in 1 .. m : w[i] = s[i], NEW i \in 1 .. m
        PROVE  str[n - m + i] = word[i]
    <3> DEFINE j == m - i + 1
    <3>1. j \in 1 .. m /\ m - j + 1 = i
      BY <2>1
    <3> HIDE DEF j
    <3> QED
      BY <2>2, <2>4, <3>1
  <2> QED
    BY <2>3, <2>4
<1>7. m <= n => n - m + m <= n
  BY <1>1
<1>8. m <= n => (OccursAt(word, str, n - m) <=> \A i \in 1 .. m : str[n - m + i] = word[i])
  BY <1>1, <1>7 DEF OccursAt
<1> QED
  BY <1>2, <1>5, <1>6, <1>8 DEF IsSuffix

\* The segments behind all but the last are found if it ends what is left.
LEMMA LastSegment ==
  ASSUME NEW L, NEW segments \in Seq(Seq(L)), NEW str \in Seq(L),
         Len(segments) > 1, NEW o \in 0 .. Len(str)
  PROVE  IsSuffix(Last(segments), After(str, o)) <=>
           EndsFrom(segments, str, Len(segments) - 1, o)
<1> DEFINE n == Len(segments)
           word == segments[n]
           m == Len(word)
           size == Len(str)
           left == After(str, o)
           Occurs(i) == OccursAt(word, str, i)
<1>1. /\ n \in Nat /\ n > 1 /\ size \in Nat /\ o \in Nat /\ o <= size
      /\ word \in Seq(L) /\ m \in Nat
  OBVIOUS
<1>2. /\ left \in Seq(L) /\ Len(left) = size - o
      /\ \A i \in Nat : OccursAt(word, left, i) <=> Occurs(o + i)
  BY <1>1, AfterWord
<1>3. Last(segments) = word
  BY DEF Last
<1>4. IsSuffix(word, left) <=> m <= size - o /\ OccursAt(word, left, size - o - m)
  BY <1>1, <1>2, SuffixOccurs
<1>5. EndsFrom(segments, str, n - 1, o) <=>
        \E at \in [n .. n -> Nat] : o <= at[n] /\ Occurs(at[n]) /\ at[n] + m = size
  <2>1. (n - 1) + 1 = n /\ n .. n = {n} /\ n .. n - 1 = {}
    BY <1>1
  <2> QED
    BY <1>1, <2>1 DEF EndsFrom
<1> HIDE DEF n, m, left, size, word, Occurs
<1>6. (\E at \in [n .. n -> Nat] : o <= at[n] /\ Occurs(at[n]) /\ at[n] + m = size) <=>
        \E i \in Nat : o <= i /\ Occurs(i) /\ i + m = size
  <2>1. n \in n .. n
    BY <1>1
  <2>2. \A at \in [n .. n -> Nat] : at[n] \in Nat
    BY <2>1
  <2>3. ASSUME NEW i \in Nat, o <= i, Occurs(i), i + m = size
        PROVE  \E at \in [n .. n -> Nat] : o <= at[n] /\ Occurs(at[n]) /\ at[n] + m = size
    <3>1. [x \in n .. n |-> i] \in [n .. n -> Nat] /\ [x \in n .. n |-> i][n] = i
      BY <2>1
    <3> QED
      BY <2>3, <3>1
  <2> QED
    BY <2>2, <2>3
<1>7. \A i \in Nat : o <= i /\ i + m = size <=> m <= size - o /\ i = size - m
  BY <1>1
<1>8. m <= size - o => /\ size - m \in Nat /\ size - o - m \in Nat
                       /\ o + (size - o - m) = size - m
  BY <1>1
<1>9. IsSuffix(word, left) <=> m <= size - o /\ Occurs(size - m)
  BY <1>2, <1>4, <1>8
<1>10. EndsFrom(segments, str, n - 1, o) <=> m <= size - o /\ Occurs(size - m)
  BY <1>5, <1>6, <1>7, <1>8
<1> QED
  BY <1>3, <1>9, <1>10 DEF n, left

\* A pattern of one segment means itself.
LEMMA OneSegment ==
  ASSUME NEW L, NEW segments \in Seq(Seq(L)), Len(segments) = 1, NEW str \in Seq(L)
  PROVE  Means(segments, str) <=> str = segments[1]
<1> DEFINE word == segments[1]
<1>1. word \in Seq(L) /\ segments # <<>> /\ Len(word) \in Nat /\ Len(str) \in Nat
  <2>1. 1 \in 1 .. Len(segments)
    OBVIOUS
  <2>2. word \in Seq(L)
    BY <2>1
  <2>3. segments # <<>>
    <3>1. ASSUME segments = <<>> PROVE FALSE
      <4>1. Len(segments) = 0
        BY ONLY <3>1
      <4> QED
        BY <4>1
    <3> QED
      BY <3>1
  <2> HIDE DEF word
  <2> QED
    BY <2>2, <2>3
<1>2. \A at \in [1 .. 1 -> Nat] :
        Placed(segments, str, at) <=>
          at[1] = 0 /\ OccursAt(word, str, 0) /\ Len(word) = Len(str)
  <2>1. 1 .. 1 = {1} /\ 1 .. 1 - 1 = {}
    OBVIOUS
  <2> QED
    BY <1>1, <2>1 DEF Placed
<1>3. \E at \in [1 .. 1 -> Nat] : at[1] = 0
  <2>1. [i \in 1 .. 1 |-> 0] \in [1 .. 1 -> Nat] /\ [i \in 1 .. 1 |-> 0][1] = 0
    OBVIOUS
  <2> QED
    BY <2>1
<1>4. Means(segments, str) <=> OccursAt(word, str, 0) /\ Len(word) = Len(str)
  BY <1>1, <1>2, <1>3, MeansByOccurrence
<1>5. OccursAt(word, str, 0) /\ Len(word) = Len(str) <=> str = word
  <2>1. OccursAt(word, str, 0) <=>
          Len(word) <= Len(str) /\ \A i \in 1 .. Len(word) : str[i] = word[i]
    BY <1>1 DEF OccursAt
  <2> HIDE DEF word
  <2>2. Len(str) = Len(word) /\ (\A i \in 1 .. Len(word) : str[i] = word[i]) => str = word
    BY <1>1
  <2> QED
    BY <1>1, <2>1, <2>2
<1> QED
  BY <1>4, <1>5

\* What strings.ToLower returns, and that a second time it changes nothing.
LEMMA LowerTypes ==
  ASSUME NEW L
  PROVE  /\ \A word \in Seq(L) :
              Lower(word) \in Seq(L \cup {"a", "b"}) /\ Lower(Lower(word)) = Lower(word)
         /\ \A pattern \in Seq(Seq(L)) :
              /\ LowerPattern(pattern) \in Seq(Seq(L \cup {"a", "b"}))
              /\ Len(LowerPattern(pattern)) = Len(pattern)
              /\ LowerPattern(LowerPattern(pattern)) = LowerPattern(pattern)
<1>1. ASSUME NEW x \in L
      PROVE  LowerLetter(x) \in L \cup {"a", "b"} /\ LowerLetter(LowerLetter(x)) = LowerLetter(x)
  BY DEF LowerLetter
<1>2. ASSUME NEW word \in Seq(L)
      PROVE  Lower(word) \in Seq(L \cup {"a", "b"}) /\ Lower(Lower(word)) = Lower(word)
  <2>1. /\ DOMAIN Lower(word) = 1 .. Len(word)
        /\ \A k \in 1 .. Len(word) : Lower(word)[k] = LowerLetter(word[k])
    BY DEF Lower
  <2>2. Lower(word) \in Seq(L \cup {"a", "b"})
    <3>1. [k \in 1 .. Len(word) |-> LowerLetter(word[k])] \in Seq(L \cup {"a", "b"})
      BY <1>1
    <3> QED
      BY <3>1 DEF Lower
  <2>3. Lower(Lower(word)) = [k \in 1 .. Len(word) |-> LowerLetter(LowerLetter(word[k]))]
    BY <2>1 DEF Lower
  <2>4. Lower(word) = [k \in 1 .. Len(word) |-> LowerLetter(word[k])]
    BY DEF Lower
  <2> QED
    BY <1>1, <2>2, <2>3, <2>4
<1>3. ASSUME NEW pattern \in Seq(Seq(L))
      PROVE  /\ LowerPattern(pattern) \in Seq(Seq(L \cup {"a", "b"}))
             /\ Len(LowerPattern(pattern)) = Len(pattern)
             /\ LowerPattern(LowerPattern(pattern)) = LowerPattern(pattern)
  <2>1. LowerPattern(pattern) = [k \in 1 .. Len(pattern) |-> Lower(pattern[k])]
    BY DEF LowerPattern
  <2>2. LowerPattern(LowerPattern(pattern)) =
          [k \in 1 .. Len(pattern) |-> Lower(Lower(pattern[k]))]
    BY <2>1 DEF LowerPattern
  <2>3. [k \in 1 .. Len(pattern) |-> Lower(pattern[k])] \in Seq(Seq(L \cup {"a", "b"}))
    BY <1>2
  <2>4. \A k \in 1 .. Len(pattern) : Lower(Lower(pattern[k])) = Lower(pattern[k])
    BY <1>2
  <2>5. Len(LowerPattern(pattern)) = Len(pattern)
    BY <2>1
  <2> QED
    BY <2>1, <2>2, <2>3, <2>4, <2>5
<1> QED
  BY <1>2, <1>3

\* globMatch decides what a pattern means, whatever the case of the pattern and
\* of the value.
THEOREM GlobsMeans ==
  ASSUME NEW L, NEW pattern \in Seq(Seq(L)), pattern # <<>>, NEW value \in Seq(L)
  PROVE  Globs(pattern, value) <=> Means(LowerPattern(pattern), Lower(value))
<1> DEFINE M == L \cup {"a", "b"}
           parts == LowerPattern(pattern)
           str == Lower(value)
           k == Len(parts) - 1
           cut == CutTo(parts, str, k)
<1>1. parts \in Seq(Seq(M)) /\ str \in Seq(M) /\ Len(parts) = Len(pattern)
  BY LowerTypes
<1>2. Globs(pattern, value) <=>
        IF Len(pattern) > 1 THEN cut.found /\ IsSuffix(Last(parts), cut.left)
        ELSE str = parts[1]
  BY DEF Globs, HasStar
<1> HIDE DEF parts, str, M
<1>3. CASE Len(pattern) > 1
  <2>1. k \in 1 .. Len(parts) - 1 /\ Len(parts) > 1 /\ k = Len(parts) - 1
    BY <1>1, <1>3
  <2> HIDE DEF cut, k
  <2>2. /\ ~cut.found => ~Means(parts, str)
        /\ cut.found =>
             \E o \in 0 .. Len(str) :
               /\ cut.left = After(str, o)
               /\ Means(parts, str) <=> EndsFrom(parts, str, k, o)
    BY <1>1, <2>1, EndsBehindTheCut DEF cut
  <2>3. \A o \in 0 .. Len(str) :
          IsSuffix(Last(parts), After(str, o)) <=> EndsFrom(parts, str, k, o)
    BY <1>1, <2>1, LastSegment
  <2>4. Globs(pattern, value) <=> Means(parts, str)
    BY <1>2, <1>3, <2>2, <2>3
  <2> QED
    BY <2>4 DEF parts, str
<1>4. CASE ~(Len(pattern) > 1)
  <2>1. Len(parts) = 1
    BY <1>1, <1>4
  <2>2. Means(parts, str) <=> str = parts[1]
    BY <1>1, <2>1, OneSegment
  <2> QED
    BY <1>2, <1>4, <2>2 DEF parts, str
<1> QED
  BY <1>3, <1>4
=============================================================================
