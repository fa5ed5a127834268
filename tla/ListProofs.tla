------------------------------ MODULE ListProofs ------------------------------
(***************************************************************************)
(* What an append loop and a running sum return, for lists of any length.  *)
(* The induction over the length is over the set of numbers for which the  *)
(* claim holds.                                                            *)
(***************************************************************************)
EXTENDS Lists, WellFoundedInduction, TLAPS

-----------------------------------------------------------------------------
(* Induction.                                                              *)

\* A set that has 0, and with a number the next one, has every number: the
\* least that it lacks would have a predecessor in it.
LEMMA SetInduction ==
  ASSUME NEW S, 0 \in S, \A n \in Nat : n \in S => n + 1 \in S
  PROVE  Nat \subseteq S
<1> SUFFICES ASSUME Nat \ S # {} PROVE FALSE
  OBVIOUS
<1> DEFINE T == Nat \ S
           R == OpToRel(<, Nat)
<1>1. IsWellFoundedOn(R, Nat) /\ T \subseteq Nat /\ T # {}
  BY NatLessThanWellFounded
<1>2. \A x, y \in Nat : x < y => <<x, y>> \in R
  BY DEF OpToRel
<1> HIDE DEF R, T
<1>3. PICK x \in T : \A y \in T : ~ (<<y, x>> \in R)
  BY <1>1, WFMin
<1>4. x \in Nat /\ x \notin S
  BY <1>3 DEF T
<1>5. x - 1 \in Nat /\ x - 1 < x /\ (x - 1) + 1 = x
  BY <1>4
<1>6. x - 1 \in S
  BY <1>2, <1>3, <1>4, <1>5 DEF T
<1> QED
  BY <1>4, <1>5, <1>6

-----------------------------------------------------------------------------
(* Append loops.                                                           *)

\* The recursion of Chosen.
TakeStep(items, chosen, f, k) ==
  IF k = 0 THEN <<>>
  ELSE IF k \in chosen THEN Append(f[k - 1], items[k])
  ELSE f[k - 1]

Taken(items, chosen) ==
  CHOOSE f : f = [k \in 0 .. Len(items) |-> TakeStep(items, chosen, f, k)]

\* It has a solution.
LEMMA ChosenByStep ==
  ASSUME NEW items, Len(items) \in Nat, NEW chosen
  PROVE  /\ Chosen(items, chosen) = Taken(items, chosen)[Len(items)]
         /\ \A k \in 0 .. Len(items) :
              Taken(items, chosen)[k] = TakeStep(items, chosen, Taken(items, chosen), k)
<1> DEFINE n == Len(items)
           Step(f, k) == TakeStep(items, chosen, f, k)
           S == {i \in Nat : \E f : f = [k \in 0 .. i |-> Step(f, k)]}
<1>1. 0 \in S
  <2> DEFINE f == [k \in 0 .. 0 |-> <<>>]
  <2>1. f = [k \in 0 .. 0 |-> Step(f, k)]
    BY DEF TakeStep
  <2> QED
    BY <2>1
<1>2. ASSUME NEW i \in Nat, i \in S PROVE i + 1 \in S
  <2>1. PICK f : f = [k \in 0 .. i |-> Step(f, k)]
    BY <1>2
  <2> DEFINE g == [k \in 0 .. i + 1 |-> Step(f, k)]
  <2>2. ASSUME NEW k \in 0 .. i + 1 PROVE Step(f, k) = Step(g, k)
    <3>1. CASE k = 0
      BY <3>1 DEF TakeStep
    <3>2. CASE k # 0
      <4>1. k - 1 \in 0 .. i /\ k - 1 \in 0 .. i + 1
        BY <3>2
      <4>2. g[k - 1] = Step(f, k - 1)
        BY <4>1
      <4>3. f[k - 1] = Step(f, k - 1)
        <5> HIDE DEF Step
        <5> QED
          BY <2>1, <4>1
      <4>4. f[k - 1] = g[k - 1]
        BY <4>2, <4>3
      <4> HIDE DEF g
      <4> QED
        BY <3>2, <4>4 DEF TakeStep
    <3> QED
      BY <3>1, <3>2
  <2> HIDE DEF Step
  <2>3. g = [k \in 0 .. i + 1 |-> Step(g, k)]
    BY <2>2
  <2> HIDE DEF g
  <2>4. \E h : h = [k \in 0 .. i + 1 |-> Step(h, k)]
    BY <2>3
  <2> QED
    BY <2>4
<1>3. Nat \subseteq S
  <2> HIDE DEF S
  <2> QED
    BY <1>1, <1>2, SetInduction
<1>4. \E f : f = [k \in 0 .. n |-> Step(f, k)]
  BY <1>3
<1> HIDE DEF Step
<1> DEFINE taken == CHOOSE f : f = [k \in 0 .. n |-> Step(f, k)]
<1>5. taken = [k \in 0 .. n |-> Step(taken, k)]
  BY <1>4
<1>6. taken = Taken(items, chosen)
  BY DEF Taken, Step
<1> HIDE DEF taken
<1>7. \A k \in 0 .. n : taken[k] = Step(taken, k)
  BY <1>5
<1>8. Chosen(items, chosen) = Taken(items, chosen)[n]
  BY DEF Chosen, Taken, TakeStep
<1> QED
  BY <1>6, <1>7, <1>8 DEF Step

\* What is appended is a sequence of the chosen items.
LEMMA ChosenType ==
  ASSUME NEW D, NEW items, NEW chosen, Len(items) \in Nat,
         \A k \in 1 .. Len(items) : k \in chosen => items[k] \in D
  PROVE  Chosen(items, chosen) \in Seq(D)
<1> DEFINE n == Len(items)
           taken == Taken(items, chosen)
           S == {i \in Nat : i \in 0 .. n => taken[i] \in Seq(D)}
<1>1. Chosen(items, chosen) = taken[n]
  BY ChosenByStep
<1>2. n \in Nat /\ \A k \in 1 .. n : k \in chosen => items[k] \in D
  OBVIOUS
<1>3. \A k \in 0 .. n : taken[k] = TakeStep(items, chosen, taken, k)
  BY ChosenByStep
<1> HIDE DEF taken, n
<1>4. \A k \in 0 .. n :
        taken[k] = IF k = 0 THEN <<>>
                   ELSE IF k \in chosen THEN Append(taken[k - 1], items[k])
                   ELSE taken[k - 1]
  BY <1>3 DEF TakeStep
<1>5. 0 \in S
  <2>1. 0 \in 0 .. n
    BY <1>2
  <2>2. taken[0] = <<>>
    BY <1>4, <2>1
  <2>3. <<>> \in Seq(D)
    OBVIOUS
  <2> QED
    BY <2>2, <2>3
<1>6. ASSUME NEW i \in Nat, i \in S PROVE i + 1 \in S
  <2>1. SUFFICES ASSUME i + 1 \in 0 .. n PROVE taken[i + 1] \in Seq(D)
    OBVIOUS
  <2>2. i \in 0 .. n /\ i + 1 \in 1 .. n /\ i + 1 # 0 /\ (i + 1) - 1 = i
    BY <1>2, <2>1
  <2>3. taken[i] \in Seq(D)
    BY <1>6, <2>2
  <2>4. taken[i + 1] = IF i + 1 \in chosen THEN Append(taken[i], items[i + 1]) ELSE taken[i]
    BY <1>4, <2>1, <2>2
  <2>5. i + 1 \in chosen => items[i + 1] \in D
    BY <1>2, <2>2
  <2> QED
    BY <2>3, <2>4, <2>5
<1>7. Nat \subseteq S
  <2> HIDE DEF S
  <2> QED
    BY <1>5, <1>6, SetInduction
<1>8. n \in S /\ n \in 0 .. n
  BY <1>2, <1>7
<1> QED
  BY <1>1, <1>8

-----------------------------------------------------------------------------
(* Running sums.                                                           *)

\* The recursion of Total.
SumStep(f, sum, k) == IF k = 0 THEN 0 ELSE sum[k - 1] + f[k]

Sums(f, n) == CHOOSE sum : sum = [k \in 0 .. n |-> SumStep(f, sum, k)]

\* It has a solution.
LEMMA TotalByStep ==
  ASSUME NEW f, NEW n \in Nat
  PROVE  /\ Total(f, n) = Sums(f, n)[n]
         /\ \A k \in 0 .. n : Sums(f, n)[k] = SumStep(f, Sums(f, n), k)
<1> DEFINE Step(s, k) == SumStep(f, s, k)
           S == {i \in Nat : \E s : s = [k \in 0 .. i |-> Step(s, k)]}
<1>1. 0 \in S
  <2> DEFINE s == [k \in 0 .. 0 |-> 0]
  <2>1. s = [k \in 0 .. 0 |-> Step(s, k)]
    BY DEF SumStep
  <2> QED
    BY <2>1
<1>2. ASSUME NEW i \in Nat, i \in S PROVE i + 1 \in S
  <2>1. PICK s : s = [k \in 0 .. i |-> Step(s, k)]
    BY <1>2
  <2> DEFINE t == [k \in 0 .. i + 1 |-> Step(s, k)]
  <2>2. ASSUME NEW k \in 0 .. i + 1 PROVE Step(s, k) = Step(t, k)
    <3>1. CASE k = 0
      BY <3>1 DEF SumStep
    <3>2. CASE k # 0
      <4>1. k - 1 \in 0 .. i /\ k - 1 \in 0 .. i + 1
        BY <3>2
      <4>2. t[k - 1] = Step(s, k - 1)
        BY <4>1
      <4>3. s[k - 1] = Step(s, k - 1)
        <5> HIDE DEF Step
        <5> QED
          BY <2>1, <4>1
      <4>4. s[k - 1] = t[k - 1]
        BY <4>2, <4>3
      <4> HIDE DEF t
      <4> QED
        BY <3>2, <4>4 DEF SumStep
    <3> QED
      BY <3>1, <3>2
  <2> HIDE DEF Step
  <2>3. t = [k \in 0 .. i + 1 |-> Step(t, k)]
    BY <2>2
  <2> HIDE DEF t
  <2>4. \E u : u = [k \in 0 .. i + 1 |-> Step(u, k)]
    BY <2>3
  <2> QED
    BY <2>4
<1>3. Nat \subseteq S
  <2> HIDE DEF S
  <2> QED
    BY <1>1, <1>2, SetInduction
<1>4. \E s : s = [k \in 0 .. n |-> Step(s, k)]
  BY <1>3
<1> HIDE DEF Step
<1> DEFINE sum == CHOOSE s : s = [k \in 0 .. n |-> Step(s, k)]
<1>5. sum = [k \in 0 .. n |-> Step(sum, k)]
  BY <1>4
<1>6. sum = Sums(f, n)
  BY DEF Sums, Step
<1> HIDE DEF sum
<1>7. \A k \in 0 .. n : sum[k] = Step(sum, k)
  BY <1>5
<1>8. Total(f, n) = Sums(f, n)[n]
  BY DEF Total, Sums, SumStep
<1> QED
  BY <1>6, <1>7, <1>8 DEF Step

\* The sums on the way do not depend on where the loop ends.
LEMMA TotalSoFar ==
  ASSUME NEW f, NEW n \in Nat
  PROVE  \A k \in 0 .. n : Sums(f, n)[k] = Total(f, k)
<1> DEFINE S == {i \in Nat : \A m \in Nat : i <= m => Sums(f, m)[i] = Total(f, i)}
<1>1. \A m \in Nat : /\ Total(f, m) = Sums(f, m)[m]
                     /\ \A k \in 0 .. m : Sums(f, m)[k] = SumStep(f, Sums(f, m), k)
  BY TotalByStep
<1>2. \A m \in Nat : \A k \in 0 .. m :
        Sums(f, m)[k] = IF k = 0 THEN 0 ELSE Sums(f, m)[k - 1] + f[k]
  BY <1>1 DEF SumStep
<1>3. 0 \in S
  <2>1. \A m \in Nat : 0 \in 0 .. m
    OBVIOUS
  <2>2. \A m \in Nat : Sums(f, m)[0] = 0
    BY <1>2, <2>1
  <2> QED
    BY <1>1, <2>2
<1>4. ASSUME NEW i \in Nat, i \in S PROVE i + 1 \in S
  <2>1. \A m \in Nat : i <= m => Sums(f, m)[i] = Total(f, i)
    BY <1>4
  <2>2. \A m \in Nat : i + 1 <= m =>
          /\ i + 1 \in 0 .. m /\ i + 1 # 0 /\ (i + 1) - 1 = i /\ i <= m
    OBVIOUS
  <2>3. \A m \in Nat : i + 1 <= m => Sums(f, m)[i + 1] = Total(f, i) + f[i + 1]
    <3> TAKE m \in Nat
    <3> HAVE i + 1 <= m
    <3>1. Sums(f, m)[i + 1] = Sums(f, m)[i] + f[i + 1]
      BY <1>2, <2>2
    <3> QED
      BY <2>1, <2>2, <3>1
  <2>4. i + 1 \in Nat /\ i + 1 <= i + 1
    OBVIOUS
  <2>5. Total(f, i + 1) = Total(f, i) + f[i + 1]
    BY <1>1, <2>3, <2>4
  <2> QED
    BY <2>3, <2>4, <2>5
<1>5. Nat \subseteq S
  <2> HIDE DEF S
  <2> QED
    BY <1>3, <1>4, SetInduction
<1>6. \A k \in 0 .. n : k \in Nat /\ k <= n
  OBVIOUS
<1> QED
  BY <1>5, <1>6

\* One turn of the loop.
LEMMA TotalStep ==
  ASSUME NEW f
  PROVE  /\ Total(f, 0) = 0
         /\ \A n \in Nat : Total(f, n + 1) = Total(f, n) + f[n + 1]
<1>1. Total(f, 0) = 0
  <2>1. 0 \in Nat /\ 0 \in 0 .. 0
    OBVIOUS
  <2> QED
    BY <2>1, TotalByStep DEF SumStep
<1>2. ASSUME NEW n \in Nat PROVE Total(f, n + 1) = Total(f, n) + f[n + 1]
  <2>1. /\ n + 1 \in Nat /\ n + 1 \in 0 .. n + 1 /\ n \in 0 .. n + 1
        /\ n + 1 # 0 /\ (n + 1) - 1 = n
    OBVIOUS
  <2>2. Total(f, n + 1) = SumStep(f, Sums(f, n + 1), n + 1)
    BY <2>1, TotalByStep
  <2>3. Sums(f, n + 1)[n] = Total(f, n)
    BY <2>1, TotalSoFar
  <2> QED
    BY <2>1, <2>2, <2>3 DEF SumStep
<1> QED
  BY <1>1, <1>2

\* A sum of numbers is a number.
LEMMA TotalType ==
  ASSUME NEW f, NEW n \in Nat, \A k \in 1 .. n : f[k] \in Nat
  PROVE  Total(f, n) \in Nat
<1> DEFINE S == {i \in Nat : i <= n => Total(f, i) \in Nat}
<1>1. 0 \in S
  BY TotalStep
<1>2. ASSUME NEW i \in Nat, i \in S PROVE i + 1 \in S
  <2>1. SUFFICES ASSUME i + 1 <= n PROVE Total(f, i + 1) \in Nat
    OBVIOUS
  <2>2. i <= n /\ i + 1 \in 1 .. n
    BY <2>1
  <2>3. Total(f, i) \in Nat /\ f[i + 1] \in Nat
    BY <1>2, <2>2
  <2>4. Total(f, i + 1) = Total(f, i) + f[i + 1]
    BY TotalStep
  <2> QED
    BY <2>3, <2>4
<1>3. Nat \subseteq S
  <2> HIDE DEF S
  <2> QED
    BY <1>1, <1>2, SetInduction
<1> QED
  BY <1>3

\* Equal items have equal sums.
LEMMA TotalSame ==
  ASSUME NEW f, NEW g, NEW n \in Nat, \A k \in 1 .. n : f[k] = g[k]
  PROVE  Total(f, n) = Total(g, n)
<1> DEFINE S == {i \in Nat : i <= n => Total(f, i) = Total(g, i)}
<1>1. 0 \in S
  BY TotalStep
<1>2. ASSUME NEW i \in Nat, i \in S PROVE i + 1 \in S
  <2>1. SUFFICES ASSUME i + 1 <= n PROVE Total(f, i + 1) = Total(g, i + 1)
    OBVIOUS
  <2>2. i <= n /\ i + 1 \in 1 .. n
    BY <2>1
  <2>3. Total(f, i) = Total(g, i) /\ f[i + 1] = g[i + 1]
    BY <1>2, <2>2
  <2>4. /\ Total(f, i + 1) = Total(f, i) + f[i + 1]
        /\ Total(g, i + 1) = Total(g, i) + g[i + 1]
    BY TotalStep
  <2> QED
    BY <2>3, <2>4
<1>3. Nat \subseteq S
  <2> HIDE DEF S
  <2> QED
    BY <1>1, <1>2, SetInduction
<1> QED
  BY <1>3

\* The same numbers, but for one that is larger.
LargerAt(j, d, f, g, n) ==
  \A k \in 1 .. n : f[k] \in Nat /\ g[k] = IF k = j THEN f[k] + d ELSE f[k]

\* One item that is larger makes the sum larger by as much.
LEMMA TotalOneLarger ==
  ASSUME NEW n \in Nat, NEW j \in 1 .. n, NEW d \in Nat, NEW f, NEW g,
         LargerAt(j, d, f, g, n)
  PROVE  Total(g, n) = Total(f, n) + d
<1> DEFINE S == {i \in Nat : i <= n =>
                   /\ Total(f, i) \in Nat
                   /\ Total(g, i) = IF i < j THEN Total(f, i) ELSE Total(f, i) + d}
<1>1. 0 \in S
  BY TotalStep
<1>2. ASSUME NEW i \in Nat, i \in S PROVE i + 1 \in S
  <2>1. SUFFICES ASSUME i + 1 <= n
                 PROVE  /\ Total(f, i + 1) \in Nat
                        /\ Total(g, i + 1) =
                             IF i + 1 < j THEN Total(f, i + 1) ELSE Total(f, i + 1) + d
    OBVIOUS
  <2>2. i <= n /\ i + 1 \in 1 .. n
    BY <2>1
  <2>3. /\ Total(f, i) \in Nat
        /\ Total(g, i) = IF i < j THEN Total(f, i) ELSE Total(f, i) + d
    BY <1>2, <2>2
  <2>4. f[i + 1] \in Nat /\ g[i + 1] = IF i + 1 = j THEN f[i + 1] + d ELSE f[i + 1]
    BY <2>2 DEF LargerAt
  <2>5. /\ Total(f, i + 1) = Total(f, i) + f[i + 1]
        /\ Total(g, i + 1) = Total(g, i) + g[i + 1]
    BY TotalStep
  <2> QED
    BY <2>3, <2>4, <2>5
<1>3. Nat \subseteq S
  <2> HIDE DEF S
  <2> QED
    BY <1>1, <1>2, SetInduction
<1> QED
  BY <1>3

\* Nothing adds up to nothing.
LEMMA TotalOfZeros ==
  ASSUME NEW f, NEW n \in Nat, \A k \in 1 .. n : f[k] = 0
  PROVE  Total(f, n) = 0
<1> DEFINE S == {i \in Nat : i <= n => Total(f, i) = 0}
<1>1. 0 \in S
  BY TotalStep
<1>2. ASSUME NEW i \in Nat, i \in S PROVE i + 1 \in S
  <2>1. SUFFICES ASSUME i + 1 <= n PROVE Total(f, i + 1) = 0
    OBVIOUS
  <2>2. i <= n /\ i + 1 \in 1 .. n
    BY <2>1
  <2>3. Total(f, i) = 0 /\ f[i + 1] = 0
    BY <1>2, <2>2
  <2>4. Total(f, i + 1) = Total(f, i) + f[i + 1]
    BY TotalStep
  <2> QED
    BY <2>3, <2>4
<1>3. Nat \subseteq S
  <2> HIDE DEF S
  <2> QED
    BY <1>1, <1>2, SetInduction
<1> QED
  BY <1>3

\* Zeros at the end add nothing.
LEMMA TotalPrefix ==
  ASSUME NEW f, NEW m \in Nat, NEW n \in Nat, m <= n,
         \A k \in 1 .. m : f[k] \in Nat, \A k \in m + 1 .. n : f[k] = 0
  PROVE  Total(f, n) = Total(f, m)
<1>0. Total(f, m) \in Nat
  BY TotalType
<1> DEFINE S == {i \in Nat : m <= i /\ i <= n => Total(f, i) = Total(f, m)}
<1>1. 0 \in S
  OBVIOUS
<1>2. ASSUME NEW i \in Nat, i \in S PROVE i + 1 \in S
  <2>1. SUFFICES ASSUME m <= i + 1, i + 1 <= n PROVE Total(f, i + 1) = Total(f, m)
    OBVIOUS
  <2>2. CASE m = i + 1
    BY <2>2
  <2>3. CASE m # i + 1
    <3>1. m <= i /\ i <= n /\ i + 1 \in m + 1 .. n
      BY <2>1, <2>3
    <3>2. Total(f, i) = Total(f, m) /\ f[i + 1] = 0
      BY <1>2, <3>1
    <3>3. Total(f, i + 1) = Total(f, i) + f[i + 1]
      BY TotalStep
    <3> QED
      BY <1>0, <3>2, <3>3
  <2> QED
    BY <2>2, <2>3
<1>3. Nat \subseteq S
  <2> HIDE DEF S
  <2> QED
    BY <1>1, <1>2, SetInduction
<1> QED
  BY <1>3

-----------------------------------------------------------------------------
(* Sums over an append loop.                                               *)

\* The weights of the items of a list, added up.
TotalWeight(items, weight) ==
  Total([k \in 1 .. Len(items) |-> weight[items[k]]], Len(items))

\* An item that is appended adds its weight.
LEMMA TotalOfAppend ==
  ASSUME NEW D, NEW items \in Seq(D), NEW item \in D, NEW weight
  PROVE  TotalWeight(Append(items, item), weight) = TotalWeight(items, weight) + weight[item]
<1> DEFINE n == Len(items)
           longer == Append(items, item)
           f == [k \in 1 .. n |-> weight[items[k]]]
           g == [k \in 1 .. n + 1 |-> weight[longer[k]]]
<1>1. /\ n \in Nat /\ Len(longer) = n + 1 /\ longer[n + 1] = item
      /\ \A k \in 1 .. n : longer[k] = items[k]
  OBVIOUS
<1>2. TotalWeight(longer, weight) = Total(g, n + 1) /\ TotalWeight(items, weight) = Total(f, n)
  BY <1>1 DEF TotalWeight
<1>3. g[n + 1] = weight[item] /\ \A k \in 1 .. n : f[k] = g[k]
  BY <1>1
<1> HIDE DEF f, g, longer, n
<1>4. Total(f, n) = Total(g, n)
  BY <1>1, <1>3, TotalSame
<1>5. Total(g, n + 1) = Total(g, n) + g[n + 1]
  BY <1>1, TotalStep
<1> QED
  BY <1>2, <1>3, <1>4, <1>5 DEF longer

\* The weights of the chosen items, and nothing for the others.
ChosenWeights(items, chosen, weight) ==
  [k \in 1 .. Len(items) |-> IF k \in chosen THEN weight[items[k]] ELSE 0]

\* The chosen items weigh what the items weigh that are chosen.
LEMMA TotalOfChosen ==
  ASSUME NEW D, NEW items \in Seq(D), NEW chosen, NEW weight \in [D -> Nat]
  PROVE  TotalWeight(Chosen(items, chosen), weight) =
           Total(ChosenWeights(items, chosen, weight), Len(items))
<1> DEFINE n == Len(items)
           taken == Taken(items, chosen)
           f == ChosenWeights(items, chosen, weight)
           S == {i \in Nat : i <= n => /\ taken[i] \in Seq(D)
                                       /\ TotalWeight(taken[i], weight) = Total(f, i)
                                       /\ Total(f, i) \in Nat}
<1>1. n \in Nat /\ \A k \in 1 .. n : items[k] \in D
  OBVIOUS
<1>2. /\ Chosen(items, chosen) = taken[n]
      /\ \A k \in 0 .. n : taken[k] = TakeStep(items, chosen, taken, k)
  BY ChosenByStep
<1>3. \A k \in 1 .. n : f[k] = IF k \in chosen THEN weight[items[k]] ELSE 0
  BY DEF ChosenWeights
<1> HIDE DEF n, taken, f
<1>4. \A k \in 0 .. n :
        taken[k] = IF k = 0 THEN <<>>
                   ELSE IF k \in chosen THEN Append(taken[k - 1], items[k])
                   ELSE taken[k - 1]
  BY <1>2 DEF TakeStep
<1>5. 0 \in S
  <2>1. 0 \in 0 .. n
    BY <1>1
  <2>2. taken[0] = <<>>
    BY <1>4, <2>1
  <2>3. <<>> \in Seq(D) /\ Len(<<>>) = 0
    OBVIOUS
  <2>4. TotalWeight(<<>>, weight) = 0
    BY <2>3, TotalStep DEF TotalWeight
  <2>5. Total(f, 0) = 0
    BY TotalStep
  <2>6. taken[0] \in Seq(D)
    BY <2>2, <2>3
  <2>7. TotalWeight(taken[0], weight) = 0
    BY <2>2, <2>4
  <2> QED
    BY <2>5, <2>6, <2>7
<1>6. ASSUME NEW i \in Nat, i \in S PROVE i + 1 \in S
  <2>1. SUFFICES ASSUME i + 1 <= n
                 PROVE  /\ taken[i + 1] \in Seq(D)
                        /\ TotalWeight(taken[i + 1], weight) = Total(f, i + 1)
                        /\ Total(f, i + 1) \in Nat
    OBVIOUS
  <2>2. i <= n /\ i + 1 \in 0 .. n /\ i + 1 \in 1 .. n /\ i + 1 # 0 /\ (i + 1) - 1 = i
    BY <1>1, <2>1
  <2>3. /\ taken[i] \in Seq(D)
        /\ TotalWeight(taken[i], weight) = Total(f, i)
        /\ Total(f, i) \in Nat
    BY <1>6, <2>2
  <2>4. taken[i + 1] = IF i + 1 \in chosen THEN Append(taken[i], items[i + 1]) ELSE taken[i]
    BY <1>4, <2>2
  <2>5. items[i + 1] \in D /\ weight[items[i + 1]] \in Nat
    BY <1>1, <2>2
  <2>6. Total(f, i + 1) = Total(f, i) + f[i + 1]
    BY TotalStep
  <2>7. CASE i + 1 \in chosen
    <3>1. taken[i + 1] = Append(taken[i], items[i + 1])
      BY <2>4, <2>7
    <3>2. TotalWeight(taken[i + 1], weight) = TotalWeight(taken[i], weight) + weight[items[i + 1]]
      BY <2>3, <2>5, <3>1, TotalOfAppend
    <3>3. f[i + 1] = weight[items[i + 1]]
      BY <1>3, <2>2, <2>7
    <3>4. taken[i + 1] \in Seq(D)
      BY <2>3, <2>5, <3>1
    <3> QED
      BY <2>3, <2>5, <2>6, <3>2, <3>3, <3>4
  <2>8. CASE i + 1 \notin chosen
    <3>1. taken[i + 1] = taken[i]
      BY <2>4, <2>8
    <3>2. f[i + 1] = 0
      BY <1>3, <2>2, <2>8
    <3> QED
      BY <2>3, <2>6, <3>1, <3>2
  <2> QED
    BY <2>7, <2>8
<1>7. Nat \subseteq S
  <2> HIDE DEF S
  <2> QED
    BY <1>5, <1>6, SetInduction
<1>8. n \in S /\ n <= n
  BY <1>1, <1>7
<1>9. TotalWeight(taken[n], weight) = Total(f, n)
  BY <1>8
<1> QED
  BY <1>2, <1>9 DEF f, n
=============================================================================
