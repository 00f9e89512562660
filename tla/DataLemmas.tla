----------------------------- MODULE DataLemmas -----------------------------
(***************************************************************************)
(* Facts about numbers and sequences that the proofs about the modules     *)
(* share.  What a definition that refers to itself computes is proved by   *)
(* induction: a set of numbers that has 0, and with each number the next,  *)
(* has them all.                                                           *)
(***************************************************************************)
EXTENDS Sums, SequencesExt, WellFoundedInduction, TLAPS

(* A nonempty set of natural numbers has a least member.                   *)
LEMMA LeastNumber ==
    ASSUME NEW T \in SUBSET Nat, T # {}
    PROVE  \E least \in T : \A n \in T : least <= n
<1>1. PICK least \in T : \A n \in T : ~(<<n, least>> \in OpToRel(<, Nat))
  BY NatLessThanWellFounded, WFMin
<1>2. \A n \in T : ~(n < least)
  BY <1>1, Zenon DEF OpToRel
<1> QED
  BY <1>2

(* A set that holds 0, and with each number up to m the next one, holds    *)
(* all of 0..m.                                                            *)
LEMMA Induction ==
    ASSUME NEW m \in Nat, NEW T, 0 \in T, \A n \in 1..m : n - 1 \in T => n \in T
    PROVE  0..m \subseteq T
<1> DEFINE Out == (0..m) \ T
<1> SUFFICES ASSUME Out # {}
             PROVE  FALSE
  OBVIOUS
<1>1. PICK least \in Out : \A n \in Out : least <= n
  <2>1. Out \in SUBSET Nat
    OBVIOUS
  <2> HIDE DEF Out
  <2> QED
    BY <2>1, LeastNumber
<1>2. least \in 1..m /\ least - 1 \notin Out
  BY <1>1
<1> QED
  BY <1>1, <1>2

-----------------------------------------------------------------------------
(* Running sums.                                                           *)
IsSumUpTo(terms, m, g) == g = [n \in 0..m |-> IF n = 0 THEN 0 ELSE g[n - 1] + terms[n]]

(* There is a function with the running sums of the first m terms.         *)
LEMMA SumExists ==
    ASSUME NEW terms, NEW m \in Nat
    PROVE  \E g : IsSumUpTo(terms, m, g)
<1> DEFINE T == {k \in 0..m : \E g : IsSumUpTo(terms, k, g)}
<1>1. 0 \in T
  <2>1. IsSumUpTo(terms, 0, [n \in 0..0 |-> 0])
    BY DEF IsSumUpTo
  <2> QED
    BY <2>1
<1>2. ASSUME NEW k \in 1..m, k - 1 \in T
      PROVE  k \in T
  <2>1. PICK g : IsSumUpTo(terms, k - 1, g)
    BY <1>2
  <2> DEFINE h == [n \in 0..k |-> IF n = k THEN g[k - 1] + terms[k] ELSE g[n]]
  <2>2. ASSUME NEW n \in 0..k
        PROVE  h[n] = IF n = 0 THEN 0 ELSE h[n - 1] + terms[n]
    <3>1. CASE n = k
      <4>1. h[n] = g[k - 1] + terms[k] /\ h[n - 1] = g[k - 1]
        BY <3>1
      <4> QED
        BY <3>1, <4>1
    <3>2. CASE n # k
      <4>1. n \in 0..(k - 1)
        BY <3>2
      <4>2. h[n] = g[n] /\ (n # 0 => h[n - 1] = g[n - 1])
        BY <3>2, <4>1
      <4>3. g[n] = IF n = 0 THEN 0 ELSE g[n - 1] + terms[n]
        BY <2>1, <4>1 DEF IsSumUpTo
      <4> HIDE DEF h
      <4> QED
        BY <4>2, <4>3
    <3> QED
      BY <3>1, <3>2
  <2>3. h = [n \in 0..k |-> h[n]]
    OBVIOUS
  <2> HIDE DEF h
  <2>4. IsSumUpTo(terms, k, h)
    BY <2>2, <2>3 DEF IsSumUpTo
  <2> QED
    BY <2>4
<1> HIDE DEF T
<1>3. 0..m \subseteq T
  BY <1>1, <1>2, Induction
<1> QED
  BY <1>3 DEF T

(* RunningSum is that function, though it is defined by recursion.         *)
LEMMA SumUnfolds ==
    ASSUME NEW terms, Len(terms) \in Nat
    PROVE  IsSumUpTo(terms, Len(terms), RunningSum(terms))
<1>1. \E g : IsSumUpTo(terms, Len(terms), g)
  BY SumExists
<1>2. RunningSum(terms) = CHOOSE g : IsSumUpTo(terms, Len(terms), g)
  BY DEF RunningSum, IsSumUpTo
<1> QED
  BY <1>1, <1>2

(* The equations of RunningSum: 0 before the first term, then one term     *)
(* more at each place.                                                     *)
LEMMA SumSteps ==
    ASSUME NEW terms, Len(terms) \in Nat
    PROVE  /\ RunningSum(terms)[0] = 0
           /\ \A n \in 1..Len(terms) : RunningSum(terms)[n] = RunningSum(terms)[n - 1] + terms[n]
           /\ RunningSum(terms) = [n \in 0..Len(terms) |-> RunningSum(terms)[n]]
BY SumUnfolds DEF IsSumUpTo

(* The running sums of natural numbers are natural numbers.                *)
LEMMA SumNatural ==
    ASSUME NEW terms \in Seq(Nat)
    PROVE  /\ RunningSum(terms) \in [0..Len(terms) -> Nat]
           /\ Len(terms) \in Nat
<1> DEFINE sum == RunningSum(terms)
           T == {n \in 0..Len(terms) : sum[n] \in Nat}
<1>0. Len(terms) \in Nat
  OBVIOUS
<1>1. 0 \in T
  BY <1>0, SumSteps
<1>2. ASSUME NEW n \in 1..Len(terms), n - 1 \in T
      PROVE  n \in T
  <2>1. sum[n] = sum[n - 1] + terms[n] /\ terms[n] \in Nat
    BY SumSteps
  <2> QED
    BY <1>2, <2>1
<1> HIDE DEF T
<1>3. 0..Len(terms) \subseteq T
  BY <1>0, <1>1, <1>2, Induction
<1> QED
  BY <1>0, <1>3, SumSteps DEF T

(* Running sums of natural numbers never decrease.                         *)
LEMMA SumMonotone ==
    ASSUME NEW terms \in Seq(Nat),
           NEW m \in 0..Len(terms), NEW n \in 0..Len(terms), m <= n
    PROVE  RunningSum(terms)[m] <= RunningSum(terms)[n]
<1> DEFINE sum == RunningSum(terms)
           T == {k \in 0..Len(terms) : m <= k => sum[m] <= sum[k]}
<1>0. sum \in [0..Len(terms) -> Nat] /\ Len(terms) \in Nat
  BY SumNatural
<1>1. 0 \in T
  BY <1>0
<1>2. ASSUME NEW k \in 1..Len(terms), k - 1 \in T
      PROVE  k \in T
  <2>1. sum[k] = sum[k - 1] + terms[k] /\ terms[k] \in Nat
    BY SumSteps
  <2> HIDE DEF sum
  <2>2. {k, k - 1, m} \subseteq 0..Len(terms)
    BY <1>0
  <2>3. sum[k] \in Nat /\ sum[k - 1] \in Nat /\ sum[m] \in Nat
    BY <1>0, <2>2
  <2> QED
    BY <1>2, <2>1, <2>2, <2>3
<1> HIDE DEF T
<1>3. 0..Len(terms) \subseteq T
  BY <1>0, <1>1, <1>2, Induction
<1> QED
  BY <1>3 DEF T

(* A number below the sum of all terms falls into exactly one of them.     *)
LEMMA SumLocates ==
    ASSUME NEW terms \in Seq(Nat), NEW x \in Nat, x < RunningSum(terms)[Len(terms)]
    PROVE  \E n \in 1..Len(terms) : RunningSum(terms)[n - 1] <= x /\ x < RunningSum(terms)[n]
<1> DEFINE sum == RunningSum(terms)
           T == {n \in 0..Len(terms) : x < sum[n]}
<1>0. sum \in [0..Len(terms) -> Nat] /\ sum[0] = 0 /\ Len(terms) \in Nat
  BY SumNatural, SumSteps
<1>1. PICK n \in T : \A k \in T : n <= k
  <2>1. T \in SUBSET Nat /\ T # {}
    OBVIOUS
  <2> HIDE DEF T
  <2> QED
    BY <2>1, LeastNumber
<1> HIDE DEF sum
<1>2. n \in 1..Len(terms) /\ n - 1 \notin T
  BY <1>0, <1>1
<1>3. sum[n - 1] <= x /\ x < sum[n]
  BY <1>0, <1>1, <1>2
<1> QED
  BY <1>2, <1>3 DEF sum

(* A number lies between two neighbouring running sums at one place only.  *)
LEMMA SumSeparates ==
    ASSUME NEW terms \in Seq(Nat), NEW x \in Nat,
           NEW m \in 1..Len(terms), RunningSum(terms)[m - 1] <= x, x < RunningSum(terms)[m],
           NEW n \in 1..Len(terms), RunningSum(terms)[n - 1] <= x, x < RunningSum(terms)[n]
    PROVE  m = n
<1> DEFINE sum == RunningSum(terms)
<1>1. sum \in [0..Len(terms) -> Nat] /\ Len(terms) \in Nat
  BY SumNatural
<1>2. m <= n - 1 => sum[m] <= sum[n - 1]
  BY SumMonotone
<1>3. n <= m - 1 => sum[n] <= sum[m - 1]
  BY SumMonotone
<1>4. sum[m - 1] <= x /\ x < sum[m] /\ sum[n - 1] <= x /\ x < sum[n]
  OBVIOUS
<1> HIDE DEF sum
<1>5. {m, n, m - 1, n - 1} \subseteq 0..Len(terms)
  BY <1>1
<1>6. \A k \in 0..Len(terms) : sum[k] \in Nat
  BY <1>1
<1>7. sum[m] \in Nat /\ sum[n] \in Nat /\ sum[m - 1] \in Nat /\ sum[n - 1] \in Nat
  BY <1>5, <1>6
<1>8. m \in Int /\ n \in Int
  BY <1>1
<1>9. ASSUME m < n
      PROVE  FALSE
  BY <1>2, <1>4, <1>7, <1>8, <1>9
<1>10. ASSUME n < m
       PROVE  FALSE
  BY <1>3, <1>4, <1>7, <1>8, <1>10
<1> QED
  BY <1>8, <1>9, <1>10

-----------------------------------------------------------------------------
(* Sets and slices.                                                        *)
LEMMA MaxOfTwo ==
    ASSUME NEW a \in Int, NEW b \in Int
    PROVE  Max({a, b}) = IF a >= b THEN a ELSE b
<1> DEFINE m == IF a >= b THEN a ELSE b
<1>1. m \in {a, b} /\ \A y \in {a, b} : m >= y
  OBVIOUS
<1>2. \A x \in {a, b} : (\A y \in {a, b} : x >= y) => x = m
  OBVIOUS
<1> HIDE DEF m
<1> QED
  BY <1>1, <1>2 DEF Max

(* The smaller of two integers.                                            *)
LEMMA MinOfTwo ==
    ASSUME NEW a \in Int, NEW b \in Int
    PROVE  Min({a, b}) = IF a <= b THEN a ELSE b
<1> DEFINE m == IF a <= b THEN a ELSE b
<1>1. m \in {a, b} /\ \A y \in {a, b} : m <= y
  OBVIOUS
<1>2. \A x \in {a, b} : (\A y \in {a, b} : x <= y) => x = m
  OBVIOUS
<1> HIDE DEF m
<1> QED
  BY <1>1, <1>2 DEF Min

(* Two sequences of one length with the same elements are the same.        *)
LEMMA SeqsEqual ==
    ASSUME NEW S, NEW a \in Seq(S), NEW b \in Seq(S), NEW n \in Nat, Len(a) = n, Len(b) = n,
           \A k \in 1..n : a[k] = b[k]
    PROVE  a = b
OBVIOUS

(* The length and the elements of a slice.                                 *)
LEMMA SubSeqFacts ==
    ASSUME NEW S, NEW s \in Seq(S), NEW m \in Nat, NEW n \in Nat,
           1 <= m, m <= n + 1, n <= Len(s)
    PROVE  /\ SubSeq(s, m, n) \in Seq(S)
           /\ Len(SubSeq(s, m, n)) = n - m + 1
           /\ \A k \in 1..(n - m + 1) : SubSeq(s, m, n)[k] = s[m + k - 1]
<1>1. \A k \in m..n : s[k] \in S
  OBVIOUS
<1>2. SubSeq(s, m, n) = [k \in 1..(n - m + 1) |-> s[m + k - 1]]
  OBVIOUS
<1>3. PICK len \in Nat : len = n - m + 1
  OBVIOUS
<1>4. \A k \in 1..len : m + k - 1 \in m..n
  BY <1>3
<1> DEFINE t == [k \in 1..len |-> s[m + k - 1]]
<1>5. t \in Seq(S) /\ Len(t) = len /\ \A k \in 1..len : t[k] = s[m + k - 1]
  BY <1>1, <1>4
<1> HIDE DEF t
<1>6. SubSeq(s, m, n) = t
  BY <1>2, <1>3 DEF t
<1> QED
  BY <1>3, <1>5, <1>6

(* The length of a concatenation, and its elements by their place in it.   *)
LEMMA JoinFacts ==
    ASSUME NEW S, NEW a \in Seq(S), NEW c \in Seq(S)
    PROVE  /\ a \o c \in Seq(S) /\ Len(a \o c) = Len(a) + Len(c)
           /\ \A k \in 1..(Len(a) + Len(c)) :
                 (a \o c)[k] = IF k <= Len(a) THEN a[k] ELSE c[k - Len(a)]
OBVIOUS

(* The length and the elements of a sequence with one element more.        *)
LEMMA AppendFacts ==
    ASSUME NEW S, NEW s \in Seq(S), NEW e \in S
    PROVE  /\ Append(s, e) \in Seq(S) /\ Len(Append(s, e)) = Len(s) + 1
           /\ \A k \in 1..Len(s) : Append(s, e)[k] = s[k]
           /\ Append(s, e)[Len(s) + 1] = e
OBVIOUS

-----------------------------------------------------------------------------
(* Concatenation.                                                          *)
Lengths(seqs) == [i \in 1..Len(seqs) |-> Len(seqs[i])]

(* g holds the concatenations of the first sequences of seqs, as           *)
(* FlattenSeq builds them.                                                 *)
IsFlattenUpTo(seqs, m, g) ==
    g = [i \in 1..m |-> IF i = 1 THEN seqs[i] ELSE g[i - 1] \o seqs[i]]

(* There is a function with the concatenations of the first m sequences.   *)
LEMMA FlattenExists ==
    ASSUME NEW seqs, NEW m \in Nat
    PROVE  \E g : IsFlattenUpTo(seqs, m, g)
<1> DEFINE T == {k \in 0..m : \E g : IsFlattenUpTo(seqs, k, g)}
<1>1. 0 \in T
  <2>1. IsFlattenUpTo(seqs, 0, [i \in 1..0 |-> seqs])
    BY DEF IsFlattenUpTo
  <2> QED
    BY <2>1
<1>2. ASSUME NEW k \in 1..m, k - 1 \in T
      PROVE  k \in T
  <2>1. PICK g : IsFlattenUpTo(seqs, k - 1, g)
    BY <1>2
  <2>0. PICK last : last = IF k = 1 THEN seqs[1] ELSE g[k - 1] \o seqs[k]
    OBVIOUS
  <2> DEFINE h == [i \in 1..k |-> IF i < k THEN g[i] ELSE last]
  <2>2. ASSUME NEW i \in 1..k
        PROVE  h[i] = IF i = 1 THEN seqs[i] ELSE h[i - 1] \o seqs[i]
    <3>1. CASE i = k
      <4>1. h[i] = last
        BY <3>1
      <4>2. k # 1 => h[i - 1] = g[k - 1]
        BY <3>1
      <4> HIDE DEF h
      <4> QED
        BY <2>0, <3>1, <4>1, <4>2
    <3>2. CASE i # k
      <4>1. i \in 1..(k - 1)
        BY <3>2
      <4>2. h[i] = g[i] /\ (i # 1 => h[i - 1] = g[i - 1])
        BY <3>2, <4>1
      <4>3. g[i] = IF i = 1 THEN seqs[i] ELSE g[i - 1] \o seqs[i]
        BY <2>1, <4>1 DEF IsFlattenUpTo
      <4> HIDE DEF h
      <4> QED
        BY <4>2, <4>3
    <3> QED
      BY <3>1, <3>2
  <2>3. h = [i \in 1..k |-> h[i]]
    OBVIOUS
  <2> HIDE DEF h
  <2>4. IsFlattenUpTo(seqs, k, h)
    BY <2>2, <2>3 DEF IsFlattenUpTo
  <2> QED
    BY <2>4
<1> HIDE DEF T
<1>3. 0..m \subseteq T
  BY <1>1, <1>2, Induction
<1> QED
  BY <1>3 DEF T

(* FlattenSeq is its last value, though it is defined by recursion.        *)
LEMMA FlattenUnfolds ==
    ASSUME NEW seqs, Len(seqs) \in Nat \ {0}
    PROVE  \E g : IsFlattenUpTo(seqs, Len(seqs), g) /\ FlattenSeq(seqs) = g[Len(seqs)]
<1> DEFINE g == CHOOSE h : IsFlattenUpTo(seqs, Len(seqs), h)
<1>1. IsFlattenUpTo(seqs, Len(seqs), g)
  BY FlattenExists
<1>2. FlattenSeq(seqs) = g[Len(seqs)]
  BY DEF FlattenSeq, IsFlattenUpTo
<1> HIDE DEF g
<1> QED
  BY <1>1, <1>2

(* The length of a concatenation, and its elements by the part they come   *)
(* from.                                                                   *)
LEMMA ConcatFacts ==
    ASSUME NEW S, NEW a \in Seq(S), NEW b \in Seq(S)
    PROVE  /\ a \o b \in Seq(S)
           /\ Len(a \o b) = Len(a) + Len(b)
           /\ \A k \in 1..Len(a) : (a \o b)[k] = a[k]
           /\ \A k \in 1..Len(b) : (a \o b)[Len(a) + k] = b[k]
OBVIOUS

(* s is the concatenation of the first n of these sequences: it is as long *)
(* as they are together, and the k-th element of the m-th comes after all  *)
(* of those before it.                                                     *)
Flattens(s, seqs, n) ==
    /\ Len(s) = RunningSum(Lengths(seqs))[n]
    /\ \A m \in 1..n : \A k \in 1..Len(seqs[m]) :
          s[RunningSum(Lengths(seqs))[m - 1] + k] = seqs[m][k]

(* The running sums of the lengths of sequences.                           *)
LEMMA LengthsFacts ==
    ASSUME NEW S, NEW seqs \in Seq(Seq(S))
    PROVE  /\ Len(seqs) \in Nat
           /\ \A i \in 1..Len(seqs) : seqs[i] \in Seq(S) /\ Len(seqs[i]) \in Nat
           /\ Lengths(seqs) \in Seq(Nat) /\ Len(Lengths(seqs)) = Len(seqs)
           /\ RunningSum(Lengths(seqs))[0] = 0
           /\ \A i \in 1..Len(seqs) : RunningSum(Lengths(seqs))[i] =
                                         RunningSum(Lengths(seqs))[i - 1] + Len(seqs[i])
           /\ \A i \in 0..Len(seqs) : RunningSum(Lengths(seqs))[i] \in Nat
<1>1. Len(seqs) \in Nat /\ \A i \in 1..Len(seqs) : seqs[i] \in Seq(S) /\ Len(seqs[i]) \in Nat
  OBVIOUS
<1>2. Lengths(seqs) \in Seq(Nat) /\ Len(Lengths(seqs)) = Len(seqs)
  BY <1>1 DEF Lengths
<1> QED
  BY <1>1, <1>2, SumSteps, SumNatural DEF Lengths

(* The concatenation of the first sequences with the next one appended.    *)
LEMMA FlattenStep ==
    ASSUME NEW S, NEW seqs \in Seq(Seq(S)), NEW i \in 1..Len(seqs),
           NEW a \in Seq(S), Flattens(a, seqs, i - 1)
    PROVE  Flattens(a \o seqs[i], seqs, i)
<1> DEFINE sum == RunningSum(Lengths(seqs))
           b == seqs[i]
<1>1. b \in Seq(S) /\ Len(b) \in Nat /\ sum[i] = sum[i - 1] + Len(b) /\ Len(a) = sum[i - 1]
  BY LengthsFacts DEF Flattens
<1>2. /\ Len(a \o b) = Len(a) + Len(b)
      /\ \A k \in 1..Len(a) : (a \o b)[k] = a[k]
      /\ \A k \in 1..Len(b) : (a \o b)[Len(a) + k] = b[k]
  <2>1. b \in Seq(S)
    BY <1>1
  <2> HIDE DEF b
  <2> QED
    BY ONLY a \in Seq(S), <2>1, ConcatFacts
<1>3. ASSUME NEW m \in 1..i, NEW k \in 1..Len(seqs[m])
      PROVE  (a \o b)[sum[m - 1] + k] = seqs[m][k]
  <2>1. CASE m = i
    <3>1. k \in 1..Len(b) /\ sum[m - 1] = Len(a) /\ seqs[m] = b
      BY <1>1, <2>1
    <3> HIDE DEF b, sum
    <3> QED
      BY <1>2, <3>1
  <2>2. CASE m # i
    <3>1. i \in Int /\ Len(seqs) \in Nat
      BY LengthsFacts
    <3>2. m \in 1..(i - 1) /\ m \in 1..Len(seqs) /\ m - 1 \in 0..Len(seqs)
          /\ m \in 0..Len(seqs) /\ i - 1 \in 0..Len(seqs)
      BY <2>2, <3>1
    <3>3. /\ sum[m - 1] \in Nat /\ sum[i - 1] \in Nat /\ sum[m] = sum[m - 1] + Len(seqs[m])
          /\ Len(seqs[m]) \in Nat
      BY <3>2, LengthsFacts
    <3>4. sum[m] <= sum[i - 1]
      BY <3>2, LengthsFacts, SumMonotone
    <3>5. a[sum[m - 1] + k] = seqs[m][k]
      BY <3>2 DEF Flattens
    <3> HIDE DEF sum, b
    <3>6. sum[m - 1] + k \in 1..Len(a)
      <4>1. k \in 1..Len(seqs[m])
        OBVIOUS
      <4>2. Len(a) = sum[i - 1]
        BY <1>1
      <4> QED
        BY <3>3, <3>4, <4>1, <4>2
    <3>7. (a \o b)[sum[m - 1] + k] = a[sum[m - 1] + k]
      BY <1>2, <3>6
    <3> QED
      BY <3>5, <3>7
  <2> QED
    BY <2>1, <2>2
<1> QED
  BY <1>1, <1>2, <1>3 DEF Flattens

(* Every element of a concatenation is an element of one of its            *)
(* sequences, at its offset.                                               *)
LEMMA FlattenFacts ==
    ASSUME NEW S, NEW seqs \in Seq(Seq(S))
    PROVE  FlattenSeq(seqs) \in Seq(S) /\ Flattens(FlattenSeq(seqs), seqs, Len(seqs))
<1> DEFINE n == Len(seqs)
<1>1. n \in Nat
  BY LengthsFacts
<1>2. Flattens(<<>>, seqs, 0) /\ <<>> \in Seq(S)
  BY LengthsFacts DEF Flattens
<1>3. CASE n = 0
  BY <1>2, <1>3 DEF FlattenSeq
<1>4. CASE n # 0
  <2>1. PICK g : IsFlattenUpTo(seqs, n, g) /\ FlattenSeq(seqs) = g[n]
    BY <1>1, <1>4, FlattenUnfolds
  <2> DEFINE T == {i \in 0..n : i # 0 => g[i] \in Seq(S) /\ Flattens(g[i], seqs, i)}
  <2>2. 0 \in T
    BY <1>1
  <2>3. ASSUME NEW i \in 1..n, i - 1 \in T
        PROVE  i \in T
    <3>1. g[i] = IF i = 1 THEN seqs[i] ELSE g[i - 1] \o seqs[i]
      BY <2>1 DEF IsFlattenUpTo
    <3>2. seqs[i] \in Seq(S)
      BY LengthsFacts
    <3>3. CASE i = 1
      <4>1. g[i] = <<>> \o seqs[i]
        BY <3>1, <3>2, <3>3
      <4>2. Flattens(<<>>, seqs, i - 1)
        BY <1>2, <3>3
      <4>3. Flattens(<<>> \o seqs[i], seqs, i)
        BY <1>2, <4>2, FlattenStep
      <4> QED
        BY <3>1, <3>2, <3>3, <4>1, <4>3
    <3>4. CASE i # 1
      <4>1. g[i - 1] \in Seq(S) /\ Flattens(g[i - 1], seqs, i - 1)
        BY <1>1, <2>3, <3>4
      <4>2. Flattens(g[i - 1] \o seqs[i], seqs, i)
        BY <4>1, FlattenStep
      <4>3. g[i - 1] \o seqs[i] \in Seq(S)
        BY <3>2, <4>1
      <4>4. g[i] \in Seq(S) /\ Flattens(g[i], seqs, i)
        BY <3>1, <3>4, <4>2, <4>3, Zenon
      <4> QED
        BY <1>1, <4>4
    <3> QED
      BY <3>3, <3>4
  <2> HIDE DEF T
  <2>4. 0..n \subseteq T
    BY <1>1, <2>2, <2>3, Induction
  <2>5. n \in T
    BY <1>1, <2>4
  <2> QED
    BY <1>4, <2>1, <2>5 DEF T
<1> QED
  BY <1>3, <1>4

-----------------------------------------------------------------------------
(* A least member of a set of integers is its Min.                         *)
LEMMA LeastIsMin ==
    ASSUME NEW S, NEW x \in S, S \subseteq Int, \A y \in S : x <= y
    PROVE  Min(S) = x
<1>1. \A z \in S : (\A y \in S : z <= y) => z = x
  OBVIOUS
<1> QED
  BY <1>1 DEF Min

(* A greatest member of a set of integers is its Max.                      *)
LEMMA GreatestIsMax ==
    ASSUME NEW S, NEW x \in S, S \subseteq Int, \A y \in S : x >= y
    PROVE  Max(S) = x
<1>1. \A z \in S : (\A y \in S : z >= y) => z = x
  OBVIOUS
<1> QED
  BY <1>1 DEF Max

(* The smallest of one integer.                                            *)
LEMMA MinOfOne ==
    ASSUME NEW n \in Int
    PROVE  Min({n}) = n
<1>1. n \in {n} /\ {n} \subseteq Int /\ \A y \in {n} : n <= y
  OBVIOUS
<1>2. PICK S : S = {n}
  OBVIOUS
<1> QED
  BY <1>1, <1>2, LeastIsMin

(* Sequences and their slices.                                             *)
LEMMA EmptySeq ==
    ASSUME NEW S, NEW s \in Seq(S)
    PROVE  /\ Len(s) \in Nat
           /\ s = <<>> <=> Len(s) = 0
           /\ s # <<>> => Len(s) \in Nat \ {0}
OBVIOUS

(* The slice of a whole sequence is the sequence.                          *)
LEMMA WholeSlice ==
    ASSUME NEW S, NEW s \in Seq(S), Len(s) \in Nat \ {0}
    PROVE  SubSeq(s, 1, Len(s)) = s
<1>1. \A k \in 1..Len(s) : SubSeq(s, 1, Len(s))[k] = s[k]
  OBVIOUS
<1>2. SubSeq(s, 1, Len(s)) \in Seq(S) /\ Len(SubSeq(s, 1, Len(s))) = Len(s)
  OBVIOUS
<1> QED
  BY <1>1, <1>2

(* Two slices that touch make one.                                         *)
LEMMA SlicesJoin ==
    ASSUME NEW S, NEW s \in Seq(S), NEW a \in Nat, NEW b \in Nat, NEW c \in Nat,
           1 <= a, a <= b + 1, b <= c, c <= Len(s)
    PROVE  SubSeq(s, a, b) \o SubSeq(s, b + 1, c) = SubSeq(s, a, c)
<1>1. /\ SubSeq(s, a, b) \in Seq(S) /\ Len(SubSeq(s, a, b)) = b - a + 1
      /\ \A k \in 1..(b - a + 1) : SubSeq(s, a, b)[k] = s[a + k - 1]
  BY SubSeqFacts
<1>2. /\ SubSeq(s, b + 1, c) \in Seq(S) /\ Len(SubSeq(s, b + 1, c)) = c - (b + 1) + 1
      /\ \A k \in 1..(c - (b + 1) + 1) : SubSeq(s, b + 1, c)[k] = s[(b + 1) + k - 1]
  BY SubSeqFacts
<1>3. /\ SubSeq(s, a, c) \in Seq(S) /\ Len(SubSeq(s, a, c)) = c - a + 1
      /\ \A k \in 1..(c - a + 1) : SubSeq(s, a, c)[k] = s[a + k - 1]
  BY SubSeqFacts
<1>4. PICK x \in Seq(S), y \in Seq(S), z \in Seq(S) :
         x = SubSeq(s, a, b) /\ y = SubSeq(s, b + 1, c) /\ z = SubSeq(s, a, c)
  BY <1>1, <1>2, <1>3
<1>5. /\ x \o y \in Seq(S) /\ Len(x \o y) = Len(x) + Len(y)
      /\ \A k \in 1..Len(x) : (x \o y)[k] = x[k]
      /\ \A k \in 1..Len(y) : (x \o y)[Len(x) + k] = y[k]
  BY ConcatFacts
<1>6. Len(x) = b - a + 1 /\ Len(y) = c - b /\ Len(z) = c - a + 1 /\ Len(x \o y) = Len(z)
  BY <1>1, <1>2, <1>3, <1>4, <1>5
<1>7. ASSUME NEW k \in 1..Len(z)
      PROVE  (x \o y)[k] = z[k]
  <2>1. z[k] = s[a + k - 1]
    BY <1>3, <1>4, <1>6
  <2>2. CASE k <= b - a + 1
    <3>1. k \in 1..Len(x)
      BY <1>6, <2>2
    <3> QED
      BY <1>1, <1>4, <1>5, <1>6, <2>1, <3>1
  <2>3. CASE k > b - a + 1
    <3>1. PICK j \in 1..(c - b) : k = (b - a + 1) + j
      <4>1. k - (b - a + 1) \in 1..(c - b) /\ k = (b - a + 1) + (k - (b - a + 1))
        BY <1>6, <2>3
      <4> QED
        BY <4>1
    <3>2. (x \o y)[k] = y[j]
      BY <1>5, <1>6, <3>1
    <3>3. y[j] = s[(b + 1) + j - 1] /\ (b + 1) + j - 1 = a + k - 1
      BY <1>2, <1>4, <3>1
    <3> QED
      BY <2>1, <3>2, <3>3
  <2>4. k <= b - a + 1 \/ k > b - a + 1
    <3>1. k \in 1..(c - a + 1)
      BY <1>6
    <3> QED
      BY <3>1
  <2> QED
    BY <2>2, <2>3, <2>4
<1>8. x \o y = z
  <2>1. PICK w \in Seq(S) : w = x \o y
    BY <1>5
  <2>2. Len(w) = Len(z) /\ \A k \in 1..Len(z) : w[k] = z[k]
    BY <1>6, <1>7, <2>1
  <2>3. w = z
    BY <2>2
  <2> QED
    BY <2>1, <2>3
<1> QED
  BY <1>4, <1>8

(* Slices and sequences of one or two elements.                            *)
LEMMA OneLong ==
    ASSUME NEW S, NEW s \in Seq(S), Len(s) = 1
    PROVE  s = <<s[1]>>
OBVIOUS

(* A slice of one element.                                                 *)
LEMMA SliceOfOne ==
    ASSUME NEW S, NEW s \in Seq(S), NEW i \in 1..Len(s)
    PROVE  SubSeq(s, i, i) = <<s[i]>>
<1>1. i \in Nat /\ 1 <= i /\ i <= i + 1 /\ i <= Len(s) /\ i - i + 1 = 1
  OBVIOUS
<1>5. /\ SubSeq(s, i, i) \in Seq(S) /\ Len(SubSeq(s, i, i)) = i - i + 1
      /\ \A k \in 1..(i - i + 1) : SubSeq(s, i, i)[k] = s[i + k - 1]
  BY <1>1, SubSeqFacts
<1>2. PICK x \in Seq(S) : /\ x = SubSeq(s, i, i) /\ Len(x) = 1
                          /\ \A k \in 1..1 : x[k] = s[i + k - 1]
  <2>1. PICK x \in Seq(S) : x = SubSeq(s, i, i)
    BY <1>5
  <2> QED
    BY <1>1, <1>5, <2>1
<1>3. x[1] = s[i]
  <2>1. i + 1 - 1 = i /\ 1 \in 1..1
    BY <1>1
  <2>2. x[1] = s[i + 1 - 1]
    BY <1>2, <2>1
  <2> QED
    BY <2>1, <2>2
<1>4. x = <<s[i]>>
  <2>1. x = <<x[1]>>
    BY <1>2, OneLong
  <2> QED
    BY <1>3, <2>1
<1> QED
  BY <1>2, <1>4

(* The first two elements as a slice.                                      *)
LEMMA SliceOfTwo ==
    ASSUME NEW S, NEW s \in Seq(S), Len(s) >= 2
    PROVE  SubSeq(s, 1, 2) = <<s[1], s[2]>>
<1>1. /\ SubSeq(s, 1, 2) \in Seq(S) /\ Len(SubSeq(s, 1, 2)) = 2 - 1 + 1
      /\ \A k \in 1..(2 - 1 + 1) : SubSeq(s, 1, 2)[k] = s[1 + k - 1]
  <2>1. 1 \in Nat /\ 2 \in Nat /\ 1 <= 1 /\ 1 <= 2 + 1 /\ 2 <= Len(s)
    OBVIOUS
  <2> QED
    BY <2>1, SubSeqFacts
<1>2. PICK x \in Seq(S) : x = SubSeq(s, 1, 2)
  BY <1>1
<1>3. 2 - 1 + 1 = 2 /\ 1 \in 1..2 /\ 2 \in 1..2 /\ 1 + 1 - 1 = 1 /\ 1 + 2 - 1 = 2
  OBVIOUS
<1>4. Len(x) = 2 /\ x[1] = s[1] /\ x[2] = s[2]
  BY <1>1, <1>2, <1>3
<1>5. x = <<x[1], x[2]>>
  BY <1>4
<1> QED
  BY <1>2, <1>4, <1>5

(* The same of two elements written down.                                  *)
LEMMA SliceOfPair ==
    \A a, b : Len(<<a, b>>) = 2 /\ SubSeq(<<a, b>>, 1, 2) = <<a, b>>
<1> SUFFICES ASSUME NEW a, NEW b
             PROVE  Len(<<a, b>>) = 2 /\ SubSeq(<<a, b>>, 1, 2) = <<a, b>>
  OBVIOUS
<1>1. PICK S : S = {a, b}
  OBVIOUS
<1>2. <<a, b>> \in Seq(S)
  BY <1>1
<1>3. PICK s \in Seq(S) : s = <<a, b>>
  BY <1>2
<1>4. Len(s) = 2 /\ s[1] = a /\ s[2] = b
  BY <1>3
<1>5. Len(s) >= 2
  BY <1>4
<1>6. SubSeq(s, 1, 2) = <<s[1], s[2]>>
  BY ONLY s \in Seq(S), <1>5, SliceOfTwo
<1> QED
  BY <1>3, <1>4, <1>6

(* A sequence that is not empty, from its head and its tail.               *)
LEMMA TailFacts ==
    ASSUME NEW S, NEW s \in Seq(S), s # <<>>
    PROVE  /\ Tail(s) \in Seq(S) /\ Len(Tail(s)) = Len(s) - 1 /\ Head(s) = s[1]
           /\ \A k \in 1..(Len(s) - 1) : Tail(s)[k] = s[k + 1]
           /\ s = <<Head(s)>> \o Tail(s)
<1>1. /\ Tail(s) \in Seq(S) /\ Len(Tail(s)) = Len(s) - 1 /\ Head(s) = s[1]
      /\ \A k \in 1..(Len(s) - 1) : Tail(s)[k] = s[k + 1]
  OBVIOUS
<1>2. s = <<Head(s)>> \o Tail(s)
  OBVIOUS
<1> QED
  BY <1>1, <1>2

(* Concatenation, and sequences of sequences.                              *)
LEMMA ConcatAssociates ==
    ASSUME NEW S, NEW a \in Seq(S), NEW b \in Seq(S), NEW c \in Seq(S)
    PROVE  (a \o b) \o c = a \o (b \o c)
OBVIOUS

(* The empty sequence adds nothing.                                        *)
LEMMA ConcatEmpty ==
    ASSUME NEW S, NEW a \in Seq(S)
    PROVE  a \o <<>> = a /\ <<>> \o a = a
OBVIOUS

(* The concatenation of one sequence, and of none.                         *)
LEMMA FlattenOne ==
    ASSUME NEW S, NEW x \in Seq(S)
    PROVE  FlattenSeq(<<x>>) = x /\ FlattenSeq(<<>>) = <<>>
<1>1. PICK seqs \in Seq(Seq(S)) : seqs = <<x>>
  <2>1. <<x>> \in Seq(Seq(S))
    OBVIOUS
  <2> QED
    BY <2>1
<1>2. Len(seqs) = 1 /\ seqs[1] = x /\ seqs # <<>>
  BY <1>1
<1>3. PICK g : IsFlattenUpTo(seqs, Len(seqs), g) /\ FlattenSeq(seqs) = g[Len(seqs)]
  <2>1. Len(seqs) \in Nat \ {0}
    BY <1>2
  <2> QED
    BY <2>1, FlattenUnfolds
<1>4. g[1] = seqs[1]
  <2>1. 1 \in 1..Len(seqs)
    BY <1>2
  <2> QED
    BY <1>3, <2>1 DEF IsFlattenUpTo
<1>5. FlattenSeq(<<>>) = <<>>
  BY DEF FlattenSeq
<1> QED
  BY <1>1, <1>2, <1>3, <1>4, <1>5

(* The concatenation of a first sequence and the others.                   *)
LEMMA FlattenCons ==
    ASSUME NEW S, NEW x \in Seq(S), NEW rest \in Seq(Seq(S))
    PROVE  FlattenSeq(<<x>> \o rest) = x \o FlattenSeq(rest)
<1>1. PICK seqs \in Seq(Seq(S)), n \in Nat :
         /\ seqs = <<x>> \o rest /\ n = Len(rest) /\ Len(seqs) = n + 1 /\ seqs[1] = x
         /\ \A k \in 1..n : seqs[k + 1] = rest[k]
  <2>1. PICK one \in Seq(Seq(S)) : one = <<x>> /\ Len(one) = 1 /\ one[1] = x
    <3>1. <<x>> \in Seq(Seq(S))
      OBVIOUS
    <3> QED
      BY <3>1
  <2>2. PICK n \in Nat : n = Len(rest)
    OBVIOUS
  <2>3. /\ one \o rest \in Seq(Seq(S)) /\ Len(one \o rest) = 1 + n
        /\ \A k \in 1..1 : (one \o rest)[k] = one[k]
        /\ \A k \in 1..n : (one \o rest)[1 + k] = rest[k]
    BY <2>1, <2>2, ConcatFacts
  <2>4. PICK seqs \in Seq(Seq(S)) : seqs = one \o rest
    BY <2>3
  <2>5. Len(seqs) = n + 1 /\ seqs[1] = x /\ \A k \in 1..n : seqs[k + 1] = rest[k]
    <3>1. \A k \in 1..n : 1 + k = k + 1
      OBVIOUS
    <3>2. 1 \in 1..1 /\ 1 + n = n + 1
      OBVIOUS
    <3> QED
      BY <2>1, <2>3, <2>4, <3>1, <3>2
  <2> QED
    BY <2>1, <2>2, <2>4, <2>5
<1>2. CASE n = 0
  <2>1. rest = <<>>
    BY <1>1, <1>2, EmptySeq
  <2>2. seqs = <<x>>
    <3>1. Len(seqs) = 1
      BY <1>1, <1>2
    <3>2. seqs = <<seqs[1]>>
      BY <3>1, OneLong
    <3> QED
      BY <1>1, <3>2
  <2>3. x \o <<>> = x
    BY ConcatEmpty
  <2> QED
    BY <1>1, <2>1, <2>2, <2>3, FlattenOne
<1>3. CASE n # 0
  <2>1. PICK g : IsFlattenUpTo(seqs, n + 1, g) /\ FlattenSeq(seqs) = g[n + 1]
    <3>1. Len(seqs) \in Nat \ {0}
      BY <1>1
    <3> QED
      BY <1>1, <3>1, FlattenUnfolds
  <2>2. PICK h : IsFlattenUpTo(rest, n, h) /\ FlattenSeq(rest) = h[n]
    <3>1. Len(rest) \in Nat \ {0}
      BY <1>1, <1>3
    <3> QED
      BY <1>1, <3>1, FlattenUnfolds
  <2>3. \A i \in 1..(n + 1) : g[i] = IF i = 1 THEN seqs[i] ELSE g[i - 1] \o seqs[i]
    BY <2>1, Zenon DEF IsFlattenUpTo
  <2>4. \A i \in 1..n : h[i] = IF i = 1 THEN rest[i] ELSE h[i - 1] \o rest[i]
    BY <2>2, Zenon DEF IsFlattenUpTo
  <2>5. \A i \in 1..n : rest[i] \in Seq(S)
    BY <1>1
  <2> DEFINE Same(k) == k # 0 => h[k] \in Seq(S) /\ g[k + 1] = x \o h[k]
             T == {k \in 0..n : Same(k)}
  <2>6. 0 \in T
    <3>1. Same(0) /\ 0 \in 0..n
      OBVIOUS
    <3> HIDE DEF Same
    <3> QED
      BY <3>1
  <2>7. ASSUME NEW k \in 1..n, k - 1 \in T
        PROVE  k \in T
    <3>0. k - 1 # 0 => h[k - 1] \in Seq(S) /\ g[(k - 1) + 1] = x \o h[k - 1]
      BY <2>7
    <3> HIDE DEF T, Same
    <3>1. k + 1 \in 1..(n + 1) /\ k + 1 # 1 /\ (k + 1) - 1 = k
      OBVIOUS
    <3>2. g[k + 1] = g[k] \o seqs[k + 1] /\ seqs[k + 1] = rest[k]
      <4>1. g[k + 1] = g[(k + 1) - 1] \o seqs[k + 1]
        BY <2>3, <3>1, Zenon
      <4> QED
        BY <1>1, <3>1, <4>1
    <3>3. ASSUME k = 1
          PROVE  h[k] \in Seq(S) /\ g[k + 1] = x \o h[k]
      <4>1. 1 \in 1..(n + 1) /\ 1 \in 1..n
        BY <3>3
      <4>2. g[1] = x
        BY <1>1, <2>3, <4>1
      <4>3. h[1] = rest[1]
        BY <2>4, <4>1
      <4> QED
        BY <2>5, <3>1, <3>2, <3>3, <4>1, <4>2, <4>3
    <3>4. ASSUME k # 1
          PROVE  h[k] \in Seq(S) /\ g[k + 1] = x \o h[k]
      <4>1. PICK y \in Seq(S) : y = h[k - 1] /\ g[k] = x \o y
        <5>1. (k - 1) + 1 = k /\ k - 1 # 0
          BY <3>4
        <5>2. h[k - 1] \in Seq(S) /\ g[(k - 1) + 1] = x \o h[k - 1]
          BY <3>0, <5>1
        <5> QED
          BY <5>1, <5>2
      <4>3. PICK z \in Seq(S) : z = rest[k]
        BY <2>5
      <4>2. h[k] = y \o z
        <5>1. h[k] = h[k - 1] \o rest[k]
          BY <2>4, <3>4, Zenon
        <5> QED
          BY <4>1, <4>3, <5>1
      <4>4. (x \o y) \o z = x \o (y \o z) /\ y \o z \in Seq(S)
        <5>1. (x \o y) \o z = x \o (y \o z)
          BY ConcatAssociates
        <5>2. y \o z \in Seq(S)
          BY ConcatFacts
        <5> QED
          BY <5>1, <5>2
      <4>5. g[k + 1] = (x \o y) \o z
        BY <3>2, <4>1, <4>3
      <4> QED
        BY <4>2, <4>4, <4>5
    <3>5. Same(k)
      BY <3>3, <3>4 DEF Same
    <3> QED
      BY <3>5 DEF T
  <2> HIDE DEF T
  <2>8. 0..n \subseteq T
    BY <2>6, <2>7, Induction
  <2>9. n \in T
    BY <2>8
  <2>10. g[n + 1] = x \o h[n]
    BY <1>3, <2>9 DEF T
  <2> QED
    BY <1>1, <2>1, <2>2, <2>10
<1> QED
  BY <1>2, <1>3

(* A sequence from its first element and the others.                       *)
LEMMA ConsFacts ==
    ASSUME NEW S, NEW s \in Seq(S), NEW rest \in Seq(S), NEW c \in S,
           Len(s) = Len(rest) + 1, s[1] = c, \A k \in 1..Len(rest) : s[k + 1] = rest[k]
    PROVE  s = <<c>> \o rest
<1>1. PICK one \in Seq(S) : one = <<c>> /\ Len(one) = 1 /\ one[1] = c
  <2>1. <<c>> \in Seq(S)
    OBVIOUS
  <2> QED
    BY <2>1
<1>2. PICK n \in Nat : n = Len(rest)
  OBVIOUS
<1>3. /\ one \o rest \in Seq(S) /\ Len(one \o rest) = 1 + n
      /\ \A k \in 1..1 : (one \o rest)[k] = one[k]
      /\ \A k \in 1..n : (one \o rest)[1 + k] = rest[k]
  BY <1>1, <1>2, ConcatFacts
<1>4. PICK t \in Seq(S) : t = one \o rest
  BY <1>3
<1>5. Len(t) = n + 1 /\ Len(s) = n + 1 /\ t[1] = c /\ \A k \in 1..n : t[1 + k] = rest[k]
  <2>1. 1 \in 1..1 /\ 1 + n = n + 1
    OBVIOUS
  <2> QED
    BY <1>1, <1>2, <1>3, <1>4, <2>1
<1>6. ASSUME NEW k \in 1..(n + 1)
      PROVE  s[k] = t[k]
  <2>1. CASE k = 1
    BY <1>5, <2>1
  <2>2. CASE k # 1
    <3>1. PICK j \in 1..n : k = j + 1 /\ k = 1 + j
      <4>1. k - 1 \in 1..n /\ k = (k - 1) + 1 /\ k = 1 + (k - 1)
        BY <2>2
      <4> QED
        BY <4>1
    <3>2. s[k] = rest[j] /\ t[k] = rest[j]
      BY <1>2, <1>5, <3>1
    <3> QED
      BY <3>2
  <2> QED
    BY <2>1, <2>2
<1>7. s = t
  BY <1>5, <1>6
<1> QED
  BY <1>1, <1>4, <1>7

(* Slices with their first, or their last, element apart.                  *)
LEMMA SliceFromFirst ==
    ASSUME NEW S, NEW data \in Seq(S), NEW i \in 1..Len(data), NEW b \in i..Len(data)
    PROVE  /\ <<data[i]>> \o SubSeq(data, i + 1, b) = SubSeq(data, i, b)
           /\ <<data[i]>> \in Seq(S) /\ SubSeq(data, i + 1, b) \in Seq(S)
<1>0. Len(data) \in Nat
  OBVIOUS
<1>1. SubSeq(data, i, i) \o SubSeq(data, i + 1, b) = SubSeq(data, i, b)
  <2>1. i \in Nat /\ b \in Nat /\ 1 <= i /\ i <= i + 1 /\ i <= b /\ b <= Len(data)
    BY <1>0
  <2> QED
    BY <2>1, SlicesJoin
<1>2. SubSeq(data, i, i) = <<data[i]>>
  BY SliceOfOne
<1>3. <<data[i]>> \in Seq(S)
  OBVIOUS
<1>4. SubSeq(data, i + 1, b) \in Seq(S)
  <2>1. i + 1 \in Nat /\ b \in Nat /\ 1 <= i + 1 /\ i + 1 <= b + 1 /\ b <= Len(data)
    BY <1>0
  <2> QED
    BY <2>1, SubSeqFacts
<1> QED
  BY <1>1, <1>2, <1>3, <1>4

(* A slice is the one without its last element, and that element.          *)
LEMMA SliceToLast ==
    ASSUME NEW S, NEW data \in Seq(S), NEW a \in 1..Len(data), NEW b \in a..Len(data)
    PROVE  /\ SubSeq(data, a, b - 1) \o <<data[b]>> = SubSeq(data, a, b)
           /\ SubSeq(data, a, b - 1) \in Seq(S) /\ <<data[b]>> \in Seq(S)
<1>0. Len(data) \in Nat
  OBVIOUS
<1>1. PICK c \in Nat : c = b - 1 /\ c + 1 = b /\ b \in 1..Len(data)
  <2>1. b - 1 \in Nat /\ b - 1 + 1 = b /\ b \in 1..Len(data)
    BY <1>0
  <2> QED
    BY <2>1
<1>2. SubSeq(data, a, c) \o SubSeq(data, c + 1, b) = SubSeq(data, a, b)
  <2>1. a \in Nat /\ b \in Nat /\ 1 <= a /\ a <= c + 1 /\ c <= b /\ b <= Len(data)
    BY <1>0, <1>1
  <2> QED
    BY <2>1, SlicesJoin
<1>3. SubSeq(data, c + 1, b) = <<data[b]>>
  BY <1>1, SliceOfOne
<1>4. <<data[b]>> \in Seq(S)
  BY <1>1
<1>5. SubSeq(data, a, c) \in Seq(S)
  <2>1. a \in Nat /\ 1 <= a /\ a <= c + 1 /\ c <= Len(data)
    BY <1>0, <1>1
  <2> QED
    BY <2>1, SubSeqFacts
<1> QED
  BY <1>1, <1>2, <1>3, <1>4, <1>5

(* Elements of sequences.                                                  *)
LEMMA InSubset ==
    ASSUME NEW S, NEW P, NEW s \in Seq(S), \A k \in 1..Len(s) : s[k] \in P
    PROVE  s \in Seq(P)
OBVIOUS

(* An element of a sequence over S is in S.                                *)
LEMMA ElementOf ==
    ASSUME NEW S, NEW s \in Seq(S), NEW k \in 1..Len(s)
    PROVE  s[k] \in S /\ s[k] \in Range(s)
BY DEF Range

(* The parts of a sequence before and from its k-th element.               *)
LEMMA SliceBefore ==
    ASSUME NEW S, NEW s \in Seq(S), NEW k \in 1..(Len(s) + 1)
    PROVE  /\ SubSeq(s, 1, k - 1) \in Seq(S)
           /\ Len(SubSeq(s, 1, k - 1)) = k - 1
           /\ \A j \in 1..(k - 1) : SubSeq(s, 1, k - 1)[j] = s[j]
<1>1. PICK b \in Nat : b = k - 1
  <2>1. k - 1 \in Nat
    OBVIOUS
  <2> QED
    BY <2>1
<1>2. 1 \in Nat /\ 1 <= 1 /\ 1 <= b + 1 /\ b <= Len(s)
  BY <1>1
<1>3. /\ SubSeq(s, 1, b) \in Seq(S) /\ Len(SubSeq(s, 1, b)) = b - 1 + 1
      /\ \A j \in 1..(b - 1 + 1) : SubSeq(s, 1, b)[j] = s[1 + j - 1]
  BY <1>2, SubSeqFacts
<1>4. b - 1 + 1 = b /\ \A j \in 1..b : 1 + j - 1 = j
  OBVIOUS
<1>5. \A j \in 1..b : SubSeq(s, 1, b)[j] = s[j]
  BY <1>3, <1>4
<1> QED
  BY <1>1, <1>3, <1>4, <1>5

(* The elements of a slice that reaches the end.                           *)
LEMMA SliceAfter ==
    ASSUME NEW S, NEW s \in Seq(S), NEW k \in 1..(Len(s) + 1)
    PROVE  /\ SubSeq(s, k, Len(s)) \in Seq(S)
           /\ Len(SubSeq(s, k, Len(s))) = Len(s) - k + 1
           /\ \A j \in 1..(Len(s) - k + 1) : SubSeq(s, k, Len(s))[j] = s[k + j - 1]
<1>1. k \in Nat /\ Len(s) \in Nat /\ 1 <= k /\ k <= Len(s) + 1 /\ Len(s) <= Len(s)
  OBVIOUS
<1> QED
  BY <1>1, SubSeqFacts

(* What InsertAt does: the elements before the place stay, those from it   *)
(* on move up.                                                             *)
LEMMA SymbolInserted ==
    ASSUME NEW S, NEW s \in Seq(S), NEW k \in 1..(Len(s) + 1), NEW c \in S
    PROVE  /\ Len(InsertAt(s, k, c)) = Len(s) + 1
           /\ \A j \in 1..(Len(s) + 1) :
                 /\ j < k => InsertAt(s, k, c)[j] = s[j]
                 /\ j > k => InsertAt(s, k, c)[j] = s[j - 1]
<1>1. PICK len \in Nat : len = Len(s)
  OBVIOUS
<1>2. PICK before \in Seq(S), after \in Seq(S), one \in Seq(S) :
         before = SubSeq(s, 1, k - 1) /\ after = SubSeq(s, k, Len(s)) /\ one = <<c>>
  <2>1. SubSeq(s, 1, k - 1) \in Seq(S) /\ SubSeq(s, k, Len(s)) \in Seq(S)
    BY SliceBefore, SliceAfter
  <2>2. <<c>> \in Seq(S)
    OBVIOUS
  <2> QED
    BY <2>1, <2>2
<1>3. /\ Len(before) = k - 1 /\ Len(after) = len - k + 1 /\ Len(one) = 1
      /\ \A j \in 1..(k - 1) : before[j] = s[j]
      /\ \A j \in 1..(len - k + 1) : after[j] = s[k + j - 1]
  BY <1>1, <1>2, SliceBefore, SliceAfter
<1>4. PICK head \in Seq(S) : head = before \o one
  BY ConcatFacts
<1>5. PICK t \in Seq(S) : t = head \o after
  BY ConcatFacts
<1>6. t = InsertAt(s, k, c)
  BY <1>2, <1>4, <1>5 DEF InsertAt
<1>7. Len(head) = Len(before) + Len(one) /\ \A j \in 1..Len(before) : head[j] = before[j]
  BY <1>4, ConcatFacts
<1>8. Len(head) = k /\ \A j \in 1..(k - 1) : head[j] = s[j]
  BY <1>1, <1>3, <1>7
<1>9. Len(t) = Len(head) + Len(after)
  BY <1>5, ConcatFacts
<1>10. \A j \in 1..Len(head) : t[j] = head[j]
  BY <1>5, ConcatFacts
<1>11. \A j \in 1..Len(after) : t[Len(head) + j] = after[j]
  BY <1>5, ConcatFacts
<1>12. Len(t) = len + 1
  BY <1>1, <1>3, <1>8, <1>9
<1>13. \A j \in 1..(len - k + 1) : t[k + j] = s[k + j - 1]
  BY <1>1, <1>3, <1>8, <1>11
<1>14. ASSUME NEW j \in 1..(len + 1)
       PROVE  (j < k => t[j] = s[j]) /\ (j > k => t[j] = s[j - 1])
  <2>1. CASE j < k
    <3>1. j \in 1..(k - 1) /\ j \in 1..Len(head)
      BY <1>1, <1>8, <2>1
    <3>2. t[j] = head[j] /\ head[j] = s[j]
      BY <1>8, <1>10, <3>1
    <3>3. ~(j > k)
      BY <1>1, <2>1
    <3> QED
      BY <3>2, <3>3
  <2>2. CASE j > k
    <3>1. PICK i \in 1..(len - k + 1) : i = j - k
      BY <1>1, <2>2
    <3>2. k + i = j /\ k + i - 1 = j - 1
      BY <1>1, <3>1
    <3>3. t[k + i] = s[k + i - 1]
      BY <1>13
    <3>4. ~(j < k)
      BY <1>1, <2>2
    <3> QED
      BY <3>2, <3>3, <3>4
  <2>3. j < k \/ j > k \/ j = k
    BY <1>1
  <2> QED
    BY <1>1, <2>1, <2>2, <2>3
<1> QED
  BY <1>1, <1>6, <1>12, <1>14

(* What RemoveAt does: the elements before the place stay, those after it  *)
(* move down.                                                              *)
LEMMA SymbolRemoved ==
    ASSUME NEW S, NEW s \in Seq(S), NEW k \in 1..Len(s)
    PROVE  /\ Len(RemoveAt(s, k)) = Len(s) - 1
           /\ \A j \in 1..(Len(s) - 1) :
                 /\ j < k => RemoveAt(s, k)[j] = s[j]
                 /\ j >= k => RemoveAt(s, k)[j] = s[j + 1]
<1>1. PICK len \in Nat : len = Len(s)
  OBVIOUS
<1>2. PICK m \in 1..(Len(s) + 1) : m = k + 1 /\ k \in 1..(Len(s) + 1)
  BY <1>1
<1>3. PICK before \in Seq(S), after \in Seq(S) :
         before = SubSeq(s, 1, k - 1) /\ after = SubSeq(s, m, Len(s))
  BY <1>2, SliceBefore, SliceAfter
<1>4. /\ Len(before) = k - 1 /\ Len(after) = len - m + 1
      /\ \A j \in 1..(k - 1) : before[j] = s[j]
      /\ \A j \in 1..(len - m + 1) : after[j] = s[m + j - 1]
  BY <1>1, <1>2, <1>3, SliceBefore, SliceAfter
<1>5. PICK t \in Seq(S) : t = before \o after
  BY ConcatFacts
<1>6. t = RemoveAt(s, k)
  BY <1>2, <1>3, <1>5 DEF RemoveAt
<1>7. Len(t) = Len(before) + Len(after)
  BY <1>5, ConcatFacts
<1>8. \A j \in 1..Len(before) : t[j] = before[j]
  BY <1>5, ConcatFacts
<1>9. \A j \in 1..Len(after) : t[Len(before) + j] = after[j]
  BY <1>5, ConcatFacts
<1>10. Len(t) = len - 1
  BY <1>1, <1>2, <1>4, <1>7
<1>11. \A j \in 1..(len - m + 1) : t[(k - 1) + j] = s[m + j - 1]
  BY <1>1, <1>2, <1>4, <1>9
<1>12. ASSUME NEW j \in 1..(len - 1)
       PROVE  (j < k => t[j] = s[j]) /\ (j >= k => t[j] = s[j + 1])
  <2>1. CASE j < k
    <3>1. j \in 1..(k - 1) /\ j \in 1..Len(before)
      BY <1>1, <1>4, <2>1
    <3> QED
      BY <1>4, <1>8, <2>1, <3>1
  <2>2. CASE j >= k
    <3>1. PICK i \in 1..(len - m + 1) : i = j - k + 1
      BY <1>1, <1>2, <2>2
    <3>2. (k - 1) + i = j /\ m + i - 1 = j + 1
      BY <1>1, <1>2, <3>1
    <3>3. t[(k - 1) + i] = s[m + i - 1]
      BY <1>11
    <3>4. ~(j < k)
      BY <1>1, <2>2
    <3> QED
      BY <3>2, <3>3, <3>4
  <2>3. j < k \/ j >= k
    BY <1>1
  <2> QED
    BY <1>1, <2>1, <2>2, <2>3
<1> QED
  BY <1>1, <1>6, <1>10, <1>12

(* One symbol of damage: where each symbol of the damaged text comes from. *)
LEMMA SymbolChanged ==
    ASSUME NEW S, NEW s \in Seq(S), NEW k \in DOMAIN s, NEW c \in S
    PROVE  /\ Len([s EXCEPT ![k] = c]) = Len(s)
           /\ \A j \in 1..Len(s) : j # k => [s EXCEPT ![k] = c][j] = s[j]
OBVIOUS

(* A sequence of one element.                                              *)
LEMMA OneSymbol ==
    \A c : Len(<<c>>) = 1 /\ <<c>>[1] = c
OBVIOUS

(* Sequences with one element changed, inserted or removed.                *)
LEMMA DamagedTexts ==
    ASSUME NEW S, NEW s \in Seq(S), NEW c \in S
    PROVE  /\ \A k \in DOMAIN s : [s EXCEPT ![k] = c] \in Seq(S)
           /\ \A k \in 1..(Len(s) + 1) : InsertAt(s, k, c) \in Seq(S)
BY DEF InsertAt

(* A sequence over S without one of its elements is one over S.            *)
LEMMA ShortenedTexts ==
    ASSUME NEW S, NEW s \in Seq(S)
    PROVE  \A k \in DOMAIN s : RemoveAt(s, k) \in Seq(S)
BY DEF RemoveAt

(* Division by ten.                                                        *)
LEMMA TenthFacts ==
    ASSUME NEW n \in Nat
    PROVE  /\ n \div 10 \in Nat /\ n % 10 \in 0..9 /\ n = 10 * (n \div 10) + (n % 10)
           /\ n >= 10 => n \div 10 \in 1..(n - 1)
OBVIOUS

(* The quotient and the remainder of a number by ten are its other digits  *)
(* and its last one.                                                       *)
LEMMA TenfoldFacts ==
    ASSUME NEW n \in Nat, NEW d \in 0..9
    PROVE  (10 * n + d) \div 10 = n /\ (10 * n + d) % 10 = d
OBVIOUS
=============================================================================
