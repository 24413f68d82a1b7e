---------------------------- MODULE JobLogProofs ----------------------------
(***************************************************************************)
(* Proofs about JobLog: the ring stays bounded and in order, its markers   *)
(* count no byte twice, and a controller that follows it misses nothing in *)
(* silence, for any sizes of the ring, the events and the answers.         *)
(***************************************************************************)
EXTENDS JobLog, NaturalFacts, SequenceTheorems, TLAPS

LEMMA SizesAreNat ==
  /\ MaxBytes \in Nat \ {0} /\ MaxEventBytes \in Nat \ {0} /\ MarkerBytes \in Nat \ {0}
  /\ CharBytes \in Nat \ {0} /\ ReadBytes \in Nat \ {0} /\ TailBytes \in Nat \ {0}
  /\ MaxOutput \in Nat
BY SizesAssumption, MaxOutputAssumption

-----------------------------------------------------------------------------
(* Sums. The recursion of Sums has a solution, by induction on the length,  *)
(* and only one, so that what it adds up can be split and extended.         *)

IsSums(sum, sizes, n) ==
  /\ sum \in [0..n -> Nat]
  /\ \A i \in 0..n : sum[i] = IF i = 0 THEN 0 ELSE sum[i - 1] + sizes[i]

LEMMA SumsExist ==
  ASSUME NEW sizes \in Seq(Nat), NEW n \in 0..Len(sizes)
  PROVE  \E sum : IsSums(sum, sizes, n)
<1> DEFINE T == {k \in Nat : k <= Len(sizes) => \E sum : IsSums(sum, sizes, k)}
<1>1. Len(sizes) \in Nat /\ \A i \in 1..Len(sizes) : sizes[i] \in Nat
  BY LenProperties, ElementOfSeq
<1>2. 0 \in T
  <2>1. IsSums([i \in 0..0 |-> 0], sizes, 0)
    BY DEF IsSums
  <2> QED
    BY <2>1
<1>3. ASSUME NEW k \in Nat, k \in T PROVE k + 1 \in T
  <2>1. SUFFICES ASSUME k + 1 <= Len(sizes)
                 PROVE  \E sum : IsSums(sum, sizes, k + 1)
    OBVIOUS
  <2>2. PICK sum : IsSums(sum, sizes, k)
    BY <1>1, <1>3, <2>1
  <2> DEFINE longer == [i \in 0..(k + 1) |-> IF i = k + 1 THEN sum[k] + sizes[k + 1] ELSE sum[i]]
  <2>3. sizes[k + 1] \in Nat /\ sum[k] \in Nat
    BY <1>1, <2>1, <2>2 DEF IsSums
  <2>4. longer \in [0..(k + 1) -> Nat]
    BY <2>2, <2>3 DEF IsSums
  <2>5. ASSUME NEW i \in 0..(k + 1)
        PROVE  longer[i] = IF i = 0 THEN 0 ELSE longer[i - 1] + sizes[i]
    <3>1. CASE i = k + 1
      BY <3>1
    <3>2. CASE i \in 0..k
      <4>1. longer[i] = sum[i] /\ (i # 0 => longer[i - 1] = sum[i - 1])
        BY <3>2
      <4> QED
        BY <2>2, <3>2, <4>1 DEF IsSums
    <3> QED
      BY <3>1, <3>2
  <2> HIDE DEF longer
  <2>6. IsSums(longer, sizes, k + 1)
    BY <2>4, <2>5 DEF IsSums
  <2> QED
    BY <2>6
<1> HIDE DEF T
<1>4. Nat \subseteq T
  BY <1>2, <1>3, InductionOnSet
<1> QED
  BY <1>1, <1>4 DEF T

LEMMA SumsAreSums ==
  ASSUME NEW sizes \in Seq(Nat)
  PROVE  IsSums(Sums(sizes), sizes, Len(sizes))
<1> DEFINE n == Len(sizes)
<1>1. n \in Nat /\ \A i \in 1..n : sizes[i] \in Nat
  BY LenProperties, ElementOfSeq
<1>2. PICK h : IsSums(h, sizes, n)
  BY <1>1, SumsExist
<1>3. h = [i \in 0..n |-> IF i = 0 THEN 0 ELSE h[i - 1] + sizes[i]]
  BY <1>2 DEF IsSums
<1>4. Sums(sizes) = CHOOSE f : f = [i \in 0..n |-> IF i = 0 THEN 0 ELSE f[i - 1] + sizes[i]]
  BY DEF Sums
<1> DEFINE s == Sums(sizes)
<1> HIDE DEF s
<1>5. s = [i \in 0..n |-> IF i = 0 THEN 0 ELSE s[i - 1] + sizes[i]]
  BY <1>3, <1>4, Zenon DEF s
<1>6. \A i \in 0..n : s[i] = IF i = 0 THEN 0 ELSE s[i - 1] + sizes[i]
  BY <1>5
<1> DEFINE T == {k \in Nat : k <= n => s[k] \in Nat}
<1>7. 0 \in T
  BY <1>1, <1>6
<1>8. ASSUME NEW k \in Nat, k \in T PROVE k + 1 \in T
  BY <1>1, <1>6, <1>8
<1> HIDE DEF T
<1>9. Nat \subseteq T
  BY <1>7, <1>8, InductionOnSet
<1>10. \A k \in 0..n : s[k] \in Nat
  BY <1>1, <1>9 DEF T
<1>11. DOMAIN s = 0..n
  BY <1>5
<1>12. s = [i \in 0..n |-> s[i]]
  BY <1>5, <1>11
<1>13. s \in [0..n -> Nat]
  BY <1>10, <1>12
<1> QED
  BY <1>6, <1>13 DEF IsSums, s

LEMMA SumsFacts ==
  ASSUME NEW a \in Seq(Nat)
  PROVE  /\ Len(a) \in Nat
         /\ Sums(a) \in [0..Len(a) -> Nat]
         /\ Sums(a)[0] = 0
         /\ \A i \in 1..Len(a) : Sums(a)[i] = Sums(a)[i - 1] + a[i]
<1>1. Len(a) \in Nat
  BY LenProperties
<1>2. IsSums(Sums(a), a, Len(a))
  BY SumsAreSums
<1> QED
  BY <1>1, <1>2 DEF IsSums

\* The sums of a part of a list, from its (m + 1)-th element.
LEMMA SumsOfPart ==
  ASSUME NEW a \in Seq(Nat), NEW b \in Seq(Nat), NEW m \in 0..Len(a), NEW k \in 0..Len(b),
         m + k <= Len(a), \A i \in 1..k : b[i] = a[m + i]
  PROVE  \A i \in 0..k : Sums(b)[i] = Sums(a)[m + i] - Sums(a)[m]
<1> DEFINE T == {i \in Nat : i <= k => Sums(b)[i] = Sums(a)[m + i] - Sums(a)[m]}
<1>1. Len(a) \in Nat /\ Len(b) \in Nat
  BY LenProperties
<1>2. /\ Sums(a) \in [0..Len(a) -> Nat]
      /\ \A i \in 1..Len(a) : Sums(a)[i] = Sums(a)[i - 1] + a[i]
  BY SumsFacts
<1>3. /\ Sums(b) \in [0..Len(b) -> Nat] /\ Sums(b)[0] = 0
      /\ \A i \in 1..Len(b) : Sums(b)[i] = Sums(b)[i - 1] + b[i]
  BY SumsFacts
<1>4. 0 \in T
  <2>1. Sums(a)[m] \in Nat /\ m + 0 = m
    <3>1. Sums(a)[m] \in Nat
      BY <1>2
    <3>2. m + 0 = m
      BY <1>1
    <3> QED
      BY <3>1, <3>2
  <2>2. Sums(a)[m] - Sums(a)[m] = 0
    BY <2>1
  <2> QED
    BY <1>3, <2>1, <2>2
<1>5. ASSUME NEW i \in Nat, i \in T PROVE i + 1 \in T
  <2>1. SUFFICES ASSUME i + 1 <= k
                 PROVE  Sums(b)[i + 1] = Sums(a)[m + (i + 1)] - Sums(a)[m]
    OBVIOUS
  <2>2. Sums(b)[i] = Sums(a)[m + i] - Sums(a)[m]
    BY <1>1, <1>5, <2>1
  <2>3. Sums(b)[i + 1] = Sums(b)[i] + a[m + (i + 1)]
    <3>1. i + 1 \in 1..Len(b) /\ i + 1 \in 1..k /\ i + 1 - 1 = i
      BY <1>1, <2>1
    <3> QED
      BY <1>3, <3>1
  <2>4. Sums(a)[m + (i + 1)] = Sums(a)[m + i] + a[m + (i + 1)]
    <3>1. m + (i + 1) \in 1..Len(a) /\ m + (i + 1) - 1 = m + i
      BY <1>1, <2>1
    <3> QED
      BY <1>2, <3>1
  <2>5. /\ m \in 0..Len(a) /\ m + i \in 0..Len(a) /\ m + (i + 1) \in 1..Len(a)
    BY <1>1, <2>1
  <2>6. Sums(a)[m] \in Nat /\ Sums(a)[m + i] \in Nat /\ a[m + (i + 1)] \in Nat
    BY <1>2, <2>5, ElementOfSeq
  <2> DEFINE u == Sums(a)[m]
             v == Sums(a)[m + i]
             x == a[m + (i + 1)]
  <2>7. /\ u \in Nat /\ v \in Nat /\ x \in Nat
        /\ Sums(b)[i + 1] = v - u + x /\ Sums(a)[m + (i + 1)] = v + x
    BY <2>2, <2>3, <2>4, <2>6
  <2> HIDE DEF u, v, x
  <2>8. Sums(b)[i + 1] = Sums(a)[m + (i + 1)] - u
    BY <2>7
  <2> QED
    BY <2>8 DEF u
<1> HIDE DEF T
<1>6. Nat \subseteq T
  BY <1>4, <1>5, InductionOnSet
<1> QED
  BY <1>1, <1>6 DEF T

LEMMA TotalIsNat ==
  ASSUME NEW a \in Seq(Nat)
  PROVE  Total(a) \in Nat /\ (Len(a) = 0 => Total(a) = 0)
BY SumsFacts DEF Total

\* A list is the sum of its first elements and of the others.
LEMMA TotalOfParts ==
  ASSUME NEW a \in Seq(Nat), NEW front \in Seq(Nat), NEW rest \in Seq(Nat),
         Len(a) = Len(front) + Len(rest),
         \A i \in 1..Len(front) : front[i] = a[i],
         \A i \in 1..Len(rest) : rest[i] = a[Len(front) + i]
  PROVE  Total(a) = Total(front) + Total(rest)
<1> DEFINE m == Len(front)
<1>1. Len(a) \in Nat /\ m \in Nat /\ Len(rest) \in Nat /\ m <= Len(a)
  BY LenProperties
<1>2. Sums(a) \in [0..Len(a) -> Nat] /\ Sums(a)[0] = 0
  BY SumsFacts
<1>3. Total(front) = Sums(a)[m] - Sums(a)[0]
  <2>1. \A i \in 1..m : front[i] = a[0 + i]
    BY <1>1
  <2>2. \A i \in 0..m : Sums(front)[i] = Sums(a)[0 + i] - Sums(a)[0]
    <3>1. 0 \in 0..Len(a) /\ m \in 0..Len(front) /\ 0 + m <= Len(a)
      BY <1>1
    <3> QED
      BY <2>1, <3>1, SumsOfPart
  <2>3. m \in 0..m /\ 0 + m = m
    BY <1>1
  <2> QED
    BY <2>2, <2>3 DEF Total
<1>4. Total(rest) = Sums(a)[Len(a)] - Sums(a)[m]
  <2>1. m \in 0..Len(a) /\ Len(rest) \in 0..Len(rest) /\ m + Len(rest) <= Len(a)
    BY <1>1
  <2>2. \A i \in 0..Len(rest) : Sums(rest)[i] = Sums(a)[m + i] - Sums(a)[m]
    BY <2>1, SumsOfPart
  <2> QED
    BY <2>1, <2>2 DEF Total
<1>5. Sums(a)[m] \in Nat /\ Sums(a)[Len(a)] \in Nat
  <2>1. m \in 0..Len(a) /\ Len(a) \in 0..Len(a)
    BY <1>1
  <2> QED
    BY <1>2, <2>1
<1> QED
  BY <1>2, <1>3, <1>4, <1>5 DEF Total

LEMMA TotalOfOne ==
  ASSUME NEW n \in Nat, NEW a \in Seq(Nat), Len(a) = 1, a[1] = n
  PROVE  Total(a) = n
<1>1. /\ Sums(a)[0] = 0
      /\ \A i \in 1..1 : Sums(a)[i] = Sums(a)[i - 1] + a[i]
  BY SumsFacts
<1>2. Sums(a)[1] = Sums(a)[0] + a[1]
  BY <1>1
<1> QED
  BY <1>1, <1>2 DEF Total

-----------------------------------------------------------------------------
(* The bytes of events.                                                     *)

Sizes(s)   == [i \in 1..Len(s) |-> s[i].bytes]
Output(e)  == IF e.stream = "log_dropped" THEN 0 ELSE e.bytes
Outputs(s) == [i \in 1..Len(s) |-> Output(s[i])]

LEMMA SizesAreSeq ==
  ASSUME NEW s \in Seq(Events)
  PROVE  /\ Sizes(s) \in Seq(Nat) /\ Len(Sizes(s)) = Len(s) /\ BytesOf(s) = Total(Sizes(s))
         /\ \A i \in 1..Len(s) : Sizes(s)[i] = s[i].bytes
<1>1. Len(s) \in Nat /\ \A i \in 1..Len(s) : s[i] \in Events
  BY LenProperties, ElementOfSeq
<1>2. Sizes(s) \in [1..Len(s) -> Nat]
  BY <1>1 DEF Sizes, Events
<1> QED
  BY <1>1, <1>2 DEF Sizes, BytesOf

LEMMA OutputsAreSeq ==
  ASSUME NEW s \in Seq(Events)
  PROVE  /\ Outputs(s) \in Seq(Nat) /\ Len(Outputs(s)) = Len(s)
         /\ OutputOf(s) = Total(Outputs(s))
         /\ \A i \in 1..Len(s) : Outputs(s)[i] = Output(s[i])
<1>1. Len(s) \in Nat /\ \A i \in 1..Len(s) : s[i] \in Events
  BY LenProperties, ElementOfSeq
<1>2. Outputs(s) \in [1..Len(s) -> Nat]
  BY <1>1 DEF Outputs, Output, Events
<1> QED
  BY <1>1, <1>2 DEF Outputs, Output, OutputOf

LEMMA BytesAreNat ==
  ASSUME NEW s \in Seq(Events)
  PROVE  /\ BytesOf(s) \in Nat /\ OutputOf(s) \in Nat
         /\ Len(s) = 0 => BytesOf(s) = 0 /\ OutputOf(s) = 0
BY SizesAreSeq, OutputsAreSeq, TotalIsNat

LEMMA OutputOfAppend ==
  ASSUME NEW s \in Seq(Events), NEW e \in Events
  PROVE  /\ Append(s, e) \in Seq(Events) /\ Output(e) \in Nat
         /\ OutputOf(Append(s, e)) = OutputOf(s) + Output(e)
<1> DEFINE a == Append(s, e)
           one == [i \in 1..1 |-> Output(e)]
<1>1. /\ a \in Seq(Events) /\ Len(a) = Len(s) + 1 /\ Len(s) \in Nat
      /\ \A i \in 1..Len(s) : a[i] = s[i]
      /\ a[Len(s) + 1] = e
  BY AppendProperties, LenProperties
<1>2. Output(e) \in Nat
  BY DEF Output, Events
<1>3. one \in Seq(Nat) /\ Len(one) = 1 /\ one[1] = Output(e)
  BY <1>2
<1> HIDE DEF a, one
<1>4. /\ Outputs(s) \in Seq(Nat) /\ Len(Outputs(s)) = Len(s) /\ OutputOf(s) = Total(Outputs(s))
      /\ \A i \in 1..Len(s) : Outputs(s)[i] = Output(s[i])
  BY OutputsAreSeq
<1>5. /\ Outputs(a) \in Seq(Nat) /\ Len(Outputs(a)) = Len(s) + 1
      /\ OutputOf(a) = Total(Outputs(a))
      /\ \A i \in 1..(Len(s) + 1) : Outputs(a)[i] = Output(a[i])
  BY <1>1, OutputsAreSeq
<1>6. /\ Len(Outputs(a)) = Len(Outputs(s)) + Len(one)
      /\ \A i \in 1..Len(Outputs(s)) : Outputs(s)[i] = Outputs(a)[i]
      /\ \A i \in 1..Len(one) : one[i] = Outputs(a)[Len(Outputs(s)) + i]
  BY <1>1, <1>3, <1>4, <1>5
<1>7. Total(Outputs(a)) = Total(Outputs(s)) + Total(one)
  BY <1>3, <1>4, <1>5, <1>6, TotalOfParts
<1>8. Total(one) = Output(e)
  BY <1>2, <1>3, TotalOfOne
<1> QED
  BY <1>1, <1>2, <1>4, <1>5, <1>7, <1>8 DEF a

\* The first m elements of a list, and the others.
LEMMA Parts ==
  ASSUME NEW S, NEW s \in Seq(S), NEW m \in 0..Len(s)
  PROVE  /\ SubSeq(s, 1, m) \in Seq(S) /\ Len(SubSeq(s, 1, m)) = m
         /\ \A i \in 1..m : SubSeq(s, 1, m)[i] = s[i]
         /\ SubSeq(s, m + 1, Len(s)) \in Seq(S)
         /\ Len(SubSeq(s, m + 1, Len(s))) = Len(s) - m
         /\ \A i \in 1..(Len(s) - m) : SubSeq(s, m + 1, Len(s))[i] = s[m + i]
<1>1. Len(s) \in Nat
  BY LenProperties
<1>2. /\ SubSeq(s, 1, m) \in Seq(S) /\ Len(SubSeq(s, 1, m)) = m
      /\ \A i \in 1..m : SubSeq(s, 1, m)[i] = s[i]
  BY <1>1, SubSeqProperties
<1>3. /\ SubSeq(s, m + 1, Len(s)) \in Seq(S)
      /\ Len(SubSeq(s, m + 1, Len(s))) = Len(s) - m
      /\ \A i \in 1..(Len(s) - m) : SubSeq(s, m + 1, Len(s))[i] = s[m + i]
  BY <1>1, SubSeqProperties
<1> QED
  BY <1>2, <1>3

LEMMA OutputOfParts ==
  ASSUME NEW s \in Seq(Events), NEW m \in 0..Len(s)
  PROVE  OutputOf(s) = OutputOf(SubSeq(s, 1, m)) + OutputOf(SubSeq(s, m + 1, Len(s)))
<1> DEFINE front == SubSeq(s, 1, m)
           rest  == SubSeq(s, m + 1, Len(s))
<1>1. /\ front \in Seq(Events) /\ Len(front) = m /\ \A i \in 1..m : front[i] = s[i]
      /\ rest \in Seq(Events) /\ Len(rest) = Len(s) - m
      /\ \A i \in 1..(Len(s) - m) : rest[i] = s[m + i]
      /\ Len(s) \in Nat
  <2>1. Len(s) \in Nat
    BY LenProperties
  <2> QED
    BY <2>1, Parts
<1> HIDE DEF front, rest
<1>2. /\ Outputs(s) \in Seq(Nat) /\ Len(Outputs(s)) = Len(s) /\ OutputOf(s) = Total(Outputs(s))
      /\ \A i \in 1..Len(s) : Outputs(s)[i] = Output(s[i])
  BY OutputsAreSeq
<1>3. /\ Outputs(front) \in Seq(Nat) /\ Len(Outputs(front)) = m
      /\ OutputOf(front) = Total(Outputs(front))
      /\ \A i \in 1..m : Outputs(front)[i] = Output(s[i])
  BY <1>1, OutputsAreSeq
<1>4. /\ Outputs(rest) \in Seq(Nat) /\ Len(Outputs(rest)) = Len(s) - m
      /\ OutputOf(rest) = Total(Outputs(rest))
      /\ \A i \in 1..(Len(s) - m) : Outputs(rest)[i] = Output(s[m + i])
  BY <1>1, OutputsAreSeq
<1>5. /\ \A i \in 1..m : i \in 1..Len(s)
      /\ \A i \in 1..(Len(s) - m) : m + i \in 1..Len(s)
  BY <1>1
<1>6. /\ Len(Outputs(s)) = Len(Outputs(front)) + Len(Outputs(rest))
      /\ \A i \in 1..Len(Outputs(front)) : Outputs(front)[i] = Outputs(s)[i]
      /\ \A i \in 1..Len(Outputs(rest)) :
           Outputs(rest)[i] = Outputs(s)[Len(Outputs(front)) + i]
  <2>1. Len(Outputs(s)) = Len(Outputs(front)) + Len(Outputs(rest))
    BY <1>1, <1>2, <1>3, <1>4
  <2>2. \A i \in 1..Len(Outputs(front)) : Outputs(front)[i] = Outputs(s)[i]
    BY <1>2, <1>3, <1>5
  <2>3. \A i \in 1..Len(Outputs(rest)) : Outputs(rest)[i] = Outputs(s)[Len(Outputs(front)) + i]
    BY <1>2, <1>3, <1>4, <1>5
  <2> QED
    BY <2>1, <2>2, <2>3
<1>7. Total(Outputs(s)) = Total(Outputs(front)) + Total(Outputs(rest))
  BY <1>2, <1>3, <1>4, <1>6, TotalOfParts
<1> QED
  BY <1>2, <1>3, <1>4, <1>7 DEF front, rest

-----------------------------------------------------------------------------
(* The ring.                                                                *)

Contiguous(r) ==
  \A i \in 1..Len(r.events) : r.events[i].cursor + Len(r.events) = r.next + i - 1

Bounded(s) == BytesOf(s) <= MaxBytes \/ Len(s) = 1

GoodRing(r) ==
  /\ r \in [events : Seq(Events), next : Nat \ {0}, counted : Nat]
  /\ Contiguous(r) /\ Bounded(r.events)
  /\ Len(r.events) = 0 => r.next = 1

\* What is still in the ring or was said to be dropped.
Known(r) == OutputOf(r.events) + r.counted

LEMMA ExcessFacts ==
  ASSUME NEW s \in Seq(Events), Len(s) # 0
  PROVE  /\ Excess(s) \in 0..(Len(s) - 1)
         /\ WithoutExcess(s) = SubSeq(s, Excess(s) + 1, Len(s))
         /\ Bounded(WithoutExcess(s))
<1> DEFINE fits == {n \in 0..Len(s) - 1 :
                      \/ BytesOf(SubSeq(s, n + 1, Len(s))) <= MaxBytes
                      \/ n = Len(s) - 1}
<1>1. Len(s) \in Nat \ {0}
  BY LenProperties
<1>2. Len(s) - 1 \in fits /\ fits \in SUBSET Nat
  BY <1>1
<1>3. Excess(s) = CHOOSE x \in fits : \A y \in fits : x <= y
  BY Zenon DEF Excess, Min
<1>4. Excess(s) \in fits
  <2> HIDE DEF fits
  <2>1. \E x \in fits : \A y \in fits : x <= y
    BY <1>2, LeastNatural
  <2> QED
    BY <1>3, <2>1, Zenon
<1>5. Excess(s) \in 0..(Len(s) - 1)
  BY <1>4
<1>6. BytesOf(SubSeq(s, Excess(s) + 1, Len(s))) <= MaxBytes \/ Excess(s) = Len(s) - 1
  BY <1>4
<1> HIDE DEF fits
<1>7. WithoutExcess(s) = SubSeq(s, Excess(s) + 1, Len(s))
  BY Zenon DEF WithoutExcess
<1>8. Excess(s) \in 0..Len(s)
  BY <1>1, <1>5
<1>9. Len(WithoutExcess(s)) = Len(s) - Excess(s)
  <2>1. Len(SubSeq(s, Excess(s) + 1, Len(s))) = Len(s) - Excess(s)
    BY <1>8, Parts
  <2> QED
    BY <1>7, <2>1
<1>10. CASE Excess(s) = Len(s) - 1
  <2>1. Len(WithoutExcess(s)) = 1
    BY <1>1, <1>9, <1>10
  <2> QED
    BY <1>5, <1>7, <2>1 DEF Bounded
<1>11. CASE BytesOf(SubSeq(s, Excess(s) + 1, Len(s))) <= MaxBytes
  BY <1>5, <1>7, <1>11 DEF Bounded
<1> QED
  BY <1>6, <1>10, <1>11

Grown(r, e)           == Append(r.events, e)
Gone(r, e)            == OutputOf(SubSeq(Grown(r, e), 1, Excess(Grown(r, e))))
Pushed(r, e, counted) ==
  [events |-> WithoutExcess(Grown(r, e)), next |-> r.next + 1, counted |-> counted]

LEMMA RingFields ==
  ASSUME NEW r, GoodRing(r)
  PROVE  /\ r.events \in Seq(Events) /\ r.next \in Nat \ {0} /\ r.counted \in Nat
         /\ Len(r.events) \in Nat /\ OutputOf(r.events) \in Nat
<1>1. r.events \in Seq(Events) /\ r.next \in Nat \ {0} /\ r.counted \in Nat
  BY DEF GoodRing
<1> QED
  BY <1>1, LenProperties, BytesAreNat

\* An event is added and the excess goes.
LEMMA PushFacts ==
  ASSUME NEW r, GoodRing(r), NEW e \in Events, e.cursor = r.next, NEW counted \in Nat
  PROVE  /\ GoodRing(Pushed(r, e, counted)) /\ Gone(r, e) \in Nat
         /\ OutputOf(Pushed(r, e, counted).events) + Gone(r, e)
              = OutputOf(r.events) + Output(e)
<1> DEFINE s    == Grown(r, e)
           m    == Excess(s)
           n    == Len(r.events)
           kept == SubSeq(s, m + 1, Len(s))
           q    == Pushed(r, e, counted)
<1>1. r.events \in Seq(Events) /\ r.next \in Nat \ {0} /\ n \in Nat
  BY RingFields
<1>2. /\ s \in Seq(Events) /\ Len(s) = n + 1
      /\ \A i \in 1..n : s[i] = r.events[i]
      /\ s[n + 1] = e
  BY <1>1, AppendProperties DEF Grown
<1> HIDE DEF s
<1>3. m \in 0..n /\ m \in 0..Len(s) /\ WithoutExcess(s) = kept /\ Bounded(kept)
  <2>1. Len(s) # 0
    BY <1>1, <1>2
  <2>2. /\ Excess(s) \in 0..(Len(s) - 1)
        /\ WithoutExcess(s) = SubSeq(s, Excess(s) + 1, Len(s))
        /\ Bounded(WithoutExcess(s))
    BY <1>2, <2>1, ExcessFacts
  <2>3. m \in 0..n /\ m \in 0..Len(s)
    BY <1>1, <1>2, <2>2
  <2> QED
    BY <2>2, <2>3
<1> HIDE DEF m
<1>4. /\ kept \in Seq(Events) /\ Len(kept) = (n + 1) - m
      /\ \A i \in 1..((n + 1) - m) : kept[i] = s[m + i]
      /\ SubSeq(s, 1, m) \in Seq(Events)
  <2>1. /\ kept \in Seq(Events) /\ Len(kept) = Len(s) - m
        /\ \A i \in 1..(Len(s) - m) : kept[i] = s[m + i]
        /\ SubSeq(s, 1, m) \in Seq(Events)
    BY <1>2, <1>3, Parts
  <2> QED
    BY <1>2, <2>1
<1>5. \A i \in 1..(n + 1) : s[i] \in Events /\ s[i].cursor + n = r.next + i - 1
  <2>1. \A i \in 1..n : s[i].cursor + n = r.next + i - 1
    BY <1>2 DEF GoodRing, Contiguous
  <2>2. s[n + 1].cursor + n = r.next + (n + 1) - 1
    BY <1>1, <1>2
  <2>3. \A i \in 1..(n + 1) : s[i] \in Events
    BY <1>2, ElementOfSeq
  <2>4. \A i \in 1..(n + 1) : i \in 1..n \/ i = n + 1
    BY <1>1
  <2> QED
    BY <2>1, <2>2, <2>3, <2>4
<1>6. OutputOf(s) = OutputOf(r.events) + Output(e)
  BY <1>1, OutputOfAppend DEF s, Grown
<1>7. OutputOf(s) = OutputOf(SubSeq(s, 1, m)) + OutputOf(kept)
  BY <1>2, <1>3, OutputOfParts
<1> HIDE DEF kept
<1>8. q.events = kept /\ q.next = r.next + 1 /\ q.counted = counted
  BY <1>3 DEF Pushed, s
<1>9. q = [events |-> kept, next |-> r.next + 1, counted |-> counted]
  BY <1>3 DEF Pushed, s
<1>10. Gone(r, e) = OutputOf(SubSeq(s, 1, m))
  BY DEF Gone, s, m
<1> HIDE DEF q
<1>11. Contiguous(q)
  <2>1. SUFFICES ASSUME NEW i \in 1..((n + 1) - m)
                 PROVE  kept[i].cursor + ((n + 1) - m) = r.next + 1 + i - 1
    BY <1>4, <1>8 DEF Contiguous
  <2>2. n \in Nat /\ m \in 0..n /\ i \in 1..((n + 1) - m)
    BY <1>1, <1>3
  <2> DEFINE x == s[m + i].cursor
             y == r.next
  <2> HIDE DEF n
  <2>3. m + i \in 1..(n + 1)
    BY <2>2
  <2>4. x \in Nat /\ y \in Nat /\ x + n = y + (m + i) - 1
    BY <1>1, <1>5, <2>3 DEF Events
  <2>5. kept[i].cursor = x
    BY <1>4
  <2> HIDE DEF x, y
  <2>6. x + ((n + 1) - m) = y + 1 + i - 1
    BY <2>2, <2>4
  <2> QED
    BY <2>5, <2>6 DEF y
<1>12. GoodRing(q)
  <2>1. Len(q.events) # 0
    BY <1>1, <1>3, <1>4, <1>8
  <2>2. r.next + 1 \in Nat \ {0}
    BY <1>1
  <2>3. q \in [events : Seq(Events), next : Nat \ {0}, counted : Nat]
    BY <1>4, <1>9, <2>2
  <2>4. Bounded(q.events)
    BY <1>3, <1>8
  <2> QED
    BY <1>11, <2>1, <2>3, <2>4 DEF GoodRing
<1>13. OutputOf(SubSeq(s, 1, m)) \in Nat /\ OutputOf(kept) \in Nat
  BY <1>4, BytesAreNat
<1>14. OutputOf(kept) + OutputOf(SubSeq(s, 1, m)) = OutputOf(r.events) + Output(e)
  BY <1>6, <1>7, <1>13
<1> QED
  BY <1>8, <1>10, <1>12, <1>13, <1>14 DEF q

LEMMA MarkerFacts ==
  ASSUME NEW r, GoodRing(r), NEW dropped \in Nat
  PROVE  /\ GoodRing(AddLogDroppedEvent(r, dropped))
         /\ AddLogDroppedEvent(r, dropped).next = r.next + 1
         /\ Known(AddLogDroppedEvent(r, dropped)) \in Nat
         /\ Known(AddLogDroppedEvent(r, dropped)) <= Known(r) + dropped
<1> DEFINE e == Event(r.next, "log_dropped", MarkerBytes)
           c == r.counted + dropped
           q == Pushed(r, e, c)
<1>1. /\ r.next \in Nat \ {0} /\ r.counted \in Nat /\ OutputOf(r.events) \in Nat
      /\ c \in Nat
  BY RingFields
<1>2. e \in Events /\ e.cursor = r.next /\ Output(e) = 0
  BY <1>1, SizesAreNat DEF Event, Events, Output
<1>3. AddLogDroppedEvent(r, dropped) = q
  BY DEF AddLogDroppedEvent, Pushed, Grown
<1>4. q.next = r.next + 1 /\ q.counted = c
  BY DEF Pushed
<1> HIDE DEF e
<1>5. /\ GoodRing(q) /\ Gone(r, e) \in Nat
      /\ OutputOf(q.events) + Gone(r, e) = OutputOf(r.events) + Output(e)
  BY <1>1, <1>2, PushFacts
<1> HIDE DEF q
<1>6. OutputOf(q.events) \in Nat
  BY <1>5, RingFields
<1>7. Known(q) \in Nat /\ Known(q) <= Known(r) + dropped
  BY <1>1, <1>2, <1>4, <1>5, <1>6 DEF Known
<1> QED
  BY <1>3, <1>4, <1>5, <1>7

LEMMA AddEventFacts ==
  ASSUME NEW r, GoodRing(r), NEW stream \in OutputStreams, NEW bytes \in Nat
  PROVE  /\ GoodRing(AddEvent(r, stream, bytes))
         /\ AddEvent(r, stream, bytes).next > r.next
         /\ Known(AddEvent(r, stream, bytes)) \in Nat
         /\ Known(AddEvent(r, stream, bytes)) <= Known(r) + bytes
<1> DEFINE e       == Event(r.next, stream, bytes)
           dropped == Gone(r, e)
           kept    == Pushed(r, e, r.counted)
           q       == AddEvent(r, stream, bytes)
<1>1. /\ r \in [events : Seq(Events), next : Nat \ {0}, counted : Nat]
      /\ r.next \in Nat \ {0} /\ r.counted \in Nat /\ OutputOf(r.events) \in Nat
  BY RingFields DEF GoodRing
<1>2. e \in Events /\ e.cursor = r.next /\ Output(e) = bytes
  BY <1>1 DEF Event, Events, Output, OutputStreams
<1>3. q = IF dropped = 0 THEN kept ELSE AddLogDroppedEvent(kept, dropped)
  BY Zenon DEF AddEvent, Gone, Pushed, Grown
<1>4. kept.next = r.next + 1 /\ kept.counted = r.counted
  BY DEF Pushed
<1> HIDE DEF e
<1>5. /\ GoodRing(kept) /\ dropped \in Nat
      /\ OutputOf(kept.events) + dropped = OutputOf(r.events) + Output(e)
  BY <1>1, <1>2, PushFacts
<1> HIDE DEF kept, dropped, q
<1>6. OutputOf(kept.events) \in Nat /\ kept.next \in Nat
  BY <1>5, RingFields
<1>7. Known(kept) + dropped = Known(r) + bytes /\ Known(kept) \in Nat /\ Known(r) \in Nat
  <2>1. Known(kept) = OutputOf(kept.events) + r.counted
    BY <1>4 DEF Known
  <2>2. Known(r) = OutputOf(r.events) + r.counted
    BY DEF Known
  <2> DEFINE x == OutputOf(kept.events)
             y == OutputOf(r.events)
  <2>3. x \in Nat /\ y \in Nat /\ r.counted \in Nat /\ dropped \in Nat /\ x + dropped = y + bytes
    BY <1>1, <1>2, <1>5, <1>6
  <2> HIDE DEF x, y
  <2> QED
    BY <2>1, <2>2, <2>3 DEF x, y
<1>8. GoodRing(q) /\ q.next > r.next /\ Known(q) \in Nat /\ Known(q) <= Known(r) + bytes
  <2>1. CASE dropped = 0
    <3>1. q = kept
      BY <1>3, <2>1
    <3> QED
      BY <1>1, <1>4, <1>5, <1>7, <2>1, <3>1
  <2>2. CASE dropped # 0
    <3>1. q = AddLogDroppedEvent(kept, dropped)
      BY <1>3, <2>2
    <3>2. /\ GoodRing(q) /\ q.next = kept.next + 1
          /\ Known(q) \in Nat /\ Known(q) <= Known(kept) + dropped
      BY <1>5, <3>1, MarkerFacts
    <3> QED
      BY <1>1, <1>4, <1>7, <3>2
  <2> QED
    BY <2>1, <2>2
<1> QED
  BY <1>8 DEF q

-----------------------------------------------------------------------------
(* The pieces of a text: Add goes through the rings of its recursion.       *)

IsRings(f, r, stream, p, n) ==
  f = [i \in 0..n |-> IF i = 0 THEN r ELSE AddEvent(f[i - 1], stream, p[i])]

LEMMA RingsExist ==
  ASSUME NEW r, NEW stream, NEW p, NEW n \in Nat
  PROVE  \E f : IsRings(f, r, stream, p, n)
<1> DEFINE T == {k \in Nat : \E f : IsRings(f, r, stream, p, k)}
<1>1. 0 \in T
  <2> DEFINE f == [i \in 0..0 |-> r]
  <2>1. f = [i \in 0..0 |-> IF i = 0 THEN r ELSE AddEvent(f[i - 1], stream, p[i])]
    OBVIOUS
  <2> QED
    BY <2>1 DEF IsRings
<1>2. ASSUME NEW k \in Nat, k \in T PROVE k + 1 \in T
  <2>1. PICK f : IsRings(f, r, stream, p, k)
    BY <1>2
  <2> DEFINE longer ==
        [i \in 0..(k + 1) |-> IF i = k + 1 THEN AddEvent(f[k], stream, p[k + 1]) ELSE f[i]]
  <2>2. ASSUME NEW i \in 0..(k + 1)
        PROVE  longer[i] = IF i = 0 THEN r ELSE AddEvent(longer[i - 1], stream, p[i])
    <3>1. CASE i = k + 1
      <4>1. longer[i] = AddEvent(f[k], stream, p[i]) /\ longer[i - 1] = f[k] /\ i # 0
        BY <3>1
      <4> QED
        BY <4>1
    <3>2. CASE i \in 0..k
      <4>1. longer[i] = f[i] /\ (i # 0 => longer[i - 1] = f[i - 1])
        BY <3>2
      <4>2. f[i] = IF i = 0 THEN r ELSE AddEvent(f[i - 1], stream, p[i])
        BY <2>1, <3>2 DEF IsRings
      <4> QED
        BY <4>1, <4>2
    <3> QED
      BY <3>1, <3>2
  <2>3. longer = [i \in 0..(k + 1) |-> longer[i]]
    OBVIOUS
  <2> HIDE DEF longer
  <2>4. IsRings(longer, r, stream, p, k + 1)
    BY <2>2, <2>3 DEF IsRings
  <2> QED
    BY <2>4
<1> HIDE DEF T
<1>3. Nat \subseteq T
  BY <1>1, <1>2, InductionOnSet
<1> QED
  BY <1>3 DEF T

LEMMA AddFacts ==
  ASSUME NEW r, GoodRing(r), NEW stream \in OutputStreams, NEW p \in Seq(Nat)
  PROVE  /\ GoodRing(Add(r, stream, p)) /\ Add(r, stream, p).next >= r.next
         /\ Known(Add(r, stream, p)) \in Nat
         /\ Known(Add(r, stream, p)) <= Known(r) + Total(p)
<1> DEFINE n == Len(p)
           f == CHOOSE g : g = [i \in 0..n |->
                                  IF i = 0 THEN r ELSE AddEvent(g[i - 1], stream, p[i])]
<1>1. n \in Nat /\ \A i \in 1..n : p[i] \in Nat
  BY LenProperties, ElementOfSeq
<1>2. Add(r, stream, p) = f[n]
  BY DEF Add
<1>3. f = [i \in 0..n |-> IF i = 0 THEN r ELSE AddEvent(f[i - 1], stream, p[i])]
  <2>1. PICK h : IsRings(h, r, stream, p, n)
    BY <1>1, RingsExist
  <2> QED
    BY <2>1, Zenon DEF IsRings
<1> HIDE DEF f
<1>4. f[0] = r /\ \A i \in 1..n : f[i] = AddEvent(f[i - 1], stream, p[i])
  <2>1. \A i \in 0..n : f[i] = IF i = 0 THEN r ELSE AddEvent(f[i - 1], stream, p[i])
    BY <1>3
  <2> QED
    BY <1>1, <2>1
<1>5. /\ Sums(p) \in [0..n -> Nat] /\ Sums(p)[0] = 0
      /\ \A i \in 1..n : Sums(p)[i] = Sums(p)[i - 1] + p[i]
  BY SumsFacts
<1>6. r.next \in Nat /\ Known(r) \in Nat
  BY RingFields DEF Known
<1> DEFINE Good(i) == /\ GoodRing(f[i]) /\ f[i].next >= r.next
                      /\ Known(f[i]) \in Nat /\ Known(f[i]) <= Known(r) + Sums(p)[i]
           T == {i \in Nat : i <= n => Good(i)}
<1>7. 0 \in T
  BY <1>4, <1>5, <1>6
<1>8. ASSUME NEW i \in Nat, i \in T PROVE i + 1 \in T
  <2>1. SUFFICES ASSUME i + 1 <= n PROVE Good(i + 1)
    OBVIOUS
  <2>2. i + 1 \in 1..n /\ i + 1 - 1 = i /\ i <= n /\ i \in 0..n
    BY <1>1, <2>1
  <2>3. /\ GoodRing(f[i]) /\ f[i].next >= r.next
        /\ Known(f[i]) \in Nat /\ Known(f[i]) <= Known(r) + Sums(p)[i]
    BY <1>8, <2>2
  <2>4. p[i + 1] \in Nat /\ f[i + 1] = AddEvent(f[i], stream, p[i + 1])
    BY <1>1, <1>4, <2>2
  <2>5. Sums(p)[i + 1] = Sums(p)[i] + p[i + 1] /\ Sums(p)[i] \in Nat
    <3>1. Sums(p)[i] \in Nat
      BY <1>5, <2>2
    <3>2. Sums(p)[i + 1] = Sums(p)[i + 1 - 1] + p[i + 1]
      BY <1>5, <2>2
    <3> QED
      BY <2>2, <3>1, <3>2
  <2>6. /\ GoodRing(f[i + 1]) /\ f[i + 1].next > f[i].next
        /\ Known(f[i + 1]) \in Nat /\ Known(f[i + 1]) <= Known(f[i]) + p[i + 1]
    BY <2>3, <2>4, AddEventFacts
  <2>7. f[i].next \in Nat /\ f[i + 1].next \in Nat
    BY <2>3, <2>6, RingFields
  <2>8. f[i + 1].next >= r.next
    BY <1>6, <2>3, <2>6, <2>7
  <2>9. Known(f[i + 1]) <= Known(r) + Sums(p)[i + 1]
    <3> DEFINE u == Known(r)
               v == Known(f[i])
               w == Known(f[i + 1])
               x == Sums(p)[i]
    <3>1. /\ u \in Nat /\ v \in Nat /\ w \in Nat /\ x \in Nat /\ p[i + 1] \in Nat
          /\ v <= u + x /\ w <= v + p[i + 1]
      BY <1>6, <2>3, <2>4, <2>5, <2>6
    <3> HIDE DEF u, v, w, x
    <3>2. w <= u + (x + p[i + 1])
      BY <3>1
    <3> QED
      BY <2>5, <3>2 DEF u, w, x
  <2> QED
    BY <2>6, <2>8, <2>9
<1> HIDE DEF T
<1>9. Nat \subseteq T
  BY <1>7, <1>8, InductionOnSet
<1>10. Good(n)
  BY <1>1, <1>9 DEF T
<1> QED
  BY <1>2, <1>10 DEF Total

-----------------------------------------------------------------------------
(* tail.                                                                    *)

\* The cursors count up from that of the oldest event.
LEMMA FirstCursor ==
  ASSUME NEW r, GoodRing(r)
  PROVE  \E first \in Nat :
           /\ r.next = first + Len(r.events)
           /\ \A i \in 1..Len(r.events) : r.events[i].cursor = first + i - 1
           /\ Len(r.events) = 0 => first = 1
<1> DEFINE n    == Len(r.events)
           next == r.next
           c(i) == r.events[i].cursor
<1>1. n \in Nat /\ next \in Nat /\ r.events \in Seq(Events)
  BY RingFields
<1>2. \A i \in 1..n : c(i) \in Nat
  <2>1. \A i \in 1..n : r.events[i] \in Events
    BY <1>1, ElementOfSeq
  <2> QED
    BY <2>1 DEF Events
<1>3. \A i \in 1..n : c(i) + n = next + i - 1
  BY DEF GoodRing, Contiguous
<1>4. n = 0 => next = 1
  BY DEF GoodRing
<1> HIDE DEF n, next, c
<1>5. CASE n = 0
  <2>1. next = 1 + n /\ \A i \in 1..n : c(i) = 1 + i - 1
    BY <1>1, <1>4, <1>5
  <2> QED
    BY <2>1 DEF n, next, c
<1>6. CASE n # 0
  <2>1. c(1) \in Nat /\ next = c(1) + n
    BY <1>1, <1>2, <1>3, <1>6
  <2>2. ASSUME NEW i \in 1..n PROVE c(i) = c(1) + i - 1
    <3> DEFINE x == c(1)
               y == c(i)
    <3>1. x \in Nat /\ y \in Nat /\ next = x + n /\ y + n = next + i - 1
      BY <1>2, <1>3, <2>1
    <3> HIDE DEF x, y
    <3>2. y = x + i - 1
      BY <1>1, <3>1
    <3> QED
      BY <3>2 DEF x, y
  <2> QED
    BY <1>6, <2>1, <2>2 DEF n, next, c
<1> QED
  BY <1>5, <1>6

\* The definition of Available is the filter of tail.
LEMMA AvailableIsFilter ==
  ASSUME NEW r, GoodRing(r), NEW cursor \in Nat
  PROVE  \E m \in 0..Len(r.events) :
           /\ Available(r, cursor) = SubSeq(r.events, m + 1, Len(r.events))
           /\ \A i \in 1..Len(r.events) : r.events[i].cursor > cursor <=> i > m
<1> DEFINE n   == Len(r.events)
           old == {i \in DOMAIN r.events : r.events[i].cursor <= cursor}
           m   == Cardinality(old)
<1>1. n \in Nat /\ r.next \in Nat /\ DOMAIN r.events = 1..n
  BY RingFields, LenProperties
<1>2. PICK first \in Nat : \A i \in 1..n : r.events[i].cursor = first + i - 1
  BY FirstCursor
<1>3. old \in SUBSET (1..n) /\ \A i \in old, k \in 1..n : k < i => k \in old
  <2>1. \A i \in 1..n : i \in old <=> first + i - 1 <= cursor
    BY <1>1, <1>2
  <2>2. \A i, k \in 1..n : k < i /\ first + i - 1 <= cursor => first + k - 1 <= cursor
    BY <1>1, <1>2
  <2> QED
    BY <1>1, <2>1, <2>2
<1>4. \A i \in 1..n : r.events[i].cursor > cursor <=> i \notin old
  BY <1>1, <1>2
<1>5. Available(r, cursor) = SubSeq(r.events, m + 1, n)
  BY DEF Available
<1> HIDE DEF old
<1>6. m \in 0..n /\ old = 1..m
  BY <1>1, <1>3, LowerPart
<1> HIDE DEF m
<1>7. \A i \in 1..n : r.events[i].cursor > cursor <=> i > m
  BY <1>1, <1>4, <1>6
<1> QED
  BY <1>5, <1>6, <1>7

\* For a cursor that has not expired, the events that follow it.
LEMMA AvailableFacts ==
  ASSUME NEW r, GoodRing(r), NEW cursor \in 0..(r.next - 1), ~Expired(r, cursor),
         NEW a, a = Available(r, cursor)
  PROVE  /\ a \in Seq(Events) /\ Len(a) = r.next - 1 - cursor
         /\ \A i \in 1..Len(a) : a[i].cursor = cursor + i
<1> DEFINE n == Len(r.events)
<1>1. n \in Nat /\ cursor \in Nat /\ r.events \in Seq(Events)
  BY RingFields
<1>2. PICK first \in Nat :
        /\ r.next = first + n
        /\ \A i \in 1..n : r.events[i].cursor = first + i - 1
        /\ n = 0 => first = 1
  BY FirstCursor
<1>3. PICK m \in 0..n :
        /\ a = SubSeq(r.events, m + 1, n)
        /\ \A i \in 1..n : r.events[i].cursor > cursor <=> i > m
  BY <1>1, AvailableIsFilter
<1>4. /\ a \in Seq(Events) /\ Len(a) = n - m
      /\ \A i \in 1..(n - m) : a[i] = r.events[m + i]
  BY <1>1, <1>3, Parts
<1>5. \A i \in 1..n : first + i - 1 > cursor <=> i > m
  BY <1>2, <1>3
<1>6. cursor <= first + n - 1 /\ (n # 0 => cursor + 1 >= first)
  <2>1. cursor <= first + n - 1
    BY <1>1, <1>2
  <2>2. ASSUME n # 0 PROVE cursor + 1 >= first
    <3>1. r.events # <<>> /\ 1 \in 1..n
      BY <1>1, <2>2, EmptySeq
    <3>2. ~(cursor + 1 < r.events[1].cursor)
      BY <3>1 DEF Expired
    <3>3. r.events[1].cursor = first
      BY <1>2, <3>1
    <3> QED
      BY <1>1, <3>2, <3>3
  <2> QED
    BY <2>1, <2>2
<1>7. n - m = first + n - 1 - cursor
  <2> HIDE DEF n
  <2>1. CASE n = 0
    BY <1>1, <1>2, <1>3, <1>6, <2>1
  <2>2. CASE n # 0
    <3>1. ASSUME first + m - 1 < cursor PROVE FALSE
      <4>1. m + 1 \in 1..n /\ ~(m + 1 > m => FALSE)
        BY <1>1, <1>3, <1>6, <3>1
      <4>2. first + (m + 1) - 1 > cursor
        BY <1>5, <4>1
      <4> QED
        BY <1>1, <1>3, <3>1, <4>2
    <3>2. ASSUME first + m - 1 > cursor PROVE FALSE
      <4>1. m \in 1..n
        BY <1>1, <1>3, <1>6, <2>2, <3>2
      <4> QED
        BY <1>5, <3>2, <4>1
    <3> QED
      BY <1>1, <1>3, <3>1, <3>2
  <2> QED
    BY <2>1, <2>2
<1>8. ASSUME NEW i \in 1..Len(a) PROVE a[i].cursor = cursor + i
  <2>1. m + i \in 1..n /\ i \in 1..(n - m)
    BY <1>1, <1>3, <1>4
  <2>2. a[i].cursor = first + (m + i) - 1
    BY <1>2, <1>4, <2>1
  <2>3. first + (m + i) - 1 = cursor + i
    BY <1>1, <1>3, <1>7
  <2> QED
    BY <2>2, <2>3
<1>9. first + n - 1 - cursor = r.next - 1 - cursor
  BY <1>2
<1> QED
  BY <1>4, <1>7, <1>8, <1>9

\* The answer: the first of them, up to the new cursor.
LEMMA ReturnedFacts ==
  ASSUME NEW r, GoodRing(r), NEW cursor \in 0..(r.next - 1), ~Expired(r, cursor)
  PROVE  /\ NextCursor(r, cursor) \in cursor..(r.next - 1)
         /\ {e.cursor : e \in Range(Returned(r, cursor))} = (cursor + 1)..NextCursor(r, cursor)
         /\ ~Truncated(r, cursor) => NextCursor(r, cursor) = r.next - 1
<1> DEFINE a    == Available(r, cursor)
           fits == {n \in 0..Len(a) : n <= 1 \/ BytesOf(SubSeq(a, 1, n)) <= TailBytes}
           k    == Max(fits)
           part == SubSeq(a, 1, k)
<1>1. /\ a \in Seq(Events) /\ Len(a) = r.next - 1 - cursor
      /\ \A i \in 1..Len(a) : a[i].cursor = cursor + i
  BY AvailableFacts
<1>2. r.next \in Nat \ {0} /\ cursor \in Nat /\ Len(a) \in Nat
  BY <1>1, RingFields, LenProperties
<1>3. Returned(r, cursor) = part
  BY Zenon DEF Returned
<1>4. Truncated(r, cursor) <=> BytesOf(a) > TailBytes
  BY DEF Truncated
<1> HIDE DEF a
<1>5. fits \in SUBSET (0..Len(a)) /\ 0 \in fits /\ (Len(a) # 0 => 1 \in fits)
  BY <1>2
<1>6. ~(BytesOf(a) > TailBytes) => Len(a) \in fits
  <2>1. SubSeq(a, 1, Len(a)) = a
    <3>1. /\ SubSeq(a, 1, Len(a)) \in Seq(Events) /\ Len(SubSeq(a, 1, Len(a))) = Len(a)
          /\ \A i \in 1..Len(a) : SubSeq(a, 1, Len(a))[i] = a[i]
      BY <1>1, <1>2, Parts
    <3> QED
      BY <1>1, <3>1, SeqEqual
  <2>2. BytesOf(a) \in Nat /\ TailBytes \in Nat
    BY <1>1, BytesAreNat, SizesAreNat
  <2>3. ~(BytesOf(a) > TailBytes) => BytesOf(SubSeq(a, 1, Len(a))) <= TailBytes
    <3> DEFINE bytes == BytesOf(a)
    <3>1. BytesOf(SubSeq(a, 1, Len(a))) = bytes
      BY <2>1
    <3> HIDE DEF bytes
    <3> QED
      BY <2>2, <3>1 DEF bytes
  <2>4. Len(a) \in 0..Len(a)
    BY <1>2
  <2> QED
    BY <2>3, <2>4
<1> HIDE DEF fits
<1>7. k \in fits /\ \A j \in fits : k >= j
  <2>1. \E x \in fits : \A y \in fits : x >= y
    BY <1>2, <1>5, GreatestNatural
  <2> QED
    BY <2>1, Zenon DEF Max
<1> HIDE DEF k
<1>8. k \in 0..Len(a) /\ (Len(a) # 0 => k # 0)
  BY <1>2, <1>5, <1>7
<1>9. ~(BytesOf(a) > TailBytes) => k = Len(a)
  BY <1>2, <1>6, <1>7, <1>8
<1>10. /\ part \in Seq(Events) /\ Len(part) = k /\ \A i \in 1..k : part[i] = a[i]
       /\ DOMAIN part = 1..k
  <2>1. part \in Seq(Events) /\ Len(part) = k /\ \A i \in 1..k : part[i] = a[i]
    BY <1>1, <1>8, Parts
  <2> QED
    BY <2>1, LenProperties
<1> HIDE DEF part
<1>11. \A i \in 1..k : part[i].cursor = cursor + i
  <2>1. \A i \in 1..k : i \in 1..Len(a)
    BY <1>2, <1>8
  <2> QED
    BY <1>1, <1>10, <2>1
<1>12. NextCursor(r, cursor) = cursor + k
  <2>1. NextCursor(r, cursor)
          = IF part # <<>> THEN part[Len(part)].cursor ELSE Max({cursor, r.next - 1})
    BY <1>3 DEF NextCursor
  <2>2. CASE k = 0
    <3>1. part = <<>>
      BY <1>10, <2>2, EmptySeq
    <3>2. cursor = r.next - 1
      BY <1>1, <1>2, <1>8, <2>2
    <3>3. Max({cursor, r.next - 1}) = cursor
      BY <1>2, <3>2 DEF Max
    <3> QED
      BY <1>2, <2>1, <2>2, <3>1, <3>3
  <2>3. CASE k # 0
    <3>1. part # <<>> /\ k \in 1..k
      BY <1>2, <1>8, <1>10, <2>3, EmptySeq
    <3> QED
      BY <1>10, <1>11, <2>1, <3>1
  <2> QED
    BY <2>2, <2>3
<1>13. {e.cursor : e \in Range(part)} = (cursor + 1)..(cursor + k)
  <2>1. Range(part) = {part[i] : i \in 1..k}
    BY <1>10 DEF Range
  <2>2. {e.cursor : e \in Range(part)} = {part[i].cursor : i \in 1..k}
    BY <2>1
  <2>3. {part[i].cursor : i \in 1..k} = {cursor + i : i \in 1..k}
    BY <1>11
  <2>4. {cursor + i : i \in 1..k} = (cursor + 1)..(cursor + k)
    <3>1. ASSUME NEW x \in (cursor + 1)..(cursor + k) PROVE x \in {cursor + i : i \in 1..k}
      <4>1. x - cursor \in 1..k /\ x = cursor + (x - cursor)
        BY <1>2, <1>8
      <4> QED
        BY <4>1
    <3>2. \A i \in 1..k : cursor + i \in (cursor + 1)..(cursor + k)
      BY <1>2, <1>8
    <3> QED
      BY <3>1, <3>2
  <2> QED
    BY <2>2, <2>3, <2>4
<1>14. cursor + k \in cursor..(r.next - 1) /\ (k = Len(a) => cursor + k = r.next - 1)
  <2> DEFINE next == r.next
             all  == Len(a)
  <2>1. next \in Nat \ {0} /\ all = next - 1 - cursor /\ k \in 0..all /\ all \in Nat
    BY <1>1, <1>2, <1>8
  <2> HIDE DEF next, all
  <2>2. cursor + k \in cursor..(next - 1) /\ (k = all => cursor + k = next - 1)
    BY <1>2, <2>1
  <2> QED
    BY <2>2 DEF next, all
<1> QED
  BY <1>3, <1>4, <1>9, <1>12, <1>13, <1>14

-----------------------------------------------------------------------------
(* The inductive invariant, and each action.                                *)

ReaderType ==
  /\ reader.cursor \in 0..(ring.next - 1)
  /\ reader.seen \subseteq Nat /\ reader.missed \subseteq Nat /\ reader.done \in BOOLEAN

\* An ended job writes no more, which is what makes the end of its log final.
Inv ==
  /\ GoodRing(ring)
  /\ streams \subseteq OutputStreams
  /\ process \in {"alive", "dead"}
  /\ status \in {"running", "exited", "interrupted"}
  /\ interrupted \in BOOLEAN
  /\ written \in 0..MaxOutput
  /\ Known(ring) <= written
  /\ DOMAIN reader = {"cursor", "seen", "missed", "done"} /\ ReaderType
  /\ NoSilentGap /\ EndedIsComplete
  /\ reader.done => status # "running"
  /\ status # "running" => streams = {}

LEMMA InvInit == Init => Inv
<1> SUFFICES ASSUME Init PROVE Inv
  OBVIOUS
<1>1. ring.events = <<>> /\ ring.next = 1 /\ ring.counted = 0
  BY DEF Init
<1>2. Len(ring.events) = 0 /\ <<>> \in Seq(Events)
  BY <1>1, EmptySeq
<1>3. BytesOf(ring.events) = 0 /\ OutputOf(ring.events) = 0
  BY <1>1, <1>2, BytesAreNat
<1>4. GoodRing(ring)
  <2>1. ring \in [events : Seq(Events), next : Nat \ {0}, counted : Nat]
    BY <1>2 DEF Init
  <2>2. Contiguous(ring)
    BY <1>2 DEF Contiguous
  <2>3. Bounded(ring.events)
    BY <1>3, SizesAreNat DEF Bounded
  <2> QED
    BY <1>1, <2>1, <2>2, <2>3 DEF GoodRing
<1>5. Known(ring) = 0
  BY <1>1, <1>3 DEF Known
<1>6. reader.cursor = 0 /\ reader.seen = {} /\ reader.missed = {} /\ reader.done = FALSE
  BY DEF Init
<1>7. ReaderType
  <2>1. 0 \in 0..(ring.next - 1)
    BY <1>1
  <2> QED
    BY <1>6, <2>1 DEF ReaderType
<1>8. NoSilentGap /\ EndedIsComplete
  BY <1>6 DEF NoSilentGap, EndedIsComplete
<1>9. DOMAIN reader = {"cursor", "seen", "missed", "done"}
  BY DEF Init
<1>10. /\ streams = OutputStreams /\ process = "alive" /\ status = "running"
       /\ interrupted = FALSE /\ written = 0
  BY DEF Init
<1>11. written \in 0..MaxOutput /\ Known(ring) <= written
  BY <1>5, <1>10, SizesAreNat
<1> QED
  BY <1>4, <1>6, <1>7, <1>8, <1>9, <1>10, <1>11 DEF Inv

\* A write: the ring takes the pieces, and an ended job makes none.
LEMMA WritesFacts ==
  ASSUME Inv, NEW stream \in streams, NEW pieces \in Seq(Nat), Writes(stream, pieces),
         UNCHANGED reader
  PROVE  /\ GoodRing(ring') /\ written' \in 0..MaxOutput /\ Known(ring') <= written'
         /\ ReaderType' /\ NoSilentGap' /\ EndedIsComplete'
<1>1. /\ GoodRing(ring) /\ stream \in OutputStreams /\ Known(ring) <= written
      /\ written \in Nat /\ status = "running" /\ ~reader.done
  BY DEF Inv
<1>2. /\ ring' = Add(ring, stream, pieces) /\ written' = written + Total(pieces)
      /\ written' <= MaxOutput
  BY DEF Writes
<1>3. /\ GoodRing(ring') /\ ring'.next >= ring.next
      /\ Known(ring') \in Nat /\ Known(ring') <= Known(ring) + Total(pieces)
  BY <1>1, <1>2, AddFacts
<1>4. Known(ring) \in Nat /\ Total(pieces) \in Nat
  BY <1>1, RingFields, TotalIsNat DEF Known
<1>5. written' \in 0..MaxOutput /\ Known(ring') <= written'
  BY <1>1, <1>2, <1>3, <1>4, SizesAreNat
<1>6. ring.next \in Nat /\ ring'.next \in Nat
  BY <1>1, <1>3, RingFields
<1>7. ReaderType'
  <2>1. reader.cursor \in 0..(ring.next - 1)
    BY DEF Inv, ReaderType
  <2>2. reader.cursor \in 0..(ring'.next - 1)
    BY <1>3, <1>6, <2>1
  <2> QED
    BY <2>2 DEF Inv, ReaderType
<1>8. NoSilentGap' /\ EndedIsComplete'
  BY <1>1 DEF Inv, NoSilentGap, EndedIsComplete
<1> QED
  BY <1>3, <1>5, <1>7, <1>8

LEMMA PiecesAreSizes ==
  /\ Pieces \subseteq Seq(Nat)
  /\ \A bytes \in 1..CharBytes : <<bytes>> \in Seq(Nat)
<1>1. ASSUME NEW p \in Pieces PROVE p \in Seq(Nat)
  <2>1. PICK n \in 1..ReadBytes : p \in [1..n -> 1..MaxEventBytes]
    BY DEF Pieces
  <2>2. n \in Nat /\ p \in [1..n -> Nat]
    BY <2>1, SizesAreNat
  <2> QED
    BY <2>2
<1>2. \A bytes \in 1..CharBytes : bytes \in Nat
  BY SizesAreNat
<1> QED
  BY <1>1, <1>2

LEMMA ReadInductive ==
  ASSUME Inv, NEW stream \in OutputStreams, ReadStream(stream)
  PROVE  Inv'
<1>1. PICK pieces \in Pieces : Writes(stream, pieces)
  BY DEF ReadStream
<1>2. stream \in streams /\ UNCHANGED <<streams, process, status, interrupted, reader>>
  BY DEF ReadStream
<1>3. pieces \in Seq(Nat)
  BY PiecesAreSizes
<1>4. /\ GoodRing(ring') /\ written' \in 0..MaxOutput /\ Known(ring') <= written'
      /\ ReaderType' /\ NoSilentGap' /\ EndedIsComplete'
  BY <1>1, <1>2, <1>3, WritesFacts
<1> QED
  BY <1>2, <1>4 DEF Inv

LEMMA EndInductive ==
  ASSUME Inv, NEW stream \in OutputStreams, StreamEnds(stream)
  PROVE  Inv'
<1>1. /\ stream \in streams /\ streams' \subseteq streams
      /\ UNCHANGED <<process, status, interrupted, reader>>
  BY DEF StreamEnds
<1>2. /\ GoodRing(ring') /\ written' \in 0..MaxOutput /\ Known(ring') <= written'
      /\ ReaderType' /\ NoSilentGap' /\ EndedIsComplete'
  <2>1. CASE UNCHANGED <<ring, written>>
    BY <1>1, <2>1 DEF Inv, ReaderType, NoSilentGap, EndedIsComplete
  <2>2. ASSUME NEW bytes \in 1..CharBytes, Writes(stream, <<bytes>>)
        PROVE  /\ GoodRing(ring') /\ written' \in 0..MaxOutput /\ Known(ring') <= written'
               /\ ReaderType' /\ NoSilentGap' /\ EndedIsComplete'
    <3>1. <<bytes>> \in Seq(Nat)
      BY PiecesAreSizes
    <3> QED
      BY <1>1, <2>2, <3>1, WritesFacts
  <2> QED
    BY <2>1, <2>2 DEF StreamEnds
<1>3. status # "running" => streams' = {}
  BY <1>1 DEF Inv
<1> QED
  BY <1>1, <1>2, <1>3 DEF Inv

\* CURSOR_EXPIRED: the reader goes on from the oldest event.
LEMMA ExpiredInductive ==
  ASSUME Inv, TailJob, Expired(ring, reader.cursor)
  PROVE  ReaderType' /\ NoSilentGap' /\ ~reader'.done
         /\ DOMAIN reader' = {"cursor", "seen", "missed", "done"}
<1> DEFINE oldest == ring.events[1].cursor
           gap    == (reader.cursor + 1)..(oldest - 1)
<1>1. /\ reader' = [reader EXCEPT !.cursor = oldest - 1, !.missed = @ \cup gap]
      /\ ~reader.done /\ ring' = ring
  BY DEF TailJob
<1>2. /\ reader'.cursor = oldest - 1 /\ reader'.missed = reader.missed \cup gap
      /\ reader'.seen = reader.seen /\ reader'.done = reader.done
      /\ DOMAIN reader' = {"cursor", "seen", "missed", "done"}
  BY <1>1 DEF Inv
<1>3. GoodRing(ring) /\ Len(ring.events) \in Nat /\ ring.events \in Seq(Events)
  BY RingFields DEF Inv
<1>4. PICK first \in Nat :
        /\ ring.next = first + Len(ring.events)
        /\ \A i \in 1..Len(ring.events) : ring.events[i].cursor = first + i - 1
  BY <1>3, FirstCursor
<1>5. ring.events # <<>> /\ reader.cursor + 1 < oldest
  BY DEF Expired
<1>6. Len(ring.events) # 0
  BY <1>3, <1>5, EmptySeq
<1>7. oldest = first /\ ring.next >= oldest + 1
  BY <1>3, <1>4, <1>6
<1>8. reader.cursor \in Nat /\ reader.seen \subseteq Nat /\ reader.missed \subseteq Nat
  BY <1>3, <1>4 DEF Inv, ReaderType
<1> HIDE DEF oldest
<1>9. /\ oldest - 1 \in 0..(ring.next - 1) /\ gap \subseteq Nat
      /\ 1..(oldest - 1) = 1..reader.cursor \cup gap
  BY <1>3, <1>4, <1>5, <1>7, <1>8
<1>10. ReaderType'
  BY <1>1, <1>2, <1>8, <1>9 DEF ReaderType, Inv
<1>11. NoSilentGap'
  BY <1>2, <1>9 DEF NoSilentGap, Inv
<1> QED
  BY <1>1, <1>2, <1>10, <1>11

\* An answer: the reader has the events up to its new cursor.
LEMMA AnswerInductive ==
  ASSUME Inv, TailJob, ~Expired(ring, reader.cursor)
  PROVE  /\ ReaderType' /\ NoSilentGap' /\ EndedIsComplete'
         /\ reader'.done => status # "running"
         /\ DOMAIN reader' = {"cursor", "seen", "missed", "done"}
<1> DEFINE c    == reader.cursor
           d    == NextCursor(ring, c)
           more == {e.cursor : e \in Range(Returned(ring, c))}
<1>1. /\ reader' = [cursor |-> d, seen |-> reader.seen \cup more, missed |-> reader.missed,
                    done |-> status # "running" /\ ~Truncated(ring, c)]
      /\ ring' = ring /\ status' = status
  BY DEF TailJob
<1>2. GoodRing(ring) /\ c \in 0..(ring.next - 1) /\ ring.next \in Nat \ {0}
  <2>1. GoodRing(ring) /\ c \in 0..(ring.next - 1)
    BY DEF Inv, ReaderType
  <2> QED
    BY <2>1, RingFields
<1>3. /\ d \in c..(ring.next - 1) /\ more = (c + 1)..d
      /\ ~Truncated(ring, c) => d = ring.next - 1
  BY <1>2, ReturnedFacts
<1>4. /\ reader'.cursor = d /\ reader'.seen = reader.seen \cup more
      /\ reader'.missed = reader.missed
      /\ reader'.done = (status # "running" /\ ~Truncated(ring, c))
      /\ DOMAIN reader' = {"cursor", "seen", "missed", "done"}
  BY <1>1
<1>5. reader.seen \cup reader.missed = 1..c /\ reader.seen \subseteq Nat /\ reader.missed \subseteq Nat
  BY DEF Inv, ReaderType, NoSilentGap
<1> HIDE DEF c, d, more
<1>6. d \in 0..(ring.next - 1) /\ more \subseteq Nat /\ 1..d = 1..c \cup more
  BY <1>2, <1>3
<1>7. ReaderType'
  BY <1>1, <1>4, <1>5, <1>6 DEF ReaderType
<1>8. NoSilentGap'
  BY <1>4, <1>5, <1>6 DEF NoSilentGap
<1>9. EndedIsComplete'
  <2>1. reader'.done => d = ring.next - 1
    BY <1>3, <1>4, Zenon
  <2>2. d = ring.next - 1 => d + 1 = ring.next
    BY <1>2
  <2> QED
    BY <1>1, <1>4, <2>1, <2>2 DEF EndedIsComplete
<1> QED
  BY <1>4, <1>7, <1>8, <1>9

LEMMA InvNext ==
  ASSUME Inv, [Next]_vars
  PROVE  Inv'
<1>1. ASSUME NEW stream \in OutputStreams, ReadStream(stream) PROVE Inv'
  BY <1>1, ReadInductive
<1>2. ASSUME NEW stream \in OutputStreams, StreamEnds(stream) PROVE Inv'
  BY <1>2, EndInductive
<1>3. CASE ProcessEnds
  BY <1>3 DEF ProcessEnds, Inv, ReaderType, NoSilentGap, EndedIsComplete
<1>4. CASE Interrupt
  BY <1>4 DEF Interrupt, Inv, ReaderType, NoSilentGap, EndedIsComplete
<1>5. CASE WatchProcess
  <2>1. status' \in {"exited", "interrupted"}
    BY <1>5 DEF WatchProcess
  <2> QED
    BY <1>5, <2>1 DEF WatchProcess, Inv, ReaderType, NoSilentGap, EndedIsComplete
<1>6. CASE TailJob
  <2>1. UNCHANGED <<ring, streams, process, status, interrupted, written>> /\ ~reader.done
    BY <1>6 DEF TailJob
  <2>2. /\ ReaderType' /\ NoSilentGap' /\ EndedIsComplete'
        /\ reader'.done => status # "running"
        /\ DOMAIN reader' = {"cursor", "seen", "missed", "done"}
    <3>1. CASE Expired(ring, reader.cursor)
      BY <1>6, <3>1, ExpiredInductive DEF EndedIsComplete
    <3>2. CASE ~Expired(ring, reader.cursor)
      BY <1>6, <3>2, AnswerInductive
    <3> QED
      BY <3>1, <3>2
  <2> QED
    BY <2>1, <2>2 DEF Inv
<1>7. CASE UNCHANGED vars
  BY <1>7 DEF vars, Inv, ReaderType, NoSilentGap, EndedIsComplete
<1> QED
  BY <1>1, <1>2, <1>3, <1>4, <1>5, <1>6, <1>7 DEF Next

LEMMA InvAlways == Spec => []Inv
  BY InvInit, InvNext, PTL DEF Spec

-----------------------------------------------------------------------------
(* The theorems.                                                            *)

\* Every variable has its type.
THEOREM TypeCorrect == Spec => []TypeOK
<1>1. Inv => TypeOK
  BY DEF Inv, GoodRing, ReaderType, TypeOK
<1> QED
  BY <1>1, InvAlways, PTL

\* However events and markers push each other out (_compact and
\* _add_log_dropped_event), the ring exceeds its limit by one event at most.
THEOREM RingBoundedAlways == Spec => []RingBounded
<1>1. Inv => RingBounded
  BY DEF Inv, GoodRing, Bounded, RingBounded
<1> QED
  BY <1>1, InvAlways, PTL

\* The cursors of the ring have no hole and end at the last one given out.
THEOREM CursorsContiguousAlways == Spec => []CursorsContiguous
<1>1. Inv => CursorsContiguous
  <2>1. ASSUME Inv PROVE DOMAIN ring.events = 1..Len(ring.events)
    BY <2>1, RingFields, LenProperties DEF Inv
  <2> QED
    BY <2>1 DEF Inv, GoodRing, Contiguous, CursorsContiguous
<1> QED
  BY <1>1, InvAlways, PTL

\* A controller that follows the log by tail_job misses no event in silence.
THEOREM NoSilentGapAlways == Spec => []NoSilentGap
<1>1. Inv => NoSilentGap
  BY DEF Inv
<1> QED
  BY <1>1, InvAlways, PTL

\* An answer that says that the job ended and that nothing was cut off is the
\* end of the log, for good.
THEOREM EndedIsCompleteAlways == Spec => []EndedIsComplete
<1>1. Inv => EndedIsComplete
  BY DEF Inv
<1> QED
  BY <1>1, InvAlways, PTL

\* The log_dropped markers count no byte twice, and none that is still kept.
THEOREM DropsNotOvercountedAlways == Spec => []DropsNotOvercounted
<1>1. Inv => DropsNotOvercounted
  BY DEF Inv, Known, DropsNotOvercounted
<1> QED
  BY <1>1, InvAlways, PTL
=============================================================================
