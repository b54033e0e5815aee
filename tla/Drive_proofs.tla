------------------------------ MODULE Drive_proofs ------------------------------
(***************************************************************************)
(* Theorems about Drive, for every number of requests, every set of        *)
(* notifications, all three drivers, pipes of every size and every fault.  *)
(***************************************************************************)
EXTENDS Drive, Integers, SequenceTheorems, WellFoundedInduction, TLAPS

-----------------------------------------------------------------------------
(* Facts about data.                                                        *)

\* Every nonempty set of numbers has a least element.
LEMMA LeastElement ==
  ASSUME NEW T, T \subseteq Nat, T # {}
  PROVE  \E m \in T : \A k \in T : m <= k
<1> DEFINE Below == OpToRel(<, Nat)
<1>1. IsWellFoundedOn(Below, Nat)
  BY NatLessThanWellFounded
<1>2. \A y, x \in Nat : y < x => <<y, x>> \in Below
  BY DEF OpToRel
<1> HIDE DEF Below
<1>3. PICK x \in T : \A y \in T : ~ (<<y, x>> \in Below)
  BY <1>1, WFMin
<1>4. \A y \in T : ~ (y < x)
  BY <1>2, <1>3
<1>5. QED
  BY <1>4

\* A set that holds 0 and with each number the next holds them all.
LEMMA SetInduction ==
  ASSUME NEW n \in Nat, NEW T, 0 \in T, \A i \in 1..n : i - 1 \in T => i \in T
  PROVE  \A i \in 0..n : i \in T
<1> DEFINE Bad == {i \in 0..n : i \notin T}
<1>1. SUFFICES ASSUME Bad # {} PROVE FALSE
  OBVIOUS
<1>2. PICK m \in Bad : \A k \in Bad : m <= k
  <2>1. Bad \subseteq Nat
    OBVIOUS
  <2> HIDE DEF Bad
  <2>2. QED
    BY <1>1, <2>1, LeastElement
<1>3. m - 1 \in 0..n /\ m - 1 \in T
  BY <1>2
<1>4. QED
  BY <1>2, <1>3

\* What Min finds.
LEMMA MinIsLeast ==
  ASSUME NEW T, T \subseteq Nat, T # {}
  PROVE  Min(T) \in T /\ \A k \in T : Min(T) <= k
<1>1. \E m \in T : \A k \in T : m <= k
  BY LeastElement
<1>2. QED
  BY <1>1 DEF Min

\* What Max finds in a bounded set.
LEMMA MaxIsGreatest ==
  ASSUME NEW n \in Nat, NEW T, T \subseteq 0..n, T # {}
  PROVE  Max(T) \in T /\ \A k \in T : k <= Max(T)
<1> DEFINE U == {n - k : k \in T}
<1>1. U \subseteq Nat /\ U # {}
  <2>1. \A k \in T : n - k \in Nat
    OBVIOUS
  <2>2. QED
    BY <2>1
<1>2. \E m \in U : \A k \in U : m <= k
  <2> HIDE DEF U
  <2>1. QED
    BY <1>1, LeastElement
<1>3. PICK m \in U : \A k \in U : m <= k
  BY <1>2
<1>4. PICK x \in T : m = n - x
  OBVIOUS
<1>5. ASSUME NEW k \in T PROVE x >= k
  <2>1. n - k \in U
    OBVIOUS
  <2>2. n - x <= n - k
    BY <2>1, <1>3, <1>4
  <2>3. QED
    BY <2>2
<1>6. QED
  BY <1>5 DEF Max

\* What \o returns.
LEMMA Concatenated ==
  ASSUME NEW S, NEW s \in Seq(S), NEW t \in Seq(S)
  PROVE  /\ Len(s \o t) = Len(s) + Len(t) /\ Len(s) \in Nat /\ Len(t) \in Nat
         /\ DOMAIN (s \o t) = 1..(Len(s) + Len(t)) /\ DOMAIN s = 1..Len(s) /\ DOMAIN t = 1..Len(t)
         /\ \A k \in 1..Len(s) : (s \o t)[k] = s[k]
         /\ \A k \in 1..Len(t) : (s \o t)[Len(s) + k] = t[k]
BY ConcatProperties

\* A sequence grows out of its beginnings.
LEMMA Beginnings ==
  ASSUME NEW S, NEW s \in Seq(S)
  PROVE  /\ SubSeq(s, 1, 0) = <<>> /\ SubSeq(s, 1, Len(s)) = s
         /\ \A i \in 0..Len(s) : SubSeq(s, 1, i) \in Seq(S) /\ Len(SubSeq(s, 1, i)) = i
         /\ \A i \in 1..Len(s) : s[i] \in S /\ SubSeq(s, 1, i) = Append(SubSeq(s, 1, i - 1), s[i])
<1>1. SubSeq(s, 1, 0) = <<>> /\ SubSeq(s, 1, Len(s)) = s
  OBVIOUS
<1>2. ASSUME NEW i \in 0..Len(s) PROVE SubSeq(s, 1, i) \in Seq(S) /\ Len(SubSeq(s, 1, i)) = i
  OBVIOUS
<1>3. ASSUME NEW i \in 1..Len(s)
      PROVE  s[i] \in S /\ SubSeq(s, 1, i) = Append(SubSeq(s, 1, i - 1), s[i])
  OBVIOUS
<1>4. QED
  BY <1>1, <1>2, <1>3

\* Cut in two and put together again.
LEMMA TwoParts ==
  ASSUME NEW S, NEW s \in Seq(S), NEW n \in 1..Len(s)
  PROVE  /\ SubSeq(s, 1, n) \in Seq(S) /\ SubSeq(s, n + 1, Len(s)) \in Seq(S)
         /\ SubSeq(s, 1, n) \o SubSeq(s, n + 1, Len(s)) = s
<1>1. SubSeq(s, 1, n) \in Seq(S)
  OBVIOUS
<1>2. SubSeq(s, n + 1, Len(s)) \in Seq(S)
  OBVIOUS
<1>3. SubSeq(s, 1, n) \o SubSeq(s, n + 1, Len(s)) = s
  OBVIOUS
<1>4. QED
  BY <1>1, <1>2, <1>3

\* Appending to the last of two.
LEMMA ConcatAppend ==
  ASSUME NEW S, NEW s \in Seq(S), NEW t \in Seq(S), NEW x \in S
  PROVE  s \o Append(t, x) = Append(s \o t, x)
  OBVIOUS

\* One element more.
OneMore(s, x, t) ==
  /\ Len(t) = Len(s) + 1 /\ t[Len(s) + 1] = x
  /\ \A i \in 1..Len(s) : t[i] = s[i]

LEMMA AppendedOne ==
  ASSUME NEW S, NEW s \in Seq(S), NEW x \in S
  PROVE  /\ Append(s, x) \in Seq(S) /\ OneMore(s, x, Append(s, x))
         /\ s \o <<x>> = Append(s, x) /\ Len(s) \in Nat
<1>1. Append(s, x) \in Seq(S) /\ OneMore(s, x, Append(s, x)) /\ Len(s) \in Nat
  BY DEF OneMore
<1>2. s \o <<x>> = Append(s, x)
  OBVIOUS
<1>3. QED
  BY <1>1, <1>2

-----------------------------------------------------------------------------
(* Sequences.                                                               *)

Counts(s, I, n, g) ==
  g = [i \in 0..n |->
        IF i = 0 THEN <<>> ELSE IF i \in I THEN Append(g[i - 1], s[i]) ELSE g[i - 1]]

\* The recursion of Kept defines a function.
LEMMA KeptDefined ==
  ASSUME NEW s, Len(s) \in Nat, NEW I
  PROVE  \E g : Counts(s, I, Len(s), g) /\ Kept(s, I) = g[Len(s)]
<1> DEFINE T == {n \in 0..Len(s) : \E g : Counts(s, I, n, g)}
<1>1. 0 \in T
  <2>1. Counts(s, I, 0, [i \in 0..0 |-> <<>>])
    BY DEF Counts
  <2>2. QED
    BY <2>1
<1>2. ASSUME NEW n \in 1..Len(s), n - 1 \in T PROVE n \in T
  <2>1. PICK g : Counts(s, I, n - 1, g)
    BY <1>2
  <2> DEFINE last == IF n \in I THEN Append(g[n - 1], s[n]) ELSE g[n - 1]
             h == [i \in 0..n |-> IF i = n THEN last ELSE g[i]]
  <2> HIDE DEF last
  <2>2. \A i \in 0..(n - 1) : h[i] = g[i]
    OBVIOUS
  <2>3. h[n] = last
    OBVIOUS
  <2>4. ASSUME NEW i \in 0..n
        PROVE  h[i] = IF i = 0 THEN <<>> ELSE IF i \in I THEN Append(h[i - 1], s[i]) ELSE h[i - 1]
    <3>1. CASE i = n
      <4>1. n # 0 /\ n - 1 \in 0..(n - 1)
        OBVIOUS
      <4>2. h[n - 1] = g[n - 1]
        BY <4>1, <2>2
      <4> HIDE DEF h
      <4>3. QED
        BY <3>1, <4>1, <4>2, <2>3 DEF last
    <3>2. CASE i # n
      <4>1. i \in 0..(n - 1) /\ (i # 0 => i - 1 \in 0..(n - 1))
        BY <3>2
      <4>2. g[i] = IF i = 0 THEN <<>> ELSE IF i \in I THEN Append(g[i - 1], s[i]) ELSE g[i - 1]
        BY <4>1, <2>1 DEF Counts
      <4> HIDE DEF h
      <4>3. QED
        BY <4>1, <4>2, <2>2
    <3>3. QED
      BY <3>1, <3>2
  <2>5. Counts(s, I, n, h)
    BY <2>4 DEF Counts
  <2>6. QED
    BY <2>5
<1>3. Len(s) \in T
  <2> HIDE DEF T
  <2>1. \A i \in 0..Len(s) : i \in T
    BY <1>1, <1>2, SetInduction
  <2>2. QED
    BY <2>1
<1>4. \E g : Counts(s, I, Len(s), g)
  BY <1>3
<1>5. QED
  BY <1>4 DEF Kept, Counts

\* Kept takes one place after the other.
Steps(s, I, g) ==
  /\ g[0] = <<>>
  /\ \A i \in 1..Len(s) : /\ i \in I => g[i] = Append(g[i - 1], s[i])
                          /\ i \notin I => g[i] = g[i - 1]

LEMMA KeptStep ==
  ASSUME NEW s, Len(s) \in Nat, NEW I
  PROVE  \E g : Steps(s, I, g) /\ Kept(s, I) = g[Len(s)]
<1>1. PICK g : Counts(s, I, Len(s), g) /\ Kept(s, I) = g[Len(s)]
  BY KeptDefined
<1>2. g[0] = <<>>
  BY <1>1 DEF Counts
<1>3. ASSUME NEW i \in 1..Len(s)
      PROVE  /\ i \in I => g[i] = Append(g[i - 1], s[i])
             /\ i \notin I => g[i] = g[i - 1]
  <2>1. i \in 0..Len(s) /\ i # 0
    OBVIOUS
  <2>2. g[i] = IF i \in I THEN Append(g[i - 1], s[i]) ELSE g[i - 1]
    BY <2>1, <1>1 DEF Counts
  <2>3. QED
    BY <2>2
<1>4. QED
  BY <1>1, <1>2, <1>3 DEF Steps

LEMMA KeptEmpty ==
  ASSUME NEW I
  PROVE  Kept(<<>>, I) = <<>>
<1>1. Len(<<>>) \in Nat /\ Len(<<>>) = 0
  OBVIOUS
<1>2. PICK g : Steps(<<>>, I, g) /\ Kept(<<>>, I) = g[Len(<<>>)]
  BY <1>1, KeptStep
<1>3. QED
  BY <1>1, <1>2 DEF Steps

\* Places that agree keep the same, in two sequences that agree.
Alike(n, I, J) == \A i \in 1..n : i \in I <=> i \in J
Begins(s, t) == Len(s) <= Len(t) /\ \A i \in 1..Len(s) : t[i] = s[i]

LEMMA KeptAgrees ==
  ASSUME NEW s, NEW t, Len(s) \in Nat, Len(t) \in Nat, Begins(s, t),
         NEW I, NEW J, Alike(Len(s), I, J), NEW g, Steps(t, J, g)
  PROVE  Kept(s, I) = g[Len(s)]
<1> DEFINE n == Len(s)
           m == Len(t)
<1>1. n \in Nat /\ m \in Nat /\ n <= m
  BY DEF Begins
<1>2. PICK f : Steps(s, I, f) /\ Kept(s, I) = f[n]
  BY <1>1, KeptStep
<1> DEFINE T == {i \in 0..n : f[i] = g[i]}
<1> HIDE DEF n, m
<1>3. 0 \in T
  BY <1>1, <1>2 DEF Steps
<1>4. ASSUME NEW i \in 1..n, i - 1 \in T PROVE i \in T
  <2>1. i \in 1..m /\ t[i] = s[i] /\ (i \in I <=> i \in J) /\ f[i - 1] = g[i - 1]
    BY <1>1, <1>4 DEF n, Begins, Alike
  <2>2. /\ i \in J => g[i] = Append(g[i - 1], t[i])
        /\ i \notin J => g[i] = g[i - 1]
    BY <2>1 DEF m, Steps
  <2>3. /\ i \in I => f[i] = Append(f[i - 1], s[i])
        /\ i \notin I => f[i] = f[i - 1]
    BY <1>2 DEF n, Steps
  <2>4. f[i] = g[i]
    BY <2>1, <2>2, <2>3
  <2>5. QED
    BY <2>4
<1>5. \A i \in 0..n : i \in T
  <2> HIDE DEF T
  <2>1. QED
    BY <1>1, <1>3, <1>4, SetInduction
<1>6. n \in T
  BY <1>1, <1>5
<1>7. QED
  BY <1>2, <1>6 DEF n

\* What Kept makes of one place more, ...
LEMMA KeptAppend ==
  ASSUME NEW S, NEW s \in Seq(S), NEW x \in S, NEW I, NEW J, Alike(Len(s), I, J)
  PROVE  /\ Len(s) + 1 \in J => Kept(Append(s, x), J) = Append(Kept(s, I), x)
         /\ Len(s) + 1 \notin J => Kept(Append(s, x), J) = Kept(s, I)
<1> DEFINE t == Append(s, x)
<1>1. /\ t \in Seq(S) /\ Len(t) = Len(s) + 1 /\ Len(s) \in Nat
      /\ \A i \in 1..Len(s) : t[i] = s[i]
      /\ t[Len(s) + 1] = x
  OBVIOUS
<1> HIDE DEF t
<1>2. PICK g : Steps(t, J, g) /\ Kept(t, J) = g[Len(t)]
  BY <1>1, KeptStep
<1>3. Kept(s, I) = g[Len(s)]
  <2>1. Len(t) \in Nat /\ Begins(s, t)
    BY <1>1 DEF Begins
  <2>2. QED
    BY <1>1, <1>2, <2>1, KeptAgrees
<1>4. Len(s) + 1 \in 1..Len(t) /\ (Len(s) + 1) - 1 = Len(s)
  BY <1>1
<1>5. QED
  BY <1>1, <1>2, <1>3, <1>4 DEF t, Steps

LEMMA KeptType ==
  ASSUME NEW S, NEW s \in Seq(S), NEW I
  PROVE  Kept(s, I) \in Seq(S)
<1> DEFINE T == {i \in 0..Len(s) : Kept(SubSeq(s, 1, i), I) \in Seq(S)}
<1>1. Len(s) \in Nat
  OBVIOUS
<1>2. 0 \in T
  <2>1. SubSeq(s, 1, 0) = <<>> /\ Kept(<<>>, I) = <<>> /\ <<>> \in Seq(S)
    BY Beginnings, KeptEmpty, EmptySeq
  <2>2. Kept(SubSeq(s, 1, 0), I) \in Seq(S)
    BY <2>1, Zenon
  <2>3. QED
    BY <1>1, <2>2
<1>3. ASSUME NEW i \in 1..Len(s), i - 1 \in T PROVE i \in T
  <2> DEFINE a == SubSeq(s, 1, i - 1)
  <2>1. a \in Seq(S) /\ s[i] \in S /\ SubSeq(s, 1, i) = Append(a, s[i])
    BY Beginnings
  <2>2. Kept(a, I) \in Seq(S)
    BY <1>3
  <2> HIDE DEF a
  <2>3. Kept(Append(a, s[i]), I) \in {Append(Kept(a, I), s[i]), Kept(a, I)}
    BY <2>1, KeptAppend DEF Alike
  <2>4. Append(Kept(a, I), s[i]) \in Seq(S)
    BY <2>1, <2>2, AppendProperties
  <2>5. Kept(SubSeq(s, 1, i), I) \in Seq(S)
    BY <2>1, <2>2, <2>3, <2>4, Zenon
  <2>6. QED
    BY <1>1, <2>5
<1>4. Len(s) \in T
  <2> HIDE DEF T
  <2>1. \A i \in 0..Len(s) : i \in T
    BY <1>1, <1>2, <1>3, SetInduction
  <2>2. QED
    BY <1>1, <2>1
<1>5. QED
  BY <1>4, Beginnings

\* ... and of two sequences, one after the other.
Shifted(n, m, J, K) == \A j \in 1..m : j \in J <=> n + j \in K

LEMMA KeptConcat ==
  ASSUME NEW S, NEW s \in Seq(S), NEW t \in Seq(S), NEW I, NEW J, NEW K,
         Alike(Len(s), I, K), Shifted(Len(s), Len(t), J, K)
  PROVE  Kept(s \o t, K) = Kept(s, I) \o Kept(t, J)
<1> DEFINE u(j) == SubSeq(t, 1, j)
           T == {j \in 0..Len(t) : Kept(s \o u(j), K) = Kept(s, I) \o Kept(u(j), J)}
<1>1. Len(t) \in Nat /\ Len(s) \in Nat
  OBVIOUS
<1>2. Kept(s, I) \in Seq(S) /\ Kept(s, K) = Kept(s, I)
  <2>1. PICK g : Steps(s, K, g) /\ Kept(s, K) = g[Len(s)]
    BY <1>1, KeptStep
  <2>2. Begins(s, s)
    BY <1>1 DEF Begins
  <2>3. Kept(s, I) = g[Len(s)]
    BY <1>1, <2>1, <2>2, KeptAgrees
  <2>4. QED
    BY <2>1, <2>3, KeptType
<1>3. 0 \in T
  <2>1. u(0) = <<>> /\ s \o <<>> = s /\ Kept(<<>>, J) = <<>>
    BY Beginnings, KeptEmpty, ConcatEmptySeq
  <2>2. Kept(s, I) \o <<>> = Kept(s, I)
    BY <1>2, ConcatEmptySeq
  <2>3. Kept(s \o u(0), K) = Kept(s, I) \o Kept(u(0), J)
    <3> HIDE DEF u
    <3>1. QED
      BY <1>2, <2>1, <2>2, Zenon
  <2>4. QED
    BY <1>1, <2>3
<1>4. ASSUME NEW j \in 1..Len(t), j - 1 \in T PROVE j \in T
  <2> DEFINE a == u(j - 1)
             x == t[j]
  <2>1. a \in Seq(S) /\ Len(a) = j - 1 /\ x \in S /\ u(j) = Append(a, x)
    BY Beginnings
  <2>2. Kept(s \o a, K) = Kept(s, I) \o Kept(a, J)
    BY <1>4
  <2> HIDE DEF u, a, x, T
  <2>3. /\ s \o Append(a, x) = Append(s \o a, x) /\ s \o a \in Seq(S)
        /\ Len(s \o a) = Len(s) + (j - 1)
    <3>1. s \o Append(a, x) = Append(s \o a, x)
      BY <2>1, ConcatAppend
    <3>2. s \o a \in Seq(S) /\ Len(s \o a) = Len(s) + Len(a)
      BY <2>1, ConcatProperties
    <3>3. QED
      BY <2>1, <3>1, <3>2
  <2>4. Kept(a, J) \in Seq(S)
    BY <2>1, KeptType
  <2>9. Alike(Len(a), J, J) /\ Alike(Len(s \o a), K, K)
    BY DEF Alike
  <2>5. (Len(s \o a) + 1 \in K <=> j \in J) /\ Len(a) + 1 = j
    <3>1. Len(s \o a) + 1 = Len(s) + j
      BY <1>1, <2>3
    <3>2. QED
      BY <2>1, <3>1 DEF Shifted
  <2>6. CASE j \in J
    <3>1. Kept(Append(a, x), J) = Append(Kept(a, J), x)
      <4>1. Len(a) + 1 \in J
        BY <2>5, <2>6
      <4>2. QED
        BY <2>1, <2>9, <4>1, KeptAppend
    <3>2. Kept(Append(s \o a, x), K) = Append(Kept(s \o a, K), x)
      <4> DEFINE b == s \o a
      <4>1. b \in Seq(S) /\ Alike(Len(b), K, K) /\ x \in S /\ Len(b) + 1 \in K
        BY <2>1, <2>3, <2>5, <2>6, <2>9
      <4> HIDE DEF b
      <4>2. Kept(Append(b, x), K) = Append(Kept(b, K), x)
        BY <4>1, KeptAppend
      <4>3. QED
        BY <4>2 DEF b
    <3>3. Kept(s, I) \o Append(Kept(a, J), x) = Append(Kept(s, I) \o Kept(a, J), x)
      BY <1>2, <2>1, <2>4, ConcatAppend
    <3>4. Kept(s \o u(j), K) = Kept(s, I) \o Kept(u(j), J)
      BY <2>1, <2>2, <2>3, <3>1, <3>2, <3>3
    <3>5. QED
      BY <3>4 DEF T
  <2>7. CASE j \notin J
    <3>1. Kept(Append(a, x), J) = Kept(a, J)
      BY <2>1, <2>5, <2>7, <2>9, KeptAppend
    <3>2. Kept(Append(s \o a, x), K) = Kept(s \o a, K)
      <4> DEFINE b == s \o a
      <4>1. b \in Seq(S) /\ Alike(Len(b), K, K) /\ x \in S /\ Len(b) + 1 \notin K
        BY <2>1, <2>3, <2>5, <2>7, <2>9
      <4> HIDE DEF b
      <4>2. Kept(Append(b, x), K) = Kept(b, K)
        BY <4>1, KeptAppend
      <4>3. QED
        BY <4>2 DEF b
    <3>3. Kept(s \o u(j), K) = Kept(s, I) \o Kept(u(j), J)
      BY <2>1, <2>2, <2>3, <3>1, <3>2
    <3>4. QED
      BY <3>3 DEF T
  <2>8. QED
    BY <2>6, <2>7
<1>5. Len(t) \in T
  <2> HIDE DEF T
  <2>1. \A j \in 0..Len(t) : j \in T
    BY <1>1, <1>3, <1>4, SetInduction
  <2>2. QED
    BY <1>1, <2>1
<1>6. u(Len(t)) = t
  BY Beginnings
<1> HIDE DEF u
<1>7. QED
  BY <1>5, <1>6

\* What is kept is there.
LEMMA KeptHas ==
  ASSUME NEW S, NEW s \in Seq(S), NEW I, NEW i \in 1..Len(s), i \in I
  PROVE  \E j \in 1..Len(Kept(s, I)) : Kept(s, I)[j] = s[i]
<1> DEFINE a == SubSeq(s, 1, i - 1)
           b == SubSeq(s, 1, i)
           c == SubSeq(s, i + 1, Len(s))
           J == {k \in 1..Len(c) : i + k \in I}
           f == Kept(a, I)
           h == Kept(c, J)
<1>1. /\ a \in Seq(S) /\ Len(a) = i - 1 /\ b \in Seq(S) /\ Len(b) = i
      /\ s[i] \in S /\ b = Append(a, s[i])
  BY Beginnings
<1>2. c \in Seq(S)
  OBVIOUS
<1>8. b \o c = s
  OBVIOUS
<1>3. Kept(b, I) = Append(f, s[i])
  <2>1. Alike(Len(a), I, I) /\ Len(a) + 1 = i
    BY <1>1 DEF Alike
  <2> HIDE DEF a, b, c
  <2>2. QED
    BY <1>1, <2>1, KeptAppend
<1>4. Kept(s, I) = Append(f, s[i]) \o h
  <2>3. Alike(Len(b), I, I) /\ Shifted(Len(b), Len(c), J, I)
    <3>1. \A j \in 1..Len(c) : j \in J <=> Len(b) + j \in I
      BY <1>1
    <3>2. QED
      BY <3>1 DEF Alike, Shifted
  <2> HIDE DEF f, a, b, c, J
  <2>1. Kept(b \o c, I) = Kept(b, I) \o h
    <3>1. b \in Seq(S)
      BY <1>1
    <3>2. QED
      BY <1>2, <2>3, <3>1, KeptConcat DEF h
  <2>2. QED
    BY <1>3, <1>8, <2>1
<1>5. f \in Seq(S) /\ h \in Seq(S)
  <2> HIDE DEF a, b, c, J
  <2>1. QED
    BY <1>1, <1>2, KeptType
<1> HIDE DEF f, h, a, b, c, J
<1> DEFINE l == Len(f)
<1>6. /\ l + 1 \in 1..Len(Append(f, s[i]) \o h)
      /\ (Append(f, s[i]) \o h)[l + 1] = s[i]
  <2>1. Append(f, s[i]) \in Seq(S) /\ Len(Append(f, s[i])) = l + 1 /\ Append(f, s[i])[l + 1] = s[i]
        /\ l \in Nat /\ Len(h) \in Nat
    BY <1>1, <1>5
  <2> HIDE DEF l
  <2>2. QED
    BY <1>5, <2>1, ConcatProperties
<1>7. QED
  BY <1>4, <1>6

\* What is kept of nowhere, and of everywhere.
LEMMA KeptNone ==
  ASSUME NEW S, NEW s \in Seq(S), NEW I, \A i \in 1..Len(s) : i \notin I
  PROVE  Kept(s, I) = <<>>
<1>1. Len(s) \in Nat
  OBVIOUS
<1>2. PICK g : Steps(s, I, g) /\ Kept(s, I) = g[Len(s)]
  BY <1>1, KeptStep
<1> DEFINE T == {i \in 0..Len(s) : g[i] = <<>>}
<1>3. 0 \in T /\ \A i \in 1..Len(s) : i - 1 \in T => i \in T
  BY <1>1, <1>2 DEF Steps
<1>4. \A i \in 0..Len(s) : i \in T
  <2> HIDE DEF T
  <2>1. QED
    BY <1>1, <1>3, SetInduction
<1>5. QED
  BY <1>1, <1>2, <1>4

LEMMA KeptAll ==
  ASSUME NEW S, NEW s \in Seq(S), NEW I, \A i \in 1..Len(s) : i \in I
  PROVE  Kept(s, I) = s
<1> DEFINE T == {i \in 0..Len(s) : Kept(SubSeq(s, 1, i), I) = SubSeq(s, 1, i)}
<1>1. Len(s) \in Nat
  OBVIOUS
<1>2. 0 \in T
  <2>1. SubSeq(s, 1, 0) = <<>> /\ Kept(<<>>, I) = <<>>
    BY Beginnings, KeptEmpty
  <2>2. Kept(SubSeq(s, 1, 0), I) = SubSeq(s, 1, 0)
    BY <2>1, Zenon
  <2>3. QED
    BY <1>1, <2>2
<1>3. ASSUME NEW i \in 1..Len(s), i - 1 \in T PROVE i \in T
  <2> DEFINE a == SubSeq(s, 1, i - 1)
  <2>1. a \in Seq(S) /\ s[i] \in S /\ SubSeq(s, 1, i) = Append(a, s[i]) /\ Len(a) = i - 1
    BY Beginnings
  <2>2. Kept(a, I) = a
    BY <1>3
  <2> HIDE DEF a
  <2>3. Len(a) + 1 \in I
    BY <2>1
  <2>4. Kept(Append(a, s[i]), I) = Append(a, s[i])
    BY <2>1, <2>2, <2>3, KeptAppend DEF Alike
  <2>5. Kept(SubSeq(s, 1, i), I) = SubSeq(s, 1, i)
    BY <2>1, <2>4, Zenon
  <2>6. QED
    BY <1>1, <2>5
<1>4. Len(s) \in T
  <2> HIDE DEF T
  <2>1. \A i \in 0..Len(s) : i \in T
    BY <1>1, <1>2, <1>3, SetInduction
  <2>2. QED
    BY <1>1, <2>1
<1>5. QED
  BY <1>4, Beginnings

-----------------------------------------------------------------------------
(* Lines and answers. D is the set of requests the lines are about.         *)

LinesOf(D) == [id : D, end : BOOLEAN]
FromServer(D) == [id : D, by : {"server"}]

Sent(s) == [i \in 1..Len(s) |-> [id |-> s[i].id, by |-> "server"]]

LEMMA SentType ==
  ASSUME NEW D, NEW s \in Seq(LinesOf(D))
  PROVE  Sent(s) \in Seq(FromServer(D)) /\ Len(Sent(s)) = Len(s)
         /\ \A i \in 1..Len(s) : Sent(s)[i] = [id |-> s[i].id, by |-> "server"]
<1>1. ASSUME NEW i \in 1..Len(s) PROVE s[i].id \in D
  <2>1. s[i] \in LinesOf(D)
    OBVIOUS
  <2>2. QED
    BY <2>1 DEF LinesOf
<1>2. \A i \in 1..Len(s) : [id |-> s[i].id, by |-> "server"] \in FromServer(D)
  BY <1>1 DEF FromServer
<1>3. Len(s) \in Nat
  OBVIOUS
<1>4. QED
  BY <1>2, <1>3 DEF Sent

LEMMA AnswersType ==
  ASSUME NEW D, NEW s \in Seq(LinesOf(D))
  PROVE  /\ Whole(s) \in Seq(LinesOf(D)) /\ Answers(s) = Sent(Whole(s))
         /\ Answers(s) \in Seq(FromServer(D))
<1>1. Whole(s) \in Seq(LinesOf(D))
  BY KeptType DEF Whole
<1>2. Answers(s) = Sent(Whole(s))
  BY DEF Answers, Sent
<1>3. QED
  BY <1>1, <1>2, SentType

LEMMA AnswersConcat ==
  ASSUME NEW D, NEW s \in Seq(LinesOf(D)), NEW t \in Seq(LinesOf(D))
  PROVE  Answers(s \o t) = Answers(s) \o Answers(t)
<1> DEFINE a == Whole(s)
           b == Whole(t)
           st == s \o t
<1>1. /\ st \in Seq(LinesOf(D)) /\ Len(st) = Len(s) + Len(t) /\ Len(s) \in Nat /\ Len(t) \in Nat
      /\ \A i \in 1..Len(s) : st[i] = s[i]
      /\ \A j \in 1..Len(t) : st[Len(s) + j] = t[j]
  BY ConcatProperties
<1>2. Alike(Len(s), Ends(s), Ends(st)) /\ Shifted(Len(s), Len(t), Ends(t), Ends(st))
  <2> HIDE DEF st
  <2>1. QED
    BY <1>1 DEF Alike, Shifted, Ends
<1>3. Whole(st) = a \o b
  <2>1. Kept(s \o t, Ends(st)) = Kept(s, Ends(s)) \o Kept(t, Ends(t))
    <3> HIDE DEF st
    <3>1. QED
      BY <1>2, KeptConcat
  <2>2. QED
    BY <2>1 DEF Whole
<1>4. a \in Seq(LinesOf(D)) /\ b \in Seq(LinesOf(D))
  BY AnswersType
<1>5. Answers(s) = Sent(a) /\ Answers(t) = Sent(b)
  BY AnswersType
<1>6. Answers(st) = Sent(a \o b)
  <2> HIDE DEF a, b, st
  <2>1. QED
    BY <1>1, <1>3, AnswersType
<1> HIDE DEF a, b
<1>7. Sent(a \o b) = Sent(a) \o Sent(b)
  <2> DEFINE l == Len(a)
             m == Len(b)
             x == Sent(a \o b)
             y == Sent(a) \o Sent(b)
  <2>1. /\ a \o b \in Seq(LinesOf(D)) /\ Len(a \o b) = l + m /\ l \in Nat /\ m \in Nat
        /\ \A i \in 1..l : (a \o b)[i] = a[i]
        /\ \A j \in 1..m : (a \o b)[l + j] = b[j]
    BY <1>4, ConcatProperties
  <2>2. /\ x \in Seq(FromServer(D)) /\ Len(x) = l + m
        /\ \A i \in 1..(l + m) : x[i] = [id |-> (a \o b)[i].id, by |-> "server"]
    <3> DEFINE c == a \o b
    <3>1. c \in Seq(LinesOf(D)) /\ Len(c) = l + m
      BY <2>1
    <3> HIDE DEF c, l, m
    <3>2. Sent(c) \in Seq(FromServer(D)) /\ Len(Sent(c)) = Len(c)
          /\ \A i \in 1..Len(c) : Sent(c)[i] = [id |-> c[i].id, by |-> "server"]
      BY <3>1, SentType
    <3>3. QED
      BY <3>1, <3>2 DEF c
  <2>3. /\ Sent(a) \in Seq(FromServer(D)) /\ Len(Sent(a)) = l
        /\ \A i \in 1..l : Sent(a)[i] = [id |-> a[i].id, by |-> "server"]
    BY <1>4, SentType
  <2>4. /\ Sent(b) \in Seq(FromServer(D)) /\ Len(Sent(b)) = m
        /\ \A j \in 1..m : Sent(b)[j] = [id |-> b[j].id, by |-> "server"]
    BY <1>4, SentType
  <2>5. /\ y \in Seq(FromServer(D)) /\ Len(y) = l + m
        /\ \A i \in 1..l : y[i] = Sent(a)[i]
        /\ \A j \in 1..m : y[l + j] = Sent(b)[j]
    <3>1. y \in Seq(FromServer(D))
      BY <2>3, <2>4, ConcatProperties
    <3>2. /\ Len(y) = Len(Sent(a)) + Len(Sent(b))
          /\ \A i \in 1..Len(Sent(a)) : y[i] = Sent(a)[i]
          /\ \A j \in 1..Len(Sent(b)) : y[Len(Sent(a)) + j] = Sent(b)[j]
      <4> DEFINE F == FromServer(D)
                 e == Sent(a)
                 f == Sent(b)
      <4>1. e \in Seq(F) /\ f \in Seq(F)
        BY <2>3, <2>4
      <4> HIDE DEF e, f, F
      <4>2. QED
        BY <4>1, Concatenated
    <3> HIDE DEF y
    <3>3. QED
      BY <2>3, <2>4, <3>1, <3>2
  <2> HIDE DEF l, m, x, y
  <2>6. ASSUME NEW k \in 1..(l + m) PROVE x[k] = y[k]
    <3>1. CASE k <= l
      <4>1. k \in 1..l
        BY <2>1, <3>1
      <4>2. x[k] = [id |-> a[k].id, by |-> "server"]
        BY <2>1, <2>2, <4>1
      <4>3. y[k] = Sent(a)[k]
        BY <2>5, <4>1
      <4>4. QED
        BY <2>3, <4>1, <4>2, <4>3
    <3>2. CASE k > l
      <4>1. k - l \in 1..m /\ l + (k - l) = k
        BY <2>1, <3>2
      <4>2. x[k] = [id |-> b[k - l].id, by |-> "server"]
        BY <2>1, <2>2, <4>1
      <4>3. y[k] = Sent(b)[k - l]
        BY <2>5, <4>1
      <4>4. QED
        BY <2>4, <4>1, <4>2, <4>3
    <3>3. QED
      BY <2>1, <3>1, <3>2
  <2>7. x = y
    BY <2>2, <2>5, <2>6, SeqEqual
  <2>8. QED
    BY <2>7 DEF x, y
<1>8. QED
  BY <1>5, <1>6, <1>7

\* What ends no line answers nothing.
LEMMA AnswersNone ==
  ASSUME NEW D, NEW s \in Seq(LinesOf(D)), Ends(s) = {}
  PROVE  Answers(s) = <<>>
<1>1. \A i \in 1..Len(s) : i \notin Ends(s)
  OBVIOUS
<1>2. Whole(s) = <<>>
  BY <1>1, KeptNone DEF Whole
<1>3. Len(Whole(s)) = 0
  BY <1>2
<1>4. QED
  BY <1>3 DEF Answers

\* What the drivers keep in their buffer holds no whole line.
LEMMA RestFacts ==
  ASSUME NEW D, NEW s \in Seq(LinesOf(D))
  PROVE  Rest(s) \in Seq(LinesOf(D)) /\ Answers(Rest(s)) = <<>>
<1>1. CASE Ends(s) = {}
  <2>1. Rest(s) = s
    BY <1>1 DEF Rest
  <2>2. QED
    BY <1>1, <2>1, AnswersNone
<1>2. CASE Ends(s) # {}
  <2> DEFINE m == Max(Ends(s))
             r == SubSeq(s, m + 1, Len(s))
  <2>1. Len(s) \in Nat /\ Ends(s) \subseteq 0..Len(s)
    BY DEF Ends
  <2>2. m \in Ends(s) /\ \A k \in Ends(s) : k <= m
    BY <1>2, <2>1, MaxIsGreatest
  <2> HIDE DEF m
  <2>3. m \in 1..Len(s)
    BY <2>2 DEF Ends
  <2>4. r \in Seq(LinesOf(D)) /\ Len(r) = Len(s) - m /\ \A k \in 1..(Len(s) - m) : r[k] = s[m + k]
    BY <2>3
  <2> HIDE DEF r
  <2>5. ASSUME NEW k \in Ends(r) PROVE FALSE
    <3>1. k \in 1..(Len(s) - m) /\ r[k].end
      BY <2>4 DEF Ends
    <3>2. m + k \in 1..Len(s) /\ s[m + k].end /\ m + k > m
      BY <2>1, <2>3, <2>4, <3>1
    <3>3. m + k \in Ends(s)
      BY <3>2 DEF Ends
    <3>4. QED
      BY <2>2, <2>3, <3>2, <3>3
  <2>6. Ends(r) = {}
    BY <2>5
  <2>7. Rest(s) = r
    BY <1>2 DEF Rest, r, m
  <2>8. QED
    BY <2>4, <2>6, <2>7, AnswersNone
<1>3. QED
  BY <1>1, <1>2

\* drive_serial splits what it has read at the line it waits for: nothing is lost.
LEMMA SplitFacts ==
  ASSUME NEW D, NEW s \in Seq(LinesOf(D))
  PROVE  /\ Upto(s) \in Seq(LinesOf(D)) /\ After(s) \in Seq(LinesOf(D))
         /\ Answers(Upto(s)) \o Answers(After(s)) = Answers(s)
<1>1. CASE Targets(s) = {}
  <2>1. Upto(s) = s /\ After(s) = Rest(s)
    BY <1>1 DEF Upto, After
  <2>2. Rest(s) \in Seq(LinesOf(D)) /\ Answers(Rest(s)) = <<>>
    BY RestFacts
  <2>3. Answers(s) \o <<>> = Answers(s)
    BY AnswersType, ConcatEmptySeq
  <2>4. QED
    BY <2>1, <2>2, <2>3
<1>2. CASE Targets(s) # {}
  <2> DEFINE m == Min(Targets(s))
             a == SubSeq(s, 1, m)
             b == SubSeq(s, m + 1, Len(s))
  <2>1. Targets(s) \subseteq 1..Len(s) /\ Len(s) \in Nat
    BY DEF Targets, Ends
  <2>2. m \in Targets(s)
    <3>1. Targets(s) \subseteq Nat
      BY <2>1
    <3>2. QED
      BY <1>2, <3>1, MinIsLeast
  <2> HIDE DEF m
  <2>3. m \in 1..Len(s)
    BY <2>1, <2>2
  <2>4. a \in Seq(LinesOf(D)) /\ b \in Seq(LinesOf(D))
    BY <2>3
  <2>5. a \o b = s
    BY <2>3
  <2>6. Upto(s) = a /\ After(s) = b
    BY <1>2 DEF Upto, After, m
  <2> HIDE DEF a, b
  <2>7. Answers(a \o b) = Answers(a) \o Answers(b)
    BY <2>4, AnswersConcat
  <2>8. QED
    BY <2>4, <2>5, <2>6, <2>7, Zenon
<1>3. QED
  BY <1>1, <1>2

IdsOf(s) == {s[i].id : i \in 1..Len(s)}

\* Having read the line it waits for, it has the answer.
LEMMA TargetAnswered ==
  ASSUME NEW D, NEW s \in Seq(LinesOf(D)), Targets(s) # {}
  PROVE  next \in IdsOf(Answers(Upto(s)))
<1> DEFINE m == Min(Targets(s))
           a == SubSeq(s, 1, m)
<1>1. Targets(s) \subseteq 1..Len(s) /\ Len(s) \in Nat
  BY DEF Targets, Ends
<1>2. m \in Targets(s)
  <2>1. Targets(s) \subseteq Nat
    BY <1>1
  <2>2. QED
    BY <2>1, MinIsLeast
<1> HIDE DEF m
<1>3. m \in 1..Len(s) /\ s[m].end /\ s[m].id = next
  BY <1>1, <1>2 DEF Targets, Ends
<1>4. a \in Seq(LinesOf(D)) /\ Len(a) = m /\ a[m] = s[m]
  BY <1>3
<1>5. Upto(s) = a
  BY DEF Upto, m
<1> HIDE DEF a
<1>6. m \in 1..Len(a) /\ m \in Ends(a)
  BY <1>3, <1>4 DEF Ends
<1>7. PICK j \in 1..Len(Whole(a)) : Whole(a)[j] = a[m]
  BY <1>4, <1>6, KeptHas DEF Whole
<1>8. Whole(a) \in Seq(LinesOf(D)) /\ Answers(a) = Sent(Whole(a))
  BY <1>4, AnswersType
<1> DEFINE w == Whole(a)
           t == Sent(w)
<1>9. j \in 1..Len(t) /\ t[j].id = next
  <2>1. /\ Len(t) = Len(w)
        /\ \A i \in 1..Len(w) : t[i] = [id |-> w[i].id, by |-> "server"]
    BY <1>8, SentType
  <2> HIDE DEF t, w
  <2>2. t[j] = [id |-> w[j].id, by |-> "server"]
    BY <1>7, <2>1 DEF w
  <2>3. w[j].id = next
    BY <1>3, <1>4, <1>7 DEF w
  <2>4. QED
    BY <1>7, <2>1, <2>2, <2>3 DEF w
<1>10. QED
  BY <1>5, <1>8, <1>9 DEF IdsOf

-----------------------------------------------------------------------------
(* The inductive invariant.                                                 *)

Response == [id : 1..Requests, by : {"server", "driver"}]

\* What pharos can know of: drive_serial writes a request once it is done with
\* those before.
Known == {r \in 1..Requests : style = "serial" => r <= next}

Types ==
  /\ style \in Styles /\ next \in 1..Requests /\ session \in BOOLEAN /\ closed \in BOOLEAN
  /\ phase \in {"write", "read", "close", "collect", "done", "raised",
                "port", "unheard", "post", "await", "refused", "reap"}
  /\ responses \in Seq(Response)
  /\ buf \in Seq(LinesOf(Known \ Notes)) /\ stdout \in Seq(LinesOf(Known \ Notes))
  /\ stdin \in Seq(Known) /\ work \subseteq Known \ Notes /\ wrote \in Seq(Asked)
  /\ logs \in 0..LogSize /\ server \in {"booting", "up", "dead"}

\* Each driver has phases of its own.
Phases ==
  IF style = "http" THEN phase \in {"port", "unheard", "post", "await", "refused", "reap", "done"}
  ELSE phase \in {"write", "read", "close", "collect", "done", "raised"}

\* What pharos wrote in full is in the responses, in the buffer or in the pipe.
ByServer(s) == {i \in 1..Len(s) : s[i].by = "server"}
Heard == Kept(responses, ByServer(responses))
Written == [i \in 1..Len(wrote) |-> [id |-> wrote[i], by |-> "server"]]
Arriving == style # "http" => Heard \o Answers(buf \o stdout) = Written
NothingLeft == phase = "done" /\ style # "http" => buf = <<>> /\ stdout = <<>> /\ server = "dead"

\* The drivers that wait have a response for every request before the next one,
\* and drive_serial for every request once it closes.
SettledSoFar ==
  /\ style # "batch" => \A r \in Asked : r < next => r \in Seen
  /\ style = "serial" /\ phase \in {"close", "collect", "done"} => Asked \subseteq Seen

DriveInv == Types /\ Phases /\ Arriving /\ NothingLeft /\ SettledSoFar

\* What is on its way stays within what can be known.
LEMMA KnownGrows ==
  ASSUME Types, style' = style, next' \in 1..Requests, next' >= next
  PROVE  /\ buf \in Seq(LinesOf(Known' \ Notes)) /\ stdout \in Seq(LinesOf(Known' \ Notes))
         /\ stdin \in Seq(Known') /\ work \subseteq Known' \ Notes
         /\ next \in Known' /\ next' \in Known'
         /\ \A s \in Seq(LinesOf(Known \ Notes)) : s \in Seq(LinesOf(Known' \ Notes))
<1>1. Known \subseteq Known' /\ next \in Known' /\ next' \in Known'
  BY DriveAssumption DEF Known, Types
<1>2. LinesOf(Known \ Notes) \subseteq LinesOf(Known' \ Notes)
  BY <1>1 DEF LinesOf
<1>3. \A s \in Seq(LinesOf(Known \ Notes)) : s \in Seq(LinesOf(Known' \ Notes))
  <2> DEFINE A == LinesOf(Known \ Notes)
             B == LinesOf(Known' \ Notes)
  <2> HIDE DEF A, B
  <2>1. A \subseteq B
    BY <1>2 DEF A, B
  <2>2. \A s \in Seq(A) : s \in Seq(B)
    BY <2>1, SeqMonotonic
  <2>3. QED
    BY <2>2 DEF A, B
<1>4. buf \in Seq(LinesOf(Known \ Notes)) /\ stdout \in Seq(LinesOf(Known \ Notes))
      /\ stdin \in Seq(Known) /\ work \subseteq Known \ Notes
  BY DEF Types
<1>5. stdin \in Seq(Known')
  BY <1>1, <1>4, SeqMonotonic
<1>6. QED
  BY <1>1, <1>3, <1>4, <1>5

\* What a read takes from the pipe, and what it leaves.
LEMMA ChunkFacts ==
  ASSUME Types, NEW n \in 1..Len(stdout)
  PROVE  LET D == Known \ Notes
             chunk == buf \o SubSeq(stdout, 1, n)
             left == SubSeq(stdout, n + 1, Len(stdout))
         IN  /\ chunk \in Seq(LinesOf(D)) /\ left \in Seq(LinesOf(D))
             /\ Answers(buf \o stdout) = Answers(chunk) \o Answers(left)
<1> DEFINE D == Known \ Notes
           a == SubSeq(stdout, 1, n)
           left == SubSeq(stdout, n + 1, Len(stdout))
<1>1. buf \in Seq(LinesOf(D)) /\ stdout \in Seq(LinesOf(D))
  BY DEF Types
<1>2. a \in Seq(LinesOf(D)) /\ left \in Seq(LinesOf(D)) /\ a \o left = stdout
  <2> DEFINE F == LinesOf(D)
  <2>1. stdout \in Seq(F)
    BY <1>1
  <2> HIDE DEF F
  <2>2. QED
    BY <2>1, TwoParts DEF F
<1> HIDE DEF a, left, D
<1>4. buf \o a \in Seq(LinesOf(D))
  BY <1>1, <1>2, ConcatProperties
<1>5. buf \o (a \o left) = (buf \o a) \o left
  <2>1. \A x, y, z \in Seq(LinesOf(D)) : x \o (y \o z) = (x \o y) \o z
    BY ConcatAssociative, SMTT(30)
  <2>2. QED
    BY ONLY <1>1, <1>2, <2>1, ZenonT(40)
<1> DEFINE b == buf \o a
<1> HIDE DEF b
<1>6. b \in Seq(LinesOf(D)) /\ buf \o stdout = b \o left
  BY <1>2, <1>4, <1>5, Zenon DEF b
<1>7. Answers(b \o left) = Answers(b) \o Answers(left)
  BY <1>2, <1>6, AnswersConcat
<1>8. Answers(buf \o stdout) = Answers(b) \o Answers(left)
  BY <1>6, <1>7, Zenon
<1>9. QED
  BY <1>2, <1>6, <1>8 DEF a, b, left, D

LEMMA AnswersAreResponses ==
  ASSUME NEW s \in Seq(LinesOf(Known \ Notes))
  PROVE  Answers(s) \in Seq(Response) /\ Answers(s) \in Seq(FromServer(Known \ Notes))
<1>1. FromServer(Known \ Notes) \subseteq Response
  BY DEF FromServer, Response, Known
<1>2. Answers(s) \in Seq(FromServer(Known \ Notes))
  BY AnswersType
<1>3. QED
  BY <1>1, <1>2, SeqMonotonic

LEMMA LineFacts ==
  ASSUME NEW D, NEW r \in D
  PROVE  /\ Line(r) \in Seq(LinesOf(D)) /\ Head(Line(r)) \in LinesOf(D)
         /\ Line(r) = Append(<<[id |-> r, end |-> FALSE]>>, [id |-> r, end |-> TRUE])
         /\ Head(Line(r)) = [id |-> r, end |-> FALSE]
<1> DEFINE p == [id |-> r, end |-> FALSE]
           q == [id |-> r, end |-> TRUE]
<1>1. p \in LinesOf(D) /\ q \in LinesOf(D)
  BY DEF LinesOf
<1>2. Line(r) = <<p, q>>
  BY DEF Line
<1> HIDE DEF p, q
<1>3. <<p, q>> \in Seq(LinesOf(D)) /\ Head(<<p, q>>) = p /\ <<p, q>> = Append(<<p>>, q)
  BY <1>1
<1>4. Line(r) \in Seq(LinesOf(D)) /\ Head(Line(r)) = p /\ Line(r) = Append(<<p>>, q)
  BY <1>2, <1>3, Zenon
<1>5. QED
  BY <1>1, <1>4 DEF p, q

-----------------------------------------------------------------------------
(* Every step keeps the types.                                              *)

LEMMA SameKnown ==
  ASSUME UNCHANGED <<style, next>>
  PROVE  Known' = Known
  BY DEF Known

LEMMA InitTypes == Init => Types
<1> SUFFICES ASSUME Init PROVE Types
  OBVIOUS
<1>1. <<>> \in Seq(Response) /\ <<>> \in Seq(LinesOf(Known \ Notes)) /\ <<>> \in Seq(Known)
      /\ <<>> \in Seq(Asked)
  BY EmptySeq
<1>2. Requests \in Nat \ {0} /\ LogSize \in Nat
  BY DriveAssumption
<1>3. /\ responses \in Seq(Response) /\ stdin \in Seq(Known) /\ wrote \in Seq(Asked)
      /\ buf \in Seq(LinesOf(Known \ Notes)) /\ stdout \in Seq(LinesOf(Known \ Notes))
  BY <1>1, Zenon DEF Init
<1>4. session \in BOOLEAN /\ closed \in BOOLEAN
  BY Zenon DEF Init
<1>5. next \in 1..Requests /\ logs \in 0..LogSize
  BY <1>2 DEF Init
<1>6. /\ style \in Styles /\ work \subseteq Known \ Notes /\ server \in {"booting", "up", "dead"}
      /\ phase \in {"port", "write"}
  BY DEF Init
<1>7. QED
  BY <1>3, <1>4, <1>5, <1>6, Zenon DEF Types

LEMMA WriteTypes ==
  ASSUME Types, Write
  PROVE  Types'
<1> USE DEF driver, pipes, pharos
<1>1. next \in 1..Requests /\ Requests \in Nat
  BY DriveAssumption DEF Types
<1>2. /\ style' = style /\ next' \in 1..Requests /\ next' >= next
      /\ phase' \in {"read", "write", "close"}
      /\ stdin' = Append(stdin, next)
      /\ UNCHANGED <<responses, buf, session, closed, stdout, logs, server, work, wrote>>
  BY <1>1 DEF Write, Types
<1>3. /\ buf \in Seq(LinesOf(Known' \ Notes)) /\ stdout \in Seq(LinesOf(Known' \ Notes))
      /\ stdin \in Seq(Known') /\ work \subseteq Known' \ Notes /\ next \in Known'
  BY <1>2, KnownGrows
<1>4. stdin' \in Seq(Known')
  BY <1>2, <1>3, AppendProperties
<1>5. QED
  BY <1>2, <1>3, <1>4 DEF Types

LEMMA ReadSerialTypes ==
  ASSUME Types, ReadSerial
  PROVE  Types'
<1> USE DEF driver, pipes, pharos
<1>1. PICK n \in 1..Len(stdout) :
        LET chunk == buf \o SubSeq(stdout, 1, n) IN
          /\ responses' = responses \o Answers(Upto(chunk))
          /\ buf' = After(chunk)
          /\ stdout' = SubSeq(stdout, n + 1, Len(stdout))
          /\ IF Targets(chunk) # {} THEN NextRequest(next) ELSE UNCHANGED <<next, phase>>
  BY DEF ReadSerial
<1> DEFINE chunk == buf \o SubSeq(stdout, 1, n)
<1>2. chunk \in Seq(LinesOf(Known \ Notes)) /\ stdout' \in Seq(LinesOf(Known \ Notes))
  BY <1>1, ChunkFacts
<1>3. /\ responses' = responses \o Answers(Upto(chunk)) /\ buf' = After(chunk)
      /\ NextRequest(next) \/ UNCHANGED <<next, phase>>
  BY <1>1
<1> HIDE DEF chunk
<1>4. Upto(chunk) \in Seq(LinesOf(Known \ Notes)) /\ buf' \in Seq(LinesOf(Known \ Notes))
  BY <1>2, <1>3, SplitFacts
<1>5. responses' \in Seq(Response)
  <2>1. responses \in Seq(Response) /\ Answers(Upto(chunk)) \in Seq(Response)
    BY <1>4, AnswersAreResponses DEF Types
  <2>2. QED
    BY <1>3, <2>1, ConcatProperties
<1>6. /\ style' = style /\ next' \in 1..Requests /\ next' >= next
      /\ phase' \in {"close", "write", "read"}
      /\ UNCHANGED <<session, stdin, closed, logs, server, work, wrote>>
  <2>1. next \in 1..Requests /\ Requests \in Nat /\ phase = "read"
    BY DriveAssumption DEF Types, ReadSerial
  <2>2. QED
    BY <1>3, <2>1 DEF ReadSerial, NextRequest
<1>7. /\ buf' \in Seq(LinesOf(Known' \ Notes)) /\ stdout' \in Seq(LinesOf(Known' \ Notes))
      /\ stdin \in Seq(Known') /\ work \subseteq Known' \ Notes
  BY <1>2, <1>4, <1>6, KnownGrows
<1>8. QED
  BY <1>5, <1>6, <1>7 DEF Types

\* A step that adds one response and may go on to the next request.
LEMMA RespondTypes ==
  ASSUME Types, style' = style, next' \in {next, next + 1}, next' \in 1..Requests,
         NEW t \in Seq(Response), responses' = responses \o t,
         phase' \in {"close", "write", "reap", "post"}, session' \in BOOLEAN,
         UNCHANGED <<buf, pipes, pharos>>
  PROVE  Types'
<1> USE DEF pipes, pharos
<1>1. next' >= next
  BY DEF Types
<1>2. /\ buf \in Seq(LinesOf(Known' \ Notes)) /\ stdout \in Seq(LinesOf(Known' \ Notes))
      /\ stdin \in Seq(Known') /\ work \subseteq Known' \ Notes
  BY <1>1, KnownGrows
<1>3. responses' \in Seq(Response)
  BY ConcatProperties DEF Types
<1>4. QED
  BY <1>2, <1>3 DEF Types

LEMMA GiveUpTypes ==
  ASSUME Types, GiveUp
  PROVE  Types'
<1> USE DEF driver, pipes, pharos
<1>1. next \in 1..Requests /\ Requests \in Nat /\ responses \in Seq(Response)
  BY DriveAssumption DEF Types
<1>2. Synthetic(next) \in Response
  BY <1>1 DEF Synthetic, Response
<1>3. <<Synthetic(next)>> \in Seq(Response)
      /\ Append(responses, Synthetic(next)) = responses \o <<Synthetic(next)>>
  <2> HIDE DEF driver, pipes, pharos
  <2> DEFINE x == Synthetic(next)
  <2>1. x \in Response
    BY <1>2
  <2> HIDE DEF x
  <2>2. <<x>> \in Seq(Response) /\ Append(responses, x) = responses \o <<x>>
    BY <1>1, <2>1
  <2>3. QED
    BY <2>2 DEF x
<1>4. /\ responses' = responses \o <<Synthetic(next)>>
      /\ next' \in {next, next + 1} /\ next' \in 1..Requests /\ phase' \in {"close", "write"}
      /\ UNCHANGED <<style, buf, session, pipes, pharos>>
  BY <1>1, <1>3 DEF GiveUp, NextRequest
<1>5. session' \in BOOLEAN
  BY <1>4 DEF Types
<1>6. QED
  BY <1>3, <1>4, <1>5, RespondTypes

\* What a POST adds.
LEMMA NextPostFacts ==
  ASSUME Types, NEW by \in {"server", "driver"}, NextPost([id |-> next, by |-> by])
  PROVE  /\ next' \in {next, next + 1} /\ next' \in 1..Requests /\ phase' \in {"reap", "post"}
         /\ \E t \in Seq(Response) :
              /\ responses' = responses \o t
              /\ t = <<>> \/ t = <<[id |-> next, by |-> by]>>
              /\ next \notin Notes => t = <<[id |-> next, by |-> by]>>
              /\ phase' = "post" => next' = next + 1
<1> DEFINE x == [id |-> next, by |-> by]
           t == IF next \in Notes /\ by = "server" THEN <<>> ELSE <<x>>
<1>1. next \in 1..Requests /\ Requests \in Nat
  BY DriveAssumption DEF Types
<1>2. x \in Response
  BY <1>1 DEF Response
<1>3. responses' = responses \o t /\ next' = (IF next = Requests THEN next ELSE next + 1)
      /\ phase' = (IF next = Requests THEN "reap" ELSE "post")
  BY DEF NextPost
<1>4. next' \in {next, next + 1} /\ next' \in 1..Requests /\ phase' \in {"reap", "post"}
      /\ (phase' = "post" => next' = next + 1)
  BY <1>1, <1>3
<1> HIDE DEF x
<1>5. t \in Seq(Response) /\ (t = <<>> \/ t = <<x>>) /\ (next \notin Notes => t = <<x>>)
  <2>1. <<>> \in Seq(Response) /\ <<x>> \in Seq(Response)
    BY <1>2
  <2>2. QED
    BY <2>1
<1> HIDE DEF t
<1>6. QED
  BY <1>3, <1>4, <1>5 DEF x

LEMMA PostTypes ==
  ASSUME Types, PostAnswered \/ PostFails
  PROVE  Types'
<1>1. PICK by \in {"server", "driver"} : NextPost([id |-> next, by |-> by])
  BY DEF PostAnswered, PostFails, Synthetic
<1>2. PICK t \in Seq(Response) : responses' = responses \o t
  BY <1>1, NextPostFacts
<1>3. next' \in {next, next + 1} /\ next' \in 1..Requests /\ phase' \in {"reap", "post"}
  BY <1>1, NextPostFacts
<1>4. session' \in BOOLEAN /\ style' = style /\ UNCHANGED <<buf, pipes, pharos>>
  BY DEF PostAnswered, PostFails, Types
<1>5. QED
  BY <1>2, <1>3, <1>4, RespondTypes

LEMMA DriverTypes ==
  ASSUME Types, DriverStep
  PROVE  Types'
<1> USE DEF driver, pipes, pharos
<1>1. CASE Write \/ ReadSerial \/ GiveUp \/ PostAnswered \/ PostFails
  BY <1>1, WriteTypes, ReadSerialTypes, GiveUpTypes, PostTypes
<1>2. CASE ReadBatch
  <2>1. PICK n \in 1..Len(stdout) :
          LET chunk == buf \o SubSeq(stdout, 1, n) IN
            /\ responses' = responses \o Answers(chunk)
            /\ buf' = Rest(chunk)
            /\ stdout' = SubSeq(stdout, n + 1, Len(stdout))
    BY <1>2 DEF ReadBatch
  <2> DEFINE chunk == buf \o SubSeq(stdout, 1, n)
  <2>2. chunk \in Seq(LinesOf(Known \ Notes)) /\ stdout' \in Seq(LinesOf(Known \ Notes))
    BY <2>1, ChunkFacts
  <2>3. responses' = responses \o Answers(chunk) /\ buf' = Rest(chunk)
    BY <2>1
  <2> HIDE DEF chunk
  <2>4. buf' \in Seq(LinesOf(Known \ Notes)) /\ Answers(chunk) \in Seq(Response)
    BY <2>2, <2>3, RestFacts, AnswersAreResponses
  <2>5. responses' \in Seq(Response)
    BY <2>3, <2>4, ConcatProperties DEF Types
  <2>6. Known' = Known
    BY <1>2, SameKnown DEF ReadBatch
  <2>7. QED
    BY <1>2, <2>2, <2>4, <2>5, <2>6 DEF Types, ReadBatch
<1>3. CASE Collect
  <2>1. buf \o stdout \in Seq(LinesOf(Known \ Notes)) /\ responses \in Seq(Response)
    BY ConcatProperties DEF Types
  <2> DEFINE all == buf \o stdout
  <2>2. responses' = responses \o Answers(all)
    BY <1>3 DEF Collect
  <2> HIDE DEF all
  <2>3. responses' \in Seq(Response)
    BY <2>1, <2>2, AnswersAreResponses, ConcatProperties DEF all
  <2>4. <<>> \in Seq(LinesOf(Known \ Notes)) /\ Known' = Known /\ LogSize \in Nat
    BY <1>3, SameKnown, EmptySeq, DriveAssumption DEF Collect
  <2>5. QED
    BY <1>3, <2>3, <2>4 DEF Types, Collect
<1>4. CASE WriteFails \/ StopReading \/ ReadLogs \/ Close \/ Kill \/ PortAppears \/ PortNever
           \/ Unheard \/ Post \/ Reap
  <2>1. Known' = Known
    BY <1>4, SameKnown
    DEF WriteFails, StopReading, ReadLogs, Close, Kill, PortAppears, PortNever, Unheard, Post, Reap
  <2>2. LogSize \in Nat /\ UNCHANGED <<style, next, responses, buf, session, stdin, stdout, wrote>>
    BY <1>4, DriveAssumption
    DEF WriteFails, StopReading, ReadLogs, Close, Kill, PortAppears, PortNever, Unheard, Post, Reap
  <2>4. next \in Known
    BY DriveAssumption DEF Types, Known
  <2>5. closed' \in BOOLEAN /\ logs' \in 0..LogSize /\ server' \in {"booting", "up", "dead"}
        /\ work' \subseteq Known \ Notes
    <3>1. closed' \in {closed, TRUE} /\ logs' \in {logs, 0} /\ server' \in {server, "dead"}
          /\ work' \in {work, {}, work \cup ({next} \ Notes)}
      BY <1>4
      DEF WriteFails, StopReading, ReadLogs, Close, Kill, PortAppears, PortNever, Unheard, Post, Reap
    <3>2. closed \in BOOLEAN /\ logs \in 0..LogSize /\ server \in {"booting", "up", "dead"}
          /\ work \subseteq Known \ Notes /\ 0 \in 0..LogSize
      BY <2>2 DEF Types
    <3>3. work' \subseteq Known \ Notes
      BY <2>4, <3>1, <3>2
    <3>4. QED
      BY <3>1, <3>2, <3>3
  <2>6. phase' \in {"write", "read", "close", "collect", "done", "raised",
                    "port", "unheard", "post", "await", "refused", "reap"}
    BY <1>4
    DEF Types, WriteFails, StopReading, ReadLogs, Close, Kill, PortAppears, PortNever, Unheard, Post, Reap
  <2>7. QED
    BY <2>1, <2>2, <2>5, <2>6 DEF Types
<1>5. QED
  BY <1>1, <1>2, <1>3, <1>4 DEF DriverStep, DriverMoves, ReadsToEnd

LEMMA PharosTypes ==
  ASSUME Types, PharosStep
  PROVE  Types' /\ UNCHANGED <<style, phase, next, responses, buf, session, closed>>
<1> USE DEF driver, pipes, pharos
<1>1. UNCHANGED <<style, phase, next, responses, buf, session, closed>> /\ Known' = Known
  <2>1. UNCHANGED <<style, phase, next, responses, buf, session, closed>>
    BY DEF PharosStep, Boot, Take, Die, Exit, Answer, DieTorn
  <2>2. QED
    BY <2>1, SameKnown
<1>2. CASE Boot \/ Die \/ Exit
  BY <1>1, <1>2 DEF Types, Boot, Die, Exit
<1>3. CASE Take
  <2>1. stdin \in Seq(Known) /\ stdin # <<>> /\ stdin' = Tail(stdin)
    BY <1>3 DEF Take, Types
  <2>2. Head(stdin) \in Known /\ Tail(stdin) \in Seq(Known)
    BY <2>1, HeadTailProperties
  <2>3. QED
    BY <1>1, <1>3, <2>1, <2>2 DEF Types, Take
<1>4. ASSUME NEW r \in Asked, Answer(r) PROVE Types'
  <2>1. r \in Known \ Notes /\ stdout \in Seq(LinesOf(Known \ Notes)) /\ wrote \in Seq(Asked)
    BY <1>4 DEF Answer, Types
  <2>2. Line(r) \in Seq(LinesOf(Known \ Notes))
    BY <2>1, LineFacts
  <2>3. stdout \o Line(r) \in Seq(LinesOf(Known \ Notes))
    BY <2>1, <2>2, ConcatProperties
  <2>4. Append(wrote, r) \in Seq(Asked)
    BY <1>4, <2>1, AppendProperties
  <2>5. logs' \in 0..LogSize
    BY <1>4, DriveAssumption DEF Answer, Types
  <2>6. stdout' \in {stdout, stdout \o Line(r)} /\ wrote' \in {wrote, Append(wrote, r)}
        /\ UNCHANGED <<stdin, server>> /\ work' \subseteq work
    BY <1>4 DEF Answer
  <2>7. QED
    BY <1>1, <2>1, <2>3, <2>4, <2>5, <2>6 DEF Types
<1>5. ASSUME NEW r \in Asked, DieTorn(r) PROVE Types'
  <2>1. r \in Known \ Notes /\ stdout \in Seq(LinesOf(Known \ Notes))
    BY <1>5 DEF DieTorn, Types
  <2>2. Head(Line(r)) \in LinesOf(Known \ Notes)
    BY <2>1, LineFacts
  <2>3. Append(stdout, Head(Line(r))) \in Seq(LinesOf(Known \ Notes))
    BY <2>1, <2>2, AppendProperties
  <2>4. QED
    BY <1>1, <1>5, <2>3 DEF Types, DieTorn
<1>6. QED
  BY <1>1, <1>2, <1>3, <1>4, <1>5 DEF PharosStep

LEMMA TypesStep ==
  ASSUME Types, [Next]_vars
  PROVE  Types'
<1>1. CASE UNCHANGED vars
  <2>1. Known' = Known
    BY <1>1, SameKnown DEF vars
  <2>2. QED
    BY <1>1, <2>1 DEF Types, vars
<1>2. QED
  BY <1>1, DriverTypes, PharosTypes DEF Next

\* The types of the model, as the runs check them.
LEMMA TypesGiveTypeOK == Types => TypeOK
<1> SUFFICES ASSUME Types PROVE TypeOK
  OBVIOUS
<1>1. \A i \in 1..Len(responses) : responses[i] \in Response
  BY DEF Types
<1>2. /\ \A i \in 1..Len(buf) : buf[i] \in LinesOf(Known \ Notes)
      /\ \A i \in 1..Len(stdout) : stdout[i] \in LinesOf(Known \ Notes)
  <2>1. buf \in Seq(LinesOf(Known \ Notes)) /\ stdout \in Seq(LinesOf(Known \ Notes))
    BY DEF Types
  <2>2. QED
    BY <2>1, ElementOfSeq
<1>3. \A i \in 1..Len(stdin) : stdin[i] \in Known
  BY DEF Types
<1>4. LinesOf(Known \ Notes) \subseteq [id : Asked, end : BOOLEAN]
      /\ Known \subseteq 1..Requests
  BY DEF LinesOf, Known, Asked
<1>5. QED
  BY <1>1, <1>2, <1>3, <1>4 DEF Types, TypeOK, Response

-----------------------------------------------------------------------------
(* Phases of each driver, and what is left at the end.                      *)

LEMMA PhasesStep ==
  ASSUME Types, Phases, [Next]_vars
  PROVE  Phases'
<1> USE DEF driver, pipes, pharos
<1>1. CASE UNCHANGED vars
  BY <1>1 DEF vars, Phases
<1>2. CASE PharosStep
  BY <1>2, PharosTypes DEF Phases
<1>3. CASE Write \/ WriteFails \/ ReadBatch \/ StopReading \/ ReadLogs \/ Close \/ Kill \/ Collect
  BY <1>3 DEF Phases, Write, WriteFails, ReadBatch, StopReading, ReadLogs, Close, Kill, Collect
<1>4. CASE ReadSerial \/ GiveUp
  BY <1>4 DEF Phases, ReadSerial, GiveUp, NextRequest
<1>5. CASE PortAppears \/ PortNever \/ Unheard \/ Post \/ PostAnswered \/ PostFails \/ Reap
  BY <1>5 DEF Phases, PortAppears, PortNever, Unheard, Post, PostAnswered, PostFails, NextPost, Reap
<1>6. QED
  BY <1>1, <1>2, <1>3, <1>4, <1>5 DEF Next, DriverStep, DriverMoves, ReadsToEnd

LEMMA NothingLeftStep ==
  ASSUME Types, Phases, NothingLeft, [Next]_vars
  PROVE  NothingLeft'
<1> USE DEF driver, pipes, pharos
<1>1. CASE UNCHANGED vars
  BY <1>1 DEF vars, NothingLeft
<1>2. CASE PharosStep
  BY <1>2, PharosTypes DEF NothingLeft, PharosStep, Boot, Take, Die, Exit, Answer, DieTorn
<1>3. CASE Write \/ WriteFails \/ ReadBatch \/ StopReading \/ ReadLogs \/ Close \/ Kill \/ Collect
  BY <1>3 DEF NothingLeft, Write, WriteFails, ReadBatch, StopReading, ReadLogs, Close, Kill, Collect
<1>4. CASE ReadSerial \/ GiveUp
  BY <1>4 DEF NothingLeft, ReadSerial, GiveUp, NextRequest
<1>5. CASE PortAppears \/ PortNever \/ Unheard \/ Post \/ PostAnswered \/ PostFails \/ Reap
  BY <1>5 DEF Phases, NothingLeft, PortAppears, PortNever, Unheard, Post, PostAnswered, PostFails,
              NextPost, Reap
<1>6. QED
  BY <1>1, <1>2, <1>3, <1>4, <1>5 DEF Next, DriverStep, DriverMoves, ReadsToEnd

-----------------------------------------------------------------------------
(* Every line arrives.                                                      *)

LEMMA HeardConcat ==
  ASSUME NEW r \in Seq(Response), NEW t \in Seq(Response)
  PROVE  Kept(r \o t, ByServer(r \o t)) = Kept(r, ByServer(r)) \o Kept(t, ByServer(t))
<1> DEFINE rt == r \o t
<1>1. /\ Len(rt) = Len(r) + Len(t) /\ Len(r) \in Nat /\ Len(t) \in Nat
      /\ \A i \in 1..Len(r) : rt[i] = r[i]
      /\ \A j \in 1..Len(t) : rt[Len(r) + j] = t[j]
  BY Concatenated
<1> HIDE DEF rt
<1>2. Alike(Len(r), ByServer(r), ByServer(rt)) /\ Shifted(Len(r), Len(t), ByServer(t), ByServer(rt))
  BY <1>1 DEF Alike, Shifted, ByServer
<1>3. Kept(r \o t, ByServer(rt)) = Kept(r, ByServer(r)) \o Kept(t, ByServer(t))
  BY <1>2, KeptConcat
<1>4. QED
  BY <1>3 DEF rt

\* What pharos answered is heard, what the driver makes up is not.
LEMMA HeardAnswers ==
  ASSUME NEW D, NEW t \in Seq(FromServer(D))
  PROVE  Kept(t, ByServer(t)) = t
<1>1. \A i \in 1..Len(t) : t[i] \in FromServer(D)
  BY ElementOfSeq
<1>2. \A i \in 1..Len(t) : i \in ByServer(t)
  BY <1>1 DEF ByServer, FromServer
<1>3. QED
  BY <1>2, KeptAll

LEMMA HeardSynthetic ==
  ASSUME NEW r \in 1..Requests
  PROVE  Kept(<<Synthetic(r)>>, ByServer(<<Synthetic(r)>>)) = <<>>
<1> DEFINE x == Synthetic(r)
           t == <<x>>
<1>1. x.by # "server" /\ x \in Response
  BY DEF Synthetic, Response
<1> HIDE DEF x
<1>2. t \in Seq(Response) /\ \A i \in 1..Len(t) : t[i] = x
  BY <1>1
<1> HIDE DEF t
<1>3. \A i \in 1..Len(t) : i \notin ByServer(t)
  BY <1>1, <1>2 DEF ByServer
<1>4. Kept(t, ByServer(t)) = <<>>
  BY <1>2, <1>3, KeptNone
<1>5. QED
  BY <1>4 DEF x, t

LEMMA HeardType ==
  ASSUME Types
  PROVE  Heard \in Seq(Response)
  BY KeptType DEF Heard, Types

Joined(s, t) == s \o t

LEMMA Regroup ==
  ASSUME NEW S, NEW h \in Seq(S), NEW a \in Seq(S), NEW b \in Seq(S), NEW c \in Seq(S)
  PROVE  Joined(Joined(h, a), Joined(b, c)) = Joined(h, Joined(Joined(a, b), c))
<1>1. (a \o b) \o c = a \o (b \o c)
  BY ConcatAssociative
<1> DEFINE x == b \o c
<1>2. x \in Seq(S)
  BY ConcatProperties
<1> HIDE DEF x
<1>3. (h \o a) \o x = h \o (a \o x)
  BY <1>2, ConcatAssociative, SMTT(30)
<1>4. QED
  BY <1>1, <1>3, Zenon DEF x, Joined

\* A read turns lines p into answers and keeps q of what it read.
LEMMA ReadKeeps ==
  ASSUME Types, Arriving, style # "http", UNCHANGED <<style, wrote>>,
         NEW n \in 1..Len(stdout), stdout' = SubSeq(stdout, n + 1, Len(stdout)),
         NEW p \in Seq(LinesOf(Known \ Notes)), NEW q \in Seq(LinesOf(Known \ Notes)),
         Answers(p) \o Answers(q) = Answers(buf \o SubSeq(stdout, 1, n)),
         responses' = responses \o Answers(p), buf' = q
  PROVE  Arriving'
<1> DEFINE D == Known \ Notes
           left == SubSeq(stdout, n + 1, Len(stdout))
           h == Heard
           a == Answers(p)
           b == Answers(q)
           c == Answers(left)
<1>1. left \in Seq(LinesOf(D)) /\ Answers(buf \o stdout) = (a \o b) \o c
  BY ChunkFacts
<1>2. a \in Seq(Response) /\ b \in Seq(Response) /\ a \in Seq(FromServer(D))
  BY AnswersAreResponses
<1>3. c \in Seq(Response) /\ h \in Seq(Response) /\ responses \in Seq(Response)
  BY <1>1, AnswersAreResponses, HeardType DEF Types
<1>4. h \o ((a \o b) \o c) = Written
  BY <1>1 DEF Arriving
<1>5. Heard' = h \o a
  <2>1. Kept(responses \o a, ByServer(responses \o a)) = Heard \o Kept(a, ByServer(a))
    BY <1>2, <1>3, HeardConcat DEF Heard
  <2>2. Kept(a, ByServer(a)) = a
    BY <1>2, HeardAnswers
  <2>3. QED
    BY <2>1, <2>2 DEF Heard
<1>6. Answers(buf' \o stdout') = b \o c
  <2>1. Answers(q \o left) = b \o c
    BY <1>1, AnswersConcat
  <2>2. buf' \o stdout' = q \o left
    OBVIOUS
  <2>3. QED
    BY <2>1, <2>2, Zenon
<1> HIDE DEF h, a, b, c, left
<1>7. (h \o a) \o (b \o c) = h \o ((a \o b) \o c)
  <2>1. Joined(Joined(h, a), Joined(b, c)) = Joined(h, Joined(Joined(a, b), c))
    BY <1>2, <1>3, Regroup
  <2>2. QED
    BY <2>1, Zenon DEF Joined
<1>8. Heard' \o Answers(buf' \o stdout') = Written
  BY ONLY <1>4, <1>5, <1>6, <1>7, Zenon
<1>9. Written' = Written
  BY DEF Written
<1>10. QED
  BY <1>8, <1>9 DEF Arriving

LEMMA ArrivingBatch ==
  ASSUME Types, Phases, Arriving, ReadBatch
  PROVE  Arriving'
<1> USE DEF driver, pipes, pharos
<1>1. PICK n \in 1..Len(stdout) :
        LET chunk == buf \o SubSeq(stdout, 1, n) IN
          /\ responses' = responses \o Answers(chunk)
          /\ buf' = Rest(chunk)
          /\ stdout' = SubSeq(stdout, n + 1, Len(stdout))
  BY DEF ReadBatch
<1> DEFINE chunk == buf \o SubSeq(stdout, 1, n)
           rest == Rest(chunk)
<1>2. chunk \in Seq(LinesOf(Known \ Notes))
  BY ChunkFacts
<1>3. /\ responses' = responses \o Answers(chunk) /\ buf' = rest
      /\ stdout' = SubSeq(stdout, n + 1, Len(stdout))
      /\ style # "http" /\ UNCHANGED <<style, wrote>>
  BY <1>1 DEF ReadBatch
<1>4. rest \in Seq(LinesOf(Known \ Notes)) /\ Answers(chunk) \o Answers(rest) = Answers(chunk)
  <2> HIDE DEF chunk
  <2>1. rest \in Seq(LinesOf(Known \ Notes)) /\ Answers(rest) = <<>>
    BY <1>2, RestFacts
  <2>2. Answers(chunk) \o <<>> = Answers(chunk)
    BY <1>2, AnswersType, ConcatEmptySeq
  <2>3. QED
    BY <2>1, <2>2
<1> HIDE DEF rest
<1>5. Answers(chunk) \o Answers(rest) = Answers(buf \o SubSeq(stdout, 1, n))
  BY <1>4
<1> HIDE DEF chunk
<1>6. QED
  BY <1>2, <1>3, <1>4, <1>5, ReadKeeps

LEMMA ArrivingSerial ==
  ASSUME Types, Phases, Arriving, ReadSerial
  PROVE  Arriving'
<1> USE DEF driver, pipes, pharos
<1>1. PICK n \in 1..Len(stdout) :
        LET chunk == buf \o SubSeq(stdout, 1, n) IN
          /\ responses' = responses \o Answers(Upto(chunk))
          /\ buf' = After(chunk)
          /\ stdout' = SubSeq(stdout, n + 1, Len(stdout))
          /\ IF Targets(chunk) # {} THEN NextRequest(next) ELSE UNCHANGED <<next, phase>>
  BY DEF ReadSerial
<1> DEFINE chunk == buf \o SubSeq(stdout, 1, n)
           p == Upto(chunk)
           q == After(chunk)
<1>2. chunk \in Seq(LinesOf(Known \ Notes))
  BY ChunkFacts
<1>3. /\ responses' = responses \o Answers(p) /\ buf' = q
      /\ stdout' = SubSeq(stdout, n + 1, Len(stdout))
      /\ style # "http" /\ UNCHANGED <<style, wrote>>
  BY <1>1 DEF ReadSerial
<1>4. /\ p \in Seq(LinesOf(Known \ Notes)) /\ q \in Seq(LinesOf(Known \ Notes))
      /\ Answers(p) \o Answers(q) = Answers(chunk)
  <2> HIDE DEF chunk
  <2>1. QED
    BY <1>2, SplitFacts
<1> HIDE DEF p, q
<1>5. Answers(p) \o Answers(q) = Answers(buf \o SubSeq(stdout, 1, n))
  BY <1>4
<1> HIDE DEF chunk
<1>6. QED
  BY <1>3, <1>4, <1>5, ReadKeeps

\* The end: all that is left becomes responses.
LEMMA ArrivingCollect ==
  ASSUME Types, Arriving, Collect
  PROVE  Arriving'
<1> USE DEF driver, pipes, pharos
<1> DEFINE a == Answers(buf \o stdout)
<1>1. /\ responses' = responses \o a /\ buf' = <<>> /\ stdout' = <<>>
      /\ UNCHANGED <<style, wrote>>
  BY DEF Collect
<1>2. a \in Seq(Response) /\ a \in Seq(FromServer(Known \ Notes)) /\ responses \in Seq(Response)
  <2> DEFINE all == buf \o stdout
  <2>1. all \in Seq(LinesOf(Known \ Notes)) /\ responses \in Seq(Response)
    BY ConcatProperties DEF Types
  <2> HIDE DEF all
  <2>2. Answers(all) \in Seq(Response) /\ Answers(all) \in Seq(FromServer(Known \ Notes))
    BY <2>1, AnswersAreResponses
  <2>3. QED
    BY <2>1, <2>2 DEF all
<1>3. style # "http" => Heard \o a = Written
  BY DEF Arriving
<1> HIDE DEF a
<1>4. Heard' = Heard \o a
  <2>1. Kept(responses \o a, ByServer(responses \o a)) = Heard \o Kept(a, ByServer(a))
    BY <1>2, HeardConcat DEF Heard
  <2>2. Kept(a, ByServer(a)) = a
    BY <1>2, HeardAnswers
  <2>3. QED
    BY <1>1, <2>1, <2>2 DEF Heard
<1>5. Answers(buf' \o stdout') = <<>>
  <2>1. <<>> \in Seq(LinesOf(Known \ Notes)) /\ Ends(<<>>) = {} /\ <<>> \o <<>> = <<>>
    BY EmptySeq DEF Ends
  <2>2. Answers(<<>>) = <<>>
    BY <2>1, AnswersNone
  <2>3. buf' \o stdout' = <<>>
    BY <1>1, <2>1
  <2>4. QED
    BY <2>2, <2>3, Zenon
<1>6. (Heard \o a) \o <<>> = Heard \o a
  BY <1>2, HeardType, ConcatProperties, ConcatEmptySeq
<1>7. Heard' \o Answers(buf' \o stdout') = Heard \o a
  BY <1>4, <1>5, <1>6, Zenon
<1>8. Written' = Written
  BY <1>1 DEF Written
<1>9. QED
  BY <1>1, <1>3, <1>7, <1>8 DEF Arriving

\* drive_serial answers in pharos's place: nothing is heard.
LEMMA ArrivingGiveUp ==
  ASSUME Types, Arriving, GiveUp
  PROVE  Arriving'
<1> USE DEF driver, pipes, pharos
<1> DEFINE x == Synthetic(next)
<1>1. responses' = Append(responses, x) /\ UNCHANGED <<style, wrote, buf, stdout>>
  BY DEF GiveUp
<1>2. next \in 1..Requests /\ x \in Response /\ responses \in Seq(Response)
  BY DEF Types, Synthetic, Response
<1>3. Kept(<<x>>, ByServer(<<x>>)) = <<>>
  BY <1>2, HeardSynthetic
<1> HIDE DEF x
<1>4. <<x>> \in Seq(Response) /\ Append(responses, x) = responses \o <<x>>
  BY <1>2
<1>5. Heard' = Heard
  <2> DEFINE t == <<x>>
  <2>1. t \in Seq(Response) /\ responses' = responses \o t /\ Kept(t, ByServer(t)) = <<>>
    BY <1>1, <1>3, <1>4
  <2> HIDE DEF t
  <2>2. Kept(responses \o t, ByServer(responses \o t)) = Heard \o Kept(t, ByServer(t))
    BY <1>2, <2>1, HeardConcat DEF Heard
  <2>3. Heard \o <<>> = Heard
    BY HeardType, ConcatEmptySeq
  <2>4. QED
    BY <2>1, <2>2, <2>3 DEF Heard
<1>6. Answers(buf' \o stdout') = Answers(buf \o stdout) /\ Written' = Written
  BY <1>1 DEF Written
<1>7. QED
  BY <1>1, <1>5, <1>6 DEF Arriving

\* A step that leaves what pharos wrote and what the driver has.
LEMMA ArrivingSame ==
  ASSUME Arriving, UNCHANGED <<style, wrote, responses, buf, stdout>>
  PROVE  Arriving'
<1>1. Heard' = Heard /\ Written' = Written
  BY DEF Heard, Written
<1>2. Answers(buf' \o stdout') = Answers(buf \o stdout)
  OBVIOUS
<1>3. QED
  BY <1>1, <1>2 DEF Arriving

\* Pharos writes: a whole line is one more answer, a torn one is none.
LEMMA LineAnswers ==
  ASSUME NEW D, NEW r \in D
  PROVE  Answers(Line(r)) = <<[id |-> r, by |-> "server"]>>
<1> DEFINE p == [id |-> r, end |-> FALSE]
           q == [id |-> r, end |-> TRUE]
           l == Line(r)
           t == <<p>>
           G == LinesOf(D)
<1>1. p \in LinesOf(D) /\ q \in LinesOf(D) /\ ~p.end /\ q.end /\ q.id = r
  BY DEF LinesOf
<1>2. l \in Seq(LinesOf(D)) /\ l = Append(t, q)
  BY LineFacts
<1>12. p \in G /\ q \in G /\ l \in Seq(G)
  BY <1>1, <1>2
<1> HIDE DEF p, q, l, G
<1>3. t \in Seq(G) /\ Len(t) = 1 /\ t[1] = p
  BY <1>12
<1> HIDE DEF t
<1>4. Len(l) = 2 /\ l[1] = p /\ l[2] = q
  <2>1. OneMore(t, q, l)
    BY <1>2, <1>3, <1>12, AppendedOne
  <2>2. QED
    BY <1>3, <2>1 DEF OneMore
<1>5. 1 \notin Ends(l) /\ 2 \in Ends(l)
  BY <1>1, <1>4 DEF Ends
<1>6. Kept(t, Ends(l)) = <<>>
  <2>1. \A i \in 1..Len(t) : i \notin Ends(l)
    BY <1>3, <1>5
  <2>2. QED
    BY <1>3, <2>1, KeptNone
<1>7. Whole(l) = Append(<<>>, q)
  <2> DEFINE E == Ends(l)
  <2>1. t \in Seq(G) /\ q \in G /\ Len(t) + 1 \in E /\ Alike(Len(t), E, E)
    BY <1>3, <1>5, <1>12 DEF Alike
  <2> HIDE DEF E
  <2>2. Kept(Append(t, q), E) = Append(Kept(t, E), q)
    BY ONLY <2>1, KeptAppend
  <2>3. QED
    BY <1>2, <1>6, <2>2 DEF Whole, E
<1>8. Answers(l) = Sent(Append(<<>>, q))
  BY <1>2, <1>7, AnswersType
<1>9. Len(Append(<<>>, q)) = 1 /\ Append(<<>>, q)[1] = q
  OBVIOUS
<1>10. Sent(Append(<<>>, q)) = <<[id |-> r, by |-> "server"]>>
  BY <1>1, <1>9 DEF Sent
<1>11. QED
  BY <1>8, <1>10 DEF l

LEMMA PipeGrows ==
  ASSUME Types, NEW t \in Seq(LinesOf(Known \ Notes))
  PROVE  Answers(buf \o (stdout \o t)) = Answers(buf \o stdout) \o Answers(t)
<1> DEFINE D == Known \ Notes
           F == LinesOf(D)
           b == buf \o stdout
<1>1. buf \in Seq(F) /\ stdout \in Seq(F) /\ t \in Seq(F)
  BY DEF Types
<1> HIDE DEF F, D
<1>2. buf \o (stdout \o t) = b \o t
  BY <1>1, ConcatAssociative
<1>3. b \in Seq(F)
  BY <1>1, ConcatProperties
<1> HIDE DEF b
<1>4. Answers(b \o t) = Answers(b) \o Answers(t)
  BY <1>1, <1>3, AnswersConcat DEF F
<1>5. Answers(buf \o (stdout \o t)) = Answers(b) \o Answers(t)
  BY <1>2, <1>4, Zenon
<1>6. QED
  BY <1>5, Zenon DEF b

LEMMA WrittenGrows ==
  ASSUME Types, NEW r \in Asked, wrote' = Append(wrote, r)
  PROVE  Written' = Written \o <<[id |-> r, by |-> "server"]>>
<1> DEFINE x == [id |-> r, by |-> "server"]
           F == FromServer(Asked)
           n == Len(wrote)
           w == Append(wrote, r)
<1>1. wrote \in Seq(Asked) /\ n \in Nat
  BY DEF Types
<1>2. Len(w) = n + 1 /\ w[n + 1] = r /\ \A i \in 1..n : w[i] = wrote[i] /\ wrote[i] \in Asked
  BY <1>1
<1>3. x \in F /\ \A i \in 1..n : [id |-> wrote[i], by |-> "server"] \in F
  BY <1>2 DEF FromServer
<1>4. Written = [i \in 1..n |-> [id |-> wrote[i], by |-> "server"]]
  BY DEF Written
<1>5. Written' = [i \in 1..Len(w) |-> [id |-> w[i], by |-> "server"]]
  BY DEF Written
<1> HIDE DEF x, F, n, w
<1>6. Written \in Seq(F) /\ Len(Written) = n
  BY <1>1, <1>3, <1>4
<1>7. Written \o <<x>> \in Seq(F) /\ Len(Written \o <<x>>) = n + 1
      /\ (Written \o <<x>>)[n + 1] = x
      /\ \A i \in 1..n : (Written \o <<x>>)[i] = Written[i]
  <2> DEFINE s == Written
  <2>1. s \in Seq(F) /\ Len(s) = n /\ x \in F
    BY <1>3, <1>6
  <2> HIDE DEF s
  <2>2. s \o <<x>> \in Seq(F) /\ OneMore(s, x, s \o <<x>>)
    BY <2>1, AppendedOne
  <2>3. QED
    BY <2>1, <2>2 DEF s, OneMore
<1>8. Len(Written') = n + 1 /\ Written' \in Seq(F)
  <2>1. \A i \in 1..(n + 1) : [id |-> w[i], by |-> "server"] \in F
    <3>1. TAKE i \in 1..(n + 1)
    <3>2. CASE i = n + 1
      BY <1>2, <1>3, <3>2 DEF x
    <3>3. CASE i # n + 1
      <4>1. i \in 1..n
        BY <1>1, <3>3
      <4>2. QED
        BY <1>2, <1>3, <4>1
    <3>4. QED
      BY <3>2, <3>3
  <2>2. n + 1 \in Nat
    BY <1>1
  <2>3. QED
    BY <1>2, <1>5, <2>1, <2>2
<1>9. ASSUME NEW i \in 1..(n + 1) PROVE Written'[i] = (Written \o <<x>>)[i]
  <2>1. Written'[i] = [id |-> w[i], by |-> "server"]
    BY <1>2, <1>5
  <2>2. CASE i = n + 1
    BY <1>2, <1>7, <2>1, <2>2 DEF x
  <2>3. CASE i # n + 1
    <3>1. i \in 1..n
      BY <1>1, <2>3
    <3>2. QED
      BY <1>2, <1>4, <1>7, <2>1, <3>1
  <2>4. QED
    BY <2>2, <2>3
<1>10. QED
  BY <1>7, <1>8, <1>9, SeqEqual DEF x

LEMMA ArrivingAnswer ==
  ASSUME Types, Arriving, NEW r \in Asked, Answer(r)
  PROVE  Arriving'
<1>1. CASE style = "http"
  BY <1>1 DEF Arriving, Answer, driver
<1>2. CASE style # "http"
  <2> DEFINE x == [id |-> r, by |-> "server"]
             a == Answers(buf \o stdout)
             h == Heard
  <2>1. /\ r \in Known \ Notes /\ UNCHANGED <<style, responses, buf>>
        /\ stdout' = stdout \o Line(r) /\ wrote' = Append(wrote, r)
    BY <1>2 DEF Answer, driver, Types
  <2>2. Line(r) \in Seq(LinesOf(Known \ Notes)) /\ Answers(Line(r)) = <<x>>
    BY <2>1, LineFacts, LineAnswers
  <2>3. Answers(buf \o (stdout \o Line(r))) = a \o Answers(Line(r))
    BY <2>2, PipeGrows
  <2>4. Answers(buf' \o stdout') = a \o <<x>>
    <3> HIDE DEF a, x
    <3>1. buf' \o stdout' = buf \o (stdout \o Line(r))
      BY <2>1
    <3>2. QED
      BY <2>2, <2>3, <3>1, Zenon
  <2>5. Written' = Written \o <<x>> /\ h \o a = Written /\ Heard' = h
    BY <1>2, <2>1, WrittenGrows DEF Arriving, Heard
  <2>6. h \in Seq(Response) /\ a \in Seq(Response) /\ x \in Response
    <3> DEFINE b == buf \o stdout
    <3>1. b \in Seq(LinesOf(Known \ Notes))
      BY ConcatProperties DEF Types
    <3> HIDE DEF b
    <3>2. Answers(b) \in Seq(Response)
      BY <3>1, AnswersAreResponses
    <3>3. QED
      BY <3>2, HeardType DEF b, Response, Asked
  <2> HIDE DEF h, a, x
  <2>7. <<x>> \in Seq(Response)
    BY <2>6
  <2>8. h \o (a \o <<x>>) = (h \o a) \o <<x>>
    <3> DEFINE t == <<x>>
    <3>1. t \in Seq(Response)
      BY <2>7
    <3> HIDE DEF t
    <3> DEFINE R == Response
    <3>4. h \in Seq(R) /\ a \in Seq(R) /\ t \in Seq(R)
      BY <2>6, <3>1
    <3> HIDE DEF R
    <3>2. (h \o a) \o t = h \o (a \o t)
      BY ONLY <3>4, ConcatAssociative
    <3>3. QED
      BY <3>2, Zenon DEF t
  <2>9. Heard' \o Answers(buf' \o stdout') = Written'
    BY ONLY <2>4, <2>5, <2>8, Zenon
  <2>10. QED
    BY <2>9 DEF Arriving
<1>3. QED
  BY <1>1, <1>2

LEMMA ArrivingTorn ==
  ASSUME Types, Arriving, NEW r \in Asked, DieTorn(r)
  PROVE  Arriving'
<1> DEFINE p == Head(Line(r))
           t == <<p>>
           a == Answers(buf \o stdout)
<1>1. /\ r \in Known \ Notes /\ UNCHANGED <<style, responses, buf, wrote>>
      /\ stdout' = Append(stdout, p) /\ style # "http"
  <2>1. stdout' = Append(stdout, p)
    BY Zenon DEF DieTorn
  <2> HIDE DEF p
  <2>2. work \subseteq Known \ Notes
    BY DEF Types
  <2>3. QED
    BY <2>1, <2>2 DEF DieTorn, driver
<1>2. p \in LinesOf(Known \ Notes) /\ ~p.end
  <2>1. r \in Known \ Notes
    BY <1>1
  <2>2. p \in LinesOf(Known \ Notes) /\ p = [id |-> r, end |-> FALSE]
    BY ONLY <2>1, LineFacts
  <2> HIDE DEF p
  <2>3. QED
    BY <2>2
<1> HIDE DEF p
<1>3. t \in Seq(LinesOf(Known \ Notes)) /\ Append(stdout, p) = stdout \o t
  <2> DEFINE F == LinesOf(Known \ Notes)
  <2>1. stdout \in Seq(F) /\ p \in F
    BY <1>2 DEF Types
  <2> HIDE DEF F
  <2>2. <<p>> \in Seq(F)
    BY <2>1
  <2>3. Append(stdout, p) = stdout \o <<p>>
    BY <2>1, AppendedOne
  <2>4. QED
    BY <2>2, <2>3 DEF F
<1>4. Answers(t) = <<>>
  <2>1. Ends(t) = {}
    BY <1>2 DEF Ends
  <2> HIDE DEF t
  <2>2. QED
    BY <1>3, <2>1, AnswersNone
<1> HIDE DEF t
<1>5. Answers(buf \o (stdout \o t)) = a \o Answers(t)
  BY <1>3, PipeGrows
<1>6. a \o <<>> = a
  <2> DEFINE b == buf \o stdout
  <2>1. b \in Seq(LinesOf(Known \ Notes))
    BY ConcatProperties DEF Types
  <2> HIDE DEF b
  <2>2. Answers(b) \in Seq(Response)
    BY <2>1, AnswersAreResponses
  <2>3. QED
    BY <2>2, ConcatEmptySeq DEF b
<1> HIDE DEF a
<1>7. Answers(buf' \o stdout') = a
  <2>1. buf' \o stdout' = buf \o (stdout \o t)
    BY <1>1, <1>3
  <2>2. QED
    BY <1>4, <1>5, <1>6, <2>1, Zenon
<1>8. Heard' = Heard /\ Written' = Written
  BY <1>1 DEF Heard, Written
<1>9. Heard \o a = Written
  BY <1>1 DEF a, Arriving
<1>10. QED
  BY <1>7, <1>8, <1>9 DEF Arriving

LEMMA ArrivingStep ==
  ASSUME Types, Phases, Arriving, [Next]_vars
  PROVE  Arriving'
<1> USE DEF driver, pipes, pharos
<1>1. CASE UNCHANGED vars
  BY <1>1, ArrivingSame DEF vars
<1>2. CASE ReadBatch \/ ReadSerial \/ GiveUp \/ Collect
  BY <1>2, ArrivingBatch, ArrivingSerial, ArrivingGiveUp, ArrivingCollect
<1>3. ASSUME NEW r \in Asked, Answer(r) \/ DieTorn(r) PROVE Arriving'
  BY <1>3, ArrivingAnswer, ArrivingTorn
<1>4. CASE Write \/ WriteFails \/ StopReading \/ ReadLogs \/ Close \/ Kill
           \/ PortAppears \/ PortNever \/ Unheard \/ Post \/ Reap
  BY <1>4, ArrivingSame
  DEF Write, WriteFails, StopReading, ReadLogs, Close, Kill, PortAppears, PortNever, Unheard, Post,
      Reap
<1>5. CASE PostAnswered \/ PostFails
  <2>1. style' = "http"
    BY <1>5 DEF Phases, PostAnswered, PostFails
  <2>2. QED
    BY <2>1 DEF Arriving
<1>6. CASE Boot \/ Take \/ Die \/ Exit
  BY <1>6, ArrivingSame DEF Boot, Take, Die, Exit
<1>7. QED
  BY <1>1, <1>2, <1>3, <1>4, <1>5, <1>6 DEF Next, DriverStep, DriverMoves, ReadsToEnd, PharosStep

LEMMA InitArriving == Init => Arriving
<1> SUFFICES ASSUME Init PROVE Arriving
  OBVIOUS
<1>1. responses = <<>> /\ buf = <<>> /\ stdout = <<>> /\ wrote = <<>>
  BY DEF Init
<1>2. Heard = <<>>
  BY <1>1, KeptEmpty DEF Heard
<1>3. Answers(buf \o stdout) = <<>>
  <2>1. <<>> \in Seq(LinesOf(Known \ Notes)) /\ Ends(<<>>) = {} /\ <<>> \o <<>> = <<>>
    BY EmptySeq DEF Ends
  <2>2. Answers(<<>>) = <<>>
    BY <2>1, AnswersNone
  <2>3. buf \o stdout = <<>>
    BY <1>1, <2>1
  <2>4. QED
    BY <2>2, <2>3, Zenon
<1>4. Written = <<>> /\ <<>> \o <<>> = <<>>
  BY <1>1 DEF Written
<1>5. QED
  BY <1>2, <1>3, <1>4 DEF Arriving

-----------------------------------------------------------------------------
(* The drivers that wait leave no request behind.                           *)

LEMMA SeenGrows ==
  ASSUME Types, NEW t \in Seq(Response), responses' = responses \o t
  PROVE  Seen' = Seen \cup IdsOf(t)
<1> DEFINE s == responses
           st == s \o t
<1>1. s \in Seq(Response)
  BY DEF Types
<1>2. Seen = IdsOf(s) /\ Seen' = IdsOf(st)
  BY DEF Seen, IdsOf
<1> HIDE DEF s
<1>3. /\ Len(st) = Len(s) + Len(t) /\ Len(s) \in Nat /\ Len(t) \in Nat
      /\ \A k \in 1..Len(s) : st[k] = s[k]
      /\ \A k \in 1..Len(t) : st[Len(s) + k] = t[k]
  BY <1>1, Concatenated
<1> HIDE DEF st
<1>4. ASSUME NEW k \in 1..Len(st) PROVE st[k].id \in IdsOf(s) \cup IdsOf(t)
  <2>1. CASE k <= Len(s)
    <3>1. k \in 1..Len(s)
      BY <1>3, <2>1
    <3>2. QED
      BY <1>3, <3>1 DEF IdsOf
  <2>2. CASE k > Len(s)
    <3>1. k - Len(s) \in 1..Len(t) /\ Len(s) + (k - Len(s)) = k
      BY <1>3, <2>2
    <3>2. st[k] = t[k - Len(s)]
      BY <1>3, <3>1
    <3>3. QED
      BY <3>1, <3>2 DEF IdsOf
  <2>3. QED
    BY <1>3, <2>1, <2>2
<1>5. \A k \in 1..Len(s) : s[k].id \in IdsOf(st)
  <2>1. \A k \in 1..Len(s) : k \in 1..Len(st) /\ st[k] = s[k]
    BY <1>3
  <2>2. QED
    BY <2>1 DEF IdsOf
<1>6. \A k \in 1..Len(t) : t[k].id \in IdsOf(st)
  <2>1. \A k \in 1..Len(t) : Len(s) + k \in 1..Len(st) /\ st[Len(s) + k] = t[k]
    BY <1>3
  <2>2. QED
    BY <2>1 DEF IdsOf
<1>7. IdsOf(st) = IdsOf(s) \cup IdsOf(t)
  BY <1>4, <1>5, <1>6 DEF IdsOf
<1>8. QED
  BY <1>2, <1>7

LEMMA SettledKept ==
  ASSUME SettledSoFar, UNCHANGED <<style, next>>, Seen \subseteq Seen',
         style = "serial" /\ phase' \in {"close", "collect", "done"}
           => phase \in {"close", "collect", "done"}
  PROVE  SettledSoFar'
BY DEF SettledSoFar, Asked

\* A driver that waits goes on once it has a response for what it waits for.
LEMMA SettledNext ==
  ASSUME Types, SettledSoFar, style' = style, style # "batch", Seen \subseteq Seen',
         next \in Asked => next \in Seen', next' \in {next, next + 1},
         style = "serial" /\ phase' \in {"close", "collect", "done"} => next = Requests
  PROVE  SettledSoFar'
<1>1. next \in 1..Requests /\ Requests \in Nat /\ Asked \subseteq 1..Requests /\ Asked' = Asked
  BY DriveAssumption DEF Types, Asked
<1>2. \A r \in Asked : r <= next => r \in Seen'
  BY <1>1 DEF SettledSoFar
<1>3. \A r \in Asked : r < next' => r <= next
  BY <1>1
<1>4. next = Requests => \A r \in Asked : r <= next
  BY <1>1
<1>5. QED
  BY <1>1, <1>2, <1>3, <1>4 DEF SettledSoFar

LEMMA NextRequestFacts ==
  ASSUME Types, NextRequest(next)
  PROVE  /\ next' \in {next, next + 1} /\ phase' \in {"close", "write"}
         /\ phase' = "close" => next = Requests
  BY DEF NextRequest

LEMMA SettledReadBatch ==
  ASSUME SettledSoFar, ReadBatch
  PROVE  SettledSoFar'
BY DEF SettledSoFar, ReadBatch

LEMMA SettledReadSerial ==
  ASSUME Types, SettledSoFar, ReadSerial
  PROVE  SettledSoFar'
<1>1. PICK n \in 1..Len(stdout) :
        LET chunk == buf \o SubSeq(stdout, 1, n) IN
          /\ responses' = responses \o Answers(Upto(chunk))
          /\ buf' = After(chunk)
          /\ stdout' = SubSeq(stdout, n + 1, Len(stdout))
          /\ IF Targets(chunk) # {} THEN NextRequest(next) ELSE UNCHANGED <<next, phase>>
  BY DEF ReadSerial
<1> DEFINE chunk == buf \o SubSeq(stdout, 1, n)
           t == Answers(Upto(chunk))
<1>2. chunk \in Seq(LinesOf(Known \ Notes))
  BY ChunkFacts
<1>3. /\ responses' = responses \o t
      /\ Targets(chunk) # {} => NextRequest(next)
      /\ Targets(chunk) = {} => UNCHANGED <<next, phase>>
      /\ style' = style /\ style = "serial" /\ phase = "read"
  BY <1>1 DEF ReadSerial
<1>4. t \in Seq(Response)
  <2> HIDE DEF chunk
  <2>1. Upto(chunk) \in Seq(LinesOf(Known \ Notes))
    BY <1>2, SplitFacts
  <2>2. QED
    BY <2>1, AnswersAreResponses
<1>5. Targets(chunk) # {} => next \in IdsOf(t)
  <2> HIDE DEF chunk
  <2>1. QED
    BY <1>2, TargetAnswered
<1> HIDE DEF chunk, t
<1>6. Seen' = Seen \cup IdsOf(t)
  BY <1>3, <1>4, SeenGrows
<1>7. CASE Targets(chunk) # {}
  <2>1. /\ next' \in {next, next + 1} /\ phase' \in {"close", "write"}
        /\ phase' = "close" => next = Requests
    BY <1>3, <1>7, NextRequestFacts
  <2>2. QED
    BY <1>3, <1>5, <1>6, <1>7, <2>1, SettledNext
<1>8. CASE Targets(chunk) = {}
  BY <1>3, <1>6, <1>8, SettledKept
<1>9. QED
  BY <1>7, <1>8

LEMMA SettledGiveUp ==
  ASSUME Types, SettledSoFar, GiveUp
  PROVE  SettledSoFar'
<1> DEFINE x == Synthetic(next)
<1>1. /\ responses' = Append(responses, x) /\ NextRequest(next)
      /\ style' = style /\ style = "serial"
  BY DEF GiveUp
<1>2. x \in Response /\ x.id = next /\ responses \in Seq(Response)
  BY DEF Types, Synthetic, Response
<1> HIDE DEF x
<1> DEFINE t == <<x>>
<1>3. t \in Seq(Response) /\ next \in IdsOf(t)
  BY <1>2 DEF IdsOf
<1>4. responses' = responses \o t
  BY <1>1, <1>2, AppendedOne
<1> HIDE DEF t
<1>5. Seen' = Seen \cup IdsOf(t)
  BY <1>3, <1>4, SeenGrows
<1>6. /\ next' \in {next, next + 1} /\ phase' \in {"close", "write"}
      /\ phase' = "close" => next = Requests
  BY <1>1, NextRequestFacts
<1>7. QED
  BY <1>1, <1>3, <1>5, <1>6, SettledNext

LEMMA SettledPost ==
  ASSUME Types, Phases, SettledSoFar, PostAnswered \/ PostFails
  PROVE  SettledSoFar'
<1>1. PICK by \in {"server", "driver"} : NextPost([id |-> next, by |-> by])
  BY DEF PostAnswered, PostFails, Synthetic
<1>2. style' = style /\ style = "http"
  BY DEF PostAnswered, PostFails, Phases
<1> DEFINE x == [id |-> next, by |-> by]
<1>3. PICK t \in Seq(Response) : /\ responses' = responses \o t
                                 /\ next \notin Notes => t = <<x>>
  BY <1>1, NextPostFacts
<1>4. Seen' = Seen \cup IdsOf(t)
  BY <1>3, SeenGrows
<1>5. next \in Asked => next \in IdsOf(t)
  <2>1. x.id = next
    OBVIOUS
  <2>2. next \in Asked => t = <<x>>
    BY <1>3 DEF Asked
  <2> HIDE DEF x
  <2>3. next \in IdsOf(<<x>>)
    BY ONLY <2>1 DEF IdsOf
  <2>4. QED
    BY <2>2, <2>3
<1>6. next' \in {next, next + 1}
  BY <1>1, NextPostFacts
<1>7. QED
  BY <1>2, <1>4, <1>5, <1>6, SettledNext

LEMMA SettledWrite ==
  ASSUME Types, SettledSoFar, Write
  PROVE  SettledSoFar'
<1>1. CASE style = "batch"
  BY <1>1 DEF SettledSoFar, Write
<1>2. CASE style # "batch" /\ next \in Notes
  <2>1. style' = style /\ Seen' = Seen /\ next \notin Asked
    BY <1>2 DEF Write, Asked, Seen
  <2>2. next' \in {next, next + 1}
    BY DEF Write
  <2>3. phase' \in {"close", "collect", "done"} => next = Requests
    BY <1>2 DEF Write, Types
  <2>4. QED
    BY <1>2, <2>1, <2>2, <2>3, SettledNext
<1>3. CASE style # "batch" /\ next \notin Notes
  BY <1>3, SettledKept DEF Write, Seen
<1>4. QED
  BY <1>1, <1>2, <1>3

LEMMA SettledStep ==
  ASSUME Types, Phases, SettledSoFar, [Next]_vars
  PROVE  SettledSoFar'
<1> USE DEF driver, pipes, pharos
<1>1. CASE UNCHANGED vars
  BY <1>1, SettledKept DEF vars, Seen
<1>2. CASE ReadBatch \/ ReadSerial \/ GiveUp \/ Write \/ PostAnswered \/ PostFails
  BY <1>2, SettledReadBatch, SettledReadSerial, SettledGiveUp, SettledWrite, SettledPost
<1>3. CASE PharosStep
  BY <1>3, PharosTypes, SettledKept DEF Seen
<1>4. CASE WriteFails \/ ReadLogs \/ Close \/ Kill
  BY <1>4, SettledKept DEF WriteFails, ReadLogs, Close, Kill, Seen
<1>5. CASE StopReading
  BY <1>5 DEF StopReading, SettledSoFar
<1>6. CASE PortAppears \/ PortNever \/ Unheard \/ Post \/ Reap
  <2>1. style = "http"
    BY <1>6 DEF Phases, PortAppears, PortNever, Unheard, Post, Reap
  <2>2. QED
    BY <1>6, <2>1, SettledKept DEF PortAppears, PortNever, Unheard, Post, Reap, Seen
<1>7. CASE Collect
  <2> DEFINE t == Answers(buf \o stdout)
  <2>1. t \in Seq(Response)
    <3> DEFINE b == buf \o stdout
    <3>1. b \in Seq(LinesOf(Known \ Notes))
      BY ConcatProperties DEF Types
    <3> HIDE DEF b
    <3>2. Answers(b) \in Seq(Response)
      BY <3>1, AnswersAreResponses
    <3>3. QED
      BY <3>2 DEF b
  <2>2. responses' = responses \o t
    BY <1>7 DEF Collect
  <2> HIDE DEF t
  <2>3. Seen' = Seen \cup IdsOf(t)
    BY <2>1, <2>2, SeenGrows
  <2>4. QED
    BY <1>7, <2>3, SettledKept DEF Collect
<1>8. QED
  BY <1>1, <1>2, <1>3, <1>4, <1>5, <1>6, <1>7 DEF Next, DriverStep, DriverMoves, ReadsToEnd

-----------------------------------------------------------------------------
(* The invariant, and what the runs check.                                  *)

LEMMA InitInv == Init => DriveInv
<1> SUFFICES ASSUME Init PROVE DriveInv
  OBVIOUS
<1>1. Phases
  BY DriveAssumption DEF Init, Phases
<1>2. NothingLeft
  BY DEF Init, NothingLeft
<1>3. SettledSoFar
  BY DEF Init, SettledSoFar, Asked
<1>4. QED
  BY <1>1, <1>2, <1>3, InitTypes, InitArriving DEF DriveInv

LEMMA Inductive == Spec => []DriveInv
<1>1. DriveInv /\ [Next]_vars => DriveInv'
  BY TypesStep, PhasesStep, ArrivingStep, NothingLeftStep, SettledStep DEF DriveInv
<1>2. QED
  BY <1>1, InitInv, PTL DEF Spec

\* Whatever the driver and the faults, the driver, the pipes and what pharos does
\* at the other end stay within their types: no request is ever asked for beyond
\* the last, and nothing is answered that is no request.
THEOREM DriveTypes == Spec => []TypeOK
<1>1. DriveInv => TypeOK
  BY TypesGiveTypeOK DEF DriveInv
<1>2. QED
  BY <1>1, Inductive, PTL

\* Once a driver returns, everything is where the script reads it: what was in the
\* buffer and in the pipe has become responses.
LEMMA AllIsHeard == DriveInv => EveryLineArrives
<1> SUFFICES ASSUME DriveInv, phase = "done", style # "http"
             PROVE  Heard = Written
  BY DEF EveryLineArrives, Heard, Written, ByServer
<1>1. buf = <<>> /\ stdout = <<>>
  BY DEF DriveInv, NothingLeft
<1>2. Answers(buf \o stdout) = <<>>
  <2>1. <<>> \in Seq(LinesOf(Known \ Notes)) /\ Ends(<<>>) = {} /\ <<>> \o <<>> = <<>>
    BY EmptySeq DEF Ends
  <2>2. Answers(<<>>) = <<>>
    BY <2>1, AnswersNone
  <2>3. buf \o stdout = <<>>
    BY <1>1, <2>1
  <2>4. QED
    BY <2>2, <2>3, Zenon
<1>3. Heard \o <<>> = Heard
  BY HeardType, ConcatEmptySeq DEF DriveInv
<1>4. QED
  BY <1>2, <1>3 DEF DriveInv, Arriving

\* However a read cuts what pharos writes, whenever a deadline passes or a line is
\* torn by a crash, the responses the script gets are the answers pharos wrote in
\* full, each once and in the order it wrote them: the loop, its buffer and
\* communicate lose none between them (_pharos_drive.py 76-120).
THEOREM NoLineIsLost == Spec => []EveryLineArrives
BY AllIsHeard, Inductive, PTL

-----------------------------------------------------------------------------
(* The promise to the scripts: outcomes of requests.                        *)

\* The first response with an id stays the first one as responses are added.
Places(s, r) == {i \in 1..Len(s) : s[i].id = r}

LEMMA FirstStays ==
  ASSUME NEW S, NEW s \in Seq(S), NEW t \in Seq(S), NEW r, Places(s, r) # {}
  PROVE  LET st == s \o t
         IN  Places(st, r) # {} /\ st[Min(Places(st, r))] = s[Min(Places(s, r))]
<1> DEFINE st == s \o t
           m == Min(Places(s, r))
           k == Min(Places(st, r))
<1>1. /\ Len(st) = Len(s) + Len(t) /\ Len(s) \in Nat /\ Len(t) \in Nat
      /\ \A i \in 1..Len(s) : st[i] = s[i]
  BY Concatenated
<1> HIDE DEF st
<1>2. m \in Places(s, r) /\ \A i \in Places(s, r) : m <= i
  <2>1. Places(s, r) \subseteq Nat
    BY DEF Places
  <2>2. QED
    BY <2>1, MinIsLeast
<1> HIDE DEF m
<1>3. m \in 1..Len(s) /\ m \in 1..Len(st) /\ m \in Places(st, r)
  BY <1>1, <1>2 DEF Places
<1>4. k \in Places(st, r) /\ \A i \in Places(st, r) : k <= i
  <2>1. Places(st, r) \subseteq Nat
    BY DEF Places
  <2>2. QED
    BY <1>3, <2>1, MinIsLeast
<1> HIDE DEF k
<1>5. k <= m /\ k \in 1..Len(st)
  BY <1>3, <1>4 DEF Places
<1>6. k \in 1..Len(s)
  BY <1>1, <1>3, <1>5
<1>7. k \in Places(s, r)
  BY <1>1, <1>4, <1>6 DEF Places
<1>8. k = m
  BY <1>2, <1>3, <1>5, <1>6, <1>7
<1>9. st[k] = s[m]
  BY <1>1, <1>3, <1>8
<1>10. QED
  BY <1>3, <1>9 DEF st, m, k

LEMMA FirstComes ==
  ASSUME NEW S, NEW s \in Seq(S), NEW t \in Seq(S), NEW r, Places(s, r) = {}
  PROVE  LET st == s \o t
         IN  /\ Places(t, r) = {} => Places(st, r) = {}
             /\ Places(t, r) # {} => /\ Places(st, r) # {}
                                     /\ \E j \in 1..Len(t) : st[Min(Places(st, r))] = t[j]
<1> DEFINE st == s \o t
           k == Min(Places(st, r))
<1>1. /\ Len(st) = Len(s) + Len(t) /\ Len(s) \in Nat /\ Len(t) \in Nat
      /\ \A i \in 1..Len(s) : st[i] = s[i]
      /\ \A j \in 1..Len(t) : st[Len(s) + j] = t[j]
  BY Concatenated
<1> HIDE DEF st
<1>2. ASSUME NEW i \in Places(st, r)
      PROVE  i - Len(s) \in Places(t, r) /\ st[i] = t[i - Len(s)]
  <2>1. i \in 1..Len(st) /\ st[i].id = r
    BY DEF Places
  <2>2. ~(i <= Len(s))
    <3>1. SUFFICES ASSUME i <= Len(s) PROVE FALSE
      OBVIOUS
    <3>2. i \in 1..Len(s)
      BY <1>1, <2>1, <3>1
    <3>3. i \in Places(s, r)
      BY <1>1, <2>1, <3>2 DEF Places
    <3>4. QED
      BY <3>3
  <2>3. i - Len(s) \in 1..Len(t) /\ Len(s) + (i - Len(s)) = i
    BY <1>1, <2>1, <2>2
  <2>4. st[i] = t[i - Len(s)]
    BY <1>1, <2>3
  <2>5. QED
    BY <2>1, <2>3, <2>4 DEF Places
<1>3. CASE Places(t, r) = {}
  BY <1>2, <1>3 DEF st
<1>4. CASE Places(t, r) # {}
  <2>1. PICK j \in 1..Len(t) : t[j].id = r
    BY <1>4 DEF Places
  <2>2. Len(s) + j \in 1..Len(st) /\ st[Len(s) + j] = t[j]
    BY <1>1
  <2>3. Len(s) + j \in Places(st, r)
    BY <2>1, <2>2 DEF Places
  <2>4. k \in Places(st, r)
    <3>1. Places(st, r) \subseteq Nat
      BY DEF Places
    <3>2. QED
      BY <2>3, <3>1, MinIsLeast
  <2> HIDE DEF k
  <2>5. k - Len(s) \in 1..Len(t) /\ st[k] = t[k - Len(s)]
    BY <1>2, <2>4 DEF Places
  <2>6. QED
    BY <1>4, <2>3, <2>5 DEF st, k
<1>5. QED
  BY <1>3, <1>4

LEMMA FoundStays ==
  ASSUME Types, NEW t \in Seq(Response), responses' = responses \o t, NEW r, Firsts(r) # {}
  PROVE  Found(r)' = Found(r) /\ Found(r) \in {"answered", "failed"}
<1> DEFINE s == responses
           st == s \o t
<1>1. s \in Seq(Response)
  BY DEF Types
<1>2. /\ Firsts(r) = Places(s, r) /\ Firsts(r)' = Places(st, r)
      /\ find_response(r) = s[Min(Places(s, r))].by
      /\ find_response(r)' = st[Min(Places(st, r))].by
  BY DEF Firsts, Places, find_response
<1> HIDE DEF s
<1>3. Places(st, r) # {} /\ st[Min(Places(st, r))] = s[Min(Places(s, r))]
  BY <1>1, <1>2, FirstStays
<1> HIDE DEF st
<1>4. Firsts(r)' # {} /\ find_response(r)' = find_response(r)
  BY <1>2, <1>3
<1>5. Found(r) = IF find_response(r) = "server" THEN "answered" ELSE "failed"
  BY DEF Found
<1>6. Found(r)' = IF find_response(r)' = "server" THEN "answered" ELSE "failed"
  BY <1>4 DEF Found
<1>7. QED
  BY <1>4, <1>5, <1>6

LEMMA FoundComes ==
  ASSUME Types, NEW t \in Seq(Response), responses' = responses \o t, NEW r, Firsts(r) = {}
  PROVE  /\ Places(t, r) = {} => Found(r)' = IF phase' = "done" THEN "missing" ELSE "open"
         /\ Places(t, r) # {} => Found(r)' \in {"answered", "failed"}
         /\ Places(t, r) # {} /\ (\A j \in 1..Len(t) : t[j].by = "server")
              => Found(r)' = "answered"
<1> DEFINE s == responses
           st == s \o t
<1>1. s \in Seq(Response)
  BY DEF Types
<1>2. /\ Firsts(r) = Places(s, r) /\ Firsts(r)' = Places(st, r)
      /\ find_response(r)' = st[Min(Places(st, r))].by
  BY DEF Firsts, Places, find_response
<1> HIDE DEF s
<1>3. /\ Places(t, r) = {} => Places(st, r) = {}
      /\ Places(t, r) # {} => /\ Places(st, r) # {}
                              /\ \E j \in 1..Len(t) : st[Min(Places(st, r))] = t[j]
  BY <1>1, <1>2, FirstComes
<1> HIDE DEF st
<1>4. Firsts(r)' = {} => Found(r)' = IF phase' = "done" THEN "missing" ELSE "open"
  BY DEF Found
<1>5. Firsts(r)' # {} => Found(r)' = IF find_response(r)' = "server" THEN "answered" ELSE "failed"
  BY DEF Found
<1>6. Places(t, r) = {} => Found(r)' = IF phase' = "done" THEN "missing" ELSE "open"
  BY <1>2, <1>3, <1>4
<1>7. CASE Places(t, r) # {}
  <2>1. Firsts(r)' # {} /\ \E j \in 1..Len(t) : find_response(r)' = t[j].by
    BY <1>2, <1>3, <1>7
  <2>2. Found(r)' = IF find_response(r)' = "server" THEN "answered" ELSE "failed"
    BY <1>5, <2>1
  <2>3. QED
    BY <1>7, <2>1, <2>2
<1>8. QED
  BY <1>6, <1>7

\* What a step adds to the responses, and does not add, is what the scripts see.
\* It settles what the driver may settle ...
LEMMA SettleServed ==
  ASSUME Types, SettledSoFar, style' = style, NEW t \in Seq(Response), responses' = responses \o t,
         phase \notin {"done", "raised"}, phase' \notin {"done", "raised"},
         style = "batch" => \A j \in 1..Len(t) : t[j].by = "server",
         style # "batch" => \A j \in 1..Len(t) : t[j].id <= next
  PROVE  Service!Settle \/ UNCHANGED Service!vars
<1> DEFINE S == {r \in Asked : Firsts(r) = {} /\ Places(t, r) # {}}
           o == [r \in S |-> Found(r)']
<1>1. over = "no" /\ over' = "no"
  BY DEF over
<1>2. Asked = Service!Asked /\ Asked \subseteq 1..Requests /\ Requests \in Nat
  BY DriveAssumption DEF Asked, Service!Asked
<1>3. \A r \in Asked : Service!Settled(r) <=> Firsts(r) # {}
  <2>1. TAKE r \in Asked
  <2>2. outcome[r] = Found(r)
    BY DEF outcome
  <2>3. Found(r) = "open" <=> Firsts(r) = {}
    BY DEF Found
  <2>4. QED
    BY <2>2, <2>3 DEF Service!Settled
<1>4. \A r \in Asked : Firsts(r) # {} => Found(r)' = Found(r)
  BY FoundStays
<1>5. \A r \in Asked : Firsts(r) = {} /\ Places(t, r) = {} => Found(r)' = "open" /\ Found(r) = "open"
  <2>1. \A r \in Asked : Firsts(r) = {} => Found(r) = "open"
    BY DEF Found
  <2>2. QED
    BY <2>1, FoundComes
<1>6. \A r \in S : Found(r)' \in {"answered", "failed"}
  BY FoundComes
<1>7. style = "batch" => \A r \in S : Found(r)' = "answered"
  BY FoundComes
<1>8. style # "batch" => \A r \in S : r <= next
  <2>1. ASSUME style # "batch", NEW r \in S PROVE r <= next
    <3>1. PICK j \in 1..Len(t) : t[j].id = r
      BY DEF Places
    <3>2. QED
      BY <2>1, <3>1
  <2>2. QED
    BY <2>1
<1>9. \A e \in Asked : e \in Seen => Firsts(e) # {}
  BY DEF Seen, Firsts
<1>10. style # "batch" => \A r \in S, e \in Asked : e < r => Firsts(e) # {}
  <2>1. ASSUME style # "batch", NEW r \in S, NEW e \in Asked, e < r PROVE Firsts(e) # {}
    <3>1. r \in 1..Requests /\ e \in 1..Requests /\ next \in 1..Requests /\ r <= next
      BY <1>2, <1>8, <2>1 DEF Types
    <3>2. e < next
      BY <1>2, <2>1, <3>1
    <3>3. e \in Seen
      BY <2>1, <3>2 DEF SettledSoFar
    <3>4. QED
      BY <1>9, <3>3
  <2>2. QED
    BY <2>1
<1>11. S \subseteq Asked /\ \A r \in S : Firsts(r) = {}
  OBVIOUS
<1>12. \A r \in Asked : Found(r)' = IF r \in S THEN o[r] ELSE outcome[r]
  <2>1. ASSUME NEW r \in Asked PROVE Found(r)' = IF r \in S THEN o[r] ELSE outcome[r]
    <3>1. outcome[r] = Found(r)
      BY DEF outcome
    <3>2. CASE r \in S
      BY <3>2
    <3>3. CASE r \notin S
      BY <1>4, <1>5, <3>1, <3>3
    <3>4. QED
      BY <3>2, <3>3
  <2>2. QED
    BY <2>1
<1>13. outcome' = [r \in Asked |-> Found(r)'] /\ outcome = [r \in Asked |-> Found(r)]
  BY DEF outcome, Asked
<1>14. CASE S = {}
  <2>1. \A r \in Asked : Found(r)' = Found(r)
    BY <1>4, <1>5, <1>14
  <2>2. outcome' = outcome
    BY <1>13, <2>1
  <2>3. QED
    BY <1>1, <2>2 DEF Service!vars
<1>15. CASE S # {}
  <2> DEFINE P == {r \in Service!Asked : ~Service!Settled(r)}
  <2>1. S \in SUBSET P
    BY <1>2, <1>3, <1>11
  <2>2. o \in [S -> {"answered", "failed"}] /\ \A r \in S : o[r] = Found(r)'
    BY <1>6
  <2>3. style = "batch" => \A r \in S : o[r] = "answered"
    BY <1>7, <2>2
  <2> HIDE DEF o, S, P
  <2>4. outcome' = [r \in Service!Asked |-> IF r \in S THEN o[r] ELSE outcome[r]]
    BY <1>2, <1>12, <1>13
  <2>5. style # "batch" => \A r \in S, e \in Service!Asked : e < r => e \in S \/ Service!Settled(e)
    BY <1>2, <1>3, <1>10
  <2>6. Service!Settle
    BY <1>1, <1>15, <2>1, <2>2, <2>3, <2>4, <2>5 DEF Service!Settle, P
  <2>7. QED
    BY <2>6
<1>16. QED
  BY <1>14, <1>15

\* ... it may be the last one ...
LEMMA ReturnServed ==
  ASSUME Types, SettledSoFar, style' = style, NEW t \in Seq(Response), responses' = responses \o t,
         phase \notin {"done", "raised"}, phase' = "done",
         \A j \in 1..Len(t) : t[j].by = "server",
         style = "serial" => phase = "collect"
  PROVE  Service!Return
<1>1. over = "no" /\ over' = "returned"
  BY DEF over
<1>2. Asked = Service!Asked
  BY DEF Asked, Service!Asked
<1>3. \A r \in Asked : outcome[r] = Found(r) /\ outcome'[r] = Found(r)'
  BY DEF outcome, Asked
<1>4. \A r \in Asked : Found(r) = "open" <=> Firsts(r) = {}
  BY DEF Found
<1>5. \A r \in Asked : Firsts(r) # {} => Found(r)' = Found(r) /\ Found(r)' \in {"answered", "failed"}
  BY FoundStays
<1>6. \A r \in Asked : Firsts(r) = {} => Found(r)' \in {"answered", "missing"}
  <2>1. TAKE r \in Asked
  <2>2. CASE Firsts(r) = {} /\ Places(t, r) = {}
    BY <2>2, FoundComes
  <2>3. CASE Firsts(r) = {} /\ Places(t, r) # {}
    BY <2>3, FoundComes
  <2>4. QED
    BY <2>2, <2>3
<1>7. outcome' \in [Asked -> {"answered", "failed", "missing"}]
  <2>1. \A r \in Asked : Found(r)' \in {"answered", "failed", "missing"}
    BY <1>5, <1>6
  <2>2. outcome' = [r \in Asked |-> Found(r)']
    BY DEF outcome, Asked
  <2>3. QED
    BY <2>1, <2>2
<1>8. style = "serial" => \A r \in Asked : Firsts(r) # {}
  BY DEF SettledSoFar, Seen, Firsts
<1>9. style = "serial" => \A r \in Asked : outcome'[r] # "missing"
  BY <1>3, <1>5, <1>8
<1>10. \A r \in Asked : /\ Service!Settled(r) => outcome'[r] = outcome[r]
                        /\ ~Service!Settled(r) => outcome'[r] # "failed"
  BY <1>3, <1>4, <1>5, <1>6 DEF Service!Settled
<1>11. QED
  BY <1>1, <1>2, <1>7, <1>9, <1>10 DEF Service!Return

\* ... or an exception.
LEMMA RaiseServed ==
  ASSUME UNCHANGED <<style, responses>>, phase \notin {"done", "raised"}, phase' = "raised"
  PROVE  Service!Raise
<1>1. over = "no" /\ over' = "raised"
  BY DEF over
<1>2. \A r \in Asked : Found(r)' = Found(r)
  BY DEF Found, Firsts, find_response
<1>3. outcome' = outcome
  BY <1>2 DEF outcome, Asked
<1>4. QED
  BY <1>1, <1>3 DEF Service!Raise

\* Everything else the scripts do not see.
LEMMA QuietServed ==
  ASSUME UNCHANGED <<style, responses>>, phase' = phase \/ {phase, phase'} \cap {"done", "raised"} = {}
  PROVE  UNCHANGED Service!vars
<1>1. over' = over
  BY DEF over
<1>2. \A r \in Asked : Found(r)' = Found(r)
  BY DEF Found, Firsts, find_response
<1>3. outcome' = outcome
  BY <1>2 DEF outcome, Asked
<1>4. QED
  BY <1>1, <1>3 DEF Service!vars

\* Answers are by the server, and about requests it knows of.
LEMMA AnswersAreServed ==
  ASSUME Types, NEW s \in Seq(LinesOf(Known \ Notes))
  PROVE  /\ Answers(s) \in Seq(Response)
         /\ \A j \in 1..Len(Answers(s)) : Answers(s)[j].by = "server"
         /\ style = "serial" => \A j \in 1..Len(Answers(s)) : Answers(s)[j].id <= next
<1> DEFINE a == Answers(s)
<1>1. a \in Seq(Response) /\ a \in Seq(FromServer(Known \ Notes))
  BY AnswersAreResponses
<1> HIDE DEF a
<1>2. \A j \in 1..Len(a) : a[j] \in FromServer(Known \ Notes)
  BY <1>1, ElementOfSeq
<1>3. \A j \in 1..Len(a) : a[j].by = "server" /\ a[j].id \in Known
  BY <1>2 DEF FromServer
<1>4. QED
  BY <1>1, <1>3 DEF a, Known

LEMMA ReadServed ==
  ASSUME Types, Phases, SettledSoFar, ReadBatch \/ ReadSerial
  PROVE  Service!Settle \/ UNCHANGED Service!vars
<1>1. PICK n \in 1..Len(stdout) :
        LET chunk == buf \o SubSeq(stdout, 1, n) IN
          /\ \/ style = "batch" /\ responses' = responses \o Answers(chunk)
             \/ style = "serial" /\ responses' = responses \o Answers(Upto(chunk))
          /\ phase' \in {"read", "close", "write"}
  BY DEF ReadBatch, ReadSerial, NextRequest
<1> DEFINE chunk == buf \o SubSeq(stdout, 1, n)
<1>2. chunk \in Seq(LinesOf(Known \ Notes))
  BY ChunkFacts
<1>3. \/ style = "batch" /\ responses' = responses \o Answers(chunk)
      \/ style = "serial" /\ responses' = responses \o Answers(Upto(chunk))
  BY <1>1
<1> HIDE DEF chunk
<1>4. Upto(chunk) \in Seq(LinesOf(Known \ Notes))
  BY <1>2, SplitFacts
<1>5. PICK s \in Seq(LinesOf(Known \ Notes)) : responses' = responses \o Answers(s)
  BY <1>2, <1>3, <1>4
<1> DEFINE t == Answers(s)
<1>6. /\ t \in Seq(Response) /\ \A j \in 1..Len(t) : t[j].by = "server"
      /\ style = "serial" => \A j \in 1..Len(t) : t[j].id <= next
  BY AnswersAreServed
<1>7. responses' = responses \o t
  BY <1>5
<1> HIDE DEF t
<1>8. /\ style' = style /\ style \in {"batch", "serial"}
      /\ phase \notin {"done", "raised"} /\ phase' \notin {"done", "raised"}
  BY <1>1 DEF ReadBatch, ReadSerial
<1>9. QED
  BY <1>6, <1>7, <1>8, SettleServed

LEMMA GiveUpServed ==
  ASSUME Types, SettledSoFar, GiveUp
  PROVE  Service!Settle \/ UNCHANGED Service!vars
<1> DEFINE x == Synthetic(next)
<1>1. /\ responses' = Append(responses, x) /\ style' = style /\ style = "serial"
      /\ phase \notin {"done", "raised"} /\ phase' \notin {"done", "raised"}
  BY DEF GiveUp, NextRequest
<1>2. x \in Response /\ x.id = next /\ responses \in Seq(Response) /\ next \in 1..Requests
  BY DEF Types, Synthetic, Response
<1> HIDE DEF x
<1> DEFINE t == <<x>>
<1>3. t \in Seq(Response) /\ \A j \in 1..Len(t) : t[j].id <= next
  BY <1>2, DriveAssumption
<1>4. responses' = responses \o t
  BY <1>1, <1>2, AppendedOne
<1> HIDE DEF t
<1>5. QED
  BY <1>1, <1>3, <1>4, SettleServed

LEMMA PostServed ==
  ASSUME Types, Phases, SettledSoFar, PostAnswered \/ PostFails
  PROVE  Service!Settle \/ UNCHANGED Service!vars
<1>1. PICK by \in {"server", "driver"} : NextPost([id |-> next, by |-> by])
  BY DEF PostAnswered, PostFails, Synthetic
<1>2. /\ style' = style /\ style = "http"
      /\ phase \notin {"done", "raised"} /\ phase' \notin {"done", "raised"}
  BY DEF PostAnswered, PostFails, NextPost, Phases
<1> DEFINE x == [id |-> next, by |-> by]
<1>3. PICK t \in Seq(Response) : responses' = responses \o t /\ (t = <<>> \/ t = <<x>>)
  BY <1>1, NextPostFacts
<1>4. \A j \in 1..Len(t) : t[j].id <= next
  <2>1. x.id = next /\ next \in Nat
    BY DriveAssumption DEF Types
  <2> HIDE DEF x
  <2>2. CASE t = <<>>
    BY <2>2
  <2>3. CASE t = <<x>>
    BY <2>1, <2>3
  <2>4. QED
    BY <1>3, <2>2, <2>3
<1>5. QED
  BY <1>2, <1>3, <1>4, SettleServed

LEMMA EndServed ==
  ASSUME Types, Phases, SettledSoFar, Collect \/ Unheard \/ Reap
  PROVE  Service!Return
<1> USE DEF pipes, pharos
<1>1. /\ style' = style /\ phase \notin {"done", "raised"} /\ phase' = "done"
      /\ style = "serial" => phase = "collect"
  BY DEF Collect, Unheard, Reap, Phases
<1>2. CASE Collect
  <2> DEFINE b == buf \o stdout
             t == Answers(b)
  <2>1. b \in Seq(LinesOf(Known \ Notes))
    BY ConcatProperties DEF Types
  <2>2. responses' = responses \o t
    BY <1>2 DEF Collect
  <2> HIDE DEF b
  <2>3. t \in Seq(Response) /\ \A j \in 1..Len(t) : t[j].by = "server"
    BY <2>1, AnswersAreServed
  <2> HIDE DEF t
  <2>4. QED
    BY <1>1, <2>2, <2>3, ReturnServed
<1>3. CASE Unheard \/ Reap
  <2>1. <<>> \in Seq(Response) /\ responses \o <<>> = responses
    BY EmptySeq, ConcatEmptySeq DEF Types
  <2>2. responses' = responses \o <<>>
    BY <1>3, <2>1 DEF Unheard, Reap
  <2>3. \A j \in 1..Len(<<>>) : <<>>[j].by = "server"
    OBVIOUS
  <2>4. QED
    BY <1>1, <2>1, <2>2, <2>3, ReturnServed
<1>4. QED
  BY <1>2, <1>3

LEMMA ServiceStep ==
  ASSUME DriveInv, [Next]_vars
  PROVE  Service!Next \/ UNCHANGED Service!vars
<1> USE DEF driver, pipes, pharos
<1>1. Types /\ Phases /\ SettledSoFar
  BY DEF DriveInv
<1>2. CASE ReadBatch \/ ReadSerial \/ GiveUp \/ PostAnswered \/ PostFails
  BY <1>1, <1>2, ReadServed, GiveUpServed, PostServed DEF Service!Next
<1>3. CASE Collect \/ Unheard \/ Reap
  BY <1>1, <1>3, EndServed DEF Service!Next
<1>4. CASE WriteFails
  <2>1. Service!Raise
    BY <1>4, RaiseServed DEF WriteFails
  <2>2. QED
    BY <2>1 DEF Service!Next
<1>5. CASE Close
  <2>1. UNCHANGED <<style, responses>> /\ phase \notin {"done", "raised"}
        /\ phase' \in {"raised", "collect"}
    BY <1>5 DEF Close
  <2>2. CASE phase' = "raised"
    BY <2>1, <2>2, RaiseServed DEF Service!Next
  <2>3. CASE phase' = "collect"
    BY <2>1, <2>3, QuietServed
  <2>4. QED
    BY <2>1, <2>2, <2>3
<1>6. CASE Write \/ StopReading \/ ReadLogs \/ Kill \/ PortAppears \/ PortNever \/ Post
  <2>1. /\ UNCHANGED <<style, responses>>
        /\ phase' = phase \/ {phase, phase'} \cap {"done", "raised"} = {}
    BY <1>6 DEF Write, StopReading, ReadLogs, Kill, PortAppears, PortNever, Post
  <2>2. QED
    BY <2>1, QuietServed
<1>7. CASE PharosStep
  BY <1>1, <1>7, PharosTypes, QuietServed
<1>8. CASE UNCHANGED vars
  BY <1>8, QuietServed DEF vars
<1>9. QED
  BY <1>2, <1>3, <1>4, <1>5, <1>6, <1>7, <1>8 DEF Next, DriverStep, DriverMoves, ReadsToEnd

\* The drivers keep the promise of DriveService, but for its liveness: a request is
\* settled once, by the server or by the driver that waits for it, in the order of
\* the requests where the driver waits; batch makes no answer up, and drive_serial
\* comes back with an answer for every request (_pharos_drive.py 57-111,
\* _pharos_drive_http.py 66-147).
THEOREM DriversKeepTheirPromise == Spec => Service!Spec
<1>1. Init => Service!Init
  <2> SUFFICES ASSUME Init PROVE Service!Init
    OBVIOUS
  <2>1. over = "no" /\ style \in {"batch", "serial", "http"}
    BY DriveAssumption DEF Init, over
  <2>2. \A r \in Asked : Found(r) = "open"
    BY DEF Init, Found, Firsts
  <2>3. outcome = [r \in Service!Asked |-> "open"]
    BY <2>2 DEF outcome, Asked, Service!Asked
  <2>4. QED
    BY <2>1, <2>3 DEF Service!Init
<1>2. DriveInv /\ [Next]_vars => [Service!Next]_(Service!vars)
  BY ServiceStep
<1>3. QED
  BY <1>1, <1>2, Inductive, PTL DEF Spec, Service!Spec
=============================================================================
