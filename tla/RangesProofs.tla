---------------------------- MODULE RangesProofs ----------------------------
(***************************************************************************)
(* What the operators of Ranges compute, for every input: lemmas for the   *)
(* proofs about the wire formats and about striped downloads.  Their       *)
(* recursive functions are shown to exist (Iterates) and then followed     *)
(* step by step (Induct).                                                  *)
(***************************************************************************)
EXTENDS Ranges, SequenceTheorems, FiniteSetTheorems, WellFoundedInduction, TLAPS

-----------------------------------------------------------------------------
(* Induction and sums. *)

\* Induction over the naturals, in the form of sets.
LEMMA Induct ==
  ASSUME NEW S, 0 \in S, \A n \in Nat : n \in S => n + 1 \in S
  PROVE  Nat \subseteq S
<1> DEFINE T == Nat \ S
<1> SUFFICES ASSUME T # {} PROVE FALSE
  OBVIOUS
<1>1. PICK x \in T : \A y \in T : ~(<<y, x>> \in OpToRel(<, Nat))
  BY NatLessThanWellFounded, WFMin
<1>2. x \in Nat /\ x # 0 /\ x - 1 \in Nat /\ x - 1 < x
  OBVIOUS
<1>3. x - 1 \notin T
  <2> SUFFICES ASSUME x - 1 \in T PROVE FALSE
    OBVIOUS
  <2>1. <<x - 1, x>> \in OpToRel(<, Nat)
    BY <1>2 DEF OpToRel
  <2> QED BY <2>1, <1>1
<1>4. (x - 1) + 1 \in S
  BY <1>2, <1>3
<1> QED BY <1>4, <1>2

\* A sum is what its partial sums come to.
LEMMA TotalIs ==
  ASSUME NEW c, NEW n \in Nat, Len(c) = n, NEW g, g[0] = 0,
         \A k \in 1..n : g[k] = g[k-1] + c[k]
  PROVE  Total(c) = g[n]
<1> DEFINE F(f) == [k \in 0..n |-> IF k = 0 THEN 0 ELSE f[k-1] + c[k]]
           h == [k \in 0..n |-> g[k]]
           f0 == CHOOSE f : f = F(f)
<1>1. h = F(h)
  <2>1. ASSUME NEW k \in 0..n PROVE h[k] = F(h)[k]
    <3>1. CASE k = 0
      BY <3>1
    <3>2. CASE k # 0
      <4>1. k \in 1..n /\ k - 1 \in 0..n
        BY <3>2
      <4> QED BY <4>1, <3>2
    <3> QED BY <3>1, <3>2
  <2> QED BY <2>1
<1>2. f0 = F(f0)
  BY <1>1
<1>3. Total(c) = f0[n]
  BY DEF Total
<1> HIDE DEF f0
<1> DEFINE S == {k \in Nat : k <= n => f0[k] = g[k]}
<1>4. 0 \in S
  BY <1>2
<1>5. ASSUME NEW k \in Nat, k \in S PROVE k + 1 \in S
  <2> SUFFICES ASSUME k + 1 <= n PROVE f0[k+1] = g[k+1]
    OBVIOUS
  <2>1. k + 1 \in 0..n /\ k + 1 # 0 /\ (k + 1) - 1 = k /\ k + 1 \in 1..n /\ f0[k] = g[k]
    BY <1>5
  <2>2. f0[k+1] = f0[k] + c[k+1]
    BY <2>1, <1>2
  <2> QED BY <2>1, <2>2
<1> HIDE DEF S
<1>6. n \in S
  BY <1>4, <1>5, Induct
<1> QED BY <1>3, <1>6 DEF S

-----------------------------------------------------------------------------
(* Iteration and retain. *)

\* A step taken n times, as a function.
Iterated(D, n, step, d, f) ==
  f \in [0..n -> D] /\ f[0] = d /\ \A k \in 1..n : f[k] = step[<<k, f[k-1]>>]

\* A function that is defined step by step exists.
LEMMA Iterates ==
  ASSUME NEW D, NEW n \in Nat, NEW step, step \in [(1..n) \X D -> D], NEW d, d \in D
  PROVE  \E f : Iterated(D, n, step, d, f)
<1> DEFINE S == {m \in Nat : m <= n => \E f \in [0..m -> D] :
                     f[0] = d /\ \A k \in 1..m : f[k] = step[<<k, f[k-1]>>]}
<1>1. 0 \in S
  <2> DEFINE f == [k \in 0..0 |-> d]
  <2>1. f \in [0..0 -> D] /\ f[0] = d /\ \A k \in 1..0 : f[k] = step[<<k, f[k-1]>>]
    OBVIOUS
  <2> QED BY <2>1
<1>2. ASSUME NEW m \in Nat, m \in S PROVE m + 1 \in S
  <2> SUFFICES ASSUME m + 1 <= n
               PROVE  \E g \in [0..(m+1) -> D] : g[0] = d /\ \A k \in 1..(m+1) : g[k] = step[<<k, g[k-1]>>]
    OBVIOUS
  <2>1. PICK f \in [0..m -> D] : f[0] = d /\ \A k \in 1..m : f[k] = step[<<k, f[k-1]>>]
    BY <1>2
  <2>2. m \in 0..m /\ m + 1 \in 1..n /\ f[m] \in D
    OBVIOUS
  <2>3. step[<<m + 1, f[m]>>] \in D
    BY <2>2
  <2> DEFINE g == [k \in 0..(m+1) |-> IF k = m + 1 THEN step[<<m + 1, f[m]>>] ELSE f[k]]
  <2>4. ASSUME NEW k \in 0..m PROVE g[k] = f[k] /\ k \in 0..(m+1) /\ k # m + 1
    OBVIOUS
  <2>5. g \in [0..(m+1) -> D]
    BY <2>3
  <2>6. g[0] = d
    BY <2>1, <2>4
  <2>7. ASSUME NEW k \in 1..(m+1) PROVE g[k] = step[<<k, g[k-1]>>]
    <3>1. CASE k = m + 1
      <4>1. k - 1 = m /\ g[m] = f[m]
        BY <3>1, <2>2, <2>4
      <4>2. m + 1 \in 0..(m+1) /\ g[m+1] = step[<<m + 1, f[m]>>]
        OBVIOUS
      <4> HIDE DEF g
      <4> QED BY <4>1, <4>2, <3>1
    <3>2. CASE k # m + 1
      <4>1. k \in 1..m /\ k \in 0..m /\ k - 1 \in 0..m
        BY <3>2
      <4>2. g[k] = f[k] /\ g[k-1] = f[k-1]
        BY <4>1, <2>4
      <4> QED BY <4>1, <4>2, <2>1
    <3> QED BY <3>1, <3>2
  <2> QED BY <2>5, <2>6, <2>7
<1> HIDE DEF S
<1>3. n \in S
  BY <1>1, <1>2, Induct
<1> QED BY <1>3 DEF S, Iterated

\* What retain keeps: p names the positions of seq it was taken from.
Picks(seq, kept, k, r, p) ==
  /\ Len(r) <= k /\ p \in [1..Len(r) -> 1..k]
  /\ \A i \in 1..Len(r) : r[i] = seq[p[i]] /\ seq[p[i]] \in kept
  /\ \A i, j \in 1..Len(r) : i < j => p[i] < p[j]
  /\ \A j \in 1..k : seq[j] \in kept => \E i \in 1..Len(r) : p[i] = j

\* Vec::retain picks exactly the elements to be kept, in their order.
LEMMA RetainFacts ==
  ASSUME NEW S, NEW seq \in Seq(S), NEW kept
  PROVE  Retain(seq, kept) \in Seq(S) /\ \E p : Picks(seq, kept, Len(seq), Retain(seq, kept), p)
<1> DEFINE n == Len(seq)
           D == Seq(S)
           F(f) == [k \in 0..n |-> IF k = 0 THEN <<>>
                                   ELSE IF seq[k] \in kept THEN Append(f[k-1], seq[k]) ELSE f[k-1]]
           E(x) == IF seq[x[1]] \in kept THEN Append(x[2], seq[x[1]]) ELSE x[2]
           step == [x \in (1..n) \X D |-> E(x)]
           f0 == CHOOSE f : f = F(f)
<1>1. n \in Nat /\ \A k \in 1..n : seq[k] \in S
  BY LenProperties, ElementOfSeq
<1>2. Retain(seq, kept) = f0[n]
  BY DEF Retain
<1>3. <<>> \in D
  BY EmptySeq
<1> HIDE DEF n
<1>4. step \in [(1..n) \X D -> D]
  <2>1. ASSUME NEW x \in (1..n) \X D
        PROVE  (IF seq[x[1]] \in kept THEN Append(x[2], seq[x[1]]) ELSE x[2]) \in D
    <3>1. x[1] \in 1..n /\ x[2] \in D
      OBVIOUS
    <3>2. seq[x[1]] \in S
      BY <3>1, <1>1
    <3>3. Append(x[2], seq[x[1]]) \in D
      BY <3>1, <3>2, AppendProperties
    <3> QED BY <3>1, <3>3
  <2> QED BY <2>1
<1>5. PICK f \in [0..n -> D] : f[0] = <<>> /\ \A k \in 1..n : f[k] = step[<<k, f[k-1]>>]
  <2> HIDE DEF step, D
  <2>1. \E f : Iterated(D, n, step, <<>>, f)
    BY <1>1, <1>3, <1>4, Iterates
  <2> QED BY <2>1 DEF Iterated
<1>6. ASSUME NEW k \in 1..n PROVE f[k] = IF seq[k] \in kept THEN Append(f[k-1], seq[k]) ELSE f[k-1]
  <2> HIDE DEF D
  <2>1. k - 1 \in 0..n
    BY <1>1
  <2>2. <<k, f[k-1]>> \in (1..n) \X D
    BY <2>1
  <2>3. ASSUME NEW d, <<k, d>> \in (1..n) \X D
        PROVE  step[<<k, d>>] = IF seq[k] \in kept THEN Append(d, seq[k]) ELSE d
    <3>1. <<k, d>>[1] = k /\ <<k, d>>[2] = d
      OBVIOUS
    <3>2. step[<<k, d>>] = E(<<k, d>>)
      <4> HIDE DEF E
      <4> QED BY <2>3
    <3>3. E(<<k, d>>) = IF seq[k] \in kept THEN Append(d, seq[k]) ELSE d
      BY <3>1
    <3> QED BY <3>2, <3>3
  <2> HIDE DEF step
  <2> QED BY <2>2, <2>3, <1>5
<1>7. f = F(f)
  <2> HIDE DEF D
  <2>1. ASSUME NEW k \in 0..n
        PROVE f[k] = IF k = 0 THEN <<>> ELSE IF seq[k] \in kept THEN Append(f[k-1], seq[k]) ELSE f[k-1]
    <3>1. CASE k = 0
      BY <3>1, <1>5
    <3>2. CASE k # 0
      <4>1. k \in 1..n
        BY <3>2, <1>1
      <4> QED BY <4>1, <1>6, <3>2
    <3> QED BY <3>1, <3>2
  <2> QED BY <2>1
<1>8. f0 = F(f0)
  BY <1>7
<1> HIDE DEF f0
<1> DEFINE T == {k \in Nat : k <= n => f0[k] \in D /\ \E p : Picks(seq, kept, k, f0[k], p)}
<1>9. 0 \in T
  <2>1. f0[0] = <<>>
    BY <1>8, <1>1
  <2>2. Len(<<>>) = 0 /\ <<>> \in [1..0 -> 1..0]
    OBVIOUS
  <2>3. Picks(seq, kept, 0, <<>>, <<>>)
    BY <2>2 DEF Picks
  <2> QED BY <2>1, <2>3, <1>3
<1>10. ASSUME NEW k \in Nat, k \in T PROVE k + 1 \in T
  <2> SUFFICES ASSUME k + 1 <= n PROVE f0[k+1] \in D /\ \E p : Picks(seq, kept, k + 1, f0[k+1], p)
    OBVIOUS
  <2>1. k + 1 \in 1..n /\ k + 1 \in 0..n /\ k + 1 # 0 /\ (k + 1) - 1 = k
    BY <1>1
  <2>2. PICK p : f0[k] \in D /\ Picks(seq, kept, k, f0[k], p)
    BY <1>10, <1>1
  <2>3. f0[k+1] = IF seq[k+1] \in kept THEN Append(f0[k], seq[k+1]) ELSE f0[k]
    BY <2>1, <1>8
  <2>4. seq[k+1] \in S
    BY <2>1, <1>1
  <2> DEFINE m == Len(f0[k])
  <2>5. m \in Nat
    BY <2>2, LenProperties
  <2>6. /\ m <= k /\ p \in [1..m -> 1..k]
        /\ \A i \in 1..m : f0[k][i] = seq[p[i]] /\ seq[p[i]] \in kept
        /\ \A i, j \in 1..m : i < j => p[i] < p[j]
        /\ \A j \in 1..k : seq[j] \in kept => \E i \in 1..m : p[i] = j
    BY <2>2 DEF Picks
  <2>7. CASE seq[k+1] \notin kept
    <3>1. f0[k+1] = f0[k]
      BY <2>3, <2>7
    <3> HIDE DEF m
    <3>2. /\ m <= k + 1 /\ p \in [1..m -> 1..(k+1)]
          /\ \A j \in 1..(k+1) : seq[j] \in kept => \E i \in 1..m : p[i] = j
      <4>1. ASSUME NEW j \in 1..(k+1), seq[j] \in kept PROVE \E i \in 1..m : p[i] = j
        <5>1. j \in 1..k
          BY <4>1, <2>7
        <5> QED BY <5>1, <4>1, <2>6
      <4> QED BY <4>1, <2>5, <2>6
    <3>3. Picks(seq, kept, k + 1, f0[k], p)
      BY <3>2, <2>6 DEF Picks, m
    <3> QED BY <3>1, <3>3, <2>2
  <2>8. CASE seq[k+1] \in kept
    <3> DEFINE r == Append(f0[k], seq[k+1])
               q == [i \in 1..(m+1) |-> IF i = m + 1 THEN k + 1 ELSE p[i]]
    <3>1. f0[k+1] = r
      BY <2>3, <2>8
    <3>2. r \in D /\ Len(r) = m + 1 /\ r[m+1] = seq[k+1] /\ \A i \in 1..m : r[i] = f0[k][i]
      BY <2>2, <2>4, AppendProperties
    <3> HIDE DEF m, r
    <3>3. ASSUME NEW i \in 1..m PROVE q[i] = p[i] /\ i # m + 1 /\ q[i] \in 1..k
      <4>1. i \in 1..(m+1) /\ i # m + 1 /\ p[i] \in 1..k
        BY <2>5, <2>6
      <4> QED BY <4>1
    <3>4. q[m+1] = k + 1
      BY <2>5
    <3>5. q \in [1..(m+1) -> 1..(k+1)]
      <4>1. ASSUME NEW i \in 1..(m+1) PROVE q[i] \in 1..(k+1)
        <5>1. i = m + 1 \/ i \in 1..m
          BY <2>5
        <5>2. \A l \in 1..k : l \in 1..(k+1)
          OBVIOUS
        <5>3. k + 1 \in 1..(k+1)
          OBVIOUS
        <5> HIDE DEF q
        <5> QED BY <5>1, <5>2, <5>3, <3>3, <3>4
      <4>2. q = [i \in 1..(m+1) |-> q[i]]
        OBVIOUS
      <4> HIDE DEF q
      <4> QED BY <4>1, <4>2
    <3> HIDE DEF q
    <3>6. ASSUME NEW i \in 1..(m+1) PROVE r[i] = seq[q[i]] /\ seq[q[i]] \in kept
      <4>1. CASE i = m + 1
        BY <4>1, <3>2, <3>4, <2>8
      <4>2. CASE i # m + 1
        <5>1. i \in 1..m
          BY <4>2, <2>5
        <5> QED BY <5>1, <3>2, <3>3, <2>6
      <4> QED BY <4>1, <4>2
    <3>7. ASSUME NEW i \in 1..(m+1), NEW j \in 1..(m+1), i < j PROVE q[i] < q[j]
      <4>1. i \in 1..m
        BY <3>7, <2>5
      <4>2. CASE j = m + 1
        BY <4>1, <4>2, <3>3, <3>4
      <4>3. CASE j # m + 1
        <5>1. j \in 1..m
          BY <4>3, <2>5
        <5> QED BY <5>1, <4>1, <3>3, <3>7, <2>6
      <4> QED BY <4>2, <4>3
    <3>8. ASSUME NEW j \in 1..(k+1), seq[j] \in kept PROVE \E i \in 1..(m+1) : q[i] = j
      <4>1. CASE j = k + 1
        <5>1. m + 1 \in 1..(m+1)
          BY <2>5
        <5> QED BY <5>1, <4>1, <3>4
      <4>2. CASE j # k + 1
        <5>1. j \in 1..k
          BY <4>2
        <5>2. PICK i \in 1..m : p[i] = j
          BY <5>1, <3>8, <2>6
        <5>3. i \in 1..(m+1)
          BY <2>5
        <5> QED BY <5>2, <5>3, <3>3
      <4> QED BY <4>1, <4>2
    <3>9. m + 1 <= k + 1
      BY <2>5, <2>6
    <3>10. Picks(seq, kept, k + 1, r, q)
      BY <3>2, <3>5, <3>6, <3>7, <3>8, <3>9 DEF Picks
    <3> QED BY <3>1, <3>2, <3>10
  <2> QED BY <2>7, <2>8
<1> HIDE DEF T
<1>11. n \in T
  BY <1>9, <1>10, <1>1, Induct
<1>12. f0[n] \in D /\ \E p : Picks(seq, kept, n, f0[n], p)
  BY <1>11, <1>1 DEF T
<1> QED BY <1>2, <1>12 DEF n

\* Spans in ascending order that do not overlap and end by n; whether chunk x is
\* in one of them; whether each has a chunk.
Pairs == Nat \X Nat
\* Ascending spans up to n that do not overlap; what they cover; none is empty.
Ordered(s, n) ==
  /\ s \in Seq(Pairs)
  /\ \A k \in 1..Len(s) : s[k][1] <= s[k][2] /\ s[k][2] <= n
  /\ \A i, j \in 1..Len(s) : i < j => s[i][2] <= s[j][1]
Inside(s, x) == \E k \in 1..Len(s) : s[k][1] <= x /\ x < s[k][2]
Full(s) == \A k \in 1..Len(s) : s[k][1] < s[k][2]

\* The parts of a sequence of spans are what they look like.
LEMMA SpanFacts ==
  ASSUME NEW s \in Seq(Pairs)
  PROVE  /\ Len(s) \in Nat /\ DOMAIN s = 1..Len(s)
         /\ \A k \in 1..Len(s) : s[k] \in Pairs /\ s[k][1] \in Nat /\ s[k][2] \in Nat /\ s[k] = <<s[k][1], s[k][2]>>
<1>1. Len(s) \in Nat /\ DOMAIN s = 1..Len(s)
  BY LenProperties
<1>2. ASSUME NEW k \in 1..Len(s) PROVE s[k] \in Pairs
  BY ElementOfSeq
<1>3. ASSUME NEW r \in Pairs PROVE r[1] \in Nat /\ r[2] \in Nat /\ r = <<r[1], r[2]>>
  BY DEF Pairs
<1> QED BY <1>1, <1>2, <1>3

\* The chunks of a sequence of spans, by membership.
LEMMA CoveredIs ==
  ASSUME NEW s \in Seq(Pairs)
  PROVE  Covered(s) = {x \in Nat : Inside(s, x)}
<1> DEFINE n == Len(s)
<1>1. n \in Nat /\ DOMAIN s = 1..n /\ \A k \in 1..n : s[k][1] \in Nat /\ s[k][2] \in Nat
  BY SpanFacts
<1>2. Covered(s) = UNION {s[k][1]..(s[k][2] - 1) : k \in 1..n}
  BY <1>1 DEF Covered
<1>3. \A x : Inside(s, x) <=> \E k \in 1..n : s[k][1] <= x /\ x < s[k][2]
  BY DEF Inside
<1> HIDE DEF n
<1>4. ASSUME NEW x PROVE x \in Covered(s) <=> \E k \in 1..n : x \in s[k][1]..(s[k][2] - 1)
  BY <1>2
<1>5. ASSUME NEW k \in 1..n, NEW x PROVE x \in s[k][1]..(s[k][2] - 1) <=> x \in Nat /\ s[k][1] <= x /\ x < s[k][2]
  <2>1. PICK a \in Nat, b \in Nat : s[k][1] = a /\ s[k][2] = b
    BY <1>1
  <2>2. x \in a..(b - 1) <=> x \in Nat /\ a <= x /\ x < b
    OBVIOUS
  <2> QED BY <2>1, <2>2
<1> QED BY <1>3, <1>4, <1>5

\* Spans of disjoint chunks ask for as many as they stand for.
LEMMA AskedIs ==
  ASSUME NEW n \in Nat, NEW s, Ordered(s, n)
  PROVE  IsFiniteSet(Covered(s)) /\ Asked(s) = Cardinality(Covered(s))
<1> DEFINE m == Len(s)
           len == [k \in 1..m |-> s[k][2] - s[k][1]]
           C(k) == {x \in 0..(n-1) : \E j \in 1..k : s[j][1] <= x /\ x < s[j][2]}
           g == [k \in 0..m |-> Cardinality(C(k))]
<1>1. /\ s \in Seq(Pairs) /\ m \in Nat /\ DOMAIN s = 1..m
      /\ \A k \in 1..m : s[k][1] \in Nat /\ s[k][2] \in Nat /\ s[k][1] <= s[k][2] /\ s[k][2] <= n
      /\ \A i, j \in 1..m : i < j => s[i][2] <= s[j][1]
  BY SpanFacts DEF Ordered
<1>2. Asked(s) = Total(len)
  BY <1>1 DEF Asked
<1>3. Covered(s) = {x \in Nat : \E j \in 1..m : s[j][1] <= x /\ x < s[j][2]}
  BY <1>1, CoveredIs DEF Inside
<1> HIDE DEF m
<1>4. Covered(s) = C(m)
  <2>1. ASSUME NEW x \in Nat, NEW j \in 1..m, x < s[j][2] PROVE x \in 0..(n-1)
    <3>1. PICK b \in Nat : s[j][2] = b /\ b <= n
      BY <1>1
    <3> QED BY <2>1, <3>1
  <2>2. ASSUME NEW x \in 0..(n-1) PROVE x \in Nat
    OBVIOUS
  <2> QED BY <1>3, <2>1, <2>2
<1>5. ASSUME NEW k PROVE IsFiniteSet(C(k)) /\ Cardinality(C(k)) \in Nat
  <2>1. 0 \in Int /\ n - 1 \in Int
    OBVIOUS
  <2>2. IsFiniteSet(0..(n-1))
    BY <2>1, FS_Interval
  <2>3. C(k) \in SUBSET (0..(n-1))
    OBVIOUS
  <2> HIDE DEF C
  <2> QED BY <2>2, <2>3, FS_Subset, FS_CardinalityType
<1>6. g[0] = 0
  <2>1. C(0) = {}
    OBVIOUS
  <2>2. 0 \in 0..m
    BY <1>1
  <2> HIDE DEF C
  <2> QED BY <2>1, <2>2, FS_EmptySet
<1>7. ASSUME NEW k \in 1..m PROVE g[k] = g[k-1] + len[k]
  <2>1. PICK a \in Nat, b \in Nat : s[k][1] = a /\ s[k][2] = b /\ a <= b /\ b <= n
    BY <1>1
  <2> DEFINE A == C(k-1)
             B == a..(b-1)
  <2>2. C(k) = A \cup B
    <3>1. ASSUME NEW x \in C(k) PROVE x \in A \cup B
      <4>1. x \in 0..(n-1)
        OBVIOUS
      <4>2. PICK j \in 1..k : s[j][1] <= x /\ x < s[j][2]
        OBVIOUS
      <4>3. CASE j = k
        <5>1. a <= x /\ x < b
          BY <4>2, <4>3, <2>1
        <5> QED BY <5>1, <4>1
      <4>4. CASE j # k
        <5>1. j \in 1..(k-1)
          BY <4>4, <1>1
        <5> QED BY <5>1, <4>1, <4>2
      <4> QED BY <4>3, <4>4
    <3>2. ASSUME NEW x \in A PROVE x \in C(k)
      <4>1. x \in 0..(n-1)
        OBVIOUS
      <4>2. PICK j \in 1..(k-1) : s[j][1] <= x /\ x < s[j][2]
        OBVIOUS
      <4>3. j \in 1..k
        BY <1>1
      <4> QED BY <4>1, <4>2, <4>3
    <3>3. ASSUME NEW x \in B PROVE x \in C(k)
      <4>1. x \in 0..(n-1) /\ a <= x /\ x < b
        BY <2>1
      <4>2. k \in 1..k
        BY <1>1
      <4> QED BY <4>1, <4>2, <2>1
    <3> HIDE DEF C
    <3> QED BY <3>1, <3>2, <3>3
  <2>3. A \cap B = {}
    <3> SUFFICES ASSUME NEW x \in A, x \in B PROVE FALSE
      OBVIOUS
    <3>1. PICK j \in 1..(k-1) : x < s[j][2]
      OBVIOUS
    <3>2. j \in 1..m /\ j < k
      BY <1>1
    <3>3. s[j][2] <= a /\ s[j][2] \in Nat
      BY <3>2, <1>1, <2>1
    <3>4. a <= x /\ x \in Int
      BY <2>1
    <3> HIDE DEF A, B
    <3> QED BY <3>1, <3>3, <3>4, <2>1
  <2>4. IsFiniteSet(B) /\ Cardinality(B) = b - a
    <3>1. a \in Int /\ b - 1 \in Int
      BY <2>1
    <3>2. IsFiniteSet(a..(b-1)) /\ Cardinality(a..(b-1)) = IF a > b - 1 THEN 0 ELSE (b - 1) - a + 1
      BY <3>1, FS_Interval
    <3> QED BY <3>2, <2>1
  <2>5. IsFiniteSet(A) /\ Cardinality(A) \in Nat
    BY <1>5
  <2>6. Cardinality(A \cup B) = Cardinality(A) + (b - a)
    <3> HIDE DEF A, B
    <3>1. Cardinality(A \cup B) = Cardinality(A) + Cardinality(B) - Cardinality(A \cap B)
      BY <2>4, <2>5, FS_Union
    <3>2. Cardinality(A \cap B) = 0
      BY <2>3, FS_EmptySet
    <3> QED BY <3>1, <3>2, <2>1, <2>4, <2>5
  <2>7. k \in 0..m /\ k - 1 \in 0..m
    BY <1>1
  <2>8. g[k] = Cardinality(C(k)) /\ g[k-1] = Cardinality(A)
    <3> HIDE DEF C
    <3> QED BY <2>7
  <2>9. len[k] = b - a
    BY <2>1
  <2> HIDE DEF A, B, C, g, len
  <2> QED BY <2>2, <2>6, <2>8, <2>9
<1>8. g[m] = Cardinality(C(m))
  <2> HIDE DEF C
  <2>1. m \in 0..m
    BY <1>1
  <2> QED BY <2>1
<1>9. Len(len) = m
  BY <1>1
<1> HIDE DEF g, len, C
<1>10. Total(len) = g[m]
  BY <1>1, <1>6, <1>7, <1>9, TotalIs
<1> QED BY <1>2, <1>4, <1>5, <1>8, <1>10

\* The spans that are not empty stand for the same chunks.
LEMMA RetainSpans ==
  ASSUME NEW n \in Nat, NEW s, Ordered(s, n)
  PROVE  LET r == Retain(s, NonEmpty(s))
         IN  Ordered(r, n) /\ Full(r) /\ Len(r) <= Len(s) /\ \A x \in Nat : Inside(r, x) <=> Inside(s, x)
<1> DEFINE K == NonEmpty(s)
           r == Retain(s, K)
           m == Len(s)
           l == Len(r)
<1>1. /\ s \in Seq(Pairs) /\ m \in Nat /\ DOMAIN s = 1..m
      /\ \A k \in 1..m : s[k][1] \in Nat /\ s[k][2] \in Nat /\ s[k][1] <= s[k][2] /\ s[k][2] <= n
      /\ \A i, j \in 1..m : i < j => s[i][2] <= s[j][1]
  BY SpanFacts DEF Ordered
<1>2. ASSUME NEW k \in 1..m PROVE s[k] \in K <=> s[k][1] < s[k][2]
  BY <1>1 DEF NonEmpty, Range
<1>3. \A x : Inside(s, x) <=> \E k \in 1..m : s[k][1] <= x /\ x < s[k][2]
  BY DEF Inside
<1> HIDE DEF K
<1>4. PICK p : r \in Seq(Pairs) /\ Picks(s, K, m, r, p)
  BY <1>1, RetainFacts
<1>5. \A x : Inside(r, x) <=> \E k \in 1..l : r[k][1] <= x /\ x < r[k][2]
  BY DEF Inside
<1>6. /\ l <= m /\ p \in [1..l -> 1..m]
      /\ \A i \in 1..l : r[i] = s[p[i]] /\ s[p[i]] \in K
      /\ \A i, j \in 1..l : i < j => p[i] < p[j]
      /\ \A j \in 1..m : s[j] \in K => \E i \in 1..l : p[i] = j
  BY <1>4 DEF Picks
<1>7. l \in Nat
  BY <1>4, LenProperties
<1> HIDE DEF m, l, r
<1>8. ASSUME NEW i \in 1..l PROVE p[i] \in 1..m /\ r[i] = s[p[i]] /\ r[i][1] < r[i][2] /\ r[i][2] <= n /\ r[i][1] <= r[i][2]
  <2>1. p[i] \in 1..m /\ r[i] = s[p[i]] /\ s[p[i]] \in K
    BY <1>6
  <2>2. r[i][1] \in Nat /\ r[i][2] \in Nat /\ r[i][1] < r[i][2] /\ r[i][2] <= n
    BY <2>1, <1>1, <1>2
  <2> QED BY <2>1, <2>2
<1>9. ASSUME NEW i \in 1..l, NEW j \in 1..l, i < j PROVE r[i][2] <= r[j][1]
  <2>1. p[i] \in 1..m /\ p[j] \in 1..m /\ p[i] < p[j] /\ r[i] = s[p[i]] /\ r[j] = s[p[j]]
    BY <1>6, <1>8, <1>9
  <2> QED BY <2>1, <1>1
<1>10. Ordered(r, n) /\ Full(r)
  BY <1>4, <1>8, <1>9 DEF Ordered, Full, l
<1>11. ASSUME NEW x \in Nat PROVE Inside(r, x) <=> Inside(s, x)
  <2>1. ASSUME NEW i \in 1..l, r[i][1] <= x /\ x < r[i][2] PROVE Inside(s, x)
    BY <2>1, <1>8, <1>3
  <2>2. ASSUME NEW j \in 1..m, s[j][1] <= x /\ x < s[j][2] PROVE Inside(r, x)
    <3>1. s[j][1] < s[j][2]
      <4>1. PICK a \in Nat, b \in Nat : s[j][1] = a /\ s[j][2] = b
        BY <1>1
      <4> QED BY <2>2, <4>1
    <3>2. PICK i \in 1..l : p[i] = j
      BY <3>1, <1>2, <1>6
    <3>3. r[i] = s[j]
      BY <3>2, <1>8
    <3> QED BY <3>3, <2>2, <1>5
  <2> QED BY <2>1, <2>2, <1>3, <1>5
<1> QED BY <1>6, <1>10, <1>11 DEF m, l, r, K

\* One more chunk at the end.
LEMMA ExtendedFacts ==
  ASSUME NEW s \in Seq(Pairs), NEW i \in Nat
  PROVE  Extended(s, i) \in Seq(Pairs)
<1> DEFINE n == Len(s)
           e == <<i, i + 1>>
<1>1. e \in Pairs
  BY DEF Pairs
<1>2. n \in Nat /\ DOMAIN s = 1..n /\ \A k \in 1..n : s[k] \in Pairs /\ s[k][1] \in Nat /\ s[k][2] \in Nat
  BY SpanFacts
<1>3. Append(s, e) \in Seq(Pairs)
  BY <1>1, AppendProperties
<1>4. [s EXCEPT ![n] = <<@[1], i + 1>>] \in Seq(Pairs)
  <2>1. ASSUME n \in 1..n PROVE <<s[n][1], i + 1>> \in Pairs
    BY <2>1, <1>2 DEF Pairs
  <2>2. s \in [1..n -> Pairs]
    BY <1>2, LenProperties
  <2> DEFINE t == [s EXCEPT ![n] = <<@[1], i + 1>>]
  <2> HIDE DEF n
  <2>3. t \in [1..n -> Pairs]
    BY <2>1, <2>2, <1>2
  <2>4. [1..n -> Pairs] \subseteq Seq(Pairs)
    BY <1>2, SeqDef
  <2> QED BY <2>3, <2>4
<1> QED BY <1>3, <1>4 DEF Extended

\* One more chunk at the end keeps spans ordered and adds that chunk only.
LEMMA ExtendedSpans ==
  ASSUME NEW i \in Nat, NEW s, Ordered(s, i), Full(s)
  PROVE  LET t == Extended(s, i)
         IN  Ordered(t, i + 1) /\ Full(t) /\ \A x \in Nat : Inside(t, x) <=> Inside(s, x) \/ x = i
<1> DEFINE n == Len(s)
           t == Extended(s, i)
           m == Len(t)
<1>1. /\ s \in Seq(Pairs) /\ n \in Nat /\ DOMAIN s = 1..n
      /\ \A k \in 1..n : s[k][1] \in Nat /\ s[k][2] \in Nat /\ s[k][1] < s[k][2] /\ s[k][2] <= i
      /\ \A k, j \in 1..n : k < j => s[k][2] <= s[j][1]
  BY SpanFacts DEF Ordered, Full
<1>2. t \in Seq(Pairs)
  BY <1>1, ExtendedFacts
<1>3. \A x : Inside(s, x) <=> \E k \in 1..n : s[k][1] <= x /\ x < s[k][2]
  BY DEF Inside
<1>4. \A x : Inside(t, x) <=> \E k \in 1..m : t[k][1] <= x /\ x < t[k][2]
  BY DEF Inside
<1>5. CASE s # <<>> /\ Last(s)[2] = i
  <2>1. t = [s EXCEPT ![n] = <<@[1], i + 1>>] /\ s[n][2] = i
    BY <1>5 DEF Extended, Last
  <2>2. n >= 1
    BY <1>1, <1>5, EmptySeq
  <2>3. m = n
    BY <2>1, <1>1, <1>2, LenProperties
  <2> HIDE DEF m, n, t
  <2>a. PICK a \in Nat : s[n][1] = a /\ a < i
    BY <1>1, <2>1, <2>2
  <2>4. n \in 1..n /\ t[n] = <<a, i + 1>> /\ \A k \in 1..n : k # n => t[k] = s[k]
    BY <2>1, <2>2, <2>a, <1>1
  <2>b. t[n][1] = a /\ t[n][2] = i + 1
    BY <2>4
  <2>5. ASSUME NEW k \in 1..n PROVE t[k][1] < t[k][2] /\ t[k][1] <= t[k][2] /\ t[k][2] <= i + 1
    <3>1. CASE k = n
      BY <3>1, <2>b, <2>a
    <3>2. CASE k # n
      <4>1. PICK c \in Nat, d \in Nat : s[k][1] = c /\ s[k][2] = d /\ c < d /\ d <= i
        BY <1>1
      <4>2. t[k][1] = c /\ t[k][2] = d
        BY <4>1, <3>2, <2>4
      <4> QED BY <4>1, <4>2
    <3> QED BY <3>1, <3>2
  <2>6. ASSUME NEW k \in 1..n, NEW j \in 1..n, k < j PROVE t[k][2] <= t[j][1]
    <3>1. k # n
      BY <2>6, <1>1
    <3>2. t[k] = s[k] /\ s[k][2] <= s[j][1]
      BY <3>1, <2>4, <2>6, <1>1
    <3>3. t[j][1] = s[j][1]
      BY <2>a, <2>b, <2>4
    <3> QED BY <3>2, <3>3
  <2>7. ASSUME NEW x \in Nat PROVE Inside(t, x) <=> Inside(s, x) \/ x = i
    <3>1. ASSUME NEW k \in 1..n, t[k][1] <= x, x < t[k][2] PROVE Inside(s, x) \/ x = i
      <4>1. CASE k = n
        <5>1. a <= x /\ x < i + 1
          BY <3>1, <4>1, <2>b
        <5>2. x = i \/ (s[n][1] <= x /\ x < s[n][2])
          BY <5>1, <2>1, <2>a
        <5> QED BY <5>2, <2>4, <1>3
      <4>2. CASE k # n
        BY <4>2, <3>1, <2>4, <1>3
      <4> QED BY <4>1, <4>2
    <3>2. ASSUME x = i PROVE Inside(t, x)
      <4>1. t[n][1] <= x /\ x < t[n][2]
        BY <3>2, <2>a, <2>b
      <4> QED BY <4>1, <2>3, <2>4, <1>4
    <3>3. ASSUME NEW k \in 1..n, s[k][1] <= x, x < s[k][2] PROVE Inside(t, x)
      <4>1. CASE k = n
        <5>1. t[n][1] <= x /\ x < t[n][2]
          BY <3>3, <4>1, <2>a, <2>b, <2>1
        <5> QED BY <5>1, <2>3, <2>4, <1>4
      <4>2. CASE k # n
        BY <4>2, <3>3, <2>3, <2>4, <1>4
      <4> QED BY <4>1, <4>2
    <3> QED BY <3>1, <3>2, <3>3, <2>3, <1>3, <1>4
  <2>8. Ordered(t, i + 1) /\ Full(t)
    BY <1>2, <2>3, <2>5, <2>6 DEF Ordered, Full, m
  <2> QED BY <2>7, <2>8 DEF t
<1>6. CASE ~(s # <<>> /\ Last(s)[2] = i)
  <2> DEFINE e == <<i, i + 1>>
  <2>1. t = Append(s, e)
    BY <1>6 DEF Extended
  <2>2. e \in Pairs /\ e[1] = i /\ e[2] = i + 1
    BY DEF Pairs
  <2> HIDE DEF e
  <2>3. m = n + 1 /\ t[n+1] = e /\ \A k \in 1..n : t[k] = s[k]
    BY <2>1, <2>2, <1>1, AppendProperties
  <2> HIDE DEF m, n, t
  <2>4. ASSUME NEW k \in 1..m PROVE k = n + 1 \/ k \in 1..n
    BY <2>3, <1>1
  <2>5. ASSUME NEW k \in 1..n PROVE k \in 1..m /\ t[k] = s[k]
    BY <2>3, <1>1
  <2>6. n + 1 \in 1..m /\ t[n+1][1] = i /\ t[n+1][2] = i + 1
    BY <2>3, <2>2, <1>1
  <2>7. ASSUME NEW k \in 1..m PROVE t[k][1] < t[k][2] /\ t[k][1] <= t[k][2] /\ t[k][2] <= i + 1
    <3>1. CASE k = n + 1
      BY <3>1, <2>6
    <3>2. CASE k \in 1..n
      <4>1. PICK c \in Nat, d \in Nat : s[k][1] = c /\ s[k][2] = d /\ c < d /\ d <= i
        BY <3>2, <1>1
      <4>2. t[k][1] = c /\ t[k][2] = d
        BY <4>1, <3>2, <2>5
      <4> QED BY <4>1, <4>2
    <3> QED BY <3>1, <3>2, <2>4
  <2>8. ASSUME NEW k \in 1..m, NEW j \in 1..m, k < j PROVE t[k][2] <= t[j][1]
    <3>1. k \in 1..n
      BY <2>8, <2>3, <1>1
    <3>2. CASE j = n + 1
      BY <3>1, <3>2, <2>5, <2>6, <1>1
    <3>3. CASE j \in 1..n
      BY <3>1, <3>3, <2>5, <2>8, <1>1
    <3> QED BY <3>2, <3>3, <2>4
  <2>9. ASSUME NEW x \in Nat PROVE Inside(t, x) <=> Inside(s, x) \/ x = i
    <3>1. ASSUME NEW k \in 1..m, t[k][1] <= x, x < t[k][2] PROVE Inside(s, x) \/ x = i
      <4>1. CASE k = n + 1
        <5>1. i <= x /\ x < i + 1
          BY <3>1, <4>1, <2>6
        <5> QED BY <5>1
      <4>2. CASE k \in 1..n
        BY <4>2, <3>1, <2>5, <1>3
      <4> QED BY <4>1, <4>2, <2>4
    <3>2. ASSUME x = i PROVE Inside(t, x)
      <4>1. t[n+1][1] <= x /\ x < t[n+1][2]
        BY <3>2, <2>6
      <4> QED BY <4>1, <2>6, <1>4
    <3>3. ASSUME NEW k \in 1..n, s[k][1] <= x, x < s[k][2] PROVE Inside(t, x)
      BY <3>3, <2>5, <1>4
    <3> QED BY <3>1, <3>2, <3>3, <1>3, <1>4
  <2>10. Ordered(t, i + 1) /\ Full(t)
    BY <1>2, <2>7, <2>8 DEF Ordered, Full, m
  <2> QED BY <2>9, <2>10 DEF t
<1> QED BY <1>5, <1>6

\* missing_ranges finds the holes, all of them and nothing else.
LEMMA MissingFacts ==
  ASSUME NEW count \in Nat, NEW bits
  PROVE  LET s == MissingRanges(bits, count)
         IN  Ordered(s, count) /\ Full(s) /\ \A x \in Nat : Inside(s, x) <=> x < count /\ x \notin bits
<1> DEFINE D == Seq(Pairs)
           F(f) == [i \in 0..count |-> IF i = 0 THEN <<>>
                                       ELSE IF i - 1 \in bits THEN f[i-1] ELSE Extended(f[i-1], i - 1)]
           E(x) == IF x[1] - 1 \in bits THEN x[2] ELSE Extended(x[2], x[1] - 1)
           step == [x \in (1..count) \X D |-> E(x)]
           f0 == CHOOSE f : f = F(f)
<1>1. MissingRanges(bits, count) = f0[count]
  BY DEF MissingRanges
<1>2. <<>> \in D
  BY EmptySeq
<1>3. step \in [(1..count) \X D -> D]
  <2>1. ASSUME NEW x \in (1..count) \X D PROVE E(x) \in D
    <3>1. x[1] - 1 \in Nat /\ x[2] \in D
      OBVIOUS
    <3>2. Extended(x[2], x[1] - 1) \in D
      BY <3>1, ExtendedFacts
    <3> QED BY <3>1, <3>2
  <2> HIDE DEF E
  <2> QED BY <2>1
<1>4. PICK f \in [0..count -> D] : f[0] = <<>> /\ \A k \in 1..count : f[k] = step[<<k, f[k-1]>>]
  <2> HIDE DEF step, D
  <2>1. \E f : Iterated(D, count, step, <<>>, f)
    BY <1>2, <1>3, Iterates
  <2> QED BY <2>1 DEF Iterated
<1>5. ASSUME NEW k \in 1..count PROVE f[k] = IF k - 1 \in bits THEN f[k-1] ELSE Extended(f[k-1], k - 1)
  <2> HIDE DEF D
  <2>1. k - 1 \in 0..count
    OBVIOUS
  <2>2. <<k, f[k-1]>> \in (1..count) \X D
    BY <2>1
  <2>3. ASSUME NEW d, <<k, d>> \in (1..count) \X D
        PROVE  step[<<k, d>>] = IF k - 1 \in bits THEN d ELSE Extended(d, k - 1)
    <3>1. <<k, d>>[1] = k /\ <<k, d>>[2] = d
      OBVIOUS
    <3>2. step[<<k, d>>] = E(<<k, d>>)
      <4> HIDE DEF E
      <4> QED BY <2>3
    <3>3. E(<<k, d>>) = IF k - 1 \in bits THEN d ELSE Extended(d, k - 1)
      BY <3>1
    <3> QED BY <3>2, <3>3
  <2> HIDE DEF step
  <2> QED BY <2>2, <2>3, <1>4
<1>6. f = F(f)
  <2> HIDE DEF D
  <2>1. ASSUME NEW k \in 0..count
        PROVE f[k] = IF k = 0 THEN <<>> ELSE IF k - 1 \in bits THEN f[k-1] ELSE Extended(f[k-1], k - 1)
    <3>1. CASE k = 0
      BY <3>1, <1>4
    <3>2. CASE k # 0
      <4>1. k \in 1..count
        BY <3>2
      <4> QED BY <4>1, <1>5, <3>2
    <3> QED BY <3>1, <3>2
  <2> QED BY <2>1
<1>7. f0 = F(f0)
  BY <1>6
<1> HIDE DEF f0
<1> DEFINE Found(k) == /\ Ordered(f0[k], k) /\ Full(f0[k])
                       /\ \A x \in Nat : Inside(f0[k], x) <=> x < k /\ x \notin bits
           T == {k \in Nat : k <= count => Found(k)}
<1>8. Found(0)
  <2>1. f0[0] = <<>> /\ Len(<<>>) = 0
    BY <1>7
  <2>2. Ordered(<<>>, 0) /\ Full(<<>>) /\ \A x \in Nat : ~Inside(<<>>, x)
    BY <2>1, <1>2 DEF Ordered, Full, Inside
  <2> QED BY <2>1, <2>2
<1>9. ASSUME NEW k \in Nat, k + 1 <= count, Found(k) PROVE Found(k + 1)
  <2>1. k + 1 \in 0..count /\ k + 1 # 0 /\ (k + 1) - 1 = k
    BY <1>9
  <2>2. f0[k+1] = IF k \in bits THEN f0[k] ELSE Extended(f0[k], k)
    BY <2>1, <1>7
  <2>3. PICK s : s = f0[k]
    OBVIOUS
  <2>4. Ordered(s, k) /\ Full(s) /\ \A x \in Nat : Inside(s, x) <=> x < k /\ x \notin bits
    BY <1>9, <2>3
  <2>5. CASE k \in bits
    <3>1. f0[k+1] = s
      BY <2>2, <2>3, <2>5
    <3>2. Ordered(s, k + 1)
      <4> DEFINE n == Len(s)
      <4>1. /\ s \in Seq(Pairs)
            /\ \A l \in 1..n : s[l][1] \in Nat /\ s[l][2] \in Nat /\ s[l][1] <= s[l][2] /\ s[l][2] <= k
            /\ \A i, j \in 1..n : i < j => s[i][2] <= s[j][1]
        BY <2>4, SpanFacts DEF Ordered
      <4> HIDE DEF n
      <4>2. \A l \in 1..n : s[l][2] <= k + 1
        BY <4>1
      <4> QED BY <4>1, <4>2 DEF Ordered, n
    <3>3. ASSUME NEW x \in Nat PROVE Inside(s, x) <=> x < k + 1 /\ x \notin bits
      <4>1. x < k + 1 <=> x < k \/ x = k
        OBVIOUS
      <4> QED BY <4>1, <2>4, <2>5
    <3> QED BY <3>1, <3>2, <3>3, <2>4
  <2>6. CASE k \notin bits
    <3> DEFINE t == Extended(s, k)
    <3>1. f0[k+1] = t
      BY <2>2, <2>3, <2>6
    <3>2. Ordered(t, k + 1) /\ Full(t) /\ \A x \in Nat : Inside(t, x) <=> Inside(s, x) \/ x = k
      BY <2>4, ExtendedSpans
    <3> HIDE DEF t
    <3>3. ASSUME NEW x \in Nat PROVE Inside(t, x) <=> x < k + 1 /\ x \notin bits
      <4>1. x < k + 1 <=> x < k \/ x = k
        OBVIOUS
      <4> QED BY <4>1, <3>2, <2>4, <2>6
    <3> QED BY <3>1, <3>2, <3>3
  <2> QED BY <2>5, <2>6
<1> HIDE DEF Found
<1>10. 0 \in T
  BY <1>8
<1>11. ASSUME NEW k \in Nat, k \in T PROVE k + 1 \in T
  <2> SUFFICES ASSUME k + 1 <= count PROVE Found(k + 1)
    OBVIOUS
  <2>1. k <= count
    OBVIOUS
  <2> QED BY <2>1, <1>9, <1>11
<1> HIDE DEF T
<1>12. count \in T
  BY <1>10, <1>11, Induct
<1>13. Found(count)
  BY <1>12 DEF T
<1> QED BY <1>1, <1>13 DEF Found

\* The first spans, up to max of them.
LEMMA TruncatedFacts ==
  ASSUME NEW n \in Nat, NEW s, Ordered(s, n), Full(s), NEW max \in Nat, max >= 1
  PROVE  LET t == Truncated(s, max)
         IN  /\ Ordered(t, n) /\ Full(t) /\ Len(t) \in Nat /\ Len(t) <= max /\ Len(t) <= Len(s)
             /\ Len(s) >= 1 => Len(t) >= 1
             /\ \A k \in 1..Len(t) : t[k] = s[k]
<1> DEFINE l == Len(s)
           m == IF l < max THEN l ELSE max
           t == Truncated(s, max)
<1>1. /\ s \in Seq(Pairs) /\ l \in Nat
      /\ \A k \in 1..l : s[k][1] < s[k][2] /\ s[k][1] <= s[k][2] /\ s[k][2] <= n
      /\ \A i, j \in 1..l : i < j => s[i][2] <= s[j][1]
  BY SpanFacts DEF Ordered, Full
<1>2. t = SubSeq(s, 1, m)
  BY DEF Truncated
<1>3. m \in Nat /\ m <= l /\ m <= max /\ (l >= 1 => m >= 1) /\ 1 \in 1..(l+1) /\ m \in 0..l
  BY <1>1
<1> HIDE DEF m
<1>4. t \in Seq(Pairs) /\ Len(t) = m /\ \A k \in 1..m : t[k] = s[k]
  <2>1. SubSeq(s, 1, m) \in Seq(Pairs) /\ Len(SubSeq(s, 1, m)) = m /\ \A k \in 1..m : SubSeq(s, 1, m)[k] = s[k]
    <3>1. \A k \in 1..m : k \in 1..l
      BY <1>1, <1>3
    <3>2. Len(SubSeq(s, 1, m)) = IF 1 <= m THEN m - 1 + 1 ELSE 0
      BY <1>1, <1>3, SubSeqProperties
    <3>3. \A k \in 1..(m - 1 + 1) : SubSeq(s, 1, m)[k] = s[1 + k - 1]
      BY <1>1, <1>3, SubSeqProperties
    <3>4. SubSeq(s, 1, m) \in Seq(Pairs)
      BY <1>1, <1>3, SubSeqProperties
    <3> HIDE DEF l
    <3>5. m - 1 + 1 = m /\ \A k \in 1..m : 1 + k - 1 = k
      BY <1>3
    <3>6. (IF 1 <= m THEN m - 1 + 1 ELSE 0) = m
      BY <1>3
    <3> QED BY <3>2, <3>3, <3>4, <3>5, <3>6
  <2> QED BY <2>1, <1>2
<1> HIDE DEF t, l
<1>5. ASSUME NEW k \in 1..m PROVE k \in 1..l /\ t[k] = s[k]
  BY <1>1, <1>3, <1>4
<1>6. Ordered(t, n) /\ Full(t)
  BY <1>1, <1>4, <1>5 DEF Ordered, Full
<1> QED BY <1>3, <1>4, <1>6 DEF t, l

\* What the budget leaves of the spans t: sh, before the empty ones are dropped.
Shortened(t, n, b, sh) ==
  /\ Ordered(sh, n) /\ Len(sh) = Len(t) /\ Asked(sh) <= b
  /\ \A k \in 1..Len(t) : sh[k][1] = t[k][1] /\ sh[k][2] <= t[k][2]
  /\ Len(t) >= 1 => sh[1][1] < sh[1][2]
  /\ \A k \in 1..Len(t) : sh[k][1] < sh[k][2] => \A j \in 1..(k-1) : sh[j] = t[j]

\* The loop of fill_holes that spends the budget shortens spans at their ends.
LEMMA ClampFacts ==
  ASSUME NEW n \in Nat, NEW t, Ordered(t, n), Full(t), NEW b \in Nat, b >= 1
  PROVE  \E sh : Clamp(t, b) = Retain(sh, NonEmpty(sh)) /\ Shortened(t, n, b, sh)
<1> DEFINE m == Len(t)
           len(k) == t[k][2] - t[k][1]
           F(f) == [k \in 0..m |-> IF k = 0 THEN b
                                   ELSE IF len(k) < f[k-1] THEN f[k-1] - len(k) ELSE 0]
           E(x) == IF len(x[1]) < x[2] THEN x[2] - len(x[1]) ELSE 0
           step == [x \in (1..m) \X Nat |-> E(x)]
           f0 == CHOOSE f : f = F(f)
           sh == [k \in 1..m |-> <<t[k][1], t[k][1] + f0[k-1] - f0[k]>>]
<1>1. /\ t \in Seq(Pairs) /\ m \in Nat /\ DOMAIN t = 1..m
      /\ \A k \in 1..m : t[k] \in Pairs /\ t[k] = <<t[k][1], t[k][2]>>
      /\ \A k \in 1..m : t[k][1] \in Nat /\ t[k][2] \in Nat /\ t[k][1] < t[k][2] /\ t[k][2] <= n
      /\ \A i, j \in 1..m : i < j => t[i][2] <= t[j][1]
  BY SpanFacts DEF Ordered, Full
<1>2. Clamp(t, b) = Retain(sh, NonEmpty(sh))
  BY <1>1 DEF Clamp
<1> HIDE DEF m
<1>3. ASSUME NEW k \in 1..m PROVE len(k) \in Nat /\ len(k) >= 1 /\ t[k][2] = t[k][1] + len(k)
  <2>1. PICK c \in Nat, d \in Nat : t[k][1] = c /\ t[k][2] = d /\ c < d
    BY <1>1
  <2> QED BY <2>1
<1> HIDE DEF len
<1>4. step \in [(1..m) \X Nat -> Nat]
  <2>1. ASSUME NEW x \in (1..m) \X Nat PROVE E(x) \in Nat
    <3>1. x[1] \in 1..m /\ x[2] \in Nat
      OBVIOUS
    <3>2. len(x[1]) \in Nat
      BY <3>1, <1>3
    <3> QED BY <3>1, <3>2
  <2> HIDE DEF E
  <2> QED BY <2>1
<1>5. PICK f \in [0..m -> Nat] : f[0] = b /\ \A k \in 1..m : f[k] = step[<<k, f[k-1]>>]
  <2> HIDE DEF step
  <2>1. \E f : Iterated(Nat, m, step, b, f)
    BY <1>1, <1>4, Iterates
  <2> QED BY <2>1 DEF Iterated
<1>6. ASSUME NEW k \in 1..m PROVE f[k] = IF len(k) < f[k-1] THEN f[k-1] - len(k) ELSE 0
  <2>1. k - 1 \in 0..m
    BY <1>1
  <2>2. <<k, f[k-1]>> \in (1..m) \X Nat
    BY <2>1
  <2>3. ASSUME NEW d, <<k, d>> \in (1..m) \X Nat
        PROVE  step[<<k, d>>] = IF len(k) < d THEN d - len(k) ELSE 0
    <3>1. <<k, d>>[1] = k /\ <<k, d>>[2] = d
      OBVIOUS
    <3>2. step[<<k, d>>] = E(<<k, d>>)
      <4> HIDE DEF E
      <4> QED BY <2>3
    <3>3. E(<<k, d>>) = IF len(k) < d THEN d - len(k) ELSE 0
      BY <3>1
    <3> QED BY <3>2, <3>3
  <2> HIDE DEF step
  <2> QED BY <2>2, <2>3, <1>5
<1>7. f = F(f)
  <2>1. ASSUME NEW k \in 0..m
        PROVE f[k] = IF k = 0 THEN b ELSE IF len(k) < f[k-1] THEN f[k-1] - len(k) ELSE 0
    <3>1. CASE k = 0
      BY <3>1, <1>5
    <3>2. CASE k # 0
      <4>1. k \in 1..m
        BY <3>2, <1>1
      <4> QED BY <4>1, <1>6, <3>2
    <3> QED BY <3>1, <3>2
  <2> QED BY <2>1
<1>8. f0 = F(f0)
  BY <1>7
<1> HIDE DEF f0
\* The budget left over only shrinks, and what it shrinks by is taken.
<1>9. f0[0] = b /\ \A k \in 1..m : f0[k] = IF len(k) < f0[k-1] THEN f0[k-1] - len(k) ELSE 0
  <2>1. f0[0] = b
    BY <1>8, <1>1
  <2>2. ASSUME NEW k \in 1..m PROVE f0[k] = IF len(k) < f0[k-1] THEN f0[k-1] - len(k) ELSE 0
    <3>1. k \in 0..m /\ k # 0
      BY <1>1
    <3> QED BY <3>1, <1>8
  <2> QED BY <2>1, <2>2
<1> DEFINE T == {k \in Nat : k <= m => f0[k] \in Nat /\ f0[k] <= b /\ \A j \in 0..k : f0[j] \in Nat /\ f0[k] <= f0[j]}
<1>10. 0 \in T
  <2>1. \A j \in 0..0 : j = 0
    OBVIOUS
  <2> QED BY <2>1, <1>9
<1>11. ASSUME NEW k \in Nat, k \in T PROVE k + 1 \in T
  <2> SUFFICES ASSUME k + 1 <= m
               PROVE  f0[k+1] \in Nat /\ f0[k+1] <= b /\ \A j \in 0..(k+1) : f0[j] \in Nat /\ f0[k+1] <= f0[j]
    OBVIOUS
  <2>1. k + 1 \in 1..m /\ (k + 1) - 1 = k /\ k <= m
    BY <1>1
  <2>2. f0[k] \in Nat /\ f0[k] <= b /\ \A j \in 0..k : f0[j] \in Nat /\ f0[k] <= f0[j]
    BY <1>11, <2>1
  <2>3. f0[k+1] = IF len(k+1) < f0[k] THEN f0[k] - len(k+1) ELSE 0
    BY <1>9, <2>1
  <2>4. len(k+1) \in Nat
    BY <1>3, <2>1
  <2>5. f0[k+1] \in Nat /\ f0[k+1] <= f0[k]
    BY <2>2, <2>3, <2>4
  <2>6. ASSUME NEW j \in 0..(k+1) PROVE f0[j] \in Nat /\ f0[k+1] <= f0[j]
    <3>1. CASE j = k + 1
      BY <3>1, <2>5
    <3>2. CASE j # k + 1
      <4>1. j \in 0..k
        BY <3>2
      <4>2. f0[j] \in Nat /\ f0[k] <= f0[j]
        BY <4>1, <2>2
      <4> QED BY <4>2, <2>2, <2>5
    <3> QED BY <3>1, <3>2
  <2> QED BY <2>2, <2>5, <2>6
<1> HIDE DEF T
<1>12. \A k \in 0..m : f0[k] \in Nat /\ f0[k] <= b /\ \A j \in 0..k : f0[j] \in Nat /\ f0[k] <= f0[j]
  <2>1. Nat \subseteq T
    BY <1>10, <1>11, Induct
  <2> QED BY <2>1, <1>1 DEF T
<1>13. ASSUME NEW k \in 1..m
       PROVE  /\ f0[k-1] \in Nat /\ f0[k] \in Nat /\ f0[k] <= f0[k-1] /\ f0[k-1] - f0[k] <= len(k)
              /\ f0[k-1] >= 1 => f0[k] < f0[k-1]
              /\ f0[k] >= 1 => f0[k-1] - f0[k] = len(k)
  <2>1. k \in 0..m /\ k - 1 \in 0..m
    BY <1>1
  <2>2. f0[k-1] \in Nat /\ f0[k] = IF len(k) < f0[k-1] THEN f0[k-1] - len(k) ELSE 0
    BY <2>1, <1>9, <1>12
  <2>3. len(k) \in Nat /\ len(k) >= 1
    BY <1>3
  <2> QED BY <2>2, <2>3
<1>14. ASSUME NEW k \in 1..m
       PROVE  /\ sh[k] = <<t[k][1], t[k][1] + f0[k-1] - f0[k]>> /\ sh[k] \in Pairs
              /\ sh[k][1] = t[k][1] /\ sh[k][2] = t[k][1] + (f0[k-1] - f0[k])
              /\ sh[k][2] \in Nat /\ sh[k][1] <= sh[k][2] /\ sh[k][2] <= t[k][2] /\ sh[k][2] <= n
              /\ f0[k-1] >= 1 => sh[k][1] < sh[k][2]
              /\ f0[k] >= 1 => sh[k] = t[k]
              /\ sh[k][1] < sh[k][2] => f0[k-1] >= 1
  <2>1. PICK c \in Nat, d \in Nat : t[k][1] = c /\ t[k][2] = d /\ d <= n /\ t[k] = <<c, d>> /\ d = c + len(k)
    BY <1>1, <1>3
  <2>2. PICK u \in Nat, v \in Nat : f0[k-1] = u /\ f0[k] = v
    BY <1>13
  <2>3. PICK l \in Nat : l = len(k)
    BY <1>3
  <2>4. v <= u /\ u - v <= l /\ (u >= 1 => v < u) /\ (v >= 1 => u - v = l)
    BY <1>13, <2>2, <2>3
  <2>5. sh[k] = <<c, c + u - v>>
    BY <2>1, <2>2
  <2>6. c + u - v = c + (u - v) /\ c + (u - v) \in Nat /\ c <= c + (u - v) /\ c + (u - v) <= d
    BY <2>1, <2>3, <2>4
  <2>7. sh[k] = <<c, c + (u - v)>> /\ sh[k][1] = c /\ sh[k][2] = c + (u - v)
    BY <2>5, <2>6
  <2>8. sh[k] \in Pairs
    BY <2>6, <2>7 DEF Pairs
  <2>9. v >= 1 => c + (u - v) = d
    BY <2>1, <2>3, <2>4
  <2>10. u >= 1 => c < c + (u - v)
    BY <2>4
  <2>11. c < c + (u - v) => u >= 1
    OBVIOUS
  <2>12. c + (u - v) <= n
    BY <2>1, <2>6
  <2> HIDE DEF sh
  <2> QED BY <2>1, <2>2, <2>5, <2>6, <2>7, <2>8, <2>9, <2>10, <2>11, <2>12
<1>15. sh \in Seq(Pairs) /\ Len(sh) = m
  <2>1. ASSUME NEW k \in 1..m PROVE sh[k] \in Pairs
    BY <1>14
  <2>2. sh = [k \in 1..m |-> sh[k]]
    OBVIOUS
  <2> HIDE DEF sh
  <2>3. sh \in [1..m -> Pairs]
    BY <2>1, <2>2
  <2>4. [1..m -> Pairs] \subseteq Seq(Pairs)
    BY <1>1, SeqDef
  <2>5. DOMAIN sh = 1..m
    BY <2>3
  <2> QED BY <2>3, <2>4, <2>5, <1>1, LenProperties
<1> HIDE DEF sh
<1>16. ASSUME NEW i \in 1..m, NEW j \in 1..m, i < j PROVE sh[i][2] <= sh[j][1]
  <2>1. t[i][2] <= t[j][1] /\ t[i][2] \in Nat /\ t[j][1] \in Nat
    BY <1>1, <1>16
  <2>2. sh[i][2] \in Nat /\ sh[i][2] <= t[i][2] /\ sh[j][1] = t[j][1]
    BY <1>14
  <2> QED BY <2>1, <2>2
<1>17. Ordered(sh, n)
  BY <1>14, <1>15, <1>16 DEF Ordered
<1>18. Asked(sh) <= b
  <2> DEFINE c == [k \in 1..m |-> sh[k][2] - sh[k][1]]
             g == [k \in 0..m |-> b - f0[k]]
  <2>1. DOMAIN sh = 1..m
    BY <1>15, LenProperties
  <2>2. Asked(sh) = Total(c)
    BY <2>1 DEF Asked
  <2>3. Len(c) = m
    BY <1>1
  <2>4. g[0] = 0
    <3>1. 0 \in 0..m
      BY <1>1
    <3>2. g[0] = b - f0[0]
      BY <3>1
    <3> HIDE DEF g
    <3> QED BY <3>2, <1>9
  <2>5. ASSUME NEW k \in 1..m PROVE g[k] = g[k-1] + c[k]
    <3>1. k \in 0..m /\ k - 1 \in 0..m
      BY <1>1
    <3>2. g[k] = b - f0[k] /\ g[k-1] = b - f0[k-1] /\ c[k] = sh[k][2] - sh[k][1]
      BY <3>1
    <3>3. PICK u \in Nat, v \in Nat, a \in Nat : f0[k-1] = u /\ f0[k] = v /\ t[k][1] = a
      BY <1>13, <1>1
    <3>4. sh[k][1] = a /\ sh[k][2] = a + (u - v)
      BY <1>14, <3>3
    <3> HIDE DEF g, c
    <3> QED BY <3>2, <3>3, <3>4
  <2>6. g[m] = b - f0[m] /\ f0[m] \in Nat
    BY <1>1, <1>12
  <2> HIDE DEF g, c
  <2>7. Total(c) = g[m]
    <3>1. m \in Nat /\ \A k \in 1..m : g[k] = g[k-1] + c[k]
      BY <2>5, <1>1
    <3> QED BY <2>3, <2>4, <3>1, TotalIs
  <2> QED BY <2>2, <2>6, <2>7
<1>19. m >= 1 => sh[1][1] < sh[1][2]
  <2> SUFFICES ASSUME m >= 1 PROVE sh[1][1] < sh[1][2]
    OBVIOUS
  <2>1. 1 \in 1..m /\ 1 - 1 = 0
    BY <1>1
  <2> QED BY <2>1, <1>9, <1>14
<1>20. ASSUME NEW k \in 1..m, sh[k][1] < sh[k][2], NEW j \in 1..(k-1) PROVE sh[j] = t[j]
  <2>1. j \in 1..m /\ k - 1 \in 0..m /\ j \in 0..(k-1)
    BY <1>1
  <2>2. f0[k-1] >= 1 /\ f0[k-1] \in Nat
    BY <1>14, <1>20, <1>13
  <2>3. f0[j] \in Nat /\ f0[k-1] <= f0[j]
    BY <2>1, <1>12
  <2>4. f0[j] >= 1
    BY <2>2, <2>3
  <2> QED BY <2>1, <2>4, <1>14
<1>21. Shortened(t, n, b, sh)
  BY <1>14, <1>15, <1>17, <1>18, <1>19, <1>20 DEF Shortened, m
<1> QED BY <1>2, <1>21

\* What is written is read back, without the empty spans.
LEMMA WordsFacts ==
  ASSUME NEW n \in Nat, NEW h, Ordered(h, n)
  PROVE  LET words == FormatRanges(h)
             full  == Retain(h, NonEmpty(h))
         IN  DOMAIN words = 1..Len(full) /\ Len(words) = Len(full) /\ ParseRanges(words) = full
<1> DEFINE full == Retain(h, NonEmpty(h))
           W(r) == IF r[2] = r[1] + 1 THEN <<r[1]>> ELSE r
           words == [k \in DOMAIN full |-> W(full[k])]
           m == Len(full)
<1>1. FormatRanges(h) = words
  BY DEF FormatRanges
<1>2. full \in Seq(Pairs)
  BY RetainSpans DEF Ordered
<1> HIDE DEF full
<1>3. m \in Nat /\ DOMAIN full = 1..m /\ full = [k \in 1..m |-> full[k]] /\ \A k \in 1..m : full[k] \in Pairs
  BY <1>2, SpanFacts, LenProperties
<1> HIDE DEF m
<1>4. ASSUME NEW r \in Pairs PROVE WordSpan(W(r)) = r
  <2>1. PICK c \in Nat, d \in Nat : r = <<c, d>>
    BY DEF Pairs
  <2>2. r[1] = c /\ r[2] = d /\ Len(r) = 2 /\ Len(<<c>>) = 1 /\ <<c>>[1] = c
    BY <2>1
  <2>3. CASE d = c + 1
    BY <2>1, <2>2, <2>3 DEF WordSpan
  <2>4. CASE d # c + 1
    BY <2>1, <2>2, <2>4 DEF WordSpan
  <2> QED BY <2>3, <2>4
<1> HIDE DEF W
<1>5. DOMAIN words = 1..m /\ Len(words) = m
  BY <1>3
<1>6. ParseRanges(words) = [k \in 1..m |-> WordSpan(W(full[k]))]
  BY <1>3 DEF ParseRanges
<1>7. ParseRanges(words) = full
  BY <1>3, <1>4, <1>6
<1> HIDE DEF words
<1> QED BY <1>1, <1>5, <1>7 DEF full, m

\* The request for the missing chunks of a blob of n, under a budget of b.
LEMMA RequestFacts ==
  ASSUME NEW n \in Nat, NEW missing, missing \subseteq 0..(n-1), missing # {},
         NEW b \in Nat, b >= 1, NEW cap \in Nat, b <= cap
  PROVE  LET words == FormatRanges(Holes((0..(n-1)) \ missing, n, b))
             asked == Covered(ParseRanges(words))
         IN  /\ Accepts(words, n, cap)
             /\ asked # {} /\ asked \subseteq missing
             /\ Cardinality(asked) \in Nat /\ Cardinality(asked) <= b
             /\ \A i \in asked, j \in missing : j < i => j \in asked
<1> DEFINE bits  == (0..(n-1)) \ missing
           s     == MissingRanges(bits, n)
           t     == Truncated(s, MaxSpans)
           h     == Clamp(t, b)
           full  == Retain(h, NonEmpty(h))
           words == FormatRanges(h)
<1>1. Holes(bits, n, b) = h
  BY DEF Holes
<1>2. Ordered(s, n) /\ Full(s) /\ \A x \in Nat : Inside(s, x) <=> x < n /\ x \notin bits
  BY MissingFacts
<1>3. \A x \in Nat : Inside(s, x) <=> x \in missing
  <2>1. ASSUME NEW x \in Nat PROVE x < n /\ x \notin bits <=> x \in missing
    BY DEF bits
  <2> HIDE DEF s, bits
  <2> QED BY <2>1, <1>2
<1> HIDE DEF s, bits
<1>4. /\ Ordered(t, n) /\ Full(t) /\ Len(t) \in Nat /\ Len(t) <= MaxSpans /\ Len(t) <= Len(s)
      /\ Len(s) >= 1 => Len(t) >= 1
      /\ \A k \in 1..Len(t) : t[k] = s[k]
  <2>1. MaxSpans \in Nat /\ MaxSpans >= 1
    BY SpanAssumption
  <2> QED BY <1>2, <2>1, TruncatedFacts
<1> HIDE DEF t
<1>5. PICK sh : h = Retain(sh, NonEmpty(sh)) /\ Shortened(t, n, b, sh)
  BY <1>4, ClampFacts
<1> HIDE DEF h
<1> DEFINE l == Len(s)
           m == Len(t)
<1>6. /\ Ordered(sh, n) /\ Len(sh) = m /\ Asked(sh) <= b
      /\ \A k \in 1..m : sh[k][1] = t[k][1] /\ sh[k][2] <= t[k][2]
      /\ m >= 1 => sh[1][1] < sh[1][2]
      /\ \A k \in 1..m : sh[k][1] < sh[k][2] => \A j \in 1..(k-1) : sh[j] = t[j]
  BY <1>5 DEF Shortened
<1>7. Ordered(h, n) /\ Full(h) /\ Len(h) <= Len(sh) /\ \A x \in Nat : Inside(h, x) <=> Inside(sh, x)
  BY <1>5, <1>6, RetainSpans
<1>8. Ordered(full, n) /\ Full(full) /\ Len(full) <= Len(h) /\ \A x \in Nat : Inside(full, x) <=> Inside(h, x)
  BY <1>7, RetainSpans
<1>9. DOMAIN words = 1..Len(full) /\ Len(words) = Len(full) /\ ParseRanges(words) = full
  BY <1>7, WordsFacts
<1> HIDE DEF full, words
<1> DEFINE f == Len(full)
           asked == Covered(full)
<1>10. asked = {x \in Nat : Inside(sh, x)}
  <2>1. asked = {x \in Nat : Inside(full, x)}
    BY <1>8, CoveredIs DEF Ordered
  <2> HIDE DEF asked
  <2> QED BY <2>1, <1>7, <1>8
<1>11. Covered(sh) = {x \in Nat : Inside(sh, x)}
  BY <1>6, CoveredIs DEF Ordered
<1>12. IsFiniteSet(asked) /\ Asked(full) = Cardinality(asked) /\ Cardinality(asked) <= b
  <2>1. IsFiniteSet(asked) /\ Asked(full) = Cardinality(asked)
    BY <1>8, AskedIs
  <2>2. Asked(sh) = Cardinality(Covered(sh))
    BY <1>6, AskedIs
  <2>3. asked = Covered(sh)
    BY <1>10, <1>11
  <2> HIDE DEF asked
  <2> QED BY <2>1, <2>2, <2>3, <1>6
<1>a. Cardinality(asked) \in Nat
  BY <1>12, FS_CardinalityType
<1>13. /\ l \in Nat /\ m \in Nat /\ f \in Nat /\ m <= l /\ f <= MaxSpans /\ MaxSpans \in Nat
       /\ (l >= 1 => m >= 1)
  <2> DEFINE hl == Len(h)
             q == Len(sh)
  <2>1. l \in Nat /\ m \in Nat /\ f \in Nat /\ hl \in Nat
    BY <1>2, <1>4, <1>7, <1>8, SpanFacts DEF Ordered
  <2>2. f <= hl /\ hl <= q /\ q = m /\ m <= MaxSpans /\ m <= l /\ (l >= 1 => m >= 1)
    BY <1>4, <1>6, <1>7, <1>8
  <2>3. MaxSpans \in Nat
    BY SpanAssumption
  <2> HIDE DEF l, m, f, hl, q
  <2> QED BY <2>1, <2>2, <2>3
<1>14. /\ \A k \in 1..l : s[k][1] \in Nat /\ s[k][2] \in Nat /\ s[k][1] < s[k][2]
       /\ \A i, j \in 1..l : i < j => s[i][2] <= s[j][1]
  BY <1>2, SpanFacts DEF Ordered, Full
<1>15. /\ \A k \in 1..m : sh[k][1] \in Nat /\ sh[k][2] \in Nat
       /\ \A k \in 1..m : t[k] = s[k]
  BY <1>4, <1>6, SpanFacts DEF Ordered
<1>16. \A x : Inside(sh, x) <=> \E k \in 1..m : sh[k][1] <= x /\ x < sh[k][2]
  BY <1>6 DEF Inside
<1>17. \A x : Inside(s, x) <=> \E k \in 1..l : s[k][1] <= x /\ x < s[k][2]
  BY DEF Inside
<1>18. /\ \A k \in 1..f : full[k][1] < full[k][2] /\ full[k][2] <= n
       /\ \A i, j \in 1..f : i < j => full[i][2] <= full[j][1]
       /\ \A k \in 1..f : full[k][1] \in Nat /\ full[k][2] \in Nat
  BY <1>8, SpanFacts DEF Ordered, Full
<1>b. \A x : Inside(full, x) => \E k \in 1..f : full[k][1] <= x /\ x < full[k][2]
  BY DEF Inside
<1>19. asked \subseteq missing
  <2> SUFFICES ASSUME NEW x \in asked PROVE x \in missing
    OBVIOUS
  <2> HIDE DEF asked, l, m, f
  <2>1. x \in Nat
    BY <1>10
  <2>2. PICK k \in 1..m : sh[k][1] <= x /\ x < sh[k][2]
    BY <1>10, <1>16
  <2>3. k \in 1..l /\ sh[k][1] = s[k][1] /\ sh[k][2] <= s[k][2] /\ sh[k][2] \in Nat /\ s[k][2] \in Nat
    <3>1. k \in 1..l
      BY <1>13
    <3>2. sh[k][1] = t[k][1] /\ sh[k][2] <= t[k][2] /\ t[k] = s[k] /\ sh[k][2] \in Nat
      BY <1>6, <1>15, Zenon
    <3>3. s[k][2] \in Nat
      BY <1>14, <3>1, Zenon
    <3> QED BY <3>1, <3>2, <3>3
  <2>4. s[k][1] <= x /\ x < s[k][2]
    BY <2>1, <2>2, <2>3
  <2> QED BY <2>1, <2>3, <2>4, <1>3, <1>17
<1>20. asked # {}
  <2> HIDE DEF asked, l, m, f
  <2>1. PICK x \in missing : x \in Nat
    <3>1. PICK y : y \in missing
      OBVIOUS
    <3>2. y \in 0..(n-1)
      BY <3>1
    <3> QED BY <3>1, <3>2
  <2>2. PICK k \in 1..l : s[k][1] <= x
    BY <2>1, <1>3, <1>17
  <2>3. 1 \in 1..m
    BY <2>2, <1>13
  <2>4. PICK c \in Nat, d \in Nat : sh[1][1] = c /\ sh[1][2] = d /\ c < d
    BY <2>3, <1>6, <1>15, <1>13
  <2>5. Inside(sh, c)
    <3>1. sh[1][1] <= c /\ c < sh[1][2]
      BY <2>4
    <3> QED BY <3>1, <2>3, <1>16
  <2> QED BY <2>4, <2>5, <1>10
<1>21. ASSUME NEW i \in asked, NEW j \in missing, j < i PROVE j \in asked
  <2> HIDE DEF asked, l, m, f
  <2>1. i \in Nat /\ j \in Nat
    BY <1>10
  <2>2. PICK k \in 1..m : sh[k][1] <= i /\ i < sh[k][2]
    BY <1>10, <1>16
  <2>3. PICK q \in 1..l : s[q][1] <= j /\ j < s[q][2]
    BY <2>1, <1>3, <1>17
  <2>4. PICK c \in Nat, d \in Nat, e \in Nat : sh[k][1] = c /\ sh[k][2] = d /\ s[k][2] = e /\ d <= e /\ s[k][1] = c /\ k \in 1..l
    <3>1. k \in 1..l
      BY <1>13
    <3>2. sh[k][1] = s[k][1] /\ sh[k][2] <= s[k][2]
      BY <1>6, <1>15
    <3>3. sh[k][1] \in Nat /\ sh[k][2] \in Nat /\ s[k][2] \in Nat
      BY <3>1, <1>14, <1>15
    <3> QED BY <3>1, <3>2, <3>3
  <2>5. PICK u \in Nat, v \in Nat : s[q][1] = u /\ s[q][2] = v
    BY <1>14
  <2>6. ~(k < q)
    <3> SUFFICES ASSUME k < q PROVE FALSE
      OBVIOUS
    <3>1. e <= u
      BY <1>14, <2>4, <2>5
    <3> QED BY <3>1, <1>21, <2>1, <2>2, <2>3, <2>4, <2>5
  <2>7. CASE q = k
    <3>1. sh[k][1] <= j /\ j < sh[k][2]
      BY <2>7, <1>21, <2>1, <2>2, <2>3, <2>4
    <3> QED BY <3>1, <2>1, <1>10, <1>16
  <2>8. CASE q < k
    <3>1. q \in 1..(k-1) /\ q \in 1..m
      BY <2>8, <1>13
    <3>2. sh[k][1] < sh[k][2]
      BY <2>1, <2>2, <2>4
    <3>3. sh[q] = t[q] /\ t[q] = s[q]
      BY <3>1, <3>2, <1>6, <1>15
    <3> QED BY <3>1, <3>3, <2>1, <2>3, <1>10, <1>16
  <2> QED BY <2>6, <2>7, <2>8, <1>13
<1>22. Accepts(words, n, cap)
  <2>1. f >= 1
    <3>1. PICK x : x \in asked
      BY <1>20
    <3>2. asked = {y \in Nat : Inside(full, y)}
      BY <1>8, CoveredIs DEF Ordered
    <3> HIDE DEF asked, f
    <3>3. \E k \in 1..f : full[k][1] <= x
      BY <3>1, <3>2, <1>b
    <3> QED BY <3>3, <1>13
  <2>2. words # <<>>
    <3>1. Len(words) = f
      BY <1>9
    <3> HIDE DEF f
    <3> QED BY <3>1, <2>1
  <2>3. [k \in DOMAIN words |-> WordSpan(words[k])] = full
    BY <1>9 DEF ParseRanges
  <2>4. Asked(full) <= cap
    BY <1>12, <1>a
  <2>5. ASSUME NEW k \in 1..f PROVE full[k][1] < full[k][2] /\ full[k][2] <= n /\ (k > 1 => full[k][1] >= full[k-1][2])
    <3> HIDE DEF f
    <3>1. full[k][1] < full[k][2] /\ full[k][2] <= n
      BY <1>18
    <3>2. ASSUME k > 1 PROVE full[k][1] >= full[k-1][2]
      <4>1. k - 1 \in 1..f /\ k - 1 < k
        BY <3>2, <1>13
      <4>2. full[k-1][2] <= full[k][1] /\ full[k-1][2] \in Nat /\ full[k][1] \in Nat
        BY <4>1, <1>18
      <4> QED BY <4>2
    <3> QED BY <3>1, <3>2
  <2>6. DOMAIN full = 1..f /\ Len(words) = f /\ f <= MaxSpans
    BY <1>8, <1>9, <1>13, SpanFacts DEF Ordered
  <2> HIDE DEF f
  <2> QED BY <2>2, <2>3, <2>4, <2>5, <2>6 DEF Accepts
<1> QED BY <1>1, <1>9, <1>12, <1>a, <1>19, <1>20, <1>21, <1>22 DEF words, bits

-----------------------------------------------------------------------------
(* The request for a list of chunks. *)

\* A list in ascending order, without repetition.
Ascending(a) == \A i, j \in 1..Len(a) : i < j => a[i] < a[j]

\* A later end is an end as well.
LEMMA OrderedUpTo ==
  ASSUME NEW n \in Nat, NEW m \in Nat, n <= m, NEW s, Ordered(s, n)
  PROVE  Ordered(s, m)
<1> DEFINE l == Len(s)
<1>1. /\ s \in Seq(Pairs)
      /\ \A k \in 1..l : s[k][1] \in Nat /\ s[k][2] \in Nat /\ s[k][1] <= s[k][2] /\ s[k][2] <= n
      /\ \A i, j \in 1..l : i < j => s[i][2] <= s[j][1]
  BY SpanFacts DEF Ordered
<1> HIDE DEF l
<1>2. \A k \in 1..l : s[k][2] <= m
  BY <1>1
<1> QED BY <1>1, <1>2 DEF Ordered, l

\* coalesce: an ascending list becomes spans of chunks of the list.
LEMMA CoalesceFacts ==
  ASSUME NEW n \in Nat, NEW a \in Seq(0..(n-1)), Len(a) >= 1, Ascending(a)
  PROVE  LET t == Coalesce(a)
         IN  /\ Ordered(t, n) /\ Full(t) /\ Len(t) \in 1..MaxSpans
             /\ \A x \in Nat : Inside(t, x) => \E k \in 1..Len(a) : a[k] = x
<1> DEFINE l == Len(a)
           D == Seq(Pairs)
           F(f) == [k \in 0..l |-> IF k = 0 THEN <<>> ELSE Extended(f[k-1], a[k])]
           E(x) == Extended(x[2], a[x[1]])
           step == [x \in (1..l) \X D |-> E(x)]
           f0 == CHOOSE f : f = F(f)
<1>1. Coalesce(a) = Truncated(f0[l], MaxSpans)
  BY DEF Coalesce
<1>2. <<>> \in D
  BY EmptySeq
<1>a. l \in Nat /\ l >= 1 /\ \A k \in 1..l : a[k] \in 0..(n-1) /\ a[k] \in Nat
  <2>1. l \in Nat
    BY LenProperties
  <2>2. \A k \in 1..l : a[k] \in 0..(n-1)
    BY ElementOfSeq
  <2> HIDE DEF l
  <2>3. \A y \in 0..(n-1) : y \in Nat
    OBVIOUS
  <2> QED BY <2>1, <2>2, <2>3 DEF l
<1>b. \A i, j \in 1..l : i < j => a[i] < a[j]
  BY DEF Ascending
<1> HIDE DEF l
<1>3. step \in [(1..l) \X D -> D]
  <2>1. ASSUME NEW x \in (1..l) \X D PROVE E(x) \in D
    <3>1. a[x[1]] \in Nat /\ x[2] \in D
      BY <1>a
    <3> QED BY <3>1, ExtendedFacts
  <2> HIDE DEF E
  <2> QED BY <2>1
<1>4. PICK f \in [0..l -> D] : f[0] = <<>> /\ \A k \in 1..l : f[k] = step[<<k, f[k-1]>>]
  <2> HIDE DEF step, D
  <2>1. \E f : Iterated(D, l, step, <<>>, f)
    BY <1>2, <1>3, <1>a, Iterates
  <2> QED BY <2>1 DEF Iterated
<1>5. ASSUME NEW k \in 1..l PROVE f[k] = Extended(f[k-1], a[k])
  <2> HIDE DEF D
  <2>1. k - 1 \in 0..l
    BY <1>a
  <2>2. <<k, f[k-1]>> \in (1..l) \X D
    BY <2>1
  <2>3. ASSUME NEW d, <<k, d>> \in (1..l) \X D PROVE step[<<k, d>>] = Extended(d, a[k])
    <3>1. <<k, d>>[1] = k /\ <<k, d>>[2] = d
      OBVIOUS
    <3>2. step[<<k, d>>] = E(<<k, d>>)
      <4> HIDE DEF E
      <4> QED BY <2>3
    <3> QED BY <3>1, <3>2
  <2> HIDE DEF step
  <2> QED BY <2>2, <2>3, <1>4
<1>6. f = F(f)
  <2> HIDE DEF D
  <2>1. ASSUME NEW k \in 0..l PROVE f[k] = IF k = 0 THEN <<>> ELSE Extended(f[k-1], a[k])
    <3>1. CASE k = 0
      BY <3>1, <1>4
    <3>2. CASE k # 0
      <4>1. k \in 1..l
        BY <3>2, <1>a
      <4> QED BY <4>1, <1>5, <3>2
    <3> QED BY <3>1, <3>2
  <2> QED BY <2>1
<1>7. f0 = F(f0)
  BY <1>6
<1> HIDE DEF f0
<1> DEFINE End(k) == IF k = 0 THEN 0 ELSE a[k] + 1
           Found(k) == /\ Ordered(f0[k], End(k)) /\ Full(f0[k])
                       /\ \A x \in Nat : Inside(f0[k], x) <=> \E j \in 1..k : a[j] = x
           T == {k \in Nat : k <= l => Found(k)}
<1>8. Found(0)
  <2>1. f0[0] = <<>> /\ Len(<<>>) = 0
    BY <1>7, <1>a
  <2>2. Ordered(<<>>, 0) /\ Full(<<>>) /\ \A x \in Nat : ~Inside(<<>>, x)
    BY <2>1, <1>2 DEF Ordered, Full, Inside
  <2> QED BY <2>1, <2>2
<1>9. ASSUME NEW k \in Nat, k + 1 <= l, Found(k) PROVE Found(k + 1)
  <2>1. k + 1 \in 0..l /\ k + 1 # 0 /\ (k + 1) - 1 = k /\ k + 1 \in 1..l
    BY <1>9, <1>a
  <2>2. f0[k+1] = Extended(f0[k], a[k+1])
    BY <2>1, <1>7
  <2>a. PICK i \in Nat : i = a[k+1]
    BY <2>1, <1>a
  <2>3. PICK s : s = f0[k] /\ i = a[k+1]
    BY <2>a
  <2>4. End(k) \in Nat /\ End(k) <= i
    <3>1. CASE k = 0
      BY <3>1, <2>3
    <3>2. CASE k # 0
      <4>1. k \in 1..l /\ k < k + 1
        BY <3>2, <2>1, <1>a
      <4>2. a[k] < i /\ a[k] \in Nat
        BY <4>1, <2>1, <2>3, <1>a, <1>b
      <4> QED BY <4>2, <3>2, <2>3
    <3> QED BY <3>1, <3>2
  <2>5. Ordered(s, End(k)) /\ Full(s) /\ \A x \in Nat : Inside(s, x) <=> \E j \in 1..k : a[j] = x
    BY <1>9, <2>3
  <2>6. End(k + 1) = i + 1
    BY <2>1, <2>3
  <2> HIDE DEF End
  <2>7. Ordered(s, i)
    BY <2>4, <2>5, OrderedUpTo
  <2> DEFINE t == Extended(s, i)
  <2>8. Ordered(t, i + 1) /\ Full(t) /\ \A x \in Nat : Inside(t, x) <=> Inside(s, x) \/ x = i
    BY <2>5, <2>7, ExtendedSpans
  <2>9. f0[k+1] = t
    BY <2>2, <2>3
  <2> HIDE DEF t
  <2>10. ASSUME NEW x \in Nat PROVE Inside(t, x) <=> \E j \in 1..(k+1) : a[j] = x
    <3>1. \A j : j \in 1..(k+1) <=> j \in 1..k \/ j = k + 1
      OBVIOUS
    <3> QED BY <3>1, <2>3, <2>5, <2>8
  <2> QED BY <2>6, <2>8, <2>9, <2>10
<1> HIDE DEF Found
<1>10. 0 \in T
  BY <1>8
<1>11. ASSUME NEW k \in Nat, k \in T PROVE k + 1 \in T
  <2> SUFFICES ASSUME k + 1 <= l PROVE Found(k + 1)
    OBVIOUS
  <2>1. k <= l
    BY <1>a
  <2> QED BY <2>1, <1>9, <1>11
<1> HIDE DEF T
<1>12. l \in T
  BY <1>10, <1>11, <1>a, Induct
<1>13. Found(l)
  BY <1>12, <1>a DEF T
<1> DEFINE s == f0[l]
           t == Truncated(s, MaxSpans)
<1>14. Ordered(s, n) /\ Full(s) /\ \A x \in Nat : Inside(s, x) <=> \E j \in 1..l : a[j] = x
  <2>1. Ordered(s, End(l)) /\ Full(s) /\ \A x \in Nat : Inside(s, x) <=> \E j \in 1..l : a[j] = x
    BY <1>13 DEF Found
  <2>2. l \in 1..l /\ End(l) = a[l] + 1
    BY <1>a
  <2>3. End(l) \in Nat /\ End(l) <= n
    BY <2>2, <1>a
  <2> HIDE DEF End, s
  <2> QED BY <2>1, <2>3, OrderedUpTo
<1> HIDE DEF s
<1> DEFINE q == Len(s)
           m == Len(t)
<1>15. q \in Nat /\ q >= 1
  <2>1. l \in 1..l /\ a[l] \in Nat
    BY <1>a
  <2>2. Inside(s, a[l])
    BY <2>1, <1>14
  <2>3. \E k \in 1..q : TRUE
    BY <2>2 DEF Inside
  <2>4. q \in Nat
    BY <1>14, SpanFacts DEF Ordered
  <2> HIDE DEF q
  <2> QED BY <2>3, <2>4
<1>16. MaxSpans \in Nat /\ MaxSpans >= 1
  BY SpanAssumption
<1>17. /\ Ordered(t, n) /\ Full(t) /\ m \in Nat /\ m <= MaxSpans /\ m <= q
       /\ q >= 1 => m >= 1
       /\ \A k \in 1..m : t[k] = s[k]
  BY <1>14, <1>16, TruncatedFacts
<1>18. \A x : Inside(t, x) => \E k \in 1..m : t[k][1] <= x /\ x < t[k][2]
  BY DEF Inside
<1>19. \A x : (\E k \in 1..q : s[k][1] <= x /\ x < s[k][2]) => Inside(s, x)
  BY DEF Inside
<1>20. t = Coalesce(a)
  BY <1>1 DEF s
<1> HIDE DEF t, q, m
<1>21. ASSUME NEW x \in Nat, Inside(t, x) PROVE \E j \in 1..l : a[j] = x
  <2>1. PICK k \in 1..m : t[k][1] <= x /\ x < t[k][2]
    BY <1>18, <1>21
  <2>2. k \in 1..q /\ t[k] = s[k]
    BY <1>15, <1>17
  <2> QED BY <2>1, <2>2, <1>14, <1>19
<1>22. m \in 1..MaxSpans
  BY <1>15, <1>16, <1>17
<1> QED BY <1>17, <1>20, <1>21, <1>22 DEF m, l

\* The selector written for such spans is accepted by a server that allows as
\* many chunks, and read as spans of the same chunks.
LEMMA SelectorFacts ==
  ASSUME NEW n \in Nat, NEW t, Ordered(t, n), Full(t), Len(t) \in 1..MaxSpans,
         NEW cap \in Nat, Cardinality(Covered(t)) <= cap
  PROVE  LET words == FormatRanges(t)
             read  == ParseRanges(words)
         IN  /\ Accepts(words, n, cap) /\ Ordered(read, n) /\ Full(read) /\ Len(read) >= 1
             /\ \A x \in Nat : Inside(read, x) <=> Inside(t, x)
<1> DEFINE full  == Retain(t, NonEmpty(t))
           words == FormatRanges(t)
           f     == Len(full)
           m     == Len(t)
<1>1. Ordered(full, n) /\ Full(full) /\ f <= m /\ \A x \in Nat : Inside(full, x) <=> Inside(t, x)
  BY RetainSpans
<1>2. DOMAIN words = 1..f /\ Len(words) = f /\ ParseRanges(words) = full
  BY WordsFacts
<1> HIDE DEF full, words
<1>3. f \in Nat /\ m \in Nat /\ DOMAIN full = 1..f
  BY <1>1, SpanFacts DEF Ordered
<1>4. m >= 1 /\ m <= MaxSpans /\ MaxSpans \in Nat
  <2>1. MaxSpans \in Nat
    BY SpanAssumption
  <2>2. m \in 1..MaxSpans
    OBVIOUS
  <2> HIDE DEF m
  <2> QED BY <2>1, <2>2
<1>5. /\ \A k \in 1..f : full[k][1] < full[k][2] /\ full[k][2] <= n
      /\ \A i, j \in 1..f : i < j => full[i][2] <= full[j][1]
      /\ \A k \in 1..f : full[k][1] \in Nat /\ full[k][2] \in Nat
  BY <1>1, SpanFacts DEF Ordered, Full
<1>6. \A k \in 1..m : t[k][1] \in Nat /\ t[k][2] \in Nat /\ t[k][1] < t[k][2]
  BY SpanFacts DEF Ordered, Full
<1>7. \A x : Inside(full, x) => \E k \in 1..f : full[k][1] <= x
  BY DEF Inside
<1>8. \A x : (\E k \in 1..m : t[k][1] <= x /\ x < t[k][2]) => Inside(t, x)
  BY DEF Inside
<1>9. Asked(full) <= cap
  <2>1. Asked(full) = Cardinality(Covered(full))
    BY <1>1, AskedIs
  <2>2. Covered(full) = {x \in Nat : Inside(full, x)} /\ Covered(t) = {x \in Nat : Inside(t, x)}
    BY <1>1, CoveredIs DEF Ordered
  <2> QED BY <2>1, <2>2, <1>1
<1> HIDE DEF f, m
<1>10. f >= 1
  <2>1. 1 \in 1..m
    BY <1>3, <1>4
  <2>2. PICK c \in Nat : t[1][1] = c /\ t[1][1] <= c /\ c < t[1][2]
    BY <2>1, <1>6
  <2>3. Inside(full, c)
    BY <2>1, <2>2, <1>1, <1>8
  <2>4. \E k \in 1..f : full[k][1] <= c
    BY <2>3, <1>7
  <2> QED BY <2>4, <1>3
<1>11. Accepts(words, n, cap)
  <2>1. words # <<>>
    BY <1>2, <1>10
  <2>2. [k \in DOMAIN words |-> WordSpan(words[k])] = full
    BY <1>2 DEF ParseRanges
  <2>3. ASSUME NEW k \in 1..f
        PROVE  full[k][1] < full[k][2] /\ full[k][2] <= n /\ (k > 1 => full[k][1] >= full[k-1][2])
    <3>1. full[k][1] < full[k][2] /\ full[k][2] <= n
      BY <1>5
    <3>2. ASSUME k > 1 PROVE full[k][1] >= full[k-1][2]
      <4>1. k - 1 \in 1..f /\ k - 1 < k
        BY <3>2, <1>3
      <4>2. full[k-1][2] <= full[k][1] /\ full[k-1][2] \in Nat /\ full[k][1] \in Nat
        BY <4>1, <1>5
      <4> QED BY <4>2
    <3> QED BY <3>1, <3>2
  <2>4. Len(words) = f /\ f <= MaxSpans
    BY <1>1, <1>2, <1>3, <1>4 DEF m, f
  <2> QED BY <2>1, <2>2, <2>3, <2>4, <1>3, <1>9 DEF Accepts
<1> QED BY <1>1, <1>2, <1>10, <1>11 DEF words, f
=============================================================================
