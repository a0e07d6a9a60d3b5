------------------------- MODULE MaterializeProofs -------------------------
(***************************************************************************)
(* Proofs about Materialize for trees of any depth and size, any snapshots *)
(* in any order and any number of links: the destination stays a tree, Ok  *)
(* means that every entry is in place, the user's files are kept, a call   *)
(* that is repeated is never refused, and links stay inside the root.      *)
(***************************************************************************)
EXTENDS Materialize, SequenceTheorems, FiniteSetTheorems, WellFoundedInduction, TLAPS

\* Induction over the naturals, in the form of sets.
LEMMA NatInduct ==
  ASSUME NEW S, 0 \in S, \A n \in Nat : n \in S => n + 1 \in S
  PROVE  Nat \subseteq S
<1> DEFINE T == Nat \ S
<1> SUFFICES ASSUME T # {} PROVE FALSE
  OBVIOUS
<1>1. PICK x \in T : \A y \in T : ~(<<y, x>> \in OpToRel(<, Nat))
  BY NatLessThanWellFounded, WFMin
<1>2. x \in Nat /\ x # 0 /\ x - 1 \in Nat /\ x - 1 < x
  OBVIOUS
<1>3. x - 1 \notin T
  <2> SUFFICES ASSUME x - 1 \in T PROVE FALSE
    OBVIOUS
  <2>1. <<x - 1, x>> \in OpToRel(<, Nat)
    BY <1>2 DEF OpToRel
  <2> QED BY <2>1, <1>1
<1>4. x - 1 \in S
  BY <1>2, <1>3
<1>5. (x - 1) + 1 \in S
  BY <1>4, <1>2
<1> QED BY <1>5, <1>2

-----------------------------------------------------------------------------
(* The walk as a recursive function. *)

\* The first state of a resolution.
Begin(at, rest, hops) == [at |-> at, rest |-> rest, hops |-> hops, end |-> "on"]
\* g holds the first n + 1 states of a walk from s.
Trail(g, n, v, other, s) ==
  /\ g = [m \in 0..n |-> g[m]] /\ g[0] = s
  /\ \A m \in 1..n : g[m] = WalkStep(v, other, g[m - 1])

\* A walk of any number of steps exists, and there is only one.
LEMMA TrailExists ==
  ASSUME NEW v, NEW other, NEW s, NEW n \in Nat
  PROVE  \E g : Trail(g, n, v, other, s)
<1> DEFINE S == {k \in Nat : \E g : Trail(g, k, v, other, s)}
<1>1. 0 \in S
  <2> DEFINE g == [m \in 0..0 |-> s]
  <2>1. Trail(g, 0, v, other, s)
    BY DEF Trail
  <2> QED BY <2>1
<1>2. ASSUME NEW k \in Nat, k \in S PROVE k + 1 \in S
  <2>1. PICK g : Trail(g, k, v, other, s)
    BY <1>2
  <2> DEFINE h == [m \in 0..(k + 1) |-> IF m = k + 1 THEN WalkStep(v, other, g[k]) ELSE g[m]]
  <2>2. h[0] = s
    BY <2>1 DEF Trail
  <2>3. ASSUME NEW m \in 1..(k + 1) PROVE h[m] = WalkStep(v, other, h[m - 1])
    <3>1. h[m - 1] = g[m - 1]
      OBVIOUS
    <3>2. CASE m = k + 1
      BY <3>1, <3>2
    <3>3. CASE m # k + 1
      <4>1. m \in 1..k /\ h[m] = g[m]
        BY <3>3
      <4> QED BY <4>1, <3>1, <2>1 DEF Trail
    <3> QED BY <3>2, <3>3
  <2>4. h = [m \in 0..(k + 1) |-> h[m]]
    OBVIOUS
  <2> HIDE DEF h
  <2>5. Trail(h, k + 1, v, other, s)
    BY <2>2, <2>3, <2>4 DEF Trail
  <2> QED BY <2>5
<1> HIDE DEF S
<1>3. Nat \subseteq S
  BY <1>1, <1>2, NatInduct
<1> QED BY <1>3 DEF S

LEMMA TrailUnique ==
  ASSUME NEW v, NEW other, NEW s, NEW n \in Nat, NEW k \in Nat, NEW g, NEW h,
         Trail(g, n, v, other, s), Trail(h, k, v, other, s), NEW m \in Nat, m <= n, m <= k
  PROVE  g[m] = h[m]
<1> DEFINE S == {i \in Nat : i <= n /\ i <= k => g[i] = h[i]}
<1>1. 0 \in S
  BY DEF Trail
<1>2. ASSUME NEW i \in Nat, i \in S PROVE i + 1 \in S
  <2> SUFFICES ASSUME i + 1 <= n, i + 1 <= k PROVE g[i + 1] = h[i + 1]
    OBVIOUS
  <2>1. g[i] = h[i]
    BY <1>2
  <2>2. i + 1 \in 1..n /\ i + 1 \in 1..k /\ (i + 1) - 1 = i
    OBVIOUS
  <2>3. g[i + 1] = WalkStep(v, other, g[i])
    BY <2>2 DEF Trail
  <2>4. h[i + 1] = WalkStep(v, other, h[i])
    BY <2>2 DEF Trail
  <2> QED BY <2>1, <2>3, <2>4
<1> HIDE DEF S
<1>3. Nat \subseteq S
  BY <1>1, <1>2, NatInduct
<1> QED BY <1>3 DEF S

\* A walk is the last state of a trail of Fuel steps.
LEMMA WalkTrail ==
  ASSUME NEW v, NEW other, NEW at, NEW rest, NEW hops,
         NEW g, Trail(g, Fuel, v, other, Begin(at, rest, hops))
  PROVE  Walk(v, other, at, rest, hops) = g[Fuel]
<1> DEFINE s == Begin(at, rest, hops)
           F(w) == [n \in Nat |-> IF n = 0 THEN s ELSE WalkStep(v, other, w[n - 1])]
           W == CHOOSE w : w = F(w)
           T(n) == CHOOSE t : Trail(t, n, v, other, s)
           u == [n \in Nat |-> T(n)[n]]
<1>1. \A n \in Nat : Trail(T(n), n, v, other, s)
  BY TrailExists
<1> HIDE DEF T
<1>0. Fuel \in Nat
  BY HopAssumption DEF Fuel
<1>2. u = F(u)
  <2>1. ASSUME NEW n \in Nat PROVE u[n] = IF n = 0 THEN s ELSE WalkStep(v, other, u[n - 1])
    <3>1. CASE n = 0
      BY <3>1, <1>1 DEF Trail
    <3>2. CASE n # 0
      <4>1. n - 1 \in Nat /\ n \in 1..n
        BY <3>2
      <4>2. T(n)[n] = WalkStep(v, other, T(n)[n - 1])
        BY <4>1, <1>1 DEF Trail
      <4>3. T(n)[n - 1] = T(n - 1)[n - 1]
        BY <4>1, <1>1, TrailUnique
      <4> QED BY <4>1, <4>2, <4>3, <3>2
    <3> QED BY <3>1, <3>2
  <2> QED BY <2>1
<1>3. W = F(W)
  BY <1>2
<1> HIDE DEF W
<1>4. Trail([m \in 0..Fuel |-> W[m]], Fuel, v, other, s)
  <2> DEFINE h == [m \in 0..Fuel |-> W[m]]
  <2>1. h = [m \in 0..Fuel |-> h[m]] /\ h[0] = s
    BY <1>3, <1>0
  <2>2. ASSUME NEW m \in 1..Fuel PROVE h[m] = WalkStep(v, other, h[m - 1])
    BY <1>3, <1>0
  <2> QED BY <2>1, <2>2 DEF Trail
<1>5. W[Fuel] = g[Fuel]
  <2>1. [m \in 0..Fuel |-> W[m]][Fuel] = g[Fuel]
    BY <1>4, <1>0, TrailUnique
  <2> QED BY <2>1, <1>0
<1>6. Walk(v, other, at, rest, hops) = W[Fuel]
  BY DEF Walk, W, Begin
<1> QED BY <1>5, <1>6

-----------------------------------------------------------------------------
(* Paths and what is above them. *)

\* The prefixes of a path.
LEMMA Prefix ==
  ASSUME NEW p \in Seq(Names), NEW n \in 0..Len(p)
  PROVE  /\ SubSeq(p, 1, n) \in Seq(Names) /\ Len(SubSeq(p, 1, n)) = n
         /\ \A i \in 1..n : SubSeq(p, 1, n)[i] = p[i]
<1>1. Len(p) \in Nat /\ \A i \in 1..n : p[i] \in Names
  BY LenProperties, ElementOfSeq
<1> QED BY <1>1, SubSeqProperties

LEMMA PrefixOfPrefix ==
  ASSUME NEW p \in Seq(Names), NEW n \in 0..Len(p), NEW m \in 0..n
  PROVE  SubSeq(SubSeq(p, 1, n), 1, m) = SubSeq(p, 1, m)
<1> DEFINE a == SubSeq(p, 1, n)
           b == SubSeq(a, 1, m)
           c == SubSeq(p, 1, m)
<1>0. Len(p) \in Nat
  BY LenProperties
<1>1. a \in Seq(Names) /\ Len(a) = n /\ \A i \in 1..n : a[i] = p[i]
  BY Prefix
<1> HIDE DEF a
<1>2. b \in Seq(Names) /\ Len(b) = m /\ \A i \in 1..m : b[i] = a[i]
  BY <1>1, Prefix
<1>3. m \in 0..Len(p)
  BY <1>0
<1>4. c \in Seq(Names) /\ Len(c) = m /\ \A i \in 1..m : c[i] = p[i]
  BY <1>3, Prefix
<1> HIDE DEF b, c
<1>5. \A i \in 1..Len(b) : b[i] = c[i]
  BY <1>1, <1>2, <1>4
<1>6. b = c
  BY <1>2, <1>4, <1>5, SeqEqual
<1> QED BY <1>6 DEF a, b, c

\* What a path of the model is.
LEMMA PathFacts ==
  ASSUME NEW p \in Paths
  PROVE  /\ p \in Seq(Names) /\ Len(p) \in Nat /\ 1 <= Len(p) /\ Len(p) <= MaxLen /\ p # <<>>
         /\ SubSeq(p, 1, Len(p)) = p
         /\ Above(p) \subseteq Paths
         /\ Along(p) = Above(p) \cup {p} /\ p \notin Above(p) /\ Along(p) \subseteq Paths
<1>1. p \in Seq(Names) /\ Len(p) \in 1..MaxLen /\ Above(p) \subseteq Paths
  BY PathAssumption
<1>2. Len(p) \in Nat /\ 1 <= Len(p) /\ Len(p) <= MaxLen
  BY <1>1, LenProperties, HopAssumption
<1>3. p # <<>>
  BY <1>2, <1>1, EmptySeq
<1>4. SubSeq(p, 1, Len(p)) = p
  BY <1>1, SubSeqFull
<1>5. Along(p) = Above(p) \cup {p}
  BY <1>2, <1>4 DEF Along, Above
<1>6. p \notin Above(p)
  <2> SUFFICES ASSUME p \in Above(p) PROVE FALSE
    OBVIOUS
  <2>1. PICK n \in 1..(Len(p) - 1) : p = SubSeq(p, 1, n)
    BY DEF Above
  <2>2. n \in 0..Len(p)
    BY <1>2
  <2>3. Len(SubSeq(p, 1, n)) = n
    BY <2>2, <1>1, Prefix
  <2> QED BY <2>1, <2>3, <1>2
<1> QED BY <1>1, <1>2, <1>3, <1>4, <1>5, <1>6

\* Above is transitive.
LEMMA AboveAbove ==
  ASSUME NEW p \in Paths, NEW q \in Along(p), NEW r \in Along(q)
  PROVE  r \in Along(p) /\ (q \in Above(p) \/ r \in Above(q) => r \in Above(p))
<1>0. p \in Seq(Names) /\ Len(p) \in Nat /\ q \in Paths
  BY PathFacts
<1>1. PICK n \in 1..Len(p) : q = SubSeq(p, 1, n)
  BY DEF Along
<1>2. n \in 0..Len(p) /\ n \in Nat
  BY <1>0
<1>3. Len(q) = n
  BY <1>0, <1>1, <1>2, Prefix
<1>4. PICK m \in 1..n : r = SubSeq(q, 1, m)
  BY <1>3 DEF Along
<1>5. m \in 0..n
  BY <1>2
<1>6. r = SubSeq(p, 1, m)
  BY <1>0, <1>1, <1>2, <1>4, <1>5, PrefixOfPrefix
<1>7. m \in 1..Len(p)
  BY <1>0
<1>8. r \in Along(p)
  BY <1>6, <1>7 DEF Along
<1>9. ASSUME q \in Above(p) PROVE r \in Above(p)
  <2>1. PICK k \in 1..(Len(p) - 1) : q = SubSeq(p, 1, k)
    BY <1>9 DEF Above
  <2>2. k \in 0..Len(p)
    BY <1>0
  <2>3. n = k
    BY <2>1, <2>2, <1>0, <1>3, Prefix
  <2>4. m \in 1..(Len(p) - 1)
    BY <2>3, <1>0
  <2> QED BY <2>4, <1>6 DEF Above
<1>10. ASSUME r \in Above(q) PROVE r \in Above(p)
  <2>1. PICK k \in 1..(n - 1) : r = SubSeq(q, 1, k)
    BY <1>10, <1>3 DEF Above
  <2>2. k \in 0..n /\ k \in 1..(Len(p) - 1)
    BY <1>0
  <2>3. r = SubSeq(p, 1, k)
    BY <1>0, <1>1, <1>2, <2>1, <2>2, PrefixOfPrefix
  <2> QED BY <2>2, <2>3 DEF Above
<1> QED BY <1>8, <1>9, <1>10

\* The parent.
LEMMA FrontFacts ==
  ASSUME NEW p \in Paths
  PROVE  /\ Len(p) = 1 => Above(p) = {}
         /\ Len(p) # 1 => /\ Len(p) > 1 /\ Front(p) \in Paths /\ Front(p) \in Above(p)
                          /\ Along(Front(p)) = Above(p)
<1>0. p \in Seq(Names) /\ Len(p) \in Nat /\ 1 <= Len(p) /\ Above(p) \subseteq Paths
  BY PathFacts
<1>1. ASSUME Len(p) = 1 PROVE Above(p) = {}
  BY <1>1 DEF Above
<1>2. ASSUME Len(p) # 1
      PROVE  Len(p) > 1 /\ Front(p) \in Paths /\ Front(p) \in Above(p) /\ Along(Front(p)) = Above(p)
  <2> DEFINE k == Len(p) - 1
  <2>0. \A l \in Nat : 1 <= l /\ l # 1 => l > 1 /\ l - 1 \in 1..(l - 1) /\ l - 1 \in 0..l /\ l - 1 \in Nat
    OBVIOUS
  <2>1. Len(p) > 1 /\ k \in 1..(Len(p) - 1) /\ k \in 0..Len(p) /\ k \in Nat
    BY <2>0, <1>0, <1>2
  <2>2. Front(p) = SubSeq(p, 1, k)
    BY DEF Front
  <2>3. Front(p) \in Above(p)
    BY <2>1, <2>2 DEF Above
  <2>4. Len(Front(p)) = k
    BY <2>1, <2>2, <1>0, Prefix
  <2>5. \A m \in 1..k : SubSeq(Front(p), 1, m) = SubSeq(p, 1, m)
    <3> TAKE m \in 1..k
    <3>1. m \in 0..k
      BY <2>1
    <3> QED BY <3>1, <2>1, <2>2, <1>0, PrefixOfPrefix
  <2>6. Along(Front(p)) = {SubSeq(Front(p), 1, m) : m \in 1..k}
    BY <2>4 DEF Along
  <2>7. Above(p) = {SubSeq(p, 1, m) : m \in 1..k}
    BY DEF Above
  <2> QED BY <2>1, <2>3, <2>5, <2>6, <2>7, <1>0
<1> QED BY <1>1, <1>2

-----------------------------------------------------------------------------
(* Resolution of a path whose parents are directories. *)

\* The fuel suffices for a path without links.
LEMMA FuelEnough == Fuel \in Nat /\ \A n \in Nat : n <= MaxLen => n + 1 <= Fuel
<1>1. KernelHops * MaxLen \in Nat
  BY HopAssumption
<1>2. (KernelHops + 1) * MaxLen = KernelHops * MaxLen + MaxLen
  BY HopAssumption
<1> QED BY <1>1, <1>2, HopAssumption DEF Fuel

\* One component of a path: the rest of it from n on.
LEMMA OneComponent ==
  ASSUME NEW p \in Paths, NEW n \in Nat, n < Len(p)
  PROVE  LET rest == SubSeq(p, n + 1, Len(p))
         IN  /\ rest # <<>> /\ Len(rest) = Len(p) - n /\ Head(rest) = p[n + 1] /\ p[n + 1] # Up
             /\ Tail(rest) = SubSeq(p, n + 2, Len(p))
             /\ Append(SubSeq(p, 1, n), p[n + 1]) = SubSeq(p, 1, n + 1)
<1>0. p \in Seq(Names) /\ Len(p) \in Nat
  BY PathFacts
<1> DEFINE L == Len(p)
           rest == SubSeq(p, n + 1, L)
<1>1. n + 1 \in 1..L /\ L \in (n + 1)..L /\ n \in 0..L /\ n + 1 \in 0..L /\ (n + 1) + 1 = n + 2
  BY <1>0
<1>2. p[n + 1] \in Names /\ p[n + 1] # Up
  BY <1>0, <1>1, ElementOfSeq, PathAssumption
<1>3. Head(rest) = p[n + 1] /\ Tail(rest) = SubSeq(p, n + 2, L)
  BY <1>0, <1>1, HeadTailOfSubSeq
<1>4. \A i \in (n + 1)..L : p[i] \in Names
  BY <1>0, ElementOfSeq
<1>5. rest \in Seq(Names) /\ Len(rest) = IF n + 1 <= L THEN L - (n + 1) + 1 ELSE 0
  <2>1. n + 1 \in Int /\ L \in Int
    BY <1>0
  <2> QED BY <1>4, <2>1, SubSeqProperties
<1>6. Len(rest) = L - n /\ rest # <<>>
  <2> HIDE DEF L, rest
  <2>1. L \in Nat /\ n < L
    BY <1>0 DEF L
  <2>2. Len(rest) = L - n /\ Len(rest) # 0
    BY <1>5, <2>1
  <2> QED BY <2>2, EmptySeq
<1>7. Append(SubSeq(p, 1, n), p[n + 1]) = SubSeq(p, 1, n + 1)
  <2> DEFINE a == SubSeq(p, 1, n)
             b == Append(a, p[n + 1])
             c == SubSeq(p, 1, n + 1)
  <2>1. a \in Seq(Names) /\ Len(a) = n /\ \A i \in 1..n : a[i] = p[i]
    BY <1>0, <1>1, Prefix
  <2> HIDE DEF a
  <2>2. /\ b \in Seq(Names) /\ Len(b) = n + 1 /\ b[n + 1] = p[n + 1]
        /\ \A i \in 1..n : b[i] = a[i]
    BY <2>1, <1>2, AppendProperties
  <2>3. c \in Seq(Names) /\ Len(c) = n + 1 /\ \A i \in 1..(n + 1) : c[i] = p[i]
    BY <1>0, <1>1, Prefix
  <2> HIDE DEF b, c
  <2>4. \A i \in 1..Len(b) : b[i] = c[i]
    BY <2>1, <2>2, <2>3
  <2>5. b = c
    BY <2>2, <2>3, <2>4, SeqEqual
  <2> QED BY <2>5 DEF a, b, c
<1> QED BY <1>2, <1>3, <1>6, <1>7

\* Where all parents are directories and no link is in its place, a path is
\* resolved to itself: the node is there, or its name is absent.
LEMMA WalkDirs ==
  ASSUME NEW p \in Paths, NEW f, DOMAIN f = Paths,
         \A q \in Above(p) : f[q].kind = "dir", f[p].kind \in {"none", "dir", "file"}
  PROVE  /\ Resolve(f, p).at = p
         /\ Resolve(f, p).end = IF f[p].kind = "none" THEN "absent" ELSE "here"
<1> DEFINE L == Len(p)
           T(n)  == [at |-> SubSeq(p, 1, n), rest |-> SubSeq(p, n + 1, L), hops |-> KernelHops, end |-> "on"]
           Lost  == [at |-> p, rest |-> SubSeq(p, L, L), hops |-> KernelHops, end |-> "absent"]
           Found == [at |-> p, rest |-> SubSeq(p, L + 1, L), hops |-> KernelHops, end |-> "here"]
           G(n)  == IF n < L THEN T(n) ELSE IF f[p].kind = "none" THEN Lost
                    ELSE IF n = L THEN T(L) ELSE Found
           g     == [n \in 0..Fuel |-> G(n)]
<1>0. /\ p \in Seq(Names) /\ L \in Nat /\ 1 <= L /\ L <= MaxLen /\ SubSeq(p, 1, L) = p
      /\ Above(p) \subseteq Paths
  BY PathFacts
<1>a. \A n \in Nat : n + 1 < L => SubSeq(p, 1, n + 1) \in Above(p)
  BY <1>0 DEF Above
<1>b. ASSUME NEW n \in Nat, n < L
      PROVE  LET rest == SubSeq(p, n + 1, L)
             IN  /\ rest # <<>> /\ Len(rest) = L - n /\ Head(rest) = p[n + 1] /\ p[n + 1] # Up
                 /\ Tail(rest) = SubSeq(p, n + 2, L)
                 /\ Append(SubSeq(p, 1, n), p[n + 1]) = SubSeq(p, 1, n + 1)
  BY <1>b, OneComponent
<1> HIDE DEF L
<1>1. Fuel \in Nat /\ L + 1 <= Fuel
  BY <1>0, FuelEnough
<1>2. G(0) = Begin(<<>>, p, KernelHops)
  <2>1. SubSeq(p, 1, 0) = <<>>
    BY SubSeqEmpty
  <2> QED BY <2>1, <1>0 DEF Begin
<1>3. ASSUME NEW n \in Nat, n < L PROVE WalkStep(f, Nothing, T(n)) = G(n + 1)
  <2> DEFINE rest == SubSeq(p, n + 1, L)
             next == SubSeq(p, 1, n + 1)
  <2>1. /\ rest # <<>> /\ Len(rest) = L - n /\ Head(rest) = p[n + 1] /\ p[n + 1] # Up
        /\ Tail(rest) = SubSeq(p, n + 2, L) /\ Append(SubSeq(p, 1, n), p[n + 1]) = next
    BY <1>3, <1>b
  <2>2. /\ T(n).at = SubSeq(p, 1, n) /\ T(n).rest = rest /\ T(n).hops = KernelHops /\ T(n).end = "on"
    OBVIOUS
  <2>3. n + 1 < L => next \in Above(p)
    BY <1>a
  <2>4. next \in Paths
    <3>1. n + 1 < L \/ n + 1 = L
      BY <1>0, <1>3
    <3>2. CASE n + 1 < L
      BY <3>2, <2>3, <1>0
    <3>3. CASE n + 1 = L
      BY <3>3, <1>0
    <3> QED BY <3>1, <3>2, <3>3
  <2> DEFINE s == T(n)
  <2>5. s = [at |-> SubSeq(p, 1, n), rest |-> rest, hops |-> KernelHops, end |-> "on"]
    OBVIOUS
  <2> HIDE DEF s, rest, next
  <2>6. CASE n + 1 < L
    <3>1. f[next].kind = "dir"
      BY <2>3, <2>6
    <3>2. WalkStep(f, Nothing, s) = [s EXCEPT !.at = next, !.rest = Tail(@)]
      BY <2>1, <2>2, <2>4, <2>5, <3>1 DEF WalkStep, s
    <3>3. G(n + 1) = T(n + 1)
      BY <2>6
    <3>4. (n + 1) + 1 = n + 2
      OBVIOUS
    <3> QED BY <3>2, <3>3, <3>4, <2>1, <2>5 DEF s, next
  <2>7. CASE n + 1 = L
    <3>1. next = p /\ Len(rest) = 1
      BY <2>7, <1>0, <2>1 DEF next
    <3>2. CASE f[p].kind = "none"
      <4>1. WalkStep(f, Nothing, s) = [s EXCEPT !.at = next, !.end = "absent"]
        BY <2>1, <2>2, <2>4, <2>5, <3>1, <3>2 DEF WalkStep, s
      <4>2. G(n + 1) = Lost
        BY <2>7, <3>2
      <4>3. rest = SubSeq(p, L, L)
        BY <2>7 DEF rest
      <4> QED BY <4>1, <4>2, <4>3, <2>5, <3>1 DEF s
    <3>3. CASE f[p].kind # "none"
      <4>1. WalkStep(f, Nothing, s) = [s EXCEPT !.at = next, !.rest = Tail(@)]
        BY <2>1, <2>2, <2>4, <2>5, <3>1, <3>3 DEF WalkStep, s
      <4>2. G(n + 1) = T(L)
        BY <2>7, <3>3
      <4>3. n + 2 = L + 1
        BY <2>7
      <4> QED BY <4>1, <4>2, <4>3, <2>1, <2>5, <3>1, <1>0 DEF s
    <3> QED BY <3>2, <3>3
  <2>8. n + 1 < L \/ n + 1 = L
    BY <1>0, <1>3
  <2> QED BY <2>6, <2>7, <2>8 DEF s
<1>4. WalkStep(f, Nothing, T(L)) = Found
  <2>1. SubSeq(p, L + 1, L) = <<>>
    BY <1>0, SubSeqEmpty
  <2> QED BY <2>1, <1>0 DEF WalkStep
<1>5. WalkStep(f, Nothing, Lost) = Lost /\ WalkStep(f, Nothing, Found) = Found
  BY DEF WalkStep
<1> HIDE DEF T, Lost, Found
<1>6. ASSUME NEW m \in 1..Fuel PROVE G(m) = WalkStep(f, Nothing, G(m - 1))
  <2>0. m \in Nat /\ m - 1 \in Nat /\ (m - 1) + 1 = m
    BY <1>1
  <2>1. CASE m - 1 < L
    <3>1. WalkStep(f, Nothing, T(m - 1)) = G((m - 1) + 1)
      BY <2>0, <2>1, <1>3
    <3>2. G(m - 1) = T(m - 1)
      BY <2>1
    <3> QED BY <3>1, <3>2, <2>0
  <2>2. CASE ~(m - 1 < L)
    <3>1. ~(m < L) /\ m # L
      BY <2>0, <2>2, <1>0
    <3> QED BY <2>2, <3>1, <1>4, <1>5
  <2> QED BY <2>1, <2>2
<1> HIDE DEF G
<1>7. Trail(g, Fuel, f, Nothing, Begin(<<>>, p, KernelHops))
  <2>1. g = [m \in 0..Fuel |-> g[m]] /\ g[0] = Begin(<<>>, p, KernelHops)
    BY <1>1, <1>2
  <2>2. \A m \in 1..Fuel : g[m] = WalkStep(f, Nothing, g[m - 1])
    BY <1>1, <1>6
  <2> HIDE DEF g
  <2> QED BY <2>1, <2>2 DEF Trail
<1>8. Resolve(f, p) = g[Fuel]
  <2> HIDE DEF g
  <2> QED BY <1>7, WalkTrail DEF Resolve
<1>9. g[Fuel] = G(Fuel)
  BY <1>1
<1>10. G(Fuel) = IF f[p].kind = "none" THEN Lost ELSE Found
  BY <1>0, <1>1 DEF G
<1> QED BY <1>8, <1>9, <1>10 DEF Lost, Found

-----------------------------------------------------------------------------
(* What the operations on the destination return. *)

\* Nodes that form a tree.
Tree(f) == f \in [Paths -> Node] /\ Rooted(f)

\* The four kinds of node.
LEMMA NodeFacts ==
  /\ <<>> \in Spelt
  /\ Nothing \in Node /\ Nothing.kind = "none" /\ Nothing.ino = 0 /\ ~Nothing.locked
  /\ Folder \in Node /\ Folder.kind = "dir" /\ Folder.ino = 0 /\ ~Folder.locked
  /\ \A i \in Inodes : /\ FileAt(i) \in Node /\ FileAt(i).kind = "file" /\ FileAt(i).ino = i
                        /\ ~FileAt(i).locked
  /\ \A t \in Spelt : /\ LinkTo(t) \in Node /\ LinkTo(t).kind = "link" /\ LinkTo(t).to = t
                      /\ LinkTo(t).ino = 0 /\ ~LinkTo(t).locked
<1>1. <<>> \in Spelt
  BY EmptySeq, HopAssumption DEF Spelt
<1> QED BY <1>1 DEF Nothing, Folder, FileAt, LinkTo, Node

\* create_dir_confined: afterwards the path is a directory, and so is all that
\* is above it; what was there is as it was.
LEMMA WithDirFacts ==
  ASSUME NEW f, Tree(f), NEW p \in Paths, CreatesDir(f, p)
  PROVE  /\ Tree(WithDir(f, p))
         /\ \A q \in Along(p) : WithDir(f, p)[q].kind = "dir"
         /\ \A q \in Paths : WithDir(f, p)[q] = f[q] \/ (f[q].kind = "none" /\ q \in Along(p)
                                                       /\ WithDir(f, p)[q] = Folder)
<1> DEFINE d == WithDir(f, p)
<1>1. d \in [Paths -> Node]
  BY NodeFacts DEF WithDir, Tree
<1>2. \A q \in Paths : d[q] = IF q \in Along(p) /\ f[q].kind = "none" THEN Folder ELSE f[q]
  BY DEF WithDir
<1>3. Along(p) \subseteq Paths
  BY PathFacts
<1>4. \A q \in Along(p) : d[q].kind = "dir"
  BY <1>2, <1>3, NodeFacts DEF CreatesDir
<1> HIDE DEF d
<1>5. Rooted(d)
  <2> SUFFICES ASSUME NEW q \in Paths
               PROVE  /\ d[q].kind # "none" => \A r \in Above(q) : d[r].kind = "dir"
                      /\ d[q].kind = "file" => d[q].ino \in Inodes
    BY DEF Rooted
  <2>1. CASE q \in Along(p)
    <3>1. \A r \in Above(q) : r \in Along(p)
      BY <2>1, AboveAbove, PathFacts
    <3> QED BY <3>1, <2>1, <1>4
  <2>2. CASE q \notin Along(p)
    <3>1. d[q] = f[q]
      BY <1>2, <2>2
    <3>2. ASSUME d[q].kind # "none", NEW r \in Above(q) PROVE d[r].kind = "dir"
      <4>1. f[r].kind = "dir" /\ r \in Paths
        BY <3>1, <3>2, PathFacts DEF Tree, Rooted
      <4> QED BY <4>1, <1>2, NodeFacts
    <3> QED BY <3>1, <3>2 DEF Tree, Rooted
  <2> QED BY <2>1, <2>2
<1>6. Tree(d)
  BY <1>1, <1>5 DEF Tree
<1> QED BY <1>2, <1>4, <1>6 DEF d

\* remove_existing takes some of what is at the path and below it, each node
\* after what is below it; what is above the path stays.
LEMMA RemoveFacts ==
  ASSUME NEW f, Tree(f), NEW p \in Paths, NEW d \in PartlyRemoved(f, p)
  PROVE  /\ Tree(d)
         /\ \A q \in Paths : d[q] = f[q] \/ (p \in Along(q) /\ d[q] = Nothing)
         /\ \A q \in Above(p) : d[q] = f[q]
<1>1. PICK g \in SUBSET Below(f, p) :
        /\ \A q \in g : \A r \in Below(f, p) : q \in Along(r) => r \in g
        /\ d = Without(f, g)
  BY DEF PartlyRemoved
<1>2. \A q \in Paths : d[q] = IF q \in g THEN Nothing ELSE f[q]
  BY <1>1 DEF Without
<1>3. d \in [Paths -> Node]
  BY <1>1, NodeFacts DEF Without, Tree
<1>4. \A q \in g : p \in Along(q)
  BY <1>1 DEF Below
<1>5. Rooted(d)
  <2> SUFFICES ASSUME NEW q \in Paths
               PROVE  /\ d[q].kind # "none" => \A r \in Above(q) : d[r].kind = "dir"
                      /\ d[q].kind = "file" => d[q].ino \in Inodes
    BY DEF Rooted
  <2>1. CASE q \in g
    BY <2>1, <1>2, NodeFacts
  <2>2. CASE q \notin g
    <3>1. d[q] = f[q]
      BY <2>2, <1>2
    <3>2. ASSUME d[q].kind # "none", NEW r \in Above(q) PROVE d[r].kind = "dir"
      <4>1. r \in Along(q) /\ r \in Paths /\ f[r].kind = "dir"
        BY <3>1, <3>2, PathFacts DEF Tree, Rooted
      <4>2. r \notin g
        <5> SUFFICES ASSUME r \in g PROVE FALSE
          OBVIOUS
        <5>1. p \in Along(r)
          BY <1>4
        <5>2. p \in Along(q)
          BY <4>1, <5>1, AboveAbove
        <5>3. q \in Below(f, p)
          BY <5>2, <3>1, <3>2 DEF Below
        <5> QED BY <5>3, <4>1, <1>1, <2>2
      <4> QED BY <4>1, <4>2, <1>2
    <3> QED BY <3>1, <3>2 DEF Tree, Rooted
  <2> QED BY <2>1, <2>2
<1>6. ASSUME NEW q \in Above(p) PROVE d[q] = f[q]
  <2>1. q \in Paths /\ q \in Along(p)
    BY PathFacts
  <2>2. p \notin Along(q)
    <3> SUFFICES ASSUME p \in Along(q) PROVE FALSE
      OBVIOUS
    <3>1. p \in Above(p)
      BY <2>1, AboveAbove
    <3> QED BY <3>1, PathFacts
  <2> QED BY <2>1, <2>2, <1>2, <1>4
<1> QED BY <1>2, <1>3, <1>4, <1>5, <1>6 DEF Tree

\* remove_existing itself is one of those; where no directory is locked it
\* leaves nothing at the path.
LEMMA RemoveExistingFacts ==
  ASSUME NEW f, Tree(f), NEW p \in Paths, NEW d \in RemoveExisting(f, p)
  PROVE  /\ d \in PartlyRemoved(f, p)
         /\ (\A q \in Paths : ~f[q].locked) => d[p].kind = "none"
<1>1. ASSUME \A q \in Below(f, p) : Open(f, q)
      PROVE  d \in PartlyRemoved(f, p) /\ d[p].kind = "none"
  <2>1. d = Without(f, Below(f, p))
    BY <1>1 DEF RemoveExisting
  <2>2. Below(f, p) \in {h \in SUBSET Below(f, p) :
           \A q \in h : Open(f, q) /\ \A r \in Below(f, p) : q \in Along(r) => r \in h}
    BY <1>1
  <2>3. d \in PartlyRemoved(f, p)
    BY <2>1, <2>2 DEF PartlyRemoved
  <2>4. p \in Along(p)
    BY PathFacts
  <2>5. d[p] = IF p \in Below(f, p) THEN Nothing ELSE f[p]
    BY <2>1 DEF Without
  <2>6. p \notin Below(f, p) => f[p].kind = "none"
    BY <2>4 DEF Below
  <2> QED BY <2>3, <2>5, <2>6, NodeFacts
<1>2. ASSUME \A q \in Paths : ~f[q].locked, NEW q \in Paths PROVE Open(f, q)
  <2>1. Len(q) \in Nat
    BY PathFacts
  <2>2. \A l \in Nat : l > 1 => l # 1
    OBVIOUS
  <2>3. Len(q) > 1 => Front(q) \in Paths
    BY <2>1, <2>2, FrontFacts, Zenon
  <2> QED BY <2>3, <1>2 DEF Open
<1>3. Below(f, p) \subseteq Paths
  BY DEF Below
<1>4. CASE \A q \in Below(f, p) : Open(f, q)
  BY <1>1, <1>4
<1>5. CASE ~\A q \in Below(f, p) : Open(f, q)
  <2>1. d \in PartlyRemoved(f, p)
    BY <1>5 DEF RemoveExisting
  <2> QED BY <2>1, <1>2, <1>3, <1>5
<1> QED BY <1>4, <1>5

\* A new name in a directory.
LEMMA PutFacts ==
  ASSUME NEW f, Tree(f), NEW p \in Paths, Creatable(f, p), NEW n \in Node,
         n.kind = "file" => n.ino \in Inodes
  PROVE  Tree([f EXCEPT ![p] = n])
<1> DEFINE d == [f EXCEPT ![p] = n]
<1>1. d \in [Paths -> Node] /\ d[p] = n /\ \A q \in Paths : q # p => d[q] = f[q]
  BY DEF Tree
<1> HIDE DEF d
<1>2. ASSUME NEW q \in Paths, d[q].kind # "none", NEW r \in Above(q) PROVE d[r].kind = "dir"
  <2>1. CASE q = p
    <3>1. f[r].kind = "dir" /\ r \in Paths /\ r # p
      BY <2>1, PathFacts DEF Creatable
    <3> QED BY <3>1, <1>1
  <2>2. CASE q # p
    <3>1. f[q].kind # "none"
      BY <1>1, <1>2, <2>2
    <3>2. f[r].kind = "dir" /\ r \in Paths
      BY <3>1, PathFacts DEF Tree, Rooted
    <3>3. r # p
      BY <3>2 DEF Creatable
    <3> QED BY <3>2, <3>3, <1>1
  <2> QED BY <2>1, <2>2
<1>3. ASSUME NEW q \in Paths, d[q].kind = "file" PROVE d[q].ino \in Inodes
  BY <1>1, <1>3 DEF Tree, Rooted
<1>4. Tree(d)
  BY <1>1, <1>2, <1>3 DEF Tree, Rooted
<1> QED BY <1>4 DEF d

\* The nodes after set_mode.
WithMode(f, p, b) == [f EXCEPT ![p].locked = b]
\* A mode changes no more than the mode.
LEMMA ModeFacts ==
  ASSUME NEW f, Tree(f), NEW p \in Paths, NEW b \in BOOLEAN
  PROVE  /\ Tree(WithMode(f, p, b))
         /\ \A q \in Paths : /\ WithMode(f, p, b)[q].kind = f[q].kind
                             /\ WithMode(f, p, b)[q].ino = f[q].ino /\ WithMode(f, p, b)[q].to = f[q].to
                             /\ q # p => WithMode(f, p, b)[q] = f[q]
                             /\ WithMode(f, p, b)[q].locked = IF q = p THEN b ELSE f[q].locked
<1> DEFINE d == WithMode(f, p, b)
<1>0. d = [f EXCEPT ![p].locked = b]
  BY DEF WithMode
<1> HIDE DEF d
<1>1. d \in [Paths -> Node]
  BY <1>0 DEF Tree, Node
<1>2. \A q \in Paths : /\ d[q].kind = f[q].kind /\ d[q].ino = f[q].ino /\ d[q].to = f[q].to
                       /\ q # p => d[q] = f[q]
                       /\ d[q].locked = IF q = p THEN b ELSE f[q].locked
  BY <1>0 DEF Tree, Node
<1>3. ASSUME NEW q \in Paths, d[q].kind # "none", NEW r \in Above(q) PROVE d[r].kind = "dir"
  <2>1. r \in Paths /\ f[r].kind = "dir"
    BY <1>2, <1>3, PathFacts DEF Tree, Rooted
  <2> QED BY <2>1, <1>2
<1>4. Tree(d)
  BY <1>1, <1>2, <1>3 DEF Tree, Rooted
<1> QED BY <1>2, <1>4 DEF d

\* There are more inodes than paths, so one is always free.
LEMMA FreeInode ==
  ASSUME fs \in [Paths -> Node]
  PROVE  NewInode \in Inodes /\ \A q \in Paths : fs[q].ino # NewInode
<1> DEFINE T == {fs[q].ino : q \in Paths}
           h == [q \in Paths |-> fs[q].ino]
<1>1. IsFiniteSet(Paths)
  BY PathAssumption
<1>2. h \in Surjection(Paths, T)
  BY DEF Surjection
<1>3. IsFiniteSet(T) /\ Cardinality(T) <= Cardinality(Paths)
  BY <1>1, <1>2, FS_Surjection
<1>4. Cardinality(Paths) \in Nat /\ Cardinality(T) \in Nat
  BY <1>1, <1>3, FS_CardinalityType
<1>5. IsFiniteSet(Inodes) /\ Cardinality(Inodes) = Cardinality(Paths) + 1
  <2> DEFINE c == Cardinality(Paths)
  <2>1. c \in Nat
    BY <1>4
  <2> HIDE DEF c
  <2>2. IsFiniteSet(1..(c + 1)) /\ Cardinality(1..(c + 1)) = c + 1
    BY <2>1, FS_Interval
  <2> QED BY <2>2 DEF c, Inodes
<1>6. ~(Inodes \subseteq T)
  <2> SUFFICES ASSUME Inodes \subseteq T PROVE FALSE
    OBVIOUS
  <2> HIDE DEF T
  <2>1. Cardinality(Inodes) <= Cardinality(T)
    BY <1>3, FS_Subset
  <2> QED BY <2>1, <1>3, <1>4, <1>5
<1>7. \E i \in Inodes : \A q \in Paths : fs[q].ino # i
  BY <1>6
<1> QED BY <1>7 DEF NewInode

-----------------------------------------------------------------------------
(* Type correctness. *)

\* What TypeOK needs to be inductive: a call runs for an accepted snapshot of
\* the plan, an entry is written in the pass for its kind, an open file has an
\* inode, and a hard link's source was found.
JobOK ==
  /\ job.pass > 0 => job.snap \in plan.snaps /\ Validate(job.snap)
  /\ job.step # "clear" => /\ job.pass > 0 /\ job.left > 0
                           /\ Now.kind \in Passes[job.pass] /\ Now.kind \in {"file", "hardlink", "symlink"}
  /\ job.step = "fill" => job.ino \in Inodes
  /\ job.step = "make" => (Now.kind = "hardlink" => job.src \in Paths)
\* The inductive invariant behind TypeOK.
TypeInv == TypeOK /\ JobOK

\* The four passes.
LEMMA PassFacts ==
  /\ Len(Passes) = 4
  /\ Passes[1] = {"dir"} /\ Passes[2] = {"file", "hardlink"} /\ Passes[3] = {"symlink"} /\ Passes[4] = {"dir"}
BY DEF Passes

\* The entry at hand is one of the snapshot, and its path one below the root.
LEMMA NowFacts ==
  ASSUME TypeOK, JobOK, job.pass > 0, job.left > 0
  PROVE  /\ Position \in DOMAIN job.snap /\ Position \in 1..Len(job.snap) /\ Now = job.snap[Position]
         /\ Now \in Entry /\ Now.path \in Paths /\ SanitizeRelPath(Now.path)
         /\ Now.kind \in {"dir", "file", "hardlink", "symlink"}
<1> DEFINE s == job.snap
           l == job.left
           n == Len(s)
<1>1. s \in Seq(Entry) /\ n \in Nat /\ l \in Nat /\ l <= n /\ l > 0 /\ DOMAIN s = 1..n
  BY LenProperties DEF TypeOK
<1>2. s \in plan.snaps /\ Validate(s) /\ plan \in Plans
  BY DEF JobOK, TypeOK
<1>3. Position \in 1..n
  <2>1. Position = l \/ Position = n - l + 1
    BY DEF Position
  <2> HIDE DEF l, n
  <2> QED BY <2>1, <1>1
<1>4. Now = s[Position] /\ s[Position] \in Entry
  BY <1>1, <1>3, ElementOfSeq DEF Now
<1>5. SanitizeRelPath(s[Position].path)
  BY <1>1, <1>2, <1>3 DEF Validate
<1>6. s[Position].path \in Paths
  BY <1>1, <1>2, <1>3, <1>5, InputAssumption
<1>7. Now.kind \in {"dir", "file", "hardlink", "symlink"}
  BY <1>4 DEF Entry
<1> QED BY <1>1, <1>3, <1>4, <1>5, <1>6, <1>7

\* What an entry of each kind has.
LEMMA EntryFacts ==
  ASSUME NEW e \in Entry
  PROVE  /\ e.path \in Spelt
         /\ e.kind = "dir" => e.locked \in BOOLEAN
         /\ e.kind = "file" => e.chunks \in Seq(Chunks)
         /\ e.kind \in {"hardlink", "symlink"} => e.to \in Spelt
BY DEF Entry

\* What TypeOK says of the running call.
JobType == [snap : Seq(Entry), pass : 0..Len(Passes), left : Nat,
            step : {"clear", "make", "fill"}, ino : Inodes \cup {0}, src : Paths \cup {<<>>}]

\* A call that ends, or goes on to the next entry, is as TypeOK has it.
LEMMA EndedOK ==
  ASSUME TypeOK, NEW how \in {"ok", "failed", "refused"}, Ended(how)
  PROVE  /\ job' \in JobType /\ job'.left <= Len(job'.snap)
         /\ job'.pass = 0 /\ job'.step = "clear" /\ job'.snap = job.snap /\ res' = how
<1> DEFINE s == job.snap
<1>1. s \in Seq(Entry) /\ Len(s) \in Nat
  BY LenProperties DEF TypeOK
<1>2. job' = [NoJob EXCEPT !.snap = s] /\ res' = how
  BY DEF Ended
<1>3. 0 \in 0..Len(Passes)
  BY PassFacts
<1> HIDE DEF s
<1> QED BY <1>1, <1>2, <1>3 DEF NoJob, JobType, s

LEMMA ProceedOK ==
  ASSUME TypeOK, job.left > 0, Proceed
  PROVE  /\ job' \in JobType /\ job'.left <= Len(job'.snap)
         /\ job'.pass = job.pass /\ job'.step = "clear" /\ job'.snap = job.snap /\ job'.left = job.left - 1
         /\ res' = res
<1> DEFINE n == Len(job.snap)
<1>1. job \in JobType /\ n \in Nat /\ job.left <= n
  BY LenProperties DEF TypeOK, JobType
<1>2. job' = [job EXCEPT !.left = @ - 1, !.step = "clear", !.ino = 0, !.src = <<>>] /\ res' = res
  BY DEF Proceed
<1>3. job'.snap = job.snap /\ job'.left = job.left - 1 /\ job'.step = "clear" /\ job'.pass = job.pass
  BY <1>1, <1>2 DEF JobType
<1>4. job' \in JobType
  <2> DEFINE l == job.left - 1
  <2>1. l \in Nat
    BY <1>1 DEF JobType
  <2>2. job' = [job EXCEPT !.left = l, !.step = "clear", !.ino = 0, !.src = <<>>]
    BY <1>2
  <2> HIDE DEF l
  <2> QED BY <1>1, <2>1, <2>2 DEF JobType
<1>5. Len(job'.snap) = n
  BY <1>3
<1> HIDE DEF n
<1>6. job'.left <= Len(job'.snap)
  BY <1>1, <1>3, <1>5 DEF JobType
<1> QED BY <1>2, <1>3, <1>4, <1>6

\* The rest of TypeInv follows where the call ends or goes on to the next entry.
LEMMA EndedInv ==
  ASSUME TypeInv, NEW how \in {"ok", "failed", "refused"}, Ended(how), UNCHANGED <<start, plan>>,
         Tree(fs'), content' \in [Inodes -> Seq(Chunks)], outside' \in BOOLEAN
  PROVE  TypeInv'
<1>1. /\ job' \in JobType /\ job'.left <= Len(job'.snap)
      /\ job'.pass = 0 /\ job'.step = "clear" /\ res' = how
  BY EndedOK DEF TypeInv
<1>2. TypeOK'
  BY <1>1 DEF TypeOK, TypeInv, Tree, JobType
<1>3. JobOK'
  BY <1>1 DEF JobOK
<1> QED BY <1>2, <1>3 DEF TypeInv

\* Going on to the next entry keeps the types, if the file system kept its.
LEMMA ProceedInv ==
  ASSUME TypeInv, job.left > 0, job.pass > 0, Proceed, UNCHANGED <<start, plan>>,
         Tree(fs'), content' \in [Inodes -> Seq(Chunks)], outside' \in BOOLEAN
  PROVE  TypeInv'
<1>1. /\ job' \in JobType /\ job'.left <= Len(job'.snap)
      /\ job'.pass = job.pass /\ job'.step = "clear" /\ job'.snap = job.snap /\ res' = res
  BY ProceedOK DEF TypeInv
<1>2. TypeOK'
  BY <1>1 DEF TypeOK, TypeInv, Tree, JobType
<1>3. JobOK'
  BY <1>1 DEF JobOK, TypeInv
<1> QED BY <1>2, <1>3 DEF TypeInv

\* The locals of the entry at hand change, its place does not.
LEMMA StepInv ==
  ASSUME TypeInv, job.left > 0, job.pass > 0, NEW to \in {"make", "fill"}, job' \in JobType,
         job'.snap = job.snap, job'.pass = job.pass, job'.left = job.left, job'.step = to,
         Now.kind \in Passes[job.pass], Now.kind \in {"file", "hardlink", "symlink"},
         to = "fill" => job'.ino \in Inodes,
         to = "make" /\ Now.kind = "hardlink" => job'.src \in Paths,
         res' = res, UNCHANGED <<start, plan>>,
         Tree(fs'), content' \in [Inodes -> Seq(Chunks)], outside' \in BOOLEAN
  PROVE  TypeInv' /\ Now' = Now
<1>1. Now' = Now
  BY DEF Now, Position
<1>2. TypeOK'
  BY DEF TypeOK, TypeInv, Tree, JobType
<1>3. JobOK'
  BY <1>1 DEF JobOK, TypeInv
<1> QED BY <1>1, <1>2, <1>3 DEF TypeInv

\* Step by step, reconstruct_tree keeps the destination a tree.
LEMMA InitType == ASSUME Init PROVE TypeInv
<1>1. start \in Starts /\ plan \in Plans /\ job = NoJob /\ fs = start.fs /\ content = start.content
      /\ outside = TRUE /\ res = "none"
  BY DEF Init
<1>2. start.fs \in [Paths -> Node] /\ Rooted(start.fs) /\ start.content \in [Inodes -> Seq(Chunks)]
  BY <1>1, InputAssumption
<1>3. <<>> \in Seq(Entry) /\ Len(<<>>) = 0 /\ Len(Passes) = 4
  BY EmptySeq, PassFacts
<1>4. job \in JobType /\ job.left <= Len(job.snap)
  BY <1>1, <1>3 DEF NoJob, JobType
<1>5. TypeOK
  BY <1>1, <1>2, <1>4 DEF TypeOK, JobType
<1>6. JobOK
  BY <1>1 DEF JobOK, NoJob
<1> QED BY <1>5, <1>6 DEF TypeInv

LEMMA CallType ==
  ASSUME TypeInv, NEW s \in plan.snaps, Call(s), UNCHANGED <<start, plan>>
  PROVE  TypeInv'
<1>1. s \in Seq(Entry) /\ Len(s) \in Nat
  BY InputAssumption, LenProperties DEF TypeInv, TypeOK
<1>2. Tree(fs') /\ content' \in [Inodes -> Seq(Chunks)] /\ outside' \in BOOLEAN
  BY DEF Call, TypeInv, TypeOK, Tree
<1>3. CASE Validate(s)
  <2>1. job' = [NoJob EXCEPT !.snap = s, !.pass = 1, !.left = Len(s)] /\ res' = "running"
    BY <1>3 DEF Call
  <2>2. job' \in JobType /\ job'.left <= Len(job'.snap) /\ job'.snap = s /\ job'.step = "clear"
    <3> DEFINE n == Len(s)
    <3>1. n \in Nat /\ n <= n /\ Len(s) = n /\ 1 \in 0..Len(Passes)
      BY <1>1, PassFacts
    <3>2. job' = [NoJob EXCEPT !.snap = s, !.pass = 1, !.left = n]
      BY <2>1
    <3> HIDE DEF n
    <3>3. job' \in JobType /\ job'.left = n /\ job'.snap = s /\ job'.step = "clear"
      BY <3>1, <3>2, <1>1 DEF NoJob, JobType
    <3> QED BY <3>1, <3>3
  <2>3. TypeOK'
    BY <1>2, <2>1, <2>2 DEF TypeOK, TypeInv, Tree, JobType
  <2>4. JobOK'
    BY <2>2, <1>3 DEF JobOK
  <2> QED BY <2>3, <2>4 DEF TypeInv
<1>4. CASE ~Validate(s)
  <2>1. job' = [NoJob EXCEPT !.snap = s] /\ res' = "invalid"
    BY <1>4 DEF Call
  <2>2. job' \in JobType /\ job'.left <= Len(job'.snap) /\ job'.pass = 0 /\ job'.step = "clear"
    BY <2>1, <1>1, PassFacts DEF NoJob, JobType
  <2>3. TypeOK'
    BY <1>2, <2>1, <2>2 DEF TypeOK, TypeInv, Tree, JobType
  <2>4. JobOK'
    BY <2>2 DEF JobOK
  <2> QED BY <2>3, <2>4 DEF TypeInv
<1> QED BY <1>3, <1>4

LEMMA LoopType ==
  ASSUME TypeInv, Loop, UNCHANGED <<start, plan>>
  PROVE  TypeInv'
<1>1. Tree(fs') /\ content' \in [Inodes -> Seq(Chunks)] /\ outside' \in BOOLEAN
  BY DEF Loop, TypeInv, TypeOK, Tree
<1>2. CASE job.left > 0 /\ Now.kind \notin Passes[job.pass] /\ Proceed
  BY <1>1, <1>2, ProceedInv DEF Loop
<1>3. CASE job.left = 0 /\ job.pass = Len(Passes) /\ Ended("ok")
  BY <1>1, <1>3, EndedInv
<1>4. CASE /\ job.left = 0 /\ job.pass < Len(Passes) /\ res' = res
           /\ job' = [job EXCEPT !.pass = @ + 1, !.left = Len(job.snap)]
  <2>1. job \in JobType /\ Len(job.snap) \in Nat
    BY LenProperties DEF TypeInv, TypeOK, JobType
  <2>2. job.pass + 1 \in 0..Len(Passes) /\ job.pass + 1 > 0
    BY <2>1, <1>4, PassFacts DEF JobType
  <2>3. job' \in JobType /\ job'.left <= Len(job'.snap) /\ job'.snap = job.snap /\ job'.step = job.step
    <3> DEFINE n == Len(job.snap)
               k == job.pass + 1
    <3>1. n \in Nat /\ n <= n /\ Len(job.snap) = n /\ k \in 0..Len(Passes)
      BY <2>1, <2>2
    <3>2. job' = [job EXCEPT !.pass = k, !.left = n]
      BY <1>4
    <3> HIDE DEF n, k
    <3>3. job' \in JobType /\ job'.left = n /\ job'.snap = job.snap /\ job'.step = job.step
      BY <3>1, <3>2, <2>1 DEF JobType
    <3> QED BY <3>1, <3>3
  <2>4. job.step = "clear"
    BY <1>4, PassFacts DEF TypeInv, JobOK
  <2>5. TypeOK'
    BY <1>1, <2>3, <1>4 DEF TypeInv, TypeOK, Tree, JobType
  <2>6. JobOK'
    BY <2>3, <2>4 DEF JobOK, TypeInv, Loop
  <2> QED BY <2>5, <2>6 DEF TypeInv
<1> QED BY <1>2, <1>3, <1>4 DEF Loop

LEMMA MkDirType ==
  ASSUME TypeInv, MkDir, UNCHANGED <<start, plan>>
  PROVE  TypeInv'
<1>1. job.pass > 0 /\ job.left > 0 /\ content' = content /\ outside' = outside
  BY DEF MkDir, Doing
<1>2. Now.path \in Paths
  BY <1>1, NowFacts DEF TypeInv
<1>3. Tree(fs) /\ content' \in [Inodes -> Seq(Chunks)] /\ outside' \in BOOLEAN
  BY <1>1 DEF TypeInv, TypeOK, Tree
<1>4. CASE CreatesDir(fs, Now.path) /\ fs' = WithDir(fs, Now.path) /\ Proceed
  <2>1. Tree(fs')
    BY <1>2, <1>3, <1>4, WithDirFacts
  <2> QED BY <2>1, <1>1, <1>3, <1>4, ProceedInv
<1>5. CASE Ended("refused") /\ fs' = fs
  BY <1>3, <1>5, EndedInv
<1> QED BY <1>4, <1>5 DEF MkDir

\* What Clear does, in the names of its LET.
ClearTree  == IF Len(Now.path) = 1 THEN fs ELSE WithDir(fs, Front(Now.path))
ClearMade  == Len(Now.path) > 1 => CreatesDir(fs, Front(Now.path))
ClearSrc   == IF Now.kind = "hardlink" THEN Target(ClearTree, Now) ELSE <<>>
ClearGood  == /\ ClearMade /\ ParentWithin(ClearTree, Now.path)
              /\ Now.kind = "hardlink" => ClearSrc # <<>>
              /\ MayRemove(ClearTree, Now.path)

\* What Clear does, in the names of its LET.
LEMMA ClearCases ==
  ASSUME Clear
  PROVE  /\ job.pass > 0 /\ job.left > 0 /\ job.step = "clear"
         /\ Now.kind \in Passes[job.pass] /\ Now.kind \in {"file", "hardlink", "symlink"}
         /\ content' = content /\ outside' = outside
         /\ \/ /\ ClearGood /\ fs' \in RemoveExisting(ClearTree, Now.path)
               /\ job' = [job EXCEPT !.step = "make", !.src = ClearSrc] /\ res' = res
            \/ ClearGood /\ fs' \in PartlyRemoved(ClearTree, Now.path) /\ Ended("failed")
            \/ ~ClearGood /\ Ended("refused") /\ fs' = IF ClearMade THEN ClearTree ELSE fs
BY DEF Clear, Doing, ClearTree, ClearMade, ClearSrc, ClearGood

\* With the parents made, all that is above the entry is a directory.
LEMMA ClearTreeFacts ==
  ASSUME Tree(fs), Now.path \in Paths, ClearMade
  PROVE  /\ Tree(ClearTree)
         /\ \A q \in Above(Now.path) : ClearTree[q].kind = "dir"
         /\ \A q \in Paths : ClearTree[q] = fs[q] \/ (fs[q].kind = "none" /\ q \in Above(Now.path)
                                                    /\ ClearTree[q] = Folder)
<1> DEFINE p == Now.path
<1>1. CASE Len(p) = 1
  BY <1>1, FrontFacts DEF ClearTree
<1>2. CASE Len(p) # 1
  <2>1. Len(p) > 1 /\ Front(p) \in Paths /\ Along(Front(p)) = Above(p)
    BY <1>2, FrontFacts
  <2>2. CreatesDir(fs, Front(p))
    BY <2>1 DEF ClearMade
  <2>3. ClearTree = WithDir(fs, Front(p))
    BY <1>2 DEF ClearTree
  <2> QED BY <2>1, <2>2, <2>3, WithDirFacts
<1> QED BY <1>1, <1>2

\* The target of a hard link is a path of the tree, or there is none.
LEMMA TargetFacts ==
  ASSUME NEW f, NEW e
  PROVE  Target(f, e) \in Paths \cup {<<>>}
BY DEF Target

LEMMA ClearType ==
  ASSUME TypeInv, Clear, UNCHANGED <<start, plan>>
  PROVE  TypeInv'
<1>1. /\ job.pass > 0 /\ job.left > 0 /\ job.step = "clear"
      /\ Now.kind \in Passes[job.pass] /\ Now.kind \in {"file", "hardlink", "symlink"}
      /\ content' = content /\ outside' = outside
  BY ClearCases
<1>2. Now.path \in Paths
  BY <1>1, NowFacts DEF TypeInv
<1>3. Tree(fs) /\ content' \in [Inodes -> Seq(Chunks)] /\ outside' \in BOOLEAN /\ job \in JobType
  BY <1>1 DEF TypeInv, TypeOK, Tree, JobType
<1>4. CASE /\ ClearGood /\ fs' \in RemoveExisting(ClearTree, Now.path)
           /\ job' = [job EXCEPT !.step = "make", !.src = ClearSrc] /\ res' = res
  <2>1. Tree(ClearTree)
    BY <1>2, <1>3, <1>4, ClearTreeFacts DEF ClearGood
  <2>2. Tree(fs')
    BY <2>1, <1>2, <1>4, RemoveFacts, RemoveExistingFacts
  <2>3. ClearSrc \in Paths \cup {<<>>} /\ (Now.kind = "hardlink" => ClearSrc \in Paths)
    BY <1>4, TargetFacts DEF ClearSrc, ClearGood
  <2>4. /\ job' \in JobType /\ job'.snap = job.snap /\ job'.pass = job.pass /\ job'.left = job.left
        /\ job'.step = "make" /\ job'.src = ClearSrc
    <3> DEFINE t == ClearSrc
    <3>1. job' = [job EXCEPT !.step = "make", !.src = t] /\ t \in Paths \cup {<<>>}
      BY <1>4, <2>3
    <3> HIDE DEF t
    <3>2. /\ job' \in JobType /\ job'.snap = job.snap /\ job'.pass = job.pass /\ job'.left = job.left
          /\ job'.step = "make" /\ job'.src = t
      BY <3>1, <1>3 DEF JobType
    <3> QED BY <3>2 DEF t
  <2>5. res' = res
    BY <1>4
  <2> QED BY <1>1, <1>3, <2>2, <2>3, <2>4, <2>5, StepInv
<1>5. CASE Ended("refused") /\ fs' = IF ClearMade THEN ClearTree ELSE fs
  <2>1. Tree(fs')
    BY <1>2, <1>3, <1>5, ClearTreeFacts
  <2> QED BY <2>1, <1>3, <1>5, EndedInv
<1>6. CASE ClearGood /\ fs' \in PartlyRemoved(ClearTree, Now.path) /\ Ended("failed")
  <2>1. Tree(ClearTree)
    BY <1>2, <1>3, <1>6, ClearTreeFacts DEF ClearGood
  <2>2. Tree(fs')
    BY <2>1, <1>2, <1>6, RemoveFacts
  <2> QED BY <2>2, <1>3, <1>6, EndedInv
<1> QED BY <1>4, <1>5, <1>6, ClearCases

\* What CreateFile does, in the names of its LET.
At      == Resolve(fs, Now.path)
There   == At.end = "here" /\ At.at \in Paths /\ fs[At.at].kind = "file"
Vacant  == At.end = "absent" /\ Creatable(fs, At.at)
FileIno == IF There THEN fs[At.at].ino ELSE NewInode

LEMMA CreateCases ==
  ASSUME CreateFile
  PROVE  /\ job.pass > 0 /\ job.left > 0 /\ job.step = "make"
         /\ Now.kind \in Passes[job.pass] /\ Now.kind = "file"
         /\ \/ /\ There \/ Vacant
               /\ content' = [content EXCEPT ![FileIno] = <<>>] /\ outside' = outside
               /\ fs' = IF There THEN fs ELSE [fs EXCEPT ![At.at] = FileAt(FileIno)]
               /\ job' = [job EXCEPT !.step = "fill", !.ino = FileIno] /\ res' = res
            \/ /\ ~There /\ ~Vacant
               /\ outside' = (outside /\ At.end # "outside")
               /\ Ended("refused") /\ fs' = fs /\ content' = content
BY DEF CreateFile, Doing, At, There, Vacant, FileIno

LEMMA CreateType ==
  ASSUME TypeInv, CreateFile, UNCHANGED <<start, plan>>
  PROVE  TypeInv'
<1>1. /\ job.pass > 0 /\ job.left > 0 /\ Now.kind \in Passes[job.pass] /\ Now.kind = "file"
  BY CreateCases
<1>2. /\ Tree(fs) /\ content \in [Inodes -> Seq(Chunks)] /\ outside \in BOOLEAN /\ job \in JobType
      /\ fs \in [Paths -> Node]
  BY DEF TypeInv, TypeOK, Tree, JobType
<1>3. CASE /\ There \/ Vacant
           /\ content' = [content EXCEPT ![FileIno] = <<>>] /\ outside' = outside
           /\ fs' = IF There THEN fs ELSE [fs EXCEPT ![At.at] = FileAt(FileIno)]
           /\ job' = [job EXCEPT !.step = "fill", !.ino = FileIno] /\ res' = res
  <2>1. FileIno \in Inodes
    BY <1>2, FreeInode DEF FileIno, There, Tree, Rooted
  <2>2. content' \in [Inodes -> Seq(Chunks)]
    BY <1>2, <1>3, EmptySeq
  <2>3. Tree(fs')
    <3>1. CASE There
      BY <3>1, <1>2, <1>3
    <3>2. CASE ~There
      <4>1. Creatable(fs, At.at) /\ At.at \in Paths
        BY <3>2, <1>3 DEF Vacant, Creatable
      <4>2. FileAt(FileIno) \in Node /\ FileAt(FileIno).ino \in Inodes
        BY <2>1, NodeFacts
      <4> QED BY <4>1, <4>2, <3>2, <1>2, <1>3, PutFacts
    <3> QED BY <3>1, <3>2
  <2>4. /\ job' \in JobType /\ job'.snap = job.snap /\ job'.pass = job.pass /\ job'.left = job.left
        /\ job'.step = "fill" /\ job'.ino \in Inodes
    <3> DEFINE i == FileIno
    <3>1. job' = [job EXCEPT !.step = "fill", !.ino = i] /\ i \in Inodes
      BY <1>3, <2>1
    <3> HIDE DEF i
    <3> QED BY <3>1, <1>2 DEF JobType
  <2>5. outside' \in BOOLEAN /\ res' = res
    BY <1>2, <1>3
  <2> QED BY <1>1, <2>2, <2>3, <2>4, <2>5, StepInv
<1>4. CASE /\ outside' = (outside /\ At.end # "outside")
           /\ Ended("refused") /\ fs' = fs /\ content' = content
  <2>1. outside' \in BOOLEAN
    BY <1>4
  <2> QED BY <2>1, <1>2, <1>4, EndedInv
<1> QED BY <1>3, <1>4, CreateCases

LEMMA FillType ==
  ASSUME TypeInv, Fill, UNCHANGED <<start, plan>>
  PROVE  TypeInv'
<1>1. /\ job.pass > 0 /\ job.left > 0 /\ job.step = "fill" /\ Now.kind = "file" /\ fs' = fs /\ outside' = outside
  BY DEF Fill, Doing
<1>2. /\ Tree(fs') /\ content \in [Inodes -> Seq(Chunks)] /\ outside' \in BOOLEAN /\ job \in JobType
      /\ job.ino \in Inodes
  BY <1>1 DEF TypeInv, TypeOK, Tree, JobType, JobOK
<1>3. Now.chunks \in Seq(Chunks)
  BY <1>1, NowFacts, EntryFacts DEF TypeInv
<1>4. CASE /\ Len(content[job.ino]) < Len(Now.chunks)
           /\ content' = [content EXCEPT ![job.ino] = Append(@, Now.chunks[Len(@) + 1])]
           /\ UNCHANGED <<job, res>>
  <2> DEFINE c == content[job.ino]
             n == Len(c)
             m == Len(Now.chunks)
  <2>1. c \in Seq(Chunks) /\ n \in Nat /\ m \in Nat /\ n < m
    BY <1>2, <1>3, <1>4, LenProperties
  <2>2. n + 1 \in 1..m
    <3> HIDE DEF n, m
    <3> QED BY <2>1
  <2>3. Now.chunks[n + 1] \in Chunks
    BY <1>3, <2>2, ElementOfSeq
  <2> DEFINE d == Append(c, Now.chunks[n + 1])
  <2>4. d \in Seq(Chunks)
    BY <2>1, <2>3, AppendProperties
  <2>5. content' = [content EXCEPT ![job.ino] = d]
    BY <1>2, <1>4
  <2> HIDE DEF d
  <2>6. content' \in [Inodes -> Seq(Chunks)]
    BY <1>2, <2>4, <2>5
  <2>7. TypeOK'
    BY <1>1, <1>2, <1>4, <2>6 DEF TypeInv, TypeOK, Tree
  <2>8. JobOK'
    BY <1>4 DEF TypeInv, JobOK, Now, Position
  <2> QED BY <2>7, <2>8 DEF TypeInv
<1>5. CASE Ended("failed") /\ content' = content
  BY <1>2, <1>5, EndedInv
<1>6. CASE Proceed /\ content' = content
  BY <1>1, <1>2, <1>6, ProceedInv
<1> QED BY <1>4, <1>5, <1>6 DEF Fill

\* What MakeLink puts in place.
LinkNode == IF Now.kind = "hardlink" THEN FileAt(fs[job.src].ino) ELSE LinkTo(Now.to)
LinkFree == Creatable(fs, Now.path) /\ (Now.kind = "hardlink" => fs[job.src].kind = "file")

\* What MakeLink does.
LEMMA LinkCases ==
  ASSUME MakeLink
  PROVE  /\ job.pass > 0 /\ job.left > 0 /\ job.step = "make"
         /\ Now.kind \in Passes[job.pass] /\ Now.kind \in {"hardlink", "symlink"}
         /\ content' = content /\ outside' = outside
         /\ \/ LinkFree /\ Proceed /\ fs' = [fs EXCEPT ![Now.path] = LinkNode]
            \/ ~LinkFree /\ Ended("refused") /\ fs' = fs
BY DEF MakeLink, Doing, LinkNode, LinkFree

\* What MakeLink makes is a node.
LEMMA LinkNodeFacts ==
  ASSUME TypeInv, job.pass > 0, job.left > 0, job.step = "make", Now.kind \in {"hardlink", "symlink"}, LinkFree
  PROVE  LinkNode \in Node /\ (LinkNode.kind = "file" => LinkNode.ino \in Inodes) /\ LinkNode.kind # "none"
<1>1. Now \in Entry
  BY NowFacts DEF TypeInv
<1>2. CASE Now.kind = "hardlink"
  <2>1. job.src \in Paths /\ fs[job.src].kind = "file"
    BY <1>2 DEF TypeInv, JobOK, LinkFree
  <2>2. fs[job.src].ino \in Inodes
    BY <2>1 DEF TypeInv, TypeOK, Rooted
  <2> QED BY <1>2, <2>2, NodeFacts DEF LinkNode
<1>3. CASE Now.kind = "symlink"
  <2>1. Now.to \in Spelt
    BY <1>1, <1>3, EntryFacts
  <2>2. LinkNode = LinkTo(Now.to)
    BY <1>3 DEF LinkNode
  <2> QED BY <2>1, <2>2, NodeFacts
<1> QED BY <1>2, <1>3

LEMMA LinkType ==
  ASSUME TypeInv, MakeLink, UNCHANGED <<start, plan>>
  PROVE  TypeInv'
<1>1. /\ job.pass > 0 /\ job.left > 0 /\ job.step = "make" /\ Now.kind \in {"hardlink", "symlink"}
      /\ content' = content /\ outside' = outside
  BY LinkCases
<1>2. Tree(fs) /\ content' \in [Inodes -> Seq(Chunks)] /\ outside' \in BOOLEAN
  BY <1>1 DEF TypeInv, TypeOK, Tree
<1>3. CASE LinkFree /\ Proceed /\ fs' = [fs EXCEPT ![Now.path] = LinkNode]
  <2>1. LinkNode \in Node /\ (LinkNode.kind = "file" => LinkNode.ino \in Inodes)
    BY <1>1, <1>3, LinkNodeFacts
  <2>2. Creatable(fs, Now.path) /\ Now.path \in Paths
    BY <1>3 DEF LinkFree, Creatable
  <2>3. Tree(fs')
    BY <2>1, <2>2, <1>2, <1>3, PutFacts
  <2> QED BY <2>3, <1>1, <1>2, <1>3, ProceedInv
<1>4. CASE Ended("refused") /\ fs' = fs
  BY <1>2, <1>4, EndedInv
<1> QED BY <1>3, <1>4, LinkCases

\* What DirMode does.
LEMMA ModeCases ==
  ASSUME DirMode
  PROVE  /\ job.pass > 0 /\ job.left > 0 /\ job.step = "clear" /\ Now.kind = "dir" /\ job.pass = Len(Passes)
         /\ content' = content /\ outside' = outside /\ Proceed
         /\ fs' = fs \/ \E q \in Paths : fs[q].kind = "dir" /\ fs' = WithMode(fs, q, Now.locked)
BY DEF DirMode, Doing, WithMode

LEMMA ModeType ==
  ASSUME TypeInv, DirMode, UNCHANGED <<start, plan>>
  PROVE  TypeInv'
<1>1. /\ job.pass > 0 /\ job.left > 0 /\ Now.kind = "dir" /\ content' = content /\ outside' = outside /\ Proceed
  BY ModeCases
<1>2. Tree(fs) /\ content' \in [Inodes -> Seq(Chunks)] /\ outside' \in BOOLEAN
  BY <1>1 DEF TypeInv, TypeOK, Tree
<1>3. Now.locked \in BOOLEAN
  BY <1>1, NowFacts, EntryFacts DEF TypeInv
<1>4. Tree(fs')
  <2>1. ASSUME NEW q \in Paths, fs' = WithMode(fs, q, Now.locked) PROVE Tree(fs')
    BY <2>1, <1>2, <1>3, ModeFacts
  <2> QED BY <2>1, <1>2, ModeCases
<1> QED BY <1>1, <1>2, <1>4, ProceedInv

LEMMA NextType ==
  ASSUME TypeInv, [Next]_vars
  PROVE  TypeInv'
<1>1. CASE UNCHANGED vars
  BY <1>1 DEF vars, TypeInv, TypeOK, JobOK, Now, Position
<1>2. CASE Next
  <2>0. UNCHANGED <<start, plan>>
    BY <1>2 DEF Next
  <2>1. ASSUME NEW s \in plan.snaps, Call(s) PROVE TypeInv'
    BY <2>0, <2>1, CallType
  <2>2. CASE Loop
    BY <2>0, <2>2, LoopType
  <2>3. CASE MkDir
    BY <2>0, <2>3, MkDirType
  <2>4. CASE Clear
    BY <2>0, <2>4, ClearType
  <2>5. CASE CreateFile
    BY <2>0, <2>5, CreateType
  <2>6. CASE Fill
    BY <2>0, <2>6, FillType
  <2>7. CASE MakeLink
    BY <2>0, <2>7, LinkType
  <2>8. CASE DirMode
    BY <2>0, <2>8, ModeType
  <2>9. CASE Stop
    <3>1. Ended("failed") /\ Tree(fs') /\ content' \in [Inodes -> Seq(Chunks)] /\ outside' \in BOOLEAN
      BY <2>9 DEF Stop, TypeInv, TypeOK, Tree
    <3> QED BY <3>1, <2>0, EndedInv
  <2> QED BY <1>2, <2>1, <2>2, <2>3, <2>4, <2>5, <2>6, <2>7, <2>8, <2>9 DEF Next
<1> QED BY <1>1, <1>2

LEMMA TypeAlways == Spec => []TypeInv
<1>1. Init => TypeInv
  BY InitType
<1>2. TypeInv /\ [Next]_vars => TypeInv'
  BY NextType
<1> QED BY <1>1, <1>2, PTL DEF Spec

\* reconstruct_tree and its helpers keep the destination a tree: whatever is
\* there is in a directory, at every step, whatever the index and whatever the
\* directory held.
THEOREM DestinationIsATree == Spec => []TypeOK
<1>1. TypeInv => TypeOK
  BY DEF TypeInv
<1> QED BY <1>1, TypeAlways, PTL

-----------------------------------------------------------------------------
(* What a step does to the destination. *)

\* An entry is written with directories above it.
AboveInv == job.step # "clear" => \A q \in Above(Now.path) : fs[q].kind = "dir"

\* What MkDir does to each node.
LEMMA MkDirEffect ==
  ASSUME TypeInv, MkDir
  PROVE  /\ job.pass > 0 /\ job.left > 0 /\ Now.kind = "dir" /\ Now.path \in Paths
         /\ content' = content /\ outside' = outside
         /\ \A q \in Paths : fs'[q] = fs[q] \/ (fs[q].kind = "none" /\ q \in Along(Now.path) /\ fs'[q] = Folder)
         /\ \/ Proceed /\ fs'[Now.path].kind = "dir"
            \/ Ended("refused") /\ ~CreatesDir(fs, Now.path)
<1>1. job.pass > 0 /\ job.left > 0 /\ Now.kind = "dir" /\ content' = content /\ outside' = outside
  BY DEF MkDir, Doing
<1>2. Now.path \in Paths
  BY <1>1, NowFacts DEF TypeInv
<1>3. Tree(fs)
  BY DEF TypeInv, TypeOK, Tree
<1>4. CASE CreatesDir(fs, Now.path) /\ fs' = WithDir(fs, Now.path) /\ Proceed
  <2>1. /\ \A q \in Along(Now.path) : fs'[q].kind = "dir"
        /\ \A q \in Paths : fs'[q] = fs[q] \/ (fs[q].kind = "none" /\ q \in Along(Now.path) /\ fs'[q] = Folder)
    BY <1>2, <1>3, <1>4, WithDirFacts
  <2>2. fs'[Now.path].kind = "dir"
    BY <1>2, <2>1, PathFacts
  <2> QED BY <1>1, <1>2, <1>4, <2>1, <2>2
<1>5. CASE ~CreatesDir(fs, Now.path) /\ Ended("refused") /\ fs' = fs
  BY <1>1, <1>2, <1>5
<1> QED BY <1>4, <1>5 DEF MkDir

\* What Clear does to each node: it adds parents and removes what is in the
\* place of its entry.
LEMMA ClearEffect ==
  ASSUME TypeInv, Clear, UNCHANGED <<start, plan>>
  PROVE  /\ job.pass > 0 /\ job.left > 0 /\ Now.kind \in {"file", "hardlink", "symlink"}
         /\ Now.kind \in Passes[job.pass] /\ Now.path \in Paths /\ content' = content /\ outside' = outside
         /\ \A q \in Paths : \/ fs'[q] = fs[q]
                             \/ fs[q].kind = "none" /\ q \in Above(Now.path) /\ fs'[q] = Folder
                             \/ ClearGood /\ Now.path \in Along(q) /\ fs'[q] = Nothing
         /\ \/ /\ ClearGood /\ \A q \in Above(Now.path) : fs'[q].kind = "dir"
               /\ (\A q \in Paths : ~fs[q].locked) => fs'[Now.path].kind = "none"
               /\ job' = [job EXCEPT !.step = "make", !.src = ClearSrc] /\ res' = res
               /\ job'.snap = job.snap /\ job'.pass = job.pass /\ job'.left = job.left
               /\ job'.step = "make" /\ job'.src = ClearSrc /\ Now' = Now
            \/ Ended("failed") \/ (Ended("refused") /\ ~ClearGood)
<1> DEFINE p == Now.path
<1>1. /\ job.pass > 0 /\ job.left > 0 /\ Now.kind \in {"file", "hardlink", "symlink"}
      /\ Now.kind \in Passes[job.pass] /\ content' = content /\ outside' = outside
  BY ClearCases
<1>2. p \in Paths
  BY <1>1, NowFacts DEF TypeInv
<1>3. Tree(fs) /\ job \in JobType
  BY DEF TypeInv, TypeOK, Tree, JobType
<1>4. ASSUME ClearGood, fs' \in PartlyRemoved(ClearTree, p)
      PROVE  /\ \A q \in Paths : \/ fs'[q] = fs[q]
                                 \/ fs[q].kind = "none" /\ q \in Above(p) /\ fs'[q] = Folder
                                 \/ p \in Along(q) /\ fs'[q] = Nothing
             /\ \A q \in Above(p) : fs'[q].kind = "dir"
  <2>1. /\ Tree(ClearTree) /\ \A q \in Above(p) : ClearTree[q].kind = "dir"
        /\ \A q \in Paths : ClearTree[q] = fs[q] \/ (fs[q].kind = "none" /\ q \in Above(p) /\ ClearTree[q] = Folder)
    BY <1>2, <1>3, <1>4, ClearTreeFacts DEF ClearGood
  <2>2. /\ \A q \in Paths : fs'[q] = ClearTree[q] \/ (p \in Along(q) /\ fs'[q] = Nothing)
        /\ \A q \in Above(p) : fs'[q] = ClearTree[q]
    BY <2>1, <1>2, <1>4, RemoveFacts
  <2>3. \A q \in Paths : \/ fs'[q] = fs[q]
                         \/ fs[q].kind = "none" /\ q \in Above(p) /\ fs'[q] = Folder
                         \/ p \in Along(q) /\ fs'[q] = Nothing
    <3> HIDE DEF p
    <3> TAKE q \in Paths
    <3>1. CASE p \in Along(q) /\ fs'[q] = Nothing
      BY <3>1
    <3>2. CASE fs'[q] = ClearTree[q]
      BY <3>2, <2>1
    <3> QED BY <3>1, <3>2, <2>2
  <2>4. \A q \in Above(p) : fs'[q].kind = "dir"
    BY <2>1, <2>2
  <2> QED BY <2>3, <2>4
<1>5. CASE /\ ClearGood /\ fs' \in RemoveExisting(ClearTree, p)
           /\ job' = [job EXCEPT !.step = "make", !.src = ClearSrc] /\ res' = res
  <2>1. /\ Tree(ClearTree)
        /\ \A q \in Paths : ClearTree[q] = fs[q] \/ (fs[q].kind = "none" /\ q \in Above(p) /\ ClearTree[q] = Folder)
    BY <1>2, <1>3, <1>5, ClearTreeFacts DEF ClearGood
  <2>2. fs' \in PartlyRemoved(ClearTree, p) /\ ((\A q \in Paths : ~ClearTree[q].locked) => fs'[p].kind = "none")
    BY <2>1, <1>2, <1>5, RemoveExistingFacts
  <2>3. ASSUME \A q \in Paths : ~fs[q].locked PROVE fs'[p].kind = "none"
    <3>1. ASSUME NEW q \in Paths PROVE ~ClearTree[q].locked
      <4>1. CASE ClearTree[q] = fs[q]
        BY <4>1, <2>3
      <4>2. CASE ClearTree[q] = Folder
        BY <4>2, NodeFacts
      <4> QED BY <4>1, <4>2, <2>1
    <3> QED BY <3>1, <2>2
  <2>4. /\ job'.snap = job.snap /\ job'.pass = job.pass /\ job'.left = job.left
        /\ job'.step = "make" /\ job'.src = ClearSrc
    <3> DEFINE t == ClearSrc
    <3>1. job' = [job EXCEPT !.step = "make", !.src = t]
      BY <1>5
    <3> HIDE DEF t
    <3>2. /\ job'.snap = job.snap /\ job'.pass = job.pass /\ job'.left = job.left
          /\ job'.step = "make" /\ job'.src = t
      BY <3>1, <1>3 DEF JobType
    <3> QED BY <3>2 DEF t
  <2>5. Now' = Now
    BY <2>4 DEF Now, Position
  <2>6. /\ \A q \in Paths : \/ fs'[q] = fs[q]
                            \/ fs[q].kind = "none" /\ q \in Above(p) /\ fs'[q] = Folder
                            \/ ClearGood /\ p \in Along(q) /\ fs'[q] = Nothing
        /\ \A q \in Above(p) : fs'[q].kind = "dir"
    BY <1>4, <1>5, <2>2, Zenon
  <2> HIDE DEF p
  <2> QED BY <1>1, <1>2, <1>5, <2>3, <2>4, <2>5, <2>6, Zenon DEF p
<1>6. CASE ~ClearGood /\ Ended("refused") /\ fs' = IF ClearMade THEN ClearTree ELSE fs
  <2>1. \A q \in Paths : fs'[q] = fs[q] \/ (fs[q].kind = "none" /\ q \in Above(p) /\ fs'[q] = Folder)
    BY <1>2, <1>3, <1>6, ClearTreeFacts
  <2> QED BY <1>1, <1>2, <1>6, <2>1
<1>7. CASE ClearGood /\ fs' \in PartlyRemoved(ClearTree, p) /\ Ended("failed")
  <2>1. \A q \in Paths : \/ fs'[q] = fs[q]
                         \/ fs[q].kind = "none" /\ q \in Above(p) /\ fs'[q] = Folder
                         \/ ClearGood /\ p \in Along(q) /\ fs'[q] = Nothing
    BY <1>4, <1>7, Zenon
  <2> QED BY <1>1, <1>2, <1>7, <2>1, Zenon
<1> QED BY <1>5, <1>6, <1>7, ClearCases

\* The directories above an entry that is being written stay.
LEMMA AboveStep ==
  ASSUME TypeInv, AboveInv, [Next]_vars
  PROVE  AboveInv'
<1>0. job \in JobType
  BY DEF TypeInv, TypeOK, JobType
<1>1. CASE UNCHANGED vars
  BY <1>1 DEF vars, AboveInv, Now, Position
<1>2. CASE Next
  <2>0. UNCHANGED <<start, plan>>
    BY <1>2 DEF Next
  <2>a. ASSUME job'.step = "clear" PROVE AboveInv'
    BY <2>a DEF AboveInv
  <2>b. ASSUME Proceed PROVE AboveInv'
    <3>1. job'.step = "clear"
      BY <2>b, <1>0 DEF Proceed, JobType
    <3> QED BY <3>1, <2>a
  <2>c. ASSUME NEW how, Ended(how) PROVE AboveInv'
    <3>1. job'.step = "clear"
      BY <2>c DEF Ended, NoJob
    <3> QED BY <3>1, <2>a
  <2>1. ASSUME NEW s \in plan.snaps, Call(s) PROVE AboveInv'
    <3>1. job'.step = "clear"
      BY <2>1 DEF Call, NoJob
    <3> QED BY <3>1, <2>a
  <2>2. CASE Loop
    <3>1. CASE job.left = 0 /\ job' = [job EXCEPT !.pass = @ + 1, !.left = Len(job.snap)]
      <4>1. job'.step = job.step /\ job.step = "clear"
        BY <3>1, <1>0 DEF JobType, TypeInv, JobOK
      <4> QED BY <4>1, <2>a
    <3> QED BY <2>2, <3>1, <2>b, <2>c DEF Loop
  <2>3. CASE MkDir
    BY <2>3, <2>b, <2>c DEF MkDir
  <2>4. CASE Clear
    <3>1. CASE Ended("refused") \/ Ended("failed")
      BY <3>1, <2>c
    <3>2. CASE (\A q \in Above(Now.path) : fs'[q].kind = "dir") /\ Now' = Now
      BY <3>2 DEF AboveInv
    <3> QED BY <3>1, <3>2, <2>4, <2>0, ClearEffect
  <2>5. CASE CreateFile
    <3>1. CASE /\ There \/ Vacant
               /\ fs' = IF There THEN fs ELSE [fs EXCEPT ![At.at] = FileAt(FileIno)]
               /\ job' = [job EXCEPT !.step = "fill", !.ino = FileIno]
      <4>1. Now' = Now
        BY <3>1, <1>0 DEF Now, Position, JobType
      <4>2. job.step = "make"
        BY <2>5, CreateCases
      <4>3. fs \in [Paths -> Node] /\ Now.path \in Paths
        BY <2>5, CreateCases, NowFacts DEF TypeInv, TypeOK
      <4>4. ASSUME NEW q \in Above(Now.path) PROVE fs'[q].kind = "dir"
        <5>1. q \in Paths /\ fs[q].kind = "dir"
          BY <4>2, <4>3, PathFacts DEF AboveInv
        <5>2. CASE There
          BY <5>1, <5>2, <3>1
        <5>3. CASE ~There
          <6>1. q # At.at
            BY <5>1, <5>3, <3>1 DEF Vacant, Creatable
          <6> QED BY <6>1, <5>1, <5>3, <3>1, <4>3
        <5> QED BY <5>2, <5>3
      <4> QED BY <4>1, <4>4 DEF AboveInv
    <3>2. CASE Ended("refused")
      BY <3>2, <2>c
    <3> QED BY <3>1, <3>2, <2>5, CreateCases
  <2>6. CASE Fill
    <3>1. CASE UNCHANGED <<job, res>>
      BY <2>6, <3>1 DEF Fill, AboveInv, Now, Position
    <3> QED BY <2>6, <3>1, <2>b, <2>c DEF Fill
  <2>7. CASE MakeLink
    BY <2>7, <2>b, <2>c, LinkCases
  <2>8. CASE DirMode
    BY <2>8, <2>b, ModeCases
  <2>9. CASE Stop
    BY <2>9, <2>c DEF Stop
  <2> QED BY <1>2, <2>1, <2>2, <2>3, <2>4, <2>5, <2>6, <2>7, <2>8, <2>9 DEF Next
<1> QED BY <1>1, <1>2

-----------------------------------------------------------------------------
(* What no entry stands for is kept. *)

\* Every directory can be written to.
Unlocked == \A p \in Paths : ~fs[p].locked

\* Without locked directories an entry is written where nothing is, and the
\* inode that is being filled is its own.
PlaceInv ==
  /\ job.step = "make" => fs[Now.path].kind = "none"
  /\ job.step = "fill" => /\ fs[Now.path] = FileAt(job.ino)
                          /\ \A q \in Paths : q # Now.path => fs[q].ino # job.ino
\* What OthersKept says of the present state.
Kept == outside /\ \A p \in Paths :
  start.fs[p].kind = "file" /\ ~Given(p)
    => fs[p] = start.fs[p] /\ content[fs[p].ino] = start.content[fs[p].ino]
\* The inductive invariant behind OthersKept.
KeepInv == AboveInv /\ (NoLocks => Unlocked /\ PlaceInv /\ Kept)

\* Nothing locks a directory unless an entry says so.
LEMMA UnlockedStep ==
  ASSUME TypeInv, NoLocks, Unlocked, [Next]_vars
  PROVE  Unlocked'
<1>1. CASE fs' = fs
  BY <1>1 DEF Unlocked
<1>2. CASE Next
  <2>0. UNCHANGED <<start, plan>>
    BY <1>2 DEF Next
  <2>1. CASE MkDir
    <3> SUFFICES ASSUME NEW q \in Paths PROVE ~fs'[q].locked
      BY DEF Unlocked
    <3>1. fs'[q] = fs[q] \/ fs'[q] = Folder
      BY <2>1, MkDirEffect
    <3> QED BY <3>1, NodeFacts DEF Unlocked
  <2>2. CASE Clear
    <3> SUFFICES ASSUME NEW q \in Paths PROVE ~fs'[q].locked
      BY DEF Unlocked
    <3>1. fs'[q] = fs[q] \/ fs'[q] = Folder \/ fs'[q] = Nothing
      BY <2>0, <2>2, ClearEffect, Zenon
    <3> QED BY <3>1, NodeFacts DEF Unlocked
  <2>3. CASE CreateFile
    <3> SUFFICES ASSUME NEW q \in Paths PROVE ~fs'[q].locked
      BY DEF Unlocked
    <3>1. fs \in [Paths -> Node]
      BY DEF TypeInv, TypeOK
    <3>2. fs'[q] = fs[q] \/ fs'[q] = FileAt(FileIno)
      BY <2>3, <3>1, CreateCases
    <3>3. FileAt(FileIno).locked = FALSE
      BY DEF FileAt, Nothing
    <3> QED BY <3>2, <3>3 DEF Unlocked
  <2>4. CASE MakeLink
    <3> SUFFICES ASSUME NEW q \in Paths PROVE ~fs'[q].locked
      BY DEF Unlocked
    <3>1. fs \in [Paths -> Node]
      BY DEF TypeInv, TypeOK
    <3>2. fs'[q] = fs[q] \/ fs'[q] = LinkNode
      BY <2>4, <3>1, LinkCases
    <3>3. LinkNode.locked = FALSE
      BY DEF LinkNode, FileAt, LinkTo, Nothing
    <3> QED BY <3>2, <3>3 DEF Unlocked
  <2>5. CASE DirMode
    <3>1. job.pass > 0 /\ job.left > 0 /\ Now.kind = "dir"
      BY <2>5, ModeCases
    <3>2. /\ Position \in DOMAIN job.snap /\ Now = job.snap[Position] /\ job.snap \in plan.snaps
          /\ Now \in Entry
      BY <3>1, NowFacts DEF TypeInv, JobOK
    <3>3. ~Now.locked /\ Now.locked \in BOOLEAN
      BY <3>1, <3>2, EntryFacts DEF NoLocks
    <3>4. Tree(fs)
      BY DEF TypeInv, TypeOK, Tree
    <3>5. ASSUME NEW p \in Paths, fs' = WithMode(fs, p, Now.locked) PROVE Unlocked'
      <4>1. \A q \in Paths : fs'[q].locked = IF q = p THEN Now.locked ELSE fs[q].locked
        BY <3>3, <3>4, <3>5, ModeFacts
      <4> QED BY <4>1, <3>3 DEF Unlocked
    <3> QED BY <3>5, <1>1, <2>5, ModeCases
  <2>6. CASE Fill \/ Loop \/ Stop \/ \E s \in plan.snaps : Call(s)
    BY <2>6, <1>1 DEF Fill, Loop, Stop, Call
  <2> QED BY <1>2, <2>1, <2>2, <2>3, <2>4, <2>5, <2>6 DEF Next
<1> QED BY <1>1, <1>2 DEF vars

\* File::create finds the name free, in the entry's own place.
LEMMA CreateVacant ==
  ASSUME TypeInv, AboveInv, Unlocked, PlaceInv, CreateFile
  PROVE  /\ Now.path \in Paths /\ At.at = Now.path /\ At.end = "absent" /\ Vacant /\ ~There /\ FileIno = NewInode
         /\ fs[Now.path].kind = "none"
<1>1. job.pass > 0 /\ job.left > 0 /\ job.step = "make"
  BY CreateCases
<1>2. Now.path \in Paths /\ fs \in [Paths -> Node] /\ DOMAIN fs = Paths
  BY <1>1, NowFacts DEF TypeInv, TypeOK
<1>3. fs[Now.path].kind = "none" /\ \A q \in Above(Now.path) : fs[q].kind = "dir"
  BY <1>1 DEF AboveInv, PlaceInv
<1>4. At.at = Now.path /\ At.end = "absent"
  BY <1>2, <1>3, WalkDirs DEF At
<1>5. Len(Now.path) > 1 => Front(Now.path) \in Paths
  <2>1. Len(Now.path) \in Nat
    BY <1>2, PathFacts
  <2>2. \A l \in Nat : l > 1 => l # 1
    OBVIOUS
  <2>3. Len(Now.path) > 1 => Len(Now.path) # 1
    BY <2>1, <2>2, Zenon
  <2> QED BY <2>3, <1>2, FrontFacts, Zenon
<1>6. Open(fs, Now.path)
  BY <1>5 DEF Open, Unlocked
<1>7. Creatable(fs, Now.path)
  BY <1>2, <1>3, <1>6 DEF Creatable
<1> QED BY <1>2, <1>3, <1>4, <1>7 DEF Vacant, There, FileIno

\* A place once cleared stays clear until it is written.
LEMMA PlaceStep ==
  ASSUME TypeInv, AboveInv, Unlocked, PlaceInv, [Next]_vars
  PROVE  PlaceInv'
<1>0. job \in JobType /\ fs \in [Paths -> Node]
  BY DEF TypeInv, TypeOK, JobType
<1>1. CASE UNCHANGED vars
  BY <1>1 DEF vars, PlaceInv, Now, Position
<1>2. CASE Next
  <2>0. UNCHANGED <<start, plan>>
    BY <1>2 DEF Next
  <2>a. ASSUME job'.step = "clear" PROVE PlaceInv'
    BY <2>a DEF PlaceInv
  <2>b. ASSUME Proceed PROVE PlaceInv'
    <3>1. job'.step = "clear"
      BY <2>b, <1>0 DEF Proceed, JobType
    <3> QED BY <3>1, <2>a
  <2>c. ASSUME NEW how, Ended(how) PROVE PlaceInv'
    <3>1. job'.step = "clear"
      BY <2>c DEF Ended, NoJob
    <3> QED BY <3>1, <2>a
  <2>1. ASSUME NEW s \in plan.snaps, Call(s) PROVE PlaceInv'
    <3>1. job'.step = "clear"
      BY <2>1 DEF Call, NoJob
    <3> QED BY <3>1, <2>a
  <2>2. CASE Loop
    <3>1. CASE job.left = 0 /\ job' = [job EXCEPT !.pass = @ + 1, !.left = Len(job.snap)]
      <4>1. job'.step = job.step /\ job.step = "clear"
        BY <3>1, <1>0 DEF JobType, TypeInv, JobOK
      <4> QED BY <4>1, <2>a
    <3> QED BY <2>2, <3>1, <2>b, <2>c DEF Loop
  <2>3. CASE MkDir
    BY <2>3, <2>b, <2>c DEF MkDir
  <2>4. CASE Clear
    <3>1. CASE Ended("refused") \/ Ended("failed")
      BY <3>1, <2>c
    <3>2. CASE /\ (\A q \in Paths : ~fs[q].locked) => fs'[Now.path].kind = "none"
               /\ job'.step = "make" /\ Now' = Now
      <4>1. fs'[Now.path].kind = "none"
        BY <3>2 DEF Unlocked
      <4> QED BY <4>1, <3>2 DEF PlaceInv
    <3> QED BY <3>1, <3>2, <2>4, <2>0, ClearEffect
  <2>5. CASE CreateFile
    <3>1. /\ Now.path \in Paths /\ At.at = Now.path /\ Vacant /\ ~There /\ FileIno = NewInode
      BY <2>5, CreateVacant
    <3>2. /\ fs' = [fs EXCEPT ![Now.path] = FileAt(NewInode)]
          /\ job' = [job EXCEPT !.step = "fill", !.ino = NewInode]
      BY <2>5, <3>1, CreateCases
    <3>3. \A q \in Paths : fs[q].ino # NewInode
      BY <1>0, FreeInode
    <3>4. job'.ino = NewInode /\ job'.step = "fill" /\ job'.snap = job.snap /\ job'.pass = job.pass /\ job'.left = job.left
      BY <3>2, <1>0 DEF JobType
    <3>5. Now' = Now
      BY <3>4 DEF Now, Position
    <3>6. /\ fs'[Now.path] = FileAt(NewInode) /\ \A q \in Paths : q # Now.path => fs'[q].ino # NewInode
      BY <3>1, <3>2, <3>3, <1>0
    <3> QED BY <3>4, <3>5, <3>6 DEF PlaceInv
  <2>6. CASE Fill
    <3>1. CASE UNCHANGED <<job, res>>
      BY <2>6, <3>1 DEF Fill, PlaceInv, Now, Position
    <3> QED BY <2>6, <3>1, <2>b, <2>c DEF Fill
  <2>7. CASE MakeLink
    BY <2>7, <2>b, <2>c, LinkCases
  <2>8. CASE DirMode
    BY <2>8, <2>b, ModeCases
  <2>9. CASE Stop
    BY <2>9, <2>c DEF Stop
  <2> QED BY <1>2, <2>1, <2>2, <2>3, <2>4, <2>5, <2>6, <2>7, <2>8, <2>9 DEF Next
<1> QED BY <1>1, <1>2

\* The path at hand is one that an entry names.
LEMMA NowEntered ==
  ASSUME TypeInv, job.pass > 0, job.left > 0
  PROVE  Now.path \in Entered
<1>1. Position \in DOMAIN job.snap /\ Now = job.snap[Position] /\ job.snap \in plan.snaps
  BY NowFacts DEF TypeInv, JobOK
<1> QED BY <1>1 DEF Entered

\* Where no entry stands, and none above if directories may be replaced.
LEMMA NotGiven ==
  ASSUME NEW p \in Paths, ~Given(p)
  PROVE  p \notin Entered /\ (plan.replace => Along(p) \cap Entered = {})
<1>1. p \in Along(p)
  BY PathFacts
<1> QED BY <1>1 DEF Given

\* No step touches a file that no entry stands for, or its content.
LEMMA OtherStep ==
  ASSUME TypeInv, AboveInv, Unlocked, PlaceInv, Next,
         NEW p \in Paths, fs[p].kind = "file", ~Given(p)
  PROVE  fs'[p] = fs[p] /\ content'[fs[p].ino] = content[fs[p].ino]
<1>0. UNCHANGED <<start, plan>> /\ fs \in [Paths -> Node] /\ content \in [Inodes -> Seq(Chunks)]
      /\ fs[p].ino \in Inodes /\ Tree(fs)
  BY DEF Next, TypeInv, TypeOK, Rooted, Tree
<1>1. CASE MkDir
  BY <1>1, MkDirEffect
<1>2. CASE Clear
  <2> DEFINE r == Now.path
  <2>1. job.pass > 0 /\ job.left > 0 /\ r \in Paths /\ content' = content
    BY <1>0, <1>2, ClearEffect
  <2>2. r \in Entered
    BY <2>1, NowEntered
  <2>3. p # r
    BY <2>2, NotGiven
  <2>4. ASSUME ClearGood, r \in Along(p) PROVE FALSE
    <3>1. ~plan.replace
      BY <2>2, <2>4, NotGiven
    <3>2. r \in Above(p)
      BY <2>3, <2>4, PathFacts
    <3>3. fs[r].kind = "dir"
      BY <3>2 DEF TypeInv, TypeOK, Rooted
    <3>4. ClearTree[r] = fs[r]
      BY <3>3, <2>1, <2>4, <1>0, ClearTreeFacts DEF ClearGood
    <3> QED BY <3>1, <3>3, <3>4, <2>4 DEF ClearGood, MayRemove
  <2>5. fs'[p] = fs[p] \/ fs[p].kind = "none" \/ (ClearGood /\ r \in Along(p))
    BY <1>0, <1>2, ClearEffect, Zenon
  <2> QED BY <2>1, <2>4, <2>5
<1>3. CASE CreateFile
  <2>1. Now.path \in Paths /\ At.at = Now.path /\ Vacant /\ ~There /\ FileIno = NewInode
        /\ fs[Now.path].kind = "none"
    BY <1>3, CreateVacant
  <2>2. fs' = [fs EXCEPT ![Now.path] = FileAt(NewInode)] /\ content' = [content EXCEPT ![NewInode] = <<>>]
    BY <1>3, <2>1, CreateCases
  <2>3. fs[p].ino # NewInode /\ p # Now.path
    BY <1>0, <2>1, FreeInode
  <2> QED BY <2>2, <2>3, <1>0
<1>4. CASE Fill
  <2>1. job.pass > 0 /\ job.left > 0 /\ job.step = "fill" /\ fs' = fs
    BY <1>4 DEF Fill, Doing
  <2>2. p # Now.path
    BY <2>1, NowEntered, NotGiven
  <2>3. fs[p].ino # job.ino
    BY <2>1, <2>2 DEF PlaceInv
  <2>4. content' = content \/ content' = [content EXCEPT ![job.ino] = Append(@, Now.chunks[Len(@) + 1])]
    BY <1>4 DEF Fill
  <2> QED BY <2>1, <2>3, <2>4, <1>0
<1>5. CASE MakeLink
  <2>1. content' = content /\ (fs' = fs \/ (LinkFree /\ fs' = [fs EXCEPT ![Now.path] = LinkNode]))
    BY <1>5, LinkCases
  <2>2. LinkFree => p # Now.path
    BY DEF LinkFree, Creatable
  <2> QED BY <2>1, <2>2, <1>0
<1>6. CASE DirMode
  <2>1. job.pass > 0 /\ job.left > 0 /\ Now.kind = "dir" /\ content' = content
    BY <1>6, ModeCases
  <2>2. Now.locked \in BOOLEAN
    BY <2>1, NowFacts, EntryFacts DEF TypeInv
  <2>3. ASSUME NEW q \in Paths, fs[q].kind = "dir", fs' = WithMode(fs, q, Now.locked) PROVE fs'[p] = fs[p]
    BY <2>2, <2>3, <1>0, ModeFacts
  <2> QED BY <2>1, <2>3, <1>6, ModeCases
<1>7. CASE Loop \/ Stop \/ \E s \in plan.snaps : Call(s)
  BY <1>7 DEF Loop, Stop, Call
<1> QED BY <1>1, <1>2, <1>3, <1>4, <1>5, <1>6, <1>7 DEF Next

\* No step writes outside the root.
LEMMA OutsideStep ==
  ASSUME TypeInv, AboveInv, Unlocked, PlaceInv, Next
  PROVE  outside' = outside
<1>1. CASE CreateFile
  <2>1. Vacant
    BY <1>1, CreateVacant
  <2> QED BY <1>1, <2>1, CreateCases
<1>2. CASE MkDir \/ Clear \/ Fill \/ MakeLink \/ DirMode \/ Loop \/ Stop \/ \E s \in plan.snaps : Call(s)
  BY <1>2 DEF MkDir, Clear, Fill, MakeLink, DirMode, Loop, Stop, Call
<1> QED BY <1>1, <1>2 DEF Next

\* Every step keeps what no entry stands for.
LEMMA KeepStep ==
  ASSUME TypeInv, KeepInv, [Next]_vars
  PROVE  KeepInv'
<1>1. AboveInv'
  BY AboveStep DEF KeepInv
<1>2. ASSUME NoLocks' PROVE Unlocked' /\ PlaceInv' /\ Kept'
  <2>0. start' = start /\ plan' = plan
    BY DEF Next, vars
  <2>1. NoLocks /\ Unlocked /\ PlaceInv /\ Kept /\ AboveInv
    BY <1>2, <2>0 DEF NoLocks, KeepInv
  <2>2. Unlocked' /\ PlaceInv'
    BY <2>1, UnlockedStep, PlaceStep
  <2>3. CASE UNCHANGED vars
    <3>1. Kept'
      BY <2>3, <2>1 DEF vars, Kept, Given, Entered
    <3> QED BY <3>1, <2>2
  <2>4. CASE Next
    <3>1. outside'
      BY <2>1, <2>4, OutsideStep DEF Kept
    <3>2. ASSUME NEW p \in Paths, start.fs[p].kind = "file", ~Given(p)
          PROVE  fs'[p] = start.fs[p] /\ content'[fs'[p].ino] = start.content[fs'[p].ino]
      <4>1. fs[p] = start.fs[p] /\ content[fs[p].ino] = start.content[fs[p].ino]
        BY <2>1, <3>2 DEF Kept
      <4>2. fs'[p] = fs[p] /\ content'[fs[p].ino] = content[fs[p].ino]
        BY <4>1, <2>1, <2>4, <3>2, OtherStep
      <4> QED BY <4>1, <4>2
    <3>3. \A p : Given(p)' <=> Given(p)
      BY <2>0 DEF Given, Entered
    <3>4. Kept'
      BY <3>1, <3>2, <3>3, <2>0 DEF Kept
    <3> QED BY <3>4, <2>2
  <2> QED BY <2>3, <2>4
<1> QED BY <1>1, <1>2 DEF KeepInv

LEMMA KeepInit == ASSUME Init PROVE KeepInv
<1>1. job.step = "clear" /\ fs = start.fs /\ content = start.content /\ outside
  BY DEF Init, NoJob
<1>2. AboveInv /\ PlaceInv
  BY <1>1 DEF AboveInv, PlaceInv
<1>3. Kept
  BY <1>1 DEF Kept
<1>4. NoLocks => Unlocked
  BY <1>1 DEF NoLocks, Unlocked
<1> QED BY <1>2, <1>3, <1>4 DEF KeepInv

LEMMA KeepAlways == Spec => []KeepInv
<1>1. Init => KeepInv
  BY KeepInit
<1>2. TypeInv /\ KeepInv /\ [Next]_vars => KeepInv'
  BY KeepStep
<1> QED BY <1>1, <1>2, TypeAlways, PTL DEF Spec

\* reconstruct_tree and remove_existing: whatever snapshots are materialized,
\* in whatever order and however far, nothing outside the root and no file
\* that no entry stands for is touched.
THEOREM OthersAreKept == Spec => []OthersKept
<1>1. KeepInv => OthersKept
  BY DEF KeepInv, Kept, OthersKept
<1> QED BY <1>1, KeepAlways, PTL

-----------------------------------------------------------------------------
(* What a call has written stays written until it ends. *)

\* The pass that writes an entry.
PassOf(kind) == IF kind = "dir" THEN 1 ELSE IF kind = "symlink" THEN 3 ELSE 2
\* The running call is past its i-th entry.
Done(i) == \/ PassOf(job.snap[i].kind) < job.pass
           \/ PassOf(job.snap[i].kind) = job.pass /\ i + job.left <= Len(job.snap)
\* Every entry the running call is past is in place, and so is what was read or
\* written so far of the entry at hand.
Written ==
  /\ job.pass > 0 => \A i \in DOMAIN job.snap : Done(i) => As(job.snap[i])
  /\ job.step = "make" /\ Now.kind = "hardlink" => job.src = Now.to
  /\ job.step = "fill" => /\ Len(content[job.ino]) <= Len(Now.chunks)
                          /\ \A k \in 1..Len(content[job.ino]) : content[job.ino][k] = Now.chunks[k]
  /\ res = "ok" => job.pass = 0 /\ \A i \in DOMAIN job.snap : As(job.snap[i])
WrittenInv == NoLocks /\ Trees => Written

\* What the entries of the running call's snapshot are.
LEMMA SnapFacts ==
  ASSUME TypeInv, job.pass > 0, NEW i \in DOMAIN job.snap
  PROVE  /\ job.snap \in plan.snaps /\ Validate(job.snap) /\ i \in Nat /\ 1 <= i /\ i <= Len(job.snap)
         /\ job.snap[i] \in Entry /\ job.snap[i].path \in Paths
         /\ job.snap[i].kind \in {"dir", "file", "hardlink", "symlink"}
         /\ Len(job.snap) \in Nat /\ DOMAIN job.snap = 1..Len(job.snap)
         /\ job.left \in Nat /\ job.left <= Len(job.snap) /\ job.pass \in Nat /\ job.pass <= 4
<1> DEFINE s == job.snap
           n == Len(s)
<1>1. s \in Seq(Entry) /\ s \in plan.snaps /\ Validate(s) /\ plan \in Plans
  BY DEF TypeInv, TypeOK, JobOK
<1>2. n \in Nat /\ DOMAIN s = 1..n
  BY <1>1, LenProperties
<1>3. i \in 1..n
  BY <1>2
<1>4. s[i] \in Entry
  BY <1>1, <1>3, ElementOfSeq
<1>5. s[i].path \in Paths
  BY <1>1, InputAssumption DEF Validate
<1>6. s[i].kind \in {"dir", "file", "hardlink", "symlink"}
  BY <1>4 DEF Entry
<1>7. job.left \in Nat /\ job.left <= n /\ job.pass \in Nat /\ job.pass <= 4
  BY PassFacts DEF TypeInv, TypeOK
<1>8. i \in Nat /\ 1 <= i /\ i <= n
  <2> HIDE DEF n
  <2> QED BY <1>2, <1>3
<1> QED BY <1>1, <1>2, <1>4, <1>5, <1>6, <1>7, <1>8

\* The entry at hand is not among those that are done, unless the passes are.
LEMMA DoneIsPast ==
  ASSUME TypeInv, job.pass > 0, job.left > 0, NEW i \in DOMAIN job.snap, Done(i),
         Now.kind \in Passes[job.pass]
  PROVE  i = Position => Now.kind = "dir"
<1> DEFINE n == Len(job.snap)
<1>1. /\ i \in Nat /\ n \in Nat /\ job.left \in Nat /\ job.left <= n /\ job.pass \in Nat /\ job.pass <= 4
  BY SnapFacts
<1>2. SUFFICES ASSUME i = Position, Now.kind # "dir" PROVE FALSE
  OBVIOUS
<1>3. job.pass = 1 \/ job.pass = 2 \/ job.pass = 3 \/ job.pass = 4
  BY <1>1
<1>4. PassOf(Now.kind) = job.pass /\ job.pass # 4
  BY <1>2, <1>3, PassFacts DEF PassOf
<1>5. Now = job.snap[i]
  BY <1>2 DEF Now
<1>6. i + job.left <= n
  BY <1>1, <1>4, <1>5 DEF Done
<1>7. i = n - job.left + 1
  BY <1>2, <1>4, PassFacts DEF Position
<1> HIDE DEF n
<1> QED BY <1>1, <1>6, <1>7

\* In a tree, two entries have different paths, and only directories are above
\* others.
LEMMA EntriesApart ==
  ASSUME TypeInv, Trees, job.pass > 0, NEW i \in DOMAIN job.snap, NEW j \in DOMAIN job.snap,
         job.snap[i].path \in Along(job.snap[j].path)
  PROVE  i = j \/ (job.snap[i].path \in Above(job.snap[j].path) /\ job.snap[i].kind = "dir")
<1>1. Validate(job.snap) /\ job.snap[j].path \in Paths /\ Treelike(job.snap)
  BY SnapFacts DEF Trees
<1>2. CASE job.snap[i].path = job.snap[j].path
  BY <1>1, <1>2 DEF Validate
<1>3. CASE job.snap[i].path # job.snap[j].path
  <2>1. job.snap[i].path \in Above(job.snap[j].path)
    BY <1>1, <1>3, PathFacts
  <2> QED BY <2>1, <1>1 DEF Treelike
<1> QED BY <1>2, <1>3

\* A hard link's file comes before it.
LEMMA HardlinkFile ==
  ASSUME TypeInv, Trees, job.pass > 0, NEW i \in DOMAIN job.snap, job.snap[i].kind = "hardlink"
  PROVE  \E j \in DOMAIN job.snap : /\ j < i /\ job.snap[j].kind = "file" /\ job.snap[j].path = job.snap[i].to
                                   /\ (Done(i) => Done(j))
<1> DEFINE n == Len(job.snap)
<1>1. /\ Treelike(job.snap) /\ i \in Nat /\ i <= n /\ n \in Nat /\ DOMAIN job.snap = 1..n
      /\ job.left \in Nat /\ job.pass \in Nat
  BY SnapFacts DEF Trees
<1>2. PICK j \in 1..(i - 1) : job.snap[j].kind = "file" /\ job.snap[j].path = job.snap[i].to
  BY <1>1 DEF Treelike
<1>3. j \in DOMAIN job.snap /\ j < i /\ j \in Nat
  <2> HIDE DEF n
  <2> QED BY <1>1
<1>4. ASSUME i + job.left <= n PROVE j + job.left <= n
  <2> HIDE DEF n
  <2> QED BY <1>1, <1>3, <1>4
<1>5. Done(i) => Done(j)
  BY <1>2, <1>4 DEF Done, PassOf
<1> QED BY <1>2, <1>3, <1>5

\* A step leaves alone what is at the path of another entry.
LEMMA StillStep ==
  ASSUME TypeInv, AboveInv, Unlocked, PlaceInv, Trees, Next, job.pass > 0,
         NEW i \in DOMAIN job.snap, fs[job.snap[i].path].kind # "none",
         job.left > 0 /\ Now.kind \in Passes[job.pass] /\ i = Position => Now.kind = "dir"
  PROVE  LET q == job.snap[i].path
         IN  /\ fs'[q].kind = fs[q].kind
             /\ fs[q].kind # "dir" => fs'[q] = fs[q]
             /\ fs[q].kind = "file" => content'[fs[q].ino] = content[fs[q].ino]
<1> DEFINE q == job.snap[i].path
<1>0. /\ UNCHANGED <<start, plan>> /\ fs \in [Paths -> Node] /\ content \in [Inodes -> Seq(Chunks)]
      /\ Tree(fs) /\ (fs[q].kind = "file" => fs[q].ino \in Inodes)
      /\ q \in Paths /\ fs[q].kind # "none"
  BY SnapFacts DEF Next, TypeInv, TypeOK, Rooted, Tree
<1>a. ASSUME Now.path \in Along(q), job.left > 0, Now.kind \in Passes[job.pass], Now.kind # "dir" PROVE FALSE
  <2>1. Position \in DOMAIN job.snap /\ Now = job.snap[Position]
    BY <1>a, NowFacts DEF TypeInv
  <2>2. Position = i
    BY <2>1, <1>a, EntriesApart
  <2> QED BY <2>2, <1>a
<1>s. q = job.snap[i].path
  OBVIOUS
<1> HIDE DEF q
<1> SUFFICES fs'[q].kind = fs[q].kind /\ (fs[q].kind # "dir" => fs'[q] = fs[q])
             /\ (fs[q].kind = "file" => content'[fs[q].ino] = content[fs[q].ino])
  BY <1>s
<1>1. CASE MkDir
  BY <1>0, <1>1, MkDirEffect
<1>2. CASE Clear
  <2>1. job.left > 0 /\ Now.kind \in Passes[job.pass] /\ Now.kind # "dir" /\ content' = content
    BY <1>0, <1>2, ClearEffect
  <2>2. fs'[q] = fs[q] \/ fs[q].kind = "none" \/ Now.path \in Along(q)
    BY <1>0, <1>2, ClearEffect, Zenon
  <2> QED BY <2>1, <2>2, <1>0, <1>a
<1>3. CASE CreateFile
  <2>1. Now.path \in Paths /\ At.at = Now.path /\ Vacant /\ ~There /\ FileIno = NewInode
        /\ fs[Now.path].kind = "none"
    BY <1>3, CreateVacant
  <2>2. fs' = [fs EXCEPT ![Now.path] = FileAt(NewInode)] /\ content' = [content EXCEPT ![NewInode] = <<>>]
    BY <1>3, <2>1, CreateCases
  <2>3. fs[q].ino # NewInode /\ q # Now.path
    BY <1>0, <2>1, FreeInode
  <2> QED BY <2>2, <2>3, <1>0
<1>4. CASE Fill
  <2>1. /\ job.left > 0 /\ job.step = "fill" /\ fs' = fs /\ Now.kind \in Passes[job.pass] /\ Now.kind # "dir"
    BY <1>4 DEF Fill, Doing
  <2>2. q # Now.path
    BY <2>1, <1>0, <1>a, PathFacts
  <2>3. fs[q].ino # job.ino
    BY <1>0, <2>1, <2>2 DEF PlaceInv
  <2>4. content' = content \/ content' = [content EXCEPT ![job.ino] = Append(@, Now.chunks[Len(@) + 1])]
    BY <1>4 DEF Fill
  <2> QED BY <2>1, <2>3, <2>4, <1>0
<1>5. CASE MakeLink
  <2>1. content' = content /\ (fs' = fs \/ (LinkFree /\ fs' = [fs EXCEPT ![Now.path] = LinkNode]))
    BY <1>5, LinkCases
  <2>2. LinkFree => q # Now.path
    BY <1>0 DEF LinkFree, Creatable
  <2> QED BY <2>1, <2>2, <1>0
<1>6. CASE DirMode
  <2>1. job.pass > 0 /\ job.left > 0 /\ Now.kind = "dir" /\ content' = content
    BY <1>6, ModeCases
  <2>2. Now.locked \in BOOLEAN
    BY <2>1, NowFacts, EntryFacts DEF TypeInv
  <2>3. ASSUME NEW r \in Paths, fs[r].kind = "dir", fs' = WithMode(fs, r, Now.locked)
        PROVE  fs'[q].kind = fs[q].kind /\ (fs[q].kind # "dir" => fs'[q] = fs[q])
    BY <2>2, <2>3, <1>0, ModeFacts
  <2> QED BY <2>1, <2>3, <1>6, ModeCases
<1>7. CASE Loop \/ Stop \/ \E s \in plan.snaps : Call(s)
  BY <1>7 DEF Loop, Stop, Call
<1> QED BY <1>1, <1>2, <1>3, <1>4, <1>5, <1>6, <1>7 DEF Next

\* What is written stays as its entry has it.
LEMMA AsStep ==
  ASSUME TypeInv, AboveInv, Unlocked, PlaceInv, Trees, Written, Next, job.pass > 0,
         NEW i \in DOMAIN job.snap, Done(i), NEW e, e = job.snap[i]
  PROVE  As(e)'
<1>0. e \in Entry /\ e.path \in Paths /\ e.kind \in {"dir", "file", "hardlink", "symlink"} /\ As(e)
  BY SnapFacts DEF Written
<1>1. job.left > 0 /\ Now.kind \in Passes[job.pass] /\ i = Position => Now.kind = "dir"
  BY DoneIsPast
<1>2. fs[e.path].kind # "none"
  <2>1. e.kind = "symlink" => LinkTo(e.to).kind = "link"
    BY <1>0, NodeFacts, EntryFacts
  <2> QED BY <2>1, <1>0 DEF As
<1>3. /\ fs'[e.path].kind = fs[e.path].kind
      /\ fs[e.path].kind # "dir" => fs'[e.path] = fs[e.path]
      /\ fs[e.path].kind = "file" => content'[fs[e.path].ino] = content[fs[e.path].ino]
  BY <1>1, <1>2, StillStep
<1>4. CASE e.kind = "dir"
  BY <1>0, <1>3, <1>4 DEF As
<1>5. CASE e.kind = "file"
  BY <1>0, <1>3, <1>5 DEF As
<1>6. CASE e.kind = "symlink"
  <2>1. fs[e.path].kind = "link"
    BY <1>0, <1>6, NodeFacts, EntryFacts DEF As
  <2> QED BY <2>1, <1>0, <1>3, <1>6 DEF As
<1>7. CASE e.kind = "hardlink"
  <2>1. PICK j \in DOMAIN job.snap : /\ job.snap[j].kind = "file" /\ job.snap[j].path = e.to /\ Done(j)
    BY <1>7, HardlinkFile
  <2>2. fs[e.to].kind = "file"
    BY <2>1 DEF Written, As
  <2>3. job.left > 0 /\ Now.kind \in Passes[job.pass] /\ j = Position => Now.kind = "dir"
    BY <2>1, DoneIsPast
  <2>4. fs[job.snap[j].path].kind # "none"
    BY <2>1, <2>2
  <2>5. fs[job.snap[j].path].kind # "dir" => fs'[job.snap[j].path] = fs[job.snap[j].path]
    BY <2>3, <2>4, StillStep
  <2>6. fs'[e.to] = fs[e.to]
    BY <2>1, <2>2, <2>5
  <2> QED BY <2>6, <1>0, <1>3, <1>7 DEF As
<1> QED BY <1>0, <1>4, <1>5, <1>6, <1>7

\* Step by step, entries that were written stay as they are.
LEMMA ProceedWritten ==
  ASSUME TypeInv, AboveInv, Unlocked, PlaceInv, Trees, Written, Next, job.pass > 0, job.left > 0, Proceed,
         NEW e, e = Now, Now.kind \in Passes[job.pass] /\ job.pass < 4 => As(e)'
  PROVE  Written'
<1> DEFINE n == Len(job.snap)
<1>1. /\ job'.snap = job.snap /\ job'.pass = job.pass /\ job'.left = job.left - 1 /\ job'.step = "clear"
      /\ res' = res
  BY ProceedOK DEF TypeInv
<1>2. res' # "ok"
  BY <1>1 DEF Written, TypeInv, TypeOK
<1>3. ASSUME NEW i \in DOMAIN job.snap, Done(i)', NEW x, x = job.snap[i] PROVE As(x)'
  <2>1. /\ i \in Nat /\ n \in Nat /\ job.left \in Nat /\ job.left <= n /\ job.pass \in Nat /\ job.pass <= 4
        /\ job.snap[i].kind \in {"dir", "file", "hardlink", "symlink"}
    BY SnapFacts
  <2>2. \/ PassOf(x.kind) < job.pass
        \/ PassOf(x.kind) = job.pass /\ i + (job.left - 1) <= n
    BY <1>1, <1>3 DEF Done
  <2>3. CASE Done(i)
    BY <2>3, <1>3, AsStep
  <2>4. CASE ~Done(i)
    <3>1. PassOf(x.kind) = job.pass /\ i + (job.left - 1) <= n /\ ~(i + job.left <= n)
      BY <2>2, <2>4, <1>3 DEF Done
    <3>2. i = n - job.left + 1
      <4> HIDE DEF n
      <4> QED BY <3>1, <2>1
    <3>3. job.pass \in {1, 2, 3} /\ x.kind \in Passes[job.pass] /\ job.pass < 4
      BY <3>1, <2>1, <1>3, PassFacts DEF PassOf
    <3>4. Position = i
      BY <3>2, <3>3, PassFacts DEF Position
    <3>5. x = Now
      BY <3>4, <1>3 DEF Now
    <3> QED BY <3>3, <3>5
  <2> QED BY <2>3, <2>4
<1>4. \A i \in DOMAIN job'.snap : Done(i)' => As(job.snap[i])'
  <2> TAKE i \in DOMAIN job'.snap
  <2> HAVE Done(i)'
  <2>1. i \in DOMAIN job.snap
    BY <1>1
  <2> DEFINE x == job.snap[i]
  <2>2. PICK y : y = job.snap[i]
    OBVIOUS
  <2>3. As(y)'
    BY <2>1, <2>2, <1>3
  <2>4. y = job'.snap[i] /\ job'.snap[i] = job.snap[i]
    BY <2>2, <1>1
  <2> QED BY <2>3, <2>4 DEF As
<1> QED BY <1>1, <1>2, <1>4 DEF Written

LEMMA EndedWritten ==
  ASSUME TypeInv, NEW how \in {"failed", "refused"}, Ended(how)
  PROVE  Written'
<1>1. job'.pass = 0 /\ job'.step = "clear" /\ res' = how
  BY EndedOK DEF TypeInv
<1> QED BY <1>1 DEF Written

\* What is done stays so while the entry at hand is written.
LEMMA StayWritten ==
  ASSUME TypeInv, AboveInv, Unlocked, PlaceInv, Trees, Written, Next, job.pass > 0,
         job'.snap = job.snap, job'.pass = job.pass, job'.left = job.left, res' = res
  PROVE  res' # "ok" /\ \A i \in DOMAIN job'.snap : Done(i)' => As(job.snap[i])'
<1>1. res' # "ok"
  BY DEF Written, TypeInv, TypeOK
<1>2. \A i \in DOMAIN job'.snap : Done(i)' => As(job.snap[i])'
  <2> TAKE i \in DOMAIN job'.snap
  <2> HAVE Done(i)'
  <2>1. i \in DOMAIN job.snap /\ Done(i)
    BY DEF Done
  <2>2. PICK y : y = job.snap[i]
    OBVIOUS
  <2>3. As(y)'
    BY <2>1, <2>2, AsStep
  <2>4. y = job'.snap[i] /\ job'.snap[i] = job.snap[i]
    BY <2>2
  <2> QED BY <2>3, <2>4 DEF As
<1> QED BY <1>1, <1>2

\* The file that a hard link's entry names is written before it.
LEMMA TargetWritten ==
  ASSUME TypeInv, Trees, Written, job.pass > 0, job.left > 0, Now.kind \in Passes[job.pass], Now.kind = "hardlink"
  PROVE  Now.to \in Paths /\ fs[Now.to].kind = "file"
<1> DEFINE n == Len(job.snap)
           t == Now.to
           k == Position
<1>2. k \in DOMAIN job.snap /\ Now = job.snap[k]
  BY NowFacts DEF TypeInv
<1>3. /\ n \in Nat /\ job.left \in Nat /\ job.left <= n /\ job.pass \in Nat /\ job.pass <= 4
  BY <1>2, SnapFacts
<1>4. job.pass = 2
  <2>1. job.pass = 1 \/ job.pass = 2 \/ job.pass = 3 \/ job.pass = 4
    BY <1>3
  <2> QED BY <2>1, PassFacts
<1>5. k = n - job.left + 1
  BY <1>4, PassFacts DEF Position
<1>6. PICK j \in DOMAIN job.snap : j < k /\ job.snap[j].kind = "file" /\ job.snap[j].path = t
  BY <1>2, HardlinkFile
<1>7. j \in Nat /\ t \in Paths
  BY <1>6, SnapFacts
<1>8. j + job.left <= n
  <2> HIDE DEF n, k
  <2> QED BY <1>3, <1>5, <1>6, <1>7
<1>9. Done(j)
  BY <1>4, <1>6, <1>8 DEF Done, PassOf
<1> QED BY <1>6, <1>7, <1>9 DEF Written, As

\* A hard link finds the file that its entry names.
LEMMA ClearFindsTarget ==
  ASSUME TypeInv, Trees, Written, Clear, ClearMade, Now.kind = "hardlink"
  PROVE  Now.to \in Paths /\ ClearSrc = Now.to
<1> DEFINE t == Now.to
<1>1. job.pass > 0 /\ job.left > 0 /\ Now.kind \in Passes[job.pass]
  BY ClearCases
<1>2. t \in Paths /\ fs[t].kind = "file"
  BY <1>1, TargetWritten
<1>3. Tree(fs) /\ Now.path \in Paths
  BY <1>1, NowFacts DEF TypeInv, TypeOK, Tree
<1>4. Tree(ClearTree) /\ ClearTree[t] = fs[t]
  BY <1>2, <1>3, ClearTreeFacts
<1>5. DOMAIN ClearTree = Paths /\ \A q \in Above(t) : ClearTree[q].kind = "dir"
  BY <1>2, <1>4 DEF Tree, Rooted
<1>6. ClearTree[t].kind \in {"none", "dir", "file"} /\ ClearTree[t].kind # "none"
  BY <1>2, <1>4
<1> HIDE DEF t
<1>7. Resolve(ClearTree, t).at = t /\ Resolve(ClearTree, t).end = "here"
  BY <1>2, <1>5, <1>6, WalkDirs
<1>8. Target(ClearTree, Now) = t
  BY <1>2, <1>4, <1>7 DEF Target, t
<1> QED BY <1>2, <1>8 DEF ClearSrc, t

LEMMA LoopWritten ==
  ASSUME TypeInv, AboveInv, Unlocked, PlaceInv, Trees, Written, Next, Loop
  PROVE  Written'
<1> DEFINE n == Len(job.snap)
<1>0. job.pass > 0 /\ job \in JobType /\ res # "ok"
  BY DEF Loop, TypeInv, TypeOK, JobType, Written
<1>1. CASE job.left > 0 /\ Now.kind \notin Passes[job.pass] /\ Proceed
  <2>1. PICK e : e = Now
    OBVIOUS
  <2> QED BY <2>1, <1>0, <1>1, ProceedWritten
<1>2. CASE /\ job.left = 0 /\ job.pass < Len(Passes) /\ res' = res
           /\ job' = [job EXCEPT !.pass = @ + 1, !.left = Len(job.snap)]
  <2>1. job'.snap = job.snap /\ job'.pass = job.pass + 1 /\ job'.left = n /\ job'.step = job.step
    BY <1>0, <1>2 DEF JobType
  <2>2. job'.step = "clear"
    BY <1>2, <2>1 DEF TypeInv, JobOK, TypeOK
  <2>3. \A i \in DOMAIN job'.snap : Done(i)' => As(job.snap[i])'
    <3> TAKE i \in DOMAIN job'.snap
    <3> HAVE Done(i)'
    <3>1. i \in DOMAIN job.snap
      BY <2>1
    <3>2. /\ i \in Nat /\ 1 <= i /\ i <= n /\ n \in Nat /\ job.pass \in Nat
          /\ job.snap[i].kind \in {"dir", "file", "hardlink", "symlink"}
      BY <3>1, <1>0, SnapFacts
    <3> DEFINE k == PassOf(job.snap[i].kind)
    <3>3. k \in Nat
      BY <3>2 DEF PassOf
    <3>4. k < job.pass + 1 \/ (k = job.pass + 1 /\ i + n <= n)
      BY <2>1 DEF Done
    <3>5. (k < job.pass \/ k = job.pass) /\ i + 0 <= n
      <4> HIDE DEF n, k
      <4> QED BY <3>2, <3>3, <3>4
    <3>6. Done(i)
      BY <3>5, <1>2 DEF Done
    <3>7. PICK y : y = job.snap[i]
      OBVIOUS
    <3>8. As(y)'
      BY <3>1, <3>6, <3>7, <1>0, AsStep
    <3>9. y = job'.snap[i] /\ job'.snap[i] = job.snap[i]
      BY <2>1, <3>7
    <3> QED BY <3>8, <3>9 DEF As
  <2> QED BY <2>2, <2>3, <1>0, <1>2 DEF Written
<1>3. CASE job.left = 0 /\ job.pass = Len(Passes) /\ Ended("ok")
  <2>1. job'.pass = 0 /\ job'.step = "clear" /\ job'.snap = job.snap
    BY <1>3, EndedOK DEF TypeInv
  <2>2. \A i \in DOMAIN job'.snap : As(job.snap[i])'
    <3> TAKE i \in DOMAIN job'.snap
    <3>1. i \in DOMAIN job.snap
      BY <2>1
    <3>2. Done(i)
      BY <1>3, PassFacts DEF Done, PassOf
    <3>3. PICK y : y = job.snap[i]
      OBVIOUS
    <3>4. As(y)'
      BY <3>1, <3>2, <3>3, <1>0, AsStep
    <3>5. y = job'.snap[i] /\ job'.snap[i] = job.snap[i]
      BY <2>1, <3>3
    <3> QED BY <3>4, <3>5 DEF As
  <2> QED BY <2>1, <2>2 DEF Written
<1> QED BY <1>1, <1>2, <1>3 DEF Loop

LEMMA ClearWritten ==
  ASSUME TypeInv, AboveInv, Unlocked, PlaceInv, Trees, Written, Next, Clear
  PROVE  Written'
<1>0. UNCHANGED <<start, plan>> /\ job.pass > 0
  BY ClearCases DEF Next
<1>1. CASE Ended("refused") \/ Ended("failed")
  BY <1>1, EndedWritten DEF TypeInv
<1>2. CASE /\ ClearGood /\ res' = res /\ job'.step = "make" /\ job'.src = ClearSrc /\ Now' = Now
           /\ job'.snap = job.snap /\ job'.pass = job.pass /\ job'.left = job.left
  <2>1. res' # "ok" /\ \A i \in DOMAIN job'.snap : Done(i)' => As(job.snap[i])'
    BY <1>0, <1>2, StayWritten
  <2>2. Now.kind = "hardlink" => ClearSrc = Now.to
    BY <1>2, ClearFindsTarget DEF ClearGood
  <2> QED BY <2>1, <2>2, <1>2 DEF Written
<1> QED BY <1>0, <1>1, <1>2, ClearEffect

LEMMA CreateWritten ==
  ASSUME TypeInv, AboveInv, Unlocked, PlaceInv, Trees, Written, Next, CreateFile
  PROVE  Written'
<1>0. job.pass > 0 /\ job.left > 0 /\ Now.kind = "file" /\ job \in JobType
      /\ content \in [Inodes -> Seq(Chunks)] /\ fs \in [Paths -> Node]
  BY CreateCases DEF TypeInv, TypeOK, JobType
<1>1. Vacant /\ FileIno = NewInode /\ NewInode \in Inodes
  BY <1>0, CreateVacant, FreeInode
<1>2. /\ content' = [content EXCEPT ![NewInode] = <<>>] /\ res' = res
      /\ job' = [job EXCEPT !.step = "fill", !.ino = NewInode]
  BY <1>1, CreateCases
<1>3. /\ job'.snap = job.snap /\ job'.pass = job.pass /\ job'.left = job.left
      /\ job'.step = "fill" /\ job'.ino = NewInode
  BY <1>0, <1>2 DEF JobType
<1>4. Now' = Now /\ content'[NewInode] = <<>>
  BY <1>0, <1>1, <1>2, <1>3 DEF Now, Position
<1>5. res' # "ok" /\ \A i \in DOMAIN job'.snap : Done(i)' => As(job.snap[i])'
  BY <1>0, <1>2, <1>3, StayWritten
<1>6. Now.chunks \in Seq(Chunks) /\ Len(Now.chunks) \in Nat
  BY <1>0, NowFacts, EntryFacts, LenProperties DEF TypeInv
<1>7. Len(content'[job'.ino]) = 0
  BY <1>3, <1>4
<1>8. /\ Len(content'[job'.ino]) <= Len(Now'.chunks)
      /\ \A k \in 1..Len(content'[job'.ino]) : content'[job'.ino][k] = Now'.chunks[k]
  <2> DEFINE m == Len(Now.chunks)
  <2>1. m \in Nat /\ m = Len(Now'.chunks)
    BY <1>4, <1>6
  <2>2. 0 <= m
    <3> HIDE DEF m
    <3> QED BY <2>1
  <2> QED BY <2>1, <2>2, <1>7
<1> QED BY <1>3, <1>5, <1>8 DEF Written

LEMMA FillWritten ==
  ASSUME TypeInv, AboveInv, Unlocked, PlaceInv, Trees, Written, Next, Fill
  PROVE  Written'
<1> DEFINE c == content[job.ino]
           n == Len(c)
           m == Len(Now.chunks)
<1>0. /\ job.pass > 0 /\ job.left > 0 /\ job.step = "fill" /\ Now.kind = "file" /\ fs' = fs
      /\ content \in [Inodes -> Seq(Chunks)] /\ job.ino \in Inodes
  BY DEF Fill, Doing, TypeInv, TypeOK, JobOK
<1>1. Now.chunks \in Seq(Chunks)
  BY <1>0, NowFacts, EntryFacts DEF TypeInv
<1>2. c \in Seq(Chunks) /\ n \in Nat /\ m \in Nat
  BY <1>0, <1>1, LenProperties
<1>3. n <= m /\ \A k \in 1..n : c[k] = Now.chunks[k]
  BY <1>0 DEF Written
<1>4. CASE /\ n < m /\ content' = [content EXCEPT ![job.ino] = Append(@, Now.chunks[Len(@) + 1])]
           /\ UNCHANGED <<job, res>>
  <2>1. n + 1 \in 1..m /\ n + 1 <= m
    <3> HIDE DEF n, m
    <3> QED BY <1>2, <1>4
  <2>2. Now.chunks[n + 1] \in Chunks
    BY <1>1, <2>1, ElementOfSeq
  <2> DEFINE d == Append(c, Now.chunks[n + 1])
  <2>3. Len(d) = n + 1 /\ (\A k \in 1..n : d[k] = c[k]) /\ d[n + 1] = Now.chunks[n + 1]
    BY <1>2, <2>2, AppendProperties
  <2>4. content'[job.ino] = d
    BY <1>0, <1>4
  <2>5. Now' = Now /\ job' = job
    BY <1>4 DEF Now, Position
  <2> HIDE DEF d, n
  <2>6. \A k \in 1..(n + 1) : d[k] = Now.chunks[k]
    BY <1>2, <1>3, <2>3
  <2>7. /\ Len(content'[job'.ino]) <= Len(Now'.chunks)
        /\ \A k \in 1..Len(content'[job'.ino]) : content'[job'.ino][k] = Now'.chunks[k]
    BY <2>1, <2>3, <2>4, <2>5, <2>6
  <2>8. res' # "ok" /\ \A i \in DOMAIN job'.snap : Done(i)' => As(job.snap[i])'
    BY <1>0, <1>4, StayWritten
  <2> QED BY <1>0, <2>5, <2>7, <2>8 DEF Written
<1>5. CASE Ended("failed")
  BY <1>5, EndedWritten DEF TypeInv
<1>6. CASE n = m /\ Proceed /\ content' = content
  <2>1. c = Now.chunks
    BY <1>1, <1>2, <1>3, <1>6, SeqEqual
  <2>2. fs[Now.path].kind = "file" /\ fs[Now.path].ino = job.ino
    BY <1>0, NodeFacts DEF PlaceInv
  <2>3. PICK e : e = Now
    OBVIOUS
  <2>4. As(e)'
    BY <1>0, <1>6, <2>1, <2>2, <2>3 DEF As
  <2> QED BY <1>0, <1>6, <2>3, <2>4, ProceedWritten
<1> QED BY <1>4, <1>5, <1>6 DEF Fill

LEMMA LinkWritten ==
  ASSUME TypeInv, AboveInv, Unlocked, PlaceInv, Trees, Written, Next, MakeLink
  PROVE  Written'
<1>0. /\ job.pass > 0 /\ job.left > 0 /\ job.step = "make" /\ Now.kind \in {"hardlink", "symlink"}
      /\ Now.path \in Paths /\ fs \in [Paths -> Node] /\ Now \in Entry
  BY LinkCases, NowFacts DEF TypeInv, TypeOK
<1>1. CASE LinkFree /\ Proceed /\ fs' = [fs EXCEPT ![Now.path] = LinkNode]
  <2>1. fs'[Now.path] = LinkNode /\ \A q \in Paths : q # Now.path => fs'[q] = fs[q]
    BY <1>0, <1>1
  <2>2. PICK e : e = Now
    OBVIOUS
  <2>3. CASE Now.kind = "symlink"
    <3>1. As(e)'
      BY <2>1, <2>2, <2>3 DEF As, LinkNode
    <3> QED BY <3>1, <1>0, <1>1, <2>2, ProceedWritten
  <2>4. CASE Now.kind = "hardlink"
    <3>1. job.src = Now.to /\ job.src \in Paths /\ fs[job.src].kind = "file" /\ fs[Now.path].kind = "none"
      BY <1>0, <1>1, <2>4 DEF Written, TypeInv, JobOK, LinkFree, Creatable
    <3>2. fs[job.src].ino \in Inodes
      BY <3>1 DEF TypeInv, TypeOK, Rooted
    <3>3. LinkNode.kind = "file" /\ LinkNode.ino = fs[Now.to].ino
      BY <2>4, <3>1, <3>2, NodeFacts DEF LinkNode
    <3>4. fs'[Now.to] = fs[Now.to]
      BY <2>1, <3>1
    <3>5. As(e)'
      BY <2>1, <2>2, <2>4, <3>3, <3>4 DEF As
    <3> QED BY <3>5, <1>0, <1>1, <2>2, ProceedWritten
  <2> QED BY <1>0, <2>3, <2>4
<1>2. CASE Ended("refused")
  BY <1>2, EndedWritten DEF TypeInv
<1> QED BY <1>1, <1>2, LinkCases

LEMMA WrittenStep ==
  ASSUME TypeInv, KeepInv, WrittenInv, [Next]_vars
  PROVE  WrittenInv'
<1>0. start' = start /\ plan' = plan
  BY DEF Next, vars
<1> SUFFICES ASSUME NoLocks', Trees' PROVE Written'
  BY DEF WrittenInv
<1>1. NoLocks /\ Trees /\ Written /\ AboveInv /\ Unlocked /\ PlaceInv
  BY <1>0 DEF NoLocks, Trees, WrittenInv, KeepInv
<1>2. CASE UNCHANGED vars
  BY <1>1, <1>2 DEF vars, Written, Done, As, Now, Position
<1>3. CASE Next
  <2>1. ASSUME NEW s \in plan.snaps, Call(s) PROVE Written'
    <3>1. CASE /\ job' = [NoJob EXCEPT !.snap = s, !.pass = 1, !.left = Len(s)] /\ res' = "running"
      <4> DEFINE n == Len(s)
      <4>0. s \in Seq(Entry)
        BY <2>1, InputAssumption DEF TypeInv, TypeOK
      <4>1. job'.snap = s /\ job'.pass = 1 /\ job'.left = n /\ job'.step = "clear"
        BY <3>1 DEF NoJob
      <4>2. n \in Nat /\ DOMAIN s = 1..n
        BY <4>0, LenProperties
      <4>3. ASSUME NEW i \in DOMAIN s PROVE ~Done(i)'
        <5>1. Done(i)' => i + n <= n \/ PassOf(s[i].kind) < 1
          BY <4>1 DEF Done
        <5>2. ~(i + n <= n)
          <6> HIDE DEF n
          <6> QED BY <4>2, <4>3
        <5>3. ~(PassOf(s[i].kind) < 1)
          BY DEF PassOf
        <5> QED BY <5>1, <5>2, <5>3
      <4> QED BY <3>1, <4>1, <4>3 DEF Written
    <3>2. CASE job' = [NoJob EXCEPT !.snap = s] /\ res' = "invalid"
      <4>1. job'.pass = 0 /\ job'.step = "clear"
        BY <3>2 DEF NoJob
      <4> QED BY <3>2, <4>1 DEF Written
    <3> QED BY <2>1, <3>1, <3>2 DEF Call
  <2>2. CASE Loop
    BY <1>1, <1>3, <2>2, LoopWritten
  <2>3. CASE MkDir
    <3>1. /\ job.pass > 0 /\ job.left > 0 /\ Now.kind = "dir"
          /\ (Proceed /\ fs'[Now.path].kind = "dir") \/ Ended("refused")
      BY <2>3, MkDirEffect
    <3>2. CASE Proceed /\ fs'[Now.path].kind = "dir"
      <4>1. PICK e : e = Now
        OBVIOUS
      <4>2. As(e)'
        BY <3>1, <3>2, <4>1 DEF As
      <4> QED BY <3>1, <3>2, <4>1, <4>2, <1>1, <1>3, ProceedWritten
    <3>3. CASE Ended("refused")
      BY <3>3, EndedWritten DEF TypeInv
    <3> QED BY <3>1, <3>2, <3>3
  <2>4. CASE Clear
    BY <1>1, <1>3, <2>4, ClearWritten
  <2>5. CASE CreateFile
    BY <1>1, <1>3, <2>5, CreateWritten
  <2>6. CASE Fill
    BY <1>1, <1>3, <2>6, FillWritten
  <2>7. CASE MakeLink
    BY <1>1, <1>3, <2>7, LinkWritten
  <2>8. CASE DirMode
    <3>1. job.pass > 0 /\ job.left > 0 /\ job.pass = 4 /\ Proceed
      BY <2>8, ModeCases, PassFacts
    <3>2. PICK e : e = Now
      OBVIOUS
    <3> QED BY <3>1, <3>2, <1>1, <1>3, ProceedWritten
  <2>9. CASE Stop
    BY <2>9, EndedWritten DEF Stop
  <2> QED BY <1>3, <2>1, <2>2, <2>3, <2>4, <2>5, <2>6, <2>7, <2>8, <2>9 DEF Next
<1> QED BY <1>2, <1>3

LEMMA WrittenInit == ASSUME Init PROVE WrittenInv
<1>1. job.pass = 0 /\ job.step = "clear" /\ res = "none"
  BY DEF Init, NoJob
<1> QED BY <1>1 DEF WrittenInv, Written

LEMMA WrittenAlways == Spec => []WrittenInv
<1>1. Init => WrittenInv
  BY WrittenInit
<1>2. TypeInv /\ KeepInv /\ WrittenInv /\ [Next]_vars => WrittenInv'
  BY WrittenStep
<1> QED BY <1>1, <1>2, TypeAlways, KeepAlways, PTL DEF Spec

\* download_tree: when reconstruct_tree returns Ok, every entry of its snapshot
\* is in place as the index has it, whatever calls before it left there.
THEOREM OkIsMaterialized == Spec => []Materialized
<1>1. WrittenInv => Materialized
  BY DEF WrittenInv, Written, Materialized
<1> QED BY <1>1, WrittenAlways, PTL

-----------------------------------------------------------------------------
(* One snapshot in a directory that was empty. *)

\* A file or a link is where an entry of its kind is, and a link leads where
\* its entry says.
Stands(q, s, i) ==
  /\ Validate(s) /\ s[i].path = q
  /\ \/ s[i].kind \in {"file", "hardlink"} /\ fs[q].kind = "file"
     \/ s[i].kind = "symlink" /\ fs[q].kind = "link" /\ fs[q].to = s[i].to
\* A fresh directory has files and links only where accepted entries of the
\* snapshot stand for them, and no directory in the place of an entry of one of
\* the kinds K.
Shape(K) ==
  /\ \A q \in Paths : fs[q].kind \in {"file", "link"} => \E s \in plan.snaps : \E i \in DOMAIN s : Stands(q, s, i)
  /\ \A s \in plan.snaps : Validate(s) =>
       \A i \in DOMAIN s : s[i].kind \in K => fs[s[i].path].kind # "dir"
\* No entry of one of the kinds K is above another.
Lowest(K) == \A s \in plan.snaps : \A i, j \in DOMAIN s : s[i].path \in Above(s[j].path) => s[i].kind \notin K
\* The inductive invariant: files, links and hard links of trees, and links of
\* snapshots with no entry below a link.
ShapeOf(K) == Lowest(K) /\ Fresh => Shape(K)
Leaves == {"file", "hardlink", "symlink"}
ShapeInv == ShapeOf(Leaves) /\ ShapeOf({"symlink"})

\* What stands at a path stands for an entry of the running call.
LEMMA StandsNow ==
  ASSUME TypeInv, Fresh, NEW K, Shape(K), job.pass > 0, NEW q \in Paths, fs[q].kind \in {"file", "link"}
  PROVE  \E i \in DOMAIN job.snap : /\ job.snap[i].path = q /\ job.snap[i].kind # "dir"
                                    /\ fs[q].kind = "link" => job.snap[i].kind = "symlink"
<1>1. job.snap \in plan.snaps
  BY DEF TypeInv, JobOK
<1>2. PICK s \in plan.snaps : \E i \in DOMAIN s : Stands(q, s, i)
  BY DEF Shape
<1>3. s = job.snap
  BY <1>1 DEF Fresh
<1> QED BY <1>2, <1>3 DEF Stands

\* Only an entry that is a directory has a directory in its place.
LEMMA NoDirHere ==
  ASSUME TypeInv, Shape(Leaves), job.pass > 0, job.left > 0, Now.kind \in Leaves
  PROVE  fs[Now.path].kind # "dir"
<1>1. Position \in DOMAIN job.snap /\ Now = job.snap[Position] /\ job.snap \in plan.snaps /\ Validate(job.snap)
  BY NowFacts DEF TypeInv, JobOK
<1> QED BY <1>1 DEF Shape

\* File::create never follows a link: it opens or makes the entry's own file.
LEMMA CreateHere ==
  ASSUME TypeInv, AboveInv, Fresh, NEW K, Shape(K), CreateFile
  PROVE  Now.path \in Paths /\ At.at = Now.path
<1>1. job.pass > 0 /\ job.left > 0 /\ job.step = "make" /\ Now.kind = "file"
  BY CreateCases
<1>2. /\ Now.path \in Paths /\ fs \in [Paths -> Node] /\ DOMAIN fs = Paths
      /\ Position \in DOMAIN job.snap /\ Now = job.snap[Position] /\ Validate(job.snap)
  BY <1>1, NowFacts DEF TypeInv, TypeOK, JobOK
<1>4. fs[Now.path].kind # "link"
  <2> SUFFICES ASSUME fs[Now.path].kind = "link" PROVE FALSE
    OBVIOUS
  <2>1. PICK i \in DOMAIN job.snap : job.snap[i].path = Now.path /\ job.snap[i].kind = "symlink"
    BY <1>1, <1>2, StandsNow
  <2>2. i = Position
    BY <1>2, <2>1 DEF Validate
  <2> QED BY <2>1, <2>2, <1>1, <1>2
<1>5. fs[Now.path] \in Node
  BY <1>2
<1>6. fs[Now.path].kind \in {"none", "dir", "file"}
  BY <1>4, <1>5 DEF Node
<1>7. \A q \in Above(Now.path) : fs[q].kind = "dir"
  BY <1>1 DEF AboveInv
<1> QED BY <1>2, <1>6, <1>7, WalkDirs DEF At

\* Whatever a step leaves as it was, or empties, needs no new entry; a new
\* directory needs that no entry of another kind is there.
LEMMA ShapeKept ==
  ASSUME NEW K, Shape(K), plan' = plan,
         \A q \in Paths : \/ fs'[q].kind = fs[q].kind /\ fs'[q].to = fs[q].to
                          \/ fs'[q].kind = "none"
                          \/ /\ fs'[q].kind = "dir"
                             /\ \A s \in plan.snaps : \A i \in DOMAIN s : s[i].path = q => s[i].kind \notin K
                          \/ /\ fs'[q].kind \in {"file", "link"}
                             /\ \E s \in plan.snaps : \E i \in DOMAIN s : Stands(q, s, i)',
         \A s \in plan.snaps : Validate(s) => \A i \in DOMAIN s : s[i].path \in Paths
  PROVE  Shape(K)'
<1>1. ASSUME NEW q \in Paths, fs'[q].kind \in {"file", "link"}
      PROVE  \E s \in plan.snaps : \E i \in DOMAIN s : Stands(q, s, i)'
  <2>1. CASE fs'[q].kind = fs[q].kind /\ fs'[q].to = fs[q].to
    <3>1. PICK s \in plan.snaps : \E i \in DOMAIN s : Stands(q, s, i)
      BY <1>1, <2>1 DEF Shape
    <3>2. PICK i \in DOMAIN s : Stands(q, s, i)
      BY <3>1
    <3>3. Stands(q, s, i)'
      BY <3>2, <2>1 DEF Stands
    <3> QED BY <3>3
  <2> QED BY <1>1, <2>1
<1>2. ASSUME NEW s \in plan.snaps, Validate(s), NEW i \in DOMAIN s, s[i].kind \in K
      PROVE  fs'[s[i].path].kind # "dir"
  <2>1. s[i].path \in Paths /\ fs[s[i].path].kind # "dir"
    BY <1>2 DEF Shape
  <2> QED BY <2>1, <1>2
<1> QED BY <1>1, <1>2 DEF Shape

\* Every step keeps that shape.
LEMMA ShapeStep ==
  ASSUME TypeInv, AboveInv, NEW K, "dir" \notin K, ShapeOf(K), [Next]_vars
  PROVE  ShapeOf(K)'
<1>0. start' = start /\ plan' = plan
  BY DEF Next, vars
<1> SUFFICES ASSUME Lowest(K)', Fresh' PROVE Shape(K)'
  BY DEF ShapeOf
<1>1. Lowest(K) /\ Fresh /\ Shape(K)
  BY <1>0 DEF Lowest, Fresh, ShapeOf
<1>2. fs \in [Paths -> Node] /\ Tree(fs) /\ plan \in Plans
  BY DEF TypeInv, TypeOK, Tree
<1>3. \A s \in plan.snaps : Validate(s) => \A i \in DOMAIN s : s[i].path \in Paths
  BY <1>2, InputAssumption DEF Validate
<1>4. CASE fs' = fs
  BY <1>0, <1>1, <1>4 DEF Shape, Stands
<1>5. ASSUME job.pass > 0, job.left > 0
      PROVE  /\ Position \in DOMAIN job.snap /\ Now = job.snap[Position] /\ Now.path \in Paths
             /\ job.snap \in plan.snaps /\ Validate(job.snap) /\ \A s \in plan.snaps : s = job.snap
  BY <1>1, <1>5, NowFacts DEF TypeInv, JobOK, Fresh
<1>6. ASSUME job.pass > 0, job.left > 0, NEW q \in Along(Now.path), q # Now.path \/ Now.kind = "dir",
             NEW s \in plan.snaps, NEW i \in DOMAIN s, s[i].path = q
      PROVE  s[i].kind \notin K
  <2>1. /\ s = job.snap /\ Position \in DOMAIN s /\ Now = s[Position] /\ Now.path \in Paths
        /\ Validate(s)
    BY <1>5, <1>6
  <2>2. CASE q = Now.path
    <3>1. i = Position
      BY <2>1, <2>2, <1>6 DEF Validate
    <3> QED BY <3>1, <2>1, <2>2, <1>6
  <2>3. CASE q # Now.path
    <3>1. q \in Above(Now.path)
      BY <2>1, <2>3, <1>6, PathFacts
    <3> QED BY <3>1, <2>1, <1>1, <1>6 DEF Lowest
  <2> QED BY <2>2, <2>3
<1>7. CASE Next
  <2>1. CASE MkDir
    <3>1. job.pass > 0 /\ job.left > 0 /\ Now.kind = "dir"
      BY <2>1, MkDirEffect
    <3>2. ASSUME NEW q \in Paths
          PROVE  \/ fs'[q].kind = fs[q].kind /\ fs'[q].to = fs[q].to
                 \/ /\ fs'[q].kind = "dir"
                    /\ \A s \in plan.snaps : \A i \in DOMAIN s : s[i].path = q => s[i].kind \notin K
      <4>1. fs'[q] = fs[q] \/ (q \in Along(Now.path) /\ fs'[q] = Folder)
        BY <2>1, MkDirEffect
      <4>2. CASE fs'[q] = fs[q]
        BY <4>2
      <4>3. CASE q \in Along(Now.path) /\ fs'[q] = Folder
        <5>1. fs'[q].kind = "dir"
          BY <4>3, NodeFacts
        <5> QED BY <5>1, <4>3, <3>1, <1>6
      <4> QED BY <4>1, <4>2, <4>3
    <3> QED BY <3>2, <1>0, <1>1, <1>3, ShapeKept
  <2>2. CASE Clear
    <3>0. UNCHANGED <<start, plan>>
      BY <1>0
    <3>1. job.pass > 0 /\ job.left > 0 /\ Now.path \in Paths
      BY <2>2, <3>0, ClearEffect
    <3>2. ASSUME NEW q \in Paths
          PROVE  \/ fs'[q].kind = fs[q].kind /\ fs'[q].to = fs[q].to
                 \/ fs'[q].kind = "none"
                 \/ /\ fs'[q].kind = "dir"
                    /\ \A s \in plan.snaps : \A i \in DOMAIN s : s[i].path = q => s[i].kind \notin K
      <4>1. fs'[q] = fs[q] \/ (q \in Above(Now.path) /\ fs'[q] = Folder) \/ fs'[q] = Nothing
        BY <2>2, <3>0, ClearEffect, Zenon
      <4>2. CASE fs'[q] = fs[q]
        BY <4>2
      <4>3. CASE q \in Above(Now.path) /\ fs'[q] = Folder
        <5>1. fs'[q].kind = "dir" /\ q # Now.path /\ q \in Along(Now.path)
          BY <4>3, <3>1, NodeFacts, PathFacts
        <5> QED BY <5>1, <3>1, <1>6
      <4>4. CASE fs'[q] = Nothing
        BY <4>4, NodeFacts
      <4> QED BY <4>1, <4>2, <4>3, <4>4
    <3> QED BY <3>2, <1>0, <1>1, <1>3, ShapeKept
  <2>3. CASE CreateFile
    <3>1. job.pass > 0 /\ job.left > 0 /\ Now.kind = "file"
      BY <2>3, CreateCases
    <3>2. Now.path \in Paths /\ At.at = Now.path
      BY <2>3, <1>1, CreateHere
    <3>3. FileIno \in Inodes
      BY <1>2, FreeInode DEF FileIno, There, Tree, Rooted
    <3>4. CASE fs' = [fs EXCEPT ![Now.path] = FileAt(FileIno)]
      <4>1. fs'[Now.path].kind = "file" /\ \A q \in Paths : q # Now.path => fs'[q] = fs[q]
        BY <3>2, <3>3, <3>4, <1>2, NodeFacts
      <4>2. PICK s \in plan.snaps : s = job.snap
        BY <3>1, <1>5
      <4>3. PICK k \in DOMAIN s : k = Position
        BY <3>1, <4>2, <1>5
      <4>4. PICK p \in Paths : p = Now.path
        BY <3>2
      <4>5. Stands(p, s, k)'
        BY <3>1, <4>1, <4>2, <4>3, <4>4, <1>5 DEF Stands
      <4>6. ASSUME NEW q \in Paths
            PROVE  \/ fs'[q].kind = fs[q].kind /\ fs'[q].to = fs[q].to
                   \/ /\ fs'[q].kind \in {"file", "link"}
                      /\ \E x \in plan.snaps : \E i \in DOMAIN x : Stands(q, x, i)'
        BY <4>1, <4>4, <4>5
      <4> QED BY <4>6, <1>0, <1>1, <1>3, ShapeKept
    <3> QED BY <2>3, <3>2, <3>4, <1>4, CreateCases
  <2>4. CASE MakeLink
    <3>1. /\ job.pass > 0 /\ job.left > 0 /\ job.step = "make" /\ Now.kind \in {"hardlink", "symlink"}
          /\ fs' = fs \/ (LinkFree /\ fs' = [fs EXCEPT ![Now.path] = LinkNode])
      BY <2>4, LinkCases
    <3>2. CASE LinkFree /\ fs' = [fs EXCEPT ![Now.path] = LinkNode]
      <4>1. fs'[Now.path] = LinkNode /\ \A q \in Paths : q # Now.path => fs'[q] = fs[q]
        BY <3>1, <3>2, <1>2, <1>5
      <4>2. PICK s \in plan.snaps : s = job.snap
        BY <3>1, <1>5
      <4>3. PICK k \in DOMAIN s : k = Position
        BY <3>1, <4>2, <1>5
      <4>4. PICK p \in Paths : p = Now.path
        BY <3>1, <1>5
      <4>5. \/ Now.kind = "hardlink" /\ fs'[p].kind = "file"
            \/ Now.kind = "symlink" /\ fs'[p].kind = "link" /\ fs'[p].to = Now.to
        <5>1. CASE Now.kind = "hardlink"
          BY <5>1, <4>1, <4>4 DEF LinkNode, FileAt, Nothing
        <5>2. CASE Now.kind = "symlink"
          BY <5>2, <4>1, <4>4 DEF LinkNode, LinkTo, Nothing
        <5> QED BY <5>1, <5>2, <3>1
      <4>6. Stands(p, s, k)'
        BY <3>1, <4>2, <4>3, <4>4, <4>5, <1>5 DEF Stands
      <4>7. ASSUME NEW q \in Paths
            PROVE  \/ fs'[q].kind = fs[q].kind /\ fs'[q].to = fs[q].to
                   \/ /\ fs'[q].kind \in {"file", "link"}
                      /\ \E x \in plan.snaps : \E i \in DOMAIN x : Stands(q, x, i)'
        BY <4>1, <4>4, <4>5, <4>6
      <4> QED BY <4>7, <1>0, <1>1, <1>3, ShapeKept
    <3> QED BY <3>1, <3>2, <1>4
  <2>5. CASE DirMode
    <3>1. job.pass > 0 /\ job.left > 0 /\ Now.kind = "dir"
      BY <2>5, ModeCases
    <3>2. Now.locked \in BOOLEAN
      BY <3>1, NowFacts, EntryFacts DEF TypeInv
    <3>3. ASSUME NEW r \in Paths, fs' = WithMode(fs, r, Now.locked) PROVE Shape(K)'
      <4>1. \A q \in Paths : fs'[q].kind = fs[q].kind /\ fs'[q].to = fs[q].to
        BY <3>2, <3>3, <1>2, ModeFacts
      <4> QED BY <4>1, <1>0, <1>1, <1>3, ShapeKept
    <3> QED BY <2>5, <3>3, <1>4, ModeCases
  <2>6. CASE Fill \/ Loop \/ Stop \/ \E s \in plan.snaps : Call(s)
    BY <2>6, <1>4 DEF Fill, Loop, Stop, Call
  <2> QED BY <1>7, <2>1, <2>2, <2>3, <2>4, <2>5, <2>6 DEF Next
<1> QED BY <1>4, <1>7 DEF vars

LEMMA ShapeInit == ASSUME Init PROVE ShapeInv
<1> SUFFICES ASSUME Fresh, NEW K PROVE Shape(K)
  BY DEF ShapeInv, ShapeOf
<1>1. fs = start.fs /\ plan \in Plans
  BY DEF Init
<1>2. \A q \in Paths : fs[q].kind = "none"
  BY <1>1 DEF Fresh
<1>3. \A s \in plan.snaps : Validate(s) => \A i \in DOMAIN s : s[i].path \in Paths
  BY <1>1, InputAssumption DEF Validate
<1> QED BY <1>2, <1>3 DEF Shape

LEMMA ShapeAlways == Spec => []ShapeInv
<1>1. Init => ShapeInv
  BY ShapeInit
<1>2. TypeInv /\ KeepInv /\ ShapeInv /\ [Next]_vars => ShapeInv'
  BY ShapeStep DEF KeepInv, ShapeInv, Leaves
<1> QED BY <1>1, <1>2, TypeAlways, KeepAlways, PTL DEF Spec

\* Nothing that stands in the way of directories of the snapshot is there.
LEMMA MakesDirs ==
  ASSUME TypeInv, Unlocked, Trees, Fresh, Shape(Leaves), job.pass > 0, job.left > 0, NEW p \in Paths,
         p \in Along(Now.path), p # Now.path \/ Now.kind = "dir"
  PROVE  CreatesDir(fs, p)
<1>1. /\ Position \in DOMAIN job.snap /\ Now = job.snap[Position] /\ Now.path \in Paths
      /\ fs \in [Paths -> Node]
  BY NowFacts DEF TypeInv, TypeOK
<1>2. ASSUME NEW q \in Along(p) PROVE fs[q].kind \in {"none", "dir"}
  <2>1. q \in Along(Now.path) /\ q \in Paths /\ (q = Now.path => Now.kind = "dir")
    <3>1. q \in Along(Now.path) /\ (p \in Above(Now.path) => q \in Above(Now.path))
      BY <1>1, <1>2, AboveAbove
    <3>2. p # Now.path => p \in Above(Now.path)
      BY <1>1, PathFacts
    <3> QED BY <3>1, <3>2, <1>1, PathFacts
  <2>2. fs[q] \in Node
    BY <1>1, <2>1
  <2>3. ASSUME fs[q].kind \in {"file", "link"} PROVE FALSE
    <3>1. PICK i \in DOMAIN job.snap : job.snap[i].path = q /\ job.snap[i].kind # "dir"
      BY <2>1, <2>3, StandsNow
    <3>2. i = Position
      BY <3>1, <1>1, <2>1, EntriesApart
    <3> QED BY <3>1, <3>2, <2>1, <1>1
  <2> QED BY <2>2, <2>3 DEF Node
<1>3. ASSUME NEW q \in Along(p) PROVE Open(fs, q)
  <2>1. q \in Paths /\ Len(q) \in Nat
    BY <1>3, PathFacts
  <2>2. \A l \in Nat : l > 1 => l # 1
    OBVIOUS
  <2>3. Len(q) > 1 => Front(q) \in Paths
    BY <2>1, <2>2, FrontFacts, Zenon
  <2> QED BY <2>3 DEF Open, Unlocked
<1> QED BY <1>2, <1>3 DEF CreatesDir

\* Before an entry is written all its checks succeed.
LEMMA ClearSucceeds ==
  ASSUME TypeInv, Unlocked, Trees, Fresh, Shape(Leaves), Written, Clear
  PROVE  ClearGood
<1> DEFINE p == Now.path
<1>1. job.pass > 0 /\ job.left > 0 /\ Now.kind \in {"file", "hardlink", "symlink"}
  BY ClearCases
<1>2. p \in Paths /\ Tree(fs)
  BY <1>1, NowFacts DEF TypeInv, TypeOK, Tree
<1>3. Len(p) \in Nat /\ \A l \in Nat : l > 1 => l # 1
  BY <1>2, PathFacts
<1>4. Len(p) > 1 => Len(p) # 1 /\ Front(p) \in Paths /\ Front(p) \in Above(p) /\ Along(Front(p)) = Above(p)
  BY <1>2, <1>3, FrontFacts, Zenon
<1>5. ClearMade
  <2> SUFFICES ASSUME Len(p) > 1 PROVE CreatesDir(fs, Front(p))
    BY DEF ClearMade
  <2>1. Front(p) \in Along(p) /\ Front(p) # p /\ Front(p) \in Paths
    BY <1>2, <1>4, PathFacts
  <2> QED BY <2>1, <1>1, MakesDirs
<1>6. /\ Tree(ClearTree) /\ \A q \in Above(p) : ClearTree[q].kind = "dir"
      /\ \A q \in Paths : ClearTree[q] = fs[q] \/ q \in Above(p)
  BY <1>2, <1>5, ClearTreeFacts
<1>7. ParentWithin(ClearTree, p)
  <2> SUFFICES ASSUME Len(p) > 1 PROVE Resolve(ClearTree, Front(p)).end = "here"
    BY DEF ParentWithin
  <2> DEFINE r == Front(p)
  <2>1. r \in Paths /\ r \in Above(p) /\ Above(r) \subseteq Above(p)
    BY <1>4, PathFacts
  <2>2. DOMAIN ClearTree = Paths /\ ClearTree[r].kind = "dir" /\ \A q \in Above(r) : ClearTree[q].kind = "dir"
    BY <2>1, <1>6 DEF Tree
  <2>3. ClearTree[r].kind \in {"none", "dir", "file"} /\ ClearTree[r].kind # "none"
    BY <2>2
  <2> HIDE DEF r
  <2>4. Resolve(ClearTree, r).end = "here"
    BY <2>1, <2>2, <2>3, WalkDirs
  <2> QED BY <2>4 DEF r
<1>8. Now.kind = "hardlink" => ClearSrc # <<>>
  <2> SUFFICES ASSUME Now.kind = "hardlink" PROVE ClearSrc # <<>>
    OBVIOUS
  <2>1. ClearSrc \in Paths
    BY <1>5, ClearFindsTarget
  <2> QED BY <2>1, PathFacts
<1>9. MayRemove(ClearTree, p)
  <2>1. ClearTree[p] = fs[p]
    BY <1>2, <1>6, PathFacts
  <2>2. fs[p].kind # "dir"
    BY <1>1, NoDirHere DEF Leaves
  <2> QED BY <2>1, <2>2 DEF MayRemove
<1> QED BY <1>5, <1>7, <1>8, <1>9 DEF ClearGood

\* A link is made where nothing is, to a file that is there.
LEMMA LinkSucceeds ==
  ASSUME TypeInv, AboveInv, Unlocked, PlaceInv, Trees, Written, MakeLink
  PROVE  LinkFree
<1>1. job.pass > 0 /\ job.left > 0 /\ job.step = "make" /\ Now.kind \in Passes[job.pass]
  BY LinkCases
<1>2. Now.path \in Paths /\ Len(Now.path) \in Nat
  BY <1>1, NowFacts, PathFacts DEF TypeInv
<1>3. \A l \in Nat : l > 1 => l # 1
  OBVIOUS
<1>4. Len(Now.path) > 1 => Front(Now.path) \in Paths
  BY <1>2, <1>3, FrontFacts, Zenon
<1>5. Creatable(fs, Now.path)
  BY <1>1, <1>2, <1>4 DEF Creatable, Open, Unlocked, AboveInv, PlaceInv
<1>6. Now.kind = "hardlink" => fs[job.src].kind = "file"
  <2> SUFFICES ASSUME Now.kind = "hardlink" PROVE fs[job.src].kind = "file"
    OBVIOUS
  <2>1. fs[Now.to].kind = "file"
    BY <1>1, TargetWritten
  <2> QED BY <2>1, <1>1 DEF Written
<1> QED BY <1>5, <1>6 DEF LinkFree

\* No call for the one snapshot has been refused.
NoRefusal == NoLocks /\ Trees /\ Fresh => res # "refused"

\* No step of a call for the one snapshot is refused.
LEMMA NoRefusalStep ==
  ASSUME TypeInv, KeepInv, WrittenInv, ShapeInv, NoRefusal, [Next]_vars
  PROVE  NoRefusal'
<1>0. start' = start /\ plan' = plan
  BY DEF Next, vars
<1> SUFFICES ASSUME NoLocks', Trees', Fresh' PROVE res' # "refused"
  BY DEF NoRefusal
<1>1. /\ NoLocks /\ Trees /\ Fresh /\ Shape(Leaves) /\ Written /\ AboveInv /\ Unlocked /\ PlaceInv
      /\ res # "refused"
  <2>1. NoLocks /\ Trees /\ Fresh
    BY <1>0 DEF NoLocks, Trees, Fresh
  <2>2. Lowest(Leaves)
    BY <2>1 DEF Lowest, Leaves, Trees, Treelike
  <2> QED BY <2>1, <2>2 DEF WrittenInv, KeepInv, ShapeInv, ShapeOf, NoRefusal
<1>2. CASE UNCHANGED vars
  BY <1>1, <1>2 DEF vars
<1>a. Proceed => res' = res
  BY DEF Proceed
<1>3. CASE Next
  <2>1. CASE MkDir
    <3>1. job.pass > 0 /\ job.left > 0 /\ Now.kind = "dir" /\ Now.path \in Paths
      BY <2>1, MkDirEffect
    <3>2. Now.path \in Along(Now.path)
      BY <3>1, PathFacts
    <3>3. CreatesDir(fs, Now.path)
      BY <3>1, <3>2, <1>1, MakesDirs
    <3> QED BY <2>1, <3>3, <1>1, <1>a, MkDirEffect
  <2>2. CASE Clear
    <3>1. ClearGood
      BY <2>2, <1>1, ClearSucceeds
    <3> QED BY <2>2, <3>1, <1>1, ClearCases DEF Ended
  <2>3. CASE CreateFile
    <3>1. Vacant
      BY <2>3, <1>1, CreateVacant
    <3> QED BY <2>3, <3>1, <1>1, CreateCases
  <2>4. CASE MakeLink
    <3>1. LinkFree
      BY <2>4, <1>1, LinkSucceeds
    <3> QED BY <2>4, <3>1, <1>1, <1>a, LinkCases
  <2>5. CASE DirMode
    BY <2>5, <1>1, <1>a, ModeCases
  <2>6. CASE Fill \/ Loop \/ Stop \/ \E s \in plan.snaps : Call(s)
    BY <2>6, <1>1 DEF Fill, Loop, Stop, Call, Proceed, Ended
  <2> QED BY <1>3, <2>1, <2>2, <2>3, <2>4, <2>5, <2>6 DEF Next
<1> QED BY <1>2, <1>3

\* download_tree, "Re-run the same call to converge": of one snapshot of a tree,
\* whatever its size and wherever earlier calls stopped, none is refused.
THEOREM ReRunIsNeverRefused == Spec => []RerunConverges
<1>1. Init => NoRefusal
  BY DEF Init, NoRefusal
<1>2. TypeInv /\ KeepInv /\ WrittenInv /\ ShapeInv /\ NoRefusal /\ [Next]_vars => NoRefusal'
  BY NoRefusalStep
<1>3. NoRefusal => RerunConverges
  BY DEF NoRefusal, RerunConverges
<1> QED BY <1>1, <1>2, <1>3, TypeAlways, KeepAlways, WrittenAlways, ShapeAlways, PTL DEF Spec

-----------------------------------------------------------------------------
(* Where links lead. *)

\* A state of a resolution.
Walker(at, rest, hops, end) == [at |-> at, rest |-> rest, hops |-> hops, end |-> end]

LEMMA WalkerIs ==
  ASSUME NEW w, NEW a, NEW r, NEW h, NEW e, w = [k \in {"at", "rest", "hops", "end"} |-> w[k]],
         w.at = a, w.rest = r, w.hops = h, w.end = e
  PROVE  w = Walker(a, r, h, e)
<1> DEFINE v == Walker(a, r, h, e)
<1>1. v = [k \in {"at", "rest", "hops", "end"} |-> v[k]]
  BY DEF Walker
<1>2. v.at = a /\ v.rest = r /\ v.hops = h /\ v.end = e
  BY DEF Walker
<1> HIDE DEF v
<1>3. \A k \in {"at", "rest", "hops", "end"} : w[k] = v[k]
  BY <1>2
<1>4. w = v
  BY <1>1, <1>3
<1> QED BY <1>4 DEF v

\* What one step makes of a walk that is at a, with r and h hops left, where
\* node is the next one.
Moves(w, a, r, h, next, node) ==
  LET named == r # <<>> /\ Head(r) # Up
  IN  /\ r = <<>> => w = Walker(a, r, h, "here")
      /\ r # <<>> /\ Head(r) = Up /\ a = <<>> => w = Walker(a, r, h, "outside")
      /\ r # <<>> /\ Head(r) = Up /\ a # <<>> => w = Walker(Front(a), Tail(r), h, "on")
      /\ named /\ node.kind = "link" /\ h = 0 => w = Walker(a, r, h, "missing")
      /\ named /\ node.kind = "link" /\ h # 0 => w = Walker(a, node.to \o Tail(r), h - 1, "on")
      /\ named /\ node.kind = "none" => w \in {Walker(next, r, h, "absent"), Walker(a, r, h, "missing")}
      /\ named /\ node.kind = "file" => w \in {Walker(a, r, h, "missing"), Walker(next, Tail(r), h, "on")}
      /\ named /\ node.kind = "dir" => w = Walker(next, Tail(r), h, "on")

\* One step of a resolution, by cases.
LEMMA StepOf ==
  ASSUME NEW v, NEW other, NEW a, NEW r, NEW h, NEW next, NEW node, NEW s,
         next = Append(a, Head(r)), node = IF next \in DOMAIN v THEN v[next] ELSE other,
         s = Walker(a, r, h, "on")
  PROVE  Moves(WalkStep(v, other, s), a, r, h, next, node)
<1> DEFINE w == WalkStep(v, other, s)
<1>1. s.at = a /\ s.rest = r /\ s.hops = h /\ s.end = "on"
  BY DEF Walker
<1>2. /\ [s EXCEPT !.end = "here"] = Walker(a, r, h, "here")
      /\ [s EXCEPT !.end = "outside"] = Walker(a, r, h, "outside")
      /\ [s EXCEPT !.end = "missing"] = Walker(a, r, h, "missing")
  BY DEF Walker
<1>a. ASSUME NEW x, NEW y PROVE [s EXCEPT !.at = x, !.rest = y] = Walker(x, y, h, "on")
  <2> DEFINE u == [s EXCEPT !.at = x, !.rest = y]
  <2>1. u.at = x /\ u.rest = y /\ u.hops = h /\ u.end = "on"
    BY DEF Walker
  <2>2. u = [k \in {"at", "rest", "hops", "end"} |-> u[k]]
    BY DEF Walker
  <2> HIDE DEF u
  <2>3. u = Walker(x, y, h, "on")
    BY <2>1, <2>2, WalkerIs
  <2> QED BY <2>3 DEF u
<1>b. ASSUME NEW x, NEW y PROVE [s EXCEPT !.rest = x, !.hops = y] = Walker(a, x, y, "on")
  <2> DEFINE u == [s EXCEPT !.rest = x, !.hops = y]
  <2>1. u.at = a /\ u.rest = x /\ u.hops = y /\ u.end = "on"
    BY DEF Walker
  <2>2. u = [k \in {"at", "rest", "hops", "end"} |-> u[k]]
    BY DEF Walker
  <2> HIDE DEF u
  <2>3. u = Walker(a, x, y, "on")
    BY <2>1, <2>2, WalkerIs
  <2> QED BY <2>3 DEF u
<1>c. ASSUME NEW x PROVE [s EXCEPT !.at = x, !.end = "absent"] = Walker(x, r, h, "absent")
  <2> DEFINE u == [s EXCEPT !.at = x, !.end = "absent"]
  <2>1. u.at = x /\ u.rest = r /\ u.hops = h /\ u.end = "absent"
    BY DEF Walker
  <2>2. u = [k \in {"at", "rest", "hops", "end"} |-> u[k]]
    BY DEF Walker
  <2> HIDE DEF u
  <2>3. u = Walker(x, r, h, "absent")
    BY <2>1, <2>2, WalkerIs
  <2> QED BY <2>3 DEF u
<1>3. [s EXCEPT !.at = Front(@), !.rest = Tail(@)] = Walker(Front(a), Tail(r), h, "on")
  BY <1>1, <1>a, Zenon
<1>4. [s EXCEPT !.rest = node.to \o Tail(@), !.hops = @ - 1] = Walker(a, node.to \o Tail(r), h - 1, "on")
  BY <1>1, <1>b, Zenon
<1>5. [s EXCEPT !.at = next, !.end = "absent"] = Walker(next, r, h, "absent")
  BY <1>c, Zenon
<1>6. [s EXCEPT !.at = next, !.rest = Tail(@)] = Walker(next, Tail(r), h, "on")
  BY <1>1, <1>a, Zenon
<1>7. ASSUME r = <<>> PROVE w = [s EXCEPT !.end = "here"]
  BY <1>1, <1>7 DEF WalkStep
<1>8. ASSUME r # <<>>, Head(r) = Up
      PROVE  /\ a = <<>> => w = [s EXCEPT !.end = "outside"]
             /\ a # <<>> => w = [s EXCEPT !.at = Front(@), !.rest = Tail(@)]
  BY <1>1, <1>8 DEF WalkStep
<1>9. ASSUME r # <<>>, Head(r) # Up, node.kind = "link"
      PROVE  /\ h = 0 => w = [s EXCEPT !.end = "missing"]
             /\ h # 0 => w = [s EXCEPT !.rest = node.to \o Tail(@), !.hops = @ - 1]
  BY <1>1, <1>9 DEF WalkStep
<1>10. ASSUME r # <<>>, Head(r) # Up, node.kind = "none"
       PROVE  w = [s EXCEPT !.at = next, !.end = "absent"] \/ w = [s EXCEPT !.end = "missing"]
  BY <1>1, <1>10 DEF WalkStep
<1>11. ASSUME r # <<>>, Head(r) # Up, node.kind = "file"
       PROVE  w = [s EXCEPT !.end = "missing"] \/ w = [s EXCEPT !.at = next, !.rest = Tail(@)]
  BY <1>1, <1>11 DEF WalkStep
<1>12. ASSUME r # <<>>, Head(r) # Up, node.kind = "dir"
       PROVE  w = [s EXCEPT !.at = next, !.rest = Tail(@)]
  BY <1>1, <1>12 DEF WalkStep
<1> HIDE DEF w
<1>13. Moves(w, a, r, h, next, node)
  BY <1>2, <1>3, <1>4, <1>5, <1>6, <1>7, <1>8, <1>9, <1>10, <1>11, <1>12, Zenon DEF Moves
<1> QED BY <1>13 DEF w

\* f has some of the links of l, each to where l has it, and nothing in the
\* place of the others.
Within(f, l) ==
  /\ \A q \in Paths : f[q].kind = "link" => q \in DOMAIN l /\ l[q].to = f[q].to
  /\ \A q \in DOMAIN l : l[q].kind = "link" /\ (q \in Paths => f[q].kind \in {"link", "none"})

\* The kernel on f and resolve_confined on l go the same way, or one of them
\* has ended: resolve_confined with a failure, or the kernel inside the root.
Together(g, c) ==
  \/ c.end \in {"missing", "outside"}
  \/ g.end \in {"here", "missing", "absent"}
  \/ \E a, r : \E h, k \in Nat : k <= h /\ g = Walker(a, r, h, "on") /\ c = Walker(a, r, k, "on")

\* The kernel's walk over the links that are there stays in step with the walk
\* of resolve_confined over all of them, or has ended inside.
LEMMA TogetherStep ==
  ASSUME NEW f \in [Paths -> Node], NEW l, Within(f, l), NEW g, NEW c, Together(g, c)
  PROVE  Together(WalkStep(f, Nothing, g), WalkStep(l, Folder, c))
<1>1. CASE c.end \in {"missing", "outside"}
  <2>1. WalkStep(l, Folder, c) = c
    BY <1>1 DEF WalkStep
  <2> QED BY <1>1, <2>1 DEF Together
<1>2. CASE g.end \in {"here", "missing", "absent"}
  <2>1. WalkStep(f, Nothing, g) = g
    BY <1>2 DEF WalkStep
  <2> QED BY <1>2, <2>1 DEF Together
<1>3. ASSUME NEW a, NEW r, NEW h \in Nat, NEW k \in Nat, k <= h,
             g = Walker(a, r, h, "on"), c = Walker(a, r, k, "on")
      PROVE  Together(WalkStep(f, Nothing, g), WalkStep(l, Folder, c))
  <2> DEFINE next == Append(a, Head(r))
             m == IF next \in DOMAIN f THEN f[next] ELSE Nothing
             n == IF next \in DOMAIN l THEN l[next] ELSE Folder
             G == WalkStep(f, Nothing, g)
             C == WalkStep(l, Folder, c)
  <2>0. \A w, x, y, z : Walker(w, x, y, z).end = z
    BY DEF Walker
  <2>1. \/ m.kind = "link" /\ n.kind = "link" /\ m.to = n.to
        \/ m.kind = "none"
        \/ m.kind \in {"dir", "file"} /\ n.kind = "dir"
    <3>1. CASE next \in Paths
      <4>1. m = f[next] /\ f[next] \in Node
        BY <3>1
      <4>2. f[next].kind \in {"none", "dir", "file", "link"}
        BY <4>1 DEF Node
      <4> QED BY <3>1, <4>1, <4>2, NodeFacts DEF Within
    <3>2. CASE next \notin Paths
      BY <3>2, NodeFacts
    <3> QED BY <3>1, <3>2
  <2>2. Moves(G, a, r, h, next, m)
    BY <1>3, StepOf
  <2>3. Moves(C, a, r, k, next, n)
    BY <1>3, StepOf
  <2> SUFFICES Together(G, C)
    OBVIOUS
  <2> HIDE DEF G, C, m, n, next
  <2>4. CASE r = <<>>
    <3>1. G = Walker(a, r, h, "here")
      BY <2>2, <2>4 DEF Moves
    <3> QED BY <3>1, <2>0 DEF Together
  <2>5. CASE r # <<>> /\ Head(r) = Up /\ a = <<>>
    <3>1. C = Walker(a, r, k, "outside")
      BY <2>3, <2>5 DEF Moves
    <3> QED BY <3>1, <2>0 DEF Together
  <2>6. CASE r # <<>> /\ Head(r) = Up /\ a # <<>>
    <3>1. G = Walker(Front(a), Tail(r), h, "on") /\ C = Walker(Front(a), Tail(r), k, "on")
      BY <2>2, <2>3, <2>6 DEF Moves
    <3> QED BY <3>1, <1>3 DEF Together
  <2>7. CASE r # <<>> /\ Head(r) # Up /\ m.kind = "link" /\ n.kind = "link" /\ m.to = n.to
    <3>1. CASE k = 0
      <4>1. C = Walker(a, r, k, "missing")
        BY <2>3, <2>7, <3>1 DEF Moves
      <4> QED BY <4>1, <2>0 DEF Together
    <3>2. CASE k # 0
      <4>1. h # 0 /\ h - 1 \in Nat /\ k - 1 \in Nat /\ k - 1 <= h - 1
        BY <1>3, <3>2
      <4>2. G = Walker(a, m.to \o Tail(r), h - 1, "on") /\ C = Walker(a, m.to \o Tail(r), k - 1, "on")
        BY <2>2, <2>3, <2>7, <3>2, <4>1, Zenon DEF Moves
      <4> QED BY <4>1, <4>2 DEF Together
    <3> QED BY <3>1, <3>2
  <2>8. CASE r # <<>> /\ Head(r) # Up /\ m.kind = "none"
    <3>1. G = Walker(next, r, h, "absent") \/ G = Walker(a, r, h, "missing")
      BY <2>2, <2>8 DEF Moves
    <3> QED BY <3>1, <2>0 DEF Together
  <2>9. CASE r # <<>> /\ Head(r) # Up /\ m.kind \in {"dir", "file"} /\ n.kind = "dir"
    <3>1. C = Walker(next, Tail(r), k, "on")
      BY <2>3, <2>9 DEF Moves
    <3>2. G = Walker(a, r, h, "missing") \/ G = Walker(next, Tail(r), h, "on")
      BY <2>2, <2>9 DEF Moves
    <3> QED BY <3>1, <3>2, <2>0, <1>3 DEF Together
  <2> QED BY <2>1, <2>4, <2>5, <2>6, <2>7, <2>8, <2>9
<1> QED BY <1>1, <1>2, <1>3 DEF Together

\* A link that resolve_confined accepts leads nowhere outside the root, with
\* any of the other links there or not.
LEMMA ConfinedHolds ==
  ASSUME NEW f \in [Paths -> Node], NEW l, Within(f, l), NEW base, NEW to,
         Walk(l, Folder, base, to, MaxHops - 1).end = "here"
  PROVE  Walk(f, Nothing, base, to, KernelHops).end # "outside"
<1>0. Fuel \in Nat /\ KernelHops \in Nat /\ MaxHops - 1 \in Nat /\ MaxHops - 1 <= KernelHops
  BY FuelEnough, HopAssumption
<1>1. PICK g : Trail(g, Fuel, f, Nothing, Begin(base, to, KernelHops))
  BY <1>0, TrailExists
<1>2. PICK c : Trail(c, Fuel, l, Folder, Begin(base, to, MaxHops - 1))
  BY <1>0, TrailExists
<1> DEFINE S == {n \in Nat : n <= Fuel => Together(g[n], c[n])}
<1>3. 0 \in S
  <2>1. g[0] = Walker(base, to, KernelHops, "on") /\ c[0] = Walker(base, to, MaxHops - 1, "on")
    BY <1>1, <1>2 DEF Trail, Begin, Walker
  <2>2. Together(g[0], c[0])
    BY <2>1, <1>0 DEF Together
  <2> QED BY <2>2
<1>4. ASSUME NEW n \in Nat, n \in S PROVE n + 1 \in S
  <2> SUFFICES ASSUME n + 1 <= Fuel PROVE Together(g[n + 1], c[n + 1])
    OBVIOUS
  <2>1. n + 1 \in 1..Fuel /\ (n + 1) - 1 = n /\ n <= Fuel
    BY <1>0
  <2>2. Together(g[n], c[n])
    BY <1>4, <2>1
  <2>3. g[n + 1] = WalkStep(f, Nothing, g[n]) /\ c[n + 1] = WalkStep(l, Folder, c[n])
    BY <1>1, <1>2, <2>1 DEF Trail
  <2> QED BY <2>2, <2>3, TogetherStep
<1> HIDE DEF S
<1>5. Nat \subseteq S
  BY <1>3, <1>4, NatInduct
<1>6. Together(g[Fuel], c[Fuel])
  BY <1>0, <1>5 DEF S
<1>7. Walk(f, Nothing, base, to, KernelHops) = g[Fuel] /\ Walk(l, Folder, base, to, MaxHops - 1) = c[Fuel]
  BY <1>1, <1>2, WalkTrail
<1>8. c[Fuel].end = "here"
  BY <1>7
<1>9. \A a, r, h, e : Walker(a, r, h, e).end = e
  BY DEF Walker
<1>10. g[Fuel].end # "outside"
  BY <1>6, <1>8, <1>9 DEF Together
<1> QED BY <1>7, <1>10

\* LinksOf has the links of an accepted snapshot.
LEMMA LinksOfFacts ==
  ASSUME NEW s, Validate(s), NEW i \in DOMAIN s, s[i].kind = "symlink"
  PROVE  s[i].path \in DOMAIN LinksOf(s) /\ LinksOf(s)[s[i].path] = s[i].to
<1> DEFINE e == {s[j] : j \in {k \in DOMAIN s : s[k].kind = "symlink"}}
<1>1. s[i] \in e
  OBVIOUS
<1>2. ASSUME NEW x \in e, x.path = s[i].path PROVE x = s[i]
  <2>1. PICK j \in DOMAIN s : x = s[j]
    BY <1>2
  <2>2. j = i
    BY <1>2, <2>1 DEF Validate
  <2> QED BY <2>1, <2>2
<1>3. LinksOf(s) = [p \in {x.path : x \in e} |-> (CHOOSE x \in e : x.path = p).to]
  BY DEF LinksOf
<1> HIDE DEF e
<1>4. (CHOOSE x \in e : x.path = s[i].path) = s[i]
  BY <1>1, <1>2
<1> QED BY <1>1, <1>3, <1>4

\* Declared links are entries of the snapshot.
LEMMA LinksOfDomain ==
  ASSUME NEW s, NEW q \in DOMAIN LinksOf(s)
  PROVE  \E i \in DOMAIN s : s[i].kind = "symlink" /\ s[i].path = q
BY DEF LinksOf

\* assert_symlinks_confined: in a fresh directory no link of an accepted snapshot
\* with no entry below a link, of any depth and with any number of links, ever
\* leads outside the root, although only some of the links are there.
THEOREM LinksAreConfined == Spec => []LinksConfined
<1>1. ASSUME TypeInv, ShapeInv PROVE LinksConfined
  <2> SUFFICES ASSUME Unshadowed, Fresh, NEW p \in Paths, fs[p].kind = "link"
               PROVE  Walk(fs, Nothing, Front(p), fs[p].to, KernelHops).end # "outside"
    BY DEF LinksConfined
  <2>a. Lowest({"symlink"})
    BY DEF Lowest, Unshadowed
  <2>0. Shape({"symlink"}) /\ fs \in [Paths -> Node] /\ plan \in Plans
    BY <1>1, <2>a DEF ShapeInv, ShapeOf, TypeInv, TypeOK
  <2>1. PICK s \in plan.snaps : \E i \in DOMAIN s : Stands(p, s, i)
    BY <2>0 DEF Shape
  <2>2. PICK i \in DOMAIN s : Stands(p, s, i)
    BY <2>1
  <2>3. Validate(s) /\ s[i].path = p /\ s[i].kind = "symlink" /\ fs[p].to = s[i].to
    BY <2>2 DEF Stands
  <2> DEFINE links == LinksOf(s)
             l == [q \in DOMAIN links |-> LinkTo(links[q])]
  <2>4. p \in DOMAIN links /\ links[p] = s[i].to
    BY <2>3, LinksOfFacts
  <2>5. Walk(l, Folder, Front(p), fs[p].to, MaxHops - 1).end = "here"
    BY <2>3, <2>4 DEF Validate, AssertSymlinksConfined, ResolveConfined
  <2>6. \A q \in DOMAIN links : LinkTo(links[q]).kind = "link" /\ LinkTo(links[q]).to = links[q]
    BY DEF LinkTo, Nothing
  <2>7. Within(fs, l)
    <3>1. ASSUME NEW q \in Paths, fs[q].kind = "link" PROVE q \in DOMAIN links /\ links[q] = fs[q].to
      <4>1. PICK x \in plan.snaps : \E j \in DOMAIN x : Stands(q, x, j)
        BY <2>0, <3>1 DEF Shape
      <4>2. x = s
        BY DEF Fresh
      <4>3. PICK j \in DOMAIN s : Stands(q, s, j)
        BY <4>1, <4>2
      <4>4. s[j].kind = "symlink" /\ s[j].path = q /\ s[j].to = fs[q].to
        BY <4>3, <3>1 DEF Stands
      <4> QED BY <4>4, <2>3, LinksOfFacts
    <3>2. ASSUME NEW q \in DOMAIN links, q \in Paths PROVE fs[q].kind \in {"link", "none"}
      <4>1. PICK j \in DOMAIN s : s[j].kind = "symlink" /\ s[j].path = q
        BY <3>2, LinksOfDomain
      <4>2. fs[q].kind # "dir"
        BY <4>1, <2>0, <2>3 DEF Shape
      <4>3. fs[q].kind # "file"
        <5> SUFFICES ASSUME fs[q].kind = "file" PROVE FALSE
          OBVIOUS
        <5>1. PICK x \in plan.snaps : \E k \in DOMAIN x : Stands(q, x, k)
          BY <2>0, <3>2 DEF Shape
        <5>2. x = s
          BY DEF Fresh
        <5>3. PICK k \in DOMAIN s : Stands(q, s, k)
          BY <5>1, <5>2
        <5>4. s[k].kind # "symlink" /\ s[k].path = q
          BY <5>3 DEF Stands
        <5>5. k = j
          BY <4>1, <5>4, <2>3 DEF Validate
        <5> QED BY <4>1, <5>4, <5>5
      <4>4. fs[q] \in Node
        BY <2>0, <3>2
      <4> QED BY <4>2, <4>3, <4>4 DEF Node
    <3> HIDE DEF links
    <3>3. DOMAIN l = DOMAIN links /\ \A q \in DOMAIN links : l[q] = LinkTo(links[q])
      OBVIOUS
    <3> HIDE DEF l
    <3>4. \A q \in DOMAIN l : l[q].kind = "link" /\ l[q].to = links[q]
      BY <3>3, <2>6
    <3> QED BY <3>1, <3>2, <3>3, <3>4 DEF Within
  <2> HIDE DEF l
  <2> QED BY <2>0, <2>5, <2>7, ConfinedHolds
<1> QED BY <1>1, TypeAlways, ShapeAlways, PTL
=============================================================================
