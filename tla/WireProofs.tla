----------------------------- MODULE WireProofs -----------------------------
(***************************************************************************)
(* Proofs about the operators of Ranges, Wire and Exchange, as MCWire      *)
(* states their properties, and about Publish: for bitfields, selectors,   *)
(* keys and lists of any length, any split of pieces among holders, any    *)
(* reply order and any size of a byte, a round or a shard.                 *)
(***************************************************************************)
EXTENDS MCWire, RangesProofs, SequenceTheorems, FiniteSetTheorems, WellFoundedInduction, TLAPS

-----------------------------------------------------------------------------
(* The publication. *)

\* The keys every sample reads back.
Wanted == IF coverage = None THEN 0..needed ELSE {0, needed}

\* The counters of publish_hashes, and the index after the last chunk.
CountInv ==
  /\ needed \in 0..MaxNeeded /\ sent \in Nat /\ read \in Nat /\ sent <= read /\ read <= needed
  /\ coverage \in Coverages
  /\ index # "none" => sent = needed
  /\ at \in {"probe", "ok"} => index # "none"

\* A storage that keeps the order holds what was put first.
OrderInv == inOrder => \E m \in 0..sent : stored = 1..m /\ way = (m+1)..sent

\* What is read back and not on the list any more has answered.
ProbeInv ==
  /\ probes \in Seq(Nat)
  /\ at \in {"probe", "ok"} =>
       \A x \in Wanted : Answers(x) \/ \E k \in 1..Len(probes) : probes[k] = x
  /\ at = "ok" => probes = <<>>

\* The inductive invariant of a publication.
PublishInv == CountInv /\ OrderInv /\ ProbeInv

\* There is at least one step in a stride, and at least one batch to a chunk.
LEMMA DivCeilType ==
  ASSUME NEW n \in Nat \ {0}, NEW b \in Nat \ {0} PROVE DivCeil(n, b) \in Nat \ {0}
<1>1. n + b - 1 \in Nat /\ n + b - 1 >= b
  OBVIOUS
<1>2. ASSUME NEW a \in Nat, a >= b PROVE a \div b \in Nat \ {0}
  BY <1>2
<1>. QED
  BY <1>1, <1>2 DEF DivCeil

\* A quotient of numbers is a number.
LEMMA DivType == ASSUME NEW a \in Nat, NEW b \in Nat \ {0} PROVE a \div b \in Nat
  OBVIOUS

\* sample_indices picks indices of the list, the last one among them.
LEMMA SampleLast ==
  ASSUME NEW n \in Nat \ {0}, NEW c, c = None \/ c \in Nat
  PROVE  /\ SampleIndices(n, c) \in Seq(Nat)
         /\ \A x \in (IF c = None THEN 0..(n-1) ELSE {n-1}) :
              \E k \in 1..Len(SampleIndices(n, c)) : SampleIndices(n, c)[k] = x
<1>1. CASE c = None
  <2>1. SampleIndices(n, c) = [j \in 1..n |-> j - 1]
    BY <1>1 DEF SampleIndices
  <2>2. [j \in 1..n |-> j - 1] \in Seq(Nat) /\ Len([j \in 1..n |-> j - 1]) = n
    OBVIOUS
  <2>3. ASSUME NEW x \in 0..(n-1)
        PROVE  \E k \in 1..n : [j \in 1..n |-> j - 1][k] = x
    <3>1. x + 1 \in 1..n /\ [j \in 1..n |-> j - 1][x + 1] = x
      OBVIOUS
    <3>. QED
      BY <3>1
  <2>. QED
    BY <1>1, <2>1, <2>2, <2>3
<1>2. CASE c # None
  <2> DEFINE k      == IF c = 0 THEN 1 ELSE c
             step   == IF n \div k = 0 THEN 1 ELSE n \div k
             m      == DivCeil(n, step)
             stride == [j \in 1..m |-> (j-1) * step]
             picked == Truncated(stride, k)
             kept   == IF Len(picked) >= k THEN Front(picked) ELSE picked
  <2>1. k \in Nat \ {0}
    BY <1>2
  <2>2. step \in Nat \ {0}
    <3> HIDE DEF k
    <3>1. n \div k \in Nat
      BY <2>1, DivType
    <3> DEFINE q == n \div k
    <3> HIDE DEF q
    <3>2. (IF q = 0 THEN 1 ELSE q) \in Nat \ {0}
      BY <3>1 DEF q
    <3>. QED
      BY <3>2 DEF q
  <2>3. m \in Nat \ {0}
    BY <2>2, DivCeilType
  <2> HIDE DEF k, step, m
  <2>4. stride \in Seq(Nat) /\ Len(stride) = m
    <3>1. \A j \in 1..m : (j-1) * step \in Nat
      BY <2>2, <2>3
    <3>. QED
      BY <2>3, <3>1
  <2> HIDE DEF stride
  <2>5. picked \in Seq(Nat) /\ Len(picked) \in Nat \ {0}
    BY <2>1, <2>3, <2>4 DEF Truncated
  <2> HIDE DEF picked
  <2>6. kept \in Seq(Nat)
    BY <2>5 DEF Front
  <2> HIDE DEF kept
  <2>7. SampleIndices(n, c) = IF Last(picked) = n - 1 THEN picked ELSE Append(kept, n - 1)
    BY <1>2 DEF SampleIndices, kept, picked, stride, m, step, k
  <2>8. CASE Last(picked) = n - 1
    <3>1. picked[Len(picked)] = n - 1 /\ Len(picked) \in 1..Len(picked)
      BY <2>5, <2>8 DEF Last
    <3>. QED
      BY <1>2, <2>5, <2>7, <2>8, <3>1
  <2>9. CASE Last(picked) # n - 1
    <3>1. /\ Append(kept, n - 1) \in Seq(Nat)
          /\ Len(Append(kept, n - 1)) = Len(kept) + 1 /\ Len(kept) \in Nat
          /\ Append(kept, n - 1)[Len(kept) + 1] = n - 1
      BY <2>6
    <3>. QED
      BY <1>2, <2>7, <2>9, <3>1
  <2>. QED
    BY <2>8, <2>9
<1>. QED
  BY <1>1, <1>2

\* A publication starts with nothing put and nothing to read back.
LEMMA PublishInvInit == Publication => PublishInv
<1> SUFFICES ASSUME Publication PROVE PublishInv
  OBVIOUS
<1>1. CountInv
  BY PublishAssumption DEF Publication, CountInv
<1>2. OrderInv
  <2>1. 0 \in 0..sent /\ stored = 1..0 /\ way = (0+1)..sent
    BY DEF Publication
  <2>. QED
    BY <2>1 DEF OrderInv
<1>3. ProbeInv
  BY DEF Publication, ProbeInv
<1>. QED
  BY <1>1, <1>2, <1>3 DEF PublishInv

\* The counters: a chunk is put only when its group was read.
LEMMA CountStep ==
  ASSUME PublishInv, [PublishNext]_publishVars PROVE CountInv'
<1> USE PublishAssumption DEF PublishInv, CountInv
<1>1. CASE ReadGroup
  BY <1>1 DEF ReadGroup, AtMost
<1>2. CASE PutChunk
  BY <1>2 DEF PutChunk
<1>3. CASE PutIndex
  BY <1>3 DEF PutIndex
<1>4. CASE ProbeKey
  BY <1>4 DEF ProbeKey
<1>5. CASE LocalLoss
  BY <1>5 DEF LocalLoss
<1>6. CASE Store
  BY <1>6 DEF Store
<1>7. CASE UNCHANGED publishVars
  BY <1>7 DEF publishVars
<1>. QED
  BY <1>1, <1>2, <1>3, <1>4, <1>5, <1>6, <1>7 DEF PublishNext

\* A put lands at the end of what is on the way, and the storage takes from
\* its front.
LEMMA OrderStep ==
  ASSUME PublishInv, [PublishNext]_publishVars PROVE OrderInv'
<1> SUFFICES ASSUME inOrder' PROVE \E m \in 0..sent' : stored' = 1..m /\ way' = (m+1)..sent'
  BY DEF OrderInv
<1>1. inOrder' = inOrder /\ sent \in Nat
  BY DEF PublishNext, publishVars, ReadGroup, PutChunk, PutIndex, ProbeKey, LocalLoss, Store, PublishInv,
         CountInv
<1>2. PICK m \in 0..sent : stored = 1..m /\ way = (m+1)..sent
  BY <1>1 DEF PublishInv, OrderInv
<1>3. CASE UNCHANGED <<sent, stored, way>>
  BY <1>2, <1>3
<1>4. CASE PutChunk /\ sent' # sent
  <2>1. sent' = sent + 1 /\ way' = way \cup {sent + 1} /\ stored' = stored
    BY <1>4 DEF PutChunk
  <2>2. (m+1)..sent \cup {sent + 1} = (m+1)..(sent + 1) /\ m \in 0..(sent + 1)
    BY <1>1, <1>2
  <2>. QED
    BY <1>2, <2>1, <2>2
<1>5. CASE Store /\ way' # way
  <2>1. PICK x \in way : /\ \A y \in way : x <= y
                         /\ way' = way \ {x} /\ stored' = stored \cup {x}
    BY <1>1, <1>5 DEF Store
  <2>2. sent' = sent
    BY <1>5 DEF Store
  <2>3. x = m + 1 /\ m + 1 \in 0..sent
    <3>1. m + 1 \in way /\ x \in (m+1)..sent
      BY <1>1, <1>2, <2>1
    <3>2. x <= m + 1
      BY <2>1, <3>1
    <3>. QED
      BY <1>1, <1>2, <3>1, <3>2
  <2>4. 1..m \cup {m + 1} = 1..(m+1) /\ (m+1)..sent \ {m + 1} = (m+2)..sent
    BY <1>1, <1>2
  <2>5. stored' = 1..(m+1) /\ way' = ((m+1)+1)..sent'
    BY <1>1, <1>2, <2>1, <2>2, <2>3, <2>4
  <2>. QED
    BY <2>2, <2>3, <2>5
<1>6. CASE Store /\ way' = way
  <2>1. \A x \in way : way \ {x} # way
    OBVIOUS
  <2>2. UNCHANGED <<sent, stored, way>>
    BY <1>6, <2>1 DEF Store
  <2>. QED
    BY <1>3, <2>2
<1>7. CASE PutChunk /\ sent' = sent
  <2>1. sent + 1 # sent
    BY <1>1
  <2>. QED
    BY <1>3, <1>7, <2>1 DEF PutChunk
<1>8. CASE ReadGroup \/ PutIndex \/ ProbeKey \/ LocalLoss \/ UNCHANGED publishVars
  BY <1>3, <1>8 DEF publishVars, ReadGroup, PutIndex, ProbeKey, LocalLoss
<1>. QED
  BY <1>4, <1>5, <1>6, <1>7, <1>8 DEF PublishNext

\* What publish_snapshot lists to be read back: the index, and of the chunks
\* the last one, or all of them.
LEMMA ListsWanted ==
  ASSUME PublishInv, PutIndex, at' = "probe"
  PROVE  /\ probes' \in Seq(Nat)
         /\ \A x \in Wanted : \E k \in 1..Len(probes') : probes'[k] = x
<1> DEFINE s == SampleIndices(needed, coverage)
           t == IF needed = 0 THEN <<>> ELSE [j \in DOMAIN s |-> s[j] + 1]
<1>1. needed \in Nat /\ (coverage = None \/ coverage \in Nat)
  BY PublishAssumption DEF PublishInv, CountInv
<1>2. probes' = <<0>> \o t
  BY DEF PutIndex
<1>3. /\ t \in Seq(Nat)
      /\ needed # 0 => \A x \in (IF coverage = None THEN 1..needed ELSE {needed}) :
                         \E k \in 1..Len(t) : t[k] = x
  <2>1. CASE needed = 0
    BY <2>1
  <2>2. CASE needed # 0
    <3>1. /\ s \in Seq(Nat)
          /\ \A x \in (IF coverage = None THEN 0..(needed-1) ELSE {needed-1}) :
               \E k \in 1..Len(s) : s[k] = x
      BY <1>1, <2>2, SampleLast
    <3> HIDE DEF s
    <3>2. t = [j \in 1..Len(s) |-> s[j] + 1] /\ \A j \in 1..Len(s) : s[j] \in Nat
      BY <2>2, <3>1
    <3>3. t \in Seq(Nat) /\ Len(t) = Len(s) /\ \A j \in 1..Len(s) : t[j] = s[j] + 1
      <4>1. Len(s) \in Nat /\ \A j \in 1..Len(s) : s[j] + 1 \in Nat
        BY <3>1, <3>2
      <4> HIDE DEF t
      <4>2. DOMAIN t = 1..Len(s) /\ \A j \in 1..Len(s) : t[j] = s[j] + 1
        BY <3>2
      <4>3. t \in [1..Len(s) -> Nat]
        BY <3>2, <4>1
      <4>. QED
        BY <4>1, <4>2, <4>3
    <3> HIDE DEF t
    <3>4. ASSUME NEW x \in (IF coverage = None THEN 1..needed ELSE {needed})
          PROVE  \E k \in 1..Len(t) : t[k] = x
      <4>1. x \in Nat /\ x - 1 \in (IF coverage = None THEN 0..(needed-1) ELSE {needed-1})
        BY <1>1, <3>4
      <4>2. PICK k \in 1..Len(s) : s[k] = x - 1
        BY <3>1, <4>1
      <4>. QED
        BY <3>3, <4>1, <4>2
    <3>. QED
      BY <3>3, <3>4
  <2>. QED
    BY <2>1, <2>2
<1> HIDE DEF t
<1>4. /\ <<0>> \o t \in Seq(Nat) /\ Len(<<0>> \o t) = Len(t) + 1 /\ Len(t) \in Nat
      /\ (<<0>> \o t)[1] = 0 /\ \A k \in 1..Len(t) : (<<0>> \o t)[k + 1] = t[k]
  BY <1>3
<1>5. ASSUME NEW x \in Wanted PROVE \E k \in 1..(Len(t) + 1) : (<<0>> \o t)[k] = x
  <2>1. CASE x = 0
    BY <1>4, <2>1
  <2>2. CASE x # 0
    <3>1. needed # 0 /\ x \in (IF coverage = None THEN 1..needed ELSE {needed})
      BY <1>1, <1>5, <2>2 DEF Wanted
    <3>2. PICK k \in 1..Len(t) : t[k] = x
      BY <1>3, <3>1
    <3>3. k + 1 \in 1..(Len(t) + 1) /\ (<<0>> \o t)[k + 1] = x
      BY <1>4, <3>2
    <3>. QED
      BY <3>3
  <2>. QED
    BY <2>1, <2>2
<1>. QED
  BY <1>2, <1>4, <1>5

\* The read-back: a key leaves the list when it has answered, and what has
\* answered goes on answering.
LEMMA ProbeStep ==
  ASSUME PublishInv, [PublishNext]_publishVars PROVE ProbeInv'
<1>1. probes \in Seq(Nat) /\ Wanted' = Wanted /\ others' = others
  BY DEF PublishInv, ProbeInv, Wanted, PublishNext, publishVars, ReadGroup, PutChunk, PutIndex, ProbeKey,
         LocalLoss, Store
<1>2. CASE ProbeKey
  <2>0. UNCHANGED <<stored, index>> /\ at = "probe"
    BY <1>2 DEF ProbeKey
  <2>1. \A x : Answers(x)' <=> Answers(x)
    BY <1>1, <2>0 DEF Answers
  <2>2. CASE probes # <<>> /\ Answers(Head(probes)) /\ probes' = Tail(probes) /\ at' = at
    <3>1. /\ probes' \in Seq(Nat) /\ Len(probes') = Len(probes) - 1 /\ Len(probes) \in Nat \ {0}
          /\ \A k \in 1..Len(probes') : probes'[k] = probes[k + 1]
          /\ Head(probes) = probes[1]
      BY <1>1, <2>2
    <3>2. ASSUME NEW x \in Wanted
          PROVE  Answers(x) \/ \E k \in 1..Len(probes') : probes'[k] = x
      <4>1. CASE Answers(x)
        BY <4>1
      <4>2. CASE ~Answers(x)
        <5>1. PICK k \in 1..Len(probes) : probes[k] = x
          BY <2>0, <4>2 DEF PublishInv, ProbeInv
        <5>2. k # 1
          BY <2>2, <3>1, <4>2, <5>1
        <5>3. k - 1 \in 1..Len(probes') /\ probes'[k - 1] = probes[k]
          BY <3>1, <5>1, <5>2
        <5>. QED
          BY <5>1, <5>3
      <4>. QED
        BY <4>1, <4>2
    <3>. QED
      BY <1>1, <2>0, <2>1, <2>2, <3>1, <3>2 DEF ProbeInv
  <2>3. CASE probes' = <<>> /\ at' = "failed"
    BY <2>3 DEF ProbeInv
  <2>4. CASE probes = <<>> /\ at' = "ok" /\ probes' = probes
    <3>1. \A x \in Wanted : Answers(x)
      BY <2>0, <2>4 DEF PublishInv, ProbeInv
    <3>. QED
      BY <1>1, <2>1, <2>4, <3>1 DEF ProbeInv
  <2>. QED
    BY <1>2, <2>2, <2>3, <2>4 DEF ProbeKey
<1>3. CASE PutIndex /\ at' = "probe"
  BY <1>1, <1>3, ListsWanted DEF PutIndex, ProbeInv
<1>4. CASE probes' = probes /\ at' = at /\ stored \subseteq stored' /\ (index = "held" => index' = "held")
  <2>1. \A x : Answers(x) => Answers(x)'
    BY <1>1, <1>4 DEF Answers
  <2>. QED
    BY <1>1, <1>4, <2>1 DEF PublishInv, ProbeInv
<1>5. CASE PutChunk \/ (PutIndex /\ at' # "probe")
  <2>1. at' \in {"chunks", "failed"} /\ probes' = probes
    BY <1>5 DEF PutChunk, PutIndex
  <2>. QED
    BY <1>1, <2>1 DEF ProbeInv
<1>. QED
  BY <1>2, <1>3, <1>4, <1>5 DEF PublishNext, publishVars, ReadGroup, LocalLoss, Store

\* The key of a chunk: the prefix, then the algorithm and the address.
LEMMA KeyOf == ASSUME NEW a, NEW b, NEW c, NEW d PROVE <<a, b>> \o <<c, d>> = <<a, b, c, d>>
<1> DEFINE k == <<a, b>> \o <<c, d>>
<1>1. k \in Seq({a, b, c, d}) /\ Len(k) = 4 /\ k[1] = a /\ k[2] = b /\ k[3] = c /\ k[4] = d
  OBVIOUS
<1> HIDE DEF k
<1>2. k = <<a, b, c, d>>
  BY <1>1
<1>. QED
  BY <1>2 DEF k

\* parse_tier2_tail takes the last two segments of such a key.
LEMMA TailOf == ASSUME NEW a, NEW b, NEW c, NEW d PROVE SubSeq(<<a, b, c, d>>, 3, 4) = <<c, d>>
<1> DEFINE t == SubSeq(<<a, b, c, d>>, 3, 4)
<1>1. t \in Seq({a, b, c, d}) /\ Len(t) = 2 /\ t[1] = c /\ t[2] = d
  OBVIOUS
<1> HIDE DEF t
<1>2. t = <<c, d>>
  BY <1>1
<1>. QED
  BY <1>2 DEF t

-----------------------------------------------------------------------------
(* The inputs. *)

\* The inputs that the tables range over: a blob with its limits, and one of
\* every other kind.
BlobOK ==
  /\ {"kind", "size", "total", "cap", "own"} \subseteq DOMAIN in
  /\ Geometry(in.size, in.total) /\ in.total \in Totals /\ in.cap \in Caps /\ in.own \in Caps
InOK ==
  \/ in = [kind |-> "none"]
  \/ in.kind = "blob" /\ BlobOK
  \/ in \in [kind : {"claim"}, count : 0..(MaxBytes * ByteBits), bytes : Seq(Bytes)]
  \/ in \in [kind : {"key"}, key : Seq(Segments)]
  \/ in \in [kind : {"want"}, q : Queries, want : Seq(Hashes), holders : Holders] /\ Len(in.want) <= MaxList

\* The sizes of the tables and of the protocol.
LEMMA Sizes ==
  /\ MaxList \in Nat /\ MaxBytes \in Nat /\ MaxWant \in Nat /\ MaxWant >= 1
  /\ ByteBits \in Nat /\ ByteBits >= 1 /\ Shard \in Nat /\ Shard >= 1 /\ MaxIndexBytes \in Nat
<1>1. MaxList \in Nat /\ MaxBytes \in Nat
  BY TableAssumption
<1>2. MaxWant \in Nat \ {0} /\ Shard \in Nat \ {0} /\ MaxIndexBytes \in Nat
  BY WantAssumption
<1>3. ByteBits \in Nat \ {0}
  BY SizeAssumption
<1> QED BY <1>1, <1>2, <1>3

\* The inputs keep their shape.
LEMMA InInit == ASSUME Init PROVE InOK
<1>a. ASSUME NEW S PROVE <<>> \in Seq(S) /\ Len(<<>>) = 0
  BY EmptySeq
<1>b. 0 <= MaxList
  BY Sizes
<1>0. <<>> \in Seq(Bytes) /\ <<>> \in Seq(Segments) /\ <<>> \in Seq(Hashes) /\ Len(<<>>) = 0 /\ 0 <= MaxList
  BY <1>a, <1>b, Zenon
<1>1. CASE in = [kind |-> "none"]
  BY <1>1 DEF InOK
<1>2. CASE in \in Blobs /\ Geometry(in.size, in.total)
  <2>1. PICK size \in {MinChunk, MaxChunk}, total \in Totals, cap \in Caps, own \in Caps :
          \E have : in = [kind |-> "blob", size |-> size, total |-> total, cap |-> cap, own |-> own, have |-> have]
    BY <1>2 DEF Blobs
  <2>2. in.kind = "blob" /\ BlobOK
    BY <1>2, <2>1 DEF BlobOK
  <2> QED BY <2>2 DEF InOK
<1>3. CASE in \in {[kind |-> "claim", count |-> n, bytes |-> <<>>] : n \in 0..(MaxBytes * ByteBits)}
  <2>1. PICK n \in 0..(MaxBytes * ByteBits) : in = [kind |-> "claim", count |-> n, bytes |-> <<>>]
    BY <1>3
  <2> DEFINE S == Seq(Bytes)
             N == 0..(MaxBytes * ByteBits)
  <2>2. <<>> \in S /\ n \in N
    BY <1>0
  <2> HIDE DEF S, N
  <2>3. in \in [kind : {"claim"}, count : N, bytes : S]
    BY <2>1, <2>2
  <2> QED BY <2>3 DEF InOK, S, N
<1>4. CASE in = [kind |-> "key", key |-> <<>>]
  BY <1>0, <1>4 DEF InOK
<1>5. ASSUME NEW q \in Queries, NEW h \in Holders, in = [kind |-> "want", q |-> q, want |-> <<>>, holders |-> h]
      PROVE  InOK
  <2> HIDE DEF Queries, Holders
  <2> QED BY <1>0, <1>5 DEF InOK
<1> QED BY <1>1, <1>2, <1>3, <1>4, <1>5 DEF Init, TableInit

LEMMA InStep == ASSUME InOK, [Next]_<<in, publishVars>> PROVE InOK'
<1>1. CASE UNCHANGED in
  BY <1>1 DEF InOK, BlobOK
<1>2. CASE Receive
  <2>1. in.kind = "blob"
    BY <1>2 DEF Receive
  <2>2. BlobOK
    BY <2>1 DEF InOK
  <2>3. ASSUME NEW v, in' = [in EXCEPT !.have = v] PROVE InOK'
    <3>1. /\ DOMAIN in' = DOMAIN in /\ in'.kind = in.kind /\ in'.size = in.size /\ in'.total = in.total
          /\ in'.cap = in.cap /\ in'.own = in.own
      BY <2>2, <2>3 DEF BlobOK
    <3>2. in'.kind = "blob" /\ BlobOK'
      BY <2>1, <2>2, <3>1 DEF BlobOK
    <3> QED BY <3>2 DEF InOK
  <2> QED BY <1>2, <2>3 DEF Receive
<1>3. CASE ClaimByte
  <2>1. in.kind = "claim"
    BY <1>3 DEF ClaimByte
  <2>2. in \in [kind : {"claim"}, count : 0..(MaxBytes * ByteBits), bytes : Seq(Bytes)]
    BY <2>1 DEF InOK
  <2>3. ASSUME NEW b \in Bytes, in' = [in EXCEPT !.bytes = Append(@, b)] PROVE InOK'
    <3>1. Append(in.bytes, b) \in Seq(Bytes)
      BY <2>2, <2>3, AppendProperties
    <3> DEFINE v == Append(in.bytes, b)
    <3>2. in' = [in EXCEPT !.bytes = v]
      BY <2>3
    <3> HIDE DEF v
    <3>3. in' \in [kind : {"claim"}, count : 0..(MaxBytes * ByteBits), bytes : Seq(Bytes)]
      BY <2>2, <3>1, <3>2 DEF v
    <3> QED BY <3>3 DEF InOK
  <2> QED BY <1>3, <2>3 DEF ClaimByte
<1>4. CASE Segment
  <2>1. in.kind = "key"
    BY <1>4 DEF Segment
  <2>2. in \in [kind : {"key"}, key : Seq(Segments)]
    BY <2>1 DEF InOK
  <2>3. ASSUME NEW b \in Segments, in' = [in EXCEPT !.key = Append(@, b)] PROVE InOK'
    <3> DEFINE v == Append(in.key, b)
    <3>1. v \in Seq(Segments)
      BY <2>2, <2>3, AppendProperties
    <3>2. in' = [in EXCEPT !.key = v]
      BY <2>3
    <3> HIDE DEF v
    <3>3. in' \in [kind : {"key"}, key : Seq(Segments)]
      BY <2>2, <3>1, <3>2
    <3> QED BY <3>3 DEF InOK
  <2> QED BY <1>4, <2>3 DEF Segment
<1>5. CASE Want
  <2>1. in.kind = "want" /\ Len(in.want) < MaxList
    BY <1>5 DEF Want
  <2>2. in \in [kind : {"want"}, q : Queries, want : Seq(Hashes), holders : Holders]
    BY <2>1 DEF InOK
  <2>3. ASSUME NEW b \in Hashes, in' = [in EXCEPT !.want = Append(@, b)] PROVE InOK'
    <3> DEFINE v == Append(in.want, b)
               n == Len(in.want)
               m == Len(v)
    <3>1. v \in Seq(Hashes) /\ m = n + 1 /\ n \in Nat
      BY <2>2, <2>3, AppendProperties, LenProperties
    <3>2. in' = [in EXCEPT !.want = v]
      BY <2>3
    <3>3. m <= MaxList
      <4>1. n < MaxList
        BY <2>1
      <4> HIDE DEF n, m
      <4> QED BY <3>1, <4>1, Sizes
    <3> HIDE DEF v
    <3>4. in' \in [kind : {"want"}, q : Queries, want : Seq(Hashes), holders : Holders] /\ in'.want = v
      BY <2>2, <3>1, <3>2
    <3> QED BY <3>3, <3>4 DEF InOK
  <2> QED BY <1>5, <2>3 DEF Want
<1> QED BY <1>1, <1>2, <1>3, <1>4, <1>5 DEF Next

LEMMA InAlways == Spec => []InOK
<1>1. Init => InOK
  BY InInit
<1>2. InOK /\ [Next]_<<in, publishVars>> => InOK'
  BY InStep
<1> QED BY <1>1, <1>2, PTL DEF Spec

-----------------------------------------------------------------------------
(* Keys. *)

\* Short sequences.
LEMMA Literals ==
  ASSUME NEW S, NEW x \in S, NEW y \in S, NEW z \in S
  PROVE  <<x>> \in Seq(S) /\ <<x, y>> \in Seq(S) /\ <<x, y, z>> \in Seq(S)
OBVIOUS

\* A key under a prefix of two segments.
LEMMA KeyFacts ==
  ASSUME NEW a, NEW b, NEW x, NEW t, NEW S, t \in Seq(S), a \in S, b \in S, x \in S
  PROVE  LET k == <<a, b>> \o <<x>> \o t
         IN  /\ k \in Seq(S) /\ Len(k) = 3 + Len(t) /\ Len(t) \in Nat
             /\ k[1] = a /\ k[2] = b /\ k[3] = x
             /\ \A i \in 1..Len(t) : k[3 + i] = t[i]
<1> DEFINE p == <<a, b>> \o <<x>>
           k == p \o t
           n == Len(t)
<1>1. <<a, b>> \in Seq(S) /\ <<x>> \in Seq(S) /\ Len(<<a, b>>) = 2 /\ Len(<<x>>) = 1
  OBVIOUS
<1>2. p \in Seq(S) /\ Len(p) = 3 /\ p[1] = a /\ p[2] = b /\ p[3] = x
  BY <1>1, ConcatProperties
<1> HIDE DEF p
<1>3. n \in Nat
  BY LenProperties
<1>4. /\ k \in Seq(S) /\ Len(k) = 3 + n
      /\ \A i \in 1..(3 + n) : k[i] = IF i <= 3 THEN p[i] ELSE t[i - 3]
  <2>1. p \o t \in Seq(S) /\ Len(p \o t) = Len(p) + Len(t)
    BY <1>2, ConcatProperties, Zenon
  <2>2. \A i \in 1..(Len(p) + Len(t)) : (p \o t)[i] = IF i <= Len(p) THEN p[i] ELSE t[i - Len(p)]
    BY <1>2, ConcatProperties, Zenon
  <2> QED BY <1>2, <2>1, <2>2, Zenon
<1> HIDE DEF n
<1>5. k[1] = a /\ k[2] = b /\ k[3] = x
  BY <1>2, <1>3, <1>4
<1>6. \A i \in 1..n : k[3 + i] = t[i]
  BY <1>3, <1>4
<1> QED BY <1>3, <1>4, <1>5, <1>6 DEF n, p

\* The prefixes of the servers and of the queries.
LEMMA OriginFacts ==
  /\ Origin = <<"a", "b">> /\ Anywhere = <<"*", "b">> /\ Len(Origin) = 2 /\ DOMAIN Origin = 1..2
  /\ Queries = {<<"a", "b">>, <<"c", "b">>, <<"*", "b">>}
BY DEF Origin, Anywhere, Queries, Origins

\* What parse_id makes of a key, in its three first segments.
LEMMA ParseIdFacts ==
  ASSUME NEW key, Len(key) \in Nat
  PROVE  ParseId(Origin, key) =
           IF /\ Len(key) > 2 /\ key[1] # "**" /\ key[2] # "**" /\ key[1] \in {"a"} \cup Starred /\ key[2] \in {"b"} \cup Starred
              /\ key[3] \notin {""} \cup Starred
             THEN key[3] ELSE None
<1>1. 2 + 1 = 3 /\ 1..2 = {1, 2}
  OBVIOUS
<1>2. Origin[1] = "a" /\ Origin[2] = "b"
  BY OriginFacts
<1>3. OwnPrefix(Origin, key) <=> Len(key) > 2 /\ key[1] # "**" /\ key[2] # "**" /\ key[1] \in {"a"} \cup Starred /\ key[2] \in {"b"} \cup Starred
  BY <1>1, <1>2, OriginFacts DEF OwnPrefix
<1> QED BY <1>1, <1>3, OriginFacts DEF ParseId

\* The id a query means.
LEMMA MatchedId ==
  ASSUME NEW key, Len(key) \in Nat, NEW c, Len(c) \in Nat, Matches(key, c),
         Len(key) > 2, key[1] # "**", key[2] # "**", key[3] \notin Starred
  PROVE  c[3] = key[3]
<1> DEFINE n == Len(key)
           m == Len(c)
<1>1. PICK upto \in [0..n -> 0..m] :
        /\ upto[0] = 0
        /\ \A i \in 1..n : IF key[i] = "**" THEN upto[i-1] <= upto[i]
                           ELSE upto[i] = upto[i-1] + 1 /\ StandsFor(key[i], c[upto[i]])
  BY DEF Matches
<1>2. n \in Nat /\ n > 2
  OBVIOUS
<1> HIDE DEF n
<1>3. 1 \in 1..n /\ 2 \in 1..n /\ 3 \in 1..n /\ 1-1 = 0 /\ 2-1 = 1 /\ 3-1 = 2
  BY <1>2
<1>4. upto[1] = 1
  BY <1>1, <1>3
<1>5. upto[2] = 2
  BY <1>1, <1>3, <1>4
<1>6. upto[3] = 3 /\ StandsFor(key[3], c[upto[3]])
  BY <1>1, <1>3, <1>5, StarAssumption
<1> QED BY <1>6, StarAssumption, TableAssumption DEF StandsFor

\* The keys a client queries for an id, and what replies to it are on.
LEMMA QueriedId ==
  ASSUME NEW q \in Queries, NEW x \in Ids, NEW k \in QueryKeys(q, x)
  PROVE  ParseId(Origin, k) = IF q \in {Origin, Anywhere} THEN x ELSE None
<1>1. PICK t \in {<<"manifest">>, <<"have">>, <<"**">>, <<"push", "offer">>, <<"push", "slice", "0">>} :
        k = q \o <<x>> \o t
  BY DEF QueryKeys
<1>2. PICK a \in {"a", "c", "*"} : q = <<a, "b">>
  BY OriginFacts
<1>3. x \notin {""} \cup Starred /\ "a" \notin Starred /\ "b" \notin Starred /\ "c" \notin Starred /\ "*" \in Starred
  BY TableAssumption, StarAssumption
<1> DEFINE S == {"a", "b", "c", "*", x, "manifest", "have", "**", "push", "offer", "slice", "0"}
<1>4. t \in Seq(S)
  <2>1. /\ "manifest" \in S /\ "have" \in S /\ "**" \in S /\ "push" \in S
        /\ "offer" \in S /\ "slice" \in S /\ "0" \in S
    OBVIOUS
  <2> HIDE DEF S
  <2> QED BY <1>1, <2>1, Literals, Zenon
<1>5. a \in S /\ "b" \in S /\ x \in S
  OBVIOUS
<1> HIDE DEF S
<1>6. Len(k) = 3 + Len(t) /\ Len(t) \in Nat /\ k[1] = a /\ k[2] = "b" /\ k[3] = x
  BY <1>1, <1>2, <1>4, <1>5, KeyFacts
<1>7. Len(k) \in Nat /\ Len(k) > 2
  <2> DEFINE n == Len(t)
  <2>1. Len(k) = 3 + n /\ n \in Nat
    BY <1>6
  <2> HIDE DEF n
  <2> QED BY <2>1
<1>8. q \in {Origin, Anywhere} <=> a \in {"a", "*"}
  BY <1>2, OriginFacts
<1> QED BY <1>3, <1>6, <1>7, <1>8, ParseIdFacts

\* Every reply of a server is under the key expression of the query.
LEMMA RepliesMatch ==
  ASSUME NEW q \in {Origin, Anywhere}, NEW x \in Ids, NEW r \in ReplyKeys(Origin, x)
  PROVE  Matches(SliceSelector(q, x), r)
<1>1. PICK t \in {<<"manifest">>, <<"have">>, <<"slice", "0">>} : r = Origin \o <<x>> \o t
  BY DEF ReplyKeys
<1>2. PICK a \in {"a", "*"} : q = <<a, "b">>
  BY OriginFacts
<1> DEFINE S == {"a", "b", "*", x, "manifest", "have", "**", "slice", "0"}
           e == SliceSelector(q, x)
<1>a. a \in S /\ "a" \in S /\ "b" \in S /\ x \in S /\ "**" \in S
  OBVIOUS
<1>b. "manifest" \in S /\ "have" \in S /\ "slice" \in S /\ "0" \in S
  OBVIOUS
<1> HIDE DEF S
<1>3. t \in Seq(S) /\ a \in S /\ "a" \in S /\ "b" \in S /\ x \in S
  BY <1>1, <1>a, <1>b, Literals, Zenon
<1>4. Len(r) = 3 + Len(t) /\ Len(t) \in Nat /\ r[1] = "a" /\ r[2] = "b" /\ r[3] = x
  BY <1>1, <1>3, OriginFacts, KeyFacts
<1>6. Len(e) = 4 /\ e[1] = a /\ e[2] = "b" /\ e[3] = x /\ e[4] = "**"
  <2>1. /\ <<a, "b">> \in Seq(S) /\ <<x, "**">> \in Seq(S)
        /\ Len(<<a, "b">>) = 2 /\ Len(<<x, "**">>) = 2
    BY <1>a, Literals
  <2>2. e = <<a, "b">> \o <<x, "**">>
    BY <1>2 DEF SliceSelector
  <2>3. Len(e) = 4 /\ \A i \in 1..4 : e[i] = IF i <= 2 THEN <<a, "b">>[i] ELSE <<x, "**">>[i-2]
    <3> HIDE DEF e
    <3> QED BY <2>1, <2>2, ConcatProperties
  <2> HIDE DEF e
  <2> QED BY <2>3
<1> DEFINE n == Len(t)
           m == Len(r)
           upto == [i \in 0..4 |-> IF i = 4 THEN m ELSE i]
<1>7. m = 3 + n /\ n \in Nat
  BY <1>4
<1> HIDE DEF n, m, e
<1>8. upto \in [0..4 -> 0..m] /\ upto[0] = 0 /\ upto[1] = 1 /\ upto[2] = 2 /\ upto[3] = 3 /\ upto[4] = m /\ 3 <= m
  BY <1>7
<1> HIDE DEF upto
<1>9. ASSUME NEW i \in 1..4
      PROVE  IF e[i] = "**" THEN upto[i-1] <= upto[i]
             ELSE upto[i] = upto[i-1] + 1 /\ StandsFor(e[i], r[upto[i]])
  <2>1. i = 1 \/ i = 2 \/ i = 3 \/ i = 4
    OBVIOUS
  <2>2. a # "**" /\ x # "**" /\ "b" # "**"
    BY TableAssumption, StarAssumption
  <2>3. 1-1 = 0 /\ 2-1 = 1 /\ 3-1 = 2 /\ 4-1 = 3
    OBVIOUS
  <2> QED BY <2>1, <2>2, <2>3, <1>4, <1>6, <1>8 DEF StandsFor
<1>10. Matches(e, r)
  BY <1>6, <1>8, <1>9 DEF Matches, m
<1> QED BY <1>10 DEF e

\* parse_id: whatever key a query has and of whatever length, it is answered
\* for the one id it can mean under this server's prefix, and every query and
\* every reply of the protocol is understood on the other side.
THEOREM IdsAreUnambiguous == Spec => []IdUnambiguous
<1>1. ASSUME InOK PROVE IdUnambiguous
  <2> SUFFICES ASSUME in.kind = "key" PROVE IdUnambiguous
    BY DEF IdUnambiguous
  <2>1. in.key \in Seq(Segments) /\ Len(in.key) \in Nat
    BY <1>1, LenProperties DEF InOK
  <2>2. ASSUME ParseId(Origin, in.key) # None, NEW c \in Concrete, Matches(in.key, c)
        PROVE  c[3] = ParseId(Origin, in.key)
    <3>1. Len(c) \in Nat
      BY DEF Concrete
    <3>2. /\ Len(in.key) > 2 /\ in.key[1] # "**" /\ in.key[2] # "**"
          /\ in.key[3] \notin {""} \cup Starred /\ ParseId(Origin, in.key) = in.key[3]
      BY <2>1, <2>2, ParseIdFacts
    <3> QED BY <2>1, <2>2, <3>1, <3>2, MatchedId
  <2> QED BY <2>2, QueriedId, RepliesMatch DEF IdUnambiguous
<1> QED BY <1>1, InAlways, PTL

-----------------------------------------------------------------------------
(* Arithmetic and sums. *)

\* Division with remainder, and the monotonicity of products.
LEMMA DivMod ==
  ASSUME NEW n \in Nat, NEW d \in Nat, d >= 1
  PROVE  n = d * (n \div d) + (n % d) /\ n \div d \in Nat /\ n % d \in 0..(d-1)
OBVIOUS

LEMMA Mul ==
  ASSUME NEW a \in Int, NEW b \in Int, NEW d \in Nat, a <= b
  PROVE  a * d <= b * d /\ a * d \in Int /\ (a + 1) * d = a * d + d
OBVIOUS

LEMMA Quotient ==
  ASSUME NEW d \in Nat, d >= 1, NEW k \in Nat, NEW b \in 0..(d-1)
  PROVE  (k * d + b) \div d = k /\ (k * d + b) % d = b
OBVIOUS

\* How many groups of d make n.
LEMMA CeilFacts ==
  ASSUME NEW n \in Nat, NEW d \in Nat, d >= 1
  PROVE  /\ DivCeil(n, d) \in Nat /\ n <= DivCeil(n, d) * d
         /\ \A r \in 1..DivCeil(n, d) : (r - 1) * d < n
         /\ n = 0 => DivCeil(n, d) = 0
<1> DEFINE c == DivCeil(n, d)
           m == n + d - 1
<1>1. m \in Nat
  OBVIOUS
<1>2. m = d * (m \div d) + (m % d) /\ m \div d \in Nat /\ m % d \in 0..(d-1)
  BY <1>1, DivMod
<1>3. c = m \div d
  BY DEF DivCeil
<1>4. c \in Nat /\ d * c <= m /\ m < d * c + d
  BY <1>2, <1>3
<1> HIDE DEF c
<1>5. d * c = c * d
  BY <1>4
<1>6. ASSUME NEW r \in 1..c PROVE (r - 1) * d < n
  <2>1. (r - 1) * d <= (c - 1) * d /\ ((c - 1) + 1) * d = (c - 1) * d + d /\ (c - 1) + 1 = c
    BY <1>4, Mul
  <2> QED BY <2>1, <1>4, <1>5
<1>7. n = 0 => c = 0
  BY <1>6, <1>4
<1> QED BY <1>4, <1>5, <1>6, <1>7 DEF c

-----------------------------------------------------------------------------
(* Bitfields. *)

\* from_presence and is_set are each other's inverse.
LEMMA BitsFacts ==
  ASSUME NEW p, NEW n \in Nat, Len(p) = n
  PROVE  /\ Len(FromPresence(p)) = DivCeil(n, ByteBits)
         /\ \A i \in 0..(n-1) : IsSet(FromPresence(p), n, i) <=> p[i+1]
<1> DEFINE B == ByteBits
           C == DivCeil(n, B)
           f == [k \in 1..C |-> {b \in 0..(B-1) : (k-1) * B + b < n /\ p[(k-1) * B + b + 1]}]
<1>1. B \in Nat /\ B >= 1
  BY Sizes
<1>2. FromPresence(p) = f
  BY DEF FromPresence
<1> HIDE DEF B
<1>3. C \in Nat /\ n <= C * B
  BY <1>1, CeilFacts
<1> HIDE DEF C
<1>4. Len(f) = C
  BY <1>3
<1>5. ASSUME NEW i \in 0..(n-1) PROVE IsSet(f, n, i) <=> p[i+1]
  <2> DEFINE k == i \div B
             b == i % B
  <2>0. i \in Nat
    OBVIOUS
  <2>a. i = B * k + b /\ k \in Nat /\ b \in 0..(B-1)
    BY <1>1, <2>0, DivMod
  <2>1. i = B * k + b /\ k \in Nat /\ b \in 0..(B-1) /\ B * k = k * B
    <3> HIDE DEF k, b
    <3> QED BY <1>1, <2>a
  <2>2. IsSet(f, n, i) <=> i < n /\ k < Len(f) /\ b \in f[k + 1]
    BY DEF IsSet, B
  <2> HIDE DEF k, b
  <2>3. k < C
    <3> SUFFICES ASSUME C <= k PROVE FALSE
      BY <1>3, <2>1
    <3>1. C * B <= k * B
      BY <1>1, <1>3, <2>1, Mul
    <3> QED BY <3>1, <1>3, <2>1, <1>1
  <2>4. k + 1 \in 1..C /\ (k + 1) - 1 = k
    BY <2>1, <2>3, <1>3
  <2>5. f[k+1] = {x \in 0..(B-1) : k * B + x < n /\ p[k * B + x + 1]}
    BY <2>4
  <2>6. k * B + b = i
    BY <2>1, <1>1
  <2>7. b \in f[k+1] <=> p[i+1]
    BY <2>5, <2>6, <2>1
  <2> HIDE DEF f
  <2>8. i < n /\ k < Len(f)
    BY <2>3, <1>4
  <2> QED BY <2>2, <2>7, <2>8
<1> QED BY <1>2, <1>4, <1>5 DEF C, B

-----------------------------------------------------------------------------
(* The rounds of a long list. *)

\* Where the k-th entry of round r of a list of n comes from.
LEMMA RoundSpan ==
  ASSUME NEW n \in Nat, NEW d \in Nat, d >= 1, NEW r \in 1..DivCeil(n, d)
  PROVE  LET lo == (r-1) * d + 1
             hi == AtMost(r * d, n)
         IN  lo \in 1..n /\ hi \in lo..n /\ hi - lo + 1 \in 1..d
<1>1. DivCeil(n, d) \in Nat /\ (r - 1) * d < n
  BY CeilFacts
<1>2. r \in Nat /\ r >= 1
  BY <1>1
<1>3. 0 * d <= (r - 1) * d /\ (r - 1) * d \in Int /\ ((r - 1) + 1) * d = (r - 1) * d + d /\ 0 * d = 0
  BY <1>2, Mul
<1>4. (r - 1) + 1 = r
  BY <1>2
<1> DEFINE x == (r - 1) * d
           y == r * d
<1>5. x \in Nat /\ y = x + d /\ x < n
  BY <1>1, <1>3, <1>4
<1> HIDE DEF x, y
<1>6. LET hi == AtMost(y, n) IN x + 1 \in 1..n /\ hi \in (x+1)..n /\ hi - (x + 1) + 1 \in 1..d
  BY <1>5 DEF AtMost
<1> QED BY <1>6 DEF x, y

\* Every place of a list is in some round.
LEMMA RoundCovers ==
  ASSUME NEW n \in Nat, NEW d \in Nat, d >= 1, NEW i \in 1..n
  PROVE  \E r \in 1..DivCeil(n, d) : i \in ((r-1) * d + 1)..AtMost(r * d, n)
<1> DEFINE k == (i - 1) \div d
           c == DivCeil(n, d)
<1>0. i - 1 \in Nat
  OBVIOUS
<1>1. i - 1 = d * k + ((i-1) % d) /\ k \in Nat /\ (i-1) % d \in 0..(d-1)
  BY <1>0, DivMod
<1>2. c \in Nat /\ n <= c * d
  BY CeilFacts
<1> HIDE DEF k, c
<1>3. k * d <= i - 1 /\ i - 1 < k * d + d /\ (k + 1) * d = k * d + d
  BY <1>1, Mul
<1>4. k < c
  <2> SUFFICES ASSUME c <= k PROVE FALSE
    BY <1>1, <1>2
  <2>1. c * d <= k * d /\ c * d \in Int /\ k * d \in Int
    BY <1>1, <1>2, Mul
  <2> DEFINE x == c * d
             y == k * d
  <2>2. x <= y /\ x \in Int /\ y \in Int /\ n <= x /\ y <= i - 1
    BY <2>1, <1>2, <1>3
  <2> HIDE DEF x, y
  <2> QED BY <2>2
<1>5. k + 1 \in 1..c /\ (k + 1) - 1 = k
  BY <1>1, <1>2, <1>4
<1> DEFINE x == k * d
           y == (k + 1) * d
<1>6. x \in Int /\ x <= i - 1 /\ i - 1 < x + d /\ y = x + d
  BY <1>3, <1>1
<1> HIDE DEF x, y
<1>7. i \in (x + 1)..AtMost(y, n)
  BY <1>6 DEF AtMost
<1>8. i \in ((k + 1 - 1) * d + 1)..AtMost((k + 1) * d, n)
  BY <1>7, <1>5 DEF x, y
<1> QED BY <1>5, <1>8 DEF c

\* A round: a stretch of the list that is neither empty nor too long.
LEMMA RoundFacts ==
  ASSUME NEW S, NEW list \in Seq(S), NEW r \in DOMAIN Rounds(list, MaxWant)
  PROVE  LET g == Rounds(list, MaxWant)[r]
         IN  /\ g \in Seq(S) /\ g # <<>> /\ Len(g) \in 1..MaxWant
             /\ \A k \in 1..Len(g) : (r-1) * MaxWant + k \in DOMAIN list /\ g[k] = list[(r-1) * MaxWant + k]
<1> DEFINE n == Len(list)
           d == MaxWant
           lo == (r-1) * d + 1
           hi == AtMost(r * d, n)
           g == SubSeq(list, lo, hi)
           base == (r-1) * d
<1>1. n \in Nat /\ d \in Nat /\ d >= 1 /\ DOMAIN list = 1..n
  BY Sizes, LenProperties
<1>2. r \in 1..DivCeil(n, d) /\ Rounds(list, MaxWant)[r] = g
  BY DEF Rounds
<1>3. lo \in 1..n /\ hi \in lo..n /\ hi - lo + 1 \in 1..d
  BY <1>1, <1>2, RoundSpan
<1>4. \A i \in lo..hi : list[i] \in S
  <2> HIDE DEF lo, hi
  <2>1. \A i \in lo..hi : i \in 1..n
    BY <1>3, <1>1
  <2> QED BY <2>1, ElementOfSeq
<1>a. base \in Int /\ lo = base + 1
  <2>1. DivCeil(n, d) \in Nat
    BY <1>1, CeilFacts
  <2>2. r - 1 \in Int
    BY <1>2, <2>1
  <2> QED BY <1>1, <2>2
<1> HIDE DEF lo, hi, n, d, base
<1>5. lo \in Int /\ hi \in Int /\ lo <= hi
  BY <1>3, <1>1
<1>6. g \in Seq(S) /\ Len(g) = hi - lo + 1 /\ \A k \in 1..(hi - lo + 1) : g[k] = list[lo + k - 1]
  BY <1>4, <1>5, SubSeqProperties
<1> HIDE DEF g
<1>7. Len(g) \in 1..d
  BY <1>3, <1>6
<1>8. g # <<>>
  BY <1>7, <1>6, EmptySeq
<1>9. ASSUME NEW k \in 1..Len(g) PROVE base + k \in DOMAIN list /\ g[k] = list[base + k]
  <2>1. k \in 1..(hi - lo + 1)
    BY <1>6
  <2>2. lo + k - 1 = base + k /\ base + k \in 1..n
    BY <1>a, <1>3, <1>5, <1>1, <2>1
  <2> QED BY <2>1, <2>2, <1>6, <1>1
<1> QED BY <1>2, <1>6, <1>7, <1>8, <1>9 DEF d, base, g, lo, hi, n

\* WantList::validate accepts every round of a list without repetitions.
LEMMA RoundIsWant ==
  ASSUME NEW S, NEW list \in Seq(S), NoRepeats(list), NEW r \in DOMAIN Rounds(list, MaxWant)
  PROVE  Rounds(list, MaxWant)[r] \in Seq(S) /\ ValidWant(Rounds(list, MaxWant)[r], MaxWant)
<1> DEFINE G == Rounds(list, MaxWant)
           D == DOMAIN G
<1>1. /\ G[r] \in Seq(S) /\ G[r] # <<>> /\ Len(G[r]) \in 1..MaxWant
      /\ \A k \in 1..Len(G[r]) : (r-1) * MaxWant + k \in DOMAIN list /\ G[r][k] = list[(r-1) * MaxWant + k]
  BY RoundFacts
<1>2. DOMAIN G[r] = 1..Len(G[r])
  BY <1>1, LenProperties
<1>3. (r-1) * MaxWant \in Int
  <2>1. r \in 1..DivCeil(Len(list), MaxWant)
    BY DEF Rounds
  <2>2. Len(list) \in Nat /\ MaxWant \in Nat /\ MaxWant >= 1
    BY Sizes, LenProperties
  <2>3. DivCeil(Len(list), MaxWant) \in Nat
    BY <2>2, CeilFacts
  <2>4. r \in Int
    BY <2>1, <2>3
  <2> QED BY <2>2, <2>4
<1> DEFINE base == (r-1) * MaxWant
           m == Len(G[r])
<1>4. base \in Int /\ m \in Nat
  BY <1>1, <1>3, LenProperties
<1>5. \A k \in 1..m : base + k \in DOMAIN list /\ G[r][k] = list[base + k]
  BY <1>1
<1> HIDE DEF base, m, G
<1>6. ASSUME NEW i \in 1..m, NEW j \in 1..m, G[r][i] = G[r][j] PROVE i = j
  <2>1. base + i = base + j
    BY <1>5, <1>6 DEF NoRepeats
  <2> QED BY <2>1, <1>4
<1>7. NoRepeats(G[r])
  BY <1>2, <1>6 DEF NoRepeats, m
<1> QED BY <1>1, <1>7 DEF ValidWant, NoRepeats, G

\* The rounds are the list.
LEMMA RoundsRange ==
  ASSUME NEW S, NEW list \in Seq(S)
  PROVE  /\ Range(list) = UNION {Range(Rounds(list, MaxWant)[r]) : r \in DOMAIN Rounds(list, MaxWant)}
         /\ list # <<>> => DOMAIN Rounds(list, MaxWant) # {}
<1> DEFINE n == Len(list)
           d == MaxWant
           G == Rounds(list, MaxWant)
           D == DOMAIN G
<1>1. n \in Nat /\ d \in Nat /\ d >= 1 /\ DOMAIN list = 1..n
  BY Sizes, LenProperties
<1>2. D = 1..DivCeil(n, d)
  BY DEF Rounds
<1>3. ASSUME NEW i \in 1..n PROVE \E r \in D : list[i] \in Range(G[r])
  <2>1. PICK r \in 1..DivCeil(n, d) : i \in ((r-1) * d + 1)..AtMost(r * d, n)
    BY <1>1, RoundCovers
  <2> DEFINE lo == (r-1) * d + 1
             hi == AtMost(r * d, n)
             k == i - lo + 1
  <2>2. lo \in 1..n /\ hi \in lo..n
    BY <1>1, RoundSpan
  <2>3. i \in lo..hi
    BY <2>1
  <2>4. G[r] = SubSeq(list, lo, hi)
    BY DEF Rounds
  <2>5. \A j \in lo..hi : list[j] \in S
    <3> HIDE DEF lo, hi
    <3>1. \A j \in lo..hi : j \in 1..n
      BY <2>2, <1>1
    <3> QED BY <3>1, ElementOfSeq
  <2> HIDE DEF lo, hi, n, d, G
  <2>6. lo \in Int /\ hi \in Int /\ lo <= hi /\ k \in 1..(hi - lo + 1) /\ lo + k - 1 = i
    BY <2>2, <2>3, <1>1
  <2> HIDE DEF k
  <2>7. G[r] \in Seq(S) /\ Len(G[r]) = hi - lo + 1 /\ G[r][k] = list[lo + k - 1]
    BY <2>4, <2>5, <2>6, SubSeqProperties
  <2>8. k \in DOMAIN G[r]
    BY <2>6, <2>7, LenProperties
  <2>9. list[i] \in Range(G[r])
    BY <2>6, <2>7, <2>8 DEF Range
  <2>10. r \in D
    BY <1>2
  <2> QED BY <2>9, <2>10
<1>4. ASSUME NEW r \in D, NEW y \in Range(G[r]) PROVE y \in Range(list)
  <2>1. G[r] \in Seq(S) /\ \A k \in 1..Len(G[r]) : (r-1) * MaxWant + k \in DOMAIN list /\ G[r][k] = list[(r-1) * MaxWant + k]
    BY RoundFacts
  <2>2. DOMAIN G[r] = 1..Len(G[r])
    BY <2>1, LenProperties
  <2> HIDE DEF G
  <2>3. PICK k \in 1..Len(G[r]) : y = G[r][k]
    BY <2>2 DEF Range
  <2> QED BY <2>1, <2>3 DEF Range
<1>5. list # <<>> => D # {}
  <2> SUFFICES ASSUME list # <<>> PROVE D # {}
    OBVIOUS
  <2>1. n \in Nat \ {0}
    BY EmptySeq
  <2>2. 1 \in 1..n
    BY <2>1
  <2> QED BY <2>2, <1>3
<1>6. ASSUME NEW y \in Range(list) PROVE \E r \in D : y \in Range(G[r])
  <2>1. PICK i \in 1..n : y = list[i]
    BY <1>1 DEF Range
  <2> QED BY <2>1, <1>3
<1> HIDE DEF G
<1> QED BY <1>4, <1>5, <1>6 DEF G

-----------------------------------------------------------------------------
(* The probe. *)

\* The prefix a reply's key names.
LEMMA PrefixOf ==
  ASSUME NEW a, NEW b, NEW c, NEW d
  PROVE  LET k == <<a, b>> \o <<c, d>> IN SubSeq(k, 1, Len(k) - 2) = <<a, b>>
<1> DEFINE k == <<a, b, c, d>>
           t == SubSeq(k, 1, 2)
<1>1. t \in Seq({a, b, c, d}) /\ Len(t) = 2 /\ t[1] = a /\ t[2] = b
  OBVIOUS
<1> HIDE DEF t
<1>2. t = <<a, b>>
  BY <1>1
<1>3. <<a, b>> \o <<c, d>> = k
  BY KeyOf
<1>4. Len(k) - 2 = 2
  OBVIOUS
<1> QED BY <1>2, <1>3, <1>4 DEF t

\* serve_chunk_probe answers for every entry of its list.
LEMMA ProbeAnswer ==
  ASSUME NEW S, NEW g \in Seq(S), NEW h
  PROVE  /\ ValidBits(ProbeBits(h, g), Len(g), Len(g))
         /\ {g[k] : k \in {j \in DOMAIN g : IsSet(ProbeBits(h, g), Len(g), j - 1)}} = Range(g) \cap h.held
<1> DEFINE n == Len(g)
           p == [k \in DOMAIN g |-> g[k] \in h.held]
<1>1. n \in Nat /\ DOMAIN g = 1..n
  BY LenProperties
<1>2. Len(p) = n
  BY <1>1
<1>3. \A k \in 1..n : p[k] <=> g[k] \in h.held
  BY <1>1
<1>4. ProbeBits(h, g) = FromPresence(p)
  BY DEF ProbeBits
<1> HIDE DEF n, p
<1>5. /\ Len(FromPresence(p)) = DivCeil(n, ByteBits)
      /\ \A i \in 0..(n-1) : IsSet(FromPresence(p), n, i) <=> p[i+1]
  BY <1>1, <1>2, BitsFacts
<1>6. ASSUME NEW k \in DOMAIN g PROVE IsSet(FromPresence(p), n, k - 1) <=> g[k] \in h.held
  <2>1. k - 1 \in 0..(n-1) /\ (k - 1) + 1 = k /\ k \in 1..n
    BY <1>1
  <2> QED BY <2>1, <1>3, <1>5
<1>7. ValidBits(FromPresence(p), n, n)
  BY <1>5 DEF ValidBits
<1>8. {g[k] : k \in {j \in DOMAIN g : IsSet(FromPresence(p), n, j - 1)}} = Range(g) \cap h.held
  BY <1>6 DEF Range
<1> QED BY <1>4, <1>7, <1>8 DEF n

\* The probe, for any holders that prefixes tell apart.
LEMMA ProbeFacts ==
  ASSUME NEW S, NEW list \in Seq(S), NEW q, NEW hs,
         \A h \in hs : \E a, b : h.prefix = <<a, b>>,
         \A g, h \in hs : g.prefix = h.prefix => g = h,
         NoRepeats(list), NEW h \in Reached(q, hs)
  PROVE  LET found == Probe(q, list, hs)
         IN  /\ h.prefix \in DOMAIN found => found[h.prefix] \subseteq h.held
             /\ h.max = MaxWant /\ list # <<>> =>
                  h.prefix \in DOMAIN found /\ found[h.prefix] = Range(list) \cap h.held
<1> DEFINE G == Rounds(list, MaxWant)
           D == DOMAIN G
           near == Reached(q, hs)
           answers == UNION {{<<r, reply>> : reply \in UNION {ServeProbe(g, G[r]) : g \in near}} : r \in D}
           origin(a) == SubSeq(a[2][1], 1, Len(a[2][1]) - 2)
           claimed(a) == LET group == G[a[1]]
                         IN  {group[k] : k \in {j \in DOMAIN group : IsSet(a[2][2], Len(group), j - 1)}}
           valid == {a \in answers : ValidBits(a[2][2], Len(G[a[1]]), Len(G[a[1]]))}
           found == Probe(q, list, hs)
           ans(r, g) == <<r, <<StoreKey(g.prefix, "have"), ProbeBits(g, G[r])>>>>
<1>1. found = [o \in {origin(a) : a \in valid} |-> UNION {claimed(a) : a \in {b \in valid : origin(b) = o}}]
  BY DEF Probe
<1>2. \A r \in D : G[r] \in Seq(S) /\ ValidWant(G[r], MaxWant)
  BY RoundIsWant
<1>3. ASSUME NEW r \in D, NEW g \in near
      PROVE  /\ ServeProbe(g, G[r]) = IF ValidWant(G[r], g.max) THEN {ans(r, g)[2]} ELSE {}
             /\ ans(r, g)[1] = r /\ origin(ans(r, g)) = g.prefix /\ claimed(ans(r, g)) = Range(G[r]) \cap g.held
             /\ ValidBits(ans(r, g)[2][2], Len(G[r]), Len(G[r]))
  <2>1. PICK a, b : g.prefix = <<a, b>>
    BY DEF Reached
  <2>2. StoreKey(g.prefix, "have") = <<a, b>> \o <<Algo, "have">>
    BY <2>1 DEF StoreKey
  <2>3. origin(ans(r, g)) = g.prefix
    <3> DEFINE k == <<a, b>> \o <<Algo, "have">>
    <3>1. SubSeq(k, 1, Len(k) - 2) = <<a, b>>
      BY PrefixOf
    <3>2. ans(r, g)[2][1] = k
      BY <2>2
    <3> HIDE DEF k
    <3> QED BY <3>1, <3>2, <2>1
  <2>4. G[r] \in Seq(S)
    BY <1>2
  <2>5. ans(r, g)[1] = r /\ ans(r, g)[2][2] = ProbeBits(g, G[r])
    OBVIOUS
  <2>6. claimed(ans(r, g)) = Range(G[r]) \cap g.held /\ ValidBits(ans(r, g)[2][2], Len(G[r]), Len(G[r]))
    <3> HIDE DEF G, ans
    <3> QED BY <2>4, <2>5, ProbeAnswer
  <2>7. ServeProbe(g, G[r]) = IF ValidWant(G[r], g.max) THEN {ans(r, g)[2]} ELSE {}
    BY DEF ServeProbe
  <2> QED BY <2>3, <2>5, <2>6, <2>7
<1>4. \A r \in D, g \in near : ans(r, g) = <<r, ans(r, g)[2]>>
  OBVIOUS
<1>a. ASSUME NEW r \in D, NEW g \in near, NEW y \in ServeProbe(g, G[r]) PROVE y = ans(r, g)[2]
  <2>1. y = <<StoreKey(g.prefix, "have"), ProbeBits(g, G[r])>>
    BY DEF ServeProbe
  <2> QED BY <2>1
<1> HIDE DEF G, D, ans, origin, claimed
<1>5. \A a \in answers : \E r \in D, g \in near : a = ans(r, g)
  <2> SUFFICES ASSUME NEW a \in answers PROVE \E r \in D, g \in near : a = ans(r, g)
    OBVIOUS
  <2>1. PICK r \in D, g \in near : \E reply \in ServeProbe(g, G[r]) : a = <<r, reply>>
    OBVIOUS
  <2>a. PICK reply \in ServeProbe(g, G[r]) : a = <<r, reply>>
    BY <2>1
  <2>b. reply = ans(r, g)[2]
    BY <1>a
  <2>2. a = <<r, ans(r, g)[2]>>
    BY <2>a, <2>b
  <2> QED BY <2>2, <1>4
<1>6. ASSUME NEW a \in valid, origin(a) = h.prefix PROVE \E r \in D : a = ans(r, h) /\ claimed(a) = Range(G[r]) \cap h.held
  <2>1. PICK r \in D, g \in near : a = ans(r, g)
    BY <1>5
  <2>2. g \in hs /\ h \in hs /\ g.prefix = h.prefix
    BY <1>6, <2>1, <1>3 DEF Reached
  <2>3. g = h
    BY <2>2
  <2> QED BY <2>1, <2>3, <1>3
<1>7. h.prefix \in DOMAIN found => found[h.prefix] \subseteq h.held
  <2> SUFFICES ASSUME h.prefix \in DOMAIN found PROVE found[h.prefix] \subseteq h.held
    OBVIOUS
  <2>1. found[h.prefix] = UNION {claimed(a) : a \in {b \in valid : origin(b) = h.prefix}}
    BY <1>1
  <2> HIDE DEF valid, found
  <2> QED BY <2>1, <1>6
<1>8. ASSUME h.max = MaxWant, list # <<>>
      PROVE  h.prefix \in DOMAIN found /\ found[h.prefix] = Range(list) \cap h.held
  <2>1. \A r \in D : ValidWant(G[r], h.max)
    BY <1>2, <1>8
  <2>2. ASSUME NEW r \in D PROVE ans(r, h) \in valid /\ origin(ans(r, h)) = h.prefix /\ claimed(ans(r, h)) = Range(G[r]) \cap h.held
    <3>1. ans(r, h)[2] \in ServeProbe(h, G[r])
      BY <2>1, <1>3
    <3>2. ans(r, h) \in answers
      BY <3>1, <1>4
    <3> QED BY <3>2, <1>3
  <2>3. Range(list) = UNION {Range(G[r]) : r \in D} /\ D # {}
    BY <1>8, RoundsRange DEF G, D
  <2> HIDE DEF valid, found
  <2>4. h.prefix \in {origin(a) : a \in valid}
    BY <2>2, <2>3
  <2>5. found[h.prefix] = UNION {claimed(a) : a \in {b \in valid : origin(b) = h.prefix}}
    BY <1>1, <2>4
  <2>6. UNION {claimed(a) : a \in {b \in valid : origin(b) = h.prefix}} = Range(list) \cap h.held
    BY <2>2, <2>3, <1>6
  <2> QED BY <2>4, <2>5, <2>6, <1>1
<1> QED BY <1>7, <1>8 DEF found

\* The holders of the table.
LEMMA HolderFacts ==
  ASSUME NEW hs \in Holders
  PROVE  /\ IsFiniteSet(hs)
         /\ \A h \in hs : /\ h.prefix \in {<<"a", "b">>, <<"c", "b">>} /\ h.held \subseteq Hashes
                          /\ h.snap \subseteq Hashes /\ h.root \in {None, "r1", "r2"} /\ h.sharded \in BOOLEAN
         /\ \A g, h \in hs : g.prefix = h.prefix => g = h
<1> DEFINE F(x, n) == [prefix |-> Origin, held |-> x, max |-> n, root |-> "r1", snap |-> Hashes, sharded |-> TRUE]
           H(y, r) == [prefix |-> <<"c", "b">>, held |-> y, max |-> MaxWant, root |-> r, snap |-> {}, sharded |-> FALSE]
           Q == {1, MaxWant}
           R == {None, "r1", "r2"}
<1>a. Holders = {{F(x, n), H(y, r)} : x \in SUBSET Hashes, y \in SUBSET Hashes, n \in Q, r \in R}
  BY DEF Holders
<1> HIDE DEF F, H, Q, R
<1>1. PICK x \in SUBSET Hashes, y \in SUBSET Hashes, n \in Q, r \in R : hs = {F(x, n), H(y, r)}
  BY <1>a
<1> DEFINE A == [prefix |-> Origin, held |-> x, max |-> n, root |-> "r1", snap |-> Hashes, sharded |-> TRUE]
           B == [prefix |-> <<"c", "b">>, held |-> y, max |-> MaxWant, root |-> r, snap |-> {}, sharded |-> FALSE]
<1>2. A.prefix = <<"a", "b">> /\ A.held = x /\ A.root = "r1" /\ A.snap = Hashes /\ A.sharded = TRUE
  BY OriginFacts
<1>3. B.prefix = <<"c", "b">> /\ B.held = y /\ B.root = r /\ B.snap = {} /\ B.sharded = FALSE
  OBVIOUS
<1>4. A.prefix # B.prefix
  <2>1. <<"a", "b">> # <<"c", "b">>
    OBVIOUS
  <2> QED BY <2>1, <1>2, <1>3
<1>5. hs = {A, B} /\ r \in {None, "r1", "r2"}
  BY <1>1 DEF F, H, R
<1> HIDE DEF A, B
<1>6. IsFiniteSet(hs)
  <2>1. IsFiniteSet({A}) /\ IsFiniteSet({B})
    BY FS_Singleton
  <2>2. hs = {A} \cup {B}
    BY <1>5
  <2> QED BY <2>1, <2>2, FS_Union
<1> QED BY <1>2, <1>3, <1>4, <1>5, <1>6

\* serve_tree_probe counts: all there exactly when nothing is missing.
LEMMA SnapshotProbe ==
  ASSUME NEW q, NEW hs, NEW h \in Reached(q, hs), h.root # None, IsFiniteSet(h.snap)
  PROVE  \E r \in ProbeSnapshot(q, hs) : /\ r[1] = h.prefix \o <<"snap", "have">>
                                         /\ (r[2][1] = r[2][2]) = (h.snap \subseteq h.held)
<1> DEFINE P == h.prefix \o <<"snap", "have">>
           x == Cardinality(h.snap \cap h.held)
           y == Cardinality(h.snap)
           r == <<P, <<x, y>>>>
<1>1. h.snap \cap h.held \in SUBSET h.snap
  OBVIOUS
<1>2. x <= y /\ (y = x => h.snap = h.snap \cap h.held)
  BY <1>1, FS_Subset
<1>3. (x = y) = (h.snap \subseteq h.held)
  <2>1. h.snap \subseteq h.held => h.snap \cap h.held = h.snap
    OBVIOUS
  <2> QED BY <1>2, <2>1
<1>4. ServeTreeProbe(h) = {r}
  BY DEF ServeTreeProbe
<1> HIDE DEF x, y, P
<1>5. r[1] = P /\ r[2][1] = x /\ r[2][2] = y
  OBVIOUS
<1>6. r \in ProbeSnapshot(q, hs)
  BY <1>2, <1>4, <1>5 DEF ProbeSnapshot
<1> QED BY <1>3, <1>5, <1>6 DEF P

\* StoreClient::probe: every origin reached is credited with what it holds, and
\* with nothing of another's, over lists of any length and in any number of
\* rounds; a snapshot probe is complete exactly when the snapshot is.
THEOREM ProbesAreAttributed == Spec => []ProbeAttributed
<1>1. ASSUME InOK PROVE ProbeAttributed
  <2> SUFFICES ASSUME in.kind = "want", NoRepeats(in.want), NEW h \in Reached(in.q, in.holders)
               PROVE  LET found == Probe(in.q, in.want, in.holders)
                      IN  /\ h.max = MaxWant /\ in.want # <<>> =>
                               h.prefix \in DOMAIN found /\ found[h.prefix] = Range(in.want) \cap h.held
                          /\ h.prefix \in DOMAIN found => found[h.prefix] \subseteq h.held
                          /\ h.root # None => \E r \in ProbeSnapshot(in.q, in.holders) :
                                              /\ r[1] = h.prefix \o <<"snap", "have">>
                                              /\ (r[2][1] = r[2][2]) = (h.snap \subseteq h.held)
    BY DEF ProbeAttributed
  <2>1. in.want \in Seq(Hashes) /\ in.holders \in Holders
    BY <1>1 DEF InOK
  <2>2. /\ \A g \in in.holders : /\ g.prefix \in {<<"a", "b">>, <<"c", "b">>} /\ g.snap \subseteq Hashes
        /\ \A f, g \in in.holders : f.prefix = g.prefix => f = g
    BY <2>1, HolderFacts
  <2>3. \A g \in in.holders : \E a, b : g.prefix = <<a, b>>
    BY <2>2
  <2>4. LET found == Probe(in.q, in.want, in.holders)
        IN  /\ h.prefix \in DOMAIN found => found[h.prefix] \subseteq h.held
            /\ h.max = MaxWant /\ in.want # <<>> =>
                 h.prefix \in DOMAIN found /\ found[h.prefix] = Range(in.want) \cap h.held
    BY <2>1, <2>2, <2>3, ProbeFacts
  <2>5. IsFiniteSet(h.snap)
    <3>1. IsFiniteSet(Hashes)
      BY TableAssumption
    <3>2. h.snap \in SUBSET Hashes
      BY <2>2 DEF Reached
    <3> QED BY <3>1, <3>2, FS_Subset
  <2>6. h.root # None => \E r \in ProbeSnapshot(in.q, in.holders) :
                         /\ r[1] = h.prefix \o <<"snap", "have">>
                         /\ (r[2][1] = r[2][2]) = (h.snap \subseteq h.held)
    BY <2>5, SnapshotProbe
  <2> QED BY <2>4, <2>6
<1> QED BY <1>1, InAlways, PTL

-----------------------------------------------------------------------------
(* The fetch of chunks and of an index. *)

\* Every holder's prefix has two segments; what those reached hold; the lengths
\* an index in these pieces may have; whether a reply is the right index.
Paired(hs) == \A h \in hs : \E a, b : h.prefix = <<a, b>>
\* What the holders that a query reaches have together; a list with as many
\* pieces as its length needs; a reply that fetch_index_matching can use.
HeldNear(q, hs) == UNION {h.held : h \in Reached(q, hs)}
Fits(list, len) == len \in ((Len(list) - 1) * Shard + 1)..(Len(list) * Shard)
Right(q, r, pin, hs, list) ==
  /\ pin \in {None, r[2].root} /\ r[2].len <= MaxIndexBytes
  /\ r[2].pieces # None => Range(list) \subseteq HeldNear(q, hs)

\* What parse_tier2_tail makes of the key of a chunk.
LEMMA ChunkTail ==
  ASSUME NEW p1, NEW p2, NEW a, NEW b, NEW x, NEW y, y = StoreKey(<<a, b>>, x)
  PROVE  /\ a # "**" /\ b # "**" /\ a \in {p1} \cup Starred /\ b \in {p2} \cup Starred =>
              Tier2Tail(<<p1, p2>>, y) = <<Algo, x>>
         /\ ~(a # "**" /\ b # "**" /\ a \in {p1} \cup Starred /\ b \in {p2} \cup Starred) =>
              Tier2Tail(<<p1, p2>>, y) = None
<1> DEFINE p == <<p1, p2>>
<1>1. y = <<a, b, Algo, x>>
  BY KeyOf DEF StoreKey
<1>2. Len(y) = 4 /\ y[1] = a /\ y[2] = b /\ Len(p) = 2 /\ DOMAIN p = {1, 2} /\ p[1] = p1 /\ p[2] = p2
  BY <1>1
<1>3. SubSeq(y, 3, 4) = <<Algo, x>>
  BY <1>1, TailOf
<1> HIDE DEF p
<1>4. OwnPrefix(p, y) <=> (a # "**" /\ b # "**" /\ a \in {p1} \cup Starred /\ b \in {p2} \cup Starred)
  <2>1. OwnPrefix(p, y) <=> \A k \in {1, 2} : y[k] # "**" /\ (y[k] = p[k] \/ y[k] \in Starred)
    <3>1. 4 > 2
      OBVIOUS
    <3> QED BY <1>2, <3>1, Zenon DEF OwnPrefix
  <2>2. (\A k \in {1, 2} : y[k] # "**" /\ (y[k] = p[k] \/ y[k] \in Starred))
          <=> (y[1] # "**" /\ (y[1] = p[1] \/ y[1] \in Starred) /\ y[2] # "**" /\ (y[2] = p[2] \/ y[2] \in Starred))
    BY Zenon
  <2> QED BY <1>2, <2>1, <2>2, Zenon
<1>5. 4 - 2 <= 2 /\ 2 + 1 = 3
  OBVIOUS
<1>6. Tier2Tail(p, y) = IF OwnPrefix(p, y) THEN SubSeq(y, 3, 4) ELSE None
  BY <1>2, <1>5 DEF Tier2Tail
<1> QED BY <1>3, <1>4, <1>6 DEF p

\* The holders a query reaches are those its prefix allows.
LEMMA ReachedFacts ==
  ASSUME NEW q1, NEW q2, NEW hs, NEW h \in Reached(<<q1, q2>>, hs), NEW a, NEW b, h.prefix = <<a, b>>
  PROVE  h \in hs /\ q1 \in {"*", a} /\ q2 \in {"*", b}
<1>1. 1 \in DOMAIN <<q1, q2>> /\ 2 \in DOMAIN <<q1, q2>>
  OBVIOUS
<1>2. <<q1, q2>>[1] = q1 /\ <<q1, q2>>[2] = q2 /\ <<a, b>>[1] = a /\ <<a, b>>[2] = b
  OBVIOUS
<1> QED BY <1>1, <1>2 DEF Reached

\* fetch_one_chunk gets a chunk exactly when a holder reached has it.
LEMMA FetchOneFacts ==
  ASSUME NEW q1, NEW q2, q1 # "**", q2 # "**", NEW q, q = <<q1, q2>>, NEW hs, Paired(hs),
         NEW x, None # <<Algo, x>>
  PROVE  FetchOne(q, x, hs) = {x} \cap HeldNear(q, hs)
<1> DEFINE near == Reached(q, hs)
           key == StoreKey(q, x)
<1>1. ASSUME NEW h \in near
      PROVE  ServeChunk(h, key) = IF x \in h.held THEN {<<StoreKey(h.prefix, x), x>>} ELSE {}
  <2>1. PICK a, b : h.prefix = <<a, b>>
    BY DEF Reached, Paired
  <2>2. q1 \in {"*", a} /\ q2 \in {"*", b}
    BY <2>1, ReachedFacts
  <2>3. Tier2Tail(h.prefix, key) = <<Algo, x>>
    BY <2>1, <2>2, ChunkTail, StarAssumption
  <2> DEFINE t == <<Algo, x>>
  <2>4. Len(t) = 2 /\ t[1] = Algo /\ t[2] = x /\ t # None
    OBVIOUS
  <2> HIDE DEF t
  <2>5. Tier2Tail(h.prefix, key) = t
    BY <2>3 DEF t
  <2> HIDE DEF key
  <2> QED BY <2>4, <2>5 DEF ServeChunk
<1> HIDE DEF key, near
<1>2. FetchOne(q, x, hs) = {reply[2] : reply \in UNION {ServeChunk(h, key) : h \in near}}
  BY DEF FetchOne, key, near
<1>3. ASSUME NEW y \in FetchOne(q, x, hs) PROVE y = x /\ \E h \in near : x \in h.held
  <2>1. PICK h \in near : \E reply \in ServeChunk(h, key) : y = reply[2]
    BY <1>2
  <2>2. PICK reply \in ServeChunk(h, key) : y = reply[2]
    BY <2>1
  <2>3. x \in h.held /\ reply = <<StoreKey(h.prefix, x), x>>
    BY <1>1
  <2> QED BY <2>2, <2>3
<1>4. ASSUME NEW h \in near, x \in h.held PROVE x \in FetchOne(q, x, hs)
  <2> DEFINE reply == <<StoreKey(h.prefix, x), x>>
  <2>1. reply \in ServeChunk(h, key) /\ reply[2] = x
    BY <1>1, <1>4
  <2> HIDE DEF reply
  <2> QED BY <2>1, <1>2
<1>5. FetchOne(q, x, hs) = {x} \cap UNION {h.held : h \in near}
  BY <1>3, <1>4
<1> QED BY <1>5 DEF HeldNear, near

\* What a client gets of the storage, and of the storage and the other
\* responder together.
LEMMA RouterFetch ==
  ASSUME NEW x \in 1..MaxNeeded
  PROVE  /\ FetchOne(Anywhere, x, {Router}) = {x} \cap stored
         /\ FetchOne(Anywhere, x, {Router, Server}) = {x} \cap (stored \cup others)
<1>1. /\ Router.prefix = <<"a", "b">> /\ Router.held = stored
      /\ Server.prefix = <<"a", "b">> /\ Server.held = others
  BY DEF Router, Server, Holding, Origin
<1>2. Paired({Router}) /\ Paired({Router, Server})
  BY <1>1 DEF Paired
<1>3. Anywhere = <<"*", "b">> /\ None # <<Algo, x>>
  BY PublishAssumption DEF Anywhere
<1>4. /\ FetchOne(Anywhere, x, {Router}) = {x} \cap HeldNear(Anywhere, {Router})
      /\ FetchOne(Anywhere, x, {Router, Server}) = {x} \cap HeldNear(Anywhere, {Router, Server})
  BY <1>2, <1>3, FetchOneFacts
<1>5. \A h \in {Router, Server} : Len(h.prefix) = Len(Anywhere)
                               /\ \A k \in DOMAIN Anywhere : Anywhere[k] \in {"*", h.prefix[k]}
  BY <1>1 DEF Anywhere
<1>6. Reached(Anywhere, {Router}) = {Router} /\ Reached(Anywhere, {Router, Server}) = {Router, Server}
  BY <1>5 DEF Reached
<1>7. HeldNear(Anywhere, {Router}) = stored /\ HeldNear(Anywhere, {Router, Server}) = stored \cup others
  BY <1>1, <1>6 DEF HeldNear
<1>. QED
  BY <1>4, <1>7

\* publish_snapshot keeps its promise: the index follows every chunk, and after
\* Ok the whole snapshot can be fetched from the storage, when that keeps the
\* order of the puts and answered for the last chunk, or when all of it was read
\* back and no other responder stood in for the storage.
THEOREM PublishCorrect == PublishSpec => []PublishSettles
<1>1. PublishInv /\ [PublishNext]_publishVars => PublishInv'
  BY CountStep, OrderStep, ProbeStep DEF PublishInv
<1>2. PublishInv => PublishSettles
  <2> SUFFICES ASSUME PublishInv PROVE PublishSettles
    OBVIOUS
  <2>1. index # "none" => sent = needed
    BY DEF PublishInv, CountInv
  <2>2. ASSUME at = "ok"
        PROVE  /\ needed \in 0..MaxNeeded /\ needed \in Nat /\ sent = needed /\ MaxNeeded \in Nat
               /\ \A x \in Wanted : Answers(x)
    BY <2>2, PublishAssumption DEF PublishInv, CountInv, ProbeInv
  <2>3. at = "ok" => index = "held" \/ 0 \in others
    BY <2>2 DEF Wanted, Answers
  <2>4. ASSUME at = "ok", inOrder, needed \notin others, NEW x \in 1..needed
        PROVE  FetchOne(Anywhere, x, {Router}) = {x}
    <3>1. PICK m \in 0..needed : stored = 1..m
      BY <2>2, <2>4 DEF PublishInv, OrderInv
    <3>2. needed \in Wanted /\ needed # 0
      BY <2>2, <2>4 DEF Wanted
    <3>3. needed \in 1..m
      BY <2>2, <2>4, <3>1, <3>2 DEF Answers
    <3>4. x \in stored /\ x \in 1..MaxNeeded
      BY <2>2, <2>4, <3>1, <3>3
    <3>. QED
      BY <3>4, RouterFetch
  <2>5. ASSUME at = "ok", coverage = None, NEW x \in 1..needed
        PROVE  /\ FetchOne(Anywhere, x, {Router, Server}) = {x}
               /\ x \notin others => FetchOne(Anywhere, x, {Router}) = {x}
    <3>1. x \in Wanted /\ x # 0 /\ x \in 1..MaxNeeded
      BY <2>2, <2>5 DEF Wanted
    <3>2. x \in others \/ x \in stored
      BY <2>2, <2>5, <3>1 DEF Answers
    <3>. QED
      BY <3>1, <3>2, RouterFetch
  <2>. QED
    BY <2>1, <2>3, <2>4, <2>5 DEF PublishSettles
<1>. QED
  BY <1>1, <1>2, PublishInvInit, PTL DEF PublishSpec

\* A batch brings back nothing that no holder reached has.
LEMMA RoundsBringHeld ==
  ASSUME NEW q1, NEW q2, NEW q, q = <<q1, q2>>, NEW hs, \A h \in hs : \E a, b : h.prefix = <<a, b>>,
         NEW G
  PROVE  FetchRounds(q, G, hs) \subseteq UNION {h.held : h \in Reached(q, hs)}
<1> DEFINE near == Reached(q, hs)
<1> SUFFICES ASSUME NEW y \in FetchRounds(q, G, hs) PROVE \E h \in near : y \in h.held
  OBVIOUS
<1>1. PICK r \in DOMAIN G, h \in near : \E w \in ServeBatch(h, G[r]) : y \in AcceptBatchReply(q, w[1], G[r])
  BY DEF FetchRounds
<1>2. PICK w \in ServeBatch(h, G[r]) : y \in AcceptBatchReply(q, w[1], G[r])
  BY <1>1
<1>3. PICK x \in h.held : w = <<StoreKey(h.prefix, x), x>>
  BY DEF ServeBatch
<1>4. PICK a, b : h.prefix = <<a, b>>
  BY DEF Reached
<1>5. w[1] = StoreKey(<<a, b>>, x)
  BY <1>3, <1>4
<1> DEFINE t == <<Algo, x>>
<1>6. Tier2Tail(q, w[1]) \in {t, None} /\ t[2] = x
  BY <1>5, ChunkTail
<1> HIDE DEF t
<1>7. y = x
  BY <1>2, <1>6 DEF AcceptBatchReply
<1> QED BY <1>7

\* fetch_many brings back nothing that no holder has; all that is there, from
\* one origin whose list limit is the client's own.
LEMMA FetchManyFacts ==
  ASSUME NEW q1, NEW q2, q1 # "**", q2 # "**", NEW hs, \A h \in hs : \E a, b : h.prefix = <<a, b>>,
         NEW S, NEW list \in Seq(S), \A x \in S : None # <<Algo, x>>
  PROVE  LET q    == <<q1, q2>>
             near == Reached(q, hs)
             held == UNION {h.held : h \in near}
         IN  /\ FetchMany(q, list, hs) \subseteq held
             /\ /\ q1 # "*" /\ q2 # "*" /\ NoRepeats(list)
                /\ \A h \in near : h.max = MaxWant
                => FetchMany(q, list, hs) = Range(list) \cap held
<1> DEFINE q == <<q1, q2>>
           near == Reached(q, hs)
           held == UNION {h.held : h \in near}
           G == Rounds(list, MaxWant)
           D == DOMAIN G
           reply(h, x) == <<StoreKey(h.prefix, x), x>>
           got == FetchMany(q, list, hs)
<1>1. ASSUME NEW h \in near, NEW x \in S, NEW g
      PROVE  /\ AcceptBatchReply(q, reply(h, x)[1], g) \subseteq {x} \cap Range(g)
             /\ q1 # "*" /\ q2 # "*" /\ x \in Range(g) => AcceptBatchReply(q, reply(h, x)[1], g) = {x}
  <2>1. PICK a, b : h.prefix = <<a, b>>
    BY DEF Reached
  <2>2. q1 \in {"*", a} /\ q2 \in {"*", b}
    BY <2>1, ReachedFacts
  <2> DEFINE t == <<Algo, x>>
             y == reply(h, x)[1]
  <2>3. Len(t) = 2 /\ t[1] = Algo /\ t[2] = x /\ t # None
    OBVIOUS
  <2>4. y = StoreKey(<<a, b>>, x)
    BY <2>1
  <2> HIDE DEF y
  <2>5. /\ a # "**" /\ b # "**" /\ a \in {q1} \cup Starred /\ b \in {q2} \cup Starred => Tier2Tail(q, y) = <<Algo, x>>
        /\ ~(a # "**" /\ b # "**" /\ a \in {q1} \cup Starred /\ b \in {q2} \cup Starred) => Tier2Tail(q, y) = None
    BY <2>4, ChunkTail
  <2>6. Tier2Tail(q, y) \in {t, None}
    BY <2>5
  <2>7. q1 # "*" /\ q2 # "*" => Tier2Tail(q, y) = t
    BY <2>2, <2>5
  <2> HIDE DEF t, q
  <2>8. AcceptBatchReply(q, y, g) \subseteq {x} \cap Range(g)
    BY <2>3, <2>6 DEF AcceptBatchReply
  <2>9. q1 # "*" /\ q2 # "*" /\ x \in Range(g) => AcceptBatchReply(q, y, g) = {x}
    BY <2>3, <2>7 DEF AcceptBatchReply
  <2> QED BY <2>8, <2>9 DEF y
<1>2. \A r \in D : G[r] \in Seq(S) /\ Range(G[r]) \subseteq S
  BY RoundFacts, RangeOfSeq
<1>3. got = UNION {UNION {AcceptBatchReply(q, w[1], G[r]) : w \in UNION {ServeBatch(h, G[r]) : h \in near}} : r \in D}
  BY DEF FetchMany, FetchRounds
<1>4. ASSUME NEW r \in D, NEW h \in near, NEW w \in ServeBatch(h, G[r])
      PROVE  \E x \in Range(G[r]) \cap h.held : w = reply(h, x)
  BY DEF ServeBatch
<1>5. ASSUME NEW r \in D, NEW h \in near, ValidWant(G[r], h.max), NEW x \in Range(G[r]) \cap h.held
      PROVE  reply(h, x) \in ServeBatch(h, G[r])
  BY <1>5 DEF ServeBatch
<1>6. Range(list) = UNION {Range(G[r]) : r \in D}
  BY RoundsRange
<1> HIDE DEF q, near, G, D, reply, got
<1>7. ASSUME NEW y \in got PROVE y \in Range(list) \cap held
  <2>1. PICK r \in D : y \in UNION {AcceptBatchReply(q, w[1], G[r]) : w \in UNION {ServeBatch(h, G[r]) : h \in near}}
    BY <1>3
  <2>2. PICK h \in near : \E w \in ServeBatch(h, G[r]) : y \in AcceptBatchReply(q, w[1], G[r])
    BY <2>1
  <2>3. PICK w \in ServeBatch(h, G[r]) : y \in AcceptBatchReply(q, w[1], G[r])
    BY <2>2
  <2>4. PICK x \in Range(G[r]) \cap h.held : w = reply(h, x)
    BY <1>4
  <2>5. x \in S
    BY <1>2, <2>4
  <2>6. y \in {x} \cap Range(G[r])
    BY <1>1, <2>3, <2>4, <2>5
  <2> QED BY <2>4, <2>6, <1>6
<1>8. ASSUME q1 # "*", q2 # "*", NoRepeats(list), \A h \in near : h.max = MaxWant,
             NEW y \in Range(list) \cap held
      PROVE  y \in got
  <2>1. PICK r \in D : y \in Range(G[r])
    BY <1>6
  <2>2. PICK h \in near : y \in h.held
    OBVIOUS
  <2>3. ValidWant(G[r], h.max)
    <3>1. h.max = MaxWant
      BY <1>8
    <3>2. ValidWant(Rounds(list, MaxWant)[r], MaxWant)
      BY <1>8, RoundIsWant DEF G, D
    <3> QED BY <3>1, <3>2 DEF G
  <2>4. y \in S
    BY <2>1, <1>2
  <2>5. reply(h, y) \in ServeBatch(h, G[r])
    BY <2>1, <2>2, <2>3, <1>5
  <2>6. AcceptBatchReply(q, reply(h, y)[1], G[r]) = {y}
    BY <1>1, <1>8, <2>1, <2>4
  <2>7. y \in UNION {AcceptBatchReply(q, w[1], G[r]) : w \in UNION {ServeBatch(g, G[r]) : g \in near}}
    BY <2>5, <2>6
  <2> QED BY <2>7, <1>3
<1>9. got \subseteq held
  BY <1>7
<1>10. q1 # "*" /\ q2 # "*" /\ NoRepeats(list) /\ (\A h \in near : h.max = MaxWant) => got = Range(list) \cap held
  BY <1>7, <1>8
<1> QED BY <1>9, <1>10 DEF got, near, q

\* shard_index: the pieces are not longer than INDEX_SHARD and make the index.
LEMMA ShardFacts ==
  ASSUME NEW S, NEW list \in Seq(S), list # <<>>,
         NEW len \in ((Len(list) - 1) * Shard + 1)..(Len(list) * Shard)
  PROVE  LET p == ShardIndex(list, len)
         IN  /\ p \in [1..Len(list) -> [hash : S, len : 0..Shard]]
             /\ [k \in DOMAIN p |-> p[k].hash] = list
             /\ Total([k \in DOMAIN p |-> p[k].len]) = len
<1> DEFINE n == Len(list)
           c == [k \in 1..n |-> AtMost(Shard, len - (k-1) * Shard)]
           g == [k \in 0..n |-> AtMost(k * Shard, len)]
           p == ShardIndex(list, len)
           base == (n - 1) * Shard
           top == n * Shard
<1>1. n \in Nat /\ n >= 1 /\ DOMAIN list = 1..n /\ Shard \in Nat /\ Shard >= 1
  BY EmptySeq, LenProperties, Sizes
<1>2. p = [k \in 1..n |-> [hash |-> list[k], len |-> c[k]]]
  BY <1>1 DEF ShardIndex
<1>a. \A k \in 1..n : list[k] \in S
  BY ElementOfSeq
<1>b. len \in (base + 1)..top
  OBVIOUS
<1> HIDE DEF n, p
<1>3. base \in Int /\ top \in Int /\ top = base + Shard /\ base >= 0
  <2>1. n - 1 \in Int /\ (n - 1) + 1 = n /\ 0 <= n - 1
    BY <1>1
  <2>2. 0 * Shard <= (n - 1) * Shard /\ (n - 1) * Shard \in Int /\ ((n - 1) + 1) * Shard = (n - 1) * Shard + Shard /\ 0 * Shard = 0
    BY <1>1, <2>1, Mul
  <2> QED BY <1>1, <2>1, <2>2
<1>c. (n - 1) * Shard = base /\ n * Shard = top
  OBVIOUS
<1> HIDE DEF base, top
<1>4. len \in Nat /\ base < len /\ len <= top
  BY <1>b, <1>3
<1>5. ASSUME NEW k \in 1..n
      PROVE  c[k] \in 0..Shard /\ g[k] = g[k-1] + c[k]
  <2> DEFINE x == (k-1) * Shard
             y == k * Shard
  <2>1. k - 1 \in Int /\ (k - 1) + 1 = k /\ k - 1 <= n - 1 /\ 0 <= k - 1 /\ k - 1 \in 0..n /\ k \in 0..n /\ n - 1 \in Int
    BY <1>1
  <2>2. (k-1) * Shard <= (n-1) * Shard /\ (k-1) * Shard \in Int /\ ((k-1) + 1) * Shard = (k-1) * Shard + Shard
    BY <2>1, <1>1, Mul
  <2>a. 0 * Shard <= (k-1) * Shard /\ 0 * Shard = 0
    BY <2>1, <1>1, Mul
  <2>3. x \in Int /\ y = x + Shard /\ x <= base /\ 0 <= x
    BY <2>1, <2>2, <2>a, <1>c
  <2>4. c[k] = AtMost(Shard, len - x) /\ g[k] = AtMost(y, len) /\ g[k-1] = AtMost(x, len)
    BY <2>1
  <2> HIDE DEF x, y, c, g
  <2> QED BY <2>3, <2>4, <1>1, <1>3, <1>4 DEF AtMost
<1>6. g[0] = 0 /\ g[n] = len
  <2>1. 0 \in 0..n /\ n \in 0..n /\ 0 * Shard = 0
    BY <1>1
  <2>2. g[0] = AtMost(0, len) /\ g[n] = AtMost(top, len)
    BY <2>1, <1>c
  <2> HIDE DEF g
  <2> QED BY <2>2, <1>4, <1>3 DEF AtMost
<1>7. Len(c) = n
  BY <1>1
<1> HIDE DEF c, g
<1>8. Total(c) = g[n]
  BY <1>1, <1>5, <1>6, <1>7, TotalIs
<1>9. DOMAIN p = 1..n /\ \A k \in 1..n : p[k].hash = list[k] /\ p[k].len = c[k] /\ p[k] \in [hash : S, len : 0..Shard]
  BY <1>2, <1>5, <1>a
<1>10. p \in [1..n -> [hash : S, len : 0..Shard]]
  BY <1>2, <1>9
<1>11. [k \in DOMAIN p |-> p[k].hash] = list
  <2>1. list = [k \in 1..n |-> list[k]]
    BY <1>1, LenProperties
  <2> QED BY <2>1, <1>9
<1>12. [k \in DOMAIN p |-> p[k].len] = c
  <2>1. c = [k \in 1..n |-> c[k]]
    BY DEF c
  <2> QED BY <2>1, <1>9
<1> QED BY <1>6, <1>8, <1>10, <1>11, <1>12 DEF p, n

\* Arrivals in any order are all the replies.
LEMMA Arrivals ==
  ASSUME NEW S, IsFiniteSet(S), NEW s \in SetToSeqs(S)
  PROVE  DOMAIN s = 1..Cardinality(S) /\ (\A k \in DOMAIN s : s[k] \in S) /\ \A x \in S : \E k \in DOMAIN s : s[k] = x
<1> DEFINE D == 1..Cardinality(S)
<1>1. s \in [D -> S] /\ \A i, j \in D : i # j => s[i] # s[j]
  BY DEF SetToSeqs
<1>2. s \in Injection(D, S)
  BY <1>1 DEF Injection, IsInjective
<1>3. Cardinality(S) \in Nat
  BY FS_CardinalityType
<1>4. Cardinality(D) = Cardinality(S)
  <2> DEFINE m == Cardinality(S)
  <2>1. m \in Nat
    BY <1>3
  <2> HIDE DEF m
  <2>2. Cardinality(1..m) = IF 1 > m THEN 0 ELSE m - 1 + 1
    BY <2>1, FS_Interval
  <2>3. Cardinality(1..m) = m
    BY <2>1, <2>2
  <2> QED BY <2>3 DEF m
<1>5. s \in Surjection(D, S)
  BY <1>2, <1>4, FS_Injection
<1>6. \A x \in S : \E k \in D : s[k] = x
  BY <1>5 DEF Surjection
<1> QED BY <1>1, <1>6

\* The first usable reply: there is one when any of the replies is usable.
LEMMA FirstUsable ==
  ASSUME NEW q, NEW hs, NEW pin, NEW served, IsFiniteSet(served), NEW replies \in SetToSeqs(served),
         \A r \in served : r[2].root # None
  PROVE  LET got  == FetchIndex(q, replies, pin, hs)
             good == {r \in served : Usable(q, r[2], pin, hs)}
         IN  (got # None) = (good # {}) /\ (got = None \/ got \in {r[2].root : r \in good})
<1> DEFINE D == DOMAIN replies
           at0 == {k \in D : Usable(q, replies[k][2], pin, hs)}
           good == {r \in served : Usable(q, r[2], pin, hs)}
           got == FetchIndex(q, replies, pin, hs)
           k0 == CHOOSE k \in at0 : \A j \in at0 : k <= j
<1>1. /\ D = 1..Cardinality(served) /\ \A k \in D : replies[k] \in served
      /\ \A x \in served : \E k \in D : replies[k] = x
  BY Arrivals
<1>2. at0 \subseteq Nat
  <2>1. Cardinality(served) \in Nat
    BY FS_CardinalityType
  <2> QED BY <2>1, <1>1
<1>3. got = IF at0 = {} THEN None ELSE replies[k0][2].root
  BY DEF FetchIndex
<1>4. at0 = {} <=> good = {}
  BY <1>1
<1>5. ASSUME at0 # {} PROVE k0 \in at0
  <2>1. PICK k \in at0 : \A j \in at0 : ~(<<j, k>> \in OpToRel(<, Nat))
    BY <1>2, <1>5, NatLessThanWellFounded, WFMin
  <2> HIDE DEF at0
  <2>2. ASSUME NEW j \in at0 PROVE k <= j
    <3>1. j \in Nat /\ k \in Nat
      BY <1>2
    <3>2. SUFFICES ASSUME j < k PROVE FALSE
      BY <3>1
    <3>3. <<j, k>> \in OpToRel(<, Nat)
      BY <3>1, <3>2 DEF OpToRel
    <3> QED BY <3>3, <2>1
  <2>3. \E i \in at0 : \A j \in at0 : i <= j
    BY <2>2
  <2> QED BY <2>3
<1> HIDE DEF k0, got
<1>6. CASE at0 = {}
  BY <1>3, <1>4, <1>6 DEF got
<1>7. CASE at0 # {}
  <2>1. k0 \in D /\ Usable(q, replies[k0][2], pin, hs)
    BY <1>5, <1>7
  <2>2. replies[k0] \in good /\ replies[k0][2].root # None
    BY <1>1, <2>1
  <2>3. got = replies[k0][2].root
    BY <1>3, <1>7
  <2> QED BY <2>2, <2>3 DEF got
<1> QED BY <1>6, <1>7

\* fetch_index_matching takes a reply exactly when it is the index asked for and
\* can be had: whole, or in pieces that holders it reaches have between them.
LEMMA UsableFacts ==
  ASSUME NEW q1, NEW q2, q1 # "**", q2 # "**", NEW q, q = <<q1, q2>>, NEW hs, Paired(hs),
         NEW list \in Seq(Hashes), list # <<>>, Len(list) <= MaxList, NEW pin, NEW h,
         h.sharded \in BOOLEAN, NEW len, Fits(list, len), NEW r \in ServeIndex(h, list, len)
  PROVE  /\ r[2].root # None
         /\ Usable(q, r[2], pin, hs) <=> Right(q, r, pin, hs, list)
<1> DEFINE held == UNION {g.held : g \in Reached(q, hs)}
           p == ShardIndex(list, len)
           d == r[2]
<1>0. len \in ((Len(list) - 1) * Shard + 1)..(Len(list) * Shard) /\ \A g \in hs : \E a, b : g.prefix = <<a, b>>
  BY DEF Fits, Paired
<1>1. h.root # None /\ d = [root |-> h.root, len |-> IF h.sharded THEN len ELSE 1,
                            pieces |-> IF h.sharded THEN p ELSE None]
  BY DEF ServeIndex
<1>2. /\ p \in [1..Len(list) -> [hash : Hashes, len : 0..Shard]]
      /\ [k \in DOMAIN p |-> p[k].hash] = list
      /\ Total([k \in DOMAIN p |-> p[k].len]) = len
  BY <1>0, ShardFacts
<1>3. p # None
  <2>1. Len(list) \in 0..MaxList
    <3> DEFINE n == Len(list)
    <3>1. n \in Nat /\ n <= MaxList
      BY LenProperties
    <3> HIDE DEF n
    <3>2. n \in 0..MaxList
      BY <3>1, Sizes
    <3> QED BY <3>2 DEF n
  <2> HIDE DEF p
  <2> QED BY <1>2, <2>1, NoneAssumption
<1>4. p # <<>>
  <2>1. 1 \in DOMAIN p
    <3> DEFINE n == Len(list)
    <3>1. n \in Nat \ {0}
      BY EmptySeq
    <3>2. DOMAIN p = 1..n
      BY <1>2
    <3> HIDE DEF n, p
    <3> QED BY <3>1, <3>2
  <2> HIDE DEF p
  <2> QED BY <2>1
<1> HIDE DEF p, d
<1>5. Assemble(q, list, hs) <=> Range(list) \subseteq held
  <2>0. \A x \in Hashes : None # <<Algo, x>>
    BY NoneAssumption
  <2> DEFINE G == Rounds(list, IF BatchSize = 0 THEN 1 ELSE BatchSize)
  <2>1. FetchRounds(q, G, hs) \subseteq held
    BY <1>0, RoundsBringHeld
  <2> HIDE DEF G
  <2>2. ASSUME NEW x \in Hashes PROVE FetchOne(q, x, hs) = {x} \cap held
    <3>1. None # <<Algo, x>>
      BY <2>0
    <3>2. FetchOne(q, x, hs) = {x} \cap HeldNear(q, hs)
      BY <3>1, FetchOneFacts
    <3> QED BY <3>2 DEF HeldNear
  <2>3. \A k \in DOMAIN list : list[k] \in Hashes
    BY LenProperties
  <2> HIDE DEF held
  <2>4. \A k \in DOMAIN list : list[k] \in FetchRounds(q, G, hs) \cup FetchOne(q, list[k], hs) <=> list[k] \in held
    BY <2>1, <2>2, <2>3
  <2> QED BY <2>4 DEF Assemble, Range, G
<1> HIDE DEF held
<1>6. CASE h.sharded
  <2>1. d.root = h.root /\ d.len = len /\ d.pieces = p
    BY <1>1, <1>6
  <2>2. ValidDescriptor(d) <=> d.len <= MaxIndexBytes
    BY <2>1, <1>2, <1>4 DEF ValidDescriptor
  <2>3. Usable(q, d, pin, hs) <=> /\ d.len <= MaxIndexBytes /\ pin \in {None, d.root}
                                  /\ Assemble(q, list, hs)
    BY <2>1, <2>2, <1>2, <1>3 DEF Usable
  <2> QED BY <2>1, <2>3, <1>1, <1>3, <1>5 DEF Right, HeldNear, held, d
<1>7. CASE ~h.sharded
  <2>1. d.root = h.root /\ d.pieces = None
    BY <1>1, <1>7
  <2>2. Usable(q, d, pin, hs) <=> d.len <= MaxIndexBytes /\ pin \in {None, d.root}
    BY <2>1 DEF Usable
  <2> QED BY <2>1, <2>2, <1>1 DEF Right, HeldNear, held, d
<1> QED BY <1>6, <1>7

\* fetch_index_matching: whatever the order of the replies, an index that can be
\* had is found and nothing else is, for lists of pieces of any length and any
\* split of the pieces among the holders.
THEOREM IndexesAreFetched == Spec => []IndexFetched
<1>1. ASSUME InOK PROVE IndexFetched
  <2> SUFFICES ASSUME in.kind = "want", in.want # <<>> PROVE IndexFetched
    BY DEF IndexFetched
  <2>1. in.want \in Seq(Hashes) /\ in.holders \in Holders /\ in.q \in Queries /\ Len(in.want) <= MaxList
    BY <1>1 DEF InOK
  <2> DEFINE near == Reached(in.q, in.holders)
             held == UNION {h.held : h \in near}
  <2>2. /\ IsFiniteSet(in.holders)
        /\ \A h \in in.holders : h.prefix \in {<<"a", "b">>, <<"c", "b">>} /\ h.sharded \in BOOLEAN
    BY <2>1, HolderFacts
  <2>3. \A h \in in.holders : \E a, b : h.prefix = <<a, b>>
    BY <2>2
  <2>4. PICK q1 : q1 \in {"a", "c", "*"} /\ in.q = <<q1, "b">> /\ (in.q \in Origins => q1 # "*")
    <3>1. in.q = <<"a", "b">> \/ in.q = <<"c", "b">> \/ in.q = <<"*", "b">>
      BY <2>1, OriginFacts
    <3>2. in.q \in Origins => in.q = <<"a", "b">> \/ in.q = <<"c", "b">>
      BY OriginFacts DEF Origins
    <3> QED BY <3>1, <3>2
  <2>5. q1 # "**" /\ "b" # "**" /\ "b" # "*"
    BY <2>4
  <2>6. ASSUME NEW len \in ((Len(in.want) - 1) * Shard + 1)..(Len(in.want) * Shard), NEW pin,
               NEW replies \in SetToSeqs(UNION {ServeIndex(h, in.want, len) : h \in near})
        PROVE  LET served == UNION {ServeIndex(h, in.want, len) : h \in near}
                   good == {r \in served :
                              /\ pin \in {None, r[2].root}
                              /\ r[2].len <= MaxIndexBytes
                              /\ r[2].pieces # None => Range(in.want) \subseteq held}
                   got  == FetchIndex(in.q, replies, pin, in.holders)
               IN  (got # None) = (good # {}) /\ (got = None \/ got \in {r[2].root : r \in good})
    <3> DEFINE served == UNION {ServeIndex(h, in.want, len) : h \in near}
               good == {r \in served :
                          /\ pin \in {None, r[2].root}
                          /\ r[2].len <= MaxIndexBytes
                          /\ r[2].pieces # None => Range(in.want) \subseteq held}
               good2 == {r \in served : Usable(in.q, r[2], pin, in.holders)}
    <3>1. ASSUME NEW r \in served
          PROVE  /\ r[2].root # None
                 /\ Usable(in.q, r[2], pin, in.holders) <=>
                      /\ pin \in {None, r[2].root} /\ r[2].len <= MaxIndexBytes
                      /\ r[2].pieces # None => Range(in.want) \subseteq held
      <4>1. PICK h \in near : r \in ServeIndex(h, in.want, len)
        OBVIOUS
      <4>2. h.sharded \in BOOLEAN
        BY <2>2 DEF Reached
      <4>3. PICK w : w = in.want
        OBVIOUS
      <4>4. PICK hs : hs = in.holders
        OBVIOUS
      <4>5. w \in Seq(Hashes) /\ w # <<>> /\ Len(w) <= MaxList
        BY <2>1, <4>3
      <4>6. Fits(w, len) /\ r \in ServeIndex(h, w, len)
        BY <4>1, <4>3 DEF Fits
      <4>7. Paired(hs)
        BY <2>3, <4>4 DEF Paired
      <4>a. PICK q : q = <<q1, "b">>
        OBVIOUS
      <4>8. r[2].root # None /\ (Usable(q, r[2], pin, hs) <=> Right(q, r, pin, hs, w))
        BY <2>5, <4>a, <4>2, <4>5, <4>6, <4>7, UsableFacts
      <4>9. q = in.q /\ HeldNear(q, hs) = held
        BY <4>a, <4>4, <2>4 DEF HeldNear
      <4> HIDE DEF held
      <4> QED BY <4>8, <4>3, <4>4, <4>9 DEF Right
    <3>2. IsFiniteSet(served)
      <4>1. PICK y \in Holders : y = in.holders
        BY <2>1
      <4>2. near \in SUBSET in.holders
        BY DEF Reached
      <4>3. IsFiniteSet(near)
        BY <4>2, <2>2, FS_Subset
      <4>4. IsFiniteSet(SUBSET near)
        BY <4>3, FS_SUBSET
      <4> DEFINE F == [h \in near |-> ServeIndex(h, in.want, len)]
                 T == {ServeIndex(h, in.want, len) : h \in near}
      <4>5. F \in Surjection(near, T)
        BY DEF Surjection
      <4>6. IsFiniteSet(T)
        BY <4>3, <4>5, FS_Surjection
      <4>7. \A t \in T : IsFiniteSet(t)
        <5> SUFFICES ASSUME NEW h \in near PROVE IsFiniteSet(ServeIndex(h, in.want, len))
          OBVIOUS
        <5>1. ServeIndex(h, in.want, len) = {} \/ \E x : ServeIndex(h, in.want, len) = {x}
          BY DEF ServeIndex
        <5> QED BY <5>1, FS_EmptySet, FS_Singleton
      <4> HIDE DEF T
      <4>8. IsFiniteSet(UNION T)
        BY <4>6, <4>7, FS_UNION
      <4> QED BY <4>8 DEF T
    <3>3. good = good2
      BY <3>1
    <3>4. \A r \in served : r[2].root # None
      BY <3>1
    <3> HIDE DEF served
    <3>5. LET got == FetchIndex(in.q, replies, pin, in.holders)
          IN  (got # None) = (good2 # {}) /\ (got = None \/ got \in {r[2].root : r \in good2})
      <4>1. replies \in SetToSeqs(served)
        BY DEF served
      <4> QED BY <4>1, <3>2, <3>4, FirstUsable
    <3> HIDE DEF good, good2
    <3>6. LET got == FetchIndex(in.q, replies, pin, in.holders)
          IN  (got # None) = (good # {}) /\ (got = None \/ got \in {r[2].root : r \in good})
      BY <3>3, <3>5
    <3> QED BY <3>6 DEF served, good
  <2>7. ASSUME in.q \in Origins, NoRepeats(in.want), \A h \in near : h.max = MaxWant
        PROVE  FetchMany(in.q, in.want, in.holders) = Range(in.want) \cap held
    <3>0. \A x \in Hashes : None # <<Algo, x>>
      BY NoneAssumption
    <3>1. q1 # "*"
      BY <2>4, <2>7
    <3>2. PICK w : w = in.want
      OBVIOUS
    <3>3. PICK hs : hs = in.holders
      OBVIOUS
    <3>4. w \in Seq(Hashes) /\ NoRepeats(w) /\ \A g \in hs : \E a, b : g.prefix = <<a, b>>
      BY <2>1, <2>3, <2>7, <3>2, <3>3
    <3>5. \A h \in Reached(<<q1, "b">>, hs) : h.max = MaxWant
      BY <2>7, <2>4, <3>3
    <3>6. FetchMany(<<q1, "b">>, w, hs) = Range(w) \cap UNION {h.held : h \in Reached(<<q1, "b">>, hs)}
      BY <2>5, <3>0, <3>1, <3>4, <3>5, FetchManyFacts
    <3> QED BY <3>2, <3>3, <3>6, <2>4
  <2> QED BY <2>6, <2>7 DEF IndexFetched
<1> QED BY <1>1, InAlways, PTL

-----------------------------------------------------------------------------
(* What a bitfield counts. *)

\* The set bits of the first k bytes, and those of byte k.
Marked(bytes, count, k) == {i \in 0..(count-1) : i < k * ByteBits /\ IsSet(bytes, count, i)}
\* The bits of byte k that are bits of a chunk.
MarkedIn(bytes, count, k) == {b \in bytes[k] : (k-1) * ByteBits + b < count}

\* Bit b of byte k is the chunk (k-1) * 8 + b.
LEMMA BitPlace ==
  ASSUME NEW bytes \in Seq(Bytes), NEW count \in Nat, NEW k \in 1..Len(bytes), NEW b \in 0..(ByteBits-1)
  PROVE  LET i == (k-1) * ByteBits + b
         IN  /\ i \in Nat /\ (k-1) * ByteBits \in Nat /\ k * ByteBits = (k-1) * ByteBits + ByteBits
             /\ IsSet(bytes, count, i) <=> i < count /\ b \in bytes[k]
<1> DEFINE n == Len(bytes)
           B == ByteBits
           i == (k-1) * B + b
<1>1. n \in Nat /\ B \in Nat /\ B >= 1
  BY LenProperties, Sizes
<1>2. IsSet(bytes, count, i) <=> i < count /\ i \div B < n /\ i % B \in bytes[i \div B + 1]
  BY DEF IsSet
<1> HIDE DEF n, B
<1>3. k - 1 \in Nat /\ k - 1 < n /\ (k - 1) + 1 = k
  BY <1>1 DEF n
<1>4. i \div B = k - 1 /\ i % B = b
  BY <1>1, <1>3, Quotient DEF B
<1>5. 0 * B <= (k - 1) * B /\ (k-1) * B \in Int /\ 0 * B = 0
  BY <1>1, <1>3, Mul
<1>a. ((k-1) + 1) * B = (k-1) * B + B
  BY <1>1, <1>3, Mul
<1>6. (k-1) * B \in Nat /\ k * B = (k-1) * B + B
  BY <1>3, <1>5, <1>a
<1>7. i \in Nat
  BY <1>6 DEF B
<1>8. IsSet(bytes, count, i) <=> i < count /\ b \in bytes[k]
  BY <1>2, <1>3, <1>4
<1> QED BY <1>6, <1>7, <1>8 DEF B

\* One more byte adds its own marked bits.
LEMMA MarkedStep ==
  ASSUME NEW bytes \in Seq(Bytes), NEW count \in Nat, NEW k \in 1..Len(bytes)
  PROVE  Cardinality(Marked(bytes, count, k)) = Cardinality(Marked(bytes, count, k-1)) + Cardinality(MarkedIn(bytes, count, k))
<1> DEFINE B == ByteBits
           n == Len(bytes)
           base == (k-1) * B
           M == Marked(bytes, count, k)
           L == Marked(bytes, count, k-1)
           T == MarkedIn(bytes, count, k)
           U == {i \in M : base <= i}
           f == [b \in T |-> base + b]
<1>1. n \in Nat /\ B \in Nat /\ B >= 1 /\ bytes[k] \subseteq 0..(B-1)
  BY LenProperties, Sizes, ElementOfSeq DEF Bytes
<1>2. ASSUME NEW b \in 0..(B-1)
      PROVE  base + b \in Nat /\ base \in Nat /\ k * B = base + B
             /\ (IsSet(bytes, count, base + b) <=> base + b < count /\ b \in bytes[k])
  BY BitPlace
<1>3. base \in Nat /\ k * B = base + B
  <2>1. 0 \in 0..(B-1)
    BY <1>1
  <2> QED BY <2>1, <1>2
<1>a. M = {i \in 0..(count-1) : i < k * B /\ IsSet(bytes, count, i)}
  BY DEF Marked
<1>b. L = {i \in 0..(count-1) : i < base /\ IsSet(bytes, count, i)}
  BY DEF Marked
<1>c. T = {b \in bytes[k] : base + b < count}
  BY DEF MarkedIn
<1> HIDE DEF B, n, base, M, L, T
<1>4. M = L \cup U /\ L \cap U = {}
  <2>1. ASSUME NEW i \in L PROVE i \in M /\ ~(base <= i)
    BY <1>a, <1>b, <1>3, <1>1
  <2>2. ASSUME NEW i \in M, ~(base <= i) PROVE i \in L
    BY <2>2, <1>a, <1>b, <1>3
  <2> QED BY <2>1, <2>2
<1>5. f \in Bijection(T, U)
  <2>1. ASSUME NEW b \in T PROVE base + b \in U
    <3>1. b \in 0..(B-1) /\ base + b < count /\ b \in bytes[k]
      BY <1>1, <1>c
    <3>2. base + b \in Nat /\ IsSet(bytes, count, base + b)
      BY <3>1, <1>2
    <3>3. base + b \in 0..(count-1) /\ base + b < k * B /\ base <= base + b
      BY <3>1, <3>2, <1>3, <1>1
    <3> QED BY <3>2, <3>3, <1>a
  <2>2. ASSUME NEW i \in U PROVE \E b \in T : f[b] = i
    <3> DEFINE b == i - base
    <3>1. i \in Nat /\ i < count /\ base <= i /\ i < base + B /\ IsSet(bytes, count, i)
      BY <1>a, <1>3
    <3>2. b \in 0..(B-1) /\ base + b = i
      BY <3>1, <1>3, <1>1
    <3>3. b \in bytes[k]
      BY <3>1, <3>2, <1>2
    <3>4. b \in T
      BY <3>1, <3>2, <3>3, <1>c
    <3> QED BY <3>2, <3>4
  <2>3. ASSUME NEW a \in T, NEW b \in T, f[a] = f[b] PROVE a = b
    <3>1. a \in Int /\ b \in Int
      BY <1>1, <1>c
    <3> QED BY <2>3, <3>1, <1>3
  <2>4. f \in [T -> U]
    BY <2>1
  <2>5. f \in Injection(T, U)
    BY <2>3, <2>4 DEF Injection, IsInjective
  <2>6. f \in Surjection(T, U)
    BY <2>2, <2>4 DEF Surjection
  <2> QED BY <2>5, <2>6 DEF Bijection
<1>6. IsFiniteSet(M)
  <2>1. 0 \in Int /\ count - 1 \in Int
    OBVIOUS
  <2>2. IsFiniteSet(0..(count-1))
    BY <2>1, FS_Interval
  <2>3. M \in SUBSET (0..(count-1))
    BY <1>a
  <2> QED BY <2>2, <2>3, FS_Subset
<1>7. IsFiniteSet(L) /\ IsFiniteSet(U)
  BY <1>4, <1>6, FS_Subset
<1>8. IsFiniteSet(T)
  <2>1. 0 \in Int /\ B - 1 \in Int
    BY <1>1
  <2>2. IsFiniteSet(0..(B-1))
    BY <2>1, FS_Interval
  <2>3. T \in SUBSET (0..(B-1))
    BY <1>c, <1>1
  <2> QED BY <2>2, <2>3, FS_Subset
<1>9. Cardinality(U) = Cardinality(T)
  BY <1>5, <1>8, FS_Bijection DEF ExistsBijection
<1>10. Cardinality(M) = Cardinality(L) + Cardinality(U)
  <2>1. Cardinality(L \cup U) = Cardinality(L) + Cardinality(U) - Cardinality(L \cap U)
    BY <1>7, FS_Union
  <2>2. Cardinality(L \cap U) = 0
    BY <1>4, FS_EmptySet
  <2>3. Cardinality(L) \in Nat /\ Cardinality(U) \in Nat
    BY <1>7, FS_CardinalityType
  <2> HIDE DEF U
  <2> QED BY <2>1, <2>2, <2>3, <1>4
<1> QED BY <1>9, <1>10 DEF M, L, T

\* The bytes' counts come to the number of set bits.
LEMMA MarkedSum ==
  ASSUME NEW bytes \in Seq(Bytes), NEW count \in Nat, NEW m \in 0..Len(bytes),
         NEW c, Len(c) = m, \A k \in 1..m : c[k] = Cardinality(MarkedIn(bytes, count, k))
  PROVE  Total(c) = Cardinality(Marked(bytes, count, m))
<1> DEFINE g == [k \in 0..m |-> Cardinality(Marked(bytes, count, k))]
           n == Len(bytes)
<1>1. n \in Nat /\ m \in Nat /\ m <= n
  BY LenProperties
<1>2. g[0] = 0
  <2>1. Marked(bytes, count, 0) = {}
    <3>1. 0 * ByteBits = 0
      BY Sizes
    <3> QED BY <3>1 DEF Marked
  <2>2. 0 \in 0..m
    BY <1>1
  <2> QED BY <2>1, <2>2, FS_EmptySet
<1>3. ASSUME NEW k \in 1..m PROVE g[k] = g[k-1] + c[k]
  <2>1. k \in 0..m /\ k - 1 \in 0..m /\ k \in 1..n
    BY <1>1
  <2>2. g[k] = Cardinality(Marked(bytes, count, k)) /\ g[k-1] = Cardinality(Marked(bytes, count, k-1))
    BY <2>1
  <2> HIDE DEF g
  <2> QED BY <2>1, <2>2, MarkedStep
<1>4. g[m] = Cardinality(Marked(bytes, count, m))
  BY <1>1
<1> HIDE DEF g
<1> QED BY <1>1, <1>2, <1>3, <1>4, TotalIs

\* Every set bit is in a byte that is there.
LEMMA MarkedAll ==
  ASSUME NEW bytes \in Seq(Bytes), NEW count \in Nat, NEW m \in Nat,
         m >= Len(bytes) \/ count <= m * ByteBits
  PROVE  Marked(bytes, count, m) = {i \in 0..(count-1) : IsSet(bytes, count, i)}
<1> SUFFICES ASSUME NEW i \in 0..(count-1), IsSet(bytes, count, i) PROVE i < m * ByteBits
  BY DEF Marked
<1> DEFINE B == ByteBits
           n == Len(bytes)
           k == i \div B
<1>1. n \in Nat /\ B \in Nat /\ B >= 1 /\ i \in Nat /\ m * B \in Int
  BY LenProperties, Sizes
<1>2. CASE count <= m * B
  BY <1>2, <1>1
<1>3. CASE m >= n
  <2>1. i = B * k + (i % B) /\ k \in Nat /\ i % B \in 0..(B-1)
    BY <1>1, DivMod
  <2>2. k < n
    BY DEF IsSet
  <2> HIDE DEF k, n
  <2>3. k + 1 \in Int /\ k + 1 <= m
    BY <2>1, <2>2, <1>3, <1>1
  <2>4. (k + 1) * B <= m * B /\ (k + 1) * B = k * B + B
    BY <2>1, <2>3, <1>1, Mul
  <2>5. i < k * B + B
    BY <2>1, <1>1
  <2> QED BY <2>1, <2>4, <2>5, <1>1
<1> QED BY <1>2, <1>3

\* ResumeState::received counts the set bits of the blob's chunks.
LEMMA ReceivedCounts ==
  ASSUME NEW bytes \in Seq(Bytes), NEW count \in Nat
  PROVE  Received(bytes, count) = Cardinality({i \in 0..(count-1) : IsSet(bytes, count, i)})
<1> DEFINE n == Len(bytes)
           c == [k \in 1..n |-> Cardinality(MarkedIn(bytes, count, k))]
<1>1. n \in Nat
  BY LenProperties
<1>2. Received(bytes, count) = Total(c)
  BY DEF Received, MarkedIn
<1> HIDE DEF n
<1>3. n \in 0..n /\ Len(c) = n /\ \A k \in 1..n : c[k] = Cardinality(MarkedIn(bytes, count, k))
  BY <1>1
<1> HIDE DEF c
<1>4. Total(c) = Cardinality(Marked(bytes, count, n))
  BY <1>3, MarkedSum DEF n
<1>5. Marked(bytes, count, n) = {i \in 0..(count-1) : IsSet(bytes, count, i)}
  BY <1>1, MarkedAll DEF n
<1> QED BY <1>2, <1>4, <1>5

\* count_bits, with its masked last byte, counts the same.
LEMMA CountBitsCounts ==
  ASSUME NEW bytes \in Seq(Bytes), NEW count \in Nat
  PROVE  CountBits(bytes, count) = Cardinality({i \in 0..(count-1) : IsSet(bytes, count, i)})
<1> DEFINE n == Len(bytes)
           B == ByteBits
           full == count \div B
           rem == count % B
           m == AtMost(full, n)
           c == [k \in 1..m |-> Cardinality(bytes[k])]
           rest == IF full < n /\ rem > 0 THEN Cardinality(bytes[full+1] \cap 0..(rem-1)) ELSE 0
           set == {i \in 0..(count-1) : IsSet(bytes, count, i)}
<1>1. n \in Nat /\ B \in Nat /\ B >= 1
  BY LenProperties, Sizes
<1>2. count = B * full + rem /\ full \in Nat /\ rem \in 0..(B-1)
  BY <1>1, DivMod
<1>3. CountBits(bytes, count) = Total(c) + rest
  BY DEF CountBits
<1>a. \A k \in 1..n : bytes[k] \subseteq 0..(B-1)
  BY ElementOfSeq DEF Bytes
<1> HIDE DEF full, rem, n, B
<1>4. m \in Nat /\ m <= n /\ m <= full /\ (m = n \/ m = full)
  BY <1>1, <1>2 DEF AtMost
<1> HIDE DEF m
<1>5. ASSUME NEW k \in 1..m PROVE bytes[k] = MarkedIn(bytes, count, k)
  <2>1. k - 1 \in Int /\ k \in Int /\ k <= full /\ k \in 1..n /\ (k - 1) + 1 = k
    BY <1>1, <1>2, <1>4
  <2>2. k * B <= full * B /\ k * B \in Int
    BY <2>1, <1>1, <1>2, Mul
  <2>3. ((k - 1) + 1) * B = (k - 1) * B + B /\ (k - 1) * B \in Int
    BY <2>1, <1>1, Mul
  <2>4. full * B = B * full /\ B * full \in Int
    BY <1>1, <1>2
  <2>5. (k - 1) * B + B <= count /\ (k - 1) * B \in Int
    BY <2>1, <2>2, <2>3, <2>4, <1>2
  <2>6. ASSUME NEW b \in bytes[k] PROVE (k - 1) * B + b < count
    <3>1. b \in 0..(B-1)
      BY <2>1, <1>a
    <3> DEFINE x == (k - 1) * B
    <3>2. x \in Int /\ x + B <= count
      BY <2>5
    <3> HIDE DEF x
    <3>3. x + b < count
      BY <3>1, <3>2, <1>1
    <3> QED BY <3>3 DEF x
  <2> QED BY <2>6 DEF MarkedIn, B
<1>6. Len(c) = m /\ \A k \in 1..m : c[k] = Cardinality(MarkedIn(bytes, count, k))
  BY <1>4, <1>5
<1> HIDE DEF c
<1>b. m \in 0..n
  BY <1>1, <1>4
<1>7. Total(c) = Cardinality(Marked(bytes, count, m))
  BY <1>6, <1>b, MarkedSum DEF n
<1>8. \A j \in Nat : j >= n \/ count <= j * B => Marked(bytes, count, j) = set
  BY MarkedAll DEF n, B
<1> HIDE DEF set
<1>c. full * B = B * full /\ B * full \in Int /\ full * B \in Int
  BY <1>1, <1>2
<1>9. CASE full < n /\ rem > 0
  <2>1. m = full /\ full + 1 \in 1..n /\ full + 1 \in Nat /\ (full + 1) - 1 = full
    BY <1>1, <1>2, <1>4, <1>9
  <2>2. MarkedIn(bytes, count, full + 1) = bytes[full+1] \cap 0..(rem-1)
    <3>1. ASSUME NEW b \in bytes[full+1] PROVE full * B + b < count <=> b \in 0..(rem-1)
      <4>1. b \in 0..(B-1)
        BY <2>1, <1>a
      <4> DEFINE x == full * B
      <4>2. x \in Int /\ count = x + rem
        BY <1>c, <1>2
      <4> HIDE DEF x
      <4>3. x + b < count <=> b \in 0..(rem-1)
        BY <4>1, <4>2, <1>1, <1>2
      <4> QED BY <4>3 DEF x
    <3>2. MarkedIn(bytes, count, full + 1) = {b \in bytes[full+1] : full * B + b < count}
      BY <2>1 DEF MarkedIn, B
    <3> QED BY <3>1, <3>2
  <2>3. Cardinality(Marked(bytes, count, full + 1)) = Cardinality(Marked(bytes, count, (full + 1) - 1)) + Cardinality(MarkedIn(bytes, count, full + 1))
    BY <2>1, MarkedStep DEF n
  <2>4. Marked(bytes, count, full + 1) = set
    <3>1. (full + 1) * B = full * B + B
      BY <1>1, <1>2, Mul
    <3>2. count <= (full + 1) * B
      BY <3>1, <1>1, <1>2, <1>c
    <3> QED BY <3>2, <2>1, <1>8
  <2>5. rest = Cardinality(MarkedIn(bytes, count, full + 1))
    BY <1>9, <2>2
  <2> HIDE DEF rest
  <2> QED BY <2>1, <2>3, <2>4, <2>5, <1>3, <1>7 DEF set
<1>10. CASE ~(full < n /\ rem > 0)
  <2>1. rest = 0
    BY <1>10
  <2>2. m >= n \/ count <= m * B
    <3>1. CASE m = n
      BY <3>1, <1>1
    <3>2. CASE m = full /\ m # n
      <4>1. rem = 0
        BY <3>2, <1>1, <1>2, <1>4, <1>10
      <4>2. count = full * B
        BY <4>1, <1>2, <1>c
      <4> QED BY <4>2, <3>2, <1>c
    <3> QED BY <3>1, <3>2, <1>4
  <2>3. Marked(bytes, count, m) = set
    BY <2>2, <1>4, <1>8
  <2>4. Cardinality(set) \in Nat
    <3>1. 0 \in Int /\ count - 1 \in Int
      OBVIOUS
    <3>2. IsFiniteSet(0..(count-1))
      BY <3>1, FS_Interval
    <3>3. set \in SUBSET (0..(count-1))
      BY DEF set
    <3> QED BY <3>2, <3>3, FS_Subset, FS_CardinalityType
  <2> HIDE DEF rest
  <2>5. Total(c) + rest = Cardinality(set)
    BY <2>1, <2>3, <2>4, <1>7
  <2> QED BY <2>5, <1>3 DEF set
<1> QED BY <1>9, <1>10

\* A bitfield with every bit of the count set is the full one.
LEMMA FullPresence ==
  ASSUME NEW count \in Nat, NEW p, Len(p) = count, \A i \in 1..count : p[i] = TRUE
  PROVE  FromPresence(p) = FullBits(count)
<1> DEFINE B == ByteBits
           C == DivCeil(count, B)
           rem == count % B
           full == count \div B
           f == [k \in 1..C |-> {b \in 0..(B-1) : (k-1) * B + b < count /\ p[(k-1) * B + b + 1]}]
           e(k) == IF k = C /\ rem # 0 THEN 0..(rem - 1) ELSE 0..(B-1)
<1>1. B \in Nat /\ B >= 1
  BY Sizes
<1>2. FromPresence(p) = f /\ FullBits(count) = [k \in 1..C |-> e(k)]
  BY DEF FromPresence, FullBits
<1>3. C \in Nat /\ count <= C * B /\ \A r \in 1..C : (r - 1) * B < count
  BY <1>1, CeilFacts
<1>4. count = B * full + rem /\ full \in Nat /\ rem \in 0..(B-1)
  BY <1>1, DivMod
<1> HIDE DEF B, C, full, rem
<1>5. ASSUME NEW k \in 1..C PROVE f[k] = e(k)
  <2> DEFINE x == (k - 1) * B
  <2>1. k - 1 \in Int /\ k \in Int /\ k - 1 >= 0 /\ (k - 1) + 1 = k /\ C - k \in Nat
    BY <1>3
  <2>2. x \in Nat /\ x < count /\ k * B = x + B
    <3>1. 0 * B <= (k-1) * B /\ (k-1) * B \in Int /\ 0 * B = 0
      BY <2>1, <1>1, Mul
    <3>2. ((k-1) + 1) * B = (k-1) * B + B
      BY <2>1, <1>1, Mul
    <3> QED BY <3>1, <3>2, <2>1, <1>3
  <2>3. f[k] = {b \in 0..(B-1) : x + b < count /\ p[x + b + 1]}
    OBVIOUS
  <2>a. k < C => k * B < count
    <3> SUFFICES ASSUME k < C PROVE k * B < count
      OBVIOUS
    <3>1. k + 1 \in 1..C /\ (k + 1) - 1 = k
      BY <2>1, <1>3
    <3> QED BY <3>1, <1>3
  <2> HIDE DEF x
  <2>4. ASSUME NEW b \in 0..(B-1), x + b < count PROVE p[x + b + 1] = TRUE
    <3>1. x + b + 1 \in 1..count
      BY <2>2, <2>4, <1>1
    <3> QED BY <3>1
  <2>5. f[k] = {b \in 0..(B-1) : x + b < count}
    BY <2>3, <2>4
  <2>6. CASE k < C
    <3>1. x + B < count
      BY <2>a, <2>2, <2>6
    <3>2. \A b \in 0..(B-1) : x + b < count
      BY <3>1, <2>2, <1>1
    <3>3. k # C
      BY <2>6, <1>3
    <3> QED BY <3>2, <3>3, <2>5
  <2>7. CASE k = C
    <3>1. x < count /\ count <= x + B
      BY <2>2, <2>7, <1>3
    <3>2. CASE rem = 0
      <4>1. count = x + B
        <5>1. x = B * (k - 1) /\ count = B * full
          BY <3>2, <1>1, <1>4, <2>1 DEF x
        <5>2. full = k
          <6>1. k - 1 < full
            <7> SUFFICES ASSUME full <= k - 1 PROVE FALSE
              BY <2>1, <1>4
            <7>1. full * B <= (k - 1) * B
              BY <2>1, <1>1, <1>4, Mul
            <7> QED BY <7>1, <5>1, <3>1, <1>1, <1>4, <2>1
          <6>2. full <= k
            <7> SUFFICES ASSUME k + 1 <= full PROVE FALSE
              BY <2>1, <1>4
            <7>1. (k + 1) * B <= full * B /\ (k + 1) * B = k * B + B
              BY <2>1, <1>1, <1>4, Mul
            <7> QED BY <7>1, <5>1, <3>1, <2>2, <1>1, <1>4, <2>1
          <6> QED BY <6>1, <6>2, <2>1, <1>4
        <5> QED BY <5>1, <5>2, <2>2, <1>1, <1>4
      <4>2. \A b \in 0..(B-1) : x + b < count
        BY <4>1, <2>2, <1>1
      <4> QED BY <4>2, <3>2, <2>5
    <3>3. CASE rem # 0
      <4>1. count = x + rem
        <5>1. x = B * (k - 1) /\ count = B * full + rem /\ rem \in 1..(B-1)
          BY <3>3, <1>1, <1>4, <2>1 DEF x
        <5>2. full = k - 1
          <6>1. k - 1 <= full
            <7> SUFFICES ASSUME full + 1 <= k - 1 PROVE FALSE
              BY <2>1, <1>4
            <7>1. (full + 1) * B <= (k - 1) * B /\ (full + 1) * B = full * B + B
              BY <2>1, <1>1, <1>4, Mul
            <7> QED BY <7>1, <5>1, <3>1, <1>1, <1>4, <2>1
          <6>2. full <= k - 1
            <7> SUFFICES ASSUME k <= full PROVE FALSE
              BY <2>1, <1>4
            <7>1. k * B <= full * B
              BY <2>1, <1>1, <1>4, Mul
            <7> QED BY <7>1, <5>1, <3>1, <2>2, <1>1, <1>4, <2>1
          <6> QED BY <6>1, <6>2, <2>1, <1>4
        <5> QED BY <5>1, <5>2, <2>2, <1>1, <1>4
      <4>2. \A b \in 0..(B-1) : x + b < count <=> b \in 0..(rem-1)
        BY <4>1, <2>2, <1>1, <1>4
      <4>3. 0..(rem-1) \subseteq 0..(B-1)
        BY <1>1, <1>4
      <4> QED BY <4>2, <4>3, <3>3, <2>7, <2>5
    <3> QED BY <3>2, <3>3
  <2> QED BY <2>6, <2>7, <2>1, <1>3
<1> QED BY <1>2, <1>5 DEF C, B

\* count_bits, ResumeState::received and is_set agree on every bitfield of every
\* length and every count, stray bits or not; what passes the validation survives
\* being read and written again.
THEOREM ClaimsAreBounded == Spec => []ClaimsBounded
<1>1. ASSUME InOK PROVE ClaimsBounded
  <2> SUFFICES ASSUME in.kind = "claim" PROVE ClaimsBounded
    BY DEF ClaimsBounded
  <2>1. PICK bytes, count : bytes = in.bytes /\ count = in.count
    OBVIOUS
  <2>a. MaxBytes * ByteBits \in Nat
    BY Sizes
  <2>2. bytes \in Seq(Bytes) /\ count \in Nat
    BY <1>1, <2>1, <2>a DEF InOK
  <2> DEFINE set == {i \in 0..(count-1) : IsSet(bytes, count, i)}
             p == [i \in 1..count |-> i - 1 \in set]
             again == FromPresence(p)
  <2>3. CountBits(bytes, count) = Cardinality(set) /\ Received(bytes, count) = Cardinality(set)
    BY <2>2, ReceivedCounts, CountBitsCounts
  <2> HIDE DEF set
  <2>b. set \subseteq 0..(count-1)
    BY DEF set
  <2>d. Len(p) = count
    BY <2>2
  <2>4. Len(p) = count /\ \A i \in 1..count : p[i] <=> i - 1 \in set
    BY <2>d
  <2>c. \A i \in 1..count : p[i] = (i - 1 \in set)
    BY <2>2
  <2> HIDE DEF p
  <2>5. Len(again) = DivCeil(count, ByteBits) /\ \A i \in 0..(count-1) : IsSet(again, count, i) <=> p[i+1]
    BY <2>2, <2>4, BitsFacts
  <2> HIDE DEF again
  <2>6. ValidBits(again, count, count)
    BY <2>5 DEF ValidBits
  <2>7. set = {i \in 0..(count-1) : IsSet(again, count, i)}
    <3>1. ASSUME NEW i \in 0..(count-1) PROVE IsSet(again, count, i) <=> i \in set
      <4>1. i + 1 \in 1..count /\ (i + 1) - 1 = i
        BY <2>2
      <4> QED BY <4>1, <2>4, <2>5
    <3> QED BY <3>1, <2>b
  <2>8. Cardinality(set) = count => again = FullBits(count)
    <3> SUFFICES ASSUME Cardinality(set) = count PROVE again = FullBits(count)
      OBVIOUS
    <3>1. 0 \in Int /\ count - 1 \in Int
      BY <2>2
    <3>2. IsFiniteSet(0..(count-1)) /\ Cardinality(0..(count-1)) = IF 0 > count - 1 THEN 0 ELSE count - 1 - 0 + 1
      BY <3>1, FS_Interval
    <3>3. Cardinality(0..(count-1)) = count
      BY <3>2, <2>2
    <3>4. set \in SUBSET (0..(count-1))
      BY <2>b
    <3>5. set = 0..(count-1)
      BY <3>2, <3>3, <3>4, FS_Subset
    <3>6. ASSUME NEW i \in 1..count PROVE p[i] = TRUE
      <4>1. i - 1 \in 0..(count-1)
        BY <2>2
      <4>2. i - 1 \in set
        BY <4>1, <3>5
      <4> QED BY <4>2, <2>c
    <3> QED BY <2>2, <2>4, <3>6, FullPresence DEF again
  <2>9. /\ CountBits(in.bytes, in.count) = Cardinality(set)
        /\ Received(in.bytes, in.count) = Cardinality(set)
        /\ ValidAvailability(in.bytes, in.count, MaxIndex) =>
             /\ ValidBits(again, in.count, in.count)
             /\ set = {i \in 0..(in.count-1) : IsSet(again, in.count, i)}
             /\ (Cardinality(set) = in.count) => again = FullBits(in.count)
    BY <2>1, <2>3, <2>6, <2>7, <2>8
  <2>10. set = {i \in 0..(in.count-1) : IsSet(in.bytes, in.count, i)}
    BY <2>1 DEF set
  <2>11. again = FromPresence([i \in 1..in.count |-> i - 1 \in {j \in 0..(in.count-1) : IsSet(in.bytes, in.count, j)}])
    BY <2>1 DEF again, p, set
  <2> QED BY <2>9, <2>10, <2>11 DEF ClaimsBounded
<1> QED BY <1>1, InAlways, PTL

-----------------------------------------------------------------------------
(* The request for the holes of a bitfield. *)

\* The limits in a manifest are its two fields.
LEMMA AdvertisedIs ==
  ASSUME NEW cap, NEW blob
  PROVE  Advertised(cap, blob) = << <<1, <<4, cap>> >>, <<2, <<8, blob>> >> >>
<1> DEFINE a == <<1, <<4, cap>> >>
           b == <<2, <<8, blob>> >>
<1>1. /\ a[1] = 1 /\ a[2] = <<4, cap>> /\ a[2][1] = 4
      /\ b[1] = 2 /\ b[2] = <<8, blob>> /\ b[2][1] = 8
  OBVIOUS
<1>2. MaxFields \in Nat /\ MaxFields >= 2 /\ MaxValueLen \in Nat /\ MaxValueLen >= 8
  BY ExtAssumption
<1>3. ExtSet(<<>>, 1, <<4, cap>>) = FieldsOf(Append(Retain(<<>>, {f \in Range(<<>>) : f[1] # 1}), a))
  BY DEF ExtSet
<1>4. ExtSet(<<a>>, 2, <<8, blob>>) = FieldsOf(Append(Retain(<<a>>, {f \in Range(<<a>>) : f[1] # 2}), b))
  BY DEF ExtSet
<1>5. Range(<<a>>) = {a}
  <2>1. DOMAIN <<a>> = {1} /\ <<a>>[1] = a
    OBVIOUS
  <2> HIDE DEF a
  <2> QED BY <2>1 DEF Range
<1>6. Advertised(cap, blob) = ExtSet(ExtSet(<<>>, 1, <<4, cap>>), 2, <<8, blob>>)
  BY DEF Advertised, MaxChunksPerQuery, MaxBlobSize, U32, U64
<1> HIDE DEF a, b
<1>7. ASSUME NEW K PROVE Retain(<<>>, K) = <<>>
  <2>1. <<>> \in Seq({a}) /\ Len(<<>>) = 0
    BY EmptySeq
  <2> DEFINE r == Retain(<<>>, K)
             l == Len(r)
  <2>2. PICK p : r \in Seq({a}) /\ Picks(<<>>, K, Len(<<>>), r, p)
    BY <2>1, RetainFacts
  <2>3. l <= 0 /\ l \in Nat
    BY <2>1, <2>2, LenProperties DEF Picks
  <2>4. l = 0
    <3> HIDE DEF l
    <3> QED BY <2>3
  <2> HIDE DEF r
  <2>5. r = <<>>
    BY <2>2, <2>4, EmptySeq
  <2> QED BY <2>5 DEF r
<1>8. ASSUME NEW K, a \in K PROVE Retain(<<a>>, K) = <<a>>
  <2>1. <<a>> \in Seq({a}) /\ Len(<<a>>) = 1 /\ <<a>>[1] = a
    OBVIOUS
  <2> DEFINE r == Retain(<<a>>, K)
             l == Len(r)
  <2>2. PICK p : r \in Seq({a}) /\ Picks(<<a>>, K, Len(<<a>>), r, p)
    BY <2>1, RetainFacts
  <2>3. l <= 1 /\ l \in Nat
    BY <2>1, <2>2, LenProperties DEF Picks
  <2>4. \E i \in 1..l : p[i] = 1
    <3>1. \A j \in 1..1 : <<a>>[j] \in K => \E i \in 1..l : p[i] = j
      BY <2>1, <2>2 DEF Picks
    <3>2. 1 \in 1..1
      OBVIOUS
    <3> QED BY <2>1, <3>1, <3>2, <1>8
  <2>5. l = 1
    <3> HIDE DEF l
    <3> QED BY <2>3, <2>4
  <2> HIDE DEF r
  <2>6. r[1] = a
    BY <2>2, <2>5, ElementOfSeq
  <2>7. r = <<a>>
    BY <2>2, <2>5, <2>6
  <2> QED BY <2>7 DEF r
<1>9. Append(<<>>, a) = <<a>> /\ Append(<<a>>, b) = <<a, b>>
  <2>1. <<>> \in Seq({a, b}) /\ <<a>> \in Seq({a, b}) /\ <<a, b>> \in Seq({a, b})
    OBVIOUS
  <2>2. Append(<<>>, a) = <<a>>
    BY <2>1
  <2>3. Append(<<a>>, b) = <<a, b>>
    <3> DEFINE r == Append(<<a>>, b)
    <3>1. Len(<<a>>) = 1 /\ <<a>>[1] = a /\ b \in {a, b}
      OBVIOUS
    <3>2. r \in Seq({a, b}) /\ Len(r) = 2 /\ r[1] = a /\ r[2] = b
      BY <2>1, <3>1, AppendProperties
    <3> HIDE DEF r
    <3>3. r = <<a, b>>
      BY <3>2
    <3> QED BY <3>3 DEF r
  <2> QED BY <2>2, <2>3
<1>10. FieldsOf(<<a>>) = <<a>>
  <2>1. Len(<<a>>) = 1 /\ DOMAIN <<a>> = {1} /\ <<a>>[1] = a
    OBVIOUS
  <2>2. ~(1 > MaxFields) /\ ~(4 > MaxValueLen)
    BY <1>2
  <2> QED BY <2>1, <2>2, <1>1 DEF FieldsOf
<1>11. FieldsOf(<<a, b>>) = <<a, b>>
  <2>1. Len(<<a, b>>) = 2 /\ DOMAIN <<a, b>> = {1, 2} /\ <<a, b>>[1] = a /\ <<a, b>>[2] = b
    OBVIOUS
  <2>2. ~(2 > MaxFields) /\ ~(4 > MaxValueLen) /\ ~(8 > MaxValueLen)
    BY <1>2
  <2> QED BY <2>1, <2>2, <1>1 DEF FieldsOf
<1>12. a \in {f \in Range(<<a>>) : f[1] # 2}
  BY <1>1, <1>5
<1>13. ExtSet(<<>>, 1, <<4, cap>>) = <<a>>
  BY <1>3, <1>7, <1>9, <1>10
<1>14. ExtSet(<<a>>, 2, <<8, blob>>) = <<a, b>>
  BY <1>4, <1>8, <1>9, <1>11, <1>12
<1> QED BY <1>6, <1>13, <1>14 DEF a, b

\* A query is kept within both limits.
LEMMA BudgetFacts ==
  ASSUME NEW cap \in Caps, NEW own \in Caps
  PROVE  LET b == QueryBudget(Advertised(cap, 0), own)
         IN  b \in Nat /\ b >= 1 /\ b <= cap /\ b <= own /\ cap \in Nat /\ own \in Nat
<1> DEFINE ext == Advertised(cap, 0)
           b == QueryBudget(ext, own)
           place == {k \in DOMAIN ext : ext[k][1] = 1}
<1>1. cap \in Nat /\ cap >= 1 /\ own \in Nat /\ own >= 1 /\ cap # None
  <2>1. Caps \subseteq Nat \ {0} /\ None \notin Caps
    BY TableAssumption, NoneAssumption, Zenon
  <2> QED BY <2>1
<1>2. DOMAIN ext = {1, 2} /\ ext[1][1] = 1 /\ ext[2][1] = 2 /\ ext[1][2] = <<4, cap>>
  <2>1. ext = << <<1, <<4, cap>> >>, <<2, <<8, 0>> >> >>
    BY AdvertisedIs
  <2>2. \A x, y : DOMAIN <<x, y>> = {1, 2} /\ <<x, y>>[1] = x /\ <<x, y>>[2] = y
    OBVIOUS
  <2> HIDE DEF ext
  <2> QED BY <2>1, <2>2, Zenon
<1> HIDE DEF ext
<1>3. place = {1}
  BY <1>2
<1>4. (CHOOSE k \in place : \A j \in place : k <= j) = 1
  BY <1>3
<1>5. <<4, cap>>[1] = 4 /\ <<4, cap>>[2] = cap
  OBVIOUS
<1>6. ExtGet(ext, 1, 4) = cap
  BY <1>2, <1>3, <1>4, <1>5 DEF ExtGet
<1>7. b = LET budget == AtMost(own, cap) IN IF budget = 0 THEN 1 ELSE budget
  BY <1>1, <1>6 DEF QueryBudget, MaxChunksPerQuery, U32
<1>8. b = IF own < cap THEN own ELSE cap
  <2> HIDE DEF b
  <2> QED BY <1>1, <1>7 DEF AtMost
<1> HIDE DEF b
<1>9. b \in Nat /\ b >= 1 /\ b <= cap /\ b <= own
  BY <1>1, <1>8
<1> QED BY <1>1, <1>9 DEF b, ext

\* The slices of a blob: each on a group boundary, none empty, one after the
\* other, the last one to the end.
LEMMA GeometryFacts ==
  ASSUME NEW size, NEW total \in Nat, Geometry(size, total)
  PROVE  LET n == Count(size, total)
             range(i) == ByteRange(size, total, i)
         IN  /\ n \in Nat /\ n <= MaxIndex /\ (n = 0 <=> total = 0)
             /\ \A i \in 0..(n-1) :
                  /\ range(i)[1] % Group = 0 /\ LenOf(size, total, i) > 0
                  /\ range(i)[2] = IF i = n - 1 THEN total ELSE range(i+1)[1]
<1> DEFINE n == Count(size, total)
           c == DivCeil(total, size)
           q == size \div Group
<1>1. Group \in Nat /\ Group >= 1 /\ MinChunk \in Nat /\ MinChunk >= 1 /\ MaxChunk \in Nat /\ MaxIndex \in Nat
  BY SizeAssumption
<1>2. size \in Nat /\ size >= 1 /\ size % Group = 0 /\ c <= MaxIndex
  BY <1>1 DEF Geometry, ValidChunkSize
<1>3. c \in Nat /\ total <= c * size /\ (\A r \in 1..c : (r - 1) * size < total) /\ (total = 0 => c = 0)
  BY <1>2, CeilFacts
<1>4. n = c % (MaxIndex + 1)
  BY DEF Count
<1> HIDE DEF c, n
<1>5. n = c
  BY <1>1, <1>2, <1>3, <1>4
<1>6. c = 0 => total = 0
  BY <1>2, <1>3
<1>7. size = Group * q /\ q \in Nat
  <2>1. size = Group * q + (size % Group) /\ q \in Nat
    BY <1>1, <1>2, DivMod
  <2> QED BY <2>1, <1>2, <1>1
<1> HIDE DEF q
<1>8. ASSUME NEW i \in Nat PROVE (i * size) % Group = 0
  <2>1. i * size = (i * q) * Group + 0 /\ i * q \in Nat
    BY <1>1, <1>7
  <2>2. 0 \in 0..(Group - 1)
    BY <1>1
  <2>3. ASSUME NEW k \in Nat PROVE (k * Group + 0) % Group = 0
    BY <1>1, <2>2, Quotient
  <2> QED BY <2>1, <2>3
<1>9. ASSUME NEW i \in 0..(c-1) PROVE i * size \in Nat /\ i * size < total /\ (i + 1) * size = i * size + size
  <2>1. i + 1 \in 1..c /\ (i + 1) - 1 = i /\ i \in Nat
    BY <1>3
  <2>2. i * size < total
    BY <2>1, <1>3
  <2>3. i * size \in Int /\ (i + 1) * size = i * size + size /\ 0 * size <= i * size /\ 0 * size = 0
    BY <2>1, <1>2, Mul
  <2> QED BY <2>2, <2>3
<1>10. ASSUME NEW i \in 0..(c-1)
       PROVE  /\ ByteRange(size, total, i) = <<i * size, AtMost(i * size + size, total)>>
              /\ ByteRange(size, total, i)[1] = i * size
              /\ ByteRange(size, total, i)[2] = AtMost(i * size + size, total)
  <2>1. PICK u \in Nat : u = i * size /\ u < total
    BY <1>9
  <2>2. AtMost(u, total) = u
    BY <2>1 DEF AtMost
  <2>3. ByteRange(size, total, i) = <<u, AtMost(u + size, total)>>
    BY <2>1, <2>2 DEF ByteRange
  <2> QED BY <2>1, <2>3
<1>11. ASSUME NEW i \in 0..(c-1)
       PROVE  /\ ByteRange(size, total, i)[1] % Group = 0 /\ LenOf(size, total, i) > 0
              /\ ByteRange(size, total, i)[2] = IF i = c - 1 THEN total ELSE ByteRange(size, total, i+1)[1]
  <2>1. PICK u \in Nat : u = i * size /\ u < total /\ (i + 1) * size = u + size /\ u % Group = 0
    BY <1>8, <1>9
  <2>2. ByteRange(size, total, i)[1] = u /\ ByteRange(size, total, i)[2] = AtMost(u + size, total)
    BY <2>1, <1>10
  <2>3. AtMost(u + size, total) - u > 0
    BY <2>1, <1>2 DEF AtMost
  <2>4. CASE i = c - 1
    <3>1. (i + 1) * size = c * size
      BY <2>4, <1>3
    <3>2. total <= u + size
      BY <3>1, <2>1, <1>3
    <3>3. AtMost(u + size, total) = total
      BY <3>2, <2>1, <1>2 DEF AtMost
    <3> QED BY <3>3, <2>1, <2>2, <2>3, <2>4 DEF LenOf
  <2>5. CASE i # c - 1
    <3>1. i + 1 \in 0..(c-1)
      BY <2>5, <1>3
    <3>2. ByteRange(size, total, i+1)[1] = u + size /\ u + size < total
      BY <3>1, <2>1, <1>9, <1>10
    <3>3. AtMost(u + size, total) = u + size
      BY <3>2 DEF AtMost
    <3> QED BY <3>2, <3>3, <2>1, <2>2, <2>3, <2>5 DEF LenOf
  <2> QED BY <2>4, <2>5
<1> QED BY <1>2, <1>3, <1>5, <1>6, <1>11 DEF n

\* What fill_holes asks for, a server whose limit the manifest advertises
\* accepts, and it is the first of what is missing: for every blob, resume
\* bitfield, number of spans and pair of limits.
THEOREM RequestsAreExact == Spec => []RequestExact
<1>1. ASSUME InOK PROVE RequestExact
  <2> SUFFICES ASSUME in.kind = "blob" PROVE RequestExact
    BY DEF RequestExact
  <2>1. PICK size, total, cap, own, have :
          size = in.size /\ total = in.total /\ cap = in.cap /\ own = in.own /\ have = in.have
    OBVIOUS
  <2>2. BlobOK
    BY <1>1 DEF InOK
  <2>3. Geometry(size, total) /\ total \in Nat /\ cap \in Caps /\ own \in Caps
    BY <2>1, <2>2, TableAssumption DEF BlobOK
  <2> DEFINE n        == Count(size, total)
             range(i) == ByteRange(size, total, i)
             missing  == {i \in 0..(n-1) : ~IsSet(have, n, i)}
             budget   == QueryBudget(Advertised(cap, 0), own)
             words    == FormatRanges(Holes((0..(n-1)) \ missing, n, budget))
             asked    == Covered(ParseRanges(words))
  <2>4. /\ n \in Nat /\ n <= MaxIndex /\ (n = 0 <=> total = 0)
        /\ \A i \in 0..(n-1) :
              /\ range(i)[1] % Group = 0 /\ LenOf(size, total, i) > 0
              /\ range(i)[2] = IF i = n - 1 THEN total ELSE range(i+1)[1]
    BY <2>3, GeometryFacts
  <2>5. budget \in Nat /\ budget >= 1 /\ budget <= cap /\ budget <= own /\ cap \in Nat /\ own \in Nat
    BY <2>3, BudgetFacts
  <2>6. missing \subseteq 0..(n-1)
    OBVIOUS
  <2>7. missing # {} =>
             /\ Accepts(words, n, cap)
             /\ asked # {} /\ asked \subseteq missing
             /\ Cardinality(asked) <= own
             /\ \A i \in asked, j \in missing : j < i => j \in asked
    <3> SUFFICES ASSUME missing # {}
                 PROVE  /\ Accepts(words, n, cap)
                        /\ asked # {} /\ asked \subseteq missing
                        /\ Cardinality(asked) <= own
                        /\ \A i \in asked, j \in missing : j < i => j \in asked
      OBVIOUS
    <3> HIDE DEF n, missing, budget
    <3>1. /\ Accepts(words, n, cap)
          /\ asked # {} /\ asked \subseteq missing
          /\ Cardinality(asked) \in Nat /\ Cardinality(asked) <= budget
          /\ \A i \in asked, j \in missing : j < i => j \in asked
      BY <2>4, <2>5, <2>6, RequestFacts
    <3> HIDE DEF words, asked
    <3>2. Cardinality(asked) <= own
      BY <3>1, <2>5
    <3> QED BY <3>1, <3>2
  <2> QED BY <2>1, <2>4, <2>7 DEF RequestExact
<1> QED BY <1>1, InAlways, PTL
=============================================================================
