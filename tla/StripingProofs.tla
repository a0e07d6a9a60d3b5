--------------------------- MODULE StripingProofs ---------------------------
(***************************************************************************)
(* Proofs about Striping for every number of holders, chunks, attempts and *)
(* faults: the bitfield of the rounds is backed by the part file, the      *)
(* sidecar by its synced content, one honest holder among the first two    *)
(* is enough, and a striped download implements Transfer.                  *)
(***************************************************************************)
EXTENDS Striping, RangesProofs, SequenceTheorems, FiniteSetTheorems, TLAPS

USE StripingAssumption

\* The shape of the client's locals.
Shape ==
  /\ pc \in {"idle", "top", "deal", "recv", "finish"}
  /\ outcome \in Outcomes \cup {None}
  /\ bits \subseteq All /\ written \subseteq All /\ synced \subseteq All
  /\ sidecar = None \/ sidecar \subseteq All

\* The dealing loop has somebody to deal to, and stops at two copies; rounds
\* without progress are counted up to the limit.
DealInv ==
  /\ cursor \in 0..(H-1) /\ dealt \in 0..2 /\ noProgress \in 0..Attempts
  /\ pc = "deal" => Live # <<>>

\* Only the wait for the holders has queries under way; only then does the
\* part hold anything that is not on disk, and that is marked in the bitfield.
PartInv ==
  /\ pc # "recv" => job = Idle /\ written = synced
  /\ pc = "recv" => written = synced \cup bits
  /\ bits \subseteq written
  /\ sidecar # None => sidecar \subseteq synced
  /\ pc = "finish" => bits = All

\* A call that returned Ok has put the whole blob at the destination.
DestInv ==
  /\ pc # "idle" => outcome = None
  /\ outcome = "ok" => dest = "whole"

\* The inductive invariant.
IInv == Shape /\ DealInv /\ PartInv /\ DestInv

-----------------------------------------------------------------------------
\* Live lists the trusted holders in the order of the caller's list: p names
\* the places they have there.
LEMMA LiveFacts ==
  /\ Live \in Seq(1..H) /\ Len(Live) \in 0..H
  /\ \A i \in 1..Len(Live) : Live[i] \in Trusted
  /\ \A i, j \in 1..Len(Live) : i < j => Live[i] < Live[j]
  /\ \A h \in Trusted : \E i \in 1..Len(Live) : Live[i] = h
<1> DEFINE all == [k \in 1..H |-> k]
           r == Live
           n == Len(Live)
<1>1. all \in Seq(1..H) /\ Len(all) = H /\ H \in Nat
  OBVIOUS
<1>2. r = Retain(all, Trusted)
  BY DEF Live
<1>3. PICK p : r \in Seq(1..H) /\ Picks(all, Trusted, H, r, p)
  BY <1>1, <1>2, RetainFacts
<1>4. n \in Nat
  BY <1>3, LenProperties
<1>5. /\ n <= H /\ p \in [1..n -> 1..H]
      /\ \A i \in 1..n : r[i] = all[p[i]] /\ all[p[i]] \in Trusted
      /\ \A i, j \in 1..n : i < j => p[i] < p[j]
      /\ \A j \in 1..H : all[j] \in Trusted => \E i \in 1..n : p[i] = j
  BY <1>3 DEF Picks
<1>6. Trusted \subseteq 1..H
  BY DEF Trusted
<1> HIDE DEF n, r
<1>7. ASSUME NEW i \in 1..n PROVE r[i] = p[i] /\ p[i] \in Trusted
  <2>1. p[i] \in 1..H
    BY <1>5
  <2> QED BY <2>1, <1>5
<1>8. n \in 0..H
  BY <1>4, <1>5
<1> QED BY <1>3, <1>5, <1>6, <1>7, <1>8 DEF n, r

\* There are at most as many live holders as holders.
LEMMA LiveLength == Len(Live) \in 0..H /\ (Live # <<>> => Len(Live) \in 1..H)
<1>1. Live \in Seq(1..H) /\ Len(Live) \in 0..H
  BY LiveFacts
<1>2. Live # <<>> => Len(Live) # 0
  BY <1>1, EmptySeq
<1> HIDE DEF Live
<1>. QED
  BY <1>1, <1>2

\* It changes only with the count of rejects.
LEMMA LiveKept == ASSUME rejects' = rejects PROVE Live' = Live
BY DEF Live, Trusted

\* A call that ends leaves locals in their shape.
LEMMA ForgottenInv ==
  ASSUME IInv, Forgotten, NotDealing, outcome' \in Outcomes,
         written' = synced', synced' \subseteq All,
         sidecar' = None \/ sidecar' \subseteq synced', outcome' = "ok" => dest' = "whole"
  PROVE  IInv'
<1>1. Shape'
  BY DEF Forgotten, IInv, Shape
<1>2. DealInv'
  BY DEF Forgotten, NotDealing, IInv, DealInv
<1>3. PartInv'
  <2>1. job' = Idle
    BY DEF Forgotten
  <2>2. Idle' = Idle
    BY DEF Idle
  <2>. QED
    BY <2>1, <2>2 DEF Forgotten, PartInv
<1>4. DestInv'
  BY DEF Forgotten, DestInv
<1>. QED
  BY <1>1, <1>2, <1>3, <1>4 DEF IInv

\* It holds before the first download.
LEMMA InitInv == Init => IInv
<1> SUFFICES ASSUME Init PROVE IInv
  OBVIOUS
<1>1. Shape /\ PartInv /\ DestInv
  BY MarkerAssumption DEF Init, Shape, PartInv, DestInv, Outcomes
<1>2. DealInv
  BY DEF Init, DealInv
<1>. QED
  BY <1>1, <1>2 DEF IInv

\* Steps that touch neither the files nor the locals of the rounds.
LEMMA QuietStep ==
  ASSUME IInv, UNCHANGED <<pc, outcome, bits, written, synced, sidecar, noProgress, cursor, dealt>>,
         UNCHANGED dest \/ outcome # "ok",
         pc # "recv" => UNCHANGED <<rejects, job>>
  PROVE  IInv'
<1>1. Shape'
  BY DEF IInv, Shape
<1>2. DealInv'
  <2>1. pc = "deal" => Live' = Live
    BY LiveKept
  <2>. QED
    BY <2>1 DEF IInv, DealInv
<1>3. PartInv' /\ DestInv'
  BY DEF IInv, PartInv, DestInv, Idle
<1>. QED
  BY <1>1, <1>2, <1>3 DEF IInv

\* A call starts from the sidecar, or from nothing.
LEMMA CallStep == ASSUME IInv, Call, outcome # "ok" PROVE IInv'
<1>1. Shape'
  BY DEF Call, IInv, Shape, Outcomes
<1>2. DealInv'
  BY DEF Call, NotDealing, IInv, DealInv
<1>3. PartInv'
  BY DEF Call, IInv, Shape, PartInv, Idle
<1>4. DestInv'
  BY MarkerAssumption DEF Call, IInv, DestInv, Outcomes
<1>. QED
  BY <1>1, <1>2, <1>3, <1>4 DEF IInv

\* A call that is stopped, with its bitfield saved or nothing to save.
LEMMA StoppedStep ==
  ASSUME IInv, NEW why \in Outcomes \ {"ok"}, NEW saved \in BOOLEAN, Stopped(why, saved),
         saved \/ pc # "recv"
  PROVE  IInv'
<1>1. CASE saved
  BY <1>1, ForgottenInv DEF Stopped, IInv, Shape, PartInv
<1>2. CASE ~saved
  BY <1>2, ForgottenInv DEF Stopped, IInv, Shape, PartInv
<1>. QED
  BY <1>1, <1>2

\* The verified part becomes the destination.
LEMMA FinishStep == ASSUME IInv, Finish PROVE IInv'
<1>1. written = All /\ written = synced /\ bits = All
  BY DEF Finish, IInv, Shape, PartInv
<1>2. CASE Refuse /\ dest # None
  BY <1>1, <1>2, ForgottenInv DEF Finish, Outcomes
<1>3. CASE ~(Refuse /\ dest # None)
  BY <1>1, <1>3, ForgottenInv DEF Finish, Outcomes
<1>. QED
  BY <1>2, <1>3

\* A round deals what is missing.
LEMMA RoundStep == ASSUME IInv, Round PROVE IInv'
<1>1. CASE /\ bits = All /\ pc' = "finish"
           /\ UNCHANGED <<outcome, before, bits, synced, sidecar, todo, cursor, dealt, assign,
                          rejects, noProgress, job, dest, cancel, written, world>>
  <2>1. pc = "top"
    BY DEF Round
  <2>2. Shape' /\ DealInv'
    BY <1>1 DEF IInv, Shape, DealInv
  <2>3. PartInv' /\ DestInv'
    BY <1>1, <2>1 DEF IInv, PartInv, DestInv, Idle
  <2>. QED
    BY <2>2, <2>3 DEF IInv
<1>2. CASE Stopped("cancelled", TRUE)
  BY <1>2, StoppedStep DEF Outcomes
<1>3. CASE Stopped("incomplete", FALSE)
  BY <1>3, StoppedStep DEF Round, Outcomes
<1>4. CASE /\ bits # All /\ ~cancel /\ Live # <<>>
           /\ pc' = "deal" /\ before' = Cardinality(bits)
           /\ todo' = Truncated(Missing, Budget * Len(Live))
           /\ cursor' = 0 /\ dealt' = 0 /\ assign' = [h \in Servers |-> <<>>]
           /\ UNCHANGED <<outcome, bits, synced, sidecar, rejects, noProgress, job, dest,
                          cancel, written, world>>
  <2>1. pc = "top"
    BY DEF Round
  <2>2. Live' = Live
    BY <1>4, LiveKept
  <2>3. Shape' /\ DealInv'
    BY <1>4, <2>2 DEF IInv, Shape, DealInv
  <2>4. PartInv' /\ DestInv'
    BY <1>4, <2>1 DEF IInv, PartInv, DestInv, Idle
  <2>. QED
    BY <2>3, <2>4 DEF IInv
<1>. QED
  BY <1>1, <1>2, <1>3, <1>4 DEF Round

\* The rotation stays on the list of live holders.
LEMMA DealStep == ASSUME IInv, Deal PROVE IInv'
<1>1. pc = "deal" /\ Len(Live) \in 1..H /\ Live # <<>>
  BY LiveLength DEF Deal, IInv, DealInv
<1>2. Live' = Live
  BY LiveKept DEF Deal
<1> DEFINE h     == Live[(cursor % Len(Live)) + 1]
           takes == Head(todo) \in Claims[h] /\ Len(assign[h]) < Budget
           n     == IF takes THEN dealt + 1 ELSE dealt
           over  == n >= Copies \/ ((cursor + 1) % Len(Live) = 0 /\ n = 0)
<1>3. /\ cursor' = IF over /\ Len(todo) = 1 THEN 0 ELSE (cursor + 1) % Len(Live)
      /\ dealt' = IF over THEN 0 ELSE n
  BY Zenon DEF Deal
<1>4. cursor' \in 0..(H-1)
  <2>1. (cursor + 1) % Len(Live) \in 0..(Len(Live) - 1)
    BY <1>1 DEF IInv, DealInv
  <2>2. (cursor + 1) % Len(Live) \in 0..(H-1)
    BY <1>1, <2>1
  <2> HIDE DEF over
  <2>. QED
    BY <1>3, <2>2
<1>5. dealt' \in 0..2
  <2>1. Copies \in 1..2
    BY DEF Copies
  <2>2. n \in 0..3
    BY DEF IInv, DealInv
  <2> HIDE DEF n
  <2>. QED
    BY <1>3, <2>1, <2>2
<1>6. Shape' /\ PartInv' /\ DestInv'
  BY <1>1 DEF Deal, IInv, Shape, PartInv, DestInv, Idle
<1>. QED
  BY <1>1, <1>2, <1>4, <1>5, <1>6 DEF Deal, IInv, DealInv

\* A request changes only what its source owes.
LEMMA AskStep == ASSUME IInv, Ask PROVE IInv'
<1>1. pc = "deal" /\ written = synced /\ bits \subseteq written
  BY DEF Ask, IInv, PartInv
<1>2. Shape' /\ DealInv'
  BY DEF Ask, IInv, Shape, DealInv
<1>3. PartInv' /\ DestInv'
  BY <1>1 DEF Ask, IInv, PartInv, DestInv
<1>. QED
  BY <1>2, <1>3 DEF IInv

\* The end of a round strikes the sources that failed.
LEMMA RoundEndStep == ASSUME IInv, RoundEnd PROVE IInv'
<1> DEFINE barren == bits # All /\ Cardinality(bits) = before
<1>1. /\ pc = "recv" /\ job = Idle /\ synced' = written /\ sidecar' = bits /\ written' = written
      /\ bits \subseteq written /\ written \subseteq All /\ noProgress \in 0..Attempts
  BY DEF RoundEnd, IInv, Shape, PartInv, DealInv
<1>2. CASE barren /\ noProgress + 1 >= Attempts
  <2>1. Forgotten /\ outcome' = "incomplete" /\ NotDealing /\ dest' = dest
    BY <1>2 DEF RoundEnd
  <2>. QED
    BY <1>1, <2>1, ForgottenInv DEF Outcomes
<1>3. CASE ~(barren /\ noProgress + 1 >= Attempts)
  <2>1. /\ pc' = "top" /\ UNCHANGED <<outcome, bits, rejects, before, job>>
        /\ noProgress' = IF barren THEN noProgress + 1 ELSE 0
        /\ NotDealing /\ dest' = dest
    BY <1>3 DEF RoundEnd
  <2>2. noProgress' \in 0..Attempts
    <3> HIDE DEF barren
    <3>. QED
      BY <1>1, <1>3, <2>1
  <2> HIDE DEF barren
  <2>3. Shape'
    BY <1>1, <2>1 DEF IInv, Shape
  <2>4. DealInv'
    BY <2>1, <2>2 DEF IInv, DealInv, NotDealing
  <2>5. PartInv' /\ DestInv'
    BY <1>1, <2>1 DEF IInv, PartInv, DestInv, Idle
  <2>. QED
    BY <2>3, <2>4, <2>5 DEF IInv
<1>. QED
  BY <1>2, <1>3

\* A query is under way only while the client waits for the holders.
LEMMA OnlyWhileWaiting ==
  ASSUME IInv, NEW h \in Servers, job[h] # NoQuery
  PROVE  pc = "recv"
BY DEF IInv, PartInv, Idle

\* A holder that answers has a query.
LEMMA Queried ==
  ASSUME NEW h \in Servers, Take(h) \/ Reply(h) \/ Broken(h)
  PROVE  job[h] # NoQuery
<1>1. NoQuery[1] = "none"
  BY DEF NoQuery
<1>2. job[h][1] \in {"asking", "serving"}
  BY DEF Take, Reply, Broken
<1>. QED
  BY <1>1, <1>2

\* An answer changes at most the bitfield and the part, both alike.
LEMMA HolderStep ==
  ASSUME IInv, NEW h \in Servers, Answer(h) \/ Lose(h) \/ Forge(h)
  PROVE  IInv'
<1>1. job[h] # NoQuery
  BY Queried DEF Answer, Lose, Forge
<1>2. pc = "recv"
  BY <1>1, OnlyWhileWaiting
<1>3. CASE Take(h) \/ Broken(h) \/ Lose(h) \/ Forge(h)
  BY <1>2, <1>3, QuietStep DEF Take, Broken, Lose, Forge, OnlyJob
<1>4. CASE Reply(h)
  <2>1. /\ UNCHANGED <<pc, outcome, dest, synced, sidecar, noProgress, cursor, dealt>>
        /\ UNCHANGED <<bits, written>> \/ Accept(Head(job[h][2]))
    BY <1>4 DEF Reply, OnlyJob
  <2>2. CASE UNCHANGED <<bits, written>>
    BY <1>2, <2>1, <2>2, QuietStep
  <2>3. CASE Accept(Head(job[h][2])) /\ ~UNCHANGED <<bits, written>>
    <3>1. PICK i \in All : bits' = bits \cup {i} /\ written' = written \cup {i}
      BY <2>3 DEF Accept
    <3>2. Shape' /\ PartInv'
      BY <1>2, <2>1, <3>1 DEF IInv, Shape, PartInv
    <3>3. DealInv' /\ DestInv'
      BY <1>2, <2>1 DEF IInv, DealInv, DestInv
    <3>. QED
      BY <3>2, <3>3 DEF IInv
  <2>. QED
    BY <2>1, <2>2, <2>3
<1>. QED
  BY <1>3, <1>4 DEF Answer

\* A crash leaves the sidecar and what was synced.
LEMMA CrashStep == ASSUME IInv, Crash PROVE IInv'
BY ForgottenInv DEF Crash, IInv, Shape, PartInv, DestInv, Outcomes

\* Every action keeps the invariant.
LEMMA InvStep == IInv /\ [Next]_vars => IInv'
<1> SUFFICES ASSUME IInv, [Next]_vars PROVE IInv'
  OBVIOUS
<1>1. CASE outcome # "ok" /\ Call
  BY <1>1, CallStep
<1>2. CASE Client
  <2>1. CASE RecvCancelled
    BY <2>1, StoppedStep DEF RecvCancelled, Outcomes
  <2>. QED
    BY <1>2, <2>1, RoundStep, DealStep, AskStep, RoundEndStep, FinishStep DEF Client
<1>3. CASE RequestCancel
  BY <1>3, QuietStep DEF RequestCancel
<1>4. CASE Crash
  BY <1>4, CrashStep
<1>5. CASE DestAppears
  <2>1. outcome # "ok"
    BY <1>5, MarkerAssumption DEF DestAppears, IInv, DestInv
  <2>. QED
    BY <1>5, <2>1, QuietStep DEF DestAppears
<1>6. ASSUME NEW h \in Servers, Answer(h) \/ Lose(h) \/ Forge(h) PROVE IInv'
  BY <1>6, HolderStep
<1>7. ASSUME NEW h \in Servers, Server(h) PROVE IInv'
  BY <1>7, QuietStep DEF Server, clientVars
<1>8. CASE UNCHANGED vars
  BY <1>8, QuietStep DEF vars, clientVars
<1>. QED
  BY <1>1, <1>2, <1>3, <1>4, <1>5, <1>6, <1>7, <1>8 DEF Next

\* It holds in every reachable state.
LEMMA Invariance == Spec => []IInv
BY InitInv, InvStep, PTL DEF Spec

-----------------------------------------------------------------------------
\* The locals of fill_holes_striped keep their shape for every number of
\* holders: the rotation never leaves the list of holders, and the count of
\* barren rounds stays within retry.max_attempts.
THEOREM StripedTypeCorrect == Spec => []TypeOK
<1>1. IInv => TypeOK
  BY DEF IInv, Shape, DealInv, TypeOK
<1>. QED
  BY <1>1, Invariance, PTL

\* A striped download is renamed without a second hash pass; still, an Ok
\* means that the whole blob is at the destination, whatever its holders lose,
\* forge or replace and wherever in their rounds earlier calls were cancelled or
\* crashed.  Assumed: no crash falls inside the start or the end of a call
\* (client.rs: 804-807 and 828-834), which Call and Finish make one step each.
THEOREM StripedCorrect == Spec => []StripedExact
<1>1. IInv => StripedExact
  BY DEF IInv, DestInv, StripedExact
<1>. QED
  BY <1>1, Invariance, PTL

-----------------------------------------------------------------------------
(* One honest holder suffices *)

\* A holder that is dealt to in every round, and will take what it is asked.
Honest(h) == h \in Servers \ faulty /\ h <= 2 /\ Cap[h] >= Budget

\* It is registered as at the start, answers with the blob that is wanted, and
\* has sent nothing that was rejected.
Steady(h) ==
  /\ DOMAIN source = Servers /\ source[h] = Target
  /\ DOMAIN obao = Servers /\ obao[h] = Target
  /\ DOMAIN registry = Servers /\ registry[h] = [root |-> Target, print |-> Target]
  /\ rejects \in [Servers -> Nat] /\ rejects[h] = 0
  /\ DOMAIN job = Servers /\ (job[h][1] = "serving" => job[h][3] = Target)

\* The loads of the live holders differ by one at most: those the cursor has
\* passed have one chunk more, until the budget stops both.
Level(L) ==
  \A i \in 1..Len(Live) :
    LET turns == IF i <= cursor THEN L + 1 ELSE L
    IN  Len(assign[Live[i]]) = IF turns < Budget THEN turns ELSE Budget

\* While chunks are dealt: h, at place p of the live holders, has at most the
\* one at hand, and that only when its turn has just passed or nobody has room;
\* it has a chunk, or will be given one in the first two turns.
Turn(h, p, L) ==
  /\ cursor < Len(Live) /\ dealt < Copies /\ Level(L)
  /\ \A k \in 1..Len(assign[h]) :
       /\ assign[h][k] <= Head(todo)
       /\ assign[h][k] = Head(todo) =>
            dealt = 1 /\ (L >= Budget \/ cursor = p % Len(Live))
  /\ assign[h] = <<>> => cursor = p - 1 \/ (dealt = 0 /\ (Copies = 1 => Len(todo) >= 2))

\* An honest holder h in the dealing loop: the shares are level, and h is owed a
\* chunk until it has one.
Dealing(h) ==
  /\ before = Cardinality(bits)
  /\ todo \in Seq(All \ bits) /\ Ascending(todo)
  /\ assign \in [Servers -> Seq(All \ bits)]
  /\ Ascending(assign[h]) /\ Len(assign[h]) <= Budget
  /\ IF todo = <<>> THEN assign[h] # <<>>
     ELSE \E p \in 1..Len(Live) : Live[p] = h /\ p <= 2 /\ \E L \in Nat : Turn(h, p, L)

\* While the holders are waited for: h has a query it will take, or is sending
\* the answer, and the first chunk of it was missing when the round began.
Owes(h) ==
  \/ /\ job[h][1] = "asking" /\ Accepts(job[h][2], Count, Cap[h])
     /\ Indices(job[h][2]) # <<>> /\ Head(Indices(job[h][2])) \in All \ sidecar
  \/ /\ job[h][1] = "serving" /\ job[h][2] # <<>> /\ Head(job[h][2]) \in All \ sidecar

\* What makes every round bring a chunk.  The sidecar holds the bitfield of the
\* beginning of the round.
Served(h) ==
  /\ Steady(h) /\ outcome # "incomplete"
  /\ pc \in {"top", "deal"} => sidecar = bits
  /\ pc = "deal" => Dealing(h)
  /\ pc = "recv" => /\ sidecar \subseteq bits /\ before = Cardinality(sidecar)
                    /\ bits # sidecar \/ Owes(h)

\* The inductive invariant behind HonestSuffices.
AllClaimed == \A h \in Servers : Claims[h] = All
HonestInv == AllClaimed => \A h \in Servers : Honest(h) => Served(h)

\* The first index a query is answered with is the first of its spans.
LEMMA IndicesFacts ==
  ASSUME NEW n \in Nat, NEW words, Ordered(ParseRanges(words), n), Full(ParseRanges(words)),
         Len(ParseRanges(words)) >= 1
  PROVE  Indices(words) # <<>> /\ Head(Indices(words)) = ParseRanges(words)[1][1]
<1> DEFINE s == ParseRanges(words)
           l == Len(s)
           D == Seq(Nat)
           run(k) == [i \in 1..(s[k][2] - s[k][1]) |-> s[k][1] + i - 1]
           F(f) == [k \in 0..l |-> IF k = 0 THEN <<>> ELSE f[k-1] \o run(k)]
           E(x) == x[2] \o run(x[1])
           step == [x \in (1..l) \X D |-> E(x)]
           f0 == CHOOSE f : f = F(f)
<1>1. Indices(words) = f0[l]
  BY DEF Indices
<1>2. l \in Nat /\ \A k \in 1..l : s[k][1] \in Nat /\ s[k][2] \in Nat /\ s[k][1] < s[k][2]
  BY SpanFacts DEF Ordered, Full
<1> HIDE DEF s, l
<1>3. ASSUME NEW k \in 1..l PROVE run(k) \in D /\ Len(run(k)) \in Nat \ {0} /\ run(k)[1] = s[k][1]
  <2>1. PICK c \in Nat, d \in Nat : s[k][1] = c /\ s[k][2] = d /\ c < d
    BY <1>2
  <2>2. PICK e \in Nat : e = d - c /\ e >= 1
    BY <2>1
  <2>3. run(k) = [i \in 1..e |-> c + i - 1]
    BY <2>1, <2>2
  <2>4. \A i \in 1..e : c + i - 1 \in Nat
    BY <2>2
  <2>5. [i \in 1..e |-> c + i - 1] \in [1..e -> Nat]
    BY <2>4
  <2>6. [1..e -> Nat] \subseteq Seq(Nat) /\ \A g \in [1..e -> Nat] : Len(g) = e
    BY SeqDef
  <2>7. 1 \in 1..e /\ [i \in 1..e |-> c + i - 1][1] = c
    BY <2>2
  <2> HIDE DEF run
  <2> QED BY <2>1, <2>2, <2>3, <2>5, <2>6, <2>7
<1> HIDE DEF run
<1>4. <<>> \in D
  BY EmptySeq
<1>5. step \in [(1..l) \X D -> D]
  <2>1. ASSUME NEW x \in (1..l) \X D PROVE E(x) \in D
    <3>1. run(x[1]) \in D /\ x[2] \in D
      BY <1>3
    <3> QED BY <3>1, ConcatProperties
  <2> HIDE DEF E
  <2> QED BY <2>1
<1>6. PICK f \in [0..l -> D] : f[0] = <<>> /\ \A k \in 1..l : f[k] = step[<<k, f[k-1]>>]
  <2> HIDE DEF step, D
  <2>1. \E f : Iterated(D, l, step, <<>>, f)
    BY <1>2, <1>4, <1>5, Iterates
  <2> QED BY <2>1 DEF Iterated
<1>7. ASSUME NEW k \in 1..l PROVE f[k] = f[k-1] \o run(k)
  <2> HIDE DEF D
  <2>1. k - 1 \in 0..l
    BY <1>2
  <2>2. <<k, f[k-1]>> \in (1..l) \X D
    BY <2>1
  <2>3. ASSUME NEW d, <<k, d>> \in (1..l) \X D PROVE step[<<k, d>>] = d \o run(k)
    <3>1. <<k, d>>[1] = k /\ <<k, d>>[2] = d
      OBVIOUS
    <3>2. step[<<k, d>>] = E(<<k, d>>)
      <4> HIDE DEF E
      <4> QED BY <2>3
    <3> QED BY <3>1, <3>2
  <2> HIDE DEF step
  <2> QED BY <2>2, <2>3, <1>6
<1>8. f = F(f)
  <2> HIDE DEF D
  <2>1. ASSUME NEW k \in 0..l PROVE f[k] = IF k = 0 THEN <<>> ELSE f[k-1] \o run(k)
    <3>1. CASE k = 0
      BY <3>1, <1>6
    <3>2. CASE k # 0
      <4>1. k \in 1..l
        BY <3>2, <1>2
      <4> QED BY <4>1, <1>7, <3>2
    <3> QED BY <3>1, <3>2
  <2> QED BY <2>1
<1>9. f0 = F(f0)
  BY <1>8
<1> HIDE DEF f0
<1> DEFINE Found(k) == f0[k] \in D /\ (k >= 1 => Len(f0[k]) >= 1 /\ f0[k][1] = s[1][1])
           S == {k \in Nat : k <= l => Found(k)}
<1>10. Found(0)
  <2>1. f0[0] = <<>>
    BY <1>9, <1>2
  <2> QED BY <2>1, <1>4
<1>11. ASSUME NEW k \in Nat, k + 1 <= l, Found(k) PROVE Found(k + 1)
  <2>1. k + 1 \in 0..l /\ k + 1 # 0 /\ (k + 1) - 1 = k /\ k + 1 \in 1..l
    BY <1>11, <1>2
  <2>2. PICK u \in D : u = f0[k] /\ (k >= 1 => Len(u) >= 1 /\ u[1] = s[1][1])
    BY <1>11
  <2>3. PICK v \in D : v = run(k + 1) /\ Len(v) \in Nat \ {0} /\ v[1] = s[k+1][1]
    BY <2>1, <1>3
  <2>4. f0[k+1] = u \o v
    BY <2>1, <2>2, <2>3, <1>9
  <2>5. PICK a \in Nat, b \in Nat : a = Len(u) /\ b = Len(v) /\ b >= 1
    BY <2>3, LenProperties
  <2>6. /\ u \o v \in D /\ Len(u \o v) = a + b
        /\ \A i \in 1..(a + b) : (u \o v)[i] = IF i <= a THEN u[i] ELSE v[i - a]
    BY <2>5, ConcatProperties
  <2>7. 1 \in 1..(a + b) /\ a + b >= 1
    BY <2>5
  <2>8. (u \o v)[1] = s[1][1]
    <3>1. CASE k = 0
      <4>1. u = <<>>
        BY <3>1, <2>2, <1>9, <1>2
      <4>2. a = 0
        BY <4>1, <2>5
      <4> QED BY <4>2, <3>1, <2>3, <2>6, <2>7
    <3>2. CASE k # 0
      <4>1. k >= 1 /\ a >= 1
        BY <3>2, <2>2, <2>5
      <4> QED BY <4>1, <2>2, <2>6, <2>7
    <3> QED BY <3>1, <3>2
  <2> QED BY <2>4, <2>6, <2>7, <2>8
<1> HIDE DEF Found
<1>12. 0 \in S
  BY <1>10
<1>13. ASSUME NEW k \in Nat, k \in S PROVE k + 1 \in S
  <2> SUFFICES ASSUME k + 1 <= l PROVE Found(k + 1)
    OBVIOUS
  <2>1. k <= l
    BY <1>2
  <2> QED BY <2>1, <1>11, <1>13
<1> HIDE DEF S
<1>14. l \in S
  BY <1>12, <1>13, <1>2, Induct
<1>15. Found(l)
  BY <1>14, <1>2 DEF S
<1>16. l >= 1
  BY DEF l, s
<1>17. PICK u \in D : u = f0[l] /\ Len(u) >= 1 /\ u[1] = s[1][1]
  BY <1>15, <1>16 DEF Found
<1>18. u # <<>> /\ Head(u) = u[1]
  BY <1>17
<1> QED BY <1>1, <1>17, <1>18 DEF s

\* A share in ascending order is asked for in a query its holder takes, and the
\* answer begins with a chunk of the share.
LEMMA ShareFacts ==
  ASSUME NEW S, S \subseteq All, NEW a \in Seq(S), a # <<>>, Ascending(a),
         NEW cap \in Nat, Len(a) <= cap
  PROVE  LET words == FormatRanges(Coalesce(a))
         IN  /\ Accepts(words, Count, cap)
             /\ Indices(words) # <<>> /\ Head(Indices(words)) \in S
<1> DEFINE l == Len(a)
           t == Coalesce(a)
           words == FormatRanges(t)
           r == ParseRanges(words)
<1>1. l \in Nat /\ l >= 1 /\ (\A k \in 1..l : a[k] \in S) /\ a \in Seq(0..(Count-1))
  <2>1. l \in Nat \ {0}
    BY EmptySeq
  <2>2. a \in [1..l -> S]
    BY LenProperties
  <2>3. S \subseteq 0..(Count-1)
    BY DEF All
  <2> HIDE DEF l
  <2>4. a \in [1..l -> 0..(Count-1)]
    BY <2>2, <2>3
  <2>5. [1..l -> 0..(Count-1)] \subseteq Seq(0..(Count-1))
    BY <2>1, SeqDef
  <2> QED BY <2>1, <2>2, <2>4, <2>5
<1>2. /\ Ordered(t, Count) /\ Full(t) /\ Len(t) \in 1..MaxSpans
      /\ \A x \in Nat : Inside(t, x) => \E k \in 1..l : a[k] = x
  BY <1>1, CoalesceFacts
<1> HIDE DEF t
<1>3. Cardinality(Covered(t)) <= cap
  <2> DEFINE R == {a[k] : k \in 1..l}
             g == [k \in 1..l |-> a[k]]
  <2>8. l <= cap
    OBVIOUS
  <2> HIDE DEF l
  <2>a. l \in Nat
    BY <1>1
  <2>1. IsFiniteSet(1..l) /\ Cardinality(1..l) = l
    BY <2>a, FS_Interval
  <2>2. g \in Surjection(1..l, R)
    BY DEF Surjection
  <2>3. IsFiniteSet(R) /\ Cardinality(R) <= Cardinality(1..l)
    BY <2>1, <2>2, FS_Surjection
  <2>4. Covered(t) = {x \in Nat : Inside(t, x)}
    BY <1>2, CoveredIs DEF Ordered
  <2>5. Covered(t) \subseteq R
    BY <1>2, <2>4
  <2> HIDE DEF R
  <2>6. Cardinality(Covered(t)) <= Cardinality(R) /\ IsFiniteSet(Covered(t))
    BY <2>3, <2>5, FS_Subset
  <2>7. Cardinality(Covered(t)) \in Nat /\ Cardinality(R) \in Nat
    BY <2>3, <2>6, FS_CardinalityType
  <2> QED BY <2>1, <2>3, <2>6, <2>7, <2>8, <1>1
<1>4. /\ Accepts(words, Count, cap) /\ Ordered(r, Count) /\ Full(r) /\ Len(r) >= 1
      /\ \A x \in Nat : Inside(r, x) <=> Inside(t, x)
  BY <1>2, <1>3, SelectorFacts
<1> HIDE DEF r, words
<1>5. Indices(words) # <<>> /\ Head(Indices(words)) = r[1][1]
  BY <1>4, IndicesFacts DEF r
<1>6. r[1][1] \in S
  <2> DEFINE m == Len(r)
  <2>1. m \in Nat /\ \A k \in 1..m : r[k][1] \in Nat /\ r[k][2] \in Nat /\ r[k][1] < r[k][2]
    BY <1>4, SpanFacts DEF Ordered, Full
  <2>2. \A x : (\E k \in 1..m : r[k][1] <= x /\ x < r[k][2]) => Inside(r, x)
    BY DEF Inside
  <2>3. m >= 1
    BY <1>4
  <2> HIDE DEF m
  <2>4. PICK c \in Nat : r[1][1] = c /\ r[1][1] <= c /\ c < r[1][2] /\ 1 \in 1..m
    BY <2>1, <2>3
  <2>5. Inside(t, c)
    BY <2>2, <2>4, <1>4
  <2>6. PICK k \in 1..l : a[k] = c
    BY <2>5, <1>2
  <2> QED BY <2>4, <2>6, <1>1
<1> QED BY <1>4, <1>5, <1>6 DEF words, t

\* A query is at least one chunk long.
LEMMA BudgetType == Budget \in Nat /\ Budget >= 1
<1>1. Cap[1] \in Nat /\ Own \in Nat
  BY ServerAssumption
<1> QED BY <1>1 DEF Budget

\* The first elements of a list, up to max of them.
LEMMA TruncatedList ==
  ASSUME NEW S, NEW s \in Seq(S), NEW max \in Nat
  PROVE  LET t == Truncated(s, max)
         IN  /\ t \in Seq(S) /\ Len(t) = (IF Len(s) < max THEN Len(s) ELSE max)
             /\ \A k \in 1..Len(t) : k \in 1..Len(s) /\ t[k] = s[k]
<1> DEFINE l == Len(s)
           m == IF l < max THEN l ELSE max
<1>1. l \in Nat /\ \A k \in 1..l : s[k] \in S
  BY LenProperties, ElementOfSeq
<1>2. Truncated(s, max) = SubSeq(s, 1, m)
  BY DEF Truncated
<1> HIDE DEF l
<1>3. m \in Nat /\ m <= l
  BY <1>1
<1> HIDE DEF m
<1>4. \A k \in 1..m : k \in 1..l /\ s[k] \in S
  BY <1>1, <1>3
<1>5. Len(SubSeq(s, 1, m)) = IF 1 <= m THEN m - 1 + 1 ELSE 0
  BY <1>3, <1>4, SubSeqProperties
<1>6. \A k \in 1..(m - 1 + 1) : SubSeq(s, 1, m)[k] = s[1 + k - 1]
  BY <1>3, <1>4, SubSeqProperties
<1>7. SubSeq(s, 1, m) \in Seq(S)
  BY <1>3, <1>4, SubSeqProperties
<1>8. m - 1 + 1 = m /\ (IF 1 <= m THEN m - 1 + 1 ELSE 0) = m /\ \A k \in 1..m : 1 + k - 1 = k
  BY <1>3
<1>9. Len(SubSeq(s, 1, m)) = m /\ \A k \in 1..m : SubSeq(s, 1, m)[k] = s[k]
  BY <1>5, <1>6, <1>8
<1> QED BY <1>2, <1>4, <1>7, <1>9 DEF m, l

\* The missing chunks are listed in ascending order.
LEMMA MissingList ==
  ASSUME bits \subseteq All
  PROVE  /\ Missing \in Seq(All \ bits) /\ Ascending(Missing)
         /\ bits # All => Len(Missing) >= 1
<1> DEFINE all == [k \in 1..Count |-> k - 1]
           r == Missing
           n == Len(Missing)
           M == All \ bits
<1>1. all \in Seq(All) /\ Len(all) = Count /\ Count \in Nat
  <2>1. all \in [1..Count -> All]
    BY DEF All
  <2>2. [1..Count -> All] \subseteq Seq(All)
    BY SeqDef
  <2>3. \A g \in [1..Count -> All] : Len(g) = Count
    OBVIOUS
  <2> QED BY <2>1, <2>2, <2>3
<1>2. r = Retain(all, M)
  BY DEF Missing
<1> HIDE DEF r
<1>3. PICK p : r \in Seq(All) /\ Picks(all, M, Count, r, p)
  <2> HIDE DEF all, M
  <2> QED BY <1>1, <1>2, RetainFacts
<1>4. n \in Nat /\ DOMAIN r = 1..n
  BY <1>3, LenProperties DEF r
<1>5. /\ n <= Count /\ p \in [1..n -> 1..Count]
      /\ \A i \in 1..n : r[i] = all[p[i]] /\ all[p[i]] \in M
      /\ \A i, j \in 1..n : i < j => p[i] < p[j]
      /\ \A j \in 1..Count : all[j] \in M => \E i \in 1..n : p[i] = j
  BY <1>3 DEF Picks, r
<1>6. Len(r) = n
  BY DEF r
<1> HIDE DEF n
<1>7. ASSUME NEW i \in 1..n PROVE p[i] \in 1..Count /\ r[i] = p[i] - 1 /\ r[i] \in M
  <2>1. p[i] \in 1..Count
    BY <1>5
  <2> QED BY <2>1, <1>5
<1>8. r \in Seq(M)
  <2>1. r = [i \in 1..n |-> r[i]]
    BY <1>3, <1>6, LenProperties
  <2>2. r \in [1..n -> M]
    BY <2>1, <1>7
  <2>3. [1..n -> M] \subseteq Seq(M)
    BY <1>4, SeqDef
  <2> QED BY <2>2, <2>3
<1>9. ASSUME NEW i \in 1..n, NEW j \in 1..n, i < j PROVE r[i] < r[j]
  BY <1>5, <1>7, <1>9
<1>10. ASSUME bits # All PROVE n >= 1
  <2>1. PICK x \in All : x \notin bits
    BY <1>10
  <2>2. x + 1 \in 1..Count /\ all[x + 1] = x
    BY <2>1 DEF All
  <2>3. \E i \in 1..n : TRUE
    BY <2>1, <2>2, <1>5
  <2> QED BY <2>3, <1>4
<1> QED BY <1>6, <1>8, <1>9, <1>10 DEF r, n, Ascending

\* How often a chunk is dealt: twice near the end, if there are two holders.
LEMMA CopiesFacts ==
  ASSUME bits \subseteq All
  PROVE  /\ Copies \in 1..2 /\ (Copies = 2 => Len(Live) >= 2)
         /\ Len(Live) >= 2 /\ Copies = 1 => Len(Missing) >= 2
<1> DEFINE n == Len(Live)
           m == Len(Missing)
<1>1. n \in Nat /\ m \in Nat
  BY LiveFacts, MissingList, LenProperties
<1>2. Endgame <=> m <= 2 * (IF n > 2 THEN n ELSE 2)
  BY DEF Endgame
<1>3. Copies = IF Endgame /\ n >= 2 THEN 2 ELSE 1
  BY DEF Copies
<1> HIDE DEF n, m
<1>4. Copies \in 1..2 /\ (Copies = 2 => n >= 2) /\ (n >= 2 /\ Copies = 1 => m >= 2)
  BY <1>1, <1>2, <1>3
<1> QED BY <1>4 DEF n, m

\* An honest holder is live, first or second of the list.
LEMMA HonestPlace ==
  ASSUME NEW h \in Servers, Honest(h), rejects[h] = 0
  PROVE  \E p \in 1..Len(Live) : Live[p] = h /\ p <= 2
<1> DEFINE n == Len(Live)
<1>1. /\ n \in 0..H
      /\ \A i \in 1..n : Live[i] \in Trusted
      /\ \A i, j \in 1..n : i < j => Live[i] < Live[j]
      /\ \A g \in Trusted : \E i \in 1..n : Live[i] = g
  BY LiveFacts
<1>2. h \in Trusted /\ h <= 2 /\ Trusted \subseteq 1..H
  BY DEF Trusted, Honest
<1> HIDE DEF n
<1>3. PICK p \in 1..n : Live[p] = h
  BY <1>1, <1>2
<1>4. p <= 2
  <2> SUFFICES ASSUME p > 2 PROVE FALSE
    BY <1>1
  <2>1. 1 \in 1..n /\ 2 \in 1..n /\ 1 < 2 /\ 2 < p
    BY <1>1
  <2>2. Live[1] < Live[2] /\ Live[2] < h /\ Live[1] \in 1..H /\ Live[2] \in 1..H
    BY <2>1, <1>1, <1>2, <1>3
  <2> QED BY <2>2, <1>2
<1> QED BY <1>3, <1>4 DEF n

\* What a round deals with is settled when it begins.
LEMMA RoundFixed ==
  ASSUME rejects' = rejects, bits' = bits
  PROVE  Live' = Live /\ Missing' = Missing /\ Copies' = Copies /\ Budget' = Budget /\ All' = All
<1>1. Live' = Live
  BY LiveKept
<1>2. Missing' = Missing
  BY DEF Missing, All
<1> QED BY <1>1, <1>2 DEF Copies, Endgame, Budget, All

\* A product is not less than its second factor.
LEMMA Times == ASSUME NEW a \in Nat, NEW b \in Nat, a >= 1 PROVE a * b \in Nat /\ a * b >= b
<1>1. PICK c \in Nat : a = c + 1
  BY a - 1 \in Nat
<1>2. (c + 1) * b = c * b + b /\ c * b \in Nat
  OBVIOUS
<1> QED BY <1>1, <1>2

\* The dealing begins with nobody having anything.
LEMMA RoundDeals ==
  ASSUME NEW h \in Servers, IInv, Honest(h), rejects[h] = 0, bits # All,
         UNCHANGED <<bits, rejects>>, before' = Cardinality(bits),
         todo' = Truncated(Missing, Budget * Len(Live)),
         cursor' = 0, dealt' = 0, assign' = [g \in Servers |-> <<>>]
  PROVE  Dealing(h)'
<1> DEFINE n == Len(Live)
           m == Len(Missing)
           M == All \ bits
           l == Len(todo')
<1>1. Live' = Live /\ Copies' = Copies /\ Budget' = Budget /\ All' = All
  BY RoundFixed
<1>2. bits \subseteq All
  BY DEF IInv, Shape
<1>3. Missing \in Seq(M) /\ Ascending(Missing) /\ m >= 1
  BY <1>2, MissingList
<1>4. /\ Copies \in 1..2 /\ (Copies = 2 => n >= 2)
      /\ (n >= 2 /\ Copies = 1 => m >= 2)
  BY <1>2, CopiesFacts
<1>5. PICK p \in 1..n : Live[p] = h /\ p <= 2
  BY HonestPlace
<1>6. n \in Nat /\ m \in Nat
  BY LiveFacts, <1>3, LenProperties
<1>7. Budget \in Nat /\ Budget >= 1
  BY BudgetType
<1>8. Budget * n \in Nat /\ Budget * n >= n
  <2> HIDE DEF n
  <2> QED BY <1>6, <1>7, Times
<1>9. /\ todo' \in Seq(M) /\ l = (IF m < Budget * n THEN m ELSE Budget * n)
      /\ \A k \in 1..l : k \in 1..m /\ todo'[k] = Missing[k]
  <2> HIDE DEF M
  <2> QED BY <1>3, <1>8, TruncatedList
<1>10. \A i, j \in 1..m : i < j => Missing[i] < Missing[j]
  BY <1>3 DEF Ascending
<1>11. Ascending(todo')
  <2>1. ASSUME NEW i \in 1..l, NEW j \in 1..l, i < j PROVE todo'[i] < todo'[j]
    <3> HIDE DEF l, m
    <3> QED BY <2>1, <1>9, <1>10
  <2> QED BY <2>1 DEF Ascending
<1>12. l >= 1 /\ (p = 2 /\ Copies = 1 => l >= 2)
  <2>1. m >= 1
    BY <1>3
  <2> HIDE DEF l, m, n
  <2>2. PICK c \in Nat : c = Budget * n /\ c >= n /\ l = IF m < c THEN m ELSE c
    BY <1>8, <1>9
  <2> QED BY <2>1, <2>2, <1>4, <1>5, <1>6
<1>13. todo' # <<>>
  BY <1>12
<1>14. assign' \in [Servers -> Seq(M)] /\ Len(<<>>) = 0 /\ \A g \in Servers : assign'[g] = <<>>
  BY EmptySeq
<1>15. Level(0)'
  <2>1. ASSUME NEW i \in 1..n PROVE Live[i] \in Servers
    BY LiveFacts DEF Trusted
  <2>2. ASSUME NEW i \in 1..n PROVE ~(i <= 0)
    <3> HIDE DEF n
    <3> QED BY <1>6
  <2>3. 0 < Budget
    BY <1>7
  <2> QED BY <2>1, <2>2, <2>3, <1>1, <1>14 DEF Level
<1>16. Turn(h, p, 0)'
  <2>1. 0 < n /\ 0 < Copies /\ (p = 1 => 0 = p - 1)
    <3> HIDE DEF n
    <3> QED BY <1>4, <1>5, <1>6
  <2>2. p = 1 \/ p = 2
    <3> HIDE DEF n
    <3> QED BY <1>5, <1>6
  <2>3. Len(assign'[h]) = 0
    BY <1>14
  <2> QED BY <2>1, <2>2, <2>3, <1>1, <1>12, <1>15 DEF Turn
<1>17. Ascending(assign'[h]) /\ Len(assign'[h]) <= Budget
  BY <1>7, <1>14 DEF Ascending
<1>18. before' = Cardinality(bits') /\ \E L \in Nat : Turn(h, p, L)'
  BY <1>16
<1> HIDE DEF n
<1> QED BY <1>1, <1>5, <1>9, <1>11, <1>13, <1>14, <1>17, <1>18 DEF Dealing, n

\* One turn of the dealing.
LEMMA DealKeeps ==
  ASSUME NEW h \in Servers, IInv, AllClaimed, Dealing(h), Deal
  PROVE  Dealing(h)'
<1> DEFINE n == Len(Live)
           B == Budget
           C == Copies
           M == All \ bits
           x == Head(todo)
           l == Len(todo)
           who == Live[(cursor % n) + 1]
           room == x \in Claims[who] /\ Len(assign[who]) < B
           nd == IF room THEN dealt + 1 ELSE dealt
           over == nd >= C \/ ((cursor + 1) % n = 0 /\ nd = 0)
<1>1. todo # <<>> /\ UNCHANGED <<bits, rejects, before>>
  BY DEF Deal
<1>2. /\ assign' = (IF room THEN [assign EXCEPT ![who] = Append(@, x)] ELSE assign)
      /\ cursor' = (IF over /\ l = 1 THEN 0 ELSE (cursor + 1) % n)
      /\ dealt' = (IF over THEN 0 ELSE nd)
      /\ todo' = (IF over THEN Tail(todo) ELSE todo)
  BY Zenon DEF Deal
<1>3. Live' = Live /\ Copies' = Copies /\ Budget' = Budget /\ All' = All
  BY <1>1, RoundFixed
<1>4. /\ before = Cardinality(bits)
      /\ todo \in Seq(M) /\ Ascending(todo)
      /\ assign \in [Servers -> Seq(M)]
      /\ Ascending(assign[h]) /\ Len(assign[h]) <= B
  BY DEF Dealing
<1>5. PICK p \in 1..n : Live[p] = h /\ p <= 2 /\ \E L \in Nat : Turn(h, p, L)
  BY <1>1 DEF Dealing
<1>6. PICK L \in Nat : Turn(h, p, L)
  BY <1>5
<1>7. n \in Nat /\ B \in Nat /\ B >= 1 /\ C \in 1..2 /\ (C = 2 => n >= 2) /\ dealt \in 0..2 /\ cursor \in Nat
  BY LiveFacts, BudgetType, CopiesFacts DEF IInv, Shape, DealInv
<1>8. /\ cursor < n /\ dealt < C
      /\ \A i \in 1..n : LET turns == IF i <= cursor THEN L + 1 ELSE L
                         IN  Len(assign[Live[i]]) = IF turns < B THEN turns ELSE B
      /\ \A k \in 1..Len(assign[h]) :
           /\ assign[h][k] <= x
           /\ assign[h][k] = x => dealt = 1 /\ (L >= B \/ cursor = p % n)
      /\ assign[h] = <<>> => cursor = p - 1 \/ (dealt = 0 /\ (C = 1 => l >= 2))
  BY <1>6 DEF Turn, Level
<1>9. /\ \A i \in 1..n : Live[i] \in Servers
      /\ \A i, j \in 1..n : i < j => Live[i] < Live[j] /\ Live[i] # Live[j]
  <2>1. \A i \in 1..n : Live[i] \in 1..H
    BY LiveFacts DEF Trusted
  <2>2. \A i, j \in 1..n : i < j => Live[i] < Live[j]
    BY LiveFacts
  <2> HIDE DEF n
  <2> QED BY <2>1, <2>2
<1>10. /\ x \in M /\ x = todo[1] /\ l \in Nat /\ l >= 1
       /\ Tail(todo) \in Seq(M) /\ Len(Tail(todo)) = l - 1
       /\ \A i \in 1..(l - 1) : Tail(todo)[i] = todo[i+1]
  <2>1. x \in M /\ Tail(todo) \in Seq(M) /\ Len(Tail(todo)) = l - 1
    BY <1>1, <1>4, HeadTailProperties
  <2>2. \A i \in 1..Len(Tail(todo)) : Tail(todo)[i] = todo[i+1]
    BY <1>1, <1>4, HeadTailProperties
  <2>3. l \in Nat \ {0}
    BY <1>1, <1>4, EmptySeq
  <2>4. x = todo[1]
    BY <1>1, <1>4
  <2> HIDE DEF l, x
  <2> QED BY <2>1, <2>2, <2>3, <2>4
<1>11. M \subseteq Nat /\ M \subseteq All
  BY DEF All
<1>12. \A i, j \in 1..l : i < j => todo[i] < todo[j]
  BY <1>4 DEF Ascending
<1>13. \A g \in Servers : assign[g] \in Seq(M) /\ Len(assign[g]) \in Nat
  BY <1>4, LenProperties
<1> HIDE DEF n, B, C, M, x, l
<1>14. cursor % n = cursor /\ cursor + 1 \in 1..n
  BY <1>7, <1>8
<1>15. who = Live[cursor + 1] /\ who \in Servers
  BY <1>9, <1>14
<1>16. (cursor + 1) % n = (IF cursor + 1 = n THEN 0 ELSE cursor + 1)
  <2>1. CASE cursor + 1 = n
    <3>1. n % n = 0
      BY <1>7, <1>14
    <3> QED BY <2>1, <3>1
  <2>2. CASE cursor + 1 # n
    <3>1. cursor + 1 < n
      BY <2>2, <1>7, <1>14
    <3> QED BY <3>1, <1>7
  <2> QED BY <2>1, <2>2
<1>17. Len(assign[who]) = (IF L < B THEN L ELSE B) /\ (room <=> L < B)
  <2>1. ~(cursor + 1 <= cursor)
    BY <1>7
  <2>2. Len(assign[who]) = IF L < B THEN L ELSE B
    BY <2>1, <1>8, <1>14, <1>15
  <2>3. x \in Claims[who]
    BY <1>10, <1>11, <1>15 DEF AllClaimed
  <2> QED BY <2>2, <2>3, <1>7
<1> HIDE DEF who
<1>18. /\ \A g \in Servers : assign'[g] = IF room /\ g = who THEN Append(assign[g], x) ELSE assign[g]
       /\ assign' \in [Servers -> Seq(M)]
  <2>1. Append(assign[who], x) \in Seq(M)
    BY <1>10, <1>13, <1>15, AppendProperties
  <2> HIDE DEF room
  <2> QED BY <2>1, <1>2, <1>4, <1>15
<1>19. /\ Len(Append(assign[who], x)) = Len(assign[who]) + 1 /\ Append(assign[who], x) # <<>>
       /\ \A k \in 1..Len(assign[who]) : Append(assign[who], x)[k] = assign[who][k]
       /\ Append(assign[who], x)[Len(assign[who]) + 1] = x
  <2>1. PICK s \in Seq(M) : s = assign[who]
    BY <1>13, <1>15
  <2>2. PICK y \in M : y = x
    BY <1>10
  <2>3. /\ Len(Append(s, y)) = Len(s) + 1 /\ Append(s, y) # <<>>
        /\ \A k \in 1..Len(s) : Append(s, y)[k] = s[k]
        /\ Append(s, y)[Len(s) + 1] = y
    BY AppendProperties
  <2> QED BY <2>1, <2>2, <2>3, Zenon
<1>20. nd \in Nat /\ nd <= 2
  BY <1>7, <1>8
<1> HIDE DEF room
<1> DEFINE c2 == (cursor + 1) % n
           L2 == IF cursor + 1 = n THEN L + 1 ELSE L
<1>21. c2 \in Nat /\ c2 < n /\ L2 \in Nat /\ L2 >= L
  BY <1>7, <1>14, <1>16
\* The loads stay level.
<1>22. ASSUME NEW i \in 1..n
       PROVE  LET turns == IF i <= c2 THEN L2 + 1 ELSE L2
              IN  Len(assign'[Live[i]]) = IF turns < B THEN turns ELSE B
  <2> DEFINE turns == IF i <= cursor THEN L + 1 ELSE L
             turns2 == IF i <= c2 THEN L2 + 1 ELSE L2
             a == Len(assign[Live[i]])
             a2 == Len(assign'[Live[i]])
  <2>1. a = (IF turns < B THEN turns ELSE B) /\ Live[i] \in Servers
    BY <1>8, <1>9
  <2>2. i \in Nat /\ i >= 1 /\ i <= n
    BY <1>7
  <2>3. CASE i = cursor + 1
    <3>1. Live[i] = who
      BY <2>3, <1>15
    <3>2. a2 = IF room THEN a + 1 ELSE a
      BY <3>1, <1>15, <1>18, <1>19
    <3>3. turns = L /\ turns2 = L + 1
      BY <2>2, <2>3, <1>7, <1>14, <1>16
    <3> HIDE DEF a, a2, turns, turns2
    <3> QED BY <3>2, <3>3, <2>1, <1>7, <1>17 DEF a2, turns2
  <2>4. CASE i # cursor + 1
    <3>1. Live[i] # who
      BY <2>2, <2>4, <1>7, <1>9, <1>14, <1>15
    <3>2. a2 = a
      BY <3>1, <2>1, <1>18
    <3>3. turns2 = turns
      <4>1. CASE cursor + 1 = n
        BY <4>1, <2>2, <2>4, <1>7, <1>16
      <4>2. CASE cursor + 1 # n
        BY <4>2, <2>2, <2>4, <1>7, <1>16
      <4> QED BY <4>1, <4>2
    <3> HIDE DEF a, a2, turns, turns2
    <3> QED BY <3>2, <3>3, <2>1 DEF a2, turns2
  <2> QED BY <2>3, <2>4
<1> HIDE DEF c2, L2
<1>23. who = h <=> p = cursor + 1
  <2>1. ASSUME NEW i \in 1..n, NEW j \in 1..n, i # j PROVE Live[i] # Live[j]
    <3>1. i < j \/ j < i
      BY <2>1, <1>7
    <3> QED BY <3>1, <1>9
  <2>2. who = h => p = cursor + 1
    BY <2>1, <1>5, <1>14, <1>15
  <2> QED BY <2>2, <1>5, <1>15
\* A holder whose turn it is does not have the chunk at hand.
<1>24. ASSUME who = h, room, NEW k \in 1..Len(assign[h]) PROVE assign[h][k] < x
  <2>1. assign[h][k] <= x /\ (assign[h][k] = x => dealt = 1 /\ (L >= B \/ cursor = p % n))
    BY <1>8
  <2>2. assign[h][k] \in Nat /\ x \in Nat
    <3>1. assign[h][k] \in M
      BY <1>13, ElementOfSeq
    <3> QED BY <3>1, <1>10, <1>11
  <2>3. ASSUME assign[h][k] = x PROVE FALSE
    <3>1. dealt = 1 /\ cursor = (cursor + 1) % n
      BY <2>1, <2>3, <1>7, <1>17, <1>23, <1>24
    <3>2. n = 1
      BY <3>1, <1>7, <1>14, <1>16
    <3> QED BY <3>1, <3>2, <1>7, <1>8
  <2> QED BY <2>1, <2>2, <2>3
<1> DEFINE a == assign[h]
           b == assign'[h]
           la == Len(a)
<1>25. la \in Nat /\ la <= B /\ \A k \in 1..la : a[k] \in Nat /\ a[k] <= x
  <2>1. \A k \in 1..la : a[k] \in M
    BY <1>13, ElementOfSeq
  <2> QED BY <2>1, <1>4, <1>8, <1>11, <1>13
<1>26. \A i, j \in 1..la : i < j => a[i] < a[j]
  BY <1>4 DEF Ascending
<1>27. ASSUME who = h, room
       PROVE  /\ Len(b) = la + 1 /\ b # <<>> /\ b[la + 1] = x /\ la < B
              /\ \A k \in 1..la : b[k] = a[k] /\ a[k] < x
  <2>1. b = Append(a, x)
    BY <1>18, <1>27
  <2>2. la < B
    BY <1>7, <1>17, <1>27
  <2> QED BY <2>1, <2>2, <1>19, <1>24, <1>27
<1>28. ASSUME ~(who = h /\ room) PROVE b = a
  BY <1>18, <1>28
<1> HIDE DEF a, b, la
<1>29. Ascending(b) /\ Len(b) <= B /\ Len(b) \in Nat /\ \A k \in 1..Len(b) : b[k] \in Nat /\ b[k] <= x
  <2>1. CASE who = h /\ room
    <3>1. \A k \in 1..(la + 1) : k \in 1..la \/ k = la + 1
      BY <1>25
    <3>2. x \in Nat
      BY <1>10, <1>11
    <3>3. ASSUME NEW k \in 1..(la + 1) PROVE b[k] \in Nat /\ b[k] <= x
      BY <3>1, <3>2, <2>1, <1>25, <1>27
    <3>4. ASSUME NEW i \in 1..(la + 1), NEW j \in 1..(la + 1), i < j PROVE b[i] < b[j]
      <4>1. i \in 1..la
        BY <3>4, <1>25
      <4> QED BY <4>1, <3>1, <3>4, <2>1, <1>26, <1>27
    <3>5. Len(b) = la + 1 /\ la + 1 <= B
      BY <2>1, <1>7, <1>25, <1>27
    <3>6. Ascending(b)
      BY <3>4, <3>5 DEF Ascending
    <3> QED BY <3>3, <3>5, <3>6, <1>25
  <2>2. CASE ~(who = h /\ room)
    <3>1. b = a
      BY <2>2, <1>28
    <3> QED BY <3>1, <1>4, <1>25 DEF a, la
  <2> QED BY <2>1, <2>2
\* Who has nothing yet is next.
<1>30. ASSUME b = <<>> PROVE todo' # <<>> /\ c2 = p - 1
  <2>1. ~(who = h /\ room) /\ a = <<>>
    BY <1>27, <1>28, <1>30
  <2>2. Len(assign[h]) = 0
    BY <2>1 DEF a
  <2>3. L = 0 /\ ~(p <= cursor)
    <3> DEFINE turns == IF p <= cursor THEN L + 1 ELSE L
    <3>1. 0 = IF turns < B THEN turns ELSE B
      BY <2>2, <1>5, <1>8
    <3> QED BY <3>1, <1>7
  <2>4. room
    BY <2>3, <1>7, <1>17
  <2>5. p # cursor + 1
    BY <2>1, <2>4, <1>23
  <2>6. p = 2 /\ cursor = 0 /\ n >= 2
    BY <2>3, <2>5, <1>5, <1>7
  <2>7. dealt = 0 /\ (C = 1 => l >= 2)
    BY <2>1, <2>6, <1>8 DEF a
  <2>8. c2 = 1 /\ (cursor + 1) % n = 1
    BY <2>6, <1>7, <1>16 DEF c2
  <2>9. nd = 1
    BY <2>4, <2>7
  <2>10. CASE C = 1
    <3>1. todo' = Tail(todo)
      BY <2>9, <2>10, <1>2
    <3>2. Len(todo') = l - 1 /\ l - 1 >= 1
      BY <3>1, <2>7, <2>10, <1>10
    <3>3. todo' # <<>>
      BY <3>2
    <3> QED BY <3>3, <2>6, <2>8
  <2>11. CASE C = 2
    <3>1. ~over
      BY <2>8, <2>9, <2>11
    <3> QED BY <3>1, <2>6, <2>8, <1>1, <1>2
  <2> QED BY <2>10, <2>11, <1>7
<1> HIDE DEF nd
<1>31. todo' \in Seq(M) /\ Ascending(todo')
  <2>1. CASE over
    <3>1. todo' = Tail(todo) /\ Len(todo') = l - 1 /\ l - 1 \in Nat
      BY <2>1, <1>2, <1>10
    <3>2. ASSUME NEW i \in 1..(l-1), NEW j \in 1..(l-1), i < j PROVE todo'[i] < todo'[j]
      <4>1. i + 1 \in 1..l /\ j + 1 \in 1..l /\ i + 1 < j + 1
        BY <3>2, <1>10
      <4>2. todo'[i] = todo[i+1] /\ todo'[j] = todo[j+1]
        BY <3>1, <1>10
      <4> QED BY <4>1, <4>2, <1>12
    <3>3. Ascending(todo')
      BY <3>1, <3>2 DEF Ascending
    <3> QED BY <3>1, <3>3, <1>10
  <2>2. CASE ~over
    BY <2>2, <1>2, <1>4
  <2> QED BY <2>1, <2>2
<1>k. PICK K \in Nat : K = L2
  BY <1>21
<1>32. ASSUME todo' # <<>> PROVE Turn(h, p, K)'
  <2>1. cursor' = c2
    <3>1. CASE over /\ l = 1
      <4>1. todo' \in Seq(M) /\ Len(todo') = 0
        BY <3>1, <1>2, <1>10
      <4>2. todo' = <<>>
        BY <4>1, EmptySeq
      <4> QED BY <4>2, <1>32
    <3>2. CASE ~(over /\ l = 1)
      BY <3>2, <1>2 DEF c2
    <3> QED BY <3>1, <3>2
  <2>2. dealt' < C
    <3>1. CASE over
      BY <3>1, <1>2, <1>7
    <3>2. CASE ~over
      BY <3>2, <1>2, <1>7, <1>20
    <3> QED BY <3>1, <3>2
  <2>3. Level(K)'
    BY <2>1, <1>k, <1>3, <1>22 DEF Level, n, B
  <2>4. ASSUME NEW k \in 1..Len(b)
        PROVE  /\ b[k] <= Head(todo')
               /\ b[k] = Head(todo') => dealt' = 1 /\ (L2 >= B \/ c2 = p % n)
    <3>1. b[k] \in Nat /\ b[k] <= x /\ x \in Nat
      BY <1>10, <1>11, <1>29
    <3>2. CASE over
      <4>1. todo' = Tail(todo) /\ Len(todo') = l - 1
        BY <3>2, <1>2, <1>10
      <4>2. l - 1 >= 1
        <5> SUFFICES ASSUME l = 1 PROVE FALSE
          BY <1>10
        <5>1. todo' \in Seq(M) /\ Len(todo') = 0
          BY <4>1, <1>31
        <5> QED BY <5>1, <1>32, EmptySeq
      <4>3. 1 \in 1..(l-1) /\ 1 \in 1..l /\ 2 \in 1..l
        BY <4>2, <1>10
      <4>4. Head(todo') = todo'[1] /\ todo'[1] = todo[2]
        BY <4>1, <4>3, <1>10, <1>32
      <4>5. x < todo[2] /\ todo[2] \in Nat
        <5>1. todo \in Seq(M) /\ 2 \in 1..Len(todo)
          BY <4>3, <1>4 DEF l
        <5>2. todo[2] \in M
          BY <5>1, ElementOfSeq
        <5>3. todo[1] < todo[2]
          BY <4>3, <1>12
        <5> QED BY <5>2, <5>3, <1>10, <1>11
      <4> QED BY <4>4, <4>5, <3>1
    <3>3. CASE ~over
      <4>1. todo' = todo /\ Head(todo') = x /\ dealt' = nd /\ nd < C
        BY <3>3, <1>2, <1>7, <1>20 DEF x
      <4>2. ASSUME b[k] = x PROVE dealt' = 1 /\ (L2 >= B \/ c2 = p % n)
        <5>1. CASE who = h /\ room
          <6>1. nd = dealt + 1
            BY <5>1 DEF nd
          <6>2. c2 = p % n
            BY <5>1, <1>23 DEF c2
          <6> QED BY <6>1, <6>2, <4>1, <1>7
        <5>2. CASE ~(who = h /\ room)
          <6>1. k \in 1..Len(assign[h]) /\ assign[h][k] = x
            BY <5>2, <4>2, <1>28 DEF a
          <6>2. dealt = 1 /\ (L >= B \/ cursor = p % n)
            BY <6>1, <1>8
          <6>3. ~room /\ nd = 1
            BY <6>2, <4>1, <1>7 DEF nd
          <6>4. L >= B
            BY <6>3, <1>7, <1>17
          <6> QED BY <6>3, <6>4, <4>1, <1>7, <1>21
        <5> QED BY <5>1, <5>2
      <4> QED BY <4>1, <4>2, <3>1
    <3> QED BY <3>2, <3>3
  <2>5. b = <<>> => c2 = p - 1
    BY <1>30
  <2> QED BY <2>1, <2>2, <2>3, <2>4, <2>5, <1>3, <1>k, <1>21 DEF Turn, b, n, B, C
<1>33. todo' = <<>> => b # <<>>
  BY <1>30
<1>34. todo' # <<>> => \E q \in 1..Len(Live) : Live[q] = h /\ q <= 2 /\ \E J \in Nat : Turn(h, q, J)'
  BY <1>5, <1>32 DEF n
<1> QED BY <1>1, <1>3, <1>4, <1>18, <1>29, <1>31, <1>33, <1>34 DEF Dealing, b, B, M

\* The share of h is asked for.
LEMMA AskOwes ==
  ASSUME NEW h \in Servers, IInv, Honest(h), sidecar = bits, Dealing(h), Ask
  PROVE  Owes(h)'
<1> DEFINE a == assign[h]
           M == All \ bits
           words == FormatRanges(Coalesce(a))
<1>1. todo = <<>> /\ a # <<>> /\ Ascending(a) /\ Len(a) <= Budget /\ a \in Seq(M)
  BY DEF Ask, Dealing
<1>2. job'[h] = Asking(words) /\ sidecar' = bits
  BY <1>1 DEF Ask
<1>3. Cap[h] \in Nat /\ Len(a) <= Cap[h]
  <2>1. Cap[h] \in Nat /\ Cap[h] >= Budget
    BY ServerAssumption DEF Honest
  <2>2. Len(a) \in Nat /\ Budget \in Nat
    BY <1>1, BudgetType, LenProperties
  <2>3. Len(a) <= Budget
    BY <1>1
  <2> QED BY <2>1, <2>2, <2>3
<1>4. M \subseteq All
  OBVIOUS
<1> HIDE DEF a, M
<1>5. /\ Accepts(words, Count, Cap[h])
      /\ Indices(words) # <<>> /\ Head(Indices(words)) \in M
  BY <1>1, <1>3, <1>4, ShareFacts
<1> HIDE DEF words
<1>6. job'[h][1] = "asking" /\ job'[h][2] = words
  BY <1>2 DEF Asking
<1>7. All \ sidecar' = M
  BY <1>2 DEF M
<1>8. /\ Accepts(job'[h][2], Count, Cap[h])
      /\ Indices(job'[h][2]) # <<>> /\ Head(Indices(job'[h][2])) \in All \ sidecar'
  BY <1>5, <1>6, <1>7
<1> QED BY <1>6, <1>8 DEF Owes, All

\* The honest holders stay the same.
LEMMA FaultyKept == ASSUME [Next]_vars PROVE faulty' = faulty
BY DEF Next, Call, Client, Round, Stopped, Deal, Ask, RecvCancelled, RoundEnd, Finish, RequestCancel, Crash, DestAppears,
       Answer, Take, Reply, Broken, Lose, Forge, OnlyJob, Server, Fault, vars, world

\* No query is under way where the locals are forgotten.
LEMMA IdleHonest ==
  ASSUME NEW h \in Servers
  PROVE  DOMAIN Idle = Servers /\ Idle[h] = NoQuery /\ NoQuery[1] = "none"
BY DEF Idle, NoQuery

\* An end of the call leaves an honest holder as it is.
LEMMA SteadyForgotten ==
  ASSUME NEW h \in Servers, Steady(h), Forgotten, UNCHANGED serverVars
  PROVE  Steady(h)'
<1>1. job' = Idle /\ rejects' = [g \in Servers |-> 0]
  BY DEF Forgotten
<1>2. DOMAIN job' = Servers /\ job'[h][1] # "serving"
  BY <1>1, IdleHonest
<1>3. rejects' \in [Servers -> Nat] /\ rejects'[h] = 0
  BY <1>1
<1> QED BY <1>2, <1>3 DEF Steady, serverVars

\* So does what touches neither queries nor servers.
LEMMA SteadyQuiet ==
  ASSUME NEW h \in Servers, Steady(h), UNCHANGED <<job, rejects, serverVars>>
  PROVE  Steady(h)'
BY DEF Steady, serverVars

\* The queries are sent.
LEMMA SteadyAsk == ASSUME NEW h \in Servers, Steady(h), Ask PROVE Steady(h)'
<1>1. DOMAIN job' = Servers
  BY DEF Ask
<1>2. job'[h] = NoQuery \/ \E words : job'[h] = Asking(words)
  BY DEF Ask
<1>3. job'[h][1] # "serving"
  BY <1>2 DEF NoQuery, Asking
<1>4. UNCHANGED <<rejects, serverVars>>
  BY DEF Ask, world
<1> QED BY <1>1, <1>3, <1>4 DEF Steady, serverVars

\* A holder answers: h with the blob that is wanted.
LEMMA SteadyAnswer ==
  ASSUME NEW h \in Servers, NEW g \in Servers, Steady(h), Answer(g)
  PROVE  Steady(h)'
<1>1. PICK j : OnlyJob(g, j) /\ (g = h /\ j[1] = "serving" => j[3] = Target)
  <2>0. NoQuery[1] = "none" /\ \A u, v : Serving(u, v)[3] = v
    BY DEF NoQuery, Serving
  <2>1. CASE Take(g)
    <3>1. PICK u : OnlyJob(g, IF Admits(g, job[g][2], Count) THEN Serving(u, registry[g].root) ELSE NoQuery)
      BY <2>1 DEF Take
    <3>2. registry[h].root = Target
      BY DEF Steady
    <3> QED BY <3>1, <3>2, <2>0
  <2>2. CASE Reply(g)
    <3>1. PICK u : OnlyJob(g, IF u = <<>> THEN NoQuery ELSE Serving(u, job[g][3]))
      BY <2>2 DEF Reply
    <3>2. g = h => job[g][3] = Target
      BY <2>2 DEF Reply, Steady
    <3> QED BY <3>1, <3>2, <2>0
  <2>3. CASE Broken(g)
    BY <2>0, <2>3 DEF Broken
  <2> QED BY <2>1, <2>2, <2>3 DEF Answer
<1>2. job' = [job EXCEPT ![g] = j] /\ UNCHANGED serverVars
  BY <1>1 DEF OnlyJob, world
<1>3. DOMAIN job' = Servers /\ (job'[h][1] = "serving" => job'[h][3] = Target)
  <2>1. DOMAIN job = Servers /\ (job[h][1] = "serving" => job[h][3] = Target)
    BY DEF Steady
  <2>2. CASE g = h
    BY <2>1, <2>2, <1>1, <1>2
  <2>3. CASE g # h
    BY <2>1, <2>3, <1>2
  <2> QED BY <2>2, <2>3
<1>4. rejects' \in [Servers -> Nat] /\ rejects'[h] = 0
  <2>1. rejects \in [Servers -> Nat] /\ rejects[h] = 0
    BY DEF Steady
  <2>2. CASE UNCHANGED rejects
    BY <2>1, <2>2
  <2>3. CASE ~UNCHANGED rejects
    <3>1. Reply(g) /\ job[g][3] # Target /\ job[g][1] = "serving"
      BY <2>3 DEF Answer, Take, Reply, Broken
    <3>2. g # h
      BY <3>1 DEF Steady
    <3>3. rejects' = [rejects EXCEPT ![g] = IF @ < RejectLimit THEN @ + 1 ELSE @]
      BY <3>1 DEF Reply
    <3>4. (IF rejects[g] < RejectLimit THEN rejects[g] + 1 ELSE rejects[g]) \in Nat
      BY <2>1
    <3> QED BY <3>2, <3>3, <3>4, <2>1
  <2> QED BY <2>2, <2>3
<1> QED BY <1>2, <1>3, <1>4 DEF Steady, serverVars

\* What the others do does not reach it.
LEMMA SteadyOthers ==
  ASSUME NEW h \in Servers, NEW g \in Servers, h \notin faulty, Steady(h),
         Lose(g) \/ Forge(g) \/ Server(g)
  PROVE  Steady(h)'
<1>1. g # h
  BY DEF Lose, Forge, Server
<1>2. CASE Lose(g) \/ Forge(g)
  <2>1. PICK j : job' = [job EXCEPT ![g] = j] /\ UNCHANGED serverVars
    BY <1>2 DEF Lose, Forge, OnlyJob, world
  <2>2. rejects' \in [Servers -> Nat] /\ rejects'[h] = 0
    <3>1. rejects \in [Servers -> Nat] /\ rejects[h] = 0
      BY DEF Steady
    <3>2. UNCHANGED rejects \/ rejects' = [rejects EXCEPT ![g] = @ + 1]
      BY <1>2 DEF Lose, Forge
    <3>3. rejects[g] + 1 \in Nat
      BY <3>1
    <3> QED BY <3>1, <3>2, <3>3, <1>1
  <2>3. DOMAIN job' = DOMAIN job /\ (h \in DOMAIN job => job'[h] = job[h])
    BY <2>1, <1>1
  <2> QED BY <2>1, <2>2, <2>3 DEF Steady, serverVars
<1>3. CASE Server(g)
  <2>1. UNCHANGED clientVars /\
        (\/ (\E v \in Versions : Change(g, v)) \/ RegisterHash(g) \/ Unregister(g)
         \/ Hashed(g) \/ FinishRegister(g))
    BY <1>3 DEF Server
  <2>2. UNCHANGED <<job, rejects>>
    BY <2>1 DEF clientVars
  <2>3. CASE \E v \in Versions : Change(g, v)
    BY <2>2, <2>3, <1>1 DEF Change, Steady
  <2>4. CASE RegisterHash(g)
    BY <2>2, <2>4, <1>1 DEF RegisterHash, Steady
  <2>5. CASE Unregister(g)
    BY <2>2, <2>5, <1>1 DEF Unregister, Steady
  <2>6. CASE Hashed(g)
    <3>1. PICK v : obao' = [obao EXCEPT ![g] = v] /\ UNCHANGED <<source, registry>>
      BY <2>6 DEF Hashed
    <3> QED BY <3>1, <2>2, <1>1 DEF Steady
  <2>7. CASE FinishRegister(g)
    <3>1. /\ UNCHANGED <<source, obao>>
          /\ registry' = registry \/ \E v : registry' = [registry EXCEPT ![g] = v]
      BY <2>7 DEF FinishRegister
    <3>2. DOMAIN registry' = DOMAIN registry /\ (h \in DOMAIN registry => registry'[h] = registry[h])
      BY <3>1, <1>1
    <3> QED BY <3>1, <3>2, <2>2 DEF Steady
  <2> QED BY <2>1, <2>3, <2>4, <2>5, <2>6, <2>7
<1> QED BY <1>2, <1>3

\* A call that has ended otherwise than for want of holders.
LEMMA ServedEnd ==
  ASSUME NEW h \in Servers, Steady(h)', pc' = "idle", outcome' # "incomplete"
  PROVE  Served(h)'
BY DEF Served

\* Steps that leave the rounds and the query of h alone.
LEMMA ServedQuiet ==
  ASSUME NEW h \in Servers, Served(h), Steady(h)',
         UNCHANGED <<pc, outcome, sidecar, bits, before, todo, cursor, dealt, assign>>,
         job'[h] = job[h], pc = "deal" => rejects' = rejects
  PROVE  Served(h)'
<1>1. Owes(h)' <=> Owes(h)
  BY DEF Owes, All
<1>2. pc = "deal" => Dealing(h)'
  <2> SUFFICES ASSUME pc = "deal" PROVE Dealing(h)'
    OBVIOUS
  <2>1. Live' = Live /\ Copies' = Copies /\ Budget' = Budget /\ All' = All
    BY RoundFixed
  <2>2. \A p, L : Turn(h, p, L)' <=> Turn(h, p, L)
    BY <2>1 DEF Turn, Level
  <2>3. Dealing(h)
    BY DEF Served
  <2> QED BY <2>1, <2>2, <2>3 DEF Dealing
<1> QED BY <1>1, <1>2 DEF Served

\* An answer: if it is the first of h in this round, it brings a chunk.
LEMMA AnswerServes ==
  ASSUME NEW h \in Servers, NEW g \in Servers, IInv, Served(h), Steady(h)', Answer(g)
  PROVE  Served(h)'
<1>1. pc = "recv"
  BY Queried, OnlyWhileWaiting DEF Answer
<1>2. UNCHANGED <<pc, outcome, sidecar, before>>
  BY DEF Answer, Take, Reply, Broken, OnlyJob
<1>3. bits \subseteq bits'
  BY DEF Answer, Take, Reply, Broken, Accept
<1>4. Steady(h) /\ sidecar \subseteq bits /\ before = Cardinality(sidecar) /\ (bits # sidecar \/ Owes(h))
  BY <1>1 DEF Served
<1>5. bits' # sidecar \/ Owes(h)'
  <2>1. CASE bits # sidecar
    BY <2>1, <1>3, <1>4
  <2>2. CASE Owes(h) /\ g # h
    <3>1. PICK j : job' = [job EXCEPT ![g] = j]
      BY DEF Answer, Take, Reply, Broken, OnlyJob
    <3>2. job'[h] = job[h]
      BY <3>1, <2>2, <1>4 DEF Steady
    <3> QED BY <3>2, <2>2, <1>2 DEF Owes, All
  <2>3. CASE Owes(h) /\ Take(h)
    <3>1. /\ job[h][1] = "asking" /\ Accepts(job[h][2], Count, Cap[h])
          /\ Indices(job[h][2]) # <<>> /\ Head(Indices(job[h][2])) \in All \ sidecar
      BY <2>3 DEF Owes, Take
    <3>2. Admits(h, job[h][2], Count)
      <4>1. registry[h] = [root |-> Target, print |-> Target] /\ source[h] = Target
        BY <1>4 DEF Steady
      <4>2. registry[h] # None
        BY <4>1, ServerAssumption
      <4> QED BY <4>1, <4>2, <3>1 DEF Admits
    <3>3. job' = [job EXCEPT ![h] = Serving(Indices(job[h][2]), registry[h].root)] /\ DOMAIN job = Servers
      BY <2>3, <3>2, <1>4 DEF Take, OnlyJob, Steady
    <3>4. job'[h] = Serving(Indices(job[h][2]), registry[h].root)
      BY <3>3
    <3>5. job'[h][1] = "serving" /\ job'[h][2] = Indices(job[h][2])
      BY <3>4 DEF Serving
    <3> QED BY <3>1, <3>5, <1>2 DEF Owes, All
  <2>4. CASE Owes(h) /\ Reply(h)
    <3>1. job[h][2] # <<>> /\ Head(job[h][2]) \in All \ sidecar /\ job[h][3] = Target
      BY <2>4, <1>4 DEF Owes, Reply, Steady
    <3>2. Accept(Head(job[h][2]))
      BY <2>4, <3>1 DEF Reply
    <3>3. Head(job[h][2]) \in bits'
      BY <3>1, <3>2 DEF Accept
    <3> QED BY <3>1, <3>3
  <2>5. CASE Owes(h) /\ Broken(h)
    <3>1. Encodes(h, job[h][3])
      BY <2>5, <1>4 DEF Encodes, Broken, Steady
    <3> QED BY <2>5, <3>1 DEF Broken
  <2>6. g = h => Take(h) \/ Reply(h) \/ Broken(h)
    BY DEF Answer
  <2> QED BY <2>1, <2>2, <2>3, <2>4, <2>5, <2>6, <1>4
<1> QED BY <1>1, <1>2, <1>3, <1>4, <1>5 DEF Served

\* A round with an honest holder has brought something.
LEMMA RoundEndServes ==
  ASSUME NEW h \in Servers, IInv, Served(h), RoundEnd
  PROVE  Served(h)'
<1>1. pc = "recv" /\ job = Idle /\ UNCHANGED world
  BY DEF RoundEnd
<1>2. Steady(h) /\ sidecar \subseteq bits /\ before = Cardinality(sidecar) /\ (bits # sidecar \/ Owes(h)) /\ outcome # "incomplete"
  BY <1>1 DEF Served
<1>3. ~Owes(h)
  BY <1>1, IdleHonest DEF Owes
<1>4. Cardinality(bits) # before
  <2>1. bits \subseteq All
    BY DEF IInv, Shape
  <2>2. IsFiniteSet(0..(Count-1))
    BY FS_Interval
  <2>3. IsFiniteSet(bits)
    BY <2>1, <2>2, FS_Subset DEF All
  <2>4. Cardinality(bits) = Cardinality(sidecar) => bits = sidecar
    BY <2>3, <1>2, FS_Subset
  <2> QED BY <2>4, <1>2, <1>3
<1>5. pc' = "top" /\ UNCHANGED <<outcome, bits, rejects, before, job>> /\ sidecar' = bits
  BY <1>4 DEF RoundEnd
<1>6. Steady(h)'
  BY <1>1, <1>2, <1>5, SteadyQuiet DEF world
<1> QED BY <1>2, <1>5, <1>6 DEF Served

\* The top of a round: there is somebody to ask.
LEMMA RoundServes ==
  ASSUME NEW h \in Servers, IInv, Honest(h), Served(h), Round
  PROVE  Served(h)'
<1>1. pc = "top" /\ Steady(h) /\ sidecar = bits /\ outcome # "incomplete" /\ rejects[h] = 0
  BY DEF Round, Served, Steady
<1>2. CASE /\ bits = All /\ pc' = "finish"
           /\ UNCHANGED <<outcome, before, bits, synced, sidecar, todo, cursor, dealt, assign,
                          rejects, noProgress, job, dest, cancel, written, world>>
  <2>1. Steady(h)'
    BY <1>1, <1>2, SteadyQuiet DEF world
  <2> QED BY <1>1, <1>2, <2>1 DEF Served
<1>3. CASE Stopped("cancelled", TRUE)
  <2>1. Forgotten /\ outcome' = "cancelled" /\ UNCHANGED serverVars
    BY <1>3 DEF Stopped, world
  <2>2. Steady(h)' /\ pc' = "idle"
    BY <2>1, <1>1, SteadyForgotten DEF Forgotten
  <2> QED BY <2>1, <2>2, ServedEnd
<1>4. CASE Live = <<>>
  <2>1. PICK p \in 1..Len(Live) : TRUE
    BY <1>1, HonestPlace
  <2>2. Len(Live) = 0
    BY <1>4
  <2> QED BY <2>1, <2>2
<1>5. CASE /\ bits # All /\ ~cancel /\ Live # <<>>
           /\ pc' = "deal" /\ before' = Cardinality(bits)
           /\ todo' = Truncated(Missing, Budget * Len(Live))
           /\ cursor' = 0 /\ dealt' = 0 /\ assign' = [g \in Servers |-> <<>>]
           /\ UNCHANGED <<outcome, bits, synced, sidecar, rejects, noProgress, job, dest,
                          cancel, written, world>>
  <2>1. Steady(h)'
    BY <1>1, <1>5, SteadyQuiet DEF world
  <2>2. Dealing(h)'
    BY <1>1, <1>5, RoundDeals
  <2> QED BY <1>1, <1>5, <2>1, <2>2 DEF Served
<1> QED BY <1>2, <1>3, <1>4, <1>5 DEF Round

\* Every action.
LEMMA ServedStep ==
  ASSUME NEW h \in Servers, IInv, AllClaimed, Honest(h), Served(h), [Next]_vars
  PROVE  Served(h)'
<1>0. Steady(h) /\ outcome # "incomplete" /\ h \notin faulty
  BY DEF Served, Honest
<1>1. CASE Call
  <2>1. Steady(h)'
    BY <1>0, <1>1, SteadyQuiet DEF Call, world
  <2>2. \/ pc' = "idle" /\ outcome' = "exists"
        \/ pc' = "top" /\ outcome' = None /\ sidecar' = bits'
    <3>1. CASE Refuse /\ dest # None
      BY <1>1, <3>1 DEF Call
    <3>2. CASE ~(Refuse /\ dest # None)
      BY <1>1, <3>2 DEF Call
    <3> QED BY <3>1, <3>2
  <2>3. None # "incomplete"
    BY MarkerAssumption DEF Outcomes
  <2> QED BY <2>1, <2>2, <2>3 DEF Served
<1>2. CASE Deal
  <2>1. pc = "deal" /\ UNCHANGED <<pc, outcome, sidecar, bits, rejects, job, serverVars>>
    BY <1>2 DEF Deal, world
  <2>2. Steady(h)'
    BY <1>0, <2>1, SteadyQuiet
  <2>3. Dealing(h)'
    BY <1>2, <2>1, DealKeeps DEF Served
  <2> QED BY <2>1, <2>2, <2>3 DEF Served
<1>3. CASE Ask
  <2>1. pc = "deal" /\ pc' = "recv" /\ UNCHANGED <<outcome, sidecar, bits, before>>
    BY <1>3 DEF Ask
  <2>2. sidecar = bits /\ Dealing(h) /\ before = Cardinality(bits)
    BY <2>1 DEF Served, Dealing
  <2>3. Steady(h)' /\ Owes(h)'
    BY <1>0, <1>3, <2>2, SteadyAsk, AskOwes
  <2> QED BY <1>0, <2>1, <2>2, <2>3 DEF Served
<1>4. CASE RecvCancelled \/ Finish \/ Crash
  <2>1. Forgotten /\ UNCHANGED serverVars /\ outcome' \in {"cancelled", "exists", "ok", "crashed"}
    BY <1>4 DEF RecvCancelled, Stopped, Finish, Crash, world
  <2>2. Steady(h)' /\ pc' = "idle"
    BY <1>0, <2>1, SteadyForgotten DEF Forgotten
  <2> QED BY <2>1, <2>2, ServedEnd
<1>5. CASE RequestCancel \/ DestAppears \/ UNCHANGED vars
  <2>1. UNCHANGED <<pc, outcome, sidecar, bits, before, todo, cursor, dealt, assign, job, rejects, serverVars>>
    BY <1>5 DEF RequestCancel, DestAppears, vars, clientVars, world
  <2>2. Steady(h)'
    BY <1>0, <2>1, SteadyQuiet
  <2> QED BY <2>1, <2>2, ServedQuiet
<1>6. ASSUME NEW g \in Servers, Answer(g) PROVE Served(h)'
  BY <1>0, <1>6, SteadyAnswer, AnswerServes
<1>7. ASSUME NEW g \in Servers, Lose(g) \/ Forge(g) PROVE Served(h)'
  <2>1. Steady(h)' /\ g # h
    BY <1>0, <1>7, SteadyOthers DEF Lose, Forge
  <2>2. PICK j : OnlyJob(g, j) /\ UNCHANGED bits /\ job[g] # NoQuery
    BY <1>7 DEF Lose, Forge
  <2>3. pc = "recv"
    BY <2>2, OnlyWhileWaiting
  <2>4. job'[h] = job[h]
    BY <1>0, <2>1, <2>2 DEF OnlyJob, Steady
  <2>5. UNCHANGED <<pc, outcome, sidecar, bits, before, todo, cursor, dealt, assign>>
    BY <2>2 DEF OnlyJob
  <2> QED BY <2>1, <2>3, <2>4, <2>5, ServedQuiet
<1>8. ASSUME NEW g \in Servers, Server(g) PROVE Served(h)'
  <2>1. Steady(h)'
    BY <1>0, <1>8, SteadyOthers
  <2>2. UNCHANGED <<pc, outcome, sidecar, bits, before, todo, cursor, dealt, assign, job, rejects>>
    BY <1>8 DEF Server, clientVars
  <2> QED BY <2>1, <2>2, ServedQuiet
<1> QED BY <1>1, <1>2, <1>3, <1>4, <1>5, <1>6, <1>7, <1>8, RoundServes, RoundEndServes DEF Next, Client

\* One holder that stays as it is, among the first two of the list and no
\* stricter than the budget taken from the first one's manifest, suffices for
\* fill_holes_striped: no call gives up as Incomplete, for every number of
\* holders and chunks and whatever the others do.
THEOREM HonestHolderSuffices == Spec => []HonestSuffices
<1>1. Init => HonestInv
  <2> SUFFICES ASSUME Init, NEW h \in Servers PROVE Served(h)
    BY DEF HonestInv
  <2>1. pc = "idle" /\ outcome # "incomplete" /\ job = Idle
    BY MarkerAssumption DEF Init, Outcomes
  <2>2. /\ DOMAIN source = Servers /\ source[h] = Target
        /\ DOMAIN obao = Servers /\ obao[h] = Target
        /\ DOMAIN registry = Servers /\ registry[h] = [root |-> Target, print |-> Target]
    BY DEF Init, ServerInit
  <2>3. rejects \in [Servers -> Nat] /\ rejects[h] = 0
    BY DEF Init
  <2>4. DOMAIN job = Servers /\ job[h][1] # "serving"
    BY <2>1, IdleHonest
  <2> QED BY <2>1, <2>2, <2>3, <2>4 DEF Served, Steady
<1>2. IInv /\ HonestInv /\ [Next]_vars => HonestInv'
  <2> SUFFICES ASSUME IInv, HonestInv, [Next]_vars, AllClaimed, NEW h \in Servers, Honest(h)' PROVE Served(h)'
    BY DEF HonestInv, AllClaimed, All
  <2>1. Honest(h)
    BY FaultyKept DEF Honest, Budget
  <2>2. Served(h)
    BY <2>1 DEF HonestInv
  <2> QED BY <2>1, <2>2, ServedStep
<1>3. HonestInv => HonestSuffices
  BY DEF HonestInv, AllClaimed, Honest, Served, HonestSuffices
<1>. QED
  BY <1>1, <1>2, <1>3, Invariance, PTL DEF Spec

-----------------------------------------------------------------------------
(* Refinement *)

\* A call that ends with an error is a Stop of Transfer, whether it has saved
\* the bitfield or lost what it had not saved.
LEMMA ForgottenStops ==
  ASSUME IInv, pc # "idle", Forgotten, outcome' \in Outcomes \ {"ok"},
         \/ synced' = synced \cup bits /\ sidecar' = bits
         \/ UNCHANGED <<synced, sidecar>>
  PROVE  T!Stop
<1>1. bits # None
  BY MarkerAssumption DEF IInv, Shape
<1>2. outcome' # None /\ outcome' # "ok" /\ pc' = "idle" /\ bits' = {}
  BY MarkerAssumption DEF Forgotten
<1>. QED
  BY <1>1, <1>2 DEF T!Stop, IInv, PartInv

\* A download that stops maps to one that stops.
LEMMA StoppedStops ==
  ASSUME IInv, pc # "idle", NEW why \in Outcomes \ {"ok"}, NEW saved \in BOOLEAN,
         Stopped(why, saved)
  PROVE  T!Stop
<1>1. written = synced \cup bits
  BY DEF IInv, PartInv
<1>2. CASE saved
  BY <1>1, <1>2, ForgottenStops DEF Stopped
<1>3. CASE ~saved
  BY <1>3, ForgottenStops DEF Stopped
<1>. QED
  BY <1>2, <1>3

\* Every step of a striped download is one of Transfer or leaves its state
\* alone.
LEMMA RefinementStep == IInv /\ [Next]_vars => [T!Next]_(T!vars)
<1> SUFFICES ASSUME IInv, [Next]_vars PROVE T!Next \/ UNCHANGED T!vars
  OBVIOUS
<1>0. bits # None /\ written # None
  BY MarkerAssumption DEF IInv, Shape
<1>1. CASE UNCHANGED <<outcome, bits, synced, sidecar>> /\ (pc = "idle" <=> pc' = "idle")
  BY <1>1 DEF T!vars
<1>2. CASE outcome # "ok" /\ Call
  <2>1. pc = "idle" /\ outcome # "ok"
    BY <1>2 DEF Call
  <2>2. CASE Refuse /\ dest # None
    <3>1. T!Refused
      BY <1>2, <2>1, <2>2, MarkerAssumption DEF Call, T!Refused, Outcomes
    <3>. QED
      BY <3>1 DEF T!Next
  <2>3. CASE ~(Refuse /\ dest # None)
    <3>1. T!Begin
      BY <1>2, <2>1, <2>3 DEF Call, T!Begin
    <3>. QED
      BY <3>1 DEF T!Next
  <2>. QED
    BY <2>2, <2>3
<1>3. CASE Round
  <2>1. CASE Stopped("cancelled", TRUE) \/ Stopped("incomplete", FALSE)
    BY <1>3, <2>1, StoppedStops DEF Round, Outcomes, T!Next
  <2>2. CASE ~(Stopped("cancelled", TRUE) \/ Stopped("incomplete", FALSE))
    BY <1>1, <1>3, <2>2 DEF Round
  <2>. QED
    BY <2>1, <2>2
<1>4. CASE Deal \/ Ask
  BY <1>1, <1>4 DEF Deal, Ask
<1>5. CASE RecvCancelled
  BY <1>5, StoppedStops DEF RecvCancelled, Outcomes, T!Next
<1>6. CASE RoundEnd
  <2>1. pc = "recv" /\ synced' = synced \cup bits /\ sidecar' = bits
    BY <1>6 DEF RoundEnd, IInv, PartInv
  <2>2. CASE Forgotten /\ outcome' = "incomplete"
    BY <2>1, <2>2, ForgottenStops DEF Outcomes, T!Next
  <2>3. CASE pc' = "top" /\ UNCHANGED <<outcome, bits>>
    <3>1. T!Persist
      BY <1>0, <2>1, <2>3 DEF T!Persist
    <3>. QED
      BY <3>1 DEF T!Next
  <2>. QED
    BY <1>6, <2>2, <2>3 DEF RoundEnd
<1>7. CASE Finish
  <2>1. pc = "finish" /\ bits = All /\ written = synced /\ bits \subseteq written /\ Forgotten
    BY <1>7 DEF Finish, IInv, PartInv
  <2>2. CASE Refuse /\ dest # None
    <3>1. synced' = synced \cup bits /\ sidecar' = bits /\ outcome' = "exists"
      BY <1>7, <2>1, <2>2 DEF Finish
    <3>. QED
      BY <2>1, <3>1, ForgottenStops DEF Outcomes, T!Next
  <2>3. CASE ~(Refuse /\ dest # None)
    <3>1. T!Finish
      BY <1>7, <2>1, <2>3, MarkerAssumption DEF Finish, Forgotten, Outcomes, T!Finish
    <3>. QED
      BY <3>1 DEF T!Next
  <2>. QED
    BY <2>2, <2>3
<1>8. CASE RequestCancel \/ DestAppears \/ UNCHANGED vars
  BY <1>1, <1>8 DEF RequestCancel, DestAppears, vars, clientVars
<1>9. CASE Crash
  BY <1>9, ForgottenStops DEF Crash, Outcomes, T!Next
<1>10. ASSUME NEW h \in Servers, Take(h) \/ Broken(h) \/ Lose(h) \/ Forge(h) \/ Server(h)
       PROVE  T!Next \/ UNCHANGED T!vars
  BY <1>1, <1>10 DEF Take, Broken, Lose, Forge, Server, OnlyJob, clientVars
<1>11. ASSUME NEW h \in Servers, Reply(h) PROVE T!Next \/ UNCHANGED T!vars
  <2>1. /\ UNCHANGED <<pc, outcome, synced, sidecar>> /\ job[h] # NoQuery
        /\ UNCHANGED bits \/ Accept(Head(job[h][2]))
    BY <1>11, Queried DEF Reply, OnlyJob
  <2>2. pc = "recv"
    BY <2>1, OnlyWhileWaiting
  <2>3. bits \subseteq bits' /\ bits' \subseteq All
    BY <2>1 DEF Accept, IInv, Shape
  <2>4. T!Gain
    BY <2>1, <2>2, <2>3 DEF T!Gain
  <2>. QED
    BY <2>4 DEF T!Next
<1>. QED
  BY <1>2, <1>3, <1>4, <1>5, <1>6, <1>7, <1>8, <1>9, <1>10, <1>11 DEF Next, Client, Answer

\* fill_holes_striped keeps Transfer's promise: the sidecar names only chunks
\* that are synced in the part, at every step, over cancellations, crashes and
\* resumed calls, and a call ends well only with every chunk verified.  Assumed:
\* no crash inside the start or the end of a call (client.rs: 804-807, 828-834).
THEOREM StripingImplements == Spec => ImplementsTransfer
<1>1. Init => T!Init
  BY MarkerAssumption DEF Init, T!Init, Outcomes
<1>. QED
  BY <1>1, Invariance, RefinementStep, PTL DEF Spec, ImplementsTransfer, T!Spec

-----------------------------------------------------------------------------
(* What Transfer promises *)

\* The strengthening: what is held and what is on the disk are chunks of the
\* blob, so that a call may resume from a record.
HeldInv == bits \subseteq All /\ synced \subseteq All /\ T!Backed

\* HeldInv is inductive in Transfer: the record moves only together with the
\* disk (Persist, Stop), and what is held grows by chunks of the blob only.
LEMMA HeldStep == HeldInv /\ [T!Next]_(T!vars) => HeldInv'
<1> DEFINE kept == IF sidecar = None THEN {} ELSE sidecar
<1> SUFFICES ASSUME HeldInv, T!Next \/ UNCHANGED T!vars PROVE HeldInv'
  OBVIOUS
<1>0. T!Backed <=> kept \subseteq synced
  BY DEF T!Backed
<1>1. CASE T!Begin
  BY <1>0, <1>1 DEF T!Begin, HeldInv, T!Backed
<1>2. CASE T!Refused
  BY <1>2 DEF T!Refused, HeldInv, T!Backed
<1>3. CASE T!Gain
  BY <1>3 DEF T!Gain, HeldInv, T!Backed
<1>4. CASE T!Persist
  BY <1>4 DEF T!Persist, HeldInv, T!Backed
<1>5. CASE T!Finish
  BY <1>5 DEF T!Finish, HeldInv, T!Backed
<1>6. CASE T!Stop
  BY <1>6 DEF T!Stop, HeldInv, T!Backed
<1>7. CASE UNCHANGED T!vars
  BY <1>7 DEF T!vars, HeldInv, T!Backed
<1>. QED
  BY <1>1, <1>2, <1>3, <1>4, <1>5, <1>6, <1>7 DEF T!Next

\* The record on disk (resume.rs: "Bits never claim un-synced data") names only
\* chunks that survive a crash: from Transfer alone, so that whatever
\* implements it inherits the promise, and therefore in every state of a
\* striped call and between calls, if no crash falls inside the start or the end
\* of one (client.rs: 804-807, 828-834), one step each in Striping.
THEOREM RecordBacked == (T!Spec => []T!Backed) /\ (Spec => []T!Backed)
<1>1. T!Init => HeldInv
  BY DEF T!Init, HeldInv, T!Backed
<1>2. HeldInv => T!Backed
  BY DEF HeldInv
<1>3. T!Spec => []T!Backed
  BY <1>1, <1>2, HeldStep, PTL DEF T!Spec
<1>. QED
  BY <1>3, StripingImplements, PTL DEF ImplementsTransfer
=============================================================================
