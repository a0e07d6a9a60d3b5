-------------------------- MODULE TreeStoreProofs --------------------------
(***************************************************************************)
(* Proofs about TreeStore for every set of chunks, snapshots, tags and     *)
(* downloads.                                                              *)
(***************************************************************************)
EXTENDS TreeStore, TLAPS

\* The store only ever grows or loses the named chunk.
LEMMA StoreOps ==
  ASSUME TypeOK, NEW c \in Chunks
  PROVE  /\ Put(c) => store' \in [Chunks -> {"good", "rot", "absent"}]
         /\ Remove(c) => store' \in [Chunks -> {"good", "rot", "absent"}]
  BY DEF TypeOK, Put, Remove

\* Replacing the locals of one download by well-typed ones keeps dl's type.
LEMMA GoesType ==
  ASSUME TypeOK, NEW d \in Downloads, NEW r \in Download, Goes(d, r)
  PROVE  dl' \in [Downloads -> Download]
  BY DEF TypeOK, Goes

\* A call that ends leaves an idle record, and puts on the blocking pool.
LEMMA EndsType ==
  ASSUME TypeOK, NEW d \in Downloads, NEW res \in Results, Ends(d, res)
  PROVE  /\ dl' \in [Downloads -> Download]
         /\ loose' \subseteq Chunks
  <1>1. Idle(res) \in Download
    BY DEF Idle, Download, Steps
  <1>2. dl[d] \in Download
    BY DEF TypeOK
  <1>3. Running(d) \subseteq Chunks
    BY <1>2 DEF Running, Download
  <1> QED BY <1>1, <1>3, GoesType DEF Ends, TypeOK

\* A step of a download that replaces its locals and leaves the store alone.
LEMMA QuietStep ==
  ASSUME TypeOK, NEW d \in Downloads, NEW r \in Download, Goes(d, r),
         UNCHANGED <<store, loose, Others>>
  PROVE  TypeOK'
  BY GoesType DEF TypeOK, Others

\* A group that is over leaves a download's record.
LEMMA GroupOverType ==
  ASSUME NEW r \in Download PROVE GroupOver(r) \in Download
  BY DEF GroupOver, Download, Steps

\* Every step of a download keeps the types.
LEMMA DlType ==
  ASSUME TypeOK, NEW d \in Downloads, DlStep(d) \/ DlCall(d)
  PROVE  TypeOK'
  <1>1. dl[d] \in Download /\ dl[d].want \subseteq Chunks /\ dl[d].todo \subseteq Chunks
        /\ dl[d].missing \subseteq Chunks /\ dl[d].group \subseteq Chunks
        /\ dl[d].pending \subseteq Chunks /\ dl[d].left \subseteq Chunks
        /\ dl[d].asked \subseteq Chunks /\ dl[d].putting \subseteq Chunks /\ dl[d].res \in Results
    BY DEF TypeOK, Download
  <1>2. CASE DlCall(d)
    <2>1. PICK s \in Snapshots, k \in Kinds : DlIndex(d, s, k)
      BY <1>2 DEF DlCall
    <2>2. PICK w \in SUBSET Needs[s] :
            Goes(d, [Idle("good") EXCEPT !.kind = k, !.want = w, !.todo = w,
                                         !.pc = IF k = "tree" THEN "protect" ELSE "probe"])
      BY <2>1 DEF DlIndex
    <2>3. w \subseteq Chunks
      BY StoreAssumption
    <2> DEFINE r == [Idle("good") EXCEPT !.kind = k, !.want = w, !.todo = w,
                                         !.pc = IF k = "tree" THEN "protect" ELSE "probe"]
    <2>4. r \in Download
      BY <2>3 DEF Idle, Download, Steps, Results
    <2>5. UNCHANGED <<store, loose, Others>>
      BY <2>1 DEF DlIndex
    <2> QED BY <2>2, <2>4, <2>5, QuietStep
  <1>3. CASE DlProtect(d)
    <2> DEFINE r == [dl[d] EXCEPT !.pc = "probe", !.tag = TRUE]
    <2>1. r \in Download
      BY <1>1 DEF Download, Steps
    <2> QED BY <1>3, <2>1, QuietStep DEF DlProtect
  <1>4. ASSUME NEW c \in Chunks, DlProbe(d, c) PROVE TypeOK'
    <2> DEFINE missing == IF Has(c) THEN dl[d].missing ELSE dl[d].missing \cup {c}
               last == dl[d].todo = {c}
               r == [dl[d] EXCEPT
                       !.missing = missing,
                       !.todo = IF last /\ missing = {} THEN dl[d].want ELSE dl[d].todo \ {c},
                       !.pc = IF ~last THEN "probe"
                              ELSE IF missing = {} THEN "read"
                              ELSE IF BatchSize > 0 THEN "rounds" ELSE "single"]
    <2>0. missing \subseteq Chunks
      BY <1>1 DEF Download
    <2>1. r \in Download
      <3>1. (IF last /\ missing = {} THEN dl[d].want ELSE dl[d].todo \ {c}) \subseteq Chunks
        BY <1>1 DEF Download
      <3> HIDE DEF missing, last
      <3>. QED
        BY <1>1, <2>0, <3>1 DEF Download, Steps
    <2>2. Goes(d, r) /\ UNCHANGED <<store, loose, Others>>
      BY <1>4 DEF DlProbe
    <2> QED BY <2>1, <2>2, QuietStep
  <1>5. CASE DlRound(d)
    <2>1. CASE dl[d].missing = {}
               /\ Goes(d, [dl[d] EXCEPT !.pc = "single", !.missing = dl[d].left, !.left = {}])
      <3> DEFINE r == [dl[d] EXCEPT !.pc = "single", !.missing = dl[d].left, !.left = {}]
      <3>1. r \in Download
        BY <1>1 DEF Download, Steps
      <3> QED BY <1>5, <2>1, <3>1, QuietStep DEF DlRound
    <2>2. ASSUME NEW g \in SUBSET dl[d].missing,
                 Goes(d, [dl[d] EXCEPT !.pc = "batch", !.group = g,
                                       !.missing = dl[d].missing \ g])
          PROVE  TypeOK'
      <3> DEFINE r == [dl[d] EXCEPT !.pc = "batch", !.group = g, !.missing = dl[d].missing \ g]
      <3>1. r \in Download
        BY <1>1 DEF Download, Steps
      <3> QED BY <1>5, <2>2, <3>1, QuietStep DEF DlRound
    <2> QED BY <1>5, <2>1, <2>2 DEF DlRound
  <1>6. ASSUME NEW c \in Chunks, DlReply(d, c) PROVE TypeOK'
    <2> DEFINE pending == dl[d].pending \cup {c}
               r == [dl[d] EXCEPT !.group = dl[d].group \ {c}, !.pending = pending,
                       !.pc = IF Cardinality(pending) >= Flush THEN "flush" ELSE "batch"]
    <2>1. r \in Download
      BY <1>1 DEF Download, Steps
    <2>2. Goes(d, r) /\ UNCHANGED <<store, loose, Others>>
      BY <1>6 DEF DlReply
    <2> QED BY <2>1, <2>2, QuietStep
  <1>7. CASE DlRoundEnd(d)
    <2> DEFINE r == [dl[d] EXCEPT !.pc = "last"]
    <2>1. r \in Download
      BY <1>1 DEF Download, Steps
    <2> QED BY <1>1, <1>7, <2>1, GroupOverType, QuietStep DEF DlRoundEnd
  <1>8. ASSUME NEW c \in Chunks, DlFlush(d, c) PROVE TypeOK'
    <2> DEFINE r == [dl[d] EXCEPT !.pending = dl[d].pending \ {c}]
               b == [r EXCEPT !.pc = "batch"]
    <2>1. r \in Download /\ b \in Download /\ GroupOver(r) \in Download
      <3>1. r \in Download
        BY <1>1 DEF Download
      <3>2. b \in Download
        BY <3>1 DEF Download, Steps
      <3> QED BY <3>1, <3>2, GroupOverType
    <2>2. dl' \in [Downloads -> Download]
      BY <1>8, <2>1, GoesType DEF DlFlush
    <2> QED BY <1>8, <2>2, StoreOps DEF DlFlush, TypeOK, Others
  <1>9. ASSUME NEW c \in Chunks, DlSpawn(d, c) PROVE TypeOK'
    <2> DEFINE r == [dl[d] EXCEPT !.missing = dl[d].missing \ {c}, !.asked = dl[d].asked \cup {c}]
    <2>1. r \in Download
      BY <1>1 DEF Download
    <2> QED BY <1>9, <2>1, QuietStep DEF DlSpawn
  <1>10. ASSUME NEW c \in Chunks, DlFetched(d, c) PROVE TypeOK'
    <2> DEFINE r == [dl[d] EXCEPT !.asked = dl[d].asked \ {c}, !.putting = dl[d].putting \cup {c}]
    <2>1. r \in Download
      BY <1>1 DEF Download
    <2> QED BY <1>10, <2>1, QuietStep DEF DlFetched
  <1>11. ASSUME NEW c \in Chunks, DlPut(d, c) PROVE TypeOK'
    <2> DEFINE r == [dl[d] EXCEPT !.putting = dl[d].putting \ {c}]
    <2>1. r \in Download
      BY <1>1 DEF Download
    <2>2. dl' \in [Downloads -> Download]
      BY <1>11, <2>1, GoesType DEF DlPut
    <2> QED BY <1>11, <2>2, StoreOps DEF DlPut, TypeOK, Others
  <1>12. CASE DlResolved(d)
    <2> DEFINE r == [dl[d] EXCEPT !.pc = "read", !.todo = dl[d].want]
    <2>1. r \in Download
      BY <1>1 DEF Download, Steps
    <2> QED BY <1>12, <2>1, QuietStep DEF DlResolved
  <1>13. ASSUME NEW c \in Chunks, DlRead(d, c) PROVE TypeOK'
    <2> DEFINE r == IF store[c] = "rot" THEN [dl[d] EXCEPT !.res = "spoilt"] ELSE dl[d]
               q == [r EXCEPT !.todo = dl[d].todo \ {c}]
               h == [dl[d] EXCEPT !.pc = "heal", !.todo = {c}]
    <2>1. r \in Download /\ r.res \in Results
      BY <1>1 DEF Download, Results
    <2>2. q \in Download
      BY <1>1, <2>1 DEF Download
    <2>3. h \in Download
      BY <1>1 DEF Download, Steps
    <2>4. CASE Ends(d, r.res)
      BY <1>13, <2>1, <2>4, EndsType DEF DlRead, TypeOK, Others
    <2>5. CASE Ends(d, "failed")
      BY <1>13, <2>5, EndsType DEF DlRead, TypeOK, Others, Results
    <2>6. CASE Goes(d, q) /\ UNCHANGED loose
      BY <1>13, <2>2, <2>6, GoesType DEF DlRead, TypeOK, Others
    <2>7. CASE Goes(d, h) /\ UNCHANGED loose
      BY <1>13, <2>3, <2>7, GoesType DEF DlRead, TypeOK, Others
    <2> QED BY <1>13, <2>4, <2>5, <2>6, <2>7 DEF DlRead
  <1>14. ASSUME NEW c \in Chunks, DlHeal(d, c) PROVE TypeOK'
    BY <1>14, StoreOps, EndsType DEF DlHeal, TypeOK, Others, Results
  <1>15. CASE DlCancelled(d)
    BY <1>15, EndsType DEF DlCancelled, TypeOK, Others, Results
  <1> QED BY <1>2, <1>3, <1>4, <1>5, <1>6, <1>7, <1>8, <1>9, <1>10, <1>11, <1>12, <1>13,
             <1>14, <1>15 DEF DlStep

\* A producer that has passed a chunk is still a producer.
LEMMA BuiltType ==
  ASSUME TypeOK, NEW c \in Chunks, bd.snap \in Snapshots
  PROVE  Built(c) \in Builder
  BY StoreAssumption DEF TypeOK, Built, Builder

\* A builder that is not idle has a snapshot, and a chunk to put when it puts.
BuilderInv == /\ bd.pc # "idle" => bd.snap \in Snapshots
              /\ bd.pc = "put" => bd.cur \in Chunks
TypeInv == TypeOK /\ BuilderInv

\* Every step of the producer keeps the types.
LEMMA BuildType ==
  ASSUME TypeInv,
         BuildStep \/ BuildFail \/ \E s \in Snapshots : BuildStart(s) \/ Unregister(s)
  PROVE  TypeInv'
  <1>1. bd \in Builder /\ bd.todo \subseteq Chunks
    BY DEF TypeInv, TypeOK, Builder
  <1>2. ASSUME NEW s \in Snapshots, BuildStart(s) PROVE TypeInv'
    <2>1. Needs[s] \subseteq Chunks
      BY StoreAssumption
    <2>2. bd' \in Builder /\ bd'.snap = s /\ bd'.pc = "has"
      BY <1>2, <2>1 DEF BuildStart, NoBuild, Builder
    <2> QED BY <1>2, <2>2 DEF BuildStart, TypeInv, TypeOK, BuilderInv
  <1>3. ASSUME NEW c \in Chunks, BuildHas(c) PROVE TypeInv'
    <2>1. bd.snap \in Snapshots
      BY <1>3 DEF BuildHas, TypeInv, BuilderInv
    <2>2. Built(c) \in Builder /\ Built(c).snap \in Snapshots /\ Built(c).pc # "put"
      BY <1>1, <2>1, BuiltType DEF TypeInv, Built, Builder
    <2> DEFINE b == [bd EXCEPT !.pc = "put", !.cur = c]
    <2>3. b \in Builder /\ b.snap \in Snapshots /\ b.cur = c
      BY <1>1, <2>1 DEF Builder
    <2>4. bd' \in Builder /\ bd'.snap \in Snapshots /\ (bd'.pc = "put" => bd'.cur \in Chunks)
      BY <1>3, <2>2, <2>3 DEF BuildHas
    <2> QED BY <1>3, <2>4 DEF BuildHas, TypeInv, TypeOK, BuilderInv
  <1>4. CASE BuildPut
    <2>1. bd.snap \in Snapshots /\ bd.cur \in Chunks
      BY <1>4 DEF BuildPut, TypeInv, BuilderInv
    <2>2. Built(bd.cur) \in Builder /\ Built(bd.cur).snap \in Snapshots /\ Built(bd.cur).pc # "put"
      BY <1>1, <2>1, BuiltType DEF TypeInv, Built, Builder
    <2>3. store' \in [Chunks -> {"good", "rot", "absent"}]
      BY <1>4, <2>1, StoreOps DEF BuildPut, TypeInv
    <2> QED BY <1>4, <2>2, <2>3 DEF BuildPut, TypeInv, TypeOK, BuilderInv
  <1>5. NoBuild \in Builder /\ NoBuild.pc = "idle"
    BY DEF NoBuild, Builder
  <1>6. CASE Register
    BY <1>5, <1>6 DEF Register, TypeInv, TypeOK, BuilderInv
  <1>7. CASE BuildFail
    BY <1>5, <1>7 DEF BuildFail, TypeInv, TypeOK, BuilderInv
  <1>8. ASSUME NEW s \in Snapshots, Unregister(s) PROVE TypeInv'
    BY <1>8 DEF Unregister, TypeInv, TypeOK, BuilderInv
  <1> QED BY <1>2, <1>3, <1>4, <1>6, <1>7, <1>8 DEF BuildStep

\* Every step of a tag or of the sweep keeps the types.
LEMMA SweepType ==
  ASSUME TypeOK, TagStep \/ SweepStart \/ SweepStep \/ SweepFail
  PROVE  TypeOK'
  <1>1. sw \in Sweep /\ sw.live \subseteq Chunks /\ sw.names \subseteq TagNames
        /\ sw.todo \subseteq Chunks /\ sw.extra \subseteq Snapshots
    BY DEF TypeOK, Sweep
  <1>2. NoSweep \in Sweep
    BY DEF NoSweep, Sweep
  <1>3. Present \subseteq Chunks
    BY DEF Present
  <1>4. CASE TagStep
    BY <1>4 DEF TagStep, TagSet, TagRemove, TypeOK
  <1>5. CASE SweepStart
    <2>1. sw' \in Sweep
      BY <1>5 DEF SweepStart, NoSweep, Sweep, TypeOK
    <2> QED BY <1>5, <2>1 DEF SweepStart, TypeOK
  <1>6. ASSUME NEW t \in TagNames, SweepTag(t) PROVE TypeOK'
    <2>1. tags[t] # None => Needs[tags[t]] \subseteq Chunks
      BY StoreAssumption DEF TypeOK
    <2> DEFINE live == IF tags[t] = None THEN sw.live ELSE sw.live \cup Needs[tags[t]]
               r == [sw EXCEPT !.names = sw.names \ {t}, !.live = live]
    <2>2. live \subseteq Chunks
      BY <1>1, <2>1
    <2> HIDE DEF live
    <2>3. r \in Sweep
      BY <1>1, <2>2 DEF Sweep
    <2>4. sw' = r
      BY <1>6 DEF SweepTag, live
    <2> QED BY <1>6, <2>3, <2>4 DEF SweepTag, TypeOK
  <1>7. CASE SweepTemps
    <2> DEFINE live == sw.live \cup TempLive \cup UNION {Needs[s] : s \in sw.extra}
               r == [sw EXCEPT !.pc = "list", !.live = live]
    <2>1. TempLive \subseteq Chunks
      BY DEF TempLive, TypeOK, Download
    <2>2. live \subseteq Chunks
      BY <1>1, <2>1, StoreAssumption
    <2> HIDE DEF live
    <2>3. r \in Sweep
      BY <1>1, <2>2 DEF Sweep
    <2>4. sw' = r
      BY <1>7 DEF SweepTemps, live
    <2> QED BY <1>7, <2>3, <2>4 DEF SweepTemps, TypeOK
  <1>8. CASE SweepList
    <2> DEFINE r == [sw EXCEPT !.pc = "remove", !.todo = Present]
    <2>1. r \in Sweep
      BY <1>1, <1>3 DEF Sweep
    <2> QED BY <1>2, <1>8, <2>1 DEF SweepList, TypeOK
  <1>9. ASSUME NEW c \in Chunks, SweepChunk(c) PROVE TypeOK'
    <2> DEFINE r == [sw EXCEPT !.todo = sw.todo \ {c}]
    <2>1. r \in Sweep
      BY <1>1 DEF Sweep
    <2>2. sw' \in Sweep
      BY <1>2, <1>9, <2>1 DEF SweepChunk
    <2>3. store' \in [Chunks -> {"good", "rot", "absent"}]
      BY <1>9, StoreOps DEF SweepChunk, TypeOK
    <2> QED BY <1>9, <2>2, <2>3 DEF SweepChunk, TypeOK
  <1>10. CASE SweepFail
    BY <1>2, <1>10 DEF SweepFail, TypeOK
  <1> QED BY <1>4, <1>5, <1>6, <1>7, <1>8, <1>9, <1>10 DEF SweepStep

\* So do scrubs, late puts, rot, cancellation and dropped calls.
LEMMA OtherType ==
  ASSUME TypeOK,
         \/ ScrubStart \/ ScrubStep
         \/ \E c \in Chunks : LoosePut(c) \/ Rot(c)
         \/ \E d \in Downloads : Cancel(d) \/ DlAbandon(d) \/ DlNotFound(d)
  PROVE  TypeOK'
  <1>1. scrub \in Scrub /\ scrub.todo \subseteq Chunks
    BY DEF TypeOK, Scrub
  <1>2. CASE ScrubStart
    BY <1>2 DEF ScrubStart, NoScrub, Present, Scrub, TypeOK
  <1>3. ASSUME NEW c \in Chunks, ScrubRead(c) PROVE TypeOK'
    BY <1>1, <1>3 DEF ScrubRead, Scrub, TypeOK
  <1>4. CASE ScrubRemove
    <2>1. scrub.bad \in Chunks
      BY <1>1, <1>4 DEF ScrubRemove, Scrub
    <2>2. scrub' \in Scrub
      BY <1>1, <1>4 DEF ScrubRemove, Scrub
    <2> QED BY <1>4, <2>1, <2>2, StoreOps DEF ScrubRemove, TypeOK
  <1>5. ASSUME NEW c \in Chunks, LoosePut(c) PROVE TypeOK'
    BY <1>5, StoreOps DEF LoosePut, TypeOK
  <1>6. ASSUME NEW c \in Chunks, Rot(c) PROVE TypeOK'
    BY <1>6, StoreAssumption DEF Rot, TypeOK
  <1>7. ASSUME NEW d \in Downloads, Cancel(d) PROVE TypeOK'
    <2> DEFINE r == [dl[d] EXCEPT !.cancelled = TRUE]
    <2>0. dl[d] \in Download
      BY DEF TypeOK
    <2>1. r \in Download
      BY <2>0 DEF Download
    <2> QED BY <1>7, <2>1, QuietStep DEF Cancel
  <1>8. ASSUME NEW d \in Downloads, DlAbandon(d) \/ DlNotFound(d) PROVE TypeOK'
    BY <1>8, EndsType DEF DlAbandon, DlNotFound, TypeOK, Others, Results
  <1> QED BY <1>2, <1>3, <1>4, <1>5, <1>6, <1>7, <1>8 DEF ScrubStep

\* Every step keeps the types.
LEMMA TypeStep ==
  ASSUME TypeInv, [Next]_vars
  PROVE  TypeInv'
  <1>1. ASSUME NEW d \in Downloads, DlCall(d) \/ DlStep(d) PROVE UNCHANGED bd
    BY <1>1 DEF DlCall, DlStep, DlIndex, DlProtect, DlProbe, DlRound, DlReply, DlRoundEnd,
         DlFlush, DlSpawn, DlFetched, DlPut, DlResolved, DlRead, DlHeal, DlCancelled, Others
  <1>2. ASSUME NEW d \in Downloads, DlCall(d) \/ DlStep(d) PROVE TypeInv'
    BY <1>1, <1>2, DlType DEF TypeInv, BuilderInv
  <1>3. CASE TagStep \/ SweepStart \/ SweepStep \/ SweepFail
    <2>1. UNCHANGED bd
      BY <1>3 DEF TagStep, TagSet, TagRemove, SweepStart, SweepStep, SweepTag, SweepTemps,
           SweepList, SweepChunk, SweepFail
    <2> QED BY <1>3, <2>1, SweepType DEF TypeInv, BuilderInv
  <1>4. CASE \/ ScrubStart \/ ScrubStep
             \/ \E c \in Chunks : LoosePut(c) \/ Rot(c)
             \/ \E d \in Downloads : Cancel(d) \/ DlAbandon(d) \/ DlNotFound(d)
    <2>1. UNCHANGED bd
      BY <1>4 DEF ScrubStart, ScrubStep, ScrubRead, ScrubRemove, LoosePut, Rot, Cancel, DlAbandon,
           DlNotFound, Others
    <2> QED BY <1>4, <2>1, OtherType DEF TypeInv, BuilderInv
  <1>5. CASE UNCHANGED vars
    BY <1>5 DEF vars, TypeInv, TypeOK, BuilderInv
  <1> QED BY <1>2, <1>3, <1>4, <1>5, BuildType DEF Next, Environment

\* The initial state has them.
LEMMA TypeInit ==
  ASSUME Init PROVE TypeInv
  <1>1. Idle("failed") \in Download /\ NoBuild \in Builder /\ NoSweep \in Sweep /\ NoScrub \in Scrub
    BY DEF Idle, Download, Steps, Results, NoBuild, Builder, NoSweep, Sweep, NoScrub, Scrub
  <1> QED BY <1>1, StoreAssumption DEF Init, TypeInv, TypeOK, BuilderInv, NoBuild

(***************************************************************************)
(* The store, the downloads, the producer, the tags and the sweep keep     *)
(* their shape, whatever interleaves (TypeOK).                             *)
(***************************************************************************)
THEOREM TreeTypeCorrect == Spec => []TypeOK
  <1>1. TypeInv => TypeOK
    BY DEF TypeInv
  <1> QED BY <1>1, TypeInit, TypeStep, PTL DEF Spec

----------------------------------------------------------------------------
(* What a step of each kind leaves alone. *)

\* A download leaves producer, tags, sweep and scrub alone.
LEMMA DlFrame ==
  ASSUME NEW d \in Downloads,
         DlCall(d) \/ DlStep(d) \/ Cancel(d) \/ DlAbandon(d) \/ DlNotFound(d)
  PROVE  UNCHANGED Others
  BY DEF DlCall, DlStep, DlIndex, DlProtect, DlProbe, DlRound, DlReply, DlRoundEnd,
       DlFlush, DlSpawn, DlFetched, DlPut, DlResolved, DlRead, DlHeal, DlCancelled,
       Cancel, DlAbandon, DlNotFound

\* The producer leaves downloads, tags, sweep and scrub alone.
LEMMA BuildFrame ==
  ASSUME BuildStep \/ BuildFail \/ \E s \in Snapshots : BuildStart(s) \/ Unregister(s)
  PROVE  UNCHANGED <<scrub, loose, rotted, dl, tags, sw, fresh>>
  BY DEF BuildStep, BuildHas, BuildPut, Register, BuildFail, BuildStart, Unregister

\* What happens to single chunks leaves everybody's records alone.
LEMMA StoreFrame ==
  ASSUME ScrubStart \/ ScrubStep \/ \E c \in Chunks : LoosePut(c) \/ Rot(c)
  PROVE  UNCHANGED <<dl, bd, registered, tags, sw, fresh>>
  BY DEF ScrubStart, ScrubStep, ScrubRead, ScrubRemove, LoosePut, Rot

----------------------------------------------------------------------------
(* The sweep and the tags. *)

\* What the running sweep knows of the tags that nobody wrote since it began:
\* it has listed the name and not read it yet, or it keeps the chunks.
MarkInv ==
  \A t \in TagNames : t \notin fresh /\ tags[t] # None =>
     /\ sw.pc = "tags" => t \in sw.names \/ Needs[tags[t]] \subseteq sw.live
     /\ MarkDone => Needs[tags[t]] \subseteq sw.live

\* Every step keeps what the sweep knows of the tags.
LEMMA MarkStep ==
  ASSUME TypeInv, MarkInv, [Next]_vars
  PROVE  MarkInv'
  <1>1. sw \in Sweep /\ sw.live \subseteq Chunks /\ fresh \subseteq TagNames
    BY DEF TypeInv, TypeOK, Sweep
  <1>2. CASE UNCHANGED <<sw, tags, fresh>>
    BY <1>2 DEF MarkInv, MarkDone
  <1>3. CASE TagStep
    <2>1. PICK t \in TagNames : TagRemove(t) \/ \E s \in Snapshots : TagSet(t, s)
      BY <1>3 DEF TagStep
    <2>2. /\ fresh' = fresh \cup {t} /\ sw' = sw
          /\ \A u \in TagNames : u # t => tags'[u] = tags[u]
      BY <2>1 DEF TagRemove, TagSet, TypeInv, TypeOK
    <2> QED BY <2>2 DEF MarkInv, MarkDone
  <1>4. CASE SweepStart
    <2>1. sw'.pc = "tags" /\ sw'.names = {t \in TagNames : tags[t] # None} /\ tags' = tags
      BY <1>4 DEF SweepStart, NoSweep
    <2> QED BY <2>1 DEF MarkInv, MarkDone
  <1>5. ASSUME NEW t \in TagNames, SweepTag(t) PROVE MarkInv'
    <2>1. /\ sw.pc = "tags" /\ sw'.pc = "tags" /\ sw'.names = sw.names \ {t}
          /\ sw.live \subseteq sw'.live
          /\ tags[t] # None => Needs[tags[t]] \subseteq sw'.live
          /\ tags' = tags /\ fresh' = fresh
      BY <1>1, <1>5 DEF SweepTag, Sweep
    <2> QED BY <2>1 DEF MarkInv, MarkDone
  <1>6. CASE SweepTemps
    <2>1. /\ sw.pc = "tags" /\ sw.names = {} /\ sw'.pc = "list" /\ sw.live \subseteq sw'.live
          /\ tags' = tags /\ fresh' = fresh
      BY <1>1, <1>6 DEF SweepTemps, Sweep
    <2> QED BY <2>1 DEF MarkInv, MarkDone
  <1>7. CASE SweepList \/ \E c \in Chunks : SweepChunk(c)
    <2>1. NoSweep.pc = "idle"
      BY DEF NoSweep
    <2>2. CASE SweepList
      BY <1>1, <2>1, <2>2 DEF SweepList, Sweep, MarkInv, MarkDone
    <2>3. ASSUME NEW c \in Chunks, SweepChunk(c) PROVE MarkInv'
      BY <1>1, <2>1, <2>3 DEF SweepChunk, Sweep, MarkInv, MarkDone
    <2> QED BY <1>7, <2>2, <2>3
  <1>8. CASE SweepFail
    <2>1. sw'.pc = "idle"
      BY <1>8 DEF SweepFail, NoSweep
    <2> QED BY <2>1 DEF MarkInv, MarkDone
  <1>9. CASE UNCHANGED vars
    BY <1>2, <1>9 DEF vars
  <1>10. ASSUME NEW d \in Downloads,
                DlCall(d) \/ DlStep(d) \/ Cancel(d) \/ DlAbandon(d) \/ DlNotFound(d)
         PROVE  MarkInv'
    BY <1>2, <1>10, DlFrame DEF Others
  <1>11. CASE BuildStep \/ BuildFail \/ \E s \in Snapshots : BuildStart(s) \/ Unregister(s)
    BY <1>2, <1>11, BuildFrame
  <1>12. CASE ScrubStart \/ ScrubStep \/ \E c \in Chunks : LoosePut(c) \/ Rot(c)
    BY <1>2, <1>12, StoreFrame
  <1> QED BY <1>3, <1>4, <1>5, <1>6, <1>7, <1>8, <1>9, <1>10, <1>11, <1>12
          DEF Next, SweepStep, Environment

(***************************************************************************)
(* A sweep removes no chunk of a snapshot that a tag has named since the   *)
(* sweep began (SweepSpares), whatever Faults, MaxRot and Kinds are: tags  *)
(* may be set, moved and removed at every step between the listing of the  *)
(* names and the last removal.                                             *)
(***************************************************************************)
THEOREM SweepSafe == Spec => SweepSpares
  <1> DEFINE A == \A c \in Chunks, t \in TagNames :
                    SweepChunk(c) /\ t \notin fresh /\ tags[t] # None /\ c \in Needs[tags[t]]
                      => store'[c] = store[c]
  <1>1. Init => MarkInv
    BY DEF Init, MarkInv, MarkDone, NoSweep
  <1>2. ASSUME TypeInv, MarkInv, [Next]_vars PROVE [A]_vars
    <2>1. SUFFICES ASSUME NEW c \in Chunks, NEW t \in TagNames, SweepChunk(c),
                          t \notin fresh, tags[t] # None, c \in Needs[tags[t]]
                   PROVE  store'[c] = store[c]
      OBVIOUS
    <2>2. c \in sw.live
      BY <1>2, <2>1 DEF MarkInv, MarkDone, SweepChunk
    <2> QED BY <2>1, <2>2 DEF SweepChunk
  <1>3. SweepSpares <=> [][A]_vars
    BY DEF SweepSpares
  <1> HIDE DEF A
  <1> QED BY <1>1, <1>2, <1>3, TypeInit, TypeStep, MarkStep, PTL DEF Spec

----------------------------------------------------------------------------
(* A store without rot, and downloads and builds that do not begin behind   *)
(* the back of a running sweep.                                             *)

Orderly == "late" \notin Faults /\ "scrub" \notin Faults /\ MaxRot = 0

\* Nothing is rotten and nothing is about to be removed as rotten.
NoRot ==
  /\ rotted = 0 /\ scrub = NoScrub
  /\ \A c \in Chunks : store[c] # "rot"
  /\ \A d \in Downloads : dl[d].pc # "heal"

\* No group is being asked for at the head of the loop over groups.
RoundInv == \A d \in Downloads : dl[d].pc \in {"protect", "probe", "rounds"} => dl[d].group = {}

\* How a step of a running download moves on: it ends, or it keeps what it wants
\* and its tag, and what it newly counts as resolved is in the store.
MovesTo(d, r) ==
  /\ Goes(d, r)
  /\ r.pc \notin {"idle", "protect", "heal"}
  /\ r.want = dl[d].want /\ r.tag = dl[d].tag
  /\ r.pc \in {"probe", "rounds"} => r.group = {}
  /\ Resolved(r) \subseteq Resolved(dl[d]) \cup Present'
Moves(d) ==
  \/ UNCHANGED store /\ \E res : Ends(d, res)
  \/ /\ UNCHANGED store \/ \E c \in Chunks : Put(c)
     /\ \E r : MovesTo(d, r)

\* Every step of a download after its temporary tag is such a step.
LEMMA DlMoves ==
  ASSUME TypeInv, NoRot, RoundInv, NEW d \in Downloads,
         DlStep(d) \/ DlAbandon(d) \/ DlNotFound(d), ~DlProtect(d)
  PROVE  Moves(d)
  <1>1. dl[d] \in Download /\ dl[d].pc # "heal" /\ TypeOK /\ dl[d].want \subseteq Chunks
    BY DEF TypeInv, TypeOK, NoRot, Download
  <1>2. ASSUME NEW c \in Chunks, DlProbe(d, c) PROVE Moves(d)
    <2> DEFINE missing == IF Has(c) THEN dl[d].missing ELSE dl[d].missing \cup {c}
               last == dl[d].todo = {c}
               r == [dl[d] EXCEPT
                       !.missing = missing,
                       !.todo = IF last /\ missing = {} THEN dl[d].want ELSE dl[d].todo \ {c},
                       !.pc = IF ~last THEN "probe"
                              ELSE IF missing = {} THEN "read"
                              ELSE IF BatchSize > 0 THEN "rounds" ELSE "single"]
    <2>1. Goes(d, r) /\ UNCHANGED store /\ dl[d].pc = "probe" /\ c \in dl[d].todo
      BY <1>2 DEF DlProbe
    <2>2. /\ r.want = dl[d].want /\ r.tag = dl[d].tag
          /\ r.pc \in {"probe", "read", "rounds", "single"}
          /\ r.missing = missing /\ r.group = dl[d].group /\ r.pending = dl[d].pending
          /\ r.left = dl[d].left /\ r.asked = dl[d].asked /\ r.putting = dl[d].putting
          /\ r.pc = "probe" => r.todo = dl[d].todo \ {c}
          /\ r.pc # "probe" => dl[d].todo = {c}
      BY <1>1 DEF Download
    <2> HIDE DEF r
    <2>3. Resolved(r) \subseteq Resolved(dl[d]) \cup Present
      BY <1>1, <2>1, <2>2 DEF Resolved, Unresolved, Present
    <2>4. Present = Present'
      BY <2>1 DEF Present, Has
    <2> QED BY <2>1, <2>2, <2>3, <2>4 DEF Moves, MovesTo, RoundInv
  <1>3. CASE DlRound(d)
    <2>1. UNCHANGED store /\ dl[d].pc = "rounds"
      BY <1>3 DEF DlRound
    <2>2. ASSUME NEW g \in SUBSET dl[d].missing,
                 Goes(d, [dl[d] EXCEPT !.pc = "batch", !.group = g,
                                       !.missing = dl[d].missing \ g])
          PROVE  Moves(d)
      <3> DEFINE r == [dl[d] EXCEPT !.pc = "batch", !.group = g, !.missing = dl[d].missing \ g]
      <3>1. dl[d].group = {}
        BY <2>1 DEF RoundInv
      <3>2. /\ r.want = dl[d].want /\ r.tag = dl[d].tag /\ r.pc = "batch"
            /\ r.missing = dl[d].missing \ g /\ r.group = g /\ r.pending = dl[d].pending
            /\ r.left = dl[d].left /\ r.asked = dl[d].asked /\ r.putting = dl[d].putting
        BY <1>1 DEF Download
      <3> HIDE DEF r
      <3>3. Resolved(r) \subseteq Resolved(dl[d])
        BY <2>1, <3>1, <3>2 DEF Resolved, Unresolved
      <3> QED BY <2>1, <2>2, <3>2, <3>3 DEF Moves, MovesTo, r
    <2>3. CASE /\ dl[d].missing = {}
               /\ Goes(d, [dl[d] EXCEPT !.pc = "single", !.missing = dl[d].left, !.left = {}])
      <3> DEFINE r == [dl[d] EXCEPT !.pc = "single", !.missing = dl[d].left, !.left = {}]
      <3>1. /\ r.want = dl[d].want /\ r.tag = dl[d].tag /\ r.pc = "single"
            /\ r.missing = dl[d].left /\ r.group = dl[d].group /\ r.pending = dl[d].pending
            /\ r.left = {} /\ r.asked = dl[d].asked /\ r.putting = dl[d].putting
        BY <1>1 DEF Download
      <3> HIDE DEF r
      <3>2. Resolved(r) \subseteq Resolved(dl[d])
        BY <2>1, <2>3, <3>1 DEF Resolved, Unresolved
      <3> QED BY <2>1, <2>3, <3>1, <3>2 DEF Moves, MovesTo, r
    <2> QED BY <1>3, <2>2, <2>3 DEF DlRound
  <1>4. ASSUME NEW c \in Chunks, DlReply(d, c) PROVE Moves(d)
    <2> DEFINE pending == dl[d].pending \cup {c}
               r == [dl[d] EXCEPT !.group = dl[d].group \ {c}, !.pending = pending,
                       !.pc = IF Cardinality(pending) >= Flush THEN "flush" ELSE "batch"]
    <2>1. Goes(d, r) /\ UNCHANGED store /\ dl[d].pc = "batch"
      BY <1>4 DEF DlReply
    <2>2. /\ r.want = dl[d].want /\ r.tag = dl[d].tag /\ r.pc \in {"flush", "batch"}
          /\ r.missing = dl[d].missing /\ r.group = dl[d].group \ {c} /\ r.pending = pending
          /\ r.left = dl[d].left /\ r.asked = dl[d].asked /\ r.putting = dl[d].putting
      BY <1>1 DEF Download
    <2> HIDE DEF r
    <2>3. Resolved(r) \subseteq Resolved(dl[d])
      BY <2>1, <2>2 DEF Resolved, Unresolved
    <2> QED BY <2>1, <2>2, <2>3 DEF Moves, MovesTo
  <1>5. CASE DlRoundEnd(d)
    <2>1. UNCHANGED store /\ dl[d].pc = "batch"
      BY <1>5 DEF DlRoundEnd
    <2>2. CASE Goes(d, [dl[d] EXCEPT !.pc = "last"])
      <3> DEFINE r == [dl[d] EXCEPT !.pc = "last"]
      <3>1. /\ r.want = dl[d].want /\ r.tag = dl[d].tag /\ r.pc = "last"
            /\ r.missing = dl[d].missing /\ r.group = dl[d].group /\ r.pending = dl[d].pending
            /\ r.left = dl[d].left /\ r.asked = dl[d].asked /\ r.putting = dl[d].putting
        BY <1>1 DEF Download
      <3> HIDE DEF r
      <3>2. Resolved(r) \subseteq Resolved(dl[d])
        BY <2>1, <3>1 DEF Resolved, Unresolved
      <3> QED BY <2>1, <2>2, <3>1, <3>2 DEF Moves, MovesTo, r
    <2>3. CASE Goes(d, GroupOver(dl[d]))
      <3> DEFINE r == GroupOver(dl[d])
      <3>1. /\ r.want = dl[d].want /\ r.tag = dl[d].tag /\ r.pc = "rounds"
            /\ r.missing = dl[d].missing /\ r.group = {} /\ r.pending = dl[d].pending
            /\ r.left = dl[d].left \cup dl[d].group /\ r.asked = dl[d].asked /\ r.putting = dl[d].putting
        BY <1>1 DEF Download, GroupOver
      <3> HIDE DEF r
      <3>2. Resolved(r) \subseteq Resolved(dl[d])
        BY <2>1, <3>1 DEF Resolved, Unresolved
      <3> QED BY <2>1, <2>3, <3>1, <3>2 DEF Moves, MovesTo, r
    <2> QED BY <1>5, <2>2, <2>3 DEF DlRoundEnd
  <1>6. ASSUME NEW c \in Chunks, Put(c) PROVE Present' = Present \cup {c}
    BY <1>1, <1>6 DEF Put, Present, Has, TypeOK
  <1>7. ASSUME NEW c \in Chunks, DlFlush(d, c) PROVE Moves(d)
    <2> DEFINE p == [dl[d] EXCEPT !.pending = dl[d].pending \ {c}]
    <2>1. Put(c) /\ dl[d].pc \in {"flush", "last"}
      BY <1>7 DEF DlFlush
    <2>2. p \in Download /\ p.pc = dl[d].pc
      BY <1>1 DEF Download
    <2>3. PICK r : /\ Goes(d, r)
                   /\ \/ r = p
                      \/ r = [p EXCEPT !.pc = "batch"]
                      \/ r = GroupOver(p)
      BY <1>7 DEF DlFlush
    <2>4. /\ p.want = dl[d].want /\ p.tag = dl[d].tag
          /\ p.missing = dl[d].missing /\ p.group = dl[d].group /\ p.pending = dl[d].pending \ {c}
          /\ p.left = dl[d].left /\ p.asked = dl[d].asked /\ p.putting = dl[d].putting
      BY <1>1 DEF Download
    <2> HIDE DEF p
    <2>5. /\ r.want = p.want /\ r.tag = p.tag /\ r.pc \in {"flush", "last", "batch", "rounds"}
          /\ r.missing = p.missing /\ r.pending = p.pending
          /\ r.left \cup r.group = p.left \cup p.group
          /\ r.asked = p.asked /\ r.putting = p.putting
          /\ r.pc = "rounds" => r.group = {}
      <3>1. CASE r = p
        BY <2>1, <2>2, <3>1
      <3>2. CASE r = [p EXCEPT !.pc = "batch"]
        BY <2>2, <3>2 DEF Download
      <3>3. CASE r = GroupOver(p)
        BY <2>2, <3>3 DEF Download, GroupOver
      <3> QED BY <2>3, <3>1, <3>2, <3>3
    <2>6. Unresolved(dl[d]) \subseteq Unresolved(r) \cup {c}
      BY <2>1, <2>4, <2>5 DEF Unresolved
    <2>7. Resolved(r) \subseteq Resolved(dl[d]) \cup Present'
      BY <1>6, <2>1, <2>4, <2>5, <2>6 DEF Resolved
    <2> QED BY <2>1, <2>3, <2>4, <2>5, <2>7 DEF Moves, MovesTo
  <1>8. ASSUME NEW c \in Chunks, DlSpawn(d, c) PROVE Moves(d)
    <2> DEFINE r == [dl[d] EXCEPT !.missing = dl[d].missing \ {c}, !.asked = dl[d].asked \cup {c}]
    <2>1. Goes(d, r) /\ UNCHANGED store /\ dl[d].pc = "single"
      BY <1>8 DEF DlSpawn
    <2>2. /\ r.want = dl[d].want /\ r.tag = dl[d].tag /\ r.pc = dl[d].pc
          /\ r.missing = dl[d].missing \ {c} /\ r.group = dl[d].group /\ r.pending = dl[d].pending
          /\ r.left = dl[d].left /\ r.asked = dl[d].asked \cup {c} /\ r.putting = dl[d].putting
      BY <1>1 DEF Download
    <2> HIDE DEF r
    <2>3. Resolved(r) \subseteq Resolved(dl[d])
      BY <2>1, <2>2 DEF Resolved, Unresolved
    <2> QED BY <2>1, <2>2, <2>3 DEF Moves, MovesTo
  <1>9. ASSUME NEW c \in Chunks, DlFetched(d, c) PROVE Moves(d)
    <2> DEFINE r == [dl[d] EXCEPT !.asked = dl[d].asked \ {c}, !.putting = dl[d].putting \cup {c}]
    <2>1. Goes(d, r) /\ UNCHANGED store /\ dl[d].pc = "single"
      BY <1>9 DEF DlFetched
    <2>2. /\ r.want = dl[d].want /\ r.tag = dl[d].tag /\ r.pc = dl[d].pc
          /\ r.missing = dl[d].missing /\ r.group = dl[d].group /\ r.pending = dl[d].pending
          /\ r.left = dl[d].left /\ r.asked = dl[d].asked \ {c} /\ r.putting = dl[d].putting \cup {c}
      BY <1>1 DEF Download
    <2> HIDE DEF r
    <2>3. Resolved(r) \subseteq Resolved(dl[d])
      BY <2>1, <2>2 DEF Resolved, Unresolved
    <2> QED BY <2>1, <2>2, <2>3 DEF Moves, MovesTo
  <1>10. ASSUME NEW c \in Chunks, DlPut(d, c) PROVE Moves(d)
    <2> DEFINE r == [dl[d] EXCEPT !.putting = dl[d].putting \ {c}]
    <2>1. Goes(d, r) /\ Put(c) /\ dl[d].pc = "single"
      BY <1>10 DEF DlPut
    <2>2. /\ r.want = dl[d].want /\ r.tag = dl[d].tag /\ r.pc = dl[d].pc
          /\ r.missing = dl[d].missing /\ r.group = dl[d].group /\ r.pending = dl[d].pending
          /\ r.left = dl[d].left /\ r.asked = dl[d].asked /\ r.putting = dl[d].putting \ {c}
      BY <1>1 DEF Download
    <2> HIDE DEF r
    <2>3. Unresolved(dl[d]) \subseteq Unresolved(r) \cup {c}
      BY <2>1, <2>2 DEF Unresolved
    <2>4. Resolved(r) \subseteq Resolved(dl[d]) \cup Present'
      BY <1>6, <2>1, <2>2, <2>3 DEF Resolved
    <2> QED BY <2>1, <2>2, <2>4 DEF Moves, MovesTo
  <1>11. CASE DlResolved(d)
    <2> DEFINE r == [dl[d] EXCEPT !.pc = "read", !.todo = dl[d].want]
    <2>1. Goes(d, r) /\ UNCHANGED store /\ dl[d].pc = "single"
      BY <1>11 DEF DlResolved
    <2>2. /\ r.want = dl[d].want /\ r.tag = dl[d].tag /\ r.pc = "read"
          /\ r.missing = dl[d].missing /\ r.group = dl[d].group /\ r.pending = dl[d].pending
          /\ r.left = dl[d].left /\ r.asked = dl[d].asked /\ r.putting = dl[d].putting
      BY <1>1 DEF Download
    <2> HIDE DEF r
    <2>3. Resolved(r) \subseteq Resolved(dl[d])
      BY <2>1, <2>2 DEF Resolved, Unresolved
    <2> QED BY <2>1, <2>2, <2>3 DEF Moves, MovesTo
  <1>12. ASSUME NEW c \in Chunks, DlRead(d, c) PROVE Moves(d)
    <2>1. store[c] # "rot"
      BY DEF NoRot
    <2> DEFINE r == [dl[d] EXCEPT !.todo = dl[d].todo \ {c}]
    <2>2. UNCHANGED store /\ dl[d].pc = "read" /\ (Goes(d, r) \/ \E res : Ends(d, res))
      BY <1>12, <2>1 DEF DlRead
    <2>3. /\ r.want = dl[d].want /\ r.tag = dl[d].tag /\ r.pc = dl[d].pc
          /\ r.missing = dl[d].missing /\ r.group = dl[d].group /\ r.pending = dl[d].pending
          /\ r.left = dl[d].left /\ r.asked = dl[d].asked /\ r.putting = dl[d].putting
      BY <1>1 DEF Download
    <2> HIDE DEF r
    <2>4. Resolved(r) \subseteq Resolved(dl[d])
      BY <2>2, <2>3 DEF Resolved, Unresolved
    <2> QED BY <2>2, <2>3, <2>4 DEF Moves, MovesTo
  <1>13. ASSUME NEW c \in Chunks, DlHeal(d, c) PROVE FALSE
    BY <1>1, <1>13 DEF DlHeal
  <1>14. CASE DlCancelled(d) \/ DlAbandon(d) \/ DlNotFound(d)
    BY <1>14 DEF DlCancelled, DlAbandon, DlNotFound, Moves
  <1> QED BY <1>2, <1>3, <1>4, <1>5, <1>7, <1>8, <1>9, <1>10, <1>11, <1>12, <1>13, <1>14 DEF DlStep

\* A step of one download leaves the others' records alone.
LEMMA GoesEq ==
  ASSUME TypeOK, NEW d \in Downloads, NEW r, Goes(d, r)
  PROVE  dl'[d] = r /\ \A e \in Downloads : e # d => dl'[e] = dl[e]
  BY DEF TypeOK, Goes

\* A call begins with everything to look at, no tag and no group.
LEMMA DlBegins ==
  ASSUME NEW d \in Downloads, DlCall(d)
  PROVE  /\ UNCHANGED store
         /\ \E r : /\ Goes(d, r)
                   /\ r.pc \in {"protect", "probe"} /\ (Kinds \subseteq {"tree"} => r.pc = "protect")
                   /\ r.group = {} /\ r.todo = r.want /\ r.tag = FALSE
  <1>1. PICK s \in Snapshots, k \in Kinds : DlIndex(d, s, k)
    BY DEF DlCall
  <1>2. PICK w : Goes(d, [Idle("good") EXCEPT !.kind = k, !.want = w, !.todo = w,
                                              !.pc = IF k = "tree" THEN "protect" ELSE "probe"])
    BY <1>1 DEF DlIndex
  <1> DEFINE r == [Idle("good") EXCEPT !.kind = k, !.want = w, !.todo = w,
                                       !.pc = IF k = "tree" THEN "protect" ELSE "probe"]
  <1>3. /\ r.pc \in {"protect", "probe"} /\ (k = "tree" => r.pc = "protect")
        /\ r.group = {} /\ r.todo = r.want /\ r.tag = FALSE
    BY DEF Idle
  <1>4. UNCHANGED store
    BY <1>1 DEF DlIndex
  <1> HIDE DEF r
  <1> QED BY <1>2, <1>3, <1>4 DEF r

\* In an orderly store only a sweep removes chunks.
LEMMA OnlySweepRemoves ==
  ASSUME Orderly, TypeInv, NoRot, RoundInv, [Next]_vars
  PROVE  /\ NoRot' /\ RoundInv'
         /\ Present \subseteq Present' \/ \E c \in Chunks : SweepChunk(c)
  <1> DEFINE Goal == /\ NoRot' /\ RoundInv'
                     /\ Present \subseteq Present' \/ \E c \in Chunks : SweepChunk(c)
  <1>1. TypeOK
    BY DEF TypeInv
  <1>2. ASSUME NEW c \in Chunks, Put(c)
        PROVE  Present \subseteq Present' /\ \A e \in Chunks : store'[e] # "rot"
    BY <1>1, <1>2 DEF Put, Present, Has, TypeOK, NoRot
  <1>3. ASSUME UNCHANGED store
        PROVE  Present \subseteq Present' /\ \A e \in Chunks : store'[e] # "rot"
    BY <1>3 DEF Present, Has, NoRot
  <1>4. ASSUME NEW d \in Downloads, NEW r, Goes(d, r), UNCHANGED Others,
               UNCHANGED store \/ \E c \in Chunks : Put(c),
               r.pc # "heal", r.pc \in {"protect", "probe", "rounds"} => r.group = {}
        PROVE  Goal
    <2>1. Present \subseteq Present' /\ \A e \in Chunks : store'[e] # "rot"
      BY <1>2, <1>3, <1>4
    <2>2. dl'[d] = r /\ \A e \in Downloads : e # d => dl'[e] = dl[e]
      BY <1>1, <1>4, GoesEq
    <2> QED BY <1>4, <2>1, <2>2 DEF NoRot, RoundInv, Others
  <1>5. ASSUME NEW d \in Downloads,
               DlCall(d) \/ DlStep(d) \/ Cancel(d) \/ DlAbandon(d) \/ DlNotFound(d)
        PROVE  Goal
    <2>1. UNCHANGED Others
      BY <1>5, DlFrame
    <2>2. dl[d] \in Download /\ dl[d].pc # "heal"
          /\ (dl[d].pc \in {"protect", "probe", "rounds"} => dl[d].group = {})
      BY <1>1 DEF TypeOK, NoRot, RoundInv
    <2>3. CASE DlCall(d)
      BY <1>4, <2>1, <2>3, DlBegins
    <2>4. CASE Cancel(d)
      <3> DEFINE r == [dl[d] EXCEPT !.cancelled = TRUE]
      <3>1. r.pc = dl[d].pc /\ r.group = dl[d].group
        BY <2>2 DEF Download
      <3> HIDE DEF r
      <3> QED BY <1>4, <2>1, <2>2, <2>4, <3>1 DEF Cancel, r
    <2>5. CASE DlProtect(d)
      <3> DEFINE r == [dl[d] EXCEPT !.pc = "probe", !.tag = TRUE]
      <3>1. r.pc = "probe" /\ r.group = dl[d].group
        BY <2>2 DEF Download
      <3> HIDE DEF r
      <3> QED BY <1>4, <2>1, <2>2, <2>5, <3>1 DEF DlProtect, r
    <2>6. CASE Moves(d)
      <3>1. ASSUME NEW res, Ends(d, res), UNCHANGED store PROVE Goal
        <4>1. Idle(res).pc = "idle"
          BY DEF Idle
        <4> QED BY <1>4, <2>1, <3>1, <4>1 DEF Ends
      <3>2. ASSUME NEW r, MovesTo(d, r), UNCHANGED store \/ \E c \in Chunks : Put(c) PROVE Goal
        BY <1>4, <2>1, <3>2 DEF MovesTo
      <3> QED BY <2>6, <3>1, <3>2 DEF Moves
    <2> QED BY <1>5, <2>3, <2>4, <2>5, <2>6, DlMoves
  <1>6. ASSUME UNCHANGED <<dl, rotted, scrub>>, UNCHANGED store \/ \E c \in Chunks : Put(c)
        PROVE  Goal
    BY <1>2, <1>3, <1>6 DEF NoRot, RoundInv
  <1>7. CASE BuildStep \/ BuildFail \/ \E s \in Snapshots : BuildStart(s) \/ Unregister(s)
    <2>1. UNCHANGED store \/ \E c \in Chunks : Put(c)
      BY <1>7 DEF BuildStep, BuildHas, BuildPut, Register, BuildFail, BuildStart, Unregister,
           TypeInv, BuilderInv
    <2> QED BY <1>6, <1>7, <2>1, BuildFrame
  <1>8. ASSUME NEW c \in Chunks, SweepChunk(c) PROVE Goal
    <2>1. \A e \in Chunks : store'[e] # "rot"
      BY <1>1, <1>8 DEF SweepChunk, Remove, NoRot, TypeOK
    <2>2. UNCHANGED <<dl, rotted, scrub>>
      BY <1>8 DEF SweepChunk
    <2> QED BY <1>8, <2>1, <2>2 DEF NoRot, RoundInv
  <1>9. CASE TagStep \/ SweepStart \/ SweepStep \/ SweepFail
    <2>1. CASE \E c \in Chunks : SweepChunk(c)
      BY <1>8, <2>1
    <2>2. CASE ~ \E c \in Chunks : SweepChunk(c)
      BY <1>6, <1>9, <2>2 DEF TagStep, TagSet, TagRemove, SweepStart, SweepStep, SweepTag,
           SweepTemps, SweepList, SweepFail
    <2> QED BY <2>1, <2>2
  <1>10. CASE ScrubStart \/ ScrubStep \/ \E c \in Chunks : LoosePut(c) \/ Rot(c)
    <2>1. ASSUME NEW c \in Chunks, LoosePut(c) PROVE Goal
      BY <1>6, <2>1 DEF LoosePut
    <2>2. ~ScrubStart /\ ~ScrubStep /\ \A c \in Chunks : ~Rot(c)
      BY DEF Orderly, ScrubStart, ScrubStep, ScrubRead, ScrubRemove, Rot, NoRot, NoScrub
    <2> QED BY <1>10, <2>1, <2>2
  <1>11. CASE UNCHANGED vars
    BY <1>6, <1>11 DEF vars
  <1> QED BY <1>5, <1>7, <1>9, <1>10, <1>11 DEF Next, Environment

----------------------------------------------------------------------------
(* What is served stays whole. *)

\* A producer is at work only while no sweep runs, and has in the store what it
\* has passed.
BuiltInv ==
  bd.pc # "idle" =>
    /\ sw.pc = "idle"
    /\ Needs[bd.snap] \ (IF bd.sharding THEN {} ELSE bd.todo) \subseteq Present
    /\ bd.pc = "insert" => bd.todo = {}
\* The registered snapshots are among the roots of the running sweep, then live.
RootInv ==
  \A s \in registered :
    /\ sw.pc = "tags" => s \in sw.extra
    /\ MarkDone => Needs[s] \subseteq sw.live
ServeInv == BuiltInv /\ RootInv /\ ServedWhole

\* The producer keeps what it has passed and registers only what is there.
LEMMA ServeBuilds ==
  ASSUME TypeInv, ServeInv, Present \subseteq Present',
         BuildStep \/ BuildFail \/ \E s \in Snapshots : BuildStart(s) \/ Unregister(s),
         Orderly
  PROVE  ServeInv'
  <1>1. sw' = sw
    BY BuildFrame
  <1>2. TypeOK /\ bd \in Builder /\ NoBuild.pc = "idle"
    BY DEF TypeInv, TypeOK, NoBuild
  <1>3. ASSUME NEW c \in Chunks, bd.pc \in {"has", "put"}, c \in Present', bd' = Built(c),
               UNCHANGED registered
        PROVE  ServeInv'
    <2>1. bd.snap \in Snapshots
      BY <1>3 DEF TypeInv, BuilderInv
    <2>2. /\ bd'.snap = bd.snap /\ bd'.pc \in {"has", "insert"} /\ (bd'.pc = "insert" => bd'.todo = {})
          /\ \/ bd'.sharding = bd.sharding /\ bd'.todo = bd.todo \ {c}
             \/ ~bd.sharding /\ bd.todo \ {c} = {}
      BY <1>2, <1>3 DEF Built, Builder
    <2>3. Needs[bd.snap] \ (IF bd'.sharding THEN {} ELSE bd'.todo) \subseteq Present'
      BY <1>3, <2>2 DEF ServeInv, BuiltInv
    <2> QED BY <1>1, <1>3, <2>2, <2>3 DEF ServeInv, BuiltInv, RootInv, ServedWhole, MarkDone
  <1>4. ASSUME NEW s \in Snapshots, BuildStart(s) PROVE ServeInv'
    <2>1. bd'.snap = s /\ bd'.todo = Needs[s] /\ bd'.pc = "has" /\ sw.pc = "idle"
      BY <1>4 DEF BuildStart, NoBuild, Orderly
    <2>2. UNCHANGED registered /\ bd'.sharding = FALSE
      BY <1>4 DEF BuildStart, NoBuild
    <2> QED BY <1>1, <2>1, <2>2 DEF ServeInv, BuiltInv, RootInv, ServedWhole, MarkDone
  <1>5. ASSUME NEW c \in Chunks, BuildHas(c) PROVE ServeInv'
    <2>1. CASE Has(c)
      <3>1. c \in Present'
        BY <2>1 DEF Present
      <3> QED BY <1>3, <1>5, <2>1, <3>1 DEF BuildHas
    <2>2. CASE ~Has(c)
      <3>1. /\ bd'.snap = bd.snap /\ bd'.todo = bd.todo /\ bd'.sharding = bd.sharding
            /\ bd'.pc = "put" /\ bd.pc = "has" /\ UNCHANGED registered
        BY <1>2, <1>5, <2>2 DEF BuildHas, Builder
      <3> QED BY <1>1, <3>1 DEF ServeInv, BuiltInv, RootInv, ServedWhole, MarkDone
    <2> QED BY <2>1, <2>2
  <1>6. CASE BuildPut
    <2>1. bd.cur \in Chunks
      BY <1>6 DEF BuildPut, TypeInv, BuilderInv
    <2>2. bd.cur \in Present'
      BY <1>2, <1>6, <2>1 DEF BuildPut, Put, Present, Has, TypeOK
    <2> QED BY <1>3, <1>6, <2>1, <2>2 DEF BuildPut
  <1>7. CASE Register
    <2>1. sw.pc = "idle" /\ Needs[bd.snap] \subseteq Present
      BY <1>7 DEF Register, ServeInv, BuiltInv
    <2>2. registered' = registered \cup {bd.snap} /\ bd' = NoBuild
      BY <1>7 DEF Register
    <2> QED BY <1>1, <1>2, <2>1, <2>2 DEF ServeInv, BuiltInv, RootInv, ServedWhole, MarkDone
  <1>8. CASE BuildFail
    BY <1>1, <1>2, <1>8 DEF BuildFail, ServeInv, BuiltInv, RootInv, ServedWhole, MarkDone
  <1>9. ASSUME NEW s \in Snapshots, Unregister(s) PROVE ServeInv'
    BY <1>1, <1>9 DEF Unregister, ServeInv, BuiltInv, RootInv, ServedWhole, MarkDone
  <1> QED BY <1>4, <1>5, <1>6, <1>7, <1>8, <1>9 DEF BuildStep

\* A sweep starts while nobody builds, and spares the registered snapshots.
LEMMA ServeSweeps ==
  ASSUME TypeInv, ServeInv, Orderly, SweepStart \/ SweepStep \/ SweepFail
  PROVE  ServeInv'
  <1>1. sw \in Sweep /\ NoSweep.pc = "idle" /\ TypeOK /\ registered \subseteq Snapshots
    BY DEF TypeInv, TypeOK, NoSweep
  <1>2. UNCHANGED <<bd, registered>>
    BY DEF SweepStart, SweepStep, SweepTag, SweepTemps, SweepList, SweepChunk, SweepFail
  <1>3. bd.pc = "idle" \/ SweepFail
    BY DEF SweepStart, SweepStep, SweepTag, SweepTemps, SweepList, SweepChunk, Orderly,
         ServeInv, BuiltInv
  <1>4. ASSUME UNCHANGED store, RootInv', bd.pc = "idle" PROVE ServeInv'
    BY <1>2, <1>4 DEF ServeInv, BuiltInv, ServedWhole, Present, Has
  <1>5. CASE SweepStart
    <2>1. sw'.pc = "tags" /\ sw'.extra = registered /\ UNCHANGED store /\ bd.pc = "idle"
      BY <1>5 DEF SweepStart, NoSweep, Orderly
    <2>2. RootInv'
      BY <1>2, <2>1 DEF RootInv, MarkDone
    <2> QED BY <1>4, <2>1, <2>2
  <1>6. ASSUME NEW t \in TagNames, SweepTag(t) PROVE ServeInv'
    <2>1. sw.pc = "tags" /\ sw'.pc = "tags" /\ sw'.extra = sw.extra /\ UNCHANGED store
      BY <1>1, <1>6 DEF SweepTag, Sweep
    <2>2. RootInv'
      BY <1>2, <2>1 DEF ServeInv, RootInv, MarkDone
    <2> QED BY <1>4, <2>1, <2>2 DEF ServeInv, BuiltInv
  <1>7. CASE SweepTemps
    <2>1. /\ sw.pc = "tags" /\ sw'.pc = "list" /\ UNCHANGED store
          /\ \A s \in sw.extra : Needs[s] \subseteq sw'.live
      BY <1>1, <1>7 DEF SweepTemps, Sweep
    <2>2. RootInv'
      BY <1>2, <2>1 DEF ServeInv, RootInv, MarkDone
    <2> QED BY <1>4, <2>1, <2>2 DEF ServeInv, BuiltInv
  <1>8. CASE SweepList
    <2>1. /\ sw.pc = "list" /\ UNCHANGED store
          /\ sw'.pc = "idle" \/ (sw'.pc = "remove" /\ sw'.live = sw.live)
      BY <1>1, <1>8 DEF SweepList, Sweep
    <2>2. RootInv'
      BY <1>2, <2>1 DEF ServeInv, RootInv, MarkDone
    <2> QED BY <1>4, <2>1, <2>2 DEF ServeInv, BuiltInv
  <1>9. ASSUME NEW c \in Chunks, SweepChunk(c) PROVE ServeInv'
    <2>1. /\ sw.pc = "remove"
          /\ sw'.pc = "idle" \/ (sw'.pc = "remove" /\ sw'.live = sw.live)
      BY <1>1, <1>9 DEF SweepChunk, Sweep
    <2>2. RootInv' /\ bd.pc = "idle"
      BY <1>2, <2>1 DEF ServeInv, RootInv, BuiltInv, MarkDone
    <2>3. Present \cap sw.live \subseteq Present'
      BY <1>1, <1>9 DEF SweepChunk, Remove, Present, Has, TypeOK
    <2>4. \A s \in registered : Needs[s] \subseteq sw.live
      BY <2>1 DEF ServeInv, RootInv, MarkDone
    <2> QED BY <1>2, <2>2, <2>3, <2>4 DEF ServeInv, BuiltInv, ServedWhole
  <1>10. CASE SweepFail
    <2>1. sw'.pc = "idle" /\ UNCHANGED store
      BY <1>1, <1>10 DEF SweepFail
    <2>2. Present' = Present
      BY <2>1 DEF Present, Has
    <2> QED BY <1>2, <2>1, <2>2 DEF ServeInv, BuiltInv, RootInv, ServedWhole, MarkDone
  <1> QED BY <1>5, <1>6, <1>7, <1>8, <1>9, <1>10 DEF SweepStep

\* Every step keeps the registered snapshots whole.
LEMMA ServeStep ==
  ASSUME Orderly, TypeInv, NoRot, RoundInv, ServeInv, [Next]_vars
  PROVE  ServeInv'
  <1>1. CASE SweepStart \/ SweepStep \/ SweepFail
    BY <1>1, ServeSweeps
  <1>2. CASE ~(SweepStart \/ SweepStep \/ SweepFail)
    <2>1. Present \subseteq Present'
      BY <1>2, OnlySweepRemoves DEF SweepStep
    <2>2. CASE BuildStep \/ BuildFail \/ \E s \in Snapshots : BuildStart(s) \/ Unregister(s)
      BY <2>1, <2>2, ServeBuilds
    <2>3. CASE UNCHANGED <<bd, registered, sw>>
      BY <2>1, <2>3 DEF ServeInv, BuiltInv, RootInv, ServedWhole, MarkDone
    <2>4. ASSUME NEW d \in Downloads,
                 DlCall(d) \/ DlStep(d) \/ Cancel(d) \/ DlAbandon(d) \/ DlNotFound(d)
          PROVE  ServeInv'
      BY <2>3, <2>4, DlFrame DEF Others
    <2>5. CASE TagStep
      BY <2>3, <2>5 DEF TagStep, TagSet, TagRemove
    <2>6. CASE ScrubStart \/ ScrubStep \/ \E c \in Chunks : LoosePut(c) \/ Rot(c)
      BY <2>3, <2>6, StoreFrame
    <2>7. CASE UNCHANGED vars
      BY <2>3, <2>7 DEF vars
    <2> QED BY <1>2, <2>2, <2>4, <2>5, <2>6, <2>7 DEF Next, Environment
  <1> QED BY <1>1, <1>2

\* The initial state is orderly.
LEMMA OrderlyInit ==
  ASSUME Init PROVE NoRot /\ RoundInv /\ ServeInv
  <1>1. Idle("failed").pc = "idle"
    BY DEF Idle
  <1> QED BY <1>1 DEF Init, NoRot, RoundInv, ServeInv, BuiltInv, RootInv, ServedWhole, NoBuild

(***************************************************************************)
(* Every chunk of a registered snapshot is in the store (ServedWhole) for  *)
(* every set of snapshots, tags and downloads, as long as chunks do not    *)
(* rot and snapshots are not built while a sweep runs.                     *)
(***************************************************************************)
THEOREM ServedSafe ==
  ASSUME Orderly PROVE Spec => []ServedWhole
  <1> DEFINE Inv == TypeInv /\ NoRot /\ RoundInv /\ ServeInv
  <1>1. Init => Inv
    BY TypeInit, OrderlyInit
  <1>2. Inv /\ [Next]_vars => Inv'
    BY TypeStep, OnlySweepRemoves, ServeStep
  <1>3. Inv => ServedWhole
    BY DEF ServeInv
  <1> HIDE DEF Inv
  <1> QED BY <1>1, <1>2, <1>3, PTL DEF Spec

----------------------------------------------------------------------------
(* What a download has resolved stays. *)

KeepInv ==
  \A d \in Downloads :
    /\ dl[d].pc = "idle" => dl[d].want = {}
    /\ dl[d].pc = "protect" => dl[d].todo = dl[d].want
    /\ dl[d].pc \notin {"idle", "protect"} => dl[d].tag
    /\ MarkDone /\ dl[d].tag => dl[d].want \subseteq sw.live
    /\ Resolved(dl[d]) \subseteq Present

\* A step of a download keeps what the downloads have found.
LEMMA KeepDl ==
  ASSUME Orderly, Kinds \subseteq {"tree"}, TypeInv, NoRot, RoundInv, KeepInv,
         Present \subseteq Present', NEW d \in Downloads,
         DlCall(d) \/ DlStep(d) \/ Cancel(d) \/ DlAbandon(d) \/ DlNotFound(d)
  PROVE  KeepInv'
  <1>1. TypeOK /\ dl[d] \in Download /\ sw' = sw
    BY DlFrame DEF Others, TypeInv, TypeOK
  <1>2. ASSUME NEW r, Goes(d, r),
               r.pc = "idle" => r.want = {},
               r.pc = "protect" => r.todo = r.want,
               r.pc \notin {"idle", "protect"} => r.tag,
               MarkDone /\ r.tag => r.want \subseteq sw.live,
               Resolved(r) \subseteq Present'
        PROVE  KeepInv'
    <2>1. dl'[d] = r /\ \A e \in Downloads : e # d => dl'[e] = dl[e]
      BY <1>1, <1>2, GoesEq
    <2>2. MarkDone' = MarkDone
      BY <1>1 DEF MarkDone
    <2>3. ASSUME NEW e \in Downloads PROVE Resolved(dl'[e]) \subseteq Present'
      BY <1>2, <2>1 DEF KeepInv
    <2> QED BY <1>1, <1>2, <2>1, <2>2, <2>3 DEF KeepInv, Resolved, Unresolved
  <1>3. CASE DlCall(d)
    <2>1. PICK r : Goes(d, r) /\ r.pc = "protect" /\ r.todo = r.want /\ r.tag = FALSE
      BY <1>3, DlBegins
    <2>2. Resolved(r) = {}
      BY <2>1 DEF Resolved, Unresolved
    <2> QED BY <1>2, <2>1, <2>2
  <1>4. CASE Cancel(d)
    <2> DEFINE r == [dl[d] EXCEPT !.cancelled = TRUE]
    <2>1. /\ r.pc = dl[d].pc /\ r.want = dl[d].want /\ r.todo = dl[d].todo /\ r.tag = dl[d].tag
          /\ Resolved(r) = Resolved(dl[d])
      BY <1>1 DEF Download, Resolved, Unresolved
    <2> HIDE DEF r
    <2> QED BY <1>2, <1>4, <2>1 DEF Cancel, r, KeepInv
  <1>5. CASE DlProtect(d)
    <2> DEFINE r == [dl[d] EXCEPT !.pc = "probe", !.tag = TRUE]
    <2>1. r.pc = "probe" /\ r.want = dl[d].want /\ r.todo = dl[d].todo /\ r.tag
      BY <1>1 DEF Download
    <2> HIDE DEF r
    <2>2. Goes(d, r) /\ dl[d].todo = dl[d].want /\ ~MarkDone
      BY <1>5 DEF DlProtect, r, KeepInv, Orderly
    <2>3. Resolved(r) = {}
      BY <2>1, <2>2 DEF Resolved, Unresolved
    <2> QED BY <1>2, <2>1, <2>2, <2>3
  <1>6. CASE Moves(d) /\ ~DlCall(d) /\ ~Cancel(d) /\ ~DlProtect(d)
    <2>1. ASSUME NEW res, Ends(d, res) PROVE KeepInv'
      <3>1. Idle(res).pc = "idle" /\ Idle(res).want = {} /\ Idle(res).tag = FALSE
        BY DEF Idle
      <3>2. Resolved(Idle(res)) = {}
        BY <3>1 DEF Resolved
      <3> QED BY <1>2, <2>1, <3>1, <3>2 DEF Ends
    <2>2. ASSUME NEW r, MovesTo(d, r) PROVE KeepInv'
      <3>1. dl[d].pc \notin {"idle", "protect"} \/ \E res : Ends(d, res)
        BY <1>6 DEF DlStep, DlProbe, DlRound, DlReply, DlRoundEnd, DlFlush, DlSpawn, DlFetched,
             DlPut, DlResolved, DlRead, DlHeal, DlCancelled, DlAbandon, DlNotFound
      <3> QED BY <1>2, <2>1, <2>2, <3>1 DEF MovesTo, KeepInv
    <2> QED BY <1>6, <2>1, <2>2 DEF Moves
  <1> QED BY <1>3, <1>4, <1>5, <1>6, DlMoves

\* Every step keeps what the downloads have found.
LEMMA KeepStep ==
  ASSUME Orderly, Kinds \subseteq {"tree"}, TypeInv, NoRot, RoundInv, KeepInv, [Next]_vars
  PROVE  KeepInv'
  <1>1. TypeOK /\ sw \in Sweep
    BY DEF TypeInv, TypeOK
  <1>2. ASSUME NEW c \in Chunks, SweepChunk(c) PROVE KeepInv'
    <2>1. dl' = dl /\ MarkDone /\ (MarkDone' => sw'.live = sw.live)
      BY <1>1, <1>2 DEF SweepChunk, MarkDone, Sweep, NoSweep
    <2>2. Present \cap sw.live \subseteq Present'
      BY <1>1, <1>2 DEF SweepChunk, Remove, Present, Has, TypeOK
    <2>3. ASSUME NEW d \in Downloads PROVE Resolved(dl[d]) \subseteq Present'
      <3>1. CASE dl[d].tag
        BY <2>1, <2>2, <3>1 DEF KeepInv, Resolved
      <3>2. CASE ~dl[d].tag
        BY <3>2 DEF KeepInv, Resolved, Unresolved
      <3> QED BY <3>1, <3>2
    <2> QED BY <2>1, <2>3 DEF KeepInv, Resolved, Unresolved
  <1>3. ASSUME Present \subseteq Present', dl' = dl,
               \/ sw' = sw
               \/ sw'.pc \in {"idle", "tags"}
               \/ MarkDone /\ sw'.live = sw.live
               \/ \A d \in Downloads : dl[d].tag => dl[d].want \subseteq sw'.live
        PROVE  KeepInv'
    <2>1. ASSUME NEW d \in Downloads PROVE MarkDone' /\ dl[d].tag => dl[d].want \subseteq sw'.live
      BY <1>3 DEF KeepInv, MarkDone
    <2>2. ASSUME NEW d \in Downloads PROVE Resolved(dl[d]) \subseteq Present'
      BY <1>3 DEF KeepInv
    <2> QED BY <1>3, <2>1, <2>2 DEF KeepInv, Resolved, Unresolved
  <1>4. CASE ~ \E c \in Chunks : SweepChunk(c)
    <2>1. Present \subseteq Present'
      BY <1>4, OnlySweepRemoves
    <2>2. ASSUME NEW d \in Downloads,
                 DlCall(d) \/ DlStep(d) \/ Cancel(d) \/ DlAbandon(d) \/ DlNotFound(d)
          PROVE  KeepInv'
      BY <2>1, <2>2, KeepDl
    <2>3. CASE BuildStep \/ BuildFail \/ \E s \in Snapshots : BuildStart(s) \/ Unregister(s)
      BY <1>3, <2>1, <2>3, BuildFrame
    <2>4. CASE TagStep
      BY <1>3, <2>1, <2>4 DEF TagStep, TagSet, TagRemove
    <2>5. CASE SweepStart \/ SweepFail
      <3>1. sw'.pc \in {"idle", "tags"} /\ dl' = dl
        <4>1. CASE SweepStart
          BY <4>1 DEF SweepStart, NoSweep
        <4>2. CASE SweepFail
          BY <4>2 DEF SweepFail, NoSweep
        <4> QED BY <2>5, <4>1, <4>2
      <3> QED BY <1>3, <2>1, <3>1
    <2>6. ASSUME NEW t \in TagNames, SweepTag(t) PROVE KeepInv'
      <3>1. sw'.pc = "tags" /\ dl' = dl
        BY <1>1, <2>6 DEF SweepTag, Sweep
      <3> QED BY <1>3, <2>1, <3>1
    <2>7. CASE SweepTemps
      <3>1. dl' = dl /\ TempLive \subseteq sw'.live
        BY <1>1, <2>7 DEF SweepTemps, Sweep
      <3>2. \A d \in Downloads : dl[d].tag => dl[d].want \subseteq TempLive
        BY DEF TempLive
      <3> QED BY <1>3, <2>1, <3>1, <3>2
    <2>8. CASE SweepList
      <3>1. dl' = dl /\ MarkDone /\ (sw'.pc = "idle" \/ sw'.live = sw.live)
        BY <1>1, <2>8 DEF SweepList, Sweep, NoSweep, MarkDone
      <3> QED BY <1>3, <2>1, <3>1
    <2>9. CASE ScrubStart \/ ScrubStep \/ \E c \in Chunks : LoosePut(c) \/ Rot(c)
      BY <1>3, <2>1, <2>9, StoreFrame
    <2>10. CASE UNCHANGED vars
      BY <1>3, <2>1, <2>10 DEF vars
    <2> QED BY <1>4, <2>2, <2>3, <2>4, <2>5, <2>6, <2>7, <2>8, <2>9, <2>10
            DEF Next, SweepStep, Environment
  <1> QED BY <1>2, <1>4

\* Nobody wants anything at the start.
LEMMA KeepInit == ASSUME Init PROVE KeepInv
  <1>1. /\ Idle("failed").pc = "idle" /\ Idle("failed").want = {}
        /\ Idle("failed").tag = FALSE
    BY DEF Idle
  <1> QED BY <1>1 DEF Init, KeepInv, Resolved

(***************************************************************************)
(* What tree downloads have found or put into the store stays there until  *)
(* they have read it (ResolvedKept), for any number of downloads, tags and *)
(* registrations, as long as chunks do not rot and every download takes    *)
(* its temporary tag before a sweep has read the temporary tags.           *)
(***************************************************************************)
THEOREM ResolvedSafe ==
  ASSUME Orderly, Kinds \subseteq {"tree"} PROVE Spec => []ResolvedKept
  <1> DEFINE Inv == TypeInv /\ NoRot /\ RoundInv /\ KeepInv
  <1>1. Init => Inv
    BY KeepInit, TypeInit, OrderlyInit
  <1>2. Inv /\ [Next]_vars => Inv'
    BY TypeStep, OnlySweepRemoves, KeepStep
  <1>3. Inv => ResolvedKept
    BY DEF KeepInv, ResolvedKept
  <1> HIDE DEF Inv
  <1> QED BY <1>1, <1>2, <1>3, PTL DEF Spec

----------------------------------------------------------------------------
(* What a download keeps when it is cancelled. *)

\* Replies wait only in a round, and in the flush that stores them.
Drained(r) == r.pc \notin {"batch", "flush", "last"} => r.pending = {}

\* A call begins and ends with nothing pending.
LEMMA IdleDrained == ASSUME NEW res PROVE Drained(Idle(res))
  BY DEF Drained, Idle

\* Every step of a download drains what it received before it goes on.
LEMMA DlDrained ==
  ASSUME TypeInv, NEW d \in Downloads, Drained(dl[d]),
         DlCall(d) \/ DlStep(d) \/ Cancel(d) \/ DlAbandon(d) \/ DlNotFound(d)
  PROVE  \E r : Goes(d, r) /\ Drained(r)
  <1>1. dl[d] \in Download
    BY DEF TypeInv, TypeOK
  <1>2. ASSUME Ends(d, "failed") PROVE \E r : Goes(d, r) /\ Drained(r)
    BY <1>2, IdleDrained DEF Ends
  <1>3. CASE DlCall(d)
    <2>1. PICK s \in Snapshots, k \in Kinds : DlIndex(d, s, k)
      BY <1>3 DEF DlCall
    <2>2. PICK w : Goes(d, [Idle("good") EXCEPT !.kind = k, !.want = w, !.todo = w,
                                                !.pc = IF k = "tree" THEN "protect" ELSE "probe"])
      BY <2>1 DEF DlIndex
    <2> DEFINE r == [Idle("good") EXCEPT !.kind = k, !.want = w, !.todo = w,
                                         !.pc = IF k = "tree" THEN "protect" ELSE "probe"]
    <2>3. Drained(r)
      BY DEF Drained, Idle
    <2> HIDE DEF r
    <2> QED BY <2>2, <2>3 DEF r
  <1>5. CASE DlProtect(d) \/ DlResolved(d) \/ Cancel(d)
    <2>1. PICK r : /\ Goes(d, r) /\ dl[d].pc # "idle"
                   /\ \/ r = [dl[d] EXCEPT !.pc = "probe", !.tag = TRUE] /\ dl[d].pc = "protect"
                      \/ r = [dl[d] EXCEPT !.pc = "read", !.todo = dl[d].want] /\ dl[d].pc = "single"
                      \/ r = [dl[d] EXCEPT !.cancelled = TRUE]
      BY <1>5 DEF DlProtect, DlResolved, Cancel
    <2>2. /\ r.pending = dl[d].pending
          /\ r.pc = dl[d].pc \/ dl[d].pc \in {"protect", "single"}
      BY <1>1, <2>1 DEF Download
    <2> QED BY <2>1, <2>2 DEF Drained
  <1>6. ASSUME NEW c \in Chunks, DlProbe(d, c)
        PROVE  \E r : Goes(d, r) /\ Drained(r)
    <2> DEFINE missing == IF Has(c) THEN dl[d].missing ELSE dl[d].missing \cup {c}
               last == dl[d].todo = {c}
               r == [dl[d] EXCEPT
                       !.missing = missing,
                       !.todo = IF last /\ missing = {} THEN dl[d].want ELSE dl[d].todo \ {c},
                       !.pc = IF ~last THEN "probe"
                              ELSE IF missing = {} THEN "read"
                              ELSE IF BatchSize > 0 THEN "rounds" ELSE "single"]
    <2>1. Goes(d, r) /\ dl[d].pc = "probe"
      BY <1>6 DEF DlProbe
    <2>2. r.pending = dl[d].pending
      BY <1>1 DEF Download
    <2> HIDE DEF r
    <2> QED BY <2>1, <2>2 DEF Drained
  <1>7. CASE DlRound(d)
    <2>1. PICK r, p, g, m, l : /\ Goes(d, r) /\ dl[d].pc = "rounds"
                               /\ r = [dl[d] EXCEPT !.pc = p, !.group = g, !.missing = m, !.left = l]
      <3>1. CASE \E g \in SUBSET dl[d].missing :
                   Goes(d, [dl[d] EXCEPT !.pc = "batch", !.group = g,
                                         !.missing = dl[d].missing \ g])
        <4>1. PICK g : Goes(d, [dl[d] EXCEPT !.pc = "batch", !.group = g,
                                             !.missing = dl[d].missing \ g])
          BY <3>1
        <4>2. [dl[d] EXCEPT !.pc = "batch", !.group = g, !.missing = dl[d].missing \ g]
                = [dl[d] EXCEPT !.pc = "batch", !.group = g, !.missing = dl[d].missing \ g,
                                !.left = dl[d].left]
          BY <1>1 DEF Download
        <4> QED BY <1>7, <4>1, <4>2 DEF DlRound
      <3>2. CASE Goes(d, [dl[d] EXCEPT !.pc = "single", !.missing = dl[d].left, !.left = {}])
        <4>1. [dl[d] EXCEPT !.pc = "single", !.missing = dl[d].left, !.left = {}]
                = [dl[d] EXCEPT !.pc = "single", !.group = dl[d].group, !.missing = dl[d].left,
                                !.left = {}]
          BY <1>1 DEF Download
        <4> QED BY <1>7, <3>2, <4>1 DEF DlRound
      <3> QED BY <1>7, <3>1, <3>2 DEF DlRound
    <2>2. r.pending = dl[d].pending
      BY <1>1, <2>1 DEF Download
    <2> QED BY <2>1, <2>2 DEF Drained
  <1>8. ASSUME NEW c \in Chunks, DlReply(d, c)
        PROVE  \E r : Goes(d, r) /\ Drained(r)
    <2> DEFINE pending == dl[d].pending \cup {c}
               r == [dl[d] EXCEPT !.group = dl[d].group \ {c}, !.pending = pending,
                       !.pc = IF Cardinality(pending) >= Flush THEN "flush" ELSE "batch"]
    <2>1. Goes(d, r) /\ dl[d].pc = "batch"
      BY <1>8 DEF DlReply
    <2>2. r.pc \in {"flush", "batch"}
      BY <1>1 DEF Download
    <2> HIDE DEF r
    <2> QED BY <2>1, <2>2 DEF Drained
  <1>9. ASSUME NEW r \in Download, r.pending = {} PROVE Drained(GroupOver(r))
    BY <1>9 DEF GroupOver, Drained, Download
  <1>10. CASE DlRoundEnd(d)
    <2>1. CASE dl[d].pending = {}
      BY <1>1, <1>9, <1>10, <2>1 DEF DlRoundEnd
    <2>2. CASE dl[d].pending # {}
      <3> DEFINE r == [dl[d] EXCEPT !.pc = "last"]
      <3>1. r.pc = "last"
        BY <1>1 DEF Download
      <3> HIDE DEF r
      <3> QED BY <1>10, <2>2, <3>1 DEF DlRoundEnd, Drained, r
    <2> QED BY <2>1, <2>2
  <1>11. ASSUME NEW c \in Chunks, DlFlush(d, c)
         PROVE  \E r : Goes(d, r) /\ Drained(r)
    <2> DEFINE q == [dl[d] EXCEPT !.pending = dl[d].pending \ {c}]
    <2>1. /\ q \in Download
          /\ q.pc = dl[d].pc /\ q.pc \in {"flush", "last"}
      BY <1>1, <1>11 DEF DlFlush, Download
    <2>2. PICK r : /\ Goes(d, r)
                   /\ \/ r = q
                      \/ r = [q EXCEPT !.pc = "batch"]
                      \/ r = GroupOver(q) /\ q.pending = {}
      BY <1>11 DEF DlFlush
    <2> HIDE DEF q
    <2>3. CASE r = q
      BY <2>1, <2>2, <2>3 DEF Drained
    <2>4. CASE r = [q EXCEPT !.pc = "batch"]
      <3>1. r.pc = "batch"
        BY <2>1, <2>4 DEF Download
      <3> QED BY <2>1, <2>2, <3>1 DEF Drained
    <2>5. CASE r = GroupOver(q) /\ q.pending = {}
      BY <1>9, <2>1, <2>2, <2>5
    <2> QED BY <2>2, <2>3, <2>4, <2>5
  <1>12. ASSUME NEW c \in Chunks, DlSpawn(d, c) \/ DlFetched(d, c) \/ DlPut(d, c)
         PROVE  \E r : Goes(d, r) /\ Drained(r)
    <2>1. PICK r : /\ Goes(d, r) /\ dl[d].pc = "single"
                   /\ \/ r = [dl[d] EXCEPT !.missing = dl[d].missing \ {c},
                                           !.asked = dl[d].asked \cup {c}]
                      \/ r = [dl[d] EXCEPT !.asked = dl[d].asked \ {c},
                                           !.putting = dl[d].putting \cup {c}]
                      \/ r = [dl[d] EXCEPT !.putting = dl[d].putting \ {c}]
      BY <1>12 DEF DlSpawn, DlFetched, DlPut
    <2>2. r.pending = dl[d].pending /\ r.pc = dl[d].pc
      BY <1>1, <2>1 DEF Download
    <2> QED BY <2>1, <2>2 DEF Drained
  <1>13. ASSUME NEW c \in Chunks, DlRead(d, c)
         PROVE  \E r : Goes(d, r) /\ Drained(r)
    <2> DEFINE g == IF store[c] = "rot" THEN [dl[d] EXCEPT !.res = "spoilt"] ELSE dl[d]
    <2>1. dl[d].pc = "read" /\ g.pc = "read" /\ g.pending = dl[d].pending /\ g \in Download
      BY <1>1, <1>13 DEF DlRead, Download, Results
    <2>2. \/ Ends(d, "failed") \/ Ends(d, g.res)
          \/ Goes(d, [g EXCEPT !.todo = dl[d].todo \ {c}])
          \/ Goes(d, [dl[d] EXCEPT !.pc = "heal", !.todo = {c}])
      BY <1>13 DEF DlRead
    <2> HIDE DEF g
    <2>3. CASE Ends(d, g.res)
      BY <2>3, IdleDrained DEF Ends
    <2>4. ASSUME NEW r, Goes(d, r), r = [g EXCEPT !.todo = dl[d].todo \ {c}]
                                    \/ r = [dl[d] EXCEPT !.pc = "heal", !.todo = {c}]
          PROVE  \E q : Goes(d, q) /\ Drained(q)
      <3>1. r.pending = dl[d].pending /\ r.pc \in {"read", "heal"}
        BY <1>1, <2>1, <2>4 DEF Download
      <3> QED BY <2>1, <2>4, <3>1 DEF Drained
    <2> QED BY <1>2, <2>2, <2>3, <2>4
  <1>14. CASE DlCancelled(d) \/ DlAbandon(d) \/ DlNotFound(d) \/ \E c \in Chunks : DlHeal(d, c)
    BY <1>2, <1>14 DEF DlCancelled, DlAbandon, DlNotFound, DlHeal
  <1> QED BY <1>3, <1>5, <1>6, <1>7, <1>8, <1>10, <1>11, <1>12, <1>13, <1>14 DEF DlStep

\* It holds of every download in every reachable state.
DrainInv == \A d \in Downloads : Drained(dl[d])

\* Every step keeps the replies in their round.
LEMMA DrainStep ==
  ASSUME TypeInv, DrainInv, [Next]_vars PROVE DrainInv'
  <1>1. CASE dl' = dl
    BY <1>1 DEF DrainInv, Drained
  <1>2. ASSUME NEW d \in Downloads,
               DlCall(d) \/ DlStep(d) \/ Cancel(d) \/ DlAbandon(d) \/ DlNotFound(d)
        PROVE  DrainInv'
    <2>1. PICK r : Goes(d, r) /\ Drained(r)
      BY <1>2, DlDrained DEF DrainInv
    <2>2. dl'[d] = r /\ \A e \in Downloads : e # d => dl'[e] = dl[e]
      BY <2>1, GoesEq DEF TypeInv
    <2> QED BY <2>1, <2>2 DEF DrainInv, Drained
  <1>3. CASE BuildStep \/ BuildFail \/ \E s \in Snapshots : BuildStart(s) \/ Unregister(s)
    BY <1>1, <1>3, BuildFrame
  <1>4. CASE ScrubStart \/ ScrubStep \/ \E c \in Chunks : LoosePut(c) \/ Rot(c)
    BY <1>1, <1>4, StoreFrame
  <1>5. CASE SweepStart \/ SweepStep \/ SweepFail \/ TagStep
    BY <1>1, <1>5 DEF SweepStart, SweepStep, SweepTag, SweepTemps, SweepList, SweepChunk,
         SweepFail, TagStep, TagSet, TagRemove
  <1>6. CASE UNCHANGED vars
    BY <1>1, <1>6 DEF vars
  <1> QED BY <1>2, <1>3, <1>4, <1>5, <1>6 DEF Next, Environment

\* No download has a reply at the start.
LEMMA DrainInit == ASSUME Init PROVE DrainInv
  BY IdleDrained DEF Init, DrainInv

\* The token ends a call only where nothing is pending, and what it found is
\* still in the store: every reply accepted before is kept (CancelKeeps, the
\* drain loop of fetch_missing), under the assumptions of ResolvedSafe.
THEOREM CancelSafe ==
  ASSUME Orderly, Kinds \subseteq {"tree"} PROVE Spec => CancelKeeps
  <1> DEFINE Inv == TypeInv /\ NoRot /\ RoundInv /\ KeepInv /\ DrainInv
             Kept == \A d \in Downloads : DlCancelled(d)
                       => Resolved(dl[d]) \cup dl[d].pending \cup dl[d].putting
                            \subseteq {c \in Chunks : store'[c] # "absent"} \cup loose'
  <1>1. Init => Inv
    BY TypeInit, OrderlyInit, KeepInit, DrainInit
  <1>2. Inv /\ [Next]_vars => Inv'
    BY TypeStep, OnlySweepRemoves, KeepStep, DrainStep
  <1>3. Inv => Kept
    <2> SUFFICES ASSUME Inv, NEW d \in Downloads, DlCancelled(d)
                 PROVE  Resolved(dl[d]) \cup dl[d].pending \cup dl[d].putting
                          \subseteq {c \in Chunks : store'[c] # "absent"} \cup loose'
      OBVIOUS
    <2>1. /\ Resolved(dl[d]) \subseteq Present /\ dl[d].pending = {}
          /\ store' = store /\ dl[d].putting \subseteq loose'
      BY DEF DlCancelled, Ends, Running, KeepInv, DrainInv, Drained
    <2> QED BY <2>1 DEF Present, Has
  <1>4. Inv /\ [Next]_vars => [Kept]_vars
    BY <1>3
  <1>5. CancelKeeps <=> [][Kept]_vars
    BY DEF CancelKeeps
  <1> HIDE DEF Inv, Kept
  <1> QED BY <1>1, <1>2, <1>4, <1>5, PTL DEF Spec
=============================================================================
