---------------------------- MODULE FanoutProofs ----------------------------
(***************************************************************************)
(* Proofs about Fanout for every blob, cache, buffer and number of faults: *)
(* the receiver's counter is exact, so phase B ends only with the whole    *)
(* blob in the part, and a reception implements Transfer.                  *)
(***************************************************************************)
EXTENDS Fanout, FiniteSetTheorems, SequenceTheorems, TLAPS

USE FanoutAssumption

\* Where a download can be.
Pcs == {"idle", "manifest", "slices", "check", "rename"}

\* The shape of the state that TypeOK leaves implicit.
Shape ==
  /\ pc \in Pcs /\ outcome \in Outcomes \cup {None}
  /\ sent \in 0..(Count + 1) /\ stale \in BOOLEAN /\ junk \in BOOLEAN
  /\ pending \subseteq Frames /\ lost \subseteq Frames
  /\ early \in Seq(Frames) /\ dropped \subseteq Slices /\ present \subseteq Slices
  /\ part = None \/ part \subseteq Slices

\* Phase A's buffer is never over its limit.
BufferInv == Len(early) <= EarlyMax

\* The counter that ends phase B counts distinct chunks, and the part has them.
CountInv ==
  /\ received = Cardinality(present)
  /\ pc \in {"idle", "manifest"} => present = {}
  /\ pc \in {"slices", "check", "rename"} => part = present
  /\ pc \in {"check", "rename"} => received >= Count

\* A call that returned Ok has put the whole blob at the destination.
DestInv == outcome = "ok" => dest = "whole" /\ pc = "idle"

\* The inductive invariant.
IInv == Shape /\ BufferInv /\ CountInv /\ DestInv

-----------------------------------------------------------------------------
\* Sets of slices are finite, have at most Count elements, and are the whole
\* blob when they have that many.
LEMMA SliceSets ==
  ASSUME NEW S \in SUBSET Slices
  PROVE  /\ IsFiniteSet(S) /\ Cardinality(S) \in 0..Count
         /\ Cardinality(S) >= Count => S = Slices
<1>1. IsFiniteSet(Slices) /\ Cardinality(Slices) = Count
  BY FS_Interval DEF Slices
<1>2. IsFiniteSet(S) /\ Cardinality(S) <= Count /\ (Cardinality(S) = Count => S = Slices)
  BY <1>1, FS_Subset
<1>3. Cardinality(S) \in Nat
  BY <1>2, FS_CardinalityType
<1>. QED
  BY <1>2, <1>3

\* apply_slice: the counter moves with the set of chunks, also for duplicates
\* and for what does not verify.
LEMMA CountedApply ==
  ASSUME NEW f, NEW S \in SUBSET Slices
  PROVE  /\ Apply(f, S) \subseteq Slices
         /\ Counted(f, S, Cardinality(S)) = Cardinality(Apply(f, S))
<1>1. IsFiniteSet(S) /\ Cardinality(S) \in Nat
  BY SliceSets
<1>2. CASE f \in Slices \ S
  <2>1. Cardinality(S \cup {f}) = Cardinality(S) + 1
    BY <1>1, <1>2, FS_AddElement
  <2>2. Apply(f, S) = S \cup {f}
    BY <1>2 DEF Apply
  <2>. QED
    BY <1>2, <2>1, <2>2 DEF Counted
<1>3. CASE f \notin Slices \ S
  <2>1. Apply(f, S) = S
    BY <1>3 DEF Apply
  <2>. QED
    BY <1>3, <2>1 DEF Counted
<1>. QED
  BY <1>2, <1>3

\* A slice that is taken in keeps counter, set and part together.
LEMMA TakeInCounts ==
  ASSUME IInv, pc = "slices", NEW f, TakeIn(f)
  PROVE  present' \subseteq Slices /\ received' = Cardinality(present') /\ part' = present'
<1>1. present \in SUBSET Slices /\ part = present /\ received = Cardinality(present)
  BY DEF IInv, Shape, CountInv
<1>2. Apply(f, present) \subseteq Slices
      /\ Counted(f, present, Cardinality(present)) = Cardinality(Apply(f, present))
  BY <1>1, CountedApply
<1>. QED
  BY <1>1, <1>2 DEF TakeIn

\* What the cache can bring back are frames of the blob.
LEMMA CachedFrames == Cached \subseteq Frames
BY DEF Cached

\* A call that returns leaves nothing behind in memory.
LEMMA ReturnInv ==
  ASSUME IInv, NEW why \in Outcomes, Return(why),
         part' = None \/ part' \subseteq Slices, UNCHANGED sent,
         why = "ok" => dest' = "whole"
  PROVE  IInv'
<1>1. Cardinality({}) = 0 /\ <<>> \in Seq(Frames) /\ Len(<<>>) = 0
  BY FS_EmptySet
<1>2. Shape'
  BY <1>1 DEF IInv, Shape, Return, Pcs
<1>3. BufferInv' /\ CountInv'
  BY <1>1 DEF BufferInv, CountInv, Return
<1>4. DestInv'
  BY DEF DestInv, Return
<1>. QED
  BY <1>2, <1>3, <1>4 DEF IInv

\* It holds before the first download.
LEMMA InitInv == Init => IInv
<1>1. Cardinality({}) = 0 /\ <<>> \in Seq(Frames) /\ Len(<<>>) = 0
  BY FS_EmptySet
<1> SUFFICES ASSUME Init PROVE IInv
  OBVIOUS
<1>2. Shape
  <2>1. pc \in Pcs /\ sent \in 0..(Count + 1) /\ early \in Seq(Frames)
    BY <1>1 DEF Init, Pcs
  <2>2. stale \in BOOLEAN /\ junk \in BOOLEAN /\ outcome = None /\ part = None
    BY DEF Init
  <2>3. pending = {} /\ lost = {} /\ dropped = {} /\ present = {}
    BY DEF Init
  <2>. QED
    BY <2>1, <2>2, <2>3 DEF Shape
<1>3. BufferInv /\ CountInv
  BY <1>1 DEF Init, BufferInv, CountInv
<1>4. DestInv
  BY MarkerAssumption DEF Init, DestInv, Outcomes
<1>. QED
  BY <1>2, <1>3, <1>4 DEF IInv

\* The publisher, Zenoh, other processes and the clock do not touch what the
\* receiver has.
LEMMA EnvironmentStep ==
  ASSUME IInv, Put \/ Shutdown \/ Lose \/ Recover \/ Duplicate \/ JunkArrives \/ SkipJunk
               \/ RequestCancel \/ DestAppears \/ Overdue \/ Hasty \/ UNCHANGED vars
  PROVE  IInv'
<1> USE DEF IInv, Shape, BufferInv, CountInv, DestInv, receiver, locals, network, publisher
<1>1. CASE Put
  <2>1. sent \in Frames /\ sent' \in 0..(Count + 1)
    BY <1>1 DEF Put, Frames
  <2>2. pending' \subseteq Frames
    BY <1>1, <2>1 DEF Put
  <2>. QED
    BY <1>1, <2>1, <2>2 DEF Put
<1>2. CASE Shutdown
  BY <1>2 DEF Shutdown
<1>3. CASE Lose
  BY <1>3 DEF Lose
<1>4. CASE Recover
  BY <1>4 DEF Recover
<1>5. CASE Duplicate
  BY <1>5, CachedFrames DEF Duplicate
<1>6. CASE JunkArrives \/ SkipJunk
  BY <1>6 DEF JunkArrives, SkipJunk
<1>7. CASE RequestCancel
  BY <1>7 DEF RequestCancel
<1>8. CASE DestAppears
  BY <1>8, MarkerAssumption DEF DestAppears
<1>9. CASE Overdue \/ Hasty
  BY <1>9 DEF Overdue, Hasty, Elapse
<1>10. CASE UNCHANGED vars
  BY <1>10 DEF vars
<1>. QED
  BY <1>1, <1>2, <1>3, <1>4, <1>5, <1>6, <1>7, <1>8, <1>9, <1>10

\* A slice, of the blob or forged, that arrives before the manifest.
LEMMA EarlyStep == ASSUME IInv, EarlySlice \/ Stray PROVE IInv'
<1>1. early \in Seq(Frames) /\ Len(early) \in Nat /\ 0 \in Frames /\ Slices \subseteq Frames
  BY LenProperties DEF IInv, Shape, Frames, Slices
<1>2. ASSUME NEW f \in Frames, early' = Append(early, f), Len(early) < EarlyMax
      PROVE  early' \in Seq(Frames) /\ BufferInv'
  <2>1. early' \in Seq(Frames) /\ Len(early') = Len(early) + 1
    BY <1>1, <1>2, AppendProperties
  <2>. QED
    BY <1>1, <1>2, <2>1 DEF BufferInv
<1>3. CASE EarlySlice
  <2>1. PICK f \in pending \cap Slices :
          /\ pending' = pending \ {f}
          /\ IF Len(early) < EarlyMax
               THEN early' = Append(early, f) /\ UNCHANGED dropped
               ELSE dropped' = dropped \cup {f} /\ UNCHANGED early
    BY <1>3 DEF EarlySlice
  <2>2. early' \in Seq(Frames) /\ BufferInv'
    BY <1>1, <1>2, <2>1 DEF IInv, BufferInv
  <2>3. Shape' /\ CountInv' /\ DestInv'
    BY <1>3, <2>1, <2>2 DEF EarlySlice, IInv, Shape, CountInv, DestInv, publisher
  <2>. QED
    BY <2>2, <2>3 DEF IInv
<1>4. CASE Stray
  <2>1. early' \in Seq(Frames) /\ BufferInv'
    BY <1>1, <1>2, <1>4 DEF Stray
  <2>2. Shape' /\ CountInv' /\ DestInv'
    BY <1>4, <2>1 DEF Stray, IInv, Shape, CountInv, DestInv, publisher, network
  <2>. QED
    BY <2>1, <2>2 DEF IInv
<1>. QED
  BY <1>3, <1>4

\* The drained buffer and every slice after it are counted once each.
LEMMA SliceStep == ASSUME IInv, TakeManifest \/ Drain \/ TakeSlice PROVE IInv'
<1>1. CASE TakeManifest
  <2>1. Cardinality({}) = 0
    BY FS_EmptySet
  <2>2. Shape'
    BY <1>1 DEF TakeManifest, IInv, Shape, Pcs, publisher
  <2>3. CountInv' /\ BufferInv' /\ DestInv'
    BY <1>1, <2>1 DEF TakeManifest, IInv, CountInv, BufferInv, DestInv
  <2>. QED
    BY <2>2, <2>3 DEF IInv
<1>2. CASE Drain
  <2>1. present' \subseteq Slices /\ received' = Cardinality(present') /\ part' = present'
    BY <1>2, TakeInCounts DEF Drain
  <2>2. early \in Seq(Frames) /\ early # <<>> /\ early' = Tail(early) /\ Len(early) \in Nat
    BY <1>2, LenProperties DEF Drain, IInv, Shape
  <2>3. early' \in Seq(Frames) /\ Len(early') = Len(early) - 1
    BY <2>2, HeadTailProperties
  <2>4. BufferInv'
    BY <2>2, <2>3 DEF IInv, BufferInv
  <2>5. Shape'
    BY <1>2, <2>1, <2>3 DEF Drain, IInv, Shape, publisher, network
  <2>6. CountInv' /\ DestInv'
    BY <1>2, <2>1 DEF Drain, IInv, CountInv, DestInv
  <2>. QED
    BY <2>4, <2>5, <2>6 DEF IInv
<1>3. CASE TakeSlice
  <2>1. PICK f \in pending \cap Slices :
          pending' = pending \ {f} /\ TakeIn(f) /\ stale' = (stale /\ f \in present)
    BY <1>3 DEF TakeSlice
  <2>2. present' \subseteq Slices /\ received' = Cardinality(present') /\ part' = present'
    BY <1>3, <2>1, TakeInCounts DEF TakeSlice
  <2>3. stale' \in BOOLEAN
    BY <2>1, Zenon
  <2>4. Shape'
    BY <1>3, <2>1, <2>2, <2>3 DEF TakeSlice, IInv, Shape, publisher
  <2>5. CountInv' /\ BufferInv' /\ DestInv'
    BY <1>3, <2>2 DEF TakeSlice, IInv, CountInv, BufferInv, DestInv
  <2>. QED
    BY <2>4, <2>5 DEF IInv
<1>. QED
  BY <1>1, <1>2, <1>3

\* Phase B has ended: the part is the whole blob.
LEMMA WholePart == ASSUME IInv, pc \in {"check", "rename"} PROVE present = Slices /\ part = Slices
BY SliceSets DEF IInv, Shape, CountInv

\* Every action keeps the invariant.
LEMMA InvStep == IInv /\ [Next]_vars => IInv'
<1> SUFFICES ASSUME IInv, [Next]_vars PROVE IInv'
  OBVIOUS
<1>1. CASE Put \/ Shutdown \/ Lose \/ Recover \/ Duplicate \/ JunkArrives \/ SkipJunk
           \/ RequestCancel \/ DestAppears \/ Overdue \/ Hasty \/ UNCHANGED vars
  BY <1>1, EnvironmentStep
<1>2. CASE Receive
  <2>1. Shape'
    BY <1>2, CachedFrames DEF Receive, IInv, Shape, Pcs, publisher, locals, Outcomes
  <2>2. CountInv' /\ BufferInv' /\ DestInv'
    BY <1>2, MarkerAssumption DEF Receive, IInv, CountInv, BufferInv, DestInv, locals, Outcomes
  <2>. QED
    BY <2>1, <2>2 DEF IInv
<1>3. CASE EarlySlice \/ Stray
  BY <1>3, EarlyStep
<1>4. CASE TakeManifest \/ Drain \/ TakeSlice
  BY <1>4, SliceStep
<1>5. CASE SkipManifest
  BY <1>5 DEF SkipManifest, publisher, receiver, locals, IInv, Shape, CountInv, BufferInv, DestInv
<1>6. CASE Synced
  BY <1>6 DEF Synced, publisher, network, locals, IInv, Shape, Pcs, CountInv, BufferInv, DestInv
<1>7. CASE LateCheck
  <2>1. CASE Refuse /\ dest # None
    BY <1>7, <2>1, ReturnInv DEF LateCheck, publisher, IInv, Shape, Outcomes
  <2>2. CASE ~(Refuse /\ dest # None)
    BY <1>7, <2>2 DEF LateCheck, publisher, network, locals, IInv, Shape, Pcs, CountInv, BufferInv, DestInv
  <2>. QED
    BY <2>1, <2>2
<1>8. CASE Rename
  <2>1. dest' = "whole"
    BY <1>8, WholePart DEF Rename
  <2>. QED
    BY <1>8, <2>1, ReturnInv DEF Rename, publisher, Outcomes
<1>9. CASE Stall \/ Cancelled
  BY <1>9, ReturnInv DEF Stall, Cancelled, publisher, IInv, Shape, Outcomes
<1>10. CASE Crash
  BY <1>10, ReturnInv DEF Crash, publisher, IInv, Shape, Outcomes
<1>. QED
  BY <1>1, <1>2, <1>3, <1>4, <1>5, <1>6, <1>7, <1>8, <1>9, <1>10 DEF Next, Progress

\* It holds in every reachable state.
LEMMA Invariance == Spec => []IInv
BY InitInv, InvStep, PTL DEF Spec

-----------------------------------------------------------------------------
\* The buffer of phase A stays within EARLY_SLICE_MAX_FRAMES and the counter of
\* phase B within the number of chunks, for every publisher, cache and blob,
\* however samples are lost, repeated or forged.
THEOREM FanoutTypeCorrect == Spec => []TypeOK
<1>1. IInv => TypeOK
  BY SliceSets DEF IInv, Shape, BufferInv, CountInv, TypeOK, Pcs
<1>. QED
  BY <1>1, Invariance, PTL

\* receive_fanout renames the part when its counter reaches the chunk count:
\* an Ok means that the whole blob is at the destination, although the counter
\* says nothing of which chunks came, and samples come twice.
THEOREM FanoutExact == Spec => [](outcome = "ok" => dest = "whole")
<1>1. IInv => (outcome = "ok" => dest = "whole")
  BY DEF IInv, DestInv
<1>. QED
  BY <1>1, Invariance, PTL

-----------------------------------------------------------------------------
(* Refinement *)

\* A call that returns with an error is a Stop of Transfer.
LEMMA ReturnStops ==
  ASSUME IInv, pc # "idle", NEW why \in Outcomes \ {"ok"}, Return(why)
  PROVE  T!Stop
BY MarkerAssumption DEF T!Stop, Return, Outcomes

\* Every step of a reception is one of Transfer or leaves its state alone.
LEMMA RefinementStep == IInv /\ [Next]_vars => [T!Next]_(T!vars)
<1> SUFFICES ASSUME IInv, [Next]_vars PROVE T!Next \/ UNCHANGED T!vars
  OBVIOUS
<1>1. CASE UNCHANGED <<pc, outcome, present>>
  BY <1>1 DEF T!vars
<1>2. CASE Put \/ Shutdown \/ Lose \/ Recover \/ Duplicate \/ Stray \/ JunkArrives \/ SkipJunk
           \/ RequestCancel \/ DestAppears \/ Overdue \/ Hasty \/ SkipManifest \/ UNCHANGED vars
  BY <1>1, <1>2 DEF Put, Shutdown, Lose, Recover, Duplicate, Stray, JunkArrives, SkipJunk,
                    RequestCancel, DestAppears, Overdue, Hasty, Elapse, SkipManifest, vars, receiver, locals
<1>3. CASE Receive
  <2>1. pc = "idle" /\ present = {} /\ outcome # "ok"
    BY <1>3 DEF Receive, IInv, CountInv
  <2>2. CASE Refuse /\ dest # None
    <3>1. T!Refused
      BY <1>3, <2>1, <2>2, MarkerAssumption DEF Receive, T!Refused, Outcomes, locals
    <3>. QED
      BY <3>1 DEF T!Next
  <2>3. CASE ~(Refuse /\ dest # None)
    <3>1. T!Begin
      BY <1>3, <2>1, <2>3 DEF Receive, T!Begin, locals
    <3>. QED
      BY <3>1 DEF T!Next
  <2>. QED
    BY <2>2, <2>3
<1>4. CASE EarlySlice
  BY <1>1, <1>4 DEF EarlySlice
<1>5. CASE TakeManifest
  BY <1>1, <1>5 DEF TakeManifest, IInv, CountInv, T!vars
<1>6. CASE Drain \/ TakeSlice
  <2>0. pc = "slices" /\ pc' = pc /\ outcome' = outcome /\ \E f : TakeIn(f)
    BY <1>6 DEF Drain, TakeSlice
  <2>1. T!Gain
    BY <2>0 DEF TakeIn, Apply, IInv, Shape, T!Gain
  <2>. QED
    BY <2>1 DEF T!Next
<1>7. CASE Synced
  BY <1>7 DEF Synced, locals, T!vars
<1>8. CASE LateCheck
  <2>1. CASE Refuse /\ dest # None
    BY <1>8, <2>1, ReturnStops DEF LateCheck, Outcomes, T!Next
  <2>2. CASE ~(Refuse /\ dest # None)
    BY <1>8, <2>2 DEF LateCheck, locals, T!vars
  <2>. QED
    BY <2>1, <2>2
<1>9. CASE Rename
  <2>1. present = Slices /\ pc # "idle"
    BY <1>9, WholePart DEF Rename
  <2>2. T!Finish
    BY <1>9, <2>1, MarkerAssumption DEF Rename, Return, T!Finish, Outcomes
  <2>. QED
    BY <2>2 DEF T!Next
<1>10. CASE Stall
  <2>1. pc # "idle"
    BY <1>10 DEF Stall, Waiting
  <2>. QED
    BY <1>10, <2>1, ReturnStops DEF Stall, Outcomes, T!Next
<1>11. CASE Cancelled \/ Crash
  BY <1>11, ReturnStops DEF Cancelled, Waiting, Crash, Outcomes, T!Next
<1>. QED
  BY <1>2, <1>3, <1>4, <1>5, <1>6, <1>7, <1>8, <1>9, <1>10, <1>11 DEF Next, Progress

\* receive_fanout keeps Transfer's promise: it ends well only with every chunk
\* verified and written, it never forgets a chunk while it runs, and it leaves
\* no record that a later call could take for granted.
THEOREM FanoutImplements == Spec => ImplementsTransfer
<1>1. Init => T!Init
  BY MarkerAssumption DEF Init, T!Init, Outcomes
<1>. QED
  BY <1>1, Invariance, RefinementStep, PTL DEF Spec, ImplementsTransfer, T!Spec
=============================================================================
