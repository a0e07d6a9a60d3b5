--------------------------- MODULE DownloadProofs ---------------------------
(***************************************************************************)
(* Proofs about Download for every set of roots, every number of chunks    *)
(* and every limit.  DestVerified is not inductive: it needs to know that  *)
(* the sidecar's bits are backed by data in every state a crash may leave  *)
(* (BitsBacked), and what the locals of a call say about the part file.    *)
(***************************************************************************)
EXTENDS Download, FiniteSetTheorems, TLAPS

USE ChunkAssumption DEF Chunks

\* File operations of the model keep files well formed.
LEMMA FileOps ==
  ASSUME NEW f \in File
  PROVE  /\ NewFile \in File /\ Truncated(f) \in File /\ Sized(f) \in File
         /\ Synced(f) \in File /\ Survivors(f) \subseteq File
         /\ \A i, v : v \in Data => Written(f, i, v) \in File
<1>1. NewFile \in File  BY DEF NewFile, File, Data
<1>2. Truncated(f) \in File  BY DEF Truncated, File, Data
<1>3. Sized(f) \in File  BY DEF Sized, File, Data
<1>4. Synced(f) \in File  BY DEF Synced, File
<1>5. Survivors(f) \subseteq File  BY DEF Survivors, File
<1>6. ASSUME NEW i, NEW v \in Data PROVE Written(f, i, v) \in File
  BY DEF Written, File, Data
<1> QED BY <1>1, <1>2, <1>3, <1>4, <1>5, <1>6

\* TypeOK with what a call's locals need to stay typed.
TypeInv ==
  /\ TypeOK
  /\ pc \notin {"idle", "start"} => man \in Roots
  /\ pc = "write" => cur \in Chunks

\* A returning call leaves typed locals.
LEMMA IdleType ==
  ASSUME NEW res \in Outcomes, Idle(res)
  PROVE  CallType' /\ pc' = "idle"
<1>1. existing' \in BOOLEAN /\ gained' \in BOOLEAN /\ cancelled' \in BOOLEAN  BY DEF Idle
<1>2. noProgress' \in Nat /\ since' \in Nat /\ cur' \in Nat  BY DEF Idle
<1>3. bits' \subseteq Chunks /\ asked' \subseteq Chunks  BY DEF Idle
<1>4. pc' \in Pcs /\ goal' \in Goals /\ policy' \in {"refuse", "replace"}
  BY DEF Idle, Pcs, Goals
<1>5. man' \in Roots \cup {None} /\ outcome' \in Outcomes  BY DEF Idle
<1> QED BY <1>1, <1>2, <1>3, <1>4, <1>5 DEF CallType, Idle

\* An update of the directory adds only typed triples to undo.
LEMMA UndoType ==
  ASSUME FsType, Unsynced
  PROVE  undo' \subseteq (File \cup {None}) \X (Sidecar \cup {None})
                            \X (Result \cup {None, Foreign})
BY DEF FsType, Unsynced, Here

\* The steps that leave the files alone.
LEMMA FsUnchanged == ASSUME FsType, UNCHANGED <<fs, deleting>> PROVE FsType'
BY DEF FsType, fs

\* A step that moves only the program counter keeps the call's types.
LEMMA CallUnchanged ==
  ASSUME CallType, UNCHANGED <<outcome, cancelled, call>>, pc' \in Pcs
  PROVE  CallType'
BY DEF CallType, call

\* Files, undo states and the deletion keep their shape.
LEMMA FsStep == TypeInv /\ [Next]_vars => FsType'
<1> SUFFICES ASSUME TypeInv, [Next]_vars PROVE FsType'
  OBVIOUS
<1>0. FsType  BY DEF TypeInv, TypeOK
<1>1. CASE UNCHANGED <<fs, deleting>>  BY <1>0, <1>1, FsUnchanged
<1>2. CASE CreatePart
  <2>1. CASE part = None
    BY <1>0, <1>2, <2>1, FileOps, UndoType DEF CreatePart, FsType, NewFile, File, Data
  <2>2. CASE part # None
    BY <1>0, <1>2, <2>2, FileOps DEF CreatePart, FsType
  <2> QED BY <2>1, <2>2
<1>3. CASE SetLen  BY <1>0, <1>3, FileOps DEF SetLen, FsType
<1>4. CASE part' \in File \cup {None} /\ UNCHANGED <<side, dest, undo, deleting>>
  BY <1>0, <1>4 DEF FsType
<1>5. ASSUME NEW i \in Chunks, RecvGood(i) PROVE FsType'
  BY <1>0, <1>4, <1>5, FileOps DEF RecvGood, PartWritten, Data, FsType
<1>6. ASSUME NEW timer \in BOOLEAN, MarkChunk(timer) PROVE FsType'
  <2>1. man \in Data  BY <1>6 DEF MarkChunk, TypeInv, Data
  <2> QED BY <1>0, <1>4, <1>6, <2>1, FileOps DEF MarkChunk, PartWritten, FsType
<1>7. CASE Commit  BY <1>0, <1>4, <1>7, FileOps DEF Commit, PartSynced, FsType
<1>8. CASE SyncData  BY <1>0, <1>4, <1>8, FileOps DEF SyncData, PartSynced, FsType
<1>9. ASSUME NEW b \in SUBSET Chunks, SaveAtomic(b), pc \notin {"idle", "start"},
             UNCHANGED <<part, dest, deleting>>
      PROVE  FsType'
  <2>1. man \in Roots  BY <1>9 DEF TypeInv
  <2>2. side' \in Sidecar  BY <1>9, <2>1 DEF SaveAtomic, Sidecar
  <2> QED BY <1>0, <1>9, <2>2 DEF FsType, SaveAtomic
<1>10. CASE SaveFresh  BY <1>9, <1>10 DEF SaveFresh
<1>11. CASE Persist
  <2>1. bits \in SUBSET Chunks  BY DEF TypeInv, TypeOK, CallType
  <2> QED BY <1>9, <1>11, <2>1 DEF Persist
<1>12. CASE Rename
  <2>1. CASE part = None  BY <1>1, <1>12, <2>1 DEF Rename
  <2>2. CASE part # None
    <3>1. dest' \in Result  BY <1>0, <1>12, <2>2 DEF Rename, Result, TypeInv, FsType
    <3> QED BY <1>0, <1>12, <2>2, <3>1, UndoType DEF Rename, FsType
  <2> QED BY <2>1, <2>2
<1>13. CASE RemoveSidecar  BY <1>0, <1>13, UndoType DEF RemoveSidecar, FsType
<1>14. CASE DeletePart  BY <1>0, <1>14, UndoType DEF DeletePart, FsType
<1>15. CASE DeleteSidecar  BY <1>0, <1>15, UndoType DEF DeleteSidecar, FsType
<1>16. CASE DestAppears  BY <1>0, <1>16 DEF DestAppears, FsType
<1>17. CASE Crash
  <2> PICK t \in undo \cup {Here} :
       /\ part' \in IF t[1] = None THEN {None} ELSE Survivors(t[1])
       /\ side' = t[2]
       /\ dest' \in IF t[3] \in {None, Foreign} THEN {t[3]}
                    ELSE {[root |-> t[3].root, file |-> f] : f \in Survivors(t[3].file)}
    BY <1>17 DEF Crash
  <2>1. /\ t[1] \in File \cup {None} /\ t[2] \in Sidecar \cup {None}
        /\ t[3] \in Result \cup {None, Foreign}
    BY <1>0 DEF Here, FsType
  <2>2. part' \in File \cup {None}  BY <2>1, FileOps
  <2>3. dest' \in Result \cup {None, Foreign}
    <3>1. CASE t[3] \in {None, Foreign}  BY <3>1
    <3>2. CASE t[3] \notin {None, Foreign}
      <4>1. t[3].root \in Roots /\ t[3].file \in File  BY <2>1, <3>2 DEF Result
      <4>2. \A f \in Survivors(t[3].file) : f \in File  BY <4>1, FileOps
      <4> QED BY <3>2, <4>1, <4>2 DEF Result
    <3> QED BY <3>1, <3>2
  <2> QED BY <1>17, <2>1, <2>2, <2>3 DEF Crash, FsType
<1>19. ASSUME NEW r \in Roots, Start(r) PROVE FsType'  BY <1>1, <1>19 DEF Start
<1>20. CASE ReadLen \/ LoadSidecar \/ OpenPart \/ Round \/ RecvCancelled \/ RoundEnd \/ LateCheck
  BY <1>1, <1>20 DEF ReadLen, LoadSidecar, OpenPart, Round, RecvCancelled, RoundEnd, LateCheck
<1>21. CASE Cancel \/ Abandon  BY <1>1, <1>21 DEF Cancel, Abandon
<1>22. CASE UNCHANGED vars  BY <1>1, <1>22 DEF vars
<1>23. ASSUME NEW p \in Policies, Call(p) PROVE FsType'
  BY <1>1, <1>23 DEF Call
<1> QED
  BY <1>2, <1>3, <1>5, <1>6, <1>7, <1>8, <1>10, <1>11, <1>12, <1>13, <1>14, <1>15, <1>16,
     <1>17, <1>19, <1>20, <1>21, <1>22, <1>23 DEF Next, ClientStep, Environment

\* A step keeps a call's locals typed.
LEMMA TypeStep == TypeInv /\ [Next]_vars => TypeInv'
<1> SUFFICES ASSUME TypeInv, [Next]_vars PROVE TypeInv'
  OBVIOUS
<1>0. CallType  BY DEF TypeInv, TypeOK
<1>f. FsType'  BY FsStep
<1>i. ASSUME NEW res \in Outcomes, Idle(res) PROVE TypeInv'
  BY <1>i, <1>f, IdleType DEF TypeInv, TypeOK
<1>u. ASSUME UNCHANGED <<outcome, cancelled, call>>, pc' \in Pcs,
             pc' \notin {"idle", "start"} => pc \notin {"idle", "start"},
             pc' = "write" => pc = "write"
      PROVE  TypeInv'
  <2>1. CallType'  BY <1>0, <1>u, CallUnchanged
  <2> QED BY <1>f, <1>u, <2>1 DEF TypeInv, TypeOK, call
<1>1. ASSUME NEW p \in Policies, Call(p) PROVE TypeInv'
  <2>1. CASE p = "refuse" /\ dest # None  BY <1>1, <1>i, <2>1 DEF Call, Outcomes
  <2>2. CASE ~(p = "refuse" /\ dest # None)
    BY <1>0, <1>f, <1>1, <2>2, LimitAssumption DEF Call, CallType, Outcomes, Pcs, TypeInv, TypeOK
  <2> QED BY <2>1, <2>2
<1>2. ASSUME NEW r \in Roots, Start(r) PROVE TypeInv'
  BY <1>0, <1>f, <1>2 DEF Start, CallType, Pcs, TypeInv, TypeOK
<1>3. CASE ReadLen
  BY <1>0, <1>f, <1>3 DEF ReadLen, CallType, Pcs, TypeInv, TypeOK
<1>4. CASE LoadSidecar
  <2>1. Matches(side, man) => side.bits \subseteq Chunks
    BY DEF Matches, Sidecar, TypeInv, TypeOK, FsType
  <2> QED BY <1>0, <1>f, <1>4, <2>1 DEF LoadSidecar, CallType, Pcs, TypeInv, TypeOK
<1>5. CASE CreatePart  BY <1>u, <1>5 DEF CreatePart, Pcs
<1>6. CASE SetLen  BY <1>u, <1>6 DEF SetLen, Pcs
<1>7. CASE SaveFresh  BY <1>u, <1>7 DEF SaveFresh, Pcs
<1>8. CASE OpenPart
  <2>1. CASE part = None  BY <1>8, <1>i, <2>1 DEF OpenPart, Outcomes
  <2>2. CASE part # None  BY <1>8, <1>u, <2>2 DEF OpenPart, Pcs
  <2> QED BY <2>1, <2>2
<1>9. CASE Round
  BY <1>0, <1>f, <1>9 DEF Round, CommitThen, HolesAsked, CallType, Pcs, Goals, TypeInv, TypeOK
<1>10. CASE RecvCancelled
  BY <1>0, <1>f, <1>10 DEF RecvCancelled, CommitThen, CallType, Pcs, Goals, TypeInv, TypeOK
<1>11. ASSUME NEW i \in Chunks, RecvGood(i) PROVE TypeInv'
  BY <1>0, <1>f, <1>11 DEF RecvGood, CallType, Pcs, TypeInv, TypeOK
<1>12. ASSUME NEW timer \in BOOLEAN, MarkChunk(timer) PROVE TypeInv'
  BY <1>0, <1>f, <1>12 DEF MarkChunk, CommitThen, CallType, Pcs, Goals, TypeInv, TypeOK
<1>13. CASE RoundEnd
  BY <1>0, <1>f, <1>13 DEF RoundEnd, CommitThen, CallType, Pcs, Goals, TypeInv, TypeOK
<1>14. CASE Commit  BY <1>u, <1>14 DEF Commit, Pcs
<1>15. CASE Persist
  <2>1. CASE goal = "recv"  BY <1>u, <1>15, <2>1 DEF Persist, Pcs
  <2>2. CASE goal = "done"  BY <1>u, <1>15, <2>2 DEF Persist, Pcs
  <2>3. CASE goal \notin {"recv", "done"}
    BY <1>0, <1>i, <1>15, <2>3 DEF Persist, CallType, Goals, Outcomes
  <2> QED BY <2>1, <2>2, <2>3
<1>16. CASE SyncData  BY <1>u, <1>16 DEF SyncData, Pcs
<1>17. CASE LateCheck
  <2>1. CASE Refused  BY <1>i, <1>17, <2>1 DEF LateCheck, Outcomes
  <2>2. CASE ~Refused  BY <1>u, <1>17, <2>2 DEF LateCheck, Pcs
  <2> QED BY <2>1, <2>2
<1>18. CASE Rename
  <2>1. CASE part = None  BY <1>i, <1>18, <2>1 DEF Rename, Outcomes
  <2>2. CASE part # None  BY <1>u, <1>18, <2>2 DEF Rename, Pcs
  <2> QED BY <2>1, <2>2
<1>19. CASE RemoveSidecar  BY <1>i, <1>19 DEF RemoveSidecar, Outcomes
<1>20. CASE Cancel
  BY <1>0, <1>f, <1>20 DEF Cancel, CallType, TypeInv, TypeOK, call
<1>21. CASE DeletePart \/ DeleteSidecar \/ DestAppears
  BY <1>0, <1>u, <1>21 DEF DeletePart, DeleteSidecar, DestAppears, CallType
<1>22. CASE Abandon  BY <1>i, <1>22 DEF Abandon, Outcomes
<1>23. CASE Crash  BY <1>i, <1>23 DEF Crash, Outcomes
<1>24. CASE UNCHANGED vars  BY <1>0, <1>u, <1>24 DEF vars, CallType
<1> QED
  BY <1>1, <1>2, <1>3, <1>4, <1>5, <1>6, <1>7, <1>8, <1>9, <1>10, <1>11, <1>12, <1>13,
     <1>14, <1>15, <1>16, <1>17, <1>18, <1>19, <1>20, <1>21, <1>22, <1>23, <1>24
     DEF Next, ClientStep, Environment

\* The strengthening holds in every reachable state.
LEMMA TypeAlways == Spec => []TypeInv
<1>1. Init => TypeInv
  <2> SUFFICES ASSUME Init PROVE TypeInv
    OBVIOUS
  <2>1. FsType  BY DEF Init, FsType
  <2>2. /\ existing \in BOOLEAN /\ gained \in BOOLEAN /\ cancelled \in BOOLEAN
        /\ noProgress \in Nat /\ since \in Nat /\ cur \in Nat
    BY DEF Init
  <2>3. CallType  BY <2>2 DEF Init, CallType, Pcs, Goals, Outcomes
  <2> QED BY <2>1, <2>3 DEF Init, TypeInv, TypeOK
<1> QED BY <1>1, TypeStep, PTL DEF Spec

\* The state of a download keeps its shape, whatever the environment does.
THEOREM TypeCorrect == Spec => []TypeOK
<1>1. TypeInv => TypeOK  BY DEF TypeInv
<1> QED BY <1>1, TypeAlways, PTL

-----------------------------------------------------------------------------
(* The inductive invariant *)

Filling == {"open", "round", "recv", "write", "commit", "persist", "sync", "check", "rename"}

\* What the locals of a call say about the files: the resumed length is the
\* part's, the bits in memory claim data of the manifest's root, the sidecar
\* never leads them, and the part is whole once the fill loop is left.
CallInv ==
  /\ pc = "load" /\ existing /\ part # None => FullLen(part)
  /\ pc \in {"create", "setlen", "save"} => bits = {}
  /\ pc \in Filling /\ part # None => \A i \in bits : part.data[i] = man
  /\ pc \in Filling /\ side # None => side.root = man /\ side.bits \subseteq bits
  /\ pc \in {"persist", "check", "rename"} /\ part # None => \A i \in bits : part.disk[i] = {man}
  /\ pc \in {"commit", "persist"} /\ goal = "done" => bits = Chunks
  /\ pc \in {"sync", "check", "rename"} => bits = Chunks
  /\ pc = "write" => cur \notin bits
  /\ pc = "rename" /\ policy = "refuse" => dest = None

IInv == TypeInv /\ DestVerified /\ BitsBacked /\ CallInv

\* The operations a download applies to its part keep a sidecar backed.
LEMMA BackedOps ==
  ASSUME NEW f \in File, NEW s \in Sidecar, Backed(f, s)
  PROVE  /\ Backed(Truncated(f), s)
         /\ Backed(Synced(f), s)
         /\ \A i, v : i \in Chunks /\ i \notin s.bits => Backed(Written(f, i, v), s)
         /\ \A g \in Survivors(f) : Backed(g, s)
<1> USE MarkerAssumption
<1>0. f # None /\ s # None /\ s.bits \subseteq Chunks  BY DEF Sidecar
<1>1. Backed(Truncated(f), s)  BY <1>0 DEF Backed, Truncated
<1>2. Backed(Synced(f), s)  BY <1>0 DEF Backed, Synced
<1>3. ASSUME NEW i \in Chunks, NEW v, i \notin s.bits PROVE Backed(Written(f, i, v), s)
  BY <1>0, <1>3 DEF Backed, Written, File
<1>4. ASSUME NEW g \in Survivors(f) PROVE Backed(g, s)
  BY <1>0 DEF Backed, Survivors
<1> QED BY <1>1, <1>2, <1>3, <1>4

\* A new part has nothing a sidecar could claim before set_len.
LEMMA BackedNew == ASSUME NEW s \in Sidecar PROVE Backed(NewFile, s)
BY DEF Backed, NewFile, Sidecar

\* A finished destination survives a crash as it is.
LEMMA WholeSurvives ==
  ASSUME NEW d \in Result, WholeFile(d), NEW f \in Survivors(d.file)
  PROVE  WholeFile([root |-> d.root, file |-> f])
BY MarkerAssumption DEF WholeFile, Survivors, Result

\* Directory updates keep earlier states as good as the present one.
LEMMA UndoWhole ==
  ASSUME DestVerified, Unsynced PROVE \A t \in undo' : WholeFile(t[3])
BY DEF DestVerified, Unsynced, Here

\* What a crash may restore after an unsynced write is backed if it was before.
LEMMA UndoBacked ==
  ASSUME BitsBacked, ~InWindow, Unsynced PROVE \A t \in undo' : Backed(t[1], t[2])
BY DEF BitsBacked, Unsynced, Here

\* Only Rename and Crash change what a destination or a fallback holds.
LEMMA DestStep == IInv /\ [Next]_vars => DestVerified'
<1> SUFFICES ASSUME IInv, [Next]_vars PROVE DestVerified'
  OBVIOUS
<1>0. DestVerified  BY DEF IInv
<1>1. CASE UNCHANGED <<dest, undo>>  BY <1>0, <1>1 DEF DestVerified, WholeFile
<1>2. CASE dest' = dest /\ Unsynced  BY <1>0, <1>2, UndoWhole DEF DestVerified, WholeFile
<1>3. CASE dest' = dest /\ undo' = {}  BY <1>0, <1>3 DEF DestVerified, WholeFile
<1>4. CASE Rename
  <2>1. CASE part = None  BY <1>1, <1>4, <2>1 DEF Rename, fs
  <2>2. CASE part # None
    <3>1. \A i \in Chunks : part.data[i] = man /\ part.disk[i] = {man}
      BY <1>4, <2>2 DEF Rename, IInv, CallInv, Filling
    <3>2. WholeFile(dest')  BY <1>4, <2>2, <3>1 DEF Rename, WholeFile
    <3> QED BY <1>0, <1>4, <2>2, <3>2, UndoWhole DEF Rename, DestVerified, WholeFile
  <2> QED BY <2>1, <2>2
<1>5. CASE DestAppears
  <2>1. WholeFile(Foreign)  BY DEF WholeFile
  <2>2. \A t \in undo' : t[3] = Foreign  BY <1>5 DEF DestAppears
  <2> QED BY <1>5, <2>1, <2>2 DEF DestAppears, DestVerified, WholeFile
<1>6. CASE Crash
  <2> PICK t \in undo \cup {Here} :
       /\ part' \in IF t[1] = None THEN {None} ELSE Survivors(t[1])
       /\ side' = t[2]
       /\ dest' \in IF t[3] \in {None, Foreign} THEN {t[3]}
                    ELSE {[root |-> t[3].root, file |-> f] : f \in Survivors(t[3].file)}
    BY <1>6 DEF Crash
  <2>1. t[3] \in Result \cup {None, Foreign} /\ WholeFile(t[3])
    BY <1>0 DEF Here, DestVerified, IInv, TypeInv, TypeOK, FsType
  <2>2. WholeFile(dest')
    <3>1. CASE t[3] \in {None, Foreign}  BY <2>1, <3>1
    <3>2. CASE t[3] \notin {None, Foreign}  BY <2>1, <3>2, WholeSurvives
    <3> QED BY <3>1, <3>2
  <2> QED BY <1>6, <2>2 DEF Crash, DestVerified, WholeFile
<1>7. CASE CreatePart  BY <1>1, <1>2, <1>7 DEF CreatePart
<1>8. CASE SaveFresh \/ Persist  BY <1>3, <1>8 DEF SaveFresh, Persist, SaveAtomic
<1>9. CASE RemoveSidecar \/ DeletePart \/ DeleteSidecar
  BY <1>2, <1>9 DEF RemoveSidecar, DeletePart, DeleteSidecar
<1>10. CASE SetLen \/ Commit \/ SyncData \/ Cancel \/ Abandon
  BY <1>1, <1>10 DEF SetLen, Commit, SyncData, Cancel, Abandon, fs
<1>11. CASE ReadLen \/ LoadSidecar \/ OpenPart \/ Round \/ RecvCancelled \/ RoundEnd \/ LateCheck
  BY <1>1, <1>11
     DEF ReadLen, LoadSidecar, OpenPart, Round, RecvCancelled, RoundEnd, LateCheck, fs
<1>12. ASSUME NEW i \in Chunks, RecvGood(i) PROVE DestVerified'  BY <1>1, <1>12 DEF RecvGood
<1>13. ASSUME NEW timer \in BOOLEAN, MarkChunk(timer) PROVE DestVerified'
  BY <1>1, <1>13 DEF MarkChunk
<1>14. ASSUME NEW r \in Roots, Start(r) PROVE DestVerified'  BY <1>1, <1>14 DEF Start, fs
<1>15. ASSUME NEW p \in Policies, Call(p) PROVE DestVerified'  BY <1>1, <1>15 DEF Call, fs
<1>16. CASE UNCHANGED vars  BY <1>1, <1>16 DEF vars, fs
<1> QED
  BY <1>4, <1>5, <1>6, <1>7, <1>8, <1>9, <1>10, <1>11, <1>12, <1>13, <1>14, <1>15, <1>16
     DEF Next, ClientStep, Environment

\* With the window spared, no step lets a sidecar claim more than its part holds.
LEMMA BackedStep == "window" \notin Faults /\ IInv /\ [Next]_vars => BitsBacked'
<1> SUFFICES ASSUME "window" \notin Faults, IInv, [Next]_vars PROVE BitsBacked'
  OBVIOUS
<1>0. FsType /\ BitsBacked  BY DEF IInv, TypeInv, TypeOK
<1>p. part \in File \cup {None} /\ side \in Sidecar \cup {None}  BY <1>0 DEF FsType
<1>1. CASE UNCHANGED <<part, side, undo, pc>>  BY <1>0, <1>1 DEF BitsBacked, InWindow
<1>2. CASE UNCHANGED <<part, side, undo>> /\ ~InWindow
  BY <1>0, <1>2 DEF BitsBacked, InWindow
<1>3. CASE undo' = undo /\ ~InWindow /\ Backed(part', side')
  BY <1>0, <1>3 DEF BitsBacked, InWindow
<1>4. CASE Unsynced /\ ~InWindow /\ Backed(part', side')
  BY <1>0, <1>4, UndoBacked DEF BitsBacked, InWindow
<1>5. CASE undo' = {} /\ Backed(part', side')  BY <1>5 DEF BitsBacked
<1>6. CASE CreatePart
  <2>1. ~InWindow  BY <1>6 DEF CreatePart, InWindow
  <2>2. Backed(part, side)  BY <1>0, <2>1 DEF BitsBacked
  <2>3. CASE side = None  BY <1>3, <1>4, <1>6, <2>1, <2>3 DEF CreatePart, Backed
  <2>4. CASE side # None /\ part = None
    BY <1>p, <1>4, <1>6, <2>1, <2>4, BackedNew DEF CreatePart
  <2>5. CASE side # None /\ part # None
    BY <1>p, <1>3, <1>6, <2>1, <2>2, <2>5, BackedOps DEF CreatePart
  <2> QED BY <2>3, <2>4, <2>5
<1>7. CASE SetLen  BY <1>7 DEF SetLen, BitsBacked, InWindow
<1>8. CASE SaveFresh
  BY <1>5, <1>8 DEF SaveFresh, SaveAtomic, Backed
<1>9. ASSUME NEW i \in Chunks, RecvGood(i) PROVE BitsBacked'
  <2>1. ~InWindow /\ Backed(part, side)  BY <1>0, <1>9 DEF RecvGood, InWindow, BitsBacked
  <2>2. CASE part = None \/ side = None
    BY <1>3, <1>9, <2>1, <2>2 DEF RecvGood, PartWritten, Backed
  <2>3. CASE part # None /\ side # None
    <3>1. i \notin side.bits  BY <1>9, <2>3 DEF RecvGood, IInv, CallInv, Filling
    <3>2. Backed(Written(part, i, Junk), side)  BY <1>p, <2>1, <2>3, <3>1, BackedOps
    <3> QED BY <1>3, <1>9, <2>1, <2>3, <3>2 DEF RecvGood, PartWritten
  <2> QED BY <2>2, <2>3
<1>10. ASSUME NEW timer \in BOOLEAN, MarkChunk(timer) PROVE BitsBacked'
  <2>1. ~InWindow /\ Backed(part, side)  BY <1>0, <1>10 DEF MarkChunk, InWindow, BitsBacked
  <2>2. CASE part = None \/ side = None
    BY <1>3, <1>10, <2>1, <2>2 DEF MarkChunk, PartWritten, Backed
  <2>3. CASE part # None /\ side # None
    <3>1. cur \in Chunks /\ cur \notin side.bits
      BY <1>10, <2>3 DEF MarkChunk, IInv, TypeInv, CallInv, Filling
    <3>2. Backed(Written(part, cur, man), side)  BY <1>p, <2>1, <2>3, <3>1, BackedOps
    <3> QED BY <1>3, <1>10, <2>1, <2>3, <3>2 DEF MarkChunk, PartWritten
  <2> QED BY <2>2, <2>3
<1>11. CASE Commit \/ SyncData
  <2>1. ~InWindow /\ Backed(part, side)
    BY <1>0, <1>11 DEF Commit, SyncData, InWindow, BitsBacked
  <2>2. CASE part = None \/ side = None
    BY <1>3, <1>11, <2>1, <2>2 DEF Commit, SyncData, PartSynced, Backed
  <2>3. CASE part # None /\ side # None
    <3>1. Backed(Synced(part), side)  BY <1>p, <2>1, <2>3, BackedOps
    <3> QED BY <1>3, <1>11, <2>1, <2>3, <3>1 DEF Commit, SyncData, PartSynced
  <2> QED BY <2>2, <2>3
<1>12. CASE Persist
  <2>1. part # None => \A i \in bits : part.data[i] = man /\ part.disk[i] = {man}
    BY <1>12 DEF Persist, IInv, CallInv, Filling
  <2>2. Backed(part', side')  BY <1>12, <2>1 DEF Persist, SaveAtomic, Backed
  <2> QED BY <1>5, <1>12, <2>2 DEF Persist, SaveAtomic
<1>13. CASE Rename
  <2>1. ~InWindow  BY <1>13 DEF Rename, InWindow
  <2>2. CASE part = None  BY <1>2, <1>13, <2>1, <2>2 DEF Rename, fs
  <2>3. CASE part # None  BY <1>4, <1>13, <2>1, <2>3 DEF Rename, Backed
  <2> QED BY <2>2, <2>3
<1>14. CASE RemoveSidecar
  BY <1>4, <1>14 DEF RemoveSidecar, InWindow, Backed
<1>15. CASE DeletePart \/ DeleteSidecar
  <2>1. CASE InWindow  BY <1>15, <2>1 DEF DeletePart, DeleteSidecar, BitsBacked, InWindow
  <2>2. CASE ~InWindow
    BY <1>4, <1>15, <2>2 DEF DeletePart, DeleteSidecar, Backed
  <2> QED BY <2>1, <2>2
<1>16. CASE DestAppears
  <2>1. CASE InWindow  BY <1>16, <2>1 DEF DestAppears, BitsBacked, InWindow
  <2>2. CASE ~InWindow
    <3>1. \A t \in undo' : \E u \in undo : t[1] = u[1] /\ t[2] = u[2]
      BY <1>16 DEF DestAppears
    <3> QED BY <1>0, <1>16, <2>2, <3>1 DEF DestAppears, BitsBacked, InWindow
  <2> QED BY <2>1, <2>2
<1>17. CASE Crash
  <2> PICK t \in undo \cup {Here} :
       /\ part' \in IF t[1] = None THEN {None} ELSE Survivors(t[1])
       /\ side' = t[2]
    BY <1>17 DEF Crash
  <2>1. t[1] \in File \cup {None} /\ t[2] \in Sidecar \cup {None}
    BY <1>0 DEF Here, FsType
  <2>2. ~InWindow  BY <1>17 DEF Crash
  <2>3. Backed(t[1], t[2])  BY <1>0, <2>2 DEF Here, BitsBacked
  <2>4. Backed(part', side')
    <3>1. CASE t[1] = None \/ t[2] = None  BY <3>1 DEF Backed
    <3>2. CASE t[1] # None /\ t[2] # None  BY <2>1, <2>3, <3>2, BackedOps
    <3> QED BY <3>1, <3>2
  <2> QED BY <1>5, <1>17, <2>4 DEF Crash
<1>18. CASE ReadLen \/ LoadSidecar \/ OpenPart \/ Round \/ RecvCancelled \/ RoundEnd \/ LateCheck
  BY <1>2, <1>18
     DEF ReadLen, LoadSidecar, OpenPart, Round, RecvCancelled, RoundEnd, LateCheck, fs, InWindow
<1>19. CASE Abandon  BY <1>2, <1>19 DEF Abandon, fs
<1>20. CASE Cancel  BY <1>1, <1>20 DEF Cancel, fs
<1>21. ASSUME NEW r \in Roots, Start(r) PROVE BitsBacked'
  BY <1>2, <1>21 DEF Start, fs, InWindow
<1>22. ASSUME NEW p \in Policies, Call(p) PROVE BitsBacked'
  BY <1>2, <1>22 DEF Call, fs, InWindow
<1>23. CASE UNCHANGED vars  BY <1>1, <1>23 DEF vars, fs
<1> QED
  BY <1>6, <1>7, <1>8, <1>9, <1>10, <1>11, <1>12, <1>13, <1>14, <1>15, <1>16, <1>17, <1>18,
     <1>19, <1>20, <1>21, <1>22, <1>23 DEF Next, ClientStep, Environment

\* What a call's locals say of the files survives every step.
LEMMA CallInvStep == IInv /\ [Next]_vars => CallInv'
<1> SUFFICES ASSUME IInv, [Next]_vars PROVE CallInv'
  OBVIOUS
<1>0. /\ CallInv /\ TypeInv
      /\ part \in File \cup {None} /\ side \in Sidecar \cup {None} /\ bits \subseteq Chunks
  BY DEF IInv, TypeInv, TypeOK, FsType, CallType
<1>i. ASSUME NEW res, Idle(res) PROVE CallInv'
  BY <1>i DEF Idle, CallInv, Filling
<1>1. ASSUME NEW p \in Policies, Call(p) PROVE CallInv'
  <2>1. CASE p = "refuse" /\ dest # None  BY <1>1, <1>i, <2>1 DEF Call
  <2>2. CASE ~(p = "refuse" /\ dest # None)  BY <1>1, <2>2 DEF Call, CallInv, Filling
  <2> QED BY <2>1, <2>2
<1>2. ASSUME NEW r \in Roots, Start(r) PROVE CallInv'  BY <1>2 DEF Start, CallInv, Filling
<1>3. CASE ReadLen  BY <1>3 DEF ReadLen, CallInv, Filling, fs, FullLen
<1>4. CASE LoadSidecar
  <2>1. CASE Matches(side, man) /\ existing
    <3>1. part # None => \A i \in side.bits : part.data[i] = man
      <4>1. part # None => Backed(part, side) /\ FullLen(part)
        BY <1>0, <1>4, <2>1 DEF LoadSidecar, IInv, BitsBacked, InWindow, CallInv
      <4> QED BY <1>0, <2>1, <4>1 DEF Matches, Backed, FullLen, Sidecar
    <3> QED BY <1>4, <2>1, <3>1 DEF LoadSidecar, Matches, CallInv, Filling, fs
  <2>2. CASE ~(Matches(side, man) /\ existing)
    BY <1>4, <2>2 DEF LoadSidecar, CallInv, Filling
  <2> QED BY <2>1, <2>2
<1>5. CASE CreatePart  BY <1>0, <1>5 DEF CreatePart, CallInv, Filling, call
<1>6. CASE SetLen  BY <1>0, <1>6 DEF SetLen, CallInv, Filling, call
<1>7. CASE SaveFresh  BY <1>0, <1>7 DEF SaveFresh, SaveAtomic, CallInv, Filling, call
<1>8. CASE OpenPart
  <2>1. CASE part = None  BY <1>8, <1>i, <2>1 DEF OpenPart
  <2>2. CASE part # None  BY <1>0, <1>8, <2>2 DEF OpenPart, CallInv, Filling, fs, call
  <2> QED BY <2>1, <2>2
<1>9. CASE Round  BY <1>0, <1>9 DEF Round, CommitThen, CallInv, Filling, fs
<1>10. CASE RecvCancelled  BY <1>0, <1>10 DEF RecvCancelled, CommitThen, CallInv, Filling, fs
<1>11. ASSUME NEW i \in Chunks, RecvGood(i) PROVE CallInv'
  <2>1. part # None => \A j \in bits : Written(part, i, Junk).data[j] = man
    BY <1>0, <1>11 DEF RecvGood, CallInv, Filling, Written, File
  <2> QED BY <1>0, <1>11, <2>1 DEF RecvGood, PartWritten, CallInv, Filling
<1>12. ASSUME NEW timer \in BOOLEAN, MarkChunk(timer) PROVE CallInv'
  <2>1. part # None => \A j \in bits \cup {cur} : Written(part, cur, man).data[j] = man
    BY <1>0, <1>12 DEF MarkChunk, CallInv, Filling, Written, File, TypeInv
  <2> QED BY <1>0, <1>12, <2>1 DEF MarkChunk, PartWritten, CommitThen, CallInv, Filling
<1>13. CASE RoundEnd  BY <1>0, <1>13 DEF RoundEnd, CommitThen, CallInv, Filling, fs
<1>14. CASE Commit
  <2>1. part # None => \A j \in bits : Synced(part).data[j] = man /\ Synced(part).disk[j] = {man}
    BY <1>0, <1>14 DEF Commit, CallInv, Filling, Synced
  <2> QED BY <1>0, <1>14, <2>1 DEF Commit, PartSynced, CallInv, Filling, call
<1>15. CASE Persist
  <2>1. CASE goal \in {"recv", "done"}
    BY <1>0, <1>15, <2>1 DEF Persist, SaveAtomic, CallInv, Filling, call
  <2>2. CASE goal \notin {"recv", "done"}  BY <1>15, <1>i, <2>2 DEF Persist
  <2> QED BY <2>1, <2>2
<1>16. CASE SyncData
  <2>1. part # None => \A j \in bits : Synced(part).data[j] = man /\ Synced(part).disk[j] = {man}
    BY <1>0, <1>16 DEF SyncData, CallInv, Filling, Synced
  <2> QED BY <1>0, <1>16, <2>1 DEF SyncData, PartSynced, CallInv, Filling, call
<1>17. CASE LateCheck
  <2>1. CASE Refused  BY <1>i, <1>17, <2>1 DEF LateCheck
  <2>2. CASE ~Refused
    <3>1. CallInv /\ bits = Chunks /\ pc = "check"  BY <1>0, <1>17 DEF LateCheck, CallInv
    <3> QED BY <1>17, <2>2, <3>1 DEF LateCheck, Refused, CallInv, Filling, fs, call
  <2> QED BY <2>1, <2>2
<1>18. CASE Rename
  <2>1. CASE part = None  BY <1>i, <1>18, <2>1 DEF Rename
  <2>2. CASE part # None  BY <1>18, <2>2 DEF Rename, CallInv, Filling
  <2> QED BY <2>1, <2>2
<1>19. CASE RemoveSidecar  BY <1>i, <1>19 DEF RemoveSidecar
<1>20. CASE Cancel  BY <1>0, <1>20 DEF Cancel, CallInv, fs, call
<1>21. CASE DeletePart  BY <1>0, <1>21 DEF DeletePart, CallInv, call
<1>22. CASE DeleteSidecar  BY <1>0, <1>22 DEF DeleteSidecar, CallInv, call
<1>23. CASE DestAppears  BY <1>0, <1>23 DEF DestAppears, CallInv, call
<1>24. CASE Abandon  BY <1>i, <1>24 DEF Abandon
<1>25. CASE Crash  BY <1>i, <1>25 DEF Crash
<1>26. CASE UNCHANGED vars  BY <1>0, <1>26 DEF vars, fs, call, CallInv
<1> QED
  BY <1>1, <1>2, <1>3, <1>4, <1>5, <1>6, <1>7, <1>8, <1>9, <1>10, <1>11, <1>12, <1>13,
     <1>14, <1>15, <1>16, <1>17, <1>18, <1>19, <1>20, <1>21, <1>22, <1>23, <1>24, <1>25, <1>26
     DEF Next, ClientStep, Environment

\* IInv is inductive when faults spare the fresh-start window.
LEMMA Inductive == ASSUME "window" \notin Faults PROVE Spec => []IInv
<1>1. Init => IInv
  <2> SUFFICES ASSUME Init PROVE IInv
    OBVIOUS
  <2>1. TypeInv
    <3>1. FsType  BY DEF Init, FsType
    <3>2. /\ existing \in BOOLEAN /\ gained \in BOOLEAN /\ cancelled \in BOOLEAN
          /\ noProgress \in Nat /\ since \in Nat /\ cur \in Nat
      BY DEF Init
    <3>3. CallType  BY <3>2 DEF Init, CallType, Pcs, Goals, Outcomes
    <3> QED BY <3>1, <3>3 DEF Init, TypeInv, TypeOK
  <2>2. DestVerified /\ BitsBacked  BY DEF Init, DestVerified, WholeFile, BitsBacked, Backed
  <2>3. CallInv  BY DEF Init, CallInv, Filling
  <2> QED BY <2>1, <2>2, <2>3 DEF IInv
<1>2. IInv /\ [Next]_vars => IInv'
  BY TypeStep, DestStep, BackedStep, CallInvStep DEF IInv
<1> QED BY <1>1, <1>2, PTL DEF Spec

\* download_to_inner: with faults that spare the window between set_len of a
\* fresh part and the save of its sidecar, a finished destination holds exactly
\* the bytes of the root it was downloaded for, before and after any crash.
THEOREM DestCorrect == ASSUME "window" \notin Faults PROVE Spec => []DestVerified
<1>1. IInv => DestVerified  BY DEF IInv
<1> QED BY <1>1, Inductive, PTL

\* Rule 2 of resume.rs, under the same condition: no sidecar a crash may leave
\* claims a chunk its part does not hold on disk.
THEOREM SidecarBacked == ASSUME "window" \notin Faults PROVE Spec => []BitsBacked
<1>1. IInv => BitsBacked  BY DEF IInv
<1> QED BY <1>1, Inductive, PTL

\* Overwrite::Refuse: no call renames over a destination its late check saw.
THEOREM RefuseSafe == ASSUME "window" \notin Faults PROVE Spec => RefuseKeepsDest
<1>1. IInv /\ [Next]_vars => [pc = "rename" /\ dest' # dest /\ policy = "refuse" => dest = None]_vars
  BY DEF IInv, CallInv
<1> QED BY <1>1, Inductive, PTL DEF Spec, RefuseKeepsDest

-----------------------------------------------------------------------------
(* Batched saves *)

\* A step of the counter: since is what the sidecar may lack while replies
\* arrive, and it is 0 wherever memory and sidecar were last made equal.
LossInv ==
  /\ since < SaveEvery
  /\ pc \in {"idle", "start", "len", "load", "create", "setlen", "save", "open"} => since = 0
  /\ pc \in {"create", "setlen", "save"} => bits = {}
  /\ pc = "open" /\ side # None => bits = side.bits
  /\ pc \in {"commit", "persist"} /\ goal = "recv" => since = 0
  /\ pc \in {"round", "recv", "write"} /\ side # None => Cardinality(bits \ side.bits) <= since

\* One more bit is at most one more that the sidecar lacks.
LEMMA OneMore ==
  ASSUME NEW b \in SUBSET Chunks, NEW s, NEW i, NEW n \in Nat, Cardinality(b \ s) <= n
  PROVE  Cardinality((b \cup {i}) \ s) <= n + 1
<1>1. IsFiniteSet(b \ s)
  <2>1. IsFiniteSet(Chunks)
    BY FS_Interval
  <2>. QED
    BY <2>1, FS_Subset
<1>2. /\ IsFiniteSet((b \ s) \cup {i}) /\ Cardinality(b \ s) \in Nat
      /\ Cardinality((b \ s) \cup {i}) \in {Cardinality(b \ s), Cardinality(b \ s) + 1}
  <2>1. Cardinality((b \ s) \cup {i})
          = IF i \in b \ s THEN Cardinality(b \ s) ELSE Cardinality(b \ s) + 1
    BY <1>1, FS_AddElement, Zenon
  <2>2. IsFiniteSet((b \ s) \cup {i}) /\ Cardinality(b \ s) \in Nat
    BY <1>1, FS_AddElement, FS_CardinalityType, Zenon
  <2>. QED
    BY <2>1, <2>2
<1>3. (b \cup {i}) \ s \in SUBSET ((b \ s) \cup {i})
  OBVIOUS
<1>4. /\ Cardinality((b \cup {i}) \ s) \in Nat
      /\ Cardinality((b \cup {i}) \ s) <= Cardinality((b \ s) \cup {i})
  BY <1>2, <1>3, FS_Subset, FS_CardinalityType, Zenon
<1>. QED
  BY <1>2, <1>4

\* The counter of marks is kept by every step, whatever the faults.
LEMMA LossStep == ASSUME TypeInv, LossInv, [Next]_vars PROVE LossInv'
<1> USE LimitAssumption
<1>0. since \in Nat /\ SaveEvery \in Nat \ {0} /\ bits \subseteq Chunks /\ goal \in Goals
  BY DEF TypeInv, TypeOK, CallType
<1>e. \A b : Cardinality(b \ b) = 0
  BY FS_EmptySet
<1>i. ASSUME NEW res, Idle(res) PROVE LossInv'
  BY <1>i DEF Idle, LossInv
<1>k. ASSUME UNCHANGED <<pc, call>>, side' \in {side, None} PROVE LossInv'
  BY <1>k DEF LossInv, call
<1>1. ASSUME NEW p \in Policies, Call(p) PROVE LossInv'
  <2>1. CASE p = "refuse" /\ dest # None
    BY <1>1, <1>i, <2>1 DEF Call
  <2>2. CASE ~(p = "refuse" /\ dest # None)
    BY <1>1, <2>2 DEF Call, LossInv
  <2>. QED
    BY <2>1, <2>2
<1>2. ASSUME NEW r \in Roots, Start(r) PROVE LossInv'
  BY <1>2 DEF Start, LossInv
<1>3. CASE ReadLen
  BY <1>3 DEF ReadLen, LossInv
<1>4. CASE LoadSidecar
  BY <1>4 DEF LoadSidecar, LossInv, fs
<1>5. CASE CreatePart \/ SetLen
  BY <1>5 DEF CreatePart, SetLen, LossInv, call
<1>6. CASE SaveFresh
  BY <1>6 DEF SaveFresh, SaveAtomic, LossInv, call
<1>7. CASE OpenPart
  <2>1. CASE part = None
    BY <1>7, <1>i, <2>1 DEF OpenPart
  <2>2. CASE part # None
    BY <1>e, <1>7, <2>2 DEF OpenPart, LossInv, fs, call
  <2>. QED
    BY <2>1, <2>2
<1>8. CASE Round \/ RecvCancelled \/ RoundEnd
  BY <1>8 DEF Round, RecvCancelled, RoundEnd, CommitThen, LossInv, fs
<1>9. ASSUME NEW i \in Chunks, RecvGood(i) PROVE LossInv'
  BY <1>9 DEF RecvGood, LossInv
<1>10. ASSUME NEW timer \in BOOLEAN, MarkChunk(timer) PROVE LossInv'
  <2>1. side # None => Cardinality(bits' \ side.bits) <= since + 1
    BY <1>0, <1>10, OneMore DEF MarkChunk, LossInv
  <2>. QED
    BY <1>0, <1>10, <2>1 DEF MarkChunk, CommitThen, SaveDue, LossInv
<1>11. CASE Commit
  BY <1>11 DEF Commit, LossInv, call
<1>12. CASE Persist
  <2>1. CASE goal = "recv"
    BY <1>0, <1>e, <1>12, <2>1 DEF Persist, SaveAtomic, LossInv, call
  <2>2. CASE goal = "done"
    BY <1>12, <2>2 DEF Persist, LossInv, call
  <2>3. CASE goal \notin {"recv", "done"}
    BY <1>12, <1>i, <2>3 DEF Persist
  <2>. QED
    BY <2>1, <2>2, <2>3
<1>13. CASE SyncData
  BY <1>13 DEF SyncData, LossInv, call
<1>14. CASE LateCheck
  BY <1>14, <1>i DEF LateCheck, LossInv, call
<1>15. CASE Rename
  BY <1>15, <1>i DEF Rename, LossInv, call
<1>16. CASE RemoveSidecar \/ Abandon \/ Crash
  BY <1>16, <1>i DEF RemoveSidecar, Abandon, Crash
<1>17. CASE Cancel \/ DeletePart \/ DeleteSidecar \/ DestAppears
  BY <1>17, <1>k DEF Cancel, DeletePart, DeleteSidecar, DestAppears, fs
<1>18. CASE UNCHANGED vars
  BY <1>18, <1>k DEF vars, fs
<1>. QED
  BY <1>1, <1>2, <1>3, <1>4, <1>5, <1>6, <1>7, <1>8, <1>9, <1>10, <1>11, <1>12, <1>13, <1>14,
     <1>15, <1>16, <1>17, <1>18 DEF Next, ClientStep, Environment

\* fill_holes saves after SaveEvery marks: while replies arrive, a crash costs
\* fewer than SaveEvery verified chunks, however many chunks there are, also in
\* the calls that follow a crash in the fresh-start window.
THEOREM LossBounded == Spec => []BoundedLoss
<1>1. Init => LossInv
  BY LimitAssumption DEF Init, LossInv
<1>2. TypeInv /\ LossInv => BoundedLoss
  <2> SUFFICES ASSUME TypeInv, LossInv, pc = "recv", side # None
               PROVE  Cardinality(bits \ side.bits) < SaveEvery
    BY DEF BoundedLoss
  <2>1. since \in Nat /\ IsFiniteSet(bits \ side.bits)
    <3>1. IsFiniteSet(Chunks)
      BY FS_Interval
    <3>. QED
      BY <3>1, FS_Subset DEF TypeInv, TypeOK, CallType
  <2>. QED
    BY <2>1, FS_CardinalityType, LimitAssumption DEF LossInv
<1>3. TypeInv /\ LossInv /\ [Next]_vars => LossInv'
  BY LossStep
<1>. QED
  BY <1>1, <1>2, <1>3, TypeAlways, PTL DEF Spec
=============================================================================
