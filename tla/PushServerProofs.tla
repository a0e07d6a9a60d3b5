-------------------------- MODULE PushServerProofs --------------------------
(***************************************************************************)
(* Proofs about PushServer for every set of ids, contents and handlers,    *)
(* every number of chunks and every cap; and, last, about its spool        *)
(* directory where the uploaders of an id take turns: records and served   *)
(* files are backed by bytes on disk, and an upload that returned Ok was   *)
(* registered.                                                             *)
(***************************************************************************)
EXTENDS PushServer, FiniteSetTheorems, WellFoundedInduction, TLAPS

USE SizeAssumption DEF Chunks

\* A handler at work has an id and a content, and in a slice a chunk.
HandlerType(h) ==
  /\ hs[h].step # "free" => hs[h].id \in Ids /\ hs[h].root \in Roots
  /\ hs[h].step \in {"s_write", "s_mark", "s_save"} => hs[h].chunk \in Chunks
  /\ hs[h].next \in {"free", "refuse", "f_take", "o_probe"}

\* The uploader has an id and a content once it was called, and chunks to send
\* while it sends; only then does it wait for a handler.
UploadType ==
  /\ up \in Upload
  /\ up.at # "idle" => up.id \in Ids /\ up.root \in Roots
  /\ up.at = "sending" => up.todo # {}
  /\ up.h # None => up.at \in {"asking", "sending"}

\* The type invariant with what each step tells of the locals.
TypeInv == TypeOK /\ UploadType /\ \A h \in Handlers : HandlerType(h)

-----------------------------------------------------------------------------
(* Types *)

\* The world is chosen once.
LEMMA WorldType ==
  ASSUME TypeOK
  PROVE  world.ids \subseteq Ids /\ world.roots \subseteq Roots /\ world.handlers \subseteq Handlers
BY DEF TypeOK, World

\* A free handler has a handler's shape.
LEMMA FreeType == Free \in Handler
BY DEF Free, Starting, Handler, Steps

\* A handler that ends, and the uploader that waits for its answer.
LEMMA ToldType ==
  ASSUME UploadType, up.at # "idle", NEW todo \in SUBSET Chunks, Told(todo)
  PROVE  UploadType'
BY DEF Told, Upload, UploadType

\* An upload that fails has an upload's shape.
LEMMA FailedType == ASSUME UploadType, up.at # "idle", Failed PROVE UploadType'
BY DEF Failed, Upload, UploadType

\* So has one that is left alone.
LEMMA UploadKept == ASSUME UploadType, up' = up PROVE UploadType'
BY DEF UploadType

\* The uploader that waits for a handler was called.
LEMMA Called == ASSUME UploadType, NEW h \in Handlers, up.h = h PROVE up.at # "idle"
BY MarkerAssumption DEF UploadType

\* A handler that ends keeps the shape of them all.
LEMMA FreedType ==
  ASSUME TypeInv, NEW h \in Handlers, hs' = [hs EXCEPT ![h] = Free]
  PROVE  hs' \in [Handlers -> Handler] /\ \A g \in Handlers : HandlerType(g)'
<1>1. hs' \in [Handlers -> Handler]
  BY FreeType DEF TypeInv, TypeOK
<1>2. \A g \in Handlers : HandlerType(g)'
  BY DEF TypeInv, TypeOK, HandlerType, Free, Starting
<1>. QED
  BY <1>1, <1>2

\* An answer ends its handler and moves the uploader that waits for it.
LEMMA DoneType ==
  ASSUME TypeInv, NEW h \in Handlers, NEW b \in SUBSET Chunks, Done(h, b)
  PROVE  /\ hs' \in [Handlers -> Handler] /\ \A g \in Handlers : HandlerType(g)'
         /\ UploadType'
<1>1. hs' = [hs EXCEPT ![h] = Free]
  BY DEF Done
<1>2. CASE up.h # h
  BY <1>1, <1>2, FreedType, UploadKept DEF Done, TypeInv
<1>3. CASE up.h = h
  <2>1. /\ UploadType /\ up.at # "idle"
        /\ up.todo \in SUBSET Chunks /\ Missing(b) \in SUBSET Chunks
    BY <1>3, Called DEF TypeInv, TypeOK, Upload, Missing
  <2> DEFINE todo == IF up.at = "asking" THEN Missing(b) ELSE up.todo \ {hs[h].chunk}
  <2>2. todo \in SUBSET Chunks
    BY <2>1
  <2>3. Told(todo)
    BY <1>3 DEF Done
  <2> HIDE DEF todo
  <2>. QED
    BY <1>1, <2>1, <2>2, <2>3, FreedType, ToldType
<1>. QED
  BY <1>2, <1>3

\* A refusal does the same.
LEMMA RefuseType ==
  ASSUME TypeInv, NEW h \in Handlers, Refuse(h)
  PROVE  /\ hs' \in [Handlers -> Handler] /\ \A g \in Handlers : HandlerType(g)'
         /\ UploadType'
BY FreedType, FailedType, UploadKept, Called DEF Refuse, TypeInv

\* A handler that goes to another step, with other locals or the same.
LEMMA GotoType ==
  ASSUME TypeInv, NEW h \in Handlers, NEW s \in Steps, hs[h].step # "free", Goto(h, s),
         s \in {"s_write", "s_mark", "s_save"} => hs[h].chunk \in Chunks
  PROVE  /\ hs' \in [Handlers -> Handler] /\ \A g \in Handlers : HandlerType(g)'
         /\ UploadType'
<1>1. hs \in [Handlers -> Handler] /\ hs' = [hs EXCEPT ![h].step = s]
  BY DEF Goto, TypeInv, TypeOK
<1>2. hs' \in [Handlers -> Handler]
  BY <1>1 DEF Handler
<1>3. ASSUME NEW g \in Handlers PROVE HandlerType(g)'
  BY <1>1 DEF TypeInv, HandlerType, Handler
<1>. QED
  BY <1>2, <1>3, UploadKept DEF Goto, TypeInv

\* What TypeInv says of the handlers and the uploader, and of the rest.
ActorsType ==
  hs \in [Handlers -> Handler] /\ UploadType /\ \A h \in Handlers : HandlerType(h)
\* The files have their shape.
SpoolType ==
  /\ part \in [Ids -> Content \cup {None}] /\ blob \in [Ids -> Content \cup {None}]
  /\ side \in [Ids -> Sidecar \cup {None}]
\* The maps behind the locks have theirs.
MapsType == pushes \in [Ids -> Entry \cup {None}] /\ registry \in [Ids -> Serving \cup {None}]

\* The invariant falls into these parts.
LEMMA TypeSplit == TypeInv <=> ActorsType /\ SpoolType /\ MapsType /\ world \in Worlds
BY DEF TypeInv, TypeOK, UploadType, ActorsType, SpoolType, MapsType

\* Offer and Slice start a handler.
LEMMA StartType ==
  ASSUME TypeInv, NEW h \in Handlers, NEW s \in Steps, NEW x \in Ids, NEW r \in Roots,
         NEW i \in Nat, s \in {"s_write", "s_mark", "s_save"} => i \in Chunks,
         hs' = [hs EXCEPT ![h] = Starting(s, x, r, i)], UploadType'
  PROVE  ActorsType'
<1>1. Starting(s, x, r, i) \in Handler
  BY DEF Starting, Handler, Steps
<1>2. hs \in [Handlers -> Handler]
  BY DEF TypeInv, TypeOK
<1>3. hs' \in [Handlers -> Handler]
  BY <1>1, <1>2
<1>4. ASSUME NEW g \in Handlers PROVE HandlerType(g)'
  BY <1>1, <1>2 DEF TypeInv, HandlerType, Starting
<1>. QED
  BY <1>3, <1>4 DEF ActorsType

\* The offer of a handler keeps the shapes.
LEMMA OfferType ==
  ASSUME TypeInv, NEW h \in Handlers, NEW x \in Ids, NEW r \in Roots, Offer(h, x, r), UploadType'
  PROVE  ActorsType' /\ SpoolType' /\ MapsType'
<1>1. ActorsType'
  BY StartType DEF Offer, Steps
<1>. QED
  BY <1>1, TypeSplit DEF Offer, spool, SpoolType, MapsType

\* A touched push is a push.
LEMMA EntryTouched ==
  ASSUME TypeInv, NEW x \in Ids, pushes[x] # None, pushes' = [pushes EXCEPT ![x].idle = FALSE],
         UNCHANGED registry
  PROVE  MapsType'
<1>1. pushes[x] \in Entry
  BY DEF TypeInv, TypeOK
<1>2. [pushes[x] EXCEPT !.idle = FALSE] \in Entry
  BY <1>1 DEF Entry
<1>. QED
  BY <1>2 DEF MapsType, TypeInv, TypeOK

\* The slice of a handler keeps the shapes.
LEMMA SliceType ==
  ASSUME TypeInv, NEW h \in Handlers, NEW x \in Ids, NEW i \in Chunks, Slice(h, x, i),
         UploadType'
  PROVE  ActorsType' /\ SpoolType' /\ MapsType'
<1>1. pushes[x].root \in Roots
  BY DEF Slice, TypeInv, TypeOK, Entry
<1>2. ActorsType'
  <2>1. PICK s \in {"s_mark", "s_write"} :
          hs' = [hs EXCEPT ![h] = Starting(s, x, pushes[x].root, i)]
    BY DEF Slice
  <2>2. s \in Steps /\ i \in Nat
    BY DEF Steps
  <2>. QED
    BY <1>1, <2>1, <2>2, StartType
<1>3. MapsType'
  BY EntryTouched DEF Slice
<1>. QED
  BY <1>2, <1>3, TypeSplit DEF Slice, spool, SpoolType

\* The handlers of offers.
LEMMA OfferStepType ==
  ASSUME TypeInv, NEW h \in Handlers,
         \/ OfferLock(h) \/ CleanDone(h) \/ OfferProbe(h) \/ OfferCreate(h) \/ OfferSave(h)
         \/ OfferInsert(h) \/ \E y \in Ids : CleanPart(h, y) \/ CleanSidecar(h, y)
  PROVE  ActorsType' /\ SpoolType' /\ MapsType'
<1>1. /\ hs \in [Handlers -> Handler] /\ hs[h] \in Handler /\ UploadType /\ HandlerType(h)
      /\ SpoolType /\ MapsType
  BY TypeSplit DEF ActorsType
<1>2. CASE OfferLock(h)
  <2> SUFFICES ActorsType' /\ pushes' \in [Ids -> Entry \cup {None}]
    BY <1>1, <1>2 DEF OfferLock, spool, SpoolType, MapsType
  <2> DEFINE x    == hs[h].id
             kept == Kept(Stale)
  <2>1. kept \in [Ids -> Entry \cup {None}] /\ Stale \subseteq Ids
    BY <1>1 DEF Kept, MapsType, Stale, InFlight
  <2>2. x \in Ids /\ hs[h].step = "o_lock"
    BY <1>1, <1>2 DEF OfferLock, At, HandlerType
  <2>3. ASSUME NEW after \in {"free", "refuse", "f_take", "o_probe"}, NEW have \in SUBSET Chunks,
               CleanThen(h, after, have)
        PROVE  ActorsType'
    <3>1. hs' \in [Handlers -> Handler]
      BY <1>1, <2>1, <2>3 DEF CleanThen, Handler, Steps
    <3>2. ASSUME NEW g \in Handlers PROVE HandlerType(g)'
      BY <1>1, <2>2, <2>3 DEF CleanThen, TypeInv, HandlerType, Handler
    <3>. QED
      BY <1>1, <2>3, <3>1, <3>2, UploadKept DEF CleanThen, ActorsType
  <2>4. kept[x] # None => kept[x] \in Entry /\ kept[x].bits \in SUBSET Chunks
    BY <2>1, <2>2 DEF Entry
  <2> HIDE DEF kept
  <2>5. CASE /\ kept[x] # None /\ pushes' = kept /\ Refuse(h)
    BY <1>1, <2>1, <2>5, RefuseType DEF ActorsType, MapsType
  <2>6. CASE /\ kept[x] # None /\ pushes' = [kept EXCEPT ![x].idle = FALSE]
             /\ CleanThen(h, IF Missing(kept[x].bits) = {} THEN "f_take" ELSE "free", kept[x].bits)
    <3>1. PICK after \in {"f_take", "free"} : CleanThen(h, after, kept[x].bits)
      BY <2>6
    <3>2. ActorsType'
      BY <2>3, <2>4, <2>6, <3>1
    <3>3. [kept[x] EXCEPT !.idle = FALSE] \in Entry
      BY <2>4, <2>6 DEF Entry
    <3>4. pushes' \in [Ids -> Entry \cup {None}]
      BY <2>1, <2>2, <2>6, <3>3
    <3>. QED
      BY <3>2, <3>4
  <2>7. CASE pushes' = kept /\ (CleanThen(h, "refuse", {}) \/ CleanThen(h, "o_probe", {}))
    BY <2>1, <2>3, <2>7
  <2>. QED
    BY <1>2, <2>5, <2>6, <2>7 DEF OfferLock, kept
<1>3. ASSUME NEW y \in Ids, CleanPart(h, y) PROVE ActorsType' /\ SpoolType' /\ MapsType'
  <2>1. ActorsType'
    BY <1>3, TypeSplit, UploadKept DEF CleanPart, ActorsType, HandlerType
  <2>. QED
    BY <1>1, <1>3, <2>1 DEF CleanPart, SpoolType, MapsType
<1>4. ASSUME NEW y \in Ids, CleanSidecar(h, y) PROVE ActorsType' /\ SpoolType' /\ MapsType'
  <2>1. hs' \in [Handlers -> Handler]
    BY <1>1, <1>4 DEF CleanSidecar, Handler
  <2>2. ASSUME NEW g \in Handlers PROVE HandlerType(g)'
    BY <1>1, <1>4 DEF CleanSidecar, TypeInv, HandlerType, Handler
  <2>3. ActorsType'
    BY <1>1, <1>4, <2>1, <2>2, UploadKept DEF CleanSidecar, ActorsType
  <2>. QED
    BY <1>1, <1>4, <2>3 DEF CleanSidecar, SpoolType, MapsType
<1>5. CASE CleanDone(h)
  <2> SUFFICES ActorsType'
    BY <1>1, <1>5 DEF CleanDone, spool, SpoolType, MapsType
  <2>1. hs[h].bits \in SUBSET Chunks /\ hs[h].next \in {"free", "refuse", "f_take", "o_probe"}
    BY <1>1 DEF Handler, HandlerType
  <2>2. hs[h].step # "free"
    BY <1>5 DEF CleanDone, At
  <2>3. CASE Goto(h, hs[h].next)
    <3>1. hs[h].next \in Steps /\ hs[h].next \notin {"s_write", "s_mark", "s_save"}
      BY <2>1 DEF Steps
    <3>. QED
      BY <2>2, <2>3, <3>1, GotoType DEF ActorsType
  <2>4. CASE Done(h, hs[h].bits) \/ Refuse(h)
    BY <2>1, <2>4, DoneType, RefuseType DEF ActorsType
  <2>5. Done(h, hs[h].bits) \/ Refuse(h) \/ Goto(h, hs[h].next)
    BY <1>5 DEF CleanDone
  <2>. QED
    BY <2>3, <2>4, <2>5
<1>6. CASE OfferProbe(h)
  <2> SUFFICES ActorsType'
    BY <1>1, <1>6 DEF OfferProbe, spool, SpoolType, MapsType
  <2>1. hs[h].step = "o_probe" /\ hs[h].id \in Ids
    BY <1>1, <1>6 DEF OfferProbe, At, HandlerType
  <2>2. CASE Goto(h, "o_create")
    BY <2>1, <2>2, GotoType DEF ActorsType, Steps
  <2>3. CASE /\ Resumable(h) /\ up' = up
             /\ hs' = [hs EXCEPT ![h].step = "o_insert", ![h].bits = side[hs[h].id].bits]
    <3>1. side[hs[h].id].bits \in SUBSET Chunks
      BY <1>1, <2>1, <2>3 DEF Resumable, SpoolType, Sidecar
    <3>2. hs' \in [Handlers -> Handler]
      BY <1>1, <2>3, <3>1 DEF Handler, Steps
    <3>3. ASSUME NEW g \in Handlers PROVE HandlerType(g)'
      BY <1>1, <2>1, <2>3 DEF TypeInv, HandlerType, Handler
    <3>. QED
      BY <1>1, <2>3, <3>2, <3>3, UploadKept DEF ActorsType
  <2>. QED
    BY <1>6, <2>2, <2>3 DEF OfferProbe
<1>7. CASE OfferCreate(h)
  <2>1. ActorsType'
    BY <1>7, GotoType DEF OfferCreate, At, ActorsType, Steps
  <2>2. [i \in Chunks |-> Junk] \in Content
    BY DEF Content
  <2>. QED
    BY <1>1, <1>7, <2>1, <2>2 DEF OfferCreate, SpoolType, MapsType
<1>8. CASE OfferSave(h)
  <2>1. ActorsType'
    BY <1>8, GotoType DEF OfferSave, At, ActorsType, Steps
  <2>2. [root |-> hs[h].root, bits |-> {}] \in Sidecar
    BY <1>1, <1>8 DEF OfferSave, At, HandlerType, Sidecar
  <2>. QED
    BY <1>1, <1>8, <2>1, <2>2 DEF OfferSave, SpoolType, MapsType
<1>9. CASE OfferInsert(h)
  <2> SUFFICES ActorsType' /\ pushes' \in [Ids -> Entry \cup {None}]
    BY <1>1, <1>9 DEF OfferInsert, spool, SpoolType, MapsType
  <2> DEFINE x == hs[h].id
             e == IF pushes[x] # None THEN pushes[x]
                  ELSE [root |-> hs[h].root, bits |-> hs[h].bits, dirty |-> 0, idle |-> FALSE]
  <2>1. hs[h].step = "o_insert" /\ x \in Ids /\ hs[h].root \in Roots /\ hs[h].bits \in SUBSET Chunks
    BY <1>1, <1>9 DEF OfferInsert, At, HandlerType, Handler
  <2>2. e \in Entry /\ e.bits \in SUBSET Chunks
    BY <1>1, <2>1 DEF Entry, MapsType
  <2> HIDE DEF e
  <2>3. CASE Refuse(h) /\ pushes' = pushes
    BY <1>1, <2>3, RefuseType DEF ActorsType, MapsType
  <2>4. CASE Done(h, e.bits) /\ pushes' = [pushes EXCEPT ![x] = e]
    BY <1>1, <2>2, <2>4, DoneType DEF ActorsType, MapsType
  <2>5. CASE /\ hs' = [hs EXCEPT ![h].step = "f_take", ![h].bits = e.bits] /\ up' = up
             /\ pushes' = [pushes EXCEPT ![x] = e]
    <3>1. hs' \in [Handlers -> Handler]
      BY <1>1, <2>2, <2>5 DEF Handler, Steps
    <3>2. ASSUME NEW g \in Handlers PROVE HandlerType(g)'
      BY <1>1, <2>1, <2>5 DEF TypeInv, HandlerType, Handler
    <3>. QED
      BY <1>1, <2>2, <2>5, <3>1, <3>2, UploadKept DEF ActorsType, MapsType
  <2>. QED
    BY <1>9, <2>3, <2>4, <2>5 DEF OfferInsert, e
<1>. QED
  BY <1>2, <1>3, <1>4, <1>5, <1>6, <1>7, <1>8, <1>9

\* The handlers of slices.
LEMMA SliceStepType ==
  ASSUME TypeInv, NEW h \in Handlers, SliceWrite(h) \/ SliceMark(h) \/ SliceSave(h)
  PROVE  ActorsType' /\ SpoolType' /\ MapsType'
<1>1. /\ hs \in [Handlers -> Handler] /\ hs[h] \in Handler /\ UploadType /\ HandlerType(h)
      /\ SpoolType /\ MapsType
  BY TypeSplit DEF ActorsType
<1>2. /\ hs[h].id \in Ids /\ hs[h].root \in Roots /\ hs[h].chunk \in Chunks
      /\ hs[h].bits \in SUBSET Chunks /\ hs[h].step \in {"s_write", "s_mark", "s_save"}
  BY <1>1 DEF SliceWrite, SliceMark, SliceSave, At, HandlerType, Handler
<1>3. CASE SliceWrite(h)
  <2> DEFINE x == hs[h].id
  <2> SUFFICES ActorsType' /\ part' \in [Ids -> Content \cup {None}]
    BY <1>1, <1>3 DEF SliceWrite, SpoolType, MapsType
  <2>1. CASE Refuse(h) /\ part' = part
    BY <1>1, <2>1, RefuseType DEF ActorsType, SpoolType
  <2>2. CASE /\ part[x] # None /\ Goto(h, "s_mark")
             /\ part' = [part EXCEPT ![x][hs[h].chunk] = hs[h].root]
    <3>1. part[x] \in Content /\ part \in [Ids -> Content \cup {None}]
      BY <1>1, <1>2, <2>2 DEF SpoolType
    <3>2. [part[x] EXCEPT ![hs[h].chunk] = hs[h].root] \in Content
      BY <1>2, <3>1 DEF Content
    <3>3. part' \in [Ids -> Content \cup {None}]
      BY <1>2, <2>2, <3>1, <3>2
    <3>. QED
      BY <1>2, <2>2, <3>3, GotoType DEF ActorsType, Steps
  <2>. QED
    BY <1>3, <2>1, <2>2 DEF SliceWrite
<1>4. CASE SliceMark(h)
  <2> DEFINE x == hs[h].id
             e == pushes[x]
             b == e.bits \cup {hs[h].chunk}
             d == IF hs[h].chunk \in e.bits THEN e.dirty ELSE e.dirty + 1
  <2> SUFFICES ActorsType' /\ pushes' \in [Ids -> Entry \cup {None}]
    BY <1>1, <1>4 DEF SliceMark, spool, SpoolType, MapsType
  <2>0. pushes \in [Ids -> Entry \cup {None}]
    BY <1>1 DEF MapsType
  <2>1. e # None => e \in Entry
    BY <1>2, <2>0
  <2>a. e # None => e.root \in Roots /\ b \in SUBSET Chunks /\ d \in Nat
    BY <1>2, <2>1 DEF Entry
  <2> HIDE DEF b, d
  <2>b. ASSUME e # None, NEW n \in Nat PROVE [e EXCEPT !.bits = b, !.dirty = n] \in Entry
    BY <2>1, <2>a, <2>b DEF Entry
  <2>2. CASE pushes' = pushes /\ Done(h, {})
    BY <2>0, <2>2, DoneType DEF ActorsType
  <2>3. CASE /\ e # None /\ pushes' = [pushes EXCEPT ![x].bits = b, ![x].dirty = 0]
             /\ hs' = [hs EXCEPT ![h].step = "s_save", ![h].root = e.root, ![h].bits = b]
             /\ up' = up
    <3>1. pushes' = [pushes EXCEPT ![x] = [e EXCEPT !.bits = b, !.dirty = 0]]
      BY <1>2, <2>0, <2>1, <2>3 DEF Entry
    <3>2. [e EXCEPT !.bits = b, !.dirty = 0] \in Entry
      BY <2>3, <2>b
    <3>a. pushes' \in [Ids -> Entry \cup {None}]
      BY <2>0, <3>1, <3>2
    <3>3. hs' \in [Handlers -> Handler]
      BY <1>1, <2>a, <2>3 DEF Handler, Steps
    <3>4. ASSUME NEW g \in Handlers PROVE HandlerType(g)'
      BY <1>1, <1>2, <2>a, <2>3 DEF TypeInv, HandlerType, Handler
    <3>. QED
      BY <1>1, <2>3, <3>a, <3>3, <3>4, UploadKept DEF ActorsType
  <2>4. CASE /\ e # None /\ pushes' = [pushes EXCEPT ![x].bits = b, ![x].dirty = d] /\ Done(h, b)
    <3>1. pushes' = [pushes EXCEPT ![x] = [e EXCEPT !.bits = b, !.dirty = d]]
      BY <1>2, <2>0, <2>1, <2>4 DEF Entry
    <3>2. [e EXCEPT !.bits = b, !.dirty = d] \in Entry
      BY <2>4, <2>a, <2>b
    <3>a. pushes' \in [Ids -> Entry \cup {None}]
      BY <2>0, <3>1, <3>2
    <3>. QED
      BY <2>a, <2>4, <3>a, DoneType DEF ActorsType
  <2>. QED
    BY <1>4, <2>2, <2>3, <2>4 DEF SliceMark, b, d
<1>5. CASE SliceSave(h)
  <2>1. [root |-> hs[h].root, bits |-> hs[h].bits] \in Sidecar
    BY <1>2 DEF Sidecar
  <2>2. ActorsType'
    BY <1>2, <1>5, DoneType, GotoType DEF SliceSave, ActorsType, Steps
  <2>. QED
    BY <1>1, <1>5, <2>1, <2>2 DEF SliceSave, SpoolType, MapsType
<1>. QED
  BY <1>3, <1>4, <1>5

\* The handlers in finalize_push.
LEMMA FinalizeStepType ==
  ASSUME TypeInv, NEW h \in Handlers,
         \/ FinalizeTake(h) \/ FinalizeRename(h) \/ FinalizeUnlink(h) \/ FinalizeHash(h)
         \/ FinalizeDrop(h) \/ FinalizeRegister(h)
  PROVE  ActorsType' /\ SpoolType' /\ MapsType'
<1>1. /\ hs \in [Handlers -> Handler] /\ hs[h] \in Handler /\ UploadType /\ HandlerType(h)
      /\ SpoolType /\ MapsType
  BY TypeSplit DEF ActorsType
<1>2. /\ hs[h].id \in Ids /\ hs[h].root \in Roots /\ hs[h].bits \in SUBSET Chunks
      /\ hs[h].step # "free"
  BY <1>1 DEF FinalizeTake, FinalizeRename, FinalizeUnlink, FinalizeHash, FinalizeDrop,
              FinalizeRegister, At, HandlerType, Handler
<1>3. CASE FinalizeTake(h)
  <2> DEFINE e == pushes[hs[h].id]
  <2> SUFFICES ActorsType' /\ pushes' \in [Ids -> Entry \cup {None}]
    BY <1>1, <1>3 DEF FinalizeTake, spool, SpoolType, MapsType
  <2>1. CASE Done(h, hs[h].bits) /\ pushes' = pushes
    BY <1>1, <1>2, <2>1, DoneType DEF ActorsType, MapsType
  <2>2. CASE /\ e # None /\ pushes' = [pushes EXCEPT ![hs[h].id] = None]
             /\ hs' = [hs EXCEPT ![h].step = "f_rename", ![h].root = e.root] /\ up' = up
    <3>1. e.root \in Roots
      BY <1>1, <1>2, <2>2 DEF MapsType, Entry
    <3>2. hs' \in [Handlers -> Handler]
      BY <1>1, <2>2, <3>1 DEF Handler, Steps
    <3>3. ASSUME NEW g \in Handlers PROVE HandlerType(g)'
      BY <1>1, <1>2, <2>2, <3>1 DEF TypeInv, HandlerType, Handler
    <3>. QED
      BY <1>1, <2>2, <3>2, <3>3, UploadKept DEF ActorsType, MapsType
  <2>. QED
    BY <1>3, <2>1, <2>2 DEF FinalizeTake
<1>4. CASE FinalizeRename(h)
  <2>1. ActorsType'
    BY <1>2, <1>4, RefuseType, GotoType DEF FinalizeRename, ActorsType, Steps
  <2>. QED
    BY <1>1, <1>2, <1>4, <2>1 DEF FinalizeRename, SpoolType, MapsType
<1>5. CASE FinalizeUnlink(h)
  <2>1. ActorsType'
    BY <1>2, <1>5, GotoType DEF FinalizeUnlink, ActorsType, Steps
  <2>. QED
    BY <1>1, <1>5, <2>1 DEF FinalizeUnlink, SpoolType, MapsType
<1>6. CASE FinalizeHash(h)
  <2>1. Refuse(h) \/ Goto(h, "f_register") \/ Goto(h, "f_mismatch")
    BY <1>6 DEF FinalizeHash
  <2>2. ActorsType'
    BY <1>2, <2>1, RefuseType, GotoType DEF ActorsType, Steps
  <2>. QED
    BY <1>1, <1>6, <2>2 DEF FinalizeHash, spool, SpoolType, MapsType
<1>7. CASE FinalizeDrop(h)
  <2>1. ActorsType'
    BY <1>2, <1>7, DoneType, RefuseType DEF FinalizeDrop, ActorsType
  <2>. QED
    BY <1>1, <1>7, <2>1 DEF FinalizeDrop, SpoolType, MapsType
<1>8. CASE FinalizeRegister(h)
  <2>1. \/ registry' = registry /\ (Goto(h, "f_lose") \/ Goto(h, "f_denied"))
        \/ /\ Done(h, hs[h].bits)
           /\ registry' = [registry EXCEPT ![hs[h].id] = [root |-> hs[h].root, spooled |-> TRUE]]
    BY <1>8 DEF FinalizeRegister
  <2>2. ActorsType'
    BY <1>2, <2>1, DoneType, GotoType DEF ActorsType, Steps
  <2>3. [root |-> hs[h].root, spooled |-> TRUE] \in Serving
    BY <1>2 DEF Serving
  <2>. QED
    BY <1>1, <1>8, <2>1, <2>2, <2>3 DEF FinalizeRegister, spool, SpoolType, MapsType
<1>. QED
  BY <1>3, <1>4, <1>5, <1>6, <1>7, <1>8

\* Handlers and files are left alone, and so is the uploader or it stays typed.
LEMMA ActorsKept == ASSUME TypeInv, UNCHANGED hs, UploadType' PROVE ActorsType'
BY TypeSplit DEF ActorsType, HandlerType

\* The uploader's next chunk exists.
LEMMA LeastExists ==
  ASSUME NEW S \in SUBSET Nat, S # {}
  PROVE  (CHOOSE j \in S : \A k \in S : j <= k) \in S
<1>1. IsWellFoundedOn(OpToRel(<, Nat), Nat)
  BY NatLessThanWellFounded
<1>2. PICK j \in S : \A k \in S : <<k, j>> \notin OpToRel(<, Nat)
  BY <1>1, WFMin
<1>3. ASSUME NEW k \in S PROVE j <= k
  <2>1. k < j => <<k, j>> \in OpToRel(<, Nat)
    <3>1. <<k, j>> \in Nat \X Nat /\ <<k, j>>[1] = k /\ <<k, j>>[2] = j
      OBVIOUS
    <3>. QED
      BY <3>1, Zenon DEF OpToRel
  <2>2. ~ (k < j)
    BY <1>2, <2>1, Zenon
  <2>. QED
    BY <2>2
<1>. QED
  BY <1>3

\* run_upload.
LEMMA UploaderType == ASSUME TypeInv, Uploader PROVE ActorsType' /\ SpoolType' /\ MapsType'
<1>1. UploadType /\ SpoolType /\ MapsType
  BY TypeSplit DEF ActorsType
<1>2. ASSUME NEW h \in Handlers, NEW x \in Ids, NEW r \in Roots, UploadOffer(h, x, r)
      PROVE  ActorsType' /\ SpoolType' /\ MapsType'
  <2>1. UploadType'
    BY <1>2 DEF UploadOffer, Upload, UploadType
  <2>2. CASE registry[x] = None
    BY <1>2, <2>1, <2>2, OfferType DEF UploadOffer
  <2>3. CASE registry[x] # None
    BY <1>1, <1>2, <2>1, <2>3, ActorsKept DEF UploadOffer, spool, SpoolType, MapsType
  <2>. QED
    BY <2>2, <2>3
<1>3. ASSUME NEW h \in Handlers, UploadSlice(h) PROVE ActorsType' /\ SpoolType' /\ MapsType'
  <2> DEFINE x == up.id
             i == CHOOSE j \in up.todo : \A k \in up.todo : j <= k
  <2>0. up.at = "sending" /\ up.h = None
    BY <1>3 DEF UploadSlice
  <2>1. x \in Ids /\ up.todo \subseteq Chunks /\ i \in up.todo
    BY <1>1, <2>0, LeastExists DEF UploadType, Upload
  <2> HIDE DEF i
  <2>2. CASE pushes[x] # None /\ Slice(h, x, i) /\ up' = [up EXCEPT !.h = h]
    <3>1. UploadType'
      BY <1>1, <2>0, <2>2 DEF Upload, UploadType
    <3>. QED
      BY <2>1, <2>2, <3>1, SliceType
  <2>3. CASE /\ pushes[x] # None /\ pushes' = [pushes EXCEPT ![x].idle = FALSE] /\ Failed
             /\ UNCHANGED <<registry, spool, hs>>
    BY <1>1, <2>0, <2>1, <2>3, FailedType, EntryTouched, ActorsKept DEF spool, SpoolType
  <2>4. CASE /\ Told(up.todo \ {i}) \/ Failed
             /\ UNCHANGED <<pushes, registry, spool, hs>>
    <3>1. UploadType'
      BY <1>1, <2>0, <2>1, <2>4, ToldType, FailedType
    <3>. QED
      BY <1>1, <2>4, <3>1, ActorsKept DEF spool, SpoolType, MapsType
  <2>. QED
    BY <1>3, <2>2, <2>3, <2>4 DEF UploadSlice, i
<1>4. CASE UploadStops
  <2>1. UploadType'
    BY <1>1, <1>4, FailedType DEF UploadStops
  <2>. QED
    BY <1>1, <1>4, <2>1, ActorsKept DEF UploadStops, spool, SpoolType, MapsType
<1>. QED
  BY <1>2, <1>3, <1>4, WorldType DEF Uploader, TypeInv

\* The application keeps them.
LEMMA ApplicationType == ASSUME TypeInv, Application PROVE ActorsType' /\ SpoolType' /\ MapsType'
<1>1. UploadType /\ SpoolType /\ MapsType
  BY TypeSplit DEF ActorsType
<1>2. UNCHANGED <<spool, hs, up>>
  BY DEF Application, Register, Unregister, GoIdle, SliceRefused, spool
<1>3. ActorsType' /\ SpoolType'
  BY <1>1, <1>2, ActorsKept, UploadKept DEF spool, SpoolType
<1>4. PICK x \in Ids : \/ \E r \in Roots : Register(x, r)
                      \/ Unregister(x) \/ GoIdle(x) \/ SliceRefused(x)
  BY WorldType DEF Application, TypeInv
<1>5. CASE \E r \in Roots : Register(x, r)
  <2>1. PICK r \in Roots : Register(x, r)
    BY <1>5
  <2>2. [root |-> r, spooled |-> FALSE] \in Serving
    BY DEF Serving
  <2>. QED
    BY <1>1, <1>3, <2>1, <2>2 DEF Register, MapsType
<1>6. CASE Unregister(x)
  BY <1>1, <1>3, <1>6 DEF Unregister, MapsType
<1>7. CASE GoIdle(x)
  <2>1. pushes[x] \in Entry
    BY <1>1, <1>7 DEF GoIdle, MapsType
  <2>2. [pushes[x] EXCEPT !.idle = TRUE] \in Entry
    BY <2>1 DEF Entry
  <2>. QED
    BY <1>1, <1>3, <1>7, <2>2 DEF GoIdle, MapsType
<1>8. CASE SliceRefused(x)
  BY <1>3, <1>8, EntryTouched DEF SliceRefused
<1>. QED
  BY <1>4, <1>5, <1>6, <1>7, <1>8

\* A restart keeps them.
LEMMA RestartType == ASSUME TypeInv, Restart PROVE ActorsType' /\ SpoolType' /\ MapsType'
<1>1. UploadType /\ SpoolType /\ MapsType
  BY TypeSplit DEF ActorsType
<1>2. UploadType'
  BY <1>1, FailedType, UploadKept DEF Restart, UploadType
<1>3. hs' \in [Handlers -> Handler]
  BY FreeType DEF Restart
<1>4. ASSUME NEW h \in Handlers PROVE HandlerType(h)'
  BY DEF Restart, HandlerType, Free, Starting
<1>5. SpoolType' /\ MapsType'
  BY <1>1 DEF Restart, spool, SpoolType, MapsType
<1>. QED
  BY <1>2, <1>3, <1>4, <1>5 DEF ActorsType

\* A request that arrives keeps them.
LEMMA ArrivalType ==
  ASSUME TypeInv, NEW h \in Handlers, Arrival(h)
  PROVE  ActorsType' /\ SpoolType' /\ MapsType'
<1>1. UploadType'
  BY UploadKept DEF Arrival, TypeInv
<1>2. CASE \E x \in world.ids, r \in world.roots : Offer(h, x, r)
  BY <1>1, <1>2, WorldType, OfferType DEF TypeInv
<1>3. CASE \E x \in world.ids, i \in Chunks : Slice(h, x, i)
  BY <1>1, <1>3, WorldType, SliceType DEF TypeInv
<1>. QED
  BY <1>2, <1>3 DEF Arrival

\* They hold at the start.
LEMMA InitType == ASSUME Init PROVE TypeInv
<1>1. ActorsType
  <2>1. hs \in [Handlers -> Handler]
    BY FreeType DEF Init
  <2>2. UploadType
    BY DEF Init, UploadType, Upload
  <2>3. \A h \in Handlers : HandlerType(h)
    BY DEF Init, HandlerType, Free, Starting
  <2>. QED
    BY <2>1, <2>2, <2>3 DEF ActorsType
<1>2. SpoolType /\ MapsType /\ world \in Worlds
  BY DEF Init, SpoolType, MapsType
<1>. QED
  BY <1>1, <1>2, TypeSplit

\* Every action keeps them.
LEMMA TypeStep == ASSUME TypeInv, [Next]_vars PROVE TypeInv'
<1>1. CASE Next
  <2>1. world' \in Worlds
    BY <1>1 DEF Next, TypeInv, TypeOK
  <2>2. ActorsType' /\ SpoolType' /\ MapsType'
    <3>1. ASSUME NEW h \in world.handlers, HandlerStep(h) PROVE ActorsType' /\ SpoolType' /\ MapsType'
      BY <3>1, WorldType, OfferStepType, SliceStepType, FinalizeStepType DEF HandlerStep, TypeInv
    <3>2. ASSUME NEW h \in world.handlers, Arrival(h) PROVE ActorsType' /\ SpoolType' /\ MapsType'
      BY <3>2, WorldType, ArrivalType DEF TypeInv
    <3>. QED
      BY <1>1, <3>1, <3>2, UploaderType, ApplicationType, RestartType DEF Next
  <2>. QED
    BY <2>1, <2>2 DEF TypeInv, TypeOK, UploadType, ActorsType, SpoolType, MapsType
<1>2. CASE UNCHANGED vars
  <2>1. UNCHANGED <<pushes, registry, part, side, blob, hs, up, world>>
    BY <1>2 DEF vars, spool
  <2>. QED
    BY <2>1 DEF TypeInv, TypeOK, UploadType, HandlerType
<1>. QED
  BY <1>1, <1>2

\* They hold in every reachable state.
LEMMA TypeAlways == Spec => []TypeInv
<1>1. Init => TypeInv
  BY InitType
<1>2. TypeInv /\ [Next]_vars => TypeInv'
  BY TypeStep
<1>. QED
  BY <1>1, <1>2, PTL DEF Spec

\* The shape of Inner, of the spool directory and of the locals of handlers and
\* uploader, however queries interleave.
THEOREM PushTypeCorrect == Spec => []TypeOK
<1>1. TypeInv => TypeOK
  BY DEF TypeInv
<1>. QED
  BY <1>1, TypeAlways, PTL

-----------------------------------------------------------------------------
(* The cap, and what an id serves *)

\* CapHeld speaks of a cardinality, and Ids may be infinite.
CapInv == IsFiniteSet(InFlight) /\ CapHeld

\* A step of one handler adds no push, or one where the lock shows room.
Room(x) == Cardinality(InFlight) < Cap /\ InFlight' \subseteq InFlight \cup {x}

\* A handler adds a push only where the cap leaves room.
LEMMA HandlerPushes ==
  ASSUME TypeInv, NEW h \in Handlers, HandlerStep(h)
  PROVE  InFlight' \subseteq InFlight \/ \E x \in Ids : Room(x)
<1>1. hs[h].step # "free" => hs[h].id \in Ids
  BY DEF TypeInv, HandlerType
<1>2. MapsType
  BY TypeSplit
<1>3. CASE UNCHANGED pushes
  BY <1>3 DEF InFlight
<1>4. CASE OfferLock(h)
  <2> DEFINE x    == hs[h].id
             kept == Kept(Stale)
  <2>1. x \in Ids /\ kept \in [Ids -> Entry \cup {None}]
    BY <1>1, <1>2, <1>4 DEF OfferLock, At, Kept, MapsType
  <2>2. {y \in Ids : kept[y] # None} \subseteq InFlight
    BY DEF Kept, InFlight
  <2> HIDE DEF kept
  <2>3. \/ pushes' = kept
        \/ kept[x] # None /\ pushes' = [kept EXCEPT ![x].idle = FALSE]
    BY <1>4 DEF OfferLock, kept
  <2>4. ASSUME NEW y \in Ids, kept[y] = None PROVE pushes'[y] = None
    BY <2>1, <2>3, <2>4
  <2>. QED
    BY <2>2, <2>4 DEF InFlight
<1>5. CASE OfferInsert(h)
  <2> DEFINE x == hs[h].id
  <2>1. x \in Ids
    BY <1>1, <1>5 DEF OfferInsert, At
  <2>2. PICK e : \/ /\ pushes' = [pushes EXCEPT ![x] = e]
                    /\ pushes[x] # None \/ Cardinality(InFlight) < Cap
                 \/ pushes' = pushes
    BY <1>5 DEF OfferInsert
  <2>. QED
    BY <1>2, <2>1, <2>2 DEF InFlight, MapsType, Room
<1>6. CASE SliceMark(h)
  <2> DEFINE x == hs[h].id
  <2>1. x \in Ids
    BY <1>1, <1>6 DEF SliceMark, At
  <2>2. \A y \in Ids : pushes[y] = None => pushes'[y] = None
    BY <1>2, <1>6, <2>1 DEF SliceMark, MapsType
  <2>. QED
    BY <2>2 DEF InFlight
<1>7. CASE FinalizeTake(h)
  BY <1>2, <1>7 DEF FinalizeTake, InFlight, MapsType
<1>. QED
  BY <1>3, <1>4, <1>5, <1>6, <1>7 DEF HandlerStep, CleanDone, OfferProbe, OfferCreate, OfferSave,
     SliceWrite, SliceSave, FinalizeRename, FinalizeUnlink, FinalizeHash, FinalizeDrop,
     FinalizeRegister, CleanPart, CleanSidecar

\* Elsewhere an entry is touched and none is added.
LEMMA OtherPushes ==
  ASSUME TypeInv, (\E h \in world.handlers : Arrival(h)) \/ Uploader \/ Application \/ Restart
  PROVE  InFlight' \subseteq InFlight
<1>1. MapsType
  BY TypeSplit
<1>2. ASSUME NEW x \in Ids, NEW b \in BOOLEAN, pushes[x] # None,
             pushes' = [pushes EXCEPT ![x].idle = b]
      PROVE  InFlight' \subseteq InFlight
  BY <1>1, <1>2 DEF InFlight, MapsType
<1>3. \/ UNCHANGED pushes \/ pushes' = [x \in Ids |-> None]
      \/ \E x \in Ids, b \in BOOLEAN : pushes[x] # None /\ pushes' = [pushes EXCEPT ![x].idle = b]
  <2>1. ASSUME NEW h \in Handlers, UploadSlice(h) PROVE up.id \in Ids
    BY <2>1 DEF UploadSlice, TypeInv, UploadType
  <2>2. CASE Uploader
    BY <2>1, <2>2, WorldType DEF Uploader, TypeInv, UploadOffer, UploadSlice, UploadStops, Offer, Slice
  <2>3. CASE \E h \in world.handlers : Arrival(h)
    BY <2>3, WorldType DEF TypeInv, Arrival, Offer, Slice
  <2>4. CASE Application
    BY <2>4, WorldType DEF TypeInv, Application, Register, Unregister, GoIdle, SliceRefused
  <2>. QED
    BY <2>2, <2>3, <2>4 DEF Restart
<1>. QED
  BY <1>2, <1>3 DEF InFlight

\* Every action keeps the cap.
LEMMA CapStep == ASSUME TypeInv, CapInv, [Next]_vars PROVE CapInv'
<1>1. Cap \in Nat /\ Cardinality(InFlight) \in Nat
  BY FS_CardinalityType DEF CapInv
<1>2. CASE InFlight' \subseteq InFlight
  BY <1>1, <1>2, FS_Subset, FS_CardinalityType DEF CapInv, CapHeld
<1>3. ASSUME NEW x \in Ids, Room(x) PROVE CapInv'
  <2>1. /\ IsFiniteSet(InFlight \cup {x})
        /\ Cardinality(InFlight \cup {x}) <= Cardinality(InFlight) + 1
    BY <1>1, FS_AddElement DEF CapInv
  <2>2. IsFiniteSet(InFlight') /\ Cardinality(InFlight') <= Cardinality(InFlight \cup {x})
    BY <1>3, <2>1, FS_Subset DEF Room
  <2>3. Cardinality(InFlight') \in Nat /\ Cardinality(InFlight \cup {x}) \in Nat
    BY <2>1, <2>2, FS_CardinalityType
  <2>. QED
    BY <1>1, <1>3, <2>1, <2>2, <2>3 DEF Room, CapInv, CapHeld
<1>4. CASE UNCHANGED vars
  BY <1>2, <1>4 DEF vars, InFlight
<1>. QED
  BY <1>2, <1>3, <1>4, HandlerPushes, OtherPushes, WorldType DEF Next, TypeInv

\* PushConfig::max_concurrent is never exceeded, whatever the offers between
\* their two looks at the map and however many ids there are.
THEOREM CapCorrect == Spec => []CapHeld
<1>1. Init => CapInv
  <2>1. Init => InFlight = {}
    BY DEF Init, InFlight
  <2>. QED
    BY <2>1, FS_EmptySet DEF CapInv, CapHeld
<1>2. TypeInv /\ CapInv /\ [Next]_vars => CapInv'
  BY CapStep
<1>3. CapInv => CapHeld
  BY DEF CapInv
<1>. QED
  BY <1>1, <1>2, <1>3, TypeAlways, PTL DEF Spec

\* No step puts another blob in the place of a registered one.
LEMMA RegistryStep ==
  ASSUME TypeInv, [Next]_vars, NEW x \in Ids, registry[x] # None
  PROVE  registry'[x] \in {registry[x], None}
<1>1. registry \in [Ids -> Serving \cup {None}]
  BY DEF TypeInv, TypeOK
<1>2. CASE UNCHANGED registry
  BY <1>2
<1>3. ASSUME NEW h \in Handlers, FinalizeRegister(h) PROVE registry'[x] = registry[x]
  BY <1>1, <1>3 DEF FinalizeRegister
<1>4. CASE Application
  BY <1>1, <1>4 DEF Application, Register, Unregister, GoIdle, SliceRefused
<1>5. CASE Restart
  BY <1>5 DEF Restart
<1>6. CASE Uploader \/ \E h \in world.handlers : Arrival(h)
  BY <1>2, <1>6 DEF Uploader, UploadOffer, UploadSlice, UploadStops, Arrival, Offer, Slice
<1>7. ASSUME NEW h \in Handlers, HandlerStep(h) PROVE UNCHANGED registry \/ FinalizeRegister(h)
  BY <1>7 DEF HandlerStep, OfferLock, CleanDone, OfferProbe, OfferCreate, OfferSave, OfferInsert,
     SliceWrite, SliceMark, SliceSave, FinalizeTake, FinalizeRename, FinalizeUnlink, FinalizeHash,
     FinalizeDrop, CleanPart, CleanSidecar
<1>8. CASE UNCHANGED vars
  BY <1>2, <1>8 DEF vars
<1>. QED
  BY <1>2, <1>3, <1>4, <1>5, <1>6, <1>7, <1>8, WorldType DEF Next, TypeInv

\* finalize_push never displaces a registration: what an id serves changes only
\* through unregister or a restart.
THEOREM NeverDisplacedCorrect == Spec => NeverDisplaced
<1>1. TypeInv /\ [Next]_vars
        => [\A x \in Ids : registry[x] # None => registry'[x] \in {registry[x], None}]_vars
  BY RegistryStep
<1>. QED
  BY <1>1, TypeAlways, PTL DEF Spec, NeverDisplaced

-----------------------------------------------------------------------------
(* The spool directory where the uploaders of an id take turns *)


\* The steps of an offer: it has its id to itself.
Offers == {"o_lock", "o_clean", "o_probe", "o_create", "o_save", "o_insert"}
\* The offer has taken its id out of the pushes and has not put it back.
Setting(h) ==
  \/ hs[h].step \in {"o_probe", "o_create", "o_save", "o_insert"}
  \/ hs[h].step = "o_clean" /\ hs[h].next \in {"o_probe", "refuse"}
\* Every bit is set and the push is about to be taken.
Finishing(h) == hs[h].step = "f_take" \/ (hs[h].step = "o_clean" /\ hs[h].next = "f_take")
\* The handler works for a push that it found under its root.
Sending(h)   == hs[h].step \in {"s_write", "s_mark", "s_save"} \/ Finishing(h)
\* finalize_push, from the removal of the push to its answer.
Ending(h) ==
  hs[h].step \in {"f_rename", "f_unlink", "f_hash", "f_mismatch", "f_register", "f_lose", "f_denied"}

\* The part of x holds the chunks of root that bits names.
Backed(x, bits, root) == \A i \in bits : part[x][i] = root

\* Who has an id to itself: an offer, what it evicted, and the one finalizer.
TurnInv(h) ==
  LET x == hs[h].id IN
  /\ hs[h].step = "free" => x = None
  /\ hs[h].step # "o_clean" => hs[h].evicted = {}
  /\ hs[h].step \in Offers => \A g \in Handlers : hs[g].id = x => g = h
  /\ Setting(h) \/ Ending(h) => pushes[x] = None
  /\ Ending(h) => \A g \in Handlers : hs[g].id = x /\ Ending(g) => g = h
\* An evicted id has no push and no other handler until its files are gone.
EvictInv(h) ==
  \A y \in hs[h].evicted :
    /\ pushes[y] = None
    /\ hs[h].id = y => hs[h].next \in {"o_probe", "refuse"}
    /\ \A g \in Handlers : hs[g].id = y \/ y \in hs[g].evicted => g = h
\* Everyone at work on an id is there for the same root.
RootInv(h) ==
  LET x == hs[h].id IN
  Sending(h) \/ Ending(h) =>
    /\ pushes[x] # None => pushes[x].root = hs[h].root
    /\ \A g \in Handlers : hs[g].id = x /\ (Sending(g) \/ Ending(g)) => hs[g].root = hs[h].root
\* The bits a handler copied under the lock were those of the push, which only grow.
BitsInv(h) ==
  LET x == hs[h].id IN
  /\ (At(h, "s_save") \/ Finishing(h)) /\ pushes[x] # None => hs[h].bits \subseteq pushes[x].bits
  /\ Finishing(h) => Missing(hs[h].bits) = {}
  /\ hs[h].step \in {"o_lock", "o_probe", "o_create", "o_save"} => hs[h].bits = {}
  /\ hs[h].step = "o_clean" /\ hs[h].next = "o_probe" => hs[h].bits = {}
\* A push in memory has its part, with the bytes of its bits, and its sidecar.
EntryInv(x) ==
  pushes[x] # None =>
    /\ part[x] # None /\ Backed(x, pushes[x].bits, pushes[x].root)
    /\ side[x] # None /\ side[x].root = pushes[x].root
\* A sidecar beside a part tells the truth, but between the creation of the part
\* and the first save, when it may be an older upload's.
SideInv(x) ==
  part[x] # None /\ side[x] # None /\ (\A h \in Handlers : hs[h].id = x => ~At(h, "o_save"))
    => Backed(x, side[x].bits, side[x].root)
\* What each step relies on: the file it just wrote, checked or renamed.
FileInv(h) ==
  LET x == hs[h].id IN
  /\ Sending(h) /\ part[x] # None /\ side[x] # None => side[x].root = hs[h].root
  /\ At(h, "s_mark") /\ pushes[x] # None => part[x][hs[h].chunk] = hs[h].root
  /\ At(h, "s_save") /\ part[x] # None => Backed(x, hs[h].bits, hs[h].root)
  /\ At(h, "o_save") => part[x] # None
  /\ At(h, "o_insert") => /\ part[x] # None /\ side[x] # None /\ side[x].root = hs[h].root
                          /\ hs[h].bits \subseteq side[x].bits
  /\ At(h, "f_rename") => Whole(part[x], hs[h].root)
  /\ hs[h].step \in {"f_unlink", "f_hash", "f_register"} => Whole(blob[x], hs[h].root)
  /\ ~At(h, "f_mismatch")
\* A served spool file is whole, and nobody is at work under its name.
ServeInv(x) ==
  registry[x] # None /\ registry[x].spooled =>
    /\ Whole(blob[x], registry[x].root) /\ pushes[x] = None
    /\ \A h \in Handlers : hs[h].id = x => hs[h].step \notin Offers /\ ~Ending(h)

\* The inductive invariant of the spool.
SpoolInv ==
  /\ \A h \in Handlers : TurnInv(h) /\ EvictInv(h) /\ RootInv(h) /\ BitsInv(h) /\ FileInv(h)
  /\ \A x \in Ids : EntryInv(x) /\ SideInv(x) /\ ServeInv(x)

\* No push comes, goes, or changes its root or bits.
SamePushes ==
  \A x \in Ids : /\ pushes'[x] = None <=> pushes[x] = None
                 /\ pushes[x] # None => /\ pushes'[x].root = pushes[x].root
                                        /\ pushes'[x].bits = pushes[x].bits

\* No spool file is newly served.
SameRegistry ==
  \A x \in Ids : registry'[x] # None /\ registry'[x].spooled => registry'[x] = registry[x]

\* A handler that ends outside the save, and a step that only touches a push or
\* withdraws a blob, disturb nothing.
LEMMA EndKeeps ==
  ASSUME TypeInv, SpoolInv, SamePushes, SameRegistry, UNCHANGED spool,
         \/ UNCHANGED hs
         \/ \E h \in Handlers : hs[h].step # "o_save" /\ hs' = [hs EXCEPT ![h] = Free]
  PROVE  SpoolInv'
<1>1. \A g \in Handlers : \/ hs'[g] = hs[g]
                          \/ /\ hs'[g].step = "free" /\ hs'[g].id = None /\ hs'[g].evicted = {}
                             /\ hs[g].step # "o_save"
  BY DEF TypeInv, TypeOK, Free, Starting
<1>2. part' = part /\ side' = side /\ blob' = blob
  BY DEF spool
<1>3. \A g \in Handlers : hs[g].step # "free" => hs[g].id \in Ids
  BY DEF TypeInv, HandlerType
<1>4. \A g \in Handlers : hs[g].evicted \subseteq Ids
  BY DEF TypeInv, TypeOK, Handler
<1>5. ASSUME NEW g \in Handlers
      PROVE  (TurnInv(g) /\ EvictInv(g) /\ RootInv(g) /\ BitsInv(g) /\ FileInv(g))'
  <2>1. TurnInv(g)'
    BY <1>1, <1>3, MarkerAssumption DEF SpoolInv, TurnInv, Setting, Ending, SamePushes, Offers
  <2>2. EvictInv(g)'
    BY <1>1, <1>4, MarkerAssumption DEF SpoolInv, EvictInv, SamePushes
  <2>3. RootInv(g)'
    BY <1>1, <1>3 DEF SpoolInv, RootInv, Sending, Finishing, Ending, SamePushes
  <2>4. BitsInv(g)'
    BY <1>1, <1>3 DEF SpoolInv, BitsInv, Sending, Finishing, At, SamePushes, Missing
  <2>5. FileInv(g)'
    BY <1>1, <1>2, <1>3 DEF SpoolInv, FileInv, Sending, Finishing, At, SamePushes, Whole, Backed
  <2>. QED
    BY <2>1, <2>2, <2>3, <2>4, <2>5
<1>6. ASSUME NEW x \in Ids PROVE (EntryInv(x) /\ SideInv(x) /\ ServeInv(x))'
  <2>1. EntryInv(x)'
    BY <1>2 DEF SpoolInv, EntryInv, SamePushes, Backed
  <2>2. SideInv(x)'
    BY <1>1, <1>2 DEF SpoolInv, SideInv, Backed, At
  <2>3. ServeInv(x)'
    BY <1>1, <1>2, MarkerAssumption DEF SpoolInv, ServeInv, SamePushes, SameRegistry, Whole, Ending
  <2>. QED
    BY <2>1, <2>2, <2>3
<1>. QED
  BY <1>5, <1>6 DEF SpoolInv

\* What the types say of the locals, the entries and the sidecars.
LEMMA Shapes ==
  ASSUME TypeInv
  PROVE  /\ \A g \in Handlers : /\ hs[g].step # "free" => hs[g].id \in Ids
                                /\ hs[g].bits \subseteq Chunks /\ hs[g].evicted \subseteq Ids
                                /\ hs[g].step = "s_mark" => hs[g].chunk \in Chunks
         /\ \A y \in Ids : /\ pushes[y] # None => pushes[y].bits \subseteq Chunks
                           /\ side[y] # None => side[y].bits \subseteq Chunks
         /\ None \notin Ids
<1>1. \A g \in Handlers : /\ hs[g].step # "free" => hs[g].id \in Ids
                          /\ hs[g].bits \subseteq Chunks /\ hs[g].evicted \subseteq Ids
                          /\ hs[g].step = "s_mark" => hs[g].chunk \in Chunks
  BY DEF TypeInv, TypeOK, HandlerType, Handler
<1>2. \A y \in Ids : /\ pushes[y] # None => pushes[y].bits \subseteq Chunks
                     /\ side[y] # None => side[y].bits \subseteq Chunks
  BY DEF TypeInv, TypeOK, Entry, Sidecar
<1>. QED
  BY <1>1, <1>2, MarkerAssumption

\* A step of h leaves the other handlers alone; it takes h to s with the same
\* locals, or ends h.
Others(h) == \A g \in Handlers : g # h => hs'[g] = hs[g]
Moves(h, s) ==
  /\ Others(h) /\ hs'[h].step = s
  /\ hs'[h].id = hs[h].id /\ hs'[h].root = hs[h].root /\ hs'[h].chunk = hs[h].chunk
  /\ hs'[h].bits = hs[h].bits /\ hs'[h].evicted = hs[h].evicted /\ hs'[h].next = hs[h].next
Ends(h) == Others(h) /\ hs'[h].step = "free" /\ hs'[h].id = None /\ hs'[h].evicted = {}

\* Goto changes the step alone.
LEMMA GotoMoves == ASSUME TypeInv, NEW h \in Handlers, NEW s \in Steps, Goto(h, s) PROVE Moves(h, s)
BY DEF Goto, Moves, Others, TypeInv, TypeOK, Handler

\* An answered handler is free again.
LEMMA FreedEnds ==
  ASSUME TypeInv, NEW h \in Handlers, hs' = [hs EXCEPT ![h] = Free] PROVE Ends(h)
BY DEF Ends, Others, TypeInv, TypeOK, Free, Starting

\* Where the files of its id are left alone, so is a handler's view of them.
LEMMA FileKept ==
  ASSUME NEW g \in Handlers, FileInv(g), hs'[g] = hs[g],
         hs[g].step # "free" => /\ pushes[hs[g].id] = None => pushes'[hs[g].id] = None
                                /\ part'[hs[g].id] = part[hs[g].id]
                                /\ side'[hs[g].id] = side[hs[g].id]
                                /\ blob'[hs[g].id] = blob[hs[g].id]
  PROVE  FileInv(g)'
BY DEF FileInv, Sending, Finishing, At, Whole, Backed

\* cleanup_spool works on ids without a push, where no other handler is.
LEMMA CleanPartSpool ==
  ASSUME TypeInv, SpoolInv, NEW h \in Handlers, NEW e \in Ids, CleanPart(h, e)
  PROVE  SpoolInv'
<1>1. /\ hs[h].step = "o_clean" /\ e \in hs[h].evicted /\ EvictInv(h)
      /\ hs' = hs /\ pushes' = pushes /\ registry' = registry /\ side' = side /\ blob' = blob
  BY DEF CleanPart, At, SpoolInv
<1>2. part'[e] = None /\ \A y \in Ids : y # e => part'[y] = part[y]
  BY DEF CleanPart, TypeInv, TypeOK
<1>3. ASSUME NEW g \in Handlers
      PROVE  (TurnInv(g) /\ EvictInv(g) /\ RootInv(g) /\ BitsInv(g) /\ FileInv(g))'
  <2>1. TurnInv(g)'
    BY <1>1 DEF SpoolInv, TurnInv, Setting, Ending, Offers
  <2>2. EvictInv(g)'
    BY <1>1 DEF SpoolInv, EvictInv
  <2>3. RootInv(g)'
    BY <1>1 DEF SpoolInv, RootInv, Sending, Finishing, Ending
  <2>4. BitsInv(g)'
    BY <1>1 DEF SpoolInv, BitsInv, Finishing, At, Missing
  <2>5. FileInv(g)'
    BY <1>1, <1>2, Shapes DEF SpoolInv, FileInv, Sending, Finishing, At, Whole, Backed,
       EvictInv
  <2>. QED
    BY <2>1, <2>2, <2>3, <2>4, <2>5
<1>4. ASSUME NEW y \in Ids PROVE (EntryInv(y) /\ SideInv(y) /\ ServeInv(y))'
  <2>1. EntryInv(y)'
    BY <1>1, <1>2 DEF SpoolInv, EntryInv, Backed, EvictInv
  <2>2. SideInv(y)'
    BY <1>1, <1>2 DEF SpoolInv, SideInv, Backed, At
  <2>3. ServeInv(y)'
    BY <1>1 DEF SpoolInv, ServeInv, Whole, Ending, Offers
  <2>. QED
    BY <2>1, <2>2, <2>3
<1>. QED
  BY <1>3, <1>4 DEF SpoolInv

\* cleanup_spool removes the sidecar after the part.
LEMMA CleanSidecarSpool ==
  ASSUME TypeInv, SpoolInv, NEW h \in Handlers, NEW e \in Ids, CleanSidecar(h, e)
  PROVE  SpoolInv'
<1>1. /\ hs[h].step = "o_clean" /\ e \in hs[h].evicted /\ EvictInv(h)
      /\ pushes' = pushes /\ registry' = registry /\ part' = part /\ blob' = blob
  BY DEF CleanSidecar, At, SpoolInv
<1>2. side'[e] = None /\ \A y \in Ids : y # e => side'[y] = side[y]
  BY DEF CleanSidecar, TypeInv, TypeOK
<1>3. /\ Others(h) /\ hs'[h].evicted = hs[h].evicted \ {e} /\ hs'[h].step = hs[h].step
      /\ hs'[h].id = hs[h].id /\ hs'[h].root = hs[h].root /\ hs'[h].chunk = hs[h].chunk
      /\ hs'[h].bits = hs[h].bits /\ hs'[h].next = hs[h].next
  BY DEF CleanSidecar, Others, TypeInv, TypeOK, Handler
<1>4. ASSUME NEW g \in Handlers
      PROVE  (TurnInv(g) /\ EvictInv(g) /\ RootInv(g) /\ BitsInv(g) /\ FileInv(g))'
  <2>1. TurnInv(g)'
    BY <1>1, <1>3 DEF SpoolInv, TurnInv, Setting, Ending, Offers, Others
  <2>2. EvictInv(g)'
    BY <1>1, <1>3 DEF SpoolInv, EvictInv, Others
  <2>3. RootInv(g)'
    BY <1>1, <1>3 DEF SpoolInv, RootInv, Sending, Finishing, Ending, Others
  <2>4. BitsInv(g)'
    BY <1>1, <1>3 DEF SpoolInv, BitsInv, Finishing, At, Missing, Others
  <2>5. FileInv(g)'
    BY <1>1, <1>3, <1>2, Shapes DEF SpoolInv, FileInv, Sending, Finishing, At, Whole,
       Backed, EvictInv, Others
  <2>. QED
    BY <2>1, <2>2, <2>3, <2>4, <2>5
<1>5. ASSUME NEW y \in Ids PROVE (EntryInv(y) /\ SideInv(y) /\ ServeInv(y))'
  <2>1. EntryInv(y)'
    BY <1>1, <1>3, <1>2 DEF SpoolInv, EntryInv, Backed, EvictInv
  <2>2. SideInv(y)'
    BY <1>1, <1>3, <1>2 DEF SpoolInv, SideInv, Backed, At, Others
  <2>3. ServeInv(y)'
    BY <1>1, <1>3 DEF SpoolInv, ServeInv, Whole, Ending, Offers, Others
  <2>. QED
    BY <2>1, <2>2, <2>3
<1>. QED
  BY <1>4, <1>5 DEF SpoolInv

\* What was evicted is cleaned up: the offer goes on to its spool files, or to
\* finalize the push it found whole.
LEMMA CleanedSpool ==
  ASSUME TypeInv, SpoolInv, NEW h \in Handlers, CleanDone(h), hs[h].next \notin {"free", "refuse"}
  PROVE  SpoolInv'
<1>1. /\ hs[h].step = "o_clean" /\ hs[h].evicted = {} /\ hs[h].next \in {"o_probe", "f_take"}
      /\ pushes' = pushes /\ registry' = registry /\ part' = part /\ side' = side /\ blob' = blob
  BY DEF CleanDone, At, spool, TypeInv, HandlerType
<1>2. Moves(h, hs[h].next)
  BY <1>1, GotoMoves DEF CleanDone, Steps
<1>3. ASSUME NEW g \in Handlers
      PROVE  (TurnInv(g) /\ EvictInv(g) /\ RootInv(g) /\ BitsInv(g) /\ FileInv(g))'
  <2>1. TurnInv(g)'
    BY <1>1, <1>2 DEF SpoolInv, TurnInv, Setting, Ending, Offers, Moves, Others
  <2>2. EvictInv(g)'
    BY <1>1, <1>2 DEF SpoolInv, EvictInv, Moves, Others
  <2>3. RootInv(g)'
    BY <1>1, <1>2 DEF SpoolInv, RootInv, Sending, Finishing, Ending, Moves, Others
  <2>4. BitsInv(g)'
    BY <1>1, <1>2 DEF SpoolInv, BitsInv, Finishing, At, Missing, Moves, Others
  <2>5. FileInv(g)'
    BY <1>1, <1>2 DEF SpoolInv, FileInv, Sending, Finishing, At, Whole, Backed, Moves,
       Others
  <2>. QED
    BY <2>1, <2>2, <2>3, <2>4, <2>5
<1>4. ASSUME NEW y \in Ids PROVE (EntryInv(y) /\ SideInv(y) /\ ServeInv(y))'
  <2>1. EntryInv(y)'
    BY <1>1, <1>2 DEF SpoolInv, EntryInv, Backed
  <2>2. SideInv(y)'
    BY <1>1, <1>2 DEF SpoolInv, SideInv, Backed, At, Moves, Others
  <2>3. ServeInv(y)'
    BY <1>1, <1>2 DEF SpoolInv, ServeInv, Whole, Ending, Offers, Moves, Others
  <2>. QED
    BY <2>1, <2>2, <2>3
<1>. QED
  BY <1>3, <1>4 DEF SpoolInv

\* The spool files are there to resume from, or not.
LEMMA OfferProbeSpool ==
  ASSUME TypeInv, SpoolInv, NEW h \in Handlers, OfferProbe(h)
  PROVE  SpoolInv'
<1>1. /\ hs[h].step = "o_probe"
      /\ pushes' = pushes /\ registry' = registry /\ part' = part /\ side' = side /\ blob' = blob
  BY DEF OfferProbe, At, spool
<1>2. /\ Others(h) /\ hs'[h].evicted = hs[h].evicted
      /\ hs'[h].id = hs[h].id /\ hs'[h].root = hs[h].root /\ hs'[h].chunk = hs[h].chunk
      /\ hs'[h].next = hs[h].next
      /\ \/ hs'[h].step = "o_create" /\ hs'[h].bits = hs[h].bits
         \/ hs'[h].step = "o_insert" /\ Resumable(h) /\ hs'[h].bits = side[hs[h].id].bits
  BY DEF OfferProbe, Goto, Others, TypeInv, TypeOK, Handler
<1>3. ASSUME NEW g \in Handlers
      PROVE  (TurnInv(g) /\ EvictInv(g) /\ RootInv(g) /\ BitsInv(g) /\ FileInv(g))'
  <2>1. TurnInv(g)'
    BY <1>1, <1>2 DEF SpoolInv, TurnInv, Setting, Ending, Offers, Others
  <2>2. EvictInv(g)'
    BY <1>1, <1>2 DEF SpoolInv, EvictInv, Others
  <2>3. RootInv(g)'
    BY <1>1, <1>2 DEF SpoolInv, RootInv, Sending, Finishing, Ending, Others
  <2>4. BitsInv(g)'
    BY <1>1, <1>2 DEF SpoolInv, BitsInv, Finishing, At, Missing, Others
  <2>5. FileInv(g)'
    <3>1. CASE g = h
      BY <1>1, <1>2, <3>1 DEF FileInv, Sending, Finishing, At, Resumable
    <3>2. CASE g # h
      BY <1>1, <1>2, <3>2 DEF SpoolInv, FileInv, Sending, Finishing, At, Whole, Backed, Others
    <3>. QED
      BY <3>1, <3>2
  <2>. QED
    BY <2>1, <2>2, <2>3, <2>4, <2>5
<1>4. ASSUME NEW y \in Ids PROVE (EntryInv(y) /\ SideInv(y) /\ ServeInv(y))'
  <2>1. EntryInv(y)'
    BY <1>1, <1>2 DEF SpoolInv, EntryInv, Backed
  <2>2. SideInv(y)'
    BY <1>1, <1>2 DEF SpoolInv, SideInv, Backed, At, Others
  <2>3. ServeInv(y)'
    BY <1>1, <1>2 DEF SpoolInv, ServeInv, Whole, Ending, Offers, Others
  <2>. QED
    BY <2>1, <2>2, <2>3
<1>. QED
  BY <1>3, <1>4 DEF SpoolInv

\* The fresh part of a push that has no sidecar yet, and no other handler.
LEMMA OfferCreateSpool ==
  ASSUME TypeInv, SpoolInv, NEW h \in Handlers, OfferCreate(h)
  PROVE  SpoolInv'
<1>1. /\ hs[h].step = "o_create" /\ hs[h].id \in Ids
      /\ pushes' = pushes /\ registry' = registry /\ side' = side /\ blob' = blob
  BY Shapes DEF OfferCreate, At
<1>2. Moves(h, "o_save")
  BY GotoMoves DEF OfferCreate, Steps
<1>3. part'[hs[h].id] # None /\ \A y \in Ids : y # hs[h].id => part'[y] = part[y]
  <2>1. [i \in Chunks |-> Junk] \in Content
    BY DEF Content
  <2>. QED
    BY <1>1, <2>1, MarkerAssumption DEF OfferCreate, TypeInv, TypeOK
<1>4. ASSUME NEW g \in Handlers
      PROVE  (TurnInv(g) /\ EvictInv(g) /\ RootInv(g) /\ BitsInv(g) /\ FileInv(g))'
  <2>1. TurnInv(g)'
    BY <1>1, <1>2 DEF SpoolInv, TurnInv, Setting, Ending, Offers, Moves, Others
  <2>2. EvictInv(g)'
    BY <1>1, <1>2 DEF SpoolInv, EvictInv, Moves, Others
  <2>3. RootInv(g)'
    BY <1>1, <1>2 DEF SpoolInv, RootInv, Sending, Finishing, Ending, Moves, Others
  <2>4. BitsInv(g)'
    BY <1>1, <1>2 DEF SpoolInv, BitsInv, Finishing, At, Missing, Moves, Others
  <2>5. FileInv(g)'
    <3>1. CASE g = h
      BY <1>1, <1>2, <1>3, <3>1 DEF FileInv, Sending, Finishing, At, Moves
    <3>2. CASE g # h
      <4>1. hs[g].id # hs[h].id /\ hs'[g] = hs[g]
        BY <1>1, <1>2, <3>2 DEF SpoolInv, TurnInv, Offers, Moves, Others
      <4>2. hs[g].step # "free" => part'[hs[g].id] = part[hs[g].id]
        BY <1>3, <4>1, Shapes
      <4>3. FileInv(g)
        BY DEF SpoolInv
      <4>4. CASE hs[g].step = "free"
        BY <4>1, <4>4 DEF FileInv, Sending, Finishing, At
      <4>5. CASE hs[g].step # "free"
        <5>1. part'[hs'[g].id] = part[hs[g].id]
          BY <4>1, <4>2, <4>5
        <5>. QED
          BY <1>1, <4>1, <4>3, <5>1 DEF FileInv, Sending, Finishing, At, Whole, Backed
      <4>. QED
        BY <4>4, <4>5
    <3>. QED
      BY <3>1, <3>2
  <2>. QED
    BY <2>1, <2>2, <2>3, <2>4, <2>5
<1>5. ASSUME NEW y \in Ids PROVE (EntryInv(y) /\ SideInv(y) /\ ServeInv(y))'
  <2>1. EntryInv(y)'
    BY <1>1, <1>2, <1>3 DEF SpoolInv, EntryInv, Backed, TurnInv, Setting
  <2>2. SideInv(y)'
    BY <1>1, <1>2, <1>3 DEF SpoolInv, SideInv, Backed, At, Moves, Others
  <2>3. ServeInv(y)'
    BY <1>1, <1>2 DEF SpoolInv, ServeInv, Whole, Ending, Offers, Moves, Others
  <2>. QED
    BY <2>1, <2>2, <2>3
<1>. QED
  BY <1>4, <1>5 DEF SpoolInv

\* The first save makes the sidecar true of the new part.
LEMMA OfferSaveSpool ==
  ASSUME TypeInv, SpoolInv, NEW h \in Handlers, OfferSave(h)
  PROVE  SpoolInv'
<1>1. /\ hs[h].step = "o_save" /\ hs[h].id \in Ids
      /\ pushes' = pushes /\ registry' = registry /\ part' = part /\ blob' = blob
  BY Shapes DEF OfferSave, At
<1>2. Moves(h, "o_insert")
  BY GotoMoves DEF OfferSave, Steps
<1>3. /\ side'[hs[h].id] # None /\ side'[hs[h].id].root = hs[h].root /\ side'[hs[h].id].bits = {}
      /\ \A y \in Ids : y # hs[h].id => side'[y] = side[y]
  <2>1. [root |-> hs[h].root, bits |-> {}] \in Sidecar
    BY <1>1 DEF Sidecar, TypeInv, HandlerType
  <2>. QED
    BY <1>1, <2>1, MarkerAssumption DEF OfferSave, TypeInv, TypeOK
<1>4. ASSUME NEW g \in Handlers
      PROVE  (TurnInv(g) /\ EvictInv(g) /\ RootInv(g) /\ BitsInv(g) /\ FileInv(g))'
  <2>1. TurnInv(g)'
    BY <1>1, <1>2 DEF SpoolInv, TurnInv, Setting, Ending, Offers, Moves, Others
  <2>2. EvictInv(g)'
    BY <1>1, <1>2 DEF SpoolInv, EvictInv, Moves, Others
  <2>3. RootInv(g)'
    BY <1>1, <1>2 DEF SpoolInv, RootInv, Sending, Finishing, Ending, Moves, Others
  <2>4. BitsInv(g)'
    BY <1>1, <1>2 DEF SpoolInv, BitsInv, Finishing, At, Missing, Moves, Others
  <2>5. FileInv(g)'
    BY <1>1, <1>2, <1>3, Shapes DEF SpoolInv, FileInv, Sending, Finishing, At, Whole,
       Backed, Moves, Others, TurnInv, Offers, BitsInv
  <2>. QED
    BY <2>1, <2>2, <2>3, <2>4, <2>5
<1>5. ASSUME NEW y \in Ids PROVE (EntryInv(y) /\ SideInv(y) /\ ServeInv(y))'
  <2>1. EntryInv(y)'
    BY <1>1, <1>2, <1>3 DEF SpoolInv, EntryInv, Backed, TurnInv, Setting
  <2>2. SideInv(y)'
    BY <1>1, <1>2, <1>3 DEF SpoolInv, SideInv, Backed, At, Moves, Others
  <2>3. ServeInv(y)'
    BY <1>1, <1>2 DEF SpoolInv, ServeInv, Whole, Ending, Offers, Moves, Others
  <2>. QED
    BY <2>1, <2>2, <2>3
<1>. QED
  BY <1>4, <1>5 DEF SpoolInv

\* The push is entered: its files are there, and nobody else is at work on it.
LEMMA OfferInsertSpool ==
  ASSUME TypeInv, SpoolInv, NEW h \in Handlers, OfferInsert(h), pushes' # pushes
  PROVE  SpoolInv'
<1>1. /\ hs[h].step = "o_insert" /\ hs[h].id \in Ids /\ pushes[hs[h].id] = None
      /\ registry' = registry /\ part' = part /\ side' = side /\ blob' = blob
  BY Shapes DEF OfferInsert, At, spool, SpoolInv, TurnInv, Setting
<1>2. /\ pushes'[hs[h].id] # None /\ pushes'[hs[h].id].root = hs[h].root
      /\ pushes'[hs[h].id].bits = hs[h].bits
      /\ \A y \in Ids : y # hs[h].id => pushes'[y] = pushes[y]
  <2>1. [root |-> hs[h].root, bits |-> hs[h].bits, dirty |-> 0, idle |-> FALSE] \in Entry
    BY <1>1 DEF Entry, TypeInv, TypeOK, Handler, HandlerType
  <2>. QED
    BY <1>1, <2>1, MarkerAssumption DEF OfferInsert, TypeInv, TypeOK
<1>3. Ends(h) \/ (Moves(h, "f_take") /\ Missing(hs[h].bits) = {})
  BY <1>1, FreedEnds DEF OfferInsert, Done, Moves, Others, TypeInv, TypeOK, Handler
<1>4. ASSUME NEW g \in Handlers
      PROVE  (TurnInv(g) /\ EvictInv(g) /\ RootInv(g) /\ BitsInv(g) /\ FileInv(g))'
  <2>1. TurnInv(g)'
    BY <1>1, <1>2, <1>3, Shapes DEF SpoolInv, TurnInv, Setting, Ending, Offers, Moves,
       Others, Ends
  <2>2. EvictInv(g)'
    BY <1>1, <1>2, <1>3, Shapes DEF SpoolInv, EvictInv, Moves, Others, Ends, TurnInv
  <2>3. RootInv(g)'
    BY <1>1, <1>2, <1>3, Shapes DEF SpoolInv, RootInv, Sending, Finishing, Ending, Moves,
       Others, Ends, TurnInv, Offers
  <2>4. BitsInv(g)'
    BY <1>1, <1>2, <1>3, Shapes DEF SpoolInv, BitsInv, Finishing, At, Missing, Moves,
       Others, Ends, TurnInv, Offers
  <2>5. FileInv(g)'
    BY <1>1, <1>2, <1>3, Shapes DEF SpoolInv, FileInv, Sending, Finishing, At, Whole,
       Backed, Moves, Others, Ends, TurnInv, Offers
  <2>. QED
    BY <2>1, <2>2, <2>3, <2>4, <2>5
<1>5. ASSUME NEW y \in Ids PROVE (EntryInv(y) /\ SideInv(y) /\ ServeInv(y))'
  <2>1. EntryInv(y)'
    BY <1>1, <1>2, <1>3, Shapes DEF SpoolInv, EntryInv, Backed, FileInv, At, SideInv,
       TurnInv, Offers
  <2>2. SideInv(y)'
    BY <1>1, <1>2, <1>3, Shapes DEF SpoolInv, SideInv, Backed, At, Moves, Others, Ends
  <2>3. ServeInv(y)'
    BY <1>1, <1>2, <1>3, Shapes DEF SpoolInv, ServeInv, Whole, Ending, Offers, Moves,
       Others, Ends
  <2>. QED
    BY <2>1, <2>2, <2>3
<1>. QED
  BY <1>4, <1>5 DEF SpoolInv

\* A slice writes the bytes of the content that its id's push has.
LEMMA SliceWriteSpool ==
  ASSUME TypeInv, SpoolInv, NEW h \in Handlers, SliceWrite(h), part[hs[h].id] # None
  PROVE  SpoolInv'
<1> DEFINE x == hs[h].id
           i == hs[h].chunk
           r == hs[h].root
<1>1. /\ hs[h].step = "s_write" /\ x \in Ids /\ r \in Roots /\ i \in Chunks
      /\ pushes' = pushes /\ registry' = registry /\ side' = side /\ blob' = blob
  BY DEF SliceWrite, At, TypeInv, HandlerType
<1>2. Moves(h, "s_mark")
  BY GotoMoves DEF SliceWrite, Steps
<1>3. /\ part'[x] # None /\ \A y \in Ids : y # x => part'[y] = part[y]
      /\ \A j \in Chunks : part'[x][j] = IF j = i THEN r ELSE part[x][j]
  <2>1. part[x] \in Content /\ part \in [Ids -> Content \cup {None}]
    BY <1>1 DEF TypeInv, TypeOK
  <2>2. part' = [part EXCEPT ![x] = [part[x] EXCEPT ![i] = r]]
    BY DEF SliceWrite
  <2>3. [part[x] EXCEPT ![i] = r] \in Content
    BY <1>1, <2>1 DEF Content
  <2>4. part'[x] = [part[x] EXCEPT ![i] = r]
    BY <1>1, <2>1, <2>2
  <2>. QED
    BY <1>1, <2>1, <2>2, <2>3, <2>4, MarkerAssumption DEF Content
<1> HIDE DEF x, i, r
<1>4. ASSUME NEW g \in Handlers
      PROVE  (TurnInv(g) /\ EvictInv(g) /\ RootInv(g) /\ BitsInv(g) /\ FileInv(g))'
  <2>1. TurnInv(g)'
    BY <1>1, <1>2 DEF SpoolInv, TurnInv, Setting, Ending, Offers, Moves, Others
  <2>2. EvictInv(g)'
    BY <1>1, <1>2 DEF SpoolInv, EvictInv, Moves, Others
  <2>3. RootInv(g)'
    BY <1>1, <1>2 DEF SpoolInv, RootInv, Sending, Finishing, Ending, Moves, Others
  <2>4. BitsInv(g)'
    BY <1>1, <1>2 DEF SpoolInv, BitsInv, Finishing, At, Missing, Moves, Others
  <2>5. FileInv(g)'
    BY <1>1, <1>2, <1>3, Shapes DEF SpoolInv, FileInv, Sending, Finishing, At, Whole,
       Backed, Moves, Others, RootInv, Ending, x, i, r
  <2>. QED
    BY <2>1, <2>2, <2>3, <2>4, <2>5
<1>5. ASSUME NEW y \in Ids PROVE (EntryInv(y) /\ SideInv(y) /\ ServeInv(y))'
  <2>1. EntryInv(y)'
    BY <1>1, <1>2, <1>3, Shapes DEF SpoolInv, EntryInv, Backed, RootInv, Sending, x, i, r
  <2>2. SideInv(y)'
    BY <1>1, <1>2, <1>3, Shapes DEF SpoolInv, SideInv, Backed, At, Moves, Others, FileInv,
       Sending, x, i, r
  <2>3. ServeInv(y)'
    BY <1>1, <1>2 DEF SpoolInv, ServeInv, Whole, Ending, Offers, Moves, Others
  <2>. QED
    BY <2>1, <2>2, <2>3
<1>. QED
  BY <1>4, <1>5 DEF SpoolInv

\* What marking a chunk makes of the entry.
LEMMA MarkedEntry ==
  ASSUME TypeInv, NEW h \in Handlers, SliceMark(h), pushes[hs[h].id] # None
  PROVE  LET x == hs[h].id IN
         /\ pushes'[x] # None /\ pushes'[x].root = pushes[x].root
         /\ pushes'[x].bits = pushes[x].bits \cup {hs[h].chunk} /\ pushes'[x].idle = pushes[x].idle
         /\ \A y \in Ids : y # x => pushes'[y] = pushes[y]
<1> DEFINE x == hs[h].id
           b == pushes[x].bits \cup {hs[h].chunk}
<1>1. /\ x \in Ids /\ hs[h].chunk \in Chunks
      /\ pushes \in [Ids -> Entry \cup {None}] /\ pushes[x] \in Entry
  BY DEF SliceMark, At, TypeInv, TypeOK, HandlerType
<1>2. PICK d \in Nat : pushes' = [pushes EXCEPT ![x] = [pushes[x] EXCEPT !.bits = b, !.dirty = d]]
  <2> DEFINE n == IF hs[h].chunk \in pushes[x].bits THEN pushes[x].dirty ELSE pushes[x].dirty + 1
  <2>1. n \in Nat
    BY <1>1 DEF Entry
  <2>2. \/ pushes' = [pushes EXCEPT ![x].bits = b, ![x].dirty = 0]
        \/ pushes' = [pushes EXCEPT ![x].bits = b, ![x].dirty = n]
    BY DEF SliceMark
  <2> HIDE DEF n, b
  <2>. QED
    BY <1>1, <2>1, <2>2 DEF Entry
<1>3. [pushes[x] EXCEPT !.bits = b, !.dirty = d] \in Entry
  BY <1>1 DEF Entry
<1>4. pushes'[x] = [pushes[x] EXCEPT !.bits = b, !.dirty = d]
  BY <1>1, <1>2
<1>5. pushes'[x].root = pushes[x].root /\ pushes'[x].bits = b /\ pushes'[x].idle = pushes[x].idle
  BY <1>1, <1>4 DEF Entry
<1>. QED
  BY <1>1, <1>2, <1>3, <1>4, <1>5, MarkerAssumption

\* A chunk is marked once its bytes are in the part.
LEMMA SliceMarkSpool ==
  ASSUME TypeInv, SpoolInv, NEW h \in Handlers, SliceMark(h), pushes[hs[h].id] # None
  PROVE  SpoolInv'
<1> DEFINE x == hs[h].id
           b == pushes[x].bits \cup {hs[h].chunk}
<1>1. /\ hs[h].step = "s_mark" /\ x \in Ids /\ hs[h].chunk \in Chunks
      /\ pushes[x].root = hs[h].root
      /\ registry' = registry /\ part' = part /\ side' = side /\ blob' = blob
  <2>1. RootInv(h)
    BY DEF SpoolInv
  <2>. QED
    BY <2>1 DEF SliceMark, At, spool, TypeInv, HandlerType, RootInv, Sending
<1>2. /\ pushes'[x] # None /\ pushes'[x].root = pushes[x].root /\ pushes'[x].bits = b
      /\ \A y \in Ids : y # x => pushes'[y] = pushes[y]
  BY MarkedEntry
<1>3. \/ Ends(h)
      \/ /\ Others(h) /\ hs'[h].step = "s_save" /\ hs'[h].bits = b
         /\ hs'[h].id = hs[h].id /\ hs'[h].root = hs[h].root
         /\ hs'[h].evicted = hs[h].evicted /\ hs'[h].next = hs[h].next
  BY <1>1, FreedEnds DEF SliceMark, Done, Others, TypeInv, TypeOK, Handler
<1> HIDE DEF x, b
<1>4. ASSUME NEW g \in Handlers
      PROVE  (TurnInv(g) /\ EvictInv(g) /\ RootInv(g) /\ BitsInv(g) /\ FileInv(g))'
  <2>1. TurnInv(g)'
    BY <1>1, <1>2, <1>3, Shapes DEF SpoolInv, TurnInv, Setting, Ending, Offers, Others,
       Ends, x
  <2>2. EvictInv(g)'
    BY <1>1, <1>2, <1>3, Shapes DEF SpoolInv, EvictInv, Others, Ends, x
  <2>3. RootInv(g)'
    BY <1>1, <1>2, <1>3, Shapes DEF SpoolInv, RootInv, Sending, Finishing, Ending, Others,
       Ends, x
  <2>4. BitsInv(g)'
    BY <1>1, <1>2, <1>3, Shapes DEF SpoolInv, BitsInv, Finishing, At, Missing, Others, Ends,
       x, b
  <2>5. FileInv(g)'
    <3>1. CASE g = h
      BY <1>1, <1>3, <3>1 DEF SpoolInv, FileInv, EntryInv, Sending, Finishing, At, Backed, Ends, x, b
    <3>2. CASE g # h
      BY <1>1, <1>2, <1>3, <3>2, Shapes DEF SpoolInv, FileInv, Sending, Finishing, At, Whole, Backed,
         Others, Ends, x
    <3>. QED
      BY <3>1, <3>2
  <2>. QED
    BY <2>1, <2>2, <2>3, <2>4, <2>5
<1>5. ASSUME NEW y \in Ids PROVE (EntryInv(y) /\ SideInv(y) /\ ServeInv(y))'
  <2>1. EntryInv(y)'
    BY <1>1, <1>2, <1>3, Shapes DEF SpoolInv, EntryInv, Backed, FileInv, At, x, b
  <2>2. SideInv(y)'
    BY <1>1, <1>2, <1>3, Shapes DEF SpoolInv, SideInv, Backed, At, Others, Ends
  <2>3. ServeInv(y)'
    BY <1>1, <1>2, <1>3, Shapes DEF SpoolInv, ServeInv, Whole, Ending, Offers, Others, Ends,
       x
  <2>. QED
    BY <2>1, <2>2, <2>3
<1>. QED
  BY <1>4, <1>5 DEF SpoolInv

\* The batched save: what it saves is in the part.
LEMMA SliceSaveSpool ==
  ASSUME TypeInv, SpoolInv, NEW h \in Handlers, SliceSave(h)
  PROVE  SpoolInv'
<1>1. /\ hs[h].step = "s_save" /\ hs[h].id \in Ids
      /\ pushes' = pushes /\ registry' = registry /\ part' = part /\ blob' = blob
  BY Shapes DEF SliceSave, At
<1>2. /\ side'[hs[h].id] # None /\ side'[hs[h].id].root = hs[h].root
      /\ side'[hs[h].id].bits = hs[h].bits
      /\ \A y \in Ids : y # hs[h].id => side'[y] = side[y]
  <2>1. [root |-> hs[h].root, bits |-> hs[h].bits] \in Sidecar
    BY <1>1, Shapes DEF Sidecar, TypeInv, HandlerType
  <2>. QED
    BY <1>1, <2>1, MarkerAssumption DEF SliceSave, TypeInv, TypeOK
<1>3. Ends(h) \/ (Moves(h, "f_take") /\ Missing(hs[h].bits) = {})
  BY FreedEnds, GotoMoves DEF SliceSave, Done, Steps
<1>4. ASSUME NEW g \in Handlers
      PROVE  (TurnInv(g) /\ EvictInv(g) /\ RootInv(g) /\ BitsInv(g) /\ FileInv(g))'
  <2>1. TurnInv(g)'
    BY <1>1, <1>3, Shapes DEF SpoolInv, TurnInv, Setting, Ending, Offers, Moves, Others,
       Ends
  <2>2. EvictInv(g)'
    BY <1>1, <1>3, Shapes DEF SpoolInv, EvictInv, Moves, Others, Ends
  <2>3. RootInv(g)'
    BY <1>1, <1>3, Shapes DEF SpoolInv, RootInv, Sending, Finishing, Ending, Moves, Others,
       Ends
  <2>4. BitsInv(g)'
    BY <1>1, <1>3, Shapes DEF SpoolInv, BitsInv, Finishing, At, Missing, Moves, Others, Ends
  <2>5. FileInv(g)'
    BY <1>1, <1>3, Shapes, <1>2 DEF SpoolInv, FileInv, Sending, Finishing, At, Whole,
       Backed, Moves, Others, Ends, TurnInv, RootInv, Offers
  <2>. QED
    BY <2>1, <2>2, <2>3, <2>4, <2>5
<1>5. ASSUME NEW y \in Ids PROVE (EntryInv(y) /\ SideInv(y) /\ ServeInv(y))'
  <2>1. EntryInv(y)'
    BY <1>1, <1>3, Shapes, <1>2 DEF SpoolInv, EntryInv, Backed, RootInv, Sending
  <2>2. SideInv(y)'
    BY <1>1, <1>3, Shapes, <1>2 DEF SpoolInv, SideInv, Backed, At, Moves, Others, Ends,
       FileInv
  <2>3. ServeInv(y)'
    BY <1>1, <1>3, Shapes DEF SpoolInv, ServeInv, Whole, Ending, Offers, Moves, Others, Ends
  <2>. QED
    BY <2>1, <2>2, <2>3
<1>. QED
  BY <1>4, <1>5 DEF SpoolInv

\* finalize_push takes the entry: every chunk of the part is there.
LEMMA FinalizeTakeSpool ==
  ASSUME TypeInv, SpoolInv, NEW h \in Handlers, FinalizeTake(h), pushes[hs[h].id] # None
  PROVE  SpoolInv'
<1>1. /\ hs[h].step = "f_take" /\ hs[h].id \in Ids /\ pushes[hs[h].id].root = hs[h].root
      /\ registry' = registry /\ part' = part /\ side' = side /\ blob' = blob
  <2>1. RootInv(h)
    BY DEF SpoolInv
  <2>. QED
    BY <2>1, Shapes DEF FinalizeTake, At, spool, RootInv, Sending, Finishing
<1>2. pushes'[hs[h].id] = None /\ \A y \in Ids : y # hs[h].id => pushes'[y] = pushes[y]
  BY <1>1 DEF FinalizeTake, TypeInv, TypeOK
<1>3. Moves(h, "f_rename")
  BY <1>1 DEF FinalizeTake, Moves, Others, TypeInv, TypeOK, Handler
<1>4. ASSUME NEW g \in Handlers
      PROVE  (TurnInv(g) /\ EvictInv(g) /\ RootInv(g) /\ BitsInv(g) /\ FileInv(g))'
  <2>1. TurnInv(g)'
    BY <1>1, <1>2, <1>3, Shapes DEF SpoolInv, TurnInv, Setting, Ending, Offers, Moves,
       Others
  <2>2. EvictInv(g)'
    BY <1>1, <1>2, <1>3, Shapes DEF SpoolInv, EvictInv, Moves, Others
  <2>3. RootInv(g)'
    BY <1>1, <1>2, <1>3, Shapes DEF SpoolInv, RootInv, Sending, Finishing, Ending, Moves,
       Others
  <2>4. BitsInv(g)'
    BY <1>1, <1>2, <1>3, Shapes DEF SpoolInv, BitsInv, Finishing, At, Missing, Moves, Others
  <2>5. FileInv(g)'
    BY <1>1, <1>2, <1>3, Shapes DEF SpoolInv, FileInv, Sending, Finishing, At, Whole,
       Backed, Moves, Others, BitsInv, EntryInv, Missing
  <2>. QED
    BY <2>1, <2>2, <2>3, <2>4, <2>5
<1>5. ASSUME NEW y \in Ids PROVE (EntryInv(y) /\ SideInv(y) /\ ServeInv(y))'
  <2>1. EntryInv(y)'
    BY <1>1, <1>2, <1>3, Shapes DEF SpoolInv, EntryInv, Backed
  <2>2. SideInv(y)'
    BY <1>1, <1>2, <1>3, Shapes DEF SpoolInv, SideInv, Backed, At, Moves, Others
  <2>3. ServeInv(y)'
    BY <1>1, <1>2, <1>3, Shapes DEF SpoolInv, ServeInv, Whole, Ending, Offers, Moves, Others
  <2>. QED
    BY <2>1, <2>2, <2>3
<1>. QED
  BY <1>4, <1>5 DEF SpoolInv

\* The whole part becomes the file to be served.
LEMMA FinalizeRenameSpool ==
  ASSUME TypeInv, SpoolInv, NEW h \in Handlers, FinalizeRename(h), part[hs[h].id] # None
  PROVE  SpoolInv'
<1>1. /\ hs[h].step = "f_rename" /\ hs[h].id \in Ids
      /\ pushes' = pushes /\ registry' = registry /\ side' = side
  BY Shapes DEF FinalizeRename, At
<1>2. /\ part'[hs[h].id] = None /\ blob'[hs[h].id] = part[hs[h].id]
      /\ \A y \in Ids : y # hs[h].id => part'[y] = part[y] /\ blob'[y] = blob[y]
  BY <1>1 DEF FinalizeRename, TypeInv, TypeOK
<1>3. Moves(h, "f_unlink")
  BY GotoMoves DEF FinalizeRename, Steps
<1>4. ASSUME NEW g \in Handlers
      PROVE  (TurnInv(g) /\ EvictInv(g) /\ RootInv(g) /\ BitsInv(g) /\ FileInv(g))'
  <2>1. TurnInv(g)'
    BY <1>1, <1>3 DEF SpoolInv, TurnInv, Setting, Ending, Offers, Moves, Others
  <2>2. EvictInv(g)'
    BY <1>1, <1>3 DEF SpoolInv, EvictInv, Moves, Others
  <2>3. RootInv(g)'
    BY <1>1, <1>3 DEF SpoolInv, RootInv, Sending, Finishing, Ending, Moves, Others
  <2>4. BitsInv(g)'
    BY <1>1, <1>3 DEF SpoolInv, BitsInv, Finishing, At, Missing, Moves, Others
  <2>5. FileInv(g)'
    <3>1. CASE g = h
      BY <1>1, <1>2, <1>3, <3>1 DEF SpoolInv, FileInv, Sending, Finishing, At, Whole, Moves
    <3>2. CASE g # h /\ hs[g].id = hs[h].id
      <4>1. hs'[g] = hs[g] /\ ~ Ending(g) /\ hs[g].step \notin Offers
        BY <1>1, <1>3, <3>2 DEF SpoolInv, TurnInv, Ending, Moves, Others
      <4>2. pushes[hs[h].id] = None
        BY <1>1 DEF SpoolInv, TurnInv, Ending
      <4>. QED
        BY <1>1, <1>2, <3>2, <4>1, <4>2 DEF FileInv, Sending, At, Ending, Offers
    <3>3. CASE hs[g].id # hs[h].id
      BY <1>1, <1>2, <1>3, <3>3, Shapes DEF SpoolInv, FileInv, Sending, Finishing, At, Whole, Backed,
         Moves, Others
    <3>. QED
      BY <3>1, <3>2, <3>3
  <2>. QED
    BY <2>1, <2>2, <2>3, <2>4, <2>5
<1>5. ASSUME NEW y \in Ids PROVE (EntryInv(y) /\ SideInv(y) /\ ServeInv(y))'
  <2>1. EntryInv(y)'
    BY <1>1, <1>3, <1>2 DEF SpoolInv, EntryInv, Backed, TurnInv, Ending
  <2>2. SideInv(y)'
    BY <1>1, <1>3, <1>2 DEF SpoolInv, SideInv, Backed, At, Moves, Others
  <2>3. ServeInv(y)'
    BY <1>1, <1>3, <1>2 DEF SpoolInv, ServeInv, Whole, Ending, Offers, Moves, Others
  <2>. QED
    BY <2>1, <2>2, <2>3
<1>. QED
  BY <1>4, <1>5 DEF SpoolInv

\* The sidecar of a finished push is removed.
LEMMA FinalizeUnlinkSpool ==
  ASSUME TypeInv, SpoolInv, NEW h \in Handlers, FinalizeUnlink(h)
  PROVE  SpoolInv'
<1>1. /\ hs[h].step = "f_unlink" /\ hs[h].id \in Ids
      /\ pushes' = pushes /\ registry' = registry /\ part' = part /\ blob' = blob
  BY Shapes DEF FinalizeUnlink, At
<1>2. side'[hs[h].id] = None /\ \A y \in Ids : y # hs[h].id => side'[y] = side[y]
  BY <1>1 DEF FinalizeUnlink, TypeInv, TypeOK
<1>3. Moves(h, "f_hash")
  BY GotoMoves DEF FinalizeUnlink, Steps
<1>4. ASSUME NEW g \in Handlers
      PROVE  (TurnInv(g) /\ EvictInv(g) /\ RootInv(g) /\ BitsInv(g) /\ FileInv(g))'
  <2>1. TurnInv(g)'
    BY <1>1, <1>3 DEF SpoolInv, TurnInv, Setting, Ending, Offers, Moves, Others
  <2>2. EvictInv(g)'
    BY <1>1, <1>3 DEF SpoolInv, EvictInv, Moves, Others
  <2>3. RootInv(g)'
    BY <1>1, <1>3 DEF SpoolInv, RootInv, Sending, Finishing, Ending, Moves, Others
  <2>4. BitsInv(g)'
    BY <1>1, <1>3 DEF SpoolInv, BitsInv, Finishing, At, Missing, Moves, Others
  <2>5. FileInv(g)'
    BY <1>1, <1>3, <1>2, Shapes DEF SpoolInv, FileInv, Sending, Finishing, At, Whole,
       Backed, Moves, Others, TurnInv, Ending, Offers
  <2>. QED
    BY <2>1, <2>2, <2>3, <2>4, <2>5
<1>5. ASSUME NEW y \in Ids PROVE (EntryInv(y) /\ SideInv(y) /\ ServeInv(y))'
  <2>1. EntryInv(y)'
    BY <1>1, <1>3, <1>2 DEF SpoolInv, EntryInv, Backed, TurnInv, Ending
  <2>2. SideInv(y)'
    BY <1>1, <1>3, <1>2 DEF SpoolInv, SideInv, Backed, At, Moves, Others
  <2>3. ServeInv(y)'
    BY <1>1, <1>3 DEF SpoolInv, ServeInv, Whole, Ending, Offers, Moves, Others
  <2>. QED
    BY <2>1, <2>2, <2>3
<1>. QED
  BY <1>4, <1>5 DEF SpoolInv

\* "Cannot fail unless the spool was tampered with."
LEMMA FinalizeHashSpool ==
  ASSUME TypeInv, SpoolInv, NEW h \in Handlers, FinalizeHash(h)
  PROVE  SpoolInv'
<1>1. /\ hs[h].step = "f_hash" /\ Whole(blob[hs[h].id], hs[h].root)
      /\ pushes' = pushes /\ registry' = registry /\ part' = part /\ side' = side /\ blob' = blob
  BY DEF FinalizeHash, At, spool, SpoolInv, FileInv
<1>2. Moves(h, "f_register")
  BY <1>1, GotoMoves DEF FinalizeHash, Steps, Whole
<1>3. ASSUME NEW g \in Handlers
      PROVE  (TurnInv(g) /\ EvictInv(g) /\ RootInv(g) /\ BitsInv(g) /\ FileInv(g))'
  <2>1. TurnInv(g)'
    BY <1>1, <1>2 DEF SpoolInv, TurnInv, Setting, Ending, Offers, Moves, Others
  <2>2. EvictInv(g)'
    BY <1>1, <1>2 DEF SpoolInv, EvictInv, Moves, Others
  <2>3. RootInv(g)'
    BY <1>1, <1>2 DEF SpoolInv, RootInv, Sending, Finishing, Ending, Moves, Others
  <2>4. BitsInv(g)'
    BY <1>1, <1>2 DEF SpoolInv, BitsInv, Finishing, At, Missing, Moves, Others
  <2>5. FileInv(g)'
    <3>1. CASE g = h
      BY <1>1, <1>2, <3>1 DEF FileInv, Sending, Finishing, At, Whole, Moves
    <3>2. CASE g # h
      BY <1>1, <1>2, <3>2, FileKept DEF SpoolInv, Moves, Others
    <3>. QED
      BY <3>1, <3>2
  <2>. QED
    BY <2>1, <2>2, <2>3, <2>4, <2>5
<1>4. ASSUME NEW y \in Ids PROVE (EntryInv(y) /\ SideInv(y) /\ ServeInv(y))'
  <2>1. EntryInv(y)'
    BY <1>1, <1>2 DEF SpoolInv, EntryInv, Backed
  <2>2. SideInv(y)'
    BY <1>1, <1>2 DEF SpoolInv, SideInv, Backed, At, Moves, Others
  <2>3. ServeInv(y)'
    BY <1>1, <1>2 DEF SpoolInv, ServeInv, Whole, Ending, Offers, Moves, Others
  <2>. QED
    BY <2>1, <2>2, <2>3
<1>. QED
  BY <1>3, <1>4 DEF SpoolInv

\* Only the handler that ends a push touches its blob, and while it does none
\* of the spool is served there.
LEMMA FinalizeDropSpool ==
  ASSUME TypeInv, SpoolInv, NEW h \in Handlers, FinalizeDrop(h)
  PROVE  SpoolInv'
<1>1. /\ Ending(h) /\ hs[h].id \in Ids
      /\ pushes' = pushes /\ registry' = registry /\ part' = part /\ side' = side
  BY Shapes DEF FinalizeDrop, Ending
<1>2. \A y \in Ids : y # hs[h].id => blob'[y] = blob[y]
  BY <1>1 DEF FinalizeDrop, TypeInv, TypeOK
<1>3. Ends(h) /\ hs[h].step # "o_save"
  BY FreedEnds DEF FinalizeDrop, Done, Refuse
<1>4. ASSUME NEW g \in Handlers
      PROVE  (TurnInv(g) /\ EvictInv(g) /\ RootInv(g) /\ BitsInv(g) /\ FileInv(g))'
  <2>1. TurnInv(g)'
    BY <1>1, <1>3, Shapes DEF SpoolInv, TurnInv, Setting, Ending, Offers, Others, Ends
  <2>2. EvictInv(g)'
    BY <1>1, <1>3, Shapes DEF SpoolInv, EvictInv, Others, Ends
  <2>3. RootInv(g)'
    BY <1>1, <1>3, Shapes DEF SpoolInv, RootInv, Sending, Finishing, Ending, Others, Ends
  <2>4. BitsInv(g)'
    BY <1>1, <1>3, Shapes DEF SpoolInv, BitsInv, Finishing, At, Missing, Others, Ends
  <2>5. FileInv(g)'
    <3>1. CASE g = h
      BY <1>3, <3>1 DEF FileInv, Sending, Finishing, At, Ends
    <3>2. CASE g # h
      <4>1. hs'[g] = hs[g] /\ (hs[g].id = hs[h].id => ~ Ending(g))
        BY <1>1, <1>3, <3>2 DEF SpoolInv, TurnInv, Ends, Others
      <4>. QED
        BY <1>1, <1>2, <4>1, Shapes DEF SpoolInv, FileInv, Sending, Finishing, Ending, At, Whole, Backed
    <3>. QED
      BY <3>1, <3>2
  <2>. QED
    BY <2>1, <2>2, <2>3, <2>4, <2>5
<1>5. ASSUME NEW y \in Ids PROVE (EntryInv(y) /\ SideInv(y) /\ ServeInv(y))'
  <2>1. EntryInv(y)'
    BY <1>1, <1>3, Shapes DEF SpoolInv, EntryInv, Backed
  <2>2. SideInv(y)'
    BY <1>1, <1>3, Shapes DEF SpoolInv, SideInv, Backed, At, Others, Ends
  <2>3. ServeInv(y)'
    BY <1>1, <1>3, Shapes, <1>2 DEF SpoolInv, ServeInv, Whole, Ending, Offers, Others, Ends
  <2>. QED
    BY <2>1, <2>2, <2>3
<1>. QED
  BY <1>4, <1>5 DEF SpoolInv

\* A push that lost to a registration of the application.
LEMMA FinalizeLostSpool ==
  ASSUME TypeInv, SpoolInv, NEW h \in Handlers, FinalizeRegister(h), registry[hs[h].id] # None
  PROVE  SpoolInv'
<1>1. /\ hs[h].step = "f_register" /\ hs[h].id \in Ids
      /\ pushes' = pushes /\ registry' = registry /\ part' = part /\ side' = side /\ blob' = blob
  BY Shapes DEF FinalizeRegister, At, spool
<1>2. Moves(h, "f_lose") \/ Moves(h, "f_denied")
  BY GotoMoves DEF FinalizeRegister, Steps
<1>3. ASSUME NEW g \in Handlers
      PROVE  (TurnInv(g) /\ EvictInv(g) /\ RootInv(g) /\ BitsInv(g) /\ FileInv(g))'
  <2>1. TurnInv(g)'
    BY <1>1, <1>2 DEF SpoolInv, TurnInv, Setting, Ending, Offers, Moves, Others
  <2>2. EvictInv(g)'
    BY <1>1, <1>2 DEF SpoolInv, EvictInv, Moves, Others
  <2>3. RootInv(g)'
    BY <1>1, <1>2 DEF SpoolInv, RootInv, Sending, Finishing, Ending, Moves, Others
  <2>4. BitsInv(g)'
    BY <1>1, <1>2 DEF SpoolInv, BitsInv, Finishing, At, Missing, Moves, Others
  <2>5. FileInv(g)'
    BY <1>1, <1>2 DEF SpoolInv, FileInv, Sending, Finishing, At, Whole, Backed, Moves,
       Others
  <2>. QED
    BY <2>1, <2>2, <2>3, <2>4, <2>5
<1>4. ASSUME NEW y \in Ids PROVE (EntryInv(y) /\ SideInv(y) /\ ServeInv(y))'
  <2>1. EntryInv(y)'
    BY <1>1, <1>2 DEF SpoolInv, EntryInv, Backed
  <2>2. SideInv(y)'
    BY <1>1, <1>2 DEF SpoolInv, SideInv, Backed, At, Moves, Others
  <2>3. ServeInv(y)'
    BY <1>1, <1>2 DEF SpoolInv, ServeInv, Whole, Ending, Offers, Moves, Others
  <2>. QED
    BY <2>1, <2>2, <2>3
<1>. QED
  BY <1>3, <1>4 DEF SpoolInv

\* A push that is registered is whole, and it was the last work on its id.
LEMMA FinalizeServedSpool ==
  ASSUME TypeInv, SpoolInv, NEW h \in Handlers, FinalizeRegister(h), registry[hs[h].id] = None
  PROVE  SpoolInv'
<1>1. /\ hs[h].step = "f_register" /\ hs[h].id \in Ids /\ Whole(blob[hs[h].id], hs[h].root)
      /\ pushes' = pushes /\ part' = part /\ side' = side /\ blob' = blob
  BY Shapes DEF FinalizeRegister, At, spool, SpoolInv, FileInv
<1>2. /\ registry'[hs[h].id].root = hs[h].root
      /\ \A y \in Ids : y # hs[h].id => registry'[y] = registry[y]
  BY <1>1 DEF FinalizeRegister, TypeInv, TypeOK
<1>3. Ends(h)
  BY FreedEnds DEF FinalizeRegister, Done
<1>4. ASSUME NEW g \in Handlers
      PROVE  (TurnInv(g) /\ EvictInv(g) /\ RootInv(g) /\ BitsInv(g) /\ FileInv(g))'
  <2>1. TurnInv(g)'
    BY <1>1, <1>3, Shapes DEF SpoolInv, TurnInv, Setting, Ending, Offers, Others, Ends
  <2>2. EvictInv(g)'
    BY <1>1, <1>3, Shapes DEF SpoolInv, EvictInv, Others, Ends
  <2>3. RootInv(g)'
    BY <1>1, <1>3, Shapes DEF SpoolInv, RootInv, Sending, Finishing, Ending, Others, Ends
  <2>4. BitsInv(g)'
    BY <1>1, <1>3, Shapes DEF SpoolInv, BitsInv, Finishing, At, Missing, Others, Ends
  <2>5. FileInv(g)'
    BY <1>1, <1>3, Shapes DEF SpoolInv, FileInv, Sending, Finishing, At, Whole, Backed,
       Others, Ends
  <2>. QED
    BY <2>1, <2>2, <2>3, <2>4, <2>5
<1>5. ASSUME NEW y \in Ids PROVE (EntryInv(y) /\ SideInv(y) /\ ServeInv(y))'
  <2>1. EntryInv(y)'
    BY <1>1, <1>3, Shapes DEF SpoolInv, EntryInv, Backed
  <2>2. SideInv(y)'
    BY <1>1, <1>3, Shapes DEF SpoolInv, SideInv, Backed, At, Others, Ends
  <2>3. ServeInv(y)'
    <3>1. CASE y = hs[h].id
      <4>1. pushes[y] = None /\ \A g \in Handlers : hs[g].id = y /\ Ending(g) => g = h
        BY <1>1, <3>1 DEF SpoolInv, TurnInv, Ending
      <4>2. \A g \in Handlers : hs[g].id = y => hs[g].step \notin Offers
        BY <1>1, <3>1 DEF SpoolInv, TurnInv, Offers
      <4>. QED
        BY <1>1, <1>2, <1>3, <3>1, <4>1, <4>2, Shapes DEF ServeInv, Ending, Ends, Others, Whole
    <3>2. CASE y # hs[h].id
      BY <1>1, <1>2, <1>3, <3>2, Shapes DEF SpoolInv, ServeInv, Whole, Ending, Ends, Others
    <3>. QED
      BY <3>1, <3>2
  <2>. QED
    BY <2>1, <2>2, <2>3
<1>. QED
  BY <1>4, <1>5 DEF SpoolInv

-----------------------------------------------------------------------------
(* The arrival of queries *)

\* last_activity is none of the spool's business.
LEMMA TouchedSame ==
  ASSUME TypeInv, NEW x \in Ids, NEW b \in BOOLEAN, pushes[x] # None,
         pushes' = [pushes EXCEPT ![x].idle = b]
  PROVE  SamePushes
<1>1. pushes \in [Ids -> Entry \cup {None}] /\ pushes[x] \in Entry
  BY DEF TypeInv, TypeOK
<1>2. /\ [pushes[x] EXCEPT !.idle = b] \in Entry
      /\ [pushes[x] EXCEPT !.idle = b].root = pushes[x].root
      /\ [pushes[x] EXCEPT !.idle = b].bits = pushes[x].bits
  BY <1>1 DEF Entry
<1>3. /\ pushes'[x] = [pushes[x] EXCEPT !.idle = b]
      /\ \A y \in Ids : y # x => pushes'[y] = pushes[y]
  BY <1>1
<1>. QED
  BY <1>2, <1>3, MarkerAssumption DEF SamePushes

\* An offer finds nobody at work on its id.
LEMMA OfferSpool ==
  ASSUME TypeInv, SpoolInv, NEW h \in Handlers, NEW x \in Ids, NEW r \in Roots, Offer(h, x, r),
         ~ May("overlap")
  PROVE  SpoolInv'
<1>1. /\ hs[h].step = "free" /\ registry[x] = None /\ ~ Busy(x)
      /\ pushes' = pushes /\ registry' = registry /\ part' = part /\ side' = side /\ blob' = blob
  BY DEF Offer, At, spool
<1>2. /\ Others(h) /\ hs'[h].step = "o_lock" /\ hs'[h].id = x /\ hs'[h].root = r
      /\ hs'[h].bits = {} /\ hs'[h].evicted = {}
  BY DEF Offer, Starting, Others, TypeInv, TypeOK
<1>3. ASSUME NEW g \in Handlers
      PROVE  (TurnInv(g) /\ EvictInv(g) /\ RootInv(g) /\ BitsInv(g) /\ FileInv(g))'
  <2>1. TurnInv(g)'
    BY <1>1, <1>2, Shapes DEF SpoolInv, TurnInv, Setting, Ending, Offers, Others, Busy
  <2>2. EvictInv(g)'
    BY <1>1, <1>2, Shapes DEF SpoolInv, EvictInv, Others, Busy
  <2>3. RootInv(g)'
    BY <1>1, <1>2 DEF SpoolInv, RootInv, Sending, Finishing, Ending, Others
  <2>4. BitsInv(g)'
    BY <1>1, <1>2 DEF SpoolInv, BitsInv, Finishing, At, Missing, Others
  <2>5. FileInv(g)'
    <3>1. CASE g = h
      BY <1>2, <3>1 DEF FileInv, Sending, Finishing, At
    <3>2. CASE g # h
      BY <1>1, <1>2, <3>2, FileKept DEF SpoolInv, Others
    <3>. QED
      BY <3>1, <3>2
  <2>. QED
    BY <2>1, <2>2, <2>3, <2>4, <2>5
<1>4. ASSUME NEW y \in Ids PROVE (EntryInv(y) /\ SideInv(y) /\ ServeInv(y))'
  <2>1. EntryInv(y)'
    BY <1>1, <1>2 DEF SpoolInv, EntryInv, Backed
  <2>2. SideInv(y)'
    BY <1>1, <1>2 DEF SpoolInv, SideInv, Backed, At, Others
  <2>3. ServeInv(y)'
    BY <1>1, <1>2 DEF SpoolInv, ServeInv, Whole, Ending, Offers, Others
  <2>. QED
    BY <2>1, <2>2, <2>3
<1>. QED
  BY <1>3, <1>4 DEF SpoolInv

\* A slice finds a push, and no offer at work on its id.
LEMMA SliceSpool ==
  ASSUME TypeInv, SpoolInv, NEW h \in Handlers, NEW x \in Ids, NEW i \in Chunks, Slice(h, x, i),
         ~ May("overlap")
  PROVE  SpoolInv'
<1>1. /\ hs[h].step = "free" /\ pushes[x] # None /\ ~ Offering(x)
      /\ registry' = registry /\ part' = part /\ side' = side /\ blob' = blob
  BY DEF Slice, At, spool
<1>2. /\ Others(h) /\ hs'[h].id = x /\ hs'[h].root = pushes[x].root /\ hs'[h].chunk = i
      /\ hs'[h].evicted = {} /\ hs'[h].step \in {"s_write", "s_mark"}
      /\ hs'[h].step = "s_mark" => i \in pushes[x].bits
  BY DEF Slice, Starting, Others, TypeInv, TypeOK
<1>3. SamePushes
  BY TouchedSame DEF Slice
<1>4. ASSUME NEW g \in Handlers
      PROVE  (TurnInv(g) /\ EvictInv(g) /\ RootInv(g) /\ BitsInv(g) /\ FileInv(g))'
  <2>1. TurnInv(g)'
    BY <1>1, <1>2, <1>3, Shapes DEF SpoolInv, TurnInv, Setting, Ending, Offers, Others,
       SamePushes, Offering
  <2>2. EvictInv(g)'
    BY <1>1, <1>2, <1>3, Shapes DEF SpoolInv, EvictInv, Others, SamePushes
  <2>3. RootInv(g)'
    BY <1>1, <1>2, <1>3, Shapes DEF SpoolInv, RootInv, Sending, Finishing, Ending, Others,
       SamePushes
  <2>4. BitsInv(g)'
    BY <1>1, <1>2, <1>3, Shapes DEF SpoolInv, BitsInv, Finishing, At, Missing, Others,
       SamePushes
  <2>5. FileInv(g)'
    <3>1. CASE g = h
      BY <1>1, <1>2, <1>3, <3>1 DEF SpoolInv, FileInv, EntryInv, Backed, Sending, Finishing, At, SamePushes
    <3>2. CASE g # h
      BY <1>1, <1>2, <1>3, <3>2, Shapes, FileKept DEF SpoolInv, Others, SamePushes
    <3>. QED
      BY <3>1, <3>2
  <2>. QED
    BY <2>1, <2>2, <2>3, <2>4, <2>5
<1>5. ASSUME NEW y \in Ids PROVE (EntryInv(y) /\ SideInv(y) /\ ServeInv(y))'
  <2>1. EntryInv(y)'
    BY <1>1, <1>2, <1>3 DEF SpoolInv, EntryInv, Backed, SamePushes
  <2>2. SideInv(y)'
    BY <1>1, <1>2, <1>3 DEF SpoolInv, SideInv, Backed, At, Others, SamePushes
  <2>3. ServeInv(y)'
    BY <1>1, <1>2, <1>3 DEF SpoolInv, ServeInv, Whole, Ending, Offers, Others, SamePushes
  <2>. QED
    BY <2>1, <2>2, <2>3
<1>. QED
  BY <1>4, <1>5 DEF SpoolInv

\* What OfferLock makes of the map and of its handler.
LEMMA LockEffect ==
  ASSUME TypeInv, NEW h \in Handlers, OfferLock(h)
  PROVE  LET x == hs[h].id IN
         /\ hs[h].step = "o_lock" /\ x \in Ids
         /\ \A y \in Ids : /\ y \in Stale => pushes[y] # None /\ pushes'[y] = None
                           /\ y \notin Stale => (pushes'[y] = None <=> pushes[y] = None)
                           /\ pushes'[y] # None => /\ pushes'[y].root = pushes[y].root
                                                   /\ pushes'[y].bits = pushes[y].bits
         /\ \/ Ends(h)
            \/ /\ Others(h) /\ hs'[h].step = "o_clean" /\ hs'[h].evicted = Stale
               /\ hs'[h].id = x /\ hs'[h].root = hs[h].root
               /\ \/ hs'[h].next \in {"refuse", "o_probe"} /\ pushes'[x] = None /\ hs'[h].bits = {}
                  \/ /\ x \notin Stale /\ pushes[x] # None /\ pushes[x].root = hs[h].root
                     /\ hs'[h].bits = pushes[x].bits
                     /\ hs'[h].next = IF Missing(pushes[x].bits) = {} THEN "f_take" ELSE "free"
<1> DEFINE x    == hs[h].id
           kept == Kept(Stale)
<1>1. hs[h].step = "o_lock" /\ x \in Ids
  BY Shapes DEF OfferLock, At
<1>2. \A y \in Ids : /\ y \in Stale => pushes[y] # None /\ pushes'[y] = None
                     /\ y \notin Stale => (pushes'[y] = None <=> pushes[y] = None)
                     /\ pushes'[y] # None => /\ pushes'[y].root = pushes[y].root
                                             /\ pushes'[y].bits = pushes[y].bits
  <2>1. pushes \in [Ids -> Entry \cup {None}]
    BY DEF TypeInv, TypeOK
  <2>2. \A y \in Ids : /\ y \in Stale => pushes[y] # None /\ kept[y] = None
                       /\ y \notin Stale => kept[y] = pushes[y]
    BY DEF Kept, Stale, InFlight
  <2>3. kept \in [Ids -> Entry \cup {None}]
    BY <2>1 DEF Kept
  <2> HIDE DEF kept
  <2>4. CASE pushes' = kept
    BY <2>2, <2>4
  <2>5. CASE kept[x] # None /\ pushes' = [kept EXCEPT ![x].idle = FALSE]
    <3>1. kept[x] \in Entry
      BY <1>1, <2>3, <2>5
    <3>2. /\ [kept[x] EXCEPT !.idle = FALSE] \in Entry
          /\ [kept[x] EXCEPT !.idle = FALSE].root = kept[x].root
          /\ [kept[x] EXCEPT !.idle = FALSE].bits = kept[x].bits
      BY <3>1 DEF Entry
    <3>3. /\ pushes'[x] = [kept[x] EXCEPT !.idle = FALSE]
          /\ \A y \in Ids : y # x => pushes'[y] = kept[y]
      BY <1>1, <2>3, <2>5
    <3>. QED
      BY <1>1, <2>2, <2>5, <3>2, <3>3, MarkerAssumption
  <2>. QED
    BY <2>4, <2>5 DEF OfferLock, kept
<1>3. \/ Ends(h)
      \/ /\ Others(h) /\ hs'[h].step = "o_clean" /\ hs'[h].evicted = Stale
         /\ hs'[h].id = x /\ hs'[h].root = hs[h].root
         /\ \/ hs'[h].next \in {"refuse", "o_probe"} /\ pushes'[x] = None /\ hs'[h].bits = {}
            \/ /\ x \notin Stale /\ pushes[x] # None /\ pushes[x].root = hs[h].root
               /\ hs'[h].bits = pushes[x].bits
               /\ hs'[h].next = IF Missing(pushes[x].bits) = {} THEN "f_take" ELSE "free"
  <2>1. ASSUME NEW after, NEW have, CleanThen(h, after, have)
        PROVE  /\ Others(h) /\ hs'[h].step = "o_clean" /\ hs'[h].evicted = Stale
               /\ hs'[h].id = x /\ hs'[h].root = hs[h].root
               /\ hs'[h].next = after /\ hs'[h].bits = have
    BY <2>1 DEF CleanThen, Others, TypeInv, TypeOK, Handler
  <2>2. kept[x] # None => x \notin Stale /\ kept[x] = pushes[x]
    BY <1>1 DEF Kept
  <2> HIDE DEF kept
  <2>3. CASE Refuse(h)
    BY <2>3, FreedEnds DEF Refuse
  <2>4. CASE /\ kept[x] # None /\ kept[x].root = hs[h].root
             /\ CleanThen(h, IF Missing(kept[x].bits) = {} THEN "f_take" ELSE "free", kept[x].bits)
    BY <2>1, <2>2, <2>4
  <2>5. CASE kept[x] = None /\ pushes' = kept /\ CleanThen(h, "refuse", {})
    BY <2>1, <2>5
  <2>6. CASE kept[x] = None /\ pushes' = kept /\ CleanThen(h, "o_probe", {})
    BY <2>1, <2>6
  <2>. QED
    BY <2>3, <2>4, <2>5, <2>6 DEF OfferLock, kept
<1> HIDE DEF kept
<1>. QED
  BY <1>1, <1>2, <1>3

\* Under the lock an offer drops the pushes that went idle, where no other
\* handler is at work.
LEMMA OfferLockSpool ==
  ASSUME TypeInv, SpoolInv, NEW h \in Handlers, OfferLock(h), ~ May("overlap")
  PROVE  SpoolInv'
<1> DEFINE x == hs[h].id
<1>1. /\ hs[h].step = "o_lock" /\ x \in Ids
      /\ \A g \in Handlers : g # h => hs[g].id \notin Stale
      /\ registry' = registry /\ part' = part /\ side' = side /\ blob' = blob
  BY Shapes DEF OfferLock, At, spool
<1>2. \A y \in Ids : /\ y \in Stale => pushes[y] # None /\ pushes'[y] = None
                     /\ y \notin Stale => (pushes'[y] = None <=> pushes[y] = None)
                     /\ pushes'[y] # None => /\ pushes'[y].root = pushes[y].root
                                             /\ pushes'[y].bits = pushes[y].bits
  BY LockEffect
<1>3. \/ Ends(h)
      \/ /\ Others(h) /\ hs'[h].step = "o_clean" /\ hs'[h].evicted = Stale
         /\ hs'[h].id = x /\ hs'[h].root = hs[h].root
         /\ \/ hs'[h].next \in {"refuse", "o_probe"} /\ pushes'[x] = None /\ hs'[h].bits = {}
            \/ /\ x \notin Stale /\ pushes[x] # None /\ pushes[x].root = hs[h].root
               /\ hs'[h].bits = pushes[x].bits
               /\ hs'[h].next = IF Missing(pushes[x].bits) = {} THEN "f_take" ELSE "free"
  BY LockEffect
<1>4. Stale \subseteq Ids
  BY DEF Stale, InFlight
<1> HIDE DEF x
<1>5. ASSUME NEW g \in Handlers
      PROVE  (TurnInv(g) /\ EvictInv(g) /\ RootInv(g) /\ BitsInv(g) /\ FileInv(g))'
  <2>1. TurnInv(g)'
    BY <1>1, <1>2, <1>3, Shapes DEF SpoolInv, TurnInv, Setting, Ending, Offers, Others,
       Ends, x
  <2>2. EvictInv(g)'
    <3>1. CASE g = h
      BY <1>1, <1>2, <1>3, <1>4, <3>1 DEF SpoolInv, EvictInv, Others, Ends, x
    <3>2. CASE g # h
      <4>1. hs'[g] = hs[g] /\ \A y \in hs[g].evicted : y \in Ids /\ pushes[y] = None /\ y \notin Stale
        BY <1>2, <1>3, <3>2, Shapes DEF SpoolInv, EvictInv, Others, Ends
      <4>. QED
        BY <1>1, <1>2, <1>3, <3>2, <4>1, MarkerAssumption DEF SpoolInv, EvictInv, Others, Ends, x
    <3>. QED
      BY <3>1, <3>2
  <2>3. RootInv(g)'
    BY <1>1, <1>2, <1>3, Shapes DEF SpoolInv, RootInv, Sending, Finishing, Ending, Others,
       Ends, x, TurnInv, Offers
  <2>4. BitsInv(g)'
    BY <1>1, <1>2, <1>3, Shapes DEF SpoolInv, BitsInv, Finishing, At, Missing, Others, Ends,
       x
  <2>5. FileInv(g)'
    <3>1. CASE g = h
      BY <1>1, <1>2, <1>3, <3>1 DEF SpoolInv, FileInv, EntryInv, Sending, Finishing, At, Ends, x
    <3>2. CASE g # h
      BY <1>1, <1>2, <1>3, <3>2, Shapes, FileKept DEF SpoolInv, Others, Ends
    <3>. QED
      BY <3>1, <3>2
  <2>. QED
    BY <2>1, <2>2, <2>3, <2>4, <2>5
<1>6. ASSUME NEW y \in Ids PROVE (EntryInv(y) /\ SideInv(y) /\ ServeInv(y))'
  <2>1. EntryInv(y)'
    BY <1>1, <1>2, <1>3, Shapes DEF SpoolInv, EntryInv, Backed
  <2>2. SideInv(y)'
    BY <1>1, <1>2, <1>3, Shapes DEF SpoolInv, SideInv, Backed, At, Others, Ends
  <2>3. ServeInv(y)'
    BY <1>1, <1>2, <1>3, Shapes DEF SpoolInv, ServeInv, Whole, Ending, Offers, Others, Ends,
       x
  <2>. QED
    BY <2>1, <2>2, <2>3
<1>. QED
  BY <1>5, <1>6 DEF SpoolInv

\* The process starts again with the spool directory it left, but not between
\* the truncation of a part and the save of its sidecar.
LEMMA RestartSpool == ASSUME TypeInv, SpoolInv, Restart PROVE SpoolInv'
<1>1. /\ \A g \in Handlers : /\ hs'[g].step = "free" /\ hs'[g].id = None /\ hs'[g].evicted = {}
                             /\ hs[g].step # "o_save"
      /\ \A y \in Ids : pushes'[y] = None /\ registry'[y] = None
      /\ part' = part /\ side' = side /\ blob' = blob
  BY DEF Restart, Free, Starting, At, spool
<1>2. ASSUME NEW g \in Handlers
      PROVE  (TurnInv(g) /\ EvictInv(g) /\ RootInv(g) /\ BitsInv(g) /\ FileInv(g))'
  <2>1. TurnInv(g)'
    BY <1>1 DEF SpoolInv, TurnInv, Setting, Ending, Offers
  <2>2. EvictInv(g)'
    BY <1>1 DEF SpoolInv, EvictInv
  <2>3. RootInv(g)'
    BY <1>1 DEF SpoolInv, RootInv, Sending, Finishing, Ending
  <2>4. BitsInv(g)'
    BY <1>1 DEF SpoolInv, BitsInv, Finishing, At, Missing
  <2>5. FileInv(g)'
    BY <1>1 DEF SpoolInv, FileInv, Sending, Finishing, At, Whole, Backed
  <2>. QED
    BY <2>1, <2>2, <2>3, <2>4, <2>5
<1>3. ASSUME NEW y \in Ids PROVE (EntryInv(y) /\ SideInv(y) /\ ServeInv(y))'
  <2>1. EntryInv(y)'
    BY <1>1 DEF SpoolInv, EntryInv, Backed
  <2>2. SideInv(y)'
    BY <1>1 DEF SpoolInv, SideInv, Backed, At
  <2>3. ServeInv(y)'
    BY <1>1 DEF SpoolInv, ServeInv, Whole, Ending, Offers
  <2>. QED
    BY <2>1, <2>2, <2>3
<1>. QED
  BY <1>2, <1>3 DEF SpoolInv

-----------------------------------------------------------------------------
(* Every step *)

\* A query that is answered, with nothing changed but last_activity.
LEMMA AnswerKeeps ==
  ASSUME TypeInv, SpoolInv, NEW h \in Handlers, hs[h].step # "o_save",
         hs' = [hs EXCEPT ![h] = Free], UNCHANGED <<pushes, registry, spool>>
  PROVE  SpoolInv'
<1>1. SamePushes /\ SameRegistry
  BY DEF SamePushes, SameRegistry
<1>. QED
  BY <1>1, EndKeeps DEF spool

\* Every step of a handler, by its case.
LEMMA HandlerSpool ==
  ASSUME TypeInv, SpoolInv, NEW h \in Handlers, HandlerStep(h), ~ May("overlap")
  PROVE  SpoolInv'
<1>1. CASE CleanDone(h)
  <2>1. CASE hs[h].next \in {"free", "refuse"}
    BY <1>1, <2>1, AnswerKeeps DEF CleanDone, At, Done, Refuse
  <2>. QED
    BY <1>1, <2>1, CleanedSpool
<1>2. CASE OfferInsert(h)
  <2>1. hs[h].step = "o_insert" /\ hs[h].id \in Ids /\ pushes[hs[h].id] = None
    BY <1>2, Shapes DEF OfferInsert, At, SpoolInv, TurnInv, Setting
  <2>2. CASE Refuse(h) /\ pushes' = pushes
    BY <1>2, <2>1, <2>2, AnswerKeeps DEF OfferInsert, Refuse
  <2>3. CASE pushes' = [pushes EXCEPT ![hs[h].id] = [root |-> hs[h].root, bits |-> hs[h].bits,
                                                     dirty |-> 0, idle |-> FALSE]]
    <3>1. [root |-> hs[h].root, bits |-> hs[h].bits, dirty |-> 0, idle |-> FALSE] \in Entry
      BY <2>1 DEF Entry, TypeInv, TypeOK, Handler, HandlerType
    <3>2. pushes'[hs[h].id] # None
      BY <2>1, <2>3, <3>1, MarkerAssumption DEF TypeInv, TypeOK
    <3>. QED
      BY <1>2, <2>1, <3>2, OfferInsertSpool
  <2>. QED
    BY <1>2, <2>1, <2>2, <2>3 DEF OfferInsert
<1>3. CASE SliceWrite(h)
  <2>1. CASE part[hs[h].id] = None
    BY <1>3, <2>1, AnswerKeeps DEF SliceWrite, Refuse, At, spool
  <2>. QED
    BY <1>3, <2>1, SliceWriteSpool
<1>4. CASE SliceMark(h)
  <2>1. CASE pushes[hs[h].id] = None
    BY <1>4, <2>1, AnswerKeeps DEF SliceMark, Done, At
  <2>. QED
    BY <1>4, <2>1, SliceMarkSpool
<1>5. CASE FinalizeTake(h)
  <2>1. CASE pushes[hs[h].id] = None
    BY <1>5, <2>1, AnswerKeeps DEF FinalizeTake, Done, At
  <2>. QED
    BY <1>5, <2>1, FinalizeTakeSpool
<1>6. CASE FinalizeRename(h)
  <2>1. CASE part[hs[h].id] = None
    BY <1>6, <2>1, AnswerKeeps DEF FinalizeRename, Refuse, At, spool
  <2>. QED
    BY <1>6, <2>1, FinalizeRenameSpool
<1>7. CASE FinalizeRegister(h)
  BY <1>7, FinalizeLostSpool, FinalizeServedSpool
<1>. QED
  BY <1>1, <1>2, <1>3, <1>4, <1>5, <1>6, <1>7, OfferLockSpool, OfferProbeSpool, OfferCreateSpool,
     OfferSaveSpool, SliceSaveSpool, FinalizeUnlinkSpool, FinalizeHashSpool, FinalizeDropSpool,
     CleanPartSpool, CleanSidecarSpool DEF HandlerStep

\* The uploader starts handlers and hears of them; it has no file.
LEMMA UploaderSpool ==
  ASSUME TypeInv, SpoolInv, Uploader, ~ May("overlap")
  PROVE  SpoolInv'
<1>1. CASE UNCHANGED <<registry, spool, hs>> /\ (SamePushes \/ UNCHANGED pushes)
  <2>1. SamePushes /\ SameRegistry
    BY <1>1 DEF SamePushes, SameRegistry
  <2>. QED
    BY <1>1, <2>1, EndKeeps
<1>2. ASSUME NEW h \in Handlers, NEW x \in Ids, NEW r \in Roots, UploadOffer(h, x, r)
      PROVE  SpoolInv'
  BY <1>1, <1>2, OfferSpool DEF UploadOffer
<1>3. ASSUME NEW h \in Handlers, UploadSlice(h) PROVE SpoolInv'
  <2> DEFINE x == up.id
             i == CHOOSE j \in up.todo : \A k \in up.todo : j <= k
  <2>1. x \in Ids /\ i \in Chunks
    BY <1>3, LeastExists DEF UploadSlice, TypeInv, UploadType, Upload
  <2> HIDE DEF i
  <2>2. CASE Slice(h, x, i)
    BY <2>1, <2>2, SliceSpool
  <2>3. CASE /\ pushes[x] # None /\ pushes' = [pushes EXCEPT ![x].idle = FALSE]
             /\ UNCHANGED <<registry, spool, hs>>
    BY <1>1, <2>1, <2>3, TouchedSame
  <2>. QED
    BY <1>1, <1>3, <2>2, <2>3 DEF UploadSlice, i
<1>. QED
  BY <1>1, <1>2, <1>3, WorldType DEF Uploader, UploadStops, TypeInv

\* The application publishes and withdraws blobs of its own.
LEMMA ApplicationSpool == ASSUME TypeInv, SpoolInv, Application PROVE SpoolInv'
<1>1. PICK x \in Ids : \/ \E r \in Roots : Register(x, r)
                       \/ Unregister(x) \/ GoIdle(x) \/ SliceRefused(x)
  BY WorldType DEF Application, TypeInv
<1>2. UNCHANGED <<spool, hs>>
  BY <1>1 DEF Register, Unregister, GoIdle, SliceRefused
<1>3. CASE \/ \E r \in Roots : Register(x, r)
           \/ Unregister(x)
  <2>1. SamePushes
    BY <1>3 DEF Register, Unregister, SamePushes
  <2>2. SameRegistry
    BY <1>3 DEF Register, Unregister, SameRegistry, TypeInv, TypeOK
  <2>. QED
    BY <1>2, <2>1, <2>2, EndKeeps
<1>4. CASE GoIdle(x) \/ SliceRefused(x)
  <2>1. SamePushes
    BY <1>4, TouchedSame DEF GoIdle, SliceRefused
  <2>2. SameRegistry
    BY <1>4 DEF GoIdle, SliceRefused, SameRegistry
  <2>. QED
    BY <1>2, <2>1, <2>2, EndKeeps
<1>. QED
  BY <1>1, <1>3, <1>4

\* The spool invariant is kept where the uploaders of an id take turns.
LEMMA SpoolStep ==
  ASSUME TypeInv, SpoolInv, [Next]_vars, ~ May("overlap")
  PROVE  SpoolInv'
<1>1. ASSUME NEW h \in Handlers, Arrival(h) PROVE SpoolInv'
  BY <1>1, WorldType, OfferSpool, SliceSpool DEF Arrival, TypeInv
<1>2. CASE UNCHANGED vars
  <2>1. UNCHANGED <<pushes, registry, spool, hs>>
    BY <1>2 DEF vars
  <2>2. SamePushes /\ SameRegistry
    BY <2>1 DEF SamePushes, SameRegistry
  <2>. QED
    BY <2>1, <2>2, EndKeeps
<1>. QED
  BY <1>1, <1>2, WorldType, HandlerSpool, UploaderSpool, ApplicationSpool, RestartSpool
     DEF Next, TypeInv

\* A server starts on an empty spool.
LEMMA InitSpool == ASSUME Init PROVE SpoolInv
<1>1. /\ \A g \in Handlers : hs[g].step = "free" /\ hs[g].id = None /\ hs[g].evicted = {}
      /\ \A y \in Ids : pushes[y] = None /\ registry[y] = None /\ part[y] = None
  BY DEF Init, Free, Starting
<1>2. ASSUME NEW g \in Handlers
      PROVE  TurnInv(g) /\ EvictInv(g) /\ RootInv(g) /\ BitsInv(g) /\ FileInv(g)
  BY <1>1 DEF TurnInv, EvictInv, RootInv, BitsInv, FileInv, Setting, Sending, Finishing, Ending,
              Offers, At
<1>3. ASSUME NEW y \in Ids PROVE EntryInv(y) /\ SideInv(y) /\ ServeInv(y)
  BY <1>1 DEF EntryInv, SideInv, ServeInv
<1>. QED
  BY <1>2, <1>3 DEF SpoolInv

\* The invariant of every reachable state.
LEMMA SpoolAlways == Spec => [](TypeInv /\ (May("overlap") \/ SpoolInv))
<1>1. Init => May("overlap") \/ SpoolInv
  BY InitSpool
<1>2. TypeInv /\ (May("overlap") \/ SpoolInv) /\ [Next]_vars => (May("overlap") \/ SpoolInv)'
  <2> SUFFICES ASSUME TypeInv, May("overlap") \/ SpoolInv, [Next]_vars
               PROVE  May("overlap")' \/ SpoolInv'
    OBVIOUS
  <2>1. world' = world
    BY DEF Next, vars
  <2>. QED
    BY <2>1, SpoolStep DEF May
<1>. QED
  BY <1>1, <1>2, TypeAlways, PTL DEF Spec

\* push_slice_inner, "bits never lead the bytes": where uploaders take turns, a
\* chunk marked in a push, or in a sidecar that a later offer may resume, is in
\* the part, and the hash of the finished file never fails.
THEOREM SpoolCorrect == Spec => []SpoolBacked
<1>1. TypeInv /\ (May("overlap") \/ SpoolInv) => SpoolBacked
  BY DEF SpoolInv, EntryInv, SideInv, FileInv, Backed, SpoolBacked
<1>. QED
  BY <1>1, SpoolAlways, PTL

\* accept_push: where uploaders take turns, the <id>.blob of a pushed and
\* registered blob stays in the spool directory, whole.
THEOREM BackingCorrect == Spec => []BackingIntact
<1>1. TypeInv /\ (May("overlap") \/ SpoolInv) => BackingIntact
  BY DEF SpoolInv, ServeInv, BackingIntact
<1>. QED
  BY <1>1, SpoolAlways, PTL

-----------------------------------------------------------------------------
(* The upload that returns Ok *)

\* The environment only sends queries, and the uploaders of an id take turns.
Calm == \A f \in {"overlap", "timeout", "restart", "application"} : ~ May(f)

\* In a calm world only pushes are registered, and none goes idle.
CalmId(x) ==
  /\ registry[x] # None => registry[x].spooled
  /\ pushes[x] # None => ~ pushes[x].idle

\* What a handler is about to acknowledge: chunks that the push has, or a
\* content that is served.
AnswerInv(h) ==
  LET x == hs[h].id IN
  /\ hs[h].step = "o_clean" /\ hs[h].next = "free" =>
       /\ pushes[x] # None /\ pushes[x].root = hs[h].root /\ hs[h].bits \subseteq pushes[x].bits
       /\ Missing(hs[h].bits) # {}
  /\ Sending(h) /\ pushes[x] = None => Serves(x, hs[h].root)
  /\ hs[h].step \notin {"f_lose", "f_denied"}

\* The handler that the uploader waits for works on its id and content.
WaitInv(h) ==
  up.h = h =>
    /\ hs[h].id = up.id /\ hs[h].root = up.root /\ hs[h].step # "free"
    /\ up.at = "asking" => hs[h].step \notin {"s_write", "s_mark", "s_save"}
    /\ up.at = "sending" => hs[h].step \notin Offers
    /\ up.at = "sending" /\ hs[h].step = "s_save" =>
         (Chunks \ up.todo) \cup {hs[h].chunk} \subseteq hs[h].bits

\* The receiver has all chunks of r but those of todo, or all of it.
Holds(x, r, todo) ==
  \/ Serves(x, r)
  \/ pushes[x] # None /\ pushes[x].root = r /\ Chunks \ todo \subseteq pushes[x].bits
\* The receiver holds what the uploader does not mean to send, and serves what it
\* said Ok to.
ResultInv ==
  /\ up.at = "sending" => Holds(up.id, up.root, up.todo)
  /\ up.at = "ok" => Serves(up.id, up.root)

\* The inductive invariant of the upload.
UploadInv ==
  /\ \A x \in Ids : CalmId(x)
  /\ \A h \in Handlers : AnswerInv(h) /\ WaitInv(h)
  /\ ResultInv

\* What every step of a calm world starts from.
Quiet == TypeInv /\ SpoolInv /\ UploadInv /\ Calm

\* No push goes idle in a calm world, so an offer evicts none.
LEMMA NoneStale == ASSUME Quiet PROVE Stale = {}
BY DEF Quiet, UploadInv, CalmId, Stale, InFlight

\* What is served has no push, and nobody is about to end one.
LEMMA ServedAlone ==
  ASSUME Quiet, NEW x \in Ids, NEW r, Serves(x, r) PROVE pushes[x] = None
BY DEF Quiet, SpoolInv, UploadInv, CalmId, Serves, ServeInv, TurnInv, Ending

\* The step of a handler is its own.
LEMMA StepOthers == ASSUME TypeInv, NEW h \in Handlers, HandlerStep(h) PROVE Others(h)
<1>1. hs \in [Handlers -> Handler]
  BY DEF TypeInv, TypeOK
<1>2. CASE hs' = [hs EXCEPT ![h] = Free] \/ UNCHANGED hs
  BY <1>1, <1>2 DEF Others
<1>3. CASE \E s \in Steps : Goto(h, s)
  BY <1>1, <1>3 DEF Goto, Others
<1>4. CASE OfferLock(h)
  BY <1>1, <1>2, <1>4 DEF OfferLock, Refuse, CleanThen, Others
<1>5. CASE CleanDone(h)
  BY <1>1, <1>2, <1>5 DEF CleanDone, Done, Refuse, Goto, Others
<1>6. CASE OfferProbe(h) \/ OfferInsert(h) \/ \E y \in Ids : CleanSidecar(h, y)
  BY <1>1, <1>2, <1>6 DEF OfferProbe, OfferInsert, CleanSidecar, Done, Refuse, Goto, Others
<1>7. CASE SliceWrite(h) \/ SliceMark(h) \/ SliceSave(h)
  BY <1>1, <1>2, <1>7 DEF SliceWrite, SliceMark, SliceSave, Done, Refuse, Goto, Others
<1>8. CASE FinalizeTake(h) \/ FinalizeRename(h) \/ FinalizeHash(h) \/ FinalizeRegister(h)
  BY <1>1, <1>2, <1>8 DEF FinalizeTake, FinalizeRename, FinalizeHash, FinalizeRegister, Done, Refuse,
     Goto, Others
<1>9. CASE OfferCreate(h) \/ OfferSave(h) \/ FinalizeUnlink(h) \/ FinalizeDrop(h)
  BY <1>1, <1>2, <1>9 DEF OfferCreate, OfferSave, FinalizeUnlink, FinalizeDrop, Done, Refuse, Goto,
     Others
<1>. QED
  BY <1>2, <1>4, <1>5, <1>6, <1>7, <1>8, <1>9 DEF HandlerStep, CleanPart

\* A push keeps its content and its chunks until finalize_push takes it.
Grows(y) ==
  pushes[y] # None => /\ pushes'[y] # None /\ pushes'[y].root = pushes[y].root
                      /\ pushes[y].bits \subseteq pushes'[y].bits
\* No push of y has gone idle.
Awake(y) == pushes'[y] # None => ~ pushes'[y].idle

\* A touch leaves the bits.
LEMMA TouchedGrows ==
  ASSUME Quiet, NEW x \in Ids, pushes[x] # None, pushes' = [pushes EXCEPT ![x].idle = FALSE]
  PROVE  \A y \in Ids : Grows(y) /\ Awake(y)
<1>1. pushes \in [Ids -> Entry \cup {None}] /\ pushes[x] \in Entry
  BY DEF Quiet, TypeInv, TypeOK
<1>2. pushes'[x] = [pushes[x] EXCEPT !.idle = FALSE] /\ \A y \in Ids : y # x => pushes'[y] = pushes[y]
  BY <1>1
<1>3. ~ pushes'[x].idle
  BY <1>1, <1>2 DEF Entry
<1>. QED
  BY <1>2, <1>3, TouchedSame DEF Quiet, SamePushes, Grows, Awake, UploadInv, CalmId

\* No handler takes a bit back.
LEMMA HandlerGrows ==
  ASSUME Quiet, NEW h \in Handlers, HandlerStep(h), NEW y \in Ids
  PROVE  Awake(y) /\ (Grows(y) \/ (FinalizeTake(h) /\ hs[h].id = y /\ pushes[y] # None))
<1>1. /\ pushes \in [Ids -> Entry \cup {None}] /\ (pushes[y] # None => ~ pushes[y].idle)
      /\ hs[h].step # "free" => hs[h].id \in Ids
  BY DEF Quiet, TypeInv, TypeOK, UploadInv, CalmId, HandlerType
<1>2. CASE UNCHANGED pushes
  BY <1>1, <1>2 DEF Grows, Awake
<1>3. CASE OfferLock(h)
  <2>1. Kept(Stale) = pushes
    BY <1>1, NoneStale DEF Kept
  <2>2. \/ UNCHANGED pushes
        \/ pushes[hs[h].id] # None /\ pushes' = [pushes EXCEPT ![hs[h].id].idle = FALSE]
    BY <1>3, <2>1 DEF OfferLock
  <2>3. hs[h].id \in Ids
    BY <1>1, <1>3 DEF OfferLock, At
  <2>. QED
    BY <1>2, <2>2, <2>3, TouchedGrows
<1>4. CASE OfferInsert(h)
  <2>1. hs[h].id \in Ids /\ pushes[hs[h].id] = None
    BY <1>1, <1>4 DEF OfferInsert, At, Quiet, SpoolInv, TurnInv, Setting
  <2>2. \/ UNCHANGED pushes
        \/ pushes' = [pushes EXCEPT ![hs[h].id] =
                        [root |-> hs[h].root, bits |-> hs[h].bits, dirty |-> 0, idle |-> FALSE]]
    BY <1>4, <2>1 DEF OfferInsert
  <2>. QED
    BY <1>1, <1>2, <2>1, <2>2 DEF Grows, Awake
<1>5. CASE SliceMark(h)
  <2> DEFINE x == hs[h].id
  <2>1. x \in Ids
    BY <1>1, <1>5 DEF SliceMark, At
  <2>2. CASE pushes[x] # None
    BY <1>1, <1>5, <2>1, <2>2, MarkedEntry DEF Quiet, Grows, Awake, UploadInv, CalmId
  <2>. QED
    BY <1>2, <1>5, <2>2 DEF SliceMark
<1>6. CASE FinalizeTake(h)
  BY <1>1, <1>2, <1>6 DEF FinalizeTake, At, Grows, Awake
<1>. QED
  BY <1>2, <1>3, <1>4, <1>5, <1>6 DEF HandlerStep, CleanDone, OfferProbe, OfferCreate, OfferSave,
     SliceWrite, SliceSave, FinalizeRename, FinalizeUnlink, FinalizeHash, FinalizeDrop,
     FinalizeRegister, CleanPart, CleanSidecar

\* In a calm world steps are of one handler, or of the uploader.
LEMMA CalmNext ==
  ASSUME Quiet, Next
  PROVE  \/ \E h \in Handlers : HandlerStep(h) \/ Arrival(h)
         \/ Uploader
         \/ \E x \in Ids : SliceRefused(x)
BY WorldType DEF Quiet, Calm, Next, Application, Restart, Register, Unregister, GoIdle, TypeInv

\* A handler starts on an offer, or on a slice of a push.
Started(h) ==
  /\ Others(h) /\ hs[h].step = "free"
  /\ \/ hs'[h].step = "o_lock"
     \/ hs'[h].step \in {"s_write", "s_mark"} /\ hs'[h].id \in Ids /\ pushes[hs'[h].id] # None

\* A query arrives, or the uploader asks or sends, or nobody moves.
LEMMA OtherSteps ==
  ASSUME Quiet, (\E h \in Handlers : Arrival(h)) \/ Uploader \/ (\E x \in Ids : SliceRefused(x))
  PROVE  /\ UNCHANGED <<registry, spool>>
         /\ UNCHANGED hs \/ \E h \in Handlers : Started(h)
         /\ \A y \in Ids : Grows(y) /\ Awake(y)
<1>1. /\ \A y \in Ids : pushes[y] # None => ~ pushes[y].idle
      /\ hs \in [Handlers -> Handler]
  BY DEF Quiet, TypeInv, TypeOK, UploadInv, CalmId
<1>2. UNCHANGED pushes => \A y \in Ids : Grows(y) /\ Awake(y)
  BY <1>1 DEF Grows, Awake
<1>3. ASSUME NEW h \in Handlers, NEW x \in Ids, NEW r, Offer(h, x, r)
      PROVE  Started(h) /\ UNCHANGED <<pushes, registry, spool>>
  BY <1>1, <1>3 DEF Offer, Starting, At, Others, Started
<1>4. ASSUME NEW h \in Handlers, NEW x \in Ids, NEW i, Slice(h, x, i)
      PROVE  /\ Started(h) /\ UNCHANGED <<registry, spool>>
             /\ \A y \in Ids : Grows(y) /\ Awake(y)
  BY <1>1, <1>4, TouchedGrows DEF Slice, Starting, At, Others, Started
<1>5. CASE \E h \in Handlers : Arrival(h)
  BY <1>2, <1>3, <1>4, <1>5, WorldType DEF Arrival, Quiet, TypeInv
<1>6. CASE \E x \in Ids : SliceRefused(x)
  BY <1>6, TouchedGrows DEF SliceRefused
<1>7. CASE Uploader
  <2>1. ASSUME NEW h \in Handlers, UploadSlice(h) PROVE up.id \in Ids
    BY <2>1 DEF UploadSlice, Quiet, TypeInv, UploadType
  <2>2. ASSUME NEW h \in Handlers, UploadSlice(h)
        PROVE  /\ UNCHANGED <<registry, spool>>
               /\ UNCHANGED hs \/ Started(h)
               /\ \A y \in Ids : Grows(y) /\ Awake(y)
    BY <1>2, <1>4, <2>1, <2>2, TouchedGrows DEF UploadSlice
  <2>. QED
    BY <1>2, <1>3, <1>7, <2>2, WorldType DEF Uploader, UploadOffer, UploadStops, Quiet, TypeInv
<1>. QED
  BY <1>5, <1>6, <1>7

\* What is served stays served: a push on its way there is whole, and no
\* registration is in its way.
LEMMA ServesKept ==
  ASSUME Quiet, [Next]_vars, NEW x \in Ids, NEW r, Serves(x, r)
  PROVE  Serves(x, r)'
<1> DEFINE Way == {"f_rename", "f_unlink", "f_hash", "f_register"}
<1>1. CASE UNCHANGED vars
  BY <1>1 DEF vars, Serves
<1>2. CASE registry[x] # None /\ registry[x].root = r
  <2>1. CASE Next
    <3>1. ASSUME NEW h \in Handlers, HandlerStep(h), registry'[x] # registry[x] PROVE FALSE
      <4>1. FinalizeRegister(h)
        BY <3>1 DEF HandlerStep, OfferLock, CleanDone, OfferProbe, OfferCreate, OfferSave, OfferInsert,
           SliceWrite, SliceMark, SliceSave, FinalizeTake, FinalizeRename, FinalizeUnlink,
           FinalizeHash, FinalizeDrop, CleanPart, CleanSidecar
      <4>. QED
        BY <1>2, <3>1, <4>1 DEF FinalizeRegister, Quiet, TypeInv, TypeOK
    <3>2. registry'[x] = registry[x]
      BY <2>1, <3>1, CalmNext, OtherSteps
    <3>. QED
      BY <1>2, <3>2 DEF Serves
  <2>. QED
    BY <1>1, <2>1
<1>3. ASSUME NEW g \in Handlers, hs[g].id = x, hs[g].root = r, hs[g].step \in Way, Next
      PROVE  Serves(x, r)'
  <2>1. CASE hs'[g] = hs[g]
    BY <1>3, <2>1 DEF Serves
  <2>2. CASE HandlerStep(g)
    <3>1. FileInv(g) /\ TurnInv(g) /\ ServeInv(x) /\ CalmId(x)
      BY DEF Quiet, SpoolInv, UploadInv
    <3>2. CASE FinalizeRename(g)
      <4>1. Moves(g, "f_unlink")
        BY <1>3, <3>1, <3>2, GotoMoves DEF FinalizeRename, FileInv, At, Whole, Quiet, Steps
      <4>. QED
        BY <1>3, <4>1 DEF Serves, Moves
    <3>3. CASE FinalizeUnlink(g)
      <4>1. Moves(g, "f_hash")
        BY <3>3, GotoMoves DEF FinalizeUnlink, Quiet, Steps
      <4>. QED
        BY <1>3, <4>1 DEF Serves, Moves
    <3>4. CASE FinalizeHash(g)
      <4>1. Whole(blob[x], r)
        BY <1>3, <3>1, <3>4 DEF FinalizeHash, FileInv, At
      <4>2. Moves(g, "f_register")
        BY <1>3, <3>4, <4>1, GotoMoves DEF FinalizeHash, Whole, Quiet, Steps
      <4>. QED
        BY <1>3, <4>2 DEF Serves, Moves
    <3>5. CASE FinalizeRegister(g)
      <4>1. registry[x] = None
        BY <1>3, <3>1 DEF ServeInv, CalmId, Ending
      <4>2. registry'[x] = [root |-> r, spooled |-> TRUE]
        <5>1. registry' = [registry EXCEPT ![x] = [root |-> r, spooled |-> TRUE]]
          BY <1>3, <3>5, <4>1 DEF FinalizeRegister
        <5>. QED
          BY <5>1 DEF Quiet, TypeInv, TypeOK
      <4>3. [root |-> r, spooled |-> TRUE] \in Serving
        BY <1>3 DEF Serving, Quiet, TypeInv, HandlerType
      <4>4. registry'[x] # None
        BY <4>2, <4>3, MarkerAssumption, Zenon
      <4>5. registry'[x].root = r
        BY <4>2
      <4>. QED
        BY <4>4, <4>5 DEF Serves
    <3>. QED
      BY <1>3, <2>2, <3>2, <3>3, <3>4, <3>5 DEF HandlerStep, OfferLock, CleanDone, OfferProbe,
         OfferCreate, OfferSave, OfferInsert, SliceWrite, SliceMark, SliceSave, FinalizeTake,
         FinalizeDrop, CleanPart, CleanSidecar, At
  <2>. QED
    BY <1>3, <2>1, <2>2, CalmNext, OtherSteps, StepOthers DEF Started, Others, Quiet
<1>. QED
  BY <1>1, <1>2, <1>3 DEF Serves

\* The handler that takes a push is on its way to serve it.
LEMMA Taken ==
  ASSUME Quiet, NEW h \in Handlers, FinalizeTake(h), NEW x, NEW r,
         hs[h].id = x, pushes[x] # None, pushes[x].root = r
  PROVE  Serves(x, r)'
<1>1. hs'[h].step = "f_rename" /\ hs'[h].id = x /\ hs'[h].root = r
  BY DEF FinalizeTake, Quiet, TypeInv, TypeOK, Handler
<1>. QED
  BY <1>1 DEF Serves

\* Nor does anyone else: a push ends only in the hands of its finalizer.
LEMMA GrowStep ==
  ASSUME Quiet, [Next]_vars, NEW y \in Ids
  PROVE  /\ Awake(y)
         /\ \/ Grows(y)
            \/ \E h \in Handlers : FinalizeTake(h) /\ hs[h].id = y /\ pushes[y] # None
<1>1. CASE UNCHANGED vars
  BY <1>1 DEF vars, Awake, Grows, Quiet, UploadInv, CalmId
<1>2. CASE Next
  BY <1>2, CalmNext, HandlerGrows, OtherSteps
<1>. QED
  BY <1>1, <1>2

\* What the receiver holds for an upload it keeps holding.
LEMMA HoldsKept ==
  ASSUME Quiet, [Next]_vars, NEW x \in Ids, NEW r, NEW todo, Holds(x, r, todo)
  PROVE  Holds(x, r, todo)'
<1>1. CASE Serves(x, r)
  BY <1>1, ServesKept DEF Holds
<1>2. CASE pushes[x] # None /\ pushes[x].root = r /\ Chunks \ todo \subseteq pushes[x].bits
  <2>1. CASE Grows(x)
    BY <1>2, <2>1 DEF Grows, Holds
  <2>2. CASE \E h \in Handlers : FinalizeTake(h) /\ hs[h].id = x
    BY <1>2, <2>2, Taken DEF Holds
  <2>. QED
    BY <2>1, <2>2, GrowStep
<1>. QED
  BY <1>1, <1>2 DEF Holds

\* The content of a slice or a whole push whose entry is gone is served.
LEMMA SentKept ==
  ASSUME Quiet, [Next]_vars, NEW g \in Handlers, Sending(g), NEW x, NEW r,
         hs[g].id = x, hs[g].root = r, pushes'[x] = None
  PROVE  Serves(x, r)'
<1>1. x \in Ids /\ AnswerInv(g) /\ RootInv(g)
  BY DEF Quiet, UploadInv, SpoolInv, TypeInv, HandlerType, Sending, Finishing
<1>2. CASE pushes[x] = None
  BY <1>1, <1>2, ServesKept DEF AnswerInv
<1>3. CASE pushes[x] # None
  <2>1. ~ Grows(x) /\ pushes[x].root = r
    BY <1>1, <1>3 DEF Grows, RootInv
  <2>. QED
    BY <1>1, <1>3, <2>1, GrowStep, Taken
<1>. QED
  BY <1>2, <1>3

\* A handler that does not move may see its push taken by another.
LEMMA AnswerKept ==
  ASSUME Quiet, [Next]_vars, NEW g \in Handlers, hs'[g] = hs[g]
  PROVE  AnswerInv(g)'
<1>1. AnswerInv(g) /\ TurnInv(g)
  BY DEF Quiet, UploadInv, SpoolInv
<1>2. ASSUME hs[g].step = "o_clean", hs[g].next = "free" PROVE Grows(hs[g].id)
  <2>1. hs[g].id \in Ids
    BY <1>2 DEF Quiet, TypeInv, HandlerType
  <2>2. ASSUME NEW h \in Handlers, FinalizeTake(h), hs[h].id = hs[g].id PROVE FALSE
    BY <1>1, <1>2, <2>2 DEF TurnInv, Offers, FinalizeTake, At
  <2>. QED
    BY <2>1, <2>2, GrowStep
<1>3. PICK x, r : x = hs[g].id /\ r = hs[g].root
  OBVIOUS
<1>4. ASSUME Sending(g), pushes'[x] = None PROVE Serves(x, r)'
  BY <1>3, <1>4, SentKept
<1>. QED
  BY <1>1, <1>2, <1>3, <1>4 DEF AnswerInv, Grows, Sending, Finishing, Missing

\* What a handler at work is about to acknowledge once it moved.
LEMMA AnswerMoved ==
  ASSUME Quiet, Next, NEW g \in Handlers, HandlerStep(g)
  PROVE  AnswerInv(g)'
<1> DEFINE x == hs[g].id
<1>1. TypeInv /\ AnswerInv(g) /\ TurnInv(g) /\ FileInv(g)
  BY DEF Quiet, UploadInv, SpoolInv
<1>2. CASE Ends(g)
  BY <1>2 DEF Ends, AnswerInv, Sending, Finishing
<1>3. ASSUME Sending(g), hs'[g].id = hs[g].id, hs'[g].root = hs[g].root,
             ~ (hs'[g].step = "o_clean" /\ hs'[g].next = "free"),
             hs'[g].step \notin {"f_lose", "f_denied"}
      PROVE  AnswerInv(g)'
  <2>1. PICK y, r : y = hs[g].id /\ r = hs[g].root
    OBVIOUS
  <2>2. pushes'[y] = None => Serves(y, r)'
    BY <1>3, <2>1, SentKept
  <2>. QED
    BY <1>3, <2>1, <2>2 DEF AnswerInv
<1>4. CASE /\ hs'[g].step \notin {"o_clean", "s_write", "s_mark", "s_save", "f_take", "f_lose", "f_denied"}
  BY <1>4 DEF AnswerInv, Sending, Finishing
<1>5. CASE OfferLock(g)
  <2>1. \A y \in Ids : pushes[y] # None => /\ pushes'[y] # None /\ pushes'[y].root = pushes[y].root
                                           /\ pushes'[y].bits = pushes[y].bits
    BY <1>1, <1>5, NoneStale, LockEffect
  <2>. QED
    BY <1>1, <1>2, <1>5, <2>1, LockEffect DEF AnswerInv, Sending, Finishing, Missing
<1>6. ASSUME NEW e \in Ids, CleanPart(g, e) \/ CleanSidecar(g, e) PROVE AnswerInv(g)'
  <2>1. /\ hs'[g].step = hs[g].step /\ hs'[g].next = hs[g].next /\ hs'[g].id = hs[g].id
        /\ hs'[g].root = hs[g].root /\ hs'[g].bits = hs[g].bits /\ hs[g].step = "o_clean"
        /\ pushes' = pushes
    BY <1>1, <1>6 DEF CleanPart, CleanSidecar, At, TypeInv, TypeOK, Handler
  <2>2. CASE hs[g].next = "f_take"
    BY <1>3, <2>1, <2>2 DEF Sending, Finishing
  <2>. QED
    BY <1>1, <2>1, <2>2 DEF AnswerInv, Sending, Finishing, Missing
<1>7. CASE CleanDone(g)
  <2>1. Ends(g) \/ Moves(g, "f_take") \/ Moves(g, "o_probe")
    BY <1>1, <1>7, FreedEnds, GotoMoves DEF CleanDone, Done, Refuse, TypeInv, HandlerType, Steps
  <2>2. hs[g].step = "o_clean" /\ (Moves(g, "f_take") => hs[g].next = "f_take" \/ Ends(g))
    BY <1>1, <1>7, FreedEnds DEF CleanDone, At, Done, Refuse, Goto, Moves, TypeInv, TypeOK, HandlerType,
       Handler
  <2>. QED
    BY <1>2, <1>3, <1>4, <2>1, <2>2 DEF Moves, Sending, Finishing
<1>8. CASE OfferInsert(g)
  <2>1. x \in Ids /\ pushes[x] = None
    BY <1>1, <1>8 DEF OfferInsert, At, TypeInv, HandlerType, TurnInv, Setting
  <2>2. \/ Ends(g)
        \/ /\ hs'[g].step = "f_take" /\ hs'[g].id = x
           /\ pushes' = [pushes EXCEPT ![x] =
                           [root |-> hs[g].root, bits |-> hs[g].bits, dirty |-> 0, idle |-> FALSE]]
    BY <1>1, <1>8, <2>1, FreedEnds DEF OfferInsert, Done, Refuse, TypeInv, TypeOK, Handler
  <2>3. [root |-> hs[g].root, bits |-> hs[g].bits, dirty |-> 0, idle |-> FALSE] \in Entry
    BY <1>1, <1>8 DEF OfferInsert, At, Entry, TypeInv, TypeOK, Handler, HandlerType
  <2>4. CASE ~ Ends(g)
    <3>1. pushes'[x] # None
      BY <1>1, <2>1, <2>2, <2>3, <2>4, MarkerAssumption DEF TypeInv, TypeOK
    <3>. QED
      BY <2>2, <2>4, <3>1 DEF AnswerInv
  <2>. QED
    BY <1>2, <2>4
<1>9. CASE SliceWrite(g) \/ SliceSave(g)
  <2>1. (Ends(g) \/ Moves(g, "s_mark") \/ Moves(g, "f_take")) /\ Sending(g)
    BY <1>1, <1>9, FreedEnds, GotoMoves DEF SliceWrite, SliceSave, Refuse, Done, At, Sending, Steps
  <2>. QED
    BY <1>2, <1>3, <2>1 DEF Moves
<1>10. CASE SliceMark(g)
  <2>1. \/ Ends(g)
        \/ pushes[x] # None /\ hs'[g].step = "s_save" /\ hs'[g].id = x
    BY <1>1, <1>10, FreedEnds DEF SliceMark, Done, TypeInv, TypeOK, Handler
  <2>2. pushes[x] # None => pushes'[x] # None
    BY <1>1, <1>10, MarkedEntry
  <2>. QED
    BY <1>2, <2>1, <2>2 DEF AnswerInv
<1>11. CASE FinalizeRegister(g)
  <2>1. x \in Ids /\ ServeInv(x) /\ CalmId(x)
    BY <1>1, <1>11 DEF FinalizeRegister, At, TypeInv, HandlerType, Quiet, SpoolInv, UploadInv
  <2>2. registry[x] = None
    BY <1>11, <2>1 DEF FinalizeRegister, At, ServeInv, CalmId, Ending
  <2>. QED
    BY <1>1, <1>2, <1>11, <2>2, FreedEnds DEF FinalizeRegister, Done
<1>12. CASE OfferProbe(g) \/ OfferCreate(g) \/ OfferSave(g)
  <2>1. hs'[g].step \in {"o_insert", "o_create", "o_save"}
    BY <1>1, <1>12 DEF OfferProbe, OfferCreate, OfferSave, Goto, TypeInv, TypeOK, Handler
  <2>. QED
    BY <1>4, <2>1
<1>13. CASE \/ FinalizeTake(g) \/ FinalizeRename(g) \/ FinalizeUnlink(g) \/ FinalizeHash(g)
            \/ FinalizeDrop(g)
  <2>1. Ends(g) \/ hs'[g].step \in {"f_rename", "f_unlink", "f_hash", "f_register", "f_mismatch"}
    BY <1>1, <1>13, FreedEnds DEF FinalizeTake, FinalizeRename, FinalizeUnlink, FinalizeHash,
       FinalizeDrop, Done, Refuse, Goto, TypeInv, TypeOK, Handler
  <2>. QED
    BY <1>2, <1>4, <2>1
<1>. QED
  BY <1>5, <1>6, <1>7, <1>8, <1>9, <1>10, <1>11, <1>12, <1>13 DEF HandlerStep

\* Any step keeps what an answer under way says.
LEMMA AnswerStep == ASSUME Quiet, [Next]_vars, NEW g \in Handlers PROVE AnswerInv(g)'
<1>1. CASE hs'[g] = hs[g]
  BY <1>1, AnswerKept
<1>2. CASE Next
  <2>1. CASE Started(g)
    <3>1. \A y \in Ids : pushes[y] # None => pushes'[y] # None \/ HandlerStep(g)
      BY <1>2, <2>1, CalmNext, OtherSteps, StepOthers, GrowStep DEF Started, Others, Grows, FinalizeTake, At, Quiet
    <3>. QED
      BY <1>2, <2>1, <3>1, AnswerMoved DEF Started, AnswerInv, Sending, Finishing
  <2>. QED
    BY <1>1, <1>2, <2>1, CalmNext, OtherSteps, StepOthers, AnswerMoved DEF Started, Others, Quiet
<1>. QED
  BY <1>1, <1>2 DEF vars

\* A handler that does not end goes on with its id and content, from an offer
\* or a slice to finalize_push and not back.
Slices == {"s_write", "s_mark", "s_save"}
\* Where the step of a handler leads, by the step it was at.
Advances(h) ==
  /\ hs'[h].id = hs[h].id /\ hs'[h].root = hs[h].root /\ hs'[h].step # "free"
  /\ hs[h].step \notin Slices => hs'[h].step \notin Slices
  /\ hs[h].step \notin Offers => hs'[h].step \notin Offers
  /\ hs'[h].step = "s_save" =>
       /\ hs[h].step = "s_mark" /\ hs'[h].chunk = hs[h].chunk /\ pushes[hs[h].id] # None
       /\ hs'[h].bits = pushes[hs[h].id].bits \cup {hs[h].chunk}

\* Each action of a handler advances it so.
LEMMA HandlerAdvances ==
  ASSUME Quiet, NEW h \in Handlers, HandlerStep(h)
  PROVE  \/ /\ hs' = [hs EXCEPT ![h] = Free]
            /\ Refuse(h) \/ \E b : Done(h, b)
         \/ Advances(h) /\ up' = up
<1>1. TypeInv /\ HandlerType(h) /\ RootInv(h) /\ BitsInv(h)
  BY DEF Quiet, SpoolInv, TypeInv
<1>2. CASE Refuse(h) \/ \E b : Done(h, b)
  BY <1>2 DEF Refuse, Done
<1>3. ASSUME NEW s \in Steps, s # "free", Goto(h, s), hs[h].step \notin Slices => s \notin Slices,
             hs[h].step \notin Offers => s \notin Offers, s # "s_save"
      PROVE  Advances(h) /\ up' = up
  BY <1>1, <1>3, GotoMoves DEF Goto, Moves, Advances
<1>4. CASE OfferLock(h)
  <2>1. Refuse(h) \/ up' = up
    BY <1>4 DEF OfferLock, CleanThen
  <2>2. hs[h].step = "o_lock" /\ (Ends(h) \/ Advances(h))
    BY <1>1, <1>4, LockEffect DEF Advances, Offers, Slices
  <2>3. ASSUME ~ Refuse(h) PROVE ~ Ends(h)
    <3>0. PICK after, have : CleanThen(h, after, have)
      BY <1>4, <2>3 DEF OfferLock
    <3>1. hs'[h].step = "o_clean"
      BY <1>1, <3>0 DEF CleanThen, TypeInv, TypeOK, Handler
    <3>. QED
      BY <3>1 DEF Ends
  <2>. QED
    BY <1>2, <2>1, <2>2, <2>3
<1>5. ASSUME NEW e \in Ids, CleanPart(h, e) \/ CleanSidecar(h, e) PROVE Advances(h) /\ up' = up
  BY <1>1, <1>5 DEF CleanPart, CleanSidecar, At, Advances, Slices, TypeInv, TypeOK, Handler
<1>6. CASE CleanDone(h)
  <2>1. CASE hs[h].next \in {"o_probe", "f_take"}
    <3>1. Goto(h, hs[h].next) /\ hs[h].step = "o_clean"
      BY <1>6, <2>1 DEF CleanDone, At
    <3>. QED
      BY <1>3, <2>1, <3>1 DEF Slices, Offers, Steps
  <2>. QED
    BY <1>1, <1>2, <1>6, <2>1 DEF CleanDone, HandlerType
<1>7. CASE OfferProbe(h)
  <2>1. CASE Goto(h, "o_create")
    BY <1>3, <1>7, <2>1 DEF OfferProbe, At, Slices, Offers, Steps
  <2>2. CASE hs' = [hs EXCEPT ![h].step = "o_insert", ![h].bits = side[hs[h].id].bits] /\ up' = up
    BY <1>1, <1>7, <2>2 DEF OfferProbe, At, Advances, Slices, Offers, TypeInv, TypeOK, Handler
  <2>. QED
    BY <1>7, <2>1, <2>2 DEF OfferProbe
<1>8. CASE OfferCreate(h)
  BY <1>3, <1>8 DEF OfferCreate, At, Slices, Offers, Steps
<1>9. CASE OfferSave(h)
  BY <1>3, <1>9 DEF OfferSave, At, Slices, Offers, Steps
<1>10. CASE OfferInsert(h)
  <2>1. \/ Refuse(h) \/ \E b : Done(h, b)
        \/ /\ hs[h].step = "o_insert" /\ up' = up
           /\ \E b : hs' = [hs EXCEPT ![h].step = "f_take", ![h].bits = b]
    BY <1>10 DEF OfferInsert, At
  <2>. QED
    BY <1>1, <1>2, <2>1 DEF Advances, Slices, Offers, TypeInv, TypeOK, Handler
<1>11. CASE SliceWrite(h)
  BY <1>2, <1>3, <1>11 DEF SliceWrite, At, Slices, Offers, Steps
<1>12. CASE SliceMark(h)
  <2> DEFINE b == pushes[hs[h].id].bits \cup {hs[h].chunk}
  <2>1. \/ \E c : Done(h, c)
        \/ /\ hs[h].step = "s_mark" /\ up' = up /\ pushes[hs[h].id] # None
           /\ hs' = [hs EXCEPT ![h].step = "s_save", ![h].root = pushes[hs[h].id].root, ![h].bits = b]
    BY <1>12 DEF SliceMark, At
  <2>2. pushes[hs[h].id] # None => pushes[hs[h].id].root = hs[h].root
    BY <1>1, <1>12 DEF SliceMark, At, RootInv, Sending
  <2> HIDE DEF b
  <2>3. CASE \E c : Done(h, c)
    BY <1>2, <2>3
  <2>4. CASE /\ hs[h].step = "s_mark" /\ up' = up /\ pushes[hs[h].id] # None
             /\ hs' = [hs EXCEPT ![h].step = "s_save", ![h].root = pushes[hs[h].id].root, ![h].bits = b]
    <3>1. /\ hs'[h].step = "s_save" /\ hs'[h].root = pushes[hs[h].id].root /\ hs'[h].bits = b
          /\ hs'[h].id = hs[h].id /\ hs'[h].chunk = hs[h].chunk
      BY <1>1, <2>4 DEF TypeInv, TypeOK, Handler
    <3>. QED
      BY <2>2, <2>4, <3>1 DEF Advances, Slices, Offers, b
  <2>. QED
    BY <2>1, <2>3, <2>4
<1>13. CASE SliceSave(h)
  BY <1>2, <1>3, <1>13 DEF SliceSave, At, Slices, Offers, Steps
<1>14. CASE FinalizeTake(h)
  <2>1. \/ \E b : Done(h, b)
        \/ /\ pushes[hs[h].id] # None /\ up' = up /\ hs[h].step = "f_take"
           /\ hs' = [hs EXCEPT ![h].step = "f_rename", ![h].root = pushes[hs[h].id].root]
    BY <1>14 DEF FinalizeTake, At
  <2>2. pushes[hs[h].id] # None => pushes[hs[h].id].root = hs[h].root
    BY <1>1, <1>14 DEF FinalizeTake, At, RootInv, Sending, Finishing
  <2>. QED
    BY <1>1, <1>2, <2>1, <2>2 DEF Advances, Slices, Offers, TypeInv, TypeOK, Handler
<1>15. CASE FinalizeRename(h) \/ FinalizeUnlink(h)
  BY <1>2, <1>3, <1>15 DEF FinalizeRename, FinalizeUnlink, At, Slices, Offers, Steps
<1>16. CASE FinalizeHash(h) \/ FinalizeRegister(h)
  <2>1. \/ Refuse(h) \/ \E b : Done(h, b)
        \/ \E s \in {"f_register", "f_mismatch", "f_lose", "f_denied"} : Goto(h, s)
    BY <1>16 DEF FinalizeHash, FinalizeRegister
  <2>. QED
    BY <1>2, <1>3, <2>1 DEF Slices, Offers, Steps
<1>17. CASE FinalizeDrop(h)
  BY <1>2, <1>17 DEF FinalizeDrop
<1>. QED
  BY <1>4, <1>5, <1>6, <1>7, <1>8, <1>9, <1>10, <1>11, <1>12, <1>13, <1>14, <1>15, <1>16, <1>17
     DEF HandlerStep

\* Ending a query leaves no uploader waiting for its handler.
LEMMA EndedWaits ==
  ASSUME TypeInv, NEW h \in Handlers, Refuse(h) \/ \E b : Done(h, b)
  PROVE  (up' = up /\ up.h # h) \/ (up.h = h /\ up'.h = None)
BY DEF TypeInv, TypeOK, Upload, Refuse, Done, Told, Failed

\* What the uploader does.
LEMMA UploaderMoves ==
  ASSUME Quiet, Uploader
  PROVE  \/ \E h \in Handlers, x \in Ids, r \in Roots :
              /\ Offer(h, x, r)
              /\ up' = [at |-> "asking", id |-> x, root |-> r, todo |-> {}, h |-> h]
         \/ \E h \in Handlers, i \in up.todo :
              /\ up.at = "sending" /\ up.h = None /\ Slice(h, up.id, i) /\ up' = [up EXCEPT !.h = h]
         \/ /\ UNCHANGED <<registry, hs>>
            /\ \E x \in Ids, r \in Roots :
                 up' = [at |-> IF registry[x].root = r THEN "ok" ELSE "failed", id |-> x, root |-> r,
                        todo |-> {}, h |-> None] /\ registry[x] # None
         \/ UNCHANGED <<registry, hs>> /\ Failed
         \/ /\ UNCHANGED <<registry, hs>>
            /\ up.at = "sending" /\ pushes[up.id] = None /\ \E todo \in SUBSET up.todo : Told(todo)
<1>1. ASSUME NEW h \in Handlers, UploadSlice(h)
      PROVE  \/ /\ up.at = "sending" /\ up.h = None
                /\ \E i \in up.todo : Slice(h, up.id, i) /\ up' = [up EXCEPT !.h = h]
             \/ UNCHANGED <<registry, hs>> /\ Failed
             \/ /\ UNCHANGED <<registry, hs>>
                /\ up.at = "sending" /\ pushes[up.id] = None /\ \E todo \in SUBSET up.todo : Told(todo)
  <2> DEFINE i == CHOOSE j \in up.todo : \A k \in up.todo : j <= k
  <2>1. i \in up.todo
    BY <1>1, LeastExists DEF UploadSlice, Quiet, TypeInv, UploadType, Upload
  <2>2. up.todo \ {i} \in SUBSET up.todo
    OBVIOUS
  <2> HIDE DEF i
  <2>. QED
    BY <1>1, <2>1, <2>2 DEF UploadSlice, i
<1>. QED
  BY <1>1, WorldType DEF Uploader, UploadOffer, UploadStops, Quiet, TypeInv

\* Any step keeps what the uploader waits for.
LEMMA WaitStep == ASSUME Quiet, [Next]_vars, NEW g \in Handlers PROVE WaitInv(g)'
<1>1. /\ WaitInv(g) /\ TypeInv /\ None \notin Handlers
      /\ up \in Upload /\ (up.h # None => up.at \in {"asking", "sending"})
  BY MarkerAssumption DEF Quiet, UploadInv, TypeInv, UploadType
<1>2. CASE up' = up /\ hs'[g] = hs[g]
  BY <1>1, <1>2 DEF WaitInv
<1>3. CASE up'.h # g
  BY <1>3 DEF WaitInv
<1>4. CASE up' = up /\ up.h = g /\ Advances(g)
  <2>1. hs[g].step = "s_mark" => up.at = "sending" /\ Holds(up.id, up.root, up.todo)
    BY <1>1, <1>4 DEF WaitInv, Quiet, UploadInv, ResultInv
  <2>2. hs[g].id \in Ids
    BY <1>1, <1>4 DEF WaitInv, TypeInv, HandlerType
  <2>3. hs[g].step = "s_mark" /\ pushes[hs[g].id] # None => Chunks \ up.todo \subseteq pushes[hs[g].id].bits
    BY <1>1, <1>4, <2>1, <2>2, ServedAlone DEF WaitInv, Holds
  <2>. QED
    BY <1>1, <1>4, <2>3 DEF WaitInv, Advances, Slices, Offers
<1>5. ASSUME NEW h \in Handlers, HandlerStep(h) PROVE WaitInv(g)'
  <2>1. CASE Advances(h) /\ up' = up
    BY <1>1, <1>2, <1>3, <1>4, <1>5, <2>1, StepOthers DEF Others
  <2>2. CASE Refuse(h) \/ \E b : Done(h, b)
    BY <1>1, <1>2, <1>3, <1>5, <2>2, StepOthers, EndedWaits DEF Others
  <2>. QED
    BY <1>5, <2>1, <2>2, HandlerAdvances
<1>6. ASSUME up' = up, UNCHANGED hs \/ \E h \in Handlers : Started(h) PROVE WaitInv(g)'
  BY <1>1, <1>2, <1>3, <1>6 DEF WaitInv, Started, Others
<1>7. CASE Uploader
  <2>1. ASSUME NEW x \in Ids, NEW r \in Roots, Offer(g, x, r),
               up' = [at |-> "asking", id |-> x, root |-> r, todo |-> {}, h |-> g]
        PROVE  WaitInv(g)'
    <3>1. hs'[g].step = "o_lock" /\ hs'[g].id = x /\ hs'[g].root = r
      BY <1>1, <2>1 DEF Offer, Starting, TypeInv, TypeOK
    <3>. QED
      BY <2>1, <3>1 DEF WaitInv
  <2>2. ASSUME NEW i \in up.todo, up.at = "sending", up.h = None, Slice(g, up.id, i),
               up' = [up EXCEPT !.h = g]
        PROVE  WaitInv(g)'
    <3>1. up.id \in Ids /\ Holds(up.id, up.root, up.todo)
      BY <2>2 DEF Quiet, TypeInv, UploadType, UploadInv, ResultInv
    <3>2. pushes[up.id] # None /\ pushes[up.id].root = up.root
      BY <2>2, <3>1, ServedAlone DEF Slice, Holds
    <3>3. hs'[g].step \in {"s_write", "s_mark"} /\ hs'[g].id = up.id /\ hs'[g].root = up.root
      BY <1>1, <2>2, <3>2 DEF Slice, Starting, TypeInv, TypeOK
    <3>4. up'.at = "sending" /\ up'.id = up.id /\ up'.root = up.root
      BY <1>1, <2>2 DEF Upload
    <3>. QED
      BY <3>3, <3>4 DEF WaitInv, Offers
  <2>3. ASSUME Failed \/ \E todo : Told(todo) PROVE up'.h # g
    BY <1>1, <2>3 DEF Failed, Told, Upload
  <2>4. ASSUME NEW h \in Handlers, h # g,
               \/ up' = [up EXCEPT !.h = h]
               \/ \E x, r : up' = [at |-> "asking", id |-> x, root |-> r, todo |-> {}, h |-> h]
        PROVE  up'.h # g
    BY <1>1, <2>4 DEF Upload
  <2>5. ASSUME NEW a, NEW x, NEW r, up' = [at |-> a, id |-> x, root |-> r, todo |-> {}, h |-> None]
        PROVE  up'.h # g
    BY <1>1, <2>5
  <2>. QED
    BY <1>3, <1>7, <2>1, <2>2, <2>3, <2>4, <2>5, UploaderMoves
<1>8. CASE UNCHANGED vars
  BY <1>2, <1>8 DEF vars
<1>. QED
  BY <1>5, <1>6, <1>7, <1>8, CalmNext, OtherSteps DEF Arrival, SliceRefused

\* The chunks the uploader has left to send once h acknowledged.
Left(h, b) == IF up.at = "asking" THEN Missing(b) ELSE up.todo \ {hs[h].chunk}

\* It suffices that the receiver serves the content, or has all but what is
\* left, which is something.
LEMMA DoneResult ==
  ASSUME Quiet, NEW h \in Handlers, NEW b, up.h = h, Done(h, b), NEW x, NEW r,
         x = up.id, r = up.root,
         \/ Serves(x, r)'
         \/ /\ pushes'[x] # None /\ pushes'[x].root = r /\ Left(h, b) # {}
            /\ Chunks \ Left(h, b) \subseteq pushes'[x].bits
  PROVE  ResultInv'
<1>1. up' = [up EXCEPT !.at = IF Left(h, b) = {} THEN "ok" ELSE "sending",
                       !.todo = Left(h, b), !.h = None]
  BY DEF Done, Told, Left
<1>2. /\ up'.at = IF Left(h, b) = {} THEN "ok" ELSE "sending"
      /\ up'.todo = Left(h, b) /\ up'.id = x /\ up'.root = r
  BY <1>1 DEF Quiet, TypeInv, TypeOK, Upload
<1>. QED
  BY <1>2 DEF ResultInv, Holds

\* A positive answer is told to the uploader as it is.
LEMMA AcknowledgedResult ==
  ASSUME Quiet, Next, NEW h \in Handlers, HandlerStep(h), up.h = h, \E b : Done(h, b), ~ Refuse(h)
  PROVE  ResultInv'
<1>1. PICK x, r : x = up.id /\ r = up.root
  OBVIOUS
<1>2. /\ TypeInv /\ AnswerInv(h) /\ WaitInv(h) /\ TurnInv(h) /\ RootInv(h) /\ BitsInv(h)
      /\ hs[h].id = x /\ hs[h].root = r /\ x \in Ids /\ up.at \in {"asking", "sending"}
      /\ hs[h].bits \subseteq Chunks /\ up.todo \subseteq Chunks
  <2>1. up.at \in {"asking", "sending"} /\ up.id \in Ids
    BY MarkerAssumption DEF Quiet, TypeInv, UploadType
  <2>. QED
    BY <1>1, <2>1 DEF Quiet, TypeInv, TypeOK, Upload, Handler, UploadInv, SpoolInv, WaitInv
<1>3. hs'[h] = Free
  BY <1>2 DEF Done, TypeInv, TypeOK
<1>4. Free.step = "free"
  BY DEF Free, Starting
<1>5. ASSUME NEW b, Done(h, b), Sending(h), pushes'[x] = None PROVE ResultInv'
  <2>1. Serves(x, r)'
    BY <1>2, <1>5, SentKept
  <2>. QED
    BY <1>1, <1>5, <2>1, DoneResult
<1>6. CASE CleanDone(h)
  <2>1. hs[h].step = "o_clean" /\ hs[h].next = "free" /\ Done(h, hs[h].bits) /\ pushes' = pushes
    <3>1. hs[h].next \in {"free", "refuse", "f_take", "o_probe"} /\ hs \in [Handlers -> Handler]
      BY <1>2 DEF TypeInv, TypeOK, HandlerType
    <3>2. ASSUME NEW s \in {"f_take", "o_probe"}, Goto(h, s) PROVE FALSE
      BY <1>3, <1>4, <3>1, <3>2 DEF Goto, Handler
    <3>. QED
      BY <1>6, <3>1, <3>2 DEF CleanDone, At
  <2>2. up.at = "asking"
    BY <1>2, <2>1 DEF WaitInv, Offers
  <2>3. Left(h, hs[h].bits) = Missing(hs[h].bits)
    BY <2>2 DEF Left
  <2>4. /\ pushes'[x] # None /\ pushes'[x].root = r /\ Missing(hs[h].bits) # {}
        /\ Chunks \ Missing(hs[h].bits) \subseteq pushes'[x].bits
    BY <1>2, <2>1 DEF AnswerInv, Missing
  <2>. QED
    BY <1>1, <2>1, <2>3, <2>4, DoneResult
<1>7. CASE OfferInsert(h)
  <2> DEFINE e == [root |-> hs[h].root, bits |-> hs[h].bits, dirty |-> 0, idle |-> FALSE]
  <2>1. hs[h].step = "o_insert" /\ pushes[x] = None
    BY <1>2, <1>7 DEF OfferInsert, At, TurnInv, Setting
  <2>2. e \in Entry /\ e.root = r /\ e.bits = hs[h].bits
    BY <1>2, <2>1 DEF Entry, TypeInv, HandlerType
  <2>3. pushes' = [pushes EXCEPT ![x] = e] /\ Done(h, e.bits) /\ Missing(e.bits) # {}
    <3>1. hs \in [Handlers -> Handler]
      BY <1>2 DEF TypeInv, TypeOK
    <3>2. ~ \E b : hs' = [hs EXCEPT ![h].step = "f_take", ![h].bits = b]
      BY <1>3, <1>4, <3>1 DEF Handler
    <3>. QED
      BY <1>2, <1>7, <2>1, <3>2 DEF OfferInsert
  <2>4. up.at = "asking"
    BY <1>2, <2>1 DEF WaitInv, Offers
  <2>5. Left(h, e.bits) = Missing(e.bits)
    BY <2>4 DEF Left
  <2> HIDE DEF e
  <2>6. pushes'[x] = e /\ e # None
    BY <1>2, <2>2, <2>3, MarkerAssumption DEF TypeInv, TypeOK
  <2>7. Chunks \ Missing(e.bits) \subseteq e.bits
    BY DEF Missing
  <2>. QED
    BY <1>1, <2>2, <2>3, <2>5, <2>6, <2>7, DoneResult
<1>8. CASE SliceMark(h)
  <2> DEFINE b == pushes[x].bits \cup {hs[h].chunk}
  <2>1. hs[h].step = "s_mark" /\ hs \in [Handlers -> Handler]
    BY <1>2, <1>8 DEF SliceMark, At, TypeInv, TypeOK
  <2>2. CASE pushes[x] = None
    BY <1>2, <1>5, <1>8, <2>1, <2>2 DEF SliceMark, Sending
  <2>3. CASE pushes[x] # None
    <3>1. Done(h, b) /\ Missing(b) # {}
      <4>1. ~ (hs' = [hs EXCEPT ![h].step = "s_save", ![h].root = pushes[x].root, ![h].bits = b])
        BY <1>3, <1>4, <2>1 DEF Handler
      <4>. QED
        BY <1>2, <1>8, <2>3, <4>1 DEF SliceMark
    <3>2. up.at = "sending" /\ pushes[x].root = r /\ Chunks \ up.todo \subseteq pushes[x].bits
      <4>1. up.at = "sending" /\ Holds(up.id, up.root, up.todo)
        BY <1>2, <2>1 DEF WaitInv, Quiet, UploadInv, ResultInv
      <4>. QED
        BY <1>1, <1>2, <2>3, <4>1, ServedAlone DEF Holds
    <3>3. pushes'[x] # None /\ pushes'[x].root = pushes[x].root /\ pushes'[x].bits = b
      BY <1>2, <1>8, <2>3, MarkedEntry
    <3>4. Left(h, b) = up.todo \ {hs[h].chunk}
      BY <3>2 DEF Left
    <3>5. Left(h, b) # {} /\ Chunks \ Left(h, b) \subseteq b
      BY <3>1, <3>2, <3>4 DEF Missing
    <3> HIDE DEF b
    <3>. QED
      BY <1>1, <3>1, <3>2, <3>3, <3>5, DoneResult
  <2>. QED
    BY <2>2, <2>3
<1>9. CASE SliceSave(h)
  <2> DEFINE b == hs[h].bits
  <2>1. hs[h].step = "s_save" /\ pushes' = pushes /\ hs \in [Handlers -> Handler] /\ Sending(h)
    BY <1>2, <1>9 DEF SliceSave, At, TypeInv, TypeOK, Sending
  <2>2. Done(h, b) /\ Missing(b) # {}
    <3>1. ~ Goto(h, "f_take")
      BY <1>3, <1>4, <2>1 DEF Goto, Handler
    <3>. QED
      BY <1>9, <3>1 DEF SliceSave
  <2>3. up.at = "sending" /\ (Chunks \ up.todo) \cup {hs[h].chunk} \subseteq b
    BY <1>2, <2>1 DEF WaitInv
  <2>4. Left(h, b) = up.todo \ {hs[h].chunk}
    BY <2>3 DEF Left
  <2>5. Left(h, b) # {} /\ Chunks \ Left(h, b) \subseteq b
    BY <2>2, <2>3, <2>4 DEF Missing
  <2>6. pushes[x] # None => pushes[x].root = r /\ b \subseteq pushes[x].bits
    BY <1>2, <2>1 DEF RootInv, BitsInv, At
  <2> HIDE DEF b
  <2>7. CASE pushes[x] # None
    BY <1>1, <2>1, <2>2, <2>5, <2>6, <2>7, DoneResult
  <2>. QED
    BY <1>5, <2>1, <2>2, <2>7
<1>10. CASE FinalizeTake(h)
  <2>1. hs[h].step = "f_take" /\ hs \in [Handlers -> Handler] /\ Sending(h)
    BY <1>2, <1>10 DEF FinalizeTake, At, TypeInv, TypeOK, Sending, Finishing
  <2>2. ~ (hs' = [hs EXCEPT ![h].step = "f_rename", ![h].root = pushes[x].root])
    BY <1>3, <1>4, <2>1 DEF Handler
  <2>3. pushes[x] = None /\ pushes' = pushes /\ Done(h, hs[h].bits)
    BY <1>2, <1>10, <2>2 DEF FinalizeTake
  <2>. QED
    BY <1>5, <2>1, <2>3
<1>11. CASE FinalizeRegister(h)
  <2>1. hs[h].step = "f_register" /\ hs \in [Handlers -> Handler]
    BY <1>2, <1>11 DEF FinalizeRegister, At, TypeInv, TypeOK
  <2>2. Serves(x, r)
    BY <1>2, <2>1 DEF Serves
  <2>. QED
    BY <1>1, <1>2, <2>2, ServesKept, DoneResult
<1>12. \/ CleanDone(h) \/ OfferInsert(h) \/ SliceMark(h) \/ SliceSave(h) \/ FinalizeTake(h)
       \/ FinalizeRegister(h)
  <2>1. hs \in [Handlers -> Handler] /\ hs[h].step # "free"
    BY <1>2 DEF TypeInv, TypeOK, WaitInv
  <2>2. ~ \E s \in Steps : s # "free" /\ Goto(h, s)
    BY <1>3, <1>4, <2>1 DEF Goto, Handler
  <2>3. ~ OfferLock(h)
    <3>1. ASSUME NEW after, NEW have, CleanThen(h, after, have) PROVE FALSE
      <4>1. hs'[h].step = "o_clean"
        BY <2>1, <3>1 DEF CleanThen, Handler
      <4>. QED
        BY <1>3, <1>4, <4>1
    <3>. QED
      BY <3>1 DEF OfferLock
  <2>4. ~ OfferProbe(h)
    <3>1. ~ \E b : hs' = [hs EXCEPT ![h].step = "o_insert", ![h].bits = b]
      BY <1>3, <1>4, <2>1 DEF Handler
    <3>. QED
      BY <2>2, <3>1 DEF OfferProbe, Steps
  <2>5. ASSUME NEW e \in Ids, CleanPart(h, e) \/ CleanSidecar(h, e) PROVE FALSE
    BY <1>3, <1>4, <2>1, <2>5 DEF CleanPart, CleanSidecar, At, Handler
  <2>6. ~ (OfferCreate(h) \/ OfferSave(h) \/ FinalizeUnlink(h) \/ SliceWrite(h) \/ FinalizeRename(h))
    BY <2>2 DEF OfferCreate, OfferSave, FinalizeUnlink, SliceWrite, FinalizeRename, Steps
  <2>7. ~ FinalizeHash(h)
    BY <2>2 DEF FinalizeHash, Steps
  <2>8. ~ FinalizeDrop(h)
    BY <1>2 DEF FinalizeDrop, AnswerInv, At
  <2>. QED
    BY <2>3, <2>4, <2>5, <2>6, <2>7, <2>8 DEF HandlerStep
<1>. QED
  BY <1>6, <1>7, <1>8, <1>9, <1>10, <1>11, <1>12

\* Any step keeps what the uploader was told.
LEMMA ResultStep == ASSUME Quiet, [Next]_vars PROVE ResultInv'
<1>1. ResultInv /\ up \in Upload /\ (up.at # "idle" => up.id \in Ids)
  BY DEF Quiet, UploadInv, TypeInv, UploadType
<1>2. CASE up'.at \notin {"sending", "ok"}
  BY <1>2 DEF ResultInv
<1>3. ASSUME up'.at = up.at, up'.id = up.id, up'.root = up.root, up'.todo = up.todo PROVE ResultInv'
  <2>1. PICK x, r, todo : x = up.id /\ r = up.root /\ todo = up.todo
    OBVIOUS
  <2>2. CASE up.at = "sending"
    BY <1>1, <1>3, <2>1, <2>2, HoldsKept DEF ResultInv
  <2>3. CASE up.at = "ok"
    BY <1>1, <1>3, <2>1, <2>3, ServesKept DEF ResultInv
  <2>. QED
    BY <1>2, <1>3, <2>2, <2>3
<1>4. CASE Failed
  BY <1>1, <1>2, <1>4 DEF Failed, Upload
<1>5. ASSUME NEW h \in Handlers, HandlerStep(h), Next PROVE ResultInv'
  <2>1. CASE up' = up
    BY <1>3, <2>1
  <2>2. CASE Refuse(h)
    BY <1>4, <2>1, <2>2 DEF Refuse
  <2>3. CASE (\E b : Done(h, b)) /\ ~ Refuse(h)
    <3>1. CASE up.h = h
      BY <1>5, <2>3, <3>1, AcknowledgedResult
    <3>. QED
      BY <2>1, <2>3, <3>1 DEF Done
  <2>. QED
    BY <1>5, <2>1, <2>2, <2>3, HandlerAdvances
<1>6. CASE Uploader
  <2>1. ASSUME NEW h \in Handlers, NEW x, NEW r,
               up' = [at |-> "asking", id |-> x, root |-> r, todo |-> {}, h |-> h]
        PROVE  ResultInv'
    BY <1>2, <2>1
  <2>2. ASSUME NEW h \in Handlers, up' = [up EXCEPT !.h = h] PROVE ResultInv'
    BY <1>1, <1>3, <2>2 DEF Upload
  <2>3. ASSUME UNCHANGED registry, NEW x \in Ids, NEW r \in Roots, registry[x] # None,
               up' = [at |-> IF registry[x].root = r THEN "ok" ELSE "failed", id |-> x, root |-> r,
                      todo |-> {}, h |-> None]
        PROVE  ResultInv'
    <3>1. up'.id = x /\ up'.root = r /\ (up'.at = "ok" => registry[x].root = r) /\ up'.at # "sending"
      BY <2>3
    <3>. QED
      BY <2>3, <3>1 DEF ResultInv, Serves
  <2>4. ASSUME up.at = "sending", pushes[up.id] = None, NEW todo, Told(todo) PROVE ResultInv'
    <3>1. PICK x, r : x = up.id /\ r = up.root
      OBVIOUS
    <3>2. Serves(x, r)
      BY <1>1, <2>4, <3>1 DEF ResultInv, Holds
    <3>3. Serves(x, r)'
      BY <1>1, <2>4, <3>1, <3>2, ServesKept
    <3>4. up'.id = x /\ up'.root = r
      BY <1>1, <2>4, <3>1 DEF Told, Upload
    <3>. QED
      BY <3>3, <3>4 DEF ResultInv, Holds
  <2>. QED
    BY <1>4, <1>6, <2>1, <2>2, <2>3, <2>4, UploaderMoves
<1>7. CASE up' = up
  BY <1>3, <1>7
<1>. QED
  BY <1>5, <1>6, <1>7, CalmNext DEF vars, Arrival, SliceRefused

\* Any step keeps an id calm.
LEMMA CalmIdStep == ASSUME Quiet, [Next]_vars, NEW x \in Ids PROVE CalmId(x)'
<1>1. pushes'[x] # None => ~ pushes'[x].idle
  BY GrowStep DEF Awake
<1>2. registry'[x] # None => registry'[x].spooled
  <2>1. CASE registry'[x] = registry[x]
    BY <2>1 DEF Quiet, UploadInv, CalmId
  <2>2. ASSUME NEW h \in Handlers, FinalizeRegister(h) PROVE registry'[x] # registry[x] => registry'[x].spooled
    <3>1. \/ registry' = registry
          \/ registry' = [registry EXCEPT ![hs[h].id] = [root |-> hs[h].root, spooled |-> TRUE]]
      BY <2>2 DEF FinalizeRegister
    <3>. QED
      BY <3>1 DEF Quiet, TypeInv, TypeOK
  <2>3. ASSUME NEW h \in Handlers, HandlerStep(h) PROVE UNCHANGED registry \/ FinalizeRegister(h)
    BY <2>3 DEF HandlerStep, OfferLock, CleanDone, OfferProbe, OfferCreate, OfferSave, OfferInsert,
       SliceWrite, SliceMark, SliceSave, FinalizeTake, FinalizeRename, FinalizeUnlink, FinalizeHash,
       FinalizeDrop, CleanPart, CleanSidecar
  <2>. QED
    BY <2>1, <2>2, <2>3, CalmNext, OtherSteps DEF vars
<1>. QED
  BY <1>1, <1>2 DEF CalmId

\* Where it may not, the uploader is never called.
LEMMA IdleStep ==
  ASSUME TypeInv, [Next]_vars, ~ May("upload"), up.at = "idle" PROVE up'.at = "idle"
<1>1. up.h = None /\ None \notin Handlers
  BY MarkerAssumption DEF TypeInv, UploadType
<1>2. ASSUME NEW h \in Handlers, HandlerStep(h) PROVE up' = up
  <2>1. Refuse(h) \/ (\E b : Done(h, b)) => up' = up
    BY <1>1 DEF Refuse, Done
  <2>. QED
    BY <1>2, <2>1 DEF HandlerStep, OfferLock, CleanThen, CleanDone, OfferProbe, OfferCreate, OfferSave,
       OfferInsert, SliceWrite, SliceMark, SliceSave, FinalizeTake, FinalizeRename, FinalizeUnlink,
       FinalizeHash, FinalizeDrop, FinalizeRegister, CleanPart, CleanSidecar, Goto
<1>3. CASE Uploader
  BY <1>3 DEF Uploader, UploadOffer, UploadSlice, UploadStops
<1>4. CASE Application \/ Restart \/ \E h \in world.handlers : Arrival(h)
  BY <1>1, <1>4 DEF Application, Register, Unregister, GoIdle, SliceRefused, Restart, Arrival
<1>. QED
  BY <1>2, <1>3, <1>4, WorldType DEF Next, TypeInv, vars

\* All of it, for the worlds that an upload runs in and those without one.
ServedInv ==
  /\ Calm => UploadInv
  /\ ~ May("upload") => up.at = "idle"

\* run_upload, "a completed upload is registered and served by the receiver",
\* where the uploaders of an id take turns, no push goes idle, the receiver does
\* not restart and registers nothing else: an upload that returns Ok has its
\* content at its id, whatever lost replies, retries and other uploaders of the
\* id came before.
THEOREM UploadCorrect ==
  ASSUME \A w \in Worlds : "upload" \in w.may =>
           w.may \cap {"overlap", "timeout", "restart", "application"} = {}
  PROVE  Spec => UploadServed
<1> DEFINE Inv == TypeInv /\ (May("overlap") \/ SpoolInv) /\ ServedInv
<1>1. Init => ServedInv
  <2> SUFFICES ASSUME Init PROVE ServedInv
    OBVIOUS
  <2>1. UploadInv
    <3>1. \A x \in Ids : CalmId(x)
      BY DEF Init, CalmId
    <3>2. \A h \in Handlers : AnswerInv(h) /\ WaitInv(h)
      BY MarkerAssumption DEF Init, Free, Starting, AnswerInv, WaitInv, Sending, Finishing
    <3>3. ResultInv
      BY DEF Init, ResultInv
    <3>. QED
      BY <3>1, <3>2, <3>3 DEF UploadInv
  <2>. QED
    BY <2>1 DEF Init, ServedInv
<1>2. Inv /\ [Next]_vars => ServedInv'
  <2> SUFFICES ASSUME Inv, [Next]_vars PROVE ServedInv'
    OBVIOUS
  <2>1. world' = world
    BY DEF Next, vars
  <2>2. ASSUME Calm PROVE UploadInv'
    <3>1. Quiet
      BY <2>2 DEF Quiet, ServedInv, Calm
    <3>. QED
      BY <3>1, CalmIdStep, AnswerStep, WaitStep, ResultStep DEF UploadInv
  <2>3. Calm' => Calm
    BY <2>1 DEF Calm, May
  <2>4. ~ May("upload")' => up'.at = "idle"
    BY <2>1, IdleStep DEF ServedInv, May
  <2>. QED
    BY <2>2, <2>3, <2>4 DEF ServedInv
<1>3. Inv => (up.at = "ok" => Serves(up.id, up.root))
  <2> SUFFICES ASSUME Inv, up.at = "ok" PROVE Serves(up.id, up.root)
    OBVIOUS
  <2>1. world \in Worlds /\ May("upload")
    BY DEF TypeInv, TypeOK, ServedInv
  <2>2. Calm
    BY <2>1 DEF Calm, May
  <2>. QED
    BY <2>2 DEF ServedInv, UploadInv, ResultInv
<1>4. (up.at = "ok" => Serves(up.id, up.root))'
        => [up'.at = "ok" /\ up.at # "ok" => Serves(up.id, up.root)']_vars
  OBVIOUS
<1> HIDE DEF Inv
<1>5. Spec => []Inv
  BY <1>1, <1>2, SpoolAlways, PTL DEF Spec, Inv
<1>. QED
  BY <1>3, <1>4, <1>5, PTL DEF UploadServed
=============================================================================
