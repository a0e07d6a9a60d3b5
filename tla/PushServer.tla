----------------------------- MODULE PushServer -----------------------------
(***************************************************************************)
(* The receiving side of an upload in zblob: the push handlers of          *)
(* BlobServer (server.rs), which run concurrently, one task per query.     *)
(*                                                                         *)
(* The handlers share the map of pushes in progress (a mutex), the         *)
(* registry of served blobs (a read-write lock) and the spool directory    *)
(* (<id>.part, its sidecar, <id>.blob), and hold no lock while they do     *)
(* file I/O, verify or hash.  One action is one critical section or one    *)
(* await.  A file's chunk i holds a root r ("the verified bytes of chunk   *)
(* i of the blob with root r") or Junk (the zeros of a fresh part).        *)
(* Offers of a bad manifest or refused by the policy, and slices that do   *)
(* not verify, change nothing but last_activity.                           *)
(*                                                                         *)
(* One of the uploaders is modelled whole (run_upload of client.rs: the    *)
(* offer, then one acknowledged query per wanted chunk); the queries of    *)
(* all others arrive in any order.                                         *)
(***************************************************************************)
EXTENDS Naturals, FiniteSets

CONSTANTS
  Ids,        \* blob ids that uploaders push to
  Roots,      \* contents they push
  N,          \* number of transfer chunks
  Cap,        \* PushConfig::max_concurrent
  SaveEvery,  \* slices between two saves of the sidecar (16 in the code)
  Handlers,   \* concurrent handlers (the permits of Inner::inflight)
  Worlds,     \* the environments a behaviour may run in
  Junk, None

\* What an environment may do.  "overlap": the handling of an offer overlaps
\* with that of other queries for its id, or evicts an id that other handlers
\* work on (without it, uploaders of an id take turns, and slices of one offer
\* may still race each other); "timeout": pushes go idle; "restart": the
\* process stops and starts again, but not between the truncation of a part
\* and the save of its fresh sidecar; "application": it registers and
\* unregisters ids itself; "upload": the modelled uploader is at work.
FaultKinds == {"overlap", "timeout", "restart", "application", "upload"}
World == [ids : SUBSET Ids, roots : SUBSET Roots, handlers : SUBSET Handlers,
          may : SUBSET FaultKinds]

Chunks  == 0..(N-1)
Content == [Chunks -> Roots \cup {Junk}]
Sidecar == [root : Roots, bits : SUBSET Chunks]
\* PushEntry; idle: last_activity is further back than idle_timeout.
Entry   == [root : Roots, bits : SUBSET Chunks, dirty : Nat, idle : BOOLEAN]
\* Registered; spooled: its source is the <id>.blob of the spool directory.
Serving == [root : Roots, spooled : BOOLEAN]

Steps == {"free", "o_lock", "o_clean", "o_probe", "o_create", "o_save", "o_insert",
          "s_write", "s_mark", "s_save",
          "refuse", "f_take", "f_rename", "f_unlink", "f_hash", "f_mismatch", "f_register", "f_lose",
          "f_denied"}
\* The locals of a handler: the manifest's root, the slice's chunk, a cloned
\* state, the ids it evicted and must clean up, where it goes after that.
Handler == [step : Steps, id : Ids \cup {None}, root : Roots \cup {None}, chunk : Nat,
            bits : SUBSET Chunks, evicted : SUBSET Ids, next : Steps]

\* The locals of run_upload: the chunks still to send, the handler that works
\* on the query it waits for.
Upload == [at : {"idle", "asking", "sending", "ok", "failed"}, id : Ids \cup {None},
           root : Roots \cup {None}, todo : SUBSET Chunks, h : Handlers \cup {None}]

ASSUME SizeAssumption ==
  N \in Nat /\ Cap \in Nat \ {0} /\ SaveEvery \in Nat \ {0} /\ Worlds \subseteq World
ASSUME MarkerAssumption ==
  /\ Junk \notin Roots /\ None \notin Ids /\ None \notin Roots /\ None \notin Handlers
  /\ None \notin Content /\ None \notin Sidecar /\ None \notin Entry /\ None \notin Serving

VARIABLES
  pushes,     \* Inner::pushes
  registry,   \* Inner::registry
  part, side, blob,   \* the spool directory
  hs,         \* the handlers
  up,         \* the modelled uploader
  world       \* the environment, chosen once

spool == <<part, side, blob>>
vars  == <<pushes, registry, spool, hs, up, world>>

\* The locals a handler starts a step with.
Starting(s, x, r, i) ==
  [step |-> s, id |-> x, root |-> r, chunk |-> i, bits |-> {}, evicted |-> {}, next |-> "free"]
Free == Starting("free", None, None, 0)

Init ==
  /\ pushes = [x \in Ids |-> None] /\ registry = [x \in Ids |-> None]
  /\ part = [x \in Ids |-> None] /\ side = [x \in Ids |-> None] /\ blob = [x \in Ids |-> None]
  /\ hs = [h \in Handlers |-> Free]
  /\ up = [at |-> "idle", id |-> None, root |-> None, todo |-> {}, h |-> None]
  /\ world \in Worlds

May(f)     == f \in world.may
At(h, s)   == hs[h].step = s
Goto(h, s) == hs' = [hs EXCEPT ![h].step = s] /\ up' = up
InFlight   == {x \in Ids : pushes[x] # None}
Missing(b) == Chunks \ b

\* The loops of run_upload over the replies to its offer and to a slice: the
\* chunks left to send after an acknowledgement, and a refusal.
Told(todo) == up' = [up EXCEPT !.at = IF todo = {} THEN "ok" ELSE "sending",
                                !.todo = todo, !.h = None]
Failed     == up' = [up EXCEPT !.at = "failed", !.h = None]

\* The handler answers its query and ends: it acknowledges an offer (with the
\* chunks that bits lacks) or a slice, or it replies with an error.
Done(h, bits) ==
  /\ hs' = [hs EXCEPT ![h] = Free]
  /\ IF up.h # h THEN up' = up
     ELSE Told(IF up.at = "asking" THEN Missing(bits) ELSE up.todo \ {hs[h].chunk})
Refuse(h) ==
  /\ hs' = [hs EXCEPT ![h] = Free]
  /\ IF up.h # h THEN up' = up ELSE Failed

Offering(x) == \E h \in Handlers : hs[h].id = x /\ hs[h].step \in
                 {"o_lock", "o_clean", "o_probe", "o_create", "o_save", "o_insert"}
\* Some handler still works on x, or owes it a cleanup.
Busy(x) == \E h \in Handlers : hs[h].id = x \/ x \in hs[h].evicted

-----------------------------------------------------------------------------
(* push_offer_inner *)

OfferUnchecked(h, x, r) ==
  /\ At(h, "free") /\ (Busy(x) => May("overlap"))
  /\ hs' = [hs EXCEPT ![h] = Starting("o_lock", x, r, 0)]
  /\ UNCHANGED <<pushes, registry, spool>>

\* The manifest passed validation and policy; the registry is read.  A
\* registered id ends the offer, acknowledged or refused.
Offer(h, x, r) ==
  /\ At(h, "free") /\ (Busy(x) => May("overlap"))
  /\ registry[x] = None
  /\ hs' = [hs EXCEPT ![h] = Starting("o_lock", x, r, 0)]
  /\ UNCHANGED <<pushes, registry, spool>>

KeptAll(evicted) == pushes
\* pushes.retain
Kept(evicted)    == [y \in Ids |-> IF y \in evicted THEN None ELSE pushes[y]]

\* Evicted when the lock is held: the pushes that went idle.
Stale == {y \in InFlight : pushes[y].idle}

\* What was evicted is cleaned up with the lock released, then comes `after`.
CleanThen(h, after, have) ==
  /\ hs' = [hs EXCEPT ![h].step = "o_clean", ![h].evicted = Stale, ![h].next = after,
                      ![h].bits = have]
  /\ up' = up

\* The fast path, under the lock: evict idle pushes, resume the one in
\* progress, refuse a conflicting one (leaving what was evicted uncleaned),
\* refuse over the cap.
OfferLock(h) ==
  LET x    == hs[h].id
      kept == Kept(Stale)
      over == Cardinality(InFlight \ Stale) >= Cap
  IN  /\ At(h, "o_lock")
      /\ (\E g \in Handlers \ {h} : hs[g].id \in Stale) => May("overlap")
      /\ \/ /\ kept[x] # None /\ kept[x].root # hs[h].root
            /\ pushes' = kept /\ Refuse(h)
         \/ /\ kept[x] # None /\ kept[x].root = hs[h].root
            /\ pushes' = [kept EXCEPT ![x].idle = FALSE]
            /\ CleanThen(h, IF Missing(kept[x].bits) = {} THEN "f_take" ELSE "free", kept[x].bits)
         \/ /\ kept[x] = None /\ over /\ pushes' = kept /\ CleanThen(h, "refuse", {})
         \/ /\ kept[x] = None /\ ~over /\ pushes' = kept /\ CleanThen(h, "o_probe", {})
      /\ UNCHANGED <<registry, spool>>

\* cleanup_spool, with no lock held; a part and its sidecar are two removals.
CleanPart(h, y) ==
  /\ At(h, "o_clean") /\ y \in hs[h].evicted /\ part[y] # None
  /\ part' = [part EXCEPT ![y] = None]
  /\ UNCHANGED <<pushes, registry, side, blob, hs, up>>

CleanSidecar(h, y) ==
  /\ At(h, "o_clean") /\ y \in hs[h].evicted /\ part[y] = None
  /\ side' = [side EXCEPT ![y] = None]
  /\ hs' = [hs EXCEPT ![h].evicted = @ \ {y}]
  /\ UNCHANGED <<pushes, registry, part, blob, up>>

CleanDone(h) ==
  /\ At(h, "o_clean") /\ hs[h].evicted = {}
  /\ CASE hs[h].next = "free"   -> Done(h, hs[h].bits)
       [] hs[h].next = "refuse" -> Refuse(h)
       [] OTHER                 -> Goto(h, hs[h].next)
  /\ UNCHANGED <<pushes, registry, spool>>

\* ResumeState::matches, and a part of the right length.
Resumable(h) ==
  LET x == hs[h].id IN part[x] # None /\ side[x] # None /\ side[x].root = hs[h].root

OfferProbe(h) ==
  /\ At(h, "o_probe")
  /\ IF Resumable(h)
       THEN hs' = [hs EXCEPT ![h].step = "o_insert", ![h].bits = side[hs[h].id].bits]
            /\ up' = up
       ELSE Goto(h, "o_create")
  /\ UNCHANGED <<pushes, registry, spool>>

\* File::create truncates whatever is there; set_len.
OfferCreate(h) ==
  /\ At(h, "o_create") /\ Goto(h, "o_save")
  /\ part' = [part EXCEPT ![hs[h].id] = [i \in Chunks |-> Junk]]
  /\ UNCHANGED <<pushes, registry, side, blob>>

OfferSave(h) ==
  /\ At(h, "o_save") /\ Goto(h, "o_insert")
  /\ side' = [side EXCEPT ![hs[h].id] = [root |-> hs[h].root, bits |-> {}]]
  /\ UNCHANGED <<pushes, registry, part, blob>>

OfferInsertUncapped(h) ==
  /\ At(h, "o_insert") /\ pushes[hs[h].id] = None
  /\ pushes' = [pushes EXCEPT ![hs[h].id] =
                  [root |-> hs[h].root, bits |-> hs[h].bits, dirty |-> 0, idle |-> FALSE]]
  /\ IF Missing(hs[h].bits) = {} THEN Goto(h, "f_take") ELSE Done(h, hs[h].bits)
  /\ UNCHANGED <<registry, spool>>

\* Under the lock again: the cap once more, and the entry that is there wins.
OfferInsert(h) ==
  LET x == hs[h].id
      e == IF pushes[x] # None THEN pushes[x]
           ELSE [root |-> hs[h].root, bits |-> hs[h].bits, dirty |-> 0, idle |-> FALSE]
  IN  /\ At(h, "o_insert")
      /\ \/ /\ pushes[x] = None /\ Cardinality(InFlight) >= Cap
            /\ Refuse(h) /\ pushes' = pushes
         \/ /\ pushes[x] # None \/ Cardinality(InFlight) < Cap
            /\ pushes' = [pushes EXCEPT ![x] = e]
            /\ IF Missing(e.bits) # {} THEN Done(h, e.bits)
               ELSE hs' = [hs EXCEPT ![h].step = "f_take", ![h].bits = e.bits] /\ up' = up
      /\ UNCHANGED <<registry, spool>>

-----------------------------------------------------------------------------
(* push_slice_inner *)

SliceOffByOne(h, x, i) ==
  /\ At(h, "free") /\ (Offering(x) => May("overlap"))
  /\ pushes[x] # None
  /\ pushes' = [pushes EXCEPT ![x].idle = FALSE]
  /\ hs' = [hs EXCEPT ![h] = Starting("s_write", x, pushes[x].root, i + 1)]
  /\ UNCHANGED <<registry, spool>>

\* The first lock: with no entry the slice is acknowledged (id registered) or
\* refused; else the handler works from a snapshot of the entry.
Slice(h, x, i) ==
  /\ At(h, "free") /\ (Offering(x) => May("overlap"))
  /\ pushes[x] # None
  /\ pushes' = [pushes EXCEPT ![x].idle = FALSE]
  /\ hs' = [hs EXCEPT ![h] = Starting(IF i \in pushes[x].bits THEN "s_mark" ELSE "s_write",
                                       x, pushes[x].root, i)]
  /\ UNCHANGED <<registry, spool>>

\* Denied by policy, out of range or not verifiable: only last_activity moves.
SliceRefused(x) ==
  /\ pushes[x] # None /\ pushes[x].idle
  /\ pushes' = [pushes EXCEPT ![x].idle = FALSE]
  /\ UNCHANGED <<registry, spool, hs, up>>

\* The verified leaves reach the part (opened, never created) and are synced.
SliceWrite(h) ==
  LET x == hs[h].id
  IN  /\ At(h, "s_write")
      /\ \/ part[x] = None /\ Refuse(h) /\ part' = part
         \/ /\ part[x] # None /\ Goto(h, "s_mark")
            /\ part' = [part EXCEPT ![x][hs[h].chunk] = hs[h].root]
      /\ UNCHANGED <<pushes, registry, side, blob>>

\* The second lock: mark the bit in whatever entry is there now.
SliceMark(h) ==
  LET x == hs[h].id
      e == pushes[x]
      b == e.bits \cup {hs[h].chunk}
      d == IF hs[h].chunk \in e.bits THEN e.dirty ELSE e.dirty + 1
      full == Missing(b) = {}
  IN  /\ At(h, "s_mark")
      /\ \/ /\ e = None   \* "Finalized concurrently while we were writing."
            /\ pushes' = pushes /\ Done(h, {})
         \/ /\ e # None /\ (full \/ d >= SaveEvery)
            /\ pushes' = [pushes EXCEPT ![x].bits = b, ![x].dirty = 0]
            /\ hs' = [hs EXCEPT ![h].step = "s_save", ![h].root = e.root, ![h].bits = b]
            /\ up' = up
         \/ /\ e # None /\ ~full /\ d < SaveEvery
            /\ pushes' = [pushes EXCEPT ![x].bits = b, ![x].dirty = d]
            /\ Done(h, b)
      /\ UNCHANGED <<registry, spool>>

SliceSaveOnly(h) ==
  /\ At(h, "s_save") /\ Done(h, hs[h].bits)
  /\ side' = [side EXCEPT ![hs[h].id] = [root |-> hs[h].root, bits |-> hs[h].bits]]
  /\ UNCHANGED <<pushes, registry, part, blob>>

\* The batched save; the slice that completes the push finalizes it before it
\* is acknowledged.
SliceSave(h) ==
  /\ At(h, "s_save")
  /\ side' = [side EXCEPT ![hs[h].id] = [root |-> hs[h].root, bits |-> hs[h].bits]]
  /\ IF Missing(hs[h].bits) = {} THEN Goto(h, "f_take") ELSE Done(h, hs[h].bits)
  /\ UNCHANGED <<pushes, registry, part, blob>>

-----------------------------------------------------------------------------
(* finalize_push *)

FinalizeTake(h) ==
  LET e == pushes[hs[h].id]
  IN  /\ At(h, "f_take")
      /\ \/ e = None /\ Done(h, hs[h].bits) /\ pushes' = pushes
         \/ /\ e # None /\ pushes' = [pushes EXCEPT ![hs[h].id] = None]
            /\ hs' = [hs EXCEPT ![h].step = "f_rename", ![h].root = e.root]
            /\ up' = up
      /\ UNCHANGED <<registry, spool>>

FinalizeRename(h) ==
  LET x == hs[h].id
  IN  /\ At(h, "f_rename")
      /\ \/ part[x] = None /\ Refuse(h) /\ UNCHANGED <<part, blob>>
         \/ /\ part[x] # None /\ Goto(h, "f_unlink")
            /\ blob' = [blob EXCEPT ![x] = part[x]] /\ part' = [part EXCEPT ![x] = None]
      /\ UNCHANGED <<pushes, registry, side>>

FinalizeUnlink(h) ==
  /\ At(h, "f_unlink") /\ Goto(h, "f_hash")
  /\ side' = [side EXCEPT ![hs[h].id] = None]
  /\ UNCHANGED <<pushes, registry, part, blob>>

Whole(c, r) == c # None /\ \A i \in Chunks : c[i] = r

FinalizeHash(h) ==
  LET c == blob[hs[h].id]
  IN  /\ At(h, "f_hash")
      /\ \/ c = None /\ Refuse(h)
         \/ c # None /\ Goto(h, IF Whole(c, hs[h].root) THEN "f_register" ELSE "f_mismatch")
      /\ UNCHANGED <<pushes, registry, spool>>

\* RootMismatch, and a push that lost to a registration (acknowledged if that
\* one has the same content): the blob is removed.
FinalizeDrop(h) ==
  /\ hs[h].step \in {"f_mismatch", "f_lose", "f_denied"}
  /\ blob' = [blob EXCEPT ![hs[h].id] = None]
  /\ IF At(h, "f_lose") THEN Done(h, hs[h].bits) ELSE Refuse(h)
  /\ UNCHANGED <<pushes, registry, part, side>>

FinalizeDisplace(h) ==
  /\ At(h, "f_register") /\ Done(h, hs[h].bits)
  /\ registry' = [registry EXCEPT ![hs[h].id] = [root |-> hs[h].root, spooled |-> TRUE]]
  /\ UNCHANGED <<pushes, spool>>

FinalizeRegister(h) ==
  LET x == hs[h].id
  IN  /\ At(h, "f_register")
      /\ \/ /\ registry[x] # None /\ registry' = registry
            /\ Goto(h, IF registry[x].root = hs[h].root THEN "f_lose" ELSE "f_denied")
         \/ /\ registry[x] = None /\ Done(h, hs[h].bits)
            /\ registry' = [registry EXCEPT ![x] = [root |-> hs[h].root, spooled |-> TRUE]]
      /\ UNCHANGED <<pushes, spool>>

-----------------------------------------------------------------------------
(* run_upload *)

\* The source is hashed and the manifest offered.  A registered id answers at
\* once: nothing is wanted (same content), or the offer is refused.
UploadOffer(h, x, r) ==
  /\ May("upload") /\ up.at \in {"idle", "ok", "failed"}
  /\ IF registry[x] = None
       THEN /\ Offer(h, x, r)
            /\ up' = [at |-> "asking", id |-> x, root |-> r, todo |-> {}, h |-> h]
       ELSE /\ up' = [at |-> IF registry[x].root = r THEN "ok" ELSE "failed",
                      id |-> x, root |-> r, todo |-> {}, h |-> None]
            /\ UNCHANGED <<pushes, registry, spool, hs>>

\* The wanted chunks in order, one query at a time.  A chunk the entry has is
\* not looked at; of any other the slice must verify against the entry's root.
\* With no entry, the slice may have raced a finalize: any content will do.
UploadSlice(h) ==
  LET x == up.id
      i == CHOOSE j \in up.todo : \A k \in up.todo : j <= k
  IN  /\ up.at = "sending" /\ up.h = None
      /\ \/ /\ pushes[x] # None /\ (i \in pushes[x].bits \/ pushes[x].root = up.root)
            /\ Slice(h, x, i) /\ up' = [up EXCEPT !.h = h]
         \/ /\ pushes[x] # None /\ i \notin pushes[x].bits /\ pushes[x].root # up.root
            /\ pushes' = [pushes EXCEPT ![x].idle = FALSE] /\ Failed
            /\ UNCHANGED <<registry, spool, hs>>
         \/ /\ pushes[x] = None
            /\ IF registry[x] # None THEN Told(up.todo \ {i}) ELSE Failed
            /\ UNCHANGED <<pushes, registry, spool, hs>>

\* Cancelled, the reply lost or later than query_timeout, or the source changed:
\* the call ends; a handler at work on its query goes on.
UploadStops ==
  /\ up.at \in {"asking", "sending"} /\ Failed
  /\ UNCHANGED <<pushes, registry, spool, hs>>

-----------------------------------------------------------------------------
(* The application and the environment *)

\* register_file / register_source with a source of the application's own.
Register(x, r) ==
  /\ May("application") /\ registry[x] = None
  /\ registry' = [registry EXCEPT ![x] = [root |-> r, spooled |-> FALSE]]
  /\ UNCHANGED <<pushes, spool, hs, up>>

\* unregister; the <id>.blob stays.
Unregister(x) ==
  /\ May("application") /\ registry[x] # None
  /\ registry' = [registry EXCEPT ![x] = None]
  /\ UNCHANGED <<pushes, spool, hs, up>>

\* More than idle_timeout without a query for x.
GoIdle(x) ==
  /\ May("timeout") /\ pushes[x] # None /\ ~pushes[x].idle
  /\ pushes' = [pushes EXCEPT ![x].idle = TRUE]
  /\ UNCHANGED <<registry, spool, hs, up>>

Restart ==
  /\ May("restart") /\ \A h \in Handlers : ~At(h, "o_save")
  /\ pushes' = [x \in Ids |-> None] /\ registry' = [x \in Ids |-> None]
  /\ hs' = [h \in Handlers |-> Free]
  /\ IF up.h # None THEN Failed ELSE up' = up
  /\ UNCHANGED spool

HandlerStep(h) ==
  \/ OfferLock(h) \/ CleanDone(h) \/ OfferProbe(h) \/ OfferCreate(h) \/ OfferSave(h)
  \/ OfferInsert(h) \/ SliceWrite(h) \/ SliceMark(h) \/ SliceSave(h)
  \/ FinalizeTake(h) \/ FinalizeRename(h) \/ FinalizeUnlink(h) \/ FinalizeHash(h)
  \/ FinalizeDrop(h) \/ FinalizeRegister(h)
  \/ \E y \in Ids : CleanPart(h, y) \/ CleanSidecar(h, y)

Arrival(h) ==
  /\ \/ \E x \in world.ids, r \in world.roots : Offer(h, x, r)
     \/ \E x \in world.ids, i \in Chunks : Slice(h, x, i)
  /\ up' = up

Uploader ==
  \/ \E h \in world.handlers :
       UploadSlice(h) \/ \E x \in world.ids, r \in world.roots : UploadOffer(h, x, r)
  \/ UploadStops

Application ==
  \E x \in world.ids :
    \/ \E r \in world.roots : Register(x, r)
    \/ Unregister(x) \/ GoIdle(x) \/ SliceRefused(x)

Next ==
  /\ (\E h \in world.handlers : HandlerStep(h) \/ Arrival(h)) \/ Uploader \/ Application \/ Restart
  /\ world' = world

Spec == Init /\ [][Next]_vars

-----------------------------------------------------------------------------
(* Properties *)

\* Shape of Inner, of the spool directory and of the locals of handlers and
\* uploader.
TypeOK ==
  /\ pushes \in [Ids -> Entry \cup {None}]
  /\ registry \in [Ids -> Serving \cup {None}]
  /\ part \in [Ids -> Content \cup {None}] /\ blob \in [Ids -> Content \cup {None}]
  /\ side \in [Ids -> Sidecar \cup {None}]
  /\ hs \in [Handlers -> Handler] /\ up \in Upload /\ world \in Worlds

\* PushConfig::max_concurrent: never more pushes in progress, although offers
\* set up their spool between two looks at the map.
CapHeld == Cardinality(InFlight) <= Cap

\* finalize_push "never displaces an existing registration": what an id serves
\* changes only through unregister (or a restart), however pushes, direct
\* registrations and retries interleave.
NeverDisplaced ==
  [][\A x \in Ids : registry[x] # None => registry'[x] \in {registry[x], None}]_vars

\* accept_push: where uploaders take turns, the <id>.blob of a pushed and
\* registered blob stays in the spool directory, whole, as its backing store.
BackingIntact ==
  May("overlap") \/ \A x \in Ids :
    registry[x] # None /\ registry[x].spooled => Whole(blob[x], registry[x].root)

\* push_slice_inner, "bits never lead the bytes": where uploaders take turns, a
\* chunk marked in a push is in its part, and so is a chunk of a sidecar that a
\* later offer may resume; the hash of the finished file in finalize_push
\* "cannot fail unless the spool was tampered with".
SpoolBacked ==
  May("overlap") \/ \A x \in Ids :
    /\ pushes[x] # None =>
         part[x] # None /\ \A i \in pushes[x].bits : part[x][i] = pushes[x].root
    /\ part[x] # None /\ side[x] # None /\ (\A h \in Handlers : hs[h].id = x => ~At(h, "o_save"))
         => \A i \in side[x].bits : part[x][i] = side[x].root
    /\ \A h \in Handlers : ~At(h, "f_mismatch")

\* Serves(x, r): registered, or on the way there in some finalize_push.
Serves(x, r) ==
  \/ registry[x] # None /\ registry[x].root = r
  \/ \E h \in Handlers : hs[h].id = x /\ hs[h].root = r
                         /\ hs[h].step \in {"f_rename", "f_unlink", "f_hash", "f_register"}

\* run_upload, "a completed upload is registered and served by the receiver":
\* an upload that returns Ok has its content at its id, whatever retries, lost
\* replies and other uploaders of the id came before.
UploadServed == [][up'.at = "ok" /\ up.at # "ok" => Serves(up.id, up.root)']_vars
=============================================================================
