----------------------------- MODULE TreeStore -----------------------------
(***************************************************************************)
(* The content-addressed chunk store of zblob's tree tier and everything   *)
(* that works on it at the same time: tree downloads (tree.rs), the        *)
(* producer's build_tree and register (tree.rs), tags and the mark-and-    *)
(* sweep collection (gc.rs), and the store's own removal of rotten chunks  *)
(* (store.rs).                                                             *)
(*                                                                         *)
(* A chunk in the store is "good" (its bytes hash to its name), "rot" (the *)
(* file is there and looks like a raw frame, its content is damaged) or    *)
(* "absent".  The store calls are synchronous and take no common lock, so  *)
(* one action is one store call, one step on a tag file or one await.      *)
(* A snapshot without chunks never touches the store and is left out.      *)
(* Replies that are not accepted change nothing and are no steps.          *)
(***************************************************************************)
EXTENDS Naturals, FiniteSets

CONSTANTS
  Chunks,
  Snapshots,
  Needs,       \* Needs[s]: TreeIndex::needed_chunks
  Shards,      \* Shards[s]: the pieces of its encoded index, {} below the threshold
  TagNames,
  Downloads,   \* concurrent download_tree and fetch_file calls
  Kinds,       \* which of the two are made: a subset of {"tree", "file"}
  BatchSize,   \* TreeClientConfig::batch_size
  Flush,       \* FLUSH
  FetchConcurrency,
  VerifyOnRead,  \* downloads whose store handle is DirStore::with_verify_on_read
  MaxRot,      \* bound: chunks that rot in a behaviour
  Faults,      \* what else happens, a subset of FaultKinds
  None

\* "late": downloads begin while a sweep is past its mark phase, and snapshots are
\* built during a sweep; "abandon": a call is dropped or fails; "cancel": its token fires;
\* "silent": no holder has the chunk of a single query; "scrub": DirStore::scrub runs.
FaultKinds == {"late", "abandon", "cancel", "silent", "scrub"}

ASSUME StoreAssumption ==
  /\ Needs \in [Snapshots -> SUBSET Chunks \ {{}}]
  /\ Shards \in [Snapshots -> SUBSET Chunks]
  /\ IsFiniteSet(Chunks)
  /\ BatchSize \in Nat /\ Flush \in Nat \ {0} /\ FetchConcurrency \in Nat \ {0}
  /\ MaxRot \in Nat /\ VerifyOnRead \subseteq Downloads
  /\ Kinds \subseteq {"tree", "file"} /\ Faults \subseteq FaultKinds
  /\ None \notin Snapshots /\ None \notin Chunks

VARIABLES
  store,       \* chunk -> "good", "rot" or "absent"
  scrub,       \* the running scrub
  loose,       \* puts of ended calls, still running on the blocking pool
  rotted,      \* how many chunks rotted so far
  dl,          \* the download calls
  bd,          \* the producer: build_tree, then TreeServer::register
  registered,  \* TreeInner::index
  tags,        \* the tag directory
  sw,          \* the running sweep
  fresh        \* history: tags written since that sweep began
vars == <<store, scrub, loose, rotted, dl, bd, registered, tags, sw, fresh>>

Steps == {"idle", "protect", "probe", "rounds", "batch", "flush", "last", "single", "read", "heal"}
\* The locals of a download: the wanted chunks; whether it holds a TempTag; the
\* chunks of the current pass it has not looked at (todo); those to fetch
\* (missing), asked for in this round (group), received and not stored
\* (pending), not answered by earlier rounds (left), asked for and being
\* stored one by one (asked, putting); what the call has read so far or how the
\* last one ended (res).
Results == {"good", "spoilt", "failed"}
Download == [pc : Steps, kind : Kinds \cup {None}, want : SUBSET Chunks, tag : BOOLEAN,
             cancelled : BOOLEAN, res : Results,
             todo : SUBSET Chunks, missing : SUBSET Chunks, group : SUBSET Chunks,
             pending : SUBSET Chunks, left : SUBSET Chunks, asked : SUBSET Chunks,
             putting : SUBSET Chunks]
Builder == [pc : {"idle", "has", "put", "insert"}, snap : Snapshots \cup {None},
            todo : SUBSET Chunks, cur : Chunks \cup {None}, sharding : BOOLEAN]
Sweep == [pc : {"idle", "tags", "list", "remove"}, names : SUBSET TagNames,
          extra : SUBSET Snapshots, live : SUBSET Chunks, todo : SUBSET Chunks]

Idle(res) == [pc |-> "idle", kind |-> None, want |-> {}, tag |-> FALSE,
             cancelled |-> FALSE, res |-> res,
             todo |-> {}, missing |-> {}, group |-> {}, pending |-> {}, left |-> {},
             asked |-> {}, putting |-> {}]
NoBuild == [pc |-> "idle", snap |-> None, todo |-> {}, cur |-> None, sharding |-> FALSE]
\* The hashes listed and not yet looked at, and the one judged corrupt.
Scrub == [todo : SUBSET Chunks, bad : Chunks \cup {None}]
NoScrub == [todo |-> {}, bad |-> None]
NoSweep == [pc |-> "idle", names |-> {}, extra |-> {}, live |-> {}, todo |-> {}]

TypeOK ==
  /\ store \in [Chunks -> {"good", "rot", "absent"}]
  /\ scrub \in Scrub
  /\ loose \subseteq Chunks
  /\ rotted \in 0..MaxRot
  /\ dl \in [Downloads -> Download]
  /\ bd \in Builder
  /\ registered \subseteq Snapshots
  /\ tags \in [TagNames -> Snapshots \cup {None}]
  /\ sw \in Sweep
  /\ fresh \subseteq TagNames

\* A store that already holds some chunks of earlier work.
Init ==
  /\ store \in [Chunks -> {"good", "absent"}]
  /\ scrub = NoScrub /\ loose = {} /\ rotted = 0
  /\ dl = [d \in Downloads |-> Idle("failed")]
  /\ bd = NoBuild /\ registered = {}
  /\ tags = [t \in TagNames |-> None]
  /\ sw = NoSweep /\ fresh = {}

----------------------------------------------------------------------------
(* The store. *)

\* has: a raw frame is recognised by its first byte, its content is not read.
Has(c) == store[c] # "absent"
Present == {c \in Chunks : Has(c)}
\* put: an atomic rename over whatever is there.
Put(c) == store' = [store EXCEPT ![c] = "good"]
Remove(c) == store' = [store EXCEPT ![c] = "absent"]

\* A put whose caller is gone still completes.
LoosePut(c) ==
  /\ c \in loose
  /\ Put(c) /\ loose' = loose \ {c}
  /\ UNCHANGED <<scrub, rotted, dl, bd, registered, tags, sw, fresh>>

Rot(c) ==
  /\ store[c] = "good" /\ rotted < MaxRot
  /\ store' = [store EXCEPT ![c] = "rot"] /\ rotted' = rotted + 1
  /\ UNCHANGED <<scrub, loose, dl, bd, registered, tags, sw, fresh>>

\* scrub: list the store, then read each chunk; one that cannot be read or does
\* not hash to its name is removed in a second step.
ScrubStart ==
  /\ "scrub" \in Faults /\ scrub = NoScrub
  /\ scrub' = [NoScrub EXCEPT !.todo = Present]
  /\ UNCHANGED <<store, loose, rotted, dl, bd, registered, tags, sw, fresh>>

ScrubRead(c) ==
  /\ scrub.bad = None /\ c \in scrub.todo
  /\ scrub' = [todo |-> scrub.todo \ {c}, bad |-> IF store[c] = "good" THEN None ELSE c]
  /\ UNCHANGED <<store, loose, rotted, dl, bd, registered, tags, sw, fresh>>

ScrubRemove ==
  /\ scrub.bad # None
  /\ Remove(scrub.bad) /\ scrub' = [scrub EXCEPT !.bad = None]
  /\ UNCHANGED <<loose, rotted, dl, bd, registered, tags, sw, fresh>>

----------------------------------------------------------------------------
(* Downloads: run_download_tree and fetch_file, fetch_missing and the reads *)
(* of reconstruct_tree.                                                     *)

Goes(d, r) == dl' = [dl EXCEPT ![d] = r]
Others == <<scrub, rotted, bd, registered, tags, sw, fresh>>

\* The call returns or is dropped.  Its TempTag is released; a closure already
\* running on the blocking pool goes on.
Running(d) == dl[d].putting \cup (IF dl[d].pc \in {"flush", "last"} THEN dl[d].pending ELSE {})
Ends(d, res) == Goes(d, Idle(res)) /\ loose' = loose \cup Running(d)

\* fetch_index_matching returned an index.  download_tree wants all its chunks,
\* fetch_file those of one file.
DlIndex(d, s, k) ==
  /\ dl[d].pc = "idle" /\ k \in Kinds
  /\ \E w \in SUBSET Needs[s] \ {{}} :
       /\ k = "tree" => w = Needs[s]
       /\ Goes(d, [Idle("good") EXCEPT !.kind = k, !.want = w, !.todo = w,
                                       !.pc = IF k = "tree" THEN "protect" ELSE "probe"])
  /\ UNCHANGED <<store, loose, Others>>

MarkDone == sw.pc \in {"list", "remove"}

\* Mutant of DlProtect: the TempTag is dropped on the line that takes it.
DlProtectDropped(d) ==
  /\ dl[d].pc = "protect"
  /\ "late" \in Faults \/ ~MarkDone
  /\ Goes(d, [dl[d] EXCEPT !.pc = "probe"])
  /\ UNCHANGED <<store, loose, Others>>

\* TempTags::protect over the needed chunks, before the first look at the store.
DlProtect(d) ==
  /\ dl[d].pc = "protect"
  /\ "late" \in Faults \/ ~MarkDone
  /\ Goes(d, [dl[d] EXCEPT !.pc = "probe", !.tag = TRUE])
  /\ UNCHANGED <<store, loose, Others>>

\* One `has` of has_many.
DlProbe(d, c) ==
  LET missing == IF Has(c) THEN dl[d].missing ELSE dl[d].missing \cup {c}
      last    == dl[d].todo = {c}
  IN /\ dl[d].pc = "probe" /\ c \in dl[d].todo
     /\ Goes(d, [dl[d] EXCEPT
          !.missing = missing,
          !.todo = IF last /\ missing = {} THEN dl[d].want ELSE dl[d].todo \ {c},
          !.pc = IF ~last THEN "probe"
                 ELSE IF missing = {} THEN "read"
                 ELSE IF BatchSize > 0 THEN "rounds" ELSE "single"])
     /\ UNCHANGED <<store, loose, Others>>

\* Mutant of DlRound: what the rounds left unanswered is not asked for again.
DlRoundNoFallback(d) ==
  /\ dl[d].pc = "rounds" /\ ~dl[d].cancelled
  /\ \/ \E g \in SUBSET dl[d].missing :
          /\ g # {}
          /\ Cardinality(g) = BatchSize \/ (g = dl[d].missing /\ Cardinality(g) < BatchSize)
          /\ Goes(d, [dl[d] EXCEPT !.pc = "batch", !.group = g, !.missing = dl[d].missing \ g])
     \/ /\ dl[d].missing = {}
        /\ Goes(d, [dl[d] EXCEPT !.pc = "single", !.left = {}])
  /\ UNCHANGED <<store, loose, Others>>

\* The head of the loop over groups, and what follows the loop: the unanswered
\* chunks go one by one.  A cancel ends the call at both places.
DlRound(d) ==
  /\ dl[d].pc = "rounds" /\ ~dl[d].cancelled
  /\ \/ \E g \in SUBSET dl[d].missing :
          /\ g # {}
          /\ Cardinality(g) = BatchSize \/ (g = dl[d].missing /\ Cardinality(g) < BatchSize)
          /\ Goes(d, [dl[d] EXCEPT !.pc = "batch", !.group = g, !.missing = dl[d].missing \ g])
     \/ /\ dl[d].missing = {}
        /\ Goes(d, [dl[d] EXCEPT !.pc = "single", !.missing = dl[d].left, !.left = {}])
  /\ UNCHANGED <<store, loose, Others>>

\* An accepted reply of the round; FLUSH of them are stored at once.
DlReply(d, c) ==
  LET pending == dl[d].pending \cup {c}
  IN /\ dl[d].pc = "batch" /\ ~dl[d].cancelled /\ c \in dl[d].group
     /\ Goes(d, [dl[d] EXCEPT !.group = dl[d].group \ {c}, !.pending = pending,
                              !.pc = IF Cardinality(pending) >= Flush THEN "flush" ELSE "batch"])
     /\ UNCHANGED <<store, loose, Others>>

GroupOver(r) == [r EXCEPT !.pc = "rounds", !.left = r.left \cup r.group, !.group = {}]

\* The stream of replies ended, or the token fired: store the rest, leave the loop.
DlRoundEnd(d) ==
  /\ dl[d].pc = "batch"
  /\ Goes(d, IF dl[d].pending = {} THEN GroupOver(dl[d]) ELSE [dl[d] EXCEPT !.pc = "last"])
  /\ UNCHANGED <<store, loose, Others>>

\* One put of a flush.
DlFlush(d, c) ==
  LET r == [dl[d] EXCEPT !.pending = dl[d].pending \ {c}]
  IN /\ dl[d].pc \in {"flush", "last"} /\ c \in dl[d].pending
     /\ Put(c)
     /\ Goes(d, IF r.pending # {} THEN r
                ELSE IF r.pc = "flush" THEN [r EXCEPT !.pc = "batch"] ELSE GroupOver(r))
     /\ UNCHANGED <<loose, Others>>

InFlight(d) == dl[d].asked \cup dl[d].putting

\* The per-chunk path: spawn, fetch_one_chunk returns, its put returns.
DlSpawn(d, c) ==
  /\ dl[d].pc = "single" /\ c \in dl[d].missing
  /\ Cardinality(InFlight(d)) < FetchConcurrency
  /\ Goes(d, [dl[d] EXCEPT !.missing = dl[d].missing \ {c}, !.asked = dl[d].asked \cup {c}])
  /\ UNCHANGED <<store, loose, Others>>

DlFetched(d, c) ==
  /\ dl[d].pc = "single" /\ c \in dl[d].asked
  /\ Goes(d, [dl[d] EXCEPT !.asked = dl[d].asked \ {c}, !.putting = dl[d].putting \cup {c}])
  /\ UNCHANGED <<store, loose, Others>>

DlPut(d, c) ==
  /\ dl[d].pc = "single" /\ c \in dl[d].putting
  /\ Put(c)
  /\ Goes(d, [dl[d] EXCEPT !.putting = dl[d].putting \ {c}])
  /\ UNCHANGED <<loose, Others>>

\* Nobody answered: the error ends the call and aborts the other tasks.
DlNotFound(d) ==
  /\ dl[d].pc = "single" /\ dl[d].asked # {} /\ "silent" \in Faults
  /\ Ends(d, "failed")
  /\ UNCHANGED <<store, Others>>

DlResolved(d) ==
  /\ dl[d].pc = "single" /\ dl[d].missing = {} /\ InFlight(d) = {}
  /\ Goes(d, [dl[d] EXCEPT !.pc = "read", !.todo = dl[d].want])
  /\ UNCHANGED <<store, loose, Others>>

\* What get hands back is accepted: reconstruct_tree hashes it again, fetch_file
\* checks its length only, which rot keeps.
Accepts(d, c) ==
  store[c] = "good" \/ (store[c] = "rot" /\ d \notin VerifyOnRead /\ dl[d].kind = "file")

\* One `get` of reconstruct_tree or of fetch_file's assembly and the checks of its
\* result.  A verifying get removes the rot it finds, in a second step.
DlRead(d, c) ==
  LET r == IF store[c] = "rot" THEN [dl[d] EXCEPT !.res = "spoilt"] ELSE dl[d]
      found == store[c] = "rot" /\ d \in VerifyOnRead
  IN /\ dl[d].pc = "read" /\ c \in dl[d].todo
     /\ \/ /\ Accepts(d, c)
           /\ IF dl[d].todo = {c} THEN Ends(d, r.res)
              ELSE Goes(d, [r EXCEPT !.todo = dl[d].todo \ {c}]) /\ UNCHANGED loose
        \/ /\ found
           /\ Goes(d, [dl[d] EXCEPT !.pc = "heal", !.todo = {c}]) /\ UNCHANGED loose
        \/ /\ ~Accepts(d, c) /\ ~found
           /\ Ends(d, "failed")
     /\ UNCHANGED <<store, Others>>

DlHeal(d, c) ==
  /\ dl[d].pc = "heal" /\ c \in dl[d].todo
  /\ Remove(c) /\ Ends(d, "failed")
  /\ UNCHANGED Others

Cancel(d) ==
  /\ "cancel" \in Faults /\ dl[d].pc # "idle" /\ ~dl[d].cancelled
  /\ Goes(d, [dl[d] EXCEPT !.cancelled = TRUE])
  /\ UNCHANGED <<store, loose, Others>>

\* Mutant of DlCancelled: the drain loop returns without its last flush.
DlCancelledAtOnce(d) ==
  /\ dl[d].cancelled
  /\ dl[d].pc \in {"rounds", "batch"} \/ (dl[d].pc = "single" /\ InFlight(d) # {})
  /\ Ends(d, "failed")
  /\ UNCHANGED <<store, Others>>

\* The checks of the token that end the call.
DlCancelled(d) ==
  /\ dl[d].cancelled
  /\ dl[d].pc = "rounds" \/ (dl[d].pc = "single" /\ InFlight(d) # {})
  /\ Ends(d, "failed")
  /\ UNCHANGED <<store, Others>>

DlAbandon(d) ==
  /\ "abandon" \in Faults /\ dl[d].pc # "idle"
  /\ Ends(d, "failed")
  /\ UNCHANGED <<store, Others>>

----------------------------------------------------------------------------
(* The producer: build_tree (has, then put if absent, chunk by chunk) and   *)
(* register (the same for the pieces of the index, then the map).           *)

BuildStart(s) ==
  /\ bd.pc = "idle" /\ ("late" \in Faults \/ sw.pc = "idle")
  /\ bd' = [NoBuild EXCEPT !.pc = "has", !.snap = s, !.todo = Needs[s]]
  /\ UNCHANGED <<store, scrub, loose, rotted, dl, registered, tags, sw, fresh>>

\* Chunk c is in place: go on with the rest, then the index, then the map.
Built(c) ==
  LET todo == bd.todo \ {c}
  IN IF todo # {} THEN [bd EXCEPT !.pc = "has", !.todo = todo, !.cur = None]
     ELSE IF ~bd.sharding /\ Shards[bd.snap] # {}
     THEN [bd EXCEPT !.pc = "has", !.todo = Shards[bd.snap], !.cur = None, !.sharding = TRUE]
     ELSE [bd EXCEPT !.pc = "insert", !.todo = {}, !.cur = None]

BuildHas(c) ==
  /\ bd.pc = "has" /\ c \in bd.todo
  /\ bd' = IF Has(c) THEN Built(c) ELSE [bd EXCEPT !.pc = "put", !.cur = c]
  /\ UNCHANGED <<store, scrub, loose, rotted, dl, registered, tags, sw, fresh>>

BuildPut ==
  /\ bd.pc = "put"
  /\ Put(bd.cur) /\ bd' = Built(bd.cur)
  /\ UNCHANGED <<scrub, loose, rotted, dl, registered, tags, sw, fresh>>

\* Mutant of Register: the record is reset before it is inserted.
RegisterAfterReset ==
  /\ bd.pc = "insert"
  /\ bd' = NoBuild /\ registered' = registered \cup {bd'.snap}
  /\ UNCHANGED <<store, scrub, loose, rotted, dl, tags, sw, fresh>>

Register ==
  /\ bd.pc = "insert"
  /\ registered' = registered \cup {bd.snap} /\ bd' = NoBuild
  /\ UNCHANGED <<store, scrub, loose, rotted, dl, tags, sw, fresh>>

BuildFail ==
  /\ "abandon" \in Faults /\ bd.pc # "idle"
  /\ bd' = NoBuild
  /\ UNCHANGED <<store, scrub, loose, rotted, dl, registered, tags, sw, fresh>>

Unregister(s) ==
  /\ s \in registered
  /\ registered' = registered \ {s}
  /\ UNCHANGED <<store, scrub, loose, rotted, dl, bd, tags, sw, fresh>>

----------------------------------------------------------------------------
(* Tags and the sweep. *)

TagSet(t, s) ==
  /\ tags[t] # s
  /\ tags' = [tags EXCEPT ![t] = s] /\ fresh' = fresh \cup {t}
  /\ UNCHANGED <<store, scrub, loose, rotted, dl, bd, registered, sw>>

TagRemove(t) ==
  /\ tags[t] # None
  /\ tags' = [tags EXCEPT ![t] = None] /\ fresh' = fresh \cup {t}
  /\ UNCHANGED <<store, scrub, loose, rotted, dl, bd, registered, sw>>

\* The call: the extra roots are its argument, the tag directory is listed.
SweepStart ==
  /\ sw.pc = "idle" /\ ("late" \in Faults \/ bd.pc = "idle")
  /\ sw' = [NoSweep EXCEPT !.pc = "tags", !.extra = registered,
                           !.names = {t \in TagNames : tags[t] # None}]
  /\ fresh' = {}
  /\ UNCHANGED <<store, scrub, loose, rotted, dl, bd, registered, tags>>

\* SnapshotTags::get of one listed name, if it is still there.
SweepTag(t) ==
  /\ sw.pc = "tags" /\ t \in sw.names
  /\ sw' = [sw EXCEPT !.names = sw.names \ {t},
                      !.live = IF tags[t] = None THEN sw.live ELSE sw.live \cup Needs[tags[t]]]
  /\ UNCHANGED <<store, scrub, loose, rotted, dl, bd, registered, tags, fresh>>

\* TempTags::live_set, then the extra roots.
TempLive == UNION {dl[d].want : d \in {e \in Downloads : dl[e].tag}}
\* Mutants of SweepTemps: the extra roots are forgotten; the live set is replaced
\* where it should be extended.
SweepTempsOnly ==
  /\ sw.pc = "tags" /\ sw.names = {}
  /\ sw' = [sw EXCEPT !.pc = "list", !.live = sw.live \cup TempLive]
  /\ UNCHANGED <<store, scrub, loose, rotted, dl, bd, registered, tags, fresh>>
SweepTempsReplaces ==
  /\ sw.pc = "tags" /\ sw.names = {}
  /\ sw' = [sw EXCEPT !.pc = "list", !.live = TempLive \cup UNION {Needs[s] : s \in sw.extra}]
  /\ UNCHANGED <<store, scrub, loose, rotted, dl, bd, registered, tags, fresh>>

SweepTemps ==
  /\ sw.pc = "tags" /\ sw.names = {}
  /\ sw' = [sw EXCEPT !.pc = "list",
                      !.live = sw.live \cup TempLive \cup UNION {Needs[s] : s \in sw.extra}]
  /\ UNCHANGED <<store, scrub, loose, rotted, dl, bd, registered, tags, fresh>>

\* store.hashes() is collected before the first removal.
SweepList ==
  /\ sw.pc = "list"
  /\ sw' = IF Present = {} THEN NoSweep ELSE [sw EXCEPT !.pc = "remove", !.todo = Present]
  /\ UNCHANGED <<store, scrub, loose, rotted, dl, bd, registered, tags, fresh>>

SweepChunk(c) ==
  /\ sw.pc = "remove" /\ c \in sw.todo
  /\ IF c \in sw.live THEN UNCHANGED store ELSE Remove(c)
  /\ sw' = IF sw.todo = {c} THEN NoSweep ELSE [sw EXCEPT !.todo = sw.todo \ {c}]
  /\ UNCHANGED <<scrub, loose, rotted, dl, bd, registered, tags, fresh>>

\* An I/O error of a tag or of the store ends the sweep.
SweepFail ==
  /\ "abandon" \in Faults /\ sw.pc # "idle"
  /\ sw' = NoSweep
  /\ UNCHANGED <<store, scrub, loose, rotted, dl, bd, registered, tags, fresh>>

----------------------------------------------------------------------------
DlStep(d) ==
  \/ DlProtect(d) \/ DlRound(d) \/ DlRoundEnd(d) \/ DlResolved(d) \/ DlCancelled(d)
  \/ \E c \in Chunks : \/ DlProbe(d, c) \/ DlReply(d, c) \/ DlFlush(d, c) \/ DlSpawn(d, c)
                       \/ DlFetched(d, c) \/ DlPut(d, c) \/ DlRead(d, c) \/ DlHeal(d, c)
DlCall(d) == \E s \in Snapshots, k \in Kinds : DlIndex(d, s, k)
BuildStep == (\E c \in Chunks : BuildHas(c)) \/ BuildPut \/ Register
TagStep == \E t \in TagNames : TagRemove(t) \/ \E s \in Snapshots : TagSet(t, s)
SweepStep == \/ SweepTemps \/ SweepList
             \/ \E t \in TagNames : SweepTag(t)
             \/ \E c \in Chunks : SweepChunk(c)
ScrubStep == (\E c \in Chunks : ScrubRead(c)) \/ ScrubRemove
Environment == \/ \E c \in Chunks : LoosePut(c) \/ Rot(c)
               \/ \E d \in Downloads : Cancel(d) \/ DlAbandon(d) \/ DlNotFound(d)
               \/ BuildFail \/ SweepFail

Next ==
  \/ \E d \in Downloads : DlCall(d) \/ DlStep(d)
  \/ \E s \in Snapshots : BuildStart(s) \/ Unregister(s)
  \/ BuildStep \/ TagStep \/ SweepStart \/ SweepStep
  \/ ScrubStart \/ ScrubStep \/ Environment

Spec == Init /\ [][Next]_vars

\* Queries end by themselves or at their timeout, local I/O returns, the caller
\* of a download calls again, and where scrubbing is used it is done regularly.
Fairness ==
  /\ \A d \in Downloads : WF_vars(DlCall(d)) /\ WF_vars(DlStep(d))
  /\ WF_vars(ScrubStart) /\ WF_vars(ScrubStep)
FairSpec == Spec /\ Fairness

----------------------------------------------------------------------------
(* Properties. *)

\* The chunks a download still has to get into the store.
Unresolved(r) == r.missing \cup r.group \cup r.pending \cup r.left \cup r.asked \cup r.putting
                 \cup (IF r.pc \in {"protect", "probe"} THEN r.todo ELSE {})
Resolved(r) == r.want \ Unresolved(r)

\* What a download found in the store or put there stays until it has read it:
\* a collection in the middle of a download does not make it fail (TempTags,
\* gc.rs; run_download_tree, tree.rs).
ResolvedKept == \A d \in Downloads : Resolved(dl[d]) \subseteq Present

\* A sweep removes no chunk of a snapshot that a tag has named since the sweep
\* began, whatever is tagged, untagged, downloaded or built meanwhile.
SweepSpares ==
  [][\A c \in Chunks, t \in TagNames :
       SweepChunk(c) /\ t \notin fresh /\ tags[t] # None /\ c \in Needs[tags[t]]
         => store'[c] = store[c]]_vars

\* Every chunk of a snapshot the server serves is in the store: no index is
\* handed out whose content nobody has (register, build_tree, sweep's extra roots).
ServedWhole == \A s \in registered : Needs[s] \subseteq Present

\* So are the pieces of its index, which clients of a large snapshot need first.
ServedIndexWhole == \A s \in registered : Shards[s] \subseteq Present

\* A cancelled download keeps what it was sent: every reply accepted before the
\* call returned is in the store, or will be (the drain loop of fetch_missing).
CancelKeeps ==
  [][\A d \in Downloads : DlCancelled(d)
         => Resolved(dl[d]) \cup dl[d].pending \cup dl[d].putting
              \subseteq {c \in Chunks : store'[c] # "absent"} \cup loose']_vars

\* Calling again converges: once nothing sweeps any more, a caller that repeats
\* its download_tree or fetch_file gets the content of its snapshot, through
\* rotten chunks (removed by a verifying get or by scrub), whatever a fetch_file
\* handed over before, and holders that answer no batch.
Converges == <>[](sw.pc = "idle") => \A d \in Downloads : []<>(dl[d].pc = "idle" /\ dl[d].res = "good")

=============================================================================
