# TLA+ models of zblob

zblob moves large blobs and directory trees between Zenoh peers. Every piece of
data is verified against a BLAKE3 root as it arrives, transfers resume from
sidecar files, and servers run many handlers at once. The verification lives in
the hashes; what the hashes do not protect is the *state* kept around them: the
sidecar and its part file over a crash, the spool directory and the registry
under concurrent handlers, the content store under a sweep, the directory a tree
is written into, and what peers conclude from each other's messages. That is what
these modules model.

## Inventory

| Part | State it keeps | Operations | What makes it correct |
|---|---|---|---|
| Download client (`client.rs`) | the `.part` file, the bitfield in memory, retry counters, the set of active destinations | `download_to`, striped and writer downloads, `delete_partial`, cancellation, upload, probes | the destination appears whole and only with verified bytes; work is kept; every call ends |
| Resume sidecar (`resume.rs`) | `.part.meta`: root, geometry, bits | `load`, `matches`, `mark`, `save_atomic`, `remove` | bits never lead durable data; no splice of two contents |
| Push receiver (`server.rs`) | map of pushes, registry, spool directory | offer, slice, finalize, evict, register, unregister | bits never lead bytes, cap held, registrations never displaced, backing files intact |
| Blob serving (`server.rs`) | registry, source fingerprints | manifest, have, ranges | serves only what the root proves |
| Tree server and client (`tree.rs`) | snapshots, chunk store, target directory | build, register, fetch, reconstruct | missing chunks are fetched once, nothing unverified is written, no escape from the target |
| Content store (`store.rs`) | chunk files | `has`, `get`, `put`, `remove`, `scrub` | a chunk read back hashes to its name |
| Garbage collection (`gc.rs`) | tag files, temporary tags | `set`, `remove`, `protect`, `sweep` | a sweep never removes what a tag or a running download needs |
| Store client (`store_client.rs`) | none of its own | `fetch_chunk`, `fetch_many`, `probe` | what is held is found and charged to its holder |
| Publisher (`publish.rs`) | puts on their way to storages | `publish` | an index is visible only after its chunks; Ok means the producer may exit |
| Seeding (`seed.rs`) | none of its own | `seed_store` | puts only what is missing |
| Fanout (`fanout.rs`) | publisher cache; receiver buffer, bitfield, part file | publish once, replay to late joiners, receive | like a download; joiners are served; nobody waits for ever |
| Wire, keys, manifest, ids, paths, chunking | none | parse, format, validate | grammar round trips, bounds |
| Verification, compression, encryption, progress, errors | none that others read | | taken as given |

How they interact: a client queries servers over Zenoh (replies may be lost,
duplicated, reordered, from several responders); an uploader is a client of the
push handlers; handlers share maps behind locks and files behind none; the tree
client writes a store that the sweep empties; striped downloads ask several
servers at once, whose files and registrations change under them.

The hard behaviours, listed line by line under `hazards` in `PROJECT.json`:
crashes between two file operations, state read under a lock and used after its
release, retries that overlap with what they retry, evictions, changes of the
served content between two calls, boundaries of budgets and batches.

## Modules

### Download

The life of one destination. `part`, `side` and `dest` are the three names in
the directory; `undo` holds the earlier directory states a crash may fall back
to, because an update of a directory is durable only after an fsync of it
(`save_atomic` does one, the final rename does not). A file is a pair of
functions: what a read returns (`data`) and what a crash may leave (`disk`).
A chunk holds a root (its verified bytes), `Junk` or `Gone` (past the end).

One action is one await of `download_to_inner` or `fill_holes`: `Call`, `Start`
(manifest), `ReadLen` and `LoadSidecar` (resume probe), `CreatePart`, `SetLen`,
`SaveFresh` (fresh start), `OpenPart`, `Round`, `RecvGood` and `MarkChunk` (a
verified reply), `RoundEnd`, `RecvCancelled`, `Commit` and `Persist` (every
sync-then-save, with `goal` telling what follows), `SyncData`, `LateCheck`,
`Rename`, `RemoveSidecar`. The environment crashes the machine (`Crash`), fails
or drops the call (`Abandon`), cancels, runs `delete_partial` in two steps,
creates the destination, and serves another root at the next `Start`. Which of
these happen is the constant `Faults`.

Abstractions: roots share one geometry (another geometry is discarded like
another root); a slice that decodes is the chunk of its root; the timer of the
batched save is nondeterministic; replies that change nothing are no steps; the
`ActiveGuard` is the condition `pc = "idle"` of `Call`.

### DownloadProofs

TLAPS proofs for every value of the constants (see *Proofs*).

### PushServer

The push handlers of `BlobServer`. `hs[h]` is the record of handler `h`: the
step it is at and its locals (the snapshot of the manifest, the chunk, a cloned
state, the ids it evicted). One action is one critical section or one await, so
handlers interleave wherever the code releases a lock. `pushes`, `registry` and
the three kinds of spool files are shared. `GoIdle` lets `idle_timeout` pass,
`Restart` loses the maps and keeps the files, `Register` and `Unregister` are
the application's.

`up` is the uploader, `run_upload` of client.rs: `UploadOffer` sends the manifest,
the reply tells it which chunks to push, `UploadSlice` pushes them one by one,
and it fails on a lost reply or a refusal (`UploadStops`). Its queries are served
by the same handlers as everybody else's.

A behaviour lives in one `world`: which ids, contents and handlers there are, and
what may happen besides queries (`"timeout"`, `"restart"`, `"application"`,
`"overlap"`, `"upload"`). Without `"overlap"`, uploaders of one id take turns,
though slices of one push still race each other, direct registrations, evictions
by other ids and restarts.

### PushServerProofs

TLAPS proofs about `PushServer`: types, cap and registry, then the spool directory,
then the upload (see *Proofs*).

### TreeStore

The chunk store of the tree tier and everything that works on it at once. The
store calls take no common lock, so one action is one store call, one tag file
read or written, or one await.

| Model | Code |
|---|---|
| `store`, `Has`, `Put`, `Remove`, `Present` | `DirStore::{has, put, remove, for_each_hash}`; a chunk is good, rotten or absent |
| `scrub`, `ScrubStart`, `ScrubRead`, `ScrubRemove` | `DirStore::scrub`: list, judge, remove |
| `dl[d]`: `DlIndex` to `DlResolved` | one `download_tree` or `fetch_file` call: index, `TempTags::protect`, presence pass, batched rounds with flushes, the per-chunk pipeline |
| `DlRead`, `DlHeal` | the reads of `reconstruct_tree` and `fetch_file`; a verifying `get` removes the rot it found |
| `loose`, `LoosePut` | a put on the blocking pool that outlives its call |
| `bd`: `BuildStart` to `Register`, `Unregister` | `build_tree` (has, then put) and `TreeServer::register` with the pieces of a sharded index |
| `tags`, `TagSet`, `TagRemove` | `SnapshotTags` |
| `sw`: `SweepStart` to `SweepChunk` | `gc::sweep`: list the tag names, read each tag, read the temporary tags, add the extra roots, list the store, remove one by one |
| `fresh` | history: the tags written since the sweep began |

`Faults` switches the environment: calls dropped, cancelled or unanswered, and
`"late"`, which lets a download take its temporary tag after the sweep has read
the temporary tags and lets a snapshot be built during a sweep. The module
comment of gc.rs warns of the second (a snapshot registered during a sweep is not
protected by it); of the first it says nothing.

Abstractions: a listing of the store is atomic; a snapshot without chunks is left
out; replies that are not accepted change nothing; whether a store verifies on
read is chosen per download handle; framing, compression and sealing of chunk
files are part of good or rotten.

### TreeStoreProofs

TLAPS proofs about `TreeStore` (see *Proofs*).

### Ranges, Wire, Exchange

Pure operators. `Ranges` is the way of a request from the holes of a resume
bitfield (`MissingRanges`, `Clamp`, `Coalesce`) over the selector
(`FormatRanges`) to the spans a server works through (`Accepts`, `ParseRanges`).
`Wire` has the geometry of a blob (`TransferChunks`), bitfields of bytes with
their padding bits, extension lists, want lists, keys and their parsing.
`Exchange` has the answers of a tree server to every query of tier 2 and what
the clients make of the replies: `FetchMany`, `FetchOne`, `Probe`,
`ProbeSnapshot`, `Assemble`, `FetchIndex`. Loops over vectors are recursive
functions on the number of elements done (`Total`, `Retain`, `MissingRanges`,
`Clamp`, `Coalesce`), which is the form the proofs can follow. A byte is the set of its bits, a key the
sequence of its segments, a selector the sequence of its words; sizes are scaled
down by constants (bits of a byte, `MAX_RANGE_SPANS`, `u32::MAX` and so on), and
the cast of a count to `u32` keeps its low bits. `MCWire` states the properties of
these operators over an input that grows step by step; its segments include a
partial wildcard (`Starred`), which keys.rs takes for a wildcard like any other.
`fetch_many` asks in rounds of `MAX_WANT_LIST`, the assembly of an index in rounds
of its own (`BatchSize`); both are `FetchRounds`. `RangesProofs` and
`WireProofs` prove the properties for inputs of every length.

### Publish

`publish_snapshot`: groups of chunks are read (`ReadGroup`) and put (`PutChunk`),
then the index (`PutIndex`), then keys chosen by `SampleIndices` are read back
until they answer or the time is over (`ProbeKey`); every put may fail. The
storages are external: they apply puts late, in order or not, and lose some. A key
is read back as soon as *anyone* answers for it: `others` are the keys (0 is the
index) that another responder on the prefix, say a `TreeServer`, has, an arbitrary
set. publish.rs (24-26, 235-238, 469-472) warns that an Ok may then say nothing of
the storage, also when everything was read back, and `PublishSettles` says what
remains: with a storage that keeps the order of the puts, everything is in it if
nobody else answered for the last chunk; with `All`, everything can be fetched from
storage and responder together, and the storage lacks at most what the responder
has. The property composes the publication with the client of `Exchange`, which
fetches after Ok from the storage (`Router`) or from both (`Server`), holders like
any others. `MCWire` runs it beside the tables of operators;
the TLAPS proof is in `WireProofs`.

### BlobServer and Striping

`BlobServer` is the serving side of tier 1: a source file that is rewritten under
the server (`Change`), the hashing pass of a registration and the outboard file it
writes beside the source (`RegisterHash`, `Hashed`, `FinishRegister`),
`Unregister`, and the admission of a slice query (`Admits`: known id, unchanged
fingerprint, acceptable selector).

`Striping` is `fill_holes_striped` over several of these servers: dealing the
missing chunks round-robin, one live holder per step (`Round`, `Deal`), one query
per holder (`Ask`), replies that are lost, forged or genuine (`Reply`, `Lose`,
`Forge`, `Broken`), the persistence, retry and drop rules at the end of a round
(`RoundEnd`), cancellation and crashes. Start and end of the call are one step
each: everything checked and proved of `Striping` assumes that no crash falls
between create, `set_len` and `save_atomic` of a fresh start (client.rs 804-807) or
between the last sync, the late check, the rename and the removal of the sidecar
(828-834). The windows are there in the code as they are in the single-origin
download, where `download_window` shows what the first one costs.
`StripingProofs` has the TLAPS proofs.

### Fanout

Publisher and receiver of fanout.rs. Frame 0 is the manifest, frame `i` the slice
of chunk `i-1`. The publisher puts them in order and keeps the last `CacheSize`;
the receiver joins at any time, buffers early slices up to a limit (`early`, a
sequence like the code's vector: a repeated or forged slice, `0`, takes room), takes the
manifest, drains the buffer slice by slice (`Drain`), writes slices until its
counter reaches the count, checks the destination and renames. Zenoh's history and
recovery are external: they bring back what the cache has and the receiver has not
discarded. Samples that bring no progress (a foreign encoding, a manifest that is
not accepted, a slice that does not verify) arrive without end (`JunkArrives`,
`SkipJunk`). `stale` says that `stall_timeout` has passed since `last_progress`,
which phase B sets anew with every slice counted and phase A never: in time because
nothing is to come (`Overdue`), or, a fault, before what is on its way has arrived
(`Hasty`). `Stall` ends the call then. `FanoutProofs` has the
TLAPS proofs.

### Transfer

The abstract specification of fetching a blob: a call holds verified chunks
(`held`), the disk keeps some (`disk`), a record on disk names the ones a later
call may take for granted (`kept`). `Striping` maps its bitfield, its synced part
and its sidecar to these; `Fanout` has no record and maps it to the empty set. In
both, a call may end well only holding every chunk. TLC checks the two refinements
(`ImplementsTransfer`) on the runs' instances, `StripingImplements` and
`FanoutImplements` prove them for every instance, and `RecordBacked` proves what
an implementation inherits.

### Materialize

`reconstruct_tree` and paths.rs. `fs` has the nodes below the destination root,
files with inodes, so that hard links and truncation through a name that could not
be removed are what they are. A call validates the index (`Validate`, with the
resolution of declared links in `ResolveConfined`), then goes through the entries
once for each of the four passes (`Passes`, `Loop`: directories; files and hard
links; links; modes, from the last entry to the first) and does one of `MkDir`,
`Clear`, `CreateFile`, `Fill`, `MakeLink`, `DirMode` at a time. It may stop at any
step; the next call, for the same or another snapshot, finds what is there. The
kernel's path resolution and that of `resolve_confined` are one step repeated
(`WalkStep`, `Walk`), over the nodes that are there and over the links the index
declares; `Fuel` is more steps than any resolution of bounded spellings and hops
takes. Of modes only the missing write permission of a directory is kept.
`remove_dir_all` removes from below and stops where a locked directory keeps a node
(`PartlyRemoved`), which `remove_existing` ignores; the process may also end in the
middle of a removal, the third way out of `Clear`.
`Treelike` is what the walk of `build_tree` lists, and the condition of
`Materialized` and `RerunConverges`, which an arbitrary index does not have (an
accepted index may have a link above a file, or a hard link before its file, and a
call then is refused half-way or replaces what it has written). `LinksConfined`
needs less, `Unshadowed`: no entry lies below a link of the index. `OthersKept`
needs neither.

### MaterializeProofs

TLAPS proofs about `Materialize` (see *Proofs*).

## Runs

| Run | Bounds | Shows |
|---|---|---|
| `download_safety` | 2 roots, 2 chunks, save every 2 marks, 1 chunk per query, all faults but the window | `DestVerified`, `BitsBacked`, `BoundedLoss`, `RefuseKeepsDest` hold |
| `download_live` | 1 root, 2 chunks, 2 attempts, budget 0, lossy responders, cancel, delete | `CallEnds`; `HonestCompletes` once responders answer |
| `download_window` | as `download_safety` with crashes in the window | **violated**: finding 1 |
| `push` | four worlds: 1 id with 2 contents and 3 handlers in turns; 2 ids under a cap of 1; 1 id with 2 contents and every interleaving; the uploader among 2 other handlers; 2 chunks each | `CapHeld`, `NeverDisplaced` everywhere; `BackingIntact`, `SpoolBacked` where offers do not overlap; `UploadServed` in the last |
| `tree_sweep` | 2 snapshots sharing a chunk, 2 chunks, 1 tag, 1 download, batches of 2, calls dropped, cancelled and unanswered | `ResolvedKept`, `ServedWhole`, `SweepSpares`, `CancelKeeps` |
| `tree_live` | 1 chunk, 2 calls, each a `download_tree` or a `fetch_file`, one of the handles verifying, late sweeps, scrubs, 1 rotten chunk | `Converges` |
| `tree_shards` | 1 snapshot with one piece of index | **violated**: finding 2 |
| `materialize` | 7 paths, 12 snapshots, one or two of them in turn, 7 destinations (locked directories inside and above others), both policies, spellings of up to 4 components, 4 hops (5 for the kernel), stops at every step and inside removals | `Materialized`, `OthersKept`, `RerunConverges`, `LinksConfined` |
| `wire` | bitfields of up to 2 bytes of 3 bits, blobs of up to 6 chunks with every resume state, keys of up to 4 segments, lists of up to 3 hashes in rounds of 2 over two origins (pieces of an index one by one), partial wildcards, publications of up to 4 chunks beside a responder with any set of them | `RequestExact`, `ClaimsBounded`, `IdUnambiguous`, `ProbeAttributed`, `IndexFetched`, `PublishSettles` |
| `striping` | 2 holders with limits 2 and 1, 5 chunks, 2 attempts, 3 faults of any kind, one or both holders unreliable | `StripedExact`, `HonestSuffices`, `CallEnds`, `ImplementsTransfer` |
| `striping_deal` | 3 holders with room for 1 chunk each, 3 chunks, no faults | **violated**: finding 3 |
| `fanout` | 3 slices, caches of 1, 2 and all frames, a buffer of 2, 3 faults, junk without limit | `ReceiverEnds`, `JoinerServed`, `ImplementsTransfer` |

Why the bounds suffice: a splice needs two contents and two chunks; a lost or
torn write needs one chunk saved and one not; every fault may repeat without
limit, so histories of any length over those files are covered. Two handlers
show every pairwise race of the push code, three add a slice racing two others;
a cap of one is the cap at its limit. A sweep, a producer, tags and one download
are all the parties of the store; a shared chunk is what one snapshot keeps alive
for another, and two chunks make a round, a flush and a presence pass take more
than one step. Every safety property of the passing runs is also proved, for every
instance or under the assumptions named there (see *Proofs*). Roots, ids and handlers are only compared, so safety runs
use symmetry. Two names on two levels make every pair of link, file and directory
meet, one inside the other or in its place, and the one path on a third level lets
a removal stop inside a directory inside a directory. Five chunks over two holders take a
dealt round, an endgame round and a round after a reject; three faults let a
holder change, a reply get lost and the call be stopped in one behaviour. Four
chunks and samples of one to three make the stride, its truncation and the swapped
last pick all happen, and reads in groups of two leave the store time to lose a
chunk between two groups. Tables of operators are exhaustive up to their bounds,
which exceed one byte, one span limit and one round.

Fairness: `FairSpec` of `Download` assumes weak fairness of the client's own
steps. Local I/O returns, and a query ends with the last reply or at
`query_timeout`, so the reply loop cannot wait for ever. Nothing is assumed of
responders except in `HonestCompletes`, which claims nothing until they answer what
is asked.
`Striping` assumes that the client runs and that a query ends, answered, refused
or timed out; `Fanout` that the publisher goes on putting while it lives, that
Zenoh recovers what the cache has, and that the receiver's own steps and timers
run. `FairSpec` of `TreeStore` assumes the same of every download, that its caller
calls again, that somebody answers the query of a single chunk (a round may stay
unanswered for ever), and that scrubbing is repeated. `Converges` claims nothing
while sweeps go on, because a sweep that keeps coming too late for the temporary
tag may defeat every attempt.

## Findings

1. `download_window`: a fresh start preallocates the part while the previous
   sidecar is still in place (client.rs 1284-1287). A crash, an error of
   `save_atomic` or a dropped future in between leaves old bits over zeros.
2. `tree_shards`: the pieces of a sharded index are in the store and in no live
   set, so a sweep removes them under the server that hands out their descriptor.
3. `striping_deal`: in the endgame a chunk is dealt to two holders; when only one
   claims it or has room for it, the dealing loop (client.rs 1580-1595) never ends.

Other departures met while modelling, each the reason for an assumption above:

* of two racing offers for one id, the slower truncates what the slices of the
  faster have written (`"overlap"` in `PushServer`);
* a slice whose push was evicted meanwhile is acknowledged as complete;
* a conflicting offer leaves the spool files of what it evicted;
* a sweep that has read the temporary tags removes what a download, which takes
  its tag afterwards, then finds present, and `fetch_file` takes no tag at all;
  the call fails and a repeated one succeeds;
* a verifying `get` and `scrub` remove a chunk by name after judging it, and so may
  remove the good copy another call has put there in between;
* an offer repeated while `finalize_push` is hashing starts a second push, because
  the entry is taken out before the blob is registered; its finalize renames over
  `<id>.blob` and then removes it (server.rs 1289), although "Completed `<id>.blob`
  files stay in the spool directory" (server.rs 391). `"overlap"` leaves it out of
  `BackingIntact`;
* `fetch_file` checks the length and not the hash of what the store returns
  (tree.rs 1852), although it says chunks are verified exactly as in
  `download_tree` (tree.rs 1795). A chunk that rotted in a store that does not
  verify on read is so handed to the caller; `Converges` counts only good results
  and is checked with both kinds of call, and no run is about the rot itself;
* `run_upload` ignores the remaining count of an acknowledgement (client.rs 1124).
  A push that went idle or was lost in a restart and is offered again between two
  slices, or a chunk that another uploader's push of the id already has, ends in
  an Ok for a blob that is not served; the world of the uploader has no timeouts
  and no restarts for that reason;
* a striped download keeps to the limit of the first holder only (client.rs 1545);
  a holder with a smaller one refuses its queries, and a sole claimer of a chunk
  dealt twice is asked for overlapping spans, which it refuses. Both cost rounds,
  not correctness, as long as another holder answers;
* in the endgame two copies of each of the last chunks are dealt from the start of
  the list, so the third live holder may never be asked for them: when the first
  two keep failing the call gives up as Incomplete although the third would answer.
  `HonestSuffices` is about the first two holders for that reason, and about
  holders that all claim everything, because with unequal claims a chunk may be
  dealt twice to one holder, which then refuses its whole query;
* `finish_register` takes the fingerprint after the hashing pass (server.rs 583), so
  a file rewritten in between is served under the root of its old content until
  clients reject it; registering a file a second time truncates the outboard file
  of the first registration;
* `sample_indices` "always contains the first and last index and never exceeds `k`
  entries" (publish.rs 180) cannot hold for `k` of 0 or 1;
* an `Ext::set` that fails leaves the list empty (wire.rs 223);
* under a wildcard prefix `accept_batch_reply` rejects every reply, and a want list
  with a repeated hash, or longer than the server's own limit, is refused whole;
  `IndexFetched` shows that the fetch of single pieces makes up for it;
* a fanout cache smaller than the blob loses the manifest first, and a joiner then
  waits for the stall timeout, although "a joiner that arrives after eviction
  re-requests what it missed" (fanout.rs 117); `receive_fanout` writes the same
  `<dest>.part` as a download without touching its sidecar;
* a read-only directory of a snapshot makes the removals of a rerun fail silently;
  the rerun is then refused, or writes through a link that is still there. Links of
  an earlier snapshot can make an accepted link of a later one leave the root, and
  a link or file where a later snapshot has a directory stops its materialization.
  `NoLocks`, `Trees`, `Fresh` and one snapshot per plan are the conditions of the
  properties concerned;
* an index with an entry below one of its own links passes `TreeIndex::validate`.
  `resolve_confined` reckons with the link, pass 2 makes a directory of it, the call
  is refused when pass 3 comes to the link (tree.rs 2369), and links that were
  written before it may then lead outside the root, which the check was meant to
  exclude (paths.rs 81-115). `build_tree` makes no such index. `Unshadowed` leaves
  it out of `LinksConfined`, and no run shows it.

## Proofs

TLAPS checks the theorems below for every value of the constants. Unless a line
says otherwise they use only the named assumptions on the constants: limits and
counts are naturals (positive where the code divides by them or clamps them to at
least one), and the markers (`None` and the like) differ from the values they
stand beside; a manifest's extension list has room for its two fields
(`ExtAssumption`), snapshots and what a directory holds at the start are records of
the right shape over a set of paths closed under parents (`PathAssumption`,
`InputAssumption`), and the kernel follows at least as many links as
`MAX_SYMLINK_HOPS` (`HopAssumption`; 40 on Linux, against 32). Every inductive invariant was checked with TLC on an instance of the
run of its component.

### Download (`DownloadProofs`)

* `TypeCorrect`: `TypeOK`, whatever `Faults` is.
* `LossBounded`: `BoundedLoss`, whatever `Faults` is. Cardinalities of bitfields
  are not inductive on their own; `LossInv` relates them to the counter of the
  batched save: it stays under `SaveEvery`, it is 0 wherever memory and sidecar
  were last made equal, and while replies are processed it bounds what the
  sidecar lacks.
* `DestCorrect`, `SidecarBacked`, `RefuseSafe`: `DestVerified`, `BitsBacked` and
  `RefuseKeepsDest`, under the assumption that faults spare the window between
  `SetLen` and `SaveFresh`. `download_window` shows the assumption is needed.

The inductive invariant `IInv` of the last three adds `CallInv` to these: the
length the resume probe saw is still the part's; the bits in memory claim data of
the manifest's root; the sidecar is of that root and never ahead of memory; after
`Commit` the claimed data is on disk; after the fill loop all chunks are claimed.
`BitsBacked` ranges over `undo`, the states a crash may restore, because a crash
turns any of them into the present.

### Push receiver and uploader (`PushServerProofs`)

* `PushTypeCorrect`: `TypeOK`. `TypeInv` adds that a handler at work has an id and
  a content, a slice handler a chunk, and the uploader something to send while
  it sends.
* `CapCorrect`: `CapHeld`, for any number of ids (`CapInv` adds that the pushes in
  flight are finitely many) and of offers between their two looks at the map.
* `NeverDisplacedCorrect`: the action property `NeverDisplaced`.
* `SpoolCorrect`, `BackingCorrect`: `SpoolBacked` and `BackingIntact`; both
  properties speak of worlds without `"overlap"`. The inductive invariant
  `SpoolInv` says, of every handler, which ids it has to itself (`TurnInv`: an
  offer, the one finalizer; `EvictInv`: the ids it evicted, until their files are
  gone), that all handlers of an id are there for one root (`RootInv`), that the
  bits it cloned under the lock are still behind those of the push (`BitsInv`), and
  what it relies on in the file it has just written, checked or renamed
  (`FileInv`); and of every id, that a push has its part, its bytes and its
  sidecar (`EntryInv`), that a sidecar beside a part tells the truth except
  between the creation of the part and the first save (`SideInv`), and that a
  served spool file is whole with nobody at work under its name (`ServeInv`).
* `UploadCorrect`: the action property `UploadServed`, for sets of worlds in which
  the uploader is alone with queries: `"upload"` excludes `"overlap"`,
  `"timeout"`, `"restart"` and `"application"`, as in the fourth world of `push`.
  With a timeout or a restart it does not hold (see *Findings*). `UploadInv` adds to
  `SpoolInv` what a handler is about to acknowledge (`AnswerInv`), that the handler
  the uploader waits for works on its id and content (`WaitInv`), and that the
  receiver holds whatever the uploader does not mean to send (`ResultInv`); without
  the last, the reply to the last slice would say nothing of the earlier ones.

### Content store, downloads, sweep (`TreeStoreProofs`)

* `TreeTypeCorrect`: `TypeOK`. The strengthening `BuilderInv` says that a
  producer at work has a snapshot, and a chunk in hand when it puts.
* `SweepSafe`: `SweepSpares`, with no assumption on the environment. `MarkInv`
  relates the tags to the sweep's progress: a tag nobody wrote since the sweep
  began is either listed and not yet read, or its chunks are live.
* `ServedSafe` and `ResolvedSafe`: `ServedWhole` and `ResolvedKept` in an
  `Orderly` environment, that is without rot, scrubs and late starts, the
  last one also without `fetch_file`. `NoRot` leaves the sweep as the only one who
  removes (`OnlySweepRemoves`). `ServeInv` says that the producer works while no
  sweep runs and has in the store what it has passed, and that registered
  snapshots are roots of the sweep. `KeepInv` says that a download past its
  first step holds a temporary tag, and that once the sweep has marked, what
  tagged downloads want is live. `DlMoves` shows that every step of a download
  counts a chunk as resolved only when it is in the store; it needs `RoundInv`,
  which says that no chunk of an earlier group is forgotten when a new group is
  formed.
* `CancelSafe`: the action property `CancelKeeps`, from `KeepInv` and `DrainInv`
  (replies wait only within a round and its flush) under the assumptions of `ResolvedSafe`.

### Loops over data (`RangesProofs`)

The library's induction theorems take an operator as a parameter, which the
provers cannot instantiate. `Induct` states induction over the naturals with a set
instead of an operator, from the well-foundedness of `<` (`WFMin`), and `Iterates`
that a function defined step by step exists; with these two every recursive function
of `Ranges` is unfolded into its first value and its step. What follows is what the
code's loops compute, for every input: `TotalIs` (sums), `RetainFacts` (`retain`
picks the elements kept, in their order), `ExtendedSpans` and the lemmas on
`MissingRanges` (the holes are ascending, full and cover exactly the unset bits),
`ClampFacts` and `RequestFacts` (the clamped holes are the first missing chunks,
within the budget), `CoalesceFacts` (ascending indices become ordered spans of the
same chunks) and `SelectorFacts` (what `format_ranges` writes, `parse_ranges`
accepts and reads back).

### Wire, exchange and publisher (`WireProofs`)

* `RequestsAreExact`: `RequestExact`, for every blob, resume bitfield and pair of
  limits, from `RequestFacts`, `SelectorFacts`, the geometry of chunks and what
  `Ext::set` and `get` make of the advertised limit.
* `ClaimsAreBounded`: `ClaimsBounded`, for bitfields of every length. Both counts are
  sums over bytes; `MarkedStep` says that one more byte adds its own marked bits, so
  partial sums are cardinalities of initial segments of the bitfield, and the
  masked last byte of `count_bits` is the byte the count ends in.
* `IdsAreUnambiguous`: `IdUnambiguous`, for keys of every length against the concrete
  keys of the protocol: without `**` in its prefix, a key matches segment by segment.
* `ProbesAreAttributed`: `ProbeAttributed`, for lists of any length. The rounds of a
  list cover it (`Rounds` as a division with remainder), and `IsSet` inverts
  `FromPresence`.
* `IndexesAreFetched`: `IndexFetched`, for any number of pieces and any order of
  replies. The pieces of a sharded index add up to its length (`TotalIs`); batch and
  single fetches bring exactly what the origins reached hold; the first usable
  reply exists when one of the replies is good.
* `PublishCorrect`: `PublishSettles`, for every number of chunks, size of a group
  and coverage. `CountInv` orders the counters of `publish_hashes`; `OrderInv` says
  that a storage that keeps the order holds an initial segment of the chunks and
  the rest is on its way, so the last chunk answers for all, if it is the storage that
  answers for it; `ProbeInv` says that every key the sample must have is still on
  the list, in the storage or one of another responder's, which nothing undoes. `SampleLast` is the lemma about `sample_indices`: all indices, or
  a stride that always has the last one.

The tables keep the two origins of `MCWire` and its prefixes of two segments; sizes
and limits, hashes and ids, and the lengths of all lists are arbitrary.

### Directory trees (`MaterializeProofs`)

* `DestinationIsATree`: `TypeOK`, with no condition. The strengthening `JobOK` says
  which locals the step at hand has; lemmas say of every change to the nodes
  (`WithDir`, a removal wherever it ended, a new node, a mode) that it leaves a tree.
* `OthersAreKept`: `OthersKept`. Without locked directories every removal succeeds, so
  an entry is written where nothing is (`PlaceInv`), below directories only
  (`AboveInv`), and under a new inode: `File::create` never meets a link or a file
  it could write through, and the resolution of the path is the path itself.
* `OkIsMaterialized`: `Materialized`. `Written` says that every entry the running call
  is past is in place and that the open file holds the first chunks of its entry. In
  a tree no later entry is at, above or below an earlier one that is not a
  directory, so nothing written is removed again; a hard link's target has been
  written before it.
* `ReRunIsNeverRefused`: `RerunConverges`. `Shape` says that files and links are only
  where entries of the one snapshot stand for them, and directories never where it
  has something else, whatever calls stopped on the way; so every check of a rerun
  passes. It is proved as `ShapeOf(K)` for the kinds `K` of entry that may not be
  above another, all but directories here and links alone in the next theorem.
* `LinksAreConfined`: `LinksConfined`, for an index without an entry below a link,
  locked directories and removals that end half-way included. The check resolved every link with all links of
  the snapshot in place and every other name taken for a directory; on disk only
  some of them are, among files and missing names. `Together` relates the two
  resolutions: they are at the same place with the same rest, or the one on disk has
  ended inside; the check ended inside, hence neither leaves the root.

### Striping, fanout and what they implement

All theorems about `Striping` assume that no crash falls inside the start or the end of
a call, which are one step each there.

* `StripedTypeCorrect`, `StripedCorrect`: `TypeOK` and `StripedExact`. The inductive
  invariant of `StripingProofs` has the shape of the locals (`Shape`), that the
  dealing loop has somebody to deal to (`DealInv`), that marked chunks are written
  and those the sidecar names are synced, with nothing unsynced outside the wait
  for replies (`PartInv`), and that Ok leaves the whole blob (`DestInv`).
* `HonestHolderSuffices`: `HonestSuffices`, for every number of holders and chunks, all
  limits and all faults of the others. The inductive invariant `HonestInv` follows
  one round: the honest holder is registered and live (`Steady`); while chunks are
  dealt, the loads of the live holders differ by one at most and those before the
  cursor are ahead (`Level`), so the holder's share is ascending without repetition
  and it has a chunk or gets one in the first two turns (`Turn`); then it has a
  query within its limit, or is sending an answer, whose first chunk was missing
  when the round began (`Owes`). The sidecar is the bitfield of that moment, which
  tells a round that brought something from one that did not. `CoalesceFacts` and
  `SelectorFacts` carry the share through the selector.
* `FanoutTypeCorrect`: `TypeOK`, with the bound of the early buffer. `FanoutExact`: Ok
  means that the whole blob is at the destination. `CountInv` is what it takes: the
  counter that ends the reception is the number of distinct chunks, and the part
  has exactly those; `CountedApply` shows it of `apply_slice`, duplicates included.
* `StripingImplements`, `FanoutImplements`: the property `ImplementsTransfer`. Initial
  states map to initial states, and every step maps to one of `Transfer` or to a
  stutter, action by action, from the invariants above.
* `RecordBacked`: the record of `Transfer` names only chunks that are on the disk,
  from `Transfer` alone, and with the refinement in every state of `Striping`.

### Checked by TLC only

Liveness (`CallEnds`, `HonestCompletes`, `Converges`, `ReceiverEnds`,
`JoinerServed`): fairness and `ENABLED` are out of the prover's reach. The three
refutations are counterexamples and need no proof.

## Not modelled

* `download_to_writer` and staged downloads: the fill loop of `Download` without
  resume, and a rename by the caller.
* `BlobClient::probe`, `fetch_availability`, manifest and availability replies: no
  state; the bitfields they exchange are in `Wire`.
* The limit on concurrent handlers of a server: a semaphore around `serve_one`.
* `build_tree`'s directory walk and `seed_store`: sequential reads of local files
  whose effect on the store is a put.
* Content-defined chunking, BLAKE3 and bao, compression, encryption, postcard:
  external libraries, taken by what they promise.
* Progress events, logging, error texts.

## Plan

Done: all modules above, and a theorem for every invariant, action property and
refinement that a passing run checks. What could follow:

1. `JoinerServed` and `CallEnds` have safety parts (the counters that bound rounds
   and retries) that could be theorems of their own.
2. The admission of a slice query in `BlobServer`: that an admitted reply is of
   the registered root, as an invariant of `Striping` stated apart.
3. The tables of `Exchange` for more than two origins.

Runs are merged where one instance can carry several questions, and the smaller
refutations give way to checks of new components.
