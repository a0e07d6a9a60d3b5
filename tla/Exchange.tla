------------------------------ MODULE Exchange ------------------------------
(***************************************************************************)
(* The tier-2 request/reply exchange: what a tree server answers to the    *)
(* queries on its store and tree keys (tree.rs), and what the store client *)
(* and the tree client make of the replies (store_client.rs, tree.rs).     *)
(*                                                                         *)
(* A holder is [prefix, held, max, root, snap, sharded]: its prefix, the   *)
(* chunks its store has, its max_want_list, and of its one snapshot the    *)
(* root (None when it serves none), the chunks it needs and whether its    *)
(* index is served in pieces.  Replies are sets of <<key, content>>: Zenoh *)
(* delivers them in no particular order, which only the choice of an index *)
(* depends on.  A chunk's content is its hash; a reply whose bytes do    *)
(* not hash to the address asked for is dropped, so it is not modelled.    *)
(***************************************************************************)
EXTENDS Wire

CONSTANTS
  MaxWant,         \* MAX_WANT_LIST, the longest list a client sends
  BatchSize,       \* batch_size of a tree client
  Shard,           \* INDEX_SHARD, the bytes of a piece
  MaxIndexBytes    \* max_index_bytes of the client

ASSUME WantAssumption == MaxWant \in Nat \ {0} /\ Shard \in Nat \ {0} /\ MaxIndexBytes \in Nat
                         /\ BatchSize \in 0..MaxWant

Algo == "blake3"

\* Zenoh: the holders a query under prefix q reaches.
Reached(q, holders) ==
  {h \in holders : Len(h.prefix) = Len(q) /\ \A k \in DOMAIN q : q[k] \in {"*", h.prefix[k]}}

-----------------------------------------------------------------------------
(* The holder *)

StoreKey(prefix, tail) == prefix \o <<Algo, tail>>

\* serve_chunk_query for a chunk address: the chunk, on the holder's own key.
ServeChunk(h, key) ==
  LET tail == Tier2Tail(h.prefix, key)
  IN  IF tail # None /\ Len(tail) = 2 /\ tail[1] = Algo /\ tail[2] \in h.held
        THEN {<<StoreKey(h.prefix, tail[2]), tail[2]>>} ELSE {}

\* serve_chunk_batch: every chunk held, each on its own key; the whole list is
\* refused if want_list_of does not accept it.
ServeBatch(h, want) ==
  IF ValidWant(want, h.max)
    THEN {<<StoreKey(h.prefix, x), x>> : x \in Range(want) \cap h.held} ELSE {}

ProbeBitsShifted(h, want) == FromPresence([k \in DOMAIN want |-> k > 1 /\ want[k-1] \in h.held])
\* serve_chunk_probe: one bit per entry, in the order of the list.
ProbeBits(h, want) == FromPresence([k \in DOMAIN want |-> want[k] \in h.held])

ServeProbe(h, want) ==
  IF ValidWant(want, h.max) THEN {<<StoreKey(h.prefix, "have"), ProbeBits(h, want)>>} ELSE {}

\* serve_tree_probe: <<chunks_present, chunks_total>>; silence for a snapshot
\* that is not registered.
ServeTreeProbe(h) ==
  IF h.root = None THEN {}
  ELSE {<<h.prefix \o <<"snap", "have">>, <<Cardinality(h.snap \cap h.held), Cardinality(h.snap)>>>>}

\* shard_index: the pieces of an encoded index, of which the last may be short.
ShardIndex(hashes, len) ==
  [k \in DOMAIN hashes |-> [hash |-> hashes[k], len |-> AtMost(Shard, len - (k-1) * Shard)]]

\* serve_index_query: a small index goes whole, a large one as the descriptor
\* of its pieces; silence for a snapshot that is not registered.
ServeIndex(h, hashes, len) ==
  IF h.root = None THEN {}
  ELSE {<<h.prefix \o <<"snap">>,
          [root |-> h.root, len |-> IF h.sharded THEN len ELSE 1,
           pieces |-> IF h.sharded THEN ShardIndex(hashes, len) ELSE None]>>}

-----------------------------------------------------------------------------
(* The clients *)

\* slice::chunks: the rounds a long list is split into.
Rounds(list, size) ==
  [r \in 1..DivCeil(Len(list), size) |->
     SubSeq(list, (r-1) * size + 1, AtMost(r * size, Len(list)))]

\* accept_batch_reply: the address a reply answers, if we asked for it.
AcceptBatchReply(q, key, want) ==
  LET tail == Tier2Tail(q, key)
  IN  IF tail # None /\ Len(tail) = 2 /\ tail[1] = Algo /\ tail[2] \in Range(want)
        THEN {tail[2]} ELSE {}

\* batch_query, round by round: what the replies bring.
FetchRounds(q, rounds, holders) ==
  UNION {UNION {AcceptBatchReply(q, reply[1], rounds[r]) :
                  reply \in UNION {ServeBatch(h, rounds[r]) : h \in Reached(q, holders)}}
         : r \in DOMAIN rounds}

\* StoreClient::fetch_many
FetchMany(q, wanted, holders) == FetchRounds(q, Rounds(wanted, MaxWant), holders)

\* fetch_one_chunk: the chunk if some holder reached has it.
FetchOne(q, x, holders) ==
  {reply[2] : reply \in UNION {ServeChunk(h, StoreKey(q, x)) : h \in Reached(q, holders)}}

\* StoreClient::probe: who has what, every reply attributed to the origin its
\* key names.
Probe(q, hashes, holders) ==
  LET answers == UNION {{<<r, reply>> : reply \in
                           UNION {ServeProbe(h, Rounds(hashes, MaxWant)[r]) : h \in Reached(q, holders)}}
                        : r \in DOMAIN Rounds(hashes, MaxWant)}
      origin(a) == SubSeq(a[2][1], 1, Len(a[2][1]) - 2)
      claimed(a) == LET group == Rounds(hashes, MaxWant)[a[1]]
                    IN  {group[k] : k \in {j \in DOMAIN group : IsSet(a[2][2], Len(group), j - 1)}}
      valid == {a \in answers : ValidBits(a[2][2], Len(Rounds(hashes, MaxWant)[a[1]]),
                                          Len(Rounds(hashes, MaxWant)[a[1]]))}
  IN  [o \in {origin(a) : a \in valid} |-> UNION {claimed(a) : a \in {b \in valid : origin(b) = o}}]

\* TreeClient::probe_snapshot, after TreeProbe::validate.
ProbeSnapshot(q, holders) ==
  {reply \in UNION {ServeTreeProbe(h) : h \in Reached(q, holders)} : reply[2][1] <= reply[2][2]}

\* IndexDescriptor::validate
ValidDescriptor(desc) ==
  /\ desc.pieces # <<>> /\ desc.len <= MaxIndexBytes
  /\ Total([k \in DOMAIN desc.pieces |-> desc.pieces[k].len]) = desc.len

AssembleBatchOnly(q, hashes, holders) ==
  Range(hashes) \subseteq FetchRounds(q, Rounds(hashes, IF BatchSize = 0 THEN 1 ELSE BatchSize), holders)
\* assemble_sharded_index: every piece, from the batch where it answers and one
\* by one otherwise.
Assemble(q, hashes, holders) ==
  LET got == FetchRounds(q, Rounds(hashes, IF BatchSize = 0 THEN 1 ELSE BatchSize), holders)
  IN  \A k \in DOMAIN hashes : hashes[k] \in got \cup FetchOne(q, hashes[k], holders)

\* fetch_index_matching: whether a reply is taken; an index in pieces has to be
\* assembled first.  (TreeIndex::validate is the subject of Materialize.)
Usable(q, desc, pin, holders) ==
  /\ desc.len <= MaxIndexBytes
  /\ desc.pieces # None =>
       /\ ValidDescriptor(desc)
       /\ Assemble(q, [k \in DOMAIN desc.pieces |-> desc.pieces[k].hash], holders)
  /\ pin \in {None, desc.root}

\* fetch_index_matching: the first usable reply, in the order of arrival.
FetchIndex(q, replies, pin, holders) ==
  LET good == {k \in DOMAIN replies : Usable(q, replies[k][2], pin, holders)}
  IN  IF good = {} THEN None ELSE replies[CHOOSE k \in good : \A j \in good : k <= j][2].root
=============================================================================
