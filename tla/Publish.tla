------------------------------ MODULE Publish -------------------------------
(***************************************************************************)
(* A snapshot published into router storages (publish.rs): its chunks are  *)
(* put, then its index, and then some of the keys are read back until they *)
(* answer or the time to settle is over.                                   *)
(*                                                                         *)
(* The storages are external: one for the chunks, one for the index.  A    *)
(* put that returned was handed to the transport; the storage applies it   *)
(* later, in the order of the puts or in any order, or loses it.  Chunks   *)
(* are named by their place in needed_chunks().  The read-back takes the    *)
(* answer of any responder: a tree server on the same prefix may answer    *)
(* for keys no storage has.  Storage and server answer the queries of      *)
(* Exchange like holders.                                                  *)
(***************************************************************************)
EXTENDS Exchange

CONSTANTS
  MaxNeeded,     \* chunks of the snapshots published
  ReadBatch,     \* PUBLISH_READ_BATCH
  Coverages      \* SettleCoverage: k for Sample(k), None for All

ASSUME PublishAssumption ==
  /\ MaxNeeded \in Nat /\ ReadBatch \in Nat \ {0}
  /\ \A k \in Coverages : k = None \/ k \in Nat
  /\ None \notin {<<Algo, x>> : x \in 1..MaxNeeded}

VARIABLES
  at,            \* "idle", "chunks", "probe", "ok", "failed"
  needed,        \* how many chunks the index references
  coverage,
  inOrder,       \* the storage of the chunks keeps the order and loses nothing
  others,        \* the keys another responder on the prefix answers; 0 is the index
  local,         \* the chunks the producer's store has
  read,          \* how many of them get_many was asked for
  batch,         \* those of the last group that it found
  sent,          \* how many were put
  stored,        \* the chunks the storage holds
  way,           \* the chunks on their way to it
  index,         \* "none", "sent", "held"
  probes         \* the keys still to be read back; 0 is the index

publishVars == <<at, needed, coverage, inOrder, others, local, read, batch, sent, stored, way, index,
                 probes>>

NoPublication ==
  /\ at = "idle" /\ needed = 0 /\ coverage = None /\ inOrder = TRUE /\ others = {} /\ local = {}
  /\ read = 0 /\ batch = {} /\ sent = 0 /\ stored = {} /\ way = {} /\ index = "none" /\ probes = <<>>

Publication ==
  /\ at = "chunks" /\ needed \in 0..MaxNeeded /\ coverage \in Coverages /\ inOrder \in BOOLEAN
  /\ others \in SUBSET (0..needed) /\ local = 1..needed /\ read = 0 /\ batch = {} /\ sent = 0 /\ stored = {} /\ way = {}
  /\ index = "none" /\ probes = <<>>

\* publish_hashes: the next group is read out of the store at once.
ReadGroup ==
  /\ at = "chunks" /\ sent = read /\ read < needed
  /\ read' = AtMost(read + ReadBatch, needed)
  /\ batch' = local \cap (read+1)..read'
  /\ UNCHANGED <<at, needed, coverage, inOrder, others, local, sent, stored, way, index, probes>>

\* publish_hashes, publish_chunk: the next chunk of the group is put; the first
\* one the store did not have, or whose put fails, ends the publication.
PutChunk ==
  /\ at = "chunks" /\ sent < read
  /\ \/ sent + 1 \in batch /\ sent' = sent + 1 /\ way' = way \cup {sent + 1} /\ at' = at
     \/ at' = "failed" /\ UNCHANGED <<sent, way>>
  /\ UNCHANGED <<needed, coverage, inOrder, others, local, read, batch, stored, index, probes>>

SampledStride(n, cover) ==
  LET k == IF cover = 0 THEN 1 ELSE cover
      step == IF n \div k = 0 THEN 1 ELSE n \div k
  IN  IF cover = None THEN [j \in 1..n |-> j - 1]
      ELSE Truncated([j \in 1..DivCeil(n, step) |-> (j-1) * step], k)
\* sample_indices: everything, or a stride whose last pick gives way to the
\* last chunk.
SampleIndices(n, cover) ==
  LET k == IF cover = 0 THEN 1 ELSE cover
      step == IF n \div k = 0 THEN 1 ELSE n \div k
      picked == Truncated([j \in 1..DivCeil(n, step) |-> (j-1) * step], k)
      kept   == IF Len(picked) >= k THEN Front(picked) ELSE picked
  IN  IF cover = None THEN [j \in 1..n |-> j - 1]
      ELSE IF Last(picked) = n - 1 THEN picked ELSE Append(kept, n - 1)

\* publish_index, which may fail; publish_snapshot then lists what it will read
\* back.
PutIndex ==
  /\ at = "chunks" /\ sent = needed
  /\ \/ /\ at' = "probe" /\ index' = "sent"
        /\ probes' = <<0>> \o IF needed = 0 THEN <<>>
                              ELSE LET s == SampleIndices(needed, coverage) IN [j \in DOMAIN s |-> s[j] + 1]
     \/ at' = "failed" /\ UNCHANGED <<index, probes>>
  /\ UNCHANGED <<needed, coverage, inOrder, others, local, read, batch, sent, stored, way>>

\* probe_key: anyone's reply will do, the storage's or another responder's.
Answers(key) == key \in others \/ IF key = 0 THEN index = "held" ELSE key \in stored

\* publish_snapshot: a key that answers is done with, whatever the time; one
\* that does not answer in time is asked again until the deadline.
ProbeKey ==
  /\ at = "probe"
  /\ \/ probes # <<>> /\ Answers(Head(probes)) /\ probes' = Tail(probes) /\ at' = at
     \/ probes # <<>> /\ probes' = <<>> /\ at' = "failed"
     \/ probes = <<>> /\ at' = "ok" /\ probes' = probes
  /\ UNCHANGED <<needed, coverage, inOrder, others, local, read, batch, sent, stored, way, index>>

\* A sweep, or rot, takes a chunk out of the producer's store.
LocalLoss ==
  /\ at = "chunks" /\ \E x \in local : local' = local \ {x}
  /\ UNCHANGED <<at, needed, coverage, inOrder, others, read, batch, sent, stored, way, index, probes>>

\* The storages: a put is applied, or lost.
Store ==
  /\ \/ /\ \E x \in way : /\ inOrder => \A y \in way : x <= y
                          /\ way' = way \ {x} /\ stored' \in {stored \cup {x}} \cup (IF inOrder THEN {} ELSE {stored})
        /\ index' = index
     \/ index = "sent" /\ index' = "held" /\ UNCHANGED <<way, stored>>
  /\ UNCHANGED <<at, needed, coverage, inOrder, others, local, read, batch, sent, probes>>

PublishNext == ReadGroup \/ PutChunk \/ PutIndex \/ ProbeKey \/ LocalLoss \/ Store

PublishSpec == Publication /\ [][PublishNext]_publishVars

-----------------------------------------------------------------------------
(* Properties *)

\* The prefix a storage answers under, and the one of a client that asks all.
Origin   == <<"a", "b">>
Anywhere == <<"*", "b">>
Holding(held) == [prefix |-> Origin, held |-> held, max |-> 0, root |-> None, snap |-> {},
                  sharded |-> FALSE]
Router   == Holding(stored)
Server   == Holding(others)

\* publish_snapshot: the index is put only after every chunk.  Once publish has
\* returned Ok, a client can fetch the whole snapshot from the storage when the
\* storage keeps the order of the puts and it was the storage that answered for
\* the last chunk, which then answers for the others; and, when everything was
\* read back, from the storage together with the responder that stood in for
\* it, whose share alone is what the storage may lack.
PublishSettles ==
  /\ index # "none" => sent = needed
  /\ at = "ok" =>
       /\ index = "held" \/ 0 \in others
       /\ inOrder /\ needed \notin others =>
            \A x \in 1..needed : FetchOne(Anywhere, x, {Router}) = {x}
       /\ coverage = None =>
            \A x \in 1..needed : /\ FetchOne(Anywhere, x, {Router, Server}) = {x}
                                /\ x \notin others => FetchOne(Anywhere, x, {Router}) = {x}
=============================================================================
