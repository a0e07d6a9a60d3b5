------------------------------- MODULE MCWire -------------------------------
(***************************************************************************)
(* The operators of Wire, Ranges and Exchange checked against reference    *)
(* definitions, and Publish with the client of Exchange.  "in" is the      *)
(* input at hand: a record of one of the kinds below, which every step     *)
(* makes one element longer; of kind "none" while a publication runs.      *)
(***************************************************************************)
EXTENDS Publish

CONSTANTS
  Totals,        \* blob lengths
  Caps,          \* max_chunks_per_query of a server and of a client
  Hashes,        \* chunk addresses
  Ids,           \* blob ids
  MaxBytes,      \* longest bitfield
  MaxKey,        \* longest key
  MaxList        \* longest want list

ASSUME TableAssumption ==
  /\ Totals \subseteq Nat /\ Caps \subseteq Nat \ {0} /\ IsFiniteSet(Hashes)
  /\ MaxBytes \in Nat /\ MaxKey \in Nat /\ MaxList \in Nat
  /\ "a$*" \in Starred /\ Starred \cap {"a", "b", "c"} = {}
  /\ Ids \cap ({""} \cup Starred) = {}

\* None is no limit, no root, no tail of a key and no list of pieces.
ASSUME NoneAssumption ==
  /\ None \notin Caps
  /\ None \notin {"r1", "r2"} /\ None \notin {<<Algo, x>> : x \in Hashes}
  /\ \A n \in 0..MaxList : \A w \in [1..n -> [hash : Hashes, len : 0..Shard]] : w # None

VARIABLE in

Bytes == SUBSET (0..(ByteBits-1))

\* What a client may query: the server's own prefix, another origin's, or every
\* origin's.
Origins  == {Origin, <<"c", "b">>}
Queries  == Origins \cup {Anywhere}
Segments == {"a", "b"} \cup Starred \cup Ids

Holders ==
  {{[prefix |-> Origin, held |-> x, max |-> n, root |-> "r1", snap |-> Hashes, sharded |-> TRUE],
    [prefix |-> <<"c", "b">>, held |-> y, max |-> MaxWant, root |-> r, snap |-> {}, sharded |-> FALSE]} :
     x \in SUBSET Hashes, y \in SUBSET Hashes, n \in {1, MaxWant}, r \in {None, "r1", "r2"}}

Manifests == {Advertised(c, 0) : c \in Caps} \cup {<<>>}

\* have: the resume bitfield of a download of the blob; server: what the
\* server's manifest advertises; own: the client's own limit.
Blobs == {[kind |-> "blob", size |-> s, total |-> t, cap |-> c, own |-> o, have |-> h] :
            s \in {MinChunk, MaxChunk}, t \in Totals, c \in Caps, o \in Caps,
            h \in {FromPresence([i \in 1..n |-> FALSE]) : n \in {Count(s, t) : s \in {MinChunk, MaxChunk}, t \in Totals}}}

TableInit ==
  in \in {b \in Blobs : /\ Geometry(b.size, b.total)
                        /\ Len(b.have) = DivCeil(Count(b.size, b.total), ByteBits)}
         \cup {[kind |-> "claim", count |-> n, bytes |-> <<>>] : n \in 0..(MaxBytes * ByteBits)}
         \cup {[kind |-> "key", key |-> <<>>]}
         \cup {[kind |-> "want", q |-> q, want |-> <<>>, holders |-> h] : q \in Queries, h \in Holders}

Init ==
  \/ TableInit /\ NoPublication
  \/ in = [kind |-> "none"] /\ Publication

\* A chunk arrives.
Receive ==
  /\ in.kind = "blob"
  /\ \E i \in 0..(Count(in.size, in.total) - 1) :
       in' = [in EXCEPT !.have = Mark(@, Count(in.size, in.total), i)]

\* Any bitfield a peer may send.
ClaimByte ==
  /\ in.kind = "claim" /\ Len(in.bytes) < MaxBytes
  /\ \E b \in Bytes : in' = [in EXCEPT !.bytes = Append(@, b)]

Segment ==
  /\ in.kind = "key" /\ Len(in.key) < MaxKey
  /\ \E s \in Segments : in' = [in EXCEPT !.key = Append(@, s)]

Want ==
  /\ in.kind = "want" /\ Len(in.want) < MaxList
  /\ \E x \in Hashes : in' = [in EXCEPT !.want = Append(@, x)]

Next ==
  \/ (Receive \/ ClaimByte \/ Segment \/ Want) /\ UNCHANGED publishVars
  \/ PublishNext /\ UNCHANGED in

Spec == Init /\ [][Next]_<<in, publishVars>>

-----------------------------------------------------------------------------
(* Properties *)

\* What fill_holes asks for, a server whose limit the manifest advertises
\* accepts: the spans it works through are the first holes the budget allows,
\* and there is one whenever a chunk is missing.  The slices they stand for are
\* not empty, start on a group boundary, and all slices together are the blob.
RequestExact ==
  in.kind = "blob" =>
    LET n        == Count(in.size, in.total)
        range(i) == ByteRange(in.size, in.total, i)
        missing  == {i \in 0..(n-1) : ~IsSet(in.have, n, i)}
        budget   == QueryBudget(Advertised(in.cap, 0), in.own)
        words    == FormatRanges(Holes((0..(n-1)) \ missing, n, budget))
        asked    == Covered(ParseRanges(words))
    IN  /\ n <= MaxIndex /\ (n = 0 <=> in.total = 0)
        /\ \A i \in 0..(n-1) :
             /\ range(i)[1] % Group = 0 /\ LenOf(in.size, in.total, i) > 0
             /\ range(i)[2] = IF i = n - 1 THEN in.total ELSE range(i+1)[1]
        /\ missing # {} =>
             /\ Accepts(words, n, in.cap)
             /\ asked # {} /\ asked \subseteq missing
             /\ Cardinality(asked) <= in.own
             /\ \A i \in asked, j \in missing : j < i => j \in asked

\* A bitfield counts what it says: however long it is and whatever stray bits
\* it has past the count, the totals that pick a holder (Availability::have)
\* and that drive the progress of a download agree with is_set.
ClaimsBounded ==
  in.kind = "claim" =>
    LET set == {i \in 0..(in.count-1) : IsSet(in.bytes, in.count, i)}
    IN  /\ CountBits(in.bytes, in.count) = Cardinality(set)
        /\ Received(in.bytes, in.count) = Cardinality(set)
        /\ ValidAvailability(in.bytes, in.count, MaxIndex) =>
             LET again == FromPresence([i \in 1..in.count |-> i - 1 \in set])
             IN  /\ ValidBits(again, in.count, in.count)
                 /\ set = {i \in 0..(in.count-1) : IsSet(again, in.count, i)}
                 /\ (Cardinality(set) = in.count) => again = FullBits(in.count)

\* Zenoh: what a segment of a key expression stands for; "a$*" is whatever
\* begins with a.
StandsFor(e, s) == e \in {"*", s} \/ (e = "a$*" /\ s = "a")

\* Zenoh's key-expression matching: the segments of e take up those of k in
\* their order, "**" any number of them and every other segment one.
Matches(e, k) ==
  \E upto \in [0..Len(e) -> 0..Len(k)] :
    /\ upto[0] = 0 /\ upto[Len(e)] = Len(k)
    /\ \A i \in 1..Len(e) :
         IF e[i] = "**" THEN upto[i-1] <= upto[i]
         ELSE upto[i] = upto[i-1] + 1 /\ StandsFor(e[i], k[upto[i]])

Concrete == UNION {[1..n -> {"a", "b"} \cup Ids] : n \in 3..4}

\* The id parse_id reads out of a query is the only one the query can mean
\* under this server's prefix: a wildcard origin resolves, a partial one too, an
\* ambiguous "**" does not.  Every key a client queries for an id, under its own origin or
\* all of them, resolves to that id, and the replies match the selector.
IdUnambiguous ==
  in.kind = "key" =>
    /\ ParseId(Origin, in.key) # None =>
         \A c \in Concrete :
           (SubSeq(c, 1, 2) = Origin /\ Matches(in.key, c)) => c[3] = ParseId(Origin, in.key)
    /\ \A q \in Queries, x \in Ids :
         LET mine == q \in {Origin, Anywhere}
         IN  /\ \A k \in QueryKeys(q, x) : ParseId(Origin, k) = IF mine THEN x ELSE None
             /\ mine => \A r \in ReplyKeys(Origin, x) : Matches(SliceSelector(q, x), r)

NoRepeats(list) == \A i, j \in DOMAIN list : list[i] = list[j] => i = j

\* A probe across origins tells exactly what each one holds: no origin is
\* charged with another's answer, whatever the order of the list and however
\* many rounds it takes; a snapshot probe never claims more than there is.
ProbeAttributed ==
  in.kind = "want" /\ NoRepeats(in.want) =>
    LET found == Probe(in.q, in.want, in.holders)
    IN  \A h \in Reached(in.q, in.holders) :
          /\ h.max = MaxWant /\ in.want # <<>> =>
               h.prefix \in DOMAIN found /\ found[h.prefix] = Range(in.want) \cap h.held
          /\ h.prefix \in DOMAIN found => found[h.prefix] \subseteq h.held
          /\ h.root # None => \E r \in ProbeSnapshot(in.q, in.holders) :
                              /\ r[1] = h.prefix \o <<"snap", "have">>
                              /\ (r[2][1] = r[2][2]) = (h.snap \subseteq h.held)

\* fetch_index_matching finds the index whatever order the replies come in:
\* exactly when some origin serves the pinned root whole, or in pieces that
\* origins the query reaches hold between them and within max_index_bytes; a
\* holder that refuses the batch is made up for by the fetch of single pieces,
\* and a stale or unusable reply masks no other.  From one concrete origin that
\* accepts lists of this length, the batch alone brings back all it holds.
IndexFetched ==
  in.kind = "want" /\ in.want # <<>> =>
    LET near == Reached(in.q, in.holders)
        held == UNION {h.held : h \in near}
    IN  /\ \A len \in ((Len(in.want) - 1) * Shard + 1)..(Len(in.want) * Shard) :
             LET served == UNION {ServeIndex(h, in.want, len) : h \in near}
             IN  \A replies \in SetToSeqs(served), pin \in {None, "r1", "r2"} :
                   LET good == {r \in served :
                                  /\ pin \in {None, r[2].root}
                                  /\ r[2].len <= MaxIndexBytes
                                  /\ r[2].pieces # None => Range(in.want) \subseteq held}
                       got  == FetchIndex(in.q, replies, pin, in.holders)
                   IN  (got # None) = (good # {}) /\ (got = None \/ got \in {r[2].root : r \in good})
        /\ in.q \in Origins /\ NoRepeats(in.want) /\ (\A h \in near : h.max = MaxWant) =>
             FetchMany(in.q, in.want, in.holders) = Range(in.want) \cap held
=============================================================================
