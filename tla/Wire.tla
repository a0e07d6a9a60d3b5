-------------------------------- MODULE Wire --------------------------------
(***************************************************************************)
(* What zblob's peers tell each other about a blob, and how each side      *)
(* reads it: the geometry of a blob (chunk.rs, manifest.rs), bitfields and *)
(* extension lists (wire.rs, resume.rs) and keys (keys.rs).  Pure          *)
(* operators; sizes are scaled down by the constants.                      *)
(*                                                                         *)
(* A byte of a bitfield is the set of its set bits, 0 the least            *)
(* significant; a key is the sequence of its segments.                     *)
(***************************************************************************)
EXTENDS Ranges

CONSTANTS
  Group,               \* verify::GROUP_SIZE, the bao group
  MinChunk, MaxChunk,  \* MIN_CHUNK_SIZE, MAX_CHUNK_SIZE
  MaxIndex,            \* u32::MAX
  ByteBits,            \* bits of a byte
  MaxFields,           \* Ext::MAX_FIELDS
  MaxValueLen,         \* Ext::MAX_VALUE_LEN
  Starred,             \* the segments that contain a '*'
  None

ASSUME SizeAssumption ==
  /\ Group \in Nat \ {0} /\ MinChunk \in Nat \ {0} /\ MaxChunk \in Nat
  /\ MaxIndex \in Nat /\ ByteBits \in Nat \ {0}
\* The list of a manifest has room for its fields.
ASSUME ExtAssumption == MaxFields \in Nat \ {0, 1} /\ MaxValueLen \in Nat \ (0..7)
ASSUME StarAssumption == {"*", "**"} \subseteq Starred

DivCeil(a, b) == (a + b - 1) \div b
AtMost(a, b)  == IF a < b THEN a ELSE b

-----------------------------------------------------------------------------
(* TransferChunks and Manifest::validate *)

ValidChunkSize(size) == size \in MinChunk..MaxChunk /\ size % Group = 0

\* TransferChunks::new
Geometry(size, total) == ValidChunkSize(size) /\ DivCeil(total, size) <= MaxIndex

\* TransferChunks::count; the cast to u32 keeps the low bits.
Count(size, total) == DivCeil(total, size) % (MaxIndex + 1)

\* TransferChunks::byte_range
ByteRange(size, total, i) ==
  LET start == AtMost(i * size, total) IN <<start, AtMost(start + size, total)>>

\* TransferChunks::len_of
LenOf(size, total, i) == LET r == ByteRange(size, total, i) IN r[2] - r[1]

-----------------------------------------------------------------------------
(* Bitfields: HaveBits, Availability, ResumeState *)

\* HaveBits::from_presence
FromPresence(present) ==
  [k \in 1..DivCeil(Len(present), ByteBits) |->
     {b \in 0..(ByteBits-1) :
        LET i == (k-1) * ByteBits + b IN i < Len(present) /\ present[i+1]}]

\* Availability::full
FullBits(count) ==
  [k \in 1..DivCeil(count, ByteBits) |->
     IF k = DivCeil(count, ByteBits) /\ count % ByteBits # 0
       THEN 0..((count % ByteBits) - 1) ELSE 0..(ByteBits-1)]

\* is_set of the three of them
IsSet(bytes, count, i) ==
  i < count /\ i \div ByteBits < Len(bytes) /\ i % ByteBits \in bytes[i \div ByteBits + 1]

CountAllBits(bytes, limit) == Total([k \in DOMAIN bytes |-> Cardinality(bytes[k])])
\* count_bits: whole bytes first, then the masked rest of one more.
CountBits(bytes, limit) ==
  LET full == limit \div ByteBits
      rem  == limit % ByteBits
  IN  Total([k \in 1..AtMost(full, Len(bytes)) |-> Cardinality(bytes[k])])
      + IF full < Len(bytes) /\ rem > 0
          THEN Cardinality(bytes[full+1] \cap 0..(rem-1)) ELSE 0

\* ResumeState::received: every byte under its own mask.
Received(bytes, count) ==
  Total([k \in 1..Len(bytes) |-> Cardinality({b \in bytes[k] : (k-1) * ByteBits + b < count})])

\* ResumeState::mark: the bitfield after it.
Mark(bytes, count, i) ==
  IF i >= count \/ i \div ByteBits >= Len(bytes) \/ IsSet(bytes, count, i) THEN bytes
  ELSE [bytes EXCEPT ![i \div ByteBits + 1] = @ \cup {i % ByteBits}]

\* HaveBits::validate: what was asked, and as long as the count requires.
ValidBits(bytes, count, asked) == count = asked /\ Len(bytes) = DivCeil(count, ByteBits)

\* Availability::validate
ValidAvailability(bytes, count, max) == count <= max /\ Len(bytes) = DivCeil(count, ByteBits)

-----------------------------------------------------------------------------
(* Ext: a list of <<id, value>>, a value being <<its length, its meaning>> *)

FieldsOf(fields) ==
  IF Len(fields) > MaxFields \/ (\E k \in DOMAIN fields : fields[k][2][1] > MaxValueLen)
    THEN None ELSE fields

\* Ext::get_u32 and get_u64: the first field of that id, if it has that width.
ExtGet(ext, id, width) ==
  LET at == {k \in DOMAIN ext : ext[k][1] = id}
      v  == ext[CHOOSE k \in at : \A j \in at : k <= j][2]
  IN  IF at = {} THEN None ELSE IF v[1] = width THEN v[2] ELSE None

\* Ext::set; None is the error (after which the list is left empty).
ExtSet(ext, id, value) ==
  FieldsOf(Append(Retain(ext, {f \in Range(ext) : f[1] # id}), <<id, value>>))

\* EXT_MAX_CHUNKS_PER_QUERY, EXT_MAX_BLOB_SIZE; the widths of u32 and u64
MaxChunksPerQuery == 1
MaxBlobSize       == 2
U32 == 4
U64 == 8

\* finish_register: the limits a server advertises in its manifest.
Advertised(cap, blob) ==
  ExtSet(ExtSet(<<>>, MaxChunksPerQuery, <<U32, cap>>), MaxBlobSize, <<U64, blob>>)

\* fill_holes: how many chunks one query may ask for.
QueryBudget(ext, own) ==
  LET served == ExtGet(ext, MaxChunksPerQuery, U32)
      budget == IF served = None THEN own ELSE AtMost(own, served)
  IN  IF budget = 0 THEN 1 ELSE budget

-----------------------------------------------------------------------------
(* Keys *)

OwnPrefixLoose(prefix, key) ==
  Len(key) > Len(prefix) /\ \A k \in DOMAIN prefix : key[k] = prefix[k] \/ key[k] \in Starred
\* parse_id and parse_tier2_tail: the prefix of a query's key is this
\* server's, or has wildcards, whole or partial, that stand for one segment
\* each.
OwnPrefix(prefix, key) ==
  /\ Len(key) > Len(prefix)
  /\ \A k \in DOMAIN prefix : key[k] # "**" /\ (key[k] = prefix[k] \/ key[k] \in Starred)

\* parse_id
ParseId(prefix, key) ==
  IF OwnPrefix(prefix, key) /\ key[Len(prefix)+1] \notin {""} \cup Starred
    THEN key[Len(prefix)+1] ELSE None

\* parse_tier2_tail
Tier2Tail(prefix, key) ==
  IF OwnPrefix(prefix, key) /\ Len(key) - Len(prefix) <= 2
    THEN SubSeq(key, Len(prefix) + 1, Len(key)) ELSE None

\* The keys of blob id under a prefix.  What a client gets: manifest_key,
\* availability_key, slice_selector, push_offer_key, push_slice_key; and what a
\* server replies on: manifest_key, availability_key, slice_key.
QueryKeys(prefix, id) ==
  {prefix \o <<id>> \o t : t \in {<<"manifest">>, <<"have">>, <<"**">>, <<"push", "offer">>,
                                <<"push", "slice", "0">>}}
SliceSelector(prefix, id) == prefix \o <<id, "**">>
ReplyKeys(prefix, id) ==
  {prefix \o <<id>> \o t : t \in {<<"manifest">>, <<"have">>, <<"slice", "0">>}}

-----------------------------------------------------------------------------
(* Validation of the control messages of tier 2 *)

\* WantList::validate, over a sequence of hashes.
ValidWant(hashes, max) ==
  /\ hashes # <<>> /\ Len(hashes) <= max
  /\ \A i, j \in DOMAIN hashes : hashes[i] = hashes[j] => i = j
=============================================================================
