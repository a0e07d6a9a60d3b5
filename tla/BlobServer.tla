----------------------------- MODULE BlobServer -----------------------------
(***************************************************************************)
(* Servers of one blob id (server.rs: BlobSource, register_file,           *)
(* finish_register, unregister, serve_one).  A source is a file whose      *)
(* content is a version; hashing it writes an outboard, beside the file    *)
(* when it is too large for memory, and the registration keeps the root    *)
(* and the fingerprint (length and modification time) that the file had    *)
(* when it was entered into the registry.                                  *)
(***************************************************************************)
EXTENDS Ranges

CONSTANTS
  Servers,
  Cap,          \* Cap[s]: max_chunks_per_query
  Spill,        \* Spill: servers whose outboard is the file beside the source
  Versions,     \* contents a source can have
  Torn,         \* what a reader makes of a file rewritten under it
  None

ASSUME ServerAssumption ==
  /\ \A s \in Servers : Cap[s] \in Nat
  /\ \A v, w \in Versions \cup {Torn} : None # [root |-> v, print |-> w]

VARIABLES
  source,       \* source[s]: what the file holds
  obao,         \* obao[s]: the version the outboard file is of; None half-written
  hashing,      \* hashing[s]: the version read by a registration under way, or None
  registry      \* registry[s]: None or [root, print]

serverVars == <<source, obao, hashing, registry>>

\* Every server has registered the first version and is left alone so far.
ServerInit(first) ==
  /\ source = [s \in Servers |-> first] /\ obao = [s \in Servers |-> first]
  /\ hashing = [s \in Servers |-> None]
  /\ registry = [s \in Servers |-> [root |-> first, print |-> first]]

\* The file is rewritten; its fingerprint changes with it.
Change(s, v) ==
  /\ source[s] # v /\ source' = [source EXCEPT ![s] = v]
  /\ UNCHANGED <<obao, hashing, registry>>

\* register_file: the blocking task opens the file and starts a new outboard.
RegisterHash(s) ==
  /\ hashing[s] = None /\ hashing' = [hashing EXCEPT ![s] = source[s]]
  /\ obao' = [obao EXCEPT ![s] = None]
  /\ UNCHANGED <<source, registry>>

\* The outboard is complete; of a file rewritten meanwhile it is of the one
\* content, the other, or a mixture.
Hashed(s) ==
  /\ hashing[s] # None /\ obao[s] = None
  /\ \E v \in {hashing[s], source[s]} \cup (IF hashing[s] = source[s] THEN {} ELSE {Torn}) :
       hashing' = [hashing EXCEPT ![s] = v] /\ obao' = [obao EXCEPT ![s] = v]
  /\ UNCHANGED <<source, registry>>

\* finish_register: an id that is taken stays as it is; the fingerprint is the
\* file's at this moment.
FinishRegister(s) ==
  /\ hashing[s] # None /\ obao[s] = hashing[s]
  /\ hashing' = [hashing EXCEPT ![s] = None]
  /\ registry' = IF registry[s] # None THEN registry
                 ELSE [registry EXCEPT ![s] = [root |-> hashing[s], print |-> source[s]]]
  /\ UNCHANGED <<source, obao>>

Unregister(s) ==
  /\ registry[s] # None /\ registry' = [registry EXCEPT ![s] = None]
  /\ UNCHANGED <<source, obao, hashing>>

-----------------------------------------------------------------------------
(* serve_one, for a slice query *)

\* The registration a query is served from: none when the id is unknown, the
\* source has changed since, or the selector is not acceptable.
Admits(s, words, count) ==
  /\ registry[s] # None /\ registry[s].print = source[s]
  /\ Accepts(words, count, Cap[s])

\* The indices the query is answered with, in order.
Indices(words) ==
  LET spans == ParseRanges(words)
      out[k \in 0..Len(spans)] ==
        IF k = 0 THEN <<>>
        ELSE out[k-1] \o [i \in 1..(spans[k][2] - spans[k][1]) |-> spans[k][1] + i - 1]
  IN  out[Len(spans)]

\* encode_slice validates what it reads against the outboard of the
\* registration; an error ends the query.
Encodes(s, root) == source[s] = root /\ (s \in Spill => obao[s] = root)
=============================================================================
