------------------------------ MODULE Download ------------------------------
(***************************************************************************)
(* The resumable single-origin download of zblob: BlobClient::download_to  *)
(* (client.rs) with its ResumeState sidecar (resume.rs), over a file       *)
(* system whose page cache and directory updates a crash may lose.         *)
(*                                                                         *)
(* One destination, and the calls made to it one after the other (the      *)
(* ActiveGuard of the client refuses a second concurrent call).  A call    *)
(* is a sequence of steps, one per await at which the process can stop:    *)
(* the manifest, the resume probe, the fresh start, rounds of queries,     *)
(* batched saves, the final fsync, the rename, the removal of the sidecar. *)
(*                                                                         *)
(* Contents are abstract: chunk i of a file holds a root r ("the bytes of  *)
(* chunk i of the blob with root r"), Junk (any other bytes: zeros of a    *)
(* preallocated file, half a write) or Gone (past the end of the file).    *)
(* All roots have the same geometry: a sidecar of another geometry is      *)
(* discarded exactly as one of another root is.                            *)
(***************************************************************************)
EXTENDS Naturals, FiniteSets

CONSTANTS
  Roots,        \* the blobs a responder may offer under the requested id
  N,            \* number of transfer chunks
  MaxAttempts,  \* RetryPolicy::max_attempts
  SaveEvery,    \* marks between two batched saves (64 in the code)
  Budget,       \* chunks one query may ask for (min of client and server cap)
  Policies,     \* the Overwrite policies callers use
  Lossy,        \* TRUE if replies may be lost (a round may end early)
  Faults,       \* what the environment does, a subset of FaultKinds
  Junk, Gone, None, Foreign

\* "window" lets a crash or an error strike between set_len of a fresh part
\* and the save of its fresh sidecar; "crash" and "abandon" spare that window.
FaultKinds == {"crash", "abandon", "window", "delete", "cancel", "appear"}

Chunks  == 0..(N-1)
Data    == Roots \cup {Junk, Gone}
\* data: what a read returns now; disk[i]: what a crash may leave in chunk i.
File    == [data : [Chunks -> Data], disk : [Chunks -> SUBSET Data]]
Sidecar == [root : Roots, bits : SUBSET Chunks]
Result  == [root : Roots, file : File]

ASSUME ChunkAssumption == N \in Nat
ASSUME FaultAssumption == Faults \subseteq FaultKinds
ASSUME LimitAssumption ==
  /\ MaxAttempts \in Nat /\ SaveEvery \in Nat \ {0} /\ Budget \in Nat
  /\ Policies \subseteq {"refuse", "replace"} /\ Lossy \in BOOLEAN
ASSUME MarkerAssumption ==
  /\ Junk \notin Roots /\ Gone \notin Roots /\ Junk # Gone /\ Foreign # None
  /\ None \notin File /\ None \notin Sidecar /\ None \notin Result /\ Foreign \notin Result

VARIABLES
  part,        \* the .part file, or None
  side,        \* the .part.meta sidecar, or None
  dest,        \* the destination: None, Foreign, or a finished download
  undo,        \* earlier <<part, side, dest>> a crash may fall back to: the
               \* directory updates not yet covered by an fsync of the directory
  deleting,    \* delete_partial is between its two removals
  pc,          \* where the current call is; "idle" between calls
  outcome,     \* how the last call ended
  cancelled,   \* the call's CancelToken
  policy,      \* the call's Overwrite
  man,         \* root of the manifest the call works for
  existing,    \* metadata(part) reported the manifest's length
  bits,        \* the in-memory ResumeState bitfield
  asked,       \* chunks the current query selects
  gained,      \* the round verified a new chunk (received() # before)
  noProgress, since,   \* no_progress, marks_since_save
  cur,         \* the chunk being written
  goal         \* what follows the commit + save under way

fs   == <<part, side, dest, undo>>
call == <<policy, man, existing, bits, asked, gained, noProgress, since, cur, goal>>
vars == <<fs, deleting, pc, outcome, cancelled, call>>

Pcs == {"idle", "start", "len", "load", "create", "setlen", "save", "open", "round",
        "recv", "write", "commit", "persist", "sync", "check", "rename", "unlink"}
Goals == {"recv", "cancelled", "incomplete", "done"}
Outcomes == {"none", "running", "ok", "failed"}

\* Keep one bounded representative of the per-call locals between calls.
Idle(res) ==
  /\ pc' = "idle" /\ outcome' = res /\ cancelled' = FALSE
  /\ policy' = "replace" /\ man' = None /\ existing' = FALSE /\ bits' = {} /\ asked' = {}
  /\ gained' = FALSE /\ noProgress' = 0 /\ since' = 0 /\ cur' = 0 /\ goal' = "done"

Init ==
  /\ part = None /\ side = None /\ dest = None /\ undo = {} /\ deleting = FALSE
  /\ pc = "idle" /\ outcome = "none" /\ cancelled = FALSE
  /\ policy = "replace" /\ man = None /\ existing = FALSE /\ bits = {} /\ asked = {}
  /\ gained = FALSE /\ noProgress = 0 /\ since = 0 /\ cur = 0 /\ goal = "done"

-----------------------------------------------------------------------------
(* The file system *)

NewFile      == [data |-> [i \in Chunks |-> Gone], disk |-> [i \in Chunks |-> {Gone}]]
Truncated(f) == [data |-> [i \in Chunks |-> Gone],
                 disk |-> [i \in Chunks |-> f.disk[i] \cup {Gone}]]
\* set_len: the missing tail reads as zeros.
Sized(f)     == [data |-> [i \in Chunks |-> IF f.data[i] = Gone THEN Junk ELSE f.data[i]],
                 disk |-> [i \in Chunks |-> f.disk[i] \cup {Junk}]]
\* An unsynced write may reach the disk whole, torn, or not at all.
Written(f, i, v) == [data |-> [f.data EXCEPT ![i] = v],
                     disk |-> [f.disk EXCEPT ![i] = @ \cup {v, Junk}]]
Synced(f)    == [data |-> f.data, disk |-> [i \in Chunks |-> {f.data[i]}]]
FullLen(f)   == \A i \in Chunks : f.data[i] # Gone
Survivors(f) == {[data |-> d, disk |-> [i \in Chunks |-> {d[i]}]] :
                   d \in {e \in [Chunks -> Data] : \A i \in Chunks : e[i] \in f.disk[i]}}

Here == <<part, side, dest>>
\* An update of the directory that no fsync of it has covered yet.
Unsynced == undo' = undo \cup {Here}

\* write / sync_data through the open handle; a file unlinked by
\* delete_partial takes them without ever being seen again.
PartWritten(i, v) == part' = IF part = None THEN None ELSE Written(part, i, v)
PartNotSynced     == part' = part
PartSynced        == part' = IF part = None THEN None ELSE Synced(part)

-----------------------------------------------------------------------------
(* ResumeState *)

MatchesAnyRoot(s, r) == s # None
Matches(s, r) == s # None /\ s.root = r

\* Unique temp file, sync_all, rename over the sidecar, fsync of the directory.
SaveAtomic(b) == side' = [root |-> man, bits |-> b] /\ undo' = {}

HolesPastEnd(b) == {i \in 0..N : i \notin b}
HolesWithinBudget(b) ==
  {i \in Chunks \ b : Cardinality({j \in Chunks \ b : j < i}) < Budget}
\* The first Budget holes, at least one (MAX_RANGE_SPANS is a second such cap).
HolesAsked(b) ==
  LET cap == IF Budget = 0 THEN 1 ELSE Budget
  IN  {i \in Chunks \ b : Cardinality({j \in Chunks \ b : j < i}) < cap}

-----------------------------------------------------------------------------
(* A call, from download_to to the end of the resume probe *)

Refused == policy = "refuse" /\ dest # None

\* ActiveGuard::acquire, then the early refusal.
Call(p) ==
  /\ pc = "idle"
  /\ IF p = "refuse" /\ dest # None
       THEN Idle("failed")
       ELSE /\ pc' = "start" /\ outcome' = "running" /\ policy' = p
            /\ UNCHANGED <<cancelled, man, existing, bits, asked, gained, noProgress, since,
                           cur, goal>>
  /\ UNCHANGED <<fs, deleting>>

\* The manifest of root r passed validation and the caller's pin.
Start(r) ==
  /\ pc = "start" /\ pc' = "len" /\ man' = r
  /\ UNCHANGED <<fs, deleting, outcome, cancelled, policy, existing, bits, asked, gained,
                 noProgress, since, cur, goal>>

ReadLen ==
  /\ pc = "len" /\ pc' = "load"
  /\ existing' = (part # None /\ FullLen(part))
  /\ UNCHANGED <<fs, deleting, outcome, cancelled, policy, man, bits, asked, gained,
                 noProgress, since, cur, goal>>

LoadSidecar ==
  /\ pc = "load"
  /\ IF Matches(side, man) /\ existing
       THEN pc' = "open" /\ bits' = side.bits
       ELSE pc' = "create" /\ bits' = {}
  /\ UNCHANGED <<fs, deleting, outcome, cancelled, policy, man, existing, asked, gained,
                 noProgress, since, cur, goal>>

\* File::create truncates the part that is there, or makes a directory entry.
CreatePart ==
  /\ pc = "create" /\ pc' = "setlen"
  /\ IF part = None THEN part' = NewFile /\ Unsynced
                    ELSE part' = Truncated(part) /\ undo' = undo
  /\ UNCHANGED <<side, dest, deleting, outcome, cancelled, call>>

SetLen ==
  /\ pc = "setlen" /\ pc' = "save"
  /\ part' = IF part = None THEN None ELSE Sized(part)
  /\ UNCHANGED <<side, dest, undo, deleting, outcome, cancelled, call>>

SaveFresh ==
  /\ pc = "save" /\ pc' = "open"
  /\ SaveAtomic({})
  /\ UNCHANGED <<part, dest, deleting, outcome, cancelled, call>>

OpenPart ==
  /\ pc = "open"
  /\ IF part = None THEN Idle("failed")
                    ELSE pc' = "round" /\ UNCHANGED <<outcome, cancelled, call>>
  /\ UNCHANGED <<fs, deleting>>

-----------------------------------------------------------------------------
(* fill_holes *)

\* sync_data, then save_atomic, then whatever g says.
CommitThen(g) == pc' = "commit" /\ goal' = g

Round ==
  /\ pc = "round"
  /\ IF bits = Chunks
       THEN CommitThen("done") /\ UNCHANGED <<asked, gained>>
       ELSE IF cancelled
              THEN CommitThen("cancelled") /\ UNCHANGED <<asked, gained>>
              ELSE pc' = "recv" /\ asked' = HolesAsked(bits) /\ gained' = FALSE /\ goal' = goal
  /\ UNCHANGED <<fs, deleting, outcome, cancelled, policy, man, existing, bits, noProgress,
                 since, cur>>

\* until_cancelled resolved to the token rather than to a reply.
RecvCancelled ==
  /\ pc = "recv" /\ cancelled /\ CommitThen("cancelled")
  /\ UNCHANGED <<fs, deleting, outcome, cancelled, policy, man, existing, bits, asked, gained,
                 noProgress, since, cur>>

\* A reply for a chunk still missing, whose slice verifies against the root,
\* whether or not this query asked for it.  Replies with another encoding, an
\* unusable index, a chunk already held or a slice that does not verify change
\* nothing.  The leaves of the slice are written one after the other.
RecvGood(i) ==
  /\ pc = "recv" /\ i \notin bits
  /\ pc' = "write" /\ cur' = i /\ PartWritten(i, Junk)
  /\ UNCHANGED <<side, dest, undo, deleting, outcome, cancelled, policy, man, existing, bits,
                 asked, gained, noProgress, since, goal>>

SaveOverdue == since > SaveEvery
SaveDue     == since + 1 >= SaveEvery

\* The last leaf is written and the bit marked; a save is due after SaveEvery
\* marks, or because two seconds have passed since the last one.
MarkChunk(timer) ==
  /\ pc = "write"
  /\ PartWritten(cur, man)
  /\ bits' = bits \cup {cur} /\ gained' = TRUE
  /\ IF SaveDue \/ timer THEN CommitThen("recv") /\ since' = 0
                         ELSE pc' = "recv" /\ since' = since + 1 /\ goal' = goal
  /\ cur' = 0
  /\ UNCHANGED <<side, dest, undo, deleting, outcome, cancelled, policy, man, existing, asked,
                 noProgress>>

RoundEndForgiving ==
  /\ pc = "recv" /\ (Lossy \/ asked \subseteq bits)
  /\ IF bits = Chunks
       THEN CommitThen("done") /\ noProgress' = noProgress
       ELSE pc' = "round" /\ noProgress' = 0 /\ goal' = goal
  /\ UNCHANGED <<fs, deleting, outcome, cancelled, policy, man, existing, bits, asked, gained,
                 since, cur>>

\* The reply channel closed: every holder answered, or the query timed out.
RoundEnd ==
  /\ pc = "recv" /\ (Lossy \/ asked \subseteq bits)
  /\ IF bits = Chunks
       THEN CommitThen("done") /\ noProgress' = noProgress
       ELSE IF gained
              THEN pc' = "round" /\ noProgress' = 0 /\ goal' = goal
              ELSE IF noProgress + 1 >= MaxAttempts
                     THEN CommitThen("incomplete") /\ noProgress' = noProgress
                     ELSE pc' = "round" /\ noProgress' = noProgress + 1 /\ goal' = goal
  /\ UNCHANGED <<fs, deleting, outcome, cancelled, policy, man, existing, bits, asked, gained,
                 since, cur>>

Commit ==
  /\ pc = "commit" /\ pc' = "persist" /\ PartSynced
  /\ UNCHANGED <<side, dest, undo, deleting, outcome, cancelled, call>>

Persist ==
  /\ pc = "persist"
  /\ SaveAtomic(bits)
  /\ CASE goal = "recv" -> pc' = "recv" /\ UNCHANGED <<outcome, cancelled, call>>
       [] goal = "done" -> pc' = "sync" /\ UNCHANGED <<outcome, cancelled, call>>
       [] OTHER         -> Idle("failed")
  /\ UNCHANGED <<part, dest, deleting>>

-----------------------------------------------------------------------------
(* The end of download_to_inner *)

SyncData ==
  /\ pc = "sync" /\ pc' = "check" /\ PartSynced
  /\ UNCHANGED <<side, dest, undo, deleting, outcome, cancelled, call>>

LateCheckSkipped ==
  /\ pc = "check" /\ pc' = "rename" /\ UNCHANGED <<fs, deleting, outcome, cancelled, call>>

LateCheck ==
  /\ pc = "check"
  /\ IF Refused THEN Idle("failed")
                ELSE pc' = "rename" /\ UNCHANGED <<outcome, cancelled, call>>
  /\ UNCHANGED <<fs, deleting>>

Rename ==
  /\ pc = "rename"
  /\ IF part = None
       THEN Idle("failed") /\ UNCHANGED fs
       ELSE /\ dest' = [root |-> man, file |-> part] /\ part' = None /\ Unsynced
            /\ pc' = "unlink" /\ UNCHANGED <<side, outcome, cancelled, call>>
  /\ UNCHANGED deleting

RemoveSidecar ==
  /\ pc = "unlink"
  /\ side' = None /\ Unsynced /\ Idle("ok")
  /\ UNCHANGED <<part, dest, deleting>>

-----------------------------------------------------------------------------
(* The environment: the caller, other processes, failures *)

\* The token may be set at any time; it is read only in these two places.
Cancel ==
  /\ "cancel" \in Faults /\ pc \in {"round", "recv"} /\ ~cancelled /\ cancelled' = TRUE
  /\ UNCHANGED <<fs, deleting, pc, outcome, call>>

\* delete_partial holds no guard: it may run at any time.
DeletePart ==
  /\ "delete" \in Faults /\ ~deleting /\ deleting' = TRUE
  /\ part' = None /\ Unsynced
  /\ UNCHANGED <<side, dest, pc, outcome, cancelled, call>>

DeleteSidecar ==
  /\ deleting /\ deleting' = FALSE
  /\ side' = None /\ Unsynced
  /\ UNCHANGED <<part, dest, pc, outcome, cancelled, call>>

\* Another program puts a file at the destination (not between the late check
\* and the rename, where nothing protects it).
DestAppears ==
  /\ "appear" \in Faults /\ dest = None /\ pc # "rename"
  /\ dest' = Foreign /\ undo' = {<<t[1], t[2], Foreign>> : t \in undo}
  /\ UNCHANGED <<part, side, deleting, pc, outcome, cancelled, call>>

InWindow == pc = "save"

\* An I/O error, or the caller drops the future: memory is lost, files stay.
Abandon ==
  /\ "abandon" \in Faults /\ pc # "idle" /\ (InWindow => "window" \in Faults)
  /\ Idle("failed") /\ UNCHANGED <<fs, deleting>>

Crash ==
  /\ "crash" \in Faults /\ (InWindow => "window" \in Faults)
  /\ \E t \in undo \cup {Here} :
       /\ part' \in IF t[1] = None THEN {None} ELSE Survivors(t[1])
       /\ side' = t[2]
       /\ dest' \in IF t[3] \in {None, Foreign} THEN {t[3]}
                    ELSE {[root |-> t[3].root, file |-> f] : f \in Survivors(t[3].file)}
  /\ undo' = {} /\ deleting' = FALSE /\ Idle("failed")

-----------------------------------------------------------------------------
ClientStep ==
  \/ \E r \in Roots : Start(r)
  \/ ReadLen \/ LoadSidecar \/ CreatePart \/ SetLen \/ SaveFresh \/ OpenPart
  \/ Round \/ RecvCancelled \/ RoundEnd
  \/ \E i \in Chunks : RecvGood(i)
  \/ \E timer \in BOOLEAN : MarkChunk(timer)
  \/ Commit \/ Persist \/ SyncData \/ LateCheck \/ Rename \/ RemoveSidecar

Environment ==
  \/ \E p \in Policies : Call(p)
  \/ Cancel \/ DeletePart \/ DeleteSidecar \/ DestAppears \/ Abandon \/ Crash

Next == ClientStep \/ Environment

Spec == Init /\ [][Next]_vars

\* Every await of a call ends: local I/O completes and a query ends with the
\* last reply or at query_timeout.
FairSpec == Spec /\ WF_vars(ClientStep)

-----------------------------------------------------------------------------
(* Properties *)

FsType ==
  /\ part \in File \cup {None}
  /\ side \in Sidecar \cup {None}
  /\ dest \in Result \cup {None, Foreign}
  /\ undo \subseteq (File \cup {None}) \X (Sidecar \cup {None}) \X (Result \cup {None, Foreign})
  /\ deleting \in BOOLEAN

CallType ==
  /\ pc \in Pcs /\ outcome \in Outcomes /\ cancelled \in BOOLEAN
  /\ policy \in {"refuse", "replace"} /\ man \in Roots \cup {None}
  /\ existing \in BOOLEAN /\ bits \subseteq Chunks /\ asked \subseteq Chunks
  /\ gained \in BOOLEAN /\ noProgress \in Nat /\ since \in Nat /\ cur \in Nat
  /\ goal \in Goals

\* Shape of the state of a download (ResumeState and the locals of fill_holes).
TypeOK == FsType /\ CallType

WholeFile(d) ==
  d \in {None, Foreign} \/ \A i \in Chunks : d.file.data[i] = d.root /\ d.file.disk[i] = {d.root}

\* download_to_inner renames the part without a second hash pass: whatever
\* crashes, errors, cancellations, deletions and changes of the served root
\* came before, each chunk of a finished destination is the one of the root
\* it was downloaded for, and stays so over a crash.
DestVerified == WholeFile(dest) /\ \A t \in undo : WholeFile(t[3])

Backed(p, s) ==
  p # None /\ s # None => \A i \in s.bits : p.data[i] \in {s.root, Gone}
                                            /\ p.disk[i] \subseteq {s.root, Gone}

\* Rule 2 of resume.rs: in every state a crash may leave, a bit of the sidecar
\* claims a chunk of its root that is on disk (or a part so short that the
\* length check of the resume probe discards it).  Not so between set_len of a
\* fresh part and the save of its fresh sidecar.
BitsBacked == InWindow \/ (Backed(part, side) /\ \A t \in undo : Backed(t[1], t[2]))

\* Batched saves of fill_holes: while replies arrive, a crash costs fewer than
\* SaveEvery verified chunks (as long as delete_partial leaves the sidecar).
BoundedLoss ==
  pc = "recv" /\ side # None => Cardinality(bits \ side.bits) < SaveEvery

\* Overwrite::Refuse: a call never renames over a destination, even one that
\* appeared while it was fetching (up to the late check).
RefuseKeepsDest == [][pc = "rename" /\ dest' # dest /\ policy = "refuse" => dest = None]_vars

\* fill_holes gives up after MaxAttempts barren rounds and keeps no call
\* waiting: every call ends, whatever the responders answer.
CallEnds == pc # "idle" ~> pc = "idle"

\* A round ends with everything it asked for; nobody cancels or deletes.
Honest ==
  /\ pc = "recv" /\ (pc' = "round" \/ (pc' = "commit" /\ goal' = "incomplete")) => asked \subseteq bits
  /\ cancelled' => cancelled
  /\ ~deleting'

\* fill_holes asks for at least one hole in every round and starts from what it
\* finds on disk: once responders answer what is asked and nobody interferes,
\* calls end with the file in place, whatever the calls before left behind.
HonestCompletes ==
  <>[][Honest]_vars => ([]<>(pc = "start" /\ policy = "replace") => []<>(outcome = "ok"))
=============================================================================
