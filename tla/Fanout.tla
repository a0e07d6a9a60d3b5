------------------------------- MODULE Fanout -------------------------------
(***************************************************************************)
(* The fanout tier (fanout.rs): a publisher puts the manifest and then     *)
(* every slice once, and keeps the last of them in a cache for subscribers *)
(* that join late or miss a sample; a receiver waits for a manifest it can *)
(* accept (phase A), then writes slices into <dest>.part until it has them *)
(* all (phase B).                                                          *)
(*                                                                         *)
(* Frame 0 is the manifest, frame i the slice of chunk i-1.  Zenoh's       *)
(* advanced publisher and subscriber are external: history and recovery    *)
(* bring back what the transport missed as long as the cache has it, and   *)
(* nothing the receiver discarded.                                         *)
(***************************************************************************)
EXTENDS Naturals, Sequences

CONSTANTS
  Count,         \* slices of the blob
  CacheSizes,    \* values of cache_samples
  EarlyMax,      \* EARLY_SLICE_MAX_FRAMES, or as many as max_early_bytes holds
  Refuse,        \* Overwrite::Refuse
  MaxFaults,     \* bound on losses, crashes, cancellations and the like
  None

ASSUME FanoutAssumption ==
  Count \in Nat /\ CacheSizes \subseteq Nat /\ EarlyMax \in Nat /\ MaxFaults \in Nat

VARIABLES
  cacheSamples,  \* the publisher's configuration
  sent, alive,   \* frames put so far; the handle is held
  pc,            \* receiver: "idle", "manifest", "slices", "check", "rename"
  joined,        \* a subscriber is declared
  pending,       \* frames on their way to it
  lost,          \* frames the transport missed
  junk,          \* a sample that brings no progress is on its way
  early,         \* phase A's buffer, repeats included; 0: one that will not verify
  dropped,       \* slices discarded because the buffer was full
  present,       \* chunks verified and written
  received,      \* the counter that ends phase B
  part,          \* <dest>.part: None or the chunks it holds
  dest,          \* None, "old", "whole" or "holed"
  stale,         \* stall_timeout has passed since last_progress
  cancel, outcome, faults

publisher == <<cacheSamples, sent, alive>>
locals    == <<early, dropped, present, received, stale, cancel>>
receiver  == <<pc, joined, locals, part, dest, outcome>>
network   == <<pending, lost, junk>>
vars      == <<publisher, receiver, network, faults>>

Frames == 0..Count
Slices == 1..Count

Outcomes == {"exists", "incomplete", "cancelled", "ok", "crashed"}
ASSUME MarkerAssumption == None \notin Outcomes \cup {"old", "whole", "holed"}

-----------------------------------------------------------------------------
(* The publisher *)

CacheSlicesOnly ==
  LET n == IF cacheSamples = 0 THEN 1 ELSE cacheSamples
  IN  IF n < Count THEN n ELSE Count
\* fanout_file: how many samples the cache retains.
CacheSize ==
  LET n == IF cacheSamples = 0 THEN 1 ELSE cacheSamples
  IN  IF n < Count + 1 THEN n ELSE Count + 1

\* What history and recovery can bring back.
Cached == IF alive THEN {f \in Frames : f < sent /\ f + CacheSize >= sent} ELSE {}

\* The next put: the manifest first, then the slices in order.
Put ==
  /\ alive /\ sent <= Count /\ sent' = sent + 1
  /\ pending' = IF joined THEN pending \cup {sent} ELSE pending
  /\ UNCHANGED <<cacheSamples, alive, lost, junk, receiver, faults>>

Fault == faults < MaxFaults /\ faults' = faults + 1

\* FanoutHandle::shutdown, or the end of the process.
Shutdown ==
  /\ alive /\ alive' = FALSE /\ Fault
  /\ UNCHANGED <<cacheSamples, sent, receiver, network>>

-----------------------------------------------------------------------------
(* Zenoh, as the receiver relies on it *)

Lose ==
  /\ Fault /\ \E f \in pending : pending' = pending \ {f} /\ lost' = lost \cup {f}
  /\ UNCHANGED <<publisher, receiver, junk>>

\* Recovery: a missed sample is asked for again.
Recover ==
  /\ joined /\ \E f \in lost \cap Cached : lost' = lost \ {f} /\ pending' = pending \cup {f}
  /\ UNCHANGED <<publisher, receiver, junk, faults>>

\* A sample arrives a second time (replayed history beside the live stream).
Duplicate ==
  /\ joined /\ Fault
  /\ \E f \in Cached : f \notin pending /\ pending' = pending \cup {f}
  /\ UNCHANGED <<publisher, receiver, lost, junk>>

\* Whoever else publishes on the key may do so without end.
JunkArrives ==
  /\ joined /\ ~junk /\ junk' = TRUE
  /\ UNCHANGED <<publisher, receiver, pending, lost, faults>>

-----------------------------------------------------------------------------
(* receive_fanout *)

\* The locals of a call that has ended, and its subscriber.
Return(why) ==
  /\ pc' = "idle" /\ outcome' = why
  /\ joined' = FALSE /\ pending' = {} /\ lost' = {} /\ junk' = FALSE
  /\ early' = <<>> /\ dropped' = {} /\ present' = {} /\ received' = 0
  /\ stale' = FALSE /\ cancel' = FALSE

\* The early check, then the subscriber and its history query.
Receive ==
  /\ pc = "idle" /\ outcome # "ok"
  /\ IF Refuse /\ dest # None
       THEN outcome' = "exists" /\ UNCHANGED <<pc, joined, pending>>
       ELSE pc' = "manifest" /\ joined' = TRUE /\ pending' = Cached /\ outcome' = None
  /\ UNCHANGED <<publisher, lost, junk, locals, part, dest, faults>>

EarlySliceUnbounded ==
  /\ pc = "manifest"
  /\ \E f \in pending \cap Slices : pending' = pending \ {f} /\ early' = Append(early, f)
  /\ UNCHANGED <<publisher, lost, junk, pc, joined, dropped, present, received, stale, cancel,
                 part, dest, outcome, faults>>
\* Phase A, a slice: buffered while there is room, even if it is there already,
\* dropped otherwise.
EarlySlice ==
  /\ pc = "manifest"
  /\ \E f \in pending \cap Slices :
       /\ pending' = pending \ {f}
       /\ IF Len(early) < EarlyMax
            THEN early' = Append(early, f) /\ UNCHANGED dropped
            ELSE dropped' = dropped \cup {f} /\ UNCHANGED early
  /\ UNCHANGED <<publisher, lost, junk, pc, joined, present, received, stale, cancel,
                 part, dest, outcome, faults>>

\* A slice that will not verify takes room in phase A's buffer.
Stray ==
  /\ pc = "manifest" /\ Len(early) < EarlyMax /\ early' = Append(early, 0) /\ Fault
  /\ UNCHANGED <<publisher, network, pc, joined, dropped, present, received, stale, cancel,
                 part, dest, outcome>>

\* apply_slice: one that verifies is written and counted the first time.
Apply(f, have) == have \cup ({f} \cap Slices)
CountedTwice(f, have, n) == IF f \in Slices THEN n + 1 ELSE n
\* ... and its counter.
Counted(f, have, n) == IF f \in Slices \ have THEN n + 1 ELSE n
TakeIn(f) ==
  /\ present' = Apply(f, present) /\ received' = Counted(f, present, received)
  /\ part' = Apply(f, part)

\* Phase A, an acceptable manifest: the part is created at its full length.
TakeManifest ==
  /\ pc = "manifest" /\ 0 \in pending /\ pending' = pending \ {0}
  /\ pc' = "slices" /\ present' = {} /\ received' = 0 /\ part' = {} /\ stale' = FALSE
  /\ UNCHANGED <<publisher, lost, junk, joined, early, dropped, cancel, dest, outcome, faults>>

\* The buffer is drained before anything else is looked at.
Drain ==
  /\ pc = "slices" /\ early # <<>> /\ TakeIn(Head(early)) /\ early' = Tail(early)
  /\ UNCHANGED <<publisher, network, pc, joined, dropped, stale, cancel, dest, outcome, faults>>

\* The loops that wait for a sample.
Waiting == pc = "manifest" \/ (pc = "slices" /\ early = <<>> /\ received < Count)

\* Phase B, a slice, delivered for the first time or again; progress starts the
\* timer anew.
TakeSlice ==
  /\ Waiting /\ pc = "slices"
  /\ \E f \in (pending \cap Slices) :
       /\ pending' = pending \ {f} /\ TakeIn(f)
       /\ stale' = (stale /\ f \in present)
  /\ UNCHANGED <<publisher, lost, junk, pc, joined, early, dropped, cancel, dest, outcome, faults>>

\* A manifest after the first is not a slice.
SkipManifest ==
  /\ Waiting /\ pc = "slices" /\ 0 \in pending /\ pending' = pending \ {0}
  /\ UNCHANGED <<publisher, receiver, lost, junk, faults>>

SkipJunkResets ==
  /\ Waiting /\ junk /\ junk' = FALSE /\ stale' = FALSE
  /\ UNCHANGED <<publisher, pending, lost, pc, joined, early, dropped, present, received, cancel,
                 part, dest, outcome, faults>>
\* A sample of a foreign encoding or version, a manifest that is not accepted,
\* a slice that does not verify (in phase B): nothing but the wait begins anew.
SkipJunk ==
  /\ Waiting /\ junk /\ junk' = FALSE
  /\ UNCHANGED <<publisher, receiver, pending, lost, faults>>

\* Nothing that would make progress is on its way.
Starved ==
  /\ Waiting
  /\ CASE pc = "manifest" -> 0 \notin pending /\ 0 \notin lost \cap Cached /\ ~(alive /\ sent = 0)
       [] pc = "slices"   -> /\ pending \cap Slices \subseteq present
                             /\ lost \cap Cached \cap Slices \subseteq present
                             /\ ~(alive /\ sent <= Count)

\* stall_timeout passes without progress: because none is to be had, or (a
\* fault) sooner than what is on its way arrives.
Elapse ==
  /\ Waiting /\ ~stale /\ stale' = TRUE
  /\ UNCHANGED <<publisher, network, pc, joined, early, dropped, present, received, cancel,
                 part, dest, outcome>>
Overdue == Starved /\ Elapse /\ UNCHANGED faults
Hasty   == ~Starved /\ Elapse /\ Fault

\* The call ends, in phase A at last_progress, which is never set anew.
Stall ==
  /\ Waiting /\ stale
  /\ part' = IF pc = "slices" THEN None ELSE part
  /\ Return("incomplete")
  /\ UNCHANGED <<publisher, dest, faults>>

RequestCancel ==
  /\ pc # "idle" /\ ~cancel /\ cancel' = TRUE /\ Fault
  /\ UNCHANGED <<publisher, network, pc, joined, early, dropped, present, received, stale,
                 part, dest, outcome>>

\* Observed between samples and while waiting for one; the part is removed.
Cancelled ==
  /\ Waiting /\ cancel
  /\ part' = IF pc = "slices" THEN None ELSE part
  /\ Return("cancelled")
  /\ UNCHANGED <<publisher, dest, faults>>

\* All slices counted: the part is synced.
Synced ==
  /\ pc = "slices" /\ early = <<>> /\ received >= Count /\ pc' = "check"
  /\ UNCHANGED <<publisher, network, joined, locals, part, dest, outcome, faults>>

\* The late check keeps the finished part.
LateCheck ==
  /\ pc = "check"
  /\ IF Refuse /\ dest # None
       THEN Return("exists")
       ELSE /\ pc' = "rename"
            /\ UNCHANGED <<network, joined, locals, outcome>>
  /\ UNCHANGED <<publisher, part, dest, faults>>

\* ... and the part becomes the destination.
Rename ==
  /\ pc = "rename" /\ dest' = IF part = Slices THEN "whole" ELSE "holed"
  /\ part' = None /\ Return("ok")
  /\ UNCHANGED <<publisher, faults>>

\* The process dies, or the future is dropped: the part stays behind.
Crash ==
  /\ pc # "idle" /\ Fault /\ Return("crashed")
  /\ UNCHANGED <<publisher, part, dest>>

\* Another process creates the destination.
DestAppears ==
  /\ dest = None /\ Fault /\ dest' = "old"
  /\ UNCHANGED <<publisher, network, pc, joined, locals, part, outcome>>

-----------------------------------------------------------------------------
Init ==
  /\ cacheSamples \in CacheSizes /\ sent = 0 /\ alive = TRUE
  /\ pc = "idle" /\ joined = FALSE /\ pending = {} /\ lost = {} /\ junk = FALSE
  /\ early = <<>> /\ dropped = {} /\ present = {} /\ received = 0 /\ stale = FALSE
  /\ part = None /\ dest = None /\ cancel = FALSE /\ outcome = None /\ faults = 0

Progress == \/ TakeManifest \/ Drain \/ TakeSlice \/ EarlySlice \/ SkipManifest
            \/ Synced \/ LateCheck \/ Rename

Next ==
  \/ Put \/ Shutdown \/ Lose \/ Recover \/ Duplicate \/ Stray \/ JunkArrives
  \/ Receive \/ Progress \/ SkipJunk \/ Overdue \/ Hasty \/ Stall \/ RequestCancel \/ Cancelled \/ Crash \/ DestAppears

\* The publisher goes on putting, Zenoh recovers what the cache still has, the
\* receiver takes what arrives and its timers run.
Fairness ==
  /\ WF_vars(Put) /\ WF_vars(Recover) /\ WF_vars(Progress)
  /\ WF_vars(Overdue) /\ WF_vars(Stall) /\ WF_vars(Cancelled)

Spec == Init /\ [][Next]_vars /\ Fairness

-----------------------------------------------------------------------------
(* Properties *)

\* Shape of the state of publisher and receiver; the slices buffered before the
\* manifest, repeats and forgeries too, stay within EARLY_SLICE_MAX_FRAMES.
TypeOK ==
  /\ pc \in {"idle", "manifest", "slices", "check", "rename"}
  /\ pending \cup lost \subseteq Frames /\ dropped \cup present \subseteq Slices
  /\ early \in Seq(Frames) /\ Len(early) <= EarlyMax /\ {stale, junk} \subseteq BOOLEAN
  /\ received \in 0..Count /\ (part = None \/ part \subseteq Slices)

\* receive_fanout returns: a publisher that is gone or whose cache no longer has
\* what was missed cannot hold it open, nor can one that sends junk without end,
\* each sample of which begins the wait for the next anew.
ReceiverEnds == (pc # "idle") ~> (pc = "idle")

\* Nothing went wrong but losses and repeats, nothing was discarded, and no
\* stall_timeout was over before what was on its way arrived.
Undisturbed == /\ alive /\ ~cancel /\ dropped = {} /\ dest # "old" /\ outcome # "crashed"
               /\ stale => Starved

\* A subscriber that joins at any time, before, during or after publication,
\* gets the blob despite losses, provided that the cache keeps every frame.
JoinerServed ==
  ([]Undisturbed /\ cacheSamples > Count) => [](pc = "manifest" => <>(outcome = "ok"))

\* A fanout reception implements Transfer without a record: it ends well only
\* with every chunk verified and written, and leaves nothing to resume from.
T == INSTANCE Transfer WITH
  Chunks <- Slices,
  status <- IF pc # "idle" THEN "running"
            ELSE CASE outcome = None -> "idle" [] outcome = "ok" -> "ok" [] OTHER -> "failed",
  held   <- present,
  disk   <- {},
  kept   <- {}

ImplementsTransfer == T!Spec
=============================================================================
