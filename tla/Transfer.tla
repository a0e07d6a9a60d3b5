------------------------------ MODULE Transfer ------------------------------
(***************************************************************************)
(* What every way of fetching a blob promises: a call holds the chunks it  *)
(* has verified, the disk keeps some of them, and a record on disk names   *)
(* the ones a later call may take for granted.  The record never runs      *)
(* ahead of the disk, and a call ends well only with the whole blob on it. *)
(***************************************************************************)
EXTENDS Naturals

CONSTANT Chunks

VARIABLES
  status,    \* of the call: "idle", "running", "ok" or "failed"
  held,      \* chunks the running call has verified
  disk,      \* chunks that survive a crash
  kept       \* chunks the record vouches for

vars == <<status, held, disk, kept>>

Init ==
  /\ status = "idle" /\ held = {}
  /\ disk \in SUBSET Chunks /\ kept \in SUBSET disk

\* A call resumes from the record or starts afresh.
Begin ==
  /\ status # "running" /\ status' = "running"
  /\ \/ held' = kept /\ UNCHANGED <<disk, kept>>
     \/ held' = {} /\ disk' = {} /\ kept' = {}

\* A call that is turned away before it starts.
Refused ==
  /\ status # "running" /\ status' = "failed"
  /\ UNCHANGED <<held, disk, kept>>

Gain ==
  /\ status = "running" /\ held' \in SUBSET Chunks /\ held \subseteq held'
  /\ UNCHANGED <<status, disk, kept>>

\* What is held reaches the disk, and then the record; either may happen
\* without a new call, but never the record alone.
Persist ==
  /\ status = "running"
  /\ disk' = disk \cup held /\ kept' \in {kept, held}
  /\ UNCHANGED <<status, held>>

\* The call returns the blob; the record is no longer needed.
Finish ==
  /\ status = "running" /\ held = Chunks
  /\ status' = "ok" /\ held' = {} /\ disk' = {} /\ kept' = {}

\* The call fails, is cancelled, or dies: what it held is on the disk and in
\* the record, or lost, or it has removed both.
Stop ==
  /\ status = "running" /\ status' = "failed" /\ held' = {}
  /\ \/ disk' \in {disk, disk \cup held} /\ kept' \in {kept, held} /\ kept' \subseteq disk'
     \/ disk' = {} /\ kept' = {}

Next == Begin \/ Refused \/ Gain \/ Persist \/ Finish \/ Stop

Spec == Init /\ [][Next]_vars

\* What the record vouches for is on the disk.
Backed == kept \subseteq disk
=============================================================================
