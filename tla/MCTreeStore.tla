---------------------------- MODULE MCTreeStore ----------------------------
(* Instances of TreeStore for TLC: two snapshots that share a chunk. *)
EXTENDS TreeStore, TLC

CONSTANTS c1, c2, i1, s1, s2

\* Two snapshots, one of whose chunks both need.
SharedNeeds == s1 :> {c1, c2} @@ s2 :> {c2}
\* One snapshot of every chunk but the pieces of indexes.
OneNeeds == s1 :> Chunks \ {i1}
\* No index is sharded, or every index has its own piece i1.
NoShards == [s \in Snapshots |-> {}]
OneShard == [s \in Snapshots |-> {i1}]
=============================================================================
