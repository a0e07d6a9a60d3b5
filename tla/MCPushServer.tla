---------------------------- MODULE MCPushServer ----------------------------
(* PushServer on small instances; the bounds are in the cfg files. *)
EXTENDS PushServer, TLC, FiniteSetsExt

\* Every choice of so many ids, contents and handlers, so that they stay
\* interchangeable.
Sized(i, r, h, may) ==
  [ids : kSubset(i, Ids), roots : kSubset(r, Roots), handlers : kSubset(h, Handlers), may : {may}]

\* Uploaders of one id with two contents take turns; two ids compete for one
\* place; all queries for one id overlap; the modelled uploader is at work among
\* others.
MCWorlds ==
  Sized(1, 2, 3, {"timeout", "restart", "application"})
  \cup Sized(2, 1, 2, {"timeout", "restart", "application"})
  \cup Sized(1, 2, 2, {"timeout", "overlap", "application"})
  \cup Sized(1, 2, 3, {"upload"})

\* Ids, contents and handlers are only compared for equality.
PushSymmetry == Permutations(Ids) \cup Permutations(Roots) \cup Permutations(Handlers)
=============================================================================
