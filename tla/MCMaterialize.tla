---------------------------- MODULE MCMaterialize ----------------------------
(* Materialize on small trees: two names, two levels and one path of three. *)
EXTENDS Materialize, TLC

MCNames == {"a", "b", "o"}
MCPaths == {<<x>> : x \in {"a", "b"}} \cup {<<x, y>> : x \in {"a", "b"}, y \in {"a", "b"}}
           \cup {<<"a", "a", "a">>}

Dir(p)      == [kind |-> "dir", path |-> p, locked |-> FALSE]
File(p, c)  == [kind |-> "file", path |-> p, chunks |-> c]
Hard(p, t)  == [kind |-> "hardlink", path |-> p, to |-> t]
Link(p, t)  == [kind |-> "symlink", path |-> p, to |-> t]
Locked(p)   == [Dir(p) EXCEPT !.locked = TRUE]

\* A file and a hard link to it, before and after the file changes.
Old == <<Dir(<<"a">>), File(<<"a", "a">>, <<"x", "y">>), Hard(<<"a", "b">>, <<"a", "a">>)>>
New == <<Dir(<<"a">>), File(<<"a", "a">>, <<"z">>), Hard(<<"a", "b">>, <<"a", "a">>),
         Link(<<"b">>, <<"a", "b">>)>>
\* A link where another snapshot has a file, and the other way round.
Turned == <<Dir(<<"a">>), File(<<"a", "a">>, <<"z">>), File(<<"b">>, <<"x">>)>>
\* A link where another snapshot has a directory.
Linked == <<File(<<"b">>, <<"z">>), Link(<<"a">>, <<"b">>)>>
\* The example of assert_symlinks_confined, a chain that stays inside, a cycle.
Escape == <<Dir(<<"a">>), Link(<<"a", "b">>, <<Up>>), Link(<<"b">>, <<"a", "b", Up, "a">>)>>
Chain  == <<Dir(<<"a">>), Link(<<"a", "b">>, <<Up>>), Link(<<"b">>, <<"a", "b", "a">>)>>
Cycle  == <<Link(<<"a">>, <<"b">>), Link(<<"b">>, <<"a">>)>>
\* A read-only directory.
Sealed == <<Locked(<<"a">>), File(<<"a", "a">>, <<"x">>), Link(<<"b">>, <<"a">>)>>
\* A link above a file.
Odd    == <<Link(<<"a">>, <<"b">>), File(<<"a", "a">>, <<"x">>)>>
\* A file above a file, and a hard link to what is not there.
Folded == <<File(<<"b", "a">>, <<"x">>), File(<<"b">>, <<"z">>), Link(<<"a">>, <<"b">>)>>
Loose  == <<Hard(<<"b">>, <<"o">>)>>
\* A path that is not a path below the root.
Foul   == <<File(<<Up, "a">>, <<"x">>)>>

Snaps == {Old, New, Turned, Linked, Escape, Chain, Cycle, Sealed, Odd, Folded, Loose, Foul}
MCPlans == [snaps : {{s, t} : s \in Snaps, t \in Snaps}, replace : BOOLEAN]

Empty   == [p \in Paths |-> Nothing]
Blank   == [i \in Inodes |-> <<>>]
\* Nothing; files of the user in directories; links of the user, two of them
\* out of the directory; links in a locked directory; a locked directory in one
\* that is not.
MCStarts ==
  {[fs |-> Empty, content |-> Blank],
   [fs |-> (<<"a">> :> Folder @@ <<"a", "b">> :> FileAt(1)) @@ Empty, content |-> (1 :> <<"u">>) @@ Blank],
   [fs |-> (<<"a">> :> Folder @@ <<"a", "b">> :> FileAt(1) @@ <<"a", "a">> :> [Folder EXCEPT !.locked = TRUE]
            @@ <<"a", "a", "a">> :> FileAt(2)) @@ Empty,
    content |-> (1 :> <<"u">> @@ 2 :> <<"u">>) @@ Blank],
   [fs |-> (<<"a">> :> LinkTo(<<Up, "o">>) @@ <<"b">> :> FileAt(1)) @@ Empty,
    content |-> (1 :> <<"u">>) @@ Blank],
   [fs |-> (<<"a">> :> Folder @@ <<"a", "a">> :> LinkTo(<<Up, Up, "o">>) @@ <<"b">> :> LinkTo(<<"a">>)) @@ Empty,
    content |-> Blank],
   [fs |-> (<<"a">> :> [Folder EXCEPT !.locked = TRUE] @@ <<"a", "a">> :> LinkTo(<<Up, Up, "o">>)
            @@ <<"a", "b">> :> LinkTo(<<Up, "b">>)) @@ Empty,
    content |-> Blank],
   [fs |-> (<<"a">> :> [Folder EXCEPT !.locked = TRUE] @@ <<"a", "a">> :> LinkTo(<<"b">>)) @@ Empty,
    content |-> Blank]}
=============================================================================
