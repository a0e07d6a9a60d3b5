---------------------------- MODULE Materialize ----------------------------
(***************************************************************************)
(* The end of download_tree in zblob: reconstruct_tree (tree.rs) writes    *)
(* the entries of a validated index into a directory, in place, one after  *)
(* the other, with the helpers of paths.rs.  The process may stop between  *)
(* any two steps, and the next call, for the same snapshot or for another, *)
(* finds what it left.                                                     *)
(*                                                                         *)
(* A path is a sequence of names below the destination root.  A file has   *)
(* an inode, so that hard links and the truncation of a file that could    *)
(* not be removed are what they are; its content is the sequence of the    *)
(* chunks written to it.  Of the mode only its effect on later steps is    *)
(* kept: a directory may be locked (no write permission for its owner).    *)
(***************************************************************************)
EXTENDS Naturals, Sequences, SequencesExt, FiniteSets

CONSTANTS
  Names,      \* the names that paths are made of
  Chunks,     \* what files are made of
  Paths,      \* the paths that may exist below the root
  Starts,     \* what a destination may hold before the first call
  Plans,      \* the snapshots that calls to one destination ask for, and
              \* whether their policy is to replace directories
  MaxHops,    \* MAX_SYMLINK_HOPS
  KernelHops, \* the links the kernel follows in one path (ELOOP)
  MaxLen      \* the components of the longest path or link target

Up      == ".."
Nothing == [kind |-> "none", ino |-> 0, to |-> <<>>, locked |-> FALSE]
Folder  == [Nothing EXCEPT !.kind = "dir"]
FileAt(i) == [Nothing EXCEPT !.kind = "file", !.ino = i]
LinkTo(t) == [Nothing EXCEPT !.kind = "link", !.to = t]
Inodes  == 1..(Cardinality(Paths) + 1)

\* A path as an index or a link spells it.
Spelt == {t \in Seq(Names \cup {Up}) : Len(t) <= MaxLen}
Node  == [kind : {"none", "dir", "file", "link"}, ino : Inodes \cup {0}, to : Spelt, locked : BOOLEAN]
Entry == [kind : {"dir"}, path : Spelt, locked : BOOLEAN]
         \cup [kind : {"file"}, path : Spelt, chunks : Seq(Chunks)]
         \cup [kind : {"hardlink", "symlink"}, path : Spelt, to : Spelt]

\* The path and what is above it; what is above it.
Along(p) == {SubSeq(p, 1, n) : n \in 1..Len(p)}
Above(p) == {SubSeq(p, 1, n) : n \in 1..(Len(p) - 1)}

\* sanitize_rel_path, of the components a wire path has.
SanitizeRelPath(p) == p # <<>> /\ \A i \in 1..Len(p) : p[i] # Up

\* Whatever is there is in a directory, and files have inodes.
Rooted(f) == \A p \in Paths :
  /\ f[p].kind # "none" => \A q \in Above(p) : f[q].kind = "dir"
  /\ f[p].kind = "file" => f[p].ino \in Inodes

ASSUME PathAssumption ==
  /\ IsFiniteSet(Paths) /\ Up \notin Names
  /\ \A p \in Paths : p \in Seq(Names) /\ Len(p) \in 1..MaxLen /\ Above(p) \subseteq Paths

ASSUME HopAssumption ==
  MaxLen \in Nat /\ MaxHops \in Nat \ {0} /\ KernelHops \in Nat /\ MaxHops <= KernelHops

ASSUME InputAssumption ==
  /\ \A s \in Starts : /\ s.fs \in [Paths -> Node] /\ Rooted(s.fs)
                       /\ s.content \in [Inodes -> Seq(Chunks)]
  /\ \A l \in Plans : /\ l.replace \in BOOLEAN
                      /\ \A s \in l.snaps :
                           s \in Seq(Entry)
                           /\ \A i \in DOMAIN s : SanitizeRelPath(s[i].path) => s[i].path \in Paths

VARIABLES
  fs,         \* the nodes below the root
  content,    \* of the inodes
  outside,    \* the files outside the root are as they were
  start,      \* the element of Starts this destination began with
  plan,       \* the element of Plans
  job,        \* the running call: its snapshot, the pass over it (0: none
              \* runs), the entries left in it, and the locals of one entry
  res         \* how the last call ended

vars == <<fs, content, outside, start, plan, job, res>>

NoJob == [snap |-> <<>>, pass |-> 0, left |-> 0, step |-> "clear", ino |-> 0, src |-> <<>>]

Init ==
  /\ start \in Starts /\ fs = start.fs /\ content = start.content
  /\ plan \in Plans /\ outside = TRUE
  /\ job = NoJob /\ res = "none"

-----------------------------------------------------------------------------
(* paths.rs *)

\* sanitize_symlink_target: the lexical depth never falls below the root.
SanitizeSymlinkTarget(link, to) ==
  \A n \in 0..Len(to) :
    LET ups == Cardinality({i \in 1..n : to[i] = Up})
    IN  Len(link) - 1 + (n - ups) >= ups

\* Resolution of a path, component by component (external): how the kernel does
\* it where v are the nodes that are known and every other one is as `other`.
\* It ends at a node, at a name that is missing in the last directory or before
\* it, at a loop, or outside the root.
WalkStep(v, other, s) ==
  LET next == Append(s.at, Head(s.rest))
      node == IF next \in DOMAIN v THEN v[next] ELSE other
      last == Len(s.rest) = 1
  IN  IF s.end # "on" THEN s
      ELSE IF s.rest = <<>> THEN [s EXCEPT !.end = "here"]
      ELSE IF Head(s.rest) = Up
        THEN IF s.at = <<>> THEN [s EXCEPT !.end = "outside"]
             ELSE [s EXCEPT !.at = Front(@), !.rest = Tail(@)]
      ELSE IF node.kind = "link"
        THEN IF s.hops = 0 THEN [s EXCEPT !.end = "missing"]
             ELSE [s EXCEPT !.rest = node.to \o Tail(@), !.hops = @ - 1]
      ELSE IF node.kind = "none" /\ last THEN [s EXCEPT !.at = next, !.end = "absent"]
      ELSE IF node.kind = "none" \/ (node.kind = "file" /\ ~last) THEN [s EXCEPT !.end = "missing"]
      ELSE [s EXCEPT !.at = next, !.rest = Tail(@)]

\* No resolution takes more steps than this.
Fuel == (KernelHops + 1) * MaxLen + 1

Walk(v, other, at, rest, hops) ==
  LET w[n \in Nat] == IF n = 0 THEN [at |-> at, rest |-> rest, hops |-> hops, end |-> "on"]
                      ELSE WalkStep(v, other, w[n - 1])
  IN  w[Fuel]
Resolve(f, p) == Walk(f, Nothing, <<>>, p, KernelHops)

\* resolve_confined: where a target lands once all of links are there; it fails
\* if it leaves the root or runs out of hops.
ResolveConfined(base, to, links) ==
  Walk([q \in DOMAIN links |-> LinkTo(links[q])], Folder, base, to, MaxHops - 1)

LexicalOnly(links) == TRUE
AssertSymlinksConfined(links) ==
  \A l \in DOMAIN links : ResolveConfined(Front(l), links[l], links).end = "here"

\* Permission to change what a directory holds, and to add a name to it.
Open(f, p)      == Len(p) > 1 => ~f[Front(p)].locked
Creatable(f, p) == /\ p \in Paths /\ f[p].kind = "none" /\ Open(f, p)
                   /\ \A q \in Above(p) : f[q].kind = "dir"

\* create_dir_confined refuses to pass through a link or a file, and cannot add
\* to a locked directory; otherwise every component is there afterwards.
CreatesDir(f, p) ==
  \A q \in Along(p) : f[q].kind \in {"none", "dir"} /\ (f[q].kind = "none" => Open(f, q))
WithDir(f, p) == [q \in Paths |-> IF q \in Along(p) /\ f[q].kind = "none" THEN Folder ELSE f[q]]

\* assert_parent_within
ParentWithin(f, p) == Len(p) > 1 => Resolve(f, Front(p)).end = "here"

-----------------------------------------------------------------------------
(* TreeIndex::validate *)

LinksOf(s) == LET e == {s[i] : i \in {j \in DOMAIN s : s[j].kind = "symlink"}}
              IN  [p \in {x.path : x \in e} |-> (CHOOSE x \in e : x.path = p).to]

Validate(s) ==
  /\ \A i \in DOMAIN s : SanitizeRelPath(s[i].path)
  /\ \A i, j \in DOMAIN s : s[i].path = s[j].path => i = j
  /\ \A i \in DOMAIN s :
       /\ s[i].kind = "symlink" => SanitizeSymlinkTarget(s[i].path, s[i].to)
       /\ s[i].kind = "hardlink" => SanitizeRelPath(s[i].to)
  /\ AssertSymlinksConfined(LinksOf(s))

-----------------------------------------------------------------------------
(* reconstruct_tree *)

PassesLinksFirst == <<{"dir"}, {"hardlink"}, {"file"}, {"symlink"}, {"dir"}>>
\* The kinds of entry that each pass is for: directories, files and hard links,
\* links, and, from the last entry to the first, directory modes.
Passes == <<{"dir"}, {"file", "hardlink"}, {"symlink"}, {"dir"}>>

Position == IF job.pass = Len(Passes) THEN job.left ELSE Len(job.snap) - job.left + 1
Now      == job.snap[Position]
Doing(kinds, step) ==
  /\ job.pass > 0 /\ job.left > 0 /\ job.step = step
  /\ Now.kind \in Passes[job.pass] /\ Now.kind \in kinds
Ended(how) == res' = how /\ job' = [NoJob EXCEPT !.snap = job.snap]
Proceed    == job' = [job EXCEPT !.left = @ - 1, !.step = "clear", !.ino = 0, !.src = <<>>] /\ res' = res

Call(s) ==
  /\ job.pass = 0
  /\ IF Validate(s)
       THEN job' = [NoJob EXCEPT !.snap = s, !.pass = 1, !.left = Len(s)] /\ res' = "running"
       ELSE job' = [NoJob EXCEPT !.snap = s] /\ res' = "invalid"
  /\ UNCHANGED <<fs, content, outside>>

\* The loops: an entry that the pass is not for, the next pass, the end.
Loop ==
  /\ job.pass > 0
  /\ \/ job.left > 0 /\ Now.kind \notin Passes[job.pass] /\ Proceed
     \/ /\ job.left = 0 /\ job.pass < Len(Passes) /\ res' = res
        /\ job' = [job EXCEPT !.pass = @ + 1, !.left = Len(job.snap)]
     \/ job.left = 0 /\ job.pass = Len(Passes) /\ Ended("ok")
  /\ UNCHANGED <<fs, content, outside>>

MkDir ==
  /\ Doing({"dir"}, "clear") /\ job.pass < Len(Passes)
  /\ \/ CreatesDir(fs, Now.path) /\ fs' = WithDir(fs, Now.path) /\ Proceed
     \/ ~CreatesDir(fs, Now.path) /\ Ended("refused") /\ fs' = fs
  /\ UNCHANGED <<content, outside>>

\* remove_dir_all, as far as it comes (external): a node goes once all that is
\* below it is gone, and nothing goes out of a locked directory.
Below(f, p)   == {q \in Paths : p \in Along(q) /\ f[q].kind # "none"}
Without(f, g) == [q \in Paths |-> IF q \in g THEN Nothing ELSE f[q]]
PartlyRemoved(f, p) ==
  {Without(f, g) : g \in {h \in SUBSET Below(f, p) :
     \A q \in h : Open(f, q) /\ \A r \in Below(f, p) : q \in Along(r) => r \in h}}

RemoveNothing(f, p) == {f}
\* remove_existing, what it may leave: best effort, up to the first node that a
\* locked directory keeps.
RemoveExisting(f, p) ==
  IF \A q \in Below(f, p) : Open(f, q) THEN {Without(f, Below(f, p))} ELSE PartlyRemoved(f, p)
\* A directory is removed only if the policy allows it.
MayRemoveAll(f, p) == TRUE
MayRemove(f, p)    == f[p].kind # "dir" \/ plan.replace

TargetUnresolved(f, e) == e.to
\* A hard link's target must resolve to a file below the root.
Target(f, e) == LET r == Resolve(f, e.to)
                IN  IF r.end = "here" /\ r.at \in Paths /\ f[r.at].kind = "file" THEN r.at ELSE <<>>

\* What comes before an entry is written: its parents, the checks, and the
\* removal of what is in its place, in which the process may end.
Clear ==
  LET p == Now.path
      f == IF Len(p) = 1 THEN fs ELSE WithDir(fs, Front(p))
      t == IF Now.kind = "hardlink" THEN Target(f, Now) ELSE <<>>
      made == Len(p) > 1 => CreatesDir(fs, Front(p))
      good == /\ made
              /\ ParentWithin(f, p)
              /\ Now.kind = "hardlink" => t # <<>>
              /\ MayRemove(f, p)
  IN  /\ Doing({"file", "hardlink", "symlink"}, "clear")
      /\ \/ /\ good /\ \E g \in RemoveExisting(f, p) : fs' = g
            /\ job' = [job EXCEPT !.step = "make", !.src = t] /\ res' = res
         \/ good /\ (\E g \in PartlyRemoved(f, p) : fs' = g) /\ Ended("failed")
         \/ ~good /\ Ended("refused") /\ fs' = IF made THEN f ELSE fs
      /\ UNCHANGED <<content, outside>>

NewInode == CHOOSE i \in Inodes : \A q \in Paths : fs[q].ino # i

\* File::create follows a link that could not be removed and truncates a file
\* that could not be removed.
CreateFile ==
  LET r == Resolve(fs, Now.path)
      there == r.end = "here" /\ r.at \in Paths /\ fs[r.at].kind = "file"
      free  == r.end = "absent" /\ Creatable(fs, r.at)
      i     == IF there THEN fs[r.at].ino ELSE NewInode
  IN  /\ Doing({"file"}, "make")
      /\ \/ /\ there \/ free
            /\ content' = [content EXCEPT ![i] = <<>>] /\ outside' = outside
            /\ fs' = IF there THEN fs ELSE [fs EXCEPT ![r.at] = FileAt(i)]
            /\ job' = [job EXCEPT !.step = "fill", !.ino = i] /\ res' = res
         \/ /\ ~there /\ ~free
            /\ outside' = (outside /\ r.end # "outside")
            /\ Ended("refused") /\ UNCHANGED <<fs, content>>

\* One chunk from the store, its length and hash checked, to the open file; or
\* the store has it no longer, or has it spoilt.
Fill ==
  /\ Doing({"file"}, "fill")
  /\ \/ /\ Len(content[job.ino]) < Len(Now.chunks)
        /\ content' = [content EXCEPT ![job.ino] = Append(@, Now.chunks[Len(@) + 1])]
        /\ UNCHANGED <<job, res>>
     \/ /\ Len(content[job.ino]) < Len(Now.chunks) /\ Ended("failed") /\ content' = content
     \/ /\ Len(content[job.ino]) = Len(Now.chunks) /\ Proceed /\ content' = content
  /\ UNCHANGED <<fs, outside>>

\* hard_link and symlink fail where something still is.
MakeLink ==
  /\ Doing({"hardlink", "symlink"}, "make")
  /\ LET free == Creatable(fs, Now.path) /\ (Now.kind = "hardlink" => fs[job.src].kind = "file")
     IN  \/ /\ free /\ Proceed
            /\ fs' = [fs EXCEPT ![Now.path] =
                        IF Now.kind = "hardlink" THEN FileAt(fs[job.src].ino) ELSE LinkTo(Now.to)]
         \/ ~free /\ Ended("refused") /\ fs' = fs
  /\ UNCHANGED <<content, outside>>

\* set_mode follows links and is best effort.
DirMode ==
  LET r == Resolve(fs, Now.path)
  IN  /\ Doing({"dir"}, "clear") /\ job.pass = Len(Passes) /\ Proceed
      /\ fs' = IF r.end = "here" /\ r.at \in Paths /\ fs[r.at].kind = "dir"
                 THEN [fs EXCEPT ![r.at].locked = Now.locked] ELSE fs
      /\ UNCHANGED <<content, outside>>

\* An I/O error, or the process ends; nothing is undone.
Stop ==
  /\ job.pass > 0 /\ Ended("failed")
  /\ UNCHANGED <<fs, content, outside>>

Next ==
  /\ \/ \E s \in plan.snaps : Call(s)
     \/ Loop \/ MkDir \/ Clear \/ CreateFile \/ Fill \/ MakeLink \/ DirMode \/ Stop
  /\ UNCHANGED <<start, plan>>

Spec == Init /\ [][Next]_vars

-----------------------------------------------------------------------------
(* Properties *)

\* Shape of the destination, and of the locals of reconstruct_tree: what a hard
\* link is made from is a path below the root that canonicalize has found.
TypeOK ==
  /\ fs \in [Paths -> Node] /\ Rooted(fs)
  /\ content \in [Inodes -> Seq(Chunks)] /\ outside \in BOOLEAN
  /\ start \in Starts /\ plan \in Plans
  /\ res \in {"none", "running", "ok", "failed", "refused", "invalid"}
  /\ job \in [snap : Seq(Entry), pass : 0..Len(Passes), left : Nat,
              step : {"clear", "make", "fill"}, ino : Inodes \cup {0}, src : Paths \cup {<<>>}]
  /\ job.left <= Len(job.snap)

\* No snapshot of the plan locks a directory, and none was locked before.
NoLocks == (\A s \in plan.snaps : \A i \in DOMAIN s : s[i].kind = "dir" => ~s[i].locked)
           /\ \A p \in Paths : ~start.fs[p].locked

\* What the walk of build_tree lists: only directories are above other entries,
\* and a hard link comes after the file it names.
Treelike(s) ==
  /\ \A i, j \in DOMAIN s : s[i].path \in Above(s[j].path) => s[i].kind = "dir"
  /\ \A i \in DOMAIN s : s[i].kind = "hardlink" =>
       \E j \in 1..(i - 1) : s[j].kind = "file" /\ s[j].path = s[i].to
Trees == \A s \in plan.snaps : Treelike(s)

As(e) ==
  CASE e.kind = "dir"      -> fs[e.path].kind = "dir"
    [] e.kind = "file"     -> fs[e.path].kind = "file" /\ content[fs[e.path].ino] = e.chunks
    [] e.kind = "symlink"  -> fs[e.path] = LinkTo(e.to)
    [] e.kind = "hardlink" -> fs[e.path].kind = "file" /\ fs[e.path].ino = fs[e.to].ino

\* download_tree: a call that returns Ok has every entry of its snapshot in
\* place, whatever earlier calls, whole or interrupted, left in the directory.
Materialized == NoLocks /\ Trees /\ res = "ok" => \A i \in DOMAIN job.snap : As(job.snap[i])

Entered == UNION {{s[i].path : i \in DOMAIN s} : s \in plan.snaps}
\* Entries name p, or, if directories may be replaced, something above it.
Given(p) == IF plan.replace THEN Along(p) \cap Entered # {} ELSE p \in Entered

\* reconstruct_tree and remove_existing: what is outside the root, and a file
\* that no entry stands for, is never touched, although links of earlier
\* snapshots and of the user are in the directory.
OthersKept ==
  NoLocks => outside /\ \A p \in Paths :
    start.fs[p].kind = "file" /\ ~Given(p)
      => fs[p] = start.fs[p] /\ content[fs[p].ino] = start.content[fs[p].ino]

\* One snapshot, asked for again and again, into a directory that was empty.
Fresh == /\ \A p \in Paths : start.fs[p].kind = "none"
         /\ \A s, t \in plan.snaps : s = t

\* download_tree, "Re-run the same call to converge": calls for one snapshot
\* into a fresh directory are never refused because of what an interrupted
\* one left, at whichever step it stopped.
RerunConverges == NoLocks /\ Trees /\ Fresh => res # "refused"

\* No entry lies below one that is a link.  TreeIndex::validate accepts other
\* indexes too: build_tree never makes one, and a call for one is refused at the
\* link, unless directories may be replaced.
Unshadowed == \A s \in plan.snaps : \A i, j \in DOMAIN s :
  s[i].path \in Above(s[j].path) => s[i].kind # "symlink"

\* assert_symlinks_confined: in a fresh directory the links of one accepted
\* snapshot, with no entry below any of them, lead nowhere outside the root, at
\* any time: whichever of them are there yet, whatever else the index holds
\* (files above files, links to nothing) and however calls for it ended.
LinksConfined ==
  Unshadowed /\ Fresh => \A p \in Paths :
    fs[p].kind = "link" => Walk(fs, Nothing, Front(p), fs[p].to, KernelHops).end # "outside"
=============================================================================
