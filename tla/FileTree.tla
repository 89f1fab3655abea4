------------------------------ MODULE FileTree ------------------------------
(***************************************************************************)
(* A directory tree and the file-system calls of src/agent.rs on it.       *)
(*                                                                         *)
(* A path is the sequence of its names below the synced root, and a tree   *)
(* gives every path of Paths an entry, Absent when nothing is there.  The  *)
(* content of a file is a sequence of blocks, so its length is a number of *)
(* blocks.  A link holds the path, below the root, that its target names,  *)
(* or Escape when the target leaves the root.  Modes are left out.         *)
(***************************************************************************)
EXTENDS Integers, Sequences, SequencesExt, TLC

CONSTANTS
  PathOrder,   \* the paths in the byte order in which walk sorts them
  Excludes,    \* the excluded paths: they and all below them are left alone
  Blocks       \* what the contents of files are made of

Paths == ToSet(PathOrder)

\* Paths are not empty, each has its directory, and none is there twice.
ASSUME PathAssumption ==
  /\ PathOrder \in Seq(Seq(STRING) \ {<<>>})
  /\ \A p \in Paths : Len(p) > 1 => Front(p) \in Paths
  /\ \A i, j \in 1..Len(PathOrder) : PathOrder[i] = PathOrder[j] => i = j
ASSUME ExcludesAssumption == Excludes \subseteq Seq(STRING)

Absent == [kind |-> "none"]
Dir == [kind |-> "dir"]
File(data, mtime) == [kind |-> "file", data |-> data, mtime |-> mtime]
Link(to) == [kind |-> "link", to |-> to]

\* The target of a link that has a root or a .. in it.
Escape == <<>>

Entry ==
  {Absent, Dir} \cup [kind : {"file"}, data : Seq(Blocks), mtime : Int]
               \cup [kind : {"link"}, to : Paths \cup {Escape}]

IsExcluded(p) == \E e \in Excludes : IsPrefix(e, p)

Children(t, p) ==
  {q \in Paths : Len(q) = Len(p) + 1 /\ IsPrefix(p, q) /\ t[q] # Absent}

\* All that may be below a path may be below this one too.
Holds(to) ==
  \A q \in Paths : \A k \in 1..Len(q) : to \o SubSeq(q, k + 1, Len(q)) \in Paths

\* The trees a file system can hold: only a directory has children.  What a
\* link leads to has room for all that may be below a path.
WellFormed(t) ==
  /\ t \in [Paths -> Entry]
  /\ \A p \in Paths :
       /\ t[p] # Dir => Children(t, p) = {}
       /\ t[p].kind = "link" /\ t[p].to # Escape => Holds(t[p].to)

\* No link leaves the root.
Confined(t) == \A p \in Paths : t[p].kind = "link" => t[p].to # Escape

-----------------------------------------------------------------------------
(***************************************************************************)
(* Path resolution: the kernel follows a link at every component but the   *)
(* last.  A link that leads to a link is not followed further: with two    *)
(* top-level names it can only be a loop.                                  *)
(***************************************************************************)

Hop(t, p) == IF p \in Paths /\ t[p].kind = "link" THEN t[p].to ELSE p

Real(t, p) ==
  LET real[n \in 0..Len(p)] ==
        IF n = 0 THEN <<>> ELSE Append(Hop(t, real[n - 1]), p[n])
  IN  real[Len(p)]

-----------------------------------------------------------------------------
(***************************************************************************)
(* The calls.  Each returns the tree it leaves and whether it succeeded.   *)
(***************************************************************************)

Yields(t) == [ok |-> TRUE, tree |-> t]
Fails(t) == [ok |-> FALSE, tree |-> t]

\* One level of create_dir_all: fine when the path already leads to a
\* directory, even through a link, an error when it leads to anything else.
MakeDir(r, p) ==
  LET at == Real(r.tree, p)
      to == Hop(r.tree, at)
      isDir == to \in Paths /\ r.tree[to] = Dir
  IN  IF r.ok /\ r.tree[at] = Absent
      THEN Yields([r.tree EXCEPT ![at] = Dir])
      ELSE [r EXCEPT !.ok = @ /\ isDir]

CreateDirAll(t, p) ==
  LET made[n \in 0..Len(p)] ==
        IF n = 0 THEN Yields(t) ELSE MakeDir(made[n - 1], SubSeq(p, 1, n))
  IN  made[Len(p)]

\* Mutant of WriteFileAtomic: the rename also replaces a directory.
WriteFileOverDir(t, p, file) ==
  LET made == CreateDirAll(t, Front(p))
      at == Real(made.tree, p)
  IN  IF made.ok THEN Yields([made.tree EXCEPT ![at] = file]) ELSE Fails(made.tree)

\* write_file_atomic: the parents, a temporary file beside dest, and a rename
\* over dest, which replaces a file or a link and fails on a directory.
WriteFileAtomic(t, p, file) ==
  LET made == CreateDirAll(t, Front(p))
      at == Real(made.tree, p)
  IN  IF made.ok /\ made.tree[at] # Dir
      THEN Yields([made.tree EXCEPT ![at] = file])
      ELSE Fails(made.tree)

\* The KIND_LINK arm of apply_put: remove_file, whose error is ignored, then
\* symlink, which needs a free name in an existing directory.  Unlike the other
\* arms it makes no directory, not even the root: rooted says if that is there.
PutLink(t, p, to, rooted) ==
  LET at == Real(t, p)
  IN  IF /\ to # Escape
         /\ t[at] # Dir
         /\ IF Len(at) > 1 THEN t[Front(at)] = Dir ELSE rooted
      THEN Yields([t EXCEPT ![at] = Link(to)])
      ELSE Fails(t)

\* One path of a DELETE frame: remove_dir keeps a directory that still holds
\* something, and every error is ignored.
RemoveEntry(t, p) ==
  LET at == Real(t, p)
  IN  IF t[at] = Dir /\ Children(t, at) # {} THEN t ELSE [t EXCEPT ![at] = Absent]

\* read_no_follow, with an error read as no bytes.
ReadNoFollow(t, p) ==
  LET at == Real(t, p) IN IF t[at].kind = "file" THEN t[at].data ELSE <<>>

\* Mutant of Walk: excluded entries are listed too.
WalkAll(t) == t

\* walk: the entries that are not excluded.  It follows no link, and takes a
\* time before 1970 as 0.
Walk(t) ==
  LET seen(e) == IF e.kind = "file" /\ e.mtime < 0 THEN File(e.data, 0) ELSE e
  IN  [p \in Paths |-> IF IsExcluded(p) THEN Absent ELSE seen(t[p])]

\* same_entry: only length and modification time are compared for files.
SameEntry(l, r) ==
  /\ l.kind = r.kind
  /\ l.kind = "file" => Len(l.data) = Len(r.data) /\ l.mtime = r.mtime
  /\ l.kind = "link" => l.to = r.to

=============================================================================
