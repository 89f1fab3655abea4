--------------------------- MODULE MCSyncSession ---------------------------
(***************************************************************************)
(* Instances of SyncSession for TLC: one file that everybody edits, and    *)
(* every pair of small trees with nobody to edit them.                     *)
(***************************************************************************)
EXTENDS SyncSession

CONSTANTS a, b, x   \* three blocks

MCPathOrder ==
  << <<".tmp">>, <<"d">>, <<"d", "f">>, <<"e">>, <<"e", "f">> >>
MCExcludes == { <<"e", "f">> }
MCStaging == { <<".tmp">> }
MCBlocks == {a, b, x}
MCContents == { <<a>>, <<b, x>> }

\* A top-level entry and what it holds.
Leaf(e) == [top |-> e, child |-> Absent]
Folder(e) == [top |-> Dir, child |-> e]

TreeOf(d, e) ==
  [p \in Paths |-> CASE p = <<"d">> -> d.top [] p = <<"d", "f">> -> d.child
                     [] p = <<"e">> -> e.top [] p = <<"e", "f">> -> e.child
                     [] OTHER -> Absent]

\* What is left of the edits.
Left(l, r) == [local |-> MaxLocalEdits - l, remote |-> MaxRemoteEdits - r,
               breaks |-> 0, sessions |-> 0]

-----------------------------------------------------------------------------
(* One file at d, an excluded one at e/f, a place for a temporary file.     *)

Lone(f, t) == TreeOf(Leaf(f), Folder(t))
Edited(l, r, left) ==
  [local |-> Lone(l, Absent), remote |-> Lone(r, File(<<x>>, 1)),
   rooted |-> TRUE, now |-> 1, lag |-> 0, used |-> left]

\* New file; long files that look alike; short files that look alike; growth.
EditedStarts ==
  { Edited(File(<<a, b>>, 1), Absent, Left(1, 0)),
    Edited(File(<<a, b>>, 1), File(<<b, x>>, 1), Left(1, 0)),
    Edited(File(<<a>>, 1), File(<<b>>, 1), Left(0, 1)),
    Edited(File(<<a, b>>, 1), File(<<b>>, 1), Left(1, 1)) }

\* A remote clock that is behind, and files of before 1970 on either side.
TimeStarts ==
  { [Edited(File(<<a>>, 1), Absent, Left(0, 0)) EXCEPT !.lag = 1],
    [Edited(File(<<a, b>>, 2), File(<<b>>, 1), Left(1, 0)) EXCEPT !.now = 2, !.lag = 1],
    Edited(File(<<a>>, -1), Absent, Left(0, 0)),
    Edited(File(<<a, b>>, -1), File(<<a, b>>, 0), Left(0, 0)),
    Edited(File(<<a, b>>, 0), File(<<a, b>>, -1), Left(0, 0)) }

\* A file that does not fit a frame: whole, and as a delta that does.
LongStarts ==
  { Edited(File(<<a, b, x>>, 1), Absent, Left(0, 0)),
    Edited(File(<<a, b, x>>, 1), File(<<b>>, 1), Left(0, 1)) }

-----------------------------------------------------------------------------
(* Directories, files and links of every kind on both sides, and a remote   *)
(* root that is empty or missing.                                           *)

AtD == {Leaf(Absent), Leaf(File(<<a>>, 1)), Leaf(Link(<<"e">>)),
        Folder(Absent), Folder(File(<<a>>, 1)), Folder(File(<<b>>, 1))}
AtE == {Leaf(Absent), Leaf(File(<<a>>, 1)), Leaf(Link(<<"d">>)),
        Folder(Absent), Folder(File(<<a>>, 1))}

LocalTrees == {TreeOf(d, e) : d \in AtD \cup {Leaf(Link(Escape))}, e \in AtE}

TreeStarts ==
  [ local : LocalTrees, remote : {TreeOf(d, e) : d \in AtD, e \in AtE},
    rooted : {TRUE}, now : {2}, lag : {0}, used : {Left(0, 0)} ]

RootStarts ==
  [ local : LocalTrees, remote : {NoTree},
    rooted : {FALSE}, now : {2}, lag : {0}, used : {Left(0, 0)} ]

MCStarts == EditedStarts \cup TimeStarts \cup LongStarts \cup TreeStarts \cup RootStarts
=============================================================================
