------------------------------ MODULE Replica ------------------------------
(***************************************************************************)
(* What delta sync promises about every single path of the remote tree, at *)
(* every moment and whatever breaks: the path holds nothing, or a whole    *)
(* version of what the path was locally at some time.  A sync never shows  *)
(* a half-written file and never touches an excluded path.                 *)
(*                                                                         *)
(* Whoever else writes to the remote tree (Foreign) can put anything       *)
(* there; a path that was written to during a sync (shaken) is no longer   *)
(* covered by the promise, and no path is when the trees start with a      *)
(* directory on one side only.                                             *)
(***************************************************************************)
EXTENDS Naturals

CONSTANTS
  Paths,       \* the paths of the tree
  Protected,   \* the paths a sync must leave alone
  Scratch,     \* the paths where a killed agent leaves temporary files
  Nothing      \* the entry of a path where nothing is

VARIABLES
  store,       \* store[p]: what the remote tree has at p
  versions,    \* versions[p]: what p has ever been locally
  shaken,      \* the paths no longer covered
  edits        \* the number of foreign writes

Init ==
  /\ shaken \subseteq Paths
  /\ edits \in Nat

\* A local edit.
Author ==
  /\ \A p \in Paths : versions[p] \subseteq versions'[p]
  /\ UNCHANGED <<store, shaken, edits>>

\* A step of a sync: some paths get a whole local version or disappear.
Publish ==
  /\ \A p \in Paths :
       \/ store'[p] = store[p]
       \/ shaken' = Paths
       \/ /\ p \notin Protected
          /\ \/ store'[p] \in versions[p] \cup {Nothing}
             \/ p \in shaken'
             \/ p \in Scratch
  /\ shaken \subseteq shaken'
  /\ UNCHANGED <<versions, edits>>

\* Somebody else writes to the tree.
Foreign ==
  /\ edits' # edits
  /\ shaken \subseteq shaken'
  /\ UNCHANGED versions

Next == Author \/ Publish \/ Foreign

Spec == Init /\ [][Next]_<<store, versions, shaken, edits>>

=============================================================================
