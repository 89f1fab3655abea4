---------------------------- MODULE HostPatterns ----------------------------
(***************************************************************************)
(* StrictHostKeyChecking as src/sshcfg.rs reads it from ~/.ssh/config.     *)
(*                                                                         *)
(* The config is a sequence of Host blocks.  A block has the patterns of   *)
(* its Host line, each with or without a !, and the value it gives to the  *)
(* keyword, "" when it gives none.  Patterns and host names are sequences  *)
(* of characters.                                                          *)
(***************************************************************************)
EXTENDS Naturals, Sequences

Star == "*"
AnyChar == "?"

\* Where the loop of glob_match is: at i in the pattern and j in the name, with the
\* last * seen at star (0 for none), which is taken to end before from.
GlobStart == [i |-> 1, j |-> 1, star |-> 0, from |-> 1]

\* One turn of the loop: a * is first taken for nothing, and for one character more
\* each time the rest fails.  A loop that has ended, or returned, stays where it is.
GlobTurn(pat, name, at) ==
  LET Is(chars) == at.i <= Len(pat) /\ pat[at.i] \in chars
  IN  IF at.j > Len(name) THEN at
      ELSE IF Is({AnyChar, name[at.j]}) THEN [at EXCEPT !.i = @ + 1, !.j = @ + 1]
      ELSE IF Is({Star}) THEN [at EXCEPT !.i = @ + 1, !.star = at.i, !.from = at.j]
      ELSE IF at.star > 0 THEN [at EXCEPT !.i = at.star + 1, !.j = at.from + 1, !.from = @ + 1]
      ELSE at

\* glob_match: the loop, which ends in fewer turns than these, and what is left of
\* the pattern.
GlobMatch(pat, name) ==
  LET turns == (Len(name) + 1) * (Len(pat) + 2)
      Loop[n \in 0..turns] == IF n = 0 THEN GlobStart ELSE GlobTurn(pat, name, Loop[n - 1])
      end == Loop[turns]
  IN  end.j > Len(name) /\ \A k \in end.i..Len(pat) : pat[k] = Star

\* The Host line: a negated pattern that matches ends it.
Applies(block, name) ==
  LET hits == {k \in 1..Len(block.patterns) : GlobMatch(block.patterns[k].glob, name)}
  IN  hits # {} /\ \A k \in hits : ~ block.patterns[k].not

\* strict_host_key_setting_in: the first block that applies and has the keyword.
Setting(config, name) ==
  LET given == {k \in 1..Len(config) : config[k].value # "" /\ Applies(config[k], name)}
  IN  IF given = {} THEN ""
      ELSE config[CHOOSE k \in given : \A l \in given : k <= l].value

\* strict of connect: without a value of ours the one of the library counts, which
\* may find one where this scan finds none.
StrictReadings(config, name) ==
  IF Setting(config, name) = "" THEN BOOLEAN ELSE {Setting(config, name) = "yes"}

-----------------------------------------------------------------------------
(***************************************************************************)
(* The reference: what ssh_config says of patterns.                        *)
(***************************************************************************)

\* The pattern from i on fits the name from j on: the name can be cut so that a *
\* has any piece of it, and everything else one character that it fits.
FitsFrom(pat, name, i, j) ==
  \E cut \in [i..(Len(pat) + 1) -> j..(Len(name) + 1)] :
    /\ cut[i] = j /\ cut[Len(pat) + 1] = Len(name) + 1
    /\ \A k \in i..Len(pat) :
         IF pat[k] = Star THEN cut[k] <= cut[k + 1]
         ELSE cut[k + 1] = cut[k] + 1 /\ pat[k] \in {AnyChar, name[cut[k]]}

\* The whole name fits the pattern.
Fits(pat, name) == FitsFrom(pat, name, 1, 1)

\* A host is one that a Host line means if it fits a pattern and none with a !.
Means(block, name) ==
  LET fit == {p \in {block.patterns[k] : k \in 1..Len(block.patterns)} : Fits(p.glob, name)}
  IN  (\E p \in fit : ~ p.not) /\ ~ \E p \in fit : p.not

\* The value of the first block that is about the host and has one.
Says(config, name) ==
  LET ours == {k \in 1..Len(config) : config[k].value # "" /\ Means(config[k], name)}
      firsts == {k \in ours : \A l \in 1..(k - 1) : l \notin ours}
  IN  IF firsts = {} THEN "" ELSE config[CHOOSE k \in firsts : TRUE].value

=============================================================================
