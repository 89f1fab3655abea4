----------------------------- MODULE MCRunSetup -----------------------------
(***************************************************************************)
(* An instance of RunSetup for TLC.                                        *)
(***************************************************************************)
EXTENDS RunSetup

CONSTANTS k1, k2, cert

-----------------------------------------------------------------------------
(* A host and copy_back for the control keys, a list for the others.        *)

MCScalars == {"host", "copy_back"}
MCLists == {"env"}
MCControl == {"host", "copy_back"}

Sets(f) == "copy_back" \notin f.set => f.copyBack = "on"
MCGlobal == {f \in Files : Sets(f)}
\* A project file that claims to be trusted is as bad as any.
MCProject == {f \in Files : Sets(f) /\ f.copyBack = "on" /\ f.trusts}
MCOptions ==
  [env : BOOLEAN, before : {{}, {"host", "env"}}, after : {{}, {"host"}, {"env"}},
   copyBefore : {"none", "on"}, copyAfter : {"none", "on", "never"}]

-----------------------------------------------------------------------------
(* ssh configs: every pattern of up to four characters, and Host lines and   *)
(* blocks that overlap.                                                     *)

MCHostName == <<"a", "b">>
Plain(glob) == <<[not |-> FALSE, glob |-> glob]>>
MCBlock(patterns, value) == [patterns |-> patterns, value |-> value]

Globs == UNION {[1..n -> {"a", "b", Star, AnyChar}] : n \in 0..4}
Lines == UNION {[1..n -> [not : BOOLEAN, glob : {MCHostName, <<"a", Star>>, <<"b">>}]] : n \in 1..2}
MCSshConfigs ==
  {<<MCBlock(Plain(g), "yes")>> : g \in Globs}
  \cup {<<MCBlock(l, v), MCBlock(Plain(<<Star>>), w)>> :
          l \in Lines, v \in {"yes", "ask", ""}, w \in {"yes", "ask"}}

MCServerKeys == {k1, k2}
MCMachines ==
  [known : SUBSET {k1, k2}, fleet : SUBSET {k1, k2}, hostKey : {k1, cert}, readable : BOOLEAN]

Id == [kind : {"plain", "rsa", "skip"}, works : BOOLEAN]
MCRings == [old : BOOLEAN, ids : UNION {[1..n -> Id] : n \in 0..3}]

-----------------------------------------------------------------------------
(* Hosts and settings.                                                      *)

MCHosts ==
  {h \in [os : {"Linux", "Darwin", ""}, arch : {"x86_64", "aarch64", "arm64", ""},
          starts : BOOLEAN, runs : BOOLEAN, cargo : 0..2, tools : {{}, {"tar"}, {"tar", "gzip"}, Tools},
          dirOk : BOOLEAN, cold : BOOLEAN] :
     /\ (h.os = "") <=> (h.arch = "")
     /\ h.starts => h.os = "Linux" /\ h.arch = "aarch64"
     /\ ~ h.runs => h.cargo = 0
     /\ ~ h.dirOk => h.cold}
MCSettings ==
  [arch : {"", "host", "x86_64"}, min : {0, 2}, mode : Modes]
=============================================================================
