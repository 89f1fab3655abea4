----------------------------- MODULE HostCheck -----------------------------
(***************************************************************************)
(* What `cargo remote probe` says of a host, and what a run with the same  *)
(* settings finds there (src/runner.rs: probe, check_requirements and the  *)
(* platform test of bootstrap_agent; src/transfer.rs: the tools that each  *)
(* transfer runs on the host).  The user starts several in a row.          *)
(***************************************************************************)
EXTENDS Naturals

CONSTANTS
  LocalOs, LocalArch,   \* the platform of this machine, as Rust names it
  OSes, Arches,         \* the words of uname
  Hosts,                \* the hosts there can be
  Settings,             \* what can be required of them
  MaxRuns               \* bound: commands in a row

Modes == {"auto", "delta", "tar", "tar-gz", "tar-zstd", "tar-inc"}
Tools == {"tar", "gzip", "zstd"}

\* os and arch are "" when uname fails; starts: a program of this machine, on the
\* same platform, starts there (no older libc, no noexec); cargo is the version that it prints, 0
\* when that cannot be read; cold: there is no remote directory yet.
HostSet ==
  [os : OSes \cup {""}, arch : Arches \cup {""}, starts : BOOLEAN,
   runs : BOOLEAN, cargo : Nat, tools : SUBSET Tools, dirOk : BOOLEAN, cold : BOOLEAN]
ASSUME HostsAssumption == Hosts \subseteq HostSet

\* "" and 0 require nothing.
SettingSet == [arch : Arches \cup {"", "host"}, min : Nat, mode : Modes]
ASSUME SettingsAssumption == Settings \subseteq SettingSet

VARIABLES
  host,      \* the host
  set,       \* the settings
  hpc,       \* "off", "met", "sync", "cargo", "passed" or "refused"
  runs,      \* how many commands have come here
  fellBack,  \* a delta sync had to do without the agent
  \* History:
  ready,     \* a probe has said that the host is ready
  agentOk    \* a probe has said that the agent can run there

hvars == <<host, set, hpc, runs, fellBack, ready, agentOk>>

NoHost == [os |-> "", arch |-> "", starts |-> FALSE, runs |-> FALSE, cargo |-> 0,
           tools |-> {}, dirOk |-> FALSE, cold |-> TRUE]
NoSettings == [arch |-> "", min |-> 0, mode |-> "auto"]

HInit ==
  /\ host = NoHost /\ set = NoSettings
  /\ hpc = "off" /\ runs = 0
  /\ fellBack = FALSE /\ ready = FALSE /\ agentOk = FALSE

-----------------------------------------------------------------------------
\* norm_arch: macOS says arm64.
Norm(arch) == IF arch = "arm64" THEN "aarch64" ELSE arch

\* resolve_arch.
Wanted(arch) == Norm(IF arch = "host" THEN LocalArch ELSE arch)

ArchFits == set.arch # "" => Norm(host.arch) = Wanted(set.arch)

\* Mutant of ProbeTools: only the tools of the first transfer that comes to mind.
ProbeTarOnly == IF set.mode = "delta" THEN {} ELSE {"tar"}

\* The tools probe insists on.
ProbeTools ==
  CASE set.mode = "delta" -> {}
    [] set.mode \in {"tar", "tar-inc"} -> {"tar"}
    [] set.mode \in {"auto", "tar-gz"} -> {"tar", "gzip"}
    [] set.mode = "tar-zstd" -> {"tar", "zstd"}

\* bootstrap_agent compares the words of uname as they are, uploads the agent, and
\* looks whether it starts.
RunsAgent == host.os = LocalOs /\ host.arch = LocalArch /\ host.starts

\* auto finds a directory, or delta is asked for.
Delta == set.mode = "delta" \/ (set.mode = "auto" /\ ~ host.cold)

\* The tools a transfer runs on the host.
RunTools ==
  CASE Delta -> IF RunsAgent THEN {} ELSE {"tar"}
    [] set.mode = "auto" /\ host.cold -> {"tar", "gzip"}
    [] set.mode = "tar-gz" -> {"tar", "gzip"}
    [] set.mode = "tar-zstd" -> {"tar", "zstd"}
    [] set.mode \in {"tar", "tar-inc"} -> {"tar"}

\* The first command finds the host.
Meet ==
  /\ hpc = "off"
  /\ host' \in Hosts /\ set' \in Settings
  /\ hpc' = "met" /\ runs' = 1
  /\ UNCHANGED <<fellBack, ready, agentOk>>

\* The next one, with the same settings.
MeetAgain ==
  /\ hpc \in {"passed", "refused"} /\ runs < MaxRuns
  /\ hpc' = "met" /\ runs' = runs + 1
  /\ fellBack' = FALSE
  /\ UNCHANGED <<host, set, ready, agentOk>>

\* probe: every check on one connection, the last of which makes the remote
\* directory.  A version that cannot be read is only a warning.
Probe ==
  /\ hpc = "met"
  /\ ready' = /\ host.os # "" /\ ArchFits
              /\ host.runs
              /\ set.min # 0 /\ host.cargo # 0 => host.cargo >= set.min
              /\ ProbeTools \subseteq host.tools
              /\ host.dirOk
  /\ agentOk' = (host.os = LocalOs /\ Norm(host.arch) = Norm(LocalArch))
  /\ host' = [host EXCEPT !.cold = @ /\ ~ host.dirOk]
  /\ hpc' = "passed"
  /\ UNCHANGED <<set, runs, fellBack>>

\* check_requirements, which looks at no exit code.
CheckRequirements ==
  /\ hpc = "met"
  /\ hpc' = IF /\ ArchFits
               /\ set.min # 0 => host.cargo # 0 /\ host.cargo >= set.min
            THEN "sync" ELSE "refused"
  /\ UNCHANGED <<host, set, runs, fellBack, ready, agentOk>>

\* do_sync, unless it is switched off.
Sync ==
  /\ hpc = "sync"
  /\ \/ /\ hpc' = IF RunTools \subseteq host.tools /\ host.dirOk THEN "cargo" ELSE "refused"
        /\ fellBack' = (Delta /\ ~ RunsAgent)
        /\ host' = [host EXCEPT !.cold = @ /\ ~ host.dirOk]
     \/ hpc' = "cargo" /\ UNCHANGED <<fellBack, host>>
  /\ UNCHANGED <<set, runs, ready, agentOk>>

Cargo ==
  /\ hpc = "cargo"
  /\ hpc' = IF host.runs THEN "passed" ELSE "refused"
  /\ UNCHANGED <<host, set, runs, fellBack, ready, agentOk>>

HNext == Meet \/ MeetAgain \/ Probe \/ CheckRequirements \/ Sync \/ Cargo

-----------------------------------------------------------------------------
(***************************************************************************)
(* Properties.                                                             *)
(***************************************************************************)

\* When a probe has called the host ready and nothing has changed there, no run is
\* turned away by what the host lacks, and a delta sync finds the agent that
\* the probe has seen.  (But a run does not accept a cargo whose version cannot be
\* read when one is required, tar is not required of a host that a delta
\* sync falls back on it for, arm64 is another platform to the agent, and the probe
\* does not try whether a program of this machine starts there.)
ProbeHolds ==
  /\ ready /\ hpc = "refused" =>
       \/ set.min # 0 /\ host.cargo = 0
       \/ set.mode = "delta" /\ fellBack /\ "tar" \notin host.tools
  /\ agentOk /\ fellBack => "arm64" \in {host.arch, LocalArch} \/ ~ host.starts

\* The inductive invariant: what a probe has seen stays so.
HInv ==
  /\ hpc \in {"off", "met", "sync", "cargo", "passed", "refused"}
  /\ host \in HostSet /\ set \in SettingSet
  /\ ready \in BOOLEAN /\ agentOk \in BOOLEAN /\ fellBack \in BOOLEAN
  /\ hpc = "off" => ~ ready /\ ~ agentOk /\ ~ fellBack
  /\ ready => /\ ArchFits /\ host.runs /\ host.dirOk
              /\ set.min # 0 /\ host.cargo # 0 => host.cargo >= set.min
              /\ ProbeTools \subseteq host.tools
  /\ agentOk => host.os = LocalOs /\ Norm(host.arch) = Norm(LocalArch)
  /\ fellBack => ~ RunsAgent
  /\ ProbeHolds

=============================================================================
