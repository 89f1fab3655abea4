---------------------------- MODULE ConfigLayers ----------------------------
(***************************************************************************)
(* How a run gets its settings (Config::load_from of src/config.rs,        *)
(* RemoteOpts::merge of src/cli.rs, build_context of src/main.rs): three   *)
(* files, an environment variable, the options before the subcommand and   *)
(* those of the subcommand, each layer above the one before.               *)
(*                                                                         *)
(* A value is the layer that it comes from, 0 for the default; only of     *)
(* copy_back the value itself matters.  The settings that only shape the   *)
(* build behave as the scalars and lists that are not in Control; the      *)
(* switches, which an option can only turn one way, are left out.          *)
(***************************************************************************)
EXTENDS Naturals, Sequences

CONSTANTS
  Scalars,       \* keys with one value: a higher layer replaces a lower one
  Lists,         \* keys with many values: the layers accumulate
  Control,       \* the scalars a project file may only set when it is trusted
  GlobalFiles,   \* what the global file can hold
  ProjectFiles,  \* what a project file can hold
  Options        \* what can be given on the command line and in the environment

Keys == Scalars \cup Lists
CopyWords == {"none", "on", "off"}

\* A file that is not there is like one that sets nothing.
Files == [set : SUBSET Keys, copyBack : {"on", "off"}, trusts : BOOLEAN]

ASSUME KeysAssumption ==
  /\ {"host", "copy_back"} \subseteq Control /\ Control \subseteq Scalars
  /\ Scalars \cap Lists = {}
ASSUME FilesAssumption ==
  GlobalFiles \subseteq Files /\ ProjectFiles \subseteq Files
OptionSets ==
  [env : BOOLEAN, before : SUBSET (Keys \ {"copy_back"}),
   after : SUBSET (Keys \ {"copy_back"}),
   copyBefore : CopyWords \cup {"never"}, copyAfter : CopyWords \cup {"never"}]
ASSUME OptionsAssumption == Options \subseteq OptionSets

\* The layers: 1 to 3 the files, 4 CARGO_REMOTE_HOST, 5 and 6 the options.
Global == 1
Project == 2..3
EnvVar == 4
Before == 5
After == 6
Layers == 1..6

VARIABLES
  cpc,           \* "read", "settled" or "failed"
  source,        \* source[k]: the layer the value of scalar k comes from
  items,         \* items[k]: the layers the values of list k come from, in order
  copyBack,      \* whether binaries are copied back, as far as is known
  fromProject,   \* the host comes from a project file
  warned,        \* the project files a warning was printed about
  seen, options  \* History: the files read so far, the options

cvars == <<cpc, source, items, copyBack, fromProject, warned, seen, options>>

NoOptions == [env |-> FALSE, before |-> {}, after |-> {},
              copyBefore |-> "none", copyAfter |-> "none"]

CInit ==
  /\ cpc = "read"
  /\ source = [k \in Scalars |-> 0]
  /\ items = [k \in Lists |-> <<>>]
  /\ copyBack = "none"
  /\ fromProject = FALSE
  /\ warned = {}
  /\ seen = <<>>
  /\ options = NoOptions

-----------------------------------------------------------------------------
(***************************************************************************)
(* The files.                                                              *)
(***************************************************************************)

\* Mutant of Clean: the host of a project file is left in.
CleanButHost(f) == [f EXCEPT !.set = @ \ (Control \ {"host"})]

\* strip_project_keys.
Clean(f) == [f EXCEPT !.set = @ \ Control]

\* One more layer of a list.
Add(layers, n, given) == IF given THEN Append(layers, n) ELSE layers

\* overlay: set scalars win, lists accumulate.
Overlay(f, n) ==
  /\ source' = [k \in Scalars |-> IF k \in f.set THEN n ELSE source[k]]
  /\ items' = [k \in Lists |-> Add(items[k], n, k \in f.set)]
  /\ copyBack' = IF "copy_back" \in f.set THEN f.copyBack ELSE copyBack

ReadGlobal ==
  /\ cpc = "read" /\ Len(seen) = 0
  /\ \E f \in GlobalFiles : seen' = <<f>> /\ Overlay(f, Global)
  /\ UNCHANGED <<cpc, fromProject, warned, options>>

\* Only the global file can grant trust.
Trusted == seen[Global].trusts

\* .config/cargo-remote.toml, then .cargo-remote.toml.
ReadProject ==
  /\ cpc = "read" /\ Len(seen) \in 1..2
  /\ \E f \in ProjectFiles :
       LET n == Len(seen) + 1
       IN  /\ seen' = Append(seen, f)
           /\ Overlay(IF Trusted THEN f ELSE Clean(f), n)
           /\ fromProject' = (fromProject \/ (Trusted /\ "host" \in f.set))
           /\ warned' = IF ~ Trusted /\ f.set \cap Control # {}
                        THEN warned \cup {n} ELSE warned
  /\ UNCHANGED <<cpc, options>>

\* A file that cannot be read or parsed ends the run, trusted or not.
BadFile ==
  /\ cpc = "read" /\ Len(seen) < 3
  /\ cpc' = "failed"
  /\ UNCHANGED <<source, items, copyBack, fromProject, warned, seen, options>>

-----------------------------------------------------------------------------
(***************************************************************************)
(* The environment and the command line.                                   *)
(***************************************************************************)

\* merge and apply_no_copy_back: "never" (--no-copy-back), wherever it stands,
\* beats a value; else the subcommand's value beats the one before it.
CopyOption(o) ==
  IF "never" \in {o.copyBefore, o.copyAfter} THEN "off"
  ELSE IF o.copyAfter # "none" THEN o.copyAfter ELSE o.copyBefore

\* Mutant of CopyDecision: a host from a project file is as good as any.
CopyUnlessOff(o, project) ==
  IF CopyOption(o) # "none" THEN CopyOption(o)
  ELSE IF copyBack # "none" THEN copyBack ELSE "on"

\* copy_back of build_context.
CopyDecision(o, project) ==
  IF CopyOption(o) # "none" THEN CopyOption(o)
  ELSE IF copyBack # "none" THEN copyBack
  ELSE IF project THEN "off" ELSE "on"

\* Values that would not survive a shell line are refused: ok is FALSE then.
MergeOptions ==
  /\ cpc = "read" /\ Len(seen) = 3
  /\ \E o \in Options, ok \in BOOLEAN :
       LET given == o.env \/ "host" \in o.before \cup o.after
           project == fromProject /\ ~ given
       IN  /\ options' = o
           /\ source' = [k \in Scalars |->
                CASE k \in o.after -> After
                  [] k \in o.before \ o.after -> Before
                  [] k \notin o.before \cup o.after ->
                       IF k = "host" /\ o.env THEN EnvVar ELSE source[k]]
           /\ items' = [k \in Lists |->
                Add(Add(items[k], Before, k \in o.before), After, k \in o.after)]
           /\ fromProject' = project
           /\ copyBack' = CopyDecision(o, project)
           /\ cpc' = IF ok /\ source'["host"] # 0 THEN "settled" ELSE "failed"
  /\ UNCHANGED <<warned, seen>>

CNext == ReadGlobal \/ ReadProject \/ BadFile \/ MergeOptions

CSpec == CInit /\ [][CNext]_cvars

-----------------------------------------------------------------------------
(***************************************************************************)
(* Properties.                                                             *)
(***************************************************************************)

\* Layer n gives a value to key k that counts: a project file gives none to a
\* control key unless the global file trusts it.
GivenBy(files, o, n, k) ==
  \/ /\ n \in 1..Len(files) /\ k \in files[n].set
     /\ n \in Project /\ k \in Control => files[Global].trusts
  \/ n = EnvVar /\ k = "host" /\ o.env
  \/ n = Before /\ k \in o.before
  \/ n = After /\ k \in o.after
Gives(n, k) == GivenBy(seen, options, n, k)

ScalarsWin ==
  \A k \in Scalars : /\ source[k] # 0 => Gives(source[k], k)
                     /\ \A n \in Layers : Gives(n, k) => n <= source[k]
Holds(s, n) == \E i \in 1..Len(s) : s[i] = n
InOrder(s) == \A i, j \in 1..Len(s) : i < j => s[i] < s[j]
ListsGather ==
  \A k \in Lists : /\ \A n \in Layers : Holds(items[k], n) <=> Gives(n, k)
                   /\ InOrder(items[k])
Heard ==
  \A n \in Project \cap 1..Len(seen), k \in Keys :
    k \in seen[n].set /\ ~ Gives(n, k) => n \in warned

\* Every setting comes from the highest layer that gives it, every list holds
\* what each layer gives it, lowest layer first, and a project file that was not
\* listened to was warned about.
HighestWins == cpc = "settled" => ScalarsWin /\ ListsGather /\ Heard

\* What layer n, options or a file that counts, says of copying back.
SaidBy(files, o, n) ==
  IF n = After THEN o.copyAfter
  ELSE IF n = Before THEN o.copyBefore
  ELSE IF n \in 1..Len(files) /\ GivenBy(files, o, n, "copy_back") THEN files[n].copyBack
  ELSE "none"

\* Whether binaries come back is what the highest layer says that says anything,
\* unless --no-copy-back stands anywhere; and when none does, they come back
\* from every host but one that a project file has named.  (A project file counts
\* here like everywhere: when the global file trusts it.  So the table of
\* docs/configuration.md has it; the text above that table, and the comment on
\* the decision, speak of the global file alone.)
CopyBackFollowsHost ==
  cpc = "settled" =>
    LET saying == {n \in Layers : SaidBy(seen, options, n) # "none"}
    IN  IF "never" \in {options.copyBefore, options.copyAfter} THEN copyBack = "off"
        ELSE /\ \A n \in saying :
                  (\A m \in saying : m <= n) => copyBack = SaidBy(seen, options, n)
             /\ saying = {} =>
                  copyBack = IF source["host"] \in Project THEN "off" ELSE "on"

-----------------------------------------------------------------------------
(***************************************************************************)
(* The inductive invariant behind them: what holds of the finished         *)
(* settings holds of the layers merged so far.                             *)
(***************************************************************************)

CTypeOK ==
  /\ cpc \in {"read", "settled", "failed", "done"}
  /\ source \in [Scalars -> 0..6] /\ items \in [Lists -> Seq(Layers)]
  /\ copyBack \in CopyWords /\ fromProject \in BOOLEAN
  /\ warned \subseteq Project
  /\ seen \in Seq(Files) /\ Len(seen) <= 3
  /\ options \in OptionSets

\* What the highest file says that says anything of copying back.
FileWord ==
  IF source["copy_back"] = 0 THEN "none" ELSE seen[source["copy_back"]].copyBack

FilesOnly ==
  cpc = "read" =>
    /\ options = NoOptions
    /\ source["host"] \in Project <=> fromProject
    /\ copyBack = FileWord

CInv ==
  /\ CTypeOK /\ FilesOnly
  /\ ScalarsWin /\ ListsGather /\ Heard /\ CopyBackFollowsHost

=============================================================================
