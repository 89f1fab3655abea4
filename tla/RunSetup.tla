------------------------------ MODULE RunSetup ------------------------------
(***************************************************************************)
(* A run from its command line to the host: the settings (ConfigLayers),   *)
(* the key of the server (HostKeys), the keys of the user (Authentication) *)
(* and the host (HostCheck), each after the one before, in the order of    *)
(* build_context, Ssh::connect and the command.  What a phase leaves       *)
(* behind and nothing reads later is forgotten.                            *)
(***************************************************************************)
EXTENDS ConfigLayers, HostKeys, Authentication, HostCheck

vars == <<cvars, kvars, avars, hvars>>

Init == CInit /\ KInit /\ AInit /\ HInit

Configure == CNext /\ UNCHANGED <<kvars, avars, hvars>>

\* build_context has its settings; a dry run goes no further.
HaveSettings ==
  /\ cpc = "settled" /\ cpc' = "done"
  /\ source' = [k \in Scalars |-> 0] /\ items' = [k \in Lists |-> <<>>]
  /\ copyBack' = "none" /\ fromProject' = FALSE /\ warned' = {}
  /\ seen' = <<>> /\ options' = NoOptions
  /\ UNCHANGED <<kvars, avars, hvars>>

Connect == cpc = "done" /\ Dial /\ UNCHANGED <<cvars, avars, hvars>>

Connecting == KNext /\ UNCHANGED <<cvars, avars, hvars>>

\* connect returns to authenticate.
Connected ==
  /\ kpc = "trusted" /\ kpc' = "done"
  /\ hostKey' = Certificate /\ known' = {} /\ fleet' = {} /\ readable' = TRUE
  /\ strict' = FALSE /\ says' = "" /\ interactive' = FALSE
  /\ presented' = Certificate
  /\ kused' = [others |-> 0, rekeys |-> 0]
  /\ conflict' = FALSE /\ accepted' = FALSE
  /\ UNCHANGED <<cvars, avars, hvars>>

\* Once the server is trusted the user's keys are offered.
LogIn ==
  /\ kpc = "done"
  /\ FindKeys \/ TryKey \/ NoKeyLeft
  /\ UNCHANGED <<cvars, kvars, hvars>>

LoggedIn ==
  /\ apc = "up" /\ apc' = "done"
  /\ ring' = [old |-> FALSE, ids |-> <<>>] /\ current' = 1 /\ tries' = 0
  /\ UNCHANGED <<cvars, kvars, hvars>>

\* And then the command finds out about the host.
Command == apc = "done" /\ HNext /\ UNCHANGED <<cvars, kvars, avars>>

Next ==
  \/ Configure \/ HaveSettings \/ Connect \/ Connecting
  \/ Connected \/ LogIn \/ LoggedIn \/ Command

\* The process runs whenever it can and the server answers it or the timeouts
\* count; the user answers or does not.
Connects == (CheckKey \/ Timeout) /\ UNCHANGED <<cvars, avars, hvars>>
Spec ==
  /\ Init /\ [][Next]_vars
  /\ WF_vars(Connects) /\ WF_vars(Connected) /\ WF_vars(LogIn)

\* Every attempt to connect ends by itself, with a connection or with an error, or
\* leaves the process waiting for the user's line: the question to the user does
\* not hold up the timeout.
ConnectEnds ==
  (kpc = "dial") ~> (kpc \in {"failed", "late"} \/ apc \in {"up", "failed", "done"})

IInv == CInv /\ KInv /\ AInv /\ HInv

=============================================================================
