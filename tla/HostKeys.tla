------------------------------ MODULE HostKeys ------------------------------
(***************************************************************************)
(* How a run comes to trust a server (src/ssh.rs): Ssh::connect reads      *)
(* ~/.ssh/config and dials, and check_server_key compares the key of the   *)
(* server with the known_hosts files or asks the user, all of it within    *)
(* CONNECT_TIMEOUT.  Other runs of the user add keys to the same file      *)
(* meanwhile, and the server may get a new key.                            *)
(*                                                                         *)
(* A key is a value; all keys of one server are of one algorithm, so that  *)
(* a recorded key that is not the presented one has changed.  What earlier *)
(* runs recorded (Machines) and the ssh config are what a run finds.        *)
(***************************************************************************)
EXTENDS HostPatterns, FiniteSets

CONSTANTS
  ServerKeys,    \* the keys the server may have
  Certificate,   \* a certificate in the place of a key
  Machines,      \* what a run finds of keys: see MachinesAssumption
  SshConfigs,    \* what it finds in ~/.ssh/config: see ConfigsAssumption
  HostName,      \* the host, as ~/.ssh/config may name it
  MaxOthers,     \* bound: keys added by other runs
  MaxRekeys      \* bound: new keys of the server

ASSUME MachinesAssumption ==
  /\ Certificate \notin ServerKeys
  /\ \A m \in Machines :
     /\ m.known \subseteq ServerKeys /\ m.fleet \subseteq ServerKeys
     /\ m.hostKey \in ServerKeys \cup {Certificate}
     /\ m.readable \in BOOLEAN

\* "ask" stands for every value but yes.  No host has a * in its name.
Pattern == [not : BOOLEAN, glob : Seq(STRING)]
Block == [patterns : Seq(Pattern), value : {"yes", "ask", ""}]
ASSUME ConfigsAssumption ==
  /\ SshConfigs \subseteq Seq(Block)
  /\ HostName \in Seq(STRING) /\ \A k \in 1..Len(HostName) : HostName[k] # Star

VARIABLES
  kpc,           \* where the connection is
  hostKey,       \* the key of the server
  known,         \* the keys of the server in the user's known_hosts
  fleet,         \* those in /etc/ssh/ssh_known_hosts
  readable,      \* the user's known_hosts can be read
  strict,        \* StrictHostKeyChecking, as connect understands it
  interactive,   \* stdin and stdout are terminals
  presented,     \* the key the server presented to this connection
  kused,         \* how much of each bound is used up
  \* History:
  says,          \* what the ssh config says to ssh
  conflict,      \* the user's file had another key when this one was checked
  accepted       \* the user accepted the presented key

machine == <<hostKey, known, fleet, readable, strict, says>>
kvars == <<kpc, machine, interactive, presented, kused, conflict, accepted>>

KInit ==
  /\ kpc = "off"
  /\ hostKey = Certificate /\ known = {} /\ fleet = {} /\ readable = TRUE
  /\ strict = FALSE /\ says = "" /\ interactive = FALSE
  /\ presented = Certificate
  /\ kused = [others |-> 0, rekeys |-> 0]
  /\ conflict = FALSE /\ accepted = FALSE

-----------------------------------------------------------------------------
(***************************************************************************)
(* Connecting.                                                             *)
(***************************************************************************)

\* What connect makes of ~/.ssh/config, and what the file says to ssh.
Readings ==
  UNION {{[strict |-> v, says |-> Says(c, HostName)] : v \in StrictReadings(c, HostName)} :
         c \in SshConfigs}

\* connect: an ssh config that cannot be parsed, or that asks for a ProxyJump,
\* ends it before anything is sent.
Dial ==
  /\ kpc = "off"
  /\ kpc' \in {"dial", "failed"}
  /\ \E m \in Machines :
       /\ hostKey' = m.hostKey /\ known' = m.known /\ fleet' = m.fleet
       /\ readable' = m.readable
  /\ \E r \in Readings : strict' = r.strict /\ says' = r.says
  /\ interactive' \in BOOLEAN
  /\ UNCHANGED <<presented, kused, conflict, accepted>>

\* What check_known_hosts_path can answer for key k.  With several keys of
\* one host in the file either of the last two may come first.
Recorded(file, k) ==
  (IF file = {} THEN {"unknown"} ELSE {})
  \cup (IF k \in file THEN {"match"} ELSE {})
  \cup (IF file \ {k} # {} THEN {"changed"} ELSE {})

\* Mutant of Verdicts: the system-wide file is asked about a changed key, too.
VerdictsOfBoth(k) ==
  IF k \in fleet THEN {"match"}
  ELSE IF readable THEN Recorded(known, k) ELSE {"unknown"}

\* check_server_key: the system-wide file is asked only when the user's was
\* read and has no key of the host, and only believed when it has this one.
Verdicts(k) ==
  IF readable /\ known = {}
  THEN {IF v = "match" THEN "match" ELSE "unknown" : v \in Recorded(fleet, k)}
  ELSE IF readable THEN Recorded(known, k) ELSE {"unknown"}

Go(pc) == kpc' = pc /\ UNCHANGED <<machine, interactive, kused>>

\* The key exchange: what the handler decides of the presented key.
CheckKey ==
  /\ kpc = "dial"
  /\ presented' = hostKey
  /\ conflict' = (readable /\ known # {} /\ hostKey \notin known)
  /\ IF hostKey = Certificate
     THEN Go("failed")
     ELSE \E v \in Verdicts(hostKey) :
            Go(CASE v = "match" -> "trusted"
                 [] v = "changed" -> "failed"
                 [] v = "unknown" -> IF strict \/ ~ interactive THEN "failed" ELSE "prompt")
  /\ UNCHANGED accepted

\* The user answers: a yes counts even if the key cannot be recorded.
Answer ==
  /\ kpc = "prompt"
  /\ \/ /\ kpc' = "trusted" /\ accepted' = TRUE
        /\ known' \in {known, known \cup {presented}}
     \/ kpc' = "failed" /\ UNCHANGED <<known, accepted>>
  /\ UNCHANGED <<hostKey, fleet, readable, strict, says, interactive, presented,
                 kused, conflict>>

\* Mutant of Timeout: the time of the user does not count.
TimeoutDialing ==
  kpc = "dial" /\ Go("failed") /\ UNCHANGED <<presented, conflict, accepted>>

\* CONNECT_TIMEOUT, which runs while the user is asked, too: the error is
\* printed, but the process waits for the line it reads from the terminal.
Timeout ==
  /\ \/ kpc = "dial" /\ Go("failed")
     \/ kpc = "prompt" /\ Go("late")
  /\ UNCHANGED <<presented, conflict, accepted>>

\* The line comes at last: the process ends, and the answer is not heeded.
LateAnswer ==
  kpc = "late" /\ Go("failed") /\ UNCHANGED <<presented, conflict, accepted>>

-----------------------------------------------------------------------------
(***************************************************************************)
(* The rest of the world.                                                  *)
(***************************************************************************)

\* Another run of the user, that checked earlier, records a key.
OtherLearns ==
  /\ kpc # "off" /\ kused.others < MaxOthers
  /\ kused' = [kused EXCEPT !.others = @ + 1]
  /\ \E k \in ServerKeys \ known : known' = known \cup {k}
  /\ UNCHANGED <<kpc, hostKey, fleet, readable, strict, says, interactive,
                 presented, conflict, accepted>>

\* The server gets a new key.
Rekey ==
  /\ kpc # "off" /\ kused.rekeys < MaxRekeys
  /\ kused' = [kused EXCEPT !.rekeys = @ + 1]
  /\ \E k \in ServerKeys \ {hostKey} : hostKey' = k
  /\ UNCHANGED <<kpc, known, fleet, readable, strict, says, interactive,
                 presented, conflict, accepted>>

KNext == CheckKey \/ Answer \/ Timeout \/ LateAnswer \/ OtherLearns \/ Rekey

-----------------------------------------------------------------------------
(***************************************************************************)
(* Properties.                                                             *)
(***************************************************************************)

\* Nothing is sent to a server whose key is not vouched for: it is recorded by
\* the user, or system-wide while the user's own file has no other, or the user
\* accepted it at a terminal although the ssh config does not demand a known key.
\* A key that contradicts the user's own file is never taken, whoever knows it.
\* And a config that only asks does not lock new hosts out.
Vouched ==
  /\ kpc = "trusted" =>
       /\ presented \in ServerKeys
       /\ \/ presented \in known
          \/ presented \in fleet /\ ~ conflict
          \/ accepted /\ ~ conflict
       /\ accepted => interactive /\ says # "yes"
  /\ kpc # "off" /\ says = "ask" => ~ strict

-----------------------------------------------------------------------------
\* connect understands the ssh config as ssh does: what Vouched rests on.
Agreed ==
  \A r \in Readings : /\ r.says = "yes" => r.strict
                      /\ r.says = "ask" => ~ r.strict

KTypeOK ==
  /\ kpc \in {"off", "dial", "prompt", "late", "trusted", "failed", "done"}
  /\ hostKey \in ServerKeys \cup {Certificate}
  /\ presented \in ServerKeys \cup {Certificate}
  /\ known \subseteq ServerKeys /\ fleet \subseteq ServerKeys
  /\ readable \in BOOLEAN /\ strict \in BOOLEAN /\ interactive \in BOOLEAN
  /\ says \in {"yes", "ask", ""}
  /\ conflict \in BOOLEAN /\ accepted \in BOOLEAN

\* The inductive invariant: the user is only asked about a key that contradicts
\* nothing, and only when the config allows it.
KInv ==
  /\ KTypeOK /\ Vouched
  /\ kpc # "trusted" => ~ accepted
  /\ kpc = "prompt" => presented \in ServerKeys /\ ~ conflict /\ interactive /\ ~ strict
  /\ says = "yes" => strict

=============================================================================
