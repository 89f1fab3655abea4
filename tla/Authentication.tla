--------------------------- MODULE Authentication ---------------------------
(***************************************************************************)
(* authenticate of src/ssh.rs: the keys of ssh-agent, then those of the    *)
(* identity files, are offered one after another until the server takes    *)
(* one.  The server hangs up after MaxTries offers.  A connection that is  *)
(* lost meanwhile is left out.                                             *)
(***************************************************************************)
EXTENDS Naturals, Sequences, FiniteSets

CONSTANTS
  Rings,     \* the server's age, and the keys of the user in order
  MaxTries

\* A key can be "plain", "rsa" or none that is offered ("skip": a certificate of
\* the agent, a file that is missing or has a passphrase); works: it is the key
\* of an account of the server.
KeyKinds == {"plain", "rsa", "skip"}
ASSUME RingsAssumption ==
  /\ MaxTries \in Nat
  /\ \A r \in Rings : /\ r.old \in BOOLEAN
                      /\ r.ids \in Seq([kind : KeyKinds, works : BOOLEAN])

VARIABLES
  apc,       \* "off", "offer", "up" or "failed"
  ring,      \* the server's age and the keys
  current,   \* the key that is next
  tries      \* the keys offered so far

avars == <<apc, ring, current, tries>>

AInit ==
  /\ apc = "off" /\ ring = [old |-> FALSE, ids |-> <<>>]
  /\ current = 1 /\ tries = 0

FindKeys ==
  /\ apc = "off"
  /\ apc' = "offer" /\ ring' \in Rings
  /\ UNCHANGED <<current, tries>>

\* Mutant of TryKey: what cannot be offered ends it.
TryKeyOrStop ==
  /\ apc = "offer" /\ current <= Len(ring.ids)
  /\ LET id == ring.ids[current]
         refused == id.kind = "skip" \/ (id.kind = "rsa" /\ ring.old)
     IN  /\ apc' = IF refused THEN "failed"
                   ELSE IF id.works /\ tries < MaxTries THEN "up" ELSE "offer"
         /\ tries' = IF refused THEN tries ELSE tries + 1
  /\ current' = current + 1
  /\ UNCHANGED ring

\* An RSA key for a server that predates rsa-sha2 ends it all.
TryKey ==
  /\ apc = "offer" /\ current <= Len(ring.ids)
  /\ LET id == ring.ids[current]
         refused == id.kind = "rsa" /\ ring.old
         offered == id.kind # "skip" /\ ~ refused
     IN  /\ apc' = IF refused THEN "failed"
                   ELSE IF offered /\ id.works /\ tries < MaxTries THEN "up" ELSE "offer"
         /\ tries' = IF offered THEN tries + 1 ELSE tries
  /\ current' = current + 1
  /\ UNCHANGED ring

NoKeyLeft ==
  /\ apc = "offer" /\ current > Len(ring.ids)
  /\ apc' = "failed"
  /\ UNCHANGED <<ring, current, tries>>

ANext == FindKeys \/ TryKey \/ NoKeyLeft

-----------------------------------------------------------------------------
\* The keys before the p-th that are offered.
Offers(p) == {q \in 1..(p - 1) : ring.ids[q].kind # "skip"}
Usable(p) == ring.ids[p].works /\ ring.ids[p].kind # "skip"

\* Authentication only fails when no key works that is reached: before it there is
\* no RSA key that an old server makes the client stop at, and the server has
\* not hung up after too many offers.
UsableKeyWins ==
  apc = "failed" =>
    \A p \in 1..Len(ring.ids) :
      Usable(p) => \/ Cardinality(Offers(p)) >= MaxTries
                   \/ ring.old /\ \E q \in 1..p : ring.ids[q].kind = "rsa"

\* The inductive invariant: while keys are offered, none so far was of use.
AInv ==
  /\ apc \in {"off", "offer", "up", "failed", "done"}
  /\ ring.old \in BOOLEAN
  /\ ring.ids \in Seq([kind : KeyKinds, works : BOOLEAN])
  /\ current \in 1..(Len(ring.ids) + 1)
  /\ apc \in {"off", "offer"} =>
       /\ tries = Cardinality(Offers(current))
       /\ \A p \in 1..(current - 1) : Usable(p) => Cardinality(Offers(p)) >= MaxTries
  /\ apc = "off" => current = 1
  /\ UsableKeyWins

=============================================================================
