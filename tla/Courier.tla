------------------------------ MODULE Courier ------------------------------
(***************************************************************************)
(* What the mailbox host promises, without mailboxes, sequence numbers or  *)
(* leases: "the mailbox is a courier, not an archive" (mailbox.go, Ack).   *)
(* A letter that was accepted waits until it has been received, is carried *)
(* away only then, and may be received any number of times.  The ways out  *)
(* are a revocation, which discards, and the loss of a damaged letter.     *)
(***************************************************************************)
CONSTANT Letters

VARIABLES
  sent,      \* letters ever accepted
  waiting,   \* those the courier still carries
  received,  \* those a receiver has taken in, once or more
  excused    \* those given up: revoked with their mailbox, or damaged

vars == <<sent, waiting, received, excused>>

Init == sent = {} /\ waiting = {} /\ received = {} /\ excused = {}

\* A letter posted to a mailbox whose revocation was cut short is excused from
\* the start.
Post(m) ==
  /\ m \notin sent
  /\ sent' = sent \cup {m}
  /\ waiting' = waiting \cup {m}
  /\ excused' \in {excused, excused \cup {m}}
  /\ UNCHANGED received

Deliver(S) ==
  /\ S \subseteq sent
  /\ received' = received \cup S
  /\ UNCHANGED <<sent, waiting, excused>>

\* Only a letter that has been received is carried away.
Confirm(S) ==
  /\ S \subseteq waiting \cap received
  /\ waiting' = waiting \ S
  /\ UNCHANGED <<sent, received, excused>>

\* A revocation discards some of the letters it excuses, or all of them.
Excuse(S, gone) ==
  /\ S \subseteq sent
  /\ gone \subseteq S
  /\ excused' = excused \cup S
  /\ waiting' = waiting \ gone
  /\ UNCHANGED <<sent, received>>

Next ==
  \/ \E m \in sent' \ sent : m \in Letters /\ Post(m)
  \/ \E S \in SUBSET sent : Deliver(S)
  \/ \E S \in SUBSET waiting : Confirm(S)
  \/ \E S \in SUBSET sent : \E gone \in SUBSET S : Excuse(S, gone)

Spec == Init /\ [][Next]_vars

============================================================================
