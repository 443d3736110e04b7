--------------------------- MODULE MailboxCourier ---------------------------
(***************************************************************************)
(* The mailbox host implements a Courier of the accepted letters whose     *)
(* sequence number no failed Send had written before.  (A letter that      *)
(* reuses a torn sequence number is outside the promise: NoAcceptedLost of *)
(* MailboxDelivery shows what happens to it.)                              *)
(***************************************************************************)
EXTENDS MailboxDelivery

Carried == {m \in accepted : ~Torn(m)}

C == INSTANCE Courier WITH
       Letters  <- [box : Boxes, seq : Nat \ {0}, body : Bodies],
       sent     <- Carried,
       waiting  <- Carried \cap files,
       received <- Carried \cap applied,
       excused  <- {m \in Carried : m.box \in revoked \/ m \in spoiled}

\* Every step of the host is a step of the courier or none at all: an ack of
\* a stale delivery, a redelivery after a lease ran out and a restart between
\* two requests never carry a letter away that nobody has received.
ImplementsCourier == C!Spec

============================================================================
