---------------------------- MODULE OutboxFanout ----------------------------
(***************************************************************************)
(* The webhook outbox implements a Fanout: its rows are the events, what   *)
(* webhook_events says of them their fate, and a subscriber is owed an     *)
(* event while it stays registered.                                        *)
(***************************************************************************)
EXTENDS WebhookOutbox

\* The webhooks an event can go to, registered or not.
Audience ==
  [e \in Events |->
     {h \in Hooks : Scope[h] \in {AllProjects, ProjectOf[e]} /\ e \in Wants[h]}]

StillOwed == [e \in Events |-> owed[e] \cap hooks]

F == INSTANCE Fanout WITH
       open       <- rows \ Settled,
       dropped    <- gone,
       owed       <- StillOwed,
       answers    <- acked,
       unsure     <- unreported,
       overlapped <- overrun

\* Every step of the outbox is a step of the fan-out or none at all: leases and
\* their ends, copies of rows, retries, crashes and failed reports never settle
\* an event wrongly or twice, and never send it to who has it.
ImplementsFanout == F!Spec

=============================================================================
