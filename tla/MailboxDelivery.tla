-------------------------- MODULE MailboxDelivery --------------------------
(***************************************************************************)
(* The mailbox host end to end: HTTP senders and receivers around the      *)
(* Store of module Mailbox.                                                *)
(*                                                                         *)
(* A sender's request is checked by auth without the Store's mutex and     *)
(* only then enters Store.Send, so a Delete or a restart can fall between  *)
(* the two.  A receiver drains a mailbox, applies what it was handed and   *)
(* only then acks (pullInbound in internal/sync/engine.go); it can crash,  *)
(* or lose a response, at every point of that.                             *)
(*                                                                         *)
(* Bodies are sealed under a random nonce, so no two requests carry the    *)
(* same one: posted is the set of those already used.                      *)
(***************************************************************************)
EXTENDS Mailbox

CONSTANTS Senders, Receivers, NoRequest

ASSUME NoRequestAssumption == NoRequest \notin [box : Boxes, body : Bodies]

VARIABLES
  req,       \* each sender's request that passed auth and awaits the mutex
  phase,     \* each receiver: "idle", "held" (not applied yet) or "applied"
  hold,      \* the letters of its last Receive
  posted,    \* history: bodies sent so far
  accepted,  \* history: letters whose Send was answered 202
  applied,   \* history: letters a receiver has applied
  torn,      \* history: <<box, seq>> a Send wrote without bumping NextSeq
  revoked,   \* history: mailboxes on which Delete ran
  spoiled    \* history: letters whose file was damaged

clientVars  == <<req, phase, hold>>
historyVars == <<posted, accepted, applied, torn, revoked, spoiled>>
vars        == <<storeVars, clientVars, historyVars>>

TypeOK ==
  /\ StoreTypeOK
  /\ req \in [Senders -> [box : Boxes, body : Bodies] \cup {NoRequest}]
  /\ phase \in [Receivers -> {"idle", "held", "applied"}]
  /\ hold \in [Receivers -> SUBSET Letter]
  /\ posted \subseteq Bodies
  /\ accepted \subseteq Letter
  /\ applied \subseteq Letter
  /\ torn \subseteq Boxes \X (Nat \ {0})
  /\ revoked \subseteq Boxes
  /\ spoiled \subseteq Letter

Init ==
  /\ StoreInit
  /\ req = [c \in Senders |-> NoRequest]
  /\ phase = [r \in Receivers |-> "idle"]
  /\ hold = [r \in Receivers |-> {}]
  /\ posted = {} /\ accepted = {} /\ applied = {}
  /\ torn = {} /\ revoked = {} /\ spoiled = {}

----------------------------------------------------------------------------
(* POST /v1/mailboxes, and a creation cut short. *)

Mint(b) ==
  /\ Create(b) \/ CreateTorn(b)
  /\ UNCHANGED <<clientVars, historyVars>>

(* POST /v1/mailboxes/{id}/messages. *)

\* auth: the mailbox exists and the write token matches.
Authorize(c, b, body) ==
  /\ req[c] = NoRequest
  /\ Open(b)
  /\ body \notin posted
  /\ req' = [req EXCEPT ![c] = [box |-> b, body |-> body]]
  /\ posted' = posted \cup {body}
  /\ UNCHANGED <<storeVars, phase, hold, accepted, applied, torn, revoked,
                 spoiled>>

Answered(c) == req' = [req EXCEPT ![c] = NoRequest]

\* Store.Send succeeds: 202 with the sequence number.
Accept(c) ==
  /\ req[c] # NoRequest
  /\ Send(req[c].box, req[c].body)
  /\ accepted' = accepted \cup {[box  |-> req[c].box,
                                 seq  |-> nextSeq[req[c].box],
                                 body |-> req[c].body]}
  /\ Answered(c)
  /\ UNCHANGED <<phase, hold, posted, applied, torn, revoked, spoiled>>

\* 507, and nothing is stored.
NotStored(c) ==
  /\ req[c] # NoRequest
  /\ Answered(c)
  /\ UNCHANGED <<storeVars, phase, hold, historyVars>>

\* The mailbox is full, or was deleted since auth.
Refuse(c) == NotStored(c) /\ ~CanSend(req[c].box)

\* The message file cannot be written.
WriteFails(c) == NotStored(c) /\ CanSend(req[c].box)

\* saveMeta fails after the message file was written: 507 as well.  The process
\* dying between the two writes is this step and then HostRestarts.
SaveFails(c) ==
  /\ req[c] # NoRequest
  /\ SendTorn(req[c].box, req[c].body)
  /\ torn' = torn \cup {<<req[c].box, nextSeq[req[c].box]>>}
  /\ Answered(c)
  /\ UNCHANGED <<leases, phase, hold, posted, accepted, applied, revoked,
                 spoiled>>

HostRestarts ==
  /\ Restart
  /\ req' = [d \in Senders |-> NoRequest]
  /\ UNCHANGED <<phase, hold, historyVars>>

(* GET /v1/mailboxes/{id}/messages, the apply, and the ack. *)

Drain(r, b) ==
  /\ phase[r] = "idle"
  /\ Receive(b)
  /\ hold' = [hold EXCEPT ![r] = Handed(b)]
  /\ phase' = [phase EXCEPT ![r] = IF Handed(b) = {} THEN "idle" ELSE "held"]
  /\ UNCHANGED <<req, historyVars>>

\* The messages are leased and the response never reaches the receiver, or a
\* read error cuts the scan short after some of them.
ResponseLost(b) ==
  /\ Receive(b)
  /\ UNCHANGED <<clientVars, historyVars>>

Apply(r) ==
  /\ phase[r] = "held"
  /\ phase' = [phase EXCEPT ![r] = "applied"]
  /\ applied' = applied \cup hold[r]
  /\ UNCHANGED <<storeVars, req, hold, posted, accepted, torn, revoked,
                 spoiled>>

Done(r) ==
  /\ phase' = [phase EXCEPT ![r] = "idle"]
  /\ hold' = [hold EXCEPT ![r] = {}]

\* The ack names the letters by sequence number and by nothing else.  An I/O
\* error can stop it after the letters in S.
AckHeld(r, S) ==
  /\ phase[r] = "applied"
  /\ \E b \in Boxes :
       /\ \A m \in hold[r] : m.box = b
       /\ Ack(b, {m.seq : m \in S})
  /\ Done(r)
  /\ UNCHANGED <<req, historyVars>>

\* An apply fails, the receiver crashes, or the ack is lost or answered 404.
GiveUp(r) ==
  /\ phase[r] # "idle"
  /\ Done(r)
  /\ UNCHANGED <<storeVars, req, historyVars>>

(* DELETE /v1/mailboxes/{id}: the revoke path. *)

Revoke(b) ==
  /\ Delete(b) \/ \E kept \in SUBSET InBox(b) : DeleteTorn(b, kept)
  /\ revoked' = revoked \cup {b}
  /\ UNCHANGED <<clientVars, posted, accepted, applied, torn, spoiled>>

(* The environment: the clock and the disk. *)

Expire(l) ==
  /\ LeaseExpires(l)
  /\ UNCHANGED <<clientVars, historyVars>>

Spoil(f) ==
  /\ Damage(f)
  /\ spoiled' = spoiled \cup {f}
  /\ UNCHANGED <<clientVars, posted, accepted, applied, torn, revoked>>

----------------------------------------------------------------------------

SenderStep(c) ==
  \/ \E b \in Boxes, body \in Bodies : Authorize(c, b, body)
  \/ Accept(c) \/ Refuse(c) \/ WriteFails(c) \/ SaveFails(c)

ReceiverStep(r) ==
  \/ \E b \in Boxes : Drain(r, b)
  \/ Apply(r) \/ GiveUp(r)
  \/ \E S \in SUBSET hold[r] : AckHeld(r, S)

HostStep ==
  \/ \E b \in Boxes : Mint(b) \/ ResponseLost(b) \/ Revoke(b)
  \/ \E l \in leases : Expire(l)
  \/ \E f \in files : Spoil(f)
  \/ HostRestarts

Next ==
  \/ \E c \in Senders : SenderStep(c)
  \/ \E r \in Receivers : ReceiverStep(r)
  \/ HostStep

Spec == Init /\ [][Next]_vars

\* The receiver polls on a ticker for as long as the share is enabled
\* (Engine.Run), leases run out, and neither a failing apply nor a failing ack
\* fails every time.  Nothing is assumed of senders, revocations or faults.
Fairness ==
  /\ \A r \in Receivers, b \in Boxes : SF_vars(Drain(r, b))
  /\ \A r \in Receivers : SF_vars(Apply(r)) /\ SF_vars(AckHeld(r, hold[r]))
  /\ WF_vars(\E l \in leases : Expire(l))

FairSpec == Spec /\ Fairness

----------------------------------------------------------------------------
(* What the host promises. *)

Torn(m) == <<m.box, m.seq>> \in torn

\* Where an accepted letter may be once it is no longer in its file.
Settled(m) == m \in applied \/ m.box \in revoked \/ m \in spoiled

\* "an instance that crashes mid-apply sees the message again instead of
\* silently losing a change" (mailbox.go:15-18): whatever was answered 202 is
\* stored until a receiver has applied it.
NoAcceptedLost == \A m \in accepted : m \in files \/ Settled(m)

\* The exact extent of that promise: an accepted letter can only be lost if an
\* earlier Send of the same mailbox wrote the same sequence number and failed
\* to save the counter.
LossNeedsTornSend ==
  \A m \in accepted : m \in files \/ Settled(m) \/ Torn(m)

\* Sequence numbers that were announced to a sender are never announced again,
\* whatever fails in between: an ack cannot name two accepted letters.
AcceptedSeqsDistinct ==
  \A m \in accepted :
    /\ m.seq < nextSeq[m.box]
    /\ \A n \in accepted : m.box = n.box /\ m.seq = n.seq => m = n

\* The MaxPending backstop holds for senders that passed auth together and
\* for sequence numbers written twice.
PendingBounded == \A b \in Boxes : Cardinality(Pending(b)) <= MaxPending

\* Revoking is final: a request authorised before the Delete and served after
\* it leaves nothing behind, and nothing is handed out any more.
RevokedIsEmpty ==
  \A b \in Boxes : status[b] = "deleted" =>
    InBox(b) = {} /\ (\A l \in leases : l.box # b)

\* A receiver is handed a letter before an earlier one of the same mailbox only
\* while the earlier one is leased, that is in the hands of another delivery
\* ("Zero-padded so a lexical directory listing is also sequence order").
NoOvertaking ==
  [][\A r \in Receivers : phase[r] = "idle" =>
       \A m \in hold'[r], n \in files :
         n.box = m.box /\ n.seq < m.seq /\ n.body # Corrupt
           => n \in hold'[r] \/ Leased(n.box, n.seq)]_vars

\* Every accepted message is delivered, unless the mailbox is revoked, its file
\* is damaged or its sequence number was torn.
EventuallyDelivered ==
  \A body \in Bodies :
    (\E m \in accepted : m.body = body)
      ~> (\E m \in accepted : m.body = body /\ (Settled(m) \/ Torn(m)))

\* "A corrupt message would otherwise wedge the mailbox forever": a damaged
\* file is eventually dropped from an open mailbox, whatever is queued before it.
CorruptNeverWedges ==
  \A b \in Boxes :
    (\E f \in InBox(b) : f.body = Corrupt)
      ~> (~Open(b) \/ \A f \in InBox(b) : f.body # Corrupt)

============================================================================
