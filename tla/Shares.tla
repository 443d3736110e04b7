------------------------------- MODULE Shares -------------------------------
(***************************************************************************)
(* The life of a share (service/sharing.go, api/sharing.go, the rows of    *)
(* project_shares in store/sharing.sql.go, the passes of sync/engine.go as *)
(* far as they enable and disable): configuring the mailbox host, creating *)
(* two mailboxes on it, the invite, accepting it, unsharing, revocation.   *)
(* Nothing here runs in a transaction.  The configuration is five settings *)
(* put one by one, in no order, and read one by one; the model keeps two of *)
(* them, the URL and the credentials that go with it.  An invite is        *)
(* identified by the symmetric key in it.  What travels in the mailboxes is *)
(* SyncPair's.                                                             *)
(***************************************************************************)
EXTENDS Naturals, FiniteSets

CONSTANTS
  Instances,
  ShareProjects,    \* projects of an instance
  Hosts,            \* mailbox hosts
  NoHost,
  MaxBoxes,         \* bound: mailboxes created, on all hosts
  MaxPuts           \* bound: configurations put

ASSUME SharesAssumption ==
  NoHost \notin Hosts /\ MaxBoxes \in Nat /\ MaxPuts \in Nat

Boxes == 1..MaxBoxes
Parts == {"url", "creds"}
AnyHost == Hosts \cup {NoHost}

\* ours: drained by the sharer; theirs: by the joiner; key: of the payloads.
Step == [at : {"idle", "read", "ours", "theirs", "row"}, project : ShareProjects \cup {NoHost},
         url : AnyHost, creds : AnyHost, ours : 0..MaxBoxes, theirs : 0..MaxBoxes]

Share == [inst : Instances, project : ShareProjects, url : Hosts, send : Boxes, recv : Boxes,
          key : Boxes, enabled : BOOLEAN]

Invite == [url : Hosts, send : Boxes, recv : Boxes, key : Boxes]

VARIABLES
  config,    \* the settings of each instance
  putting,   \* the parts of a configuration still to be written, and their host
  puts,
  boxes,     \* live mailboxes: the host each is on
  created,   \* number of mailboxes ever created
  sharing,   \* the ShareProject call of each instance
  shares,    \* the project_shares tables
  invites,   \* invites shown to somebody
  accepted   \* history: how often each invite was accepted, up to 2

shareVars == <<config, putting, puts, boxes, created, sharing, shares, invites, accepted>>

hostVars == <<boxes, created>>
configVars == <<config, putting, puts>>

SharesTypeOK ==
  /\ config \in [Instances -> [Parts -> AnyHost]]
  /\ putting \in [Instances -> [todo : SUBSET Parts, url : AnyHost]]
  /\ puts \in 0..MaxPuts
  /\ boxes \in [Boxes -> AnyHost] /\ created \in 0..MaxBoxes
  /\ sharing \in [Instances -> Step]
  /\ shares \subseteq Share /\ invites \subseteq Invite
  /\ accepted \in [Boxes -> 0..2]

NoStep == [at |-> "idle", project |-> NoHost, url |-> NoHost, creds |-> NoHost,
           ours |-> 0, theirs |-> 0]

SharesInit ==
  /\ config = [i \in Instances |-> [p \in Parts |-> NoHost]]
  /\ putting = [i \in Instances |-> [todo |-> {}, url |-> NoHost]]
  /\ puts = 0 /\ created = 0
  /\ boxes = [b \in Boxes |-> NoHost]
  /\ sharing = [i \in Instances |-> NoStep]
  /\ shares = {} /\ invites = {}
  /\ accepted = [b \in Boxes |-> 0]

-----------------------------------------------------------------------------
(***************************************************************************)
(* The configuration.                                                      *)
(***************************************************************************)

\* putMailboxConfig, Validate: URL and credentials are all there.
PutConfig(i, h) ==
  /\ putting[i].todo = {} /\ puts < MaxPuts
  /\ puts' = puts + 1
  /\ putting' = [putting EXCEPT ![i] = [todo |-> Parts, url |-> h]]
  /\ UNCHANGED <<config, hostVars, sharing, shares, invites, accepted>>

\* SetMailboxConfig ranges over a map.
SetMailboxConfig(i, p) ==
  /\ p \in putting[i].todo
  /\ config' = [config EXCEPT ![i][p] = putting[i].url]
  /\ putting' = [putting EXCEPT ![i].todo = @ \ {p}]
  /\ UNCHANGED <<puts, hostVars, sharing, shares, invites, accepted>>

\* A put that fails ends the loop.
PutFails(i) ==
  /\ putting[i].todo # {}
  /\ putting' = [putting EXCEPT ![i].todo = {}]
  /\ UNCHANGED <<config, puts, hostVars, sharing, shares, invites, accepted>>

-----------------------------------------------------------------------------
(***************************************************************************)
(* ShareProject.                                                           *)
(***************************************************************************)

To(i, step) == sharing' = [sharing EXCEPT ![i] = step]

\* MailboxConfig reads the URL first; an unset one is not configured.
ShareProject(i, p) ==
  /\ sharing[i].at = "idle" /\ config[i]["url"] # NoHost
  /\ To(i, [NoStep EXCEPT !.at = "read", !.project = p, !.url = config[i]["url"]])
  /\ UNCHANGED <<configVars, hostVars, shares, invites, accepted>>

ReadCredentials(i) ==
  /\ sharing[i].at = "read"
  /\ IF config[i]["creds"] = NoHost THEN To(i, NoStep)
     ELSE To(i, [sharing[i] EXCEPT !.at = "ours", !.creds = config[i]["creds"]])
  /\ UNCHANGED <<configVars, hostVars, shares, invites, accepted>>

\* The host lets in who shows a certificate and an admin token of its own.
CreateMailbox(i) ==
  /\ sharing[i].at \in {"ours", "theirs"} /\ created < MaxBoxes
  /\ sharing[i].creds = sharing[i].url
  /\ created' = created + 1
  /\ boxes' = [boxes EXCEPT ![created + 1] = sharing[i].url]
  /\ IF sharing[i].at = "ours"
     THEN To(i, [sharing[i] EXCEPT !.at = "theirs", !.ours = created + 1])
     ELSE To(i, [sharing[i] EXCEPT !.at = "row", !.theirs = created + 1])
  /\ UNCHANGED <<configVars, shares, invites, accepted>>

\* The sharer writes into theirs and drains ours.
OwnEnd(i) ==
  [inst |-> i, project |-> sharing[i].project, url |-> sharing[i].url,
   send |-> sharing[i].theirs, recv |-> sharing[i].ours, key |-> sharing[i].ours,
   enabled |-> TRUE]

\* Mutant: the invite is the sharer's own end.
InviteUnmirrored(i) ==
  [url |-> sharing[i].url, send |-> sharing[i].theirs, recv |-> sharing[i].ours,
   key |-> sharing[i].ours]

\* "Mirror image for the joiner: they send where we receive, and vice versa."
InviteOf(i) ==
  [url |-> sharing[i].url, send |-> sharing[i].ours, recv |-> sharing[i].theirs,
   key |-> sharing[i].ours]

\* The certificate of the peer, the row, the invite; the answer may be lost.
CreateProjectShare(i) ==
  /\ sharing[i].at = "row"
  /\ shares' = shares \cup {OwnEnd(i)}
  /\ invites' \in {invites, invites \cup {InviteOf(i)}}
  /\ To(i, NoStep)
  /\ UNCHANGED <<configVars, hostVars, accepted>>

\* Any call fails: mailboxes already created stay on the host.
ShareFails(i) ==
  /\ sharing[i].at # "idle"
  /\ To(i, NoStep)
  /\ UNCHANGED <<configVars, hostVars, shares, invites, accepted>>

-----------------------------------------------------------------------------
(***************************************************************************)
(* AcceptInvite, DeleteProjectShare, the sync passes.                      *)
(***************************************************************************)

\* UNIQUE (project_id, send_mailbox) is all that stands against a second use.
AcceptInvite(i, p, v) ==
  /\ \A s \in shares : ~(s.inst = i /\ s.project = p /\ s.send = v.send)
  /\ shares' = shares \cup {[inst |-> i, project |-> p, url |-> v.url, send |-> v.send,
                             recv |-> v.recv, key |-> v.key, enabled |-> TRUE]}
  /\ accepted' = [accepted EXCEPT ![v.key] = IF @ < 2 THEN @ + 1 ELSE @]
  /\ UNCHANGED <<configVars, hostVars, sharing, invites>>

\* Unsharing leaves the mailboxes and the peer's end as they are.
DeleteProjectShare(s) ==
  /\ shares' = shares \ {s}
  /\ UNCHANGED <<configVars, hostVars, sharing, invites, accepted>>

\* DELETE /v1/mailboxes: by whoever holds a token of it.
Revoke(b) ==
  /\ boxes[b] # NoHost
  /\ boxes' = [boxes EXCEPT ![b] = NoHost]
  /\ UNCHANGED <<configVars, created, sharing, shares, invites, accepted>>

\* SyncShare drains recv, then writes to send: either may answer that it is gone.
SyncOnce(s) ==
  /\ s.enabled
  /\ NoHost \in {boxes[s.recv], boxes[s.send]}
  /\ shares' = (shares \ {s}) \cup {[s EXCEPT !.enabled = FALSE]}
  /\ UNCHANGED <<configVars, hostVars, sharing, invites, accepted>>

SharesNext ==
  \/ \E i \in Instances :
       \/ \E h \in Hosts : PutConfig(i, h)
       \/ \E p \in Parts : SetMailboxConfig(i, p)
       \/ PutFails(i)
       \/ \E p \in ShareProjects : ShareProject(i, p) \/ \E v \in invites : AcceptInvite(i, p, v)
       \/ ReadCredentials(i) \/ CreateMailbox(i) \/ CreateProjectShare(i) \/ ShareFails(i)
  \/ \E s \in shares : DeleteProjectShare(s) \/ SyncOnce(s)
  \/ \E b \in Boxes : Revoke(b)

SharesSpec == SharesInit /\ [][SharesNext]_shareVars

-----------------------------------------------------------------------------
\* "One per direction, so neither side can read what it sent": the two ends of a
\* share are mirror images on one host, whatever configuration was put while it was
\* created and whichever calls failed; and a mailbox is drained by one end only,
\* unless its invite was accepted twice or by the one who issued it.
MirrorEnds ==
  \A s, t \in shares :
    /\ s.key = t.key =>
         /\ s.url = t.url
         /\ {s.send, s.recv} = {t.send, t.recv} /\ s.send # s.recv
    /\ s.recv = t.recv /\ s # t => s.key = t.key /\ accepted[s.key] >= 2
=============================================================================
