------------------------------ MODULE SyncPair ------------------------------
(***************************************************************************)
(* Two instances sharing a project (internal/sync/engine.go), composed     *)
(* with the mailbox host of module Mailbox: each instance drains the       *)
(* mailbox that bears its id and sends into its peer's.                    *)
(*                                                                         *)
(* One pass of the engine (SyncShare) is: Receive, apply every message,    *)
(* Ack, then send the project row, the items and the activity whose hash   *)
(* differs from sent_hash.  Users edit rows at any moment, also between    *)
(* the read and the write of one apply; a pass can be cut short anywhere.  *)
(*                                                                         *)
(* Content stands for its own ContentHash.  The hash columns keep the      *)
(* names of project_share_state: sent (sent_hash) and base (base_hash).    *)
(***************************************************************************)
EXTENDS Merge, FiniteSets

CONSTANTS
  Instances,  \* the two instance ids, compared as mergeConflict compares them
  Project,    \* the project row
  Items,      \* item rows that can exist
  NewItems,   \* those of Items that do not exist when the share is set up
  Notes,      \* activity rows that can exist
  MintedBy,   \* which instance's random ids a new item or note has
  NoHash,     \* the empty hash: no such row in project_share_state yet
  Absent,     \* the row does not exist on this instance
  Corrupt, MaxPending, MaxMailboxes, ReceiveLimit,   \* see Mailbox
  Rights,     \* bound: the kinds of edit each instance's users make
  Faults,     \* bound: the kinds of fault that happen
  MaxEdits, MaxFaults, MaxSeq   \* bounds on their number, and on messages

Rows == {Project} \cup Items \cup Notes

EditKinds  == {"title", "status", "meta", "append", "rewrite", "delete",
               "create", "note", "project"}
FaultKinds == {"unanswered", "refused", "redelivery", "restart"}

ASSUME SyncAssumption ==
  /\ Instances \subseteq Nat
  /\ \A i \in Instances : \E j \in Instances : j # i
                            /\ Instances = {i, j}
  /\ Project \notin Items \cup Notes
  /\ Items \cap Notes = {}
  /\ NewItems \subseteq Items
  /\ MintedBy \in [NewItems \cup Notes -> Instances]
  /\ Rights \in [Instances -> SUBSET EditKinds]
  /\ Faults \subseteq FaultKinds
  /\ MaxEdits \in Nat /\ MaxFaults \in Nat /\ MaxSeq \in Nat

Peer(i) == CHOOSE j \in Instances : j # i

ProjectPayload  == [text : Mark \cup {None}]    \* None while it is blank
ActivityPayload == [link : Items \cup {None}]   \* the item it is attached to

Content(e) == CASE e \in Items -> ItemPayload
                [] e \in Notes -> ActivityPayload
                [] e = Project -> ProjectPayload

Envelope == [row : {Project}, content : ProjectPayload]
              \cup [row : Items, content : ItemPayload]
              \cup [row : Notes, content : ActivityPayload]

Payload == ProjectPayload \cup ActivityPayload \cup ItemPayload

\* The hash of a content is never the empty string, a row that is there has a
\* content, what an edit writes is neither nothing nor a separator, and a file
\* that does not parse is no envelope.
ASSUME ContentAssumption ==
  /\ NoHash \notin Payload /\ Absent \notin Payload
  /\ None \notin Mark /\ Sep \notin Mark
  /\ Corrupt \notin Envelope

\* What applyItem carries from its read to its write.
ItemWork == [row : Items, content : ItemPayload, merged : BOOLEAN]

VARIABLES
  db,        \* each instance's rows
  st,        \* each instance's project_share_state
  at,        \* where its engine is: "idle", "apply", "write", or the stage
             \* of pushOutbound: "project", "items" or "activity"
  held,      \* the letters of its last Receive
  left,      \* those of them not applied yet
  work,      \* at "write": the row, what to write, and whether it is a merge
  todo,      \* during pushOutbound: envelopes still to be sent
  status, nextSeq, files, leases,   \* the mailbox host
  edits,     \* edits made so far; the last one wrote the mark edits
  faults,    \* faults so far
  known,     \* history: what the peer is known to have: <<row, content>> pairs
             \* this instance sent or received
  wrote,     \* history: <<row, mark>> appended to a body
  removed,   \* history: items a user deleted
  parted     \* history: rows that went through one of the three events below
             \* after which nothing need bring their two copies together

storeVars   == <<status, nextSeq, files, leases>>
engineVars  == <<at, held, left, work, todo>>
boundVars   == <<edits, faults>>
historyVars == <<known, wrote, removed, parted>>
vars == <<db, st, engineVars, storeVars, boundVars, historyVars>>

MB == INSTANCE Mailbox WITH Boxes <- Instances, Bodies <- Envelope

FirstVersion == [title |-> 0, meta |-> 0, body |-> <<0>>, deleted |-> None]

\* ShareProject and AcceptInvite: two open mailboxes, no sync state.  The
\* sharer has the items; the joiner has a project created from the invite,
\* which carries a name and no text.
Init ==
  /\ \E sharer \in Instances :
       db = [i \in Instances |-> [e \in Rows |->
              CASE e = Project           -> [text |-> IF i = sharer THEN 0 ELSE None]
                [] e \in Items \ NewItems -> IF i = sharer THEN FirstVersion ELSE Absent
                [] OTHER                 -> Absent]]
  /\ st = [i \in Instances |-> [e \in Rows |-> [sent |-> NoHash, base |-> NoHash]]]
  /\ at = [i \in Instances |-> "idle"]
  /\ held = [i \in Instances |-> {}] /\ left = [i \in Instances |-> {}]
  /\ work = [i \in Instances |-> None]
  /\ todo = [i \in Instances |-> {}]
  /\ status = [i \in Instances |-> "open"]
  /\ nextSeq = [i \in Instances |-> 1]
  /\ files = {} /\ leases = {}
  /\ edits = 0 /\ faults = 0
  /\ known = [i \in Instances |-> {}] /\ wrote = {} /\ removed = {} /\ parted = {}

----------------------------------------------------------------------------

\* The rows of R whose hash differs from what was last put on the wire.
Unsent(i, R) ==
  {[row |-> e, content |-> db[i][e]] :
     e \in {e \in R : db[i][e] # Absent /\ st[i][e].sent # db[i][e]}}

RecordSent(i, e, c)    == st' = [st EXCEPT ![i][e].sent = c]

RecordApplied(i, e, c) == st' = [st EXCEPT ![i][e] = [sent |-> c, base |-> c]]

\* Mutant: a merge counts as sent.
RecordMergedAsSent(i, e, c) == st' = [st EXCEPT ![i][e] = [sent |-> c, base |-> c]]

RecordMergedBase(i, e, c) == st' = [st EXCEPT ![i][e].base = c]

Fault(kind) ==
  /\ kind \in Faults
  /\ faults < MaxFaults
  /\ faults' = faults + 1

\* The pass ends early: nothing of it is remembered.
Abort(i) ==
  /\ at'   = [at EXCEPT ![i] = "idle"]
  /\ held' = [held EXCEPT ![i] = {}]
  /\ left' = [left EXCEPT ![i] = {}]
  /\ work' = [work EXCEPT ![i] = None]
  /\ todo' = [todo EXCEPT ![i] = {}]

\* pushOutbound reads one kind of row at a time, the project first.
List(i, stage, R) ==
  /\ at'   = [at EXCEPT ![i] = stage]
  /\ todo' = [todo EXCEPT ![i] = Unsent(i, R)]

(* pullInbound *)

StartPass(i) ==
  /\ at[i] = "idle"
  /\ MB!Receive(i)
  /\ held' = [held EXCEPT ![i] = MB!Handed(i)]
  /\ left' = [left EXCEPT ![i] = MB!Handed(i)]
  /\ IF MB!Handed(i) = {}
     THEN List(i, "project", {Project})
     ELSE at' = [at EXCEPT ![i] = "apply"] /\ UNCHANGED todo
  /\ known' = [known EXCEPT ![i] =
                 @ \cup {<<m.body.row, m.body.content>> : m \in MB!Handed(i)}]
  /\ UNCHANGED <<db, st, work, boundVars, wrote, removed, parted>>

\* The messages of a batch are applied in the order Receive returned them.
IsNext(i, m)  == m \in left[i] /\ \A n \in left[i] : m.seq <= n.seq
Current(i, m) == at[i] = "apply" /\ IsNext(i, m)

\* The letters about a row that the host still has for instance i, and the last.
Letters(i, e) == {f \in files : f.box = i /\ f.body.row = e}
Newest(i, e)  == {m \in Letters(i, e) : \A n \in Letters(i, e) : n.seq <= m.seq}

\* Row e becomes c here, c is what sent_hash says, and so i is silent about it,
\* although the message it applies says something else (a merge that falls back
\* to what was sent before), or its own last word to the peer did (the two
\* crossed: that word is still on the host).
FallsSilent(i, e, c) ==
  /\ st'[i][e].sent = c
  /\ \/ \E m \in left[i] : IsNext(i, m) /\ m.body.content # c
     \/ \E m \in Newest(Peer(i), e) : m.body.content # c

NoteParting(i, e, c) ==
  parted' = IF FallsSilent(i, e, c) THEN parted \cup {e} ELSE parted

\* The rows of which i acks a message and leaves an earlier one on the host, to
\* be applied after it.
Overtaken(i) ==
  {e \in {Project} \cup Items :
     \E m \in Letters(i, e) \cap held[i], n \in Letters(i, e) \ held[i] : n.seq < m.seq}

FreshNotes(i) == {n \in Notes : MintedBy[n] = i /\ db[i][n] = Absent}

\* CreateActivity on item e, to rows of instance i (none once Notes are used up).
Logged(i, rows, e) ==
  [n \in Rows |-> IF FreshNotes(i) # {} /\ n = CHOOSE m \in FreshNotes(i) : TRUE
                  THEN [link |-> e] ELSE rows[n]]

LogActivity(i, e) == db' = [db EXCEPT ![i] = Logged(i, @, e)]

\* applyItem up to the write: GetItemForSync, shareState, mergeConflict,
\* logConflict.  A row edited since the last agreed content is merged.
ReadItem(i, m) ==
  LET e        == m.body.row
      local    == db[i][e]
      remote   == m.body.content
      conflict == local # Absent /\ local # st[i][e].base
      result   == IF conflict THEN mergeConflict(i, Peer(i), local, remote)
                              ELSE remote
  IN  /\ Current(i, m)
      /\ e \in Items
      /\ work' = [work EXCEPT ![i] =
                    [row |-> e, content |-> result, merged |-> conflict]]
      /\ IF conflict /\ Displaced(local, result)
         THEN LogActivity(i, e) ELSE UNCHANGED db
      /\ at' = [at EXCEPT ![i] = "write"]
      /\ UNCHANGED <<st, held, left, todo, storeVars, boundVars, historyVars>>

\* UpsertSyncedItem overwrites the row as it is now, edited since or not.
Upsert(i) == db' = [db EXCEPT ![i][work[i].row] = work[i].content]

WriteItem(i) ==
  /\ at[i] = "write"
  /\ Upsert(i)
  /\ IF work[i].merged
     THEN RecordMergedBase(i, work[i].row, work[i].content)
     ELSE RecordApplied(i, work[i].row, work[i].content)
  /\ NoteParting(i, work[i].row, work[i].content)
  /\ left' = [left EXCEPT ![i] = {m \in @ : \E n \in @ : n.seq < m.seq}]
  /\ work' = [work EXCEPT ![i] = None]
  /\ at' = [at EXCEPT ![i] = "apply"]
  /\ UNCHANGED <<held, todo, storeVars, boundVars, known, wrote, removed>>

\* applyActivity: attached to its item only if that is here; insert once.
ApplyNote(i, m) ==
  LET n        == m.body.row
      remote   == m.body.content
      here     == remote.link \in Items /\ db[i][remote.link] # Absent
      attached == [link |-> IF here THEN remote.link ELSE None]
  IN  /\ Current(i, m)
      /\ n \in Notes
      /\ db' = [db EXCEPT ![i][n] = IF @ = Absent THEN attached ELSE @]
      /\ RecordApplied(i, n, remote)
      /\ left' = [left EXCEPT ![i] = @ \ {m}]
      /\ UNCHANGED <<at, held, work, todo, storeVars, boundVars, historyVars>>

\* applyProject: no merge, what arrives is stored.
ApplyProject(i, m) ==
  /\ Current(i, m)
  /\ m.body.row = Project
  /\ db' = [db EXCEPT ![i][Project] = m.body.content]
  /\ RecordApplied(i, Project, m.body.content)
  /\ NoteParting(i, Project, m.body.content)
  /\ left' = [left EXCEPT ![i] = @ \ {m}]
  /\ UNCHANGED <<at, held, work, todo, storeVars, boundVars, known, wrote, removed>>

Acked(i) ==
  /\ at[i] = "apply"
  /\ left[i] = {}
  /\ MB!Ack(i, {m.seq : m \in held[i]})
  /\ parted' = parted \cup Overtaken(i)

AckBatch(i) ==
  /\ Acked(i)
  /\ held' = [held EXCEPT ![i] = {}]
  /\ List(i, "project", {Project})
  /\ UNCHANGED <<db, st, left, work, boundVars, known, wrote, removed>>

\* The host took the ack and the answer was lost: no pushOutbound.
AckUnanswered(i) ==
  /\ Acked(i)
  /\ Fault("unanswered")
  /\ Abort(i)
  /\ UNCHANGED <<db, st, edits, known, wrote, removed>>

\* Mutant: the batch is acked when the pull ends, applied or not.
AbortPullAcks(i) ==
  /\ at[i] \in {"apply", "write"}
  /\ Fault("redelivery")
  /\ MB!Ack(i, {m.seq : m \in held[i]})
  /\ Abort(i)
  /\ UNCHANGED <<db, st, edits, historyVars>>

\* A crash, a failing apply or a lost ack; also a lost Receive response.  The
\* messages stay on the host and come back when their leases run out.
AbortPull(i) ==
  /\ at[i] \in {"apply", "write"}
  /\ Fault("redelivery")
  /\ Abort(i)
  /\ UNCHANGED <<db, st, storeVars, edits, historyVars>>

\* The row was written and the sync state was not.
WriteTorn(i) ==
  /\ at[i] = "write"
  /\ Fault("redelivery")
  /\ Upsert(i)
  /\ UNCHANGED st
  /\ NoteParting(i, work[i].row, work[i].content)
  /\ Abort(i)
  /\ UNCHANGED <<storeVars, edits, known, wrote, removed>>

(* pushOutbound *)

\* The peer's mailbox takes the message (MaxSeq bounds how many it ever takes).
DeliverTo(i, m) ==
  /\ nextSeq[Peer(i)] <= MaxSeq
  /\ MB!Send(Peer(i), m)
  /\ known' = [known EXCEPT ![i] = @ \cup {<<m.row, m.content>>}]

SendRow(i, m) ==
  /\ m \in todo[i]
  /\ DeliverTo(i, m)
  /\ RecordSent(i, m.row, m.content)
  /\ todo' = [todo EXCEPT ![i] = @ \ {m}]
  /\ UNCHANGED <<db, at, held, left, work, boundVars, wrote, removed, parted>>

\* The host stored the message; the answer, or RecordSent, did not make it.
SendUnanswered(i, m) ==
  /\ m \in todo[i]
  /\ Fault("unanswered")
  /\ DeliverTo(i, m)
  /\ Abort(i)
  /\ UNCHANGED <<db, st, edits, wrote, removed, parted>>

\* Mutant: a row counts as sent although the host refused it.
SendRefusedButRecorded(i, m) ==
  /\ m \in todo[i]
  /\ Fault("refused")
  /\ RecordSent(i, m.row, m.content)
  /\ Abort(i)
  /\ UNCHANGED <<db, storeVars, edits, historyVars>>

\* The host is unreachable or answers with an error: the pass ends, the row stays unsent.
SendRefused(i, m) ==
  /\ m \in todo[i]
  /\ Fault("refused")
  /\ Abort(i)
  /\ UNCHANGED <<db, st, storeVars, edits, historyVars>>

\* The peer's mailbox is full: the pass ends, and a later one tries again.
SendFull(i, m) ==
  /\ m \in todo[i]
  /\ ~MB!CanSend(Peer(i))
  /\ Abort(i)
  /\ UNCHANGED <<db, st, storeVars, boundVars, historyVars>>

Stage(i, from) == at[i] = from /\ todo[i] = {}

ListItems(i) ==
  /\ Stage(i, "project")
  /\ List(i, "items", Items)
  /\ UNCHANGED <<db, st, held, left, work, storeVars, boundVars, historyVars>>

ListActivity(i) ==
  /\ Stage(i, "items")
  /\ List(i, "activity", Notes)
  /\ UNCHANGED <<db, st, held, left, work, storeVars, boundVars, historyVars>>

EndPass(i) ==
  /\ Stage(i, "activity")
  /\ at' = [at EXCEPT ![i] = "idle"]
  /\ UNCHANGED <<db, st, held, left, work, todo, storeVars, boundVars, historyVars>>

(* Users of either instance, at any moment. *)

May(i, kind) ==
  /\ kind \in Rights[i]
  /\ edits < MaxEdits
  /\ edits' = edits + 1
  /\ UNCHANGED <<st, engineVars, storeVars, faults, known, parted>>

\* UpdateItem and SoftDeleteItem leave deleted rows alone.
Editable(i, e) == db[i][e] # Absent /\ db[i][e].deleted = None

SetTitle(i, e) ==
  /\ Editable(i, e) /\ May(i, "title")
  /\ db' = [db EXCEPT ![i][e].title = edits']
  /\ UNCHANGED <<wrote, removed>>

\* The status is merged as the title is.  Its change is logged, and sets or
\* clears closed_at when it closes or reopens the item.
SetStatus(i, e) ==
  /\ Editable(i, e) /\ May(i, "status")
  /\ \E meta \in {db[i][e].meta, edits'} :
       db' = [db EXCEPT ![i] =
                Logged(i, [@ EXCEPT ![e].title = edits', ![e].meta = meta], e)]
  /\ UNCHANGED <<wrote, removed>>

SetMeta(i, e) ==
  /\ Editable(i, e) /\ May(i, "meta")
  /\ db' = [db EXCEPT ![i][e].meta = edits']
  /\ UNCHANGED <<wrote, removed>>

AppendBody(i, e) ==
  /\ Editable(i, e) /\ May(i, "append")
  /\ db' = [db EXCEPT ![i][e].body = Append(@, edits')]
  /\ wrote' = wrote \cup {<<e, edits'>>}
  /\ UNCHANGED removed

RewriteBody(i, e) ==
  /\ Editable(i, e) /\ May(i, "rewrite")
  /\ db' = [db EXCEPT ![i][e].body = <<edits'>>]
  /\ UNCHANGED <<wrote, removed>>

DeleteItem(i, e) ==
  /\ Editable(i, e) /\ May(i, "delete")
  /\ db' = [db EXCEPT ![i][e].deleted = edits']
  /\ removed' = removed \cup {e}
  /\ UNCHANGED wrote

\* CreateItem logs the creation.
CreateItem(i, e) ==
  /\ e \in NewItems /\ MintedBy[e] = i /\ db[i][e] = Absent
  /\ May(i, "create")
  /\ db' = [db EXCEPT ![i] =
              Logged(i, [@ EXCEPT ![e] = [FirstVersion EXCEPT !.title = edits']], e)]
  /\ UNCHANGED <<wrote, removed>>

CreateNote(i, e) ==
  /\ db[i][e] # Absent /\ FreshNotes(i) # {}
  /\ May(i, "note")
  /\ LogActivity(i, e)
  /\ UNCHANGED <<wrote, removed>>

EditProject(i) ==
  /\ May(i, "project")
  /\ db' = [db EXCEPT ![i][Project].text = edits']
  /\ UNCHANGED <<wrote, removed>>

(* The mailbox host. *)

HostRestarts ==
  /\ Fault("restart")
  /\ MB!Restart
  /\ UNCHANGED <<db, st, engineVars, edits, historyVars>>

Expire(l) ==
  /\ MB!LeaseExpires(l)
  /\ UNCHANGED <<db, st, engineVars, boundVars, historyVars>>

----------------------------------------------------------------------------

Pull(i) ==
  \/ StartPass(i)
  \/ \E m \in left[i] : ReadItem(i, m) \/ ApplyNote(i, m) \/ ApplyProject(i, m)
  \/ WriteItem(i) \/ AckBatch(i)

Push(i) ==
  \/ \E m \in todo[i] : SendRow(i, m) \/ SendFull(i, m)
  \/ ListItems(i) \/ ListActivity(i) \/ EndPass(i)

Pass(i) == Pull(i) \/ Push(i)

CutShort(i) ==
  \/ AckUnanswered(i) \/ AbortPull(i) \/ WriteTorn(i)
  \/ \E m \in todo[i] : SendUnanswered(i, m) \/ SendRefused(i, m)

UserStep(i) ==
  \/ \E e \in Items :
       \/ SetTitle(i, e) \/ SetStatus(i, e) \/ SetMeta(i, e) \/ AppendBody(i, e)
       \/ RewriteBody(i, e) \/ DeleteItem(i, e) \/ CreateItem(i, e)
       \/ CreateNote(i, e)
  \/ EditProject(i)

Next ==
  \/ \E i \in Instances : Pass(i) \/ CutShort(i) \/ UserStep(i)
  \/ HostRestarts
  \/ \E l \in leases : Expire(l)

Spec == Init /\ [][Next]_vars

\* Each engine starts a pass on every tick and carries it on (Engine.Run);
\* leases run out.  Nothing is assumed of users and faults.
Fairness ==
  /\ \A i \in Instances : WF_vars(Pass(i))
  /\ WF_vars(\E l \in leases : Expire(l))

FairSpec == Spec /\ Fairness

----------------------------------------------------------------------------

DbTypeOK ==
  /\ db \in [Instances -> [Rows -> Payload \cup {Absent}]]
  /\ \A i \in Instances, e \in Rows : db[i][e] \in Content(e) \cup {Absent}
  /\ \A i \in Instances : db[i][Project] \in ProjectPayload

StTypeOK ==
  st \in [Instances -> [Rows -> [sent : Payload \cup {NoHash},
                                 base : Payload \cup {NoHash}]]]

EngineTypeOK ==
  /\ at \in [Instances -> {"idle", "apply", "write", "project", "items", "activity"}]
  /\ held \in [Instances -> SUBSET MB!Letter]
  /\ left \in [Instances -> SUBSET MB!Letter]
  /\ \A i \in Instances : left[i] \subseteq held[i]
  /\ work \in [Instances -> ItemWork \cup {None}]
  /\ \A i \in Instances : at[i] = "write" => work[i] \in ItemWork
  /\ todo \in [Instances -> SUBSET Envelope]

HistoryTypeOK ==
  /\ edits \in 0..MaxEdits /\ faults \in 0..MaxFaults
  /\ known \in [Instances -> SUBSET (Rows \X Payload)]
  /\ wrote \subseteq Items \X Mark /\ removed \subseteq Items
  /\ parted \subseteq {Project} \cup Items

\* Every variable has its shape, and a row only ever holds content of its kind.
TypeOK == DbTypeOK /\ StTypeOK /\ EngineTypeOK /\ MB!StoreTypeOK /\ HistoryTypeOK

\* sent_hash is never ahead of the wire: whatever a row's sent_hash stands for
\* was stored in the peer's mailbox or came out of our own, however the pass
\* that recorded it was cut short.  A row whose content equals its sent_hash is
\* never sent again, so a hash ahead of the wire is a change lost for good.
SentIsReal ==
  \A i \in Instances, e \in Rows :
    st[i][e].sent # NoHash => <<e, st[i][e].sent>> \in known[i]

\* All mail is delivered and neither engine has anything to say.
Quiet ==
  /\ files = {}
  /\ \A i \in Instances :
       left[i] = {} /\ at[i] # "write" /\ todo[i] = {} /\ Unsent(i, Rows) = {}

\* Two deletion times of one item are no disagreement.
SameItem(v, w) ==
  \/ v = w
  \/ /\ v # Absent /\ w # Absent
     /\ v.title = w.title /\ v.meta = w.meta /\ v.body = w.body
     /\ (v.deleted = None) = (w.deleted = None)

\* "both instances run this independently and must reach byte-identical
\* results, or they settle into permanently different states and never speak
\* again" (engine.go:227-230): once both are silent the items are the same.
InStep ==
  Quiet => \A i, j \in Instances : \A e \in Items : SameItem(db[i][e], db[j][e])

\* Why two silent instances can differ, for every kind of edit and fault: their
\* copies of an item, or of the project, are the same down to the byte unless
\* an engine fell silent on something else than what had just arrived or than
\* its own last word under way, or a row's messages were applied out of order.
InStepUnlessParted ==
  Quiet => \A i, j \in Instances : \A e \in ({Project} \cup Items) \ parted :
             db[i][e] = db[j][e]

\* "Append-only by nature, so it never conflicts - the two sides simply take
\* the union" (protocol.go:81-82).
NotesUnion ==
  Quiet => \A i, j \in Instances : \A n \in Notes : db[i][n] = db[j][n]

\* "a row we applied from the peer hashes to exactly what we recorded, so it is
\* not sent back" (engine.go:387-389): activity, which nobody edits, only ever
\* travels away from the instance that wrote it.
NotesNotEchoed ==
  \A i \in Instances : \A m \in todo[i] : m.row \in Notes => MintedBy[m.row] = i

\* The engines fall silent once the users do: no row is volleyed for ever.
Settles == <>[]Quiet

\* "Nothing is allowed to be overwritten" (engine.go:187) and "A deletion on
\* either side wins" (engine.go:263): what was appended to a body is in both
\* copies in the end, and what was deleted is deleted in both.
NothingOverwritten ==
  Quiet => \A i \in Instances :
    /\ \A w \in wrote :
         \E k \in 1..Len(db[i][w[1]].body) : db[i][w[1]].body[k] = w[2]
    /\ \A e \in removed : db[i][e].deleted # None

============================================================================
