----------------------------- MODULE SyncProofs -----------------------------
(***************************************************************************)
(* Proofs about the sync engine.  What mergeConflict guarantees for every  *)
(* two instance ids and every two versions of an item: both sides compute  *)
(* the same prose, scalars and deletion; both proses survive; merging the  *)
(* merge again changes nothing.  And what holds of two syncing instances,  *)
(* for any rows, any kinds of edit and any faults, and any number of them. *)
(***************************************************************************)
EXTENDS SyncPair, TLAPS

----------------------------------------------------------------------------
(* The merge of two versions of an item. *)

\* A body contains itself and the empty body.
LEMMA ContainsSelf ==
  ASSUME NEW S, NEW s \in Seq(S)
  PROVE  Contains(s, s) /\ Contains(s, <<>>)
<1>1. 0 \in 0..Len(s) /\ 0 + Len(s) <= Len(s) /\ SubSeq(s, 0 + 1, 0 + Len(s)) = s
  OBVIOUS
<1>2. 0 \in 0..Len(s) /\ 0 + Len(<<>>) <= Len(s)
      /\ SubSeq(s, 0 + 1, 0 + Len(<<>>)) = <<>>
  OBVIOUS
<1> QED BY <1>1, <1>2 DEF Contains

\* Two bodies that contain each other are one body.
LEMMA ContainsAntisymmetric ==
  ASSUME NEW S, NEW s \in Seq(S), NEW t \in Seq(S), Contains(s, t), Contains(t, s)
  PROVE  s = t
<1>1. PICK k \in 0..Len(s) : k + Len(t) <= Len(s) /\ SubSeq(s, k + 1, k + Len(t)) = t
  BY DEF Contains
<1>2. PICK n \in 0..Len(t) : n + Len(s) <= Len(t)
  BY DEF Contains
<1>3. Len(s) \in Nat /\ Len(t) \in Nat
  OBVIOUS
<1>4. k = 0 /\ Len(s) = Len(t)
  BY <1>1, <1>2, <1>3
<1>5. SubSeq(s, 1, Len(s)) = t
  BY <1>1, <1>3, <1>4
<1>6. SubSeq(s, 1, Len(s)) = s
  OBVIOUS
<1> QED BY <1>5, <1>6

\* A joined body contains what stands before and after the separator.
LEMMA ContainsParts ==
  ASSUME NEW S, NEW s \in Seq(S), NEW t \in Seq(S), NEW u \in Seq(S)
  PROVE  Contains(s \o u \o t, s) /\ Contains(s \o u \o t, t)
<1> DEFINE all == s \o u \o t
<1>1. all \in Seq(S) /\ Len(all) = Len(s) + Len(u) + Len(t)
      /\ Len(s) \in Nat /\ Len(t) \in Nat /\ Len(u) \in Nat
  OBVIOUS
<1>2. SubSeq(all, 0 + 1, 0 + Len(s)) = s
  OBVIOUS
<1>3. SubSeq(all, (Len(s) + Len(u)) + 1, (Len(s) + Len(u)) + Len(t)) = t
  OBVIOUS
<1>4. Contains(all, s)
  BY <1>1, <1>2 DEF Contains
<1>5. Contains(all, t)
  <2>1. /\ Len(s) + Len(u) \in 0..Len(all)
        /\ (Len(s) + Len(u)) + Len(t) <= Len(all)
    BY <1>1
  <2>2. PICK k \in 0..Len(all) :
          k + Len(t) <= Len(all) /\ SubSeq(all, k + 1, k + Len(t)) = t
    BY <2>1, <1>3
  <2> QED BY <2>2 DEF Contains
<1> QED BY <1>4, <1>5

----------------------------------------------------------------------------

\* The prose of an item is a sequence of passages.
LEMMA BodyTyped == \A v \in ItemPayload : v.body \in Seq(Mark \cup {Sep})
BY DEF ItemPayload

\* Merging two bodies gives a body that contains both.
LEMMA MergedBody ==
  ASSUME NEW i \in Nat, NEW j \in Nat,
         NEW b \in Seq(Mark \cup {Sep}), NEW c \in Seq(Mark \cup {Sep})
  PROVE  /\ MergeBody(i, j, b, c) \in Seq(Mark \cup {Sep})
         /\ Contains(MergeBody(i, j, b, c), b)
         /\ Contains(MergeBody(i, j, b, c), c)
<1>1. <<Sep>> \in Seq(Mark \cup {Sep})
  OBVIOUS
<1>2. Contains(b, b) /\ Contains(c, c)
  BY ContainsSelf
<1>3. CASE Contains(c, b)
  BY <1>2, <1>3 DEF MergeBody
<1>4. CASE ~Contains(c, b) /\ Contains(b, c)
  BY <1>2, <1>4 DEF MergeBody
<1>5. CASE ~Contains(c, b) /\ ~Contains(b, c) /\ i < j
  <2>1. MergeBody(i, j, b, c) = b \o <<Sep>> \o c
    BY <1>5 DEF MergeBody
  <2>2. Contains(b \o <<Sep>> \o c, b) /\ Contains(b \o <<Sep>> \o c, c)
    BY <1>1, ContainsParts
  <2> QED BY <1>1, <2>1, <2>2
<1>6. CASE ~Contains(c, b) /\ ~Contains(b, c) /\ ~(i < j)
  <2>1. MergeBody(i, j, b, c) = c \o <<Sep>> \o b
    BY <1>6 DEF MergeBody
  <2>2. Contains(c \o <<Sep>> \o b, b) /\ Contains(c \o <<Sep>> \o b, c)
    BY <1>1, ContainsParts
  <2> QED BY <1>1, <2>1, <2>2
<1> QED BY <1>3, <1>4, <1>5, <1>6

\* The merge of two items is an item.
LEMMA MergeTyped ==
  ASSUME NEW i \in Nat, NEW j \in Nat, NEW v \in ItemPayload, NEW w \in ItemPayload
  PROVE  mergeConflict(i, j, v, w) \in ItemPayload
<1>1. MergeBody(i, j, v.body, w.body) \in Seq(Mark \cup {Sep})
  BY BodyTyped, MergedBody
<1>2. MergeDeleted(v.deleted, w.deleted) \in Mark \cup {None}
  BY DEF MergeDeleted, ItemPayload
<1> QED BY <1>1, <1>2 DEF mergeConflict, ItemPayload

\* "both instances run this independently and must reach byte-identical
\* results" (engine.go:227-230): whichever side merges, the title, the prose and
\* whether the item is deleted come out the same.  It does not hold of meta.
THEOREM MergeConverges ==
  ASSUME NEW i \in Nat, NEW j \in Nat, i # j,
         NEW v \in ItemPayload, NEW w \in ItemPayload
  PROVE  LET here == mergeConflict(i, j, v, w)
             there == mergeConflict(j, i, w, v)
         IN  /\ here.title = there.title
             /\ here.body = there.body
             /\ (here.deleted = None) = (there.deleted = None)
<1> DEFINE here == mergeConflict(i, j, v, w)
           there == mergeConflict(j, i, w, v)
<1>1. /\ here.title = (IF i > j THEN v.title ELSE w.title)
      /\ here.body = MergeBody(i, j, v.body, w.body)
      /\ here.deleted = MergeDeleted(v.deleted, w.deleted)
  BY DEF mergeConflict, ItemPayload
<1>2. /\ there.title = (IF j > i THEN w.title ELSE v.title)
      /\ there.body = MergeBody(j, i, w.body, v.body)
      /\ there.deleted = MergeDeleted(w.deleted, v.deleted)
  BY DEF mergeConflict, ItemPayload
<1>3. here.title = there.title
  BY <1>1, <1>2
<1>4. MergeBody(i, j, v.body, w.body) = MergeBody(j, i, w.body, v.body)
  <2>1. CASE Contains(v.body, w.body) /\ Contains(w.body, v.body)
    BY <2>1, BodyTyped, ContainsAntisymmetric DEF MergeBody
  <2>2. CASE ~(Contains(v.body, w.body) /\ Contains(w.body, v.body))
    BY <2>2 DEF MergeBody
  <2> QED BY <2>1, <2>2
<1>5. (here.deleted = None) = (there.deleted = None)
  BY <1>1, <1>2 DEF MergeDeleted
<1> HIDE DEF here, there
<1> QED BY <1>1, <1>2, <1>3, <1>4, <1>5 DEF here, there

\* "mergeConflict resolves a two-sided edit without destroying either version"
\* (engine.go:221) and "A deletion on either side wins" (engine.go:263).
THEOREM MergeKeepsBoth ==
  ASSUME NEW i \in Nat, NEW j \in Nat, NEW v \in ItemPayload, NEW w \in ItemPayload
  PROVE  LET merged == mergeConflict(i, j, v, w)
         IN  /\ Contains(merged.body, v.body) /\ Contains(merged.body, w.body)
             /\ v.deleted # None \/ w.deleted # None => merged.deleted # None
<1>1. /\ mergeConflict(i, j, v, w).body = MergeBody(i, j, v.body, w.body)
      /\ mergeConflict(i, j, v, w).deleted = MergeDeleted(v.deleted, w.deleted)
  BY DEF mergeConflict, ItemPayload
<1>2. /\ Contains(MergeBody(i, j, v.body, w.body), v.body)
      /\ Contains(MergeBody(i, j, v.body, w.body), w.body)
  BY BodyTyped, MergedBody
<1>3. v.deleted # None \/ w.deleted # None => MergeDeleted(v.deleted, w.deleted) # None
  BY DEF MergeDeleted
<1> QED BY <1>1, <1>2, <1>3

\* "Containment checks keep this idempotent" (engine.go:243): when the merge
\* travels back to the peer, which still holds its own version, the peer's merge
\* of the two is what it was sent, to the last field.
THEOREM MergeSettles ==
  ASSUME NEW i \in Nat, NEW j \in Nat, i # j,
         NEW v \in ItemPayload, NEW w \in ItemPayload
  PROVE  LET merged == mergeConflict(i, j, v, w)
         IN  mergeConflict(j, i, w, merged) = merged
<1> DEFINE merged == mergeConflict(i, j, v, w)
<1>1. merged \in ItemPayload
  BY MergeTyped
<1>2. Contains(merged.body, w.body)
  BY MergeKeepsBoth
<1>3. MergeBody(j, i, w.body, merged.body) = merged.body
  BY <1>2 DEF MergeBody
<1>4. j > i => merged.title = w.title
  BY DEF mergeConflict, ItemPayload
<1>5. merged.deleted = MergeDeleted(v.deleted, w.deleted)
  BY DEF mergeConflict, ItemPayload
<1>6. MergeDeleted(w.deleted, merged.deleted) = merged.deleted
  BY <1>5 DEF MergeDeleted
<1> HIDE DEF merged
<1>7. mergeConflict(j, i, w, merged)
        = [merged EXCEPT !.title = IF j > i THEN w.title ELSE merged.title,
                         !.body = merged.body, !.deleted = merged.deleted]
  BY <1>3, <1>6 DEF mergeConflict
<1>8. [merged EXCEPT !.title = IF j > i THEN w.title ELSE merged.title,
                     !.body = merged.body, !.deleted = merged.deleted] = merged
  BY <1>1, <1>4 DEF ItemPayload
<1> QED BY <1>7, <1>8 DEF merged

----------------------------------------------------------------------------
(* The engines. *)

\* What an engine is about to record as applied came out of its mailbox.
HeardBy(i) ==
  /\ \A m \in left[i] : <<m.body.row, m.body.content>> \in known[i]
  /\ at[i] = "write" /\ ~work[i].merged
       => <<work[i].row, work[i].content>> \in known[i]

Heard == \A i \in Instances : HeardBy(i)

IInv == TypeOK /\ SentIsReal /\ Heard

----------------------------------------------------------------------------
(* Rows, contents and envelopes. *)

\* Each kind of row has its own kind of content.
LEMMA ContentOfRow ==
  /\ Items \subseteq Rows /\ Notes \subseteq Rows /\ Project \in Rows
  /\ \A e \in Items : Content(e) = ItemPayload
  /\ \A n \in Notes : Content(n) = ActivityPayload
  /\ Content(Project) = ProjectPayload
  /\ \A e \in Rows : Content(e) \subseteq Payload
BY SyncAssumption DEF Rows, Content, Payload

\* An envelope names a row and carries content of that row's kind.
LEMMA EnvelopeFacts ==
  ASSUME NEW m \in Envelope
  PROVE  m.row \in Rows /\ m.content \in Content(m.row) /\ m.content \in Payload
<1>1. CASE m \in [row : {Project}, content : ProjectPayload]
  BY <1>1, ContentOfRow DEF Payload
<1>2. CASE m \in [row : Items, content : ItemPayload]
  BY <1>2, ContentOfRow DEF Payload
<1>3. CASE m \in [row : Notes, content : ActivityPayload]
  BY <1>3, ContentOfRow DEF Payload
<1> QED BY <1>1, <1>2, <1>3 DEF Envelope

\* A row and content of its kind make an envelope.
LEMMA EnvelopeOf ==
  ASSUME NEW e \in Rows, NEW c \in Content(e)
  PROVE  [row |-> e, content |-> c] \in Envelope
<1>1. CASE e = Project
  BY <1>1, ContentOfRow DEF Envelope
<1>2. CASE e \in Items
  BY <1>2, ContentOfRow DEF Envelope
<1>3. CASE e \in Notes
  BY <1>3, ContentOfRow DEF Envelope
<1> QED BY <1>1, <1>2, <1>3 DEF Rows

\* What lies in a mailbox is a numbered envelope.
LEMMA LetterFacts ==
  ASSUME NEW m \in MB!Letter
  PROVE  /\ m.body \in Envelope /\ m.seq \in Nat \ {0}
         /\ m.body.row \in Rows /\ m.body.content \in Content(m.body.row)
         /\ m.body.content \in Payload
<1>1. m.body \in Envelope /\ m.seq \in Nat \ {0}
  BY DEF MB!Letter
<1> QED BY <1>1, EnvelopeFacts

\* Each instance has one peer, and it is the other instance.
LEMMA PeerFacts ==
  ASSUME NEW i \in Instances
  PROVE  Peer(i) \in Instances /\ Peer(i) # i /\ i \in Nat /\ Peer(i) \in Nat
<1>1. \E j \in Instances : j # i
  BY SyncAssumption
<1> QED BY <1>1, SyncAssumption DEF Peer

\* pushOutbound only queues envelopes.
LEMMA UnsentFacts ==
  ASSUME DbTypeOK, NEW i \in Instances, NEW R \in SUBSET Rows
  PROVE  Unsent(i, R) \subseteq Envelope
<1>1. \A e \in R : db[i][e] # Absent => db[i][e] \in Content(e)
  BY DEF DbTypeOK
<1>2. \A e \in R : db[i][e] # Absent => [row |-> e, content |-> db[i][e]] \in Envelope
  BY <1>1, EnvelopeOf
<1> QED BY <1>2 DEF Unsent

----------------------------------------------------------------------------
(* The mailbox host, seen from the engines. *)

\* Receive hands out letters: a damaged file is not one of them.
LEMMA HandedFacts ==
  ASSUME MB!StoreTypeOK, NEW i \in Instances
  PROVE  MB!Handed(i) \subseteq MB!Letter
<1>1. MB!Handed(i) \subseteq {f \in files : f.body # Corrupt}
  BY DEF MB!Handed, MB!Parseable, MB!Deliverable, MB!InBox
<1>2. files \subseteq MB!File
  BY DEF MB!StoreTypeOK
<1>3. \A f \in MB!File : f.body # Corrupt => f \in MB!Letter
  BY DEF MB!File, MB!Letter
<1> QED BY <1>1, <1>2, <1>3

\* Every operation of the host that the engines or the clock use keeps the store's type.
LEMMA StoreKeepsType ==
  ASSUME MB!StoreTypeOK, NEW i \in Instances
  PROVE  /\ MB!Receive(i) => MB!StoreTypeOK'
         /\ \A seqs : MB!Ack(i, seqs) => MB!StoreTypeOK'
         /\ \A m \in Envelope : MB!Send(i, m) => MB!StoreTypeOK'
         /\ MB!Restart => MB!StoreTypeOK'
         /\ \A l : MB!LeaseExpires(l) => MB!StoreTypeOK'
         /\ UNCHANGED storeVars => MB!StoreTypeOK'
<1> USE DEF MB!StoreTypeOK
<1>1. MB!Receive(i) => MB!StoreTypeOK'
  <2>1. \A f \in MB!Handed(i) : f.seq \in Nat \ {0}
    BY HandedFacts, LetterFacts
  <2>2. MB!NewLease(i) \subseteq MB!Lease
    BY <2>1 DEF MB!NewLease, MB!Lease
  <2> QED BY <2>2 DEF MB!Receive
<1>2. \A seqs : MB!Ack(i, seqs) => MB!StoreTypeOK'
  <2>1. \A seqs : MB!Released(i, seqs) \subseteq MB!Lease
    BY DEF MB!Released, MB!Lease
  <2> QED BY <2>1 DEF MB!Ack
<1>3. \A m \in Envelope : MB!Send(i, m) => MB!StoreTypeOK'
  <2>1. \A m \in Envelope : MB!Written(i, m) \subseteq MB!File
    BY DEF MB!Written, MB!File
  <2> QED BY <2>1 DEF MB!Send
<1>4. MB!Restart => MB!StoreTypeOK'
  BY DEF MB!Restart
<1>5. \A l : MB!LeaseExpires(l) => MB!StoreTypeOK'
  BY DEF MB!LeaseExpires
<1>6. UNCHANGED storeVars => MB!StoreTypeOK'
  BY DEF storeVars
<1> QED BY <1>1, <1>2, <1>3, <1>4, <1>5, <1>6

----------------------------------------------------------------------------
(* Writes to one row, to its sync state, and to where an engine is. *)

\* Writing content of a row's kind to one row keeps the type of db.
LEMMA DbWrite ==
  ASSUME DbTypeOK, NEW i \in Instances, NEW e \in Rows,
         NEW c \in Content(e), db' = [db EXCEPT ![i][e] = c]
  PROVE  DbTypeOK'
<1>1. c \in Payload \cup {Absent}
  BY ContentOfRow
<1>2. \A j \in Instances, r \in Rows :
        db'[j][r] = IF j = i /\ r = e THEN c ELSE db[j][r]
  BY DEF DbTypeOK
<1>3. db' \in [Instances -> [Rows -> Payload \cup {Absent}]]
  BY <1>1 DEF DbTypeOK
<1>4. \A j \in Instances : db'[j][Project] \in ProjectPayload
  BY <1>2, ContentOfRow DEF DbTypeOK
<1> QED BY <1>2, <1>3, <1>4 DEF DbTypeOK, Content

\* Each of the three queries that write sync state keeps the type of st.
LEMMA StWrite ==
  ASSUME StTypeOK, NEW i \in Instances, NEW e \in Rows, NEW c \in Payload
  PROVE  /\ RecordSent(i, e, c) => StTypeOK'
         /\ RecordApplied(i, e, c) => StTypeOK'
         /\ RecordMergedBase(i, e, c) => StTypeOK'
<1>1. RecordSent(i, e, c) => StTypeOK'
  BY DEF StTypeOK, RecordSent
<1>2. RecordApplied(i, e, c) => StTypeOK'
  BY DEF StTypeOK, RecordApplied
<1>3. RecordMergedBase(i, e, c) => StTypeOK'
  <2> DEFINE Rec == [sent : Payload \cup {NoHash}, base : Payload \cup {NoHash}]
  <2>1. st[i][e] \in Rec
    BY DEF StTypeOK
  <2>2. [st[i][e] EXCEPT !.base = c] \in Rec
    BY <2>1
  <2>3. st' = [st EXCEPT ![i][e] = [st[i][e] EXCEPT !.base = c]] => StTypeOK'
    BY <2>2 DEF StTypeOK
  <2> QED BY <2>3 DEF RecordMergedBase, StTypeOK
<1> QED BY <1>1, <1>2, <1>3

\* Ending a pass early keeps the type of the engine's variables.
LEMMA AbortType ==
  ASSUME EngineTypeOK, NEW i \in Instances, Abort(i)
  PROVE  EngineTypeOK'
<1>1. /\ at' \in [Instances -> {"idle", "apply", "write", "project", "items", "activity"}]
      /\ held' \in [Instances -> SUBSET MB!Letter]
      /\ left' \in [Instances -> SUBSET MB!Letter]
      /\ work' \in [Instances -> ItemWork \cup {None}]
      /\ todo' \in [Instances -> SUBSET Envelope]
  BY DEF EngineTypeOK, Abort
<1>2. \A j \in Instances : left'[j] \subseteq held'[j]
  BY DEF EngineTypeOK, Abort
<1>3. \A j \in Instances : at'[j] = "write" => work'[j] \in ItemWork
  BY DEF EngineTypeOK, Abort
<1> QED BY <1>1, <1>2, <1>3 DEF EngineTypeOK

\* A fault keeps the two counters within their bounds.
LEMMA FaultType ==
  ASSUME HistoryTypeOK, NEW kind, Fault(kind), UNCHANGED edits
  PROVE  edits' \in 0..MaxEdits /\ faults' \in 0..MaxFaults
BY SyncAssumption DEF HistoryTypeOK, Fault

\* Only items and the project are noted as parted.
LEMMA PartedType ==
  ASSUME HistoryTypeOK, NEW i
  PROVE  /\ \A e \in {Project} \cup Items : \A c :
              NoteParting(i, e, c) => parted' \subseteq {Project} \cup Items
         /\ parted' = parted \cup Overtaken(i) => parted' \subseteq {Project} \cup Items
BY DEF HistoryTypeOK, NoteParting, Overtaken

\* The rows of one instance: each absent, or content of its kind.
RowsOK(rows) ==
  /\ rows \in [Rows -> Payload \cup {Absent}]
  /\ \A e \in Rows : rows[e] \in Content(e) \cup {Absent}
  /\ rows[Project] \in ProjectPayload

\* The rows in the database are such rows, and so may any others take their place.
LEMMA DbRows ==
  ASSUME DbTypeOK, NEW i \in Instances
  PROVE  /\ RowsOK(db[i])
         /\ \A rows : RowsOK(rows) /\ db' = [db EXCEPT ![i] = rows] => DbTypeOK'
<1>1. RowsOK(db[i])
  BY ContentOfRow DEF DbTypeOK, RowsOK
<1>2. ASSUME NEW rows, RowsOK(rows), db' = [db EXCEPT ![i] = rows] PROVE DbTypeOK'
  <2>1. \A j \in Instances : db'[j] = IF j = i THEN rows ELSE db[j]
    BY <1>2 DEF DbTypeOK
  <2>2. db' \in [Instances -> [Rows -> Payload \cup {Absent}]]
    BY <1>2 DEF DbTypeOK, RowsOK
  <2>3. \A j \in Instances : RowsOK(db'[j])
    BY <1>2, <2>1 DEF DbTypeOK, RowsOK
  <2> QED BY <2>2, <2>3 DEF DbTypeOK, RowsOK, Content
<1> QED BY <1>1, <1>2

\* Logging on an item adds activity attached to it, and touches nothing else.
LEMMA LoggedType ==
  ASSUME NEW i \in Instances, NEW e \in Items, NEW rows, RowsOK(rows)
  PROVE  RowsOK(Logged(i, rows, e))
<1> DEFINE n == CHOOSE m \in FreshNotes(i) : TRUE
           new == Logged(i, rows, e)
<1>1. FreshNotes(i) # {} => n \in Notes
  BY DEF FreshNotes
<1>2. [link |-> e] \in ActivityPayload
  BY DEF ActivityPayload
<1>3. new = [r \in Rows |-> IF FreshNotes(i) # {} /\ r = n THEN [link |-> e] ELSE rows[r]]
  BY DEF Logged
<1> HIDE DEF n, new
<1>4. \A r \in Rows : new[r] = rows[r] \/ (r \in Notes /\ new[r] = [link |-> e])
  BY <1>1, <1>3
<1>5. \A r \in Rows : new[r] \in Content(r) \cup {Absent}
  BY <1>2, <1>4, ContentOfRow DEF RowsOK
<1>6. new[Project] = rows[Project]
  BY <1>4, SyncAssumption, ContentOfRow
<1>7. new \in [Rows -> Payload \cup {Absent}]
  BY <1>3, <1>5, ContentOfRow
<1> QED BY <1>5, <1>6, <1>7 DEF RowsOK, new

\* The conflict note is activity attached to an item.
LEMMA LogActivityType ==
  ASSUME DbTypeOK, NEW i \in Instances, NEW e \in Items, LogActivity(i, e)
  PROVE  DbTypeOK'
<1>1. db' = [db EXCEPT ![i] = Logged(i, db[i], e)]
  BY DEF LogActivity, DbTypeOK
<1> QED BY <1>1, DbRows, LoggedType

\* A row replaced by content of its kind, and the change logged.
LEMMA LoggedWrite ==
  ASSUME DbTypeOK, NEW i \in Instances, NEW e \in Items, NEW c \in ItemPayload,
         db' = [db EXCEPT ![i] = Logged(i, [db[i] EXCEPT ![e] = c], e)]
  PROVE  DbTypeOK'
<1>1. RowsOK([db[i] EXCEPT ![e] = c])
  <2>1. RowsOK(db[i])
    BY DbRows
  <2>2. c \in Content(e) /\ c \in Payload /\ e \in Rows /\ e # Project
    BY ContentOfRow, SyncAssumption
  <2> QED BY <2>1, <2>2 DEF RowsOK
<1> QED BY <1>1, DbRows, LoggedType

\* The message being applied.
LEMMA CurrentFacts ==
  ASSUME EngineTypeOK, NEW i \in Instances, NEW m \in left[i]
  PROVE  /\ m \in MB!Letter
         /\ m.body.row \in Rows
         /\ m.body.content \in Content(m.body.row) /\ m.body.content \in Payload
<1>1. m \in MB!Letter
  BY DEF EngineTypeOK
<1> QED BY <1>1, LetterFacts

----------------------------------------------------------------------------
(* Every step keeps the types. *)

\* A Receive puts letters, and nothing else, in the engine's hands.
LEMMA StartPassType ==
  ASSUME TypeOK, NEW i \in Instances, StartPass(i)
  PROVE  TypeOK'
<1> USE DEF TypeOK
<1>1. DbTypeOK' /\ StTypeOK'
  BY DEF StartPass, DbTypeOK, StTypeOK, Content
<1>2. MB!StoreTypeOK'
  BY StoreKeepsType DEF StartPass
<1>3. MB!Handed(i) \subseteq MB!Letter
  BY HandedFacts
<1>4. EngineTypeOK'
  <2>1. Unsent(i, {Project}) \subseteq Envelope
    BY UnsentFacts, ContentOfRow
  <2>2. /\ at' \in [Instances -> {"idle", "apply", "write", "project", "items", "activity"}]
        /\ \A j \in Instances : at'[j] = at[j] \/ at'[j] \in {"project", "apply"}
        /\ todo' \in [Instances -> SUBSET Envelope]
    BY <2>1 DEF StartPass, EngineTypeOK, List
  <2>3. /\ held' \in [Instances -> SUBSET MB!Letter]
        /\ left' \in [Instances -> SUBSET MB!Letter]
    BY <1>3 DEF StartPass, EngineTypeOK
  <2>4. \A j \in Instances : left'[j] \subseteq held'[j]
    BY DEF StartPass, EngineTypeOK
  <2> QED BY <2>2, <2>3, <2>4 DEF StartPass, EngineTypeOK
<1>5. HistoryTypeOK'
  <2>1. {<<m.body.row, m.body.content>> : m \in MB!Handed(i)} \subseteq Rows \X Payload
    BY <1>3, LetterFacts
  <2> QED BY <2>1 DEF StartPass, HistoryTypeOK, boundVars
<1> QED BY <1>1, <1>2, <1>4, <1>5

\* Merged or not, what applyItem is about to write is the content of an item.
LEMMA ReadItemType ==
  ASSUME TypeOK, NEW i \in Instances, NEW m \in left[i], ReadItem(i, m)
  PROVE  TypeOK'
<1> USE DEF TypeOK
<1> DEFINE e        == m.body.row
           local    == db[i][e]
           remote   == m.body.content
           conflict == local # Absent /\ local # st[i][e].base
           result   == IF conflict THEN mergeConflict(i, Peer(i), local, remote)
                                   ELSE remote
<1>1. e \in Items /\ remote \in ItemPayload
  BY CurrentFacts, ContentOfRow DEF ReadItem
<1>2. result \in ItemPayload
  <2>1. local # Absent => local \in ItemPayload
    BY <1>1, ContentOfRow DEF DbTypeOK
  <2> QED BY <1>1, <2>1, PeerFacts, MergeTyped
<1>3. StTypeOK' /\ MB!StoreTypeOK' /\ HistoryTypeOK'
  <2>1. UNCHANGED storeVars
    BY DEF ReadItem
  <2> QED BY <2>1, StoreKeepsType
          DEF ReadItem, StTypeOK, HistoryTypeOK, boundVars, historyVars
<1>4. DbTypeOK'
  <2>1. LogActivity(i, e) \/ UNCHANGED db
    BY DEF ReadItem
  <2>2. CASE UNCHANGED db
    BY <2>2 DEF DbTypeOK, Content
  <2> QED BY <1>1, <2>1, <2>2, LogActivityType
<1>5. [row |-> e, content |-> result, merged |-> conflict] \in ItemWork
  BY <1>1, <1>2 DEF ItemWork
<1>6. EngineTypeOK'
  <2>1. /\ work' = [work EXCEPT ![i] = [row |-> e, content |-> result, merged |-> conflict]]
        /\ at' = [at EXCEPT ![i] = "write"]
        /\ UNCHANGED <<held, left, todo>>
    BY DEF ReadItem
  <2> HIDE DEF e, result, conflict
  <2> QED BY <1>5, <2>1 DEF EngineTypeOK
<1> QED BY <1>3, <1>4, <1>6

\* The write of an apply, whole or torn, keeps every type.
LEMMA WriteItemType ==
  ASSUME TypeOK, NEW i \in Instances, WriteItem(i)
  PROVE  TypeOK'
<1> USE DEF TypeOK
<1>1. work[i] \in ItemWork
  BY DEF WriteItem, EngineTypeOK
<1>2. /\ work[i].row \in Items /\ work[i].row \in Rows
      /\ work[i].content \in Content(work[i].row)
      /\ work[i].content \in Payload
  BY <1>1, ContentOfRow DEF ItemWork
<1>3. DbTypeOK'
  BY <1>2, DbWrite DEF WriteItem, Upsert
<1>4. StTypeOK'
  BY <1>2, StWrite DEF WriteItem
<1>5. EngineTypeOK'
  <2>1. /\ at' = [at EXCEPT ![i] = "apply"]
        /\ left' = [left EXCEPT ![i] = {m \in @ : \E n \in @ : n.seq < m.seq}]
        /\ work' = [work EXCEPT ![i] = None]
        /\ UNCHANGED <<held, todo>>
    BY DEF WriteItem
  <2>2. /\ left' \in [Instances -> SUBSET MB!Letter]
        /\ \A j \in Instances : left'[j] \subseteq left[j]
    BY <2>1 DEF EngineTypeOK
  <2>3. /\ at' \in [Instances -> {"idle", "apply", "write", "project", "items", "activity"}]
        /\ work' \in [Instances -> ItemWork \cup {None}]
        /\ \A j \in Instances : at'[j] = "write" => work'[j] \in ItemWork
    BY <2>1 DEF EngineTypeOK
  <2> QED BY <2>1, <2>2, <2>3 DEF EngineTypeOK
<1>6. MB!StoreTypeOK' /\ HistoryTypeOK'
  <2>1. UNCHANGED storeVars
    BY DEF WriteItem
  <2>2. parted' \subseteq {Project} \cup Items
    BY <1>2, PartedType DEF WriteItem
  <2> QED BY <2>1, <2>2, StoreKeepsType DEF WriteItem, HistoryTypeOK, boundVars
<1> QED BY <1>3, <1>4, <1>5, <1>6

\* The two handlers that need no merge.
LEMMA ApplyType ==
  ASSUME TypeOK, NEW i \in Instances, NEW m \in left[i],
         ApplyNote(i, m) \/ ApplyProject(i, m)
  PROVE  TypeOK'
<1> USE DEF TypeOK
<1>1. m.body.row \in Rows /\ m.body.content \in Content(m.body.row)
      /\ m.body.content \in Payload
  BY CurrentFacts
<1>2. DbTypeOK'
  <2>1. CASE ApplyProject(i, m)
    BY <1>1, <2>1, DbWrite DEF ApplyProject
  <2>2. CASE ApplyNote(i, m)
    <3> DEFINE n == m.body.row
               here == m.body.content.link \in Items /\ db[i][m.body.content.link] # Absent
               attached == [link |-> IF here THEN m.body.content.link ELSE None]
               new == IF db[i][n] = Absent THEN attached ELSE db[i][n]
    <3>1. n \in Notes
      BY <2>2 DEF ApplyNote
    <3>2. attached \in Content(n)
      BY <3>1, ContentOfRow DEF ActivityPayload
    <3>3. new \in Content(n)
      BY <1>1, <3>2 DEF DbTypeOK
    <3>4. db' = [db EXCEPT ![i][n] = new]
      BY <1>1, <2>2 DEF ApplyNote, DbTypeOK
    <3> HIDE DEF new
    <3> QED BY <1>1, <3>3, <3>4, DbWrite
  <2> QED BY <2>1, <2>2
<1>3. StTypeOK'
  BY <1>1, StWrite DEF ApplyNote, ApplyProject
<1>4. EngineTypeOK'
  <2>1. left' = [left EXCEPT ![i] = @ \ {m}] /\ UNCHANGED <<at, held, work, todo>>
    BY DEF ApplyNote, ApplyProject
  <2> QED BY <2>1 DEF EngineTypeOK
<1>5. MB!StoreTypeOK' /\ HistoryTypeOK'
  <2>1. UNCHANGED storeVars /\ UNCHANGED <<boundVars, known, wrote, removed>>
    BY DEF ApplyNote, ApplyProject, historyVars
  <2>2. parted' \subseteq {Project} \cup Items
    BY PartedType DEF ApplyNote, ApplyProject, HistoryTypeOK, historyVars
  <2> QED BY <2>1, <2>2, StoreKeepsType DEF HistoryTypeOK, boundVars
<1> QED BY <1>2, <1>3, <1>4, <1>5

\* An ack, answered or not, keeps every type.
LEMMA AckType ==
  ASSUME TypeOK, NEW i \in Instances, AckBatch(i) \/ AckUnanswered(i)
  PROVE  TypeOK'
<1> USE DEF TypeOK
<1>1. DbTypeOK' /\ StTypeOK'
  BY DEF AckBatch, AckUnanswered, DbTypeOK, StTypeOK, Content
<1>2. MB!StoreTypeOK'
  BY StoreKeepsType DEF AckBatch, AckUnanswered, Acked
<1>p. parted' \subseteq {Project} \cup Items
  BY PartedType DEF AckBatch, AckUnanswered, Acked
<1>3. CASE AckBatch(i)
  <2>1. Unsent(i, {Project}) \subseteq Envelope
    BY UnsentFacts, ContentOfRow
  <2>2. /\ held' = [held EXCEPT ![i] = {}]
        /\ at' = [at EXCEPT ![i] = "project"]
        /\ todo' = [todo EXCEPT ![i] = Unsent(i, {Project})]
        /\ left[i] = {}
        /\ UNCHANGED <<left, work, boundVars, known, wrote, removed>>
    BY <1>3 DEF AckBatch, Acked, List
  <2>3. EngineTypeOK'
    BY <2>1, <2>2 DEF EngineTypeOK
  <2>4. HistoryTypeOK'
    BY <1>p, <2>2 DEF HistoryTypeOK, boundVars
  <2> QED BY <1>1, <1>2, <2>3, <2>4
<1>4. CASE AckUnanswered(i)
  <2>1. EngineTypeOK'
    BY <1>4, AbortType DEF AckUnanswered
  <2>2. HistoryTypeOK'
    BY <1>4, <1>p, FaultType DEF AckUnanswered, HistoryTypeOK
  <2> QED BY <1>1, <1>2, <2>1, <2>2
<1> QED BY <1>3, <1>4

\* A pass cut short keeps no part of itself.
LEMMA CutShortType ==
  ASSUME TypeOK, NEW i \in Instances,
         \/ AbortPull(i) \/ WriteTorn(i)
         \/ \E m \in todo[i] : SendRefused(i, m) \/ SendFull(i, m)
  PROVE  TypeOK'
<1> USE DEF TypeOK
<1>1. EngineTypeOK'
  BY AbortType DEF AbortPull, WriteTorn, SendRefused, SendFull
<1>2. MB!StoreTypeOK' /\ StTypeOK'
  <2>1. UNCHANGED storeVars /\ UNCHANGED st
    BY DEF AbortPull, WriteTorn, SendRefused, SendFull
  <2> QED BY <2>1, StoreKeepsType DEF StTypeOK
<1>3. HistoryTypeOK'
  <2>1. parted' \subseteq {Project} \cup Items
    <3>1. WriteTorn(i) => work[i].row \in Items
      BY DEF WriteTorn, EngineTypeOK, ItemWork
    <3> QED BY <3>1, PartedType
            DEF AbortPull, WriteTorn, SendRefused, SendFull, HistoryTypeOK, historyVars
  <2>2. UNCHANGED <<known, wrote, removed>>
    BY DEF AbortPull, WriteTorn, SendRefused, SendFull, historyVars
  <2>3. edits' \in 0..MaxEdits /\ faults' \in 0..MaxFaults
    BY FaultType DEF AbortPull, WriteTorn, SendRefused, SendFull, HistoryTypeOK, boundVars
  <2> QED BY <2>1, <2>2, <2>3 DEF HistoryTypeOK
<1>4. DbTypeOK'
  <2>1. CASE UNCHANGED db
    BY <2>1 DEF DbTypeOK, Content
  <2>2. CASE WriteTorn(i)
    <3>1. work[i] \in ItemWork
      BY <2>2 DEF WriteTorn, EngineTypeOK
    <3>2. work[i].row \in Rows /\ work[i].content \in Content(work[i].row)
      BY <3>1, ContentOfRow DEF ItemWork
    <3> QED BY <2>2, <3>2, DbWrite DEF WriteTorn, Upsert
  <2> QED BY <2>1, <2>2 DEF AbortPull, SendRefused, SendFull
<1> QED BY <1>1, <1>2, <1>3, <1>4

\* A send, whatever comes of it, keeps every type.
LEMMA SendType ==
  ASSUME TypeOK, NEW i \in Instances, NEW m \in todo[i],
         SendRow(i, m) \/ SendUnanswered(i, m)
  PROVE  TypeOK'
<1> USE DEF TypeOK
<1>1. m \in Envelope
  BY DEF EngineTypeOK
<1>2. m.row \in Rows /\ m.content \in Payload
  BY <1>1, EnvelopeFacts
<1>3. DbTypeOK'
  BY DEF SendRow, SendUnanswered, DbTypeOK, Content
<1>4. StTypeOK'
  BY <1>2, StWrite DEF SendRow, SendUnanswered, StTypeOK
<1>5. MB!StoreTypeOK'
  BY <1>1, PeerFacts, StoreKeepsType DEF SendRow, SendUnanswered, DeliverTo
<1>6. known' \in [Instances -> SUBSET (Rows \X Payload)]
  BY <1>2 DEF SendRow, SendUnanswered, DeliverTo, HistoryTypeOK
<1>7. CASE SendRow(i, m)
  <2>1. EngineTypeOK'
    BY <1>7 DEF SendRow, EngineTypeOK
  <2>2. HistoryTypeOK'
    BY <1>6, <1>7 DEF SendRow, HistoryTypeOK, boundVars
  <2> QED BY <1>3, <1>4, <1>5, <2>1, <2>2
<1>8. CASE SendUnanswered(i, m)
  <2>1. EngineTypeOK'
    BY <1>8, AbortType DEF SendUnanswered
  <2>2. HistoryTypeOK'
    BY <1>6, <1>8, FaultType DEF SendUnanswered, HistoryTypeOK
  <2> QED BY <1>3, <1>4, <1>5, <2>1, <2>2
<1> QED BY <1>7, <1>8

\* Moving from one stage of pushOutbound to the next keeps every type.
LEMMA StageType ==
  ASSUME TypeOK, NEW i \in Instances,
         ListItems(i) \/ ListActivity(i) \/ EndPass(i)
  PROVE  TypeOK'
<1> USE DEF TypeOK
<1>1. DbTypeOK' /\ StTypeOK' /\ MB!StoreTypeOK' /\ HistoryTypeOK'
  <2>1. UNCHANGED <<db, st, boundVars, historyVars>> /\ UNCHANGED storeVars
    BY DEF ListItems, ListActivity, EndPass
  <2> QED BY <2>1, StoreKeepsType
          DEF DbTypeOK, StTypeOK, HistoryTypeOK, Content, boundVars, historyVars
<1>2. Unsent(i, Items) \subseteq Envelope /\ Unsent(i, Notes) \subseteq Envelope
  BY UnsentFacts, ContentOfRow
<1>3. EngineTypeOK'
  <2>1. /\ at' \in [Instances -> {"idle", "apply", "write", "project", "items", "activity"}]
        /\ \A j \in Instances : at'[j] = "write" => at[j] = "write"
    BY DEF ListItems, ListActivity, EndPass, List, EngineTypeOK
  <2>2. todo' \in [Instances -> SUBSET Envelope]
    BY <1>2 DEF ListItems, ListActivity, EndPass, List, EngineTypeOK
  <2>3. UNCHANGED <<held, left, work>>
    BY DEF ListItems, ListActivity, EndPass
  <2> QED BY <2>1, <2>2, <2>3 DEF EngineTypeOK
<1> QED BY <1>1, <1>3

\* An edit leaves everything but the row and the histories alone.
LEMMA MayType ==
  ASSUME TypeOK, NEW i \in Instances, NEW kind, May(i, kind)
  PROVE  /\ StTypeOK' /\ EngineTypeOK' /\ MB!StoreTypeOK'
         /\ edits' \in 0..MaxEdits /\ edits' \in Mark
         /\ faults' \in 0..MaxFaults
         /\ known' \in [Instances -> SUBSET (Rows \X Payload)]
         /\ parted' \subseteq {Project} \cup Items
<1> USE DEF TypeOK
<1>1. UNCHANGED <<st, at, held, left, work, todo, faults, known, parted>>
      /\ UNCHANGED storeVars
  BY DEF May, engineVars
<1>2. StTypeOK' /\ EngineTypeOK' /\ MB!StoreTypeOK'
  BY <1>1, StoreKeepsType DEF StTypeOK, EngineTypeOK
<1>3. edits' \in 0..MaxEdits /\ edits' \in Nat
  BY SyncAssumption DEF May, HistoryTypeOK
<1> QED BY <1>1, <1>2, <1>3 DEF HistoryTypeOK, Mark

\* The item as an edit leaves it.
LEMMA EditedItem ==
  ASSUME DbTypeOK, NEW i \in Instances, NEW e \in Items, Editable(i, e),
         NEW n \in Mark
  PROVE  /\ [db EXCEPT ![i][e].title = n]
              = [db EXCEPT ![i][e] = [db[i][e] EXCEPT !.title = n]]
         /\ [db EXCEPT ![i][e].meta = n]
              = [db EXCEPT ![i][e] = [db[i][e] EXCEPT !.meta = n]]
         /\ [db EXCEPT ![i][e].body = <<n>>]
              = [db EXCEPT ![i][e] = [db[i][e] EXCEPT !.body = <<n>>]]
         /\ [db EXCEPT ![i][e].deleted = n]
              = [db EXCEPT ![i][e] = [db[i][e] EXCEPT !.deleted = n]]
         /\ [db EXCEPT ![i][e].body = Append(@, n)]
              = [db EXCEPT ![i][e] = [db[i][e] EXCEPT !.body = Append(@, n)]]
         /\ [db[i][e] EXCEPT !.title = n] \in Content(e)
         /\ [db[i][e] EXCEPT !.meta = n] \in Content(e)
         /\ [db[i][e] EXCEPT !.body = <<n>>] \in Content(e)
         /\ [db[i][e] EXCEPT !.deleted = n] \in Content(e)
         /\ [db[i][e] EXCEPT !.body = Append(@, n)] \in Content(e)
<1>1. db[i][e] \in ItemPayload /\ Content(e) = ItemPayload /\ e \in Rows
  BY ContentOfRow DEF DbTypeOK, Editable
<1>2. DOMAIN db = Instances /\ DOMAIN db[i] = Rows
  BY DEF DbTypeOK
<1>3. /\ [db[i][e] EXCEPT !.title = n] \in ItemPayload
      /\ [db[i][e] EXCEPT !.meta = n] \in ItemPayload
      /\ [db[i][e] EXCEPT !.deleted = n] \in ItemPayload
  BY <1>1 DEF ItemPayload
<1>4. <<n>> \in Seq(Mark \cup {Sep}) /\ Append(db[i][e].body, n) \in Seq(Mark \cup {Sep})
  BY <1>1 DEF ItemPayload
<1>5. /\ [db[i][e] EXCEPT !.body = <<n>>] \in ItemPayload
      /\ [db[i][e] EXCEPT !.body = Append(@, n)] \in ItemPayload
  BY <1>1, <1>4 DEF ItemPayload
<1>6. \A f : [db EXCEPT ![i][e] = f] = [db EXCEPT ![i] = [db[i] EXCEPT ![e] = f]]
  BY <1>1, <1>2
<1> QED BY <1>1, <1>2, <1>3, <1>5, <1>6

\* Every edit a user can make leaves a row of its own kind.
LEMMA EditType ==
  ASSUME TypeOK, NEW i \in Instances, NEW e \in Items,
         \/ SetTitle(i, e) \/ SetStatus(i, e) \/ SetMeta(i, e) \/ AppendBody(i, e)
         \/ RewriteBody(i, e) \/ DeleteItem(i, e)
  PROVE  TypeOK'
<1>1. Editable(i, e) /\ \E kind : May(i, kind)
  BY DEF SetTitle, SetStatus, SetMeta, AppendBody, RewriteBody, DeleteItem
<1>2. /\ StTypeOK' /\ EngineTypeOK' /\ MB!StoreTypeOK'
      /\ edits' \in 0..MaxEdits /\ edits' \in Mark
      /\ faults' \in 0..MaxFaults
      /\ known' \in [Instances -> SUBSET (Rows \X Payload)]
      /\ parted' \subseteq {Project} \cup Items
  BY <1>1, MayType
<1>3. wrote' \subseteq Items \X Mark /\ removed' \subseteq Items
  BY <1>2 DEF TypeOK, HistoryTypeOK, SetTitle, SetStatus, SetMeta, AppendBody, RewriteBody, DeleteItem
<1>4. DbTypeOK'
  <2>1. CASE SetStatus(i, e)
    <3>1. PICK n \in Mark : n = edits'
      BY <1>2
    <3>2. DOMAIN db = Instances
      BY DEF TypeOK, DbTypeOK
    <3>3. db[i][e] \in ItemPayload /\ DOMAIN db[i] = Rows /\ e \in Rows
      BY <1>1, ContentOfRow DEF TypeOK, DbTypeOK, Editable
    <3>4. PICK meta \in {db[i][e].meta, n} :
            db' = [db EXCEPT ![i] =
                     Logged(i, [db[i] EXCEPT ![e].title = n, ![e].meta = meta], e)]
      BY <2>1, <3>1, <3>2 DEF SetStatus
    <3>5. meta \in Mark
      BY <3>3 DEF ItemPayload
    <3>6. [db[i][e] EXCEPT !.title = n, !.meta = meta] \in ItemPayload
      BY <3>3, <3>5 DEF ItemPayload
    <3>7. [db[i] EXCEPT ![e].title = n, ![e].meta = meta]
            = [db[i] EXCEPT ![e] = [db[i][e] EXCEPT !.title = n, !.meta = meta]]
      BY <3>3
    <3> QED BY <3>4, <3>6, <3>7, LoggedWrite DEF TypeOK
  <2>2. CASE ~SetStatus(i, e)
    <3>1. PICK c \in Content(e) : db' = [db EXCEPT ![i][e] = c]
      BY <1>1, <1>2, <2>2, EditedItem
      DEF TypeOK, SetTitle, SetMeta, AppendBody, RewriteBody, DeleteItem
    <3> QED BY <3>1, DbWrite, ContentOfRow DEF TypeOK
  <2> QED BY <2>1, <2>2
<1> QED BY <1>2, <1>3, <1>4 DEF TypeOK, HistoryTypeOK

\* A new item or note, and an edit of the project row.
LEMMA CreateType ==
  ASSUME TypeOK, NEW i \in Instances,
         \/ \E e \in Items : CreateItem(i, e) \/ CreateNote(i, e)
         \/ EditProject(i)
  PROVE  TypeOK'
<1>1. \E kind : May(i, kind)
  BY DEF CreateItem, CreateNote, EditProject
<1>2. /\ StTypeOK' /\ EngineTypeOK' /\ MB!StoreTypeOK'
      /\ edits' \in 0..MaxEdits /\ edits' \in Mark
      /\ faults' \in 0..MaxFaults
      /\ known' \in [Instances -> SUBSET (Rows \X Payload)]
      /\ parted' \subseteq {Project} \cup Items
  BY <1>1, MayType
<1>3. wrote' \subseteq Items \X Mark /\ removed' \subseteq Items
  BY DEF TypeOK, HistoryTypeOK, CreateItem, CreateNote, EditProject
<1>4. DbTypeOK'
  <2>1. ASSUME NEW e \in Items, CreateItem(i, e) PROVE DbTypeOK'
    <3>1. <<0>> \in Seq(Mark \cup {Sep}) /\ 0 \in Mark
      BY DEF Mark
    <3>2. [FirstVersion EXCEPT !.title = edits'] \in ItemPayload
      BY <1>2, <3>1 DEF FirstVersion, ItemPayload
    <3>3. db' = [db EXCEPT ![i] =
                   Logged(i, [db[i] EXCEPT ![e] = [FirstVersion EXCEPT !.title = edits']], e)]
      BY <2>1 DEF CreateItem, TypeOK, DbTypeOK
    <3> QED BY <3>2, <3>3, LoggedWrite DEF TypeOK
  <2>2. ASSUME NEW e \in Items, CreateNote(i, e) PROVE DbTypeOK'
    BY <2>2, LogActivityType DEF CreateNote, TypeOK
  <2>3. ASSUME EditProject(i) PROVE DbTypeOK'
    <3> DEFINE text == [db[i][Project] EXCEPT !.text = edits']
    <3>1. DOMAIN db = Instances /\ DOMAIN db[i] = Rows
      BY DEF TypeOK, DbTypeOK
    <3>2. db[i][Project] \in ProjectPayload /\ text \in ProjectPayload
      BY <1>2 DEF TypeOK, DbTypeOK, ProjectPayload
    <3>3. db' = [db EXCEPT ![i][Project] = text]
      BY <2>3, <3>1, ContentOfRow DEF EditProject
    <3> HIDE DEF text
    <3> QED BY <3>2, <3>3, ContentOfRow, DbWrite DEF TypeOK
  <2> QED BY <2>1, <2>2, <2>3
<1> QED BY <1>2, <1>3, <1>4 DEF TypeOK, HistoryTypeOK

\* A restart of the host or the end of a lease keeps every type.
LEMMA HostType ==
  ASSUME TypeOK, HostRestarts \/ \E l \in leases : Expire(l)
  PROVE  TypeOK'
<1> USE DEF TypeOK
<1>1. UNCHANGED <<db, st, at, held, left, work, todo, edits, historyVars>>
  BY DEF HostRestarts, Expire, engineVars, boundVars
<1>2. faults' \in 0..MaxFaults
  BY <1>1, FaultType DEF HostRestarts, Expire, boundVars, HistoryTypeOK
<1>3. MB!StoreTypeOK'
  <2>1. CASE Instances = {}
    BY <2>1 DEF HostRestarts, Expire, MB!Restart, MB!LeaseExpires, MB!StoreTypeOK
  <2>2. CASE Instances # {}
    BY <2>2, StoreKeepsType DEF HostRestarts, Expire
  <2> QED BY <2>1, <2>2
<1> QED BY <1>1, <1>2, <1>3
        DEF DbTypeOK, StTypeOK, EngineTypeOK, HistoryTypeOK, Content, historyVars

\* Two instances that have just agreed on a share.
LEMMA InitType == Init => TypeOK
<1> SUFFICES ASSUME Init PROVE TypeOK
  OBVIOUS
<1>1. FirstVersion \in ItemPayload /\ 0 \in Mark
  <2>1. <<0>> \in Seq(Mark \cup {Sep}) /\ 0 \in Mark
    BY DEF Mark
  <2> QED BY <2>1 DEF FirstVersion, ItemPayload
<1>2. PICK sharer \in Instances :
        db = [i \in Instances |-> [e \in Rows |->
               CASE e = Project           -> [text |-> IF i = sharer THEN 0 ELSE None]
                 [] e \in Items \ NewItems -> IF i = sharer THEN FirstVersion ELSE Absent
                 [] OTHER                 -> Absent]]
  BY DEF Init
<1>3. \A i \in Instances : db[i][Project] \in ProjectPayload
  <2>1. \A i \in Instances :
          db[i][Project] = [text |-> IF i = sharer THEN 0 ELSE None]
    BY <1>2, SyncAssumption DEF Rows
  <2>2. \A i \in Instances : (IF i = sharer THEN 0 ELSE None) \in Mark \cup {None}
    BY <1>1
  <2>3. \A x \in Mark \cup {None} : [text |-> x] \in ProjectPayload
    BY DEF ProjectPayload
  <2>4. ASSUME NEW i \in Instances PROVE db[i][Project] \in ProjectPayload
    <3> DEFINE x == IF i = sharer THEN 0 ELSE None
    <3>1. x \in Mark \cup {None} /\ db[i][Project] = [text |-> x]
      BY <2>1, <2>2
    <3> HIDE DEF x
    <3> QED BY <2>3, <3>1
  <2> QED BY <2>4
<1>4. \A i \in Instances, e \in Rows : db[i][e] \in Content(e) \cup {Absent}
  <2>1. \A i \in Instances, e \in Items : db[i][e] \in ItemPayload \cup {Absent}
    BY <1>1, <1>2, SyncAssumption DEF Rows
  <2>2. \A i \in Instances, n \in Notes : db[i][n] = Absent
    BY <1>2, SyncAssumption DEF Rows
  <2> QED BY <1>3, <2>1, <2>2, ContentOfRow DEF Rows
<1>5. DbTypeOK
  <2>1. \A i \in Instances, e \in Rows : db[i][e] \in Payload \cup {Absent}
    BY <1>4, ContentOfRow
  <2>2. db = [i \in Instances |-> [e \in Rows |-> db[i][e]]]
    BY <1>2
  <2> QED BY <1>3, <1>4, <2>1, <2>2 DEF DbTypeOK
<1>6. StTypeOK /\ EngineTypeOK
  BY DEF Init, StTypeOK, EngineTypeOK
<1>7. MB!StoreTypeOK /\ HistoryTypeOK
  BY SyncAssumption DEF Init, MB!StoreTypeOK, HistoryTypeOK
<1> QED BY <1>5, <1>6, <1>7 DEF TypeOK

\* Every step keeps the type of every variable.
LEMMA TypeStep == TypeOK /\ [Next]_vars => TypeOK'
<1> SUFFICES ASSUME TypeOK, [Next]_vars PROVE TypeOK'
  OBVIOUS
<1>1. ASSUME NEW i \in Instances, StartPass(i) PROVE TypeOK'
  BY <1>1, StartPassType
<1>2. ASSUME NEW i \in Instances, NEW m \in left[i], ReadItem(i, m) PROVE TypeOK'
  BY <1>2, ReadItemType
<1>3. ASSUME NEW i \in Instances, NEW m \in left[i], ApplyNote(i, m) \/ ApplyProject(i, m)
      PROVE  TypeOK'
  BY <1>3, ApplyType
<1>4. ASSUME NEW i \in Instances, WriteItem(i) PROVE TypeOK'
  BY <1>4, WriteItemType
<1>5. ASSUME NEW i \in Instances, AckBatch(i) \/ AckUnanswered(i) PROVE TypeOK'
  BY <1>5, AckType
<1>6. ASSUME NEW i \in Instances,
             \/ AbortPull(i) \/ WriteTorn(i)
             \/ \E m \in todo[i] : SendRefused(i, m) \/ SendFull(i, m)
      PROVE  TypeOK'
  BY <1>6, CutShortType
<1>7. ASSUME NEW i \in Instances, NEW m \in todo[i], SendRow(i, m) \/ SendUnanswered(i, m)
      PROVE  TypeOK'
  BY <1>7, SendType
<1>8. ASSUME NEW i \in Instances, ListItems(i) \/ ListActivity(i) \/ EndPass(i)
      PROVE  TypeOK'
  BY <1>8, StageType
<1>9. ASSUME NEW i \in Instances, UserStep(i) PROVE TypeOK'
  BY <1>9, EditType, CreateType DEF UserStep
<1>10. ASSUME HostRestarts \/ \E l \in leases : Expire(l) PROVE TypeOK'
  BY <1>10, HostType
<1>11. CASE UNCHANGED vars
  <2>1. UNCHANGED <<db, st, at, held, left, work, todo, edits, faults>>
        /\ UNCHANGED storeVars /\ UNCHANGED historyVars
    BY <1>11 DEF vars, engineVars, boundVars
  <2>2. MB!StoreTypeOK'
    BY <2>1 DEF TypeOK, MB!StoreTypeOK, storeVars
  <2> QED BY <2>1, <2>2
          DEF TypeOK, DbTypeOK, StTypeOK, EngineTypeOK, HistoryTypeOK, Content, historyVars
<1> QED BY <1>1, <1>2, <1>3, <1>4, <1>5, <1>6, <1>7, <1>8, <1>9, <1>10, <1>11
        DEF Next, Pass, Pull, Push, CutShort

\* Every variable keeps its shape, and no row ever holds content of another
\* kind, however passes, edits and faults interleave.
THEOREM SyncTypeCorrect == Spec => []TypeOK
BY InitType, TypeStep, PTL DEF Spec

----------------------------------------------------------------------------
(* sent_hash is never ahead of the wire.                                   *)
(*                                                                         *)
(* SentIsReal alone is not inductive: WriteItem and the handlers record    *)
(* the content of a message in hand, which may only be recorded because it *)
(* came out of the mailbox.  Heard says so of every message in hand and,   *)
(* between the read and the write of an apply, of what is to be written.   *)

\* known only grows.
LEMMA KnownGrows ==
  ASSUME TypeOK, [Next]_vars, NEW i \in Instances
  PROVE  known[i] \subseteq known'[i]
<1>1. ASSUME NEW j \in Instances, StartPass(j) PROVE known[i] \subseteq known'[i]
  BY <1>1 DEF StartPass, TypeOK, HistoryTypeOK
<1>2. ASSUME NEW j \in Instances, NEW m, DeliverTo(j, m) PROVE known[i] \subseteq known'[i]
  BY <1>2 DEF DeliverTo, TypeOK, HistoryTypeOK
<1>3. ASSUME NEW j \in Instances, UserStep(j) PROVE UNCHANGED known
  BY <1>3 DEF UserStep, SetTitle, SetStatus, SetMeta, AppendBody, RewriteBody, DeleteItem,
              CreateItem, CreateNote, EditProject, May
<1>4. CASE UNCHANGED vars
  BY <1>4 DEF vars, historyVars
<1>5. ASSUME NEW j \in Instances, NEW m \in left[j],
             ReadItem(j, m) \/ ApplyNote(j, m) \/ ApplyProject(j, m)
      PROVE  UNCHANGED known
  BY <1>5 DEF ReadItem, ApplyNote, ApplyProject, historyVars
<1>6. ASSUME NEW j \in Instances,
             \/ WriteItem(j) \/ AckBatch(j) \/ AckUnanswered(j)
             \/ AbortPull(j) \/ WriteTorn(j)
             \/ ListItems(j) \/ ListActivity(j) \/ EndPass(j)
      PROVE  UNCHANGED known
  BY <1>6 DEF WriteItem, AckBatch, AckUnanswered, AbortPull, WriteTorn, ListItems,
              ListActivity, EndPass, historyVars
<1>7. ASSUME NEW j \in Instances, NEW m \in todo[j], SendRefused(j, m) \/ SendFull(j, m)
      PROVE  UNCHANGED known
  BY <1>7 DEF SendRefused, SendFull, historyVars
<1>8. ASSUME HostRestarts \/ \E l \in leases : Expire(l) PROVE UNCHANGED known
  BY <1>8 DEF HostRestarts, Expire, historyVars
<1> QED BY <1>1, <1>2, <1>3, <1>4, <1>5, <1>6, <1>7, <1>8
        DEF Next, Pass, Pull, Push, CutShort, SendRow, SendUnanswered

\* The sync state after a write that records c as sent, or leaves sent alone.
LEMMA SentAfter ==
  ASSUME StTypeOK, NEW i \in Instances, NEW e \in Rows, NEW c,
         NEW j \in Instances, NEW r \in Rows
  PROVE  /\ RecordSent(i, e, c) \/ RecordApplied(i, e, c)
              => st'[j][r].sent = IF j = i /\ r = e THEN c ELSE st[j][r].sent
         /\ RecordMergedBase(i, e, c) => st'[j][r].sent = st[j][r].sent
<1>1. RecordSent(i, e, c)
        => st'[j][r].sent = IF j = i /\ r = e THEN c ELSE st[j][r].sent
  BY DEF StTypeOK, RecordSent
<1>2. RecordApplied(i, e, c)
        => st'[j][r].sent = IF j = i /\ r = e THEN c ELSE st[j][r].sent
  BY DEF StTypeOK, RecordApplied
<1>3. RecordMergedBase(i, e, c) => st'[j][r].sent = st[j][r].sent
  BY DEF StTypeOK, RecordMergedBase
<1> QED BY <1>1, <1>2, <1>3

\* Recording what is known to the peer keeps SentIsReal.
LEMMA RecordKnown ==
  ASSUME TypeOK, SentIsReal, [Next]_vars,
         NEW i \in Instances, NEW e \in Rows, NEW c, <<e, c>> \in known'[i],
         RecordSent(i, e, c) \/ RecordApplied(i, e, c) \/ RecordMergedBase(i, e, c)
  PROVE  SentIsReal'
<1> SUFFICES ASSUME NEW j \in Instances, NEW r \in Rows, st'[j][r].sent # NoHash
             PROVE  <<r, st'[j][r].sent>> \in known'[j]
  BY DEF SentIsReal
<1>1. known[j] \subseteq known'[j]
  BY KnownGrows
<1>2. CASE st'[j][r].sent = st[j][r].sent
  BY <1>1, <1>2 DEF SentIsReal
<1>3. CASE st'[j][r].sent # st[j][r].sent
  <2>1. j = i /\ r = e /\ st'[j][r].sent = c
    BY <1>3, SentAfter DEF TypeOK
  <2> QED BY <2>1
<1> QED BY <1>2, <1>3

\* Every step that writes sent_hash writes what is known to the peer.
LEMMA SentIsRealStep == IInv /\ [Next]_vars => SentIsReal'
<1> SUFFICES ASSUME IInv, [Next]_vars PROVE SentIsReal'
  OBVIOUS
<1> USE DEF IInv
<1>1. CASE UNCHANGED st
  <2>1. \A i \in Instances : known[i] \subseteq known'[i]
    BY KnownGrows
  <2> QED BY <1>1, <2>1 DEF SentIsReal
<1>2. ASSUME NEW i \in Instances, WriteItem(i) PROVE SentIsReal'
  <2>1. at[i] = "write" /\ work[i] \in ItemWork
    BY <1>2 DEF WriteItem, TypeOK, EngineTypeOK
  <2>2. work[i].row \in Rows /\ UNCHANGED known
    BY <1>2, <2>1, ContentOfRow DEF ItemWork, WriteItem, historyVars
  <2>3. CASE ~work[i].merged
    BY <1>2, <2>1, <2>2, <2>3, RecordKnown DEF Heard, HeardBy, WriteItem
  <2>4. CASE work[i].merged
    <3>1. RecordMergedBase(i, work[i].row, work[i].content)
      BY <1>2, <2>4 DEF WriteItem
    <3>2. \A j \in Instances, r \in Rows : st'[j][r].sent = st[j][r].sent
      BY <2>2, <3>1, SentAfter DEF TypeOK
    <3> QED BY <2>2, <3>2 DEF SentIsReal
  <2> QED BY <2>3, <2>4
<1>3. ASSUME NEW i \in Instances, NEW m \in left[i],
             ApplyNote(i, m) \/ ApplyProject(i, m)
      PROVE  SentIsReal'
  <2>1. m.body.row \in Rows
    BY CurrentFacts DEF TypeOK
  <2>2. <<m.body.row, m.body.content>> \in known'[i]
    BY <1>3 DEF Heard, HeardBy, ApplyNote, ApplyProject, historyVars
  <2> QED BY <1>3, <2>1, <2>2, RecordKnown DEF ApplyNote, ApplyProject
<1>4. ASSUME NEW i \in Instances, NEW m \in todo[i], SendRow(i, m)
      PROVE  SentIsReal'
  <2>1. m \in Envelope
    BY DEF TypeOK, EngineTypeOK
  <2>2. m.row \in Rows
    BY <2>1, EnvelopeFacts
  <2>3. <<m.row, m.content>> \in known'[i]
    BY <1>4 DEF SendRow, DeliverTo, TypeOK, HistoryTypeOK
  <2> QED BY <1>4, <2>2, <2>3, RecordKnown DEF SendRow
<1>5. ASSUME NEW i \in Instances,
             StartPass(i) \/ AckBatch(i) \/ ListItems(i) \/ ListActivity(i) \/ EndPass(i)
      PROVE  UNCHANGED st
  BY <1>5 DEF StartPass, AckBatch, ListItems, ListActivity, EndPass
<1>6. ASSUME NEW i \in Instances, NEW m \in left[i], ReadItem(i, m)
      PROVE  UNCHANGED st
  BY <1>6 DEF ReadItem
<1>7. ASSUME NEW i \in Instances, CutShort(i) PROVE UNCHANGED st
  BY <1>7 DEF CutShort, AckUnanswered, AbortPull, WriteTorn, SendUnanswered, SendRefused
<1>8. ASSUME NEW i \in Instances, NEW m \in todo[i], SendFull(i, m) PROVE UNCHANGED st
  BY <1>8 DEF SendFull
<1>9. ASSUME NEW i \in Instances, UserStep(i) PROVE UNCHANGED st
  BY <1>9 DEF UserStep, SetTitle, SetStatus, SetMeta, AppendBody, RewriteBody, DeleteItem,
              CreateItem, CreateNote, EditProject, May
<1>10. ASSUME HostRestarts \/ \E l \in leases : Expire(l) PROVE UNCHANGED st
  BY <1>10 DEF HostRestarts, Expire
<1>11. CASE UNCHANGED vars
  BY <1>1, <1>11 DEF vars
<1> QED BY <1>1, <1>2, <1>3, <1>4, <1>5, <1>6, <1>7, <1>8, <1>9, <1>10, <1>11
        DEF Next, Pass, Pull, Push

\* A step that hands j nothing new.
LEMMA HeardFrame ==
  ASSUME IInv, [Next]_vars, NEW j \in Instances,
         left'[j] \subseteq left[j],
         at'[j] = "write" => at[j] = "write" /\ work'[j] = work[j]
  PROVE  HeardBy(j)'
<1>1. known[j] \subseteq known'[j]
  BY KnownGrows DEF IInv
<1> QED BY <1>1 DEF IInv, Heard, HeardBy

\* Ending a pass early hands the engine nothing new.
LEMMA AbortFrame ==
  ASSUME EngineTypeOK, NEW i \in Instances, NEW j \in Instances, Abort(i)
  PROVE  /\ left'[j] \subseteq left[j]
         /\ at'[j] = "write" => at[j] = "write" /\ work'[j] = work[j]
BY DEF EngineTypeOK, Abort

\* Every message in hand came out of the mailbox, up to the write of its apply.
LEMMA HeardStep == IInv /\ [Next]_vars => Heard'
<1> SUFFICES ASSUME IInv, [Next]_vars, NEW j \in Instances PROVE HeardBy(j)'
  BY DEF Heard
<1>t. EngineTypeOK
  BY DEF IInv, TypeOK
<1> DEFINE Frame == /\ left'[j] \subseteq left[j]
                    /\ at'[j] = "write" => at[j] = "write" /\ work'[j] = work[j]
<1>f. Frame => HeardBy(j)'
  BY HeardFrame
<1>1. ASSUME NEW i \in Instances, StartPass(i) PROVE HeardBy(j)'
  <2>1. CASE j = i
    <3>1. left'[j] = MB!Handed(j) /\ at'[j] # "write"
      BY <1>1, <1>t, <2>1 DEF StartPass, List, EngineTypeOK
    <3>2. \A m \in MB!Handed(j) : <<m.body.row, m.body.content>> \in known'[j]
      BY <1>1, <2>1 DEF StartPass, IInv, TypeOK, HistoryTypeOK
    <3> QED BY <3>1, <3>2 DEF HeardBy
  <2>2. CASE j # i
    <3>1. Frame
      BY <1>1, <1>t, <2>2 DEF StartPass, List, EngineTypeOK
    <3> QED BY <1>f, <3>1
  <2> QED BY <2>1, <2>2
<1>2. ASSUME NEW i \in Instances, NEW m \in left[i], ReadItem(i, m) PROVE HeardBy(j)'
  <2>1. CASE j = i
    <3>1. UNCHANGED <<left, known>>
      BY <1>2 DEF ReadItem, historyVars
    <3>2. work'[j].row = m.body.row /\ (~work'[j].merged => work'[j].content = m.body.content)
      BY <1>2, <1>t, <2>1 DEF ReadItem, EngineTypeOK
    <3> QED BY <2>1, <3>1, <3>2 DEF IInv, Heard, HeardBy
  <2>2. CASE j # i
    <3>1. Frame
      BY <1>2, <1>t, <2>2 DEF ReadItem, EngineTypeOK
    <3> QED BY <1>f, <3>1
  <2> QED BY <2>1, <2>2
<1>3. ASSUME NEW i \in Instances, WriteItem(i) PROVE Frame
  BY <1>3, <1>t DEF WriteItem, EngineTypeOK
<1>4. ASSUME NEW i \in Instances, NEW m \in left[i], ApplyNote(i, m) \/ ApplyProject(i, m)
      PROVE  Frame
  BY <1>4, <1>t DEF ApplyNote, ApplyProject, EngineTypeOK
<1>5. ASSUME NEW i \in Instances,
             AckBatch(i) \/ ListItems(i) \/ ListActivity(i) \/ EndPass(i)
      PROVE  Frame
  BY <1>5, <1>t DEF AckBatch, ListItems, ListActivity, EndPass, List, EngineTypeOK
<1>6. ASSUME NEW i \in Instances, CutShort(i) PROVE Frame
  <2>1. Abort(i)
    BY <1>6 DEF CutShort, AckUnanswered, AbortPull, WriteTorn, SendUnanswered, SendRefused
  <2> QED BY <1>t, <2>1, AbortFrame
<1>7. ASSUME NEW i \in Instances, NEW m \in todo[i], SendFull(i, m) PROVE Frame
  BY <1>7, <1>t, AbortFrame DEF SendFull
<1>8. ASSUME NEW i \in Instances, NEW m \in todo[i], SendRow(i, m) PROVE Frame
  BY <1>8 DEF SendRow
<1>9. ASSUME NEW i \in Instances, UserStep(i) PROVE Frame
  BY <1>9 DEF UserStep, SetTitle, SetStatus, SetMeta, AppendBody, RewriteBody, DeleteItem,
              CreateItem, CreateNote, EditProject, May, engineVars
<1>10. ASSUME HostRestarts \/ \E l \in leases : Expire(l) PROVE Frame
  BY <1>10 DEF HostRestarts, Expire, engineVars
<1>11. CASE UNCHANGED vars
  BY <1>11, <1>f DEF vars, engineVars
<1> QED BY <1>1, <1>2, <1>3, <1>4, <1>5, <1>6, <1>7, <1>8, <1>9, <1>10, <1>11, <1>f
        DEF Next, Pass, Pull, Push

\* Nothing is recorded as sent when the share is set up.
LEMMA InitIInv == Init => IInv
<1> SUFFICES ASSUME Init PROVE IInv
  OBVIOUS
<1>1. \A i \in Instances, e \in Rows : st[i][e].sent = NoHash
  BY DEF Init
<1>2. Heard
  BY DEF Init, Heard, HeardBy
<1> QED BY <1>1, <1>2, InitType DEF IInv, SentIsReal

\* No row is ever taken for sent that the peer's mailbox did not take and our
\* own did not deliver: whatever cuts a pass short, at whatever point, and
\* whatever the users do meanwhile, an unsent change stays to be sent.
THEOREM SentHashIsReal == Spec => []SentIsReal
<1>1. IInv /\ [Next]_vars => IInv'
  BY TypeStep, SentIsRealStep, HeardStep DEF IInv
<1>2. IInv => SentIsReal
  BY DEF IInv
<1> QED BY InitIInv, <1>1, <1>2, PTL DEF Spec

----------------------------------------------------------------------------
(* The two sides' activity.                                                *)
(*                                                                         *)
(* NotesUnion speaks of the silent states only; what leads there is the    *)
(* mail still on its way.  The letters an engine has not applied in this   *)
(* pass are its unread mail: a note that is recorded as sent and that the  *)
(* peer has not, or has otherwise, is the subject of a letter still to be  *)
(* read.  A pass that is cut short makes its letters unread again, which   *)
(* is why they are counted from the files and not from the batch in hand.  *)

Unread(i) == {f \in files : f.box = i /\ f \notin held[i] \ left[i]}

UnreadAbout(i, n) == \E f \in Unread(i) : f.body.row = n

\* The batch in hand is still on the host; a write is of the item it starts with.
HandOK(i) ==
  /\ at[i] \notin {"apply", "write"} => held[i] = {}
  /\ held[i] \subseteq {f \in files : f.box = i}
  /\ at[i] = "write" => \E m \in left[i] : /\ m.body.row \in Items
                                          /\ \A k \in left[i] : m.seq <= k.seq

\* No file is damaged, and each has its own number, below the next.
MailOK ==
  /\ files \subseteq MB!Letter
  /\ \A f \in files : f.seq < nextSeq[f.box]
  /\ \A f, g \in files : f.box = g.box /\ f.seq = g.seq => f = g

\* A note travels as its sender has it, comes from where it was minted, and is
\* recorded as sent only where it exists.
NoteOK(i, n) ==
  /\ \A f \in files : f.box = i /\ f.body.row = n => db[Peer(i)][n] = f.body.content
  /\ \A m \in todo[i] : m.row = n => db[i][n] = m.content
  /\ db[i][n] # Absent => db[MintedBy[n]][n] # Absent
  /\ db[i][n] = Absent => st[i][n].sent = NoHash

\* Instance i has the note and nothing to say about it.
Silent(i, n) == db[i][n] # Absent /\ st[i][n].sent = db[i][n]

\* A silent instance's note that the peer has not is on its way there, and one
\* that two silent instances have differently is on its way to one of them.
ToldOK(i, n) ==
  /\ Silent(i, n) /\ db[Peer(i)][n] = Absent => UnreadAbout(Peer(i), n)
  /\ Silent(i, n) /\ Silent(Peer(i), n) /\ db[i][n] # db[Peer(i)][n]
       => UnreadAbout(i, n) \/ UnreadAbout(Peer(i), n)

NotesOK == \A i \in Instances, n \in Notes : NoteOK(i, n) /\ ToldOK(i, n)

NInv == TypeOK /\ (\A i \in Instances : HandOK(i)) /\ MailOK /\ NotesOK

\* A peer's peer is the instance itself, and there is no third one.
LEMMA PeerOfPeer ==
  ASSUME NEW i \in Instances
  PROVE  Peer(Peer(i)) = i /\ Instances = {i, Peer(i)}
<1>1. PICK j \in Instances : j # i /\ Instances = {i, j}
  BY SyncAssumption
<1>2. \A k \in Instances : k # i => k = j
  BY <1>1
<1>3. Peer(i) = j
  BY <1>2, PeerFacts
<1>4. Peer(j) = i
  BY <1>1, PeerFacts
<1> QED BY <1>1, <1>3, <1>4

\* Activity has a content that no absent row and no empty hash can be taken for.
LEMMA NoteContent ==
  ASSUME NEW n \in Notes
  PROVE  /\ n \in Rows /\ n \notin Items /\ n # Project
         /\ Content(n) \subseteq Payload /\ Content(n) = ActivityPayload
         /\ MintedBy[n] \in Instances
         /\ Absent \notin Content(n) /\ NoHash \notin Content(n)
BY SyncAssumption, ContentAssumption, ContentOfRow


\* Notes may appear where they are minted; none changes.
NotesGrow ==
  \A j \in Instances, n \in Notes :
    \/ db'[j][n] = db[j][n]
    \/ MintedBy[n] = j /\ db[j][n] = Absent /\ db'[j][n] \in Content(n)

\* A step that sends no note and reads none, though mail may become unread again.
Calm ==
  /\ NotesGrow
  /\ \A j \in Instances, n \in Notes : st'[j][n].sent = st[j][n].sent
  /\ files' \subseteq files
  /\ \A j \in Instances, n \in Notes : \A m \in todo'[j] :
       m.row = n => m \in todo[j] \/ (db[j][n] = m.content /\ db[j][n] # Absent)
  /\ \A j \in Instances, n \in Notes : UnreadAbout(j, n) => UnreadAbout(j, n)'

\* What a letter or a queued envelope says of a note is content.
LEMMA NoteLetter ==
  ASSUME TypeOK, MailOK
  PROVE  /\ \A f \in files : f.body \in Envelope /\ f.box \in Instances
         /\ \A f \in files : f.body.row \in Notes => f.body.content \in Content(f.body.row)
         /\ \A i \in Instances : \A m \in todo[i] :
              m.row \in Notes => m.content \in Content(m.row)
<1>1. \A f \in files : f \in MB!Letter /\ f.box \in Instances
  BY DEF MailOK, MB!Letter
<1>2. \A i \in Instances : \A m \in todo[i] : m \in Envelope
  BY DEF TypeOK, EngineTypeOK
<1> QED BY <1>1, <1>2, LetterFacts, EnvelopeFacts

\* Such a step keeps every statement about notes.
LEMMA CalmStep ==
  ASSUME NInv, Calm
  PROVE  NotesOK'
<1> SUFFICES ASSUME NEW i \in Instances, NEW n \in Notes
             PROVE  NoteOK(i, n)' /\ ToldOK(i, n)'
  BY DEF NotesOK
<1> DEFINE p == Peer(i)
<1>1. p \in Instances /\ MintedBy[n] \in Instances /\ Absent \notin Content(n)
      /\ NoHash \notin Content(n)
  BY PeerFacts, NoteContent
<1>2. NoteOK(i, n) /\ NoteOK(p, n) /\ ToldOK(i, n)
  BY <1>1 DEF NInv, NotesOK
<1>3. \A j \in Instances : db[j][n] # Absent => db'[j][n] = db[j][n]
  BY DEF Calm, NotesGrow
<1>4. \A j \in Instances : st'[j][n].sent = st[j][n].sent
  BY DEF Calm, NotesGrow
<1>5. \A j \in Instances : db'[j][n] # db[j][n] => db'[j][n] # Absent /\ db[j][n] = Absent
  BY <1>1 DEF Calm, NotesGrow
<1>6. NoteOK(i, n)'
  <2>1. ASSUME NEW f \in files', f.box = i, f.body.row = n
        PROVE  db'[p][n] = f.body.content
    <3>1. f \in files
      BY DEF Calm, NotesGrow
    <3>2. db[p][n] = f.body.content /\ f.body.content \in Content(n)
      BY <1>2, <2>1, <3>1, NoteLetter DEF NInv, NoteOK
    <3> QED BY <1>1, <1>3, <3>2
  <2>2. ASSUME NEW m \in todo'[i], m.row = n PROVE db'[i][n] = m.content
    <3>1. CASE m \in todo[i]
      <4>1. db[i][n] = m.content /\ m.content \in Content(n)
        BY <1>2, <2>2, <3>1, NoteLetter DEF NInv, NoteOK
      <4> QED BY <1>1, <1>3, <4>1
    <3> QED BY <1>3, <2>2, <3>1 DEF Calm, NotesGrow
  <2>3. db'[i][n] # Absent => db'[MintedBy[n]][n] # Absent
    <3>1. CASE db[i][n] # Absent
      BY <1>1, <1>2, <1>3, <3>1 DEF NoteOK
    <3>2. CASE db'[i][n] # db[i][n]
      BY <1>1, <3>2 DEF Calm, NotesGrow
    <3> QED BY <3>1, <3>2
  <2>4. db'[i][n] = Absent => st'[i][n].sent = NoHash
    BY <1>2, <1>3, <1>4 DEF NoteOK
  <2> QED BY <2>1, <2>2, <2>3, <2>4 DEF NoteOK
<1>7. \A j \in {i, p} : Silent(j, n)' => Silent(j, n) /\ db'[j][n] = db[j][n]
  <2> SUFFICES ASSUME NEW j \in {i, p}, Silent(j, n)'
               PROVE  Silent(j, n) /\ db'[j][n] = db[j][n]
    OBVIOUS
  <2>1. j \in Instances /\ NoteOK(j, n)
    BY <1>1, <1>2
  <2>2. CASE db[j][n] = Absent
    <3>1. st[j][n].sent = NoHash /\ db'[j][n] # Absent
      BY <2>1, <2>2 DEF NoteOK, Silent
    <3>2. db'[j][n] \in Content(n)
      BY <2>1, <2>2, <3>1 DEF Calm, NotesGrow
    <3>3. st'[j][n].sent = db'[j][n]
      BY DEF Silent
    <3> QED BY <1>1, <1>4, <2>1, <3>1, <3>2, <3>3
  <2>3. CASE db[j][n] # Absent
    BY <1>3, <1>4, <2>1, <2>3 DEF Silent
  <2> QED BY <2>2, <2>3
<1>8. ToldOK(i, n)'
  <2>1. \A j \in {i, p} : UnreadAbout(j, n) => UnreadAbout(j, n)'
    BY <1>1 DEF Calm, NotesGrow
  <2>2. db'[p][n] = Absent => db[p][n] = Absent
    BY <1>1, <1>3
  <2> QED BY <1>2, <1>7, <2>1, <2>2 DEF ToldOK
<1> QED BY <1>6, <1>8

----------------------------------------------------------------------------
(* The batch in hand and the files it came from. *)

\* No file is damaged here, so Receive leaves them all where they are.
LEMMA ReceiveKeepsFiles ==
  ASSUME MailOK, NEW i \in Instances, MB!Receive(i)
  PROVE  files' = files /\ nextSeq' = nextSeq
<1>1. \A f \in files : f.body # Corrupt
  BY ContentAssumption DEF MailOK, MB!Letter
<1>2. MB!Dropped(i) = {}
  BY <1>1 DEF MB!Dropped, MB!Parseable, MB!Deliverable, MB!InBox
<1> QED BY <1>2 DEF MB!Receive

\* Send adds one file, at a number that no file of the mailbox has.
LEMMA SendAddsFile ==
  ASSUME TypeOK, MailOK, NEW b \in Instances, NEW m \in Envelope, MB!Send(b, m)
  PROVE  /\ files' = files \cup {[box |-> b, seq |-> nextSeq[b], body |-> m]}
         /\ \A f \in files : f.box = b => f.seq # nextSeq[b]
         /\ MailOK'
<1> DEFINE new == [box |-> b, seq |-> nextSeq[b], body |-> m]
<1>1. nextSeq \in [Instances -> Nat \ {0}]
  BY DEF TypeOK, MB!StoreTypeOK
<1>2. \A f \in files : f \in MB!Letter /\ f.box \in Instances /\ f.seq \in Nat
  BY DEF MailOK, MB!Letter
<1>3. \A f \in files : f.box = b => f.seq # nextSeq[b]
  BY <1>1, <1>2 DEF MailOK
<1>4. files' = files \cup {new}
  BY <1>3 DEF MB!Send, MB!Written
<1>5. \A c \in Instances : nextSeq[c] <= nextSeq'[c] /\ nextSeq[c] \in Nat /\ nextSeq'[c] \in Nat
  BY <1>1 DEF MB!Send
<1>6. new \in MB!Letter /\ new.seq < nextSeq'[new.box]
  BY <1>1 DEF MB!Letter, MB!Send
<1>7. \A f \in files' : f.seq < nextSeq'[f.box]
  <2>1. \A f \in files : f.seq < nextSeq'[f.box]
    BY <1>2, <1>5 DEF MailOK
  <2> QED BY <1>4, <1>6, <2>1
<1>8. \A f, g \in files' : f.box = g.box /\ f.seq = g.seq => f = g
  BY <1>3, <1>4 DEF MailOK
<1> QED BY <1>3, <1>4, <1>6, <1>7, <1>8 DEF MailOK

\* The ack of the batch in hand deletes just that batch.
LEMMA AckDeletesBatch ==
  ASSUME MailOK, NEW i \in Instances, HandOK(i), MB!Ack(i, {m.seq : m \in held[i]})
  PROVE  files' = files \ held[i] /\ MailOK'
<1>1. \A f \in files : f.box = i /\ f.seq \in {m.seq : m \in held[i]} <=> f \in held[i]
  BY DEF HandOK, MailOK
<1>2. files' = files \ held[i] /\ nextSeq' = nextSeq
  BY <1>1 DEF MB!Ack
<1> QED BY <1>2 DEF MailOK

\* Ending a pass early leaves no batch in hand.
LEMMA AbortHand ==
  ASSUME EngineTypeOK, NEW i \in Instances, Abort(i)
  PROVE  /\ at'[i] = "idle" /\ held'[i] = {} /\ left'[i] = {} /\ todo'[i] = {}
         /\ \A j \in Instances : j # i => /\ at'[j] = at[j] /\ held'[j] = held[j]
                                          /\ left'[j] = left[j] /\ todo'[j] = todo[j]
BY DEF EngineTypeOK, Abort

\* The batch in hand stays on the host, and the files keep their order.
LEMMA MailStep ==
  ASSUME NInv, [Next]_vars
  PROVE  MailOK' /\ \A j \in Instances : HandOK(j)'
<1>t. EngineTypeOK /\ TypeOK /\ MailOK /\ \A j \in Instances : HandOK(j)
  BY DEF NInv, TypeOK
<1>f. ASSUME UNCHANGED <<nextSeq, files>> PROVE MailOK'
  BY <1>t, <1>f DEF MailOK
<1>h. ASSUME NEW j \in Instances, UNCHANGED <<at, held, left>>, files \subseteq files'
      PROVE  HandOK(j)'
  BY <1>t, <1>h DEF HandOK
<1>a. ASSUME NEW i \in Instances, Abort(i), files \subseteq files', NEW j \in Instances
      PROVE  HandOK(j)'
  BY <1>t, <1>a, AbortHand DEF HandOK
<1>1. ASSUME NEW i \in Instances, StartPass(i)
      PROVE  MailOK' /\ \A j \in Instances : HandOK(j)'
  <2>1. files' = files /\ nextSeq' = nextSeq
    BY <1>1, <1>t, ReceiveKeepsFiles DEF StartPass
  <2>2. \A f \in MB!Handed(i) : f \in files /\ f.box = i
    BY DEF MB!Handed, MB!Parseable, MB!Deliverable, MB!InBox
  <2>3. /\ held'[i] = MB!Handed(i)
        /\ at'[i] = IF MB!Handed(i) = {} THEN "project" ELSE "apply"
        /\ \A j \in Instances : j # i => /\ held'[j] = held[j] /\ left'[j] = left[j]
                                         /\ at'[j] = at[j]
    BY <1>1, <1>t DEF StartPass, List, EngineTypeOK
  <2> QED BY <1>t, <1>f, <2>1, <2>2, <2>3 DEF HandOK
<1>2. ASSUME NEW i \in Instances, NEW m \in left[i], ReadItem(i, m)
      PROVE  MailOK' /\ \A j \in Instances : HandOK(j)'
  <2>1. UNCHANGED <<held, left, nextSeq, files>> /\ at' = [at EXCEPT ![i] = "write"]
        /\ m.body.row \in Items /\ at[i] = "apply" /\ \A n \in left[i] : m.seq <= n.seq
    BY <1>2 DEF ReadItem, Current, IsNext, storeVars
  <2>2. \A j \in Instances : at'[j] = IF j = i THEN "write" ELSE at[j]
    BY <1>t, <2>1 DEF EngineTypeOK
  <2> QED BY <1>t, <1>f, <2>1, <2>2 DEF HandOK
<1>3. ASSUME NEW i \in Instances, WriteItem(i)
      PROVE  MailOK' /\ \A j \in Instances : HandOK(j)'
  <2>1. /\ UNCHANGED <<held, nextSeq, files>>
        /\ \A j \in Instances : at'[j] = IF j = i THEN "apply" ELSE at[j]
        /\ \A j \in Instances : j # i => left'[j] = left[j]
    BY <1>3, <1>t DEF WriteItem, storeVars, EngineTypeOK
  <2> QED BY <1>t, <1>f, <2>1 DEF HandOK
<1>4. ASSUME NEW i \in Instances, NEW m \in left[i], ApplyNote(i, m) \/ ApplyProject(i, m)
      PROVE  MailOK' /\ \A j \in Instances : HandOK(j)'
  <2>1. /\ UNCHANGED <<at, held, nextSeq, files>> /\ at[i] = "apply"
        /\ \A j \in Instances : j # i => left'[j] = left[j]
    BY <1>4, <1>t DEF ApplyNote, ApplyProject, Current, storeVars, EngineTypeOK
  <2> QED BY <1>t, <1>f, <2>1 DEF HandOK
<1>5. ASSUME NEW i \in Instances, AckBatch(i) \/ AckUnanswered(i)
      PROVE  MailOK' /\ \A j \in Instances : HandOK(j)'
  <2>1. MB!Ack(i, {m.seq : m \in held[i]})
    BY <1>5 DEF AckBatch, AckUnanswered, Acked
  <2>2. files' = files \ held[i] /\ MailOK'
    BY <1>t, <2>1, AckDeletesBatch
  <2>3. /\ held'[i] = {} /\ at'[i] \in {"project", "idle"}
        /\ \A j \in Instances : j # i => /\ at'[j] = at[j] /\ held'[j] = held[j]
                                         /\ left'[j] = left[j]
    BY <1>5, <1>t, AbortHand DEF AckBatch, AckUnanswered, List, EngineTypeOK
  <2>4. \A j \in Instances : j # i => held[j] \cap held[i] = {}
    BY <1>t DEF HandOK
  <2> QED BY <1>t, <2>2, <2>3, <2>4 DEF HandOK
<1>6. ASSUME NEW i \in Instances,
             \/ AbortPull(i) \/ WriteTorn(i)
             \/ \E m \in todo[i] : SendRefused(i, m) \/ SendFull(i, m)
      PROVE  MailOK' /\ \A j \in Instances : HandOK(j)'
  <2>1. Abort(i) /\ UNCHANGED <<nextSeq, files>>
    BY <1>6 DEF AbortPull, WriteTorn, SendRefused, SendFull, storeVars
  <2> QED BY <1>a, <1>f, <2>1
<1>7. ASSUME NEW i \in Instances, NEW m \in todo[i], SendRow(i, m) \/ SendUnanswered(i, m)
      PROVE  MailOK' /\ \A j \in Instances : HandOK(j)'
  <2>1. MB!Send(Peer(i), m) /\ m \in Envelope
    BY <1>7, <1>t DEF SendRow, SendUnanswered, DeliverTo, EngineTypeOK
  <2>2. files \subseteq files' /\ MailOK'
    BY <1>t, <2>1, PeerFacts, SendAddsFile
  <2>3. Abort(i) \/ UNCHANGED <<at, held, left>>
    BY <1>7 DEF SendRow, SendUnanswered
  <2> QED BY <1>a, <1>h, <2>2, <2>3
<1>8. ASSUME NEW i \in Instances, ListItems(i) \/ ListActivity(i) \/ EndPass(i)
      PROVE  MailOK' /\ \A j \in Instances : HandOK(j)'
  <2>1. /\ UNCHANGED <<held, left, nextSeq, files>>
        /\ at[i] \in {"project", "items", "activity"}
        /\ \A j \in Instances : at'[j] = at[j] \/ (j = i /\ at'[j] # "write")
    BY <1>8, <1>t DEF ListItems, ListActivity, EndPass, Stage, List, storeVars, EngineTypeOK
  <2> QED BY <1>t, <1>f, <2>1 DEF HandOK
<1>9. ASSUME NEW i \in Instances, UserStep(i)
      PROVE  UNCHANGED <<at, held, left, nextSeq, files>>
  BY <1>9 DEF UserStep, SetTitle, SetStatus, SetMeta, AppendBody, RewriteBody, DeleteItem,
              CreateItem, CreateNote, EditProject, May, engineVars, storeVars
<1>10. ASSUME HostRestarts \/ \E l \in leases : Expire(l)
       PROVE  UNCHANGED <<at, held, left, nextSeq, files>>
  BY <1>10 DEF HostRestarts, Expire, MB!Restart, MB!LeaseExpires, engineVars
<1>11. CASE UNCHANGED vars
  BY <1>11, <1>f, <1>h DEF vars, engineVars, storeVars
<1> QED BY <1>1, <1>2, <1>3, <1>4, <1>5, <1>6, <1>7, <1>8, <1>9, <1>10, <1>11, <1>f, <1>h
        DEF Next, Pass, Pull, Push, CutShort

----------------------------------------------------------------------------
(* What each step does to notes and to the mail about them. *)

\* Logging on an item adds at most one note, and one minted here.
LEMMA LoggedNotes ==
  ASSUME DbTypeOK, NEW i \in Instances, NEW e \in Items, NEW rows,
         \A n \in Notes : rows[n] = db[i][n],
         db' = [db EXCEPT ![i] = Logged(i, rows, e)]
  PROVE  NotesGrow
<1> SUFFICES ASSUME NEW j \in Instances, NEW n \in Notes
             PROVE  \/ db'[j][n] = db[j][n]
                    \/ MintedBy[n] = j /\ db[j][n] = Absent /\ db'[j][n] \in Content(n)
  BY DEF NotesGrow
<1>1. CASE j # i
  BY <1>1 DEF DbTypeOK
<1>2. CASE j = i
  <2> DEFINE fresh == CHOOSE m \in FreshNotes(i) : TRUE
  <2>1. db'[i] = Logged(i, rows, e)
    BY DEF DbTypeOK
  <2>2. db'[i][n] = IF FreshNotes(i) # {} /\ n = fresh THEN [link |-> e] ELSE rows[n]
    BY <2>1, NoteContent DEF Logged
  <2>3. FreshNotes(i) # {} => fresh \in FreshNotes(i)
    OBVIOUS
  <2>4. [link |-> e] \in Content(n)
    BY NoteContent DEF ActivityPayload
  <2> HIDE DEF fresh
  <2> QED BY <1>2, <2>2, <2>3, <2>4 DEF FreshNotes
<1> QED BY <1>1, <1>2

\* A write to an item or to the project leaves every note alone.
LEMMA OtherRowWritten ==
  ASSUME DbTypeOK, NEW i \in Instances, NEW e \in Items \cup {Project}, NEW c,
         db' = [db EXCEPT ![i][e] = c]
  PROVE  NotesGrow
BY NoteContent DEF DbTypeOK, NotesGrow

\* Ending a pass early: its letters are unread again.
LEMMA AbortUnread ==
  ASSUME EngineTypeOK, NEW i \in Instances, Abort(i), UNCHANGED files
  PROVE  /\ \A j \in Instances, n \in Notes : UnreadAbout(j, n) => UnreadAbout(j, n)'
         /\ \A j \in Instances : todo'[j] \subseteq todo[j]
<1>1. \A j \in Instances : held'[j] \ left'[j] \subseteq held[j] \ left[j]
  BY AbortHand
<1> QED BY <1>1, AbortHand DEF UnreadAbout, Unread

\* An edit that leaves the notes alone or logs, and nothing of the engines.
LEMMA UserNotesGrow ==
  ASSUME TypeOK, NEW i \in Instances, UserStep(i)
  PROVE  NotesGrow
<1> USE DEF TypeOK
<1>d. DOMAIN db = Instances /\ DOMAIN db[i] = Rows
  BY DEF DbTypeOK
<1>1. ASSUME NEW e \in Items,
             \/ SetTitle(i, e) \/ SetMeta(i, e) \/ AppendBody(i, e)
             \/ RewriteBody(i, e) \/ DeleteItem(i, e)
      PROVE  NotesGrow
  <2>1. \E c : db' = [db EXCEPT ![i][e] = c]
    BY <1>1, <1>d DEF SetTitle, SetMeta, AppendBody, RewriteBody, DeleteItem
  <2> QED BY <2>1, OtherRowWritten
<1>2. ASSUME NEW e \in Items, SetStatus(i, e) PROVE NotesGrow
  <2>1. PICK meta : db' = [db EXCEPT ![i] =
                       Logged(i, [db[i] EXCEPT ![e].title = edits', ![e].meta = meta], e)]
    BY <1>2, <1>d DEF SetStatus
  <2> DEFINE rows == [db[i] EXCEPT ![e].title = edits', ![e].meta = meta]
  <2>2. \A n \in Notes : rows[n] = db[i][n]
    BY <1>d, NoteContent
  <2> HIDE DEF rows
  <2> QED BY <2>1, <2>2, LoggedNotes DEF rows
<1>3. ASSUME NEW e \in Items, CreateItem(i, e) PROVE NotesGrow
  <2> DEFINE rows == [db[i] EXCEPT ![e] = [FirstVersion EXCEPT !.title = edits']]
  <2>1. db' = [db EXCEPT ![i] = Logged(i, rows, e)]
    BY <1>3, <1>d DEF CreateItem
  <2>2. \A n \in Notes : rows[n] = db[i][n]
    BY <1>d, NoteContent
  <2> HIDE DEF rows
  <2> QED BY <2>1, <2>2, LoggedNotes
<1>4. ASSUME NEW e \in Items, CreateNote(i, e) PROVE NotesGrow
  <2>1. db' = [db EXCEPT ![i] = Logged(i, db[i], e)]
    BY <1>4, <1>d DEF CreateNote, LogActivity
  <2> QED BY <2>1, LoggedNotes
<1>5. ASSUME EditProject(i) PROVE NotesGrow
  <2>1. \E c : db' = [db EXCEPT ![i][Project] = c]
    BY <1>5, <1>d, ContentOfRow DEF EditProject
  <2> QED BY <2>1, OtherRowWritten
<1> QED BY <1>1, <1>2, <1>3, <1>4, <1>5 DEF UserStep

\* An edit is calm.
LEMMA UserCalm ==
  ASSUME TypeOK, NEW i \in Instances, UserStep(i)
  PROVE  Calm
<1>1. UNCHANGED <<st, files, held, left, todo>>
  BY DEF UserStep, SetTitle, SetStatus, SetMeta, AppendBody, RewriteBody, DeleteItem,
         CreateItem, CreateNote, EditProject, May, engineVars, storeVars
<1> QED BY <1>1, UserNotesGrow DEF Calm, UnreadAbout, Unread

\* Listing what to push reads the rows as they are.
LEMMA ListCalm ==
  ASSUME EngineTypeOK, NEW i \in Instances, NEW R \in SUBSET Rows, NEW stage, List(i, stage, R)
  PROVE  \A j \in Instances, n \in Notes : \A m \in todo'[j] :
           m.row = n => m \in todo[j] \/ (db[j][n] = m.content /\ db[j][n] # Absent)
<1>1. \A j \in Instances : todo'[j] = IF j = i THEN Unsent(i, R) ELSE todo[j]
  BY DEF List, EngineTypeOK
<1>2. \A m \in Unsent(i, R) : db[i][m.row] = m.content /\ db[i][m.row] # Absent
  BY DEF Unsent
<1> QED BY <1>1, <1>2

\* No step that reads or writes an item, acks, or only moves the pass along, sends
\* a note or reads one.
LEMMA PassCalm ==
  ASSUME NInv, NEW i \in Instances,
         \/ StartPass(i) \/ WriteItem(i) \/ AckBatch(i)
         \/ ListItems(i) \/ ListActivity(i) \/ EndPass(i)
         \/ \E m \in left[i] : ReadItem(i, m) \/ ApplyProject(i, m)
  PROVE  Calm
<1>t. /\ TypeOK /\ EngineTypeOK /\ DbTypeOK /\ StTypeOK /\ MailOK
      /\ HandOK(i) /\ left[i] \subseteq held[i]
  BY DEF NInv, TypeOK, EngineTypeOK
<1>r. {Project} \subseteq Rows /\ Items \subseteq Rows /\ Notes \subseteq Rows
  BY ContentOfRow
<1>1. CASE StartPass(i)
  <2>1. UNCHANGED <<db, st, files>>
    BY <1>1, <1>t, ReceiveKeepsFiles DEF StartPass
  <2>2. /\ held[i] \ left[i] = {} /\ held'[i] \ left'[i] = {}
        /\ \A j \in Instances : j # i => held'[j] = held[j] /\ left'[j] = left[j]
    BY <1>1, <1>t DEF StartPass, HandOK, EngineTypeOK
  <2>3. List(i, "project", {Project}) \/ UNCHANGED todo
    BY <1>1 DEF StartPass
  <2>4. \A j \in Instances : held'[j] \ left'[j] = held[j] \ left[j]
    BY <2>2
  <2> QED BY <1>t, <1>r, <2>1, <2>3, <2>4, ListCalm DEF Calm, NotesGrow, UnreadAbout, Unread
<1>2. CASE \E m \in left[i] : ReadItem(i, m)
  <2>1. PICK m \in left[i] : ReadItem(i, m)
    BY <1>2
  <2>2. UNCHANGED <<st, files, held, left, todo>> /\ m.body.row \in Items
    BY <2>1 DEF ReadItem, storeVars
  <2>3. LogActivity(i, m.body.row) \/ UNCHANGED db
    BY <2>1 DEF ReadItem
  <2>4. LogActivity(i, m.body.row) => NotesGrow
    <3>1. LogActivity(i, m.body.row)
            => db' = [db EXCEPT ![i] = Logged(i, db[i], m.body.row)]
      BY <1>t DEF LogActivity, DbTypeOK
    <3> QED BY <1>t, <2>2, <3>1, LoggedNotes
  <2>5. NotesGrow
    BY <2>3, <2>4 DEF NotesGrow
  <2> QED BY <2>2, <2>5 DEF Calm, UnreadAbout, Unread
<1>3. CASE WriteItem(i)
  <2>1. work[i].row \in Items
    BY <1>3, <1>t DEF WriteItem, EngineTypeOK, ItemWork
  <2>2. NotesGrow
    BY <1>3, <1>t, <2>1, OtherRowWritten DEF WriteItem, Upsert
  <2>3. \A j \in Instances, n \in Notes : st'[j][n].sent = st[j][n].sent
    <3>1. \/ RecordMergedBase(i, work[i].row, work[i].content)
          \/ RecordApplied(i, work[i].row, work[i].content)
      BY <1>3 DEF WriteItem
    <3>2. work[i].row \in Rows /\ \A n \in Notes : n \in Rows /\ n # work[i].row
      BY <2>1, <1>r, NoteContent
    <3> QED BY <1>t, <3>1, <3>2, SentAfter
  <2>4. UNCHANGED <<files, held, todo>>
    BY <1>3 DEF WriteItem, storeVars
  <2>5. \A j \in Instances : j # i => left'[j] = left[j]
    BY <1>3, <1>t DEF WriteItem, EngineTypeOK
  <2>6. \A f \in left[i] : f \in left'[i] \/ f.body.row \in Items
    <3>1. left'[i] = {m \in left[i] : \E n \in left[i] : n.seq < m.seq}
      BY <1>3, <1>t DEF WriteItem, EngineTypeOK
    <3>2. PICK m \in left[i] : m.body.row \in Items /\ \A k \in left[i] : m.seq <= k.seq
      BY <1>3, <1>t DEF WriteItem, HandOK
    <3>3. \A f \in left[i] : f \in files /\ f.box = i /\ f.seq \in Nat
      BY <1>t DEF HandOK, MailOK, MB!Letter
    <3>4. \A f \in left[i] : f # m => m.seq < f.seq
      BY <1>t, <3>2, <3>3 DEF MailOK
    <3> QED BY <3>1, <3>2, <3>4
  <2>7. \A j \in Instances, n \in Notes : UnreadAbout(j, n) => UnreadAbout(j, n)'
    BY <2>4, <2>5, <2>6, NoteContent DEF UnreadAbout, Unread
  <2> QED BY <2>2, <2>3, <2>4, <2>7 DEF Calm
<1>4. CASE \E m \in left[i] : ApplyProject(i, m)
  <2>1. PICK m \in left[i] : ApplyProject(i, m)
    BY <1>4
  <2>2. NotesGrow
    BY <1>t, <2>1, OtherRowWritten DEF ApplyProject
  <2>3. \A j \in Instances, n \in Notes : st'[j][n].sent = st[j][n].sent
    <3>1. RecordApplied(i, Project, m.body.content)
      BY <2>1 DEF ApplyProject
    <3> QED BY <1>t, <1>r, <3>1, SentAfter, NoteContent
  <2>4. UNCHANGED <<files, held, todo>> /\ m.body.row = Project
        /\ \A j \in Instances : left'[j] = IF j = i THEN left[i] \ {m} ELSE left[j]
    BY <1>t, <2>1 DEF ApplyProject, storeVars, EngineTypeOK
  <2>5. \A j \in Instances, n \in Notes : UnreadAbout(j, n) => UnreadAbout(j, n)'
    BY <2>4, NoteContent DEF UnreadAbout, Unread
  <2> QED BY <2>2, <2>3, <2>4, <2>5 DEF Calm
<1>5. CASE AckBatch(i)
  <2>1. MB!Ack(i, {m.seq : m \in held[i]}) /\ left[i] = {}
    BY <1>5 DEF AckBatch, Acked
  <2>2. files' = files \ held[i]
    BY <1>t, <2>1, AckDeletesBatch
  <2>3. UNCHANGED <<db, st, left>> /\ List(i, "project", {Project})
        /\ \A j \in Instances : held'[j] = IF j = i THEN {} ELSE held[j]
    BY <1>5, <1>t DEF AckBatch, EngineTypeOK
  <2>4. \A j \in Instances, n \in Notes : UnreadAbout(j, n) => UnreadAbout(j, n)'
    BY <1>t, <2>1, <2>2, <2>3 DEF UnreadAbout, Unread, HandOK
  <2> QED BY <1>t, <1>r, <2>2, <2>3, <2>4, ListCalm DEF Calm, NotesGrow
<1>6. CASE ListItems(i) \/ ListActivity(i) \/ EndPass(i)
  <2>1. UNCHANGED <<db, st, files, held, left>>
    BY <1>6 DEF ListItems, ListActivity, EndPass, storeVars
  <2>2. List(i, "items", Items) \/ List(i, "activity", Notes) \/ UNCHANGED todo
    BY <1>6 DEF ListItems, ListActivity, EndPass
  <2>3. \A j \in Instances, n \in Notes : \A m \in todo'[j] :
           m.row = n => m \in todo[j] \/ (db[j][n] = m.content /\ db[j][n] # Absent)
    BY <1>t, <1>r, <2>2, ListCalm
  <2> QED BY <2>1, <2>3 DEF Calm, NotesGrow, UnreadAbout, Unread
<1> QED BY <1>1, <1>2, <1>3, <1>4, <1>5, <1>6

\* Nor does a pass that is cut short, but for one whose last send was not answered.
LEMMA CutCalm ==
  ASSUME NInv, NEW i \in Instances,
         \/ AckUnanswered(i) \/ AbortPull(i) \/ WriteTorn(i)
         \/ \E m \in todo[i] : SendRefused(i, m) \/ SendFull(i, m)
  PROVE  Calm
<1>t. /\ TypeOK /\ EngineTypeOK /\ DbTypeOK /\ MailOK
      /\ HandOK(i) /\ left[i] \subseteq held[i]
  BY DEF NInv, TypeOK, EngineTypeOK
<1>1. Abort(i) /\ UNCHANGED st
  BY DEF AckUnanswered, AbortPull, WriteTorn, SendRefused, SendFull
<1>2. NotesGrow
  <2>1. CASE WriteTorn(i)
    <3>1. work[i].row \in Items
      BY <1>t, <2>1 DEF WriteTorn, EngineTypeOK, ItemWork
    <3> QED BY <1>t, <2>1, <3>1, OtherRowWritten DEF WriteTorn, Upsert
  <2>2. CASE UNCHANGED db
    BY <2>2 DEF NotesGrow
  <2> QED BY <2>1, <2>2 DEF AckUnanswered, AbortPull, SendRefused, SendFull
<1>3. CASE AckUnanswered(i)
  <2>1. MB!Ack(i, {m.seq : m \in held[i]}) /\ left[i] = {}
    BY <1>3 DEF AckUnanswered, Acked
  <2>2. files' = files \ held[i]
    BY <1>t, <2>1, AckDeletesBatch
  <2>3. \A j \in Instances : todo'[j] \subseteq todo[j] /\ held'[j] \subseteq held[j]
    BY <1>1, <1>t, AbortHand
  <2>4. \A j \in Instances, n \in Notes : UnreadAbout(j, n) => UnreadAbout(j, n)'
    <3>1. \A j \in Instances : j # i => held'[j] = held[j] /\ left'[j] = left[j]
      BY <1>1, <1>t, AbortHand
    <3>2. held'[i] = {}
      BY <1>1, <1>t, AbortHand
    <3> QED BY <1>t, <2>1, <2>2, <3>1, <3>2 DEF UnreadAbout, Unread, HandOK
  <2> QED BY <1>1, <1>2, <2>2, <2>3, <2>4 DEF Calm
<1>4. CASE ~AckUnanswered(i)
  <2>1. UNCHANGED files
    BY <1>4 DEF AbortPull, WriteTorn, SendRefused, SendFull, storeVars
  <2> QED BY <1>1, <1>2, <1>t, <2>1, AbortUnread DEF Calm
<1> QED BY <1>3, <1>4

\* What is sent is the sender's own note, and until it is read it is unread mail.
LEMMA SendNotes ==
  ASSUME NInv, NEW i \in Instances, NEW m \in todo[i], SendRow(i, m) \/ SendUnanswered(i, m)
  PROVE  NotesOK'
<1> DEFINE p == Peer(i)
           new == [box |-> p, seq |-> nextSeq[p], body |-> m]
<1>t. /\ TypeOK /\ EngineTypeOK /\ StTypeOK /\ MailOK /\ m \in Envelope
      /\ \A j \in Instances : HandOK(j)
  BY DEF NInv, TypeOK, EngineTypeOK
<1>p. p \in Instances /\ p # i /\ Peer(p) = i /\ Instances = {i, p}
  BY PeerFacts, PeerOfPeer
<1>1. UNCHANGED db /\ MB!Send(p, m)
  BY DEF SendRow, SendUnanswered, DeliverTo
<1>2. files' = files \cup {new} /\ new \notin files
  BY <1>t, <1>p, <1>1, SendAddsFile
<1>3. \A j \in Instances : todo'[j] \subseteq todo[j]
  BY <1>t, AbortHand DEF SendRow, SendUnanswered, EngineTypeOK
<1>4. \A j \in Instances : held'[j] \subseteq files /\ held'[j] \ left'[j] \subseteq held[j] \ left[j]
  BY <1>t, AbortHand DEF SendRow, SendUnanswered, EngineTypeOK, HandOK
<1>5. \A j \in Instances, n \in Notes : UnreadAbout(j, n) => UnreadAbout(j, n)'
  BY <1>2, <1>4 DEF UnreadAbout, Unread
<1>6. UnreadAbout(p, m.row)'
  BY <1>p, <1>2, <1>4 DEF UnreadAbout, Unread
<1> HIDE DEF new, p
<1>7. \A j \in Instances, n \in Notes :
        st'[j][n].sent # st[j][n].sent => j = i /\ n = m.row /\ st'[i][n].sent = m.content
  <2>1. RecordSent(i, m.row, m.content) \/ UNCHANGED st
    BY DEF SendRow, SendUnanswered
  <2>2. m.row \in Rows /\ \A n \in Notes : n \in Rows
    BY <1>t, EnvelopeFacts, NoteContent
  <2> QED BY <1>t, <2>1, <2>2, SentAfter
<1>8. m.row \in Notes => db[i][m.row] = m.content /\ m.content # Absent
  <2>1. m.row \in Notes => db[i][m.row] = m.content
    BY DEF NInv, NotesOK, NoteOK
  <2>2. m.row \in Notes => m.content \in Content(m.row)
    BY <1>t, NoteLetter
  <2> QED BY <2>1, <2>2, NoteContent
<1> SUFFICES ASSUME NEW j \in Instances, NEW n \in Notes
             PROVE  NoteOK(j, n)' /\ ToldOK(j, n)'
  BY DEF NotesOK
<1>9. NoteOK(j, n) /\ ToldOK(j, n) /\ Peer(j) \in Instances
  BY PeerFacts DEF NInv, NotesOK
<1>10. NoteOK(j, n)'
  <2>1. ASSUME NEW f \in files', f.box = j, f.body.row = n
        PROVE  db'[Peer(j)][n] = f.body.content
    <3>1. CASE f \in files
      BY <1>1, <1>9, <2>1, <3>1 DEF NoteOK
    <3>2. CASE f = new
      BY <1>1, <1>8, <1>p, <2>1, <3>2 DEF new
    <3> QED BY <1>2, <3>1, <3>2
  <2>2. \A l \in todo'[j] : l.row = n => db'[j][n] = l.content
    BY <1>1, <1>3, <1>9 DEF NoteOK
  <2>3. db'[j][n] = Absent => st'[j][n].sent = NoHash
    BY <1>1, <1>7, <1>8, <1>9 DEF NoteOK
  <2> QED BY <1>1, <1>9, <2>1, <2>2, <2>3 DEF NoteOK
<1>11. ToldOK(j, n)'
  <2>1. CASE n = m.row
    <3>1. UnreadAbout(p, n)' /\ db'[i][n] # Absent
      BY <1>1, <1>6, <1>8, <2>1
    <3>2. j \in {i, p} /\ Peer(i) = p
      BY <1>p DEF p
    <3> QED BY <1>p, <3>1, <3>2 DEF ToldOK
  <2>2. CASE n # m.row
    <3>1. \A k \in Instances : Silent(k, n)' <=> Silent(k, n)
      BY <1>1, <1>7, <2>2 DEF Silent
    <3> QED BY <1>1, <1>5, <1>9, <3>1 DEF ToldOK
  <2> QED BY <2>1, <2>2
<1> QED BY <1>10, <1>11

\* Reading a note gives it to the reader, who records as sent what the writer has:
\* an instance that stored it otherwise is not silent about it.
LEMMA ApplyNotes ==
  ASSUME NInv, NEW i \in Instances, NEW m \in left[i], ApplyNote(i, m)
  PROVE  NotesOK'
<1> DEFINE p == Peer(i)
           r == m.body.row
           c == m.body.content
<1>t. /\ TypeOK /\ EngineTypeOK /\ StTypeOK /\ DbTypeOK /\ MailOK /\ HandOK(i)
      /\ left[i] \subseteq held[i]
  BY DEF NInv, TypeOK, EngineTypeOK
<1>p. p \in Instances /\ p # i /\ Peer(p) = i /\ Instances = {i, p}
  BY PeerFacts, PeerOfPeer
<1>1. m \in files /\ m.box = i /\ r \in Notes /\ c \in Content(r)
  BY <1>t, NoteLetter DEF HandOK, ApplyNote
<1>2. db[p][r] = c /\ c # Absent /\ r \in Rows
  BY <1>1, NoteContent DEF NInv, NotesOK, NoteOK
<1>3. /\ \A j \in Instances, n \in Notes : ~(j = i /\ n = r) => db'[j][n] = db[j][n]
      /\ db[i][r] # Absent => db'[i][r] = db[i][r]
      /\ db'[i][r] # Absent
  <2> DEFINE here == c.link \in Items /\ db[i][c.link] # Absent
             attached == [link |-> IF here THEN c.link ELSE None]
             new == IF db[i][r] = Absent THEN attached ELSE db[i][r]
  <2>1. attached \in Content(r)
    BY <1>1, NoteContent DEF ActivityPayload
  <2>2. attached # Absent
    BY <1>1, <2>1, NoteContent
  <2>3. db' = [db EXCEPT ![i][r] = new]
    BY <1>2, <1>t DEF ApplyNote, DbTypeOK
  <2> HIDE DEF attached, r
  <2>4. new # Absent
    BY <2>2
  <2> HIDE DEF new
  <2>5. \A j \in Instances, n \in Notes :
          db'[j][n] = IF j = i /\ n = r THEN new ELSE db[j][n]
    BY <1>1, <1>2, <1>t, <2>3, NoteContent DEF DbTypeOK
  <2> QED BY <1>1, <2>4, <2>5 DEF new
<1>4. \A j \in Instances, n \in Notes :
        st'[j][n].sent = IF j = i /\ n = r THEN c ELSE st[j][n].sent
  <2>1. RecordApplied(i, r, c)
    BY DEF ApplyNote
  <2>2. \A n \in Notes : n \in Rows
    BY NoteContent
  <2> HIDE DEF r, c
  <2> QED BY <1>t, <1>2, <2>1, <2>2, SentAfter
<1>5. UNCHANGED <<files, held, todo>>
      /\ \A j \in Instances : left'[j] = IF j = i THEN left[i] \ {m} ELSE left[j]
  BY <1>t DEF ApplyNote, storeVars, EngineTypeOK
<1>6. \A j \in Instances, n \in Notes : n # r /\ UnreadAbout(j, n) => UnreadAbout(j, n)'
  BY <1>5 DEF UnreadAbout, Unread
<1> HIDE DEF p, r, c
<1> SUFFICES ASSUME NEW j \in Instances, NEW n \in Notes
             PROVE  NoteOK(j, n)' /\ ToldOK(j, n)'
  BY DEF NotesOK
<1>7. NoteOK(j, n) /\ ToldOK(j, n) /\ Peer(j) \in Instances /\ MintedBy[n] \in Instances
      /\ NoteOK(p, n) /\ Absent \notin Content(n)
  BY <1>p, PeerFacts, NoteContent DEF NInv, NotesOK
<1>8. \A k \in Instances : db[k][n] # Absent => db'[k][n] = db[k][n]
  BY <1>3
<1>9. NoteOK(j, n)'
  <2>1. ASSUME NEW f \in files', f.box = j, f.body.row = n
        PROVE  db'[Peer(j)][n] = f.body.content
    <3>1. f \in files /\ f.body.content \in Content(n)
      BY <1>5, <1>t, <2>1, NoteLetter
    <3>2. db[Peer(j)][n] = f.body.content
      BY <1>7, <2>1, <3>1 DEF NoteOK
    <3> QED BY <1>7, <1>8, <3>1, <3>2
  <2>2. ASSUME NEW l \in todo'[j], l.row = n PROVE db'[j][n] = l.content
    <3>1. db[j][n] = l.content /\ l.content \in Content(n)
      BY <1>5, <1>7, <1>t, <2>2, NoteLetter DEF NoteOK
    <3> QED BY <1>7, <1>8, <3>1
  <2>3. db'[j][n] # Absent => db'[MintedBy[n]][n] # Absent
    <3>1. CASE j = i /\ n = r
      BY <1>2, <1>7, <1>8, <3>1 DEF NoteOK
    <3>2. CASE ~(j = i /\ n = r)
      BY <1>3, <1>7, <1>8, <3>2 DEF NoteOK
    <3> QED BY <3>1, <3>2
  <2>4. db'[j][n] = Absent => st'[j][n].sent = NoHash
    BY <1>3, <1>4, <1>7, <1>8 DEF NoteOK
  <2> QED BY <2>1, <2>2, <2>3, <2>4 DEF NoteOK
<1>10. ToldOK(j, n)'
  <2>1. CASE n = r
    <3>1. db'[i][n] # Absent /\ db'[p][n] = c /\ db'[p][n] # Absent /\ st'[i][n].sent = c
      BY <1>2, <1>3, <1>4, <1>p, <2>1
    <3>2. Silent(i, n)' => db'[i][n] = db'[p][n]
      BY <3>1 DEF Silent
    <3>3. j \in {i, p} /\ Peer(i) = p
      BY <1>p DEF p
    <3> QED BY <1>p, <3>1, <3>2, <3>3 DEF ToldOK
  <2>2. CASE n # r
    <3>1. \A k \in Instances : (Silent(k, n)' <=> Silent(k, n)) /\ db'[k][n] = db[k][n]
      BY <1>3, <1>4, <2>2 DEF Silent
    <3> QED BY <1>6, <1>7, <2>2, <3>1 DEF ToldOK
  <2> QED BY <2>1, <2>2
<1> QED BY <1>9, <1>10

\* Neither side has any activity, and no mail is on its way.
LEMMA InitNInv == Init => NInv
<1> SUFFICES ASSUME Init PROVE NInv
  OBVIOUS
<1>1. \A i \in Instances, n \in Notes : db[i][n] = Absent /\ st[i][n].sent = NoHash
  BY NoteContent DEF Init
<1>2. NotesOK
  BY <1>1, PeerFacts DEF Init, NotesOK, NoteOK, ToldOK, Silent
<1>3. MailOK /\ \A i \in Instances : HandOK(i)
  BY DEF Init, MailOK, HandOK
<1> QED BY <1>2, <1>3, InitType DEF NInv

\* Every step keeps what is said of the notes and of the mail about them.
LEMMA NInvStep == NInv /\ [Next]_vars => NInv'
<1> SUFFICES ASSUME NInv, [Next]_vars PROVE NInv'
  OBVIOUS
<1>t. TypeOK /\ TypeOK' /\ MailOK' /\ \A i \in Instances : HandOK(i)'
  BY MailStep, TypeStep DEF NInv
<1>1. ASSUME NEW i \in Instances, Pull(i) PROVE NotesOK'
  BY <1>1, PassCalm, CalmStep, ApplyNotes DEF Pull
<1>2. ASSUME NEW i \in Instances, Push(i) PROVE NotesOK'
  BY <1>2, PassCalm, CutCalm, CalmStep, SendNotes DEF Push
<1>3. ASSUME NEW i \in Instances, CutShort(i) PROVE NotesOK'
  BY <1>3, CutCalm, CalmStep, SendNotes DEF CutShort
<1>4. ASSUME NEW i \in Instances, UserStep(i) PROVE NotesOK'
  BY <1>4, <1>t, UserCalm, CalmStep
<1>5. ASSUME HostRestarts \/ (\E l \in leases : Expire(l)) PROVE NotesOK'
  <2>1. UNCHANGED <<db, st, held, left, todo, files>>
    BY <1>5 DEF HostRestarts, Expire, MB!Restart, MB!LeaseExpires, engineVars
  <2>2. Calm
    BY <2>1 DEF Calm, NotesGrow, UnreadAbout, Unread
  <2> QED BY <2>2, CalmStep
<1>6. ASSUME UNCHANGED vars PROVE NotesOK'
  <2>1. UNCHANGED <<db, st, held, left, todo, files>>
    BY <1>6 DEF vars, engineVars, storeVars
  <2>2. Calm
    BY <2>1 DEF Calm, NotesGrow, UnreadAbout, Unread
  <2> QED BY <2>2, CalmStep
<1>7. NotesOK'
  BY <1>1, <1>2, <1>3, <1>4, <1>5, <1>6 DEF Next, Pass
<1> QED BY <1>t, <1>7 DEF NInv

\* Once both sides are silent and no mail is left, their notes are the same.
LEMMA SilentIsUnion == NInv => NotesUnion
<1> SUFFICES ASSUME NInv, Quiet, NEW i \in Instances, NEW j \in Instances, NEW n \in Notes
             PROVE  db[i][n] = db[j][n]
  BY DEF NotesUnion
<1>1. \A k \in Instances : ~UnreadAbout(k, n)
  BY DEF Quiet, UnreadAbout, Unread
<1>2. \A k \in Instances : db[k][n] # Absent => Silent(k, n)
  <2> SUFFICES ASSUME NEW k \in Instances, db[k][n] # Absent, st[k][n].sent # db[k][n]
               PROVE  FALSE
    BY DEF Silent
  <2>1. [row |-> n, content |-> db[k][n]] \in Unsent(k, Rows)
    BY NoteContent DEF Unsent
  <2> QED BY <2>1 DEF Quiet
<1>3. \A k \in Instances : ToldOK(k, n) /\ Peer(k) \in Instances
  BY PeerFacts DEF NInv, NotesOK
<1>4. \A k \in Instances : Peer(Peer(k)) = k
  BY PeerOfPeer
<1>5. \A k \in Instances : db[k][n] = db[Peer(k)][n]
  BY <1>1, <1>2, <1>3, <1>4 DEF ToldOK
<1> QED BY <1>5, PeerOfPeer

\* Once the mail is delivered and neither side has anything to say, both have
\* the same activity, whatever was lost, sent twice or cut short on the way.
THEOREM NotesAreUnion == Spec => []NotesUnion
BY InitNInv, NInvStep, SilentIsUnion, PTL DEF Spec

----------------------------------------------------------------------------
(* The two sides' items.                                                   *)
(*                                                                         *)
(* What InStepUnlessParted says of silent states follows from two facts    *)
(* that hold in all states, of a row that has not parted.  The last letter *)
(* about it on its way is what its sender would say of it now, unless the  *)
(* sender has more to say.  And once no mail about it is unread, both have *)
(* said or heard the same last, unless one of them has more to say.  What  *)
(* the merge does is of no account; that an edit is never what was sent    *)
(* before is: its mark is new.                                             *)

Shared == {Project} \cup Items

\* Instance i has the row, otherwise than it last said or heard.
MoreToSay(i, e) == db[i][e] # Absent /\ st[i][e].sent # db[i][e]

\* The peer's latest letter from i about the row is what i said last.
WordOK(i, e) ==
  \A m \in Newest(Peer(i), e) : m.body.content = st[i][e].sent \/ MoreToSay(i, e)

\* With no mail about it unread, the two agree or someone will speak.
AgreeOK(i, e) ==
  UnreadAbout(i, e) \/ UnreadAbout(Peer(i), e)
    \/ st[i][e].sent = st[Peer(i)][e].sent
    \/ MoreToSay(i, e) \/ MoreToSay(Peer(i), e)

TogetherOK ==
  \A i \in Instances : \A e \in Shared \ parted : WordOK(i, e) /\ AgreeOK(i, e)

\* A batch is read in the order of its numbers; a pass pushes each row once at
\* most, and nothing while it pulls.
BatchOK(i) ==
  /\ \A f \in held[i] \ left[i], m \in left[i] : f.seq < m.seq
  /\ at[i] = "write" => \E m \in left[i] : IsNext(i, m) /\ m.body.row = work[i].row
  /\ at[i] \in {"idle", "apply", "write"} => todo[i] = {}
  /\ \A l, m \in todo[i] : l.row = m.row => l = m

\* It only pushes a row that it has more to say of.
PassOK(i) ==
  /\ BatchOK(i)
  /\ \A m \in todo[i] : m.row \in Shared => MoreToSay(i, m.row)

\* The marks in a row's content, and those that an edit may have written.
MarksOf(e, c) ==
  IF e = Project THEN {c.text}
  ELSE {c.title, c.meta, c.deleted} \cup {c.body[k] : k \in 1..Len(c.body)}

MarksSoFar == (0..edits) \cup {None, Sep}

Clean(e, c) == MarksOf(e, c) \subseteq MarksSoFar

\* No content of a shared row has a mark of an edit yet to come: not in a database
\* or a sync state, not between the read and the write of an apply, not in a list
\* of what to push, and not in a mailbox.
MarksOK ==
  /\ \A i \in Instances, e \in Shared :
       /\ db[i][e] # Absent => Clean(e, db[i][e])
       /\ st[i][e].sent # NoHash => Clean(e, st[i][e].sent)
  /\ \A i \in Instances : at[i] = "write" => Clean(work[i].row, work[i].content)
  /\ \A i \in Instances : \A m \in todo[i] : m.row \in Shared => Clean(m.row, m.content)
  /\ \A f \in files : f.body.row \in Shared => Clean(f.body.row, f.body.content)

\* A row that is not there was never spoken of.
AbsentOK ==
  \A i \in Instances, e \in Shared : db[i][e] = Absent => st[i][e].sent = NoHash

PInv ==
  /\ NInv
  /\ \A i \in Instances : PassOK(i)
  /\ MarksOK
  /\ AbsentOK
  /\ TogetherOK

\* A shared row has content of its own kind, which is neither absent nor unsaid.
LEMMA SharedContent ==
  ASSUME NEW e \in Shared
  PROVE  /\ e \in Rows /\ e \notin Notes
         /\ Content(e) \subseteq Payload
         /\ Content(e) = IF e = Project THEN ProjectPayload ELSE ItemPayload
         /\ Absent \notin Content(e) /\ NoHash \notin Content(e)
BY SyncAssumption, ContentAssumption, ContentOfRow DEF Shared

\* A step that only adds to what is unread and to what there is to say about a
\* row, and sends nothing about it, keeps the two facts.
LEMMA TogetherFrame ==
  ASSUME NEW e \in Shared, \A i \in Instances : WordOK(i, e) /\ AgreeOK(i, e),
         \A i \in Instances : /\ st'[i][e].sent = st[i][e].sent
                              /\ MoreToSay(i, e) => MoreToSay(i, e)'
                              /\ Newest(i, e)' \subseteq Newest(i, e)
                              /\ UnreadAbout(i, e) => UnreadAbout(i, e)'
  PROVE  \A i \in Instances : WordOK(i, e)' /\ AgreeOK(i, e)'
<1> SUFFICES ASSUME NEW i \in Instances PROVE WordOK(i, e)' /\ AgreeOK(i, e)'
  OBVIOUS
<1>1. Peer(i) \in Instances
  BY PeerFacts
<1>2. WordOK(i, e)'
  BY <1>1 DEF WordOK
<1>3. AgreeOK(i, e)'
  BY <1>1 DEF AgreeOK
<1> QED BY <1>2, <1>3

----------------------------------------------------------------------------
(* What each step does to the shared rows and to the mail about them. *)

\* A step that writes no shared row and records nothing of one.  The mail may
\* become unread again, and its last letter about a row stays the last.
Still ==
  /\ \A j \in Instances, e \in Shared :
       db'[j][e] = db[j][e] /\ st'[j][e].sent = st[j][e].sent
  /\ files' \subseteq files
  /\ \A j \in Instances : \A m \in todo'[j] : m \in todo[j] \/ m \in Unsent(j, Rows)
  /\ \A j \in Instances : \A f \in Unread(j) : f \in Unread(j)' \/ f.body.row \in Notes
  /\ \A j \in Instances, e \in Shared \ parted' : Newest(j, e)' \subseteq Newest(j, e)
  /\ parted \subseteq parted' /\ edits' = edits

\* The shared rows of instance i become those in rows, and its peer's stay.
SharedBecome(i, rows) ==
  \A j \in Instances, r \in Shared : db'[j][r] = IF j = i THEN rows[r] ELSE db[j][r]

\* Logging on an item leaves the shared rows alone.
LEMMA LoggedShared ==
  ASSUME DbTypeOK, NEW i \in Instances, NEW e \in Items, NEW rows,
         db' = [db EXCEPT ![i] = Logged(i, rows, e)]
  PROVE  SharedBecome(i, rows)
<1> SUFFICES ASSUME NEW j \in Instances, NEW r \in Shared
             PROVE  db'[j][r] = IF j = i THEN rows[r] ELSE db[j][r]
  BY DEF SharedBecome
<1>1. CASE j # i
  BY <1>1 DEF DbTypeOK
<1>2. CASE j = i
  <2> DEFINE fresh == CHOOSE m \in FreshNotes(i) : TRUE
  <2>1. FreshNotes(i) # {} => fresh \in Notes
    BY DEF FreshNotes
  <2>2. db'[i] = Logged(i, rows, e)
    BY DEF DbTypeOK
  <2>3. db'[i][r] = IF FreshNotes(i) # {} /\ r = fresh THEN [link |-> e] ELSE rows[r]
    BY <2>2, SharedContent DEF Logged
  <2> HIDE DEF fresh
  <2> QED BY <1>2, <2>1, <2>3, SharedContent
<1> QED BY <1>1, <1>2

\* The steps that change neither the files nor the shared rows.
LEMMA StillFrame ==
  ASSUME \A j \in Instances, e \in Shared :
           db'[j][e] = db[j][e] /\ st'[j][e].sent = st[j][e].sent,
         UNCHANGED <<files, parted, edits>>,
         \A j \in Instances : \A m \in todo'[j] : m \in todo[j] \/ m \in Unsent(j, Rows),
         \A j \in Instances : held'[j] \ left'[j] \subseteq held[j] \ left[j]
  PROVE  Still
<1>1. \A j \in Instances : Unread(j) \subseteq Unread(j)'
  BY DEF Unread
<1>2. \A j \in Instances, e \in Shared : Newest(j, e)' = Newest(j, e)
  BY DEF Newest, Letters
<1> QED BY <1>1, <1>2 DEF Still

\* What List puts on the list is what there is to say.
LEMMA ListStill ==
  ASSUME EngineTypeOK, NEW i \in Instances, NEW stage,
         NEW R \in {{Project}, Items, Notes}, List(i, stage, R)
  PROVE  \A j \in Instances : \A m \in todo'[j] : m \in todo[j] \/ m \in Unsent(j, Rows)
<1>1. \A j \in Instances : todo'[j] = IF j = i THEN Unsent(i, R) ELSE todo[j]
  BY DEF List, EngineTypeOK
<1>2. R \subseteq Rows
  BY ContentOfRow
<1>3. Unsent(i, R) \subseteq Unsent(i, Rows)
  BY <1>2 DEF Unsent
<1> QED BY <1>1, <1>3

\* The ack of a batch deletes what was read.  What it leaves about a row that is
\* not overtaken came later than all it deletes.
LEMMA AckStill ==
  ASSUME NInv, NEW i \in Instances, Acked(i),
         held' = [held EXCEPT ![i] = {}], left'[i] = {},
         \A j \in Instances : j # i => left'[j] = left[j]
  PROVE  /\ files' \subseteq files
         /\ \A j \in Instances : \A f \in Unread(j) : f \in Unread(j)'
         /\ \A j \in Instances, e \in Shared \ parted' : Newest(j, e)' \subseteq Newest(j, e)
         /\ parted \subseteq parted'
<1>t. /\ EngineTypeOK /\ MailOK /\ HandOK(i) /\ \A f \in files : f.seq \in Nat
      /\ \A f \in held[i] : f \in files /\ f.box = i
  BY DEF NInv, TypeOK, MailOK, MB!Letter, HandOK
<1>1. files' = files \ held[i] /\ left[i] = {} /\ parted' = parted \cup Overtaken(i)
  BY <1>t, AckDeletesBatch DEF Acked
<1>2. \A j \in Instances : held'[j] = IF j = i THEN {} ELSE held[j]
  BY <1>t DEF EngineTypeOK
<1>3. ASSUME NEW j \in Instances, NEW f \in Unread(j) PROVE f \in Unread(j)'
  <2>1. f \notin held[i]
    BY <1>1, <1>t, <1>3 DEF Unread
  <2> QED BY <1>1, <1>2, <1>3, <2>1 DEF Unread
<1>4. ASSUME NEW j \in Instances, NEW e \in Shared \ parted', NEW n \in Newest(j, e)'
      PROVE  n \in Newest(j, e)
  <2>1. n \in Letters(j, e) /\ n \notin held[i] /\ n \in files
    BY <1>1, <1>4 DEF Newest, Letters
  <2>2. \A x \in Letters(j, e) \ held[i] : x.seq <= n.seq
    BY <1>1, <1>4 DEF Newest, Letters
  <2>3. ASSUME NEW x \in Letters(j, e), x \in held[i] PROVE x.seq <= n.seq
    <3>1. j = i
      BY <1>t, <2>3 DEF Letters
    <3>2. e \notin Overtaken(i)
      BY <1>1
    <3>3. ~(n.seq < x.seq)
      BY <2>1, <2>3, <3>1, <3>2 DEF Overtaken, Shared
    <3>4. x.seq \in Nat /\ n.seq \in Nat
      BY <1>t, <2>1, <2>3
    <3> QED BY <3>3, <3>4
  <2> QED BY <2>1, <2>2, <2>3 DEF Newest
<1> QED BY <1>1, <1>3, <1>4

\* What a pass does besides writing a row or sending one.
LEMMA PassStill ==
  ASSUME NInv, NEW i \in Instances,
         \/ StartPass(i) \/ AckBatch(i) \/ ListItems(i) \/ ListActivity(i) \/ EndPass(i)
         \/ \E m \in left[i] : ReadItem(i, m) \/ ApplyNote(i, m)
  PROVE  Still
<1>t. /\ TypeOK /\ EngineTypeOK /\ DbTypeOK /\ StTypeOK /\ MailOK
      /\ HandOK(i) /\ left[i] \subseteq held[i]
  BY DEF NInv, TypeOK, EngineTypeOK
<1>1. CASE StartPass(i)
  <2>1. UNCHANGED <<db, st, files, parted, edits>>
    BY <1>1, <1>t, ReceiveKeepsFiles DEF StartPass, boundVars
  <2>2. /\ held'[i] \ left'[i] = {}
        /\ \A j \in Instances : j # i => held'[j] = held[j] /\ left'[j] = left[j]
    BY <1>1, <1>t DEF StartPass, EngineTypeOK
  <2>3. List(i, "project", {Project}) \/ UNCHANGED todo
    BY <1>1 DEF StartPass
  <2>4. \A j \in Instances : held'[j] \ left'[j] \subseteq held[j] \ left[j]
    BY <2>2
  <2>5. \A j \in Instances : \A m \in todo'[j] : m \in todo[j] \/ m \in Unsent(j, Rows)
    BY <1>t, <2>3, ListStill
  <2> QED BY <2>1, <2>4, <2>5, StillFrame
<1>2. CASE \E m \in left[i] : ReadItem(i, m)
  <2>1. PICK m \in left[i] : ReadItem(i, m)
    BY <1>2
  <2>2. UNCHANGED <<st, files, held, left, todo, parted, edits>> /\ m.body.row \in Items
    BY <2>1 DEF ReadItem, storeVars, boundVars, historyVars
  <2>3. UNCHANGED db \/ db' = [db EXCEPT ![i] = Logged(i, db[i], m.body.row)]
    BY <2>1, <1>t DEF ReadItem, LogActivity, DbTypeOK
  <2>4. UNCHANGED db \/ SharedBecome(i, db[i])
    BY <1>t, <2>2, <2>3, LoggedShared
  <2>5. \A j \in Instances, e \in Shared : db'[j][e] = db[j][e]
    BY <2>4 DEF SharedBecome
  <2> QED BY <2>2, <2>5, StillFrame
<1>3. CASE \E m \in left[i] : ApplyNote(i, m)
  <2>1. PICK m \in left[i] : ApplyNote(i, m)
    BY <1>3
  <2> DEFINE n == m.body.row
  <2>2. UNCHANGED <<files, held, todo, parted, edits>> /\ n \in Notes
        /\ \A j \in Instances : left'[j] = IF j = i THEN left[i] \ {m} ELSE left[j]
    BY <1>t, <2>1 DEF ApplyNote, storeVars, boundVars, historyVars, EngineTypeOK
  <2>3. \E c : db' = [db EXCEPT ![i][n] = c]
    BY <2>1, <2>2, <1>t, NoteContent DEF ApplyNote, DbTypeOK
  <2>4. RecordApplied(i, n, m.body.content)
    BY <2>1 DEF ApplyNote
  <2> HIDE DEF n
  <2>5. \A j \in Instances, e \in Shared : db'[j][e] = db[j][e]
    BY <1>t, <2>2, <2>3, SharedContent DEF DbTypeOK
  <2>6. \A j \in Instances, e \in Shared : st'[j][e].sent = st[j][e].sent
    <3>1. n \in Rows /\ \A e \in Shared : e \in Rows /\ e # n
      BY <2>2, SharedContent, NoteContent
    <3> QED BY <1>t, <2>4, <3>1, SentAfter
  <2>7. \A j \in Instances : \A f \in Unread(j) : f \in Unread(j)' \/ f.body.row \in Notes
    BY <2>2 DEF Unread, n
  <2>8. \A j \in Instances, e \in Shared : Newest(j, e)' = Newest(j, e)
    BY <2>2 DEF Newest, Letters
  <2> QED BY <2>2, <2>5, <2>6, <2>7, <2>8 DEF Still
<1>4. CASE AckBatch(i)
  <2>1. UNCHANGED <<db, st, left, edits>> /\ Acked(i) /\ List(i, "project", {Project})
        /\ held' = [held EXCEPT ![i] = {}] /\ left[i] = {}
    BY <1>4 DEF AckBatch, Acked, boundVars
  <2>2. \A j \in Instances : \A m \in todo'[j] : m \in todo[j] \/ m \in Unsent(j, Rows)
    BY <1>t, <2>1, ListStill
  <2> QED BY <2>1, <2>2, AckStill DEF Still
<1>5. CASE ListItems(i) \/ ListActivity(i) \/ EndPass(i)
  <2>1. UNCHANGED <<db, st, files, held, left, parted, edits>>
    BY <1>5 DEF ListItems, ListActivity, EndPass, storeVars, boundVars, historyVars
  <2>2. List(i, "items", Items) \/ List(i, "activity", Notes) \/ UNCHANGED todo
    BY <1>5 DEF ListItems, ListActivity, EndPass
  <2>3. \A j \in Instances : \A m \in todo'[j] : m \in todo[j] \/ m \in Unsent(j, Rows)
    BY <1>t, <2>2, ListStill
  <2> QED BY <2>1, <2>3, StillFrame
<1> QED BY <1>1, <1>2, <1>3, <1>4, <1>5

\* What a pass that is cut short does, unless it wrote a row or sent one; and what
\* the host does.
LEMMA CutStill ==
  ASSUME NInv,
         \/ \E i \in Instances :
              \/ AckUnanswered(i) \/ AbortPull(i)
              \/ \E m \in todo[i] : SendRefused(i, m) \/ SendFull(i, m)
         \/ HostRestarts \/ (\E l \in leases : Expire(l)) \/ UNCHANGED vars
  PROVE  Still
<1>t. EngineTypeOK
  BY DEF NInv, TypeOK
<1>1. ASSUME NEW i \in Instances, AckUnanswered(i) PROVE Still
  <2>1. UNCHANGED <<db, st, edits>> /\ Acked(i) /\ Abort(i) /\ held' = [held EXCEPT ![i] = {}]
    BY <1>1 DEF AckUnanswered, Abort
  <2>2. left'[i] = {} /\ (\A j \in Instances : todo'[j] \subseteq todo[j])
        /\ \A j \in Instances : j # i => left'[j] = left[j]
    BY <1>t, <2>1, AbortHand
  <2> QED BY <2>1, <2>2, AckStill DEF Still
<1>2. ASSUME NEW i \in Instances,
             AbortPull(i) \/ \E m \in todo[i] : SendRefused(i, m) \/ SendFull(i, m)
      PROVE  Still
  <2>1. UNCHANGED <<db, st, files, parted, edits>> /\ Abort(i)
    BY <1>2 DEF AbortPull, SendRefused, SendFull, storeVars, boundVars, historyVars
  <2>2. \A j \in Instances : /\ todo'[j] \subseteq todo[j]
                             /\ held'[j] \ left'[j] \subseteq held[j] \ left[j]
    BY <1>t, <2>1, AbortHand
  <2> QED BY <2>1, <2>2, StillFrame
<1>3. ASSUME HostRestarts \/ (\E l \in leases : Expire(l)) \/ UNCHANGED vars PROVE Still
  <2>1. UNCHANGED <<db, st, files, parted, edits, held, left, todo>>
    BY <1>3 DEF HostRestarts, Expire, MB!Restart, MB!LeaseExpires, engineVars, boundVars,
                historyVars, storeVars, vars
  <2> QED BY <2>1, StillFrame
<1> QED BY <1>1, <1>2, <1>3

----------------------------------------------------------------------------
(* Edits are new. *)

\* An edit adds its mark to those of the row, and no other.
LEMMA EditedMarks ==
  ASSUME NEW e \in Items, NEW c \in ItemPayload, NEW x \in Mark, NEW d,
         \/ /\ d.body = c.body /\ x \in {d.title, d.meta, d.deleted}
            /\ {d.title, d.meta, d.deleted} \subseteq {c.title, c.meta, c.deleted, x}
         \/ /\ d.title = c.title /\ d.meta = c.meta /\ d.deleted = c.deleted
            /\ d.body = <<x>> \/ d.body = Append(c.body, x)
  PROVE  x \in MarksOf(e, d) /\ MarksOf(e, d) \subseteq MarksOf(e, c) \cup {x}
<1>1. e # Project
  BY SyncAssumption
<1>2. \A v : MarksOf(e, v) = {v.title, v.meta, v.deleted} \cup {v.body[k] : k \in 1..Len(v.body)}
  BY <1>1 DEF MarksOf
<1>3. c.body \in Seq(Mark \cup {Sep})
  BY DEF ItemPayload
<1>4. CASE /\ d.body = c.body /\ x \in {d.title, d.meta, d.deleted}
           /\ {d.title, d.meta, d.deleted} \subseteq {c.title, c.meta, c.deleted, x}
  BY <1>2, <1>4
<1>s. ASSUME d.title = c.title, d.meta = c.meta, d.deleted = c.deleted,
             x \in {d.body[k] : k \in 1..Len(d.body)},
             \A k \in 1..Len(d.body) : d.body[k] \in {c.body[l] : l \in 1..Len(c.body)} \cup {x}
      PROVE  x \in MarksOf(e, d) /\ MarksOf(e, d) \subseteq MarksOf(e, c) \cup {x}
  BY <1>2, <1>s
<1>5. CASE /\ d.title = c.title /\ d.meta = c.meta /\ d.deleted = c.deleted
           /\ d.body = <<x>>
  <2>1. Len(d.body) = 1 /\ d.body[1] = x
    BY <1>5
  <2> QED BY <1>5, <1>s, <2>1
<1>6. CASE /\ d.title = c.title /\ d.meta = c.meta /\ d.deleted = c.deleted
           /\ d.body = Append(c.body, x)
  <2>1. Len(c.body) \in Nat /\ Len(d.body) = Len(c.body) + 1 /\ d.body[Len(c.body) + 1] = x
        /\ \A k \in 1..Len(c.body) : d.body[k] = c.body[k]
    BY <1>3, <1>6
  <2>2. x \in {d.body[k] : k \in 1..Len(d.body)}
    <3>1. Len(c.body) + 1 \in 1..Len(d.body)
      BY <2>1
    <3> QED BY <2>1, <3>1
  <2>3. ASSUME NEW k \in 1..Len(d.body)
        PROVE  d.body[k] \in {c.body[l] : l \in 1..Len(c.body)} \cup {x}
    <3>1. k \in 1..Len(c.body) \/ k = Len(c.body) + 1
      BY <2>1
    <3> QED BY <2>1, <3>1
  <2> QED BY <1>6, <1>s, <2>2, <2>3
<1> QED BY <1>4, <1>5, <1>6

\* What an edit makes of a shared row has the edit's mark, and no later one.
Fresh(e, c) == c \in Content(e) /\ edits' \in MarksOf(e, c) /\ MarksOf(e, c) \subseteq MarksSoFar'

\* A user's step edits at most one shared row.
Typed(i) ==
  /\ edits' = edits + 1
  /\ \A j \in Instances, e \in Shared :
       db'[j][e] = db[j][e] \/ (j = i /\ Fresh(e, db'[i][e]))

\* The marks known so far, and the new one, are the marks known after the edit.
LEMMA FreshMarks ==
  ASSUME edits \in Nat, edits' = edits + 1, NEW e, NEW c
  PROVE  /\ MarksSoFar' = MarksSoFar \cup {edits'}
         /\ Clean(e, c) => Clean(e, c)'
<1>1. 0..edits' = (0..edits) \cup {edits'}
  OBVIOUS
<1> QED BY <1>1 DEF Clean, MarksSoFar

\* One row replaced by a fresh one.
LEMMA FreshRow ==
  ASSUME DbTypeOK, NEW i \in Instances, NEW e \in Shared, NEW c, Fresh(e, c),
         edits' = edits + 1, db' = [db EXCEPT ![i][e] = c]
  PROVE  Typed(i)
<1>1. \A j \in Instances, r \in Shared :
        db'[j][r] = IF j = i /\ r = e THEN c ELSE db[j][r]
  BY SharedContent DEF DbTypeOK
<1> QED BY <1>1 DEF Typed

\* One item replaced by a fresh one, and the change logged.
LEMMA FreshLogged ==
  ASSUME DbTypeOK, NEW i \in Instances, NEW e \in Items, NEW c, Fresh(e, c),
         edits' = edits + 1,
         db' = [db EXCEPT ![i] = Logged(i, [db[i] EXCEPT ![e] = c], e)]
  PROVE  Typed(i)
<1> DEFINE rows == [db[i] EXCEPT ![e] = c]
<1>1. \A r \in Shared : rows[r] = IF r = e THEN c ELSE db[i][r]
  BY SharedContent DEF DbTypeOK
<1>2. db' = [db EXCEPT ![i] = Logged(i, rows, e)]
  OBVIOUS
<1> HIDE DEF rows
<1>3. SharedBecome(i, rows)
  BY <1>2, LoggedShared
<1> QED BY <1>1, <1>3 DEF Typed, SharedBecome

\* Every edit a user can make is new.
LEMMA UserTyped ==
  ASSUME TypeOK, MarksOK, NEW i \in Instances, UserStep(i)
  PROVE  Typed(i)
<1>t. DbTypeOK /\ DOMAIN db = Instances /\ DOMAIN db[i] = Rows /\ edits \in Nat
  BY SyncAssumption DEF TypeOK, DbTypeOK, HistoryTypeOK
<1>e. edits' = edits + 1
  BY DEF UserStep, SetTitle, SetStatus, SetMeta, AppendBody, RewriteBody, DeleteItem,
         CreateItem, CreateNote, EditProject, May
<1>x. edits' \in Mark /\ edits' \in MarksSoFar'
  BY <1>t, <1>e DEF Mark, MarksSoFar
<1>f. ASSUME NEW e \in Items, NEW c \in ItemPayload, NEW d \in ItemPayload, Clean(e, c),
             edits' \in MarksOf(e, d), MarksOf(e, d) \subseteq MarksOf(e, c) \cup {edits'}
      PROVE  Fresh(e, d)
  <2>1. MarksOf(e, c) \subseteq MarksSoFar'
    BY <1>t, <1>e, <1>f, FreshMarks DEF Clean
  <2> QED BY <1>f, <1>x, <2>1, ContentOfRow DEF Fresh
<1>1. ASSUME NEW e \in Items,
             \/ SetTitle(i, e) \/ SetMeta(i, e) \/ AppendBody(i, e)
             \/ RewriteBody(i, e) \/ DeleteItem(i, e)
      PROVE  Typed(i)
  <2> DEFINE c == db[i][e]
  <2>1. Editable(i, e) /\ e \in Shared
    BY <1>1 DEF Shared, SetTitle, SetMeta, AppendBody, RewriteBody, DeleteItem
  <2>2. c \in ItemPayload /\ Clean(e, c) /\ Content(e) = ItemPayload
    BY <1>t, <2>1, ContentOfRow DEF MarksOK, DbTypeOK, Editable
  <2>3. PICK x \in Mark : x = edits'
    BY <1>x
  <2>4. PICK d : /\ db' = [db EXCEPT ![i][e] = d] /\ d \in ItemPayload
                 /\ \/ d = [c EXCEPT !.title = x] \/ d = [c EXCEPT !.meta = x]
                    \/ d = [c EXCEPT !.deleted = x] \/ d = [c EXCEPT !.body = <<x>>]
                    \/ d = [c EXCEPT !.body = Append(@, x)]
    BY <1>t, <1>1, <2>1, <2>2, <2>3, EditedItem
    DEF SetTitle, SetMeta, AppendBody, RewriteBody, DeleteItem
  <2> HIDE DEF c
  <2>5. x \in MarksOf(e, d) /\ MarksOf(e, d) \subseteq MarksOf(e, c) \cup {x}
    <3>1. \/ /\ d.body = c.body /\ x \in {d.title, d.meta, d.deleted}
             /\ {d.title, d.meta, d.deleted} \subseteq {c.title, c.meta, c.deleted, x}
          \/ /\ d.title = c.title /\ d.meta = c.meta /\ d.deleted = c.deleted
             /\ d.body = <<x>> \/ d.body = Append(c.body, x)
      BY <2>2, <2>4 DEF ItemPayload
    <3> QED BY <2>2, <3>1, EditedMarks
  <2>6. Fresh(e, d)
    BY <1>f, <2>2, <2>3, <2>4, <2>5
  <2> QED BY <1>t, <1>e, <2>1, <2>4, <2>6, FreshRow
<1>2. ASSUME NEW e \in Items, SetStatus(i, e) PROVE Typed(i)
  <2> DEFINE c == db[i][e]
  <2>1. c \in ItemPayload /\ Clean(e, c) /\ e \in Rows
    BY <1>t, <1>2, ContentOfRow DEF SetStatus, MarksOK, DbTypeOK, Editable, Shared
  <2>2. PICK x \in Mark : x = edits'
    BY <1>x
  <2>3. PICK y \in {c.meta, x} :
          db' = [db EXCEPT ![i] = Logged(i, [db[i] EXCEPT ![e].title = x, ![e].meta = y], e)]
    BY <1>t, <1>2, <2>2 DEF SetStatus
  <2>d. PICK d : d = [c EXCEPT !.title = x, !.meta = y]
    OBVIOUS
  <2>4. [db[i] EXCEPT ![e].title = x, ![e].meta = y] = [db[i] EXCEPT ![e] = d]
    BY <1>t, <2>1, <2>d
  <2>5. d \in ItemPayload
    BY <2>1, <2>d DEF ItemPayload
  <2>6. x \in MarksOf(e, d) /\ MarksOf(e, d) \subseteq MarksOf(e, c) \cup {x}
    <3>1. /\ d.body = c.body /\ x \in {d.title, d.meta, d.deleted}
          /\ {d.title, d.meta, d.deleted} \subseteq {c.title, c.meta, c.deleted, x}
      BY <2>1, <2>d DEF ItemPayload
    <3> HIDE DEF c
    <3> QED BY <2>1, <3>1, EditedMarks
  <2> HIDE DEF c
  <2>7. Fresh(e, d)
    BY <1>f, <2>1, <2>2, <2>5, <2>6
  <2> QED BY <1>t, <1>e, <2>3, <2>4, <2>7, FreshLogged
<1>3. ASSUME NEW e \in Items, CreateItem(i, e) PROVE Typed(i)
  <2> DEFINE d == [FirstVersion EXCEPT !.title = edits']
  <2>1. db' = [db EXCEPT ![i] = Logged(i, [db[i] EXCEPT ![e] = d], e)]
    BY <1>t, <1>3 DEF CreateItem
  <2>2. <<0>> \in Seq(Mark \cup {Sep}) /\ 0 \in Mark /\ FirstVersion \in ItemPayload
    BY DEF Mark, FirstVersion, ItemPayload
  <2>3. d \in ItemPayload
    BY <1>x, <2>2 DEF FirstVersion, ItemPayload
  <2>4. edits' \in MarksOf(e, d) /\ MarksOf(e, d) \subseteq MarksOf(e, FirstVersion) \cup {edits'}
    <3>1. /\ d.body = FirstVersion.body /\ edits' \in {d.title, d.meta, d.deleted}
          /\ {d.title, d.meta, d.deleted}
               \subseteq {FirstVersion.title, FirstVersion.meta, FirstVersion.deleted, edits'}
      BY DEF FirstVersion
    <3> HIDE DEF d
    <3> QED BY <1>x, <2>2, <3>1, EditedMarks
  <2>5. Clean(e, FirstVersion)
    <3>1. e # Project
      BY SyncAssumption
    <3>2. MarksOf(e, FirstVersion) = {0, None}
      BY <3>1 DEF MarksOf, FirstVersion
    <3> QED BY <1>t, <3>2 DEF Clean, MarksSoFar
  <2> HIDE DEF d
  <2>6. Fresh(e, d)
    BY <1>f, <2>2, <2>3, <2>4, <2>5
  <2> QED BY <1>t, <1>e, <2>1, <2>6, FreshLogged
<1>4. ASSUME NEW e \in Items, CreateNote(i, e) PROVE Typed(i)
  <2>1. db' = [db EXCEPT ![i] = Logged(i, db[i], e)]
    BY <1>4, <1>t DEF CreateNote, LogActivity
  <2>2. SharedBecome(i, db[i])
    BY <1>t, <2>1, LoggedShared
  <2> QED BY <1>e, <2>2 DEF Typed, SharedBecome
<1>5. ASSUME EditProject(i) PROVE Typed(i)
  <2> DEFINE d == [db[i][Project] EXCEPT !.text = edits']
  <2>1. db[i][Project] \in ProjectPayload /\ Project \in Rows /\ Project \in Shared
        /\ Content(Project) = ProjectPayload
    BY <1>t, ContentOfRow DEF DbTypeOK, Shared
  <2>2. db' = [db EXCEPT ![i][Project] = d]
    BY <1>5, <1>t, <2>1 DEF EditProject
  <2>3. d \in ProjectPayload /\ d.text = edits'
    BY <1>x, <2>1 DEF ProjectPayload
  <2> HIDE DEF d
  <2>4. Fresh(Project, d)
    BY <1>x, <2>1, <2>3 DEF Fresh, MarksOf
  <2> QED BY <1>t, <1>e, <2>1, <2>2, <2>4, FreshRow
<1> QED BY <1>1, <1>2, <1>3, <1>4, <1>5 DEF UserStep

----------------------------------------------------------------------------
(* Writing a row, and sending one. *)

\* Instance i writes c as the row that its next letter m is about, and records it
\* as sent or leaves sent_hash alone.  The letter is read, or the pass cut short.
RowWritten(i, m, c) ==
  /\ IsNext(i, m) /\ m.body.row \in Shared
  /\ c \in Content(m.body.row) /\ Clean(m.body.row, c)
  /\ \A j \in Instances, r \in Shared :
       /\ db'[j][r] = IF j = i /\ r = m.body.row THEN c ELSE db[j][r]
       /\ \/ st'[j][r].sent = st[j][r].sent
          \/ j = i /\ r = m.body.row /\ st'[j][r].sent = c
  /\ \A j \in Instances : /\ todo'[j] \subseteq todo[j]
                          /\ j # i => held'[j] = held[j] /\ left'[j] = left[j]
  /\ \/ held'[i] = held[i] /\ left[i] \ {m} \subseteq left'[i] /\ left'[i] \subseteq left[i]
     \/ held'[i] = {} /\ left'[i] = {}
  /\ UNCHANGED <<files, edits>> /\ todo[i] = {}
  /\ NoteParting(i, m.body.row, c)

\* The first of the letters left is dropped from the batch when it is applied.
LEMMA RestOfBatch ==
  ASSUME MailOK, NEW i \in Instances, HandOK(i), left[i] \subseteq held[i],
         NEW m \in left[i], IsNext(i, m)
  PROVE  {l \in left[i] : \E n \in left[i] : n.seq < l.seq} = left[i] \ {m}
<1>1. \A f \in left[i] : f \in files /\ f.box = i /\ f.seq \in Nat
  BY DEF HandOK, MailOK, MB!Letter
<1>2. \A f \in left[i] : f # m => m.seq < f.seq
  BY <1>1 DEF MailOK, IsNext
<1>3. \A n \in left[i] : ~(n.seq < m.seq)
  BY <1>1 DEF IsNext
<1> QED BY <1>2, <1>3

\* The three steps that write a shared row.
LEMMA WritesRow ==
  ASSUME PInv, NEW i \in Instances,
         WriteItem(i) \/ WriteTorn(i) \/ \E m \in left[i] : ApplyProject(i, m)
  PROVE  \E m \in left[i] : \E c : RowWritten(i, m, c)
<1>t. /\ TypeOK /\ EngineTypeOK /\ DbTypeOK /\ StTypeOK /\ MailOK /\ HandOK(i)
      /\ left[i] \subseteq held[i] /\ PassOK(i) /\ MarksOK
  BY DEF PInv, NInv, TypeOK, EngineTypeOK
<1>1. CASE WriteItem(i) \/ WriteTorn(i)
  <2> PICK e, c : e = work[i].row /\ c = work[i].content
    OBVIOUS
  <2>1. /\ at[i] = "write" /\ db' = [db EXCEPT ![i][e] = c] /\ NoteParting(i, e, c)
        /\ UNCHANGED <<files, edits>>
        /\ UNCHANGED st \/ RecordMergedBase(i, e, c) \/ RecordApplied(i, e, c)
    BY <1>1 DEF WriteItem, WriteTorn, Upsert, storeVars, boundVars
  <2>2. e \in Items /\ c \in ItemPayload
    BY <1>t, <2>1 DEF EngineTypeOK, ItemWork
  <2>3. e \in Shared /\ c \in Content(e) /\ Clean(e, c) /\ e \in Rows
    BY <1>t, <2>1, <2>2, ContentOfRow DEF Shared, MarksOK
  <2>4. PICK m \in left[i] : IsNext(i, m) /\ m.body.row = e
    BY <1>t, <2>1 DEF PassOK, BatchOK
  <2>5. ASSUME NEW j \in Instances, NEW r \in Shared
        PROVE  /\ db'[j][r] = IF j = i /\ r = e THEN c ELSE db[j][r]
               /\ \/ st'[j][r].sent = st[j][r].sent
                  \/ j = i /\ r = e /\ st'[j][r].sent = c
    <3>1. r \in Rows
      BY SharedContent
    <3>2. db'[j][r] = IF j = i /\ r = e THEN c ELSE db[j][r]
      BY <1>t, <2>1, <2>3, <3>1 DEF DbTypeOK
    <3>3. \/ st'[j][r].sent = st[j][r].sent
          \/ j = i /\ r = e /\ st'[j][r].sent = c
      BY <1>t, <2>1, <2>3, <3>1 DEF StTypeOK, RecordMergedBase, RecordApplied
    <3> QED BY <3>2, <3>3
  <2>6. \A j \in Instances : /\ todo'[j] \subseteq todo[j]
                             /\ j # i => held'[j] = held[j] /\ left'[j] = left[j]
    BY <1>1, <1>t, AbortHand DEF WriteItem, WriteTorn, EngineTypeOK
  <2>7. \/ held'[i] = held[i] /\ left'[i] = left[i] \ {m}
        \/ held'[i] = {} /\ left'[i] = {}
    <3>1. CASE WriteItem(i)
      <4>1. held'[i] = held[i]
            /\ left'[i] = {l \in left[i] : \E n \in left[i] : n.seq < l.seq}
        BY <3>1, <1>t DEF WriteItem, EngineTypeOK
      <4> QED BY <1>t, <2>4, <4>1, RestOfBatch
    <3>2. CASE WriteTorn(i)
      BY <3>2, <1>t, AbortHand DEF WriteTorn
    <3> QED BY <1>1, <3>1, <3>2
  <2>8. UNCHANGED <<files, edits>> /\ NoteParting(i, e, c) /\ todo[i] = {}
    BY <1>t, <2>1 DEF PassOK, BatchOK
  <2>9. RowWritten(i, m, c)
    BY <2>3, <2>4, <2>5, <2>6, <2>7, <2>8 DEF RowWritten
  <2> QED BY <2>9
<1>2. CASE \E m \in left[i] : ApplyProject(i, m)
  <2>1. PICK m \in left[i] : ApplyProject(i, m)
    BY <1>2
  <2> PICK e, c : e = m.body.row /\ c = m.body.content
    OBVIOUS
  <2>2. /\ IsNext(i, m) /\ e = Project /\ NoteParting(i, e, c) /\ UNCHANGED <<files, edits>>
        /\ db' = [db EXCEPT ![i][e] = c] /\ RecordApplied(i, e, c)
    BY <2>1 DEF ApplyProject, Current, storeVars, boundVars
  <2>3. e \in Shared /\ e \in Rows /\ m \in files /\ c \in Content(e)
    BY <1>t, <2>2, CurrentFacts DEF Shared, HandOK
  <2>4. Clean(e, c)
    BY <1>t, <2>3 DEF MarksOK
  <2>5. \A j \in Instances : /\ todo'[j] \subseteq todo[j] /\ held'[j] = held[j]
                             /\ left'[j] = IF j = i THEN left[i] \ {m} ELSE left[j]
    BY <1>t, <2>1 DEF ApplyProject, EngineTypeOK
  <2>6. ASSUME NEW j \in Instances, NEW r \in Shared
        PROVE  /\ db'[j][r] = IF j = i /\ r = e THEN c ELSE db[j][r]
               /\ \/ st'[j][r].sent = st[j][r].sent
                  \/ j = i /\ r = e /\ st'[j][r].sent = c
    <3>1. r \in Rows
      BY SharedContent
    <3>2. db'[j][r] = IF j = i /\ r = e THEN c ELSE db[j][r]
      BY <1>t, <2>2, <2>3, <3>1 DEF DbTypeOK
    <3>3. \/ st'[j][r].sent = st[j][r].sent
          \/ j = i /\ r = e /\ st'[j][r].sent = c
      BY <1>t, <2>2, <2>3, <3>1 DEF StTypeOK, RecordApplied
    <3> QED BY <3>2, <3>3
  <2>7. IsNext(i, m) /\ NoteParting(i, e, c) /\ UNCHANGED <<files, edits>> /\ todo[i] = {}
    <3>1. at[i] = "apply"
      BY <2>1 DEF ApplyProject, Current
    <3> QED BY <1>t, <2>2, <3>1 DEF PassOK, BatchOK
  <2>8. RowWritten(i, m, c)
    BY <2>3, <2>4, <2>5, <2>6, <2>7 DEF RowWritten
  <2> QED BY <2>8
<1> QED BY <1>1, <1>2

\* Instance i sends m, and records it as sent unless the answer was lost.
RowSent(i, m, new) ==
  /\ new = [box |-> Peer(i), seq |-> nextSeq[Peer(i)], body |-> m]
  /\ files' = files \cup {new} /\ \A f \in files : f.box = Peer(i) => f.seq < new.seq
  /\ UNCHANGED <<db, parted, edits>>
  /\ \A j \in Instances, r \in Shared :
       st'[j][r].sent = IF j = i /\ r = m.row /\ SendRow(i, m) THEN m.content
                        ELSE st[j][r].sent
  /\ \A j \in Instances : Unread(j) \subseteq Unread(j)' /\ todo'[j] \subseteq todo[j]
  /\ todo'[i] = IF SendRow(i, m) THEN todo[i] \ {m} ELSE {}
  /\ new \in Unread(Peer(i))'

LEMMA SendsRow ==
  ASSUME NInv, NEW i \in Instances, NEW m \in todo[i], SendRow(i, m) \/ SendUnanswered(i, m)
  PROVE  \E new : RowSent(i, m, new)
<1> DEFINE p == Peer(i)
           new == [box |-> p, seq |-> nextSeq[p], body |-> m]
<1>t. /\ TypeOK /\ EngineTypeOK /\ StTypeOK /\ MailOK /\ m \in Envelope
      /\ \A j \in Instances : HandOK(j)
  BY DEF NInv, TypeOK, EngineTypeOK
<1>p. p \in Instances /\ p # i
  BY PeerFacts
<1>1. UNCHANGED <<db, parted, edits>> /\ MB!Send(p, m)
  BY DEF SendRow, SendUnanswered, DeliverTo, boundVars
<1>2. files' = files \cup {new} /\ \A f \in files : f.box = p => f.seq # nextSeq[p]
  BY <1>t, <1>p, <1>1, SendAddsFile
<1>3. \A f \in files : f.box = p => f.seq < new.seq
  BY <1>t DEF MailOK
<1>4. \A j \in Instances : /\ held'[j] \ left'[j] \subseteq held[j] \ left[j]
                           /\ todo'[j] \subseteq todo[j] /\ held'[j] \subseteq files
  BY <1>t, AbortHand DEF SendRow, SendUnanswered, EngineTypeOK, HandOK
<1>5. todo'[i] = IF SendRow(i, m) THEN todo[i] \ {m} ELSE {}
  BY <1>t, AbortHand DEF SendRow, SendUnanswered, EngineTypeOK
<1>6. new \notin files /\ new.box = p
  BY <1>2
<1> HIDE DEF new, p
<1>7. \A j \in Instances : Unread(j) \subseteq Unread(j)'
  BY <1>2, <1>4 DEF Unread
<1>8. new \in Unread(p)'
  BY <1>2, <1>4, <1>6, <1>p DEF Unread
<1>9. \A j \in Instances, r \in Shared :
        st'[j][r].sent = IF j = i /\ r = m.row /\ SendRow(i, m) THEN m.content
                         ELSE st[j][r].sent
  <2>1. IF SendRow(i, m) THEN RecordSent(i, m.row, m.content) ELSE UNCHANGED st
    BY DEF SendRow, SendUnanswered
  <2>2. m.row \in Rows /\ \A r \in Shared : r \in Rows
    BY <1>t, EnvelopeFacts, SharedContent
  <2> QED BY <1>t, <2>1, <2>2, SentAfter
<1>10. RowSent(i, m, new)
  BY <1>1, <1>2, <1>3, <1>4, <1>5, <1>7, <1>8, <1>9 DEF RowSent, new, p
<1> QED BY <1>10

----------------------------------------------------------------------------
(* Marks come from edits only. *)

\* A merge has the marks of the two versions and the separator, and no others.
LEMMA MergedMarks ==
  ASSUME NEW e \in Items, NEW i \in Nat, NEW j \in Nat,
         NEW local \in ItemPayload, NEW remote \in ItemPayload
  PROVE  MarksOf(e, mergeConflict(i, j, local, remote))
           \subseteq MarksOf(e, local) \cup MarksOf(e, remote) \cup {Sep}
<1> DEFINE b == MergeBody(i, j, local.body, remote.body)
           lb == local.body
           rb == remote.body
<1> PICK v : v = mergeConflict(i, j, local, remote)
  OBVIOUS
<1>1. /\ v.body = b /\ v.title \in {local.title, remote.title} /\ v.meta = remote.meta
      /\ v.deleted \in {local.deleted, remote.deleted}
  BY DEF mergeConflict, MergeDeleted, ItemPayload
<1>2. lb \in Seq(Mark \cup {Sep}) /\ rb \in Seq(Mark \cup {Sep})
  BY DEF ItemPayload
<1>3. b \in {lb, rb, lb \o <<Sep>> \o rb, rb \o <<Sep>> \o lb}
  BY DEF MergeBody
<1>4. \A w : MarksOf(e, w) = {w.title, w.meta, w.deleted} \cup {w.body[k] : k \in 1..Len(w.body)}
  BY SyncAssumption DEF MarksOf
<1>5. ASSUME NEW x \in Seq(Mark \cup {Sep}), NEW y \in Seq(Mark \cup {Sep}),
             NEW k \in 1..Len(x \o <<Sep>> \o y)
      PROVE  (x \o <<Sep>> \o y)[k] \in {x[l] : l \in 1..Len(x)} \cup {y[l] : l \in 1..Len(y)} \cup {Sep}
  <2>1. CASE k \in 1..Len(x)
    <3>1. (x \o <<Sep>> \o y)[k] = x[k]
      BY <2>1
    <3> QED BY <2>1, <3>1
  <2>2. CASE k = Len(x) + 1
    <3>1. (x \o <<Sep>> \o y)[k] = Sep
      BY <2>2
    <3> QED BY <3>1
  <2>3. CASE k > Len(x) + 1
    <3>1. k - (Len(x) + 1) \in 1..Len(y) /\ (x \o <<Sep>> \o y)[k] = y[k - (Len(x) + 1)]
      BY <2>3
    <3> QED BY <3>1
  <2> QED BY <2>1, <2>2, <2>3
<1>6. \A k \in 1..Len(b) :
        b[k] \in {lb[l] : l \in 1..Len(lb)} \cup {rb[l] : l \in 1..Len(rb)} \cup {Sep}
  <2>1. CASE b = lb \/ b = rb
    BY <2>1
  <2>2. CASE b = lb \o <<Sep>> \o rb
    BY <1>2, <1>5, <2>2
  <2>3. CASE b = rb \o <<Sep>> \o lb
    BY <1>2, <1>5, <2>3
  <2> QED BY <1>3, <2>1, <2>2, <2>3
<1> HIDE DEF b
<1> QED BY <1>1, <1>4, <1>6

\* New content with no mark that is yet to come.
CleanNext(e, c) == MarksOf(e, c) \subseteq MarksSoFar'

\* A step that copies content, or brings such content, brings no mark that is yet
\* to come.
LEMMA MarksFrame ==
  ASSUME MarksOK, MarksSoFar \subseteq MarksSoFar',
         \A j \in Instances, e \in Shared :
           /\ db'[j][e] = db[j][e] \/ CleanNext(e, db'[j][e])
           /\ st'[j][e].sent = st[j][e].sent \/ CleanNext(e, st'[j][e].sent),
         \A j \in Instances : at'[j] = "write" =>
           \/ at[j] = "write" /\ work'[j] = work[j]
           \/ CleanNext(work'[j].row, work'[j].content),
         \A j \in Instances : \A m \in todo'[j] : m \in todo[j] \/ m \in Unsent(j, Rows),
         \A f \in files' : \/ f \in files
                           \/ f.body.row \in Shared => CleanNext(f.body.row, f.body.content)
  PROVE  MarksOK'
<1>1. \A e, c : Clean(e, c) => CleanNext(e, c)
  BY DEF Clean, CleanNext
<1>2. ASSUME NEW j \in Instances, NEW e \in Shared
      PROVE  /\ db'[j][e] # Absent => CleanNext(e, db'[j][e])
             /\ st'[j][e].sent # NoHash => CleanNext(e, st'[j][e].sent)
  BY <1>1, <1>2 DEF MarksOK
<1>3. ASSUME NEW j \in Instances, at'[j] = "write"
      PROVE  CleanNext(work'[j].row, work'[j].content)
  BY <1>1, <1>3 DEF MarksOK
<1>4. ASSUME NEW j \in Instances, NEW m \in todo'[j], m.row \in Shared
      PROVE  CleanNext(m.row, m.content)
  <2>1. CASE m \in todo[j]
    BY <1>1, <1>4, <2>1 DEF MarksOK
  <2>2. CASE m \in Unsent(j, Rows)
    <3>1. db[j][m.row] = m.content /\ db[j][m.row] # Absent
      BY <2>2 DEF Unsent
    <3> QED BY <1>1, <1>4, <3>1 DEF MarksOK
  <2> QED BY <1>4, <2>1, <2>2
<1>5. ASSUME NEW f \in files', f.body.row \in Shared
      PROVE  CleanNext(f.body.row, f.body.content)
  BY <1>1, <1>5 DEF MarksOK
<1> QED BY <1>2, <1>3, <1>4, <1>5 DEF MarksOK, Clean, CleanNext

\* Every step is of one of four kinds.
LEMMA FourKinds ==
  ASSUME PInv, [Next]_vars
  PROVE  \/ Still
         \/ \E i \in Instances : UserStep(i)
         \/ \E i \in Instances : \E m \in left[i] : \E c : RowWritten(i, m, c)
         \/ \E i \in Instances : \E m \in todo[i] : \E new : RowSent(i, m, new)
<1>n. NInv
  BY DEF PInv
<1> DEFINE Kinds == \/ Still
                    \/ \E i \in Instances : UserStep(i)
                    \/ \E i \in Instances : \E m \in left[i] : \E c : RowWritten(i, m, c)
                    \/ \E i \in Instances : \E m \in todo[i] : \E new : RowSent(i, m, new)
<1>1. ASSUME NEW i \in Instances, Pull(i) PROVE Kinds
  <2>1. \/ WriteItem(i) \/ \E m \in left[i] : ApplyProject(i, m)
        \/ StartPass(i) \/ AckBatch(i) \/ \E m \in left[i] : ReadItem(i, m) \/ ApplyNote(i, m)
    BY <1>1 DEF Pull
  <2> QED BY <1>n, <2>1, PassStill, WritesRow
<1>2. ASSUME NEW i \in Instances, Push(i) PROVE Kinds
  <2>1. \/ ListItems(i) \/ ListActivity(i) \/ EndPass(i)
        \/ \E m \in todo[i] : SendRow(i, m) \/ SendFull(i, m)
    BY <1>2 DEF Push
  <2> QED BY <1>n, <2>1, PassStill, CutStill, SendsRow
<1>3. ASSUME NEW i \in Instances, CutShort(i) PROVE Kinds
  <2>1. \/ AckUnanswered(i) \/ AbortPull(i) \/ WriteTorn(i)
        \/ \E m \in todo[i] : SendUnanswered(i, m) \/ SendRefused(i, m)
    BY <1>3 DEF CutShort
  <2> QED BY <1>n, <2>1, WritesRow, CutStill, SendsRow
<1>4. ASSUME HostRestarts \/ (\E l \in leases : Expire(l)) \/ UNCHANGED vars PROVE Kinds
  BY <1>n, <1>4, CutStill
<1> QED BY <1>1, <1>2, <1>3, <1>4 DEF Next, Pass

\* What is written next was read from the mail in this step, or before it.
LEMMA WorkFrame ==
  ASSUME EngineTypeOK, [Next]_vars, NEW j \in Instances, at'[j] = "write"
  PROVE  \/ at[j] = "write" /\ work'[j] = work[j]
         \/ \E m \in left[j] : ReadItem(j, m)
<1> DEFINE Same == at[j] = "write" /\ work'[j] = work[j]
           Read == \E m \in left[j] : ReadItem(j, m)
<1>1. ASSUME NEW i \in Instances, StartPass(i) PROVE Same
  <2>1. work' = work /\ at' = [at EXCEPT ![i] = IF MB!Handed(i) = {} THEN "project" ELSE "apply"]
    BY <1>1 DEF StartPass, List
  <2> QED BY <2>1 DEF EngineTypeOK
<1>2. ASSUME NEW i \in Instances, NEW m \in left[i], ReadItem(i, m) PROVE Same \/ Read
  <2>1. CASE i = j
    BY <1>2, <2>1
  <2>2. CASE i # j
    BY <1>2, <2>2 DEF ReadItem, EngineTypeOK
  <2> QED BY <2>1, <2>2
<1>3. ASSUME NEW i \in Instances, NEW m \in left[i], ApplyNote(i, m) \/ ApplyProject(i, m)
      PROVE  Same
  BY <1>3 DEF ApplyNote, ApplyProject
<1>4. ASSUME NEW i \in Instances, WriteItem(i) PROVE Same
  BY <1>4 DEF WriteItem, EngineTypeOK
<1>5. ASSUME NEW i \in Instances, AckBatch(i) \/ ListItems(i) \/ ListActivity(i) \/ EndPass(i)
      PROVE  Same
  BY <1>5 DEF AckBatch, ListItems, ListActivity, EndPass, List, EngineTypeOK
<1>6. ASSUME NEW i \in Instances, Abort(i) PROVE Same
  BY <1>6, AbortFrame
<1>7. ASSUME NEW i \in Instances, NEW m \in todo[i], SendRow(i, m) PROVE Same
  BY <1>7 DEF SendRow
<1>8. ASSUME NEW i \in Instances, UserStep(i) PROVE Same
  BY <1>8 DEF UserStep, SetTitle, SetStatus, SetMeta, AppendBody, RewriteBody, DeleteItem,
              CreateItem, CreateNote, EditProject, May, engineVars
<1>9. ASSUME HostRestarts \/ (\E l \in leases : Expire(l)) \/ UNCHANGED vars PROVE Same
  BY <1>9 DEF HostRestarts, Expire, engineVars, vars
<1>10. ASSUME NEW i \in Instances, CutShort(i) PROVE Abort(i)
  BY <1>10 DEF CutShort, AckUnanswered, AbortPull, WriteTorn, SendUnanswered, SendRefused
<1>11. ASSUME NEW i \in Instances, NEW m \in todo[i], SendFull(i, m) PROVE Abort(i)
  BY <1>11 DEF SendFull
<1> HIDE DEF Same, Read
<1>12. Same \/ Read
  BY <1>1, <1>2, <1>3, <1>4, <1>5, <1>6, <1>7, <1>8, <1>9, <1>10, <1>11
     DEF Next, Pass, Pull, Push
<1> QED BY <1>12 DEF Same, Read

\* What applyItem is about to write is the message, or its merge with the row.
LEMMA ReadMarks ==
  ASSUME TypeOK, MarksOK, MailOK, NEW i \in Instances, HandOK(i), NEW m \in left[i], ReadItem(i, m)
  PROVE  CleanNext(work'[i].row, work'[i].content)
<1> PICK e, remote, local : e = m.body.row /\ remote = m.body.content /\ local = db[i][e]
  OBVIOUS
<1>t. EngineTypeOK /\ DbTypeOK /\ edits' = edits /\ MarksSoFar' = MarksSoFar
  BY DEF TypeOK, ReadItem, boundVars, MarksSoFar
<1>1. e \in Items /\ e \in Shared /\ remote \in ItemPayload /\ m \in files
  <2>1. e \in Items /\ e \in Shared
    BY DEF ReadItem, Shared
  <2>2. m.body.content \in Content(m.body.row)
    BY <1>t, CurrentFacts
  <2>3. m \in files
    BY <1>t DEF HandOK, EngineTypeOK
  <2> QED BY <2>1, <2>2, <2>3, ContentOfRow
<1>2. Clean(e, remote) /\ (local # Absent => Clean(e, local) /\ local \in ItemPayload)
  BY <1>t, <1>1, ContentOfRow DEF MarksOK, DbTypeOK
<1>3. \/ work'[i].row = e /\ work'[i].content = remote
      \/ /\ work'[i].row = e /\ work'[i].content = mergeConflict(i, Peer(i), local, remote)
         /\ local # Absent
  BY <1>t DEF ReadItem, EngineTypeOK
<1>4. local # Absent => MarksOf(e, mergeConflict(i, Peer(i), local, remote)) \subseteq MarksSoFar
  <2>1. i \in Nat /\ Peer(i) \in Nat /\ Sep \in MarksSoFar
    BY PeerFacts DEF MarksSoFar
  <2>2. local # Absent => MarksOf(e, mergeConflict(i, Peer(i), local, remote))
                            \subseteq MarksOf(e, local) \cup MarksOf(e, remote) \cup {Sep}
    BY <1>1, <1>2, <2>1, MergedMarks
  <2> QED BY <1>2, <2>1, <2>2 DEF Clean
<1> QED BY <1>t, <1>2, <1>3, <1>4 DEF Clean, CleanNext

\* No step brings a mark that is yet to come.
LEMMA MarksStep == PInv /\ [Next]_vars => MarksOK'
<1> SUFFICES ASSUME PInv, [Next]_vars PROVE MarksOK'
  OBVIOUS
<1>t. /\ TypeOK /\ EngineTypeOK /\ MarksOK /\ MailOK /\ edits \in Nat
      /\ \A i \in Instances : HandOK(i)
  BY SyncAssumption DEF PInv, NInv, TypeOK, HistoryTypeOK
<1>w. ASSUME NEW j \in Instances, at'[j] = "write"
      PROVE  \/ at[j] = "write" /\ work'[j] = work[j]
             \/ CleanNext(work'[j].row, work'[j].content)
  BY <1>t, <1>w, WorkFrame, ReadMarks
<1>s. edits' = edits => MarksSoFar' = MarksSoFar
  BY DEF MarksSoFar
<1>1. CASE Still
  <2>1. /\ MarksSoFar' = MarksSoFar /\ files' \subseteq files
        /\ \A j \in Instances, e \in Shared :
             db'[j][e] = db[j][e] /\ st'[j][e].sent = st[j][e].sent
        /\ \A j \in Instances : \A m \in todo'[j] : m \in todo[j] \/ m \in Unsent(j, Rows)
    BY <1>s, <1>1 DEF Still
  <2> QED BY <1>t, <1>w, <2>1, MarksFrame
<1>2. ASSUME NEW i \in Instances, UserStep(i) PROVE MarksOK'
  <2>1. UNCHANGED <<st, files, todo>>
    BY <1>2 DEF UserStep, SetTitle, SetStatus, SetMeta, AppendBody, RewriteBody, DeleteItem,
                CreateItem, CreateNote, EditProject, May, engineVars, storeVars
  <2>2. Typed(i)
    BY <1>2, <1>t, UserTyped
  <2>3. MarksSoFar \subseteq MarksSoFar'
    BY <1>t, <2>2, FreshMarks DEF Typed
  <2>4. \A j \in Instances, e \in Shared :
          db'[j][e] = db[j][e] \/ CleanNext(e, db'[j][e])
    BY <2>2 DEF Typed, Fresh, CleanNext
  <2> QED BY <1>t, <1>w, <2>1, <2>3, <2>4, MarksFrame
<1>3. ASSUME NEW i \in Instances, NEW m \in left[i], NEW c, RowWritten(i, m, c) PROVE MarksOK'
  <2>1. /\ UNCHANGED <<files, edits>> /\ Clean(m.body.row, c)
        /\ \A j \in Instances : todo'[j] \subseteq todo[j]
    BY <1>3 DEF RowWritten
  <2>2. MarksSoFar' = MarksSoFar /\ CleanNext(m.body.row, c)
    BY <1>s, <2>1 DEF Clean, CleanNext
  <2>3. \A j \in Instances, e \in Shared :
          /\ db'[j][e] = db[j][e] \/ CleanNext(e, db'[j][e])
          /\ st'[j][e].sent = st[j][e].sent \/ CleanNext(e, st'[j][e].sent)
    BY <1>3, <2>2 DEF RowWritten
  <2> QED BY <1>t, <1>w, <2>1, <2>2, <2>3, MarksFrame
<1>4. ASSUME NEW i \in Instances, NEW m \in todo[i], NEW new, RowSent(i, m, new) PROVE MarksOK'
  <2>1. MarksSoFar' = MarksSoFar /\ (m.row \in Shared => CleanNext(m.row, m.content))
    BY <1>4, <1>s, <1>t DEF RowSent, MarksOK, Clean, CleanNext
  <2>2. /\ UNCHANGED db /\ files' = files \cup {new} /\ new.body = m
        /\ \A j \in Instances : todo'[j] \subseteq todo[j]
    BY <1>4 DEF RowSent
  <2>3. \A j \in Instances, e \in Shared :
          st'[j][e].sent = st[j][e].sent \/ CleanNext(e, st'[j][e].sent)
    BY <1>4, <2>1 DEF RowSent
  <2> QED BY <1>t, <1>w, <2>1, <2>2, <2>3, MarksFrame
<1> QED BY <1>1, <1>2, <1>3, <1>4, FourKinds

\* A row comes to be spoken of only where it is, and none ever goes.
LEMMA AbsentStep == PInv /\ [Next]_vars => AbsentOK'
<1> SUFFICES ASSUME PInv, [Next]_vars, NEW j \in Instances, NEW e \in Shared,
                    db'[j][e] = Absent
             PROVE  st'[j][e].sent = NoHash
  BY DEF AbsentOK
<1>t. /\ TypeOK /\ EngineTypeOK /\ MarksOK /\ AbsentOK /\ Absent \notin Content(e)
      /\ \A i \in Instances : PassOK(i)
  BY SharedContent DEF PInv, NInv, TypeOK
<1>1. CASE Still
  BY <1>1, <1>t DEF Still, AbsentOK
<1>2. ASSUME NEW i \in Instances, UserStep(i) PROVE st'[j][e].sent = NoHash
  <2>1. UNCHANGED st
    BY <1>2 DEF UserStep, SetTitle, SetStatus, SetMeta, AppendBody, RewriteBody, DeleteItem,
                CreateItem, CreateNote, EditProject, May
  <2>2. db[j][e] = Absent
    BY <1>2, <1>t, UserTyped DEF Typed, Fresh
  <2> QED BY <1>t, <2>1, <2>2 DEF AbsentOK
<1>3. ASSUME NEW i \in Instances, NEW m \in left[i], NEW c, RowWritten(i, m, c)
      PROVE  st'[j][e].sent = NoHash
  <2>1. ~(j = i /\ e = m.body.row)
    BY <1>3, <1>t DEF RowWritten
  <2> QED BY <1>3, <1>t, <2>1 DEF RowWritten, AbsentOK
<1>4. ASSUME NEW i \in Instances, NEW m \in todo[i], NEW new, RowSent(i, m, new)
      PROVE  st'[j][e].sent = NoHash
  <2>1. m.row \in Shared => db[i][m.row] # Absent
    BY <1>t DEF PassOK, MoreToSay
  <2> QED BY <1>4, <1>t, <2>1 DEF RowSent, AbsentOK
<1> QED BY <1>1, <1>2, <1>3, <1>4, FourKinds

----------------------------------------------------------------------------
(* The last word and the agreement. *)

\* An edit gives its instance more to say: what was sent has not its mark.
LEMMA EditToSay ==
  ASSUME PInv, NEW i \in Instances, UserStep(i), NEW j \in Instances, NEW e \in Shared,
         MoreToSay(j, e)
  PROVE  MoreToSay(j, e)'
<1>t. TypeOK /\ MarksOK /\ edits \in Nat /\ Absent \notin Content(e) /\ NoHash \notin Content(e)
  BY SyncAssumption, SharedContent DEF PInv, NInv, TypeOK, HistoryTypeOK
<1>1. UNCHANGED st
  BY DEF UserStep, SetTitle, SetStatus, SetMeta, AppendBody, RewriteBody, DeleteItem,
         CreateItem, CreateNote, EditProject, May
<1>2. Typed(i)
  BY <1>t, UserTyped
<1>3. edits' \notin MarksSoFar
  <2>1. edits + 1 \notin 0..edits /\ edits + 1 \in Mark
    BY <1>t DEF Mark
  <2> QED BY <1>2, <2>1, ContentAssumption DEF Typed, MarksSoFar
<1>4. CASE db'[j][e] = db[j][e]
  BY <1>1, <1>4 DEF MoreToSay
<1>5. CASE db'[j][e] # db[j][e]
  <2>1. db'[j][e] \in Content(e) /\ edits' \in MarksOf(e, db'[j][e])
    BY <1>2, <1>5 DEF Typed, Fresh
  <2>2. st[j][e].sent # NoHash => edits' \notin MarksOf(e, st[j][e].sent)
    BY <1>3, <1>t DEF MarksOK, Clean
  <2>3. st[j][e].sent # db'[j][e]
    BY <1>t, <2>1, <2>2
  <2> QED BY <1>1, <1>t, <2>1, <2>3 DEF MoreToSay
<1> QED BY <1>4, <1>5

\* Writing a row: the writer falls silent only on what it was told and on what
\* its own last word was, or the row is noted as parted.
LEMMA WriteTogether ==
  ASSUME PInv, NEW i \in Instances, NEW m \in left[i], NEW c, RowWritten(i, m, c),
         m.body.row \notin parted'
  PROVE  \A j \in Instances : WordOK(j, m.body.row)' /\ AgreeOK(j, m.body.row)'
<1> PICK e, p : e = m.body.row /\ p = Peer(i)
  OBVIOUS
<1>p. p \in Instances /\ p # i /\ Peer(p) = i /\ Instances = {i, p} /\ Peer(i) = p
  BY PeerFacts, PeerOfPeer
<1>w. /\ e \in Shared /\ c \in Content(e) /\ IsNext(i, m) /\ db'[i][e] = c
      /\ db'[p][e] = db[p][e] /\ st'[p][e].sent = st[p][e].sent /\ files' = files
      /\ \/ held'[i] = held[i] /\ left[i] \ {m} \subseteq left'[i]
         \/ held'[i] = {}
      /\ NoteParting(i, e, c)
  BY <1>p DEF RowWritten
<1>t. /\ left[i] \subseteq held[i] /\ held[i] \subseteq {f \in files : f.box = i}
      /\ PassOK(i) /\ MailOK
  BY DEF PInv, NInv, TypeOK, EngineTypeOK, HandOK
<1>f. ~FallsSilent(i, e, c) /\ e \notin parted
  BY <1>w DEF NoteParting
<1>o. WordOK(p, e)
  BY <1>f, <1>p, <1>w DEF PInv, TogetherOK
<1>1. c # Absent /\ \A j \in Instances : Newest(j, e)' = Newest(j, e)
  BY <1>w, SharedContent DEF Newest, Letters
<1>2. MoreToSay(p, e)' <=> MoreToSay(p, e)
  BY <1>w DEF MoreToSay
<1>3. st'[i][e].sent = c => m.body.content = c /\ \A x \in Newest(p, e) : x.body.content = c
  BY <1>f, <1>w, <1>p DEF FallsSilent
<1>4. WordOK(i, e)'
  <2>1. MoreToSay(i, e)' \/ st'[i][e].sent = c
    BY <1>1, <1>w DEF MoreToSay
  <2> QED BY <1>1, <1>3, <1>p, <2>1 DEF WordOK
<1>5. WordOK(p, e)'
  BY <1>p, <1>1, <1>2, <1>w, <1>o DEF WordOK
<1>6. ASSUME ~UnreadAbout(i, e)', st'[i][e].sent = c
      PROVE  st'[i][e].sent = st'[p][e].sent \/ MoreToSay(p, e)'
  <2>1. held'[i] = held[i] /\ left[i] \ {m} \subseteq left'[i]
    <3>1. held'[i] # {}
      BY <1>6, <1>t, <1>w DEF UnreadAbout, Unread
    <3> QED BY <1>w, <3>1
  <2>2. m \in Newest(i, e)
    <3> SUFFICES ASSUME NEW n \in Letters(i, e) PROVE n.seq <= m.seq
      BY <1>t DEF Newest, Letters
    <3>1. n.seq \in Nat /\ m.seq \in Nat
      BY <1>t DEF MailOK, MB!Letter, Letters
    <3>2. n \in files /\ n.box = i /\ n.body.row = e
      BY DEF Letters
    <3>3. n \in held'[i] \ left'[i]
      BY <1>6, <1>w, <3>2 DEF UnreadAbout, Unread
    <3>4. n = m \/ n \in held[i] \ left[i]
      BY <2>1, <3>3
    <3> QED BY <1>t, <3>1, <3>4 DEF PassOK, BatchOK
  <2>3. m.body.content = st[p][e].sent \/ MoreToSay(p, e)
    BY <1>p, <1>o, <2>2 DEF WordOK
  <2> QED BY <1>2, <1>3, <1>6, <1>w, <2>3
<1>7. UnreadAbout(i, e)' \/ MoreToSay(i, e)' \/ st'[i][e].sent = st'[p][e].sent
        \/ MoreToSay(p, e)'
  BY <1>1, <1>6, <1>w DEF MoreToSay
<1>8. AgreeOK(i, e)' /\ AgreeOK(p, e)'
  BY <1>7, <1>p DEF AgreeOK
<1> QED BY <1>4, <1>5, <1>8, <1>p

\* Sending a row: the new letter is the peer's latest, it says what is recorded or
\* the sender has more to say, and it is unread.
LEMMA SendTogether ==
  ASSUME PInv, NEW i \in Instances, NEW m \in todo[i], NEW new, RowSent(i, m, new),
         m.row \in Shared \ parted
  PROVE  \A j \in Instances : WordOK(j, m.row)' /\ AgreeOK(j, m.row)'
<1> PICK e, p : e = m.row /\ p = Peer(i)
  OBVIOUS
<1>p. p \in Instances /\ p # i /\ Peer(p) = i /\ Instances = {i, p} /\ Peer(i) = p
  BY PeerFacts, PeerOfPeer
<1>w. /\ new.box = p /\ new.body = m /\ UNCHANGED db
      /\ files' = files \cup {new} /\ \A f \in files : f.box = p => f.seq < new.seq
      /\ st'[p][e].sent = st[p][e].sent /\ new \in Unread(p)'
      /\ st'[i][e].sent = IF SendRow(i, m) THEN m.content ELSE st[i][e].sent
  BY <1>p DEF RowSent
<1>t. /\ MailOK /\ nextSeq[p] \in Nat /\ new.seq = nextSeq[p]
      /\ \A f \in files : f.seq \in Nat
  BY <1>p DEF PInv, NInv, TypeOK, MB!StoreTypeOK, MailOK, MB!Letter, RowSent
<1>o. MoreToSay(i, e) /\ WordOK(p, e)
  BY <1>p DEF PInv, PassOK, TogetherOK
<1>1. \A x \in Newest(p, e)' : x = new
  <2> SUFFICES ASSUME NEW x \in Newest(p, e)', x # new PROVE FALSE
    OBVIOUS
  <2>1. new \in Letters(p, e)'
    BY <1>w DEF Letters
  <2>2. x \in files /\ x.box = p /\ new.seq <= x.seq
    BY <1>w, <2>1 DEF Newest, Letters
  <2>3. x.seq < new.seq /\ x.seq \in Nat /\ new.seq \in Nat
    BY <1>t, <1>w, <2>2
  <2> QED BY <2>2, <2>3
<1>2. WordOK(i, e)'
  <2>1. ~SendRow(i, m) => MoreToSay(i, e)'
    BY <1>o, <1>w DEF MoreToSay
  <2> QED BY <1>1, <1>p, <1>w, <2>1 DEF WordOK
<1>3. WordOK(p, e)'
  <2>1. Newest(i, e)' = Newest(i, e)
    BY <1>p, <1>w DEF Newest, Letters
  <2>2. MoreToSay(p, e)' <=> MoreToSay(p, e)
    BY <1>w DEF MoreToSay
  <2> QED BY <1>p, <1>o, <1>w, <2>1, <2>2 DEF WordOK
<1>4. UnreadAbout(p, e)'
  BY <1>w DEF UnreadAbout
<1>5. AgreeOK(i, e)' /\ AgreeOK(p, e)'
  BY <1>4, <1>p DEF AgreeOK
<1> QED BY <1>2, <1>3, <1>5, <1>p

\* Every step keeps the last word and the agreement of the rows that have not parted.
LEMMA TogetherStep == PInv /\ [Next]_vars => TogetherOK'
<1> SUFFICES ASSUME PInv, [Next]_vars, NEW e \in Shared \ parted'
             PROVE  \A j \in Instances : WordOK(j, e)' /\ AgreeOK(j, e)'
  BY DEF TogetherOK
<1>o. e \notin parted => \A j \in Instances : WordOK(j, e) /\ AgreeOK(j, e)
  BY DEF PInv, TogetherOK
<1>1. CASE Still
  <2>1. \A j \in Instances : /\ st'[j][e].sent = st[j][e].sent
                             /\ MoreToSay(j, e) => MoreToSay(j, e)'
                             /\ Newest(j, e)' \subseteq Newest(j, e)
    BY <1>1 DEF Still, MoreToSay
  <2>2. \A j \in Instances : UnreadAbout(j, e) => UnreadAbout(j, e)'
    BY <1>1, SharedContent DEF Still, UnreadAbout
  <2>3. e \notin parted
    BY <1>1 DEF Still
  <2> QED BY <1>o, <2>1, <2>2, <2>3, TogetherFrame
<1>2. ASSUME NEW i \in Instances, UserStep(i)
      PROVE  \A j \in Instances : WordOK(j, e)' /\ AgreeOK(j, e)'
  <2>1. UNCHANGED <<st, files, held, left, parted>>
    BY <1>2 DEF UserStep, SetTitle, SetStatus, SetMeta, AppendBody, RewriteBody, DeleteItem,
                CreateItem, CreateNote, EditProject, May, engineVars, storeVars
  <2>2. \A j \in Instances : MoreToSay(j, e) => MoreToSay(j, e)'
    BY <1>2, EditToSay
  <2>3. \A j \in Instances : /\ st'[j][e].sent = st[j][e].sent
                             /\ Newest(j, e)' \subseteq Newest(j, e)
                             /\ UnreadAbout(j, e) => UnreadAbout(j, e)'
    BY <2>1 DEF Newest, Letters, UnreadAbout, Unread
  <2> QED BY <1>o, <2>1, <2>2, <2>3, TogetherFrame
<1>3. ASSUME NEW i \in Instances, NEW m \in left[i], NEW c, RowWritten(i, m, c)
      PROVE  \A j \in Instances : WordOK(j, e)' /\ AgreeOK(j, e)'
  <2>1. CASE e = m.body.row
    BY <1>3, <2>1, WriteTogether
  <2>2. CASE e # m.body.row
    <3>1. \A j \in Instances : /\ st'[j][e].sent = st[j][e].sent
                               /\ MoreToSay(j, e) => MoreToSay(j, e)'
      BY <1>3, <2>2 DEF RowWritten, MoreToSay
    <3>2. \A j \in Instances : Newest(j, e)' \subseteq Newest(j, e)
      BY <1>3 DEF RowWritten, Newest, Letters
    <3>3. \A j \in Instances : \A f \in Unread(j) : f # m => f \in Unread(j)'
      BY <1>3 DEF RowWritten, Unread
    <3>4. \A j \in Instances : UnreadAbout(j, e) => UnreadAbout(j, e)'
      BY <2>2, <3>3 DEF UnreadAbout
    <3>5. e \notin parted
      BY <1>3 DEF RowWritten, NoteParting
    <3> QED BY <1>o, <3>1, <3>2, <3>4, <3>5, TogetherFrame
  <2> QED BY <2>1, <2>2
<1>4. ASSUME NEW i \in Instances, NEW m \in todo[i], NEW new, RowSent(i, m, new)
      PROVE  \A j \in Instances : WordOK(j, e)' /\ AgreeOK(j, e)'
  <2>1. e \notin parted
    BY <1>4 DEF RowSent
  <2>2. CASE e = m.row
    BY <1>4, <2>1, <2>2, SendTogether
  <2>3. CASE e # m.row
    <3>1. \A j \in Instances : /\ st'[j][e].sent = st[j][e].sent
                               /\ MoreToSay(j, e) => MoreToSay(j, e)'
                               /\ UnreadAbout(j, e) => UnreadAbout(j, e)'
      BY <1>4, <2>3 DEF RowSent, MoreToSay, UnreadAbout
    <3>2. \A j \in Instances : Newest(j, e)' \subseteq Newest(j, e)
      BY <1>4, <2>3 DEF RowSent, Newest, Letters
    <3> QED BY <1>o, <2>1, <3>1, <3>2, TogetherFrame
  <2> QED BY <2>2, <2>3
<1> QED BY <1>1, <1>2, <1>3, <1>4, FourKinds

----------------------------------------------------------------------------
(* A pass reads its batch in order and pushes a row once. *)

\* The engine that a step does not move stays as it is.
LEMMA BatchFrame ==
  ASSUME NEW j \in Instances, BatchOK(j), at'[j] = at[j], held'[j] = held[j], left'[j] = left[j],
         work'[j] = work[j], todo'[j] \subseteq todo[j]
  PROVE  BatchOK(j)'
BY DEF BatchOK, IsNext

\* So is the one that ends its pass.
LEMMA BatchEnds ==
  ASSUME EngineTypeOK, NEW i \in Instances, Abort(i), NEW j \in Instances, BatchOK(j)
  PROVE  BatchOK(j)'
<1>1. CASE j = i
  BY <1>1, AbortHand DEF BatchOK
<1>2. CASE j # i
  <2>1. work'[j] = work[j]
    BY <1>2 DEF Abort, EngineTypeOK
  <2> QED BY <1>2, <2>1, AbortHand, BatchFrame
<1> QED BY <1>1, <1>2

\* A list of what to push has each row once.
LEMMA UnsentOnce ==
  ASSUME NEW i, NEW R
  PROVE  \A l, m \in Unsent(i, R) : l.row = m.row => l = m
BY DEF Unsent

\* A letter is applied: it was the first of those left.
LEMMA BatchShrinks ==
  ASSUME EngineTypeOK, MailOK, NEW i \in Instances, HandOK(i), BatchOK(i),
         at[i] \in {"apply", "write"}, at'[i] = "apply", NEW m \in left[i], IsNext(i, m),
         held'[i] = held[i], left'[i] = left[i] \ {m}, todo'[i] = todo[i]
  PROVE  BatchOK(i)'
<1>1. left[i] \subseteq held[i] /\ \A f \in left[i] : f \in files /\ f.box = i /\ f.seq \in Nat
  BY DEF EngineTypeOK, HandOK, MailOK, MB!Letter
<1>2. \A l \in left[i] \ {m} : m.seq < l.seq
  BY <1>1 DEF MailOK, IsNext
<1>3. \A f \in held'[i] \ left'[i], l \in left'[i] : f.seq < l.seq
  BY <1>2 DEF BatchOK
<1> QED BY <1>3 DEF BatchOK

\* Every step keeps the order of the batches and of the pushes.
LEMMA BatchStep ==
  ASSUME NInv, \A j \in Instances : BatchOK(j), [Next]_vars
  PROVE  \A j \in Instances : BatchOK(j)'
<1>t. EngineTypeOK /\ MailOK /\ \A j \in Instances : HandOK(j)
  BY DEF NInv, TypeOK
<1>h. \A j \in Instances : left[j] \subseteq held[j]
  BY <1>t DEF EngineTypeOK
<1>o. ASSUME NEW i \in Instances, NEW j \in Instances, j # i,
             at'[j] = at[j], held'[j] = held[j], left'[j] = left[j],
             work'[j] = work[j], todo'[j] = todo[j]
      PROVE  BatchOK(j)'
  BY <1>o, BatchFrame
<1>1. ASSUME NEW i \in Instances, StartPass(i) PROVE \A j \in Instances : BatchOK(j)'
  <2>1. /\ held'[i] = left'[i]
        /\ \/ at'[i] = "project" /\ todo'[i] = Unsent(i, {Project})
           \/ at'[i] = "apply" /\ todo'[i] = {}
    BY <1>1, <1>t DEF StartPass, List, EngineTypeOK, BatchOK
  <2>2. BatchOK(i)'
    BY <2>1, UnsentOnce DEF BatchOK
  <2>3. \A j \in Instances : j # i =>
          /\ at'[j] = at[j] /\ held'[j] = held[j] /\ left'[j] = left[j]
          /\ work'[j] = work[j] /\ todo'[j] = todo[j]
    BY <1>1, <1>t DEF StartPass, List, EngineTypeOK
  <2> QED BY <1>o, <2>2, <2>3
<1>2. ASSUME NEW i \in Instances, NEW m \in left[i], ReadItem(i, m)
      PROVE  \A j \in Instances : BatchOK(j)'
  <2>1. /\ IsNext(i, m) /\ at[i] = "apply" /\ UNCHANGED <<held, left, todo>>
        /\ at'[i] = "write" /\ work'[i].row = m.body.row
    BY <1>2, <1>t DEF ReadItem, Current, EngineTypeOK
  <2>2. IsNext(i, m)'
    BY <2>1 DEF IsNext
  <2>3. BatchOK(i)'
    BY <2>1, <2>2 DEF BatchOK
  <2>4. \A j \in Instances : j # i =>
          /\ at'[j] = at[j] /\ held'[j] = held[j] /\ left'[j] = left[j]
          /\ work'[j] = work[j] /\ todo'[j] = todo[j]
    BY <1>2, <1>t DEF ReadItem, EngineTypeOK
  <2> QED BY <1>o, <2>3, <2>4
<1>3. ASSUME NEW i \in Instances, NEW m \in left[i], ApplyNote(i, m) \/ ApplyProject(i, m)
      PROVE  \A j \in Instances : BatchOK(j)'
  <2>1. /\ IsNext(i, m) /\ at[i] = "apply" /\ at'[i] = "apply" /\ held'[i] = held[i]
        /\ left'[i] = left[i] \ {m} /\ todo'[i] = todo[i]
    BY <1>3, <1>t DEF ApplyNote, ApplyProject, Current, EngineTypeOK
  <2>2. BatchOK(i)'
    BY <1>t, <2>1, BatchShrinks
  <2>3. \A j \in Instances : j # i =>
          /\ at'[j] = at[j] /\ held'[j] = held[j] /\ left'[j] = left[j]
          /\ work'[j] = work[j] /\ todo'[j] = todo[j]
    BY <1>3, <1>t DEF ApplyNote, ApplyProject, EngineTypeOK
  <2> QED BY <1>o, <2>2, <2>3
<1>4. ASSUME NEW i \in Instances, WriteItem(i) PROVE \A j \in Instances : BatchOK(j)'
  <2>1. /\ at[i] = "write" /\ at'[i] = "apply" /\ held'[i] = held[i] /\ todo'[i] = todo[i]
        /\ left'[i] = {l \in left[i] : \E n \in left[i] : n.seq < l.seq}
    BY <1>4, <1>t DEF WriteItem, EngineTypeOK
  <2>2. PICK m \in left[i] : IsNext(i, m)
    BY <2>1 DEF BatchOK
  <2>3. left'[i] = left[i] \ {m}
    BY <1>h, <1>t, <2>1, <2>2, RestOfBatch
  <2>4. BatchOK(i)'
    BY <1>t, <2>1, <2>2, <2>3, BatchShrinks
  <2>5. \A j \in Instances : j # i =>
          /\ at'[j] = at[j] /\ held'[j] = held[j] /\ left'[j] = left[j]
          /\ work'[j] = work[j] /\ todo'[j] = todo[j]
    BY <1>4, <1>t DEF WriteItem, EngineTypeOK
  <2> QED BY <1>o, <2>4, <2>5
<1>5. ASSUME NEW i \in Instances, AckBatch(i) \/ ListItems(i) \/ ListActivity(i) \/ EndPass(i)
      PROVE  \A j \in Instances : BatchOK(j)'
  <2>1. /\ held'[i] = {} \/ held'[i] = held[i]
        /\ left'[i] = left[i]
        /\ \/ at'[i] \in {"project", "items", "activity"} /\ \E R : todo'[i] = Unsent(i, R)
           \/ at'[i] = "idle" /\ todo'[i] = {}
    BY <1>5, <1>t DEF AckBatch, ListItems, ListActivity, EndPass, Stage, List, EngineTypeOK
  <2>2. BatchOK(i)'
    BY <2>1, UnsentOnce DEF BatchOK
  <2>3. \A j \in Instances : j # i =>
          /\ at'[j] = at[j] /\ held'[j] = held[j] /\ left'[j] = left[j]
          /\ work'[j] = work[j] /\ todo'[j] = todo[j]
    BY <1>5, <1>t DEF AckBatch, ListItems, ListActivity, EndPass, List, EngineTypeOK
  <2> QED BY <1>o, <2>2, <2>3
<1>6. ASSUME NEW i \in Instances, CutShort(i) \/ \E m \in todo[i] : SendFull(i, m)
      PROVE  \A j \in Instances : BatchOK(j)'
  <2>1. Abort(i)
    BY <1>6 DEF CutShort, AckUnanswered, AbortPull, WriteTorn, SendUnanswered, SendRefused,
                SendFull
  <2> QED BY <1>t, <2>1, BatchEnds
<1>7. ASSUME NEW i \in Instances, NEW m \in todo[i], SendRow(i, m)
      PROVE  \A j \in Instances : BatchOK(j)'
  <2>1. UNCHANGED <<at, held, left, work>> /\ \A j \in Instances : todo'[j] \subseteq todo[j]
    BY <1>7, <1>t DEF SendRow, EngineTypeOK
  <2> QED BY <2>1, BatchFrame
<1>8. ASSUME \/ \E i \in Instances : UserStep(i)
             \/ HostRestarts \/ (\E l \in leases : Expire(l)) \/ UNCHANGED vars
      PROVE  \A j \in Instances : BatchOK(j)'
  <2>1. ASSUME NEW i \in Instances, UserStep(i) PROVE UNCHANGED engineVars
    BY <2>1 DEF UserStep, SetTitle, SetStatus, SetMeta, AppendBody, RewriteBody, DeleteItem,
                CreateItem, CreateNote, EditProject, May
  <2>2. UNCHANGED engineVars
    BY <1>8, <2>1 DEF HostRestarts, Expire, vars
  <2> QED BY <2>2, BatchFrame DEF engineVars
<1> QED BY <1>1, <1>2, <1>3, <1>4, <1>5, <1>6, <1>7, <1>8 DEF Next, Pass, Pull, Push

\* What is on a list to push is still to be said when its turn comes.
LEMMA ListedStep ==
  ASSUME PInv, [Next]_vars, NEW j \in Instances, NEW l \in todo'[j], l.row \in Shared
  PROVE  MoreToSay(j, l.row)'
<1>t. \A i \in Instances : PassOK(i)
  BY DEF PInv
<1>1. CASE Still
  <2>1. l \in Unsent(j, Rows) => MoreToSay(j, l.row)
    BY DEF Unsent, MoreToSay
  <2>2. MoreToSay(j, l.row)
    BY <1>1, <1>t, <2>1 DEF Still, PassOK
  <2> QED BY <1>1, <2>2 DEF Still, MoreToSay
<1>2. ASSUME NEW i \in Instances, UserStep(i) PROVE MoreToSay(j, l.row)'
  <2>1. todo' = todo
    BY <1>2 DEF UserStep, SetTitle, SetStatus, SetMeta, AppendBody, RewriteBody, DeleteItem,
                CreateItem, CreateNote, EditProject, May, engineVars
  <2> QED BY <1>2, <1>t, <2>1, EditToSay DEF PassOK
<1>3. ASSUME NEW i \in Instances, NEW m \in left[i], NEW c, RowWritten(i, m, c)
      PROVE  MoreToSay(j, l.row)'
  <2>1. j # i /\ l \in todo[j]
    BY <1>3 DEF RowWritten
  <2> QED BY <1>3, <1>t, <2>1 DEF RowWritten, PassOK, MoreToSay
<1>4. ASSUME NEW i \in Instances, NEW m \in todo[i], NEW new, RowSent(i, m, new)
      PROVE  MoreToSay(j, l.row)'
  <2>1. l \in todo[j] /\ MoreToSay(j, l.row)
    BY <1>4, <1>t DEF RowSent, PassOK, BatchOK
  <2>2. j = i => SendRow(i, m) /\ l # m /\ l.row # m.row
    BY <1>4, <1>t, <2>1 DEF RowSent, PassOK, BatchOK
  <2> QED BY <1>4, <2>1, <2>2 DEF RowSent, MoreToSay
<1> QED BY <1>1, <1>2, <1>3, <1>4, FourKinds

\* Neither side has said anything, and the sharer will.
LEMMA InitPInv == Init => PInv
<1> SUFFICES ASSUME Init PROVE PInv
  OBVIOUS
<1>1. \A i \in Instances, e \in Shared : st[i][e].sent = NoHash /\ e \in Rows
  BY SharedContent DEF Init
<1>2. /\ \A i \in Instances : at[i] = "idle" /\ held[i] = {} /\ left[i] = {} /\ todo[i] = {}
      /\ files = {} /\ edits = 0
  BY DEF Init
<1>3. ASSUME NEW i \in Instances, NEW e \in Shared, db[i][e] # Absent PROVE Clean(e, db[i][e])
  <2>1. \/ e = Project /\ db[i][e].text \in {0, None}
        \/ e \in Items /\ db[i][e] = FirstVersion
    BY <1>1, <1>3 DEF Init, Shared
  <2>2. Project \notin Items
    BY SyncAssumption
  <2>3. MarksOf(e, db[i][e]) \subseteq {0, None}
    BY <2>1, <2>2 DEF MarksOf, FirstVersion
  <2> QED BY <1>2, <2>3 DEF Clean, MarksSoFar
<1>4. MarksOK
  BY <1>1, <1>2, <1>3 DEF MarksOK
<1>5. AbsentOK /\ \A i \in Instances : PassOK(i)
  BY <1>1, <1>2 DEF AbsentOK, PassOK, BatchOK
<1>6. TogetherOK
  BY <1>1, <1>2, PeerFacts DEF TogetherOK, WordOK, AgreeOK, Newest, Letters
<1> QED BY <1>4, <1>5, <1>6, InitNInv DEF PInv

\* Every step keeps the invariant.
LEMMA PInvStep == PInv /\ [Next]_vars => PInv'
<1> SUFFICES ASSUME PInv, [Next]_vars PROVE PInv'
  OBVIOUS
<1>1. NInv'
  BY NInvStep DEF PInv
<1>2. \A j \in Instances : PassOK(j)'
  <2>1. \A j \in Instances : BatchOK(j)
    BY DEF PInv, PassOK
  <2>2. \A j \in Instances : BatchOK(j)'
    BY <2>1, BatchStep DEF PInv
  <2> QED BY <2>2, ListedStep DEF PassOK
<1> QED BY <1>1, <1>2, MarksStep, AbsentStep, TogetherStep DEF PInv

\* Two silent instances have the same rows, but for those that parted.
LEMMA SilentTogether == PInv => InStepUnlessParted
<1> SUFFICES ASSUME PInv, Quiet, NEW i \in Instances, NEW j \in Instances,
                    NEW e \in ({Project} \cup Items) \ parted
             PROVE  db[i][e] = db[j][e]
  BY DEF InStepUnlessParted
<1>1. e \in Shared \ parted /\ e \in Rows
  BY SharedContent DEF Shared
<1>2. \A k \in Instances : ~UnreadAbout(k, e)
  BY DEF Quiet, UnreadAbout, Unread
<1>3. \A k \in Instances : ~MoreToSay(k, e)
  <2> SUFFICES ASSUME NEW k \in Instances, MoreToSay(k, e) PROVE FALSE
    OBVIOUS
  <2>1. [row |-> e, content |-> db[k][e]] \in Unsent(k, Rows)
    BY <1>1 DEF Unsent, MoreToSay
  <2> QED BY <2>1 DEF Quiet
<1>4. \A k \in Instances : st[k][e].sent = st[Peer(k)][e].sent
  BY <1>1, <1>2, <1>3, PeerFacts DEF PInv, TogetherOK, AgreeOK
<1>5. \A k \in Instances : \/ db[k][e] = Absent /\ st[k][e].sent = NoHash
                           \/ db[k][e] # Absent /\ st[k][e].sent = db[k][e]
                                /\ db[k][e] # NoHash
  <2>1. \A k \in Instances : db[k][e] # Absent => db[k][e] # NoHash
    BY <1>1, SharedContent DEF PInv, NInv, TypeOK, DbTypeOK
  <2> QED BY <1>1, <1>3, <2>1 DEF MoreToSay, PInv, AbsentOK
<1>6. \A k \in Instances : db[k][e] = db[Peer(k)][e]
  BY <1>4, <1>5, PeerFacts
<1> QED BY <1>6, PeerOfPeer

\* "both instances run this independently and must reach byte-identical results,
\* or they settle into permanently different states and never speak again"
\* (engine.go:227-230), for any edits and any faults: once both are silent their
\* copies of a row are the same, unless an engine fell silent on something else
\* than what it had been told or had last said, or mail about the row was read out
\* of order.
THEOREM OnlyPartingsDiffer == Spec => []InStepUnlessParted
BY InitPInv, PInvStep, SilentTogether, PTL DEF Spec

\* In a history without such an event the two instances end up in step.
THEOREM InStepWithoutPartings == Spec => [](parted = {} => InStep)
<1>1. InStepUnlessParted /\ parted = {} => InStep
  BY DEF InStepUnlessParted, InStep, SameItem
<1>2. InStepUnlessParted => (parted = {} => InStep)
  BY <1>1
<1> QED BY <1>2, OnlyPartingsDiffer, PTL

============================================================================
