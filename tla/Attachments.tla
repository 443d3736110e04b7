---------------------------- MODULE Attachments ----------------------------
(***************************************************************************)
(* Files attached to items, and the daily sweep (service/attachments.go,   *)
(* api/attachments.go, service/maintenance.go, store/attachments.sql.go,   *)
(* store/maintenance.sql.go).  The bytes are in the object store and the   *)
(* rows in Postgres: no transaction spans the two, so every operation is a *)
(* sequence of steps between which the others run and the process may end. *)
(* The rules it keeps: the object is written before its row and removed    *)
(* after it, except by the sweep, which must remove the objects of an item *)
(* before the purge that would make it forget their keys.                  *)
(***************************************************************************)
EXTENDS Naturals, FiniteSets

CONSTANTS
  Uploaders,        \* requests in flight
  Bearers,         \* the items files are attached to
  Files,            \* object keys: random, hence never used twice
  NoItem,
  MaxPerItem,       \* MaxAttachmentsPerItem
  MaxParts,         \* maxAttachmentFiles
  MaxSweeps         \* bound: sweeps in a behaviour

ASSUME AttachmentsAssumption ==
  /\ NoItem \notin Bearers
  /\ IsFiniteSet(Uploaders) /\ Uploaders # {} /\ IsFiniteSet(Files)
  /\ MaxPerItem \in Nat /\ MaxParts \in Nat \ {0} /\ MaxSweeps \in Nat

\* The object being stored is one of `new', and `left' parts of the body remain.
Upload == [at : {"idle", "count", "put", "row", "undo"}, item : Bearers \cup {NoItem},
           new : SUBSET Files, left : 0..MaxParts]

Sweep == [at : {"idle", "list", "blobs", "purge"}, due : SUBSET Bearers, keys : SUBSET Files]

VARIABLES
  life,        \* of each item: "live", "deleted", "due" (deleted 30 days ago), "gone"
  rowOf,       \* the attachments table: the item of each file, NoItem without a row
  stored,      \* the object store
  used,        \* keys that were ever generated
  sending,     \* the upload each request is working on
  doomed,      \* objects whose row a request has just deleted
  sweep,       \* the maintenance goroutine
  sweeps,      \* number of sweeps
  uncertain,   \* history: files whose commit went through and was reported failed
  begun,       \* history: items some sweep found due
  revived      \* history: items a peer restored after that

attachVars == <<life, rowOf, stored, used, sending, doomed, sweep, sweeps, uncertain, begun, revived>>

AttachTypeOK ==
  /\ life \in [Bearers -> {"live", "deleted", "due", "gone"}]
  /\ rowOf \in [Files -> Bearers \cup {NoItem}]
  /\ stored \subseteq used /\ used \subseteq Files /\ doomed \subseteq Files
  /\ sending \in [Uploaders -> Upload]
  /\ sweep \in Sweep /\ sweeps \in 0..MaxSweeps
  /\ uncertain \subseteq Files /\ begun \subseteq Bearers /\ revived \subseteq begun

NoUpload == [at |-> "idle", item |-> NoItem, new |-> {}, left |-> 0]
NoSweep == [at |-> "idle", due |-> {}, keys |-> {}]

AttachInit ==
  /\ life = [i \in Bearers |-> "live"]
  /\ rowOf = [f \in Files |-> NoItem]
  /\ stored = {} /\ used = {} /\ doomed = {} /\ uncertain = {} /\ begun = {} /\ revived = {}
  /\ sending = [u \in Uploaders |-> NoUpload]
  /\ sweep = NoSweep /\ sweeps = 0

RowsOf(i) == {f \in Files : rowOf[f] = i}

EndUpload(u) == sending' = [sending EXCEPT ![u] = NoUpload]

-----------------------------------------------------------------------------
(***************************************************************************)
(* uploadAttachments: the files of one request, one after the other.       *)
(***************************************************************************)

\* itemByIDOrRef reads the item; each part of the body is then handled alone.  A body of
\* fewer parts ends as one that is cut short (DropUpload).
BeginUpload(u, i) ==
  /\ sending[u].at = "idle" /\ life[i] = "live"
  /\ sending' = [sending EXCEPT ![u] = [at |-> "count", item |-> i, new |-> {}, left |-> MaxParts]]
  /\ UNCHANGED <<life, rowOf, stored, used, doomed, sweep, sweeps, uncertain, begun, revived>>

\* Mutant: one attachment too many.
HasRoomForOneMore(u) ==
  /\ life[sending[u].item] = "live"
  /\ Cardinality(RowsOf(sending[u].item)) <= MaxPerItem

\* AddAttachment: GetItem, then CountAttachmentsForItem.
HasRoom(u) ==
  /\ life[sending[u].item] = "live"
  /\ Cardinality(RowsOf(sending[u].item)) < MaxPerItem

CountRows(u) ==
  /\ sending[u].at = "count"
  /\ IF HasRoom(u) THEN sending' = [sending EXCEPT ![u].at = "put"] ELSE EndUpload(u)
  /\ UNCHANGED <<life, rowOf, stored, used, doomed, sweep, sweeps, uncertain, begun, revived>>

PutObject(u, f) ==
  /\ sending[u].at = "put" /\ f \notin used
  /\ used' = used \cup {f} /\ stored' = stored \cup {f}
  /\ sending' = [sending EXCEPT ![u].at = "row", ![u].new = {f}]
  /\ UNCHANGED <<life, rowOf, doomed, sweep, sweeps, uncertain, begun, revived>>

\* The next part of the body, if there is one.
NextPart(u) ==
  LET parts == sending[u].left IN
  sending' = [sending EXCEPT ![u] =
    IF parts = 1 THEN NoUpload ELSE [@ EXCEPT !.at = "count", !.new = {}, !.left = parts - 1]]

\* The transaction: the foreign key only wants the item's row to exist.
CreateAttachment(u, f) ==
  /\ sending[u].at = "row" /\ f \in sending[u].new
  /\ life[sending[u].item] # "gone"
  /\ rowOf' = [rowOf EXCEPT ![f] = sending[u].item]
  /\ NextPart(u)
  /\ UNCHANGED <<life, stored, used, doomed, sweep, sweeps, uncertain, begun, revived>>

\* The transaction fails, or commits and the connection is lost before the answer.
CreateAttachmentFails(u, f) ==
  /\ sending[u].at = "row" /\ f \in sending[u].new
  /\ sending' = [sending EXCEPT ![u].at = "undo"]
  /\ \/ UNCHANGED <<rowOf, uncertain>>
     \/ /\ life[sending[u].item] # "gone"
        /\ rowOf' = [rowOf EXCEPT ![f] = sending[u].item]
        /\ uncertain' = uncertain \cup {f}
  /\ UNCHANGED <<life, stored, used, doomed, sweep, sweeps, begun, revived>>

\* The best-effort delete of the object; the request ends with the error.
UndoPut(u, f) ==
  /\ sending[u].at = "undo" /\ f \in sending[u].new
  /\ stored' \in {stored, stored \ {f}}
  /\ EndUpload(u)
  /\ UNCHANGED <<life, rowOf, used, doomed, sweep, sweeps, uncertain, begun, revived>>

\* The process ends, or the body of the request does.
DropUpload(u) ==
  /\ sending[u].at # "idle"
  /\ EndUpload(u)
  /\ UNCHANGED <<life, rowOf, stored, used, doomed, sweep, sweeps, uncertain, begun, revived>>

-----------------------------------------------------------------------------
(***************************************************************************)
(* DeleteAttachment: the row, then the object.                             *)
(***************************************************************************)

DeleteAttachment(f) ==
  /\ rowOf[f] # NoItem
  /\ rowOf' = [rowOf EXCEPT ![f] = NoItem]
  /\ doomed' = doomed \cup {f}
  /\ UNCHANGED <<life, stored, used, sending, sweep, sweeps, uncertain, begun, revived>>

\* ... which may fail, or never be reached.
DeleteObject(f) ==
  /\ f \in doomed
  /\ doomed' = doomed \ {f}
  /\ stored' \in {stored, stored \ {f}}
  /\ UNCHANGED <<life, rowOf, used, sending, sweep, sweeps, uncertain, begun, revived>>

-----------------------------------------------------------------------------
(***************************************************************************)
(* Items come and go.                                                      *)
(***************************************************************************)

SoftDelete(i) ==
  /\ life[i] = "live"
  /\ life' = [life EXCEPT ![i] = "deleted"]
  /\ UNCHANGED <<rowOf, stored, used, sending, doomed, sweep, sweeps, uncertain, begun, revived>>

MonthPasses(i) ==
  /\ life[i] = "deleted"
  /\ life' = [life EXCEPT ![i] = "due"]
  /\ UNCHANGED <<rowOf, stored, used, sending, doomed, sweep, sweeps, uncertain, begun, revived>>

\* UpsertSyncedItem overwrites deleted_at with the peer's: an edit made there
\* while the item was in this instance's bin takes it out again.
Restore(i) ==
  /\ life[i] \in {"deleted", "due"}
  /\ life' = [life EXCEPT ![i] = "live"]
  /\ revived' = revived \cup ({i} \cap begun)
  /\ UNCHANGED <<rowOf, stored, used, sending, doomed, sweep, sweeps, uncertain, begun>>

-----------------------------------------------------------------------------
(***************************************************************************)
(* runMaintenanceOnce, as far as it concerns attachments.                  *)
(***************************************************************************)

\* The cutoff is taken once, here.
BeginSweep ==
  /\ sweep.at = "idle" /\ sweeps < MaxSweeps
  /\ sweeps' = sweeps + 1
  /\ sweep' = [at |-> "list", due |-> {i \in Bearers : life[i] = "due"}, keys |-> {}]
  /\ begun' = begun \cup sweep'.due
  /\ UNCHANGED <<life, rowOf, stored, used, sending, doomed, uncertain, revived>>

Purgeable == {i \in sweep.due : life[i] = "due"}

\* Mutant: every deleted item is swept, however lately it was deleted.
ListDeletedAttachmentKeys ==
  /\ sweep.at = "list"
  /\ sweep' = [sweep EXCEPT !.at = "blobs",
                 !.keys = {f \in Files : rowOf[f] # NoItem /\ life[rowOf[f]] # "live"}]
  /\ UNCHANGED <<life, rowOf, stored, used, sending, doomed, sweeps, uncertain, begun, revived>>

ListPurgeableAttachmentKeys ==
  /\ sweep.at = "list"
  /\ sweep' = [sweep EXCEPT !.at = "blobs", !.keys = {f \in Files : rowOf[f] \in Purgeable}]
  /\ UNCHANGED <<life, rowOf, stored, used, sending, doomed, sweeps, uncertain, begun, revived>>

\* A delete that fails is logged.
SweepBlob(f) ==
  /\ sweep.at = "blobs" /\ f \in sweep.keys
  /\ stored' \in {stored, stored \ {f}}
  /\ sweep' = [sweep EXCEPT !.keys = @ \ {f}]
  /\ UNCHANGED <<life, rowOf, used, sending, doomed, sweeps, uncertain, begun, revived>>

\* A listing that fails is logged as well, and the purge follows all the same.
SkipBlobs ==
  /\ sweep.at = "list"
  /\ sweep' = [sweep EXCEPT !.at = "purge"]
  /\ UNCHANGED <<life, rowOf, stored, used, sending, doomed, sweeps, uncertain, begun, revived>>

\* PurgeSoftDeletedItems asks again which items are due; its rows go with them.
PurgeItems ==
  /\ sweep.at = "purge" \/ (sweep.at = "blobs" /\ sweep.keys = {})
  /\ life' = [i \in Bearers |-> IF i \in Purgeable THEN "gone" ELSE life[i]]
  /\ rowOf' = [f \in Files |-> IF rowOf[f] \in Purgeable THEN NoItem ELSE rowOf[f]]
  /\ sweep' = NoSweep
  /\ UNCHANGED <<stored, used, sending, doomed, sweeps, uncertain, begun, revived>>

\* The purge fails, or the process ends with blobs already deleted.
SweepStops ==
  /\ sweep.at # "idle"
  /\ sweep' = NoSweep
  /\ UNCHANGED <<life, rowOf, stored, used, sending, doomed, sweeps, uncertain, begun, revived>>

AttachNext ==
  \/ \E u \in Uploaders :
       \/ \E i \in Bearers : BeginUpload(u, i)
       \/ CountRows(u) \/ DropUpload(u)
       \/ \E f \in Files :
            PutObject(u, f) \/ CreateAttachment(u, f) \/ CreateAttachmentFails(u, f) \/ UndoPut(u, f)
  \/ \E f \in Files : DeleteAttachment(f) \/ DeleteObject(f) \/ SweepBlob(f)
  \/ \E i \in Bearers : SoftDelete(i) \/ MonthPasses(i) \/ Restore(i)
  \/ BeginSweep \/ ListPurgeableAttachmentKeys \/ SkipBlobs \/ PurgeItems \/ SweepStops

AttachSpec == AttachInit /\ [][AttachNext]_attachVars

-----------------------------------------------------------------------------
\* "A row without its object would 404 forever": the object of a live item's row
\* is there, whichever step failed and whatever overlapped, unless the commit of the
\* row was reported failed, or a sweep had begun on the item before a peer restored it.
RowsOpen ==
  \A f \in Files :
    /\ rowOf[f] # NoItem /\ life[rowOf[f]] = "live"
    /\ f \notin uncertain /\ rowOf[f] \notin revived
    => f \in stored

\* "An item can hold at most MaxAttachmentsPerItem": the count is read outside the
\* inserting transaction, so concurrent uploads exceed it, by one for each request
\* in flight beyond the first and never by more.
OverLimitByRacersOnly ==
  \A i \in Bearers :
    Cardinality(RowsOf(i)) + Cardinality({u \in Uploaders :
        sending[u].item = i /\ sending[u].at \in {"put", "row"}})
      <= MaxPerItem + Cardinality(Uploaders) - 1
=============================================================================
