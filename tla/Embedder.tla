------------------------------ MODULE Embedder ------------------------------
(***************************************************************************)
(* The embedding worker (service/embedder.go): it lists a batch of rows    *)
(* without a vector, sends their texts to the embeddings API in one call,  *)
(* and saves the vectors row by row.  Between the listing and the save the *)
(* API call takes its time and the rows can be edited, so what is saved is *)
(* the vector of a copy.  A rejected batch is sent again row by row, and   *)
(* the row the API rejects is parked; any other failure ends the drain of  *)
(* this kind of row until the next tick.  A rejection is any 4xx but 429,  *)
(* so a refused key counts as one.                                         *)
(*                                                                         *)
(* A text is <<row, edit number>>; the vector of a text is that number.    *)
(* Items live in their own table and can be edited, activity cannot.  The  *)
(* order of a listing (newest first) is left open.                         *)
(***************************************************************************)
EXTENDS Naturals, FiniteSets

CONSTANTS
  ItemRows, ActivityRows,
  Rejected,    \* texts the API answers with a 4xx other than 429, whatever the key
  Unusable,    \* texts whose vector has the wrong dimension
  EmbedBatch,  \* embedBatchSize, 50 in the code
  MaxEdits,    \* bound: edits of a row
  MaxOutages   \* bound: failures of the API, the database or the process

EmbedRows == ItemRows \cup ActivityRows
Text == EmbedRows \X (0..MaxEdits)
NoVector == MaxEdits + 1

ASSUME EmbedAssumption ==
  /\ ItemRows \cap ActivityRows = {}
  /\ EmbedBatch \in Nat \ {0} /\ MaxEdits \in Nat /\ MaxOutages \in Nat
  /\ Rejected \subseteq Text /\ Unusable \subseteq Text

VARIABLES
  edits,      \* of each row: its current text
  vector,     \* the text whose vector is stored, or NoVector for NULL
  failedMark, \* rows with the model marker 'failed'
  deleted,    \* soft-deleted items, purged activity
  worker,     \* [at, kind, todo, short]: todo holds the copies not yet saved
  raced,      \* history: rows edited while a copy of them was in flight
  denied,     \* history: rows parked because the key was refused
  outages

embedVars == <<edits, vector, failedMark, deleted, worker, raced, denied, outages>>

Worker == [at : {"wait", "list", "call", "save", "each", "denied"}, kind : {"items", "activity"},
           todo : SUBSET Text, short : BOOLEAN]

EmbedTypeOK ==
  /\ edits \in [EmbedRows -> 0..MaxEdits]
  /\ vector \in [EmbedRows -> 0..NoVector]
  /\ failedMark \subseteq EmbedRows
  /\ deleted \subseteq EmbedRows
  /\ worker \in Worker
  /\ raced \subseteq ItemRows /\ denied \subseteq EmbedRows
  /\ outages \in 0..MaxOutages

Waiting == [at |-> "wait", kind |-> "items", todo |-> {}, short |-> FALSE]

EmbedInit ==
  /\ edits = [r \in EmbedRows |-> 0]
  /\ vector = [r \in EmbedRows |-> NoVector]
  /\ failedMark = {} /\ deleted = {} /\ raced = {} /\ denied = {}
  /\ worker = Waiting
  /\ outages = 0

rowVars == <<edits, vector, failedMark, deleted, raced, denied>>

\* ListItemsNeedingEmbedding
ItemsNeeding ==
  {r \in ItemRows : r \notin deleted /\ vector[r] = NoVector /\ r \notin failedMark}

\* ListActivityNeedingEmbedding: no row of either sort in activity_embeddings
ActivityNeeding ==
  {r \in ActivityRows : r \notin deleted /\ vector[r] = NoVector /\ r \notin failedMark}

Backlog(kind) == IF kind = "items" THEN ItemsNeeding ELSE ActivityNeeding

\* drainBacklog returns: activity follows items, then the next tick is awaited.
NextKind ==
  IF worker.kind = "items"
  THEN [Waiting EXCEPT !.at = "list", !.kind = "activity"]
  ELSE Waiting

EmbedTick ==
  /\ worker.at = "wait"
  /\ worker' = [Waiting EXCEPT !.at = "list"]
  /\ UNCHANGED <<rowVars, outages>>

ListBatch ==
  /\ worker.at = "list"
  /\ LET need == Backlog(worker.kind) IN
     \/ need = {} /\ worker' = NextKind
     \/ \E rows \in (SUBSET need) \ {{}} :
          /\ Cardinality(rows) <= EmbedBatch
          /\ rows = need \/ Cardinality(rows) = EmbedBatch
          /\ worker' = [worker EXCEPT !.at = "call",
                          !.todo = {<<r, edits[r]>> : r \in rows},
                          !.short = Cardinality(rows) < EmbedBatch]
  /\ UNCHANGED <<rowVars, outages>>

\* Embed, once for the batch: IsPoison sends it on to the rows one by one.
EmbedCall ==
  /\ worker.at = "call"
  /\ worker' = [worker EXCEPT !.at = IF worker.todo \cap Rejected = {} THEN "save" ELSE "each"]
  /\ UNCHANGED <<rowVars, outages>>

\* The API answers 401 or 403, to the batch or to one of its rows: to IsPoison a
\* refused key is no different from a refused text.
KeyRefused ==
  /\ worker.at \in {"call", "each"} /\ outages < MaxOutages
  /\ outages' = outages + 1
  /\ worker' = [worker EXCEPT !.at = "denied"]
  /\ UNCHANGED rowVars

\* What is left of the batch: another one is listed unless this one was short.
Handled(t) ==
  worker' = IF worker.todo # {t} THEN [worker EXCEPT !.todo = @ \ {t}]
            ELSE IF worker.short THEN NextKind
            ELSE [worker EXCEPT !.at = "list", !.todo = {}]

RowByRow == worker.at \in {"each", "denied"}

\* SetItemEmbedding and MarkItemEmbeddingFailed are guarded by the NULL alone;
\* InsertActivityEmbedding is an upsert.
SetEmbedding(r, n) ==
  IF r \in ActivityRows \/ vector[r] = NoVector
  THEN /\ vector' = [vector EXCEPT ![r] = n]
       /\ failedMark' = failedMark \ {r}
  ELSE UNCHANGED <<vector, failedMark>>

MarkFailed(r) ==
  /\ failedMark' = IF vector[r] = NoVector THEN failedMark \cup {r} ELSE failedMark
  /\ UNCHANGED vector

\* saveVec: an unusable vector parks the row.
SaveVec(t) ==
  /\ worker.at = "save" \/ (RowByRow /\ t \notin Rejected)
  /\ t \in worker.todo
  /\ ~(t[1] \in ActivityRows /\ t[1] \in deleted)
  /\ IF t \in Unusable THEN MarkFailed(t[1]) ELSE SetEmbedding(t[1], t[2])
  /\ Handled(t)
  /\ UNCHANGED <<edits, deleted, raced, denied, outages>>

\* Mutant: the rejected row is skipped and not marked.
SkipRow(t) ==
  /\ worker.at = "each" /\ t \in worker.todo \cap Rejected
  /\ ~(t[1] \in ActivityRows /\ t[1] \in deleted)
  /\ Handled(t)
  /\ UNCHANGED <<edits, vector, failedMark, deleted, raced, denied, outages>>

\* embedRowsIndividually: the row the API rejects is parked, the rest go on.  A
\* call whose key is refused rejects any row; the key can be good again by the next.
ParkRow(t) ==
  /\ RowByRow /\ t \in worker.todo
  /\ t \in Rejected \/ worker.at = "denied"
  /\ ~(t[1] \in ActivityRows /\ t[1] \in deleted)
  /\ MarkFailed(t[1])
  /\ Handled(t)
  /\ denied' = IF t \in Rejected THEN denied ELSE denied \cup {t[1]}
  /\ UNCHANGED <<edits, deleted, raced, outages>>

\* The vector of an activity that was purged meanwhile has nothing to refer to.
SaveOrphan(t) ==
  /\ worker.at = "save" \/ RowByRow
  /\ t \in worker.todo /\ t[1] \in ActivityRows \cap deleted
  /\ worker' = NextKind
  /\ UNCHANGED <<rowVars, outages>>

\* A listing, a call or a statement fails: the drain ends, what was saved stays.
Outage ==
  /\ worker.at # "wait" /\ outages < MaxOutages
  /\ outages' = outages + 1
  /\ worker' = NextKind
  /\ UNCHANGED rowVars

\* The process stops with a batch in hand and starts again.
StopEmbedder ==
  /\ worker.at # "wait" /\ outages < MaxOutages
  /\ outages' = outages + 1
  /\ worker' = Waiting
  /\ UNCHANGED rowVars

\* Mutant: an edit resets the marker and keeps the vector.
ResetMarker(r) == failedMark' = failedMark \ {r} /\ UNCHANGED vector

\* UpdateItem with a title or body: the vector and the marker are reset.
ResetEmbedding(r) ==
  /\ vector' = [vector EXCEPT ![r] = NoVector]
  /\ failedMark' = failedMark \ {r}

EditText(r) ==
  /\ r \in ItemRows \ deleted /\ edits[r] < MaxEdits
  /\ edits' = [edits EXCEPT ![r] = @ + 1]
  /\ ResetEmbedding(r)
  /\ raced' = IF \E t \in worker.todo : t[1] = r THEN raced \cup {r} ELSE raced \ {r}
  /\ denied' = denied \ {r}
  /\ UNCHANGED <<deleted, worker, outages>>

DeleteRow(r) ==
  /\ r \notin deleted
  /\ deleted' = deleted \cup {r}
  /\ UNCHANGED <<edits, vector, failedMark, worker, raced, denied, outages>>

WorkerStep ==
  \/ EmbedTick \/ ListBatch \/ EmbedCall
  \/ \E t \in worker.todo : SaveVec(t) \/ ParkRow(t) \/ SaveOrphan(t)

EmbedNext ==
  \/ WorkerStep \/ KeyRefused \/ Outage \/ StopEmbedder
  \/ \E r \in EmbedRows : EditText(r) \/ DeleteRow(r)

EmbedSpec == EmbedInit /\ [][EmbedNext]_embedVars /\ WF_embedVars(WorkerStep)

-----------------------------------------------------------------------------
\* The stored vector is the vector of the current text, except for an item that
\* was edited between the listing and the save: the guard `embedding IS NULL'
\* does not notice that the text is another one.
VectorCurrent ==
  \A r \in EmbedRows : vector[r] \in {NoVector, edits[r]} \/ r \in raced

\* A row is given up only for a text the API refuses or answers with an unusable
\* vector, because its text changed while the old one was being refused, or, in
\* spite of "the input itself was rejected" (embed.go:109), for a refused key.
ParkedIsPoison ==
  \A r \in failedMark :
    <<r, edits[r]>> \in Rejected \cup Unusable \/ r \in raced \cup denied

\* What the worker leaves in a row belongs to the row's current text.
EmbeddingSound == VectorCurrent /\ ParkedIsPoison

\* One poison row does not stall the others, and none is retried for ever:
\* once edits and failures end, every row has a vector or is parked.
Settled(r) == vector[r] # NoVector \/ r \in failedMark \/ r \in deleted
BacklogDrains == \A r \in EmbedRows : []<>Settled(r)
=============================================================================
