------------------------------- MODULE Items -------------------------------
(***************************************************************************)
(* Creating, updating, completing and deleting items (service/service.go,  *)
(* service/features.go, and the statements of store/items.sql.go) by       *)
(* callers that overlap.  Each caller's request is a sequence of           *)
(* statements; a transaction runs under READ COMMITTED, so a row is seen   *)
(* once it is committed, and what a statement read may be out of date by   *)
(* the next one.  The row lock taken by an UPDATE is held to the commit    *)
(* that follows it: the two are one step.  A row inserted by an open       *)
(* transaction is "pending": only its owner sees it, and whoever inserts   *)
(* the same idempotency key waits for its fate.                            *)
(*                                                                         *)
(* Of an item the model keeps its idempotency key, status and version;     *)
(* `history' is the sequence of updates the row has taken, each with the   *)
(* status and version its transaction read first and the status_change     *)
(* activity it wrote.  The activity and outbox rows go with the            *)
(* transaction that writes them (WebhookOutbox.Enqueue); so do the decision *)
(* and the project summary of CompleteItem.  The second look at a key after *)
(* a lost race follows the violation at once.                              *)
(***************************************************************************)
EXTENDS Naturals, Sequences, FiniteSets

CONSTANTS
  Callers,     \* requests in flight
  ItemIds,     \* rows of the items table, 1..n
  Keys,        \* idempotency keys of one project
  NoKey,       \* a request without one: NULL
  EmptyKey,    \* the key "", which REST stores and never looks up
  Batches,     \* the key sequences create_items is called with
  Statuses,
  MaxUpdates   \* bound: updates in a behaviour, begun or committed

ASSUME ItemsAssumption ==
  /\ "none" \notin Callers
  /\ ItemIds \subseteq Nat
  /\ NoKey \notin Keys /\ EmptyKey \notin Keys /\ NoKey # EmptyKey
  /\ Batches \subseteq Seq(Keys \cup {NoKey})
  /\ {"backlog", "done"} \subseteq Statuses
  /\ MaxUpdates \in Nat

AnyKey == Keys \cup {NoKey, EmptyKey}

\* "same" is a patch without a status, version 0 one without expected_version.
Patch == Statuses \cup {"same"}

Row == [state : {"free", "pending", "live", "deleted"}, owner : Callers \cup {"none"},
        key : AnyKey, status : Statuses, version : Nat]

Update == [from : Statuses, to : Statuses, read : Nat, expected : Nat, logged : BOOLEAN]

Call == [at : {"idle", "tx", "insert", "update", "complete"}, single : BOOLEAN,
         todo : Seq(AnyKey), item : Nat, patch : Patch, expected : Nat, prev : Statuses, read : Nat]

VARIABLES
  items,     \* the items table
  call,      \* the request each caller is serving
  answered,  \* history: <<caller, key, item>>: what creations by key returned
  history    \* history: the updates each row has taken

itemsVars == <<items, call, answered, history>>

ItemsTypeOK ==
  /\ items \in [ItemIds -> Row]
  /\ call \in [Callers -> Call]
  /\ answered \subseteq Callers \X Keys \X ItemIds
  /\ history \in [ItemIds -> Seq(Update)]

FreeRow == [state |-> "free", owner |-> "none", key |-> NoKey,
            status |-> "backlog", version |-> 1]

Idle ==
  [at |-> "idle", single |-> FALSE, todo |-> <<>>, item |-> 0,
   patch |-> "same", expected |-> 0, prev |-> "backlog", read |-> 0]

ItemsInit ==
  /\ items = [i \in ItemIds |-> FreeRow]
  /\ call = [c \in Callers |-> Idle]
  /\ answered = {}
  /\ history = [i \in ItemIds |-> <<>>]

\* The request is over: answered, refused, in conflict or failed.
Reply(c) == call' = [call EXCEPT ![c] = Idle]

-----------------------------------------------------------------------------
(***************************************************************************)
(* The statements.                                                         *)
(***************************************************************************)

VisibleTo(c, i) ==
  items[i].state = "live" \/ (items[i].state = "pending" /\ items[i].owner = c)

\* WHERE idempotency_key = $2 AND deleted_at IS NULL: NULL equals nothing.
GetItemByIdempotencyKey(c, k) ==
  {i \in ItemIds : k # NoKey /\ items[i].key = k /\ VisibleTo(c, i)}

GetItem(i) == items[i].state = "live"

\* Mutant: the index does not see the rows of transactions that are open.
HoldersCommitted(k) ==
  {i \in ItemIds : k # NoKey /\ items[i].key = k /\ items[i].state \in {"live", "deleted"}}

\* The rows the unique index holds against key k.  The index is partial on the
\* key alone: a soft-deleted row keeps its key.
Holders(k) == {i \in ItemIds : k # NoKey /\ items[i].key = k /\ items[i].state # "free"}

\* Rows another open transaction inserted: the INSERT waits for their fate.
WaitsFor(c, k) ==
  {i \in Holders(k) : items[i].state = "pending" /\ items[i].owner # c}

UniqueViolation(k) == Holders(k) # {}

CreateItemRow(c, i, k) ==
  [items EXCEPT ![i] = [FreeRow EXCEPT !.state = "pending", !.owner = c, !.key = k]]

\* Mutant: the statement has no version guard.
UpdateMatchesAny(i, expected) == GetItem(i)

\* UPDATE ... WHERE id AND deleted_at IS NULL AND expected_version IS NULL OR =.
UpdateMatches(i, expected) ==
  GetItem(i) /\ (expected = 0 \/ expected = items[i].version)

UpdateItemRow(i, patch) ==
  [items EXCEPT ![i].status = IF patch = "same" THEN @ ELSE patch,
                ![i].version = @ + 1]

\* SoftDeleteItem leaves the version alone.
SoftDeleteItemRow(i) == [items EXCEPT ![i].state = "deleted"]

RolledBack(c) ==
  [i \in ItemIds |-> IF items[i].owner = c THEN FreeRow ELSE items[i]]

Committed(c) ==
  [i \in ItemIds |-> IF items[i].owner = c
                     THEN [items[i] EXCEPT !.state = "live", !.owner = "none"]
                     ELSE items[i]]

-----------------------------------------------------------------------------
(***************************************************************************)
(* CreateItem and BulkCreateItems.                                         *)
(***************************************************************************)

OpenTx(c, keys, single) ==
  call' = [call EXCEPT ![c] = [Idle EXCEPT !.at = "tx", !.todo = keys,
                                                   !.single = single]]

\* hasKey: the lookup outside the transaction answers a retry.
CreateItem(c, k) ==
  /\ call[c].at = "idle"
  /\ LET found == IF k \in Keys THEN GetItemByIdempotencyKey(c, k) ELSE {}
     IN \/ /\ found # {}
           /\ Reply(c)
           /\ answered' = answered \cup ({c} \X {k} \X found)
        \/ /\ found = {}
           /\ OpenTx(c, <<k>>, TRUE)
           /\ UNCHANGED answered
  /\ UNCHANGED <<items, history>>

BulkCreateItems(c, keys) ==
  /\ call[c].at = "idle"
  /\ OpenTx(c, keys, FALSE)
  /\ UNCHANGED <<items, answered, history>>

\* createItemTx looks the key up again, inside the transaction.
CreateItemTx(c) ==
  /\ call[c].at = "tx" /\ call[c].todo # <<>>
  /\ LET k == Head(call[c].todo)
         found == IF k \in Keys THEN GetItemByIdempotencyKey(c, k) ELSE {}
     IN IF found # {}
        THEN /\ call' = [call EXCEPT ![c].todo = Tail(@)]
             /\ answered' = answered \cup ({c} \X {k} \X {i \in found : items[i].owner # c})
        ELSE /\ call' = [call EXCEPT ![c].at = "insert"]
             /\ UNCHANGED answered
  /\ UNCHANGED <<items, history>>

Insert(c) ==
  LET k == Head(call[c].todo) IN
  /\ call[c].at = "insert"
  /\ ~UniqueViolation(k)
  /\ \E i \in ItemIds :
       /\ items[i].state = "free" /\ \A j \in 1..(i - 1) : items[j].state # "free"
       /\ items' = CreateItemRow(c, i, k)
  /\ call' = [call EXCEPT ![c].at = "tx", ![c].todo = Tail(@)]
  /\ UNCHANGED <<answered, history>>

\* Mutant: the loser does not read again what the winner stored.
LoseRaceUnread(c) ==
  /\ call[c].at = "insert"
  /\ UniqueViolation(Head(call[c].todo)) /\ WaitsFor(c, Head(call[c].todo)) = {}
  /\ items' = RolledBack(c)
  /\ Reply(c)
  /\ UNCHANGED <<answered, history>>

\* A unique violation rolls the transaction back; CreateItem then reads again
\* what the winner stored, BulkCreateItems reports the error.
LoseRace(c) ==
  LET k == Head(call[c].todo)
      found == IF call[c].single /\ k \in Keys THEN GetItemByIdempotencyKey(c, k) ELSE {}
  IN
  /\ call[c].at = "insert"
  /\ UniqueViolation(k) /\ WaitsFor(c, k) = {}
  /\ items' = RolledBack(c)
  /\ Reply(c)
  /\ answered' = answered \cup ({c} \X {k} \X found)
  /\ UNCHANGED history

CommitCreate(c) ==
  /\ call[c].at = "tx" /\ call[c].todo = <<>>
  /\ items' = Committed(c)
  /\ answered' = answered \cup
       {<<c, items[i].key, i>> : i \in {j \in ItemIds : items[j].owner = c /\ items[j].key \in Keys}}
  /\ Reply(c)
  /\ UNCHANGED history

\* Any statement may fail, also as the victim of a deadlock between two
\* batches that insert the same keys in opposite orders.
CreateFails(c) ==
  /\ call[c].at \in {"tx", "insert"}
  /\ items' = RolledBack(c)
  /\ Reply(c)
  /\ UNCHANGED <<answered, history>>

-----------------------------------------------------------------------------
(***************************************************************************)
(* UpdateItem, CompleteItem, SoftDeleteItem.                               *)
(***************************************************************************)

Updates ==
  Cardinality({c \in Callers : call[c].at \in {"update", "complete"}})
    + Cardinality({p \in ItemIds \X (1..MaxUpdates) : p[2] \in DOMAIN history[p[1]]})

ReadPrev(c, i, at, patch, expected) ==
  /\ Updates < MaxUpdates
  /\ call' = [call EXCEPT ![c] = [Idle EXCEPT !.at = at, !.item = i,
               !.patch = patch, !.expected = expected,
                 !.prev = items[i].status, !.read = items[i].version]]

\* The client names no version or one it has been shown.
UpdateItem(c, i, patch, expected) ==
  /\ call[c].at = "idle"
  /\ GetItem(i)
  /\ expected \in 0..items[i].version
  /\ ReadPrev(c, i, "update", patch, expected)
  /\ UNCHANGED <<items, answered, history>>

\* The update and the activity it logs: `from' is what GetItem read.
Apply(c, i, to, logged) ==
  /\ items' = UpdateItemRow(i, to)
  /\ history' = [history EXCEPT ![i] = Append(@,
       [from |-> call[c].prev, to |-> items'[i].status, read |-> call[c].read,
        expected |-> call[c].expected, logged |-> logged])]
  /\ Reply(c)

\* Mutant: a patch that repeats the status is logged as a change.
LogsAnyStatus(c) == call[c].patch # "same"

LogsStatus(c) == call[c].patch # "same" /\ call[c].patch # call[c].prev

UpdateItemTx(c) ==
  LET i == call[c].item IN
  /\ call[c].at = "update"
  /\ \/ /\ UpdateMatches(i, call[c].expected)
        /\ Apply(c, i, call[c].patch, LogsStatus(c))
     \/ /\ ~UpdateMatches(i, call[c].expected)
        /\ Reply(c)
        /\ UNCHANGED <<items, history>>
  /\ UNCHANGED answered

CompleteItem(c, i) ==
  /\ call[c].at = "idle"
  /\ GetItem(i)
  /\ ReadPrev(c, i, "complete", "done", 0)
  /\ UNCHANGED <<items, answered, history>>

CompleteItemTx(c) ==
  LET i == call[c].item IN
  /\ call[c].at = "complete"
  /\ \/ /\ UpdateMatches(i, 0)
        /\ Apply(c, i, "done", call[c].prev # "done")
     \/ /\ ~UpdateMatches(i, 0)
        /\ Reply(c)
        /\ UNCHANGED <<items, history>>
  /\ UNCHANGED answered

DeleteItem(i) ==
  /\ GetItem(i)
  /\ items' = SoftDeleteItemRow(i)
  /\ UNCHANGED <<call, answered, history>>

-----------------------------------------------------------------------------
(***************************************************************************)
(* What reaches the service.  REST passes an empty key on, the tools turn  *)
(* it into none; the bug widget and the quick capture have none.           *)
(***************************************************************************)

RestCreate(c) == \E k \in AnyKey : CreateItem(c, k)

ToolCreate(c) == \E k \in Keys \cup {NoKey} : CreateItem(c, k)

ToolCreateItems(c) == \E keys \in Batches : BulkCreateItems(c, keys)

IngestBug(c) == CreateItem(c, NoKey)

IngestCapture(c) == CreateItem(c, NoKey)

RestPatch(c) ==
  \E i \in ItemIds, patch \in Patch, expected \in 0..(MaxUpdates + 1) :
    UpdateItem(c, i, patch, expected)

ToolUpdate(c) == RestPatch(c)

ToolComplete(c) == \E i \in ItemIds : CompleteItem(c, i)

CreateNext ==
  \E c \in Callers :
    \/ RestCreate(c) \/ ToolCreate(c) \/ ToolCreateItems(c) \/ IngestBug(c) \/ IngestCapture(c)
    \/ CreateItemTx(c) \/ Insert(c) \/ LoseRace(c) \/ CommitCreate(c) \/ CreateFails(c)

UpdateNext ==
  \E c \in Callers :
    RestPatch(c) \/ ToolUpdate(c) \/ ToolComplete(c) \/ UpdateItemTx(c) \/ CompleteItemTx(c)

DeleteNext == \E i \in ItemIds : DeleteItem(i)

ItemsNext == CreateNext \/ UpdateNext \/ DeleteNext

ItemsSpec == ItemsInit /\ [][ItemsNext]_itemsVars

-----------------------------------------------------------------------------
\* "A prior item with that key is returned unchanged (no duplicate)": whatever
\* the lookup, the second lookup and the unique index raced with, two creations
\* under one key are never answered with two different items.
RetriesAgree ==
  \A p, q \in answered : p[2] = q[2] => p[3] = q[3]

\* The loser of a race for a key is answered with the winner's item, not with
\* an error; what is refused met a soft-deleted item, whose key stays taken and
\* is never found again, or the empty key, which is never looked up.
LoserServed ==
  [][\A c \in Callers :
       LoseRace(c) /\ call[c].single =>
         LET k == Head(call[c].todo) IN
         \/ k = EmptyKey
         \/ \E i \in Holders(k) : <<c, k, i>> \in answered' \/ items[i].state = "deleted"]_itemsVars

\* Optimistic concurrency: an update that named a version follows directly on
\* the update that made that version, so it overwrites nothing its author had
\* not seen, whatever its transaction read at the start.
NoUnseenOverwrite ==
  \A i \in ItemIds : \A n \in DOMAIN history[i] :
    history[i][n].expected \in {0, n}

\* The activity log tells how a status came about: an update that changed the
\* status logged the status it changed from, unless another update of the item
\* was committed between its read and its write.
StatusLogHonest ==
  \A i \in ItemIds : \A n \in DOMAIN history[i] :
    LET u == history[i][n]
        before == IF n = 1 THEN "backlog" ELSE history[i][n - 1].to
    IN u.read = n => u.from = before /\ (u.logged <=> u.to # before)
=============================================================================
