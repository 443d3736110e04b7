---------------------------- MODULE ItemsProofs ----------------------------
(***************************************************************************)
(* Proofs about the items, for any number of callers, rows, keys and       *)
(* statuses.  Everything rests on two facts about rows: a row that is      *)
(* neither live nor deleted belongs to the open transaction that inserted  *)
(* it, or to nobody; and the version of a row counts the updates it has    *)
(* taken, so a reader whose version is still the row's has read the status *)
(* the last of them left.                                                  *)
(***************************************************************************)
EXTENDS Items, TLAPS

InTable(i) == items[i].state \in {"live", "deleted"}

InTx(x) == x.at \in {"tx", "insert"}

OwnsNone(c) == \A i \in ItemIds : items[i].owner # c

\* A pending row belongs to the transaction that inserted it, and only that does.
Owned ==
  \A i \in ItemIds :
    /\ items[i].state = "pending" <=> items[i].owner # "none"
    /\ items[i].owner # "none" => InTx(call[items[i].owner])

\* A row is what the updates it took have made of it.
LastStatus(h) == IF h = <<>> THEN "backlog" ELSE h[Len(h)].to

RowMatchesLog ==
  \A i \in ItemIds :
    /\ ~InTable(i) => history[i] = <<>>
    /\ items[i].version = Len(history[i]) + 1
    /\ items[i].status = LastStatus(history[i])

\* What an update's transaction read: no version the row has not had, and with
\* the version it still has, its status.
ReadHolds(x) ==
  x.at \in {"update", "complete"} =>
    /\ x.item \in ItemIds /\ InTable(x.item)
    /\ x.read <= items[x.item].version
    /\ x.read = items[x.item].version => x.prev = items[x.item].status
    /\ x.at = "complete" => x.expected = 0 /\ x.patch = "done"

ReadersHold == \A c \in Callers : ReadHolds(call[c])

\* The unique index: one row per key, deleted rows included.
OneHolder ==
  \A k \in AnyKey : \A i, j \in Holders(k) : i = j

\* What a creation was answered with is a row that holds its key.
AnswersHold ==
  \A p \in answered : InTable(p[3]) /\ items[p[3]].key = p[2]

\* CreateItem has one row to insert and owns none before it has.
LoneRequest(c, x) ==
  InTx(x) =>
    /\ x.at = "insert" => x.todo # <<>>
    /\ x.single => x.todo = <<>> \/ (Tail(x.todo) = <<>> /\ OwnsNone(c))

LoneRequests == \A c \in Callers : LoneRequest(c, call[c])

ItemsInv ==
  /\ ItemsTypeOK /\ Owned /\ RowMatchesLog /\ ReadersHold /\ OneHolder
  /\ AnswersHold /\ LoneRequests /\ NoUnseenOverwrite /\ StatusLogHonest

----------------------------------------------------------------------------
(* What the types say of a row and of a request. *)

LEMMA RowFacts ==
  ASSUME ItemsTypeOK, NEW i \in ItemIds
  PROVE  /\ items[i] \in Row /\ items[i].state \in {"free", "pending", "live", "deleted"}
         /\ items[i].owner \in Callers \cup {"none"} /\ items[i].key \in AnyKey
         /\ items[i].status \in Statuses /\ items[i].version \in Nat
         /\ history[i] \in Seq(Update)
BY DEF ItemsTypeOK, Row

LEMMA CallerFacts ==
  ASSUME ItemsTypeOK, NEW c \in Callers
  PROVE  /\ call[c] \in Call /\ call[c].todo \in Seq(AnyKey) /\ call[c].item \in Nat
         /\ call[c].at \in {"idle", "tx", "insert", "update", "complete"}
         /\ call[c].patch \in Patch /\ call[c].expected \in Nat
         /\ call[c].prev \in Statuses /\ call[c].read \in Nat /\ call[c].single \in BOOLEAN
BY DEF ItemsTypeOK, Call

LEMMA FreeFacts ==
  /\ FreeRow \in Row /\ FreeRow.state = "free" /\ FreeRow.owner = "none"
  /\ FreeRow.status = "backlog" /\ FreeRow.version = 1
  /\ Idle \in Call /\ Idle.at = "idle"
BY ItemsAssumption DEF FreeRow, Row, AnyKey, Idle, Call, Patch

----------------------------------------------------------------------------
(* Steps that change one request and what was answered. *)

LEMMA CallStep ==
  ASSUME ItemsInv, NEW c \in Callers, NEW x \in Call,
         call' = [call EXCEPT ![c] = x], UNCHANGED <<items, history>>,
         answered' \subseteq Callers \X Keys \X ItemIds,
         \A p \in answered' : p \in answered \/ (InTable(p[3]) /\ items[p[3]].key = p[2]),
         InTx(x) \/ OwnsNone(c), ReadHolds(x), LoneRequest(c, x)
  PROVE  ItemsInv'
<1>t. ItemsTypeOK /\ Owned /\ RowMatchesLog /\ ReadersHold /\ OneHolder /\ AnswersHold
      /\ LoneRequests /\ NoUnseenOverwrite /\ StatusLogHonest
  BY DEF ItemsInv
<1>c. call' \in [Callers -> Call] /\ call'[c] = x /\ \A d \in Callers : d # c => call'[d] = call[d]
  BY <1>t DEF ItemsTypeOK
<1>1. ItemsTypeOK'
  BY <1>t, <1>c DEF ItemsTypeOK
<1>2. Owned'
  <2> SUFFICES ASSUME NEW i \in ItemIds
               PROVE  /\ items[i].state = "pending" <=> items[i].owner # "none"
                      /\ items[i].owner # "none" => InTx(call'[items[i].owner])
    BY DEF Owned, InTx
  <2>1. items[i].owner \in Callers \cup {"none"}
    BY <1>t, RowFacts
  <2> QED BY <1>t, <1>c, <2>1 DEF Owned, OwnsNone
<1>3. RowMatchesLog'
  BY <1>t DEF RowMatchesLog, InTable, LastStatus
<1>4. ReadersHold'
  BY <1>t, <1>c DEF ReadersHold, ReadHolds, InTable
<1>5. OneHolder' /\ AnswersHold'
  BY <1>t DEF OneHolder, Holders, AnswersHold, InTable
<1>6. LoneRequests'
  BY <1>t, <1>c DEF LoneRequests, LoneRequest, OwnsNone, InTx
<1>7. NoUnseenOverwrite' /\ StatusLogHonest'
  BY <1>t DEF NoUnseenOverwrite, StatusLogHonest
<1> QED BY <1>1, <1>2, <1>3, <1>4, <1>5, <1>6, <1>7 DEF ItemsInv

\* A lookup by key finds rows with that key, settled or the caller's own.
LEMMA FoundFacts ==
  ASSUME ItemsTypeOK, Owned, NEW c \in Callers, NEW k,
         NEW i \in GetItemByIdempotencyKey(c, k)
  PROVE  /\ i \in ItemIds /\ k # NoKey /\ items[i].key = k
         /\ items[i].owner # c => InTable(i)
BY DEF GetItemByIdempotencyKey, VisibleTo, InTable

\* A caller that is not in a transaction owns no row.
LEMMA IdleOwnsNone ==
  ASSUME ItemsTypeOK, Owned, NEW c \in Callers, ~InTx(call[c])
  PROVE  OwnsNone(c)
BY RowFacts, ItemsAssumption DEF Owned, OwnsNone

LEMMA CreateItemStep ==
  ASSUME ItemsInv, NEW c \in Callers, NEW k \in AnyKey, CreateItem(c, k)
  PROVE  ItemsInv'
<1>t. ItemsTypeOK /\ Owned /\ OwnsNone(c)
  BY IdleOwnsNone DEF ItemsInv, CreateItem, InTx
<1> DEFINE found == IF k \in Keys THEN GetItemByIdempotencyKey(c, k) ELSE {}
<1>f. \A i \in found : i \in ItemIds /\ k \in Keys /\ items[i].key = k /\ InTable(i)
  BY <1>t, FoundFacts DEF OwnsNone
<1>a. answered \subseteq Callers \X Keys \X ItemIds
  BY <1>t DEF ItemsTypeOK
<1>u. UNCHANGED <<items, history>>
  BY DEF CreateItem
<1>c. \/ found # {} /\ Reply(c) /\ answered' = answered \cup ({c} \X {k} \X found)
      \/ found = {} /\ OpenTx(c, <<k>>, TRUE) /\ UNCHANGED answered
  BY DEF CreateItem
<1> HIDE DEF found
<1>1. CASE found # {} /\ Reply(c) /\ answered' = answered \cup ({c} \X {k} \X found)
  <2>1. answered' \subseteq Callers \X Keys \X ItemIds
    BY <1>1, <1>a, <1>f
  <2>2. \A p \in answered' : p \in answered \/ (InTable(p[3]) /\ items[p[3]].key = p[2])
    BY <1>1, <1>f
  <2>3. ReadHolds(Idle) /\ LoneRequest(c, Idle)
    BY FreeFacts DEF ReadHolds, LoneRequest, InTx
  <2> QED BY <1>1, <1>t, <1>u, <2>1, <2>2, <2>3, FreeFacts, CallStep DEF Reply
<1>2. CASE found = {} /\ OpenTx(c, <<k>>, TRUE) /\ UNCHANGED answered
  <2> DEFINE x == [Idle EXCEPT !.at = "tx", !.todo = <<k>>, !.single = TRUE]
  <2>0. <<k>> \in Seq(AnyKey) /\ Tail(<<k>>) = <<>>
    OBVIOUS
  <2>1. x \in Call /\ x.at = "tx" /\ x.single = TRUE /\ x.todo = <<k>>
    BY <2>0, FreeFacts DEF Call
  <2>2. call' = [call EXCEPT ![c] = x]
    BY <1>2 DEF OpenTx
  <2> HIDE DEF x
  <2>3. InTx(x) /\ ReadHolds(x) /\ LoneRequest(c, x)
    BY <2>0, <2>1, <1>t DEF InTx, ReadHolds, LoneRequest
  <2> QED BY <1>2, <1>a, <1>u, <2>1, <2>2, <2>3, CallStep
<1> QED BY <1>1, <1>2, <1>c

LEMMA BulkStep ==
  ASSUME ItemsInv, NEW c \in Callers, NEW keys \in Batches, BulkCreateItems(c, keys)
  PROVE  ItemsInv'
<1> DEFINE x == [Idle EXCEPT !.at = "tx", !.todo = keys, !.single = FALSE]
<1>1. keys \in Seq(AnyKey)
  BY ItemsAssumption DEF AnyKey
<1>2. x \in Call /\ x.at = "tx" /\ x.single = FALSE /\ x.todo = keys
  BY <1>1, FreeFacts DEF Call
<1>3. call' = [call EXCEPT ![c] = x] /\ UNCHANGED <<items, answered, history>>
  BY DEF OpenTx, BulkCreateItems
<1> HIDE DEF x
<1>4. InTx(x) /\ ReadHolds(x) /\ LoneRequest(c, x)
  BY <1>2 DEF InTx, ReadHolds, LoneRequest
<1>5. answered' \subseteq Callers \X Keys \X ItemIds
  BY <1>3 DEF ItemsInv, ItemsTypeOK
<1> QED BY <1>2, <1>3, <1>4, <1>5, CallStep

LEMMA CreateItemTxStep ==
  ASSUME ItemsInv, NEW c \in Callers, CreateItemTx(c)
  PROVE  ItemsInv'
<1>t. /\ ItemsTypeOK /\ Owned /\ LoneRequest(c, call[c])
      /\ call[c].at = "tx" /\ call[c].todo # <<>>
      /\ call[c].todo \in Seq(AnyKey) /\ answered \subseteq Callers \X Keys \X ItemIds
      /\ UNCHANGED <<items, history>>
  BY CallerFacts DEF ItemsInv, CreateItemTx, LoneRequests, ItemsTypeOK
<1> DEFINE k == Head(call[c].todo)
           found == IF k \in Keys THEN GetItemByIdempotencyKey(c, k) ELSE {}
           x == [call[c] EXCEPT !.todo = Tail(@)]
           y == [call[c] EXCEPT !.at = "insert"]
<1>f. \A i \in found : /\ i \in ItemIds /\ k \in Keys /\ items[i].key = k
                       /\ items[i].owner # c => InTable(i)
  BY <1>t, FoundFacts
<1>c. \/ /\ found # {} /\ call' = [call EXCEPT ![c] = x]
         /\ answered' = answered \cup ({c} \X {k} \X {i \in found : items[i].owner # c})
      \/ found = {} /\ call' = [call EXCEPT ![c] = y] /\ UNCHANGED answered
  BY DEF CreateItemTx
<1>l. Tail(call[c].todo) \in Seq(AnyKey)
  BY <1>t
<1>x. /\ x \in Call /\ x.at = "tx" /\ x.single = call[c].single /\ x.todo = Tail(call[c].todo)
      /\ y \in Call /\ y.at = "insert" /\ y.single = call[c].single /\ y.todo = call[c].todo
  BY <1>l, CallerFacts, <1>t DEF Call
<1> HIDE DEF x, y, found, k
<1>1. CASE /\ found # {} /\ call' = [call EXCEPT ![c] = x]
           /\ answered' = answered \cup ({c} \X {k} \X {i \in found : items[i].owner # c})
  <2>1. answered' \subseteq Callers \X Keys \X ItemIds
    BY <1>1, <1>t, <1>f
  <2>2. \A p \in answered' : p \in answered \/ (InTable(p[3]) /\ items[p[3]].key = p[2])
    BY <1>1, <1>f
  <2>3. call[c].single => Tail(call[c].todo) = <<>>
    BY <1>t DEF LoneRequest, InTx
  <2>4. x.single => x.todo = <<>>
    BY <1>x, <2>3, Zenon
  <2>5. InTx(x) /\ ReadHolds(x)
    BY <1>x DEF InTx, ReadHolds
  <2>6. LoneRequest(c, x)
    BY <1>x, <2>4, Zenon DEF LoneRequest
  <2> QED BY <1>1, <1>t, <1>x, <2>1, <2>2, <2>5, <2>6, CallStep
<1>2. CASE found = {} /\ call' = [call EXCEPT ![c] = y] /\ UNCHANGED answered
  <2>1. InTx(y) /\ ReadHolds(y) /\ LoneRequest(c, y)
    BY <1>t, <1>x DEF InTx, ReadHolds, LoneRequest
  <2> QED BY <1>2, <1>t, <1>x, <2>1, CallStep
<1> QED BY <1>1, <1>2, <1>c

\* GetItem in the transaction of an update: the status and version of the row.
LEMMA ReadPrevStep ==
  ASSUME ItemsInv, NEW c \in Callers, NEW i \in ItemIds, NEW at \in {"update", "complete"},
         NEW patch \in Patch, NEW expected \in Nat, call[c].at = "idle", GetItem(i),
         at = "complete" => expected = 0 /\ patch = "done",
         ReadPrev(c, i, at, patch, expected), UNCHANGED <<items, answered, history>>
  PROVE  ItemsInv'
<1>t. ItemsTypeOK /\ Owned /\ OwnsNone(c) /\ answered' \subseteq Callers \X Keys \X ItemIds
  BY IdleOwnsNone DEF ItemsInv, InTx, ItemsTypeOK
<1> DEFINE x == [Idle EXCEPT !.at = at, !.item = i, !.patch = patch, !.expected = expected,
                             !.prev = items[i].status, !.read = items[i].version]
<1>1. call' = [call EXCEPT ![c] = x]
  BY DEF ReadPrev
<1>2. /\ x \in Call /\ x.at = at /\ x.item = i /\ x.patch = patch /\ x.expected = expected
      /\ x.prev = items[i].status /\ x.read = items[i].version
  BY <1>t, RowFacts, FreeFacts, ItemsAssumption DEF Call
<1> HIDE DEF x
<1>3. ReadHolds(x) /\ LoneRequest(c, x)
  BY <1>t, <1>2, RowFacts DEF ReadHolds, LoneRequest, InTx, InTable, GetItem
<1> QED BY <1>t, <1>1, <1>2, <1>3, CallStep

----------------------------------------------------------------------------
(* Steps of a transaction that creates rows. *)

LEMMA InsertStep ==
  ASSUME ItemsInv, NEW c \in Callers, Insert(c)
  PROVE  ItemsInv'
<1>t. ItemsTypeOK /\ Owned /\ RowMatchesLog /\ ReadersHold /\ OneHolder /\ AnswersHold
      /\ LoneRequests /\ NoUnseenOverwrite /\ StatusLogHonest
  BY DEF ItemsInv
<1> DEFINE k == Head(call[c].todo)
           r == [FreeRow EXCEPT !.state = "pending", !.owner = c, !.key = k]
           x == [call[c] EXCEPT !.at = "tx", !.todo = Tail(@)]
<1>c. call[c].at = "insert" /\ call[c].todo # <<>> /\ call[c].todo \in Seq(AnyKey)
  BY <1>t, CallerFacts DEF Insert, LoneRequests, LoneRequest, InTx
<1>k. k \in AnyKey /\ Tail(call[c].todo) \in Seq(AnyKey)
  BY <1>c
<1>u. ~UniqueViolation(k) /\ UNCHANGED <<answered, history>> /\ call' = [call EXCEPT ![c] = x]
  BY DEF Insert
<1>r. r \in Row /\ r.state = "pending" /\ r.owner = c /\ r.key = k /\ r.status = "backlog" /\ r.version = 1
  BY <1>k, ItemsAssumption DEF FreeRow, Row
<1>x. /\ x \in Call /\ x.at = "tx" /\ x.todo = Tail(call[c].todo) /\ x.single = call[c].single
  BY <1>c, <1>k, CallerFacts, <1>t DEF Call
<1>i. PICK i \in ItemIds : items[i].state = "free" /\ items' = [items EXCEPT ![i] = r]
  BY DEF Insert, CreateItemRow
<1> HIDE DEF k, r, x
<1>j. /\ items' \in [ItemIds -> Row] /\ items'[i] = r
      /\ \A j \in ItemIds : j # i => items'[j] = items[j]
  BY <1>t, <1>i, <1>r DEF ItemsTypeOK
<1>d. /\ call' \in [Callers -> Call] /\ call'[c] = x
      /\ \A d \in Callers : d # c => call'[d] = call[d]
  BY <1>t, <1>u, <1>x DEF ItemsTypeOK
<1>o. items[i].owner = "none"
  BY <1>t, <1>i, RowFacts DEF Owned
<1>1. ItemsTypeOK'
  BY <1>t, <1>u, <1>j, <1>d DEF ItemsTypeOK
<1>2. Owned'
  <2> SUFFICES ASSUME NEW j \in ItemIds
               PROVE  /\ items'[j].state = "pending" <=> items'[j].owner # "none"
                      /\ items'[j].owner # "none" => InTx(call'[items'[j].owner])
    BY DEF Owned, InTx
  <2>1. items[j].owner \in Callers \cup {"none"} /\ c # "none"
    BY <1>t, RowFacts, ItemsAssumption
  <2> QED BY <1>t, <1>j, <1>d, <1>r, <1>x, <2>1 DEF Owned, InTx
<1>3. RowMatchesLog'
  BY <1>t, <1>u, <1>i, <1>j, <1>r DEF RowMatchesLog, InTable, LastStatus
<1>4. ReadersHold'
  <2>1. \A j \in ItemIds : InTable(j) => items'[j] = items[j]
    BY <1>i, <1>j DEF InTable
  <2> QED BY <1>t, <1>d, <1>x, <2>1 DEF ReadersHold, ReadHolds, InTable
<1>5. OneHolder'
  <2> SUFFICES ASSUME NEW l \in AnyKey, NEW j \in Holders(l)', NEW m \in Holders(l)'
               PROVE  j = m
    BY DEF OneHolder
  <2>1. \A n \in Holders(l)' : l # NoKey /\ (n \in Holders(l) \/ (n = i /\ l = k))
    BY <1>j, <1>r DEF Holders
  <2>2. Holders(k) = {}
    BY <1>u DEF UniqueViolation
  <2> QED BY <1>t, <2>1, <2>2 DEF OneHolder
<1>6. AnswersHold'
  <2>1. \A p \in answered : p[3] \in ItemIds
    BY <1>t DEF ItemsTypeOK
  <2> QED BY <1>t, <1>u, <1>i, <1>j, <2>1 DEF AnswersHold, InTable
<1>7. LoneRequests'
  <2>1. LoneRequest(c, call[c])
    BY <1>t DEF LoneRequests
  <2>2. x.single => x.todo = <<>>
    BY <1>c, <1>x, <2>1, Zenon DEF LoneRequest, InTx
  <2>3. LoneRequest(c, call[c])'
    BY <1>x, <1>d, <2>2, Zenon DEF LoneRequest
  <2>4. \A d \in Callers : d # c => (OwnsNone(d) => OwnsNone(d)')
    BY <1>j, <1>r DEF OwnsNone
  <2>5. \A d \in Callers : d # c => LoneRequest(d, call[d])'
    BY <1>t, <1>d, <2>4, Zenon DEF LoneRequests, LoneRequest, InTx
  <2> QED BY <2>3, <2>5 DEF LoneRequests
<1>8. NoUnseenOverwrite' /\ StatusLogHonest'
  BY <1>t, <1>u DEF NoUnseenOverwrite, StatusLogHonest
<1> QED BY <1>1, <1>2, <1>3, <1>4, <1>5, <1>6, <1>7, <1>8 DEF ItemsInv

\* The end of a transaction: the rows its caller owns are live or free again,
\* every other row stays as it is.
LEMMA EndFacts ==
  ASSUME ItemsInv, NEW c \in Callers, items' = Committed(c) \/ items' = RolledBack(c),
         NEW i \in ItemIds
  PROVE  /\ items'[i] \in Row
         /\ items[i].owner # c => items'[i] = items[i]
         /\ items[i].owner = c =>
              /\ items[i].state = "pending" /\ history[i] = <<>>
              /\ items'[i].owner = "none" /\ items'[i].status = "backlog" /\ items'[i].version = 1
              /\ \/ items'[i].state = "live" /\ items'[i].key = items[i].key
                 \/ items'[i].state = "free"
<1>t. ItemsTypeOK /\ Owned /\ RowMatchesLog
  BY DEF ItemsInv
<1>1. items[i] \in Row /\ (items[i].owner = c => items[i].state = "pending")
  BY <1>t, RowFacts, ItemsAssumption DEF Owned
<1>2. items[i].owner = c => history[i] = <<>> /\ items[i].status = "backlog" /\ items[i].version = 1
  BY <1>t, <1>1 DEF RowMatchesLog, InTable, LastStatus
<1>3. CASE items' = RolledBack(c)
  BY <1>1, <1>2, <1>3, FreeFacts DEF RolledBack
<1>4. CASE items' = Committed(c)
  <2>1. items'[i] = IF items[i].owner = c
                    THEN [items[i] EXCEPT !.state = "live", !.owner = "none"] ELSE items[i]
    BY <1>4 DEF Committed
  <2> QED BY <1>1, <1>2, <2>1 DEF Row
<1> QED BY <1>3, <1>4

LEMMA EndStep ==
  ASSUME ItemsInv, NEW c \in Callers, InTx(call[c]),
         items' = Committed(c) \/ items' = RolledBack(c), Reply(c), UNCHANGED history,
         answered' \subseteq Callers \X Keys \X ItemIds,
         \A p \in answered' :
           p \in answered \/ (items'[p[3]].state = "live" /\ items'[p[3]].key = p[2])
  PROVE  ItemsInv'
<1>t. ItemsTypeOK /\ Owned /\ RowMatchesLog /\ ReadersHold /\ OneHolder /\ AnswersHold
      /\ LoneRequests /\ NoUnseenOverwrite /\ StatusLogHonest
  BY DEF ItemsInv
<1>c. /\ call' \in [Callers -> Call] /\ call'[c] = Idle
      /\ \A d \in Callers : d # c => call'[d] = call[d]
  BY <1>t, FreeFacts DEF Reply, ItemsTypeOK
<1>1. ItemsTypeOK'
  <2>1. items' \in [ItemIds -> Row]
    <3>1. items' = [i \in ItemIds |-> items'[i]]
      BY DEF Committed, RolledBack
    <3> QED BY <3>1, EndFacts
  <2> QED BY <1>t, <1>c, <2>1 DEF ItemsTypeOK
<1>2. Owned'
  <2> SUFFICES ASSUME NEW i \in ItemIds
               PROVE  /\ items'[i].state = "pending" <=> items'[i].owner # "none"
                      /\ items'[i].owner # "none" => InTx(call'[items'[i].owner])
    BY DEF Owned, InTx
  <2>1. CASE items[i].owner = c
    BY <2>1, EndFacts
  <2>2. CASE items[i].owner # c
    <3>1. items'[i] = items[i] /\ items[i].owner \in Callers \cup {"none"}
      BY <1>t, <2>2, EndFacts, RowFacts
    <3> QED BY <1>t, <1>c, <2>2, <3>1 DEF Owned
  <2> QED BY <2>1, <2>2
<1>3. RowMatchesLog'
  <2> SUFFICES ASSUME NEW i \in ItemIds
               PROVE  /\ ~(items'[i].state \in {"live", "deleted"}) => history[i] = <<>>
                      /\ items'[i].version = Len(history[i]) + 1
                      /\ items'[i].status = LastStatus(history[i])
    BY DEF RowMatchesLog, InTable, LastStatus
  <2>1. CASE items[i].owner = c
    BY <2>1, EndFacts DEF LastStatus
  <2>2. CASE items[i].owner # c
    BY <1>t, <2>2, EndFacts DEF RowMatchesLog, InTable
  <2> QED BY <2>1, <2>2
<1>s. \A i \in ItemIds : InTable(i) => items'[i] = items[i]
  BY <1>t, EndFacts DEF InTable
<1>4. ReadersHold'
  BY <1>t, <1>c, <1>s, FreeFacts DEF ReadersHold, ReadHolds, InTable
<1>5. OneHolder'
  <2>1. \A k \in AnyKey : Holders(k)' \subseteq Holders(k)
    BY EndFacts DEF Holders
  <2> QED BY <1>t, <2>1 DEF OneHolder
<1>6. AnswersHold'
  <2>1. \A p \in answered : p[3] \in ItemIds
    BY <1>t DEF ItemsTypeOK
  <2> QED BY <1>t, <1>s, <2>1 DEF AnswersHold, InTable
<1>7. LoneRequests'
  <2>1. \A d \in Callers : d # c => (OwnsNone(d) => OwnsNone(d)')
    BY EndFacts, ItemsAssumption DEF OwnsNone
  <2> QED BY <1>t, <1>c, <2>1, FreeFacts, Zenon DEF LoneRequests, LoneRequest, InTx
<1>8. NoUnseenOverwrite' /\ StatusLogHonest'
  BY <1>t DEF NoUnseenOverwrite, StatusLogHonest
<1> QED BY <1>1, <1>2, <1>3, <1>4, <1>5, <1>6, <1>7, <1>8 DEF ItemsInv

LEMMA CommitStep ==
  ASSUME ItemsInv, NEW c \in Callers, CommitCreate(c)
  PROVE  ItemsInv'
<1>t. ItemsTypeOK /\ answered \subseteq Callers \X Keys \X ItemIds /\ InTx(call[c])
  BY DEF ItemsInv, ItemsTypeOK, CommitCreate, InTx
<1> DEFINE mine == {j \in ItemIds : items[j].owner = c /\ items[j].key \in Keys}
<1>1. answered' = answered \cup {<<c, items[i].key, i>> : i \in mine}
  BY DEF CommitCreate
<1>2. answered' \subseteq Callers \X Keys \X ItemIds
  BY <1>t, <1>1
<1>3. ASSUME NEW i \in mine PROVE items'[i].state = "live" /\ items'[i].key = items[i].key
  <2>1. items[i] \in Row
    BY <1>t, RowFacts
  <2>2. items'[i] = [items[i] EXCEPT !.state = "live", !.owner = "none"]
    BY DEF CommitCreate, Committed
  <2> QED BY <2>1, <2>2 DEF Row
<1>4. \A p \in answered' :
        p \in answered \/ (items'[p[3]].state = "live" /\ items'[p[3]].key = p[2])
  BY <1>1, <1>3
<1> QED BY <1>t, <1>2, <1>4, EndStep DEF CommitCreate

\* Nobody else's open transaction has the key and the loser owns no row: whoever
\* holds the key is settled.
LEMMA LoserFacts ==
  ASSUME ItemsInv, NEW c \in Callers, LoseRace(c), call[c].single,
         NEW i \in Holders(Head(call[c].todo))
  PROVE  i \in ItemIds /\ InTable(i) /\ items[i].key = Head(call[c].todo)
<1>1. /\ call[c].at = "insert" /\ WaitsFor(c, Head(call[c].todo)) = {}
  BY DEF LoseRace
<1>2. OwnsNone(c)
  <2>1. LoneRequest(c, call[c])
    BY DEF ItemsInv, LoneRequests
  <2>2. call[c].todo # <<>> /\ (call[c].todo = <<>> \/ OwnsNone(c))
    BY <1>1, <2>1, Zenon DEF LoneRequest, InTx
  <2> QED BY <2>2
<1>3. i \in ItemIds /\ items[i].key = Head(call[c].todo) /\ items[i].state # "free"
      /\ items[i].owner # c
  BY <1>2 DEF Holders, OwnsNone
<1>4. items[i].state # "pending"
  BY <1>1, <1>3 DEF WaitsFor
<1> QED BY <1>3, <1>4, RowFacts DEF ItemsInv, InTable

LEMMA LoseRaceStep ==
  ASSUME ItemsInv, NEW c \in Callers, LoseRace(c)
  PROVE  ItemsInv'
<1>t. ItemsTypeOK /\ answered \subseteq Callers \X Keys \X ItemIds /\ InTx(call[c])
      /\ items' = RolledBack(c) /\ Reply(c) /\ UNCHANGED history
  BY DEF ItemsInv, ItemsTypeOK, LoseRace, InTx
<1> DEFINE k == Head(call[c].todo)
           found == IF call[c].single /\ k \in Keys THEN GetItemByIdempotencyKey(c, k) ELSE {}
<1>1. answered' = answered \cup ({c} \X {k} \X found)
  BY DEF LoseRace
<1>2. ASSUME NEW i \in found
      PROVE  /\ i \in ItemIds /\ k \in Keys
             /\ items'[i].state = "live" /\ items'[i].key = k
  <2>1. call[c].single /\ k \in Keys /\ i \in GetItemByIdempotencyKey(c, k)
    BY <1>2
  <2>2. /\ i \in ItemIds /\ items[i].key = k /\ k # NoKey
        /\ (items[i].state = "live" \/ (items[i].state = "pending" /\ items[i].owner = c))
    BY <2>1 DEF GetItemByIdempotencyKey, VisibleTo
  <2>3. i \in Holders(k)
    BY <2>2 DEF Holders
  <2>4. InTable(i)
    BY <2>1, <2>3, LoserFacts
  <2>5. items[i].state = "live" /\ items[i].owner = "none"
    BY <2>2, <2>4, RowFacts DEF ItemsInv, Owned, InTable
  <2>6. items'[i] = items[i]
    BY <1>t, <2>2, <2>5, EndFacts, ItemsAssumption
  <2> QED BY <2>1, <2>2, <2>5, <2>6
<1> HIDE DEF k, found
<1>3. answered' \subseteq Callers \X Keys \X ItemIds
  BY <1>t, <1>1, <1>2
<1>4. \A p \in answered' :
        p \in answered \/ (items'[p[3]].state = "live" /\ items'[p[3]].key = p[2])
  BY <1>1, <1>2
<1> QED BY <1>t, <1>3, <1>4, EndStep

LEMMA CreateFailsStep ==
  ASSUME ItemsInv, NEW c \in Callers, CreateFails(c)
  PROVE  ItemsInv'
BY EndStep DEF CreateFails, InTx, ItemsInv, ItemsTypeOK

----------------------------------------------------------------------------
(* Steps that change a row. *)

\* An update's step: the statement matched the row, which takes the patch.
LEMMA ApplyStep ==
  ASSUME ItemsInv, NEW c \in Callers, call[c].at \in {"update", "complete"},
         UpdateMatches(call[c].item, call[c].expected),
         Apply(c, call[c].item, call[c].patch, LogsStatus(c)), UNCHANGED answered
  PROVE  ItemsInv'
<1>t. ItemsTypeOK /\ Owned /\ RowMatchesLog /\ ReadersHold /\ OneHolder /\ AnswersHold
      /\ LoneRequests /\ NoUnseenOverwrite /\ StatusLogHonest
  BY DEF ItemsInv
<1> DEFINE i == call[c].item
           s == IF call[c].patch = "same" THEN items[i].status ELSE call[c].patch
           r == [items[i] EXCEPT !.status = s, !.version = items[i].version + 1]
           u == [from |-> call[c].prev, to |-> s, read |-> call[c].read,
                 expected |-> call[c].expected, logged |-> LogsStatus(c)]
<1>i. i \in ItemIds /\ items[i] \in Row /\ items[i].state = "live" /\ items[i].owner = "none"
  BY <1>t, RowFacts DEF ReadersHold, ReadHolds, UpdateMatches, GetItem, Owned
<1>s. s \in Statuses /\ call[c].prev \in Statuses /\ call[c].read \in Nat /\ call[c].expected \in Nat
  BY <1>t, <1>i, RowFacts, CallerFacts DEF Patch
<1>1. items' = [items EXCEPT ![i] = r]
  <2>1. items' = [items EXCEPT ![i].status = IF call[c].patch = "same" THEN @ ELSE call[c].patch,
                               ![i].version = @ + 1]
    BY DEF Apply, UpdateItemRow
  <2> QED BY <2>1, <1>i, <1>t DEF ItemsTypeOK, Row
<1>2. history' = [history EXCEPT ![i] = Append(@, u)]
  <2>1. items'[i].status = s
    BY <1>1, <1>i, <1>t DEF ItemsTypeOK, Row
  <2> QED BY <2>1 DEF Apply
<1>c. /\ call' \in [Callers -> Call] /\ call'[c] = Idle
      /\ \A d \in Callers : d # c => call'[d] = call[d]
  BY <1>t, FreeFacts DEF Apply, Reply, ItemsTypeOK
<1>u. /\ u \in Update /\ u.to = s /\ u.from = call[c].prev /\ u.read = call[c].read
      /\ u.expected = call[c].expected /\ u.logged = LogsStatus(c)
  BY <1>s DEF Update, LogsStatus
<1>r. /\ r \in Row /\ r.state = "live" /\ r.owner = "none" /\ r.key = items[i].key
      /\ r.status = s /\ r.version = items[i].version + 1
  <2> HIDE DEF s, i
  <2>1. items[i].version + 1 \in Nat
    BY <1>t, <1>i, RowFacts
  <2> QED BY <2>1, <1>i, <1>s DEF Row
<1>l. s = IF call[c].patch = "same" THEN items[i].status ELSE call[c].patch
  OBVIOUS
<1> HIDE DEF i, s, r, u
<1>j. /\ items' \in [ItemIds -> Row] /\ items'[i] = r
      /\ \A j \in ItemIds : j # i => items'[j] = items[j]
  BY <1>t, <1>i, <1>1, <1>r DEF ItemsTypeOK
<1>h. /\ history' \in [ItemIds -> Seq(Update)] /\ history'[i] = Append(history[i], u)
      /\ \A j \in ItemIds : j # i => history'[j] = history[j]
  BY <1>t, <1>i, <1>2, <1>u DEF ItemsTypeOK
<1>a. /\ history[i] \in Seq(Update) /\ Len(history[i]) \in Nat
      /\ DOMAIN history[i] = 1..Len(history[i])
      /\ history'[i] # <<>> /\ Len(history'[i]) = Len(history[i]) + 1
      /\ DOMAIN history'[i] = 1..(Len(history[i]) + 1)
      /\ history'[i][Len(history[i]) + 1] = u
      /\ \A n \in 1..Len(history[i]) : history'[i][n] = history[i][n]
  BY <1>t, <1>i, <1>h, <1>u DEF ItemsTypeOK
<1>v. items[i].version = Len(history[i]) + 1 /\ items[i].status = LastStatus(history[i])
  BY <1>t, <1>i DEF RowMatchesLog
<1>3. ItemsTypeOK'
  BY <1>t, <1>c, <1>j, <1>h DEF ItemsTypeOK
<1>4. Owned'
  <2> SUFFICES ASSUME NEW j \in ItemIds
               PROVE  /\ items'[j].state = "pending" <=> items'[j].owner # "none"
                      /\ items'[j].owner # "none" => InTx(call'[items'[j].owner])
    BY DEF Owned, InTx
  <2>1. items[j].owner \in Callers \cup {"none"} /\ (items[j].owner = c => InTx(call[c]))
    BY <1>t, RowFacts, ItemsAssumption DEF Owned
  <2> QED BY <1>t, <1>c, <1>j, <1>r, <2>1 DEF Owned, InTx
<1>5. RowMatchesLog'
  BY <1>t, <1>j, <1>h, <1>a, <1>r, <1>u, <1>v DEF RowMatchesLog, InTable, LastStatus
<1>6. ReadersHold'
  <2> SUFFICES ASSUME NEW d \in Callers, d # c, call[d].at \in {"update", "complete"}
               PROVE  ReadHolds(call[d])'
    BY <1>c, FreeFacts DEF ReadersHold, ReadHolds
  <2>1. ReadHolds(call[d]) /\ call[d].read \in Nat /\ call[d].item \in ItemIds
    BY <1>t, CallerFacts DEF ReadersHold, ReadHolds
  <2>2. items[call[d].item].version \in Nat
    BY <2>1, <1>t, RowFacts
  <2>3. CASE call[d].item = i
    BY <1>c, <1>j, <1>r, <2>1, <2>2, <2>3 DEF ReadHolds, InTable
  <2>4. CASE call[d].item # i
    BY <1>c, <1>j, <2>1, <2>4 DEF ReadHolds, InTable
  <2> QED BY <2>3, <2>4
<1>7. OneHolder'
  <2>1. \A k \in AnyKey : Holders(k)' = Holders(k)
    BY <1>i, <1>j, <1>r DEF Holders
  <2> QED BY <1>t, <2>1 DEF OneHolder
<1>8. AnswersHold'
  <2>1. \A p \in answered : p[3] \in ItemIds
    BY <1>t DEF ItemsTypeOK
  <2> QED BY <1>t, <1>j, <1>r, <2>1 DEF AnswersHold, InTable
<1>9. LoneRequests'
  <2>1. \A d \in Callers : OwnsNone(d) => OwnsNone(d)'
    BY <1>j, <1>r, ItemsAssumption DEF OwnsNone
  <2> QED BY <1>t, <1>c, <2>1, FreeFacts, Zenon DEF LoneRequests, LoneRequest, InTx
<1>10. NoUnseenOverwrite'
  <2>1. call[c].expected \in {0, Len(history[i]) + 1}
    BY <1>v DEF UpdateMatches, i
  <2> QED BY <1>t, <1>h, <1>a, <1>u, <2>1 DEF NoUnseenOverwrite
<1>11. StatusLogHonest'
  <2>1. call[c].read = items[i].version => call[c].prev = items[i].status
    BY <1>t DEF ReadersHold, ReadHolds, i
  <2>2. LogsStatus(c) <=> call[c].patch # "same" /\ call[c].patch # call[c].prev
    BY DEF LogsStatus
  <2>3. LastStatus(history[i]) = IF history[i] = <<>> THEN "backlog"
                                 ELSE history[i][Len(history[i])].to
    BY DEF LastStatus
  <2>4. ASSUME u.read = Len(history[i]) + 1
        PROVE  u.from = LastStatus(history[i]) /\ (u.logged <=> u.to # LastStatus(history[i]))
    BY <1>l, <1>u, <1>v, <2>1, <2>2, <2>4, Zenon
  <2> SUFFICES ASSUME NEW j \in ItemIds, NEW n \in DOMAIN history'[j], history'[j][n].read = n
               PROVE  LET v == history'[j][n]
                          before == IF n = 1 THEN "backlog" ELSE history'[j][n - 1].to
                      IN v.from = before /\ (v.logged <=> v.to # before)
    BY DEF StatusLogHonest
  <2>5. CASE j # i
    BY <1>t, <1>h, <2>5 DEF StatusLogHonest
  <2>6. CASE j = i /\ n = Len(history[i]) + 1
    <3>1. history'[j][n] = u
      BY <1>a, <2>6
    <3>2. (IF n = 1 THEN "backlog" ELSE history'[j][n - 1].to) = LastStatus(history[i])
      BY <1>a, <2>3, <2>6
    <3> QED BY <2>4, <2>6, <3>1, <3>2
  <2>7. CASE j = i /\ n \in 1..Len(history[i])
    <3>1. /\ n \in DOMAIN history[i] /\ history'[j][n] = history[i][n]
          /\ n # 1 => history'[j][n - 1] = history[i][n - 1]
      BY <1>a, <2>7
    <3> QED BY <1>t, <1>i, <2>7, <3>1 DEF StatusLogHonest
  <2> QED BY <1>a, <2>5, <2>6, <2>7
<1> QED BY <1>3, <1>4, <1>5, <1>6, <1>7, <1>8, <1>9, <1>10, <1>11 DEF ItemsInv

\* An update that matched nothing leaves the rows alone.
LEMMA MissedStep ==
  ASSUME ItemsInv, NEW c \in Callers, call[c].at \in {"update", "complete"},
         Reply(c), UNCHANGED <<items, history, answered>>
  PROVE  ItemsInv'
<1>1. OwnsNone(c) /\ answered' \subseteq Callers \X Keys \X ItemIds
  BY IdleOwnsNone DEF ItemsInv, InTx, ItemsTypeOK
<1>2. ReadHolds(Idle) /\ LoneRequest(c, Idle)
  BY FreeFacts DEF ReadHolds, LoneRequest, InTx
<1> QED BY <1>1, <1>2, FreeFacts, CallStep DEF Reply

LEMMA UpdateTxStep ==
  ASSUME ItemsInv, NEW c \in Callers, UpdateItemTx(c) \/ CompleteItemTx(c)
  PROVE  ItemsInv'
<1>1. CASE UpdateItemTx(c)
  BY <1>1, ApplyStep, MissedStep DEF UpdateItemTx
<1>2. CASE CompleteItemTx(c)
  <2>1. call[c].at = "complete" /\ call[c].expected = 0 /\ call[c].patch = "done"
    BY <1>2 DEF CompleteItemTx, ItemsInv, ReadersHold, ReadHolds
  <2>2. LogsStatus(c) = (call[c].prev # "done")
    BY <2>1 DEF LogsStatus
  <2> QED BY <1>2, <2>1, <2>2, ApplyStep, MissedStep DEF CompleteItemTx
<1> QED BY <1>1, <1>2

LEMMA DeleteStep ==
  ASSUME ItemsInv, NEW i \in ItemIds, DeleteItem(i)
  PROVE  ItemsInv'
<1>t. ItemsTypeOK /\ Owned /\ RowMatchesLog /\ ReadersHold /\ OneHolder /\ AnswersHold
      /\ LoneRequests /\ NoUnseenOverwrite /\ StatusLogHonest
  BY DEF ItemsInv
<1>u. items[i].state = "live" /\ UNCHANGED <<call, answered, history>>
  BY DEF DeleteItem, GetItem
<1> DEFINE r == [items[i] EXCEPT !.state = "deleted"]
<1>r. /\ r \in Row /\ r.state = "deleted" /\ r.owner = items[i].owner /\ r.key = items[i].key
      /\ r.status = items[i].status /\ r.version = items[i].version /\ items' = [items EXCEPT ![i] = r]
  BY <1>t DEF ItemsTypeOK, Row, DeleteItem, SoftDeleteItemRow
<1> HIDE DEF r
<1>j. /\ items' \in [ItemIds -> Row] /\ items'[i] = r
      /\ \A j \in ItemIds : j # i => items'[j] = items[j]
  BY <1>t, <1>r DEF ItemsTypeOK
<1>1. ItemsTypeOK' /\ Owned' /\ RowMatchesLog'
  BY <1>t, <1>u, <1>r, <1>j DEF ItemsTypeOK, Owned, RowMatchesLog, InTable, LastStatus, InTx
<1>2. ReadersHold'
  BY <1>t, <1>u, <1>r, <1>j DEF ReadersHold, ReadHolds, InTable
<1>3. OneHolder'
  <2>1. \A k \in AnyKey : Holders(k)' = Holders(k)
    BY <1>u, <1>r, <1>j DEF Holders
  <2> QED BY <1>t, <2>1 DEF OneHolder
<1>4. AnswersHold'
  <2>1. \A p \in answered : p[3] \in ItemIds
    BY <1>t DEF ItemsTypeOK
  <2> QED BY <1>t, <1>u, <1>j, <1>r, <2>1 DEF AnswersHold, InTable
<1>5. LoneRequests'
  <2>1. \A d \in Callers : OwnsNone(d) => OwnsNone(d)'
    BY <1>j, <1>r DEF OwnsNone
  <2> QED BY <1>t, <1>u, <2>1, Zenon DEF LoneRequests, LoneRequest, InTx
<1>6. NoUnseenOverwrite' /\ StatusLogHonest'
  BY <1>t, <1>u DEF NoUnseenOverwrite, StatusLogHonest
<1> QED BY <1>1, <1>2, <1>3, <1>4, <1>5, <1>6 DEF ItemsInv

----------------------------------------------------------------------------
(* The invariant and what it shows. *)

LEMMA ItemsStep == ItemsInv /\ [ItemsNext]_itemsVars => ItemsInv'
<1> SUFFICES ASSUME ItemsInv, [ItemsNext]_itemsVars PROVE ItemsInv'
  OBVIOUS
<1>1. ASSUME NEW c \in Callers,
             \/ RestCreate(c) \/ ToolCreate(c) \/ IngestBug(c) \/ IngestCapture(c)
      PROVE  ItemsInv'
  BY <1>1, CreateItemStep DEF RestCreate, ToolCreate, IngestBug, IngestCapture, AnyKey
<1>2. ASSUME NEW c \in Callers, ToolCreateItems(c) PROVE ItemsInv'
  BY <1>2, BulkStep DEF ToolCreateItems
<1>3. ASSUME NEW c \in Callers,
             \/ CreateItemTx(c) \/ Insert(c) \/ LoseRace(c) \/ CommitCreate(c) \/ CreateFails(c)
      PROVE  ItemsInv'
  BY <1>3, CreateItemTxStep, InsertStep, LoseRaceStep, CommitStep, CreateFailsStep
<1>4. ASSUME NEW c \in Callers, RestPatch(c) \/ ToolUpdate(c) PROVE ItemsInv'
  <2>1. PICK i \in ItemIds, patch \in Patch, expected \in 0..(MaxUpdates + 1) :
          UpdateItem(c, i, patch, expected)
    BY <1>4 DEF RestPatch, ToolUpdate
  <2>2. expected \in Nat
    BY ItemsAssumption
  <2> QED BY <2>1, <2>2, ReadPrevStep DEF UpdateItem
<1>5. ASSUME NEW c \in Callers, ToolComplete(c) PROVE ItemsInv'
  <2>1. PICK i \in ItemIds : CompleteItem(c, i)
    BY <1>5 DEF ToolComplete
  <2>2. "done" \in Patch /\ 0 \in Nat
    BY ItemsAssumption DEF Patch
  <2> QED BY <2>1, <2>2, ReadPrevStep DEF CompleteItem
<1>6. ASSUME NEW c \in Callers, UpdateItemTx(c) \/ CompleteItemTx(c) PROVE ItemsInv'
  BY <1>6, UpdateTxStep
<1>7. ASSUME NEW i \in ItemIds, DeleteItem(i) PROVE ItemsInv'
  BY <1>7, DeleteStep
<1>8. CASE UNCHANGED itemsVars
  BY <1>8 DEF itemsVars, ItemsInv, ItemsTypeOK, Owned, RowMatchesLog, ReadersHold, ReadHolds,
     OneHolder, Holders, AnswersHold, LoneRequests, LoneRequest, OwnsNone, InTx, InTable,
     LastStatus, NoUnseenOverwrite, StatusLogHonest
<1> QED BY <1>1, <1>2, <1>3, <1>4, <1>5, <1>6, <1>7, <1>8
        DEF ItemsNext, CreateNext, UpdateNext, DeleteNext

LEMMA ItemsInitInv == ItemsInit => ItemsInv
<1> SUFFICES ASSUME ItemsInit PROVE ItemsInv
  OBVIOUS
<1> USE FreeFacts DEF ItemsInit
<1>1. ItemsTypeOK /\ Owned /\ RowMatchesLog
  BY DEF ItemsTypeOK, Owned, RowMatchesLog, LastStatus, InTable
<1>2. ReadersHold /\ LoneRequests
  BY DEF ReadersHold, ReadHolds, LoneRequests, LoneRequest, InTx
<1>3. OneHolder /\ AnswersHold
  BY DEF OneHolder, Holders, AnswersHold
<1>4. NoUnseenOverwrite /\ StatusLogHonest
  BY DEF NoUnseenOverwrite, StatusLogHonest
<1> QED BY <1>1, <1>2, <1>3, <1>4 DEF ItemsInv

LEMMA ItemsInvariant == ItemsSpec => []ItemsInv
BY ItemsInitInv, ItemsStep, PTL DEF ItemsSpec

\* An answer is a settled row that holds its key for good, and a key has one holder.
LEMMA AnswersAgree == ItemsInv => RetriesAgree
<1> SUFFICES ASSUME ItemsInv, NEW p \in answered, NEW q \in answered, p[2] = q[2]
             PROVE  p[3] = q[3]
  BY DEF RetriesAgree
<1>1. /\ p[2] \in Keys /\ p[3] \in ItemIds /\ q[3] \in ItemIds
      /\ InTable(p[3]) /\ InTable(q[3]) /\ items[p[3]].key = p[2] /\ items[q[3]].key = p[2]
  BY DEF ItemsInv, ItemsTypeOK, AnswersHold
<1>2. p[2] \in AnyKey /\ p[2] # NoKey
  BY <1>1, ItemsAssumption DEF AnyKey
<1>3. p[3] \in Holders(p[2]) /\ q[3] \in Holders(p[2])
  BY <1>1, <1>2 DEF Holders, InTable
<1> QED BY <1>2, <1>3 DEF ItemsInv, OneHolder

\* Two creations under one key are answered with one item.
THEOREM OneItemPerKey == ItemsSpec => []RetriesAgree
BY AnswersAgree, ItemsInvariant, PTL

\* An update that named a version overwrote nothing its author had not seen.
THEOREM VersionsGuard == ItemsSpec => []NoUnseenOverwrite
<1>1. ItemsInv => NoUnseenOverwrite
  BY DEF ItemsInv
<1> QED BY <1>1, ItemsInvariant, PTL

\* An update logs the change of status it made, unless another update of the item
\* was committed between its read and its write.
THEOREM LogTellsTheChange == ItemsSpec => []StatusLogHonest
<1>1. ItemsInv => StatusLogHonest
  BY DEF ItemsInv
<1> QED BY <1>1, ItemsInvariant, PTL

LEMMA LosersServed == []ItemsInv /\ [][ItemsNext]_itemsVars => LoserServed
<1>1. ItemsInv /\ [ItemsNext]_itemsVars =>
        [\A c \in Callers :
           LoseRace(c) /\ call[c].single =>
             LET k == Head(call[c].todo) IN
             \/ k = EmptyKey
             \/ \E i \in Holders(k) : <<c, k, i>> \in answered' \/ items[i].state = "deleted"]_itemsVars
  <2> SUFFICES ASSUME ItemsInv, NEW c \in Callers, LoseRace(c), call[c].single,
                      Head(call[c].todo) # EmptyKey
               PROVE  \E i \in Holders(Head(call[c].todo)) :
                        \/ <<c, Head(call[c].todo), i>> \in answered'
                        \/ items[i].state = "deleted"
    OBVIOUS
  <2> DEFINE k == Head(call[c].todo)
  <2>1. PICK i \in Holders(k) : TRUE
    BY DEF LoseRace, UniqueViolation
  <2>2. i \in ItemIds /\ InTable(i) /\ items[i].key = k /\ k # NoKey
    BY <2>1, LoserFacts DEF Holders
  <2>3. CASE items[i].state = "deleted"
    BY <2>1, <2>3
  <2>4. CASE items[i].state = "live"
    <3>1. k \in AnyKey
      BY <2>2, RowFacts DEF ItemsInv
    <3>2. k \in Keys
      BY <2>2, <3>1 DEF AnyKey
    <3>3. i \in GetItemByIdempotencyKey(c, k)
      BY <2>2, <2>4 DEF GetItemByIdempotencyKey, VisibleTo
    <3>4. <<c, k, i>> \in answered'
      BY <3>2, <3>3 DEF LoseRace
    <3> QED BY <2>1, <3>4
  <2> QED BY <2>2, <2>3, <2>4 DEF InTable
<1> QED BY <1>1, PTL DEF LoserServed

\* The loser of a race is answered with the winner's item, unless the winner's row
\* is deleted or the key is the empty one.
THEOREM LoserIsServed == ItemsSpec => LoserServed
BY ItemsInvariant, LosersServed, PTL DEF ItemsSpec
=============================================================================
