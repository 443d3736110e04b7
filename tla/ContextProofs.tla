--------------------------- MODULE ContextProofs ---------------------------
(***************************************************************************)
(* Proofs about what an agent is given and what is recorded of its use,    *)
(* for any number of requests, rows, sessions and reports: the cached      *)
(* orient bundle and what it says is next, the embedding vectors that      *)
(* semantic search reads, the answer of a search, the nudges of a session  *)
(* and the reports of what the context was worth.                          *)
(***************************************************************************)
EXTENDS OrientCache, Embedder, Sessions, ContextImpact, Orient, Search, FiniteSetTheorems,
        WellFoundedInduction, TLAPS

----------------------------------------------------------------------------
(* The orient cache. *)

\* A build has seen each answered write that clears the cache, or ran while it
\* was made, or has still to read the section it touches.
BuildSees ==
  flight.at # "none" =>
    \A w \in cleared \cap Clearing :
      \/ w \in flight.bundle.saw \cup flight.bundle.during
      \/ flight.at \in {"check", "read"} /\ Touches[w] \in flight.unread

\* What was answered before a reader asked is answered now.
AskedCleared == \A r \in Readers : asked[r] \subseteq cleared

CacheInv == CacheTypeOK /\ CachedFresh /\ OrientFresh /\ BuildSees /\ AskedCleared

\* A stored bundle is one with the fields of a bundle.
LEMMA BundleFacts ==
  /\ NoBundle \notin Bundle
  /\ [saw |-> {}, during |-> {}] \in Bundle
  /\ NoFlight \in Flight /\ NoFlight.at = "none"
BY DEF NoBundle, Bundle, NoFlight, Flight

\* Every step keeps the types.
LEMMA CacheTypeStep == CacheTypeOK /\ [CacheNext]_cacheVars => CacheTypeOK'
<1> SUFFICES ASSUME CacheTypeOK, [CacheNext]_cacheVars PROVE CacheTypeOK'
  OBVIOUS
<1> USE BundleFacts DEF CacheTypeOK
<1>o. ASSUME NEW w \in Writes PROVE Overlap(w) \in Flight
  BY DEF Overlap, Flight, Bundle
<1>1. ASSUME NEW w \in Writes, CommitWrite(w) PROVE CacheTypeOK'
  BY <1>1, <1>o DEF CommitWrite
<1>2. ASSUME NEW w \in Writes, ClearCache(w) PROVE CacheTypeOK'
  BY <1>2, <1>o DEF ClearCache
<1>3. ASSUME NEW r \in Readers, AskOrient(r) PROVE CacheTypeOK'
  BY <1>3 DEF AskOrient
<1>4. ASSUME NEW r \in Readers, EnterFlight(r) PROVE CacheTypeOK'
  <2>1. flight' \in Flight
    BY <1>4 DEF EnterFlight, Flight, Bundle
  <2> QED BY <1>4, <2>1 DEF EnterFlight
<1>5. CASE Expire
  BY <1>5 DEF Expire
<1>6. CASE CheckAgain
  <2>1. flight' \in Flight
    BY <1>6 DEF CheckAgain, Flight
  <2> QED BY <1>6, <2>1 DEF CheckAgain
<1>7. ASSUME NEW s \in Sections, ReadSection(s) PROVE CacheTypeOK'
  <2>1. flight' \in Flight
    BY <1>7 DEF ReadSection, Flight, Bundle
  <2> QED BY <1>7, <2>1 DEF ReadSection
<1>8. CASE SetEntry
  <2>1. flight' \in Flight /\ flight.bundle \in Bundle
    BY <1>8 DEF SetEntry, Flight
  <2> QED BY <1>8, <2>1 DEF SetEntry
<1>9. CASE ReturnBundle \/ BuildFails
  <2>1. flight.bundle \in Bundle
    BY DEF Flight
  <2> QED BY <1>9, <2>1 DEF ReturnBundle, BuildFails, EndFlight
<1>10. CASE UNCHANGED cacheVars
  BY <1>10 DEF cacheVars
<1> QED BY <1>1, <1>2, <1>3, <1>4, <1>5, <1>6, <1>7, <1>8, <1>9, <1>10 DEF CacheNext

\* A write that ends while a build runs is one the build ran beside.
LEMMA OverlapFacts ==
  ASSUME CacheTypeOK, NEW w \in Writes
  PROVE  /\ Overlap(w).at = flight.at /\ Overlap(w).unread = flight.unread
         /\ Overlap(w).sharers = flight.sharers
         /\ flight.bundle.saw \subseteq Overlap(w).bundle.saw
         /\ flight.bundle.during \subseteq Overlap(w).bundle.during
         /\ flight.at # "none" => w \in Overlap(w).bundle.during
BY DEF CacheTypeOK, Flight, Bundle, Overlap

\* Every step keeps the build's account of the writes.
LEMMA BuildSeesStep == CacheInv /\ [CacheNext]_cacheVars => BuildSees'
<1> SUFFICES ASSUME CacheInv, [CacheNext]_cacheVars PROVE BuildSees'
  OBVIOUS
<1> USE DEF CacheInv
<1>t. /\ flight \in Flight /\ cleared \subseteq written /\ written \subseteq Writes
      /\ Touches \in [Writes -> Sections] /\ Clearing \subseteq Writes
  BY CacheAssumption DEF CacheTypeOK
<1>1. ASSUME NEW w \in Writes, CommitWrite(w) \/ ClearCache(w) PROVE BuildSees'
  <2>1. flight' = Overlap(w) /\ cleared' \cap Clearing \subseteq (cleared \cap Clearing) \cup {w}
    BY <1>1 DEF CommitWrite, ClearCache
  <2> QED BY <2>1, OverlapFacts DEF BuildSees
<1>2. ASSUME NEW r \in Readers, EnterFlight(r) PROVE BuildSees'
  <2>1. CASE flight.at = "none"
    <3>1. flight'.unread = Sections /\ flight'.at = "check" /\ cleared' = cleared
      BY <1>2, <2>1 DEF EnterFlight
    <3> QED BY <3>1, <1>t DEF BuildSees
  <2>2. CASE flight.at # "none"
    BY <1>2, <2>2, <1>t DEF EnterFlight, BuildSees, Flight
  <2> QED BY <2>1, <2>2
<1>3. CASE CheckAgain
  <2>1. CASE entry = NoBundle
    BY <1>3, <2>1, <1>t DEF CheckAgain, BuildSees, Flight
  <2>2. CASE entry # NoBundle
    BY <1>3, <2>2, <1>t DEF CheckAgain, BuildSees, Flight, CachedFresh
  <2> QED BY <2>1, <2>2
<1>4. ASSUME NEW s \in Sections, ReadSection(s) PROVE BuildSees'
  <2>1. /\ flight'.unread = flight.unread \ {s}
        /\ flight'.at = IF flight.unread = {s} THEN "set" ELSE "read"
        /\ flight'.bundle.saw = flight.bundle.saw \cup {w \in written : Touches[w] = s}
        /\ flight'.bundle.during = flight.bundle.during
        /\ flight.at = "read" /\ cleared' = cleared
    BY <1>4, <1>t DEF ReadSection, Flight, Bundle
  <2> QED BY <2>1, <1>t DEF BuildSees
<1>5. CASE SetEntry
  BY <1>5, <1>t DEF SetEntry, BuildSees, Flight
<1>6. CASE ReturnBundle \/ BuildFails
  BY <1>6 DEF ReturnBundle, BuildFails, EndFlight, BuildSees, NoFlight
<1>7. ASSUME (\E r \in Readers : AskOrient(r)) \/ Expire \/ UNCHANGED cacheVars PROVE BuildSees'
  BY <1>7 DEF AskOrient, Expire, cacheVars, BuildSees
<1> QED BY <1>1, <1>2, <1>3, <1>4, <1>5, <1>6, <1>7 DEF CacheNext

\* Every step keeps the entry fresh: clear drops it, set stores a build that saw all.
LEMMA CachedFreshStep == CacheInv /\ [CacheNext]_cacheVars => CachedFresh'
<1> SUFFICES ASSUME CacheInv, [CacheNext]_cacheVars PROVE CachedFresh'
  OBVIOUS
<1> USE DEF CacheInv
<1>1. ASSUME NEW w \in Writes, CommitWrite(w) PROVE CachedFresh'
  BY <1>1 DEF CommitWrite, CachedFresh
<1>2. ASSUME NEW w \in Writes, ClearCache(w) PROVE CachedFresh'
  BY <1>2 DEF ClearCache, CachedFresh
<1>3. CASE SetEntry
  BY <1>3 DEF SetEntry, CachedFresh, BuildSees
<1>4. CASE Expire
  BY <1>4 DEF Expire, CachedFresh
<1>5. ASSUME \/ \E r \in Readers : AskOrient(r) \/ EnterFlight(r)
             \/ CheckAgain \/ ReturnBundle \/ BuildFails
             \/ \E s \in Sections : ReadSection(s)
             \/ UNCHANGED cacheVars
      PROVE  CachedFresh'
  BY <1>5 DEF AskOrient, EnterFlight, CheckAgain, ReturnBundle, BuildFails, EndFlight,
              ReadSection, cacheVars, CachedFresh
<1> QED BY <1>1, <1>2, <1>3, <1>4, <1>5 DEF CacheNext

\* Every step keeps the answers fresh: a hit is the entry, the rest share a build.
LEMMA OrientFreshStep ==
  CacheInv /\ [CacheNext]_cacheVars => OrientFresh' /\ AskedCleared'
<1> SUFFICES ASSUME CacheInv, [CacheNext]_cacheVars PROVE OrientFresh' /\ AskedCleared'
  OBVIOUS
<1> USE DEF CacheInv
<1>t. asked \in [Readers -> SUBSET Writes] /\ got \in [Readers -> Bundle \cup {NoBundle}]
  BY DEF CacheTypeOK
<1>1. ASSUME NEW w \in Writes, CommitWrite(w) \/ ClearCache(w)
      PROVE  OrientFresh' /\ AskedCleared'
  BY <1>1 DEF CommitWrite, ClearCache, OrientFresh, AskedCleared
<1>2. ASSUME NEW r \in Readers, AskOrient(r) PROVE OrientFresh' /\ AskedCleared'
  BY <1>2, <1>t DEF AskOrient, OrientFresh, AskedCleared, CachedFresh
<1>3. CASE ReturnBundle
  <2>1. \A r \in Readers : got'[r] = flight.bundle \/ got'[r] = got[r]
    BY <1>3 DEF ReturnBundle, EndFlight
  <2>2. cleared \cap Clearing \subseteq flight.bundle.saw \cup flight.bundle.during
    BY <1>3 DEF ReturnBundle, BuildSees
  <2>3. asked' = asked /\ cleared' = cleared
    BY <1>3 DEF ReturnBundle, EndFlight
  <2> QED BY <2>1, <2>2, <2>3 DEF OrientFresh, AskedCleared
<1>4. CASE BuildFails
  BY <1>4 DEF BuildFails, EndFlight, OrientFresh, AskedCleared
<1>5. ASSUME \/ \E r \in Readers : EnterFlight(r)
             \/ Expire \/ CheckAgain \/ SetEntry
             \/ \E s \in Sections : ReadSection(s)
             \/ UNCHANGED cacheVars
      PROVE  OrientFresh' /\ AskedCleared'
  BY <1>5 DEF EnterFlight, Expire, CheckAgain, SetEntry, ReadSection, cacheVars,
              OrientFresh, AskedCleared
<1> QED BY <1>1, <1>2, <1>3, <1>4, <1>5 DEF CacheNext

\* The invariant of the cache: the three claims of freshness carry one another.
LEMMA CacheInvariant == CacheSpec => []CacheInv
<1>1. CacheInit => CacheInv
  BY BundleFacts DEF CacheInit, CacheInv, CacheTypeOK, CachedFresh, OrientFresh, BuildSees, AskedCleared
<1>2. CacheInv /\ [CacheNext]_cacheVars => CacheInv'
  BY CacheTypeStep, BuildSeesStep, CachedFreshStep, OrientFreshStep DEF CacheInv
<1> QED BY <1>1, <1>2, PTL DEF CacheSpec

\* The cache, the build and the callers keep their types.
THEOREM CacheTypeCorrect == CacheSpec => []CacheTypeOK
<1>1. CacheInv => CacheTypeOK
  BY DEF CacheInv
<1> QED BY <1>1, CacheInvariant, PTL

\* No answer of ProjectContext misses a write that was answered before it was asked
\* for, cleared the cache, and did not overlap the build the answer comes from.
THEOREM WriteThenOrient == CacheSpec => []CacheFresh
<1>1. CacheInv => CacheFresh
  BY DEF CacheInv, CacheFresh
<1> QED BY <1>1, CacheInvariant, PTL

----------------------------------------------------------------------------
(* The embedding worker. *)

\* A copy in the worker's hands is of the row's text, unless the row was edited since.
CopiesCurrent ==
  \A t \in worker.todo : t[2] = edits[t[1]] \/ t[1] \in raced

EmbedInv == EmbedTypeOK /\ VectorCurrent /\ ParkedIsPoison /\ CopiesCurrent

\* A copy names a row and an edit of it.
LEMMA TextFacts ==
  /\ \A t \in Text : t[1] \in EmbedRows /\ t[2] \in 0..MaxEdits /\ t = <<t[1], t[2]>>
  /\ NoVector \in Nat /\ NoVector \notin 0..MaxEdits /\ 0..MaxEdits \subseteq 0..NoVector
  /\ NoVector \in 0..NoVector /\ 0 \in 0..MaxEdits
  /\ Rejected \subseteq Text /\ Unusable \subseteq Text
BY EmbedAssumption DEF Text, NoVector

\* Wherever the worker goes next, it takes along none but its copies.
LEMMA WorkerFacts ==
  ASSUME worker \in Worker
  PROVE  /\ Waiting \in Worker /\ NextKind \in Worker
         /\ Waiting.todo = {} /\ NextKind.todo = {}
         /\ \A t : Handled(t) => worker' \in Worker /\ worker'.todo \subseteq worker.todo
<1>1. Waiting \in Worker /\ Waiting.todo = {}
  BY DEF Worker, Waiting
<1>2. NextKind \in Worker /\ NextKind.todo = {}
  BY <1>1 DEF Worker, Waiting, NextKind
<1>3. ASSUME NEW t, Handled(t) PROVE worker' \in Worker /\ worker'.todo \subseteq worker.todo
  <2>1. CASE worker' = [worker EXCEPT !.todo = worker.todo \ {t}]
    BY <2>1 DEF Worker
  <2>2. CASE worker' = NextKind
    BY <2>2, <1>2
  <2>3. CASE worker' = [worker EXCEPT !.at = "list", !.todo = {}]
    BY <2>3 DEF Worker
  <2> QED BY <1>3, <2>1, <2>2, <2>3 DEF Handled
<1> QED BY <1>1, <1>2, <1>3

\* What a batch consists of: copies of the rows as they are.
LEMMA ListBatchFacts ==
  ASSUME EmbedTypeOK, ListBatch
  PROVE  /\ worker' \in Worker
         /\ \A t \in worker'.todo : t[2] = edits[t[1]]
<1> USE DEF EmbedTypeOK
<1>1. Backlog(worker.kind) \subseteq EmbedRows
  BY DEF Backlog, ItemsNeeding, ActivityNeeding, EmbedRows
<1>2. CASE worker' = NextKind
  BY <1>2, WorkerFacts
<1>3. ASSUME NEW rows \in SUBSET Backlog(worker.kind),
             worker' = [worker EXCEPT !.at = "call", !.todo = {<<r, edits[r]>> : r \in rows},
                          !.short = Cardinality(rows) < EmbedBatch]
      PROVE  worker' \in Worker /\ \A t \in worker'.todo : t[2] = edits[t[1]]
  <2>1. {<<r, edits[r]>> : r \in rows} \subseteq Text
    BY <1>1 DEF Text
  <2> DEFINE short == Cardinality(rows) < EmbedBatch
  <2>2. short \in BOOLEAN
    OBVIOUS
  <2>3. worker' = [worker EXCEPT !.at = "call", !.todo = {<<r, edits[r]>> : r \in rows},
                     !.short = short]
    BY <1>3
  <2>4. /\ worker' = [at |-> "call", kind |-> worker.kind, todo |-> {<<r, edits[r]>> : r \in rows},
                       short |-> short]
        /\ worker.kind \in {"items", "activity"}
    BY <2>3 DEF Worker
  <2> HIDE DEF short
  <2>5. worker' \in Worker
    BY <2>1, <2>2, <2>4 DEF Worker
  <2>6. \A t \in {<<r, edits[r]>> : r \in rows} : t[2] = edits[t[1]]
    OBVIOUS
  <2> QED BY <2>4, <2>5, <2>6
<1>4. \/ worker' = NextKind
      \/ \E rows \in SUBSET Backlog(worker.kind) :
           worker' = [worker EXCEPT !.at = "call", !.todo = {<<r, edits[r]>> : r \in rows},
                        !.short = Cardinality(rows) < EmbedBatch]
  BY DEF ListBatch
<1> QED BY <1>2, <1>3, <1>4

\* What a step of the worker at one copy does to the rows: it may store the copy's
\* vector, and marks only the row of a text that is refused, unusable, or was sent
\* with a refused key.
LEMMA SaveFacts ==
  ASSUME EmbedTypeOK, NEW t \in worker.todo, SaveVec(t) \/ ParkRow(t)
  PROVE  /\ vector' \in [EmbedRows -> 0..NoVector]
         /\ vector' = vector \/ vector' = [vector EXCEPT ![t[1]] = t[2]]
         /\ \/ failedMark' \subseteq failedMark
            \/ /\ failedMark' = failedMark \cup {t[1]}
               /\ t \in Rejected \cup Unusable \/ t[1] \in denied'
         /\ denied \subseteq denied' /\ denied' \subseteq denied \cup {t[1]}
         /\ worker' \in Worker /\ worker'.todo \subseteq worker.todo
         /\ UNCHANGED <<edits, deleted, raced, outages>>
<1>t. t \in Text /\ worker \in Worker /\ vector \in [EmbedRows -> 0..NoVector]
  BY DEF EmbedTypeOK, Worker
<1>1. [vector EXCEPT ![t[1]] = t[2]] \in [EmbedRows -> 0..NoVector]
  BY <1>t, TextFacts
<1>2. Handled(t) => worker' \in Worker /\ worker'.todo \subseteq worker.todo
  BY <1>t, WorkerFacts
<1>3. CASE SaveVec(t)
  BY <1>t, <1>1, <1>2, <1>3 DEF SaveVec, SetEmbedding, MarkFailed
<1>4. CASE ParkRow(t)
  BY <1>t, <1>2, <1>4 DEF ParkRow, MarkFailed
<1> QED BY <1>3, <1>4

\* Every step keeps what the worker leaves in the rows current.
LEMMA EmbedStep == EmbedInv /\ [EmbedNext]_embedVars => EmbedInv'
<1> SUFFICES ASSUME EmbedInv, [EmbedNext]_embedVars PROVE EmbedInv'
  OBVIOUS
<1> USE DEF EmbedInv
<1>t. /\ edits \in [EmbedRows -> 0..MaxEdits] /\ vector \in [EmbedRows -> 0..NoVector]
      /\ failedMark \subseteq EmbedRows /\ deleted \subseteq EmbedRows
      /\ raced \subseteq ItemRows /\ denied \subseteq EmbedRows /\ outages \in 0..MaxOutages
      /\ worker \in Worker /\ worker.todo \subseteq Text
  BY DEF EmbedTypeOK, Worker
<1>w. Waiting \in Worker /\ NextKind \in Worker /\ Waiting.todo = {} /\ NextKind.todo = {}
  BY <1>t, WorkerFacts
<1>1. CASE EmbedTick
  <2>1. worker' \in Worker /\ worker'.todo = {}
    BY <1>1 DEF EmbedTick, Waiting, Worker
  <2> QED BY <1>1, <2>1 DEF EmbedTick, rowVars, EmbedTypeOK, VectorCurrent, ParkedIsPoison, CopiesCurrent
<1>2. CASE ListBatch
  <2>1. UNCHANGED <<edits, vector, failedMark, deleted, raced, denied, outages>>
    BY <1>2 DEF ListBatch, rowVars
  <2> QED BY <1>2, <2>1, ListBatchFacts DEF EmbedTypeOK, VectorCurrent, ParkedIsPoison, CopiesCurrent
<1>3. CASE EmbedCall \/ KeyRefused
  <2>1. worker' \in Worker /\ worker'.todo = worker.todo
    BY <1>3, <1>t DEF EmbedCall, KeyRefused, Worker
  <2>2. outages' \in 0..MaxOutages
    BY <1>3, <1>t, EmbedAssumption DEF EmbedCall, KeyRefused
  <2> QED BY <1>3, <2>1, <2>2 DEF EmbedCall, KeyRefused, rowVars, EmbedTypeOK, VectorCurrent, ParkedIsPoison,
              CopiesCurrent
<1>4. ASSUME NEW t \in worker.todo, SaveVec(t) \/ ParkRow(t) PROVE EmbedInv'
  <2>1. t \in Text /\ t[1] \in EmbedRows /\ t = <<t[1], t[2]>>
    BY <1>t, TextFacts
  <2>2. t[2] = edits[t[1]] \/ t[1] \in raced
    BY DEF CopiesCurrent
  <2>3. EmbedTypeOK'
    BY <1>4, <1>t, <2>1, SaveFacts DEF EmbedTypeOK
  <2>4. VectorCurrent'
    BY <1>4, <1>t, <2>1, <2>2, SaveFacts DEF VectorCurrent
  <2>5. ParkedIsPoison'
    BY <1>4, <2>1, <2>2, SaveFacts DEF ParkedIsPoison
  <2>6. CopiesCurrent'
    BY <1>4, SaveFacts DEF CopiesCurrent
  <2> QED BY <2>3, <2>4, <2>5, <2>6
<1>5. ASSUME \/ \E t \in worker.todo : SaveOrphan(t)
             \/ Outage \/ StopEmbedder
      PROVE  EmbedInv'
  <2>1. UNCHANGED <<edits, vector, failedMark, deleted, raced, denied>> /\ worker' \in {NextKind, Waiting}
    BY <1>5 DEF SaveOrphan, Outage, StopEmbedder, rowVars
  <2>2. outages' \in 0..MaxOutages
    BY <1>5, <1>t, EmbedAssumption DEF SaveOrphan, Outage, StopEmbedder
  <2> QED BY <1>w, <2>1, <2>2 DEF EmbedTypeOK, VectorCurrent, ParkedIsPoison, CopiesCurrent
<1>6. ASSUME NEW r \in EmbedRows, EditText(r) PROVE EmbedInv'
  <2>1. /\ r \in ItemRows /\ edits' = [edits EXCEPT ![r] = edits[r] + 1]
        /\ vector' = [vector EXCEPT ![r] = NoVector]
        /\ failedMark' = failedMark \ {r} /\ denied' = denied \ {r}
        /\ UNCHANGED <<deleted, worker, outages>>
        /\ edits[r] + 1 \in 0..MaxEdits
    BY <1>6, <1>t, EmbedAssumption DEF EditText, ResetEmbedding
  <2>2. /\ \A k : k # r => (k \in raced' <=> k \in raced)
        /\ (\E t \in worker.todo : t[1] = r) => r \in raced'
        /\ raced' \subseteq ItemRows
    BY <1>6, <1>t DEF EditText
  <2>3. EmbedTypeOK'
    BY <1>t, <2>1, <2>2, TextFacts DEF EmbedTypeOK
  <2>4. VectorCurrent'
    BY <1>t, <2>1, <2>2 DEF VectorCurrent
  <2>5. ParkedIsPoison'
    BY <1>t, <2>1, <2>2 DEF ParkedIsPoison
  <2>6. CopiesCurrent'
    BY <1>t, <2>1, <2>2, TextFacts DEF CopiesCurrent
  <2> QED BY <2>3, <2>4, <2>5, <2>6
<1>7. ASSUME (\E r \in EmbedRows : DeleteRow(r)) \/ UNCHANGED embedVars PROVE EmbedInv'
  BY <1>7, <1>t DEF DeleteRow, embedVars, EmbedTypeOK, VectorCurrent, ParkedIsPoison, CopiesCurrent
<1> QED BY <1>1, <1>2, <1>3, <1>4, <1>5, <1>6, <1>7 DEF EmbedNext, WorkerStep

\* The invariant of the embedding worker; no fairness is used.
LEMMA EmbedInvariant == EmbedInit /\ [][EmbedNext]_embedVars => []EmbedInv
<1>1. EmbedInit => EmbedInv
  BY TextFacts, EmbedAssumption DEF EmbedInit, EmbedInv, EmbedTypeOK, VectorCurrent, ParkedIsPoison,
     CopiesCurrent, Waiting, Worker
<1> QED BY <1>1, EmbedStep, PTL

\* A vector or a failed mark is about the text the row has now, unless the row was
\* edited while the worker had a copy of it, or its mark came of a refused key.
THEOREM VectorsOfCurrentText == EmbedSpec => []EmbeddingSound
<1>1. EmbedInv => EmbeddingSound
  BY DEF EmbedInv, EmbeddingSound
<1> QED BY <1>1, EmbedInvariant, PTL DEF EmbedSpec

----------------------------------------------------------------------------
(* The sessions of the MCP server. *)

\* A write whose session was new to the set and that has not looked yet owes a nudge.
Owes(x, s) ==
  x.of = s /\ x.kind = "write" /\ x.at \in {"count", "sweep", "zero", "look"}

Owing(s) == {c \in ToolCalls : Owes(calls[c], s)}

\* What each session was given or is owed, against what the set has taken in.
Ledger ==
  \A s \in McpSessions :
    nudges[s] + Cardinality(Owing(s))
      = swept["nudged"][s] + (IF s \in set["nudged"] THEN 1 ELSE 0)

\* A call at work is of some session, and only a write gets to look.
CallsNamed ==
  \A c \in ToolCalls : calls[c].at # "none" =>
    /\ calls[c].of \in McpSessions /\ calls[c].kind \in {"write", "orient"}
    /\ calls[c].at = "look" => calls[c].kind = "write"

\* A session that oriented is in the set, or a reset removed it.
OrientedKept ==
  /\ \A s \in oriented : s \in set["oriented"] \/ swept["oriented"][s] > 0
  /\ \A s \in misled : swept["oriented"][s] > 0

SessionsInv == SessionsTypeOK /\ CallsNamed /\ Ledger /\ OrientedKept

\* One call's step moves it in or out of what a session is owed, and no other call.
LEMMA OwingChange ==
  ASSUME calls \in [ToolCalls -> SessionCall], NEW c \in ToolCalls, NEW x,
         calls' = [calls EXCEPT ![c] = x], NEW s
  PROVE  /\ IsFiniteSet(Owing(s)) /\ Cardinality(Owing(s)) \in Nat
         /\ (Owes(x, s) <=> Owes(calls[c], s)) => Owing(s)' = Owing(s)
         /\ Owes(x, s) /\ ~Owes(calls[c], s)
              => Cardinality(Owing(s)') = Cardinality(Owing(s)) + 1
         /\ ~Owes(x, s) /\ Owes(calls[c], s)
              => Cardinality(Owing(s)) = Cardinality(Owing(s)') + 1
<1>1. \A d \in ToolCalls : calls'[d] = IF d = c THEN x ELSE calls[d]
  OBVIOUS
<1>2. IsFiniteSet(Owing(s)) /\ IsFiniteSet(Owing(s)')
  BY SessionsAssumption, FS_Subset DEF Owing
<1>3. Cardinality(Owing(s)) \in Nat /\ Cardinality(Owing(s)') \in Nat
  BY <1>2, FS_CardinalityType
<1>4. ASSUME Owes(x, s) <=> Owes(calls[c], s) PROVE Owing(s)' = Owing(s)
  BY <1>1, <1>4 DEF Owing, Owes
<1>5. ASSUME Owes(x, s), ~Owes(calls[c], s)
      PROVE  Cardinality(Owing(s)') = Cardinality(Owing(s)) + 1
  <2>1. Owing(s)' = Owing(s) \cup {c} /\ c \notin Owing(s)
    BY <1>1, <1>5 DEF Owing, Owes
  <2> QED BY <1>2, <2>1, FS_AddElement
<1>6. ASSUME ~Owes(x, s), Owes(calls[c], s)
      PROVE  Cardinality(Owing(s)) = Cardinality(Owing(s)') + 1
  <2>1. Owing(s) = Owing(s)' \cup {c} /\ c \notin Owing(s)'
    BY <1>1, <1>6 DEF Owing, Owes
  <2> QED BY <1>2, <2>1, FS_AddElement
<1> QED BY <1>2, <1>3, <1>4, <1>5, <1>6

\* Every step keeps the types of the sets, the counters and the calls.
LEMMA SessionsTypeStep ==
  SessionsInv /\ [SessionsNext]_sessionVars => SessionsTypeOK' /\ CallsNamed'
<1> SUFFICES ASSUME SessionsInv, [SessionsNext]_sessionVars
             PROVE  SessionsTypeOK' /\ CallsNamed'
  OBVIOUS
<1>t. SessionsTypeOK /\ CallsNamed
  BY DEF SessionsInv
<1>q. Quiet \in SessionCall /\ Quiet.at = "none"
  BY DEF Quiet, SessionCall
<1>1. ASSUME NEW c \in ToolCalls, NEW s \in McpSessions, NEW kind \in {"write", "orient"},
             Run(c, s, kind)
      PROVE  SessionsTypeOK' /\ CallsNamed'
  <2> DEFINE x == [Quiet EXCEPT !.at = "run", !.of = s, !.kind = kind]
  <2>1. x \in SessionCall /\ x.of = s /\ x.kind = kind /\ x.at = "run"
    BY DEF Quiet, SessionCall
  <2> HIDE DEF x
  <2>2. calls' = [calls EXCEPT ![c] = x]
    BY <1>1 DEF Run, x
  <2>3. started' \in [McpSessions -> 0..MaxToolCalls]
    BY <1>1, <1>t, SessionsAssumption DEF Run, SessionsTypeOK
  <2> QED BY <1>1, <1>t, <2>1, <2>2, <2>3 DEF Run, SessionsTypeOK, CallsNamed
<1>2. ASSUME NEW c \in ToolCalls, LoadOrStore(c) PROVE SessionsTypeOK' /\ CallsNamed'
  <2>1. calls[c].of \in McpSessions /\ SetOf(c) \in Sets
    BY <1>2, <1>t DEF LoadOrStore, CallsNamed, SetOf, Sets
  <2>2. [calls[c] EXCEPT !.at = "count"] \in SessionCall
    BY <1>t DEF SessionsTypeOK, SessionCall
  <2>3. set' \in [Sets -> SUBSET McpSessions] /\ oriented' \subseteq McpSessions
    BY <1>2, <1>t, <2>1 DEF LoadOrStore, SessionsTypeOK
  <2>4. calls' \in [ToolCalls -> SessionCall]
    BY <1>2, <1>t, <1>q, <2>2 DEF LoadOrStore, SessionsTypeOK
  <2>5. CallsNamed'
    BY <1>2, <1>t, <1>q DEF LoadOrStore, CallsNamed, SessionsTypeOK, SessionCall
  <2> QED BY <1>2, <1>t, <2>3, <2>4, <2>5 DEF LoadOrStore, SessionsTypeOK
<1>a. ASSUME NEW c \in ToolCalls
      PROVE  /\ Added(c) \in SessionCall /\ Added(c).at \in {"none", "look"}
             /\ Added(c).at = "look"
                  => Added(c).of = calls[c].of /\ Added(c).kind = "write" /\ calls[c].kind = "write"
  BY <1>t, <1>q DEF Added, SessionsTypeOK, SessionCall
<1>3. ASSUME NEW c \in ToolCalls, Count(c) PROVE SessionsTypeOK' /\ CallsNamed'
  <2>1. SetOf(c) \in Sets /\ n' \in [Sets -> Nat]
    BY <1>3, <1>t DEF Count, SetOf, Sets, SessionsTypeOK
  <2> DEFINE x == [calls[c] EXCEPT !.at = "sweep", !.left = McpSessions]
  <2>2. x \in SessionCall /\ x.of = calls[c].of /\ x.kind = calls[c].kind /\ x.at = "sweep"
    BY <1>t DEF SessionsTypeOK, SessionCall
  <2> HIDE DEF x
  <2>3. calls' = [calls EXCEPT ![c] = x] \/ calls' = [calls EXCEPT ![c] = Added(c)]
    BY <1>3 DEF Count, x
  <2>4. calls' \in [ToolCalls -> SessionCall]
    BY <1>t, <1>a, <2>2, <2>3 DEF SessionsTypeOK
  <2>5. CallsNamed'
    BY <1>3, <1>t, <1>a, <2>2, <2>3 DEF Count, CallsNamed, SessionsTypeOK
  <2> QED BY <1>3, <1>t, <2>1, <2>4, <2>5 DEF Count, SessionsTypeOK
<1>4. ASSUME NEW c \in ToolCalls, SweepKeys(c) PROVE SessionsTypeOK' /\ CallsNamed'
  <2>1. SetOf(c) \in Sets
    BY DEF SetOf, Sets
  <2>2. set' \in [Sets -> SUBSET McpSessions] /\ swept' \in [Sets -> [McpSessions -> Nat]]
    <3>1. CASE UNCHANGED <<set, swept>>
      BY <1>t, <3>1 DEF SessionsTypeOK
    <3>2. ASSUME NEW s \in calls[c].left,
                 set' = [set EXCEPT ![SetOf(c)] = @ \ {s}],
                 swept' = [swept EXCEPT ![SetOf(c)][s] = IF s \in set[SetOf(c)] THEN @ + 1 ELSE @]
          PROVE  set' \in [Sets -> SUBSET McpSessions] /\ swept' \in [Sets -> [McpSessions -> Nat]]
      <4> DEFINE k == SetOf(c)
                 row == [swept[k] EXCEPT ![s] = IF s \in set[k] THEN @ + 1 ELSE @]
      <4>1. k \in Sets /\ swept[k] \in [McpSessions -> Nat] /\ set[k] \subseteq McpSessions
        BY <1>t, <2>1 DEF SessionsTypeOK
      <4>2. s \in McpSessions
        BY <1>t DEF SessionsTypeOK, SessionCall
      <4>3. row \in [McpSessions -> Nat]
        <5>1. (IF s \in set[k] THEN swept[k][s] + 1 ELSE swept[k][s]) \in Nat
          BY <4>1, <4>2
        <5>2. row = [swept[k] EXCEPT ![s] = IF s \in set[k] THEN swept[k][s] + 1 ELSE swept[k][s]]
          OBVIOUS
        <5> HIDE DEF k, row
        <5> QED BY <4>1, <4>2, <5>1, <5>2
      <4>4. swept' = [swept EXCEPT ![k] = row] /\ set' = [set EXCEPT ![k] = set[k] \ {s}]
        BY <3>2
      <4> HIDE DEF k, row
      <4> QED BY <1>t, <4>1, <4>3, <4>4 DEF SessionsTypeOK
    <3> QED BY <1>4, <3>1, <3>2 DEF SweepKeys
  <2>3. \E x \in SessionCall :
          calls' = [calls EXCEPT ![c] = x] /\ x.of = calls[c].of /\ x.kind = calls[c].kind
            /\ x.at \in {"sweep", "zero"}
    <3>1. calls[c] \in SessionCall /\ calls[c].at = "sweep"
      BY <1>4, <1>t DEF SweepKeys, SessionsTypeOK
    <3>2. ASSUME NEW s PROVE [calls[c] EXCEPT !.left = @ \ {s}] \in SessionCall
      BY <3>1 DEF SessionCall
    <3>3. [calls[c] EXCEPT !.at = "zero"] \in SessionCall
      BY <3>1 DEF SessionCall
    <3>4. (\E s : calls' = [calls EXCEPT ![c] = [calls[c] EXCEPT !.left = @ \ {s}]])
            \/ calls' = [calls EXCEPT ![c] = [calls[c] EXCEPT !.at = "zero"]]
      BY <1>4 DEF SweepKeys
    <3>5. CASE calls' = [calls EXCEPT ![c] = [calls[c] EXCEPT !.at = "zero"]]
      BY <3>1, <3>3, <3>5 DEF SessionCall
    <3>6. ASSUME NEW s, calls' = [calls EXCEPT ![c] = [calls[c] EXCEPT !.left = @ \ {s}]]
          PROVE  \E x \in SessionCall :
                   calls' = [calls EXCEPT ![c] = x] /\ x.of = calls[c].of /\ x.kind = calls[c].kind
                     /\ x.at \in {"sweep", "zero"}
      BY <3>1, <3>2, <3>6 DEF SessionCall
    <3> QED BY <3>4, <3>5, <3>6
  <2>4. calls' \in [ToolCalls -> SessionCall]
    BY <1>t, <2>3 DEF SessionsTypeOK
  <2>5. CallsNamed'
    BY <1>4, <1>t, <2>3 DEF SweepKeys, CallsNamed, SessionsTypeOK
  <2> QED BY <1>4, <1>t, <2>2, <2>4, <2>5 DEF SweepKeys, SessionsTypeOK
<1>5. ASSUME NEW c \in ToolCalls, StoreZero(c) PROVE SessionsTypeOK' /\ CallsNamed'
  <2>1. n' \in [Sets -> Nat]
    BY <1>5, <1>t DEF StoreZero, SessionsTypeOK
  <2>2. calls' \in [ToolCalls -> SessionCall]
    BY <1>5, <1>t, <1>a DEF StoreZero, SessionsTypeOK
  <2>3. CallsNamed'
    BY <1>5, <1>t, <1>a DEF StoreZero, CallsNamed, SessionsTypeOK
  <2> QED BY <1>5, <1>t, <2>1, <2>2, <2>3 DEF StoreZero, SessionsTypeOK
<1>6. ASSUME NEW c \in ToolCalls, Look(c) PROVE SessionsTypeOK' /\ CallsNamed'
  <2>1. calls[c].of \in McpSessions
    BY <1>6, <1>t DEF Look, CallsNamed
  <2>2. nudges' \in [McpSessions -> Nat] /\ misled' \subseteq McpSessions
    BY <1>6, <1>t, <2>1 DEF Look, SessionsTypeOK
  <2>3. calls' \in [ToolCalls -> SessionCall] /\ CallsNamed'
    BY <1>6, <1>t, <1>q DEF Look, CallsNamed, SessionsTypeOK
  <2> QED BY <1>6, <1>t, <2>2, <2>3 DEF Look, SessionsTypeOK
<1>7. CASE UNCHANGED sessionVars
  BY <1>7, <1>t DEF sessionVars, SessionsTypeOK, CallsNamed
<1> QED BY <1>1, <1>2, <1>3, <1>4, <1>5, <1>6, <1>7 DEF SessionsNext

\* Every step keeps the account of the nudges: what is owed was new to the set.
LEMMA LedgerStep == SessionsInv /\ [SessionsNext]_sessionVars => Ledger'
<1> SUFFICES ASSUME SessionsInv, [SessionsNext]_sessionVars, NEW s \in McpSessions
             PROVE  nudges'[s] + Cardinality(Owing(s)')
                      = swept'["nudged"][s] + (IF s \in set'["nudged"] THEN 1 ELSE 0)
  BY DEF Ledger, Owing, Owes
<1>t. /\ calls \in [ToolCalls -> SessionCall] /\ CallsNamed
      /\ nudges \in [McpSessions -> Nat] /\ set \in [Sets -> SUBSET McpSessions]
      /\ swept \in [Sets -> [McpSessions -> Nat]]
      /\ swept["nudged"][s] \in Nat /\ nudges[s] \in Nat
      /\ "nudged" \in Sets /\ "oriented" \in Sets
  BY DEF SessionsInv, SessionsTypeOK, Sets
<1>l. nudges[s] + Cardinality(Owing(s))
        = swept["nudged"][s] + (IF s \in set["nudged"] THEN 1 ELSE 0)
  BY DEF SessionsInv, Ledger
<1>same. ASSUME NEW c \in ToolCalls, NEW x, calls' = [calls EXCEPT ![c] = x],
                Owes(x, s) <=> Owes(calls[c], s)
         PROVE  Cardinality(Owing(s)') = Cardinality(Owing(s))
  BY <1>t, <1>same, OwingChange
<1>1. ASSUME NEW c \in ToolCalls, NEW z \in McpSessions, NEW kind, Run(c, z, kind)
      PROVE  nudges'[s] + Cardinality(Owing(s)')
               = swept'["nudged"][s] + (IF s \in set'["nudged"] THEN 1 ELSE 0)
  <2> DEFINE x == [Quiet EXCEPT !.at = "run", !.of = z, !.kind = kind]
  <2>1. ~Owes(x, s) /\ ~Owes(calls[c], s) /\ calls' = [calls EXCEPT ![c] = x]
    BY <1>1 DEF Run, Owes, Quiet
  <2> HIDE DEF x
  <2>2. Cardinality(Owing(s)') = Cardinality(Owing(s))
    BY <2>1, <1>same
  <2> QED BY <1>1, <1>l, <2>2 DEF Run
<1>2. ASSUME NEW c \in ToolCalls, LoadOrStore(c)
      PROVE  nudges'[s] + Cardinality(Owing(s)')
               = swept'["nudged"][s] + (IF s \in set'["nudged"] THEN 1 ELSE 0)
  <2> DEFINE x == IF calls[c].of \in set[SetOf(c)] THEN Quiet ELSE [calls[c] EXCEPT !.at = "count"]
  <2>1. /\ calls' = [calls EXCEPT ![c] = x] /\ ~Owes(calls[c], s)
        /\ set' = [set EXCEPT ![SetOf(c)] = set[SetOf(c)] \cup {calls[c].of}]
        /\ nudges' = nudges /\ swept' = swept
        /\ calls[c].of \in McpSessions /\ calls[c] \in SessionCall
    BY <1>2, <1>t DEF LoadOrStore, Owes, CallsNamed
  <2>2. CASE calls[c].kind = "write" /\ calls[c].of = s /\ s \notin set["nudged"]
    <3>1. Owes(x, s) /\ set'["nudged"] = set["nudged"] \cup {s}
      BY <1>t, <2>1, <2>2 DEF Owes, SetOf, SessionCall
    <3> HIDE DEF x
    <3>2. Cardinality(Owing(s)') = Cardinality(Owing(s)) + 1 /\ Cardinality(Owing(s)) \in Nat
      BY <1>t, <2>1, <3>1, OwingChange
    <3> QED BY <1>t, <1>l, <2>1, <2>2, <3>1, <3>2
  <2>3. CASE ~(calls[c].kind = "write" /\ calls[c].of = s /\ s \notin set["nudged"])
    <3>1. ~Owes(x, s)
      BY <1>t, <2>1, <2>3 DEF Owes, SetOf, SessionCall, Quiet
    <3>2. s \in set'["nudged"] <=> s \in set["nudged"]
      BY <1>t, <2>1, <2>3 DEF SetOf
    <3> HIDE DEF x
    <3>3. Cardinality(Owing(s)') = Cardinality(Owing(s))
      BY <2>1, <3>1, <1>same
    <3> QED BY <1>l, <2>1, <3>2, <3>3
  <2> QED BY <2>2, <2>3
<1>3. ASSUME NEW c \in ToolCalls, Count(c) \/ StoreZero(c)
      PROVE  nudges'[s] + Cardinality(Owing(s)')
               = swept'["nudged"][s] + (IF s \in set'["nudged"] THEN 1 ELSE 0)
  <2>1. nudges' = nudges /\ swept' = swept /\ set' = set
        /\ calls[c] \in SessionCall /\ calls[c].at \in {"count", "zero"}
    BY <1>3, <1>t DEF Count, StoreZero
  <2>2. Owes(Added(c), s) <=> Owes(calls[c], s)
    BY <2>1 DEF Added, Owes, SessionCall, Quiet
  <2> DEFINE x == [calls[c] EXCEPT !.at = "sweep", !.left = McpSessions]
  <2>3. Owes(x, s) <=> Owes(calls[c], s)
    BY <2>1 DEF Owes, SessionCall
  <2> HIDE DEF x
  <2>4. calls' = [calls EXCEPT ![c] = Added(c)] \/ calls' = [calls EXCEPT ![c] = x]
    BY <1>3 DEF Count, StoreZero, x
  <2>5. Cardinality(Owing(s)') = Cardinality(Owing(s))
    BY <1>same, <2>2, <2>3, <2>4
  <2> QED BY <1>l, <2>1, <2>5
<1>4. ASSUME NEW c \in ToolCalls, SweepKeys(c)
      PROVE  nudges'[s] + Cardinality(Owing(s)')
               = swept'["nudged"][s] + (IF s \in set'["nudged"] THEN 1 ELSE 0)
  <2>0. nudges' = nudges /\ calls[c] \in SessionCall /\ calls[c].at = "sweep"
    BY <1>4, <1>t DEF SweepKeys
  <2>1. ASSUME NEW z \in calls[c].left,
               set' = [set EXCEPT ![SetOf(c)] = @ \ {z}],
               swept' = [swept EXCEPT ![SetOf(c)][z] = IF z \in set[SetOf(c)] THEN @ + 1 ELSE @],
               calls' = [calls EXCEPT ![c].left = @ \ {z}]
        PROVE  nudges'[s] + Cardinality(Owing(s)')
                 = swept'["nudged"][s] + (IF s \in set'["nudged"] THEN 1 ELSE 0)
    <3> DEFINE x == [calls[c] EXCEPT !.left = @ \ {z}]
    <3>1. Owes(x, s) <=> Owes(calls[c], s)
      BY <2>0 DEF Owes, SessionCall
    <3>2. calls' = [calls EXCEPT ![c] = x]
      BY <2>1
    <3> HIDE DEF x
    <3>3. Cardinality(Owing(s)') = Cardinality(Owing(s)) /\ Cardinality(Owing(s)) \in Nat
      BY <1>t, <3>1, <3>2, <1>same, OwingChange
    <3>4. CASE SetOf(c) = "nudged" /\ z = s /\ s \in set["nudged"]
      <4>1. swept'["nudged"][s] = swept["nudged"][s] + 1 /\ s \notin set'["nudged"]
        BY <1>t, <2>1, <3>4
      <4> QED BY <1>t, <1>l, <2>0, <3>3, <3>4, <4>1
    <3>5. CASE ~(SetOf(c) = "nudged" /\ z = s /\ s \in set["nudged"])
      <4>1. swept'["nudged"][s] = swept["nudged"][s] /\ (s \in set'["nudged"] <=> s \in set["nudged"])
        BY <1>t, <2>1, <3>5
      <4> QED BY <1>l, <2>0, <3>3, <4>1
    <3> QED BY <3>4, <3>5
  <2>2. CASE UNCHANGED <<set, swept>> /\ calls' = [calls EXCEPT ![c].at = "zero"]
    <3> DEFINE x == [calls[c] EXCEPT !.at = "zero"]
    <3>1. Owes(x, s) <=> Owes(calls[c], s)
      BY <2>0 DEF Owes, SessionCall
    <3>2. calls' = [calls EXCEPT ![c] = x]
      BY <2>2
    <3> HIDE DEF x
    <3>3. Cardinality(Owing(s)') = Cardinality(Owing(s))
      BY <3>1, <3>2, <1>same
    <3> QED BY <1>l, <2>0, <2>2, <3>3
  <2> QED BY <1>4, <2>1, <2>2 DEF SweepKeys
<1>5. ASSUME NEW c \in ToolCalls, Look(c)
      PROVE  nudges'[s] + Cardinality(Owing(s)')
               = swept'["nudged"][s] + (IF s \in set'["nudged"] THEN 1 ELSE 0)
  <2>1. /\ calls' = [calls EXCEPT ![c] = Quiet] /\ ~Owes(Quiet, s)
        /\ swept' = swept /\ set' = set
        /\ nudges' = [nudges EXCEPT ![calls[c].of] = nudges[calls[c].of] + 1]
        /\ Owes(calls[c], s) <=> s = calls[c].of
        /\ calls[c].of \in McpSessions
    BY <1>5, <1>t DEF Look, Owes, Quiet, CallsNamed
  <2>2. CASE s = calls[c].of
    <3>1. Cardinality(Owing(s)) = Cardinality(Owing(s)') + 1 /\ Cardinality(Owing(s)) \in Nat
      BY <1>t, <2>1, <2>2, OwingChange
    <3>2. nudges'[s] = nudges[s] + 1
      BY <1>t, <2>1, <2>2
    <3>3. IsFiniteSet(Owing(s)')
      BY SessionsAssumption, FS_Subset DEF Owing
    <3>4. Cardinality(Owing(s)') \in Nat
      BY <3>3, FS_CardinalityType
    <3>5. swept'["nudged"][s] + (IF s \in set'["nudged"] THEN 1 ELSE 0)
            = swept["nudged"][s] + (IF s \in set["nudged"] THEN 1 ELSE 0)
      BY <2>1
    <3>6. nudges'[s] + Cardinality(Owing(s)') = nudges[s] + Cardinality(Owing(s))
      BY <1>t, <3>1, <3>2, <3>4
    <3> QED BY <1>l, <3>5, <3>6
  <2>3. CASE s # calls[c].of
    <3>1. Cardinality(Owing(s)') = Cardinality(Owing(s))
      BY <2>1, <2>3, <1>same
    <3>2. nudges'[s] = nudges[s]
      BY <1>t, <2>1, <2>3
    <3> QED BY <1>l, <2>1, <3>1, <3>2
  <2> QED BY <2>2, <2>3
<1>6. CASE UNCHANGED sessionVars
  <2>1. Owing(s)' = Owing(s)
    BY <1>6 DEF sessionVars, Owing, Owes
  <2> QED BY <1>6, <1>l, <2>1 DEF sessionVars
<1> QED BY <1>1, <1>2, <1>3, <1>4, <1>5, <1>6 DEF SessionsNext

\* Every step keeps a session that oriented in the set, or says which reset took it out.
LEMMA OrientedStep == SessionsInv /\ [SessionsNext]_sessionVars => OrientedKept'
<1> SUFFICES ASSUME SessionsInv, [SessionsNext]_sessionVars PROVE OrientedKept'
  OBVIOUS
<1>t. /\ CallsNamed /\ OrientedKept
      /\ set \in [Sets -> SUBSET McpSessions]
      /\ swept \in [Sets -> [McpSessions -> Nat]]
      /\ swept["oriented"] \in [McpSessions -> Nat]
      /\ "nudged" \in Sets /\ "oriented" \in Sets
      /\ oriented \subseteq McpSessions /\ misled \subseteq McpSessions
  BY DEF SessionsInv, SessionsTypeOK, Sets
<1>1. ASSUME NEW c \in ToolCalls, LoadOrStore(c) PROVE OrientedKept'
  <2>1. set'["oriented"] = IF SetOf(c) = "oriented" THEN set["oriented"] \cup {calls[c].of}
                           ELSE set["oriented"]
    BY <1>1, <1>t DEF LoadOrStore, SetOf
  <2> QED BY <1>1, <1>t, <2>1 DEF LoadOrStore, OrientedKept
<1>2. ASSUME NEW c \in ToolCalls, SweepKeys(c) PROVE OrientedKept'
  <2>1. ASSUME NEW z \in calls[c].left,
               set' = [set EXCEPT ![SetOf(c)] = @ \ {z}],
               swept' = [swept EXCEPT ![SetOf(c)][z] = IF z \in set[SetOf(c)] THEN @ + 1 ELSE @]
        PROVE  \A s \in McpSessions :
                 /\ swept'["oriented"][s] >= swept["oriented"][s]
                 /\ s \in set["oriented"] => s \in set'["oriented"] \/ swept'["oriented"][s] > 0
    <3> SUFFICES ASSUME NEW s \in McpSessions
                 PROVE  /\ swept'["oriented"][s] >= swept["oriented"][s]
                        /\ s \in set["oriented"] =>
                             s \in set'["oriented"] \/ swept'["oriented"][s] > 0
      OBVIOUS
    <3>1. swept["oriented"][s] \in Nat
      BY <1>t
    <3>2. CASE SetOf(c) = "oriented" /\ z = s /\ s \in set["oriented"]
      BY <1>t, <2>1, <3>1, <3>2
    <3>3. CASE ~(SetOf(c) = "oriented" /\ z = s /\ s \in set["oriented"])
      <4>1. swept'["oriented"][s] = swept["oriented"][s]
            /\ (s \in set'["oriented"] <=> s \in set["oriented"])
        BY <1>t, <2>1, <3>3
      <4> QED BY <3>1, <4>1
    <3> QED BY <3>2, <3>3
  <2>2. CASE UNCHANGED <<set, swept>>
    BY <1>2, <1>t, <2>2 DEF SweepKeys, OrientedKept
  <2>3. ASSUME \A s \in McpSessions :
                 /\ swept'["oriented"][s] >= swept["oriented"][s]
                 /\ s \in set["oriented"] => s \in set'["oriented"] \/ swept'["oriented"][s] > 0
        PROVE  OrientedKept'
    <3>1. \A s \in McpSessions : swept["oriented"][s] > 0 => swept'["oriented"][s] > 0
      <4> SUFFICES ASSUME NEW s \in McpSessions, swept["oriented"][s] > 0
                   PROVE  swept'["oriented"][s] > 0
        OBVIOUS
      <4>1. swept'["oriented"][s] >= swept["oriented"][s] /\ swept["oriented"][s] \in Nat
        BY <1>t, <2>3
      <4>2. swept' \in [Sets -> [McpSessions -> Nat]]
        BY SessionsTypeStep DEF SessionsTypeOK
      <4>3. swept'["oriented"][s] \in Nat
        BY <4>2, <1>t
      <4> QED BY <4>1, <4>3
    <3>2. oriented' = oriented /\ misled' = misled
      BY <1>2 DEF SweepKeys
    <3> QED BY <1>t, <2>3, <3>1, <3>2 DEF OrientedKept
  <2> QED BY <1>2, <2>1, <2>2, <2>3 DEF SweepKeys
<1>3. ASSUME NEW c \in ToolCalls, Look(c) PROVE OrientedKept'
  BY <1>3, <1>t DEF Look, OrientedKept
<1>4. ASSUME \/ \E c \in ToolCalls :
                  \/ \E s \in McpSessions, kind \in {"write", "orient"} : Run(c, s, kind)
                  \/ Count(c) \/ StoreZero(c)
             \/ UNCHANGED sessionVars
      PROVE  OrientedKept'
  BY <1>4, <1>t DEF Run, Count, StoreZero, sessionVars, OrientedKept
<1> QED BY <1>1, <1>2, <1>3, <1>4 DEF SessionsNext

\* The invariant of the two session sets.
LEMMA SessionsInvariant == SessionsSpec => []SessionsInv
<1>1. SessionsInit => SessionsInv
  <2> SUFFICES ASSUME SessionsInit PROVE SessionsInv
    OBVIOUS
  <2>1. \A s : Owing(s) = {}
    BY DEF SessionsInit, Owing, Owes, Quiet
  <2>2. Cardinality({}) = 0
    BY FS_EmptySet
  <2>3. SessionsTypeOK
    <3>1. Quiet \in SessionCall
      BY DEF Quiet, SessionCall
    <3>2. 0 \in 0..MaxToolCalls
      BY SessionsAssumption
    <3>3. swept \in [Sets -> [McpSessions -> Nat]]
      BY DEF SessionsInit
    <3> QED BY <3>1, <3>2, <3>3 DEF SessionsInit, SessionsTypeOK
  <2>4. Ledger
    BY <2>1, <2>2 DEF SessionsInit, Ledger, Sets
  <2> QED BY <2>3, <2>4 DEF SessionsInit, SessionsInv, CallsNamed, OrientedKept, Quiet
<1>2. SessionsInv /\ [SessionsNext]_sessionVars => SessionsInv'
  BY SessionsTypeStep, LedgerStep, OrientedStep DEF SessionsInv
<1> QED BY <1>1, <1>2, PTL DEF SessionsSpec

\* A session is nudged once, and again only after a reset of the set forgot it; and is
\* told to orient after it did only when a reset forgot that it had.
THEOREM NudgedOncePerReset == SessionsSpec => []NudgesHonest
<1>1. SessionsInv => NudgesHonest
  <2> SUFFICES ASSUME SessionsInv PROVE NudgesHonest
    OBVIOUS
  <2>1. ASSUME NEW s \in McpSessions PROVE nudges[s] <= 1 + swept["nudged"][s]
    <3>1. nudges[s] \in Nat /\ swept["nudged"][s] \in Nat
      BY DEF SessionsInv, SessionsTypeOK, Sets
    <3>2. IsFiniteSet(Owing(s))
      BY SessionsAssumption, FS_Subset DEF Owing
    <3>3. Cardinality(Owing(s)) \in Nat
      BY <3>2, FS_CardinalityType
    <3>4. nudges[s] + Cardinality(Owing(s))
            = swept["nudged"][s] + (IF s \in set["nudged"] THEN 1 ELSE 0)
      BY DEF SessionsInv, Ledger
    <3> QED BY <3>1, <3>3, <3>4
  <2> QED BY <2>1 DEF SessionsInv, OrientedKept, NudgesHonest
<1> QED BY <1>1, SessionsInvariant, PTL

----------------------------------------------------------------------------
(* The reports of what the context was worth. *)

\* The events are numbered as they come, and a key stands for one of them.
EventsDistinct ==
  /\ IsFiniteSet(events)
  /\ \A e \in events : e.id <= Cardinality(events)
  /\ \A p, q \in events : p.id = q.id => p = q
  /\ \A p, q \in events :
       p.key = q.key /\ p.actor = q.actor /\ p.key # NoReportKey => p = q

\* Whoever was told of an event was told of one that is there.
RepliesReal ==
  \A p \in replied :
    /\ p.key # NoReportKey
    /\ \E e \in events :
         e.id = p.id /\ e.actor = p.actor /\ e.key = p.key /\ e.content = p.content

\* What is worked on has passed validation, and a loser has a winner.
ReportsValid ==
  \A c \in Reporters :
    /\ reporting[c].at # "idle" => ValidateContextImpact(reporting[c].ask.content)
    /\ reporting[c].at = "again" => PriorImpact(reporting[c].ask) # {}

ImpactInv == ImpactTypeOK /\ EventsDistinct /\ RepliesReal /\ ReportsValid /\ broken = {}

\* The minutes validation lets through are in the range the table has for the effect.
LEMMA MinutesInRange ==
  ASSUME NEW m, NEW e \in Effects,
         m \in Minutes, e = "helpful" => m >= 0, e = "harmful" => m <= 0, e = "neutral" => m = 0
  PROVE  \/ e = "helpful" /\ m \in MinutesSaved
         \/ e = "neutral" /\ m = 0
         \/ e = "harmful" /\ m \in MinutesLost
<1>1. CASE e = "helpful"
  BY <1>1 DEF Minutes, MinutesSaved
<1>2. CASE e = "neutral"
  BY <1>2
<1>3. CASE e = "harmful"
  BY <1>3 DEF Minutes, MinutesLost
<1> QED BY <1>1, <1>2, <1>3 DEF Effects

\* The CHECK constraints of the table refuse nothing that validation lets through.
LEMMA ValidIsAccepted ==
  ASSUME NEW r, ValidateContextImpact(r)
  PROVE  TableAccepts(r)
<1>1. /\ r.session # "" /\ r.project # ""
      /\ <<r.effect, r.mechanism>> \in ValidPairs
  BY Zenon DEF ValidateContextImpact
<1>2. /\ r.effect \in Effects
      /\ \/ r.effect = "helpful" /\ r.mechanism \notin {"ignored", "stale_or_incorrect"}
         \/ r.effect = "neutral" /\ r.mechanism = "ignored"
         \/ r.effect = "harmful" /\ r.mechanism = "stale_or_incorrect"
  BY <1>1 DEF ValidPairs, Effects
<1>3. CASE r.minutes = NoMinutes
  BY <1>1, <1>2, <1>3, Zenon DEF TableAccepts
<1>4. CASE r.minutes # NoMinutes
  <2>1. /\ r.minutes \in Minutes
        /\ r.effect = "helpful" => r.minutes >= 0
        /\ r.effect = "harmful" => r.minutes <= 0
        /\ r.effect = "neutral" => r.minutes = 0
    BY <1>4, Zenon DEF ValidateContextImpact
  <2>2. \/ r.effect = "helpful" /\ r.minutes \in MinutesSaved
        \/ r.effect = "neutral" /\ r.minutes = 0
        \/ r.effect = "harmful" /\ r.minutes \in MinutesLost
    BY <1>2, <2>1, MinutesInRange, Zenon
  <2> QED BY <1>1, <1>2, <2>2, Zenon DEF TableAccepts
<1> QED BY <1>3, <1>4

\* A request that goes on keeps what it asked; Goto and EndReport keep the type.
LEMMA ReportingFacts ==
  ASSUME ImpactTypeOK, NEW c \in Reporters
  PROVE  /\ reporting[c].at # "idle" =>
              reporting[c].ask \in Asked /\ reporting[c].ask.content \in Reports
         /\ \A ask \in Asked, at \in {"resolve", "insert", "again"} :
              Goto(c, at, ask) =>
                /\ reporting' \in [Reporters -> Working]
                /\ reporting'[c].at = at /\ reporting'[c].ask = ask
                /\ \A d \in Reporters : d # c => reporting'[d] = reporting[d]
         /\ EndReport(c) =>
              /\ reporting' \in [Reporters -> Working]
              /\ reporting'[c].at = "idle"
              /\ \A d \in Reporters : d # c => reporting'[d] = reporting[d]
BY DEF ImpactTypeOK, Working, Asked, Goto, EndReport

\* A statement that records nothing keeps the events and what is known of them.
LEMMA UnrecordedStep ==
  ASSUME ImpactInv, UNCHANGED events, broken' = broken, knownProjects' \subseteq knownProjects,
         reporting' \in [Reporters -> Working],
         \A d \in Reporters : reporting'[d].at # "idle" =>
           /\ ValidateContextImpact(reporting'[d].ask.content)
           /\ reporting'[d].at = "again" => PriorImpact(reporting'[d].ask) # {},
         \A p \in replied' \ replied :
           /\ p \in Event /\ p.key # NoReportKey
           /\ \E e \in events :
                e.id = p.id /\ e.actor = p.actor /\ e.key = p.key /\ e.content = p.content
  PROVE  ImpactInv'
<1>1. ImpactTypeOK'
  BY DEF ImpactInv, ImpactTypeOK
<1>2. EventsDistinct' /\ RepliesReal'
  BY DEF ImpactInv, EventsDistinct, RepliesReal
<1>3. ReportsValid'
  BY DEF ReportsValid, PriorImpact
<1> QED BY <1>1, <1>2, <1>3 DEF ImpactInv

\* A replay tells of the event the key stands for, with the content that was asked.
LEMMA ReplayFacts ==
  ASSUME ImpactTypeOK, NEW ask \in Asked, NEW e \in PriorImpact(ask), Replay(ask, e)
  PROVE  \A p \in replied' \ replied :
           /\ p \in Event /\ p.key # NoReportKey
           /\ \E d \in events :
                d.id = p.id /\ d.actor = p.actor /\ d.key = p.key /\ d.content = p.content
<1>1. e \in events /\ e \in Event /\ e.key = ask.key /\ e.actor = ask.actor /\ ask.key # NoReportKey
  BY DEF PriorImpact, ImpactTypeOK
<1>2. \A p \in replied' \ replied :
        /\ p = [id |-> e.id, actor |-> ask.actor, key |-> ask.key, content |-> ask.content]
        /\ e.content = ask.content
  BY DEF Replay, Told
<1> QED BY <1>1, <1>2 DEF Event, Asked

\* The insert adds an event under the next number, for a key that has none.
LEMMA RecordedStep ==
  ASSUME ImpactInv, NEW c \in Reporters, reporting[c].at = "insert", EndReport(c),
         PriorImpact(reporting[c].ask) = {}, Cardinality(events) < MaxEvents,
         NEW e, e = [id |-> Cardinality(events) + 1, actor |-> reporting[c].ask.actor,
                     key |-> reporting[c].ask.key, content |-> reporting[c].ask.content],
         events' = events \cup {e}, Told(reporting[c].ask, e) \/ UNCHANGED replied,
         UNCHANGED <<broken, knownProjects>>
  PROVE  ImpactInv'
<1>t. /\ ImpactTypeOK /\ EventsDistinct /\ RepliesReal /\ ReportsValid /\ broken = {}
      /\ events \subseteq Event
  BY DEF ImpactInv, ImpactTypeOK
<1>0. reporting[c].ask \in Asked /\ reporting[c].ask.content \in Reports
  BY <1>t, ReportingFacts
<1>1. Cardinality(events) \in Nat
  BY <1>t, FS_CardinalityType DEF EventsDistinct
<1>2. e \in Event /\ e.id = Cardinality(events) + 1
  BY <1>0, <1>1, ContextImpactAssumption DEF Event, Asked
<1>3. \A d \in events : d.id \in Nat /\ d.id < e.id
  BY <1>t, <1>1, <1>2, ContextImpactAssumption DEF EventsDistinct, Event
<1>4. e \notin events
  BY <1>2, <1>3
<1>5. IsFiniteSet(events') /\ Cardinality(events') = Cardinality(events) + 1
  BY <1>t, <1>4, FS_AddElement DEF EventsDistinct
<1>6. \A d \in events : ~(d.key = e.key /\ d.actor = e.actor /\ d.key # NoReportKey)
  BY DEF PriorImpact
<1>7. EventsDistinct'
  <2>1. \A d \in events' : d.id <= Cardinality(events')
    BY <1>1, <1>2, <1>3, <1>5
  <2>2. \A d1, d2 \in events' : d1.id = d2.id => d1 = d2
    BY <1>t, <1>1, <1>2, <1>3 DEF EventsDistinct
  <2>3. \A d1, d2 \in events' :
          d1.key = d2.key /\ d1.actor = d2.actor /\ d1.key # NoReportKey => d1 = d2
    BY <1>t, <1>6 DEF EventsDistinct
  <2> QED BY <1>5, <2>1, <2>2, <2>3 DEF EventsDistinct
<1>8. replied' \subseteq Event /\ RepliesReal'
  <2>1. \A p \in replied' : p \in replied \/ (p = e /\ e.key # NoReportKey)
    BY DEF Told
  <2> QED BY <1>t, <1>2, <2>1 DEF RepliesReal, ImpactTypeOK
<1>9. ReportsValid'
  <2>1. PriorImpact(reporting[c].ask) \subseteq PriorImpact(reporting[c].ask)'
    BY DEF PriorImpact
  <2>2. \A d \in Reporters : PriorImpact(reporting[d].ask) # {} =>
          \E x \in events' : reporting[d].ask.key # NoReportKey /\ x.key = reporting[d].ask.key
                               /\ x.actor = reporting[d].ask.actor
    BY DEF PriorImpact
  <2>3. \A d \in Reporters : d # c => reporting'[d] = reporting[d]
    BY <1>t, ReportingFacts
  <2>4. reporting'[c].at = "idle"
    BY <1>t, ReportingFacts
  <2> QED BY <1>t, <2>2, <2>3, <2>4 DEF ReportsValid, PriorImpact
<1>10. ImpactTypeOK'
  <2>1. reporting' \in [Reporters -> Working]
    BY <1>t, ReportingFacts
  <2> QED BY <1>t, <1>2, <1>8, <2>1 DEF ImpactTypeOK
<1> QED BY <1>t, <1>7, <1>8, <1>9, <1>10 DEF ImpactInv

\* Every step keeps the invariant.
LEMMA ImpactStep == ImpactInv /\ [ImpactNext]_impactVars => ImpactInv'
<1> SUFFICES ASSUME ImpactInv, [ImpactNext]_impactVars PROVE ImpactInv'
  OBVIOUS
<1>t. ImpactTypeOK /\ ReportsValid /\ reporting \in [Reporters -> Working]
  BY DEF ImpactInv, ImpactTypeOK
<1>1. ASSUME NEW c \in Reporters, NEW ask \in Asked, RecordContextImpact(c, ask) PROVE ImpactInv'
  <2>0. UNCHANGED <<events, broken, knownProjects>> /\ ValidateContextImpact(ask.content)
    BY <1>1 DEF RecordContextImpact
  <2>1. CASE Goto(c, "resolve", ask) /\ UNCHANGED replied
    <3>1. /\ reporting' \in [Reporters -> Working]
          /\ reporting'[c].at = "resolve" /\ reporting'[c].ask = ask
          /\ \A d \in Reporters : d # c => reporting'[d] = reporting[d]
      BY <1>t, <2>1, ReportingFacts
    <3>2. \A d \in Reporters : reporting'[d].at # "idle" =>
            /\ ValidateContextImpact(reporting'[d].ask.content)
            /\ reporting'[d].at = "again" => PriorImpact(reporting'[d].ask) # {}
      BY <1>t, <2>0, <3>1 DEF ReportsValid
    <3> QED BY <2>0, <2>1, <3>1, <3>2, UnrecordedStep
  <2>2. ASSUME NEW e \in PriorImpact(ask), Replay(ask, e), EndReport(c) PROVE ImpactInv'
    <3>1. /\ reporting' \in [Reporters -> Working] /\ reporting'[c].at = "idle"
          /\ \A d \in Reporters : d # c => reporting'[d] = reporting[d]
      BY <1>t, <2>2, ReportingFacts
    <3>2. \A d \in Reporters : reporting'[d].at # "idle" =>
            /\ ValidateContextImpact(reporting'[d].ask.content)
            /\ reporting'[d].at = "again" => PriorImpact(reporting'[d].ask) # {}
      BY <1>t, <3>1 DEF ReportsValid
    <3> QED BY <1>t, <2>0, <2>2, <3>1, <3>2, ReplayFacts, UnrecordedStep
  <2> QED BY <1>1, <2>1, <2>2 DEF RecordContextImpact
<1>2. ASSUME NEW c \in Reporters, ResolveImpact(c) PROVE ImpactInv'
  <2>0. UNCHANGED <<events, replied, broken, knownProjects>> /\ reporting[c].at = "resolve"
        /\ reporting[c].ask \in Asked /\ ValidateContextImpact(reporting[c].ask.content)
    BY <1>2, <1>t, ReportingFacts DEF ResolveImpact, ReportsValid
  <2>1. Goto(c, "insert", reporting[c].ask) \/ EndReport(c)
    BY <1>2 DEF ResolveImpact
  <2>2. /\ reporting' \in [Reporters -> Working]
        /\ reporting'[c].at \in {"idle", "insert"}
        /\ reporting'[c].at # "idle" => reporting'[c].ask = reporting[c].ask
        /\ \A d \in Reporters : d # c => reporting'[d] = reporting[d]
    BY <1>t, <2>0, <2>1, ReportingFacts
  <2>3. \A d \in Reporters : reporting'[d].at # "idle" =>
          /\ ValidateContextImpact(reporting'[d].ask.content)
          /\ reporting'[d].at = "again" => PriorImpact(reporting'[d].ask) # {}
    BY <1>t, <2>0, <2>2 DEF ReportsValid
  <2> QED BY <2>0, <2>2, <2>3, UnrecordedStep
<1>3. ASSUME NEW c \in Reporters, InsertImpact(c) PROVE ImpactInv'
  <2>0. reporting[c].at = "insert" /\ knownProjects' = knownProjects
        /\ reporting[c].ask \in Asked /\ ValidateContextImpact(reporting[c].ask.content)
    BY <1>3, <1>t, ReportingFacts DEF InsertImpact, ReportsValid
  <2>1. TableAccepts(reporting[c].ask.content)
    BY <2>0, ValidIsAccepted
  <2>2. CASE Goto(c, "again", reporting[c].ask) /\ PriorImpact(reporting[c].ask) # {}
             /\ UNCHANGED <<events, replied, broken>>
    <3>1. /\ reporting' \in [Reporters -> Working]
          /\ reporting'[c].ask = reporting[c].ask
          /\ \A d \in Reporters : d # c => reporting'[d] = reporting[d]
      BY <1>t, <2>0, <2>2, ReportingFacts
    <3>2. \A d \in Reporters : reporting'[d].at # "idle" =>
            /\ ValidateContextImpact(reporting'[d].ask.content)
            /\ reporting'[d].at = "again" => PriorImpact(reporting'[d].ask) # {}
      BY <1>t, <2>0, <2>2, <3>1 DEF ReportsValid
    <3> QED BY <2>0, <2>2, <3>1, <3>2, UnrecordedStep
  <2>3. CASE PriorImpact(reporting[c].ask) = {}
    <3> DEFINE e == [id |-> Cardinality(events) + 1, actor |-> reporting[c].ask.actor,
                     key |-> reporting[c].ask.key, content |-> reporting[c].ask.content]
    <3>1. /\ Cardinality(events) < MaxEvents /\ EndReport(c)
          /\ events' = events \cup {e} /\ Told(reporting[c].ask, e) /\ broken' = broken
      BY <1>3, <2>1, <2>3 DEF InsertImpact
    <3> QED BY <2>0, <2>3, <3>1, RecordedStep
  <2> QED BY <1>3, <2>2, <2>3 DEF InsertImpact
<1>4. ASSUME NEW c \in Reporters, ReadAgain(c) PROVE ImpactInv'
  <2>0. UNCHANGED <<events, broken, knownProjects>> /\ EndReport(c)
        /\ reporting[c].ask \in Asked
    BY <1>4, <1>t, ReportingFacts DEF ReadAgain
  <2>1. PICK e \in PriorImpact(reporting[c].ask) : Replay(reporting[c].ask, e)
    BY <1>4 DEF ReadAgain
  <2>2. /\ reporting' \in [Reporters -> Working] /\ reporting'[c].at = "idle"
        /\ \A d \in Reporters : d # c => reporting'[d] = reporting[d]
    BY <1>t, <2>0, ReportingFacts
  <2>3. \A d \in Reporters : reporting'[d].at # "idle" =>
          /\ ValidateContextImpact(reporting'[d].ask.content)
          /\ reporting'[d].at = "again" => PriorImpact(reporting'[d].ask) # {}
    BY <1>t, <2>2 DEF ReportsValid
  <2> QED BY <1>t, <2>0, <2>1, <2>2, <2>3, ReplayFacts, UnrecordedStep
<1>5. ASSUME NEW c \in Reporters, ReportLost(c) PROVE ImpactInv'
  <2>0. UNCHANGED <<replied, broken, knownProjects>> /\ EndReport(c)
    BY <1>5 DEF ReportLost
  <2>1. CASE UNCHANGED events
    <3>2. /\ reporting' \in [Reporters -> Working] /\ reporting'[c].at = "idle"
          /\ \A d \in Reporters : d # c => reporting'[d] = reporting[d]
      BY <1>t, <2>0, ReportingFacts
    <3>3. \A d \in Reporters : reporting'[d].at # "idle" =>
            /\ ValidateContextImpact(reporting'[d].ask.content)
            /\ reporting'[d].at = "again" => PriorImpact(reporting'[d].ask) # {}
      BY <1>t, <3>2 DEF ReportsValid
    <3> QED BY <2>0, <2>1, <3>2, <3>3, UnrecordedStep
  <2>2. CASE ~UNCHANGED events
    <3> DEFINE e == [id |-> Cardinality(events) + 1, actor |-> reporting[c].ask.actor,
                     key |-> reporting[c].ask.key, content |-> reporting[c].ask.content]
    <3>1. /\ reporting[c].at = "insert" /\ PriorImpact(reporting[c].ask) = {}
          /\ Cardinality(events) < MaxEvents /\ events' = events \cup {e}
      BY <1>5, <2>2 DEF ReportLost
    <3> QED BY <2>0, <3>1, RecordedStep
  <2> QED BY <2>1, <2>2
<1>6. ASSUME (\E q \in knownProjects : ForgetProject(q)) \/ UNCHANGED impactVars PROVE ImpactInv'
  <2>1. UNCHANGED <<events, reporting, replied, broken>> /\ knownProjects' \subseteq knownProjects
    BY <1>6 DEF ForgetProject, impactVars
  <2>2. \A d \in Reporters : reporting'[d].at # "idle" =>
          /\ ValidateContextImpact(reporting'[d].ask.content)
          /\ reporting'[d].at = "again" => PriorImpact(reporting'[d].ask) # {}
    BY <1>t, <2>1 DEF ReportsValid
  <2> QED BY <1>t, <2>1, <2>2, UnrecordedStep
<1> QED BY <1>1, <1>2, <1>3, <1>4, <1>5, <1>6 DEF ImpactNext, RestReport, ToolReport

LEMMA ImpactInvariant == ImpactSpec => []ImpactInv
<1>1. ImpactInit => ImpactInv
  <2> SUFFICES ASSUME ImpactInit PROVE ImpactInv
    OBVIOUS
  <2>1. EventsDistinct
    BY FS_EmptySet DEF ImpactInit, EventsDistinct
  <2>2. ImpactTypeOK
    BY DEF ImpactInit, ImpactTypeOK, Working
  <2> QED BY <2>1, <2>2 DEF ImpactInit, ImpactInv, RepliesReal, ReportsValid
<1> QED BY <1>1, ImpactStep, PTL DEF ImpactSpec

\* Under a key an actor is told of one event, which holds what was reported: whatever
\* raced between the lookup and the unique index, and whatever answer was lost.
THEOREM OneEventPerKey == ImpactSpec => []ImpactOnce
<1>1. ImpactInv => ImpactOnce
  <2> SUFFICES ASSUME ImpactInv PROVE ImpactOnce
    OBVIOUS
  <2>1. \A p, q \in replied : p.key = q.key /\ p.actor = q.actor => p.id = q.id
    BY DEF ImpactInv, RepliesReal, EventsDistinct
  <2> QED BY <2>1 DEF ImpactInv, ImpactOnce, RepliesReal, EventsDistinct, ReportsValid
<1> QED BY <1>1, ImpactInvariant, PTL

----------------------------------------------------------------------------
(* Least elements and induction over the numbers, for sets.                *)

\* A set of numbers that is not empty has a least one.
LEMMA NatLeast ==
  ASSUME NEW T, T \subseteq Nat, T # {}
  PROVE  \E q \in T : \A m \in T : q <= m
<1>1. IsWellFoundedOn(OpToRel(<,Nat), Nat)
  BY NatLessThanWellFounded
<1>2. PICK q \in T : \A m \in T : ~(<<m, q>> \in OpToRel(<,Nat))
  BY <1>1, WFMin
<1>3. ASSUME NEW m \in T PROVE q <= m
  <2>1. ~(m < q) /\ m \in Nat /\ q \in Nat
    BY <1>2 DEF OpToRel
  <2> QED BY <2>1
<1> QED BY <1>3

\* A set with 0 and the successor of each of its numbers has them all.
LEMMA NatInd ==
  ASSUME NEW S, 0 \in S, \A q \in Nat : q \in S => q + 1 \in S
  PROVE  Nat \subseteq S
<1> DEFINE T == Nat \ S
<1>1. ASSUME T # {} PROVE FALSE
  <2>1. PICK q \in T : \A m \in T : q <= m
    BY <1>1, NatLeast
  <2>2. q # 0 /\ q - 1 \in Nat /\ q - 1 \notin T
    BY <2>1
  <2> QED BY <2>1, <2>2
<1> QED BY <1>1

----------------------------------------------------------------------------
(* What is next. *)

\* The ranks of a set that are more urgent than q.
Below(S, q) == {j \in S : j < q}

\* They are finitely many, and fewer for a more urgent rank.
LEMMA BelowFacts ==
  ASSUME NEW S, S \subseteq Nat, IsFiniteSet(S)
  PROVE  /\ \A q \in S : IsFiniteSet(Below(S, q)) /\ Cardinality(Below(S, q)) \in Nat
         /\ \A i, j \in S :
              i < j => Cardinality(Below(S, i)) + 1 <= Cardinality(Below(S, j))
         /\ \A k \in Nat : First(k, S) = {i \in S : Cardinality(Below(S, i)) < k}
<1>1. \A q \in S : IsFiniteSet(Below(S, q)) /\ Cardinality(Below(S, q)) \in Nat
  <2> SUFFICES ASSUME NEW q \in S
               PROVE  IsFiniteSet(Below(S, q)) /\ Cardinality(Below(S, q)) \in Nat
    OBVIOUS
  <2>1. Below(S, q) \in SUBSET S
    BY DEF Below
  <2> QED BY <2>1, FS_Subset, FS_CardinalityType
<1>2. ASSUME NEW i \in S, NEW j \in S, i < j
      PROVE  Cardinality(Below(S, i)) + 1 <= Cardinality(Below(S, j))
  <2>1. \A x \in Below(S, i) : x \in S /\ x < j /\ x < i
    <3> SUFFICES ASSUME NEW x \in S, x < i PROVE x < j
      BY DEF Below
    <3>1. x \in Nat /\ i \in Nat /\ j \in Nat
      OBVIOUS
    <3> QED BY <1>2, <3>1
  <2>2. i \notin Below(S, i)
    <3>1. i \in Nat
      OBVIOUS
    <3> QED BY <3>1 DEF Below
  <2>3. (Below(S, i) \cup {i}) \in SUBSET Below(S, j)
    BY <1>2, <2>1 DEF Below
  <2>4. Cardinality(Below(S, i) \cup {i}) = Cardinality(Below(S, i)) + 1
    BY <1>1, <2>2, FS_AddElement
  <2> QED BY <1>1, <2>3, <2>4, FS_Subset
<1>3. \A k \in Nat : First(k, S) = {i \in S : Cardinality(Below(S, i)) < k}
  BY DEF First, Below
<1> QED BY <1>1, <1>2, <1>3

\* The first so many of a set are as many as the set has, up to that number.
LEMMA FirstCardinality ==
  ASSUME NEW S, S \subseteq Nat, IsFiniteSet(S), NEW k \in Nat
  PROVE  Cardinality(First(k, S)) = IF Cardinality(S) < k THEN Cardinality(S) ELSE k
<1> DEFINE Good(q) == Cardinality(First(q, S))
                        = IF Cardinality(S) < q THEN Cardinality(S) ELSE q
<1>c. Cardinality(S) \in Nat /\ \A x \in S : x \in Nat
  BY FS_CardinalityType
<1>b. \A q \in S : IsFiniteSet(Below(S, q)) /\ Cardinality(Below(S, q)) \in Nat
  BY BelowFacts
<1>m. \A i, j \in S : i < j => Cardinality(Below(S, i)) + 1 <= Cardinality(Below(S, j))
  BY BelowFacts
<1>f. \A q \in Nat : \A x : x \in First(q, S) <=> x \in S /\ Cardinality(Below(S, x)) < q
  BY BelowFacts
<1>1. Good(0)
  <2>1. First(0, S) = {}
    <3> SUFFICES ASSUME NEW x \in First(0, S) PROVE FALSE
      OBVIOUS
    <3>1. x \in S /\ Cardinality(Below(S, x)) < 0
      BY <1>f
    <3> QED BY <1>b, <3>1
  <2> QED BY <2>1, <1>c, FS_EmptySet
<1>2. ASSUME NEW q \in Nat, Good(q) PROVE Good(q + 1)
  <2> DEFINE F == First(q, S)
  <2>1. F \subseteq S /\ IsFiniteSet(F)
    BY <1>f, FS_Subset
  <2>2. CASE F = S
    <3>1. First(q + 1, S) = S
      <4>1. ASSUME NEW x \in S PROVE x \in First(q + 1, S)
        <5>1. Cardinality(Below(S, x)) < q /\ Cardinality(Below(S, x)) \in Nat
          BY <1>f, <1>b, <2>2
        <5> QED BY <1>f, <5>1
      <4>2. First(q + 1, S) \subseteq S
        BY <1>f
      <4> QED BY <4>1, <4>2
    <3>2. Cardinality(S) <= q
      BY <1>2, <1>c, <2>2
    <3> QED BY <1>c, <3>1, <3>2
  <2>3. CASE F # S
    <3>1. PICK m \in S \ F : \A x \in S \ F : m <= x
      <4>1. S \ F \subseteq Nat /\ S \ F # {}
        BY <2>1, <2>3
      <4> QED BY <4>1, NatLeast
    <3>2. \A x \in F : x < m
      <4> SUFFICES ASSUME NEW x \in F, ~(x < m) PROVE FALSE
        OBVIOUS
      <4>1. x \in S /\ m \in S /\ x \in Nat /\ m \in Nat /\ x # m
        BY <1>c, <2>1, <3>1
      <4>2. Cardinality(Below(S, x)) < q /\ ~(Cardinality(Below(S, m)) < q)
        BY <1>f, <3>1
      <4>3. m < x
        BY <4>1
      <4> QED BY <1>b, <1>m, <4>1, <4>2, <4>3
    <3>3. Below(S, m) = F
      <4>1. ASSUME NEW x \in S, x < m, x \notin F PROVE FALSE
        <5>1. x \in Nat /\ m \in Nat /\ m <= x
          BY <1>c, <3>1, <4>1
        <5> QED BY <4>1, <5>1
      <4> QED BY <2>1, <3>2, <4>1 DEF Below
    <3>4. Cardinality(F) = q
      <4>1. ~(Cardinality(F) < q)
        BY <1>f, <3>1, <3>3
      <4> QED BY <1>2, <1>c, <4>1
    <3>5. First(q + 1, S) = F \cup {m}
      <4>1. ASSUME NEW x \in First(q + 1, S), x \notin F, x # m PROVE FALSE
        <5>0. x \in S /\ Cardinality(Below(S, x)) < q + 1
          BY <1>f
        <5>1. m <= x /\ m \in Nat /\ x \in Nat
          BY <1>c, <3>1, <4>1, <5>0
        <5>2. m < x
          BY <4>1, <5>1
        <5> QED BY <1>b, <1>m, <3>1, <3>3, <3>4, <5>0, <5>2
      <4>2. ASSUME NEW x \in F PROVE x \in First(q + 1, S)
        <5>1. x \in S /\ Cardinality(Below(S, x)) < q /\ Cardinality(Below(S, x)) \in Nat
          BY <1>f, <1>b
        <5> QED BY <1>f, <5>1
      <4>3. m \in First(q + 1, S)
        BY <1>f, <3>1, <3>3, <3>4
      <4> QED BY <4>1, <4>2, <4>3
    <3>6. Cardinality(F \cup {m}) = q + 1 /\ IsFiniteSet(F \cup {m})
      BY <2>1, <3>1, <3>4, FS_AddElement
    <3>7. q + 1 <= Cardinality(S)
      BY <2>1, <3>1, <3>6, FS_Subset
    <3>8. Cardinality(First(q + 1, S)) = q + 1
      BY <3>5, <3>6
    <3> QED BY <1>c, <3>7, <3>8
  <2> QED BY <2>2, <2>3
<1>3. Good(k)
  <2> DEFINE T == {q \in Nat : Good(q)}
  <2> HIDE DEF Good
  <2>1. 0 \in T /\ \A q \in Nat : q \in T => q + 1 \in T
    BY <1>1, <1>2
  <2> HIDE DEF T
  <2>2. Nat \subseteq T
    BY <2>1, NatInd
  <2> QED BY <2>2 DEF T
<1> QED BY <1>3

\* The first so many are some of the set, and one at least if there is one.
LEMMA FirstFacts ==
  ASSUME NEW S, S \subseteq Nat, NEW k \in Nat
  PROVE  First(k, S) \subseteq S /\ (k # 0 /\ S # {} => First(k, S) # {})
<1>1. ASSUME k # 0, S # {} PROVE First(k, S) # {}
  <2>1. PICK q \in S : \A m \in S : q <= m
    BY <1>1, NatLeast
  <2>2. {j \in S : j < q} = {}
    <3> SUFFICES ASSUME NEW j \in S, j < q PROVE FALSE
      OBVIOUS
    <3>1. j \in Nat /\ q \in Nat /\ q <= j
      BY <2>1
    <3> QED BY <3>1
  <2>3. q \in First(k, S)
    BY <1>1, <2>2, FS_EmptySet DEF First
  <2> QED BY <2>3
<1> QED BY <1>1 DEF First

\* The bundle is a record of what each read returned, or nothing.
BundleOK ==
  bundle \in [at : {"none", "reading", "shown"},
              open : SUBSET SUBSET Ranked, blocked : SUBSET SUBSET Ranked, count : SUBSET Nat]

\* While the bundle is being made, the histories include what is so now.
HistoryOK ==
  bundle.at = "reading" => OpenItems \subseteq wasOpen /\ Ranked \ BlockedItems \subseteq wasFree

\* What a read returned was so at some moment since the bundle was begun, and is so
\* now if nothing moved; a bundle that is shown has all the reads.
ReadsOK ==
  bundle.at # "none" =>
    /\ \A X \in bundle.open : X \subseteq wasOpen
    /\ \A X \in bundle.blocked : Ranked \ X \subseteq wasFree
    /\ \A X, Y \in bundle.open : X = Y
    /\ still => /\ \A X \in bundle.open : X = ListOpenItems
                /\ \A X \in bundle.blocked : X = BlockedItems
                /\ \A k \in bundle.count : k = Cardinality(OpenItems)
    /\ bundle.at = "shown" => bundle.open # {} /\ bundle.blocked # {}

OrientInv == OrientTypeOK /\ BundleOK /\ HistoryOK /\ ReadsOK

\* The queries return ranks of the project.
LEMMA QueryTypes ==
  /\ OpenItems \subseteq Ranked /\ BlockedItems \subseteq Ranked
  /\ ListOpenItems \subseteq OpenItems
  /\ IsFiniteSet(OpenItems) /\ Cardinality(OpenItems) \in Nat
  /\ OpenItems \subseteq Nat
<1>1. OpenItems \subseteq Ranked /\ BlockedItems \subseteq Ranked
  BY DEF OpenItems, BlockedItems
<1>2. IsFiniteSet(OpenItems)
  <2>1. OpenItems \in SUBSET Ranked
    BY <1>1
  <2> QED BY <2>1, OrientAssumption, FS_Subset
<1>3. ListOpenItems \subseteq OpenItems
  BY DEF ListOpenItems, First
<1> QED BY <1>1, <1>2, <1>3, OrientAssumption, FS_CardinalityType

\* A change of the rows: what is so after it joins the histories, and what was read
\* is no longer taken to be so.
LEMMA MoveStep ==
  ASSUME OrientInv, Move,
         closed' \subseteq Known, removed' \subseteq Known, current' \in BOOLEAN,
         blocks' \subseteq {l \in Known \X Known : l[1] # l[2]}
  PROVE  OrientInv'
<1> USE DEF OrientInv
<1>1. UNCHANGED bundle /\ still' = FALSE /\ moves' \in 0..MaxMoves
  <2>1. MaxMoves \in Nat
    BY OrientAssumption
  <2> QED BY <2>1 DEF Move, OrientTypeOK
<1>2. OpenItems' \subseteq Ranked /\ (Ranked \ BlockedItems)' \subseteq Ranked
  BY DEF OpenItems
<1>3. CASE bundle.at = "reading"
  <2>1. wasOpen' = wasOpen \cup OpenItems' /\ wasFree' = wasFree \cup (Ranked \ BlockedItems)'
    BY <1>3 DEF Move, Seen
  <2>2. OrientTypeOK'
    BY <1>1, <1>2, <2>1 DEF OrientTypeOK
  <2>3. HistoryOK'
    BY <2>1 DEF HistoryOK
  <2>4. ReadsOK'
    BY <1>1, <2>1 DEF ReadsOK
  <2> QED BY <1>1, <2>2, <2>3, <2>4 DEF BundleOK
<1>4. CASE bundle.at # "reading"
  <2>1. UNCHANGED <<wasOpen, wasFree>>
    BY <1>4 DEF Move, Seen
  <2>2. OrientTypeOK'
    BY <1>1, <2>1 DEF OrientTypeOK
  <2>3. HistoryOK'
    BY <1>1, <1>4 DEF HistoryOK
  <2>4. ReadsOK'
    BY <1>1, <2>1 DEF ReadsOK
  <2> QED BY <1>1, <2>2, <2>3, <2>4 DEF BundleOK
<1> QED BY <1>3, <1>4

\* A step that changes no row.
LEMMA RowsStand ==
  ASSUME UNCHANGED <<closed, removed, blocks, current>>
  PROVE  /\ OpenItems' = OpenItems /\ BlockedItems' = BlockedItems
         /\ ListOpenItems' = ListOpenItems
BY DEF OpenItems, BlockedItems, ListOpenItems

\* Every step of a change, a read or a reader keeps what was read true.
LEMMA OrientStep == OrientInv /\ [OrientNext]_orientVars => OrientInv'
<1> SUFFICES ASSUME OrientInv, [OrientNext]_orientVars PROVE OrientInv'
  OBVIOUS
<1>t. OrientTypeOK /\ BundleOK /\ HistoryOK /\ ReadsOK
  BY DEF OrientInv
<1>1. ASSUME NEW i \in Known, SetStatus(i) \/ RemoveItem(i) PROVE OrientInv'
  BY <1>1, <1>t, MoveStep DEF SetStatus, RemoveItem, OrientTypeOK
<1>2. ASSUME NEW b \in Known, NEW i \in Known, LinkItems(b, i) PROVE OrientInv'
  <2>1. <<b, i>> \in {l \in Known \X Known : l[1] # l[2]}
    BY <1>2 DEF LinkItems
  <2> QED BY <1>2, <1>t, <2>1, MoveStep DEF LinkItems, OrientTypeOK
<1>3. ASSUME NEW l \in blocks, DeleteLink(l) PROVE OrientInv'
  BY <1>3, <1>t, MoveStep DEF DeleteLink, OrientTypeOK
<1>4. CASE Archive
  BY <1>4, <1>t, MoveStep DEF Archive, OrientTypeOK
<1>5. CASE Orienting
  <2>1. /\ bundle' = [at |-> "reading", open |-> {}, blocked |-> {}, count |-> {}]
        /\ OpenItems' = OpenItems /\ BlockedItems' = BlockedItems
        /\ wasOpen' = OpenItems /\ wasFree' = Ranked \ BlockedItems
        /\ still' = TRUE /\ UNCHANGED <<closed, removed, blocks, current, moves>>
    BY <1>5, RowsStand DEF Orienting, NoReads
  <2>2. OrientTypeOK' /\ BundleOK'
    BY <1>t, <2>1, QueryTypes DEF OrientTypeOK, BundleOK
  <2>3. HistoryOK' /\ ReadsOK'
    BY <2>1 DEF HistoryOK, ReadsOK
  <2> QED BY <2>2, <2>3 DEF OrientInv
<1>6. ASSUME ReadOpen \/ ReadEdges \/ ReadCounts PROVE OrientInv'
  <2>1. /\ bundle.at = "reading"
        /\ UNCHANGED <<closed, removed, blocks, current, moves, wasOpen, wasFree, still>>
        /\ OpenItems' = OpenItems /\ BlockedItems' = BlockedItems
        /\ ListOpenItems' = ListOpenItems
    BY <1>6, RowsStand DEF ReadOpen, ReadEdges, ReadCounts, ReadBundle
  <2>2. \/ bundle' = [bundle EXCEPT !.open = {ListOpenItems}] /\ bundle.open = {}
        \/ bundle' = [bundle EXCEPT !.blocked = {BlockedItems}]
        \/ bundle' = [bundle EXCEPT !.count = {Cardinality(OpenItems)}]
    BY <1>6 DEF ReadOpen, ReadEdges, ReadCounts, ReadBundle
  <2>3. ListOpenItems \subseteq OpenItems /\ OpenItems \subseteq Ranked /\ BlockedItems \subseteq Ranked
        /\ Cardinality(OpenItems) \in Nat
    BY QueryTypes
  <2>4. BundleOK' /\ bundle'.at = "reading"
    BY <1>t, <2>1, <2>2, <2>3 DEF BundleOK
  <2>5. OrientTypeOK'
    BY <1>t, <2>1, <2>4 DEF OrientTypeOK, BundleOK
  <2>6. HistoryOK'
    BY <1>t, <2>1 DEF HistoryOK
  <2>7. ReadsOK'
    <3>1. CASE bundle' = [bundle EXCEPT !.open = {ListOpenItems}] /\ bundle.open = {}
      BY <1>t, <2>1, <2>3, <2>4, <3>1 DEF ReadsOK, HistoryOK, BundleOK
    <3>2. CASE bundle' = [bundle EXCEPT !.blocked = {BlockedItems}]
      BY <1>t, <2>1, <2>3, <2>4, <3>2 DEF ReadsOK, HistoryOK, BundleOK
    <3>3. CASE bundle' = [bundle EXCEPT !.count = {Cardinality(OpenItems)}]
      BY <1>t, <2>1, <2>3, <2>4, <3>3 DEF ReadsOK, HistoryOK, BundleOK
    <3> QED BY <2>2, <3>1, <3>2, <3>3
  <2> QED BY <2>4, <2>5, <2>6, <2>7 DEF OrientInv
<1>7. CASE ShowBundle
  <2>1. /\ bundle.at = "reading" /\ bundle.open # {} /\ bundle.blocked # {}
        /\ bundle' = [bundle EXCEPT !.at = "shown"]
        /\ UNCHANGED <<closed, removed, blocks, current, moves, wasOpen, wasFree, still>>
        /\ OpenItems' = OpenItems /\ BlockedItems' = BlockedItems
        /\ ListOpenItems' = ListOpenItems
    BY <1>7, RowsStand DEF ShowBundle
  <2>2. /\ BundleOK' /\ bundle'.at = "shown" /\ bundle'.open = bundle.open
        /\ bundle'.blocked = bundle.blocked /\ bundle'.count = bundle.count
    BY <1>t, <2>1 DEF BundleOK
  <2>3. OrientTypeOK' /\ HistoryOK'
    BY <1>t, <2>1, <2>2 DEF OrientTypeOK, HistoryOK
  <2>4. ReadsOK'
    BY <1>t, <2>1, <2>2 DEF ReadsOK
  <2> QED BY <2>2, <2>3, <2>4 DEF OrientInv
<1>8. CASE UNCHANGED orientVars
  BY <1>8, <1>t, RowsStand
  DEF orientVars, OrientInv, OrientTypeOK, BundleOK, HistoryOK, ReadsOK
<1> QED BY <1>1, <1>2, <1>3, <1>4, <1>5, <1>6, <1>7, <1>8 DEF OrientNext

\* No bundle is being made at first.
LEMMA OrientInitInv == OrientInit => OrientInv
<1>1. MaxMoves \in Nat
  BY OrientAssumption
<1> QED BY <1>1 DEF OrientInit, OrientInv, OrientTypeOK, BundleOK, HistoryOK, ReadsOK, NoReads

\* What a shown bundle says is next follows from what was read.
LEMMA ReadsAreSound == OrientInv => ReadyNextSound
<1> SUFFICES ASSUME OrientInv, bundle.at = "shown" PROVE ReadyNextSound
  BY DEF ReadyNextSound
<1> DEFINE loaded == UNION bundle.open
           flagged == UNION bundle.blocked
<1>1. PICK X \in bundle.open : X \subseteq wasOpen /\ \A Y \in bundle.open : Y = X
  BY DEF OrientInv, ReadsOK
<1>2. PICK B \in bundle.blocked : Ranked \ B \subseteq wasFree
  BY DEF OrientInv, ReadsOK
<1>3. loaded = X /\ X \subseteq Ranked /\ B \subseteq flagged
  BY <1>1 DEF OrientInv, BundleOK
<1>4. loaded \ flagged \subseteq wasOpen \cap wasFree /\ loaded \ flagged \subseteq Nat
  BY <1>1, <1>2, <1>3, OrientAssumption
<1> HIDE DEF loaded, flagged
<1>5. ReadyNext \subseteq loaded \ flagged /\ (loaded \ flagged # {} => ReadyNext # {})
  <2>1. ReadyNext = First(ReadyLimit, loaded \ flagged)
    BY DEF ReadyNext, loaded, flagged
  <2> QED BY <1>4, <2>1, OrientAssumption, FirstFacts
<1>6. ASSUME still PROVE loaded = ListOpenItems /\ flagged = BlockedItems
  <2>1. X = ListOpenItems /\ \A Y \in bundle.blocked : Y = BlockedItems
    BY <1>6 DEF OrientInv, ReadsOK
  <2> QED BY <1>2, <1>3, <2>1 DEF flagged
<1>7. ASSUME still, current
      PROVE  /\ ReadyNext \subseteq ReadyItems
             /\ ReadyNext = First(ReadyLimit, ReadyItems \cap loaded)
             /\ ReadyNext = {} => loaded \subseteq BlockedItems
  <2>1. ReadyItems = OpenItems \ BlockedItems
    BY <1>7 DEF ReadyItems, OpenItems, BlockedItems
  <2>2. loaded \subseteq OpenItems /\ flagged = BlockedItems
    BY <1>6, <1>7, QueryTypes
  <2>3. loaded \ flagged = ReadyItems \cap loaded
    BY <2>1, <2>2
  <2>4. ReadyNext = First(ReadyLimit, ReadyItems \cap loaded)
    BY <2>3 DEF ReadyNext, loaded, flagged
  <2>5. loaded \ flagged \subseteq ReadyItems
    BY <2>3
  <2> QED BY <1>5, <2>2, <2>4, <2>5
<1>8. ASSUME still, NEW k \in bundle.count
      PROVE  Cardinality(loaded) = (IF k < OpenLimit THEN k ELSE OpenLimit)
  <2>1. k = Cardinality(OpenItems) /\ loaded = First(OpenLimit, OpenItems)
    BY <1>6, <1>8 DEF OrientInv, ReadsOK, ListOpenItems
  <2> QED BY <2>1, QueryTypes, OrientAssumption, FirstCardinality
<1> QED BY <1>4, <1>5, <1>7, <1>8 DEF ReadyNextSound, loaded, flagged

\* The rows and the bundle keep their shape.
THEOREM OrientTypeCorrect == OrientSpec => []OrientTypeOK
<1>1. OrientInv => OrientTypeOK
  BY DEF OrientInv
<1> QED BY OrientInitInv, OrientStep, <1>1, PTL DEF OrientSpec

\* What an agent is told to do next was open and unblocked while its context was put
\* together, and if nothing moved it is what the database would have named within
\* what was loaded; whatever changes between the reads, for any number of items.
THEOREM ReadyWhileRead == OrientSpec => []ReadyNextSound
BY OrientInitInv, OrientStep, ReadsAreSound, PTL DEF OrientSpec

----------------------------------------------------------------------------
(* Searching. *)

\* The share of a score is a number, smaller further down.
LEMMA WeightFalls ==
  /\ \A d \in Nat \ {0} : Scale \div d \in Nat
  /\ \A c, d \in Nat \ {0} : c <= d => Scale \div d <= Scale \div c
<1>1. \A d \in Nat \ {0} : Scale \div d \in Nat
  BY DEF Scale
<1>2. ASSUME NEW c \in Nat \ {0}, NEW d \in Nat \ {0}, c <= d
      PROVE  Scale \div d <= Scale \div c
  BY <1>2 DEF Scale
<1> QED BY <1>1, <1>2

\* Up to three lists of rows, none with a row twice.
ListsOK ==
  /\ lists \in Seq(Seq(Rows)) /\ Len(lists) <= 3
  /\ \A k \in DOMAIN lists : IsInjective(lists[k])

\* Where a listed row stands.
LEMMA Standing ==
  ASSUME ListsOK
  PROVE  /\ \A x \in Listed : ListsWith(x) # {} /\ ListsWith(x) \subseteq {1, 2, 3}
         /\ \A x : \A k \in ListsWith(x) :
              /\ k \in DOMAIN lists /\ RankIn(k, x) \in Nat
              /\ RankIn(k, x) + 1 \in DOMAIN lists[k] /\ lists[k][RankIn(k, x) + 1] = x
<1>1. DOMAIN lists \subseteq {1, 2, 3} /\ \A k \in DOMAIN lists : DOMAIN lists[k] \subseteq Nat \ {0}
  <2>1. DOMAIN lists = 1..Len(lists) /\ Len(lists) \in Nat /\ Len(lists) <= 3
    BY DEF ListsOK
  <2>2. \A k \in DOMAIN lists : DOMAIN lists[k] = 1..Len(lists[k])
    BY DEF ListsOK
  <2> QED BY <2>1, <2>2
<1>2. ASSUME NEW x \in Listed PROVE ListsWith(x) # {} /\ ListsWith(x) \subseteq {1, 2, 3}
  BY <1>1 DEF Listed, ListsWith
<1>3. ASSUME NEW x, NEW k \in ListsWith(x)
      PROVE  /\ k \in DOMAIN lists /\ RankIn(k, x) \in Nat
             /\ RankIn(k, x) + 1 \in DOMAIN lists[k] /\ lists[k][RankIn(k, x) + 1] = x
  <2>1. k \in DOMAIN lists /\ \E i \in DOMAIN lists[k] : lists[k][i] = x
    BY DEF ListsWith, Range
  <2> DEFINE i == CHOOSE z \in DOMAIN lists[k] : lists[k][z] = x
  <2>2. i \in DOMAIN lists[k] /\ lists[k][i] = x
    BY <2>1
  <2>3. RankIn(k, x) = i - 1
    BY DEF RankIn
  <2> HIDE DEF i
  <2>4. i \in Nat /\ i # 0 /\ (i - 1) + 1 = i /\ i - 1 \in Nat
    BY <1>1, <2>1, <2>2
  <2> QED BY <2>1, <2>2, <2>3, <2>4
<1> QED BY <1>2, <1>3

LEMMA FirstListFacts ==
  ASSUME ListsOK, NEW x \in Listed
  PROVE  /\ FirstList(x) \in ListsWith(x) /\ FirstList(x) \in {1, 2, 3}
         /\ \A j \in ListsWith(x) : FirstList(x) <= j
<1>1. ListsWith(x) # {} /\ ListsWith(x) \subseteq {1, 2, 3}
  BY Standing
<1>2. \E k \in ListsWith(x) : \A j \in ListsWith(x) : k <= j
  BY <1>1
<1> QED BY <1>1, <1>2 DEF FirstList

\* The scores are numbers.
LEMMA ScoreFacts ==
  ASSUME ListsOK
  PROVE  /\ \A x : \A k \in {1, 2, 3} : Weight(k, x) \in Nat
         /\ \A x : Score(x) \in Nat
<1>1. ASSUME NEW x, NEW k \in {1, 2, 3} PROVE Weight(k, x) \in Nat
  <2>1. CASE k \in ListsWith(x)
    <3>1. 60 + RankIn(k, x) \in Nat \ {0}
      BY <2>1, Standing
    <3> QED BY <2>1, <3>1, WeightFalls DEF Weight
  <2> QED BY <2>1 DEF Weight
<1>2. ASSUME NEW x PROVE Score(x) \in Nat
  <2>1. Weight(1, x) \in Nat /\ Weight(2, x) \in Nat /\ Weight(3, x) \in Nat
    BY <1>1
  <2> QED BY <2>1 DEF Score
<1> QED BY <1>1, <1>2

\* The rows are ordered: of two, one goes before the other, and never both.
LEMMA BeforeOrder ==
  ASSUME ListsOK
  PROVE  /\ \A x \in Listed : ~Before(x, x)
         /\ \A x, y \in Listed : x # y => Before(x, y) \/ Before(y, x)
         /\ \A x, y, z \in Listed : Before(x, y) /\ Before(y, z) => Before(x, z)
<1>1. \A x \in Listed : /\ FirstList(x) \in {1, 2, 3} /\ RankIn(FirstList(x), x) \in Nat
                        /\ lists[FirstList(x)][RankIn(FirstList(x), x) + 1] = x
                        /\ Score(x) \in Nat
  BY Standing, FirstListFacts, ScoreFacts
<1>2. \A x \in Listed : ~MetBefore(x, x)
  BY <1>1 DEF MetBefore
<1>3. \A x, y \in Listed : x # y => MetBefore(x, y) \/ MetBefore(y, x)
  <2> SUFFICES ASSUME NEW x \in Listed, NEW y \in Listed, x # y
               PROVE  MetBefore(x, y) \/ MetBefore(y, x)
    OBVIOUS
  <2>1. CASE FirstList(x) = FirstList(y)
    <3>1. RankIn(FirstList(x), x) # RankIn(FirstList(x), y)
      BY <1>1, <2>1
    <3> QED BY <1>1, <2>1, <3>1 DEF MetBefore
  <2>2. CASE FirstList(x) # FirstList(y)
    BY <1>1, <2>2 DEF MetBefore
  <2> QED BY <2>1, <2>2
<1>4. \A x, y, z \in Listed : MetBefore(x, y) /\ MetBefore(y, z) => MetBefore(x, z)
  <2> SUFFICES ASSUME NEW x \in Listed, NEW y \in Listed, NEW z \in Listed,
                      MetBefore(x, y), MetBefore(y, z)
               PROVE  MetBefore(x, z)
    OBVIOUS
  <2> QED BY <1>1 DEF MetBefore
<1>5. \A x, y, z \in Listed : Before(x, y) /\ Before(y, z) => Before(x, z)
  <2> SUFFICES ASSUME NEW x \in Listed, NEW y \in Listed, NEW z \in Listed,
                      Before(x, y), Before(y, z)
               PROVE  Before(x, z)
    OBVIOUS
  <2> QED BY <1>1, <1>4 DEF Before
<1>6. \A x \in Listed : ~Before(x, x)
  BY <1>1, <1>2 DEF Before
<1>7. \A x, y \in Listed : x # y => Before(x, y) \/ Before(y, x)
  BY <1>1, <1>3 DEF Before
<1> QED BY <1>5, <1>6, <1>7

\* A row that every list puts ahead of another goes before it.
LEMMA AheadBefore ==
  ASSUME ListsOK, NEW x \in Listed, NEW y \in Listed, Ahead(x, y)
  PROVE  Before(x, y)
<1>1. \A k \in {1, 2, 3} : Weight(k, y) <= Weight(k, x)
  <2> SUFFICES ASSUME NEW k \in {1, 2, 3} PROVE Weight(k, y) <= Weight(k, x)
    OBVIOUS
  <2>1. CASE k \in ListsWith(y)
    <3>1. k \in ListsWith(x) /\ RankIn(k, x) < RankIn(k, y)
      BY <2>1 DEF Ahead
    <3>2. RankIn(k, x) \in Nat /\ RankIn(k, y) \in Nat
      BY <2>1, <3>1, Standing
    <3>3. /\ 60 + RankIn(k, x) \in Nat \ {0} /\ 60 + RankIn(k, y) \in Nat \ {0}
          /\ 60 + RankIn(k, x) <= 60 + RankIn(k, y)
      BY <3>1, <3>2
    <3> QED BY <2>1, <3>1, <3>3, WeightFalls DEF Weight
  <2>2. CASE k \notin ListsWith(y)
    BY <2>2, ScoreFacts DEF Weight
  <2> QED BY <2>1, <2>2
<1>2. Score(y) <= Score(x) /\ Score(x) \in Nat /\ Score(y) \in Nat
  <2>1. /\ Weight(1, x) \in Nat /\ Weight(2, x) \in Nat /\ Weight(3, x) \in Nat
        /\ Weight(1, y) \in Nat /\ Weight(2, y) \in Nat /\ Weight(3, y) \in Nat
    BY ScoreFacts
  <2> QED BY <1>1, <2>1 DEF Score
<1>3. MetBefore(x, y)
  <2> DEFINE f == FirstList(y)
             g == FirstList(x)
  <2>1. f \in ListsWith(x) /\ RankIn(f, x) < RankIn(f, y)
    BY FirstListFacts DEF Ahead
  <2>2. g <= f /\ g \in {1, 2, 3} /\ f \in {1, 2, 3}
    BY <2>1, FirstListFacts
  <2> HIDE DEF f, g
  <2>3. g < f \/ g = f
    BY <2>2
  <2> QED BY <2>1, <2>3 DEF MetBefore, f, g
<1> QED BY <1>2, <1>3 DEF Before

\* Every listed row has a place of its own, and the places are filled up to the
\* number of rows.
LEMMA Places ==
  ASSUME ListsOK
  PROVE  LET N == Cardinality(Listed) IN
         /\ N \in Nat /\ IsFiniteSet(Listed) /\ Listed \subseteq Rows
         /\ \A x \in Listed : Place(x) \in 0..(N - 1)
         /\ \A x, y \in Listed : Before(y, x) => Place(y) < Place(x)
         /\ \A x, y \in Listed : Place(x) = Place(y) => x = y
         /\ \A p \in 0..(N - 1) : \E x \in Listed : Place(x) = p
<1> DEFINE N == Cardinality(Listed)
           Ear(x) == {y \in Listed : Before(y, x)}
<1>1. Listed \in SUBSET Rows
  <2> SUFFICES ASSUME NEW k \in DOMAIN lists, NEW i \in DOMAIN lists[k] PROVE lists[k][i] \in Rows
    BY DEF Listed, Range
  <2>1. lists[k] \in Seq(Rows)
    BY DEF ListsOK
  <2> QED BY <2>1
<1>2. N \in Nat /\ IsFiniteSet(Listed)
  BY <1>1, SearchAssumption, FS_Subset, FS_CardinalityType
<1>3. ASSUME NEW x \in Listed
      PROVE  /\ IsFiniteSet(Ear(x)) /\ Cardinality(Ear(x)) \in Nat
             /\ Cardinality(Ear(x)) <= N /\ Cardinality(Ear(x)) # N
  <2>1. Ear(x) \in SUBSET Listed /\ x \notin Ear(x)
    BY BeforeOrder
  <2> HIDE DEF Ear
  <2>2. Ear(x) # Listed
    BY <2>1
  <2> QED BY <1>2, <2>1, <2>2, FS_Subset, FS_CardinalityType
<1>4. ASSUME NEW x \in Listed, NEW y \in Listed, Before(y, x)
      PROVE  Cardinality(Ear(y)) < Cardinality(Ear(x))
  <2>1. Ear(y) \subseteq Ear(x) /\ y \in Ear(x) /\ y \notin Ear(y)
    BY <1>4, BeforeOrder
  <2> HIDE DEF Ear
  <2>2. Ear(y) \in SUBSET Ear(x) /\ Ear(y) # Ear(x)
    BY <2>1
  <2>3. Cardinality(Ear(y)) <= Cardinality(Ear(x)) /\ Cardinality(Ear(y)) # Cardinality(Ear(x))
    BY <1>3, <2>2, FS_Subset
  <2> QED BY <1>3, <2>3
<1>5. \A x : Place(x) = Cardinality(Ear(x))
  BY DEF Place
<1> HIDE DEF Ear
<1>6. \A x \in Listed : Place(x) \in 0..(N - 1)
  BY <1>2, <1>3, <1>5
<1>7. \A x, y \in Listed : Before(y, x) => Place(y) < Place(x)
  BY <1>4, <1>5
<1> HIDE DEF N
<1>8. \A x, y \in Listed : Place(x) = Place(y) => x = y
  <2> SUFFICES ASSUME NEW x \in Listed, NEW y \in Listed, x # y PROVE Place(x) # Place(y)
    OBVIOUS
  <2>1. Place(x) \in Int /\ Place(y) \in Int
    BY <1>6
  <2>2. Before(x, y) \/ Before(y, x)
    BY BeforeOrder
  <2> QED BY <1>7, <2>1, <2>2
<1>9. \A p \in 0..(N - 1) : \E x \in Listed : Place(x) = p
  <2> DEFINE f == [x \in Listed |-> Place(x)]
  <2>1. f \in Injection(Listed, 0..(N - 1))
    BY <1>6, <1>8 DEF Injection, IsInjective
  <2>2. IsFiniteSet(0..(N - 1)) /\ Cardinality(0..(N - 1)) = N
    <3>1. N - 1 \in Int /\ 0 \in Int
      BY <1>2
    <3> QED BY <1>2, <3>1, FS_Interval
  <2> HIDE DEF f
  <2>3. f \in Surjection(Listed, 0..(N - 1))
    BY <2>1, <2>2, FS_Injection DEF N
  <2> QED BY <2>3 DEF Surjection, f
<1> QED BY <1>1, <1>2, <1>6, <1>7, <1>8, <1>9 DEF N

\* The blended list: every listed row once, each before those it goes before.
LEMMA MergedFacts ==
  ASSUME ListsOK
  PROVE  /\ RrfMerge \in Seq(Listed) /\ Len(RrfMerge) = Cardinality(Listed)
         /\ Len(RrfMerge) \in Nat
         /\ \A k \in 1..Len(RrfMerge) : RrfMerge[k] \in Listed /\ Place(RrfMerge[k]) = k - 1
         /\ \A x \in Listed : Place(x) + 1 \in 1..Len(RrfMerge) /\ RrfMerge[Place(x) + 1] = x
<1> DEFINE N == Cardinality(Listed)
<1>1. /\ N \in Nat
      /\ \A x \in Listed : Place(x) \in 0..(N - 1)
      /\ \A x, y \in Listed : Place(x) = Place(y) => x = y
      /\ \A p \in 0..(N - 1) : \E x \in Listed : Place(x) = p
  BY Places
<1>2. RrfMerge = [k \in 1..N |-> CHOOSE x \in Listed : Place(x) = k - 1]
  BY DEF RrfMerge
<1> HIDE DEF N
<1>3. ASSUME NEW k \in 1..N PROVE RrfMerge[k] \in Listed /\ Place(RrfMerge[k]) = k - 1
  <2>1. k - 1 \in 0..(N - 1)
    BY <1>1
  <2>2. \E x \in Listed : Place(x) = k - 1
    BY <1>1, <2>1
  <2> QED BY <1>2, <2>2
<1>4. RrfMerge \in Seq(Listed) /\ Len(RrfMerge) = N
  BY <1>1, <1>2, <1>3
<1>5. ASSUME NEW x \in Listed PROVE Place(x) + 1 \in 1..N /\ RrfMerge[Place(x) + 1] = x
  <2>1. Place(x) + 1 \in 1..N /\ (Place(x) + 1) - 1 = Place(x)
    BY <1>1
  <2>2. RrfMerge[Place(x) + 1] \in Listed /\ Place(RrfMerge[Place(x) + 1]) = Place(x)
    BY <1>3, <2>1
  <2> QED BY <1>1, <2>1, <2>2
<1> QED BY <1>1, <1>3, <1>4, <1>5 DEF N

\* What is answered of it.
LEMMA CappedFacts ==
  ASSUME ListsOK, NEW c \in Nat \ {0}, Cap(DefaultCap) = c
  PROVE  LET F == CapLen(RrfMerge) IN
         /\ F \in Seq(Listed) /\ Len(F) <= c /\ Len(F) <= Cardinality(Listed)
         /\ Len(F) < c => Len(F) = Cardinality(Listed)
         /\ \A k \in 1..Len(F) : F[k] = RrfMerge[k]
<1>1. RrfMerge \in Seq(Listed) /\ Len(RrfMerge) = Cardinality(Listed) /\ Len(RrfMerge) \in Nat
  BY MergedFacts
<1> DEFINE F == CapLen(RrfMerge)
           N == Cardinality(Listed)
<1>2. CASE N <= c
  <2>1. F = RrfMerge
    BY <1>1, <1>2 DEF CapLen
  <2> QED BY <1>1, <1>2, <2>1
<1>3. CASE N > c
  <2>1. F = SubSeq(RrfMerge, 1, c)
    BY <1>1, <1>3 DEF CapLen
  <2>2. /\ F \in Seq(Listed) /\ Len(F) = c /\ \A k \in 1..c : F[k] = RrfMerge[k]
    BY <1>1, <1>3, <2>1
  <2> HIDE DEF F
  <2> QED BY <1>1, <1>3, <2>2 DEF F
<1> QED BY <1>1, <1>2, <1>3

\* An answer that is the blended list up to the limit is as SearchAnswer says.
LEMMA MergedAnswer ==
  ASSUME ListsOK, NEW c \in Nat \ {0}, Cap(DefaultCap) = c, NEW F, F = CapLen(RrfMerge)
  PROVE  /\ F \in Seq(Listed) /\ IsInjective(F) /\ Len(F) <= c /\ Range(F) \subseteq Listed
         /\ Len(F) < c => Range(F) = Listed
         /\ F = <<>> => Listed = {}
         /\ \A x, y \in Listed : (Ahead(x, y) /\ y \in Range(F)) =>
              \E i, j \in DOMAIN F : F[i] = x /\ F[j] = y /\ i < j
<1>1. /\ F \in Seq(Listed) /\ Len(F) <= c /\ Len(F) <= Len(RrfMerge) /\ Len(F) \in Nat
      /\ Len(F) < c => Len(F) = Len(RrfMerge)
      /\ \A k \in 1..Len(F) : F[k] = RrfMerge[k]
  BY CappedFacts, MergedFacts
<1>2. DOMAIN F = 1..Len(F)
  BY <1>1
<1>3. \A k \in 1..Len(F) : k \in 1..Len(RrfMerge) /\ F[k] \in Listed /\ Place(F[k]) = k - 1
  BY <1>1, MergedFacts
<1>4. IsInjective(F)
  <2> SUFFICES ASSUME NEW i \in 1..Len(F), NEW j \in 1..Len(F), F[i] = F[j] PROVE i = j
    BY <1>2 DEF IsInjective
  <2>1. i - 1 = j - 1
    BY <1>3
  <2> QED BY <1>1, <2>1
<1>5. Range(F) \subseteq Listed
  BY <1>2, <1>3 DEF Range
<1>6. \A x \in Listed : Place(x) + 1 \in 1..Len(F) => F[Place(x) + 1] = x
  BY <1>1, MergedFacts
<1>7. Len(F) < c => Listed \subseteq Range(F)
  <2> SUFFICES ASSUME Len(F) < c, NEW x \in Listed PROVE x \in Range(F)
    OBVIOUS
  <2>1. Place(x) + 1 \in 1..Len(F)
    BY <1>1, MergedFacts
  <2> QED BY <1>2, <1>6, <2>1 DEF Range
<1>8. F = <<>> => Listed = {}
  <2> SUFFICES ASSUME F = <<>>, NEW x \in Listed PROVE FALSE
    OBVIOUS
  <2>1. Len(F) = 0 /\ 0 < c
    OBVIOUS
  <2> QED BY <1>1, <2>1, MergedFacts
<1>9. ASSUME NEW x \in Listed, NEW y \in Listed, Ahead(x, y), y \in Range(F)
      PROVE  \E i, j \in DOMAIN F : F[i] = x /\ F[j] = y /\ i < j
  <2>1. PICK j \in 1..Len(F) : F[j] = y
    BY <1>2, <1>9 DEF Range
  <2>2. Place(x) < Place(y) /\ Place(y) = j - 1 /\ Place(x) \in Nat
    <3>1. Before(x, y)
      BY <1>9, AheadBefore
    <3>2. Place(x) < Place(y) /\ Place(x) \in 0..(Cardinality(Listed) - 1)
      BY <3>1, Places
    <3> QED BY <1>3, <2>1, <3>2
  <2>3. Place(x) + 1 \in 1..Len(F) /\ Place(x) + 1 < j
    BY <1>1, <2>1, <2>2
  <2>4. F[Place(x) + 1] = x
    BY <1>6, <2>3
  <2> QED BY <1>2, <2>1, <2>3, <2>4
<1> QED BY <1>1, <1>4, <1>5, <1>7, <1>8, <1>9

\* A search grows its lists tier by tier, and asks for trigrams when they are empty.
SearchInv ==
  /\ SearchTypeOK /\ ListsOK
  /\ tier = "fts" => Len(lists) = 0
  /\ tier \in {"embed", "any"} => Len(lists) = 1
  /\ tier = "semantic" => Len(lists) = 2
  /\ tier = "trigram" => Listed = {}
  /\ SearchAnswer

LEMMA HitsFacts ==
  ASSUME NEW limit \in Nat, NEW l \in Hits(limit)
  PROVE  l \in Seq(Rows) /\ IsInjective(l) /\ Len(l) <= limit
<1>1. PICK k \in 0..limit : l \in [1..k -> Rows]
  BY DEF Hits
<1>2. l \in Seq(Rows) /\ Len(l) = k
  BY <1>1
<1> QED BY <1>1, <1>2 DEF Hits

LEMMA CapFacts ==
  ASSUME SearchTypeOK
  PROVE  Cap(DefaultCap) \in Nat \ {0} /\ Cap(SqlCap) \in Nat
<1>1. query.limit \in Nat
  BY SearchAssumption DEF SearchTypeOK
<1> QED BY <1>1, SearchAssumption DEF Cap

\* One more list.
LEMMA OneMoreList ==
  ASSUME ListsOK, Len(lists) < 3, NEW l \in Seq(Rows), IsInjective(l), lists' = Append(lists, l)
  PROVE  /\ ListsOK' /\ Len(lists') = Len(lists) + 1
         /\ \A k \in DOMAIN lists' : lists'[k] \in Seq(Rows)
<1>1. /\ lists \in Seq(Seq(Rows)) /\ Len(lists) \in Nat /\ DOMAIN lists = 1..Len(lists)
      /\ \A k \in DOMAIN lists : IsInjective(lists[k])
  BY DEF ListsOK
<1>2. /\ lists' \in Seq(Seq(Rows)) /\ Len(lists') = Len(lists) + 1
      /\ DOMAIN lists' = 1..(Len(lists) + 1)
      /\ \A k \in 1..(Len(lists) + 1) : lists'[k] = IF k = Len(lists) + 1 THEN l ELSE lists[k]
  BY <1>1
<1>3. \A k \in DOMAIN lists' : IsInjective(lists'[k]) /\ lists'[k] \in Seq(Rows)
  <2> SUFFICES ASSUME NEW k \in 1..(Len(lists) + 1)
               PROVE  IsInjective(lists'[k]) /\ lists'[k] \in Seq(Rows)
    BY <1>2
  <2>1. CASE k = Len(lists) + 1
    BY <1>2, <2>1
  <2>2. CASE k # Len(lists) + 1
    <3>1. k \in DOMAIN lists
      BY <1>1, <2>2
    <3> QED BY <1>1, <1>2, <2>2, <3>1
  <2> QED BY <2>1, <2>2
<1>4. Len(lists') <= 3
  BY <1>1, <1>2
<1>5. ListsOK'
  BY <1>2, <1>3, <1>4 DEF ListsOK
<1> QED BY <1>2, <1>3, <1>5

\* The steps that ask for a list or an embedding.
LEMMA AskingSteps ==
  ASSUME SearchInv, SearchItems \/ EmbedQuery \/ SearchItemsAny \/ SearchItemsSemantic
  PROVE  SearchInv'
<1>t. /\ SearchTypeOK /\ ListsOK /\ Cap(DefaultCap) \in Nat /\ Cap(SqlCap) \in Nat
      /\ lists \in Seq(Seq(Rows))
  BY CapFacts DEF SearchInv, ListsOK
<1>e. IsInjective(<<>>) /\ <<>> \in Seq(Rows)
  BY DEF IsInjective
<1>1. CASE SearchItems
  <2>1. CASE tier' = "failed" /\ lists' = lists
    BY <1>1, <2>1, <1>t DEF SearchInv, SearchItems, SearchTypeOK, ListsOK, SearchAnswer
  <2>2. ASSUME NEW l \in Hits(Cap(SqlCap)), lists' = <<l>>, tier' = "embed" PROVE SearchInv'
    <3>1. l \in Seq(Rows) /\ IsInjective(l)
      BY <1>t, HitsFacts
    <3>2. lists = <<>> /\ Len(lists) = 0
      BY <1>1, <1>t DEF SearchInv, SearchItems
    <3>3. lists' = Append(lists, l)
      BY <2>2, <3>2
    <3>4. ListsOK' /\ Len(lists') = 1 /\ \A k \in DOMAIN lists' : lists'[k] \in Seq(Rows)
      BY <1>t, <3>1, <3>2, <3>3, OneMoreList
    <3> QED BY <1>1, <2>2, <3>4, <1>t DEF SearchInv, SearchItems, SearchTypeOK, SearchAnswer
  <2> QED BY <1>1, <2>1, <2>2 DEF SearchItems
<1>2. CASE EmbedQuery
  <2>1. /\ tier = "embed" /\ tier' = "any" /\ embedded' \in BOOLEAN
        /\ UNCHANGED <<query, embedding, lists, found>>
    BY <1>2 DEF EmbedQuery
  <2> QED BY <2>1, <1>t DEF SearchInv, SearchTypeOK, ListsOK, SearchAnswer
<1>3. CASE SearchItemsAny
  <2>1. PICK l \in Seq(Rows) : IsInjective(l) /\ lists' = Append(lists, l)
    BY <1>3, <1>t, <1>e, HitsFacts DEF SearchItemsAny
  <2>2. Len(lists) = 1 /\ tier' = "semantic" /\ UNCHANGED <<query, embedding, embedded, found>>
    BY <1>3 DEF SearchInv, SearchItemsAny
  <2>3. ListsOK' /\ Len(lists') = 2 /\ \A k \in DOMAIN lists' : lists'[k] \in Seq(Rows)
    BY <1>t, <2>1, <2>2, OneMoreList
  <2> QED BY <2>2, <2>3, <1>t DEF SearchInv, SearchTypeOK, SearchAnswer
<1>4. CASE SearchItemsSemantic
  <2>1. PICK l \in Seq(Rows) : IsInjective(l) /\ lists' = Append(lists, l)
    BY <1>4, <1>t, <1>e, HitsFacts DEF SearchItemsSemantic
  <2>2. Len(lists) = 2 /\ tier' = "merge" /\ UNCHANGED <<query, embedding, embedded, found>>
    BY <1>4 DEF SearchInv, SearchItemsSemantic
  <2>3. ListsOK' /\ Len(lists') = 3 /\ \A k \in DOMAIN lists' : lists'[k] \in Seq(Rows)
    BY <1>t, <2>1, <2>2, OneMoreList
  <2> QED BY <2>2, <2>3, <1>t DEF SearchInv, SearchTypeOK, SearchAnswer
<1> QED BY <1>1, <1>2, <1>3, <1>4

\* The steps that answer.
LEMMA AnsweringSteps ==
  ASSUME SearchInv, FinalizeItems \/ SearchItemsFuzzy
  PROVE  SearchInv'
<1> DEFINE c == Cap(DefaultCap)
<1>t. SearchTypeOK /\ ListsOK /\ c \in Nat \ {0}
  BY CapFacts DEF SearchInv
<1>u. UNCHANGED <<query, embedding, lists, embedded>>
  BY DEF FinalizeItems, SearchItemsFuzzy
<1>l. Listed' = Listed /\ ListsOK' /\ c' = c
  BY <1>t, <1>u DEF Listed, ListsOK, Cap
<1>a. \A x, y : Ahead(x, y)' <=> Ahead(x, y)
  BY <1>u DEF Ahead, ListsWith, RankIn
<1>r. Listed \subseteq Rows
  BY <1>t, Places
<1>1. CASE FinalizeItems
  <2>1. found' = CapLen(RrfMerge) /\ tier' \in {"done", "trigram"} /\ (tier' = "trigram" => found' = <<>>)
    BY <1>1 DEF FinalizeItems
  <2>2. /\ found' \in Seq(Listed) /\ IsInjective(found') /\ Len(found') <= c
        /\ Range(found') \subseteq Listed
        /\ Len(found') < c => Range(found') = Listed
        /\ found' = <<>> => Listed = {}
        /\ \A x, y \in Listed : (Ahead(x, y) /\ y \in Range(found')) =>
             \E i, j \in DOMAIN found' : found'[i] = x /\ found'[j] = y /\ i < j
    BY <1>t, <2>1, MergedAnswer
  <2>3. found' \in Seq(Rows)
    BY <1>r, <2>2
  <2>4. SearchTypeOK'
    BY <1>t, <1>u, <2>1, <2>3 DEF SearchTypeOK
  <2> HIDE DEF c
  <2>5. SearchAnswer'
    <3>1. Cap(DefaultCap)' = c
      BY <1>l DEF c
    <3> QED BY <1>l, <1>a, <2>2, <3>1 DEF SearchAnswer
  <2> QED BY <1>l, <2>1, <2>2, <2>4, <2>5 DEF SearchInv
<1>2. CASE SearchItemsFuzzy
  <2>1. tier = "trigram" /\ Listed = {} /\ tier' \in {"done", "failed"}
    BY <1>2 DEF SearchItemsFuzzy, SearchInv
  <2>2. (found' = found /\ tier' = "failed") \/ found' \in Hits(c)
    BY <1>2 DEF SearchItemsFuzzy
  <2>3. found' \in Seq(Rows) /\ (tier' = "done" => IsInjective(found') /\ Len(found') <= c)
    BY <1>t, <2>2, HitsFacts DEF SearchTypeOK
  <2>4. SearchTypeOK'
    BY <1>t, <1>u, <2>1, <2>3 DEF SearchTypeOK
  <2> HIDE DEF c
  <2>5. SearchAnswer'
    <3>1. Cap(DefaultCap)' = c
      BY <1>l DEF c
    <3> QED BY <1>l, <2>1, <2>3, <3>1 DEF SearchAnswer
  <2> QED BY <1>l, <2>1, <2>4, <2>5 DEF SearchInv
<1> QED BY <1>1, <1>2

LEMMA SearchInvariant == SearchSpec => []SearchInv
<1>1. SearchInit => SearchInv
  <2> SUFFICES ASSUME SearchInit PROVE SearchInv
    OBVIOUS
  <2>1. lists = <<>> /\ found = <<>> /\ tier = "fts" /\ DOMAIN lists = {} /\ Len(lists) = 0
    BY DEF SearchInit
  <2>2. ListsOK
    BY <2>1 DEF ListsOK
  <2>3. SearchTypeOK
    <3>1. {embedding, embedded} \subseteq BOOLEAN
      BY DEF SearchInit
    <3>2. query \in [limit : Limits, lexemes : BOOLEAN, short : BOOLEAN, words : BOOLEAN]
      BY DEF SearchInit
    <3>3. Len(lists) <= 3 /\ (\A k \in DOMAIN lists : lists[k] \in Seq(Rows)) /\ found \in Seq(Rows)
      BY <2>1
    <3> QED BY <2>1, <3>1, <3>2, <3>3 DEF SearchTypeOK
  <2> QED BY <2>1, <2>2, <2>3 DEF SearchInv, SearchAnswer
<1>2. SearchInv /\ [SearchNext]_searchVars => SearchInv'
  <2> SUFFICES ASSUME SearchInv, [SearchNext]_searchVars PROVE SearchInv'
    OBVIOUS
  <2>1. CASE UNCHANGED searchVars
    <3>u. /\ query' = query /\ embedding' = embedding /\ tier' = tier /\ lists' = lists
          /\ embedded' = embedded /\ found' = found
      BY <2>1 DEF searchVars
    <3>1. ListsOK' /\ SearchTypeOK' /\ Listed' = Listed /\ Cap(DefaultCap)' = Cap(DefaultCap)
      BY <3>u DEF SearchInv, ListsOK, SearchTypeOK, Listed, Cap
    <3>2. \A x, y : Ahead(x, y)' <=> Ahead(x, y)
      BY <3>u DEF Ahead, ListsWith, RankIn
    <3>3. SearchAnswer'
      BY <3>u, <3>1, <3>2 DEF SearchInv, SearchAnswer
    <3> QED BY <3>u, <3>1, <3>3 DEF SearchInv
  <2> QED BY <2>1, AskingSteps, AnsweringSteps DEF SearchNext
<1> QED BY <1>1, <1>2, PTL DEF SearchSpec

\* The search's state is of its type.
THEOREM SearchTypeCorrect == SearchSpec => []SearchTypeOK
<1>1. SearchInv => SearchTypeOK
  BY DEF SearchInv
<1> QED BY <1>1, SearchInvariant, PTL

\* Whatever the tiers return, the answer has every row they found as far as the
\* limit goes, none twice, and none cut for one that every list puts behind it.
THEOREM SearchKeepsHits == SearchSpec => []SearchAnswer
<1>1. SearchInv => SearchAnswer
  BY DEF SearchInv
<1> QED BY <1>1, SearchInvariant, PTL

============================================================================
