--------------------------- MODULE ServiceProofs ---------------------------
(***************************************************************************)
(* The components put together: a behaviour of the service is, for each    *)
(* component, a behaviour of that component that starts where the          *)
(* component may start and changes when it is its turn; so what was proved *)
(* of each holds of the service.                                           *)
(***************************************************************************)
EXTENDS MCService, ItemsProofs, ContextProofs, StorageProofs, InstanceProofs

\* Whatever is at work, every component takes one of its own steps or none.
LEMMA StepOfEach ==
  ASSUME [ServiceNext]_serviceVars
  PROVE  /\ [ItemsNext]_itemsVars /\ [CacheNext]_cacheVars /\ [EmbedNext]_embedVars
         /\ [ProjectsNext]_projectVars /\ [AttachNext]_attachVars /\ [ImpactNext]_impactVars
         /\ [SharesNext]_shareVars /\ [UsageNext]_usageVars /\ [SettingsNext]_settingsVars
         /\ [FeedNext]_feedVars /\ [SessionsNext]_sessionVars /\ [OrientNext]_orientVars
         /\ [SearchNext]_searchVars
         /\ active' = active
<1>1. ASSUME NEW part \in Components, RestBut(part)
      PROVE  /\ part \notin {"create", "update"} => UNCHANGED itemsVars
             /\ part # "cache" => UNCHANGED cacheVars
             /\ part # "embed" => UNCHANGED embedVars
             /\ part # "projects" => UNCHANGED projectVars
             /\ part # "attach" => UNCHANGED attachVars
             /\ part # "impact" => UNCHANGED impactVars
             /\ part # "shares" => UNCHANGED shareVars
             /\ part # "usage" => UNCHANGED usageVars
             /\ part # "settings" => UNCHANGED settingsVars
             /\ part # "feed" => UNCHANGED feedVars
             /\ part # "sessions" => UNCHANGED sessionVars
             /\ part # "orient" => UNCHANGED orientVars
             /\ part # "search" => UNCHANGED searchVars
  BY <1>1 DEF RestBut
<1>2. CASE ServiceNext
  BY <1>1, <1>2 DEF ServiceNext, Part, Components, ItemsNext
<1>3. CASE UNCHANGED serviceVars
  BY <1>3 DEF serviceVars
<1> QED BY <1>2, <1>3

\* The components with no fairness of their own, from their own initial states.
LEMMA RunsComponents ==
  ServiceSpec => /\ CacheSpec /\ EmbedInit /\ [][EmbedNext]_embedVars /\ ProjectsSpec /\ AttachSpec
                 /\ ImpactSpec /\ SharesSpec /\ UsageSpec /\ SettingsSpec /\ FeedSpec
                 /\ SessionsSpec /\ OrientSpec /\ SearchSpec
<1>1. ServiceInit => /\ CacheInit /\ EmbedInit /\ ProjectsInit /\ AttachInit /\ ImpactInit
                     /\ SharesInit /\ UsageInit /\ SettingsInit /\ FeedInit /\ SessionsInit
                     /\ OrientInit /\ SearchInit
  BY DEF ServiceInit
<1> QED BY <1>1, StepOfEach, PTL
        DEF ServiceSpec, CacheSpec, ProjectsSpec, AttachSpec, ImpactSpec, SharesSpec, UsageSpec,
            SettingsSpec, FeedSpec, SessionsSpec, OrientSpec, SearchSpec

\* The items may also start with a live one.
LEMMA ItemsOfService == ServiceSpec => []ItemsInv
<1>1. ServiceInit => ItemsInv
  <2> SUFFICES ASSUME ServiceInit, active = "update" PROVE ItemsInv
    BY ItemsInitInv DEF ServiceInit
  <2>1. /\ items = [i \in ItemIds |-> IF i = 1 THEN [FreeRow EXCEPT !.state = "live"] ELSE FreeRow]
        /\ call = [c \in Callers |-> Idle] /\ answered = {} /\ history = [i \in ItemIds |-> <<>>]
    BY DEF ServiceInit
  <2>2. LET kept == [FreeRow EXCEPT !.state = "live"]
        IN /\ kept \in Row /\ kept.state = "live" /\ kept.owner = "none" /\ kept.key = NoKey
           /\ kept.status = "backlog" /\ kept.version = 1
    BY FreeFacts DEF FreeRow, Row
  <2>3. /\ items \in [ItemIds -> Row]
        /\ \A i \in ItemIds : /\ items[i].state \in {"live", "free"} /\ items[i].owner = "none"
                              /\ items[i].key = NoKey /\ items[i].status = "backlog"
                              /\ items[i].version = 1
    BY <2>1, <2>2, FreeFacts DEF FreeRow
  <2> HIDE <2>1
  <2>4. /\ call \in [Callers -> Call] /\ \A c \in Callers : call[c].at = "idle"
        /\ answered = {} /\ history = [i \in ItemIds |-> <<>>]
    BY <2>1, FreeFacts
  <2>5. ItemsTypeOK /\ Owned /\ RowMatchesLog
    BY <2>3, <2>4 DEF ItemsTypeOK, Owned, RowMatchesLog, LastStatus
  <2>6. ReadersHold /\ LoneRequests
    BY <2>4 DEF ReadersHold, ReadHolds, LoneRequests, LoneRequest, InTx
  <2>7. OneHolder /\ AnswersHold
    BY <2>3, <2>4 DEF OneHolder, Holders, AnswersHold
  <2>8. NoUnseenOverwrite /\ StatusLogHonest
    BY <2>4 DEF NoUnseenOverwrite, StatusLogHonest
  <2> QED BY <2>5, <2>6, <2>7, <2>8 DEF ItemsInv
<1>2. ItemsInv /\ [ServiceNext]_serviceVars => ItemsInv'
  BY StepOfEach, ItemsStep
<1> QED BY <1>1, <1>2, PTL DEF ServiceSpec

ActiveOK == active \in Components

\* Every component keeps its types, whichever is at work.
THEOREM ServiceTypeCorrect == ServiceSpec => []ServiceTypeOK
<1>1. ServiceInit => ActiveOK
  BY DEF ServiceInit, ActiveOK
<1>2. ActiveOK /\ [ServiceNext]_serviceVars => ActiveOK'
  BY StepOfEach DEF ActiveOK
<1>3. ServiceSpec => []ActiveOK
  BY <1>1, <1>2, PTL DEF ServiceSpec
<1>4. /\ ItemsInv => ItemsTypeOK
      /\ EmbedInv => EmbedTypeOK
      /\ ProjectInv => ProjectsTypeOK
      /\ AttachInv => AttachTypeOK
      /\ ImpactInv => ImpactTypeOK
      /\ SharesInv => SharesTypeOK
      /\ FeedInv => FeedTypeOK
      /\ SessionsInv => SessionsTypeOK
  BY DEF ItemsInv, EmbedInv, ProjectInv, AttachInv, ImpactInv, SharesInv, FeedInv, SessionsInv
<1>5. (/\ ActiveOK /\ ItemsTypeOK /\ CacheTypeOK /\ EmbedTypeOK /\ ProjectsTypeOK
       /\ AttachTypeOK /\ ImpactTypeOK /\ SharesTypeOK /\ UsageTypeOK /\ SettingsTypeOK
       /\ FeedTypeOK /\ SessionsTypeOK /\ OrientTypeOK /\ SearchTypeOK)
        => ServiceTypeOK
  BY DEF ServiceTypeOK, ActiveOK
<1> QED
  BY <1>3, <1>4, <1>5, RunsComponents, ItemsOfService, CacheTypeCorrect, EmbedInvariant,
     ProjectInvariant, AttachInvariant, ImpactInvariant, SharesInvariant, UsageTypeCorrect,
     SettingsTypeCorrect, FeedInvariant, SessionsInvariant, OrientTypeCorrect, SearchTypeCorrect, PTL

\* What each component promises, it keeps in the service: the retries of creations, the
\* versions and the log of items, fresh bundles and vectors, the tree and the purges of
\* projects, attachments and their objects, impact reports, the two ends of a share, usage
\* reports, settings, live views, nudges, what is ready, and what a search finds.
THEOREM ServiceKeepsPromises ==
  ServiceSpec => /\ [](RetriesAgree /\ NoUnseenOverwrite /\ StatusLogHonest) /\ LoserServed
                 /\ [](CacheFresh /\ EmbeddingSound)
                 /\ [](ForestUnlessRaced /\ RowsKeepBlobs) /\ PurgeDeliberate
                 /\ [](RowsOpen /\ OverLimitByRacersOnly)
                 /\ [](ImpactOnce /\ MirrorEnds /\ ReportSound /\ SettingsSound)
                 /\ [](LiveViewCurrent /\ NudgesHonest /\ ReadyNextSound /\ SearchAnswer)
<1>1. ServiceSpec => [](RetriesAgree /\ NoUnseenOverwrite /\ StatusLogHonest)
  BY ItemsOfService, AnswersAgree, PTL DEF ItemsInv
<1>2. ServiceSpec => LoserServed
  BY ItemsOfService, StepOfEach, LosersServed, PTL DEF ServiceSpec
<1>3. EmbedInv => EmbeddingSound
  BY DEF EmbedInv, EmbeddingSound
<1> QED
  BY <1>1, <1>2, <1>3, RunsComponents, WriteThenOrient, EmbedInvariant, CyclesNeedARace, PurgeKeepsBlobs,
     PurgesAreDeliberate, LiveRowsOpen, LimitExceededByRacers, OneEventPerKey, EndsMirror,
     ReportsAreSound, SettingsAreSound, ViewsCatchUp, NudgedOncePerReset, ReadyWhileRead,
     SearchKeepsHits, PTL
=============================================================================
