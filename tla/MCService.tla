----------------------------- MODULE MCService -----------------------------
(***************************************************************************)
(* TLC instances of the service's components that share no state with each *)
(* other in these models: a behaviour picks one of them and runs it.       *)
(***************************************************************************)
EXTENDS Items, OrientCache, Embedder, Projects, Attachments, ContextImpact, Shares, Usage,
        Settings, LiveFeed, Sessions, Orient, Search

CONSTANTS
  a1, a2, c1, c2, f1, f2, i1, r1, r2, u1, u2, A, B, pr, noItem

VARIABLE active

Components == {"create", "update", "cache", "embed", "projects", "attach", "impact", "shares", "usage",
          "settings", "feed", "sessions", "orient", "search"}

OneCopy == {1, 2}
SomeBatches == {<<"k1", "k2">>, <<"k2", "k1">>}
NoteText == {<<"i1", 1>>, <<"a1", 0>>}
BadVector == {<<"i2", 0>>}
SomeTouches == [w \in {"w1", "b1"} |-> IF w = "w1" THEN "s1" ELSE "s2"]

SomeReports ==
  {[session |-> "s1", project |-> "p", item |-> "p", effect |-> "helpful",
    mechanism |-> "prevented_error", minutes |-> 5],
   [session |-> "s2", project |-> "p", item |-> "", effect |-> "neutral",
    mechanism |-> "ignored", minutes |-> 0],
   [session |-> "s1", project |-> "p", item |-> "", effect |-> "harmful",
    mechanism |-> "stale_or_incorrect", minutes |-> 5]}

\* What the components not at work keep.
RestBut(part) ==
  /\ part \notin {"create", "update"} => UNCHANGED itemsVars
  /\ part # "cache" => UNCHANGED cacheVars
  /\ part # "embed" => UNCHANGED embedVars
  /\ part # "projects" => UNCHANGED projectVars
  /\ part # "attach" => UNCHANGED attachVars
  /\ part # "impact" => UNCHANGED impactVars
  /\ part # "shares" => UNCHANGED shareVars
  /\ part # "usage" => UNCHANGED usageVars
  /\ part # "settings" => UNCHANGED settingsVars
  /\ part # "feed" => UNCHANGED feedVars
  /\ part # "sessions" => UNCHANGED sessionVars
  /\ part # "orient" => UNCHANGED orientVars
  /\ part # "search" => UNCHANGED searchVars

\* Every component at its initial states; those with several start from one of them
\* unless they are at work.
ServiceInit ==
  /\ active \in Components
  /\ IF active = "update"
     THEN /\ items = [i \in ItemIds |-> IF i = 1 THEN [FreeRow EXCEPT !.state = "live"] ELSE FreeRow]
          /\ call = [c \in Callers |-> Idle] /\ answered = {} /\ history = [i \in ItemIds |-> <<>>]
     ELSE ItemsInit
  /\ CacheInit /\ EmbedInit /\ ProjectsInit /\ AttachInit /\ ImpactInit /\ SharesInit /\ UsageInit
  /\ SettingsInit /\ FeedInit /\ SessionsInit /\ OrientInit /\ SearchInit
  /\ active # "orient" => blocks = {}
  /\ active # "search" =>
       ~query.short /\ ~query.words /\ ~query.lexemes /\ query.limit = 0 /\ ~embedding

Part(part, next) == active = part /\ next /\ RestBut(part) /\ UNCHANGED active

ServiceNext ==
  \/ Part("create", CreateNext \/ DeleteNext)
  \/ Part("update", UpdateNext \/ DeleteNext)
  \/ Part("cache", CacheNext)
  \/ Part("embed", EmbedNext)
  \/ Part("projects", ProjectsNext)
  \/ Part("attach", AttachNext)
  \/ Part("impact", ImpactNext)
  \/ Part("shares", SharesNext)
  \/ Part("usage", UsageNext)
  \/ Part("settings", SettingsNext)
  \/ Part("feed", FeedNext)
  \/ Part("sessions", SessionsNext)
  \/ Part("orient", OrientNext)
  \/ Part("search", SearchNext)

serviceVars == <<active, itemsVars, cacheVars, embedVars, projectVars, attachVars, impactVars,
                 shareVars, usageVars, settingsVars, feedVars, sessionVars, orientVars, searchVars>>

\* The fairness is the embedding worker's own, from Embedder.
ServiceSpec ==
  ServiceInit /\ [][ServiceNext]_serviceVars
  /\ WF_serviceVars(Part("embed", WorkerStep))

\* One poison row does not stall the others, and none is retried for ever (embedder.go):
\* while the worker is at work, every row gets a vector or is parked (BacklogDrains).
EmbedderDrains == (active = "embed") => BacklogDrains

\* The types of the state of the component at work; the others' does not change.
ServiceTypeOK ==
  /\ active \in Components
  /\ active \in {"create", "update"} => ItemsTypeOK
  /\ active = "cache" => CacheTypeOK
  /\ active = "embed" => EmbedTypeOK
  /\ active = "projects" => ProjectsTypeOK
  /\ active = "attach" => AttachTypeOK
  /\ active = "impact" => ImpactTypeOK
  /\ active = "shares" => SharesTypeOK
  /\ active = "usage" => UsageTypeOK
  /\ active = "settings" => SettingsTypeOK
  /\ active = "feed" => FeedTypeOK
  /\ active = "sessions" => SessionsTypeOK
  /\ active = "orient" => OrientTypeOK
  /\ active = "search" => SearchTypeOK
=============================================================================
