---------------------------- MODULE OrientCache ----------------------------
(***************************************************************************)
(* The orient bundle (service.ProjectContext), its cache (cache.go) and    *)
(* the singleflight group that collapses concurrent builds, under writes.  *)
(* A bundle is put together from separate reads, so it is the set of the   *)
(* writes those reads saw.  A write commits and then, if its code path     *)
(* does so, clears the cache; between the two, and while a build runs,     *)
(* anything may happen.  One cache key stands for all: no key's entry      *)
(* depends on another's, and clear drops every one (GlobalContext is the   *)
(* same machine under its own key).  The TTL is an event, Expire.          *)
(***************************************************************************)
EXTENDS FiniteSets

CONSTANTS
  Readers,    \* callers of get_project_context
  Sections,   \* the reads a build makes, in parallel
  Writes,     \* writes, each made once
  Touches,    \* the section each write changes
  Clearing    \* the writes whose code path clears the cache; the others are
              \* links, refs, REST deletes, project patches, synced rows

ASSUME CacheAssumption ==
  /\ Touches \in [Writes -> Sections]
  /\ Clearing \subseteq Writes

Bundle == [saw : SUBSET Writes, during : SUBSET Writes]
NoBundle == [saw |-> {}, during |-> {}, none |-> TRUE]

Flight == [at : {"none", "check", "read", "set", "return"}, sharers : SUBSET Readers,
           unread : SUBSET Sections, bundle : Bundle]

VARIABLES
  written,   \* the writes that are committed
  cleared,   \* the writes that were answered: committed, and the cache cleared
  entry,     \* the cached bundle, or NoBundle
  flight,    \* the build singleflight is running
  reader,    \* what each reader waits for
  asked,     \* history: the writes answered before the reader asked
  got        \* the bundle each reader was given last, or NoBundle

cacheVars == <<written, cleared, entry, flight, reader, asked, got>>

CacheTypeOK ==
  /\ cleared \subseteq written /\ written \subseteq Writes
  /\ entry \in Bundle \cup {NoBundle}
  /\ flight \in Flight
  /\ reader \in [Readers -> {"idle", "missed", "shares"}]
  /\ asked \in [Readers -> SUBSET Writes]
  /\ got \in [Readers -> Bundle \cup {NoBundle}]

NoFlight == [at |-> "none", sharers |-> {}, unread |-> {},
             bundle |-> [saw |-> {}, during |-> {}]]

CacheInit ==
  /\ written = {} /\ cleared = {}
  /\ entry = NoBundle
  /\ flight = NoFlight
  /\ reader = [r \in Readers |-> "idle"]
  /\ asked = [r \in Readers |-> {}]
  /\ got = [r \in Readers |-> NoBundle]

\* The write overlaps the build that is running, if one is.
Overlap(w) ==
  IF flight.at = "none" THEN flight
  ELSE [flight EXCEPT !.bundle.during = @ \cup {w}]

CommitWrite(w) ==
  /\ w \notin written
  /\ written' = written \cup {w}
  /\ cleared' = IF w \in Clearing THEN cleared ELSE cleared \cup {w}
  /\ flight' = Overlap(w)
  /\ UNCHANGED <<entry, reader, asked, got>>

\* Mutant: the entry stays.
ClearCacheElsewhere(w) ==
  /\ w \in written \ cleared
  /\ cleared' = cleared \cup {w}
  /\ flight' = Overlap(w)
  /\ UNCHANGED <<written, entry, reader, asked, got>>

\* ttlCache.clear, after the commit.
ClearCache(w) ==
  /\ w \in written \ cleared
  /\ entry' = NoBundle
  /\ cleared' = cleared \cup {w}
  /\ flight' = Overlap(w)
  /\ UNCHANGED <<written, reader, asked, got>>

Expire ==
  /\ entry # NoBundle
  /\ entry' = NoBundle
  /\ UNCHANGED <<written, cleared, flight, reader, asked, got>>

\* ttlCache.get: a hit is the answer, a miss goes to singleflight.
AskOrient(r) ==
  /\ reader[r] = "idle"
  /\ asked' = [asked EXCEPT ![r] = cleared]
  /\ got' = [got EXCEPT ![r] = entry]
  /\ reader' = [reader EXCEPT ![r] = IF entry = NoBundle THEN "missed" ELSE "idle"]
  /\ UNCHANGED <<written, cleared, entry, flight>>

\* singleflight.Do: the first caller builds, the others share its result.
EnterFlight(r) ==
  /\ reader[r] = "missed"
  /\ reader' = [reader EXCEPT ![r] = "shares"]
  /\ flight' = IF flight.at = "none"
               THEN [at |-> "check", sharers |-> {r}, unread |-> Sections,
                     bundle |-> [saw |-> {}, during |-> written \ cleared]]
               ELSE [flight EXCEPT !.sharers = @ \cup {r}]
  /\ UNCHANGED <<written, cleared, entry, asked, got>>

\* "won a race while queued": the cache is looked at again inside the flight.
CheckAgain ==
  /\ flight.at = "check"
  /\ flight' = IF entry = NoBundle THEN [flight EXCEPT !.at = "read"]
               ELSE [flight EXCEPT !.at = "return", !.bundle = entry]
  /\ UNCHANGED <<written, cleared, entry, reader, asked, got>>

\* The reads of buildProjectContext, in the order they happen to run.
ReadSection(s) ==
  /\ flight.at = "read" /\ s \in flight.unread
  /\ flight' = [flight EXCEPT
       !.unread = @ \ {s},
       !.at = IF flight.unread = {s} THEN "set" ELSE "read",
       !.bundle.saw = @ \cup {w \in written : Touches[w] = s}]
  /\ UNCHANGED <<written, cleared, entry, reader, asked, got>>

\* ttlCache.set
SetEntry ==
  /\ flight.at = "set"
  /\ entry' = flight.bundle
  /\ flight' = [flight EXCEPT !.at = "return"]
  /\ UNCHANGED <<written, cleared, reader, asked, got>>

EndFlight(result) ==
  /\ got' = [r \in Readers |-> IF r \in flight.sharers THEN result ELSE got[r]]
  /\ reader' = [r \in Readers |-> IF r \in flight.sharers THEN "idle" ELSE reader[r]]
  /\ flight' = NoFlight
  /\ UNCHANGED <<written, cleared, entry, asked>>

\* singleflight forgets the key only now: whoever came before shares.
ReturnBundle == flight.at = "return" /\ EndFlight(flight.bundle)

\* One of the reads fails: nothing is cached, every sharer gets the error.
BuildFails == flight.at = "read" /\ EndFlight(NoBundle)

CacheNext ==
  \/ \E w \in Writes : CommitWrite(w) \/ ClearCache(w)
  \/ \E r \in Readers : AskOrient(r) \/ EnterFlight(r)
  \/ Expire \/ CheckAgain \/ SetEntry \/ ReturnBundle \/ BuildFails
  \/ \E s \in Sections : ReadSection(s)

CacheSpec == CacheInit /\ [][CacheNext]_cacheVars

-----------------------------------------------------------------------------
\* "Every write clears it, so write-then-orient never sees stale data", as far
\* as it holds: a cached bundle misses an answered write only if the write does
\* not clear, or ran while the bundle was being built.
CachedFresh ==
  entry # NoBundle => cleared \cap Clearing \subseteq entry.saw \cup entry.during

\* The same for what a caller is given, whether from the cache, by its own build
\* or by sharing one that began before it asked.
OrientFresh ==
  \A r \in Readers :
    got[r] # NoBundle => asked[r] \cap Clearing \subseteq got[r].saw \cup got[r].during

\* Neither what is cached nor what is answered misses such a write (cache.go:8-10).
CacheFresh == CachedFresh /\ OrientFresh
=============================================================================
