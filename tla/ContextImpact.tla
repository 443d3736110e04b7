--------------------------- MODULE ContextImpact ---------------------------
(***************************************************************************)
(* Recording what retrieved context was worth (service/context_impact.go,  *)
(* service/validate.go, store/context_impact.sql.go,                       *)
(* migrations/00013_context_effectiveness.sql).  An event is immutable and *)
(* is never removed; a report with an idempotency key is answered with the *)
(* event that key already stands for, or refused when its content differs. *)
(* No transaction spans the lookup, the resolution of the project and the  *)
(* item, and the insert.  The fingerprint is a hash of the content as the  *)
(* caller wrote it, the session included: the model takes it for the       *)
(* content itself.  A tool call that names no session reports under the    *)
(* session of its transport.                                               *)
(***************************************************************************)
EXTENDS Naturals, Integers, FiniteSets

CONSTANTS
  Reporters,        \* requests in flight
  ReportActors,
  ReportKeys,
  NoReportKey,
  Reports,          \* contents: [session, project, item, effect, mechanism, minutes]; an
                    \* item goes by the name of the project it is in, "" for none
  NoMinutes,
  MaxEvents         \* bound: events recorded

ASSUME ContextImpactAssumption == NoReportKey \notin ReportKeys /\ MaxEvents \in Nat

Effects == {"helpful", "neutral", "harmful"}

ValidPairs ==
  ({"helpful"} \X {"decision_changed", "prevented_error",
                   "duplicate_work_avoided", "reconstruction_saved"})
    \cup {<<"neutral", "ignored">>, <<"harmful", "stale_or_incorrect">>}

\* A day, gained or lost.
Minutes == -1440..1440
MinutesLost == -1440..0
MinutesSaved == 0..1440

\* Lengths aside.
ValidateContextImpact(r) ==
  /\ r.session # "" /\ r.project # ""
  /\ <<r.effect, r.mechanism>> \in ValidPairs
  /\ r.minutes = NoMinutes \/
       /\ r.minutes \in Minutes
       /\ r.effect = "helpful" => r.minutes >= 0
       /\ r.effect = "harmful" => r.minutes <= 0
       /\ r.effect = "neutral" => r.minutes = 0

\* The CHECKs of the table, whose disjuncts are by effect.
TableAccepts(r) ==
  /\ r.session # "" /\ r.project # "" /\ r.effect \in Effects
  /\ \/ r.effect = "helpful" /\ r.mechanism \notin {"ignored", "stale_or_incorrect"}
     \/ r.effect = "neutral" /\ r.mechanism = "ignored"
     \/ r.effect = "harmful" /\ r.mechanism = "stale_or_incorrect"
  /\ \/ r.minutes = NoMinutes
     \/ r.effect = "helpful" /\ r.minutes \in MinutesSaved
     \/ r.effect = "neutral" /\ r.minutes = 0
     \/ r.effect = "harmful" /\ r.minutes \in MinutesLost

VARIABLES
  events,     \* the table: [id, actor, key, content]
  reporting,  \* the report each request is working on
  replied,    \* history: answers under a key, as what was asked and the id told
  broken,     \* history: contents the table refused after validation
  knownProjects

impactVars == <<events, reporting, replied, broken, knownProjects>>

AnyReportKey == ReportKeys \cup {NoReportKey}

Asked == [actor : ReportActors, key : AnyReportKey, content : Reports]
Event == [id : 1..MaxEvents, actor : ReportActors, key : AnyReportKey, content : Reports]
Working == [at : {"idle"}] \cup [at : {"resolve", "insert", "again"}, ask : Asked]

ImpactTypeOK ==
  /\ events \subseteq Event
  /\ reporting \in [Reporters -> Working]
  /\ replied \subseteq Event
  /\ broken \subseteq Reports
  /\ knownProjects \subseteq {r.project : r \in Reports}

ImpactInit ==
  /\ events = {} /\ replied = {} /\ broken = {}
  /\ reporting = [c \in Reporters |-> [at |-> "idle"]]
  /\ knownProjects = {r.project : r \in Reports} \ {""}

Goto(c, at, ask) == reporting' = [reporting EXCEPT ![c] = [at |-> at, ask |-> ask]]

EndReport(c) == reporting' = [reporting EXCEPT ![c] = [at |-> "idle"]]

\* GetContextImpactByIdempotencyKey
PriorImpact(ask) ==
  {e \in events : ask.key # NoReportKey /\ e.key = ask.key /\ e.actor = ask.actor}

\* Without a key there is nothing to answer the same way twice.
Told(ask, e) ==
  replied' = replied \cup {t \in {[id |-> e.id, actor |-> ask.actor, key |-> ask.key,
                                   content |-> ask.content]} : ask.key # NoReportKey}

\* Mutant: the fingerprints are not compared.
ReplayAnything(ask, e) == Told(ask, e)

\* contextImpactReplay: other content under the key is a conflict.
Replay(ask, e) ==
  \/ e.content = ask.content /\ Told(ask, e)
  \/ e.content # ask.content /\ UNCHANGED replied

\* RecordContextImpact: an invalid content is refused before anything is read.
RecordContextImpact(c, ask) ==
  /\ reporting[c].at = "idle"
  /\ ValidateContextImpact(ask.content)
  /\ \/ /\ PriorImpact(ask) = {}
        /\ Goto(c, "resolve", ask)
        /\ UNCHANGED replied
     \/ \E e \in PriorImpact(ask) : Replay(ask, e) /\ EndReport(c)
  /\ UNCHANGED <<events, broken, knownProjects>>

\* GetProjectBySlug and contextImpactItem; the event will keep the two names only.
ResolveImpact(c) ==
  /\ reporting[c].at = "resolve"
  /\ LET r == reporting[c].ask.content
     IN IF r.project \in knownProjects /\ r.item \in {"", r.project}
        THEN Goto(c, "insert", reporting[c].ask)
        ELSE EndReport(c)
  /\ UNCHANGED <<events, replied, broken, knownProjects>>

\* CreateContextImpactEvent
InsertImpact(c) ==
  /\ reporting[c].at = "insert"
  /\ LET ask == reporting[c].ask
         e == [id |-> Cardinality(events) + 1, actor |-> ask.actor, key |-> ask.key,
               content |-> ask.content]
     IN \/ /\ PriorImpact(ask) = {} /\ Cardinality(events) < MaxEvents
           /\ IF TableAccepts(ask.content)
              THEN events' = events \cup {e} /\ Told(ask, e) /\ UNCHANGED broken
              ELSE broken' = broken \cup {ask.content} /\ UNCHANGED <<events, replied>>
           /\ EndReport(c)
        \/ /\ PriorImpact(ask) # {}
           /\ Goto(c, "again", ask)
           /\ UNCHANGED <<events, replied, broken>>
  /\ UNCHANGED knownProjects

\* isUniqueViolation: the winner's event is read and replayed.
ReadAgain(c) ==
  /\ reporting[c].at = "again"
  /\ \E e \in PriorImpact(reporting[c].ask) : Replay(reporting[c].ask, e)
  /\ EndReport(c)
  /\ UNCHANGED <<events, broken, knownProjects>>

\* A statement fails, or the answer is lost after the insert.
ReportLost(c) ==
  /\ reporting[c].at # "idle"
  /\ EndReport(c)
  /\ \/ UNCHANGED events
     \/ /\ reporting[c].at = "insert" /\ PriorImpact(reporting[c].ask) = {}
        /\ TableAccepts(reporting[c].ask.content) /\ Cardinality(events) < MaxEvents
        /\ events' = events \cup
             {[id |-> Cardinality(events) + 1, actor |-> reporting[c].ask.actor,
               key |-> reporting[c].ask.key, content |-> reporting[c].ask.content]}
  /\ UNCHANGED <<replied, broken, knownProjects>>

\* The events of a purged project stay.
ForgetProject(p) ==
  /\ p \in knownProjects
  /\ knownProjects' = knownProjects \ {p}
  /\ UNCHANGED <<events, reporting, replied, broken>>

\* What reaches the service: a tool call without a session has its transport's.
RestReport(c) == \E ask \in Asked : RecordContextImpact(c, ask)

ToolReport(c) == \E ask \in {a \in Asked : a.content.session # ""} : RecordContextImpact(c, ask)

ImpactNext ==
  \/ \E c \in Reporters :
       \/ RestReport(c) \/ ToolReport(c)
       \/ ResolveImpact(c) \/ InsertImpact(c) \/ ReadAgain(c) \/ ReportLost(c)
  \/ \E p \in knownProjects : ForgetProject(p)

ImpactSpec == ImpactInit /\ [][ImpactNext]_impactVars

-----------------------------------------------------------------------------
\* "Immutable" and "reuse of an idempotency key with input that differs": under
\* one key an actor is only ever told of one event, which holds what was reported; the
\* loser of a race finds the event that beat it; and no report that passed validation fails on the table.
ImpactOnce ==
  /\ \A p, q \in events : p.id = q.id => p = q
  /\ \A p, q \in replied : p.key = q.key /\ p.actor = q.actor => p.id = q.id
  /\ \A p \in replied : \E e \in events :
       e.id = p.id /\ e.actor = p.actor /\ e.key = p.key /\ e.content = p.content
  /\ \A c \in Reporters :
       reporting[c].at = "again" => PriorImpact(reporting[c].ask) # {}
  /\ broken = {}
=============================================================================
