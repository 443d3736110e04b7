------------------------------- MODULE Usage -------------------------------
(***************************************************************************)
(* Tool-call telemetry and the report made of it (service/usage.go,        *)
(* mcp/server.go, store/usage.sql.go, service/maintenance.go).  A call is  *)
(* recorded when it is over, outside any transaction, and only while the   *)
(* usage_analytics flag is on; a failure to record is swallowed.  The      *)
(* report asks its questions concurrently, each in a statement of its own, *)
(* so they see different tables; the sweep deletes old calls meanwhile.    *)
(* A day is the unit of time: calls of one day are ordered by the sequence *)
(* alone, and may carry one timestamp.                                     *)
(***************************************************************************)
EXTENDS Naturals, Sequences, FiniteSets

CONSTANTS
  Tools,            \* registered tools
  OrientTools, ReadTools, WriteTools, ImpactTool,
  SessionIds,
  NoSession,        \* REST, or a transport without sessions
  MaxDays,          \* UsageReport covers at most so many days
  UsageRetention,   \* PurgeOldToolCalls deletes what is older
  LastDay,          \* bound: days in a behaviour
  MaxCalls          \* bound: calls recorded

ASSUME UsageAssumption ==
  /\ OrientTools \subseteq ReadTools /\ ReadTools \cup WriteTools \subseteq Tools
  /\ NoSession \notin SessionIds /\ IsFiniteSet(SessionIds)
  /\ {MaxDays, UsageRetention, LastDay, MaxCalls} \subseteq Nat

ToolCall == [tool : Tools, session : SessionIds \cup {NoSession}, day : 0..LastDay]

SessionRow == [sessions : Nat, oriented : Nat, wroteWithout : Nat, readContext : Nat,
               reported : Nat, unread : Nat]

VARIABLES
  today,
  toolCalls,   \* the tool_calls table
  everCalled,  \* history: every call that was recorded, in order
  analytics,   \* the flag
  report       \* the report being made: its window, and the answers so far

usageVars == <<today, toolCalls, everCalled, analytics, report>>

UsageTypeOK ==
  /\ today \in 0..LastDay
  /\ everCalled \in Seq(ToolCall)
  /\ toolCalls \subseteq 1..Len(everCalled)
  /\ analytics \in BOOLEAN
  /\ report.at \in {"none", "asking", "shown"}
  /\ report.since \in 0..LastDay /\ report.asked \in 0..MaxCalls
  /\ report.stats \subseteq SUBSET Tools
  /\ \A r \in report.sessions : r \in SessionRow

NoReport == [at |-> "none", since |-> 0, asked |-> 0, stats |-> {}, sessions |-> {}]

UsageInit ==
  /\ today = 0 /\ toolCalls = {} /\ everCalled = <<>>
  /\ analytics = TRUE
  /\ report = NoReport

\* RecordToolCall; InsertToolCall may fail.
RecordToolCall(t, s) ==
  /\ analytics /\ Len(everCalled) < MaxCalls
  /\ everCalled' = Append(everCalled, [tool |-> t, session |-> s, day |-> today])
  /\ toolCalls' = toolCalls \cup {Len(everCalled')}
  /\ UNCHANGED <<today, analytics, report>>

SetAnalytics ==
  /\ analytics' = ~analytics
  /\ UNCHANGED <<today, toolCalls, everCalled, report>>

\* PurgeOldToolCalls
PurgeOldToolCalls ==
  /\ toolCalls' = {n \in toolCalls : everCalled[n].day + UsageRetention >= today}
  /\ UNCHANGED <<today, everCalled, analytics, report>>

DayPasses ==
  /\ today < LastDay
  /\ today' = today + 1
  /\ UNCHANGED <<toolCalls, everCalled, analytics, report>>

-----------------------------------------------------------------------------
(***************************************************************************)
(* UsageReport.                                                            *)
(***************************************************************************)

Smaller(m, n) == IF m < n THEN m ELSE n

\* The window of a report that asks for so many days.
Since(days) ==
  LET back == Smaller(days, MaxDays) IN IF today < back THEN 0 ELSE today - back

UsageReport(days) ==
  /\ report.at # "asking"
  /\ report' = [NoReport EXCEPT !.at = "asking", !.since = Since(days),
                                !.asked = Len(everCalled)]
  /\ UNCHANGED <<today, toolCalls, everCalled, analytics>>

InWindow == {n \in toolCalls : everCalled[n].day >= report.since}

\* ToolCallStats: the tools that were called.
ToolCallStats ==
  /\ report.at = "asking" /\ report.stats = {}
  /\ report' = [report EXCEPT !.stats = {{everCalled[n].tool : n \in InWindow}}]
  /\ UNCHANGED <<today, toolCalls, everCalled, analytics>>

CallsOf(s, tools) ==
  {n \in InWindow : everCalled[n].session = s /\ everCalled[n].tool \in tools}

Oriented(s) ==
  \E n \in CallsOf(s, OrientTools) :
    \A m \in CallsOf(s, WriteTools) : everCalled[n].day <= everCalled[m].day

\* Mutant: an orient call and a write at one moment count both ways.
WroteNoLater(s) ==
  \E m \in CallsOf(s, WriteTools) :
    \A n \in CallsOf(s, OrientTools) : everCalled[n].day >= everCalled[m].day

WroteWithoutOrient(s) ==
  \E m \in CallsOf(s, WriteTools) :
    \A n \in CallsOf(s, OrientTools) : everCalled[n].day > everCalled[m].day

ReadContext(s) == CallsOf(s, ReadTools) # {}

ImpactReported(s) == CallsOf(s, {ImpactTool}) # {}

ReportedWithoutRead(s) == ImpactReported(s) /\ ~ReadContext(s)

SessionStats ==
  /\ report.at = "asking" /\ report.sessions = {}
  /\ LET seen == {s \in SessionIds : CallsOf(s, Tools) # {}}
     IN report' = [report EXCEPT !.sessions = {
          [sessions |-> Cardinality(seen),
           oriented |-> Cardinality({s \in seen : Oriented(s)}),
           wroteWithout |-> Cardinality({s \in seen : WroteWithoutOrient(s)}),
           readContext |-> Cardinality({s \in seen : ReadContext(s)}),
           reported |-> Cardinality({s \in seen : ImpactReported(s)}),
           unread |-> Cardinality({s \in seen : ReportedWithoutRead(s)})]}]
  /\ UNCHANGED <<today, toolCalls, everCalled, analytics>>

\* All the answers are there: the tools nothing called are those without a row.
ShowReport ==
  /\ report.at = "asking" /\ report.stats # {} /\ report.sessions # {}
  /\ report' = [report EXCEPT !.at = "shown"]
  /\ UNCHANGED <<today, toolCalls, everCalled, analytics>>

UnusedTools == Tools \ UNION report.stats

UsageNext ==
  \/ \E t \in Tools, s \in SessionIds \cup {NoSession} : RecordToolCall(t, s)
  \/ SetAnalytics \/ PurgeOldToolCalls \/ DayPasses
  \/ \E days \in 1..(MaxDays + 1) : UsageReport(days)
  \/ ToolCallStats \/ SessionStats \/ ShowReport

UsageSpec == UsageInit /\ [][UsageNext]_usageVars

-----------------------------------------------------------------------------
\* What the report says holds of the calls there were: a tool it calls unused was
\* not called in its window before it was asked for, as far back as calls are kept
\* (a window may be longer than that); no session is counted both as oriented and
\* as having written unoriented, and the two rates are fractions.
ReportSound ==
  report.at = "shown" =>
    /\ \A n \in 1..report.asked :
         /\ everCalled[n].day >= report.since
         /\ everCalled[n].day + UsageRetention >= today
         => everCalled[n].tool \notin UnusedTools
    /\ \A r \in report.sessions :
         /\ r.oriented + r.wroteWithout <= r.sessions
         /\ r.unread <= r.reported
         /\ r.reported - r.unread <= r.readContext
=============================================================================
