------------------------------ MODULE Sessions ------------------------------
(***************************************************************************)
(* What the MCP server remembers of its sessions (sessionSet and addTool   *)
(* in mcp/server.go).  The first successful write of a session carries a   *)
(* nudge, and a second one when the session has not oriented.  Each set is *)
(* a concurrent map beside an atomic counter, no lock around the two: past *)
(* the limit the adder removes the entries one by one and then stores 0.   *)
(***************************************************************************)
EXTENDS Naturals, FiniteSets

CONSTANTS
  ToolCalls,   \* calls in flight
  McpSessions,
  SetMax,      \* sessionSetMax, 10000 in the code
  MaxToolCalls \* bound: calls of a session

ASSUME SessionsAssumption ==
  IsFiniteSet(ToolCalls) /\ SetMax \in Nat \ {0} /\ MaxToolCalls \in Nat

VARIABLES
  set,      \* of each set: the map's keys
  n,        \* and the counter
  calls,    \* of each call: [at, of, kind, left]
  started,  \* of each session: its calls so far
  nudges,   \* of each session: impact nudges it was given
  oriented, \* history: sessions whose orient mark was made before a write looked
  misled,   \* history: sessions told to orient though they had
  swept     \* history, of each set: how often a reset removed each session

sessionVars == <<set, n, calls, started, nudges, oriented, misled, swept>>

Sets == {"nudged", "oriented"}
SessionCall ==
  [at : {"none", "run", "count", "sweep", "zero", "look"}, of : McpSessions \cup {""},
   kind : {"", "write", "orient"}, left : SUBSET McpSessions]

Quiet == [at |-> "none", of |-> "", kind |-> "", left |-> {}]

SessionsTypeOK ==
  /\ set \in [Sets -> SUBSET McpSessions]
  /\ n \in [Sets -> Nat]
  /\ started \in [McpSessions -> 0..MaxToolCalls]
  /\ nudges \in [McpSessions -> Nat]
  /\ oriented \subseteq McpSessions /\ misled \subseteq McpSessions
  /\ swept \in [Sets -> [McpSessions -> Nat]]
  /\ calls \in [ToolCalls -> SessionCall]

SessionsInit ==
  /\ set = [k \in Sets |-> {}] /\ n = [k \in Sets |-> 0]
  /\ calls = [c \in ToolCalls |-> Quiet]
  /\ started = [s \in McpSessions |-> 0] /\ nudges = [s \in McpSessions |-> 0]
  /\ oriented = {} /\ misled = {}
  /\ swept = [k \in Sets |-> [s \in McpSessions |-> 0]]

SetOf(c) == IF calls[c].kind = "write" THEN "nudged" ELSE "oriented"

\* A call whose handler has succeeded: a write or an orient call.
Run(c, s, kind) ==
  /\ calls[c].at = "none" /\ started[s] < MaxToolCalls
  /\ started' = [started EXCEPT ![s] = @ + 1]
  /\ calls' = [calls EXCEPT ![c] = [Quiet EXCEPT !.at = "run", !.of = s, !.kind = kind]]
  /\ UNCHANGED <<set, n, nudges, oriented, misled, swept>>

\* add: LoadOrStore of the session's key; one that is there already ends the call.
LoadOrStore(c) ==
  LET k == SetOf(c)  s == calls[c].of
  IN /\ calls[c].at = "run"
     /\ set' = [set EXCEPT ![k] = @ \cup {s}]
     /\ calls' = [calls EXCEPT ![c] =
          IF s \in set[k] THEN Quiet ELSE [calls[c] EXCEPT !.at = "count"]]
     /\ oriented' = IF k = "oriented" THEN oriented \cup {s} ELSE oriented
     /\ UNCHANGED <<n, started, nudges, misled, swept>>

Added(c) == IF calls[c].kind = "write" THEN [calls[c] EXCEPT !.at = "look"] ELSE Quiet

\* n.Add(1) > sessionSetMax
Count(c) ==
  LET k == SetOf(c)
  IN /\ calls[c].at = "count"
     /\ n' = [n EXCEPT ![k] = @ + 1]
     /\ calls' = [calls EXCEPT ![c] =
          IF n'[k] > SetMax THEN [calls[c] EXCEPT !.at = "sweep", !.left = McpSessions] ELSE Added(c)]
     /\ UNCHANGED <<set, started, nudges, oriented, misled, swept>>

\* Mutant: a reset of one set removes the keys of both.
SweepBothSets(c) ==
  LET k == SetOf(c)
  IN /\ calls[c].at = "sweep"
     /\ \/ \E s \in calls[c].left :
             /\ set' = [x \in Sets |-> set[x] \ {s}]
             /\ swept' = [swept EXCEPT ![k][s] = IF s \in set[k] THEN @ + 1 ELSE @]
             /\ calls' = [calls EXCEPT ![c].left = @ \ {s}]
        \/ /\ calls[c].left = {}
           /\ calls' = [calls EXCEPT ![c].at = "zero"]
           /\ UNCHANGED <<set, swept>>
     /\ UNCHANGED <<n, started, nudges, oriented, misled>>

\* Range visits the keys one by one, in any order; it may miss one added meanwhile.
SweepKeys(c) ==
  LET k == SetOf(c)
  IN /\ calls[c].at = "sweep"
     /\ \/ \E s \in calls[c].left :
             /\ set' = [set EXCEPT ![k] = @ \ {s}]
             /\ swept' = [swept EXCEPT ![k][s] = IF s \in set[k] THEN @ + 1 ELSE @]
             /\ calls' = [calls EXCEPT ![c].left = @ \ {s}]
        \/ /\ calls[c].left = {}
           /\ calls' = [calls EXCEPT ![c].at = "zero"]
           /\ UNCHANGED <<set, swept>>
     /\ UNCHANGED <<n, started, nudges, oriented, misled>>

StoreZero(c) ==
  /\ calls[c].at = "zero"
  /\ n' = [n EXCEPT ![SetOf(c)] = 0]
  /\ calls' = [calls EXCEPT ![c] = Added(c)]
  /\ UNCHANGED <<set, started, nudges, oriented, misled, swept>>

\* The write was new to the set: the nudge, and the second when has() says no.
Look(c) ==
  LET s == calls[c].of
  IN /\ calls[c].at = "look"
     /\ nudges' = [nudges EXCEPT ![s] = @ + 1]
     /\ misled' = IF s \in oriented \ set["oriented"] THEN misled \cup {s} ELSE misled
     /\ calls' = [calls EXCEPT ![c] = Quiet]
     /\ UNCHANGED <<set, n, started, oriented, swept>>

SessionsNext ==
  \E c \in ToolCalls :
    \/ \E s \in McpSessions, kind \in {"write", "orient"} : Run(c, s, kind)
    \/ LoadOrStore(c) \/ Count(c) \/ SweepKeys(c) \/ StoreZero(c) \/ Look(c)

SessionsSpec == SessionsInit /\ [][SessionsNext]_sessionVars

-----------------------------------------------------------------------------
\* However the calls of the sessions interleave with each other and with the resets of
\* the two sets, a session gets the impact nudge once, and once more only for a reset
\* that forgot it; and a session is told to orient after it has only when a reset forgot
\* that it had.
NudgesHonest ==
  /\ \A s \in McpSessions : nudges[s] <= 1 + swept["nudged"][s]
  /\ \A s \in misled : swept["oriented"][s] > 0
=============================================================================
