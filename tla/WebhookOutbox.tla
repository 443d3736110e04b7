--------------------------- MODULE WebhookOutbox ---------------------------
(***************************************************************************)
(* The transactional webhook outbox (service/webhooks.go and the queries   *)
(* of store/queries/webhooks.sql).  A write commits an event with it; a    *)
(* worker leases a batch of due events, POSTs each to the subscribers that *)
(* have not answered yet, and reports at the end of each event: delivered, *)
(* rescheduled with a backoff, or parked once the attempts are used up.    *)
(* Every statement on the database is one step, and so is every POST: what *)
(* happens between the lease and the report is what the module is about,   *)
(* because the report is written from a copy of the row taken at the lease.*)
(*                                                                         *)
(* Time is abstracted to one bit for each event, whether its               *)
(* next_attempt_at has passed; ORDER BY next_attempt_at is left out, so a  *)
(* lease may take any due events.  A process that stops, and the shutdown  *)
(* that cancels the worker's context, are Crash.                           *)
(***************************************************************************)
EXTENDS Naturals, FiniteSets

CONSTANTS
  Workers,      \* worker loops: one in each process
  Events,       \* the ids of outbox rows
  Hooks,        \* the ids of webhooks: random, hence never used twice
  Projects,
  ProjectOf,    \* the project of each event
  Scope,        \* the project of each webhook, or AllProjects
  AllProjects,
  Wants,        \* the events whose kind each webhook subscribes to
  MaxAttempts,  \* webhookMaxAttempts, 8 in the code
  BatchSize,    \* webhookLeaseBatch, 50 in the code
  MaxFaults,    \* bound: crashes and database errors in a behaviour
  NoJob

Snapshot == [event : Events, attempts : Nat, served : SUBSET Hooks]

ASSUME OutboxAssumption ==
  /\ ProjectOf \in [Events -> Projects]
  /\ Scope \in [Hooks -> Projects \cup {AllProjects}]
  /\ Wants \in [Hooks -> SUBSET Events]
  /\ MaxAttempts \in Nat
  /\ BatchSize \in Nat \ {0}
  /\ MaxFaults \in Nat
  /\ NoJob \notin Snapshot

VARIABLES
  projects,   \* the projects that exist
  hooks,      \* the registered webhooks
  retired,    \* the webhooks that were deleted
  rows,       \* the events that have a row in webhook_events
  gone,       \* the events whose row was purged or went with its project
  due,        \* next_attempt_at has passed
  attempts,   \* of each row
  served,     \* delivered_hook_ids of each row
  delivered,  \* rows with a delivered_at
  parked,     \* rows with a parked_at
  batch,      \* of each worker: the leased copies it has not begun
  job,        \* the copy it is delivering, or NoJob
  left,       \* the webhooks it has still to POST that event to
  got,        \* the ones that answered 2xx
  failed,     \* ~allOK
  faults,
  owed,       \* history: of each row, its webhooks when it was committed
  acked,      \* history: the webhooks that have answered 2xx for each event
  repeated,   \* history: events POSTed to a webhook that had answered already
  unreported, \* history: events whose worker failed to write its report
  overrun     \* history: events that fell due while a worker held them

tableVars   == <<projects, hooks, retired, rows, gone>>
rowVars     == <<due, attempts, served, delivered, parked>>
workerVars  == <<batch, job, left, got, failed>>
historyVars == <<owed, acked, repeated, unreported, overrun>>
vars == <<tableVars, rowVars, workerVars, faults, historyVars>>

TypeOK ==
  /\ projects \subseteq Projects
  /\ hooks \subseteq Hooks
  /\ retired \subseteq Hooks
  /\ rows \subseteq Events
  /\ gone \subseteq Events
  /\ due \subseteq Events
  /\ attempts \in [Events -> Nat]
  /\ served \in [Events -> SUBSET Hooks]
  /\ delivered \subseteq rows
  /\ parked \subseteq rows
  /\ batch \in [Workers -> SUBSET Snapshot]
  /\ job \in [Workers -> Snapshot \cup {NoJob}]
  /\ left \in [Workers -> SUBSET Hooks]
  /\ got \in [Workers -> SUBSET Hooks]
  /\ failed \in [Workers -> BOOLEAN]
  /\ faults \in 0..MaxFaults
  /\ owed \in [Events -> SUBSET Hooks]
  /\ acked \in [Events -> SUBSET Hooks]
  /\ repeated \subseteq Events
  /\ unreported \subseteq Events
  /\ overrun \subseteq Events

Init ==
  /\ projects = Projects
  /\ hooks = {}
  /\ retired = {}
  /\ rows = {}
  /\ gone = {}
  /\ due = {}
  /\ attempts = [e \in Events |-> 0]
  /\ served = [e \in Events |-> {}]
  /\ delivered = {}
  /\ parked = {}
  /\ batch = [w \in Workers |-> {}]
  /\ job = [w \in Workers |-> NoJob]
  /\ left = [w \in Workers |-> {}]
  /\ got = [w \in Workers |-> {}]
  /\ failed = [w \in Workers |-> FALSE]
  /\ faults = 0
  /\ owed = [e \in Events |-> {}]
  /\ acked = [e \in Events |-> {}]
  /\ repeated = {}
  /\ unreported = {}
  /\ overrun = {}

----------------------------------------------------------------------------
(* Reading the tables and the workers. *)

\* The webhooks ListActiveWebhooksForEvent returns.
Matching(e) ==
  {h \in hooks : Scope[h] \in {AllProjects, ProjectOf[e]} /\ e \in Wants[h]}

Settled == delivered \cup parked

Claimable == (rows \cap due) \ Settled

\* Mutant: the copy comes without the subscribers already served.
CopyWithoutServed(e) ==
  [event |-> e, attempts |-> attempts[e], served |-> {}]

Copy(e) == [event |-> e, attempts |-> attempts[e], served |-> served[e]]

InBatch(w, e) == \E s \in batch[w] : s.event = e
AtWork(w, e)  == job[w] # NoJob /\ job[w].event = e
Holds(w, e)   == InBatch(w, e) \/ AtWork(w, e)
HeldBy(w)     == {e \in Events : Holds(w, e)}

----------------------------------------------------------------------------
(* The rest of the program, as far as the outbox sees it. *)

\* A write commits its event in its own transaction.
Enqueue(e) ==
  /\ e \notin rows \cup gone
  /\ ProjectOf[e] \in projects
  /\ rows' = rows \cup {e}
  /\ due' = due \cup {e}
  /\ owed' = [owed EXCEPT ![e] = Matching(e)]
  /\ UNCHANGED <<projects, hooks, retired, gone, attempts, served, delivered,
                 parked, workerVars, faults, acked, repeated, unreported, overrun>>

CreateWebhook(h) ==
  /\ h \notin hooks \cup retired
  /\ Scope[h] \in projects \cup {AllProjects}
  /\ hooks' = hooks \cup {h}
  /\ UNCHANGED <<projects, retired, rows, gone, rowVars, workerVars, faults, historyVars>>

DeleteWebhook(h) ==
  /\ h \in hooks
  /\ hooks' = hooks \ {h}
  /\ retired' = retired \cup {h}
  /\ UNCHANGED <<projects, rows, gone, rowVars, workerVars, faults, historyVars>>

\* Rows leave the table, and what a worker reports about them later is lost.
Remove(E) ==
  /\ rows' = rows \ E
  /\ gone' = gone \cup E
  /\ due' = due \ E
  /\ attempts' = [e \in Events |-> IF e \in E THEN 0 ELSE attempts[e]]
  /\ served' = [e \in Events |-> IF e \in E THEN {} ELSE served[e]]
  /\ delivered' = delivered \ E
  /\ parked' = parked \ E
  /\ owed' = [e \in Events |-> IF e \in E THEN {} ELSE owed[e]]
  /\ UNCHANGED <<acked, repeated, unreported, overrun>>

\* The retention sweep finds the event settled long enough ago.
Purge(e) ==
  /\ e \in Settled
  /\ Remove({e})
  /\ UNCHANGED <<projects, hooks, retired, workerVars, faults>>

\* Its events and the webhooks registered for it alone go with a project.
DeleteProject(p) ==
  /\ p \in projects
  /\ projects' = projects \ {p}
  /\ Remove({e \in rows : ProjectOf[e] = p})
  /\ LET scoped == {h \in hooks : Scope[h] = p}
     IN  hooks' = hooks \ scoped /\ retired' = retired \cup scoped
  /\ UNCHANGED <<workerVars, faults>>

\* next_attempt_at passes: a backoff is over, or a lease has run out.
FallDue(e) ==
  /\ e \in rows \ Settled
  /\ e \notin due
  /\ due' = due \cup {e}
  /\ overrun' = IF \E w \in Workers : Holds(w, e) THEN overrun \cup {e} ELSE overrun
  /\ UNCHANGED <<tableVars, attempts, served, delivered, parked, workerVars,
                 faults, owed, acked, repeated, unreported>>

----------------------------------------------------------------------------
(* The worker. *)

\* Mutant: the events are handed out and their next attempt is left where it was.
NotPushed(E) == due

\* The lease pushes next_attempt_at a minute into the future.
Pushed(E) == due \ E

Lease(w) ==
  /\ batch[w] = {} /\ job[w] = NoJob
  /\ \E E \in SUBSET Claimable :
       /\ E # {}
       /\ Cardinality(E) <= BatchSize
       /\ Cardinality(E) < BatchSize => E = Claimable
       /\ batch' = [batch EXCEPT ![w] = {Copy(e) : e \in E}]
       /\ due' = Pushed(E)
  /\ UNCHANGED <<tableVars, attempts, served, delivered, parked, job, left, got,
                 failed, faults, historyVars>>

\* deliverEvent looks up the subscribers and skips those the copy has as served.
Begin(w) ==
  /\ job[w] = NoJob
  /\ \E s \in batch[w] :
       /\ batch' = [batch EXCEPT ![w] = batch[w] \ {s}]
       /\ job' = [job EXCEPT ![w] = s]
       /\ left' = [left EXCEPT ![w] = Matching(s.event) \ s.served]
       /\ got' = [got EXCEPT ![w] = {}]
       /\ failed' = [failed EXCEPT ![w] = FALSE]
  /\ UNCHANGED <<tableVars, rowVars, faults, historyVars>>

\* One POST.  An answer that was lost or came after the client's ten seconds is
\* a failure, whatever the subscriber made of it.
Post(w, h) ==
  /\ job[w] # NoJob
  /\ h \in left[w]
  /\ left' = [left EXCEPT ![w] = left[w] \ {h}]
  /\ repeated' = IF h \in acked[job[w].event]
                   THEN repeated \cup {job[w].event} ELSE repeated
  /\ \/ /\ got' = [got EXCEPT ![w] = got[w] \cup {h}]
        /\ acked' = [acked EXCEPT ![job[w].event] = acked[job[w].event] \cup {h}]
        /\ UNCHANGED failed
     \/ /\ failed' = [failed EXCEPT ![w] = TRUE]
        /\ UNCHANGED <<got, acked>>
  /\ UNCHANGED <<tableVars, rowVars, batch, job, faults, owed, unreported, overrun>>

\* The three reports.  Each is an UPDATE by id, without a look at the row.
MarkDelivered(e) ==
  /\ delivered' = delivered \cup ({e} \cap rows)
  /\ UNCHANGED <<due, attempts, served, parked>>

Park(s, H) ==
  /\ parked' = parked \cup ({s.event} \cap rows)
  /\ served' = IF s.event \in rows THEN [served EXCEPT ![s.event] = H] ELSE served
  /\ UNCHANGED <<due, attempts, delivered>>

\* Mutant: a retry is not counted.
RescheduleUncounted(s, H) ==
  /\ due' = due \ {s.event}
  /\ served' = IF s.event \in rows THEN [served EXCEPT ![s.event] = H] ELSE served
  /\ UNCHANGED <<attempts, delivered, parked>>

Reschedule(s, H) ==
  /\ due' = due \ {s.event}
  /\ IF s.event \in rows
       THEN /\ attempts' = [attempts EXCEPT ![s.event] = attempts[s.event] + 1]
            /\ served' = [served EXCEPT ![s.event] = H]
       ELSE UNCHANGED <<attempts, served>>
  /\ UNCHANGED <<delivered, parked>>

\* Mutant: one subscriber that answered makes the event delivered.
ReportAny(s, H, ok) ==
  \/ (ok \/ H # {}) /\ MarkDelivered(s.event)
  \/ ~ok /\ H = {} /\ s.attempts + 1 >= MaxAttempts /\ Park(s, H)
  \/ ~ok /\ H = {} /\ s.attempts + 1 < MaxAttempts /\ Reschedule(s, H)

\* Mutant: the attempts are looked at before the outcome.
ReportByAttempts(s, H, ok) ==
  \/ s.attempts + 1 >= MaxAttempts /\ Park(s, H)
  \/ ok /\ s.attempts + 1 < MaxAttempts /\ MarkDelivered(s.event)
  \/ ~ok /\ s.attempts + 1 < MaxAttempts /\ Reschedule(s, H)

Report(s, H, ok) ==
  \/ ok /\ MarkDelivered(s.event)
  \/ ~ok /\ s.attempts + 1 >= MaxAttempts /\ Park(s, H)
  \/ ~ok /\ s.attempts + 1 < MaxAttempts /\ Reschedule(s, H)

\* What the worker knows when it reports.
Answered(w) == job[w].served \cup got[w]

Finish(w) ==
  /\ job[w] # NoJob
  /\ left[w] = {}
  /\ Report(job[w], Answered(w), ~failed[w])
  /\ job' = [job EXCEPT ![w] = NoJob]
  /\ got' = [got EXCEPT ![w] = {}]
  /\ failed' = [failed EXCEPT ![w] = FALSE]
  /\ UNCHANGED <<tableVars, batch, left, faults, historyVars>>

Fault ==
  /\ faults < MaxFaults
  /\ faults' = faults + 1

\* The UPDATE fails: logged, and the worker goes on to the next event.
FinishUnreported(w) ==
  /\ job[w] # NoJob
  /\ left[w] = {}
  /\ Fault
  /\ unreported' = unreported \cup {job[w].event}
  /\ job' = [job EXCEPT ![w] = NoJob]
  /\ got' = [got EXCEPT ![w] = {}]
  /\ failed' = [failed EXCEPT ![w] = FALSE]
  /\ UNCHANGED <<tableVars, rowVars, batch, left, owed, acked, repeated, overrun>>

\* The lookup fails: the event is rescheduled, whatever its attempts.  If that
\* fails as well the lease simply runs out.
LookupFails(w) ==
  /\ job[w] = NoJob
  /\ Fault
  /\ \E s \in batch[w] :
       /\ batch' = [batch EXCEPT ![w] = batch[w] \ {s}]
       /\ Reschedule(s, s.served) \/ UNCHANGED rowVars
  /\ UNCHANGED <<tableVars, job, left, got, failed, historyVars>>

Crash(w) ==
  /\ Fault
  /\ HeldBy(w) # {}
  /\ unreported' = unreported \cup HeldBy(w)
  /\ batch' = [batch EXCEPT ![w] = {}]
  /\ job' = [job EXCEPT ![w] = NoJob]
  /\ left' = [left EXCEPT ![w] = {}]
  /\ got' = [got EXCEPT ![w] = {}]
  /\ failed' = [failed EXCEPT ![w] = FALSE]
  /\ UNCHANGED <<tableVars, rowVars, owed, acked, repeated, overrun>>

----------------------------------------------------------------------------

Next ==
  \/ \E e \in Events : Enqueue(e) \/ Purge(e) \/ FallDue(e)
  \/ \E h \in Hooks : CreateWebhook(h) \/ DeleteWebhook(h)
  \/ \E p \in Projects : DeleteProject(p)
  \/ \E w \in Workers :
       \/ Lease(w) \/ Begin(w) \/ (\E h \in Hooks : Post(w, h)) \/ Finish(w)
       \/ FinishUnreported(w) \/ LookupFails(w) \/ Crash(w)

Spec == Init /\ [][Next]_vars

\* Time passes and the worker's loop goes round; a POST ends within the
\* client's timeout.  Nothing obliges a write, a deletion or a purge.
Fairness ==
  /\ \A e \in Events : WF_vars(FallDue(e))
  /\ \A w \in Workers :
       /\ WF_vars(Lease(w))
       /\ WF_vars(Begin(w))
       /\ WF_vars(\E h \in Hooks : Post(w, h))
       /\ WF_vars(Finish(w))

FairSpec == Spec /\ Fairness

----------------------------------------------------------------------------
(* Properties. *)

\* An event is marked delivered only when every subscriber it had when it was
\* committed, and still has, has answered 2xx: through retries, restarts, other
\* workers on the same event and subscriptions that change under way.
NoneSkipped == \A e \in delivered : owed[e] \cap hooks \subseteq acked[e]

\* A retry never POSTs to a subscriber that has already answered, as
\* deliverEvent and TestWebhookPerHookDelivery say, except for an event whose
\* report was never written or whose lease ran out in a worker's hands.
OnlyLapsesRepeat == repeated \subseteq unreported \cup overrun

\* An event is delivered or parked and never both, as ParkWebhookEvent says,
\* and a worker never works on an event that is already settled, unless a lease
\* ran out in a worker's hands.
OneFate ==
  /\ delivered \cap parked \subseteq overrun
  /\ \A w \in Workers : HeldBy(w) \cap Settled \subseteq overrun

\* Every event that stays in the table is delivered or parked, whatever the
\* subscribers answer: a dead subscriber cannot keep it in the queue for ever.
EventuallySettled ==
  \A e \in Events : e \in rows ~> e \in Settled \/ e \notin rows

============================================================================
