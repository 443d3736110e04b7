--------------------------- MODULE WebhookProofs ---------------------------
(***************************************************************************)
(* Proofs about the webhook outbox, for any number of workers, events and  *)
(* subscribers and any limits.                                             *)
(*                                                                         *)
(* NoneSkipped rests on what a worker at work still knows: each subscriber *)
(* the event is owed to has answered or is still on its list, as long as   *)
(* no POST has failed.  The other two rest on who may hold an event: until *)
(* a lease runs out in a worker's hands, one worker at most, and what that *)
(* worker knows of the answers is all there is to know.                    *)
(***************************************************************************)
EXTENDS OutboxFanout, TLAPS

\* Only an event that was committed is held, has answers, or is owed to anyone,
\* and it is owed to webhooks that match it and were registered at some time.
Known ==
  /\ \A w \in Workers : HeldBy(w) \subseteq rows \cup gone
  /\ \A e \in Events : acked[e] # {} => e \in rows \cup gone
  /\ \A e \in Events : \A h \in owed[e] :
       /\ h \in hooks \cup retired
       /\ Scope[h] \in {AllProjects, ProjectOf[e]} /\ e \in Wants[h]

\* A worker's copies are of different events.
Copies ==
  \A w \in Workers :
    /\ \A s, t \in batch[w] : s.event = t.event => s = t
    /\ \A s \in batch[w] : ~AtWork(w, s.event)

\* Whoever is recorded as served has answered.
ServedAnswered ==
  /\ \A e \in Events : served[e] \subseteq acked[e]
  /\ \A w \in Workers : \A s \in batch[w] : s.served \subseteq acked[s.event]
  /\ \A w \in Workers :
       job[w] # NoJob => Answered(w) \subseteq acked[job[w].event]

\* A list of subscribers left belongs to a job and skips those that answered it.
Lists ==
  \A w \in Workers :
    /\ job[w] = NoJob => left[w] = {}
    /\ job[w] # NoJob => left[w] \cap Answered(w) = {}

\* While no POST has failed, whoever is owed the event answered or is on the list.
Covered ==
  \A w \in Workers :
    job[w] # NoJob /\ ~failed[w] =>
      owed[job[w].event] \cap hooks \subseteq left[w] \cup acked[job[w].event]

\* Until its lease runs out in a worker's hands, an event is held by one worker
\* at most, which has it neither due nor settled.
Lone ==
  \A w \in Workers : \A e \in HeldBy(w) \ overrun :
    /\ e \notin due
    /\ e \notin Settled
    /\ \A v \in Workers : Holds(v, e) => v = w

\* The answers to an event that never lapsed are all known to whoever will
\* deliver it next: its row, its copies, or the worker at work on it.
Lapsed == unreported \cup overrun

Exact ==
  /\ \A e \in rows \ (Settled \cup Lapsed) :
       (\A w \in Workers : ~AtWork(w, e)) => acked[e] \subseteq served[e]
  /\ \A w \in Workers : \A s \in batch[w] :
       s.event \notin Lapsed => acked[s.event] \subseteq s.served
  /\ \A w \in Workers :
       job[w] # NoJob /\ job[w].event \notin Lapsed =>
         acked[job[w].event] \subseteq Answered(w)

IInv ==
  /\ TypeOK
  /\ Known
  /\ Copies
  /\ ServedAnswered
  /\ Lists
  /\ Covered
  /\ Lone
  /\ Exact
  /\ NoneSkipped
  /\ OnlyLapsesRepeat
  /\ OneFate

----------------------------------------------------------------------------
(* Types. *)

\* The copy a lease takes of a row is a snapshot of it.
LEMMA CopyType ==
  ASSUME TypeOK, NEW e \in Events
  PROVE  /\ Copy(e) \in Snapshot
         /\ Copy(e).event = e
         /\ Copy(e).attempts = attempts[e]
         /\ Copy(e).served = served[e]
BY DEF Copy, Snapshot, TypeOK

\* What a worker at work has in its hands, and what it knows of the answers.
LEMMA JobType ==
  ASSUME TypeOK, NEW w \in Workers, job[w] # NoJob
  PROVE  /\ job[w] \in Snapshot
         /\ job[w].event \in Events
         /\ job[w].served \subseteq Hooks
         /\ Answered(w) \subseteq Hooks
BY DEF TypeOK, Snapshot, Answered

\* A report leaves the table well typed.
LEMMA ReportType ==
  ASSUME TypeOK, NEW s \in Snapshot, NEW H \in SUBSET Hooks, NEW ok,
         Report(s, H, ok)
  PROVE  /\ due' \subseteq Events
         /\ attempts' \in [Events -> Nat]
         /\ served' \in [Events -> SUBSET Hooks]
         /\ delivered' \subseteq rows
         /\ parked' \subseteq rows
<1>1. s.event \in Events
  BY DEF Snapshot
<1>2. CASE MarkDelivered(s.event)
  BY <1>1, <1>2 DEF MarkDelivered, TypeOK
<1>3. CASE Park(s, H)
  BY <1>1, <1>3 DEF Park, TypeOK
<1>4. CASE Reschedule(s, H)
  BY <1>1, <1>4 DEF Reschedule, TypeOK
<1>5. QED
  BY <1>2, <1>3, <1>4 DEF Report

\* Removing rows leaves the table well typed.
LEMMA RemoveType ==
  ASSUME TypeOK, NEW E \in SUBSET Events, Remove(E)
  PROVE  /\ rows' \subseteq Events /\ gone' \subseteq Events
         /\ due' \subseteq Events
         /\ attempts' \in [Events -> Nat]
         /\ served' \in [Events -> SUBSET Hooks]
         /\ delivered' \subseteq rows' /\ parked' \subseteq rows'
         /\ owed' \in [Events -> SUBSET Hooks]
         /\ acked' = acked /\ repeated' = repeated
         /\ unreported' = unreported /\ overrun' = overrun
BY DEF Remove, TypeOK

\* Every step leaves the outbox well typed.
LEMMA TypeStep ==
  ASSUME TypeOK, [Next]_vars
  PROVE  TypeOK'
<1> USE OutboxAssumption
<1>1. ASSUME NEW e \in Events, Enqueue(e) PROVE TypeOK'
  <2>1. Matching(e) \subseteq Hooks
    BY DEF Matching, TypeOK
  <2>2. QED
    BY <1>1, <2>1 DEF Enqueue, TypeOK, workerVars
<1>2. ASSUME NEW e \in Events, Purge(e) PROVE TypeOK'
  <2>1. Remove({e}) /\ UNCHANGED <<projects, hooks, retired, workerVars, faults>>
    BY <1>2 DEF Purge
  <2>2. QED
    BY <2>1, RemoveType DEF TypeOK, workerVars
<1>3. ASSUME NEW e \in Events, FallDue(e) PROVE TypeOK'
  BY <1>3 DEF FallDue, TypeOK, tableVars, workerVars
<1>4. ASSUME NEW h \in Hooks, CreateWebhook(h) PROVE TypeOK'
  BY <1>4 DEF CreateWebhook, TypeOK, rowVars, workerVars, historyVars
<1>5. ASSUME NEW h \in Hooks, DeleteWebhook(h) PROVE TypeOK'
  BY <1>5 DEF DeleteWebhook, TypeOK, rowVars, workerVars, historyVars
<1>6. ASSUME NEW p \in Projects, DeleteProject(p) PROVE TypeOK'
  <2> DEFINE E == {e \in rows : ProjectOf[e] = p}
  <2>1. E \in SUBSET Events /\ Remove(E)
    BY <1>6 DEF DeleteProject, TypeOK
  <2>2. /\ projects' \subseteq Projects
        /\ hooks' \subseteq Hooks /\ retired' \subseteq Hooks
        /\ UNCHANGED <<workerVars, faults>>
    BY <1>6 DEF DeleteProject, TypeOK
  <2> HIDE DEF E
  <2>3. QED
    BY <2>1, <2>2, RemoveType DEF TypeOK, workerVars
<1>7. ASSUME NEW w \in Workers, Lease(w) PROVE TypeOK'
  <2>1. PICK E \in SUBSET Claimable :
          /\ batch' = [batch EXCEPT ![w] = {Copy(e) : e \in E}]
          /\ due' = Pushed(E)
    BY <1>7 DEF Lease
  <2>2. {Copy(e) : e \in E} \subseteq Snapshot
    BY <2>1, CopyType DEF Claimable, TypeOK
  <2>3. batch' \in [Workers -> SUBSET Snapshot] /\ due' \subseteq Events
    BY <2>1, <2>2 DEF TypeOK, Pushed
  <2>4. QED
    BY <1>7, <2>3 DEF Lease, TypeOK, tableVars, historyVars
<1>8. ASSUME NEW w \in Workers, Begin(w) PROVE TypeOK'
  <2>1. PICK s \in batch[w] :
          /\ batch' = [batch EXCEPT ![w] = batch[w] \ {s}]
          /\ job' = [job EXCEPT ![w] = s]
          /\ left' = [left EXCEPT ![w] = Matching(s.event) \ s.served]
          /\ got' = [got EXCEPT ![w] = {}]
          /\ failed' = [failed EXCEPT ![w] = FALSE]
    BY <1>8 DEF Begin
  <2>2. s \in Snapshot /\ Matching(s.event) \subseteq Hooks
    BY <2>1 DEF TypeOK, Matching
  <2>3. QED
    BY <1>8, <2>1, <2>2 DEF Begin, TypeOK, tableVars, rowVars, historyVars
<1>9. ASSUME NEW w \in Workers, NEW h \in Hooks, Post(w, h) PROVE TypeOK'
  <2>1. job[w].event \in Events
    BY <1>9, JobType DEF Post
  <2>2. /\ left' \in [Workers -> SUBSET Hooks]
        /\ got' \in [Workers -> SUBSET Hooks]
        /\ failed' \in [Workers -> BOOLEAN]
    <3>1. left' \in [Workers -> SUBSET Hooks]
      BY <1>9 DEF Post, TypeOK
    <3>2. got' \in [Workers -> SUBSET Hooks]
      BY <1>9 DEF Post, TypeOK
    <3>3. failed' \in [Workers -> BOOLEAN]
      BY <1>9 DEF Post, TypeOK
    <3>4. QED
      BY <3>1, <3>2, <3>3
  <2>3. acked' \in [Events -> SUBSET Hooks]
    BY <1>9, <2>1 DEF Post, TypeOK
  <2>4. repeated' \subseteq Events
    BY <1>9, <2>1 DEF Post, TypeOK
  <2>5. QED
    BY <1>9, <2>2, <2>3, <2>4 DEF Post, TypeOK, tableVars, rowVars
<1>10. ASSUME NEW w \in Workers, Finish(w) PROVE TypeOK'
  <2>1. /\ job[w] \in Snapshot /\ Answered(w) \in SUBSET Hooks
        /\ Report(job[w], Answered(w), ~failed[w])
    BY <1>10, JobType DEF Finish
  <2>2. /\ due' \subseteq Events
        /\ attempts' \in [Events -> Nat]
        /\ served' \in [Events -> SUBSET Hooks]
        /\ delivered' \subseteq rows
        /\ parked' \subseteq rows
    BY <2>1, ReportType
  <2>3. QED
    BY <1>10, <2>2 DEF Finish, TypeOK, tableVars, historyVars
<1>11. ASSUME NEW w \in Workers, FinishUnreported(w) PROVE TypeOK'
  BY <1>11, JobType DEF FinishUnreported, Fault, TypeOK, tableVars, rowVars
<1>12. ASSUME NEW w \in Workers, LookupFails(w) PROVE TypeOK'
  <2>1. PICK s \in batch[w] :
          /\ batch' = [batch EXCEPT ![w] = batch[w] \ {s}]
          /\ Reschedule(s, s.served) \/ UNCHANGED rowVars
    BY <1>12 DEF LookupFails
  <2>2. s \in Snapshot /\ s.event \in Events /\ s.served \in SUBSET Hooks
    BY <2>1 DEF TypeOK, Snapshot
  <2>3. /\ due' \subseteq Events
        /\ attempts' \in [Events -> Nat]
        /\ served' \in [Events -> SUBSET Hooks]
        /\ delivered' \subseteq rows
        /\ parked' \subseteq rows
    BY <2>1, <2>2 DEF Reschedule, rowVars, TypeOK
  <2>4. batch' \in [Workers -> SUBSET Snapshot]
    BY <2>1 DEF TypeOK
  <2>5. QED
    BY <1>12, <2>3, <2>4 DEF LookupFails, Fault, TypeOK, tableVars, historyVars
<1>13. ASSUME NEW w \in Workers, Crash(w) PROVE TypeOK'
  <2>1. HeldBy(w) \subseteq Events
    BY DEF HeldBy
  <2>2. QED
    BY <1>13, <2>1 DEF Crash, Fault, TypeOK, tableVars, rowVars
<1>14. CASE UNCHANGED vars
  BY <1>14 DEF vars, tableVars, rowVars, workerVars, historyVars, TypeOK
<1>15. QED
  BY <1>1, <1>2, <1>3, <1>4, <1>5, <1>6, <1>7, <1>8, <1>9, <1>10, <1>11, <1>12,
     <1>13, <1>14 DEF Next

----------------------------------------------------------------------------
(* Who holds what. *)

\* A worker comes to hold an event only by leasing it.
LEMMA HandsStep ==
  ASSUME TypeOK, [Next]_vars, NEW w \in Workers, NEW e \in Events, Holds(w, e)'
  PROVE  Holds(w, e) \/ (Lease(w) /\ e \in Claimable)
<1> USE DEF Holds, InBatch, AtWork
<1>1. CASE UNCHANGED workerVars
  BY <1>1 DEF workerVars
<1>2. ASSUME NEW v \in Workers, Lease(v) PROVE Holds(w, e) \/ (Lease(w) /\ e \in Claimable)
  <2>1. PICK E \in SUBSET Claimable :
          batch' = [batch EXCEPT ![v] = {Copy(f) : f \in E}]
    BY <1>2 DEF Lease
  <2>2. job' = job
    BY <1>2 DEF Lease
  <2>3. CASE w # v
    BY <2>1, <2>2, <2>3 DEF TypeOK
  <2>4. CASE w = v
    <3>1. batch'[w] = {Copy(f) : f \in E}
      BY <2>1, <2>4 DEF TypeOK
    <3>2. \A f \in E : Copy(f).event = f
      BY CopyType DEF Claimable, TypeOK
    <3>3. QED
      BY <1>2, <2>2, <2>4, <3>1, <3>2
  <2>5. QED
    BY <2>3, <2>4
<1>3. ASSUME NEW v \in Workers, Begin(v) PROVE Holds(w, e)
  <2>1. PICK s \in batch[v] :
          /\ batch' = [batch EXCEPT ![v] = batch[v] \ {s}]
          /\ job' = [job EXCEPT ![v] = s]
    BY <1>3 DEF Begin
  <2>2. CASE w # v
    BY <2>1, <2>2 DEF TypeOK
  <2>3. CASE w = v
    BY <2>1, <2>3 DEF TypeOK
  <2>4. QED
    BY <2>2, <2>3
<1>4. ASSUME NEW v \in Workers, NEW h \in Hooks, Post(v, h) PROVE Holds(w, e)
  BY <1>4 DEF Post
<1>5. ASSUME NEW v \in Workers, Finish(v) \/ FinishUnreported(v) PROVE Holds(w, e)
  BY <1>5 DEF Finish, FinishUnreported, TypeOK
<1>6. ASSUME NEW v \in Workers, LookupFails(v) PROVE Holds(w, e)
  <2>1. PICK s \in batch[v] : batch' = [batch EXCEPT ![v] = batch[v] \ {s}]
    BY <1>6 DEF LookupFails
  <2>2. job' = job
    BY <1>6 DEF LookupFails
  <2>3. QED
    BY <2>1, <2>2 DEF TypeOK
<1>7. ASSUME NEW v \in Workers, Crash(v) PROVE Holds(w, e)
  BY <1>7 DEF Crash, TypeOK
<1>8. CASE UNCHANGED vars
  BY <1>1, <1>8 DEF vars
<1>9. QED
  BY <1>1, <1>2, <1>3, <1>4, <1>5, <1>6, <1>7, <1>8
     DEF Next, Enqueue, Purge, FallDue, CreateWebhook, DeleteWebhook, DeleteProject

\* No id is forgotten: rows become gone, webhooks become retired.
LEMMA TableStep ==
  ASSUME TypeOK, [Next]_vars
  PROVE  /\ rows \cup gone \subseteq rows' \cup gone'
         /\ hooks \cup retired \subseteq hooks' \cup retired'
<1> USE DEF tableVars
<1>1. CASE UNCHANGED tableVars
  BY <1>1
<1>2. ASSUME NEW e \in Events, Enqueue(e) \/ Purge(e)
      PROVE  /\ rows \cup gone \subseteq rows' \cup gone'
             /\ hooks \cup retired \subseteq hooks' \cup retired'
  BY <1>2 DEF Enqueue, Purge, Remove
<1>3. ASSUME NEW h \in Hooks, CreateWebhook(h) \/ DeleteWebhook(h)
      PROVE  /\ rows \cup gone \subseteq rows' \cup gone'
             /\ hooks \cup retired \subseteq hooks' \cup retired'
  BY <1>3 DEF CreateWebhook, DeleteWebhook
<1>4. ASSUME NEW p \in Projects, DeleteProject(p)
      PROVE  /\ rows \cup gone \subseteq rows' \cup gone'
             /\ hooks \cup retired \subseteq hooks' \cup retired'
  BY <1>4 DEF DeleteProject, Remove
<1>5. CASE UNCHANGED vars
  BY <1>1, <1>5 DEF vars
<1>6. QED
  BY <1>1, <1>2, <1>3, <1>4, <1>5
     DEF Next, FallDue, Lease, Begin, Post, Finish, FinishUnreported, LookupFails, Crash

\* What is owed and what is answered changes only as far as Known allows.
LEMMA KnownStep ==
  ASSUME TypeOK, Known, [Next]_vars
  PROVE  Known'
<1> USE TableStep
<1>1. ASSUME NEW w \in Workers PROVE HeldBy(w)' \subseteq rows' \cup gone'
  <2>1. ASSUME NEW e \in Events, Holds(w, e)' PROVE e \in rows' \cup gone'
    <3>1. Holds(w, e) \/ e \in rows
      BY <2>1, HandsStep DEF Claimable
    <3>2. QED
      BY <3>1 DEF Known, HeldBy
  <2>2. QED
    BY <2>1 DEF HeldBy
<1>2. ASSUME NEW e \in Events, acked'[e] # {} PROVE e \in rows' \cup gone'
  <2>1. CASE acked' = acked
    BY <1>2, <2>1 DEF Known
  <2>2. ASSUME NEW w \in Workers, NEW h \in Hooks, Post(w, h) PROVE e \in rows' \cup gone'
    <3>1. job[w].event \in HeldBy(w)
      BY <2>2, JobType DEF Post, HeldBy, Holds, AtWork
    <3>2. acked'[e] = acked[e] \/ e = job[w].event
      BY <2>2 DEF Post, TypeOK
    <3>3. QED
      BY <1>2, <3>1, <3>2 DEF Known
  <2>3. QED
    BY <2>1, <2>2 DEF Next, vars, historyVars, Enqueue, Purge, Remove, FallDue,
       CreateWebhook, DeleteWebhook, DeleteProject, Lease, Begin, Finish,
       FinishUnreported, LookupFails, Crash
<1>3. ASSUME NEW e \in Events, NEW h \in owed'[e]
      PROVE  /\ h \in hooks' \cup retired'
             /\ Scope[h] \in {AllProjects, ProjectOf[e]} /\ e \in Wants[h]
  <2>1. CASE h \in owed[e]
    BY <2>1 DEF Known
  <2>2. CASE h \in Matching(e)
    BY <2>2 DEF Matching
  <2>3. ASSUME NEW f \in Events, Enqueue(f) PROVE h \in owed[e] \/ h \in Matching(e)
    BY <1>3, <2>3 DEF Enqueue, TypeOK
  <2>4. ASSUME NEW E \in SUBSET Events, Remove(E) PROVE h \in owed[e]
    BY <1>3, <2>4 DEF Remove, TypeOK
  <2>5. CASE owed' = owed
    BY <1>3, <2>1, <2>5
  <2>6. ASSUME NEW f \in Events, Purge(f) PROVE h \in owed[e]
    BY <2>4, <2>6 DEF Purge
  <2>7. ASSUME NEW p \in Projects, DeleteProject(p) PROVE h \in owed[e]
    <3>1. {f \in rows : ProjectOf[f] = p} \in SUBSET Events
      BY DEF TypeOK
    <3>2. Remove({f \in rows : ProjectOf[f] = p})
      BY <2>7 DEF DeleteProject
    <3>3. QED
      BY <2>4, <3>1, <3>2
  <2>8. QED
    BY <2>1, <2>2, <2>3, <2>5, <2>6, <2>7 DEF Next, vars, historyVars, FallDue,
       CreateWebhook, DeleteWebhook, Lease, Begin, Post, Finish, FinishUnreported,
       LookupFails, Crash
<1>4. QED
  BY <1>1, <1>2, <1>3 DEF Known

\* The copies in a batch stay copies of different events, none of them at work.
LEMMA CopiesStep ==
  ASSUME TypeOK, Copies, [Next]_vars
  PROVE  Copies'
<1> USE DEF Copies, AtWork
<1>1. CASE UNCHANGED <<batch, job>>
  BY <1>1
<1>2. ASSUME NEW w \in Workers, Lease(w) PROVE Copies'
  <2>1. PICK E \in SUBSET Claimable :
          batch' = [batch EXCEPT ![w] = {Copy(e) : e \in E}]
    BY <1>2 DEF Lease
  <2>2. job' = job /\ job[w] = NoJob
    BY <1>2 DEF Lease
  <2>3. \A e \in E : Copy(e).event = e
    BY CopyType DEF Claimable, TypeOK
  <2>4. \A s, t \in {Copy(e) : e \in E} : s.event = t.event => s = t
    BY <2>3
  <2>5. QED
    BY <2>1, <2>2, <2>4 DEF TypeOK
<1>3. ASSUME NEW w \in Workers, Begin(w) PROVE Copies'
  <2>1. PICK s \in batch[w] :
          /\ batch' = [batch EXCEPT ![w] = batch[w] \ {s}]
          /\ job' = [job EXCEPT ![w] = s]
    BY <1>3 DEF Begin
  <2>2. QED
    BY <2>1 DEF TypeOK
<1>4. ASSUME NEW w \in Workers, Finish(w) \/ FinishUnreported(w) PROVE Copies'
  BY <1>4 DEF Finish, FinishUnreported, TypeOK
<1>5. ASSUME NEW w \in Workers, LookupFails(w) PROVE Copies'
  <2>1. PICK s \in batch[w] : batch' = [batch EXCEPT ![w] = batch[w] \ {s}]
    BY <1>5 DEF LookupFails
  <2>2. job' = job
    BY <1>5 DEF LookupFails
  <2>3. QED
    BY <2>1, <2>2 DEF TypeOK
<1>6. ASSUME NEW w \in Workers, Crash(w) PROVE Copies'
  BY <1>6 DEF Crash, TypeOK
<1>7. QED
  BY <1>1, <1>2, <1>3, <1>4, <1>5, <1>6 DEF Next, vars, workerVars, Enqueue, Purge,
     FallDue, CreateWebhook, DeleteWebhook, DeleteProject, Post

----------------------------------------------------------------------------
(* What a worker knows, and what it still has to do. *)

\* A report records as served what the worker was given and nothing else.
LEMMA ReportServed ==
  ASSUME TypeOK, NEW s \in Snapshot, NEW H, NEW ok, Report(s, H, ok), NEW e \in Events
  PROVE  served'[e] = served[e] \/ (e = s.event /\ served'[e] = H)
<1>1. CASE MarkDelivered(s.event)
  BY <1>1 DEF MarkDelivered
<1>2. CASE Park(s, H)
  BY <1>2 DEF Park, TypeOK
<1>3. CASE Reschedule(s, H)
  BY <1>3 DEF Reschedule, TypeOK
<1>4. QED
  BY <1>1, <1>2, <1>3 DEF Report

\* Whoever is recorded as served has answered: in every row, copy and job.
LEMMA ServedStep ==
  ASSUME TypeOK, ServedAnswered, [Next]_vars
  PROVE  ServedAnswered'
<1> USE DEF ServedAnswered
<1>1. CASE UNCHANGED <<served, acked, workerVars>>
  BY <1>1 DEF workerVars, Answered
<1>2. ASSUME NEW E \in SUBSET Events, Remove(E), UNCHANGED workerVars
      PROVE  ServedAnswered'
  <2>1. \A e \in Events : served'[e] \subseteq served[e]
    BY <1>2 DEF Remove
  <2>2. QED
    BY <1>2, <2>1 DEF Remove, workerVars, Answered
<1>3. ASSUME NEW p \in Projects, DeleteProject(p) PROVE ServedAnswered'
  <2>1. {e \in rows : ProjectOf[e] = p} \in SUBSET Events
    BY DEF TypeOK
  <2>2. Remove({e \in rows : ProjectOf[e] = p}) /\ UNCHANGED workerVars
    BY <1>3 DEF DeleteProject
  <2>3. QED
    BY <1>2, <2>1, <2>2
<1>4. ASSUME NEW e \in Events, Purge(e) PROVE ServedAnswered'
  <2>1. Remove({e}) /\ UNCHANGED workerVars
    BY <1>4 DEF Purge
  <2>2. QED
    BY <1>2, <2>1
<1>5. ASSUME NEW w \in Workers, Lease(w) PROVE ServedAnswered'
  <2>1. PICK E \in SUBSET Claimable :
          batch' = [batch EXCEPT ![w] = {Copy(e) : e \in E}]
    BY <1>5 DEF Lease
  <2>2. UNCHANGED <<served, acked, job, got>>
    BY <1>5 DEF Lease, historyVars
  <2>3. \A e \in E : Copy(e).served \subseteq acked[Copy(e).event]
    BY CopyType DEF Claimable, TypeOK
  <2>4. \A v \in Workers : \A s \in batch'[v] : s.served \subseteq acked[s.event]
    BY <2>1, <2>3 DEF TypeOK
  <2>5. QED
    BY <2>2, <2>4 DEF Answered
<1>6. ASSUME NEW w \in Workers, Begin(w) PROVE ServedAnswered'
  <2>1. PICK s \in batch[w] :
          /\ batch' = [batch EXCEPT ![w] = batch[w] \ {s}]
          /\ job' = [job EXCEPT ![w] = s]
          /\ got' = [got EXCEPT ![w] = {}]
    BY <1>6 DEF Begin
  <2>2. UNCHANGED <<served, acked>>
    BY <1>6 DEF Begin, rowVars, historyVars
  <2>3. \A v \in Workers : \A t \in batch'[v] : t \in batch[v]
    BY <2>1 DEF TypeOK
  <2>4. ASSUME NEW v \in Workers, job'[v] # NoJob
        PROVE  job'[v].served \cup got'[v] \subseteq acked[job'[v].event]
    <3>1. CASE v = w
      BY <2>1, <3>1 DEF TypeOK
    <3>2. CASE v # w
      BY <2>1, <2>4, <3>2 DEF TypeOK, Answered
    <3>3. QED
      BY <3>1, <3>2
  <2>5. QED
    BY <2>2, <2>3, <2>4 DEF Answered
<1>7. ASSUME NEW w \in Workers, NEW h \in Hooks, Post(w, h) PROVE ServedAnswered'
  <2>1. UNCHANGED <<served, batch, job>>
    BY <1>7 DEF Post, rowVars
  <2>2. job[w] # NoJob /\ job[w].event \in Events
    BY <1>7, JobType DEF Post
  <2>3. CASE UNCHANGED <<got, acked>>
    BY <2>1, <2>3 DEF Answered
  <2>4. CASE /\ got' = [got EXCEPT ![w] = got[w] \cup {h}]
             /\ acked' = [acked EXCEPT ![job[w].event] = acked[job[w].event] \cup {h}]
    <3>1. \A e \in Events : acked[e] \subseteq acked'[e]
      BY <2>2, <2>4 DEF TypeOK
    <3>2. \A v \in Workers : \A s \in batch[v] : s.event \in Events
      BY DEF TypeOK, Snapshot
    <3>3. ASSUME NEW v \in Workers, job[v] # NoJob
          PROVE  job[v].served \cup got'[v] \subseteq acked'[job[v].event]
      <4>1. job[v].event \in Events
        BY <3>3, JobType
      <4>2. CASE v = w
        BY <2>2, <2>4, <4>2 DEF TypeOK, Answered
      <4>3. CASE v # w
        BY <2>4, <3>1, <3>3, <4>1, <4>3 DEF TypeOK, Answered
      <4>4. QED
        BY <4>2, <4>3
    <3>4. QED
      BY <2>1, <3>1, <3>2, <3>3 DEF Answered
  <2>5. QED
    BY <1>7, <2>3, <2>4 DEF Post
<1>8. ASSUME NEW w \in Workers, Finish(w) PROVE ServedAnswered'
  <2>1. job[w] \in Snapshot /\ Answered(w) \subseteq acked[job[w].event]
    BY <1>8, JobType DEF Finish
  <2>2. \A e \in Events : served'[e] \subseteq acked[e]
    BY <1>8, <2>1, ReportServed DEF Finish
  <2>3. QED
    BY <1>8, <2>2 DEF Finish, historyVars, Answered, TypeOK
<1>9. ASSUME NEW w \in Workers, FinishUnreported(w) PROVE ServedAnswered'
  BY <1>9 DEF FinishUnreported, rowVars, Answered, TypeOK
<1>10. ASSUME NEW w \in Workers, LookupFails(w) PROVE ServedAnswered'
  <2>1. PICK s \in batch[w] :
          /\ batch' = [batch EXCEPT ![w] = batch[w] \ {s}]
          /\ Reschedule(s, s.served) \/ UNCHANGED rowVars
    BY <1>10 DEF LookupFails
  <2>2. UNCHANGED <<acked, job, got>>
    BY <1>10 DEF LookupFails, historyVars
  <2>3. \A e \in Events : served'[e] \subseteq acked[e]
    BY <2>1 DEF Reschedule, rowVars, TypeOK
  <2>4. \A v \in Workers : \A t \in batch'[v] : t \in batch[v]
    BY <2>1 DEF TypeOK
  <2>5. QED
    BY <2>2, <2>3, <2>4 DEF Answered
<1>11. ASSUME NEW w \in Workers, Crash(w) PROVE ServedAnswered'
  BY <1>11 DEF Crash, rowVars, Answered, TypeOK
<1>12. QED
  BY <1>1, <1>3, <1>4, <1>5, <1>6, <1>7, <1>8, <1>9, <1>10, <1>11
     DEF Next, vars, rowVars, historyVars, Enqueue, FallDue, CreateWebhook, DeleteWebhook

\* A worker posts to nobody twice for one job, and has nobody left without one.
LEMMA ListsStep ==
  ASSUME TypeOK, Lists, [Next]_vars
  PROVE  Lists'
<1> USE DEF Lists, Answered
<1>1. CASE UNCHANGED <<job, left, got>>
  BY <1>1
<1>2. ASSUME NEW w \in Workers, Begin(w) PROVE Lists'
  <2>1. PICK s \in batch[w] :
          /\ job' = [job EXCEPT ![w] = s]
          /\ left' = [left EXCEPT ![w] = Matching(s.event) \ s.served]
          /\ got' = [got EXCEPT ![w] = {}]
    BY <1>2 DEF Begin
  <2>2. s # NoJob
    BY OutboxAssumption DEF TypeOK
  <2>3. QED
    BY <2>1, <2>2 DEF TypeOK
<1>3. ASSUME NEW w \in Workers, NEW h \in Hooks, Post(w, h) PROVE Lists'
  BY <1>3 DEF Post, TypeOK
<1>4. ASSUME NEW w \in Workers, Finish(w) \/ FinishUnreported(w) PROVE Lists'
  BY <1>4 DEF Finish, FinishUnreported, TypeOK
<1>5. ASSUME NEW w \in Workers, Crash(w) PROVE Lists'
  BY <1>5 DEF Crash, TypeOK
<1>6. QED
  BY <1>1, <1>2, <1>3, <1>4, <1>5 DEF Next, vars, workerVars, Enqueue, Purge, FallDue,
     CreateWebhook, DeleteWebhook, DeleteProject, Lease, LookupFails

\* What a committed event is owed never grows, and its answers never shrink.
LEMMA OwedStep ==
  ASSUME TypeOK, Known, [Next]_vars, NEW e \in rows \cup gone
  PROVE  /\ owed'[e] \cap hooks' \subseteq owed[e] \cap hooks
         /\ acked[e] \subseteq acked'[e]
<1> e \in Events
  BY DEF TypeOK
<1>1. acked[e] \subseteq acked'[e]
  <2>1. ASSUME NEW w \in Workers, NEW h \in Hooks, Post(w, h)
        PROVE  acked[e] \subseteq acked'[e]
    <3>1. acked' = acked \/
          acked' = [acked EXCEPT ![job[w].event] = acked[job[w].event] \cup {h}]
      BY <2>1 DEF Post
    <3>2. QED
      BY <3>1 DEF TypeOK
  <2>2. CASE acked' = acked
    BY <2>2
  <2>3. QED
    BY <2>1, <2>2 DEF Next, vars, historyVars, Enqueue, Purge, Remove, FallDue,
       CreateWebhook, DeleteWebhook, DeleteProject, Lease, Begin, Finish,
       FinishUnreported, LookupFails, Crash
<1>2. owed'[e] \cap hooks' \subseteq owed[e] \cap hooks
  <2>1. CASE UNCHANGED <<owed, hooks>>
    BY <2>1
  <2>2. ASSUME NEW f \in Events, Enqueue(f) PROVE owed'[e] \cap hooks' \subseteq owed[e] \cap hooks
    BY <2>2 DEF Enqueue, TypeOK
  <2>3. ASSUME NEW f \in Events, Purge(f) PROVE owed'[e] \cap hooks' \subseteq owed[e] \cap hooks
    BY <2>3 DEF Purge, Remove
  <2>4. ASSUME NEW h \in Hooks, CreateWebhook(h)
        PROVE  owed'[e] \cap hooks' \subseteq owed[e] \cap hooks
    BY <2>4 DEF CreateWebhook, historyVars, Known
  <2>5. ASSUME NEW h \in Hooks, DeleteWebhook(h)
        PROVE  owed'[e] \cap hooks' \subseteq owed[e] \cap hooks
    BY <2>5 DEF DeleteWebhook, historyVars
  <2>6. ASSUME NEW p \in Projects, DeleteProject(p)
        PROVE  owed'[e] \cap hooks' \subseteq owed[e] \cap hooks
    BY <2>6 DEF DeleteProject, Remove
  <2>7. QED
    BY <2>1, <2>2, <2>3, <2>4, <2>5, <2>6 DEF Next, vars, tableVars, historyVars,
       FallDue, Lease, Begin, Post, Finish, FinishUnreported, LookupFails, Crash
<1>3. QED
  BY <1>1, <1>2

\* A worker whose POSTs all succeeded so far has not lost sight of anyone.
LEMMA CoveredStep ==
  ASSUME TypeOK, Known, ServedAnswered, Covered, [Next]_vars
  PROVE  Covered'
<1> DEFINE Sees(w) == owed[job[w].event] \cap hooks \subseteq left[w] \cup acked[job[w].event]
<1>1. ASSUME NEW w \in Workers, job[w] # NoJob PROVE job[w].event \in rows \cup gone
  BY <1>1, JobType DEF Known, HeldBy, Holds, AtWork
<1>2. ASSUME NEW w \in Workers, job[w] # NoJob, ~failed[w],
             job'[w] = job[w], left'[w] = left[w]
      PROVE  Sees(w)'
  BY <1>1, <1>2, OwedStep DEF Covered
<1>3. ASSUME NEW w \in Workers, Begin(w) PROVE Covered'
  <2>1. PICK s \in batch[w] :
          /\ job' = [job EXCEPT ![w] = s]
          /\ left' = [left EXCEPT ![w] = Matching(s.event) \ s.served]
          /\ failed' = [failed EXCEPT ![w] = FALSE]
    BY <1>3 DEF Begin
  <2>2. s.event \in Events /\ s.served \subseteq acked[s.event]
    BY <2>1 DEF ServedAnswered, TypeOK, Snapshot
  <2>3. owed[s.event] \cap hooks \subseteq Matching(s.event)
    BY <2>2 DEF Known, Matching
  <2>4. UNCHANGED <<owed, hooks, acked>>
    BY <1>3 DEF Begin, tableVars, historyVars
  <2>5. Sees(w)'
    BY <2>1, <2>2, <2>3, <2>4 DEF TypeOK
  <2>6. QED
    BY <2>1, <2>4, <2>5 DEF Covered, TypeOK
<1>4. ASSUME NEW w \in Workers, NEW h \in Hooks, Post(w, h) PROVE Covered'
  <2>1. /\ job' = job
        /\ \A v \in Workers : v # w => left'[v] = left[v] /\ failed'[v] = failed[v]
    BY <1>4 DEF Post, TypeOK
  <2>2. ASSUME ~failed'[w] PROVE Sees(w)'
    <3>1. /\ left'[w] = left[w] \ {h}
          /\ acked' = [acked EXCEPT ![job[w].event] = acked[job[w].event] \cup {h}]
          /\ ~failed[w]
      BY <1>4, <2>2 DEF Post, TypeOK
    <3>2. UNCHANGED <<owed, hooks>> /\ job[w] # NoJob /\ job[w].event \in Events
      BY <1>4, JobType DEF Post, tableVars
    <3>3. acked'[job[w].event] = acked[job[w].event] \cup {h}
      BY <3>1, <3>2 DEF TypeOK
    <3>4. QED
      BY <2>1, <3>1, <3>2, <3>3 DEF Covered
  <2>3. QED
    BY <1>2, <2>1, <2>2 DEF Covered
<1>5. ASSUME NEW w \in Workers, Finish(w) \/ FinishUnreported(w) \/ Crash(w)
      PROVE  Covered'
  <2>1. /\ job'[w] = NoJob
        /\ \A v \in Workers : v # w =>
             job'[v] = job[v] /\ left'[v] = left[v] /\ failed'[v] = failed[v]
    BY <1>5 DEF Finish, FinishUnreported, Crash, TypeOK
  <2>2. QED
    BY <1>2, <2>1 DEF Covered
<1>6. CASE UNCHANGED <<job, left, failed>>
  BY <1>2, <1>6 DEF Covered
<1>7. QED
  BY <1>3, <1>4, <1>5, <1>6 DEF Next, vars, workerVars, Enqueue, Purge, FallDue,
     CreateWebhook, DeleteWebhook, DeleteProject, Lease, LookupFails

\* A report marks delivered an event on whose behalf every POST succeeded.
LEMMA NoneSkippedStep ==
  ASSUME TypeOK, Known, Covered, NoneSkipped, [Next]_vars
  PROVE  NoneSkipped'
<1>1. ASSUME NEW e \in delivered PROVE owed'[e] \cap hooks' \subseteq acked'[e]
  BY OwedStep DEF NoneSkipped, TypeOK
<1>2. ASSUME NEW w \in Workers, Finish(w), NEW e \in delivered', e \notin delivered
      PROVE  owed'[e] \cap hooks' \subseteq acked'[e]
  <2>1. e = job[w].event /\ ~failed[w]
    BY <1>2 DEF Finish, Report, MarkDelivered, Park, Reschedule
  <2>2. owed[e] \cap hooks \subseteq acked[e]
    BY <1>2, <2>1 DEF Finish, Covered
  <2>3. QED
    BY <1>2, <2>2 DEF Finish, tableVars, historyVars
<1>3. CASE delivered' \subseteq delivered
  BY <1>1, <1>3 DEF NoneSkipped
<1>4. CASE \E w \in Workers : Finish(w)
  BY <1>1, <1>2, <1>4 DEF NoneSkipped
<1>5. QED
  BY <1>3, <1>4 DEF Next, vars, rowVars, Enqueue, Purge, Remove, FallDue, CreateWebhook,
     DeleteWebhook, DeleteProject, Lease, Begin, Post, FinishUnreported, LookupFails,
     Reschedule, Crash

----------------------------------------------------------------------------
(* Who else may hold an event, and what they know. *)

\* A lapse is never forgotten.
LEMMA LapsedStep ==
  ASSUME [Next]_vars
  PROVE  overrun \subseteq overrun' /\ unreported \subseteq unreported'
BY DEF Next, vars, historyVars, Enqueue, Purge, Remove, FallDue, CreateWebhook,
   DeleteWebhook, DeleteProject, Lease, Begin, Post, Finish, FinishUnreported,
   LookupFails, Crash

\* What a lease puts in a worker's hands.
LEMMA LeaseFacts ==
  ASSUME TypeOK, NEW w \in Workers, Lease(w)
  PROVE  \E E \in SUBSET Claimable :
           /\ due' = due \ E
           /\ batch' = [batch EXCEPT ![w] = {Copy(e) : e \in E}]
           /\ \A e \in Events : Holds(w, e)' <=> e \in E
           /\ \A e \in Events : ~Holds(w, e)
           /\ \A v \in Workers, e \in Events : v # w => (Holds(v, e)' <=> Holds(v, e))
<1>1. PICK E \in SUBSET Claimable :
        /\ batch' = [batch EXCEPT ![w] = {Copy(e) : e \in E}]
        /\ due' = due \ E
  BY DEF Lease, Pushed
<1>2. batch[w] = {} /\ job[w] = NoJob /\ job' = job
  BY DEF Lease
<1>3. \A e \in E : Copy(e).event = e
  BY CopyType DEF Claimable, TypeOK
<1>4. batch'[w] = {Copy(e) : e \in E}
  BY <1>1 DEF TypeOK
<1>5. \A e \in Events : Holds(w, e)' <=> e \in E
  BY <1>2, <1>3, <1>4 DEF Holds, InBatch, AtWork
<1>6. \A e \in Events : ~Holds(w, e)
  BY <1>2 DEF Holds, InBatch, AtWork
<1>7. \A v \in Workers, e \in Events : v # w => (Holds(v, e)' <=> Holds(v, e))
  BY <1>1, <1>2 DEF Holds, InBatch, AtWork, TypeOK
<1>8. QED
  BY <1>1, <1>5, <1>6, <1>7

\* A report lets the worker's event go.
LEMMA FinishLetsGo ==
  ASSUME TypeOK, Copies, NEW w \in Workers, Finish(w)
  PROVE  /\ job[w].event \in Events
         /\ Holds(w, job[w].event)
         /\ \A e \in Events : e = job[w].event => ~Holds(w, e)'
         /\ Settled' \subseteq Settled \cup {job[w].event}
         /\ due' \subseteq due
<1>1. job[w] # NoJob /\ job[w].event \in Events
  BY JobType DEF Finish
<1>2. batch' = batch /\ job'[w] = NoJob
  BY DEF Finish, TypeOK
<1>3. ~InBatch(w, job[w].event)
  BY <1>1 DEF Copies, InBatch, AtWork
<1>4. Settled' \subseteq Settled \cup {job[w].event} /\ due' \subseteq due
  BY DEF Finish, Report, MarkDelivered, Park, Reschedule, Settled
<1>5. QED
  BY <1>1, <1>2, <1>3, <1>4 DEF Holds, InBatch, AtWork

\* Only a lease that ran out lets a second worker have an event.
LEMMA LoneStep ==
  ASSUME TypeOK, Known, Copies, Lone, [Next]_vars
  PROVE  Lone'
<1> SUFFICES ASSUME NEW w \in Workers, NEW e \in Events, Holds(w, e)', e \notin overrun'
             PROVE  /\ e \notin due'
                    /\ e \notin Settled'
                    /\ \A v \in Workers : Holds(v, e)' => v = w
  BY DEF Lone, HeldBy
<1> DEFINE Goal == /\ e \notin due'
                   /\ e \notin Settled'
                   /\ \A v \in Workers : Holds(v, e)' => v = w
<1>1. e \notin overrun
  BY LapsedStep
<1>2. ASSUME NEW u \in Workers, Lease(u) PROVE Goal
  <2>1. PICK E \in SUBSET Claimable :
          /\ due' = due \ E
          /\ \A f \in Events : Holds(u, f)' <=> f \in E
          /\ \A f \in Events : ~Holds(u, f)
          /\ \A v \in Workers, f \in Events : v # u => (Holds(v, f)' <=> Holds(v, f))
    BY <1>2, LeaseFacts
  <2>2. Settled' = Settled
    BY <1>2 DEF Lease, Settled
  <2>3. CASE e \in E
    <3>1. \A v \in Workers : ~Holds(v, e)
      BY <1>1, <2>1, <2>3 DEF Lone, HeldBy, Claimable
    <3>2. QED
      BY <2>1, <2>2, <2>3, <3>1 DEF Claimable
  <2>4. CASE e \notin E
    BY <1>1, <2>1, <2>2, <2>4 DEF Lone, HeldBy
  <2>5. QED
    BY <2>3, <2>4
<1>3. ASSUME \A u \in Workers : ~Lease(u) PROVE Goal
  <2>1. \A v \in Workers : Holds(v, e)' => Holds(v, e)
    BY <1>3, HandsStep
  <2>2. /\ e \notin due
        /\ e \notin Settled
        /\ \A v \in Workers : Holds(v, e)' => v = w
        /\ \A v \in Workers : Holds(v, e) => v = w
        /\ e \in rows \cup gone
    BY <1>1, <2>1 DEF Lone, HeldBy, Known
  <2>3. CASE due' \subseteq due /\ Settled' \subseteq Settled
    BY <2>2, <2>3
  <2>4. ASSUME NEW f \in Events, Enqueue(f) PROVE Goal
    BY <2>2, <2>4 DEF Enqueue, Settled
  <2>5. ASSUME NEW f \in Events, FallDue(f) PROVE Goal
    <3>1. f # e
      BY <2>1, <2>5 DEF FallDue
    <3>2. QED
      BY <2>2, <2>5, <3>1 DEF FallDue, Settled
  <2>6. ASSUME NEW v \in Workers, Finish(v) PROVE Goal
    BY <2>2, <2>6, FinishLetsGo
  <2>7. QED
    BY <1>3, <2>3, <2>4, <2>5, <2>6 DEF Next, vars, rowVars, Settled, Purge, Remove,
       CreateWebhook, DeleteWebhook, DeleteProject, Begin, Post, FinishUnreported,
       LookupFails, Reschedule, Crash
<1>4. QED
  BY <1>2, <1>3

\* A worker settles what it holds, and what it holds is not settled.
LEMMA OneFateStep ==
  ASSUME TypeOK, Copies, Lone, Lone', OneFate, [Next]_vars
  PROVE  OneFate'
<1>1. \A w \in Workers : HeldBy(w)' \cap Settled' \subseteq overrun'
  BY DEF Lone
<1>2. CASE delivered' \subseteq delivered /\ parked' \subseteq parked
  BY <1>1, <1>2, LapsedStep DEF OneFate
<1>3. ASSUME NEW w \in Workers, Finish(w) PROVE delivered' \cap parked' \subseteq overrun'
  <2>1. /\ job[w].event \in Events /\ Holds(w, job[w].event)
        /\ \/ delivered' \subseteq delivered
           \/ parked' \subseteq parked
        /\ delivered' \subseteq delivered \cup {job[w].event}
        /\ parked' \subseteq parked \cup {job[w].event}
    BY <1>3, FinishLetsGo DEF Finish, Report, MarkDelivered, Park, Reschedule
  <2>2. job[w].event \notin Settled \/ job[w].event \in overrun
    BY <2>1 DEF Lone, HeldBy
  <2>3. QED
    BY <2>1, <2>2, LapsedStep DEF OneFate, Settled
<1>4. QED
  BY <1>1, <1>2, <1>3 DEF OneFate, Next, vars, rowVars, Enqueue, Purge, Remove,
     FallDue, CreateWebhook, DeleteWebhook, DeleteProject, Lease, Begin, Post,
     FinishUnreported, LookupFails, Reschedule, Crash

\* An answer reaches whoever will deliver the event next, unless it lapsed.
LEMMA ExactStep ==
  ASSUME TypeOK, Known, Copies, Lone, Exact, [Next]_vars
  PROVE  Exact'
<1> DEFINE Rows == \A e \in rows \ (Settled \cup Lapsed) :
                     (\A w \in Workers : ~AtWork(w, e)) => acked[e] \subseteq served[e]
           Batches == \A w \in Workers : \A s \in batch[w] :
                        s.event \notin Lapsed => acked[s.event] \subseteq s.served
           Knows(w) == job[w] # NoJob /\ job[w].event \notin Lapsed =>
                         acked[job[w].event] \subseteq Answered(w)
           Jobs == \A w \in Workers : Knows(w)
<1>1. Rows /\ Batches /\ Jobs
  BY DEF Exact
<1>2. Lapsed \subseteq Lapsed'
  BY LapsedStep DEF Lapsed
<1>3. \A w \in Workers : \A s \in batch[w] : s \in Snapshot /\ s.event \in Events
  BY DEF TypeOK, Snapshot
<1>4. \A w \in Workers : job[w] # NoJob => job[w].event \in Events
  BY JobType
<1>5. CASE UNCHANGED <<rows, Settled, acked, served, batch, job, got>>
  BY <1>1, <1>2, <1>5 DEF Exact, AtWork, Answered
<1>6. ASSUME NEW f \in Events, Enqueue(f) PROVE Exact'
  <2>1. /\ UNCHANGED <<Settled, acked, served, batch, job, got>>
        /\ rows' = rows \cup {f} /\ acked[f] = {}
    BY <1>6 DEF Enqueue, Settled, workerVars, Known
  <2>2. QED
    BY <1>1, <1>2, <2>1 DEF Exact, AtWork, Answered
<1>7. ASSUME NEW E \in SUBSET Events, Remove(E), UNCHANGED workerVars PROVE Exact'
  <2>1. /\ UNCHANGED <<acked, batch, job, got>>
        /\ rows' \ Settled' \subseteq rows \ Settled
        /\ \A e \in rows' : served'[e] = served[e]
    BY <1>7 DEF Remove, workerVars, Settled, TypeOK
  <2>2. QED
    BY <1>1, <1>2, <2>1 DEF Exact, AtWork, Answered
<1>8. ASSUME NEW e \in Events, Purge(e) PROVE Exact'
  BY <1>7, <1>8 DEF Purge
<1>9. ASSUME NEW p \in Projects, DeleteProject(p) PROVE Exact'
  <2>1. {e \in rows : ProjectOf[e] = p} \in SUBSET Events
    BY DEF TypeOK
  <2>2. Remove({e \in rows : ProjectOf[e] = p}) /\ UNCHANGED workerVars
    BY <1>9 DEF DeleteProject
  <2>3. QED
    BY <1>7, <2>1, <2>2
<1>10. ASSUME NEW w \in Workers, Lease(w) PROVE Exact'
  <2>1. PICK E \in SUBSET Claimable :
          batch' = [batch EXCEPT ![w] = {Copy(e) : e \in E}]
    BY <1>10, LeaseFacts
  <2>2. UNCHANGED <<rows, Settled, Lapsed, acked, served, job, got>>
    BY <1>10 DEF Lease, Settled, Lapsed, tableVars, historyVars
  <2>3. ASSUME NEW e \in E, e \notin Lapsed PROVE acked[e] \subseteq served[e]
    <3>1. e \in Events /\ e \in rows \ Settled /\ e \in due
      BY DEF Claimable, TypeOK
    <3>2. \A v \in Workers : ~AtWork(v, e)
      BY <2>3, <3>1 DEF Lone, HeldBy, Holds, Lapsed
    <3>3. QED
      BY <1>1, <2>3, <3>1, <3>2
  <2>4. \A s \in {Copy(e) : e \in E} :
          s.event \notin Lapsed => acked[s.event] \subseteq s.served
    BY <2>3, CopyType DEF Claimable, TypeOK
  <2>5. Batches'
    BY <1>1, <2>1, <2>2, <2>4 DEF TypeOK
  <2>6. QED
    BY <1>1, <2>2, <2>5 DEF Exact, AtWork, Answered
<1>11. ASSUME NEW w \in Workers, Begin(w) PROVE Exact'
  <2>1. PICK s \in batch[w] :
          /\ batch' = [batch EXCEPT ![w] = batch[w] \ {s}]
          /\ job' = [job EXCEPT ![w] = s]
          /\ got' = [got EXCEPT ![w] = {}]
    BY <1>11 DEF Begin
  <2>2. UNCHANGED <<rows, Settled, Lapsed, acked, served>> /\ job[w] = NoJob
    BY <1>11 DEF Begin, Settled, Lapsed, tableVars, rowVars, historyVars
  <2>3. Batches'
    BY <1>1, <2>1, <2>2 DEF TypeOK
  <2>4. Rows'
    <3>1. ASSUME NEW e \in Events, \A v \in Workers : ~AtWork(v, e)'
          PROVE  \A v \in Workers : ~AtWork(v, e)
      BY <2>1, <2>2, <3>1 DEF AtWork, TypeOK
    <3>2. QED
      BY <1>1, <2>2, <3>1 DEF TypeOK
  <2>5. ASSUME NEW v \in Workers PROVE Knows(v)'
    <3>1. CASE v = w
      BY <1>1, <2>1, <2>2, <3>1 DEF Answered, TypeOK
    <3>2. CASE v # w
      BY <1>1, <2>1, <2>2, <3>2 DEF Answered, TypeOK
    <3>3. QED
      BY <3>1, <3>2
  <2>6. QED
    BY <2>3, <2>4, <2>5 DEF Exact
<1>12. ASSUME NEW w \in Workers, NEW h \in Hooks, Post(w, h) PROVE Exact'
  <2> DEFINE e == job[w].event
  <2>1. /\ UNCHANGED <<rows, Settled, Lapsed, served, batch, job>>
        /\ e \in Events /\ job[w] # NoJob /\ AtWork(w, e)
        /\ \A v \in Workers : v # w => got'[v] = got[v]
    BY <1>4, <1>12 DEF Post, Settled, Lapsed, tableVars, rowVars, AtWork, TypeOK
  <2>2. \/ acked' = acked /\ got' = got
        \/ /\ acked' = [acked EXCEPT ![e] = acked[e] \cup {h}]
           /\ got' = [got EXCEPT ![w] = got[w] \cup {h}]
    BY <1>12 DEF Post
  <2> HIDE DEF e
  <2>3. \A f \in Events : f # e => acked'[f] = acked[f]
    BY <2>1, <2>2 DEF TypeOK
  <2>4. \A v \in Workers : e \notin Lapsed /\ Holds(v, e) => v = w
    BY <2>1 DEF Lone, HeldBy, Holds, Lapsed
  <2>5. Rows'
    BY <1>1, <2>1, <2>3 DEF AtWork, TypeOK
  <2>6. Batches'
    <3>1. ASSUME NEW v \in Workers, NEW s \in batch[v], s.event = e, e \notin Lapsed
          PROVE  FALSE
      BY <2>1, <2>4, <3>1 DEF Copies, Holds, InBatch
    <3>2. QED
      BY <1>1, <1>3, <2>1, <2>3, <3>1
  <2>7. ASSUME NEW v \in Workers PROVE Knows(v)'
    <3>1. CASE v = w
      <4>1. CASE acked' = acked /\ got' = got
        BY <1>1, <2>1, <3>1, <4>1 DEF Answered
      <4>2. CASE /\ acked' = [acked EXCEPT ![e] = acked[e] \cup {h}]
                 /\ got' = [got EXCEPT ![w] = got[w] \cup {h}]
        <5>1. acked'[e] = acked[e] \cup {h} /\ got'[w] = got[w] \cup {h}
          BY <2>1, <4>2 DEF TypeOK
        <5>2. QED
          BY <1>1, <2>1, <3>1, <5>1 DEF Answered, e
      <4>3. QED
        BY <2>2, <4>1, <4>2
    <3>2. CASE v # w
      <4>1. job[v] # NoJob /\ job[v].event \notin Lapsed => job[v].event # e
        BY <1>4, <2>1, <2>4, <3>2 DEF Holds, AtWork
      <4>2. QED
        BY <1>1, <1>4, <2>1, <2>3, <3>2, <4>1 DEF Answered
    <3>3. QED
      BY <3>1, <3>2
  <2>8. QED
    BY <2>5, <2>6, <2>7 DEF Exact
<1>13. ASSUME NEW w \in Workers, Finish(w) PROVE Exact'
  <2> DEFINE e == job[w].event
  <2>1. /\ UNCHANGED <<rows, Lapsed, acked, batch>>
        /\ job[w] # NoJob /\ job[w] \in Snapshot /\ e \in Events
        /\ job'[w] = NoJob
        /\ \A v \in Workers : v # w => job'[v] = job[v] /\ got'[v] = got[v]
        /\ Report(job[w], Answered(w), ~failed[w])
    BY <1>13, JobType DEF Finish, Lapsed, tableVars, historyVars, TypeOK
  <2>2. Settled \subseteq Settled'
    BY <2>1 DEF Report, MarkDelivered, Park, Reschedule, Settled
  <2>3. e \in rows \ Settled' => served'[e] = Answered(w)
    BY <2>1 DEF Report, MarkDelivered, Park, Reschedule, Settled, TypeOK
  <2>4. \A f \in Events : f # e => served'[f] = served[f]
    BY <2>1, ReportServed
  <2> HIDE DEF e
  <2>5. ASSUME NEW f \in rows \ (Settled' \cup Lapsed),
               \A v \in Workers : ~AtWork(v, f)'
        PROVE  acked[f] \subseteq served'[f]
    <3>1. CASE f = e
      BY <1>1, <2>1, <2>3, <2>5, <3>1 DEF e
    <3>2. CASE f # e
      <4>1. \A v \in Workers : ~AtWork(v, f)
        BY <2>1, <2>5, <3>2 DEF AtWork, e
      <4>2. QED
        BY <1>1, <2>2, <2>4, <3>2, <4>1 DEF TypeOK
    <3>3. QED
      BY <3>1, <3>2
  <2>6. \A v \in Workers : Knows(v)'
    BY <1>1, <2>1 DEF Answered
  <2>7. QED
    BY <1>1, <2>1, <2>5, <2>6 DEF Exact
<1>14. ASSUME NEW w \in Workers, NEW L,
              Lapsed' = Lapsed \cup L, AtWork(w, job[w].event) => job[w].event \in L,
              UNCHANGED <<rows, Settled, acked, served>>,
              \A v \in Workers : batch'[v] \subseteq batch[v],
              job'[w] = NoJob,
              \A v \in Workers : v # w => job'[v] = job[v] /\ got'[v] = got[v]
       PROVE  Exact'
  <2>1. ASSUME NEW e \in Events, e \notin Lapsed', \A v \in Workers : ~AtWork(v, e)'
        PROVE  \A v \in Workers : ~AtWork(v, e)
    BY <1>14, <2>1 DEF AtWork
  <2>2. Rows'
    BY <1>1, <1>14, <2>1 DEF TypeOK
  <2>3. Batches'
    BY <1>1, <1>14
  <2>4. \A v \in Workers : Knows(v)'
    BY <1>1, <1>14 DEF Answered
  <2>5. QED
    BY <2>2, <2>3, <2>4 DEF Exact
<1>15. ASSUME NEW w \in Workers, FinishUnreported(w) PROVE Exact'
  <2>1. /\ Lapsed' = Lapsed \cup {job[w].event}
        /\ UNCHANGED <<rows, Settled, acked, served, batch>>
        /\ job'[w] = NoJob
        /\ \A v \in Workers : v # w => job'[v] = job[v] /\ got'[v] = got[v]
    BY <1>15 DEF FinishUnreported, Lapsed, Settled, tableVars, rowVars, TypeOK
  <2>2. QED
    BY <1>14, <2>1
<1>16. ASSUME NEW w \in Workers, Crash(w) PROVE Exact'
  <2>1. /\ Lapsed' = Lapsed \cup HeldBy(w)
        /\ UNCHANGED <<rows, Settled, acked, served>>
        /\ \A v \in Workers : batch'[v] \subseteq batch[v]
        /\ job'[w] = NoJob
        /\ \A v \in Workers : v # w => job'[v] = job[v] /\ got'[v] = got[v]
    BY <1>16 DEF Crash, Lapsed, Settled, tableVars, rowVars, TypeOK
  <2>2. AtWork(w, job[w].event) => job[w].event \in HeldBy(w)
    BY <1>4 DEF HeldBy, Holds, AtWork
  <2>3. QED
    BY <1>14, <2>1, <2>2
<1>17. ASSUME NEW w \in Workers, LookupFails(w) PROVE Exact'
  <2>1. PICK s \in batch[w] :
          /\ batch' = [batch EXCEPT ![w] = batch[w] \ {s}]
          /\ Reschedule(s, s.served) \/ UNCHANGED rowVars
    BY <1>17 DEF LookupFails
  <2>2. UNCHANGED <<rows, Settled, Lapsed, acked, job, got>>
    BY <1>17, <2>1 DEF LookupFails, Reschedule, Lapsed, Settled, tableVars, rowVars,
       historyVars
  <2>3. \A v \in Workers : batch'[v] \subseteq batch[v]
    BY <2>1 DEF TypeOK
  <2>4. \A e \in Events : served'[e] = served[e] \/ (e = s.event /\ served'[e] = s.served)
    <3>1. CASE Reschedule(s, s.served)
      BY <3>1 DEF Reschedule, TypeOK
    <3>2. CASE UNCHANGED rowVars
      BY <3>2 DEF rowVars
    <3>3. QED
      BY <2>1, <3>1, <3>2
  <2>5. Rows'
    BY <1>1, <2>1, <2>2, <2>4 DEF AtWork, TypeOK
  <2>6. QED
    BY <1>1, <2>2, <2>3, <2>5 DEF Exact, Answered
<1>18. QED
  BY <1>5, <1>6, <1>8, <1>9, <1>10, <1>11, <1>12, <1>13, <1>15, <1>16, <1>17
     DEF Next, vars, tableVars, rowVars, workerVars, historyVars, Settled, FallDue,
     CreateWebhook, DeleteWebhook

\* A worker that knows every answer does not POST to a subscriber that gave one.
LEMMA RepeatStep ==
  ASSUME TypeOK, Lists, Exact, OnlyLapsesRepeat, [Next]_vars
  PROVE  OnlyLapsesRepeat'
<1>1. ASSUME NEW w \in Workers, NEW h \in Hooks, Post(w, h)
      PROVE  repeated' \subseteq unreported \cup overrun
  <2>1. job[w] # NoJob /\ h \notin Answered(w)
    BY <1>1 DEF Post, Lists
  <2>2. job[w].event \notin Lapsed => h \notin acked[job[w].event]
    BY <2>1 DEF Exact
  <2>3. QED
    BY <1>1, <2>2 DEF Post, OnlyLapsesRepeat, Lapsed
<1>2. CASE repeated' = repeated
  BY <1>2, LapsedStep DEF OnlyLapsesRepeat
<1>3. QED
  BY <1>1, <1>2, LapsedStep DEF OnlyLapsesRepeat, Next, vars, historyVars, Enqueue,
     Purge, Remove, FallDue, CreateWebhook, DeleteWebhook, DeleteProject, Lease, Begin,
     Finish, FinishUnreported, LookupFails, Crash

----------------------------------------------------------------------------
(* The theorems. *)

\* The invariant holds to begin with, when nothing is held, owed or answered.
LEMMA InitInv == Init => IInv
<1> SUFFICES ASSUME Init PROVE IInv
  OBVIOUS
<1> USE DEF Init
<1>1. TypeOK
  BY OutboxAssumption DEF TypeOK
<1>2. \A w \in Workers, e \in Events : ~Holds(w, e)
  BY DEF Holds, InBatch, AtWork
<1>3. Known /\ Copies /\ ServedAnswered /\ Lists /\ Covered
  BY <1>2 DEF Known, HeldBy, Copies, ServedAnswered, Lists, Covered
<1>4. Lone /\ Exact /\ NoneSkipped /\ OnlyLapsesRepeat /\ OneFate
  BY <1>2 DEF Lone, HeldBy, Exact, NoneSkipped, OnlyLapsesRepeat, OneFate
<1>5. QED
  BY <1>1, <1>3, <1>4 DEF IInv

\* Every step keeps the invariant.
LEMMA StepInv == IInv /\ [Next]_vars => IInv'
BY TypeStep, KnownStep, CopiesStep, ServedStep, ListsStep, CoveredStep, LoneStep,
   ExactStep, NoneSkippedStep, RepeatStep, OneFateStep DEF IInv

\* The outbox stays well typed and its bookkeeping consistent.
THEOREM OutboxInvariant == Spec => []IInv
BY InitInv, StepInv, PTL DEF Spec

\* The rows of webhook_events and what the workers copied of them have their types.
THEOREM OutboxTypeCorrect == Spec => []TypeOK
<1>1. IInv => TypeOK
  BY DEF IInv
<1>2. QED
  BY <1>1, OutboxInvariant, PTL

\* An event deliverEvent marks delivered was answered by every subscriber it had
\* when it was committed and still has.
THEOREM DeliveredSkipsNobody == Spec => []NoneSkipped
<1>1. IInv => NoneSkipped
  BY DEF IInv
<1>2. QED
  BY <1>1, OutboxInvariant, PTL

\* deliverEvent POSTs again to a subscriber that answered only after a lapse.
THEOREM RepeatsAreLapses == Spec => []OnlyLapsesRepeat
<1>1. IInv => OnlyLapsesRepeat
  BY DEF IInv
<1>2. QED
  BY <1>1, OutboxInvariant, PTL

\* Without a lease that ran out in a worker's hands, delivered_at and parked_at
\* are never both set, and a settled event is in nobody's hands.
THEOREM SettledOnce == Spec => []OneFate
<1>1. IInv => OneFate
  BY DEF IInv
<1>2. QED
  BY <1>1, OutboxInvariant, PTL

----------------------------------------------------------------------------
(* The outbox is a fan-out.                                                *)

\* The list of a worker is of subscribers, present or past, of its event.
Addressed ==
  \A w \in Workers : job[w] # NoJob =>
    left[w] \subseteq Audience[job[w].event] \cap (hooks \cup retired)

\* A worker one of whose POSTs failed knows of a subscriber that has not answered,
\* unless the event lapsed, and will not try that one again.
Unanswered ==
  \A w \in Workers :
    job[w] # NoJob /\ failed[w] /\ job[w].event \notin Lapsed =>
      \E h \in Audience[job[w].event] \cap (hooks \cup retired) :
        h \notin left[w] \cup acked[job[w].event]

FInv == IInv /\ Addressed /\ Unanswered

\* The audience of an event takes in the subscribers a lookup returns.
LEMMA MatchingAudience ==
  ASSUME TypeOK, NEW e \in Events
  PROVE  Matching(e) = Audience[e] \cap hooks
BY DEF Matching, Audience, TypeOK

\* A list is made of an audience, and shrinks.
LEMMA AddressedStep ==
  ASSUME TypeOK, Addressed, [Next]_vars
  PROVE  Addressed'
<1>1. hooks \cup retired \subseteq hooks' \cup retired'
  BY TableStep
<1>2. Audience' = Audience
  BY DEF Audience
<1>3. ASSUME NEW w \in Workers,
             \A v \in Workers : v # w => job'[v] = job[v] /\ left'[v] = left[v],
             \/ job'[w] = NoJob
             \/ job'[w] = job[w] /\ left'[w] \subseteq left[w]
      PROVE  Addressed'
  BY <1>1, <1>2, <1>3 DEF Addressed
<1>4. ASSUME NEW w \in Workers, Begin(w) PROVE Addressed'
  <2>1. PICK s \in batch[w] :
          /\ job' = [job EXCEPT ![w] = s]
          /\ left' = [left EXCEPT ![w] = Matching(s.event) \ s.served]
    BY <1>4 DEF Begin
  <2>2. s.event \in Events
    BY <2>1 DEF TypeOK, Snapshot
  <2>3. job'[w] = s /\ left'[w] \subseteq Audience[s.event] \cap (hooks \cup retired)
    BY <2>1, <2>2, MatchingAudience DEF TypeOK
  <2>4. \A v \in Workers : v # w => job'[v] = job[v] /\ left'[v] = left[v]
    BY <2>1 DEF TypeOK
  <2> QED BY <1>1, <1>2, <2>3, <2>4 DEF Addressed
<1>5. ASSUME NEW w \in Workers, NEW h \in Hooks, Post(w, h) PROVE Addressed'
  <2>1. job' = job /\ left' = [left EXCEPT ![w] = left[w] \ {h}]
    BY <1>5 DEF Post
  <2> QED BY <1>3, <2>1 DEF TypeOK
<1>6. ASSUME NEW w \in Workers, Finish(w) \/ FinishUnreported(w) PROVE Addressed'
  <2>1. job' = [job EXCEPT ![w] = NoJob] /\ left' = left
    BY <1>6 DEF Finish, FinishUnreported
  <2> QED BY <1>3, <2>1 DEF TypeOK
<1>7. ASSUME NEW w \in Workers, Crash(w) PROVE Addressed'
  <2>1. job' = [job EXCEPT ![w] = NoJob] /\ left' = [left EXCEPT ![w] = {}]
    BY <1>7 DEF Crash
  <2> QED BY <1>3, <2>1 DEF TypeOK
<1>8. CASE UNCHANGED <<job, left>>
  BY <1>1, <1>2, <1>8 DEF Addressed
<1> QED BY <1>4, <1>5, <1>6, <1>7, <1>8 DEF Next, vars, workerVars, Enqueue, Purge,
     FallDue, CreateWebhook, DeleteWebhook, DeleteProject, Lease, LookupFails

\* Who did not answer a POST has not answered before, unless the event lapsed.
LEMMA UnansweredStep ==
  ASSUME TypeOK, Lists, Lone, Exact, Addressed, Unanswered, [Next]_vars
  PROVE  Unanswered'
<1> DEFINE Missing(w, h) ==
      /\ h \in Audience[job[w].event] \cap (hooks \cup retired)
      /\ h \notin left[w] \cup acked[job[w].event]
<1>1. hooks \cup retired \subseteq hooks' \cup retired' /\ Lapsed \subseteq Lapsed'
  BY TableStep, LapsedStep DEF Lapsed
<1>2. Audience' = Audience
  BY DEF Audience
<1>3. ASSUME NEW w \in Workers, UNCHANGED acked,
             \A v \in Workers : v # w =>
               job'[v] = job[v] /\ left'[v] = left[v] /\ failed'[v] = failed[v],
             job'[w] = NoJob \/ ~failed'[w]
      PROVE  Unanswered'
  BY <1>1, <1>2, <1>3 DEF Unanswered
<1>4. ASSUME NEW w \in Workers, Begin(w) PROVE Unanswered'
  <2>1. PICK s \in batch[w] :
          /\ job' = [job EXCEPT ![w] = s]
          /\ left' = [left EXCEPT ![w] = Matching(s.event) \ s.served]
          /\ failed' = [failed EXCEPT ![w] = FALSE]
    BY <1>4 DEF Begin
  <2>2. UNCHANGED acked
    BY <1>4 DEF Begin, historyVars
  <2> QED BY <1>3, <2>1, <2>2 DEF TypeOK
<1>5. ASSUME NEW w \in Workers, Finish(w) \/ FinishUnreported(w) PROVE Unanswered'
  <2>1. UNCHANGED acked /\ job' = [job EXCEPT ![w] = NoJob] /\ left' = left
          /\ failed' = [failed EXCEPT ![w] = FALSE]
    BY <1>5 DEF Finish, FinishUnreported, historyVars
  <2> QED BY <1>3, <2>1 DEF TypeOK
<1>6. ASSUME NEW w \in Workers, Crash(w) PROVE Unanswered'
  <2>1. UNCHANGED acked /\ job' = [job EXCEPT ![w] = NoJob]
          /\ left' = [left EXCEPT ![w] = {}] /\ failed' = [failed EXCEPT ![w] = FALSE]
    BY <1>6 DEF Crash, historyVars
  <2> QED BY <1>3, <2>1 DEF TypeOK
<1>7. ASSUME NEW w \in Workers, NEW h \in Hooks, Post(w, h) PROVE Unanswered'
  <2> DEFINE e == job[w].event
  <2>1. /\ job' = job /\ job[w] # NoJob /\ h \in left[w]
        /\ left' = [left EXCEPT ![w] = left[w] \ {h}]
        /\ UNCHANGED <<hooks, retired, unreported, overrun>>
    BY <1>7 DEF Post, tableVars
  <2>2. e \in Events /\ AtWork(w, e) /\ Lapsed' = Lapsed
    BY <2>1, JobType DEF AtWork, Lapsed
  <2>3. /\ left'[w] = left[w] \ {h}
        /\ \A v \in Workers : v # w => left'[v] = left[v]
    BY <2>1 DEF TypeOK
  <2>4. \/ /\ acked' = [acked EXCEPT ![e] = acked[e] \cup {h}]
           /\ failed' = failed
        \/ /\ failed' = [failed EXCEPT ![w] = TRUE]
           /\ acked' = acked
    BY <1>7 DEF Post
  <2>5. ASSUME e \notin Lapsed, NEW v \in Workers, job[v] # NoJob, job[v].event = e
        PROVE  v = w
    BY <2>2, <2>5 DEF Lone, HeldBy, Holds, AtWork, Lapsed
  <2> HIDE DEF e
  <2>6. /\ \A f \in Events : f # e => acked'[f] = acked[f]
        /\ acked'[e] \subseteq acked[e] \cup {h}
        /\ \A v \in Workers : v # w => failed'[v] = failed[v]
    BY <2>2, <2>4 DEF TypeOK
  <2> SUFFICES ASSUME NEW v \in Workers, job[v] # NoJob, failed'[v],
                      job[v].event \notin Lapsed
               PROVE  \E g \in Audience[job[v].event] \cap (hooks \cup retired) :
                        g \notin left'[v] \cup acked'[job[v].event]
    BY <1>2, <2>1, <2>2 DEF Unanswered
  <2>7. job[v].event \in Events
    BY JobType
  <2>8. CASE v # w
    <3>1. job[v].event # e
      BY <2>5, <2>8
    <3> QED BY <2>3, <2>6, <2>7, <2>8, <3>1 DEF Unanswered
  <2>9. CASE v = w /\ failed[w]
    <3>1. PICK g \in Audience[e] \cap (hooks \cup retired) : g \notin left[w] \cup acked[e]
      BY <2>1, <2>9 DEF Unanswered, e
    <3>2. g # h
      BY <2>1, <3>1
    <3> QED BY <2>3, <2>6, <2>9, <3>1, <3>2 DEF e
  <2>10. CASE v = w /\ ~failed[w]
    <3>1. acked' = acked
      BY <2>4, <2>10 DEF TypeOK
    <3>2. h \in Audience[e] \cap (hooks \cup retired)
      BY <2>1 DEF Addressed, e
    <3>3. h \notin Answered(w) /\ acked[e] \subseteq Answered(w)
      BY <2>1, <2>10 DEF Lists, Exact, e
    <3> QED BY <2>3, <2>10, <3>1, <3>2, <3>3 DEF e
  <2> QED BY <2>8, <2>9, <2>10 DEF TypeOK
<1>8. CASE UNCHANGED <<job, left, failed, acked>>
  BY <1>1, <1>2, <1>8 DEF Unanswered
<1> QED BY <1>4, <1>5, <1>6, <1>7, <1>8 DEF Next, vars, workerVars, historyVars, Enqueue,
     Purge, Remove, FallDue, CreateWebhook, DeleteWebhook, DeleteProject, Lease, LookupFails

\* What a subscriber is owed is owed to one that is still there.
LEMMA OwedMap ==
  ASSUME TypeOK
  PROVE  /\ DOMAIN StillOwed = Events
         /\ \A e \in Events : StillOwed[e] = owed[e] \cap hooks
BY DEF StillOwed, TypeOK

\* The events the fan-out keeps are the rows.
LEMMA KeptRows == TypeOK => F!Kept = rows
BY DEF F!Kept, Settled, TypeOK

\* A step that leaves the events' fates, subscribers and answers alone is none of
\* the fan-out.
LEMMA FanoutStutter ==
  ASSUME UNCHANGED <<hooks, retired, rows, gone, delivered, parked, historyVars>>
  PROVE  [F!Next]_(F!vars)
<1>1. UNCHANGED Settled /\ UNCHANGED StillOwed
  BY DEF Settled, StillOwed, historyVars
<1> QED BY <1>1 DEF F!vars, F!hookVars, F!eventVars, F!historyVars, historyVars

\* Rows and subscribers that go are forgotten by the fan-out.
LEMMA ForgetStep ==
  ASSUME TypeOK, NEW E \in SUBSET Events, NEW H \in SUBSET Hooks, Remove(E),
         hooks' = hooks \ H, retired' = retired \cup H
  PROVE  F!Forget(E, H)
<1>1. (rows \ Settled)' = (rows \ Settled) \ E
  BY DEF Remove, Settled
<1>2. StillOwed' = [e \in Events |-> IF e \in E THEN {} ELSE StillOwed[e] \ H]
  <2>1. StillOwed' = [e \in Events |-> owed'[e] \cap hooks']
    BY DEF StillOwed
  <2>2. \A e \in Events :
          owed'[e] \cap hooks' = IF e \in E THEN {} ELSE StillOwed[e] \ H
    BY OwedMap DEF Remove
  <2> QED BY <2>1, <2>2
<1> QED BY <1>1, <1>2 DEF F!Forget, F!historyVars, Remove

\* A report is the fan-out's verdict on the event, or says nothing.
LEMMA VerdictStep ==
  ASSUME FInv, NEW w \in Workers, Finish(w)
  PROVE  [F!Next]_(F!vars)
<1> DEFINE e == job[w].event
           H == Answered(w)
<1>t. TypeOK /\ Copies
  BY DEF FInv, IInv
<1>1. /\ job[w] # NoJob /\ left[w] = {} /\ Report(job[w], H, ~failed[w])
      /\ UNCHANGED <<projects, hooks, retired, rows, gone, historyVars>>
  BY DEF Finish, tableVars
<1>2. e \in Events /\ e \in HeldBy(w)
  BY <1>t, FinishLetsGo DEF HeldBy
<1>3. UNCHANGED StillOwed
  BY <1>1 DEF StillOwed, historyVars
<1>4. e \notin overrun => e \notin Settled
  BY <1>2 DEF FInv, IInv, Lone
<1> HIDE DEF e, H
<1>5. CASE UNCHANGED <<delivered, parked>>
  BY <1>1, <1>5, FanoutStutter
<1>6. ASSUME ~failed[w], delivered' = delivered \cup {e}, UNCHANGED parked,
             e \in rows \ delivered
      PROVE  F!Deliver(e)
  <2>1. StillOwed[e] \subseteq acked[e]
    BY <1>t, <1>1, <1>2, <1>6, OwedMap DEF FInv, IInv, Covered, e
  <2>2. e \in rows \ Settled \/ (e \in parked \ delivered /\ e \in overrun)
    BY <1>4, <1>6 DEF Settled
  <2>3. (rows \ Settled)' = (rows \ Settled) \ {e}
    BY <1>1, <1>6 DEF Settled
  <2> QED BY <1>1, <1>3, <1>6, <2>1, <2>2, <2>3
       DEF F!Deliver, F!hookVars, F!historyVars, historyVars
<1>7. ASSUME failed[w], parked' = parked \cup {e}, UNCHANGED delivered,
             e \in rows \ parked
      PROVE  F!Park(e)
  <2>1. Audience[e] \cap (hooks \cup retired) \subseteq acked[e]
          => e \in unreported \cup overrun
    BY <1>1, <1>7 DEF FInv, Unanswered, Lapsed, e
  <2>2. e \in rows \ Settled \/ (e \in delivered \ parked /\ e \in overrun)
    BY <1>4, <1>7 DEF Settled
  <2>3. (rows \ Settled)' = (rows \ Settled) \ {e}
    BY <1>1, <1>7 DEF Settled
  <2> QED BY <1>1, <1>3, <1>7, <2>1, <2>2, <2>3
       DEF F!Park, F!hookVars, F!historyVars, historyVars
<1>8. CASE ~failed[w] /\ MarkDelivered(e)
  BY <1>2, <1>5, <1>6, <1>8 DEF MarkDelivered, F!Next
<1>9. CASE ~~failed[w] /\ Park(job[w], H)
  BY <1>2, <1>5, <1>7, <1>9 DEF Park, F!Next, e
<1>10. CASE Reschedule(job[w], H)
  BY <1>5, <1>10 DEF Reschedule
<1> QED BY <1>1, <1>8, <1>9, <1>10 DEF Report, e

\* A POST of a worker is a POST of the fan-out.
LEMMA PostStep ==
  ASSUME FInv, NEW w \in Workers, NEW h \in Hooks, Post(w, h)
  PROVE  [F!Next]_(F!vars)
<1> DEFINE e == job[w].event
<1>t. TypeOK /\ job[w] # NoJob /\ h \in left[w]
  BY DEF FInv, IInv, Post
<1>1. e \in Events /\ e \in HeldBy(w)
  BY <1>t, JobType DEF HeldBy, Holds, AtWork
<1>2. /\ repeated' = IF h \in acked[e] THEN repeated \cup {e} ELSE repeated
      /\ acked' \in {acked, [acked EXCEPT ![e] = acked[e] \cup {h}]}
      /\ UNCHANGED <<hooks, retired, rows, gone, delivered, parked, owed, unreported, overrun>>
  BY DEF Post, tableVars, rowVars
<1>3. h \in Audience[e] \cap (hooks \cup retired)
  BY <1>t DEF FInv, Addressed
<1>4. h \in acked[e] => e \in unreported \cup overrun
  BY <1>t DEF FInv, IInv, Lists, Exact, Lapsed
<1>5. e \in (rows \ Settled) \cup gone \cup overrun
  BY <1>1 DEF FInv, IInv, Known, Lone
<1>6. UNCHANGED Settled /\ UNCHANGED StillOwed
  BY <1>2 DEF Settled, StillOwed
<1> HIDE DEF e
<1>7. F!Post(e, h)
  BY <1>2, <1>3, <1>4, <1>5, <1>6 DEF F!Post, F!hookVars, F!eventVars
<1> QED BY <1>1, <1>7 DEF F!Next

\* Every step of the outbox is one of the fan-out, or none.
LEMMA FanoutStep ==
  ASSUME FInv, [Next]_vars
  PROVE  [F!Next]_(F!vars)
<1>t. TypeOK /\ Known
  BY DEF FInv, IInv
<1>k. F!Kept = rows
  BY <1>t, KeptRows
<1>1. ASSUME NEW e \in Events, Enqueue(e) PROVE F!Next
  <2>1. /\ e \notin rows \cup gone /\ rows' = rows \cup {e}
        /\ owed' = [owed EXCEPT ![e] = Matching(e)]
        /\ UNCHANGED <<hooks, retired, gone, delivered, parked, acked, repeated,
                       unreported, overrun>>
    BY <1>1 DEF Enqueue
  <2>2. UNCHANGED Settled /\ (rows \ Settled)' = (rows \ Settled) \cup {e}
    BY <1>t, <2>1 DEF Settled, TypeOK
  <2>3. StillOwed' = [StillOwed EXCEPT ![e] = Audience[e] \cap hooks]
    <3>1. StillOwed' = [f \in Events |-> owed'[f] \cap hooks']
      BY DEF StillOwed
    <3>2. \A f \in Events : owed'[f] \cap hooks' =
                              IF f = e THEN Audience[e] \cap hooks ELSE StillOwed[f]
      BY <1>t, <2>1, MatchingAudience, OwedMap DEF TypeOK
    <3> QED BY <1>t, <3>1, <3>2, OwedMap
  <2>4. F!Commit(e)
    BY <1>k, <2>1, <2>2, <2>3 DEF F!Commit, F!hookVars, F!historyVars
  <2> QED BY <2>4 DEF F!Next
<1>2. ASSUME NEW e \in Events, Purge(e) PROVE F!Next
  <2>1. e \in delivered \cup parked /\ F!Forget({e}, {})
    BY <1>t, <1>2, ForgetStep DEF Purge, Settled
  <2>2. F!Sweep(e)
    BY <2>1 DEF F!Sweep
  <2> QED BY <2>2 DEF F!Next
<1>3. ASSUME NEW e \in Events, FallDue(e) PROVE F!Next
  <2> DEFINE O == IF \E w \in Workers : Holds(w, e) THEN {e} ELSE {}
  <2>1. /\ overrun' = overrun \cup O /\ O \in SUBSET Events /\ O \subseteq rows
        /\ UNCHANGED <<hooks, retired, rows, gone, delivered, parked, owed, acked,
                       repeated, unreported>>
    BY <1>3 DEF FallDue, tableVars
  <2>2. UNCHANGED Settled /\ UNCHANGED StillOwed
    BY <2>1 DEF Settled, StillOwed
  <2> HIDE DEF O
  <2>3. F!Excuse({}, O)
    BY <1>k, <2>1, <2>2 DEF F!Excuse, F!hookVars, F!eventVars
  <2> QED BY <2>1, <2>3 DEF F!Next
<1>4. ASSUME NEW h \in Hooks, CreateWebhook(h) PROVE F!Next
  <2>1. /\ h \notin hooks \cup retired /\ hooks' = hooks \cup {h}
        /\ UNCHANGED <<retired, rows, gone, delivered, parked, historyVars>>
    BY <1>4 DEF CreateWebhook, rowVars
  <2>2. UNCHANGED Settled
    BY <2>1 DEF Settled
  <2>3. UNCHANGED StillOwed
    <3>1. \A e \in Events : owed[e] \cap hooks' = owed[e] \cap hooks
      BY <1>t, <2>1 DEF Known
    <3> QED BY <2>1, <3>1 DEF StillOwed, historyVars
  <2>4. F!Subscribe(h)
    BY <2>1, <2>2, <2>3 DEF F!Subscribe, F!eventVars, F!historyVars, historyVars
  <2> QED BY <2>4 DEF F!Next
<1>5. ASSUME NEW h \in Hooks, DeleteWebhook(h) PROVE F!Next
  <2>1. /\ h \in hooks /\ hooks' = hooks \ {h} /\ retired' = retired \cup {h}
        /\ UNCHANGED <<rows, gone, delivered, parked, historyVars>>
    BY <1>5 DEF DeleteWebhook, rowVars
  <2>2. UNCHANGED Settled
    BY <2>1 DEF Settled
  <2>3. StillOwed' = [e \in Events |-> IF e \in {} THEN {} ELSE StillOwed[e] \ {h}]
    <3>1. StillOwed' = [e \in Events |-> owed'[e] \cap hooks']
      BY DEF StillOwed
    <3>2. \A e \in Events : owed'[e] \cap hooks' = StillOwed[e] \ {h}
      BY <1>t, <2>1, OwedMap DEF historyVars
    <3> QED BY <3>1, <3>2
  <2>4. F!Forget({}, {h})
    BY <2>1, <2>2, <2>3 DEF F!Forget, F!historyVars, historyVars
  <2>5. F!Unsubscribe(h)
    BY <2>1, <2>4 DEF F!Unsubscribe
  <2> QED BY <2>5 DEF F!Next
<1>6. ASSUME NEW p \in Projects, DeleteProject(p) PROVE F!Next
  <2> DEFINE E == {e \in rows : ProjectOf[e] = p}
             H == {h \in hooks : Scope[h] = p}
  <2>1. /\ E \in SUBSET Events /\ H \in SUBSET hooks /\ H \in SUBSET Hooks
        /\ Remove(E) /\ hooks' = hooks \ H /\ retired' = retired \cup H
    BY <1>t, <1>6 DEF DeleteProject, TypeOK
  <2>2. E = {e \in F!Kept : ProjectOf[e] = p}
    BY <1>k
  <2> HIDE DEF E, H
  <2>3. F!Forget(E, H)
    BY <1>t, <2>1, ForgetStep
  <2>4. F!DeleteProject(p)
    BY <2>1, <2>2, <2>3 DEF F!DeleteProject
  <2> QED BY <2>4 DEF F!Next
<1>7. ASSUME NEW w \in Workers, Lease(w) \/ Begin(w) \/ LookupFails(w)
      PROVE  [F!Next]_(F!vars)
  <2>1. UNCHANGED <<hooks, retired, rows, gone, delivered, parked, historyVars>>
    BY <1>7 DEF Lease, Begin, LookupFails, Reschedule, tableVars, rowVars
  <2> QED BY <2>1, FanoutStutter
<1>8. ASSUME NEW w \in Workers, NEW U, U \subseteq HeldBy(w), unreported' = unreported \cup U,
             UNCHANGED <<tableVars, rowVars, owed, acked, repeated, overrun>>
      PROVE  F!Next
  <2>1. U \in SUBSET Events /\ U \subseteq rows \cup gone
    BY <1>t, <1>8 DEF HeldBy, Known
  <2>2. UNCHANGED Settled /\ UNCHANGED StillOwed
    BY <1>8 DEF Settled, StillOwed, tableVars, rowVars
  <2>3. F!Excuse(U, {})
    BY <1>k, <1>8, <2>1, <2>2 DEF F!Excuse, F!hookVars, F!eventVars, tableVars, rowVars
  <2> QED BY <2>1, <2>3 DEF F!Next
<1>9. ASSUME NEW w \in Workers, FinishUnreported(w) PROVE F!Next
  <2>1. job[w].event \in HeldBy(w)
    BY <1>t, <1>9, JobType DEF FinishUnreported, HeldBy, Holds, AtWork
  <2> QED BY <1>8, <1>9, <2>1 DEF FinishUnreported
<1>10. ASSUME NEW w \in Workers, Crash(w) PROVE F!Next
  BY <1>8, <1>10 DEF Crash
<1>11. CASE UNCHANGED vars
  BY <1>11, FanoutStutter DEF vars, tableVars, rowVars
<1> QED BY <1>1, <1>2, <1>3, <1>4, <1>5, <1>6, <1>7, <1>9, <1>10, <1>11, PostStep,
           VerdictStep DEF Next

\* The outbox implements the fan-out of Fanout: whatever its workers, leases,
\* retries, crashes and lost reports do, an event is delivered once everyone it is
\* owed to has answered, or parked because someone did not, and POSTed only to who
\* it is for and has not answered, but for the events whose lease or report lapsed.
THEOREM OutboxImplementsFanout == Spec => ImplementsFanout
<1>1. Init => FInv /\ F!Init
  <2> SUFFICES ASSUME Init PROVE FInv /\ F!Init
    OBVIOUS
  <2>1. FInv
    BY InitInv DEF Init, FInv, Addressed, Unanswered
  <2>2. StillOwed = [e \in Events |-> {}]
    BY DEF Init, StillOwed
  <2> QED BY <2>1, <2>2 DEF Init, F!Init, Settled
<1>2. FInv /\ [Next]_vars => FInv'
  BY StepInv, AddressedStep, UnansweredStep DEF FInv, IInv
<1>3. FInv /\ [Next]_vars => [F!Next]_(F!vars)
  BY FanoutStep
<1> QED BY <1>1, <1>2, <1>3, PTL DEF Spec, ImplementsFanout, F!Spec

============================================================================
