------------------------------- MODULE Fanout ------------------------------
(***************************************************************************)
(* What the webhook outbox promises, without workers, leases, copies of    *)
(* rows or attempts: "a retry only re-POSTs to the hooks that failed -     *)
(* never duplicating to ones that already ACKed.  On full success (or no   *)
(* subscribers) the event is marked delivered", and at last it is "parked  *)
(* (a distinct dead-letter state, not delivered)" (webhooks.go,            *)
(* deliverEvent).  An event whose report may be lost, or that two workers  *)
(* may have been at, is excused from part of it.                           *)
(***************************************************************************)
CONSTANTS
  Events, Hooks, Projects,
  ProjectOf,   \* the project of each event
  Audience     \* the subscribers each event is meant for

VARIABLES
  hooks,       \* the subscribers there are
  retired,     \* and those there were
  open,        \* events committed, neither delivered nor parked
  delivered,
  parked,
  dropped,     \* events whose fate is remembered no longer
  owed,        \* of each event: its subscribers when it was committed, while they last
  answers,     \* of each event: the subscribers that have answered
  repeated,    \* events POSTed to a subscriber that had answered
  unsure,      \* events whose outcome may not have been written down
  overlapped   \* events that two workers may have been at

hookVars    == <<hooks, retired>>
eventVars   == <<open, delivered, parked, dropped>>
historyVars == <<repeated, unsure, overlapped>>
vars == <<hookVars, eventVars, owed, answers, historyVars>>

Kept == open \cup delivered \cup parked

Init ==
  /\ hooks = {} /\ retired = {}
  /\ open = {} /\ delivered = {} /\ parked = {} /\ dropped = {}
  /\ owed = [e \in Events |-> {}] /\ answers = [e \in Events |-> {}]
  /\ repeated = {} /\ unsure = {} /\ overlapped = {}

Subscribe(h) ==
  /\ h \notin hooks \cup retired
  /\ hooks' = hooks \cup {h}
  /\ UNCHANGED <<retired, eventVars, owed, answers, historyVars>>

Commit(e) ==
  /\ e \notin Kept \cup dropped
  /\ open' = open \cup {e}
  /\ owed' = [owed EXCEPT ![e] = Audience[e] \cap hooks]
  /\ UNCHANGED <<hookVars, delivered, parked, dropped, answers, historyVars>>

\* A POST is of an event that is not settled, to one of its audience, and not a
\* second time to who has answered.
Post(e, h) ==
  /\ e \in open \cup dropped \cup overlapped
  /\ h \in Audience[e] \cap (hooks \cup retired)
  /\ h \in answers[e] => e \in unsure \cup overlapped
  /\ repeated' = IF h \in answers[e] THEN repeated \cup {e} ELSE repeated
  /\ answers' \in {answers, [answers EXCEPT ![e] = answers[e] \cup {h}]}
  /\ UNCHANGED <<hookVars, eventVars, owed, unsure, overlapped>>

\* Delivered is what everyone it is owed to has answered.
Deliver(e) ==
  /\ e \in open \/ (e \in parked \ delivered /\ e \in overlapped)
  /\ owed[e] \subseteq answers[e]
  /\ open' = open \ {e}
  /\ delivered' = delivered \cup {e}
  /\ UNCHANGED <<hookVars, parked, dropped, owed, answers, historyVars>>

\* Parked is what some subscriber it is meant for has not answered.
Park(e) ==
  /\ e \in open \/ (e \in delivered \ parked /\ e \in overlapped)
  /\ Audience[e] \cap (hooks \cup retired) \subseteq answers[e]
       => e \in unsure \cup overlapped
  /\ open' = open \ {e}
  /\ parked' = parked \cup {e}
  /\ UNCHANGED <<hookVars, delivered, dropped, owed, answers, historyVars>>

\* Events E are forgotten, and the subscribers H leave.
Forget(E, H) ==
  /\ hooks' = hooks \ H /\ retired' = retired \cup H
  /\ open' = open \ E /\ delivered' = delivered \ E /\ parked' = parked \ E
  /\ dropped' = dropped \cup E
  /\ owed' = [e \in Events |-> IF e \in E THEN {} ELSE owed[e] \ H]
  /\ UNCHANGED <<answers, historyVars>>

\* Nothing is forgotten before it is settled, but for what goes with its project.
Sweep(e)         == e \in delivered \cup parked /\ Forget({e}, {})
Unsubscribe(h)   == h \in hooks /\ Forget({}, {h})
DeleteProject(p) == \E H \in SUBSET hooks : Forget({e \in Kept : ProjectOf[e] = p}, H)

Excuse(U, O) ==
  /\ U \cup O \subseteq Kept \cup dropped
  /\ unsure' = unsure \cup U
  /\ overlapped' = overlapped \cup O
  /\ UNCHANGED <<hookVars, eventVars, owed, answers, repeated>>

Next ==
  \/ \E e \in Events : Commit(e) \/ Deliver(e) \/ Park(e) \/ Sweep(e)
  \/ \E e \in Events, h \in Hooks : Post(e, h)
  \/ \E h \in Hooks : Subscribe(h) \/ Unsubscribe(h)
  \/ \E p \in Projects : DeleteProject(p)
  \/ \E U, O \in SUBSET Events : Excuse(U, O)

Spec == Init /\ [][Next]_vars

============================================================================
