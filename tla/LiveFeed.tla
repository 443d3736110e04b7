------------------------------ MODULE LiveFeed ------------------------------
(***************************************************************************)
(* Live updates of open browsers (service/hub.go, enqueue in webhooks.go,  *)
(* api/stream.go, useLiveUpdates in web/src/App.tsx).  A write broadcasts  *)
(* its event inside its transaction, before the commit; a subscriber whose *)
(* buffer is full is skipped.  A browser answers each frame with a refetch *)
(* of what it shows.  It does not refetch when it reconnects.  A refetch   *)
(* reads the tables here; one of the project's context goes through the    *)
(* orient cache, and can be older by what CacheFresh of module OrientCache *)
(* excuses.                                                                *)
(***************************************************************************)
EXTENDS Naturals

CONSTANTS
  Browsers,
  Writers,    \* transactions that can be open at once
  Buffer,     \* capacity of a subscriber's channel, 64 in the code
  MaxCommits  \* bound: commits

ASSUME FeedAssumption == Buffer \in Nat \ {0} /\ MaxCommits \in Nat

VARIABLES
  version,   \* commits so far
  announced, \* the last of them that was broadcast
  tx,        \* of each writer: [at, since]: browsers that fetched or subscribed since its event
  sub,       \* the subscribed browsers
  frames,    \* of each browser: frames in its channel
  fetching,  \* browsers that are to refetch
  view,      \* the version a browser shows
  behind     \* history: browsers nothing will tell of a commit they have not fetched

feedVars == <<version, announced, tx, sub, frames, fetching, view, behind>>

FeedTypeOK ==
  /\ version \in 0..MaxCommits /\ announced \in 0..version
  /\ tx \in [Writers -> [at : {"none", "open", "told"}, since : SUBSET Browsers]]
  /\ sub \subseteq Browsers /\ fetching \subseteq Browsers /\ behind \subseteq Browsers
  /\ frames \in [Browsers -> 0..Buffer]
  /\ view \in [Browsers -> 0..version]

NoTx == [at |-> "none", since |-> {}]

FeedInit ==
  /\ version = 0 /\ announced = 0
  /\ tx = [w \in Writers |-> NoTx]
  /\ sub = {} /\ fetching = {} /\ behind = {}
  /\ frames = [b \in Browsers |-> 0] /\ view = [b \in Browsers |-> 0]

-----------------------------------------------------------------------------
\* Mutant: a full channel takes another frame.
BroadcastUnbounded ==
  frames' = [b \in Browsers |-> IF b \in sub THEN frames[b] + 1 ELSE frames[b]]

\* Broadcast, under the hub's lock: a full channel is skipped.
Broadcast ==
  frames' = [b \in Browsers |->
              IF b \in sub /\ frames[b] < Buffer THEN frames[b] + 1 ELSE frames[b]]

Begin(w) ==
  /\ tx[w].at = "none" /\ version < MaxCommits
  /\ tx' = [tx EXCEPT ![w].at = "open"]
  /\ UNCHANGED <<version, announced, sub, frames, fetching, view, behind>>

\* enqueue
Enqueue(w) ==
  /\ tx[w].at = "open"
  /\ Broadcast
  /\ tx' = [tx EXCEPT ![w].at = "told"]
  /\ UNCHANGED <<version, announced, sub, fetching, view, behind>>

\* At rest, a browser has nothing that makes it fetch again.
AtRest(b) == b \in sub /\ frames[b] = 0 /\ b \notin fetching

\* A write that announced itself commits.  A browser that fetched, or subscribed, since
\* the event shows the state before it.
Commit(w) ==
  /\ tx[w].at = "told" /\ version < MaxCommits
  /\ version' = version + 1
  /\ announced' = version'
  /\ tx' = [tx EXCEPT ![w] = NoTx]
  /\ behind' = behind \cup {b \in tx[w].since : AtRest(b)}
  /\ UNCHANGED <<sub, frames, fetching, view>>

\* A write that announces nothing: an update that keeps the status, a delete.
CommitSilently(w) ==
  /\ tx[w].at = "open" /\ version < MaxCommits
  /\ version' = version + 1
  /\ tx' = [tx EXCEPT ![w] = NoTx]
  /\ UNCHANGED <<announced, sub, frames, fetching, view, behind>>

Rollback(w) ==
  /\ tx[w].at # "none"
  /\ tx' = [tx EXCEPT ![w] = NoTx]
  /\ UNCHANGED <<version, announced, sub, frames, fetching, view, behind>>

\* The sync engine has applied a peer's changes and then says so (InvalidateProject).
InvalidateProject ==
  /\ version < MaxCommits
  /\ version' = version + 1 /\ announced' = version'
  /\ Broadcast
  /\ UNCHANGED <<tx, sub, fetching, view, behind>>

-----------------------------------------------------------------------------
FetchedSince(b) ==
  tx' = [w \in Writers |-> IF tx[w].at = "told" THEN [tx[w] EXCEPT !.since = @ \cup {b}] ELSE tx[w]]

\* The stream opens, after the page's first fetch or again after a drop.
Subscribe(b) ==
  /\ b \notin sub
  /\ sub' = sub \cup {b}
  /\ behind' = IF view[b] < announced /\ b \notin fetching THEN behind \cup {b} ELSE behind
  /\ FetchedSince(b)
  /\ UNCHANGED <<version, announced, frames, fetching, view>>

\* The client goes away, or a frame cannot be written to it.
Unsubscribe(b) ==
  /\ b \in sub
  /\ sub' = sub \ {b}
  /\ frames' = [frames EXCEPT ![b] = 0]
  /\ UNCHANGED <<version, announced, tx, fetching, view, behind>>

\* Mutant: a frame is read and nothing is invalidated.
FrameIgnored(b) ==
  /\ frames[b] > 0
  /\ frames' = [frames EXCEPT ![b] = @ - 1]
  /\ UNCHANGED <<version, announced, tx, sub, fetching, view, behind>>

\* A frame arrives and invalidates what the page shows.
Frame(b) ==
  /\ frames[b] > 0
  /\ frames' = [frames EXCEPT ![b] = @ - 1]
  /\ fetching' = fetching \cup {b}
  /\ UNCHANGED <<version, announced, tx, sub, view, behind>>

\* The page's first load, or its window gets the focus.
Focus(b) ==
  /\ fetching' = fetching \cup {b}
  /\ UNCHANGED <<version, announced, tx, sub, frames, view, behind>>

Refetch(b) ==
  /\ b \in fetching
  /\ view' = [view EXCEPT ![b] = version]
  /\ fetching' = fetching \ {b}
  /\ behind' = behind \ {b}
  /\ FetchedSince(b)
  /\ UNCHANGED <<version, announced, sub, frames>>

FeedNext ==
  \/ \E w \in Writers :
       Begin(w) \/ Enqueue(w) \/ Commit(w) \/ CommitSilently(w) \/ Rollback(w)
  \/ InvalidateProject
  \/ \E b \in Browsers : Subscribe(b) \/ Unsubscribe(b) \/ Frame(b) \/ Focus(b) \/ Refetch(b)

FeedSpec == FeedInit /\ [][FeedNext]_feedVars

-----------------------------------------------------------------------------
\* A connected browser at rest shows the last announced write, unless it fetched
\* between that write's event and its commit, or connected after the event: a full
\* buffer costs it nothing, for the frames before the dropped one are still to come.
LiveViewCurrent ==
  \A b \in Browsers : AtRest(b) /\ b \notin behind => view[b] >= announced
=============================================================================
