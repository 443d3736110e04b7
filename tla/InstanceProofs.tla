--------------------------- MODULE InstanceProofs ---------------------------
(***************************************************************************)
(* Proofs about what an instance tells others and knows of itself, for any *)
(* number of browsers, instances, mailboxes, requests and calls: the live  *)
(* view of a browser, the two ends of a share, the settings and the first  *)
(* run wizard, the usage report.                                           *)
(***************************************************************************)
EXTENDS LiveFeed, Shares, Settings, Usage, FiniteSetTheorems, TLAPS

----------------------------------------------------------------------------
(* Live updates. *)

\* Whoever an open transaction has told, and who has not fetched or subscribed since,
\* has still to fetch.
ToldNotAtRest ==
  \A w \in Writers, b \in Browsers :
    tx[w].at = "told" /\ b \notin tx[w].since => ~AtRest(b)

FeedInv == FeedTypeOK /\ LiveViewCurrent /\ ToldNotAtRest

LEMMA FeedFacts ==
  ASSUME FeedTypeOK
  PROVE  /\ version \in Nat /\ announced \in Nat /\ announced <= version
         /\ \A b \in Browsers : frames[b] \in Nat /\ view[b] \in Nat /\ view[b] <= version
         /\ \A w \in Writers : /\ tx[w].at \in {"none", "open", "told"}
                               /\ tx[w].since \subseteq Browsers
BY FeedAssumption DEF FeedTypeOK

\* A broadcast leaves no subscriber at rest.
LEMMA BroadcastFacts ==
  ASSUME FeedTypeOK, Broadcast
  PROVE  /\ frames' \in [Browsers -> 0..Buffer]
         /\ \A b \in Browsers : frames[b] # 0 => frames'[b] # 0
         /\ \A b \in sub : frames'[b] # 0
BY FeedAssumption DEF FeedTypeOK, Broadcast

\* Who has fetched is counted as having fetched since every event.
LEMMA FetchedFacts ==
  ASSUME FeedTypeOK, NEW b \in Browsers, FetchedSince(b)
  PROVE  /\ tx' \in [Writers -> [at : {"none", "open", "told"}, since : SUBSET Browsers]]
         /\ \A w \in Writers :
              /\ tx'[w].at = tx[w].at /\ tx[w].since \subseteq tx'[w].since
              /\ tx[w].at = "told" => b \in tx'[w].since
<1>1. ASSUME NEW w \in Writers
      PROVE  /\ tx'[w] \in [at : {"none", "open", "told"}, since : SUBSET Browsers]
             /\ tx'[w].at = tx[w].at /\ tx[w].since \subseteq tx'[w].since
             /\ tx[w].at = "told" => b \in tx'[w].since
  <2>1. tx[w] \in [at : {"none", "open", "told"}, since : SUBSET Browsers]
    BY DEF FeedTypeOK
  <2>2. tx'[w] = IF tx[w].at = "told" THEN [tx[w] EXCEPT !.since = @ \cup {b}] ELSE tx[w]
    BY DEF FetchedSince
  <2> QED BY <2>1, <2>2
<1>2. tx' = [w \in Writers |-> tx'[w]]
  BY DEF FetchedSince
<1> QED BY <1>1, <1>2

LEMMA FeedStep == FeedInv /\ [FeedNext]_feedVars => FeedInv'
<1> SUFFICES ASSUME FeedInv, [FeedNext]_feedVars PROVE FeedInv'
  OBVIOUS
<1>t. FeedTypeOK /\ LiveViewCurrent /\ ToldNotAtRest
  BY DEF FeedInv
<1>n. NoTx \in [at : {"none", "open", "told"}, since : SUBSET Browsers] /\ NoTx.at = "none"
  BY DEF NoTx
<1> USE FeedFacts, FeedAssumption DEF FeedInv, AtRest
<1>1. ASSUME NEW w \in Writers, Begin(w) PROVE FeedInv'
  BY <1>1, <1>t DEF Begin, FeedTypeOK, LiveViewCurrent, ToldNotAtRest
<1>2. ASSUME NEW w \in Writers, Enqueue(w) PROVE FeedInv'
  <2>1. FeedTypeOK'
    BY <1>2, <1>t, BroadcastFacts DEF Enqueue, FeedTypeOK
  <2>2. \A v \in Writers : tx'[v].since = tx[v].since /\ (v # w => tx'[v] = tx[v])
    BY <1>2, <1>t DEF Enqueue, FeedTypeOK
  <2>3. LiveViewCurrent' /\ ToldNotAtRest'
    BY <1>2, <1>t, <2>2, BroadcastFacts DEF Enqueue, LiveViewCurrent, ToldNotAtRest
  <2> QED BY <2>1, <2>3
<1>3. ASSUME NEW w \in Writers, Commit(w) PROVE FeedInv'
  <2>1. FeedTypeOK'
    BY <1>3, <1>t, <1>n DEF Commit, FeedTypeOK
  <2>2. LiveViewCurrent'
    BY <1>3, <1>t DEF Commit, LiveViewCurrent, ToldNotAtRest
  <2>3. ToldNotAtRest'
    BY <1>3, <1>t, <1>n DEF Commit, ToldNotAtRest, FeedTypeOK
  <2> QED BY <2>1, <2>2, <2>3
<1>4. ASSUME NEW w \in Writers, CommitSilently(w) \/ Rollback(w) PROVE FeedInv'
  <2>1. /\ tx' = [tx EXCEPT ![w] = NoTx] /\ version' \in {version, version + 1}
        /\ version' \in 0..MaxCommits
        /\ UNCHANGED <<announced, sub, frames, fetching, view, behind>>
    BY <1>4, <1>t DEF CommitSilently, Rollback, FeedTypeOK
  <2> QED BY <1>t, <1>n, <2>1 DEF FeedTypeOK, LiveViewCurrent, ToldNotAtRest
<1>5. CASE InvalidateProject
  <2>1. FeedTypeOK'
    BY <1>5, <1>t, BroadcastFacts DEF InvalidateProject, FeedTypeOK
  <2> QED BY <1>5, <1>t, <2>1, BroadcastFacts DEF InvalidateProject, LiveViewCurrent, ToldNotAtRest
<1>6. ASSUME NEW b \in Browsers, Subscribe(b) PROVE FeedInv'
  <2>1. /\ sub' = sub \cup {b} /\ FetchedSince(b)
        /\ UNCHANGED <<version, announced, frames, fetching, view>>
        /\ behind \subseteq behind' /\ behind' \subseteq behind \cup {b}
        /\ view[b] < announced /\ b \notin fetching => b \in behind'
    BY <1>6 DEF Subscribe
  <2>2. FeedTypeOK'
    BY <1>t, <2>1, FetchedFacts DEF FeedTypeOK
  <2> QED BY <1>t, <2>1, <2>2, FetchedFacts DEF LiveViewCurrent, ToldNotAtRest
<1>7. ASSUME NEW b \in Browsers, Unsubscribe(b) \/ Frame(b) \/ Focus(b) PROVE FeedInv'
  <2>1. UNCHANGED <<version, announced, tx, view, behind>>
    BY <1>7 DEF Unsubscribe, Frame, Focus
  <2>2. FeedTypeOK'
    BY <1>7, <1>t, <2>1 DEF Unsubscribe, Frame, Focus, FeedTypeOK
  <2>3. \A c \in Browsers : AtRest(c)' => AtRest(c)
    BY <1>7, <1>t DEF Unsubscribe, Frame, Focus, FeedTypeOK
  <2> QED BY <1>t, <2>1, <2>2, <2>3 DEF LiveViewCurrent, ToldNotAtRest
<1>8. ASSUME NEW b \in Browsers, Refetch(b) PROVE FeedInv'
  <2>1. FeedTypeOK'
    BY <1>8, <1>t, FetchedFacts DEF Refetch, FeedTypeOK
  <2> QED BY <1>8, <1>t, <2>1, FetchedFacts
          DEF Refetch, LiveViewCurrent, ToldNotAtRest, FeedTypeOK
<1>9. CASE UNCHANGED feedVars
  BY <1>9, <1>t DEF feedVars, FeedTypeOK, LiveViewCurrent, ToldNotAtRest
<1> QED BY <1>1, <1>2, <1>3, <1>4, <1>5, <1>6, <1>7, <1>8, <1>9 DEF FeedNext

\* The invariant of the live views.
LEMMA FeedInvariant == FeedSpec => []FeedInv
<1>1. FeedInit => FeedInv
  BY FeedAssumption
     DEF FeedInit, FeedInv, FeedTypeOK, LiveViewCurrent, ToldNotAtRest, NoTx, AtRest
<1> QED BY <1>1, FeedStep, PTL DEF FeedSpec

\* A connected browser at rest shows the last announced write, unless it fetched or
\* connected between that write's event and its commit.
THEOREM ViewsCatchUp == FeedSpec => []LiveViewCurrent
<1>1. FeedInv => LiveViewCurrent
  BY DEF FeedInv
<1> QED BY <1>1, FeedInvariant, PTL

----------------------------------------------------------------------------
(* The two ends of a share. *)

Ends == shares \cup invites

EndOf(x) == {x.send, x.recv}

\* An end's two mailboxes were created, and its key is that of one of them.
EndOK(x) == EndOf(x) \subseteq 1..created /\ x.send # x.recv /\ x.key \in EndOf(x)

\* Ends with one key are of one pair of mailboxes; ends with two keys share none.
Paired(x, y) ==
  IF x.key = y.key THEN x.url = y.url /\ EndOf(x) = EndOf(y) ELSE EndOf(x) \cap EndOf(y) = {}

\* The mailboxes a ShareProject call has created and not yet put in a row.
HeldOf(x) ==
  IF x.at = "theirs" THEN {x.ours} ELSE IF x.at = "row" THEN {x.ours, x.theirs} ELSE {}

Held(i) == HeldOf(sharing[i])

HeldApart ==
  \A i \in Instances :
    /\ Held(i) \subseteq 1..created
    /\ \A x \in Ends : Held(i) \cap EndOf(x) = {}
    /\ \A j \in Instances : j # i => Held(i) \cap Held(j) = {}
    /\ sharing[i].at = "row" => sharing[i].ours # sharing[i].theirs
    /\ sharing[i].at # "idle" => sharing[i].project \in ShareProjects /\ sharing[i].url \in Hosts

\* A share has one sharer; each joiner accepted its invite.
OneSharer ==
  \A s, t \in shares : s.key = t.key /\ s.recv = s.key /\ t.recv = t.key => s = t

JoinersAccepted ==
  \A s \in shares : s.send = s.key =>
    /\ accepted[s.key] >= 1
    /\ \A t \in shares : t.key = s.key /\ t.send = t.key /\ t # s => accepted[s.key] >= 2

SharesInv ==
  /\ SharesTypeOK
  /\ \A x \in Ends : EndOK(x) /\ \A y \in Ends : Paired(x, y)
  /\ \A v \in invites : v.send = v.key
  /\ HeldApart /\ OneSharer /\ JoinersAccepted

LEMMA StepFacts ==
  ASSUME SharesTypeOK, NEW i \in Instances
  PROVE  /\ sharing[i] \in Step /\ sharing[i].url \in AnyHost /\ sharing[i].creds \in AnyHost
         /\ sharing[i].ours \in 0..MaxBoxes /\ sharing[i].theirs \in 0..MaxBoxes
         /\ sharing[i].at \in {"idle", "read", "ours", "theirs", "row"}
         /\ config[i]["url"] \in AnyHost /\ config[i]["creds"] \in AnyHost
BY DEF SharesTypeOK, Step, Parts

LEMMA NoStepFacts == NoStep \in Step /\ NoStep.at = "idle"
BY SharesAssumption DEF NoStep, Step, AnyHost

LEMMA EndFields ==
  ASSUME SharesTypeOK
  PROVE  /\ created \in Nat
         /\ \A s \in shares : /\ s.inst \in Instances /\ s.project \in ShareProjects /\ s.url \in Hosts
                              /\ s.send \in Boxes /\ s.recv \in Boxes /\ s.key \in Boxes
                              /\ s.enabled \in BOOLEAN
         /\ \A v \in invites : /\ v.url \in Hosts /\ v.send \in Boxes
                               /\ v.recv \in Boxes /\ v.key \in Boxes
BY SharesAssumption DEF SharesTypeOK, Share, Invite

\* A ShareProject call moves on; what it holds stays apart from the rest.
LEMMA ToFacts ==
  ASSUME SharesTypeOK, NEW i \in Instances, NEW x \in Step, To(i, x)
  PROVE  /\ sharing' \in [Instances -> Step] /\ sharing'[i] = x
         /\ \A j \in Instances : j # i => sharing'[j] = sharing[j]
BY DEF SharesTypeOK, To

LEMMA ConfigSteps ==
  ASSUME SharesInv, NEW i \in Instances,
         \/ \E h \in Hosts : PutConfig(i, h)
         \/ \E p \in Parts : SetMailboxConfig(i, p)
         \/ PutFails(i)
  PROVE  SharesInv'
<1>t. SharesTypeOK /\ puts \in 0..MaxPuts /\ putting \in [Instances -> [todo : SUBSET Parts, url : AnyHost]]
  BY DEF SharesInv, SharesTypeOK
<1>u. UNCHANGED <<boxes, created, sharing, shares, invites, accepted>>
  BY DEF PutConfig, SetMailboxConfig, PutFails, hostVars
<1>1. SharesTypeOK'
  <2>1. ASSUME NEW h \in Hosts, PutConfig(i, h) PROVE SharesTypeOK'
    <3>1. [todo |-> Parts, url |-> h] \in [todo : SUBSET Parts, url : AnyHost]
      BY DEF AnyHost
    <3>2. putting' \in [Instances -> [todo : SUBSET Parts, url : AnyHost]] /\ puts' \in 0..MaxPuts
          /\ config' = config
      BY <1>t, <2>1, <3>1, SharesAssumption DEF PutConfig
    <3> QED BY <1>t, <1>u, <3>2 DEF SharesTypeOK
  <2>2. ASSUME NEW p \in Parts, SetMailboxConfig(i, p) PROVE SharesTypeOK'
    <3>1. [config[i] EXCEPT ![p] = putting[i].url] \in [Parts -> AnyHost]
      BY <1>t DEF SharesTypeOK
    <3>2. config' = [config EXCEPT ![i] = [config[i] EXCEPT ![p] = putting[i].url]]
      BY <2>2 DEF SetMailboxConfig
    <3>3. config' \in [Instances -> [Parts -> AnyHost]]
      BY <1>t, <3>1, <3>2 DEF SharesTypeOK
    <3>4. putting' \in [Instances -> [todo : SUBSET Parts, url : AnyHost]] /\ puts' = puts
      BY <1>t, <2>2 DEF SetMailboxConfig
    <3> QED BY <1>t, <1>u, <3>3, <3>4 DEF SharesTypeOK
  <2>3. CASE PutFails(i)
    <3>1. putting' \in [Instances -> [todo : SUBSET Parts, url : AnyHost]] /\ UNCHANGED <<config, puts>>
      BY <1>t, <2>3 DEF PutFails
    <3> QED BY <1>t, <1>u, <3>1 DEF SharesTypeOK
  <2> QED BY <2>1, <2>2, <2>3
<1>2. Ends' = Ends
  BY <1>u DEF Ends
<1>3. HeldApart'
  BY <1>u, <1>2 DEF SharesInv, HeldApart, Held, EndOf
<1>4. \A x \in Ends' : EndOK(x)' /\ \A y \in Ends' : Paired(x, y)'
  BY <1>u, <1>2 DEF SharesInv, EndOK, Paired
<1>5. OneSharer' /\ JoinersAccepted' /\ \A v \in invites' : v.send = v.key
  BY <1>u DEF SharesInv, OneSharer, JoinersAccepted
<1> QED BY <1>1, <1>3, <1>4, <1>5 DEF SharesInv

\* Steps of a ShareProject call that holds nothing when they are done.
LEMMA EmptyHanded ==
  ASSUME SharesInv, NEW i \in Instances, NEW x \in Step, To(i, x), HeldOf(x) = {}, x.at # "row",
         x.at # "idle" => x.project \in ShareProjects /\ x.url \in Hosts,
         UNCHANGED <<configVars, hostVars, shares, invites, accepted>>
  PROVE  SharesInv'
<1>t. SharesTypeOK /\ HeldApart
  BY DEF SharesInv
<1>1. /\ sharing' \in [Instances -> Step] /\ sharing'[i] = x
      /\ \A j \in Instances : j # i => sharing'[j] = sharing[j]
  BY <1>t, ToFacts
<1>2. SharesTypeOK'
  BY <1>t, <1>1 DEF SharesTypeOK, configVars, hostVars
<1>3. /\ \A j \in Instances : j # i => Held(j)' = Held(j)
      /\ Held(i)' = {}
  BY <1>1 DEF Held
<1>4. HeldApart'
  BY <1>t, <1>1, <1>3 DEF HeldApart, Ends, EndOf, hostVars
<1> QED BY <1>2, <1>4 DEF SharesInv, Ends, EndOK, Paired, EndOf, OneSharer, JoinersAccepted, hostVars

LEMMA ReadSteps ==
  ASSUME SharesInv, NEW i \in Instances,
         \/ \E p \in ShareProjects : ShareProject(i, p)
         \/ ReadCredentials(i) \/ ShareFails(i)
  PROVE  SharesInv'
<1>t. SharesTypeOK /\ HeldApart /\ sharing[i] \in Step
  BY StepFacts DEF SharesInv
<1>n. NoStep \in Step /\ HeldOf(NoStep) = {} /\ NoStep.at = "idle"
  BY NoStepFacts DEF HeldOf
<1>1. ASSUME NEW p \in ShareProjects, ShareProject(i, p) PROVE SharesInv'
  <2> DEFINE h == config[i]["url"]
             x == [NoStep EXCEPT !.at = "read", !.project = p, !.url = h]
  <2>1. h \in Hosts
    BY <1>t, <1>1, StepFacts DEF ShareProject, AnyHost
  <2>2. To(i, x)
    BY <1>1 DEF ShareProject
  <2> HIDE DEF h
  <2>3. x \in Step /\ x.at = "read" /\ x.project = p /\ x.url = h
    BY <1>n, <2>1 DEF Step, AnyHost
  <2> HIDE DEF x
  <2>4. HeldOf(x) = {}
    BY <2>3 DEF HeldOf
  <2> QED BY <1>1, <2>1, <2>2, <2>3, <2>4, EmptyHanded DEF ShareProject
<1>2. CASE ReadCredentials(i)
  <2> DEFINE x == [sharing[i] EXCEPT !.at = "ours", !.creds = config[i]["creds"]]
  <2>1. config[i]["creds"] \in AnyHost /\ sharing[i].project \in ShareProjects /\ sharing[i].url \in Hosts
    BY <1>t, <1>2, StepFacts DEF ReadCredentials, HeldApart
  <2>2. To(i, NoStep) \/ To(i, x)
    BY <1>2 DEF ReadCredentials
  <2>3. x \in Step /\ x.at = "ours" /\ x.project = sharing[i].project /\ x.url = sharing[i].url
    BY <1>t, <2>1 DEF Step
  <2> HIDE DEF x
  <2>4. HeldOf(x) = {}
    BY <2>3 DEF HeldOf
  <2> QED BY <1>2, <1>n, <2>1, <2>2, <2>3, <2>4, EmptyHanded DEF ReadCredentials
<1>3. CASE ShareFails(i)
  BY <1>3, <1>n, EmptyHanded DEF ShareFails
<1> QED BY <1>1, <1>2, <1>3

LEMMA CreateMailboxStep ==
  ASSUME SharesInv, NEW i \in Instances, CreateMailbox(i)
  PROVE  SharesInv'
<1>t. /\ SharesTypeOK /\ HeldApart /\ sharing[i] \in Step /\ created \in Nat
      /\ \A x \in Ends : EndOK(x) /\ \A y \in Ends : Paired(x, y)
  BY StepFacts, EndFields DEF SharesInv
<1> DEFINE n == created + 1
           x == [sharing[i] EXCEPT !.at = "theirs", !.ours = n]
           y == [sharing[i] EXCEPT !.at = "row", !.theirs = n]
<1>u. /\ created' = n /\ n \in 1..MaxBoxes /\ sharing[i].at \in {"ours", "theirs"}
      /\ boxes' = [boxes EXCEPT ![n] = sharing[i].url]
      /\ \/ sharing[i].at = "ours" /\ To(i, x)
         \/ sharing[i].at = "theirs" /\ To(i, y)
      /\ UNCHANGED <<config, putting, puts, shares, invites, accepted>>
  BY <1>t, SharesAssumption DEF CreateMailbox, configVars, SharesTypeOK
<1> HIDE DEF n
<1>x. /\ x \in Step /\ x.at = "theirs" /\ x.ours = n /\ x.project = sharing[i].project
      /\ x.url = sharing[i].url
  <2>1. n \in 0..MaxBoxes /\ "theirs" \in {"idle", "read", "ours", "theirs", "row"}
    BY <1>u
  <2> QED BY <1>t, <2>1 DEF Step
<1>y. /\ y \in Step /\ y.at = "row" /\ y.ours = sharing[i].ours /\ y.theirs = n
      /\ y.project = sharing[i].project /\ y.url = sharing[i].url
  <2>1. n \in 0..MaxBoxes /\ "row" \in {"idle", "read", "ours", "theirs", "row"}
    BY <1>u
  <2> QED BY <1>t, <2>1 DEF Step
<1> HIDE DEF x, y
<1>n. n = created + 1 /\ n \notin 1..created /\ \A m \in 1..created : m \in 1..n
  BY <1>t DEF n
<1>1. \E z \in Step :
        /\ To(i, z) /\ HeldOf(z) \subseteq Held(i) \cup {n}
        /\ z.at = "row" => z.ours # z.theirs
        /\ z.project = sharing[i].project /\ z.url = sharing[i].url
  <2>1. CASE sharing[i].at = "ours" /\ To(i, x)
    BY <2>1, <1>x DEF HeldOf, Held
  <2>2. CASE sharing[i].at = "theirs" /\ To(i, y)
    <3>1. sharing[i].ours \in Held(i) /\ Held(i) \subseteq 1..created
      BY <1>t, <2>2 DEF HeldOf, Held, HeldApart
    <3>2. sharing[i].ours # n /\ HeldOf(y) = {sharing[i].ours, n}
      BY <1>y, <1>n, <3>1 DEF HeldOf
    <3> QED BY <2>2, <1>y, <3>1, <3>2
  <2> QED BY <1>u, <2>1, <2>2
<1>2. PICK z \in Step :
        /\ To(i, z) /\ HeldOf(z) \subseteq Held(i) \cup {n}
        /\ z.at = "row" => z.ours # z.theirs
        /\ z.project = sharing[i].project /\ z.url = sharing[i].url
  BY <1>1
<1>3. /\ sharing' \in [Instances -> Step] /\ sharing'[i] = z
      /\ \A j \in Instances : j # i => sharing'[j] = sharing[j]
  BY <1>t, <1>2, ToFacts
<1>4. SharesTypeOK'
  <2>1. boxes' \in [Boxes -> AnyHost]
    BY <1>t, <1>u, StepFacts DEF SharesTypeOK
  <2> QED BY <1>t, <1>u, <1>3, <2>1 DEF SharesTypeOK
<1>5. Held(i)' \subseteq Held(i) \cup {n} /\ \A j \in Instances : j # i => Held(j)' = Held(j)
  BY <1>2, <1>3 DEF Held
<1>6. \A e \in Ends : EndOf(e) \subseteq 1..created /\ n \notin EndOf(e)
  BY <1>t, <1>n DEF EndOK
<1>7. HeldApart'
  <2>1. ASSUME NEW j \in Instances
        PROVE  /\ Held(j)' \subseteq 1..n
               /\ \A e \in Ends : Held(j)' \cap EndOf(e) = {}
               /\ \A k \in Instances : k # j => Held(j)' \cap Held(k)' = {}
    <3>1. \A k \in Instances : Held(k) \subseteq 1..created /\ n \notin Held(k)
      BY <1>t, <1>n DEF HeldApart
    <3> QED BY <1>t, <1>n, <1>5, <1>6, <3>1 DEF HeldApart
  <2>2. ASSUME NEW j \in Instances
        PROVE  /\ sharing'[j].at = "row" => sharing'[j].ours # sharing'[j].theirs
               /\ sharing'[j].at # "idle" =>
                    sharing'[j].project \in ShareProjects /\ sharing'[j].url \in Hosts
    BY <1>t, <1>u, <1>2, <1>3 DEF HeldApart
  <2>3. Ends' = Ends
    BY <1>u DEF Ends
  <2> QED BY <1>u, <2>1, <2>2, <2>3 DEF HeldApart, EndOf
<1>8. \A e \in Ends' : EndOK(e)' /\ \A f \in Ends' : Paired(e, f)'
  <2>1. Ends' = Ends /\ created' = n
    BY <1>u DEF Ends
  <2>2. \A e \in Ends : EndOK(e)'
    BY <1>t, <1>n, <2>1 DEF EndOK, EndOf
  <2> QED BY <1>t, <2>1, <2>2 DEF Paired, EndOf
<1> QED BY <1>4, <1>7, <1>8, <1>u DEF SharesInv, OneSharer, JoinersAccepted

LEMMA OwnEndFields ==
  ASSUME SharesTypeOK, HeldApart, NEW i \in Instances, sharing[i].at = "row"
  PROVE  /\ Held(i) = {sharing[i].ours, sharing[i].theirs} /\ sharing[i].ours # sharing[i].theirs
         /\ OwnEnd(i) \in Share /\ InviteOf(i) \in Invite
         /\ EndOf(OwnEnd(i)) = Held(i) /\ EndOf(InviteOf(i)) = Held(i)
         /\ OwnEnd(i).key = sharing[i].ours /\ InviteOf(i).key = sharing[i].ours
         /\ OwnEnd(i).url = sharing[i].url /\ InviteOf(i).url = sharing[i].url
         /\ OwnEnd(i).send = sharing[i].theirs /\ OwnEnd(i).recv = sharing[i].ours
         /\ InviteOf(i).send = sharing[i].ours /\ InviteOf(i).recv = sharing[i].theirs
<1>1. /\ Held(i) = {sharing[i].ours, sharing[i].theirs} /\ sharing[i].ours # sharing[i].theirs
      /\ sharing[i].project \in ShareProjects /\ sharing[i].url \in Hosts
  BY DEF HeldApart, Held, HeldOf
<1>2. sharing[i].ours \in Boxes /\ sharing[i].theirs \in Boxes
  <2>1. sharing[i].ours \in 1..created /\ sharing[i].theirs \in 1..created
    BY <1>1 DEF HeldApart
  <2> QED BY <2>1, SharesAssumption DEF SharesTypeOK, Boxes
<1> QED BY <1>1, <1>2 DEF OwnEnd, InviteOf, EndOf, Share, Invite

LEMMA CreateProjectShareStep ==
  ASSUME SharesInv, NEW i \in Instances, CreateProjectShare(i)
  PROVE  SharesInv'
<1> DEFINE o == OwnEnd(i)
           v == InviteOf(i)
<1>t. /\ SharesTypeOK /\ HeldApart /\ sharing[i].at = "row" /\ OneSharer /\ JoinersAccepted
      /\ \A x \in Ends : EndOK(x) /\ \A y \in Ends : Paired(x, y)
      /\ \A w \in invites : w.send = w.key
  BY DEF SharesInv, CreateProjectShare
<1>u. /\ shares' = shares \cup {o} /\ invites' \in {invites, invites \cup {v}} /\ To(i, NoStep)
      /\ UNCHANGED <<config, putting, puts, boxes, created, accepted>>
  BY DEF CreateProjectShare, configVars, hostVars
<1>f. /\ Held(i) = {sharing[i].ours, sharing[i].theirs} /\ sharing[i].ours # sharing[i].theirs
      /\ o \in Share /\ v \in Invite /\ EndOf(o) = Held(i) /\ EndOf(v) = Held(i)
      /\ o.key = sharing[i].ours /\ v.key = sharing[i].ours
      /\ o.url = sharing[i].url /\ v.url = sharing[i].url
      /\ o.send = sharing[i].theirs /\ o.recv = sharing[i].ours
      /\ v.send = sharing[i].ours /\ v.recv = sharing[i].theirs
  BY <1>t, OwnEndFields
<1> HIDE DEF o, v
<1>1. /\ sharing' \in [Instances -> Step] /\ sharing'[i] = NoStep
      /\ \A j \in Instances : j # i => sharing'[j] = sharing[j]
  BY <1>t, <1>u, NoStepFacts, ToFacts
<1>2. SharesTypeOK'
  BY <1>t, <1>u, <1>f, <1>1 DEF SharesTypeOK
<1>3. Held(i)' = {} /\ \A j \in Instances : j # i => Held(j)' = Held(j)
  BY <1>1, NoStepFacts DEF Held, HeldOf
<1>4. Ends' \subseteq Ends \cup {o, v}
  BY <1>u DEF Ends
<1>5. \A y \in Ends : /\ EndOf(y) \cap Held(i) = {} /\ y.key # sharing[i].ours
  BY <1>t, <1>f DEF HeldApart, EndOK
<1>6. Held(i) \subseteq 1..created
  BY <1>t DEF HeldApart
<1>7. HeldApart'
  <2>1. ASSUME NEW j \in Instances
        PROVE  /\ Held(j)' \subseteq 1..created
               /\ \A x \in Ends' : Held(j)' \cap EndOf(x) = {}
               /\ \A k \in Instances : k # j => Held(j)' \cap Held(k)' = {}
    <3>1. CASE j = i
      BY <3>1, <1>3
    <3>2. CASE j # i
      <4>1. Held(j)' = Held(j) /\ Held(j) \cap Held(i) = {}
        BY <3>2, <1>3, <1>t DEF HeldApart
      <4>2. \A x \in Ends' : Held(j) \cap EndOf(x) = {}
        BY <4>1, <1>4, <1>f, <1>t DEF HeldApart
      <4> QED BY <4>1, <4>2, <1>3, <1>t DEF HeldApart
    <3> QED BY <3>1, <3>2
  <2>2. ASSUME NEW j \in Instances
        PROVE  /\ sharing'[j].at = "row" => sharing'[j].ours # sharing'[j].theirs
               /\ sharing'[j].at # "idle" =>
                    sharing'[j].project \in ShareProjects /\ sharing'[j].url \in Hosts
    BY <1>t, <1>1, NoStepFacts DEF HeldApart
  <2> QED BY <1>u, <2>1, <2>2 DEF HeldApart, EndOf
<1>8. \A x \in Ends' : EndOK(x)' /\ \A y \in Ends' : Paired(x, y)'
  <2>1. EndOK(o) /\ EndOK(v)
    BY <1>f, <1>6 DEF EndOK
  <2>2. \A x \in Ends' : EndOK(x)'
    BY <1>t, <1>u, <1>4, <2>1 DEF EndOK, EndOf
  <2>3. \A x \in {o, v} : (\A y \in {o, v} : Paired(x, y)) /\ \A y \in Ends : Paired(x, y) /\ Paired(y, x)
    BY <1>f, <1>5 DEF Paired
  <2>4. \A x, y \in Ends' : Paired(x, y)
    BY <1>t, <1>4, <2>3
  <2> QED BY <2>2, <2>4 DEF Paired, EndOf
<1>9. OneSharer'
  <2>1. \A s \in shares : s.key # o.key
    BY <1>5, <1>f DEF Ends
  <2> QED BY <1>t, <1>u, <2>1 DEF OneSharer
<1>10. JoinersAccepted'
  <2>1. o.send # o.key
    BY <1>f
  <2> QED BY <1>t, <1>u, <2>1 DEF JoinersAccepted
<1>11. \A w \in invites' : w.send = w.key
  BY <1>t, <1>u, <1>f
<1> QED BY <1>2, <1>7, <1>8, <1>9, <1>10, <1>11 DEF SharesInv

LEMMA AcceptInviteStep ==
  ASSUME SharesInv, NEW i \in Instances, NEW p \in ShareProjects, NEW v \in invites,
         AcceptInvite(i, p, v)
  PROVE  SharesInv'
<1> DEFINE a == [inst |-> i, project |-> p, url |-> v.url, send |-> v.send,
                 recv |-> v.recv, key |-> v.key, enabled |-> TRUE]
<1>t. /\ SharesTypeOK /\ HeldApart /\ OneSharer /\ JoinersAccepted
      /\ \A x \in Ends : EndOK(x) /\ \A y \in Ends : Paired(x, y)
      /\ v.send = v.key /\ v \in Ends /\ accepted \in [Boxes -> 0..2]
  BY DEF SharesInv, Ends, SharesTypeOK
<1>u. /\ shares' = shares \cup {a}
      /\ accepted' = [accepted EXCEPT ![v.key] = IF @ < 2 THEN @ + 1 ELSE @]
      /\ UNCHANGED <<config, putting, puts, boxes, created, sharing, invites>>
  BY DEF AcceptInvite, configVars, hostVars
<1>f. /\ a \in Share /\ a.url = v.url /\ a.send = v.send /\ a.recv = v.recv /\ a.key = v.key
      /\ v.key \in Boxes
  BY <1>t, EndFields DEF Share
<1> HIDE DEF a
<1>e. EndOf(a) = EndOf(v) /\ a.send = a.key /\ a.recv # a.key
  <2>1. EndOf(a) = EndOf(v)
    BY <1>f DEF EndOf
  <2>2. v.send # v.recv
    BY <1>t DEF EndOK
  <2> QED BY <1>t, <1>f, <2>1, <2>2
<1>1. /\ accepted' \in [Boxes -> 0..2] /\ \A b \in Boxes : accepted'[b] >= accepted[b]
      /\ accepted'[v.key] >= 1 /\ (accepted[v.key] >= 1 => accepted'[v.key] >= 2)
  <2> DEFINE n == IF accepted[v.key] < 2 THEN accepted[v.key] + 1 ELSE accepted[v.key]
  <2>1. accepted' = [accepted EXCEPT ![v.key] = n]
    BY <1>u
  <2>2. /\ n \in 0..2 /\ n >= accepted[v.key] /\ n >= 1
        /\ accepted[v.key] >= 1 => n >= 2
    BY <1>t, <1>f
  <2> HIDE DEF n
  <2>3. accepted'[v.key] = n /\ \A b \in Boxes : b # v.key => accepted'[b] = accepted[b]
    BY <1>t, <1>f, <2>1
  <2>4. \A b \in Boxes : accepted[b] \in 0..2
    BY <1>t
  <2>5. ASSUME NEW b \in Boxes PROVE accepted'[b] >= accepted[b]
    <3>1. CASE b = v.key
      BY <3>1, <2>2, <2>3
    <3>2. CASE b # v.key
      BY <3>2, <2>3, <2>4
    <3> QED BY <3>1, <3>2
  <2> QED BY <1>t, <2>1, <2>2, <2>3, <2>5
<1>2. SharesTypeOK'
  BY <1>t, <1>u, <1>f, <1>1 DEF SharesTypeOK
<1>3. Ends' = Ends \cup {a}
  BY <1>u DEF Ends
<1>4. HeldApart'
  <2>1. \A j \in Instances : \A x \in Ends' : Held(j) \cap EndOf(x) = {}
    BY <1>t, <1>3, <1>e DEF HeldApart
  <2> QED BY <1>t, <1>u, <2>1 DEF HeldApart, Held, EndOf
<1>5. \A x \in Ends' : EndOK(x)' /\ \A y \in Ends' : Paired(x, y)'
  <2>a. EndOK(a)
    <3>1. EndOK(v)
      BY <1>t
    <3> QED BY <3>1, <1>f, <1>e DEF EndOK
  <2>1. \A x \in Ends' : EndOK(x)'
    BY <1>t, <1>u, <1>3, <2>a DEF EndOK, EndOf
  <2>2. Paired(a, a) /\ \A y \in Ends : Paired(a, y) /\ Paired(y, a)
    BY <1>t, <1>f, <1>e DEF Paired
  <2>3. \A x, y \in Ends' : Paired(x, y)
    BY <1>t, <1>3, <2>2
  <2> QED BY <2>1, <2>3 DEF Paired, EndOf
<1>6. OneSharer'
  BY <1>t, <1>u, <1>e DEF OneSharer
<1>7. JoinersAccepted'
  <2>1. \A s \in shares : s.key \in Boxes
    BY <1>t, EndFields
  <2>2. \A s \in shares : s.send = s.key /\ s.key = a.key =>
           accepted'[s.key] >= 2 /\ accepted'[a.key] >= 2
    BY <1>t, <1>1, <1>f DEF JoinersAccepted
  <2>3. ASSUME NEW s \in shares', s.send = s.key
        PROVE  accepted'[s.key] >= 1
    BY <1>t, <1>u, <1>1, <1>f, <2>1, <2>3 DEF JoinersAccepted
  <2>4. ASSUME NEW s \in shares', NEW t \in shares', s.send = s.key, t.key = s.key,
               t.send = t.key, t # s
        PROVE  accepted'[s.key] >= 2
    <3>1. CASE s = a \/ t = a
      BY <3>1, <2>4, <2>2, <1>u
    <3>2. CASE s # a /\ t # a
      <4>1. s \in shares /\ t \in shares /\ s.key \in Boxes /\ accepted[s.key] >= 2
        BY <3>2, <2>4, <1>t, <1>u, <2>1 DEF JoinersAccepted
      <4>2. accepted[s.key] \in 0..2 /\ accepted'[s.key] \in 0..2 /\ accepted'[s.key] >= accepted[s.key]
        BY <4>1, <1>1, <1>t
      <4> QED BY <4>1, <4>2
    <3> QED BY <3>1, <3>2
  <2> QED BY <2>3, <2>4 DEF JoinersAccepted
<1> QED BY <1>2, <1>4, <1>5, <1>6, <1>7, <1>u DEF SharesInv

\* Rows that go, rows that are switched off, mailboxes that go.
LEMMA EndSteps ==
  ASSUME SharesInv,
         \/ \E s \in shares : DeleteProjectShare(s) \/ SyncOnce(s)
         \/ \E b \in Boxes : Revoke(b)
  PROVE  SharesInv'
<1>t. /\ SharesTypeOK /\ HeldApart /\ OneSharer /\ JoinersAccepted
      /\ \A x \in Ends : EndOK(x) /\ \A y \in Ends : Paired(x, y)
  BY DEF SharesInv
<1>1. ASSUME NEW s \in shares, DeleteProjectShare(s) PROVE SharesInv'
  <2>1. shares' = shares \ {s} /\ UNCHANGED <<config, putting, puts, boxes, created, sharing, invites, accepted>>
    BY <1>1 DEF DeleteProjectShare, configVars, hostVars
  <2>2. SharesTypeOK'
    BY <1>t, <2>1 DEF SharesTypeOK
  <2>3. Ends' \subseteq Ends
    BY <2>1 DEF Ends
  <2>4. HeldApart'
    BY <1>t, <2>1, <2>3 DEF HeldApart, Held, HeldOf, EndOf
  <2>5. \A x \in Ends' : EndOK(x)' /\ \A y \in Ends' : Paired(x, y)'
    BY <1>t, <2>1, <2>3 DEF EndOK, EndOf, Paired
  <2>6. OneSharer' /\ JoinersAccepted'
    BY <1>t, <2>1 DEF OneSharer, JoinersAccepted
  <2> QED BY <2>1, <2>2, <2>4, <2>5, <2>6 DEF SharesInv
<1>2. ASSUME NEW s \in shares, SyncOnce(s) PROVE SharesInv'
  <2> DEFINE z == [s EXCEPT !.enabled = FALSE]
  <2>1. shares' = (shares \ {s}) \cup {z}
        /\ UNCHANGED <<config, putting, puts, boxes, created, sharing, invites, accepted>>
    BY <1>2 DEF SyncOnce, configVars, hostVars
  <2>2. z \in Share /\ z.url = s.url /\ z.send = s.send /\ z.recv = s.recv /\ z.key = s.key
    BY <1>t DEF SharesTypeOK, Share
  <2> HIDE DEF z
  <2>3. SharesTypeOK'
    BY <1>t, <2>1, <2>2 DEF SharesTypeOK
  <2>4. s \in Ends /\ Ends' \subseteq Ends \cup {z} /\ EndOf(z) = EndOf(s)
    BY <2>1, <2>2 DEF Ends, EndOf
  <2>5. HeldApart'
    BY <1>t, <2>1, <2>4 DEF HeldApart, Held, HeldOf, EndOf
  <2>6. \A x \in Ends' : EndOK(x)' /\ \A y \in Ends' : Paired(x, y)'
    <3>1. \A x \in Ends' : EndOK(x)'
      BY <1>t, <2>1, <2>2, <2>4 DEF EndOK, EndOf
    <3>2. Paired(z, z) /\ \A y \in Ends : Paired(z, y) /\ Paired(y, z)
      BY <1>t, <2>2, <2>4 DEF Paired
    <3>3. \A x, y \in Ends' : Paired(x, y)
      BY <1>t, <2>4, <3>2
    <3> QED BY <3>1, <3>3 DEF Paired, EndOf
  <2>7. OneSharer'
    BY <1>t, <2>1, <2>2 DEF OneSharer
  <2>8. JoinersAccepted'
    BY <1>t, <2>1, <2>2 DEF JoinersAccepted
  <2> QED BY <2>1, <2>3, <2>5, <2>6, <2>7, <2>8 DEF SharesInv
<1>3. ASSUME NEW b \in Boxes, Revoke(b) PROVE SharesInv'
  <2>1. /\ UNCHANGED <<config, putting, puts, created, sharing, shares, invites, accepted>>
        /\ boxes' = [boxes EXCEPT ![b] = NoHost]
    BY <1>3 DEF Revoke, configVars
  <2>2. SharesTypeOK'
    BY <1>t, <2>1 DEF SharesTypeOK, AnyHost
  <2>3. Ends' = Ends
    BY <2>1 DEF Ends
  <2>4. HeldApart'
    BY <1>t, <2>1, <2>3 DEF HeldApart, Held, EndOf
  <2>5. \A x \in Ends' : EndOK(x)' /\ \A y \in Ends' : Paired(x, y)'
    BY <1>t, <2>1, <2>3 DEF EndOK, Paired
  <2>6. OneSharer' /\ JoinersAccepted' /\ \A v \in invites' : v.send = v.key
    BY <2>1 DEF SharesInv, OneSharer, JoinersAccepted
  <2> QED BY <2>2, <2>4, <2>5, <2>6 DEF SharesInv
<1> QED BY <1>1, <1>2, <1>3

LEMMA SharesStep == SharesInv /\ [SharesNext]_shareVars => SharesInv'
<1> SUFFICES ASSUME SharesInv, [SharesNext]_shareVars PROVE SharesInv'
  OBVIOUS
<1>1. ASSUME NEW i \in Instances,
             \/ \E h \in Hosts : PutConfig(i, h)
             \/ \E p \in Parts : SetMailboxConfig(i, p)
             \/ PutFails(i)
      PROVE  SharesInv'
  BY <1>1, ConfigSteps
<1>2. ASSUME NEW i \in Instances,
             (\E p \in ShareProjects : ShareProject(i, p)) \/ ReadCredentials(i) \/ ShareFails(i)
      PROVE  SharesInv'
  BY <1>2, ReadSteps
<1>3. ASSUME NEW i \in Instances, CreateMailbox(i) PROVE SharesInv'
  BY <1>3, CreateMailboxStep
<1>4. ASSUME NEW i \in Instances, CreateProjectShare(i) PROVE SharesInv'
  BY <1>4, CreateProjectShareStep
<1>5. ASSUME NEW i \in Instances, NEW p \in ShareProjects, NEW v \in invites, AcceptInvite(i, p, v)
      PROVE  SharesInv'
  BY <1>5, AcceptInviteStep
<1>6. ASSUME (\E s \in shares : DeleteProjectShare(s) \/ SyncOnce(s)) \/ \E b \in Boxes : Revoke(b)
      PROVE  SharesInv'
  BY <1>6, EndSteps
<1>7. CASE UNCHANGED shareVars
  <2>1. UNCHANGED <<config, putting, puts, boxes, created, sharing, shares, invites, accepted>>
    BY <1>7 DEF shareVars
  <2>2. SharesTypeOK' /\ Ends' = Ends /\ OneSharer' /\ JoinersAccepted'
    BY <2>1 DEF SharesInv, SharesTypeOK, Ends, OneSharer, JoinersAccepted
  <2>3. HeldApart'
    BY <2>1, <2>2 DEF SharesInv, HeldApart, Held, EndOf
  <2>4. \A x \in Ends' : EndOK(x)' /\ \A y \in Ends' : Paired(x, y)'
    BY <2>1, <2>2 DEF SharesInv, EndOK, Paired
  <2> QED BY <2>1, <2>2, <2>3, <2>4 DEF SharesInv
<1> QED BY <1>1, <1>2, <1>3, <1>4, <1>5, <1>6, <1>7 DEF SharesNext

\* The invariant of the shares.
LEMMA SharesInvariant == SharesSpec => []SharesInv
<1>1. SharesInit => SharesInv
  <2> SUFFICES ASSUME SharesInit PROVE SharesInv
    OBVIOUS
  <2>1. SharesTypeOK
    BY SharesAssumption, NoStepFacts DEF SharesInit, SharesTypeOK, AnyHost
  <2>2. Ends = {} /\ OneSharer /\ JoinersAccepted
    BY DEF SharesInit, Ends, OneSharer, JoinersAccepted
  <2>3. HeldApart
    BY <2>2, NoStepFacts DEF SharesInit, HeldApart, Held, HeldOf
  <2> QED BY <2>1, <2>2, <2>3 DEF SharesInv, SharesInit
<1> QED BY <1>1, SharesStep, PTL DEF SharesSpec

\* The two ends of a share are mirror images on one host, and a mailbox is drained by
\* one end only unless its invite was accepted twice: the service calls of sharing.go
\* that share, accept, revoke and reconfigure in any order and fail at any step.
THEOREM EndsMirror == SharesSpec => []MirrorEnds
<1>1. SharesInv => MirrorEnds
  <2> SUFFICES ASSUME SharesInv, NEW s \in shares, NEW t \in shares
               PROVE  /\ s.key = t.key =>
                           /\ s.url = t.url
                           /\ {s.send, s.recv} = {t.send, t.recv} /\ s.send # s.recv
                      /\ s.recv = t.recv /\ s # t => s.key = t.key /\ accepted[s.key] >= 2
    BY DEF MirrorEnds
  <2>1. EndOK(s) /\ EndOK(t) /\ Paired(s, t)
    BY DEF SharesInv, Ends
  <2>2. ASSUME s.recv = t.recv, s # t PROVE s.key = t.key /\ accepted[s.key] >= 2
    <3>1. s.key = t.key
      BY <2>1, <2>2 DEF Paired, EndOf
    <3>2. s.recv # s.key
      BY <2>2, <3>1 DEF SharesInv, OneSharer
    <3>3. s.send = s.key /\ t.send = t.key
      BY <2>1, <2>2, <3>1, <3>2 DEF EndOK, EndOf
    <3> QED BY <2>2, <3>1, <3>3 DEF SharesInv, JoinersAccepted
  <2> QED BY <2>1, <2>2 DEF EndOK, Paired, EndOf
<1> QED BY <1>1, SharesInvariant, PTL

----------------------------------------------------------------------------
(* What the usage report says of the calls. *)

ReportType ==
  [at : {"none", "asking", "shown"}, since : Nat, asked : Nat, stats : SUBSET SUBSET Tools,
   sessions : SUBSET SessionRow]

\* The sweep takes only calls that are old enough.
CallsKept ==
  \A n \in 1..Len(everCalled) : everCalled[n].day + UsageRetention >= today => n \in toolCalls

\* An answered ToolCallStats has the tool of every kept call of the window.
StatsCover ==
  report.stats # {} =>
    \A n \in 1..report.asked :
      everCalled[n].day >= report.since /\ everCalled[n].day + UsageRetention >= today
        => everCalled[n].tool \in UNION report.stats

CountsAgree ==
  \A r \in report.sessions :
    /\ r.oriented + r.wroteWithout <= r.sessions
    /\ r.unread <= r.reported
    /\ r.reported - r.unread <= r.readContext

UsageInv ==
  /\ today \in 0..LastDay /\ everCalled \in Seq(ToolCall) /\ toolCalls \subseteq 1..Len(everCalled)
  /\ report \in ReportType /\ report.asked <= Len(everCalled)
  /\ report.at = "shown" => report.stats # {}
  /\ CallsKept /\ StatsCover /\ CountsAgree

LEMMA UsageNats ==
  MaxDays \in Nat /\ UsageRetention \in Nat /\ LastDay \in Nat /\ MaxCalls \in Nat
BY UsageAssumption

LEMMA ToolCallFacts ==
  ASSUME UsageInv, NEW n \in 1..Len(everCalled)
  PROVE  everCalled[n] \in ToolCall /\ everCalled[n].day \in Nat /\ everCalled[n].tool \in Tools
<1>1. everCalled[n] \in ToolCall
  BY DEF UsageInv
<1>2. \A c \in ToolCall : c.day \in 0..LastDay /\ c.tool \in Tools
  BY DEF ToolCall
<1> QED BY <1>1, <1>2, UsageNats

\* One statement's counts: no session is in two of its classes.
LEMMA SessionCounts ==
  ASSUME UsageInv, NEW seen \in SUBSET SessionIds
  PROVE  LET row == [sessions |-> Cardinality(seen),
                     oriented |-> Cardinality({s \in seen : Oriented(s)}),
                     wroteWithout |-> Cardinality({s \in seen : WroteWithoutOrient(s)}),
                     readContext |-> Cardinality({s \in seen : ReadContext(s)}),
                     reported |-> Cardinality({s \in seen : ImpactReported(s)}),
                     unread |-> Cardinality({s \in seen : ReportedWithoutRead(s)})]
         IN  /\ row \in SessionRow
             /\ row.oriented + row.wroteWithout <= row.sessions
             /\ row.unread <= row.reported
             /\ row.reported - row.unread <= row.readContext
<1> DEFINE O == {s \in seen : Oriented(s)}
           W == {s \in seen : WroteWithoutOrient(s)}
           C == {s \in seen : ReadContext(s)}
           I == {s \in seen : ImpactReported(s)}
           U == {s \in seen : ReportedWithoutRead(s)}
<1>1. IsFiniteSet(seen)
  BY UsageAssumption, FS_Subset
<1>2. /\ IsFiniteSet(O) /\ IsFiniteSet(W) /\ IsFiniteSet(C) /\ IsFiniteSet(I) /\ IsFiniteSet(U)
  <2>1. O \in SUBSET seen /\ W \in SUBSET seen /\ C \in SUBSET seen /\ I \in SUBSET seen /\ U \in SUBSET seen
    OBVIOUS
  <2> HIDE DEF O, W, C, I, U
  <2> QED BY <1>1, <2>1, FS_Subset
<1>3. /\ Cardinality(seen) \in Nat /\ Cardinality(O) \in Nat /\ Cardinality(W) \in Nat
      /\ Cardinality(C) \in Nat /\ Cardinality(I) \in Nat /\ Cardinality(U) \in Nat
  <2> HIDE DEF O, W, C, I, U
  <2> QED BY <1>1, <1>2, FS_CardinalityType
<1>4. O \cap W = {}
  <2> SUFFICES ASSUME NEW s \in seen, Oriented(s), WroteWithoutOrient(s) PROVE FALSE
    OBVIOUS
  <2>1. PICK n \in CallsOf(s, OrientTools) :
          \A m \in CallsOf(s, WriteTools) : everCalled[n].day <= everCalled[m].day
    BY DEF Oriented
  <2>2. PICK m \in CallsOf(s, WriteTools) :
          \A k \in CallsOf(s, OrientTools) : everCalled[k].day > everCalled[m].day
    BY DEF WroteWithoutOrient
  <2>3. n \in 1..Len(everCalled) /\ m \in 1..Len(everCalled)
    BY DEF CallsOf, InWindow, UsageInv
  <2>4. everCalled[n].day \in Nat /\ everCalled[m].day \in Nat
    BY <2>3, ToolCallFacts
  <2>5. everCalled[n].day <= everCalled[m].day /\ everCalled[n].day > everCalled[m].day
    BY <2>1, <2>2
  <2> QED BY <2>4, <2>5
<1>5. Cardinality(O) + Cardinality(W) <= Cardinality(seen)
  <2>1. O \cup W \in SUBSET seen
    OBVIOUS
  <2> HIDE DEF O, W
  <2>2. Cardinality(O \cup W) = Cardinality(O) + Cardinality(W) - Cardinality(O \cap W)
    BY <1>2, FS_Union
  <2>3. Cardinality(O \cap W) = 0
    BY <1>4, FS_EmptySet
  <2>4. Cardinality(O \cup W) <= Cardinality(seen)
    BY <1>1, <2>1, FS_Subset
  <2> QED BY <1>3, <2>2, <2>3, <2>4
<1>6. Cardinality(U) <= Cardinality(I) /\ Cardinality(I) - Cardinality(U) <= Cardinality(C)
  <2>1. U \in SUBSET I /\ I \ U \in SUBSET C /\ I \cap U = U
    BY DEF ReportedWithoutRead
  <2> HIDE DEF U, I, C
  <2>2. Cardinality(U) <= Cardinality(I)
    BY <1>2, <2>1, FS_Subset
  <2>3. Cardinality(I \ U) = Cardinality(I) - Cardinality(I \cap U)
    BY <1>2, FS_Difference
  <2>4. Cardinality(I \ U) <= Cardinality(C)
    BY <1>2, <2>1, FS_Subset
  <2> QED BY <2>1, <2>2, <2>3, <2>4
<1> HIDE DEF O, W, C, I, U
<1>7. LET row == [sessions |-> Cardinality(seen), oriented |-> Cardinality(O),
                  wroteWithout |-> Cardinality(W), readContext |-> Cardinality(C),
                  reported |-> Cardinality(I), unread |-> Cardinality(U)]
      IN  /\ row \in SessionRow
          /\ row.oriented + row.wroteWithout <= row.sessions
          /\ row.unread <= row.reported
          /\ row.reported - row.unread <= row.readContext
  BY <1>3, <1>5, <1>6 DEF SessionRow
<1> QED BY <1>7 DEF O, W, C, I, U

LEMMA UsageStep == UsageInv /\ [UsageNext]_usageVars => UsageInv'
<1> SUFFICES ASSUME UsageInv, [UsageNext]_usageVars PROVE UsageInv'
  OBVIOUS
<1> USE UsageNats
<1>t. /\ today \in 0..LastDay /\ everCalled \in Seq(ToolCall) /\ toolCalls \subseteq 1..Len(everCalled)
      /\ report \in ReportType /\ report.asked <= Len(everCalled) /\ Len(everCalled) \in Nat
      /\ report.at = "shown" => report.stats # {}
      /\ CallsKept /\ StatsCover /\ CountsAgree
      /\ report.asked \in Nat /\ report.since \in Nat
      /\ report.stats \subseteq SUBSET Tools /\ report.sessions \subseteq SessionRow
  BY DEF UsageInv, ReportType
<1>d. \A n \in 1..Len(everCalled) : everCalled[n].day \in Nat
  BY ToolCallFacts
<1>a. 1..report.asked \subseteq 1..Len(everCalled)
  BY <1>t
<1>1. ASSUME NEW t \in Tools, NEW s \in SessionIds \cup {NoSession}, RecordToolCall(t, s)
      PROVE  UsageInv'
  <2> DEFINE c == [tool |-> t, session |-> s, day |-> today]
  <2>1. /\ everCalled' = Append(everCalled, c) /\ UNCHANGED <<today, report>>
        /\ toolCalls' = toolCalls \cup {Len(everCalled')}
    BY <1>1 DEF RecordToolCall
  <2>2. c.day = today
    OBVIOUS
  <2>3. c \in ToolCall
    BY <1>1, <1>t DEF ToolCall, UsageInv
  <2> HIDE DEF c
  <2>4. /\ everCalled' \in Seq(ToolCall) /\ Len(everCalled') = Len(everCalled) + 1
        /\ \A n \in 1..Len(everCalled) : everCalled'[n] = everCalled[n]
    BY <1>t, <2>1, <2>3
  <2>5. toolCalls' \subseteq 1..Len(everCalled') /\ report'.asked <= Len(everCalled')
    <3> DEFINE l == Len(everCalled)
    <3>1. Len(everCalled') = l + 1 /\ l \in Nat /\ toolCalls \subseteq 1..l /\ report.asked <= l
      BY <1>t, <2>4
    <3> HIDE DEF l
    <3> QED BY <1>t, <2>1, <3>1
  <2>6. CallsKept'
    BY <1>t, <2>1, <2>4 DEF CallsKept
  <2>7. StatsCover'
    BY <1>t, <1>a, <2>1, <2>4 DEF StatsCover
  <2> QED BY <1>t, <2>1, <2>4, <2>5, <2>6, <2>7 DEF UsageInv, CountsAgree
<1>2. CASE SetAnalytics
  BY <1>2, <1>t DEF SetAnalytics, UsageInv, CallsKept, StatsCover, CountsAgree
<1>3. CASE PurgeOldToolCalls
  <2>1. toolCalls' = {n \in toolCalls : everCalled[n].day + UsageRetention >= today}
        /\ UNCHANGED <<today, everCalled, report>>
    BY <1>3 DEF PurgeOldToolCalls
  <2>2. CallsKept'
    BY <1>t, <2>1 DEF CallsKept
  <2> QED BY <1>t, <2>1, <2>2 DEF UsageInv, StatsCover, CountsAgree
<1>4. CASE DayPasses
  <2>1. /\ today' = today + 1 /\ today' \in 0..LastDay
        /\ UNCHANGED <<toolCalls, everCalled, report>>
    BY <1>4, <1>t DEF DayPasses
  <2>2. \A n \in 1..Len(everCalled) :
          everCalled[n].day + UsageRetention >= today' => everCalled[n].day + UsageRetention >= today
    BY <1>t, <1>d, <2>1
  <2>3. CallsKept' /\ StatsCover'
    BY <1>t, <1>a, <2>1, <2>2 DEF CallsKept, StatsCover
  <2> QED BY <1>t, <2>1, <2>3 DEF UsageInv, CountsAgree
<1>5. ASSUME NEW days \in 1..(MaxDays + 1), UsageReport(days) PROVE UsageInv'
  <2>1. Since(days) \in Nat
    BY <1>t DEF Since, Smaller
  <2>2. /\ report' = [NoReport EXCEPT !.at = "asking", !.since = Since(days), !.asked = Len(everCalled)]
        /\ UNCHANGED <<today, toolCalls, everCalled>>
    BY <1>5 DEF UsageReport
  <2>3. /\ report' \in ReportType /\ report'.at = "asking" /\ report'.asked = Len(everCalled)
        /\ report'.stats = {} /\ report'.sessions = {}
    BY <1>t, <2>1, <2>2 DEF NoReport, ReportType
  <2> QED BY <1>t, <2>2, <2>3 DEF UsageInv, CallsKept, StatsCover, CountsAgree
<1>6. CASE ToolCallStats
  <2> DEFINE tools == {everCalled[n].tool : n \in InWindow}
  <2>1. /\ report.at = "asking" /\ report' = [report EXCEPT !.stats = {tools}]
        /\ UNCHANGED <<today, toolCalls, everCalled>>
    BY <1>6 DEF ToolCallStats
  <2>2. tools \subseteq Tools
    BY <1>t, ToolCallFacts DEF InWindow
  <2>3. \A n \in 1..report.asked :
          everCalled[n].day >= report.since /\ everCalled[n].day + UsageRetention >= today
            => everCalled[n].tool \in tools
    BY <1>t, <1>a DEF CallsKept, InWindow
  <2> HIDE DEF tools
  <2>4. /\ report' \in ReportType /\ report'.at = "asking" /\ report'.asked = report.asked
        /\ report'.since = report.since /\ report'.stats = {tools} /\ report'.sessions = report.sessions
    BY <1>t, <2>1, <2>2 DEF ReportType
  <2>5. StatsCover'
    BY <2>1, <2>3, <2>4 DEF StatsCover
  <2> QED BY <1>t, <2>1, <2>4, <2>5 DEF UsageInv, CallsKept, CountsAgree
<1>7. CASE SessionStats
  <2> DEFINE seen == {s \in SessionIds : CallsOf(s, Tools) # {}}
             row == [sessions |-> Cardinality(seen),
                     oriented |-> Cardinality({s \in seen : Oriented(s)}),
                     wroteWithout |-> Cardinality({s \in seen : WroteWithoutOrient(s)}),
                     readContext |-> Cardinality({s \in seen : ReadContext(s)}),
                     reported |-> Cardinality({s \in seen : ImpactReported(s)}),
                     unread |-> Cardinality({s \in seen : ReportedWithoutRead(s)})]
  <2>1. /\ report.at = "asking" /\ report' = [report EXCEPT !.sessions = {row}]
        /\ UNCHANGED <<today, toolCalls, everCalled>>
    BY <1>7 DEF SessionStats
  <2>2. seen \in SUBSET SessionIds
    OBVIOUS
  <2> HIDE DEF seen
  <2>3. /\ row \in SessionRow
        /\ row.oriented + row.wroteWithout <= row.sessions
        /\ row.unread <= row.reported
        /\ row.reported - row.unread <= row.readContext
    BY <2>2, SessionCounts
  <2> HIDE DEF row
  <2>4. /\ report' \in ReportType /\ report'.at = "asking" /\ report'.asked = report.asked
        /\ report'.since = report.since /\ report'.stats = report.stats /\ report'.sessions = {row}
    BY <1>t, <2>1, <2>3 DEF ReportType
  <2>5. CountsAgree'
    BY <2>3, <2>4 DEF CountsAgree
  <2> QED BY <1>t, <2>1, <2>4, <2>5 DEF UsageInv, CallsKept, StatsCover
<1>8. CASE ShowReport
  <2>1. /\ report.stats # {} /\ report' = [report EXCEPT !.at = "shown"]
        /\ UNCHANGED <<today, toolCalls, everCalled>>
    BY <1>8 DEF ShowReport
  <2>2. /\ report' \in ReportType /\ report'.asked = report.asked
        /\ report'.since = report.since /\ report'.stats = report.stats
        /\ report'.sessions = report.sessions
    BY <1>t, <2>1 DEF ReportType
  <2> QED BY <1>t, <2>1, <2>2 DEF UsageInv, CallsKept, StatsCover, CountsAgree
<1>9. CASE UNCHANGED usageVars
  BY <1>9, <1>t DEF usageVars, UsageInv, CallsKept, StatsCover, CountsAgree
<1> QED BY <1>1, <1>2, <1>3, <1>4, <1>5, <1>6, <1>7, <1>8, <1>9 DEF UsageNext

\* The invariant of the calls and the report.
LEMMA UsageInvariant == UsageSpec => []UsageInv
<1>1. UsageInit => UsageInv
  BY UsageNats DEF UsageInit, UsageInv, NoReport, ReportType, CallsKept, StatsCover, CountsAgree
<1> QED BY <1>1, UsageStep, PTL DEF UsageSpec

\* A usage report calls no tool unused that was called in its window and is still kept,
\* and its session counts are of disjoint or nested sets of sessions, although its
\* questions are asked of different tables while calls are recorded and swept.
THEOREM ReportsAreSound == UsageSpec => []ReportSound
<1>1. UsageInv => ReportSound
  BY DEF UsageInv, ReportSound, StatsCover, CountsAgree, UnusedTools
<1> QED BY <1>1, UsageInvariant, PTL

\* The types, with the bound on the calls of a behaviour.
UsageTypes == UsageTypeOK /\ Len(everCalled) <= MaxCalls

LEMMA UsageTypeStep == UsageInv /\ UsageTypes /\ [UsageNext]_usageVars => UsageTypes'
<1> SUFFICES ASSUME UsageInv, UsageTypes, [UsageNext]_usageVars PROVE UsageTypes'
  OBVIOUS
<1>t. /\ UsageInv' /\ analytics \in BOOLEAN /\ report.since \in 0..LastDay
      /\ everCalled \in Seq(ToolCall) /\ Len(everCalled) <= MaxCalls /\ today \in 0..LastDay
  BY UsageStep DEF UsageTypes, UsageTypeOK, UsageInv
<1> SUFFICES analytics' \in BOOLEAN /\ report'.since \in 0..LastDay /\ Len(everCalled)' <= MaxCalls
  <2>1. /\ report'.at \in {"none", "asking", "shown"} /\ report'.asked \in Nat
        /\ report'.stats \subseteq SUBSET Tools /\ \A r \in report'.sessions : r \in SessionRow
        /\ report'.asked <= Len(everCalled')
    BY <1>t DEF UsageInv, ReportType
  <2>2. Len(everCalled') \in Nat /\ today' \in 0..LastDay /\ everCalled' \in Seq(ToolCall)
        /\ toolCalls' \subseteq 1..Len(everCalled')
    BY <1>t DEF UsageInv
  <2>3. report'.asked \in 0..MaxCalls
    BY <2>1, <2>2, UsageNats
  <2> QED BY <2>1, <2>2, <2>3 DEF UsageTypes, UsageTypeOK
<1>1. ASSUME NEW t \in Tools, NEW s \in SessionIds \cup {NoSession}, RecordToolCall(t, s)
      PROVE  analytics' \in BOOLEAN /\ report'.since \in 0..LastDay /\ Len(everCalled)' <= MaxCalls
  <2>1. Len(everCalled') = Len(everCalled) + 1
    <3>1. \E c : everCalled' = Append(everCalled, c)
      BY <1>1 DEF RecordToolCall
    <3> QED BY <1>t, <3>1
  <2>2. Len(everCalled) \in Nat /\ Len(everCalled) < MaxCalls
    BY <1>t, <1>1 DEF RecordToolCall
  <2> QED BY <1>t, <1>1, <2>1, <2>2, UsageNats DEF RecordToolCall
<1>2. ASSUME NEW days \in 1..(MaxDays + 1), UsageReport(days)
      PROVE  analytics' \in BOOLEAN /\ report'.since \in 0..LastDay /\ Len(everCalled)' <= MaxCalls
  <2>1. report'.since = Since(days)
    BY <1>2 DEF UsageReport, NoReport
  <2>2. Since(days) \in 0..LastDay
    <3>1. days \in Nat
      BY UsageNats
    <3> QED BY <3>1, <1>t, UsageNats DEF Since, Smaller
  <2> QED BY <1>t, <1>2, <2>1, <2>2 DEF UsageReport
<1>3. CASE ToolCallStats \/ SessionStats \/ ShowReport
  <2>1. report'.since = report.since
    <3>1. report \in ReportType
      BY DEF UsageInv
    <3> QED BY <1>3, <3>1 DEF ToolCallStats, SessionStats, ShowReport, ReportType
  <2> QED BY <1>t, <1>3, <2>1 DEF ToolCallStats, SessionStats, ShowReport
<1>4. CASE SetAnalytics \/ PurgeOldToolCalls \/ DayPasses \/ UNCHANGED usageVars
  BY <1>t, <1>4 DEF SetAnalytics, PurgeOldToolCalls, DayPasses, usageVars
<1> QED BY <1>1, <1>2, <1>3, <1>4 DEF UsageNext

\* The calls and the report keep their types.
LEMMA UsageTypeCorrect == UsageSpec => []UsageTypeOK
<1>1. UsageInit => UsageTypes
  BY UsageNats DEF UsageInit, UsageTypes, UsageTypeOK, NoReport
<1>2. UsageTypes => UsageTypeOK
  BY DEF UsageTypes
<1> QED BY <1>1, <1>2, UsageInvariant, UsageTypeStep, PTL DEF UsageSpec

----------------------------------------------------------------------------
(* Settings and the first-run wizard. *)

\* What a request may still have to do: the wizard, from its start; a PUT of settings.
AllOfIt == <<"name", "mint", "mint", "done">>
TwoKeys == <<"mint", "mint", "done">>
OneKey  == <<"mint", "done">>
TheFlag == <<"done">>
TwoFields == <<"openai", "flags">>
OneField  == <<"flags">>

Unminted == {AllOfIt, TwoKeys}
Minted == {OneKey, TheFlag}
Plans == Unminted \cup Minted \cup {TwoFields, OneField, <<>>}

JobType == [at : {"idle", "work", "name", "flags", "openai", "store"}, todo : Plans,
            seen : [Knobs -> 0..MaxSaves], minted : SUBSET Nat, alone : BOOLEAN]

SettingsType ==
  /\ table \in [Knobs -> 0..MaxSaves] /\ snapshot \in [Knobs -> 0..MaxSaves]
  /\ made \in Nat /\ live \subseteq Nat /\ shown \subseteq Nat /\ minters \in Nat
  /\ saves \in 0..MaxSaves /\ job \in [Actors -> JobType]

\* What an undisturbed reload has read so far is in the table still.
ReadsHold ==
  \A a \in Actors : job[a].alone =>
    /\ job[a].at \in {"flags", "openai", "store"} => job[a].seen["name"] = table["name"]
    /\ job[a].at \in {"openai", "store"} => job[a].seen["flags"] = table["flags"]
    /\ job[a].at = "store" => snapshot["openai"] = table["openai"]

SnapshotHolds ==
  /\ table["openai"] = 0 => snapshot["openai"] = 0
  /\ ~blurred /\ (\A a \in Actors : ~Reloading(a)) => snapshot = table

\* One wizard at a time; until it mints, no other has or every key was revoked.
WizardsApart ==
  \A a \in Actors :
    /\ job[a].todo \in Unminted \cup Minted \/ job[a].minted # {} => lock = {a}
    /\ job[a].todo \in Minted => job[a].minted # {}
    /\ job[a].todo \in Unminted => job[a].minted = {} /\ (minters = 0 \/ reopened)
    /\ job[a].at = "idle" => job[a].minted = {} /\ job[a].todo = <<>>

KeysCloseSetup ==
  /\ minters >= 1 /\ ~reopened => Complete
  /\ minters > 1 => reopened
  /\ Complete => shown # {} \/ cut \/ \E a \in Actors : job[a].minted # {}

SettingsInv == SettingsType /\ ReadsHold /\ SnapshotHolds /\ WizardsApart /\ KeysCloseSetup

LEMMA SettingsNats == MaxSaves \in Nat /\ MaxApiKeys \in Nat /\ MaxMishaps \in Nat
BY SettingsAssumption

LEMMA PlanFacts ==
  /\ Head(AllOfIt) = "name" /\ Tail(AllOfIt) = TwoKeys
  /\ Head(TwoKeys) = "mint" /\ Tail(TwoKeys) = OneKey
  /\ Head(OneKey) = "mint" /\ Tail(OneKey) = TheFlag
  /\ Head(TheFlag) = "done" /\ Tail(TheFlag) = <<>>
  /\ Head(TwoFields) = "openai" /\ Tail(TwoFields) = OneField
  /\ Head(OneField) = "flags" /\ Tail(OneField) = <<>>
BY DEF AllOfIt, TwoKeys, OneKey, TheFlag, TwoFields, OneField

LEMMA PlansDiffer ==
  /\ Unminted \cap Minted = {} /\ <<>> \notin Unminted \cup Minted
  /\ TwoFields \notin Unminted \cup Minted \cup {<<>>}
  /\ OneField \notin Unminted \cup Minted \cup {<<>>}
<1>1. /\ Len(AllOfIt) = 4 /\ Len(TwoKeys) = 3 /\ Len(OneKey) = 2 /\ Len(TheFlag) = 1
      /\ Len(TwoFields) = 2 /\ Len(OneField) = 1 /\ Len(<<>>) = 0
  BY DEF AllOfIt, TwoKeys, OneKey, TheFlag, TwoFields, OneField
<1>2. TwoFields # OneKey /\ OneField # TheFlag
  <2>1. "mint" # "openai" /\ "done" # "flags"
    OBVIOUS
  <2> QED BY <2>1, PlanFacts
<1>3. /\ AllOfIt # OneKey /\ AllOfIt # TheFlag /\ TwoKeys # OneKey /\ TwoKeys # TheFlag
      /\ TwoFields # AllOfIt /\ TwoFields # TwoKeys /\ TwoFields # TheFlag
      /\ OneField # AllOfIt /\ OneField # TwoKeys /\ OneField # OneKey
  BY <1>1
<1>4. /\ <<>> # AllOfIt /\ <<>> # TwoKeys /\ <<>> # OneKey /\ <<>> # TheFlag
      /\ <<>> # TwoFields /\ <<>> # OneField
  BY DEF AllOfIt, TwoKeys, OneKey, TheFlag, TwoFields, OneField
<1> QED BY <1>2, <1>3, <1>4 DEF Unminted, Minted

\* What is written next, and what is left after it.
LEMMA WriteFacts ==
  ASSUME NEW a \in Actors, job[a].todo \in Plans, AtWork(a, Knobs \cup {"done"})
  PROVE  \/ job[a].todo = AllOfIt /\ NextKnob(a) \in Knobs /\ Tail(job[a].todo) = TwoKeys
         \/ job[a].todo = TheFlag /\ NextKnob(a) = "done" /\ Tail(job[a].todo) = <<>>
         \/ job[a].todo = TwoFields /\ NextKnob(a) \in Knobs /\ Tail(job[a].todo) = OneField
         \/ job[a].todo = OneField /\ NextKnob(a) \in Knobs /\ Tail(job[a].todo) = <<>>
<1>1. job[a].todo # <<>> /\ NextKnob(a) = Head(job[a].todo) /\ NextKnob(a) \in Knobs \cup {"done"}
  BY DEF AtWork, NextKnob
<1>2. "mint" \notin Knobs \cup {"done"} /\ {"name", "openai", "flags"} \subseteq Knobs
  BY DEF Knobs
<1> QED BY <1>1, <1>2, PlanFacts DEF Plans, Unminted, Minted

LEMMA MintFacts ==
  ASSUME NEW a \in Actors, job[a].todo \in Plans, AtWork(a, {"mint"})
  PROVE  \/ job[a].todo = TwoKeys /\ Tail(job[a].todo) = OneKey
         \/ job[a].todo = OneKey /\ Tail(job[a].todo) = TheFlag
<1>1. job[a].todo # <<>> /\ Head(job[a].todo) = "mint"
  BY DEF AtWork, NextKnob
<1>2. "mint" \notin {"name", "openai", "flags", "done"}
  OBVIOUS
<1> QED BY <1>1, <1>2, PlanFacts DEF Plans, Unminted, Minted

LEMMA NoJobFacts ==
  /\ NoJob \in JobType /\ NoJob.at = "idle" /\ NoJob.todo = <<>> /\ NoJob.minted = {}
  /\ NothingSeen \in [Knobs -> 0..MaxSaves]
<1>1. NothingSeen \in [Knobs -> 0..MaxSaves]
  BY SettingsNats DEF NothingSeen
<1>2. <<>> \in Plans
  BY DEF Plans
<1> QED BY <1>1, <1>2 DEF NoJob, JobType

LEMMA NewJobFacts ==
  ASSUME NEW p \in Plans
  PROVE  /\ [NoJob EXCEPT !.at = "work", !.todo = p] \in JobType
         /\ [NoJob EXCEPT !.at = "work", !.todo = p].at = "work"
         /\ [NoJob EXCEPT !.at = "work", !.todo = p].todo = p
         /\ [NoJob EXCEPT !.at = "work", !.todo = p].minted = {}
BY NoJobFacts DEF JobType

\* Another's reload under way is disturbed, and nothing else of it changes.
LEMMA DisturbedFacts ==
  ASSUME NEW jobs \in [Actors -> JobType]
  PROVE  /\ Disturbed(jobs) \in [Actors -> JobType]
         /\ \A b \in Actors : /\ Disturbed(jobs)[b].at = jobs[b].at
                              /\ Disturbed(jobs)[b].todo = jobs[b].todo
                              /\ Disturbed(jobs)[b].seen = jobs[b].seen
                              /\ Disturbed(jobs)[b].minted = jobs[b].minted
                              /\ Disturbed(jobs)[b].alone => ~Reloading(b)
<1>1. ASSUME NEW b \in Actors
      PROVE  /\ [jobs[b] EXCEPT !.alone = @ /\ ~Reloading(b)] \in JobType
             /\ [jobs[b] EXCEPT !.alone = @ /\ ~Reloading(b)].at = jobs[b].at
             /\ [jobs[b] EXCEPT !.alone = @ /\ ~Reloading(b)].todo = jobs[b].todo
             /\ [jobs[b] EXCEPT !.alone = @ /\ ~Reloading(b)].seen = jobs[b].seen
             /\ [jobs[b] EXCEPT !.alone = @ /\ ~Reloading(b)].minted = jobs[b].minted
             /\ [jobs[b] EXCEPT !.alone = @ /\ ~Reloading(b)].alone => ~Reloading(b)
  <2> DEFINE c == jobs[b].alone /\ ~Reloading(b)
  <2>1. c \in BOOLEAN /\ (c => ~Reloading(b))
    OBVIOUS
  <2> HIDE DEF c
  <2>2. /\ [jobs[b] EXCEPT !.alone = c] \in JobType
        /\ [jobs[b] EXCEPT !.alone = c].at = jobs[b].at
        /\ [jobs[b] EXCEPT !.alone = c].todo = jobs[b].todo
        /\ [jobs[b] EXCEPT !.alone = c].seen = jobs[b].seen
        /\ [jobs[b] EXCEPT !.alone = c].minted = jobs[b].minted
    BY <2>1 DEF JobType
  <2>3. [jobs[b] EXCEPT !.alone = c].alone = c
    BY DEF JobType
  <2> QED BY <2>1, <2>2, <2>3 DEF c
<1> QED BY <1>1 DEF Disturbed

\* Steps that touch no row, no key and no history: a request of actor a starts at work.
LEMMA StartSteps ==
  ASSUME SettingsInv, NEW a \in Actors, CompleteSetup(a) \/ PutSettings(a)
  PROVE  SettingsInv'
<1>t. /\ job \in [Actors -> JobType] /\ SettingsType /\ ReadsHold /\ SnapshotHolds
      /\ WizardsApart /\ KeysCloseSetup
  BY DEF SettingsInv, SettingsType
<1>u. UNCHANGED <<table, setupFlag, snapshot, saves, blurred, made, live, shown, minters, cut, reopened>>
  BY DEF CompleteSetup, PutSettings, keyVars
<1>i. job[a].at = "idle" /\ job[a].minted = {}
  BY <1>t DEF CompleteSetup, PutSettings, WizardsApart
<1>1. \E p \in {AllOfIt, TwoFields} : job' = [job EXCEPT ![a] = [NoJob EXCEPT !.at = "work", !.todo = p]]
  BY DEF CompleteSetup, PutSettings, AllOfIt, TwoFields
<1>2. PICK p \in {AllOfIt, TwoFields} :
        job' = [job EXCEPT ![a] = [NoJob EXCEPT !.at = "work", !.todo = p]]
  BY <1>1
<1> DEFINE x == [NoJob EXCEPT !.at = "work", !.todo = p]
<1>3. p \in Plans /\ x \in JobType /\ x.at = "work" /\ x.todo = p /\ x.minted = {}
  <2>1. p \in Plans
    BY DEF Plans, Unminted
  <2> QED BY <2>1, NewJobFacts
<1>4. job' = [job EXCEPT ![a] = x]
  BY <1>2
<1> HIDE DEF x
<1>5. /\ job' \in [Actors -> JobType] /\ job'[a] = x
      /\ \A b \in Actors : b # a => job'[b] = job[b]
  BY <1>t, <1>3, <1>4
<1>6. SettingsType'
  BY <1>t, <1>u, <1>5 DEF SettingsType
<1>7. ReadsHold' /\ SnapshotHolds'
  <2>1. \A b \in Actors : Reloading(b)' <=> Reloading(b)
    BY <1>3, <1>5, <1>i DEF Reloading
  <2>2. ReadsHold'
    BY <1>t, <1>u, <1>3, <1>5 DEF ReadsHold
  <2> QED BY <1>t, <1>u, <2>1, <2>2 DEF SnapshotHolds
<1>8. \A b \in Actors : job'[b].minted = job[b].minted
  BY <1>3, <1>5, <1>i
<1>9. KeysCloseSetup'
  BY <1>t, <1>u, <1>8 DEF KeysCloseSetup, Complete
<1>10. WizardsApart'
  <2>1. CASE CompleteSetup(a)
    <3>1. lock = {} /\ lock' = {a} /\ ~Complete
      BY <2>1 DEF CompleteSetup
    <3>2. minters = 0 \/ reopened
      BY <1>t, <3>1 DEF KeysCloseSetup, SettingsType
    <3>3. p = AllOfIt
      <4>1. job' = [job EXCEPT ![a] = [NoJob EXCEPT !.at = "work", !.todo = AllOfIt]]
        BY <2>1 DEF CompleteSetup, AllOfIt
      <4>2. AllOfIt \in Plans
        BY DEF Plans, Unminted
      <4>3. job'[a].todo = AllOfIt
        BY <1>t, <4>1, <4>2, NewJobFacts
      <4> QED BY <4>3, <1>3, <1>5
    <3>4. \A b \in Actors : b # a => job[b].todo \notin Unminted \cup Minted /\ job[b].minted = {}
      BY <1>t, <3>1 DEF WizardsApart
    <3>5. p \in Unminted /\ p \notin Minted
      BY <3>3, PlansDiffer DEF Unminted
    <3> QED BY <1>t, <1>u, <1>3, <1>5, <3>1, <3>2, <3>4, <3>5 DEF WizardsApart
  <2>2. CASE PutSettings(a)
    <3>1. lock' = lock
      BY <2>2 DEF PutSettings
    <3>3. p = TwoFields
      <4>1. job' = [job EXCEPT ![a] = [NoJob EXCEPT !.at = "work", !.todo = TwoFields]]
        BY <2>2 DEF PutSettings, TwoFields
      <4>2. TwoFields \in Plans
        BY DEF Plans
      <4>3. job'[a].todo = TwoFields
        BY <1>t, <4>1, <4>2, NewJobFacts
      <4> QED BY <4>3, <1>3, <1>5
    <3> QED BY <1>t, <1>u, <1>3, <1>5, <3>1, <3>3, PlansDiffer DEF WizardsApart
  <2> QED BY <2>1, <2>2
<1> QED BY <1>6, <1>7, <1>9, <1>10 DEF SettingsInv

\* A row is written, and its answer arrives or is lost: every reload is disturbed.
LEMMA SaveStep ==
  ASSUME SettingsInv, NEW a \in Actors, Save(a)
  PROVE  SettingsInv'
<1>t. /\ job \in [Actors -> JobType] /\ SettingsType /\ ReadsHold /\ SnapshotHolds
      /\ WizardsApart /\ KeysCloseSetup
  BY DEF SettingsInv, SettingsType
<1>u. /\ AtWork(a, Knobs \cup {"done"}) /\ Upsert(NextKnob(a))
      /\ UNCHANGED <<snapshot, lock, blurred, made, live, shown, minters, cut, reopened>>
  BY DEF Save, keyVars
<1> DEFINE alone == \A b \in Actors : ~Reloading(b)
           x == [job[a] EXCEPT !.at = "name", !.todo = Tail(@), !.alone = alone]
<1>1. job' = [Disturbed(job) EXCEPT ![a] = x]
  BY DEF Save
<1>2. \/ job[a].todo = AllOfIt /\ NextKnob(a) \in Knobs /\ Tail(job[a].todo) = TwoKeys
      \/ job[a].todo = TheFlag /\ NextKnob(a) = "done" /\ Tail(job[a].todo) = <<>>
      \/ job[a].todo = TwoFields /\ NextKnob(a) \in Knobs /\ Tail(job[a].todo) = OneField
      \/ job[a].todo = OneField /\ NextKnob(a) \in Knobs /\ Tail(job[a].todo) = <<>>
  <2>1. job[a].todo \in Plans
    BY <1>t DEF JobType
  <2> QED BY <2>1, <1>u, WriteFacts
<1>3. x \in JobType /\ x.at = "name" /\ x.todo = Tail(job[a].todo) /\ x.minted = job[a].minted
  <2>1. alone \in BOOLEAN
    OBVIOUS
  <2> HIDE DEF alone
  <2>2. Tail(job[a].todo) \in Plans
    BY <1>2 DEF Plans, Unminted, Minted
  <2> QED BY <1>t, <2>1, <2>2 DEF JobType
<1> HIDE DEF x, alone
<1>4. /\ job' \in [Actors -> JobType] /\ job'[a] = x
      /\ \A b \in Actors : b # a =>
           /\ job'[b].at = job[b].at /\ job'[b].todo = job[b].todo /\ job'[b].minted = job[b].minted
           /\ job'[b].alone => ~Reloading(b)
  BY <1>t, <1>1, <1>3, DisturbedFacts
<1>5. /\ \/ /\ NextKnob(a) \in Knobs /\ setupFlag' = setupFlag
            /\ table' = [table EXCEPT ![NextKnob(a)] = saves']
         \/ NextKnob(a) = "done" /\ setupFlag' = TRUE /\ table' = table
      /\ saves' \in 1..MaxSaves
  <2>1. saves' \in 1..MaxSaves
    BY <1>t, <1>u, SettingsNats DEF Upsert, SettingsType
  <2>2. "done" \notin Knobs
    BY DEF Knobs
  <2> QED BY <1>2, <1>u, <2>1, <2>2 DEF Upsert
<1>6. SettingsType'
  <2>1. table' \in [Knobs -> 0..MaxSaves] /\ saves' \in 0..MaxSaves
    BY <1>t, <1>5 DEF SettingsType
  <2> QED BY <1>t, <1>u, <1>4, <2>1 DEF SettingsType
<1>7. ReadsHold'
  BY <1>3, <1>4 DEF ReadsHold, Reloading
<1>8. SnapshotHolds'
  <2>1. Reloading(a)'
    BY <1>3, <1>4 DEF Reloading
  <2>2. table'["openai"] = 0 => table["openai"] = 0
    BY <1>t, <1>5 DEF SettingsType, Knobs
  <2> QED BY <1>t, <1>u, <2>1, <2>2 DEF SnapshotHolds
<1>9. \A b \in Actors : job'[b].minted = job[b].minted
  BY <1>3, <1>4
<1>10. WizardsApart'
  <2>1. \/ job[a].todo \in Unminted /\ x.todo \in Unminted
        \/ x.todo \notin Unminted \cup Minted
    BY <1>2, <1>3, PlansDiffer DEF Unminted
  <2>2. x.todo \notin Minted
    BY <2>1, PlansDiffer
  <2> QED BY <1>t, <1>u, <1>3, <1>4, <2>1, <2>2 DEF WizardsApart
<1>11. KeysCloseSetup'
  <2>1. CASE NextKnob(a) = "done"
    <3>1. job[a].minted # {}
      <4>1. job[a].todo = TheFlag
        BY <1>2, <2>1 DEF Knobs
      <4> QED BY <1>t, <4>1 DEF WizardsApart, Minted
    <3>2. setupFlag'
      BY <1>5, <2>1 DEF Knobs
    <3> QED BY <1>t, <1>u, <1>9, <3>1, <3>2 DEF KeysCloseSetup, Complete
  <2>2. CASE NextKnob(a) # "done"
    BY <1>t, <1>u, <1>5, <1>9, <2>2 DEF KeysCloseSetup, Complete
  <2> QED BY <2>1, <2>2
<1> QED BY <1>6, <1>7, <1>8, <1>10, <1>11 DEF SettingsInv

\* A request ends in an error: a wizard that has minted leaves keys nobody knows.
LEMMA FailSteps ==
  ASSUME SettingsInv, NEW a \in Actors, SaveFails(a) \/ MintFails(a)
  PROVE  SettingsInv'
<1>t. /\ job \in [Actors -> JobType] /\ SettingsType /\ ReadsHold /\ SnapshotHolds
      /\ WizardsApart /\ KeysCloseSetup
  BY DEF SettingsInv, SettingsType
<1>u. /\ job[a].at = "work" /\ job[a].todo # <<>> /\ Abort(a)
      /\ UNCHANGED <<snapshot, made, live, shown, minters, reopened>>
  BY DEF SaveFails, MintFails, AtWork
<1>e. /\ Ended(a) \in [Actors -> JobType] /\ Ended(a)[a] = NoJob
      /\ \A b \in Actors : b # a => Ended(a)[b] = job[b]
  BY <1>t, NoJobFacts DEF Ended
<1>1. \/ job' = Ended(a) /\ UNCHANGED <<saves, setupFlag, table, blurred>>
      \/ /\ job' = Disturbed(Ended(a)) /\ Upsert(NextKnob(a)) /\ blurred' = TRUE
         /\ AtWork(a, Knobs \cup {"done"})
  BY DEF SaveFails, MintFails
<1>2. /\ job' \in [Actors -> JobType]
      /\ job'[a].at = "idle" /\ job'[a].todo = <<>> /\ job'[a].minted = {}
      /\ \A b \in Actors : b # a =>
           job'[b].at = job[b].at /\ job'[b].todo = job[b].todo /\ job'[b].minted = job[b].minted
  <2>1. CASE job' = Ended(a)
    BY <2>1, <1>e, NoJobFacts
  <2>2. CASE job' = Disturbed(Ended(a))
    <3> DEFINE e == Ended(a)
               d == Disturbed(e)
    <3> HIDE DEF e
    <3>1. e \in [Actors -> JobType] /\ e[a] = NoJob /\ \A b \in Actors : b # a => e[b] = job[b]
      BY <1>e DEF e
    <3>2. /\ d \in [Actors -> JobType]
          /\ \A b \in Actors : d[b].at = e[b].at /\ d[b].todo = e[b].todo /\ d[b].minted = e[b].minted
      BY <3>1, DisturbedFacts
    <3>3. job' = d
      BY <2>2 DEF e
    <3> HIDE DEF d
    <3> QED BY <3>1, <3>2, <3>3, NoJobFacts
  <2> QED BY <1>1, <2>1, <2>2
<1>3. /\ lock' = lock \ {a}
      /\ cut' \in BOOLEAN \/ cut' = cut
      /\ cut \/ job[a].minted # {} => cut'
  BY <1>u DEF Abort
<1>4. WizardsApart'
  <2>1. ASSUME NEW b \in Actors, b # a, job[b].todo \in Unminted \cup Minted \/ job[b].minted # {}
        PROVE  lock' = {b}
    BY <1>t, <1>3, <2>1 DEF WizardsApart
  <2> QED BY <1>t, <1>u, <1>2, <2>1, PlansDiffer DEF WizardsApart
<1>5. CASE job' = Ended(a) /\ UNCHANGED <<saves, setupFlag, table, blurred>>
  <2>1. SettingsType'
    BY <1>t, <1>u, <1>2, <1>5 DEF SettingsType
  <2>2. ReadsHold'
    BY <1>t, <1>u, <1>2, <1>5, <1>e DEF ReadsHold
  <2>3. \A b \in Actors : Reloading(b)' <=> Reloading(b)
    BY <1>u, <1>2 DEF Reloading
  <2>4. SnapshotHolds'
    BY <1>t, <1>u, <1>5, <2>3 DEF SnapshotHolds
  <2>5. KeysCloseSetup'
    BY <1>t, <1>u, <1>2, <1>3, <1>5 DEF KeysCloseSetup, Complete
  <2> QED BY <1>4, <2>1, <2>2, <2>4, <2>5 DEF SettingsInv
<1>6. CASE /\ job' = Disturbed(Ended(a)) /\ Upsert(NextKnob(a)) /\ blurred' = TRUE
           /\ AtWork(a, Knobs \cup {"done"})
  <2>1. saves' \in 1..MaxSaves
    BY <1>t, <1>6, SettingsNats DEF Upsert, SettingsType
  <2>2. \/ /\ NextKnob(a) \in Knobs /\ setupFlag' = setupFlag
           /\ table' = [table EXCEPT ![NextKnob(a)] = saves']
        \/ /\ job[a].todo = TheFlag /\ setupFlag' = TRUE /\ table' = table
    <3>1. job[a].todo \in Plans
      BY <1>t DEF JobType
    <3>2. \/ NextKnob(a) \in Knobs
          \/ job[a].todo = TheFlag /\ NextKnob(a) = "done"
      BY <3>1, <1>6, WriteFacts
    <3>3. "done" \notin Knobs
      BY DEF Knobs
    <3> QED BY <1>6, <3>2, <3>3 DEF Upsert
  <2>3. SettingsType'
    <3>1. table' \in [Knobs -> 0..MaxSaves] /\ saves' \in 0..MaxSaves
      BY <1>t, <2>1, <2>2 DEF SettingsType
    <3> QED BY <1>t, <1>u, <1>2, <3>1 DEF SettingsType
  <2>4. ReadsHold'
    <3>1. \A b \in Actors : job'[b].alone => ~Reloading(b)
      BY <1>6, <1>e, DisturbedFacts
    <3> QED BY <3>1, <1>2, <1>u DEF ReadsHold, Reloading
  <2>5. SnapshotHolds'
    <3>1. table'["openai"] = 0 => table["openai"] = 0
      BY <1>t, <2>1, <2>2 DEF SettingsType, Knobs
    <3> QED BY <1>t, <1>u, <1>6, <3>1 DEF SnapshotHolds
  <2>6. KeysCloseSetup'
    <3>1. CASE setupFlag' = setupFlag
      BY <1>t, <1>u, <1>2, <1>3, <3>1 DEF KeysCloseSetup, Complete
    <3>2. CASE job[a].todo = TheFlag /\ setupFlag' = TRUE
      <4>1. cut'
        BY <1>t, <1>3, <3>2 DEF WizardsApart, Minted
      <4> QED BY <1>t, <1>u, <3>2, <4>1 DEF KeysCloseSetup, Complete
    <3> QED BY <2>2, <3>1, <3>2
  <2> QED BY <1>4, <2>3, <2>4, <2>5, <2>6 DEF SettingsInv
<1> QED BY <1>1, <1>5, <1>6

\* One read of a reload.
LEMMA ReadStep ==
  ASSUME SettingsInv, NEW a \in Actors, NEW knob \in Knobs,
         NEW next \in {"flags", "openai", "store"},
         <<knob, next>> \in {<<"name", "flags">>, <<"flags", "openai">>, <<"openai", "store">>},
         ReadKnob(a, knob, next)
  PROVE  SettingsInv'
<1>t. /\ job \in [Actors -> JobType] /\ SettingsType /\ ReadsHold /\ SnapshotHolds
      /\ WizardsApart /\ KeysCloseSetup
      /\ table \in [Knobs -> 0..MaxSaves] /\ snapshot \in [Knobs -> 0..MaxSaves] /\ "openai" \in Knobs
  BY DEF SettingsInv, SettingsType, Knobs
<1>u. /\ job[a].at = knob
      /\ UNCHANGED <<table, setupFlag, saves, lock, blurred, made, live, shown, minters, cut, reopened>>
  BY DEF ReadKnob, keyVars
<1> DEFINE read == [job EXCEPT ![a].at = next,
                               ![a].seen[knob] = IF knob = "openai" THEN 0 ELSE table[knob]]
           failed == [job EXCEPT ![a].at = next, ![a].alone = FALSE]
<1>1. \/ /\ job' = read
         /\ snapshot' = IF knob = "openai" /\ table[knob] # 0
                        THEN [snapshot EXCEPT !.openai = table[knob]] ELSE snapshot
      \/ job' = failed /\ snapshot' = snapshot
  BY DEF ReadKnob
<1>2. /\ read \in [Actors -> JobType] /\ read[a].at = next /\ read[a].todo = job[a].todo
      /\ read[a].minted = job[a].minted
      /\ read[a].seen = [job[a].seen EXCEPT ![knob] = IF knob = "openai" THEN 0 ELSE table[knob]]
      /\ \A b \in Actors : b # a => read[b] = job[b]
  <2> DEFINE v == IF knob = "openai" THEN 0 ELSE table[knob]
  <2>1. v \in 0..MaxSaves
    BY <1>t, SettingsNats
  <2> HIDE DEF v
  <2>2. job[a] \in JobType /\ job[a].seen \in [Knobs -> 0..MaxSaves]
    BY <1>t DEF JobType
  <2>3. [job[a].seen EXCEPT ![knob] = v] \in [Knobs -> 0..MaxSaves]
    BY <2>1, <2>2
  <2>4. next \in {"idle", "work", "name", "flags", "openai", "store"}
    OBVIOUS
  <2>5. /\ [job EXCEPT ![a].at = next, ![a].seen[knob] = v] \in [Actors -> JobType]
        /\ [job EXCEPT ![a].at = next, ![a].seen[knob] = v][a].at = next
        /\ [job EXCEPT ![a].at = next, ![a].seen[knob] = v][a].todo = job[a].todo
        /\ [job EXCEPT ![a].at = next, ![a].seen[knob] = v][a].minted = job[a].minted
        /\ [job EXCEPT ![a].at = next, ![a].seen[knob] = v][a].seen = [job[a].seen EXCEPT ![knob] = v]
        /\ \A b \in Actors : b # a => [job EXCEPT ![a].at = next, ![a].seen[knob] = v][b] = job[b]
    BY <1>t, <2>2, <2>3, <2>4 DEF JobType
  <2> QED BY <2>5 DEF v
<1>a. read[a].alone = job[a].alone
  BY <1>t DEF JobType
<1>3. /\ failed \in [Actors -> JobType] /\ failed[a].at = next /\ failed[a].todo = job[a].todo
      /\ failed[a].minted = job[a].minted /\ ~failed[a].alone
      /\ \A b \in Actors : b # a => failed[b] = job[b]
  BY <1>t DEF JobType
<1> HIDE DEF read, failed
<1>4. /\ job' \in [Actors -> JobType] /\ job'[a].at = next
      /\ \A b \in Actors : job'[b].todo = job[b].todo /\ job'[b].minted = job[b].minted
      /\ \A b \in Actors : b # a => job'[b] = job[b]
  BY <1>1, <1>2, <1>3
<1>5. /\ snapshot' \in [Knobs -> 0..MaxSaves]
      /\ snapshot'["openai"] \in {snapshot["openai"], table["openai"]}
      /\ job' = failed \/ (job' = read /\ (knob = "openai" => snapshot'["openai"] = table["openai"]))
  <2>1. CASE job' = failed /\ snapshot' = snapshot
    BY <2>1, <1>t
  <2>2. CASE job' = read /\ knob = "openai" /\ table["openai"] # 0
             /\ snapshot' = [snapshot EXCEPT !["openai"] = table["openai"]]
    BY <2>2, <1>t
  <2>3. CASE job' = read /\ knob = "openai" /\ table["openai"] = 0 /\ snapshot' = snapshot
    BY <2>3, <1>t DEF SnapshotHolds
  <2>4. CASE job' = read /\ knob # "openai" /\ snapshot' = snapshot
    BY <2>4, <1>t
  <2> QED BY <1>1, <2>1, <2>2, <2>3, <2>4
<1>6. SettingsType'
  BY <1>t, <1>u, <1>4, <1>5 DEF SettingsType
<1>7. SnapshotHolds'
  <2>1. Reloading(a)'
    BY <1>4 DEF Reloading
  <2> QED BY <1>t, <1>u, <1>5, <2>1 DEF SnapshotHolds
<1>8. WizardsApart' /\ KeysCloseSetup'
  <2>1. \A b \in Actors : job'[b].at = "idle" => job[b].at = "idle"
    BY <1>4
  <2>2. WizardsApart'
    BY <1>t, <1>u, <1>4, <2>1 DEF WizardsApart
  <2>3. KeysCloseSetup'
    BY <1>t, <1>u, <1>4 DEF KeysCloseSetup, Complete
  <2> QED BY <2>2, <2>3
<1>9. ReadsHold'
  <2>1. ASSUME NEW b \in Actors, b # a, job'[b].alone
        PROVE  /\ job'[b].at \in {"flags", "openai", "store"} => job'[b].seen["name"] = table["name"]
               /\ job'[b].at \in {"openai", "store"} => job'[b].seen["flags"] = table["flags"]
               /\ job'[b].at = "store" => snapshot'["openai"] = table["openai"]
    BY <1>t, <1>4, <1>5, <2>1 DEF ReadsHold
  <2>2. ASSUME job'[a].alone
        PROVE  /\ next \in {"flags", "openai", "store"} => job'[a].seen["name"] = table["name"]
               /\ next \in {"openai", "store"} => job'[a].seen["flags"] = table["flags"]
               /\ next = "store" => snapshot'["openai"] = table["openai"]
    <3>1. job' = read /\ job[a].alone /\ (knob = "openai" => snapshot'["openai"] = table["openai"])
      BY <2>2, <1>3, <1>5, <1>a
    <3>2. job'[a].seen = [job[a].seen EXCEPT ![knob] = IF knob = "openai" THEN 0 ELSE table[knob]]
          /\ job[a].seen \in [Knobs -> 0..MaxSaves]
      BY <3>1, <1>2, <1>t DEF JobType
    <3>3. CASE knob = "name" /\ next = "flags"
      BY <3>2, <3>3
    <3>4. CASE knob = "flags" /\ next = "openai"
      <4>1. job[a].seen["name"] = table["name"]
        BY <1>t, <1>u, <3>1, <3>4 DEF ReadsHold
      <4> QED BY <3>2, <3>4, <4>1 DEF Knobs
    <3>5. CASE knob = "openai" /\ next = "store"
      <4>1. job[a].seen["name"] = table["name"] /\ job[a].seen["flags"] = table["flags"]
        BY <1>t, <1>u, <3>1, <3>5 DEF ReadsHold
      <4> QED BY <3>1, <3>2, <3>5, <4>1 DEF Knobs
    <3> QED BY <3>3, <3>4, <3>5
  <2> QED BY <1>u, <1>4, <2>1, <2>2 DEF ReadsHold
<1> QED BY <1>6, <1>7, <1>8, <1>9 DEF SettingsInv

LEMMA StoreStep ==
  ASSUME SettingsInv, NEW a \in Actors, StoreSnapshot(a)
  PROVE  SettingsInv'
<1>t. /\ job \in [Actors -> JobType] /\ SettingsType /\ ReadsHold /\ SnapshotHolds
      /\ WizardsApart /\ KeysCloseSetup
      /\ table \in [Knobs -> 0..MaxSaves] /\ snapshot \in [Knobs -> 0..MaxSaves]
      /\ job[a].seen \in [Knobs -> 0..MaxSaves]
  BY DEF SettingsInv, SettingsType, JobType
<1>u. /\ job[a].at = "store"
      /\ UNCHANGED <<table, setupFlag, saves, lock, made, live, shown, minters, cut, reopened>>
      /\ snapshot' = [job[a].seen EXCEPT !.openai = snapshot.openai]
      /\ blurred' = ~job[a].alone
  BY DEF StoreSnapshot, keyVars
<1> DEFINE done == [job EXCEPT ![a].at = "work", ![a].seen = NothingSeen, ![a].alone = TRUE]
<1>1. job' = done
  BY DEF StoreSnapshot
<1>2. /\ done \in [Actors -> JobType] /\ done[a].at = "work" /\ done[a].todo = job[a].todo
      /\ done[a].minted = job[a].minted
      /\ \A b \in Actors : b # a => done[b] = job[b]
  <2>1. job[a] \in JobType
    BY <1>t
  <2>2. /\ [job[a] EXCEPT !.at = "work", !.seen = NothingSeen, !.alone = TRUE] \in JobType
        /\ [job[a] EXCEPT !.at = "work", !.seen = NothingSeen, !.alone = TRUE].at = "work"
        /\ [job[a] EXCEPT !.at = "work", !.seen = NothingSeen, !.alone = TRUE].todo = job[a].todo
        /\ [job[a] EXCEPT !.at = "work", !.seen = NothingSeen, !.alone = TRUE].minted = job[a].minted
    BY <2>1, NoJobFacts DEF JobType
  <2>3. done = [job EXCEPT ![a] = [job[a] EXCEPT !.at = "work", !.seen = NothingSeen, !.alone = TRUE]]
    BY <1>t
  <2> HIDE DEF done
  <2> QED BY <1>t, <2>2, <2>3
<1> HIDE DEF done
<1>3. /\ job' \in [Actors -> JobType] /\ job'[a].at = "work"
      /\ \A b \in Actors : job'[b].todo = job[b].todo /\ job'[b].minted = job[b].minted
      /\ \A b \in Actors : b # a => job'[b] = job[b]
  BY <1>1, <1>2
<1>4. /\ snapshot' \in [Knobs -> 0..MaxSaves] /\ snapshot'["openai"] = snapshot["openai"]
      /\ \A k \in Knobs : k # "openai" => snapshot'[k] = job[a].seen[k]
  BY <1>t, <1>u DEF Knobs
<1>5. SettingsType'
  BY <1>t, <1>u, <1>3, <1>4 DEF SettingsType
<1>6. ReadsHold'
  BY <1>t, <1>u, <1>3, <1>4 DEF ReadsHold
<1>7. SnapshotHolds'
  <2>1. ASSUME job[a].alone PROVE snapshot' = table
    <3>1. /\ job[a].seen["name"] = table["name"] /\ job[a].seen["flags"] = table["flags"]
          /\ snapshot["openai"] = table["openai"]
      BY <2>1, <1>t, <1>u DEF ReadsHold
    <3>2. \A k \in Knobs : snapshot'[k] = table[k]
      BY <3>1, <1>4 DEF Knobs
    <3> QED BY <3>2, <1>t, <1>4
  <2>2. ~blurred' => job[a].alone
    BY <1>u
  <2> QED BY <1>t, <1>u, <1>4, <2>1, <2>2 DEF SnapshotHolds
<1>8. WizardsApart'
  <2>1. \A b \in Actors : job'[b].at = "idle" => job[b].at = "idle"
    BY <1>3
  <2> QED BY <1>t, <1>u, <1>3, <2>1 DEF WizardsApart
<1>9. KeysCloseSetup'
  BY <1>t, <1>u, <1>3 DEF KeysCloseSetup, Complete
<1> QED BY <1>5, <1>6, <1>7, <1>8, <1>9 DEF SettingsInv

LEMMA MintStep ==
  ASSUME SettingsInv, NEW a \in Actors, Mint(a)
  PROVE  SettingsInv'
<1>t. /\ job \in [Actors -> JobType] /\ SettingsType /\ ReadsHold /\ SnapshotHolds
      /\ WizardsApart /\ KeysCloseSetup
      /\ job[a] \in JobType /\ job[a].minted \subseteq Nat /\ job[a].todo \in Plans
      /\ made \in Nat /\ minters \in Nat /\ live \subseteq Nat
  BY DEF SettingsInv, SettingsType, JobType
<1>u. /\ AtWork(a, {"mint"}) /\ job[a].at = "work" /\ made' = made + 1 /\ live' = live \cup {made'}
      /\ minters' = minters + IF job[a].minted = {} THEN 1 ELSE 0
      /\ UNCHANGED <<table, setupFlag, snapshot, saves, lock, shown, cut, reopened, blurred>>
  BY DEF Mint, AtWork
<1>1. \/ job[a].todo = TwoKeys /\ Tail(job[a].todo) = OneKey
      \/ job[a].todo = OneKey /\ Tail(job[a].todo) = TheFlag
  BY <1>t, <1>u, MintFacts
<1>m. made' \in Nat /\ Tail(job[a].todo) \in Minted /\ Tail(job[a].todo) \in Plans
      /\ job[a].todo \in Unminted \cup Minted
  BY <1>t, <1>u, <1>1 DEF Minted, Unminted, Plans
<1> DEFINE new == [job EXCEPT ![a].todo = Tail(@), ![a].minted = @ \cup {made'}]
<1>2. job' = new
  BY DEF Mint
<1>3. /\ new \in [Actors -> JobType] /\ new[a].at = "work" /\ new[a].todo = Tail(job[a].todo)
      /\ new[a].minted = job[a].minted \cup {made'} /\ new[a].seen = job[a].seen
      /\ \A b \in Actors : b # a => new[b] = job[b]
  BY <1>t, <1>u, <1>m DEF JobType
<1> HIDE DEF new
<1>4. /\ job' \in [Actors -> JobType] /\ job'[a].at = "work" /\ job'[a].todo \in Minted
      /\ job'[a].minted # {}
      /\ \A b \in Actors : b # a => job'[b] = job[b]
  BY <1>2, <1>3, <1>m
<1>5. SettingsType'
  <2>1. minters' \in Nat /\ live' \subseteq Nat
    BY <1>t, <1>u, <1>m
  <2> QED BY <1>t, <1>u, <1>4, <1>m, <2>1 DEF SettingsType
<1>6. ReadsHold' /\ SnapshotHolds'
  <2>1. \A b \in Actors : Reloading(b)' <=> Reloading(b)
    BY <1>u, <1>4 DEF Reloading
  <2>2. ReadsHold'
    BY <1>t, <1>u, <1>4 DEF ReadsHold
  <2> QED BY <1>t, <1>u, <2>1, <2>2 DEF SnapshotHolds
<1>7. lock = {a} /\ \A b \in Actors : b # a => job[b].todo \notin Unminted \cup Minted /\ job[b].minted = {}
  BY <1>t, <1>m DEF WizardsApart
<1>8. WizardsApart'
  BY <1>t, <1>u, <1>4, <1>7, PlansDiffer DEF WizardsApart
<1>9. KeysCloseSetup'
  <2>1. live' # {}
    BY <1>u
  <2>2. minters' > 1 => reopened
    <3>1. CASE job[a].minted = {}
      <4>1. job[a].todo \in Unminted
        BY <3>1, <1>t, <1>m DEF WizardsApart
      <4>2. minters = 0 \/ reopened
        BY <4>1, <1>t DEF WizardsApart
      <4> QED BY <1>t, <1>u, <3>1, <4>2
    <3>2. CASE job[a].minted # {}
      BY <1>t, <1>u, <3>2 DEF KeysCloseSetup
    <3> QED BY <3>1, <3>2
  <2> QED BY <1>u, <1>4, <2>1, <2>2 DEF KeysCloseSetup, Complete
<1> QED BY <1>5, <1>6, <1>8, <1>9 DEF SettingsInv

LEMMA AnswerStep ==
  ASSUME SettingsInv, NEW a \in Actors, Answer(a)
  PROVE  SettingsInv'
<1>t. /\ job \in [Actors -> JobType] /\ SettingsType /\ ReadsHold /\ SnapshotHolds
      /\ WizardsApart /\ KeysCloseSetup /\ job[a].minted \subseteq Nat
  BY DEF SettingsInv, SettingsType, JobType
<1>u. /\ job[a].at = "work" /\ job[a].todo = <<>> /\ lock' = lock \ {a}
      /\ shown' = shown \cup job[a].minted
      /\ UNCHANGED <<table, setupFlag, snapshot, saves, made, live, minters, cut, reopened, blurred>>
  BY DEF Answer
<1>1. /\ job' \in [Actors -> JobType] /\ job'[a] = NoJob
      /\ \A b \in Actors : b # a => job'[b] = job[b]
  BY <1>t, NoJobFacts DEF Answer, Ended
<1>2. SettingsType'
  BY <1>t, <1>u, <1>1 DEF SettingsType
<1>3. ReadsHold' /\ SnapshotHolds'
  <2>1. \A b \in Actors : Reloading(b)' <=> Reloading(b)
    BY <1>u, <1>1, NoJobFacts DEF Reloading
  <2>2. ReadsHold'
    BY <1>t, <1>u, <1>1, NoJobFacts DEF ReadsHold
  <2> QED BY <1>t, <1>u, <2>1, <2>2 DEF SnapshotHolds
<1>4. WizardsApart'
  <2>1. ASSUME NEW b \in Actors, b # a, job[b].todo \in Unminted \cup Minted \/ job[b].minted # {}
        PROVE  lock' = {b}
    BY <1>t, <1>u, <2>1 DEF WizardsApart
  <2> QED BY <1>t, <1>u, <1>1, <2>1, PlansDiffer, NoJobFacts DEF WizardsApart
<1>5. KeysCloseSetup'
  BY <1>t, <1>u, <1>1 DEF KeysCloseSetup, Complete
<1> QED BY <1>2, <1>3, <1>4, <1>5 DEF SettingsInv

\* The keys command and the status request.
LEMMA KeySteps ==
  ASSUME SettingsInv,
         Keygen \/ SetupStatus \/ \E k \in ApiKeys : RevokeKey(k) \/ RotateKey(k)
  PROVE  SettingsInv'
<1>t. /\ job \in [Actors -> JobType] /\ SettingsType /\ ReadsHold /\ SnapshotHolds
      /\ WizardsApart /\ KeysCloseSetup /\ made \in Nat /\ live \subseteq Nat /\ shown \subseteq Nat
  BY DEF SettingsInv, SettingsType
<1>k. ApiKeys \subseteq Nat
  BY SettingsNats DEF ApiKeys
<1>u. /\ UNCHANGED <<table, setupFlag, snapshot, saves, job, lock, minters, cut, blurred>>
      /\ made' \in Nat /\ live' \subseteq Nat /\ shown' \subseteq Nat
      /\ reopened => reopened'
      /\ live # {} /\ live' = {} => setupFlag \/ reopened'
      /\ shown \subseteq shown'
      /\ live = {} /\ live' # {} => shown' # {}
  <2>1. CASE Keygen
    <3>1. made + 1 \in Nat /\ made' = made + 1
      BY <1>t, <2>1 DEF Keygen
    <3> QED BY <1>t, <2>1, <3>1 DEF Keygen, processVars
  <2>2. CASE SetupStatus
    BY <1>t, <2>2 DEF SetupStatus, keyVars
  <2>3. ASSUME NEW k \in ApiKeys, RevokeKey(k) PROVE <1>u!:
    BY <1>t, <2>3 DEF RevokeKey, processVars
  <2>4. ASSUME NEW k \in ApiKeys, RotateKey(k) PROVE <1>u!:
    BY <1>t, <1>k, <2>4 DEF RotateKey, processVars
  <2> QED BY <2>1, <2>2, <2>3, <2>4
<1>2. SettingsType'
  BY <1>t, <1>u DEF SettingsType
<1>3. ReadsHold' /\ SnapshotHolds'
  BY <1>t, <1>u DEF ReadsHold, SnapshotHolds, Reloading
<1>4. WizardsApart'
  BY <1>t, <1>u DEF WizardsApart
<1>5. KeysCloseSetup'
  BY <1>t, <1>u DEF KeysCloseSetup, Complete
<1> QED BY <1>2, <1>3, <1>4, <1>5 DEF SettingsInv

LEMMA RestartStep ==
  ASSUME SettingsInv, Restart
  PROVE  SettingsInv'
<1>t. /\ job \in [Actors -> JobType] /\ SettingsType /\ KeysCloseSetup
  BY DEF SettingsInv, SettingsType
<1>u. /\ job' = [a \in Actors |-> NoJob] /\ lock' = {}
      /\ cut' = (cut \/ \E a \in Actors : job[a].minted # {})
      /\ snapshot' = table \/ (snapshot' = NothingSeen /\ blurred' = TRUE)
      /\ UNCHANGED <<table, setupFlag, saves, made, live, shown, minters, reopened>>
  BY DEF Restart
<1>1. job' \in [Actors -> JobType] /\ \A a \in Actors : job'[a] = NoJob
  BY <1>u, NoJobFacts
<1>2. SettingsType'
  BY <1>t, <1>u, <1>1, NoJobFacts DEF SettingsType
<1>3. ReadsHold' /\ WizardsApart'
  BY <1>1, NoJobFacts, PlansDiffer DEF ReadsHold, WizardsApart
<1>4. SnapshotHolds'
  <2>1. snapshot' = NothingSeen => snapshot'["openai"] = 0
    BY DEF NothingSeen, Knobs
  <2> QED BY <1>u, <2>1 DEF SnapshotHolds
<1>5. KeysCloseSetup'
  BY <1>t, <1>u DEF KeysCloseSetup, Complete
<1> QED BY <1>2, <1>3, <1>4, <1>5 DEF SettingsInv

LEMMA SettingsStep == SettingsInv /\ [SettingsNext]_settingsVars => SettingsInv'
<1> SUFFICES ASSUME SettingsInv, [SettingsNext]_settingsVars PROVE SettingsInv'
  OBVIOUS
<1>1. ASSUME NEW a \in Actors, CompleteSetup(a) \/ PutSettings(a) PROVE SettingsInv'
  BY <1>1, StartSteps
<1>2. ASSUME NEW a \in Actors, Save(a) PROVE SettingsInv'
  BY <1>2, SaveStep
<1>3. ASSUME NEW a \in Actors, SaveFails(a) \/ MintFails(a) PROVE SettingsInv'
  BY <1>3, FailSteps
<1>4. ASSUME NEW a \in Actors,
             \/ ReadKnob(a, "name", "flags") \/ ReadKnob(a, "flags", "openai")
             \/ ReadKnob(a, "openai", "store")
      PROVE  SettingsInv'
  BY <1>4, ReadStep DEF Knobs
<1>5. ASSUME NEW a \in Actors, StoreSnapshot(a) PROVE SettingsInv'
  BY <1>5, StoreStep
<1>6. ASSUME NEW a \in Actors, Mint(a) PROVE SettingsInv'
  BY <1>6, MintStep
<1>7. ASSUME NEW a \in Actors, Answer(a) PROVE SettingsInv'
  BY <1>7, AnswerStep
<1>8. ASSUME Keygen \/ SetupStatus \/ \E k \in ApiKeys : RevokeKey(k) \/ RotateKey(k)
      PROVE  SettingsInv'
  BY <1>8, KeySteps
<1>9. CASE Restart
  BY <1>9, RestartStep
<1>10. CASE UNCHANGED settingsVars
  BY <1>10 DEF settingsVars, SettingsInv, SettingsType, ReadsHold, SnapshotHolds, Reloading,
     WizardsApart, KeysCloseSetup, Complete
<1> QED BY <1>1, <1>2, <1>3, <1>4, <1>5, <1>6, <1>7, <1>8, <1>9, <1>10 DEF SettingsNext

\* The invariant of the settings.
LEMMA SettingsInvariant == SettingsSpec => []SettingsInv
<1>1. SettingsInit => SettingsInv
  <2> SUFFICES ASSUME SettingsInit PROVE SettingsInv
    OBVIOUS
  <2>1. job \in [Actors -> JobType] /\ \A a \in Actors : job[a] = NoJob
    BY NoJobFacts DEF SettingsInit
  <2>2. SettingsType
    <3>1. 0 \in 0..MaxSaves
      BY SettingsNats
    <3> QED BY <2>1, <3>1, NoJobFacts DEF SettingsInit, SettingsType
  <2>3. ReadsHold /\ WizardsApart
    BY <2>1, NoJobFacts, PlansDiffer DEF ReadsHold, WizardsApart
  <2>4. SnapshotHolds /\ KeysCloseSetup
    BY DEF SettingsInit, SnapshotHolds, KeysCloseSetup, Complete
  <2> QED BY <2>2, <2>3, <2>4 DEF SettingsInv
<1> QED BY <1>1, SettingsStep, PTL DEF SettingsSpec

\* The process acts on the settings in the table whenever no request is at work and the
\* last reload was undisturbed; a second wizard run mints only after every key was
\* revoked; and a refused wizard means somebody was given a key or a run was cut short:
\* settings.go and api/setup.go with any number of requests, failures and restarts.
THEOREM SettingsAreSound == SettingsSpec => []SettingsSound
<1>1. SettingsInv => SettingsSound
  <2> SUFFICES ASSUME SettingsInv PROVE SettingsSound
    OBVIOUS
  <2>1. SnapshotCurrent
    BY DEF SettingsInv, SnapshotHolds, SnapshotCurrent, Reloading
  <2>2. OneWizardMints
    BY DEF SettingsInv, KeysCloseSetup, OneWizardMints
  <2>3. ClosedMeansShown
    BY DEF SettingsInv, KeysCloseSetup, WizardsApart, ClosedMeansShown
  <2> QED BY <2>1, <2>2, <2>3 DEF SettingsSound
<1> QED BY <1>1, SettingsInvariant, PTL

\* The counts of what a request made, with their bounds.
SettingsTypes == SettingsTypeOK /\ minters <= made /\ identity <= mishaps + 1

\* What a step may do to keys, counts and flags.
LEMMA SettingsTypeStep == SettingsInv /\ SettingsTypes /\ [SettingsNext]_settingsVars => SettingsTypes'
<1> SUFFICES ASSUME SettingsInv, SettingsTypes, [SettingsNext]_settingsVars PROVE SettingsTypes'
  OBVIOUS
<1> DEFINE Flags == {setupFlag, setupDone, token, cut, reopened, blurred} \subseteq BOOLEAN
           Keyed == made \in 0..MaxApiKeys /\ live \subseteq 1..made /\ shown \subseteq 1..made
           Counts == /\ identity \in 1..(MaxMishaps + 1) /\ mishaps \in 0..MaxMishaps
                     /\ minters \in 0..MaxApiKeys /\ minters <= made /\ identity <= mishaps + 1
           Mine == \A b \in Actors : job[b].minted \subseteq 1..made
<1>t. /\ Flags /\ Keyed /\ Counts /\ Mine /\ lock \subseteq Actors
      /\ job \in [Actors -> JobType] /\ job' \in [Actors -> JobType] /\ SettingsType'
      /\ \A b \in Actors : job[b].alone \in BOOLEAN
  BY SettingsStep DEF SettingsInv, SettingsType, SettingsTypes, SettingsTypeOK, JobType
<1>n. MaxApiKeys \in Nat /\ MaxMishaps \in Nat /\ ApiKeys = 1..MaxApiKeys
  BY SettingsNats DEF ApiKeys
<1>j. NoJob.minted = {} /\ NoJob.at = "idle"
  BY DEF NoJob
<1> SUFFICES Flags' /\ Keyed' /\ Counts' /\ Mine' /\ lock' \subseteq Actors
  <2>1. \A b \in Actors : /\ job'[b].at \in {"idle", "work", "name", "flags", "openai", "store"}
                          /\ job'[b].seen \in [Knobs -> 0..MaxSaves] /\ job'[b].alone \in BOOLEAN
    BY <1>t DEF JobType
  <2> QED BY <1>t, <2>1 DEF SettingsType, SettingsTypes, SettingsTypeOK
\* A step that makes no key and tells nobody of one.
<1>k. ASSUME UNCHANGED <<made, live, shown, minters>>,
             \A b \in Actors : job'[b].minted \subseteq job[b].minted
      PROVE  Keyed' /\ Mine' /\ (UNCHANGED <<identity, mishaps>> => Counts')
  BY <1>t, <1>k
<1>m. ASSUME Mishap PROVE mishaps' \in 0..MaxMishaps /\ mishaps' = mishaps + 1
  BY <1>t, <1>n, <1>m DEF Mishap
<1>s. ASSUME NEW a \in Actors, NEW knob, Upsert(knob) PROVE setupFlag' \in BOOLEAN
  BY <1>t, <1>s DEF Upsert
<1>1. ASSUME NEW a \in Actors, CompleteSetup(a) \/ PutSettings(a)
      PROVE  Flags' /\ Keyed' /\ Counts' /\ Mine' /\ lock' \subseteq Actors
  <2>1. \A b \in Actors : job'[b].minted \subseteq job[b].minted
    BY <1>t, <1>1, <1>j DEF CompleteSetup, PutSettings, NoJob
  <2> QED BY <1>t, <1>k, <1>1, <2>1 DEF CompleteSetup, PutSettings, keyVars
<1>2. ASSUME NEW a \in Actors, Save(a)
      PROVE  Flags' /\ Keyed' /\ Counts' /\ Mine' /\ lock' \subseteq Actors
  <2>1. \A b \in Actors : job'[b].minted \subseteq job[b].minted
    <3>1. Disturbed(job)[a] \in JobType /\ \A b \in Actors : Disturbed(job)[b].minted = job[b].minted
      BY <1>t, DisturbedFacts
    <3>2. /\ DOMAIN Disturbed(job) = Actors
          /\ \E w \in {TRUE, FALSE} : job' = [Disturbed(job) EXCEPT
               ![a] = [job[a] EXCEPT !.at = "name", !.todo = Tail(@), !.alone = w]]
      BY <1>2 DEF Save, Disturbed
    <3>3. \A w \in BOOLEAN : [job[a] EXCEPT !.at = "name", !.todo = Tail(@), !.alone = w].minted = job[a].minted
      BY <1>t DEF JobType
    <3> QED BY <3>1, <3>2, <3>3
  <2>2. setupFlag' \in BOOLEAN
    BY <1>s, <1>2 DEF Save
  <2> QED BY <1>t, <1>k, <1>2, <2>1, <2>2 DEF Save, keyVars
<1>3. ASSUME NEW a \in Actors, SaveFails(a) \/ MintFails(a)
      PROVE  Flags' /\ Keyed' /\ Counts' /\ Mine' /\ lock' \subseteq Actors
  <2>1. \A b \in Actors : job'[b].minted \subseteq job[b].minted
    <3>1. /\ Ended(a) \in [Actors -> JobType]
          /\ \A b \in Actors : Ended(a)[b].minted \subseteq job[b].minted
      BY <1>t, <1>j, NoJobFacts DEF Ended
    <3>2. \A b \in Actors : Disturbed(Ended(a))[b].minted = Ended(a)[b].minted
      BY <3>1, DisturbedFacts
    <3>3. job' = Ended(a) \/ job' = Disturbed(Ended(a))
      BY <1>3 DEF SaveFails, MintFails
    <3> QED BY <3>1, <3>2, <3>3
  <2>2. setupFlag' \in BOOLEAN /\ blurred' \in BOOLEAN
    BY <1>t, <1>s, <1>3 DEF SaveFails, MintFails
  <2>3. cut' \in BOOLEAN /\ lock' \subseteq Actors /\ mishaps' \in 0..MaxMishaps /\ mishaps' = mishaps + 1
    BY <1>t, <1>m, <1>3 DEF SaveFails, MintFails, Abort
  <2>4. UNCHANGED <<made, live, shown, minters, identity, setupDone, token, reopened>>
    BY <1>3 DEF SaveFails, MintFails
  <2> QED BY <1>t, <1>k, <2>1, <2>2, <2>3, <2>4
<1>4. ASSUME NEW a \in Actors,
             \/ ReadKnob(a, "name", "flags") \/ ReadKnob(a, "flags", "openai")
             \/ ReadKnob(a, "openai", "store")
      PROVE  Flags' /\ Keyed' /\ Counts' /\ Mine' /\ lock' \subseteq Actors
  <2>1. \A b \in Actors : job'[b].minted \subseteq job[b].minted
    BY <1>t, <1>4 DEF ReadKnob, JobType
  <2>2. UNCHANGED <<made, live, shown, minters, identity, setupFlag, setupDone, token, cut, reopened,
                    blurred, lock>>
    BY <1>4 DEF ReadKnob, keyVars
  <2>3. mishaps' = mishaps \/ (mishaps' \in 0..MaxMishaps /\ mishaps' = mishaps + 1)
    BY <1>m, <1>4 DEF ReadKnob
  <2> QED BY <1>t, <1>k, <2>1, <2>2, <2>3
<1>5. ASSUME NEW a \in Actors, StoreSnapshot(a)
      PROVE  Flags' /\ Keyed' /\ Counts' /\ Mine' /\ lock' \subseteq Actors
  <2>1. \A b \in Actors : job'[b].minted \subseteq job[b].minted
    BY <1>t, <1>5 DEF StoreSnapshot, JobType
  <2> QED BY <1>t, <1>k, <1>5, <2>1 DEF StoreSnapshot, keyVars
<1>6. ASSUME NEW a \in Actors, Mint(a)
      PROVE  Flags' /\ Keyed' /\ Counts' /\ Mine' /\ lock' \subseteq Actors
  <2>1. /\ made < MaxApiKeys /\ made' = made + 1 /\ live' = live \cup {made'}
        /\ minters' = minters + IF job[a].minted = {} THEN 1 ELSE 0
        /\ UNCHANGED <<identity, mishaps, setupFlag, setupDone, token, cut, reopened, blurred, lock, shown>>
    BY <1>6 DEF Mint
  <2>2. \A b \in Actors : job'[b].minted \subseteq job[b].minted \cup {made'}
    BY <1>t, <1>6 DEF Mint, JobType
  <2>3. made' \in 0..MaxApiKeys /\ 1..made \subseteq 1..made' /\ made' \in 1..made'
    BY <1>t, <1>n, <2>1
  <2>4. Keyed'
    BY <1>t, <2>1, <2>3
  <2>5. Mine'
    BY <1>t, <2>2, <2>3
  <2>6. minters' <= made' /\ minters' \in 0..MaxApiKeys
    BY <1>t, <1>n, <2>1
  <2> QED BY <1>t, <2>1, <2>4, <2>5, <2>6
<1>7. ASSUME NEW a \in Actors, Answer(a)
      PROVE  Flags' /\ Keyed' /\ Counts' /\ Mine' /\ lock' \subseteq Actors
  <2>1. \A b \in Actors : job'[b].minted \subseteq job[b].minted
    BY <1>t, <1>7, <1>j DEF Answer, Ended
  <2> QED BY <1>t, <1>7, <2>1 DEF Answer
<1>8. ASSUME Keygen \/ SetupStatus \/ \E k \in ApiKeys : RevokeKey(k) \/ RotateKey(k)
      PROVE  Flags' /\ Keyed' /\ Counts' /\ Mine' /\ lock' \subseteq Actors
  <2>1. CASE Keygen
    <3>1. /\ made < MaxApiKeys /\ made' = made + 1 /\ live' = live \cup {made'}
          /\ shown' = shown \cup {made'}
          /\ UNCHANGED <<identity, mishaps, setupFlag, setupDone, token, cut, reopened, blurred, lock, job,
                         minters>>
      BY <2>1 DEF Keygen, processVars
    <3>2. made' \in 0..MaxApiKeys /\ 1..made \subseteq 1..made' /\ made' \in 1..made' /\ made <= made'
      BY <1>t, <1>n, <3>1
    <3>3. Keyed'
      BY <1>t, <3>1, <3>2
    <3>4. Mine'
      BY <1>t, <3>1, <3>2
    <3>5. minters' <= made'
      BY <1>t, <1>n, <3>1
    <3> QED BY <1>t, <3>1, <3>3, <3>4, <3>5
  <2>2. CASE SetupStatus
    BY <1>t, <2>2 DEF SetupStatus, keyVars
  <2>3. ASSUME NEW k \in ApiKeys, RevokeKey(k)
        PROVE  Flags' /\ Keyed' /\ Counts' /\ Mine' /\ lock' \subseteq Actors
    BY <1>t, <2>3 DEF RevokeKey, processVars
  <2>4. ASSUME NEW k \in ApiKeys, RotateKey(k)
        PROVE  Flags' /\ Keyed' /\ Counts' /\ Mine' /\ lock' \subseteq Actors
    BY <1>t, <2>4 DEF RotateKey, processVars
  <2> QED BY <1>8, <2>1, <2>2, <2>3, <2>4
<1>9. CASE Restart
  <2>1. \A b \in Actors : job'[b].minted \subseteq job[b].minted
    BY <1>t, <1>9, <1>j DEF Restart
  <2>2. Flags' /\ lock' \subseteq Actors
    BY <1>t, <1>9 DEF Restart, Complete
  <2>3. /\ UNCHANGED <<made, live, shown, minters>>
        /\ \/ UNCHANGED <<identity, mishaps>>
           \/ /\ mishaps' = mishaps + 1 /\ mishaps' \in 0..MaxMishaps
              /\ identity' = identity \/ identity' = identity + 1
    BY <1>m, <1>9 DEF Restart
  <2> QED BY <1>t, <1>k, <1>n, <2>1, <2>2, <2>3
<1>10. CASE UNCHANGED settingsVars
  BY <1>t, <1>10 DEF settingsVars
<1> QED BY <1>1, <1>2, <1>3, <1>4, <1>5, <1>6, <1>7, <1>8, <1>9, <1>10 DEF SettingsNext

\* The settings, the keys and the process keep their types.
LEMMA SettingsTypeCorrect == SettingsSpec => []SettingsTypeOK
<1>1. SettingsInit => SettingsTypes
  <2> SUFFICES ASSUME SettingsInit PROVE SettingsTypes
    OBVIOUS
  <2>1. \A a \in Actors : job[a] = NoJob
    BY DEF SettingsInit
  <2>2. NoJob.seen \in [Knobs -> 0..MaxSaves] /\ NoJob.alone \in BOOLEAN
    BY NoJobFacts DEF JobType
  <2>3. \A a \in Actors :
          /\ job[a].at \in {"idle", "work", "name", "flags", "openai", "store"}
          /\ job[a].seen \in [Knobs -> 0..MaxSaves]
          /\ job[a].minted \subseteq 1..made
          /\ job[a].alone \in BOOLEAN
    BY <2>1, <2>2, NoJobFacts
  <2>4. 0 \in 0..MaxSaves /\ 0 \in 0..MaxApiKeys /\ 0 \in 0..MaxMishaps /\ 1 \in 1..(MaxMishaps + 1)
        /\ 1 <= 0 + 1
    BY SettingsNats
  <2>5. /\ table \in [Knobs -> 0..MaxSaves] /\ snapshot \in [Knobs -> 0..MaxSaves]
        /\ {setupFlag, setupDone, token, cut, reopened, blurred} \subseteq BOOLEAN
    BY NoJobFacts DEF SettingsInit
  <2>6. /\ made \in 0..MaxApiKeys /\ minters \in 0..MaxApiKeys /\ minters <= made
        /\ saves \in 0..MaxSaves /\ mishaps \in 0..MaxMishaps
        /\ identity \in 1..(MaxMishaps + 1) /\ identity <= mishaps + 1
        /\ live \subseteq 1..made /\ shown \subseteq 1..made /\ lock \subseteq Actors
    BY <2>4 DEF SettingsInit
  <2> QED BY <2>3, <2>5, <2>6 DEF SettingsTypes, SettingsTypeOK
<1>2. SettingsTypes => SettingsTypeOK
  BY DEF SettingsTypes
<1> QED BY <1>1, <1>2, SettingsInvariant, SettingsTypeStep, PTL DEF SettingsSpec

=============================================================================
