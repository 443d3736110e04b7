--------------------------- MODULE StorageProofs ---------------------------
(***************************************************************************)
(* Proofs about what is deleted for good, for any number of requests,      *)
(* projects, items and files: the purge of a project, the attachments of   *)
(* an item and the sweep of the items that were deleted a month ago; and   *)
(* about the tree of the projects, whose parents are checked one by one.   *)
(***************************************************************************)
EXTENDS Projects, Attachments, FiniteSetTheorems, WellFoundedInduction, TLAPS

----------------------------------------------------------------------------
(* Purging a project. *)

\* What a purge has looked at is so, or its request is marked as overtaken.
PurgeKnows(r) ==
  /\ r.at # "idle" => r.slug \in Slugs
  /\ r.at \in {"children", "keys", "delete"} => status[r.slug] = "archived" \/ r.moved
  /\ r.at \in {"keys", "delete"} => Children(r.slug) = {} \/ r.moved

\* The objects a purge will delete have no row, or one that goes first.
KeysKnown(r) ==
  /\ r.keys \subseteq uploaded
  /\ r.at \in {"delete", "blobs"} =>
       \A o \in r.keys : owner[o] = NoSlug \/ (r.at = "delete" /\ owner[o] = r.slug)

\* A project that does not exist has no parent.
Rootless == \A s \in Slugs : status[s] = "absent" => parent[s] = NoSlug

\* An object whose row exists was uploaded.
OwnedUploaded == \A o \in Objects : owner[o] # NoSlug => o \in uploaded

ProjectInv ==
  /\ ProjectsTypeOK /\ Rootless /\ OwnedUploaded /\ RowsKeepBlobs
  /\ \A a \in Admins : PurgeKnows(request[a]) /\ KeysKnown(request[a])

LEMMA RequestFacts ==
  ASSUME ProjectsTypeOK, NEW a \in Admins
  PROVE  /\ request[a] \in Request /\ request[a].slug \in Slugs \cup {NoSlug}
         /\ request[a].to \in Slugs \cup {NoSlug} /\ request[a].keys \subseteq Objects
         /\ request[a].moved \in BOOLEAN /\ request[a].create \in BOOLEAN
         /\ request[a].at \in {"idle", "walk", "write", "children", "keys", "delete", "blobs"}
BY DEF ProjectsTypeOK, Request

LEMMA NoRequestFacts ==
  /\ NoRequest \in Request /\ NoRequest.at = "idle" /\ NoRequest.keys = {}
  /\ NoRequest.slug = NoSlug /\ NoRequest.to = NoSlug
BY DEF NoRequest, Request

\* Moved marks the requests it overtakes and changes nothing else of them.
LEMMA MovedFacts ==
  ASSUME ProjectsTypeOK, NEW a, NEW tree \in BOOLEAN, NEW ss, NEW b \in Admins
  PROVE  LET m == Moved(a, tree, ss) IN
         /\ m \in [Admins -> Request]
         /\ m[b].at = request[b].at /\ m[b].slug = request[b].slug /\ m[b].keys = request[b].keys
         /\ request[b].moved => m[b].moved
         /\ b # a /\ request[b].slug \in ss /\ request[b].at \in {"children", "keys", "delete"}
              => m[b].moved
<1> DEFINE m == Moved(a, tree, ss)
<1>1. ASSUME NEW d \in Admins
      PROVE  /\ m[d] \in Request
             /\ m[d].at = request[d].at /\ m[d].slug = request[d].slug /\ m[d].keys = request[d].keys
             /\ request[d].moved => m[d].moved
             /\ d # a /\ request[d].slug \in ss /\ request[d].at \in {"children", "keys", "delete"}
                  => m[d].moved
  <2>1. request[d] \in Request
    BY RequestFacts
  <2>2. [request[d] EXCEPT !.moved = TRUE] \in Request
    BY <2>1 DEF Request
  <2>3. LET n == [request[d] EXCEPT !.moved = TRUE] IN
        /\ n.at = request[d].at /\ n.slug = request[d].slug /\ n.keys = request[d].keys
        /\ n.moved = TRUE
    BY <2>1 DEF Request
  <2>4. \/ m[d] = [request[d] EXCEPT !.moved = TRUE]
        \/ /\ m[d] = request[d]
           /\ ~(d # a /\ request[d].slug \in ss /\ request[d].at \in {"children", "keys", "delete"})
    BY DEF Moved
  <2> HIDE DEF m
  <2>5. CASE m[d] = [request[d] EXCEPT !.moved = TRUE]
    BY <2>2, <2>3, <2>5
  <2>6. CASE m[d] = request[d] /\ ~(d # a /\ request[d].slug \in ss
                                     /\ request[d].at \in {"children", "keys", "delete"})
    BY <2>1, <2>6
  <2> QED BY <2>4, <2>5, <2>6
<1>2. m = [d \in Admins |-> m[d]]
  BY DEF Moved
<1> HIDE DEF m
<1>3. m \in [Admins -> Request]
  BY <1>1, <1>2
<1> QED BY <1>1, <1>3 DEF m

\* The requests after a delete: the one that made it goes on to the blobs.
LEMMA DeletedFacts ==
  ASSUME ProjectsTypeOK, NEW a \in Admins, NEW tree \in BOOLEAN, NEW ss,
         request' = [Moved(a, tree, ss) EXCEPT ![a].at = "blobs"]
  PROVE  /\ request' \in [Admins -> Request]
         /\ request'[a].at = "blobs" /\ request'[a].slug = request[a].slug
         /\ request'[a].keys = request[a].keys
         /\ \A b \in Admins : b # a =>
              /\ request'[b].at = request[b].at /\ request'[b].slug = request[b].slug
              /\ request'[b].keys = request[b].keys
              /\ request[b].moved => request'[b].moved
              /\ request[b].slug \in ss /\ request[b].at \in {"children", "keys", "delete"}
                   => request'[b].moved
<1> DEFINE m == Moved(a, tree, ss)
<1>1. /\ m \in [Admins -> Request]
      /\ \A b \in Admins :
           /\ m[b].at = request[b].at /\ m[b].slug = request[b].slug /\ m[b].keys = request[b].keys
           /\ request[b].moved => m[b].moved
           /\ b # a /\ request[b].slug \in ss /\ request[b].at \in {"children", "keys", "delete"}
                => m[b].moved
  BY MovedFacts
<1>2. request' = [m EXCEPT ![a].at = "blobs"]
  OBVIOUS
<1> HIDE DEF m
<1>3. [m[a] EXCEPT !.at = "blobs"] \in Request
  BY <1>1 DEF Request
<1>4. request' = [m EXCEPT ![a] = [m[a] EXCEPT !.at = "blobs"]]
  BY <1>1, <1>2
<1>5. LET n == [m[a] EXCEPT !.at = "blobs"] IN
      n.at = "blobs" /\ n.slug = m[a].slug /\ n.keys = m[a].keys
  BY <1>1 DEF Request
<1> QED BY <1>1, <1>3, <1>4, <1>5

\* A step that moves one request on, its rows and objects as they are.
LEMMA RequestStep ==
  ASSUME ProjectInv, NEW a \in Admins, NEW r \in Request, request' = [request EXCEPT ![a] = r],
         UNCHANGED <<status, parent, owner, objects, uploaded, staleEdge>>,
         PurgeKnows(r), KeysKnown(r)
  PROVE  ProjectInv'
<1>1. \A b \in Admins : request'[b] = IF b = a THEN r ELSE request[b]
  BY DEF ProjectInv, ProjectsTypeOK
<1>2. ProjectsTypeOK'
  BY DEF ProjectInv, ProjectsTypeOK
<1>3. \A b \in Admins : PurgeKnows(request[b])' /\ KeysKnown(request[b])'
  BY <1>1 DEF ProjectInv, PurgeKnows, KeysKnown, Children, Exists
<1> QED BY <1>2, <1>3 DEF ProjectInv, Rootless, OwnedUploaded, RowsKeepBlobs

LEMMA EndRequest ==
  ASSUME ProjectInv, NEW a \in Admins, request' = Done(a, request),
         UNCHANGED <<status, parent, owner, objects, uploaded, staleEdge>>
  PROVE  ProjectInv'
<1>1. PurgeKnows(NoRequest) /\ KeysKnown(NoRequest)
  BY NoRequestFacts DEF PurgeKnows, KeysKnown
<1> QED BY <1>1, NoRequestFacts, RequestStep DEF Done

\* A write of the tree: projects outside ss stay archived if they are and get no
\* new children, and the requests about a project of ss are marked.
LEMMA TreeStep ==
  ASSUME ProjectInv, ProjectsTypeOK', Rootless', UNCHANGED <<owner, objects, uploaded>>,
         NEW ss,
         \A s \in Slugs \ ss :
           /\ status[s] = "archived" => status'[s] = "archived"
           /\ Children(s)' \subseteq Children(s),
         \A b \in Admins :
           \/ request'[b] = NoRequest
           \/ /\ request'[b].at = request[b].at /\ request'[b].slug = request[b].slug
              /\ request'[b].keys = request[b].keys
              /\ request[b].moved => request'[b].moved
              /\ request[b].slug \in ss /\ request[b].at \in {"children", "keys", "delete"}
                   => request'[b].moved
  PROVE  ProjectInv'
<1>1. ASSUME NEW b \in Admins PROVE PurgeKnows(request[b])' /\ KeysKnown(request[b])'
  <2>1. PurgeKnows(request[b]) /\ KeysKnown(request[b])
    BY DEF ProjectInv
  <2>2. CASE request'[b] = NoRequest
    BY <2>2, NoRequestFacts DEF PurgeKnows, KeysKnown
  <2>3. CASE /\ request'[b].at = request[b].at /\ request'[b].slug = request[b].slug
             /\ request'[b].keys = request[b].keys
             /\ request[b].moved => request'[b].moved
             /\ request[b].slug \in ss /\ request[b].at \in {"children", "keys", "delete"}
                  => request'[b].moved
    <3>1. KeysKnown(request[b])'
      BY <2>1, <2>3 DEF KeysKnown
    <3>2. \A s \in Slugs \ ss : Children(s) = {} => {k \in Slugs : Exists(k)' /\ parent'[k] = s} = {}
      BY DEF Children
    <3>3. PurgeKnows(request[b])'
      BY <2>1, <2>3, <3>2 DEF PurgeKnows, Children
    <3> QED BY <3>1, <3>3
  <2> QED BY <2>2, <2>3
<1> QED BY <1>1 DEF ProjectInv, OwnedUploaded, RowsKeepBlobs

LEMMA ParentSteps ==
  ASSUME ProjectInv, NEW a \in Admins,
         \/ \E s \in Slugs, p \in Slugs, create \in BOOLEAN : AskParent(a, s, p, create)
         \/ Walk(a)
  PROVE  ProjectInv'
<1>t. ProjectsTypeOK /\ PurgeKnows(request[a]) /\ KeysKnown(request[a])
  BY DEF ProjectInv
<1>1. ASSUME NEW s \in Slugs, NEW p \in Slugs, NEW create \in BOOLEAN, AskParent(a, s, p, create)
      PROVE  ProjectInv'
  <2> DEFINE r == [NoRequest EXCEPT !.at = "walk", !.slug = s, !.to = p, !.create = create]
  <2>1. r \in Request /\ r.at = "walk" /\ r.slug = s /\ r.keys = {}
    BY NoRequestFacts DEF Request
  <2>2. request' = [request EXCEPT ![a] = r]
    BY <1>1 DEF AskParent
  <2> HIDE DEF r
  <2>3. PurgeKnows(r) /\ KeysKnown(r)
    BY <2>1 DEF PurgeKnows, KeysKnown
  <2> QED BY <1>1, <2>1, <2>2, <2>3, RequestStep DEF AskParent
<1>2. CASE Walk(a)
  <2> DEFINE r == [request[a] EXCEPT !.at = "write"]
  <2>1. /\ r \in Request /\ r.at = "write" /\ r.slug = request[a].slug /\ r.keys = request[a].keys
    BY <1>t, RequestFacts DEF Request
  <2>2. request' = Done(a, request) \/ request' = [request EXCEPT ![a] = r]
    BY <1>2 DEF Walk
  <2> HIDE DEF r
  <2>3. PurgeKnows(r) /\ KeysKnown(r)
    BY <1>2, <1>t, <2>1 DEF PurgeKnows, KeysKnown, Walk
  <2> QED BY <1>2, <2>1, <2>2, <2>3, RequestStep, EndRequest DEF Walk
<1> QED BY <1>1, <1>2

\* The requests after a write of the tree by a, whose own request is over.
LEMMA MarkedFacts ==
  ASSUME ProjectsTypeOK, NEW a, NEW tree \in BOOLEAN, NEW ss,
         request' = Done(a, Moved(a, tree, ss)) \/ (a \notin Admins /\ request' = Moved(a, tree, ss))
  PROVE  /\ request' \in [Admins -> Request]
         /\ \A b \in Admins :
              \/ request'[b] = NoRequest
              \/ /\ request'[b].at = request[b].at /\ request'[b].slug = request[b].slug
                 /\ request'[b].keys = request[b].keys
                 /\ request[b].moved => request'[b].moved
                 /\ request[b].slug \in ss /\ request[b].at \in {"children", "keys", "delete"}
                      => request'[b].moved
<1> DEFINE m == Moved(a, tree, ss)
<1>1. /\ Admins # {} => m \in [Admins -> Request]
      /\ \A b \in Admins :
           /\ m[b].at = request[b].at /\ m[b].slug = request[b].slug /\ m[b].keys = request[b].keys
           /\ request[b].moved => m[b].moved
           /\ b # a /\ request[b].slug \in ss /\ request[b].at \in {"children", "keys", "delete"}
                => m[b].moved
  BY MovedFacts
<1>2. m \in [Admins -> Request]
  <2>1. m = [b \in Admins |-> m[b]]
    BY DEF Moved
  <2> HIDE DEF m
  <2>2. CASE Admins = {}
    BY <2>1, <2>2
  <2> QED BY <1>1, <2>2
<1>3. request' = Done(a, m) \/ (a \notin Admins /\ request' = m)
  OBVIOUS
<1> HIDE DEF m
<1> QED BY <1>1, <1>2, <1>3, NoRequestFacts DEF Done

LEMMA WriteParentStep ==
  ASSUME ProjectInv, NEW a \in Admins, WriteParent(a)
  PROVE  ProjectInv'
<1>t. ProjectsTypeOK /\ Rootless
  BY DEF ProjectInv
<1> DEFINE s == request[a].slug
           p == request[a].to
<1>1. CASE ~(Exists(s) /\ Exists(p))
  BY <1>1, EndRequest DEF WriteParent
<1>2. CASE Exists(s) /\ Exists(p)
  <2>1. PICK n \in Patched(s) : status' = n
    BY <1>2 DEF WriteParent
  <2> DEFINE ss == {p} \cup {x \in {s} : status' # status}
  <2>2. /\ s \in Slugs /\ p \in Slugs /\ status[s] # "absent"
        /\ parent' = [parent EXCEPT ![s] = p] /\ staleEdge' \subseteq Slugs
        /\ request' = Done(a, Moved(a, TRUE, ss)) /\ UNCHANGED <<owner, objects, uploaded>>
    BY <1>2, <1>t DEF WriteParent, Exists, ProjectsTypeOK
  <2>3. /\ status' \in [Slugs -> {"absent", "active", "archived"}]
        /\ status' = status \/ (s \in ss /\ status'[s] # "absent")
        /\ \A x \in Slugs : x # s => status'[x] = status[x]
    BY <2>1, <2>2, <1>t DEF Patched, ProjectsTypeOK
  <2>r. p \in ss
    OBVIOUS
  <2> HIDE DEF s, p, ss
  <2>4. Rootless'
    BY <1>t, <2>2, <2>3 DEF Rootless, ProjectsTypeOK
  <2>5. \A x \in Slugs \ ss : /\ status[x] = "archived" => status'[x] = "archived"
                              /\ Children(x)' \subseteq Children(x)
    BY <1>t, <2>2, <2>3, <2>r DEF Children, Exists, ProjectsTypeOK
  <2>6. ProjectsTypeOK'
    BY <1>t, <2>2, <2>3, MarkedFacts DEF ProjectsTypeOK
  <2> QED BY <1>t, <2>2, <2>4, <2>5, <2>6, MarkedFacts, TreeStep
<1> QED BY <1>1, <1>2

LEMMA CreateProjectStep ==
  ASSUME ProjectInv, NEW a \in Admins, CreateProject(a)
  PROVE  ProjectInv'
<1>t. ProjectsTypeOK /\ Rootless /\ PurgeKnows(request[a])
  BY DEF ProjectInv
<1> DEFINE s == request[a].slug
           p == request[a].to
<1>1. CASE Exists(s) \/ ~Exists(p)
  BY <1>1, EndRequest DEF CreateProject
<1>2. CASE ~Exists(s) /\ Exists(p)
  <2>1. /\ s \in Slugs /\ p \in Slugs /\ status[s] = "absent"
        /\ status' = [status EXCEPT ![s] = "active"]
        /\ parent' = [parent EXCEPT ![s] = p] /\ staleEdge' = staleEdge \ {s}
        /\ request' = Done(a, Moved(a, TRUE, {p})) /\ UNCHANGED <<owner, objects, uploaded>>
    BY <1>2, <1>t DEF CreateProject, Exists, PurgeKnows
  <2> HIDE DEF s, p
  <2>2. Rootless'
    BY <1>t, <2>1 DEF Rootless, ProjectsTypeOK
  <2>3. \A x \in Slugs \ {p} : /\ status[x] = "archived" => status'[x] = "archived"
                               /\ Children(x)' \subseteq Children(x)
    BY <1>t, <2>1 DEF Children, Exists, ProjectsTypeOK
  <2>4. ProjectsTypeOK'
    BY <1>t, <2>1, MarkedFacts DEF ProjectsTypeOK
  <2> QED BY <1>t, <2>1, <2>2, <2>3, <2>4, MarkedFacts, TreeStep
<1> QED BY <1>1, <1>2

LEMMA TreeSteps ==
  ASSUME ProjectInv, NEW s \in Slugs,
         \/ CreateRoot(s) \/ ClearParent(s)
         \/ \E to \in {"active", "archived"} : SetProjectStatus(s, to)
  PROVE  ProjectInv'
<1>t. ProjectsTypeOK /\ Rootless
  BY DEF ProjectInv
<1>1. CASE CreateRoot(s)
  <2>1. /\ status[s] = "absent" /\ status' = [status EXCEPT ![s] = "active"]
        /\ UNCHANGED <<parent, owner, objects, uploaded, request, staleEdge>>
    BY <1>1 DEF CreateRoot, Exists
  <2>2. parent[s] = NoSlug
    BY <1>t, <2>1 DEF Rootless
  <2>3. Rootless' /\ ProjectsTypeOK'
    BY <1>t, <2>1 DEF Rootless, ProjectsTypeOK
  <2>4. \A x \in Slugs \ {} : /\ status[x] = "archived" => status'[x] = "archived"
                              /\ Children(x)' \subseteq Children(x)
    BY <1>t, <2>1, <2>2, ProjectsAssumption DEF Children, Exists, ProjectsTypeOK
  <2> DEFINE ss == {}
  <2>5. \A x \in Slugs \ ss : /\ status[x] = "archived" => status'[x] = "archived"
                              /\ Children(x)' \subseteq Children(x)
    BY <2>4
  <2>6. \A b \in Admins : /\ request'[b].at = request[b].at /\ request'[b].slug = request[b].slug
                          /\ request'[b].keys = request[b].keys
                          /\ request[b].moved => request'[b].moved
                          /\ request[b].slug \notin ss
    BY <2>1
  <2> HIDE DEF ss
  <2> QED BY <2>1, <2>3, <2>5, <2>6, TreeStep
<1>2. CASE ClearParent(s)
  <2>1. PICK n \in Patched(s) : status' = n
    BY <1>2 DEF ClearParent
  <2> DEFINE ss == {parent[s]} \cup {x \in {s} : status' # status}
  <2>2. /\ status[s] # "absent" /\ parent' = [parent EXCEPT ![s] = NoSlug]
        /\ staleEdge' = staleEdge \ {s} /\ request' = Moved(NoSlug, TRUE, ss)
        /\ UNCHANGED <<owner, objects, uploaded>>
    BY <1>2 DEF ClearParent, Exists
  <2>3. /\ status' \in [Slugs -> {"absent", "active", "archived"}]
        /\ status' = status \/ (s \in ss /\ status'[s] # "absent")
        /\ \A x \in Slugs : x # s => status'[x] = status[x]
    BY <2>1, <1>t DEF Patched, ProjectsTypeOK
  <2> HIDE DEF ss
  <2>4. Rootless'
    BY <1>t, <2>2, <2>3 DEF Rootless, ProjectsTypeOK
  <2>5. \A x \in Slugs \ ss : /\ status[x] = "archived" => status'[x] = "archived"
                              /\ Children(x)' \subseteq Children(x)
    BY <1>t, <2>2, <2>3, ProjectsAssumption DEF Children, Exists, ProjectsTypeOK
  <2>6. ProjectsTypeOK'
    BY <1>t, <2>2, <2>3, ProjectsAssumption, MarkedFacts DEF ProjectsTypeOK
  <2> QED BY <1>t, <2>2, <2>4, <2>5, <2>6, ProjectsAssumption, MarkedFacts, TreeStep
<1>3. ASSUME NEW to \in {"active", "archived"}, SetProjectStatus(s, to) PROVE ProjectInv'
  <2>1. /\ status[s] # "absent" /\ status' = [status EXCEPT ![s] = to]
        /\ request' = Moved(NoSlug, FALSE, {s})
        /\ UNCHANGED <<parent, owner, objects, uploaded, staleEdge>>
    BY <1>3 DEF SetProjectStatus, Exists
  <2>2. Rootless'
    BY <1>t, <2>1 DEF Rootless, ProjectsTypeOK
  <2>3. \A x \in Slugs \ {s} : /\ status[x] = "archived" => status'[x] = "archived"
                               /\ Children(x)' \subseteq Children(x)
    BY <1>t, <2>1 DEF Children, Exists, ProjectsTypeOK
  <2>4. ProjectsTypeOK'
    BY <1>t, <2>1, ProjectsAssumption, MarkedFacts DEF ProjectsTypeOK
  <2> QED BY <1>t, <2>1, <2>2, <2>3, <2>4, ProjectsAssumption, MarkedFacts, TreeStep
<1> QED BY <1>1, <1>2, <1>3

LEMMA PurgeSteps ==
  ASSUME ProjectInv, NEW a \in Admins,
         \/ \E s \in Slugs : AskPurge(a, s)
         \/ RefuseParent(a) \/ ListKeys(a) \/ EndPurge(a) \/ GiveUpRequest(a)
         \/ \E o \in Objects : SkipBlob(a, o)
  PROVE  ProjectInv'
<1>t. /\ ProjectsTypeOK /\ PurgeKnows(request[a]) /\ KeysKnown(request[a]) /\ request[a] \in Request
      /\ OwnedUploaded
  BY RequestFacts DEF ProjectInv
<1>1. ASSUME NEW s \in Slugs, AskPurge(a, s) PROVE ProjectInv'
  <2> DEFINE r == [NoRequest EXCEPT !.at = "children", !.slug = s]
  <2>1. r \in Request /\ r.at = "children" /\ r.slug = s /\ r.keys = {}
    BY NoRequestFacts DEF Request
  <2>2. request' = [request EXCEPT ![a] = r]
    BY <1>1 DEF AskPurge
  <2> HIDE DEF r
  <2>3. PurgeKnows(r) /\ KeysKnown(r)
    BY <1>1, <2>1 DEF PurgeKnows, KeysKnown, AskPurge
  <2> QED BY <1>1, <2>1, <2>2, <2>3, RequestStep DEF AskPurge
<1>2. CASE RefuseParent(a)
  <2> DEFINE r == [request[a] EXCEPT !.at = "keys"]
  <2>1. /\ r \in Request /\ r.at = "keys" /\ r.slug = request[a].slug /\ r.keys = request[a].keys
        /\ r.moved = request[a].moved
    BY <1>t DEF Request
  <2>2. \/ request' = Done(a, request)
        \/ request' = [request EXCEPT ![a] = r] /\ Children(request[a].slug) = {}
    BY <1>2 DEF RefuseParent
  <2> HIDE DEF r
  <2>3. CASE request' = [request EXCEPT ![a] = r] /\ Children(request[a].slug) = {}
    <3>1. PurgeKnows(r) /\ KeysKnown(r)
      BY <1>2, <1>t, <2>1, <2>3 DEF PurgeKnows, KeysKnown, RefuseParent
    <3> QED BY <1>2, <2>1, <2>3, <3>1, RequestStep DEF RefuseParent
  <2> QED BY <1>2, <2>2, <2>3, EndRequest DEF RefuseParent
<1>3. CASE ListKeys(a)
  <2> DEFINE ks == {o \in Objects : owner[o] = request[a].slug}
             r == [request[a] EXCEPT !.at = "delete", !.keys = ks]
  <2>0. request[a].slug \in Slugs /\ ks \subseteq Objects
    BY <1>3, <1>t DEF ListKeys, PurgeKnows
  <2>1. /\ r \in Request /\ r.at = "delete" /\ r.slug = request[a].slug /\ r.keys = ks
        /\ r.moved = request[a].moved
    BY <2>0, <1>t DEF Request
  <2>2. request' = [request EXCEPT ![a] = r]
    BY <1>3 DEF ListKeys
  <2>3. \A o \in ks : owner[o] = request[a].slug /\ o \in uploaded
    BY <1>t, <2>0, ProjectsAssumption DEF OwnedUploaded
  <2> HIDE DEF r, ks
  <2>4. PurgeKnows(r) /\ KeysKnown(r)
    BY <1>3, <1>t, <2>1, <2>3 DEF PurgeKnows, KeysKnown, ListKeys
  <2> QED BY <1>3, <2>1, <2>2, <2>4, RequestStep DEF ListKeys
<1>4. CASE EndPurge(a) \/ GiveUpRequest(a)
  BY <1>4, EndRequest DEF EndPurge, GiveUpRequest
<1>5. ASSUME NEW o \in Objects, SkipBlob(a, o) PROVE ProjectInv'
  <2> DEFINE r == [request[a] EXCEPT !.keys = @ \ {o}]
  <2>1. /\ r \in Request /\ r.at = "blobs" /\ r.slug = request[a].slug
        /\ r.keys = request[a].keys \ {o}
    BY <1>5, <1>t DEF Request, SkipBlob
  <2>2. request' = [request EXCEPT ![a] = r]
    BY <1>5 DEF SkipBlob
  <2> HIDE DEF r
  <2>3. PurgeKnows(r) /\ KeysKnown(r)
    BY <1>5, <1>t, <2>1 DEF PurgeKnows, KeysKnown, SkipBlob
  <2> QED BY <1>5, <2>1, <2>2, <2>3, RequestStep DEF SkipBlob
<1> QED BY <1>1, <1>2, <1>3, <1>4, <1>5

LEMMA DeleteProjectStep ==
  ASSUME ProjectInv, NEW a \in Admins, DeleteProject(a)
  PROVE  ProjectInv'
<1>t. ProjectsTypeOK /\ Rootless /\ OwnedUploaded /\ RowsKeepBlobs
      /\ \A b \in Admins : PurgeKnows(request[b]) /\ KeysKnown(request[b])
  BY DEF ProjectInv
<1> DEFINE s == request[a].slug
           ss == {s}
<1>1. /\ s \in Slugs /\ request[a].at = "delete"
      /\ status' = [status EXCEPT ![s] = "absent"]
      /\ parent' = [k \in Slugs |-> IF k = s \/ parent[k] = s THEN NoSlug ELSE parent[k]]
      /\ staleEdge' = staleEdge \ ({s} \cup Children(s))
      /\ owner' = [o \in Objects |-> IF owner[o] = s THEN NoSlug ELSE owner[o]]
      /\ request' = [Moved(a, TRUE, ss) EXCEPT ![a].at = "blobs"]
      /\ UNCHANGED <<objects, uploaded>>
  BY <1>t DEF DeleteProject, Exists
<1>2. s \in ss
  OBVIOUS
<1> HIDE DEF ss
<1>3. /\ request' \in [Admins -> Request]
      /\ request'[a].at = "blobs" /\ request'[a].slug = s /\ request'[a].keys = request[a].keys
      /\ \A b \in Admins : b # a =>
           /\ request'[b].at = request[b].at /\ request'[b].slug = request[b].slug
           /\ request'[b].keys = request[b].keys
           /\ request[b].moved => request'[b].moved
           /\ request[b].slug = s /\ request[b].at \in {"children", "keys", "delete"}
                => request'[b].moved
  BY <1>t, <1>1, <1>2, DeletedFacts
<1>s. s = request[a].slug /\ NoSlug # s
  BY <1>1, ProjectsAssumption
<1> HIDE DEF s
<1>4. ProjectsTypeOK'
  BY <1>t, <1>1, <1>3 DEF ProjectsTypeOK
<1>5. Rootless' /\ OwnedUploaded' /\ RowsKeepBlobs'
  BY <1>t, <1>1 DEF Rootless, OwnedUploaded, RowsKeepBlobs, ProjectsTypeOK
<1>6. ASSUME NEW b \in Admins PROVE KeysKnown(request[b])'
  <2>1. KeysKnown(request[b]) /\ request[b].keys \subseteq Objects
    BY <1>t, RequestFacts
  <2>2. \A o \in Objects : owner[o] = NoSlug => owner'[o] = NoSlug
    BY <1>1
  <2>3. \A o \in Objects : owner[o] = s => owner'[o] = NoSlug
    BY <1>1
  <2>4. CASE b = a
    BY <1>1, <1>3, <1>s, <2>1, <2>2, <2>3, <2>4 DEF KeysKnown
  <2>5. CASE b # a
    <3>1. request'[b].at = request[b].at /\ request'[b].slug = request[b].slug
          /\ request'[b].keys = request[b].keys
      BY <1>3, <2>5
    <3>2. \A o \in Objects : owner'[o] = owner[o] \/ owner'[o] = NoSlug
      BY <1>1
    <3> QED BY <1>1, <2>1, <2>2, <3>1, <3>2 DEF KeysKnown
  <2> QED BY <2>4, <2>5
<1>7. ASSUME NEW b \in Admins PROVE PurgeKnows(request[b])'
  <2>1. PurgeKnows(request[b])
    BY <1>t
  <2>2. CASE b = a
    BY <1>1, <1>3, <2>2 DEF PurgeKnows
  <2>3. CASE b # a
    <3>1. /\ request'[b].at = request[b].at /\ request'[b].slug = request[b].slug
          /\ request[b].moved => request'[b].moved
          /\ request[b].slug = s /\ request[b].at \in {"children", "keys", "delete"}
               => request'[b].moved
      BY <1>3, <2>3
    <3>2. \A x \in Slugs : x # s => status'[x] = status[x]
      BY <1>t, <1>1 DEF ProjectsTypeOK
    <3>3. \A x \in Slugs : Children(x) = {} => {k \in Slugs : Exists(k)' /\ parent'[k] = x} = {}
      BY <1>t, <1>1, ProjectsAssumption DEF Children, Exists, ProjectsTypeOK
    <3> QED BY <2>1, <3>1, <3>2, <3>3 DEF PurgeKnows, Children
  <2> QED BY <2>2, <2>3
<1> QED BY <1>4, <1>5, <1>6, <1>7 DEF ProjectInv

LEMMA BlobSteps ==
  ASSUME ProjectInv, NEW o \in Objects,
         \/ \E a \in Admins : DeleteBlob(a, o)
         \/ \E s \in Slugs : Attach(o, s)
  PROVE  ProjectInv'
<1>t. ProjectsTypeOK /\ Rootless /\ OwnedUploaded /\ RowsKeepBlobs
      /\ \A b \in Admins : PurgeKnows(request[b]) /\ KeysKnown(request[b])
  BY DEF ProjectInv
<1>1. ASSUME NEW a \in Admins, DeleteBlob(a, o) PROVE ProjectInv'
  <2> DEFINE r == [request[a] EXCEPT !.keys = @ \ {o}]
  <2>1. /\ r \in Request /\ r.at = "blobs" /\ r.slug = request[a].slug
        /\ r.keys = request[a].keys \ {o}
    BY <1>1, <1>t, RequestFacts DEF Request, DeleteBlob
  <2>2. /\ request' = [request EXCEPT ![a] = r] /\ objects' = objects \ {o}
        /\ UNCHANGED <<status, parent, owner, uploaded, staleEdge>>
        /\ owner[o] = NoSlug
    BY <1>1, <1>t DEF DeleteBlob, KeysKnown
  <2> HIDE DEF r
  <2>3. \A b \in Admins : request'[b] = IF b = a THEN r ELSE request[b]
    BY <1>t, <2>2 DEF ProjectsTypeOK
  <2>4. \A b \in Admins : PurgeKnows(request[b])' /\ KeysKnown(request[b])'
    BY <1>1, <1>t, <2>1, <2>2, <2>3 DEF PurgeKnows, KeysKnown, Children, Exists, DeleteBlob
  <2>5. ProjectsTypeOK'
    BY <1>t, <2>1, <2>2 DEF ProjectsTypeOK
  <2> QED BY <1>t, <2>2, <2>4, <2>5 DEF ProjectInv, Rootless, OwnedUploaded, RowsKeepBlobs
<1>2. ASSUME NEW s \in Slugs, Attach(o, s) PROVE ProjectInv'
  <2>1. /\ o \notin uploaded /\ uploaded' = uploaded \cup {o} /\ objects' = objects \cup {o}
        /\ owner' = [owner EXCEPT ![o] = s]
        /\ UNCHANGED <<status, parent, request, staleEdge>>
    BY <1>2 DEF Attach
  <2>2. ProjectsTypeOK' /\ Rootless' /\ OwnedUploaded' /\ RowsKeepBlobs'
    BY <1>t, <2>1 DEF ProjectsTypeOK, Rootless, OwnedUploaded, RowsKeepBlobs
  <2>3. \A b \in Admins : PurgeKnows(request[b])'
    BY <1>t, <2>1 DEF PurgeKnows, Children, Exists
  <2>4. \A b \in Admins : KeysKnown(request[b])'
    <3>1. \A p \in uploaded : p \in Objects /\ owner'[p] = owner[p]
      BY <1>t, <2>1 DEF ProjectsTypeOK
    <3> QED BY <1>t, <2>1, <3>1 DEF KeysKnown
  <2> QED BY <2>2, <2>3, <2>4 DEF ProjectInv
<1> QED BY <1>1, <1>2

LEMMA ProjectInvariant == ProjectsSpec => []ProjectInv
<1>1. ProjectsInit => ProjectInv
  BY NoRequestFacts DEF ProjectsInit, ProjectInv, ProjectsTypeOK, Rootless, OwnedUploaded,
     RowsKeepBlobs, PurgeKnows, KeysKnown
<1>2. ProjectInv /\ [ProjectsNext]_projectVars => ProjectInv'
  <2> SUFFICES ASSUME ProjectInv, [ProjectsNext]_projectVars PROVE ProjectInv'
    OBVIOUS
  <2>1. ASSUME NEW a \in Admins, NEW s \in Slugs,
               \/ RestCreateProject(a, s) \/ ToolCreateProject(a, s)
               \/ RestPatchProject(a, s) \/ AskPurge(a, s)
        PROVE  ProjectInv'
    BY <2>1, ParentSteps, TreeSteps, PurgeSteps
       DEF RestCreateProject, ToolCreateProject, RestPatchProject
  <2>2. ASSUME NEW a \in Admins,
               \/ Walk(a) \/ WriteParent(a) \/ CreateProject(a) \/ RefuseParent(a) \/ ListKeys(a)
               \/ DeleteProject(a) \/ EndPurge(a) \/ GiveUpRequest(a)
        PROVE  ProjectInv'
    BY <2>2, ParentSteps, WriteParentStep, CreateProjectStep, PurgeSteps, DeleteProjectStep
  <2>3. ASSUME NEW a \in Admins, NEW o \in Objects, DeleteBlob(a, o) \/ SkipBlob(a, o)
        PROVE  ProjectInv'
    BY <2>3, BlobSteps, PurgeSteps
  <2>4. ASSUME NEW s \in Slugs,
               \/ \E to \in {"active", "archived"} : SetProjectStatus(s, to)
               \/ \E o \in Objects : Attach(o, s)
        PROVE  ProjectInv'
    BY <2>4, TreeSteps, BlobSteps
  <2>5. CASE UNCHANGED projectVars
    BY <2>5 DEF projectVars, ProjectInv, ProjectsTypeOK, Rootless, OwnedUploaded, RowsKeepBlobs,
       PurgeKnows, KeysKnown, Children, Exists
  <2> QED BY <2>1, <2>2, <2>3, <2>4, <2>5 DEF ProjectsNext
<1> QED BY <1>1, <1>2, PTL DEF ProjectsSpec

\* The object of an attachment row is there as long as the row, whatever purges.
THEOREM PurgeKeepsBlobs == ProjectsSpec => []RowsKeepBlobs
<1>1. ProjectInv => RowsKeepBlobs
  BY DEF ProjectInv
<1> QED BY <1>1, ProjectInvariant, PTL

\* What a purge removes is archived and childless, or changed behind its back.
THEOREM PurgesAreDeliberate == ProjectsSpec => PurgeDeliberate
<1> DEFINE Deliberate ==
      \A s \in Slugs :
        Exists(s) /\ status'[s] = "absent" =>
          \/ status[s] = "archived" /\ Children(s) = {}
          \/ \E a \in Admins : request[a].slug = s /\ request[a].moved
<1>1. ProjectInv /\ [ProjectsNext]_projectVars => [Deliberate]_projectVars
  <2> SUFFICES ASSUME ProjectInv, ProjectsNext PROVE Deliberate
    OBVIOUS
  <2> SUFFICES ASSUME NEW s \in Slugs, Exists(s), status'[s] = "absent"
               PROVE  \/ status[s] = "archived" /\ Children(s) = {}
                      \/ \E a \in Admins : request[a].slug = s /\ request[a].moved
    OBVIOUS
  <2>t. ProjectsTypeOK /\ status[s] # "absent"
    BY DEF ProjectInv, Exists
  <2>p. \A x \in Slugs : status' \in Patched(x) => status'[s] # "absent"
    BY <2>t DEF Patched, ProjectsTypeOK
  <2>1. \E a \in Admins : DeleteProject(a) /\ request[a].slug = s
    <3>1. ASSUME NEW a \in Admins, WriteParent(a) PROVE FALSE
      BY <3>1, <2>t, <2>p DEF WriteParent, Exists, ProjectsTypeOK
    <3>2. ASSUME NEW a \in Admins, CreateProject(a) PROVE FALSE
      BY <3>2, <2>t DEF CreateProject, ProjectsTypeOK
    <3>3. ASSUME NEW x \in Slugs, \/ CreateRoot(x) \/ ClearParent(x)
                                  \/ \E to \in {"active", "archived"} : SetProjectStatus(x, to)
          PROVE  FALSE
      BY <3>3, <2>t, <2>p DEF CreateRoot, ClearParent, SetProjectStatus, ProjectsTypeOK
    <3>4. ASSUME UNCHANGED status PROVE FALSE
      BY <3>4, <2>t
    <3>5. ASSUME NEW a \in Admins, DeleteProject(a) PROVE request[a].slug = s
      BY <3>5, <2>t DEF DeleteProject, ProjectsTypeOK
    <3>6. ASSUME NEW a \in Admins, NEW x \in Slugs,
                 \/ RestCreateProject(a, x) \/ ToolCreateProject(a, x)
                 \/ RestPatchProject(a, x) \/ AskPurge(a, x)
          PROVE  FALSE
      BY <3>3, <3>4, <3>6
         DEF RestCreateProject, ToolCreateProject, RestPatchProject, AskPurge, AskParent
    <3>7. ASSUME NEW a \in Admins,
                 \/ Walk(a) \/ RefuseParent(a) \/ ListKeys(a) \/ EndPurge(a) \/ GiveUpRequest(a)
                 \/ \E o \in Objects : DeleteBlob(a, o) \/ SkipBlob(a, o)
          PROVE  FALSE
      BY <3>4, <3>7 DEF Walk, RefuseParent, ListKeys, EndPurge, GiveUpRequest, DeleteBlob, SkipBlob
    <3>8. ASSUME NEW x \in Slugs, NEW o \in Objects, Attach(o, x) PROVE FALSE
      BY <3>4, <3>8 DEF Attach
    <3> QED BY <3>1, <3>2, <3>3, <3>5, <3>6, <3>7, <3>8 DEF ProjectsNext
  <2>2. PICK a \in Admins : DeleteProject(a) /\ request[a].slug = s
    BY <2>1
  <2>3. PurgeKnows(request[a]) /\ request[a].at = "delete"
    BY <2>2 DEF ProjectInv, DeleteProject
  <2> QED BY <2>2, <2>3 DEF PurgeKnows
<1> QED BY <1>1, ProjectInvariant, PTL DEF ProjectsSpec, PurgeDeliberate

----------------------------------------------------------------------------
(* The attachments of an item. *)

\* An item some sweep found due is due or gone, unless a peer restored it.
BegunKnown == \A i \in begun : life[i] \in {"due", "gone"} \/ i \in revived

\* A row whose object is missing is of such an item, or its commit was reported failed.
MissingKnown ==
  \A f \in Files : rowOf[f] # NoItem /\ f \notin uncertain /\ f \notin stored => rowOf[f] \in begun

\* What the sweep and the deletes will remove has no row, or one that goes too.
RowUsed == \A f \in Files : rowOf[f] # NoItem => f \in used

SweepKnown ==
  /\ sweep.due \subseteq begun /\ sweep.keys \subseteq used
  /\ \A f \in sweep.keys : rowOf[f] = NoItem \/ rowOf[f] \in begun

DoomedKnown == \A f \in doomed : rowOf[f] = NoItem /\ f \in used

\* The object an upload has just stored is nobody else's.
UploadKnown(u) ==
  /\ sending[u].at # "idle" => sending[u].item \in Bearers /\ sending[u].left # 0
  /\ sending[u].at \in {"row", "undo"} => sending[u].new \subseteq used
  /\ sending[u].at = "row" =>
       \A f \in sending[u].new :
         rowOf[f] = NoItem /\ f \in stored /\ f \notin doomed /\ f \notin sweep.keys
  /\ sending[u].at = "undo" => \A f \in sending[u].new : rowOf[f] = NoItem \/ f \in uncertain

UploadsApart ==
  \A u, v \in Uploaders :
    u # v /\ sending[u].at \in {"row", "undo"} /\ sending[v].at \in {"row", "undo"}
      => sending[u].new \cap sending[v].new = {}

AttachInv ==
  /\ AttachTypeOK /\ BegunKnown /\ MissingKnown /\ RowUsed /\ SweepKnown /\ DoomedKnown
  /\ (\A u \in Uploaders : UploadKnown(u)) /\ UploadsApart
LEMMA UploadFacts ==
  ASSUME AttachTypeOK, NEW u \in Uploaders
  PROVE  /\ sending[u] \in Upload /\ sending[u].item \in Bearers \cup {NoItem}
         /\ sending[u].at \in {"idle", "count", "put", "row", "undo"}
         /\ sending[u].new \subseteq Files /\ sending[u].left \in 0..MaxParts
BY DEF AttachTypeOK, Upload

LEMMA NoUploadFacts ==
  /\ NoUpload \in Upload /\ NoUpload.at = "idle" /\ NoUpload.new = {}
  /\ NoSweep \in Sweep /\ NoSweep.at = "idle" /\ NoSweep.due = {} /\ NoSweep.keys = {}
BY AttachmentsAssumption DEF NoUpload, Upload, NoSweep, Sweep

\* One upload's step: what it knows of its new object stays apart from the rest.
LEMMA SendingStep ==
  ASSUME AttachInv, NEW u \in Uploaders, NEW x \in Upload,
         sending' = [sending EXCEPT ![u] = x],
         x.at \in {"idle", "count", "put"} \/ (sending[u].at = "row" /\ x.at = "undo" /\ x.new = sending[u].new)
  PROVE  /\ sending' \in [Uploaders -> Upload] /\ sending'[u] = x
         /\ \A v \in Uploaders : v # u => sending'[v] = sending[v]
         /\ UploadsApart'
<1>1. /\ sending' \in [Uploaders -> Upload] /\ sending'[u] = x
      /\ \A v \in Uploaders : v # u => sending'[v] = sending[v]
  BY DEF AttachInv, AttachTypeOK
<1> QED BY <1>1 DEF AttachInv, UploadsApart

LEMMA CountSteps ==
  ASSUME AttachInv, NEW u \in Uploaders,
         \/ \E i \in Bearers : BeginUpload(u, i)
         \/ CountRows(u) \/ DropUpload(u)
  PROVE  AttachInv'
<1>t. AttachTypeOK /\ UploadKnown(u) /\ sending[u] \in Upload
  BY UploadFacts DEF AttachInv
<1>1. /\ \E x \in Upload : /\ sending' = [sending EXCEPT ![u] = x]
                           /\ x.at \in {"idle", "count", "put"}
                           /\ x.at # "idle" => x.item \in Bearers /\ x.left # 0
      /\ UNCHANGED <<life, rowOf, stored, used, doomed, sweep, sweeps, uncertain, begun, revived>>
  <2>1. ASSUME NEW i \in Bearers, BeginUpload(u, i) PROVE <1>1!1
    <3> DEFINE x == [at |-> "count", item |-> i, new |-> {}, left |-> MaxParts]
    <3>1. x \in Upload /\ x.at = "count" /\ x.item \in Bearers /\ x.left # 0
      BY AttachmentsAssumption DEF Upload
    <3>2. sending' = [sending EXCEPT ![u] = x]
      BY <2>1 DEF BeginUpload
    <3> HIDE DEF x
    <3> QED BY <3>1, <3>2
  <2>2. CASE DropUpload(u)
    BY <2>2, NoUploadFacts DEF DropUpload, EndUpload
  <2>3. CASE CountRows(u)
    <3> DEFINE x == [sending[u] EXCEPT !.at = "put"]
    <3>1. /\ x \in Upload /\ x.at = "put" /\ x.item = sending[u].item
          /\ x.left = sending[u].left
      BY <1>t DEF Upload
    <3>2. sending' = [sending EXCEPT ![u] = x] \/ EndUpload(u)
      BY <2>3 DEF CountRows
    <3>3. sending[u].item \in Bearers /\ sending[u].left # 0
      BY <1>t, <2>3 DEF CountRows, UploadKnown
    <3> HIDE DEF x
    <3> QED BY <2>3, <3>1, <3>2, <3>3, NoUploadFacts DEF CountRows, EndUpload
  <2> QED BY <2>1, <2>2, <2>3 DEF BeginUpload, CountRows, DropUpload
<1>2. PICK x \in Upload : /\ sending' = [sending EXCEPT ![u] = x]
                          /\ x.at \in {"idle", "count", "put"}
                          /\ x.at # "idle" => x.item \in Bearers /\ x.left # 0
  BY <1>1
<1>3. /\ sending' \in [Uploaders -> Upload] /\ sending'[u] = x
      /\ \A v \in Uploaders : v # u => sending'[v] = sending[v]
      /\ UploadsApart'
  BY <1>2, SendingStep
<1>4. \A v \in Uploaders : UploadKnown(v)'
  BY <1>1, <1>2, <1>3 DEF AttachInv, UploadKnown
<1> QED BY <1>1, <1>3, <1>4
        DEF AttachInv, AttachTypeOK, BegunKnown, MissingKnown, RowUsed, SweepKnown, DoomedKnown

LEMMA PutObjectStep ==
  ASSUME AttachInv, NEW u \in Uploaders, NEW f \in Files, PutObject(u, f)
  PROVE  AttachInv'
<1>t. /\ AttachTypeOK /\ (\A v \in Uploaders : UploadKnown(v)) /\ UploadsApart
      /\ RowUsed /\ SweepKnown /\ DoomedKnown /\ BegunKnown /\ MissingKnown
      /\ sending[u] \in Upload
  BY UploadFacts DEF AttachInv
<1> DEFINE x == [sending[u] EXCEPT !.at = "row", !.new = {f}]
<1>1. /\ x \in Upload /\ x.at = "row" /\ x.new = {f} /\ x.item = sending[u].item
      /\ x.left = sending[u].left
  BY <1>t DEF Upload
<1>2. /\ sending' = [sending EXCEPT ![u] = x] /\ sending[u].at = "put" /\ f \notin used
      /\ used' = used \cup {f} /\ stored' = stored \cup {f}
      /\ UNCHANGED <<life, rowOf, doomed, sweep, sweeps, uncertain, begun, revived>>
  BY <1>t DEF PutObject, AttachTypeOK
<1> HIDE DEF x
<1>3. /\ sending' \in [Uploaders -> Upload] /\ sending'[u] = x
      /\ \A v \in Uploaders : v # u => sending'[v] = sending[v]
  BY <1>t, <1>1, <1>2 DEF AttachTypeOK
<1>4. AttachTypeOK' /\ RowUsed' /\ SweepKnown' /\ DoomedKnown' /\ BegunKnown' /\ MissingKnown'
  BY <1>t, <1>2, <1>3
     DEF AttachTypeOK, RowUsed, SweepKnown, DoomedKnown, BegunKnown, MissingKnown
<1>5. ASSUME NEW v \in Uploaders PROVE UploadKnown(v)'
  <2>1. CASE v = u
    BY <1>t, <1>1, <1>2, <1>3, <2>1 DEF UploadKnown, RowUsed, SweepKnown, DoomedKnown
  <2>2. CASE v # u
    BY <1>t, <1>2, <1>3, <2>2 DEF UploadKnown
  <2> QED BY <2>1, <2>2
<1>6. UploadsApart'
  BY <1>t, <1>1, <1>2, <1>3 DEF UploadsApart, UploadKnown
<1> QED BY <1>4, <1>5, <1>6 DEF AttachInv

\* Where an upload goes when its row has been written.
LEMMA NextPartFacts ==
  ASSUME AttachInv, NEW u \in Uploaders, sending[u].at = "row", NextPart(u)
  PROVE  \E x \in Upload : /\ sending' = [sending EXCEPT ![u] = x] /\ x.at \in {"idle", "count"}
                           /\ x.at # "idle" => x.item \in Bearers /\ x.left # 0
<1>t. /\ sending[u] \in Upload /\ sending[u].left \in 0..MaxParts /\ sending[u].left # 0
      /\ sending[u].item \in Bearers /\ sending \in [Uploaders -> Upload]
  BY UploadFacts DEF AttachInv, UploadKnown, AttachTypeOK
<1>1. CASE sending[u].left = 1
  BY <1>1, <1>t, NoUploadFacts DEF NextPart
<1>2. CASE sending[u].left # 1
  <2> DEFINE n == sending[u].left - 1
             x == [sending[u] EXCEPT !.at = "count", !.new = {}, !.left = n]
  <2>1. n \in 0..MaxParts /\ n # 0
    BY <1>t, <1>2, AttachmentsAssumption
  <2>0. sending' = [sending EXCEPT ![u] = IF sending[u].left = 1 THEN NoUpload ELSE x]
    BY DEF NextPart
  <2>2. sending' = [sending EXCEPT ![u] = x]
    <3> HIDE DEF x
    <3> QED BY <2>0, <1>2
  <2> HIDE DEF n
  <2>3. x \in Upload /\ x.at = "count" /\ x.item \in Bearers /\ x.left = n
    BY <1>t, <2>1 DEF Upload
  <2> HIDE DEF x
  <2> QED BY <2>1, <2>2, <2>3
<1> QED BY <1>1, <1>2

LEMMA RowSteps ==
  ASSUME AttachInv, NEW u \in Uploaders, NEW f \in Files,
         CreateAttachment(u, f) \/ CreateAttachmentFails(u, f)
  PROVE  AttachInv'
<1>t. /\ AttachTypeOK /\ (\A v \in Uploaders : UploadKnown(v)) /\ UploadsApart
      /\ RowUsed /\ SweepKnown /\ DoomedKnown /\ BegunKnown /\ MissingKnown
      /\ sending[u] \in Upload /\ sending[u].at = "row" /\ f \in sending[u].new
  BY UploadFacts DEF AttachInv, CreateAttachment, CreateAttachmentFails
<1> DEFINE i == sending[u].item
<1>i. /\ i \in Bearers /\ rowOf[f] = NoItem /\ f \in stored /\ f \in used /\ f \notin doomed
      /\ f \notin sweep.keys
      /\ \A v \in Uploaders : v # u /\ sending[v].at \in {"row", "undo"} => f \notin sending[v].new
  BY <1>t DEF UploadKnown, UploadsApart
<1>1. \E x \in Upload :
        /\ sending' = [sending EXCEPT ![u] = x]
        /\ x.at # "idle" => x.item \in Bearers /\ x.left # 0
        /\ x.at \in {"idle", "count"} \/ (x.at = "undo" /\ x.new = sending[u].new)
        /\ \/ rowOf' = rowOf /\ uncertain' = uncertain
           \/ /\ rowOf' = [rowOf EXCEPT ![f] = i]
              /\ \/ (uncertain' = uncertain /\ x.at # "undo")
                 \/ uncertain' = uncertain \cup {f}
  <2>1. CASE CreateAttachment(u, f)
    BY <1>t, <2>1, NextPartFacts DEF CreateAttachment
  <2>2. CASE CreateAttachmentFails(u, f)
    <3> DEFINE x == [sending[u] EXCEPT !.at = "undo"]
    <3>1. /\ x \in Upload /\ x.at = "undo" /\ x.item = sending[u].item
          /\ x.left = sending[u].left /\ x.new = sending[u].new
      BY <1>t DEF Upload
    <3>2. sending' = [sending EXCEPT ![u] = x]
      BY <2>2, <1>t DEF CreateAttachmentFails, AttachTypeOK
    <3>3. x.item \in Bearers /\ x.left # 0
      BY <1>t, <3>1 DEF UploadKnown
    <3> HIDE DEF x
    <3> QED BY <2>2, <3>1, <3>2, <3>3 DEF CreateAttachmentFails
  <2> QED BY <2>1, <2>2, <1>t
<1>2. PICK x \in Upload :
        /\ sending' = [sending EXCEPT ![u] = x]
        /\ x.at # "idle" => x.item \in Bearers /\ x.left # 0
        /\ x.at \in {"idle", "count"} \/ (x.at = "undo" /\ x.new = sending[u].new)
        /\ \/ rowOf' = rowOf /\ uncertain' = uncertain
           \/ /\ rowOf' = [rowOf EXCEPT ![f] = i]
              /\ \/ (uncertain' = uncertain /\ x.at # "undo")
                 \/ uncertain' = uncertain \cup {f}
  BY <1>1
<1>3. /\ sending' \in [Uploaders -> Upload] /\ sending'[u] = x
      /\ \A v \in Uploaders : v # u => sending'[v] = sending[v]
      /\ UploadsApart'
  BY <1>t, <1>2, SendingStep
<1>u. UNCHANGED <<life, stored, used, doomed, sweep, sweeps, begun, revived>>
  BY DEF CreateAttachment, CreateAttachmentFails
<1> HIDE DEF i
<1>4. /\ rowOf' \in [Files -> Bearers \cup {NoItem}]
      /\ \A g \in Files : g # f => rowOf'[g] = rowOf[g]
      /\ rowOf'[f] \in {rowOf[f], i}
      /\ uncertain \subseteq uncertain' /\ uncertain' \subseteq Files
  BY <1>t, <1>i, <1>2 DEF AttachTypeOK
<1>5. AttachTypeOK' /\ BegunKnown' /\ RowUsed' /\ DoomedKnown' /\ MissingKnown' /\ SweepKnown'
  <2>1. AttachTypeOK'
    BY <1>t, <1>3, <1>4, <1>u DEF AttachTypeOK
  <2>2. BegunKnown' /\ RowUsed' /\ MissingKnown'
    BY <1>t, <1>i, <1>4, <1>u DEF BegunKnown, RowUsed, MissingKnown, AttachTypeOK
  <2>3. DoomedKnown' /\ SweepKnown'
    BY <1>t, <1>i, <1>4, <1>u DEF DoomedKnown, SweepKnown, AttachTypeOK
  <2> QED BY <2>1, <2>2, <2>3
<1>6. ASSUME NEW v \in Uploaders PROVE UploadKnown(v)'
  <2>1. CASE v # u
    <3>1. UploadKnown(v) /\ sending'[v] = sending[v] /\ sending[v].new \subseteq Files
      BY <1>t, <1>3, <2>1, UploadFacts
    <3>2. sending[v].at \in {"row", "undo"} => \A g \in sending[v].new : rowOf'[g] = rowOf[g]
      BY <1>i, <1>4, <2>1, <3>1
    <3> QED BY <3>1, <3>2, <1>4, <1>u DEF UploadKnown
  <2>2. CASE v = u /\ x.at \in {"idle", "count"}
    BY <1>2, <1>3, <2>2 DEF UploadKnown
  <2>3. CASE v = u /\ x.at = "undo" /\ x.new = sending[u].new
    <3>1. \A g \in sending[u].new : g \in Files /\ rowOf[g] = NoItem /\ g \in used
      BY <1>t, UploadFacts DEF UploadKnown
    <3>2. \A g \in sending[u].new : rowOf'[g] = NoItem \/ g \in uncertain'
      BY <1>2, <1>4, <1>i, <2>3, <3>1
    <3> QED BY <1>2, <1>3, <1>u, <2>3, <3>1, <3>2 DEF UploadKnown
  <2> QED BY <1>2, <2>1, <2>2, <2>3
<1> QED BY <1>3, <1>5, <1>6 DEF AttachInv
LEMMA UndoStep ==
  ASSUME AttachInv, NEW u \in Uploaders, NEW f \in Files, UndoPut(u, f)
  PROVE  AttachInv'
<1>t. /\ AttachTypeOK /\ (\A v \in Uploaders : UploadKnown(v)) /\ UploadsApart
      /\ RowUsed /\ SweepKnown /\ DoomedKnown /\ BegunKnown /\ MissingKnown
      /\ sending[u].at = "undo" /\ f \in sending[u].new
  BY DEF AttachInv, UndoPut
<1>1. /\ sending' = [sending EXCEPT ![u] = NoUpload] /\ stored' \in {stored, stored \ {f}}
      /\ UNCHANGED <<life, rowOf, used, doomed, sweep, sweeps, uncertain, begun, revived>>
  BY DEF UndoPut, EndUpload
<1>2. /\ sending' \in [Uploaders -> Upload] /\ sending'[u] = NoUpload
      /\ \A v \in Uploaders : v # u => sending'[v] = sending[v]
      /\ UploadsApart'
  BY <1>1, NoUploadFacts, SendingStep
<1>3. /\ \A v \in Uploaders : v # u /\ sending[v].at \in {"row", "undo"} => f \notin sending[v].new
      /\ rowOf[f] = NoItem \/ f \in uncertain
  BY <1>t DEF UploadKnown, UploadsApart
<1>4. AttachTypeOK' /\ BegunKnown' /\ RowUsed' /\ DoomedKnown' /\ MissingKnown' /\ SweepKnown'
  BY <1>t, <1>1, <1>2, <1>3
     DEF AttachTypeOK, BegunKnown, RowUsed, DoomedKnown, MissingKnown, SweepKnown
<1>5. \A v \in Uploaders : UploadKnown(v)'
  BY <1>t, <1>1, <1>2, <1>3, NoUploadFacts DEF UploadKnown
<1> QED BY <1>2, <1>4, <1>5 DEF AttachInv

LEMMA DeleteSteps ==
  ASSUME AttachInv, NEW f \in Files, DeleteAttachment(f) \/ DeleteObject(f)
  PROVE  AttachInv'
<1>t. /\ AttachTypeOK /\ (\A v \in Uploaders : UploadKnown(v)) /\ UploadsApart
      /\ RowUsed /\ SweepKnown /\ DoomedKnown /\ BegunKnown /\ MissingKnown
  BY DEF AttachInv
<1>1. CASE DeleteAttachment(f)
  <2>1. /\ rowOf[f] # NoItem /\ doomed' = doomed \cup {f}
        /\ rowOf' \in [Files -> Bearers \cup {NoItem}] /\ rowOf'[f] = NoItem
        /\ \A g \in Files : g # f => rowOf'[g] = rowOf[g]
        /\ UNCHANGED <<life, stored, used, sending, sweep, sweeps, uncertain, begun, revived>>
    BY <1>1, <1>t DEF DeleteAttachment, AttachTypeOK
  <2>2. AttachTypeOK' /\ BegunKnown' /\ RowUsed' /\ DoomedKnown' /\ MissingKnown'
    BY <1>t, <2>1 DEF AttachTypeOK, BegunKnown, RowUsed, DoomedKnown, MissingKnown
  <2>3. SweepKnown' /\ UploadsApart'
    BY <1>t, <2>1 DEF AttachTypeOK, SweepKnown, Sweep, UploadsApart
  <2>4. ASSUME NEW v \in Uploaders PROVE UploadKnown(v)'
    <3>1. UploadKnown(v) /\ sending[v].new \subseteq Files
      BY <1>t, UploadFacts
    <3> QED BY <2>1, <3>1 DEF UploadKnown
  <2> QED BY <2>2, <2>3, <2>4 DEF AttachInv
<1>2. CASE DeleteObject(f)
  <2>1. /\ f \in doomed /\ doomed' = doomed \ {f} /\ stored' \in {stored, stored \ {f}}
        /\ UNCHANGED <<life, rowOf, used, sending, sweep, sweeps, uncertain, begun, revived>>
    BY <1>2 DEF DeleteObject
  <2>2. AttachTypeOK' /\ BegunKnown' /\ RowUsed' /\ DoomedKnown' /\ MissingKnown' /\ SweepKnown'
        /\ UploadsApart'
    BY <1>t, <2>1
       DEF AttachTypeOK, BegunKnown, RowUsed, DoomedKnown, MissingKnown, SweepKnown, UploadsApart
  <2>3. \A v \in Uploaders : UploadKnown(v)'
    BY <1>t, <2>1 DEF UploadKnown
  <2> QED BY <2>2, <2>3 DEF AttachInv
<1> QED BY <1>1, <1>2

LEMMA LifeSteps ==
  ASSUME AttachInv, NEW i \in Bearers, SoftDelete(i) \/ MonthPasses(i) \/ Restore(i)
  PROVE  AttachInv'
<1>t. /\ AttachTypeOK /\ (\A v \in Uploaders : UploadKnown(v)) /\ UploadsApart
      /\ RowUsed /\ SweepKnown /\ DoomedKnown /\ BegunKnown /\ MissingKnown
  BY DEF AttachInv
<1>1. UNCHANGED <<rowOf, stored, used, sending, doomed, sweep, sweeps, uncertain, begun>>
  BY DEF SoftDelete, MonthPasses, Restore
<1>2. AttachTypeOK' /\ BegunKnown'
  <2>1. CASE SoftDelete(i)
    BY <1>t, <1>1, <2>1 DEF SoftDelete, AttachTypeOK, BegunKnown
  <2>2. CASE MonthPasses(i)
    BY <1>t, <1>1, <2>2 DEF MonthPasses, AttachTypeOK, BegunKnown
  <2>3. CASE Restore(i)
    BY <1>t, <1>1, <2>3 DEF Restore, AttachTypeOK, BegunKnown
  <2> QED BY <2>1, <2>2, <2>3
<1>3. /\ RowUsed' /\ SweepKnown' /\ DoomedKnown' /\ MissingKnown' /\ UploadsApart'
      /\ \A v \in Uploaders : UploadKnown(v)'
  BY <1>t, <1>1 DEF RowUsed, SweepKnown, DoomedKnown, MissingKnown, UploadsApart, UploadKnown
<1> QED BY <1>2, <1>3 DEF AttachInv

LEMMA SweepSteps ==
  ASSUME AttachInv,
         \/ BeginSweep \/ ListPurgeableAttachmentKeys \/ SkipBlobs \/ PurgeItems \/ SweepStops
         \/ \E f \in Files : SweepBlob(f)
  PROVE  AttachInv'
<1>t. /\ AttachTypeOK /\ (\A v \in Uploaders : UploadKnown(v)) /\ UploadsApart
      /\ RowUsed /\ SweepKnown /\ DoomedKnown /\ BegunKnown /\ MissingKnown
      /\ sweep \in Sweep /\ sweep.due \subseteq Bearers /\ sweep.keys \subseteq Files
  BY DEF AttachInv, AttachTypeOK, Sweep
<1>p. Purgeable \subseteq begun /\ NoItem \notin Purgeable /\ Purgeable \subseteq Bearers
  BY <1>t, AttachmentsAssumption DEF Purgeable, SweepKnown
<1>1. CASE BeginSweep
  <2> DEFINE due == {i \in Bearers : life[i] = "due"}
  <2>1. /\ sweep' = [at |-> "list", due |-> due, keys |-> {}] /\ sweeps' = sweeps + 1
        /\ sweeps < MaxSweeps /\ begun' = begun \cup due
        /\ UNCHANGED <<life, rowOf, stored, used, sending, doomed, uncertain, revived>>
    BY <1>1 DEF BeginSweep
  <2>2. sweep' \in Sweep /\ sweep'.due = due /\ sweep'.keys = {} /\ sweeps' \in 0..MaxSweeps
    BY <1>t, <2>1, AttachmentsAssumption DEF Sweep, AttachTypeOK
  <2>3. AttachTypeOK' /\ BegunKnown' /\ RowUsed' /\ DoomedKnown' /\ MissingKnown' /\ SweepKnown'
        /\ UploadsApart'
    BY <1>t, <2>1, <2>2
       DEF AttachTypeOK, BegunKnown, RowUsed, DoomedKnown, MissingKnown, SweepKnown, UploadsApart
  <2>4. \A v \in Uploaders : UploadKnown(v)'
    BY <1>t, <2>1, <2>2 DEF UploadKnown
  <2> QED BY <2>3, <2>4 DEF AttachInv
<1>2. CASE PurgeItems
  <2>1. /\ life' = [i \in Bearers |-> IF i \in Purgeable THEN "gone" ELSE life[i]]
        /\ rowOf' = [f \in Files |-> IF rowOf[f] \in Purgeable THEN NoItem ELSE rowOf[f]]
        /\ sweep' = NoSweep
        /\ UNCHANGED <<stored, used, sending, doomed, sweeps, uncertain, begun, revived>>
    BY <1>2 DEF PurgeItems
  <2> HIDE DEF Purgeable
  <2>2. AttachTypeOK' /\ BegunKnown' /\ RowUsed' /\ DoomedKnown' /\ MissingKnown' /\ SweepKnown'
        /\ UploadsApart'
    BY <1>t, <1>p, <2>1, NoUploadFacts
       DEF AttachTypeOK, BegunKnown, RowUsed, DoomedKnown, MissingKnown, SweepKnown, UploadsApart
  <2>3. ASSUME NEW v \in Uploaders PROVE UploadKnown(v)'
    <3>1. UploadKnown(v) /\ sending[v].new \subseteq Files
      BY <1>t, UploadFacts
    <3> QED BY <2>1, <3>1, NoUploadFacts DEF UploadKnown
  <2> QED BY <2>2, <2>3 DEF AttachInv
<1>3. CASE \/ ListPurgeableAttachmentKeys \/ SkipBlobs \/ SweepStops
           \/ \E f \in Files : SweepBlob(f)
  <2>1. UNCHANGED <<life, rowOf, used, sending, doomed, sweeps, uncertain, begun, revived>>
    BY <1>3 DEF ListPurgeableAttachmentKeys, SkipBlobs, SweepStops, SweepBlob
  <2>2. /\ sweep' \in Sweep /\ sweep'.due \subseteq sweep.due
        /\ sweep'.keys \subseteq sweep.keys \cup {f \in Files : rowOf[f] \in Purgeable}
        /\ stored' \subseteq stored /\ stored \ stored' \subseteq sweep.keys
    <3>1. CASE ListPurgeableAttachmentKeys
      <4> DEFINE ks == {f \in Files : rowOf[f] \in Purgeable}
      <4>1. ks \subseteq Files /\ sweep' = [sweep EXCEPT !.at = "blobs", !.keys = ks]
            /\ UNCHANGED stored
        BY <3>1 DEF ListPurgeableAttachmentKeys
      <4> HIDE DEF ks
      <4>2. sweep' \in Sweep /\ sweep'.due = sweep.due /\ sweep'.keys = ks
        BY <1>t, <4>1 DEF Sweep
      <4> QED BY <4>1, <4>2 DEF ks
    <3>2. CASE SkipBlobs
      BY <1>t, <3>2 DEF SkipBlobs, Sweep
    <3>3. CASE SweepStops
      BY <1>t, <3>3, NoUploadFacts DEF SweepStops
    <3>4. ASSUME NEW f \in Files, SweepBlob(f) PROVE <2>2
      BY <1>t, <3>4 DEF SweepBlob, Sweep
    <3> QED BY <1>3, <3>1, <3>2, <3>3, <3>4
  <2>3. \A f \in sweep'.keys \cup (stored \ stored') :
          f \in used /\ (rowOf[f] = NoItem \/ rowOf[f] \in begun)
    BY <1>t, <1>p, <2>2 DEF SweepKnown, RowUsed
  <2>4. ASSUME NEW v \in Uploaders, sending[v].at = "row", NEW f \in sending[v].new
        PROVE  f \notin sweep'.keys /\ f \notin stored \ stored'
    BY <1>t, <1>p, <2>2, <2>4 DEF UploadKnown
  <2>5. AttachTypeOK' /\ BegunKnown' /\ RowUsed' /\ DoomedKnown' /\ MissingKnown' /\ SweepKnown'
        /\ UploadsApart'
    BY <1>t, <2>1, <2>2, <2>3
       DEF AttachTypeOK, BegunKnown, RowUsed, DoomedKnown, MissingKnown, SweepKnown, UploadsApart
  <2>6. \A v \in Uploaders : UploadKnown(v)'
    BY <1>t, <2>1, <2>4 DEF UploadKnown
  <2> QED BY <2>5, <2>6 DEF AttachInv
<1> QED BY <1>1, <1>2, <1>3

LEMMA AttachInvariant == AttachSpec => []AttachInv
<1>1. AttachInit => AttachInv
  BY NoUploadFacts, AttachmentsAssumption
     DEF AttachInit, AttachInv, AttachTypeOK, BegunKnown, MissingKnown, RowUsed, SweepKnown,
         DoomedKnown, UploadKnown, UploadsApart
<1>2. AttachInv /\ [AttachNext]_attachVars => AttachInv'
  <2> SUFFICES ASSUME AttachInv, [AttachNext]_attachVars PROVE AttachInv'
    OBVIOUS
  <2>1. CASE UNCHANGED attachVars
    BY <2>1 DEF attachVars, AttachInv, AttachTypeOK, BegunKnown, MissingKnown, RowUsed, SweepKnown,
       DoomedKnown, UploadKnown, UploadsApart
  <2>2. CASE AttachNext
    BY <2>2, CountSteps, PutObjectStep, RowSteps, UndoStep, DeleteSteps, LifeSteps, SweepSteps
       DEF AttachNext
  <2> QED BY <2>1, <2>2
<1> QED BY <1>1, <1>2, PTL DEF AttachSpec

\* The object of a live item's row is there, unless the commit of the row was reported
\* failed or a sweep had begun on the item before a peer restored it.
THEOREM LiveRowsOpen == AttachSpec => []RowsOpen
<1>1. AttachInv => RowsOpen
  BY DEF AttachInv, BegunKnown, MissingKnown, RowsOpen
<1> QED BY <1>1, AttachInvariant, PTL
\* Uploads that have counted the rows of an item and not yet added theirs.
Racers(i) == {u \in Uploaders : sending[u].item = i /\ sending[u].at \in {"put", "row"}}

\* What a step does to the rows and the racers of an item.
LEMMA RacersFacts ==
  ASSUME AttachInv, [AttachNext]_attachVars, NEW i \in Bearers
  PROVE  \/ RowsOf(i)' \subseteq RowsOf(i) /\ Racers(i)' \subseteq Racers(i)
         \/ \E f \in Files, u \in Racers(i) :
              RowsOf(i)' = RowsOf(i) \cup {f} /\ Racers(i)' = Racers(i) \ {u}
         \/ Cardinality(RowsOf(i)) < MaxPerItem /\ RowsOf(i)' = RowsOf(i)
<1>t. /\ AttachTypeOK /\ NoItem # i
      /\ \A u \in Uploaders : sending[u] \in Upload
  BY AttachmentsAssumption, UploadFacts DEF AttachInv
<1>s. sending \in [Uploaders -> Upload]
  BY <1>t DEF AttachTypeOK
<1>1. ASSUME NEW u \in Uploaders, NEW j \in Bearers, BeginUpload(u, j)
      PROVE  RowsOf(i)' \subseteq RowsOf(i) /\ Racers(i)' \subseteq Racers(i)
  BY <1>1, <1>t, <1>s DEF BeginUpload, RowsOf, Racers
<1>2. ASSUME NEW u \in Uploaders,
             DropUpload(u) \/ \E f \in Files : UndoPut(u, f) \/ PutObject(u, f)
      PROVE  RowsOf(i)' \subseteq RowsOf(i) /\ Racers(i)' \subseteq Racers(i)
  <2>1. CASE DropUpload(u) \/ \E f \in Files : UndoPut(u, f)
    BY <2>1, <1>s, NoUploadFacts DEF DropUpload, UndoPut, EndUpload, RowsOf, Racers
  <2>2. ASSUME NEW f \in Files, PutObject(u, f)
        PROVE  RowsOf(i)' \subseteq RowsOf(i) /\ Racers(i)' \subseteq Racers(i)
    <3> DEFINE x == [sending[u] EXCEPT !.at = "row", !.new = {f}]
    <3>1. x.item = sending[u].item /\ sending[u].at = "put"
      BY <1>t, <2>2 DEF PutObject, Upload
    <3>2. sending' = [sending EXCEPT ![u] = x] /\ rowOf' = rowOf
      BY <1>s, <2>2 DEF PutObject
    <3> HIDE DEF x
    <3> QED BY <1>s, <3>1, <3>2 DEF RowsOf, Racers
  <2> QED BY <1>2, <2>1, <2>2
<1>3. ASSUME NEW u \in Uploaders, CountRows(u)
      PROVE  \/ RowsOf(i)' \subseteq RowsOf(i) /\ Racers(i)' \subseteq Racers(i)
             \/ Cardinality(RowsOf(i)) < MaxPerItem /\ RowsOf(i)' = RowsOf(i)
  <2>1. RowsOf(i)' = RowsOf(i)
    BY <1>3 DEF CountRows, RowsOf
  <2>2. CASE EndUpload(u)
    BY <2>1, <2>2, <1>s, NoUploadFacts DEF EndUpload, Racers
  <2>3. CASE HasRoom(u) /\ sending' = [sending EXCEPT ![u].at = "put"]
    <3>1. CASE sending[u].item = i
      BY <2>1, <2>3, <3>1 DEF HasRoom
    <3>2. CASE sending[u].item # i
      <4> DEFINE x == [sending[u] EXCEPT !.at = "put"]
      <4>1. x.item = sending[u].item /\ sending' = [sending EXCEPT ![u] = x]
        BY <1>t, <1>s, <2>3 DEF Upload
      <4> HIDE DEF x
      <4> QED BY <1>s, <2>1, <3>2, <4>1 DEF Racers
    <3> QED BY <3>1, <3>2
  <2> QED BY <1>3, <2>2, <2>3 DEF CountRows
<1>4. ASSUME NEW u \in Uploaders, NEW f \in Files,
             CreateAttachment(u, f) \/ CreateAttachmentFails(u, f)
      PROVE  \/ RowsOf(i)' \subseteq RowsOf(i) /\ Racers(i)' \subseteq Racers(i)
             \/ \E g \in Files, v \in Racers(i) :
                  RowsOf(i)' = RowsOf(i) \cup {g} /\ Racers(i)' = Racers(i) \ {v}
  <2>0. sending[u].at = "row" /\ UploadKnown(u) /\ f \in sending[u].new /\ rowOf[f] = NoItem
    BY <1>4 DEF AttachInv, CreateAttachment, CreateAttachmentFails, UploadKnown
  <2>1. \E x \in Upload : sending' = [sending EXCEPT ![u] = x] /\ x.at \notin {"put", "row"}
    <3>1. CASE CreateAttachment(u, f)
      BY <2>0, <3>1, NextPartFacts DEF CreateAttachment
    <3>2. CASE CreateAttachmentFails(u, f)
      <4>1. [sending[u] EXCEPT !.at = "undo"] \in Upload
        BY <1>t DEF Upload
      <4>2. sending' = [sending EXCEPT ![u] = [sending[u] EXCEPT !.at = "undo"]]
        BY <1>s, <3>2 DEF CreateAttachmentFails
      <4>3. [sending[u] EXCEPT !.at = "undo"].at = "undo"
        BY <1>t DEF Upload
      <4> QED BY <4>1, <4>2, <4>3
    <3> QED BY <1>4, <3>1, <3>2
  <2>2. Racers(i)' = Racers(i) \ {u}
    BY <1>s, <2>1 DEF Racers
  <2>3. rowOf' = rowOf \/ rowOf' = [rowOf EXCEPT ![f] = sending[u].item]
    BY <1>4 DEF CreateAttachment, CreateAttachmentFails
  <2>4. CASE rowOf' = rowOf \/ sending[u].item # i
    BY <1>t, <2>0, <2>2, <2>3, <2>4 DEF RowsOf, AttachTypeOK
  <2>5. CASE rowOf' = [rowOf EXCEPT ![f] = sending[u].item] /\ sending[u].item = i
    <3>1. RowsOf(i)' = RowsOf(i) \cup {f}
      BY <1>t, <2>5 DEF RowsOf, AttachTypeOK
    <3>2. u \in Racers(i)
      BY <2>0, <2>5 DEF Racers
    <3> QED BY <2>2, <3>1, <3>2
  <2> QED BY <2>3, <2>4, <2>5
<1>5. ASSUME \/ \E f \in Files : DeleteAttachment(f) \/ DeleteObject(f) \/ SweepBlob(f)
             \/ \E j \in Bearers : SoftDelete(j) \/ MonthPasses(j) \/ Restore(j)
             \/ BeginSweep \/ ListPurgeableAttachmentKeys \/ SkipBlobs \/ PurgeItems \/ SweepStops
             \/ UNCHANGED attachVars
      PROVE  RowsOf(i)' \subseteq RowsOf(i) /\ Racers(i)' \subseteq Racers(i)
  <2>1. UNCHANGED sending
    BY <1>5 DEF DeleteAttachment, DeleteObject, SweepBlob, SoftDelete, MonthPasses, Restore,
       BeginSweep, ListPurgeableAttachmentKeys, SkipBlobs, PurgeItems, SweepStops, attachVars
  <2>2. CASE PurgeItems
    BY <1>t, <2>1, <2>2 DEF PurgeItems, RowsOf, Racers
  <2>3. ASSUME NEW f \in Files, DeleteAttachment(f)
        PROVE  RowsOf(i)' \subseteq RowsOf(i) /\ Racers(i)' \subseteq Racers(i)
    BY <1>t, <2>1, <2>3 DEF DeleteAttachment, RowsOf, Racers, AttachTypeOK
  <2>4. CASE UNCHANGED rowOf
    BY <2>1, <2>4 DEF RowsOf, Racers
  <2> QED BY <1>5, <2>2, <2>3, <2>4
          DEF DeleteObject, SweepBlob, SoftDelete, MonthPasses, Restore, BeginSweep,
              ListPurgeableAttachmentKeys, SkipBlobs, SweepStops, attachVars
<1> QED BY <1>1, <1>2, <1>3, <1>4, <1>5 DEF AttachNext

\* The sets that are counted are finite.
LEMMA RacerCounts ==
  ASSUME NEW i
  PROVE  /\ IsFiniteSet(RowsOf(i)) /\ IsFiniteSet(Racers(i))
         /\ Cardinality(RowsOf(i)) \in Nat /\ Cardinality(Racers(i)) \in Nat
         /\ Cardinality(Racers(i)) <= Cardinality(Uploaders)
         /\ Cardinality(Uploaders) \in Nat /\ Cardinality(Uploaders) >= 1
<1>1. IsFiniteSet(RowsOf(i)) /\ IsFiniteSet(Racers(i))
      /\ Cardinality(Racers(i)) <= Cardinality(Uploaders)
  BY AttachmentsAssumption, FS_Subset DEF RowsOf, Racers
<1>2. Cardinality(Uploaders) \in Nat /\ Cardinality(Uploaders) # 0
  BY AttachmentsAssumption, FS_CardinalityType, FS_EmptySet
<1> QED BY <1>1, <1>2, FS_CardinalityType

\* Uploads in flight exceed the limit by one for each beyond the first, never by more.
THEOREM LimitExceededByRacers == AttachSpec => []OverLimitByRacersOnly
<1>0. OverLimitByRacersOnly <=>
        \A i \in Bearers : Cardinality(RowsOf(i)) + Cardinality(Racers(i))
                             <= MaxPerItem + Cardinality(Uploaders) - 1
  BY DEF OverLimitByRacersOnly, Racers
<1>1. AttachInit => OverLimitByRacersOnly
  <2> SUFFICES ASSUME AttachInit, NEW i \in Bearers
               PROVE  Cardinality(RowsOf(i)) + Cardinality(Racers(i))
                        <= MaxPerItem + Cardinality(Uploaders) - 1
    BY <1>0
  <2>1. RowsOf(i) = {} /\ Racers(i) = {}
    BY AttachmentsAssumption, NoUploadFacts DEF AttachInit, RowsOf, Racers
  <2>2. MaxPerItem \in Nat
    BY AttachmentsAssumption
  <2> QED BY <2>1, <2>2, RacerCounts, FS_EmptySet
<1>2. AttachInv /\ OverLimitByRacersOnly /\ [AttachNext]_attachVars => OverLimitByRacersOnly'
  <2> SUFFICES ASSUME AttachInv, OverLimitByRacersOnly, [AttachNext]_attachVars, NEW i \in Bearers
               PROVE  Cardinality(RowsOf(i))' + Cardinality(Racers(i))'
                        <= MaxPerItem + Cardinality(Uploaders) - 1
    BY <1>0 DEF OverLimitByRacersOnly, Racers
  <2> DEFINE rows == Cardinality(RowsOf(i))
             racers == Cardinality(Racers(i))
             most == Cardinality(Uploaders)
  <2>1. /\ rows \in Nat /\ racers \in Nat /\ most \in Nat /\ racers <= most
        /\ rows + racers <= MaxPerItem + most - 1 /\ MaxPerItem \in Nat
    BY <1>0, RacerCounts, AttachmentsAssumption
  <2>2. IsFiniteSet(RowsOf(i)) /\ IsFiniteSet(Racers(i))
    BY RacerCounts
  <2>3. /\ IsFiniteSet(RowsOf(i)') /\ IsFiniteSet(Racers(i)')
        /\ Cardinality(RowsOf(i)') \in Nat /\ Cardinality(Racers(i)') \in Nat
        /\ Cardinality(Racers(i)') <= most
    <3>1. RowsOf(i)' \subseteq Files /\ Racers(i)' \subseteq Uploaders
      BY DEF RowsOf, Racers
    <3> QED BY <3>1, AttachmentsAssumption, FS_Subset, FS_CardinalityType
  <2>4. CASE RowsOf(i)' \subseteq RowsOf(i) /\ Racers(i)' \subseteq Racers(i)
    <3>1. Cardinality(RowsOf(i)') <= rows /\ Cardinality(Racers(i)') <= racers
      BY <2>2, <2>4, FS_Subset
    <3> QED BY <2>1, <2>3, <3>1
  <2>5. ASSUME NEW f \in Files, NEW u \in Racers(i),
               RowsOf(i)' = RowsOf(i) \cup {f}, Racers(i)' = Racers(i) \ {u}
        PROVE  Cardinality(RowsOf(i)') + Cardinality(Racers(i)') <= MaxPerItem + most - 1
    <3>1. Cardinality(RowsOf(i)') <= rows + 1
      <4>1. CASE f \in RowsOf(i)
        <5>1. RowsOf(i)' = RowsOf(i)
          BY <2>5, <4>1
        <5> QED BY <2>1, <5>1
      <4>2. CASE f \notin RowsOf(i)
        <5>1. Cardinality(RowsOf(i)') = rows + 1
          BY <2>2, <2>5, <4>2, FS_AddElement
        <5> QED BY <2>1, <5>1
      <4> QED BY <4>1, <4>2
    <3>2. Cardinality(Racers(i)') = racers - 1
      BY <2>2, <2>5, FS_RemoveElement
    <3> QED BY <2>1, <2>3, <3>1, <3>2
  <2>6. CASE rows < MaxPerItem /\ RowsOf(i)' = RowsOf(i)
    BY <2>1, <2>3, <2>6
  <2>7. Cardinality(RowsOf(i)') + Cardinality(Racers(i)') <= MaxPerItem + most - 1
    BY <2>4, <2>5, <2>6, RacersFacts
  <2> QED BY <2>7
<1> QED BY <1>1, <1>2, AttachInvariant, PTL DEF AttachSpec

----------------------------------------------------------------------------
(* The parents of the projects. *)

\* A set of numbers that is not empty has a least one.
LEMMA LeastNumber ==
  ASSUME NEW T, T \subseteq Nat, T # {}
  PROVE  \E n \in T : \A m \in T : n <= m
<1>1. IsWellFoundedOn(OpToRel(<,Nat), Nat)
  BY NatLessThanWellFounded
<1>2. PICK n \in T : \A m \in T : ~(<<m, n>> \in OpToRel(<,Nat))
  BY <1>1, WFMin
<1>3. ASSUME NEW m \in T PROVE n <= m
  <2>1. ~(m < n) /\ m \in Nat /\ n \in Nat
    BY <1>2 DEF OpToRel
  <2> QED BY <2>1
<1> QED BY <1>3

\* A set with 0 and the successor of each of its numbers has them all.
LEMMA CountingUp ==
  ASSUME NEW S, 0 \in S, \A n \in Nat : n \in S => n + 1 \in S
  PROVE  Nat \subseteq S
<1> DEFINE T == Nat \ S
<1>1. ASSUME T # {} PROVE FALSE
  <2>1. PICK n \in T : \A m \in T : n <= m
    BY <1>1, LeastNumber
  <2>2. n # 0 /\ n - 1 \in Nat /\ n - 1 \notin T
    BY <2>1
  <2> QED BY <2>1, <2>2
<1> QED BY <1>1

\* What the recursive query has found after n rounds: Descendants is the last of them.
Rounds(below, s) ==
  below = [n \in 0..Cardinality(Slugs) |->
             IF n = 0 THEN {x \in {s} : Exists(x)}
             ELSE below[n - 1] \cup UNION {Children(x) : x \in below[n - 1]}]

\* The rounds are defined, each from the one before.
LEMMA RoundsDefined ==
  ASSUME NEW s
  PROVE  \E below : Rounds(below, s) /\ Descendants(s) = below[Cardinality(Slugs)]
<1> DEFINE first == {x \in {s} : Exists(x)}
           next(X) == X \cup UNION {Children(x) : x \in X}
           upto(f, m) == f = [n \in 0..m |-> IF n = 0 THEN first ELSE next(f[n - 1])]
           T == {m \in Nat : \E f : upto(f, m)}
<1> HIDE DEF first, next
<1>1. 0 \in T
  <2>1. upto([n \in 0..0 |-> first], 0)
    OBVIOUS
  <2> QED BY <2>1
<1>2. ASSUME NEW m \in Nat, m \in T PROVE m + 1 \in T
  <2>1. PICK f : upto(f, m)
    BY <1>2
  <2> DEFINE g == [n \in 0..(m + 1) |-> IF n = m + 1 THEN next(f[m]) ELSE f[n]]
  <2>2. ASSUME NEW n \in 0..(m + 1) PROVE g[n] = IF n = 0 THEN first ELSE next(g[n - 1])
    <3>1. CASE n = 0
      <4>1. f[0] = first /\ n # m + 1
        BY <2>1, <3>1
      <4> QED BY <3>1, <4>1
    <3>2. CASE n # 0 /\ n # m + 1
      <4>1. n \in 0..m /\ n - 1 \in 0..m /\ n - 1 # m + 1 /\ n - 1 \in 0..(m + 1)
        BY <3>2
      <4>2. f[n] = next(f[n - 1])
        BY <2>1, <3>2, <4>1
      <4> QED BY <3>2, <4>1, <4>2
    <3>3. CASE n = m + 1
      <4>1. n # 0 /\ n - 1 = m /\ m \in 0..(m + 1) /\ m # m + 1
        BY <3>3
      <4> QED BY <3>3, <4>1
    <3> QED BY <3>1, <3>2, <3>3
  <2>3. g = [n \in 0..(m + 1) |-> g[n]]
    OBVIOUS
  <2> HIDE DEF g
  <2>4. upto(g, m + 1)
    BY <2>2, <2>3
  <2> QED BY <2>4
<1>3. Cardinality(Slugs) \in Nat
  BY ProjectsAssumption, FS_CardinalityType
<1>4. Cardinality(Slugs) \in T
  <2> HIDE DEF T
  <2>1. Nat \subseteq T
    BY <1>1, <1>2, CountingUp
  <2> QED BY <1>3, <2>1
<1>5. PICK f : Rounds(f, s)
  BY <1>4 DEF Rounds, first, next
<1>6. Rounds(CHOOSE below : Rounds(below, s), s)
  BY <1>5
<1>7. Descendants(s) = (CHOOSE below : Rounds(below, s))[Cardinality(Slugs)]
  BY DEF Descendants, Rounds
<1> QED BY <1>6, <1>7

\* A parent exists: the foreign key.
Rooted == \A k \in Slugs : parent[k] # NoSlug => Exists(parent[k])

\* Projects whose parents are among them: every cycle is such a set, and in a
\* finite tree every such set holds a cycle.
Loop(C) == C # {} /\ \A x \in C : Exists(x) /\ parent[x] \in C

\* No such set without a parent written after its check was overtaken.
NoCleanLoop == \A C \in SUBSET Slugs : Loop(C) => C \cap staleEdge # {}

\* Some projects, s among them and p not, have all of their children among them:
\* p is not below s.
Apart(s, p) ==
  \E T \in SUBSET Slugs :
    /\ s \in T /\ p \notin T
    /\ \A k \in Slugs : Exists(k) /\ parent[k] \in T => k \in T

\* What the walk of a request has established still holds, or it is marked.
WalkHolds(r) ==
  /\ r.at = "walk" => r.to # r.slug
  /\ r.at = "write" /\ ~r.create /\ ~r.moved => Apart(r.slug, r.to)

ForestInv ==
  Rooted /\ NoCleanLoop /\ \A a \in Admins : WalkHolds(request[a])

\* A step that writes no parent: it removes no project, and one it adds is a root.
SameTree ==
  /\ parent' = parent /\ staleEdge' = staleEdge
  /\ \A s \in Slugs : /\ Exists(s) => Exists(s)'
                      /\ Exists(s)' => Exists(s) \/ parent[s] = NoSlug

LEMMA SameTreeStep ==
  ASSUME ProjectInv, ForestInv, SameTree,
         \A b \in Admins : WalkHolds(request'[b])
  PROVE  ForestInv'
<1>t. parent \in [Slugs -> Slugs \cup {NoSlug}] /\ NoSlug \notin Slugs
  BY ProjectsAssumption DEF ProjectInv, ProjectsTypeOK
<1>1. Rooted'
  BY <1>t DEF ForestInv, Rooted, SameTree, Exists
<1>2. NoCleanLoop'
  <2> SUFFICES ASSUME NEW C \in SUBSET Slugs, Loop(C)' PROVE C \cap staleEdge' # {}
    BY DEF NoCleanLoop
  <2>1. Loop(C)
    <3> SUFFICES ASSUME NEW x \in C PROVE Exists(x) /\ parent[x] \in C
      BY DEF Loop
    <3>1. x \in Slugs /\ Exists(x)' /\ parent[x] \in C /\ parent[x] # NoSlug
      BY <1>t DEF Loop, SameTree
    <3> QED BY <3>1 DEF SameTree
  <2> QED BY <2>1 DEF ForestInv, NoCleanLoop, SameTree
<1>3. ASSUME NEW b \in Admins PROVE WalkHolds(request[b])'
  <2>1. ASSUME NEW s, NEW p, Apart(s, p)
        PROVE  \E T \in SUBSET Slugs :
                 /\ s \in T /\ p \notin T
                 /\ \A k \in Slugs : Exists(k)' /\ parent'[k] \in T => k \in T
    <3>1. PICK T \in SUBSET Slugs :
            /\ s \in T /\ p \notin T
            /\ \A k \in Slugs : Exists(k) /\ parent[k] \in T => k \in T
      BY <2>1 DEF Apart
    <3>2. ASSUME NEW k \in Slugs, Exists(k)', parent'[k] \in T PROVE k \in T
      <4>1. parent[k] \in T /\ parent[k] # NoSlug
        BY <1>t, <3>2 DEF SameTree
      <4>2. Exists(k)
        BY <3>2, <4>1 DEF SameTree
      <4> QED BY <3>1, <4>1, <4>2
    <3> QED BY <3>1, <3>2
  <2>2. WalkHolds(request'[b])
    OBVIOUS
  <2> QED BY <2>1, <2>2 DEF WalkHolds, Apart
<1> QED BY <1>1, <1>2, <1>3 DEF ForestInv

\* After a write of the tree every other request that has made its walk is marked.
LEMMA OvertakenWalks ==
  ASSUME ProjectsTypeOK, NEW a, NEW ss, NEW b \in Admins, b # a
  PROVE  LET m == Moved(a, TRUE, ss) IN
         /\ m[b].at = request[b].at /\ m[b].to = request[b].to /\ m[b].slug = request[b].slug
         /\ m[b].at = "write" => m[b].moved
<1>1. request[b] \in Request
  BY DEF ProjectsTypeOK
<1>2. [request[b] EXCEPT !.moved = TRUE].moved
  BY <1>1 DEF Request
<1>3. LET r == [request[b] EXCEPT !.moved = TRUE] IN
      r.at = request[b].at /\ r.to = request[b].to /\ r.slug = request[b].slug
  BY <1>1 DEF Request
<1> QED BY <1>2, <1>3 DEF Moved

LEMMA WalksAfterWrite ==
  ASSUME ProjectsTypeOK, \A b \in Admins : WalkHolds(request[b]), NEW a, NEW ss,
         \/ request' = Done(a, Moved(a, TRUE, ss))
         \/ a \notin Admins /\ request' = Moved(a, TRUE, ss)
         \/ a \in Admins /\ request' = [Moved(a, TRUE, ss) EXCEPT ![a].at = "blobs"]
  PROVE  \A b \in Admins : WalkHolds(request[b])'
<1> SUFFICES ASSUME NEW b \in Admins PROVE WalkHolds(request[b])'
  OBVIOUS
<1> DEFINE m == Moved(a, TRUE, ss)
<1>1. /\ m = [d \in Admins |-> m[d]]
      /\ request' = Done(a, m) \/ (a \notin Admins /\ request' = m)
           \/ (a \in Admins /\ request' = [m EXCEPT ![a].at = "blobs"])
  BY DEF Moved
<1>2. b # a => /\ m[b].at = request[b].at /\ m[b].to = request[b].to /\ m[b].slug = request[b].slug
               /\ m[b].at = "write" => m[b].moved
  BY OvertakenWalks
<1>m. m \in [Admins -> Request]
  BY MovedFacts
<1> HIDE DEF m
<1>3. CASE b # a
  <2>1. request'[b] = m[b]
    BY <1>1, <1>3 DEF Done
  <2> QED BY <1>2, <1>3, <2>1 DEF WalkHolds
<1>4. CASE b = a
  <2>1. CASE request' = Done(a, m)
    <3>1. request'[b] = NoRequest
      BY <1>1, <1>4, <2>1 DEF Done
    <3> QED BY <3>1, NoRequestFacts DEF WalkHolds
  <2>2. CASE request' = [m EXCEPT ![a].at = "blobs"]
    <3>1. m[a] \in Request
      BY <1>4, <1>m
    <3>2. request'[b] = [m[a] EXCEPT !.at = "blobs"]
      BY <1>1, <1>4, <2>2
    <3>3. request'[b].at = "blobs"
      BY <3>1, <3>2 DEF Request
    <3> QED BY <3>3 DEF WalkHolds
  <2> QED BY <1>1, <1>4, <2>1, <2>2
<1> QED BY <1>3, <1>4

\* A parent that was checked closes no loop: what is left of one above the
\* project was a loop before.
LEMMA WriteParentForest ==
  ASSUME ProjectInv, ProjectsTypeOK', ForestInv, NEW a \in Admins, WriteParent(a),
         Exists(request[a].slug), Exists(request[a].to)
  PROVE  ForestInv'
<1> DEFINE s == request[a].slug
           p == request[a].to
<1>t. /\ ProjectsTypeOK /\ \A b \in Admins : WalkHolds(request[b])
      /\ NoSlug \notin Slugs /\ Rooted /\ NoCleanLoop
  BY ProjectsAssumption DEF ProjectInv, ForestInv
<1>1. PICK n \in Patched(s) : status' = n
  BY DEF WriteParent
<1>2. /\ s \in Slugs /\ p \in Slugs /\ parent' = [parent EXCEPT ![s] = p]
      /\ staleEdge' = IF request[a].moved THEN staleEdge \cup {s} ELSE staleEdge \ {s}
      /\ request' = Done(a, Moved(a, TRUE, {p} \cup {x \in {s} : status' # status}))
      /\ ~request[a].moved => Apart(s, p)
  BY <1>t DEF WriteParent, Exists, WalkHolds
<1>3. \A x \in Slugs : Exists(x)' <=> Exists(x)
  BY <1>t, <1>1, <1>2 DEF Patched, Exists, ProjectsTypeOK
<1>p. Exists(p) /\ Exists(s)
  OBVIOUS
<1>4. \A b \in Admins : WalkHolds(request[b])'
  BY <1>t, <1>2, WalksAfterWrite
<1> HIDE DEF s, p
<1>5. \A x \in Slugs : parent'[x] = IF x = s THEN p ELSE parent[x]
  BY <1>t, <1>2 DEF ProjectsTypeOK
<1>6. Rooted'
  <2> SUFFICES ASSUME NEW k \in Slugs, parent'[k] # NoSlug PROVE Exists(parent[k])'
    BY DEF Rooted
  <2>1. parent'[k] \in Slugs /\ Exists(parent'[k])
    BY <1>t, <1>2, <1>5, <1>p DEF Rooted, ProjectsTypeOK
  <2>2. status'[parent'[k]] # "absent"
    BY <1>3, <2>1 DEF Exists
  <2> QED BY <2>1, <2>2 DEF Exists
<1>7. ASSUME NEW C \in SUBSET Slugs, Loop(C)', C \cap staleEdge' = {} PROVE FALSE
  <2>1. C # {} /\ \A x \in C : Exists(x) /\ parent'[x] \in C
    BY <1>3, <1>7 DEF Loop
  <2>2. CASE s \notin C
    <3>1. Loop(C)
      BY <1>5, <2>1, <2>2 DEF Loop
    <3>2. C \cap staleEdge # {}
      BY <1>t, <3>1 DEF NoCleanLoop
    <3> QED BY <1>2, <1>7, <2>2, <3>2
  <2>3. CASE s \in C
    <3>1. ~request[a].moved
      BY <1>2, <1>7, <2>3
    <3>2. PICK T \in SUBSET Slugs :
            /\ s \in T /\ p \notin T
            /\ \A k \in Slugs : Exists(k) /\ parent[k] \in T => k \in T
      BY <1>2, <3>1 DEF Apart
    <3>3. ASSUME NEW x \in C \ T PROVE Exists(x) /\ parent[x] \in C \ T
      BY <1>5, <2>1, <3>2, <3>3
    <3>4. p \in C \ T
      BY <1>2, <1>5, <2>1, <2>3, <3>2
    <3>5. Loop(C \ T)
      BY <3>3, <3>4 DEF Loop
    <3>6. (C \ T) \cap staleEdge # {}
      BY <1>t, <3>5 DEF NoCleanLoop
    <3> QED BY <1>2, <1>7, <3>1, <3>2, <3>6
  <2> QED BY <2>2, <2>3
<1> QED BY <1>4, <1>6, <1>7 DEF ForestInv, NoCleanLoop

\* A project that is created has no children: a loop through it was one without it.
LEMMA CreateForest ==
  ASSUME ProjectInv, ForestInv, NEW a \in Admins, CreateProject(a),
         ~Exists(request[a].slug), Exists(request[a].to)
  PROVE  ForestInv'
<1> DEFINE s == request[a].slug
           p == request[a].to
<1>t. /\ ProjectsTypeOK /\ \A b \in Admins : WalkHolds(request[b])
      /\ NoSlug \notin Slugs /\ Rooted /\ NoCleanLoop /\ PurgeKnows(request[a])
  BY ProjectsAssumption DEF ProjectInv, ForestInv
<1>2. /\ s \in Slugs /\ p \in Slugs /\ parent' = [parent EXCEPT ![s] = p]
      /\ status' = [status EXCEPT ![s] = "active"] /\ staleEdge' = staleEdge \ {s}
      /\ request' = Done(a, Moved(a, TRUE, {p})) /\ ~Exists(s) /\ Exists(p)
  BY <1>t DEF CreateProject, Exists, PurgeKnows
<1>4. \A b \in Admins : WalkHolds(request[b])'
  BY <1>t, <1>2, WalksAfterWrite
<1> HIDE DEF s, p
<1>3. \A x \in Slugs : Exists(x)' <=> Exists(x) \/ x = s
  BY <1>t, <1>2 DEF Exists, ProjectsTypeOK
<1>5. \A x \in Slugs : parent'[x] = IF x = s THEN p ELSE parent[x]
  BY <1>t, <1>2 DEF ProjectsTypeOK
<1>6. Rooted'
  <2> SUFFICES ASSUME NEW k \in Slugs, parent'[k] # NoSlug PROVE Exists(parent[k])'
    BY DEF Rooted
  <2>1. parent'[k] \in Slugs /\ Exists(parent'[k])
    BY <1>t, <1>2, <1>5 DEF Rooted, ProjectsTypeOK
  <2>2. status'[parent'[k]] # "absent"
    BY <1>3, <2>1 DEF Exists
  <2> QED BY <2>1, <2>2 DEF Exists
<1>7. ASSUME NEW C \in SUBSET Slugs, Loop(C)', C \cap staleEdge' = {} PROVE FALSE
  <2> DEFINE D == C \ {s}
  <2>1. C # {} /\ \A x \in C : Exists(x)' /\ parent'[x] \in C
    BY <1>7 DEF Loop
  <2>2. ASSUME NEW x \in D PROVE Exists(x) /\ parent[x] \in D
    <3>1. x \in Slugs /\ Exists(x) /\ parent[x] \in C
      BY <1>3, <1>5, <2>1
    <3>2. parent[x] # s
      BY <1>t, <1>2, <3>1 DEF Rooted
    <3> QED BY <3>1, <3>2
  <2>3. D # {}
    <3>1. s \in C => p \in C /\ p # s
      BY <1>2, <1>5, <2>1
    <3> QED BY <2>1, <3>1
  <2>4. Loop(D)
    BY <2>2, <2>3 DEF Loop
  <2>5. D \cap staleEdge # {}
    BY <1>t, <2>4 DEF NoCleanLoop
  <2> QED BY <1>2, <1>7, <2>5
<1> QED BY <1>4, <1>6, <1>7 DEF ForestInv, NoCleanLoop

\* Projects that leave their parent, or go, leave every loop.
LEMMA LeaveForest ==
  ASSUME ProjectInv, ProjectsTypeOK', ForestInv, NEW gone \in SUBSET Slugs, NEW left \in SUBSET Slugs,
         \A x \in Slugs : /\ Exists(x)' <=> Exists(x) /\ x \notin gone
                          /\ parent'[x] = IF x \in left THEN NoSlug ELSE parent[x]
                          /\ parent[x] \in gone => x \in left,
         staleEdge' = staleEdge \ left, gone \subseteq left,
         \A b \in Admins : WalkHolds(request[b])'
  PROVE  ForestInv'
<1>t. ProjectsTypeOK /\ NoSlug \notin Slugs /\ Rooted /\ NoCleanLoop
  BY ProjectsAssumption DEF ProjectInv, ForestInv
<1>1. Rooted'
  <2> SUFFICES ASSUME NEW k \in Slugs, parent'[k] # NoSlug PROVE Exists(parent[k])'
    BY DEF Rooted
  <2>1. parent'[k] = parent[k] /\ parent[k] \in Slugs /\ Exists(parent[k]) /\ parent[k] \notin gone
    BY <1>t DEF Rooted, ProjectsTypeOK
  <2>2. \A x \in Slugs : Exists(x) /\ x \notin gone => status'[x] # "absent"
    BY DEF Exists
  <2> QED BY <2>1, <2>2 DEF Exists
<1>2. ASSUME NEW C \in SUBSET Slugs, Loop(C)' PROVE C \cap staleEdge' # {}
  <2>1. \A x \in C : x \notin left /\ Exists(x) /\ parent[x] \in C
    BY <1>t, <1>2 DEF Loop
  <2>2. Loop(C)
    BY <1>2, <2>1 DEF Loop
  <2>3. C \cap staleEdge # {}
    BY <1>t, <2>2 DEF NoCleanLoop
  <2> QED BY <2>1, <2>3
<1> QED BY <1>1, <1>2 DEF ForestInv, NoCleanLoop

\* The children of the projects of T are in T.
Downwards(T) == \A k \in Slugs : Exists(k) /\ parent[k] \in T => k \in T

\* Descendants is the least set that holds the project, if it exists, and with
\* each project its children: the query has as many rounds as there are
\* projects, and each adds one or is the last.
LEMMA DescendantsLeast ==
  ASSUME NEW s \in Slugs
  PROVE  /\ Descendants(s) \subseteq {x \in Slugs : Exists(x)}
         /\ Exists(s) => s \in Descendants(s)
         /\ Downwards(Descendants(s))
         /\ \A T : (Exists(s) => s \in T) /\ Downwards(T) => Descendants(s) \subseteq T
<1> DEFINE N == Cardinality(Slugs)
<1>1. PICK below : Rounds(below, s) /\ Descendants(s) = below[N]
  BY RoundsDefined
<1>2. N \in Nat /\ IsFiniteSet(Slugs)
  BY ProjectsAssumption, FS_CardinalityType
<1> HIDE DEF N
<1>3. below[0] = {x \in {s} : Exists(x)}
  BY <1>1, <1>2 DEF Rounds, N
<1>4. \A n \in Nat : n + 1 <= N =>
        below[n + 1] = below[n] \cup UNION {Children(x) : x \in below[n]}
  <2> SUFFICES ASSUME NEW n \in Nat, n + 1 <= N
               PROVE  below[n + 1] = below[n] \cup UNION {Children(x) : x \in below[n]}
    OBVIOUS
  <2>1. n + 1 \in 0..Cardinality(Slugs) /\ n + 1 # 0 /\ (n + 1) - 1 = n
    BY <1>2 DEF N
  <2> QED BY <1>1, <2>1 DEF Rounds
<1>5. ASSUME NEW T, Exists(s) => s \in T, Downwards(T) PROVE Descendants(s) \subseteq T
  <2> DEFINE M == {n \in Nat : n <= N => below[n] \subseteq T}
  <2>1. 0 \in M
    BY <1>3, <1>5
  <2>2. \A n \in Nat : n \in M => n + 1 \in M
    <3> SUFFICES ASSUME NEW n \in M, n + 1 <= N, NEW k \in below[n + 1] PROVE k \in T
      BY <1>2
    <3>1. n \in Nat /\ below[n] \subseteq T
      BY <1>2
    <3>2. below[n + 1] = below[n] \cup UNION {Children(x) : x \in below[n]}
      BY <1>4, <3>1
    <3>3. k \in below[n] \/ \E x \in below[n] : k \in Children(x)
      BY <3>2
    <3> QED BY <1>5, <3>1, <3>3 DEF Downwards, Children
  <2> HIDE DEF M
  <2>3. Nat \subseteq M
    BY <2>1, <2>2, CountingUp
  <2>4. N \in M
    BY <1>2, <2>3
  <2> QED BY <1>1, <1>2, <2>4 DEF M
<1>6. \A n \in Nat : n <= N => below[n] \subseteq Slugs
  <2> DEFINE M == {n \in Nat : n <= N => below[n] \subseteq Slugs}
  <2>1. 0 \in M
    BY <1>3
  <2>2. \A n \in Nat : n \in M => n + 1 \in M
    <3> SUFFICES ASSUME NEW n \in M, n + 1 <= N PROVE below[n + 1] \subseteq Slugs
      BY <1>2
    <3>1. n \in Nat /\ below[n] \subseteq Slugs
      BY <1>2
    <3> QED BY <1>4, <3>1 DEF Children
  <2> HIDE DEF M
  <2>3. Nat \subseteq M
    BY <2>1, <2>2, CountingUp
  <2> QED BY <2>3 DEF M
<1>7. Downwards(Descendants(s))
  <2> DEFINE M == {n \in Nat : n <= N => Downwards(below[n]) \/ Cardinality(below[n]) >= n}
  <2>c. \A n \in Nat : n <= N => IsFiniteSet(below[n]) /\ Cardinality(below[n]) \in Nat
    BY <1>2, <1>6, FS_Subset, FS_CardinalityType
  <2>1. 0 \in M
    BY <1>2, <2>c
  <2>2. \A n \in Nat : n \in M => n + 1 \in M
    <3> SUFFICES ASSUME NEW n \in M, n + 1 <= N
                 PROVE  Downwards(below[n + 1]) \/ Cardinality(below[n + 1]) >= n + 1
      BY <1>2
    <3>1. n \in Nat /\ n <= N /\ (Downwards(below[n]) \/ Cardinality(below[n]) >= n)
      BY <1>2
    <3>2. below[n + 1] = below[n] \cup UNION {Children(x) : x \in below[n]}
      BY <1>4, <3>1
    <3>3. CASE below[n + 1] = below[n]
      <4>1. Downwards(below[n])
        BY <3>2, <3>3 DEF Downwards, Children
      <4> QED BY <3>3, <4>1
    <3>4. CASE below[n + 1] # below[n]
      <4>1. ~Downwards(below[n])
        BY <3>2, <3>4 DEF Downwards, Children
      <4>2. below[n] \in SUBSET below[n + 1] /\ n + 1 \in Nat
        BY <3>1, <3>2
      <4>3. /\ Cardinality(below[n]) <= Cardinality(below[n + 1])
            /\ Cardinality(below[n]) # Cardinality(below[n + 1])
        BY <2>c, <3>4, <4>2, FS_Subset
      <4>4. Cardinality(below[n]) \in Nat /\ Cardinality(below[n + 1]) \in Nat
        BY <2>c, <3>1, <4>2
      <4> QED BY <3>1, <4>1, <4>3, <4>4
    <3> QED BY <3>3, <3>4
  <2> HIDE DEF M
  <2>3. Nat \subseteq M
    BY <2>1, <2>2, CountingUp
  <2>4. Downwards(below[N]) \/ Cardinality(below[N]) >= N
    BY <1>2, <2>3 DEF M
  <2>5. CASE Cardinality(below[N]) >= N
    <3>1. below[N] \in SUBSET Slugs
      BY <1>2, <1>6
    <3>2. Cardinality(below[N]) <= N /\ Cardinality(below[N]) \in Nat
      BY <1>2, <2>c, <3>1, FS_Subset DEF N
    <3>3. Cardinality(Slugs) = Cardinality(below[N])
      BY <1>2, <2>5, <3>2 DEF N
    <3>4. below[N] = Slugs
      BY <1>2, <3>1, <3>3, FS_Subset
    <3> QED BY <1>1, <3>4 DEF Downwards
  <2> QED BY <1>1, <2>4, <2>5
<1>8. Exists(s) => s \in Descendants(s)
  <2> DEFINE M == {n \in Nat : n <= N => (Exists(s) => s \in below[n])}
  <2>1. 0 \in M
    BY <1>3
  <2>2. \A n \in Nat : n \in M => n + 1 \in M
    BY <1>2, <1>4
  <2> HIDE DEF M
  <2>3. Nat \subseteq M
    BY <2>1, <2>2, CountingUp
  <2> QED BY <1>1, <1>2, <2>3 DEF M
<1>9. Descendants(s) \subseteq {x \in Slugs : Exists(x)}
  BY <1>5 DEF Downwards, Exists
<1> QED BY <1>5, <1>7, <1>8, <1>9

\* A project below s, other than s, has its parent below s as well.
LEMMA DescendantsUp ==
  ASSUME NEW s \in Slugs, NEW k \in Descendants(s), k # s
  PROVE  parent[k] \in Descendants(s)
<1> DEFINE T == {x \in Descendants(s) : x = s \/ parent[x] \in Descendants(s)}
<1>1. Exists(s) => s \in T
  BY DescendantsLeast
<1>2. Downwards(T)
  BY DescendantsLeast DEF Downwards
<1> HIDE DEF T
<1>3. Descendants(s) \subseteq T
  BY <1>1, <1>2, DescendantsLeast
<1> QED BY <1>3 DEF T

\* Walking up from a project that is its own ancestor, one comes back to it.
LEMMA LoopsAreClean ==
  ASSUME ProjectInv, ForestInv
  PROVE  ForestUnlessRaced
<1>t. parent \in [Slugs -> Slugs \cup {NoSlug}] /\ NoSlug \notin Slugs /\ NoCleanLoop
  BY ProjectsAssumption DEF ProjectInv, ProjectsTypeOK, ForestInv
<1> SUFFICES ASSUME NEW s \in Slugs, Exists(s), parent[s] # NoSlug, parent[s] \in Descendants(s)
             PROVE  \E k \in Descendants(s) \cap staleEdge : s \in Descendants(k)
  BY DEF ForestUnlessRaced
<1> DEFINE C == {k \in Descendants(s) : s \in Descendants(k)}
<1>1. \A k \in Descendants(s) : k \in Slugs /\ Exists(k)
  BY DescendantsLeast
<1>2. s \in C
  BY DescendantsLeast
<1>3. ASSUME NEW k \in C PROVE parent[k] \in C
  <2>1. parent[k] \in Descendants(s)
    BY <1>3, DescendantsUp
  <2> DEFINE q == parent[k]
  <2>2. q \in Slugs /\ Exists(q) /\ k \in Slugs /\ Exists(k)
    BY <1>1, <2>1
  <2>3. k \in Descendants(q)
    BY <2>2, DescendantsLeast DEF Downwards
  <2>4. Descendants(k) \subseteq Descendants(q)
    BY <2>2, <2>3, DescendantsLeast
  <2> QED BY <1>3, <2>1, <2>4
<1>4. C \in SUBSET Slugs /\ Loop(C)
  BY <1>1, <1>2, <1>3 DEF Loop
<1>5. C \cap staleEdge # {}
  BY <1>t, <1>4 DEF NoCleanLoop
<1> QED BY <1>5

\* A step of one request that writes nothing but the request.
LEMMA AloneForest ==
  ASSUME ProjectInv, ForestInv, NEW a \in Admins, NEW r,
         request' = [request EXCEPT ![a] = r], WalkHolds(r),
         UNCHANGED <<status, parent, staleEdge>>
  PROVE  ForestInv'
<1>1. SameTree
  BY DEF SameTree, Exists
<1>2. \A b \in Admins : request'[b] = IF b = a THEN r ELSE request[b]
  BY DEF ProjectInv, ProjectsTypeOK
<1>3. \A b \in Admins : WalkHolds(request'[b])
  BY <1>2 DEF ForestInv
<1> QED BY <1>1, <1>3, SameTreeStep

LEMMA DoneForest ==
  ASSUME ProjectInv, ForestInv, NEW a \in Admins, request' = Done(a, request),
         UNCHANGED <<status, parent, staleEdge>>
  PROVE  ForestInv'
<1>1. WalkHolds(NoRequest)
  BY NoRequestFacts DEF WalkHolds
<1> QED BY <1>1, AloneForest DEF Done

\* A walk that ends finds the parent outside the set below the project.
LEMMA WalkForest ==
  ASSUME ProjectInv, ForestInv, NEW a \in Admins,
         \/ Walk(a)
         \/ \E s \in Slugs, p \in Slugs, create \in BOOLEAN : AskParent(a, s, p, create)
  PROVE  ForestInv'
<1>t. ProjectsTypeOK /\ PurgeKnows(request[a]) /\ WalkHolds(request[a]) /\ Rooted
      /\ NoSlug \notin Slugs
  BY ProjectsAssumption DEF ProjectInv, ForestInv
<1>1. CASE \E s \in Slugs, p \in Slugs, create \in BOOLEAN : AskParent(a, s, p, create)
  <2>1. PICK s \in Slugs, p \in Slugs, create \in BOOLEAN : AskParent(a, s, p, create)
    BY <1>1
  <2> DEFINE r == [NoRequest EXCEPT !.at = "walk", !.slug = s, !.to = p, !.create = create]
  <2>2. r.at = "walk" /\ r.slug = s /\ r.to = p
    BY NoRequestFacts DEF Request
  <2>3. WalkHolds(r)
    BY <2>1, <2>2 DEF WalkHolds, AskParent
  <2> QED BY <2>1, <2>3, AloneForest DEF AskParent
<1>2. CASE Walk(a)
  <2> DEFINE s == request[a].slug
             p == request[a].to
             r == [request[a] EXCEPT !.at = "write"]
  <2>1. CASE p \in Descendants(s)
    BY <1>2, <2>1, DoneForest DEF Walk
  <2>2. CASE p \notin Descendants(s)
    <3>1. s \in Slugs /\ p # s
      BY <1>2, <1>t DEF Walk, PurgeKnows, WalkHolds
    <3>2. request' = [request EXCEPT ![a] = r] /\ r.at = "write" /\ r.slug = s /\ r.to = p
      BY <1>2, <2>2, <1>t, RequestFacts DEF Walk, Request
    <3> DEFINE T == Descendants(s) \cup {s}
    <3>3. T \in SUBSET Slugs /\ s \in T /\ p \notin T
      BY <2>2, <3>1, DescendantsLeast
    <3>4. ASSUME NEW k \in Slugs, Exists(k), parent[k] \in T PROVE k \in T
      <4>1. Exists(parent[k])
        BY <1>t, <3>1, <3>3, <3>4 DEF Rooted
      <4>2. parent[k] \in Descendants(s)
        BY <3>1, <3>4, <4>1, DescendantsLeast
      <4> QED BY <3>1, <3>4, <4>2, DescendantsLeast DEF Downwards
    <3> HIDE DEF T, r, s, p
    <3>5. WalkHolds(r)
      BY <3>2, <3>3, <3>4 DEF WalkHolds, Apart
    <3> QED BY <1>2, <3>2, <3>5, AloneForest DEF Walk
  <2> QED BY <2>1, <2>2
<1> QED BY <1>1, <1>2

\* The steps of a purge but the delete, and uploads, touch no parent.
LEMMA PurgeForest ==
  ASSUME ProjectInv, ForestInv, NEW a \in Admins,
         \/ \E s \in Slugs : AskPurge(a, s)
         \/ RefuseParent(a) \/ ListKeys(a) \/ EndPurge(a) \/ GiveUpRequest(a)
         \/ \E o \in Objects : DeleteBlob(a, o) \/ SkipBlob(a, o)
  PROVE  ForestInv'
<1>t. ProjectsTypeOK /\ request[a] \in Request
  BY DEF ProjectInv, ProjectsTypeOK
<1>1. ASSUME NEW s \in Slugs, AskPurge(a, s) PROVE ForestInv'
  <2> DEFINE r == [NoRequest EXCEPT !.at = "children", !.slug = s]
  <2>1. r.at = "children"
    BY NoRequestFacts DEF Request
  <2>2. WalkHolds(r)
    BY <2>1 DEF WalkHolds
  <2> QED BY <1>1, <2>2, AloneForest DEF AskPurge
<1>2. CASE RefuseParent(a)
  <2> DEFINE r == [request[a] EXCEPT !.at = "keys"]
  <2>1. r.at = "keys" /\ [request EXCEPT ![a].at = "keys"] = [request EXCEPT ![a] = r]
    BY <1>t DEF Request, ProjectsTypeOK
  <2>2. WalkHolds(r)
    BY <2>1 DEF WalkHolds
  <2> HIDE DEF r
  <2>3. request' = [request EXCEPT ![a] = r] \/ request' = Done(a, request)
    BY <1>2, <2>1 DEF RefuseParent
  <2> QED BY <1>2, <2>2, <2>3, AloneForest, DoneForest DEF RefuseParent
<1>3. CASE ListKeys(a)
  <2> DEFINE ks == {x \in Objects : owner[x] = request[a].slug}
             r == [request[a] EXCEPT !.at = "delete", !.keys = ks]
  <2> HIDE DEF ks
  <2>1. r.at = "delete" /\ [request EXCEPT ![a].at = "delete", ![a].keys = ks]
                             = [request EXCEPT ![a] = r]
    BY <1>t DEF Request, ProjectsTypeOK
  <2>2. WalkHolds(r)
    BY <2>1 DEF WalkHolds
  <2> HIDE DEF r
  <2>3. request' = [request EXCEPT ![a] = r]
    BY <1>3, <2>1 DEF ListKeys, ks
  <2> QED BY <1>3, <2>2, <2>3, AloneForest DEF ListKeys
<1>4. CASE EndPurge(a) \/ GiveUpRequest(a)
  BY <1>4, DoneForest DEF EndPurge, GiveUpRequest
<1>5. ASSUME NEW o \in Objects, DeleteBlob(a, o) \/ SkipBlob(a, o) PROVE ForestInv'
  <2> DEFINE r == [request[a] EXCEPT !.keys = request[a].keys \ {o}]
  <2>1. r.at = request[a].at /\ request' = [request EXCEPT ![a] = r]
    BY <1>t, <1>5 DEF Request, ProjectsTypeOK, DeleteBlob, SkipBlob
  <2>2. request[a].at = "blobs" /\ UNCHANGED <<status, parent, staleEdge>>
    BY <1>5 DEF DeleteBlob, SkipBlob
  <2>3. WalkHolds(r)
    BY <2>1, <2>2 DEF WalkHolds
  <2> HIDE DEF r
  <2> QED BY <2>1, <2>2, <2>3, AloneForest
<1> QED BY <1>1, <1>2, <1>3, <1>4, <1>5

\* A status that changes, or a new root, leaves the walks as they are; one that
\* leaves its parent, or goes, leaves every loop.
LEMMA RootsForest ==
  ASSUME ProjectInv, ProjectsTypeOK', ForestInv, NEW s \in Slugs,
         \/ CreateRoot(s) \/ ClearParent(s)
         \/ \E to \in {"active", "archived"} : SetProjectStatus(s, to)
  PROVE  ForestInv'
<1>t. ProjectsTypeOK /\ Rootless /\ \A b \in Admins : WalkHolds(request[b])
  BY DEF ProjectInv, ForestInv
<1>1. CASE CreateRoot(s)
  <2>1. SameTree
    BY <1>1, <1>t DEF CreateRoot, SameTree, Exists, Rootless, ProjectsTypeOK
  <2> QED BY <1>1, <1>t, <2>1, SameTreeStep DEF CreateRoot
<1>2. CASE ClearParent(s)
  <2>1. PICK z \in Patched(s) : status' = z
    BY <1>2 DEF ClearParent
  <2>2. /\ Exists(s) /\ parent' = [parent EXCEPT ![s] = NoSlug] /\ staleEdge' = staleEdge \ {s}
        /\ request' = Moved(NoSlug, TRUE, {parent[s]} \cup {x \in {s} : status' # status})
    BY <1>2 DEF ClearParent
  <2>3. \A x \in Slugs : Exists(x)' <=> Exists(x)
    BY <1>t, <2>1, <2>2 DEF Patched, Exists, ProjectsTypeOK
  <2>4. \A x \in Slugs : parent'[x] = IF x \in {s} THEN NoSlug ELSE parent[x]
    BY <1>t, <2>2 DEF ProjectsTypeOK
  <2>5. \A b \in Admins : WalkHolds(request[b])'
    BY <1>t, <2>2, ProjectsAssumption, WalksAfterWrite
  <2> DEFINE gone == {}
             left == {s}
  <2>6. /\ gone \in SUBSET Slugs /\ left \in SUBSET Slugs /\ gone \subseteq left
        /\ staleEdge' = staleEdge \ left
        /\ \A x \in Slugs : /\ Exists(x)' <=> Exists(x) /\ x \notin gone
                            /\ parent'[x] = IF x \in left THEN NoSlug ELSE parent[x]
                            /\ parent[x] \in gone => x \in left
    BY <2>2, <2>3, <2>4
  <2> HIDE DEF gone, left
  <2> QED BY <2>5, <2>6, LeaveForest
<1>3. CASE \E to \in {"active", "archived"} : SetProjectStatus(s, to)
  <2>1. PICK to \in {"active", "archived"} : SetProjectStatus(s, to)
    BY <1>3
  <2>2. SameTree
    BY <1>t, <2>1 DEF SetProjectStatus, SameTree, Exists, ProjectsTypeOK
  <2>3. ASSUME NEW b \in Admins PROVE WalkHolds(request'[b])
    <3>1. request'[b] = request[b] \/ request[b].at \in {"children", "keys", "delete"}
      BY <2>1 DEF SetProjectStatus, Moved
    <3>2. request'[b].at = request[b].at
      <4>1. request[b] \in Request
        BY <1>t DEF ProjectsTypeOK
      <4>2. [request[b] EXCEPT !.moved = TRUE].at = request[b].at
        BY <4>1 DEF Request
      <4> QED BY <2>1, <4>2 DEF SetProjectStatus, Moved
    <3> QED BY <1>t, <3>1, <3>2 DEF WalkHolds
  <2> QED BY <2>2, <2>3, SameTreeStep
<1> QED BY <1>1, <1>2, <1>3

LEMMA DeleteForest ==
  ASSUME ProjectInv, ProjectsTypeOK', ForestInv, NEW a \in Admins, DeleteProject(a)
  PROVE  ForestInv'
<1>t. ProjectsTypeOK /\ Rootless /\ NoSlug \notin Slugs /\ \A b \in Admins : WalkHolds(request[b])
  BY ProjectsAssumption DEF ProjectInv, ForestInv
<1> DEFINE s == request[a].slug
           gone == {s}
           left == {s} \cup {k \in Slugs : parent[k] = s}
<1>1. /\ Exists(s) /\ status' = [status EXCEPT ![s] = "absent"]
      /\ parent' = [k \in Slugs |-> IF k = s \/ parent[k] = s THEN NoSlug ELSE parent[k]]
      /\ staleEdge' = staleEdge \ ({s} \cup Children(s))
      /\ request' = [Moved(a, TRUE, {s}) EXCEPT ![a].at = "blobs"]
  BY DEF DeleteProject
<1>2. \A b \in Admins : WalkHolds(request[b])'
  BY <1>t, <1>1, WalksAfterWrite
<1> HIDE DEF s
<1>3. s \in Slugs /\ Children(s) = {k \in Slugs : parent[k] = s}
  BY <1>t, <1>1 DEF Children, Exists, Rootless
<1>4. \A x \in Slugs : /\ Exists(x)' <=> Exists(x) /\ x \notin gone
                       /\ parent'[x] = IF x \in left THEN NoSlug ELSE parent[x]
                       /\ parent[x] \in gone => x \in left
  BY <1>t, <1>1 DEF Exists, ProjectsTypeOK
<1>5. /\ gone \in SUBSET Slugs /\ left \in SUBSET Slugs /\ gone \subseteq left
      /\ staleEdge' = staleEdge \ left
  BY <1>1, <1>3
<1> HIDE DEF gone, left
<1> QED BY <1>2, <1>4, <1>5, LeaveForest

LEMMA ForestInvariant == ProjectsSpec => []ForestInv
<1>1. ProjectsInit => ForestInv
  <2> SUFFICES ASSUME ProjectsInit PROVE ForestInv
    OBVIOUS
  <2>1. \A s \in Slugs : parent[s] = NoSlug
    BY DEF ProjectsInit
  <2>2. Rooted /\ NoCleanLoop
    BY <2>1, ProjectsAssumption DEF Rooted, NoCleanLoop, Loop
  <2>3. \A a \in Admins : request[a].at = "idle"
    BY NoRequestFacts DEF ProjectsInit
  <2> QED BY <2>2, <2>3 DEF ForestInv, WalkHolds
<1>2. ProjectInv /\ ProjectInv' /\ ForestInv /\ [ProjectsNext]_projectVars => ForestInv'
  <2> SUFFICES ASSUME ProjectInv, ProjectInv', ForestInv, [ProjectsNext]_projectVars
               PROVE  ForestInv'
    OBVIOUS
  <2>t. ProjectsTypeOK'
    BY DEF ProjectInv
  <2>1. ASSUME NEW a \in Admins, NEW s \in Slugs,
               \/ RestCreateProject(a, s) \/ ToolCreateProject(a, s) \/ RestPatchProject(a, s)
        PROVE  ForestInv'
    BY <2>1, <2>t, WalkForest, RootsForest
       DEF RestCreateProject, ToolCreateProject, RestPatchProject
  <2>2. ASSUME NEW a \in Admins, WriteParent(a) PROVE ForestInv'
    BY <2>2, <2>t, WriteParentForest, DoneForest DEF WriteParent
  <2>3. ASSUME NEW a \in Admins, CreateProject(a) PROVE ForestInv'
    BY <2>3, CreateForest, DoneForest DEF CreateProject
  <2>4. ASSUME NEW a \in Admins, DeleteProject(a) PROVE ForestInv'
    BY <2>4, <2>t, DeleteForest
  <2>5. ASSUME NEW a \in Admins,
               \/ \E s \in Slugs : AskPurge(a, s)
               \/ RefuseParent(a) \/ ListKeys(a) \/ EndPurge(a) \/ GiveUpRequest(a)
               \/ \E o \in Objects : DeleteBlob(a, o) \/ SkipBlob(a, o)
        PROVE  ForestInv'
    BY <2>5, PurgeForest
  <2>6. ASSUME NEW a \in Admins, Walk(a) PROVE ForestInv'
    BY <2>6, WalkForest
  <2>7. ASSUME NEW s \in Slugs,
               \/ \E to \in {"active", "archived"} : SetProjectStatus(s, to)
               \/ \E o \in Objects : Attach(o, s)
        PROVE  ForestInv'
    <3>1. CASE \E to \in {"active", "archived"} : SetProjectStatus(s, to)
      BY <2>t, <3>1, RootsForest
    <3>2. ASSUME NEW o \in Objects, Attach(o, s) PROVE ForestInv'
      <4>1. SameTree /\ request' = request
        BY <3>2 DEF Attach, SameTree, Exists
      <4> QED BY <4>1, SameTreeStep DEF ForestInv
    <3> QED BY <2>7, <3>1, <3>2
  <2>8. CASE UNCHANGED projectVars
    <3>1. SameTree /\ request' = request
      BY <2>8 DEF projectVars, SameTree, Exists
    <3> QED BY <3>1, SameTreeStep DEF ForestInv
  <2> QED BY <2>1, <2>2, <2>3, <2>4, <2>5, <2>6, <2>7, <2>8 DEF ProjectsNext
<1> QED BY <1>1, <1>2, ProjectInvariant, PTL DEF ProjectsSpec

\* Whatever cycle the parents form goes through a project whose parent was written
\* after another change of the tree had overtaken the walk that checked it.
THEOREM CyclesNeedARace == ProjectsSpec => []ForestUnlessRaced
<1>1. ProjectInv /\ ForestInv => ForestUnlessRaced
  BY LoopsAreClean
<1> QED BY <1>1, ProjectInvariant, ForestInvariant, PTL

=============================================================================
