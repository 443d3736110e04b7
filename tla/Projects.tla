------------------------------ MODULE Projects ------------------------------
(***************************************************************************)
(* The project tree, archiving and purging (service/hierarchy.go,          *)
(* service/projects.go, api/projects.go, store/projects.sql.go).  No       *)
(* handler opens a transaction: a parent is checked by two reads and then  *)
(* written, and a purge reads the status, the children and the object keys *)
(* before the DELETE, so everything a request has checked may have changed *)
(* by the time it acts on it.  The database itself keeps slugs unique,     *)
(* refuses a self-parent and a parent that does not exist, re-roots the    *)
(* children of a deleted project and cascades to its attachments.          *)
(***************************************************************************)
EXTENDS Naturals, FiniteSets

CONSTANTS
  Admins,    \* requests in flight
  Slugs,
  Objects,   \* object keys of uploads: random, hence never used twice
  NoSlug     \* no parent; no owner

ASSUME ProjectsAssumption == IsFiniteSet(Slugs) /\ NoSlug \notin Slugs \cup Admins

Request == [at : {"idle", "walk", "write", "children", "keys", "delete", "blobs"},
            slug : Slugs \cup {NoSlug}, to : Slugs \cup {NoSlug},
            create : BOOLEAN, keys : SUBSET Objects, moved : BOOLEAN]

VARIABLES
  status,     \* of each project: "absent", "active" or "archived"
  parent,     \* parent_slug
  owner,      \* the project of each attachment row, NoSlug when it has none
  objects,    \* the blob store
  uploaded,   \* objects that were ever uploaded
  request,    \* of each admin; moved: what it read has changed since
  staleEdge   \* history: projects whose parent was written after such a change

projectVars == <<status, parent, owner, objects, uploaded, request, staleEdge>>

ProjectsTypeOK ==
  /\ status \in [Slugs -> {"absent", "active", "archived"}]
  /\ parent \in [Slugs -> Slugs \cup {NoSlug}]
  /\ owner \in [Objects -> Slugs \cup {NoSlug}]
  /\ objects \subseteq uploaded /\ uploaded \subseteq Objects
  /\ request \in [Admins -> Request]
  /\ staleEdge \subseteq Slugs

NoRequest == [at |-> "idle", slug |-> NoSlug, to |-> NoSlug,
              create |-> FALSE, keys |-> {}, moved |-> FALSE]

ProjectsInit ==
  /\ status = [s \in Slugs |-> "active"]
  /\ parent = [s \in Slugs |-> NoSlug]
  /\ owner = [o \in Objects |-> NoSlug]
  /\ objects = {} /\ uploaded = {} /\ staleEdge = {}
  /\ request = [a \in Admins |-> NoRequest]

Exists(s) == s \in Slugs /\ status[s] # "absent"

Children(s) == {k \in Slugs : Exists(k) /\ parent[k] = s}

\* ProjectDescendants: the recursive query ends at a fixpoint because UNION drops
\* what it has seen, also when the parents form a cycle.
Descendants(s) ==
  LET below[n \in 0..Cardinality(Slugs)] ==
        IF n = 0 THEN {x \in {s} : Exists(x)}
        ELSE below[n - 1] \cup UNION {Children(x) : x \in below[n - 1]}
  IN below[Cardinality(Slugs)]

\* The requests as they stand after a write that changes the tree (every walk
\* is out of date) or the projects ss (a purge of one of them is).
Moved(a, tree, ss) ==
  [b \in Admins |->
     IF b # a /\ \/ tree /\ request[b].at = "write"
                 \/ request[b].slug \in ss /\ request[b].at \in {"children", "keys", "delete"}
     THEN [request[b] EXCEPT !.moved = TRUE] ELSE request[b]]

Done(a, reqs) == [reqs EXCEPT ![a] = NoRequest]

-----------------------------------------------------------------------------
(***************************************************************************)
(* Creating a project and changing its parent.                             *)
(***************************************************************************)

\* ValidateProjectParent: the parent exists and is another project.
AskParent(a, s, p, create) ==
  /\ request[a].at = "idle"
  /\ Exists(p) /\ p # s
  /\ request' = [request EXCEPT ![a] =
       [NoRequest EXCEPT !.at = "walk", !.slug = s, !.to = p, !.create = create]]
  /\ UNCHANGED <<status, parent, owner, objects, uploaded, staleEdge>>

\* Mutant: the parent may be anything but the project itself.
WalkUnchecked(a) ==
  /\ request[a].at = "walk"
  /\ request' = [request EXCEPT ![a].at = "write"]
  /\ UNCHANGED <<status, parent, owner, objects, uploaded, staleEdge>>

\* ... and is not below the project.
Walk(a) ==
  /\ request[a].at = "walk"
  /\ request' = IF request[a].to \in Descendants(request[a].slug)
                THEN Done(a, request)
                ELSE [request EXCEPT ![a].at = "write"]
  /\ UNCHANGED <<status, parent, owner, objects, uploaded, staleEdge>>

\* A patch may set the status as well, in the same statement.
Patched(s) ==
  {status} \cup {[status EXCEPT ![s] = to] : to \in {"active", "archived"}}

\* UpdateProject with set_parent: the foreign key wants the parent to exist.
WriteParent(a) ==
  LET s == request[a].slug
      p == request[a].to
  IN
  /\ request[a].at = "write" /\ ~request[a].create
  /\ \/ /\ Exists(s) /\ Exists(p)
        /\ parent' = [parent EXCEPT ![s] = p]
        /\ status' \in Patched(s)
        /\ staleEdge' = IF request[a].moved THEN staleEdge \cup {s} ELSE staleEdge \ {s}
        /\ request' = Done(a, Moved(a, TRUE, {p} \cup {x \in {s} : status' # status}))
     \/ /\ ~(Exists(s) /\ Exists(p))
        /\ request' = Done(a, request)
        /\ UNCHANGED <<status, parent, staleEdge>>
  /\ UNCHANGED <<owner, objects, uploaded>>

CreateProject(a) ==
  LET s == request[a].slug
      p == request[a].to
  IN
  /\ request[a].at = "write" /\ request[a].create
  /\ \/ /\ ~Exists(s) /\ Exists(p)
        /\ status' = [status EXCEPT ![s] = "active"]
        /\ parent' = [parent EXCEPT ![s] = p]
        /\ staleEdge' = staleEdge \ {s}
        /\ request' = Done(a, Moved(a, TRUE, {p}))
     \/ /\ Exists(s) \/ ~Exists(p)
        /\ request' = Done(a, request)
        /\ UNCHANGED <<status, parent, staleEdge>>
  /\ UNCHANGED <<owner, objects, uploaded>>

\* Without a parent there is nothing to check: CreateProject alone.
CreateRoot(s) ==
  /\ ~Exists(s)
  /\ status' = [status EXCEPT ![s] = "active"]
  /\ UNCHANGED <<parent, owner, objects, uploaded, request, staleEdge>>

\* A patch with an empty parent: nothing is checked.
ClearParent(s) ==
  /\ Exists(s) /\ parent[s] # NoSlug
  /\ parent' = [parent EXCEPT ![s] = NoSlug]
  /\ status' \in Patched(s)
  /\ staleEdge' = staleEdge \ {s}
  /\ request' = Moved(NoSlug, TRUE, {parent[s]} \cup {x \in {s} : status' # status})
  /\ UNCHANGED <<owner, objects, uploaded>>

\* What reaches the service: REST and the tool create, REST alone patches.
RestCreateProject(a, s) ==
  CreateRoot(s) \/ \E p \in Slugs : AskParent(a, s, p, TRUE)

ToolCreateProject(a, s) ==
  CreateRoot(s) \/ \E p \in Slugs : AskParent(a, s, p, TRUE)

RestPatchProject(a, s) ==
  ClearParent(s) \/ \E p \in Slugs : AskParent(a, s, p, FALSE)

\* ArchiveProject, or a patch of the status.
SetProjectStatus(s, to) ==
  /\ Exists(s) /\ status[s] # to
  /\ status' = [status EXCEPT ![s] = to]
  /\ request' = Moved(NoSlug, FALSE, {s})
  /\ UNCHANGED <<parent, owner, objects, uploaded, staleEdge>>

-----------------------------------------------------------------------------
(***************************************************************************)
(* PurgeProject.                                                           *)
(***************************************************************************)

AskPurge(a, s) ==
  /\ request[a].at = "idle"
  /\ status[s] = "archived"
  /\ request' = [request EXCEPT ![a] = [NoRequest EXCEPT !.at = "children", !.slug = s]]
  /\ UNCHANGED <<status, parent, owner, objects, uploaded, staleEdge>>

\* Mutant: children are not looked for.
PurgeParent(a) ==
  /\ request[a].at = "children"
  /\ request' = [request EXCEPT ![a].at = "keys"]
  /\ UNCHANGED <<status, parent, owner, objects, uploaded, staleEdge>>

RefuseParent(a) ==
  /\ request[a].at = "children"
  /\ request' = IF Children(request[a].slug) = {}
                THEN [request EXCEPT ![a].at = "keys"]
                ELSE Done(a, request)
  /\ UNCHANGED <<status, parent, owner, objects, uploaded, staleEdge>>

\* Mutant: the blobs are deleted before the rows.
ListKeysBlobsFirst(a) ==
  /\ request[a].at = "keys"
  /\ request' = [request EXCEPT ![a].at = "blobs",
                   ![a].keys = {o \in Objects : owner[o] = request[a].slug}]
  /\ UNCHANGED <<status, parent, owner, objects, uploaded, staleEdge>>

\* ListAttachmentKeysForProject, while the rows still exist.
ListKeys(a) ==
  /\ request[a].at = "keys"
  /\ request' = [request EXCEPT ![a].at = "delete",
                   ![a].keys = {o \in Objects : owner[o] = request[a].slug}]
  /\ UNCHANGED <<status, parent, owner, objects, uploaded, staleEdge>>

\* DeleteProject goes by the slug alone.
DeleteProject(a) ==
  LET s == request[a].slug IN
  /\ request[a].at = "delete" /\ Exists(s)
  /\ status' = [status EXCEPT ![s] = "absent"]
  /\ parent' = [k \in Slugs |-> IF k = s \/ parent[k] = s THEN NoSlug ELSE parent[k]]
  /\ staleEdge' = staleEdge \ ({s} \cup Children(s))
  /\ owner' = [o \in Objects |-> IF owner[o] = s THEN NoSlug ELSE owner[o]]
  /\ request' = [Moved(a, TRUE, {s}) EXCEPT ![a].at = "blobs"]
  /\ UNCHANGED <<objects, uploaded>>

DeleteBlob(a, o) ==
  /\ request[a].at = "blobs" /\ o \in request[a].keys
  /\ objects' = objects \ {o}
  /\ request' = [request EXCEPT ![a].keys = @ \ {o}]
  /\ UNCHANGED <<status, parent, owner, uploaded, staleEdge>>

\* A blob that cannot be deleted is logged and left.
SkipBlob(a, o) ==
  /\ request[a].at = "blobs" /\ o \in request[a].keys
  /\ request' = [request EXCEPT ![a].keys = @ \ {o}]
  /\ UNCHANGED <<status, parent, owner, objects, uploaded, staleEdge>>

EndPurge(a) ==
  /\ request[a].at = "blobs" /\ request[a].keys = {}
  /\ request' = Done(a, request)
  /\ UNCHANGED <<status, parent, owner, objects, uploaded, staleEdge>>

\* A statement fails, finds no row, or the process stops.
GiveUpRequest(a) ==
  /\ request[a].at # "idle"
  /\ request' = Done(a, request)
  /\ UNCHANGED <<status, parent, owner, objects, uploaded, staleEdge>>

\* An upload to an item of the project (Attachments has its steps).
Attach(o, s) ==
  /\ o \notin uploaded /\ Exists(s)
  /\ uploaded' = uploaded \cup {o} /\ objects' = objects \cup {o}
  /\ owner' = [owner EXCEPT ![o] = s]
  /\ UNCHANGED <<status, parent, request, staleEdge>>

ProjectsNext ==
  \/ \E a \in Admins :
       \/ \E s \in Slugs :
            RestCreateProject(a, s) \/ ToolCreateProject(a, s) \/ RestPatchProject(a, s) \/ AskPurge(a, s)
       \/ Walk(a) \/ WriteParent(a) \/ CreateProject(a)
       \/ RefuseParent(a) \/ ListKeys(a) \/ DeleteProject(a) \/ EndPurge(a)
       \/ \E o \in Objects : DeleteBlob(a, o) \/ SkipBlob(a, o)
       \/ GiveUpRequest(a)
  \/ \E s \in Slugs :
       \/ \E to \in {"active", "archived"} : SetProjectStatus(s, to)
       \/ \E o \in Objects : Attach(o, s)

ProjectsSpec == ProjectsInit /\ [][ProjectsNext]_projectVars

-----------------------------------------------------------------------------
\* The parents form a forest as far as the checks can see to it: whatever cycle
\* there is goes through a project whose parent was written after another change
\* of the tree had overtaken its check.
ForestUnlessRaced ==
  \A s \in Slugs :
    Exists(s) /\ parent[s] # NoSlug /\ parent[s] \in Descendants(s)
      => \E k \in Descendants(s) \cap staleEdge : s \in Descendants(k)

\* "A purge is always a second, deliberate act", and never re-roots children: a
\* project that goes is archived and childless, unless its status or its
\* children changed after this purge had looked at them.
PurgeDeliberate ==
  [][\A s \in Slugs :
       Exists(s) /\ status'[s] = "absent" =>
         \/ status[s] = "archived" /\ Children(s) = {}
         \/ \E a \in Admins : request[a].slug = s /\ request[a].moved]_projectVars

\* "A failed delete must not leave the project alive with its attachment bytes
\* already gone": the object of an attachment row is there as long as the row.
RowsKeepBlobs == \A o \in Objects : owner[o] # NoSlug => o \in objects
=============================================================================
