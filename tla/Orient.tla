------------------------------- MODULE Orient -------------------------------
(***************************************************************************)
(* "What is next": the orient bundle of a project and next_action          *)
(* (buildProjectContext and orientHints in service/service.go, NextAction  *)
(* and the links in service/features.go, the queries in store/).           *)
(* The bundle is put together from reads made at the same time in separate *)
(* statements: the open items, the blocking edges, the counts; and its     *)
(* ready_next from the items that were loaded, while next_action asks the  *)
(* database in one query.  Items are their rank: 1 is the most urgent.     *)
(***************************************************************************)
EXTENDS Naturals, FiniteSets

CONSTANTS
  Ranked,      \* items of the project, by rank
  Foreign,     \* items of another project, which can block them
  OpenLimit,   \* open items loaded: 50, compact 25
  ReadyLimit,  \* readyLimit, 3 in the code
  MaxLinks,    \* bound: links at once
  MaxMoves     \* bound: changes

ASSUME OrientAssumption ==
  /\ Ranked \subseteq Nat /\ IsFiniteSet(Ranked) /\ Foreign \cap Ranked = {}
  /\ {OpenLimit, ReadyLimit, MaxLinks, MaxMoves} \subseteq Nat /\ ReadyLimit # 0

Known == Ranked \cup Foreign

VARIABLES
  closed,  \* items done or wontfix
  removed, \* soft-deleted items
  blocks,  \* item_links of kind 'blocks': <<blocker, blocked>>
  current, \* the project is active
  moves,
  bundle,  \* the bundle being made: [at, open, blocked, count], {} for what is not read
  wasOpen, \* history: items open at some moment since it was begun
  wasFree, \* history: items without an open blocker at some such moment
  still    \* history: nothing changed since

orientVars == <<closed, removed, blocks, current, moves, bundle, wasOpen, wasFree, still>>

NoReads == [at |-> "none", open |-> {}, blocked |-> {}, count |-> {}]

OrientTypeOK ==
  /\ closed \subseteq Known /\ removed \subseteq Known
  /\ blocks \subseteq {l \in Known \X Known : l[1] # l[2]}
  /\ {current, still} \subseteq BOOLEAN /\ moves \in 0..MaxMoves
  /\ bundle.at \in {"none", "reading", "shown"}
  /\ bundle.open \subseteq SUBSET Ranked /\ bundle.blocked \subseteq SUBSET Ranked
  /\ bundle.count \subseteq Nat
  /\ wasOpen \subseteq Ranked /\ wasFree \subseteq Ranked

OrientInit ==
  /\ closed = {} /\ removed = {}
  /\ blocks \in {ls \in SUBSET {l \in Known \X Known : l[1] # l[2]} : Cardinality(ls) <= MaxLinks}
  /\ current = TRUE /\ moves = 0
  /\ bundle = NoReads /\ wasOpen = {} /\ wasFree = {} /\ still = TRUE

-----------------------------------------------------------------------------
\* The queries.

\* The first so many of a set of ranks.
First(k, ranks) == {i \in ranks : Cardinality({j \in ranks : j < i}) < k}

OpenItems == Ranked \ (closed \cup removed)

\* ListOpenItemsByProject
ListOpenItems == First(OpenLimit, OpenItems)

\* Mutant: a blocker in another project is not seen.
BlockedAtHome ==
  {i \in Ranked \ removed : \E b \in Ranked \ (closed \cup removed) : <<b, i>> \in blocks}

\* ListBlockingEdgesByProject: the items with an open blocker, in any project.
BlockedItems ==
  {i \in Ranked \ removed : \E b \in Known \ (closed \cup removed) : <<b, i>> \in blocks}

\* ListReadyItems, the rows its WHERE lets through: those of active projects only.
\* The page served is the first of them (twenty unless asked otherwise), in an order of
\* its own among items of one priority; which ready rows it leaves out is not modelled.
ReadyItems ==
  IF current
  THEN {i \in OpenItems : ~\E b \in Known \ (closed \cup removed) : <<b, i>> \in blocks}
  ELSE {}

-----------------------------------------------------------------------------
\* What happens to the rows meanwhile.

Seen(open, free) ==
  IF bundle.at = "reading" THEN wasOpen' = wasOpen \cup open /\ wasFree' = wasFree \cup free
  ELSE UNCHANGED <<wasOpen, wasFree>>

Move ==
  /\ moves < MaxMoves /\ moves' = moves + 1
  /\ still' = FALSE
  /\ UNCHANGED bundle
  /\ Seen(OpenItems', (Ranked \ BlockedItems)')

SetStatus(i) ==
  /\ i \notin removed
  /\ closed' = IF i \in closed THEN closed \ {i} ELSE closed \cup {i}
  /\ UNCHANGED <<removed, blocks, current>>
  /\ Move

RemoveItem(i) ==
  /\ i \notin removed
  /\ removed' = removed \cup {i}
  /\ UNCHANGED <<closed, blocks, current>>
  /\ Move

\* CreateItemLink takes any pair of different items, a cycle too.
LinkItems(b, i) ==
  /\ b # i /\ Cardinality(blocks) < MaxLinks
  /\ blocks' = blocks \cup {<<b, i>>}
  /\ UNCHANGED <<closed, removed, current>>
  /\ Move

DeleteLink(l) ==
  /\ l \in blocks
  /\ blocks' = blocks \ {l}
  /\ UNCHANGED <<closed, removed, current>>
  /\ Move

Archive ==
  /\ current' = ~current
  /\ UNCHANGED <<closed, removed, blocks>>
  /\ Move

-----------------------------------------------------------------------------
\* ProjectContext

Orienting ==
  /\ bundle.at # "reading"
  /\ bundle' = [NoReads EXCEPT !.at = "reading"]
  /\ wasOpen' = OpenItems /\ wasFree' = Ranked \ BlockedItems
  /\ still' = TRUE
  /\ UNCHANGED <<closed, removed, blocks, current, moves>>

\* One of the reads, each in a statement of its own, in any order.
ReadBundle(part, rows) ==
  /\ bundle.at = "reading" /\ bundle[part] = {}
  /\ bundle' = [bundle EXCEPT ![part] = {rows}]
  /\ UNCHANGED <<closed, removed, blocks, current, moves, wasOpen, wasFree, still>>

ReadOpen == ReadBundle("open", ListOpenItems)
ReadEdges == ReadBundle("blocked", BlockedItems)
ReadCounts == ReadBundle("count", Cardinality(OpenItems))

ShowBundle ==
  /\ bundle.at = "reading" /\ {} \notin {bundle.open, bundle.blocked, bundle.count}
  /\ bundle' = [bundle EXCEPT !.at = "shown"]
  /\ UNCHANGED <<closed, removed, blocks, current, moves, wasOpen, wasFree, still>>

\* orientHints: the first of the loaded items that no edge flags.
ReadyNext == First(ReadyLimit, (UNION bundle.open) \ (UNION bundle.blocked))

OrientNext ==
  \/ \E i \in Known : SetStatus(i) \/ RemoveItem(i)
  \/ \E b, i \in Known : LinkItems(b, i)
  \/ \E l \in blocks : DeleteLink(l)
  \/ Archive \/ Orienting \/ ReadOpen \/ ReadEdges \/ ReadCounts \/ ShowBundle

OrientSpec == OrientInit /\ [][OrientNext]_orientVars

-----------------------------------------------------------------------------
\* What the bundle says is next was open, and was unblocked, while it was made (not
\* always at one moment).  If nothing moved, next_action names the same items as long
\* as the project is active; it leaves a ready item out, or says nothing is ready, only
\* for the limits: when blocked items fill the list that was loaded.
ReadyNextSound ==
  bundle.at = "shown" =>
    /\ ReadyNext \subseteq wasOpen \cap wasFree
    /\ (still /\ current) =>
         /\ ReadyNext \subseteq ReadyItems
         /\ ReadyNext = First(ReadyLimit, ReadyItems \cap UNION bundle.open)
         /\ (ReadyNext = {} /\ ReadyItems # {}) => UNION bundle.open \subseteq BlockedItems
    /\ still => \A k \in bundle.count :
         Cardinality(UNION bundle.open) = (IF k < OpenLimit THEN k ELSE OpenLimit)
=============================================================================
