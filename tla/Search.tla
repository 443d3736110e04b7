------------------------------- MODULE Search -------------------------------
(***************************************************************************)
(* One search over the items (searchSmart, wantSemantic, embedQuery,       *)
(* finalizeItems, rrfMerge and capLen in service/service.go).  Up to three *)
(* ranked lists are asked for, each in a statement of its own, and blended *)
(* by reciprocal-rank fusion; the trigram tier is asked only if they are   *)
(* all empty.  Every tier but the first and the last is best-effort.       *)
(* A list holds whatever its query returns: the rows change between the    *)
(* statements, so what the tiers agree on is not assumed.  Scores are kept *)
(* as integers; the floating-point sums of the code can order equal scores *)
(* differently.                                                            *)
(***************************************************************************)
EXTENDS Naturals, Sequences, FiniteSets, Functions

CONSTANTS
  Rows,
  ThinRecall,  \* lazySemanticMinFTS and ftsAnyMinFTS, 5 in the code
  DefaultCap,  \* rows answered when no limit is given, 25
  SqlCap,      \* rows a lexical query then returns, 50
  Limits       \* limits a caller gives; 0 for none

ASSUME SearchAssumption ==
  /\ {ThinRecall, DefaultCap, SqlCap} \cup Limits \subseteq Nat /\ DefaultCap # 0
  /\ IsFiniteSet(Rows)

VARIABLES
  query,     \* [limit, lexemes, short, words]: at least two lexemes; too short to
             \* embed; few enough words for trigram
  embedding, \* an embeddings key is configured
  tier,      \* what is asked next
  lists,     \* the lists so far, in the order they are merged
  embedded,    \* the query was embedded
  found      \* the answer

searchVars == <<query, embedding, tier, lists, embedded, found>>

SearchTypeOK ==
  /\ query \in [limit : Limits, lexemes : BOOLEAN, short : BOOLEAN, words : BOOLEAN]
  /\ {embedding, embedded} \subseteq BOOLEAN
  /\ tier \in {"fts", "embed", "any", "semantic", "merge", "trigram", "done", "failed"}
  /\ Len(lists) <= 3 /\ \A k \in DOMAIN lists : lists[k] \in Seq(Rows)
  /\ found \in Seq(Rows)

SearchInit ==
  /\ query \in [limit : Limits, lexemes : BOOLEAN, short : BOOLEAN, words : BOOLEAN]
  /\ embedding \in BOOLEAN
  /\ tier = "fts" /\ lists = <<>> /\ embedded = FALSE /\ found = <<>>

Cap(default) == IF query.limit > 0 THEN query.limit ELSE default

\* What a query can return: rows without repetition, up to its LIMIT.
Hits(limit) == {l \in UNION {[1..k -> Rows] : k \in 0..limit} : IsInjective(l)}

-----------------------------------------------------------------------------
\* rrfMerge

Scale == 60 * 61 * 62 * 63

ListsWith(x) == {k \in DOMAIN lists : x \in Range(lists[k])}
RankIn(k, x) == (CHOOSE i \in DOMAIN lists[k] : lists[k][i] = x) - 1

\* The rows of any list.
Listed == UNION {Range(lists[k]) : k \in DOMAIN lists}

Weight(k, x) == IF k \in ListsWith(x) THEN Scale \div (60 + RankIn(k, x)) ELSE 0

\* At most three lists are merged.
Score(x) == Weight(1, x) + Weight(2, x) + Weight(3, x)

\* The order in which the rows are first met: the tie-break of the stable sort.
FirstList(x) == CHOOSE k \in ListsWith(x) : \A j \in ListsWith(x) : k <= j

MetBefore(x, y) ==
  \/ FirstList(x) < FirstList(y)
  \/ FirstList(x) = FirstList(y) /\ RankIn(FirstList(x), x) < RankIn(FirstList(x), y)

Before(x, y) == Score(x) > Score(y) \/ (Score(x) = Score(y) /\ MetBefore(x, y))

\* Mutant: the lists are put one after the other.
Concatenated == lists[1] \o lists[2] \o lists[3]

\* Sorted: in the k-th place, the row that k - 1 others go before.
Place(x) == Cardinality({y \in Listed : Before(y, x)})

RrfMerge == [k \in 1..Cardinality(Listed) |-> CHOOSE x \in Listed : Place(x) = k - 1]

CapLen(rows) == IF Len(rows) > Cap(DefaultCap) THEN SubSeq(rows, 1, Cap(DefaultCap)) ELSE rows

-----------------------------------------------------------------------------
\* The lexical query; its failure is the search's.
SearchItems ==
  /\ tier = "fts"
  /\ \/ \E l \in Hits(Cap(SqlCap)) : lists' = <<l>> /\ tier' = "embed"
     \/ lists' = lists /\ tier' = "failed"
  /\ UNCHANGED <<query, embedding, embedded, found>>

\* wantSemantic and embedQuery: from the cache, or by a call that may fail or time out.
EmbedQuery ==
  /\ tier = "embed"
  /\ IF embedding /\ ~query.short /\ Len(lists[1]) < ThinRecall
     THEN embedded' \in BOOLEAN
     ELSE embedded' = FALSE
  /\ tier' = "any"
  /\ UNCHANGED <<query, embedding, lists, found>>

\* The any-term tier, when exact recall is thin; a failure is logged.
SearchItemsAny ==
  /\ tier = "any"
  /\ \E l \in (IF Len(lists[1]) < ThinRecall /\ query.lexemes
               THEN Hits(Cap(SqlCap)) ELSE {<<>>}) : lists' = Append(lists, l)
  /\ tier' = "semantic"
  /\ UNCHANGED <<query, embedding, embedded, found>>

SearchItemsSemantic ==
  /\ tier = "semantic"
  /\ \E l \in (IF embedded THEN Hits(Cap(DefaultCap)) ELSE {<<>>}) : lists' = Append(lists, l)
  /\ tier' = "merge"
  /\ UNCHANGED <<query, embedding, embedded, found>>

FinalizeItems ==
  /\ tier = "merge"
  /\ found' = CapLen(RrfMerge)
  /\ tier' = IF found' # <<>> \/ ~query.words THEN "done" ELSE "trigram"
  /\ UNCHANGED <<query, embedding, lists, embedded>>

\* The trigram tier; its failure is the search's.
SearchItemsFuzzy ==
  /\ tier = "trigram"
  /\ \/ found' \in Hits(Cap(DefaultCap)) /\ tier' = "done"
     \/ found' = found /\ tier' = "failed"
  /\ UNCHANGED <<query, embedding, lists, embedded>>

SearchNext ==
  SearchItems \/ EmbedQuery \/ SearchItemsAny \/ SearchItemsSemantic \/ FinalizeItems
  \/ SearchItemsFuzzy

SearchSpec == SearchInit /\ [][SearchNext]_searchVars

-----------------------------------------------------------------------------
\* In no list is y ahead of x, and in some x is ahead.
Ahead(x, y) ==
  /\ ListsWith(y) \subseteq ListsWith(x) /\ x # y
  /\ \A k \in ListsWith(y) : RankIn(k, x) < RankIn(k, y)

\* The answer has no row twice and is within the limit; it has every row a tier found, as
\* far as the limit goes, so a lexical hit is never lost to a tier that failed; a row
\* that every list puts ahead of another comes before it, and is not cut for it; the
\* trigram tier answers only when nothing else did.
SearchAnswer ==
  tier = "done" =>
    /\ IsInjective(found) /\ Len(found) <= Cap(DefaultCap)
    /\ Listed # {} =>
         /\ Range(found) \subseteq Listed
         /\ Len(found) < Cap(DefaultCap) => Range(found) = Listed
         /\ \A x, y \in Listed : (Ahead(x, y) /\ y \in Range(found)) =>
              \E i, j \in DOMAIN found : found[i] = x /\ found[j] = y /\ i < j
=============================================================================
