------------------------------- MODULE Merge -------------------------------
(***************************************************************************)
(* mergeConflict (internal/sync/engine.go): how two versions of one item,  *)
(* edited on two instances, become one.  Pure operators.                   *)
(*                                                                         *)
(* An item's synced fields fall into four groups, by how they are merged:  *)
(*   title    title, status, priority, type, assignee, tags: the instance  *)
(*            with the higher id wins                                      *)
(*   meta     metadata, acceptance criteria, external_ref, closed_at: the  *)
(*            merge does not look at them, so the incoming value stands    *)
(*   body     prose, a sequence of passages: both survive, joined          *)
(*   deleted  deleted_at, or None: a deletion on either side stands        *)
(*                                                                         *)
(* created_at is left out: no operation changes it after the insert.       *)
(***************************************************************************)
EXTENDS Integers, Sequences

CONSTANTS
  None,   \* a nil deleted_at
  Sep     \* conflictSeparator

Mark == Nat   \* a value some edit wrote: marks are never used twice

ItemPayload == [title   : Mark,
                meta    : Mark,
                body    : Seq(Mark \cup {Sep}),
                deleted : Mark \cup {None}]

\* strings.Contains(s, t).
Contains(s, t) ==
  \E k \in 0..Len(s) :
    k + Len(t) <= Len(s) /\ SubSeq(s, k + 1, k + Len(t)) = t

\* i merges its own local version with what came from j.  Equal and empty
\* bodies are cases of containment.
MergeBody(i, j, local, remote) ==
  IF Contains(remote, local) THEN remote
  ELSE IF Contains(local, remote) THEN local
  ELSE IF i < j THEN local \o <<Sep>> \o remote
  ELSE remote \o <<Sep>> \o local

MergeDeleted(local, remote) == IF remote = None THEN local ELSE remote

mergeConflict(i, j, local, remote) ==
  [remote EXCEPT !.title   = IF i > j THEN local.title ELSE @,
                 !.body    = MergeBody(i, j, local.body, remote.body),
                 !.deleted = MergeDeleted(local.deleted, remote.deleted)]

\* logConflict writes a note when a scalar of the local version was displaced.
Displaced(local, merged) == local.title # merged.title

============================================================================
