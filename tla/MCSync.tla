------------------------------- MODULE MCSync -------------------------------
(* TLC instances of SyncPair: two instances and one item. *)
EXTENDS SyncPair

CONSTANTS e1, n1

Two       == {1, 2}
NoRows    == {}
OneItem   == {e1}
OneNote   == {n1}
Minted    == [r \in OneNote |-> 1]
MintedNew == [r \in OneItem \cup OneNote |-> IF r = e1 THEN 2 ELSE 1]

\* The edits the merge is built for: both write prose and delete, and the
\* higher id, which wins the tiebreak, also writes scalars.
MergeableRights == [i \in Two |-> {"append", "delete"} \cup (IF i = 2 THEN {"title"} ELSE {})]

\* Every kind of edit on both sides.
AllRights == [i \in Two |-> EditKinds]

BodyRights   == [i \in Two |-> {"append", "delete"}]
LowerTitles  == [i \in Two |-> IF i = 1 THEN {"title"} ELSE {}]
HigherTitles == [i \in Two |-> IF i = 2 THEN {"title"} ELSE {}]

Creates      == [i \in Two |-> {"create"}]
MintedByOne  == [r \in OneItem \cup OneNote |-> 1]

NoFaults   == {}
HostFaults == {"refused", "restart"}
Redelivery == {"redelivery"}
AllFaults  == FaultKinds

\* The steps of Next but for edits by an instance's users between its engine's read
\* of a row and its write (at "write"): what is lost in these behaviours of Spec was
\* lost by what an engine decided, not by an edit it raced with.
CalmNext ==
  \/ \E i \in Instances : Pass(i) \/ CutShort(i) \/ (at[i] # "write" /\ UserStep(i))
  \/ HostRestarts
  \/ \E l \in leases : Expire(l)

CalmSpec == Init /\ [][CalmNext]_vars

============================================================================
