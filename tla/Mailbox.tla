------------------------------ MODULE Mailbox ------------------------------
(***************************************************************************)
(* The mailbox host's Store (internal/mailbox/mailbox.go): a directory of  *)
(* mailboxes on a file system, one file per undelivered message, and a     *)
(* table of delivery leases kept in memory.  Every operation of the Store  *)
(* runs under one mutex, so an operation is one action; what is not atomic *)
(* is its sequence of file-system writes, which a crash or an I/O error    *)
(* can cut in two.  The "Torn" actions are those cuts.                     *)
(*                                                                         *)
(* The module gives the actions of the Store and leaves their callers      *)
(* open: MailboxDelivery drives them with HTTP senders and receivers,      *)
(* SyncPair with two sync engines.                                         *)
(***************************************************************************)
EXTENDS Integers, FiniteSets

CONSTANTS
  Boxes,          \* the ids Create can mint: random, hence never minted twice
  Bodies,         \* sealed message bodies; opaque to the host
  Corrupt,        \* what a damaged message file holds: it does not parse
  MaxPending,     \* undelivered messages a mailbox may hold (5000 in the code)
  MaxMailboxes,   \* mailbox directories the host may hold (256 in the code)
  ReceiveLimit    \* messages one Receive hands out (100 in the code)

ASSUME MailboxAssumption ==
  /\ MaxPending \in Nat
  /\ MaxMailboxes \in Nat
  /\ ReceiveLimit \in Nat
  /\ Corrupt \notin Bodies

VARIABLES
  status,   \* of each id: "unminted", "open", "deleted", or "orphan" (a
            \* directory without meta.json: loadMeta says not found)
  nextSeq,  \* NextSeq in meta.json of each open mailbox
  files,    \* the .msg files: a set of letters [box, seq, body]
  leases    \* the live leases, one for each Receive: its messages run out together

storeVars == <<status, nextSeq, files, leases>>

Letter == [box : Boxes, seq : Nat \ {0}, body : Bodies]
File   == [box : Boxes, seq : Nat \ {0}, body : Bodies \cup {Corrupt}]
Lease  == [box : Boxes, seqs : SUBSET (Nat \ {0})]

StoreTypeOK ==
  /\ status \in [Boxes -> {"unminted", "open", "deleted", "orphan"}]
  /\ nextSeq \in [Boxes -> Nat \ {0}]
  /\ files \subseteq File
  /\ leases \subseteq Lease

StoreInit ==
  /\ status = [b \in Boxes |-> "unminted"]
  /\ nextSeq = [b \in Boxes |-> 1]
  /\ files = {}
  /\ leases = {}

----------------------------------------------------------------------------
(* Reading the store. *)

Open(b)    == status[b] = "open"
Dirs       == {b \in Boxes : status[b] \in {"open", "orphan"}}
InBox(b)   == {f \in files : f.box = b}
Pending(b) == {f.seq : f \in InBox(b)}

\* The message file Send writes: it replaces a file already at that sequence
\* number, which an earlier Send that never bumped NextSeq has left behind.
Written(b, body) ==
  {f \in files : ~(f.box = b /\ f.seq = nextSeq[b])}
    \cup {[box |-> b, seq |-> nextSeq[b], body |-> body]}

\* What Receive scans: unleased files in sequence order until the limit is met.
Leased(b, seq) == \E l \in leases : l.box = b /\ seq \in l.seqs
Deliverable(b) == {f \in InBox(b) : ~Leased(b, f.seq)}
Parseable(b)   == {f \in Deliverable(b) : f.body # Corrupt}
\* Mutant: the directory is read newest first.
ScannedNewestFirst(b, f) ==
  Cardinality({g \in Parseable(b) : g.seq > f.seq}) < ReceiveLimit

Scanned(b, f)  ==
  Cardinality({g \in Parseable(b) : g.seq < f.seq}) < ReceiveLimit

\* Mutant: a file that does not parse is handed out like any other.
HandedUnparsed(b) == {f \in Deliverable(b) : Scanned(b, f)}

Handed(b)      == {f \in Parseable(b) : Scanned(b, f)}

\* Mutant: a file that does not parse is skipped and left where it is.
DroppedNone(b) == {}

Dropped(b)     == {f \in Deliverable(b) \ Parseable(b) : Scanned(b, f)}

\* What Receive adds to the leases, and what is left of them after an ack.
NewLease(b) ==
  {[box |-> b, seqs |-> {f.seq : f \in H}] : H \in {Handed(b)} \ {{}}}

Released(b, seqs) ==
  {l \in leases : l.box # b}
    \cup {[box |-> b, seqs |-> l.seqs \ seqs] :
            l \in {l \in leases : l.box = b /\ ~(l.seqs \subseteq seqs)}}

----------------------------------------------------------------------------
(* The operations. *)

Create(b) ==
  /\ status[b] = "unminted"
  /\ Cardinality(Dirs) < MaxMailboxes
  /\ status' = [status EXCEPT ![b] = "open"]
  /\ nextSeq' = [nextSeq EXCEPT ![b] = 1]
  /\ UNCHANGED <<files, leases>>

\* The directory was made and meta.json was not: nothing ever removes it, and
\* it counts against MaxMailboxes.
CreateTorn(b) ==
  /\ status[b] = "unminted"
  /\ Cardinality(Dirs) < MaxMailboxes
  /\ status' = [status EXCEPT ![b] = "orphan"]
  /\ UNCHANGED <<nextSeq, files, leases>>

\* Mutants: one message too many; the metadata auth read is not read again.
CanSendOneMore(b) == Open(b) /\ Cardinality(Pending(b)) <= MaxPending
CanSendOnStaleAuth(b) == Cardinality(Pending(b)) < MaxPending

CanSend(b) == Open(b) /\ Cardinality(Pending(b)) < MaxPending

\* Mutant: the counter is not bumped.
SendSameSeq(b, body) ==
  /\ CanSend(b)
  /\ files' = Written(b, body)
  /\ UNCHANGED <<status, nextSeq, leases>>

Send(b, body) ==
  /\ CanSend(b)
  /\ files' = Written(b, body)
  /\ nextSeq' = [nextSeq EXCEPT ![b] = @ + 1]
  /\ UNCHANGED <<status, leases>>

\* The message file is in place and the counter was not saved: saveMeta failed
\* and the caller is told so, or the process died in between.
SendTorn(b, body) ==
  /\ CanSend(b)
  /\ files' = Written(b, body)
  /\ UNCHANGED <<status, nextSeq>>

\* Mutant: handing a message out removes it.
ReceiveRemoves(b) ==
  /\ Open(b)
  /\ files' = files \ (Dropped(b) \cup Handed(b))
  /\ UNCHANGED <<status, nextSeq, leases>>

Receive(b) ==
  /\ Open(b)
  /\ files' = files \ Dropped(b)
  /\ leases' = leases \cup NewLease(b)
  /\ UNCHANGED <<status, nextSeq>>

\* Mutant: an ack is taken as cumulative.
AckUpTo(b, seqs) ==
  /\ Open(b)
  /\ files' = {f \in files : ~(f.box = b /\ \E n \in seqs : f.seq <= n)}
  /\ leases' = Released(b, seqs)
  /\ UNCHANGED <<status, nextSeq>>

\* Mutant: an ack ends the lease and leaves the message.
AckOnlyReleases(b, seqs) ==
  /\ Open(b)
  /\ leases' = Released(b, seqs)
  /\ UNCHANGED <<status, nextSeq, files>>

Ack(b, seqs) ==
  /\ Open(b)
  /\ files' = {f \in files : ~(f.box = b /\ f.seq \in seqs)}
  /\ leases' = Released(b, seqs)
  /\ UNCHANGED <<status, nextSeq>>

Delete(b) ==
  /\ Open(b)
  /\ status' = [status EXCEPT ![b] = "deleted"]
  /\ files' = files \ InBox(b)
  /\ leases' = {l \in leases : l.box # b}
  /\ UNCHANGED nextSeq

\* RemoveAll unlinks one entry at a time; it stopped with the files in kept
\* still there, meta.json among them (the mailbox stays open) or not.
DeleteTorn(b, kept) ==
  /\ Open(b)
  /\ kept \subseteq InBox(b)
  /\ files' = (files \ InBox(b)) \cup kept
  /\ leases' = {l \in leases : l.box # b}
  /\ status' \in {status, [status EXCEPT ![b] = "orphan"]}
  /\ UNCHANGED nextSeq

LeaseExpires(l) ==
  /\ l \in leases
  /\ leases' = leases \ {l}
  /\ UNCHANGED <<status, nextSeq, files>>

Restart ==
  /\ leases' = {}
  /\ UNCHANGED <<status, nextSeq, files>>

\* A message file whose contents no longer parse: the case Receive drops.
Damage(f) ==
  /\ f \in files
  /\ f.body # Corrupt
  /\ files' = (files \ {f}) \cup {[f EXCEPT !.body = Corrupt]}
  /\ UNCHANGED <<status, nextSeq, leases>>

============================================================================
