--------------------------- MODULE MailboxProofs ---------------------------
(***************************************************************************)
(* Proofs about the mailbox host, for any number of mailboxes, messages,   *)
(* senders and receivers and any values of the limits.                     *)
(*                                                                         *)
(* The argument rests on where a sequence number can be.  A file sits      *)
(* below NextSeq, or at NextSeq if a torn Send left it there; an accepted  *)
(* letter and a letter in a receiver's hands sit strictly below NextSeq    *)
(* unless their number is torn.  Send writes only at NextSeq, so what is   *)
(* below is never overwritten, and an ack by number removes exactly the    *)
(* letter its receiver applied.                                            *)
(***************************************************************************)
EXTENDS MailboxCourier, FiniteSetTheorems, TLAPS

\* A mailbox that was never minted still has the NextSeq it will be born with.
Unborn == \A b \in Boxes : status[b] = "unminted" => nextSeq[b] = 1

\* One file per sequence number, at NextSeq only if torn.
FilesBelow ==
  /\ \A f \in files :
       \/ f.seq < nextSeq[f.box]
       \/ f.seq = nextSeq[f.box] /\ Torn(f)
  /\ \A f, g \in files : f.box = g.box /\ f.seq = g.seq => f = g

\* The file of a letter in a receiver's hands is still that letter.
HoldFresh ==
  \A r \in Receivers : \A m \in hold[r] :
    \/ Torn(m)
    \/ /\ m.seq < nextSeq[m.box]
       /\ \A f \in files : f.box = m.box /\ f.seq = m.seq
            => f.body \in {m.body, Corrupt}

AppliedBeforeAck ==
  \A r \in Receivers : phase[r] = "applied" => hold[r] \subseteq applied

\* A letter that was applied had a number below NextSeq or a torn one.
AppliedBelow == \A m \in applied : Torn(m) \/ m.seq < nextSeq[m.box]

IInv ==
  /\ TypeOK
  /\ Unborn
  /\ FilesBelow
  /\ AcceptedSeqsDistinct
  /\ HoldFresh
  /\ AppliedBeforeAck
  /\ AppliedBelow
  /\ LossNeedsTornSend

----------------------------------------------------------------------------

\* Whatever Receive hands out or drops is a file of that mailbox, and only
\* files that parse are handed out.
LEMMA ReceiveFacts ==
  ASSUME NEW b \in Boxes, StoreTypeOK
  PROVE  /\ Handed(b) \subseteq {f \in files : f.box = b /\ f.body \in Bodies}
         /\ Handed(b) \subseteq Letter
         /\ Dropped(b) \subseteq {f \in files : f.body = Corrupt}
<1>1. Handed(b) \subseteq {f \in files : f.box = b /\ f.body # Corrupt}
  BY DEF Handed, Parseable, Deliverable, InBox
<1>2. Dropped(b) \subseteq {f \in files : f.body = Corrupt}
  BY DEF Dropped, Parseable, Deliverable, InBox
<1>3. files \subseteq File
  BY DEF StoreTypeOK
<1>4. \A f \in File : f.body # Corrupt => f \in Letter
  BY DEF File, Letter
<1>5. \A f \in Letter : f.body \in Bodies
  BY DEF Letter
<1> QED BY <1>1, <1>2, <1>3, <1>4, <1>5

\* A step of the client that leaves the store alone keeps its type.
LEMMA StoreTypeStutter ==
  ASSUME StoreTypeOK, UNCHANGED storeVars
  PROVE  StoreTypeOK'
BY DEF StoreTypeOK, storeVars

\* The type of the store is kept by each of its operations.
LEMMA StoreTypeStep ==
  ASSUME StoreTypeOK, NEW b \in Boxes
  PROVE  /\ Create(b) \/ CreateTorn(b) => StoreTypeOK'
         /\ \A body \in Bodies : Send(b, body) => StoreTypeOK'
         /\ \A body \in Bodies : SendTorn(b, body) /\ UNCHANGED leases
              => StoreTypeOK'
         /\ Receive(b) => StoreTypeOK'
         /\ \A seqs : Ack(b, seqs) => StoreTypeOK'
         /\ Delete(b) => StoreTypeOK'
         /\ \A kept : DeleteTorn(b, kept) => StoreTypeOK'
         /\ \A l : LeaseExpires(l) => StoreTypeOK'
         /\ \A f : Damage(f) => StoreTypeOK'
         /\ Restart => StoreTypeOK'
<1> USE DEF StoreTypeOK
<1>1. Create(b) \/ CreateTorn(b) => StoreTypeOK'
  BY DEF Create, CreateTorn
<1>w. \A body \in Bodies : Written(b, body) \subseteq File
  BY DEF Written, File
<1>2. \A body \in Bodies : Send(b, body) => StoreTypeOK'
  BY <1>w DEF Send
<1>3. \A body \in Bodies : SendTorn(b, body) /\ UNCHANGED leases => StoreTypeOK'
  BY <1>w DEF SendTorn
<1>4. Receive(b) => StoreTypeOK'
  <2>1. \A f \in Handed(b) : f.seq \in Nat \ {0}
    BY ReceiveFacts DEF Letter
  <2>2. NewLease(b) \subseteq Lease
    BY <2>1 DEF NewLease, Lease
  <2> QED BY <2>2 DEF Receive
<1>5. \A seqs : Ack(b, seqs) => StoreTypeOK'
  <2>1. \A seqs : Released(b, seqs) \subseteq Lease
    BY DEF Released, Lease
  <2> QED BY <2>1 DEF Ack
<1>6. Delete(b) => StoreTypeOK'
  BY DEF Delete
<1>7. \A kept : DeleteTorn(b, kept) => StoreTypeOK'
  BY DEF DeleteTorn, InBox
<1>8. \A l : LeaseExpires(l) => StoreTypeOK'
  BY DEF LeaseExpires
<1>9. \A f : Damage(f) => StoreTypeOK'
  BY DEF Damage, File
<1>10. Restart => StoreTypeOK'
  BY DEF Restart
<1> QED BY <1>1, <1>2, <1>3, <1>4, <1>5, <1>6, <1>7, <1>8, <1>9, <1>10

----------------------------------------------------------------------------

\* The host starts with no mailbox and no client in flight.
LEMMA InitTypeOK == Init => TypeOK
BY DEF Init, StoreInit, TypeOK, StoreTypeOK

\* Every step keeps the type of every variable.
LEMMA NextTypeOK == TypeOK /\ [Next]_vars => TypeOK'
<1> SUFFICES ASSUME TypeOK, [Next]_vars
             PROVE  TypeOK'
  OBVIOUS
<1> USE DEF TypeOK
<1>1. ASSUME NEW b \in Boxes, Mint(b) PROVE TypeOK'
  BY <1>1, StoreTypeStep DEF Mint, clientVars, historyVars
<1>2. ASSUME NEW c \in Senders, NEW b \in Boxes, NEW body \in Bodies,
             Authorize(c, b, body)
      PROVE  TypeOK'
  BY <1>2, StoreTypeStutter DEF Authorize
<1>3. ASSUME NEW c \in Senders, Accept(c) PROVE TypeOK'
  <2>1. req[c].box \in Boxes /\ req[c].body \in Bodies
    BY <1>3 DEF Accept
  <2>2. [box |-> req[c].box, seq |-> nextSeq[req[c].box], body |-> req[c].body]
          \in Letter
    BY <2>1 DEF Letter, StoreTypeOK
  <2>3. StoreTypeOK'
    BY <1>3, <2>1, StoreTypeStep DEF Accept
  <2> QED BY <1>3, <2>2, <2>3 DEF Accept, Answered
<1>4. ASSUME NEW c \in Senders, NotStored(c) PROVE TypeOK'
  BY <1>4, StoreTypeStutter DEF NotStored, Answered, historyVars
<1>5. ASSUME NEW c \in Senders, SaveFails(c) PROVE TypeOK'
  <2>1. req[c].box \in Boxes /\ req[c].body \in Bodies
    BY <1>5 DEF SaveFails
  <2>2. <<req[c].box, nextSeq[req[c].box]>> \in Boxes \X (Nat \ {0})
    BY <2>1 DEF StoreTypeOK
  <2>3. StoreTypeOK'
    BY <1>5, <2>1, StoreTypeStep DEF SaveFails
  <2> QED BY <1>5, <2>2, <2>3 DEF SaveFails, Answered
<1>6. ASSUME HostRestarts PROVE TypeOK'
  <2>1. StoreTypeOK'
    BY <1>6 DEF HostRestarts, Restart, StoreTypeOK
  <2> QED BY <1>6, <2>1 DEF HostRestarts, historyVars
<1>7. ASSUME NEW r \in Receivers, NEW b \in Boxes, Drain(r, b) PROVE TypeOK'
  <2>1. StoreTypeOK' /\ Handed(b) \subseteq Letter
    BY <1>7, StoreTypeStep, ReceiveFacts DEF Drain
  <2> QED BY <1>7, <2>1 DEF Drain, historyVars
<1>8. ASSUME NEW b \in Boxes, ResponseLost(b) PROVE TypeOK'
  BY <1>8, StoreTypeStep DEF ResponseLost, clientVars, historyVars
<1>9. ASSUME NEW r \in Receivers, Apply(r) PROVE TypeOK'
  BY <1>9, StoreTypeStutter DEF Apply
<1>10. ASSUME NEW r \in Receivers, NEW S \in SUBSET hold[r], AckHeld(r, S)
       PROVE  TypeOK'
  <2>1. StoreTypeOK'
    BY <1>10, StoreTypeStep DEF AckHeld
  <2> QED BY <1>10, <2>1 DEF AckHeld, Done, historyVars
<1>11. ASSUME NEW r \in Receivers, GiveUp(r) PROVE TypeOK'
  BY <1>11, StoreTypeStutter DEF GiveUp, Done, historyVars
<1>12. ASSUME NEW b \in Boxes, Revoke(b) PROVE TypeOK'
  BY <1>12, StoreTypeStep DEF Revoke, clientVars
<1>13. ASSUME NEW l \in leases, Expire(l) PROVE TypeOK'
  <2>1. StoreTypeOK'
    BY <1>13 DEF Expire, LeaseExpires, StoreTypeOK
  <2> QED BY <1>13, <2>1 DEF Expire, clientVars, historyVars
<1>14. ASSUME NEW f \in files, Spoil(f) PROVE TypeOK'
  <2>1. StoreTypeOK' /\ f \in Letter
    BY <1>14 DEF Spoil, Damage, StoreTypeOK, File, Letter
  <2> QED BY <1>14, <2>1 DEF Spoil, clientVars
<1>15. CASE UNCHANGED vars
  BY <1>15, StoreTypeStutter DEF vars, clientVars, historyVars
<1> QED BY <1>1, <1>2, <1>3, <1>4, <1>5, <1>6, <1>7, <1>8, <1>9, <1>10, <1>11,
           <1>12, <1>13, <1>14, <1>15
        DEF Next, SenderStep, Refuse, WriteFails, ReceiverStep, HostStep

\* Type correctness of the mailbox host and its clients: in particular a
\* receiver never holds, and never acks, anything but a whole letter.
THEOREM TypeCorrect == Spec => []TypeOK
<1>1. Init => TypeOK
  BY InitTypeOK
<1>2. TypeOK /\ [Next]_vars => TypeOK'
  BY NextTypeOK
<1> QED BY <1>1, <1>2, PTL DEF Spec

----------------------------------------------------------------------------
(* The inductive invariant. *)

\* Nothing has been sent yet.
LEMMA InitIInv == Init => IInv
BY InitTypeOK DEF Init, StoreInit, IInv, Unborn, FilesBelow,
   AcceptedSeqsDistinct, HoldFresh, AppliedBeforeAck, AppliedBelow, LossNeedsTornSend

\* A step that removes files or damages them, and leaves the counters, the
\* holds and the accepted letters alone, keeps all of the invariant but the
\* type and the accounting of losses.
LEMMA ShrinkingStep ==
  ASSUME IInv, NEW F \in SUBSET files, files' = F,
         UNCHANGED <<nextSeq, accepted, applied, torn>>,
         \A b \in Boxes : status'[b] = "unminted" => status[b] = "unminted",
         \A r \in Receivers :
           \/ hold'[r] = {}
           \/ hold'[r] = hold[r] /\ phase'[r] = phase[r]
  PROVE  /\ Unborn' /\ FilesBelow' /\ AcceptedSeqsDistinct'
         /\ HoldFresh' /\ AppliedBeforeAck' /\ AppliedBelow'
<1> USE DEF IInv, Torn
<1>1. Unborn'
  BY DEF Unborn
<1>2. FilesBelow'
  BY DEF FilesBelow
<1>3. AcceptedSeqsDistinct'
  BY DEF AcceptedSeqsDistinct
<1>4. HoldFresh'
  BY DEF HoldFresh
<1>5. AppliedBeforeAck'
  BY DEF AppliedBeforeAck
<1>6. AppliedBelow'
  BY DEF AppliedBelow
<1> QED BY <1>1, <1>2, <1>3, <1>4, <1>5, <1>6

\* The file a Send writes: nothing below NextSeq is touched.
LEMMA WrittenFacts ==
  ASSUME IInv, NEW b \in Boxes, NEW body \in Bodies
  PROVE  /\ \A f \in files : f.box # b \/ f.seq < nextSeq[b]
                                  => f \in Written(b, body)
         /\ \A f \in Written(b, body) :
              \/ f = [box |-> b, seq |-> nextSeq[b], body |-> body]
              \/ f \in files /\ (f.box # b \/ f.seq < nextSeq[b])
<1>1. \A f \in files : f.seq \in Nat /\ nextSeq[f.box] \in Nat
  BY DEF IInv, TypeOK, StoreTypeOK, File
<1>2. nextSeq[b] \in Nat
  BY DEF IInv, TypeOK, StoreTypeOK
<1>3. \A f \in files : f.box = b => f.seq <= nextSeq[b]
  BY <1>1 DEF IInv, FilesBelow
<1> QED BY <1>1, <1>2, <1>3 DEF Written

----------------------------------------------------------------------------

\* Every step keeps the invariant; the two that write a message file need it.
LEMMA NextIInv == IInv /\ [Next]_vars => IInv'
<1> SUFFICES ASSUME IInv, [Next]_vars
             PROVE  IInv'
  OBVIOUS
<1>t. TypeOK /\ TypeOK' /\ StoreTypeOK
  BY NextTypeOK DEF IInv, TypeOK
<1> DEFINE Frame == Unborn /\ FilesBelow /\ AcceptedSeqsDistinct /\ HoldFresh
                      /\ AppliedBeforeAck /\ AppliedBelow
<1>i. Frame' /\ LossNeedsTornSend' => IInv'
  BY <1>t DEF IInv
<1>1. ASSUME NEW b \in Boxes, Mint(b) PROVE IInv'
  <2>1. nextSeq' = nextSeq
    BY <1>1, <1>t DEF Mint, Create, CreateTorn, IInv, Unborn, StoreTypeOK
  <2>2. Unborn'
    BY <1>1, <2>1, <1>t DEF Mint, Create, CreateTorn, IInv, Unborn, StoreTypeOK
  <2>3. UNCHANGED <<files, clientVars, historyVars>>
    BY <1>1 DEF Mint, Create, CreateTorn
  <2> QED
    BY <2>1, <2>2, <2>3, <1>i
    DEF IInv, FilesBelow, AcceptedSeqsDistinct, HoldFresh, AppliedBeforeAck, AppliedBelow,
        LossNeedsTornSend, Settled, Torn, clientVars, historyVars
<1>2. ASSUME NEW c \in Senders, NEW b \in Boxes, NEW body \in Bodies,
             Authorize(c, b, body)
      PROVE  IInv'
  BY <1>2, <1>i
  DEF Authorize, storeVars, IInv, Unborn, FilesBelow, AcceptedSeqsDistinct,
      HoldFresh, AppliedBeforeAck, AppliedBelow, LossNeedsTornSend, Settled, Torn
<1>3. ASSUME NEW c \in Senders, Accept(c) PROVE IInv'
  <2> DEFINE b == req[c].box
             body == req[c].body
             new == [box |-> b, seq |-> nextSeq[b], body |-> body]
  <2>1. b \in Boxes /\ body \in Bodies
    BY <1>3, <1>t DEF Accept, TypeOK
  <2>2. /\ files' = Written(b, body)
        /\ nextSeq' = [nextSeq EXCEPT ![b] = @ + 1]
        /\ accepted' = accepted \cup {new}
        /\ status[b] = "open"
        /\ UNCHANGED <<status, leases, phase, hold, applied, torn, revoked,
                       spoiled>>
    BY <1>3 DEF Accept, Send, CanSend, Open
  <2>3. /\ \A x \in Boxes : nextSeq[x] \in Nat /\ nextSeq'[x] \in Nat
        /\ \A x \in Boxes : nextSeq[x] <= nextSeq'[x]
        /\ \A x \in Boxes : x # b => nextSeq'[x] = nextSeq[x]
        /\ nextSeq'[b] = nextSeq[b] + 1
    BY <2>1, <2>2, <1>t DEF StoreTypeOK
  <2>4. /\ \A m \in accepted : m.box \in Boxes /\ m.seq \in Nat
        /\ \A f \in files : f.box \in Boxes /\ f.seq \in Nat
        /\ \A r \in Receivers : \A m \in hold[r] : m.box \in Boxes /\ m.seq \in Nat
    BY <1>t DEF TypeOK, StoreTypeOK, Letter, File
  <2>w. /\ \A f \in files : f.box # b \/ f.seq < nextSeq[b] => f \in files'
        /\ \A f \in files' :
               \/ f = new
               \/ f \in files /\ (f.box # b \/ f.seq < nextSeq[b])
    <3>1. /\ \A f \in files : f.box # b \/ f.seq < nextSeq[b]
                              => f \in Written(b, body)
          /\ \A f \in Written(b, body) :
               \/ f = new
               \/ f \in files /\ (f.box # b \/ f.seq < nextSeq[b])
      <4> HIDE DEF b, body
      <4>1. b \in Boxes /\ body \in Bodies
        BY <2>1
      <4> QED BY <4>1, WrittenFacts
    <3> QED BY <2>2, <3>1
  <2>5. Unborn'
    BY <2>1, <2>2 DEF IInv, Unborn
  <2>6. FilesBelow'
    <3>1. \A f \in files' : \/ f.seq < nextSeq'[f.box]
                            \/ f.seq = nextSeq'[f.box] /\ Torn(f)'
      <4> SUFFICES ASSUME NEW f \in files'
                   PROVE  \/ f.seq < nextSeq'[f.box]
                          \/ f.seq = nextSeq'[f.box] /\ Torn(f)
        BY <2>2 DEF Torn
      <4>1. CASE f = new
        BY <4>1, <2>1, <2>3
      <4>2. CASE f \in files /\ f.box # b
        BY <4>2, <2>3, <2>4 DEF IInv, FilesBelow
      <4>3. CASE f \in files /\ f.box = b /\ f.seq < nextSeq[b]
        BY <4>3, <2>1, <2>3, <2>4
      <4> QED BY <4>1, <4>2, <4>3, <2>w
    <3>2. \A f, g \in files' : f.box = g.box /\ f.seq = g.seq => f = g
      BY <2>1, <2>3, <2>4, <2>w DEF IInv, FilesBelow
    <3> QED BY <3>1, <3>2 DEF FilesBelow
  <2>7. AcceptedSeqsDistinct'
    BY <2>1, <2>2, <2>3, <2>4 DEF IInv, AcceptedSeqsDistinct
  <2>8. HoldFresh'
    <3> SUFFICES ASSUME NEW r \in Receivers, NEW m \in hold[r], ~Torn(m)
                 PROVE  /\ m.seq < nextSeq'[m.box]
                        /\ \A f \in files' : f.box = m.box /\ f.seq = m.seq
                             => f.body \in {m.body, Corrupt}
      BY <2>2 DEF HoldFresh, Torn
    <3>1. m.seq < nextSeq[m.box] /\ m.seq < nextSeq'[m.box]
      BY <2>3, <2>4 DEF IInv, HoldFresh
    <3>2. \A f \in files' : f.box = m.box /\ f.seq = m.seq => f \in files
      BY <3>1, <2>1, <2>3, <2>4, <2>w
    <3> QED BY <3>1, <3>2 DEF IInv, HoldFresh
  <2>9. AppliedBeforeAck'
    BY <2>2 DEF IInv, AppliedBeforeAck
  <2>10. LossNeedsTornSend'
    <3>1. new \in files'
      BY <2>2 DEF Written
    <3>2. \A m \in accepted : m \in files => m \in files'
      BY <2>w, <2>4, <2>3 DEF IInv, AcceptedSeqsDistinct
    <3> QED
      BY <2>2, <3>1, <3>2 DEF IInv, LossNeedsTornSend, Settled, Torn
  <2>11. AppliedBelow'
    <3>1. \A m \in applied : m.box \in Boxes /\ m.seq \in Nat
      BY <1>t DEF TypeOK, Letter
    <3>2. \A m \in applied : m.seq < nextSeq[m.box] => m.seq < nextSeq'[m.box]
      BY <3>1, <2>3
    <3> QED BY <3>2, <2>2 DEF IInv, AppliedBelow, Torn
  <2> QED BY <2>5, <2>6, <2>7, <2>8, <2>9, <2>10, <2>11, <1>i
<1>4. ASSUME NEW c \in Senders, NotStored(c) PROVE IInv'
  BY <1>4, <1>i
  DEF NotStored, storeVars, historyVars, IInv, Unborn, FilesBelow,
      AcceptedSeqsDistinct, HoldFresh, AppliedBeforeAck, AppliedBelow, LossNeedsTornSend,
      Settled, Torn
<1>5. ASSUME NEW c \in Senders, SaveFails(c) PROVE IInv'
  <2> DEFINE b == req[c].box
             body == req[c].body
             new == [box |-> b, seq |-> nextSeq[b], body |-> body]
  <2>1. b \in Boxes /\ body \in Bodies
    BY <1>5, <1>t DEF SaveFails, TypeOK
  <2>2. /\ files' = Written(b, body)
        /\ torn' = torn \cup {<<b, nextSeq[b]>>}
        /\ UNCHANGED <<status, nextSeq, leases, phase, hold, accepted, applied,
                       revoked, spoiled>>
    BY <1>5 DEF SaveFails, SendTorn
  <2>3. /\ \A x \in Boxes : nextSeq[x] \in Nat
        /\ \A m \in accepted : m.box \in Boxes /\ m.seq \in Nat
        /\ \A f \in files : f.box \in Boxes /\ f.seq \in Nat
        /\ \A r \in Receivers : \A m \in hold[r] : m.box \in Boxes /\ m.seq \in Nat
    BY <1>t DEF TypeOK, StoreTypeOK, Letter, File
  <2>w. /\ \A f \in files : f.box # b \/ f.seq < nextSeq[b] => f \in files'
        /\ \A f \in files' :
               \/ f = new
               \/ f \in files /\ (f.box # b \/ f.seq < nextSeq[b])
    <3>1. /\ \A f \in files : f.box # b \/ f.seq < nextSeq[b]
                              => f \in Written(b, body)
          /\ \A f \in Written(b, body) :
               \/ f = new
               \/ f \in files /\ (f.box # b \/ f.seq < nextSeq[b])
      <4> HIDE DEF b, body
      <4>1. b \in Boxes /\ body \in Bodies
        BY <2>1
      <4> QED BY <4>1, WrittenFacts
    <3> QED BY <2>2, <3>1
  <2>4. Unborn'
    BY <2>2 DEF IInv, Unborn
  <2>5. FilesBelow'
    BY <2>1, <2>2, <2>3, <2>w DEF IInv, FilesBelow, Torn
  <2>6. AcceptedSeqsDistinct'
    BY <2>2 DEF IInv, AcceptedSeqsDistinct
  <2>7. HoldFresh'
    <3> SUFFICES ASSUME NEW r \in Receivers, NEW m \in hold[r], ~Torn(m)
                 PROVE  /\ m.seq < nextSeq'[m.box]
                        /\ \A f \in files' : f.box = m.box /\ f.seq = m.seq
                             => f.body \in {m.body, Corrupt}
      BY <2>2 DEF HoldFresh, Torn
    <3>1. m.seq < nextSeq[m.box] /\ m.seq < nextSeq'[m.box]
      BY <2>2, <2>3 DEF IInv, HoldFresh
    <3>2. \A f \in files' : f.box = m.box /\ f.seq = m.seq => f \in files
      BY <3>1, <2>1, <2>3, <2>w
    <3> QED BY <3>1, <3>2 DEF IInv, HoldFresh
  <2>8. AppliedBeforeAck'
    BY <2>2 DEF IInv, AppliedBeforeAck
  <2>9. LossNeedsTornSend'
    <3>1. \A m \in accepted : m \in files => m \in files'
      BY <2>w, <2>3 DEF IInv, AcceptedSeqsDistinct
    <3> QED
      BY <2>2, <3>1 DEF IInv, LossNeedsTornSend, Settled, Torn
  <2>10. AppliedBelow'
    BY <2>2 DEF IInv, AppliedBelow, Torn
  <2> QED BY <2>4, <2>5, <2>6, <2>7, <2>8, <2>9, <2>10, <1>i
<1>6. ASSUME HostRestarts PROVE IInv'
  BY <1>6, <1>i
  DEF HostRestarts, Restart, historyVars, IInv, Unborn, FilesBelow,
      AcceptedSeqsDistinct, HoldFresh, AppliedBeforeAck, AppliedBelow, LossNeedsTornSend,
      Settled, Torn
<1>r. ASSUME NEW b \in Boxes, Receive(b), UNCHANGED historyVars
      PROVE  /\ UNCHANGED <<status, nextSeq>>
             /\ files' \in SUBSET files
             /\ \A m \in files : m.body # Corrupt => m \in files'
             /\ LossNeedsTornSend'
  <2>1. UNCHANGED <<status, nextSeq>> /\ files' = files \ Dropped(b)
    BY <1>r DEF Receive
  <2>2. \A m \in files : m.body # Corrupt => m \in files'
    BY <2>1, <1>t, ReceiveFacts
  <2>3. \A m \in accepted : m.body # Corrupt
    BY <1>t, MailboxAssumption DEF TypeOK, Letter
  <2>4. LossNeedsTornSend'
    BY <2>2, <2>3, <1>r DEF IInv, LossNeedsTornSend, Settled, Torn, historyVars
  <2> QED BY <2>1, <2>2, <2>4
<1>7. ASSUME NEW r \in Receivers, NEW b \in Boxes, Drain(r, b) PROVE IInv'
  <2>1. /\ Receive(b) /\ UNCHANGED historyVars
        /\ hold' = [hold EXCEPT ![r] = Handed(b)]
        /\ phase' = [phase EXCEPT ![r] = IF Handed(b) = {} THEN "idle" ELSE "held"]
    BY <1>7 DEF Drain
  <2>2. /\ UNCHANGED <<status, nextSeq, accepted, applied, torn>>
        /\ files' \in SUBSET files /\ LossNeedsTornSend'
    BY <2>1, <1>r DEF historyVars
  <2>3. Unborn' /\ FilesBelow' /\ AcceptedSeqsDistinct' /\ AppliedBelow'
    BY <2>2 DEF IInv, Unborn, FilesBelow, AcceptedSeqsDistinct, AppliedBelow,
                Torn
  <2>4. AppliedBeforeAck'
    BY <2>1, <2>2, <1>t DEF IInv, AppliedBeforeAck, TypeOK
  <2>5. \A m \in Handed(b) : m \in files /\ m \in Letter
    BY <1>t, ReceiveFacts
  <2>6. \A m \in Handed(b) : Torn(m) \/
          /\ m.seq < nextSeq[m.box]
          /\ \A f \in files : f.box = m.box /\ f.seq = m.seq => f = m
    BY <2>5 DEF IInv, FilesBelow
  <2>7. HoldFresh'
    <3> SUFFICES ASSUME NEW q \in Receivers, NEW m \in hold'[q]
                 PROVE  \/ Torn(m)
                        \/ /\ m.seq < nextSeq[m.box]
                           /\ \A f \in files : f.box = m.box /\ f.seq = m.seq
                                => f.body \in {m.body, Corrupt}
      BY <2>2 DEF HoldFresh, Torn
    <3>1. CASE q = r
      BY <3>1, <2>1, <2>6, <1>t DEF TypeOK
    <3>2. CASE q # r
      BY <3>2, <2>1, <1>t DEF TypeOK, IInv, HoldFresh
    <3> QED BY <3>1, <3>2
  <2> QED BY <2>2, <2>3, <2>4, <2>7, <1>i
<1>8. ASSUME NEW b \in Boxes, ResponseLost(b) PROVE IInv'
  <2>1. Receive(b) /\ UNCHANGED historyVars /\ UNCHANGED clientVars
    BY <1>8 DEF ResponseLost
  <2>2. Frame'
    BY <2>1, <1>r, ShrinkingStep DEF historyVars, clientVars
  <2> QED BY <2>1, <2>2, <1>r, <1>i
<1>9. ASSUME NEW r \in Receivers, Apply(r) PROVE IInv'
  <2>1. /\ UNCHANGED <<status, nextSeq, files, hold, accepted, torn, revoked,
                       spoiled>>
        /\ phase' = [phase EXCEPT ![r] = "applied"]
        /\ applied' = applied \cup hold[r]
    BY <1>9 DEF Apply, storeVars
  <2>2. AppliedBeforeAck'
    BY <2>1, <1>t DEF IInv, AppliedBeforeAck, TypeOK
  <2>3. AppliedBelow'
    BY <2>1 DEF IInv, AppliedBelow, HoldFresh, Torn
  <2> QED
    BY <2>1, <2>2, <2>3, <1>i
    DEF IInv, Unborn, FilesBelow, AcceptedSeqsDistinct, HoldFresh,
        LossNeedsTornSend, Settled, Torn
<1>10. ASSUME NEW r \in Receivers, NEW S \in SUBSET hold[r], AckHeld(r, S)
       PROVE  IInv'
  <2>1. PICK b \in Boxes : /\ \A m \in hold[r] : m.box = b
                           /\ Ack(b, {m.seq : m \in S})
    BY <1>10 DEF AckHeld
  <2>2. /\ files' = {f \in files : ~(f.box = b /\ f.seq \in {m.seq : m \in S})}
        /\ UNCHANGED <<status, nextSeq, accepted, applied, torn, revoked, spoiled>>
        /\ phase[r] = "applied"
        /\ hold' = [hold EXCEPT ![r] = {}]
        /\ phase' = [phase EXCEPT ![r] = "idle"]
    BY <1>10, <2>1 DEF AckHeld, Ack, Done, historyVars
  <2>3. Frame'
    <3>1. files' \in SUBSET files
      BY <2>2
    <3>2. \A q \in Receivers :
            hold'[q] = {} \/ (hold'[q] = hold[q] /\ phase'[q] = phase[q])
      BY <2>2, <1>t DEF TypeOK
    <3> QED BY <2>2, <3>1, <3>2, ShrinkingStep
  <2>4. LossNeedsTornSend'
    <3> SUFFICES ASSUME NEW a \in accepted, a \in files, a \notin files'
                 PROVE  Torn(a) \/ Settled(a)
      BY <2>2 DEF IInv, LossNeedsTornSend, Settled, Torn
    <3>1. PICK m \in S : a.box = b /\ a.seq = m.seq
      BY <2>2
    <3>2. m \in hold[r] /\ m.box = b /\ m \in applied
      BY <2>1, <2>2 DEF IInv, AppliedBeforeAck
    <3>3. CASE Torn(m)
      BY <3>1, <3>2, <3>3 DEF Torn
    <3>4. CASE ~Torn(m)
      <4>1. a.body \in {m.body, Corrupt}
        BY <3>1, <3>2, <3>4 DEF IInv, HoldFresh
      <4>2. a \in Letter /\ m \in Letter /\ a.body # Corrupt
        BY <3>2, <1>t, MailboxAssumption DEF TypeOK, Letter
      <4>3. a = m
        BY <3>1, <3>2, <4>1, <4>2 DEF Letter
      <4> QED BY <3>2, <4>3 DEF Settled
    <3> QED BY <3>3, <3>4
  <2> QED BY <2>3, <2>4, <1>i
<1>11. ASSUME NEW r \in Receivers, GiveUp(r) PROVE IInv'
  <2>1. Frame'
    BY <1>11, <1>t, ShrinkingStep
    DEF GiveUp, Done, storeVars, historyVars, TypeOK
  <2>2. LossNeedsTornSend'
    BY <1>11 DEF GiveUp, storeVars, historyVars, IInv, LossNeedsTornSend,
                 Settled, Torn
  <2> QED BY <2>1, <2>2, <1>i
<1>12. ASSUME NEW b \in Boxes, Revoke(b) PROVE IInv'
  <2>1. /\ files' \in SUBSET files
        /\ \A f \in files : f.box # b => f \in files'
        /\ UNCHANGED <<nextSeq, accepted, applied, torn, spoiled, phase, hold>>
        /\ revoked' = revoked \cup {b}
        /\ \A x \in Boxes : status'[x] = "unminted" => status[x] = "unminted"
    BY <1>12, <1>t
    DEF Revoke, Delete, DeleteTorn, InBox, clientVars, TypeOK, StoreTypeOK
  <2>2. Frame'
    BY <2>1, ShrinkingStep
  <2>3. LossNeedsTornSend'
    BY <2>1 DEF IInv, LossNeedsTornSend, Settled, Torn
  <2> QED BY <2>2, <2>3, <1>i
<1>13. ASSUME NEW l \in leases, Expire(l) PROVE IInv'
  BY <1>13, <1>i
  DEF Expire, LeaseExpires, clientVars, historyVars, IInv, Unborn, FilesBelow,
      AcceptedSeqsDistinct, HoldFresh, AppliedBeforeAck, AppliedBelow, LossNeedsTornSend,
      Settled, Torn
<1>14. ASSUME NEW f \in files, Spoil(f) PROVE IInv'
  <2> DEFINE g == [f EXCEPT !.body = Corrupt]
  <2>1. /\ files' = (files \ {f}) \cup {g}
        /\ UNCHANGED <<status, nextSeq, phase, hold, accepted, applied, torn,
                       revoked>>
        /\ spoiled' = spoiled \cup {f}
    BY <1>14 DEF Spoil, Damage, clientVars
  <2>2. g.box = f.box /\ g.seq = f.seq /\ g.body = Corrupt
    BY <1>t DEF StoreTypeOK, File
  <2>3. FilesBelow'
    <3> SUFFICES ASSUME NEW p \in files'
                 PROVE  /\ \/ p.seq < nextSeq[p.box]
                           \/ p.seq = nextSeq[p.box] /\ Torn(p)
                        /\ \A q \in files' : p.box = q.box /\ p.seq = q.seq
                             => p = q
      BY <2>1 DEF FilesBelow, Torn
    <3>1. \A x \in files' : x = g \/ (x \in files /\ x # f)
      BY <2>1
    <3>2. \A x \in files : x.box = f.box /\ x.seq = f.seq => x = f
      BY DEF IInv, FilesBelow
    <3>3. CASE p = g
      <4>1. f.seq < nextSeq[f.box] \/ (f.seq = nextSeq[f.box] /\ Torn(f))
        BY DEF IInv, FilesBelow
      <4> QED BY <3>3, <4>1, <2>2, <3>1, <3>2 DEF Torn
    <3>4. CASE p \in files /\ p # f
      BY <3>4, <2>2, <3>1, <3>2 DEF IInv, FilesBelow
    <3> HIDE DEF g
    <3> QED BY <3>1, <3>3, <3>4
  <2>4. HoldFresh'
    BY <2>1, <2>2 DEF IInv, HoldFresh, Torn
  <2>5. Unborn' /\ AcceptedSeqsDistinct' /\ AppliedBeforeAck' /\ AppliedBelow'
    BY <2>1 DEF IInv, Unborn, AcceptedSeqsDistinct, AppliedBeforeAck,
                AppliedBelow, Torn
  <2>6. LossNeedsTornSend'
    BY <2>1 DEF IInv, LossNeedsTornSend, Settled, Torn
  <2> QED BY <2>3, <2>4, <2>5, <2>6, <1>i
<1>15. CASE UNCHANGED vars
  BY <1>15, <1>i
  DEF vars, storeVars, clientVars, historyVars, IInv, Unborn, FilesBelow,
      AcceptedSeqsDistinct, HoldFresh, AppliedBeforeAck, AppliedBelow, LossNeedsTornSend,
      Settled, Torn
<1> QED BY <1>1, <1>2, <1>3, <1>4, <1>5, <1>6, <1>7, <1>8, <1>9, <1>10, <1>11,
           <1>12, <1>13, <1>14, <1>15
        DEF Next, SenderStep, Refuse, WriteFails, ReceiverStep, HostStep

\* The invariant holds in every reachable state.
LEMMA Invariance == Spec => []IInv
<1> QED BY InitIInv, NextIInv, PTL DEF Spec

\* No accepted message is lost except under a torn sequence number, however
\* sends, deliveries, acks, lease expiries, restarts and revocations interleave.
THEOREM OnlyTornSendsLose == Spec => []LossNeedsTornSend
<1>1. IInv => LossNeedsTornSend
  BY DEF IInv
<1> QED BY <1>1, Invariance, PTL

\* A sequence number announced to a sender is never announced again.
THEOREM SeqsNeverReannounced == Spec => []AcceptedSeqsDistinct
<1>1. IInv => AcceptedSeqsDistinct
  BY DEF IInv
<1> QED BY <1>1, Invariance, PTL

----------------------------------------------------------------------------
(* Revocation. *)

\* Revoking is final, for requests authorised before it as well: Send re-reads
\* the metadata under the mutex.
THEOREM RevocationIsFinal == Spec => []RevokedIsEmpty
<1> DEFINE J == TypeOK /\ RevokedIsEmpty
<1>1. Init => J
  BY InitTypeOK DEF Init, StoreInit, RevokedIsEmpty
<1>2. J /\ [Next]_vars => J'
  <2> SUFFICES ASSUME TypeOK, RevokedIsEmpty, [Next]_vars
               PROVE  RevokedIsEmpty'
    BY NextTypeOK
  <2>t. StoreTypeOK /\ status \in [Boxes -> {"unminted", "open", "deleted", "orphan"}]
    BY DEF TypeOK, StoreTypeOK
  <2> USE DEF RevokedIsEmpty, InBox
  <2>1. ASSUME NEW b \in Boxes, Mint(b) PROVE RevokedIsEmpty'
    BY <2>1, <2>t DEF Mint, Create, CreateTorn
  <2>2. ASSUME NEW c \in Senders, NEW b \in Boxes, NEW body \in Bodies,
               Authorize(c, b, body)
        PROVE  RevokedIsEmpty'
    BY <2>2 DEF Authorize, storeVars
  <2>3. ASSUME NEW c \in Senders, Accept(c) \/ SaveFails(c)
        PROVE  RevokedIsEmpty'
    <3> DEFINE b == req[c].box
    <3>1. /\ status[b] = "open"
          /\ UNCHANGED <<status, leases>>
          /\ \A f \in files' : f.box = b \/ f \in files
      BY <2>3 DEF Accept, SaveFails, Send, SendTorn, CanSend, Open, Written
    <3> QED BY <3>1
  <2>4. ASSUME NEW c \in Senders, NotStored(c)
        PROVE  RevokedIsEmpty'
    BY <2>4 DEF NotStored, storeVars
  <2>5. ASSUME HostRestarts PROVE RevokedIsEmpty'
    BY <2>5 DEF HostRestarts, Restart
  <2>6. ASSUME NEW b \in Boxes, Receive(b) PROVE RevokedIsEmpty'
    BY <2>6 DEF Receive, NewLease, Open
  <2>7. ASSUME NEW r \in Receivers, Apply(r) \/ GiveUp(r)
        PROVE  RevokedIsEmpty'
    BY <2>7 DEF Apply, GiveUp, storeVars
  <2>8. ASSUME NEW r \in Receivers, NEW S \in SUBSET hold[r], AckHeld(r, S)
        PROVE  RevokedIsEmpty'
    BY <2>8 DEF AckHeld, Ack, Released, Open
  <2>9. ASSUME NEW b \in Boxes, Revoke(b) PROVE RevokedIsEmpty'
    BY <2>9, <2>t DEF Revoke, Delete, DeleteTorn, Open
  <2>10. ASSUME NEW l \in leases, Expire(l) PROVE RevokedIsEmpty'
    BY <2>10 DEF Expire, LeaseExpires
  <2>11. ASSUME NEW f \in files, Spoil(f) PROVE RevokedIsEmpty'
    <3>1. files' = (files \ {f}) \cup {[f EXCEPT !.body = Corrupt]}
          /\ UNCHANGED <<status, leases>>
      BY <2>11 DEF Spoil, Damage
    <3>2. [f EXCEPT !.body = Corrupt].box = f.box
      BY <2>t DEF StoreTypeOK, File
    <3> QED BY <3>1, <3>2, <2>t DEF StoreTypeOK, File
  <2>12. CASE UNCHANGED vars
    BY <2>12 DEF vars, storeVars
  <2> QED BY <2>1, <2>2, <2>3, <2>4, <2>5, <2>6, <2>7, <2>8, <2>9, <2>10,
             <2>11, <2>12
          DEF Next, SenderStep, Refuse, WriteFails,
            ReceiverStep, HostStep, Drain, ResponseLost
<1> QED BY <1>1, <1>2, PTL DEF Spec

----------------------------------------------------------------------------
(* The backlog limit. *)

\* The MaxPending backstop holds however many requests passed auth at once.
THEOREM BacklogBounded == Spec => []PendingBounded
<1> DEFINE J == /\ TypeOK
                /\ \A b \in Boxes : /\ IsFiniteSet(Pending(b))
                                    /\ Cardinality(Pending(b)) <= MaxPending
<1>1. Init => J
  <2>1. Init => \A b \in Boxes : Pending(b) = {}
    BY DEF Init, StoreInit, Pending, InBox
  <2> QED BY <2>1, InitTypeOK, FS_EmptySet, MailboxAssumption
<1>2. J /\ [Next]_vars => J'
  <2> SUFFICES ASSUME J, [Next]_vars, NEW b \in Boxes
               PROVE  /\ IsFiniteSet(Pending(b)')
                      /\ Cardinality(Pending(b)') <= MaxPending
    BY NextTypeOK DEF Pending, InBox
  <2>a. Cardinality(Pending(b)) \in Nat
    BY FS_CardinalityType
  <2>s. Pending(b)' \subseteq Pending(b)
          => /\ IsFiniteSet(Pending(b)')
             /\ Cardinality(Pending(b)') <= MaxPending
    <3> SUFFICES ASSUME Pending(b)' \subseteq Pending(b)
                 PROVE  /\ IsFiniteSet(Pending(b)')
                        /\ Cardinality(Pending(b)') <= MaxPending
      OBVIOUS
    <3>1. IsFiniteSet(Pending(b)') /\ Cardinality(Pending(b)') <= Cardinality(Pending(b))
      BY FS_Subset
    <3>2. Cardinality(Pending(b)') \in Nat
      BY <3>1, FS_CardinalityType
    <3> QED BY <3>1, <3>2, <2>a, MailboxAssumption
  <2>f. files' \subseteq files => Pending(b)' \subseteq Pending(b)
    BY DEF Pending, InBox
  <2>1. ASSUME NEW c \in Senders, Accept(c) \/ SaveFails(c)
        PROVE  /\ IsFiniteSet(Pending(b)')
               /\ Cardinality(Pending(b)') <= MaxPending
    <3>1. files' = Written(req[c].box, req[c].body) /\ CanSend(req[c].box)
      BY <2>1 DEF Accept, SaveFails, Send, SendTorn
    <3>2. CASE req[c].box # b
      <4>1. Pending(b)' \subseteq Pending(b)
        BY <3>1, <3>2 DEF Written, Pending, InBox
      <4> QED BY <4>1, <2>s
    <3>3. CASE req[c].box = b
      <4>1. Cardinality(Pending(b)) < MaxPending
        BY <3>1, <3>3 DEF CanSend
      <4>2. Pending(b)' \subseteq Pending(b) \cup {nextSeq[b]}
        BY <3>1, <3>3 DEF Written, Pending, InBox
      <4>3. /\ IsFiniteSet(Pending(b) \cup {nextSeq[b]})
            /\ \/ Cardinality(Pending(b) \cup {nextSeq[b]}) = Cardinality(Pending(b))
               \/ Cardinality(Pending(b) \cup {nextSeq[b]}) = Cardinality(Pending(b)) + 1
        BY FS_AddElement
      <4>4. /\ IsFiniteSet(Pending(b)')
            /\ Cardinality(Pending(b)') <= Cardinality(Pending(b) \cup {nextSeq[b]})
        BY <4>2, <4>3, FS_Subset
      <4>5. Cardinality(Pending(b)') \in Nat
        BY <4>4, FS_CardinalityType
      <4> QED BY <4>1, <4>3, <4>4, <4>5, <2>a, MailboxAssumption
    <3> QED BY <3>2, <3>3
  <2>2. ASSUME NEW f \in files, Spoil(f) PROVE Pending(b)' \subseteq Pending(b)
    <3>1. files' = (files \ {f}) \cup {[f EXCEPT !.body = Corrupt]}
      BY <2>2 DEF Spoil, Damage
    <3>2. [f EXCEPT !.body = Corrupt].box = f.box
          /\ [f EXCEPT !.body = Corrupt].seq = f.seq
      BY DEF TypeOK, StoreTypeOK, File
    <3> QED BY <3>1, <3>2 DEF Pending, InBox
  <2>3. ASSUME NEW x \in Boxes, Revoke(x) PROVE files' \subseteq files
    BY <2>3 DEF Revoke, Delete, DeleteTorn, InBox
  <2>4. ASSUME NEW r \in Receivers, ReceiverStep(r) PROVE files' \subseteq files
    BY <2>4 DEF ReceiverStep, Drain, Receive, Apply, AckHeld, Ack, GiveUp,
                storeVars
  <2>5. ASSUME NEW c \in Senders,
               NotStored(c) \/ \E x \in Boxes, body \in Bodies : Authorize(c, x, body)
        PROVE  files' \subseteq files
    BY <2>5 DEF NotStored, Authorize, storeVars
  <2>6. ASSUME HostRestarts \/ (\E x \in Boxes : Mint(x) \/ ResponseLost(x))
                 \/ (\E l \in leases : Expire(l))
        PROVE  files' \subseteq files
    BY <2>6 DEF HostRestarts, Restart, Mint, Create, CreateTorn, ResponseLost,
                Receive, Expire, LeaseExpires
  <2>7. CASE UNCHANGED vars
    BY <2>7, <2>f, <2>s DEF vars, storeVars
  <2> QED BY <2>1, <2>2, <2>3, <2>4, <2>5, <2>6, <2>7, <2>f, <2>s
          DEF Next, SenderStep, Refuse, WriteFails, HostStep
<1>3. J => PendingBounded
  BY DEF PendingBounded
<1> QED BY <1>1, <1>2, <1>3, PTL DEF Spec

----------------------------------------------------------------------------
(* The host implements the courier. *)

W == Carried \cap files
R == Carried \cap applied
E == {m \in Carried : m.box \in revoked \/ m \in spoiled}

\* What makes a step a stutter of the courier.
LEMMA CourierStutter ==
  ASSUME UNCHANGED <<Carried, W, R, E>>
  PROVE  [C!Next]_(C!vars)
BY DEF C!vars, W, R, E

\* A carried letter sits below NextSeq, so no Send touches its file.
LEMMA CarriedBelow ==
  ASSUME IInv
  PROVE  /\ Carried \subseteq Letter
         /\ \A m \in Carried : m.seq \in Nat /\ nextSeq[m.box] \in Nat
                                 /\ m.seq < nextSeq[m.box] /\ m.body # Corrupt
BY MailboxAssumption
DEF Carried, IInv, TypeOK, StoreTypeOK, Letter, AcceptedSeqsDistinct

\* Every step of the host is a step of the courier, or none.
LEMMA CourierStep == IInv /\ [Next]_vars => [C!Next]_(C!vars)
<1> SUFFICES ASSUME IInv, [Next]_vars
             PROVE  [C!Next]_(C!vars)
  OBVIOUS
<1>t. TypeOK /\ StoreTypeOK
  BY DEF IInv, TypeOK
<1>c. Carried \subseteq Letter /\ Carried \subseteq accepted
  BY CarriedBelow DEF Carried
<1>u. UNCHANGED <<accepted, torn>> => Carried' = Carried
  BY DEF Carried, Torn
<1>1. ASSUME UNCHANGED <<accepted, torn, applied, revoked, spoiled>>,
             \A m \in Carried : m \in files <=> m \in files'
      PROVE  [C!Next]_(C!vars)
  <2>1. Carried' = Carried
    BY <1>1, <1>u
  <2>2. W' = W /\ R' = R /\ E' = E
    BY <1>1, <2>1 DEF W, R, E
  <2> QED BY <2>1, <2>2, CourierStutter
<1>2. ASSUME NEW c \in Senders, Accept(c) PROVE [C!Next]_(C!vars)
  <2> DEFINE b == req[c].box
             body == req[c].body
             new == [box |-> b, seq |-> nextSeq[b], body |-> body]
  <2>1. b \in Boxes /\ body \in Bodies
    BY <1>2, <1>t DEF Accept, TypeOK
  <2>2. /\ files' = Written(b, body)
        /\ accepted' = accepted \cup {new}
        /\ UNCHANGED <<applied, torn, revoked, spoiled>>
    BY <1>2 DEF Accept, Send
  <2>3. \A m \in Carried : m \in files <=> m \in files'
    <3>1. \A m \in Carried : m.box # b \/ m.seq < nextSeq[b]
      BY CarriedBelow
    <3>2. \A m \in Carried : m # new
      BY <2>1, CarriedBelow
    <3> QED BY <2>2, <3>1, <3>2, CarriedBelow DEF Written
  <2>4. new \in Letter /\ new \in files'
    BY <2>1, <2>2, <1>t DEF Letter, StoreTypeOK, Written
  <2>5. new \notin Carried
    BY <2>1, CarriedBelow
  <2>8. ~(new.seq < nextSeq[new.box])
    BY <2>1, <1>t DEF StoreTypeOK
  <2> HIDE DEF new
  <2>6. CASE Torn(new)
    <3>1. Carried' = Carried
      BY <2>2, <2>6 DEF Carried, Torn
    <3>2. W' = W /\ R' = R /\ E' = E
      BY <2>2, <2>3, <3>1 DEF W, R, E
    <3> QED BY <3>1, <3>2, CourierStutter
  <2>7. CASE ~Torn(new)
    <3>1. Carried' = Carried \cup {new}
      BY <2>2, <2>7 DEF Carried, Torn
    <3>2. W' = W \cup {new}
      BY <3>1, <2>3, <2>4 DEF W
    <3>3. new \notin applied => R' = R
      BY <3>1, <2>2 DEF R
    <3>4. E' \in {E, E \cup {new}}
      BY <3>1, <2>2 DEF E
    <3>5. new \notin applied
      BY <2>7, <2>8 DEF IInv, AppliedBelow
    <3> QED
      BY <3>1, <3>2, <3>3, <3>4, <3>5, <2>4, <2>5
      DEF C!Next, C!Post, W, R, E, Letter
  <2> QED BY <2>6, <2>7
<1>3. ASSUME NEW c \in Senders, SaveFails(c) PROVE [C!Next]_(C!vars)
  <2> DEFINE b == req[c].box
  <2>1. /\ files' = Written(b, req[c].body)
        /\ torn' = torn \cup {<<b, nextSeq[b]>>}
        /\ UNCHANGED <<accepted, applied, revoked, spoiled>>
    BY <1>3 DEF SaveFails, SendTorn
  <2>2. \A m \in Carried : m.box # b \/ m.seq < nextSeq[b]
    BY CarriedBelow
  <2>3. Carried' = Carried
    BY <2>1, <2>2, CarriedBelow DEF Carried, Torn
  <2>4. b \in Boxes /\ req[c].body \in Bodies /\ nextSeq[b] \in Nat
    BY <1>3, <1>t DEF SaveFails, TypeOK, StoreTypeOK
  <2>5. \A m \in Carried : m \in files <=> m \in files'
    BY <2>1, <2>2, <2>4, CarriedBelow DEF Written
  <2>6. W' = W /\ R' = R /\ E' = E
    BY <2>1, <2>3, <2>5 DEF W, R, E
  <2> QED BY <2>3, <2>6, CourierStutter
<1>4. ASSUME NEW b \in Boxes, Receive(b), UNCHANGED historyVars
      PROVE  [C!Next]_(C!vars)
  <2>1. \A m \in Carried : m \in files <=> m \in files'
    BY <1>4, <1>t, ReceiveFacts, CarriedBelow DEF Receive
  <2> QED BY <2>1, <1>1, <1>4 DEF historyVars
<1>5. ASSUME NEW r \in Receivers, Apply(r) PROVE [C!Next]_(C!vars)
  <2>1. /\ UNCHANGED <<files, accepted, torn, revoked, spoiled>>
        /\ applied' = applied \cup hold[r]
    BY <1>5 DEF Apply, storeVars
  <2>2. Carried' = Carried
    BY <2>1, <1>u
  <2> DEFINE S == hold[r] \cap Carried
  <2>3. W' = W /\ E' = E /\ R' = R \cup S /\ S \in SUBSET Carried
    BY <2>1, <2>2 DEF W, E, R
  <2> QED BY <2>2, <2>3 DEF C!Next, C!Deliver, W, R, E
<1>6. ASSUME NEW r \in Receivers, NEW S \in SUBSET hold[r], AckHeld(r, S)
      PROVE  [C!Next]_(C!vars)
  <2>1. PICK b \in Boxes : /\ \A m \in hold[r] : m.box = b
                           /\ Ack(b, {m.seq : m \in S})
    BY <1>6 DEF AckHeld
  <2>2. /\ files' = {f \in files : ~(f.box = b /\ f.seq \in {m.seq : m \in S})}
        /\ UNCHANGED <<accepted, applied, torn, revoked, spoiled>>
        /\ phase[r] = "applied"
    BY <1>6, <2>1 DEF AckHeld, Ack, historyVars
  <2>3. Carried' = Carried
    BY <2>2, <1>u
  <2> DEFINE T == W \ files'
  <2>4. W' = W \ T /\ R' = R /\ E' = E
    BY <2>2, <2>3 DEF W, R, E
  <2>5. T \subseteq applied
    <3> SUFFICES ASSUME NEW a \in Carried, a \in files, a \notin files'
                 PROVE  a \in applied
      BY DEF W
    <3>1. PICK m \in S : a.box = b /\ a.seq = m.seq
      BY <2>2
    <3>2. m \in hold[r] /\ m.box = b /\ m \in applied
      BY <2>1, <2>2 DEF IInv, AppliedBeforeAck
    <3>3. ~Torn(m)
      BY <3>1, <3>2 DEF Carried, Torn
    <3>4. a.body \in {m.body, Corrupt}
      BY <3>1, <3>2, <3>3 DEF IInv, HoldFresh
    <3>5. a \in Letter /\ m \in Letter /\ a.body # Corrupt
      BY <3>2, <1>t, CarriedBelow DEF TypeOK
    <3>6. a = m
      BY <3>1, <3>2, <3>4, <3>5 DEF Letter
    <3> QED BY <3>2, <3>6
  <2>6. T \in SUBSET W /\ T \subseteq R
    BY <2>5 DEF W, R
  <2> QED BY <2>3, <2>4, <2>6 DEF C!Next, C!Confirm, W, R, E
<1>7. ASSUME NEW b \in Boxes, Revoke(b) PROVE [C!Next]_(C!vars)
  <2>1. /\ files' \subseteq files
        /\ \A f \in files : f.box # b => f \in files'
        /\ UNCHANGED <<accepted, applied, torn, spoiled>>
        /\ revoked' = revoked \cup {b}
    BY <1>7 DEF Revoke, Delete, DeleteTorn, InBox, clientVars
  <2>2. Carried' = Carried
    BY <2>1, <1>u
  <2> DEFINE S == {m \in Carried : m.box = b}
             T == W \ files'
  <2>3. W' = W \ T /\ R' = R /\ E' = E \cup S
    BY <2>1, <2>2 DEF W, R, E
  <2>4. S \in SUBSET Carried /\ T \in SUBSET S
    BY <2>1 DEF W
  <2> QED BY <2>2, <2>3, <2>4 DEF C!Next, C!Excuse, W, R, E
<1>8. ASSUME NEW f \in files, Spoil(f) PROVE [C!Next]_(C!vars)
  <2> DEFINE g == [f EXCEPT !.body = Corrupt]
             S == {f} \cap Carried
  <2>1. /\ files' = (files \ {f}) \cup {g}
        /\ UNCHANGED <<accepted, applied, torn, revoked>>
        /\ spoiled' = spoiled \cup {f}
    BY <1>8 DEF Spoil, Damage, clientVars
  <2>2. Carried' = Carried
    BY <2>1, <1>u
  <2>3. g.body = Corrupt
    BY <1>t DEF StoreTypeOK, File
  <2>4. g \notin Carried
    BY <2>3, CarriedBelow
  <2>5. W' = W \ S /\ R' = R /\ E' = E \cup S /\ S \in SUBSET Carried
    BY <2>1, <2>2, <2>4 DEF W, R, E
  <2> QED BY <2>2, <2>5 DEF C!Next, C!Excuse, W, R, E
<1>9. ASSUME UNCHANGED files, UNCHANGED <<accepted, applied, torn, revoked, spoiled>>
      PROVE  [C!Next]_(C!vars)
  BY <1>9, <1>1
<1>10. ASSUME NEW b \in Boxes, Mint(b) PROVE [C!Next]_(C!vars)
  BY <1>10, <1>9 DEF Mint, Create, CreateTorn, historyVars
<1>11. ASSUME NEW c \in Senders, NEW b \in Boxes, NEW body \in Bodies,
              Authorize(c, b, body)
       PROVE  [C!Next]_(C!vars)
  BY <1>11, <1>9 DEF Authorize, storeVars
<1>12. ASSUME HostRestarts PROVE [C!Next]_(C!vars)
  BY <1>12, <1>9 DEF HostRestarts, Restart, historyVars
<1>13. ASSUME NEW r \in Receivers, GiveUp(r) PROVE [C!Next]_(C!vars)
  BY <1>13, <1>9 DEF GiveUp, storeVars, historyVars
<1>14. ASSUME NEW l \in leases, Expire(l) PROVE [C!Next]_(C!vars)
  BY <1>14, <1>9 DEF Expire, LeaseExpires, historyVars
<1>15. CASE UNCHANGED vars
  BY <1>15, <1>9 DEF vars, storeVars, historyVars
<1>16. ASSUME NEW c \in Senders, NotStored(c)
       PROVE  [C!Next]_(C!vars)
  BY <1>16, <1>9 DEF NotStored, storeVars, historyVars
<1> QED BY <1>2, <1>3, <1>4, <1>5, <1>6, <1>7, <1>8, <1>10, <1>11, <1>12, <1>13,
           <1>14, <1>15, <1>16
        DEF Next, SenderStep, Refuse, WriteFails,
            ReceiverStep, HostStep, Drain, ResponseLost

\* The mailbox host implements the courier: every step carries a letter away
\* only after it was received, or not at all.
THEOREM HostImplementsCourier == Spec => ImplementsCourier
<1>1. Init => C!Init
  BY DEF Init, C!Init, Carried
<1>2. IInv /\ [Next]_vars => [C!Next]_(C!vars)
  BY CourierStep
<1> QED BY <1>1, <1>2, Invariance, PTL DEF Spec, ImplementsCourier, C!Spec

----------------------------------------------------------------------------
(* The order of delivery. *)

\* A receiver that is idle holds nothing.
IdleHoldsNone == \A r \in Receivers : phase[r] = "idle" => hold[r] = {}

LEMMA IdleHoldsNoneInv == Spec => []IdleHoldsNone
<1>1. Init => IdleHoldsNone
  BY DEF Init, IdleHoldsNone
<1>2. TypeOK /\ IdleHoldsNone /\ [Next]_vars => IdleHoldsNone'
  <2> SUFFICES ASSUME TypeOK, IdleHoldsNone, [Next]_vars
               PROVE  IdleHoldsNone'
    OBVIOUS
  <2> USE DEF IdleHoldsNone, TypeOK
  <2>1. ASSUME NEW c \in Senders, SenderStep(c) PROVE UNCHANGED <<phase, hold>>
    BY <2>1 DEF SenderStep, Authorize, Accept, Refuse, WriteFails, NotStored, SaveFails
  <2>2. ASSUME HostStep PROVE UNCHANGED <<phase, hold>>
    BY <2>2 DEF HostStep, Mint, ResponseLost, Revoke, Expire, Spoil, HostRestarts, clientVars
  <2>3. ASSUME NEW r \in Receivers, ReceiverStep(r) PROVE IdleHoldsNone'
    <3>1. ASSUME NEW b \in Boxes, Drain(r, b) PROVE IdleHoldsNone'
      BY <3>1 DEF Drain
    <3>2. CASE Apply(r)
      BY <3>2 DEF Apply
    <3>3. CASE GiveUp(r)
      BY <3>3 DEF GiveUp, Done
    <3>4. ASSUME NEW S \in SUBSET hold[r], AckHeld(r, S) PROVE IdleHoldsNone'
      BY <3>4 DEF AckHeld, Done
    <3> QED BY <2>3, <3>1, <3>2, <3>3, <3>4 DEF ReceiverStep
  <2>4. CASE UNCHANGED vars
    BY <2>4 DEF vars, clientVars
  <2> QED BY <2>1, <2>2, <2>3, <2>4 DEF Next
<1> QED BY <1>1, <1>2, TypeCorrect, PTL DEF Spec

\* Only finitely many files come before one: no two share a number.
LEMMA EarlierFinite ==
  ASSUME IInv, NEW b \in Boxes, NEW m \in files
  PROVE  IsFiniteSet({g \in Parseable(b) : g.seq < m.seq})
<1> DEFINE Early == {g \in Parseable(b) : g.seq < m.seq}
           f == [g \in Early |-> g.seq]
<1>1. m.seq \in Nat /\ \A g \in Early : g \in files /\ g.box = b /\ g.seq \in 1..m.seq
  BY DEF IInv, TypeOK, StoreTypeOK, File, Parseable, Deliverable, InBox
<1>2. f \in Injection(Early, 1..m.seq)
  BY <1>1 DEF IInv, FilesBelow, Injection, IsInjective
<1>3. IsFiniteSet(1..m.seq)
  BY <1>1, FS_Interval
<1> QED BY <1>2, <1>3, FS_Injection

\* Receive scans in sequence order: a letter that parses and is not leased is
\* handed out before any later one of its mailbox.
LEMMA HandedInOrder ==
  ASSUME IInv, NEW b \in Boxes, NEW m \in Handed(b), NEW n \in files,
         n.box = b, n.seq < m.seq, n.body # Corrupt, ~Leased(b, n.seq)
  PROVE  n \in Handed(b)
<1> DEFINE Before(f) == {g \in Parseable(b) : g.seq < f.seq}
<1>1. m \in files /\ m.seq \in Nat /\ n.seq \in Nat
  BY DEF Handed, Parseable, Deliverable, InBox, IInv, TypeOK, StoreTypeOK, File
<1>2. n \in Parseable(b)
  BY DEF Parseable, Deliverable, InBox
<1>3. \A g \in Parseable(b) : g.seq \in Nat
  BY DEF Parseable, Deliverable, InBox, IInv, TypeOK, StoreTypeOK, File
<1>4. IsFiniteSet(Before(m)) /\ Before(n) \in SUBSET Before(m)
  BY <1>1, <1>3, EarlierFinite
<1>5. /\ Cardinality(Before(n)) <= Cardinality(Before(m))
      /\ Cardinality(Before(n)) \in Nat /\ Cardinality(Before(m)) \in Nat
  <2>1. IsFiniteSet(Before(n)) /\ Cardinality(Before(n)) <= Cardinality(Before(m))
    BY <1>4, FS_Subset
  <2> QED BY <1>4, <2>1, FS_CardinalityType
<1>6. Cardinality(Before(m)) < ReceiveLimit
  BY DEF Handed, Scanned
<1>7. Cardinality(Before(n)) < ReceiveLimit
  BY <1>5, <1>6, MailboxAssumption
<1> QED BY <1>2, <1>7 DEF Handed, Scanned

\* A letter overtakes an earlier one of its mailbox only while that one is leased.
THEOREM DeliveryInOrder == Spec => NoOvertaking
<1> DEFINE A == \A r \in Receivers : phase[r] = "idle" =>
             \A m \in hold'[r], n \in files :
               n.box = m.box /\ n.seq < m.seq /\ n.body # Corrupt
                 => n \in hold'[r] \/ Leased(n.box, n.seq)
<1>1. IInv /\ IdleHoldsNone /\ [Next]_vars => [A]_vars
  <2> SUFFICES ASSUME IInv, IdleHoldsNone, Next,
                      NEW r \in Receivers, phase[r] = "idle",
                      NEW m \in hold'[r], NEW n \in files,
                      n.box = m.box, n.seq < m.seq, n.body # Corrupt
               PROVE  n \in hold'[r] \/ Leased(n.box, n.seq)
    OBVIOUS
  <2>t. /\ hold[r] = {} /\ hold \in [Receivers -> SUBSET Letter]
        /\ phase \in [Receivers -> {"idle", "held", "applied"}]
    BY DEF IdleHoldsNone, IInv, TypeOK
  <2>1. hold'[r] # hold[r]
    BY <2>t
  <2>2. PICK b \in Boxes : Drain(r, b)
    <3>1. ASSUME NEW c \in Senders, SenderStep(c) PROVE hold' = hold
      BY <3>1 DEF SenderStep, Authorize, Accept, Refuse, WriteFails, NotStored, SaveFails
    <3>2. ASSUME HostStep PROVE hold' = hold
      BY <3>2 DEF HostStep, Mint, ResponseLost, Revoke, Expire, Spoil, HostRestarts, clientVars
    <3>3. ASSUME NEW q \in Receivers, ReceiverStep(q), q # r PROVE hold'[r] = hold[r]
      BY <3>3, <2>t DEF ReceiverStep, Drain, Apply, GiveUp, AckHeld, Done
    <3>4. ASSUME ReceiverStep(r) PROVE \E b \in Boxes : Drain(r, b)
      BY <3>4, <2>t DEF ReceiverStep, Apply, GiveUp, AckHeld
    <3> QED BY <2>1, <3>1, <3>2, <3>3, <3>4 DEF Next
  <2>3. hold'[r] = Handed(b) /\ \A f \in Handed(b) : f.box = b
    BY <2>2, <2>t DEF Drain, Handed, Parseable, Deliverable, InBox
  <2> QED BY <2>3, HandedInOrder
<1> QED BY <1>1, Invariance, IdleHoldsNoneInv, PTL DEF Spec, NoOvertaking

============================================================================
