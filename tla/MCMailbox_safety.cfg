\* One mailbox, a backlog of at most two, one message per receive, three
\* messages, two senders and two receivers: expired leases, torn sends and a
\* full mailbox all happen, alone and together.
SPECIFICATION Spec
CONSTANTS
  b1 = b1
  b2 = b2
  m1 = m1
  m2 = m2
  m3 = m3
  c1 = c1
  c2 = c2
  r1 = r1
  r2 = r2
  Corrupt = Corrupt
  NoRequest = NoRequest
  Boxes <- OneBox
  Bodies <- ThreeBodies
  Senders <- TwoSenders
  Receivers <- TwoReceivers
  MaxPending = 2
  MaxMailboxes = 1
  ReceiveLimit = 1
SYMMETRY Symmetry
INVARIANTS
  TypeOK
  LossNeedsTornSend
  AcceptedSeqsDistinct
  PendingBounded
  RevokedIsEmpty
PROPERTIES
  NoOvertaking
  ImplementsCourier
