\* One mailbox, two messages, one message per receive, so that a message queued
\* behind a damaged or leased one is only reached once that one is gone.
SPECIFICATION FairSpec
CONSTANTS
  b1 = b1
  b2 = b2
  m1 = m1
  m2 = m2
  m3 = m3
  c1 = c1
  c2 = c2
  r1 = r1
  r2 = r2
  Corrupt = Corrupt
  NoRequest = NoRequest
  Boxes <- OneBox
  Bodies <- TwoBodies
  Senders <- OneSender
  Receivers <- OneReceiver
  MaxPending = 2
  MaxMailboxes = 1
  ReceiveLimit = 1
PROPERTIES
  EventuallyDelivered
  CorruptNeverWedges
