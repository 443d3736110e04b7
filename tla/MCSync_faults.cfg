SPECIFICATION Spec
CONSTANTS
  e1 = e1
  n1 = n1
  Project = Project
  None = None
  Sep = Sep
  NoHash = NoHash
  Absent = Absent
  Corrupt = Corrupt
  Instances <- Two
  Items <- OneItem
  NewItems <- OneItem
  Notes <- OneNote
  MintedBy <- MintedNew
  Rights <- AllRights
  Faults <- AllFaults
  MaxPending = 2
  MaxMailboxes = 2
  ReceiveLimit = 1
  MaxEdits = 2
  MaxFaults = 1
  MaxSeq = 10
INVARIANTS
  SentIsReal
  NotesUnion
  InStepUnlessParted
