SPECIFICATION Spec
CONSTANTS
  e1 = e1
  n1 = n1
  Project = Project
  None = None
  Sep = Sep
  NoHash = NoHash
  Absent = Absent
  Corrupt = Corrupt
  Instances <- Two
  Items <- OneItem
  NewItems <- OneItem
  Notes <- OneNote
  MintedBy <- MintedByOne
  Rights <- Creates
  Faults <- NoFaults
  MaxPending = 10
  MaxMailboxes = 2
  ReceiveLimit = 10
  MaxEdits = 1
  MaxFaults = 0
  MaxSeq = 10
INVARIANTS
  NotesNotEchoed
