SPECIFICATION CalmSpec
CONSTANTS
  e1 = e1
  n1 = n1
  Project = Project
  None = None
  Sep = Sep
  NoHash = NoHash
  Absent = Absent
  Corrupt = Corrupt
  Instances <- Two
  Items <- OneItem
  NewItems <- NoRows
  Notes <- OneNote
  MintedBy <- Minted
  Rights <- BodyRights
  Faults <- NoFaults
  MaxPending = 10
  MaxMailboxes = 2
  ReceiveLimit = 10
  MaxEdits = 3
  MaxFaults = 0
  MaxSeq = 10
INVARIANTS
  NothingOverwritten
