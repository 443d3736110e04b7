SPECIFICATION FairSpec
CONSTANTS
  e1 = e1
  n1 = n1
  Project = Project
  None = None
  Sep = Sep
  NoHash = NoHash
  Absent = Absent
  Corrupt = Corrupt
  Instances <- Two
  Items <- OneItem
  NewItems <- NoRows
  Notes <- OneNote
  MintedBy <- Minted
  Rights <- MergeableRights
  Faults <- HostFaults
  MaxPending = 2
  MaxMailboxes = 2
  ReceiveLimit = 2
  MaxEdits = 2
  MaxFaults = 1
  MaxSeq = 6
INVARIANTS
  InStep
PROPERTIES
  Settles
