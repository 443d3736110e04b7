\* One worker and two events, leased together or one after the other.
SPECIFICATION FairSpec
CONSTANTS
  w1 = w1
  w2 = w2
  e1 = e1
  e2 = e2
  h1 = h1
  h2 = h2
  p1 = p1
  AllProjects = AllProjects
  NoJob = NoJob
  Workers <- OneWorker
  Events <- TwoEvents
  Hooks <- OneHook
  Projects <- OneProject
  ProjectOf <- InOneProject
  Scope <- Scopes
  Wants <- AllKinds
  MaxAttempts = 2
  BatchSize = 2
  MaxFaults = 1
PROPERTIES
  EventuallySettled
\* The events and the webhooks are finite: the outbox is left with nothing to do.
CHECK_DEADLOCK FALSE
