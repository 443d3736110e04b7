\* Two processes, so that a lease that runs out is taken by another worker; one
\* event, two subscribers, so that one can answer and the other not.
SPECIFICATION Spec
CONSTANTS
  w1 = w1
  w2 = w2
  e1 = e1
  e2 = e2
  h1 = h1
  h2 = h2
  p1 = p1
  AllProjects = AllProjects
  NoJob = NoJob
  Workers <- TwoWorkers
  Events <- OneEvent
  Hooks <- TwoHooks
  Projects <- OneProject
  ProjectOf <- InOneProject
  Scope <- Scopes
  Wants <- AllKinds
  MaxAttempts = 2
  BatchSize = 1
  MaxFaults = 1
INVARIANTS
  NoneSkipped
  OnlyLapsesRepeat
  OneFate
PROPERTIES
  ImplementsFanout
\* The events and the webhooks are finite: the outbox is left with nothing to do.
CHECK_DEADLOCK FALSE
