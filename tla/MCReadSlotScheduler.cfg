SPECIFICATION Spec
CONSTANTS
  Requests = {c1, c2, c3, c4, c5}
  Limit = 2
  MaxOrphaned = 1
INVARIANTS PermitConservation SchedulerInvariants
PROPERTIES ImplementsFifo QueueDiscipline EveryCallEnds
CHECK_DEADLOCK FALSE
