SPECIFICATION FairSpec
CONSTANTS
  hangs = hangs
  timed = timed
  deaf = deaf
  Executions = {hangs, timed, deaf}
  MaxConcurrent = 2
  Hanging = {hangs, timed}
  Timed = {timed}
  Deaf = {deaf}
INVARIANTS TypeOK SlotsAccounted ActiveTasksKnown AnsweredUnlessCancelled
PROPERTIES WaitersGetSlots ShutdownEnds
\* Every execution is over and shutdown() has returned.
CHECK_DEADLOCK FALSE
