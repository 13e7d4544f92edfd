SPECIFICATION FairSpec
CONSTANTS
  worker = worker
  broken = broken
  e1 = e1
  e2 = e2
  Agents = {worker, broken}
  Commanded = {worker}
  Unparsable = {broken}
  Executions = {e1, e2}
  MaxStops = 1
  MaxKills = 1
INVARIANTS TypeOK UndisturbedStatusRight RuntimeHonest GracefulStopLeavesNoOrphan
PROPERTIES StoppedIsFlaggedOnlyIfBusy DeadIsNotRunning
\* Once the loop is dead, every agent deleted and the bounds reached, nothing happens.
CHECK_DEADLOCK FALSE
