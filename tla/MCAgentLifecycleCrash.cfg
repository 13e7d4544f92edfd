SPECIFICATION FairSpec
CONSTANTS
  worker = worker
  broken = broken
  e1 = e1
  e2 = e2
  Agents = {worker}
  Commanded = {worker}
  Unparsable = {}
  Executions = {e1, e2}
  MaxStops = 0
  MaxKills = 0
PROPERTY CrashIsFlagged
