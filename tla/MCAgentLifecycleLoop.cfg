SPECIFICATION Spec
CONSTANTS
  worker = worker
  broken = broken
  e1 = e1
  e2 = e2
  Agents = {worker, broken}
  Commanded = {worker}
  Unparsable = {broken}
  Executions = {e1, e2}
  MaxStops = 0
  MaxKills = 0
INVARIANT EngineRunningIsTrue
