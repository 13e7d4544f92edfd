SPECIFICATION FairSpec
\* The server really stops once start() has died and no task or agent is left.
CHECK_DEADLOCK FALSE
CONSTANTS
  plain = plain
  plain2 = plain2
  urgent = urgent
  other = other
  default = default
  slow = slow
  a1 = a1
  a2 = a2
  Tasks = {plain, urgent}
  Queues = {default, slow}
  QueueOf <- MCQueueOf
  PriorityOf <- MCPriorityOf
  DefaultQueue = default
  MaxRetries = 1
  Agents = {a1, a2}
  AgentOf <- MCAgentOf
  MaxWorkers = 1
  Hooks = {}
  Outcomes = {"ok", "raise"}
  MaxOutcomes = 1
  MaxCrashes = 1
  MaxFaults = 0
INVARIANTS RowFollowsRecord CountedOnce
PROPERTIES KeepsLifecycle EveryTaskFinishes
