SPECIFICATION Spec
\* The server really stops once start() has died and no task or agent is left.
CHECK_DEADLOCK FALSE
CONSTANTS
  plain = plain
  plain2 = plain2
  urgent = urgent
  other = other
  default = default
  slow = slow
  a1 = a1
  a2 = a2
  Tasks = {plain, urgent}
  Queues = {default, slow}
  QueueOf <- MCQueueOf
  PriorityOf <- MCPriorityOf
  DefaultQueue = default
  MaxRetries = 2
  Agents = {a1, a2}
  AgentOf <- MCAgentOf
  MaxWorkers = 2
  Hooks = {"pre_execute", "post_execute"}
  Outcomes = {"ok", "raise", "unserializable"}
  MaxOutcomes = 1
  MaxCrashes = 2
  MaxFaults = 1
INVARIANTS TypeOK TaskPlacement AwaitedWork CompletedIsDurable
PROPERTY UsesScheduler
