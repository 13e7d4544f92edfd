SPECIFICATION FairSpec
CONSTANTS
  a = a
  b = b
  urgent = urgent
  other = other
  default = default
  slow = slow
  Tasks = {a, b, urgent, other}
  Queues = {default, slow}
  QueueOf <- MCQueueOf
  PriorityOf <- MCPriorityOf
  DefaultQueue = default
  MaxRetries = 1
  Delays = {1, 2}
  MaxTime = 2
INVARIANTS TypeOK OnePlace StampsDistinct RetryBudget
PROPERTIES LateArrivalsGoBehind NoOvertaking DelayedTaskIsPromoted
