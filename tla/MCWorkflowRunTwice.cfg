CONSTANTS
  a1 = a1
  a2 = a2
  r1 = r1
  r2 = r2
  N = 3
  HandlerSteps = {2}
  Runs = {r1, r2}
  Agents = {a1, a2}
  AgentOf <- MCAgentOf
  HandlerOutcomes = {"ok", "raise", "unserializable"}
  MaxRetries = 0
  MaxCrashes = 2
SPECIFICATION Spec
INVARIANT OneRunAtATime
CHECK_DEADLOCK FALSE
