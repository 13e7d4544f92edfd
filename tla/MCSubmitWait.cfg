CONSTANTS
  MaxRequests = 100
  Window = 300
  Waits = {50, 99, 150}
  Ends = {0, 60, 200}
SPECIFICATION Spec
INVARIANT WaitsForTheResult
\* A wait ends.
CHECK_DEADLOCK FALSE
