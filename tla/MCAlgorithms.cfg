CONSTANTS
  MaxRequests = 3
  Window = 3
  MaxOutcomes = 2
  MaxTime = 6
  MaxLength = 5
  BucketSizes = {1, 3}
  MaxSteps = 2
  MaxCalls = 3
  Parts = {"a", "b"}
  MetricNames = {"m", "n"}
SPECIFICATION Spec
INVARIANTS RateIsLimited SeriesRight LocalRunStops EnvironmentReadsBack WaitTellsWhatItSaw AgentCleansUpOnce TimersPair
