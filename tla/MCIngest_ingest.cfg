SPECIFICATION FairSpec
CONSTANTS
  first = first
  second = second
  empty = empty
  odd = odd
  graph = graph
  Ingesters = {i1, i2}
  Manifests = {1, 2}
  Records = {first, second, empty, odd}
  Content <- MCContent
  NoWorkflow = NoWorkflow
  WorkflowOf <- MCWorkflow
  Unreadable = {second}
  Limit = 1
  MaxRepeats = 1
  MaxDrifts = 1
  MaxFaults = 1
INVARIANTS TypeOK ConsumedIsLoaded
PROPERTY AllConsumed
CHECK_DEADLOCK FALSE
