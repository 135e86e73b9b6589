SPECIFICATION Spec
CONSTANTS
  first = first
  second = second
  empty = empty
  odd = odd
  graph = graph
  Ingesters = {i1}
  Manifests = {1, 2}
  Records = {first, second, empty, odd}
  Content <- MCContent
  NoWorkflow = NoWorkflow
  WorkflowOf <- MCWorkflow
  Unreadable = {second}
  Limit = 2
  MaxRepeats = 0
  MaxDrifts = 1
  MaxFaults = 0
INVARIANT RebuildLosesNothing
CHECK_DEADLOCK FALSE
