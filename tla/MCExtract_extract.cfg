\* Every container's escalation, and a workflow shared again.
SPECIFICATION ExtractSpec
CONSTANTS
  Files <- MCFiles
  HeadWindow = 2
  MaxHead = 8
  TailWindow = 2
  Virtual <- MCVirtual
  CoreInputs <- MCCoreInputs
  Loader = "ckpt_name"
  Graphs <- MCGraphs
INVARIANTS
  ExtractTypeOK
  HeadReach
  VideoReach
  PrefixReparses
  CanonicalDecides
  BindingsAgree
