SPECIFICATION FairSpec
CONSTANTS
  ann = ann
  bob = bob
  LastItem = 4
  Initial = 3
  UserOf <- BobNewest
  PostOf <- MCPost
  Tips = {t1}
  Drainers = {d1, d2}
  NoUser = NoUser
  TipWants = {1, 2, 3}
  BacklogWants = {1, 2, 3}
  Perishable = {3}
  PageSize = 2
  TipPages = 2
  SweepPages = 1
  DryPages = 2
  MaxFaults = 1
INVARIANTS TypeOK ExhaustedIsSwept CaughtUpIsQueued
PROPERTY AllSwept
CHECK_DEADLOCK FALSE
