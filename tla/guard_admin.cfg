SPECIFICATION Spec
CONSTANTS
  c1 = c1
  c2 = c2
  c3 = c3
  a1 = a1
  a2 = a2
  daily = daily
  monthly = monthly
  allotted = allotted
  burst = burst
  fanout = fanout
  Call = {c1, c2}
  Agent = {a1}
  LocalCap = {daily}
  ExternalCap = {}
  Fuse = {}
  Fanout = fanout
  Rank <- MCRank
  Since <- MCSince
  Day <- MCDay
  NoDay = NoDay
  Cooldown = 1
  MaxTime = 1
  Limit = {0, 1}
  InitLimits <- MCAdminLimits
  Estimate <- MCAdminEstimates
  Cost = {0, 2}
SYMMETRY Symmetry
CHECK_DEADLOCK FALSE
INVARIANTS
  WithinGrant
