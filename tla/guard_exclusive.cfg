SPECIFICATION ServeSpec
CONSTANTS
  c1 = c1
  c2 = c2
  c3 = c3
  a1 = a1
  a2 = a2
  daily = daily
  monthly = monthly
  allotted = allotted
  burst = burst
  fanout = fanout
  Call = {c1, c2, c3}
  Agent = {a1}
  LocalCap = {daily}
  ExternalCap = {}
  Fuse = {burst}
  Fanout = fanout
  Rank <- MCRank
  Since <- MCSince
  Day <- MCDay
  NoDay = NoDay
  Cooldown = 1
  MaxTime = 1
  Limit = {0, 3}
  InitLimits <- MCExclusiveLimits
  Estimate <- MCExclusiveEstimates
  Cost = {0, 1}
SYMMETRY Symmetry
CHECK_DEADLOCK FALSE
INVARIANT UnboundedExclusive
