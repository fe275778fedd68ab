SPECIFICATION UpkeepSpec
CONSTANTS
  Focus = {"servers"}
  Server = {s1, s2}
  Pruner = {}
  Nobody = nobody
  Ttl <- MCTtl
  Period = 1
  Drain = 2
  Close = 1
  Call = {c1, c2}
  Room = 3
  Bound <- MCBound
  Slots <- MCSlots
  Health = health
INVARIANT SingleWriter
