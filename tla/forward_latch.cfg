SPECIFICATION UpkeepSpec
CONSTANTS
  Focus = {"requests"}
  Server = {s1}
  Pruner = {p1}
  Nobody = nobody
  Ttl <- MCTtl
  Period = 1
  Drain = 2
  Close = 1
  Call = {c1, c2}
  Room = 4
  Bound <- MCBound
  Slots <- MCSlots
  Health = health
PROPERTY NoUndercountWindow
