SPECIFICATION UpkeepSpec
CONSTANTS
  Focus = {"servers", "requests"}
  Server = {s1}
  Pruner = {p1}
  Nobody = nobody
  Ttl <- MCTtl
  Period = 1
  Drain = 2
  Close = 1
  Call = {c1, c2}
  Room = 3
  Bound <- MCBound
  Slots <- MCSlots
  Health = health
INVARIANTS
  OwnLeaseHonored
  StopsInTime
  NothingLeaks
  CountedIfForwarded
  ForwardedFits
PROPERTIES
  LiveLeaseNotTaken
  ShutdownEnds
  RecoversOnceRepaired
  OnlyProviderHangs
