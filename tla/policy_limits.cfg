SPECIFICATION MCSpec
CONSTANTS
  Focus = {"engine", "replay"}
  h1 = h1
  h2 = h2
  c1 = c1
  c2 = c2
  c3 = c3
  alice = alice
  bob = bob
  gpt = gpt
  opus = opus
  shared = shared
  perUser = perUser
  house = house
  team = team
  base = base
  tightened = tightened
  elsewhere = elsewhere
  Call = {c1, c2, c3}
  Kind <- MCKinds
  Namespace = {house, team}
  Rule = {shared, perUser}
  Doc = {base, tightened, elsewhere}
  NoDoc = NoDoc
  Policy <- MCPolicy
  Source = {"local", "teams"}
  NoSource = NoSource
  Publishers <- MCPublishers
  Cutoff <- MCCutoff
  MaxTime = 1
  Document <- MCDocument
  Sent <- MCSent
  Replayer = {h1, h2}
  Second = 2
  LastTick = 3
  MaxRows = 3
  MaxBreakdown = 1
SYMMETRY Symmetry
CHECK_DEADLOCK FALSE
INVARIANTS
  CountersExact
  LimitsHold
  UnsureNeverPassScopedRules
  ReplayIsExact
  AdmittedSurvivesReplay
