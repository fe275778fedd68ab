SPECIFICATION Spec
CONSTANTS
  Call = {c1, c2}
  Direct = {d1}
  Agent = {a1, a2}
  NoAgent = NoAgent
  MaxTime = 1
  Cutoffs <- MCCutoffs
  Day <- MCDay
  Slot <- MCDay
  MaxAgents = 1
  MaxAttempts = 2
INVARIANTS
  WindowsCoherent
  BaselineCoherent
