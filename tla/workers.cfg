SPECIFICATION MCSpec
CONSTANTS
  Focus = {"alerts", "telemetry"}
  MaxRows = 3
  MaxPruned = 1
  BatchSize = 2
  MaxBacklog = 2
  Windows <- MCWindows
  Caps <- MCCaps
  WarnPct = 50
  MaxSpend = 1
  MaxCommands = 1
CHECK_DEADLOCK FALSE
INVARIANTS
  NoSecondAlert
  AckedWasAccepted
  SettledIsNotResent
PROPERTIES
  CrossedIsTold
  ImplementsFeed
  EverythingSettles
