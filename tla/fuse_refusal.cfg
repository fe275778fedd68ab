SPECIFICATION Spec
CONSTANTS
  Focus = {"fuses"}
  q = q
  o = o
  h0 = h0
  h1 = h1
  h2 = h2
  NoGrant = NoGrant
  NoClaim = NoClaim
  Config <- MCConfig
  Client <- MCClient
  Shape <- MCShape
  Price <- MCPrice
  Pct <- MCPct
  Operator <- MCOperator
  Router <- MCRouter
  MaxShiftRows = 2
  MaxSims = 2
  MaxAudit = 2
  SignedRequest <- MCSignedRequest
  Project = {"p"}
  Grant <- MCGrant
  Verifier <- MCVerifier
  MaxTTL = 1
  MaxSkew = 1
  LastTime = 2
  MaxClaims = 2
  InvoiceFile <- MCInvoiceFile
  Preset <- MCPreset
  Overlay <- MCOverlay
  InvoiceId <- MCInvoiceId
  Entry <- MCEntry
  Days = {1}
  MaxMicros = 3
  MaxBooked = 1
  MaxImports = 2
  Version <- MCVersion
  List <- MCList
  File <- MCFile
  Request <- MCRequest
  Input <- MCInput
  Served <- MCServed
  Hosted = {"search"}
  Final <- MCFinal
  MaxOut = 2
  MaxTools = 1
  Fee = 1000
  MaxFiles = 0
  MaxUses = 0
  MaxFaults = 0
  ScanFiles = 0
  Hour = 2
  Day = 4
  MaxCooldown = 4
  DefaultCooldown = 1
  MaxFanout = 2
  Change <- MCChange
  InitRules <- MCInitRules
  Median = {0, 1}
  Ask <- MCAsk
  FuseCost = {0, 1}
  MaxTime = 1
  MaxChecks = 2
  MaxCommands = 1
  MaxLive = 1
SYMMETRY Twins
CHECK_DEADLOCK FALSE
INVARIANTS
  RefusedChangesNothing
