-------------------------------- MODULE Services --------------------------------
(* The services around the guard that share nothing with it but the ledger and *)
(* the settings: routing of downshifts, signed identity, reconciliation of     *)
(* invoices, metering of responses, the scan of Codex's rollouts, fuse         *)
(* controls.  They share no step either: each has behaviors of its own, and a  *)
(* property is one of its service's behaviors.                                 *)
EXTENDS Integers

CONSTANTS
  \* routing
  Config, Client, Shape, Price, Pct, Operator, Router, MaxShiftRows, MaxSims, MaxAudit,
  \* identity
  SignedRequest, Project, Grant, Verifier, MaxTTL, MaxSkew, LastTime, MaxClaims, NoGrant, NoClaim,
  \* invoices
  InvoiceFile, Preset, Overlay, InvoiceId, Entry, Days, MaxMicros, MaxBooked, MaxImports,
  \* metering
  Version, List, File, Request, Input, Served, Hosted, Final, MaxOut, MaxTools, Fee,
  \* rollouts
  MaxFiles, MaxUses, MaxFaults, ScanFiles,
  \* fuses
  Hour, Day, MaxCooldown, DefaultCooldown, MaxFanout, Change, InitRules, Median, Ask, FuseCost,
  MaxTime, MaxChecks, MaxCommands, MaxLive

VARIABLES
  shiftRows, sims, stored, active, audit, command, routed,
  timing, grant, owned, claims, nonces, handler, accepted, reused, latch,
  ledger, imports, answer, report,
  table, req, admission, work, tracker, stage, metered,
  files, uses, faults, scan, scanned,
  clock, usd, calls, median, setting, marks, live, guard, checks, denied, told,
  silent, forgotten, job, commands, ended

-----------------------------------------------------------------------------
Routing == INSTANCE DownshiftRouting WITH
  Handler <- Router, MaxRows <- MaxShiftRows, ledger <- shiftRows, flight <- routed

Identity == INSTANCE SignedIdentity WITH
  Request <- SignedRequest, Handler <- Verifier, MaxTime <- LastTime, clock <- timing

Invoices == INSTANCE Reconciliation WITH
  File <- InvoiceFile, MaxRows <- MaxBooked

Metering == INSTANCE ResponseMetering WITH
  row <- metered

Rollouts == INSTANCE CodexRollouts WITH report <- scanned

Fuses == INSTANCE FuseControls WITH Cost <- FuseCost

ASSUME RoutingConstants == Routing!RoutingAssumption
ASSUME IdentityConstants == Identity!IdentityAssumption
ASSUME InvoiceConstants == Invoices!ReconciliationAssumption
ASSUME MeteringConstants == Metering!MeteringAssumption
ASSUME RolloutsConstants == Rollouts!RolloutsAssumption
ASSUME FuseConstants == Fuses!FuseAssumption

-----------------------------------------------------------------------------
(* The services' properties.                                                   *)

\* No model is replaced on an operator's say-so alone (DownshiftRouting).
ReplacedOnEvidence == Routing!ReplacedOnEvidence

\* The nonce of a claim that is still valid is used once (SignedIdentity).
UsedOnceWhileValid == Identity!UsedOnceWhileValid

\* A project is authenticated only by a grant that lists it (SignedIdentity).
TrustIsGranted == Identity!TrustIsGranted

\* "Already imported" means these very lines are there (Reconciliation).
ReplayIsTheSame == Invoices!ReplayIsTheSame

\* A report says of the books what they hold (Reconciliation).
ReportIsTrue == Invoices!ReportIsTrue

\* A row safe for enforcement costs what the provider charged (ResponseMetering).
SafeRowsPayTheBill == Metering!SafeRowsPayTheBill

\* The reserved bound covers the exact cost (ResponseMetering).
BoundHolds == Metering!BoundHolds

\* Order decides nothing among contracts of the same scope (ResponseMetering).
OrderIsNeutralInScope == Metering!OrderIsNeutralInScope

\* As the comment has it, order never decides anything (ResponseMetering).
ResolutionIgnoresOrder == Metering!ResolutionIgnoresOrder

\* Replayed history is not counted again (CodexRollouts).
NothingCountedTwice == Rollouts!NothingCountedTwice

\* A report without a warning misses nothing (CodexRollouts).
NoWarningNoLoss == Rollouts!NoWarningNoLoss

\* What the guard and the surfaces store can be read back (FuseControls).
GuardIsNeverWedged == Fuses!GuardIsNeverWedged

\* The status foretells the guard (FuseControls).
StatusForetellsTheGuard == Fuses!StatusForetellsTheGuard

\* An incident that stands is told once, and none is silenced (FuseControls).
EachIncidentToldOnce == Fuses!NoIncidentIsSilenced /\ Fuses!StandingTripToldOnce

\* As the README has it, a refused change changed nothing (FuseControls).
RefusedChangesNothing == Fuses!RefusedChangesNothing
=============================================================================
