# Verification of Burnban

Burnban is a local proxy between AI clients and their providers. It meters
every request into a SQLite ledger and refuses what would exceed a cap, a fuse
or a policy; around that it warns, exports, reconciles, reroutes and imports.
This directory holds TLA+ models of the parts that decide and account, the TLC
runs that check them on small instances, and proofs of the properties that
matter most for every instance.

Paths below are relative to the repository (`src/` in `PROJECT.json`).

## 1. Inventory

| Component | State | Operations | Interacts with |
|---|---|---|---|
| **Admission guard** `internal/budget/{budget,fuse}.go` | `Guard`: reserved dollars, per-agent reservations, in-flight count; durable settings: caps, fuses, bans, override, trip | `Admit`, `Settle`, `Release`, `OverrideActive`; `cap`, `ban`, `lift`, `fuse` commands | reads ledger and settings, called by every handler |
| **Warm usage windows** `budget.go`, `store.go` | totals per window start, their revision, per-agent windows, cached baseline; `Store.requestRevision` | `cachedUsagesLocked`, `reconcileUsageCacheLocked`, `baselineMedianLocked`, `Settle`; `mutateRequests`, `Insert`, `PruneBatch` | guard and any other user of the same `Store` |
| **Policy engine** `internal/policy`, `store/policy.go` | pending counters and concurrency slots by (namespace, rule); durable: active document, owners, accepted decision rows | `Prepare`, `Commit`, `Cancel`, `Release`; `ApplyPolicyDocument`, `ResetPolicyLineage` | called by every handler; documents change from the CLI and connectors |
| **Request pipeline** `internal/proxy/{proxy,downshift}.go` | a handler's position, its reservations; the persistence latch and its probe | `forward`, `prepareTargetPolicy`, `retryDownshiftAfterDenial`, `ensurePersistence`, `probeHealth` | composes policy, guard, ledger, provider |
| **Serve lease, lifecycle, prune** `store.go`, `cmd_serve.go`, `cmd_diagnostics.go` | one `runtime_leases` row; per process: its expiry, renewal ticker, shutdown timer | `AcquireLease`, `Renew`, `Release`; serve, graceful shutdown, the prune loop | several processes on one ledger |
| **Webhook alerts** `proxy.go`, `budget.go`, `cmd_alert.go`, `cmd_budget.go` | in-flight claims, a pending warning check; durable marks | `alertCapReached`, `maybeWarn`, `WarnStatus`, `queueWebhook`, `ClearMarks`; `alert`, `cap` | settlements, denials, operators, a webhook receiver |
| **Telemetry worker** `internal/telemetry`, `store/telemetry.go` | two signal cursors, counters, one checkpoint setting | `DrainOnce`, `Export`, `saveCheckpoint`, `loadCheckpoint` | ledger, an OTLP collector |
| **Downshift routing** `internal/downshift`, `proxy/downshift.go`, `store/downshift.go` | active configuration, simulations, audit | simulate, apply, disable; plan, retry after denial, record | operators, pipeline, ledger |
| **Signed identity** `internal/identity`, `proxy.go`, `store.go` | trust grant; nonce table | verify, `ConsumeIdentityNonce`, attribute | handlers, devices, an external sync client |
| **Pricing and metering** `internal/pricing`, `internal/meter`, `proxy.go` | contracts of a file; one tracker per response | `validateContracts`, resolve; `estimateRequestAt`, trackers, cost, unsafe flag | pipeline, provider |
| **Fuse settings and status** `budget/fuse.go`, `cmd_fuse.go`, `web/api.go` | rules, trip, incident marks | `fuse`, `/api/admin/fuse`, `tripFuseLocked`, `FuseStatus` | guard, operators, webhook |
| **Policy replay** `policy/simulate.go`, `cmd_policy.go` | none; reads the ledger | `Simulate` | policy engine, operators |
| **Invoice reconciliation** `internal/reconcile`, `store/reconciliation.go` | imports with lines and adjustments | import, report | operators, ledger |
| **Local usage scan** `internal/localusage/localusage.go` | none between scans | `scanCodex` | Codex's rollout files |
| Other usage adapters, schema, reports, dashboard, MCP, desktop, what-if, optimize, export, approval client | ledger snapshots | queries and presentation | operator |

What is hard here:

* **Concurrency.** Every request is a goroutine. The dollar decision is under a
  mutex, but it depends on a clock reading taken before the body was received,
  on a ledger that other users of the same `Store` change, and on settings
  other processes change. Between two lock regions of one request any other
  request may do anything.
* **Failure.** A row may not be stored, a policy decision may not be stored, a
  cancellation may not be stored, and the process may die. Reservations are in
  memory, rows on disk.
* **Ordering.** Policy before guard, commit after guard, downshift between
  them, deferred releases in reverse order; each early return must undo exactly
  what was done before it.
* **Timeouts.** Leases expire while their owner sleeps; a shutdown has ten
  seconds; a tripped fuse has a cooldown; windows begin and end; claims live
  for seconds on clocks that differ.
* **Delivery.** Webhooks and exports may be refused, answered late or accepted
  and not recorded; what was told and what is remembered as told drift apart.
* **Evidence.** Several decisions rest on something computed earlier or by other
  code: a simulation behind a configuration, a replay behind a policy, a status
  behind an operator's action, an estimate behind a settled price. Each may
  disagree with what it stands for.

What makes each part correct, in a sentence: the guard never lets reservations
and ledger exceed what an admitted call was granted; a warm window says what
the ledger says; the policy's counters are exactly its open reservations, and
its limits hold from evaluation through commit; the pipeline leaks nothing,
hangs nowhere but at the provider, and forwards nothing unaccounted; a lease
with time left is never lost, and who loses one stops; whoever is to be warned
is, once; the exporter settles every row; no model is replaced without
evidence; a nonce is used once; rows that enforcement relies on cost what the
provider charged; what one surface stores every other reads.

The hazards are listed line by line in `PROJECT.json` with the properties that
cover them, or the reason none does.

## 2. Modules

```
Sums                sums over finite sets of calls
BudgetGuard         guard, reservations, ledger totals, settings, operators
UsageCache          warm windows, sequence lock, baseline, direct mutations
PolicyEngine        evaluation, pending/slots, commit/cancel, documents
ProxyForward        one request end to end, the latch, the probe
ServeLease          lease, server life cycle, prune, suspension and crash
WebhookAlerts       checks, claims, deliveries, marks, commands in writes
SignalFeed          what an exporter promises (abstract)
TelemetryWorker     batches, signals, checkpoint; implements SignalFeed
DownshiftDecision   configurations, analysis, decision (operators)
DownshiftRouting    simulate, apply, disable; plan, retry, record
SignedIdentity      grants, claims, clocks, nonces, attribution
PolicyReplay        admissions of a policy and their replay
PricingLayers       contracts, selectors, layers, cost (operators)
ResponseMetering    a call from its bound to its settled row
FuseControls        fuse settings, trips, marks, status on every surface
Reconciliation      invoice imports and reports
CodexRollouts       rollout files and the scan of them
Policies            PolicyEngine and PolicyReplay          }
Upkeep              ServeLease and ProxyForward            } the parts of
Workers             WebhookAlerts and TelemetryWorker      } a deployment,
Services            routing, identity, invoices, metering, } composed
                    rollouts, fuse settings                }
SumTheorems         lemmas about sums         } checked
BudgetGuardProofs   theorems of BudgetGuard   } by
UsageCacheProofs    of UsageCache             } TLAPS
PoliciesProofs      of both parts of Policies }
UpkeepProofs        of both parts of Upkeep   }
WorkersProofs       of both parts of Workers  }
ServicesProofs      of the parts of Services  }
RolloutsProofs      of its rollouts           }
MC*                 small instances for TLC
```

The models meet at named interfaces instead of one product that no checker
could explore. `ProxyForward` is the caller of guard and policy: it uses the
guard through "does it fit, hold, give back" and the policy through "take a
slot, commit, cancel", and it establishes the call order that `PolicyEngine`
and `BudgetGuard` leave free. `BudgetGuard` reads the ledger directly;
`UsageCache` shows that the warm windows it reads in the code say the same.
`ServeLease` is about what all of these presuppose: one process per ledger.
`SignedIdentity` says when an identity is one that `PolicyEngine` calls vouched
for; `ResponseMetering` says where `BudgetGuard`'s estimate, cost and unsafe
flag come from; `FuseControls` how its fuse settings and trips come to be.

`Upkeep`, `Workers` and `Services` compose parts that share nothing but a ledger
which each of them sees as rows that come and go. A behavior of `Upkeep` or
`Workers` explores one of its parts, the `focus`, while the other stays in one
initial state; their temporal properties and fairness are stated of the focus.
`Services` gives its parts their variables and constants; `MCServices` picks one
of the six per behavior, and `MCPolicyEngine` the engine
or the replay of its policies. A run is thus the union of the instances, not their product, and a theorem is about the part's
own specification (`Metering!Spec`, `Fuses!Spec`), which the runs instantiate.

### BudgetGuard

`Call` is a handler: idle, arrived (clock captured, estimate made), admitted,
done. A *rail* is anything that can refuse a call for lack of room: local and
external calendar caps, rolling dollar fuses, the fan-out fuse, one agent's
daily cap. `Since[g][t]` is the window start that rail `g` computes from a
reading `t` (`DayStart`, `MonthStart`, UTC variants, fuse windows).

| Model | Code |
|---|---|
| `reservedUSD`, `reservedByAgent`, `inFlight` | `Guard.reservedUSD/reservedByAgent/inFlight` |
| `amount`, `grant`, `phase` | `Reservation.amount`, the limits of its admission, its liveness |
| `ledger`, `cost`, `gaps` | request rows, their cost, rows flagged `EnforcementUnsafe` |
| `limit`, `bans`, `override`, `tripUntil` | settings |
| `AdmitReserves`, `AdmitRefuses`, `AdmitErrs`, `AdmitTrips` | the outcomes of `Guard.Admit` |
| `Settle`, `SettleFails`, `Release` | `Reservation.Settle`, its error path, the deferred `Release` |
| `SetLimit`, `Ban`, `Lift`, `FuseReset`, `FuseOff` | the commands |
| `Restart` | a process death: memory gone, ledger and settings kept |

`heldAt` and `durableAt` are history: which calls were held and durable when a
call was admitted. The sums of reservations are the fields of the code
(subtraction floored at zero, `Monus`), not recomputed.

Abstracted: money is a natural number of units (the code's floats and its
epsilon are not modelled); which of several overrun rails names the denial is
kept through `Rank`. The baseline fuse has the shape of a rolling dollar fuse;
its cached history is in `UsageCache`.

### UsageCache

A usage total is the *set of rows* it counts, so a stale, a double and a lost
row are all visible. An admission is a sequence of steps under the guard's
lock: read revision, scan each missing window, publish if the revision is still
the same and even, else retry, else fail closed. A settlement reads the
revision, inserts (revision odd, transaction, revision even), reads it again
and keeps the windows only if its own insert is all that happened. `Direct`
mutations insert and prune through the same `Store` without the guard's lock.
The module assumes at least one global window is configured and leaves the
baseline's configuration constant; agents' caps come and go.

### PolicyEngine

A rule has selectors (`who`), denials, request and amount limits per window and
a concurrency limit; a document has a namespace, a revision and rules. Counters
are keyed by (namespace, rule) as in `counterKey`. `pending` and `inFlight` are
the engine's maps; `accepted` the durable rows `PolicyRuleUsageSince` counts.
Documents are applied (with the stale-revision, digest and owner refusals),
retired by lineage reset, and replaced while reservations of the former one
are open. Abstracted: JSON parsing, wildcard matching, the explanation text.

### ProxyForward

A handler's `pc` follows `forward` from the latch check to the deferred
releases. `body`/`retarget` evaluate the policy for the source or the target
route; a downshift cancels the source's reservation first
(`prepareTargetPolicy`) and happens by plan or after a denial. Every early
return is an action, including those whose cancellation cannot be stored.
`disk` fails and recovers at any time. The probe is its three lock regions:
take `probeMu`, write, report, so that it reports what was true when it wrote.
`doubt` is history: calls the provider has seen that are neither booked nor
reserved since the last successful probe.

### ServeLease

All clocks are remaining ticks of 5 s: `row.left` (the row's `expires_at`),
`mine` (`Lease.expiresAt`), `wait` (renewal ticker), `timer` (shutdown context
or deferred calls). An awake process does what is due before time goes on; a
suspended one does nothing while the row's clock runs; on waking, its timers
fire at once (stopped process) or have what they had left (suspended machine).
A prune batch may take any time. `windows` abstracts the guard's cache of each
process: a write by one makes the other's warm windows stale, since
`RequestRevision` counts one `Store` instance.

### WebhookAlerts

A mark is a kind and a window, as its settings key is. `job[m]` is the claim
`queueWebhook` holds in memory: posting, then recording. A denial asks at once;
a settlement schedules a check unless one is pending (`maybeWarn`), and a check
reports the most burned window that is not marked. `cap` and `alert --off` are
sequences of writes of which any may fail. `acked` is history: acknowledged by
the receiver since the mark was last armed.

### TelemetryWorker and SignalFeed

`pc` follows `DrainOnce`: drop what exceeds the backlog, read a batch after the
lagging cursor, export each wanted signal (accepted, refused for good, busy, no
answer), save both cursors in one setting. `memory` is the worker's checkpoint,
`setting` the stored one. `SignalFeed` is the promise: per signal, a cursor that
never goes back and never passes a row that was neither answered for nor
recorded as dropped. `ImplementsFeed` is the refinement, with the stored
cursors as the feed's.

### DownshiftDecision and DownshiftRouting

A request is the features the analysis extracts of it (shape, operation,
bounds, tools, thinking, format, parts). `Compatible`, `Decide` and `Plan` are
the code's refusals, in its order. A configuration stands for its digest.
Operators simulate over the ledger, then apply in a transaction that looks at
the simulation again; handlers keep the configuration they were planned under
through a guard's denial and its retry.

### SignedIdentity

Claims carry key, request digest, project, nonce and times. A handler notes the
time first and uses it throughout: grant, verification with skew, nonce
consumption without. Pruning of nonces is part of the consuming transaction, by
the handler's time, which is why two handlers with different readings matter.

### PolicyReplay

Handlers prepare with a sub-second clock and book in any order; `Simulate` sorts
the rows and walks them with one cursor per limit and prefix sums over what was
let through, `Memory` being what it holds after each sample. `Expected` is the
definition by plain sums over each window. What a document may hold and what a
call is, is `ReplayAssumption`. `Policies` puts it beside `PolicyEngine`; the two
share nothing in memory (the replay is a command of its own).

### PricingLayers and ResponseMetering

A model name is a sequence of parts, so prefix and version matching are what the
code does. Three layers: a final amount, the most specific contract, the public
list. `ResponseMetering` has the provider produce work and bill it, cut, repeat
or omit what it reports, and follows the trackers of three dialects to the row.

### FuseControls

Settings are sets of at most one value. The command line validates everything
and then writes; the dashboard validates and writes field by field. The guard
reads all settings at once, decides, and writes the trip in two writes; denied
handlers announce an incident under its own mark. The status is computed by
its own code from the same settings.

### Reconciliation

A file is a sequence of records of columns; a mapping names columns. An import is
one transaction; one that meets an existing invoice compares digests,
mapping and then the lines. A report is four queries, each its own step.

### CodexRollouts

Codex (external) writes running totals to rollout files, starts them again, forks
sessions with a copied history and copies files. A crash tears a line, that of a
use (`Lose`: the use is then told with the next one, or with none) or another
(`Spoil`). A scan lists, reads one by one while Codex goes on writing, resolves
parents and counts. A running total is the set of the uses it adds up, so an
event of the report is the set of the uses it counts and where it was read: two
events that share a use count it twice. A total that begins again may have some
counter below the one before, or none (`above`); the scan takes the latter for
growth, and the event's counters are then not those of its uses (`whole`).

## 3. Runs

| Run | Instance | Shows |
|---|---|---|
| `guard_serve` | 3 handlers, 2 agents, one rail of each kind, fixed settings, day change, crash | `ReservationsExact`, `WithinGrant`, `SecondUnboundedNeedsRefund`, `CooldownNeverShortened` |
| `guard_admin` | 2 handlers, daily cap, agent cap, fan-out fuse, every operator command | `WithinGrant` under reconfiguration |
| `guard_exclusive` *(violation)* | 3 handlers, one cap | `UnboundedExclusive`: see findings |
| `cache_coherent` | 2 handlers, 1 direct mutator, 2 agents, room for 1 agent window, 2 attempts | warm windows and the cached baseline are the ledger's; agents' windows bounded |
| `policy_limits` | engine: 3 handlers, 3 documents, 2 namespaces that share a rule name; replay: 4 documents (counts, tokens with a fixed and a rolling limit, slots, a fixed window of a second and a half), 2 calls, 2 handlers, 3 rows, half seconds | counters exact, limits and concurrency hold, unvouched identities do not evade; `ReplayIsExact`, `AdmittedSurvivesReplay` |
| `upkeep` | a server and a prune; 2 handlers, 2 routes (2 slots and 1), room for one source and one target call | leases honored, servers stop in time, shutdowns end; nothing leaks, windows count what is forwarded, the latch clears, only the provider can hang |
| `forward_latch` *(violation)* | the handlers of `upkeep`, more room | `NoUndercountWindow`: see findings |
| `lease_writer` *(violation)* | 2 servers | `SingleWriter`: see findings |
| `workers` | 2 windows and one operator command; 3 rows, batches of 2, backlog of 2, one prune | no second alert, every crossing told; acknowledged means accepted, settled is not resent, the feed is implemented, everything settles |
| `services` | six services, one at a time (below) | thirteen invariants, one or more per service |
| `pricing_order` *(violation)* | the contract files of `services` | `ResolutionIgnoresOrder`: see findings |
| `fuse_refusal` *(violation)* | the fuse settings of `services` | `RefusedChangesNothing`: see findings |

`services` in detail:

| Service | Instance | Invariants |
|---|---|---|
| routing | 2 revisions (scoped, unscoped), 4 clients, 1 operator, 1 handler, 2 rows, 2 simulations | `ReplacedOnEvidence` |
| identity | 2 handlers on clocks a tick apart, 2 grants, 2 claims of one request | `UsedOnceWhileValid`, `TrustIsGranted` |
| invoices | 2 files, 2 mappings, 2 invoice names, 3 ledger rows of which one is inserted, 2 imports | `ReplayIsTheSame`, `ReportIsTrue` |
| metering | 4 contract files, 3 dialects, streamed or not, 3 inputs around the long-context threshold, 3 served labels, 2 units of output, a tool that lets the provider bill without bound and one that is not on that list | `SafeRowsPayTheBill`, `BoundHolds`, `OrderIsNeutralInScope` |
| rollouts | 3 files, 2 uses, 1 fault, 2 files read by a scan | `NothingCountedTwice`, `NoWarningNoLoss` |
| fuses | 4 initial rule sets, one of them empty, 4 changes (bounds met and missed), both surfaces, 2 checks, 1 live call | `GuardIsNeverWedged`, `StatusForetellsTheGuard`, `EachIncidentToldOnce` |

### Bounds

All are named in the `.cfg` files and the MC modules.

* Two or three handlers. Races of the guard and the policy are between one call
  and what was held when it was admitted; a third handler gives the refund that
  `SecondUnboundedNeedsRefund` speaks of and the successor of a successor.
* `MaxTime = 1` in guard, cache and policy: one change of day is enough for a
  stale reading on either side. The monthly window never ends and the fuses look
  one tick back, so every pair of window shapes meets.
* Limits of 1 to 4 units and calls of 0 to 2: a call fits alone, exactly, or
  not beside another, and a provider may charge more than the estimate.
* `MaxAgents = 1`, `MaxAttempts = 2`: eviction and failing closed both happen.
* One server and one prune in `upkeep`, two servers in `lease_writer`: the
  liveness properties are stated of one shutdown, and the safety of the lease
  for any number of processes is proved (section 4).
* Telemetry: three rows and batches of two give a batch that ends between the
  cursors, a backlog that is dropped while one signal lags, and a pruned row in
  the middle of a batch.
* Alerts: two windows under different caps, or one capped window and one
  command; the check that reports one window and leaves the other needs two.
* Routing needs two rows: one that shows a request, one that is replaced. Two
  simulations and two audit records let an old one be used after a newer.
* Identity: a claim lives one tick and clocks differ by one, so it expires, is
  within the skew, and its nonce is pruned, all in two ticks.
* Replay: windows of one second, which is two ticks, and three rows: rows at,
  before and inside an edge, and one that was blocked.
* Rollouts: three files make a fork of a fork and a fork next to a copy; two
  uses with one fault (a restart, a lost use, a torn, a repeated or an oversized
  line) are the least in which the scan can miss one and count another. Faults
  happen before a scan starts, files grow at any time. Random behaviors of five
  files, five uses and three faults were explored as well, and the proofs have no
  bound.
* Handlers are interchangeable in the guard and policy runs and in `services`;
  those runs use symmetry and check no liveness.
* `CHECK_DEADLOCK FALSE` where handlers handle one request each, or rows,
  commands and files are bounded, and the system may come to rest.

Every property of a passing run has a mutant in `PROJECT.json`: a plausible
bug of the mapped code under which the run fails. Besides these the modules
carry a typing predicate, `TypeOK`; those of `BudgetGuard`, `ServeLease`,
`TelemetryWorker` and `PolicyEngine` are what their proofs rest on.

### What the properties leave out

Each exception is a conjunct of the property and is what the code does:

* `SafeRowsPayTheBill` excepts failed responses without usage, a Gemini stream
  that ended in order without its last chunk (`EndsUnseen`), and hosted tools
  that a dialect's usage does not report (`ToolUnreported`).
* `BoundHolds` speaks of prices whose dearest input is a write kept for an hour
  (`HourCostsMost`): the admission bounds the input by plain tokens and by such
  writes only. The public list is of that kind (reads at most 0.25, writes at
  most 1.25 times the input), a price `validateModels` accepts need not be. It
  also presupposes that a long context costs no less than a short one, which
  whole multipliers in the model give and `validateModels` does not ask for.
* `EachIncidentToldOnce` speaks of a trip for as long as it is live: one that has
  run out is not announced any more, by whoever comes late.
* `NothingCountedTwice` excepts a fork of a fork at one instant (`InstantFork`):
  the child's cut of its parent's records falls before the parent's own. It
  excepts copies in a report that warns, which may take an old copy of a parent
  for the parent, and, when only a window is scanned, a copy in the window that
  lacks what its session had before (`Outdated`): the scan reads the copy, not
  the original outside the window, and a fork that replays more than the copy
  has counts that history again. TLC shows it with four files; no warning is given.
  A use from before the window is counted if its line was torn and the next total
  told it inside the window (`Lost`).
* `NoWarningNoLoss` names the two losses that the code does not warn of. `Untold`:
  a use whose line was torn in a file that had told nothing, since the check of
  torn files (`localusage.go:550`) is for files with usage only. `Overtaken`: a
  total that began again and is not below the one before in any counter is taken
  for its growth (`localusage.go:616-619`), so that less is counted than was used.
  Totals that are equal by chance are left out of the model: the code takes the
  second for a repetition of the first.
* `ReportIsTrue` excepts reports an import raced with: the four queries are not
  one snapshot, and `raced` records that an import came between them.
* `AdmittedSurvivesReplay` reads rolling windows a second shorter, as the ledger
  keeps whole seconds, and leaves concurrency out, which a replay reconstructs
  from durations. It also leaves out fixed windows of fractional seconds, which
  `validate` accepts ("1500ms"): the window then starts inside a second, the row
  of the call before it is moved back to, or across, that start by the floor, and
  the replay counts together what the admissions held apart. The document `odd`
  of the run has such a window.
* `NoSecondAlert` permits a second delivery where the first is not on record: a
  record that failed, a crash before it, an operator who arms the mark again.

### Fairness

`ProxyForward` (in `MCUpkeep`) assumes that a handler that can go on does (weak
fairness of its own steps), that the mutex around the probe is handed over to
who waits (strong fairness of taking it: Go's `sync.Mutex` switches to hand-off
for a waiter who starves), that a probe under way goes on, and that somebody
asks `/health` now and then. The last is what makes `RecoversOnceRepaired` hold
without traffic; the code promises recovery to whoever probes, not on its own.
Neither requests nor provider answers are promised: `client.Do` has no overall
timeout, and `OnlyProviderHangs` says that is the only place. `ServeLease`
assumes that time passes, and that a process that is not suspended takes its
steps; calls may hang for ever.

`WebhookAlerts` assumes that deliveries, handlers, checks and commands under way
go on (goroutines and processes do); `CrossedIsTold` assumes in its premise that
failures and restarts stop some day, that the URL stays set and that calls go on
being settled, as only a settlement schedules a check. `TelemetryWorker` assumes
that the worker's ticker fires; `EverythingSettles` assumes in its premise that
the collector and the disk answer from some time on. The other modules check
safety only.

### Findings

* **`UnboundedExclusive`**: the comment on `AdmissionEstimate` says calls
  without an output ceiling are admitted exclusively. `Admit` reserves what room
  is left *now*; when another call's reservation gives some back, a second
  unbounded call is admitted beside the first. `SecondUnboundedNeedsRefund` says
  what does hold.
* **`NoUndercountWindow`**: the latch is looked at before the body is read and
  not again; a handler past it is admitted on a total that misses a forwarded
  call whose row could not be stored. `ForwardedFits` says what does hold.
* **`SingleWriter`**: a server whose renewal failed drains without the lease
  for as long as is left of it, plus the deferred calls; rows it writes then
  are missing from the warm windows of a successor. `StopsInTime` bounds it.
* **`ResolutionIgnoresOrder`**: the comment on `ContractPrice` says equally
  specific overlaps are rejected when a file is loaded. A contract for a region
  and one for a tier are equally specific and both accepted; the first in the
  file prices a call that has both. `OrderIsNeutralInScope` says what does hold.
* **`RefusedChangesNothing`**: the README says the dashboard's control actions
  have the exact semantics of the command line. `applyFuse` validates each field
  after it stored the ones before; the command line validates all of them first.

Seen on the way and not given a run of their own: an agent's warm window of the
day before misses a call that settles after midnight, against the comment on
`Settle` ("updates every warm usage window"; `WindowsCoherent` bounds it); a
claim inside the clock skew but past its expiry is refused by
`ConsumeIdentityNonce` with an error, which sets the persistence latch although
the ledger is well; and a nonce that has been pruned is free again, so "one-time"
in SIGNED_IDENTITY.md holds while the claim can be valid (`UsedOnceWhileValid`);
and "burnban usage" loses two kinds of use without the warning SOURCE_ADAPTERS.md
speaks of (`Untold`, `Overtaken`).

## 4. Proofs

TLAPS checks these for every value of the constants that satisfies the named
assumptions of each module (finite handlers; window starts not after their
reading; what is later than the start of a day is of that day or of a later one;
natural amounts; distinct names; positive lease times).

`BudgetGuardProofs`

* `TypeCorrect`.
* `ReservationsAreExact`: by cases on the actions; each changes one call's
  reservation, and lemmas of `SumTheorems` say how a sum over a finite set
  changes when one member comes, goes, or changes value. Since the counter *is*
  the sum, the floor in `releaseLocked` never acts.
* `SpendStaysWithinGrant`: `WithinGrant` alone is not inductive. The
  strengthening is `GrantInv`: rows are durable only for calls that are done,
  only admitted calls precede an admission, and the counters are exact. At an
  admission, what the guard computed (durable spend of the window plus all
  reservations plus the new amount) bounds the sum `WithinGrant` speaks of; any
  later step can only lower `Covered` of a call that precedes.
* `CooldownHolds`: an action property; a trip is written only by a handler
  whose reading is past the running cooldown, so its end is later.
* `SecondUnboundedIsRefunded`, of `ServeSpec` (no operator acts): the exclusion
  of calls without a ceiling that *does* hold. `CoversHeadroom` says that such a
  call reserved at least what the rows and reservations it was admitted beside
  had left of each calendar cap, `PriorApart` that these are different calls
  whose rows stay. Were nothing given back since, rows and reservations would
  still add up to the limit at the second admission, and the cap would block it
  (`AdmissionNeedsRefund`); what was given back stays so (`GivenBackStays`).

`WorkersProofs`

* `AcknowledgedWasAccepted`, `SettledRowsStaySettled`: neither property is
  inductive. `WorkerInv` adds that memory is what is stored while the worker
  runs; that a batch is a gapless run of rows after the lagging cursor that does
  not straddle the leading one (`Cut`); that a final result stands for the whole
  batch (`ResultsOfBatch`); and that behind its cursor a signal without a failure
  lost only dropped rows (`Healthy`), which is why clearing the failure marks
  where both cursors meet is sound. Lemmas say what `Selected`, `DropThrough`,
  `Dropped` and `Advanced` return; that a bounded set has a greatest element is
  taken from the library's well-foundedness of `<`.
* `WorkerImplementsFeed`: the refinement of `SignalFeed`. A drop and a save are
  its `Advance`, a final answer its `Answers`, inserts and prunes its
  `LedgerChanges`; every other step, a restart included, is a stutter.
* `AlertsAreSentOnce` (of `Alerts!Spec`): what the receiver acknowledged since a
  mark was last armed is on record, or its delivery is still about to record
  it (`AckedIsMarked`), so nobody may claim it again. The steps that break that
  are the ones the property excepts, and each clears `acked`.

`PoliciesProofs`

Of `PolicyEngine`:

* `PolicyTypeCorrect`.
* `CountersAreExact`: pending counters and slots are the open reservations that
  name them, so that giving back never goes below zero nor to another lineage.
  The type invariant suffices, as both sides are read off the same phases.
* `ScopedRulesHold`: inductive with the type invariant; what an evaluation saw of
  the caller's vouched identity is not looked at again.
* `LimitsAreHeld`: `LimitsHold` is not inductive. `Bookkeeping` adds that the
  counters are exact, that who precedes an evaluation has its own evaluation
  behind it (`PriorSettled`), that ledger rows are of the rules their request
  counts and stay so (`AcceptedCounts`), and that reservations name rules of
  their document (`RulesKnown`). `StandingWasUsed` then says that whatever
  stands against an admitted request was in what its evaluation found used, so
  the evaluation's own test bounds it (`PreparedFits`, `PreparedHasSlots`), and
  `LimitsShrink` that every other step only takes away from that.

Of `Replay!Spec`, under `ReplayAssumption`:

* `ReplaysAreExact`: whatever the rows are, so no step of the admissions matters
  but that rows have their type. `Placed` and `ReadInOrder` show that `InOrder` is
  a sequence sorted by time with every row once. `MemoryRuns` and `BreakdownsRun`
  unfold the recursive functions, and two inductions over the samples follow, by
  `NatStep` of `SumTheorems`. `HistoryGrows` says of each rule that its history is
  the samples let through that it applies to, in order, each with the sum of all
  up to it; that a cursor is past every event before the window of the samples
  seen and past none in a window to come; and that the pruned ends are those still
  running. That a cursor waits while calls have no bound is harmless
  because samples are sorted, so a window never moves back. `BreakdownListing`
  counts each value once it is listed, and shows that `limited` is set exactly
  when something is not.
* `ReplayInductive`, `AdmittedSurvives`: the engine's windows are summed when a
  handler prepares, by a clock it read when it came in, so calls are admitted in
  another order than their times. `AdmittedSurvivesReplay` is not inductive;
  `ReplayInv` adds that each row has its admission and each admission its row or
  its handler (`AdmissionsKept`), and `OneFits`: of any set of admissions, one
  fits on top of all the others in its window, namely the one prepared last.
  If the replay blocked some sample first, the samples it counted against it
  are admissions, all of them in the window of each (`StillInWindow`, where the
  second of the shorter window goes); one of them would not have been admitted.

`UsageCacheProofs`

* `WarmWindowsAreCoherent`, `CachedBaselineIsCoherent`: neither property is
  inductive, since both speak only while the guard may trust its memory, and a
  single untrusted step could leave anything behind. `CacheInv` says what holds
  in between. `Turns` ties the parity of the revision to the ledger's mutex and
  the phases of a handler to the guard's; `Readings` and `Revisions` relate the
  revision to what a handler and the caches remember of it. `WindowsRight` and
  `BaselineRight` say that the caches, and scans not yet published, are right at
  the revision they carry until the next commit, and that after a settlement
  that alone moved the revision they lack just its own row, which
  `reconcileUsageCacheLocked` then adds. A kept baseline is right because the
  row settled lies in a slot not before the one the history ends with.
  `AgentsBounded` holds the count of agent windows apart from the map.

`UpkeepProofs`

Of the lease's `Spec`:

* `LeaseTypeCorrect`, which includes that renewals run only while a server
  serves or drains.
* `LeasesAreHonored`: `OwnLeaseHonored` is inductive with the type invariant.
  Its strength is the equality `row.left = mine[p]`: a row that can be
  acquired leaves nobody any time, a row that can be renewed nobody else.
* `LiveLeasesAreNotTaken`: the action property, case by case.
* `ServersStopInTime`: the strengthening `AllInTime` trades the ticks a server
  has run astray against the timer of its phase, and says that a server that
  lost the row has it back only by starting again.

Of `Requests!Spec`, under `RequestsAssumption`:

* `ForwardInvariant`: `ForwardInv` says with `Has` what a handler holds at each
  place (its policy slot from the plan until it leaves, its reservation from the
  guard until a row replaces it), that only a handler that waits for a probe
  makes one, and that neither slots nor room are overdrawn. The step from
  reservation to row moves an amount within the room and never adds one.
* `NothingIsLeaked`, `ForwardedIsCounted`, `ForwardedStaysWithinRoom` follow
  from it, for any handlers, routes, bounds, slots and room, whichever step the
  ledger fails at.

`ServicesProofs` (of each part's `Spec`, under the assumption `Services` names for
it; the runs evaluate all of them)

* `NoncesAreUsedOnce`: `Remembered` says that the table knows the nonce of an
  accepted claim for as long as the claim stands by the clock. It survives the
  deletion of rows because whoever deletes does so by a time it noted before,
  and such a time is past (`NotesArePast`); that nonces belong to one claim each
  is `Numbered`.
* `TrustComesFromGrants`: what was checked of a claim stays with the handler
  until it is attributed (`Checked`). `Moves` says what a step of a handler
  leaves it with.
* `ReplaysAreTheSame`: an answer "already imported" was given on the very
  comparison the property repeats, and imports are only added.
* `ReportsAreTrue`: `ReportInv` says after each of the four queries what the
  report holds of the books as long as no import came between (`ReportFollows`);
  rows that arrive meanwhile are not in it. The books stay finite
  (`BooksAreFinite`). Usage lines and adjustments split the lines of the window
  (`WindowSplits`), and as `Worst` takes the weakest level of all buckets, a high
  one means no doubt on either side (`HighIsSure`). Credits are negative, so a
  total is the net of two sums of naturals (`Sum`).
* `ModelsAreReplacedOnEvidence`: `RoutingInv` carries the evidence from the ledger
  to the row that relies on it: what a simulation counted as eligible a row
  shows (`SimsShow`), what was applied unforced was shown (`AppliedWhenShown`),
  what is active or planned was applied (`FollowedWasApplied`), and rows and
  audit only grow.
* `IncidentsAreToldOnce`: `IncidentInv` relates the marks, what was told and what
  each admission is in the middle of (`AdmissionInv`): a mark stands for something told
  (`MarksAreTold`), a standing trip that was told is marked (`StandingIsMarked`).
  The attempt found the property too strong as first stated: a trip that has
  run out may be told of by nobody, so it now asks about live trips.
* `ControlsAreReadable`: `ControlsInv` says of every writer, in the middle of its
  writes too, that what it holds and what is stored parses. The trip is the
  hard part: its limit comes from rules, medians and floors, and must be one
  `parseFuseTrip` accepts.
* `StatusForetells`: with that, by lemmas that the status and the guard compute
  the same limits (`StatusShowsFull`, `StatusShowsFanout` and those before
  them) although by different code.
* `OrderDecidesNothingInScope`: the winner of a file is a match of greatest
  specificity, and two of the same scope that match one call have selectors
  that overlap (`MatchersOverlap`), which a loaded file excludes
  (`OneContractInScope`).
* `SafeRowsPay` and `BoundsCover`, from one invariant, `MeteringInv`. Neither
  property says anything before the row is written, so `MeterFollows` says what
  the meter knows while the response streams: never more than the provider did,
  and all of it once the frame that closes the dialect (`Closing`) was counted
  in range. `Reserved` keeps the estimate of the admission. `ExactRow`,
  `RowShape` and `ExactRowPays` then follow the row through `Completed`, `Labels`
  and `Row` to the bill; `CostIsBounded` compares costs on both sides of the
  long-context threshold, over any split of the body (`HourCovers`). The attempt
  showed that the bound needs `HourCostsMost`; TLC gives the counterexample at a
  write rate of 25 times the input, which `validateModels` lets pass.

`RolloutsProofs` (of `Rollouts!Spec`, under `RolloutsAssumption`)

* `RolloutsAreCountedOnce`, `RolloutsLoseNothing`, from one invariant,
  `RolloutsInv`, which has both promises as conjuncts, as a finished report is not
  looked at again. `FilesInv` says what the files tell: totals that grow by a use
  each (`Grown`); a running total that goes on from the last told or began again,
  with lost uses newer than both (`Ahead`); after what was replayed at the fork,
  uses of the session's own, each told for the first time, now or lost before
  (`Own`, `Replayed`); an original for every fork, which was there before it
  (`Forked`); one parent and one start per session; and every use told by some
  file, or lost there with a torn line (`UsesAreTold`). `ScanInv` says what a scan
  under way has seen of the files there were when it listed them (`Seen`): of each
  it read, a beginning, and all that was told and torn by then unless it warned.
* Codex writes while a file is read, so every step of Codex must leave a scan
  what it has seen. `Onward` is all the scan needs to know of such a step (files
  and uses are added, and a history grows by uses of its own, told now; `Calm`:
  what tears a line comes before the scan), and
  `ScanStays` is proved once from it; `WritesKeep` and `CreatesKeep` do the same for
  `FilesInv`.
* `CountedOnce`: `ParentHas` shows that the rollout a scan takes for the parent of
  one it counts has what the parent told before the fork, `SkipCovers` that what
  is then skipped is at least what was replayed. What is left is the session's
  own, and as one rollout stands for a session (`CanonicalIsOne`), two events are
  of different uses. `NothingLost`: a use of the window was told by a file of its
  session; without a warning that was read and stands for it, or agrees with the
  one that does, and no skip reaches the use, since what is skipped has a total of
  the parent's and those are of older sessions only. `LostInSilence`: a use that
  was lost with its line makes the scan warn, unless its file had told nothing.
* Before the proofs TLC found the exception `Outdated` on four files, and `Untold`
  and `Overtaken` on three (section 3).

Only model-checked:

* liveness (`ShutdownEnds`, `RecoversOnceRepaired`, `OnlyProviderHangs`,
  `CrossedIsTold`, `EverythingSettles`): TLAPS has no `ENABLED`.

The library's induction theorems take an operator as a parameter and cannot be
used here; `NatStep` is induction over a set of naturals instead, itself proved
from the pigeonhole theorem of finite sets, and `LeastOfNaturals` follows from it.

## 5. Not modelled

* **Syntax**: JSON, CSV, SSE framing, headers, cryptography, floating point.
  Where they matter they are what they do (a malformed bound is a value of its
  own, a signature is a fact about a claim, money is integral).
* **Policy coverage** (`cmd_policy_coverage.go`), **what-if**, **optimize**,
  **export**, **reports**: analysis of a snapshot that keeps no state.
* **Adapters of other tools' usage** (Cursor, Gemini, Copilot and others):
  one-pass readers. `CodexRollouts` is the one whose input changes while it is
  read and whose files depend on each other.
* **Dashboard** apart from the fuse change: its control actions do what the
  commands do, in single requests. **MCP, desktop, set-up, approval client**:
  presentation and I/O.
* **Schema migration**: runs once, before anything else.
* Pruning of policy decision rows; pruning of the ledger under a downshift
  simulation.

## 6. Plan

Done: guard, windows, policy, pipeline, lease; alerts, telemetry with its
refinement; routing, identity, replay, prices and metering, fuse settings,
invoices, rollouts; proofs of every invariant the runs check and of the action
properties.

Next proofs: what `Verified` and `Consume` give `PolicyEngine` (an identity that
is vouched for) as one theorem over both modules.

Next models: `cap` and `lift` in single writes inside `BudgetGuard`; an abstract
budget refined by `BudgetGuard`; counters of 64 bits in `PolicyEngine`.
