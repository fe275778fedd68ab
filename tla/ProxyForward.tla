----------------------------- MODULE ProxyForward -----------------------------
(***************************************************************************)
(* The request pipeline of the proxy (internal/proxy: forward, the         *)
(* downshift retry, the persistence latch and its probe).                  *)
(*                                                                         *)
(* A handler checks the latch, evaluates the policy, possibly for a second *)
(* and cheaper route, asks the guard, commits the policy decision, calls   *)
(* the provider, books the row and gives everything back.  The latch is    *)
(* looked at once, before the request body is received; whoever finds the  *)
(* ledger unwritable sets it, and a probe clears it.  The policy is        *)
(* abstracted to the concurrency slots of each route and the guard to the  *)
(* room it shares out: PolicyEngine and BudgetGuard have their detail.     *)
(***************************************************************************)
EXTENDS Naturals, FiniteSets, Sums

CONSTANTS
  Call,         \* request handlers
  Room,         \* what the guard lets held and booked calls add up to
  Bound,        \* Bound[r]: the preflight bound of a call on route r
  Slots,        \* Slots[r]: the requests the policy lets be in flight on r
  Health,       \* whoever asks /health
  Nobody

Route == {"source", "target"}

\* Assumed by whoever instantiates the module, and by its theorems.
ForwardAssumption ==
  /\ Room \in Nat /\ Bound \in [Route -> Nat] /\ Slots \in [Route -> Nat]
  /\ Bound["target"] < Bound["source"]
  /\ IsFiniteSet(Call)
  /\ Health \notin Call /\ Nobody \notin Call \cup {Health}

VARIABLES
  pc, route,        \* where a handler stands, the route its plan is for
  slot,             \* its policy reservation: a route's slot, or "none"
  held, rows,       \* guard reservations, booked calls
  accepted,         \* calls with durable accepted policy counters
  sent,             \* calls the provider has seen
  latch,            \* persistenceErr is set
  prober, outcome,  \* probeMu and what its holder's write came to
  disk,             \* whether the ledger can be written
  doubt             \* history: sent, never booked and given back since the
                    \* last probe that succeeded

handlerVars == <<pc, route>>
guardVars == <<held, rows>>
probeVars == <<prober, outcome>>
vars == <<handlerVars, slot, guardVars, accepted, sent, latch, probeVars, disk, doubt>>

Goes(c, p) == pc' = [pc EXCEPT ![c] = p]
Broken == disk = "failing"

\* markPersistenceFailure, if a write that was tried failed.
MarkIf(failed) == latch' = (latch \/ failed)

OnRoute(r) == {e \in Call : slot[e] = r}
BoundOf == [e \in Call |-> Bound[route[e]]]

\* Fault: reservations of calls in flight are not counted.
FitsBooked(c) == SumOf(BoundOf, rows) + Bound[route[c]] <= Room

Fits(c) == SumOf(BoundOf, held \cup rows) + Bound[route[c]] <= Room

Init ==
  /\ pc = [c \in Call |-> "idle"] /\ route = [c \in Call |-> "source"]
  /\ slot = [c \in Call |-> "none"]
  /\ held = {} /\ rows = {} /\ accepted = {} /\ sent = {}
  /\ latch = FALSE /\ prober = Nobody /\ outcome = "none"
  /\ disk = "ok" /\ doubt = {}

-----------------------------------------------------------------------------
(* The latch: ensurePersistence and probeHealth.                           *)

CheckPasses(c) ==
  /\ pc[c] = "idle" /\ ~latch
  /\ Goes(c, "body")
  /\ UNCHANGED <<route, slot, guardVars, accepted, sent, latch, probeVars, disk, doubt>>

\* Latched, and the last probe is less than a second old.
CheckRefuses(c) ==
  /\ pc[c] = "idle" /\ latch
  /\ Goes(c, "done")
  /\ UNCHANGED <<route, slot, guardVars, accepted, sent, latch, probeVars, disk, doubt>>

\* Latched, and the handler goes for a probe of its own.
CheckProbes(c) ==
  /\ pc[c] = "idle" /\ latch
  /\ Goes(c, "waiting")
  /\ UNCHANGED <<route, slot, guardVars, accepted, sent, latch, probeVars, disk, doubt>>

\* Fault: a recent probe is noticed, a latch that is gone is not.
ProbeSkippedIfRecent(c) ==
  /\ pc[c] = "waiting" /\ prober = Nobody /\ latch
  /\ Goes(c, "probed")
  /\ UNCHANGED <<route, slot, guardVars, accepted, sent, latch, probeVars, disk, doubt>>

\* The latch is gone, or somebody else has just probed.
ProbeSkipped(c) ==
  /\ pc[c] = "waiting" /\ prober = Nobody
  /\ Goes(c, "probed")
  /\ UNCHANGED <<route, slot, guardVars, accepted, sent, latch, probeVars, disk, doubt>>

ProbeBegins(a) ==
  /\ prober = Nobody
  /\ a \in Call => pc[a] = "waiting" /\ latch
  /\ prober' = a
  /\ UNCHANGED <<handlerVars, slot, guardVars, accepted, sent, latch, outcome, disk, doubt>>

ProbeWrites ==
  /\ prober # Nobody /\ outcome = "none"
  /\ outcome' = disk
  /\ UNCHANGED <<handlerVars, slot, guardVars, accepted, sent, latch, prober, disk, doubt>>

\* Fault: a probe only ever sets the latch.
ProbeReportsFailure ==
  /\ outcome # "none"
  /\ latch' = (latch \/ outcome = "failing")
  /\ doubt' = IF outcome = "ok" THEN {} ELSE doubt
  /\ prober' = Nobody /\ outcome' = "none"
  /\ pc' = IF prober \in Call THEN [pc EXCEPT ![prober] = "probed"] ELSE pc
  /\ UNCHANGED <<route, slot, guardVars, accepted, sent, disk>>

\* The latch is what this write came to, whatever failed since.
ProbeReports ==
  /\ outcome # "none"
  /\ latch' = (outcome = "failing")
  /\ doubt' = IF outcome = "ok" THEN {} ELSE doubt
  /\ prober' = Nobody /\ outcome' = "none"
  /\ pc' = IF prober \in Call THEN [pc EXCEPT ![prober] = "probed"] ELSE pc
  /\ UNCHANGED <<route, slot, guardVars, accepted, sent, disk>>

Probed(c) ==
  /\ pc[c] = "probed"
  /\ Goes(c, IF latch THEN "done" ELSE "body")
  /\ UNCHANGED <<route, slot, guardVars, accepted, sent, latch, probeVars, disk, doubt>>

-----------------------------------------------------------------------------
(* Policy and plan.  "body" evaluates the source, "retarget" the target.   *)

\* The body, its metadata or its identity is refused.
BodyRefused(c) ==
  /\ pc[c] = "body"
  /\ Goes(c, "done")
  /\ UNCHANGED <<route, slot, guardVars, accepted, sent, latch, probeVars, disk, doubt>>

Evaluated(c) == Goes(c, IF pc[c] = "body" THEN "plan" ELSE "admit")

\* Fault: the counters are accepted at once.
PrepareAccepted(c) ==
  /\ pc[c] \in {"body", "retarget"}
  /\ Cardinality(OnRoute(route[c])) < Slots[route[c]]
  /\ slot' = [slot EXCEPT ![c] = route[c]]
  /\ accepted' = accepted \cup {c}
  /\ Evaluated(c)
  /\ UNCHANGED <<route, guardVars, sent, latch, probeVars, disk, doubt>>

Prepare(c) ==
  /\ pc[c] \in {"body", "retarget"}
  /\ Cardinality(OnRoute(route[c])) < Slots[route[c]]
  /\ slot' = [slot EXCEPT ![c] = route[c]]
  /\ Evaluated(c)
  /\ UNCHANGED <<route, guardVars, accepted, sent, latch, probeVars, disk, doubt>>

\* No document is active.
PrepareUnruled(c) ==
  /\ pc[c] \in {"body", "retarget"}
  /\ Evaluated(c)
  /\ UNCHANGED <<route, slot, guardVars, accepted, sent, latch, probeVars, disk, doubt>>

PrepareDenies(c) ==
  /\ pc[c] \in {"body", "retarget"}
  /\ Cardinality(OnRoute(route[c])) >= Slots[route[c]]
  /\ ~Broken
  /\ Goes(c, "done")
  /\ UNCHANGED <<route, slot, guardVars, accepted, sent, latch, probeVars, disk, doubt>>

\* The policy cannot be evaluated; a probe tells whether to set the latch.
PrepareFails(c) ==
  /\ pc[c] \in {"body", "retarget"}
  /\ Goes(c, "done") /\ MarkIf(Broken)
  /\ UNCHANGED <<route, slot, guardVars, accepted, sent, probeVars, disk, doubt>>

\* Reservation.Cancel: the slot goes in any case, the decision is stored.
CancelFails(c) == slot[c] # "none" /\ Broken
Cancel(c) == slot' = [slot EXCEPT ![c] = "none"]

PlanKeeps(c) ==
  /\ pc[c] = "plan"
  /\ Goes(c, "admit")
  /\ UNCHANGED <<route, slot, guardVars, accepted, sent, latch, probeVars, disk, doubt>>

PlanFails(c) ==
  /\ pc[c] = "plan"
  /\ Cancel(c) /\ MarkIf(CancelFails(c)) /\ Goes(c, "done")
  /\ UNCHANGED <<route, guardVars, accepted, sent, probeVars, disk, doubt>>

\* The guard refuses the source for its size or for want of a price.
Refused(c) == pc[c] = "admit" /\ ~Fits(c)
MayDownshift(c) == pc[c] = "plan" \/ (Refused(c) /\ route[c] = "source")

\* Fault: the source reservation is kept while the target is evaluated.
DownshiftKeepingSource(c) ==
  /\ MayDownshift(c)
  /\ route' = [route EXCEPT ![c] = "target"]
  /\ MarkIf(CancelFails(c))
  /\ Goes(c, IF CancelFails(c) THEN "done" ELSE "retarget")
  /\ UNCHANGED <<slot, guardVars, accepted, sent, probeVars, disk, doubt>>

\* prepareTargetPolicy closes the source reservation before it evaluates the
\* target; it gives up if that cannot be stored.
Downshift(c) ==
  /\ MayDownshift(c)
  /\ route' = [route EXCEPT ![c] = "target"]
  /\ Cancel(c) /\ MarkIf(CancelFails(c))
  /\ Goes(c, IF CancelFails(c) THEN "done" ELSE "retarget")
  /\ UNCHANGED <<guardVars, accepted, sent, probeVars, disk, doubt>>

-----------------------------------------------------------------------------
(* Guard, commit, provider, settlement.                                    *)

AdmitReserves(c) ==
  /\ pc[c] = "admit" /\ Fits(c)
  /\ held' = held \cup {c}
  /\ Goes(c, "commit")
  /\ UNCHANGED <<route, slot, rows, accepted, sent, latch, probeVars, disk, doubt>>

\* Fault: a denied request leaves its policy reservation behind.
AdmitDeniesOnly(c) ==
  /\ Refused(c)
  /\ Goes(c, "done")
  /\ UNCHANGED <<route, slot, guardVars, accepted, sent, latch, probeVars, disk, doubt>>

AdmitDenies(c) ==
  /\ Refused(c)
  /\ Cancel(c) /\ MarkIf(CancelFails(c)) /\ Goes(c, "done")
  /\ UNCHANGED <<route, guardVars, accepted, sent, probeVars, disk, doubt>>

\* The settings or the ledger cannot be read, or the settings are invalid: a
\* failed cancellation or a failed probe sets the latch.
AdmitErrs(c) ==
  /\ pc[c] = "admit"
  /\ Cancel(c) /\ MarkIf(Broken) /\ Goes(c, "done")
  /\ UNCHANGED <<route, guardVars, accepted, sent, probeVars, disk, doubt>>

Commit(c) ==
  /\ pc[c] = "commit" /\ (slot[c] = "none" \/ ~Broken)
  /\ accepted' = IF slot[c] = "none" THEN accepted ELSE accepted \cup {c}
  /\ Goes(c, "send")
  /\ UNCHANGED <<route, slot, guardVars, sent, latch, probeVars, disk, doubt>>

CommitFails(c) ==
  /\ pc[c] = "commit" /\ slot[c] # "none" /\ Broken
  /\ Cancel(c) /\ MarkIf(TRUE) /\ Goes(c, "leaving")
  /\ UNCHANGED <<route, guardVars, accepted, sent, probeVars, disk, doubt>>

\* The outbound request cannot be built.
SendFails(c) ==
  /\ pc[c] = "send"
  /\ Goes(c, "leaving")
  /\ UNCHANGED <<route, slot, guardVars, accepted, sent, latch, probeVars, disk, doubt>>

Send(c) ==
  /\ pc[c] = "send"
  /\ sent' = sent \cup {c}
  /\ Goes(c, "upstream")
  /\ UNCHANGED <<route, slot, guardVars, accepted, latch, probeVars, disk, doubt>>

\* A response, complete or not, or a transport failure: the row is booked.
SettleBooks(c) ==
  /\ pc[c] = "upstream" /\ ~Broken
  /\ rows' = rows \cup {c} /\ held' = held \ {c}
  /\ Goes(c, "leaving")
  /\ UNCHANGED <<route, slot, accepted, sent, latch, probeVars, disk, doubt>>

SettleFails(c) ==
  /\ pc[c] = "upstream" /\ Broken
  /\ Goes(c, "unmarked")
  /\ UNCHANGED <<route, slot, guardVars, accepted, sent, latch, probeVars, disk, doubt>>

Mark(c) ==
  /\ pc[c] = "unmarked"
  /\ MarkIf(TRUE) /\ Goes(c, "leaving")
  /\ UNCHANGED <<route, slot, guardVars, accepted, sent, probeVars, disk, doubt>>

\* The deferred calls: the policy's Release first, then the guard's.
LeavePolicy(c) ==
  /\ pc[c] = "leaving"
  /\ Cancel(c) /\ Goes(c, "closing")
  /\ UNCHANGED <<route, guardVars, accepted, sent, latch, probeVars, disk, doubt>>

LeaveGuard(c) ==
  /\ pc[c] = "closing"
  /\ held' = held \ {c} /\ Goes(c, "done")
  /\ doubt' = IF c \in sent \ rows THEN doubt \cup {c} ELSE doubt
  /\ UNCHANGED <<route, slot, rows, accepted, sent, latch, probeVars, disk>>

-----------------------------------------------------------------------------
(* The ledger's disk, and the process.                                     *)

DiskChanges ==
  /\ disk' = IF Broken THEN "ok" ELSE "failing"
  /\ UNCHANGED <<handlerVars, slot, guardVars, accepted, sent, latch, probeVars, doubt>>

\* The process dies: only the ledger survives.
Restart ==
  /\ \E c \in Call : pc[c] \notin {"idle", "done"}
  /\ pc' = [c \in Call |-> IF pc[c] = "idle" THEN "idle" ELSE "done"]
  /\ slot' = [c \in Call |-> "none"]
  /\ held' = {} /\ latch' = FALSE /\ prober' = Nobody /\ outcome' = "none"
  /\ doubt' = {}
  /\ UNCHANGED <<route, rows, accepted, sent, disk>>

Checks(c) == CheckPasses(c) \/ CheckRefuses(c) \/ CheckProbes(c) \/ Probed(c)
TakesProbe(c) == ProbeSkipped(c) \/ ProbeBegins(c)

\* What a handler does by itself between the latch and the provider, and
\* after it.
Runs(c) ==
  \/ BodyRefused(c)
  \/ Prepare(c) \/ PrepareUnruled(c) \/ PrepareDenies(c) \/ PrepareFails(c)
  \/ PlanKeeps(c) \/ PlanFails(c) \/ Downshift(c)
  \/ AdmitReserves(c) \/ AdmitDenies(c) \/ AdmitErrs(c)
  \/ Commit(c) \/ CommitFails(c) \/ SendFails(c) \/ Send(c)
  \/ Mark(c) \/ LeavePolicy(c) \/ LeaveGuard(c)

Answered(c) == SettleBooks(c) \/ SettleFails(c)
ProbeGoesOn == ProbeWrites \/ ProbeReports

Next ==
  \/ \E c \in Call : Checks(c) \/ TakesProbe(c) \/ Runs(c) \/ Answered(c)
  \/ ProbeBegins(Health) \/ ProbeGoesOn
  \/ DiskChanges \/ Restart

\* Handlers run, the mutex around the probe is handed to whoever waits for
\* it, and /health is asked now and then.  Neither new requests nor the
\* provider's answers are promised.
Fairness ==
  /\ \A c \in Call : WF_vars(Probed(c) \/ Runs(c)) /\ SF_vars(TakesProbe(c))
  /\ WF_vars(ProbeGoesOn) /\ SF_vars(ProbeBegins(Health))

Spec == Init /\ [][Next]_vars /\ Fairness

-----------------------------------------------------------------------------
\* No exit path leaves anything behind, and whoever may cost money or has
\* done so unbooked holds a reservation: through downshifts, failed writes,
\* provider failures and restarts.  The policy slot a request holds is that of
\* the route it is forwarded on, and no route has more than its slots, although
\* a downshift gives its source slot up before it has the target's.
NothingLeaks ==
  /\ \A c \in Call :
       /\ pc[c] = "done" => slot[c] = "none" /\ c \notin held
       /\ pc[c] \in {"send", "upstream", "unmarked"} => c \in held
       /\ pc[c] \in {"admit", "commit", "send", "upstream"} => slot[c] \in {route[c], "none"}
  /\ \A r \in Route : Cardinality(OnRoute(r)) <= Slots[r]

\* Policy windows count what is forwarded, no more and no less: a request that
\* holds a slot has durable accepted counters exactly from its commit on, so
\* one that the guard refuses never uses up a window.
CountedIfForwarded ==
  \A c \in Call : slot[c] # "none" =>
    (c \in accepted <=> pc[c] \in {"send", "upstream", "unmarked", "leaving"})

\* What the provider has seen fits into the room as long as no forwarded
\* call is missing from the ledger.
ForwardedFits ==
  sent \subseteq held \cup rows => SumOf(BoundOf, sent) <= Room

\* The comment on Settle: the reservation outlives a failed insert "so the
\* proxy can latch persistence fail-closed without an undercount window".
NoUndercountWindow ==
  [][held' \subseteq held \/ doubt = {}]_vars

\* Once the disk stays writable the latch goes away for good.
RecoversOnceRepaired == <>[](disk = "ok") => <>[](~latch)

\* The only place a handler can stay in for ever is the provider: nothing on
\* the way there or back waits for something that may not come.
OnlyProviderHangs ==
  \A c \in Call : []<>(pc[c] \in {"idle", "upstream", "done"})
=============================================================================
