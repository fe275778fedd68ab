----------------------------- MODULE BudgetGuard -----------------------------
(***************************************************************************)
(* The admission guard of the proxy (internal/budget: Guard, Reservation)  *)
(* together with the durable ledger and settings it decides from.          *)
(*                                                                         *)
(* Every request handler is a Call.  It captures its own clock reading on  *)
(* arrival, asks the guard for admission under that reading (which may be  *)
(* stale by then), and later settles, fails to settle, or just releases    *)
(* its reservation.  Operators change limits from other processes, the     *)
(* clock advances, and the process may crash and lose its reservations.    *)
(*                                                                         *)
(* A guardrail ("rail") is anything that can refuse a call for lack of     *)
(* room: the calendar caps of the user and of an external policy, the      *)
(* rolling dollar fuses, the request fan-out fuse, and the daily cap of    *)
(* one agent, which is named by the agent itself.                          *)
(***************************************************************************)
EXTENDS Integers, FiniteSets, Sums

CONSTANTS
  Call,         \* request handlers; each handles one provider request
  Agent,        \* agents that may carry a daily cap
  LocalCap,     \* the user's calendar caps (local calendar)
  ExternalCap,  \* an external policy's calendar caps (UTC calendar)
  Fuse,         \* rolling dollar fuses
  Fanout,       \* the request-count fuse
  Rank,         \* the order in which the guard looks at rails
  Since,        \* Since[g][t]: start of rail g's window for a reading t
  Day,          \* Day[t]: local calendar day of a reading t
  NoDay,        \* the override setting is absent
  Cooldown,     \* how long a tripped fuse refuses everything
  MaxTime,      \* bound on the clock
  Limit,        \* limits an operator may configure; 0 removes the rail
  InitLimits,   \* the configurations the process may start from
  Estimate,     \* preflight estimates a handler may compute
  Cost          \* what a provider may turn out to charge

Rail == LocalCap \cup ExternalCap \cup Fuse \cup {Fanout} \cup Agent
DollarRail == LocalCap \cup ExternalCap \cup Fuse \cup Agent
Tripping == Fuse \cup {Fanout}
Time == 0 .. MaxTime

ASSUME CallAssumption == IsFiniteSet(Call)
ASSUME TimeAssumption == MaxTime \in Nat /\ Cooldown \in Nat \ {0}
ASSUME RailAssumption ==
  /\ Fanout \notin DollarRail
  /\ Agent \cap (LocalCap \cup ExternalCap \cup Fuse) = {}
  /\ Rank \in [Rail -> Nat]
\* A window starts no later than the reading it is computed for.
ASSUME WindowAssumption ==
  /\ Since \in [Rail -> [Time -> Int]]
  /\ \A g \in Rail, t \in Time : Since[g][t] <= t
ASSUME MoneyAssumption ==
  /\ Limit \subseteq Nat
  /\ InitLimits \subseteq [Rail -> Limit]
  /\ Cost \subseteq Nat
  /\ Estimate \subseteq [kind : {"bounded", "unbounded", "unpriced"}, usd : Nat]

VARIABLES
  now,              \* the wall clock
  phase,            \* where each handler stands
  start, agent, est,    \* what the handler captured on arrival
  amount,           \* Reservation.amount
  grant,            \* the limits the reservation was admitted under (0: none)
  heldAt, durableAt,    \* history: the calls live, and durable, at admission
  ledger, cost, gaps,   \* durable request rows, their cost, the unsafe ones
  reservedUSD, reservedByAgent, inFlight,   \* the guard's memory
  limit, bans, override, tripUntil          \* durable settings

callVars == <<phase, start, agent, est>>
reservationVars == <<amount, grant, heldAt, durableAt>>
ledgerVars == <<ledger, cost, gaps>>
guardVars == <<reservedUSD, reservedByAgent, inFlight>>
settingVars == <<limit, bans, override, tripUntil>>
vars == <<now, callVars, reservationVars, ledgerVars, guardVars, settingVars>>

NoGrant == [g \in Rail |-> 0]
Live == {c \in Call : phase[c] \in {"live", "unsettled"}}

-----------------------------------------------------------------------------
(* What checkLocked reads for a call c: its own clock reading is "now".    *)

\* `lift --today` suspends local and agent caps for the day it was issued on.
Suspended(g, c) == g \in LocalCap \cup Agent /\ override = Day[start[c]]

Armed(g, c) ==
  /\ limit[g] > 0
  /\ g \in Agent => agent[c] = g
  /\ ~Suspended(g, c)

\* Ledger rows from S that rail g counts for call c.
InWindow(g, c, S) ==
  {r \in S : start[r] >= Since[g][start[c]] /\ (g \in Agent => agent[r] = g)}

Spent(g, c) ==
  IF g = Fanout THEN Cardinality(InWindow(g, c, ledger))
                ELSE SumOf(cost, InWindow(g, c, ledger))

\* Fault: agents' reservations are never looked at.
ReservedWithoutAgents(g) ==
  IF g = Fanout THEN inFlight ELSE IF g \in Agent THEN 0 ELSE reservedUSD

Reserved(g) ==
  CASE g = Fanout  -> inFlight
    [] g \in Agent -> reservedByAgent[g]
    [] OTHER       -> reservedUSD

\* Fault: admission looks at durable spend only.
RemainingDurable(g, c) == limit[g] - Spent(g, c)

Remaining(g, c) == limit[g] - Spent(g, c) - Reserved(g)

Gapped(g, c) == g # Fanout /\ InWindow(g, c, gaps) # {}

\* Fault: a running cooldown is not looked at.
PausedByBan(c) == bans # {}

Paused(c) == bans # {} \/ start[c] < tripUntil

\* The dollar rails that apply to c: admissionState.positions.
Positions(c) == {g \in DollarRail : Armed(g, c)}
Blocking(c) ==
  {g \in Rail : Armed(g, c) /\ (Gapped(g, c) \/ Remaining(g, c) <= 0)}
Crossed(c) == {g \in Positions(c) : est[c].usd > Remaining(g, c)}

\* The rail of S that the guard reports: the one it reaches first.
FirstOf(S) == {g \in S : \A h \in S : Rank[g] <= Rank[h]}

\* The first rail in the way is a fuse without a metering gap: it trips.
Trips(c) ==
  /\ ~Paused(c)
  /\ \/ \E g \in FirstOf(Blocking(c)) : g \in Tripping /\ ~Gapped(g, c)
     \/ /\ Blocking(c) = {}
        /\ est[c].kind = "bounded"
        /\ \E g \in FirstOf(Crossed(c)) : g \in Fuse

Admissible(c) ==
  /\ ~Paused(c)
  /\ Blocking(c) = {}
  /\ Positions(c) # {} => \/ est[c].kind = "unbounded"
                          \/ est[c].kind = "bounded" /\ Crossed(c) = {}

\* Fault: a call without a bound reserves its estimate, which is nothing.
ReserveAmountAsEstimated(c) == {IF Positions(c) = {} THEN 0 ELSE est[c].usd}

\* What an admitted call reserves: nothing without a dollar rail, its own
\* bound, or without a bound the largest headroom of any rail.
ReserveAmount(c) ==
  IF Positions(c) = {} THEN {0}
  ELSE IF est[c].kind = "bounded" THEN {est[c].usd}
  ELSE {Remaining(g, c) :
          g \in {g \in Positions(c) : \A h \in Positions(c) :
                   Remaining(h, c) <= Remaining(g, c)}}

-----------------------------------------------------------------------------
Init ==
  /\ now = 0
  /\ phase = [c \in Call |-> "idle"]
  /\ start = [c \in Call |-> 0]
  /\ \E a \in Agent, e \in Estimate :
       agent = [c \in Call |-> a] /\ est = [c \in Call |-> e]
  /\ amount = [c \in Call |-> 0]
  /\ grant = [c \in Call |-> NoGrant]
  /\ heldAt = [c \in Call |-> {}] /\ durableAt = [c \in Call |-> {}]
  /\ ledger = {} /\ gaps = {} /\ cost = [c \in Call |-> 0]
  /\ reservedUSD = 0 /\ inFlight = 0
  /\ reservedByAgent = [a \in Agent |-> 0]
  /\ limit \in InitLimits
  /\ bans = {} /\ override = NoDay /\ tripUntil = 0

\* The handler reads the clock once, before it reads the request body and
\* computes the estimate.
Arrive(c, a, e) ==
  /\ phase[c] = "idle"
  /\ phase' = [phase EXCEPT ![c] = "arrived"]
  /\ start' = [start EXCEPT ![c] = now]
  /\ agent' = [agent EXCEPT ![c] = a]
  /\ est' = [est EXCEPT ![c] = e]
  /\ UNCHANGED <<now, reservationVars, ledgerVars, guardVars,
                 settingVars>>

\* A ban, a cooldown, a metering gap, a full rail, a call that does not fit
\* or cannot be priced: Admit returns a denial and leaves no trace.
AdmitRefuses(c) ==
  /\ phase[c] = "arrived"
  /\ ~Trips(c) /\ ~Admissible(c)
  /\ phase' = [phase EXCEPT ![c] = "done"]
  /\ UNCHANGED <<now, start, agent, est, reservationVars, ledgerVars,
                 guardVars, settingVars>>

\* Settings or usage cannot be read: Admit returns an error (fails closed).
AdmitErrs(c) ==
  /\ phase[c] = "arrived"
  /\ phase' = [phase EXCEPT ![c] = "done"]
  /\ UNCHANGED <<now, start, agent, est, reservationVars, ledgerVars,
                 guardVars, settingVars>>

\* The cooldown is counted from the call's own reading of the clock.
AdmitTrips(c) ==
  /\ phase[c] = "arrived"
  /\ Trips(c)
  /\ phase' = [phase EXCEPT ![c] = "done"]
  /\ tripUntil' = start[c] + Cooldown
  /\ UNCHANGED <<now, start, agent, est, reservationVars, ledgerVars,
                 guardVars, limit, bans, override>>

AdmitReserves(c) ==
  /\ phase[c] = "arrived"
  /\ Admissible(c)
  /\ phase' = [phase EXCEPT ![c] = "live"]
  /\ \E a \in ReserveAmount(c) :
       /\ amount' = [amount EXCEPT ![c] = a]
       /\ reservedUSD' = reservedUSD + a
       /\ reservedByAgent' = [reservedByAgent EXCEPT ![agent[c]] = @ + a]
  /\ inFlight' = inFlight + 1
  /\ grant' = [grant EXCEPT ![c] =
                 [g \in Rail |-> IF Armed(g, c) THEN limit[g] ELSE 0]]
  /\ heldAt' = [heldAt EXCEPT ![c] = Live]
  /\ durableAt' = [durableAt EXCEPT ![c] = ledger]
  /\ UNCHANGED <<now, start, agent, est, ledgerVars, settingVars>>

\* Fault: the agent's share is never given back.
ReleaseLockedGlobally(c) ==
  /\ reservedUSD' = Monus(reservedUSD, amount[c])
  /\ inFlight' = Monus(inFlight, 1)
  /\ UNCHANGED reservedByAgent

\* releaseLocked: every subtraction is floored at zero.
ReleaseLocked(c) ==
  /\ reservedUSD' = Monus(reservedUSD, amount[c])
  /\ reservedByAgent' =
       [reservedByAgent EXCEPT ![agent[c]] = Monus(@, amount[c])]
  /\ inFlight' = Monus(inFlight, 1)

\* Reservation.capActive
CapActive(c) == \E g \in DollarRail : grant[c][g] > 0

\* The row becomes durable and the reservation ends in one guarded step.
\* A row is unsafe only if its call was admitted under a dollar rail.
Settle(c, v, unsafe) ==
  /\ phase[c] = "live"
  /\ unsafe => CapActive(c)
  /\ phase' = [phase EXCEPT ![c] = "done"]
  /\ ledger' = ledger \cup {c}
  /\ cost' = [cost EXCEPT ![c] = v]
  /\ gaps' = IF unsafe THEN gaps \cup {c} ELSE gaps
  /\ ReleaseLocked(c)
  /\ UNCHANGED <<now, start, agent, est, reservationVars, settingVars>>

\* The insert failed: the reservation stays until the deferred Release.
SettleFails(c) ==
  /\ phase[c] = "live"
  /\ phase' = [phase EXCEPT ![c] = "unsettled"]
  /\ UNCHANGED <<now, start, agent, est, reservationVars, ledgerVars,
                 guardVars, settingVars>>

\* The deferred Release of a handler that returns without a settled row.
Release(c) ==
  /\ c \in Live
  /\ phase' = [phase EXCEPT ![c] = "done"]
  /\ ReleaseLocked(c)
  /\ UNCHANGED <<now, start, agent, est, reservationVars, ledgerVars,
                 settingVars>>

\* The process dies and comes back: the guard's memory is empty, the ledger
\* and the settings survive.
Restart ==
  /\ \E c \in Call : phase[c] \in {"arrived", "live", "unsettled"}
  /\ phase' = [c \in Call |->
                 IF phase[c] = "idle" THEN "idle" ELSE "done"]
  /\ reservedUSD' = 0 /\ inFlight' = 0
  /\ reservedByAgent' = [a \in Agent |-> 0]
  /\ UNCHANGED <<now, start, agent, est, reservationVars, ledgerVars,
                 settingVars>>

Tick ==
  /\ now < MaxTime
  /\ now' = now + 1
  /\ UNCHANGED <<callVars, reservationVars, ledgerVars, guardVars, settingVars>>

-----------------------------------------------------------------------------
(* Operators, in other processes, writing the settings table.              *)

\* `cap`: arming a local or agent cap also drops today's override.
SetLimit(g, v) ==
  /\ limit' = [limit EXCEPT ![g] = v]
  /\ override' = IF v > 0 /\ g \in LocalCap \cup Agent THEN NoDay ELSE override
  /\ UNCHANGED <<now, callVars, reservationVars, ledgerVars, guardVars,
                 bans, tripUntil>>

\* `ban` and the external policy's ban.
Ban(b) ==
  /\ bans' = bans \cup {b}
  /\ override' = IF b = "local" THEN NoDay ELSE override
  /\ UNCHANGED <<now, callVars, reservationVars, ledgerVars, guardVars,
                 limit, tripUntil>>

\* `lift`, `lift --today`, and the external policy lifting its own ban.
Lift(b, today) ==
  /\ today => b = "local"
  /\ bans' = bans \ {b}
  /\ override' = IF today THEN Day[now] ELSE override
  /\ UNCHANGED <<now, callVars, reservationVars, ledgerVars, guardVars,
                 limit, tripUntil>>

\* `fuse --reset`
FuseReset ==
  /\ tripUntil # 0
  /\ tripUntil' = 0
  /\ UNCHANGED <<now, callVars, reservationVars, ledgerVars, guardVars,
                 limit, bans, override>>

\* `fuse --off`
FuseOff ==
  /\ limit' = [g \in Rail |-> IF g \in Tripping THEN 0 ELSE limit[g]]
  /\ tripUntil' = 0
  /\ UNCHANGED <<now, callVars, reservationVars, ledgerVars, guardVars,
                 bans, override>>

-----------------------------------------------------------------------------
Handle(c) ==
  \/ \E a \in Agent, e \in Estimate : Arrive(c, a, e)
  \/ AdmitRefuses(c)
  \/ AdmitErrs(c)
  \/ AdmitTrips(c)
  \/ AdmitReserves(c)
  \/ \E v \in Cost, unsafe \in BOOLEAN : Settle(c, v, unsafe)
  \/ SettleFails(c)
  \/ Release(c)

Serve == (\E c \in Call : Handle(c)) \/ Restart \/ Tick

Administer ==
  \/ \E g \in Rail, v \in Limit : SetLimit(g, v)
  \/ \E b \in {"local", "external"} : Ban(b)
  \/ \E b \in {"local", "external"}, today \in BOOLEAN : Lift(b, today)
  \/ FuseReset
  \/ FuseOff

Next == Serve \/ Administer

Spec == Init /\ [][Next]_vars

\* The same guard while no operator touches the settings.
ServeSpec == Init /\ [][Serve]_vars

-----------------------------------------------------------------------------
Phase == {"idle", "arrived", "live", "unsettled", "done"}

TypeOK ==
  /\ now \in Time
  /\ phase \in [Call -> Phase]
  /\ start \in [Call -> Time]
  /\ agent \in [Call -> Agent]
  /\ est \in [Call -> Estimate]
  /\ amount \in [Call -> Nat]
  /\ grant \in [Call -> [Rail -> Nat]]
  /\ heldAt \in [Call -> SUBSET Call]
  /\ durableAt \in [Call -> SUBSET Call]
  /\ ledger \subseteq Call /\ gaps \subseteq ledger
  /\ cost \in [Call -> Nat]
  /\ reservedUSD \in Nat /\ inFlight \in Nat
  /\ reservedByAgent \in [Agent -> Nat]
  /\ limit \in [Rail -> Nat]
  /\ bans \subseteq {"local", "external"}
  /\ tripUntil \in Nat

LiveOf(a) == {c \in Live : agent[c] = a}

\* The guard's counters are exactly the sums of the reservations that are
\* still held: nothing leaks, nothing is released twice, and the floors at
\* zero in releaseLocked never hide a difference.
ReservationsExact ==
  /\ reservedUSD = SumOf(amount, Live)
  /\ \A a \in Agent : reservedByAgent[a] = SumOf(amount, LiveOf(a))
  /\ inFlight = Cardinality(Live)

\* What of a call's charge its reservation accounted for.  Spend above the
\* preflight bound, and all spend of a call admitted without a bound, is
\* overshoot and not covered.
Covered ==
  [c \in Call |-> IF est[c].kind # "bounded" THEN 0
                  ELSE IF c \in ledger THEN Least(cost[c], amount[c])
                  ELSE amount[c]]

Counted == Live \cup ledger
Prior(c) == heldAt[c] \cup durableAt[c]

\* What counts against rail g from c's point of view: c and the calls
\* admitted before it that are live or durable, in the window c was
\* checked against.
Standing(g, c) == InWindow(g, c, (Prior(c) \cap Counted) \cup {c})

Fits(g, c) ==
  IF g = Fanout THEN Cardinality(Standing(g, c)) <= grant[c][g]
                ELSE SumOf(Covered, Standing(g, c)) <= grant[c][g]

\* Spend control.  From its admission on, however the clock readings of
\* handlers are ordered, whatever settles, fails, restarts or is
\* reconfigured since, an admitted call and everything admitted before it in
\* its window fit under the limit it was admitted under: covered dollars for
\* a dollar rail, requests for the fan-out fuse.
WithinGrant ==
  \A c \in Counted, g \in Rail : grant[c][g] > 0 => Fits(g, c)

\* What the spend control argument rests on: a row is durable only once its
\* call is done, and only admitted calls come before an admission.
LedgerDone == \A e \in ledger : phase[e] = "done"
PriorStarted == \A c \in Call : \A e \in Prior(c) : phase[e] \notin {"idle", "arrived"}
GrantInv == LedgerDone /\ PriorStarted /\ ReservationsExact /\ WithinGrant

\* A trip is overwritten only by a later cooldown, even by a handler whose
\* clock reading is older than the trip: only an operator ends one early.
CooldownNeverShortened ==
  [][tripUntil' >= tripUntil \/ tripUntil' = 0]_tripUntil

Unbounded(c) == c \in Live /\ est[c].kind = "unbounded"

\* The comment on AdmissionEstimate: a call without an output ceiling "is
\* admitted exclusively against any active dollar guardrail".
UnboundedExclusive ==
  \A c, d \in Call :
    (Unbounded(c) /\ Unbounded(d) /\ c # d) =>
      \A g \in DollarRail : ~(grant[c][g] > 0 /\ grant[d][g] > 0)

\* Reservation e ended without leaving its whole amount in g's window for d.
GaveBack(e, g, d) ==
  e \notin Live /\ (e \in InWindow(g, d, ledger) => cost[e] < amount[e])

\* What does hold while limits stay put: two calls without a ceiling are in
\* flight in one calendar window only if a reservation that was held when
\* the first was admitted has since given headroom back.
SecondUnboundedNeedsRefund ==
  \A c, d \in Call : \A g \in LocalCap \cup ExternalCap :
    ( /\ Unbounded(c) /\ Unbounded(d) /\ c \in heldAt[d]
      /\ grant[c][g] > 0 /\ grant[d][g] > 0
      /\ Since[g][start[c]] = Since[g][start[d]] )
    => \E e \in heldAt[c] : GaveBack(e, g, d)
=============================================================================
