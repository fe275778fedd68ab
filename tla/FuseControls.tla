---------------------------- MODULE FuseControls ----------------------------
(***************************************************************************)
(* The velocity fuses as settings: the rules an operator stores from the   *)
(* command line (cmd_fuse.go) or from the dashboard (internal/web/api.go), *)
(* the trip the guard of the server stores when one is crossed, the marks  *)
(* of the incidents announced, and the status every surface shows          *)
(* (internal/budget/fuse.go, Guard.checkLocked).  A command is a sequence  *)
(* of single writes; the guard reads all settings at once, decides, and    *)
(* writes later, so both sides interleave, fail half-way or are killed.    *)
(*                                                                         *)
(* A setting is a set: empty when unset, else with its one value.  Rules   *)
(* share one shape: a window, a limit in cents or calls, a multiplier.     *)
(* BudgetGuard follows how fuses and caps limit spend; this module follows *)
(* whether what one side stores means to the other what it should.         *)
(***************************************************************************)
EXTENDS Integers, Sequences, FiniteSetsExt, Sums

CONSTANTS Hour, Day,        \* in ticks of the rows' clock, one second each
          MaxCooldown,      \* the longest cooldown; the shortest is one tick
          DefaultCooldown,
          MaxFanout,        \* the most calls a fan-out rule may name
          Change,           \* what an operator may ask to set: <<key, setting>>s
          InitRules,        \* the rules the server may start under
          Median,           \* spend an earlier day may show in the running slot
          Ask,              \* bounds a call may declare; Unbounded when none
          Cost,             \* what a call may cost
          MaxTime, MaxChecks, MaxCommands, MaxLive   \* bounds

RuleKey == {"hourly", "burst", "fanout", "baseline", "cooldown"}
Key == RuleKey \cup {"trip"}
Surface == {"cli", "web"}
Unbounded == -1
Time == 0 .. MaxTime
Rule == [window : Nat, limit : Nat, times : Nat]

VARIABLES
  clock, usd, calls,   \* the ledger: cents and calls of the rows of each tick
  median,              \* median of the same slot on earlier days
  setting, marks,      \* the durable settings
  live, guard,         \* admitted calls, and the admission under way
  checks,              \* history: admissions begun; no two read one instant
  denied,              \* incidents that refused handlers are about to announce
  told, silent,        \* history: announcements; incidents somebody kept silent on
  forgotten,           \* history: incidents whose mark an operator cleared
  job,                 \* what a surface's command still has to write
  commands, ended      \* history: commands given, how the last one ended

ledgerVars == <<clock, usd, calls, median>>
serverVars == <<live, guard, denied>>
alertVars == <<told, silent>>
commandVars == <<job, commands, ended, forgotten>>
vars == <<ledgerVars, setting, marks, serverVars, checks, alertVars, commandVars>>

-----------------------------------------------------------------------------
(* What is accepted when it is read back from the settings.                *)

RollingWindow(w) == w \in 1 .. Hour
Slot(w) == w \in 1 .. Day /\ Day % w = 0

ReadableBurst(v) == RollingWindow(v.window) /\ v.limit >= 1
ReadableFanout(v) == RollingWindow(v.window) /\ v.limit \in 1 .. MaxFanout
ReadableBaseline(v) == Slot(v.window) /\ v.times \in 2 .. 100 /\ v.limit >= 1
ReadableCooldown(v) == v.window \in 1 .. MaxCooldown

ReadableRule(key, v) ==
  CASE key = "hourly"   -> v.limit >= 1
    [] key = "burst"    -> ReadableBurst(v)
    [] key = "fanout"   -> ReadableFanout(v)
    [] key = "baseline" -> ReadableBaseline(v)
    [] key = "cooldown" -> ReadableCooldown(v)

\* parseFuseTrip
ReadableTrip(t) ==
  /\ CASE t.rule = "hourly"             -> t.window = Hour
       [] t.rule \in {"burst", "fanout"} -> RollingWindow(t.window)
       [] t.rule = "baseline"           -> Slot(t.window)
  /\ t.start < t.until /\ t.until - t.start <= MaxCooldown
  /\ t.limit >= 1 /\ (t.rule = "fanout" => t.limit <= MaxFanout)
  /\ t.projected >= t.limit

Readable(vals) ==
  /\ \A key \in RuleKey : \A v \in vals[key] : ReadableRule(key, v)
  /\ \A t \in vals["trip"] : ReadableTrip(t)

\* Assumed by whoever instantiates the module.  The server starts under rules
\* that a surface accepted, a rule has one value, and operators change rules.
FuseAssumption ==
  /\ {Hour, Day, MaxFanout, MaxTime, MaxChecks} \subseteq Nat
  /\ MaxCooldown \in Nat /\ DefaultCooldown \in 1 .. MaxCooldown
  /\ Median \subseteq Nat /\ Cost \subseteq Nat /\ Ask \subseteq Nat \cup {Unbounded}
  /\ \A r \in InitRules : \A key \in RuleKey :
       /\ r[key] \subseteq Rule
       /\ \A v, w \in r[key] : v = w /\ ReadableRule(key, v)
  /\ \A fields \in Change :
       /\ fields \in Seq({fields[i] : i \in DOMAIN fields})
       /\ \A i \in DOMAIN fields :
            /\ fields[i][1] \in RuleKey /\ fields[i][2] \subseteq Rule
            /\ \A v, w \in fields[i][2] : v = w

-----------------------------------------------------------------------------
(* What the guard computes from settings vals for its reading "at".        *)

Total(f, from) == SumOf(f, {t \in Time : t >= from})
Reserved == SumOf([c \in live |-> c.amount], live)

RollingStart(at, w) == at - w
SlotStart(at, w) == at - (at % w)

Position(rule, v, limit, from) ==
  [rule |-> rule, window |-> IF rule = "hourly" THEN Hour ELSE v.window,
   limit |-> limit, spent |-> Total(usd, from)]

\* The dollar rules in the order of checkLocked: burst, hourly, baseline.
Positions(vals, at) ==
  LET burst == {Position("burst", v, v.limit, RollingStart(at, v.window)) : v \in vals["burst"]}
      hourly == {Position("hourly", v, v.limit, RollingStart(at, Hour)) : v \in vals["hourly"]}
      baseline == {Position("baseline", v, Max({v.limit, median * v.times}),
                            SlotStart(at, v.window)) : v \in vals["baseline"]}
      one(S) == IF S = {} THEN <<>> ELSE <<CHOOSE p \in S : TRUE>>
  IN one(burst) \o one(hourly) \o one(baseline)

Room(p) == p.limit - p.spent - Reserved
FirstOf(ps, Chosen(_)) ==
  {ps[i] : i \in {i \in DOMAIN ps : Chosen(ps[i]) /\ \A j \in 1 .. i - 1 : ~Chosen(ps[j])}}
FirstFull(ps) == LET Full(p) == Room(p) <= 0 IN FirstOf(ps, Full)
FirstCrossed(ps, more) == LET Crossed(p) == more > Room(p) IN FirstOf(ps, Crossed)

Headroom(ps) ==
  IF ps = <<>> THEN 0 ELSE Max({Room(ps[i]) : i \in DOMAIN ps})

Cooldown(vals) ==
  IF vals["cooldown"] = {} THEN DefaultCooldown ELSE (CHOOSE v \in vals["cooldown"] : TRUE).window

Stored(id, at, vals, rule, window, limit, projected) ==
  [id |-> id, start |-> at, until |-> at + Cooldown(vals), rule |-> rule,
   window |-> window, limit |-> limit, projected |-> projected]

\* Fault: the call that crosses the limit is left out of the projection.
TripOfSpent(id, at, vals, p, more) ==
  Stored(id, at, vals, p.rule, p.window, p.limit, p.spent + Reserved)

\* tripFuseLocked
TripOf(id, at, vals, p, more) ==
  Stored(id, at, vals, p.rule, p.window, p.limit, p.spent + Reserved + more)

\* Calls that the fan-out rule v counts for a reading "at".
Fanned(v, at) == Total(calls, RollingStart(at, v.window)) + Cardinality(live)

\* tripFuseRequestsLocked
TripsOfFanout(id, at, vals) ==
  {Stored(id, at, vals, "fanout", v.window, v.limit, Fanned(v, at) + 1) :
     v \in {v \in vals["fanout"] : Fanned(v, at) >= v.limit}}

\* The trip an admission stores: of a rule already full, of too many calls, or
\* of a rule that has no room for the call's own bound.
Trips(g) ==
  LET ps == Positions(g.vals, g.at)
      full == {TripOf(g.id, g.at, g.vals, p, 0) : p \in FirstFull(ps)}
      fanned == TripsOfFanout(g.id, g.at, g.vals)
  IN IF full # {} THEN full
     ELSE IF fanned # {} THEN fanned
     ELSE IF g.ask > 0 THEN {TripOf(g.id, g.at, g.vals, p, g.ask) : p \in FirstCrossed(ps, g.ask)}
     ELSE {}

LiveTrip(vals, at) == {t \in vals["trip"] : at < t.until}

\* Fault: one mark for all incidents of a rule.
AlertKeyOfRule(t) == <<"fuse", t.rule>>

\* The mark under which an incident is announced.
AlertKey(t) == <<"fuse", t.id>>
Denial(t) == [id |-> t.id, key |-> AlertKey(t)]

-----------------------------------------------------------------------------
(* FuseStatus, which the command line, the dashboard and the MCP show.     *)

\* Fault: the baseline's floor is forgotten.
StatusLimitUnfloored(v) == median * v.times

StatusLimit(v) == Max({v.limit, median * v.times})

Left(limit, spent) == Max({0, limit - spent})

Status(vals, at) ==
  [rules |-> {Left(v.limit, Total(usd, at - v.window)) : v \in vals["burst"]} \cup
             {Left(v.limit, Total(usd, at - Hour)) : v \in vals["hourly"]} \cup
             {Left(StatusLimit(v), Total(usd, at - (at % v.window))) : v \in vals["baseline"]},
   fanout |-> {Left(v.limit, Total(calls, at - v.window)) : v \in vals["fanout"]},
   tripped |-> \E t \in vals["trip"] : at < t.until]

-----------------------------------------------------------------------------
NoAdmission == [step |-> "none"]
NoJob == [action |-> "none"]

Init ==
  /\ clock = 0 /\ usd = [t \in Time |-> 0] /\ calls = [t \in Time |-> 0]
  /\ median \in Median
  /\ setting \in {[key \in Key |-> IF key = "trip" THEN {} ELSE r[key]] : r \in InitRules}
  /\ marks = {} /\ live = {} /\ guard = NoAdmission /\ checks = 0
  /\ denied = {} /\ told = [id \in 1 .. MaxChecks |-> 0] /\ silent = {}
  /\ job = [s \in Surface |-> NoJob] /\ commands = 0 /\ forgotten = {}
  /\ ended = [refused |-> FALSE, wrote |-> 0]

Tick ==
  /\ clock < MaxTime
  /\ clock' = clock + 1
  /\ UNCHANGED <<usd, calls, median, setting, marks, serverVars, checks, alertVars, commandVars>>

\* A handler read the clock when it arrived; now it holds the guard's lock
\* and reads every setting in one query.
Checks(at, ask) ==
  /\ guard = NoAdmission /\ checks < MaxChecks
  /\ checks' = checks + 1
  /\ guard' = [step |-> "read", id |-> checks + 1, at |-> at, ask |-> ask, vals |-> setting]
  /\ UNCHANGED <<ledgerVars, setting, marks, live, denied, alertVars, commandVars>>

\* Fault: marks are pruned by every admission a trip refuses.
RefusedByTripPruning ==
  /\ guard.step = "read" /\ Readable(guard.vals)
  /\ LiveTrip(guard.vals, guard.at) # {}
  /\ denied' = denied \cup {Denial(t) : t \in LiveTrip(guard.vals, guard.at)}
  /\ marks' = {} /\ guard' = NoAdmission
  /\ UNCHANGED <<ledgerVars, setting, live, checks, alertVars, commandVars>>

\* A trip that has not run out refuses, and names its incident.
RefusedByTrip ==
  /\ guard.step = "read" /\ Readable(guard.vals)
  /\ LiveTrip(guard.vals, guard.at) # {}
  /\ denied' = denied \cup {Denial(t) : t \in LiveTrip(guard.vals, guard.at)}
  /\ guard' = NoAdmission
  /\ UNCHANGED <<ledgerVars, setting, marks, live, checks, alertVars, commandVars>>

\* A ban, a cap, a call without a price, or settings and usage that cannot be
\* read refuse as well, and leave the fuses alone.
RefusedElsewhere ==
  /\ guard.step = "read"
  /\ guard' = NoAdmission
  /\ UNCHANGED <<ledgerVars, setting, marks, live, denied, checks, alertVars, commandVars>>

Crosses ==
  /\ guard.step = "read" /\ Readable(guard.vals)
  /\ LiveTrip(guard.vals, guard.at) = {}
  /\ \E t \in Trips(guard) : guard' = [step |-> "prune", trip |-> t]
  /\ UNCHANGED <<ledgerVars, setting, marks, live, denied, checks, alertVars, commandVars>>

Admits ==
  /\ guard.step = "read" /\ Readable(guard.vals)
  /\ LiveTrip(guard.vals, guard.at) = {} /\ Trips(guard) = {}
  /\ Cardinality(live) < MaxLive
  /\ LET ps == Positions(guard.vals, guard.at)
         amount == IF ps = <<>> THEN 0
                   ELSE IF guard.ask = Unbounded THEN Headroom(ps) ELSE guard.ask
     IN live' = live \cup {[id |-> guard.id, at |-> guard.at, amount |-> amount]}
  /\ guard' = NoAdmission
  /\ UNCHANGED <<ledgerVars, setting, marks, denied, checks, alertVars, commandVars>>

\* The marks of earlier incidents go before the trip is written.
Prunes ==
  /\ guard.step = "prune"
  /\ marks' = {}
  /\ guard' = [guard EXCEPT !.step = "write"]
  /\ UNCHANGED <<ledgerVars, setting, live, denied, checks, alertVars, commandVars>>

WritesTrip ==
  /\ guard.step = "write"
  /\ setting' = [setting EXCEPT !["trip"] = {guard.trip}]
  /\ denied' = denied \cup {Denial(guard.trip)}
  /\ guard' = NoAdmission
  /\ UNCHANGED <<ledgerVars, marks, live, checks, alertVars, commandVars>>

\* One of the two writes fails: the call is refused, the rest not written.
TripFails ==
  /\ guard.step \in {"prune", "write"}
  /\ guard' = NoAdmission
  /\ UNCHANGED <<ledgerVars, setting, marks, live, denied, checks, alertVars, commandVars>>

\* The answer arrived: a row at the call's own reading takes its place.
Settles(c, cost) ==
  /\ c \in live
  /\ usd' = [usd EXCEPT ![c.at] = @ + cost]
  /\ calls' = [calls EXCEPT ![c.at] = @ + 1]
  /\ live' = live \ {c}
  /\ UNCHANGED <<clock, median, setting, marks, guard, denied, checks, alertVars, commandVars>>

Released(c) ==
  /\ c \in live
  /\ live' = live \ {c}
  /\ UNCHANGED <<ledgerVars, setting, marks, guard, denied, checks, alertVars, commandVars>>

Restarts ==
  /\ live' = {} /\ guard' = NoAdmission /\ denied' = {}
  /\ UNCHANGED <<ledgerVars, setting, marks, checks, alertVars, commandVars>>

\* A refused handler announces its incident unless the mark is there.  Claims
\* in memory, which keep two deliveries of one mark apart, and deliveries that
\* fail are followed in WebhookAlerts.
Announces(d) ==
  /\ d \in denied /\ d.key \notin marks
  /\ denied' = denied \ {d}
  /\ told' = [told EXCEPT ![d.id] = @ + 1]
  /\ marks' = marks \cup {d.key}
  /\ UNCHANGED <<ledgerVars, setting, live, guard, checks, silent, commandVars>>

KeepsSilent(d) ==
  /\ d \in denied /\ d.key \in marks
  /\ denied' = denied \ {d}
  /\ silent' = silent \cup {d.id}
  /\ UNCHANGED <<ledgerVars, setting, marks, live, guard, checks, told, commandVars>>

-----------------------------------------------------------------------------
(* Commands.                                                               *)

Valid(field) == \A v \in field[2] : ReadableRule(field[1], v)

OffWrites == << <<"hourly", {}>>, <<"burst", {}>>, <<"fanout", {}>>, <<"baseline", {}>>,
                <<"cooldown", {}>>, <<"trip", {}>>, <<"marks", {}>> >>

Begins(s, action, todo) ==
  /\ job[s] = NoJob /\ commands < MaxCommands
  /\ commands' = commands + 1
  /\ job' = [job EXCEPT ![s] = [action |-> action, todo |-> todo, wrote |-> 0]]
  /\ UNCHANGED <<ledgerVars, setting, marks, serverVars, checks, alertVars, ended, forgotten>>

\* The command line checks every flag before it opens the ledger, the
\* dashboard's handler each field when its turn comes.
SetByCLI(fields) ==
  /\ \A i \in DOMAIN fields : Valid(fields[i])
  /\ Begins("cli", "set", fields)
SetByWeb(fields) == Begins("web", "set", fields)

RefusedByCLI(fields) ==
  /\ job["cli"] = NoJob /\ commands < MaxCommands
  /\ \E i \in DOMAIN fields : ~Valid(fields[i])
  /\ commands' = commands + 1
  /\ ended' = [refused |-> TRUE, wrote |-> 0]
  /\ UNCHANGED <<ledgerVars, setting, marks, serverVars, checks, alertVars, job, forgotten>>

Off(s) == Begins(s, "off", OffWrites)
Reset(s) == Begins(s, "reset", << <<"trip", {}>> >>)

Pending(s) == job[s] # NoJob /\ job[s].todo # <<>>

Stores(s) ==
  /\ Pending(s) /\ Valid(Head(job[s].todo))
  /\ LET key == Head(job[s].todo)[1] IN
       IF key = "marks"
       THEN /\ marks' = {} /\ forgotten' = forgotten \cup {id \in DOMAIN told : told[id] > 0}
            /\ UNCHANGED setting
       ELSE /\ setting' = [setting EXCEPT ![key] = Head(job[s].todo)[2]]
            /\ UNCHANGED <<marks, forgotten>>
  /\ job' = [job EXCEPT ![s].todo = Tail(@), ![s].wrote = @ + 1]
  /\ UNCHANGED <<ledgerVars, serverVars, checks, alertVars, commands, ended>>

RefusedByWeb ==
  /\ Pending("web") /\ ~Valid(Head(job["web"].todo))
  /\ job' = [job EXCEPT !["web"] = NoJob]
  /\ ended' = [refused |-> TRUE, wrote |-> job["web"].wrote]
  /\ UNCHANGED <<ledgerVars, setting, marks, serverVars, checks, alertVars, commands, forgotten>>

\* A write fails or the process ends between two writes; or all are done, and
\* the command reports the status.
Ends(s) ==
  /\ job[s] # NoJob
  /\ job' = [job EXCEPT ![s] = NoJob]
  /\ ended' = [refused |-> FALSE, wrote |-> job[s].wrote]
  /\ UNCHANGED <<ledgerVars, setting, marks, serverVars, checks, alertVars, commands, forgotten>>

Next ==
  \/ Tick
  \/ \E at \in {clock, clock - 1} \cap Nat, ask \in Ask : Checks(at, ask)
  \/ RefusedByTrip \/ RefusedElsewhere \/ Crosses \/ Admits
  \/ Prunes \/ WritesTrip \/ TripFails
  \/ \E c \in live : Released(c) \/ \E cost \in Cost : Settles(c, cost)
  \/ Restarts
  \/ \E d \in denied : Announces(d) \/ KeepsSilent(d)
  \/ \E fields \in Change : SetByCLI(fields) \/ SetByWeb(fields) \/ RefusedByCLI(fields)
  \/ \E s \in Surface : Off(s) \/ Reset(s) \/ Stores(s) \/ Ends(s)
  \/ RefusedByWeb

Spec == Init /\ [][Next]_vars

-----------------------------------------------------------------------------
\* Whatever the surfaces and the guard store, in whatever order and wherever
\* they stop, is accepted when it is read back.  A value the guard writes and
\* its own parser refuses would fail every admission closed until an operator
\* removes it (fuse.go:529, budget.go:836).
GuardIsNeverWedged == Readable(setting)

\* The status shown while nothing is in flight foretells the guard: it shows
\* a pause or a rule without headroom exactly when the next call, however
\* small, is refused by a fuse.  The two are computed by different code
\* (fuse.go:320, budget.go:978).
StatusForetellsTheGuard ==
  LET free == [id |-> 0, at |-> clock, ask |-> 0, vals |-> setting]
      status == Status(setting, clock)
  IN live = {} =>
       ((LiveTrip(setting, clock) # {} \/ Trips(free) # {})
          <=> (status.tripped \/ 0 \in status.rules \cup status.fanout))

\* Nobody keeps silent on an incident that was not announced: a mark left by
\* an earlier incident, or written late, never stands for a later one
\* (fuse.go:673).
NoIncidentIsSilenced == \A id \in silent : told[id] > 0

\* An incident whose trip still stands is announced once, however the trip's
\* two writes, a restart, a reset and refused handlers that arrive late fall
\* together, unless `fuse --off` cleared its mark meanwhile (fuse.go:676).
\* Once it has run out, the next trip's first write clears its mark, and a
\* handler refused under it that is late announces it again.
StandingTripToldOnce ==
  \A t \in LiveTrip(setting, clock) : told[t.id] > 1 => t.id \in forgotten

\* Stated of the dashboard by README.md:142 ("the exact CLI semantics and
\* validation bounds"): a change that is refused changed nothing.
RefusedChangesNothing == ended.refused => ended.wrote = 0
=============================================================================
