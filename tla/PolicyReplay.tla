------------------------------ MODULE PolicyReplay ------------------------------
(***************************************************************************)
(* The historical replay of a policy document (internal/policy/simulate.go,*)
(* cmd_policy.go) against the admissions it replays (internal/policy/      *)
(* engine.go).  Admissions read a clock of Second ticks to the second; the *)
(* ledger keeps whole seconds; the replay sorts the rows and walks one     *)
(* history of prefix sums per rule, with one cursor per limit.             *)
(*                                                                         *)
(* A call: project, authentic (whether that is authorised), model, input,  *)
(* output (-1 without a bound) and cost (-1 when it cannot be bounded).    *)
(* A sample, a row of the ledger: its ts and end, call and whether the     *)
(* bounds of its admission are known.                                      *)
(* A rule: id, mode, projects ({} for all), denied models, bound (an output*)
(* bound is required), limits, concurrency (0 for none).                   *)
(* A limit: id, kind, window in ticks, type, max.                          *)
(***************************************************************************)
EXTENDS Integers, Sequences, FiniteSets, Sums

CONSTANTS Document,     \* the policy documents: sets of rules
          Call,         \* what clients send
          Handler,
          Second,       \* clock ticks in a second
          MaxTime, MaxRows,
          MaxBreakdown  \* bound of the code: values a breakdown lists

LimitKind == {"requests", "input", "output", "total", "dollars"}
Mode == {"observe", "warn", "enforce"}

\* validate: what Parse lets through.
Limits == [id : STRING, kind : LimitKind, type : {"rolling", "fixed"}, window : Nat, max : Nat \ {0}]

ValidRule(r) ==
  /\ r \in [ id : STRING, mode : Mode, projects : SUBSET STRING, denied : SUBSET STRING,
             bound : BOOLEAN, limits : SUBSET Limits, concurrency : Nat ]
  /\ \A l \in r.limits : l.window >= Second
  /\ \A l, k \in r.limits : l # k => <<l.kind, l.id>> # <<k.kind, k.id>>
  /\ r.denied # {} \/ r.limits # {} \/ r.concurrency # 0 \/ r.bound

ValidDocument(d) ==
  /\ d # {} /\ \A r \in d : ValidRule(r)
  /\ \A r, s \in d : r # s => r.id # s.id

ValidCall(c) ==
  /\ c = [ project |-> c.project, authentic |-> c.authentic, model |-> c.model,
           input |-> c.input, output |-> c.output, cost |-> c.cost ]
  /\ c.authentic \in BOOLEAN /\ c.input \in Nat /\ {c.output, c.cost} \subseteq Nat \cup {-1}

\* Assumed by whoever instantiates the module.
ReplayAssumption ==
  /\ Second \in Nat \ {0} /\ {MaxTime, MaxRows, MaxBreakdown} \subseteq Nat
  /\ IsFiniteSet(Handler)
  /\ \A d \in Document : ValidDocument(d)
  /\ \A c \in Call : ValidCall(c)

-----------------------------------------------------------------------------
(* What the engine and the replay share.                                   *)

\* EstimatedTokensForKind, ConservativeCostMicroUSD: -1 for an amount that
\* cannot be bounded.
Requested(kind, c) ==
  CASE kind = "requests" -> 1
    [] kind = "input" -> c.input
    [] kind = "output" -> c.output
    [] kind = "total" -> IF c.output = -1 THEN -1 ELSE c.input + c.output
    [] kind = "dollars" -> c.cost

\* The amount an admission counts: nothing of what has no bound.
Amount(kind, c) == IF Requested(kind, c) = -1 THEN 0 ELSE Requested(kind, c)

WindowStart(ts, l) == IF l.type = "rolling" THEN ts - l.window ELSE ts - (ts % l.window)

\* applicableRules: an enforcing rule does not disappear for a project the
\* client only claims.
Applies(r, c) ==
  r.projects = {} \/ c.project \in r.projects \/ (r.mode = "enforce" /\ ~c.authentic)

\* staticViolations and the identity an enforcing scoped rule asks for.
NeedsBound(r) == r.bound \/ \E l \in r.limits : l.kind \in {"output", "total"}

Barred(r, c, known) ==
  \/ c.model \in r.denied
  \/ r.mode = "enforce" /\ r.projects # {} /\ ~c.authentic
  \/ NeedsBound(r) /\ c.output = -1 /\ known

\* A limit that the call would pass on top of what its window holds.
Exceeds(l, c, used) ==
  IF Requested(l.kind, c) = -1 THEN l.kind = "dollars"
  ELSE used + Requested(l.kind, c) > l.max

-----------------------------------------------------------------------------
(* The replay.                                                             *)

\* Fault: the event at the cutoff is left out.
AdvancedPast(events, first, cutoff) ==
  LET past == {i \in first+1..Len(events) : \A j \in first+1..i : events[j].ts <= cutoff}
  IN first + Cardinality(past)

\* advanceSimulationCursor: past the events before the cutoff.
Advanced(events, first, cutoff) ==
  LET past == {i \in first+1..Len(events) : \A j \in first+1..i : events[j].ts < cutoff}
  IN first + Cardinality(past)

\* Fault: the prefix before the window is not taken off.
WindowPrefixWhole(events, first, kind) ==
  IF first >= Len(events) THEN 0 ELSE events[Len(events)].sum[kind]

\* simWindowPrefix: the difference of two prefix sums.
WindowPrefix(events, first, kind) ==
  IF first >= Len(events) THEN 0
  ELSE events[Len(events)].sum[kind] - (IF first > 0 THEN events[first].sum[kind] ELSE 0)

\* The event a sample leaves in a rule's history.
Extended(events, s) ==
  LET before == IF events = <<>> THEN [kind \in LimitKind |-> 0] ELSE events[Len(events)].sum
  IN Append(events, [ts |-> s.ts, sum |-> [kind \in LimitKind |-> before[kind] + Amount(kind, s.call)]])

\* The samples, of those numbered, that had not ended by ts.
Flying(samples, numbers, ts) == {n \in numbers : samples[n].end > ts}

\* Only a limit the sample can be held against moves its cursor.
Moved(d, m, s) ==
  [x \in DOMAIN m.cursor |->
    LET r == CHOOSE r \in d : r.id = x[1]
        l == CHOOSE l \in r.limits : <<l.kind, l.id>> = <<x[2], x[3]>>
    IN IF Applies(r, s.call) /\ Requested(l.kind, s.call) # -1
       THEN Advanced(m.history[r.id], m.cursor[x], WindowStart(s.ts, l))
       ELSE m.cursor[x]]

Violates(r, m, cursor, samples, i) ==
  LET s == samples[i] IN
  \/ Barred(r, s.call, s.known)
  \/ \E l \in r.limits :
       Exceeds(l, s.call, WindowPrefix(m.history[r.id], cursor[<<r.id, l.kind, l.id>>], l.kind))
  \/ r.concurrency > 0 /\ Cardinality(Flying(samples, m.flying[r.id], s.ts)) + 1 > r.concurrency

\* All applicable rules intersect: enforce blocks, else warn, else observe.
OutcomeOf(broken) ==
  CASE \E r \in broken : r.mode = "enforce" -> "block"
    [] ~(\E r \in broken : r.mode = "enforce") /\ \E r \in broken : r.mode = "warn" -> "warn"
    [] broken # {} /\ \A r \in broken : r.mode = "observe" -> "observe"
    [] OTHER -> "allow"

Broken(d, m, samples, i) ==
  {r \in d : Applies(r, samples[i].call) /\ Violates(r, m, Moved(d, m, samples[i]), samples, i)}

\* One sample.  What is blocked leaves no event.
Replayed(d, m, samples, i) ==
  LET s == samples[i]
      rules == {r \in d : Applies(r, s.call)}
      passed == IF OutcomeOf(Broken(d, m, samples, i)) = "block" THEN {} ELSE {r.id : r \in rules}
  IN [ history |-> [x \in DOMAIN m.history |->
                      IF x \in passed THEN Extended(m.history[x], s) ELSE m.history[x]],
       cursor |-> Moved(d, m, s),
       flying |-> [x \in DOMAIN m.flying |->
                    (IF \E r \in rules : r.id = x THEN Flying(samples, m.flying[x], s.ts) ELSE m.flying[x])
                      \cup (IF x \in passed /\ s.end > s.ts THEN {i} ELSE {})] ]

Fresh(d) ==
  [ history |-> [i \in {r.id : r \in d} |-> <<>>],
    cursor |-> [x \in UNION {{<<r.id, l.kind, l.id>> : l \in r.limits} : r \in d} |-> 0],
    flying |-> [i \in {r.id : r \in d} |-> {}] ]

\* The export's order, the time of a row and then its number.
Precedes(samples, i, j) ==
  samples[i].ts < samples[j].ts \/ (samples[i].ts = samples[j].ts /\ i < j)

Place(samples, j) == 1 + Cardinality({i \in DOMAIN samples : Precedes(samples, i, j)})

InOrder(samples) ==
  [n \in DOMAIN samples |-> samples[CHOOSE j \in DOMAIN samples : Place(samples, j) = n]]

Verdict(broken) == [outcome |-> OutcomeOf(broken), rules |-> {r.id : r \in broken}]

\* What the replay holds after the first n samples.
Memory(d, samples) ==
  LET memory[n \in 0..Len(samples)] ==
        IF n = 0 THEN Fresh(d) ELSE Replayed(d, memory[n - 1], samples, n)
  IN memory

Simulate(d, samples) ==
  LET memory == Memory(d, samples)
  IN [i \in DOMAIN samples |-> Verdict(Broken(d, memory[i - 1], samples, i))]

\* The breakdown by model: calls counted once at their outcome, for the first
\* values seen, the others left out and said to be; an empty value is none.
NoModel == ""

Listed(b, model) ==
  IF model \in DOMAIN b.calls THEN [b EXCEPT !.calls[model] = @ + 1]
  ELSE IF Cardinality(DOMAIN b.calls) >= MaxBreakdown THEN [b EXCEPT !.limited = TRUE]
  ELSE [b EXCEPT !.calls = [v \in DOMAIN @ \cup {model} |-> IF v = model THEN 1 ELSE @[v]]]

Breakdowns(outcomes, samples) ==
  LET listed[n \in 0..Len(samples)] ==
        IF n = 0 THEN [calls |-> [v \in {} |-> 0], limited |-> FALSE]
        ELSE IF outcomes[n].outcome = "allow" \/ samples[n].call.model = NoModel THEN listed[n - 1]
        ELSE Listed(listed[n - 1], samples[n].call.model)
  IN listed

Breakdown(outcomes, samples) == Breakdowns(outcomes, samples)[Len(samples)]

-----------------------------------------------------------------------------
(* The admissions.                                                         *)

VARIABLES now,      \* the clock, in ticks
          doc,      \* the document in force
          ruled,    \* a policy is in force: without one, rows are of the old kind
          flight,   \* what each handler is doing
          counted,  \* the engine's accepted and pending admissions: a set of
                    \* [ts, call, by, row], row the ledger row it became, or 0
          rows      \* the ledger, in order of insertion

vars == <<now, doc, ruled, flight, counted, rows>>

Idle == [at |-> "idle"]

Init ==
  /\ now = 0 /\ doc \in Document /\ ruled \in BOOLEAN
  /\ flight = [h \in Handler |-> Idle]
  /\ counted = {} /\ rows = <<>>

Floor(ts) == ts - (ts % Second)

Tick == now < MaxTime /\ now' = now + 1 /\ UNCHANGED <<doc, ruled, flight, counted, rows>>

Arrive(h, c) ==
  /\ flight[h] = Idle
  /\ Cardinality({g \in Handler : flight[g] # Idle}) + Len(rows) < MaxRows
  /\ flight' = [flight EXCEPT ![h] = [at |-> "arrived", ts |-> now, call |-> c]]
  /\ UNCHANGED <<now, doc, ruled, counted, rows>>

\* Prepare, by the clock the handler read as it came in: what is counted in
\* the window, later arrivals included.
Used(l, r, ts) ==
  SumOf([e \in counted |-> Amount(l.kind, e.call)],
        {e \in counted : Applies(r, e.call) /\ e.ts >= WindowStart(ts, l)})

Slots(r) == Cardinality({h \in Handler : flight[h].at = "forwarded" /\ Applies(r, flight[h].call)})

Denied(f) ==
  \E r \in doc :
    /\ r.mode = "enforce" /\ Applies(r, f.call)
    /\ \/ Barred(r, f.call, TRUE)
       \/ \E l \in r.limits : Exceeds(l, f.call, Used(l, r, f.ts))
       \/ r.concurrency > 0 /\ Slots(r) + 1 > r.concurrency

Prepare(h) ==
  /\ flight[h].at = "arrived" /\ ruled
  /\ IF Denied(flight[h])
     THEN flight' = [flight EXCEPT ![h] = Idle] /\ UNCHANGED counted
     ELSE /\ flight' = [flight EXCEPT ![h].at = "forwarded"]
          /\ counted' = counted \cup {[ts |-> flight[h].ts, call |-> flight[h].call, by |-> h, row |-> 0]}
  /\ UNCHANGED <<now, doc, ruled, rows>>

\* Without a policy there is nothing to prepare.
PassThrough(h) ==
  /\ flight[h].at = "arrived" /\ ~ruled
  /\ flight' = [flight EXCEPT ![h].at = "forwarded"]
  /\ UNCHANGED <<now, doc, ruled, counted, rows>>

\* The guard refuses what the policy let through: the reservation is undone.
Cancel(h) ==
  /\ flight[h].at = "forwarded" /\ ruled
  /\ flight' = [flight EXCEPT ![h] = Idle]
  /\ counted' = {e \in counted : e.by # h \/ e.row # 0}
  /\ UNCHANGED <<now, doc, ruled, rows>>

\* historicalPolicyContext: the context stored with the decision, or, for a
\* row without one, what the ledger knows.
Context(c) == IF ruled THEN c ELSE [c EXCEPT !.output = -1, !.project = "", !.authentic = FALSE]

\* Settled: a row at the whole second, ended by its latency from there.
Book(h) ==
  /\ flight[h].at = "forwarded"
  /\ LET f == flight[h]
     IN rows' = Append(rows, [ ts |-> Floor(f.ts), end |-> Floor(f.ts) + (now - f.ts),
                               call |-> Context(f.call), known |-> ruled ])
  /\ flight' = [flight EXCEPT ![h] = Idle]
  /\ counted' = {IF e.by = h /\ e.row = 0 THEN [e EXCEPT !.row = Len(rows) + 1] ELSE e : e \in counted}
  /\ UNCHANGED <<now, doc, ruled>>

Next ==
  \/ Tick
  \/ \E h \in Handler, c \in Call : Arrive(h, c)
  \/ \E h \in Handler : Prepare(h) \/ PassThrough(h) \/ Cancel(h) \/ Book(h)

Spec == Init /\ [][Next]_vars

-----------------------------------------------------------------------------
(* Properties.                                                             *)

\* The reference: a sample against every earlier one that was let through,
\* summed anew; outcomes are right if each is what those before it ask for.
Expected(d, samples, outcomes, i) ==
  LET s == samples[i]
      before(r) == {j \in 1..i-1 : outcomes[j].outcome # "block" /\ Applies(r, samples[j].call)}
      used(r, l) == SumOf([j \in 1..i-1 |-> Amount(l.kind, samples[j].call)],
                          {j \in before(r) : samples[j].ts >= WindowStart(s.ts, l)})
      flying(r) == {j \in before(r) : samples[j].end > s.ts /\ samples[j].end > samples[j].ts}
  IN Verdict({r \in d : /\ Applies(r, s.call)
                        /\ \/ Barred(r, s.call, s.known)
                           \/ \E l \in r.limits : Exceeds(l, s.call, used(r, l))
                           \/ r.concurrency > 0 /\ Cardinality(flying(r)) >= r.concurrency})

\* The cursors, the prefix sums and the pruned ends of the replay tell of
\* every ledger what a sum over each window tells, although a cursor moves
\* only with the samples that can be held against its limit, and blocked
\* samples leave no trace; and the breakdown counts what it lists (Simulate).
ReplayIsExact ==
  \A d \in Document :
    LET samples == InOrder(rows)
        outcomes == Simulate(d, samples)
        listed == Breakdown(outcomes, samples)
        hit(m) == {i \in DOMAIN samples : outcomes[i].outcome # "allow" /\ samples[i].call.model = m}
        models == {m \in {c.model : c \in Call} \ {NoModel} : hit(m) # {}}
    IN /\ \A i \in DOMAIN samples : outcomes[i] = Expected(d, samples, outcomes, i)
       /\ \A m \in DOMAIN listed.calls : listed.calls[m] = Cardinality(hit(m))
       /\ listed.limited <=> models # DOMAIN listed.calls

\* A document against which every call was admitted blocks none of them in
\* the replay, in whatever order the calls were evaluated and booked, once
\* rolling windows are read a second shorter and fixed ones start at whole
\* seconds; slots, which the replay only reconstructs, left out (Prepare and
\* Simulate).
Comparable(limits) ==
  {[l EXCEPT !.window = IF l.type = "rolling" THEN @ - Second ELSE @] :
     l \in {l \in limits : l.type = "rolling" \/ l.window % Second = 0}}

Shorter(d) == {[r EXCEPT !.concurrency = 0, !.limits = Comparable(@)] : r \in d}

NoneBlocked(d) ==
  LET samples == InOrder(rows)
  IN \A i \in DOMAIN samples : Simulate(d, samples)[i].outcome # "block"

AdmittedSurvivesReplay == ruled => NoneBlocked(Shorter(doc))
=============================================================================
