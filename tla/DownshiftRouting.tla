--------------------------- MODULE DownshiftRouting ---------------------------
(***************************************************************************)
(* Downshift routing over its life: operators simulate, apply and disable  *)
(* configurations (cmd_downshift.go, store/downshift.go) while requests    *)
(* are planned under the configuration active as they come in, admitted,   *)
(* forwarded and recorded (proxy/downshift.go, proxy.forward).             *)
(*                                                                         *)
(* A document is named by the digest of its content, so a configuration    *)
(* stands for its digest.  The budget's utilisation and the verdicts of    *)
(* policy and guard are inputs: BudgetGuard and PolicyEngine say how they  *)
(* come about.  The ledger is not pruned here.                             *)
(***************************************************************************)
EXTENDS DownshiftDecision

CONSTANTS
  Config,      \* the configurations operators have on file
  Client,      \* [request, sender] of what clients send
  Shape,       \* Shape[route]: the dialect of a configured route
  Price,       \* Price[<<route, model>>]
  Pct,         \* utilisations of the fullest budget; -1 for no budget
  Operator, Handler,
  MaxRows, MaxSims, MaxAudit

None == [revision |-> 0]

\* Assumed by whoever instantiates the module.
RoutingAssumption ==
  /\ {MaxRows, MaxSims, MaxAudit} \subseteq Nat
  /\ \A c \in Config : ValidConfig(c)
  /\ Pct \subseteq -1..100

VARIABLES
  ledger,     \* requests: rows in order of booking
  sims,       \* downshift_simulations: [config, report], append-only
  stored,     \* downshift_documents: [config, sim, forced], one per config
  active,     \* downshift_active: the configuration of slot 1, or None
  audit,      \* downshift_audit: [action, config, sim, forced], append-only
  command,    \* command[o]: what operator o is in the middle of
  flight      \* flight[h]: the request of handler h

tables == <<sims, stored, active, audit>>
vars == <<ledger, tables, command, flight>>

Nothing == [at |-> "idle"]

Init ==
  /\ ledger = <<>> /\ sims = <<>> /\ audit = <<>>
  /\ stored = {} /\ active = None
  /\ command = [o \in Operator |-> Nothing]
  /\ flight = [h \in Handler |-> Nothing]

-----------------------------------------------------------------------------
(* The operators' commands.                                                *)

\* runDownshiftSimulation: the replay of the ledger, its report to be stored.
Replay(c) == [config |-> c, report |-> Report(c, ledger, Price)]

Simulate(o, c) ==
  /\ command[o].at = "idle" /\ Len(sims) < MaxSims
  /\ sims' = Append(sims, Replay(c))
  /\ UNCHANGED <<ledger, stored, active, audit, command, flight>>

\* "apply" begins with a simulation of its own.
Review(o, c) ==
  /\ command[o].at = "idle" /\ Len(sims) < MaxSims
  /\ sims' = Append(sims, Replay(c))
  /\ command' = [command EXCEPT ![o] = [at |-> "apply", config |-> c, sim |-> Len(sims) + 1]]
  /\ UNCHANGED <<ledger, stored, active, audit, flight>>

\* The switch of ApplyDownshiftDocument on the active document.
Supersedes(c) ==
  /\ c.revision >= active.revision
  /\ c.revision = active.revision => c = active

\* Fault: any match is evidence enough.
ReviewedByMatch(c, sim) == c.mode = "observe" \/ sims[sim].report.matched > 0

\* A simulation of this very content with a costed, compatible request.
Reviewed(c, sim) ==
  \/ c.mode = "observe"
  \/ sims[sim].config = c /\ sims[sim].report.eligible > 0

\* One transaction.  The same active digest again is no change at all; a
\* digest seen before keeps its first row.
Activates(c, sim, forced) ==
  IF c = active THEN UNCHANGED <<stored, active, audit>>
  ELSE /\ stored' = IF \E d \in stored : d.config = c THEN stored
                    ELSE stored \cup {[config |-> c, sim |-> sim, forced |-> forced]}
       /\ active' = c
       /\ audit' = Append(audit, [action |-> "apply", config |-> c, sim |-> sim, forced |-> forced])

Apply(o) ==
  /\ command[o].at = "apply" /\ Len(audit) < MaxAudit
  /\ LET c == command[o].config
         sim == command[o].sim
     IN IF Supersedes(c) /\ (c = active \/ Reviewed(c, sim))
        THEN Activates(c, sim, FALSE)
        ELSE UNCHANGED <<stored, active, audit>>
  /\ command' = [command EXCEPT ![o] = Nothing]
  /\ UNCHANGED <<ledger, sims, flight>>

\* apply --force --force-reason.
Force(o, c) ==
  /\ command[o].at = "idle" /\ Len(audit) < MaxAudit
  /\ Supersedes(c)
  /\ Activates(c, 0, TRUE)
  /\ UNCHANGED <<ledger, sims, command, flight>>

Disable(o) ==
  /\ command[o].at = "idle" /\ Len(audit) < MaxAudit
  /\ active # None
  /\ active' = None
  /\ audit' = Append(audit, [action |-> "disable", config |-> active, sim |-> 0, forced |-> FALSE])
  /\ UNCHANGED <<ledger, sims, stored, command, flight>>

-----------------------------------------------------------------------------
(* The requests.                                                           *)

\* Runtime.Active: what a handler routes by, its compiled form cached by
\* digest, so never an older one than the row read.
Running == active

\* The plan of a request, its action changed.
Planned(q, who, c, pct, denied) ==
  LET rules == IF c = None THEN {} ELSE RulesFor(c, q.route, q.model)
  IN IF rules = {} THEN "none"
     ELSE Plan(c, CHOOSE r \in rules : TRUE, q, who, Shape, Price, pct, denied)

\* prepareDownshift reads the active document and the utilisation once.  The
\* policy has let the source through; it sees a target too.
Arrive(h, q, who) ==
  /\ flight[h].at = "idle" /\ Len(ledger) < MaxRows
  /\ \E pct \in Pct :
       flight' = [flight EXCEPT ![h] =
         [ at |-> "admit", request |-> q, sender |-> who, config |-> Running,
           pct |-> pct, action |-> Planned(q, who, Running, pct, FALSE) ]]
  /\ UNCHANGED <<ledger, tables, command>>

\* The target's policy or the guard refuses what was planned: the plan is
\* undone and nothing is sent.  A decision to warn needs nothing undone.
Denied(h) ==
  /\ flight[h].at = "admit"
  /\ flight' = [flight EXCEPT ![h] = Nothing]
  /\ UNCHANGED <<ledger, tables, command>>

\* The guard refuses the source for its price, or its size: the target is
\* tried if the configuration of the plan says so, whatever is active now.
RetryDenied(h) ==
  /\ flight[h].at = "admit" /\ flight[h].action # "downshift"
  /\ flight[h].config # None
  /\ LET f == flight[h]
     IN /\ Planned(f.request, f.sender, f.config, f.pct, TRUE) = "downshift"
        /\ flight' = [flight EXCEPT ![h].action = "downshift"]
  /\ UNCHANGED <<ledger, tables, command>>

\* Admitted, forwarded and settled: the receipt goes to the ledger.  The
\* provider's usage prices the row, or does not.
Book(h) ==
  /\ flight[h].at = "admit" /\ Len(ledger) < MaxRows
  /\ \E priced \in BOOLEAN :
       LET f == flight[h]
       IN ledger' = Append(ledger, RowOf(f.config, f.request, f.sender, f.action, priced))
  /\ flight' = [flight EXCEPT ![h] = Nothing]
  /\ UNCHANGED <<tables, command>>

Next ==
  \/ \E o \in Operator, c \in Config :
       Simulate(o, c) \/ Review(o, c) \/ Force(o, c)
  \/ \E o \in Operator : Apply(o) \/ Disable(o)
  \/ \E h \in Handler, m \in Client : Arrive(h, m.request, m.sender)
  \/ \E h \in Handler : Denied(h) \/ RetryDenied(h) \/ Book(h)

Spec == Init /\ [][Next]_vars

-----------------------------------------------------------------------------
(* Properties.                                                             *)

\* What a row really shows for a configuration: it was answered by the model
\* it asked for, its sender was who a scoped rule names, and the mapping can
\* carry it.
Shows(c, row) ==
  /\ row.action # "downshift" /\ row.priced
  /\ \E rule \in c.rules :
       /\ SourceKey(rule) = row.key
       /\ Eligible(rule, Features(row.request))
       /\ rule.scope = "any" \/ (row.truly = "authenticated" /\ row.project = rule.scope)

\* No model is replaced on an operator's say-so alone: whatever was sent to
\* another model went under a configuration activated by force and audited, or
\* after an earlier row of the ledger had really shown a request the mapping
\* can carry, priced and from whom a scope names (ApplyDownshiftDocument with
\* its caller, the replay, and the plan a handler keeps across its retry).
ReplacedOnEvidence ==
  \A i \in DOMAIN ledger : ledger[i].action = "downshift" =>
    \E k \in DOMAIN audit :
      /\ audit[k].action = "apply" /\ audit[k].config = ledger[i].digest
      /\ audit[k].forced \/ \E j \in 1..i-1 : Shows(ledger[i].digest, ledger[j])
================================================================================
