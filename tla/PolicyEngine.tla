----------------------------- MODULE PolicyEngine -----------------------------
(***************************************************************************)
(* The policy engine (internal/policy: Engine, Reservation) over the       *)
(* durable policy tables (internal/store: ApplyPolicyDocument,             *)
(* ResetPolicyLineage, InsertPolicyDecision, PolicyRuleUsageSince).        *)
(*                                                                         *)
(* Every evaluation intersects the rules of the active document that apply *)
(* to a request.  An allowed request holds pending counters and            *)
(* concurrency slots from Prepare on; Commit turns the pending counters    *)
(* into durable accepted ones, Cancel drops them, Release gives the slots  *)
(* back.  Documents are applied and retired by other processes meanwhile.  *)
(* The caller may do these in any legal order: ProxyForward is the caller. *)
(***************************************************************************)
EXTENDS Integers, FiniteSets, Sums

CONSTANTS
  Call,         \* request handlers
  Kind,         \* what a request says of itself: who, sure, model, units, bounded
  Namespace, Rule,
  Doc, NoDoc,   \* policy documents
  Policy,       \* Policy[d]: namespace, revision and rules of document d
  Source, NoSource,     \* owners of documents
  Publishers,   \* Publishers[d]: the sources that may apply document d
  Cutoff,       \* Cutoff[w][t]: start of window w for a reading t
  MaxTime       \* bound on the clock

Time == 0 .. MaxTime
Key == Namespace \X Rule

ASSUME PolicyAssumption ==
  /\ IsFiniteSet(Call) /\ MaxTime \in Nat
  /\ NoDoc \notin Doc /\ NoSource \notin Source
  /\ \A d \in Doc : Policy[d].ns \in Namespace /\ DOMAIN Policy[d].rules \subseteq Rule
  /\ \A k \in Kind : k.units \in Nat /\ k.sure \in BOOLEAN /\ k.bounded \in BOOLEAN
  /\ \A d \in Doc : \A r \in DOMAIN Policy[d].rules :
       LET rule == Policy[d].rules[r]
       IN  rule.concurrency \in Nat /\ \A m \in rule.requests \cup rule.amounts : m.max \in Nat

VARIABLES
  now,
  phase, start,             \* where a handler's reservation stands, its clock
  charge, vouched,          \* Reservation: the bound it counts, who vouches for it,
  doc, counted, slots,      \* its document, the rules it counts and holds a slot of
  prior,                    \* history: the calls that counted when it was prepared
  pending, inFlight,        \* the engine's memory, by namespace and rule
  accepted,                 \* durable accepted rule rows
  active, owner             \* durable: the active document, who stored each one

handlerVars == <<phase, start>>
reservationVars == <<charge, vouched, doc, counted, slots, prior>>
engineVars == <<pending, inFlight>>
documentVars == <<active, owner>>
vars == <<now, handlerVars, reservationVars, engineVars, accepted, documentVars>>

KeyOf(d, r) == <<Policy[d].ns, r>>
HasCounters(rule) == rule.requests # {} \/ rule.amounts # {}

-----------------------------------------------------------------------------
(* Evaluation of the active document for a handler c asking for k.         *)

\* Fault: a label nobody vouches for makes an enforcing rule disappear.
AppliesAsClaimed(rule, k) == rule.who = {} \/ k.who \in rule.who

\* A label nobody vouches for does not make an enforcing rule disappear.
Applies(rule, k) ==
  rule.who = {} \/ k.who \in rule.who \/ (rule.enforce /\ ~k.sure)

Applicable(k) ==
  {r \in DOMAIN Policy[active].rules : Applies(Policy[active].rules[r], k)}

\* Static violations, and an enforcing rule about an identity nobody vouches for.
Barred(rule, k) == k.model \in rule.deny \/ (rule.enforce /\ rule.who # {} /\ ~k.sure)

\* Fault: requests that are prepared but not committed are not counted.
UsedDurably(key, m, c) ==
  {e \in accepted[key] : start[e] >= Cutoff[m.window][start[c]]}

\* What already counts against limit m: accepted rows and pending reservations.
Used(key, m, c) ==
  {e \in accepted[key] \cup pending[key] : start[e] >= Cutoff[m.window][start[c]]}

Violated(r, c, k) ==
  LET rule == Policy[active].rules[r]
      key == KeyOf(active, r)
  IN  \/ Barred(rule, k)
      \/ \E m \in rule.requests : Cardinality(Used(key, m, c)) >= m.max
      \/ \E m \in rule.amounts :
           ~k.bounded \/ SumOf(charge, Used(key, m, c)) > m.max - k.units
      \/ rule.concurrency > 0 /\ inFlight[key] + 1 > rule.concurrency

Denied(c, k) ==
  \E r \in Applicable(k) : Policy[active].rules[r].enforce /\ Violated(r, c, k)

-----------------------------------------------------------------------------
Init ==
  /\ now = 0
  /\ phase = [c \in Call |-> "idle"] /\ start = [c \in Call |-> 0]
  /\ charge = [c \in Call |-> 0] /\ vouched = [c \in Call |-> FALSE]
  /\ doc = [c \in Call |-> NoDoc]
  /\ counted = [c \in Call |-> {}] /\ slots = [c \in Call |-> {}]
  /\ prior = [c \in Call |-> {}]
  /\ pending = [key \in Key |-> {}] /\ inFlight = [key \in Key |-> 0]
  /\ accepted = [key \in Key |-> {}]
  /\ active = NoDoc /\ owner = [d \in Doc |-> NoSource]

Becomes(c, p) == phase' = [phase EXCEPT ![c] = p]

\* The handler reads the clock before anything else.
Arrive(c) ==
  /\ phase[c] = "idle"
  /\ Becomes(c, "arrived")
  /\ start' = [start EXCEPT ![c] = now]
  /\ UNCHANGED <<now, reservationVars, engineVars, accepted, documentVars>>

\* A handler may evaluate again, for a downshift target, after its source
\* reservation was cancelled or when there was none.
MayEvaluate(c) == phase[c] \in {"arrived", "unruled"}

\* Without an active document there is nothing to evaluate or to reserve.
\* Otherwise the request is denied (the decision is stored, no counter moves)
\* or allowed.
PrepareDenies(c, k) ==
  /\ MayEvaluate(c) /\ active # NoDoc /\ Denied(c, k)
  /\ Becomes(c, "closed")
  /\ UNCHANGED <<now, start, reservationVars, engineVars, accepted, documentVars>>

PrepareUnruled(c) ==
  /\ MayEvaluate(c) /\ active = NoDoc
  /\ Becomes(c, "unruled")
  /\ UNCHANGED <<now, start, reservationVars, engineVars, accepted, documentVars>>

Counting == {c \in Call : phase[c] = "prepared" \/ \E key \in Key : c \in accepted[key]}
Open == {c \in Call : phase[c] \in {"prepared", "committed"}}

Prepare(c, k) ==
  /\ MayEvaluate(c) /\ active # NoDoc /\ ~Denied(c, k)
  /\ LET rules == Policy[active].rules
         count == {r \in Applicable(k) : HasCounters(rules[r])}
         slot == {r \in Applicable(k) : rules[r].concurrency > 0}
     IN  /\ counted' = [counted EXCEPT ![c] = count]
         /\ slots' = [slots EXCEPT ![c] = slot]
         /\ pending' = [key \in Key |-> IF \E r \in count : key = KeyOf(active, r)
                                        THEN pending[key] \cup {c} ELSE pending[key]]
         /\ inFlight' = [key \in Key |-> IF \E r \in slot : key = KeyOf(active, r)
                                         THEN inFlight[key] + 1 ELSE inFlight[key]]
  /\ Becomes(c, "prepared")
  /\ charge' = [charge EXCEPT ![c] = IF k.bounded THEN k.units ELSE 0]
  /\ vouched' = [vouched EXCEPT ![c] = k.sure]
  /\ doc' = [doc EXCEPT ![c] = active]
  /\ prior' = [prior EXCEPT ![c] = Counting \cup Open]
  /\ UNCHANGED <<now, start, accepted, documentVars>>

\* The document or a counter cannot be read, or a denial cannot be stored.
PrepareFails(c) ==
  /\ MayEvaluate(c)
  /\ Becomes(c, "closed")
  /\ UNCHANGED <<now, start, reservationVars, engineVars, accepted, documentVars>>

\* A closed reservation keeps nothing.
Forget(c) ==
  /\ charge' = [charge EXCEPT ![c] = 0] /\ vouched' = [vouched EXCEPT ![c] = FALSE]
  /\ doc' = [doc EXCEPT ![c] = NoDoc]
  /\ counted' = [counted EXCEPT ![c] = {}] /\ slots' = [slots EXCEPT ![c] = {}]
  /\ prior' = [e \in Call |-> IF e = c THEN {} ELSE prior[e] \ {c}]

\* releasePendingLocked
ReleasePending(c) == pending' = [key \in Key |-> pending[key] \ {c}]

\* Fault: slots are given back, without a floor, to the document active now.
ReleaseSlotsOfActive(c) ==
  inFlight' = [key \in Key |->
    IF active # NoDoc /\ \E r \in slots[c] : key = KeyOf(active, r)
    THEN inFlight[key] - 1 ELSE inFlight[key]]

\* releaseConcurrencyLocked: by the keys the reservation was prepared with.
ReleaseSlots(c) ==
  inFlight' = [key \in Key |-> IF \E r \in slots[c] : key = KeyOf(doc[c], r)
                               THEN Monus(inFlight[key], 1) ELSE inFlight[key]]

\* The counters become durable and stop pending in one step.
Commit(c) ==
  /\ phase[c] = "prepared"
  /\ Becomes(c, "committed")
  /\ accepted' = [key \in Key |-> IF \E r \in counted[c] : key = KeyOf(doc[c], r)
                                  THEN accepted[key] \cup {c} ELSE accepted[key]]
  /\ ReleasePending(c)
  /\ UNCHANGED <<now, start, reservationVars, inFlight, documentVars>>

\* The decision cannot be stored: everything is given back.
CommitFails(c) ==
  /\ phase[c] = "prepared"
  /\ Becomes(c, "closed")
  /\ ReleasePending(c) /\ ReleaseSlots(c) /\ Forget(c)
  /\ UNCHANGED <<now, start, accepted, documentVars>>

\* Cancel gives everything back, whether or not the unaccepted decision could
\* be stored.  The handler may then be evaluated again for another target.
Cancel(c) ==
  /\ phase[c] = "prepared"
  /\ Becomes(c, "arrived")
  /\ ReleasePending(c) /\ ReleaseSlots(c) /\ Forget(c)
  /\ UNCHANGED <<now, start, accepted, documentVars>>

\* The deferred Release of a forwarded request.
Release(c) ==
  /\ phase[c] = "committed"
  /\ Becomes(c, "closed")
  /\ ReleaseSlots(c)
  /\ slots' = [slots EXCEPT ![c] = {}]
  /\ UNCHANGED <<now, start, charge, vouched, doc, counted, prior, pending, accepted,
                 documentVars>>

\* The handler returns without a reservation.
Leave(c) ==
  /\ MayEvaluate(c)
  /\ Becomes(c, "closed")
  /\ UNCHANGED <<now, start, reservationVars, engineVars, accepted, documentVars>>

\* The process dies: the engine's memory is gone, the tables are not.
Restart ==
  /\ \E c \in Call : phase[c] \notin {"idle", "closed"}
  /\ phase' = [c \in Call |-> IF phase[c] = "idle" THEN "idle" ELSE "closed"]
  /\ pending' = [key \in Key |-> {}] /\ inFlight' = [key \in Key |-> 0]
  /\ UNCHANGED <<now, start, reservationVars, accepted, documentVars>>

Tick ==
  /\ now < MaxTime /\ now' = now + 1
  /\ UNCHANGED <<handlerVars, reservationVars, engineVars, accepted, documentVars>>

-----------------------------------------------------------------------------
(* Operators and connectors, in other processes.                           *)

\* A document replaces one of its own source and namespace with a lower
\* revision, and is never stored under a second source.
Apply(d, s) ==
  /\ s \in Publishers[d]
  /\ active # NoDoc =>
       /\ owner[active] = s
       /\ Policy[active].ns = Policy[d].ns
       /\ Policy[d].revision > Policy[active].revision
  /\ owner[d] \in {s, NoSource}
  /\ owner' = [owner EXCEPT ![d] = s]
  /\ active' = d
  /\ UNCHANGED <<now, handlerVars, reservationVars, engineVars, accepted>>

\* `policy reset` retires a local lineage, `policy takeover` an external one,
\* if the active document is still the one the operator saw.
ResetLineage(d, takeover) ==
  /\ active = d
  /\ takeover <=> owner[d] # "local"
  /\ active' = NoDoc
  /\ UNCHANGED <<now, handlerVars, reservationVars, engineVars, accepted, owner>>

-----------------------------------------------------------------------------
Handle(c) ==
  \/ Arrive(c)
  \/ \E k \in Kind : PrepareDenies(c, k) \/ Prepare(c, k)
  \/ PrepareUnruled(c) \/ PrepareFails(c)
  \/ Commit(c) \/ CommitFails(c) \/ Cancel(c) \/ Release(c) \/ Leave(c)

Administer ==
  \/ \E d \in Doc, s \in Source : Apply(d, s)
  \/ \E d \in Doc, takeover \in BOOLEAN : ResetLineage(d, takeover)

Next == (\E c \in Call : Handle(c)) \/ Restart \/ Tick \/ Administer

Spec == Init /\ [][Next]_vars

-----------------------------------------------------------------------------
Phase == {"idle", "arrived", "unruled", "prepared", "committed", "closed"}

TypeOK ==
  /\ now \in Time
  /\ phase \in [Call -> Phase] /\ start \in [Call -> Time]
  /\ charge \in [Call -> Nat] /\ vouched \in [Call -> BOOLEAN]
  /\ doc \in [Call -> Doc \cup {NoDoc}]
  /\ counted \in [Call -> SUBSET Rule] /\ slots \in [Call -> SUBSET Rule]
  /\ prior \in [Call -> SUBSET Call]
  /\ pending \in [Key -> SUBSET Call] /\ inFlight \in [Key -> Nat]
  /\ accepted \in [Key -> SUBSET Call]
  /\ active \in Doc \cup {NoDoc} /\ owner \in [Doc -> Source \cup {NoSource}]

Counts(c, key) == \E r \in counted[c] : key = KeyOf(doc[c], r)
Occupies(c, key) == \E r \in slots[c] : key = KeyOf(doc[c], r)

\* The engine's memory is what the open reservations add up to, across
\* revisions, lineage resets, failures and restarts: nothing leaks, and a
\* reservation of one lineage never gives back what another one holds.
CountersExact ==
  \A key \in Key :
    /\ pending[key] = {c \in Call : phase[c] = "prepared" /\ Counts(c, key)}
    /\ inFlight[key] = Cardinality({c \in Open : Occupies(c, key)})

\* The requests that count against limit m of rule r from c's point of view:
\* c, and those before it that still count.
Standing(c, key, m) ==
  {e \in (prior[c] \cap Counting) \cup {c} :
     Counts(e, key) /\ start[e] >= Cutoff[m.window][start[c]]}

EnforcedOn(c) == {r \in counted[c] : Policy[doc[c]].rules[r].enforce}

\* An allowed request and everything counted before it fit into every window
\* and every slot of every enforcing rule it was allowed under, however handlers
\* interleave between their evaluation and their commit, and whatever document
\* follows.
LimitsHold ==
  /\ \A c \in Counting : \A r \in EnforcedOn(c) :
       LET rule == Policy[doc[c]].rules[r]
           key == KeyOf(doc[c], r)
       IN  /\ \A m \in rule.requests : Cardinality(Standing(c, key, m)) <= m.max
           /\ \A m \in rule.amounts : SumOf(charge, Standing(c, key, m)) <= m.max
  /\ \A c \in Open : \A r \in slots[c] :
       LET rule == Policy[doc[c]].rules[r]
           key == KeyOf(doc[c], r)
       IN  rule.enforce =>
             Cardinality({e \in (prior[c] \cap Open) \cup {c} : Occupies(e, key)}) <= rule.concurrency

\* No request gets past an enforcing rule about identities by naming, or by
\* leaving out, an identity nobody vouches for.
UnsureNeverPassScopedRules ==
  \A c \in Open : ~vouched[c] =>
    \A r \in DOMAIN Policy[doc[c]].rules :
      LET rule == Policy[doc[c]].rules[r] IN rule.enforce => rule.who = {}
=============================================================================
