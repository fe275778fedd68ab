--------------------------- MODULE DownshiftDecision ---------------------------
(***************************************************************************)
(* When a request may be sent to a cheaper model (internal/downshift and   *)
(* the plan of internal/proxy/downshift.go), as operators on records.      *)
(*                                                                         *)
(* A request is what the analysis can tell of it:                          *)
(*   shape     the dialect of the route it came in on                      *)
(*   op        the wire operation its path names                           *)
(*   bounds    the output-token bounds it states, -1 for a malformed one   *)
(*   size      its bytes, each counted as a token                          *)
(*   tools     the kinds of tools it declares                              *)
(*   thinking  it asks for, or carries, signed thinking                    *)
(*   format    the output it asks for                                      *)
(*   parts     the kinds of content it carries                             *)
(*   foreign   a header or a query that must not leave the route           *)
(* A sender is the project it names, the confidence in that, and whether   *)
(* a policy rules on it.                                                   *)
(* Prices are whole units of cost per token, 0 for an unknown price.       *)
(***************************************************************************)
EXTENDS Integers, Sequences, FiniteSets, FiniteSetsExt

Dialect == {"openai", "anthropic", "gemini"}
Modality == {"text", "image", "audio"}
Mode == {"observe", "warn_then_downshift"}

-----------------------------------------------------------------------------
(* The configuration a file or a stored document holds.                    *)

\* What names a mapping: no two rules of a configuration share it.
SourceKey(rule) == <<rule.source.route, rule.source.model>>

ValidEndpoint(e) ==
  /\ e.dialect \in Dialect
  /\ e.context > 0
  /\ e.dialect = "gemini" => ~e.segmented   \* one canonical path segment

ValidRule(rule) ==
  /\ ValidEndpoint(rule.source) /\ ValidEndpoint(rule.target)
  /\ rule.source.family = rule.target.family
  /\ rule.source.dialect = rule.target.dialect
  /\ SourceKey(rule) # SourceKey([source |-> rule.target])
  /\ rule.modalities # {} /\ rule.modalities \subseteq Modality

ValidConfig(c) ==
  /\ c.revision >= 1 /\ c.mode \in Mode
  /\ {c.warnAt, c.shiftAt} \subseteq 1..100 /\ c.warnAt <= c.shiftAt
  /\ c.rules # {}
  /\ \A rule \in c.rules : ValidRule(rule)
  /\ \A r, s \in c.rules : r # s => SourceKey(r) # SourceKey(s) /\ r.id # s.id

\* Compiled.Rule: at most one rule of a valid configuration.
RulesFor(c, route, model) == {r \in c.rules : SourceKey(r) = <<route, model>>}

-----------------------------------------------------------------------------
(* What a request asks of the model that answers it.                       *)

\* outputBound: 0 without a bound, -1 with a malformed one, else the largest.
OutputBound(q) ==
  CASE q.bounds = {} -> 0
    [] -1 \in q.bounds -> -1
    [] OTHER -> Max(q.bounds)

\* Tools the client runs itself; a hosted one belongs to its provider.  Only
\* Anthropic has a kind of thinking to refuse.
ToolsKnown(q) ==
  /\ q.tools \subseteq {"function"}
  /\ q.shape = "anthropic" => ~q.thinking

\* The formats an analysis takes, "malformed" apart: OpenAI's are listed,
\* the others' are any schema or type.
FormatKnown(q) ==
  q.format \in {"none", "text", "object", "schema"} \cup
               (IF q.shape = "openai" THEN {} ELSE {"other"})

Structured(q) ==
  q.format \in {"object", "schema", "other"} \cup
               (IF q.shape = "anthropic" THEN {"text"} ELSE {})

\* Content by dialect: Anthropic has no audio, and one level of tool results
\* ("result"; "nested" for a deeper one).
PartsKnown(q) ==
  q.parts \subseteq
    CASE q.shape = "anthropic" -> {"text", "image", "result"}
      [] OTHER -> Modality

Operation(dialect) ==
  CASE dialect = "openai" -> "chat_completions"
    [] dialect = "anthropic" -> "messages"
    [] OTHER -> "generate_content"

\* AnalyzeAt: Analyze, and the gate on the exact operation.
Features(q) ==
  LET bound == OutputBound(q)
      ok == /\ q.shape \in Dialect
            /\ bound > 0
            /\ ToolsKnown(q) /\ FormatKnown(q) /\ PartsKnown(q)
            /\ q.op = Operation(q.shape)
  IN [ compatible |-> ok, dialect |-> q.shape, bounded |-> bound > 0,
       context |-> IF bound > 0 THEN q.size + bound ELSE 0,
       tools |-> q.tools # {}, structured |-> Structured(q),
       modalities |-> {"text"} \cup (q.parts \cap Modality) ]

Eligible(rule, f) ==
  /\ f.compatible
  /\ f.dialect = rule.source.dialect /\ f.dialect = rule.target.dialect
  /\ f.bounded
  /\ f.context <= rule.source.context /\ f.context <= rule.target.context
  /\ f.tools => rule.tools
  /\ f.structured => rule.structured
  /\ f.modalities \subseteq rule.modalities

\* Fault: a label the client gave itself selects a scoped rule.
ScopeByName(scope, who) == scope = "any" \/ scope = who.project

\* A scoped rule asks for the authenticated value it names. One scope field
\* stands for the five.
ScopeMatches(scope, who) ==
  scope = "any" \/ (who.confidence = "authenticated" /\ scope = who.project)

-----------------------------------------------------------------------------
(* The decision.                                                           *)

Compatible(rule, q, who, shapes) ==
  /\ q.shape = rule.source.dialect
  /\ rule.target.route \in DOMAIN shapes
  /\ shapes[rule.target.route] = rule.target.dialect
  /\ ScopeMatches(rule.scope, who)
  /\ Eligible(rule, Features(q))

Trigger(c, pct, denied) ==
  CASE denied -> IF c.onDenial THEN "budget_denial" ELSE "none"
    [] ~denied /\ pct >= c.shiftAt -> "budget_threshold"
    [] ~denied /\ pct >= c.warnAt /\ pct < c.shiftAt -> "budget_warning"
    [] OTHER -> "none"

Decide(c, rule, q, who, shapes, pct, denied) ==
  LET trigger == Trigger(c, pct, denied)
  IN CASE ~Compatible(rule, q, who, shapes) \/ trigger = "none" -> "none"
       [] c.mode = "observe" \/ trigger = "budget_warning" -> "warn"
       [] OTHER -> "downshift"

\* RewriteRequest names the target's model: the body of two of the dialects
\* grows or shrinks with it, Gemini's path carries it.
Rewritten(rule, q) ==
  [q EXCEPT !.size = IF q.shape = "gemini" THEN @ ELSE @ + rule.target.extra]

\* The preflight bound of a request at a price.
CostBound(q, price) == price * (q.size + OutputBound(q))

\* applyDownshiftTarget.  A denied source needs no cheaper target.
Selectable(rule, q, price, denied) ==
  LET new == Rewritten(rule, q)
      source == price[SourceKey(rule)]
      target == price[SourceKey([source |-> rule.target])]
  IN /\ Eligible(rule, Features(new))
     /\ target > 0
     /\ ~denied /\ source > 0 => CostBound(new, target) < CostBound(q, source)

\* validateCrossRouteBoundary: what belongs to the source's provider stays
\* there.
Crossable(rule, q) == rule.target.route = rule.source.route \/ ~q.foreign

\* What the handler does with the decision, before policy and guard: the
\* action, where it could be taken, is shown; otherwise there is none.
Plan(c, rule, q, who, shapes, price, pct, denied) ==
  LET action == Decide(c, rule, q, who, shapes, pct, denied)
  IN IF Selectable(rule, q, price, denied) /\ Crossable(rule, q)
     THEN action ELSE "none"

-----------------------------------------------------------------------------
(* The replay of a recorded row (Simulator.Add).                           *)

\* A row of the ledger, as a request leaves it: the configuration it was
\* planned under, the receipt of its features, and what the policy decision
\* stored with it says of the confidence in its labels, "" where no policy
\* ruled on the sender.
RowOf(c, q, who, action, priced) ==
  [ digest |-> c, key |-> <<q.route, q.model>>, action |-> action, receipt |-> Features(q),
    request |-> q, project |-> who.project,
    confidence |-> IF who.ruled THEN who.confidence ELSE "",
    truly |-> who.confidence, priced |-> priced ]

\* parseFeatureReceipt takes no receipt without the operation it was analysed
\* for, which only a compatible request has.
Evidence(row) == row.action # "downshift" /\ row.receipt.compatible

Costed(rule, row, price) == row.priced /\ price[SourceKey([source |-> rule.target])] > 0

\* Fault: the labels of a row are believed.
ReplayedTrusting(rule, row, price) ==
  CASE ~Evidence(row) -> "indeterminate"
    [] Evidence(row) /\ ~(ScopeByName(rule.scope, row) /\ Eligible(rule, row.receipt)) -> "ineligible"
    [] OTHER -> IF Costed(rule, row, price) THEN "eligible" ELSE "indeterminate"

Replayed(rule, row, price) ==
  CASE ~Evidence(row) -> "indeterminate"
    [] Evidence(row) /\ ~(ScopeMatches(rule.scope, row) /\ Eligible(rule, row.receipt)) -> "ineligible"
    [] OTHER -> IF Costed(rule, row, price) THEN "eligible" ELSE "indeterminate"

Report(c, rows, price) ==
  LET matched == {i \in DOMAIN rows : RulesFor(c, rows[i].key[1], rows[i].key[2]) # {}}
      Of(class) == {i \in matched : \E rule \in c.rules :
                      /\ SourceKey(rule) = rows[i].key
                      /\ Replayed(rule, rows[i], price) = class}
  IN [ total |-> Len(rows), matched |-> Cardinality(matched),
       eligible |-> Cardinality(Of("eligible")),
       indeterminate |-> Cardinality(Of("indeterminate")) ]
================================================================================
