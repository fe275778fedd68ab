----------------------------- MODULE Reconciliation -----------------------------
(***************************************************************************)
(* Provider invoices beside the ledger (internal/reconcile/invoice.go,     *)
(* internal/store/reconciliation.go, cmd_reconcile.go): what a file says   *)
(* under a mapping of its columns, its import in one transaction, the      *)
(* import repeated, and the report, whose four queries are not one         *)
(* snapshot.                                                               *)
(*                                                                         *)
(* A file is its rows, each a record of columns; its digest is the file    *)
(* itself.  A day stands for a line's time, and model for model, tier and  *)
(* region, which are compared together.                                    *)
(***************************************************************************)
EXTENDS Integers, Sequences, FiniteSets, FiniteSetsExt, Functions, Sums

CONSTANTS
  File,        \* invoice files: sequences of [column -> value]
  Preset,      \* a preset of the columns: [logical -> column]
  Overlay,     \* what --columns may say: sets of [logical -> column]
  InvoiceId,   \* [provider, id] an operator may name
  Entry,       \* ledger rows: [provider, day, model, cost, priced, exact, final]
  Days,        \* the days of the report's window
  MaxMicros,   \* the largest total an int64 holds
  MaxRows, MaxImports

VARIABLES
  ledger,   \* requests, in order of insertion
  imports,  \* invoice_imports with their lines and adjustments
  answer,   \* what the last import command said, and what it had read
  report    \* a report under way or done

vars == <<ledger, imports, answer, report>>

Adjustment == {"delayed", "credit", "batch", "tax", "fee"}

NoAnswer == [said |-> "nothing"]
NoReport == [at |-> "idle"]

-----------------------------------------------------------------------------
(* The file.                                                               *)

\* resolveMapping: the overlay over the preset; no column is read twice.
Resolved(overlay) == [l \in DOMAIN Preset |-> IF l \in DOMAIN overlay THEN overlay[l] ELSE Preset[l]]

Readable(file, mapping) ==
  /\ IsInjective(mapping)
  /\ \A i \in DOMAIN file : {mapping[l] : l \in {"line", "day", "billed"}} \subseteq DOMAIN file[i]

\* parseLine under the mapping: a column the file lacks is empty.
Line(row, mapping) ==
  LET field(l, empty) == IF mapping[l] \in DOMAIN row THEN row[mapping[l]] ELSE empty
  IN [ line |-> field("line", ""), day |-> field("day", 0), billed |-> field("billed", 0),
       model |-> field("model", ""), type |-> field("type", "usage") ]

ValidLine(l) ==
  CASE l.type = "usage" -> l.billed >= 0
    [] l.type = "credit" -> l.billed < 0
    [] l.type \in Adjustment \ {"credit"} -> l.billed # 0
    [] OTHER -> FALSE

Lines(file, mapping) == {Line(file[i], mapping) : i \in DOMAIN file}

\* Assumed by whoever instantiates the module; an amount that is no number is
\* refused with its file.
ReconciliationAssumption ==
  /\ {MaxRows, MaxImports, MaxMicros} \subseteq Nat
  /\ \A e \in Entry : e.cost \in Nat /\ {e.priced, e.exact, e.final} \subseteq BOOLEAN
  /\ \A file \in File :
       /\ file \in Seq({file[i] : i \in DOMAIN file})
       /\ \A overlay \in Overlay : \A l \in Lines(file, Resolved(overlay)) : l.billed \in Int

\* CheckedAdd over the lines: the running total may not leave the int64.
Summable(file, mapping) ==
  LET total[i \in 0..Len(file)] ==
        IF i = 0 THEN 0 ELSE total[i-1] + Line(file[i], mapping).billed
  IN \A i \in DOMAIN file : total[i] \in -MaxMicros..MaxMicros

\* ParseCSV and ValidateInvoice.
ValidInvoice(file, mapping) ==
  /\ file # <<>> /\ Readable(file, mapping)
  /\ \A i \in DOMAIN file : ValidLine(Line(file[i], mapping))
  /\ \A i, j \in DOMAIN file : i # j => Line(file[i], mapping).line # Line(file[j], mapping).line
  /\ Summable(file, mapping)

\* ImportIdentity: the bytes and the effective mapping.
Identity(file, mapping) == <<file, mapping>>

-----------------------------------------------------------------------------
(* The import.                                                             *)

\* What the database may hold as a build starts: rows, and an import of a
\* build that kept no identity.
Legacy(key, file, mapping) ==
  [key |-> key, bytes |-> file, identity |-> <<>>, lines |-> Lines(file, mapping)]

Init ==
  /\ ledger = <<>> /\ answer = NoAnswer /\ report = NoReport
  /\ imports \in {{}} \cup
       {{Legacy(key, file, Resolved(overlay))} :
           key \in InvoiceId, file \in File, overlay \in Overlay}
  /\ \A m \in imports : \E overlay \in Overlay :
       ValidInvoice(m.bytes, Resolved(overlay)) /\ m.lines = Lines(m.bytes, Resolved(overlay))

\* Fault: the digests alone say that an import is a replay.
ReplayedByDigest(m, file, mapping) ==
  m.bytes = file /\ m.identity \in {<<>>, Identity(file, mapping)}

\* The digest, the identity where one was kept, and the lines themselves.
Replayed(m, file, mapping) ==
  /\ m.bytes = file
  /\ m.identity \in {<<>>, Identity(file, mapping)}
  /\ m.lines = Lines(file, mapping)

Answers(said, key, lines) == answer' = [said |-> said, key |-> key, lines |-> lines]

\* A second import of an invoice never replaces the first.
Import(key, file, overlay) ==
  LET mapping == Resolved(overlay)
      lines == Lines(file, mapping)
      existing == {m \in imports : m.key = key}
  IN /\ ValidInvoice(file, mapping)
     /\ IF existing = {}
        THEN /\ Cardinality(imports) < MaxImports
             /\ imports' = imports \cup
                  {[key |-> key, bytes |-> file, identity |-> Identity(file, mapping), lines |-> lines]}
             /\ Answers("imported", key, lines)
        ELSE /\ UNCHANGED imports
             /\ IF \E m \in existing : Replayed(m, file, mapping)
                THEN Answers("replayed", key, lines)
                ELSE Answers("conflict", key, lines)
     /\ report' = IF report.at # "idle" /\ existing = {} THEN [report EXCEPT !.raced = TRUE] ELSE report
     /\ UNCHANGED ledger

\* The file is refused, or the transaction fails: nothing of it is kept.
ImportFails(key) ==
  /\ answer' = [said |-> "failed", key |-> key, lines |-> {}]
  /\ UNCHANGED <<ledger, imports, report>>

\* The proxy goes on recording.
Insert(e) ==
  /\ Len(ledger) < MaxRows
  /\ ledger' = Append(ledger, e)
  /\ UNCHANGED <<imports, answer, report>>

-----------------------------------------------------------------------------
(* The report.                                                             *)

\* CheckedAdd: what is gained less what is lost, as credits are negative.
Sum(S, amount(_)) ==
  SumOf([x \in S |-> Monus(amount(x), 0)], S) - SumOf([x \in S |-> Monus(0, amount(x))], S)

BilledOf(lines) == Sum(lines, LAMBDA x : x[2].billed)

Key(x, provider) == [provider |-> provider, day |-> x.day, model |-> x.model]

\* Usage lines and adjustments of the imports, each with its invoice.
Usage == UNION {{<<m.key, l>> : l \in {l \in m.lines : l.type = "usage"}} : m \in imports}
Adjusted == UNION {{<<m.key, l>> : l \in {l \in m.lines : l.type # "usage"}} : m \in imports}

InWindow(S) == {x \in S : x[2].day \in Days}

\* Fault: the adjustments of every day.
AdjustmentsEver == Adjusted

ReadLedger ==
  /\ report.at \in {"idle", "done"}
  /\ report' = [ at |-> "ledger", raced |-> FALSE,
                 rows |-> {<<i, ledger[i]>> : i \in {i \in DOMAIN ledger : ledger[i].day \in Days}} ]
  /\ UNCHANGED <<ledger, imports, answer>>

ReadLines ==
  /\ report.at = "ledger"
  /\ report' = [at |-> "lines", raced |-> report.raced, rows |-> report.rows, lines |-> InWindow(Usage)]
  /\ UNCHANGED <<ledger, imports, answer>>

Adjustments == InWindow(Adjusted)

\* What a row says of how far its cost can be trusted, 0 for final.
Doubt(e) ==
  CASE ~e.priced -> 3
    [] e.priced /\ ~e.exact -> 2
    [] e.priced /\ e.exact /\ ~e.final -> 1
    [] OTHER -> 0

\* The worst doubt of a bucket counts where both sides have it; a side alone
\* is worse than an estimate.
Worst(rows, lines) ==
  LET rowKeys == {Key(x[2], x[2].provider) : x \in rows}
      lineKeys == {Key(x[2], x[1].provider) : x \in lines}
  IN Max({0} \cup {Doubt(x[2]) : x \in rows} \cup
         (IF rowKeys = lineKeys THEN {} ELSE {3}))

Level(last, worst) ==
  IF ~last THEN "unknown"
  ELSE CASE worst = 3 -> "low" [] worst = 2 -> "partial" [] worst = 1 -> "list_estimate" [] OTHER -> "high"

\* Totals by bucket: a bucket is matched when both sides have rows in it.
Totals(rows, lines, adjustments) ==
  LET priced == {x \in rows : x[2].priced}
      billedKeys == {Key(x[2], x[1].provider) : x \in lines}
      rowKeys == {Key(x[2], x[2].provider) : x \in rows}
      cost(S) == Sum(S, LAMBDA x : x[2].cost)
  IN [ estimate |-> cost(priced),
       billed |-> BilledOf(lines) + BilledOf(adjustments),
       matchedEstimate |-> cost({x \in priced : Key(x[2], x[2].provider) \in billedKeys}),
       matchedBilled |-> BilledOf({x \in lines : Key(x[2], x[1].provider) \in rowKeys}),
       unmatchedEstimate |-> cost({x \in priced : Key(x[2], x[2].provider) \notin billedKeys}),
       unmatchedBilled |-> BilledOf({x \in lines : Key(x[2], x[1].provider) \notin rowKeys}) ]

\* The third query and, with it done, the totals; a sum out of range fails the
\* report as a whole.
ReadAdjustments ==
  /\ report.at = "lines"
  /\ LET totals == Totals(report.rows, report.lines, Adjustments)
     IN IF \E f \in DOMAIN totals : totals[f] \notin -MaxMicros..MaxMicros
        THEN report' = NoReport
        ELSE report' = [ at |-> "adjusted", raced |-> report.raced, rows |-> report.rows,
                         lines |-> report.lines, totals |-> totals ]
  /\ UNCHANGED <<ledger, imports, answer>>

\* lastReconciledAt: any import, of any window.
ReadLast ==
  /\ report.at = "adjusted"
  /\ report' = [ at |-> "done", raced |-> report.raced, rows |-> report.rows, totals |-> report.totals,
                 level |-> Level(imports # {}, Worst(report.rows, report.lines)) ]
  /\ UNCHANGED <<ledger, imports, answer>>

Next ==
  \/ \E key \in InvoiceId, file \in File, overlay \in Overlay : Import(key, file, overlay)
  \/ \E key \in InvoiceId : ImportFails(key)
  \/ \E e \in Entry : Insert(e)
  \/ ReadLedger \/ ReadLines \/ ReadAdjustments \/ ReadLast

Spec == Init /\ [][Next]_vars

-----------------------------------------------------------------------------
(* Properties.                                                             *)

\* An operator told "already imported (exact replay)" has the very lines of
\* the file, under the mapping given now, in the database, whatever build or
\* mapping imported them; and an invoice is there once (ImportInvoice).
ReplayIsTheSame ==
  /\ answer.said = "replayed" => \E m \in imports : m.key = answer.key /\ m.lines = answer.lines
  /\ \A m, n \in imports : m.key = n.key => m = n

\* A report no import raced with says of the books what they hold: all that
\* was billed is in its total, and it calls its confidence high only where
\* each row it read is final and billed, and each line billed was seen
\* (Reconcile).
ReportIsTrue ==
  report.at = "done" /\ ~report.raced =>
    /\ report.totals.billed = BilledOf({x \in Usage \cup Adjusted : x[2].day \in Days})
    /\ report.level = "high" =>
         /\ \A x \in report.rows :
              /\ x[2].priced /\ x[2].exact /\ x[2].final
              /\ \E y \in Usage : Key(y[2], y[1].provider) = Key(x[2], x[2].provider)
         /\ \A y \in InWindow(Usage) : \E x \in report.rows : Key(y[2], y[1].provider) = Key(x[2], x[2].provider)
================================================================================
