-------------------------- MODULE TelemetryWorker --------------------------
(***************************************************************************)
(* The optional exporter of ledger rows to an OTLP collector               *)
(* (internal/telemetry/worker.go, otlp_http.go, store/telemetry.go).  The  *)
(* worker reads a bounded batch after the lagging signal's cursor, posts   *)
(* it once per signal, and stores both cursors in one setting.  Requests   *)
(* are inserted, and rows pruned, at any time; the process dies between    *)
(* any two steps.                                                          *)
(***************************************************************************)
EXTENDS Naturals, FiniteSets, FiniteSetsExt

CONSTANTS MaxRows,     \* bound: rows ever inserted
          MaxPruned,   \* bound: rows ever pruned
          BatchSize,   \* rows of one export
          MaxBacklog   \* unsettled rows that are kept

ASSUME WorkerAssumption ==
    /\ MaxRows \in Nat /\ MaxPruned \in Nat /\ BatchSize \in Nat \ {0}
    /\ MaxBacklog \in Nat /\ MaxBacklog >= BatchSize

Signal == {"traces", "metrics"}
Ids == 1..MaxRows

VARIABLES rows,      \* ids of the ledger's rows
          last,      \* last id given: the table never uses one again
          setting,   \* the durable checkpoint
          loaded,    \* the worker has loaded its checkpoint
          memory,    \* the worker's checkpoint
          pc,        \* where DrainOnce is
          batch,     \* the rows it has selected
          result,    \* per signal, how the export of the batch ended
          answered,  \* history: rows with a final answer, by signal
          accepted,  \* history: rows accepted, by signal
          lost       \* history: rows recorded as dropped

vars == <<rows, last, setting, loaded, memory, pc, batch, result, answered, accepted, lost>>
history == <<answered, accepted, lost>>

Checkpoint == [through : [Signal -> 0..MaxRows], failed : SUBSET Signal,
               acked : 0..MaxRows, dropped : 0..MaxRows]
Fresh == [through |-> [s \in Signal |-> 0], failed |-> {}, acked |-> 0, dropped |-> 0]
NoResult == [s \in Signal |-> "none"]

TypeOK ==
    /\ rows \subseteq 1..last /\ last \in 0..MaxRows
    /\ setting \in Checkpoint /\ loaded \in BOOLEAN /\ memory \in Checkpoint
    /\ pc \in {"idle", "dropping", "reading", "traces", "metrics", "saving"}
    /\ batch \subseteq Ids
    /\ result \in [Signal -> {"none", "ok", "rejected", "retry"}]
    /\ answered \in [Signal -> SUBSET Ids] /\ accepted \in [Signal -> SUBSET Ids]
    /\ lost \subseteq Ids

Init ==
    /\ rows = {} /\ last = 0 /\ setting = Fresh /\ loaded = FALSE /\ memory = Fresh
    /\ pc = "idle" /\ batch = {} /\ result = NoResult
    /\ answered = [s \in Signal |-> {}] /\ accepted = [s \in Signal |-> {}] /\ lost = {}

-----------------------------------------------------------------------------
(* Cursors and batches. *)

Lowest(c) == IF c.through["traces"] <= c.through["metrics"]
             THEN c.through["traces"] ELSE c.through["metrics"]

Leading(c) == IF c.through["traces"] <= c.through["metrics"]
              THEN c.through["metrics"] ELSE c.through["traces"]

After(cursor) == {i \in rows : i > cursor}

\* The first n of a set of ids (ORDER BY id LIMIT n).
FirstOf(S, n) == {i \in S : Cardinality({j \in S : j < i}) < n}

\* TelemetryBacklog: the cursor that must be given up to keep MaxBacklog rows.
DropThrough(cursor) ==
    LET pending == After(cursor)
        excess == Cardinality(pending) - MaxBacklog
    IN  IF Cardinality(pending) <= MaxBacklog THEN 0 ELSE Max(FirstOf(pending, excess))

\* A signal may be ahead: what it has settled is not mixed with newer rows.
SelectedMixed(c) == FirstOf(After(Lowest(c)), BatchSize)

SelectedAhead(c) == FirstOf(After(Leading(c)), BatchSize)

Selected(c) ==
    LET read == FirstOf(After(Lowest(c)), BatchSize)
        behind == {i \in read : i <= Leading(c)}
    IN  IF behind # {} THEN behind ELSE read

Wanted(s) == memory.through[s] < Max(batch)

\* Both cursors at one row: the batch was delivered, or counts as dropped.
ClassifiedAcked(c) ==
    IF c.through["traces"] = c.through["metrics"] /\ Lowest(c) > Lowest(memory)
    THEN [c EXCEPT !.failed = {}, !.acked = Max({@, Lowest(c)})]
    ELSE c

Classified(c) ==
    IF c.through["traces"] = c.through["metrics"] /\ Lowest(c) > Lowest(memory)
    THEN IF c.failed # {} THEN [c EXCEPT !.failed = {}, !.dropped = Max({@, Lowest(c)})]
                          ELSE [c EXCEPT !.acked = Max({@, Lowest(c)})]
    ELSE c

Dropped(c, k) ==
    LET through == [s \in Signal |-> Max({c.through[s], k})]
    IN  [c EXCEPT !.through = through, !.dropped = Max({@, k}),
                  !.failed = IF through["traces"] = through["metrics"] THEN {} ELSE @]

AdvancedTogether(c) ==
    LET terminal == {s \in Signal : result[s] \in {"ok", "rejected"}}
    IN  Classified([c EXCEPT
            !.through = [s \in Signal |-> IF terminal # {} THEN Max(batch) ELSE @[s]],
            !.failed = @ \cup {s \in terminal : result[s] = "rejected"}])

Advanced(c) ==
    LET terminal == {s \in Signal : result[s] \in {"ok", "rejected"}}
    IN  Classified([c EXCEPT
            !.through = [s \in Signal |-> IF s \in terminal THEN Max(batch) ELSE @[s]],
            !.failed = @ \cup {s \in terminal : result[s] = "rejected"}])

-----------------------------------------------------------------------------
(* DrainOnce. *)

Back == pc' = "idle" /\ batch' = {} /\ result' = NoResult

\* Load the checkpoint once, count the backlog.
Begins ==
    /\ pc = "idle"
    /\ loaded' = TRUE /\ memory' = IF loaded THEN memory ELSE setting
    /\ pc' = IF DropThrough(Lowest(memory')) > Lowest(memory') THEN "dropping" ELSE "reading"
    /\ batch' = IF pc' = "dropping" THEN {DropThrough(Lowest(memory'))} ELSE {}
    /\ UNCHANGED <<rows, last, setting, result, history>>

\* Rows beyond the bound are recorded as dropped before anything else is read.
Drops ==
    /\ pc = "dropping"
    /\ LET k == Max(batch) IN
        /\ memory' = Dropped(memory, k) /\ setting' = memory'
        /\ lost' = lost \cup {i \in rows : i > Lowest(memory) /\ i <= k}
    /\ pc' = "reading" /\ batch' = {}
    /\ UNCHANGED <<rows, last, loaded, result, answered, accepted>>

Reads ==
    /\ pc = "reading"
    /\ batch' = Selected(memory)
    /\ pc' = IF batch' = {} THEN "idle" ELSE "traces"
    /\ UNCHANGED <<rows, last, setting, loaded, memory, result, history>>

\* What ends the attempts of one post: a payload or a credential that cannot be
\* sent, a 2xx (full, with rejected items, or one that does not parse), a status
\* that is not retried; or the last attempt is busy (429, 502, 503, 504) or silent.
Unsendable == {"too large", "bad credential"}
Final == {"accepted", "partial", "overcounted", "malformed", "refused"}
Ending == Unsendable \cup Final \cup {"busy", "silent"}

SignalResult(ending) ==
    IF ending = "accepted" THEN "ok"
    ELSE IF ending \in Final \cup Unsendable THEN "rejected" ELSE "retry"

\* Both signals are posted one after the other, each only if it is behind.
Exports(s, ending) ==
    /\ pc = s /\ Wanted(s)
    /\ pc' = IF s = "traces" THEN "metrics" ELSE "saving"
    /\ result' = [result EXCEPT ![s] = SignalResult(ending)]
    /\ answered' = IF result'[s] = "retry" THEN answered
                   ELSE [answered EXCEPT ![s] = @ \cup batch]
    /\ accepted' = IF ending = "accepted" THEN [accepted EXCEPT ![s] = @ \cup batch] ELSE accepted
    /\ UNCHANGED <<rows, last, setting, loaded, memory, batch, lost>>

Skips(s) ==
    /\ pc = s /\ ~Wanted(s)
    /\ pc' = IF s = "traces" THEN "metrics" ELSE "saving"
    /\ UNCHANGED <<rows, last, setting, loaded, memory, batch, result, history>>

\* One setting holds both cursors; memory follows only what was stored.
Saves ==
    /\ pc = "saving"
    /\ memory' = Advanced(memory) /\ setting' = memory'
    /\ Back
    /\ UNCHANGED <<rows, last, loaded, history>>

SaveFails ==
    /\ pc \in {"dropping", "saving"}
    /\ Back
    /\ UNCHANGED <<rows, last, setting, loaded, memory, history>>

-----------------------------------------------------------------------------
Insert ==
    /\ last < MaxRows /\ last' = last + 1 /\ rows' = rows \cup {last'}
    /\ UNCHANGED <<setting, loaded, memory, pc, batch, result, history>>

\* PruneBatch: rows are in the order of settlement, their times need not be.
Prune(i) ==
    /\ i \in rows /\ last - Cardinality(rows) < MaxPruned
    /\ rows' = rows \ {i}
    /\ UNCHANGED <<last, setting, loaded, memory, pc, batch, result, history>>

\* The process dies, or is stopped and started again.
Restart ==
    /\ loaded' = FALSE /\ memory' = Fresh /\ Back
    /\ UNCHANGED <<rows, last, setting, history>>

DrainOnce ==
    \/ Begins \/ Drops \/ Reads \/ Saves \/ SaveFails
    \/ \E s \in Signal : Skips(s) \/ \E ending \in Ending : Exports(s, ending)

Next ==
    \/ DrainOnce
    \/ Insert \/ (\E i \in Ids : Prune(i))
    \/ Restart

Fairness == WF_vars(DrainOnce)

Spec == Init /\ [][Next]_vars /\ Fairness

-----------------------------------------------------------------------------
(* Properties. *)

\* A checkpoint reports rows as acknowledged only if the collector accepted
\* them for both signals, whichever signal failed, was retried alone, or was
\* overtaken by a drop in between (the classification at the end of DrainOnce).
AckedWasAccepted ==
    \A i \in rows : setting.dropped < i /\ i <= setting.acked
        => \A s \in Signal : i \in accepted[s]

\* A row that is settled for a signal is not sent again for it, however far
\* the other signal lags (the cut of the batch at the leading cursor).
SettledIsNotResent ==
    \A s \in Signal : pc = s /\ Wanted(s) => \A i \in batch : i > memory.through[s]

\* The durable cursors are a feed that loses nothing silently: crashes, failed
\* saves and signals that fail apart repeat rows and skip none.
Feed == INSTANCE SignalFeed WITH cursor <- setting.through
ImplementsFeed == Feed!Spec

\* The collector is busy or silent until the attempts run out, or a save fails.
Fails == SaveFails \/ \E s \in Signal, ending \in {"busy", "silent"} : Exports(s, ending)

\* If the collector and the disk answer from some time on, and the process stays
\* up, every row is settled for both signals in the end.
EverythingSettles ==
    <>[][~(Fails \/ Restart)]_vars
        => <>[](\A i \in rows : i <= Lowest(setting))
=============================================================================
