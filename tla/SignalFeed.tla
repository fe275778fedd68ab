----------------------------- MODULE SignalFeed -----------------------------
(***************************************************************************)
(* What the telemetry exporter promises: for each signal, a cursor over    *)
(* the ledger's rows that never goes back and never passes a row that was  *)
(* neither answered for by the collector nor recorded as dropped.          *)
(***************************************************************************)
EXTENDS Naturals

CONSTANTS Signal, Ids

VARIABLES rows,      \* rows of the ledger that are not deleted
          cursor,    \* per signal, the last row that is settled
          answered,  \* per signal, rows the collector gave a final answer for
          lost       \* rows recorded as dropped

vars == <<rows, cursor, answered, lost>>

Init ==
    /\ rows \subseteq Ids
    /\ cursor = [s \in Signal |-> 0]
    /\ answered = [s \in Signal |-> {}] /\ lost = {}

LedgerChanges ==
    /\ rows' \subseteq Ids
    /\ UNCHANGED <<cursor, answered, lost>>

Answers(s) ==
    /\ \E more \in SUBSET Ids : answered' = [answered EXCEPT ![s] = @ \cup more]
    /\ UNCHANGED <<rows, cursor, lost>>

\* Cursors move together, in one durable write.
Advance ==
    /\ \E dropped \in SUBSET Ids : lost' = lost \cup dropped
    /\ \E next \in [Signal -> Ids \cup {0}] :
        /\ \A s \in Signal : /\ cursor[s] <= next[s]
                             /\ \A i \in rows : cursor[s] < i /\ i <= next[s]
                                                    => i \in answered[s] \cup lost'
        /\ cursor' = next
    /\ UNCHANGED <<rows, answered>>

Next == LedgerChanges \/ (\E s \in Signal : Answers(s)) \/ Advance

Spec == Init /\ [][Next]_vars
=============================================================================
