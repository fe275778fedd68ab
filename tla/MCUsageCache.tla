----------------------------- MODULE MCUsageCache -----------------------------
(* Small instances of UsageCache: every reading of the clock is another day *)
(* and another slot; a window of two readings rolls over them.              *)
EXTENDS UsageCache

MCCutoffs == [t \in Time |-> {t, t - 1}]
MCDay == [t \in Time |-> t]
=============================================================================
