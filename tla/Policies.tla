------------------------------- MODULE Policies -------------------------------
(***************************************************************************)
(* The policy engine, and beside it the replay of a document over the      *)
(* ledger of what it admitted.  The replay is a command of its own and     *)
(* shares nothing with the engine's memory.                                *)
(***************************************************************************)
EXTENDS PolicyEngine

CONSTANTS
  Document, Sent,       \* the documents to replay, what clients sent
  Replayer,             \* handlers of the calls that are replayed
  Second, LastTick, MaxRows, MaxBreakdown

VARIABLES clock, document, ruled, flight, booked, rows

replayVars == <<clock, document, ruled, flight, booked, rows>>

Replay == INSTANCE PolicyReplay WITH
  Call <- Sent, Handler <- Replayer, MaxTime <- LastTick,
  now <- clock, doc <- document, counted <- booked

ASSUME ReplayConstants == Replay!ReplayAssumption

\* The replay's cursors and prefix sums say what plain sums do (PolicyReplay).
ReplayIsExact == Replay!ReplayIsExact

\* What the policy admitted it does not block in the replay (PolicyReplay).
AdmittedSurvivesReplay == Replay!AdmittedSurvivesReplay
=============================================================================
