-------------------------------- MODULE Workers --------------------------------
(* What works beside the requests: the delivery of webhook alerts and the      *)
(* telemetry worker.  They share nothing but the ledger, so each behavior is a *)
(* behavior of one of the two, the focus.                                      *)
EXTENDS TelemetryWorker

CONSTANTS Focus,   \* which of the two is explored
          Windows, Caps, WarnPct, MaxSpend, MaxCommands   \* of the alerts

VARIABLES focus, spent, cap, hook, marks, job, denied, check, operator, commands, acked

alertVars == <<spent, cap, hook, marks, job, denied, check, operator, commands, acked>>

-----------------------------------------------------------------------------
Alerts == INSTANCE WebhookAlerts

ASSUME AlertParts == Alerts!AlertAssumption

-----------------------------------------------------------------------------
WorkersInit == focus \in Focus /\ Alerts!Init /\ Init

WorkersNext ==
  /\ UNCHANGED focus
  /\ \/ focus = "alerts" /\ Alerts!Next /\ UNCHANGED vars
     \/ focus = "telemetry" /\ Next /\ UNCHANGED alertVars

\* The fairness of each part, of the behaviors it is explored in.
WorkersFairness ==
  /\ \A m \in Alerts!Mark : WF_alertVars(focus = "alerts" /\ Alerts!Delivery(m))
  /\ WF_alertVars(focus = "alerts" /\ Alerts!Denial)
  /\ WF_alertVars(focus = "alerts" /\ Alerts!Warning)
  /\ WF_alertVars(focus = "alerts" /\ Alerts!Operator)
  /\ WF_vars(focus = "telemetry" /\ DrainOnce)

WorkersSpec == WorkersInit /\ [][WorkersNext]_<<focus, alertVars, vars>> /\ WorkersFairness

-----------------------------------------------------------------------------
(* The properties of the alerts; the worker's own come with its module.  A     *)
(* part that is not explored keeps them as it stays where it begins.           *)

\* A webhook that was acknowledged is not posted again (WebhookAlerts).
NoSecondAlert == Alerts!NoSecondAlert

\* Each crossed threshold is told of in the end (WebhookAlerts).
CrossedIsTold == focus = "alerts" => Alerts!CrossedIsTold
=============================================================================
