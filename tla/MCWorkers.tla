------------------------------- MODULE MCWorkers -------------------------------
(* Small instances of Workers.                                                 *)
EXTENDS Workers

MCWindows == <<"daily", "weekly">>
MCCaps == {1, 2}

\* Two windows under different caps and no operator, or one capped window and
\* a command.
Scenario ==
  \/ commands = 1 /\ cap = [daily |-> 1, weekly |-> 2]
  \/ commands = 0 /\ cap \in {[daily |-> c, weekly |-> 0] : c \in {0, 1}}

\* A part that is not explored stays where one of its behaviors begins.
MCInit ==
  /\ WorkersInit
  /\ IF focus = "alerts" THEN Scenario
     ELSE commands = 0 /\ cap = [daily |-> 0, weekly |-> 0]

MCSpec == MCInit /\ [][WorkersNext]_<<focus, alertVars, vars>> /\ WorkersFairness
=============================================================================
