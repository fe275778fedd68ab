--------------------------- MODULE WebhookAlerts ---------------------------
(***************************************************************************)
(* Warnings and cap alerts posted to the operator's webhook                *)
(* (internal/proxy/proxy.go, internal/budget/budget.go, cmd_budget.go,     *)
(* cmd_alert.go).  A denial, or a check that a settlement schedules, asks  *)
(* for a delivery under a key of the settings, its mark; a claim in memory *)
(* keeps a second delivery of one mark away, the durable mark every later  *)
(* one.  Operators clear marks when they change a cap.  The module follows *)
(* one instance of each window: marks carry the window's start, so that    *)
(* instances share none.                                                   *)
(***************************************************************************)
EXTENDS Naturals, Sequences

CONSTANTS Windows,     \* the calendar windows, in the order of budget.Windows
          Caps,        \* the dollar caps an operator may set
          WarnPct,     \* the warning threshold, per cent of a cap
          MaxSpend,    \* bound: dollars settled
          MaxCommands  \* bound: commands operators give

\* Assumed by whoever instantiates the module.
AlertAssumption ==
    /\ Caps \subseteq Nat \ {0}
    /\ WarnPct \in Nat /\ MaxSpend \in Nat /\ MaxCommands \in Nat

Win == {Windows[i] : i \in DOMAIN Windows}

Mark == {"warned", "alerted"} \X Win

VARIABLES spent,     \* dollars in the ledger for the running windows
          cap,       \* cap of each window, 0 when unset
          hook,      \* a webhook URL is set
          marks,     \* marks recorded in the settings
          job,       \* delivery of a mark: none, posting, or acknowledged
          denied,    \* a refused handler on its way to the queue
          check,     \* the one pending warning check
          operator,  \* a command that still has writes to do
          commands,  \* commands given
          acked      \* history: marks acknowledged since they were last armed

vars == <<spent, cap, hook, marks, job, denied, check, operator, commands, acked>>
durable == <<spent, cap, hook, marks>>
memory == <<job, denied, check>>

NoCheck == <<"none">>
NoDenial == <<"none">>
NoCommand == <<"none", "none", FALSE>>
\* A command that has the marks of a kind and window to clear, and, if the flag
\* is set, those of every later window.
Command == {NoCommand} \cup ({"warned", "alerted"} \X Win \X BOOLEAN)

TypeOK ==
    /\ spent \in 0..MaxSpend /\ cap \in [Win -> Caps \cup {0}] /\ hook \in BOOLEAN
    /\ marks \subseteq Mark /\ acked \subseteq Mark
    /\ job \in [Mark -> {"none", "posting", "recording"}]
    /\ denied \in {NoDenial} \cup ({"denied", "hooked"} \X Win)
    /\ check \in {NoCheck, <<"hook">>, <<"status">>} \cup ({"queue"} \X Win)
    /\ operator \in Command /\ commands \in 0..MaxCommands

Init ==
    /\ spent = 0 /\ cap \in [Win -> Caps \cup {0}] /\ hook = TRUE /\ marks = {}
    /\ job = [m \in Mark |-> "none"]
    /\ denied = NoDenial /\ check = NoCheck
    /\ operator = NoCommand /\ commands \in 0..MaxCommands
    /\ acked = {}

-----------------------------------------------------------------------------
(* The queue and the delivery goroutine. *)

\* queueWebhook under alertMu: claimed or delivered marks are left alone.
QueueUnclaimed(m) ==
    job' = IF m \in marks THEN job ELSE [job EXCEPT ![m] = "posting"]

QueueWebhook(m) ==
    job' = IF job[m] # "none" \/ m \in marks THEN job ELSE [job EXCEPT ![m] = "posting"]

\* One of the three posts is acknowledged with a 2xx.
Acknowledged(m) ==
    /\ job[m] = "posting"
    /\ job' = [job EXCEPT ![m] = "recording"]
    /\ acked' = acked \cup {m}
    /\ UNCHANGED <<durable, denied, check, operator, commands>>

\* All three posts fail: the claim is dropped, nothing is recorded.
DeliveryFails(m) ==
    /\ job[m] = "posting"
    /\ job' = [job EXCEPT ![m] = "none"]
    /\ UNCHANGED <<durable, denied, check, operator, commands, acked>>

RecordUnmarked(m) ==
    /\ job[m] = "recording"
    /\ job' = [job EXCEPT ![m] = "none"]
    /\ UNCHANGED <<spent, cap, hook, marks, denied, check, operator, commands, acked>>

Record(m) ==
    /\ job[m] = "recording"
    /\ marks' = marks \cup {m}
    /\ job' = [job EXCEPT ![m] = "none"]
    /\ UNCHANGED <<spent, cap, hook, denied, check, operator, commands, acked>>

\* The mark cannot be stored: the proxy latches, the delivery may be repeated.
RecordFails(m) ==
    /\ job[m] = "recording"
    /\ job' = [job EXCEPT ![m] = "none"]
    /\ acked' = acked \ {m}
    /\ UNCHANGED <<durable, denied, check, operator, commands>>

-----------------------------------------------------------------------------
(* Handlers: refusals and settlements. *)

\* The guard refuses a call as what is spent reaches the cap.  Denials for what
\* is only reserved have no window, so no mark, and tell nobody.
Denies(w) ==
    /\ denied = NoDenial /\ cap[w] # 0 /\ spent >= cap[w]
    /\ denied' = <<"denied", w>>
    /\ UNCHANGED <<durable, job, check, operator, commands, acked>>

\* alertCapReached reads the webhook's setting, then queues.
DenialReadsHook ==
    /\ denied[1] = "denied"
    /\ denied' = IF hook THEN <<"hooked", denied[2]>> ELSE NoDenial
    /\ UNCHANGED <<durable, job, check, operator, commands, acked>>

DenialQueues ==
    /\ denied[1] = "hooked"
    /\ QueueWebhook(<<"alerted", denied[2]>>)
    /\ denied' = NoDenial
    /\ UNCHANGED <<durable, check, operator, commands, acked>>

\* A settlement stores a row, then schedules a check unless one is pending.
Settle(cost) ==
    /\ spent + cost <= MaxSpend
    /\ spent' = spent + cost
    /\ check' = IF check = NoCheck THEN <<"hook">> ELSE check
    /\ UNCHANGED <<cap, hook, marks, job, denied, operator, commands, acked>>

-----------------------------------------------------------------------------
(* maybeWarn. *)

Over(w) == cap[w] # 0 /\ WarnPct > 0 /\ spent * 100 >= WarnPct * cap[w]

\* Windows WarnStatus may report: over the threshold and not marked, and of
\* those the most burned (the smallest cap, all windows counting one ledger).
Unwarned == {w \in Win : Over(w) /\ <<"warned", w>> \notin marks}

Worst == {w \in Unwarned : \A v \in Unwarned : cap[w] <= cap[v]}

WarnReadsHook ==
    /\ check = <<"hook">>
    /\ check' = IF hook THEN <<"status">> ELSE NoCheck
    /\ UNCHANGED <<durable, job, denied, operator, commands, acked>>

WarnStatus ==
    /\ check = <<"status">>
    /\ IF Worst = {} THEN check' = NoCheck
                     ELSE \E w \in Worst : check' = <<"queue", w>>
    /\ UNCHANGED <<durable, job, denied, operator, commands, acked>>

WarnQueues ==
    /\ check[1] = "queue"
    /\ QueueWebhook(<<"warned", check[2]>>)
    /\ check' = NoCheck
    /\ UNCHANGED <<durable, denied, operator, commands, acked>>

-----------------------------------------------------------------------------
(* Operators: each write of a command is a step of its own. *)

Begins ==
    /\ operator = NoCommand /\ commands < MaxCommands
    /\ commands' = commands + 1

\* ClearMarks deletes a family of marks; deliveries under way do not see it.
Rearmed(S) ==
    /\ marks' = marks \ S
    /\ acked' = acked \ S

\* `cap`: write or remove the cap, then clear the warned and the alerted marks.
SetCap(w, usd) ==
    /\ Begins
    /\ cap' = [cap EXCEPT ![w] = usd]
    /\ operator' = <<"warned", w, FALSE>>
    /\ UNCHANGED <<spent, hook, marks, memory, acked>>

ClearMarks ==
    /\ operator # NoCommand
    /\ LET kind == operator[1]  w == operator[2]  all == operator[3]
           next == {i \in DOMAIN Windows : i > 1 /\ Windows[i - 1] = w}
       IN  /\ Rearmed({<<kind, w>>})
           /\ operator' = IF kind = "warned" THEN <<"alerted", w, all>>
                          ELSE IF all /\ next # {} THEN <<"warned", Windows[CHOOSE i \in next : TRUE], TRUE>>
                          ELSE NoCommand
    /\ UNCHANGED <<spent, cap, hook, memory, commands>>

\* `alert --off`: remove the URL, then clear window after window.
AlertOff ==
    /\ Begins /\ hook
    /\ hook' = FALSE /\ operator' = <<"warned", Windows[1], TRUE>>
    /\ UNCHANGED <<spent, cap, marks, memory, acked>>

AlertWebhook ==
    /\ Begins /\ ~hook
    /\ hook' = TRUE
    /\ UNCHANGED <<spent, cap, marks, memory, operator, acked>>

\* A write of the command fails: the rest of it is not done.
CommandFails ==
    /\ operator # NoCommand
    /\ operator' = NoCommand
    /\ UNCHANGED <<durable, memory, commands, acked>>

-----------------------------------------------------------------------------
\* A process death loses claims, checks and refused handlers.
Restart ==
    /\ job' = [m \in Mark |-> "none"]
    /\ denied' = NoDenial /\ check' = NoCheck
    /\ acked' = {m \in acked : job[m] # "recording"}
    /\ UNCHANGED <<durable, operator, commands>>

Delivery(m) == Acknowledged(m) \/ DeliveryFails(m) \/ Record(m) \/ RecordFails(m)
Denial == DenialReadsHook \/ DenialQueues
Warning == WarnReadsHook \/ WarnStatus \/ WarnQueues
Operator == ClearMarks \/ CommandFails

Next ==
    \/ \E m \in Mark : Delivery(m)
    \/ \E w \in Win : Denies(w)
    \/ Denial
    \/ \E cost \in 0..1 : Settle(cost)
    \/ Warning
    \/ \E w \in Win, usd \in Caps \cup {0} : SetCap(w, usd)
    \/ AlertOff \/ AlertWebhook \/ Operator
    \/ Restart

Fairness ==
    /\ \A m \in Mark : WF_vars(Delivery(m))
    /\ WF_vars(Denial) /\ WF_vars(Warning) /\ WF_vars(Operator)

Spec == Init /\ [][Next]_vars /\ Fairness

-----------------------------------------------------------------------------
(* Properties. *)

\* A mark that was acknowledged is not posted again until an operator arms it
\* again, its record fails, or the process dies before recording it
\* (queueWebhook checks the durable mark under the lock of the claims).
NoSecondAlert == \A m \in Mark : job[m] = "posting" => m \notin acked

\* A delivery, the record of a mark or a write of a command fails.
Fails == CommandFails \/ \E m \in Mark : DeliveryFails(m) \/ RecordFails(m)

\* If the webhook, the receiver, the disk and the process stay up and calls
\* keep being settled, every window over the threshold is told of in the end,
\* although each check reports one window and a settlement that finds a check
\* pending schedules none.
CrossedIsTold ==
    (/\ <>[]hook
     /\ <>[][~(Fails \/ Restart)]_vars
     /\ []<><<Settle(0)>>_check)
        => <>[](\A w \in Win : Over(w) => <<"warned", w>> \in marks)
=============================================================================
