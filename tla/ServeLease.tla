------------------------------ MODULE ServeLease ------------------------------
(***************************************************************************)
(* The "serve" lease (internal/store: AcquireLease, Renew, Release), the   *)
(* life of a server around it (cmd_serve.go) and the exclusive prune       *)
(* (cmd_diagnostics.go).                                                   *)
(*                                                                         *)
(* The ledger's admission windows see the writes of their own process      *)
(* only, so the lease is what keeps a second writer away.  Time is         *)
(* relative: every clock is the number of ticks it has left.  An awake     *)
(* process does what is due before the next tick; a suspended one does     *)
(* nothing, and a prune batch takes as long as it takes.                   *)
(***************************************************************************)
EXTENDS Naturals, FiniteSets

CONSTANTS
  Server, Pruner,   \* processes: `burnban serve` and `burnban prune`
  Nobody,
  Ttl,              \* Ttl[p]: what p asks the lease for
  Period,           \* a server renews once in so many ticks
  Drain,            \* gracefulShutdownTimeout
  Close             \* what the deferred calls before Release may take

Process == Server \cup Pruner
Phase == {"off", "serving", "draining", "renew", "batch", "closing", "exiting"}

ASSUME LeaseAssumption ==
  /\ Server \cap Pruner = {} /\ Nobody \notin Process
  /\ Ttl \in [Process -> Nat \ {0}]
  /\ {Period, Drain, Close} \subseteq Nat \ {0}
  /\ \A p \in Server : Ttl[p] >= Period + Drain

VARIABLES
  row,        \* runtime_leases: who holds it and for how much longer
  phase,      \* where a process stands
  mine,       \* Lease.expiresAt: what is left of it as its owner knows
  wait,       \* until the renewal ticker of a server fires
  renewing,   \* servers whose renewal goroutine runs
  timer,      \* until the shutdown context or a deferred call ends
  open,       \* servers with a call in flight
  windows,    \* the guard's warm windows: cold, current or stale
  asleep,     \* suspended processes
  late,       \* history: ticks a server ran awake without holding the row
  blind       \* history: servers that admitted a call from stale windows

clocks == <<mine, wait, renewing, timer>>
calls == <<open, windows, blind>>
vars == <<row, phase, clocks, calls, asleep, late>>

Down == [p \in Process |-> 0]
Free == [owner |-> Nobody, left |-> 0]
Held(p) == [owner |-> p, left |-> Ttl[p]]
Less(n) == IF n = 0 THEN 0 ELSE n - 1

\* Release is still to come.
Holding(p) == phase[p] \notin {"off", "exiting"}
Moves(p, f) == phase' = [phase EXCEPT ![p] = f]

Init ==
  /\ row = Free /\ phase = [p \in Process |-> "off"]
  /\ mine = Down /\ wait = Down /\ renewing = {} /\ timer = Down
  /\ open = {} /\ windows = [p \in Process |-> "cold"] /\ blind = {}
  /\ asleep = {} /\ late = Down

-----------------------------------------------------------------------------
(* The lease.                                                              *)

Takes(p) ==
  /\ row' = Held(p)
  /\ mine' = [mine EXCEPT ![p] = Ttl[p]]

\* Fault: the upsert does not look at the expiry.
AcquireAnyway(p) ==
  /\ phase[p] = "off" /\ p \notin asleep
  /\ Takes(p)
  /\ Moves(p, IF p \in Server THEN "serving" ELSE "renew")
  /\ wait' = [wait EXCEPT ![p] = Period]
  /\ renewing' = IF p \in Server THEN renewing \cup {p} ELSE renewing
  /\ UNCHANGED <<timer, calls, asleep, late>>

\* AcquireLease, under an owner name that nobody had before.  It returns
\* ErrLeaseHeld, and the process ends, unless the row is absent or expired.
Acquire(p) ==
  /\ phase[p] = "off" /\ p \notin asleep /\ row.left = 0
  /\ Takes(p)
  /\ Moves(p, IF p \in Server THEN "serving" ELSE "renew")
  /\ wait' = [wait EXCEPT ![p] = Period]
  /\ renewing' = IF p \in Server THEN renewing \cup {p} ELSE renewing
  /\ UNCHANGED <<timer, calls, asleep, late>>

Renewable(p) == row.owner = p /\ row.left > 0
RenewalDue(p) == p \in renewing /\ wait[p] = 0

Renew(p) ==
  /\ RenewalDue(p) /\ p \notin asleep /\ Renewable(p)
  /\ Takes(p) /\ wait' = [wait EXCEPT ![p] = Period]
  /\ UNCHANGED <<phase, renewing, timer, calls, asleep, late>>

\* Fault: the renewal is tried again instead of given up.
RenewAgain(p) ==
  /\ RenewalDue(p) /\ p \notin asleep
  /\ wait' = [wait EXCEPT ![p] = Period]
  /\ UNCHANGED <<row, phase, mine, renewing, timer, calls, asleep, late>>

\* The lease is lost or the database does not answer: the goroutine ends, and
\* a server that is not shutting down already begins to.
RenewFails(p) ==
  /\ RenewalDue(p) /\ p \notin asleep
  /\ renewing' = renewing \ {p}
  /\ IF phase[p] = "serving"
     THEN Moves(p, "draining") /\ timer' = [timer EXCEPT ![p] = Drain]
     ELSE UNCHANGED <<phase, timer>>
  /\ UNCHANGED <<row, mine, wait, calls, asleep, late>>

\* Fault: the row is deleted by its name alone.
ReleaseByName(p) ==
  /\ phase[p] = "closing" /\ p \notin asleep
  /\ row' = Free
  /\ Moves(p, "exiting")
  /\ UNCHANGED <<clocks, calls, asleep, late>>

\* The deferred Release deletes the row if it is still this owner's; it may
\* fail, and then the row stays until it expires.
Release(p) ==
  /\ phase[p] = "closing" /\ p \notin asleep
  /\ row' \in {row, IF row.owner = p THEN Free ELSE row}
  /\ Moves(p, "exiting")
  /\ UNCHANGED <<clocks, calls, asleep, late>>

-----------------------------------------------------------------------------
(* A server.                                                               *)

\* A call is admitted: cold windows are scanned, warm ones believed.
Admit(p) ==
  /\ phase[p] = "serving" /\ p \notin asleep \cup open
  /\ open' = open \cup {p}
  /\ windows' = [windows EXCEPT ![p] = IF @ = "cold" THEN "current" ELSE @]
  /\ blind' = IF windows[p] = "stale" THEN blind \cup {p} ELSE blind
  /\ UNCHANGED <<row, phase, clocks, asleep, late>>

\* The row of a write by p is missing from every other process's windows.
Overtakes(p) ==
  windows' = [q \in Process |->
    IF q # p /\ windows[q] = "current" THEN "stale" ELSE windows[q]]

\* A call in flight is settled, be it after the shutdown gave up on it.
Settle(p) ==
  /\ p \in open \ asleep
  /\ open' = open \ {p} /\ Overtakes(p)
  /\ UNCHANGED <<row, phase, clocks, blind, asleep, late>>

\* A signal, the control route, or a listener that failed.
Stop(p) ==
  /\ phase[p] = "serving" /\ p \notin asleep
  /\ Moves(p, "draining") /\ timer' = [timer EXCEPT ![p] = Drain]
  /\ UNCHANGED <<row, mine, wait, renewing, calls, asleep, late>>

\* Fault: the shutdown waits for every call.
DrainedOfCalls(p) ==
  /\ phase[p] = "draining" /\ p \notin asleep \cup open
  /\ Moves(p, "closing") /\ timer' = [timer EXCEPT ![p] = Close]
  /\ renewing' = renewing \ {p}
  /\ UNCHANGED <<row, mine, wait, calls, asleep, late>>

\* Shutdown returns with no call left or because its time is up; the
\* renewals end with the function, before the deferred calls.
Drained(p) ==
  /\ phase[p] = "draining" /\ p \notin asleep
  /\ p \notin open \/ timer[p] = 0
  /\ Moves(p, "closing") /\ timer' = [timer EXCEPT ![p] = Close]
  /\ renewing' = renewing \ {p}
  /\ UNCHANGED <<row, mine, wait, calls, asleep, late>>

\* What is left of the process after p ended.
Ends(p) ==
  /\ Moves(p, "off")
  /\ mine' = [mine EXCEPT ![p] = 0] /\ wait' = [wait EXCEPT ![p] = 0]
  /\ timer' = [timer EXCEPT ![p] = 0] /\ renewing' = renewing \ {p}
  /\ open' = open \ {p} /\ windows' = [windows EXCEPT ![p] = "cold"]
  /\ blind' = blind \ {p} /\ late' = [late EXCEPT ![p] = 0]

Exit(p) ==
  /\ phase[p] = "exiting" /\ p \notin asleep
  /\ Ends(p) /\ UNCHANGED <<row, asleep>>

Crash(p) ==
  /\ phase[p] # "off"
  /\ Ends(p) /\ asleep' = asleep \ {p}
  /\ UNCHANGED row

-----------------------------------------------------------------------------
(* The prune loop: renew, delete a batch, until a batch is empty.          *)

PruneRenews(p) ==
  /\ phase[p] = "renew" /\ p \notin asleep /\ Renewable(p)
  /\ Takes(p) /\ Moves(p, "batch")
  /\ UNCHANGED <<wait, renewing, timer, calls, asleep, late>>

\* An error from the renewal, the batch or the checkpoint; or all is done.
PruneLeaves(p) ==
  /\ phase[p] \in {"renew", "batch"} /\ p \notin asleep
  /\ Moves(p, "closing") /\ timer' = [timer EXCEPT ![p] = Close]
  /\ UNCHANGED <<row, mine, wait, renewing, calls, asleep, late>>

PruneBatch(p) ==
  /\ phase[p] = "batch" /\ p \notin asleep
  /\ Moves(p, "renew") /\ Overtakes(p)
  /\ UNCHANGED <<row, clocks, open, blind, asleep, late>>

-----------------------------------------------------------------------------
(* Time and the scheduler.                                                 *)

\* p has something to do before time goes on.
Overdue(p) ==
  p \notin asleep /\
    \/ RenewalDue(p)
    \/ phase[p] \in {"draining", "closing"} /\ timer[p] = 0
    \/ phase[p] \in {"renew", "exiting"}

Astray(p) == p \in Server /\ p \notin asleep /\ Holding(p) /\ row.owner # p

\* The timers of a suspended process stand still; the wall clock does not.
Tick ==
  /\ \A p \in Process : ~Overdue(p)
  /\ row' = [row EXCEPT !.left = Less(@)]
  /\ mine' = [p \in Process |-> Less(mine[p])]
  /\ wait' = [p \in Process |-> IF p \in asleep THEN wait[p] ELSE Less(wait[p])]
  /\ timer' = [p \in Process |-> IF p \in asleep THEN timer[p] ELSE Less(timer[p])]
  /\ late' = [p \in Process |-> IF Astray(p) THEN late[p] + 1 ELSE late[p]]
  /\ UNCHANGED <<phase, renewing, calls, asleep>>

Suspend(p) ==
  /\ Holding(p) /\ p \notin asleep
  /\ asleep' = asleep \cup {p}
  /\ UNCHANGED <<row, phase, clocks, calls, late>>

\* Timers that ran on while the process was stopped fire at once; those that
\* stood still with the machine have what they had left.
Wake(p) ==
  /\ p \in asleep /\ asleep' = asleep \ {p}
  /\ wait' \in {wait, [wait EXCEPT ![p] = 0]}
  /\ timer' \in {timer, [timer EXCEPT ![p] = 0]}
  /\ UNCHANGED <<row, phase, mine, renewing, calls, late>>

Serves(p) == Renew(p) \/ RenewFails(p) \/ Drained(p)
Leaves(p) == Release(p) \/ Exit(p)
Prunes(p) == PruneRenews(p) \/ PruneLeaves(p) \/ PruneBatch(p)

Next ==
  \/ \E p \in Server : Serves(p) \/ Admit(p) \/ Settle(p) \/ Stop(p)
  \/ \E p \in Pruner : Prunes(p)
  \/ \E p \in Process : Acquire(p) \/ Leaves(p) \/ Crash(p) \/ Suspend(p) \/ Wake(p)
  \/ Tick

\* Time passes, however often a process is suspended and woken, and processes
\* that are not suspended run.  Neither the end of a call nor that of a
\* suspension is promised.
Fairness ==
  /\ SF_vars(Tick)
  /\ \A p \in Process : WF_vars(Leaves(p))
  /\ \A p \in Server : WF_vars(Serves(p))
  /\ \A p \in Pruner : WF_vars(Prunes(p))

Spec == Init /\ [][Next]_vars /\ Fairness

-----------------------------------------------------------------------------
\* The type invariant; renewals run only while a server serves or drains.
TypeOK ==
  /\ row \in [owner : Process \cup {Nobody}, left : Nat]
  /\ phase \in [Process -> Phase]
  /\ {mine, wait, timer, late} \subseteq [Process -> Nat]
  /\ renewing \subseteq {p \in Server : phase[p] \in {"serving", "draining"}}
  /\ open \subseteq Server /\ asleep \subseteq {p \in Process : Holding(p) \/ phase[p] = "exiting"}
  /\ windows \in [Process -> {"cold", "current", "stale"}] /\ blind \subseteq Server

\* Whoever still has time on a lease of its own is the owner of the row, for
\* exactly that time: nobody else was let in, whatever slept or crashed.
OwnLeaseHonored ==
  \A p \in Process : Holding(p) /\ mine[p] > 0 =>
    row.owner = p /\ row.left = mine[p]

\* An unexpired row changes hands only by its owner's own Release; a server
\* that comes back late takes nothing from its successor on its way out.
LiveLeaseNotTaken ==
  [][\A p \in Process : row.owner = p /\ row.left > 0 /\ row'.owner # p =>
       phase[p] = "closing" /\ phase'[p] = "exiting"]_vars

\* "The server must stop": one that is awake works without the row for no
\* longer than it takes to notice and to shut down.
StopsInTime == \A p \in Server : late[p] <= Period + Drain + Close

\* A shutdown comes to its end, unless it is suspended, although calls may
\* hang for ever.
ShutdownEnds ==
  \A p \in Server : phase[p] = "draining" ~> phase[p] = "off" \/ p \in asleep

\* The comment on RequestRevision: the lease and the refusal of a live prune
\* "enforce that single-writer invariant in production", so no server decides
\* on windows that miss another process's writes.
SingleWriter == blind = {}
=============================================================================
