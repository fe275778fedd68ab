----------------------------- MODULE UpkeepProofs -----------------------------
(***************************************************************************)
(* Proofs about Upkeep.  Its servers, for any number of them and of prune  *)
(* processes and any lease, renewal and shutdown times: the type           *)
(* invariant, and that nobody loses a lease that still has time on it.     *)
(* Its requests, for any handlers, room, bounds and slots: no way out of   *)
(* the pipeline leaves a slot or a reservation behind, policy windows      *)
(* count what is forwarded, and what is forwarded fits.                    *)
(***************************************************************************)
EXTENDS Upkeep, SumTheorems

-----------------------------------------------------------------------------
(* Servers under their lease.                                              *)

LEMMA LessNat == \A n \in Nat : Less(n) \in Nat
BY DEF Less

LEMMA InitTypeOK == Init => TypeOK
BY LeaseAssumption DEF Init, TypeOK, Free, Down, Process, Phase

LEMMA TypeOKInductive == TypeOK /\ [Next]_vars => TypeOK'
<1> SUFFICES ASSUME TypeOK, [Next]_vars PROVE TypeOK'
  OBVIOUS
<1> USE LeaseAssumption DEF TypeOK, Process, Phase
<1>1. ASSUME NEW p \in Process, Acquire(p) PROVE TypeOK'
  BY <1>1 DEF Acquire, Takes, Held, Moves, calls, Holding
<1>2. ASSUME NEW p \in Server, Renew(p) PROVE TypeOK'
  BY <1>2 DEF Renew, Takes, Held, calls, Holding
<1>3. ASSUME NEW p \in Server, RenewFails(p) PROVE TypeOK'
  BY <1>3 DEF RenewFails, RenewalDue, Moves, calls, Holding
<1>4. ASSUME NEW p \in Process, Release(p) PROVE TypeOK'
  BY <1>4 DEF Release, Free, Moves, clocks, calls, Holding
<1>5. ASSUME NEW p \in Server, Admit(p) PROVE TypeOK'
  BY <1>5 DEF Admit, clocks, Holding
<1>6. ASSUME NEW p \in Server, Settle(p) PROVE TypeOK'
  BY <1>6 DEF Settle, Overtakes, clocks, Holding
<1>7. ASSUME NEW p \in Server, Stop(p) PROVE TypeOK'
  BY <1>7 DEF Stop, Moves, calls, Holding
<1>8. ASSUME NEW p \in Server, Drained(p) PROVE TypeOK'
  BY <1>8 DEF Drained, Moves, calls, Holding
<1>9. ASSUME NEW p \in Process, Exit(p) PROVE TypeOK'
  BY <1>9 DEF Exit, Ends, Moves, Holding
<1>10. ASSUME NEW p \in Process, Crash(p) PROVE TypeOK'
  BY <1>10 DEF Crash, Ends, Moves, Holding
<1>11. ASSUME NEW p \in Pruner, PruneRenews(p) PROVE TypeOK'
  BY <1>11 DEF PruneRenews, Takes, Held, Moves, calls, Holding
<1>12. ASSUME NEW p \in Pruner, PruneLeaves(p) PROVE TypeOK'
  BY <1>12 DEF PruneLeaves, Moves, calls, Holding
<1>13. ASSUME NEW p \in Pruner, PruneBatch(p) PROVE TypeOK'
  BY <1>13 DEF PruneBatch, Overtakes, Moves, clocks, Holding
<1>14. ASSUME Tick PROVE TypeOK'
  BY <1>14, LessNat DEF Tick, calls, Holding
<1>15. ASSUME NEW p \in Process, Suspend(p) PROVE TypeOK'
  BY <1>15 DEF Suspend, clocks, calls, Holding
<1>16. ASSUME NEW p \in Process, Wake(p) PROVE TypeOK'
  BY <1>16 DEF Wake, calls, Holding
<1>17. CASE UNCHANGED vars
  BY <1>17 DEF vars, clocks, calls, Holding
<1> QED
  BY <1>1, <1>2, <1>3, <1>4, <1>5, <1>6, <1>7, <1>8, <1>9, <1>10, <1>11, <1>12,
     <1>13, <1>14, <1>15, <1>16, <1>17
  DEF Next, Serves, Prunes, Leaves

\* The type invariant holds for every set of processes and every timing.
THEOREM LeaseTypeCorrect == Spec => []TypeOK
BY InitTypeOK, TypeOKInductive, PTL DEF Spec

-----------------------------------------------------------------------------
(* OwnLeaseHonored is inductive: whoever has time left owns the row for    *)
(* exactly that time, so a row that can be acquired leaves nobody any, and *)
(* a row that can be renewed leaves nobody else any.                       *)

\* A step by which p gets the row and nobody else has time on a lease.
LEMMA TakenByTheOnlyOne ==
  ASSUME TypeOK, NEW p \in Process, Takes(p),
         \A q \in Process \ {p} : Holding(q)' => Holding(q) /\ mine[q] = 0
  PROVE  OwnLeaseHonored'
<1> SUFFICES ASSUME NEW q \in Process, Holding(q)', mine'[q] > 0
             PROVE  row'.owner = q /\ row'.left = mine'[q]
  BY DEF OwnLeaseHonored
<1>1. mine' = [mine EXCEPT ![p] = Ttl[p]] /\ row' = [owner |-> p, left |-> Ttl[p]]
  BY DEF Takes, Held
<1>2. mine \in [Process -> Nat]
  BY DEF TypeOK
<1>3. q = p
  BY <1>1, <1>2
<1> QED
  BY <1>1, <1>2, <1>3

\* A step after which nobody has a lease who had none, and the row of whoever
\* has one is what it was.
LEMMA NobodyGains ==
  ASSUME TypeOK, OwnLeaseHonored,
         \A q \in Process : Holding(q)' /\ mine'[q] > 0 =>
           Holding(q) /\ mine'[q] = mine[q] /\ (row.owner = q => row' = row)
  PROVE  OwnLeaseHonored'
BY DEF OwnLeaseHonored

LEMMA HonoredInductive ==
  TypeOK /\ OwnLeaseHonored /\ [Next]_vars => OwnLeaseHonored'
<1> SUFFICES ASSUME TypeOK, OwnLeaseHonored, [Next]_vars PROVE OwnLeaseHonored'
  OBVIOUS
<1>t. mine \in [Process -> Nat] /\ phase \in [Process -> Phase]
  BY DEF TypeOK
<1>s. Server \subseteq Process /\ Pruner \subseteq Process
  BY DEF Process
<1>1. ASSUME NEW p \in Process, Acquire(p) PROVE OwnLeaseHonored'
  <2>1. \A q \in Process : Holding(q) => mine[q] = 0
    BY <1>1, <1>t DEF Acquire, OwnLeaseHonored
  <2>2. \A q \in Process \ {p} : Holding(q)' => Holding(q)
    BY <1>1, <1>t DEF Acquire, Moves, Holding
  <2> QED
    BY <1>1, <2>1, <2>2, TakenByTheOnlyOne DEF Acquire
<1>2. ASSUME NEW p \in Process, Takes(p), Renewable(p),
             \A q \in Process \ {p} : phase'[q] = phase[q]
      PROVE  OwnLeaseHonored'
  <2>1. \A q \in Process \ {p} : Holding(q) => mine[q] = 0
    BY <1>2, <1>t DEF Renewable, OwnLeaseHonored
  <2>2. \A q \in Process \ {p} : Holding(q)' => Holding(q)
    BY <1>2 DEF Holding
  <2> QED
    BY <1>2, <2>1, <2>2, TakenByTheOnlyOne
<1>3. ASSUME NEW p \in Process, Release(p) PROVE OwnLeaseHonored'
  <2>1. ~Holding(p)' /\ mine' = mine
    BY <1>3, <1>t DEF Release, Moves, Holding, clocks
  <2>2. \A q \in Process \ {p} : Holding(q)' => Holding(q)
    BY <1>3, <1>t DEF Release, Moves, Holding
  <2>3. row.owner # p => row' = row
    BY <1>3 DEF Release
  <2> QED
    BY <2>1, <2>2, <2>3, NobodyGains
<1>4. ASSUME NEW p \in Process, Ends(p), row' = row PROVE OwnLeaseHonored'
  <2>1. ~Holding(p)'
    BY <1>4, <1>t DEF Ends, Moves, Holding
  <2>2. \A q \in Process \ {p} : (Holding(q)' => Holding(q)) /\ mine'[q] = mine[q]
    BY <1>4, <1>t DEF Ends, Moves, Holding
  <2> QED
    BY <1>4, <2>1, <2>2, NobodyGains
<1>5. ASSUME Tick PROVE OwnLeaseHonored'
  <2> SUFFICES ASSUME NEW q \in Process, Holding(q)', mine'[q] > 0
               PROVE  row'.owner = q /\ row'.left = mine'[q]
    BY DEF OwnLeaseHonored
  <2>1. mine'[q] = Less(mine[q]) /\ row' = [row EXCEPT !.left = Less(@)] /\ Holding(q)
    BY <1>5 DEF Tick, Holding
  <2>2. mine[q] > 0
    BY <2>1, <1>t DEF Less
  <2>3. row.owner = q /\ row.left = mine[q]
    BY <2>1, <2>2 DEF OwnLeaseHonored
  <2>4. row \in [owner : Process \cup {Nobody}, left : Nat]
    BY DEF TypeOK
  <2> QED
    BY <2>1, <2>3, <2>4
<1>6. ASSUME UNCHANGED <<row, mine>>,
             \A q \in Process : Holding(q)' => Holding(q)
      PROVE  OwnLeaseHonored'
  BY <1>6, NobodyGains
<1>7. ASSUME NEW p \in Process, UNCHANGED <<row, mine>>, Holding(p),
             phase' = [phase EXCEPT ![p] = phase'[p]]
      PROVE  OwnLeaseHonored'
  BY <1>6, <1>7, <1>t DEF Holding
<1>8. ASSUME NEW p \in Server, Renew(p) PROVE OwnLeaseHonored'
  BY <1>2, <1>8, <1>s DEF Renew
<1>9. ASSUME NEW p \in Pruner, PruneRenews(p) PROVE OwnLeaseHonored'
  BY <1>2, <1>9, <1>s, <1>t DEF PruneRenews, Moves
<1>10. ASSUME NEW p \in Server, RenewFails(p) PROVE OwnLeaseHonored'
  BY <1>6, <1>10, <1>t, <1>s DEF RenewFails, Moves, Holding
<1>11. ASSUME NEW p \in Server, Drained(p) \/ Stop(p) PROVE OwnLeaseHonored'
  BY <1>6, <1>11, <1>t, <1>s DEF Drained, Stop, Moves, Holding
<1>12. ASSUME NEW p \in Pruner, PruneLeaves(p) \/ PruneBatch(p) PROVE OwnLeaseHonored'
  BY <1>6, <1>12, <1>t, <1>s DEF PruneLeaves, PruneBatch, Moves, Holding, clocks
<1>13. ASSUME NEW p \in Process, Exit(p) \/ Crash(p) PROVE OwnLeaseHonored'
  BY <1>4, <1>13 DEF Exit, Crash
<1>14. ASSUME NEW p \in Process, Admit(p) \/ Settle(p) \/ Suspend(p) \/ Wake(p)
       PROVE  OwnLeaseHonored'
  BY <1>6, <1>14 DEF Admit, Settle, Suspend, Wake, Holding, clocks
<1>15. CASE UNCHANGED vars
  BY <1>6, <1>15 DEF vars, clocks, Holding
<1> QED
  BY <1>1, <1>3, <1>5, <1>8, <1>9, <1>10, <1>11, <1>12, <1>13, <1>14, <1>15, <1>s
  DEF Next, Serves, Prunes, Leaves

\* Whoever still has time on its own lease owns the row, for every number of
\* processes and every timing: no crash, suspension or late return lets a
\* second one in before that time is over.
THEOREM LeasesAreHonored == Spec => []OwnLeaseHonored
<1>1. Init => OwnLeaseHonored
  BY DEF Init, Down, OwnLeaseHonored
<1> QED
  BY <1>1, InitTypeOK, TypeOKInductive, HonoredInductive, PTL DEF Spec

-----------------------------------------------------------------------------
LEMMA StepTakesNoLiveLease ==
  ASSUME TypeOK, [Next]_vars, NEW p \in Process,
         row.owner = p, row.left > 0, row'.owner # p
  PROVE  phase[p] = "closing" /\ phase'[p] = "exiting"
<1>s. Server \subseteq Process /\ Pruner \subseteq Process
  BY DEF Process
<1>1. ASSUME NEW q \in Process, Release(q)
      PROVE  phase[p] = "closing" /\ phase'[p] = "exiting"
  <2>1. q = p
    BY <1>1 DEF Release
  <2>2. phase \in [Process -> Phase]
    BY DEF TypeOK
  <2> QED
    BY <1>1, <2>1, <2>2 DEF Release, Moves
<1>2. ASSUME NEW q \in Process, Acquire(q) PROVE FALSE
  BY <1>2 DEF Acquire
<1>3. ASSUME NEW q \in Process, Renew(q) \/ PruneRenews(q) PROVE FALSE
  BY <1>3 DEF Renew, PruneRenews, Renewable, Takes, Held
<1>4. ASSUME Tick PROVE FALSE
  BY <1>4 DEF Tick, TypeOK
<1>5. ASSUME row' = row PROVE FALSE
  BY <1>5
<1>6. ASSUME NEW q \in Process, Exit(q) \/ Crash(q) \/ Suspend(q) \/ Wake(q) PROVE FALSE
  BY <1>5, <1>6 DEF Exit, Crash, Suspend, Wake
<1>7. ASSUME NEW q \in Server, RenewFails(q) \/ Drained(q) \/ Admit(q) \/ Settle(q) \/ Stop(q)
      PROVE  FALSE
  BY <1>5, <1>7 DEF RenewFails, Drained, Admit, Settle, Stop
<1>8. ASSUME NEW q \in Pruner, PruneLeaves(q) \/ PruneBatch(q) PROVE FALSE
  BY <1>5, <1>8 DEF PruneLeaves, PruneBatch
<1>9. CASE UNCHANGED vars
  BY <1>5, <1>9 DEF vars
<1> QED
  BY <1>1, <1>2, <1>3, <1>4, <1>6, <1>7, <1>8, <1>9, <1>s
  DEF Next, Serves, Prunes, Leaves

\* An unexpired row changes hands only by its owner's own Release.
THEOREM LiveLeasesAreNotTaken == Spec => LiveLeaseNotTaken
<1>1. TypeOK /\ [Next]_vars =>
        [\A p \in Process : row.owner = p /\ row.left > 0 /\ row'.owner # p =>
           phase[p] = "closing" /\ phase'[p] = "exiting"]_vars
  BY StepTakesNoLiveLease
<1> QED
  BY <1>1, LeaseTypeCorrect, PTL DEF Spec, LiveLeaseNotTaken
-----------------------------------------------------------------------------
(* StopsInTime.  What a server has run without the row, and what its phase *)
(* still allows it, never exceed what was allowed in all; and a row, once  *)
(* lost, does not come back to a server that is still up.                  *)

InTime(p) ==
  /\ phase[p] \notin {"renew", "batch"}
  /\ row.owner = p \/ phase[p] = "off" => late[p] = 0
  /\ phase[p] = "serving" => p \in renewing /\ late[p] + wait[p] <= Period
  /\ phase[p] = "draining" => late[p] + timer[p] <= Period + Drain
  /\ phase[p] = "closing" => late[p] + timer[p] <= Period + Drain + Close
  /\ late[p] <= Period + Drain + Close

AllInTime == \A p \in Server : InTime(p)

LEMMA Times == {Period, Drain, Close} \subseteq Nat
BY LeaseAssumption

LEMMA ServerTypes ==
  ASSUME TypeOK, NEW p \in Server
  PROVE  /\ late[p] \in Nat /\ wait[p] \in Nat /\ timer[p] \in Nat
         /\ phase[p] \in Phase
BY DEF TypeOK, Process

\* A step that changes nothing p's time depends on.
LEMMA UndisturbedInTime ==
  ASSUME NEW p \in Server, InTime(p),
         phase'[p] = phase[p], late'[p] = late[p], wait'[p] = wait[p],
         timer'[p] = timer[p], (p \in renewing) => (p \in renewing'),
         row'.owner = p => row.owner = p
  PROVE  InTime(p)'
BY DEF InTime

LEMMA InTimeInductive == TypeOK /\ AllInTime /\ [Next]_vars => AllInTime'
<1> SUFFICES ASSUME TypeOK, AllInTime, [Next]_vars, NEW p \in Server
             PROVE  InTime(p)'
  BY DEF AllInTime
<1>i. InTime(p)
  BY DEF AllInTime
<1>t. /\ phase \in [Process -> Phase] /\ late \in [Process -> Nat]
      /\ wait \in [Process -> Nat] /\ timer \in [Process -> Nat] /\ p \in Process
      /\ p \notin Pruner /\ Server \subseteq Process /\ Pruner \subseteq Process
  BY LeaseAssumption DEF TypeOK, Process
<1>n. late[p] \in Nat /\ wait[p] \in Nat /\ timer[p] \in Nat
  BY ServerTypes
<1>1. ASSUME NEW q \in Process, Acquire(q) PROVE InTime(p)'
  <2>1. CASE q = p
    BY <1>1, <1>i, <1>t, Times, <2>1 DEF Acquire, Takes, Held, Moves, InTime
  <2>2. CASE q # p
    BY <1>1, <1>i, <1>t, <2>2, UndisturbedInTime DEF Acquire, Takes, Held, Moves
  <2> QED
    BY <2>1, <2>2
<1>2. ASSUME NEW q \in Server, Renew(q) PROVE InTime(p)'
  <2>1. CASE q = p
    BY <1>2, <1>i, <1>t, Times, <2>1 DEF Renew, Renewable, Takes, Held, InTime
  <2>2. CASE q # p
    BY <1>2, <1>i, <1>t, <2>2, UndisturbedInTime DEF Renew, Takes, Held
  <2> QED
    BY <2>1, <2>2
<1>3. ASSUME NEW q \in Server, RenewFails(q) PROVE InTime(p)'
  <2>1. CASE q = p
    BY <1>3, <1>i, <1>t, <1>n, Times, <2>1 DEF RenewFails, RenewalDue, Moves, InTime
  <2>2. CASE q # p
    BY <1>3, <1>i, <1>t, <2>2, UndisturbedInTime DEF RenewFails, Moves
  <2> QED
    BY <2>1, <2>2
<1>4. ASSUME NEW q \in Process, Release(q) PROVE InTime(p)'
  <2>1. row'.owner = p => row.owner = p
    BY <1>4, <1>t, LeaseAssumption DEF Release, Free, Process
  <2>2. CASE q = p
    BY <1>4, <1>i, <1>t, <2>1, <2>2 DEF Release, Moves, InTime, clocks
  <2>3. CASE q # p
    BY <1>4, <1>i, <1>t, <2>1, <2>3, UndisturbedInTime DEF Release, Moves, clocks
  <2> QED
    BY <2>2, <2>3
<1>5. ASSUME NEW q \in Server, Admit(q) \/ Settle(q) PROVE InTime(p)'
  BY <1>5, <1>i, UndisturbedInTime DEF Admit, Settle, clocks
<1>6. ASSUME NEW q \in Server, Stop(q) PROVE InTime(p)'
  <2>1. CASE q = p
    BY <1>6, <1>i, <1>t, <1>n, Times, <2>1 DEF Stop, Moves, InTime
  <2>2. CASE q # p
    BY <1>6, <1>i, <1>t, <2>2, UndisturbedInTime DEF Stop, Moves
  <2> QED
    BY <2>1, <2>2
<1>7. ASSUME NEW q \in Server, Drained(q) PROVE InTime(p)'
  <2>1. CASE q = p
    BY <1>7, <1>i, <1>t, <1>n, Times, <2>1 DEF Drained, Moves, InTime
  <2>2. CASE q # p
    BY <1>7, <1>i, <1>t, <2>2, UndisturbedInTime DEF Drained, Moves
  <2> QED
    BY <2>1, <2>2
<1>8. ASSUME NEW q \in Process, Ends(q), row' = row PROVE InTime(p)'
  <2>1. CASE q = p
    BY <1>8, <1>i, <1>t, Times, <2>1 DEF Ends, Moves, InTime
  <2>2. CASE q # p
    BY <1>8, <1>i, <1>t, <2>2, UndisturbedInTime DEF Ends, Moves
  <2> QED
    BY <2>1, <2>2
<1>9. ASSUME NEW q \in Pruner, Prunes(q) PROVE InTime(p)'
  <2>1. q # p
    BY <1>t
  <2> QED
    BY <1>9, <1>i, <1>t, <2>1, UndisturbedInTime
    DEF Prunes, PruneRenews, PruneLeaves, PruneBatch, Takes, Held, Moves, clocks
<1>10. ASSUME Tick PROVE InTime(p)'
  <2>1. row'.owner = row.owner /\ phase' = phase /\ renewing' = renewing
    BY <1>10 DEF Tick, TypeOK
  <2>2. CASE p \in asleep
    <3>1. late'[p] = late[p] /\ wait'[p] = wait[p] /\ timer'[p] = timer[p]
      BY <1>10, <1>t, <2>2 DEF Tick, Astray
    <3> QED
      BY <1>i, <2>1, <3>1, UndisturbedInTime
  <2>3. CASE p \notin asleep
    <3>1. /\ wait'[p] = Less(wait[p]) /\ timer'[p] = Less(timer[p])
          /\ late'[p] = IF Astray(p) THEN late[p] + 1 ELSE late[p]
      BY <1>10, <1>t, <2>3 DEF Tick
    <3>2. ~Overdue(p)
      BY <1>10, <1>t DEF Tick
    <3>3. phase[p] = "serving" => wait[p] > 0
      BY <1>i, <1>n, <2>3, <3>2 DEF Overdue, RenewalDue, InTime
    <3>4. phase[p] \in {"draining", "closing"} => timer[p] > 0
      BY <1>n, <2>3, <3>2 DEF Overdue
    <3>5. phase[p] \in Phase
      BY <1>t
    <3>6. CASE Astray(p)
      BY <1>i, <1>n, <2>1, <3>1, <3>3, <3>4, <3>5, <3>6, Times
      DEF InTime, Astray, Holding, Less, Phase
    <3>7. CASE ~Astray(p)
      BY <1>i, <1>n, <2>1, <3>1, <3>7, Times DEF InTime, Less
    <3> QED
      BY <3>6, <3>7
  <2> QED
    BY <2>2, <2>3
<1>11. ASSUME NEW q \in Process, Suspend(q) PROVE InTime(p)'
  BY <1>11, <1>i, UndisturbedInTime DEF Suspend, clocks
<1>12. ASSUME NEW q \in Process, Wake(q) PROVE InTime(p)'
  <2>1. wait'[p] \in {wait[p], 0} /\ timer'[p] \in {timer[p], 0}
    BY <1>12, <1>t DEF Wake
  <2> QED
    BY <1>12, <1>i, <1>n, <2>1, Times DEF Wake, InTime
<1>13. CASE UNCHANGED vars
  BY <1>13, <1>i, UndisturbedInTime DEF vars, clocks
<1>14. ASSUME NEW q \in Process, Exit(q) \/ Crash(q) PROVE InTime(p)'
  BY <1>8, <1>14 DEF Exit, Crash
<1> QED
  BY <1>1, <1>2, <1>3, <1>4, <1>5, <1>6, <1>7, <1>9, <1>10, <1>11, <1>12, <1>13,
     <1>14, <1>t
  DEF Next, Serves, Leaves

\* A server that is awake runs without the row for at most a renewal period,
\* a shutdown and the deferred calls, whatever their lengths.
THEOREM ServersStopInTime == Spec => []StopsInTime
<1>1. Init => AllInTime
  BY Times DEF Init, Down, Free, AllInTime, InTime, Process
<1>2. AllInTime => StopsInTime
  BY DEF AllInTime, InTime, StopsInTime
<1> QED
  BY <1>1, <1>2, InitTypeOK, TypeOKInductive, InTimeInductive, PTL DEF Spec

-----------------------------------------------------------------------------
(* Requests through the latch.                                             *)

\* An instance brings notions of its own of what its module extends; they are
\* the library's.
LEMMA SameNotions ==
  /\ \A S : Requests!IsFiniteSet(S) <=> IsFiniteSet(S)
  /\ \A S : Requests!Cardinality(S) = Cardinality(S)
  /\ \A f, S : Requests!SumOf(f, S) = SumOf(f, S)
<1>1. \A S : Requests!IsFiniteSet(S) <=> IsFiniteSet(S)
  BY DEF IsFiniteSet, Requests!IsFiniteSet
<1>2. \A S : Requests!Cardinality(S) = Cardinality(S)
  BY DEF Cardinality, Requests!Cardinality
<1>3. \A f, S : Requests!SumOf(f, S) = SumOf(f, S)
  BY <1>2 DEF SumOf, Requests!SumOf, Units, Requests!Units
<1> QED
  BY <1>1, <1>2, <1>3

Place == {"idle", "waiting", "probed", "body", "plan", "retarget", "admit", "commit",
          "send", "upstream", "unmarked", "leaving", "closing", "done"}

TypeInv ==
  /\ pc \in [Call -> Place] /\ route \in [Call -> Requests!Route]
  /\ slot \in [Call -> Requests!Route \cup {"none"}]
  /\ held \subseteq Call /\ rows \subseteq Call /\ accepted \subseteq Call /\ sent \subseteq Call
  /\ latch \in BOOLEAN /\ prober \in Call \cup {Health, Nobody}
  /\ outcome \in {"none", "ok", "failing"} /\ disk \in {"ok", "failing"}
  /\ doubt \subseteq Call

\* Only who waits for a probe makes one.
ProberWaits == prober \in Call => pc[prober] = "waiting"

\* What a handler has, by where it stands.  A slot is that of its route, and
\* is taken before the plan and given up before the guard's reservation is.
Has(c) ==
  /\ slot[c] # "none" =>
       /\ slot[c] = route[c]
       /\ pc[c] \in {"plan", "admit", "commit", "send", "upstream", "unmarked", "leaving"}
       /\ pc[c] \in {"send", "upstream", "unmarked", "leaving"} => c \in accepted
  /\ c \in held => pc[c] \in {"commit", "send", "upstream", "unmarked", "leaving", "closing"}
  /\ pc[c] \in {"commit", "send", "upstream", "unmarked"} => c \in held
  /\ c \in rows => pc[c] \in {"leaving", "closing", "done"}
  /\ c \in accepted =>
       pc[c] \in {"send", "upstream", "unmarked", "leaving", "closing", "done"}

SlotsKept == \A r \in Requests!Route : Cardinality(Requests!OnRoute(r)) <= Slots[r]
RoomKept == SumOf(Requests!BoundOf, held \cup rows) <= Room

\* The inductive invariant.
ForwardInv == TypeInv /\ ProberWaits /\ (\A c \in Call : Has(c)) /\ SlotsKept /\ RoomKept

-----------------------------------------------------------------------------
\* What a handler does leaves everybody with what belongs to its place.
LEMMA HandlerStep ==
  ASSUME Requests!ForwardAssumption, TypeInv, ProberWaits, \A e \in Call : Has(e), NEW c \in Call,
         Requests!Checks(c) \/ Requests!TakesProbe(c) \/ Requests!Runs(c) \/ Requests!Answered(c)
  PROVE  TypeInv' /\ ProberWaits' /\ \A e \in Call : Has(e)'
<1> USE DEF TypeInv, ProberWaits, Has, Place, Requests!Route, Requests!Goes, Requests!Broken,
       Requests!MarkIf, Requests!Cancel, Requests!CancelFails,
            Requests!handlerVars, Requests!guardVars, Requests!probeVars, Requests!ForwardAssumption
<1>1. CASE Requests!CheckPasses(c)
  BY <1>1 DEF Requests!CheckPasses
<1>2. CASE Requests!CheckRefuses(c)
  BY <1>2 DEF Requests!CheckRefuses
<1>3. CASE Requests!CheckProbes(c)
  BY <1>3 DEF Requests!CheckProbes
<1>4. CASE Requests!Probed(c)
  BY <1>4 DEF Requests!Probed
<1>5. CASE Requests!ProbeSkipped(c)
  BY <1>5 DEF Requests!ProbeSkipped
<1>6. CASE Requests!ProbeBegins(c)
  BY <1>6 DEF Requests!ProbeBegins
<1>7. CASE Requests!BodyRefused(c)
  BY <1>7 DEF Requests!BodyRefused
<1>8. CASE Requests!Prepare(c)
  BY <1>8 DEF Requests!Prepare, Requests!Evaluated
<1>9. CASE Requests!PrepareUnruled(c)
  BY <1>9 DEF Requests!PrepareUnruled, Requests!Evaluated
<1>10. CASE Requests!PrepareDenies(c)
  BY <1>10 DEF Requests!PrepareDenies
<1>11. CASE Requests!PrepareFails(c)
  BY <1>11 DEF Requests!PrepareFails
<1>12. CASE Requests!PlanKeeps(c)
  BY <1>12 DEF Requests!PlanKeeps
<1>13. CASE Requests!PlanFails(c)
  BY <1>13 DEF Requests!PlanFails
<1>14. CASE Requests!Downshift(c)
  BY <1>14 DEF Requests!Downshift, Requests!MayDownshift, Requests!Refused
<1>15. CASE Requests!AdmitReserves(c)
  BY <1>15 DEF Requests!AdmitReserves
<1>16. CASE Requests!AdmitDenies(c)
  BY <1>16 DEF Requests!AdmitDenies, Requests!Refused
<1>17. CASE Requests!AdmitErrs(c)
  BY <1>17 DEF Requests!AdmitErrs
<1>18. CASE Requests!Commit(c)
  BY <1>18 DEF Requests!Commit
<1>19. CASE Requests!CommitFails(c)
  BY <1>19 DEF Requests!CommitFails
<1>20. CASE Requests!SendFails(c)
  BY <1>20 DEF Requests!SendFails
<1>21. CASE Requests!Send(c)
  BY <1>21 DEF Requests!Send
<1>22. CASE Requests!SettleBooks(c)
  BY <1>22 DEF Requests!SettleBooks
<1>23. CASE Requests!SettleFails(c)
  BY <1>23 DEF Requests!SettleFails
<1>24. CASE Requests!Mark(c)
  BY <1>24 DEF Requests!Mark
<1>25. CASE Requests!LeavePolicy(c)
  BY <1>25 DEF Requests!LeavePolicy
<1>26. CASE Requests!LeaveGuard(c)
  BY <1>26 DEF Requests!LeaveGuard
<1> HIDE DEF TypeInv, ProberWaits, Has
<1> QED
  BY <1>1, <1>2, <1>3, <1>4, <1>5, <1>6, <1>7, <1>8, <1>9, <1>10, <1>11, <1>12, <1>13,
     <1>14, <1>15, <1>16, <1>17, <1>18, <1>19, <1>20, <1>21, <1>22, <1>23, <1>24, <1>25, <1>26
  DEF Requests!Checks, Requests!TakesProbe, Requests!Runs, Requests!Answered

\* Probes of whoever asks /health, the disk, a restart.
LEMMA OtherStep ==
  ASSUME Requests!ForwardAssumption, TypeInv, ProberWaits, \A e \in Call : Has(e),
         \/ Requests!ProbeBegins(Health) \/ Requests!ProbeGoesOn \/ Requests!DiskChanges
         \/ Requests!Restart \/ UNCHANGED Requests!vars
  PROVE  TypeInv' /\ ProberWaits' /\ \A e \in Call : Has(e)'
<1> USE DEF TypeInv, ProberWaits, Has, Place, Requests!handlerVars, Requests!guardVars,
       Requests!probeVars,
            Requests!ForwardAssumption
<1>1. CASE Requests!ProbeBegins(Health)
  BY <1>1 DEF Requests!ProbeBegins
<1>2. CASE Requests!ProbeWrites
  BY <1>2 DEF Requests!ProbeWrites
<1>3. CASE Requests!ProbeReports
  BY <1>3 DEF Requests!ProbeReports
<1>4. CASE Requests!DiskChanges
  BY <1>4 DEF Requests!DiskChanges, Requests!Broken
<1>5. CASE Requests!Restart
  BY <1>5 DEF Requests!Restart
<1>6. CASE UNCHANGED Requests!vars
  BY <1>6 DEF Requests!vars
<1> QED
  BY <1>1, <1>2, <1>3, <1>4, <1>5, <1>6 DEF Requests!ProbeGoesOn

-----------------------------------------------------------------------------
\* Only an evaluation takes a slot.
LEMMA SlotsGo ==
  ASSUME TypeInv, [Requests!Next]_Requests!vars, \A c \in Call : ~Requests!Prepare(c)
  PROVE  \A e \in Call : slot'[e] \in {slot[e], "none"}
<1> USE DEF TypeInv, Requests!Cancel, Requests!handlerVars, Requests!guardVars, Requests!probeVars
<1>1. ASSUME NEW c \in Call, Requests!Checks(c) \/ Requests!TakesProbe(c) \/ Requests!Answered(c)
      PROVE  slot' = slot
  BY <1>1 DEF Requests!Checks, Requests!CheckPasses, Requests!CheckRefuses, Requests!CheckProbes,
     Requests!Probed, Requests!TakesProbe, Requests!ProbeSkipped, Requests!ProbeBegins,
     Requests!Answered, Requests!SettleBooks, Requests!SettleFails
<1>2. ASSUME NEW c \in Call, Requests!Runs(c)
      PROVE  slot' = slot \/ slot' = [slot EXCEPT ![c] = "none"]
  BY <1>2 DEF Requests!Runs, Requests!BodyRefused, Requests!PrepareUnruled,
     Requests!PrepareDenies, Requests!PrepareFails, Requests!PlanKeeps, Requests!PlanFails,
     Requests!Downshift, Requests!AdmitReserves, Requests!AdmitDenies, Requests!AdmitErrs,
     Requests!Commit, Requests!CommitFails, Requests!SendFails, Requests!Send, Requests!Mark,
     Requests!LeavePolicy, Requests!LeaveGuard
<1>3. CASE \/ Requests!ProbeBegins(Health) \/ Requests!ProbeGoesOn \/ Requests!DiskChanges
           \/ UNCHANGED Requests!vars
  BY <1>3 DEF Requests!ProbeBegins, Requests!ProbeGoesOn, Requests!ProbeWrites,
     Requests!ProbeReports, Requests!DiskChanges, Requests!vars
<1>4. CASE Requests!Restart
  BY <1>4 DEF Requests!Restart
<1> QED
  BY <1>1, <1>2, <1>3, <1>4 DEF Requests!Next

\* An evaluation takes a slot only if its route has one left.
LEMMA SlotsNext ==
  ASSUME Requests!ForwardAssumption, TypeInv, TypeInv', \A e \in Call : Has(e),
         SlotsKept, [Requests!Next]_Requests!vars
  PROVE  SlotsKept'
<1> USE DEF Requests!ForwardAssumption
<1> SUFFICES ASSUME NEW r \in Requests!Route PROVE Cardinality(Requests!OnRoute(r)') <= Slots[r]
  BY DEF SlotsKept
<1>0. /\ Cardinality(Requests!OnRoute(r)) <= Slots[r] /\ IsFiniteSet(Requests!OnRoute(r))
      /\ Cardinality(Requests!OnRoute(r)) \in Nat /\ Slots[r] \in Nat
  BY SameNotions, FS_Subset, FS_CardinalityType DEF SlotsKept, Requests!OnRoute
<1>1. CASE \E c \in Call : Requests!Prepare(c)
  <2>1. PICK c \in Call : Requests!Prepare(c)
    BY <1>1
  <2>2. CASE route[c] # r
    <3>1. Requests!OnRoute(r)' \subseteq Requests!OnRoute(r)
      BY <2>1, <2>2 DEF Requests!Prepare, Requests!OnRoute, TypeInv
    <3> QED
      BY <1>0, <3>1, FS_Subset, FS_CardinalityType
  <2>3. CASE route[c] = r
    <3>1. /\ Requests!OnRoute(r)' = Requests!OnRoute(r) \cup {c}
          /\ Cardinality(Requests!OnRoute(r)) < Slots[r]
      BY <2>1, <2>3, SameNotions DEF Requests!Prepare, Requests!OnRoute, TypeInv
    <3>2. c \notin Requests!OnRoute(r)
      BY <2>1, <2>3 DEF Requests!Prepare, Requests!OnRoute, Has, Requests!Route
    <3>3. Cardinality(Requests!OnRoute(r)') = Cardinality(Requests!OnRoute(r)) + 1
      BY <1>0, <3>1, <3>2, FS_AddElement
    <3> QED
      BY <1>0, <3>1, <3>3
  <2> QED
    BY <2>2, <2>3
<1>2. CASE \A c \in Call : ~Requests!Prepare(c)
  <2>1. Requests!OnRoute(r)' \subseteq Requests!OnRoute(r)
    BY <1>2, SlotsGo DEF Requests!OnRoute, Requests!Route
  <2> QED
    BY <1>0, <2>1, FS_Subset, FS_CardinalityType
<1> QED
  BY <1>1, <1>2

-----------------------------------------------------------------------------
\* Only an admission adds to what is held or booked, and a handler that has a
\* reservation or a row stays on its route.
LEMMA RoomGoes ==
  ASSUME TypeInv, \A e \in Call : Has(e), [Requests!Next]_Requests!vars,
         \A c \in Call : ~Requests!AdmitReserves(c)
  PROVE  /\ held' \cup rows' \subseteq held \cup rows
         /\ \A e \in held \cup rows : route'[e] = route[e]
<1> USE DEF TypeInv, Requests!handlerVars, Requests!guardVars, Requests!probeVars
<1>1. ASSUME NEW c \in Call, Requests!Checks(c) \/ Requests!TakesProbe(c)
      PROVE  UNCHANGED <<held, rows, route>>
  BY <1>1 DEF Requests!Checks, Requests!CheckPasses, Requests!CheckRefuses, Requests!CheckProbes,
     Requests!Probed, Requests!TakesProbe, Requests!ProbeSkipped, Requests!ProbeBegins
<1>2. ASSUME NEW c \in Call, Requests!Answered(c) \/ Requests!LeaveGuard(c)
      PROVE  held' \cup rows' \subseteq held \cup rows /\ route' = route
  BY <1>2 DEF Requests!Answered, Requests!SettleBooks, Requests!SettleFails, Requests!LeaveGuard,
     Has
<1>3. ASSUME NEW c \in Call, Requests!Downshift(c)
      PROVE  UNCHANGED <<held, rows>> /\ \A e \in held \cup rows : route'[e] = route[e]
  BY <1>3 DEF Requests!Downshift, Requests!MayDownshift, Requests!Refused, Has
<1>4. ASSUME NEW c \in Call, Requests!Runs(c), ~Requests!Downshift(c), ~Requests!LeaveGuard(c)
      PROVE  UNCHANGED <<held, rows, route>>
  BY <1>4 DEF Requests!Runs, Requests!BodyRefused, Requests!Prepare, Requests!PrepareUnruled,
     Requests!PrepareDenies, Requests!PrepareFails, Requests!PlanKeeps, Requests!PlanFails,
     Requests!AdmitDenies, Requests!AdmitErrs, Requests!Commit, Requests!CommitFails,
     Requests!SendFails, Requests!Send, Requests!Mark, Requests!LeavePolicy
<1>5. CASE \/ Requests!ProbeBegins(Health) \/ Requests!ProbeGoesOn \/ Requests!DiskChanges
           \/ Requests!Restart \/ UNCHANGED Requests!vars
  BY <1>5 DEF Requests!ProbeBegins, Requests!ProbeGoesOn, Requests!ProbeWrites,
     Requests!ProbeReports, Requests!DiskChanges, Requests!Restart, Requests!vars
<1> QED
  BY <1>1, <1>2, <1>3, <1>4, <1>5 DEF Requests!Next

\* Bounds are natural, and so are their sums.
LEMMA BoundType ==
  ASSUME Requests!ForwardAssumption, TypeInv
  PROVE  Requests!BoundOf \in [Call -> Nat] /\ Room \in Nat
BY DEF Requests!ForwardAssumption, TypeInv, Requests!BoundOf

LEMMA BoundsAddUp ==
  ASSUME Requests!ForwardAssumption, TypeInv, NEW S, NEW T, S \subseteq T, T \subseteq Call
  PROVE  /\ SumOf(Requests!BoundOf, S) <= SumOf(Requests!BoundOf, T)
         /\ SumOf(Requests!BoundOf, S) \in Nat /\ SumOf(Requests!BoundOf, T) \in Nat
<1>1. IsFiniteSet(T) /\ IsFiniteSet(S)
  BY SameNotions, FS_Subset DEF Requests!ForwardAssumption
<1>2. \A x \in T : Requests!BoundOf[x] \in Nat /\ Requests!BoundOf[x] <= Requests!BoundOf[x]
  BY BoundType
<1>3. \A x \in S : Requests!BoundOf[x] \in Nat /\ Requests!BoundOf[x] <= Requests!BoundOf[x]
  BY <1>2
<1> QED
  BY <1>1, <1>2, <1>3, SumMonotone, SumFinite

\* An admission adds only what fits.
LEMMA RoomNext ==
  ASSUME Requests!ForwardAssumption, TypeInv, TypeInv', \A e \in Call : Has(e),
         RoomKept, [Requests!Next]_Requests!vars
  PROVE  RoomKept'
<1> DEFINE H == held \cup rows
<1>0. H \subseteq Call /\ SumOf(Requests!BoundOf, H) <= Room /\ H' \subseteq Call /\ IsFiniteSet(H)
      /\ SumOf(Requests!BoundOf, H) \in Nat
  BY SameNotions, BoundsAddUp, FS_Subset DEF TypeInv, RoomKept, Requests!ForwardAssumption
<1>1. CASE \E c \in Call : Requests!AdmitReserves(c)
  <2>1. PICK c \in Call : Requests!AdmitReserves(c)
    BY <1>1
  <2>2. /\ H' = H \cup {c} /\ c \notin H /\ Requests!BoundOf' = Requests!BoundOf
        /\ SumOf(Requests!BoundOf, H) + Bound[route[c]] <= Room
    BY <2>1, SameNotions DEF Requests!AdmitReserves, Requests!Fits, Requests!BoundOf, Has
  <2>3. Requests!BoundOf[c] = Bound[route[c]] /\ \A y \in H \cup {c} : Requests!BoundOf[y] \in Nat
    BY <1>0, BoundType DEF Requests!BoundOf
  <2> HIDE DEF H
  <2>4. SumOf(Requests!BoundOf, H \cup {c}) = SumOf(Requests!BoundOf, H) + Requests!BoundOf[c]
    BY <1>0, <2>2, <2>3, SumAdd
  <2>5. SumOf(Requests!BoundOf', H') <= Room
    BY <2>2, <2>3, <2>4
  <2> QED
    BY <2>5 DEF RoomKept, H
<1>2. CASE \A c \in Call : ~Requests!AdmitReserves(c)
  <2>1. H' \subseteq H /\ \A e \in H : route'[e] = route[e]
    BY <1>2, RoomGoes
  <2>2. \A e \in H' : Requests!BoundOf'[e] = Requests!BoundOf[e]
    BY <1>0, <2>1 DEF Requests!BoundOf
  <2>3. SumOf(Requests!BoundOf', H') = SumOf(Requests!BoundOf, H')
    <3> HIDE DEF H
    <3> QED
      BY <2>2, SumSame
  <2>4. SumOf(Requests!BoundOf, H') <= SumOf(Requests!BoundOf, H) /\ SumOf(Requests!BoundOf, H') \in Nat
    BY <1>0, <2>1, BoundsAddUp
  <2>5. SumOf(Requests!BoundOf', H') <= Room
    BY <1>0, <2>3, <2>4, BoundType
  <2> QED
    BY <2>5 DEF RoomKept
<1> QED
  BY <1>1, <1>2

-----------------------------------------------------------------------------
LEMMA InitInv ==
  ASSUME Requests!ForwardAssumption, Requests!Init
  PROVE  ForwardInv
<1> USE DEF Requests!ForwardAssumption
<1>1. TypeInv /\ ProberWaits /\ \A c \in Call : Has(c)
  BY DEF Requests!Init, TypeInv, ProberWaits, Has, Place, Requests!Route
<1>2. \A r \in Requests!Route : Requests!OnRoute(r) = {} /\ Slots[r] \in Nat
  BY DEF Requests!Init, Requests!OnRoute, Requests!Route
<1>3. held \cup rows = {}
  BY DEF Requests!Init
<1>4. SlotsKept /\ RoomKept
  BY <1>2, <1>3, SameNotions, SumEmpty, FS_EmptySet DEF SlotsKept, RoomKept
<1> QED
  BY <1>1, <1>4 DEF ForwardInv

LEMMA NextInv ==
  ASSUME Requests!ForwardAssumption, ForwardInv, [Requests!Next]_Requests!vars
  PROVE  ForwardInv'
<1>1. TypeInv' /\ ProberWaits' /\ \A c \in Call : Has(c)'
  BY HandlerStep, OtherStep DEF ForwardInv, Requests!Next
<1>2. SlotsKept' /\ RoomKept'
  BY <1>1, SlotsNext, RoomNext DEF ForwardInv
<1> QED
  BY <1>1, <1>2 DEF ForwardInv

\* Who has what at every place of the pipeline, and that slots and room are
\* not overdrawn, holds in every reachable state.
THEOREM ForwardInvariant == UpkeepSpec => []ForwardInv
<1>1. UpkeepInit => ForwardInv
  BY InitInv, RequestsAssumption DEF UpkeepInit
<1>2. ForwardInv /\ [UpkeepNext]_<<focus, vars, requestVars>> => ForwardInv'
  <2> SUFFICES ASSUME ForwardInv, [UpkeepNext]_<<focus, vars, requestVars>>
               PROVE  ForwardInv'
    OBVIOUS
  <2>1. [Requests!Next]_Requests!vars
    BY DEF UpkeepNext, requestVars, Requests!vars, Requests!handlerVars, Requests!guardVars,
       Requests!probeVars
  <2> QED
    BY <2>1, NextInv, RequestsAssumption
<1> QED
  BY <1>1, <1>2, PTL DEF UpkeepSpec

\* No exit of the pipeline leaves a slot or a reservation behind, and whoever
\* is with the provider holds a reservation and its own route's slot, through
\* downshifts, failed writes and restarts.
THEOREM NothingIsLeaked == UpkeepSpec => []NothingLeaks
<1>1. ForwardInv => NothingLeaks
  BY SameNotions DEF ForwardInv, TypeInv, Has, SlotsKept, NothingLeaks, Requests!NothingLeaks
<1> QED
  BY <1>1, ForwardInvariant, PTL

\* A request that holds a slot has accepted counters exactly from its commit on.
THEOREM ForwardedIsCounted == UpkeepSpec => []CountedIfForwarded
<1>1. ForwardInv => CountedIfForwarded
  BY DEF ForwardInv, TypeInv, Has, CountedIfForwarded, Requests!CountedIfForwarded
<1> QED
  BY <1>1, ForwardInvariant, PTL

\* While no forwarded call is missing from the ledger, what the provider has
\* seen fits into the room.
THEOREM ForwardedStaysWithinRoom == UpkeepSpec => []ForwardedFits
<1>1. ASSUME ForwardInv, sent \subseteq held \cup rows
      PROVE  SumOf(Requests!BoundOf, sent) <= Room
  <2>1. /\ SumOf(Requests!BoundOf, sent) <= SumOf(Requests!BoundOf, held \cup rows)
        /\ SumOf(Requests!BoundOf, sent) \in Nat /\ SumOf(Requests!BoundOf, held \cup rows) \in Nat
    BY <1>1, BoundsAddUp, RequestsAssumption DEF ForwardInv, TypeInv
  <2> QED
    BY <1>1, <2>1, BoundType, RequestsAssumption DEF ForwardInv, RoomKept
<1>2. ForwardInv => ForwardedFits
  BY <1>1, SameNotions DEF ForwardedFits, Requests!ForwardedFits
<1> QED
  BY <1>2, ForwardInvariant, PTL
=============================================================================
