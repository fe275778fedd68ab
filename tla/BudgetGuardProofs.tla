-------------------------- MODULE BudgetGuardProofs --------------------------
(***************************************************************************)
(* Type correctness, exact reservation accounting and spend control of the *)
(* admission guard, for any number of calls, agents, guardrails, window    *)
(* shapes, limits, estimates and charges.                                  *)
(***************************************************************************)
EXTENDS BudgetGuard, SumTheorems

LEMMA MonusNat ==
  ASSUME NEW a \in Nat, NEW b \in Nat
  PROVE  Monus(a, b) \in Nat /\ (b <= a => Monus(a, b) = a - b)
BY DEF Monus

LEMMA LeastNat ==
  ASSUME NEW a \in Nat, NEW b \in Nat
  PROVE  Least(a, b) \in Nat /\ Least(a, b) <= a /\ Least(a, b) <= b
BY DEF Least

\* Sets of calls are finite, so their sums are natural numbers.
LEMMA CallSets ==
  ASSUME NEW S, S \subseteq Call
  PROVE  IsFiniteSet(S) /\ Cardinality(S) \in Nat
BY CallAssumption, FS_Subset, FS_CardinalityType

LEMMA CallSums ==
  ASSUME NEW S, S \subseteq Call, NEW f \in [Call -> Nat]
  PROVE  SumOf(f, S) \in Nat
<1>1. IsFiniteSet(S)
  BY CallSets
<1>2. \A x \in S : f[x] \in Nat
  OBVIOUS
<1> QED
  BY <1>1, <1>2, SumFinite

LEMMA LiveInCall == Live \subseteq Call
BY DEF Live

-----------------------------------------------------------------------------
(* Type correctness.                                                       *)

\* What Admit reserves is a natural number of dollars.
LEMMA ReserveAmountType ==
  ASSUME TypeOK, NEW c \in Call, Admissible(c), NEW a \in ReserveAmount(c)
  PROVE  a \in Nat
<1>1. CASE Positions(c) = {}
  <2>1. ReserveAmount(c) = {0}
    BY <1>1 DEF ReserveAmount
  <2> QED
    BY <2>1
<1>2. CASE Positions(c) # {} /\ est[c].kind = "bounded"
  <2>1. a = est[c].usd
    BY <1>2 DEF ReserveAmount
  <2>2. est[c] \in [kind : {"bounded", "unbounded", "unpriced"}, usd : Nat]
    BY MoneyAssumption DEF TypeOK
  <2> QED
    BY <2>1, <2>2
<1>3. CASE Positions(c) # {} /\ est[c].kind # "bounded"
  <2>1. PICK g \in Positions(c) : a = Remaining(g, c)
    BY <1>3 DEF ReserveAmount
  <2>2. g \in Rail /\ Armed(g, c) /\ g # Fanout
    BY RailAssumption DEF Positions, Rail, DollarRail
  <2>4. Spent(g, c) \in Nat
    <3>1. InWindow(g, c, ledger) \subseteq Call
      BY DEF InWindow, TypeOK
    <3>2. cost \in [Call -> Nat]
      BY DEF TypeOK
    <3> QED
      BY <2>2, <3>1, <3>2, CallSums DEF Spent
  <2>5. Reserved(g) \in Nat
    BY <2>2 DEF Reserved, TypeOK
  <2>6. limit[g] \in Nat
    BY <2>2 DEF TypeOK
  <2>7. Remaining(g, c) \in Int
    BY <2>4, <2>5, <2>6 DEF Remaining
  <2>8. ~(Remaining(g, c) <= 0)
    BY <2>2 DEF Admissible, Blocking
  <2> QED
    BY <2>1, <2>7, <2>8
<1> QED
  BY <1>1, <1>2, <1>3

LEMMA ReleaseType ==
  ASSUME TypeOK, NEW c \in Call, ReleaseLocked(c)
  PROVE  /\ reservedUSD' \in Nat /\ inFlight' \in Nat
         /\ reservedByAgent' \in [Agent -> Nat]
BY MonusNat DEF TypeOK, ReleaseLocked

LEMMA InitType == Init => TypeOK
<1> SUFFICES ASSUME Init PROVE TypeOK
  OBVIOUS
<1>1. agent \in [Call -> Agent] /\ est \in [Call -> Estimate]
  BY DEF Init
<1>2. limit \in [Rail -> Nat]
  BY MoneyAssumption DEF Init
<1>3. now \in Time /\ start \in [Call -> Time]
  BY TimeAssumption DEF Init, Time
<1>4. grant \in [Call -> [Rail -> Nat]]
  BY DEF Init, NoGrant
<1> QED
  BY <1>1, <1>2, <1>3, <1>4 DEF Init, TypeOK, Phase

LEMMA HandleType ==
  ASSUME TypeOK, NEW c \in Call, Handle(c)
  PROVE  TypeOK'
<1> USE DEF callVars, reservationVars, ledgerVars, guardVars, settingVars, Phase
<1>1. ASSUME NEW a \in Agent, NEW e \in Estimate, Arrive(c, a, e)
      PROVE  TypeOK'
  BY <1>1 DEF TypeOK, Arrive
<1>2. CASE AdmitRefuses(c)
  BY <1>2 DEF TypeOK, AdmitRefuses
<1>3. CASE AdmitErrs(c)
  BY <1>3 DEF TypeOK, AdmitErrs
<1>4. CASE AdmitTrips(c)
  <2>1. start[c] + Cooldown \in Nat
    BY TimeAssumption DEF TypeOK, Time
  <2> QED
    BY <1>4, <2>1 DEF TypeOK, AdmitTrips
<1>5. CASE AdmitReserves(c)
  <2>1. PICK a \in ReserveAmount(c) :
          /\ amount' = [amount EXCEPT ![c] = a]
          /\ reservedUSD' = reservedUSD + a
          /\ reservedByAgent' = [reservedByAgent EXCEPT ![agent[c]] = @ + a]
    BY <1>5 DEF AdmitReserves
  <2>2. a \in Nat
    BY <1>5, ReserveAmountType DEF AdmitReserves
  <2>3. grant'[c] \in [Rail -> Nat] /\ grant' \in [Call -> [Rail -> Nat]]
    BY <1>5 DEF AdmitReserves, TypeOK
  <2>4. heldAt' \in [Call -> SUBSET Call] /\ durableAt' \in [Call -> SUBSET Call]
    BY <1>5, LiveInCall DEF AdmitReserves, TypeOK
  <2> QED
    BY <1>5, <2>1, <2>2, <2>3, <2>4 DEF AdmitReserves, TypeOK
<1>6. ASSUME NEW v \in Cost, NEW unsafe \in BOOLEAN, Settle(c, v, unsafe)
      PROVE  TypeOK'
  <2>1. /\ reservedUSD' \in Nat /\ inFlight' \in Nat
        /\ reservedByAgent' \in [Agent -> Nat]
    BY <1>6, ReleaseType DEF Settle
  <2> QED
    BY <1>6, <2>1, MoneyAssumption DEF TypeOK, Settle
<1>7. CASE SettleFails(c)
  BY <1>7 DEF TypeOK, SettleFails
<1>8. CASE Release(c)
  <2>1. /\ reservedUSD' \in Nat /\ inFlight' \in Nat
        /\ reservedByAgent' \in [Agent -> Nat]
    BY <1>8, ReleaseType DEF Release
  <2> QED
    BY <1>8, <2>1 DEF TypeOK, Release
<1> QED
  BY <1>1, <1>2, <1>3, <1>4, <1>5, <1>6, <1>7, <1>8 DEF Handle

LEMMA AdministerType ==
  ASSUME TypeOK, Administer
  PROVE  TypeOK'
<1> USE DEF callVars, reservationVars, ledgerVars, guardVars, settingVars
<1>1. ASSUME NEW g \in Rail, NEW v \in Limit, SetLimit(g, v)
      PROVE  TypeOK'
  BY <1>1, MoneyAssumption DEF TypeOK, SetLimit
<1>2. ASSUME NEW b \in {"local", "external"}, Ban(b)
      PROVE  TypeOK'
  BY <1>2 DEF TypeOK, Ban
<1>3. ASSUME NEW b \in {"local", "external"}, NEW today \in BOOLEAN,
             Lift(b, today)
      PROVE  TypeOK'
  BY <1>3 DEF TypeOK, Lift
<1>4. CASE FuseReset
  BY <1>4 DEF TypeOK, FuseReset
<1>5. CASE FuseOff
  BY <1>5 DEF TypeOK, FuseOff
<1> QED
  BY <1>1, <1>2, <1>3, <1>4, <1>5 DEF Administer

LEMMA NextType ==
  ASSUME TypeOK, [Next]_vars
  PROVE  TypeOK'
<1> USE DEF callVars, reservationVars, ledgerVars, guardVars, settingVars
<1>1. ASSUME NEW c \in Call, Handle(c)
      PROVE  TypeOK'
  BY <1>1, HandleType
<1>2. CASE Restart
  BY <1>2 DEF TypeOK, Restart, Phase
<1>3. CASE Tick
  BY <1>3, TimeAssumption DEF TypeOK, Tick, Time
<1>4. CASE Administer
  BY <1>4, AdministerType
<1>5. CASE UNCHANGED vars
  BY <1>5 DEF vars, TypeOK
<1> QED
  BY <1>1, <1>2, <1>3, <1>4, <1>5 DEF Next, Serve

\* Every variable keeps its type: the guard's counters never go negative and
\* a reservation is always a natural amount.
THEOREM TypeCorrect == Spec => []TypeOK
<1>1. Init => TypeOK
  BY InitType
<1>2. TypeOK /\ [Next]_vars => TypeOK'
  BY NextType
<1> QED
  BY <1>1, <1>2, PTL DEF Spec
-----------------------------------------------------------------------------
(* Exact accounting of reservations.                                       *)

\* Holding one more call adds its amount and disturbs no other sum.
LEMMA SumHold ==
  ASSUME NEW f \in [Call -> Nat], NEW S, S \subseteq Call,
         NEW c \in Call, c \notin S, NEW a \in Nat
  PROVE  /\ SumOf([f EXCEPT ![c] = a], S) = SumOf(f, S)
         /\ SumOf([f EXCEPT ![c] = a], S \cup {c}) = SumOf(f, S) + a
<1> DEFINE g == [f EXCEPT ![c] = a]
<1>1. g \in [Call -> Nat] /\ g[c] = a /\ \A x \in S : f[x] = g[x]
  OBVIOUS
<1>2. IsFiniteSet(S)
  BY CallSets
<1>3. \A x \in S \cup {c} : g[x] \in Nat
  BY <1>1
<1> HIDE DEF g
<1>4. SumOf(g, S) = SumOf(f, S)
  BY <1>1, SumSame
<1>5. SumOf(g, S \cup {c}) = SumOf(g, S) + g[c]
  BY <1>2, <1>3, SumAdd
<1> QED
  BY <1>1, <1>4, <1>5 DEF g

\* Dropping a held call subtracts its amount, and the floor does not bite.
LEMMA SumDrop ==
  ASSUME NEW f \in [Call -> Nat], NEW S, S \subseteq Call, NEW c \in S
  PROVE  Monus(SumOf(f, S), f[c]) = SumOf(f, S \ {c})
<1>1. IsFiniteSet(S)
  BY CallSets
<1>2. \A x \in S : f[x] \in Nat
  OBVIOUS
<1>3. SumOf(f, S \ {c}) = SumOf(f, S) - f[c] /\ f[c] <= SumOf(f, S)
  BY <1>1, <1>2, SumRemove
<1>4. SumOf(f, S) \in Nat /\ f[c] \in Nat
  BY CallSums
<1> QED
  BY <1>3, <1>4, MonusNat

LEMMA CountDrop ==
  ASSUME NEW S, S \subseteq Call, NEW c \in S
  PROVE  Monus(Cardinality(S), 1) = Cardinality(S \ {c})
<1>1. IsFiniteSet(S)
  BY CallSets
<1>2. Cardinality(S \ {c}) = Cardinality(S) - 1
  BY <1>1, FS_RemoveElement
<1>3. Cardinality(S) \in Nat /\ Cardinality(S \ {c}) \in Nat
  BY CallSets
<1>4. 1 <= Cardinality(S)
  BY <1>2, <1>3
<1> QED
  BY <1>2, <1>3, <1>4, MonusNat

\* A step that keeps every phase, amount, agent and counter keeps the sums.
LEMMA ExactIdle ==
  ASSUME ReservationsExact, Live' = Live, UNCHANGED <<amount, guardVars>>,
         \A c \in Live : agent'[c] = agent[c]
  PROVE  ReservationsExact'
<1>1. ASSUME NEW a \in Agent
      PROVE  (LiveOf(a))' = LiveOf(a)
  BY DEF LiveOf
<1> QED
  BY <1>1 DEF ReservationsExact, guardVars

LEMMA ExactAdmit ==
  ASSUME TypeOK, ReservationsExact, NEW c \in Call, AdmitReserves(c)
  PROVE  ReservationsExact'
<1>1. PICK r \in ReserveAmount(c) :
        /\ amount' = [amount EXCEPT ![c] = r]
        /\ reservedUSD' = reservedUSD + r
        /\ reservedByAgent' = [reservedByAgent EXCEPT ![agent[c]] = @ + r]
  BY DEF AdmitReserves
<1>2. r \in Nat
  BY ReserveAmountType DEF AdmitReserves
<1>3. c \notin Live /\ Live' = Live \cup {c}
  BY DEF AdmitReserves, Live, TypeOK
<1>4. amount \in [Call -> Nat]
  BY DEF TypeOK
<1>5. reservedUSD' = SumOf(amount', Live')
  <2>1. SumOf([amount EXCEPT ![c] = r], Live \cup {c}) = SumOf(amount, Live) + r
    BY <1>2, <1>3, <1>4, LiveInCall, SumHold, ZenonT(30)
  <2>2. reservedUSD = SumOf(amount, Live)
    BY DEF ReservationsExact
  <2> QED
    BY <1>1, <1>3, <2>1, <2>2
<1>6. inFlight' = Cardinality(Live')
  <2>1. IsFiniteSet(Live)
    BY CallSets, LiveInCall
  <2>2. Cardinality(Live \cup {c}) = Cardinality(Live) + 1
    BY <1>3, <2>1, FS_AddElement
  <2> QED
    BY <1>3, <2>2 DEF AdmitReserves, ReservationsExact
<1>7. ASSUME NEW a \in Agent
      PROVE  reservedByAgent'[a] = SumOf(amount', (LiveOf(a))')
  <2>0. LiveOf(a) \subseteq Call /\ c \notin LiveOf(a)
    BY <1>3, LiveInCall DEF LiveOf
  <2>1. agent' = agent /\ agent[c] \in Agent
    BY DEF AdmitReserves, TypeOK
  <2>2. CASE agent[c] = a
    <3>1. (LiveOf(a))' = LiveOf(a) \cup {c}
      BY <1>3, <2>1, <2>2 DEF LiveOf
    <3>2. SumOf([amount EXCEPT ![c] = r], LiveOf(a) \cup {c})
            = SumOf(amount, LiveOf(a)) + r
      BY <1>2, <1>4, <2>0, SumHold, ZenonT(30)
    <3>3. reservedByAgent'[a] = reservedByAgent[a] + r
      BY <1>1, <2>1, <2>2 DEF TypeOK
    <3>4. reservedByAgent[a] = SumOf(amount, LiveOf(a))
      BY DEF ReservationsExact
    <3> QED
      BY <1>1, <3>1, <3>2, <3>3, <3>4
  <2>3. CASE agent[c] # a
    <3>1. (LiveOf(a))' = LiveOf(a)
      BY <1>3, <2>1, <2>3 DEF LiveOf
    <3>2. SumOf([amount EXCEPT ![c] = r], LiveOf(a)) = SumOf(amount, LiveOf(a))
      BY <1>2, <1>4, <2>0, SumHold, ZenonT(30)
    <3>3. reservedByAgent'[a] = reservedByAgent[a]
      BY <1>1, <2>1, <2>3 DEF TypeOK
    <3> QED
      BY <1>1, <3>1, <3>2, <3>3 DEF ReservationsExact
  <2> QED
    BY <2>2, <2>3
<1> QED
  BY <1>5, <1>6, <1>7 DEF ReservationsExact

\* Settle and Release end a hold exactly once.
LEMMA ExactRelease ==
  ASSUME TypeOK, ReservationsExact, NEW c \in Live, ReleaseLocked(c),
         phase' = [phase EXCEPT ![c] = "done"], UNCHANGED <<amount, agent>>
  PROVE  ReservationsExact'
<1>1. Live' = Live \ {c} /\ c \in Call
  BY DEF Live, TypeOK
<1>2. amount \in [Call -> Nat] /\ agent[c] \in Agent
  BY <1>1 DEF TypeOK
<1>3. reservedUSD' = SumOf(amount', Live')
  <2>1. Monus(SumOf(amount, Live), amount[c]) = SumOf(amount, Live \ {c})
    BY <1>2, LiveInCall, SumDrop
  <2> QED
    BY <1>1, <2>1 DEF ReservationsExact, ReleaseLocked
<1>4. inFlight' = Cardinality(Live')
  <2>1. Monus(Cardinality(Live), 1) = Cardinality(Live \ {c})
    BY LiveInCall, CountDrop
  <2> QED
    BY <1>1, <2>1 DEF ReservationsExact, ReleaseLocked
<1>5. ASSUME NEW a \in Agent
      PROVE  reservedByAgent'[a] = SumOf(amount', (LiveOf(a))')
  <2>1. CASE agent[c] = a
    <3>1. (LiveOf(a))' = LiveOf(a) \ {c} /\ c \in LiveOf(a)
      BY <1>1, <2>1 DEF LiveOf
    <3>2. LiveOf(a) \subseteq Call
      BY LiveInCall DEF LiveOf
    <3>3. Monus(SumOf(amount, LiveOf(a)), amount[c])
            = SumOf(amount, LiveOf(a) \ {c})
      BY <1>2, <3>1, <3>2, SumDrop
    <3>4. reservedByAgent'[a] = Monus(reservedByAgent[a], amount[c])
      BY <1>2, <2>1 DEF ReleaseLocked, TypeOK
    <3> QED
      BY <3>1, <3>3, <3>4 DEF ReservationsExact
  <2>2. CASE agent[c] # a
    <3>1. (LiveOf(a))' = LiveOf(a)
      BY <1>1, <2>2 DEF LiveOf
    <3>2. reservedByAgent'[a] = reservedByAgent[a]
      BY <1>2, <2>2 DEF ReleaseLocked, TypeOK
    <3> QED
      BY <3>1, <3>2 DEF ReservationsExact
  <2> QED
    BY <2>1, <2>2
<1> QED
  BY <1>3, <1>4, <1>5 DEF ReservationsExact

LEMMA ExactHandle ==
  ASSUME TypeOK, ReservationsExact, NEW c \in Call, Handle(c)
  PROVE  ReservationsExact'
<1> USE DEF reservationVars, ledgerVars, guardVars
<1>1. ASSUME NEW a \in Agent, NEW e \in Estimate, Arrive(c, a, e)
      PROVE  ReservationsExact'
  <2>1. Live' = Live /\ \A d \in Live : agent'[d] = agent[d]
    BY <1>1 DEF Arrive, Live, TypeOK
  <2> QED
    BY <1>1, <2>1, ExactIdle DEF Arrive
<1>2. CASE AdmitRefuses(c) \/ AdmitErrs(c) \/ AdmitTrips(c)
  <2>1. Live' = Live
    BY <1>2 DEF AdmitRefuses, AdmitErrs, AdmitTrips, Live, TypeOK
  <2> QED
    BY <1>2, <2>1, ExactIdle DEF AdmitRefuses, AdmitErrs, AdmitTrips
<1>3. CASE AdmitReserves(c)
  BY <1>3, ExactAdmit
<1>4. ASSUME NEW v \in Cost, NEW unsafe \in BOOLEAN, Settle(c, v, unsafe)
      PROVE  ReservationsExact'
  <2>1. c \in Live
    BY <1>4 DEF Settle, Live
  <2> QED
    BY <1>4, <2>1, ExactRelease DEF Settle
<1>5. CASE SettleFails(c)
  <2>1. Live' = Live
    BY <1>5 DEF SettleFails, Live, TypeOK
  <2> QED
    BY <1>5, <2>1, ExactIdle DEF SettleFails
<1>6. CASE Release(c)
  BY <1>6, ExactRelease DEF Release
<1> QED
  BY <1>1, <1>2, <1>3, <1>4, <1>5, <1>6 DEF Handle

LEMMA ExactNext ==
  ASSUME TypeOK, ReservationsExact, [Next]_vars
  PROVE  ReservationsExact'
<1> USE DEF callVars, reservationVars, guardVars
<1>1. ASSUME NEW c \in Call, Handle(c)
      PROVE  ReservationsExact'
  BY <1>1, ExactHandle
<1>2. CASE Restart
  <2>1. Live' = {}
    BY <1>2 DEF Restart, Live
  <2>2. \A a \in Agent : (LiveOf(a))' = {}
    BY <2>1 DEF LiveOf
  <2> QED
    BY <1>2, <2>1, <2>2, SumEmpty, FS_EmptySet DEF Restart, ReservationsExact
<1>3. CASE UNCHANGED <<callVars, reservationVars, guardVars>>
  BY <1>3, ExactIdle DEF Live
<1>4. CASE Tick \/ Administer \/ UNCHANGED vars
  <2>1. UNCHANGED <<callVars, reservationVars, guardVars>>
    BY <1>4 DEF Tick, Administer, SetLimit, Ban, Lift, FuseReset, FuseOff, vars
  <2> QED
    BY <1>3, <2>1
<1> QED
  BY <1>1, <1>2, <1>4 DEF Next, Serve

\* No schedule of admissions, settlements, failed inserts, releases and
\* crashes leaks a reservation or gives one back twice.
THEOREM ReservationsAreExact == Spec => []ReservationsExact
<1>1. Init => ReservationsExact
  <2> SUFFICES ASSUME Init PROVE ReservationsExact
    OBVIOUS
  <2>1. Live = {} /\ \A a \in Agent : LiveOf(a) = {}
    BY DEF Init, Live, LiveOf
  <2> QED
    BY <2>1, SumEmpty, FS_EmptySet DEF Init, ReservationsExact
<1>2. TypeOK /\ ReservationsExact /\ [Next]_vars => ReservationsExact'
  BY ExactNext
<1> QED
  BY <1>1, <1>2, TypeCorrect, PTL DEF Spec
-----------------------------------------------------------------------------
(* Spend control.                                                          *)

LEMMA CoveredType == TypeOK => Covered \in [Call -> Nat]
<1> SUFFICES ASSUME TypeOK PROVE Covered \in [Call -> Nat]
  OBVIOUS
<1>1. ASSUME NEW c \in Call
      PROVE  Covered[c] \in Nat
  <2>1. cost[c] \in Nat /\ amount[c] \in Nat
    BY DEF TypeOK
  <2> QED
    BY <2>1, LeastNat DEF Covered
<1> QED
  BY <1>1 DEF Covered

LEMMA CoveredTypeNext == TypeOK' => (Covered \in [Call -> Nat])'
BY CoveredType, PTL

\* A durable call is covered by no more than its cost, any call by no more
\* than its reservation.
LEMMA CoveredBounds ==
  ASSUME TypeOK, NEW c \in Call
  PROVE  Covered[c] <= amount[c] /\ (c \in ledger => Covered[c] <= cost[c])
<1>1. cost[c] \in Nat /\ amount[c] \in Nat
  BY DEF TypeOK
<1>2. CASE est[c].kind # "bounded"
  BY <1>1, <1>2 DEF Covered
<1>3. CASE est[c].kind = "bounded" /\ c \in ledger
  <2>1. Covered[c] = Least(cost[c], amount[c])
    BY <1>3 DEF Covered
  <2> QED
    BY <1>1, <2>1, LeastNat
<1>4. CASE est[c].kind = "bounded" /\ c \notin ledger
  BY <1>1, <1>4 DEF Covered
<1> QED
  BY <1>2, <1>3, <1>4

LEMMA StandingInCall ==
  ASSUME TypeOK, NEW g \in Rail, NEW c \in Call
  PROVE  /\ Standing(g, c) \subseteq Call
         /\ Standing(g, c) \subseteq (Prior(c) \cap Counted) \cup {c}
BY DEF Standing, InWindow, Prior, TypeOK

\* A call keeps fitting as long as what stands against it only shrinks.
LEMMA FitsKept ==
  ASSUME TypeOK, TypeOK', NEW g \in Rail, NEW c \in Counted, Fits(g, c),
         UNCHANGED <<grant[c], heldAt[c], durableAt[c]>>,
         \A e \in Counted : UNCHANGED <<start[e], agent[e]>>,
         Prior(c) \cap Counted' \subseteq Counted,
         \A e \in Standing(g, c) : Covered'[e] <= Covered[e]
  PROVE  Fits(g, c)'
<1>0. c \in Call
  BY DEF Counted, Live, TypeOK
<1>1. Prior(c)' = Prior(c)
  BY DEF Prior
<1>2. Standing(g, c)' \subseteq Standing(g, c)
  BY <1>1 DEF Standing, InWindow
<1>3. Standing(g, c) \subseteq Call /\ IsFiniteSet(Standing(g, c))
  BY <1>0, StandingInCall, CallSets
<1>4. CASE g = Fanout
  <2>1. Cardinality(Standing(g, c)') <= Cardinality(Standing(g, c))
    BY <1>2, <1>3, FS_Subset
  <2>2. Cardinality(Standing(g, c)') \in Nat /\ Cardinality(Standing(g, c)) \in Nat
    BY <1>2, <1>3, CallSets
  <2>3. grant[c][g] \in Nat
    BY <1>0 DEF TypeOK
  <2> QED
    BY <1>4, <2>1, <2>2, <2>3 DEF Fits
<1>5. CASE g # Fanout
  <2>0. Covered \in [Call -> Nat] /\ Covered' \in [Call -> Nat]
    BY CoveredType, CoveredTypeNext
  <2>1. SumOf(Covered', Standing(g, c)') <= SumOf(Covered, Standing(g, c))
    BY <1>2, <1>3, <2>0, SumMonotone
  <2>2. /\ SumOf(Covered', Standing(g, c)') \in Nat
        /\ SumOf(Covered, Standing(g, c)) \in Nat
    BY <1>2, <1>3, <2>0, CallSums
  <2>3. grant[c][g] \in Nat
    BY <1>0 DEF TypeOK
  <2> QED
    BY <1>5, <2>1, <2>2, <2>3 DEF Fits
<1> QED
  BY <1>4, <1>5

\* A step that admits nothing and charges nothing above a reservation.
LEMMA GrantsKept ==
  ASSUME TypeOK, TypeOK', WithinGrant,
         UNCHANGED <<grant, heldAt, durableAt>>,
         Counted' \subseteq Counted,
         \A e \in Counted : UNCHANGED <<start[e], agent[e]>>,
         \A e \in Counted : Covered'[e] <= Covered[e]
  PROVE  WithinGrant'
<1> SUFFICES ASSUME NEW c \in Counted', NEW g \in Rail, grant'[c][g] > 0
             PROVE  Fits(g, c)'
  BY DEF WithinGrant
<1>1. c \in Counted /\ Fits(g, c) /\ c \in Call
  BY DEF WithinGrant, Counted, Live, TypeOK
<1>2. \A e \in Standing(g, c) : Covered'[e] <= Covered[e]
  BY <1>1, StandingInCall
<1> QED
  BY <1>1, <1>2, FitsKept

\* A step that leaves the calls of Counted and the ledger alone.
LEMMA GrantsIdle ==
  ASSUME TypeOK, TypeOK', WithinGrant,
         UNCHANGED <<reservationVars, ledgerVars>>, Live' \subseteq Live,
         \A e \in Counted : UNCHANGED <<start[e], agent[e], est[e]>>
  PROVE  WithinGrant'
<1>1. Counted' \subseteq Counted
  BY DEF Counted, ledgerVars
<1>2. ASSUME NEW e \in Counted
      PROVE  Covered'[e] <= Covered[e]
  <2>1. e \in Call
    BY <1>2 DEF Counted, Live, TypeOK
  <2>2. Covered'[e] = Covered[e]
    BY <1>2, <2>1 DEF Covered, ledgerVars, reservationVars
  <2>3. Covered[e] \in Nat
    BY <2>1, CoveredType
  <2> QED
    BY <2>2, <2>3
<1> QED
  BY <1>1, <1>2, GrantsKept DEF reservationVars

\* What an admitted call is covered by fits in what its rails had left.
LEMMA AdmittedFitsHeadroom ==
  ASSUME TypeOK, NEW c \in Call, AdmitReserves(c),
         NEW g \in DollarRail, Armed(g, c)
  PROVE  Covered'[c] <= Remaining(g, c) /\ Remaining(g, c) \in Int
<1>0. g \in Rail /\ g # Fanout /\ g \in Positions(c)
  BY RailAssumption DEF Rail, DollarRail, Positions
<1>1. Remaining(g, c) \in Int
  <2>1. InWindow(g, c, ledger) \subseteq Call /\ cost \in [Call -> Nat]
    BY DEF InWindow, TypeOK
  <2>2. Spent(g, c) \in Nat
    BY <1>0, <2>1, CallSums DEF Spent
  <2>3. Reserved(g) \in Nat /\ limit[g] \in Nat
    BY <1>0 DEF Reserved, TypeOK
  <2> QED
    BY <2>2, <2>3 DEF Remaining
<1>2. est' = est /\ ledger' = ledger /\ Admissible(c) /\ c \notin Blocking(c)
  BY DEF AdmitReserves, ledgerVars, Admissible
<1>3. CASE est[c].kind = "bounded"
  <2>1. est[c] \in [kind : {"bounded", "unbounded", "unpriced"}, usd : Nat]
    BY MoneyAssumption DEF TypeOK
  <2>2. Crossed(c) = {}
    BY <1>0, <1>2, <1>3 DEF Admissible
  <2>3. est[c].usd <= Remaining(g, c)
    BY <1>0, <1>1, <2>1, <2>2 DEF Crossed
  <2>4. amount'[c] = est[c].usd
    BY <1>0, <1>3 DEF AdmitReserves, ReserveAmount, TypeOK
  <2>5. c \notin ledger => Covered'[c] = amount'[c]
    BY <1>2, <1>3 DEF Covered
  <2>6. c \in ledger => Covered'[c] = Least(cost'[c], amount'[c])
    BY <1>2, <1>3 DEF Covered
  <2>7. cost'[c] \in Nat
    BY DEF AdmitReserves, ledgerVars, TypeOK
  <2>8. amount'[c] \in Nat
    BY <2>1, <2>4
  <2>9. /\ Least(cost'[c], amount'[c]) \in Nat
        /\ Least(cost'[c], amount'[c]) <= amount'[c]
    BY <2>7, <2>8, LeastNat
  <2>10. Covered'[c] <= amount'[c] /\ Covered'[c] \in Nat
    BY <2>5, <2>6, <2>8, <2>9
  <2> QED
    BY <1>1, <2>3, <2>4, <2>8, <2>10
<1>4. CASE est[c].kind # "bounded"
  <2>1. Covered'[c] = 0
    BY <1>2, <1>4 DEF Covered
  <2>2. ~(Remaining(g, c) <= 0)
    BY <1>0, <1>2 DEF Admissible, Blocking
  <2> QED
    BY <1>1, <2>1, <2>2
<1> QED
  BY <1>3, <1>4

\* The ledger rows and the holds that stand against rail g at admission.
HoldsOf(g) == IF g \in Agent THEN LiveOf(g) ELSE Live

LEMMA StandingAtAdmission ==
  ASSUME TypeOK, LedgerDone, NEW c \in Call, AdmitReserves(c),
         NEW g \in Rail, Armed(g, c)
  PROVE  /\ Standing(g, c)' \subseteq (InWindow(g, c, ledger) \cup HoldsOf(g)) \cup {c}
         /\ InWindow(g, c, ledger) \cup HoldsOf(g) \subseteq Call
         /\ InWindow(g, c, ledger) \cap HoldsOf(g) = {}
         /\ c \notin InWindow(g, c, ledger) \cup HoldsOf(g)
<1>1. Live' = Live \cup {c} /\ ledger' = ledger
  BY DEF AdmitReserves, Live, ledgerVars, TypeOK
<1>2. Prior(c)' = Live \cup ledger
  BY DEF AdmitReserves, Prior, TypeOK
<1>3. (Prior(c) \cap Counted)' \cup {c} = ledger \cup Live \cup {c}
  BY <1>1, <1>2 DEF Counted
<1>4. agent' = agent /\ start' = start
  BY DEF AdmitReserves
<1>5. Standing(g, c)' = InWindow(g, c, ledger \cup Live \cup {c})
  BY <1>3, <1>4 DEF Standing, InWindow
<1>6. g \in Agent => agent[c] = g
  BY DEF Armed
<1>7. c \notin ledger /\ c \notin Live /\ ledger \cap Live = {}
  BY DEF AdmitReserves, LedgerDone, Live
<1> QED
  BY <1>5, <1>7, LiveInCall DEF InWindow, HoldsOf, LiveOf, TypeOK

LEMMA AdmittedFitsDollars ==
  ASSUME TypeOK, TypeOK', LedgerDone, ReservationsExact,
         NEW c \in Call, AdmitReserves(c), NEW g \in DollarRail, Armed(g, c)
  PROVE  SumOf(Covered', Standing(g, c)') <= limit[g]
<1> DEFINE L == InWindow(g, c, ledger)
           H == HoldsOf(g)
<1>0. g \in Rail /\ g # Fanout
  BY RailAssumption DEF Rail, DollarRail
<1>1. /\ Standing(g, c)' \subseteq (L \cup H) \cup {c}
      /\ L \cup H \subseteq Call /\ L \cap H = {} /\ c \notin L \cup H
  BY <1>0, StandingAtAdmission
<1>2. Covered' \in [Call -> Nat]
  BY CoveredTypeNext
<1>3. amount \in [Call -> Nat] /\ cost \in [Call -> Nat]
  BY DEF TypeOK
<1>4. L \subseteq ledger /\ H \subseteq Live
  BY DEF InWindow, HoldsOf, LiveOf
<1>5. \A e \in L : Covered'[e] <= cost[e]
  <2> SUFFICES ASSUME NEW e \in L PROVE Covered'[e] <= cost[e]
    OBVIOUS
  <2>1. e \in Call /\ e \in ledger /\ cost[e] \in Nat /\ amount'[e] \in Nat
    BY <1>1, <1>4 DEF TypeOK
  <2>2. est' = est /\ ledger' = ledger /\ cost' = cost
    BY DEF AdmitReserves, ledgerVars
  <2>3. CASE est[e].kind # "bounded"
    BY <2>1, <2>2, <2>3 DEF Covered
  <2>4. CASE est[e].kind = "bounded"
    <3>1. Covered'[e] = Least(cost[e], amount'[e])
      BY <2>1, <2>2, <2>4 DEF Covered
    <3> QED
      BY <2>1, <3>1, LeastNat
  <2> QED
    BY <2>3, <2>4
<1>6. \A e \in H : Covered'[e] <= amount[e]
  <2> SUFFICES ASSUME NEW e \in H PROVE Covered'[e] <= amount[e]
    OBVIOUS
  <2>1. e \in Call /\ e \in Live /\ e # c
    BY <1>1, <1>4
  <2>2. e \notin ledger /\ ledger' = ledger /\ est' = est
    BY <2>1 DEF Live, LedgerDone, AdmitReserves, ledgerVars
  <2>3. amount'[e] = amount[e] /\ amount[e] \in Nat
    BY <2>1 DEF AdmitReserves, TypeOK
  <2> QED
    BY <2>1, <2>2, <2>3 DEF Covered
<1>7. SumOf(cost, L) = Spent(g, c) /\ SumOf(amount, H) = Reserved(g)
  BY <1>0 DEF Spent, Reserved, HoldsOf, ReservationsExact
<1>8. Covered'[c] <= Remaining(g, c)
  BY AdmittedFitsHeadroom
<1> HIDE DEF L, H
<1>9. IsFiniteSet(L) /\ IsFiniteSet(H) /\ IsFiniteSet(L \cup H)
  BY <1>1, CallSets
<1>10. SumOf(Covered', L) <= SumOf(cost, L)
  BY <1>1, <1>2, <1>3, <1>5, <1>9, SumMonotone
<1>11. SumOf(Covered', H) <= SumOf(amount, H)
  BY <1>1, <1>2, <1>3, <1>6, <1>9, SumMonotone
<1>12. SumOf(Covered', L \cup H) = SumOf(Covered', L) + SumOf(Covered', H)
  BY <1>1, <1>2, <1>9, SumUnion
<1>13. SumOf(Covered', (L \cup H) \cup {c}) = SumOf(Covered', L \cup H) + Covered'[c]
  BY <1>1, <1>2, <1>9, SumAdd
<1>14. SumOf(Covered', Standing(g, c)') <= SumOf(Covered', (L \cup H) \cup {c})
  <2>1. IsFiniteSet((L \cup H) \cup {c}) /\ (L \cup H) \cup {c} \subseteq Call
    BY <1>1, CallSets
  <2>2. \A x \in (L \cup H) \cup {c} : Covered'[x] \in Nat
    BY <1>2, <2>1
  <2>3. \A x \in Standing(g, c)' : Covered'[x] <= Covered'[x]
    BY <1>1, <2>2
  <2> QED
    BY <1>1, <2>1, <2>2, <2>3, SumMonotone
<1>15. /\ SumOf(Covered', L) \in Nat /\ SumOf(Covered', H) \in Nat
       /\ SumOf(cost, L) \in Nat /\ SumOf(amount, H) \in Nat
       /\ SumOf(Covered', Standing(g, c)') \in Nat
       /\ Covered'[c] \in Nat
  BY <1>1, <1>2, <1>3, CallSums
<1>16. limit[g] \in Nat
  BY <1>0 DEF TypeOK
<1>17. Remaining(g, c) = limit[g] - SumOf(cost, L) - SumOf(amount, H)
  BY <1>7 DEF Remaining
<1> QED
  BY <1>8, <1>10, <1>11, <1>12, <1>13, <1>14, <1>15, <1>16, <1>17

LEMMA AdmittedFitsFanout ==
  ASSUME TypeOK, LedgerDone, ReservationsExact,
         NEW c \in Call, AdmitReserves(c), Armed(Fanout, c)
  PROVE  Cardinality(Standing(Fanout, c)') <= limit[Fanout]
<1> DEFINE L == InWindow(Fanout, c, ledger)
<1>0. Fanout \in Rail /\ Fanout \notin Agent
  BY RailAssumption DEF Rail, DollarRail
<1>1. /\ Standing(Fanout, c)' \subseteq (L \cup Live) \cup {c}
      /\ L \cup Live \subseteq Call /\ L \cap Live = {} /\ c \notin L \cup Live
  BY <1>0, StandingAtAdmission DEF HoldsOf
<1>2. Remaining(Fanout, c) = limit[Fanout] - Cardinality(L) - Cardinality(Live)
  BY <1>0 DEF Remaining, Spent, Reserved, ReservationsExact
<1>3. ~(Remaining(Fanout, c) <= 0)
  BY <1>0 DEF AdmitReserves, Admissible, Blocking
<1> HIDE DEF L
<1>4. IsFiniteSet(L) /\ IsFiniteSet(Live) /\ IsFiniteSet(L \cup Live)
  BY <1>1, CallSets
<1>5. Cardinality(L) \in Nat /\ Cardinality(Live) \in Nat /\ Cardinality(L \cup Live) \in Nat
  BY <1>1, CallSets
<1>6. Cardinality(L \cup Live) = Cardinality(L) + Cardinality(Live)
  <2>1. Cardinality(L \cap Live) = 0
    BY <1>1, FS_EmptySet
  <2>2. Cardinality(L \cup Live)
          = Cardinality(L) + Cardinality(Live) - Cardinality(L \cap Live)
    BY <1>4, FS_Union
  <2> QED
    BY <1>5, <2>1, <2>2
<1>7. /\ IsFiniteSet((L \cup Live) \cup {c})
      /\ Cardinality((L \cup Live) \cup {c}) = Cardinality(L \cup Live) + 1
  BY <1>1, <1>4, FS_AddElement
<1>8. /\ Cardinality(Standing(Fanout, c)') \in Nat
      /\ Cardinality(Standing(Fanout, c)') <= Cardinality((L \cup Live) \cup {c})
  BY <1>1, <1>7, FS_Subset, FS_CardinalityType
<1>9. limit[Fanout] \in Nat
  BY <1>0 DEF TypeOK
<1> QED
  BY <1>2, <1>3, <1>5, <1>6, <1>7, <1>8, <1>9

LEMMA GrantsAdmit ==
  ASSUME TypeOK, TypeOK', GrantInv, NEW c \in Call, AdmitReserves(c)
  PROVE  WithinGrant'
<1> SUFFICES ASSUME NEW d \in Counted', NEW g \in Rail, grant'[d][g] > 0
             PROVE  Fits(g, d)'
  BY DEF WithinGrant
<1>1. Counted' = Counted \cup {c} /\ c \notin Counted
  BY DEF AdmitReserves, Counted, Live, LedgerDone, GrantInv, ledgerVars, TypeOK
<1>2. CASE d = c
  <2>1. Armed(g, c) /\ grant'[c][g] = limit[g]
    <3>1. grant'[c][g] = (IF Armed(g, c) THEN limit[g] ELSE 0)
      BY DEF AdmitReserves, TypeOK
    <3>2. Armed(g, c)
      BY <1>2, <3>1
    <3> QED
      BY <3>1, <3>2
  <2>2. CASE g = Fanout
    BY <1>2, <2>1, <2>2, AdmittedFitsFanout DEF Fits, GrantInv
  <2>3. CASE g # Fanout
    <3>1. g \in DollarRail
      BY <2>3 DEF Rail, DollarRail
    <3> QED
      BY <1>2, <2>1, <2>3, <3>1, AdmittedFitsDollars DEF Fits, GrantInv
  <2> QED
    BY <2>2, <2>3
<1>3. CASE d # c
  <2>1. d \in Counted /\ d \in Call
    BY <1>1, <1>3 DEF Counted, Live, TypeOK
  <2>2. UNCHANGED <<grant[d], heldAt[d], durableAt[d]>>
    BY <1>3, <2>1 DEF AdmitReserves, TypeOK
  <2>3. Fits(g, d)
    BY <2>1, <2>2 DEF GrantInv, WithinGrant
  <2>4. c \notin Prior(d)
    BY <2>1 DEF GrantInv, PriorStarted, AdmitReserves
  <2>5. \A e \in Standing(g, d) : Covered'[e] <= Covered[e]
    <3> SUFFICES ASSUME NEW e \in Standing(g, d)
                 PROVE  Covered'[e] <= Covered[e]
      OBVIOUS
    <3>1. e \in Call /\ e # c
      BY <1>3, <2>1, <2>4, StandingInCall
    <3>2. Covered'[e] = Covered[e]
      BY <3>1 DEF Covered, AdmitReserves, ledgerVars, TypeOK
    <3>3. Covered[e] \in Nat
      BY <3>1, CoveredType
    <3> QED
      BY <3>2, <3>3
  <2>6. Prior(d) \cap Counted' \subseteq Counted
    BY <1>1, <2>4
  <2>7. \A e \in Counted : UNCHANGED <<start[e], agent[e]>>
    BY DEF AdmitReserves
  <2> QED
    BY <2>1, <2>2, <2>3, <2>5, <2>6, <2>7, FitsKept
<1> QED
  BY <1>2, <1>3

LEMMA GrantsSettle ==
  ASSUME TypeOK, TypeOK', GrantInv, NEW c \in Call,
         NEW v \in Cost, NEW unsafe \in BOOLEAN, Settle(c, v, unsafe)
  PROVE  WithinGrant'
<1>1. c \in Live /\ c \notin ledger
  BY DEF Settle, Live, GrantInv, LedgerDone
<1>2. Counted' \subseteq Counted
  BY <1>1 DEF Settle, Counted, Live, TypeOK
<1>3. ASSUME NEW e \in Counted
      PROVE  Covered'[e] <= Covered[e]
  <2>1. e \in Call /\ Covered[e] \in Nat
    BY <1>3, CoveredType DEF Counted, Live, TypeOK
  <2>2. UNCHANGED <<est, amount>>
    BY DEF Settle, reservationVars
  <2>3. CASE e # c
    <3>1. (e \in ledger' <=> e \in ledger) /\ cost'[e] = cost[e]
      BY <2>1, <2>3 DEF Settle, TypeOK
    <3>2. Covered'[e] = Covered[e]
      BY <2>1, <2>2, <3>1 DEF Covered
    <3> QED
      BY <2>1, <3>2
  <2>4. CASE e = c /\ est[c].kind # "bounded"
    <3>1. Covered'[c] = 0
      BY <2>2, <2>4 DEF Covered
    <3> QED
      BY <2>1, <2>4, <3>1
  <2>5. CASE e = c /\ est[c].kind = "bounded"
    <3>1. Covered[c] = amount[c] /\ c \in ledger'
      BY <1>1, <2>5 DEF Covered, Settle
    <3>2. Covered'[c] = Least(cost'[c], amount[c])
      BY <2>2, <2>5, <3>1 DEF Covered
    <3>3. cost'[c] \in Nat /\ amount[c] \in Nat
      BY DEF TypeOK
    <3> QED
      BY <2>5, <3>1, <3>2, <3>3, LeastNat
  <2> QED
    BY <2>3, <2>4, <2>5
<1> QED
  BY <1>2, <1>3, GrantsKept DEF Settle, reservationVars, GrantInv

LEMMA GrantsHandle ==
  ASSUME TypeOK, TypeOK', GrantInv, NEW c \in Call, Handle(c)
  PROVE  WithinGrant'
<1> USE DEF GrantInv, Counted, Live
<1>1. ASSUME NEW a \in Agent, NEW e \in Estimate, Arrive(c, a, e)
      PROVE  WithinGrant'
  <2>1. c \notin Counted
    BY <1>1 DEF Arrive, LedgerDone
  <2>2. \A d \in Counted : UNCHANGED <<start[d], agent[d], est[d]>>
    BY <1>1, <2>1 DEF Arrive, TypeOK
  <2>3. Live' \subseteq Live /\ UNCHANGED <<reservationVars, ledgerVars>>
    BY <1>1 DEF Arrive, TypeOK
  <2> QED
    BY <2>2, <2>3, GrantsIdle
<1>2. CASE AdmitRefuses(c) \/ AdmitErrs(c) \/ AdmitTrips(c) \/ SettleFails(c) \/ Release(c)
  <2>1. /\ UNCHANGED <<start, agent, est, reservationVars, ledgerVars>>
        /\ Live' \subseteq Live
    BY <1>2 DEF AdmitRefuses, AdmitErrs, AdmitTrips, SettleFails, Release, TypeOK
  <2> QED
    BY <2>1, GrantsIdle
<1>3. CASE AdmitReserves(c)
  BY <1>3, GrantsAdmit
<1>4. ASSUME NEW v \in Cost, NEW unsafe \in BOOLEAN, Settle(c, v, unsafe)
      PROVE  WithinGrant'
  BY <1>4, GrantsSettle
<1> QED
  BY <1>1, <1>2, <1>3, <1>4 DEF Handle

LEMMA GrantsNext ==
  ASSUME TypeOK, TypeOK', GrantInv, [Next]_vars
  PROVE  WithinGrant'
<1> USE DEF callVars, GrantInv
<1>1. ASSUME NEW c \in Call, Handle(c)
      PROVE  WithinGrant'
  BY <1>1, GrantsHandle
<1>2. CASE Restart
  <2>1. Live' \subseteq Live
    BY <1>2 DEF Restart, Live
  <2> QED
    BY <1>2, <2>1, GrantsIdle DEF Restart
<1>3. CASE Tick \/ Administer \/ UNCHANGED vars
  <2>1. UNCHANGED <<callVars, reservationVars, ledgerVars>>
    BY <1>3 DEF Tick, Administer, SetLimit, Ban, Lift, FuseReset, FuseOff, vars
  <2>2. Live' \subseteq Live /\ UNCHANGED <<start, agent, est>>
    BY <2>1 DEF Live
  <2> QED
    BY <2>1, <2>2, GrantsIdle
<1> QED
  BY <1>1, <1>2, <1>3 DEF Next, Serve

\* A started call stays started, so what came before an admission is fixed.
LEMMA PhasesNext ==
  ASSUME TypeOK, LedgerDone, PriorStarted, [Next]_vars
  PROVE  LedgerDone' /\ PriorStarted'
<1> USE DEF callVars, reservationVars, ledgerVars, LedgerDone, PriorStarted, Prior
<1>1. ASSUME NEW c \in Call, NEW a \in Agent, NEW e \in Estimate, Arrive(c, a, e)
      PROVE  LedgerDone' /\ PriorStarted'
  BY <1>1 DEF Arrive, TypeOK
<1>2. ASSUME NEW c \in Call,
             AdmitRefuses(c) \/ AdmitErrs(c) \/ AdmitTrips(c) \/ SettleFails(c) \/ Release(c)
      PROVE  LedgerDone' /\ PriorStarted'
  <2>1. phase[c] \notin {"idle", "done"} /\ phase'[c] \notin {"idle", "arrived"}
    BY <1>2 DEF AdmitRefuses, AdmitErrs, AdmitTrips, SettleFails, Release, Live, TypeOK
  <2>2. \A d \in Call : d # c => phase'[d] = phase[d]
    BY <1>2 DEF AdmitRefuses, AdmitErrs, AdmitTrips, SettleFails, Release, TypeOK
  <2>3. UNCHANGED <<ledger, heldAt, durableAt>>
    BY <1>2 DEF AdmitRefuses, AdmitErrs, AdmitTrips, SettleFails, Release
  <2> QED
    BY <2>1, <2>2, <2>3 DEF TypeOK
<1>3. ASSUME NEW c \in Call, AdmitReserves(c)
      PROVE  LedgerDone' /\ PriorStarted'
  <2>1. \A d \in Call : d # c => Prior(d)' = Prior(d)
    BY <1>3 DEF AdmitReserves, TypeOK
  <2>2. Prior(c)' = Live \cup ledger
    BY <1>3 DEF AdmitReserves, TypeOK
  <2>3. \A d \in Live \cup ledger : phase[d] \notin {"idle", "arrived"}
    BY DEF Live
  <2> QED
    BY <1>3, <2>1, <2>2, <2>3 DEF AdmitReserves, Live, TypeOK
<1>4. ASSUME NEW c \in Call, NEW v \in Cost, NEW unsafe \in BOOLEAN, Settle(c, v, unsafe)
      PROVE  LedgerDone' /\ PriorStarted'
  BY <1>4 DEF Settle, TypeOK
<1>5. CASE Restart
  BY <1>5 DEF Restart, TypeOK
<1>6. CASE Tick \/ Administer \/ UNCHANGED vars
  <2>1. UNCHANGED <<callVars, reservationVars, ledgerVars>>
    BY <1>6 DEF Tick, Administer, SetLimit, Ban, Lift, FuseReset, FuseOff, vars
  <2> QED
    BY <2>1
<1> QED
  BY <1>1, <1>2, <1>3, <1>4, <1>5, <1>6 DEF Next, Serve, Handle

\* Whatever is admitted, settled, lost or reconfigured, and in whatever order
\* handlers' clock readings reach the guard, an admitted call and everything
\* admitted before it in its window fit the limit it was admitted under.
THEOREM SpendStaysWithinGrant == Spec => []WithinGrant
<1>1. Init => LedgerDone /\ PriorStarted /\ WithinGrant
  <2> SUFFICES ASSUME Init PROVE LedgerDone /\ PriorStarted /\ WithinGrant
    OBVIOUS
  <2>1. Counted = {}
    BY DEF Init, Counted, Live
  <2>2. \A c \in Call : Prior(c) = {}
    BY DEF Init, Prior
  <2> QED
    BY <2>1, <2>2 DEF Init, LedgerDone, PriorStarted, WithinGrant
<1>2. TypeOK /\ TypeOK' /\ GrantInv /\ [Next]_vars => WithinGrant'
  BY GrantsNext
<1>3. TypeOK /\ LedgerDone /\ PriorStarted /\ [Next]_vars => LedgerDone' /\ PriorStarted'
  BY PhasesNext
<1>4. GrantInv <=> LedgerDone /\ PriorStarted /\ ReservationsExact /\ WithinGrant
  BY DEF GrantInv
<1> QED
  BY <1>1, <1>2, <1>3, <1>4, TypeCorrect, ReservationsAreExact, PTL DEF Spec

-----------------------------------------------------------------------------
(* The fuse's cooldown.                                                    *)

\* Only an operator ends a cooldown early: a handler that trips a fuse under
\* an old clock reading never brings the end of the cooldown forward.
THEOREM CooldownHolds == Spec => CooldownNeverShortened
<1> DEFINE Longer == tripUntil' >= tripUntil \/ tripUntil' = 0
<1>1. TypeOK /\ [Next]_vars => [Longer]_tripUntil
  <2> SUFFICES ASSUME TypeOK, [Next]_vars PROVE [Longer]_tripUntil
    OBVIOUS
  <2>1. ASSUME NEW c \in Call, AdmitTrips(c)
        PROVE  Longer
    <3>1. tripUntil' = start[c] + Cooldown /\ ~(start[c] < tripUntil)
      BY <2>1 DEF AdmitTrips, Trips, Paused
    <3>2. start[c] \in Nat /\ tripUntil \in Nat /\ Cooldown \in Nat
      BY TimeAssumption DEF TypeOK, Time
    <3> QED
      BY <3>1, <3>2
  <2>2. ASSUME NEW c \in Call, Handle(c), ~AdmitTrips(c)
        PROVE  tripUntil' = tripUntil
    BY <2>2 DEF Handle, Arrive, AdmitRefuses, AdmitErrs, AdmitReserves, Settle,
                SettleFails, Release, settingVars
  <2>3. CASE Restart \/ Tick \/ UNCHANGED vars
    BY <2>3 DEF Restart, Tick, vars, settingVars
  <2>4. CASE Administer
    BY <2>4 DEF Administer, SetLimit, Ban, Lift, FuseReset, FuseOff
  <2> QED
    BY <2>1, <2>2, <2>3, <2>4 DEF Next, Serve
<1> QED
  BY <1>1, TypeCorrect, PTL DEF Spec, CooldownNeverShortened

-----------------------------------------------------------------------------
(* Exclusion of calls without an output ceiling.                           *)

Calendar == LocalCap \cup ExternalCap

\* The calls held and those durable at an admission are different ones, the
\* durable ones stay, and nobody precedes itself.
PriorApart ==
  \A c \in Call :
    heldAt[c] \cap durableAt[c] = {} /\ durableAt[c] \subseteq ledger /\ c \notin heldAt[c]

\* A call without a ceiling reserved whatever the rows and the reservations
\* it was admitted beside had left of a calendar cap.
CoversHeadroom ==
  \A c \in Call, g \in Calendar :
    Unbounded(c) /\ grant[c][g] > 0 =>
      limit[g] <= amount[c] + SumOf(cost, InWindow(g, c, durableAt[c])) + SumOf(amount, heldAt[c])

ExclusionInv == PriorApart /\ CoversHeadroom /\ SecondUnboundedNeedsRefund

\* What a step does to limits, rows and what belongs to admitted calls.
Admitted == {e \in Call : phase[e] \notin {"idle", "arrived"}}
KeepsOf(e) ==
  /\ e \in Admitted' /\ (e \in Live' => e \in Live)
  /\ start'[e] = start[e] /\ est'[e] = est[e] /\ amount'[e] = amount[e]
  /\ grant'[e] = grant[e] /\ heldAt'[e] = heldAt[e] /\ durableAt'[e] = durableAt[e]
  /\ e \notin Live => (e \in ledger' <=> e \in ledger) /\ cost'[e] = cost[e]
Keeps == limit' = limit /\ ledger \subseteq ledger' /\ \A e \in Admitted : KeepsOf(e)

\* A calendar cap is neither an agent's nor the fan-out fuse.
LEMMA CalendarRails ==
  ASSUME NEW g \in Calendar
  PROVE  g \in DollarRail /\ g \in Rail /\ g # Fanout /\ g \notin Agent
BY RailAssumption DEF Calendar, Rail, DollarRail

\* While no operator acts, limits stay, and so does all that belongs to a
\* handler once it is admitted: only its row is added, while it is live.
LEMMA ServeKeeps ==
  ASSUME TypeOK, LedgerDone, [Serve]_vars
  PROVE  Keeps
<1> USE DEF callVars, reservationVars, ledgerVars, settingVars, Live, Admitted, Keeps, KeepsOf
<1>1. ASSUME NEW c \in Call, NEW a \in Agent, NEW x \in Estimate, Arrive(c, a, x)
      PROVE  Keeps
  BY <1>1 DEF Arrive, TypeOK
<1>2. ASSUME NEW c \in Call,
             AdmitRefuses(c) \/ AdmitErrs(c) \/ AdmitTrips(c) \/ SettleFails(c) \/ Release(c)
      PROVE  Keeps
  <2>1. /\ UNCHANGED <<start, est, reservationVars, ledgerVars, limit>>
        /\ phase' = [phase EXCEPT ![c] = phase'[c]] /\ phase'[c] \in {"done", "unsettled"}
        /\ phase'[c] = "unsettled" => phase[c] = "live"
    BY <1>2 DEF AdmitRefuses, AdmitErrs, AdmitTrips, SettleFails, Release, TypeOK
  <2> QED
    BY <2>1 DEF TypeOK
<1>3. ASSUME NEW c \in Call, AdmitReserves(c)
      PROVE  Keeps
  BY <1>3 DEF AdmitReserves, TypeOK
<1>4. ASSUME NEW c \in Call, NEW v \in Cost, NEW unsafe \in BOOLEAN, Settle(c, v, unsafe)
      PROVE  Keeps
  BY <1>4 DEF Settle, TypeOK
<1>5. CASE Restart
  BY <1>5 DEF Restart, TypeOK
<1>6. CASE Tick \/ UNCHANGED vars
  BY <1>6 DEF Tick, vars, TypeOK
<1> QED
  BY <1>1, <1>2, <1>3, <1>4, <1>5, <1>6 DEF Serve, Handle

\* Only an admission makes a call live.
LEMMA LiveByAdmission ==
  ASSUME TypeOK, [Serve]_vars, NEW c \in Live', c \notin Live
  PROVE  AdmitReserves(c)
<1> USE DEF callVars, Live
<1>1. ASSUME NEW d \in Call, Handle(d), d # c
      PROVE  FALSE
  BY <1>1 DEF Handle, Arrive, AdmitRefuses, AdmitErrs, AdmitTrips, AdmitReserves,
              Settle, SettleFails, Release, TypeOK
<1>2. CASE Handle(c)
  BY <1>2 DEF Handle, Arrive, AdmitRefuses, AdmitErrs, AdmitTrips, AdmitReserves,
              Settle, SettleFails, Release, TypeOK
<1>3. CASE Restart \/ Tick \/ UNCHANGED vars
  BY <1>3 DEF Restart, Tick, vars
<1> QED
  BY <1>1, <1>2, <1>3 DEF Serve

LEMMA ApartNext ==
  ASSUME TypeOK, TypeOK', LedgerDone, PriorStarted, PriorApart, [Serve]_vars
  PROVE  PriorApart'
<1> SUFFICES ASSUME NEW c \in Call
             PROVE  /\ heldAt'[c] \cap durableAt'[c] = {} /\ durableAt'[c] \subseteq ledger'
                    /\ c \notin heldAt'[c]
  BY DEF PriorApart
<1>0. Keeps
  BY ServeKeeps
<1>1. CASE AdmitReserves(c)
  <2>1. heldAt'[c] = Live /\ durableAt'[c] = ledger /\ ledger' = ledger /\ phase[c] = "arrived"
    BY <1>1 DEF AdmitReserves, ledgerVars, TypeOK
  <2> QED
    BY <2>1 DEF Live, LedgerDone
<1>2. CASE ~AdmitReserves(c)
  <2>1. heldAt'[c] = heldAt[c] /\ durableAt'[c] = durableAt[c]
    BY <1>2 DEF Serve, Handle, Arrive, AdmitRefuses, AdmitErrs, AdmitTrips, AdmitReserves,
                Settle, SettleFails, Release, Restart, Tick, vars, reservationVars, TypeOK
  <2> QED
    BY <1>0, <2>1 DEF PriorApart, Keeps
<1> QED
  BY <1>1, <1>2

\* The reservation of a call without a ceiling is the largest headroom, so no
\* smaller than that of any cap it was admitted under.
LEMMA AdmissionCovers ==
  ASSUME TypeOK, ReservationsExact, NEW c \in Call, AdmitReserves(c),
         NEW g \in Calendar, est[c].kind = "unbounded", Armed(g, c)
  PROVE  limit[g] <= amount'[c] + SumOf(cost, InWindow(g, c, ledger)) + SumOf(amount, Live)
<1>0. g \in DollarRail /\ g \in Rail /\ g # Fanout /\ g \notin Agent
  BY CalendarRails
<1>1. g \in Positions(c)
  BY <1>0 DEF Positions
<1>2. PICK a \in ReserveAmount(c) : amount' = [amount EXCEPT ![c] = a]
  BY DEF AdmitReserves
<1>3. a \in Nat
  BY <1>2, ReserveAmountType DEF AdmitReserves
<1>4. PICK h \in Positions(c) :
        a = Remaining(h, c) /\ \A k \in Positions(c) : Remaining(k, c) <= Remaining(h, c)
  BY <1>1, <1>2 DEF ReserveAmount
<1>5. Remaining(g, c) <= a
  BY <1>1, <1>4
<1>6. Remaining(g, c) = limit[g] - SumOf(cost, InWindow(g, c, ledger)) - SumOf(amount, Live)
  BY <1>0 DEF Remaining, Spent, Reserved, ReservationsExact
<1>7. /\ SumOf(cost, InWindow(g, c, ledger)) \in Nat /\ SumOf(amount, Live) \in Nat
      /\ limit[g] \in Nat
  BY <1>0, LiveInCall, CallSums DEF InWindow, TypeOK
<1>8. amount'[c] = a
  BY <1>2 DEF TypeOK
<1> HIDE DEF Calendar
<1> QED
  BY <1>3, <1>5, <1>6, <1>7, <1>8

LEMMA CoversNext ==
  ASSUME TypeOK, TypeOK', LedgerDone, PriorStarted, PriorApart, ReservationsExact,
         CoversHeadroom, [Serve]_vars
  PROVE  CoversHeadroom'
<1> SUFFICES ASSUME NEW c \in Call, NEW g \in Calendar, Unbounded(c)', grant'[c][g] > 0
             PROVE  limit'[g] <= amount'[c] + SumOf(cost', InWindow(g, c, durableAt[c])')
                                   + SumOf(amount', heldAt'[c])
  BY DEF CoversHeadroom
<1>0. Keeps /\ g \notin Agent /\ g \in Rail
  BY ServeKeeps, CalendarRails
<1>1. CASE c \in Live
  <2>1. c \in Admitted /\ KeepsOf(c)
    BY <1>0, <1>1 DEF Keeps, Admitted, Live
  <2>2. Unbounded(c) /\ grant[c][g] > 0
    BY <1>1, <2>1 DEF Unbounded, KeepsOf
  <2>3. \A e \in durableAt[c] : e \in Admitted /\ KeepsOf(e) /\ e \notin Live
    <3>1. durableAt[c] \subseteq ledger /\ ledger \subseteq Call
      BY DEF PriorApart, TypeOK
    <3> QED
      BY <1>0, <3>1 DEF LedgerDone, Admitted, Live, Keeps
  <2>4. InWindow(g, c, durableAt[c])' = InWindow(g, c, durableAt[c])
    BY <1>0, <2>1, <2>3 DEF InWindow, KeepsOf
  <2>5. SumOf(cost', InWindow(g, c, durableAt[c])) = SumOf(cost, InWindow(g, c, durableAt[c]))
    <3>1. \A e \in InWindow(g, c, durableAt[c]) : cost'[e] = cost[e]
      BY <2>3 DEF InWindow, KeepsOf
    <3> QED
      BY <3>1, SumSame
  <2>6. SumOf(amount', heldAt[c]) = SumOf(amount, heldAt[c])
    <3>1. \A e \in heldAt[c] : amount'[e] = amount[e]
      BY <1>0 DEF PriorStarted, Prior, Keeps, KeepsOf, Admitted, TypeOK
    <3> QED
      BY <3>1, SumSame
  <2>7. limit'[g] = limit[g] /\ amount'[c] = amount[c] /\ heldAt'[c] = heldAt[c]
    BY <1>0, <2>1 DEF Keeps, KeepsOf
  <2>8. limit[g] <= amount[c] + SumOf(cost, InWindow(g, c, durableAt[c])) + SumOf(amount, heldAt[c])
    BY <2>2 DEF CoversHeadroom
  <2> QED
    BY <2>4, <2>5, <2>6, <2>7, <2>8
<1>2. CASE c \notin Live
  <2>1. AdmitReserves(c)
    BY <1>2, LiveByAdmission DEF Unbounded
  <2>2. /\ heldAt'[c] = Live /\ durableAt'[c] = ledger /\ UNCHANGED <<start, est, agent, cost, limit>>
        /\ \E a \in ReserveAmount(c) : amount' = [amount EXCEPT ![c] = a]
    BY <2>1 DEF AdmitReserves, ledgerVars, settingVars, TypeOK
  <2>3. Armed(g, c)
    BY <1>0, <2>1 DEF AdmitReserves, TypeOK
  <2>4. limit[g] <= amount'[c] + SumOf(cost, InWindow(g, c, ledger)) + SumOf(amount, Live)
    BY <2>1, <2>2, <2>3, AdmissionCovers DEF Unbounded
  <2>5. SumOf(amount', Live) = SumOf(amount, Live)
    <3>1. \A e \in Live : amount'[e] = amount[e]
      BY <1>2, <2>2, LiveInCall DEF TypeOK
    <3> QED
      BY <3>1, SumSame
  <2>6. InWindow(g, c, durableAt[c])' = InWindow(g, c, ledger)
    BY <2>2 DEF InWindow
  <2> QED
    BY <2>2, <2>4, <2>5, <2>6
<1> QED
  BY <1>1, <1>2

\* Who gave headroom back has done so for good.
LEMMA GivenBackStays ==
  ASSUME TypeOK, Keeps, NEW e \in Admitted, NEW d \in Call, NEW g \in Calendar,
         start'[d] = start[d], GaveBack(e, g, d)
  PROVE  GaveBack(e, g, d)'
<1>1. e \notin Live /\ KeepsOf(e) /\ g \notin Agent
  BY CalendarRails DEF GaveBack, Keeps
<1>2. e \in InWindow(g, d, ledger)' <=> e \in InWindow(g, d, ledger)
  BY <1>1 DEF KeepsOf, InWindow
<1> QED
  BY <1>1, <1>2 DEF GaveBack, KeepsOf

\* Had nobody given headroom back, rows and reservations would leave the
\* second call nothing: the cap would be in its way.
LEMMA AdmissionNeedsRefund ==
  ASSUME TypeOK, ReservationsExact, LedgerDone, PriorApart, CoversHeadroom,
         NEW c \in Call, NEW d \in Call, AdmitReserves(d), NEW g \in Calendar,
         Unbounded(c), grant[c][g] > 0, Armed(g, d),
         Since[g][start[c]] = Since[g][start[d]],
         \A e \in heldAt[c] : ~GaveBack(e, g, d)
  PROVE  FALSE
<1> DEFINE W == InWindow(g, c, durableAt[c])
           Held == heldAt[c] \cap Live
           Paid == heldAt[c] \ Live
<1>0. g \in Rail /\ g # Fanout /\ g \notin Agent
  BY CalendarRails
<1>1. limit[g] <= amount[c] + SumOf(cost, W) + SumOf(amount, heldAt[c])
  BY DEF CoversHeadroom
<1>2. /\ cost \in [Call -> Nat] /\ amount \in [Call -> Nat] /\ limit[g] \in Nat
      /\ heldAt[c] \subseteq Call /\ ledger \subseteq Call /\ c \in Live /\ Live \subseteq Call
  BY <1>0, LiveInCall DEF TypeOK, Unbounded
<1>3. \A e \in Paid : e \in InWindow(g, d, ledger) /\ amount[e] <= cost[e]
  BY <1>2 DEF GaveBack
<1>4. W \subseteq InWindow(g, d, ledger) /\ W \cap Paid = {} /\ InWindow(g, d, ledger) \subseteq Call
  BY <1>0, <1>2 DEF InWindow, PriorApart
<1>5. c \notin Held /\ heldAt[c] = Held \cup Paid /\ Held \cap Paid = {}
  BY DEF PriorApart
<1>6. SumOf(amount, Live) + SumOf(cost, InWindow(g, d, ledger)) < limit[g]
  <2>1. ~(Remaining(g, d) <= 0)
    BY <1>0 DEF AdmitReserves, Admissible, Blocking
  <2>2. Remaining(g, d) = limit[g] - SumOf(cost, InWindow(g, d, ledger)) - SumOf(amount, Live)
    BY <1>0 DEF Remaining, Spent, Reserved, ReservationsExact
  <2>3. SumOf(cost, InWindow(g, d, ledger)) \in Nat /\ SumOf(amount, Live) \in Nat
    BY <1>2, <1>4, CallSums
  <2> QED
    BY <1>2, <2>1, <2>2, <2>3
<1>7. Held \subseteq Live /\ Held \subseteq Call /\ Paid \subseteq Call /\ W \subseteq Call
  BY <1>2, <1>4
<1> HIDE DEF W, Held, Paid
<1>8. IsFiniteSet(W) /\ IsFiniteSet(Held) /\ IsFiniteSet(Paid) /\ IsFiniteSet(Live)
      /\ IsFiniteSet(InWindow(g, d, ledger)) /\ IsFiniteSet(W \cup Paid) /\ IsFiniteSet(Held \cup {c})
  BY <1>2, <1>4, <1>7, CallSets
<1>9. SumOf(amount, heldAt[c]) = SumOf(amount, Held) + SumOf(amount, Paid)
  BY <1>2, <1>5, <1>7, <1>8, SumUnion
<1>10. SumOf(amount, Held) + amount[c] <= SumOf(amount, Live)
  <2>1. SumOf(amount, Held \cup {c}) = SumOf(amount, Held) + amount[c]
    BY <1>2, <1>5, <1>7, <1>8, SumAdd
  <2>2. Held \cup {c} \subseteq Live /\ \A x \in Live : amount[x] \in Nat /\ amount[x] <= amount[x]
    BY <1>2, <1>7
  <2>3. SumOf(amount, Held \cup {c}) <= SumOf(amount, Live)
    BY <1>8, <2>2, SumMonotone
  <2> QED
    BY <2>1, <2>3
<1>11. SumOf(amount, Paid) <= SumOf(cost, Paid)
  BY <1>2, <1>3, <1>7, <1>8, SumMonotone
<1>12. SumOf(cost, W) + SumOf(cost, Paid) <= SumOf(cost, InWindow(g, d, ledger))
  <2>1. SumOf(cost, W \cup Paid) = SumOf(cost, W) + SumOf(cost, Paid)
    BY <1>2, <1>4, <1>7, <1>8, SumUnion
  <2>2. /\ W \cup Paid \subseteq InWindow(g, d, ledger)
        /\ \A x \in InWindow(g, d, ledger) : cost[x] \in Nat /\ cost[x] <= cost[x]
    BY <1>2, <1>3, <1>4
  <2>3. SumOf(cost, W \cup Paid) <= SumOf(cost, InWindow(g, d, ledger))
    BY <1>8, <2>2, SumMonotone
  <2> QED
    BY <2>1, <2>3
<1>13. /\ SumOf(amount, Held) \in Nat /\ SumOf(amount, Paid) \in Nat /\ SumOf(amount, Live) \in Nat
       /\ SumOf(cost, W) \in Nat /\ SumOf(cost, Paid) \in Nat /\ amount[c] \in Nat
       /\ SumOf(cost, InWindow(g, d, ledger)) \in Nat
  BY <1>2, <1>4, <1>7, CallSums
<1> HIDE DEF Calendar
<1> QED
  BY <1>1, <1>2, <1>6, <1>9, <1>10, <1>11, <1>12, <1>13

LEMMA RefundNext ==
  ASSUME TypeOK, TypeOK', LedgerDone, PriorStarted, ReservationsExact, ExclusionInv, [Serve]_vars
  PROVE  SecondUnboundedNeedsRefund'
<1> USE DEF ExclusionInv
<1> SUFFICES ASSUME NEW c \in Call, NEW d \in Call, NEW g \in Calendar,
                    Unbounded(c)', Unbounded(d)', c \in heldAt'[d],
                    grant'[c][g] > 0, grant'[d][g] > 0,
                    Since[g][start'[c]] = Since[g][start'[d]]
             PROVE  \E e \in heldAt'[c] : GaveBack(e, g, d)'
  BY DEF SecondUnboundedNeedsRefund, Calendar
<1>0. Keeps /\ g \in Rail
  BY ServeKeeps, CalendarRails
<1>1. heldAt[c] \subseteq Admitted
  BY DEF PriorStarted, Prior, Admitted, TypeOK
<1>2. c \in Live
  <2> SUFFICES ASSUME AdmitReserves(c) PROVE FALSE
    BY LiveByAdmission DEF Unbounded
  <2>1. phase[c] = "arrived" /\ heldAt'[c] = Live /\ c \notin Live
    BY DEF AdmitReserves, Live, TypeOK
  <2>2. c # d /\ heldAt'[d] = heldAt[d]
    BY <2>1 DEF AdmitReserves, TypeOK
  <2> QED
    BY <2>1, <2>2 DEF PriorStarted, Prior
<1>3. KeepsOf(c)
  BY <1>0, <1>2 DEF Keeps, Admitted, Live
<1>4. Unbounded(c) /\ grant[c][g] > 0 /\ heldAt'[c] = heldAt[c] /\ start'[c] = start[c]
  BY <1>2, <1>3 DEF Unbounded, KeepsOf
<1>5. \E e \in heldAt[c] : GaveBack(e, g, d) /\ start'[d] = start[d]
  <2>1. CASE d \in Live
    <3>1. KeepsOf(d)
      BY <1>0, <2>1 DEF Keeps, Admitted, Live
    <3>2. /\ Unbounded(d) /\ grant[d][g] > 0 /\ heldAt'[d] = heldAt[d] /\ start'[d] = start[d]
      BY <2>1, <3>1 DEF Unbounded, KeepsOf
    <3> QED
      BY <1>4, <3>2 DEF SecondUnboundedNeedsRefund, Calendar
  <2>2. CASE d \notin Live
    <3>1. AdmitReserves(d)
      BY <2>2, LiveByAdmission DEF Unbounded
    <3>2. Armed(g, d) /\ start' = start
      BY <1>0, <3>1 DEF AdmitReserves, TypeOK
    <3> QED
      BY <1>4, <3>1, <3>2, AdmissionNeedsRefund
  <2> QED
    BY <2>1, <2>2
<1> QED
  BY <1>0, <1>1, <1>4, <1>5, GivenBackStays

\* While no operator touches the limits, two calls without an output ceiling
\* are in flight in one calendar window only if a reservation held when the
\* first was admitted has since given headroom back.
THEOREM SecondUnboundedIsRefunded == ServeSpec => []SecondUnboundedNeedsRefund
<1>1. Init => ExclusionInv
  <2> SUFFICES ASSUME Init PROVE ExclusionInv
    OBVIOUS
  <2>1. Live = {} /\ \A c \in Call : ~Unbounded(c)
    BY DEF Init, Live, Unbounded
  <2> QED
    BY <2>1 DEF Init, ExclusionInv, PriorApart, CoversHeadroom, SecondUnboundedNeedsRefund
<1>2. TypeOK /\ TypeOK' /\ LedgerDone /\ PriorStarted /\ ReservationsExact /\ ExclusionInv
        /\ [Serve]_vars => ExclusionInv'
  BY ApartNext, CoversNext, RefundNext DEF ExclusionInv
<1>3. TypeOK /\ LedgerDone /\ PriorStarted /\ [Next]_vars => LedgerDone' /\ PriorStarted'
  BY PhasesNext
<1>4. Init => LedgerDone /\ PriorStarted
  BY DEF Init, LedgerDone, PriorStarted, Prior
<1>5. [Serve]_vars => [Next]_vars
  BY DEF Next
<1>6. ServeSpec => Spec
  BY <1>5, PTL DEF ServeSpec, Spec
<1>7. ExclusionInv => SecondUnboundedNeedsRefund
  BY DEF ExclusionInv
<1> QED
  BY <1>1, <1>2, <1>3, <1>4, <1>5, <1>6, <1>7, TypeCorrect, ReservationsAreExact, PTL
     DEF ServeSpec
=============================================================================
