---------------------------- MODULE PoliciesProofs ----------------------------
(***************************************************************************)
(* Proofs about the policy engine for any handlers, documents, rules,      *)
(* limits and windows: the counters are exact, every limit holds for what  *)
(* was allowed under it, and nobody evades a rule about identities.        *)
(* Proofs about the replay, of any ledger: it is exact, and it blocks      *)
(* nothing that was admitted under the document it replays.                *)
(***************************************************************************)
EXTENDS Policies, SumTheorems, Sequences

LEMMA PolicyConstants ==
  /\ IsFiniteSet(Call) /\ MaxTime \in Nat /\ NoDoc \notin Doc
  /\ \A d \in Doc : Policy[d].ns \in Namespace /\ DOMAIN Policy[d].rules \subseteq Rule
  /\ \A k \in Kind : k.units \in Nat /\ k.sure \in BOOLEAN /\ k.bounded \in BOOLEAN
BY PolicyAssumption

\* Sets of calls are finite.
LEMMA CallSets ==
  ASSUME NEW S, S \subseteq Call
  PROVE  IsFiniteSet(S) /\ Cardinality(S) \in Nat
BY PolicyConstants, FS_Subset, FS_CardinalityType

LEMMA FewerCalls ==
  ASSUME NEW S, NEW T, S \subseteq T, T \subseteq Call
  PROVE  Cardinality(S) <= Cardinality(T)
BY CallSets, FS_Subset

LEMMA OneMoreCall ==
  ASSUME NEW S, S \subseteq Call, NEW c \in Call
  PROVE  /\ c \notin S => Cardinality(S \cup {c}) = Cardinality(S) + 1
         /\ Cardinality(S \cup {c}) <= Cardinality(S) + 1
         /\ c \in S => /\ Cardinality(S) >= 1
                       /\ Cardinality(S \ {c}) = Cardinality(S) - 1
<1>1. IsFiniteSet(S) /\ Cardinality(S) \in Nat
  BY CallSets
<1>2. Cardinality(S \cup {c}) = IF c \in S THEN Cardinality(S) ELSE Cardinality(S) + 1
  BY <1>1, FS_AddElement
<1>3. Cardinality(S \ {c}) = IF c \in S THEN Cardinality(S) - 1 ELSE Cardinality(S)
  BY <1>1, FS_RemoveElement
<1>4. Cardinality(S \ {c}) \in Nat
  BY CallSets
<1> QED
  BY <1>1, <1>2, <1>3, <1>4

LEMMA InitTypeOK == Init => TypeOK
BY PolicyConstants DEF Init, TypeOK, Time, Phase

LEMMA TypeOKInductive == TypeOK /\ [Next]_vars => TypeOK'
<1> SUFFICES ASSUME TypeOK, [Next]_vars PROVE TypeOK'
  OBVIOUS
<1> USE DEF TypeOK, Phase
<1>1. ASSUME NEW c \in Call, Arrive(c) PROVE TypeOK'
  BY <1>1 DEF Arrive, Becomes, reservationVars, engineVars, documentVars
<1>2. ASSUME NEW c \in Call, NEW k \in Kind, PrepareDenies(c, k) PROVE TypeOK'
  BY <1>2 DEF PrepareDenies, Becomes, reservationVars, engineVars, documentVars
<1>3. ASSUME NEW c \in Call, NEW k \in Kind, Prepare(c, k) PROVE TypeOK'
  <2>1. active \in Doc /\ k.units \in Nat /\ k.sure \in BOOLEAN
    BY <1>3, PolicyConstants DEF Prepare
  <2>2. DOMAIN Policy[active].rules \subseteq Rule
    BY <2>1, PolicyConstants
  <2>3. counted' \in [Call -> SUBSET Rule] /\ slots' \in [Call -> SUBSET Rule]
    BY <1>3, <2>2 DEF Prepare, Applicable
  <2>4. pending' \in [Key -> SUBSET Call] /\ inFlight' \in [Key -> Nat]
    BY <1>3 DEF Prepare
  <2>5. prior' \in [Call -> SUBSET Call]
    BY <1>3 DEF Prepare, Counting, Open
  <2>6. vouched' \in [Call -> BOOLEAN]
    <3>1. vouched' = [vouched EXCEPT ![c] = k.sure] /\ vouched \in [Call -> BOOLEAN]
      BY <1>3 DEF Prepare
    <3> HIDE DEF TypeOK
    <3> QED
      BY <2>1, <3>1, Zenon
  <2>7. charge' \in [Call -> Nat] /\ doc' \in [Call -> Doc \cup {NoDoc}]
    BY <1>3, <2>1 DEF Prepare
  <2> QED
    BY <1>3, <2>3, <2>4, <2>5, <2>6, <2>7 DEF Prepare, Becomes, documentVars
<1>4. ASSUME NEW c \in Call, PrepareUnruled(c) \/ PrepareFails(c) \/ Leave(c) PROVE TypeOK'
  BY <1>4 DEF PrepareUnruled, PrepareFails, Leave, Becomes, reservationVars, engineVars,
              documentVars
<1>5. ASSUME NEW c \in Call, Commit(c) PROVE TypeOK'
  BY <1>5 DEF Commit, Becomes, ReleasePending, reservationVars, documentVars
<1>6. ASSUME NEW c \in Call, CommitFails(c) \/ Cancel(c) PROVE TypeOK'
  <2>1. pending' \in [Key -> SUBSET Call] /\ inFlight' \in [Key -> Nat]
    BY <1>6 DEF CommitFails, Cancel, ReleasePending, ReleaseSlots, Monus
  <2>2. Forget(c)
    BY <1>6 DEF CommitFails, Cancel
  <2>3. vouched' \in [Call -> BOOLEAN]
    <3>1. vouched' = [vouched EXCEPT ![c] = FALSE] /\ vouched \in [Call -> BOOLEAN]
      BY <2>2 DEF Forget
    <3> HIDE DEF TypeOK
    <3> QED
      BY <3>1, Zenon
  <2>4. /\ charge' \in [Call -> Nat] /\ doc' \in [Call -> Doc \cup {NoDoc}]
        /\ counted' \in [Call -> SUBSET Rule] /\ slots' \in [Call -> SUBSET Rule]
    BY <2>2 DEF Forget
  <2>5. prior' \in [Call -> SUBSET Call]
    BY <2>2 DEF Forget
  <2> QED
    BY <1>6, <2>1, <2>3, <2>4, <2>5 DEF CommitFails, Cancel, Becomes, documentVars
<1>7. ASSUME NEW c \in Call, Release(c) PROVE TypeOK'
  <2>1. inFlight' \in [Key -> Nat]
    BY <1>7 DEF Release, ReleaseSlots, Monus
  <2> QED
    BY <1>7, <2>1 DEF Release, Becomes, documentVars
<1>8. CASE Restart
  BY <1>8 DEF Restart, reservationVars, documentVars
<1>9. CASE Tick
  BY <1>9, PolicyConstants DEF Tick, Time, handlerVars, reservationVars, engineVars, documentVars
<1>10. ASSUME NEW d \in Doc, NEW s \in Source, Apply(d, s) PROVE TypeOK'
  BY <1>10 DEF Apply, handlerVars, reservationVars, engineVars
<1>11. ASSUME NEW d \in Doc, NEW takeover \in BOOLEAN, ResetLineage(d, takeover) PROVE TypeOK'
  BY <1>11 DEF ResetLineage, handlerVars, reservationVars, engineVars
<1>12. CASE UNCHANGED vars
  BY <1>12 DEF vars, handlerVars, reservationVars, engineVars, documentVars
<1> QED
  BY <1>1, <1>2, <1>3, <1>4, <1>5, <1>6, <1>7, <1>8, <1>9, <1>10, <1>11, <1>12
  DEF Next, Handle, Administer

\* The type invariant holds for every set of handlers and documents.
THEOREM PolicyTypeCorrect == Spec => []TypeOK
BY InitTypeOK, TypeOKInductive, PTL DEF Spec

-----------------------------------------------------------------------------
(* The counters. *)

\* Nothing of a handler that holds no reservation is counted.
LEMMA SameCounters ==
  ASSUME TypeOK, CountersExact, UNCHANGED <<pending, inFlight>>,
         {e \in Call : phase'[e] = "prepared"} = {e \in Call : phase[e] = "prepared"},
         Open' = Open,
         \A e \in Open : doc'[e] = doc[e] /\ counted'[e] = counted[e] /\ slots'[e] = slots[e]
  PROVE  CountersExact'
<1> SUFFICES ASSUME NEW key \in Key
             PROVE  /\ pending'[key] = {e \in Call : phase'[e] = "prepared" /\ Counts(e, key)'}
                    /\ inFlight'[key] = Cardinality({e \in Open' : Occupies(e, key)'})
  BY DEF CountersExact
<1>1. \A e \in Open : (Counts(e, key)' <=> Counts(e, key)) /\ (Occupies(e, key)' <=> Occupies(e, key))
  BY DEF Counts, Occupies
<1>2. {e \in Open' : Occupies(e, key)'} = {e \in Open : Occupies(e, key)}
  BY <1>1
<1>3. {e \in Call : phase'[e] = "prepared" /\ Counts(e, key)'}
        = {e \in Call : phase[e] = "prepared" /\ Counts(e, key)}
  BY <1>1 DEF Open
<1> QED
  BY <1>2, <1>3 DEF CountersExact

\* Giving back a reservation lowers exactly the slots it occupies.
LEMMA SlotsGivenBack ==
  ASSUME TypeOK, CountersExact, NEW c \in Open, ReleaseSlots(c), NEW key \in Key
  PROVE  inFlight'[key] = Cardinality({e \in Open \ {c} : Occupies(e, key)})
<1> DEFINE holders == {e \in Open : Occupies(e, key)}
<1>1. holders \subseteq Call /\ c \in Call
  BY DEF Open
<1>2. inFlight[key] = Cardinality(holders)
  BY DEF CountersExact
<1>3. CASE Occupies(c, key)
  <2>1. inFlight'[key] = Monus(inFlight[key], 1)
    BY <1>3 DEF ReleaseSlots, Occupies
  <2>2. Cardinality(holders) >= 1 /\ Cardinality(holders \ {c}) = Cardinality(holders) - 1
    BY <1>1, <1>3, OneMoreCall
  <2>3. {e \in Open \ {c} : Occupies(e, key)} = holders \ {c}
    OBVIOUS
  <2>4. Cardinality(holders) \in Nat
    BY <1>1, CallSets
  <2> HIDE DEF holders
  <2> QED
    BY <1>2, <2>1, <2>2, <2>3, <2>4 DEF Monus
<1>4. CASE ~Occupies(c, key)
  <2>1. inFlight'[key] = inFlight[key]
    BY <1>4 DEF ReleaseSlots, Occupies
  <2>2. {e \in Open \ {c} : Occupies(e, key)} = holders
    BY <1>4
  <2> QED
    BY <1>2, <2>1, <2>2
<1> QED
  BY <1>3, <1>4

LEMMA PrepareKeepsCounters ==
  ASSUME TypeOK, CountersExact, NEW c \in Call, NEW k \in Kind, Prepare(c, k)
  PROVE  CountersExact'
<1> SUFFICES ASSUME NEW key \in Key
             PROVE  /\ pending'[key] = {e \in Call : phase'[e] = "prepared" /\ Counts(e, key)'}
                    /\ inFlight'[key] = Cardinality({e \in Open' : Occupies(e, key)'})
  BY DEF CountersExact
<1>1. /\ c \notin Open /\ phase[c] # "prepared" /\ Open \subseteq Call
      /\ phase' = [phase EXCEPT ![c] = "prepared"] /\ doc' = [doc EXCEPT ![c] = active]
  BY DEF Prepare, MayEvaluate, Becomes, Open
<1>2. Open' = Open \cup {c}
  BY <1>1 DEF Open, TypeOK
<1>3. \A e \in Call \ {c} : /\ Counts(e, key)' <=> Counts(e, key)
                            /\ Occupies(e, key)' <=> Occupies(e, key)
  BY <1>1 DEF Prepare, Counts, Occupies, TypeOK
<1>4. pending'[key] = IF Counts(c, key)' THEN pending[key] \cup {c} ELSE pending[key]
  BY <1>1 DEF Prepare, Counts, TypeOK
<1>5. inFlight'[key] = IF Occupies(c, key)' THEN inFlight[key] + 1 ELSE inFlight[key]
  BY <1>1 DEF Prepare, Occupies, TypeOK
<1>6. pending'[key] = {e \in Call : phase'[e] = "prepared" /\ Counts(e, key)'}
  <2>1. pending[key] = {e \in Call : phase[e] = "prepared" /\ Counts(e, key)}
    BY DEF CountersExact
  <2>2. phase'[c] = "prepared" /\ \A e \in Call \ {c} : phase'[e] = phase[e]
    BY <1>1 DEF TypeOK
  <2>3. c \in pending'[key] <=> Counts(c, key)'
    BY <1>1, <1>4, <2>1
  <2>4. \A e \in Call \ {c} : e \in pending'[key] <=> phase'[e] = "prepared" /\ Counts(e, key)'
    BY <1>3, <1>4, <2>1, <2>2
  <2>5. pending'[key] \subseteq Call
    BY <1>4, <2>1
  <2> QED
    BY <2>2, <2>3, <2>4, <2>5
<1>7. inFlight'[key] = Cardinality({e \in Open' : Occupies(e, key)'})
  <2> DEFINE holders == {e \in Open : Occupies(e, key)}
  <2>1. inFlight[key] = Cardinality(holders) /\ holders \subseteq Call /\ c \notin holders
    BY <1>1 DEF CountersExact
  <2>2. {e \in Open' : Occupies(e, key)'} = IF Occupies(c, key)' THEN holders \cup {c} ELSE holders
    BY <1>1, <1>2, <1>3
  <2>3. Cardinality(holders \cup {c}) = Cardinality(holders) + 1
    BY <2>1, OneMoreCall
  <2> HIDE DEF holders
  <2> QED
    BY <1>5, <2>1, <2>2, <2>3
<1> QED
  BY <1>6, <1>7

LEMMA CommitKeepsCounters ==
  ASSUME TypeOK, CountersExact, NEW c \in Call, Commit(c)
  PROVE  CountersExact'
<1> SUFFICES ASSUME NEW key \in Key
             PROVE  /\ pending'[key] = {e \in Call : phase'[e] = "prepared" /\ Counts(e, key)'}
                    /\ inFlight'[key] = Cardinality({e \in Open' : Occupies(e, key)'})
  BY DEF CountersExact
<1>1. /\ phase[c] = "prepared" /\ phase' = [phase EXCEPT ![c] = "committed"]
      /\ pending'[key] = pending[key] \ {c}
      /\ UNCHANGED <<doc, counted, slots, inFlight>>
  BY DEF Commit, Becomes, ReleasePending, reservationVars
<1>2. Open' = Open
  BY <1>1 DEF Open, TypeOK
<1>3. \A e \in Call : /\ Counts(e, key)' <=> Counts(e, key)
                      /\ Occupies(e, key)' <=> Occupies(e, key)
  BY <1>1 DEF Counts, Occupies
<1>4. pending'[key] = {e \in Call : phase'[e] = "prepared" /\ Counts(e, key)'}
  BY <1>1, <1>3 DEF CountersExact, TypeOK
<1>5. {e \in Open' : Occupies(e, key)'} = {e \in Open : Occupies(e, key)}
  BY <1>2, <1>3 DEF Open
<1> QED
  BY <1>1, <1>4, <1>5 DEF CountersExact

\* A reservation that is dropped: CommitFails, Cancel and Release.
LEMMA LeavingKeepsCounters ==
  ASSUME TypeOK, CountersExact, NEW c \in Open, ReleaseSlots(c),
         phase'[c] \notin {"prepared", "committed"},
         \A key \in Key : pending'[key] = pending[key] \ {c},
         \A e \in Call \ {c} : /\ phase'[e] = phase[e] /\ doc'[e] = doc[e]
                               /\ counted'[e] = counted[e] /\ slots'[e] = slots[e]
  PROVE  CountersExact'
<1> SUFFICES ASSUME NEW key \in Key
             PROVE  /\ pending'[key] = {e \in Call : phase'[e] = "prepared" /\ Counts(e, key)'}
                    /\ inFlight'[key] = Cardinality({e \in Open' : Occupies(e, key)'})
  BY DEF CountersExact
<1>1. Open' = Open \ {c}
  BY DEF Open
<1>2. \A e \in Call \ {c} : /\ Counts(e, key)' <=> Counts(e, key)
                            /\ Occupies(e, key)' <=> Occupies(e, key)
  BY DEF Counts, Occupies
<1>3. pending'[key] = {e \in Call : phase'[e] = "prepared" /\ Counts(e, key)'}
  <2>1. pending[key] = {e \in Call : phase[e] = "prepared" /\ Counts(e, key)}
    BY DEF CountersExact
  <2>2. \A e \in Call \ {c} : e \in pending'[key] <=> phase'[e] = "prepared" /\ Counts(e, key)'
    BY <1>2, <2>1
  <2>3. c \notin pending'[key] /\ pending'[key] \subseteq Call
    BY <2>1
  <2> QED
    BY <2>2, <2>3
<1>4. {e \in Open' : Occupies(e, key)'} = {e \in Open \ {c} : Occupies(e, key)}
  BY <1>1, <1>2 DEF Open
<1> QED
  BY <1>3, <1>4, SlotsGivenBack

LEMMA CountersInductive == TypeOK /\ CountersExact /\ [Next]_vars => CountersExact'
<1> SUFFICES ASSUME TypeOK, CountersExact, [Next]_vars PROVE CountersExact'
  OBVIOUS
<1>1. ASSUME NEW c \in Call, Arrive(c) PROVE CountersExact'
  BY <1>1, SameCounters DEF Arrive, Becomes, Open, TypeOK, reservationVars, engineVars
<1>2. ASSUME NEW c \in Call,
             (\E k \in Kind : PrepareDenies(c, k)) \/ PrepareUnruled(c) \/ PrepareFails(c) \/ Leave(c)
      PROVE  CountersExact'
  BY <1>2, SameCounters
  DEF PrepareDenies, PrepareUnruled, PrepareFails, Leave, MayEvaluate, Becomes, Open, TypeOK,
      reservationVars, engineVars
<1>3. ASSUME NEW c \in Call, CommitFails(c) \/ Cancel(c) PROVE CountersExact'
  <2>1. /\ phase[c] = "prepared" /\ ReleaseSlots(c) /\ Forget(c) /\ ReleasePending(c)
        /\ \E p \in {"closed", "arrived"} : phase' = [phase EXCEPT ![c] = p]
    BY <1>3 DEF CommitFails, Cancel, Becomes
  <2> QED
    BY <2>1, LeavingKeepsCounters DEF Forget, ReleasePending, Open, TypeOK
<1>4. ASSUME NEW c \in Call, Release(c) PROVE CountersExact'
  <2>1. /\ phase[c] = "committed" /\ ReleaseSlots(c) /\ phase' = [phase EXCEPT ![c] = "closed"]
        /\ slots' = [slots EXCEPT ![c] = {}] /\ UNCHANGED <<doc, counted, pending>>
    BY <1>4 DEF Release, Becomes
  <2>2. \A key \in Key : pending'[key] = pending[key] \ {c}
    BY <2>1 DEF CountersExact
  <2> QED
    BY <2>1, <2>2, LeavingKeepsCounters DEF Open, TypeOK
<1>5. CASE Restart
  <2>1. /\ Open' = {} /\ \A e \in Call : phase'[e] # "prepared"
        /\ pending' = [key \in Key |-> {}] /\ inFlight' = [key \in Key |-> 0]
    BY <1>5 DEF Restart, Open
  <2> QED
    BY <2>1, FS_EmptySet DEF CountersExact
<1>6. ASSUME UNCHANGED <<handlerVars, reservationVars, engineVars>> PROVE CountersExact'
  <2>1. UNCHANGED <<phase, doc, counted, slots, pending, inFlight>>
    BY <1>6 DEF handlerVars, reservationVars, engineVars
  <2>2. Open' = Open
    BY <2>1 DEF Open
  <2> QED
    BY <2>1, <2>2, SameCounters
<1>7. CASE Tick \/ Administer \/ UNCHANGED vars
  <2>1. UNCHANGED <<handlerVars, reservationVars, engineVars>>
    BY <1>7 DEF Administer, Tick, Apply, ResetLineage, vars
  <2> QED
    BY <1>6, <2>1
<1>8. ASSUME NEW c \in Call, Handle(c) PROVE CountersExact'
  BY <1>1, <1>2, <1>3, <1>4, <1>8, PrepareKeepsCounters, CommitKeepsCounters DEF Handle
<1> QED
  BY <1>5, <1>7, <1>8 DEF Next

LEMMA InitCountersExact == Init => CountersExact
<1> SUFFICES ASSUME Init PROVE CountersExact
  OBVIOUS
<1>1. Open = {} /\ \A e \in Call : phase[e] # "prepared"
  BY DEF Init, Open
<1> QED
  BY <1>1, FS_EmptySet DEF Init, CountersExact

\* Pending counters and slots are what the open reservations add up to, for any
\* documents, lineages, failures and restarts (internal/policy, Engine).
THEOREM CountersAreExact == Spec => []CountersExact
BY InitCountersExact, InitTypeOK, TypeOKInductive, CountersInductive, PTL DEF Spec

-----------------------------------------------------------------------------
(* Rules about identities. *)

LEMMA UnsureInductive ==
  TypeOK /\ UnsureNeverPassScopedRules /\ [Next]_vars => UnsureNeverPassScopedRules'
<1> SUFFICES ASSUME TypeOK, UnsureNeverPassScopedRules, [Next]_vars,
                    NEW e \in Open', ~vouched'[e],
                    NEW r \in DOMAIN Policy[doc'[e]].rules, Policy[doc'[e]].rules[r].enforce
             PROVE  Policy[doc'[e]].rules[r].who = {}
  BY DEF UnsureNeverPassScopedRules
<1>1. e \in Call
  BY DEF Open
<1>2. ASSUME e \in Open, doc'[e] = doc[e], vouched'[e] = vouched[e]
      PROVE  Policy[doc'[e]].rules[r].who = {}
  BY <1>2 DEF UnsureNeverPassScopedRules
<1>3. ASSUME NEW k \in Kind, Prepare(e, k) PROVE Policy[doc'[e]].rules[r].who = {}
  <2>1. doc'[e] = active /\ vouched'[e] = k.sure /\ ~Denied(e, k)
    BY <1>1, <1>3 DEF Prepare, TypeOK
  <2>2. r \in Applicable(k)
    BY <2>1 DEF Applicable, Applies
  <2>3. ~Violated(r, e, k)
    BY <2>1, <2>2 DEF Denied
  <2>4. ~Barred(Policy[active].rules[r], k)
    BY <2>3 DEF Violated
  <2> QED
    BY <2>1, <2>4 DEF Barred
<1>4. ASSUME NEW c \in Call, NEW k \in Kind, Prepare(c, k), c # e
      PROVE  Policy[doc'[e]].rules[r].who = {}
  BY <1>1, <1>2, <1>4 DEF Prepare, Becomes, Open, TypeOK
<1>5. ASSUME NEW c \in Call,
             \/ Arrive(c) \/ (\E k \in Kind : PrepareDenies(c, k)) \/ PrepareUnruled(c)
             \/ PrepareFails(c) \/ Leave(c) \/ Commit(c) \/ Release(c)
      PROVE  Policy[doc'[e]].rules[r].who = {}
  <2>1. UNCHANGED <<doc, vouched>> /\ e \in Open
    BY <1>5 DEF Arrive, PrepareDenies, PrepareUnruled, PrepareFails, Leave, Commit, Release,
                Becomes, reservationVars, Open, TypeOK
  <2> QED
    BY <1>2, <2>1
<1>6. ASSUME NEW c \in Call, CommitFails(c) \/ Cancel(c)
      PROVE  Policy[doc'[e]].rules[r].who = {}
  <2>1. Forget(c) /\ phase'[c] \notin {"prepared", "committed"}
        /\ \A x \in Call \ {c} : phase'[x] = phase[x]
    BY <1>6 DEF CommitFails, Cancel, Becomes, TypeOK
  <2>2. e \in Open /\ e # c
    BY <1>1, <2>1 DEF Open
  <2> QED
    BY <1>2, <2>1, <2>2 DEF Forget, TypeOK
<1>7. CASE Restart
  BY <1>7 DEF Restart, Open
<1>8. CASE Tick \/ Administer \/ UNCHANGED vars
  <2>1. UNCHANGED <<phase, doc, vouched>>
    BY <1>8 DEF Administer, Tick, Apply, ResetLineage, vars, handlerVars, reservationVars
  <2> QED
    BY <1>2, <2>1 DEF Open
<1>9. ASSUME NEW c \in Call, Handle(c) PROVE Policy[doc'[e]].rules[r].who = {}
  BY <1>3, <1>4, <1>5, <1>6, <1>9 DEF Handle
<1> QED
  BY <1>7, <1>8, <1>9 DEF Next

\* Nobody gets past an enforcing rule about identities by a label that is not
\* vouched for, whatever the documents (internal/policy, applies and evaluate).
THEOREM ScopedRulesHold == Spec => []UnsureNeverPassScopedRules
<1>1. Init => UnsureNeverPassScopedRules
  BY DEF Init, UnsureNeverPassScopedRules, Open
<1> QED
  BY <1>1, InitTypeOK, TypeOKInductive, UnsureInductive, PTL DEF Spec

-----------------------------------------------------------------------------
(* The limits. *)

\* Who precedes an evaluation had its own evaluation behind it.
PriorSettled ==
  \A c \in Call : \A e \in prior[c] : phase[e] \notin {"idle", "arrived", "unruled"}

\* Rows are of the rules that their request counts, and stay so.
AcceptedCounts ==
  \A c \in Call : \A key \in Key : c \in accepted[key] =>
    /\ phase[c] \in {"committed", "closed"}
    /\ \A other \in Key : Counts(c, other) <=> c \in accepted[other]

\* Reservations name rules of their document.
RulesKnown ==
  \A c \in Call : \A r \in counted[c] \cup slots[c] :
    doc[c] \in Doc /\ r \in DOMAIN Policy[doc[c]].rules

Bookkeeping == TypeOK /\ CountersExact /\ PriorSettled /\ AcceptedCounts /\ RulesKnown

LEMMA LimitsAreNatural ==
  ASSUME RulesKnown, NEW c \in Call, NEW r \in counted[c] \cup slots[c]
  PROVE  LET rule == Policy[doc[c]].rules[r]
         IN  /\ rule.concurrency \in Nat
             /\ \A m \in rule.requests : m.max \in Nat
             /\ \A m \in rule.amounts : m.max \in Nat
BY PolicyAssumption DEF RulesKnown

\* LimitsHold, call by call and rule by rule.
LimitFits(c, r, key) ==
  /\ \A m \in Policy[doc[c]].rules[r].requests : Cardinality(Standing(c, key, m)) <= m.max
  /\ \A m \in Policy[doc[c]].rules[r].amounts : SumOf(charge, Standing(c, key, m)) <= m.max

SlotFits(c, r, key) ==
  Policy[doc[c]].rules[r].enforce =>
    Cardinality({e \in (prior[c] \cap Open) \cup {c} : Occupies(e, key)})
      <= Policy[doc[c]].rules[r].concurrency

AllFit ==
  /\ \A c \in Counting : \A r \in EnforcedOn(c) : \A key : key = KeyOf(doc[c], r) => LimitFits(c, r, key)
  /\ \A c \in Open : \A r \in slots[c] : \A key : key = KeyOf(doc[c], r) => SlotFits(c, r, key)

LEMMA AllFitIs == AllFit <=> LimitsHold
BY DEF AllFit, LimitsHold, LimitFits, SlotFits

\* When reservations only go, or stay as they are, what is left still fits.
LEMMA LimitsShrink ==
  ASSUME TypeOK, TypeOK', RulesKnown, AllFit, Counting' \subseteq Counting, Open' \subseteq Open,
         \A c \in Counting' \cup Open' :
           /\ doc'[c] = doc[c] /\ counted'[c] = counted[c] /\ charge'[c] = charge[c]
           /\ start'[c] = start[c] /\ prior'[c] \subseteq prior[c] /\ slots'[c] \subseteq slots[c]
  PROVE  AllFit'
<1>1. Counting \subseteq Call /\ Open \subseteq Call
  BY DEF Counting, Open
<1>2. ASSUME NEW c \in Counting', NEW key, NEW m
      PROVE  Standing(c, key, m)' \subseteq Standing(c, key, m) /\ Standing(c, key, m) \subseteq Call
  BY <1>1, <1>2 DEF Standing, Counts
<1>3. ASSUME NEW c \in Counting', NEW r \in EnforcedOn(c)', NEW key, key = KeyOf(doc'[c], r)
      PROVE  LimitFits(c, r, key)'
  <2> DEFINE rule == Policy[doc[c]].rules[r]
  <2>1. /\ c \in Counting /\ c \in Call /\ doc'[c] = doc[c] /\ key = KeyOf(doc[c], r)
        /\ r \in EnforcedOn(c) /\ r \in counted[c]
    BY <1>1, <1>3 DEF EnforcedOn
  <2>2. LimitFits(c, r, key)
    BY <2>1 DEF AllFit
  <2>3. ASSUME NEW m PROVE Standing(c, key, m)' \subseteq Standing(c, key, m)
                           /\ Standing(c, key, m) \subseteq Call
    BY <1>2, <1>3
  <2>4. ASSUME NEW m \in rule.requests PROVE Cardinality(Standing(c, key, m)') <= m.max
    <3>1. Cardinality(Standing(c, key, m)) <= m.max /\ m.max \in Nat
      BY <2>1, <2>2, LimitsAreNatural DEF LimitFits
    <3>2. Cardinality(Standing(c, key, m)') <= Cardinality(Standing(c, key, m))
      BY <2>3, FewerCalls
    <3>3. Standing(c, key, m)' \subseteq Call
      BY <2>3
    <3>4. Cardinality(Standing(c, key, m)') \in Nat /\ Cardinality(Standing(c, key, m)) \in Nat
      BY <2>3, <3>3, CallSets
    <3> QED
      BY <3>1, <3>2, <3>4
  <2>5. ASSUME NEW m \in rule.amounts PROVE SumOf(charge', Standing(c, key, m)') <= m.max
    <3>1. SumOf(charge, Standing(c, key, m)) <= m.max /\ m.max \in Nat
      BY <2>1, <2>2, LimitsAreNatural DEF LimitFits
    <3>2. \A e \in Call : charge[e] \in Nat /\ charge'[e] \in Nat
      BY DEF TypeOK
    <3>3. \A e \in Standing(c, key, m)' : charge'[e] <= charge[e]
      <4>1. \A e \in Standing(c, key, m)' : e \in Counting'
        BY <1>3 DEF Standing
      <4> QED
        BY <1>1, <3>2, <4>1
    <3>4. Standing(c, key, m)' \subseteq Call
      BY <2>3
    <3>5. IsFiniteSet(Standing(c, key, m)) /\ IsFiniteSet(Standing(c, key, m)')
      BY <2>3, <3>4, CallSets
    <3>6. SumOf(charge', Standing(c, key, m)') <= SumOf(charge, Standing(c, key, m))
      BY <2>3, <3>2, <3>3, <3>5, SumMonotone
    <3>7. SumOf(charge', Standing(c, key, m)') \in Nat /\ SumOf(charge, Standing(c, key, m)) \in Nat
      BY <2>3, <3>2, <3>4, <3>5, SumFinite
    <3> QED
      BY <3>1, <3>6, <3>7
  <2> QED
    BY <2>1, <2>4, <2>5 DEF LimitFits
<1>4. ASSUME NEW c \in Open', NEW r \in slots'[c], NEW key, key = KeyOf(doc'[c], r)
      PROVE  SlotFits(c, r, key)'
  <2> DEFINE limit == Policy[doc[c]].rules[r].concurrency
  <2> DEFINE left == {e \in (prior'[c] \cap Open') \cup {c} : Occupies(e, key)'}
  <2> DEFINE before == {e \in (prior[c] \cap Open) \cup {c} : Occupies(e, key)}
  <2>1. c \in Open /\ c \in Call /\ doc'[c] = doc[c] /\ r \in slots[c] /\ key = KeyOf(doc[c], r)
    BY <1>1, <1>4
  <2>2. SUFFICES ASSUME Policy[doc[c]].rules[r].enforce PROVE Cardinality(left) <= limit
    BY <2>1 DEF SlotFits
  <2>3. Cardinality(before) <= limit /\ limit \in Nat
    BY <2>1, <2>2, LimitsAreNatural DEF AllFit, SlotFits
  <2>4. \A e \in Open' : Occupies(e, key)' => Occupies(e, key)
    BY DEF Occupies
  <2>5. left \subseteq before /\ before \subseteq Call
    BY <1>1, <1>4, <2>1, <2>4
  <2> HIDE DEF left, before, limit
  <2>6. left \subseteq Call
    BY <2>5
  <2>7. Cardinality(left) <= Cardinality(before) /\ Cardinality(left) \in Nat
        /\ Cardinality(before) \in Nat
    BY <2>5, <2>6, FewerCalls, CallSets
  <2> QED
    BY <2>3, <2>7
<1> QED
  BY <1>3, <1>4 DEF AllFit

-----------------------------------------------------------------------------
(* What the bookkeeping rests on, action by action. *)

LEMMA RulesInductive == TypeOK /\ RulesKnown /\ [Next]_vars => RulesKnown'
<1> SUFFICES ASSUME TypeOK, RulesKnown, [Next]_vars,
                    NEW e \in Call, NEW r \in counted'[e] \cup slots'[e]
             PROVE  doc'[e] \in Doc /\ r \in DOMAIN Policy[doc'[e]].rules
  BY DEF RulesKnown
<1>1. ASSUME doc'[e] = doc[e], counted'[e] \subseteq counted[e], slots'[e] \subseteq slots[e]
      PROVE  doc'[e] \in Doc /\ r \in DOMAIN Policy[doc'[e]].rules
  BY <1>1 DEF RulesKnown
<1>2. ASSUME NEW k \in Kind, Prepare(e, k)
      PROVE  doc'[e] \in Doc /\ r \in DOMAIN Policy[doc'[e]].rules
  <2>1. doc'[e] = active /\ active \in Doc
    BY <1>2 DEF Prepare, TypeOK
  <2>2. r \in Applicable(k)
    BY <1>2 DEF Prepare, TypeOK
  <2> QED
    BY <2>1, <2>2 DEF Applicable
<1>3. ASSUME NEW c \in Call, NEW k \in Kind, Prepare(c, k), c # e
      PROVE  doc'[e] \in Doc /\ r \in DOMAIN Policy[doc'[e]].rules
  BY <1>1, <1>3 DEF Prepare, TypeOK
<1>4. ASSUME NEW c \in Call, CommitFails(c) \/ Cancel(c) \/ Release(c)
      PROVE  doc'[e] \in Doc /\ r \in DOMAIN Policy[doc'[e]].rules
  <2>1. CASE e = c /\ (CommitFails(c) \/ Cancel(c))
    BY <2>1 DEF CommitFails, Cancel, Forget, TypeOK
  <2>2. CASE e # c /\ (CommitFails(c) \/ Cancel(c))
    BY <1>1, <2>2 DEF CommitFails, Cancel, Forget, TypeOK
  <2>3. CASE Release(c)
    BY <1>1, <2>3 DEF Release, TypeOK
  <2> QED
    BY <1>4, <2>1, <2>2, <2>3
<1>5. ASSUME UNCHANGED <<doc, counted, slots>>
      PROVE  doc'[e] \in Doc /\ r \in DOMAIN Policy[doc'[e]].rules
  BY <1>1, <1>5
<1>6. ASSUME NEW c \in Call, Handle(c)
      PROVE  doc'[e] \in Doc /\ r \in DOMAIN Policy[doc'[e]].rules
  BY <1>2, <1>3, <1>4, <1>5, <1>6
  DEF Handle, Arrive, PrepareDenies, PrepareUnruled, PrepareFails, Leave, Commit, reservationVars
<1>7. CASE Restart \/ Tick \/ Administer \/ UNCHANGED vars
  <2>1. UNCHANGED <<doc, counted, slots>>
    BY <1>7 DEF Restart, Administer, Tick, Apply, ResetLineage, vars, reservationVars
  <2> QED
    BY <1>5, <2>1
<1> QED
  BY <1>6, <1>7 DEF Next

LEMMA PriorInductive == TypeOK /\ PriorSettled /\ AcceptedCounts /\ [Next]_vars => PriorSettled'
<1> SUFFICES ASSUME TypeOK, PriorSettled, AcceptedCounts, [Next]_vars,
                    NEW x \in Call, NEW e \in prior'[x]
             PROVE  phase'[e] \notin {"idle", "arrived", "unruled"}
  BY DEF PriorSettled
<1>1. ASSUME e \in prior[x], phase'[e] = phase[e]
      PROVE  phase'[e] \notin {"idle", "arrived", "unruled"}
  BY <1>1 DEF PriorSettled
<1>2. ASSUME NEW c \in Call, NEW k \in Kind, Prepare(c, k)
      PROVE  phase'[e] \notin {"idle", "arrived", "unruled"}
  <2>1. phase' = [phase EXCEPT ![c] = "prepared"]
        /\ prior' = [prior EXCEPT ![c] = Counting \cup Open]
    BY <1>2 DEF Prepare, Becomes
  <2>2. CASE x = c
    <3>1. e \in Counting \cup Open
      BY <2>1, <2>2 DEF TypeOK
    <3>2. e \in Call /\ phase[e] \in {"prepared", "committed", "closed"}
      BY <3>1 DEF Counting, Open, AcceptedCounts
    <3> QED
      BY <2>1, <3>2 DEF TypeOK
  <2>3. CASE x # c
    <3>1. e \in prior[x] /\ e \in Call
      BY <2>1, <2>3 DEF TypeOK
    <3> QED
      BY <2>1, <3>1 DEF PriorSettled, TypeOK
  <2> QED
    BY <2>2, <2>3
<1>3. ASSUME NEW c \in Call, CommitFails(c) \/ Cancel(c)
      PROVE  phase'[e] \notin {"idle", "arrived", "unruled"}
  <2>1. /\ prior' = [y \in Call |-> IF y = c THEN {} ELSE prior[y] \ {c}]
        /\ \A y \in Call \ {c} : phase'[y] = phase[y]
    BY <1>3 DEF CommitFails, Cancel, Forget, Becomes, TypeOK
  <2>2. e \in prior[x] /\ e # c /\ e \in Call
    BY <2>1 DEF TypeOK
  <2> QED
    BY <1>1, <2>1, <2>2
<1>4. ASSUME NEW c \in Call,
             \/ Arrive(c) \/ (\E k \in Kind : PrepareDenies(c, k)) \/ PrepareUnruled(c)
             \/ PrepareFails(c) \/ Leave(c) \/ Commit(c) \/ Release(c)
      PROVE  phase'[e] \notin {"idle", "arrived", "unruled"}
  <2>1. /\ UNCHANGED prior
        /\ \/ phase[c] \in {"idle", "arrived", "unruled"}
           \/ phase'[c] \notin {"idle", "arrived", "unruled"}
        /\ \A y \in Call \ {c} : phase'[y] = phase[y]
    BY <1>4 DEF Arrive, PrepareDenies, PrepareUnruled, PrepareFails, Leave, Commit, Release,
                MayEvaluate, Becomes, reservationVars, TypeOK
  <2>2. e \in prior[x] /\ e \in Call
    BY <2>1 DEF TypeOK
  <2> QED
    BY <2>1, <2>2 DEF PriorSettled
<1>5. CASE Restart
  <2>1. e \in prior[x] /\ e \in Call
    BY <1>5 DEF Restart, reservationVars, TypeOK
  <2> QED
    BY <1>5, <2>1 DEF Restart, PriorSettled
<1>6. CASE Tick \/ Administer \/ UNCHANGED vars
  <2>1. UNCHANGED <<phase, prior>>
    BY <1>6 DEF Administer, Tick, Apply, ResetLineage, vars, handlerVars, reservationVars
  <2> QED
    BY <1>1, <2>1
<1>7. ASSUME NEW c \in Call, Handle(c) PROVE phase'[e] \notin {"idle", "arrived", "unruled"}
  BY <1>2, <1>3, <1>4, <1>7 DEF Handle
<1> QED
  BY <1>5, <1>6, <1>7 DEF Next

LEMMA AcceptedInductive ==
  TypeOK /\ RulesKnown /\ AcceptedCounts /\ [Next]_vars => AcceptedCounts'
<1> SUFFICES ASSUME TypeOK, RulesKnown, AcceptedCounts, [Next]_vars,
                    NEW e \in Call, NEW key \in Key, e \in accepted'[key]
             PROVE  /\ phase'[e] \in {"committed", "closed"}
                    /\ \A other \in Key : Counts(e, other)' <=> e \in accepted'[other]
  BY DEF AcceptedCounts
<1> DEFINE Goal == /\ phase'[e] \in {"committed", "closed"}
                   /\ \A other \in Key : Counts(e, other)' <=> e \in accepted'[other]
<1>1. ASSUME \A other \in Key : e \in accepted'[other] <=> e \in accepted[other],
             phase[e] \in {"committed", "closed"} => phase'[e] \in {"committed", "closed"}
                                                     /\ doc'[e] = doc[e] /\ counted'[e] = counted[e]
      PROVE  Goal
  BY <1>1 DEF AcceptedCounts, Counts
<1>2. ASSUME NEW c \in Call, Commit(c) PROVE Goal
  <2>1. /\ phase[c] = "prepared" /\ phase' = [phase EXCEPT ![c] = "committed"]
        /\ UNCHANGED <<doc, counted>>
        /\ accepted' = [other \in Key |-> IF \E r \in counted[c] : other = KeyOf(doc[c], r)
                                          THEN accepted[other] \cup {c} ELSE accepted[other]]
    BY <1>2 DEF Commit, Becomes, reservationVars
  <2>2. CASE e = c
    <3>1. \A other \in Key : c \notin accepted[other]
      BY <2>1 DEF AcceptedCounts
    <3>2. \A other \in Key : e \in accepted'[other] <=> \E r \in counted[c] : other = KeyOf(doc[c], r)
      BY <2>1, <2>2, <3>1
    <3> QED
      BY <2>1, <2>2, <3>2 DEF Counts, TypeOK
  <2>3. CASE e # c
    BY <1>1, <2>1, <2>3 DEF TypeOK
  <2> QED
    BY <2>2, <2>3
<1>3. ASSUME NEW c \in Call, NEW k \in Kind, Prepare(c, k) PROVE Goal
  BY <1>1, <1>3 DEF Prepare, MayEvaluate, Becomes, TypeOK
<1>4. ASSUME NEW c \in Call, CommitFails(c) \/ Cancel(c) PROVE Goal
  <2>1. phase[c] = "prepared" /\ Forget(c) /\ UNCHANGED accepted
        /\ \A y \in Call \ {c} : phase'[y] = phase[y]
    BY <1>4 DEF CommitFails, Cancel, Becomes, TypeOK
  <2> QED
    BY <1>1, <2>1 DEF Forget, TypeOK
<1>5. ASSUME NEW c \in Call,
             \/ Arrive(c) \/ (\E k \in Kind : PrepareDenies(c, k)) \/ PrepareUnruled(c)
             \/ PrepareFails(c) \/ Leave(c) \/ Release(c)
      PROVE  Goal
  <2>1. /\ UNCHANGED <<accepted, doc, counted>>
        /\ phase[c] \in {"committed", "closed"} => phase'[c] \in {"committed", "closed"}
        /\ \A y \in Call \ {c} : phase'[y] = phase[y]
    BY <1>5 DEF Arrive, PrepareDenies, PrepareUnruled, PrepareFails, Leave, Release,
                MayEvaluate, Becomes, reservationVars, TypeOK
  <2> QED
    BY <1>1, <2>1
<1>6. CASE Restart
  BY <1>1, <1>6 DEF Restart, reservationVars, TypeOK
<1>7. CASE Tick \/ Administer \/ UNCHANGED vars
  <2>1. UNCHANGED <<phase, accepted, doc, counted>>
    BY <1>7 DEF Administer, Tick, Apply, ResetLineage, vars, handlerVars, reservationVars
  <2> QED
    BY <1>1, <2>1
<1>8. ASSUME NEW c \in Call, Handle(c) PROVE Goal
  BY <1>2, <1>3, <1>4, <1>5, <1>8 DEF Handle
<1> QED
  BY <1>6, <1>7, <1>8 DEF Next

-----------------------------------------------------------------------------
(* Limits hold through every step. *)

\* What counts from the point of view of a handler that is being evaluated is
\* at most what the evaluation found used, and the handler itself.
LEMMA StandingWasUsed ==
  ASSUME Bookkeeping, NEW c \in Call, NEW k \in Kind, Prepare(c, k), NEW key \in Key, NEW m
  PROVE  /\ Standing(c, key, m)' \subseteq Used(key, m, c) \cup {c}
         /\ Used(key, m, c) \subseteq Call /\ c \notin Used(key, m, c)
<1>1. /\ TypeOK /\ phase[c] \in {"arrived", "unruled"}
      /\ phase' = [phase EXCEPT ![c] = "prepared"]
      /\ prior' = [prior EXCEPT ![c] = Counting \cup Open]
      /\ UNCHANGED <<start, accepted>>
      /\ \A e \in Call \ {c} : doc'[e] = doc[e] /\ counted'[e] = counted[e]
  BY DEF Prepare, MayEvaluate, Becomes, Bookkeeping, TypeOK
<1>2. pending[key] = {e \in Call : phase[e] = "prepared" /\ Counts(e, key)}
  BY DEF Bookkeeping, CountersExact
<1>3. Used(key, m, c) \subseteq Call
  BY <1>1, <1>2 DEF Used, TypeOK
<1>4. c \notin accepted[key] /\ c \notin pending[key]
  BY <1>1, <1>2 DEF Bookkeeping, AcceptedCounts
<1>5. ASSUME NEW e \in Standing(c, key, m)', e # c PROVE e \in Used(key, m, c)
  <2>1. /\ e \in Counting' /\ e \in Call
        /\ Counts(e, key) /\ start[e] >= Cutoff[m.window][start[c]]
    BY <1>1, <1>5 DEF Standing, Counting, Counts
  <2>2. phase[e] = "prepared" \/ \E other \in Key : e \in accepted[other]
    BY <1>1, <1>5, <2>1 DEF Counting, TypeOK
  <2>3. e \in accepted[key] \cup pending[key]
    BY <1>2, <2>1, <2>2 DEF Bookkeeping, AcceptedCounts
  <2> QED
    BY <2>1, <2>3 DEF Used
<1> QED
  BY <1>3, <1>4, <1>5 DEF Used

\* A handler that is admitted fits into every limit it was evaluated under.
LEMMA PreparedFits ==
  ASSUME Bookkeeping, Bookkeeping', NEW c \in Call, NEW k \in Kind, Prepare(c, k),
         NEW r \in EnforcedOn(c)', NEW key, key = KeyOf(doc'[c], r)
  PROVE  LimitFits(c, r, key)'
<1> DEFINE rule == Policy[active].rules[r]
<1>1. /\ TypeOK /\ doc'[c] = active /\ active \in Doc
      /\ charge' = [charge EXCEPT ![c] = IF k.bounded THEN k.units ELSE 0]
      /\ ~Denied(c, k) /\ r \in counted'[c] /\ rule.enforce
  BY DEF Prepare, Bookkeeping, TypeOK, EnforcedOn
<1>2. r \in Applicable(k) /\ r \in DOMAIN Policy[active].rules
  BY <1>1 DEF Prepare, Applicable, Bookkeeping, TypeOK
<1>3. ~Violated(r, c, k)
  BY <1>1, <1>2 DEF Denied
<1>4. key \in Key /\ key = KeyOf(active, r)
  BY <1>1, <1>2, PolicyConstants DEF KeyOf, Key
<1>5. \A m \in rule.requests \cup rule.amounts : m.max \in Nat
  BY <1>1, <1>2, PolicyAssumption
<1>6. \A e \in Call : charge[e] \in Nat /\ charge'[e] \in Nat
  BY DEF Bookkeeping, TypeOK
<1>7. ASSUME NEW m \in rule.requests PROVE Cardinality(Standing(c, key, m)') <= m.max
  <2> DEFINE used == Used(key, m, c)
  <2>1. Standing(c, key, m)' \subseteq used \cup {c} /\ used \subseteq Call
    BY <1>4, StandingWasUsed
  <2>2. ~ (Cardinality(used) >= m.max)
    BY <1>3, <1>4, <1>7 DEF Violated
  <2> HIDE DEF used
  <2>3. Standing(c, key, m)' \subseteq Call /\ used \cup {c} \subseteq Call
    BY <2>1
  <2>4. Cardinality(Standing(c, key, m)') <= Cardinality(used \cup {c})
    BY <2>1, <2>3, FewerCalls
  <2>5. Cardinality(used \cup {c}) <= Cardinality(used) + 1
    BY <2>1, OneMoreCall
  <2>6. /\ Cardinality(Standing(c, key, m)') \in Nat /\ Cardinality(used) \in Nat
        /\ Cardinality(used \cup {c}) \in Nat /\ m.max \in Nat
    BY <1>5, <1>7, <2>1, <2>3, CallSets
  <2> QED
    BY <2>2, <2>4, <2>5, <2>6
<1>8. ASSUME NEW m \in rule.amounts PROVE SumOf(charge', Standing(c, key, m)') <= m.max
  <2> DEFINE used == Used(key, m, c)
  <2>1. Standing(c, key, m)' \subseteq used \cup {c} /\ used \subseteq Call /\ c \notin used
    BY <1>4, StandingWasUsed
  <2>2. k.bounded /\ ~ (SumOf(charge, used) > m.max - k.units)
    BY <1>3, <1>4, <1>8 DEF Violated
  <2>3. charge'[c] = k.units /\ k.units \in Nat
    BY <1>1, <2>2, PolicyConstants DEF TypeOK
  <2> HIDE DEF used
  <2>4. IsFiniteSet(used) /\ IsFiniteSet(used \cup {c}) /\ IsFiniteSet(Standing(c, key, m)')
    <3>1. Standing(c, key, m)' \subseteq Call /\ used \cup {c} \subseteq Call
      BY <2>1
    <3> QED
      BY <2>1, <3>1, CallSets
  <2>5. \A e \in used : charge'[e] = charge[e]
    BY <1>1, <2>1 DEF TypeOK
  <2>6. SumOf(charge', used) = SumOf(charge, used)
    BY <2>5, SumSame
  <2>7. SumOf(charge', used \cup {c}) = SumOf(charge', used) + charge'[c]
    BY <1>6, <2>1, <2>4, SumAdd
  <2>8. SumOf(charge', Standing(c, key, m)') <= SumOf(charge', used \cup {c})
    <3>1. \A e \in used \cup {c} : charge'[e] \in Nat
      BY <1>6, <2>1
    <3>2. \A e \in Standing(c, key, m)' : charge'[e] <= charge'[e]
      BY <2>1, <3>1
    <3> QED
      BY <2>1, <2>4, <3>1, <3>2, SumMonotone
  <2>9. SumOf(charge', Standing(c, key, m)') \in Nat /\ SumOf(charge, used) \in Nat /\ m.max \in Nat
    <3>1. \A e \in Standing(c, key, m)' : charge'[e] \in Nat
      BY <1>6, <2>1
    <3>2. \A e \in used : charge[e] \in Nat
      BY <1>6, <2>1
    <3> QED
      BY <1>5, <1>8, <2>4, <3>1, <3>2, SumFinite
  <2> QED
    BY <2>2, <2>3, <2>6, <2>7, <2>8, <2>9
<1> QED
  BY <1>1, <1>7, <1>8 DEF LimitFits

LEMMA PreparedHasSlots ==
  ASSUME Bookkeeping, NEW c \in Call, NEW k \in Kind, Prepare(c, k),
         NEW r \in slots'[c], NEW key, key = KeyOf(doc'[c], r)
  PROVE  SlotFits(c, r, key)'
<1> DEFINE rule == Policy[active].rules[r]
<1> DEFINE holders == {e \in Open : Occupies(e, key)}
<1> DEFINE now1 == {e \in (prior'[c] \cap Open') \cup {c} : Occupies(e, key)'}
<1>1. /\ TypeOK /\ doc'[c] = active /\ active \in Doc /\ ~Denied(c, k)
      /\ phase' = [phase EXCEPT ![c] = "prepared"]
      /\ \A e \in Call \ {c} : doc'[e] = doc[e] /\ slots'[e] = slots[e]
      /\ prior'[c] \subseteq Call
  BY DEF Prepare, Becomes, Bookkeeping, TypeOK, Counting, Open
<1>2. r \in Applicable(k) /\ r \in DOMAIN Policy[active].rules /\ rule.concurrency > 0
  BY <1>1 DEF Prepare, Applicable, TypeOK
<1>3. SUFFICES ASSUME rule.enforce PROVE Cardinality(now1) <= rule.concurrency
  BY <1>1 DEF SlotFits
<1>4. key \in Key /\ key = KeyOf(active, r)
  BY <1>1, <1>2, PolicyConstants DEF KeyOf, Key
<1>5. ~ (inFlight[key] + 1 > rule.concurrency)
  BY <1>1, <1>2, <1>3, <1>4 DEF Denied, Violated
<1>6. inFlight[key] = Cardinality(holders)
  BY <1>4 DEF Bookkeeping, CountersExact
<1>7. holders \subseteq Call
  BY DEF Open
<1>8. now1 \subseteq holders \cup {c}
  <2> SUFFICES ASSUME NEW e \in now1, e # c PROVE e \in holders
    OBVIOUS
  <2>1. e \in Open' /\ Occupies(e, key)' /\ e \in Call
    BY DEF Open
  <2>2. e \in Open /\ Occupies(e, key)
    BY <1>1, <2>1 DEF Open, Occupies, TypeOK
  <2> QED
    BY <2>2
<1>9. rule.concurrency \in Nat
  BY <1>1, <1>2, PolicyAssumption
<1> HIDE DEF now1, holders, rule
<1>10. now1 \subseteq Call /\ holders \cup {c} \subseteq Call
  BY <1>7, <1>8
<1>11. Cardinality(now1) <= Cardinality(holders \cup {c})
       /\ Cardinality(holders \cup {c}) <= Cardinality(holders) + 1
  BY <1>7, <1>8, <1>10, FewerCalls, OneMoreCall
<1>12. Cardinality(now1) \in Nat /\ Cardinality(holders) \in Nat
       /\ Cardinality(holders \cup {c}) \in Nat
  BY <1>7, <1>10, CallSets
<1> QED
  BY <1>5, <1>6, <1>9, <1>11, <1>12

LEMMA PrepareKeepsLimits ==
  ASSUME Bookkeeping, Bookkeeping', AllFit, NEW c \in Call, NEW k \in Kind, Prepare(c, k)
  PROVE  AllFit'
<1>1. /\ TypeOK /\ TypeOK' /\ RulesKnown
      /\ phase[c] \in {"arrived", "unruled"} /\ phase' = [phase EXCEPT ![c] = "prepared"]
      /\ UNCHANGED <<start, accepted>>
      /\ \A e \in Call \ {c} : /\ doc'[e] = doc[e] /\ counted'[e] = counted[e]
                               /\ slots'[e] = slots[e] /\ prior'[e] = prior[e]
                               /\ charge'[e] = charge[e]
  BY DEF Prepare, MayEvaluate, Becomes, Bookkeeping, TypeOK
<1>2. /\ Counting' = Counting \cup {c} /\ Open' = Open \cup {c}
      /\ c \notin Counting /\ c \notin Open /\ Counting \subseteq Call /\ Open \subseteq Call
  BY <1>1 DEF Counting, Open, TypeOK, Bookkeeping, AcceptedCounts
<1>3. \A e \in Call : c \notin prior[e]
  BY <1>1 DEF Bookkeeping, PriorSettled
<1>4. ASSUME NEW e \in Counting', NEW r \in EnforcedOn(e)', NEW key, key = KeyOf(doc'[e], r), e # c
      PROVE  LimitFits(e, r, key)'
  <2>1. e \in Counting /\ e \in Call /\ doc'[e] = doc[e] /\ counted'[e] = counted[e]
        /\ prior'[e] = prior[e] /\ prior[e] \subseteq Call
    BY <1>1, <1>2, <1>4 DEF TypeOK
  <2>2. LimitFits(e, r, key)
    BY <1>4, <2>1 DEF AllFit, EnforcedOn
  <2>3. (prior'[e] \cap Counting') \cup {e} = (prior[e] \cap Counting) \cup {e}
    BY <1>2, <1>3, <2>1
  <2>4. ASSUME NEW m PROVE Standing(e, key, m)' = Standing(e, key, m)
    <3>1. \A x \in (prior[e] \cap Counting) \cup {e} : Counts(x, key)' <=> Counts(x, key)
      BY <1>1, <1>2, <1>4, <2>1 DEF Counts
    <3> QED
      BY <1>1, <2>3, <3>1 DEF Standing
  <2>5. ASSUME NEW m PROVE SumOf(charge', Standing(e, key, m)) = SumOf(charge, Standing(e, key, m))
    <3>1. \A x \in Standing(e, key, m) : charge'[x] = charge[x]
      BY <1>1, <1>2, <1>4, <2>1 DEF Standing
    <3> QED
      BY <3>1, SumSame
  <2> QED
    BY <2>1, <2>2, <2>4, <2>5 DEF LimitFits
<1>5. ASSUME NEW e \in Open', NEW r \in slots'[e], NEW key, key = KeyOf(doc'[e], r), e # c
      PROVE  SlotFits(e, r, key)'
  <2>1. e \in Open /\ e \in Call /\ doc'[e] = doc[e] /\ slots'[e] = slots[e]
        /\ prior'[e] = prior[e] /\ prior[e] \subseteq Call
    BY <1>1, <1>2, <1>5 DEF TypeOK
  <2>2. SlotFits(e, r, key)
    BY <1>5, <2>1 DEF AllFit
  <2>3. (prior'[e] \cap Open') \cup {e} = (prior[e] \cap Open) \cup {e}
    BY <1>2, <1>3, <2>1
  <2>4. \A x \in (prior[e] \cap Open) \cup {e} : Occupies(x, key)' <=> Occupies(x, key)
    BY <1>1, <1>2, <1>5, <2>1 DEF Occupies
  <2>5. {x \in (prior'[e] \cap Open') \cup {e} : Occupies(x, key)'}
          = {x \in (prior[e] \cap Open) \cup {e} : Occupies(x, key)}
    BY <2>3, <2>4
  <2> QED
    BY <2>1, <2>2, <2>5 DEF SlotFits
<1>6. \A e \in Counting' : \A r \in EnforcedOn(e)' : \A key : key = KeyOf(doc'[e], r)
        => LimitFits(e, r, key)'
  BY <1>4, PreparedFits
<1>7. \A e \in Open' : \A r \in slots'[e] : \A key : key = KeyOf(doc'[e], r)
        => SlotFits(e, r, key)'
  BY <1>5, PreparedHasSlots
<1> QED
  BY <1>6, <1>7 DEF AllFit

LEMMA LimitsInductive ==
  Bookkeeping /\ Bookkeeping' /\ AllFit /\ [Next]_vars => AllFit'
<1> SUFFICES ASSUME Bookkeeping, Bookkeeping', AllFit, [Next]_vars PROVE AllFit'
  OBVIOUS
<1>1. TypeOK /\ TypeOK' /\ RulesKnown /\ AcceptedCounts
  BY DEF Bookkeeping
<1>2. ASSUME NEW c \in Call, Arrive(c) PROVE AllFit'
  <2>1. /\ phase[c] = "idle" /\ phase' = [phase EXCEPT ![c] = "arrived"]
        /\ start' = [start EXCEPT ![c] = now]
        /\ UNCHANGED <<doc, counted, charge, prior, slots, accepted>>
    BY <1>2 DEF Arrive, Becomes, reservationVars
  <2>2. Counting' = Counting /\ Open' = Open /\ c \notin Counting /\ c \notin Open
    BY <1>1, <2>1 DEF Counting, Open, TypeOK, AcceptedCounts
  <2>3. \A e \in Counting' \cup Open' : start'[e] = start[e]
    BY <1>1, <2>1, <2>2 DEF Counting, Open, TypeOK
  <2> QED
    BY <1>1, <2>1, <2>2, <2>3, LimitsShrink
<1>3. ASSUME NEW c \in Call,
             \/ (\E k \in Kind : PrepareDenies(c, k)) \/ PrepareUnruled(c)
             \/ PrepareFails(c) \/ Leave(c)
      PROVE  AllFit'
  <2>1. /\ phase[c] \in {"arrived", "unruled"}
        /\ \E p \in {"unruled", "closed"} : phase' = [phase EXCEPT ![c] = p]
        /\ UNCHANGED <<doc, counted, charge, start, prior, slots, accepted>>
    BY <1>3 DEF PrepareDenies, PrepareUnruled, PrepareFails, Leave, MayEvaluate, Becomes,
                reservationVars
  <2>2. Counting' = Counting /\ Open' = Open
    BY <1>1, <2>1 DEF Counting, Open, TypeOK
  <2> QED
    BY <1>1, <2>1, <2>2, LimitsShrink
<1>4. ASSUME NEW c \in Call, Commit(c) PROVE AllFit'
  <2>1. /\ phase[c] = "prepared" /\ phase' = [phase EXCEPT ![c] = "committed"]
        /\ UNCHANGED <<doc, counted, charge, start, prior, slots>>
        /\ \A key \in Key : accepted'[key] \subseteq accepted[key] \cup {c}
    BY <1>4 DEF Commit, Becomes, reservationVars
  <2>2. Counting' \subseteq Counting /\ Open' = Open
    BY <1>1, <2>1 DEF Counting, Open, TypeOK
  <2> QED
    BY <1>1, <2>1, <2>2, LimitsShrink
<1>5. ASSUME NEW c \in Call, CommitFails(c) \/ Cancel(c) PROVE AllFit'
  <2>1. /\ phase[c] = "prepared" /\ Forget(c) /\ UNCHANGED <<start, accepted>>
        /\ \E p \in {"closed", "arrived"} : phase' = [phase EXCEPT ![c] = p]
    BY <1>5 DEF CommitFails, Cancel, Becomes
  <2>2. phase'[c] \notin {"prepared", "committed"} /\ \A e \in Call \ {c} : phase'[e] = phase[e]
    BY <1>1, <2>1 DEF TypeOK
  <2>3. \A key \in Key : c \notin accepted[key]
    BY <1>1, <2>1 DEF AcceptedCounts
  <2>4. Counting' \subseteq Counting \ {c}
    BY <2>1, <2>2, <2>3 DEF Counting
  <2>5. Open' \subseteq Open \ {c}
    BY <2>1, <2>2 DEF Open
  <2>6. Counting' \cup Open' \subseteq Call \ {c}
    BY <2>4, <2>5 DEF Counting, Open
  <2>7. \A e \in Call \ {c} :
          /\ doc'[e] = doc[e] /\ counted'[e] = counted[e] /\ charge'[e] = charge[e]
          /\ prior'[e] \subseteq prior[e] /\ slots'[e] = slots[e]
    BY <1>1, <2>1 DEF Forget, TypeOK
  <2> QED
    BY <1>1, <2>1, <2>6, <2>7, <2>4, <2>5, LimitsShrink
<1>6. ASSUME NEW c \in Call, Release(c) PROVE AllFit'
  <2>1. /\ phase[c] = "committed" /\ phase' = [phase EXCEPT ![c] = "closed"]
        /\ slots' = [slots EXCEPT ![c] = {}]
        /\ UNCHANGED <<doc, counted, charge, start, prior, accepted>>
    BY <1>6 DEF Release, Becomes
  <2>2. Counting' = Counting /\ Open' \subseteq Open
    BY <1>1, <2>1 DEF Counting, Open, TypeOK
  <2>3. \A e \in Call : slots'[e] \subseteq slots[e]
    BY <1>1, <2>1 DEF TypeOK
  <2>4. Counting' \cup Open' \subseteq Call
    BY DEF Counting, Open
  <2> QED
    BY <1>1, <2>1, <2>2, <2>3, <2>4, LimitsShrink
<1>7. CASE Restart
  <2>1. /\ phase' = [e \in Call |-> IF phase[e] = "idle" THEN "idle" ELSE "closed"]
        /\ UNCHANGED <<doc, counted, charge, start, prior, slots, accepted>>
    BY <1>7 DEF Restart, reservationVars
  <2>2. Counting' \subseteq Counting /\ Open' \subseteq Open
    BY <2>1 DEF Counting, Open
  <2> QED
    BY <1>1, <2>1, <2>2, LimitsShrink
<1>8. CASE Tick \/ Administer \/ UNCHANGED vars
  <2>1. UNCHANGED <<phase, doc, counted, charge, start, prior, slots, accepted>>
    BY <1>8 DEF Administer, Tick, Apply, ResetLineage, vars, handlerVars, reservationVars
  <2>2. Counting' = Counting /\ Open' = Open
    BY <2>1 DEF Counting, Open
  <2> QED
    BY <1>1, <2>1, <2>2, LimitsShrink
<1>9. ASSUME NEW c \in Call, Handle(c) PROVE AllFit'
  BY <1>2, <1>3, <1>4, <1>5, <1>6, <1>9, PrepareKeepsLimits DEF Handle
<1> QED
  BY <1>7, <1>8, <1>9 DEF Next

\* Requests allowed under an enforcing rule fit into its windows and slots, for
\* any number of handlers, documents and rules, any limits and window shapes,
\* and whatever is applied, retired, cancelled or restarted meanwhile
\* (internal/policy, Prepare and Commit).
THEOREM LimitsAreHeld == Spec => []LimitsHold
<1>1. Init => PriorSettled /\ AcceptedCounts /\ RulesKnown /\ AllFit
  BY DEF Init, PriorSettled, AcceptedCounts, RulesKnown, AllFit, Counting, Open
<1>2. Bookkeeping /\ [Next]_vars => Bookkeeping'
  BY TypeOKInductive, CountersInductive, PriorInductive, AcceptedInductive, RulesInductive
  DEF Bookkeeping
<1>3. Spec => []Bookkeeping
  <2>1. Init => TypeOK /\ PriorSettled /\ AcceptedCounts /\ RulesKnown
    BY <1>1, InitTypeOK
  <2>2. Init => Bookkeeping
    BY <2>1, InitCountersExact DEF Bookkeeping
  <2> QED
    BY <1>2, <2>2, PTL DEF Spec
<1>4. Init => AllFit
  BY <1>1
<1> QED
  BY <1>3, <1>4, AllFitIs, LimitsInductive, PTL DEF Spec

-----------------------------------------------------------------------------
(* The replay: what its operators compute.                                 *)

LEMMA ReplayNotions ==
  /\ \A S : Replay!Cardinality(S) = Cardinality(S)
  /\ \A S : Replay!IsFiniteSet(S) <=> IsFiniteSet(S)
  /\ \A f, S : Replay!SumOf(f, S) = SumOf(f, S)
<1>1. \A S : Replay!Cardinality(S) = Cardinality(S)
  BY DEF Cardinality, Replay!Cardinality
<1>2. \A S : Replay!IsFiniteSet(S) <=> IsFiniteSet(S)
  BY DEF IsFiniteSet, Replay!IsFiniteSet
<1>3. \A f, S : Replay!Units(f, S) = Units(f, S)
  BY DEF Units, Replay!Units
<1> QED
  BY <1>1, <1>2, <1>3 DEF SumOf, Replay!SumOf

\* What a document and samples need to be for the replay to be exact: less
\* than Parse asks of a document.
TidyLimit(l) == l.kind \in Replay!LimitKind /\ l.window \in Int /\ (l.type # "rolling" => l.window > 0)

Tidy(d) ==
  /\ \A r, s \in d : r.id = s.id => r = s
  /\ \A r \in d :
       /\ \A l \in r.limits : TidyLimit(l)
       /\ \A l, k \in r.limits : <<l.kind, l.id>> = <<k.kind, k.id>> => l = k

ReadSamples(samples) ==
  /\ samples \in Seq({samples[i] : i \in DOMAIN samples})
  /\ \A i \in DOMAIN samples :
       samples[i].ts \in Int /\ samples[i].end \in Int /\ Replay!ValidCall(samples[i].call)

Sorted(samples) == \A i, j \in DOMAIN samples : i <= j => samples[i].ts <= samples[j].ts

\* What is asked for, and what counts of it, are small numbers.
LEMMA AmountIsNat ==
  ASSUME NEW c, Replay!ValidCall(c), NEW kind \in Replay!LimitKind
  PROVE  /\ Replay!Requested(kind, c) \in Nat \cup {-1}
         /\ Replay!Amount(kind, c) \in Nat
<1>1. Replay!Requested(kind, c) \in Nat \cup {-1}
  BY DEF Replay!ValidCall, Replay!LimitKind, Replay!Requested
<1> QED
  BY <1>1 DEF Replay!Amount

\* Windows start later for later samples.
LEMMA WindowMonotone ==
  ASSUME NEW l, TidyLimit(l), NEW s \in Int, NEW t \in Int, s <= t
  PROVE  /\ Replay!WindowStart(s, l) \in Int /\ Replay!WindowStart(t, l) \in Int
         /\ Replay!WindowStart(s, l) <= Replay!WindowStart(t, l)
<1>1. CASE l.type = "rolling"
  BY <1>1 DEF TidyLimit, Replay!WindowStart
<1>2. CASE l.type # "rolling"
  <2> DEFINE w == l.window
  <2>1. w \in Int /\ w > 0
    BY <1>2 DEF TidyLimit
  <2> HIDE DEF w
  <2>2. \A x \in Int : /\ x % w \in Int /\ x \div w \in Int /\ 0 <= x % w /\ x % w < w
                       /\ x = w * (x \div w) + (x % w)
    BY <2>1
  <2> DEFINE a == s \div w
             b == t \div w
  <2>3. a \in Int /\ b \in Int /\ s - (s % w) = w * a /\ t - (t % w) = w * b
    <3>1. s = w * a + (s % w) /\ t = w * b + (t % w)
      BY <2>2
    <3>2. a \in Int /\ b \in Int /\ s % w \in Int /\ t % w \in Int /\ w * a \in Int /\ w * b \in Int
      BY <2>1, <2>2
    <3> HIDE DEF a, b
    <3> QED
      BY <3>1, <3>2
  <2>4. a <= b
    <3> HIDE DEF a, b
    <3>1. s < w * a + w /\ w * b <= t /\ t < w * b + w /\ w * a <= s
      BY <2>1, <2>2, <2>3
    <3>2. w * a < w * b + w
      BY <2>1, <2>3, <3>1
    <3>3. SUFFICES ASSUME b + 1 <= a PROVE FALSE
      BY <2>3
    <3>4. w * (b + 1) <= w * a
      BY <2>1, <2>3, <3>3
    <3>5. w * (b + 1) = w * b + w
      BY <2>1, <2>3
    <3> QED
      BY <2>1, <2>3, <3>2, <3>4, <3>5
  <2>5. w * a <= w * b
    <3> HIDE DEF a, b
    <3> QED
      BY <2>1, <2>3, <2>4
  <2>6. Replay!WindowStart(s, l) = w * a /\ Replay!WindowStart(t, l) = w * b
    BY <1>2, <2>3 DEF Replay!WindowStart, w
  <2>7. w * a \in Int /\ w * b \in Int
    BY <2>1, <2>3
  <2> QED
    BY <2>5, <2>6, <2>7
<1> QED
  BY <1>1, <1>2

\* The recursion of the replay has a solution, so that Memory is one.
LEMMA MemoryRuns ==
  ASSUME NEW d, NEW samples, Len(samples) \in Nat
  PROVE  \A n \in 0 .. Len(samples) :
           Replay!Memory(d, samples)[n] =
             IF n = 0 THEN Replay!Fresh(d)
             ELSE Replay!Replayed(d, Replay!Memory(d, samples)[n - 1], samples, n)
<1> DEFINE Runs(n, f) ==
             f = [k \in 0 .. n |-> IF k = 0 THEN Replay!Fresh(d)
                                   ELSE Replay!Replayed(d, f[k - 1], samples, k)]
           T == {n \in Nat : \E f : Runs(n, f)}
<1>1. 0 \in T
  <2> DEFINE f == [k \in 0 .. 0 |-> Replay!Fresh(d)]
  <2>1. Runs(0, f)
    OBVIOUS
  <2> QED
    BY <2>1
<1>2. ASSUME NEW n \in Nat, n \in T PROVE n + 1 \in T
  <2>1. PICK f : Runs(n, f)
    BY <1>2
  <2> DEFINE next == Replay!Replayed(d, f[n], samples, n + 1)
             g == [k \in 0 .. n + 1 |-> IF k = n + 1 THEN next ELSE f[k]]
  <2>2. \A k \in 0 .. n : f[k] = IF k = 0 THEN Replay!Fresh(d)
                                 ELSE Replay!Replayed(d, f[k - 1], samples, k)
    BY <2>1
  <2>3. ASSUME NEW k \in 0 .. n + 1
        PROVE  g[k] = IF k = 0 THEN Replay!Fresh(d) ELSE Replay!Replayed(d, g[k - 1], samples, k)
    <3>1. CASE k = n + 1
      <4>1. g[k] = next /\ g[k - 1] = f[n] /\ k # 0
        BY <3>1
      <4> QED
        BY <3>1, <4>1
    <3>2. CASE k # n + 1
      <4>1. k \in 0 .. n /\ g[k] = f[k]
        BY <3>2
      <4>2. k # 0 => k - 1 \in 0 .. n /\ g[k - 1] = f[k - 1]
        BY <4>1
      <4> HIDE DEF g
      <4> QED
        BY <2>2, <4>1, <4>2
    <3> QED
      BY <3>1, <3>2
  <2>4. g = [k \in 0 .. n + 1 |-> g[k]]
    OBVIOUS
  <2>5. Runs(n + 1, g)
    <3> HIDE DEF g
    <3> QED
      BY <2>3, <2>4
  <2> HIDE DEF g
  <2> QED
    BY <2>5
<1>3. Len(samples) \in T
  <2> HIDE DEF T
  <2> QED
    BY <1>1, <1>2, NatStep
<1>4. PICK f : Runs(Len(samples), f)
  BY <1>3
<1>5. Runs(Len(samples), Replay!Memory(d, samples))
  <2>1. Replay!Memory(d, samples) = CHOOSE h : Runs(Len(samples), h)
    BY DEF Replay!Memory
  <2> HIDE DEF Runs
  <2> QED
    BY <1>4, <2>1
<1> QED
  BY <1>5

\* A history: prefix sums at times that do not fall.
EventOf == [ts : Int, sum : [Replay!LimitKind -> Nat]]

LEMMA EventFacts ==
  \A e \in EventOf : /\ e.ts \in Int /\ e.sum \in [Replay!LimitKind -> Nat]
                     /\ \A kind \in Replay!LimitKind : e.sum[kind] \in Nat
BY DEF EventOf

\* The cut of a history at a time: what is before is past.
Cuts(events, first, cutoff) ==
  /\ first \in 0 .. Len(events)
  /\ \A k \in 1 .. first : events[k].ts < cutoff
  /\ \A k \in first + 1 .. Len(events) : events[k].ts >= cutoff

\* A cursor that is not past the cut advances to it.
LEMMA CursorFinds ==
  ASSUME NEW events, events \in Seq(EventOf), NEW cutoff \in Int,
         NEW f, Cuts(events, f, cutoff),
         NEW first \in 0 .. Len(events), \A k \in 1 .. first : events[k].ts < cutoff
  PROVE  Replay!Advanced(events, first, cutoff) = f
<1>1. Len(events) \in Nat /\ \A k \in 1 .. Len(events) : events[k].ts \in Int
  <2>1. Len(events) \in Nat /\ \A k \in 1 .. Len(events) : events[k] \in EventOf
    OBVIOUS
  <2> QED
    BY <2>1, EventFacts
<1>2. first <= f
  <2> SUFFICES ASSUME f < first PROVE FALSE
    BY <1>1 DEF Cuts
  <2>1. first \in f + 1 .. Len(events) /\ first \in 1 .. first
    BY <1>1 DEF Cuts
  <2>2. events[first].ts >= cutoff /\ events[first].ts < cutoff /\ events[first].ts \in Int
    BY <1>1, <2>1 DEF Cuts
  <2> QED
    BY <2>2
<1> DEFINE past == {i \in first + 1 .. Len(events) : \A j \in first + 1 .. i : events[j].ts < cutoff}
<1>3. past = first + 1 .. f
  <2>1. ASSUME NEW i \in past PROVE i \in first + 1 .. f
    <3>1. i \in first + 1 .. Len(events) /\ events[i].ts < cutoff
      OBVIOUS
    <3>2. ~ (i \in f + 1 .. Len(events))
      BY <1>1, <3>1 DEF Cuts
    <3> QED
      BY <1>1, <3>1, <3>2 DEF Cuts
  <2>2. ASSUME NEW i \in first + 1 .. f PROVE i \in past
    <3>1. i \in first + 1 .. Len(events)
      BY <1>1 DEF Cuts
    <3>2. \A j \in first + 1 .. i : j \in 1 .. f
      BY <1>1 DEF Cuts
    <3> QED
      BY <3>1, <3>2 DEF Cuts
  <2> QED
    BY <2>1, <2>2
<1>4. Cardinality(first + 1 .. f) = f - first
  <2>1. first + 1 \in Int /\ f \in Int
    BY <1>1 DEF Cuts
  <2>2. Cardinality(first + 1 .. f) = IF first + 1 > f THEN 0 ELSE f - (first + 1) + 1
    BY <2>1, FS_Interval
  <2> QED
    BY <1>1, <1>2, <2>1, <2>2 DEF Cuts
<1>5. Replay!Advanced(events, first, cutoff) = first + Cardinality(past)
  BY ReplayNotions DEF Replay!Advanced
<1> HIDE DEF past
<1>6. Replay!Advanced(events, first, cutoff) = first + (f - first)
  BY <1>3, <1>4, <1>5
<1> QED
  BY <1>1, <1>2, <1>6 DEF Cuts

\* What an event adds to a window.
LEMMA EventAdds ==
  ASSUME NEW events, events \in Seq(EventOf), NEW s, s.ts \in Int, Replay!ValidCall(s.call),
         NEW kind \in Replay!LimitKind, NEW first \in 0 .. Len(events)
  PROVE  LET next == Replay!Extended(events, s)
         IN  /\ next \in Seq(EventOf) /\ Len(next) = Len(events) + 1
             /\ \A k \in 1 .. Len(events) : next[k] = events[k]
             /\ next[Len(next)].ts = s.ts
             /\ Replay!WindowPrefix(next, first, kind)
                  = Replay!WindowPrefix(events, first, kind) + Replay!Amount(kind, s.call)
             /\ Replay!WindowPrefix(next, Len(next), kind) = 0
             /\ Replay!WindowPrefix(events, first, kind) \in Int
<1> DEFINE before == IF events = <<>> THEN [k \in Replay!LimitKind |-> 0] ELSE events[Len(events)].sum
           event == [ts |-> s.ts, sum |-> [k \in Replay!LimitKind |-> before[k] + Replay!Amount(k, s.call)]]
           next == Append(events, event)
<1>1. Replay!Extended(events, s) = next
  BY DEF Replay!Extended
<1>2. Len(events) \in Nat /\ \A k \in 1 .. Len(events) : events[k] \in EventOf
  OBVIOUS
<1>3. before \in [Replay!LimitKind -> Nat]
  <2>1. CASE events = <<>>
    BY <2>1
  <2>2. CASE events # <<>>
    <3>1. Len(events) \in 1 .. Len(events)
      BY <1>2, <2>2
    <3>2. events[Len(events)].sum \in [Replay!LimitKind -> Nat]
      BY <1>2, <3>1, EventFacts
    <3> QED
      BY <2>2, <3>2
  <2> QED
    BY <2>1, <2>2
<1>4. \A k \in Replay!LimitKind : Replay!Amount(k, s.call) \in Nat
  BY AmountIsNat
<1>5. event \in EventOf
  <2> HIDE DEF before
  <2> QED
    BY <1>3, <1>4 DEF EventOf
<1>6. event.ts = s.ts /\ event.sum[kind] = before[kind] + Replay!Amount(kind, s.call)
  OBVIOUS
<1>7. before[kind] = IF events = <<>> THEN 0 ELSE events[Len(events)].sum[kind]
  OBVIOUS
<1>a. before[kind] \in Nat /\ Replay!Amount(kind, s.call) \in Nat
  BY <1>3, <1>4
<1> HIDE DEF before, event
<1>8. /\ next \in Seq(EventOf) /\ Len(next) = Len(events) + 1
      /\ \A k \in 1 .. Len(events) : next[k] = events[k]
      /\ next[Len(next)] = event
  BY <1>2, <1>5
<1>9. \A k \in 1 .. Len(events) : events[k].sum[kind] \in Nat
  BY <1>2, EventFacts
<1>b. Replay!WindowPrefix(events, first, kind) \in Int
  BY <1>2, <1>9 DEF Replay!WindowPrefix
<1> HIDE DEF next
<1>c. Replay!WindowPrefix(next, Len(next), kind) = 0
  BY <1>2, <1>8 DEF Replay!WindowPrefix
<1>d. Replay!WindowPrefix(next, first, kind)
        = before[kind] + Replay!Amount(kind, s.call) - (IF first > 0 THEN events[first].sum[kind] ELSE 0)
  <2>1. ~ (first >= Len(next))
    BY <1>2, <1>8
  <2>2. next[Len(next)].sum[kind] = before[kind] + Replay!Amount(kind, s.call)
    BY <1>6, <1>8
  <2>3. first > 0 => next[first] = events[first]
    BY <1>2, <1>8
  <2>4. CASE first > 0
    BY <1>2, <1>9, <1>a, <2>1, <2>2, <2>3, <2>4 DEF Replay!WindowPrefix
  <2>5. CASE ~ (first > 0)
    BY <1>2, <1>a, <2>1, <2>2, <2>5 DEF Replay!WindowPrefix
  <2> QED
    BY <2>4, <2>5
<1>e. Replay!WindowPrefix(events, first, kind) = before[kind] - (IF first > 0 THEN events[first].sum[kind] ELSE 0)
  <2>1. CASE first < Len(events)
    <3>1. events # <<>>
      BY <1>2, <2>1
    <3> QED
      BY <1>2, <1>7, <2>1, <3>1 DEF Replay!WindowPrefix
  <2>2. CASE first = Len(events)
    <3>1. (events = <<>>) <=> (Len(events) = 0)
      BY <1>2
    <3> QED
      BY <1>2, <1>7, <1>9, <2>2, <3>1 DEF Replay!WindowPrefix
  <2> QED
    BY <1>2, <2>1, <2>2
<1>f. (IF first > 0 THEN events[first].sum[kind] ELSE 0) \in Nat
  BY <1>2, <1>9
<1> QED
  BY <1>1, <1>6, <1>8, <1>a, <1>b, <1>c, <1>d, <1>e, <1>f

-----------------------------------------------------------------------------
(* What the replay holds after n samples, of a rule r: a history that tells *)
(* the sum of every window, cursors that are not past a later window, and   *)
(* the calls that a later sample may find in flight.                        *)

Passed(outcomes, samples, r, n) ==
  {j \in 1 .. n : outcomes[j].outcome # "block" /\ Replay!Applies(r, samples[j].call)}

Flew(outcomes, samples, r, n) ==
  {j \in Passed(outcomes, samples, r, n) : samples[j].end > samples[j].ts}

Amounts(samples, kind) == [j \in DOMAIN samples |-> Replay!Amount(kind, samples[j].call)]

Within(samples, S, cutoff) == {j \in S : samples[j].ts >= cutoff}

HistoryTells(events, outcomes, samples, r, n) ==
  /\ events \in Seq(EventOf)
  /\ \A k \in 1 .. Len(events) : \A j \in n + 1 .. Len(samples) : events[k].ts <= samples[j].ts
  /\ \A kind \in Replay!LimitKind, cutoff \in Int : \E f \in Nat :
       /\ Cuts(events, f, cutoff)
       /\ Replay!WindowPrefix(events, f, kind)
            = SumOf(Amounts(samples, kind), Within(samples, Passed(outcomes, samples, r, n), cutoff))

CursorBehind(first, events, samples, l, n) ==
  /\ first \in 0 .. Len(events)
  /\ \A k \in 1 .. first : \A j \in n + 1 .. Len(samples) :
       events[k].ts < Replay!WindowStart(samples[j].ts, l)

FlyingKnown(numbers, outcomes, samples, r, n) ==
  /\ numbers \subseteq Flew(outcomes, samples, r, n)
  /\ \A j \in n + 1 .. Len(samples) :
       Replay!Flying(samples, Flew(outcomes, samples, r, n), samples[j].ts) \subseteq numbers

CursorKeys(d) == UNION {{<<r.id, l.kind, l.id>> : l \in r.limits} : r \in d}

Remembered(m, d, outcomes, samples, n) ==
  /\ DOMAIN m.history = {r.id : r \in d} /\ DOMAIN m.flying = {r.id : r \in d}
  /\ DOMAIN m.cursor = CursorKeys(d)
  /\ \A r \in d :
       /\ HistoryTells(m.history[r.id], outcomes, samples, r, n)
       /\ FlyingKnown(m.flying[r.id], outcomes, samples, r, n)
       /\ \A l \in r.limits :
            CursorBehind(m.cursor[<<r.id, l.kind, l.id>>], m.history[r.id], samples, l, n)

\* Every limit moves its own cursor.
LEMMA CursorOfLimit ==
  ASSUME NEW d, Tidy(d), NEW m, NEW s, NEW r \in d, NEW l \in r.limits,
         DOMAIN m.cursor = CursorKeys(d)
  PROVE  LET x == <<r.id, l.kind, l.id>>
         IN  Replay!Moved(d, m, s)[x]
               = IF Replay!Applies(r, s.call) /\ Replay!Requested(l.kind, s.call) # -1
                 THEN Replay!Advanced(m.history[r.id], m.cursor[x], Replay!WindowStart(s.ts, l))
                 ELSE m.cursor[x]
<1> DEFINE x == <<r.id, l.kind, l.id>>
           q == CHOOSE q \in d : q.id = x[1]
           k == CHOOSE k \in q.limits : <<k.kind, k.id>> = <<x[2], x[3]>>
<1>1. x \in DOMAIN m.cursor
  BY DEF CursorKeys
<1>2. q = r
  BY DEF Tidy
<1>3. k = l
  <2> HIDE DEF q
  <2>1. \A j \in q.limits : <<j.kind, j.id>> = <<x[2], x[3]>> => j = l
    BY <1>2 DEF Tidy
  <2>2. l \in q.limits /\ <<l.kind, l.id>> = <<x[2], x[3]>>
    BY <1>2
  <2> QED
    BY <2>1, <2>2
<1>4. Replay!Moved(d, m, s)[x]
        = IF Replay!Applies(q, s.call) /\ Replay!Requested(k.kind, s.call) # -1
          THEN Replay!Advanced(m.history[q.id], m.cursor[x], Replay!WindowStart(s.ts, k))
          ELSE m.cursor[x]
  <2> HIDE DEF x
  <2> QED
    BY <1>1 DEF Replay!Moved
<1> HIDE DEF q, k, x
<1> QED
  BY <1>2, <1>3, <1>4 DEF x

LEMMA SampleFacts ==
  ASSUME NEW samples, ReadSamples(samples)
  PROVE  /\ Len(samples) \in Nat /\ DOMAIN samples = 1 .. Len(samples)
         /\ \A i \in 1 .. Len(samples) :
              /\ samples[i].ts \in Int /\ samples[i].end \in Int /\ Replay!ValidCall(samples[i].call)
         /\ \A kind \in Replay!LimitKind, i \in 1 .. Len(samples) :
              /\ Amounts(samples, kind)[i] = Replay!Amount(kind, samples[i].call)
              /\ Amounts(samples, kind)[i] \in Nat
<1>1. Len(samples) \in Nat /\ DOMAIN samples = 1 .. Len(samples)
  <2> DEFINE V == {samples[i] : i \in DOMAIN samples}
  <2>1. samples \in Seq(V)
    BY DEF ReadSamples
  <2> HIDE DEF V
  <2> QED
    BY <2>1
<1>2. \A i \in 1 .. Len(samples) :
        samples[i].ts \in Int /\ samples[i].end \in Int /\ Replay!ValidCall(samples[i].call)
  BY <1>1 DEF ReadSamples
<1>3. ASSUME NEW kind \in Replay!LimitKind, NEW i \in 1 .. Len(samples)
      PROVE  /\ Amounts(samples, kind)[i] = Replay!Amount(kind, samples[i].call)
             /\ Amounts(samples, kind)[i] \in Nat
  BY <1>1, <1>2, AmountIsNat DEF Amounts
<1> QED
  BY <1>1, <1>2, <1>3

CursorAtCut(d, m, outcomes, samples, i, r, l) ==
  LET cutoff == Replay!WindowStart(samples[i].ts, l)
      first == Replay!Moved(d, m, samples[i])[<<r.id, l.kind, l.id>>]
  IN  /\ cutoff \in Int /\ Cuts(m.history[r.id], first, cutoff)
      /\ Replay!WindowPrefix(m.history[r.id], first, l.kind)
           = SumOf(Amounts(samples, l.kind),
                   Within(samples, Passed(outcomes, samples, r, i - 1), cutoff))

\* What a limit that can be held against a sample finds used is what the
\* reference finds.
LEMMA UsedAsSummed ==
  ASSUME NEW d, Tidy(d), NEW samples, ReadSamples(samples), Sorted(samples), NEW outcomes,
         NEW i \in DOMAIN samples, NEW m, Remembered(m, d, outcomes, samples, i - 1),
         NEW r \in d, Replay!Applies(r, samples[i].call),
         NEW l \in r.limits, Replay!Requested(l.kind, samples[i].call) # -1
  PROVE  CursorAtCut(d, m, outcomes, samples, i, r, l)
<1> DEFINE cutoff == Replay!WindowStart(samples[i].ts, l)
           events == m.history[r.id]
           old == m.cursor[<<r.id, l.kind, l.id>>]
           first == Replay!Moved(d, m, samples[i])[<<r.id, l.kind, l.id>>]
<1>1. Len(samples) \in Nat /\ i \in 1 .. Len(samples) /\ samples[i].ts \in Int
  BY SampleFacts
<1>2. TidyLimit(l) /\ l.kind \in Replay!LimitKind
  BY DEF Tidy, TidyLimit
<1>3. cutoff \in Int
  BY <1>1, <1>2, WindowMonotone
<1>4. HistoryTells(events, outcomes, samples, r, i - 1) /\ CursorBehind(old, events, samples, l, i - 1)
  BY DEF Remembered
<1>5. PICK f \in Nat : /\ Cuts(events, f, cutoff)
                       /\ Replay!WindowPrefix(events, f, l.kind)
                            = SumOf(Amounts(samples, l.kind),
                                    Within(samples, Passed(outcomes, samples, r, i - 1), cutoff))
  <2> HIDE DEF cutoff, events
  <2> QED
    BY <1>2, <1>3, <1>4 DEF HistoryTells
<1>6. old \in 0 .. Len(events) /\ \A k \in 1 .. old : events[k].ts < cutoff
  <2>1. i \in (i - 1) + 1 .. Len(samples)
    BY <1>1
  <2> HIDE DEF events, old
  <2> QED
    BY <1>4, <2>1 DEF CursorBehind
<1>7. first = Replay!Advanced(events, old, cutoff)
  <2>1. DOMAIN m.cursor = CursorKeys(d)
    BY DEF Remembered
  <2>2. Replay!Moved(d, m, samples[i])[<<r.id, l.kind, l.id>>]
          = IF Replay!Applies(r, samples[i].call) /\ Replay!Requested(l.kind, samples[i].call) # -1
            THEN Replay!Advanced(m.history[r.id], m.cursor[<<r.id, l.kind, l.id>>],
                                 Replay!WindowStart(samples[i].ts, l))
            ELSE m.cursor[<<r.id, l.kind, l.id>>]
    BY <2>1, CursorOfLimit
  <2> QED
    BY <2>2
<1>8. events \in Seq(EventOf)
  BY <1>4 DEF HistoryTells
<1>9. first = f
  <2> HIDE DEF cutoff, events, old, first
  <2> QED
    BY <1>3, <1>5, <1>6, <1>7, <1>8, CursorFinds
<1> HIDE DEF cutoff, events, old, first
<1> QED
  BY <1>3, <1>5, <1>9 DEF CursorAtCut, cutoff, events, first

\* The calls found in flight are those of the reference.
LEMMA FlyingAsEnded ==
  ASSUME NEW samples, ReadSamples(samples), NEW outcomes, NEW i \in DOMAIN samples, NEW r,
         NEW numbers, FlyingKnown(numbers, outcomes, samples, r, i - 1)
  PROVE  Replay!Flying(samples, numbers, samples[i].ts)
           = {j \in Passed(outcomes, samples, r, i - 1) :
                samples[j].end > samples[i].ts /\ samples[j].end > samples[j].ts}
<1>1. Len(samples) \in Nat /\ i \in 1 .. Len(samples)
  BY SampleFacts
<1>2. i \in (i - 1) + 1 .. Len(samples)
  BY <1>1
<1>3. /\ numbers \subseteq Flew(outcomes, samples, r, i - 1)
      /\ Replay!Flying(samples, Flew(outcomes, samples, r, i - 1), samples[i].ts) \subseteq numbers
  BY <1>2 DEF FlyingKnown
<1> QED
  BY <1>3 DEF Replay!Flying, Flew

\* A rule is broken by a sample in the replay if it is in the reference.
BrokenBy(r, samples, outcomes, i) ==
  /\ Replay!Applies(r, samples[i].call)
  /\ \/ Replay!Barred(r, samples[i].call, samples[i].known)
     \/ \E l \in r.limits :
          Replay!Exceeds(l, samples[i].call,
            SumOf(Amounts(samples, l.kind),
                  Within(samples, Passed(outcomes, samples, r, i - 1),
                         Replay!WindowStart(samples[i].ts, l))))
     \/ /\ r.concurrency > 0
        /\ Cardinality({j \in Passed(outcomes, samples, r, i - 1) :
                          samples[j].end > samples[i].ts /\ samples[j].end > samples[j].ts}) >= r.concurrency

\* That is how the reference puts it.
LEMMA ExpectedIsBroken ==
  ASSUME NEW d, NEW samples, ReadSamples(samples), NEW outcomes, NEW i \in DOMAIN samples
  PROVE  Replay!Expected(d, samples, outcomes, i)
           = Replay!Verdict({r \in d : BrokenBy(r, samples, outcomes, i)})
<1> DEFINE before(r) == {j \in 1 .. i - 1 : outcomes[j].outcome # "block" /\ Replay!Applies(r, samples[j].call)}
           summed(r, l) ==
             SumOf([j \in 1 .. i - 1 |-> Replay!Amount(l.kind, samples[j].call)],
                   {j \in before(r) : samples[j].ts >= Replay!WindowStart(samples[i].ts, l)})
           flying(r) == {j \in before(r) : samples[j].end > samples[i].ts /\ samples[j].end > samples[j].ts}
<1>1. Len(samples) \in Nat /\ i \in 1 .. Len(samples) /\ DOMAIN samples = 1 .. Len(samples)
  BY SampleFacts
<1>2. \A r : before(r) = Passed(outcomes, samples, r, i - 1)
  BY DEF Passed
<1>3. ASSUME NEW r, NEW l
      PROVE  summed(r, l) = SumOf(Amounts(samples, l.kind),
                                  Within(samples, Passed(outcomes, samples, r, i - 1),
                                         Replay!WindowStart(samples[i].ts, l)))
  <2> DEFINE S == Within(samples, Passed(outcomes, samples, r, i - 1), Replay!WindowStart(samples[i].ts, l))
             f == [j \in 1 .. i - 1 |-> Replay!Amount(l.kind, samples[j].call)]
  <2>1. {j \in before(r) : samples[j].ts >= Replay!WindowStart(samples[i].ts, l)} = S
    BY <1>2 DEF Within
  <2>2. \A j \in S : f[j] = Amounts(samples, l.kind)[j]
    <3> SUFFICES ASSUME NEW j \in S PROVE f[j] = Amounts(samples, l.kind)[j]
      OBVIOUS
    <3>1. j \in 1 .. i - 1 /\ j \in DOMAIN samples
      BY <1>1 DEF Within, Passed
    <3> QED
      BY <3>1 DEF Amounts
  <2>3. SumOf(f, S) = SumOf(Amounts(samples, l.kind), S)
    <3> HIDE DEF f, S
    <3> QED
      BY <2>2, SumSame
  <2> QED
    BY <2>1, <2>3
<1>4. Replay!Expected(d, samples, outcomes, i)
        = Replay!Verdict({r \in d :
            /\ Replay!Applies(r, samples[i].call)
            /\ \/ Replay!Barred(r, samples[i].call, samples[i].known)
               \/ \E l \in r.limits : Replay!Exceeds(l, samples[i].call, summed(r, l))
               \/ r.concurrency > 0 /\ Cardinality(flying(r)) >= r.concurrency})
  BY ReplayNotions DEF Replay!Expected
<1>5. \A r : flying(r) = {j \in Passed(outcomes, samples, r, i - 1) :
                            samples[j].end > samples[i].ts /\ samples[j].end > samples[j].ts}
  BY <1>2
<1> HIDE DEF before, summed, flying
<1>6. {r \in d :
            /\ Replay!Applies(r, samples[i].call)
            /\ \/ Replay!Barred(r, samples[i].call, samples[i].known)
               \/ \E l \in r.limits : Replay!Exceeds(l, samples[i].call, summed(r, l))
               \/ r.concurrency > 0 /\ Cardinality(flying(r)) >= r.concurrency}
       = {r \in d : BrokenBy(r, samples, outcomes, i)}
  BY <1>3, <1>5 DEF BrokenBy
<1> QED
  BY <1>4, <1>6

LEMMA BrokenAsExpected ==
  ASSUME NEW d, Tidy(d), NEW samples, ReadSamples(samples), Sorted(samples), NEW outcomes,
         NEW i \in DOMAIN samples, NEW m, Remembered(m, d, outcomes, samples, i - 1),
         \A r \in d : r.concurrency \in Nat
  PROVE  Replay!Broken(d, m, samples, i) = {r \in d : BrokenBy(r, samples, outcomes, i)}
<1> SUFFICES ASSUME NEW r \in d, Replay!Applies(r, samples[i].call)
             PROVE  Replay!Violates(r, m, Replay!Moved(d, m, samples[i]), samples, i)
                      <=> BrokenBy(r, samples, outcomes, i)
  BY DEF Replay!Broken, BrokenBy
<1> DEFINE cursor == Replay!Moved(d, m, samples[i])
           prefix(l) == Replay!WindowPrefix(m.history[r.id], cursor[<<r.id, l.kind, l.id>>], l.kind)
           summed(l) == SumOf(Amounts(samples, l.kind),
                              Within(samples, Passed(outcomes, samples, r, i - 1),
                                     Replay!WindowStart(samples[i].ts, l)))
           flying == Replay!Flying(samples, m.flying[r.id], samples[i].ts)
           ended == {j \in Passed(outcomes, samples, r, i - 1) :
                       samples[j].end > samples[i].ts /\ samples[j].end > samples[j].ts}
<1>1. ASSUME NEW l \in r.limits
      PROVE  Replay!Exceeds(l, samples[i].call, prefix(l)) <=> Replay!Exceeds(l, samples[i].call, summed(l))
  <2>1. CASE Replay!Requested(l.kind, samples[i].call) = -1
    BY <2>1 DEF Replay!Exceeds
  <2>2. CASE Replay!Requested(l.kind, samples[i].call) # -1
    <3>0. CursorAtCut(d, m, outcomes, samples, i, r, l)
      BY <2>2, UsedAsSummed
    <3>1. prefix(l) = summed(l)
      BY <3>0 DEF CursorAtCut
    <3> QED
      BY <3>1
  <2> QED
    BY <2>1, <2>2
<1>2. flying = ended
  <2>1. FlyingKnown(m.flying[r.id], outcomes, samples, r, i - 1)
    BY DEF Remembered
  <2> QED
    BY <2>1, FlyingAsEnded
<1>3. Cardinality(ended) \in Nat
  <2>1. IsFiniteSet(1 .. i - 1)
    <3>1. i \in Int
      BY SampleFacts
    <3> QED
      BY <3>1, FS_Interval
  <2>2. ended \subseteq 1 .. i - 1
    BY DEF Passed
  <2> HIDE DEF ended
  <2> QED
    BY <2>1, <2>2, FS_Subset, FS_CardinalityType
<1>4. Replay!Cardinality(flying) = Cardinality(ended)
  BY <1>2, ReplayNotions
<1>5. Replay!Violates(r, m, cursor, samples, i)
        <=> \/ Replay!Barred(r, samples[i].call, samples[i].known)
            \/ \E l \in r.limits : Replay!Exceeds(l, samples[i].call, prefix(l))
            \/ r.concurrency > 0 /\ Replay!Cardinality(flying) + 1 > r.concurrency
  BY DEF Replay!Violates
<1>6. BrokenBy(r, samples, outcomes, i)
        <=> \/ Replay!Barred(r, samples[i].call, samples[i].known)
            \/ \E l \in r.limits : Replay!Exceeds(l, samples[i].call, summed(l))
            \/ r.concurrency > 0 /\ Cardinality(ended) >= r.concurrency
  BY DEF BrokenBy
<1>7. r.concurrency \in Nat
  OBVIOUS
<1> HIDE DEF cursor, prefix, summed, flying, ended
<1>8. Replay!Cardinality(flying) + 1 > r.concurrency <=> Cardinality(ended) >= r.concurrency
  BY <1>3, <1>4, <1>7
<1>9. (\E l \in r.limits : Replay!Exceeds(l, samples[i].call, prefix(l)))
        <=> (\E l \in r.limits : Replay!Exceeds(l, samples[i].call, summed(l)))
  BY <1>1
<1> QED
  BY <1>5, <1>6, <1>8, <1>9 DEF cursor

\* What is let through.
LEMMA PassedGrows ==
  ASSUME NEW samples, NEW outcomes, NEW r, NEW i \in Nat \ {0}
  PROVE  /\ Passed(outcomes, samples, r, i)
              = Passed(outcomes, samples, r, i - 1)
                  \cup (IF i \in Passed(outcomes, samples, r, i) THEN {i} ELSE {})
         /\ i \notin Passed(outcomes, samples, r, i - 1)
         /\ Passed(outcomes, samples, r, i) \subseteq 1 .. i
         /\ IsFiniteSet(Passed(outcomes, samples, r, i - 1))
<1>1. 1 .. i = (1 .. i - 1) \cup {i} /\ i \notin 1 .. i - 1
  OBVIOUS
<1>2. IsFiniteSet(1 .. i - 1)
  BY FS_Interval
<1>3. Passed(outcomes, samples, r, i - 1) \subseteq 1 .. i - 1
  BY DEF Passed
<1>4. IsFiniteSet(Passed(outcomes, samples, r, i - 1))
  BY <1>2, <1>3, FS_Subset
<1> QED
  BY <1>1, <1>4 DEF Passed

LEMMA HistoryGrows ==
  ASSUME NEW samples, ReadSamples(samples), Sorted(samples), NEW outcomes, NEW r,
         NEW i \in DOMAIN samples, NEW events, HistoryTells(events, outcomes, samples, r, i - 1)
  PROVE  HistoryTells(IF i \in Passed(outcomes, samples, r, i)
                      THEN Replay!Extended(events, samples[i]) ELSE events, outcomes, samples, r, i)
<1> DEFINE s == samples[i]
           old == Passed(outcomes, samples, r, i - 1)
           new == Passed(outcomes, samples, r, i)
           next == IF i \in new THEN Replay!Extended(events, s) ELSE events
<1>0. /\ Len(samples) \in Nat /\ DOMAIN samples = 1 .. Len(samples) /\ i \in 1 .. Len(samples)
      /\ s.ts \in Int /\ Replay!ValidCall(s.call)
      /\ \A j \in 1 .. Len(samples) : samples[j].ts \in Int
  BY SampleFacts
<1>1. /\ events \in Seq(EventOf) /\ Len(events) \in Nat
      /\ \A k \in 1 .. Len(events) : \A j \in i .. Len(samples) : events[k].ts <= samples[j].ts
      /\ \A k \in 1 .. Len(events) : events[k].ts \in Int
  <2>1. events \in Seq(EventOf)
    BY DEF HistoryTells
  <2>2. Len(events) \in Nat /\ \A k \in 1 .. Len(events) : events[k] \in EventOf
    BY <2>1
  <2>3. (i - 1) + 1 = i
    BY <1>0
  <2> QED
    BY <2>1, <2>2, <2>3, EventFacts DEF HistoryTells
<1>2. /\ new = old \cup (IF i \in new THEN {i} ELSE {}) /\ i \notin old /\ new \subseteq 1 .. i
      /\ IsFiniteSet(old) /\ old \subseteq 1 .. i - 1
  <2>1. old \subseteq 1 .. i - 1
    BY DEF Passed
  <2>2. i \in Nat \ {0}
    BY <1>0
  <2> QED
    BY <2>1, <2>2, PassedGrows
<1>3. i \in new => LET x == Replay!Extended(events, s)
                   IN  /\ x \in Seq(EventOf) /\ Len(x) = Len(events) + 1
                       /\ \A k \in 1 .. Len(events) : x[k] = events[k]
                       /\ x[Len(x)].ts = s.ts
  <2>1. "requests" \in Replay!LimitKind /\ 0 \in 0 .. Len(events)
    BY <1>1 DEF Replay!LimitKind
  <2> QED
    BY <1>0, <1>1, <2>1, EventAdds
<1>4. next \in Seq(EventOf)
  BY <1>1, <1>3
<1>5. \A k \in 1 .. Len(next) : \A j \in i + 1 .. Len(samples) : next[k].ts <= samples[j].ts
  <2> SUFFICES ASSUME NEW k \in 1 .. Len(next), NEW j \in i + 1 .. Len(samples)
               PROVE  next[k].ts <= samples[j].ts
    OBVIOUS
  <2>1. j \in i .. Len(samples) /\ j \in DOMAIN samples /\ i <= j
    BY <1>0
  <2>2. s.ts <= samples[j].ts
    BY <2>1 DEF Sorted
  <2>3. CASE k \in 1 .. Len(events)
    <3>1. next[k] = events[k]
      BY <1>3, <2>3
    <3> HIDE DEF next
    <3> QED
      BY <1>1, <2>1, <2>3, <3>1
  <2>4. CASE ~ (k \in 1 .. Len(events))
    <3>1. i \in new
      BY <2>4
    <3>2. k = Len(next) /\ next[Len(next)].ts = s.ts
      BY <1>1, <1>3, <2>4, <3>1
    <3> QED
      BY <2>2, <3>2
  <2> QED
    BY <2>3, <2>4
<1>6. ASSUME NEW kind \in Replay!LimitKind, NEW cutoff \in Int
      PROVE  \E f \in Nat :
               /\ Cuts(next, f, cutoff)
               /\ Replay!WindowPrefix(next, f, kind) = SumOf(Amounts(samples, kind), Within(samples, new, cutoff))
  <2> DEFINE amounts == Amounts(samples, kind)
             before == Within(samples, old, cutoff)
             after == Within(samples, new, cutoff)
  <2>1. PICK f \in Nat : Cuts(events, f, cutoff) /\ Replay!WindowPrefix(events, f, kind) = SumOf(amounts, before)
    BY DEF HistoryTells
  <2>2. f \in 0 .. Len(events)
    BY <2>1 DEF Cuts
  <2>3. CASE i \notin new
    <3>1. new = old /\ next = events
      BY <1>2, <2>3
    <3> QED
      BY <2>1, <3>1
  <2>4. CASE i \in new /\ s.ts >= cutoff
    <3>1. after = before \cup {i} /\ i \notin before
      BY <1>2, <2>4 DEF Within
    <3>2. IsFiniteSet(before)
      BY <1>2, FS_Subset DEF Within
    <3>3. \A j \in before \cup {i} : amounts[j] \in Nat
      <4>1. before \subseteq 1 .. Len(samples)
        BY <1>0, <1>2 DEF Within
      <4> HIDE DEF before, amounts
      <4> QED
        BY <1>0, <4>1, SampleFacts DEF amounts
    <3>4. SumOf(amounts, after) = SumOf(amounts, before) + amounts[i]
      <4> HIDE DEF before, amounts, after
      <4> QED
        BY <3>1, <3>2, <3>3, SumAdd
    <3>5. amounts[i] = Replay!Amount(kind, s.call)
      BY <1>0, SampleFacts
    <3>6. /\ Replay!WindowPrefix(next, f, kind) = Replay!WindowPrefix(events, f, kind) + Replay!Amount(kind, s.call)
      BY <1>0, <1>1, <2>2, <2>4, EventAdds
    <3>7. Cuts(next, f, cutoff)
      <4>1. /\ Len(next) = Len(events) + 1 /\ \A k \in 1 .. Len(events) : next[k] = events[k]
            /\ next[Len(next)].ts >= cutoff
        BY <1>3, <2>4
      <4> HIDE DEF next
      <4>2. \A k \in 1 .. f : next[k].ts < cutoff
        BY <1>1, <2>1, <4>1 DEF Cuts
      <4>3. \A k \in f + 1 .. Len(next) : next[k].ts >= cutoff
        BY <1>1, <2>1, <4>1 DEF Cuts
      <4> QED
        BY <1>1, <2>2, <4>1, <4>2, <4>3 DEF Cuts
    <3> HIDE DEF next, after, before, amounts
    <3> QED
      BY <2>1, <3>4, <3>5, <3>6, <3>7 DEF after, amounts
  <2>5. CASE i \in new /\ ~ (s.ts >= cutoff)
    <3>1. s.ts < cutoff
      BY <1>0, <2>5
    <3>2. after = {}
      <4> SUFFICES ASSUME NEW j \in new, samples[j].ts >= cutoff PROVE FALSE
        BY DEF Within
      <4>1. j \in DOMAIN samples /\ j <= i
        BY <1>0, <1>2
      <4>2. samples[j].ts <= s.ts /\ samples[j].ts \in Int
        BY <1>0, <4>1 DEF Sorted
      <4> QED
        BY <1>0, <3>1, <4>2
    <3>3. SumOf(amounts, after) = 0
      BY <3>2, SumEmpty
    <3>4. Replay!WindowPrefix(next, Len(next), kind) = 0
      <4>1. 0 \in 0 .. Len(events)
        BY <1>1
      <4> QED
        BY <1>0, <1>1, <2>5, <4>1, EventAdds
    <3>5. Cuts(next, Len(next), cutoff)
      <4>1. /\ Len(next) = Len(events) + 1 /\ \A k \in 1 .. Len(events) : next[k] = events[k]
            /\ next[Len(next)].ts = s.ts
        BY <1>3, <2>5
      <4>2. \A k \in 1 .. Len(events) : events[k].ts <= s.ts
        BY <1>0, <1>1
      <4> HIDE DEF next
      <4>3. \A k \in 1 .. Len(next) : next[k].ts < cutoff
        <5> SUFFICES ASSUME NEW k \in 1 .. Len(next) PROVE next[k].ts < cutoff
          OBVIOUS
        <5>1. CASE k \in 1 .. Len(events)
          BY <1>0, <1>1, <3>1, <4>1, <4>2, <5>1
        <5>2. CASE k = Len(next)
          BY <3>1, <4>1, <5>2
        <5> QED
          BY <1>1, <4>1, <5>1, <5>2
      <4>4. Len(next) \in 0 .. Len(next) /\ Len(next) + 1 .. Len(next) = {}
        BY <1>1, <4>1
      <4> QED
        BY <4>3, <4>4 DEF Cuts
    <3>6. Len(next) \in Nat
      BY <1>1, <1>3, <2>5
    <3> HIDE DEF next, after, amounts
    <3> QED
      BY <3>3, <3>4, <3>5, <3>6 DEF after, amounts
  <2> QED
    BY <2>3, <2>4, <2>5
<1> HIDE DEF next, new
<1>7. HistoryTells(next, outcomes, samples, r, i)
  BY <1>4, <1>5, <1>6 DEF HistoryTells, new
<1> QED
  BY <1>7 DEF next, new

\* A cursor stays behind the windows to come.
LEMMA CursorGrows ==
  ASSUME NEW samples, ReadSamples(samples), Sorted(samples), NEW i \in DOMAIN samples,
         NEW l, TidyLimit(l), NEW events, events \in Seq(EventOf), NEW first,
         \/ CursorBehind(first, events, samples, l, i - 1)
         \/ Cuts(events, first, Replay!WindowStart(samples[i].ts, l))
  PROVE  /\ CursorBehind(first, events, samples, l, i)
         /\ CursorBehind(first, Replay!Extended(events, samples[i]), samples, l, i)
<1> DEFINE s == samples[i]
           cutoff == Replay!WindowStart(s.ts, l)
           next == Replay!Extended(events, s)
<1>0. /\ Len(samples) \in Nat /\ DOMAIN samples = 1 .. Len(samples) /\ i \in 1 .. Len(samples)
      /\ s.ts \in Int /\ Replay!ValidCall(s.call)
      /\ \A j \in 1 .. Len(samples) : samples[j].ts \in Int
  BY SampleFacts
<1>1. Len(events) \in Nat /\ \A k \in 1 .. Len(events) : events[k].ts \in Int
  <2>1. Len(events) \in Nat /\ \A k \in 1 .. Len(events) : events[k] \in EventOf
    OBVIOUS
  <2> QED
    BY <2>1, EventFacts
<1>2. CursorBehind(first, events, samples, l, i)
  <2>1. CASE CursorBehind(first, events, samples, l, i - 1)
    <3>1. \A j \in i + 1 .. Len(samples) : j \in (i - 1) + 1 .. Len(samples)
      BY <1>0
    <3> QED
      BY <2>1, <3>1 DEF CursorBehind
  <2>2. CASE Cuts(events, first, cutoff)
    <3>1. first \in 0 .. Len(events) /\ \A k \in 1 .. first : events[k].ts < cutoff
      BY <2>2 DEF Cuts
    <3>2. ASSUME NEW j \in i + 1 .. Len(samples)
          PROVE  /\ cutoff \in Int /\ Replay!WindowStart(samples[j].ts, l) \in Int
                 /\ cutoff <= Replay!WindowStart(samples[j].ts, l)
      <4>1. j \in 1 .. Len(samples) /\ i <= j
        BY <1>0
      <4>2. s.ts <= samples[j].ts /\ samples[j].ts \in Int
        BY <1>0, <4>1 DEF Sorted
      <4> QED
        BY <1>0, <4>2, WindowMonotone
    <3> HIDE DEF cutoff
    <3>3. ASSUME NEW k \in 1 .. first, NEW j \in i + 1 .. Len(samples)
          PROVE  events[k].ts < Replay!WindowStart(samples[j].ts, l)
      <4>1. k \in 1 .. Len(events)
        BY <1>1, <3>1
      <4> QED
        BY <1>1, <3>1, <3>2, <4>1
    <3> QED
      BY <3>1, <3>3 DEF CursorBehind
  <2> QED
    BY <2>1, <2>2
<1>3. Len(next) = Len(events) + 1 /\ \A k \in 1 .. Len(events) : next[k] = events[k]
  <2>1. "requests" \in Replay!LimitKind /\ 0 \in 0 .. Len(events)
    BY <1>1 DEF Replay!LimitKind
  <2> QED
    BY <1>0, <1>1, <2>1, EventAdds
<1>4. CursorBehind(first, next, samples, l, i)
  <2> HIDE DEF next
  <2>1. first \in 0 .. Len(events)
    BY <1>2 DEF CursorBehind
  <2>2. first \in 0 .. Len(next) /\ \A k \in 1 .. first : next[k] = events[k]
    BY <1>1, <1>3, <2>1
  <2> QED
    BY <1>2, <2>2 DEF CursorBehind
<1> QED
  BY <1>2, <1>4

\* The calls in flight are pruned only of those no later sample finds.
LEMMA FlyingGrows ==
  ASSUME NEW samples, ReadSamples(samples), Sorted(samples), NEW i \in DOMAIN samples,
         NEW outcomes, NEW r, NEW numbers, FlyingKnown(numbers, outcomes, samples, r, i - 1), NEW next,
         next = (IF Replay!Applies(r, samples[i].call)
                 THEN Replay!Flying(samples, numbers, samples[i].ts) ELSE numbers)
                  \cup (IF i \in Passed(outcomes, samples, r, i) /\ samples[i].end > samples[i].ts
                        THEN {i} ELSE {})
  PROVE  FlyingKnown(next, outcomes, samples, r, i)
<1> DEFINE s == samples[i]
           old == Flew(outcomes, samples, r, i - 1)
           new == Flew(outcomes, samples, r, i)
<1>0. /\ Len(samples) \in Nat /\ DOMAIN samples = 1 .. Len(samples) /\ i \in 1 .. Len(samples)
      /\ i \in Nat \ {0} /\ s.ts \in Int
      /\ \A j \in 1 .. Len(samples) : samples[j].ts \in Int /\ samples[j].end \in Int
  BY SampleFacts
<1>1. new = old \cup (IF i \in Passed(outcomes, samples, r, i) /\ s.end > s.ts THEN {i} ELSE {})
  BY <1>0, PassedGrows DEF Flew
<1>2. /\ numbers \subseteq old
      /\ \A j \in i + 1 .. Len(samples) : Replay!Flying(samples, old, samples[j].ts) \subseteq numbers
  <2>1. \A j \in i + 1 .. Len(samples) : j \in (i - 1) + 1 .. Len(samples)
    BY <1>0
  <2> QED
    BY <2>1 DEF FlyingKnown
<1>3. next \subseteq new
  BY <1>1, <1>2 DEF Replay!Flying
<1>4. ASSUME NEW j \in i + 1 .. Len(samples), NEW n \in Replay!Flying(samples, new, samples[j].ts)
      PROVE  n \in next
  <2>1. n \in new /\ samples[n].end > samples[j].ts
    BY DEF Replay!Flying
  <2>2. CASE n \in old
    <3>1. n \in numbers
      BY <1>2, <2>1, <2>2 DEF Replay!Flying
    <3>2. n \in 1 .. Len(samples)
      BY <1>0, <2>2 DEF Flew, Passed
    <3>3. s.ts <= samples[j].ts /\ samples[j].ts \in Int
      BY <1>0 DEF Sorted
    <3>4. samples[n].end > s.ts
      BY <1>0, <2>1, <3>2, <3>3
    <3> QED
      BY <3>1, <3>4 DEF Replay!Flying
  <2>3. CASE n \notin old
    BY <1>1, <2>1, <2>3
  <2> QED
    BY <2>2, <2>3
<1> HIDE DEF new
<1> QED
  BY <1>3, <1>4 DEF FlyingKnown, new

\* A sample that is replayed is remembered.
LEMMA RememberedGrows ==
  ASSUME NEW d, Tidy(d), NEW samples, ReadSamples(samples), Sorted(samples), NEW outcomes,
         NEW i \in DOMAIN samples, NEW m, Remembered(m, d, outcomes, samples, i - 1),
         outcomes[i] = Replay!Verdict(Replay!Broken(d, m, samples, i))
  PROVE  Remembered(Replay!Replayed(d, m, samples, i), d, outcomes, samples, i)
<1> DEFINE s == samples[i]
           rules == {r \in d : Replay!Applies(r, s.call)}
           passed == IF Replay!OutcomeOf(Replay!Broken(d, m, samples, i)) = "block" THEN {}
                     ELSE {r.id : r \in rules}
           next == Replay!Replayed(d, m, samples, i)
<1>0. /\ Len(samples) \in Nat /\ DOMAIN samples = 1 .. Len(samples) /\ i \in 1 .. Len(samples) /\ i \in 1 .. i
  BY SampleFacts
<1>1. ASSUME NEW r \in d PROVE r.id \in passed <=> i \in Passed(outcomes, samples, r, i)
  <2>1. outcomes[i].outcome = Replay!OutcomeOf(Replay!Broken(d, m, samples, i))
    BY DEF Replay!Verdict
  <2>2. r.id \in {q.id : q \in rules} <=> r \in rules
    BY DEF Tidy
  <2> QED
    BY <1>0, <2>1, <2>2 DEF Passed
<1>2. /\ next.cursor = Replay!Moved(d, m, s)
      /\ next.history = [x \in DOMAIN m.history |->
                           IF x \in passed THEN Replay!Extended(m.history[x], s) ELSE m.history[x]]
      /\ next.flying = [x \in DOMAIN m.flying |->
                         (IF \E r \in rules : r.id = x
                          THEN Replay!Flying(samples, m.flying[x], s.ts) ELSE m.flying[x])
                           \cup (IF x \in passed /\ s.end > s.ts THEN {i} ELSE {})]
  BY DEF Replay!Replayed
<1>3. /\ DOMAIN m.history = {r.id : r \in d} /\ DOMAIN m.flying = {r.id : r \in d}
      /\ DOMAIN m.cursor = CursorKeys(d)
  BY DEF Remembered
<1>4. DOMAIN next.cursor = CursorKeys(d)
  BY <1>2, <1>3 DEF Replay!Moved
<1> HIDE DEF next, passed
<1>5. ASSUME NEW r \in d
      PROVE  /\ HistoryTells(next.history[r.id], outcomes, samples, r, i)
             /\ FlyingKnown(next.flying[r.id], outcomes, samples, r, i)
             /\ \A l \in r.limits :
                  CursorBehind(next.cursor[<<r.id, l.kind, l.id>>], next.history[r.id], samples, l, i)
  <2>1. /\ HistoryTells(m.history[r.id], outcomes, samples, r, i - 1)
        /\ FlyingKnown(m.flying[r.id], outcomes, samples, r, i - 1)
        /\ \A l \in r.limits :
             CursorBehind(m.cursor[<<r.id, l.kind, l.id>>], m.history[r.id], samples, l, i - 1)
    BY DEF Remembered
  <2>2. next.history[r.id] = IF i \in Passed(outcomes, samples, r, i)
                             THEN Replay!Extended(m.history[r.id], s) ELSE m.history[r.id]
    BY <1>1, <1>2, <1>3
  <2>3. HistoryTells(next.history[r.id], outcomes, samples, r, i)
    BY <2>1, <2>2, HistoryGrows
  <2>4. next.flying[r.id] = (IF Replay!Applies(r, s.call)
                             THEN Replay!Flying(samples, m.flying[r.id], s.ts) ELSE m.flying[r.id])
                              \cup (IF i \in Passed(outcomes, samples, r, i) /\ s.end > s.ts THEN {i} ELSE {})
    <3>1. (\E q \in rules : q.id = r.id) <=> Replay!Applies(r, s.call)
      BY DEF Tidy
    <3>2. r.id \in DOMAIN m.flying
      BY <1>3
    <3>3. next.flying[r.id] = (IF \E q \in rules : q.id = r.id
                               THEN Replay!Flying(samples, m.flying[r.id], s.ts) ELSE m.flying[r.id])
                                \cup (IF r.id \in passed /\ s.end > s.ts THEN {i} ELSE {})
      BY <1>2, <3>2
    <3> QED
      BY <1>1, <3>1, <3>3
  <2>5. FlyingKnown(next.flying[r.id], outcomes, samples, r, i)
    BY <2>1, <2>4, FlyingGrows
  <2>6. ASSUME NEW l \in r.limits
        PROVE  CursorBehind(next.cursor[<<r.id, l.kind, l.id>>], next.history[r.id], samples, l, i)
    <3> DEFINE x == <<r.id, l.kind, l.id>>
               events == m.history[r.id]
    <3>1. TidyLimit(l) /\ events \in Seq(EventOf)
      BY <2>1 DEF Tidy, HistoryTells
    <3>2. \/ CursorBehind(next.cursor[x], events, samples, l, i - 1)
          \/ Cuts(events, next.cursor[x], Replay!WindowStart(s.ts, l))
      <4>1. CASE Replay!Applies(r, s.call) /\ Replay!Requested(l.kind, s.call) # -1
        <5>1. CursorAtCut(d, m, outcomes, samples, i, r, l)
          BY <4>1, UsedAsSummed
        <5> QED
          BY <1>2, <5>1 DEF CursorAtCut
      <4>2. CASE ~ (Replay!Applies(r, s.call) /\ Replay!Requested(l.kind, s.call) # -1)
        <5>1. Replay!Moved(d, m, s)[x]
                = IF Replay!Applies(r, s.call) /\ Replay!Requested(l.kind, s.call) # -1
                  THEN Replay!Advanced(m.history[r.id], m.cursor[x], Replay!WindowStart(s.ts, l))
                  ELSE m.cursor[x]
          BY <1>3, CursorOfLimit
        <5>2. next.cursor[x] = m.cursor[x]
          BY <1>2, <4>2, <5>1
        <5> QED
          BY <2>1, <5>2
      <4> QED
        BY <4>1, <4>2
    <3> HIDE DEF x, events
    <3>3. /\ CursorBehind(next.cursor[x], events, samples, l, i)
          /\ CursorBehind(next.cursor[x], Replay!Extended(events, samples[i]), samples, l, i)
      BY <3>1, <3>2, CursorGrows
    <3> QED
      BY <2>2, <3>3 DEF x, events
  <2> QED
    BY <2>3, <2>5, <2>6
<1>6. DOMAIN next.history = {r.id : r \in d} /\ DOMAIN next.flying = {r.id : r \in d}
  BY <1>2, <1>3
<1> QED
  BY <1>4, <1>5, <1>6 DEF Remembered, next

\* Before the first sample there is nothing to remember.
LEMMA FreshRemembers ==
  ASSUME NEW d, Tidy(d), NEW outcomes, NEW samples
  PROVE  Remembered(Replay!Fresh(d), d, outcomes, samples, 0)
<1> DEFINE m == Replay!Fresh(d)
<1>1. /\ m.history = [i \in {r.id : r \in d} |-> <<>>] /\ m.flying = [i \in {r.id : r \in d} |-> {}]
      /\ m.cursor = [x \in CursorKeys(d) |-> 0]
  BY DEF Replay!Fresh, CursorKeys
<1> HIDE DEF m
<1>2. ASSUME NEW r \in d
      PROVE  /\ HistoryTells(m.history[r.id], outcomes, samples, r, 0)
             /\ FlyingKnown(m.flying[r.id], outcomes, samples, r, 0)
             /\ \A l \in r.limits :
                  CursorBehind(m.cursor[<<r.id, l.kind, l.id>>], m.history[r.id], samples, l, 0)
  <2>1. m.history[r.id] = <<>> /\ m.flying[r.id] = {}
    BY <1>1
  <2>2. Passed(outcomes, samples, r, 0) = {} /\ Flew(outcomes, samples, r, 0) = {}
    BY DEF Passed, Flew
  <2>3. ASSUME NEW kind, NEW cutoff
        PROVE  /\ Cuts(<<>>, 0, cutoff)
               /\ Replay!WindowPrefix(<<>>, 0, kind)
                    = SumOf(Amounts(samples, kind), Within(samples, Passed(outcomes, samples, r, 0), cutoff))
    <3>1. Within(samples, Passed(outcomes, samples, r, 0), cutoff) = {}
      BY <2>2 DEF Within
    <3>2. Replay!WindowPrefix(<<>>, 0, kind) = 0
      BY DEF Replay!WindowPrefix
    <3>3. Len(<<>>) = 0 /\ 1 .. 0 = {} /\ 0 + 1 .. 0 = {} /\ 0 \in 0 .. 0
      OBVIOUS
    <3>4. Cuts(<<>>, 0, cutoff)
      BY <3>3 DEF Cuts
    <3>5. SumOf(Amounts(samples, kind), {}) = 0
      BY SumEmpty
    <3> QED
      BY <3>1, <3>2, <3>4, <3>5
  <2>4. HistoryTells(m.history[r.id], outcomes, samples, r, 0)
    <3>1. <<>> \in Seq(EventOf) /\ Len(<<>>) = 0
      OBVIOUS
    <3> QED
      BY <2>1, <2>3, <3>1 DEF HistoryTells
  <2>5. FlyingKnown(m.flying[r.id], outcomes, samples, r, 0)
    BY <2>1, <2>2 DEF FlyingKnown, Replay!Flying
  <2>6. ASSUME NEW l \in r.limits
        PROVE  CursorBehind(m.cursor[<<r.id, l.kind, l.id>>], m.history[r.id], samples, l, 0)
    <3>1. m.cursor[<<r.id, l.kind, l.id>>] = 0
      BY <1>1 DEF CursorKeys
    <3> QED
      BY <2>1, <3>1 DEF CursorBehind
  <2> QED
    BY <2>4, <2>5, <2>6
<1>3. DOMAIN m.history = {r.id : r \in d} /\ DOMAIN m.flying = {r.id : r \in d} /\ DOMAIN m.cursor = CursorKeys(d)
  BY <1>1
<1> QED
  BY <1>2, <1>3 DEF Remembered, m

\* The replay says of every sample, read in order, what the reference says.
LEMMA SimulateExpects ==
  ASSUME NEW d, Tidy(d), \A r \in d : r.concurrency \in Nat,
         NEW samples, ReadSamples(samples), Sorted(samples), NEW i \in DOMAIN samples
  PROVE  Replay!Simulate(d, samples)[i]
           = Replay!Expected(d, samples, Replay!Simulate(d, samples), i)
<1> DEFINE outcomes == Replay!Simulate(d, samples)
           memory == Replay!Memory(d, samples)
<1>0. Len(samples) \in Nat /\ DOMAIN samples = 1 .. Len(samples)
  BY SampleFacts
<1>1. \A j \in DOMAIN samples : outcomes[j] = Replay!Verdict(Replay!Broken(d, memory[j - 1], samples, j))
  BY DEF Replay!Simulate
<1>2. \A n \in 0 .. Len(samples) :
        memory[n] = IF n = 0 THEN Replay!Fresh(d) ELSE Replay!Replayed(d, memory[n - 1], samples, n)
  BY <1>0, MemoryRuns
<1> HIDE DEF memory, outcomes
<1> DEFINE R(n) == n <= Len(samples) => Remembered(memory[n], d, outcomes, samples, n)
           U == {n \in Nat : R(n)}
<1>3. 0 \in U
  BY <1>0, <1>2, FreshRemembers
<1>4. ASSUME NEW n \in Nat, n \in U PROVE n + 1 \in U
  <2> SUFFICES ASSUME n + 1 <= Len(samples) PROVE Remembered(memory[n + 1], d, outcomes, samples, n + 1)
    OBVIOUS
  <2> DEFINE j == n + 1
  <2>1. j \in DOMAIN samples /\ j - 1 = n /\ j \in 0 .. Len(samples) /\ j # 0
    BY <1>0
  <2>2. Remembered(memory[j - 1], d, outcomes, samples, j - 1)
    BY <1>0, <1>4, <2>1
  <2>3. memory[j] = Replay!Replayed(d, memory[j - 1], samples, j)
    BY <1>2, <2>1
  <2> HIDE DEF j
  <2>4. Remembered(Replay!Replayed(d, memory[j - 1], samples, j), d, outcomes, samples, j)
    BY <1>1, <2>1, <2>2, RememberedGrows
  <2> QED
    BY <2>3, <2>4 DEF j
<1>5. Remembered(memory[i - 1], d, outcomes, samples, i - 1)
  <2>1. i - 1 \in Nat /\ i - 1 <= Len(samples)
    BY <1>0
  <2>2. i - 1 \in U
    <3> HIDE DEF U
    <3> QED
      BY <1>3, <1>4, <2>1, NatStep
  <2> QED
    BY <2>1, <2>2
<1>6. Replay!Broken(d, memory[i - 1], samples, i) = {r \in d : BrokenBy(r, samples, outcomes, i)}
  BY <1>5, BrokenAsExpected
<1>7. Replay!Expected(d, samples, outcomes, i)
        = Replay!Verdict({r \in d : BrokenBy(r, samples, outcomes, i)})
  BY ExpectedIsBroken
<1> QED
  BY <1>1, <1>6, <1>7 DEF outcomes

-----------------------------------------------------------------------------
(* The order of the replay.                                                *)

\* A row precedes another one or follows it, and precedes what that precedes.
LEMMA PrecedesTotal ==
  ASSUME NEW samples, ReadSamples(samples)
  PROVE  /\ \A i, j \in DOMAIN samples : i # j => \/ Replay!Precedes(samples, i, j)
                                                  \/ Replay!Precedes(samples, j, i)
         /\ \A i \in DOMAIN samples : ~ Replay!Precedes(samples, i, i)
         /\ \A i, j, k \in DOMAIN samples :
              Replay!Precedes(samples, i, j) /\ Replay!Precedes(samples, j, k)
                => Replay!Precedes(samples, i, k)
<1>1. \A i \in DOMAIN samples : i \in Int /\ samples[i].ts \in Int
  BY SampleFacts
<1> QED
  BY <1>1 DEF Replay!Precedes

\* Places are those of a permutation.
LEMMA Placed ==
  ASSUME NEW samples, ReadSamples(samples)
  PROVE  /\ \A j \in DOMAIN samples : Replay!Place(samples, j) \in DOMAIN samples
         /\ \A i, j \in DOMAIN samples :
              Replay!Precedes(samples, i, j) => Replay!Place(samples, i) < Replay!Place(samples, j)
         /\ \A i, j \in DOMAIN samples :
              Replay!Place(samples, i) = Replay!Place(samples, j) => i = j
         /\ \A n \in DOMAIN samples : \E j \in DOMAIN samples : Replay!Place(samples, j) = n
<1> DEFINE D == DOMAIN samples
           Before(j) == {i \in D : Replay!Precedes(samples, i, j)}
           place == [j \in D |-> Replay!Place(samples, j)]
<1>1. Len(samples) \in Nat /\ D = 1 .. Len(samples)
  BY SampleFacts
<1>2. IsFiniteSet(D) /\ Cardinality(D) = Len(samples)
  <2>1. 1 \in Int /\ Len(samples) \in Int
    BY <1>1
  <2>2. /\ IsFiniteSet(1 .. Len(samples))
        /\ Cardinality(1 .. Len(samples)) = IF 1 > Len(samples) THEN 0 ELSE Len(samples) - 1 + 1
    BY <2>1, FS_Interval
  <2> QED
    BY <1>1, <2>2
<1>3. \A j \in D : place[j] = 1 + Cardinality(Before(j))
  BY ReplayNotions DEF Replay!Place
<1>4. ASSUME NEW j \in D
      PROVE  /\ IsFiniteSet(Before(j)) /\ Cardinality(Before(j)) \in Nat
             /\ Cardinality(Before(j)) + 1 <= Len(samples)
  <2>1. Before(j) \subseteq D \ {j}
    BY PrecedesTotal
  <2>2. IsFiniteSet(D \ {j}) /\ Cardinality(D \ {j}) = Len(samples) - 1
    <3> HIDE DEF D
    <3> QED
      BY <1>2, FS_RemoveElement
  <2>3. /\ IsFiniteSet(Before(j)) /\ Cardinality(Before(j)) \in Nat
        /\ Cardinality(Before(j)) <= Cardinality(D \ {j})
    <3> HIDE DEF Before, D
    <3> QED
      BY <2>1, <2>2, FS_Subset, FS_CardinalityType
  <2> HIDE DEF Before, D
  <2> QED
    BY <1>1, <2>2, <2>3
<1>5. \A j \in D : place[j] \in D
  <2> HIDE DEF Before, place, D
  <2> QED
    BY <1>1, <1>3, <1>4
<1>6. ASSUME NEW i \in D, NEW j \in D, Replay!Precedes(samples, i, j)
      PROVE  place[i] < place[j]
  <2>1. Before(i) \subseteq Before(j) /\ i \in Before(j) /\ i \notin Before(i)
    BY <1>6, PrecedesTotal
  <2>2. Cardinality(Before(i)) < Cardinality(Before(j))
    <3>1. Before(i) # Before(j)
      BY <2>1
    <3>2. /\ Cardinality(Before(i)) <= Cardinality(Before(j))
          /\ Cardinality(Before(i)) = Cardinality(Before(j)) => Before(i) = Before(j)
      <4>1. IsFiniteSet(Before(j))
        BY <1>4
      <4> HIDE DEF Before
      <4> QED
        BY <2>1, <4>1, FS_Subset
    <3> HIDE DEF Before
    <3> QED
      BY <1>4, <3>1, <3>2
  <2> HIDE DEF Before, place, D
  <2> QED
    BY <1>3, <1>4, <2>2
<1>7. ASSUME NEW i \in D, NEW j \in D, place[i] = place[j] PROVE i = j
  <2> SUFFICES ASSUME i # j PROVE FALSE
    OBVIOUS
  <2>1. Replay!Precedes(samples, i, j) \/ Replay!Precedes(samples, j, i)
    BY PrecedesTotal
  <2>2. place[i] < place[j] \/ place[j] < place[i]
    BY <1>6, <2>1
  <2>3. place[i] \in Int /\ place[j] \in Int
    BY <1>1, <1>5
  <2> HIDE DEF place, D
  <2> QED
    BY <1>7, <2>2, <2>3
<1>8. ASSUME NEW n \in D PROVE \E j \in D : place[j] = n
  <2> SUFFICES ASSUME \A j \in D : place[j] # n PROVE FALSE
    OBVIOUS
  <2>1. place \in [D -> D \ {n}]
    <3>1. place = [j \in D |-> place[j]]
      OBVIOUS
    <3> HIDE DEF place, D
    <3> QED
      BY <1>5, <3>1
  <2>2. IsFiniteSet(D \ {n}) /\ Cardinality(D \ {n}) < Cardinality(D)
    <3>1. IsFiniteSet(D \ {n}) /\ Cardinality(D \ {n}) = Cardinality(D) - 1
      <4> HIDE DEF D
      <4> QED
        BY <1>2, FS_RemoveElement
    <3> HIDE DEF D
    <3> QED
      BY <1>1, <1>2, <3>1
  <2>3. \E i, j \in D : i # j /\ place[i] = place[j]
    <3> HIDE DEF place, D
    <3> QED
      BY <1>2, <2>1, <2>2, FS_PigeonHole
  <2> QED
    BY <1>7, <2>3
<1> QED
  BY <1>5, <1>6, <1>7, <1>8

\* The replay reads the rows in order, each one once.
Reading(p, samples) ==
  /\ p \in Bijection(DOMAIN samples, DOMAIN samples)
  /\ \A n \in DOMAIN samples : Replay!InOrder(samples)[n] = samples[p[n]]

LEMMA ReadInOrder ==
  ASSUME NEW samples, ReadSamples(samples)
  PROVE  /\ \E p : Reading(p, samples)
         /\ DOMAIN Replay!InOrder(samples) = DOMAIN samples
         /\ ReadSamples(Replay!InOrder(samples)) /\ Sorted(Replay!InOrder(samples))
<1> DEFINE D == DOMAIN samples
           p == [n \in D |-> CHOOSE j \in D : Replay!Place(samples, j) = n]
           ordered == Replay!InOrder(samples)
<1>1. Len(samples) \in Nat /\ D = 1 .. Len(samples)
  BY SampleFacts
<1>2. ASSUME NEW n \in D PROVE p[n] \in D /\ Replay!Place(samples, p[n]) = n
  BY Placed
<1>3. ordered = [n \in D |-> samples[p[n]]]
  BY DEF Replay!InOrder
<1>4. p = [n \in D |-> p[n]]
  OBVIOUS
<1> HIDE DEF p
<1>5. p \in Bijection(D, D)
  <2>1. p \in [D -> D]
    BY <1>2, <1>4
  <2>2. \A m, n \in D : p[m] = p[n] => m = n
    BY <1>2
  <2>3. \A j \in D : \E n \in D : p[n] = j
    <3> SUFFICES ASSUME NEW j \in D PROVE \E n \in D : p[n] = j
      OBVIOUS
    <3>1. Replay!Place(samples, j) \in D
      BY Placed
    <3>2. p[Replay!Place(samples, j)] = j
      BY <1>2, <3>1, Placed
    <3> QED
      BY <3>1, <3>2
  <2> HIDE DEF D
  <2> QED
    BY <2>1, <2>2, <2>3 DEF Bijection, Injection, Surjection, IsInjective
<1>6. Reading(p, samples)
  BY <1>3, <1>5 DEF Reading
<1>7. ReadSamples(ordered)
  <2>1. DOMAIN ordered = D /\ \A n \in D : ordered[n] = samples[p[n]]
    BY <1>3
  <2>2. ordered \in [1 .. Len(samples) -> {ordered[n] : n \in D}]
    BY <1>1, <1>3
  <2>3. ordered \in Seq({ordered[n] : n \in D})
    <3> DEFINE V == {ordered[n] : n \in D}
    <3> HIDE DEF V, ordered
    <3> QED
      BY <1>1, <2>2 DEF V
  <2> HIDE DEF ordered
  <2>4. \A n \in D : /\ ordered[n].ts \in Int /\ ordered[n].end \in Int
                     /\ Replay!ValidCall(ordered[n].call)
    BY <1>2, <2>1 DEF ReadSamples
  <2> QED
    BY <2>1, <2>3, <2>4 DEF ReadSamples
<1>8. Sorted(ordered)
  <2> SUFFICES ASSUME NEW i \in D, NEW j \in D, i <= j PROVE ordered[i].ts <= ordered[j].ts
    BY <1>3 DEF Sorted
  <2>1. ordered[i] = samples[p[i]] /\ ordered[j] = samples[p[j]] /\ p[i] \in D /\ p[j] \in D
    BY <1>2, <1>3
  <2>2. samples[p[i]].ts \in Int /\ samples[p[j]].ts \in Int
    BY <2>1 DEF ReadSamples
  <2> SUFFICES ASSUME samples[p[j]].ts < samples[p[i]].ts PROVE FALSE
    BY <2>1, <2>2
  <2>3. Replay!Precedes(samples, p[j], p[i])
    BY DEF Replay!Precedes
  <2>4. Replay!Place(samples, p[j]) < Replay!Place(samples, p[i])
    BY <2>1, <2>3, Placed
  <2>5. j < i
    BY <1>2, <2>4
  <2> QED
    BY <1>1, <2>5
<1> QED
  BY <1>3, <1>6, <1>7, <1>8

-----------------------------------------------------------------------------
(* The breakdown.                                                          *)

\* Its recursion has a solution.
LEMMA BreakdownsRun ==
  ASSUME NEW outcomes, NEW samples, Len(samples) \in Nat
  PROVE  \A n \in 0 .. Len(samples) :
           Replay!Breakdowns(outcomes, samples)[n] =
             IF n = 0 THEN [calls |-> [v \in {} |-> 0], limited |-> FALSE]
             ELSE IF outcomes[n].outcome = "allow" \/ samples[n].call.model = Replay!NoModel
                  THEN Replay!Breakdowns(outcomes, samples)[n - 1]
                  ELSE Replay!Listed(Replay!Breakdowns(outcomes, samples)[n - 1], samples[n].call.model)
<1> DEFINE Next1(b, n) == IF outcomes[n].outcome = "allow" \/ samples[n].call.model = Replay!NoModel
                          THEN b ELSE Replay!Listed(b, samples[n].call.model)
           First == [calls |-> [v \in {} |-> 0], limited |-> FALSE]
           Runs(n, f) == f = [k \in 0 .. n |-> IF k = 0 THEN First ELSE Next1(f[k - 1], k)]
           T == {n \in Nat : \E f : Runs(n, f)}
<1>1. 0 \in T
  <2> DEFINE f == [k \in 0 .. 0 |-> First]
  <2> HIDE DEF First, Next1
  <2>1. Runs(0, f)
    OBVIOUS
  <2> QED
    BY <2>1
<1>2. ASSUME NEW n \in Nat, n \in T PROVE n + 1 \in T
  <2> HIDE DEF First, Next1
  <2>1. PICK f : Runs(n, f)
    BY <1>2
  <2> DEFINE next == Next1(f[n], n + 1)
             g == [k \in 0 .. n + 1 |-> IF k = n + 1 THEN next ELSE f[k]]
  <2>2. \A k \in 0 .. n : f[k] = IF k = 0 THEN First ELSE Next1(f[k - 1], k)
    BY <2>1
  <2>3. ASSUME NEW k \in 0 .. n + 1
        PROVE  g[k] = IF k = 0 THEN First ELSE Next1(g[k - 1], k)
    <3>1. CASE k = n + 1
      <4>1. g[k] = next /\ g[k - 1] = f[n] /\ k # 0
        BY <3>1
      <4> QED
        BY <3>1, <4>1
    <3>2. CASE k # n + 1
      <4>1. k \in 0 .. n /\ g[k] = f[k]
        BY <3>2
      <4>2. k # 0 => k - 1 \in 0 .. n /\ g[k - 1] = f[k - 1]
        BY <4>1
      <4> HIDE DEF g
      <4> QED
        BY <2>2, <4>1, <4>2
    <3> QED
      BY <3>1, <3>2
  <2>4. g = [k \in 0 .. n + 1 |-> g[k]]
    OBVIOUS
  <2>5. Runs(n + 1, g)
    <3> HIDE DEF g
    <3> QED
      BY <2>3, <2>4
  <2> HIDE DEF g
  <2> QED
    BY <2>5
<1>3. Len(samples) \in T
  <2> HIDE DEF T
  <2> QED
    BY <1>1, <1>2, NatStep
<1>4. PICK f : Runs(Len(samples), f)
  BY <1>3
<1>5. Runs(Len(samples), Replay!Breakdowns(outcomes, samples))
  <2>1. Replay!Breakdowns(outcomes, samples) = CHOOSE h : Runs(Len(samples), h)
    BY DEF Replay!Breakdowns
  <2> HIDE DEF Runs
  <2> QED
    BY <1>4, <2>1
<1> QED
  BY <1>5

Hits(outcomes, samples, n, v) ==
  {i \in 1 .. n : outcomes[i].outcome # "allow" /\ samples[i].call.model = v}

\* What the breakdown says after n samples: what it lists it counts, what it
\* leaves out it says to be left out.
Listing(b, outcomes, samples, n) ==
  /\ b = [calls |-> b.calls, limited |-> b.limited]
  /\ b.calls = [v \in DOMAIN b.calls |-> b.calls[v]] /\ b.limited \in BOOLEAN
  /\ \A v \in DOMAIN b.calls :
       /\ v # Replay!NoModel /\ Hits(outcomes, samples, n, v) # {}
       /\ b.calls[v] = Cardinality(Hits(outcomes, samples, n, v))
  /\ b.limited => Cardinality(DOMAIN b.calls) >= MaxBreakdown
  /\ b.limited <=> \E v : /\ v # Replay!NoModel /\ Hits(outcomes, samples, n, v) # {}
                          /\ v \notin DOMAIN b.calls

LEMMA ListingGrows ==
  ASSUME NEW outcomes, NEW samples, NEW n \in Nat \ {0}, NEW b, Listing(b, outcomes, samples, n - 1),
         NEW next,
         next = IF outcomes[n].outcome = "allow" \/ samples[n].call.model = Replay!NoModel
                THEN b ELSE Replay!Listed(b, samples[n].call.model)
  PROVE  Listing(next, outcomes, samples, n)
<1> DEFINE model == samples[n].call.model
           Old(v) == Hits(outcomes, samples, n - 1, v)
           New(v) == Hits(outcomes, samples, n, v)
<1>1. 1 .. n = (1 .. n - 1) \cup {n} /\ n \notin 1 .. n - 1
  OBVIOUS
<1>2. \A v : New(v) = Old(v) \cup (IF outcomes[n].outcome # "allow" /\ model = v THEN {n} ELSE {})
  BY <1>1 DEF Hits
<1>3. \A v : n \notin Old(v) /\ IsFiniteSet(Old(v)) /\ Cardinality(Old(v)) \in Nat
  <2>1. IsFiniteSet(1 .. n - 1)
    BY FS_Interval
  <2>2. \A v : Old(v) \subseteq 1 .. n - 1
    BY DEF Hits
  <2> HIDE DEF Old
  <2> QED
    BY <1>1, <2>1, <2>2, FS_Subset, FS_CardinalityType
<1>4. \A v : IsFiniteSet(Old(v)) /\ n \notin Old(v) => Cardinality(Old(v) \cup {n}) = Cardinality(Old(v)) + 1
  <2> HIDE DEF Old
  <2> QED
    BY FS_AddElement
<1>5. CASE outcomes[n].outcome = "allow" \/ model = Replay!NoModel
  <2>1. next = b
    BY <1>5
  <2>2. \A v : v # Replay!NoModel => New(v) = Old(v)
    BY <1>2, <1>5
  <2> HIDE DEF Old, New
  <2>3. \A v : v # Replay!NoModel => Hits(outcomes, samples, n, v) = Hits(outcomes, samples, n - 1, v)
    BY <2>2 DEF Old, New
  <2> QED
    BY <2>1, <2>3 DEF Listing
<1>6. CASE outcomes[n].outcome # "allow" /\ model # Replay!NoModel
  <2>1. next = Replay!Listed(b, model)
    BY <1>6
  <2>2. \A v : v # model => New(v) = Old(v)
    BY <1>2
  <2>3. New(model) = Old(model) \cup {n} /\ Cardinality(New(model)) = Cardinality(Old(model)) + 1
    BY <1>2, <1>3, <1>4, <1>6
  <2>4. /\ b = [calls |-> b.calls, limited |-> b.limited]
        /\ b.calls = [v \in DOMAIN b.calls |-> b.calls[v]] /\ b.limited \in BOOLEAN
        /\ \A v \in DOMAIN b.calls : v # Replay!NoModel /\ Old(v) # {} /\ b.calls[v] = Cardinality(Old(v))
        /\ b.limited => Cardinality(DOMAIN b.calls) >= MaxBreakdown
        /\ b.limited <=> \E v : v # Replay!NoModel /\ Old(v) # {} /\ v \notin DOMAIN b.calls
    BY DEF Listing
  <2>5. Listing(next, outcomes, samples, n)
          <=> /\ next = [calls |-> next.calls, limited |-> next.limited]
              /\ next.calls = [v \in DOMAIN next.calls |-> next.calls[v]] /\ next.limited \in BOOLEAN
              /\ \A v \in DOMAIN next.calls :
                   v # Replay!NoModel /\ New(v) # {} /\ next.calls[v] = Cardinality(New(v))
              /\ next.limited => Cardinality(DOMAIN next.calls) >= MaxBreakdown
              /\ next.limited <=> \E v : v # Replay!NoModel /\ New(v) # {} /\ v \notin DOMAIN next.calls
    BY DEF Listing
  <2>6. New(model) # {}
    BY <2>3
  <2> DEFINE calls == b.calls
  <2> HIDE DEF Old, New, model
  <2>7. CASE model \in DOMAIN b.calls
    <3>1. next = [b EXCEPT !.calls[model] = @ + 1]
      BY <2>1, <2>7 DEF Replay!Listed
    <3>2. /\ next = [calls |-> [b.calls EXCEPT ![model] = b.calls[model] + 1], limited |-> b.limited]
      BY <2>4, <3>1
    <3>3. /\ next.limited = b.limited /\ DOMAIN next.calls = DOMAIN b.calls
          /\ next.calls = [v \in DOMAIN b.calls |-> next.calls[v]]
          /\ next = [calls |-> next.calls, limited |-> next.limited]
          /\ \A v \in DOMAIN b.calls : next.calls[v] = IF v = model THEN b.calls[model] + 1 ELSE b.calls[v]
      BY <2>7, <3>2
    <3>4. \A v \in DOMAIN b.calls : v # Replay!NoModel /\ New(v) # {} /\ next.calls[v] = Cardinality(New(v))
      BY <2>2, <2>3, <2>4, <2>6, <2>7, <3>3
    <3>5. (\E v : v # Replay!NoModel /\ New(v) # {} /\ v \notin DOMAIN b.calls)
            <=> (\E v : v # Replay!NoModel /\ Old(v) # {} /\ v \notin DOMAIN b.calls)
      BY <2>2, <2>7
    <3> QED
      BY <2>4, <2>5, <3>3, <3>4, <3>5
  <2>8. CASE model \notin DOMAIN b.calls /\ Cardinality(DOMAIN b.calls) >= MaxBreakdown
    <3>1. next = [b EXCEPT !.limited = TRUE]
      BY <2>1, <2>8, ReplayNotions DEF Replay!Listed
    <3>2. next.limited = TRUE /\ next.calls = b.calls /\ next = [calls |-> next.calls, limited |-> next.limited]
      BY <2>4, <3>1
    <3>3. \A v \in DOMAIN b.calls : New(v) = Old(v)
      BY <2>2, <2>8
    <3> QED
      BY <1>6, <2>4, <2>5, <2>6, <2>8, <3>2, <3>3 DEF model
  <2>9. CASE model \notin DOMAIN b.calls /\ ~ (Cardinality(DOMAIN b.calls) >= MaxBreakdown)
    <3>1. next = [b EXCEPT !.calls = [v \in DOMAIN b.calls \cup {model} |-> IF v = model THEN 1 ELSE b.calls[v]]]
      BY <2>1, <2>9, ReplayNotions DEF Replay!Listed
    <3>2. /\ next.limited = b.limited /\ next = [calls |-> next.calls, limited |-> next.limited]
          /\ next.calls = [v \in DOMAIN b.calls \cup {model} |-> IF v = model THEN 1 ELSE b.calls[v]]
      BY <2>4, <3>1
    <3>3. /\ DOMAIN next.calls = DOMAIN b.calls \cup {model}
          /\ next.calls = [v \in DOMAIN next.calls |-> next.calls[v]]
          /\ \A v \in DOMAIN b.calls : next.calls[v] = b.calls[v]
          /\ next.calls[model] = 1
      BY <2>9, <3>2
    <3>4. b.limited = FALSE
      BY <2>4, <2>9
    <3>5. Old(model) = {} /\ Cardinality(New(model)) = 1
      <4>1. Old(model) = {}
        BY <1>6, <2>4, <2>9, <3>4 DEF model
      <4>2. Cardinality({}) = 0
        BY FS_EmptySet
      <4> QED
        BY <2>3, <4>1, <4>2
    <3>6. \A v \in DOMAIN b.calls : New(v) = Old(v)
      BY <2>2, <2>9
    <3>7. \A v : v # Replay!NoModel /\ New(v) # {} => v \in DOMAIN next.calls
      BY <2>2, <2>4, <3>3, <3>4
    <3>8. \A v \in DOMAIN next.calls : v # Replay!NoModel /\ New(v) # {} /\ next.calls[v] = Cardinality(New(v))
      BY <1>6, <2>4, <2>6, <3>3, <3>5, <3>6 DEF model
    <3>9. next.limited = FALSE
      BY <3>2, <3>4
    <3> QED
      BY <2>5, <3>2, <3>3, <3>7, <3>8, <3>9
  <2> QED
    BY <2>7, <2>8, <2>9
<1> QED
  BY <1>5, <1>6

\* The whole breakdown.
LEMMA BreakdownListing ==
  ASSUME NEW outcomes, NEW samples, Len(samples) \in Nat
  PROVE  Listing(Replay!Breakdown(outcomes, samples), outcomes, samples, Len(samples))
<1> DEFINE listed == Replay!Breakdowns(outcomes, samples)
           R(n) == n <= Len(samples) => Listing(listed[n], outcomes, samples, n)
           U == {n \in Nat : R(n)}
<1>1. \A n \in 0 .. Len(samples) :
        listed[n] = IF n = 0 THEN [calls |-> [v \in {} |-> 0], limited |-> FALSE]
                    ELSE IF outcomes[n].outcome = "allow" \/ samples[n].call.model = Replay!NoModel
                         THEN listed[n - 1] ELSE Replay!Listed(listed[n - 1], samples[n].call.model)
  BY BreakdownsRun
<1> HIDE DEF listed
<1>2. 0 \in U
  <2>1. listed[0] = [calls |-> [v \in {} |-> 0], limited |-> FALSE]
    BY <1>1
  <2>2. \A v : Hits(outcomes, samples, 0, v) = {}
    BY DEF Hits
  <2>3. Listing(listed[0], outcomes, samples, 0)
    BY <2>1, <2>2 DEF Listing
  <2> QED
    BY <2>3
<1>3. ASSUME NEW n \in Nat, n \in U PROVE n + 1 \in U
  <2> SUFFICES ASSUME n + 1 <= Len(samples) PROVE Listing(listed[n + 1], outcomes, samples, n + 1)
    OBVIOUS
  <2> DEFINE j == n + 1
  <2>1. j \in Nat \ {0} /\ j - 1 = n /\ j \in 0 .. Len(samples) /\ j # 0 /\ n <= Len(samples)
    OBVIOUS
  <2>2. Listing(listed[j - 1], outcomes, samples, j - 1)
    BY <1>3, <2>1
  <2>3. listed[j] = IF outcomes[j].outcome = "allow" \/ samples[j].call.model = Replay!NoModel
                    THEN listed[j - 1] ELSE Replay!Listed(listed[j - 1], samples[j].call.model)
    BY <1>1, <2>1
  <2> HIDE DEF j
  <2>4. Listing(listed[j], outcomes, samples, j)
    BY <2>1, <2>2, <2>3, ListingGrows
  <2> QED
    BY <2>4 DEF j
<1>4. Len(samples) \in U
  <2> HIDE DEF U
  <2> QED
    BY <1>2, <1>3, NatStep
<1> QED
  BY <1>4 DEF listed, Replay!Breakdown

-----------------------------------------------------------------------------
(* The admissions: what the rows come from.                                *)

Reserved == [at : {"arrived", "forwarded"}, ts : Nat, call : Sent]

ReplayTypeOK ==
  /\ clock \in Nat /\ document \in Document /\ ruled \in BOOLEAN
  /\ flight \in [Replayer -> {Replay!Idle} \cup Reserved]
  /\ booked \subseteq [ts : Nat, call : Sent, by : Replayer, row : Nat] /\ IsFiniteSet(booked)
  /\ \A e \in booked : e.row <= Len(rows)
  /\ ReadSamples(rows)
  /\ \A i \in DOMAIN rows : \E c \in Sent : rows[i].call.model = c.model

\* The row an admission became.
Became(samples, e, i) ==
  e.row = i /\ samples[i].ts = Replay!Floor(e.ts) /\ samples[i].call = e.call /\ samples[i].known

\* Under a policy, the admissions are those of the calls forwarded and of the
\* rows.
AdmissionsKept ==
  ruled =>
    /\ \A h \in Replayer : flight[h].at = "forwarded" =>
         [ts |-> flight[h].ts, call |-> flight[h].call, by |-> h, row |-> 0] \in booked
    /\ \A e \in booked : e.row = 0 =>
         flight[e.by].at = "forwarded" /\ flight[e.by].ts = e.ts /\ flight[e.by].call = e.call
    /\ \A i \in DOMAIN rows : \E e \in booked : Became(rows, e, i)

\* What a rule r counts against limit l, of admissions Y, at ts.
CountedOf(Y, r, l, ts) ==
  {e \in Y : Replay!Applies(r, e.call) /\ e.ts >= Replay!WindowStart(ts, l)}
UsedOf(Y, r, l, ts) == SumOf([e \in Y |-> Replay!Amount(l.kind, e.call)], CountedOf(Y, r, l, ts))

\* An admission of call c at ts is right, by document d, on top of Y.
FitsOn(d, Y, ts, c) ==
  \A r \in d : r.mode = "enforce" /\ Replay!Applies(r, c) =>
    /\ ~ Replay!Barred(r, c, TRUE)
    /\ \A l \in r.limits : ~ Replay!Exceeds(l, c, UsedOf(Y, r, l, ts))

\* Of any admissions, one fits on top of all the others: the one prepared last.
OneFits == \A X \in SUBSET booked : X # {} => \E k \in X : FitsOn(document, X \ {k}, k.ts, k.call)

ReplayInv == ReplayTypeOK /\ AdmissionsKept /\ OneFits

LEMMA ReplayParameters ==
  /\ Second \in Nat \ {0} /\ LastTick \in Nat /\ MaxRows \in Nat /\ MaxBreakdown \in Nat
  /\ IsFiniteSet(Replayer)
  /\ \A d \in Document : Replay!ValidDocument(d)
  /\ \A c \in Sent : Replay!ValidCall(c)
BY ReplayConstants, ReplayNotions DEF Replay!ReplayAssumption

LEMMA LimitFacts ==
  ASSUME NEW d \in Document, NEW r \in d, NEW l \in r.limits
  PROVE  /\ l.kind \in Replay!LimitKind /\ l.type \in {"rolling", "fixed"}
         /\ l.window \in Nat /\ l.window >= Second /\ l.window > 0 /\ l.max \in Nat
         /\ TidyLimit(l) /\ l \in Replay!Limits
<1>1. Replay!ValidRule(r)
  BY ReplayParameters DEF Replay!ValidDocument
<1>2. l \in Replay!Limits /\ l.window >= Second
  BY <1>1 DEF Replay!ValidRule
<1>3. /\ l.kind \in Replay!LimitKind /\ l.type \in {"rolling", "fixed"}
      /\ l.window \in Nat /\ l.max \in Nat
  BY <1>2 DEF Replay!Limits
<1>4. l.window > 0
  BY <1>2, <1>3, ReplayParameters
<1> QED
  BY <1>2, <1>3, <1>4 DEF TidyLimit

\* What Parse lets through is enough for the replay.
LEMMA DocumentsAreTidy ==
  ASSUME NEW d \in Document
  PROVE  Tidy(d) /\ \A r \in d : r.concurrency \in Nat
<1>1. Replay!ValidDocument(d)
  BY ReplayParameters
<1>2. \A r \in d : Replay!ValidRule(r)
  BY <1>1 DEF Replay!ValidDocument
<1>3. \A r \in d : /\ \A l \in r.limits : TidyLimit(l)
                   /\ \A l, k \in r.limits : <<l.kind, l.id>> = <<k.kind, k.id>> => l = k
                   /\ r.concurrency \in Nat
  BY <1>2, LimitFacts DEF Replay!ValidRule
<1> QED
  BY <1>1, <1>3 DEF Tidy, Replay!ValidDocument

\* Rows are appended.
LEMMA ReadAppend ==
  ASSUME NEW samples, ReadSamples(samples), NEW s,
         s.ts \in Int, s.end \in Int, Replay!ValidCall(s.call)
  PROVE  LET next == Append(samples, s)
         IN  /\ ReadSamples(next) /\ Len(next) = Len(samples) + 1 /\ Len(samples) \in Nat
             /\ \A i \in DOMAIN samples : next[i] = samples[i]
             /\ next[Len(samples) + 1] = s
             /\ DOMAIN samples = 1 .. Len(samples) /\ DOMAIN next = DOMAIN samples \cup {Len(samples) + 1}
<1> DEFINE V == {samples[i] : i \in DOMAIN samples}
           next == Append(samples, s)
<1>1. samples \in Seq(V) /\ Len(samples) \in Nat /\ DOMAIN samples = 1 .. Len(samples)
  BY SampleFacts DEF ReadSamples
<1> HIDE DEF V
<1>2. /\ Len(next) = Len(samples) + 1 /\ DOMAIN next = 1 .. Len(samples) + 1
      /\ \A i \in 1 .. Len(samples) : next[i] = samples[i]
      /\ next[Len(samples) + 1] = s
  BY <1>1
<1>3. DOMAIN next = DOMAIN samples \cup {Len(samples) + 1}
  BY <1>1, <1>2
<1>4. next \in Seq({next[i] : i \in DOMAIN next})
  <2>1. next \in Seq(V \cup {s})
    BY <1>1
  <2>2. next = [i \in 1 .. Len(samples) + 1 |-> next[i]]
    <3> DEFINE W == V \cup {s}
    <3>1. next \in Seq(W)
      BY <2>1
    <3> HIDE DEF W, next
    <3> QED
      BY <1>2, <3>1
  <2> DEFINE X == {next[i] : i \in DOMAIN next}
  <2>3. \A i \in 1 .. Len(samples) + 1 : next[i] \in X
    BY <1>2
  <2> HIDE DEF next, X
  <2>4. next \in [1 .. Len(samples) + 1 -> X]
    BY <2>2, <2>3
  <2>5. next \in Seq(X)
    BY <1>1, <2>4
  <2> QED
    BY <2>5 DEF X
<1>5. \A i \in DOMAIN next : next[i].ts \in Int /\ next[i].end \in Int /\ Replay!ValidCall(next[i].call)
  <2> HIDE DEF next
  <2> QED
    BY <1>1, <1>2, <1>3 DEF ReadSamples
<1> QED
  BY <1>1, <1>2, <1>3, <1>4, <1>5 DEF ReadSamples

\* A second has begun not later than the time, and not a second earlier.
LEMMA FloorFacts ==
  ASSUME NEW ts \in Nat
  PROVE  /\ Replay!Floor(ts) \in Int /\ Replay!Floor(ts) <= ts /\ ts < Replay!Floor(ts) + Second
         /\ Replay!Floor(ts) = Second * (ts \div Second) /\ ts \div Second \in Int
<1>1. Second \in Int /\ Second > 0
  BY ReplayParameters
<1>2. /\ ts % Second \in Int /\ ts \div Second \in Int /\ 0 <= ts % Second /\ ts % Second < Second
      /\ ts = Second * (ts \div Second) + (ts % Second)
  BY <1>1
<1>3. Second * (ts \div Second) \in Int
  BY <1>1, <1>2
<1>4. Replay!Floor(ts) = ts - (ts % Second)
  BY DEF Replay!Floor
<1> QED
  BY <1>1, <1>2, <1>3, <1>4

\* The context of a row is a call, of the model that was asked for.
LEMMA ContextIsCall ==
  ASSUME NEW c, Replay!ValidCall(c)
  PROVE  Replay!ValidCall(Replay!Context(c)) /\ Replay!Context(c).model = c.model
<1>1. CASE ruled
  BY <1>1 DEF Replay!Context
<1>2. CASE ~ ruled
  <2> DEFINE x == Replay!Context(c)
  <2>1. x = [ project |-> "", authentic |-> FALSE, model |-> c.model,
              input |-> c.input, output |-> -1, cost |-> c.cost ]
    BY <1>2 DEF Replay!ValidCall, Replay!Context
  <2> HIDE DEF x
  <2>2. x.project = "" /\ x.authentic = FALSE /\ x.output = -1
    BY <2>1
  <2>3. x.model = c.model /\ x.input = c.input /\ x.cost = c.cost
    BY <2>1
  <2>4. x = [ project |-> x.project, authentic |-> x.authentic, model |-> x.model,
              input |-> x.input, output |-> x.output, cost |-> x.cost ]
    BY <2>1, <2>2, <2>3
  <2>5. x.authentic \in BOOLEAN /\ x.input \in Nat /\ {x.output, x.cost} \subseteq Nat \cup {-1}
    BY <2>2, <2>3 DEF Replay!ValidCall
  <2> QED
    BY <2>3, <2>4, <2>5 DEF Replay!ValidCall, x
<1> QED
  BY <1>1, <1>2

-----------------------------------------------------------------------------
(* Sums of admissions.                                                     *)

Admission == [ts : Nat, call : Sent, by : Replayer, row : Nat]

LEMMA AdmissionFacts ==
  ASSUME NEW e \in Admission
  PROVE  /\ e.ts \in Nat /\ e.ts \in Int /\ e.call \in Sent /\ Replay!ValidCall(e.call)
         /\ e.by \in Replayer /\ e.row \in Nat
         /\ \A kind \in Replay!LimitKind : Replay!Amount(kind, e.call) \in Nat
<1>1. e.ts \in Nat /\ e.call \in Sent /\ e.by \in Replayer /\ e.row \in Nat
  BY DEF Admission
<1>2. Replay!ValidCall(e.call)
  BY <1>1, ReplayParameters
<1> QED
  BY <1>1, <1>2, AmountIsNat

\* More admissions use no less.
LEMMA UsedMonotone ==
  ASSUME NEW Y, NEW Z, Z \subseteq Admission, IsFiniteSet(Z), Y \subseteq Z,
         NEW r, NEW l, l.kind \in Replay!LimitKind, NEW ts
  PROVE  /\ UsedOf(Y, r, l, ts) \in Nat /\ UsedOf(Z, r, l, ts) \in Nat
         /\ UsedOf(Y, r, l, ts) <= UsedOf(Z, r, l, ts)
<1> DEFINE f == [e \in Y |-> Replay!Amount(l.kind, e.call)]
           g == [e \in Z |-> Replay!Amount(l.kind, e.call)]
           S == CountedOf(Y, r, l, ts)
           T == CountedOf(Z, r, l, ts)
<1>1. S \subseteq T /\ S \subseteq Y /\ T \subseteq Z
  BY DEF CountedOf
<1>2. IsFiniteSet(S) /\ IsFiniteSet(T)
  <2> HIDE DEF S, T
  <2> QED
    BY <1>1, FS_Subset
<1>3. \A e \in T : g[e] \in Nat
  BY <1>1, AdmissionFacts
<1>4. \A e \in S : f[e] = g[e] /\ f[e] \in Nat
  BY <1>1, AdmissionFacts
<1> HIDE DEF f, g, S, T
<1>5. SumOf(f, S) = SumOf(g, S)
  BY <1>4, SumSame
<1>6. SumOf(g, S) <= SumOf(g, T)
  BY <1>1, <1>2, <1>3, <1>4, SumMonotone
<1>7. SumOf(g, S) \in Nat /\ SumOf(g, T) \in Nat
  BY <1>1, <1>2, <1>3, SumFinite
<1> QED
  BY <1>5, <1>6, <1>7 DEF UsedOf, f, g, S, T

\* The same admissions by other names use the same.
LEMMA UsedRenamed ==
  ASSUME NEW Y, Y \subseteq Admission, IsFiniteSet(Y), NEW Z, NEW b \in Bijection(Y, Z),
         \A e \in Y : b[e].ts = e.ts /\ b[e].call = e.call,
         NEW r, NEW l, l.kind \in Replay!LimitKind, NEW ts
  PROVE  UsedOf(Z, r, l, ts) = UsedOf(Y, r, l, ts)
<1> DEFINE f == [e \in Y |-> Replay!Amount(l.kind, e.call)]
           g == [e \in Z |-> Replay!Amount(l.kind, e.call)]
           S == CountedOf(Y, r, l, ts)
           T == CountedOf(Z, r, l, ts)
           c == [e \in S |-> b[e]]
<1>0. /\ b \in [Y -> Z] /\ \A x, y \in Y : b[x] = b[y] => x = y
      /\ \A z \in Z : \E y \in Y : b[y] = z
  BY DEF Bijection, Injection, Surjection, IsInjective
<1>1. IsFiniteSet(S) /\ S \subseteq Y
  BY FS_Subset DEF CountedOf
<1>2. c \in Bijection(S, T)
  <2>1. \A e \in S : c[e] \in T
    BY <1>0 DEF CountedOf
  <2>2. \A t \in T : \E e \in S : c[e] = t
    BY <1>0 DEF CountedOf
  <2>3. \A x, y \in S : c[x] = c[y] => x = y
    BY <1>0, <1>1
  <2>4. c \in [S -> T]
    BY <2>1
  <2> HIDE DEF c, S, T
  <2> QED
    BY <2>2, <2>3, <2>4 DEF Bijection, Injection, Surjection, IsInjective
<1>3. \A e \in S : f[e] \in Nat /\ g[c[e]] = f[e]
  <2> SUFFICES ASSUME NEW e \in S PROVE f[e] \in Nat /\ g[c[e]] = f[e]
    OBVIOUS
  <2>1. e \in Y /\ e \in Admission /\ c[e] = b[e] /\ b[e] \in Z
    BY <1>0, <1>1
  <2> QED
    BY <2>1, AdmissionFacts
<1> HIDE DEF f, g, S, T, c
<1>4. SumOf(g, T) = SumOf(f, S)
  BY <1>1, <1>2, <1>3, SumRename
<1> QED
  BY <1>4 DEF UsedOf, f, g, S, T

\* What passes no limit on top of more passes none on top of less.
LEMMA ExceedsMonotone ==
  ASSUME NEW l, l.kind \in Replay!LimitKind, l.max \in Nat, NEW c, Replay!ValidCall(c),
         NEW u \in Nat, NEW v \in Nat, u <= v, ~ Replay!Exceeds(l, c, v)
  PROVE  ~ Replay!Exceeds(l, c, u)
<1>1. Replay!Requested(l.kind, c) \in Nat \cup {-1}
  BY AmountIsNat
<1> QED
  BY <1>1 DEF Replay!Exceeds

LEMMA FitsOnLess ==
  ASSUME NEW d \in Document, NEW Y, NEW Z, Z \subseteq Admission, IsFiniteSet(Z), Y \subseteq Z,
         NEW ts, NEW c \in Sent, FitsOn(d, Z, ts, c)
  PROVE  FitsOn(d, Y, ts, c)
<1> SUFFICES ASSUME NEW r \in d, r.mode = "enforce", Replay!Applies(r, c)
             PROVE  /\ ~ Replay!Barred(r, c, TRUE)
                    /\ \A l \in r.limits : ~ Replay!Exceeds(l, c, UsedOf(Y, r, l, ts))
  BY DEF FitsOn
<1>1. ~ Replay!Barred(r, c, TRUE)
  BY DEF FitsOn
<1>2. ASSUME NEW l \in r.limits PROVE ~ Replay!Exceeds(l, c, UsedOf(Y, r, l, ts))
  <2>1. l.kind \in Replay!LimitKind /\ l.max \in Nat /\ Replay!ValidCall(c)
    BY LimitFacts, ReplayParameters
  <2>2. ~ Replay!Exceeds(l, c, UsedOf(Z, r, l, ts))
    BY DEF FitsOn
  <2>3. /\ UsedOf(Y, r, l, ts) \in Nat /\ UsedOf(Z, r, l, ts) \in Nat
        /\ UsedOf(Y, r, l, ts) <= UsedOf(Z, r, l, ts)
    BY <2>1, UsedMonotone
  <2> QED
    BY <2>1, <2>2, <2>3, ExceedsMonotone
<1> QED
  BY <1>1, <1>2

LEMMA FitsOnRenamed ==
  ASSUME NEW d \in Document, NEW Y, Y \subseteq Admission, IsFiniteSet(Y),
         NEW Z, NEW b \in Bijection(Y, Z), \A e \in Y : b[e].ts = e.ts /\ b[e].call = e.call,
         NEW ts, NEW c, FitsOn(d, Y, ts, c)
  PROVE  FitsOn(d, Z, ts, c)
<1> SUFFICES ASSUME NEW r \in d, r.mode = "enforce", Replay!Applies(r, c), NEW l \in r.limits
             PROVE  ~ Replay!Exceeds(l, c, UsedOf(Z, r, l, ts))
  BY DEF FitsOn
<1>1. UsedOf(Z, r, l, ts) = UsedOf(Y, r, l, ts)
  BY LimitFacts, UsedRenamed
<1> QED
  BY <1>1 DEF FitsOn

-----------------------------------------------------------------------------
(* The invariant of the admissions and their ledger.                       *)

\* What a handler is doing.
LEMMA FlightFacts ==
  ASSUME ReplayTypeOK, NEW h \in Replayer
  PROVE  /\ flight[h].at \in {"arrived", "forwarded"} => flight[h] \in Reserved
         /\ flight[h] \in Reserved => flight[h].ts \in Nat /\ flight[h].call \in Sent
         /\ Replay!Idle.at = "idle"
         /\ flight[h] \in Reserved =>
              /\ [flight[h] EXCEPT !.at = "forwarded"] \in Reserved
              /\ [flight[h] EXCEPT !.at = "forwarded"].at = "forwarded"
              /\ [flight[h] EXCEPT !.at = "forwarded"].ts = flight[h].ts
              /\ [flight[h] EXCEPT !.at = "forwarded"].call = flight[h].call
BY DEF ReplayTypeOK, Reserved, Replay!Idle

\* The row a booking appends.
RowOf(h) ==
  LET f == flight[h]
  IN [ ts |-> Replay!Floor(f.ts), end |-> Replay!Floor(f.ts) + (clock - f.ts),
       call |-> Replay!Context(f.call), known |-> ruled ]

LEMMA RowFacts ==
  ASSUME ReplayTypeOK, NEW h \in Replayer, flight[h] \in Reserved
  PROVE  /\ RowOf(h).ts = Replay!Floor(flight[h].ts) /\ RowOf(h).known = ruled
         /\ RowOf(h).call = Replay!Context(flight[h].call)
         /\ RowOf(h).ts \in Int /\ RowOf(h).end \in Int /\ Replay!ValidCall(RowOf(h).call)
         /\ RowOf(h).call.model = flight[h].call.model
<1>1. flight[h].ts \in Nat /\ flight[h].call \in Sent /\ clock \in Nat
  BY FlightFacts DEF ReplayTypeOK
<1>2. Replay!Floor(flight[h].ts) \in Int
  BY <1>1, FloorFacts
<1>3. Replay!ValidCall(flight[h].call)
  BY <1>1, ReplayParameters
<1>4. /\ RowOf(h).ts = Replay!Floor(flight[h].ts) /\ RowOf(h).known = ruled
      /\ RowOf(h).call = Replay!Context(flight[h].call)
      /\ RowOf(h).end = Replay!Floor(flight[h].ts) + (clock - flight[h].ts)
  BY DEF RowOf
<1> QED
  BY <1>1, <1>2, <1>3, <1>4, ContextIsCall

\* What a booking makes of the admissions.
BookedAs(h, e) == IF e.by = h /\ e.row = 0 THEN [e EXCEPT !.row = Len(rows) + 1] ELSE e

LEMMA BookedAsFacts ==
  ASSUME ReplayTypeOK, NEW h \in Replayer, NEW e \in booked
  PROVE  /\ e \in Admission /\ e.row <= Len(rows) /\ Len(rows) \in Nat
         /\ BookedAs(h, e) \in Admission
         /\ BookedAs(h, e).row <= Len(rows) + 1
         /\ BookedAs(h, e).ts = e.ts /\ BookedAs(h, e).call = e.call /\ BookedAs(h, e).by = e.by
         /\ e.by = h /\ e.row = 0 => BookedAs(h, e).row = Len(rows) + 1
         /\ ~ (e.by = h /\ e.row = 0) => BookedAs(h, e) = e
<1>1. e \in Admission /\ e.row <= Len(rows) /\ Len(rows) \in Nat
  BY SampleFacts DEF ReplayTypeOK, Admission
<1>2. \A n \in Nat : /\ [e EXCEPT !.row = n] \in Admission /\ [e EXCEPT !.row = n].row = n
                     /\ [e EXCEPT !.row = n].ts = e.ts /\ [e EXCEPT !.row = n].call = e.call
                     /\ [e EXCEPT !.row = n].by = e.by
  BY <1>1 DEF Admission
<1>3. Len(rows) + 1 \in Nat /\ e.row \in Nat
  BY <1>1, AdmissionFacts
<1>4. CASE e.by = h /\ e.row = 0
  <2> DEFINE n == Len(rows) + 1
             x == [e EXCEPT !.row = n]
  <2>1. BookedAs(h, e) = x /\ n \in Nat
    BY <1>3, <1>4 DEF BookedAs
  <2>2. x \in Admission /\ x.row = n /\ x.ts = e.ts /\ x.call = e.call /\ x.by = e.by
    BY <1>2, <2>1
  <2> HIDE DEF x
  <2> QED
    BY <1>1, <1>4, <2>1, <2>2
<1>5. CASE ~ (e.by = h /\ e.row = 0)
  <2>1. BookedAs(h, e) = e
    BY <1>5 DEF BookedAs
  <2> QED
    BY <1>1, <1>3, <1>5, <2>1
<1> QED
  BY <1>4, <1>5

LEMMA ReplayInitially == Replay!Init => ReplayInv
<1> SUFFICES ASSUME Replay!Init PROVE ReplayInv
  OBVIOUS
<1>1. ReplayTypeOK
  <2>1. IsFiniteSet({})
    BY FS_EmptySet
  <2>2. ReadSamples(<<>>)
    BY DEF ReadSamples
  <2> QED
    BY <2>1, <2>2 DEF Replay!Init, ReplayTypeOK, Replay!Idle, Reserved
<1>2. AdmissionsKept
  BY DEF Replay!Init, AdmissionsKept, Replay!Idle
<1>3. OneFits
  BY DEF Replay!Init, OneFits
<1> QED
  BY <1>1, <1>2, <1>3 DEF ReplayInv

LEMMA ReplayTypesStay == ReplayTypeOK /\ [Replay!Next]_Replay!vars => ReplayTypeOK'
<1> SUFFICES ASSUME ReplayTypeOK, [Replay!Next]_Replay!vars PROVE ReplayTypeOK'
  OBVIOUS
<1>1. CASE Replay!Tick
  BY <1>1 DEF Replay!Tick, ReplayTypeOK
<1>2. ASSUME NEW h \in Replayer, NEW c \in Sent, Replay!Arrive(h, c) PROVE ReplayTypeOK'
  <2>1. [at |-> "arrived", ts |-> clock, call |-> c] \in Reserved
    BY DEF Reserved, ReplayTypeOK
  <2>2. flight' \in [Replayer -> {Replay!Idle} \cup Reserved]
    BY <1>2, <2>1 DEF Replay!Arrive, ReplayTypeOK
  <2> QED
    BY <1>2, <2>2 DEF Replay!Arrive, ReplayTypeOK
<1>3. ASSUME NEW h \in Replayer, Replay!Prepare(h) PROVE ReplayTypeOK'
  <2>1. flight[h] \in Reserved /\ flight[h].ts \in Nat /\ flight[h].call \in Sent
    BY <1>3, FlightFacts DEF Replay!Prepare
  <2>2. flight' \in [Replayer -> {Replay!Idle} \cup Reserved]
    <3>1. \/ flight' = [flight EXCEPT ![h] = Replay!Idle]
          \/ flight' = [flight EXCEPT ![h] = [flight[h] EXCEPT !.at = "forwarded"]]
      BY <1>3 DEF Replay!Prepare
    <3>2. [flight[h] EXCEPT !.at = "forwarded"] \in Reserved
      BY <2>1, FlightFacts
    <3>3. flight \in [Replayer -> {Replay!Idle} \cup Reserved]
      BY DEF ReplayTypeOK
    <3> QED
      BY <3>1, <3>2, <3>3
  <2> DEFINE e == [ts |-> flight[h].ts, call |-> flight[h].call, by |-> h, row |-> 0]
  <2>3. booked' = booked \/ booked' = booked \cup {e}
    BY <1>3 DEF Replay!Prepare
  <2>4. e \in [ts : Nat, call : Sent, by : Replayer, row : Nat] /\ e.row = 0
    BY <2>1
  <2> HIDE DEF e
  <2>5. IsFiniteSet(booked')
    BY <2>3, FS_AddElement DEF ReplayTypeOK
  <2>6. Len(rows) \in Nat
    BY SampleFacts DEF ReplayTypeOK
  <2> QED
    BY <1>3, <2>2, <2>3, <2>4, <2>5, <2>6 DEF Replay!Prepare, ReplayTypeOK
<1>4. ASSUME NEW h \in Replayer, Replay!PassThrough(h) PROVE ReplayTypeOK'
  <2>1. [flight[h] EXCEPT !.at = "forwarded"] \in Reserved
    BY <1>4, FlightFacts DEF Replay!PassThrough
  <2>2. flight' = [flight EXCEPT ![h] = [flight[h] EXCEPT !.at = "forwarded"]]
    BY <1>4 DEF Replay!PassThrough
  <2>3. flight' \in [Replayer -> {Replay!Idle} \cup Reserved]
    BY <2>1, <2>2 DEF ReplayTypeOK
  <2> QED
    BY <1>4, <2>3 DEF Replay!PassThrough, ReplayTypeOK
<1>5. ASSUME NEW h \in Replayer, Replay!Cancel(h) PROVE ReplayTypeOK'
  <2>1. flight' \in [Replayer -> {Replay!Idle} \cup Reserved]
    BY <1>5 DEF Replay!Cancel, ReplayTypeOK
  <2>2. booked' \subseteq booked
    BY <1>5 DEF Replay!Cancel
  <2>3. IsFiniteSet(booked')
    BY <2>2, FS_Subset DEF ReplayTypeOK
  <2> QED
    BY <1>5, <2>1, <2>2, <2>3 DEF Replay!Cancel, ReplayTypeOK
<1>6. ASSUME NEW h \in Replayer, Replay!Book(h) PROVE ReplayTypeOK'
  <2>1. flight[h] \in Reserved /\ flight[h].call \in Sent
    BY <1>6, FlightFacts DEF Replay!Book
  <2>2. /\ flight' = [flight EXCEPT ![h] = Replay!Idle] /\ rows' = Append(rows, RowOf(h))
        /\ booked' = {BookedAs(h, e) : e \in booked} /\ UNCHANGED <<clock, document, ruled>>
    BY <1>6 DEF Replay!Book, RowOf, BookedAs
  <2>3. flight' \in [Replayer -> {Replay!Idle} \cup Reserved]
    BY <2>2 DEF ReplayTypeOK
  <2>4. /\ ReadSamples(rows') /\ Len(rows') = Len(rows) + 1 /\ Len(rows) \in Nat
        /\ \A i \in DOMAIN rows : rows'[i] = rows[i]
        /\ rows'[Len(rows) + 1] = RowOf(h) /\ DOMAIN rows' = DOMAIN rows \cup {Len(rows) + 1}
    <3>1. RowOf(h).ts \in Int /\ RowOf(h).end \in Int /\ Replay!ValidCall(RowOf(h).call)
      BY <2>1, RowFacts
    <3>2. ReadSamples(rows)
      BY DEF ReplayTypeOK
    <3> HIDE DEF RowOf
    <3> QED
      BY <2>2, <3>1, <3>2, ReadAppend
  <2>5. \A i \in DOMAIN rows' : \E c \in Sent : rows'[i].call.model = c.model
    <3>1. RowOf(h).call.model = flight[h].call.model
      BY <2>1, RowFacts
    <3>2. \A i \in DOMAIN rows : \E c \in Sent : rows[i].call.model = c.model
      BY DEF ReplayTypeOK
    <3> QED
      BY <2>1, <2>4, <3>1, <3>2
  <2>6. IsFiniteSet(booked')
    <3>1. IsFiniteSet(booked)
      BY DEF ReplayTypeOK
    <3> DEFINE f == [e \in booked |-> BookedAs(h, e)]
               S == {BookedAs(h, e) : e \in booked}
    <3>2. f \in Surjection(booked, S)
      BY DEF Surjection
    <3>3. IsFiniteSet(S)
      <4> HIDE DEF f, S
      <4> QED
        BY <3>1, <3>2, FS_Surjection
    <3> QED
      BY <2>2, <3>3
  <2>7. booked' \subseteq Admission /\ \A e \in booked' : e.row <= Len(rows')
    BY <2>2, <2>4, BookedAsFacts
  <2> QED
    BY <2>2, <2>3, <2>4, <2>5, <2>6, <2>7 DEF ReplayTypeOK, Admission
<1>7. CASE UNCHANGED Replay!vars
  BY <1>7 DEF Replay!vars, ReplayTypeOK
<1> QED
  BY <1>1, <1>2, <1>3, <1>4, <1>5, <1>6, <1>7 DEF Replay!Next

\* The admission a handler holds.
Pending(h) == [ts |-> flight[h].ts, call |-> flight[h].call, by |-> h, row |-> 0]

LEMMA PendingFacts ==
  ASSUME NEW h
  PROVE  /\ Pending(h).ts = flight[h].ts /\ Pending(h).call = flight[h].call
         /\ Pending(h).by = h /\ Pending(h).row = 0
BY DEF Pending

LEMMA KeptMeans ==
  AdmissionsKept <=>
    (ruled =>
       /\ \A h \in Replayer : flight[h].at = "forwarded" => Pending(h) \in booked
       /\ \A e \in booked : e.row = 0 =>
            flight[e.by].at = "forwarded" /\ flight[e.by].ts = e.ts /\ flight[e.by].call = e.call
       /\ \A i \in DOMAIN rows : \E e \in booked : Became(rows, e, i))
BY DEF AdmissionsKept, Pending

LEMMA AdmissionsStay ==
  ReplayTypeOK /\ AdmissionsKept /\ [Replay!Next]_Replay!vars => AdmissionsKept'
<1> SUFFICES ASSUME ReplayTypeOK, AdmissionsKept, [Replay!Next]_Replay!vars, ruled' PROVE AdmissionsKept'
  BY DEF AdmissionsKept
<1>0. ruled' = ruled
  BY DEF Replay!Next, Replay!vars, Replay!Tick, Replay!Arrive, Replay!Prepare, Replay!PassThrough,
         Replay!Cancel, Replay!Book
<1>a. /\ \A h \in Replayer : flight[h].at = "forwarded" => Pending(h) \in booked
      /\ \A e \in booked : e.row = 0 =>
           flight[e.by].at = "forwarded" /\ flight[e.by].ts = e.ts /\ flight[e.by].call = e.call
      /\ \A i \in DOMAIN rows : \E e \in booked : Became(rows, e, i)
  BY <1>0, KeptMeans
<1>b. /\ \A e \in booked : e \in Admission /\ e.by \in Replayer
      /\ DOMAIN flight = Replayer
      /\ Replay!Idle.at = "idle"
      /\ Len(rows) \in Nat /\ DOMAIN rows = 1 .. Len(rows)
  BY AdmissionFacts, SampleFacts DEF ReplayTypeOK, Admission, Replay!Idle
<1>c. \A g : flight'[g] = flight[g] => Pending(g)' = Pending(g)
  BY DEF Pending
<1> DEFINE Kept ==
      /\ \A h \in Replayer : flight'[h].at = "forwarded" => Pending(h)' \in booked'
      /\ \A e \in booked' : e.row = 0 =>
           flight'[e.by].at = "forwarded" /\ flight'[e.by].ts = e.ts /\ flight'[e.by].call = e.call
      /\ \A i \in DOMAIN rows' : \E e \in booked' : Became(rows', e, i)
<1>d. SUFFICES Kept
  BY DEF AdmissionsKept, Pending
<1>1. CASE UNCHANGED <<flight, booked, rows>>
  BY <1>1, <1>a DEF Pending
<1>2. ASSUME NEW h \in Replayer, NEW c \in Sent, Replay!Arrive(h, c) PROVE Kept
  <2>1. /\ flight' = [flight EXCEPT ![h] = [at |-> "arrived", ts |-> clock, call |-> c]]
        /\ flight[h].at = "idle" /\ UNCHANGED <<booked, rows>>
    BY <1>2, <1>b DEF Replay!Arrive
  <2>2. flight'[h].at = "arrived" /\ \A g \in Replayer : g # h => flight'[g] = flight[g]
    BY <1>b, <2>1
  <2>3. \A e \in booked : e.row = 0 => e.by # h
    BY <1>a, <2>1
  <2> QED
    BY <1>a, <1>b, <1>c, <2>1, <2>2, <2>3
<1>3. ASSUME NEW h \in Replayer, Replay!Prepare(h) PROVE Kept
  <2>1. flight[h].at = "arrived" /\ flight[h] \in Reserved /\ rows' = rows
    BY <1>3, FlightFacts DEF Replay!Prepare
  <2>2. \A e \in booked : e.row = 0 => e.by # h
    BY <1>a, <2>1
  <2>3. CASE flight' = [flight EXCEPT ![h] = Replay!Idle] /\ booked' = booked
    <3>1. flight'[h].at = "idle" /\ \A g \in Replayer : g # h => flight'[g] = flight[g]
      BY <1>b, <2>3
    <3> QED
      BY <1>a, <1>b, <1>c, <2>1, <2>2, <2>3, <3>1
  <2>4. CASE flight' = [flight EXCEPT ![h] = [flight[h] EXCEPT !.at = "forwarded"]] /\ booked' = booked \cup {Pending(h)}
    <3>1. \A g \in Replayer : g # h => flight'[g] = flight[g]
      BY <1>b, <2>4
    <3>2. flight'[h].at = "forwarded" /\ flight'[h].ts = flight[h].ts /\ flight'[h].call = flight[h].call
      <4>1. flight'[h] = [flight[h] EXCEPT !.at = "forwarded"]
        BY <1>b, <2>4
      <4> QED
        BY <2>1, <4>1, FlightFacts
    <3>3. Pending(h)' = Pending(h)
      BY <3>2 DEF Pending
    <3>4. \A e \in booked' : e.row = 0 =>
            flight'[e.by].at = "forwarded" /\ flight'[e.by].ts = e.ts /\ flight'[e.by].call = e.call
      BY <1>a, <1>b, <2>2, <2>4, <3>1, <3>2, PendingFacts
    <3> QED
      BY <1>a, <1>b, <1>c, <2>1, <2>4, <3>1, <3>3, <3>4
  <2> QED
    BY <1>3, <2>3, <2>4 DEF Replay!Prepare, Pending
<1>4. ASSUME NEW h \in Replayer, Replay!Cancel(h) PROVE Kept
  <2>1. /\ flight' = [flight EXCEPT ![h] = Replay!Idle]
        /\ booked' = {e \in booked : e.by # h \/ e.row # 0} /\ rows' = rows
    BY <1>4 DEF Replay!Cancel
  <2>2. flight'[h].at = "idle" /\ \A g \in Replayer : g # h => flight'[g] = flight[g]
    BY <1>b, <2>1
  <2>3. \A i \in DOMAIN rows : \E e \in booked' : Became(rows, e, i)
    <3> SUFFICES ASSUME NEW i \in DOMAIN rows PROVE \E e \in booked' : Became(rows, e, i)
      OBVIOUS
    <3>1. PICK e \in booked : Became(rows, e, i)
      BY <1>a
    <3>2. e.row # 0
      BY <1>b, <3>1 DEF Became
    <3> QED
      BY <2>1, <3>1, <3>2
  <2>4. \A g \in Replayer : flight'[g].at = "forwarded" => Pending(g)' \in booked'
    <3> SUFFICES ASSUME NEW g \in Replayer, flight'[g].at = "forwarded" PROVE Pending(g)' \in booked'
      OBVIOUS
    <3>1. g # h /\ Pending(g)' = Pending(g) /\ Pending(g) \in booked
      BY <1>a, <1>c, <2>2
    <3> QED
      BY <2>1, <3>1, PendingFacts
  <2>5. \A e \in booked' : e.row = 0 =>
          flight'[e.by].at = "forwarded" /\ flight'[e.by].ts = e.ts /\ flight'[e.by].call = e.call
    BY <1>a, <1>b, <2>1, <2>2
  <2> QED
    BY <2>1, <2>3, <2>4, <2>5
<1>5. ASSUME NEW h \in Replayer, Replay!Book(h) PROVE Kept
  <2>1. flight[h] \in Reserved /\ flight[h].at = "forwarded" /\ Pending(h) \in booked
    BY <1>5, <1>a, FlightFacts DEF Replay!Book
  <2>2. /\ flight' = [flight EXCEPT ![h] = Replay!Idle] /\ rows' = Append(rows, RowOf(h))
        /\ booked' = {BookedAs(h, e) : e \in booked}
    BY <1>5 DEF Replay!Book, RowOf, BookedAs
  <2>3. flight'[h].at = "idle" /\ \A g \in Replayer : g # h => flight'[g] = flight[g]
    BY <1>b, <2>2
  <2>4. \A e \in booked : BookedAs(h, e) \in booked'
    BY <2>2
  <2>5. /\ \A i \in DOMAIN rows : rows'[i] = rows[i]
        /\ rows'[Len(rows) + 1] = RowOf(h) /\ DOMAIN rows' = DOMAIN rows \cup {Len(rows) + 1}
    <3>1. RowOf(h).ts \in Int /\ RowOf(h).end \in Int /\ Replay!ValidCall(RowOf(h).call)
      BY <2>1, RowFacts
    <3>2. ReadSamples(rows)
      BY DEF ReplayTypeOK
    <3> QED
      BY <2>2, <3>1, <3>2, ReadAppend
  <2>6. ASSUME NEW i \in DOMAIN rows' PROVE \E e \in booked' : Became(rows', e, i)
    <3>1. CASE i \in DOMAIN rows
      <4>1. PICK e \in booked : Became(rows, e, i)
        BY <1>a, <3>1
      <4>2. e.row # 0
        BY <1>b, <3>1, <4>1 DEF Became
      <4>3. BookedAs(h, e) = e
        BY <4>2, BookedAsFacts
      <4>4. e \in booked' /\ rows'[i] = rows[i]
        BY <2>4, <2>5, <3>1, <4>3
      <4> QED
        BY <4>1, <4>4 DEF Became
    <3>2. CASE i = Len(rows) + 1
      <4> DEFINE e == BookedAs(h, Pending(h))
      <4>1. e \in booked'
        BY <2>1, <2>4
      <4>2. e.row = Len(rows) + 1 /\ e.ts = flight[h].ts /\ e.call = flight[h].call
        <5>1. Pending(h).by = h /\ Pending(h).row = 0 /\ Pending(h).ts = flight[h].ts /\ Pending(h).call = flight[h].call
          BY PendingFacts
        <5> QED
          BY <2>1, <5>1, BookedAsFacts
      <4> HIDE DEF e
      <4>3. rows'[i] = RowOf(h)
        BY <2>5, <3>2
      <4>4. Replay!Context(flight[h].call) = flight[h].call
        BY <1>0 DEF Replay!Context
      <4>5. /\ rows'[i].ts = Replay!Floor(e.ts) /\ rows'[i].call = e.call /\ rows'[i].known
        BY <1>0, <2>1, <4>2, <4>3, <4>4, RowFacts
      <4> QED
        BY <3>2, <4>1, <4>2, <4>5 DEF Became
    <3> QED
      BY <2>5, <3>1, <3>2
  <2>7. \A g \in Replayer : flight'[g].at = "forwarded" => Pending(g)' \in booked'
    <3> SUFFICES ASSUME NEW g \in Replayer, flight'[g].at = "forwarded" PROVE Pending(g)' \in booked'
      OBVIOUS
    <3>1. g # h /\ Pending(g)' = Pending(g) /\ Pending(g) \in booked
      BY <1>a, <1>c, <2>3
    <3>2. BookedAs(h, Pending(g)) = Pending(g)
      BY <3>1, PendingFacts, BookedAsFacts
    <3> QED
      BY <2>4, <3>1, <3>2
  <2>8. ASSUME NEW x \in booked', x.row = 0
        PROVE  flight'[x.by].at = "forwarded" /\ flight'[x.by].ts = x.ts /\ flight'[x.by].call = x.call
    <3>1. PICK e \in booked : x = BookedAs(h, e)
      BY <2>2
    <3>2. ~ (e.by = h /\ e.row = 0)
      BY <1>b, <2>8, <3>1, BookedAsFacts
    <3>3. x = e /\ e.by # h /\ e.by \in Replayer
      BY <1>b, <2>8, <3>1, <3>2, BookedAsFacts
    <3> QED
      BY <1>a, <2>3, <2>8, <3>3
  <2> QED
    BY <2>6, <2>7, <2>8
<1>6. CASE Replay!Tick \/ UNCHANGED Replay!vars
  BY <1>1, <1>6 DEF Replay!Tick, Replay!vars
<1>7. ASSUME NEW h \in Replayer, Replay!PassThrough(h) PROVE FALSE
  BY <1>0, <1>7 DEF Replay!PassThrough
<1> QED
  BY <1>2, <1>3, <1>4, <1>5, <1>6, <1>7 DEF Replay!Next

\* What is not denied fits on top of everything admitted.
LEMMA AdmittedFits ==
  ASSUME NEW f, ~ Replay!Denied(f)
  PROVE  FitsOn(document, booked, f.ts, f.call)
<1>1. ASSUME NEW r, NEW l PROVE Replay!Used(l, r, f.ts) = UsedOf(booked, r, l, f.ts)
  BY ReplayNotions DEF Replay!Used, UsedOf, CountedOf
<1>2. \A r \in document : r.mode = "enforce" /\ Replay!Applies(r, f.call) =>
        /\ ~ Replay!Barred(r, f.call, TRUE)
        /\ \A l \in r.limits : ~ Replay!Exceeds(l, f.call, Replay!Used(l, r, f.ts))
  BY DEF Replay!Denied
<1> QED
  BY <1>1, <1>2 DEF FitsOn

LEMMA OneStillFits ==
  ReplayTypeOK /\ OneFits /\ [Replay!Next]_Replay!vars => OneFits'
<1> SUFFICES ASSUME ReplayTypeOK, OneFits, [Replay!Next]_Replay!vars PROVE OneFits'
  OBVIOUS
<1>0. document' = document
  BY DEF Replay!Next, Replay!vars, Replay!Tick, Replay!Arrive, Replay!Prepare, Replay!PassThrough,
         Replay!Cancel, Replay!Book
<1>a. booked \subseteq Admission /\ IsFiniteSet(booked) /\ document \in Document
  BY DEF ReplayTypeOK, Admission
<1> SUFFICES ASSUME NEW X \in SUBSET booked', X # {}
             PROVE  \E k \in X : FitsOn(document, X \ {k}, k.ts, k.call)
  BY <1>0 DEF OneFits
<1>1. CASE booked' \subseteq booked
  BY <1>1 DEF OneFits
<1>2. ASSUME NEW h \in Replayer, Replay!Prepare(h), booked' # booked
      PROVE  \E k \in X : FitsOn(document, X \ {k}, k.ts, k.call)
  <2>1. /\ ~ Replay!Denied(flight[h]) /\ booked' = booked \cup {Pending(h)}
        /\ flight[h].at = "arrived"
    BY <1>2 DEF Replay!Prepare, Pending
  <2>2. flight[h].call \in Sent
    BY <2>1, FlightFacts
  <2>3. FitsOn(document, booked, flight[h].ts, flight[h].call)
    BY <2>1, AdmittedFits
  <2>4. CASE Pending(h) \in X
    <3>1. X \ {Pending(h)} \subseteq booked
      BY <2>1
    <3>2. FitsOn(document, X \ {Pending(h)}, flight[h].ts, flight[h].call)
      BY <1>a, <2>2, <2>3, <3>1, FitsOnLess
    <3> QED
      BY <2>4, <3>2, PendingFacts
  <2>5. CASE Pending(h) \notin X
    BY <2>1, <2>5 DEF OneFits
  <2> QED
    BY <2>4, <2>5
<1>3. ASSUME NEW h \in Replayer, Replay!Book(h)
      PROVE  \E k \in X : FitsOn(document, X \ {k}, k.ts, k.call)
  <2>1. booked' = {BookedAs(h, e) : e \in booked}
    BY <1>3 DEF Replay!Book, BookedAs
  <2> DEFINE Y == {e \in booked : BookedAs(h, e) \in X}
  <2>2. Y # {} /\ Y \subseteq booked /\ \A x \in X : \E e \in Y : x = BookedAs(h, e)
    BY <2>1
  <2>3. \A e, g \in booked : BookedAs(h, e) = BookedAs(h, g) => e = g
    <3> SUFFICES ASSUME NEW e \in booked, NEW g \in booked, BookedAs(h, e) = BookedAs(h, g) PROVE e = g
      OBVIOUS
    <3>1. /\ e = [ts |-> e.ts, call |-> e.call, by |-> e.by, row |-> e.row]
          /\ g = [ts |-> g.ts, call |-> g.call, by |-> g.by, row |-> g.row]
      BY <1>a DEF Admission
    <3>2. e.ts = g.ts /\ e.call = g.call /\ e.by = g.by
      <4>1. BookedAs(h, e).ts = e.ts /\ BookedAs(h, e).call = e.call /\ BookedAs(h, e).by = e.by
        BY BookedAsFacts
      <4>2. BookedAs(h, g).ts = g.ts /\ BookedAs(h, g).call = g.call /\ BookedAs(h, g).by = g.by
        BY BookedAsFacts
      <4> QED
        BY <4>1, <4>2
    <3>3. e.row = g.row
      <4>1. /\ e.row <= Len(rows) /\ e.row \in Nat /\ Len(rows) \in Nat
            /\ e.by = h /\ e.row = 0 => BookedAs(h, e).row = Len(rows) + 1
            /\ ~ (e.by = h /\ e.row = 0) => BookedAs(h, e) = e
        BY BookedAsFacts, AdmissionFacts
      <4>2. /\ g.row <= Len(rows) /\ g.row \in Nat
            /\ g.by = h /\ g.row = 0 => BookedAs(h, g).row = Len(rows) + 1
            /\ ~ (g.by = h /\ g.row = 0) => BookedAs(h, g) = g
        BY BookedAsFacts, AdmissionFacts
      <4>3. ~ (Len(rows) + 1 <= Len(rows))
        BY <4>1
      <4> QED
        BY <4>1, <4>2, <4>3
    <3> QED
      BY <3>1, <3>2, <3>3
  <2>4. PICK k \in Y : FitsOn(document, Y \ {k}, k.ts, k.call)
    BY <2>2 DEF OneFits
  <2> DEFINE x == BookedAs(h, k)
             b == [e \in Y \ {k} |-> BookedAs(h, e)]
  <2>5. x \in X /\ x.ts = k.ts /\ x.call = k.call
    BY <2>2, BookedAsFacts
  <2>6. b \in Bijection(Y \ {k}, X \ {x})
    <3>1. \A e \in Y \ {k} : b[e] \in X \ {x}
      BY <2>2, <2>3
    <3>2. \A z \in X \ {x} : \E e \in Y \ {k} : b[e] = z
      BY <2>2
    <3>3. \A e, g \in Y \ {k} : b[e] = b[g] => e = g
      BY <2>2, <2>3
    <3>4. b \in [Y \ {k} -> X \ {x}]
      BY <3>1
    <3> HIDE DEF b, x, Y
    <3> QED
      BY <3>2, <3>3, <3>4 DEF Bijection, Injection, Surjection, IsInjective
  <2>7. \A e \in Y \ {k} : b[e].ts = e.ts /\ b[e].call = e.call
    BY <2>2, BookedAsFacts
  <2>8. Y \ {k} \subseteq Admission /\ IsFiniteSet(Y \ {k})
    BY <1>a, <2>2, FS_Subset
  <2> HIDE DEF b, x, Y
  <2>9. FitsOn(document, X \ {x}, k.ts, k.call)
    BY <1>a, <2>4, <2>6, <2>7, <2>8, FitsOnRenamed
  <2> QED
    BY <2>5, <2>9
<1>4. CASE Replay!Tick \/ UNCHANGED Replay!vars
  BY <1>1, <1>4 DEF Replay!Tick, Replay!vars
<1>5. ASSUME NEW h \in Replayer, (\E c \in Sent : Replay!Arrive(h, c)) \/ Replay!PassThrough(h) \/ Replay!Cancel(h)
      PROVE  booked' \subseteq booked
  BY <1>5 DEF Replay!Arrive, Replay!PassThrough, Replay!Cancel
<1> QED
  BY <1>1, <1>2, <1>3, <1>4, <1>5 DEF Replay!Next

\* The admissions, their ledger and their order are sound at any time.
THEOREM ReplayInductive == Replay!Spec => []ReplayInv
<1>1. Replay!Init => ReplayInv
  BY ReplayInitially
<1>2. ReplayInv /\ [Replay!Next]_Replay!vars => ReplayInv'
  BY ReplayTypesStay, AdmissionsStay, OneStillFits DEF ReplayInv
<1> QED
  BY <1>1, <1>2, PTL DEF Replay!Spec

-----------------------------------------------------------------------------
(* The theorems of the replay.                                             *)

LEMMA ExactNow == ReplayTypeOK => ReplayIsExact
<1> SUFFICES ASSUME ReplayTypeOK, NEW d \in Document
             PROVE  LET samples == Replay!InOrder(rows)
                        outcomes == Replay!Simulate(d, samples)
                        listed == Replay!Breakdown(outcomes, samples)
                        hit(m) == {i \in DOMAIN samples :
                                     outcomes[i].outcome # "allow" /\ samples[i].call.model = m}
                        models == {m \in {c.model : c \in Sent} \ {Replay!NoModel} : hit(m) # {}}
                    IN  /\ \A i \in DOMAIN samples :
                             outcomes[i] = Replay!Expected(d, samples, outcomes, i)
                        /\ \A m \in DOMAIN listed.calls : listed.calls[m] = Cardinality(hit(m))
                        /\ listed.limited <=> models # DOMAIN listed.calls
  BY ReplayNotions DEF ReplayIsExact, Replay!ReplayIsExact
<1> DEFINE samples == Replay!InOrder(rows)
           outcomes == Replay!Simulate(d, samples)
           listed == Replay!Breakdown(outcomes, samples)
           hit(m) == {i \in DOMAIN samples : outcomes[i].outcome # "allow" /\ samples[i].call.model = m}
           models == {m \in {c.model : c \in Sent} \ {Replay!NoModel} : hit(m) # {}}
<1>1. ReadSamples(rows) /\ \A i \in DOMAIN rows : \E c \in Sent : rows[i].call.model = c.model
  BY DEF ReplayTypeOK
<1>2. /\ ReadSamples(samples) /\ Sorted(samples) /\ DOMAIN samples = DOMAIN rows
      /\ \E p : Reading(p, rows)
  BY <1>1, ReadInOrder
<1>3. \A i \in DOMAIN samples : \E c \in Sent : samples[i].call.model = c.model
  <2>1. PICK p : Reading(p, rows)
    BY <1>2
  <2>2. \A i \in DOMAIN rows : p[i] \in DOMAIN rows /\ samples[i] = rows[p[i]]
    BY <2>1 DEF Reading, Bijection, Injection
  <2> HIDE DEF samples
  <2> QED
    BY <1>1, <1>2, <2>2
<1>4. Tidy(d) /\ \A r \in d : r.concurrency \in Nat
  BY DocumentsAreTidy
<1> HIDE DEF samples
<1>5. \A i \in DOMAIN samples : outcomes[i] = Replay!Expected(d, samples, outcomes, i)
  BY <1>2, <1>4, SimulateExpects
<1>6. Len(samples) \in Nat /\ DOMAIN samples = 1 .. Len(samples)
  BY <1>2, SampleFacts
<1> HIDE DEF outcomes
<1>7. Listing(listed, outcomes, samples, Len(samples))
  BY <1>6, BreakdownListing
<1>8. \A m : hit(m) = Hits(outcomes, samples, Len(samples), m)
  BY <1>6 DEF Hits
<1>9. /\ \A m \in DOMAIN listed.calls : /\ m # Replay!NoModel /\ hit(m) # {}
                                         /\ listed.calls[m] = Cardinality(hit(m))
      /\ listed.limited <=> \E m : m # Replay!NoModel /\ hit(m) # {} /\ m \notin DOMAIN listed.calls
  <2> HIDE DEF listed, hit
  <2> QED
    BY <1>7, <1>8 DEF Listing
<1>a. \A m : hit(m) # {} => \E c \in Sent : m = c.model
  BY <1>3
<1>b. \A m : m \in models <=> m # Replay!NoModel /\ hit(m) # {}
  BY <1>a
<1>c. listed.limited <=> models # DOMAIN listed.calls
  <2> HIDE DEF models, hit, listed
  <2>1. DOMAIN listed.calls \subseteq models
    BY <1>9, <1>b
  <2> QED
    BY <1>9, <1>b, <2>1
<1> QED
  BY <1>5, <1>9, <1>c DEF samples, outcomes

\* The replay's cursors, prefix sums and pruned ends say of every ledger what
\* sums over each window say, and its breakdown counts what it lists
\* (Simulate, simWindowPrefix, advanceSimulationCursor).
THEOREM ReplaysAreExact == Replay!Spec => []ReplayIsExact
<1>1. ReplayInv => ReplayIsExact
  BY ExactNow DEF ReplayInv
<1> QED
  BY <1>1, ReplayInductive, PTL

-----------------------------------------------------------------------------
(* What was admitted survives the replay.                                  *)

\* Multiples less than one apart.
LEMMA Multiples ==
  ASSUME NEW w \in Int, w > 0, NEW a \in Int, NEW b \in Int, w * a < w * b + w
  PROVE  a <= b /\ w * a <= w * b
<1>1. a <= b
  <2> SUFFICES ASSUME b + 1 <= a PROVE FALSE
    OBVIOUS
  <2>1. w * (b + 1) <= w * a
    OBVIOUS
  <2>2. w * (b + 1) = w * b + w
    OBVIOUS
  <2>3. w * a \in Int /\ w * b \in Int
    OBVIOUS
  <2> QED
    BY <2>1, <2>2, <2>3
<1> QED
  BY <1>1

\* A limit as the replay can compare it.
Coarser(l) == [l EXCEPT !.window = IF l.type = "rolling" THEN @ - Second ELSE @]

LEMMA CoarserFacts ==
  ASSUME NEW d \in Document, NEW r \in d, NEW l \in r.limits
  PROVE  /\ Coarser(l).kind = l.kind /\ Coarser(l).id = l.id /\ Coarser(l).type = l.type
         /\ Coarser(l).max = l.max
         /\ Coarser(l).window = IF l.type = "rolling" THEN l.window - Second ELSE l.window
         /\ Coarser(l) \in Replay!Limits /\ TidyLimit(Coarser(l))
<1>1. /\ l \in Replay!Limits /\ l.window \in Nat /\ l.window >= Second /\ l.window > 0
      /\ l.kind \in Replay!LimitKind
  BY LimitFacts
<1>2. Second \in Nat
  BY ReplayParameters
<1> DEFINE w == IF l.type = "rolling" THEN l.window - Second ELSE l.window
<1>3. w \in Nat /\ (l.type # "rolling" => w > 0)
  BY <1>1, <1>2
<1>4. Coarser(l) = [l EXCEPT !.window = w]
  BY DEF Coarser
<1> HIDE DEF w
<1>5. /\ Coarser(l).kind = l.kind /\ Coarser(l).id = l.id /\ Coarser(l).type = l.type
      /\ Coarser(l).max = l.max /\ Coarser(l).window = w /\ Coarser(l) \in Replay!Limits
  BY <1>1, <1>3, <1>4 DEF Replay!Limits
<1> QED
  BY <1>1, <1>3, <1>5 DEF TidyLimit, w

\* What is in the coarser window of a later second is in the window.
LEMMA StillInWindow ==
  ASSUME NEW d \in Document, NEW r \in d, NEW l \in r.limits,
         l.type = "rolling" \/ l.window % Second = 0,
         NEW s \in Nat, NEW t \in Nat, NEW u \in Nat,
         Replay!Floor(t) <= Replay!Floor(s),
         Replay!Floor(u) >= Replay!WindowStart(Replay!Floor(s), Coarser(l))
  PROVE  u >= Replay!WindowStart(t, l)
<1>1. Second \in Int /\ Second > 0 /\ l.window \in Int /\ l.window > 0
  BY ReplayParameters, LimitFacts
<1>2. /\ Replay!Floor(s) \in Int /\ Replay!Floor(u) \in Int /\ Replay!Floor(t) \in Int
      /\ Replay!Floor(u) <= u /\ Replay!Floor(t) <= t /\ t < Replay!Floor(t) + Second
      /\ Replay!Floor(t) = Second * (t \div Second) /\ t \div Second \in Int
  BY FloorFacts
<1>3. CASE l.type = "rolling"
  <2>1. Replay!WindowStart(Replay!Floor(s), Coarser(l)) = Replay!Floor(s) - (l.window - Second)
    BY <1>3, CoarserFacts DEF Replay!WindowStart
  <2>2. Replay!WindowStart(t, l) = t - l.window
    BY <1>3 DEF Replay!WindowStart
  <2> QED
    BY <1>1, <1>2, <2>1, <2>2
<1>4. CASE l.type # "rolling"
  <2> DEFINE w == l.window
             f == Replay!Floor(s)
             q == w \div Second
             a == t \div w
             b == t \div Second
             c == f \div w
  <2>1. Replay!WindowStart(f, Coarser(l)) = f - (f % w) /\ Replay!WindowStart(t, l) = t - (t % w)
    BY <1>4, CoarserFacts DEF Replay!WindowStart
  <2>2. w \in Int /\ w > 0 /\ f \in Int /\ t \in Int
    BY <1>1, <1>2
  <2>3. /\ q \in Int /\ w = Second * q
    <3>1. w % Second = 0
      BY <1>4
    <3>2. \A x \in Int : x \div Second \in Int /\ x % Second \in Int /\ x = Second * (x \div Second) + (x % Second)
      BY <1>1
    <3> HIDE DEF w
    <3>3. w = Second * q + 0 /\ q \in Int
      BY <2>2, <3>1, <3>2
    <3> HIDE DEF q
    <3> QED
      BY <1>1, <3>3
  <2> HIDE DEF w, f
  <2>4. \A x \in Int : /\ x % w \in Int /\ x \div w \in Int /\ 0 <= x % w /\ x % w < w
                       /\ x = w * (x \div w) + (x % w)
    BY <2>2
  <2>5. a \in Int /\ w * a <= t /\ t - (t % w) = w * a
    BY <2>2, <2>4
  <2>6. c \in Int /\ f < w * c + w /\ f - (f % w) = w * c
    BY <2>2, <2>4
  <2>7. b \in Int /\ Replay!Floor(t) = Second * b /\ t < Second * b + Second
    BY <1>2
  <2> HIDE DEF a, b, c, q
  <2>8. w * a = Second * (q * a)
    BY <1>1, <2>3, <2>5
  <2>9. Second * (q * a) <= Second * b
    <3>1. q * a \in Int
      BY <2>3, <2>5
    <3>2. Second * (q * a) \in Int /\ Second * b \in Int
      BY <1>1, <2>7, <3>1
    <3>3. Second * (q * a) < Second * b + Second
      BY <1>1, <2>2, <2>5, <2>7, <2>8, <3>2
    <3> QED
      BY <1>1, <2>7, <3>1, <3>3, Multiples
  <2>a. w * a \in Int /\ w * c \in Int /\ Second * b \in Int
    BY <1>1, <2>2, <2>5, <2>6, <2>7
  <2>b. w * a < w * c + w
    BY <1>2, <2>2, <2>6, <2>7, <2>8, <2>9, <2>a DEF f
  <2>c. w * a <= w * c
    BY <2>2, <2>5, <2>6, <2>b, Multiples
  <2>d. w * c <= Replay!Floor(u)
    BY <1>2, <2>1, <2>6, <2>a DEF f
  <2> QED
    BY <1>2, <2>1, <2>5, <2>a, <2>c, <2>d
<1> QED
  BY <1>3, <1>4

\* A coarser window has its own time in it.
LEMMA InOwnWindow ==
  ASSUME NEW d \in Document, NEW r \in d, NEW l \in r.limits, NEW s \in Int
  PROVE  s >= Replay!WindowStart(s, Coarser(l)) /\ Replay!WindowStart(s, Coarser(l)) \in Int
<1>1. l.window \in Int /\ l.window > 0 /\ l.window >= Second /\ Second \in Int
  BY ReplayParameters, LimitFacts
<1>2. CASE l.type = "rolling"
  BY <1>1, <1>2, CoarserFacts DEF Replay!WindowStart
<1>3. CASE l.type # "rolling"
  <2>1. Replay!WindowStart(s, Coarser(l)) = s - (s % l.window)
    BY <1>3, CoarserFacts DEF Replay!WindowStart
  <2>2. s % l.window \in Int /\ s % l.window >= 0
    BY <1>1
  <2> QED
    BY <2>1, <2>2
<1> QED
  BY <1>2, <1>3

\* A rule as the replay can compare it.
Lighter(r) == [r EXCEPT !.concurrency = 0, !.limits = Replay!Comparable(@)]

LEMMA LighterFacts ==
  ASSUME NEW d \in Document, NEW r \in d
  PROVE  /\ Lighter(r).id = r.id /\ Lighter(r).mode = r.mode /\ Lighter(r).projects = r.projects
         /\ Lighter(r).denied = r.denied /\ Lighter(r).bound = r.bound /\ Lighter(r).concurrency = 0
         /\ Lighter(r).limits = {Coarser(l) : l \in {l \in r.limits : l.type = "rolling" \/ l.window % Second = 0}}
         /\ \A c : Replay!Applies(Lighter(r), c) <=> Replay!Applies(r, c)
<1>1. Replay!ValidRule(r)
  BY ReplayParameters DEF Replay!ValidDocument
<1>2. Replay!Comparable(r.limits)
        = {Coarser(l) : l \in {l \in r.limits : l.type = "rolling" \/ l.window % Second = 0}}
  BY DEF Replay!Comparable, Coarser
<1> DEFINE k == Replay!Comparable(r.limits)
<1>3. r = [id |-> r.id, mode |-> r.mode, projects |-> r.projects, denied |-> r.denied,
           bound |-> r.bound, limits |-> r.limits, concurrency |-> r.concurrency]
  BY <1>1 DEF Replay!ValidRule
<1>4. Lighter(r) = [id |-> r.id, mode |-> r.mode, projects |-> r.projects, denied |-> r.denied,
                    bound |-> r.bound, limits |-> k, concurrency |-> 0]
  <2> DEFINE x == [r EXCEPT !.concurrency = 0]
  <2>1. x = [id |-> r.id, mode |-> r.mode, projects |-> r.projects, denied |-> r.denied,
             bound |-> r.bound, limits |-> r.limits, concurrency |-> 0]
    BY <1>3
  <2>2. Lighter(r) = [x EXCEPT !.limits = k]
    BY DEF Lighter
  <2> HIDE DEF x, k
  <2> QED
    BY <2>1, <2>2
<1> HIDE DEF k
<1>5. /\ Lighter(r).id = r.id /\ Lighter(r).mode = r.mode /\ Lighter(r).projects = r.projects
      /\ Lighter(r).denied = r.denied /\ Lighter(r).bound = r.bound /\ Lighter(r).concurrency = 0
      /\ Lighter(r).limits = k
  BY <1>4
<1>6. \A c : Replay!Applies(Lighter(r), c) <=> Replay!Applies(r, c)
  BY <1>5 DEF Replay!Applies
<1> QED
  BY <1>2, <1>5, <1>6 DEF k

LEMMA ShorterIsTidy ==
  ASSUME NEW d \in Document
  PROVE  /\ Replay!Shorter(d) = {Lighter(r) : r \in d}
         /\ Tidy(Replay!Shorter(d)) /\ \A r \in Replay!Shorter(d) : r.concurrency \in Nat
<1>1. Replay!Shorter(d) = {Lighter(r) : r \in d}
  BY DEF Replay!Shorter, Lighter
<1>2. \A r, s \in d : Lighter(r).id = Lighter(s).id => Lighter(r) = Lighter(s)
  BY LighterFacts, DocumentsAreTidy DEF Tidy
<1>3. ASSUME NEW r \in d
      PROVE  /\ \A l \in Lighter(r).limits : TidyLimit(l)
             /\ \A l, k \in Lighter(r).limits : <<l.kind, l.id>> = <<k.kind, k.id>> => l = k
             /\ Lighter(r).concurrency \in Nat
  <2>1. /\ Lighter(r).limits = {Coarser(l) : l \in {l \in r.limits : l.type = "rolling" \/ l.window % Second = 0}}
        /\ Lighter(r).concurrency = 0
    BY LighterFacts
  <2>2. \A l, k \in r.limits : <<l.kind, l.id>> = <<k.kind, k.id>> => l = k
    BY DocumentsAreTidy DEF Tidy
  <2>3. \A l \in r.limits : TidyLimit(Coarser(l)) /\ Coarser(l).kind = l.kind /\ Coarser(l).id = l.id
    BY CoarserFacts
  <2> QED
    BY <2>1, <2>2, <2>3
<1> QED
  BY <1>1, <1>2, <1>3 DEF Tidy

\* An admission under an enforcing limit asks for an amount that can be bounded.
LEMMA AmountBounded ==
  ASSUME NEW d \in Document, NEW r \in d, NEW l \in r.limits, NEW c \in Sent, NEW Y, NEW ts,
         r.mode = "enforce", Replay!Applies(r, c), FitsOn(d, Y, ts, c)
  PROVE  /\ Replay!Requested(l.kind, c) # -1
         /\ Replay!Amount(l.kind, c) = Replay!Requested(l.kind, c) /\ Replay!Amount(l.kind, c) \in Nat
         /\ ~ (UsedOf(Y, r, l, ts) + Replay!Amount(l.kind, c) > l.max)
<1>1. Replay!ValidCall(c) /\ l.kind \in Replay!LimitKind
  BY ReplayParameters, LimitFacts
<1>2. ~ Replay!Barred(r, c, TRUE) /\ ~ Replay!Exceeds(l, c, UsedOf(Y, r, l, ts))
  BY DEF FitsOn
<1>3. Replay!Requested(l.kind, c) # -1
  <2> SUFFICES ASSUME Replay!Requested(l.kind, c) = -1 PROVE FALSE
    OBVIOUS
  <2>1. l.kind # "dollars"
    BY <1>2 DEF Replay!Exceeds
  <2>2. l.kind # "requests" /\ l.kind # "input"
    BY <1>1 DEF Replay!Requested, Replay!ValidCall
  <2>3. l.kind \in {"output", "total"}
    BY <1>1, <2>1, <2>2 DEF Replay!LimitKind
  <2>4. c.output = -1
    BY <1>1, <2>3 DEF Replay!Requested, Replay!ValidCall
  <2> QED
    BY <1>2, <2>3, <2>4 DEF Replay!Barred, Replay!NeedsBound
<1>4. Replay!Amount(l.kind, c) = Replay!Requested(l.kind, c) /\ Replay!Amount(l.kind, c) \in Nat
  BY <1>1, <1>3, AmountIsNat DEF Replay!Amount
<1> QED
  BY <1>2, <1>3, <1>4 DEF Replay!Exceeds

\* The admissions behind the samples, one each.
Behind(book, samples) ==
  /\ book \in [DOMAIN samples -> booked]
  /\ \A m, n \in DOMAIN samples : book[m] = book[n] => m = n
  /\ \A n \in DOMAIN samples : /\ samples[n].ts = Replay!Floor(book[n].ts)
                               /\ samples[n].call = book[n].call /\ samples[n].known

LEMMA RowsAreAdmissions ==
  ASSUME ReplayInv, ruled
  PROVE  \E book : Behind(book, Replay!InOrder(rows))
<1> DEFINE samples == Replay!InOrder(rows)
<1>1. ReadSamples(rows)
  BY DEF ReplayInv, ReplayTypeOK
<1>2. PICK p : Reading(p, rows)
  BY <1>1, ReadInOrder
<1>3. DOMAIN samples = DOMAIN rows
  BY <1>1, ReadInOrder
<1>4. /\ \A n \in DOMAIN rows : p[n] \in DOMAIN rows /\ samples[n] = rows[p[n]]
      /\ \A m, n \in DOMAIN rows : p[m] = p[n] => m = n
  BY <1>2 DEF Reading, Bijection, Injection, IsInjective
<1> HIDE DEF samples
<1> DEFINE book == [n \in DOMAIN samples |-> CHOOSE e \in booked : Became(rows, e, p[n])]
<1>5. ASSUME NEW n \in DOMAIN samples PROVE book[n] \in booked /\ Became(rows, book[n], p[n])
  <2>1. \E e \in booked : Became(rows, e, p[n])
    BY <1>3, <1>4 DEF ReplayInv, AdmissionsKept
  <2> QED
    BY <2>1
<1>6. book \in [DOMAIN samples -> booked]
  BY <1>5
<1> HIDE DEF book
<1>7. Behind(book, samples)
  BY <1>3, <1>4, <1>5, <1>6 DEF Behind, Became
<1> QED
  BY <1>7 DEF samples

LEMMA BlockMeans ==
  ASSUME NEW broken, Replay!OutcomeOf(broken) = "block"
  PROVE  \E r \in broken : r.mode = "enforce"
BY DEF Replay!OutcomeOf

\* What the replay counts in a coarser window with the sample itself, the rule
\* once let pass.
LEMMA CountedPassed ==
  ASSUME ReplayInv, ruled, NEW samples, ReadSamples(samples), Sorted(samples),
         NEW book, Behind(book, samples), NEW i \in DOMAIN samples,
         NEW r \in document, r.mode = "enforce", Replay!Applies(r, samples[i].call),
         NEW l \in r.limits, l.type = "rolling" \/ l.window % Second = 0,
         NEW W, W \subseteq 1 .. i - 1,
         \A n \in W : /\ Replay!Applies(r, samples[n].call)
                      /\ samples[n].ts >= Replay!WindowStart(samples[i].ts, Coarser(l))
  PROVE  /\ SumOf(Amounts(samples, l.kind), W) \in Nat
         /\ ~ (SumOf(Amounts(samples, l.kind), W) + Replay!Amount(l.kind, samples[i].call) > l.max)
<1> DEFINE V == W \cup {i}
           X == {book[n] : n \in V}
           A == Amounts(samples, l.kind)
           G == [e \in X |-> Replay!Amount(l.kind, e.call)]
<1>0. /\ Len(samples) \in Nat /\ DOMAIN samples = 1 .. Len(samples) /\ i \in 1 .. Len(samples)
      /\ \A n \in 1 .. Len(samples) : samples[n].ts \in Int /\ Replay!ValidCall(samples[n].call)
  BY SampleFacts
<1>1. /\ l.kind \in Replay!LimitKind /\ l.max \in Nat /\ document \in Document
      /\ booked \subseteq Admission /\ IsFiniteSet(booked)
  BY LimitFacts DEF ReplayInv, ReplayTypeOK, Admission
<1>2. V \subseteq 1 .. Len(samples) /\ i \notin W /\ \A n \in V : n <= i
  <2>1. \A n \in W : n \in 1 .. i - 1
    OBVIOUS
  <2>2. \A n \in 1 .. i - 1 : n \in 1 .. Len(samples) /\ n <= i /\ n # i
    BY <1>0
  <2>3. i \in 1 .. Len(samples) /\ i <= i
    BY <1>0
  <2>4. \A n \in W : n \in 1 .. Len(samples) /\ n <= i /\ n # i
    BY <2>1, <2>2
  <2>5. \A n \in V : n \in 1 .. Len(samples) /\ n <= i
    BY <2>3, <2>4
  <2>6. i \notin W
    BY <2>4
  <2> HIDE DEF V
  <2> QED
    BY <2>5, <2>6
<1>3. /\ book \in [DOMAIN samples -> booked]
      /\ \A m, n \in V : book[m] = book[n] => m = n
      /\ \A n \in V : /\ book[n] \in booked /\ book[n] \in Admission
                      /\ samples[n].ts = Replay!Floor(book[n].ts) /\ samples[n].call = book[n].call
  BY <1>0, <1>1, <1>2 DEF Behind
<1>4. X # {} /\ X \subseteq booked /\ X \subseteq Admission
  BY <1>1, <1>3
<1>5. IsFiniteSet(W) /\ IsFiniteSet(V) /\ IsFiniteSet(X)
  <2>1. IsFiniteSet(1 .. i - 1)
    BY <1>0, FS_Interval
  <2>2. IsFiniteSet(W)
    BY <2>1, FS_Subset
  <2>3. IsFiniteSet(V)
    BY <2>2, FS_AddElement
  <2> HIDE DEF X
  <2>4. IsFiniteSet(X)
    BY <1>1, <1>4, FS_Subset
  <2> QED
    BY <2>2, <2>3, <2>4
<1>6. PICK k \in X : FitsOn(document, X \ {k}, k.ts, k.call)
  <2> HIDE DEF X
  <2> QED
    BY <1>4 DEF ReplayInv, OneFits
<1>7. \A n \in V : Replay!Applies(r, samples[n].call)
  OBVIOUS
<1>8. \A n \in V : samples[n].ts >= Replay!WindowStart(samples[i].ts, Coarser(l))
  BY <1>0, <1>1, InOwnWindow
<1>9. PICK m \in V : k = book[m]
  OBVIOUS
<1>a. CountedOf(X \ {k}, r, l, k.ts) = X \ {k}
  <2> SUFFICES ASSUME NEW e \in X \ {k}
               PROVE  Replay!Applies(r, e.call) /\ e.ts >= Replay!WindowStart(k.ts, l)
    BY DEF CountedOf
  <2>1. PICK n \in V : e = book[n]
    OBVIOUS
  <2>2. Replay!Applies(r, e.call)
    BY <1>3, <1>7, <2>1
  <2>3. /\ book[i].ts \in Nat /\ book[m].ts \in Nat /\ book[n].ts \in Nat
    BY <1>3, AdmissionFacts
  <2>4. samples[m].ts <= samples[i].ts
    BY <1>0, <1>2 DEF Sorted
  <2>5. /\ Replay!Floor(book[m].ts) <= Replay!Floor(book[i].ts)
        /\ Replay!Floor(book[n].ts) >= Replay!WindowStart(Replay!Floor(book[i].ts), Coarser(l))
    BY <1>3, <1>8, <2>4
  <2>6. book[n].ts >= Replay!WindowStart(book[m].ts, l)
    BY <1>1, <2>3, <2>5, StillInWindow
  <2> QED
    BY <1>9, <2>1, <2>2, <2>6
<1>b. \A e \in X : G[e] \in Nat
  <2>1. \A e \in X : Replay!Amount(l.kind, e.call) \in Nat
    BY <1>1, <1>4, AdmissionFacts
  <2> HIDE DEF X
  <2> QED
    BY <2>1
<1>c. UsedOf(X \ {k}, r, l, k.ts) = SumOf(G, X \ {k})
  <2> DEFINE g == [e \in X \ {k} |-> Replay!Amount(l.kind, e.call)]
  <2>1. \A e \in X \ {k} : g[e] = G[e]
    <3> HIDE DEF X
    <3> QED
      OBVIOUS
  <2>2. SumOf(g, X \ {k}) = SumOf(G, X \ {k})
    <3> HIDE DEF g, G, X
    <3> QED
      BY <2>1, SumSame
  <2> HIDE DEF X
  <2> QED
    BY <1>a, <2>2 DEF UsedOf
<1>d. /\ G[k] = Replay!Amount(l.kind, k.call) /\ G[k] \in Nat
      /\ ~ (UsedOf(X \ {k}, r, l, k.ts) + Replay!Amount(l.kind, k.call) > l.max)
  <2>1. k.call \in Sent /\ Replay!Applies(r, k.call)
    BY <1>3, <1>7, <1>9, AdmissionFacts
  <2>2. G[k] = Replay!Amount(l.kind, k.call)
    <3> HIDE DEF X
    <3> QED
      OBVIOUS
  <2> HIDE DEF X, G
  <2> QED
    BY <1>1, <1>6, <1>b, <2>1, <2>2, AmountBounded
<1>e. SumOf(G, X \ {k}) = SumOf(G, X) - G[k] /\ SumOf(G, X) \in Nat
  <2> HIDE DEF X, G
  <2> QED
    BY <1>5, <1>b, SumRemove, SumFinite
<1>f. \A n \in V : A[n] = Replay!Amount(l.kind, samples[n].call) /\ A[n] \in Nat
  BY <1>1, <1>2, SampleFacts
<1>g. SumOf(G, X) = SumOf(A, V)
  <2> DEFINE b == [n \in V |-> book[n]]
  <2>1. b \in Bijection(V, X)
    BY <1>3 DEF Bijection, Injection, Surjection, IsInjective
  <2>2. \A n \in V : A[n] \in Nat /\ G[b[n]] = A[n]
    <3> SUFFICES ASSUME NEW n \in V PROVE A[n] \in Nat /\ G[b[n]] = A[n]
      OBVIOUS
    <3>1. book[n] \in X /\ book[n].call = samples[n].call /\ b[n] = book[n]
      BY <1>3
    <3>2. G[book[n]] = Replay!Amount(l.kind, book[n].call)
      <4> HIDE DEF X
      <4> QED
        BY <3>1
    <3> HIDE DEF A, G, b, X
    <3> QED
      BY <1>f, <3>1, <3>2
  <2> HIDE DEF A, G, b, X, V
  <2> QED
    BY <1>5, <2>1, <2>2, SumRename
<1>h. SumOf(A, V) = SumOf(A, W) + A[i] /\ SumOf(A, W) \in Nat
  <2> HIDE DEF A
  <2> QED
    BY <1>2, <1>5, <1>f, SumAdd, SumFinite
<1>i. A[i] = Replay!Amount(l.kind, samples[i].call) /\ A[i] \in Nat
  BY <1>f
<1> HIDE DEF A, G, X, V
<1> QED
  BY <1>1, <1>c, <1>d, <1>e, <1>g, <1>h, <1>i DEF A

LEMMA SurvivesNow == ReplayInv => AdmittedSurvivesReplay
<1> SUFFICES ASSUME ReplayInv, ruled PROVE Replay!NoneBlocked(Replay!Shorter(document))
  BY DEF AdmittedSurvivesReplay, Replay!AdmittedSurvivesReplay
<1> DEFINE samples == Replay!InOrder(rows)
           d == Replay!Shorter(document)
           outcomes == Replay!Simulate(d, samples)
<1>1. SUFFICES ASSUME NEW i \in DOMAIN samples, outcomes[i].outcome = "block" PROVE FALSE
  BY DEF Replay!NoneBlocked
<1>2. document \in Document /\ ReadSamples(rows) /\ booked \subseteq Admission
  BY DEF ReplayInv, ReplayTypeOK, Admission
<1>3. ReadSamples(samples) /\ Sorted(samples)
  BY <1>2, ReadInOrder
<1>4. PICK book : Behind(book, samples)
  BY RowsAreAdmissions
<1> HIDE DEF samples
<1>5. d = {Lighter(r) : r \in document} /\ Tidy(d) /\ \A r \in d : r.concurrency \in Nat
  BY <1>2, ShorterIsTidy
<1> HIDE DEF d
<1>6. outcomes[i] = Replay!Verdict({r \in d : BrokenBy(r, samples, outcomes, i)})
  <2>1. outcomes[i] = Replay!Expected(d, samples, outcomes, i)
    BY <1>1, <1>3, <1>5, SimulateExpects
  <2> HIDE DEF outcomes
  <2> QED
    BY <1>1, <1>3, <2>1, ExpectedIsBroken
<1> HIDE DEF outcomes
<1>7. PICK x \in d : BrokenBy(x, samples, outcomes, i) /\ x.mode = "enforce"
  <2>1. Replay!OutcomeOf({r \in d : BrokenBy(r, samples, outcomes, i)}) = "block"
    BY <1>1, <1>6 DEF Replay!Verdict
  <2> QED
    BY <2>1, BlockMeans
<1>8. PICK r \in document : x = Lighter(r)
  BY <1>5
<1>9. /\ x.mode = r.mode /\ x.projects = r.projects /\ x.denied = r.denied /\ x.bound = r.bound
      /\ x.concurrency = 0 /\ \A c : Replay!Applies(x, c) <=> Replay!Applies(r, c)
      /\ x.limits = {Coarser(l) : l \in {l \in r.limits : l.type = "rolling" \/ l.window % Second = 0}}
  BY <1>2, <1>8, LighterFacts
<1>a. Replay!Applies(x, samples[i].call) /\ Replay!Applies(r, samples[i].call)
  BY <1>7, <1>9 DEF BrokenBy
<1>b. /\ book[i] \in booked /\ samples[i].call = book[i].call /\ samples[i].known
      /\ samples[i].call \in Sent
  BY <1>1, <1>2, <1>4, AdmissionFacts DEF Behind
<1>c. FitsOn(document, {}, book[i].ts, samples[i].call)
  <2>1. \E k \in {book[i]} : FitsOn(document, {book[i]} \ {k}, k.ts, k.call)
    <3> DEFINE X == {book[i]}
    <3>1. X \in SUBSET booked /\ X # {}
      BY <1>b
    <3> HIDE DEF X
    <3>2. \E k \in X : FitsOn(document, X \ {k}, k.ts, k.call)
      BY <3>1 DEF ReplayInv, OneFits
    <3> QED
      BY <3>2 DEF X
  <2>2. {book[i]} \ {book[i]} = {}
    OBVIOUS
  <2> QED
    BY <1>b, <2>1, <2>2
<1>d. ~ Replay!Barred(x, samples[i].call, samples[i].known)
  <2>1. ~ Replay!Barred(r, samples[i].call, TRUE)
    BY <1>7, <1>9, <1>a, <1>c DEF FitsOn
  <2>2. Replay!NeedsBound(x) => Replay!NeedsBound(r)
    BY <1>2, <1>9, CoarserFacts DEF Replay!NeedsBound
  <2> QED
    BY <1>9, <1>b, <2>1, <2>2 DEF Replay!Barred
<1>e. ~ (x.concurrency > 0)
  BY <1>9
<1>f. PICK y \in x.limits :
        Replay!Exceeds(y, samples[i].call,
          SumOf(Amounts(samples, y.kind),
                Within(samples, Passed(outcomes, samples, x, i - 1),
                       Replay!WindowStart(samples[i].ts, y))))
  BY <1>7, <1>d, <1>e DEF BrokenBy
<1>g. PICK l \in r.limits : y = Coarser(l) /\ (l.type = "rolling" \/ l.window % Second = 0)
  BY <1>9
<1> DEFINE W == Within(samples, Passed(outcomes, samples, x, i - 1),
                       Replay!WindowStart(samples[i].ts, Coarser(l)))
<1>h. W \subseteq 1 .. i - 1 /\ \A n \in W : /\ Replay!Applies(r, samples[n].call)
                                            /\ samples[n].ts >= Replay!WindowStart(samples[i].ts, Coarser(l))
  BY <1>9 DEF Within, Passed
<1> HIDE DEF W
<1>i. /\ SumOf(Amounts(samples, l.kind), W) \in Nat
      /\ ~ (SumOf(Amounts(samples, l.kind), W) + Replay!Amount(l.kind, samples[i].call) > l.max)
  BY <1>1, <1>3, <1>4, <1>7, <1>9, <1>a, <1>g, <1>h, CountedPassed
<1>j. /\ Replay!Requested(l.kind, samples[i].call) # -1
      /\ Replay!Amount(l.kind, samples[i].call) = Replay!Requested(l.kind, samples[i].call)
  BY <1>2, <1>7, <1>9, <1>a, <1>b, <1>c, AmountBounded
<1>k. y.kind = l.kind /\ y.max = l.max
  BY <1>2, <1>g, CoarserFacts
<1>l. Replay!Exceeds(y, samples[i].call, SumOf(Amounts(samples, l.kind), W))
  BY <1>f, <1>g, <1>k DEF W
<1> QED
  BY <1>i, <1>j, <1>k, <1>l DEF Replay!Exceeds

\* A document under which every call was admitted blocks none of them in the
\* replay, whatever order the calls were evaluated and booked in, with rolling
\* windows read a second shorter and fixed ones that start at whole seconds
\* (Prepare, Simulate).
THEOREM AdmittedSurvives == Replay!Spec => []AdmittedSurvivesReplay
<1>1. ReplayInv => AdmittedSurvivesReplay
  BY SurvivesNow
<1> QED
  BY <1>1, ReplayInductive, PTL
===============================================================================
