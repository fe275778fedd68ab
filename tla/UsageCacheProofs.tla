--------------------------- MODULE UsageCacheProofs ---------------------------
(***************************************************************************)
(* Proofs about UsageCache for any handlers, direct mutations, agents,     *)
(* windows and bounds: whenever the sequence lock lets the guard trust its *)
(* warm windows or its cached baseline, they say what the ledger says.     *)
(***************************************************************************)
EXTENDS UsageCache, FiniteSetTheorems, TLAPS

Mutation == {"mutate", "committed", "aborted"}
Reading == {"read", "globals", "agent", "publish", "median", "history"}
Phase == {"idle", "arrived", "admitted", "settle", "done"} \cup Reading \cup Mutation

TypeInv ==
  /\ now \in Time /\ rows \in SUBSET Row
  /\ ts \in [Row -> Time] /\ owner \in [Row -> Agent \cup {NoAgent}]
  /\ revision \in Nat /\ mutex \in Row \cup {Nobody} /\ lock \in Call \cup {Nobody}
  /\ phase \in [Row -> Phase] /\ snap \in Nat
  /\ cacheRevision \in Nat /\ entries \in Nat /\ capped \in SUBSET Agent
  /\ base \in [start : Time \cup {NoStart}, revision : Nat, history : SUBSET Row]

\* Whose turn it is: the revision is odd exactly while somebody mutates the
\* ledger, a handler's reading and settling are under the guard's mutex, and
\* rows are of who has committed.
Turns ==
  /\ Even(revision) <=> mutex = Nobody
  /\ mutex # Nobody => phase[mutex] \in Mutation
  /\ \A r \in Row : phase[r] = "mutate" => mutex = r
  /\ \A r \in Direct :
       /\ phase[r] \in {"idle", "done"} \cup Mutation
       /\ phase[r] \in Mutation => mutex = r
  /\ \A c \in Call : phase[c] \in {"settle"} \cup Reading \cup Mutation <=> lock = c
  /\ \A r \in rows : phase[r] \in {"committed", "done"}
  /\ \A r \in Row : phase[r] # "idle" => owner[r] \in Agent

\* What a handler remembers of the revision, by where it stands.
Readings ==
  \A c \in Call :
    /\ phase[c] \in {"globals", "agent", "publish", "history"} => Even(snap) /\ snap <= revision
    /\ phase[c] \in {"globals", "agent", "publish"} => cacheRevision = snap
    /\ phase[c] = "settle" => snap <= revision
    /\ phase[c] \in Mutation => snap + (IF mutex = c THEN 1 ELSE 2) <= revision

\* What is cached is of a quiet ledger of the past.
Revisions ==
  /\ cacheRevision <= revision /\ (~Even(cacheRevision) => Warm = {})
  /\ base.revision <= revision /\ (base.start # NoStart => Even(base.revision))

\* What the windows are of.
Keys ==
  /\ \A k \in active : ~IsAgentKey(k)
  /\ \A k \in Warm :
       /\ k \in Int \X (Agent \cup {NoAgent})
       /\ IF IsAgentKey(k) THEN \E t \in Time : k[1] = Day[t] ELSE k \in active
  /\ \A c \in Call :
       /\ phase[c] = "agent" => DOMAIN loaded \subseteq GlobalKeys(c)
       /\ phase[c] = "publish" => DOMAIN loaded \subseteq Wanted(c)

\* There are no more warm windows of agents than counted and allowed.
AgentsBounded ==
  /\ IsFiniteSet(WarmAgents(usage)) /\ entries = Cardinality(WarmAgents(usage))
  /\ entries <= MaxAgents

\* A window is right about the rows R: it counts only rows of its own, and
\* misses none, but for an agent's, which may miss rows of a later day.
In(r, k) == ts[r] >= k[1] /\ (IsAgentKey(k) => owner[r] = k[2])
RightFor(R, k, use) ==
  /\ \A r \in use : r \in R /\ In(r, k)
  /\ \A r \in R : In(r, k) => r \in use \/ (IsAgentKey(k) /\ Day[ts[r]] > k[1])
RightAbout(R) == \A k \in Warm : RightFor(R, k, usage[k])

\* They are right at their revision and until the next mutation commits.  While
\* a settlement is under way that alone moved the revision, they are right but
\* for its row.  What a scan has loaded is right until the revision moves.
WindowsRight ==
  /\ cacheRevision = revision => RightAbout(rows)
  /\ \A r \in Row : phase[r] = "mutate" /\ revision = cacheRevision + 1 => RightAbout(rows)
  /\ \A c \in Call : phase[c] = "committed" /\ Even(snap) /\ cacheRevision = snap
                      /\ revision <= snap + 2 =>
       c \in rows /\ RightAbout(rows \ {c})
  /\ \A c \in Call : phase[c] \in {"agent", "publish"} /\ revision = snap =>
       \A k \in DOMAIN loaded : RightFor(rows, k, loaded[k])

\* The same of the baseline.
BaseRight(R) == \A r \in Row : r \in base.history <=> r \in R /\ ts[r] < base.start
ScanKey(c) == Global(Slot[ts[c]])
ScanRight(c) == \A r \in Row : r \in loaded[ScanKey(c)] <=> r \in rows /\ ts[r] < Slot[ts[c]]
BaselineRight ==
  /\ base.start # NoStart =>
       /\ base.revision = revision => BaseRight(rows)
       /\ \A r \in Row : phase[r] = "mutate" /\ revision = base.revision + 1 => BaseRight(rows)
       /\ \A c \in Call : phase[c] = "committed" /\ Even(snap) /\ base.revision = snap
                          /\ revision <= snap + 2 =>
            BaseRight(rows \ {c})
  /\ \A c \in Call : phase[c] = "history" =>
       /\ ScanKey(c) \in DOMAIN loaded /\ loaded[ScanKey(c)] \in SUBSET Row
       /\ revision = snap => ScanRight(c)

\* The inductive invariant.
CacheInv ==
  TypeInv /\ Turns /\ Readings /\ Revisions /\ Keys /\ AgentsBounded /\ WindowsRight /\ BaselineRight

-----------------------------------------------------------------------------
LEMMA Parity ==
  /\ \A n \in Nat : (Even(n + 1) <=> ~Even(n)) /\ (Even(n + 2) <=> Even(n))
  /\ Even(0)
BY DEF Even

LEMMA CacheConstants ==
  /\ MaxTime \in Nat /\ MaxAgents \in Nat /\ MaxAgents >= 1
  /\ NoAgent \notin Agent /\ Call \cap Direct = {} /\ Nobody \notin Row
  /\ 0 \in Time /\ NoStart \notin Time /\ \A t \in Time : t \in Nat
  /\ \A t \in Time : Cutoffs[t] \subseteq Int /\ Day[t] \in Time /\ Slot[t] \in Time
  /\ \A s, t \in Time : s >= Day[t] => Day[s] >= Day[t]
<1>1. MaxTime \in Nat /\ MaxAgents \in Nat /\ MaxAgents >= 1
  BY LimitAssumption
<1>2. 0 \in Time /\ NoStart \notin Time /\ \A t \in Time : t \in Nat
  BY <1>1 DEF Time, NoStart
<1> QED
  BY <1>1, <1>2, NameAssumption, WindowAssumption DEF Row

LEMMA InitInv == Init => CacheInv
<1> SUFFICES ASSUME Init PROVE CacheInv
  OBVIOUS
<1> USE DEF Init
<1>1. TypeInv
  BY CacheConstants DEF TypeInv, Phase, NoBase
<1>2. Turns /\ Readings
  BY Parity, CacheConstants DEF Turns, Readings, Mutation, Reading, Row
<1>3. Warm = {} /\ WarmAgents(usage) = {} /\ base.start = NoStart /\ base.revision = 0
  <2>1. Warm = {}
    BY DEF Warm, Empty
  <2> QED
    BY <2>1 DEF Warm, WarmAgents, NoBase
<1>4. Revisions /\ Keys
  BY <1>3, Parity DEF Revisions, Keys, Row
<1>5. AgentsBounded
  BY <1>3, FS_EmptySet, CacheConstants DEF AgentsBounded
<1>6. WindowsRight /\ BaselineRight
  BY <1>3 DEF WindowsRight, BaselineRight, RightAbout, Row
<1> QED
  BY <1>1, <1>2, <1>4, <1>5, <1>6 DEF CacheInv

-----------------------------------------------------------------------------
(* What Publish makes of the warm windows and of what was loaded.          *)

\* w holds some of them, and counts its agents' windows.
SomeOf(w) ==
  /\ w = [use |-> w.use, count |-> w.count]
  /\ DOMAIN w.use \subseteq Warm \cup DOMAIN loaded
  /\ \A k \in DOMAIN w.use : w.use[k] = IF k \in Warm THEN usage[k] ELSE loaded[k]
  /\ IsFiniteSet(WarmAgents(w.use)) /\ w.count = Cardinality(WarmAgents(w.use))

LEMMA KeepIsSomeOf ==
  ASSUME NEW w, SomeOf(w), NEW K
  PROVE  LET f == Keep(w.use, K)
         IN  /\ SomeOf([use |-> f, count |-> Cardinality(WarmAgents(f))])
             /\ DOMAIN f = DOMAIN w.use \cap K
             /\ WarmAgents(f) = WarmAgents(w.use) \cap K
             /\ Cardinality(WarmAgents(f)) <= w.count
<1> DEFINE f == Keep(w.use, K)
<1>1. DOMAIN f = DOMAIN w.use \cap K /\ \A k \in DOMAIN f : f[k] = w.use[k]
  BY DEF Keep
<1> HIDE DEF f
<1>2. WarmAgents(f) = WarmAgents(w.use) \cap K
  BY <1>1 DEF WarmAgents
<1>3. IsFiniteSet(WarmAgents(f)) /\ Cardinality(WarmAgents(f)) <= w.count
  BY <1>2, FS_Subset DEF SomeOf
<1> QED
  BY <1>1, <1>2, <1>3 DEF SomeOf, f

LEMMA MergedIsSomeOf ==
  ASSUME AgentsBounded, NEW c \in Call, DOMAIN loaded \subseteq Wanted(c)
  PROVE  /\ SomeOf(Merged) /\ DOMAIN Merged.use = Warm \cup DOMAIN loaded
         /\ WarmAgents(loaded) \ Warm = {} => Merged.count = entries
<1>1. /\ Merged = [use |-> Merged.use, count |-> Merged.count]
      /\ DOMAIN Merged.use = Warm \cup DOMAIN loaded
      /\ \A k \in DOMAIN Merged.use : Merged.use[k] = IF k \in Warm THEN usage[k] ELSE loaded[k]
      /\ Merged.count = entries + Cardinality(WarmAgents(loaded) \ Warm)
  BY DEF Merged
<1>2. WarmAgents(Merged.use) = WarmAgents(usage) \cup (WarmAgents(loaded) \ Warm)
  BY <1>1 DEF WarmAgents, Warm
<1>3. WarmAgents(loaded) \ Warm \subseteq {AgentKey(c)}
  BY DEF WarmAgents, Wanted, GlobalKeys, AgentKeys, IsAgentKey, Global
<1>4. IsFiniteSet(WarmAgents(loaded) \ Warm)
  BY <1>3, FS_Singleton, FS_Subset
<1>5. WarmAgents(usage) \cap (WarmAgents(loaded) \ Warm) = {}
  BY DEF WarmAgents, Warm
<1>6. /\ IsFiniteSet(WarmAgents(Merged.use))
      /\ Cardinality(WarmAgents(Merged.use)) =
           Cardinality(WarmAgents(usage)) + Cardinality(WarmAgents(loaded) \ Warm)
  <2> DEFINE A == WarmAgents(usage)
             B == WarmAgents(loaded) \ Warm
  <2>1. IsFiniteSet(A) /\ IsFiniteSet(B) /\ Cardinality(A \cap B) = 0
    BY <1>4, <1>5, FS_EmptySet DEF AgentsBounded
  <2>2. Cardinality(A) \in Nat /\ Cardinality(B) \in Nat
    BY <2>1, FS_CardinalityType
  <2>3. WarmAgents(Merged.use) = A \cup B
    BY <1>2
  <2> HIDE DEF A, B
  <2>4. IsFiniteSet(A \cup B) /\ Cardinality(A \cup B) = Cardinality(A) + Cardinality(B)
    <3>1. /\ IsFiniteSet(A \cup B)
          /\ Cardinality(A \cup B) = Cardinality(A) + Cardinality(B) - Cardinality(A \cap B)
      BY <2>1, FS_Union
    <3> QED
      BY <2>1, <2>2, <3>1
  <2> QED
    BY <2>3, <2>4 DEF A, B
<1>7. entries \in Nat
  BY FS_CardinalityType DEF AgentsBounded
<1>8. WarmAgents(loaded) \ Warm = {} => Merged.count = entries
  BY <1>1, <1>7, FS_EmptySet
<1>9. Merged.count = Cardinality(WarmAgents(Merged.use))
  BY <1>1, <1>6 DEF AgentsBounded
<1> QED
  BY <1>1, <1>6, <1>8, <1>9 DEF SomeOf

LEMMA BoundedIsSomeOf ==
  ASSUME AgentsBounded, NEW c \in Call, DOMAIN loaded \subseteq Wanted(c),
         NEW w, w = Bounded(c, Merged)
  PROVE  SomeOf(w) /\ w.count <= MaxAgents
<1>1. SomeOf(Merged) /\ (WarmAgents(loaded) \ Warm = {} => Merged.count = entries)
  BY MergedIsSomeOf
<1>2. CASE WarmAgents(loaded) \ Warm = {} \/ Merged.count <= MaxAgents
  BY <1>1, <1>2 DEF Bounded, AgentsBounded
<1>3. CASE ~(WarmAgents(loaded) \ Warm = {} \/ Merged.count <= MaxAgents)
  <2> DEFINE K == {k \in DOMAIN Merged.use : ~IsAgentKey(k)} \cup AgentKeys(c)
             f == Keep(Merged.use, K)
  <2>1. w = [use |-> f, count |-> Cardinality(WarmAgents(f))]
    BY <1>3 DEF Bounded
  <2>2. SomeOf(w) /\ WarmAgents(f) = WarmAgents(Merged.use) \cap K
    <3> HIDE DEF K
    <3>1. /\ SomeOf([use |-> f, count |-> Cardinality(WarmAgents(f))])
          /\ WarmAgents(f) = WarmAgents(Merged.use) \cap K
      BY <1>1, KeepIsSomeOf
    <3> HIDE DEF f
    <3> QED
      BY <2>1, <3>1
  <2>3. WarmAgents(f) \subseteq {AgentKey(c)}
    BY <2>2 DEF AgentKeys, WarmAgents
  <2> HIDE DEF f
  <2>4. Cardinality(WarmAgents(f)) <= 1
    <3>1. IsFiniteSet({AgentKey(c)}) /\ Cardinality({AgentKey(c)}) = 1
      BY FS_Singleton
    <3>2. Cardinality(WarmAgents(f)) <= Cardinality({AgentKey(c)})
      BY <2>3, <3>1, FS_Subset
    <3> QED
      BY <3>1, <3>2
  <2>5. Cardinality(WarmAgents(f)) \in Nat
    BY <2>3, FS_Singleton, FS_Subset, FS_CardinalityType
  <2> QED
    BY <2>1, <2>2, <2>4, <2>5, CacheConstants
<1> QED
  BY <1>2, <1>3

LEMMA RolledIsSomeOf ==
  ASSUME NEW w, SomeOf(w), NEW c \in Call, NEW v, v = Rolled(c, w)
  PROVE  SomeOf(v) /\ v.count <= w.count /\ DOMAIN v.use \subseteq DOMAIN w.use
<1>1. w.count \in Nat
  BY FS_CardinalityType DEF SomeOf
<1>2. CASE agentDay \in {NoStart, Day[ts[c]]}
  BY <1>1, <1>2 DEF Rolled
<1>3. CASE agentDay \notin {NoStart, Day[ts[c]]}
  <2> DEFINE K == {k \in DOMAIN w.use : IsAgentKey(k) => k[1] = Day[ts[c]]}
             f == Keep(w.use, K)
  <2>1. v = [use |-> f, count |-> Cardinality(WarmAgents(f))]
    BY <1>3 DEF Rolled
  <2> QED
    <3> HIDE DEF K
    <3>1. /\ SomeOf([use |-> f, count |-> Cardinality(WarmAgents(f))])
          /\ DOMAIN f = DOMAIN w.use \cap K /\ Cardinality(WarmAgents(f)) <= w.count
      BY KeepIsSomeOf
    <3> HIDE DEF f
    <3> QED
      BY <2>1, <3>1
<1> QED
  BY <1>2, <1>3

LEMMA UncappedIsSomeOf ==
  ASSUME NEW w, SomeOf(w), NEW c \in Call, owner[c] # NoAgent, NEW v, v = Uncapped(c, w)
  PROVE  SomeOf(v) /\ v.count <= w.count /\ DOMAIN v.use \subseteq DOMAIN w.use
<1>1. w.count \in Nat
  BY FS_CardinalityType DEF SomeOf
<1>2. CASE owner[c] \in capped \/ AgentKey(c) \notin DOMAIN w.use
  BY <1>1, <1>2 DEF Uncapped
<1>3. CASE ~(owner[c] \in capped \/ AgentKey(c) \notin DOMAIN w.use)
  <2> DEFINE K == DOMAIN w.use \ {AgentKey(c)}
             f == Keep(w.use, K)
  <2>1. AgentKey(c) \in WarmAgents(w.use)
    BY <1>3 DEF WarmAgents, IsAgentKey, AgentKey
  <2>2. /\ SomeOf([use |-> f, count |-> Cardinality(WarmAgents(f))])
        /\ WarmAgents(f) = WarmAgents(w.use) \cap K
        /\ DOMAIN f \subseteq DOMAIN w.use
    <3> HIDE DEF K
    <3> QED
      BY KeepIsSomeOf
  <2>3. WarmAgents(f) = WarmAgents(w.use) \ {AgentKey(c)}
    BY <2>2 DEF WarmAgents
  <2>4. Cardinality(WarmAgents(f)) = w.count - 1 /\ Cardinality(WarmAgents(f)) \in Nat
    <3>1. IsFiniteSet(WarmAgents(w.use)) /\ w.count = Cardinality(WarmAgents(w.use))
      BY DEF SomeOf
    <3> QED
      BY <2>1, <2>3, <3>1, FS_RemoveElement, FS_CardinalityType
  <2>5. v = [use |-> f, count |-> Cardinality(WarmAgents(f))]
    BY <1>1, <1>3, <2>4 DEF Uncapped
  <2> QED
    BY <1>1, <2>2, <2>4, <2>5
<1> QED
  BY <1>2, <1>3

\* What is warm afterwards was warm before or has been loaded; a window that
\* is no agent's is one that was just checked.
LEMMA PublishedIsSomeOf ==
  ASSUME TypeInv, Keys, AgentsBounded, NEW c \in Call, NEW denied \in BOOLEAN,
         Publish(c, denied), owner[c] # NoAgent
  PROVE  /\ Warm' \subseteq Warm \cup DOMAIN loaded
         /\ \A k \in Warm' : usage'[k] = IF k \in Warm THEN usage[k] ELSE loaded[k]
         /\ \A k \in Warm' : ~IsAgentKey(k) => k \in GlobalKeys(c)
         /\ AgentsBounded'
<1>1. DOMAIN loaded \subseteq Wanted(c)
  BY DEF Publish, Keys
<1> DEFINE w == Bounded(c, Merged)
           f == Keep(w.use, DOMAIN w.use \ (active \ GlobalKeys(c)))
           u == [w EXCEPT !.use = f]
           v == Rolled(c, u)
           x == Uncapped(c, v)
<1>2. usage' = x.use /\ entries' = x.count
  BY DEF Publish, Reconciled
<1>3. SomeOf(w) /\ w.count <= MaxAgents
  BY <1>1, BoundedIsSomeOf
<1>4. /\ SomeOf([use |-> f, count |-> Cardinality(WarmAgents(f))])
      /\ DOMAIN f = DOMAIN w.use \ (active \ GlobalKeys(c))
      /\ WarmAgents(f) = WarmAgents(w.use) \cap (DOMAIN w.use \ (active \ GlobalKeys(c)))
  <2> DEFINE K == DOMAIN w.use \ (active \ GlobalKeys(c))
  <2>1. DOMAIN w.use \cap K = K
    OBVIOUS
  <2> HIDE DEF w, K
  <2>2. /\ SomeOf([use |-> Keep(w.use, K), count |-> Cardinality(WarmAgents(Keep(w.use, K)))])
        /\ DOMAIN Keep(w.use, K) = K /\ WarmAgents(Keep(w.use, K)) = WarmAgents(w.use) \cap K
    BY <1>3, <2>1, KeepIsSomeOf
  <2> QED
    BY <2>2 DEF K
<1>5. WarmAgents(f) = WarmAgents(w.use)
  BY <1>4 DEF Keys, WarmAgents
<1>6. u = [use |-> f, count |-> w.count]
  <2> HIDE DEF w, f
  <2> QED
    BY <1>3 DEF SomeOf
<1>7. SomeOf(u) /\ u.count = w.count /\ u.use = f
  <2> HIDE DEF w, f
  <2> QED
    BY <1>3, <1>4, <1>5, <1>6 DEF SomeOf
<1>8. SomeOf(v) /\ v.count <= u.count /\ DOMAIN v.use \subseteq DOMAIN f
  <2> HIDE DEF u, f
  <2> QED
    BY <1>7, RolledIsSomeOf
<1>9. SomeOf(x) /\ x.count <= v.count /\ DOMAIN x.use \subseteq DOMAIN v.use
  <2> HIDE DEF v
  <2> QED
    BY <1>8, UncappedIsSomeOf
<1> HIDE DEF w, f, u, v, x
<1>10. w.count \in Nat /\ u.count \in Nat /\ v.count \in Nat /\ x.count \in Nat
  BY <1>3, <1>7, <1>8, <1>9, FS_CardinalityType DEF SomeOf
<1>11. ASSUME NEW k \in DOMAIN f, ~IsAgentKey(k) PROVE k \in GlobalKeys(c)
  BY <1>1, <1>3, <1>4, <1>11 DEF SomeOf, Keys, Wanted, AgentKeys, AgentKey, IsAgentKey
<1>12. AgentsBounded'
  BY <1>2, <1>3, <1>7, <1>8, <1>9, <1>10, CacheConstants DEF SomeOf, AgentsBounded, WarmAgents
<1>13. Warm' = DOMAIN x.use /\ Warm' \subseteq DOMAIN f
  BY <1>2, <1>8, <1>9 DEF Warm
<1>14. \A k \in Warm' : usage'[k] = IF k \in Warm THEN usage[k] ELSE loaded[k]
  BY <1>2, <1>9, <1>13 DEF SomeOf
<1> QED
  BY <1>9, <1>11, <1>12, <1>13, <1>14 DEF SomeOf

-----------------------------------------------------------------------------
(* Every conjunct through every step.                                      *)

LEMMA TypeInductive == CacheInv /\ [Next]_vars => TypeInv'
<1> SUFFICES ASSUME CacheInv, [Next]_vars PROVE TypeInv'
  OBVIOUS
<1> USE DEF CacheInv, TypeInv, Becomes, Phase, Reading, Mutation, ledgerVars, revisionVars, cacheVars,
         Row
<1>1. ASSUME NEW c \in Call, NEW a \in Agent, Arrive(c, a) PROVE TypeInv'
  BY <1>1 DEF Arrive
<1>2. ASSUME NEW c \in Call, AdmitLocks(c) \/ ReadFails(c) PROVE TypeInv'
  BY <1>2 DEF AdmitLocks, ReadFails
<1>3. ASSUME NEW c \in Call, ReadRevision(c) \/ PublishRetries(c) PROVE TypeInv'
  BY <1>3 DEF ReadRevision, PublishRetries, Invalidate
<1>4. ASSUME NEW c \in Call, ScanGlobals(c) \/ ScanAgent(c) PROVE TypeInv'
  BY <1>4 DEF ScanGlobals, ScanAgent
<1>5. ASSUME NEW c \in Call, NEW denied \in BOOLEAN, Publish(c, denied) PROVE TypeInv'
  <2>1. AgentsBounded'
    <3>1. owner[c] # NoAgent
      BY <1>5, CacheConstants DEF Turns, Publish
    <3> QED
      BY <1>5, <3>1, PublishedIsSomeOf
  <2>2. entries' \in Nat
    BY <2>1, FS_CardinalityType DEF AgentsBounded
  <2> QED
    BY <1>5, <2>2 DEF Publish
<1>6. ASSUME NEW c \in Call, MedianHit(c) \/ MedianScans(c) PROVE TypeInv'
  BY <1>6 DEF MedianHit, MedianScans
<1>7. ASSUME NEW c \in Call, MedianRetries(c) PROVE TypeInv'
  BY <1>7 DEF MedianRetries, NoBase
<1>8. ASSUME NEW c \in Call, MedianPublishes(c) PROVE TypeInv'
  BY <1>8, CacheConstants DEF MedianPublishes, BaselineRight, ScanKey
<1>9. ASSUME NEW c \in Call, SettleLocks(c) \/ SettleAborts(c) PROVE TypeInv'
  BY <1>9 DEF SettleLocks, SettleAborts
<1>10. ASSUME NEW c \in Call, SettleFinishes(c) PROVE TypeInv'
  BY <1>10 DEF SettleFinishes, Invalidate, NoBase
<1>11. ASSUME NEW r \in Row, NEW a \in Agent, MutateBegins(r, a) PROVE TypeInv'
  BY <1>11 DEF MutateBegins
<1>12. ASSUME NEW r \in Row, MutateGoesOn(r) PROVE TypeInv'
  BY <1>12 DEF MutateGoesOn, Aborts, MutateEnds, Commits
<1>13. CASE Tick
  BY <1>13, CacheConstants DEF Tick, opVars, Time
<1>14. CASE UNCHANGED vars \/ \E a \in Agent : ToggleCap(a)
  BY <1>14 DEF vars, ToggleCap, opVars
<1> QED
  BY <1>1, <1>2, <1>3, <1>4, <1>5, <1>6, <1>7, <1>8, <1>9, <1>10, <1>11, <1>12, <1>13, <1>14
  DEF Next, Admit, Settle, Rest

LEMMA TurnsInductive == CacheInv /\ [Next]_vars => Turns'
<1> SUFFICES ASSUME CacheInv, [Next]_vars PROVE Turns'
  OBVIOUS
<1>0. TypeInv /\ Turns /\ revision \in Nat
  BY DEF CacheInv, TypeInv
<1> USE <1>0 DEF Turns, Becomes, Reading, Mutation, ledgerVars, revisionVars, Row
<1>1. ASSUME NEW c \in Call, NEW a \in Agent, Arrive(c, a) PROVE Turns'
  BY <1>1, CacheConstants DEF Arrive, TypeInv
<1>2. ASSUME NEW c \in Call, AdmitLocks(c) \/ SettleLocks(c) PROVE Turns'
  BY <1>2, CacheConstants DEF AdmitLocks, SettleLocks, TypeInv
<1>3. ASSUME NEW c \in Call, ReadFails(c) \/ MedianHit(c) \/ MedianPublishes(c) \/ SettleAborts(c)
                             \/ SettleFinishes(c)
      PROVE  Turns'
  BY <1>3, CacheConstants DEF ReadFails, MedianHit, MedianPublishes, SettleAborts, SettleFinishes,
         TypeInv
<1>4. ASSUME NEW c \in Call, ReadRevision(c) \/ ScanGlobals(c) \/ ScanAgent(c) \/ MedianScans(c)
      PROVE  Turns'
  BY <1>4, CacheConstants DEF ReadRevision, ScanGlobals, ScanAgent, MedianScans, TypeInv
<1>5. ASSUME NEW c \in Call, PublishRetries(c) \/ MedianRetries(c) PROVE Turns'
  BY <1>5, CacheConstants DEF PublishRetries, MedianRetries, TypeInv
<1>6. ASSUME NEW c \in Call, NEW denied \in BOOLEAN, Publish(c, denied) PROVE Turns'
  BY <1>6, CacheConstants DEF Publish, TypeInv
<1>7. ASSUME NEW r \in Row, NEW a \in Agent, MutateBegins(r, a) PROVE Turns'
  BY <1>7, Parity, CacheConstants DEF MutateBegins, TypeInv
<1>8. ASSUME NEW r \in Row, MutateEnds(r) PROVE Turns'
  BY <1>8, Parity, CacheConstants DEF MutateEnds, TypeInv
<1>9. ASSUME NEW r \in Row, NEW s \in Time, Aborts(r) \/ Commits(r, Older(s)) PROVE Turns'
  BY <1>9, CacheConstants DEF Aborts, Commits, TypeInv
<1>10. CASE Tick \/ UNCHANGED vars \/ \E a \in Agent : ToggleCap(a)
  BY <1>10 DEF Tick, vars, ToggleCap, opVars
<1> QED
  BY <1>1, <1>2, <1>3, <1>4, <1>5, <1>6, <1>7, <1>8, <1>9, <1>10, CacheConstants
  DEF Next, Admit, Settle, Rest, MutateGoesOn

LEMMA ReadingsInductive == CacheInv /\ [Next]_vars => Readings'
<1> SUFFICES ASSUME CacheInv, [Next]_vars PROVE Readings'
  OBVIOUS
<1>0. TypeInv /\ Turns /\ Readings /\ revision \in Nat /\ snap \in Nat /\ cacheRevision \in Nat
      /\ cacheRevision <= revision
  BY DEF CacheInv, TypeInv, Revisions
<1> USE <1>0 DEF Readings, Becomes, Reading, Mutation, revisionVars, Row
<1>1. ASSUME NEW c \in Call, NEW a \in Agent, Arrive(c, a) PROVE Readings'
  BY <1>1 DEF Arrive, TypeInv, cacheVars
<1>2. ASSUME NEW c \in Call, AdmitLocks(c) \/ SettleLocks(c) PROVE Readings'
  BY <1>2, CacheConstants DEF AdmitLocks, SettleLocks, TypeInv, Turns, cacheVars
<1>3. ASSUME NEW c \in Call, ReadFails(c) \/ MedianHit(c) \/ MedianPublishes(c) \/ SettleAborts(c)
      PROVE  Readings'
  BY <1>3 DEF ReadFails, MedianHit, MedianPublishes, SettleAborts, TypeInv, cacheVars
<1>4. ASSUME NEW c \in Call, ReadRevision(c) PROVE Readings'
  <2>1. cacheRevision' = revision
    BY <1>4 DEF ReadRevision, Invalidate, cacheVars
  <2> QED
    BY <1>4, <2>1 DEF ReadRevision, TypeInv, Turns
<1>5. ASSUME NEW c \in Call, ScanGlobals(c) \/ ScanAgent(c) PROVE Readings'
  BY <1>5 DEF ScanGlobals, ScanAgent, TypeInv, cacheVars
<1>6. ASSUME NEW c \in Call, MedianScans(c) PROVE Readings'
  BY <1>6 DEF MedianScans, TypeInv, Turns, cacheVars
<1>7. ASSUME NEW c \in Call, PublishRetries(c) PROVE Readings'
  BY <1>7 DEF PublishRetries, Invalidate, TypeInv, Turns
<1>8. ASSUME NEW c \in Call, MedianRetries(c) PROVE Readings'
  BY <1>8 DEF MedianRetries, TypeInv, cacheVars
<1>9. ASSUME NEW c \in Call, NEW denied \in BOOLEAN, Publish(c, denied) PROVE Readings'
  BY <1>9 DEF Publish, TypeInv
<1>10. ASSUME NEW c \in Call, SettleFinishes(c) PROVE Readings'
  BY <1>10 DEF SettleFinishes, TypeInv, Turns
<1>11. ASSUME NEW r \in Row, NEW a \in Agent, MutateBegins(r, a) PROVE Readings'
  BY <1>11, CacheConstants DEF MutateBegins, TypeInv, Turns, cacheVars
<1>12. ASSUME NEW r \in Row, MutateEnds(r) PROVE Readings'
  BY <1>12, CacheConstants DEF MutateEnds, TypeInv, Turns, cacheVars
<1>13. ASSUME NEW r \in Row, NEW s \in Time, Aborts(r) \/ Commits(r, Older(s)) PROVE Readings'
  BY <1>13, CacheConstants DEF Aborts, Commits, TypeInv, Turns, cacheVars
<1>14. CASE Tick \/ UNCHANGED vars \/ \E a \in Agent : ToggleCap(a)
  BY <1>14 DEF Tick, vars, ToggleCap, opVars, cacheVars
<1> QED
  BY <1>1, <1>2, <1>3, <1>4, <1>5, <1>6, <1>7, <1>8, <1>9, <1>10, <1>11, <1>12, <1>13, <1>14,
     CacheConstants
  DEF Next, Admit, Settle, Rest, MutateGoesOn

LEMMA RevisionsInductive == CacheInv /\ [Next]_vars => Revisions'
<1> SUFFICES ASSUME CacheInv, [Next]_vars PROVE Revisions'
  OBVIOUS
<1>0. /\ TypeInv /\ Revisions /\ revision \in Nat /\ snap \in Nat /\ cacheRevision \in Nat
      /\ base.revision \in Nat
  BY DEF CacheInv, TypeInv
<1> USE <1>0 DEF Revisions, revisionVars, cacheVars, Warm
<1>1. ASSUME UNCHANGED <<cacheVars, base>>, revision' \in {revision, revision + 1} PROVE Revisions'
  BY <1>1
<1>2. ASSUME NEW c \in Call, ReadRevision(c) \/ PublishRetries(c) PROVE Revisions'
  BY <1>2 DEF ReadRevision, PublishRetries, Invalidate, Empty
<1>3. ASSUME NEW c \in Call, NEW denied \in BOOLEAN, Publish(c, denied) PROVE Revisions'
  <2>1. Even(cacheRevision)
    BY <1>3 DEF CacheInv, Readings, Publish
  <2> QED
    BY <1>3, <2>1 DEF Publish
<1>4. ASSUME NEW c \in Call, MedianRetries(c) PROVE Revisions'
  BY <1>4 DEF MedianRetries, NoBase
<1>5. ASSUME NEW c \in Call, MedianPublishes(c) PROVE Revisions'
  BY <1>5 DEF MedianPublishes, CacheInv, Readings
<1>6. ASSUME NEW c \in Call, SettleFinishes(c) PROVE Revisions'
  <2>1. cacheRevision' = revision /\ (Even(revision) \/ usage' = Empty)
    BY <1>6, Parity DEF SettleFinishes, OnlyMine, Invalidate
  <2>2. \/ base' = base \/ base' = NoBase
        \/ base' = [base EXCEPT !.revision = revision] /\ Even(revision)
    BY <1>6, Parity DEF SettleFinishes, OnlyMine
  <2>3. base'.revision <= revision /\ (base'.start # NoStart => Even(base'.revision))
    BY <2>2 DEF NoBase, TypeInv
  <2> QED
    BY <1>6, <2>1, <2>3 DEF SettleFinishes, Empty
<1> QED
  BY <1>1, <1>2, <1>3, <1>4, <1>5, <1>6
  DEF Next, Admit, Settle, Rest, MutateGoesOn, Arrive, AdmitLocks, ReadFails, ScanGlobals, ScanAgent,
      MedianHit, MedianScans, SettleLocks, SettleAborts, MutateBegins, MutateEnds, Aborts, Commits,
      Tick, ToggleCap, vars

\* Times and agents are settled with the arrival.
LEMMA RowsStay ==
  ASSUME CacheInv, [Next]_vars
  PROVE  /\ \A r \in Row : phase[r] # "idle" => ts'[r] = ts[r] /\ owner'[r] = owner[r]
         /\ \A r \in rows : ts'[r] = ts[r] /\ owner'[r] = owner[r]
<1>1. \A r \in Row : phase[r] # "idle" => ts'[r] = ts[r] /\ owner'[r] = owner[r]
  <2>1. ASSUME NEW c \in Call, NEW a \in Agent, Arrive(c, a) PROVE <1>1!:
    BY <2>1 DEF Arrive, CacheInv, TypeInv, Row
  <2>2. ASSUME NEW r \in Row, NEW a \in Agent, MutateBegins(r, a) PROVE <1>1!:
    BY <2>2, CacheConstants DEF MutateBegins, CacheInv, TypeInv, Row
  <2>3. CASE UNCHANGED <<ts, owner>>
    BY <2>3
  <2> QED
    BY <2>1, <2>2, <2>3
    DEF Next, Admit, Settle, Rest, MutateGoesOn, AdmitLocks, ReadFails, ReadRevision, ScanGlobals,
        ScanAgent, PublishRetries, Publish, MedianHit, MedianScans, MedianRetries, MedianPublishes,
        SettleLocks, SettleAborts, SettleFinishes, MutateEnds, Aborts, Commits, Tick, ToggleCap,
        ledgerVars, vars
<1> QED
  BY <1>1 DEF CacheInv, Turns, TypeInv

LEMMA AgentsBoundedInductive == CacheInv /\ [Next]_vars => AgentsBounded'
<1> SUFFICES ASSUME CacheInv, [Next]_vars PROVE AgentsBounded'
  OBVIOUS
<1>1. CASE usage' = usage /\ entries' = entries
  BY <1>1 DEF CacheInv, AgentsBounded, WarmAgents
<1>2. CASE usage' = Empty /\ entries' = 0
  <2>1. WarmAgents(usage)' = {}
    BY <1>2 DEF WarmAgents, Empty
  <2> QED
    BY <1>2, <2>1, FS_EmptySet, CacheConstants DEF AgentsBounded
<1>3. ASSUME NEW c \in Call, NEW denied \in BOOLEAN, Publish(c, denied) PROVE AgentsBounded'
  <2>1. owner[c] # NoAgent
    BY <1>3, CacheConstants DEF CacheInv, Turns, Publish, Row
  <2> QED
    BY <1>3, <2>1, PublishedIsSomeOf DEF CacheInv
<1>4. ASSUME NEW c \in Call, SettleFinishes(c) PROVE AgentsBounded'
  <2>1. CASE usage' = Charged(c) /\ entries' = entries
    <3>1. WarmAgents(usage)' = WarmAgents(usage)
      BY <2>1 DEF Charged, WarmAgents, Warm
    <3> QED
      BY <2>1, <3>1 DEF CacheInv, AgentsBounded
  <2> QED
    BY <1>2, <1>4, <2>1 DEF SettleFinishes, Invalidate
<1> QED
  BY <1>1, <1>2, <1>3, <1>4
  DEF Next, Admit, Settle, Rest, MutateGoesOn, Arrive, AdmitLocks, ReadFails, ReadRevision,
      ScanGlobals, ScanAgent, PublishRetries, Invalidate, MedianHit, MedianScans, MedianRetries,
      MedianPublishes, SettleLocks, SettleAborts, MutateBegins, MutateEnds, Aborts, Commits, Tick,
      ToggleCap, cacheVars, vars

\* The windows a handler checks are of those kinds.
LEMMA WantedKeys ==
  ASSUME TypeInv, NEW c \in Call, NEW k \in Wanted(c)
  PROVE  /\ k \in Int \X (Agent \cup {NoAgent})
         /\ IF IsAgentKey(k) THEN \E t \in Time : k[1] = Day[t] ELSE k \in GlobalKeys(c)
<1>1. ts[c] \in Time /\ owner[c] \in Agent \cup {NoAgent} /\ Time \subseteq Int
  BY CacheConstants DEF TypeInv, Row
<1>2. CASE k \in GlobalKeys(c)
  <2>1. PICK s \in Cutoffs[ts[c]] : k = <<s, NoAgent>>
    BY <1>2 DEF GlobalKeys, Global
  <2>2. s \in Int
    BY <1>1, CacheConstants
  <2> QED
    BY <1>2, <2>1, <2>2 DEF IsAgentKey
<1>3. CASE k \in AgentKeys(c)
  <2>1. k = <<Day[ts[c]], owner[c]>> /\ owner[c] \in Agent /\ NoAgent \notin Agent
    BY <1>3, CacheConstants DEF AgentKeys, AgentKey, TypeInv
  <2>2. Day[ts[c]] \in Int
    BY <1>1, CacheConstants
  <2>3. k[1] = Day[ts[c]] /\ k[2] = owner[c]
    BY <2>1
  <2> QED
    BY <1>1, <2>1, <2>2, <2>3 DEF IsAgentKey
<1> QED
  BY <1>2, <1>3 DEF Wanted

LEMMA KeysInductive == CacheInv /\ [Next]_vars => Keys'
<1> SUFFICES ASSUME CacheInv, [Next]_vars PROVE Keys'
  OBVIOUS
<1>0. TypeInv /\ Turns /\ Keys
  BY DEF CacheInv
<1>a. \A c \in Call : phase[c] # "idle" => ts'[c] = ts[c] /\ owner'[c] = owner[c]
  BY RowsStay DEF Row
<1>1. ASSUME Warm' \subseteq Warm, active' = active \/ (Warm' = {} /\ active' = {}),
             UNCHANGED <<loaded, capped>>,
             \A c \in Call : phase'[c] \in {"agent", "publish"} => phase'[c] = phase[c]
      PROVE  Keys'
  <2>1. \A c \in Call : phase'[c] \in {"agent", "publish"} =>
          Wanted(c)' = Wanted(c) /\ GlobalKeys(c)' = GlobalKeys(c)
    BY <1>1, <1>a DEF Wanted, GlobalKeys, AgentKeys, AgentKey
  <2> QED
    BY <1>0, <1>1, <2>1 DEF Keys
<1>2. ASSUME NEW c \in Call, ScanGlobals(c) \/ ScanAgent(c) PROVE Keys'
  <2>1. UNCHANGED <<ts, owner, capped, usage, active>>
    BY <1>2 DEF ScanGlobals, ScanAgent, ledgerVars, cacheVars
  <2>2. Wanted(c)' = Wanted(c) /\ GlobalKeys(c)' = GlobalKeys(c)
    BY <2>1 DEF Wanted, GlobalKeys, AgentKeys, AgentKey
  <2>3. phase'[c] = "agent" => DOMAIN loaded' \subseteq GlobalKeys(c)
    BY <1>0, <1>2 DEF ScanGlobals, ScanAgent, Becomes, TypeInv, Row
  <2>4. phase'[c] = "publish" => DOMAIN loaded' \subseteq Wanted(c)
    BY <1>0, <1>2 DEF ScanGlobals, ScanAgent, Becomes, TypeInv, Row, Keys, Wanted
  <2>5. \A e \in Call \ {c} : phase'[e] \notin {"agent", "publish"}
    BY <1>0, <1>2 DEF ScanGlobals, ScanAgent, Becomes, TypeInv, Row, Turns, Reading
  <2> QED
    BY <1>0, <2>1, <2>2, <2>3, <2>4, <2>5 DEF Keys, Warm
<1>3. ASSUME NEW c \in Call, NEW denied \in BOOLEAN, Publish(c, denied) PROVE Keys'
  <2>1. owner[c] # NoAgent
    BY <1>0, <1>3, CacheConstants DEF Turns, Publish, Row
  <2>2. /\ Warm' \subseteq Warm \cup DOMAIN loaded
        /\ \A k \in Warm' : ~IsAgentKey(k) => k \in GlobalKeys(c)
    BY <1>3, <2>1, PublishedIsSomeOf DEF CacheInv
  <2>3. active' = GlobalKeys(c) /\ DOMAIN loaded \subseteq Wanted(c)
    BY <1>0, <1>3 DEF Publish, Keys
  <2>4. \A k \in active' : ~IsAgentKey(k)
    BY <2>3 DEF GlobalKeys, Global, IsAgentKey
  <2>5. ASSUME NEW k \in Warm'
        PROVE  /\ k \in Int \X (Agent \cup {NoAgent})
               /\ IF IsAgentKey(k) THEN \E t \in Time : k[1] = Day[t] ELSE k \in active'
    BY <1>0, <2>2, <2>3, <2>5, WantedKeys DEF Keys
  <2>6. \A e \in Call : phase'[e] \notin {"agent", "publish"}
    BY <1>0, <1>3 DEF Publish, Becomes, TypeInv, Row, Turns, Reading
  <2> QED
    BY <2>4, <2>5, <2>6 DEF Keys
<1>4. ASSUME NEW c \in Call, SettleFinishes(c) PROVE Keys'
  <2>1. Warm' \subseteq Warm /\ (active' = active \/ (Warm' = {} /\ active' = {}))
    BY <1>4 DEF SettleFinishes, Invalidate, Charged, Warm, Empty
  <2> QED
    BY <1>0, <1>1, <1>4, <2>1 DEF SettleFinishes, Becomes, TypeInv, Row
<1>5. ASSUME NEW c \in Call, ReadRevision(c) \/ PublishRetries(c) PROVE Keys'
  <2>1. Warm' \subseteq Warm /\ (active' = active \/ (Warm' = {} /\ active' = {}))
    BY <1>5 DEF ReadRevision, PublishRetries, Invalidate, cacheVars, Warm, Empty
  <2> QED
    BY <1>0, <1>1, <1>5, <2>1 DEF ReadRevision, PublishRetries, Becomes, TypeInv, Row
<1>6. ASSUME NEW c \in Call, MedianScans(c) PROVE Keys'
  <2>1. \A e \in Call : phase'[e] \notin {"agent", "publish"}
    BY <1>0, <1>6 DEF MedianScans, Becomes, TypeInv, Row, Turns, Reading
  <2> QED
    BY <1>0, <1>6, <2>1 DEF MedianScans, cacheVars, Keys, Warm
<1>7. ASSUME NEW a \in Agent, ToggleCap(a) PROVE Keys'
  <2>1. \A e \in Call : phase'[e] \notin {"agent", "publish"}
    BY <1>0, <1>7, CacheConstants DEF ToggleCap, opVars, TypeInv, Row, Turns, Reading
  <2> QED
    BY <1>0, <1>7, <2>1 DEF ToggleCap, opVars, cacheVars, Keys, Warm
<1>8. CASE Tick \/ UNCHANGED vars
  BY <1>1, <1>8 DEF Tick, vars, opVars, cacheVars, Warm
<1>9. ASSUME NEW c \in Call,
             (\E a \in Agent : Arrive(c, a)) \/ AdmitLocks(c) \/ ReadFails(c) \/ MedianHit(c)
             \/ MedianRetries(c) \/ MedianPublishes(c) \/ SettleLocks(c) \/ SettleAborts(c)
      PROVE  Keys'
  <2>1. UNCHANGED <<usage, active, loaded, capped>>
    BY <1>9 DEF Arrive, AdmitLocks, ReadFails, MedianHit, MedianRetries, MedianPublishes,
                SettleLocks, SettleAborts, cacheVars
  <2>2. \A e \in Call : phase'[e] \in {"agent", "publish"} => phase'[e] = phase[e]
    BY <1>0, <1>9 DEF Arrive, AdmitLocks, ReadFails, MedianHit, MedianRetries, MedianPublishes,
                SettleLocks, SettleAborts, Becomes, TypeInv, Row
  <2> QED
    BY <1>1, <2>1, <2>2 DEF Warm
<1>10. ASSUME NEW r \in Row, (\E a \in Agent : MutateBegins(r, a)) \/ MutateGoesOn(r) PROVE Keys'
  <2>1. UNCHANGED <<usage, active, loaded, capped>>
    BY <1>10 DEF MutateBegins, MutateGoesOn, Aborts, MutateEnds, Commits, cacheVars
  <2>2. \A e \in Call : phase'[e] \in {"agent", "publish"} => phase'[e] = phase[e]
    BY <1>0, <1>10 DEF MutateBegins, MutateGoesOn, Aborts, MutateEnds, Commits, Becomes, TypeInv, Row
  <2> QED
    BY <1>1, <2>1, <2>2 DEF Warm
<1> QED
  BY <1>2, <1>3, <1>4, <1>5, <1>6, <1>7, <1>8, <1>9, <1>10 DEF Next, Admit, Settle, Rest

\* The ledger as it is stays as it is: rows that are kept keep their fields.
Unmoved == rows' = rows /\ \A r \in rows : ts'[r] = ts[r] /\ owner'[r] = owner[r]

LEMMA WindowsFrame ==
  ASSUME WindowsRight, Unmoved, UNCHANGED <<revision, snap, loaded, usage, cacheRevision>>,
         \A r \in Row : phase'[r] \in {"mutate", "committed", "agent", "publish"} =>
                          phase'[r] = phase[r]
  PROVE  WindowsRight'
<1>1. ASSUME NEW R, R \subseteq rows, NEW k, NEW use, RightFor(R, k, use)
      PROVE  /\ \A r \in use : r \in R /\ In(r, k)'
             /\ \A r \in R : In(r, k)' => r \in use \/ (IsAgentKey(k) /\ Day[ts'[r]] > k[1])
  BY <1>1 DEF Unmoved, RightFor, In
<1>2. RightAbout(rows) => RightAbout(rows)'
  BY <1>1 DEF Unmoved, RightAbout, RightFor, Warm
<1>3. ASSUME NEW c \in Call, RightAbout(rows \ {c}) PROVE RightAbout(rows \ {c})'
  <2>1. ASSUME NEW k \in Warm PROVE RightFor(rows \ {c}, k, usage[k])'
    <3>1. RightFor(rows \ {c}, k, usage[k])
      BY <1>3, <2>1 DEF RightAbout
    <3>2. /\ \A r \in usage[k] : r \in rows \ {c} /\ In(r, k)'
          /\ \A r \in rows \ {c} : In(r, k)' => r \in usage[k] \/ (IsAgentKey(k) /\ Day[ts'[r]] > k[1])
      BY <3>1 DEF Unmoved, RightFor, In
    <3> QED
      BY <3>2 DEF Unmoved, RightFor
  <2> QED
    BY <2>1 DEF RightAbout, Warm
<1>4. ASSUME NEW k \in DOMAIN loaded, RightFor(rows, k, loaded[k]) PROVE RightFor(rows, k, loaded[k])'
  BY <1>1, <1>4 DEF Unmoved, RightFor
<1> QED
  BY <1>2, <1>3, <1>4 DEF Unmoved, WindowsRight, Row

\* A scan is right about the ledger it reads.
LEMMA ScanIsRight == ASSUME NEW k PROVE RightFor(rows, k, Since(k))
BY DEF RightFor, In, Since

LEMMA WindowsInductive == CacheInv /\ [Next]_vars => WindowsRight'
<1> SUFFICES ASSUME CacheInv, [Next]_vars PROVE WindowsRight'
  OBVIOUS
<1>0. /\ TypeInv /\ Turns /\ Readings /\ Revisions /\ Keys /\ WindowsRight
      /\ revision \in Nat /\ snap \in Nat /\ cacheRevision \in Nat
  BY DEF CacheInv, TypeInv
<1>a. \A r \in rows : ts'[r] = ts[r] /\ owner'[r] = owner[r]
  BY RowsStay
\* Who holds the guard's mutex is alone in what it protects.
<1>b. ASSUME NEW c \in Call, phase[c] \in {"settle"} \cup Reading \cup Mutation, NEW e \in Call, e # c
      PROVE  phase[e] \notin {"settle"} \cup Reading \cup Mutation
  BY <1>0, <1>b DEF Turns
<1>1. CASE /\ UNCHANGED <<rows, revision, snap, loaded, usage, cacheRevision>>
           /\ \A r \in Row : phase'[r] \in {"mutate", "committed", "agent", "publish"} =>
                               phase'[r] = phase[r]
  BY <1>0, <1>1, <1>a, WindowsFrame DEF Unmoved
<1>2. ASSUME NEW c \in Call,
             (\E a \in Agent : Arrive(c, a)) \/ AdmitLocks(c) \/ ReadFails(c) \/ MedianHit(c)
             \/ MedianRetries(c) \/ MedianPublishes(c) \/ SettleAborts(c)
      PROVE  WindowsRight'
  <2>1. UNCHANGED <<rows, revision, snap, loaded, usage, cacheRevision>>
    BY <1>2 DEF Arrive, AdmitLocks, ReadFails, MedianHit, MedianRetries, MedianPublishes,
                SettleAborts, cacheVars, ledgerVars, revisionVars
  <2>2. \A r \in Row : phase'[r] \in {"mutate", "committed", "agent", "publish"} => phase'[r] = phase[r]
    BY <1>0, <1>2 DEF Arrive, AdmitLocks, ReadFails, MedianHit, MedianRetries, MedianPublishes,
                SettleAborts, Becomes, TypeInv, Row
  <2> QED
    BY <1>1, <2>1, <2>2
<1>3. ASSUME NEW r \in Row, Aborts(r) PROVE WindowsRight'
  <2>1. UNCHANGED <<rows, revision, snap, loaded, usage, cacheRevision>>
    BY <1>3 DEF Aborts, cacheVars, ledgerVars, revisionVars
  <2>2. \A e \in Row : phase'[e] \in {"mutate", "committed", "agent", "publish"} => phase'[e] = phase[e]
    BY <1>0, <1>3 DEF Aborts, Becomes, TypeInv
  <2> QED
    BY <1>1, <2>1, <2>2
<1>4. CASE Tick \/ UNCHANGED vars \/ \E a \in Agent : ToggleCap(a)
  BY <1>1, <1>4 DEF Tick, ToggleCap, vars, opVars, cacheVars, ledgerVars, revisionVars
<1>5. ASSUME NEW c \in Call, SettleLocks(c) \/ MedianScans(c) PROVE WindowsRight'
  <2>1. UNCHANGED <<rows, ts, owner, revision, usage, cacheRevision>>
    BY <1>5 DEF SettleLocks, MedianScans, cacheVars, ledgerVars, revisionVars
  <2>2. /\ \A r \in Row : phase'[r] = "mutate" => phase[r] = "mutate"
        /\ \A e \in Call : phase'[e] \notin {"committed", "agent", "publish"}
    BY <1>0, <1>5, CacheConstants
    DEF SettleLocks, MedianScans, Becomes, TypeInv, Row, Turns, Reading, Mutation
  <2> QED
    BY <1>0, <2>1, <2>2 DEF WindowsRight, RightAbout, RightFor, In, Warm
<1>6. ASSUME NEW c \in Call, ReadRevision(c) \/ PublishRetries(c) PROVE WindowsRight'
  <2>1. UNCHANGED <<rows, ts, owner, revision>>
    BY <1>6 DEF ReadRevision, PublishRetries, ledgerVars, revisionVars
  <2>2. /\ \A r \in Row : phase'[r] = "mutate" => phase[r] = "mutate"
        /\ \A e \in Call : phase'[e] \notin {"committed", "agent", "publish"}
    BY <1>0, <1>6 DEF ReadRevision, PublishRetries, Becomes, TypeInv, Row, Turns, Reading, Mutation
  <2>3. UNCHANGED <<usage, cacheRevision>> \/ Warm' = {}
    BY <1>6 DEF ReadRevision, PublishRetries, Invalidate, cacheVars, Warm, Empty
  <2> QED
    BY <1>0, <2>1, <2>2, <2>3 DEF WindowsRight, RightAbout, RightFor, In, Warm
<1>7. ASSUME NEW c \in Call, ScanGlobals(c) \/ ScanAgent(c) PROVE WindowsRight'
  <2>1. UNCHANGED <<rows, ts, owner, revision, usage, cacheRevision, snap>>
    BY <1>7 DEF ScanGlobals, ScanAgent, cacheVars, ledgerVars, revisionVars
  <2>2. /\ \A r \in Row : phase'[r] = "mutate" => phase[r] = "mutate"
        /\ \A e \in Call : phase'[e] # "committed"
    BY <1>0, <1>7 DEF ScanGlobals, ScanAgent, Becomes, TypeInv, Row, Turns, Reading, Mutation
  <2>3. ASSUME revision = snap, NEW k \in DOMAIN loaded' PROVE RightFor(rows, k, loaded'[k])
    BY <1>0, <1>7, <2>3, ScanIsRight DEF ScanGlobals, ScanAgent, WindowsRight
  <2>4. ASSUME revision = snap, NEW k \in DOMAIN loaded' PROVE RightFor(rows, k, loaded[k])'
    BY <2>1, <2>3, <2>4 DEF RightFor, In
  <2>5. RightAbout(rows) => RightAbout(rows)'
    BY <2>1 DEF RightAbout, RightFor, In, Warm
  <2> QED
    BY <1>0, <2>1, <2>2, <2>4, <2>5 DEF WindowsRight
<1>8. ASSUME NEW c \in Call, NEW denied \in BOOLEAN, Publish(c, denied) PROVE WindowsRight'
  <2>1. UNCHANGED <<rows, ts, owner, revision, cacheRevision>> /\ revision = snap
    BY <1>8 DEF Publish, ledgerVars, revisionVars
  <2>2. cacheRevision = revision /\ Even(revision) /\ mutex = Nobody
    BY <1>0, <1>8, <2>1 DEF Publish, Readings, Turns
  <2>3. /\ \A r \in Row : phase'[r] # "mutate"
        /\ \A e \in Call : phase'[e] \notin {"committed", "agent", "publish"}
    BY <1>0, <1>8, <2>2, CacheConstants DEF Publish, Becomes, TypeInv, Row, Turns, Reading, Mutation
  <2>4. owner[c] # NoAgent
    BY <1>0, <1>8, CacheConstants DEF Turns, Publish, Row
  <2>5. /\ Warm' \subseteq Warm \cup DOMAIN loaded
        /\ \A k \in Warm' : usage'[k] = IF k \in Warm THEN usage[k] ELSE loaded[k]
    BY <1>8, <2>4, PublishedIsSomeOf DEF CacheInv
  <2>6. /\ \A k \in Warm : RightFor(rows, k, usage[k])
        /\ \A k \in DOMAIN loaded : RightFor(rows, k, loaded[k])
    BY <1>0, <1>8, <2>1, <2>2 DEF WindowsRight, RightAbout, Publish
  <2>7. \A k \in Warm' : RightFor(rows, k, usage'[k])
    BY <2>5, <2>6
  <2>8. RightAbout(rows)'
    BY <2>1, <2>7 DEF RightAbout, RightFor, In
  <2> QED
    BY <2>3, <2>8 DEF WindowsRight
<1>9. ASSUME NEW c \in Call, SettleFinishes(c) PROVE WindowsRight'
  <2>1. UNCHANGED <<rows, ts, owner, revision, snap>> /\ phase[c] = "committed"
    BY <1>9 DEF SettleFinishes, ledgerVars, revisionVars
  <2>2. /\ \A r \in Row : phase'[r] = "mutate" => phase[r] = "mutate"
        /\ \A e \in Call : phase'[e] \notin {"committed", "agent", "publish"}
    BY <1>0, <1>9 DEF SettleFinishes, Becomes, TypeInv, Row, Turns, Reading, Mutation
  <2>3. CASE usage' = Empty /\ cacheRevision' = revision
    <3>1. Warm' = {}
      BY <2>3 DEF Warm, Empty
    <3> QED
      BY <2>2, <3>1 DEF WindowsRight, RightAbout
  <2>4. CASE OnlyMine(cacheRevision) /\ usage' = Charged(c) /\ cacheRevision' = revision
    <3>1. /\ Even(revision) /\ mutex = Nobody
          /\ c \in rows /\ RightAbout(rows \ {c})
      BY <1>0, <2>1, <2>4, Parity DEF OnlyMine, Turns, WindowsRight
    <3>2. \A r \in Row : phase'[r] # "mutate"
      BY <1>0, <2>2, <3>1, CacheConstants DEF Turns
    <3>3. ASSUME NEW k \in Warm PROVE RightFor(rows, k, Charged(c)[k])
      <4>1. /\ RightFor(rows \ {c}, k, usage[k]) /\ k[1] \in Int /\ ts[c] \in Time
            /\ IF IsAgentKey(k) THEN \E t \in Time : k[1] = Day[t] ELSE k \in active
            /\ k[2] \in Agent \cup {NoAgent}
            /\ k \in active => ~IsAgentKey(k)
        BY <1>0, <3>1, <3>3 DEF RightAbout, Keys, TypeInv, Row
      <4>2. Charged(c)[k] = IF k \in active \cup {AgentKey(c)} /\ ts[c] >= k[1]
                            THEN usage[k] \cup {c} ELSE usage[k]
        BY <3>3 DEF Charged
      <4>3. CASE ~IsAgentKey(k)
        BY <3>1, <4>1, <4>2, <4>3 DEF RightFor, In
      <4>4. CASE IsAgentKey(k) /\ k = AgentKey(c)
        BY <3>1, <4>1, <4>2, <4>4 DEF RightFor, In, AgentKey
      <4>5. CASE IsAgentKey(k) /\ k # AgentKey(c)
        <5>1. Charged(c)[k] = usage[k]
          BY <4>1, <4>2, <4>5
        <5>2. In(c, k) => Day[ts[c]] > k[1]
          <6>1. PICK t \in Time : k[1] = Day[t]
            BY <4>1, <4>5
          <6>2. k = <<k[1], k[2]>>
            BY <1>0, <3>3 DEF Keys
          <6>3. In(c, k) => k[1] # Day[ts[c]]
            BY <4>5, <6>2 DEF In, AgentKey
          <6>4. In(c, k) => Day[ts[c]] >= k[1]
            BY <4>1, <6>1, CacheConstants DEF In
          <6> QED
            BY <4>1, <6>3, <6>4, CacheConstants
        <5> QED
          BY <3>1, <4>1, <4>5, <5>1, <5>2 DEF RightFor
      <4> QED
        BY <4>3, <4>4, <4>5
    <3>4. RightAbout(rows)'
      <4>1. Warm' = Warm
        BY <2>4 DEF Charged, Warm
      <4> QED
        BY <2>1, <2>4, <3>3, <4>1 DEF RightAbout, RightFor, In
    <3> QED
      BY <2>2, <3>2, <3>4 DEF WindowsRight
  <2> QED
    BY <1>9, <2>3, <2>4 DEF SettleFinishes, Invalidate
<1>10. ASSUME NEW r \in Row, NEW a \in Agent, MutateBegins(r, a) PROVE WindowsRight'
  <2>1. /\ UNCHANGED <<rows, loaded, usage, cacheRevision, snap>> /\ revision' = revision + 1
        /\ mutex = Nobody /\ Even(revision) /\ phase' = [phase EXCEPT ![r] = "mutate"]
    BY <1>0, <1>10 DEF MutateBegins, Becomes, cacheVars, Turns
  <2>2. RightAbout(rows) => RightAbout(rows)'
    BY <1>a, <2>1 DEF RightAbout, RightFor, In, Warm
  <2>3. \A e \in Row : phase'[e] = IF e = r THEN "mutate" ELSE phase[e]
    BY <1>0, <2>1 DEF TypeInv
  <2>4. cacheRevision <= revision
    BY <1>0 DEF Revisions
  <2>5. ASSUME NEW c \in Call, phase[c] = "committed" PROVE snap + 2 < revision'
    BY <1>0, <2>1, <2>5, CacheConstants DEF Readings, Turns, Mutation, Row
  <2>6. ASSUME NEW c \in Call, phase[c] \in {"agent", "publish"} PROVE revision' # snap
    BY <1>0, <2>1, <2>6 DEF Readings
  <2>7. cacheRevision' # revision'
    BY <1>0, <2>1, <2>4
  <2>8. revision' = cacheRevision' + 1 => RightAbout(rows)'
    BY <1>0, <2>1, <2>2 DEF WindowsRight
  <2>9. ASSUME NEW c \in Call, phase'[c] = "committed" PROVE ~(revision' <= snap' + 2)
    BY <1>0, <2>1, <2>3, <2>5, <2>9 DEF Row
  <2>10. ASSUME NEW c \in Call, phase'[c] \in {"agent", "publish"} PROVE revision' # snap'
    BY <2>1, <2>3, <2>6, <2>10 DEF Row
  <2> QED
    BY <2>7, <2>8, <2>9, <2>10 DEF WindowsRight
<1>11. ASSUME NEW r \in Row, MutateEnds(r) PROVE WindowsRight'
  <2>1. /\ UNCHANGED <<rows, ts, owner, loaded, usage, cacheRevision, snap>>
        /\ revision' = revision + 1 /\ mutex = r /\ phase[r] \in {"committed", "aborted"}
        /\ \A e \in Row : phase'[e] = phase[e] \/ (phase'[e] = "done" /\ phase[e] # "mutate")
    BY <1>0, <1>11 DEF MutateEnds, Becomes, cacheVars, ledgerVars, TypeInv
  <2>2. \A e \in Row : phase'[e] # "mutate"
    BY <1>0, <2>1 DEF Turns
  <2>3. cacheRevision' # revision'
    BY <1>0, <2>1 DEF Revisions
  <2>4. ASSUME NEW c \in Call, phase'[c] \in {"agent", "publish"} PROVE revision' # snap'
    BY <1>0, <2>1, <2>4 DEF Readings, Row
  <2>5. ASSUME NEW c \in Call, phase'[c] = "committed", Even(snap'), cacheRevision' = snap',
                revision' <= snap' + 2
        PROVE  c \in rows /\ RightAbout(rows \ {c})
    BY <1>0, <2>1, <2>5 DEF WindowsRight, Row
  <2>6. ASSUME NEW c \in Call, phase'[c] = "committed", Even(snap'), cacheRevision' = snap',
                revision' <= snap' + 2
        PROVE  (c \in rows /\ RightAbout(rows \ {c}))'
    BY <2>1, <2>5, <2>6 DEF RightAbout, RightFor, In, Warm
  <2> QED
    BY <2>2, <2>3, <2>4, <2>6 DEF WindowsRight
<1>12. ASSUME NEW r \in Row, NEW s \in Time, Commits(r, Older(s)) PROVE WindowsRight'
  <2>1. /\ UNCHANGED <<ts, owner, revision, loaded, usage, cacheRevision, snap>>
        /\ phase[r] = "mutate" /\ mutex = r /\ ~Even(revision)
        /\ \A e \in Row : phase'[e] = IF e = r THEN "committed" ELSE phase[e]
    BY <1>0, <1>12, CacheConstants DEF Commits, Becomes, cacheVars, ledgerVars, revisionVars,
         TypeInv, Turns
  <2>2. cacheRevision = revision => Warm = {}
    BY <1>0, <2>1 DEF Revisions
  <2>3. \A e \in Row : phase'[e] # "mutate"
    BY <1>0, <2>1 DEF Turns
  <2>4. ASSUME NEW c \in Call, phase[c] \in {"agent", "publish"} PROVE revision # snap
    BY <1>0, <2>1, <2>4 DEF Readings
  <2>5. r \notin rows
    BY <1>0, <2>1 DEF Turns
  <2>6. ASSUME NEW c \in Call, phase'[c] = "committed", Even(snap), cacheRevision = snap,
               revision <= snap + 2
        PROVE  c \in rows' /\ RightAbout(rows \ {c})'
    <3>1. c = r
      <4>1. c # r => snap + 2 <= revision
        BY <1>0, <2>1, <2>6 DEF Readings, Mutation, Row
      <4> QED
        BY <1>0, <2>1, <2>6, <4>1, Parity
    <3>2. rows' = rows \cup {c} /\ rows' \ {c} = rows
      BY <1>12, <2>5, <3>1, CacheConstants DEF Commits
    <3>3. revision = snap + 1
      <4>1. snap + 1 <= revision
        BY <1>0, <2>1, <3>1 DEF Readings, Mutation
      <4> QED
        BY <1>0, <2>1, <2>6, <4>1, Parity
    <3>4. RightAbout(rows)
      BY <1>0, <2>1, <2>6, <3>1, <3>3 DEF WindowsRight
    <3> QED
      BY <2>1, <3>2, <3>4 DEF RightAbout, RightFor, In, Warm
  <2>7. cacheRevision' = revision' => RightAbout(rows)'
    BY <2>1, <2>2 DEF RightAbout, Warm
  <2> QED
    BY <2>1, <2>3, <2>4, <2>6, <2>7 DEF WindowsRight, Row
<1> QED
  BY <1>2, <1>3, <1>4, <1>5, <1>6, <1>7, <1>8, <1>9, <1>10, <1>11, <1>12
  DEF Next, Admit, Settle, Rest, MutateGoesOn

LEMMA BaselineFrame ==
  ASSUME TypeInv, BaselineRight, Unmoved, UNCHANGED <<revision, snap, loaded, base>>,
         \A r \in Row : phase'[r] \in {"mutate", "committed", "history"} => phase'[r] = phase[r],
         \A c \in Call : phase[c] = "history" => ts'[c] = ts[c]
  PROVE  BaselineRight'
<1>1. BaseRight(rows) => BaseRight(rows)'
  BY DEF Unmoved, BaseRight
<1>2. ASSUME NEW c \in Call, BaseRight(rows \ {c}) PROVE BaseRight(rows \ {c})'
  BY <1>2 DEF Unmoved, BaseRight
<1>3. ASSUME NEW c \in Call, ts'[c] = ts[c] PROVE ScanKey(c)' = ScanKey(c)
  BY <1>3 DEF ScanKey
<1>4. ASSUME NEW c \in Call, ts'[c] = ts[c], ScanRight(c) PROVE ScanRight(c)'
  BY <1>3, <1>4 DEF Unmoved, ScanRight
<1>5. ASSUME NEW c \in Call, phase'[c] = "history"
      PROVE  /\ ScanKey(c)' \in DOMAIN loaded' /\ loaded'[ScanKey(c)'] \in SUBSET Row
             /\ revision' = snap' => ScanRight(c)'
  BY <1>3, <1>4, <1>5 DEF BaselineRight, Row
<1> QED
  BY <1>1, <1>2, <1>5 DEF BaselineRight, Row

LEMMA BaselineInductive == CacheInv /\ [Next]_vars => BaselineRight'
<1> SUFFICES ASSUME CacheInv, [Next]_vars PROVE BaselineRight'
  OBVIOUS
<1>0. /\ TypeInv /\ Turns /\ Readings /\ Revisions /\ BaselineRight
      /\ revision \in Nat /\ snap \in Nat /\ base.revision \in Nat
  BY DEF CacheInv, TypeInv
<1>a. \A r \in rows : ts'[r] = ts[r] /\ owner'[r] = owner[r]
  BY RowsStay
<1>b. \A c \in Call : phase[c] = "history" => ts'[c] = ts[c]
  BY RowsStay DEF Row
<1>1. CASE /\ UNCHANGED <<rows, revision, snap, loaded, base>>
           /\ \A r \in Row : phase'[r] \in {"mutate", "committed", "history"} => phase'[r] = phase[r]
  BY <1>0, <1>1, <1>a, <1>b, BaselineFrame DEF Unmoved
<1>2. ASSUME NEW c \in Call,
             (\E a \in Agent : Arrive(c, a)) \/ AdmitLocks(c) \/ ReadFails(c) \/ PublishRetries(c)
             \/ (\E denied \in BOOLEAN : Publish(c, denied)) \/ MedianHit(c) \/ SettleAborts(c)
      PROVE  BaselineRight'
  <2>1. UNCHANGED <<rows, revision, snap, loaded, base>>
    BY <1>2 DEF Arrive, AdmitLocks, ReadFails, PublishRetries, Publish, MedianHit, SettleAborts,
                ledgerVars, revisionVars
  <2>2. \A r \in Row : phase'[r] \in {"mutate", "committed", "history"} => phase'[r] = phase[r]
    BY <1>0, <1>2 DEF Arrive, AdmitLocks, ReadFails, PublishRetries, Publish, MedianHit,
                SettleAborts, Becomes, TypeInv, Row
  <2> QED
    BY <1>1, <2>1, <2>2
<1>3. ASSUME NEW r \in Row, Aborts(r) PROVE BaselineRight'
  <2>1. UNCHANGED <<rows, revision, snap, loaded, base>>
    BY <1>3 DEF Aborts, ledgerVars, revisionVars
  <2>2. \A e \in Row : phase'[e] \in {"mutate", "committed", "history"} => phase'[e] = phase[e]
    BY <1>0, <1>3 DEF Aborts, Becomes, TypeInv
  <2> QED
    BY <1>1, <2>1, <2>2
<1>4. CASE Tick \/ UNCHANGED vars \/ \E a \in Agent : ToggleCap(a)
  BY <1>1, <1>4 DEF Tick, ToggleCap, vars, opVars, ledgerVars, revisionVars
<1>5. ASSUME NEW c \in Call, SettleLocks(c) \/ ReadRevision(c) \/ ScanGlobals(c) \/ ScanAgent(c)
      PROVE  BaselineRight'
  <2>1. UNCHANGED <<rows, ts, revision, base>>
    BY <1>5 DEF SettleLocks, ReadRevision, ScanGlobals, ScanAgent, ledgerVars, revisionVars
  <2>2. /\ \A r \in Row : phase'[r] = "mutate" => phase[r] = "mutate"
        /\ \A e \in Call : phase'[e] \notin {"committed", "history"}
    BY <1>0, <1>5, CacheConstants
    DEF SettleLocks, ReadRevision, ScanGlobals, ScanAgent, Becomes, TypeInv, Row, Turns, Reading,
        Mutation
  <2>3. BaseRight(rows) => BaseRight(rows)'
    BY <2>1 DEF BaseRight
  <2> QED
    BY <1>0, <2>1, <2>2, <2>3 DEF BaselineRight
<1>6. ASSUME NEW c \in Call, MedianScans(c) PROVE BaselineRight'
  <2>1. UNCHANGED <<rows, ts, revision, base>>
    BY <1>6 DEF MedianScans, ledgerVars, revisionVars
  <2>2. /\ \A r \in Row : phase'[r] = "mutate" => phase[r] = "mutate"
        /\ \A e \in Call : phase'[e] = "history" => e = c
        /\ \A e \in Call : phase'[e] # "committed"
    BY <1>0, <1>6 DEF MedianScans, Becomes, TypeInv, Row, Turns, Reading, Mutation
  <2>3. BaseRight(rows) => BaseRight(rows)'
    BY <2>1 DEF BaseRight
  <2>4. ScanKey(c)' = ScanKey(c)
    BY <2>1 DEF ScanKey
  <2>5. DOMAIN loaded' = {ScanKey(c)} /\ loaded'[ScanKey(c)] = History(Slot[ts[c]])
    BY <1>6 DEF MedianScans, ScanKey
  <2>6. loaded'[ScanKey(c)] \in SUBSET Row
    BY <1>0, <2>5 DEF History, TypeInv
  <2>7. ScanRight(c)'
    BY <2>1, <2>4, <2>5 DEF ScanRight, History
  <2> QED
    BY <1>0, <2>1, <2>2, <2>3, <2>4, <2>5, <2>6, <2>7 DEF BaselineRight
<1>7. ASSUME NEW c \in Call, MedianRetries(c) PROVE BaselineRight'
  <2>1. \A e \in Call : phase'[e] # "history"
    BY <1>0, <1>7 DEF MedianRetries, Becomes, TypeInv, Row, Turns, Reading
  <2> QED
    BY <1>7, <2>1 DEF MedianRetries, NoBase, BaselineRight
<1>8. ASSUME NEW c \in Call, MedianPublishes(c) PROVE BaselineRight'
  <2>1. /\ UNCHANGED <<rows, ts, revision>> /\ revision = snap /\ phase[c] = "history"
        /\ base'.start = Slot[ts[c]] /\ base'.revision = revision
        /\ base'.history = loaded[ScanKey(c)]
    BY <1>8 DEF MedianPublishes, ScanKey, ledgerVars, revisionVars
  <2>2. ScanRight(c) /\ Even(revision) /\ mutex = Nobody
    BY <1>0, <2>1 DEF BaselineRight, Readings, Turns
  <2>3. \A r \in Row : phase'[r] # "mutate"
    BY <1>0, <1>8, <2>2, CacheConstants DEF MedianPublishes, Becomes, TypeInv, Row, Turns
  <2>4. \A e \in Call : phase'[e] \notin {"committed", "history"}
    BY <1>0, <1>8 DEF MedianPublishes, Becomes, TypeInv, Row, Turns, Reading, Mutation
  <2>5. BaseRight(rows)'
    BY <2>1, <2>2 DEF BaseRight, ScanRight
  <2> QED
    BY <2>3, <2>4, <2>5 DEF BaselineRight
<1>9. ASSUME NEW c \in Call, SettleFinishes(c) PROVE BaselineRight'
  <2>1. UNCHANGED <<rows, ts, revision>> /\ phase[c] = "committed"
    BY <1>9 DEF SettleFinishes, ledgerVars, revisionVars
  <2>2. /\ \A r \in Row : phase'[r] = "mutate" => phase[r] = "mutate"
        /\ \A e \in Call : phase'[e] \notin {"committed", "history"}
    BY <1>0, <1>9 DEF SettleFinishes, Becomes, TypeInv, Row, Turns, Reading, Mutation
  <2>3. CASE base'.start = NoStart
    BY <2>2, <2>3 DEF BaselineRight
  <2>4. CASE /\ base.start # NoStart /\ OnlyMine(base.revision) /\ ts[c] >= base.start
             /\ base' = [base EXCEPT !.revision = revision]
    <3>1. /\ base'.start = base.start /\ base'.history = base.history /\ base.history \subseteq Row
          /\ base.start \in Int /\ ts[c] \in Int
      BY <1>0, <2>4, CacheConstants DEF TypeInv, Row, NoStart
    <3>2. Even(revision) /\ BaseRight(rows \ {c})
      BY <1>0, <2>1, <2>4, Parity DEF OnlyMine, BaselineRight
    <3>3. \A r \in Row : phase'[r] # "mutate"
      BY <1>0, <2>2, <3>2, CacheConstants DEF Turns
    <3>4. BaseRight(rows)'
      BY <2>1, <2>4, <3>1, <3>2 DEF BaseRight
    <3> QED
      BY <2>2, <3>3, <3>4 DEF BaselineRight
  <2> QED
    BY <1>9, <2>3, <2>4 DEF SettleFinishes, NoBase
<1>10. ASSUME NEW r \in Row, NEW a \in Agent, MutateBegins(r, a) PROVE BaselineRight'
  <2>1. /\ UNCHANGED <<rows, loaded, base, snap>> /\ revision' = revision + 1
        /\ mutex = Nobody /\ Even(revision)
        /\ \A e \in Row : phase'[e] = IF e = r THEN "mutate" ELSE phase[e]
    BY <1>0, <1>10 DEF MutateBegins, Becomes, Turns, TypeInv
  <2>2. BaseRight(rows) => BaseRight(rows)'
    BY <1>a, <2>1 DEF BaseRight
  <2>3. base'.start # NoStart =>
          /\ base'.revision # revision'
          /\ revision' = base'.revision + 1 => BaseRight(rows)'
    BY <1>0, <2>1, <2>2 DEF BaselineRight, Revisions
  <2>4. ASSUME NEW c \in Call, phase'[c] = "committed" PROVE ~(revision' <= snap' + 2)
    BY <1>0, <2>1, <2>4, CacheConstants DEF Readings, Turns, Mutation, Row
  <2>5. ASSUME NEW c \in Call, phase'[c] = "history"
        PROVE  /\ ScanKey(c)' \in DOMAIN loaded' /\ loaded'[ScanKey(c)'] \in SUBSET Row
               /\ revision' # snap'
    <3>1. phase[c] = "history" /\ ScanKey(c)' = ScanKey(c)
      BY <1>b, <2>1, <2>5 DEF ScanKey, Row
    <3> QED
      BY <1>0, <2>1, <3>1 DEF BaselineRight, Readings
  <2> QED
    BY <2>3, <2>4, <2>5 DEF BaselineRight
<1>11. ASSUME NEW r \in Row, MutateEnds(r) PROVE BaselineRight'
  <2>1. /\ UNCHANGED <<rows, ts, loaded, base, snap>>
        /\ revision' = revision + 1 /\ mutex = r /\ phase[r] \in {"committed", "aborted"}
        /\ \A e \in Row : phase'[e] = phase[e] \/ (phase'[e] = "done" /\ phase[e] # "mutate")
    BY <1>0, <1>11 DEF MutateEnds, Becomes, ledgerVars, TypeInv
  <2>2. \A e \in Row : phase'[e] # "mutate"
    BY <1>0, <2>1 DEF Turns
  <2>3. base'.revision # revision'
    BY <1>0, <2>1 DEF Revisions
  <2>4. ASSUME NEW c \in Call, phase'[c] = "history"
        PROVE  /\ ScanKey(c)' \in DOMAIN loaded' /\ loaded'[ScanKey(c)'] \in SUBSET Row
               /\ revision' # snap'
    <3>1. phase[c] = "history" /\ ScanKey(c)' = ScanKey(c)
      BY <2>1, <2>4 DEF ScanKey, Row
    <3> QED
      BY <1>0, <2>1, <3>1 DEF BaselineRight, Readings
  <2>5. ASSUME NEW c \in Call, base'.start # NoStart, phase'[c] = "committed", Even(snap'),
               base'.revision = snap', revision' <= snap' + 2
        PROVE  BaseRight(rows \ {c})'
    <3>1. BaseRight(rows \ {c})
      BY <1>0, <2>1, <2>5 DEF BaselineRight, Row
    <3> QED
      BY <2>1, <3>1 DEF BaseRight
  <2> QED
    BY <2>2, <2>3, <2>4, <2>5 DEF BaselineRight
<1>12. ASSUME NEW r \in Row, NEW s \in Time, Commits(r, Older(s)) PROVE BaselineRight'
  <2>1. /\ UNCHANGED <<ts, revision, loaded, base, snap>>
        /\ phase[r] = "mutate" /\ mutex = r /\ ~Even(revision)
        /\ \A e \in Row : phase'[e] = IF e = r THEN "committed" ELSE phase[e]
    BY <1>0, <1>12, CacheConstants DEF Commits, Becomes, revisionVars, TypeInv, Turns
  <2>2. base'.start # NoStart => base'.revision # revision'
    BY <1>0, <2>1 DEF Revisions
  <2>3. \A e \in Row : phase'[e] # "mutate"
    BY <1>0, <2>1 DEF Turns
  <2>4. ASSUME NEW c \in Call, phase'[c] = "history"
        PROVE  /\ ScanKey(c)' \in DOMAIN loaded' /\ loaded'[ScanKey(c)'] \in SUBSET Row
               /\ revision' # snap'
    <3>1. phase[c] = "history" /\ ScanKey(c)' = ScanKey(c)
      BY <2>1, <2>4 DEF ScanKey, Row
    <3> QED
      BY <1>0, <2>1, <3>1 DEF BaselineRight, Readings
  <2>5. r \notin rows
    BY <1>0, <2>1 DEF Turns
  <2>6. ASSUME NEW c \in Call, base'.start # NoStart, phase'[c] = "committed", Even(snap'),
               base'.revision = snap', revision' <= snap' + 2
        PROVE  BaseRight(rows \ {c})'
    <3>1. c = r
      <4>1. c # r => snap + 2 <= revision
        BY <1>0, <2>1, <2>6 DEF Readings, Mutation, Row
      <4> QED
        BY <1>0, <2>1, <2>6, <4>1, Parity
    <3>2. rows' \ {c} = rows
      BY <1>12, <2>5, <3>1, CacheConstants DEF Commits
    <3>3. revision = snap + 1
      <4>1. snap + 1 <= revision
        BY <1>0, <2>1, <3>1 DEF Readings, Mutation
      <4> QED
        BY <1>0, <2>1, <2>6, <4>1, Parity
    <3>4. BaseRight(rows)
      BY <1>0, <2>1, <2>6, <3>1, <3>3 DEF BaselineRight
    <3> QED
      BY <2>1, <3>2, <3>4 DEF BaseRight
  <2> QED
    BY <2>2, <2>3, <2>4, <2>6 DEF BaselineRight
<1> QED
  BY <1>2, <1>3, <1>4, <1>5, <1>6, <1>7, <1>8, <1>9, <1>10, <1>11, <1>12
  DEF Next, Admit, Settle, Rest, MutateGoesOn

-----------------------------------------------------------------------------
LEMMA CacheInvIsInvariant == Spec => []CacheInv
<1>1. CacheInv /\ [Next]_vars => CacheInv'
  BY TypeInductive, TurnsInductive, ReadingsInductive, RevisionsInductive, KeysInductive,
     AgentsBoundedInductive, WindowsInductive, BaselineInductive DEF CacheInv
<1> QED
  BY InitInv, <1>1, PTL DEF Spec

\* Whenever the guard may answer from its warm windows, they say what the
\* ledger says, and no more of them are of agents than the bound: for any
\* number of handlers, direct inserts and prunes, agents and window shapes
\* (internal/budget: cachedUsagesLocked, Reservation.Settle; internal/store:
\* mutateRequests).
THEOREM WarmWindowsAreCoherent == Spec => []WindowsCoherent
<1>1. CacheInv => WindowsCoherent
  <2> SUFFICES ASSUME CacheInv, Trusted PROVE WindowsCoherent
    BY DEF WindowsCoherent
  <2>1. /\ \A k \in Warm : RightFor(rows, k, usage[k])
        /\ AgentsBounded
    BY DEF CacheInv, WindowsRight, RightAbout, Trusted
  <2>2. ASSUME NEW k \in Warm, ~IsAgentKey(k) PROVE usage[k] = Since(k)
    BY <2>1, <2>2 DEF RightFor, In, Since
  <2>3. ASSUME NEW k \in WarmAgents(usage)
        PROVE  usage[k] \subseteq Since(k) /\ \A r \in Since(k) \ usage[k] : Day[ts[r]] > k[1]
    BY <2>1, <2>3 DEF RightFor, In, Since, WarmAgents, Warm
  <2> QED
    BY <2>1, <2>2, <2>3 DEF WindowsCoherent, AgentsBounded
<1> QED
  BY <1>1, CacheInvIsInvariant, PTL

\* A cached baseline whose revision is the ledger's is the one the ledger's
\* history gives, whatever was settled, inserted or pruned since it was scanned
\* (internal/budget: baselineMedianLocked, Reservation.Settle).
THEOREM CachedBaselineIsCoherent == Spec => []BaselineCoherent
<1>1. CacheInv => BaselineCoherent
  <2> SUFFICES ASSUME CacheInv, base.start # NoStart, base.revision = revision
               PROVE  base.history = History(base.start)
    BY DEF BaselineCoherent
  <2>1. BaseRight(rows) /\ rows \subseteq Row /\ base.history \subseteq Row
    BY DEF CacheInv, BaselineRight, TypeInv
  <2> QED
    BY <2>1 DEF BaseRight, History
<1> QED
  BY <1>1, CacheInvIsInvariant, PTL
=============================================================================
