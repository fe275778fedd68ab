------------------------------ MODULE UsageCache ------------------------------
(***************************************************************************)
(* The guard's warm usage windows and the sequence lock that keeps them    *)
(* coherent with the durable ledger (internal/budget: cachedUsagesLocked,  *)
(* reconcileUsageCacheLocked, baselineMedianLocked, Reservation.Settle;    *)
(* internal/store: mutateRequests, Insert, PruneBatch).                    *)
(*                                                                         *)
(* Admissions and settlements hold the guard's mutex.  Other users of the  *)
(* same Store insert rows and prune without it: the revision is odd while  *)
(* a mutation is under way, and every mutation moves it by two.  A usage   *)
(* total is represented by the set of ledger rows it counts.               *)
(***************************************************************************)
EXTENDS Integers, FiniteSets

CONSTANTS
  Call,         \* request handlers, who go through the guard
  Direct,       \* mutations of the same Store that do not
  Agent,        \* agents that may have a daily cap
  NoAgent,      \* not an agent
  MaxTime,      \* bound on the clock
  Cutoffs,      \* Cutoffs[t]: the window starts checked for a reading t
  Day,          \* Day[t]: start of the local day of t
  Slot,         \* Slot[t]: start of the baseline slot of t
  MaxAgents,    \* maxAgentUsageCacheEntries
  MaxAttempts   \* tries before an admission fails closed

Nobody == "nobody"

ASSUME LimitAssumption ==
  MaxTime \in Nat /\ MaxAgents \in Nat \ {0} /\ MaxAttempts \in Nat \ {0}
ASSUME NameAssumption ==
  NoAgent \notin Agent /\ Call \cap Direct = {} /\ Nobody \notin Call \cup Direct

Time == 0 .. MaxTime
\* What has happened since a day began is of that day or of a later one.
ASSUME WindowAssumption ==
  /\ Cutoffs \in [Time -> SUBSET Int]
  /\ Day \in [Time -> Time] /\ Slot \in [Time -> Time]
  /\ \A s, t \in Time : s >= Day[t] => Day[s] >= Day[t]

Row == Call \cup Direct
NoStart == -1       \* baselineCacheStart is unset

VARIABLES
  now,
  rows, ts, owner,          \* the ledger, and each row's time and agent
  revision, mutex,          \* Store.requestRevision, requestMutationMu
  lock,                     \* Guard.mu
  phase, attempt, snap, loaded,     \* the admission or settlement under way
  usage, active, cacheRevision, agentDay, entries,  \* the warm windows
  base,                     \* the cached baseline history
  capped                    \* agents whose cap is configured

ledgerVars == <<rows, ts, owner>>
revisionVars == <<revision, mutex>>
opVars == <<phase, attempt, snap, loaded>>
cacheVars == <<usage, active, cacheRevision, agentDay, entries>>
vars == <<now, ledgerVars, revisionVars, lock, opVars, cacheVars, base, capped>>

Global(s) == <<s, NoAgent>>
IsAgentKey(k) == k[2] # NoAgent
Even(n) == n % 2 = 0

\* What a scan of the ledger for a key returns.
Since(k) == {r \in rows : ts[r] >= k[1] /\ (IsAgentKey(k) => owner[r] = k[2])}
History(s) == {r \in rows : ts[r] < s}

GlobalKeys(c) == {Global(s) : s \in Cutoffs[ts[c]]}
AgentKey(c) == <<Day[ts[c]], owner[c]>>
AgentKeys(c) == IF owner[c] \in capped THEN {AgentKey(c)} ELSE {}
Wanted(c) == GlobalKeys(c) \cup AgentKeys(c)

Warm == DOMAIN usage
WarmAgents(f) == {k \in DOMAIN f : IsAgentKey(k)}
Keep(f, K) == [k \in DOMAIN f \cap K |-> f[k]]
NoBase == [start |-> NoStart, revision |-> 0, history |-> {}]
Empty == [k \in {} |-> {}]

-----------------------------------------------------------------------------
Init ==
  /\ now = 0 /\ rows = {}
  /\ ts = [r \in Row |-> 0]
  /\ owner = [r \in Row |-> NoAgent]
  /\ revision = 0 /\ mutex = Nobody /\ lock = Nobody
  /\ phase = [r \in Row |-> "idle"]
  /\ attempt = 0 /\ snap = 0 /\ loaded = Empty
  /\ usage = Empty /\ active = {} /\ cacheRevision = 0 /\ agentDay = NoStart
  /\ entries = 0 /\ base = NoBase
  /\ capped = {}

Becomes(r, p) == phase' = [phase EXCEPT ![r] = p]

\* invalidateUsageCacheLocked
Invalidate(n) ==
  /\ cacheRevision' = n /\ usage' = Empty /\ active' = {}
  /\ agentDay' = NoStart /\ entries' = 0

Arrive(c, a) ==
  /\ phase[c] = "idle"
  /\ Becomes(c, "arrived")
  /\ ts' = [ts EXCEPT ![c] = now]
  /\ owner' = [owner EXCEPT ![c] = a]
  /\ UNCHANGED <<now, rows, revisionVars, lock, attempt, snap, loaded,
                 cacheVars, base, capped>>

AdmitLocks(c) ==
  /\ phase[c] = "arrived" /\ lock = Nobody
  /\ lock' = c /\ attempt' = 1
  /\ Becomes(c, "read")
  /\ UNCHANGED <<now, ledgerVars, revisionVars, snap, loaded, cacheVars, base,
                 capped>>

\* A mutation in progress fails the admission closed.
ReadFails(c) ==
  /\ phase[c] \in {"read", "median"}
  /\ ~Even(revision)
  /\ Becomes(c, "done") /\ lock' = Nobody
  /\ UNCHANGED <<now, ledgerVars, revisionVars, attempt, snap, loaded,
                 cacheVars, base, capped>>

ReadRevision(c) ==
  /\ phase[c] = "read"
  /\ Even(revision)
  /\ snap' = revision
  /\ IF cacheRevision # revision THEN Invalidate(revision)
                                 ELSE UNCHANGED cacheVars
  /\ Becomes(c, "globals")
  /\ UNCHANGED <<now, ledgerVars, revisionVars, lock, attempt, loaded, base,
                 capped>>

\* BudgetUsageSinceMulti: one scan for the global windows that are not warm.
ScanGlobals(c) ==
  /\ phase[c] = "globals"
  /\ loaded' = [k \in GlobalKeys(c) \ Warm |-> Since(k)]
  /\ Becomes(c, "agent")
  /\ UNCHANGED <<now, ledgerVars, revisionVars, lock, attempt, snap, cacheVars,
                 base, capped>>

\* BudgetUsageSinceForAgent: another scan, of a possibly later ledger.
ScanAgent(c) ==
  /\ phase[c] = "agent"
  /\ loaded' = [k \in DOMAIN loaded \cup (AgentKeys(c) \ Warm) |->
                  IF k \in DOMAIN loaded THEN loaded[k] ELSE Since(k)]
  /\ Becomes(c, "publish")
  /\ UNCHANGED <<now, ledgerVars, revisionVars, lock, attempt, snap, cacheVars,
                 base, capped>>

\* The ledger moved under the scans: forget everything and try again, or
\* fail closed after the last attempt.
PublishRetries(c) ==
  /\ phase[c] = "publish"
  /\ revision # snap
  /\ Invalidate(revision)
  /\ IF attempt < MaxAttempts
     THEN attempt' = attempt + 1 /\ Becomes(c, "read") /\ UNCHANGED lock
     ELSE lock' = Nobody /\ Becomes(c, "done") /\ UNCHANGED attempt
  /\ UNCHANGED <<now, ledgerVars, revisionVars, snap, loaded, base, capped>>

\* The warm windows and the count of agents' windows among them, with what
\* the scans loaded.
Merged ==
  [use |-> [k \in Warm \cup DOMAIN loaded |->
              IF k \in Warm THEN usage[k] ELSE loaded[k]],
   count |-> entries + Cardinality(WarmAgents(loaded) \ Warm)]

\* boundAgentUsageCacheLocked, after an agent's window was added.
Bounded(c, w) ==
  IF WarmAgents(loaded) \ Warm = {} \/ w.count <= MaxAgents THEN w
  ELSE LET f == Keep(w.use, {k \in DOMAIN w.use : ~IsAgentKey(k)} \cup AgentKeys(c))
       IN  [use |-> f, count |-> Cardinality(WarmAgents(f))]

\* The first admission of another day drops the agents' windows of the last.
Rolled(c, w) ==
  IF agentDay \in {NoStart, Day[ts[c]]} THEN w
  ELSE LET f == Keep(w.use, {k \in DOMAIN w.use :
                               IsAgentKey(k) => k[1] = Day[ts[c]]})
       IN  [use |-> f, count |-> Cardinality(WarmAgents(f))]

\* A caller without a cap has no warm window.
Uncapped(c, w) ==
  IF owner[c] \in capped \/ AgentKey(c) \notin DOMAIN w.use THEN w
  ELSE [use |-> Keep(w.use, DOMAIN w.use \ {AgentKey(c)}),
        count |-> IF w.count > 0 THEN w.count - 1 ELSE 0]

\* Fault: global windows that are no longer checked stay warm.
ReconciledAgents(c, w) == Uncapped(c, Rolled(c, w))

\* reconcileUsageCacheLocked
Reconciled(c, w) ==
  LET f == Keep(w.use, DOMAIN w.use \ (active \ GlobalKeys(c)))
  IN  Uncapped(c, Rolled(c, [w EXCEPT !.use = f]))

\* Nothing moved since the revision was read: the windows become warm, and
\* the admission goes on to the baseline or is denied.
Publish(c, denied) ==
  /\ phase[c] = "publish"
  /\ revision = snap
  /\ LET w == Reconciled(c, Bounded(c, Merged))
     IN  usage' = w.use /\ entries' = w.count
  /\ active' = GlobalKeys(c)
  /\ agentDay' = Day[ts[c]]
  /\ IF denied THEN Becomes(c, "done") /\ lock' = Nobody /\ UNCHANGED attempt
               ELSE Becomes(c, "median") /\ attempt' = 1 /\ UNCHANGED lock
  /\ UNCHANGED <<now, ledgerVars, revisionVars, snap, loaded, cacheRevision,
                 base, capped>>

\* baselineMedianLocked: a hit, or a scan of the history.
MedianHit(c) ==
  /\ phase[c] = "median"
  /\ Even(revision) /\ base.start = Slot[ts[c]] /\ base.revision = revision
  /\ Becomes(c, "admitted") /\ lock' = Nobody
  /\ UNCHANGED <<now, ledgerVars, revisionVars, attempt, snap, loaded,
                 cacheVars, base, capped>>

MedianScans(c) ==
  /\ phase[c] = "median"
  /\ Even(revision) /\ ~(base.start = Slot[ts[c]] /\ base.revision = revision)
  /\ snap' = revision
  /\ loaded' = [k \in {Global(Slot[ts[c]])} |-> History(Slot[ts[c]])]
  /\ Becomes(c, "history")
  /\ UNCHANGED <<now, ledgerVars, revisionVars, lock, attempt, cacheVars, base,
                 capped>>

MedianRetries(c) ==
  /\ phase[c] = "history"
  /\ revision # snap
  /\ base' = NoBase
  /\ IF attempt < MaxAttempts
     THEN attempt' = attempt + 1 /\ Becomes(c, "median") /\ UNCHANGED lock
     ELSE lock' = Nobody /\ Becomes(c, "done") /\ UNCHANGED attempt
  /\ UNCHANGED <<now, ledgerVars, revisionVars, snap, loaded, cacheVars, capped>>

MedianPublishes(c) ==
  /\ phase[c] = "history"
  /\ revision = snap
  /\ base' = [start |-> Slot[ts[c]], revision |-> revision,
              history |-> loaded[Global(Slot[ts[c]])]]
  /\ Becomes(c, "admitted") /\ lock' = Nobody
  /\ UNCHANGED <<now, ledgerVars, revisionVars, attempt, snap, loaded,
                 cacheVars, capped>>

-----------------------------------------------------------------------------
(* Settlement, under the guard's mutex around the mutation's own.          *)

SettleLocks(c) ==
  /\ phase[c] = "admitted" /\ lock = Nobody
  /\ lock' = c /\ snap' = revision
  /\ Becomes(c, "settle")
  /\ UNCHANGED <<now, ledgerVars, revisionVars, attempt, loaded, cacheVars,
                 base, capped>>

\* mutateRequests: revision odd, the change, revision even again.
MutateBegins(r, a) ==
  /\ IF r \in Call THEN phase[r] = "settle" /\ a = owner[r] ELSE phase[r] = "idle"
  /\ mutex = Nobody
  /\ mutex' = r /\ revision' = revision + 1
  /\ Becomes(r, "mutate")
  /\ ts' = IF r \in Direct THEN [ts EXCEPT ![r] = now] ELSE ts
  /\ owner' = [owner EXCEPT ![r] = a]
  /\ UNCHANGED <<now, rows, lock, attempt, snap, loaded, cacheVars, base,
                 capped>>

\* The transaction commits: a row more, or for a direct mutation possibly
\* every row before a cutoff less.
Commits(r, pruned) ==
  /\ phase[r] = "mutate"
  /\ pruned # {} => r \in Direct
  /\ rows' = IF pruned = {} THEN rows \cup {r} ELSE rows \ pruned
  /\ Becomes(r, "committed")
  /\ UNCHANGED <<now, ts, owner, revisionVars, lock, attempt, snap, loaded,
                 cacheVars, base, capped>>

Older(s) == {r \in rows : ts[r] < s}

\* The transaction fails and changes nothing.
Aborts(r) ==
  /\ phase[r] = "mutate"
  /\ Becomes(r, "aborted")
  /\ UNCHANGED <<now, ledgerVars, revisionVars, lock, attempt, snap, loaded,
                 cacheVars, base, capped>>

MutateEnds(r) ==
  /\ mutex = r /\ phase[r] \in {"committed", "aborted"}
  /\ mutex' = Nobody /\ revision' = revision + 1
  /\ IF r \in Direct THEN Becomes(r, "done") ELSE UNCHANGED phase
  /\ UNCHANGED <<now, ledgerVars, lock, attempt, snap, loaded, cacheVars, base,
                 capped>>

\* The insert failed: Settle returns the error with the windows untouched.
SettleAborts(c) ==
  /\ lock = c /\ mutex # c /\ phase[c] = "aborted"
  /\ Becomes(c, "done") /\ lock' = Nobody
  /\ UNCHANGED <<now, ledgerVars, revisionVars, attempt, snap, loaded,
                 cacheVars, base, capped>>

\* addSettledUsageLocked on the active global windows and the agent's day the
\* call was admitted on.
Charged(c) ==
  [k \in Warm |->
     IF k \in active \cup {AgentKey(c)} /\ ts[c] >= k[1]
     THEN usage[k] \cup {c} ELSE usage[k]]

\* Fault: an even revision is taken for a quiet ledger.
OnlyMineIfEven(seen) == Even(snap) /\ seen = snap /\ Even(revision)

\* Only this insert happened between the two readings of the revision.
OnlyMine(seen) == Even(snap) /\ seen = snap /\ revision = snap + 2

\* Fault: the baseline is kept whatever row was settled.
SettleFinishesKeepingBase(c) ==
  /\ lock = c /\ mutex # c /\ phase[c] = "committed"
  /\ IF OnlyMine(cacheRevision)
     THEN /\ usage' = Charged(c) /\ cacheRevision' = revision
          /\ UNCHANGED <<active, agentDay, entries>>
     ELSE Invalidate(revision)
  /\ base' = IF OnlyMine(base.revision) THEN [base EXCEPT !.revision = revision]
             ELSE NoBase
  /\ Becomes(c, "done") /\ lock' = Nobody
  /\ UNCHANGED <<now, ledgerVars, revisionVars, attempt, snap, loaded, capped>>

\* Keep the warm windows in step if nobody else touched the ledger,
\* otherwise forget them; the same for the baseline, whose history a row of
\* the current slot cannot change.
SettleFinishes(c) ==
  /\ lock = c /\ mutex # c /\ phase[c] = "committed"
  /\ IF OnlyMine(cacheRevision)
     THEN /\ usage' = Charged(c) /\ cacheRevision' = revision
          /\ UNCHANGED <<active, agentDay, entries>>
     ELSE Invalidate(revision)
  /\ base' = IF base.start = NoStart THEN base
             ELSE IF OnlyMine(base.revision) /\ ts[c] >= base.start
             THEN [base EXCEPT !.revision = revision] ELSE NoBase
  /\ Becomes(c, "done") /\ lock' = Nobody
  /\ UNCHANGED <<now, ledgerVars, revisionVars, attempt, snap, loaded, capped>>

-----------------------------------------------------------------------------
\* An agent's cap is set or removed.  An admission reads the settings once,
\* right after it took the lock: a change during it is a change after it.
ToggleCap(a) ==
  /\ lock = Nobody
  /\ capped' = IF a \in capped THEN capped \ {a} ELSE capped \cup {a}
  /\ UNCHANGED <<now, ledgerVars, revisionVars, lock, opVars, cacheVars, base>>

Tick ==
  /\ now < MaxTime
  /\ now' = now + 1
  /\ UNCHANGED <<ledgerVars, revisionVars, lock, opVars, cacheVars, base, capped>>

Admit(c) ==
  \/ AdmitLocks(c) \/ ReadFails(c) \/ ReadRevision(c)
  \/ ScanGlobals(c) \/ ScanAgent(c) \/ PublishRetries(c)
  \/ \E denied \in BOOLEAN : Publish(c, denied)
  \/ MedianHit(c) \/ MedianScans(c) \/ MedianRetries(c) \/ MedianPublishes(c)

MutateGoesOn(r) ==
  Aborts(r) \/ MutateEnds(r) \/ \E s \in Time : Commits(r, Older(s))

Settle(c) == SettleLocks(c) \/ SettleAborts(c) \/ SettleFinishes(c)

\* Nothing is under way: every handler is through or has yet to come.
Rest ==
  /\ \A r \in Row : phase[r] \in {"idle", "admitted", "done"}
  /\ UNCHANGED vars

Next ==
  \/ \E c \in Call : (\E a \in Agent : Arrive(c, a)) \/ Admit(c) \/ Settle(c)
  \/ \E r \in Row : (\E a \in Agent : MutateBegins(r, a)) \/ MutateGoesOn(r)
  \/ \E a \in Agent : ToggleCap(a)
  \/ Tick
  \/ Rest

Spec == Init /\ [][Next]_vars

-----------------------------------------------------------------------------
\* The warm windows are about to be trusted: the guard is not inside a step
\* and their revision is the ledger's.
Trusted == lock = Nobody /\ Even(revision) /\ cacheRevision = revision

\* What an admission would answer from memory is what the ledger would answer,
\* whatever was inserted, pruned or settled meanwhile: a global window counts
\* exactly its rows; an agent's counts no row the ledger has lost and misses at
\* most rows of a later day than its own, and there are no more of those
\* windows than the bound, nor than are counted.
WindowsCoherent ==
  Trusted =>
    /\ \A k \in Warm : ~IsAgentKey(k) => usage[k] = Since(k)
    /\ \A k \in WarmAgents(usage) :
         /\ usage[k] \subseteq Since(k)
         /\ \A r \in Since(k) \ usage[k] : Day[ts[r]] > k[1]
    /\ entries = Cardinality(WarmAgents(usage)) /\ entries <= MaxAgents

\* The cached baseline is the one the ledger's history gives.
BaselineCoherent ==
  (lock = Nobody /\ Even(revision) /\ base.start # NoStart
     /\ base.revision = revision)
  => base.history = History(base.start)
=============================================================================
