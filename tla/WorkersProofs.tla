---------------------------- MODULE WorkersProofs ----------------------------
(***************************************************************************)
(* Proofs about the workers.  TelemetryWorker, for any number of rows and  *)
(* any batch size and backlog: what a checkpoint reports as acknowledged   *)
(* was accepted, settled rows are not sent again, and the worker           *)
(* implements SignalFeed.  WebhookAlerts, for any windows and caps: an     *)
(* alert that was acknowledged is not posted again.                        *)
(***************************************************************************)
EXTENDS Workers, FiniteSetTheorems, WellFoundedInduction, TLAPS

-----------------------------------------------------------------------------
(* Least and greatest elements. *)

LEMMA Ranges == \A n \in Nat : /\ 0..n \subseteq Nat /\ 1..n \subseteq 0..n
                             /\ n \in 0..n /\ 0 \in 0..n
OBVIOUS

LEMMA LeastOfNaturals ==
  ASSUME NEW S, S \subseteq Nat, S # {}
  PROVE  \E x \in S : \A y \in S : x <= y
<1> DEFINE R == OpToRel(<, Nat)
<1>1. IsWellFoundedOn(R, Nat)
  BY NatLessThanWellFounded
<1>2. PICK x \in S : \A y \in S : ~ (<<y, x>> \in R)
  <2> HIDE DEF R
  <2> QED
    BY <1>1, WFMin
<1>3. ASSUME NEW y \in S PROVE x <= y
  <2>1. ~ (<<y, x>> \in R)
    BY <1>2
  <2>2. x \in Nat /\ y \in Nat
    OBVIOUS
  <2>3. ~ (y < x)
    BY <2>1, <2>2 DEF OpToRel
  <2> QED
    BY <2>2, <2>3
<1> QED
  BY <1>2, <1>3

LEMMA MaxOfBounded ==
  ASSUME NEW n \in Nat, NEW S, S \subseteq 0..n, S # {}
  PROVE  Max(S) \in S /\ \A y \in S : y <= Max(S)
<1> DEFINE T == {m \in Nat : \E x \in S : x + m = n}
<1>1. T # {}
  <2>1. PICK x \in S : x \in 0..n
    OBVIOUS
  <2>2. n - x \in Nat /\ x + (n - x) = n
    BY <2>1
  <2> QED
    BY <2>2
<1>2. PICK t \in T : \A u \in T : t <= u
  <2>1. T \subseteq Nat
    OBVIOUS
  <2> HIDE DEF T
  <2> QED
    BY <1>1, <2>1, LeastOfNaturals
<1>3. PICK x \in S : x + t = n
  OBVIOUS
<1>4. ASSUME NEW y \in S PROVE x >= y
  <2>1. n - y \in T
    OBVIOUS
  <2> QED
    BY <1>2, <1>3, <2>1
<1>5. Max(S) \in S /\ \A y \in S : Max(S) >= y
  BY <1>4 DEF Max
<1>6. S \subseteq Int
  OBVIOUS
<1> QED
  BY <1>5, <1>6

LEMMA MaxOfTwo ==
  ASSUME NEW a \in Nat, NEW b \in Nat
  PROVE  Max({a, b}) = IF a <= b THEN b ELSE a
<1>1. PICK n \in Nat : a <= n /\ b <= n
  OBVIOUS
<1>2. {a, b} \subseteq 0..n
  BY <1>1
<1>3. Max({a, b}) \in {a, b} /\ \A y \in {a, b} : y <= Max({a, b})
  BY <1>2, MaxOfBounded
<1> QED
  BY <1>3

\* The first ids of a set are closed downwards, and some if there are any.
LEMMA FirstOfIs ==
  ASSUME NEW n \in Nat, NEW S, S \subseteq 1..n, NEW m \in Nat \ {0}
  PROVE  /\ FirstOf(S, m) \subseteq S
         /\ S # {} => FirstOf(S, m) # {}
         /\ \A i \in FirstOf(S, m), j \in S : j < i => j \in FirstOf(S, m)
<1> DEFINE Below(i) == {j \in S : j < i}
<1>1. S \subseteq Nat /\ IsFiniteSet(S)
  <2>1. IsFiniteSet(1..n)
    BY FS_Interval
  <2>2. S \in SUBSET (1..n) /\ S \subseteq Nat
    OBVIOUS
  <2> QED
    BY <2>1, <2>2, FS_Subset
<1>2. \A i : IsFiniteSet(Below(i)) /\ Cardinality(Below(i)) \in Nat
  BY <1>1, FS_Subset, FS_CardinalityType
<1>3. S # {} => FirstOf(S, m) # {}
  <2> SUFFICES ASSUME S # {} PROVE FirstOf(S, m) # {}
    OBVIOUS
  <2>1. PICK x \in S : \A y \in S : x <= y
    BY <1>1, LeastOfNaturals
  <2>2. Below(x) = {}
    <3>1. ASSUME NEW y \in S PROVE ~ (y < x)
      <4>1. x \in Nat /\ y \in Nat /\ x <= y
        BY <1>1, <2>1
      <4> QED
        BY <4>1
    <3> QED
      BY <3>1
  <2>3. Cardinality(Below(x)) = 0
    BY <2>2, FS_EmptySet
  <2> QED
    BY <2>3 DEF FirstOf
<1>4. ASSUME NEW i \in FirstOf(S, m), NEW j \in S, j < i PROVE j \in FirstOf(S, m)
  <2>1. i \in S /\ Cardinality(Below(i)) < m
    BY DEF FirstOf
  <2>2. Below(j) \subseteq Below(i)
    <3>1. ASSUME NEW y \in S, y < j PROVE y < i
      <4>1. y \in Nat /\ j \in Nat /\ i \in Nat /\ y < j /\ j < i
        BY <1>1, <1>4, <2>1, <3>1
      <4> QED
        BY <4>1
    <3> QED
      BY <3>1
  <2>3. Cardinality(Below(j)) <= Cardinality(Below(i))
    BY <1>2, <2>2, FS_Subset
  <2>4. Cardinality(Below(j)) < m
    BY <1>2, <2>1, <2>3
  <2> QED
    BY <2>4 DEF FirstOf
<1> QED
  BY <1>3, <1>4 DEF FirstOf

-----------------------------------------------------------------------------
(* The inductive invariant. *)

LEMMA SignalIs == Signal = {"traces", "metrics"} /\ "traces" \in Signal /\ "metrics" \in Signal
BY DEF Signal

Posting == pc \in {"traces", "metrics", "saving"}

\* Nothing is settled that was never given an id; memory is what is stored.
Known ==
    /\ \A s \in Signal : setting.through[s] <= last
    /\ setting.acked <= last
    /\ IF loaded THEN memory = setting ELSE pc = "idle"

\* A batch is a run of rows after the lagging cursor, and none of its rows is
\* settled for a signal it is to be posted for.
Cut ==
    Posting =>
        /\ batch # {}
        /\ \A i \in batch : Lowest(memory) < i /\ i <= last
        /\ \A i \in rows : Lowest(memory) < i /\ i <= Max(batch) => i \in batch
        /\ \A s \in Signal : memory.through[s] < Max(batch)
                               => \A i \in batch : memory.through[s] < i

\* A drop goes past the lagging cursor.
DropsAhead ==
    pc = "dropping" => \E k \in 1..last : batch = {k} /\ Lowest(memory) < k

\* A signal that has its final answer has it for the whole batch.
ResultsOfBatch ==
    \A s \in Signal : result[s] \in {"ok", "rejected"} =>
        /\ pc \in {"metrics", "saving"}
        /\ memory.through[s] < Max(batch)
        /\ batch \subseteq answered[s]
        /\ result[s] = "ok" => batch \subseteq accepted[s]

\* Behind its cursor, a signal that did not fail lost only dropped rows.
Healthy(c) ==
    \A s \in Signal \ c.failed : \A i \in rows :
        c.dropped < i /\ i <= c.through[s] => i \in accepted[s]

WorkerInv ==
    /\ TypeOK /\ Known /\ Cut /\ DropsAhead /\ ResultsOfBatch
    /\ Healthy(setting) /\ AckedWasAccepted

-----------------------------------------------------------------------------
(* What the operators of the worker return. *)

LEMMA LowestIs ==
  ASSUME NEW c \in Checkpoint
  PROVE  /\ Lowest(c) \in 0..MaxRows /\ Leading(c) \in 0..MaxRows
         /\ \A s \in Signal : /\ c.through[s] \in 0..MaxRows
                              /\ Lowest(c) <= c.through[s] /\ c.through[s] <= Leading(c)
                              /\ c.through[s] \in {Lowest(c), Leading(c)}
         /\ c.through["traces"] = c.through["metrics"]
                => \A s \in Signal : c.through[s] = Lowest(c)
BY SignalIs DEF Checkpoint, Lowest, Leading

\* The rows after a cursor.
LEMMA AfterIs ==
  ASSUME TypeOK, NEW k \in Nat
  PROVE  After(k) \subseteq 1..last /\ last \in Nat
<1>1. rows \subseteq 1..last /\ last \in 0..MaxRows /\ MaxRows \in Nat
  BY WorkerAssumption DEF TypeOK
<1>2. After(k) \subseteq rows
  BY DEF After
<1>3. last \in Nat
  BY <1>1, Ranges
<1> QED
  BY <1>1, <1>2, <1>3

LEMMA DropThroughIs ==
  ASSUME TypeOK, NEW k \in Nat, DropThrough(k) > k
  PROVE  DropThrough(k) \in 1..last
<1> DEFINE pending == After(k)
<1> DEFINE excess == Cardinality(pending) - MaxBacklog
<1>1. pending \subseteq 1..last /\ last \in Nat
  BY AfterIs
<1>2. IsFiniteSet(pending) /\ Cardinality(pending) \in Nat
  <2>1. IsFiniteSet(1..last)
    BY <1>1, FS_Interval
  <2>2. pending \in SUBSET (1..last)
    BY <1>1
  <2> QED
    BY <2>1, <2>2, FS_Subset, FS_CardinalityType
<1>3. MaxBacklog \in Nat
  BY WorkerAssumption
<1>4. ~ (Cardinality(pending) <= MaxBacklog)
  <2>1. SUFFICES ASSUME Cardinality(pending) <= MaxBacklog PROVE FALSE
    OBVIOUS
  <2>2. DropThrough(k) = 0
    BY <2>1 DEF DropThrough
  <2> QED
    BY <2>2
<1>5. DropThrough(k) = Max(FirstOf(pending, excess))
  BY <1>4 DEF DropThrough
<1>6. excess \in Nat \ {0}
  BY <1>2, <1>3, <1>4
<1>7. pending # {}
  <2>1. SUFFICES ASSUME pending = {} PROVE FALSE
    OBVIOUS
  <2>2. Cardinality(pending) = 0
    BY <2>1, FS_EmptySet
  <2> QED
    BY <1>3, <1>4, <2>2
<1> HIDE DEF pending, excess
<1>8. FirstOf(pending, excess) \subseteq 1..last /\ FirstOf(pending, excess) # {}
  BY <1>1, <1>6, <1>7, FirstOfIs
<1>9. FirstOf(pending, excess) \subseteq 0..last
  BY <1>1, <1>8
<1>10. Max(FirstOf(pending, excess)) \in FirstOf(pending, excess)
  BY <1>1, <1>8, <1>9, MaxOfBounded
<1> QED
  BY <1>5, <1>8, <1>10

\* A batch runs from the lagging cursor, and never across the leading one.
LEMMA SelectedIs ==
  ASSUME TypeOK, NEW c \in Checkpoint
  PROVE  /\ Selected(c) \subseteq After(Lowest(c))
         /\ \A i \in Selected(c), j \in After(Lowest(c)) : j < i => j \in Selected(c)
         /\ \/ \A i \in Selected(c) : i <= Leading(c)
            \/ \A i \in Selected(c) : Leading(c) < i
<1> DEFINE pending == After(Lowest(c))
<1> DEFINE read == FirstOf(pending, BatchSize)
<1> DEFINE behind == {i \in read : i <= Leading(c)}
<1>1. pending \subseteq 1..last /\ last \in Nat
  BY AfterIs, LowestIs
<1>2. BatchSize \in Nat \ {0}
  BY WorkerAssumption
<1>3. Selected(c) = IF behind # {} THEN behind ELSE read
  BY DEF Selected
<1>4. Leading(c) \in Nat
  BY LowestIs
<1> HIDE DEF pending
<1>5. /\ read \subseteq pending
      /\ \A i \in read, j \in pending : j < i => j \in read
  BY <1>1, <1>2, FirstOfIs
<1> HIDE DEF read
<1>6. \A i \in pending : i \in Nat
  BY <1>1
<1>7. CASE behind # {}
  <2>1. \A i \in behind, j \in pending : j < i => j \in behind
    BY <1>4, <1>5, <1>6
  <2> QED
    BY <1>3, <1>5, <1>7, <2>1 DEF pending
<1>8. CASE behind = {}
  <2>1. \A i \in read : Leading(c) < i
    BY <1>4, <1>5, <1>6, <1>8
  <2> QED
    BY <1>3, <1>5, <1>8, <2>1 DEF pending
<1> QED
  BY <1>7, <1>8

LEMMA ClassifiedIs ==
  ASSUME NEW c \in Checkpoint
  PROVE  /\ Classified(c) \in Checkpoint
         /\ Classified(c).through = c.through
         /\ \/ Classified(c) = c
            \/ /\ c.through["traces"] = c.through["metrics"]
               /\ Classified(c).acked = c.acked
               /\ Classified(c).dropped >= c.dropped
               /\ Classified(c).dropped >= Lowest(c)
            \/ /\ c.through["traces"] = c.through["metrics"]
               /\ c.failed = {} /\ Classified(c).failed = {}
               /\ Classified(c).dropped = c.dropped
               /\ Classified(c).acked \in {c.acked, Lowest(c)}
<1>1. c.acked \in 0..MaxRows /\ c.dropped \in 0..MaxRows /\ Lowest(c) \in 0..MaxRows
  BY LowestIs DEF Checkpoint
<1>2. \A a, b \in 0..MaxRows : /\ Max({a, b}) \in {a, b} /\ Max({a, b}) \in 0..MaxRows
                               /\ a <= Max({a, b}) /\ b <= Max({a, b})
  <2>1. TAKE a, b \in 0..MaxRows
  <2>2. a \in Nat /\ b \in Nat
    OBVIOUS
  <2> QED
    BY <2>2, MaxOfTwo
<1> DEFINE D == Max({c.dropped, Lowest(c)})
<1> DEFINE A == Max({c.acked, Lowest(c)})
<1>3. /\ D \in 0..MaxRows /\ c.dropped <= D /\ Lowest(c) <= D
      /\ A \in 0..MaxRows /\ A \in {c.acked, Lowest(c)}
  BY <1>1, <1>2
<1>4. Classified(c) = c \/ /\ c.through["traces"] = c.through["metrics"]
                           /\ c.failed # {}
                           /\ Classified(c) = [c EXCEPT !.failed = {}, !.dropped = D]
                        \/ /\ c.through["traces"] = c.through["metrics"]
                           /\ c.failed = {}
                           /\ Classified(c) = [c EXCEPT !.acked = A]
  BY DEF Classified
<1> HIDE DEF D, A
<1>5. c.dropped \in Nat /\ D \in Nat /\ Lowest(c) \in Nat
  BY <1>1, <1>3
<1>6. D >= c.dropped /\ D >= Lowest(c)
  BY <1>3, <1>5
<1> QED
  BY <1>1, <1>3, <1>4, <1>6 DEF Checkpoint

LEMMA DroppedIs ==
  ASSUME NEW c \in Checkpoint, NEW k \in 1..MaxRows
  PROVE  /\ Dropped(c, k) \in Checkpoint
         /\ \A s \in Signal : /\ Dropped(c, k).through[s] \in {c.through[s], k}
                              /\ c.through[s] <= Dropped(c, k).through[s]
                              /\ k <= Dropped(c, k).through[s]
         /\ Dropped(c, k).acked = c.acked
         /\ c.dropped <= Dropped(c, k).dropped /\ k <= Dropped(c, k).dropped
         /\ \/ Dropped(c, k).failed = c.failed
            \/ Dropped(c, k).through["traces"] = Dropped(c, k).through["metrics"]
<1> DEFINE through == [s \in Signal |-> Max({c.through[s], k})]
<1> DEFINE D == Max({c.dropped, k})
<1> DEFINE F == IF through["traces"] = through["metrics"] THEN {} ELSE c.failed
<1>1. c \in [through : [Signal -> 0..MaxRows], failed : SUBSET Signal,
             acked : 0..MaxRows, dropped : 0..MaxRows]
  BY DEF Checkpoint
<1>2. k \in Nat /\ c.dropped \in Nat /\ \A s \in Signal : c.through[s] \in Nat
  BY <1>1
<1>3. ASSUME NEW s \in Signal
      PROVE  /\ through[s] \in 0..MaxRows /\ through[s] \in {c.through[s], k}
             /\ c.through[s] <= through[s] /\ k <= through[s]
  BY <1>1, <1>2, MaxOfTwo
<1>4. D \in 0..MaxRows /\ c.dropped <= D /\ k <= D
  BY <1>1, <1>2, MaxOfTwo
<1>5. Dropped(c, k) = [c EXCEPT !.through = through, !.dropped = D, !.failed = F]
  BY DEF Dropped
<1>6. through \in [Signal -> 0..MaxRows] /\ F \in SUBSET Signal
  BY <1>1, <1>3
<1>7. F = c.failed \/ through["traces"] = through["metrics"]
  OBVIOUS
<1> HIDE DEF through, D, F
<1> QED
  BY <1>1, <1>3, <1>4, <1>5, <1>6, <1>7 DEF Checkpoint

LEMMA AdvancedIs ==
  ASSUME TypeOK, NEW c \in Checkpoint, batch # {}
  PROVE  LET terminal == {s \in Signal : result[s] \in {"ok", "rejected"}}
             e == [c EXCEPT
                     !.through = [s \in Signal |-> IF s \in terminal THEN Max(batch) ELSE @[s]],
                     !.failed = @ \cup {s \in terminal : result[s] = "rejected"}]
         IN  /\ e \in Checkpoint /\ Advanced(c) = Classified(e)
             /\ e.acked = c.acked /\ e.dropped = c.dropped
             /\ \A s \in Signal :
                 IF result[s] \in {"ok", "rejected"} THEN e.through[s] = Max(batch)
                 ELSE e.through[s] = c.through[s]
             /\ \A s \in Signal : s \notin e.failed => s \notin c.failed /\ result[s] # "rejected"
<1> DEFINE terminal == {s \in Signal : result[s] \in {"ok", "rejected"}}
<1> DEFINE through == [s \in Signal |-> IF s \in terminal THEN Max(batch) ELSE c.through[s]]
<1> DEFINE F == c.failed \cup {s \in terminal : result[s] = "rejected"}
<1> DEFINE e == [c EXCEPT !.through = through, !.failed = F]
<1>1. c \in [through : [Signal -> 0..MaxRows], failed : SUBSET Signal,
             acked : 0..MaxRows, dropped : 0..MaxRows]
  BY DEF Checkpoint
<1>2. Max(batch) \in 0..MaxRows
  <2>1. batch \subseteq 0..MaxRows /\ MaxRows \in Nat
    BY WorkerAssumption DEF TypeOK, Ids
  <2> QED
    BY <2>1, MaxOfBounded
<1>3. through \in [Signal -> 0..MaxRows] /\ F \in SUBSET Signal
  BY <1>1, <1>2
<1>4. \A s \in Signal : through[s] = IF result[s] \in {"ok", "rejected"} THEN Max(batch)
                                     ELSE c.through[s]
  OBVIOUS
<1>5. \A s \in Signal : s \notin F => s \notin c.failed /\ result[s] # "rejected"
  OBVIOUS
<1>6. Advanced(c) = Classified(e)
  BY DEF Advanced
<1>7. e \in Checkpoint /\ e.through = through /\ e.failed = F
      /\ e.acked = c.acked /\ e.dropped = c.dropped
  <2> HIDE DEF through, F
  <2> QED
    BY <1>1, <1>3 DEF Checkpoint
<1> QED
  BY <1>4, <1>5, <1>6, <1>7

-----------------------------------------------------------------------------
(* The invariant is inductive. *)

\* A drop keeps what is said of the cursors.
LEMMA DropKeeps ==
  ASSUME TypeOK, Healthy(setting), AckedWasAccepted,
         NEW k \in 1..MaxRows, Lowest(setting) < k
  PROVE  LET d == Dropped(setting, k)
         IN  /\ Healthy(d)
             /\ \A i \in rows : d.dropped < i /\ i <= d.acked
                                  => \A s \in Signal : i \in accepted[s]
<1> DEFINE d == Dropped(setting, k)
<1>1. setting \in Checkpoint /\ \A i \in rows : i \in Nat
  BY DEF TypeOK
<1>2. /\ d \in Checkpoint
      /\ \A s \in Signal : d.through[s] \in {setting.through[s], k} /\ k <= d.through[s]
      /\ d.acked = setting.acked /\ setting.dropped <= d.dropped /\ k <= d.dropped
      /\ d.failed = setting.failed \/ d.through["traces"] = d.through["metrics"]
  BY <1>1, DroppedIs
<1>3. /\ d.dropped \in Nat /\ setting.dropped \in Nat /\ k \in Nat
      /\ \A s \in Signal : d.through[s] \in Nat /\ setting.through[s] \in Nat
  BY <1>1, <1>2 DEF Checkpoint
<1>4. \E s \in Signal : setting.through[s] < k
  <2>1. \E s \in Signal : setting.through[s] = Lowest(setting)
    BY SignalIs DEF Lowest
  <2> QED
    BY <2>1
<1> HIDE DEF d
<1>5. Healthy(d)
  <2> SUFFICES ASSUME NEW s \in Signal \ d.failed, NEW i \in rows,
                      d.dropped < i, i <= d.through[s]
               PROVE  i \in accepted[s]
    BY DEF Healthy
  <2>1. i \in Nat /\ k < i /\ setting.dropped < i
    BY <1>1, <1>2, <1>3
  <2>2. d.through[s] = setting.through[s] /\ k < setting.through[s]
    BY <1>2, <1>3, <2>1
  <2>3. d.through["traces"] # d.through["metrics"]
    <3>1. PICK t \in Signal : setting.through[t] < k
      BY <1>4
    <3>2. d.through[t] = k
      BY <1>2, <1>3, <3>1
    <3>3. d.through[s] # d.through[t]
      BY <1>3, <2>2, <3>2
    <3> QED
      BY <3>3, SignalIs
  <2>4. s \notin setting.failed
    BY <1>2, <2>3
  <2> QED
    BY <2>1, <2>2, <2>4 DEF Healthy
<1>6. ASSUME NEW i \in rows, d.dropped < i, i <= d.acked, NEW s \in Signal
      PROVE  i \in accepted[s]
  <2>1. setting.dropped < i /\ i <= setting.acked
    BY <1>1, <1>2, <1>3, <1>6
  <2> QED
    BY <2>1 DEF AckedWasAccepted
<1> QED
  BY <1>5, <1>6 DEF d

\* So does a batch that advances them.
LEMMA AdvanceKeeps ==
  ASSUME TypeOK, Cut, ResultsOfBatch, memory = setting, pc = "saving",
         Healthy(setting), AckedWasAccepted
  PROVE  LET d == Advanced(setting)
         IN  /\ d \in Checkpoint /\ Healthy(d)
             /\ \A s \in Signal : /\ setting.through[s] <= d.through[s]
                                  /\ d.through[s] \in {setting.through[s], Max(batch)}
                                  /\ \A i \in rows : setting.through[s] < i /\ i <= d.through[s]
                                                       => i \in answered[s]
             /\ \A i \in rows : d.dropped < i /\ i <= d.acked
                                  => \A s \in Signal : i \in accepted[s]
             /\ d.acked = setting.acked \/ \E s \in Signal : d.acked = d.through[s]
<1> DEFINE terminal == {s \in Signal : result[s] \in {"ok", "rejected"}}
<1> DEFINE e == [setting EXCEPT
                   !.through = [s \in Signal |-> IF s \in terminal THEN Max(batch) ELSE @[s]],
                   !.failed = @ \cup {s \in terminal : result[s] = "rejected"}]
<1> DEFINE d == Advanced(setting)
<1>1. setting \in Checkpoint /\ \A i \in rows : i \in Nat
  BY DEF TypeOK
<1>2. batch # {} /\ Posting
  BY DEF Cut, Posting
<1>3. /\ e \in Checkpoint /\ d = Classified(e)
      /\ e.acked = setting.acked /\ e.dropped = setting.dropped
      /\ \A s \in Signal : IF result[s] \in {"ok", "rejected"} THEN e.through[s] = Max(batch)
                           ELSE e.through[s] = setting.through[s]
      /\ \A s \in Signal : s \notin e.failed => s \notin setting.failed /\ result[s] # "rejected"
  BY <1>1, <1>2, AdvancedIs
<1> HIDE DEF e
<1>4. /\ d \in Checkpoint /\ d.through = e.through
      /\ \/ d = e
         \/ /\ e.through["traces"] = e.through["metrics"]
            /\ d.acked = e.acked /\ d.dropped >= e.dropped /\ d.dropped >= Lowest(e)
         \/ /\ e.through["traces"] = e.through["metrics"]
            /\ e.failed = {} /\ d.failed = {} /\ d.dropped = e.dropped
            /\ d.acked \in {e.acked, Lowest(e)}
  BY <1>3, ClassifiedIs
<1> HIDE DEF d
<1>5. Max(batch) \in Nat
  <2>1. batch \subseteq 0..MaxRows /\ MaxRows \in Nat
    BY WorkerAssumption DEF TypeOK, Ids
  <2>2. Max(batch) \in batch
    BY <1>2, <2>1, MaxOfBounded
  <2> QED
    BY <2>1, <2>2, Ranges
<1>6. /\ \A s \in Signal : e.through[s] \in Nat /\ setting.through[s] \in Nat
      /\ e.dropped \in Nat /\ d.dropped \in Nat /\ e.acked \in Nat /\ d.acked \in Nat
      /\ Lowest(e) \in Nat /\ Lowest(setting) \in Nat
  BY <1>1, <1>3, <1>4, LowestIs DEF Checkpoint
<1>7. ASSUME NEW s \in Signal, NEW i \in rows, setting.through[s] < i, i <= e.through[s]
      PROVE  i \in batch /\ result[s] \in {"ok", "rejected"}
  <2>1. i \in Nat /\ Lowest(setting) <= setting.through[s]
    BY <1>1, LowestIs
  <2>2. result[s] \in {"ok", "rejected"} /\ e.through[s] = Max(batch)
    BY <1>3, <1>6, <1>7, <2>1
  <2>3. Lowest(memory) < i /\ i <= Max(batch)
    BY <1>5, <1>6, <1>7, <2>1, <2>2
  <2> QED
    BY <1>2, <2>2, <2>3 DEF Cut
<1>8. Healthy(e)
  <2> SUFFICES ASSUME NEW s \in Signal \ e.failed, NEW i \in rows,
                      e.dropped < i, i <= e.through[s]
               PROVE  i \in accepted[s]
    BY DEF Healthy
  <2>1. s \notin setting.failed /\ result[s] # "rejected" /\ setting.dropped < i
    BY <1>3
  <2>2. CASE i <= setting.through[s]
    BY <2>1, <2>2 DEF Healthy
  <2>3. CASE setting.through[s] < i
    <3>1. i \in batch /\ result[s] = "ok"
      BY <1>7, <2>1, <2>3
    <3> QED
      BY <3>1 DEF ResultsOfBatch
  <2> QED
    BY <1>1, <1>6, <2>2, <2>3
<1>9. e.through["traces"] = e.through["metrics"] => \A s \in Signal : e.through[s] = Lowest(e)
  BY <1>3, LowestIs
<1>10. Healthy(d)
  <2>1. CASE d.failed = e.failed /\ d.dropped = e.dropped
    BY <1>4, <1>8, <2>1 DEF Healthy
  <2>2. CASE e.through["traces"] = e.through["metrics"] /\ d.dropped >= Lowest(e)
    <3>1. ASSUME NEW s \in Signal, NEW i \in rows, d.dropped < i, i <= d.through[s]
          PROVE  FALSE
      BY <1>1, <1>4, <1>6, <1>9, <2>2, <3>1
    <3> QED
      BY <3>1 DEF Healthy
  <2> QED
    BY <1>4, <2>1, <2>2
<1>11. ASSUME NEW i \in rows, d.dropped < i, i <= d.acked, NEW s \in Signal
       PROVE  i \in accepted[s]
  <2>1. i \in Nat /\ setting.dropped < i /\ setting.dropped \in Nat
    BY <1>1, <1>3, <1>4, <1>6, <1>11
  <2>2. CASE d.acked = e.acked
    BY <1>3, <1>11, <2>1, <2>2 DEF AckedWasAccepted
  <2>3. CASE d.acked # e.acked
    <3>1. /\ e.through["traces"] = e.through["metrics"] /\ e.failed = {}
          /\ d.dropped = e.dropped /\ d.acked = Lowest(e)
      BY <1>4, <2>3
    <3>2. s \in Signal \ e.failed /\ e.dropped < i /\ i <= e.through[s]
      BY <1>9, <1>11, <3>1
    <3> QED
      BY <1>8, <3>2 DEF Healthy
  <2> QED
    BY <2>2, <2>3
<1>12. ASSUME NEW s \in Signal
       PROVE  /\ setting.through[s] <= d.through[s]
              /\ d.through[s] \in {setting.through[s], Max(batch)}
              /\ \A i \in rows : setting.through[s] < i /\ i <= d.through[s] => i \in answered[s]
  <2>1. result[s] \in {"ok", "rejected"} => setting.through[s] < Max(batch)
                                            /\ batch \subseteq answered[s]
    BY DEF ResultsOfBatch
  <2> QED
    BY <1>3, <1>4, <1>5, <1>6, <1>7, <2>1
<1>13. d.acked = setting.acked \/ \E s \in Signal : d.acked = d.through[s]
  BY <1>3, <1>4, <1>9, SignalIs
<1> QED
  BY <1>4, <1>10, <1>11, <1>12, <1>13 DEF d

\* A new id and a pruned row disturb nothing.
LEMMA LedgerKeeps ==
  ASSUME WorkerInv,
         UNCHANGED <<setting, loaded, memory, pc, batch, result, history>>,
         last' \in last..MaxRows, rows' \subseteq rows \cup (last + 1)..last'
  PROVE  WorkerInv'
<1>1. /\ MaxRows \in Nat /\ last \in 0..MaxRows /\ last' \in 0..MaxRows /\ last <= last'
      /\ rows \subseteq 1..last
      /\ \A i \in rows' : i \in Nat /\ (i \in rows \/ last < i)
  BY WorkerAssumption DEF WorkerInv, TypeOK
<1>2. /\ setting \in Checkpoint /\ memory \in Checkpoint
      /\ \A s \in Signal : setting.through[s] \in Nat /\ setting.through[s] <= last
      /\ setting.acked \in Nat /\ setting.acked <= last
  BY <1>1 DEF WorkerInv, TypeOK, Known, Checkpoint
<1>3. TypeOK'
  BY <1>1 DEF WorkerInv, TypeOK, Ids, history, Checkpoint
<1>4. Known'
  BY <1>1, <1>2 DEF WorkerInv, Known
<1>5. Cut'
  <2> SUFFICES ASSUME Posting PROVE Cut'
    BY DEF Cut, Posting
  <2>1. batch # {} /\ Max(batch) \in batch /\ \A i \in batch : i \in Nat /\ i <= last
    <3>1. batch # {} /\ batch \subseteq 1..MaxRows /\ \A i \in batch : i <= last
      BY DEF WorkerInv, TypeOK, Cut, Ids
    <3>2. batch \subseteq 0..MaxRows /\ batch \subseteq Nat
      BY <1>1, <3>1, Ranges
    <3>3. Max(batch) \in batch
      BY <1>1, <3>1, <3>2, MaxOfBounded
    <3> QED
      BY <3>1, <3>2, <3>3
  <2>2. \A i \in rows' : Lowest(memory) < i /\ i <= Max(batch) => i \in batch
    BY <1>1, <2>1 DEF WorkerInv, Cut
  <2> QED
    BY <1>1, <2>1, <2>2 DEF WorkerInv, Cut, Posting, Lowest
<1>6. DropsAhead'
  BY <1>1 DEF WorkerInv, DropsAhead, Lowest
<1>7. ResultsOfBatch'
  BY DEF WorkerInv, ResultsOfBatch, history
<1>8. Healthy(setting)'
  BY <1>1, <1>2 DEF WorkerInv, Healthy, history
<1>9. AckedWasAccepted'
  BY <1>1, <1>2 DEF WorkerInv, AckedWasAccepted, history
<1> QED
  BY <1>3, <1>4, <1>5, <1>6, <1>7, <1>8, <1>9 DEF WorkerInv

LEMMA InitWorkerInv == Init => WorkerInv
<1> SUFFICES ASSUME Init PROVE WorkerInv
  OBVIOUS
<1>1. MaxRows \in Nat
  BY WorkerAssumption
<1>2. Fresh \in Checkpoint /\ Fresh.acked = 0 /\ \A s \in Signal : Fresh.through[s] = 0
  BY <1>1 DEF Fresh, Checkpoint
<1>3. rows \subseteq 1..last /\ last \in 0..MaxRows
  BY <1>1, Ranges DEF Init
<1>4. TypeOK
  BY <1>2, <1>3 DEF Init, TypeOK, NoResult
<1> QED
  BY <1>2, <1>4 DEF Init, WorkerInv, Known, Cut, Posting, DropsAhead, ResultsOfBatch, Healthy,
                    AckedWasAccepted, NoResult

\* What a step of the worker between its stores leaves alone.
LEMMA StoredKeeps ==
  ASSUME WorkerInv, UNCHANGED <<rows, last, setting, lost>>,
         \A s \in Signal : accepted[s] \subseteq accepted'[s]
  PROVE  Healthy(setting)' /\ AckedWasAccepted'
BY DEF WorkerInv, Healthy, AckedWasAccepted

LEMMA BeginsKeeps ==
  ASSUME WorkerInv, Begins
  PROVE  WorkerInv'
<1>1. /\ MaxRows \in Nat /\ last \in 0..MaxRows /\ memory' = setting /\ memory' \in Checkpoint
      /\ TypeOK
  BY WorkerAssumption DEF WorkerInv, TypeOK, Known, Begins
<1>2. CASE DropThrough(Lowest(memory')) > Lowest(memory')
  <2> DEFINE k == DropThrough(Lowest(memory'))
  <2>1. Lowest(memory') \in Nat
    BY <1>1, LowestIs
  <2>2. k \in 1..last /\ Lowest(memory') < k
    BY <1>1, <1>2, <2>1, DropThroughIs
  <2>3. pc' = "dropping" /\ batch' = {k}
    BY <1>2 DEF Begins
  <2> HIDE DEF k
  <2>4. TypeOK'
    BY <1>1, <2>2, <2>3 DEF TypeOK, Begins, Ids, history, Checkpoint
  <2>5. Known' /\ Cut' /\ DropsAhead'
    BY <1>1, <2>2, <2>3 DEF WorkerInv, Known, Cut, Posting, DropsAhead, Begins
  <2>6. ResultsOfBatch'
    BY DEF WorkerInv, ResultsOfBatch, Begins
  <2> QED
    BY <2>4, <2>5, <2>6, StoredKeeps DEF WorkerInv, Begins, history
<1>3. CASE ~ (DropThrough(Lowest(memory')) > Lowest(memory'))
  <2>1. pc' = "reading" /\ batch' = {}
    BY <1>3 DEF Begins
  <2>2. TypeOK'
    BY <1>1, <2>1 DEF TypeOK, Begins, Ids, history, Checkpoint
  <2>3. Known' /\ Cut' /\ DropsAhead'
    BY <1>1, <2>1 DEF WorkerInv, Known, Cut, Posting, DropsAhead, Begins
  <2>4. ResultsOfBatch'
    BY DEF WorkerInv, ResultsOfBatch, Begins
  <2> QED
    BY <2>2, <2>3, <2>4, StoredKeeps DEF WorkerInv, Begins, history
<1> QED
  BY <1>2, <1>3

LEMMA DropsKeeps ==
  ASSUME WorkerInv, Drops
  PROVE  WorkerInv'
<1>1. PICK k \in 1..last : batch = {k} /\ Lowest(memory) < k
  BY DEF WorkerInv, DropsAhead, Drops
<1>2. /\ memory = setting /\ loaded /\ TypeOK /\ setting \in Checkpoint
      /\ MaxRows \in Nat /\ last \in 0..MaxRows
  BY WorkerAssumption DEF WorkerInv, Known, Drops, TypeOK
<1>3. k \in 1..MaxRows /\ k \in Nat /\ k <= last
  BY <1>1, <1>2
<1>4. Max(batch) = k
  BY <1>1, <1>3, MaxOfTwo
<1> DEFINE d == Dropped(setting, k)
<1>5. memory' = d /\ setting' = d /\ pc' = "reading" /\ batch' = {}
      /\ UNCHANGED <<rows, last, loaded, result, answered, accepted>>
      /\ lost' = lost \cup {i \in rows : i > Lowest(memory) /\ i <= k}
  BY <1>2, <1>4 DEF Drops
<1>6. /\ d \in Checkpoint /\ d.acked = setting.acked
      /\ \A s \in Signal : d.through[s] \in {setting.through[s], k}
  BY <1>2, <1>3, DroppedIs
<1>7. /\ Healthy(d)
      /\ \A i \in rows : d.dropped < i /\ i <= d.acked => \A s \in Signal : i \in accepted[s]
  BY <1>1, <1>2, <1>3, DropKeeps DEF WorkerInv
<1> HIDE DEF d
<1>8. TypeOK'
  <2>1. lost' \subseteq Ids
    <3>1. rows \subseteq Ids /\ lost \subseteq Ids
      BY <1>2 DEF TypeOK, Ids
    <3> QED
      BY <1>5, <3>1
  <2> QED
    BY <1>2, <1>5, <1>6, <2>1 DEF TypeOK
<1>9. Known' /\ Cut' /\ DropsAhead'
  BY <1>2, <1>3, <1>5, <1>6 DEF WorkerInv, Known, Cut, Posting, DropsAhead
<1>10. ResultsOfBatch'
  BY <1>5 DEF WorkerInv, ResultsOfBatch, Drops
<1>11. Healthy(setting)' /\ AckedWasAccepted'
  BY <1>5, <1>7 DEF Healthy, AckedWasAccepted
<1> QED
  BY <1>8, <1>9, <1>10, <1>11 DEF WorkerInv

LEMMA ReadsKeeps ==
  ASSUME WorkerInv, Reads
  PROVE  WorkerInv'
<1> DEFINE picked == Selected(memory)
<1>1. /\ TypeOK /\ memory \in Checkpoint /\ MaxRows \in Nat /\ loaded /\ memory = setting
  BY WorkerAssumption DEF WorkerInv, Known, TypeOK, Reads
<1>2. /\ Lowest(memory) \in Nat /\ Leading(memory) \in Nat
      /\ \A s \in Signal : /\ memory.through[s] \in {Lowest(memory), Leading(memory)}
                           /\ memory.through[s] <= Leading(memory)
                           /\ memory.through[s] \in Nat
  BY <1>1, LowestIs, Ranges
<1>3. After(Lowest(memory)) \subseteq 1..last /\ last \in 0..MaxRows /\ last \in Nat
  BY <1>1, <1>2, AfterIs DEF TypeOK
<1>4. /\ picked \subseteq After(Lowest(memory))
      /\ \A i \in picked, j \in After(Lowest(memory)) : j < i => j \in picked
      /\ \/ \A i \in picked : i <= Leading(memory)
         \/ \A i \in picked : Leading(memory) < i
  BY <1>1, SelectedIs
<1>5. batch' = picked /\ pc' = (IF picked = {} THEN "idle" ELSE "traces")
      /\ UNCHANGED <<rows, last, setting, loaded, memory, result, answered, accepted, lost>>
  BY DEF Reads, history
<1> HIDE DEF picked
<1>6. /\ picked \subseteq 1..last /\ \A i \in picked : i \in Nat /\ i <= last
      /\ \A i \in picked : Lowest(memory) < i
  BY <1>2, <1>3, <1>4 DEF After
<1>7. picked \subseteq Ids
  BY <1>1, <1>3, <1>6 DEF Ids
<1>8. TypeOK'
  BY <1>1, <1>5, <1>7 DEF TypeOK, Ids, Checkpoint
<1>9. Cut'
  <2> SUFFICES ASSUME picked # {} PROVE Cut'
    BY <1>5 DEF Cut, Posting
  <2>1. Max(picked) \in picked /\ (\A i \in picked : i <= Max(picked)) /\ Max(picked) \in Nat
    <3>1. picked \subseteq 0..MaxRows
      BY <1>1, <1>7, Ranges DEF Ids
    <3>2. Max(picked) \in picked /\ \A i \in picked : i <= Max(picked)
      BY <1>1, <3>1, MaxOfBounded
    <3> QED
      BY <1>6, <3>2
  <2>2. ASSUME NEW i \in rows, Lowest(memory) < i, i <= Max(picked) PROVE i \in picked
    <3>1. i \in After(Lowest(memory)) /\ i \in Nat
      BY <1>1, <1>2, <1>3, <2>2 DEF After, TypeOK
    <3>2. i < Max(picked) \/ i = Max(picked)
      BY <2>1, <2>2, <3>1
    <3> QED
      BY <1>4, <2>1, <3>1, <3>2
  <2>3. ASSUME NEW s \in Signal, memory.through[s] < Max(picked), NEW i \in picked
        PROVE  memory.through[s] < i
    <3>1. CASE \A j \in picked : j <= Leading(memory)
      <4>1. Max(picked) <= Leading(memory)
        BY <2>1, <3>1
      <4>2. memory.through[s] = Lowest(memory)
        BY <1>2, <2>1, <2>3, <4>1
      <4> QED
        BY <1>6, <4>2
    <3>2. CASE \A j \in picked : Leading(memory) < j
      BY <1>2, <1>6, <3>2
    <3> QED
      BY <1>4, <3>1, <3>2
  <2> QED
    BY <1>5, <1>6, <2>2, <2>3 DEF Cut, Lowest
<1>10. Known' /\ DropsAhead' /\ ResultsOfBatch'
  BY <1>5 DEF WorkerInv, Known, DropsAhead, ResultsOfBatch, Reads
<1> QED
  BY <1>5, <1>8, <1>9, <1>10, StoredKeeps DEF WorkerInv

LEMMA ExportsKeeps ==
  ASSUME WorkerInv, NEW s \in Signal, NEW ending \in Ending, Exports(s, ending)
  PROVE  WorkerInv'
<1>1. /\ pc = s /\ memory.through[s] < Max(batch) /\ pc' \in {"metrics", "saving"}
      /\ UNCHANGED <<rows, last, setting, loaded, memory, batch, lost>>
      /\ result' = [result EXCEPT ![s] = SignalResult(ending)]
  BY DEF Exports, Wanted
<1>2. /\ SignalResult(ending) \in {"ok", "rejected", "retry"}
      /\ SignalResult(ending) = "ok" => ending = "accepted"
  BY DEF SignalResult
<1>3. TypeOK /\ s \in {"traces", "metrics"}
  BY SignalIs DEF WorkerInv
<1>4. /\ answered' = IF SignalResult(ending) = "retry" THEN answered
                     ELSE [answered EXCEPT ![s] = @ \cup batch]
      /\ accepted' = IF ending = "accepted" THEN [accepted EXCEPT ![s] = @ \cup batch]
                     ELSE accepted
  BY <1>3 DEF Exports, TypeOK
<1>5. TypeOK'
  BY <1>1, <1>2, <1>3, <1>4 DEF TypeOK, Ids, Checkpoint
<1>6. Posting /\ Posting' /\ pc # "dropping" /\ pc' # "dropping" /\ pc # "idle"
  BY <1>1, <1>3 DEF Posting
<1>7. Known' /\ Cut' /\ DropsAhead'
  BY <1>1, <1>6 DEF WorkerInv, Known, Cut, DropsAhead, Lowest
<1>8. ResultsOfBatch'
  <2> SUFFICES ASSUME NEW t \in Signal, result'[t] \in {"ok", "rejected"}
               PROVE  /\ memory.through[t] < Max(batch)
                      /\ batch \subseteq answered'[t]
                      /\ result'[t] = "ok" => batch \subseteq accepted'[t]
    BY <1>1 DEF ResultsOfBatch
  <2>1. CASE t = s
    BY <1>1, <1>2, <1>3, <1>4, <2>1 DEF TypeOK
  <2>2. CASE t # s
    BY <1>1, <1>3, <1>4, <2>2 DEF WorkerInv, ResultsOfBatch, TypeOK
  <2> QED
    BY <2>1, <2>2
<1>9. \A t \in Signal : accepted[t] \subseteq accepted'[t]
  BY <1>3, <1>4 DEF TypeOK
<1> QED
  BY <1>1, <1>5, <1>7, <1>8, <1>9, StoredKeeps DEF WorkerInv

LEMMA SkipsKeeps ==
  ASSUME WorkerInv, NEW s \in Signal, Skips(s)
  PROVE  WorkerInv'
<1>1. /\ pc = s /\ s \in {"traces", "metrics"} /\ pc' \in {"metrics", "saving"}
      /\ UNCHANGED <<rows, last, setting, loaded, memory, batch, result, answered, accepted, lost>>
  BY SignalIs DEF Skips, history
<1>2. Posting /\ Posting' /\ pc # "dropping" /\ pc' # "dropping" /\ pc # "idle"
  BY <1>1 DEF Posting
<1>3. TypeOK'
  BY <1>1 DEF WorkerInv, TypeOK, Ids, Checkpoint
<1>4. Known' /\ Cut' /\ DropsAhead' /\ ResultsOfBatch'
  BY <1>1, <1>2 DEF WorkerInv, Known, Cut, DropsAhead, Lowest, ResultsOfBatch
<1> QED
  BY <1>1, <1>3, <1>4, StoredKeeps DEF WorkerInv

LEMMA SavesKeeps ==
  ASSUME WorkerInv, Saves
  PROVE  WorkerInv'
<1> DEFINE d == Advanced(setting)
<1>1. /\ pc = "saving" /\ loaded /\ memory = setting /\ TypeOK /\ setting.acked <= last
      /\ \A s \in Signal : setting.through[s] <= last
  BY DEF WorkerInv, Known, Saves
<1>2. /\ memory' = d /\ setting' = d /\ Back
      /\ UNCHANGED <<rows, last, loaded, answered, accepted, lost>>
  BY <1>1 DEF Saves, history
<1>3. /\ d \in Checkpoint /\ Healthy(d)
      /\ \A s \in Signal : d.through[s] \in {setting.through[s], Max(batch)}
      /\ \A i \in rows : d.dropped < i /\ i <= d.acked => \A s \in Signal : i \in accepted[s]
      /\ d.acked = setting.acked \/ \E s \in Signal : d.acked = d.through[s]
  BY <1>1, AdvanceKeeps DEF WorkerInv
<1> HIDE DEF d
<1>4. Max(batch) <= last
  <2>1. /\ batch # {} /\ batch \subseteq 0..MaxRows /\ MaxRows \in Nat
        /\ \A i \in batch : i <= last
    BY <1>1, Ranges, WorkerAssumption DEF WorkerInv, Cut, Posting, TypeOK, Ids
  <2> QED
    BY <2>1, MaxOfBounded
<1>5. TypeOK'
  BY <1>1, <1>2, <1>3 DEF TypeOK, Back, NoResult, Ids
<1>6. Known' /\ Cut' /\ DropsAhead' /\ ResultsOfBatch'
  BY <1>1, <1>2, <1>3, <1>4 DEF Known, Cut, Posting, DropsAhead, ResultsOfBatch, Back, NoResult
<1>7. Healthy(setting)' /\ AckedWasAccepted'
  BY <1>2, <1>3 DEF Healthy, AckedWasAccepted
<1> QED
  BY <1>5, <1>6, <1>7 DEF WorkerInv

\* Whatever ends the round without a store, a restart included.
LEMMA BackKeeps ==
  ASSUME WorkerInv, SaveFails \/ Restart
  PROVE  WorkerInv'
<1>1. /\ pc' = "idle" /\ batch' = {} /\ result' = NoResult
      /\ UNCHANGED <<rows, last, setting, answered, accepted, lost>>
      /\ (loaded' = FALSE /\ memory' = Fresh) \/ UNCHANGED <<loaded, memory>>
  BY DEF SaveFails, Restart, Back, history
<1>2. Fresh \in Checkpoint
  BY Ranges, WorkerAssumption DEF Fresh, Checkpoint
<1>3. TypeOK'
  BY <1>1, <1>2 DEF WorkerInv, TypeOK, NoResult, Ids
<1>4. Known' /\ Cut' /\ DropsAhead' /\ ResultsOfBatch'
  BY <1>1 DEF WorkerInv, Known, Cut, Posting, DropsAhead, ResultsOfBatch, NoResult
<1> QED
  BY <1>1, <1>3, <1>4, StoredKeeps DEF WorkerInv

LEMMA WorkerInvInductive == WorkerInv /\ [Next]_vars => WorkerInv'
<1> SUFFICES ASSUME WorkerInv, [Next]_vars PROVE WorkerInv'
  OBVIOUS
<1>1. MaxRows \in Nat /\ last \in 0..MaxRows /\ last \in Nat /\ rows \subseteq 1..last
  BY Ranges, WorkerAssumption DEF WorkerInv, TypeOK
<1>2. CASE Insert
  <2>1. last' \in last..MaxRows /\ rows' \subseteq rows \cup (last + 1)..last'
    BY <1>1, <1>2 DEF Insert
  <2> QED
    BY <1>2, <2>1, LedgerKeeps DEF Insert
<1>3. ASSUME NEW i \in Ids, Prune(i) PROVE WorkerInv'
  <2>1. last' \in last..MaxRows /\ rows' \subseteq rows \cup (last + 1)..last'
    BY <1>1, <1>3 DEF Prune
  <2> QED
    BY <1>3, <2>1, LedgerKeeps DEF Prune
<1>4. CASE UNCHANGED vars
  <2>1. last' \in last..MaxRows /\ rows' \subseteq rows \cup (last + 1)..last'
    BY <1>1, <1>4 DEF vars
  <2> QED
    BY <1>4, <2>1, LedgerKeeps DEF vars, history
<1> QED
  BY <1>2, <1>3, <1>4, BeginsKeeps, DropsKeeps, ReadsKeeps, ExportsKeeps, SkipsKeeps, SavesKeeps,
     BackKeeps
  DEF Next, DrainOnce

LEMMA WorkerInvHolds ==
  Spec => []WorkerInv
<1>1. Init => WorkerInv
  BY InitWorkerInv
<1>2. WorkerInv /\ [Next]_vars => WorkerInv'
  BY WorkerInvInductive
<1> QED
  BY <1>1, <1>2, PTL DEF Spec

-----------------------------------------------------------------------------
(* What follows from it. *)

\* Rows that a checkpoint reports as acknowledged were accepted for both
\* signals, for any number of rows, any batch size and any backlog, whatever
\* fails, is pruned, or dies in between (worker.go, advance and classify).
THEOREM AcknowledgedWasAccepted ==
  Spec => []AckedWasAccepted
<1>1. WorkerInv => AckedWasAccepted
  BY DEF WorkerInv
<1> QED
  BY <1>1, WorkerInvHolds, PTL

\* A row that is settled for a signal is never in a batch that is about to be
\* posted for it (worker.go, the cut at the leading cursor).
THEOREM SettledRowsStaySettled ==
  Spec => []SettledIsNotResent
<1>1. WorkerInv => SettledIsNotResent
  <2> SUFFICES ASSUME WorkerInv, NEW s \in Signal, pc = s, Wanted(s), NEW i \in batch
               PROVE  i > memory.through[s]
    BY DEF SettledIsNotResent
  <2>1. Posting
    BY SignalIs DEF Posting
  <2>2. memory.through[s] < i
    BY <2>1 DEF WorkerInv, Cut, Wanted
  <2>3. i \in Nat /\ memory.through[s] \in Nat
    BY Ranges, WorkerAssumption DEF WorkerInv, TypeOK, Checkpoint, Ids
  <2> QED
    BY <2>2, <2>3
<1> QED
  BY <1>1, WorkerInvHolds, PTL

-----------------------------------------------------------------------------
(* The worker implements the feed: a step is a step of the feed or a stutter. *)

LEMMA DropsAdvance ==
  ASSUME WorkerInv, Drops
  PROVE  Feed!Advance
<1>1. PICK k \in 1..last : batch = {k} /\ Lowest(memory) < k
  BY DEF WorkerInv, DropsAhead, Drops
<1>2. /\ memory = setting /\ setting \in Checkpoint /\ rows \subseteq Ids
      /\ MaxRows \in Nat /\ last \in 0..MaxRows /\ \A i \in rows : i \in Nat
  BY WorkerAssumption DEF WorkerInv, Known, Drops, TypeOK, Ids
<1>3. k \in 1..MaxRows /\ k \in Nat
  BY <1>1, <1>2
<1>4. Max(batch) = k
  BY <1>1, <1>3, MaxOfTwo
<1> DEFINE d == Dropped(setting, k)
<1> DEFINE given == {i \in rows : i > Lowest(memory) /\ i <= k}
<1>5. setting' = d /\ UNCHANGED <<rows, answered>> /\ lost' = lost \cup given
  BY <1>2, <1>4 DEF Drops
<1>6. /\ d.through \in [Signal -> 0..MaxRows]
      /\ \A s \in Signal : /\ d.through[s] \in {setting.through[s], k}
                           /\ setting.through[s] <= d.through[s]
  BY <1>2, <1>3, DroppedIs DEF Checkpoint
<1> HIDE DEF d
<1>7. ASSUME NEW s \in Signal, NEW i \in rows, setting.through[s] < i, i <= d.through[s]
      PROVE  i \in answered[s] \cup lost'
  <2>1. /\ Lowest(setting) <= setting.through[s]
        /\ Lowest(setting) \in Nat /\ setting.through[s] \in Nat /\ i \in Nat
    BY <1>2, LowestIs, Ranges
  <2>2. d.through[s] = k
    BY <1>6, <1>7, <2>1
  <2>3. i > Lowest(memory) /\ i <= k
    BY <1>2, <1>7, <2>1, <2>2
  <2> QED
    BY <1>5, <2>3
<1>8. d.through \in [Signal -> Ids \cup {0}]
  BY <1>2, <1>6 DEF Ids
<1>9. given \in SUBSET Ids
  BY <1>2
<1> HIDE DEF given
<1> QED
  BY <1>5, <1>6, <1>7, <1>8, <1>9 DEF Feed!Advance

LEMMA SavesAdvance ==
  ASSUME WorkerInv, Saves
  PROVE  Feed!Advance
<1> DEFINE d == Advanced(setting)
<1>1. pc = "saving" /\ memory = setting /\ MaxRows \in Nat
  BY WorkerAssumption DEF WorkerInv, Known, Saves
<1>2. setting' = d /\ UNCHANGED <<rows, answered, lost>>
  BY <1>1 DEF Saves, history
<1>3. /\ d.through \in [Signal -> 0..MaxRows]
      /\ \A s \in Signal : /\ setting.through[s] <= d.through[s]
                           /\ \A i \in rows : setting.through[s] < i /\ i <= d.through[s]
                                                => i \in answered[s]
  BY <1>1, AdvanceKeeps DEF WorkerInv, Checkpoint
<1> HIDE DEF d
<1>4. d.through \in [Signal -> Ids \cup {0}]
  BY <1>1, <1>3 DEF Ids
<1>5. lost' = lost \cup {} /\ {} \in SUBSET Ids
  BY <1>2
<1> QED
  BY <1>2, <1>3, <1>4, <1>5 DEF Feed!Advance

LEMMA ExportsAnswer ==
  ASSUME WorkerInv, NEW s \in Signal, NEW ending \in Ending, Exports(s, ending)
  PROVE  Feed!Answers(s) \/ UNCHANGED Feed!vars
<1>1. UNCHANGED <<rows, setting, lost>> /\ batch \in SUBSET Ids
  BY DEF Exports, WorkerInv, TypeOK
<1>2. answered' = answered \/ answered' = [answered EXCEPT ![s] = @ \cup batch]
  BY DEF Exports
<1> QED
  BY <1>1, <1>2 DEF Feed!Answers, Feed!vars

LEMMA StepIsFeedStep ==
  ASSUME WorkerInv, WorkerInv', [Next]_vars
  PROVE  [Feed!Next]_Feed!vars
<1>1. rows' \subseteq Ids
  BY Ranges, WorkerAssumption DEF WorkerInv, TypeOK, Ids
<1>2. CASE Insert \/ \E i \in Ids : Prune(i)
  BY <1>1, <1>2 DEF Insert, Prune, history, Feed!Next, Feed!LedgerChanges
<1>3. CASE Begins \/ Reads \/ SaveFails \/ Restart \/ (\E s \in Signal : Skips(s)) \/ UNCHANGED vars
  BY <1>3 DEF Begins, Reads, SaveFails, Restart, Skips, vars, history, Feed!vars
<1>4. CASE Drops \/ Saves
  BY <1>4, DropsAdvance, SavesAdvance DEF Feed!Next
<1>5. ASSUME NEW s \in Signal, NEW ending \in Ending, Exports(s, ending)
      PROVE  [Feed!Next]_Feed!vars
  BY <1>5, ExportsAnswer DEF Feed!Next
<1> QED
  BY <1>2, <1>3, <1>4, <1>5 DEF Next, DrainOnce

\* The durable cursors are a feed that skips nothing silently, for any number of
\* rows, any batch size and any backlog (worker.go, DrainOnce).
THEOREM WorkerImplementsFeed ==
  Spec => ImplementsFeed
<1>1. Init => Feed!Init
  BY DEF Init, Fresh, Feed!Init
<1>2. WorkerInv /\ WorkerInv' /\ [Next]_vars => [Feed!Next]_Feed!vars
  BY StepIsFeedStep
<1> QED
  BY <1>1, <1>2, WorkerInvHolds, PTL DEF Spec, ImplementsFeed, Feed!Spec

-----------------------------------------------------------------------------
(* Webhook alerts.                                                         *)

\* Where the claim, the durable mark and the acknowledgement of a mark stand.
JobType == job \in [Alerts!Mark -> {"none", "posting", "recording"}]

\* An acknowledged mark is stored, or about to be.
AckedIsMarked ==
  \A m \in Alerts!Mark : m \in acked =>
    job[m] # "posting" /\ (m \in marks \/ job[m] = "recording")

LEMMA QueueKeeps ==
  ASSUME JobType, AckedIsMarked, NEW m, Alerts!QueueWebhook(m),
         UNCHANGED <<marks, acked>>
  PROVE  JobType' /\ AckedIsMarked'
BY DEF JobType, AckedIsMarked, Alerts!QueueWebhook

LEMMA AlertStep ==
  ASSUME JobType, AckedIsMarked, [Alerts!Next]_Alerts!vars
  PROVE  JobType' /\ AckedIsMarked'
<1> USE DEF Alerts!durable, Alerts!memory
<1>1. ASSUME NEW m \in Alerts!Mark, Alerts!Delivery(m)
      PROVE  JobType' /\ AckedIsMarked'
  BY <1>1 DEF Alerts!Delivery, Alerts!Acknowledged, Alerts!DeliveryFails, Alerts!Record,
              Alerts!RecordFails, JobType, AckedIsMarked
<1>2. CASE Alerts!DenialQueues \/ Alerts!WarnQueues
  BY <1>2, QueueKeeps DEF Alerts!DenialQueues, Alerts!WarnQueues
<1>3. CASE Alerts!ClearMarks
  <2>1. PICK S : Alerts!Rearmed(S) /\ UNCHANGED job
    BY <1>3 DEF Alerts!ClearMarks
  <2> QED
    BY <2>1 DEF Alerts!Rearmed, JobType, AckedIsMarked
<1>4. CASE Alerts!Restart
  BY <1>4 DEF Alerts!Restart, JobType, AckedIsMarked
<1>5. ASSUME UNCHANGED <<job, marks, acked>>
      PROVE  JobType' /\ AckedIsMarked'
  BY <1>5 DEF JobType, AckedIsMarked
<1>6. ASSUME NEW w, NEW usd, Alerts!Denies(w) \/ Alerts!Settle(usd) \/ Alerts!SetCap(w, usd)
      PROVE  UNCHANGED <<job, marks, acked>>
  BY <1>6 DEF Alerts!Denies, Alerts!Settle, Alerts!SetCap, Alerts!Begins
<1>7. CASE \/ Alerts!DenialReadsHook \/ Alerts!WarnReadsHook \/ Alerts!WarnStatus
           \/ Alerts!AlertOff \/ Alerts!AlertWebhook \/ Alerts!CommandFails
           \/ UNCHANGED Alerts!vars
  <2>1. UNCHANGED <<job, marks, acked>>
    BY <1>7 DEF Alerts!DenialReadsHook, Alerts!WarnReadsHook, Alerts!WarnStatus, Alerts!AlertOff,
                Alerts!AlertWebhook, Alerts!CommandFails, Alerts!vars
  <2> QED
    BY <1>5, <2>1
<1> QED
  BY <1>1, <1>2, <1>3, <1>4, <1>5, <1>6, <1>7
  DEF Alerts!Next, Alerts!Denial, Alerts!Warning, Alerts!Operator

\* However deliveries, restarts, operators and the queue interleave, a mark
\* whose delivery was acknowledged is not posted again before it is armed again.
THEOREM AlertsAreSentOnce == Alerts!Spec => []NoSecondAlert
<1>1. Alerts!Init => JobType /\ AckedIsMarked
  BY DEF Alerts!Init, JobType, AckedIsMarked
<1>2. JobType /\ AckedIsMarked /\ [Alerts!Next]_Alerts!vars => JobType' /\ AckedIsMarked'
  BY AlertStep
<1>3. AckedIsMarked => NoSecondAlert
  BY DEF AckedIsMarked, NoSecondAlert, Alerts!NoSecondAlert
<1> QED
  BY <1>1, <1>2, <1>3, PTL DEF Alerts!Spec
=============================================================================
