---------------------------- MODULE RolloutsProofs ----------------------------
(***************************************************************************)
(* Proofs about the scan of Codex's rollouts (CodexRollouts, one of the    *)
(* Services), for any number of files, uses and faults and any limit of a  *)
(* scan: what is counted is counted once, and a report without a warning   *)
(* has all there was, but for the code's two silences.  Codex's files tell *)
(* their sessions' own uses after what they were forked with (FilesInv); a *)
(* scan has seen enough of them (ScanInv), whatever Codex writes           *)
(* meanwhile.                                                              *)
(***************************************************************************)
EXTENDS Services, Sequences, SumTheorems, TLAPS

-----------------------------------------------------------------------------
(* What records tell.                                                      *)

\* An instance brings notions of its own of what its module extends; they are
\* the library's.
LEMMA SameRolloutNotions == \A S : Rollouts!Cardinality(S) = Cardinality(S)
BY DEF Cardinality, Rollouts!Cardinality

Mention == [time : Nat, total : SUBSET Nat, above : BOOLEAN]

LEMMA MentionShape ==
  \A x \in Mention : /\ x.time \in Nat /\ x.total \subseteq Nat
                     /\ x = [time |-> x.time, total |-> x.total, above |-> x.above]
BY DEF Mention

\* What the records up to the n-th tell.
Told(s, n) == Rollouts!Distinct(SubSeq(s, 1, n))

LEMMA Cuts ==
  ASSUME NEW s \in Seq(Mention)
  PROVE  /\ Len(s) \in Nat
         /\ \A n \in 0 .. Len(s) : /\ SubSeq(s, 1, n) \in Seq(Mention)
                                   /\ Len(SubSeq(s, 1, n)) = n
                                   /\ \A k \in 1 .. n : SubSeq(s, 1, n)[k] = s[k]
         /\ SubSeq(s, 1, Len(s)) = s
         /\ \A k \in 1 .. Len(s) : s[k] \in Mention
OBVIOUS

\* Distinct, record by record.
LEMMA DistinctRuns ==
  ASSUME NEW s, Len(s) \in Nat
  PROVE  \E d : /\ d = [n \in 0 .. Len(s) |->
                         IF n = 0 THEN <<>>
                         ELSE IF n > 1 /\ s[n].total = s[n - 1].total THEN d[n - 1]
                         ELSE Append(d[n - 1], s[n])]
                /\ Rollouts!Distinct(s) = d[Len(s)]
<1> DEFINE Step(old, n) == IF n > 1 /\ s[n].total = s[n - 1].total THEN old ELSE Append(old, s[n])
           Runs(n, f) == f = [k \in 0 .. n |-> IF k = 0 THEN <<>> ELSE Step(f[k - 1], k)]
           T == {n \in Nat : \E f : Runs(n, f)}
<1>1. 0 \in T
  <2> DEFINE f == [k \in 0 .. 0 |-> <<>>]
  <2>1. Runs(0, f)
    OBVIOUS
  <2> QED
    BY <2>1
<1>2. ASSUME NEW n \in Nat, n \in T PROVE n + 1 \in T
  <2>1. PICK f : Runs(n, f)
    BY <1>2
  <2> HIDE DEF Step
  <2> DEFINE next == Step(f[n], n + 1)
             g == [k \in 0 .. n + 1 |-> IF k = n + 1 THEN next ELSE f[k]]
  <2>2. \A k \in 0 .. n : f[k] = IF k = 0 THEN <<>> ELSE Step(f[k - 1], k)
    BY <2>1
  <2>3. ASSUME NEW k \in 0 .. n + 1
        PROVE  g[k] = IF k = 0 THEN <<>> ELSE Step(g[k - 1], k)
    <3>1. CASE k = n + 1
      <4>1. g[k] = next /\ g[k - 1] = f[n] /\ k # 0
        BY <3>1
      <4> QED
        BY <3>1, <4>1
    <3>2. CASE k # n + 1
      <4>1. k \in 0 .. n /\ g[k] = f[k]
        BY <3>2
      <4>2. k # 0 => k - 1 \in 0 .. n /\ g[k - 1] = f[k - 1]
        BY <4>1
      <4> HIDE DEF g
      <4> QED
        BY <2>2, <4>1, <4>2
    <3> QED
      BY <3>1, <3>2
  <2>4. g = [k \in 0 .. n + 1 |-> g[k]]
    OBVIOUS
  <2>5. Runs(n + 1, g)
    <3> HIDE DEF g
    <3> QED
      BY <2>3, <2>4
  <2> HIDE DEF g
  <2> QED
    BY <2>5
<1>3. Len(s) \in T
  <2> HIDE DEF T
  <2> QED
    BY <1>1, <1>2, NatStep
<1>4. PICK f : Runs(Len(s), f)
  BY <1>3
<1> DEFINE d == CHOOSE h : Runs(Len(s), h)
<1>5. Runs(Len(s), d)
  <2> HIDE DEF Runs
  <2> QED
    BY <1>4
<1>6. Rollouts!Distinct(s) = d[Len(s)]
  BY DEF Rollouts!Distinct
<1> HIDE DEF d
<1> QED
  BY <1>5, <1>6

LEMMA ToldNext ==
  ASSUME NEW s \in Seq(Mention)
  PROVE  /\ Told(s, 0) = <<>>
         /\ \A n \in 1 .. Len(s) :
              Told(s, n) = IF n > 1 /\ s[n].total = s[n - 1].total THEN Told(s, n - 1)
                           ELSE Append(Told(s, n - 1), s[n])
<1> DEFINE Step(old, n) == IF n > 1 /\ s[n].total = s[n - 1].total THEN old ELSE Append(old, s[n])
           Runs(n, f) == \A k \in 0 .. n : f[k] = IF k = 0 THEN <<>> ELSE Step(f[k - 1], k)
<1>1. ASSUME NEW n \in 0 .. Len(s)
      PROVE  \E f : Runs(n, f) /\ Told(s, n) = f[n]
  <2> DEFINE t == SubSeq(s, 1, n)
  <2>1. Len(t) = n /\ n \in Nat /\ \A k \in 1 .. n : t[k] = s[k]
    BY Cuts
  <2> HIDE DEF t
  <2>2. PICK f : /\ f = [k \in 0 .. n |->
                         IF k = 0 THEN <<>>
                         ELSE IF k > 1 /\ t[k].total = t[k - 1].total THEN f[k - 1]
                         ELSE Append(f[k - 1], t[k])]
                 /\ Rollouts!Distinct(t) = f[n]
    BY <2>1, DistinctRuns
  <2>3. \A k \in 0 .. n : f[k] = IF k = 0 THEN <<>>
                                 ELSE IF k > 1 /\ t[k].total = t[k - 1].total THEN f[k - 1]
                                 ELSE Append(f[k - 1], t[k])
    BY <2>2
  <2>4. \A k \in 1 .. n : k > 1 => k - 1 \in 1 .. n
    BY <2>1
  <2>5. Runs(n, f)
    BY <2>1, <2>3, <2>4
  <2> QED
    BY <2>2, <2>5 DEF Told, t
<1>2. ASSUME NEW n \in 1 .. Len(s), NEW f, NEW g, Runs(n - 1, f), Runs(n, g)
      PROVE  g[n] = Step(f[n - 1], n)
  <2> DEFINE T == {k \in Nat : k <= n - 1 => f[k] = g[k]}
  <2> HIDE DEF Step
  <2>0. n \in Nat /\ n >= 1
    BY Cuts
  <2>1. 0 \in T
    BY <1>2, <2>0
  <2>2. ASSUME NEW k \in Nat, k \in T PROVE k + 1 \in T
    <3> SUFFICES ASSUME k + 1 <= n - 1 PROVE f[k + 1] = g[k + 1]
      OBVIOUS
    <3>1. f[k + 1] = Step(f[k + 1 - 1], k + 1) /\ g[k + 1] = Step(g[k + 1 - 1], k + 1)
      <4>1. k + 1 \in 0 .. n - 1 /\ k + 1 \in 0 .. n /\ k + 1 # 0
        BY <2>0
      <4> QED
        BY <1>2, <4>1
    <3>2. f[k] = g[k] /\ k + 1 - 1 = k
      BY <2>0, <2>2
    <3> QED
      BY <3>1, <3>2
  <2>3. n - 1 \in T
    <3> HIDE DEF T
    <3> QED
      BY <2>0, <2>1, <2>2, NatStep
  <2> QED
    BY <1>2, <2>0, <2>3
<1>3. Told(s, 0) = <<>>
  <2>1. 0 \in 0 .. Len(s)
    BY Cuts
  <2> QED
    BY <1>1, <2>1
<1>4. ASSUME NEW n \in 1 .. Len(s) PROVE Told(s, n) = Step(Told(s, n - 1), n)
  <2>1. n \in 0 .. Len(s) /\ n - 1 \in 0 .. Len(s)
    BY Cuts
  <2>2. PICK f : Runs(n - 1, f) /\ Told(s, n - 1) = f[n - 1]
    BY <1>1, <2>1
  <2>3. PICK g : Runs(n, g) /\ Told(s, n) = g[n]
    BY <1>1, <2>1
  <2> HIDE DEF Runs, Step
  <2> QED
    BY <1>2, <2>2, <2>3
<1> QED
  BY <1>3, <1>4

LEMMA StartsShape ==
  ASSUME NEW u \in Seq(Mention), NEW v \in Seq(Mention)
  PROVE  /\ Rollouts!StartsWith(u, v) <=> Len(v) <= Len(u) /\ \A k \in 1 .. Len(v) : u[k] = v[k]
         /\ Len(u) \in Nat /\ Len(v) \in Nat
BY DEF Rollouts!StartsWith

LEMMA AppendShape ==
  ASSUME NEW u \in Seq(Mention), NEW r \in Mention
  PROVE  /\ Append(u, r) \in Seq(Mention)
         /\ Len(u) \in Nat /\ Len(Append(u, r)) = Len(u) + 1
         /\ Append(u, r)[Len(u) + 1] = r
         /\ \A k \in 1 .. Len(u) : Append(u, r)[k] = u[k]
OBVIOUS

LEMMA ToldShape ==
  ASSUME NEW s \in Seq(Mention), NEW n \in 0 .. Len(s)
  PROVE  /\ Told(s, n) \in Seq(Mention)
         /\ Len(Told(s, n)) \in Nat
         /\ n > 0 => /\ Len(Told(s, n)) > 0
                     /\ Told(s, n)[Len(Told(s, n))].total = s[n].total
<1> DEFINE ShapeUpTo(u, k) == /\ u \in Seq(Mention)
                              /\ k > 0 => Len(u) > 0 /\ u[Len(u)].total = s[k].total
           T == {k \in Nat : k <= Len(s) => ShapeUpTo(Told(s, k), k)}
<1>1. 0 \in T
  <2>1. ShapeUpTo(<<>>, 0)
    OBVIOUS
  <2>2. Told(s, 0) = <<>>
    BY ToldNext
  <2> HIDE DEF ShapeUpTo
  <2> QED
    BY <2>1, <2>2
<1>2. ASSUME NEW k \in Nat, k \in T PROVE k + 1 \in T
  <2> SUFFICES ASSUME k + 1 <= Len(s) PROVE ShapeUpTo(Told(s, k + 1), k + 1)
    OBVIOUS
  <2>1. ShapeUpTo(Told(s, k), k) /\ k + 1 \in 1 .. Len(s) /\ k + 1 - 1 = k /\ s[k + 1] \in Mention
    <3>1. Len(s) \in Nat
      BY Cuts
    <3> QED
      BY <1>2, <3>1, Cuts
  <2>2. Told(s, k + 1) = IF k + 1 > 1 /\ s[k + 1].total = s[k].total THEN Told(s, k)
                         ELSE Append(Told(s, k), s[k + 1])
    <3> DEFINE i == k + 1
    <3>1. i \in 1 .. Len(s) /\ i - 1 = k
      BY <2>1
    <3> HIDE DEF i
    <3>2. Told(s, i) = IF i > 1 /\ s[i].total = s[i - 1].total THEN Told(s, i - 1)
                       ELSE Append(Told(s, i - 1), s[i])
      BY <3>1, ToldNext
    <3> QED
      BY <3>1, <3>2 DEF i
  <2>3. CASE k + 1 > 1 /\ s[k + 1].total = s[k].total
    BY <2>1, <2>2, <2>3
  <2>4. CASE ~(k + 1 > 1 /\ s[k + 1].total = s[k].total)
    <3>1. Told(s, k + 1) = Append(Told(s, k), s[k + 1])
      BY <2>2, <2>4
    <3> QED
      BY <2>1, <3>1, AppendShape
  <2> QED
    BY <2>3, <2>4
<1>3. n \in Nat /\ n <= Len(s)
  BY Cuts
<1>4. n \in T
  <2> HIDE DEF T
  <2> QED
    BY <1>1, <1>2, <1>3, NatStep
<1> QED
  BY <1>3, <1>4

\* What was told stays told.
LEMMA ToldGrows ==
  ASSUME NEW s \in Seq(Mention), NEW m \in 0 .. Len(s), NEW n \in m .. Len(s)
  PROVE  Rollouts!StartsWith(Told(s, n), Told(s, m))
<1> DEFINE u == Told(s, m)
           T == {k \in Nat : m + k <= Len(s) => Rollouts!StartsWith(Told(s, m + k), u)}
<1>0. Len(s) \in Nat /\ m \in Nat /\ u \in Seq(Mention)
  BY Cuts, ToldShape
<1>1. 0 \in T
  <2>1. m + 0 = m
    BY <1>0
  <2>2. Rollouts!StartsWith(u, u)
    BY <1>0, StartsShape
  <2> QED
    BY <2>1, <2>2
<1>2. ASSUME NEW k \in Nat, k \in T PROVE k + 1 \in T
  <2> SUFFICES ASSUME m + (k + 1) <= Len(s) PROVE Rollouts!StartsWith(Told(s, m + (k + 1)), u)
    OBVIOUS
  <2> DEFINE i == m + (k + 1)
             v == Told(s, i - 1)
             w == Told(s, i)
  <2>1. i \in 1 .. Len(s) /\ i - 1 \in 0 .. Len(s) /\ i - 1 = m + k /\ s[i] \in Mention
    BY <1>0, Cuts
  <2>2. w = IF i > 1 /\ s[i].total = s[i - 1].total THEN v ELSE Append(v, s[i])
    BY <2>1, ToldNext
  <2>3. v \in Seq(Mention) /\ Rollouts!StartsWith(v, u)
    BY <1>0, <1>2, <2>1, ToldShape
  <2> HIDE DEF v, w, u, i
  <2>4. CASE w = v
    BY <2>3, <2>4 DEF i, w
  <2>5. CASE w = Append(v, s[i])
    <3>1. /\ w \in Seq(Mention) /\ Len(v) \in Nat /\ Len(w) = Len(v) + 1
          /\ \A j \in 1 .. Len(v) : w[j] = v[j]
      BY <2>1, <2>3, <2>5, AppendShape
    <3>2. /\ Len(u) \in Nat /\ Len(u) <= Len(v)
          /\ \A j \in 1 .. Len(u) : v[j] = u[j]
      BY <1>0, <2>3, StartsShape
    <3>3. Rollouts!StartsWith(w, u)
      BY <1>0, <3>1, <3>2, StartsShape
    <3> QED
      BY <3>3 DEF i, w
  <2> QED
    BY <2>2, <2>4, <2>5
<1>3. n - m \in Nat /\ m + (n - m) = n /\ n <= Len(s)
  BY <1>0
<1>4. n - m \in T
  <2> HIDE DEF T
  <2> QED
    BY <1>1, <1>2, <1>3, NatStep
<1> QED
  BY <1>3, <1>4

\* Distinct, of a sequence that grew by a record.
LEMMA DistinctAppend ==
  ASSUME NEW s \in Seq(Mention), NEW r \in Mention
  PROVE  Rollouts!Distinct(Append(s, r)) =
           IF Len(s) > 0 /\ r.total = s[Len(s)].total THEN Rollouts!Distinct(s)
           ELSE Append(Rollouts!Distinct(s), r)
<1> DEFINE t == Append(s, r)
<1>1. t \in Seq(Mention) /\ Len(s) \in Nat /\ Len(t) = Len(s) + 1 /\ t[Len(s) + 1] = r
      /\ \A k \in 1 .. Len(s) : t[k] = s[k]
  BY AppendShape
<1>2. SubSeq(t, 1, Len(s)) = s
  OBVIOUS
<1>3. Told(t, Len(s)) = Rollouts!Distinct(s)
  BY <1>2 DEF Told
<1>4. Told(t, Len(t)) = Rollouts!Distinct(t)
  BY <1>1, Cuts DEF Told
<1> HIDE DEF t
<1>5. Len(t) \in 1 .. Len(t) /\ Len(t) - 1 = Len(s) /\ (Len(t) > 1 <=> Len(s) > 0)
  BY <1>1
<1>6. Told(t, Len(t)) = IF Len(t) > 1 /\ t[Len(t)].total = t[Len(t) - 1].total THEN Told(t, Len(t) - 1)
                        ELSE Append(Told(t, Len(t) - 1), t[Len(t)])
  BY <1>1, <1>5, ToldNext
<1>7. t[Len(t)] = r /\ (Len(s) > 0 => t[Len(t) - 1] = s[Len(s)])
  BY <1>1
<1>8. Rollouts!Distinct(t) = IF Len(s) > 0 /\ r.total = s[Len(s)].total THEN Rollouts!Distinct(s)
                             ELSE Append(Rollouts!Distinct(s), r)
  BY <1>3, <1>4, <1>5, <1>6, <1>7
<1> QED
  BY <1>8 DEF t

LEMMA DistinctShape ==
  ASSUME NEW s \in Seq(Mention)
  PROVE  /\ Rollouts!Distinct(s) = Told(s, Len(s))
         /\ Rollouts!Distinct(s) \in Seq(Mention)
         /\ Len(Rollouts!Distinct(s)) \in Nat
         /\ Len(s) > 0 => /\ Len(Rollouts!Distinct(s)) > 0
                          /\ Rollouts!Distinct(s)[Len(Rollouts!Distinct(s))].total = s[Len(s)].total
<1>1. Rollouts!Distinct(s) = Told(s, Len(s))
  BY Cuts DEF Told
<1>2. Len(s) \in 0 .. Len(s)
  BY Cuts
<1> QED
  BY <1>1, <1>2, ToldShape

-----------------------------------------------------------------------------
(* What a fork replays.                                                    *)

\* The records a fork replays, as they were and when it did.
LEMMA ReplayShape ==
  ASSUME NEW s \in Seq(Mention), NEW k \in 0 .. Len(s), Len(uses) \in Nat
  PROVE  LET t == Rollouts!Replay(s, k) IN
         /\ t \in Seq(Mention) /\ Len(t) = k
         /\ \A i \in 1 .. k : t[i].time = Rollouts!Now /\ t[i].total = s[Len(s) - k + i].total
<1> DEFINE x(i) == s[Len(s) - k + i]
           t == [i \in 1 .. k |-> [x(i) EXCEPT !.time = Rollouts!Now]]
<1>1. Len(s) \in Nat /\ k \in Nat /\ Rollouts!Now \in Nat
  BY Cuts DEF Rollouts!Now
<1>2. ASSUME NEW i \in 1 .. k
      PROVE  /\ t[i] \in Mention
             /\ t[i].time = Rollouts!Now /\ t[i].total = x(i).total
  <2>1. x(i) \in Mention
    <3>1. Len(s) - k + i \in 1 .. Len(s)
      BY <1>1
    <3> QED
      BY <3>1, Cuts
  <2> HIDE DEF x
  <2>2. t[i] = [x(i) EXCEPT !.time = Rollouts!Now]
    OBVIOUS
  <2> QED
    BY <1>1, <2>1, <2>2 DEF Mention
<1>3. t \in Seq(Mention) /\ Len(t) = k
  <2> HIDE DEF x
  <2>1. \A i \in 1 .. k : t[i] \in Mention
    BY <1>2
  <2> DEFINE y(i) == [x(i) EXCEPT !.time = Rollouts!Now]
  <2>2. \A i \in 1 .. k : y(i) \in Mention
    BY <2>1
  <2>3. t = [i \in 1 .. k |-> y(i)]
    OBVIOUS
  <2> HIDE DEF t, y
  <2> QED
    BY <1>1, <2>2, <2>3
<1>4. t = Rollouts!Replay(s, k)
  BY DEF Rollouts!Replay
<1> HIDE DEF t
<1> QED
  BY <1>2, <1>3, <1>4

\* A replay tells the last of what its parent's records tell.
Ends(p, c) ==
  /\ Len(c) <= Len(p)
  /\ \A j \in 1 .. Len(c) : c[j].total = p[Len(p) - Len(c) + j].total

LEMMA EndsAppend ==
  ASSUME NEW p \in Seq(Mention), NEW c \in Seq(Mention), Ends(p, c),
         NEW x \in Mention, NEW y \in Mention, x.total = y.total
  PROVE  Ends(Append(p, x), Append(c, y))
<1> DEFINE p1 == Append(p, x)
           c1 == Append(c, y)
<1>1. /\ Len(p) \in Nat /\ Len(c) \in Nat /\ Len(p1) = Len(p) + 1 /\ Len(c1) = Len(c) + 1
      /\ p1[Len(p) + 1] = x /\ c1[Len(c) + 1] = y
      /\ \A k \in 1 .. Len(p) : p1[k] = p[k]
      /\ \A k \in 1 .. Len(c) : c1[k] = c[k]
  BY AppendShape
<1> HIDE DEF p1, c1
<1>2. Len(c) <= Len(p) /\ \A j \in 1 .. Len(c) : c[j].total = p[Len(p) - Len(c) + j].total
  BY DEF Ends
<1>3. ASSUME NEW j \in 1 .. Len(c1)
      PROVE  c1[j].total = p1[Len(p1) - Len(c1) + j].total
  <2>1. Len(p1) - Len(c1) + j = Len(p) - Len(c) + j
    BY <1>1
  <2>2. CASE j = Len(c) + 1
    <3>1. Len(p) - Len(c) + j = Len(p) + 1
      BY <1>1, <2>2
    <3> QED
      BY <1>1, <2>1, <2>2, <3>1
  <2>3. CASE j # Len(c) + 1
    <3>1. j \in 1 .. Len(c) /\ Len(p) - Len(c) + j \in 1 .. Len(p)
      BY <1>1, <1>2, <2>3
    <3> QED
      BY <1>1, <1>2, <2>1, <3>1
  <2> QED
    BY <2>2, <2>3
<1>4. Ends(p1, c1)
  BY <1>1, <1>2, <1>3 DEF Ends
<1> QED
  BY <1>4 DEF p1, c1

LEMMA ReplayEnds ==
  ASSUME NEW s \in Seq(Mention), NEW k \in 0 .. Len(s), Len(uses) \in Nat
  PROVE  LET c == Rollouts!Distinct(Rollouts!Replay(s, k)) IN
         /\ Ends(Rollouts!Distinct(s), c)
         /\ \A j \in 1 .. Len(c) : c[j].time = Rollouts!Now
<1> DEFINE t == Rollouts!Replay(s, k)
           e(n) == Told(t, n)
           w(n) == Told(s, Len(s) - k + n)
           Same(n) == Ends(w(n), e(n)) /\ \A j \in 1 .. Len(e(n)) : e(n)[j].time = Rollouts!Now
           T == {i \in Nat : i + 1 <= k => Same(i + 1)}
<1>1. /\ t \in Seq(Mention) /\ Len(t) = k /\ Len(s) \in Nat /\ k \in Nat /\ k <= Len(s)
      /\ \A i \in 1 .. k : t[i].time = Rollouts!Now /\ t[i].total = s[Len(s) - k + i].total
  <2>1. Len(s) \in Nat /\ k \in Nat /\ k <= Len(s)
    BY Cuts
  <2>2. /\ t \in Seq(Mention) /\ Len(t) = k
        /\ \A i \in 1 .. k : t[i].time = Rollouts!Now /\ t[i].total = s[Len(s) - k + i].total
    BY ReplayShape
  <2> QED
    BY <2>1, <2>2
<1> HIDE DEF t
<1>2. ASSUME NEW n \in 1 .. k
      PROVE  /\ e(n) \in Seq(Mention) /\ w(n) \in Seq(Mention) /\ t[n] \in Mention
             /\ Len(s) - k + n \in 1 .. Len(s) /\ s[Len(s) - k + n] \in Mention
             /\ Len(w(n)) \in Nat /\ Len(w(n)) > 0 /\ w(n)[Len(w(n))].total = t[n].total
  <2>1. n \in 0 .. Len(t) /\ n \in 1 .. Len(t) /\ Len(s) - k + n \in 1 .. Len(s)
        /\ Len(s) - k + n \in 0 .. Len(s) /\ Len(s) - k + n > 0
    BY <1>1
  <2> DEFINE i == Len(s) - k + n
  <2>2. s[i] \in Mention /\ t[n] \in Mention
    BY <1>1, <2>1, Cuts
  <2> HIDE DEF i
  <2>3. /\ Told(s, i) \in Seq(Mention) /\ Len(Told(s, i)) \in Nat
        /\ Len(Told(s, i)) > 0 /\ Told(s, i)[Len(Told(s, i))].total = s[i].total
    BY <2>1, ToldShape DEF i
  <2>4. Told(t, n) \in Seq(Mention)
    BY <1>1, <2>1, ToldShape
  <2> QED
    BY <1>1, <2>1, <2>2, <2>3, <2>4 DEF i
<1>3. 0 \in T
  <2> SUFFICES ASSUME 1 <= k PROVE Same(1)
    OBVIOUS
  <2>1. 1 \in 1 .. k
    BY <1>1
  <2>2. e(1) = Append(<<>>, t[1])
    <3>1. ASSUME NEW n \in 1 .. Len(t), n = 1 PROVE Told(t, n) = Append(Told(t, n - 1), t[n])
      <4>1. Told(t, n) = IF n > 1 /\ t[n].total = t[n - 1].total THEN Told(t, n - 1)
                         ELSE Append(Told(t, n - 1), t[n])
        BY <1>1, ToldNext
      <4> QED
        BY <3>1, <4>1
    <3>2. Told(t, 1) = Append(Told(t, 1 - 1), t[1])
      BY <1>1, <2>1, <3>1
    <3>3. Told(t, 0) = <<>> /\ 1 - 1 = 0
      BY <1>1, ToldNext
    <3> QED
      BY <3>2, <3>3
  <2>3. Len(e(1)) = 1 /\ e(1)[1] = t[1]
    <3>1. <<>> \in Seq(Mention) /\ Len(<<>>) = 0 /\ t[1] \in Mention
      BY <1>2, <2>1
    <3> HIDE DEF e
    <3> QED
      BY <2>2, <3>1, AppendShape
  <2>4. /\ w(1) \in Seq(Mention) /\ Len(w(1)) \in Nat /\ Len(w(1)) > 0
        /\ w(1)[Len(w(1))].total = t[1].total
    BY <1>2, <2>1
  <2> HIDE DEF e, w
  <2>5. Len(w(1)) - 1 + 1 = Len(w(1)) /\ 1 <= Len(w(1)) /\ \A j \in 1 .. 1 : j = 1
    BY <2>4
  <2>6. Ends(w(1), e(1))
    BY <2>3, <2>4, <2>5 DEF Ends
  <2>7. \A j \in 1 .. Len(e(1)) : e(1)[j].time = Rollouts!Now
    BY <1>1, <2>1, <2>3, <2>5
  <2> QED
    BY <2>6, <2>7
<1>4. ASSUME NEW i \in Nat, i \in T PROVE i + 1 \in T
  <2> DEFINE n == i + 2
  <2> SUFFICES ASSUME n <= k PROVE Same(n)
    BY <1>1
  <2>1. /\ n \in 1 .. k /\ n - 1 \in 1 .. k /\ n - 1 = i + 1 /\ n > 1
        /\ Len(s) - k + n - 1 = Len(s) - k + (n - 1) /\ Len(s) - k + n > 1
    BY <1>1
  <2>2. Same(n - 1)
    BY <1>4, <2>1
  <2> HIDE DEF n
  <2>3. e(n) = IF t[n].total = t[n - 1].total THEN e(n - 1) ELSE Append(e(n - 1), t[n])
    <3>1. n \in 1 .. Len(t)
      BY <1>1, <2>1
    <3> QED
      BY <1>1, <2>1, <3>1, ToldNext
  <2>4. w(n) = IF t[n].total = t[n - 1].total THEN w(n - 1) ELSE Append(w(n - 1), s[Len(s) - k + n])
    <3> DEFINE m == Len(s) - k + n
    <3>1. m \in 1 .. Len(s) /\ m > 1 /\ m - 1 = Len(s) - k + (n - 1)
      BY <1>2, <2>1
    <3>2. Told(s, m) = IF m > 1 /\ s[m].total = s[m - 1].total THEN Told(s, m - 1)
                       ELSE Append(Told(s, m - 1), s[m])
      BY <3>1, ToldNext
    <3>3. s[m].total = t[n].total /\ s[m - 1].total = t[n - 1].total
      BY <1>1, <2>1, <3>1
    <3> QED
      BY <3>1, <3>2, <3>3
  <2>5. /\ e(n - 1) \in Seq(Mention) /\ w(n - 1) \in Seq(Mention)
        /\ t[n] \in Mention /\ s[Len(s) - k + n] \in Mention
        /\ s[Len(s) - k + n].total = t[n].total /\ t[n].time = Rollouts!Now
    BY <1>1, <1>2, <2>1
  <2> HIDE DEF e, w
  <2>6. CASE t[n].total = t[n - 1].total
    BY <2>2, <2>3, <2>4, <2>6
  <2>7. CASE t[n].total # t[n - 1].total
    <3>1. Ends(Append(w(n - 1), s[Len(s) - k + n]), Append(e(n - 1), t[n]))
      BY <2>2, <2>5, EndsAppend
    <3>2. \A j \in 1 .. Len(e(n)) : e(n)[j].time = Rollouts!Now
      <4>1. /\ Len(e(n - 1)) \in Nat /\ Len(e(n)) = Len(e(n - 1)) + 1
            /\ e(n)[Len(e(n - 1)) + 1] = t[n]
            /\ \A j \in 1 .. Len(e(n - 1)) : e(n)[j] = e(n - 1)[j]
        BY <2>3, <2>5, <2>7, AppendShape
      <4> QED
        BY <2>2, <2>5, <4>1
    <3> QED
      BY <2>3, <2>4, <2>7, <3>1, <3>2
  <2> QED
    BY <2>6, <2>7
<1>5. CASE k > 0
  <2>1. k - 1 \in T
    <3> HIDE DEF T
    <3>1. k - 1 \in Nat
      BY <1>1, <1>5
    <3> QED
      BY <1>3, <1>4, <3>1, NatStep
  <2>2. Same(k)
    BY <1>1, <1>5, <2>1
  <2>3. e(k) = Rollouts!Distinct(t) /\ w(k) = Rollouts!Distinct(s)
    <3>1. Len(s) - k + k = Len(s)
      BY <1>1
    <3>2. Rollouts!Distinct(t) = Told(t, Len(t)) /\ Rollouts!Distinct(s) = Told(s, Len(s))
      BY <1>1, DistinctShape
    <3> QED
      BY <1>1, <3>1, <3>2
  <2> QED
    BY <2>2, <2>3 DEF t
<1>6. CASE ~(k > 0)
  <2>1. Rollouts!Distinct(t) = <<>>
    <3>1. Rollouts!Distinct(t) = Told(t, 0)
      BY <1>1, <1>6, DistinctShape
    <3> QED
      BY <1>1, <3>1, ToldNext
  <2>2. Len(<<>>) = 0 /\ Len(Rollouts!Distinct(s)) \in Nat
    BY DistinctShape
  <2>3. Ends(Rollouts!Distinct(s), Rollouts!Distinct(t))
    BY <2>1, <2>2 DEF Ends
  <2>4. \A j \in 1 .. Len(Rollouts!Distinct(t)) : Rollouts!Distinct(t)[j].time = Rollouts!Now
    BY <2>1, <2>2
  <2> QED
    BY <2>3, <2>4 DEF t
<1> QED
  BY <1>5, <1>6

-----------------------------------------------------------------------------
(* Histories cut at a time, and what a child inherits of one.              *)

\* Where a history is cut at a time.
Cut(u, t, n) ==
  /\ n \in 0 .. Len(u)
  /\ \A k \in 1 .. n : u[k].time < t
  /\ n < Len(u) => ~(u[n + 1].time < t)

LEMMA CutExists ==
  ASSUME NEW u \in Seq(Mention), NEW t \in Nat
  PROVE  \E n : Cut(u, t, n)
<1> DEFINE S == {n \in 0 .. Len(u) : n < Len(u) => ~(u[n + 1].time < t)}
<1>1. Len(u) \in Nat /\ Len(u) \in S
  BY Cuts
<1>2. PICK n \in S : \A m \in S : n <= m
  <2>1. S \subseteq Nat /\ S # {}
    BY <1>1
  <2> HIDE DEF S
  <2> QED
    BY <2>1, LeastOfNaturals
<1>3. ASSUME NEW k \in 1 .. n PROVE u[k].time < t
  <2>1. n \in Nat /\ n <= Len(u)
    BY <1>1
  <2>2. k - 1 \in 0 .. Len(u) /\ k - 1 < Len(u) /\ k - 1 + 1 = k /\ ~(n <= k - 1)
    BY <1>1, <2>1
  <2>3. k - 1 \notin S
    BY <1>2, <2>2
  <2> QED
    BY <2>2, <2>3
<1> QED
  BY <1>2, <1>3 DEF Cut

LEMMA CutIsBefore ==
  ASSUME NEW u \in Seq(Mention), NEW t \in Nat, NEW n, Cut(u, t, n)
  PROVE  /\ Rollouts!Before(u, t) = SubSeq(u, 1, n)
         /\ Rollouts!Before(u, t) \in Seq(Mention)
         /\ n \in Nat /\ Len(Rollouts!Before(u, t)) = n
         /\ \A k \in 1 .. n : Rollouts!Before(u, t)[k] = u[k]
<1>1. Len(u) \in Nat /\ n \in Nat /\ n <= Len(u)
  BY Cuts DEF Cut
<1>2. {k \in DOMAIN u : \A j \in 1 .. k : u[j].time < t} = 1 .. n
  <2>1. DOMAIN u = 1 .. Len(u)
    OBVIOUS
  <2>2. ASSUME NEW k \in 1 .. Len(u), k > n PROVE ~\A j \in 1 .. k : u[j].time < t
    <3>1. n + 1 \in 1 .. k /\ n < Len(u)
      BY <1>1, <2>2
    <3>2. ~(u[n + 1].time < t)
      BY <3>1 DEF Cut
    <3> QED
      BY <3>1, <3>2
  <2>3. ASSUME NEW k \in 1 .. n PROVE k \in 1 .. Len(u) /\ \A j \in 1 .. k : u[j].time < t
    <3>1. \A j \in 1 .. k : j \in 1 .. n
      BY <1>1
    <3> QED
      BY <1>1, <3>1 DEF Cut
  <2>4. \A k \in 1 .. Len(u) : k > n \/ k \in 1 .. n
    BY <1>1
  <2> QED
    BY <2>1, <2>2, <2>3, <2>4
<1>3. Cardinality(1 .. n) = n
  <2>1. Cardinality(1 .. n) = IF 1 > n THEN 0 ELSE n - 1 + 1
    BY <1>1, FS_Interval
  <2> QED
    BY <1>1, <2>1
<1>4. Rollouts!Before(u, t) = SubSeq(u, 1, n)
  BY <1>2, <1>3, SameRolloutNotions DEF Rollouts!Before
<1>5. n \in 0 .. Len(u)
  BY DEF Cut
<1> QED
  BY <1>1, <1>4, <1>5, Cuts

\* What comes later than the cut changes nothing.
LEMMA CutStays ==
  ASSUME NEW u \in Seq(Mention), NEW v \in Seq(Mention), NEW t \in Nat, NEW n,
         Rollouts!StartsWith(v, u), Cut(u, t, n),
         \A k \in Len(u) + 1 .. Len(v) : ~(v[k].time < t)
  PROVE  Cut(v, t, n)
<1>1. /\ Len(u) \in Nat /\ Len(v) \in Nat /\ Len(u) <= Len(v)
      /\ \A k \in 1 .. Len(u) : v[k] = u[k]
  BY StartsShape
<1>2. n \in 0 .. Len(v) /\ n \in 0 .. Len(u)
  BY <1>1 DEF Cut
<1>3. \A k \in 1 .. n : v[k].time < t
  BY <1>1, <1>2 DEF Cut
<1>4. ASSUME n < Len(v) PROVE ~(v[n + 1].time < t)
  <2>1. CASE n < Len(u)
    <3>1. n + 1 \in 1 .. Len(u)
      BY <1>1, <1>2, <2>1
    <3> QED
      BY <1>1, <2>1, <3>1 DEF Cut
  <2>2. CASE ~(n < Len(u))
    <3>1. n + 1 \in Len(u) + 1 .. Len(v)
      BY <1>1, <1>2, <1>4, <2>2
    <3> QED
      BY <3>1
  <2> QED
    BY <2>1, <2>2
<1> QED
  BY <1>2, <1>3, <1>4 DEF Cut

LEMMA BeforeStays ==
  ASSUME NEW u \in Seq(Mention), NEW v \in Seq(Mention), NEW t \in Nat,
         Rollouts!StartsWith(v, u),
         \A k \in Len(u) + 1 .. Len(v) : ~(v[k].time < t)
  PROVE  Rollouts!Before(v, t) = Rollouts!Before(u, t)
<1>1. PICK n : Cut(u, t, n)
  BY CutExists
<1>2. Cut(v, t, n)
  BY <1>1, CutStays
<1>3. /\ Rollouts!Before(u, t) \in Seq(Mention) /\ n \in Nat /\ Len(Rollouts!Before(u, t)) = n
      /\ \A k \in 1 .. n : Rollouts!Before(u, t)[k] = u[k]
  BY <1>1, CutIsBefore
<1>4. /\ Rollouts!Before(v, t) \in Seq(Mention) /\ Len(Rollouts!Before(v, t)) = n
      /\ \A k \in 1 .. n : Rollouts!Before(v, t)[k] = v[k]
  BY <1>2, CutIsBefore
<1>5. \A k \in 1 .. n : v[k] = u[k]
  <2>1. n <= Len(u) /\ Len(u) \in Nat
    BY <1>1, Cuts DEF Cut
  <2> QED
    BY <1>3, <2>1, StartsShape
<1> DEFINE a == Rollouts!Before(v, t)
           b == Rollouts!Before(u, t)
<1> HIDE DEF a, b
<1>6. a \in Seq(Mention) /\ b \in Seq(Mention) /\ Len(a) = Len(b)
      /\ \A k \in 1 .. Len(a) : a[k] = b[k]
  BY <1>3, <1>4, <1>5 DEF a, b
<1>7. a = b
  BY <1>6
<1> QED
  BY <1>7 DEF a, b

\* All of a history that is over by a time.
LEMMA BeforeIsAll ==
  ASSUME NEW u \in Seq(Mention), NEW t \in Nat, \A k \in 1 .. Len(u) : u[k].time < t
  PROVE  Rollouts!Before(u, t) = u
<1>1. Len(u) \in Nat /\ SubSeq(u, 1, Len(u)) = u
  BY Cuts
<1>2. Cut(u, t, Len(u))
  BY <1>1 DEF Cut
<1> QED
  BY <1>1, <1>2, CutIsBefore

\* A history that begins with what another had before a time has it before that
\* time as well.
LEMMA BeforeStarts ==
  ASSUME NEW u \in Seq(Mention), NEW v \in Seq(Mention), NEW t \in Nat,
         Rollouts!StartsWith(v, Rollouts!Before(u, t))
  PROVE  Rollouts!StartsWith(Rollouts!Before(v, t), Rollouts!Before(u, t))
<1> DEFINE b == Rollouts!Before(u, t)
           a == Rollouts!Before(v, t)
<1>1. PICK n : Cut(u, t, n)
  BY CutExists
<1>2. b \in Seq(Mention) /\ n \in Nat /\ Len(b) = n /\ \A k \in 1 .. n : b[k] = u[k]
  BY <1>1, CutIsBefore
<1>3. PICK m : Cut(v, t, m)
  BY CutExists
<1>4. a \in Seq(Mention) /\ m \in Nat /\ Len(a) = m /\ \A k \in 1 .. m : a[k] = v[k]
  BY <1>3, CutIsBefore
<1>5. Rollouts!StartsWith(v, b)
  OBVIOUS
<1> HIDE DEF a, b
<1>6. Len(b) <= Len(v) /\ Len(v) \in Nat /\ \A k \in 1 .. Len(b) : v[k] = b[k]
  BY <1>2, <1>5, StartsShape
<1>7. n <= m
  <2> SUFFICES ASSUME m < n PROVE FALSE
    BY <1>2, <1>4
  <2>1. m < Len(v) /\ m + 1 \in 1 .. n
    BY <1>2, <1>4, <1>6
  <2>2. ~(v[m + 1].time < t)
    BY <1>3, <2>1 DEF Cut
  <2>3. v[m + 1] = u[m + 1]
    BY <1>2, <1>6, <2>1
  <2>4. u[m + 1].time < t
    BY <1>1, <2>1 DEF Cut
  <2> QED
    BY <2>2, <2>3, <2>4
<1>8. \A k \in 1 .. n : a[k] = b[k]
  BY <1>2, <1>4, <1>6, <1>7
<1>9. Rollouts!StartsWith(a, b)
  BY <1>2, <1>4, <1>7, <1>8, StartsShape
<1> QED
  BY <1>9 DEF a, b

LEMMA InheritedShape ==
  ASSUME NEW c \in Seq(Mention), NEW p \in Seq(Mention)
  PROVE  LET n == Rollouts!Inherited(c, p) IN
         /\ n \in Nat /\ n <= Len(c) /\ n <= Len(p)
         /\ \A j \in 1 .. n : c[j].total = p[Len(p) - n + j].total
<1> DEFINE M == Rollouts!Matches(c, p)
           Most(k, i) == k \in M /\ \A j \in M : j <= i => j <= k
           T == {i \in Nat : \E k \in M : Most(k, i)}
<1>1. Len(c) \in Nat /\ Len(p) \in Nat
  BY Cuts
<1>2. 0 \in M /\ M \subseteq Nat /\ \A j \in M : j <= Len(c)
  BY <1>1 DEF Rollouts!Matches
<1> HIDE DEF M
<1>3. 0 \in T
  BY <1>2
<1>4. ASSUME NEW i \in Nat, i \in T PROVE i + 1 \in T
  <2>1. PICK k \in M : Most(k, i)
    BY <1>4
  <2>2. CASE i + 1 \in M
    <3>1. Most(i + 1, i + 1)
      BY <2>2
    <3> QED
      BY <2>2, <3>1
  <2>3. CASE i + 1 \notin M
    <3>1. Most(k, i + 1)
      <4>1. \A j \in M : j <= i + 1 => j <= i
        BY <1>2, <2>3
      <4> QED
        BY <2>1, <4>1
    <3> QED
      BY <3>1
  <2> QED
    BY <2>2, <2>3
<1>5. Len(c) \in T
  <2> HIDE DEF T
  <2> QED
    BY <1>1, <1>3, <1>4, NatStep
<1>6. \E k \in M : \A j \in M : j <= k
  BY <1>2, <1>5
<1>7. Rollouts!Inherited(c, p) \in M
  BY <1>6 DEF Rollouts!Inherited, M
<1> QED
  BY <1>1, <1>7 DEF M, Rollouts!Matches

-----------------------------------------------------------------------------
(* Of a session's rollouts one is canonical.                               *)

Rollout ==
  [file : Nat, session : Nat, parent : Nat, started : Nat, valid : BOOLEAN, complete : BOOLEAN,
   usage : Seq(Mention)]

\* Better orders the rollouts of a scan.
LEMMA BetterOrders ==
  ASSUME NEW got \in Seq(Rollout), NEW i \in 1 .. Len(got), NEW j \in 1 .. Len(got), i # j
  PROVE  /\ ~(Rollouts!Better(got, i, j) /\ Rollouts!Better(got, j, i))
         /\ Rollouts!Better(got, i, j) \/ Rollouts!Better(got, j, i)
         /\ \A k \in 1 .. Len(got) :
              Rollouts!Better(got, i, j) /\ Rollouts!Better(got, j, k) => Rollouts!Better(got, i, k)
<1>1. \A k \in 1 .. Len(got) : /\ got[k].complete \in BOOLEAN /\ Len(got[k].usage) \in Nat
  <2> SUFFICES ASSUME NEW k \in 1 .. Len(got)
               PROVE  got[k].complete \in BOOLEAN /\ Len(got[k].usage) \in Nat
    OBVIOUS
  <2>1. got[k] \in Rollout
    OBVIOUS
  <2>2. got[k].complete \in BOOLEAN /\ got[k].usage \in Seq(Mention)
    BY <2>1 DEF Rollout
  <2> QED
    BY <2>2
<1>2. Len(got) \in Nat
  OBVIOUS
<1> QED
  BY <1>1, <1>2 DEF Rollouts!Better

LEMMA CanonicalIsOne ==
  ASSUME NEW got \in Seq(Rollout), NEW s,
         NEW c \in Rollouts!Canonical(got, s), NEW d \in Rollouts!Canonical(got, s)
  PROVE  c = d
<1>1. c \in 1 .. Len(got) /\ d \in 1 .. Len(got)
  BY DEF Rollouts!Canonical
<1>2. c # d => Rollouts!Better(got, c, d) /\ Rollouts!Better(got, d, c)
  BY DEF Rollouts!Canonical
<1> QED
  BY <1>1, <1>2, BetterOrders

LEMMA CanonicalExists ==
  ASSUME NEW got \in Seq(Rollout), NEW s, NEW v \in 1 .. Len(got),
         got[v].session = s, got[v].valid
  PROVE  \E c : c \in Rollouts!Canonical(got, s)
<1> DEFINE of == {i \in 1 .. Len(got) : got[i].session = s /\ got[i].valid}
           Best(b, n) == \A j \in of : j <= n /\ j # b => Rollouts!Better(got, b, j)
           T == {n \in Nat : \A w \in of : w <= n => \E b \in of : b <= n /\ Best(b, n)}
<1>0. Len(got) \in Nat /\ v \in of /\ of \subseteq 1 .. Len(got)
  OBVIOUS
<1> HIDE DEF of
<1>1. 0 \in T
  BY <1>0
<1>2. ASSUME NEW n \in Nat, n \in T PROVE n + 1 \in T
  <2> SUFFICES ASSUME NEW w \in of, w <= n + 1 PROVE \E b \in of : b <= n + 1 /\ Best(b, n + 1)
    OBVIOUS
  <2>1. CASE \E b \in of : b <= n /\ Best(b, n)
    <3>1. PICK b \in of : b <= n /\ Best(b, n)
      BY <2>1
    <3>2. b \in 1 .. Len(got) /\ b <= n + 1
      BY <1>0, <3>1
    <3>3. CASE n + 1 \notin of
      <4>1. \A j \in of : j <= n + 1 => j <= n
        BY <1>0, <3>3
      <4>2. Best(b, n + 1)
        BY <3>1, <4>1
      <4> QED
        BY <3>2, <4>2
    <3>4. CASE n + 1 \in of /\ Rollouts!Better(got, b, n + 1)
      <4>1. \A j \in of : j <= n + 1 => j <= n \/ j = n + 1
        BY <1>0
      <4>2. Best(b, n + 1)
        BY <3>1, <3>4, <4>1
      <4> QED
        BY <3>2, <4>2
    <3>5. CASE n + 1 \in of /\ ~Rollouts!Better(got, b, n + 1)
      <4>1. n + 1 \in 1 .. Len(got) /\ n + 1 # b
        BY <1>0, <3>1, <3>5
      <4>2. Rollouts!Better(got, n + 1, b)
        BY <3>2, <3>5, <4>1, BetterOrders
      <4>3. ASSUME NEW j \in of, j <= n + 1, j # n + 1 PROVE Rollouts!Better(got, n + 1, j)
        <5>1. j \in 1 .. Len(got) /\ j <= n
          BY <1>0, <4>3
        <5>2. j # b => Rollouts!Better(got, b, j)
          BY <3>1, <5>1
        <5> QED
          BY <3>2, <4>1, <4>2, <5>1, <5>2, BetterOrders
      <4>4. Best(n + 1, n + 1)
        BY <4>3
      <4> QED
        BY <3>5, <4>4
    <3> QED
      BY <3>3, <3>4, <3>5
  <2>2. CASE ~\E b \in of : b <= n /\ Best(b, n)
    <3>1. \A j \in of : ~(j <= n)
      BY <1>2, <2>2
    <3>2. w = n + 1 /\ \A j \in of : j <= n + 1 => j = w
      BY <1>0, <3>1
    <3>3. Best(w, n + 1)
      BY <3>2
    <3> QED
      BY <3>2, <3>3
  <2> QED
    BY <2>1, <2>2
<1>3. Len(got) \in T
  <2> HIDE DEF T
  <2> QED
    BY <1>0, <1>1, <1>2, NatStep
<1>4. PICK b \in of : Best(b, Len(got))
  BY <1>0, <1>3
<1>5. \A j \in of \ {b} : Rollouts!Better(got, b, j)
  BY <1>0, <1>4
<1>6. DOMAIN got = 1 .. Len(got)
  OBVIOUS
<1> QED
  BY <1>4, <1>5, <1>6 DEF Rollouts!Canonical, of

-----------------------------------------------------------------------------
(* What the files are: each tells its own session's uses, after what it was*)
(* forked with.                                                            *)

Kept ==
  [session : Nat, parent : Nat, started : Nat, records : Seq(Mention), total : SUBSET Nat,
   lost : SUBSET Nat, torn : BOOLEAN, unread : Int, mod : Nat]

\* What a file tells.
Hist(fs, f) == Rollouts!Distinct(fs[f].records)
LastTold(fs, f) == IF Len(Hist(fs, f)) = 0 THEN {} ELSE Hist(fs, f)[Len(Hist(fs, f))].total

\* A use of the file's own session, newer than what the first k parts tell.
Newer(fs, us, f, k, d) ==
  /\ d \in 1 .. Len(us) /\ us[d] = fs[f].session
  /\ \A j \in 1 .. k : \A m \in Hist(fs, f)[j].total : m < d

\* The k-th part is the first to tell a use of the session, now, and perhaps
\* some that were lost.
Own(fs, us, f, k) ==
  LET n == Hist(fs, f)[k].time IN
  /\ n \in Rollouts!Delta(Hist(fs, f), k)
  /\ \A d \in Rollouts!Delta(Hist(fs, f), k) :
       Newer(fs, us, f, k - 1, d) /\ (d = n \/ d \in fs[f].lost)

\* The running total goes on from the last told, or began again, and has lost
\* uses that are to be told with the next.
Ahead(fs, us, f) ==
  /\ \A d \in fs[f].total :
       d \in LastTold(fs, f) \/ (d \in fs[f].lost /\ Newer(fs, us, f, Len(Hist(fs, f)), d))
  /\ \/ LastTold(fs, f) \subseteq fs[f].total
     \/ \A d \in fs[f].total : d \in fs[f].lost /\ Newer(fs, us, f, Len(Hist(fs, f)), d)

SessionsOf(fs) == {fs[f].session : f \in DOMAIN fs}

Shaped(fs, us, f) ==
  LET x == fs[f] IN
  /\ x.unread = -1 \/ x.unread \in 0 .. Len(x.records)
  /\ x.mod <= Len(us) + 1 /\ x.started <= Len(us) + 1
  /\ x.session \in 1 .. Cardinality(SessionsOf(fs)) /\ x.parent < x.session
  /\ \A d \in x.lost : d <= x.mod
  /\ Ahead(fs, us, f)

\* A total is of uses of the session and of those it descends from, and has a
\* use that no earlier one has.
Grown(fs, us, f) ==
  \A k \in 1 .. Len(Hist(fs, f)) :
    LET r == Hist(fs, f)[k] IN
    /\ r.time <= fs[f].mod
    /\ r.time <= Len(us) \/ (fs[f].parent # 0 /\ r.time = fs[f].started)
    /\ r.total # {} /\ \A m \in r.total : m \in 1 .. Len(us) /\ us[m] <= fs[f].session
    /\ \A j \in 1 .. k - 1 : \E n \in r.total : \A m \in Hist(fs, f)[j].total : m < n

\* The first m parts are the last of what the parent told before the fork.
Replayed(fs, us, f, g, m) ==
  LET p == Rollouts!Before(Hist(fs, g), fs[f].started) IN
  /\ m <= Len(p)
  /\ \A j \in 1 .. m : Hist(fs, f)[j].total = p[Len(p) - m + j].total
  /\ \A k \in m + 1 .. Len(Hist(fs, f)) : Own(fs, us, f, k)

Forked(fs, us, f, g) ==
  /\ fs[g].session = fs[f].parent
  /\ \A h \in 1 .. Len(fs) : fs[h].session = fs[f].session => g < h
  /\ \/ fs[g].parent # 0 /\ fs[g].started = fs[f].started
     \/ \E m \in 0 .. Len(Hist(fs, f)) : Replayed(fs, us, f, g, m)

Origin(fs, us, f) ==
  IF fs[f].parent = 0 THEN \A k \in 1 .. Len(Hist(fs, f)) : Own(fs, us, f, k)
  ELSE \E g \in 1 .. Len(fs) : Forked(fs, us, f, g)

OneOrigin(fs) ==
  \A f, g \in 1 .. Len(fs) :
    fs[f].session = fs[g].session => fs[f].parent = fs[g].parent /\ fs[f].started = fs[g].started

\* A use is told when it is made, or lost with its line.
ToldNow(fs, us, h, n) ==
  \E k \in 1 .. Len(Hist(fs, h)) : Hist(fs, h)[k].time = n /\ Own(fs, us, h, k)
LostNow(fs, h, n) == n \in fs[h].lost /\ fs[h].torn

UsesAreTold(fs, us, N, M) ==
  \A n \in 1 .. M : \E h \in 1 .. N : ToldNow(fs, us, h, n) \/ LostNow(fs, h, n)

FilesTyped(fs, us) == fs \in Seq(Kept) /\ us \in Seq(Nat)

FilesInv(fs, us) ==
  /\ FilesTyped(fs, us) /\ IsFiniteSet(SessionsOf(fs))
  /\ \A f \in 1 .. Len(fs) : Shaped(fs, us, f) /\ Grown(fs, us, f) /\ Origin(fs, us, f)
  /\ OneOrigin(fs) /\ UsesAreTold(fs, us, Len(fs), Len(us))

\* Lost uses and torn lines stay, and what is lost is lost now.
LosesOnward(x, y, now) ==
  /\ x.lost \subseteq y.lost /\ \A d \in y.lost : d \in x.lost \/ d > now
  /\ x.torn => y.torn

\* What Codex does: files and uses are added, a file's history grows by uses of
\* its own, now.
Onward(fs, us, gs, vs) ==
  /\ Len(us) <= Len(vs) /\ \A n \in 1 .. Len(us) : vs[n] = us[n]
  /\ Len(fs) <= Len(gs)
  /\ \A f \in 1 .. Len(fs) :
       /\ gs[f].session = fs[f].session /\ gs[f].parent = fs[f].parent
       /\ gs[f].started = fs[f].started /\ fs[f].mod <= gs[f].mod
       /\ LosesOnward(fs[f], gs[f], Len(us))
       /\ Rollouts!StartsWith(Hist(gs, f), Hist(fs, f))
       /\ \A k \in Len(Hist(fs, f)) + 1 .. Len(Hist(gs, f)) :
            Own(gs, vs, f, k) /\ Hist(gs, f)[k].time > Len(us)

\* No line is torn.
Calm(fs, gs) == \A f \in 1 .. Len(fs) : gs[f].torn = fs[f].torn

LEMMA KeptShape ==
  ASSUME NEW fs, NEW us, FilesTyped(fs, us)
  PROVE  /\ Len(fs) \in Nat /\ Len(us) \in Nat /\ DOMAIN fs = 1 .. Len(fs)
         /\ DOMAIN us = 1 .. Len(us)
         /\ \A n \in 1 .. Len(us) : us[n] \in Nat
         /\ \A f \in 1 .. Len(fs) :
              /\ fs[f] \in Kept
              /\ fs[f].session \in Nat /\ fs[f].parent \in Nat /\ fs[f].started \in Nat
              /\ fs[f].records \in Seq(Mention) /\ fs[f].total \subseteq Nat
              /\ fs[f].lost \subseteq Nat
              /\ fs[f].torn \in BOOLEAN /\ fs[f].unread \in Int /\ fs[f].mod \in Nat
              /\ Hist(fs, f) \in Seq(Mention) /\ Len(Hist(fs, f)) \in Nat
              /\ \A k \in 1 .. Len(Hist(fs, f)) : Hist(fs, f)[k] \in Mention
<1>1. fs \in Seq(Kept) /\ us \in Seq(Nat)
  BY DEF FilesTyped
<1>2. /\ Len(fs) \in Nat /\ Len(us) \in Nat /\ DOMAIN fs = 1 .. Len(fs) /\ DOMAIN us = 1 .. Len(us)
      /\ \A n \in 1 .. Len(us) : us[n] \in Nat
  BY <1>1
<1>3. ASSUME NEW f \in 1 .. Len(fs)
      PROVE  /\ fs[f] \in Kept
             /\ fs[f].session \in Nat /\ fs[f].parent \in Nat /\ fs[f].started \in Nat
             /\ fs[f].records \in Seq(Mention) /\ fs[f].total \subseteq Nat
             /\ fs[f].lost \subseteq Nat
             /\ fs[f].torn \in BOOLEAN /\ fs[f].unread \in Int /\ fs[f].mod \in Nat
  <2>1. fs[f] \in Kept
    BY <1>1
  <2> QED
    BY <2>1 DEF Kept
<1>4. ASSUME NEW f \in 1 .. Len(fs)
      PROVE  /\ Hist(fs, f) \in Seq(Mention) /\ Len(Hist(fs, f)) \in Nat
             /\ \A k \in 1 .. Len(Hist(fs, f)) : Hist(fs, f)[k] \in Mention
  <2>1. Hist(fs, f) \in Seq(Mention)
    BY <1>3, DistinctShape DEF Hist
  <2> QED
    BY <2>1
<1> QED
  BY <1>2, <1>3, <1>4

LEMMA FileShape ==
  ASSUME NEW fs, NEW us, FilesTyped(fs, us), NEW f \in 1 .. Len(fs)
  PROVE  /\ Len(fs) \in Nat /\ Len(us) \in Nat /\ f \in Nat
         /\ fs[f].session \in Nat /\ fs[f].parent \in Nat /\ fs[f].started \in Nat
         /\ fs[f].mod \in Nat /\ fs[f].unread \in Int /\ fs[f].records \in Seq(Mention)
         /\ Hist(fs, f) \in Seq(Mention) /\ Len(Hist(fs, f)) \in Nat
         /\ \A k \in 1 .. Len(Hist(fs, f)) : Hist(fs, f)[k].time \in Nat /\ Hist(fs, f)[k].total \subseteq Nat
<1>1. \A k \in 1 .. Len(Hist(fs, f)) : Hist(fs, f)[k].time \in Nat /\ Hist(fs, f)[k].total \subseteq Nat
  BY KeptShape, MentionShape
<1>2. Len(fs) \in Nat /\ Len(us) \in Nat /\ f \in Nat
  BY KeptShape
<1> QED
  BY <1>1, <1>2, KeptShape

LEMMA OnwardShape ==
  ASSUME NEW fs, NEW us, NEW gs, NEW vs, Onward(fs, us, gs, vs), FilesTyped(fs, us),
         FilesTyped(gs, vs),
         NEW f \in 1 .. Len(fs)
  PROVE  /\ Len(us) <= Len(vs) /\ Len(fs) <= Len(gs) /\ f \in 1 .. Len(gs)
         /\ gs[f].session = fs[f].session /\ gs[f].parent = fs[f].parent
         /\ gs[f].started = fs[f].started /\ fs[f].mod <= gs[f].mod
         /\ LosesOnward(fs[f], gs[f], Len(us))
         /\ Rollouts!StartsWith(Hist(gs, f), Hist(fs, f))
         /\ Len(Hist(fs, f)) <= Len(Hist(gs, f))
         /\ \A k \in 1 .. Len(Hist(fs, f)) : Hist(gs, f)[k] = Hist(fs, f)[k]
         /\ \A k \in Len(Hist(fs, f)) + 1 .. Len(Hist(gs, f)) :
              Own(gs, vs, f, k) /\ Hist(gs, f)[k].time > Len(us)
<1>1. /\ Len(us) <= Len(vs) /\ Len(fs) <= Len(gs)
      /\ gs[f].session = fs[f].session /\ gs[f].parent = fs[f].parent
      /\ gs[f].started = fs[f].started /\ fs[f].mod <= gs[f].mod
      /\ LosesOnward(fs[f], gs[f], Len(us))
      /\ Rollouts!StartsWith(Hist(gs, f), Hist(fs, f))
      /\ \A k \in Len(Hist(fs, f)) + 1 .. Len(Hist(gs, f)) :
           Own(gs, vs, f, k) /\ Hist(gs, f)[k].time > Len(us)
  BY DEF Onward
<1>2. Len(fs) \in Nat /\ Len(gs) \in Nat
  BY KeptShape
<1>3. f \in 1 .. Len(gs)
  BY <1>1, <1>2
<1>4. Hist(gs, f) \in Seq(Mention) /\ Hist(fs, f) \in Seq(Mention)
  BY <1>3, FileShape
<1>5. Len(Hist(fs, f)) <= Len(Hist(gs, f))
      /\ \A k \in 1 .. Len(Hist(fs, f)) : Hist(gs, f)[k] = Hist(fs, f)[k]
  BY <1>1, <1>4, StartsShape
<1> QED
  BY <1>1, <1>3, <1>5

\* The growth at a part depends on nothing later.
LEMMA DeltaStays ==
  ASSUME NEW u \in Seq(Mention), NEW v \in Seq(Mention), Rollouts!StartsWith(v, u),
         NEW k \in 1 .. Len(u)
  PROVE  /\ Rollouts!Delta(v, k) = Rollouts!Delta(u, k)
         /\ Rollouts!Whole(v, k) <=> Rollouts!Whole(u, k)
<1>1. /\ Len(u) \in Nat /\ Len(v) \in Nat /\ Len(u) <= Len(v)
      /\ \A j \in 1 .. Len(u) : v[j] = u[j]
  BY StartsShape
<1>2. v[k] = u[k] /\ (k # 1 => v[k - 1] = u[k - 1])
  <2>1. k # 1 => k - 1 \in 1 .. Len(u)
    BY <1>1
  <2> QED
    BY <1>1, <2>1
<1>3. Rollouts!Previous(v, k) = Rollouts!Previous(u, k)
  BY <1>2 DEF Rollouts!Previous
<1> QED
  BY <1>2, <1>3 DEF Rollouts!Delta, Rollouts!BeganAgain, Rollouts!Whole

LEMMA DeltaIsTold ==
  ASSUME NEW u, NEW k
  PROVE  Rollouts!Delta(u, k) \subseteq u[k].total
BY DEF Rollouts!Delta

LEMMA OwnStays ==
  ASSUME NEW fs, NEW us, NEW gs, NEW vs, FilesTyped(fs, us), FilesTyped(gs, vs),
         Onward(fs, us, gs, vs), NEW f \in 1 .. Len(fs), NEW k \in 1 .. Len(Hist(fs, f)),
         Own(fs, us, f, k)
  PROVE  /\ k \in 1 .. Len(Hist(gs, f)) /\ Hist(gs, f)[k] = Hist(fs, f)[k]
         /\ Own(gs, vs, f, k)
<1> DEFINE u == Hist(fs, f)
           v == Hist(gs, f)
<1>1. /\ Len(fs) \in Nat /\ Len(us) \in Nat /\ Len(gs) \in Nat /\ Len(vs) \in Nat
      /\ Len(fs) <= Len(gs) /\ Len(us) <= Len(vs)
      /\ f \in 1 .. Len(gs)
  BY KeptShape DEF Onward
<1>2. u \in Seq(Mention) /\ v \in Seq(Mention) /\ Rollouts!StartsWith(v, u)
      /\ gs[f].session = fs[f].session /\ fs[f].lost \subseteq gs[f].lost
      /\ \A n \in 1 .. Len(us) : vs[n] = us[n]
  BY <1>1, KeptShape DEF Onward, LosesOnward
<1>3. /\ u[k].time \in Rollouts!Delta(u, k)
      /\ \A d \in Rollouts!Delta(u, k) : /\ d \in 1 .. Len(us) /\ us[d] = fs[f].session
                                         /\ \A j \in 1 .. k - 1 : \A m \in u[j].total : m < d
                                         /\ d = u[k].time \/ d \in fs[f].lost
  BY DEF Own, Newer
<1>4. k \in 1 .. Len(u)
  OBVIOUS
<1> HIDE DEF u, v
<1>5. /\ Len(u) \in Nat /\ Len(v) \in Nat /\ Len(u) <= Len(v)
      /\ \A j \in 1 .. Len(u) : v[j] = u[j]
  BY <1>2, StartsShape
<1>6. k \in 1 .. Len(v) /\ v[k] = u[k]
  BY <1>4, <1>5
<1>7. Rollouts!Delta(v, k) = Rollouts!Delta(u, k)
  BY <1>2, <1>4, DeltaStays
<1>8. \A j \in 1 .. k - 1 : v[j] = u[j]
  BY <1>4, <1>5
<1>9. ASSUME NEW d \in Rollouts!Delta(v, k)
      PROVE  Newer(gs, vs, f, k - 1, d) /\ (d = v[k].time \/ d \in gs[f].lost)
  <2>1. /\ d \in 1 .. Len(us) /\ us[d] = fs[f].session
        /\ \A j \in 1 .. k - 1 : \A m \in u[j].total : m < d
        /\ d = u[k].time \/ d \in fs[f].lost
    BY <1>3, <1>7
  <2>2. d \in 1 .. Len(vs) /\ vs[d] = gs[f].session
    BY <1>1, <1>2, <2>1
  <2>3. \A j \in 1 .. k - 1 : \A m \in v[j].total : m < d
    BY <1>8, <2>1
  <2> QED
    BY <1>2, <1>6, <2>1, <2>2, <2>3 DEF Newer, v
<1>10. v[k].time \in Rollouts!Delta(v, k)
  BY <1>3, <1>6, <1>7
<1> QED
  BY <1>6, <1>9, <1>10 DEF Own, u, v

\* What goes on from what was told goes on so.
LEMMA AheadStays ==
  ASSUME NEW fs, NEW us, NEW gs, NEW vs, NEW f, NEW h, Len(us) \in Nat, Len(vs) \in Nat,
         Len(us) <= Len(vs), \A n \in 1 .. Len(us) : vs[n] = us[n],
         gs[h].session = fs[f].session, Hist(gs, h) = Hist(fs, f),
         gs[h].total = fs[f].total, fs[f].lost \subseteq gs[h].lost, Ahead(fs, us, f)
  PROVE  Ahead(gs, vs, h)
<1>1. ASSUME NEW d, NEW k, Newer(fs, us, f, k, d) PROVE Newer(gs, vs, h, k, d)
  BY <1>1 DEF Newer
<1>2. LastTold(gs, h) = LastTold(fs, f) /\ Len(Hist(gs, h)) = Len(Hist(fs, f))
  BY DEF LastTold
<1>3. /\ \A d \in fs[f].total :
           d \in LastTold(fs, f) \/ (d \in fs[f].lost /\ Newer(fs, us, f, Len(Hist(fs, f)), d))
      /\ \/ LastTold(fs, f) \subseteq fs[f].total
         \/ \A d \in fs[f].total : d \in fs[f].lost /\ Newer(fs, us, f, Len(Hist(fs, f)), d)
  BY DEF Ahead
<1>4. /\ \A d \in gs[h].total :
           d \in LastTold(gs, h) \/ (d \in gs[h].lost /\ Newer(gs, vs, h, Len(Hist(gs, h)), d))
      /\ \/ LastTold(gs, h) \subseteq gs[h].total
         \/ \A d \in gs[h].total : d \in gs[h].lost /\ Newer(gs, vs, h, Len(Hist(gs, h)), d)
  BY <1>1, <1>2, <1>3
<1> QED
  BY <1>4 DEF Ahead

\* A history keeps its origin.
LEMMA OriginStays ==
  ASSUME NEW fs, NEW us, NEW gs, NEW vs, FilesInv(fs, us), FilesTyped(gs, vs),
         Onward(fs, us, gs, vs), NEW f \in 1 .. Len(fs)
  PROVE  Origin(gs, vs, f)
<1> DEFINE u == Hist(fs, f)
           v == Hist(gs, f)
<1>0. FilesTyped(fs, us) /\ Origin(fs, us, f)
  BY DEF FilesInv
<1>1. /\ Len(fs) \in Nat /\ Len(us) \in Nat /\ Len(gs) \in Nat /\ Len(vs) \in Nat
      /\ Len(fs) <= Len(gs) /\ f \in 1 .. Len(gs)
      /\ gs[f].session = fs[f].session /\ gs[f].parent = fs[f].parent
      /\ gs[f].started = fs[f].started
      /\ fs[f].parent \in Nat /\ fs[f].session \in Nat
  <2>1. Len(gs) \in Nat /\ Len(vs) \in Nat
    BY KeptShape
  <2> QED
    BY <1>0, <2>1, FileShape, OnwardShape
<1>2. u \in Seq(Mention) /\ v \in Seq(Mention) /\ Len(u) \in Nat /\ Len(v) \in Nat
  BY <1>0, <1>1, KeptShape
<1>3. /\ Len(u) <= Len(v) /\ \A k \in 1 .. Len(u) : v[k] = u[k]
      /\ \A k \in Len(u) + 1 .. Len(v) : Own(gs, vs, f, k)
  <2>1. Rollouts!StartsWith(v, u) /\ \A k \in Len(u) + 1 .. Len(v) : Own(gs, vs, f, k)
    BY DEF Onward
  <2> HIDE DEF u, v
  <2> QED
    BY <1>2, <2>1, StartsShape
<1>4. \A k \in 1 .. Len(u) : Own(fs, us, f, k) => Own(gs, vs, f, k)
  BY <1>0, OwnStays
<1>5. CASE fs[f].parent = 0
  <2>1. \A k \in 1 .. Len(u) : Own(fs, us, f, k)
    BY <1>0, <1>5 DEF Origin
  <2>2. \A k \in 1 .. Len(v) : k \in 1 .. Len(u) \/ k \in Len(u) + 1 .. Len(v)
    <3> HIDE DEF u, v
    <3> QED
      BY <1>2
  <2>3. \A k \in 1 .. Len(v) : Own(gs, vs, f, k)
    BY <1>3, <1>4, <2>1, <2>2
  <2> QED
    BY <1>1, <1>5, <2>3 DEF Origin
<1>6. CASE fs[f].parent # 0
  <2>1. PICK g \in 1 .. Len(fs) : Forked(fs, us, f, g)
    BY <1>0, <1>6 DEF Origin
  <2>2. /\ g \in 1 .. Len(gs) /\ g \in Nat
        /\ gs[g].session = fs[g].session /\ gs[g].parent = fs[g].parent
        /\ gs[g].started = fs[g].started
        /\ Hist(fs, g) \in Seq(Mention) /\ Hist(gs, g) \in Seq(Mention)
        /\ Rollouts!StartsWith(Hist(gs, g), Hist(fs, g))
        /\ \A k \in Len(Hist(fs, g)) + 1 .. Len(Hist(gs, g)) : Hist(gs, g)[k].time > Len(us)
    <3>1. g \in 1 .. Len(gs)
      BY <1>0, OnwardShape
    <3>2. Hist(fs, g) \in Seq(Mention) /\ Hist(gs, g) \in Seq(Mention)
      BY <1>0, <3>1, FileShape
    <3> QED
      BY <1>0, <3>1, <3>2, OnwardShape
  <2>3. gs[g].session = gs[f].parent
    BY <1>1, <2>1, <2>2 DEF Forked
  <2>4. \A h \in 1 .. Len(gs) : gs[h].session = gs[f].session => g < h
    <3> SUFFICES ASSUME NEW h \in 1 .. Len(gs), gs[h].session = gs[f].session PROVE g < h
      OBVIOUS
    <3>1. CASE h \in 1 .. Len(fs)
      <4>1. gs[h].session = fs[h].session
        BY <3>1 DEF Onward
      <4> QED
        BY <1>1, <2>1, <3>1, <4>1 DEF Forked
    <3>2. CASE h \notin 1 .. Len(fs)
      BY <1>1, <2>1, <3>2
    <3> QED
      BY <3>1, <3>2
  <2>5. CASE fs[g].parent # 0 /\ fs[g].started = fs[f].started
    <3>1. Forked(gs, vs, f, g)
      BY <1>1, <2>2, <2>3, <2>4, <2>5 DEF Forked
    <3> QED
      BY <1>1, <1>6, <2>2, <3>1 DEF Origin
  <2>6. CASE \E m \in 0 .. Len(u) : Replayed(fs, us, f, g, m)
    <3>1. PICK m \in 0 .. Len(u) : Replayed(fs, us, f, g, m)
      BY <2>6
    <3> DEFINE t == fs[f].started
               p == Rollouts!Before(Hist(fs, g), t)
               q == Rollouts!Before(Hist(gs, g), t)
    <3>2. t \in Nat /\ t <= Len(us) + 1
      BY <1>0, KeptShape DEF FilesInv, Shaped
    <3>3. q = p
      <4>1. \A k \in Len(Hist(fs, g)) + 1 .. Len(Hist(gs, g)) : ~(Hist(gs, g)[k].time < t)
        <5> SUFFICES ASSUME NEW k \in Len(Hist(fs, g)) + 1 .. Len(Hist(gs, g))
                     PROVE  ~(Hist(gs, g)[k].time < t)
          OBVIOUS
        <5>1. k \in 1 .. Len(Hist(gs, g))
          BY <1>0, <1>1, <2>1, KeptShape
        <5>2. Hist(gs, g)[k].time \in Nat
          BY <2>2, <5>1, FileShape
        <5>3. Hist(gs, g)[k].time > Len(us)
          BY <2>2
        <5> HIDE DEF t
        <5> QED
          BY <1>1, <3>2, <5>2, <5>3
      <4> QED
        BY <2>2, <3>2, <4>1, BeforeStays
    <3>4. /\ m \in 0 .. Len(u) /\ m \in Nat /\ m <= Len(p)
          /\ \A j \in 1 .. m : u[j].total = p[Len(p) - m + j].total
          /\ \A k \in m + 1 .. Len(u) : Own(fs, us, f, k)
      BY <3>1 DEF Replayed
    <3> HIDE DEF u, v, p, q
    <3>5. m \in 0 .. Len(v) /\ m <= Len(q)
      BY <1>2, <1>3, <3>3, <3>4
    <3>6. \A j \in 1 .. m : v[j].total = q[Len(q) - m + j].total
      <4>1. \A j \in 1 .. m : j \in 1 .. Len(u)
        BY <1>2, <3>4
      <4> QED
        BY <1>3, <3>3, <3>4, <4>1
    <3>7. \A k \in m + 1 .. Len(v) : Own(gs, vs, f, k)
      <4>1. \A k \in m + 1 .. Len(v) : \/ k \in m + 1 .. Len(u) /\ k \in 1 .. Len(u)
                                       \/ k \in Len(u) + 1 .. Len(v)
        BY <1>2
      <4>2. \A k \in 1 .. Len(u) : Own(fs, us, f, k) => Own(gs, vs, f, k)
        BY <1>4
      <4> QED
        BY <1>3, <3>4, <4>1, <4>2
    <3>8. Replayed(gs, vs, f, g, m)
      BY <1>1, <3>5, <3>6, <3>7 DEF Replayed, u, v, p, q
    <3>9. Forked(gs, vs, f, g)
      BY <2>2, <2>3, <2>4, <3>5, <3>8 DEF Forked, v
    <3> QED
      BY <1>1, <1>6, <2>2, <3>9 DEF Origin
  <2> QED
    BY <2>1, <2>5, <2>6 DEF Forked
<1> QED
  BY <1>5, <1>6

-----------------------------------------------------------------------------
(* What a scan has seen while Codex goes on.                               *)

Reading ==
  [at : {"reading"}, since : Nat, queue : SUBSET [file : Nat, mod : Nat], got : Seq(Rollout),
   warned : BOOLEAN, before : Nat]

InScan(sc, f) ==
  \/ \E q \in sc.queue : q.file = f
  \/ \E i \in 1 .. Len(sc.got) : sc.got[i].file = f

\* A rollout is what its file told up to some record, and all of it told before
\* the scan, with what was torn of it, unless the scan has warned.
ReadOf(fs, r, before, warned) ==
  /\ r.file \in 1 .. Len(fs)
  /\ r.session = fs[r.file].session /\ r.parent = fs[r.file].parent
  /\ r.started = fs[r.file].started
  /\ Rollouts!StartsWith(Hist(fs, r.file), r.usage)
  /\ IF r.complete
     THEN /\ \A k \in Len(r.usage) + 1 .. Len(Hist(fs, r.file)) : Hist(fs, r.file)[k].time > before
          /\ fs[r.file].torn => ~r.valid
     ELSE warned

\* A file has nothing of the window.
Outside(fs, g, since, before) ==
  /\ \A k \in 1 .. Len(Hist(fs, g)) : Hist(fs, g)[k].time \notin since .. before
  /\ \A n \in fs[g].lost : n \notin since .. before

\* What the scan knows of the N files there were when it listed them.
Seen(fs, us, sc, N) ==
  /\ \A q \in sc.queue : q.file \in 1 .. Len(fs)
  /\ \A i \in 1 .. Len(sc.got) : ReadOf(fs, sc.got[i], sc.before, sc.warned)
  /\ \A f \in 1 .. Len(fs) : InScan(sc, f) => \E g \in 1 .. N : fs[g].session = fs[f].session
  /\ \A g \in 1 .. N : fs[g].started <= sc.before + 1
  /\ \A g \in 1 .. N : InScan(sc, g) \/ sc.warned \/ Outside(fs, g, sc.since, sc.before)
  /\ \A h \in 1 .. Len(fs), g \in 1 .. N :
       fs[h].session = fs[g].session /\ InScan(sc, h) /\ ~InScan(sc, g) =>
         sc.warned \/ fs[h].mod >= sc.since
  /\ UsesAreTold(fs, us, N, sc.before)

ScanInv(fs, us, sc) ==
  sc = Rollouts!Idle \/
    /\ sc \in Reading /\ sc.since \in 1 .. sc.before + 1 /\ sc.before <= Len(us)
    /\ \E N \in 0 .. Len(fs) : Seen(fs, us, sc, N)

LEMMA ReadingShape ==
  ASSUME NEW sc \in Reading
  PROVE  /\ sc.at = "reading" /\ sc.since \in Nat /\ sc.before \in Nat /\ sc.warned \in BOOLEAN
         /\ sc.queue \subseteq [file : Nat, mod : Nat]
         /\ sc.got \in Seq(Rollout) /\ Len(sc.got) \in Nat /\ DOMAIN sc.got = 1 .. Len(sc.got)
         /\ \A i \in 1 .. Len(sc.got) :
              /\ sc.got[i] \in Rollout
              /\ sc.got[i].file \in Nat /\ sc.got[i].session \in Nat /\ sc.got[i].parent \in Nat
              /\ sc.got[i].started \in Nat /\ sc.got[i].valid \in BOOLEAN
              /\ sc.got[i].complete \in BOOLEAN
              /\ sc.got[i].usage \in Seq(Mention) /\ Len(sc.got[i].usage) \in Nat
<1>1. /\ sc.at = "reading" /\ sc.since \in Nat /\ sc.before \in Nat /\ sc.warned \in BOOLEAN
      /\ sc.queue \subseteq [file : Nat, mod : Nat] /\ sc.got \in Seq(Rollout)
  BY DEF Reading
<1>2. Len(sc.got) \in Nat /\ DOMAIN sc.got = 1 .. Len(sc.got)
  BY <1>1
<1>3. ASSUME NEW i \in 1 .. Len(sc.got)
      PROVE  /\ sc.got[i] \in Rollout
             /\ sc.got[i].file \in Nat /\ sc.got[i].session \in Nat /\ sc.got[i].parent \in Nat
             /\ sc.got[i].started \in Nat /\ sc.got[i].valid \in BOOLEAN
             /\ sc.got[i].complete \in BOOLEAN
             /\ sc.got[i].usage \in Seq(Mention) /\ Len(sc.got[i].usage) \in Nat
  <2>1. sc.got[i] \in Rollout
    BY <1>1, <1>3
  <2>2. /\ sc.got[i].file \in Nat /\ sc.got[i].session \in Nat /\ sc.got[i].parent \in Nat
        /\ sc.got[i].started \in Nat /\ sc.got[i].valid \in BOOLEAN
        /\ sc.got[i].complete \in BOOLEAN /\ sc.got[i].usage \in Seq(Mention)
    BY <2>1 DEF Rollout
  <2> QED
    BY <2>1, <2>2
<1> QED
  BY <1>1, <1>2, <1>3

\* What was read stays a reading while Codex goes on.
LEMMA ReadStays ==
  ASSUME NEW fs, NEW us, NEW gs, NEW vs, Onward(fs, us, gs, vs), FilesTyped(fs, us),
         FilesTyped(gs, vs),
         NEW r \in Rollout, NEW before \in Nat, before <= Len(us), NEW warned, Calm(fs, gs),
         ReadOf(fs, r, before, warned)
  PROVE  ReadOf(gs, r, before, warned)
<1> DEFINE f == r.file
           u == Hist(fs, f)
           v == Hist(gs, f)
<1>1. /\ f \in 1 .. Len(fs) /\ r.session = fs[f].session /\ r.parent = fs[f].parent
      /\ r.started = fs[f].started /\ Rollouts!StartsWith(u, r.usage)
      /\ IF r.complete
         THEN (\A k \in Len(r.usage) + 1 .. Len(u) : u[k].time > before) /\ (fs[f].torn => ~r.valid)
         ELSE warned
      /\ gs[f].torn = fs[f].torn
  BY DEF ReadOf, Calm
<1>2. r.usage \in Seq(Mention)
  BY DEF Rollout
<1>3. /\ f \in 1 .. Len(gs) /\ gs[f].session = fs[f].session /\ gs[f].parent = fs[f].parent
      /\ gs[f].started = fs[f].started /\ Len(u) <= Len(v)
      /\ \A k \in 1 .. Len(u) : v[k] = u[k]
      /\ \A k \in Len(u) + 1 .. Len(v) : v[k].time > Len(us)
  BY <1>1, OnwardShape
<1>4. u \in Seq(Mention) /\ v \in Seq(Mention) /\ Len(u) \in Nat /\ Len(v) \in Nat
      /\ Len(us) \in Nat
      /\ \A k \in 1 .. Len(v) : v[k].time \in Nat
  <2>1. u \in Seq(Mention) /\ Len(u) \in Nat /\ Len(us) \in Nat
    BY <1>1, FileShape
  <2>2. v \in Seq(Mention) /\ Len(v) \in Nat /\ \A k \in 1 .. Len(v) : v[k].time \in Nat
    BY <1>3, FileShape
  <2> QED
    BY <2>1, <2>2
<1> HIDE DEF u, v
<1>5. /\ Len(r.usage) \in Nat /\ Len(r.usage) <= Len(u)
      /\ \A k \in 1 .. Len(r.usage) : u[k] = r.usage[k]
  BY <1>1, <1>2, <1>4, StartsShape
<1>6. Rollouts!StartsWith(v, r.usage)
  <2>1. Len(r.usage) <= Len(v)
    BY <1>3, <1>4, <1>5
  <2>2. \A k \in 1 .. Len(r.usage) : v[k] = r.usage[k]
    BY <1>3, <1>4, <1>5
  <2> QED
    BY <1>2, <1>4, <2>1, <2>2, StartsShape
<1>7. ASSUME r.complete, NEW k \in Len(r.usage) + 1 .. Len(v) PROVE v[k].time > before
  <2>1. CASE k \in Len(r.usage) + 1 .. Len(u)
    <3>1. k \in 1 .. Len(u)
      BY <1>4, <1>5, <2>1
    <3> QED
      BY <1>1, <1>3, <1>7, <2>1, <3>1
  <2>2. CASE k \in Len(u) + 1 .. Len(v)
    <3>1. v[k].time > Len(us) /\ v[k].time \in Nat
      BY <1>3, <1>4, <2>2
    <3> QED
      BY <1>4, <3>1
  <2> QED
    BY <1>4, <1>5, <2>1, <2>2
<1>8. /\ r.file \in 1 .. Len(gs) /\ r.session = gs[r.file].session /\ r.parent = gs[r.file].parent
      /\ r.started = gs[r.file].started
      /\ r.complete /\ gs[r.file].torn => ~r.valid
  BY <1>1, <1>3
<1> QED
  BY <1>1, <1>6, <1>7, <1>8 DEF ReadOf, u, v

LEMMA UsesStayTold ==
  ASSUME NEW fs, NEW us, NEW gs, NEW vs, Onward(fs, us, gs, vs), FilesTyped(fs, us),
         FilesTyped(gs, vs),
         NEW N \in 0 .. Len(fs), NEW M, UsesAreTold(fs, us, N, M)
  PROVE  UsesAreTold(gs, vs, N, M)
<1> SUFFICES ASSUME NEW n \in 1 .. M
             PROVE  \E h \in 1 .. N : ToldNow(gs, vs, h, n) \/ LostNow(gs, h, n)
  BY DEF UsesAreTold
<1>1. PICK h \in 1 .. N : ToldNow(fs, us, h, n) \/ LostNow(fs, h, n)
  BY DEF UsesAreTold
<1>2. h \in 1 .. Len(fs)
  <2>1. Len(fs) \in Nat
    BY KeptShape
  <2> QED
    BY <2>1
<1>3. CASE ToldNow(fs, us, h, n)
  <2>1. PICK k \in 1 .. Len(Hist(fs, h)) : Hist(fs, h)[k].time = n /\ Own(fs, us, h, k)
    BY <1>3 DEF ToldNow
  <2>2. k \in 1 .. Len(Hist(gs, h)) /\ Hist(gs, h)[k] = Hist(fs, h)[k] /\ Own(gs, vs, h, k)
    BY <1>2, <2>1, OwnStays
  <2> QED
    BY <2>1, <2>2 DEF ToldNow
<1>4. CASE LostNow(fs, h, n)
  <2>1. LosesOnward(fs[h], gs[h], Len(us))
    BY <1>2, OnwardShape
  <2> QED
    BY <1>4, <2>1 DEF LosesOnward, LostNow
<1> QED
  BY <1>1, <1>3, <1>4

\* And so does the scan.
LEMMA ScanStays ==
  ASSUME NEW fs, NEW us, NEW gs, NEW vs, FilesInv(fs, us), FilesTyped(gs, vs),
         Onward(fs, us, gs, vs), NEW sc, ScanInv(fs, us, sc),
         sc = Rollouts!Idle \/ Calm(fs, gs)
  PROVE  ScanInv(gs, vs, sc)
<1> SUFFICES ASSUME sc # Rollouts!Idle PROVE ScanInv(gs, vs, sc)
  BY DEF ScanInv
<1>0. FilesTyped(fs, us)
  BY DEF FilesInv
<1>1. sc \in Reading /\ sc.since \in 1 .. sc.before + 1 /\ sc.before <= Len(us)
  BY DEF ScanInv
<1>2. PICK N \in 0 .. Len(fs) : Seen(fs, us, sc, N)
  BY DEF ScanInv
<1>3. /\ Len(fs) \in Nat /\ Len(us) \in Nat /\ Len(gs) \in Nat /\ Len(vs) \in Nat
      /\ Len(fs) <= Len(gs) /\ Len(us) <= Len(vs) /\ sc.before \in Nat /\ sc.since \in Nat
  BY <1>0, <1>1, KeptShape, ReadingShape DEF Onward
<1>4. N \in 0 .. Len(gs) /\ sc.before <= Len(vs)
  BY <1>1, <1>3
<1>5. \A f \in 1 .. Len(gs) : InScan(sc, f) => f \in 1 .. Len(fs)
  <2>1. \A q \in sc.queue : q.file \in 1 .. Len(fs)
    BY <1>2 DEF Seen
  <2>2. \A i \in 1 .. Len(sc.got) : sc.got[i].file \in 1 .. Len(fs)
    BY <1>2 DEF Seen, ReadOf
  <2> QED
    BY <2>1, <2>2 DEF InScan
<1>6. \A f \in 1 .. Len(fs) : /\ gs[f].session = fs[f].session /\ gs[f].started = fs[f].started
                              /\ fs[f].mod <= gs[f].mod /\ fs[f].mod \in Nat /\ gs[f].mod \in Nat
  <2> SUFFICES ASSUME NEW f \in 1 .. Len(fs)
               PROVE  /\ gs[f].session = fs[f].session /\ gs[f].started = fs[f].started
                      /\ fs[f].mod <= gs[f].mod /\ fs[f].mod \in Nat /\ gs[f].mod \in Nat
    OBVIOUS
  <2>1. f \in 1 .. Len(gs)
    BY <1>0, OnwardShape
  <2> QED
    BY <1>0, <2>1, OnwardShape, FileShape
<1>7. \A f \in 1 .. N : f \in 1 .. Len(fs)
  BY <1>3
<1>8. \A q \in sc.queue : q.file \in 1 .. Len(gs)
  <2>1. \A q \in sc.queue : q.file \in 1 .. Len(fs)
    BY <1>2 DEF Seen
  <2> QED
    BY <1>3, <2>1
<1>9. \A i \in 1 .. Len(sc.got) : ReadOf(gs, sc.got[i], sc.before, sc.warned)
  <2> SUFFICES ASSUME NEW i \in 1 .. Len(sc.got) PROVE ReadOf(gs, sc.got[i], sc.before, sc.warned)
    OBVIOUS
  <2>1. ReadOf(fs, sc.got[i], sc.before, sc.warned)
    BY <1>2 DEF Seen
  <2>2. sc.got[i] \in Rollout
    BY <1>1, ReadingShape
  <2>3. Calm(fs, gs)
    OBVIOUS
  <2> QED
    BY <1>0, <1>1, <1>3, <2>1, <2>2, <2>3, ReadStays
<1>10. \A f \in 1 .. Len(gs) : InScan(sc, f) => \E g \in 1 .. N : gs[g].session = gs[f].session
  <2> SUFFICES ASSUME NEW f \in 1 .. Len(gs), InScan(sc, f)
               PROVE  \E g \in 1 .. N : gs[g].session = gs[f].session
    OBVIOUS
  <2>1. f \in 1 .. Len(fs)
    BY <1>5
  <2>2. PICK g \in 1 .. N : fs[g].session = fs[f].session
    BY <1>2, <2>1 DEF Seen
  <2> QED
    BY <1>6, <1>7, <2>1, <2>2
<1>11. \A g \in 1 .. N : gs[g].started <= sc.before + 1
  <2>1. \A g \in 1 .. N : fs[g].started <= sc.before + 1
    BY <1>2 DEF Seen
  <2> QED
    BY <1>6, <1>7, <2>1
<1>12. ASSUME NEW g \in 1 .. N, ~InScan(sc, g), ~sc.warned
       PROVE  Outside(gs, g, sc.since, sc.before)
  <2>1. Outside(fs, g, sc.since, sc.before)
    BY <1>2, <1>12 DEF Seen
  <2>2. g \in 1 .. Len(fs)
    BY <1>7
  <2>3. g \in 1 .. Len(gs)
    BY <1>0, <2>2, OnwardShape
  <2>4. Len(Hist(fs, g)) \in Nat /\ Len(Hist(gs, g)) \in Nat
    BY <1>0, <2>2, <2>3, FileShape
  <2>5. ASSUME NEW n \in Nat, n > Len(us) PROVE n \notin sc.since .. sc.before
    BY <1>1, <1>3, <2>5
  <2>6. ASSUME NEW k \in 1 .. Len(Hist(gs, g)) PROVE Hist(gs, g)[k].time \notin sc.since .. sc.before
    <3>1. CASE k \in 1 .. Len(Hist(fs, g))
      <4>1. Hist(gs, g)[k] = Hist(fs, g)[k]
        BY <1>0, <2>2, <3>1, OnwardShape
      <4> QED
        BY <2>1, <3>1, <4>1 DEF Outside
    <3>2. CASE k \in Len(Hist(fs, g)) + 1 .. Len(Hist(gs, g))
      <4>1. Hist(gs, g)[k].time > Len(us)
        BY <1>0, <2>2, <3>2, OnwardShape
      <4>2. Hist(gs, g)[k].time \in Nat
        BY <2>3, FileShape
      <4> QED
        BY <2>5, <4>1, <4>2
    <3> QED
      BY <2>4, <3>1, <3>2
  <2>7. ASSUME NEW n \in gs[g].lost PROVE n \notin sc.since .. sc.before
    <3>1. n \in fs[g].lost \/ n > Len(us)
      BY <1>0, <2>2, OnwardShape DEF LosesOnward
    <3>2. n \in Nat
      BY <2>3, KeptShape
    <3> QED
      BY <2>1, <2>5, <3>1, <3>2 DEF Outside
  <2> QED
    BY <2>6, <2>7 DEF Outside
<1>13. ASSUME NEW h \in 1 .. Len(gs), NEW g \in 1 .. N, gs[h].session = gs[g].session,
              InScan(sc, h), ~InScan(sc, g), ~sc.warned
       PROVE  gs[h].mod >= sc.since
  <2>1. h \in 1 .. Len(fs) /\ g \in 1 .. Len(fs)
    BY <1>5, <1>7, <1>13
  <2>2. fs[h].session = fs[g].session
    BY <1>6, <1>13, <2>1
  <2>3. fs[h].mod >= sc.since
    BY <1>2, <1>13, <2>1, <2>2 DEF Seen
  <2> QED
    BY <1>3, <1>6, <2>1, <2>3
<1>14. UsesAreTold(gs, vs, N, sc.before)
  <2>1. UsesAreTold(fs, us, N, sc.before)
    BY <1>2 DEF Seen
  <2> QED
    BY <1>0, <2>1, UsesStayTold
<1>15. Seen(gs, vs, sc, N)
  BY <1>8, <1>9, <1>10, <1>11, <1>12, <1>13, <1>14 DEF Seen
<1> QED
  BY <1>1, <1>4, <1>15 DEF ScanInv

-----------------------------------------------------------------------------
(* A scan that is done reading.                                            *)

LEMMA StartsTransitive ==
  ASSUME NEW u \in Seq(Mention), NEW v \in Seq(Mention), NEW w \in Seq(Mention),
         Rollouts!StartsWith(u, v), Rollouts!StartsWith(v, w)
  PROVE  Rollouts!StartsWith(u, w)
<1>1. /\ Len(v) <= Len(u) /\ Len(u) \in Nat /\ Len(v) \in Nat
      /\ \A k \in 1 .. Len(v) : u[k] = v[k]
  BY StartsShape
<1>2. /\ Len(w) <= Len(v) /\ Len(w) \in Nat
      /\ \A k \in 1 .. Len(w) : v[k] = w[k]
  BY StartsShape
<1>3. Len(w) <= Len(u) /\ \A k \in 1 .. Len(w) : u[k] = w[k]
  BY <1>1, <1>2
<1> QED
  BY <1>3, StartsShape

LEMMA TotalsDiffer ==
  ASSUME NEW fs, NEW us, FilesTyped(fs, us), NEW f \in 1 .. Len(fs), Grown(fs, us, f),
         NEW k \in 1 .. Len(Hist(fs, f)), NEW j \in 1 .. k - 1
  PROVE  Hist(fs, f)[j].total # Hist(fs, f)[k].total
<1>1. Hist(fs, f)[k].total \subseteq Nat
  BY FileShape
<1>2. PICK n \in Hist(fs, f)[k].total : \A m \in Hist(fs, f)[j].total : m < n
  BY DEF Grown
<1>3. n \in Nat /\ ~(n < n)
  BY <1>1
<1> QED
  BY <1>2, <1>3

LEMMA OwnApart ==
  ASSUME NEW fs, NEW us, NEW f, NEW k, NEW l, Len(us) \in Nat, k \in 1 .. l - 1,
         Own(fs, us, f, l)
  PROVE  Rollouts!Delta(Hist(fs, f), k) \cap Rollouts!Delta(Hist(fs, f), l) = {}
<1> DEFINE u == Hist(fs, f)
<1> SUFFICES ASSUME NEW d \in Rollouts!Delta(u, k), d \in Rollouts!Delta(u, l) PROVE FALSE
  OBVIOUS
<1>1. d \in u[k].total
  BY DeltaIsTold
<1>2. d \in 1 .. Len(us) /\ \A m \in u[k].total : m < d
  BY DEF Own, Newer
<1>3. d \in Int /\ d < d
  BY <1>1, <1>2
<1> QED
  BY <1>3

\* A match that ends the parent's totals has all that was replayed of them.
LEMMA MatchCovers ==
  ASSUME NEW u \in Seq(Mention), NEW v \in Seq(Mention), Rollouts!StartsWith(v, u),
         NEW p \in Seq(Mention), NEW q \in Seq(Mention), Rollouts!StartsWith(q, p),
         \A k \in 1 .. Len(q) : \A j \in 1 .. k - 1 : q[j].total # q[k].total,
         NEW m \in Nat, m <= Len(p), m <= Len(v),
         \A j \in 1 .. m : v[j].total = p[Len(p) - m + j].total,
         NEW n \in Nat, n > 0, n <= Len(u), n <= Len(q),
         \A j \in 1 .. n : u[j].total = q[Len(q) - n + j].total
  PROVE  m <= n
<1> SUFFICES ASSUME n < m PROVE FALSE
  OBVIOUS
<1>1. /\ Len(u) \in Nat /\ Len(v) \in Nat /\ Len(u) <= Len(v)
      /\ \A k \in 1 .. Len(u) : v[k] = u[k]
  BY StartsShape
<1>2. /\ Len(p) \in Nat /\ Len(q) \in Nat /\ Len(p) <= Len(q)
      /\ \A k \in 1 .. Len(p) : q[k] = p[k]
  BY StartsShape
<1> DEFINE i == Len(p) - m + n
<1>3. i \in 1 .. Len(p) /\ i \in 1 .. Len(q) - 1 /\ n \in 1 .. m /\ n \in 1 .. n
      /\ n \in 1 .. Len(u)
      /\ Len(q) - n + n = Len(q) /\ Len(q) \in 1 .. Len(q)
  BY <1>2
<1>4. v[n].total = p[i].total
  BY <1>3
<1>5. u[n].total = q[Len(q)].total
  BY <1>3
<1> HIDE DEF i
<1>6. q[i].total = q[Len(q)].total
  BY <1>1, <1>2, <1>3, <1>4, <1>5
<1> QED
  BY <1>3, <1>6

\* A file read to its end has what it told before the scan.
LEMMA ReadHas ==
  ASSUME NEW fs, NEW us, FilesTyped(fs, us), NEW r \in Rollout, NEW before \in Nat, NEW warned,
         ReadOf(fs, r, before, warned), r.complete,
         NEW p \in Seq(Mention), Rollouts!StartsWith(Hist(fs, r.file), p),
         \A k \in 1 .. Len(p) : p[k].time <= before
  PROVE  Rollouts!StartsWith(r.usage, p)
<1> DEFINE u == Hist(fs, r.file)
<1>1. /\ r.file \in 1 .. Len(fs) /\ Rollouts!StartsWith(u, r.usage)
      /\ \A k \in Len(r.usage) + 1 .. Len(u) : u[k].time > before
  BY DEF ReadOf
<1>2. r.usage \in Seq(Mention) /\ u \in Seq(Mention) /\ Rollouts!StartsWith(u, p)
      /\ \A k \in 1 .. Len(u) : u[k].time \in Nat
  BY <1>1, FileShape DEF Rollout
<1> HIDE DEF u
<1>3. /\ Len(u) \in Nat /\ Len(p) \in Nat /\ Len(p) <= Len(u)
      /\ \A k \in 1 .. Len(p) : u[k] = p[k]
  BY <1>2, StartsShape
<1>4. /\ Len(r.usage) \in Nat /\ Len(r.usage) <= Len(u)
      /\ \A k \in 1 .. Len(r.usage) : u[k] = r.usage[k]
  BY <1>1, <1>2, StartsShape
<1>5. Len(p) <= Len(r.usage)
  <2> SUFFICES ASSUME Len(r.usage) < Len(p) PROVE FALSE
    BY <1>3, <1>4
  <2> DEFINE k == Len(r.usage) + 1
  <2>1. k \in 1 .. Len(p) /\ k \in Len(r.usage) + 1 .. Len(u) /\ k \in 1 .. Len(u)
    BY <1>3, <1>4
  <2> HIDE DEF k
  <2>2. u[k].time > before /\ u[k] = p[k] /\ p[k].time <= before /\ u[k].time \in Nat
    BY <1>1, <1>2, <1>3, <2>1
  <2> QED
    BY <2>2
<1>6. \A k \in 1 .. Len(p) : r.usage[k] = p[k]
  BY <1>3, <1>4, <1>5
<1> QED
  BY <1>2, <1>5, <1>6, StartsShape

\* No fork of a fork at one instant; a copy the scan takes for its session has
\* what the session had before the window.
NoInstant(fs) ==
  \A f, g \in 1 .. Len(fs) :
    ~(/\ fs[f].parent # 0 /\ fs[g].session = fs[f].parent
      /\ fs[g].parent # 0 /\ fs[g].started = fs[f].started)
UpToDate(fs, since) ==
  \A f, g \in 1 .. Len(fs) :
    f # g /\ fs[f].session = fs[g].session /\ fs[f].mod >= since =>
      Rollouts!StartsWith(Hist(fs, f), Rollouts!Before(Hist(fs, g), since))
Copies(fs) == \E f, g \in 1 .. Len(fs) : f # g /\ fs[f].session = fs[g].session

\* A scan that is done reading.
Done(fs, us, sc, N) ==
  /\ FilesInv(fs, us) /\ sc \in Reading /\ sc.since \in 1 .. sc.before + 1
  /\ sc.before <= Len(us) /\ sc.queue = {}
  /\ N \in 0 .. Len(fs) /\ Seen(fs, us, sc, N)
Warns(sc) == sc.warned \/ \E i \in DOMAIN sc.got : Rollouts!Refused(sc.got, i)

LEMMA DoneShape ==
  ASSUME NEW fs, NEW us, NEW sc, NEW N, Done(fs, us, sc, N)
  PROVE  /\ FilesTyped(fs, us) /\ sc.got \in Seq(Rollout) /\ sc.before \in Nat /\ sc.since \in Nat
         /\ DOMAIN sc.got = 1 .. Len(sc.got) /\ Len(sc.got) \in Nat /\ N \in Nat /\ N <= Len(fs)
         /\ \A i \in 1 .. Len(sc.got) :
              /\ ReadOf(fs, sc.got[i], sc.before, sc.warned) /\ sc.got[i] \in Rollout
              /\ sc.got[i].file \in 1 .. Len(fs) /\ InScan(sc, sc.got[i].file)
              /\ sc.got[i].usage \in Seq(Mention)
         /\ \A f : InScan(sc, f) <=> \E i \in 1 .. Len(sc.got) : sc.got[i].file = f
         /\ \A f \in 1 .. Len(fs) : Grown(fs, us, f) /\ Shaped(fs, us, f) /\ Origin(fs, us, f)
<1>1. FilesTyped(fs, us)
      /\ \A f \in 1 .. Len(fs) : Grown(fs, us, f) /\ Shaped(fs, us, f) /\ Origin(fs, us, f)
  BY DEF Done, FilesInv
<1>2. /\ sc \in Reading /\ sc.got \in Seq(Rollout) /\ sc.before \in Nat /\ sc.since \in Nat
      /\ DOMAIN sc.got = 1 .. Len(sc.got) /\ Len(sc.got) \in Nat
      /\ \A i \in 1 .. Len(sc.got) : sc.got[i] \in Rollout /\ sc.got[i].usage \in Seq(Mention)
  BY ReadingShape DEF Done
<1>3. \A i \in 1 .. Len(sc.got) : ReadOf(fs, sc.got[i], sc.before, sc.warned)
  BY DEF Done, Seen
<1>4. \A i \in 1 .. Len(sc.got) : sc.got[i].file \in 1 .. Len(fs)
  BY <1>3 DEF ReadOf
<1>5. \A f : InScan(sc, f) <=> \E i \in 1 .. Len(sc.got) : sc.got[i].file = f
  BY DEF InScan, Done
<1>6. N \in Nat /\ N <= Len(fs)
  BY <1>1, KeptShape DEF Done
<1> QED
  BY <1>1, <1>2, <1>3, <1>4, <1>5, <1>6

-----------------------------------------------------------------------------
(* A rollout that is counted has its parent's.                             *)

\* What is read of a rollout before a time: totals that differ, of its session
\* and of those it descends from.
Apart(us, r, p) ==
  /\ p \in Seq(Mention) /\ Rollouts!StartsWith(r.usage, p)
  /\ \A k \in 1 .. Len(p) : \A j \in 1 .. k - 1 : p[j].total # p[k].total
  /\ \A k \in 1 .. Len(p) : \A m \in p[k].total : us[m] <= r.session

LEMMA ReadTotals ==
  ASSUME NEW fs, NEW us, FilesTyped(fs, us), NEW r \in Rollout, NEW before, NEW warned,
         ReadOf(fs, r, before, warned), NEW f, f = r.file, Grown(fs, us, f), NEW t \in Nat,
         NEW p, p = Rollouts!Before(r.usage, t)
  PROVE  Apart(us, r, p)
<1> DEFINE u == Hist(fs, f)
<1>1. r.usage \in Seq(Mention) /\ f \in 1 .. Len(fs)
  BY DEF ReadOf, Rollout
<1>2. u \in Seq(Mention) /\ Rollouts!StartsWith(u, r.usage) /\ r.session = fs[f].session
  BY <1>1, FileShape DEF ReadOf
<1>3. PICK n : Cut(r.usage, t, n)
  BY <1>1, CutExists
<1>4. p \in Seq(Mention) /\ n \in Nat /\ Len(p) = n /\ \A k \in 1 .. n : p[k] = r.usage[k]
  BY <1>1, <1>3, CutIsBefore
<1>5. Len(p) <= Len(r.usage)
  BY <1>1, <1>3, <1>4, Cuts DEF Cut
<1>6. Rollouts!StartsWith(r.usage, p)
  <2>1. \A k \in 1 .. Len(p) : r.usage[k] = p[k]
    BY <1>4
  <2> QED
    BY <1>1, <1>4, <1>5, <2>1, StartsShape
<1>7. Rollouts!StartsWith(u, p)
  BY <1>1, <1>2, <1>4, <1>6, StartsTransitive
<1>8. Len(p) <= Len(u) /\ Len(u) \in Nat /\ \A k \in 1 .. Len(p) : u[k] = p[k]
  <2> HIDE DEF u
  <2> QED
    BY <1>2, <1>4, <1>7, StartsShape
<1>9. ASSUME NEW k \in 1 .. Len(p), NEW j \in 1 .. k - 1 PROVE p[j].total # p[k].total
  <2>1. k \in 1 .. Len(u) /\ j \in 1 .. Len(p)
    <3> HIDE DEF u
    <3> QED
      BY <1>4, <1>8
  <2>2. u[j].total # u[k].total
    BY <1>1, <2>1, TotalsDiffer
  <2> HIDE DEF u
  <2> QED
    BY <1>8, <2>1, <2>2
<1>10. ASSUME NEW k \in 1 .. Len(p), NEW m \in p[k].total PROVE us[m] <= r.session
  <2>1. k \in 1 .. Len(u) /\ m \in u[k].total
    <3> HIDE DEF u
    <3> QED
      BY <1>4, <1>8
  <2>2. us[m] <= fs[f].session
    BY <1>1, <2>1 DEF Grown
  <2> QED
    BY <1>2, <2>2
<1> QED
  BY <1>4, <1>6, <1>9, <1>10 DEF Apart

\* A rollout that is counted has its parent's, which has what was forked.
LEMMA ParentHas ==
  ASSUME NEW fs, NEW us, NEW sc, NEW N, Done(fs, us, sc, N),
         UpToDate(fs, sc.since), Copies(fs) => ~Warns(sc),
         NEW i \in 1 .. Len(sc.got), i \in Rollouts!Accepted(sc.got), sc.got[i].parent # 0,
         NEW g \in 1 .. Len(fs), Forked(fs, us, sc.got[i].file, g)
  PROVE  \E c \in 1 .. Len(sc.got) :
           /\ sc.got[c].session = sc.got[i].parent
           /\ Rollouts!ParentUsage(sc.got, sc.got[i]) = Rollouts!Before(sc.got[c].usage, sc.got[i].started)
           /\ Rollouts!StartsWith(sc.got[c].usage, Rollouts!Before(Hist(fs, g), sc.got[i].started))
<1> DEFINE got == sc.got
           r == got[i]
           f == r.file
           t == r.started
           u == Hist(fs, g)
           p == Rollouts!Before(u, t)
           c == CHOOSE k \in Rollouts!Canonical(got, r.parent) : TRUE
           fc == got[c].file
<1>1. /\ FilesTyped(fs, us) /\ got \in Seq(Rollout) /\ DOMAIN got = 1 .. Len(got)
      /\ sc.before \in Nat /\ sc.since \in Nat /\ f \in 1 .. Len(fs) /\ N \in Nat /\ N <= Len(fs)
      /\ Shaped(fs, us, f) /\ ReadOf(fs, r, sc.before, sc.warned) /\ InScan(sc, f)
  BY DoneShape
<1>2. r.session = fs[f].session /\ r.parent = fs[f].parent /\ r.started = fs[f].started
  BY <1>1 DEF ReadOf
<1>3. t \in Nat /\ u \in Seq(Mention) /\ g \in Nat /\ \A k \in 1 .. Len(u) : u[k].time \in Nat
  BY <1>1, <1>2, FileShape
<1>4. ~Rollouts!Refused(got, i) /\ i \in Rollouts!Canonical(got, r.session)
  BY DEF Rollouts!Accepted
<1>5. Rollouts!ParentKnown(got, r)
  BY <1>4 DEF Rollouts!Refused, Rollouts!NoSession
<1>6. c \in Rollouts!Canonical(got, r.parent)
  BY <1>5 DEF Rollouts!ParentKnown
<1>7. /\ c \in 1 .. Len(got) /\ got[c].session = r.parent /\ got[c].valid /\ got[c].complete
      /\ ~Rollouts!Ambiguous(got, r.parent)
  BY <1>1, <1>5, <1>6 DEF Rollouts!ParentKnown, Rollouts!ParentOf, Rollouts!Canonical
<1>8. Rollouts!ParentUsage(got, r) = Rollouts!Before(got[c].usage, t)
  BY DEF Rollouts!ParentUsage, Rollouts!ParentOf
<1> HIDE DEF c
<1>9. /\ fc \in 1 .. Len(fs) /\ got[c] \in Rollout /\ got[c].usage \in Seq(Mention)
      /\ ReadOf(fs, got[c], sc.before, sc.warned) /\ InScan(sc, fc)
  <2>1. \A k \in 1 .. Len(got) :
          /\ got[k].file \in 1 .. Len(fs) /\ got[k] \in Rollout /\ got[k].usage \in Seq(Mention)
          /\ ReadOf(fs, got[k], sc.before, sc.warned) /\ InScan(sc, got[k].file)
    BY DoneShape
  <2> QED
    BY <1>7, <2>1
<1>10. /\ fs[g].session = r.parent /\ fs[fc].session = r.parent
       /\ \A h \in 1 .. Len(fs) : fs[h].session = fs[f].session => g < h
  BY <1>2, <1>7, <1>9 DEF Forked, ReadOf
<1>11. PICK h \in 1 .. N : fs[h].session = fs[f].session
  BY <1>1 DEF Done, Seen
<1>12. g \in 1 .. N
  <2>1. h \in 1 .. Len(fs) /\ h \in Nat
    BY <1>1
  <2>2. g < h
    BY <1>10, <1>11, <2>1
  <2> QED
    BY <1>1, <1>3, <2>1, <2>2
<1>13. t <= sc.before + 1
  <2>1. h \in 1 .. Len(fs)
    <3>1. Len(fs) \in Nat
      BY <1>1, KeptShape
    <3> QED
      BY <1>1, <3>1
  <2>2. fs[h].started = fs[f].started
    BY <1>1, <1>11, <2>1 DEF Done, FilesInv, OneOrigin
  <2>3. fs[h].started <= sc.before + 1
    BY DEF Done, Seen
  <2> QED
    BY <1>2, <2>2, <2>3
<1>14. PICK n : Cut(u, t, n)
  BY <1>3, CutExists
<1>15. /\ p \in Seq(Mention) /\ n \in Nat /\ Len(p) = n /\ n <= Len(u) /\ Len(u) \in Nat
       /\ \A k \in 1 .. n : p[k] = u[k] /\ u[k].time < t
  <2>1. p \in Seq(Mention) /\ n \in Nat /\ Len(p) = n /\ \A k \in 1 .. n : p[k] = u[k]
    BY <1>3, <1>14, CutIsBefore
  <2>2. Len(u) \in Nat
    BY <1>3, Cuts
  <2>3. n <= Len(u) /\ \A k \in 1 .. n : u[k].time < t
    BY <1>14, <2>1, <2>2 DEF Cut
  <2> QED
    BY <2>1, <2>2, <2>3
<1> HIDE DEF u, p
<1>16. Rollouts!StartsWith(u, p)
  BY <1>3, <1>15, StartsShape
<1>17. \A k \in 1 .. Len(p) : p[k].time <= sc.before
  <2> SUFFICES ASSUME NEW k \in 1 .. n PROVE p[k].time <= sc.before
    BY <1>15
  <2>1. p[k] = u[k] /\ u[k].time < t /\ k \in 1 .. Len(u)
    BY <1>15
  <2>2. u[k].time \in Nat
    BY <1>3, <2>1
  <2> HIDE DEF t
  <2> QED
    BY <1>1, <1>3, <1>13, <2>1, <2>2
\* The parent's rollout is the file forked, or another that has as much.
<1>18. CASE fc = g
  <2>1. Rollouts!StartsWith(got[c].usage, p)
    BY <1>1, <1>7, <1>9, <1>15, <1>16, <1>17, <1>18, ReadHas DEF u
  <2> QED
    BY <1>7, <1>8, <2>1 DEF u, p
<1>19. CASE fc # g
  <2>1. ~sc.warned /\ \A j \in 1 .. Len(got) : ~Rollouts!Refused(got, j)
    <3>1. Copies(fs)
      BY <1>9, <1>10, <1>19 DEF Copies
    <3> QED
      BY <1>1, <3>1 DEF Warns
  <2>2. CASE \E j \in 1 .. Len(got) : got[j].file = g
    <3>1. PICK j \in 1 .. Len(got) : got[j].file = g
      BY <2>2
    <3>2. /\ ReadOf(fs, got[j], sc.before, sc.warned) /\ got[j] \in Rollout
          /\ got[j].usage \in Seq(Mention)
      BY DoneShape
    <3>3. got[j].complete /\ got[j].session = r.parent
      BY <1>10, <2>1, <3>1, <3>2 DEF ReadOf
    <3>4. Rollouts!StartsWith(got[j].usage, p)
      BY <1>1, <1>15, <1>16, <1>17, <3>1, <3>2, <3>3, ReadHas DEF u
    <3>5. Rollouts!StartsWith(got[c].usage, got[j].usage)
      <4>1. CASE got[j].valid
        BY <1>1, <1>6, <1>7, <3>3, <4>1 DEF Rollouts!Ambiguous
      <4>2. CASE ~got[j].valid
        <5>1. got[j].usage = <<>>
          BY <2>1, <4>2 DEF Rollouts!Refused, Rollouts!Malformed
        <5>2. Len(got[j].usage) = 0 /\ Len(got[c].usage) \in Nat
          BY <1>9, <5>1
        <5>3. Len(got[j].usage) <= Len(got[c].usage) /\ \A k \in 1 .. Len(got[j].usage) : FALSE
          BY <5>2
        <5> QED
          BY <1>9, <3>2, <5>3, StartsShape
      <4> QED
        BY <4>1, <4>2
    <3>6. Rollouts!StartsWith(got[c].usage, p)
      BY <1>9, <1>15, <3>2, <3>4, <3>5, StartsTransitive
    <3> QED
      BY <1>7, <1>8, <3>6 DEF u, p
  <2>3. CASE \A j \in 1 .. Len(got) : got[j].file # g
    <3>1. ~InScan(sc, g)
      BY <2>3 DEF InScan, Done
    <3>2. fs[fc].mod >= sc.since
      BY <1>9, <1>10, <1>12, <2>1, <3>1 DEF Done, Seen
    <3>3. Rollouts!StartsWith(Hist(fs, fc), Rollouts!Before(u, sc.since))
      BY <1>9, <1>10, <1>19, <3>2 DEF UpToDate, u
    <3>4. \A k \in 1 .. Len(u) : u[k].time \notin sc.since .. sc.before
      <4>1. Outside(fs, g, sc.since, sc.before)
        BY <1>12, <2>1, <3>1 DEF Done, Seen
      <4> QED
        BY <4>1 DEF Outside, u
    <3> DEFINE b == Rollouts!Before(u, sc.since)
    <3>5. PICK m : Cut(u, sc.since, m)
      BY <1>1, <1>3, CutExists
    <3>6. b \in Seq(Mention) /\ m \in Nat /\ Len(b) = m /\ \A k \in 1 .. m : b[k] = u[k]
      BY <1>1, <1>3, <3>5, CutIsBefore
    <3> HIDE DEF b
    <3>7. n <= m
      <4> SUFFICES ASSUME m < n PROVE FALSE
        BY <1>15, <3>6
      <4>1. m + 1 \in 1 .. n /\ m + 1 \in 1 .. Len(u) /\ m < Len(u)
        BY <1>15, <3>6
      <4>2. ~(u[m + 1].time < sc.since)
        BY <3>5, <4>1 DEF Cut
      <4>3. u[m + 1].time <= sc.before /\ u[m + 1].time \in Nat
        BY <1>3, <1>15, <1>17, <4>1
      <4>4. u[m + 1].time \in sc.since .. sc.before
        BY <1>1, <4>2, <4>3
      <4> QED
        BY <3>4, <4>1, <4>4
    <3>8. Rollouts!StartsWith(b, p)
      <4>1. \A k \in 1 .. Len(p) : b[k] = p[k]
        BY <1>15, <3>6, <3>7
      <4> QED
        BY <1>15, <3>6, <3>7, <4>1, StartsShape
    <3>9. Hist(fs, fc) \in Seq(Mention)
      BY <1>1, <1>9, FileShape
    <3>10. Rollouts!StartsWith(Hist(fs, fc), p)
      BY <1>15, <3>3, <3>6, <3>8, <3>9, StartsTransitive DEF b
    <3>11. Rollouts!StartsWith(got[c].usage, p)
      BY <1>1, <1>7, <1>9, <1>15, <1>17, <3>10, ReadHas
    <3> QED
      BY <1>7, <1>8, <3>11 DEF u, p
  <2> QED
    BY <2>2, <2>3
<1> QED
  BY <1>18, <1>19

-----------------------------------------------------------------------------
(* What is counted is new, and all that is new is counted.                 *)

\* What is left after the replayed records is the session's own.
LEMMA SkipCovers ==
  ASSUME NEW fs, NEW us, NEW sc, NEW N, Done(fs, us, sc, N),
         NoInstant(fs), UpToDate(fs, sc.since), Copies(fs) => ~Warns(sc),
         NEW i \in 1 .. Len(sc.got), i \in Rollouts!Accepted(sc.got),
         NEW k \in 1 .. Len(sc.got[i].usage), k > Rollouts!Skip(sc.got, sc.got[i])
  PROVE  Own(fs, us, sc.got[i].file, k)
<1> DEFINE got == sc.got
           r == got[i]
           f == r.file
           t == r.started
           v == Hist(fs, f)
<1>1. /\ FilesTyped(fs, us) /\ f \in 1 .. Len(fs) /\ r.usage \in Seq(Mention)
      /\ ReadOf(fs, r, sc.before, sc.warned) /\ Origin(fs, us, f)
  BY DoneShape
<1>2. /\ r.session = fs[f].session /\ r.parent = fs[f].parent /\ r.started = fs[f].started
      /\ Rollouts!StartsWith(v, r.usage) /\ v \in Seq(Mention) /\ t \in Nat
  BY <1>1, FileShape DEF ReadOf
<1>3. /\ Len(v) \in Nat /\ Len(r.usage) \in Nat /\ Len(r.usage) <= Len(v)
      /\ \A j \in 1 .. Len(r.usage) : v[j] = r.usage[j]
  BY <1>1, <1>2, StartsShape
<1>4. k \in 1 .. Len(v) /\ k \in Nat
  BY <1>3
<1>5. CASE r.parent = 0
  BY <1>1, <1>2, <1>4, <1>5 DEF Origin
<1>6. CASE r.parent # 0
  <2>1. PICK g \in 1 .. Len(fs) : Forked(fs, us, f, g)
    BY <1>1, <1>2, <1>6 DEF Origin
  <2> DEFINE p == Rollouts!Before(Hist(fs, g), t)
             q == Rollouts!ParentUsage(got, r)
             n == Rollouts!Inherited(r.usage, q)
  <2>2. PICK m \in 0 .. Len(v) : Replayed(fs, us, f, g, m)
    BY <1>1, <1>2, <1>6, <2>1 DEF Forked, NoInstant
  <2>3. /\ m <= Len(p) /\ m \in Nat /\ m <= Len(v)
        /\ \A j \in 1 .. m : v[j].total = p[Len(p) - m + j].total
        /\ \A j \in m + 1 .. Len(v) : Own(fs, us, f, j)
    <3>1. p = Rollouts!Before(Hist(fs, g), fs[f].started)
      BY <1>2
    <3> HIDE DEF p
    <3>2. /\ m <= Len(p) /\ \A j \in 1 .. m : v[j].total = p[Len(p) - m + j].total
          /\ \A j \in m + 1 .. Len(v) : Own(fs, us, f, j)
      BY <2>2, <3>1 DEF Replayed
    <3> QED
      BY <1>3, <2>2, <3>2
  <2>4. PICK c \in 1 .. Len(got) :
          /\ q = Rollouts!Before(got[c].usage, t)
          /\ Rollouts!StartsWith(got[c].usage, p)
    BY <1>6, <2>1, ParentHas
  <2>5. p \in Seq(Mention)
    <3>1. Hist(fs, g) \in Seq(Mention)
      BY <1>1, FileShape
    <3> QED
      BY <1>2, <3>1, CutExists, CutIsBefore
  <2>6. /\ q \in Seq(Mention)
        /\ \A x \in 1 .. Len(q) : \A j \in 1 .. x - 1 : q[j].total # q[x].total
    <3> DEFINE x == got[c]
               y == x.file
    <3>1. /\ FilesTyped(fs, us) /\ x \in Rollout /\ ReadOf(fs, x, sc.before, sc.warned)
          /\ Grown(fs, us, y)
      BY DoneShape
    <3>2. q = Rollouts!Before(x.usage, t) /\ y = x.file
      BY <2>4
    <3> HIDE DEF x, y, q
    <3>3. Apart(us, x, q)
      BY <1>2, <3>1, <3>2, ReadTotals
    <3> QED
      BY <3>3 DEF Apart
  <2>7. Rollouts!StartsWith(q, p)
    <3>1. Hist(fs, g) \in Seq(Mention) /\ got[c].usage \in Seq(Mention)
      BY <1>1, FileShape, DoneShape
    <3> QED
      BY <1>2, <2>4, <3>1, BeforeStarts
  <2>8. /\ n \in Nat /\ n <= Len(r.usage) /\ n <= Len(q)
        /\ \A j \in 1 .. n : r.usage[j].total = q[Len(q) - n + j].total
    BY <1>1, <2>6, InheritedShape
  <2>9. n = Rollouts!Skip(got, r)
    BY <1>6 DEF Rollouts!Skip, Rollouts!NoSession
  <2>10. ~Rollouts!Foreign(got, r)
    BY <1>6 DEF Rollouts!Accepted, Rollouts!Refused, Rollouts!NoSession
  <2>11. q = <<>> \/ n # 0
    <3>1. r.usage # <<>>
      <4>1. Len(r.usage) # 0
        BY <1>3
      <4> QED
        BY <4>1
    <3> QED
      BY <2>10, <3>1 DEF Rollouts!Foreign
  <2> HIDE DEF p, q, n, v
  <2>12. m <= n
    <3>1. CASE n = 0
      <4>1. Len(q) = 0
        BY <2>11, <3>1
      <4>2. Len(p) <= Len(q) /\ Len(p) \in Nat
        BY <2>5, <2>6, <2>7, StartsShape
      <4> QED
        BY <2>3, <3>1, <4>1, <4>2
    <3>2. CASE n # 0
      <4>1. n > 0
        BY <2>8, <3>2
      <4> QED
        BY <1>1, <1>2, <2>3, <2>5, <2>6, <2>7, <2>8, <4>1, MatchCovers
    <3> QED
      BY <3>1, <3>2
  <2>13. k \in m + 1 .. Len(v)
    BY <1>4, <2>3, <2>8, <2>9, <2>12
  <2> QED
    BY <2>3, <2>13
<1> QED
  BY <1>5, <1>6

\* What was read of a part is what its file tells with it.
LEMMA ReadAdds ==
  ASSUME NEW fs, NEW us, FilesTyped(fs, us), NEW r \in Rollout, NEW before, NEW warned,
         ReadOf(fs, r, before, warned), NEW k \in 1 .. Len(r.usage), NEW f, f = r.file
  PROVE  /\ k \in 1 .. Len(Hist(fs, f)) /\ r.usage[k] = Hist(fs, f)[k]
         /\ Rollouts!Delta(r.usage, k) = Rollouts!Delta(Hist(fs, f), k)
         /\ Rollouts!Whole(r.usage, k) <=> Rollouts!Whole(Hist(fs, f), k)
<1> DEFINE v == Hist(fs, f)
<1>1. f \in 1 .. Len(fs) /\ r.usage \in Seq(Mention)
  BY DEF ReadOf, Rollout
<1>2. Rollouts!StartsWith(v, r.usage) /\ v \in Seq(Mention)
  BY <1>1, FileShape DEF ReadOf
<1> HIDE DEF v
<1>3. v[k] = r.usage[k] /\ k \in 1 .. Len(v)
  BY <1>1, <1>2, StartsShape
<1>4. /\ Rollouts!Delta(v, k) = Rollouts!Delta(r.usage, k)
      /\ Rollouts!Whole(v, k) <=> Rollouts!Whole(r.usage, k)
  BY <1>1, <1>2, DeltaStays
<1> QED
  BY <1>3, <1>4 DEF v

InReport(sc) == UNION {Rollouts!Events(sc.got, i, sc.since) : i \in Rollouts!Accepted(sc.got)}

\* The event of a part of a rollout.
Told1(sc, i, k) ==
  [rollout |-> i, record |-> k, uses |-> Rollouts!Delta(sc.got[i].usage, k),
   whole |-> Rollouts!Whole(sc.got[i].usage, k)]

LEMMA EventShape ==
  ASSUME NEW fs, NEW us, NEW sc, NEW N, Done(fs, us, sc, N), NEW e \in InReport(sc)
  PROVE  \E i \in 1 .. Len(sc.got) : \E k \in 1 .. Len(sc.got[i].usage) :
           /\ i \in Rollouts!Accepted(sc.got)
           /\ k > Rollouts!Skip(sc.got, sc.got[i]) /\ sc.got[i].usage[k].time >= sc.since
           /\ e = Told1(sc, i, k)
<1>1. PICK i \in Rollouts!Accepted(sc.got) : e \in Rollouts!Events(sc.got, i, sc.since)
  BY DEF InReport
<1>2. i \in 1 .. Len(sc.got)
  BY <1>1, DoneShape DEF Rollouts!Accepted
<1>3. DOMAIN sc.got[i].usage = 1 .. Len(sc.got[i].usage)
  <2>1. sc.got[i].usage \in Seq(Mention)
    BY <1>2, DoneShape
  <2> QED
    BY <2>1
<1>4. PICK k \in DOMAIN sc.got[i].usage :
        /\ k > Rollouts!Skip(sc.got, sc.got[i]) /\ sc.got[i].usage[k].time >= sc.since
        /\ e = Told1(sc, i, k)
  BY <1>1 DEF Rollouts!Events, Told1
<1> QED
  BY <1>1, <1>2, <1>3, <1>4

LEMMA CountedOnce ==
  ASSUME NEW fs, NEW us, NEW sc, NEW N, Done(fs, us, sc, N),
         NoInstant(fs), UpToDate(fs, sc.since), Copies(fs) => ~Warns(sc)
  PROVE  /\ \A e \in InReport(sc) : \A d \in e.uses :
              d \in sc.since .. Len(us) \/ \E f \in 1 .. Len(fs) : d \in fs[f].lost
         /\ \A d, e \in InReport(sc) : d # e => d.uses \cap e.uses = {}
<1> DEFINE From(i) == sc.got[i].file
           Adds(i, k) == Rollouts!Delta(Hist(fs, From(i)), k)
           Of(x, i, k) == /\ i \in Rollouts!Accepted(sc.got) /\ From(i) \in 1 .. Len(fs)
                          /\ fs[From(i)].session = sc.got[i].session
                          /\ Own(fs, us, From(i), k) /\ Hist(fs, From(i))[k].time >= sc.since
                          /\ x = Told1(sc, i, k) /\ x.uses = Adds(i, k)
<1>1. ASSUME NEW e \in InReport(sc)
      PROVE  \E i \in 1 .. Len(sc.got) : \E k \in 1 .. Len(sc.got[i].usage) : Of(e, i, k)
  <2>1. PICK i \in 1 .. Len(sc.got) : \E k \in 1 .. Len(sc.got[i].usage) :
           /\ i \in Rollouts!Accepted(sc.got)
           /\ k > Rollouts!Skip(sc.got, sc.got[i]) /\ sc.got[i].usage[k].time >= sc.since
           /\ e = Told1(sc, i, k)
    BY EventShape
  <2>2. PICK k \in 1 .. Len(sc.got[i].usage) :
           /\ i \in Rollouts!Accepted(sc.got)
           /\ k > Rollouts!Skip(sc.got, sc.got[i]) /\ sc.got[i].usage[k].time >= sc.since
           /\ e = Told1(sc, i, k)
    BY <2>1
  <2>3. Own(fs, us, From(i), k)
    BY <2>2, SkipCovers
  <2>4. /\ FilesTyped(fs, us) /\ sc.got[i] \in Rollout
        /\ ReadOf(fs, sc.got[i], sc.before, sc.warned)
    BY DoneShape
  <2>5. sc.got[i].usage[k] = Hist(fs, From(i))[k]
        /\ Rollouts!Delta(sc.got[i].usage, k) = Adds(i, k)
    <3> DEFINE r == sc.got[i]
               f == r.file
    <3>1. FilesTyped(fs, us) /\ r \in Rollout /\ ReadOf(fs, r, sc.before, sc.warned)
          /\ k \in 1 .. Len(r.usage) /\ f = r.file
      BY <2>4
    <3> HIDE DEF r, f
    <3>2. r.usage[k] = Hist(fs, f)[k] /\ Rollouts!Delta(r.usage, k) = Rollouts!Delta(Hist(fs, f), k)
      BY <3>1, ReadAdds
    <3> QED
      BY <3>2 DEF r, f
  <2>6. From(i) \in 1 .. Len(fs) /\ fs[From(i)].session = sc.got[i].session
    BY <2>4 DEF ReadOf
  <2>7. e.uses = Rollouts!Delta(sc.got[i].usage, k)
    BY <2>2 DEF Told1
  <2> QED
    BY <2>2, <2>3, <2>5, <2>6, <2>7
<1>2. sc.since \in Nat /\ Len(us) \in Nat /\ sc.got \in Seq(Rollout) /\ FilesTyped(fs, us)
  BY DoneShape, KeptShape
<1> HIDE DEF Adds
<1>3. ASSUME NEW e \in InReport(sc), NEW d \in e.uses
      PROVE  d \in sc.since .. Len(us) \/ \E f \in 1 .. Len(fs) : d \in fs[f].lost
  <2>1. PICK i \in 1 .. Len(sc.got) : \E k \in 1 .. Len(sc.got[i].usage) : Of(e, i, k)
    BY <1>1
  <2>2. PICK k \in 1 .. Len(sc.got[i].usage) : Of(e, i, k)
    BY <2>1
  <2>3. d \in 1 .. Len(us) /\ (d = Hist(fs, From(i))[k].time \/ d \in fs[From(i)].lost)
    BY <2>2 DEF Own, Newer, Adds
  <2>4. CASE d = Hist(fs, From(i))[k].time
    <3>1. d >= sc.since
      BY <2>2, <2>4
    <3> QED
      BY <1>2, <2>3, <3>1
  <2>5. CASE d \in fs[From(i)].lost
    BY <2>2, <2>5
  <2> QED
    BY <2>3, <2>4, <2>5
<1>4. ASSUME NEW d \in InReport(sc), NEW e \in InReport(sc), d # e, NEW n \in d.uses, n \in e.uses
      PROVE  FALSE
  <2>1. PICK i \in 1 .. Len(sc.got) : \E k \in 1 .. Len(sc.got[i].usage) : Of(d, i, k)
    BY <1>1
  <2>2. PICK k \in 1 .. Len(sc.got[i].usage) : Of(d, i, k)
    BY <2>1
  <2>3. PICK j \in 1 .. Len(sc.got) : \E l \in 1 .. Len(sc.got[j].usage) : Of(e, j, l)
    BY <1>1
  <2>4. PICK l \in 1 .. Len(sc.got[j].usage) : Of(e, j, l)
    BY <2>3
  <2>5. n \in Adds(i, k) /\ n \in Adds(j, l)
    BY <1>4, <2>2, <2>4
  <2>6. us[n] = sc.got[i].session /\ us[n] = sc.got[j].session
    <3>1. us[n] = fs[From(i)].session
      BY <2>2, <2>5 DEF Own, Newer, Adds
    <3>2. us[n] = fs[From(j)].session
      BY <2>4, <2>5 DEF Own, Newer, Adds
    <3> QED
      BY <2>2, <2>4, <3>1, <3>2
  <2>7. i = j
    <3>1. i \in Rollouts!Canonical(sc.got, sc.got[i].session)
          /\ j \in Rollouts!Canonical(sc.got, sc.got[j].session)
      BY <2>2, <2>4 DEF Rollouts!Accepted
    <3> QED
      BY <1>2, <2>6, <3>1, CanonicalIsOne
  <2>8. k # l
    BY <1>4, <2>2, <2>4, <2>7
  <2>9. Len(sc.got[i].usage) \in Nat
    <3>1. sc.got[i].usage \in Seq(Mention)
      BY DoneShape
    <3> QED
      BY <3>1
  <2>10. k \in 1 .. l - 1 \/ l \in 1 .. k - 1
    BY <2>7, <2>8, <2>9
  <2>11. CASE k \in 1 .. l - 1
    <3>1. Own(fs, us, From(i), l)
      BY <2>4, <2>7
    <3> HIDE DEF From
    <3> QED
      BY <1>2, <2>5, <2>7, <2>11, <3>1, OwnApart DEF Adds
  <2>12. CASE l \in 1 .. k - 1
    <3>1. Own(fs, us, From(i), k)
      BY <2>2
    <3> HIDE DEF From
    <3> QED
      BY <1>2, <2>5, <2>7, <2>12, <3>1, OwnApart DEF Adds
  <2> QED
    BY <2>10, <2>11, <2>12
<1> QED
  BY <1>3, <1>4

\* The code's two silences.
Quiet(fs, before, n) ==
  \E f \in 1 .. Len(fs) :
    LostNow(fs, f, n) /\ \A k \in 1 .. Len(Hist(fs, f)) : Hist(fs, f)[k].time > before
Passed(fs, n) ==
  \E f \in 1 .. Len(fs) : \E k \in 1 .. Len(Hist(fs, f)) :
    n \in Rollouts!Delta(Hist(fs, f), k) /\ ~Rollouts!Whole(Hist(fs, f), k)

\* A use is lost in silence only in a file that had told nothing.
LEMMA LostInSilence ==
  ASSUME NEW fs, NEW us, NEW sc, NEW N, Done(fs, us, sc, N), ~Warns(sc),
         NEW n \in sc.since .. sc.before, NEW h \in 1 .. N, LostNow(fs, h, n)
  PROVE  Quiet(fs, sc.before, n)
<1>1. /\ FilesTyped(fs, us) /\ DOMAIN sc.got = 1 .. Len(sc.got) /\ N \in Nat /\ N <= Len(fs)
      /\ Len(fs) \in Nat
  BY DoneShape, KeptShape
<1>2. /\ ~sc.warned /\ \A i \in 1 .. Len(sc.got) : ~Rollouts!Refused(sc.got, i)
  BY <1>1 DEF Warns
<1>3. h \in 1 .. Len(fs)
  BY <1>1
<1>4. PICK j \in 1 .. Len(sc.got) : sc.got[j].file = h
  <2>1. InScan(sc, h)
    BY <1>2 DEF Done, Seen, Outside, LostNow
  <2> QED
    BY <2>1 DEF InScan, Done
<1>5. /\ ReadOf(fs, sc.got[j], sc.before, sc.warned) /\ sc.got[j].usage \in Seq(Mention)
      /\ Len(Hist(fs, h)) \in Nat
  BY <1>1, <1>3, DoneShape, FileShape
<1>6. ~sc.got[j].valid
      /\ \A k \in Len(sc.got[j].usage) + 1 .. Len(Hist(fs, h)) : Hist(fs, h)[k].time > sc.before
  BY <1>2, <1>4, <1>5 DEF ReadOf, LostNow
<1>7. Len(sc.got[j].usage) = 0
  <2>1. sc.got[j].usage = <<>>
    BY <1>2, <1>6 DEF Rollouts!Refused, Rollouts!Malformed
  <2> QED
    BY <2>1
<1>8. \A k \in 1 .. Len(Hist(fs, h)) : Hist(fs, h)[k].time > sc.before
  BY <1>6, <1>7
<1> QED
  BY <1>3, <1>8 DEF Quiet

LEMMA NothingLost ==
  ASSUME NEW fs, NEW us, NEW sc, NEW N, Done(fs, us, sc, N), ~Warns(sc),
         NEW n \in sc.since .. sc.before
  PROVE  \/ Quiet(fs, sc.before, n)
         \/ \E e \in InReport(sc) : n \in e.uses /\ (e.whole \/ Passed(fs, n))
<1> SUFFICES ASSUME ~Quiet(fs, sc.before, n)
             PROVE  \E e \in InReport(sc) : n \in e.uses /\ (e.whole \/ Passed(fs, n))
  OBVIOUS
<1> DEFINE got == sc.got
<1>1. /\ FilesTyped(fs, us) /\ got \in Seq(Rollout) /\ sc.before \in Nat /\ sc.since \in Nat
      /\ DOMAIN got = 1 .. Len(got) /\ N \in Nat /\ N <= Len(fs) /\ Len(us) \in Nat
  BY DoneShape, KeptShape
<1>2. /\ ~sc.warned /\ \A i \in 1 .. Len(got) : ~Rollouts!Refused(got, i)
  BY <1>1 DEF Warns
<1>3. n \in 1 .. sc.before /\ n \in Nat
  <2>1. sc.since >= 1
    BY <1>1 DEF Done
  <2> QED
    BY <1>1, <2>1
\* A file of the session has told the use, was read, and stands for the session.
<1>4. PICK h \in 1 .. N : ToldNow(fs, us, h, n)
  <2>1. PICK h \in 1 .. N : ToldNow(fs, us, h, n) \/ LostNow(fs, h, n)
    BY <1>3 DEF Done, Seen, UsesAreTold
  <2> QED
    BY <2>1, LostInSilence
<1>5. PICK k \in 1 .. Len(Hist(fs, h)) : Hist(fs, h)[k].time = n /\ Own(fs, us, h, k)
  BY <1>4 DEF ToldNow
<1>6. h \in 1 .. Len(fs)
  <2>1. Len(fs) \in Nat
    BY <1>1, KeptShape
  <2> QED
    BY <1>1, <2>1
<1>7. PICK j \in 1 .. Len(got) : got[j].file = h
  <2>1. InScan(sc, h)
    BY <1>2, <1>5 DEF Done, Seen, Outside
  <2> QED
    BY <2>1 DEF InScan, Done
<1> DEFINE v == Hist(fs, h)
           u == got[j].usage
<1>8. /\ ReadOf(fs, got[j], sc.before, sc.warned) /\ u \in Seq(Mention) /\ v \in Seq(Mention)
      /\ Len(v) \in Nat
  BY <1>1, <1>6, DoneShape, FileShape
<1>9. /\ got[j].session = fs[h].session /\ got[j].complete /\ Rollouts!StartsWith(v, u)
      /\ \A l \in Len(u) + 1 .. Len(v) : v[l].time > sc.before
  BY <1>2, <1>7, <1>8 DEF ReadOf
<1>10. Len(u) \in Nat /\ k \in 1 .. Len(u) /\ u[k] = v[k]
  <2>1. v[k].time = n /\ k \in 1 .. Len(v)
    BY <1>5
  <2> HIDE DEF u, v
  <2>2. Len(u) \in Nat /\ \A l \in 1 .. Len(u) : v[l] = u[l]
    BY <1>8, <1>9, StartsShape
  <2>3. k \notin Len(u) + 1 .. Len(v)
    <3>1. ~(n > sc.before)
      BY <1>1, <1>3
    <3> QED
      BY <1>9, <2>1, <3>1
  <2>4. k \in 1 .. Len(u)
    BY <1>8, <2>1, <2>2, <2>3
  <2> QED
    BY <2>2, <2>4
<1>11. got[j].valid
  <2>1. u # <<>>
    <3>1. Len(u) # 0
      BY <1>10
    <3> QED
      BY <3>1
  <2> QED
    BY <1>2, <2>1 DEF Rollouts!Refused, Rollouts!Malformed
<1> DEFINE s == got[j].session
<1>12. PICK c : c \in Rollouts!Canonical(got, s)
  BY <1>1, <1>11, CanonicalExists
<1>13. /\ c \in 1 .. Len(got) /\ got[c].session = s /\ got[c].valid
  BY <1>1, <1>12 DEF Rollouts!Canonical
<1> DEFINE w == got[c].usage
           f == got[c].file
<1>14. /\ ReadOf(fs, got[c], sc.before, sc.warned) /\ w \in Seq(Mention) /\ f \in 1 .. Len(fs)
       /\ Shaped(fs, us, f)
  BY <1>13, DoneShape
<1>15. got[c].complete /\ got[c].parent = fs[f].parent /\ got[c].started = fs[f].started
  BY <1>2, <1>14 DEF ReadOf
<1>16. Rollouts!StartsWith(w, u)
  <2>1. ~Rollouts!Ambiguous(got, s)
    BY <1>2, <1>11 DEF Rollouts!Refused, Rollouts!Malformed
  <2> QED
    BY <1>1, <1>9, <1>11, <1>12, <1>15, <2>1 DEF Rollouts!Ambiguous
<1>17. k \in 1 .. Len(w) /\ w[k] = u[k] /\ Len(w) \in Nat
  <2> HIDE DEF u, w
  <2>1. Len(u) \in Nat /\ Len(w) \in Nat /\ Len(u) <= Len(w) /\ \A l \in 1 .. Len(u) : w[l] = u[l]
    BY <1>8, <1>14, <1>16, StartsShape
  <2> QED
    BY <1>10, <2>1
<1>18. n \in Rollouts!Delta(w, k) /\ w[k].time = n
  <2>1. n \in Rollouts!Delta(v, k)
    BY <1>5 DEF Own
  <2>2. Rollouts!Delta(w, k) = Rollouts!Delta(u, k)
    <3> HIDE DEF u, w
    <3> QED
      BY <1>8, <1>10, <1>14, <1>16, DeltaStays
  <2>3. Rollouts!Delta(v, k) = Rollouts!Delta(u, k)
    <3> HIDE DEF u, v
    <3> QED
      BY <1>8, <1>9, <1>10, DeltaStays
  <2> QED
    BY <1>5, <1>10, <1>17, <2>1, <2>2, <2>3
<1>19. us[n] = s /\ n \in w[k].total
  <2>1. us[n] = s
    BY <1>5, <1>9 DEF Own, Newer
  <2> QED
    BY <1>18, <2>1, DeltaIsTold
\* It is not among the parent's uses, so it is not skipped.
<1>20. c \in Rollouts!Accepted(got)
  BY <1>1, <1>2, <1>12, <1>13 DEF Rollouts!Accepted
<1>21. k > Rollouts!Skip(got, got[c])
  <2>1. k > 0 /\ k \in Nat
    BY <1>17
  <2>2. CASE got[c].parent = 0
    BY <2>1, <2>2 DEF Rollouts!Skip, Rollouts!NoSession
  <2>3. CASE got[c].parent # 0
    <3> DEFINE t == got[c].started
               b == CHOOSE x \in Rollouts!Canonical(got, got[c].parent) : TRUE
               q == Rollouts!Before(got[b].usage, t)
               m == Rollouts!Inherited(w, q)
    <3>1. Rollouts!Canonical(got, got[c].parent) # {}
      BY <1>2, <1>12, <1>13, <2>3 DEF Rollouts!Refused, Rollouts!NoSession, Rollouts!ParentKnown
    <3>2. b \in Rollouts!Canonical(got, got[c].parent)
      BY <3>1
    <3>3. Rollouts!Skip(got, got[c]) = m
      BY <2>3 DEF Rollouts!Skip, Rollouts!NoSession, Rollouts!ParentUsage, Rollouts!ParentOf
    <3> HIDE DEF b
    <3>4. b \in 1 .. Len(got) /\ got[b].session = got[c].parent
      BY <1>1, <3>2 DEF Rollouts!Canonical
    <3>5. t \in Nat
      BY <1>1, <1>14, <1>15, FileShape
    <3>6. /\ q \in Seq(Mention)
          /\ \A x \in 1 .. Len(q) : \A y \in q[x].total : us[y] <= got[b].session
      <4> DEFINE z == got[b]
                 y == z.file
      <4>1. /\ FilesTyped(fs, us) /\ z \in Rollout /\ ReadOf(fs, z, sc.before, sc.warned)
            /\ Grown(fs, us, y)
        BY <3>4, DoneShape
      <4>2. q = Rollouts!Before(z.usage, t) /\ y = z.file
        OBVIOUS
      <4> HIDE DEF z, y, q
      <4>3. Apart(us, z, q)
        BY <3>5, <4>1, <4>2, ReadTotals
      <4> QED
        BY <4>3 DEF z, Apart
    <3>7. got[b].session < s
      <4>1. fs[f].parent < fs[f].session
        BY <1>14 DEF Shaped
      <4>2. fs[f].session = s
        BY <1>13, <1>14 DEF ReadOf
      <4> QED
        BY <1>15, <3>4, <4>1, <4>2
    <3>8. s \in Nat /\ got[b].session \in Nat
      BY <1>7, <3>4, ReadingShape DEF Done
    <3> HIDE DEF q, t, w
    <3>9. /\ m \in Nat /\ m <= Len(w) /\ m <= Len(q)
          /\ \A l \in 1 .. m : w[l].total = q[Len(q) - m + l].total
      BY <1>14, <3>6, InheritedShape
    <3> HIDE DEF m
    <3>10. ~(k <= m)
      <4> SUFFICES ASSUME k <= m PROVE FALSE
        OBVIOUS
      <4>1. k \in 1 .. m
        BY <1>17, <3>9
      <4>2. Len(q) \in Nat
        BY <3>6
      <4>3. Len(q) - m + k \in 1 .. Len(q)
        BY <3>9, <4>1, <4>2
      <4>4. n \in q[Len(q) - m + k].total
        BY <1>19, <3>9, <4>1
      <4>5. us[n] <= got[b].session
        BY <3>6, <4>3, <4>4
      <4> QED
        BY <1>19, <3>7, <3>8, <4>5
    <3> QED
      BY <2>1, <3>3, <3>9, <3>10
  <2> QED
    BY <2>2, <2>3
<1> DEFINE e == Told1(sc, c, k)
<1>22. e \in Rollouts!Events(got, c, sc.since)
  <2>1. DOMAIN w = 1 .. Len(w)
    BY <1>14
  <2>2. Rollouts!Delta(w, k) # {} /\ w[k].time >= sc.since
    BY <1>1, <1>18
  <2> QED
    BY <1>17, <1>21, <2>1, <2>2 DEF Rollouts!Events, Told1
<1>23. e \in InReport(sc) /\ n \in e.uses
  <2>1. e.uses = Rollouts!Delta(w, k)
    BY DEF Told1
  <2> QED
    BY <1>18, <1>20, <1>22, <2>1 DEF InReport
\* If it is not counted whole, its file tells it with a total that began again.
<1>24. e.whole \/ Passed(fs, n)
  <2>1. e.whole <=> Rollouts!Whole(w, k)
    BY DEF Told1
  <2> DEFINE x == got[c]
             y == x.file
  <2>2. FilesTyped(fs, us) /\ x \in Rollout /\ ReadOf(fs, x, sc.before, sc.warned)
        /\ k \in 1 .. Len(x.usage) /\ y = x.file
    BY <1>13, <1>17, DoneShape
  <2> HIDE DEF x, y
  <2>3. /\ k \in 1 .. Len(Hist(fs, y)) /\ Rollouts!Delta(x.usage, k) = Rollouts!Delta(Hist(fs, y), k)
        /\ Rollouts!Whole(x.usage, k) <=> Rollouts!Whole(Hist(fs, y), k)
    BY <2>2, ReadAdds
  <2>4. y \in 1 .. Len(fs) /\ n \in Rollouts!Delta(Hist(fs, y), k)
    BY <1>14, <1>18, <2>3 DEF x, y
  <2>5. ~Rollouts!Whole(Hist(fs, y), k) => Passed(fs, n)
    BY <2>3, <2>4 DEF Passed
  <2> QED
    BY <2>1, <2>3, <2>5 DEF x
<1> QED
  BY <1>23, <1>24

-----------------------------------------------------------------------------
(* Codex's steps: a file that exists is written.                           *)

\* What a file has told stays so when it or another is written.
LEMMA GrownStays ==
  ASSUME NEW fs, NEW us, NEW gs, NEW vs, NEW f, NEW h, Len(us) \in Nat, Len(vs) \in Nat,
         Len(us) <= Len(vs), \A n \in 1 .. Len(us) : vs[n] = us[n],
         gs[h].session = fs[f].session, gs[h].parent = fs[f].parent, gs[h].started = fs[f].started,
         Hist(gs, h) = Hist(fs, f), fs[f].mod \in Nat, gs[h].mod \in Nat, fs[f].mod <= gs[h].mod,
         \A k \in 1 .. Len(Hist(fs, f)) : Hist(fs, f)[k].time \in Nat,
         Grown(fs, us, f)
  PROVE  Grown(gs, vs, h)
<1> DEFINE u == Hist(fs, f)
<1>1. SUFFICES ASSUME NEW k \in 1 .. Len(u)
               PROVE  /\ u[k].time <= gs[h].mod
                      /\ u[k].time <= Len(vs) \/ (gs[h].parent # 0 /\ u[k].time = gs[h].started)
                      /\ u[k].total # {}
                      /\ \A m \in u[k].total : m \in 1 .. Len(vs) /\ vs[m] <= gs[h].session
                      /\ \A j \in 1 .. k - 1 : \E n \in u[k].total : \A m \in u[j].total : m < n
  BY DEF Grown
<1>2. /\ u[k].time <= fs[f].mod
      /\ u[k].time <= Len(us) \/ (fs[f].parent # 0 /\ u[k].time = fs[f].started)
      /\ u[k].total # {}
      /\ \A m \in u[k].total : m \in 1 .. Len(us) /\ us[m] <= fs[f].session
      /\ \A j \in 1 .. k - 1 : \E n \in u[k].total : \A m \in u[j].total : m < n
  BY DEF Grown
<1>3. u[k].time \in Nat
  OBVIOUS
<1> HIDE DEF u
<1>4. u[k].time <= gs[h].mod /\ (u[k].time <= Len(us) => u[k].time <= Len(vs))
  BY <1>2, <1>3
<1>5. ASSUME NEW m \in u[k].total PROVE m \in 1 .. Len(vs) /\ vs[m] <= gs[h].session
  BY <1>2
<1> QED
  BY <1>2, <1>4, <1>5

LEMMA OwnMoves ==
  ASSUME NEW fs, NEW us, NEW gs, NEW f, NEW h, NEW k, gs[h].session = fs[f].session,
         Hist(gs, h) = Hist(fs, f), fs[f].lost \subseteq gs[h].lost, Own(fs, us, f, k)
  PROVE  Own(gs, us, h, k)
BY DEF Own, Newer

\* A copy has the origin of what it copies.
LEMMA OriginCopied ==
  ASSUME NEW gs, NEW us, NEW f \in 1 .. Len(gs), NEW h \in 1 .. Len(gs),
         gs[h].session = gs[f].session, gs[h].parent = gs[f].parent, gs[h].started = gs[f].started,
         Hist(gs, h) = Hist(gs, f), gs[f].lost \subseteq gs[h].lost, Origin(gs, us, f)
  PROVE  Origin(gs, us, h)
<1>1. CASE gs[f].parent = 0
  <2>1. ASSUME NEW k \in 1 .. Len(Hist(gs, f)) PROVE Own(gs, us, h, k)
    <3>1. Own(gs, us, f, k)
      BY <1>1 DEF Origin
    <3> QED
      BY <3>1, OwnMoves
  <2> QED
    BY <1>1, <2>1 DEF Origin
<1>2. CASE gs[f].parent # 0
  <2>1. PICK g \in 1 .. Len(gs) : Forked(gs, us, f, g)
    BY <1>2 DEF Origin
  <2>2. CASE gs[g].parent # 0 /\ gs[g].started = gs[f].started
    <3>1. Forked(gs, us, h, g)
      BY <2>1, <2>2 DEF Forked
    <3> QED
      BY <1>2, <3>1 DEF Origin
  <2>3. CASE ~(gs[g].parent # 0 /\ gs[g].started = gs[f].started)
    <3>1. PICK m \in 0 .. Len(Hist(gs, f)) : Replayed(gs, us, f, g, m)
      BY <2>1, <2>3 DEF Forked
    <3>2. \A k \in m + 1 .. Len(Hist(gs, f)) : Own(gs, us, f, k)
      BY <3>1 DEF Replayed
    <3>3. \A k \in m + 1 .. Len(Hist(gs, f)) : Own(gs, us, h, k)
      BY <3>2, OwnMoves
    <3>4. Replayed(gs, us, h, g, m)
      BY <3>1, <3>3 DEF Replayed
    <3>5. Forked(gs, us, h, g)
      BY <2>1, <3>1, <3>4 DEF Forked
    <3> QED
      BY <1>2, <3>5 DEF Origin
  <2> QED
    BY <2>2, <2>3
<1> QED
  BY <1>1, <1>2

\* A total that is as the file told, or is to begin again.
LEMMA AheadTold ==
  ASSUME NEW fs, NEW us, NEW f, fs[f].total = {} \/ fs[f].total = LastTold(fs, f)
  PROVE  Ahead(fs, us, f)
BY DEF Ahead

LEMMA NothingTold == Rollouts!Distinct(<<>>) = <<>>
<1>1. <<>> \in Seq(Mention) /\ Len(<<>>) = 0
  OBVIOUS
<1>2. Rollouts!Distinct(<<>>) = Told(<<>>, 0) /\ Told(<<>>, 0) = <<>>
  BY <1>1, DistinctShape, ToldNext
<1> QED
  BY <1>2

LEMMA ToldIsLast ==
  ASSUME FilesTyped(files, uses), NEW f \in 1 .. Len(files)
  PROVE  Rollouts!Told(f) = LastTold(files, f)
<1> DEFINE old == files[f].records
<1>1. old \in Seq(Mention)
  BY FileShape
<1>2. CASE old = <<>>
  <2>1. Len(Hist(files, f)) = 0
    BY <1>2, NothingTold DEF Hist
  <2> QED
    BY <1>2, <2>1 DEF Rollouts!Told, LastTold
<1>3. CASE old # <<>>
  <2>1. Len(old) > 0
    BY <1>1, <1>3
  <2>2. /\ Len(Hist(files, f)) > 0
        /\ Hist(files, f)[Len(Hist(files, f))].total = old[Len(old)].total
    BY <1>1, <2>1, DistinctShape DEF Hist
  <2> QED
    BY <1>3, <2>2 DEF Rollouts!Told, LastTold
<1> QED
  BY <1>2, <1>3

\* A file is written: what it tells grows by uses of its own.
Writes(fs, us, gs, vs, f) ==
  /\ FilesTyped(gs, vs)
  /\ Len(gs) = Len(fs) /\ \A h \in 1 .. Len(fs) : h # f => gs[h] = fs[h]
  /\ Len(us) <= Len(vs) /\ \A n \in 1 .. Len(us) : vs[n] = us[n]
  /\ gs[f].session = fs[f].session /\ gs[f].parent = fs[f].parent
  /\ gs[f].started = fs[f].started /\ fs[f].mod <= gs[f].mod
  /\ LosesOnward(fs[f], gs[f], Len(us))
  /\ Rollouts!StartsWith(Hist(gs, f), Hist(fs, f))
  /\ \A k \in Len(Hist(fs, f)) + 1 .. Len(Hist(gs, f)) :
       Own(gs, vs, f, k) /\ Hist(gs, f)[k].time > Len(us)

LEMMA WritesOnward ==
  ASSUME NEW fs, NEW us, NEW gs, NEW vs, NEW f \in 1 .. Len(fs), FilesTyped(fs, us),
         Writes(fs, us, gs, vs, f)
  PROVE  Onward(fs, us, gs, vs)
<1>1. \A h \in 1 .. Len(fs) : h # f => gs[h] = fs[h] /\ Hist(gs, h) = Hist(fs, h)
  BY DEF Writes, Hist
<1>2. ASSUME NEW h \in 1 .. Len(fs)
      PROVE  /\ gs[h].session = fs[h].session /\ gs[h].parent = fs[h].parent
             /\ gs[h].started = fs[h].started /\ fs[h].mod <= gs[h].mod
             /\ LosesOnward(fs[h], gs[h], Len(us))
             /\ Rollouts!StartsWith(Hist(gs, h), Hist(fs, h))
             /\ \A k \in Len(Hist(fs, h)) + 1 .. Len(Hist(gs, h)) :
                  Own(gs, vs, h, k) /\ Hist(gs, h)[k].time > Len(us)
  <2>1. CASE h = f
    BY <2>1 DEF Writes
  <2>2. CASE h # f
    <3>1. gs[h] = fs[h] /\ Hist(gs, h) = Hist(fs, h)
      BY <1>1, <2>2
    <3>2. fs[h].mod \in Nat /\ Hist(fs, h) \in Seq(Mention) /\ Len(Hist(fs, h)) \in Nat
      BY FileShape
    <3>3. fs[h].mod <= fs[h].mod /\ Rollouts!StartsWith(Hist(fs, h), Hist(fs, h))
          /\ LosesOnward(fs[h], fs[h], Len(us))
      BY <3>2, StartsShape DEF LosesOnward
    <3> QED
      BY <3>1, <3>2, <3>3
  <2> QED
    BY <2>1, <2>2
<1>3. Len(fs) <= Len(gs)
  BY KeptShape DEF Writes
<1> QED
  BY <1>2, <1>3 DEF Onward, Writes

LEMMA WritesKeep ==
  ASSUME NEW fs, NEW us, NEW gs, NEW vs, NEW f \in 1 .. Len(fs), FilesInv(fs, us),
         Writes(fs, us, gs, vs, f), Shaped(gs, vs, f), Grown(gs, vs, f),
         \A n \in Len(us) + 1 .. Len(vs) : ToldNow(gs, vs, f, n) \/ LostNow(gs, f, n)
  PROVE  FilesInv(gs, vs) /\ Onward(fs, us, gs, vs)
<1>1. FilesTyped(fs, us) /\ FilesTyped(gs, vs)
  BY DEF FilesInv, Writes
<1>2. Onward(fs, us, gs, vs)
  BY <1>1, WritesOnward
<1>3. /\ Len(fs) \in Nat /\ Len(gs) = Len(fs) /\ DOMAIN fs = 1 .. Len(fs)
      /\ DOMAIN gs = 1 .. Len(fs)
      /\ Len(us) \in Nat /\ Len(vs) \in Nat /\ Len(us) <= Len(vs)
      /\ \A n \in 1 .. Len(us) : vs[n] = us[n]
  BY <1>1, KeptShape DEF Writes
<1>4. ASSUME NEW h \in 1 .. Len(fs)
      PROVE  gs[h].session = fs[h].session /\ gs[h].parent = fs[h].parent
             /\ gs[h].started = fs[h].started
  BY <1>1, <1>2, OnwardShape
<1>5. SessionsOf(gs) = SessionsOf(fs)
  BY <1>3, <1>4 DEF SessionsOf
<1>6. ASSUME NEW h \in 1 .. Len(gs) PROVE Shaped(gs, vs, h) /\ Grown(gs, vs, h) /\ Origin(gs, vs, h)
  <2>0. h \in 1 .. Len(fs)
    BY <1>3
  <2>1. Origin(gs, vs, h)
    BY <1>1, <1>2, <2>0, OriginStays
  <2>2. CASE h = f
    BY <2>1, <2>2
  <2>3. CASE h # f
    <3>1. gs[h] = fs[h] /\ Hist(gs, h) = Hist(fs, h)
      BY <2>0, <2>3 DEF Writes, Hist
    <3>2. Shaped(fs, us, h) /\ Grown(fs, us, h)
      BY <2>0 DEF FilesInv
    <3>3. fs[h].mod \in Nat /\ fs[h].started \in Nat
          /\ \A k \in 1 .. Len(Hist(fs, h)) : Hist(fs, h)[k].time \in Nat
      BY <1>1, <2>0, FileShape
    <3>4. Grown(gs, vs, h)
      BY <1>3, <3>1, <3>2, <3>3, GrownStays
    <3>5. fs[h].mod <= Len(us) + 1 /\ fs[h].started <= Len(us) + 1
      BY <3>2 DEF Shaped
    <3>6. fs[h].mod <= Len(vs) + 1 /\ fs[h].started <= Len(vs) + 1
      <4>1. ASSUME NEW a \in Nat, NEW b \in Nat, NEW c \in Nat, a <= b + 1, b <= c
            PROVE  a <= c + 1
        BY <4>1
      <4>2. Len(us) \in Nat /\ Len(vs) \in Nat /\ Len(us) <= Len(vs)
        BY <1>3
      <4> QED
        BY <3>3, <3>5, <4>1, <4>2
    <3>7. Ahead(gs, vs, h)
      <4>1. Ahead(fs, us, h)
        BY <3>2 DEF Shaped
      <4> QED
        BY <1>3, <3>1, <4>1, AheadStays
    <3>8. Shaped(gs, vs, h)
      BY <1>5, <3>1, <3>2, <3>6, <3>7 DEF Shaped
    <3> QED
      BY <2>1, <3>4, <3>8
  <2> QED
    BY <2>2, <2>3
<1>7. OneOrigin(gs)
  BY <1>3, <1>4 DEF FilesInv, OneOrigin
<1>8. UsesAreTold(gs, vs, Len(gs), Len(vs))
  <2>0. Len(fs) \in 0 .. Len(fs) /\ UsesAreTold(fs, us, Len(fs), Len(us))
    BY <1>3 DEF FilesInv
  <2>1. UsesAreTold(gs, vs, Len(fs), Len(us))
    BY <1>1, <1>2, <2>0, UsesStayTold
  <2>2. ASSUME NEW n \in 1 .. Len(vs)
        PROVE  \E h \in 1 .. Len(fs) : ToldNow(gs, vs, h, n) \/ LostNow(gs, h, n)
    <3>1. CASE n \in 1 .. Len(us)
      BY <2>1, <3>1 DEF UsesAreTold
    <3>2. CASE n \in Len(us) + 1 .. Len(vs)
      BY <3>2
    <3> QED
      BY <1>3, <3>1, <3>2
  <2> QED
    BY <1>3, <2>2 DEF UsesAreTold
<1> QED
  BY <1>1, <1>2, <1>5, <1>6, <1>7, <1>8 DEF FilesInv

\* Nothing new is told: a restart, a line again, a torn or an unreadable one, a
\* use whose record is lost.
LEMMA QuietKeeps ==
  ASSUME NEW fs, NEW us, NEW f \in 1 .. Len(fs), FilesInv(fs, us), NEW x \in Kept,
         NEW gs, gs = [fs EXCEPT ![f] = x],
         NEW vs \in Seq(Nat), Len(us) <= Len(vs), \A n \in 1 .. Len(us) : vs[n] = us[n],
         x.session = fs[f].session, x.parent = fs[f].parent, x.started = fs[f].started,
         fs[f].mod <= x.mod, x.mod <= Len(vs) + 1,
         Rollouts!Distinct(x.records) = Hist(fs, f),
         x.unread = -1 \/ x.unread \in 0 .. Len(x.records),
         LosesOnward(fs[f], x, Len(us)), \A d \in x.lost : d <= x.mod,
         \A n \in Len(us) + 1 .. Len(vs) : n \in x.lost /\ x.torn,
         Ahead(gs, vs, f)
  PROVE  FilesInv(gs, vs) /\ Onward(fs, us, gs, vs)
<1>1. FilesTyped(fs, us) /\ Shaped(fs, us, f) /\ Grown(fs, us, f)
  BY DEF FilesInv
<1>2. fs \in Seq(Kept) /\ us \in Seq(Nat)
  BY <1>1 DEF FilesTyped
<1>3. gs \in Seq(Kept) /\ Len(gs) = Len(fs) /\ gs[f] = x
      /\ \A h \in 1 .. Len(fs) : h # f => gs[h] = fs[h]
  BY <1>2
<1>4. FilesTyped(gs, vs)
  BY <1>2, <1>3 DEF FilesTyped
<1>5. Hist(gs, f) = Hist(fs, f)
  BY <1>3 DEF Hist
<1>6. /\ Hist(fs, f) \in Seq(Mention) /\ Len(Hist(fs, f)) \in Nat /\ fs[f].mod \in Nat
      /\ Len(us) \in Nat /\ Len(vs) \in Nat /\ fs[f].started \in Nat
      /\ Len(fs) \in Nat /\ DOMAIN fs = 1 .. Len(fs) /\ DOMAIN gs = 1 .. Len(fs)
      /\ \A k \in 1 .. Len(Hist(fs, f)) : Hist(fs, f)[k].time \in Nat
  BY <1>1, <1>3, <1>4, FileShape, KeptShape
<1>7. x.mod \in Nat
  BY DEF Kept
<1>8. Rollouts!StartsWith(Hist(gs, f), Hist(fs, f))
  BY <1>5, <1>6, StartsShape
<1>9. \A k \in Len(Hist(fs, f)) + 1 .. Len(Hist(gs, f)) : FALSE
  BY <1>5, <1>6
<1>10. Writes(fs, us, gs, vs, f)
  <2>1. /\ gs[f].session = fs[f].session /\ gs[f].parent = fs[f].parent
        /\ gs[f].started = fs[f].started /\ fs[f].mod <= gs[f].mod
        /\ LosesOnward(fs[f], gs[f], Len(us))
    BY <1>3
  <2>2. \A k \in Len(Hist(fs, f)) + 1 .. Len(Hist(gs, f)) :
          Own(gs, vs, f, k) /\ Hist(gs, f)[k].time > Len(us)
    BY <1>9
  <2> QED
    BY <1>3, <1>4, <1>8, <2>1, <2>2 DEF Writes
<1>11. Grown(gs, vs, f)
  <2>1. /\ gs[f].session = fs[f].session /\ gs[f].parent = fs[f].parent
        /\ gs[f].started = fs[f].started /\ fs[f].mod <= gs[f].mod /\ gs[f].mod \in Nat
    BY <1>3, <1>7
  <2> QED
    BY <1>1, <1>5, <1>6, <2>1, GrownStays
<1>12. SessionsOf(gs) = SessionsOf(fs)
  BY <1>3, <1>6 DEF SessionsOf
<1>13. x.session \in 1 .. Cardinality(SessionsOf(gs)) /\ x.parent < x.session
       /\ x.started <= Len(vs) + 1
  <2>1. fs[f].session \in 1 .. Cardinality(SessionsOf(fs)) /\ fs[f].parent < fs[f].session
        /\ fs[f].started <= Len(us) + 1
    BY <1>1 DEF Shaped
  <2> QED
    BY <1>6, <1>12, <2>1
<1>14. Shaped(gs, vs, f)
  BY <1>3, <1>13 DEF Shaped
<1>15. \A n \in Len(us) + 1 .. Len(vs) : ToldNow(gs, vs, f, n) \/ LostNow(gs, f, n)
  BY <1>3 DEF LostNow
<1> QED
  BY <1>10, <1>11, <1>14, <1>15, WritesKeep

\* The same, of what loses no use.
LEMMA SpoiltKeeps ==
  ASSUME NEW fs, NEW us, NEW f \in 1 .. Len(fs), FilesInv(fs, us), NEW x \in Kept,
         NEW gs, gs = [fs EXCEPT ![f] = x],
         x.session = fs[f].session, x.parent = fs[f].parent, x.started = fs[f].started,
         fs[f].mod <= x.mod, x.mod <= Len(us) + 1,
         Rollouts!Distinct(x.records) = Hist(fs, f),
         x.unread = -1 \/ x.unread \in 0 .. Len(x.records),
         x.lost = fs[f].lost, fs[f].torn => x.torn,
         x.total = {} \/ x.total = fs[f].total
  PROVE  FilesInv(gs, us) /\ Onward(fs, us, gs, us)
<1>1. FilesTyped(fs, us) /\ Shaped(fs, us, f)
  BY DEF FilesInv
<1>2. /\ us \in Seq(Nat) /\ Len(us) \in Nat /\ fs[f].mod \in Nat /\ x.mod \in Nat
      /\ fs[f].lost \subseteq Nat
  BY <1>1, KeptShape DEF FilesTyped, Kept
<1>3. gs[f] = x /\ Hist(gs, f) = Hist(fs, f)
  <2>1. fs \in Seq(Kept)
    BY <1>1 DEF FilesTyped
  <2>2. gs[f] = x
    BY <2>1
  <2> QED
    BY <2>2 DEF Hist
<1>4. Ahead(gs, us, f)
  <2>1. CASE x.total = {}
    BY <1>3, <2>1, AheadTold
  <2>2. CASE x.total = fs[f].total
    <3>1. Ahead(fs, us, f) /\ Len(us) <= Len(us)
      BY <1>1, <1>2 DEF Shaped
    <3> QED
      BY <1>2, <1>3, <2>2, <3>1, AheadStays
  <2> QED
    BY <2>1, <2>2
<1>5. LosesOnward(fs[f], x, Len(us))
  BY DEF LosesOnward
<1>6. \A d \in x.lost : d <= x.mod
  <2>1. \A d \in fs[f].lost : d <= fs[f].mod
    BY <1>1 DEF Shaped
  <2> QED
    BY <1>2, <2>1
<1>7. Len(us) <= Len(us) /\ \A n \in Len(us) + 1 .. Len(us) : FALSE
  BY <1>2
<1> QED
  BY <1>2, <1>4, <1>5, <1>6, <1>7, QuietKeeps

LEMMA KeptIs ==
  ASSUME NEW r \in Kept
  PROVE  /\ r.session \in Nat /\ r.parent \in Nat /\ r.started \in Nat /\ r.records \in Seq(Mention)
         /\ r.total \in SUBSET Nat /\ r.lost \in SUBSET Nat
         /\ r.torn \in BOOLEAN /\ r.unread \in Int /\ r.mod \in Nat
         /\ r = [session |-> r.session, parent |-> r.parent, started |-> r.started,
                 records |-> r.records, total |-> r.total, lost |-> r.lost, torn |-> r.torn,
                 unread |-> r.unread, mod |-> r.mod]
BY DEF Kept

Stamp(r, n) == [r EXCEPT !.mod = n]
Note(r, m, n) == Stamp([r EXCEPT !.records = Append(@, m)], n)

\* A file as another but for its records and its time.
Renewed(x, r, records, n) ==
  /\ x \in Kept
  /\ x.session = r.session /\ x.parent = r.parent /\ x.started = r.started
  /\ x.records = records /\ x.total = r.total /\ x.lost = r.lost /\ x.torn = r.torn
  /\ x.unread = r.unread /\ x.mod = n

LEMMA Stamped ==
  ASSUME NEW r \in Kept, NEW n \in Nat
  PROVE  Renewed(Stamp(r, n), r, r.records, n)
<1>1. Stamp(r, n) = [session |-> r.session, parent |-> r.parent, started |-> r.started,
                     records |-> r.records, total |-> r.total, lost |-> r.lost, torn |-> r.torn,
                     unread |-> r.unread, mod |-> n]
  BY KeptIs DEF Stamp
<1> QED
  BY <1>1, KeptIs DEF Kept, Renewed

LEMMA Noted ==
  ASSUME NEW r \in Kept, NEW n \in Nat, NEW m \in Mention
  PROVE  Renewed(Note(r, m, n), r, Append(r.records, m), n)
<1> DEFINE t == Append(r.records, m)
           y == [r EXCEPT !.records = t]
<1>1. t \in Seq(Mention)
  BY KeptIs, AppendShape
<1>2. Note(r, m, n) = Stamp(y, n)
  BY DEF Note
<1> HIDE DEF t
<1>3. y = [session |-> r.session, parent |-> r.parent, started |-> r.started,
           records |-> t, total |-> r.total, lost |-> r.lost, torn |-> r.torn, unread |-> r.unread,
           mod |-> r.mod]
  BY KeptIs
<1> HIDE DEF y
<1>4. y \in Kept
  BY <1>1, <1>3, KeptIs DEF Kept
<1>5. /\ y.session = r.session /\ y.parent = r.parent /\ y.started = r.started
      /\ y.records = t /\ y.total = r.total /\ y.lost = r.lost /\ y.torn = r.torn
      /\ y.unread = r.unread
  BY <1>3
<1>6. Renewed(Stamp(y, n), y, y.records, n)
  BY <1>4, Stamped
<1> QED
  BY <1>2, <1>5, <1>6 DEF t, Renewed

LEMMA RestartKeeps ==
  ASSUME FilesInv(files, uses), NEW f \in DOMAIN files, Rollouts!Restart(f)
  PROVE  FilesInv(files', uses') /\ Onward(files, uses, files', uses')
<1>1. FilesTyped(files, uses) /\ Shaped(files, uses, f) /\ f \in 1 .. Len(files)
  <2>1. FilesTyped(files, uses)
    BY DEF FilesInv
  <2>2. f \in 1 .. Len(files)
    BY <2>1, KeptShape
  <2> QED
    BY <2>1, <2>2 DEF FilesInv
<1> DEFINE x == [files[f] EXCEPT !.total = {}]
<1>2. files[f] \in Kept
  BY <1>1, KeptShape
<1>3. /\ x \in Kept /\ x.session = files[f].session /\ x.parent = files[f].parent
      /\ x.started = files[f].started /\ x.mod = files[f].mod /\ x.records = files[f].records
      /\ x.unread = files[f].unread /\ x.total = {} /\ x.lost = files[f].lost
      /\ x.torn = files[f].torn
  BY <1>2 DEF Kept
<1>4. files' = [files EXCEPT ![f] = x] /\ uses' = uses
  BY DEF Rollouts!Restart
<1>5. /\ files[f].mod <= x.mod /\ x.mod <= Len(uses) + 1
      /\ Rollouts!Distinct(x.records) = Hist(files, f)
      /\ x.unread = -1 \/ x.unread \in 0 .. Len(x.records)
  <2>1. files[f].mod \in Nat
    BY <1>1, FileShape
  <2> HIDE DEF x
  <2> QED
    BY <1>1, <1>3, <2>1 DEF Shaped, Hist
<1> HIDE DEF x
<1>6. FilesInv(files', uses) /\ Onward(files, uses, files', uses)
  BY <1>1, <1>3, <1>4, <1>5, SpoiltKeeps
<1> QED
  BY <1>4, <1>6

LEMMA SpoilKeeps ==
  ASSUME FilesInv(files, uses), NEW f \in DOMAIN files, Rollouts!Spoil(f)
  PROVE  FilesInv(files', uses') /\ Onward(files, uses, files', uses')
<1> DEFINE old == files[f].records
<1>1. FilesTyped(files, uses) /\ Shaped(files, uses, f) /\ f \in 1 .. Len(files)
  <2>1. FilesTyped(files, uses)
    BY DEF FilesInv
  <2>2. f \in 1 .. Len(files)
    BY <2>1, KeptShape
  <2> QED
    BY <2>1, <2>2 DEF FilesInv
<1>2. /\ files[f] \in Kept /\ files[f].mod \in Nat /\ Len(uses) \in Nat /\ old \in Seq(Mention)
      /\ Rollouts!Now \in Nat /\ Rollouts!Now = Len(uses) + 1 /\ files[f].mod <= Rollouts!Now
      /\ files[f].unread = -1 \/ files[f].unread \in 0 .. Len(old)
  BY <1>1, KeptShape, FileShape DEF Rollouts!Now, Shaped
<1>3. uses' = uses /\ Rollouts!Spoilt(f)
  BY DEF Rollouts!Spoil
<1>4. ASSUME old # <<>>,
             Rollouts!Written(f, [files[f] EXCEPT !.records =
                                    Append(@, [old[Len(old)] EXCEPT !.time = Rollouts!Now])])
      PROVE  FilesInv(files', uses) /\ Onward(files, uses, files', uses)
  <2> DEFINE last == old[Len(old)]
             r == [last EXCEPT !.time = Rollouts!Now]
             x == Note(files[f], r, Rollouts!Now)
  <2>1. Len(old) > 0 /\ Len(old) \in Nat /\ last \in Mention
    <3>1. Len(old) > 0 /\ Len(old) \in Nat
      BY <1>2, <1>4
    <3> QED
      BY <1>2, <3>1
  <2>2. files' = [files EXCEPT ![f] = x]
    BY <1>4 DEF Rollouts!Written, Note, Stamp
  <2> HIDE DEF last
  <2>4. r \in Mention /\ r.total = last.total
    BY <1>2, <2>1 DEF Mention
  <2> HIDE DEF r
  <2>3. /\ x \in Kept /\ x.session = files[f].session /\ x.parent = files[f].parent
        /\ x.started = files[f].started /\ x.total = files[f].total /\ x.unread = files[f].unread
        /\ x.lost = files[f].lost /\ x.torn = files[f].torn
        /\ x.mod = Rollouts!Now /\ x.records = Append(old, r)
    <3>1. Renewed(x, files[f], Append(old, r), Rollouts!Now)
      BY <1>2, <2>4, Noted
    <3> HIDE DEF x
    <3> QED
      BY <3>1 DEF Renewed
  <2> HIDE DEF x
  <2>5. Rollouts!Distinct(x.records) = Hist(files, f)
    BY <1>2, <2>1, <2>3, <2>4, DistinctAppend DEF Hist, last
  <2>6. x.unread = -1 \/ x.unread \in 0 .. Len(x.records)
    BY <1>2, <2>1, <2>3, <2>4, AppendShape
  <2>7. files[f].mod <= x.mod /\ x.mod <= Len(uses) + 1
    BY <1>2, <2>3
  <2> QED
    BY <1>1, <2>2, <2>3, <2>5, <2>6, <2>7, SpoiltKeeps
<1>5. ASSUME NEW x, x \in Kept, files' = [files EXCEPT ![f] = x],
             x.session = files[f].session, x.parent = files[f].parent,
             x.started = files[f].started, x.total = files[f].total, x.records = old,
             x.lost = files[f].lost, files[f].torn => x.torn,
             x.mod = Rollouts!Now, x.unread = -1 \/ x.unread \in 0 .. Len(old)
      PROVE  FilesInv(files', uses) /\ Onward(files, uses, files', uses)
  <2>1. Rollouts!Distinct(x.records) = Hist(files, f)
    BY <1>5 DEF Hist
  <2>2. files[f].mod <= x.mod /\ x.mod <= Len(uses) + 1
    BY <1>2, <1>5
  <2>3. x.unread = -1 \/ x.unread \in 0 .. Len(x.records)
    BY <1>5
  <2> QED
    BY <1>1, <1>5, <2>1, <2>2, <2>3, SpoiltKeeps
<1>6. ASSUME Rollouts!Written(f, [files[f] EXCEPT !.torn = TRUE])
      PROVE  FilesInv(files', uses) /\ Onward(files, uses, files', uses)
  <2> DEFINE y == [files[f] EXCEPT !.torn = TRUE]
             x == Stamp(y, Rollouts!Now)
  <2>1. files' = [files EXCEPT ![f] = x]
    BY <1>6 DEF Rollouts!Written, Stamp
  <2>0. /\ y \in Kept /\ y.session = files[f].session /\ y.parent = files[f].parent
        /\ y.started = files[f].started /\ y.total = files[f].total /\ y.unread = files[f].unread
        /\ y.records = old /\ y.lost = files[f].lost /\ y.torn
    BY <1>2 DEF Kept
  <2> HIDE DEF y
  <2>2. /\ x \in Kept /\ x.session = files[f].session /\ x.parent = files[f].parent
        /\ x.started = files[f].started /\ x.total = files[f].total /\ x.unread = files[f].unread
        /\ x.mod = Rollouts!Now /\ x.records = old /\ x.lost = files[f].lost /\ x.torn
    <3>1. Renewed(x, y, y.records, Rollouts!Now)
      BY <1>2, <2>0, Stamped
    <3> HIDE DEF x
    <3> QED
      BY <2>0, <3>1 DEF Renewed
  <2> HIDE DEF x
  <2> QED
    BY <1>2, <1>5, <2>1, <2>2
<1>7. ASSUME Rollouts!Written(f, [files[f] EXCEPT !.unread = Len(old)])
      PROVE  FilesInv(files', uses) /\ Onward(files, uses, files', uses)
  <2> DEFINE n == Len(old)
             y == [files[f] EXCEPT !.unread = n]
             x == Stamp(y, Rollouts!Now)
  <2>0. n \in Nat
    BY <1>2
  <2>1. files' = [files EXCEPT ![f] = x]
    BY <1>7 DEF Rollouts!Written, Stamp
  <2> HIDE DEF n
  <2>4. /\ y \in Kept /\ y.session = files[f].session /\ y.parent = files[f].parent
        /\ y.started = files[f].started /\ y.total = files[f].total /\ y.unread = n
        /\ y.records = old /\ y.lost = files[f].lost /\ y.torn = files[f].torn
    BY <1>2, <2>0 DEF Kept
  <2> HIDE DEF y
  <2>2. /\ x \in Kept /\ x.session = files[f].session /\ x.parent = files[f].parent
        /\ x.started = files[f].started /\ x.total = files[f].total /\ x.unread = n
        /\ x.mod = Rollouts!Now /\ x.records = old /\ x.lost = files[f].lost /\ x.torn = files[f].torn
    <3>1. Renewed(x, y, y.records, Rollouts!Now)
      BY <1>2, <2>4, Stamped
    <3> HIDE DEF x
    <3> QED
      BY <2>4, <3>1 DEF Renewed
  <2>3. n \in 0 .. Len(old)
    BY <2>0 DEF n
  <2> HIDE DEF x
  <2> QED
    BY <1>2, <1>5, <2>1, <2>2, <2>3
<1> QED
  BY <1>3, <1>4, <1>6, <1>7 DEF Rollouts!Spoilt

\* What a use leaves in its file but the time.
Using(file, above) ==
  LET total == file.total \cup {Rollouts!Now}
  IN  [file EXCEPT !.total = total,
         !.records = Append(@, [time |-> Rollouts!Now, total |-> total, above |-> above])]

LEMMA UseKeeps ==
  ASSUME FilesInv(files, uses), NEW f \in DOMAIN files, Rollouts!Use(f)
  PROVE  FilesInv(files', uses') /\ Onward(files, uses, files', uses') /\ Calm(files, files')
<1> PICK above \in BOOLEAN : Rollouts!Written(f, Using(files[f], above))
  <2> DEFINE goes == Rollouts!Told(f) \subseteq files[f].total \cup {Rollouts!Now}
  <2>1. \E above \in IF goes THEN {FALSE} ELSE BOOLEAN : Rollouts!Written(f, Using(files[f], above))
    BY Zenon DEF Rollouts!Use, Using
  <2> HIDE DEF goes
  <2>2. ASSUME NEW above \in IF goes THEN {FALSE} ELSE BOOLEAN PROVE above \in BOOLEAN
    <3>1. CASE goes
      BY <3>1
    <3>2. CASE ~goes
      BY <3>2
    <3> QED
      BY <3>1, <3>2
  <2> QED
    BY <2>1, <2>2
<1> DEFINE now == Len(uses) + 1
           s == files[f].session
           total == files[f].total \cup {now}
           r == [time |-> now, total |-> total, above |-> above]
           y == [files[f] EXCEPT !.total = total]
           x == Note(y, r, now)
           u == Hist(files, f)
           v == Hist(files', f)
           prev == LastTold(files, f)
<1>1. FilesTyped(files, uses) /\ Shaped(files, uses, f) /\ Grown(files, uses, f)
      /\ f \in 1 .. Len(files)
  <2>1. FilesTyped(files, uses)
    BY DEF FilesInv
  <2>2. f \in 1 .. Len(files)
    BY <2>1, KeptShape
  <2> QED
    BY <2>1, <2>2 DEF FilesInv
<1>2. /\ files \in Seq(Kept) /\ files[f] \in Kept /\ files[f].records \in Seq(Mention)
      /\ files[f].total \subseteq Nat
      /\ s \in Nat /\ files[f].mod \in Nat /\ files[f].started \in Nat
      /\ uses \in Seq(Nat) /\ Len(uses) \in Nat /\ now \in Nat /\ total \in SUBSET Nat
      /\ Len(files) \in Nat /\ DOMAIN files = 1 .. Len(files) /\ u \in Seq(Mention)
      /\ Len(u) \in Nat
  BY <1>1, KeptShape, FileShape DEF FilesTyped
<1>3. uses' = Append(uses, s) /\ files' = [files EXCEPT ![f] = x]
  <2>1. uses' = Append(uses, s)
    BY DEF Rollouts!Use, Rollouts!Used
  <2>2. files' = [files EXCEPT ![f] = x]
    BY DEF Rollouts!Written, Using, Rollouts!Now, Note, Stamp
  <2> QED
    BY <2>1, <2>2
<1>4. /\ Len(uses') = now /\ uses' \in Seq(Nat) /\ uses'[now] = s
      /\ \A n \in 1 .. Len(uses) : uses'[n] = uses[n]
  BY <1>2, <1>3
<1>6. r \in Mention /\ r.time = now /\ r.total = total
  BY <1>2 DEF Mention
<1> HIDE DEF r
<1>5. /\ x \in Kept /\ x.session = s /\ x.parent = files[f].parent
      /\ x.started = files[f].started /\ x.total = total /\ x.unread = files[f].unread
      /\ x.mod = now /\ x.records = Append(files[f].records, r)
      /\ x.lost = files[f].lost /\ x.torn = files[f].torn
  <2>1. y \in Kept /\ y.session = s /\ y.parent = files[f].parent /\ y.records = files[f].records
        /\ y.started = files[f].started /\ y.total = total /\ y.unread = files[f].unread
        /\ y.lost = files[f].lost /\ y.torn = files[f].torn
    <3> HIDE DEF total
    <3> QED
      BY <1>2 DEF Kept
  <2> HIDE DEF y, total, now
  <2>2. /\ x \in Kept /\ x.session = y.session /\ x.parent = y.parent /\ x.started = y.started
        /\ x.total = y.total /\ x.unread = y.unread /\ x.lost = y.lost /\ x.torn = y.torn
        /\ x.mod = now /\ x.records = Append(y.records, r)
    <3>1. Renewed(x, y, Append(y.records, r), now)
      BY <1>2, <1>6, <2>1, Noted
    <3> HIDE DEF x
    <3> QED
      BY <3>1 DEF Renewed
  <2> QED
    BY <2>1, <2>2
<1> HIDE DEF x, y
<1>7. /\ files' \in Seq(Kept) /\ Len(files') = Len(files) /\ files'[f] = x
      /\ \A h \in 1 .. Len(files) : h # f => files'[h] = files[h]
  BY <1>2, <1>3, <1>5
<1>8. FilesTyped(files', uses')
  BY <1>4, <1>7 DEF FilesTyped
\* The total has a use that is in none of the earlier ones.
<1>9. ASSUME NEW j \in 1 .. Len(u), NEW m \in u[j].total PROVE m <= Len(uses) /\ m \in Nat
  <2>1. m \in 1 .. Len(uses)
    BY <1>1 DEF Grown
  <2> QED
    BY <1>2, <2>1
<1>10. v = Append(u, r)
  <2>1. v = Rollouts!Distinct(Append(files[f].records, r))
    BY <1>5, <1>7 DEF Hist
  <2>2. CASE Len(files[f].records) > 0
    <3> DEFINE a == files[f].records
    <3>1. Len(u) > 0 /\ u[Len(u)].total = a[Len(a)].total
      BY <1>2, <2>2, DistinctShape DEF Hist
    <3>2. now \notin u[Len(u)].total
      <4>1. Len(u) \in 1 .. Len(u)
        BY <1>2, <3>1
      <4>2. now \in u[Len(u)].total => now <= Len(uses)
        BY <1>9, <4>1
      <4> QED
        BY <1>2, <4>2
    <3>3. r.total # a[Len(a)].total
      BY <1>6, <3>1, <3>2
    <3> QED
      BY <1>2, <1>6, <2>1, <3>3, DistinctAppend DEF Hist
  <2>3. CASE ~(Len(files[f].records) > 0)
    BY <1>2, <1>6, <2>1, <2>3, DistinctAppend DEF Hist
  <2> QED
    BY <2>2, <2>3
<1>11. /\ v \in Seq(Mention) /\ Len(v) = Len(u) + 1 /\ v[Len(v)] = r
       /\ \A k \in 1 .. Len(u) : v[k] = u[k]
  BY <1>2, <1>6, <1>10, AppendShape
<1> HIDE DEF v
<1>12. Rollouts!StartsWith(v, u)
  <2>1. Len(u) <= Len(v) /\ \A k \in 1 .. Len(u) : v[k] = u[k]
    BY <1>2, <1>11
  <2> HIDE DEF u
  <2> QED
    BY <1>2, <1>11, <2>1, StartsShape
\* The total goes on from the one before, or began again.
<1>13. /\ prev \subseteq Nat /\ now \notin prev /\ Rollouts!Previous(v, Len(v)) = prev
       /\ \A d \in files[f].total :
            d \in prev \/ (d \in files[f].lost /\ Newer(files, uses, f, Len(u), d))
       /\ \/ prev \subseteq files[f].total
          \/ \A d \in files[f].total : d \in files[f].lost /\ Newer(files, uses, f, Len(u), d)
  <2>1. CASE Len(u) = 0
    <3>1. prev = {}
      BY <2>1 DEF LastTold
    <3>2. Rollouts!Previous(v, Len(v)) = {}
      BY <1>11, <2>1 DEF Rollouts!Previous
    <3> QED
      BY <1>1, <3>1, <3>2 DEF Shaped, Ahead
  <2>2. CASE Len(u) # 0
    <3>1. Len(u) \in 1 .. Len(u) /\ Len(v) # 1 /\ Len(v) - 1 = Len(u)
      BY <1>2, <1>11, <2>2
    <3>2. prev = u[Len(u)].total
      BY <2>2 DEF LastTold
    <3>3. Rollouts!Previous(v, Len(v)) = prev
      BY <1>11, <3>1, <3>2 DEF Rollouts!Previous
    <3>4. prev \subseteq Nat /\ \A m \in prev : m <= Len(uses)
      BY <1>9, <3>1, <3>2
    <3>5. now \notin prev
      BY <1>2, <3>4
    <3> QED
      BY <1>1, <3>3, <3>4, <3>5 DEF Shaped, Ahead
  <2> QED
    BY <2>1, <2>2
<1> HIDE DEF prev
<1>20. /\ now \in Rollouts!Delta(v, Len(v))
       /\ \A d \in Rollouts!Delta(v, Len(v)) :
            d = now \/ (d \in files[f].lost /\ Newer(files, uses, f, Len(u), d))
  <2>1. v[Len(v)].total = total
    BY <1>6, <1>11
  <2> HIDE DEF now, u
  <2>2. CASE prev \subseteq total
    <3>1. Rollouts!Delta(v, Len(v)) = total \ prev
      BY <1>13, <2>1, <2>2 DEF Rollouts!Delta, Rollouts!BeganAgain
    <3> QED
      BY <1>13, <3>1
  <2>3. CASE ~(prev \subseteq total)
    <3>1. Rollouts!Delta(v, Len(v)) = total
      BY <1>13, <2>1, <2>3 DEF Rollouts!Delta, Rollouts!BeganAgain
    <3>2. ~(prev \subseteq files[f].total)
      BY <2>3
    <3> QED
      BY <1>13, <3>1, <3>2
  <2> QED
    BY <2>2, <2>3
<1>14. Own(files', uses', f, Len(v))
  <2>1. now \in 1 .. Len(uses') /\ uses'[now] = files'[f].session
    BY <1>2, <1>4, <1>5, <1>7
  <2>2. ASSUME NEW j \in 1 .. Len(v) - 1, NEW m \in v[j].total PROVE m < now
    <3>1. j \in 1 .. Len(u) /\ v[j] = u[j]
      BY <1>2, <1>11
    <3>2. m <= Len(uses) /\ m \in Nat
      BY <1>9, <3>1
    <3> QED
      BY <1>2, <3>2
  <2>3. v[Len(v)].time = now
    BY <1>6, <1>11
  <2>4. Newer(files', uses', f, Len(v) - 1, now)
    BY <2>1, <2>2 DEF Newer, v
  <2>5. ASSUME NEW d, d \in files[f].lost, Newer(files, uses, f, Len(u), d)
        PROVE  Newer(files', uses', f, Len(v) - 1, d) /\ d \in files'[f].lost
    <3>1. d \in 1 .. Len(uses) /\ uses[d] = s /\ \A j \in 1 .. Len(u) : \A m \in u[j].total : m < d
      BY <2>5 DEF Newer
    <3>2. d \in 1 .. Len(uses') /\ uses'[d] = files'[f].session
      BY <1>2, <1>4, <1>5, <1>7, <3>1
    <3>3. ASSUME NEW j \in 1 .. Len(v) - 1 PROVE j \in 1 .. Len(u) /\ v[j] = u[j]
      BY <1>2, <1>11
    <3>4. \A j \in 1 .. Len(v) - 1 : \A m \in v[j].total : m < d
      BY <3>1, <3>3
    <3>5. d \in files'[f].lost
      BY <1>5, <1>7, <2>5
    <3> QED
      BY <3>2, <3>4, <3>5 DEF Newer, v
  <2>6. ASSUME NEW d \in Rollouts!Delta(v, Len(v))
        PROVE  Newer(files', uses', f, Len(v) - 1, d) /\ (d = now \/ d \in files'[f].lost)
    BY <1>20, <2>4, <2>5
  <2> HIDE DEF now
  <2> QED
    BY <1>20, <2>3, <2>6 DEF Own, v
<1>15. Writes(files, uses, files', uses', f)
  <2>1. \A k \in Len(u) + 1 .. Len(v) : Own(files', uses', f, k) /\ v[k].time > Len(uses)
    <3>1. ASSUME NEW k \in Len(u) + 1 .. Len(v) PROVE k = Len(v)
      BY <1>2, <1>11
    <3>2. v[Len(v)].time > Len(uses)
      BY <1>2, <1>6, <1>11
    <3> QED
      BY <1>14, <3>1, <3>2
  <2>2. files[f].mod <= now /\ Len(uses) <= Len(uses')
    BY <1>1, <1>2, <1>4 DEF Shaped
  <2>3. LosesOnward(files[f], files'[f], Len(uses))
    BY <1>5, <1>7 DEF LosesOnward
  <2> QED
    BY <1>4, <1>5, <1>7, <1>8, <1>12, <2>1, <2>2, <2>3 DEF Writes, v
<1>16. SessionsOf(files') = SessionsOf(files)
  <2>1. DOMAIN files' = 1 .. Len(files)
    BY <1>2, <1>7
  <2> QED
    BY <1>2, <1>5, <1>7, <2>1 DEF SessionsOf
<1>17. Shaped(files', uses', f)
  <2>1. x.mod <= Len(uses') + 1 /\ x.started <= Len(uses') + 1
    BY <1>1, <1>2, <1>4, <1>5 DEF Shaped
  <2>2. x.unread = -1 \/ x.unread \in 0 .. Len(x.records)
    <3>1. Len(x.records) = Len(files[f].records) + 1 /\ Len(files[f].records) \in Nat
      BY <1>2, <1>5, <1>6, AppendShape
    <3>2. x.unread = -1 \/ x.unread \in 0 .. Len(files[f].records)
      BY <1>1, <1>5 DEF Shaped
    <3> QED
      BY <3>1, <3>2
  <2>3. Ahead(files', uses', f)
    <3>1. Len(v) # 0 /\ files'[f].total = v[Len(v)].total
      <4>1. v[Len(v)].total = total /\ files'[f].total = total
        BY <1>5, <1>6, <1>7, <1>11
      <4>2. Len(v) # 0
        BY <1>2, <1>11
      <4> QED
        BY <4>1, <4>2
    <3>2. files'[f].total = LastTold(files', f)
      BY <3>1 DEF LastTold, v
    <3> QED
      BY <3>2, AheadTold
  <2>5. \A d \in x.lost : d <= x.mod
    <3>1. /\ \A d \in files[f].lost : d \in Nat /\ d <= files[f].mod
          /\ files[f].mod <= now
      BY <1>1, KeptShape DEF Shaped
    <3> QED
      BY <1>2, <1>5, <3>1
  <2>4. x.session \in 1 .. Cardinality(SessionsOf(files')) /\ x.parent < x.session
    BY <1>1, <1>5, <1>16 DEF Shaped
  <2> QED
    BY <1>7, <2>1, <2>2, <2>3, <2>4, <2>5 DEF Shaped
<1>18. Grown(files', uses', f)
  <2>1. SUFFICES ASSUME NEW k \in 1 .. Len(v)
                 PROVE  /\ v[k].time <= x.mod
                        /\ v[k].time <= Len(uses') \/ (x.parent # 0 /\ v[k].time = x.started)
                        /\ v[k].total # {}
                        /\ \A m \in v[k].total : m \in 1 .. Len(uses') /\ uses'[m] <= x.session
                        /\ \A j \in 1 .. k - 1 : \E n \in v[k].total : \A m \in v[j].total : m < n
    BY <1>7 DEF Grown, v
  <2>2. CASE k \in 1 .. Len(u)
    <3>1. v[k] = u[k] /\ \A j \in 1 .. k - 1 : v[j] = u[j]
      <4> HIDE DEF u
      <4>1. \A j \in 1 .. k - 1 : j \in 1 .. Len(u)
        BY <1>2, <2>2
      <4> QED
        BY <1>11, <2>2, <4>1
    <3>2. /\ u[k].time <= files[f].mod
          /\ u[k].time <= Len(uses) \/ (files[f].parent # 0 /\ u[k].time = files[f].started)
          /\ u[k].total # {}
          /\ \A m \in u[k].total : m \in 1 .. Len(uses) /\ uses[m] <= files[f].session
          /\ \A j \in 1 .. k - 1 : \E n \in u[k].total : \A m \in u[j].total : m < n
      BY <1>1, <2>2 DEF Grown
    <3>3. u[k].time \in Nat /\ files[f].mod <= now
      BY <1>1, <1>2, <2>2, FileShape DEF Shaped
    <3> HIDE DEF u
    <3>4. v[k].time <= x.mod /\ (u[k].time <= Len(uses) => v[k].time <= Len(uses'))
      <4> DEFINE a == u[k].time
                 b == files[f].mod
      <4> HIDE DEF now
      <4>0. a \in Nat /\ b \in Nat /\ now \in Nat /\ a <= b /\ b <= now
        BY <1>2, <3>2, <3>3
      <4> HIDE DEF a, b
      <4>3. a <= now
        BY <4>0
      <4>1. u[k].time <= now
        BY <4>3 DEF a
      <4>2. u[k].time <= Len(uses) => u[k].time <= now
        BY <4>1
      <4> QED
        BY <1>4, <1>5, <3>1, <4>1, <4>2
    <3>5. ASSUME NEW m \in v[k].total PROVE m \in 1 .. Len(uses') /\ uses'[m] <= x.session
      <4>1. m \in 1 .. Len(uses) /\ uses[m] <= s
        BY <3>1, <3>2
      <4>2. uses'[m] = uses[m]
        BY <1>4, <4>1
      <4>3. m \in 1 .. Len(uses')
        BY <1>2, <1>4, <4>1
      <4> QED
        BY <1>5, <4>1, <4>2, <4>3
    <3>6. \A j \in 1 .. k - 1 : \E n \in v[k].total : \A m \in v[j].total : m < n
      BY <3>1, <3>2
    <3> QED
      BY <1>5, <3>1, <3>2, <3>4, <3>5, <3>6
  <2>3. CASE k = Len(v)
    <3>1. v[k].time = now /\ v[k].total = total
      BY <1>6, <1>11, <2>3
    <3>2. now <= x.mod /\ now <= Len(uses') /\ total # {} /\ now \in 1 .. Len(uses')
      BY <1>2, <1>4, <1>5
    <3>7. s <= x.session /\ uses'[now] = s
      <4>1. x.session = s /\ s \in Nat
        BY <1>2, <1>5
      <4> HIDE DEF s
      <4> QED
        BY <1>4, <4>1
    <3>3. ASSUME NEW m \in files[f].total PROVE m \in 1 .. Len(uses') /\ uses'[m] <= x.session
      <4>1. m \in prev \/ Newer(files, uses, f, Len(u), m)
        BY <1>13
      <4>2. CASE m \in prev
        <5>1. Len(u) # 0 /\ m \in u[Len(u)].total
          BY <4>2 DEF prev, LastTold
        <5>2. Len(u) \in 1 .. Len(u)
          BY <1>2, <5>1
        <5>3. m \in 1 .. Len(uses) /\ uses[m] <= files[f].session
          BY <1>1, <5>1, <5>2 DEF Grown
        <5> QED
          BY <1>2, <1>4, <1>5, <5>3
      <4>3. CASE Newer(files, uses, f, Len(u), m)
        <5>1. m \in 1 .. Len(uses) /\ uses[m] = s
          BY <4>3 DEF Newer
        <5>2. m \in 1 .. Len(uses') /\ uses'[m] = uses[m]
          BY <1>2, <1>4, <5>1
        <5> HIDE DEF s
        <5> QED
          BY <3>7, <5>1, <5>2
      <4> QED
        BY <4>1, <4>2, <4>3
    <3>4. uses'[now] <= x.session
      BY <3>7
    <3>5. \A m \in total : m \in 1 .. Len(uses') /\ uses'[m] <= x.session
      BY <3>2, <3>3, <3>4
    <3>6. ASSUME NEW j \in 1 .. k - 1, NEW m \in v[j].total PROVE m < now
      <4>1. j \in 1 .. Len(u) /\ v[j] = u[j]
        BY <1>2, <1>11, <2>3
      <4>2. m <= Len(uses) /\ m \in Nat
        BY <1>9, <4>1
      <4> QED
        BY <1>2, <4>2
    <3> QED
      BY <3>1, <3>2, <3>5, <3>6
  <2>4. k \in 1 .. Len(u) \/ k = Len(v)
    BY <1>2, <1>11
  <2> QED
    BY <2>2, <2>3, <2>4
<1>19. ASSUME NEW n \in Len(uses) + 1 .. Len(uses')
       PROVE  ToldNow(files', uses', f, n)
  <2>1. n = now
    BY <1>2, <1>4
  <2>2. Len(v) \in 1 .. Len(v) /\ v[Len(v)].time = now
    BY <1>2, <1>6, <1>11
  <2> QED
    BY <1>14, <2>1, <2>2 DEF ToldNow, v
<1>21. Calm(files, files')
  BY <1>5, <1>7 DEF Calm
<1>22. FilesInv(files', uses') /\ Onward(files, uses, files', uses')
  BY <1>1, <1>15, <1>17, <1>18, <1>19, WritesKeep
<1> QED
  BY <1>21, <1>22

\* A use whose record is lost with its line.
LEMMA LoseKeeps ==
  ASSUME FilesInv(files, uses), NEW f \in DOMAIN files, Rollouts!Lose(f)
  PROVE  FilesInv(files', uses') /\ Onward(files, uses, files', uses')
<1> DEFINE now == Len(uses) + 1
           s == files[f].session
           u == Hist(files, f)
<1>1. FilesTyped(files, uses) /\ Shaped(files, uses, f) /\ Grown(files, uses, f)
      /\ f \in 1 .. Len(files)
  <2>1. FilesTyped(files, uses)
    BY DEF FilesInv
  <2>2. f \in 1 .. Len(files)
    BY <2>1, KeptShape
  <2> QED
    BY <2>1, <2>2 DEF FilesInv
<1>2. /\ files \in Seq(Kept) /\ files[f] \in Kept /\ files[f].records \in Seq(Mention)
      /\ files[f].total \subseteq Nat /\ files[f].lost \subseteq Nat
      /\ s \in Nat /\ files[f].mod \in Nat
      /\ uses \in Seq(Nat) /\ Len(uses) \in Nat /\ now \in Nat
      /\ u \in Seq(Mention) /\ Len(u) \in Nat
  BY <1>1, KeptShape, FileShape DEF FilesTyped
<1>3. PICK total \in {Rollouts!Resumed(f), files[f].total \cup {now}} :
        Rollouts!Written(f, [files[f] EXCEPT !.total = total, !.lost = @ \cup {now}, !.torn = TRUE])
  BY DEF Rollouts!Lose, Rollouts!Now
<1>4. LastTold(files, f) \subseteq Nat
      /\ \A j \in 1 .. Len(u) : \A m \in u[j].total : m \in Nat /\ m <= Len(uses)
  <2>1. \A j \in 1 .. Len(u) : \A m \in u[j].total : m \in Nat /\ m <= Len(uses)
    <3>1. \A j \in 1 .. Len(u) : \A m \in u[j].total : m \in 1 .. Len(uses)
      BY <1>1 DEF Grown
    <3> QED
      BY <1>2, <3>1
  <2>2. Len(u) # 0 => Len(u) \in 1 .. Len(u)
    BY <1>2
  <2> QED
    BY <2>1, <2>2 DEF LastTold
<1>5. total \in SUBSET Nat
      /\ (total = {} \/ total = LastTold(files, f) \/ total = files[f].total \cup {now})
  <2>1. Rollouts!Resumed(f) = {} \/ Rollouts!Resumed(f) = LastTold(files, f)
    BY <1>1, ToldIsLast DEF Rollouts!Resumed
  <2> QED
    BY <1>2, <1>3, <1>4, <2>1
<1> DEFINE lost == files[f].lost \cup {now}
           y1 == [files[f] EXCEPT !.total = total]
           y2 == [y1 EXCEPT !.lost = lost]
           y3 == [y2 EXCEPT !.torn = TRUE]
           x == Stamp(y3, now)
<1>6. uses' = Append(uses, s) /\ files' = [files EXCEPT ![f] = x]
  BY <1>3 DEF Rollouts!Lose, Rollouts!Used, Rollouts!Written, Rollouts!Now, Stamp
<1>7. /\ Len(uses') = now /\ uses' \in Seq(Nat) /\ uses'[now] = s
      /\ \A n \in 1 .. Len(uses) : uses'[n] = uses[n]
  BY <1>2, <1>6
<1>8. lost \in SUBSET Nat
  BY <1>2
<1> HIDE DEF lost
<1>9. /\ x \in Kept /\ x.session = s /\ x.parent = files[f].parent
      /\ x.started = files[f].started /\ x.total = total /\ x.unread = files[f].unread
      /\ x.mod = now /\ x.records = files[f].records /\ x.lost = lost /\ x.torn
  <2>1. /\ y1 \in Kept /\ y1.session = s /\ y1.parent = files[f].parent
        /\ y1.started = files[f].started /\ y1.total = total /\ y1.unread = files[f].unread
        /\ y1.records = files[f].records
    BY <1>2, <1>5 DEF Kept
  <2> HIDE DEF y1
  <2>2. /\ y2 \in Kept /\ y2.session = s /\ y2.parent = files[f].parent
        /\ y2.started = files[f].started /\ y2.total = total /\ y2.unread = files[f].unread
        /\ y2.records = files[f].records /\ y2.lost = lost
    BY <1>8, <2>1 DEF Kept
  <2> HIDE DEF y2
  <2>3. /\ y3 \in Kept /\ y3.session = s /\ y3.parent = files[f].parent
        /\ y3.started = files[f].started /\ y3.total = total /\ y3.unread = files[f].unread
        /\ y3.records = files[f].records /\ y3.lost = lost /\ y3.torn
    BY <2>2 DEF Kept
  <2> HIDE DEF y3, now, s
  <2>4. Renewed(x, y3, y3.records, now)
    BY <1>2, <2>3, Stamped
  <2> HIDE DEF x
  <2> QED
    BY <2>3, <2>4 DEF Renewed
<1> HIDE DEF x
<1>10. files'[f] = x /\ Hist(files', f) = u
  <2>1. files'[f] = x
    BY <1>1, <1>2, <1>6
  <2> QED
    BY <1>9, <2>1 DEF Hist
<1>11. Ahead(files', uses', f)
  <2>1. LastTold(files', f) = LastTold(files, f)
    BY <1>10 DEF LastTold
  <2>2. CASE total = {} \/ total = LastTold(files, f)
    BY <1>9, <1>10, <2>1, <2>2, AheadTold
  <2>3. CASE total = files[f].total \cup {now}
    <3>1. /\ \A d \in files[f].total :
               d \in LastTold(files, f) \/ (d \in files[f].lost /\ Newer(files, uses, f, Len(u), d))
          /\ \/ LastTold(files, f) \subseteq files[f].total
             \/ \A d \in files[f].total : d \in files[f].lost /\ Newer(files, uses, f, Len(u), d)
      BY <1>1 DEF Shaped, Ahead
    <3>2. ASSUME NEW d, d \in files[f].lost, Newer(files, uses, f, Len(u), d)
          PROVE  d \in lost /\ Newer(files', uses', f, Len(u), d)
      <4>1. d \in 1 .. Len(uses) /\ uses[d] = s /\ \A j \in 1 .. Len(u) : \A m \in u[j].total : m < d
        BY <3>2 DEF Newer
      <4>2. d \in 1 .. Len(uses') /\ uses'[d] = files'[f].session
        BY <1>2, <1>7, <1>9, <1>10, <4>1
      <4> QED
        BY <1>10, <3>2, <4>1, <4>2 DEF Newer, lost
    <3>3. now \in lost /\ Newer(files', uses', f, Len(u), now)
      <4>1. now \in 1 .. Len(uses') /\ uses'[now] = files'[f].session
        BY <1>2, <1>7, <1>9, <1>10
      <4>2. \A j \in 1 .. Len(u) : \A m \in u[j].total : m < now
        BY <1>2, <1>4
      <4> QED
        BY <1>10, <4>1, <4>2 DEF Newer, lost
    <3> HIDE DEF now, u
    <3>4. \A d \in total : d \in files[f].total \/ d = now
      BY <2>3
    <3>5. \A d \in total : d \in LastTold(files, f) \/ (d \in lost /\ Newer(files', uses', f, Len(u), d))
      BY <3>1, <3>2, <3>3, <3>4
    <3>6. \/ LastTold(files, f) \subseteq total
          \/ \A d \in total : d \in lost /\ Newer(files', uses', f, Len(u), d)
      <4>1. CASE LastTold(files, f) \subseteq files[f].total
        BY <2>3, <4>1
      <4>2. CASE \A d \in files[f].total : d \in files[f].lost /\ Newer(files, uses, f, Len(u), d)
        BY <3>2, <3>3, <3>4, <4>2
      <4> QED
        BY <3>1, <4>1, <4>2
    <3> QED
      BY <1>9, <1>10, <2>1, <3>5, <3>6 DEF Ahead
  <2> QED
    BY <1>5, <2>2, <2>3
<1>12. LosesOnward(files[f], x, Len(uses))
  BY <1>2, <1>9 DEF LosesOnward, lost
<1>13. /\ files[f].mod <= x.mod /\ x.mod <= Len(uses') + 1 /\ Len(uses) <= Len(uses')
       /\ x.unread = -1 \/ x.unread \in 0 .. Len(x.records)
       /\ \A d \in x.lost : d <= x.mod
       /\ \A n \in Len(uses) + 1 .. Len(uses') : n \in x.lost /\ x.torn
  <2>1. /\ files[f].mod <= now /\ \A d \in files[f].lost : d <= files[f].mod
        /\ files[f].unread = -1 \/ files[f].unread \in 0 .. Len(files[f].records)
    BY <1>1 DEF Shaped
  <2>2. \A d \in lost : d <= now
    BY <1>2, <2>1 DEF lost
  <2>3. \A n \in Len(uses) + 1 .. Len(uses') : n = now
    BY <1>2, <1>7
  <2>4. now \in lost
    BY DEF lost
  <2>5. now <= Len(uses') + 1 /\ Len(uses) <= Len(uses')
    BY <1>2, <1>7
  <2> HIDE DEF now
  <2> QED
    BY <1>9, <2>1, <2>2, <2>3, <2>4, <2>5
<1>14. Rollouts!Distinct(x.records) = Hist(files, f)
  BY <1>9 DEF Hist
<1> QED
  BY <1>1, <1>6, <1>7, <1>9, <1>11, <1>12, <1>13, <1>14, QuietKeeps

-----------------------------------------------------------------------------
(* A file is created.                                                      *)

\* A file is created: the others are as they were.
Creates(fs, us, gs, x) ==
  /\ FilesTyped(gs, us) /\ Len(fs) \in Nat /\ Len(us) \in Nat
  /\ Len(gs) = Len(fs) + 1 /\ Len(gs) \in 1 .. Len(gs) /\ gs[Len(gs)] = x
  /\ \A h \in 1 .. Len(fs) : gs[h] = fs[h] /\ Hist(gs, h) = Hist(fs, h) /\ h \in 1 .. Len(gs)
  /\ \A h \in 1 .. Len(gs) : h \in 1 .. Len(fs) \/ h = Len(gs)
  /\ SessionsOf(gs) = SessionsOf(fs) \cup {x.session} /\ IsFiniteSet(SessionsOf(gs))
  /\ Cardinality(SessionsOf(fs)) \in Nat /\ Cardinality(SessionsOf(gs)) \in Nat
  /\ Cardinality(SessionsOf(fs)) <= Cardinality(SessionsOf(gs))
  /\ x.session \notin SessionsOf(fs) => Cardinality(SessionsOf(gs)) = Cardinality(SessionsOf(fs)) + 1
  /\ Onward(fs, us, gs, us) /\ Calm(fs, gs)

LEMMA CreatesShape ==
  ASSUME NEW fs, NEW us, FilesInv(fs, us), NEW x \in Kept
  PROVE  Creates(fs, us, Append(fs, x), x)
<1> DEFINE gs == Append(fs, x)
<1>1. FilesTyped(fs, us) /\ IsFiniteSet(SessionsOf(fs))
  BY DEF FilesInv
<1>2. fs \in Seq(Kept) /\ us \in Seq(Nat) /\ Len(fs) \in Nat /\ Len(us) \in Nat
      /\ DOMAIN fs = 1 .. Len(fs)
  BY <1>1, KeptShape DEF FilesTyped
<1>3. /\ gs \in Seq(Kept) /\ Len(gs) = Len(fs) + 1 /\ gs[Len(fs) + 1] = x
      /\ \A h \in 1 .. Len(fs) : gs[h] = fs[h]
      /\ DOMAIN gs = 1 .. Len(fs) + 1
  BY <1>2
<1> HIDE DEF gs
<1>4. FilesTyped(gs, us)
  BY <1>2, <1>3 DEF FilesTyped
<1>5. /\ Len(gs) \in 1 .. Len(gs)
      /\ \A h \in 1 .. Len(gs) : h \in 1 .. Len(fs) \/ h = Len(gs)
      /\ \A h \in 1 .. Len(fs) : h \in 1 .. Len(gs)
  BY <1>2, <1>3
<1>6. \A h \in 1 .. Len(fs) : Hist(gs, h) = Hist(fs, h)
  BY <1>3 DEF Hist
<1>7. SessionsOf(gs) = SessionsOf(fs) \cup {x.session}
  <2>1. ASSUME NEW h \in DOMAIN gs PROVE gs[h].session \in SessionsOf(fs) \cup {x.session}
    <3>1. h \in DOMAIN fs \/ h = Len(gs)
      BY <1>2, <1>3, <1>5
    <3> QED
      BY <1>2, <1>3, <3>1 DEF SessionsOf
  <2>2. ASSUME NEW h \in DOMAIN fs PROVE h \in DOMAIN gs /\ gs[h].session = fs[h].session
    BY <1>2, <1>3
  <2>3. Len(gs) \in DOMAIN gs /\ gs[Len(gs)].session = x.session
    BY <1>2, <1>3
  <2>4. SessionsOf(gs) \subseteq SessionsOf(fs) \cup {x.session}
    BY <2>1 DEF SessionsOf
  <2>5. SessionsOf(fs) \subseteq SessionsOf(gs)
    BY <2>2 DEF SessionsOf
  <2>6. x.session \in SessionsOf(gs)
    BY <2>3 DEF SessionsOf
  <2> QED
    BY <2>4, <2>5, <2>6
<1>8. /\ IsFiniteSet(SessionsOf(gs)) /\ Cardinality(SessionsOf(fs)) \in Nat
      /\ Cardinality(SessionsOf(gs)) = IF x.session \in SessionsOf(fs) THEN Cardinality(SessionsOf(fs))
                                       ELSE Cardinality(SessionsOf(fs)) + 1
  BY <1>1, <1>7, FS_AddElement, FS_CardinalityType
<1>9. ASSUME NEW h \in 1 .. Len(fs)
      PROVE  /\ gs[h].session = fs[h].session /\ gs[h].parent = fs[h].parent
             /\ gs[h].started = fs[h].started /\ fs[h].mod <= gs[h].mod
             /\ LosesOnward(fs[h], gs[h], Len(us))
             /\ Rollouts!StartsWith(Hist(gs, h), Hist(fs, h))
             /\ \A k \in Len(Hist(fs, h)) + 1 .. Len(Hist(gs, h)) :
                  Own(gs, us, h, k) /\ Hist(gs, h)[k].time > Len(us)
  <2>1. gs[h] = fs[h] /\ Hist(gs, h) = Hist(fs, h)
    BY <1>3, <1>6
  <2>2. fs[h].mod \in Nat /\ Hist(fs, h) \in Seq(Mention) /\ Len(Hist(fs, h)) \in Nat
    BY <1>1, FileShape
  <2>3. fs[h].mod <= fs[h].mod /\ Rollouts!StartsWith(Hist(fs, h), Hist(fs, h))
    BY <2>2, StartsShape
  <2>4. \A k \in Len(Hist(fs, h)) + 1 .. Len(Hist(gs, h)) : FALSE
    BY <2>1, <2>2
  <2>5. LosesOnward(fs[h], gs[h], Len(us))
    BY <2>1 DEF LosesOnward
  <2> QED
    BY <2>1, <2>3, <2>4, <2>5
<1>10. Onward(fs, us, gs, us) /\ Calm(fs, gs)
  BY <1>2, <1>3, <1>9 DEF Onward, Calm
<1>11. Cardinality(SessionsOf(gs)) \in Nat
       /\ Cardinality(SessionsOf(fs)) <= Cardinality(SessionsOf(gs))
  BY <1>8
<1>12. x.session \notin SessionsOf(fs) => Cardinality(SessionsOf(gs)) = Cardinality(SessionsOf(fs)) + 1
  BY <1>8
<1>13. Creates(fs, us, gs, x)
  BY <1>2, <1>3, <1>4, <1>5, <1>6, <1>7, <1>8, <1>10, <1>11, <1>12 DEF Creates
<1> QED
  BY <1>13 DEF gs

LEMMA CreatesKeep ==
  ASSUME NEW fs, NEW us, FilesInv(fs, us), NEW gs, NEW x, Creates(fs, us, gs, x),
         Shaped(gs, us, Len(gs)), Grown(gs, us, Len(gs)), Origin(gs, us, Len(gs)),
         \A h \in 1 .. Len(fs) :
           fs[h].session = x.session => fs[h].parent = x.parent /\ fs[h].started = x.started
  PROVE  FilesInv(gs, us) /\ Onward(fs, us, gs, us) /\ Calm(fs, gs)
<1>1. /\ FilesTyped(fs, us) /\ FilesTyped(gs, us) /\ Onward(fs, us, gs, us) /\ Len(us) \in Nat
      /\ Calm(fs, gs)
  BY DEF FilesInv, Creates
<1>2. ASSUME NEW h \in 1 .. Len(gs) PROVE Shaped(gs, us, h) /\ Grown(gs, us, h) /\ Origin(gs, us, h)
  <2>1. CASE h = Len(gs)
    BY <2>1
  <2>2. CASE h \in 1 .. Len(fs)
    <3>1. Origin(gs, us, h)
      BY <1>1, <2>2, OriginStays
    <3>2. gs[h] = fs[h] /\ Hist(gs, h) = Hist(fs, h)
      BY <2>2 DEF Creates
    <3>3. Shaped(fs, us, h) /\ Grown(fs, us, h)
      BY <2>2 DEF FilesInv
    <3>4. fs[h].mod \in Nat /\ fs[h].session \in Nat
          /\ \A k \in 1 .. Len(Hist(fs, h)) : Hist(fs, h)[k].time \in Nat
      BY <1>1, <2>2, FileShape
    <3>5. Len(us) <= Len(us) /\ fs[h].mod <= fs[h].mod
      BY <1>1, <3>4
    <3>6. Grown(gs, us, h)
      BY <1>1, <3>2, <3>3, <3>4, <3>5, GrownStays
    <3>7. fs[h].session \in 1 .. Cardinality(SessionsOf(gs))
      <4>1. fs[h].session \in 1 .. Cardinality(SessionsOf(fs))
        BY <3>3 DEF Shaped
      <4>2. /\ Cardinality(SessionsOf(fs)) \in Nat /\ Cardinality(SessionsOf(gs)) \in Nat
            /\ Cardinality(SessionsOf(fs)) <= Cardinality(SessionsOf(gs))
        BY DEF Creates
      <4> QED
        BY <4>1, <4>2
    <3>9. Ahead(gs, us, h)
      <4>1. Ahead(fs, us, h)
        BY <3>3 DEF Shaped
      <4> QED
        BY <1>1, <3>2, <3>5, <4>1, AheadStays
    <3>8. Shaped(gs, us, h)
      BY <3>2, <3>3, <3>7, <3>9 DEF Shaped
    <3> QED
      BY <3>1, <3>6, <3>8
  <2> QED
    BY <2>1, <2>2 DEF Creates
<1>3. OneOrigin(gs)
  <2>1. ASSUME NEW f \in 1 .. Len(gs), NEW g \in 1 .. Len(gs), gs[f].session = gs[g].session
        PROVE  gs[f].parent = gs[g].parent /\ gs[f].started = gs[g].started
    <3>1. (f \in 1 .. Len(fs) /\ gs[f] = fs[f]) \/ (f = Len(gs) /\ gs[f] = x)
      BY DEF Creates
    <3>2. (g \in 1 .. Len(fs) /\ gs[g] = fs[g]) \/ (g = Len(gs) /\ gs[g] = x)
      BY DEF Creates
    <3>3. CASE f \in 1 .. Len(fs) /\ gs[f] = fs[f] /\ g \in 1 .. Len(fs) /\ gs[g] = fs[g]
      BY <2>1, <3>3 DEF FilesInv, OneOrigin
    <3> QED
      BY <2>1, <3>1, <3>2, <3>3
  <2> QED
    BY <2>1 DEF OneOrigin
<1>4. UsesAreTold(gs, us, Len(gs), Len(us))
  <2>0. Len(fs) \in 0 .. Len(fs) /\ UsesAreTold(fs, us, Len(fs), Len(us))
    BY DEF FilesInv, Creates
  <2>1. UsesAreTold(gs, us, Len(fs), Len(us))
    BY <1>1, <2>0, UsesStayTold
  <2>2. \A h \in 1 .. Len(fs) : h \in 1 .. Len(gs)
    BY DEF Creates
  <2> QED
    BY <2>1, <2>2 DEF UsesAreTold
<1>5. IsFiniteSet(SessionsOf(gs))
  BY DEF Creates
<1> QED
  BY <1>1, <1>2, <1>3, <1>4, <1>5 DEF FilesInv

\* Sessions are numbered in turn.
LEMMA SessionIsFresh ==
  ASSUME NEW fs, NEW us, FilesInv(fs, us)
  PROVE  /\ Cardinality(SessionsOf(fs)) \in Nat
         /\ Cardinality(SessionsOf(fs)) + 1 \notin SessionsOf(fs)
         /\ \A h \in 1 .. Len(fs) : fs[h].session # Cardinality(SessionsOf(fs)) + 1
<1>1. Cardinality(SessionsOf(fs)) \in Nat
  BY FS_CardinalityType DEF FilesInv
<1>2. DOMAIN fs = 1 .. Len(fs)
  BY KeptShape DEF FilesInv
<1>3. ASSUME NEW h \in 1 .. Len(fs) PROVE fs[h].session # Cardinality(SessionsOf(fs)) + 1
  <2>1. fs[h].session \in 1 .. Cardinality(SessionsOf(fs))
    BY DEF FilesInv, Shaped
  <2> QED
    BY <1>1, <2>1
<1> QED
  BY <1>1, <1>2, <1>3 DEF SessionsOf

LEMMA NewSessionIs == Rollouts!NewSession = Cardinality(SessionsOf(files)) + 1
BY SameRolloutNotions DEF Rollouts!NewSession, Rollouts!Sessions, SessionsOf

LEMMA BeginKeeps ==
  ASSUME FilesInv(files, uses), Rollouts!Begin
  PROVE  FilesInv(files', uses') /\ Onward(files, uses, files', uses') /\ Calm(files, files')
<1> DEFINE s == Cardinality(SessionsOf(files)) + 1
           now == Len(uses) + 1
           y == [session |-> s, parent |-> 0, started |-> now, records |-> <<>>,
                 total |-> {}, lost |-> {}, torn |-> FALSE, unread |-> -1, mod |-> 0]
           x == Stamp(y, now)
           gs == Append(files, x)
<1>1. s \in Nat /\ s > 0 /\ now \in Nat /\ now >= 1 /\ s \notin SessionsOf(files)
      /\ \A h \in 1 .. Len(files) : files[h].session # s
  <2>1. Len(uses) \in Nat
    BY KeptShape DEF FilesInv
  <2> QED
    BY <2>1, SessionIsFresh
<1>2. files' = gs /\ uses' = uses
  BY NewSessionIs DEF Rollouts!Begin, Rollouts!Created, Rollouts!Now, Rollouts!NoSession, Stamp
<1> HIDE DEF s, now
<1>3. /\ y \in Kept /\ y.session = s /\ y.parent = 0 /\ y.started = now /\ y.records = <<>>
      /\ y.total = {} /\ y.lost = {} /\ y.unread = -1
  BY <1>1 DEF Kept
<1> HIDE DEF y
<1>4. /\ x \in Kept /\ x.session = s /\ x.parent = 0 /\ x.started = now /\ x.records = <<>>
      /\ x.total = {} /\ x.lost = {} /\ x.unread = -1 /\ x.mod = now
  <2>1. Renewed(x, y, y.records, now)
    BY <1>1, <1>3, Stamped
  <2> HIDE DEF x
  <2> QED
    BY <1>3, <2>1 DEF Renewed
<1> HIDE DEF x
<1>5. Creates(files, uses, gs, x)
  BY <1>4, CreatesShape
<1> HIDE DEF gs
<1>6. Hist(gs, Len(gs)) = <<>> /\ Len(Hist(gs, Len(gs))) = 0
  BY <1>4, <1>5, NothingTold DEF Creates, Hist
<1>7. Shaped(gs, uses, Len(gs))
  <2>1. s \in 1 .. Cardinality(SessionsOf(gs)) /\ now <= Len(uses) + 1
    BY <1>1, <1>4, <1>5 DEF Creates, s, now
  <2>2. gs[Len(gs)] = x
    BY <1>5 DEF Creates
  <2>3. Ahead(gs, uses, Len(gs))
    BY <1>4, <2>2, AheadTold
  <2> QED
    BY <1>1, <1>4, <2>1, <2>2, <2>3 DEF Shaped
<1>8. Grown(gs, uses, Len(gs))
  BY <1>6 DEF Grown
<1>9. Origin(gs, uses, Len(gs))
  <2>1. gs[Len(gs)] = x
    BY <1>5 DEF Creates
  <2> QED
    BY <1>4, <1>6, <2>1 DEF Origin
<1> QED
  BY <1>1, <1>2, <1>4, <1>5, <1>7, <1>8, <1>9, CreatesKeep

LEMMA CopyKeeps ==
  ASSUME FilesInv(files, uses), NEW f \in DOMAIN files, Rollouts!Copy(f)
  PROVE  FilesInv(files', uses') /\ Onward(files, uses, files', uses') /\ Calm(files, files')
<1> DEFINE now == Len(uses) + 1
           total == Rollouts!Resumed(f)
           y == [files[f] EXCEPT !.total = total, !.torn = FALSE, !.unread = -1]
           x == Stamp(y, now)
           gs == Append(files, x)
<1>1. FilesTyped(files, uses) /\ Shaped(files, uses, f) /\ Grown(files, uses, f)
      /\ f \in 1 .. Len(files)
  <2>1. FilesTyped(files, uses)
    BY DEF FilesInv
  <2>2. f \in 1 .. Len(files)
    BY <2>1, KeptShape
  <2> QED
    BY <2>1, <2>2 DEF FilesInv
<1>2. /\ files[f] \in Kept /\ Len(uses) \in Nat /\ now \in Nat /\ files[f].mod \in Nat
      /\ files[f].mod <= now
      /\ \A k \in 1 .. Len(Hist(files, f)) : Hist(files, f)[k].time \in Nat
  BY <1>1, KeptShape, FileShape DEF Shaped
<1>3. files' = gs /\ uses' = uses
  BY DEF Rollouts!Copy, Rollouts!Created, Rollouts!Now, Stamp
<1>0. /\ total \subseteq Nat /\ (total = {} \/ total = LastTold(files, f))
      /\ files[f].lost \subseteq Nat /\ files[f].total \subseteq Nat
  <2>1. total = {} \/ total = LastTold(files, f)
    BY <1>1, ToldIsLast DEF Rollouts!Resumed
  <2>2. LastTold(files, f) \subseteq Nat
    <3>1. CASE Len(Hist(files, f)) = 0
      BY <3>1 DEF LastTold
    <3>2. CASE Len(Hist(files, f)) # 0
      <4>1. Len(Hist(files, f)) \in 1 .. Len(Hist(files, f))
        BY <1>1, <3>2, KeptShape
      <4>2. Hist(files, f)[Len(Hist(files, f))] \in Mention
        BY <1>1, <4>1, KeptShape
      <4> QED
        BY <3>2, <4>2, MentionShape DEF LastTold
    <3> QED
      BY <3>1, <3>2
  <2>3. files[f].lost \subseteq Nat /\ files[f].total \subseteq Nat
    BY <1>1, KeptShape
  <2> QED
    BY <2>1, <2>2, <2>3
<1> HIDE DEF total
<1>4. /\ y \in Kept /\ y.session = files[f].session /\ y.parent = files[f].parent
      /\ y.started = files[f].started /\ y.total = total /\ y.unread = -1
      /\ y.records = files[f].records /\ y.lost = files[f].lost
  <2> DEFINE w == [files[f] EXCEPT !.total = total]
             z == [w EXCEPT !.torn = FALSE]
  <2>1. /\ w \in Kept /\ w.session = files[f].session /\ w.parent = files[f].parent
        /\ w.started = files[f].started /\ w.total = total /\ w.records = files[f].records
        /\ w.lost = files[f].lost
    BY <1>0, <1>2 DEF Kept
  <2>2. y = [z EXCEPT !.unread = -1]
    OBVIOUS
  <2> HIDE DEF w
  <2>4. /\ z \in Kept /\ z.session = w.session /\ z.parent = w.parent
        /\ z.started = w.started /\ z.total = w.total /\ z.records = w.records /\ z.lost = w.lost
    BY <2>1 DEF Kept
  <2> HIDE DEF z, y
  <2>3. /\ y \in Kept /\ y.session = z.session /\ y.parent = z.parent
        /\ y.started = z.started /\ y.total = z.total /\ y.unread = -1 /\ y.records = z.records
        /\ y.lost = z.lost
    BY <2>2, <2>4 DEF Kept
  <2> QED
    BY <2>1, <2>3, <2>4
<1> HIDE DEF y
<1>5. /\ x \in Kept /\ x.session = files[f].session /\ x.parent = files[f].parent
      /\ x.started = files[f].started /\ x.total = total /\ x.unread = -1
      /\ x.records = files[f].records /\ x.lost = files[f].lost /\ x.mod = now
  <2>1. Renewed(x, y, y.records, now)
    BY <1>2, <1>4, Stamped
  <2> HIDE DEF x
  <2> QED
    BY <1>4, <2>1 DEF Renewed
<1> HIDE DEF x
<1>6. Creates(files, uses, gs, x)
  BY <1>5, CreatesShape
<1> HIDE DEF gs
<1>7. /\ gs[Len(gs)] = x /\ gs[f] = files[f] /\ f \in 1 .. Len(gs) /\ Len(gs) \in 1 .. Len(gs)
      /\ FilesTyped(gs, uses) /\ Onward(files, uses, gs, uses)
  BY <1>1, <1>6 DEF Creates
<1>8. Hist(gs, Len(gs)) = Hist(gs, f) /\ Hist(gs, Len(gs)) = Hist(files, f)
  BY <1>5, <1>7 DEF Hist
<1>9. Shaped(gs, uses, Len(gs))
  <2>1. files[f].session \in 1 .. Cardinality(SessionsOf(gs))
    <3>1. files[f].session \in 1 .. Cardinality(SessionsOf(files))
      BY <1>1 DEF Shaped
    <3>2. /\ Cardinality(SessionsOf(files)) \in Nat /\ Cardinality(SessionsOf(gs)) \in Nat
          /\ Cardinality(SessionsOf(files)) <= Cardinality(SessionsOf(gs))
      BY <1>6 DEF Creates
    <3> QED
      BY <3>1, <3>2
  <2>2. x.mod <= Len(uses) + 1
    BY <1>2, <1>5
  <2>3. Ahead(gs, uses, Len(gs))
    <3>1. LastTold(gs, Len(gs)) = LastTold(files, f)
      BY <1>8 DEF LastTold
    <3> QED
      BY <1>0, <1>5, <1>7, <3>1, AheadTold
  <2>4. ASSUME NEW d \in x.lost PROVE d <= x.mod
    <3>1. d \in Nat /\ d <= files[f].mod
      BY <1>0, <1>1, <1>5 DEF Shaped
    <3> QED
      BY <1>2, <1>5, <3>1
  <2> QED
    BY <1>1, <1>5, <1>7, <1>8, <2>1, <2>2, <2>3, <2>4 DEF Shaped
<1>10. Grown(gs, uses, Len(gs))
  <2>1. Len(uses) <= Len(uses) /\ files[f].mod <= gs[Len(gs)].mod /\ gs[Len(gs)].mod \in Nat
    BY <1>2, <1>5, <1>7
  <2>2. /\ gs[Len(gs)].session = files[f].session /\ gs[Len(gs)].parent = files[f].parent
        /\ gs[Len(gs)].started = files[f].started
    BY <1>5, <1>7
  <2> QED
    BY <1>1, <1>2, <1>8, <2>1, <2>2, GrownStays
<1>11. Origin(gs, uses, Len(gs))
  <2>1. Origin(gs, uses, f)
    BY <1>1, <1>7, OriginStays
  <2> QED
    BY <1>5, <1>7, <1>8, <2>1, OriginCopied
<1>12. \A h \in 1 .. Len(files) :
         files[h].session = x.session => files[h].parent = x.parent /\ files[h].started = x.started
  BY <1>1, <1>5 DEF FilesInv, OneOrigin
<1> QED
  BY <1>3, <1>6, <1>9, <1>10, <1>11, <1>12, CreatesKeep

\* The file of a fork.
Forkling(r, s, p, n, records, total) ==
  [r EXCEPT !.session = s, !.parent = p, !.started = n, !.records = records, !.total = total,
            !.lost = {}, !.torn = FALSE, !.unread = -1]

Unreadable(r, m) == [r EXCEPT !.unread = m]

LEMMA UnreadableShape ==
  ASSUME NEW r \in Kept, NEW m \in Int
  PROVE  Unreadable(r, m) \in Kept /\ Unreadable(r, m).unread = m
<1>1. Unreadable(r, m) = [session |-> r.session, parent |-> r.parent, started |-> r.started,
                          records |-> r.records, total |-> r.total, lost |-> r.lost,
                          torn |-> r.torn, unread |-> m, mod |-> r.mod]
  BY KeptIs DEF Unreadable
<1> QED
  BY <1>1, KeptIs DEF Kept

LEMMA Forks ==
  ASSUME NEW r \in Kept, NEW s \in Nat, NEW p \in Nat, NEW n \in Nat, NEW records \in Seq(Mention),
         NEW total \in SUBSET Nat
  PROVE  LET y == Forkling(r, s, p, n, records, total) IN
         /\ y \in Kept /\ y.session = s /\ y.parent = p /\ y.started = n /\ y.records = records
         /\ y.total = total /\ y.lost = {} /\ y.unread = -1
<1> DEFINE y1 == [r EXCEPT !.session = s]
           y2 == [y1 EXCEPT !.parent = p]
           y3 == [y2 EXCEPT !.started = n]
           y4 == [y3 EXCEPT !.records = records]
           y5 == [y4 EXCEPT !.total = total]
           z == [y5 EXCEPT !.lost = {}]
           y6 == [z EXCEPT !.torn = FALSE]
           y7 == [y6 EXCEPT !.unread = -1]
<1>1. Forkling(r, s, p, n, records, total) = y7
  BY DEF Forkling
<1> HIDE DEF y7
<1>2. y7 = [y6 EXCEPT !.unread = -1]
  BY DEF y7
<1> HIDE DEF y6
<1>3. y6 = [z EXCEPT !.torn = FALSE]
  BY DEF y6
<1> HIDE DEF z
<1>15. z = [y5 EXCEPT !.lost = {}]
  BY DEF z
<1> HIDE DEF y5
<1>4. y5 = [y4 EXCEPT !.total = total]
  BY DEF y5
<1> HIDE DEF y4
<1>5. y4 = [y3 EXCEPT !.records = records]
  BY DEF y4
<1> HIDE DEF y3
<1>6. y3 = [y2 EXCEPT !.started = n]
  BY DEF y3
<1> HIDE DEF y2
<1>7. y2 = [y1 EXCEPT !.parent = p]
  BY DEF y2
<1>8. y1 \in Kept /\ y1.session = s
  BY DEF Kept
<1> HIDE DEF y1
<1>9. y2 \in Kept /\ y2.session = s /\ y2.parent = p
  BY <1>7, <1>8 DEF Kept
<1>10. y3 \in Kept /\ y3.session = s /\ y3.parent = p /\ y3.started = n
  BY <1>6, <1>9 DEF Kept
<1>11. y4 \in Kept /\ y4.session = s /\ y4.parent = p /\ y4.started = n /\ y4.records = records
  BY <1>5, <1>10 DEF Kept
<1>12. /\ y5 \in Kept /\ y5.session = s /\ y5.parent = p /\ y5.started = n /\ y5.records = records
       /\ y5.total = total
  BY <1>4, <1>11 DEF Kept
<1>16. /\ z \in Kept /\ z.session = s /\ z.parent = p /\ z.started = n /\ z.records = records
       /\ z.total = total /\ z.lost = {}
  BY <1>12, <1>15 DEF Kept
<1>13. /\ y6 \in Kept /\ y6.session = s /\ y6.parent = p /\ y6.started = n /\ y6.records = records
       /\ y6.total = total /\ y6.lost = {}
  BY <1>3, <1>16 DEF Kept
<1>14. /\ y7 \in Kept /\ y7.session = s /\ y7.parent = p /\ y7.started = n /\ y7.records = records
       /\ y7.total = total /\ y7.lost = {} /\ y7.unread = -1
  <2>1. y7 \in Kept /\ y7.unread = -1
    <3> DEFINE m == -1
    <3>1. m \in Int /\ y7 = Unreadable(y6, m)
      BY <1>2 DEF Unreadable
    <3> HIDE DEF m
    <3>2. Unreadable(y6, m) \in Kept /\ Unreadable(y6, m).unread = m
      BY <1>13, <3>1, UnreadableShape
    <3> QED
      BY <3>1, <3>2 DEF m
  <2>2. y7.session = s /\ y7.parent = p /\ y7.started = n
    BY <1>2, <1>13 DEF Kept
  <2>3. y7.records = records /\ y7.total = total /\ y7.lost = {}
    BY <1>2, <1>13 DEF Kept
  <2> QED
    BY <2>1, <2>2, <2>3
<1> QED
  BY <1>1, <1>14

\* The end of a history grows as the history does.
LEMMA EndsGrow ==
  ASSUME NEW p \in Seq(Mention), NEW c \in Seq(Mention), Ends(p, c), NEW k \in 1 .. Len(c)
  PROVE  \E i \in 1 .. Len(p) :
           /\ c[k].total = p[i].total
           /\ \A j \in 1 .. k - 1 : \E l \in 1 .. i - 1 : c[j].total = p[l].total
<1>1. Len(p) \in Nat /\ Len(c) \in Nat /\ Len(c) <= Len(p)
  BY DEF Ends
<1> DEFINE d == Len(p) - Len(c)
<1>2. d \in Nat /\ Len(p) = d + Len(c)
  BY <1>1
<1>3. \A j \in 1 .. Len(c) : c[j].total = p[d + j].total
  BY DEF Ends
<1> HIDE DEF d
<1>4. d + k \in 1 .. Len(p) /\ c[k].total = p[d + k].total
  BY <1>1, <1>2, <1>3
<1>5. ASSUME NEW j \in 1 .. k - 1 PROVE d + j \in 1 .. (d + k) - 1 /\ c[j].total = p[d + j].total
  BY <1>1, <1>2, <1>3
<1> QED
  BY <1>4, <1>5

LEMMA ForkKeeps ==
  ASSUME FilesInv(files, uses), NEW f \in DOMAIN files, NEW k \in 0 .. Len(files[f].records),
         Rollouts!Fork(f, k)
  PROVE  FilesInv(files', uses') /\ Onward(files, uses, files', uses') /\ Calm(files, files')
<1> DEFINE s == Cardinality(SessionsOf(files)) + 1
           now == Len(uses) + 1
           old == files[f].records
           again == Rollouts!Replay(old, k)
           total == IF k = 0 THEN {} ELSE Rollouts!Told(f)
           y == Forkling(files[f], s, files[f].session, now, again, total)
           x == Stamp(y, now)
           gs == Append(files, x)
           p == Hist(files, f)
           c == Rollouts!Distinct(again)
<1>1. FilesTyped(files, uses) /\ Shaped(files, uses, f) /\ Grown(files, uses, f)
      /\ f \in 1 .. Len(files)
  <2>1. FilesTyped(files, uses)
    BY DEF FilesInv
  <2>2. f \in 1 .. Len(files)
    BY <2>1, KeptShape
  <2> QED
    BY <2>1, <2>2 DEF FilesInv
<1>2. /\ files[f] \in Kept /\ Len(uses) \in Nat /\ now \in Nat /\ old \in Seq(Mention)
      /\ Len(old) \in Nat
      /\ files[f].session \in Nat /\ files[f].started \in Nat /\ p \in Seq(Mention)
      /\ Len(p) \in Nat
      /\ \A i \in 1 .. Len(p) : p[i].time \in Nat
  BY <1>1, KeptShape, FileShape
<1>3. s \in Nat /\ s > 0 /\ s \notin SessionsOf(files)
      /\ \A h \in 1 .. Len(files) : files[h].session # s
  BY SessionIsFresh
<1>4. files[f].session < s /\ files[f].session # 0
  <2>1. files[f].session \in 1 .. Cardinality(SessionsOf(files))
    BY <1>1 DEF Shaped
  <2> QED
    BY <2>1, SessionIsFresh
<1>5. files' = gs /\ uses' = uses
  BY NewSessionIs DEF Rollouts!Fork, Rollouts!Created, Rollouts!Now, Stamp, Forkling
<1>6. Rollouts!Now = now
  BY DEF Rollouts!Now
<1>7. /\ again \in Seq(Mention) /\ Len(again) = k
      /\ \A i \in 1 .. k : again[i].total = old[Len(old) - k + i].total
  BY <1>2, ReplayShape
<1>8. Ends(p, c) /\ \A j \in 1 .. Len(c) : c[j].time = now
  BY <1>2, <1>6, ReplayEnds DEF Hist
<1>9. c \in Seq(Mention) /\ Len(c) \in Nat
      /\ (k > 0 => Len(c) > 0 /\ c[Len(c)].total = again[k].total)
  BY <1>7, DistinctShape
<1>10. total \in SUBSET Nat /\ (total = {} \/ (Len(c) > 0 /\ total = c[Len(c)].total))
  <2>1. CASE k = 0
    BY <2>1
  <2>2. CASE k # 0
    <3>1. k \in 1 .. k /\ k > 0 /\ Len(old) - k + k = Len(old) /\ Len(old) \in 1 .. Len(old)
      BY <1>2, <2>2
    <3>2. again[k].total = old[Len(old)].total
      <4>1. again[k].total = old[Len(old) - k + k].total
        BY <1>7, <3>1
      <4> QED
        BY <3>1, <4>1
    <3>5. total = old[Len(old)].total
      <4>1. old # <<>>
        BY <1>2, <3>1
      <4> QED
        BY <2>2, <4>1 DEF Rollouts!Told
    <3>3. total = c[Len(c)].total /\ Len(c) > 0
      BY <1>9, <2>2, <3>1, <3>2, <3>5
    <3>4. old[Len(old)].total \subseteq Nat
      BY <1>2, <3>1, MentionShape
    <3> QED
      BY <3>3, <3>4, <3>5
  <2> QED
    BY <2>1, <2>2
<1> HIDE DEF again, total, c
<1>11. /\ y \in Kept /\ y.session = s /\ y.parent = files[f].session /\ y.started = now
       /\ y.records = again /\ y.total = total /\ y.lost = {} /\ y.unread = -1
  <2>1. /\ files[f] \in Kept /\ s \in Nat /\ files[f].session \in Nat /\ now \in Nat
        /\ again \in Seq(Mention) /\ total \in SUBSET Nat
    BY <1>2, <1>3, <1>7, <1>10
  <2> HIDE DEF s, now, old, p
  <2> QED
    BY <2>1, Forks
<1> HIDE DEF y, s
<1>12. /\ x \in Kept /\ x.session = s /\ x.parent = files[f].session /\ x.started = now
       /\ x.records = again /\ x.total = total /\ x.lost = {} /\ x.unread = -1 /\ x.mod = now
  <2>1. Renewed(x, y, y.records, now)
    BY <1>2, <1>11, Stamped
  <2> HIDE DEF x
  <2> QED
    BY <1>11, <2>1 DEF Renewed
<1> HIDE DEF x
<1>13. Creates(files, uses, gs, x)
  BY <1>12, CreatesShape
<1> HIDE DEF gs
<1>14. /\ gs[Len(gs)] = x /\ gs[f] = files[f] /\ Hist(gs, f) = p /\ f \in 1 .. Len(gs)
       /\ Len(gs) \in 1 .. Len(gs) /\ Len(gs) = Len(files) + 1 /\ Len(files) \in Nat
  BY <1>1, <1>13 DEF Creates
<1>15. Hist(gs, Len(gs)) = c
  BY <1>12, <1>14 DEF Hist, c
<1>16. Shaped(gs, uses, Len(gs))
  <2>1. s \in 1 .. Cardinality(SessionsOf(gs))
    BY <1>3, <1>12, <1>13 DEF Creates, s
  <2>2. now <= Len(uses) + 1
    BY <1>2
  <2>3. Ahead(gs, uses, Len(gs))
    <3>1. Len(c) > 0 => LastTold(gs, Len(gs)) = c[Len(c)].total
      BY <1>15 DEF LastTold
    <3> QED
      BY <1>10, <1>12, <1>14, <3>1, AheadTold
  <2> QED
    BY <1>4, <1>12, <1>14, <1>15, <2>1, <2>2, <2>3 DEF Shaped
<1> HIDE DEF p
<1>17. Grown(gs, uses, Len(gs))
  <2>1. SUFFICES ASSUME NEW j \in 1 .. Len(c)
                 PROVE  /\ c[j].time <= x.mod
                        /\ c[j].time <= Len(uses) \/ (x.parent # 0 /\ c[j].time = x.started)
                        /\ c[j].total # {}
                        /\ \A m \in c[j].total : m \in 1 .. Len(uses) /\ uses[m] <= x.session
                        /\ \A l \in 1 .. j - 1 : \E n \in c[j].total : \A m \in c[l].total : m < n
    BY <1>14, <1>15 DEF Grown
  <2>2. c[j].time = now /\ now <= x.mod
    BY <1>2, <1>8, <1>12
  <2>3. PICK i \in 1 .. Len(p) :
          /\ c[j].total = p[i].total
          /\ \A a \in 1 .. j - 1 : \E l \in 1 .. i - 1 : c[a].total = p[l].total
    BY <1>2, <1>8, <1>9, EndsGrow
  <2>4. /\ p[i].total # {}
        /\ \A m \in p[i].total : m \in 1 .. Len(uses) /\ uses[m] <= files[f].session
        /\ \A l \in 1 .. i - 1 : \E n \in p[i].total : \A m \in p[l].total : m < n
    BY <1>1 DEF Grown, p
  <2>5. ASSUME NEW m \in c[j].total PROVE m \in 1 .. Len(uses) /\ uses[m] <= x.session
    <3>1. m \in 1 .. Len(uses) /\ uses[m] <= files[f].session
      BY <2>3, <2>4
    <3>2. uses[m] \in Nat
      BY <1>1, <3>1, KeptShape
    <3> QED
      BY <1>2, <1>3, <1>4, <1>12, <3>1, <3>2
  <2>6. ASSUME NEW a \in 1 .. j - 1 PROVE \E n \in c[j].total : \A m \in c[a].total : m < n
    <3>1. PICK l \in 1 .. i - 1 : c[a].total = p[l].total
      BY <2>3
    <3> QED
      BY <2>3, <2>4, <3>1
  <2> QED
    BY <1>4, <1>12, <2>2, <2>3, <2>4, <2>5, <2>6
<1>18. Origin(gs, uses, Len(gs))
  <2>1. gs[f].session = gs[Len(gs)].parent /\ gs[Len(gs)].parent # 0 /\ gs[Len(gs)].started = now
    BY <1>4, <1>12, <1>14
  <2>2. ASSUME NEW h \in 1 .. Len(gs), gs[h].session = gs[Len(gs)].session PROVE f < h
    <3>1. h = Len(gs)
      <4>1. h \in 1 .. Len(files) => gs[h] = files[h] /\ files[h].session # s
        BY <1>3, <1>13 DEF Creates
      <4>2. h \in 1 .. Len(files) \/ h = Len(gs)
        BY <1>13 DEF Creates
      <4> QED
        BY <1>12, <1>14, <2>2, <4>1, <4>2
    <3> QED
      BY <1>1, <1>14, <3>1
  <2>3. CASE gs[f].parent # 0 /\ gs[f].started = now
    <3>1. Forked(gs, uses, Len(gs), f)
      BY <2>1, <2>2, <2>3 DEF Forked
    <3> QED
      BY <1>14, <2>1, <3>1 DEF Origin
  <2>4. CASE ~(gs[f].parent # 0 /\ gs[f].started = now)
    <3>1. ASSUME NEW i \in 1 .. Len(p) PROVE p[i].time < now
      <4>1. p[i].time <= Len(uses) \/ (files[f].parent # 0 /\ p[i].time = files[f].started)
        BY <1>1 DEF Grown, p
      <4>2. files[f].started <= Len(uses) + 1
        BY <1>1 DEF Shaped
      <4>3. p[i].time \in Nat
        BY <1>2
      <4> QED
        BY <1>2, <1>14, <2>4, <4>1, <4>2, <4>3
    <3>2. Rollouts!Before(p, now) = p
      BY <1>2, <3>1, BeforeIsAll
    <3>3. Len(c) <= Len(p) /\ \A j \in 1 .. Len(c) : c[j].total = p[Len(p) - Len(c) + j].total
      BY <1>8 DEF Ends
    <3>4. \A j \in Len(c) + 1 .. Len(c) : FALSE
      BY <1>9
    <3>5. Replayed(gs, uses, Len(gs), f, Len(c))
      <4> DEFINE n == Len(gs)
      <4>1. Rollouts!Before(Hist(gs, f), gs[n].started) = p
        <5>1. Hist(gs, f) = p /\ gs[n].started = now
          BY <1>14, <2>1
        <5> QED
          BY <3>2, <5>1
      <4>2. Hist(gs, n) = c
        BY <1>15
      <4>3. \A j \in Len(c) + 1 .. Len(c) : Own(gs, uses, n, j)
        BY <3>4
      <4> HIDE DEF n
      <4>4. Replayed(gs, uses, n, f, Len(c))
        BY <3>3, <4>1, <4>2, <4>3 DEF Replayed
      <4> QED
        BY <4>4 DEF n
    <3>6. Len(c) \in 0 .. Len(Hist(gs, Len(gs)))
      BY <1>9, <1>15
    <3>7. Forked(gs, uses, Len(gs), f)
      BY <2>1, <2>2, <3>5, <3>6 DEF Forked
    <3> QED
      BY <1>14, <2>1, <3>7 DEF Origin
  <2> QED
    BY <2>3, <2>4
<1> QED
  BY <1>3, <1>5, <1>12, <1>13, <1>16, <1>17, <1>18, CreatesKeep

-----------------------------------------------------------------------------
(* The scan's steps.                                                       *)

LEMMA BeginsSeen ==
  ASSUME NEW fs, NEW us, FilesInv(fs, us), NEW sc, NEW since \in 1 .. Len(us) + 1,
         sc.got = <<>>, sc.since = since, sc.before = Len(us),
         sc.queue = {[file |-> f, mod |-> fs[f].mod] : f \in {f \in DOMAIN fs : fs[f].mod >= since}}
  PROVE  Seen(fs, us, sc, Len(fs))
<1>1. FilesTyped(fs, us)
  BY DEF FilesInv
<1>2. Len(us) \in Nat /\ Len(fs) \in Nat /\ DOMAIN fs = 1 .. Len(fs) /\ Len(sc.got) = 0
      /\ since \in Nat
  BY <1>1, KeptShape
<1>3. ASSUME NEW q \in sc.queue PROVE q.file \in 1 .. Len(fs) /\ fs[q.file].mod >= since
  BY <1>2
<1>4. ASSUME NEW f \in 1 .. Len(fs), fs[f].mod >= since PROVE InScan(sc, f)
  <2>1. [file |-> f, mod |-> fs[f].mod] \in sc.queue
    BY <1>2, <1>4
  <2> QED
    BY <2>1 DEF InScan
<1>5. ASSUME NEW f, InScan(sc, f) PROVE f \in 1 .. Len(fs) /\ fs[f].mod >= since
  <2>1. PICK q \in sc.queue : q.file = f
    BY <1>2, <1>5 DEF InScan
  <2> QED
    BY <1>3, <2>1
<1>6. ASSUME NEW g \in 1 .. Len(fs)
      PROVE  InScan(sc, g) \/ sc.warned \/ Outside(fs, g, sc.since, sc.before)
  <2>1. SUFFICES ASSUME ~(fs[g].mod >= since) PROVE Outside(fs, g, since, Len(us))
    BY <1>4
  <2>2. ASSUME NEW k \in 1 .. Len(Hist(fs, g)) PROVE Hist(fs, g)[k].time \notin since .. Len(us)
    <3>1. Hist(fs, g)[k].time <= fs[g].mod
      BY DEF FilesInv, Grown
    <3>2. Hist(fs, g)[k].time \in Nat /\ fs[g].mod \in Nat
      BY <1>1, FileShape
    <3> QED
      BY <1>2, <2>1, <3>1, <3>2
  <2>3. ASSUME NEW n \in fs[g].lost PROVE n \notin since .. Len(us)
    <3>1. n <= fs[g].mod
      BY DEF FilesInv, Shaped
    <3>2. n \in Nat /\ fs[g].mod \in Nat
      BY <1>1, KeptShape
    <3> QED
      BY <1>2, <2>1, <3>1, <3>2
  <2> QED
    BY <2>2, <2>3 DEF Outside
<1>7. \A g \in 1 .. Len(fs) : fs[g].started <= sc.before + 1
  BY DEF FilesInv, Shaped
<1>8. UsesAreTold(fs, us, Len(fs), sc.before)
  BY DEF FilesInv
<1>9. \A i \in 1 .. Len(sc.got) : ReadOf(fs, sc.got[i], sc.before, sc.warned)
  BY <1>2
<1>10. \A f \in 1 .. Len(fs) : InScan(sc, f) => \E g \in 1 .. Len(fs) : fs[g].session = fs[f].session
  OBVIOUS
<1>11. \A h \in 1 .. Len(fs), g \in 1 .. Len(fs) :
         fs[h].session = fs[g].session /\ InScan(sc, h) /\ ~InScan(sc, g) =>
           sc.warned \/ fs[h].mod >= sc.since
  BY <1>5
<1> QED
  BY <1>3, <1>6, <1>7, <1>8, <1>9, <1>10, <1>11 DEF Seen

LEMMA ScanBeginsKeeps ==
  ASSUME FilesInv(files, uses), NEW since \in 1 .. Rollouts!Now, Rollouts!ScanBegins(since)
  PROVE  ScanInv(files, uses, scan')
<1> DEFINE queue == {[file |-> f, mod |-> files[f].mod] :
                       f \in {f \in DOMAIN files : files[f].mod >= since}}
<1>1. FilesTyped(files, uses)
  BY DEF FilesInv
<1>2. /\ Len(uses) \in Nat /\ Len(files) \in Nat /\ DOMAIN files = 1 .. Len(files)
      /\ since \in 1 .. Len(uses) + 1 /\ since \in Nat
  BY <1>1, KeptShape DEF Rollouts!Now
<1>3. scan' = [at |-> "reading", since |-> since, got |-> <<>>, warned |-> FALSE,
               before |-> Len(uses), queue |-> queue]
  BY DEF Rollouts!ScanBegins, Rollouts!Listing
<1>4. queue \subseteq [file : Nat, mod : Nat]
  <2>1. ASSUME NEW f \in DOMAIN files PROVE f \in Nat /\ files[f].mod \in Nat
    BY <1>1, <1>2, FileShape
  <2> QED
    BY <2>1
<1> HIDE DEF queue
<1>5. scan' \in Reading
  <2>1. <<>> \in Seq(Rollout)
    OBVIOUS
  <2> QED
    BY <1>2, <1>3, <1>4, <2>1 DEF Reading
<1>6. /\ scan'.got = <<>> /\ scan'.since = since /\ scan'.before = Len(uses) /\ scan'.queue = queue
  BY <1>3
<1>7. Seen(files, uses, scan', Len(files))
  BY <1>2, <1>6, BeginsSeen DEF queue
<1>8. Len(files) \in 0 .. Len(files) /\ scan'.since \in 1 .. scan'.before + 1
      /\ scan'.before <= Len(uses)
  BY <1>2, <1>6
<1> QED
  BY <1>5, <1>7, <1>8 DEF ScanInv

\* What is projected of a file is a reading of it.
LEMMA ProjectionReads ==
  ASSUME FilesInv(files, uses), NEW f \in 1 .. Len(files), NEW p, p = Rollouts!Projection(f),
         NEW before, NEW warned, ~p.complete => warned
  PROVE  p \in Rollout /\ ReadOf(files, p, before, warned) /\ p.file = f
<1> DEFINE s == files[f].records
           complete == files[f].unread = -1
           usage == Rollouts!Distinct(IF complete THEN s ELSE SubSeq(s, 1, files[f].unread))
           valid == ~(files[f].torn /\ complete)
<1>1. FilesTyped(files, uses) /\ Shaped(files, uses, f)
  BY DEF FilesInv
<1>2. /\ f \in Nat /\ files[f].session \in Nat /\ files[f].parent \in Nat
      /\ files[f].started \in Nat
      /\ s \in Seq(Mention) /\ Hist(files, f) \in Seq(Mention) /\ Len(Hist(files, f)) \in Nat
  BY <1>1, FileShape
<1>3. p = [file |-> f, session |-> files[f].session, parent |-> files[f].parent,
           started |-> files[f].started, valid |-> valid, complete |-> complete, usage |-> usage]
  BY DEF Rollouts!Projection
<1>4. complete \in BOOLEAN /\ valid \in BOOLEAN
  OBVIOUS
<1>5. CASE complete
  <2>1. usage = Hist(files, f)
    BY <1>5 DEF Hist
  <2>2. Rollouts!StartsWith(Hist(files, f), usage)
    BY <1>2, <2>1, StartsShape
  <2>3. \A k \in Len(usage) + 1 .. Len(Hist(files, f)) : FALSE
    BY <1>2, <2>1
  <2>6. files[f].torn => ~valid
    BY <1>5
  <2> HIDE DEF usage, valid, complete
  <2>4. /\ p.file = f /\ p.session = files[f].session /\ p.parent = files[f].parent
        /\ p.started = files[f].started /\ p.complete = complete /\ p.usage = usage
        /\ p.valid = valid
    BY <1>3
  <2>5. p \in Rollout
    BY <1>2, <1>3, <1>4, <2>1 DEF Rollout
  <2> QED
    BY <1>5, <2>2, <2>3, <2>4, <2>5, <2>6 DEF ReadOf
<1>6. CASE ~complete
  <2>0. files[f].unread = -1 \/ files[f].unread \in 0 .. Len(s)
    BY <1>1 DEF Shaped
  <2>1. files[f].unread \in 0 .. Len(s) /\ Len(s) \in Nat
    BY <1>2, <1>6, <2>0
  <2>2. usage = Told(s, files[f].unread)
    BY <1>6 DEF Told
  <2>3. Len(s) \in files[f].unread .. Len(s)
    BY <2>1
  <2>4. Rollouts!StartsWith(Told(s, Len(s)), Told(s, files[f].unread))
    BY <1>2, <2>1, <2>3, ToldGrows
  <2>5. Rollouts!StartsWith(Hist(files, f), usage) /\ usage \in Seq(Mention)
    BY <1>2, <2>1, <2>2, <2>4, DistinctShape, ToldShape DEF Hist
  <2> HIDE DEF usage, valid, complete
  <2>6. /\ p.file = f /\ p.session = files[f].session /\ p.parent = files[f].parent
        /\ p.started = files[f].started /\ p.complete = complete /\ p.usage = usage
    BY <1>3
  <2>7. p \in Rollout
    BY <1>2, <1>3, <1>4, <2>5 DEF Rollout
  <2> QED
    BY <1>6, <2>5, <2>6, <2>7 DEF ReadOf
<1> QED
  BY <1>5, <1>6

\* A scan that goes on with the same window.
GoesOn(sc, tc) ==
  /\ sc \in Reading /\ tc \in Reading /\ tc.since = sc.since /\ tc.before = sc.before
  /\ sc.warned => tc.warned

LEMMA ReadsSeen ==
  ASSUME NEW fs, NEW us, NEW sc, NEW tc, GoesOn(sc, tc), NEW N, N \in 0 .. Len(fs),
         Seen(fs, us, sc, N),
         NEW listed \in sc.queue, NEW p, p.file = listed.file,
         tc.queue = sc.queue \ {listed}, tc.got = Append(sc.got, p),
         ReadOf(fs, p, sc.before, tc.warned)
  PROVE  Seen(fs, us, tc, N)
<1>1. /\ sc.got \in Seq(Rollout) /\ tc.got \in Seq(Rollout) /\ Len(sc.got) \in Nat
      /\ Len(tc.got) \in Nat /\ sc.since = tc.since /\ sc.before = tc.before
      /\ (sc.warned => tc.warned)
  BY ReadingShape DEF GoesOn
<1>2. /\ Len(tc.got) = Len(sc.got) + 1 /\ tc.got[Len(tc.got)] = p
      /\ \A i \in 1 .. Len(sc.got) : tc.got[i] = sc.got[i]
  <2>1. ASSUME NEW s \in Seq(Rollout), NEW x
        PROVE  Len(Append(s, x)) = Len(s) + 1 /\ Append(s, x)[Len(s) + 1] = x
               /\ \A i \in 1 .. Len(s) : Append(s, x)[i] = s[i]
    OBVIOUS
  <2> QED
    BY <1>1, <2>1
<1>3. ASSUME NEW i \in 1 .. Len(tc.got) PROVE i \in 1 .. Len(sc.got) \/ i = Len(tc.got)
  BY <1>1, <1>2
<1>4. ASSUME NEW f PROVE InScan(tc, f) <=> InScan(sc, f)
  <2>1. ASSUME InScan(tc, f) PROVE InScan(sc, f)
    <3>1. CASE \E q \in tc.queue : q.file = f
      BY <3>1 DEF InScan
    <3>2. CASE \E i \in 1 .. Len(tc.got) : tc.got[i].file = f
      <4>1. PICK i \in 1 .. Len(tc.got) : tc.got[i].file = f
        BY <3>2
      <4> QED
        BY <1>2, <1>3, <4>1 DEF InScan
    <3> QED
      BY <2>1, <3>1, <3>2 DEF InScan
  <2>2. ASSUME InScan(sc, f) PROVE InScan(tc, f)
    <3>1. CASE \E q \in sc.queue : q.file = f
      <4>1. PICK q \in sc.queue : q.file = f
        BY <3>1
      <4>2. CASE q = listed
        <5>1. Len(tc.got) \in 1 .. Len(tc.got) /\ tc.got[Len(tc.got)].file = f
          BY <1>1, <1>2, <4>1, <4>2
        <5> QED
          BY <5>1 DEF InScan
      <4>3. CASE q # listed
        BY <4>1, <4>3 DEF InScan
      <4> QED
        BY <4>2, <4>3
    <3>2. CASE \E i \in 1 .. Len(sc.got) : sc.got[i].file = f
      <4>1. PICK i \in 1 .. Len(sc.got) : sc.got[i].file = f
        BY <3>2
      <4>2. i \in 1 .. Len(tc.got) /\ tc.got[i].file = f
        BY <1>1, <1>2, <4>1
      <4> QED
        BY <4>2 DEF InScan
    <3> QED
      BY <2>2, <3>1, <3>2 DEF InScan
  <2> QED
    BY <2>1, <2>2
<1>5. ASSUME NEW i \in 1 .. Len(tc.got) PROVE ReadOf(fs, tc.got[i], tc.before, tc.warned)
  <2>1. CASE i = Len(tc.got)
    BY <1>1, <1>2, <2>1
  <2>2. CASE i \in 1 .. Len(sc.got)
    <3>1. ReadOf(fs, sc.got[i], sc.before, sc.warned)
      BY <2>2 DEF Seen
    <3> QED
      BY <1>1, <1>2, <2>2, <3>1 DEF ReadOf
  <2> QED
    BY <1>3, <2>1, <2>2
<1>6. \A q \in tc.queue : q.file \in 1 .. Len(fs)
  BY DEF Seen
<1>7. /\ \A f \in 1 .. Len(fs) : InScan(tc, f) => \E g \in 1 .. N : fs[g].session = fs[f].session
      /\ \A g \in 1 .. N : fs[g].started <= tc.before + 1
      /\ UsesAreTold(fs, us, N, tc.before)
  BY <1>1, <1>4 DEF Seen
<1>8. \A g \in 1 .. N : InScan(tc, g) \/ tc.warned \/ Outside(fs, g, tc.since, tc.before)
  BY <1>1, <1>4 DEF Seen
<1>9. \A h \in 1 .. Len(fs), g \in 1 .. N :
        fs[h].session = fs[g].session /\ InScan(tc, h) /\ ~InScan(tc, g) =>
          tc.warned \/ fs[h].mod >= tc.since
  BY <1>1, <1>4 DEF Seen
<1> QED
  BY <1>5, <1>6, <1>7, <1>8, <1>9 DEF Seen

LEMMA LimitSeen ==
  ASSUME NEW fs, NEW us, NEW sc, NEW tc, GoesOn(sc, tc), NEW N, Seen(fs, us, sc, N),
         tc.queue = {}, tc.got = sc.got, tc.warned
  PROVE  Seen(fs, us, tc, N)
<1>1. sc.since = tc.since /\ sc.before = tc.before
  BY DEF GoesOn
<1>2. \A f : InScan(tc, f) => InScan(sc, f)
  BY DEF InScan
<1>3. ASSUME NEW i \in 1 .. Len(tc.got) PROVE ReadOf(fs, tc.got[i], tc.before, tc.warned)
  <2>1. ReadOf(fs, sc.got[i], sc.before, sc.warned)
    BY DEF Seen
  <2> QED
    BY <1>1, <2>1 DEF ReadOf
<1>4. /\ \A f \in 1 .. Len(fs) : InScan(tc, f) => \E g \in 1 .. N : fs[g].session = fs[f].session
      /\ \A g \in 1 .. N : fs[g].started <= tc.before + 1
      /\ UsesAreTold(fs, us, N, tc.before)
  BY <1>1, <1>2 DEF Seen
<1> QED
  BY <1>3, <1>4 DEF Seen

\* A parent that was missing is among the files there were, and all of its
\* files are read next.
LEMMA ParentsSeen ==
  ASSUME NEW fs, NEW us, FilesInv(fs, us), NEW sc, NEW tc, GoesOn(sc, tc), NEW N,
         N \in 0 .. Len(fs),
         Seen(fs, us, sc, N), sc.queue = {}, tc.got = sc.got, tc.warned = sc.warned,
         NEW Q, \A f : f \in Q <=> /\ f \in 1 .. Len(fs) /\ ~InScan(sc, f)
                                   /\ \E i \in 1 .. Len(sc.got) :
                                        sc.got[i].parent = fs[f].session /\ sc.got[i].parent # 0
                                        /\ Rollouts!Canonical(sc.got, sc.got[i].parent) = {},
         tc.queue = {[file |-> f, mod |-> fs[f].mod] : f \in Q}
  PROVE  Seen(fs, us, tc, N)
<1>1. sc.since = tc.since /\ sc.before = tc.before /\ N \in Nat /\ N <= Len(fs) /\ Len(fs) \in Nat
  BY KeptShape DEF GoesOn, FilesInv
<1>2. ASSUME NEW f PROVE InScan(tc, f) <=> InScan(sc, f) \/ f \in Q
  <2>1. ASSUME NEW q \in tc.queue, q.file = f PROVE f \in Q
    BY <2>1
  <2>2. ASSUME f \in Q PROVE \E q \in tc.queue : q.file = f
    <3>1. [file |-> f, mod |-> fs[f].mod] \in tc.queue
      BY <2>2
    <3> QED
      BY <3>1
  <2>3. InScan(sc, f) <=> \E i \in 1 .. Len(sc.got) : sc.got[i].file = f
    BY DEF InScan
  <2>4. InScan(tc, f) <=> (\E q \in tc.queue : q.file = f) \/ \E i \in 1 .. Len(sc.got) : sc.got[i].file = f
    BY DEF InScan
  <2> QED
    BY <2>1, <2>2, <2>3, <2>4
<1>3. \A q \in tc.queue : q.file \in 1 .. Len(fs)
  OBVIOUS
<1>4. ASSUME NEW f \in Q PROVE \E g \in 1 .. N : fs[g].session = fs[f].session
  <2>1. PICK i \in 1 .. Len(sc.got) : sc.got[i].parent = fs[f].session /\ sc.got[i].parent # 0
    OBVIOUS
  <2> DEFINE h == sc.got[i].file
  <2>2. h \in 1 .. Len(fs) /\ fs[h].parent = sc.got[i].parent /\ InScan(sc, h)
    BY DEF Seen, ReadOf, InScan
  <2> HIDE DEF h
  <2>3. PICK j \in 1 .. N : fs[j].session = fs[h].session
    BY <2>2 DEF Seen
  <2>4. j \in 1 .. Len(fs) /\ j \in Nat /\ j <= N
    BY <1>1
  <2>5. fs[j].parent = fs[h].parent
    BY <2>2, <2>3, <2>4 DEF FilesInv, OneOrigin
  <2>6. Origin(fs, us, j)
    BY <2>4 DEF FilesInv
  <2>7. PICK g \in 1 .. Len(fs) : Forked(fs, us, j, g)
    BY <2>1, <2>2, <2>5, <2>6 DEF Origin
  <2>8. fs[g].session = fs[j].parent /\ g < j
    BY <2>4, <2>7 DEF Forked
  <2>9. g \in 1 .. N
    BY <1>1, <2>4, <2>8
  <2> QED
    BY <2>1, <2>2, <2>5, <2>8, <2>9
<1>5. \A f \in 1 .. Len(fs) : InScan(tc, f) => \E g \in 1 .. N : fs[g].session = fs[f].session
  BY <1>2, <1>4 DEF Seen
<1>6. \A i \in 1 .. Len(tc.got) : ReadOf(fs, tc.got[i], tc.before, tc.warned)
  BY <1>1 DEF Seen
<1>7. (\A g \in 1 .. N : fs[g].started <= tc.before + 1) /\ UsesAreTold(fs, us, N, tc.before)
  BY <1>1 DEF Seen
<1>8. \A g \in 1 .. N : InScan(tc, g) \/ tc.warned \/ Outside(fs, g, tc.since, tc.before)
  BY <1>1, <1>2 DEF Seen
<1>9. ASSUME NEW h \in 1 .. Len(fs), NEW g \in 1 .. N, fs[h].session = fs[g].session,
             InScan(tc, h), ~InScan(tc, g)
      PROVE  tc.warned \/ fs[h].mod >= tc.since
  <2>1. ~InScan(sc, g) /\ g \notin Q /\ g \in 1 .. Len(fs)
    BY <1>1, <1>2, <1>9
  <2>2. h \notin Q
    BY <1>9, <2>1
  <2>3. InScan(sc, h)
    BY <1>2, <1>9, <2>2
  <2> QED
    BY <1>1, <1>9, <2>1, <2>3 DEF Seen
<1> QED
  BY <1>3, <1>5, <1>6, <1>7, <1>8, <1>9 DEF Seen

Queued(sc, queue) == [sc EXCEPT !.queue = queue]
Warned(sc, warned) == [sc EXCEPT !.warned = warned]
Gotten(sc, got) == [sc EXCEPT !.got = got]

\* A scan as another but for its queue, what it got and whether it warned.
Resumed(tc, sc, queue, got, warned) ==
  /\ tc \in Reading /\ tc.since = sc.since /\ tc.before = sc.before
  /\ tc.queue = queue /\ tc.got = got /\ tc.warned = warned

LEMMA QueuedShape ==
  ASSUME NEW sc \in Reading, NEW queue \in SUBSET [file : Nat, mod : Nat]
  PROVE  Resumed(Queued(sc, queue), sc, queue, sc.got, sc.warned)
<1>1. Queued(sc, queue) = [at |-> sc.at, since |-> sc.since, queue |-> queue, got |-> sc.got,
                           warned |-> sc.warned, before |-> sc.before]
  BY DEF Reading, Queued
<1> QED
  BY <1>1 DEF Reading, Resumed

LEMMA WarnedShape ==
  ASSUME NEW sc \in Reading, NEW warned \in BOOLEAN
  PROVE  Resumed(Warned(sc, warned), sc, sc.queue, sc.got, warned)
<1>1. Warned(sc, warned) = [at |-> sc.at, since |-> sc.since, queue |-> sc.queue, got |-> sc.got,
                           warned |-> warned, before |-> sc.before]
  BY DEF Reading, Warned
<1> QED
  BY <1>1 DEF Reading, Resumed

LEMMA GottenShape ==
  ASSUME NEW sc \in Reading, NEW got \in Seq(Rollout)
  PROVE  Resumed(Gotten(sc, got), sc, sc.queue, got, sc.warned)
<1>1. Gotten(sc, got) = [at |-> sc.at, since |-> sc.since, queue |-> sc.queue, got |-> got,
                         warned |-> sc.warned, before |-> sc.before]
  BY DEF Reading, Gotten
<1> QED
  BY <1>1 DEF Reading, Resumed

LEMMA ReadingNow ==
  ASSUME ScanInv(files, uses, scan), scan.at = "reading"
  PROVE  /\ scan \in Reading /\ scan.since \in 1 .. scan.before + 1 /\ scan.before <= Len(uses)
         /\ \E N \in 0 .. Len(files) : Seen(files, uses, scan, N)
<1>1. scan # Rollouts!Idle
  BY DEF Rollouts!Idle
<1> QED
  BY <1>1 DEF ScanInv

LEMMA ReadsKeeps ==
  ASSUME FilesInv(files, uses), ScanInv(files, uses, scan), Rollouts!Reads
  PROVE  ScanInv(files, uses, scan')
<1>1. scan \in Reading /\ scan.since \in 1 .. scan.before + 1 /\ scan.before <= Len(uses)
  BY ReadingNow DEF Rollouts!Reads
<1>2. PICK N \in 0 .. Len(files) : Seen(files, uses, scan, N)
  BY ReadingNow DEF Rollouts!Reads
<1>3. PICK listed \in scan.queue :
        LET p == Rollouts!Projection(listed.file)
        IN  scan' = [scan EXCEPT !.queue = @ \ {listed}, !.got = Append(@, p), !.warned = @ \/ ~p.complete]
  BY DEF Rollouts!Reads
<1> DEFINE p == Rollouts!Projection(listed.file)
           queue == scan.queue \ {listed}
           got == Append(scan.got, p)
           warned == scan.warned \/ ~p.complete
           a == Queued(scan, queue)
           b == Gotten(a, got)
           c == Warned(b, warned)
<1>4. listed.file \in 1 .. Len(files)
  BY <1>2 DEF Seen
<1>5. p \in Rollout /\ ReadOf(files, p, scan.before, warned) /\ p.file = listed.file
  BY <1>4, ProjectionReads
<1>6. scan' = c
  BY <1>3 DEF Queued, Gotten, Warned
<1> HIDE DEF p
<1>7. /\ queue \in SUBSET [file : Nat, mod : Nat] /\ warned \in BOOLEAN /\ got \in Seq(Rollout)
      /\ (scan.warned => warned)
  <2>1. scan.got \in Seq(Rollout) /\ scan.queue \subseteq [file : Nat, mod : Nat]
    BY <1>1, ReadingShape
  <2> QED
    BY <1>5, <2>1
<1> HIDE DEF queue, got, warned
<1>8. Resumed(a, scan, queue, scan.got, scan.warned)
  BY <1>1, <1>7, QueuedShape
<1> HIDE DEF a
<1>9. Resumed(b, a, a.queue, got, a.warned)
  BY <1>7, <1>8, GottenShape DEF Resumed
<1> HIDE DEF b
<1>10. Resumed(c, b, b.queue, b.got, warned)
  BY <1>7, <1>9, WarnedShape DEF Resumed
<1> HIDE DEF c
<1>11. /\ scan' \in Reading /\ scan'.since = scan.since /\ scan'.before = scan.before
       /\ scan'.queue = queue /\ scan'.got = got /\ scan'.warned = warned
  BY <1>6, <1>8, <1>9, <1>10 DEF Resumed
<1>12. GoesOn(scan, scan')
  BY <1>1, <1>7, <1>11 DEF GoesOn
<1>13. Seen(files, uses, scan', N)
  BY <1>2, <1>5, <1>11, <1>12, ReadsSeen DEF queue, got
<1> QED
  BY <1>1, <1>11, <1>13 DEF ScanInv

LEMMA ReachesLimitKeeps ==
  ASSUME FilesInv(files, uses), ScanInv(files, uses, scan), Rollouts!ReachesLimit
  PROVE  ScanInv(files, uses, scan')
<1>1. scan \in Reading /\ scan.since \in 1 .. scan.before + 1 /\ scan.before <= Len(uses)
  BY ReadingNow DEF Rollouts!ReachesLimit
<1>2. PICK N \in 0 .. Len(files) : Seen(files, uses, scan, N)
  BY ReadingNow DEF Rollouts!ReachesLimit
<1> DEFINE a == Queued(scan, {})
           c == Warned(a, TRUE)
<1>3. scan' = c
  BY DEF Rollouts!ReachesLimit, Queued, Warned
<1>4. Resumed(a, scan, {}, scan.got, scan.warned)
  BY <1>1, QueuedShape
<1> HIDE DEF a
<1>5. Resumed(c, a, a.queue, a.got, TRUE)
  BY <1>4, WarnedShape DEF Resumed
<1> HIDE DEF c
<1>6. /\ scan' \in Reading /\ scan'.since = scan.since /\ scan'.before = scan.before
      /\ scan'.queue = {} /\ scan'.got = scan.got /\ scan'.warned
  BY <1>3, <1>4, <1>5 DEF Resumed
<1>7. GoesOn(scan, scan')
  BY <1>1, <1>6 DEF GoesOn
<1>8. Seen(files, uses, scan', N)
  BY <1>2, <1>6, <1>7, LimitSeen
<1> QED
  BY <1>1, <1>6, <1>8 DEF ScanInv

LEMMA ResolvesParentsKeeps ==
  ASSUME FilesInv(files, uses), ScanInv(files, uses, scan), Rollouts!ResolvesParents
  PROVE  ScanInv(files, uses, scan')
<1>1. scan \in Reading /\ scan.since \in 1 .. scan.before + 1 /\ scan.before <= Len(uses)
  BY ReadingNow DEF Rollouts!ResolvesParents
<1>2. PICK N \in 0 .. Len(files) : Seen(files, uses, scan, N)
  BY ReadingNow DEF Rollouts!ResolvesParents
<1>3. FilesTyped(files, uses) /\ DOMAIN files = 1 .. Len(files)
      /\ DOMAIN scan.got = 1 .. Len(scan.got)
  BY <1>1, KeptShape, ReadingShape DEF FilesInv
<1> DEFINE Q == Rollouts!ParentFiles
           queue == {[file |-> f, mod |-> files[f].mod] : f \in Q}
<1>4. scan' = Queued(scan, queue) /\ scan.queue = {}
  BY DEF Rollouts!ResolvesParents, Rollouts!Listing, Queued
<1>5. ASSUME NEW f
      PROVE  f \in Q <=> /\ f \in 1 .. Len(files) /\ ~InScan(scan, f)
                         /\ \E i \in 1 .. Len(scan.got) :
                              scan.got[i].parent = files[f].session /\ scan.got[i].parent # 0
                              /\ Rollouts!Canonical(scan.got, scan.got[i].parent) = {}
  <2>1. InScan(scan, f) <=> \E i \in 1 .. Len(scan.got) : scan.got[i].file = f
    BY <1>4 DEF InScan
  <2>2. files[f].session \in Rollouts!Missing(scan.got) <=>
          \E i \in 1 .. Len(scan.got) :
            scan.got[i].parent = files[f].session /\ scan.got[i].parent # 0
            /\ Rollouts!Canonical(scan.got, scan.got[i].parent) = {}
    BY <1>3 DEF Rollouts!Missing, Rollouts!NoSession
  <2> QED
    BY <1>3, <2>1, <2>2 DEF Rollouts!ParentFiles
<1> HIDE DEF Q
<1>6. queue \in SUBSET [file : Nat, mod : Nat]
  <2>1. ASSUME NEW f \in Q PROVE f \in Nat /\ files[f].mod \in Nat
    BY <1>3, <1>5, FileShape
  <2> QED
    BY <2>1
<1>7. Resumed(Queued(scan, queue), scan, queue, scan.got, scan.warned)
  <2> HIDE DEF queue
  <2> QED
    BY <1>1, <1>6, QueuedShape
<1>8. /\ scan' \in Reading /\ scan'.since = scan.since /\ scan'.before = scan.before
      /\ scan'.queue = queue /\ scan'.got = scan.got /\ scan'.warned = scan.warned
  <2> HIDE DEF queue
  <2> QED
    BY <1>4, <1>7 DEF Resumed
<1>9. GoesOn(scan, scan')
  BY <1>1, <1>8 DEF GoesOn
<1>10. Seen(files, uses, scan', N)
  BY <1>2, <1>4, <1>5, <1>8, <1>9, ParentsSeen
<1> QED
  BY <1>1, <1>8, <1>10 DEF ScanInv

-----------------------------------------------------------------------------
(* The report.                                                             *)

LEMMA Exceptions ==
  ASSUME FilesTyped(files, uses), NEW since
  PROVE  /\ Rollouts!InstantFork <=> ~NoInstant(files)
         /\ Rollouts!Outdated(since) <=> ~UpToDate(files, since)
         /\ Rollouts!Copied <=> Copies(files)
         /\ \A d : d \in Rollouts!Lost <=> \E f \in 1 .. Len(files) : d \in files[f].lost
<1>1. DOMAIN files = 1 .. Len(files)
  BY KeptShape
<1>2. Rollouts!InstantFork <=> ~NoInstant(files)
  BY <1>1 DEF Rollouts!InstantFork, Rollouts!NoSession, NoInstant
<1>3. Rollouts!Outdated(since) <=> ~UpToDate(files, since)
  BY <1>1 DEF Rollouts!Outdated, Rollouts!OneSession, UpToDate, Hist
<1>4. Rollouts!Copied <=> Copies(files)
  BY <1>1 DEF Rollouts!Copied, Rollouts!OneSession, Copies
<1>5. \A d : d \in Rollouts!Lost <=> \E f \in 1 .. Len(files) : d \in files[f].lost
  BY <1>1 DEF Rollouts!Lost
<1> QED
  BY <1>2, <1>3, <1>4, <1>5

\* The two silences, of a report on these files.
LEMMA Silences ==
  ASSUME FilesTyped(files, uses), files' = files, NEW n
  PROVE  /\ Quiet(files, scanned'.before, n) => Rollouts!Untold(n)'
         /\ Passed(files, n) => Rollouts!Overtaken(n)'
<1>1. DOMAIN files = 1 .. Len(files)
      /\ \A f \in 1 .. Len(files) : DOMAIN Hist(files, f) = 1 .. Len(Hist(files, f))
  <2>1. ASSUME NEW f \in 1 .. Len(files) PROVE DOMAIN Hist(files, f) = 1 .. Len(Hist(files, f))
    <3>1. Hist(files, f) \in Seq(Mention)
      BY KeptShape
    <3> QED
      BY <3>1
  <2> QED
    BY <2>1, KeptShape
<1>2. ASSUME Quiet(files, scanned'.before, n) PROVE Rollouts!Untold(n)'
  BY <1>1, <1>2 DEF Quiet, LostNow, Hist, Rollouts!Untold
<1>3. ASSUME Passed(files, n) PROVE Rollouts!Overtaken(n)'
  BY <1>1, <1>3 DEF Passed, Hist, Rollouts!Overtaken
<1> QED
  BY <1>2, <1>3

LEMMA ScanEndsKeeps ==
  ASSUME FilesInv(files, uses), ScanInv(files, uses, scan), Rollouts!ScanEnds
  PROVE  NothingCountedTwice' /\ NoWarningNoLoss' /\ ScanInv(files, uses, scan')
<1>1. scan \in Reading /\ scan.since \in 1 .. scan.before + 1 /\ scan.before <= Len(uses)
  BY ReadingNow DEF Rollouts!ScanEnds
<1>2. PICK N \in 0 .. Len(files) : Seen(files, uses, scan, N)
  BY ReadingNow DEF Rollouts!ScanEnds
<1>3. Done(files, uses, scan, N)
  BY <1>1, <1>2 DEF Done, Rollouts!ScanEnds
<1>4. files' = files /\ uses' = uses /\ scan' = Rollouts!Idle
  BY DEF Rollouts!ScanEnds
<1> DEFINE warns == Warns(scan)
           counted == InReport(scan)
<1>5. scanned' = [at |-> "done", since |-> scan.since, before |-> scan.before, events |-> counted,
                  warned |-> warns]
  BY DEF Rollouts!ScanEnds, InReport, Warns
<1> HIDE DEF warns, counted
<1>6. /\ scanned'.since = scan.since /\ scanned'.before = scan.before
      /\ scanned'.events = counted /\ scanned'.warned = warns
  BY <1>5
<1>7. /\ Rollouts!InstantFork' <=> Rollouts!InstantFork
      /\ Rollouts!Copied' <=> Rollouts!Copied
      /\ Rollouts!Outdated(scanned.since)' <=> Rollouts!Outdated(scan.since)
      /\ Rollouts!Lost' = Rollouts!Lost
  BY <1>4, <1>6 DEF Rollouts!InstantFork, Rollouts!Copied, Rollouts!OneSession, Rollouts!Outdated,
     Rollouts!Lost
<1>8. FilesTyped(files, uses)
  BY DEF FilesInv
<1>9. NothingCountedTwice'
  <2>1. SUFFICES ASSUME ~Rollouts!InstantFork', ~Rollouts!Outdated(scanned.since)',
                        Rollouts!Copied' => ~scanned'.warned
                 PROVE  /\ \A e \in scanned'.events :
                             e.uses \subseteq (scanned'.since .. Len(uses')) \cup Rollouts!Lost'
                        /\ \A d, e \in scanned'.events : d # e => d.uses \cap e.uses = {}
    BY DEF NothingCountedTwice, Rollouts!NothingCountedTwice
  <2>2. NoInstant(files) /\ UpToDate(files, scan.since) /\ (Copies(files) => ~Warns(scan))
    BY <1>6, <1>7, <1>8, <2>1, Exceptions DEF warns
  <2>3. /\ \A e \in counted : \A d \in e.uses :
             d \in scan.since .. Len(uses) \/ \E f \in 1 .. Len(files) : d \in files[f].lost
        /\ \A d, e \in counted : d # e => d.uses \cap e.uses = {}
    BY <1>3, <2>2, CountedOnce DEF counted
  <2>4. \A e \in counted : e.uses \subseteq (scan.since .. Len(uses)) \cup Rollouts!Lost
    BY <1>8, <2>3, Exceptions
  <2> QED
    BY <1>4, <1>6, <1>7, <2>3, <2>4
<1>10. NoWarningNoLoss'
  <2>1. SUFFICES ASSUME ~scanned'.warned, NEW n \in scanned'.since .. scanned'.before
                 PROVE  \/ Rollouts!Untold(n)'
                        \/ \E e \in scanned'.events :
                             n \in e.uses /\ (e.whole \/ Rollouts!Overtaken(n)')
    BY DEF NoWarningNoLoss, Rollouts!NoWarningNoLoss
  <2>2. ~Warns(scan) /\ n \in scan.since .. scan.before
    BY <1>6, <2>1 DEF warns
  <2>3. \/ Quiet(files, scan.before, n)
        \/ \E e \in counted : n \in e.uses /\ (e.whole \/ Passed(files, n))
    BY <1>3, <2>2, NothingLost DEF counted
  <2>4. /\ Quiet(files, scanned'.before, n) => Rollouts!Untold(n)'
        /\ Passed(files, n) => Rollouts!Overtaken(n)'
    BY <1>4, <1>8, Silences
  <2> QED
    BY <1>6, <2>3, <2>4
<1> QED
  BY <1>4, <1>9, <1>10 DEF ScanInv

RolloutsInv ==
  /\ FilesInv(files, uses) /\ ScanInv(files, uses, scan)
  /\ NothingCountedTwice /\ NoWarningNoLoss

LEMMA NothingFiled ==
  ASSUME NEW fs, NEW us, fs = <<>>, us = <<>>
  PROVE  FilesInv(fs, us)
<1>1. Len(fs) = 0 /\ Len(us) = 0 /\ DOMAIN fs = 1 .. 0 /\ fs \in Seq(Kept) /\ us \in Seq(Nat)
  OBVIOUS
<1>2. \A f \in 1 .. Len(fs) : FALSE
  BY <1>1
<1>3. SessionsOf(fs) = {} /\ IsFiniteSet({})
  BY <1>1, FS_EmptySet DEF SessionsOf
<1>4. UsesAreTold(fs, us, Len(fs), Len(us))
  BY <1>1 DEF UsesAreTold
<1>5. OneOrigin(fs)
  BY <1>2 DEF OneOrigin
<1> QED
  BY <1>1, <1>2, <1>3, <1>4, <1>5 DEF FilesInv, FilesTyped

LEMMA RolloutsBegin ==
  ASSUME Rollouts!Init
  PROVE  RolloutsInv
<1>1. files = <<>> /\ uses = <<>> /\ scan = Rollouts!Idle /\ scanned = Rollouts!NoReport
  BY DEF Rollouts!Init
<1>2. scanned.at # "done"
  BY <1>1 DEF Rollouts!NoReport
<1>3. NothingCountedTwice /\ NoWarningNoLoss
  BY <1>2 DEF NothingCountedTwice, Rollouts!NothingCountedTwice, NoWarningNoLoss,
     Rollouts!NoWarningNoLoss
<1>4. FilesInv(files, uses)
  BY <1>1, NothingFiled
<1> QED
  BY <1>1, <1>3, <1>4 DEF RolloutsInv, ScanInv

LEMMA RolloutsStep ==
  ASSUME RolloutsInv, [Rollouts!Next]_Rollouts!vars
  PROVE  RolloutsInv'
<1>0. FilesInv(files, uses) /\ ScanInv(files, uses, scan)
  BY DEF RolloutsInv
<1>1. ASSUME scanned = Rollouts!NoReport, scanned' = scanned
      PROVE  NothingCountedTwice' /\ NoWarningNoLoss'
  <2>1. scanned'.at # "done"
    BY <1>1 DEF Rollouts!NoReport
  <2> QED
    BY <2>1 DEF NothingCountedTwice, Rollouts!NothingCountedTwice, NoWarningNoLoss,
       Rollouts!NoWarningNoLoss
\* Codex goes on, the scan or none with it.
<1>2. ASSUME FilesInv(files', uses') /\ Onward(files, uses, files', uses'), scan' = scan,
             scan = Rollouts!Idle \/ Calm(files, files'),
             scanned = Rollouts!NoReport, scanned' = scanned
      PROVE  RolloutsInv'
  <2>1. FilesTyped(files', uses')
    BY <1>2 DEF FilesInv
  <2>2. ScanInv(files', uses', scan)
    BY <1>0, <1>2, <2>1, ScanStays
  <2> QED
    BY <1>1, <1>2, <2>2 DEF RolloutsInv
\* The scan goes on.
<1>3. ASSUME files' = files, uses' = uses, ScanInv(files, uses, scan'),
             scanned = Rollouts!NoReport, scanned' = scanned
      PROVE  RolloutsInv'
  BY <1>0, <1>1, <1>3 DEF RolloutsInv
<1>17. scan.at = "idle" => scan = Rollouts!Idle
  BY <1>0 DEF ScanInv, Reading
<1>4. ASSUME scanned = Rollouts!NoReport, Rollouts!Begin PROVE RolloutsInv'
  <2>1. scan' = scan /\ scanned' = scanned
    BY <1>4 DEF Rollouts!Begin
  <2> QED
    BY <1>0, <1>2, <1>4, <2>1, BeginKeeps
<1>5. ASSUME scanned = Rollouts!NoReport, NEW f \in DOMAIN files, Rollouts!Use(f) PROVE RolloutsInv'
  <2>1. scan' = scan /\ scanned' = scanned
    BY <1>5 DEF Rollouts!Use
  <2> QED
    BY <1>0, <1>2, <1>5, <2>1, UseKeeps
<1>6. ASSUME scanned = Rollouts!NoReport, NEW f \in DOMAIN files, Rollouts!Restart(f)
      PROVE  RolloutsInv'
  <2>1. scan' = scan /\ scanned' = scanned /\ scan.at = "idle"
    BY <1>6 DEF Rollouts!Restart
  <2> QED
    BY <1>0, <1>2, <1>6, <1>17, <2>1, RestartKeeps
<1>18. ASSUME scanned = Rollouts!NoReport, NEW f \in DOMAIN files, Rollouts!Lose(f)
       PROVE  RolloutsInv'
  <2>1. scan' = scan /\ scanned' = scanned /\ scan.at = "idle"
    BY <1>18 DEF Rollouts!Lose
  <2> QED
    BY <1>0, <1>2, <1>18, <1>17, <2>1, LoseKeeps
<1>7. ASSUME scanned = Rollouts!NoReport, NEW f \in DOMAIN files, Rollouts!Copy(f)
      PROVE  RolloutsInv'
  <2>1. scan' = scan /\ scanned' = scanned
    BY <1>7 DEF Rollouts!Copy
  <2> QED
    BY <1>0, <1>2, <1>7, <2>1, CopyKeeps
<1>8. ASSUME scanned = Rollouts!NoReport, NEW f \in DOMAIN files, Rollouts!Spoil(f)
      PROVE  RolloutsInv'
  <2>1. scan' = scan /\ scanned' = scanned /\ scan.at = "idle"
    BY <1>8 DEF Rollouts!Spoil
  <2> QED
    BY <1>0, <1>2, <1>8, <1>17, <2>1, SpoilKeeps
<1>9. ASSUME scanned = Rollouts!NoReport, NEW f \in DOMAIN files,
             NEW k \in 0 .. Len(files[f].records), Rollouts!Fork(f, k)
      PROVE  RolloutsInv'
  <2>1. scan' = scan /\ scanned' = scanned
    BY <1>9 DEF Rollouts!Fork
  <2> QED
    BY <1>0, <1>2, <1>9, <2>1, ForkKeeps
<1>10. ASSUME scanned = Rollouts!NoReport, NEW since \in 1 .. Rollouts!Now,
              Rollouts!ScanBegins(since)
       PROVE  RolloutsInv'
  BY <1>0, <1>3, <1>10, ScanBeginsKeeps DEF Rollouts!ScanBegins
<1>11. ASSUME scanned = Rollouts!NoReport, Rollouts!Reads PROVE RolloutsInv'
  BY <1>0, <1>3, <1>11, ReadsKeeps DEF Rollouts!Reads
<1>12. ASSUME scanned = Rollouts!NoReport, Rollouts!ReachesLimit PROVE RolloutsInv'
  BY <1>0, <1>3, <1>12, ReachesLimitKeeps DEF Rollouts!ReachesLimit
<1>13. ASSUME scanned = Rollouts!NoReport, Rollouts!ResolvesParents PROVE RolloutsInv'
  BY <1>0, <1>3, <1>13, ResolvesParentsKeeps DEF Rollouts!ResolvesParents
<1>14. ASSUME Rollouts!ScanEnds PROVE RolloutsInv'
  <2>1. files' = files /\ uses' = uses
    BY <1>14 DEF Rollouts!ScanEnds
  <2> QED
    BY <1>0, <1>14, <2>1, ScanEndsKeeps DEF RolloutsInv
<1>15. CASE UNCHANGED Rollouts!vars
  BY <1>15 DEF RolloutsInv, Rollouts!vars, NothingCountedTwice, Rollouts!NothingCountedTwice,
     NoWarningNoLoss, Rollouts!NoWarningNoLoss, Rollouts!InstantFork, Rollouts!Copied,
     Rollouts!OneSession, Rollouts!Outdated, Rollouts!Lost, Rollouts!Untold, Rollouts!Overtaken
<1>16. CASE Rollouts!Next
  BY <1>4, <1>5, <1>6, <1>7, <1>8, <1>9, <1>10, <1>11, <1>12, <1>13, <1>14, <1>16, <1>18
     DEF Rollouts!Next, Rollouts!Step
<1> QED
  BY <1>15, <1>16

\* Whatever is forked, copied, restarted, torn or written while it is read, a
\* use is counted once, and none is from before the window but a lost one that
\* the next record tells: for any files, uses, faults and limits of a scan.
THEOREM RolloutsAreCountedOnce == Rollouts!Spec => []NothingCountedTwice
<1>1. RolloutsInv => NothingCountedTwice
  BY DEF RolloutsInv
<1>2. Rollouts!Init => RolloutsInv
  BY RolloutsBegin
<1>3. RolloutsInv /\ [Rollouts!Next]_Rollouts!vars => RolloutsInv'
  BY RolloutsStep
<1> QED
  BY <1>1, <1>2, <1>3, PTL DEF Rollouts!Spec

\* And a report without a warning has every use of its window, with its own
\* counters, but for two: a use whose line was torn in a file that had told
\* nothing (localusage.go:550), and one in a total that began again and is not
\* below the one before (localusage.go:616-619).
THEOREM RolloutsLoseNothing == Rollouts!Spec => []NoWarningNoLoss
<1>1. RolloutsInv => NoWarningNoLoss
  BY DEF RolloutsInv
<1>2. Rollouts!Init => RolloutsInv
  BY RolloutsBegin
<1>3. RolloutsInv /\ [Rollouts!Next]_Rollouts!vars => RolloutsInv'
  BY RolloutsStep
<1> QED
  BY <1>1, <1>2, <1>3, PTL DEF Rollouts!Spec
=============================================================================
