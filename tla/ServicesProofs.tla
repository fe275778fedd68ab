--------------------------- MODULE ServicesProofs ---------------------------
(***************************************************************************)
(* Proofs about the services around the guard, for every value of their    *)
(* constants that satisfies what each assumes.                             *)
(***************************************************************************)
EXTENDS Services, Sequences, SumTheorems, TLAPS

\* An instance brings notions of its own of what its module extends; they are
\* the library's.
LEMMA SameNotions == \A S : Identity!Cardinality(S) = Cardinality(S)
BY DEF Cardinality, Identity!Cardinality

-----------------------------------------------------------------------------
(* Signed identity: while a claim is valid its nonce is used once, and     *)
(* trust is what the grant said.                                           *)

Busy(h) == handler[h].at \in {"load", "consume", "attributed"}

\* What a handler may stand with.
Grants ==
  {[key |-> g.key, projects |-> g.projects, from |-> t, until |-> t + g.lasts] :
     g \in Grant, t \in Int} \cup {NoGrant}
Standing ==
  [at : {"idle", "load", "consume", "attributed"}, now : Int, claim : claims \cup {NoClaim},
   request : SignedRequest \cup {0}, grant : Grants,
   confidence : {"unverified", "self_reported", "authenticated"}]

IdentityTypeInv ==
  /\ timing \in Int /\ IsFiniteSet(claims)
  /\ Cardinality(claims) \in Nat /\ Cardinality(claims) <= MaxClaims
  /\ handler \in [Verifier -> Standing]
  /\ \A h \in Verifier : Busy(h) => handler[h].claim \in claims
  /\ grant \in Grants
  /\ accepted \in [1..MaxClaims -> Nat]

\* Claims are numbered as they are issued, so each has a nonce of its own, and
\* only theirs have been accepted.
Numbered ==
  /\ \A c \in claims : c.nonce \in 1..Cardinality(claims) /\ c.expires \in Int
  /\ \A c, d \in claims : c.nonce = d.nonce => c = d
  /\ \A n \in 1..MaxClaims : accepted[n] > 0 => n <= Cardinality(claims)

\* What a handler noted is not of the future.
NotesArePast == \A h \in Verifier : Busy(h) => handler[h].now <= timing

\* The table knows the nonce of an accepted claim for as long as the claim
\* stands by the clock, whoever has deleted rows.
Remembered ==
  \A c \in claims : accepted[c.nonce] > 0 =>
    timing >= c.expires \/ \E n \in nonces : n.nonce = c.nonce /\ n.expires = c.expires

IdentityInv == IdentityTypeInv /\ Numbered /\ NotesArePast /\ Remembered /\ Identity!UsedOnceWhileValid

\* What was checked of a claim stays with the handler until it is attributed.
Checked(h) ==
  LET me == handler[h]
  IN /\ me.claim.request = me.request /\ me.claim.key = me.grant.key
     /\ me.now < me.grant.until
     /\ me.confidence = "authenticated" => me.claim.project \in me.grant.projects
TrustInv == \A h \in Verifier : handler[h].at \in {"consume", "attributed"} => Checked(h)

-----------------------------------------------------------------------------
(* Handlers.                                                               *)

\* Where handler h goes with x: it ends, begins, has its claim checked, or has
\* its nonce consumed.
Moves(h, x) ==
  \/ x = Identity!Idle
  \/ x.at = "load" /\ x.now = timing /\ x.claim \in claims
  \/ /\ handler[h].at = "load" /\ x.at = "consume"
     /\ x.now = handler[h].now /\ x.claim = handler[h].claim
     /\ x.claim.request = x.request /\ x.claim.key = x.grant.key /\ x.now < x.grant.until
     /\ x.confidence = "authenticated" => x.claim.project \in x.grant.projects
  \/ /\ handler[h].at = "consume" /\ x.at = "attributed"
     /\ x.now = handler[h].now /\ x.claim = handler[h].claim
     /\ x.request = handler[h].request /\ x.grant = handler[h].grant
     /\ x.confidence = handler[h].confidence
Moved ==
  \E h \in Verifier, x \in Standing :
    handler' = [handler EXCEPT ![h] = x] /\ Moves(h, x) /\ UNCHANGED <<timing, grant, claims>>

\* A step of a handler moves it, any other leaves all where they are.
LEMMA EndMoves ==
  ASSUME NEW h \in Verifier, Identity!Ends(h), UNCHANGED <<timing, grant, claims>>
  PROVE  Moved
<1>1. Identity!Idle \in Standing
  BY DEF Identity!Idle, Standing, Grants
<1>2. handler' = [handler EXCEPT ![h] = Identity!Idle] /\ Moves(h, Identity!Idle)
  BY DEF Identity!Ends, Moves
<1> QED
  BY <1>1, <1>2 DEF Moved

LEMMA HandlerMoves ==
  ASSUME IdentityTypeInv, NEW h \in Verifier,
         \/ \E c \in claims, q \in SignedRequest : Identity!Begin(h, c, q)
         \/ Identity!Load(h) \/ Identity!ConsumeFails(h) \/ Identity!Consume(h) \/ Identity!Leave(h)
  PROVE  Moved
<1>0. handler[h] \in Standing
  BY DEF IdentityTypeInv
<1>1. ASSUME NEW c \in claims, NEW q \in SignedRequest, Identity!Begin(h, c, q)
      PROVE  Moved
  <2> DEFINE x == [Identity!Idle EXCEPT !.at = "load", !.now = timing, !.claim = c, !.request = q]
  <2>1. Identity!Idle \in Standing
    BY DEF Identity!Idle, Standing, Grants
  <2>2. x \in Standing
    BY <2>1 DEF Standing, IdentityTypeInv
  <2>3. handler' = [handler EXCEPT ![h] = x] /\ UNCHANGED <<timing, grant, claims>>
    BY <1>1 DEF Identity!Begin
  <2>4. x.at = "load" /\ x.now = timing /\ x.claim = c
    BY <2>1 DEF Standing
  <2> HIDE DEF x
  <2>5. Moves(h, x)
    BY <2>4 DEF Moves
  <2> QED
    BY <2>2, <2>3, <2>5 DEF Moved
<1>2. ASSUME Identity!Load(h), ~Identity!Ends(h)
      PROVE  Moved
  <2> DEFINE trust == Identity!Confidence(grant, handler[h].claim.project)
             x == [handler[h] EXCEPT !.at = "consume", !.grant = grant, !.confidence = trust]
  <2>1. /\ handler[h].at = "load" /\ UNCHANGED <<timing, grant, claims>>
        /\ handler[h].claim.request = handler[h].request
        /\ handler[h].claim.key = grant.key /\ handler[h].now < grant.until
    BY <1>2 DEF Identity!Load, Identity!GrantHolds, Identity!Verified
  <2>2. handler' = [handler EXCEPT ![h] = x]
    BY <1>2, <1>0 DEF Identity!Load, IdentityTypeInv
  <2>3. /\ trust \in {"unverified", "self_reported", "authenticated"}
        /\ trust = "authenticated" => handler[h].claim.project \in grant.projects
    BY DEF Identity!Confidence, Identity!ProjectTrusted
  <2> HIDE DEF trust
  <2>4. x \in Standing
    BY <1>0, <2>3 DEF Standing, IdentityTypeInv
  <2>5. /\ x.at = "consume" /\ x.now = handler[h].now /\ x.claim = handler[h].claim
        /\ x.request = handler[h].request /\ x.grant = grant /\ x.confidence = trust
    BY <1>0 DEF Standing
  <2> HIDE DEF x
  <2>6. Moves(h, x)
    BY <2>1, <2>3, <2>5 DEF Moves
  <2> QED
    BY <2>1, <2>2, <2>4, <2>6 DEF Moved
<1>3. ASSUME Identity!Consume(h), ~Identity!Ends(h)
      PROVE  Moved
  <2> DEFINE x == [handler[h] EXCEPT !.at = "attributed"]
  <2>1. handler[h].at = "consume" /\ UNCHANGED <<timing, grant, claims>>
    BY <1>3 DEF Identity!Consume
  <2>2. handler' = [handler EXCEPT ![h] = x]
    BY <1>3 DEF Identity!Consume
  <2>3. x \in Standing
    BY <1>0 DEF Standing
  <2>4. /\ x.at = "attributed" /\ x.now = handler[h].now /\ x.claim = handler[h].claim
        /\ x.request = handler[h].request /\ x.grant = handler[h].grant
        /\ x.confidence = handler[h].confidence
    BY <1>0 DEF Standing
  <2> HIDE DEF x
  <2>5. Moves(h, x)
    BY <2>1, <2>4 DEF Moves
  <2> QED
    BY <2>1, <2>2, <2>3, <2>5 DEF Moved
<1>4. CASE Identity!ConsumeFails(h) \/ Identity!Leave(h)
  BY <1>4, EndMoves DEF Identity!ConsumeFails, Identity!Leave
<1>5. CASE Identity!Load(h)
  <2>1. UNCHANGED <<timing, grant, claims>>
    BY <1>5 DEF Identity!Load
  <2> QED
    BY <1>2, <1>5, <2>1, EndMoves
<1>6. CASE Identity!Consume(h)
  <2>1. UNCHANGED <<timing, grant, claims>>
    BY <1>6 DEF Identity!Consume
  <2> QED
    BY <1>3, <1>6, <2>1, EndMoves
<1> QED
  BY <1>1, <1>4, <1>5, <1>6

\* What a move keeps of types, notes and checks.
LEMMA MoveKeeps ==
  ASSUME IdentityTypeInv, NotesArePast, Moved
  PROVE  /\ handler' \in [Verifier -> Standing'] /\ NotesArePast'
         /\ \A h \in Verifier : Busy(h)' => handler'[h].claim \in claims'
         /\ TrustInv => TrustInv'
<1>1. PICK h \in Verifier, x \in Standing :
        handler' = [handler EXCEPT ![h] = x] /\ Moves(h, x) /\ UNCHANGED <<timing, grant, claims>>
  BY DEF Moved
<1>2. Standing' = Standing
  BY <1>1 DEF Standing
<1>3. handler' \in [Verifier -> Standing] /\ handler'[h] = x
      /\ \A k \in Verifier : k # h => handler'[k] = handler[k]
  BY <1>1 DEF IdentityTypeInv
<1>4. Identity!Idle.at = "idle"
  BY DEF Identity!Idle
<1>5. /\ x.at \in {"load", "consume", "attributed"} => x.claim \in claims /\ x.now <= timing
  BY <1>1, <1>4 DEF Moves, IdentityTypeInv, NotesArePast, Busy
<1>6. TrustInv /\ x.at \in {"consume", "attributed"} =>
        /\ x.claim.request = x.request /\ x.claim.key = x.grant.key
        /\ x.now < x.grant.until
        /\ x.confidence = "authenticated" => x.claim.project \in x.grant.projects
  BY <1>1, <1>4 DEF Moves, TrustInv, Checked
<1>7. NotesArePast' /\ \A k \in Verifier : Busy(k)' => handler'[k].claim \in claims'
  BY <1>1, <1>3, <1>5 DEF NotesArePast, Busy, IdentityTypeInv
<1>8. TrustInv => TrustInv'
  BY <1>3, <1>6 DEF TrustInv, Checked
<1> QED
  BY <1>2, <1>3, <1>7, <1>8

LEMMA IdentityTypeStep ==
  ASSUME Identity!IdentityAssumption, IdentityTypeInv, NotesArePast, [Identity!Next]_Identity!vars
  PROVE  IdentityTypeInv' /\ NotesArePast' /\ (TrustInv => TrustInv')
<1>1. CASE Identity!Sync \/ Identity!Tick \/ Identity!Probe \/ UNCHANGED Identity!vars
  <2>1. timing' \in Int /\ timing <= timing' /\ UNCHANGED <<claims, handler, accepted>>
    BY <1>1 DEF IdentityTypeInv, Identity!Sync, Identity!Tick, Identity!Probe, Identity!vars
  <2>2. grant' \in Grants
    BY <1>1 DEF IdentityTypeInv, Identity!Sync, Identity!Tick, Identity!Probe, Identity!vars, Grants
  <2>3. Standing' = Standing
    BY <2>1 DEF Standing
  <2>4. IdentityTypeInv'
    BY <2>1, <2>2, <2>3 DEF IdentityTypeInv, Busy
  <2>5. \A h \in Verifier : handler[h].now \in Int
    BY DEF IdentityTypeInv, Standing
  <2>6. NotesArePast'
    BY <2>1, <2>5 DEF NotesArePast, Busy, IdentityTypeInv
  <2> QED
    BY <2>1, <2>4, <2>6 DEF TrustInv, Checked
<1>2. ASSUME NEW q, NEW p, Identity!Issue(q, p)
      PROVE  IdentityTypeInv' /\ NotesArePast' /\ (TrustInv => TrustInv')
  <2>1. PICK new : claims' = claims \cup {new}
    BY <1>2 DEF Identity!Issue
  <2>2. /\ IsFiniteSet(claims') /\ Cardinality(claims') \in Nat
        /\ Cardinality(claims') <= Cardinality(claims) + 1
    <3>1. IsFiniteSet(claims) /\ Cardinality(claims) \in Nat
      BY DEF IdentityTypeInv
    <3>2. CASE new \in claims
      <4>1. claims' = claims
        BY <2>1, <3>2
      <4> QED
        BY <3>1, <4>1
    <3>3. CASE new \notin claims
      BY <2>1, <3>1, <3>3, FS_AddElement
    <3> QED
      BY <3>2, <3>3
  <2>3. Cardinality(claims) < MaxClaims /\ UNCHANGED <<timing, grant, handler, accepted>>
    BY <1>2, SameNotions DEF Identity!Issue
  <2>4. handler' \in [Verifier -> Standing']
    BY <2>1, <2>3 DEF IdentityTypeInv, Standing
  <2>5. Cardinality(claims') <= MaxClaims
    BY <2>2, <2>3 DEF IdentityTypeInv, Identity!IdentityAssumption
  <2>6. IdentityTypeInv'
    BY <2>1, <2>2, <2>3, <2>4, <2>5 DEF IdentityTypeInv, Busy
  <2> QED
    BY <2>3, <2>6 DEF NotesArePast, Busy, TrustInv, Checked
<1>3. ASSUME NEW h \in Verifier,
             \/ \E c \in claims, q \in SignedRequest : Identity!Begin(h, c, q)
             \/ Identity!Load(h) \/ Identity!ConsumeFails(h) \/ Identity!Consume(h) \/ Identity!Leave(h)
      PROVE  IdentityTypeInv' /\ NotesArePast' /\ (TrustInv => TrustInv')
  <2>1. Moved
    BY <1>3, HandlerMoves
  <2>2. UNCHANGED <<timing, grant, claims>>
    BY <2>1 DEF Moved
  <2>3. accepted' \in [1..MaxClaims -> Nat]
    <3>1. CASE Identity!Consume(h)
      <4>1. accepted' = accepted \/ accepted' = [accepted EXCEPT ![handler[h].claim.nonce] = @ + 1]
        BY <3>1 DEF Identity!Consume
      <4> QED
        BY <4>1 DEF IdentityTypeInv
    <3>2. CASE ~Identity!Consume(h)
      <4>1. UNCHANGED accepted
        BY <1>3, <3>2 DEF Identity!Begin, Identity!Load, Identity!ConsumeFails, Identity!Leave
      <4> QED
        BY <4>1 DEF IdentityTypeInv
    <3> QED
      BY <3>1, <3>2
  <2> QED
    BY <2>1, <2>2, <2>3, MoveKeeps DEF IdentityTypeInv
<1> QED
  BY <1>1, <1>2, <1>3 DEF Identity!Next

-----------------------------------------------------------------------------
(* Nonces.                                                                 *)

\* A new claim has a number nobody has used.
LEMMA IdentityIssueStep ==
  ASSUME Identity!IdentityAssumption, IdentityInv, NEW q, NEW p, Identity!Issue(q, p)
  PROVE  Numbered' /\ Remembered' /\ Identity!UsedOnceWhileValid'
<1> USE DEF Identity!IdentityAssumption
<1> DEFINE N == Cardinality(claims)
           new == [ nonce |-> N + 1, key |-> grant.key, request |-> q,
                    issued |-> timing, expires |-> timing + MaxTTL, project |-> p ]
<1>1. claims' = claims \cup {new} /\ N < MaxClaims /\ N \in Nat
  BY SameNotions DEF Identity!Issue, IdentityInv, IdentityTypeInv, Standing
<1>2. \A c \in claims : c.nonce \in 1..N /\ c.expires \in Int
  BY DEF IdentityInv, Numbered
<1>3. new.nonce = N + 1 /\ new.expires \in Int /\ N + 1 \in 1..MaxClaims
  BY <1>1 DEF IdentityInv, IdentityTypeInv, Standing
<1> HIDE DEF new
<1>4. new \notin claims
  BY <1>1, <1>2, <1>3
<1>5. IsFiniteSet(claims') /\ Cardinality(claims') = N + 1
  BY <1>1, <1>4, FS_AddElement DEF IdentityInv, IdentityTypeInv, Standing
<1> HIDE DEF N
<1>6. UNCHANGED <<timing, nonces, handler, accepted, reused>>
  BY DEF Identity!Issue
<1>8. \A n \in 1..MaxClaims : accepted[n] > 0 => n <= N
  BY DEF IdentityInv, Numbered, N
<1>9. Numbered'
  <2>1. \A c \in claims' : c.nonce \in 1..(N + 1) /\ c.expires \in Int
    BY <1>1, <1>2, <1>3
  <2>2. \A c, d \in claims' : c.nonce = d.nonce => c = d
    <3>1. \A c, d \in claims : c.nonce = d.nonce => c = d
      BY DEF IdentityInv, Numbered
    <3>2. \A c \in claims : c.nonce # new.nonce
      BY <1>1, <1>2, <1>3
    <3> QED
      BY <1>1, <3>1, <3>2
  <2>3. \A n \in 1..MaxClaims : accepted[n] > 0 => n <= N + 1
    BY <1>1, <1>8
  <2> QED
    BY <1>5, <1>6, <2>1, <2>2, <2>3 DEF Numbered
<1>10. Remembered'
  <2>1. ~(accepted[new.nonce] > 0)
    BY <1>1, <1>3, <1>8
  <2> QED
    BY <1>1, <1>6, <2>1 DEF IdentityInv, Remembered
<1>11. Identity!UsedOnceWhileValid'
  BY <1>6 DEF IdentityInv, Identity!UsedOnceWhileValid
<1> QED
  BY <1>9, <1>10, <1>11

\* Whoever consumes deletes by the time it noted, which is past: what goes has
\* expired by the clock too, and what is not known was never accepted.
LEMMA IdentityConsumeStep ==
  ASSUME Identity!IdentityAssumption, IdentityInv, NEW h \in Verifier, Identity!Consume(h)
  PROVE  Numbered' /\ Remembered' /\ Identity!UsedOnceWhileValid'
<1> USE DEF Identity!IdentityAssumption
<1> DEFINE claim == handler[h].claim
           left == Identity!Pruned(handler[h].now)
<1>1. /\ handler[h].at = "consume" /\ claim \in claims /\ handler[h].now <= timing
      /\ handler[h].now \in Int /\ timing \in Int
  BY DEF Identity!Consume, IdentityInv, IdentityTypeInv, Standing, NotesArePast, Busy
<1>2. UNCHANGED <<timing, claims>>
  BY DEF Identity!Consume
<1>3. claim.nonce \in 1..MaxClaims /\ claim.expires \in Int
      /\ \A c \in claims : c.nonce \in 1..MaxClaims /\ c.expires \in Int
  BY <1>1 DEF IdentityInv, IdentityTypeInv, Standing, Numbered
<1>4. \A c \in claims : accepted[c.nonce] > 0 =>
        timing >= c.expires \/ \E n \in left : n.nonce = c.nonce /\ n.expires = c.expires
  <2> SUFFICES ASSUME NEW c \in claims, accepted[c.nonce] > 0, ~(timing >= c.expires)
               PROVE  \E n \in left : n.nonce = c.nonce /\ n.expires = c.expires
    OBVIOUS
  <2>1. PICK n \in nonces : n.nonce = c.nonce /\ n.expires = c.expires
    BY DEF IdentityInv, Remembered
  <2>2. n.expires > handler[h].now
    BY <1>1, <1>3, <2>1
  <2> QED
    BY <2>1, <2>2 DEF Identity!Pruned
<1>5. CASE Identity!Known(claim, left)
  <2>1. nonces' = left /\ Identity!Ends(h) /\ UNCHANGED <<accepted, reused>>
    BY <1>5 DEF Identity!Consume
  <2>2. Remembered'
    BY <1>2, <1>4, <2>1 DEF Remembered
  <2>3. Numbered' /\ Identity!UsedOnceWhileValid'
    BY <1>2, <2>1 DEF IdentityInv, Numbered, Identity!UsedOnceWhileValid
  <2> QED
    BY <2>2, <2>3
<1>6. CASE ~Identity!Known(claim, left)
  <2>1. /\ nonces' = left \cup {[nonce |-> claim.nonce, expires |-> claim.expires]}
        /\ handler' = [handler EXCEPT ![h].at = "attributed"]
        /\ accepted' = [accepted EXCEPT ![claim.nonce] = @ + 1]
        /\ reused' = IF accepted[claim.nonce] > 0 /\ timing < claim.expires
                     THEN reused \cup {claim.nonce} ELSE reused
    BY <1>6 DEF Identity!Consume
  <2>2. ~(accepted[claim.nonce] > 0 /\ timing < claim.expires)
    BY <1>1, <1>3, <1>4, <1>6 DEF Identity!Known
  <2>3. \A c \in claims : c = claim \/ accepted'[c.nonce] = accepted[c.nonce]
    BY <1>1, <1>3, <2>1 DEF IdentityInv, Numbered, IdentityTypeInv, Standing
  <2>4. Remembered'
    <3> SUFFICES ASSUME NEW c \in claims, accepted'[c.nonce] > 0
                 PROVE  \/ timing >= c.expires
                        \/ \E n \in nonces' : n.nonce = c.nonce /\ n.expires = c.expires
      BY <1>2 DEF Remembered
    <3>1. CASE c = claim
      <4> DEFINE row == [nonce |-> claim.nonce, expires |-> claim.expires]
      <4>1. row \in nonces' /\ row.nonce = claim.nonce /\ row.expires = claim.expires
        BY <2>1
      <4> HIDE DEF row
      <4> QED
        BY <3>1, <4>1
    <3>2. CASE accepted'[c.nonce] = accepted[c.nonce]
      BY <1>4, <2>1, <3>2
    <3> QED
      BY <2>3, <3>1, <3>2
  <2>5. Numbered'
    <3>1. \A n \in 1..MaxClaims : n = claim.nonce \/ accepted'[n] = accepted[n]
      BY <2>1 DEF IdentityInv, IdentityTypeInv, Standing
    <3>2. claim.nonce <= Cardinality(claims)
      BY <1>1 DEF IdentityInv, IdentityTypeInv, Standing, Numbered
    <3> QED
      BY <1>2, <3>1, <3>2 DEF IdentityInv, Numbered
  <2>6. Identity!UsedOnceWhileValid'
    BY <2>1, <2>2 DEF IdentityInv, Identity!UsedOnceWhileValid
  <2> QED
    BY <2>4, <2>5, <2>6
<1> QED
  BY <1>5, <1>6

\* Time only makes claims expire, and what leaves the nonces alone leaves all.
LEMMA IdentityRestStep ==
  ASSUME IdentityInv, UNCHANGED <<claims, nonces, accepted, reused>>, timing' \in {timing, timing + 1}
  PROVE  Numbered' /\ Remembered' /\ Identity!UsedOnceWhileValid'
<1>1. \A c \in claims : c.expires \in Int /\ (timing >= c.expires => timing' >= c.expires)
  BY DEF IdentityInv, IdentityTypeInv, Numbered
<1>2. Numbered' /\ Identity!UsedOnceWhileValid'
  BY DEF IdentityInv, Numbered, Identity!UsedOnceWhileValid
<1>3. Remembered'
  BY <1>1 DEF IdentityInv, Remembered
<1> QED
  BY <1>2, <1>3

LEMMA IdentityStep ==
  ASSUME Identity!IdentityAssumption, IdentityInv, [Identity!Next]_Identity!vars
  PROVE  IdentityInv' /\ (TrustInv => TrustInv')
<1>1. IdentityTypeInv' /\ NotesArePast' /\ (TrustInv => TrustInv')
  BY IdentityTypeStep DEF IdentityInv
<1>2. \/ UNCHANGED <<claims, nonces, accepted, reused>> /\ timing' \in {timing, timing + 1}
      \/ \E q, p : Identity!Issue(q, p)
      \/ \E h \in Verifier : Identity!Consume(h)
  <2>1. CASE Identity!Sync \/ Identity!Tick \/ Identity!Probe \/ UNCHANGED Identity!vars
    BY <2>1 DEF Identity!Sync, Identity!Tick, Identity!Probe, Identity!vars
  <2>2. ASSUME NEW h \in Verifier,
               \/ \E c \in claims, q \in SignedRequest : Identity!Begin(h, c, q)
               \/ Identity!Load(h) \/ Identity!ConsumeFails(h) \/ Identity!Leave(h)
        PROVE  UNCHANGED <<claims, nonces, accepted, reused>> /\ timing' \in {timing, timing + 1}
    BY <2>2 DEF Identity!Begin, Identity!Load, Identity!ConsumeFails, Identity!Leave
  <2> QED
    BY <2>1, <2>2 DEF Identity!Next
<1> QED
  BY <1>1, <1>2, IdentityRestStep, IdentityIssueStep, IdentityConsumeStep DEF IdentityInv

LEMMA IdentityInit ==
  ASSUME Identity!IdentityAssumption, Identity!Init
  PROVE  IdentityInv /\ TrustInv
<1>1. Identity!Idle \in Standing /\ Identity!Idle.at = "idle"
  BY DEF Identity!Idle, Standing, Grants
<1>2. handler \in [Verifier -> Standing] /\ \A h \in Verifier : ~Busy(h)
  BY <1>1 DEF Identity!Init, Busy
<1>3. IdentityTypeInv
  BY <1>2, FS_EmptySet DEF Identity!Init, IdentityTypeInv, Identity!IdentityAssumption, Grants
<1>4. Numbered /\ Remembered /\ Identity!UsedOnceWhileValid
  BY DEF Identity!Init, Numbered, Remembered, Identity!UsedOnceWhileValid
<1>5. NotesArePast /\ TrustInv
  BY <1>2 DEF NotesArePast, TrustInv, Busy
<1> QED
  BY <1>3, <1>4, <1>5 DEF IdentityInv

\* However handlers and the copies of a claim interleave, whatever each noted
\* as the time, a claim that is still valid is not let through again.
THEOREM NoncesAreUsedOnce == Identity!Spec => []UsedOnceWhileValid
<1> USE IdentityConstants
<1>1. Identity!Init => IdentityInv
  BY IdentityInit
<1>2. IdentityInv /\ [Identity!Next]_Identity!vars => IdentityInv'
  BY IdentityStep
<1>3. IdentityInv => UsedOnceWhileValid
  BY DEF IdentityInv, UsedOnceWhileValid
<1> QED
  BY <1>1, <1>2, <1>3, PTL DEF Identity!Spec

\* An attributed request was checked against the grant as it was loaded, and a
\* project is authenticated only if that grant lists it by name.
THEOREM TrustComesFromGrants == Identity!Spec => []TrustIsGranted
<1> USE IdentityConstants
<1>1. Identity!Init => IdentityInv /\ TrustInv
  BY IdentityInit
<1>2. IdentityInv /\ TrustInv /\ [Identity!Next]_Identity!vars => IdentityInv' /\ TrustInv'
  BY IdentityStep
<1>3. TrustInv => TrustIsGranted
  BY DEF TrustInv, Checked, TrustIsGranted, Identity!TrustIsGranted
<1> QED
  BY <1>1, <1>2, <1>3, PTL DEF Identity!Spec

-----------------------------------------------------------------------------
(* Invoices: imports only grow, and an invoice is imported once.           *)

\* What an import command adds, it adds for an invoice that is not there; what
\* it calls a replay has these very lines.
LEMMA ImportKeeps ==
  ASSUME Invoices!ReplayIsTheSame, NEW key, NEW file, NEW overlay,
         Invoices!Import(key, file, overlay)
  PROVE  Invoices!ReplayIsTheSame'
<1> DEFINE mapping == Invoices!Resolved(overlay)
           lines == Invoices!Lines(file, mapping)
           new == [key |-> key, bytes |-> file, identity |-> Invoices!Identity(file, mapping),
                   lines |-> lines]
<1>1. CASE {m \in imports : m.key = key} = {}
  <2>1. imports' = imports \cup {new} /\ answer' = [said |-> "imported", key |-> key, lines |-> lines]
    BY <1>1 DEF Invoices!Import, Invoices!Answers
  <2>2. new.key = key
    OBVIOUS
  <2> HIDE DEF new
  <2> QED
    BY <1>1, <2>1, <2>2 DEF Invoices!ReplayIsTheSame
<1>2. CASE {m \in imports : m.key = key} # {}
  <2>1. UNCHANGED imports
    BY <1>2 DEF Invoices!Import
  <2>2. CASE \E m \in imports : m.key = key /\ Invoices!Replayed(m, file, mapping)
    <3>1. answer' = [said |-> "replayed", key |-> key, lines |-> lines]
      BY <1>2, <2>2 DEF Invoices!Import, Invoices!Answers
    <3> QED
      BY <2>1, <2>2, <3>1 DEF Invoices!ReplayIsTheSame, Invoices!Replayed
  <2>3. CASE ~\E m \in imports : m.key = key /\ Invoices!Replayed(m, file, mapping)
    <3>1. answer' = [said |-> "conflict", key |-> key, lines |-> lines]
      BY <1>2, <2>3 DEF Invoices!Import, Invoices!Answers
    <3> QED
      BY <2>1, <3>1 DEF Invoices!ReplayIsTheSame
  <2> QED
    BY <2>2, <2>3
<1> QED
  BY <1>1, <1>2

\* Whatever the files and their mappings, and whatever a build without
\* identities left behind, an operator told "already imported" has these lines
\* in the database, and no invoice is there twice.
THEOREM ReplaysAreTheSame == Invoices!Spec => []ReplayIsTheSame
<1>1. Invoices!Init => Invoices!ReplayIsTheSame
  BY DEF Invoices!Init, Invoices!NoAnswer, Invoices!ReplayIsTheSame
<1>2. Invoices!ReplayIsTheSame /\ [Invoices!Next]_Invoices!vars => Invoices!ReplayIsTheSame'
  <2> SUFFICES ASSUME Invoices!ReplayIsTheSame, [Invoices!Next]_Invoices!vars
               PROVE  Invoices!ReplayIsTheSame'
    OBVIOUS
  <2>1. ASSUME NEW key, Invoices!ImportFails(key)
        PROVE  Invoices!ReplayIsTheSame'
    BY <2>1 DEF Invoices!ImportFails, Invoices!ReplayIsTheSame
  <2>2. ASSUME UNCHANGED <<imports, answer>>
        PROVE  Invoices!ReplayIsTheSame'
    BY <2>2 DEF Invoices!ReplayIsTheSame
  <2>3. ASSUME NEW e, Invoices!Insert(e)
        PROVE  UNCHANGED <<imports, answer>>
    BY <2>3 DEF Invoices!Insert
  <2>4. CASE \/ Invoices!ReadLedger \/ Invoices!ReadLines \/ Invoices!ReadAdjustments
             \/ Invoices!ReadLast \/ UNCHANGED Invoices!vars
    <3>1. UNCHANGED <<imports, answer>>
      BY <2>4 DEF Invoices!ReadLedger, Invoices!ReadLines, Invoices!ReadAdjustments,
                  Invoices!ReadLast, Invoices!vars
    <3> QED
      BY <2>2, <3>1
  <2> QED
    BY ImportKeeps, <2>1, <2>2, <2>3, <2>4 DEF Invoices!Next
<1>3. Invoices!ReplayIsTheSame => ReplayIsTheSame
  BY DEF ReplayIsTheSame
<1> QED
  BY <1>1, <1>2, <1>3, PTL DEF Invoices!Spec

-----------------------------------------------------------------------------
(* Invoices: the report.                                                   *)

LEMMA SameInvoiceSums ==
  /\ \A f, S : Invoices!SumOf(f, S) = SumOf(f, S)
  /\ \A a, b : Invoices!Monus(a, b) = Monus(a, b)
<1>1. \A S : Invoices!Cardinality(S) = Cardinality(S)
  BY DEF Cardinality, Invoices!Cardinality
<1>2. \A f, S : Invoices!Units(f, S) = Units(f, S)
  BY DEF Units, Invoices!Units
<1>3. \A f, S : Invoices!SumOf(f, S) = SumOf(f, S)
  BY <1>1, <1>2 DEF SumOf, Invoices!SumOf
<1>4. \A a, b : Invoices!Monus(a, b) = Monus(a, b)
  BY DEF Monus, Invoices!Monus
<1> QED
  BY <1>3, <1>4

\* What rows of the books gain, and lose where they are credits.
Gain(R) == [x \in R |-> Monus(x[2].billed, 0)]
Loss(R) == [x \in R |-> Monus(0, x[2].billed)]

LEMMA BilledIsNet ==
  ASSUME NEW R
  PROVE  Invoices!BilledOf(R) = SumOf(Gain(R), R) - SumOf(Loss(R), R)
BY SameInvoiceSums DEF Invoices!BilledOf, Invoices!Sum, Gain, Loss

\* What is billed in all is what is billed in the parts.
LEMMA BilledAdds ==
  ASSUME NEW S, NEW T, IsFiniteSet(S), IsFiniteSet(T), S \cap T = {},
         \A x \in S \cup T : x[2].billed \in Int
  PROVE  Invoices!BilledOf(S \cup T) = Invoices!BilledOf(S) + Invoices!BilledOf(T)
<1> DEFINE U == S \cup T
<1>1. \A n \in Int : Monus(n, 0) \in Nat /\ Monus(0, n) \in Nat
  BY DEF Monus
<1>2. \A x \in U : Gain(U)[x] \in Nat /\ Loss(U)[x] \in Nat
  BY <1>1 DEF Gain, Loss
<1>3. /\ \A x \in S : Gain(S)[x] = Gain(U)[x] /\ Loss(S)[x] = Loss(U)[x]
      /\ \A x \in T : Gain(T)[x] = Gain(U)[x] /\ Loss(T)[x] = Loss(U)[x]
  BY DEF Gain, Loss
<1>4. /\ SumOf(Gain(S), S) = SumOf(Gain(U), S) /\ SumOf(Loss(S), S) = SumOf(Loss(U), S)
      /\ SumOf(Gain(T), T) = SumOf(Gain(U), T) /\ SumOf(Loss(T), T) = SumOf(Loss(U), T)
  <2>1. \A f, g, R : (\A x \in R : f[x] = g[x]) => SumOf(f, R) = SumOf(g, R)
    BY SumSame
  <2> HIDE DEF U
  <2>2. SumOf(Gain(S), S) = SumOf(Gain(U), S)
    BY <1>3, <2>1, Zenon
  <2>3. SumOf(Loss(S), S) = SumOf(Loss(U), S)
    BY <1>3, <2>1, Zenon
  <2>4. SumOf(Gain(T), T) = SumOf(Gain(U), T)
    BY <1>3, <2>1, Zenon
  <2>5. SumOf(Loss(T), T) = SumOf(Loss(U), T)
    BY <1>3, <2>1, Zenon
  <2> QED
    BY <2>2, <2>3, <2>4, <2>5
<1>5. /\ SumOf(Gain(U), U) = SumOf(Gain(U), S) + SumOf(Gain(U), T)
      /\ SumOf(Loss(U), U) = SumOf(Loss(U), S) + SumOf(Loss(U), T)
  BY <1>2, SumUnion
<1>6. /\ SumOf(Gain(U), S) \in Nat /\ SumOf(Gain(U), T) \in Nat
      /\ SumOf(Loss(U), S) \in Nat /\ SumOf(Loss(U), T) \in Nat
  BY <1>2, SumFinite
<1>7. \A g, h, k, l \in Nat : (g + h) - (k + l) = (g - k) + (h - l)
  OBVIOUS
<1>8. Invoices!BilledOf(U) = SumOf(Gain(U), U) - SumOf(Loss(U), U)
  BY BilledIsNet
<1>9. /\ Invoices!BilledOf(S) = SumOf(Gain(U), S) - SumOf(Loss(U), S)
      /\ Invoices!BilledOf(T) = SumOf(Gain(U), T) - SumOf(Loss(U), T)
  BY <1>4, BilledIsNet
<1> HIDE DEF U
<1>10. Invoices!BilledOf(U) = Invoices!BilledOf(S) + Invoices!BilledOf(T)
  BY <1>5, <1>6, <1>7, <1>8, <1>9
<1> QED
  BY <1>10 DEF U

\* An image of a finite set is finite.
LEMMA ImageFinite ==
  ASSUME NEW S, IsFiniteSet(S), NEW f, DOMAIN f = S
  PROVE  IsFiniteSet({f[x] : x \in S})
<1> DEFINE T == {f[x] : x \in S}
           g == [x \in S |-> f[x]]
<1>1. g \in Surjection(S, T)
  BY DEF Surjection
<1> HIDE DEF g
<1> QED
  BY <1>1, FS_Surjection

\* The imports are finitely many, of finitely many lines with amounts.
BooksAreFinite ==
  /\ IsFiniteSet(imports)
  /\ \A m \in imports : IsFiniteSet(m.lines) /\ \A l \in m.lines : l.billed \in Int

\* The lines of the books, each with its invoice.
OnBooks == UNION {{<<m.key, l>> : l \in m.lines} : m \in imports}

LEMMA LinesAreFinite ==
  ASSUME NEW file \in InvoiceFile, NEW overlay \in Overlay
  PROVE  /\ IsFiniteSet(Invoices!Lines(file, Invoices!Resolved(overlay)))
         /\ \A l \in Invoices!Lines(file, Invoices!Resolved(overlay)) : l.billed \in Int
<1> DEFINE mapping == Invoices!Resolved(overlay)
           line == [i \in DOMAIN file |-> Invoices!Line(file[i], mapping)]
<1>1. PICK T : file \in Seq(T)
  BY InvoiceConstants DEF Invoices!ReconciliationAssumption
<1>2. Len(file) \in Nat /\ DOMAIN file = 1 .. Len(file)
  BY <1>1
<1>3. IsFiniteSet(DOMAIN file)
  BY <1>2, FS_Interval
<1>4. Invoices!Lines(file, mapping) = {line[i] : i \in DOMAIN file}
  BY DEF Invoices!Lines
<1>5. IsFiniteSet({line[i] : i \in DOMAIN file})
  <2>1. DOMAIN line = DOMAIN file
    OBVIOUS
  <2> HIDE DEF line
  <2> QED
    BY <1>3, <2>1, ImageFinite
<1>6. \A l \in Invoices!Lines(file, mapping) : l.billed \in Int
  BY InvoiceConstants DEF Invoices!ReconciliationAssumption
<1> QED
  BY <1>4, <1>5, <1>6

LEMMA BooksFinite ==
  ASSUME BooksAreFinite
  PROVE  IsFiniteSet(OnBooks) /\ \A x \in OnBooks : x[2].billed \in Int
<1> DEFINE lines == [m \in imports |-> {<<m.key, l>> : l \in m.lines}]
<1>1. IsFiniteSet({lines[m] : m \in imports})
  <2>1. DOMAIN lines = imports /\ IsFiniteSet(imports)
    BY DEF BooksAreFinite
  <2> HIDE DEF lines
  <2> QED
    BY <2>1, ImageFinite
<1>2. ASSUME NEW m \in imports
      PROVE  IsFiniteSet(lines[m])
  <2> DEFINE entry == [l \in m.lines |-> <<m.key, l>>]
  <2>1. lines[m] = {entry[l] : l \in m.lines}
    OBVIOUS
  <2>2. DOMAIN entry = m.lines /\ IsFiniteSet(m.lines)
    BY DEF BooksAreFinite
  <2> HIDE DEF entry, lines
  <2> QED
    BY <2>1, <2>2, ImageFinite
<1>3. \A T \in {lines[m] : m \in imports} : IsFiniteSet(T)
  BY <1>2
<1>4. OnBooks = UNION {lines[m] : m \in imports}
  BY DEF OnBooks
<1>5. IsFiniteSet(UNION {lines[m] : m \in imports})
  <2> HIDE DEF lines
  <2> QED
    BY <1>1, <1>3, FS_UNION
<1>6. \A x \in OnBooks : x[2].billed \in Int
  BY DEF OnBooks, BooksAreFinite
<1> QED
  BY <1>4, <1>5, <1>6

\* The two queries together see each line of the window once.
LEMMA WindowSplits ==
  ASSUME BooksAreFinite
  PROVE  Invoices!BilledOf({x \in Invoices!Usage \cup Invoices!Adjusted : x[2].day \in Days})
           = Invoices!BilledOf(Invoices!InWindow(Invoices!Usage))
               + Invoices!BilledOf(Invoices!Adjustments)
<1> DEFINE S == Invoices!InWindow(Invoices!Usage)
           T == Invoices!Adjustments
<1>1. S \subseteq OnBooks /\ \A x \in S : x[2].type = "usage"
  BY DEF Invoices!InWindow, Invoices!Usage, OnBooks
<1>2. T \subseteq OnBooks /\ \A x \in T : x[2].type # "usage"
  BY DEF Invoices!InWindow, Invoices!Adjustments, Invoices!Adjusted, OnBooks
<1>3. {x \in Invoices!Usage \cup Invoices!Adjusted : x[2].day \in Days} = S \cup T
  BY DEF Invoices!InWindow, Invoices!Adjustments
<1> HIDE DEF S, T
<1>4. IsFiniteSet(S) /\ IsFiniteSet(T) /\ \A x \in S \cup T : x[2].billed \in Int
  BY <1>1, <1>2, BooksFinite, FS_Subset
<1>5. S \cap T = {}
  BY <1>1, <1>2
<1>6. Invoices!BilledOf(S \cup T) = Invoices!BilledOf(S) + Invoices!BilledOf(T)
  BY <1>4, <1>5, BilledAdds
<1> QED
  BY <1>3, <1>6 DEF S, T

\* Confidence is high only without a doubt.
RowKeys(rows) == {Invoices!Key(x[2], x[2].provider) : x \in rows}
LineKeys(lines) == {Invoices!Key(x[2], x[1].provider) : x \in lines}
Sure(rows) == \A x \in rows : x[2].priced /\ x[2].exact /\ x[2].final

LEMMA WorstOfAll ==
  ASSUME NEW S \in SUBSET (0..3), S # {}
  PROVE  Invoices!Max(S) \in S /\ \A y \in S : y <= Invoices!Max(S)
<1>1. \E x \in S : \A y \in S : x >= y
  <2>1. CASE 3 \in S
    BY <2>1
  <2>2. CASE 3 \notin S /\ 2 \in S
    BY <2>2
  <2>3. CASE 3 \notin S /\ 2 \notin S /\ 1 \in S
    BY <2>3
  <2>4. CASE 3 \notin S /\ 2 \notin S /\ 1 \notin S
    <3>1. \A n \in 0..3 : n = 0 \/ n = 1 \/ n = 2 \/ n = 3
      OBVIOUS
    <3>2. ASSUME NEW y \in S
          PROVE  y = 0
      BY <2>4, <3>1, Zenon
    <3>3. PICK x : x \in S
      OBVIOUS
    <3>4. \A y \in S : x >= y
      <4>1. x = 0 /\ \A y \in S : y = 0
        BY <3>2, <3>3
      <4> QED
        BY <4>1
    <3> QED
      BY <3>3, <3>4
  <2> QED
    BY <2>1, <2>2, <2>3, <2>4
<1>2. Invoices!Max(S) \in S /\ \A y \in S : Invoices!Max(S) >= y
  BY <1>1 DEF Invoices!Max
<1> QED
  BY <1>2

LEMMA HighIsSure ==
  ASSUME NEW rows, \A x \in rows : x[2] \in Entry, NEW lines, NEW last,
         Invoices!Level(last, Invoices!Worst(rows, lines)) = "high"
  PROVE  Sure(rows) /\ RowKeys(rows) = LineKeys(lines)
<1> DEFINE apart == IF RowKeys(rows) = LineKeys(lines) THEN {} ELSE {3}
           S == {0} \cup {Invoices!Doubt(x[2]) : x \in rows} \cup apart
           worst == Invoices!Max(S)
<1>1. Invoices!Worst(rows, lines) = worst
  BY DEF Invoices!Worst, RowKeys, LineKeys
<1>2. \A x \in rows : {x[2].priced, x[2].exact, x[2].final} \subseteq BOOLEAN
  BY InvoiceConstants DEF Invoices!ReconciliationAssumption
<1>3. \A x \in rows :
        /\ Invoices!Doubt(x[2]) \in 0..3
        /\ Invoices!Doubt(x[2]) = 0 => x[2].priced /\ x[2].exact /\ x[2].final
  BY <1>2 DEF Invoices!Doubt
<1>4. S \in SUBSET (0..3) /\ S # {}
  BY <1>3
<1>5. worst \in S /\ \A y \in S : y <= worst
  <2> HIDE DEF S
  <2> QED
    BY <1>4, WorstOfAll
<1>6. worst \in 0..3
  BY <1>4, <1>5
<1>7. worst # 1 /\ worst # 2 /\ worst # 3
  <2> HIDE DEF worst
  <2> QED
    BY <1>1, <1>6 DEF Invoices!Level
<1>8. worst = 0
  BY <1>6, <1>7
<1>9. \A y \in S : y \in 0..3 /\ y <= 0
  <2> HIDE DEF S, worst
  <2> QED
    BY <1>4, <1>5, <1>8
<1>10. \A y \in S : y = 0
  <2> HIDE DEF S
  <2> QED
    BY <1>9
<1>11. apart = {}
  BY <1>10
<1>12. \A x \in rows : Invoices!Doubt(x[2]) = 0
  BY <1>10
<1> QED
  BY <1>3, <1>11, <1>12 DEF Sure

\* What a report holds at each of its steps; of the books it holds what they
\* say unless an import has come between.
BilledInAll == Invoices!BilledOf({x \in Invoices!Usage \cup Invoices!Adjusted : x[2].day \in Days})
Backed(rows) == Sure(rows) /\ RowKeys(rows) = LineKeys(Invoices!InWindow(Invoices!Usage))

AtLedger(raced, rows) == report = [at |-> "ledger", raced |-> raced, rows |-> rows]
AtLines(raced, rows, lines) ==
  /\ report = [at |-> "lines", raced |-> raced, rows |-> rows, lines |-> lines]
  /\ raced \/ lines = Invoices!InWindow(Invoices!Usage)
AtAdjusted(raced, rows, lines, totals) ==
  /\ report = [at |-> "adjusted", raced |-> raced, rows |-> rows, lines |-> lines, totals |-> totals]
  /\ raced \/ (lines = Invoices!InWindow(Invoices!Usage) /\ totals.billed = BilledInAll)
AtDone(raced, rows, totals, level) ==
  /\ report = [at |-> "done", raced |-> raced, rows |-> rows, totals |-> totals, level |-> level]
  /\ raced \/ (totals.billed = BilledInAll /\ (level = "high" => Backed(rows)))

OfEntries(rows) == \A x \in rows : x[2] \in Entry
ReportFollows ==
  \/ report = Invoices!NoReport
  \/ \E raced, rows :
       /\ raced \in BOOLEAN /\ OfEntries(rows)
       /\ \/ AtLedger(raced, rows)
          \/ \E lines : AtLines(raced, rows, lines)
          \/ \E lines, totals : AtAdjusted(raced, rows, lines, totals)
          \/ \E totals, level : AtDone(raced, rows, totals, level)

ReportInv == ledger \in Seq(Entry) /\ BooksAreFinite /\ ReportFollows

\* What goes on beside the report leaves it, or tells of a race.
LEMMA BooksStand ==
  ASSUME ReportInv, UNCHANGED <<imports, report>>, ledger' \in Seq(Entry)
  PROVE  ReportInv'
<1>1. BooksAreFinite'
  BY DEF ReportInv, BooksAreFinite
<1>2. /\ Invoices!InWindow(Invoices!Usage)' = Invoices!InWindow(Invoices!Usage)
      /\ BilledInAll' = BilledInAll
  BY DEF Invoices!InWindow, Invoices!Usage, Invoices!Adjusted, BilledInAll
<1>3. ReportFollows'
  BY <1>2 DEF ReportInv, ReportFollows, AtLedger, AtLines, AtAdjusted, AtDone, Backed
<1> QED
  BY <1>1, <1>3 DEF ReportInv

LEMMA RacedFollows ==
  ASSUME ReportFollows, report.at # "idle", report' = [report EXCEPT !.raced = TRUE]
  PROVE  ReportFollows'
<1>1. PICK raced, rows :
        /\ raced \in BOOLEAN /\ OfEntries(rows)
        /\ \/ AtLedger(raced, rows)
           \/ \E lines : AtLines(raced, rows, lines)
           \/ \E lines, totals : AtAdjusted(raced, rows, lines, totals)
           \/ \E totals, level : AtDone(raced, rows, totals, level)
  BY DEF ReportFollows, Invoices!NoReport
<1>2. CASE AtLedger(raced, rows)
  <2>1. AtLedger(TRUE, rows)'
    BY <1>2 DEF AtLedger
  <2> QED
    BY <1>1, <2>1 DEF ReportFollows
<1>3. ASSUME NEW lines, AtLines(raced, rows, lines)
      PROVE  ReportFollows'
  <2>1. AtLines(TRUE, rows, lines)'
    BY <1>3 DEF AtLines
  <2> QED
    BY <1>1, <2>1 DEF ReportFollows
<1>4. ASSUME NEW lines, NEW totals, AtAdjusted(raced, rows, lines, totals)
      PROVE  ReportFollows'
  <2>1. AtAdjusted(TRUE, rows, lines, totals)'
    BY <1>4 DEF AtAdjusted
  <2> QED
    BY <1>1, <2>1 DEF ReportFollows
<1>5. ASSUME NEW totals, NEW level, AtDone(raced, rows, totals, level)
      PROVE  ReportFollows'
  <2>1. AtDone(TRUE, rows, totals, level)'
    BY <1>5 DEF AtDone
  <2> QED
    BY <1>1, <2>1 DEF ReportFollows
<1> QED
  BY <1>1, <1>2, <1>3, <1>4, <1>5

LEMMA ImportTells ==
  ASSUME ReportInv, NEW key \in InvoiceId, NEW file \in InvoiceFile, NEW overlay \in Overlay,
         Invoices!Import(key, file, overlay)
  PROVE  ReportInv'
<1> DEFINE mapping == Invoices!Resolved(overlay)
           new == [key |-> key, bytes |-> file, identity |-> Invoices!Identity(file, mapping),
                   lines |-> Invoices!Lines(file, mapping)]
<1>1. UNCHANGED ledger /\ ledger \in Seq(Entry)
  BY DEF Invoices!Import, ReportInv
<1>2. CASE {m \in imports : m.key = key} # {}
  <2>1. UNCHANGED <<imports, report>>
    BY <1>2 DEF Invoices!Import
  <2> QED
    BY <1>1, <2>1, BooksStand
<1>3. CASE {m \in imports : m.key = key} = {}
  <2>1. /\ imports' = imports \cup {new}
        /\ report' = IF report.at # "idle" THEN [report EXCEPT !.raced = TRUE] ELSE report
    BY <1>3 DEF Invoices!Import
  <2>2. IsFiniteSet(new.lines) /\ \A l \in new.lines : l.billed \in Int
    BY LinesAreFinite
  <2>3. BooksAreFinite'
    <3> HIDE DEF new
    <3> QED
      BY <2>1, <2>2, FS_AddElement DEF ReportInv, BooksAreFinite
  <2>4. ReportFollows'
    <3>1. CASE report.at # "idle"
      BY <2>1, <3>1, RacedFollows DEF ReportInv
    <3>2. CASE report.at = "idle"
      <4>1. report = Invoices!NoReport
        BY <3>2 DEF ReportInv, ReportFollows, AtLedger, AtLines, AtAdjusted, AtDone
      <4> QED
        BY <2>1, <3>2, <4>1 DEF ReportFollows, Invoices!NoReport
    <3> QED
      BY <3>1, <3>2
  <2> QED
    BY <1>1, <2>3, <2>4 DEF ReportInv
<1> QED
  BY <1>2, <1>3

\* Each query of the report.
LEMMA LedgerIsRead ==
  ASSUME ReportInv, Invoices!ReadLedger
  PROVE  ReportInv'
<1> DEFINE rows == {<<i, ledger[i]>> : i \in {i \in DOMAIN ledger : ledger[i].day \in Days}}
<1>1. UNCHANGED <<ledger, imports>> /\ report' = [at |-> "ledger", raced |-> FALSE, rows |-> rows]
  BY DEF Invoices!ReadLedger
<1>2. OfEntries(rows)
  BY DEF ReportInv, OfEntries
<1>3. BooksAreFinite'
  BY <1>1 DEF ReportInv, BooksAreFinite
<1>4. ReportFollows'
  <2> HIDE DEF rows
  <2>1. PICK read : read = rows
    OBVIOUS
  <2>2. AtLedger(FALSE, read)' /\ OfEntries(read)
    BY <1>1, <1>2, <2>1 DEF AtLedger
  <2> QED
    BY <2>2 DEF ReportFollows
<1> QED
  BY <1>1, <1>3, <1>4 DEF ReportInv

LEMMA LinesAreRead ==
  ASSUME ReportInv, Invoices!ReadLines
  PROVE  ReportInv'
<1>1. /\ UNCHANGED <<ledger, imports>> /\ report.at = "ledger"
      /\ report' = [at |-> "lines", raced |-> report.raced, rows |-> report.rows,
                    lines |-> Invoices!InWindow(Invoices!Usage)]
  BY DEF Invoices!ReadLines
<1>2. PICK raced, rows : raced \in BOOLEAN /\ OfEntries(rows) /\ AtLedger(raced, rows)
  BY <1>1 DEF ReportInv, ReportFollows, Invoices!NoReport, AtLines, AtAdjusted, AtDone
<1>3. BooksAreFinite'
  BY <1>1 DEF ReportInv, BooksAreFinite
<1>4. Invoices!InWindow(Invoices!Usage)' = Invoices!InWindow(Invoices!Usage)
  BY <1>1 DEF Invoices!InWindow, Invoices!Usage
<1>5. PICK lines : lines = Invoices!InWindow(Invoices!Usage)
  OBVIOUS
<1>6. AtLines(raced, rows, lines)'
  BY <1>1, <1>2, <1>4, <1>5 DEF AtLines, AtLedger
<1>7. ReportFollows'
  BY <1>2, <1>6 DEF ReportFollows
<1> QED
  BY <1>1, <1>3, <1>7 DEF ReportInv

LEMMA AdjustmentsAreRead ==
  ASSUME ReportInv, Invoices!ReadAdjustments
  PROVE  ReportInv'
<1> DEFINE totals == Invoices!Totals(report.rows, report.lines, Invoices!Adjustments)
<1>1. UNCHANGED <<ledger, imports>> /\ report.at = "lines"
  BY DEF Invoices!ReadAdjustments
<1>2. \/ report' = Invoices!NoReport
      \/ report' = [at |-> "adjusted", raced |-> report.raced, rows |-> report.rows,
                    lines |-> report.lines, totals |-> totals]
  BY DEF Invoices!ReadAdjustments
<1>3. PICK raced, rows, lines :
        raced \in BOOLEAN /\ OfEntries(rows) /\ AtLines(raced, rows, lines)
  BY <1>1 DEF ReportInv, ReportFollows, Invoices!NoReport, AtLedger, AtAdjusted, AtDone
<1>4. BooksAreFinite' /\ BooksAreFinite
  BY <1>1 DEF ReportInv, BooksAreFinite
<1>5. report.raced = raced /\ report.rows = rows /\ report.lines = lines
  BY <1>3 DEF AtLines
<1>6. totals.billed = Invoices!BilledOf(lines) + Invoices!BilledOf(Invoices!Adjustments)
  BY <1>5 DEF Invoices!Totals
<1>7. raced \/ (lines = Invoices!InWindow(Invoices!Usage) /\ totals.billed = BilledInAll)
  BY <1>3, <1>4, <1>6, WindowSplits DEF AtLines, BilledInAll
<1>8. /\ Invoices!InWindow(Invoices!Usage)' = Invoices!InWindow(Invoices!Usage)
      /\ BilledInAll' = BilledInAll
  BY <1>1 DEF Invoices!InWindow, Invoices!Usage, Invoices!Adjusted, BilledInAll
<1>9. ReportFollows'
  <2> HIDE DEF totals
  <2>1. CASE report' = Invoices!NoReport
    BY <2>1 DEF ReportFollows, Invoices!NoReport
  <2>2. CASE report' = [at |-> "adjusted", raced |-> report.raced, rows |-> report.rows,
                        lines |-> report.lines, totals |-> totals]
    <3>1. PICK sums : sums = totals
      OBVIOUS
    <3>2. AtAdjusted(raced, rows, lines, sums)'
      BY <1>5, <1>7, <1>8, <2>2, <3>1 DEF AtAdjusted
    <3> QED
      BY <1>3, <3>2 DEF ReportFollows
  <2> QED
    BY <1>2, <2>1, <2>2
<1> QED
  BY <1>1, <1>4, <1>9 DEF ReportInv

LEMMA LastIsRead ==
  ASSUME ReportInv, Invoices!ReadLast
  PROVE  ReportInv'
<1> DEFINE level == Invoices!Level(imports # {}, Invoices!Worst(report.rows, report.lines))
<1>1. /\ UNCHANGED <<ledger, imports>> /\ report.at = "adjusted"
      /\ report' = [at |-> "done", raced |-> report.raced, rows |-> report.rows,
                    totals |-> report.totals, level |-> level]
  BY DEF Invoices!ReadLast
<1>2. PICK raced, rows, lines, totals :
        raced \in BOOLEAN /\ OfEntries(rows) /\ AtAdjusted(raced, rows, lines, totals)
  BY <1>1 DEF ReportInv, ReportFollows, Invoices!NoReport, AtLedger, AtLines, AtDone
<1>3. BooksAreFinite'
  BY <1>1 DEF ReportInv, BooksAreFinite
<1>4. report.raced = raced /\ report.rows = rows /\ report.lines = lines /\ report.totals = totals
  BY <1>2 DEF AtAdjusted
<1>5. level = "high" => Sure(rows) /\ RowKeys(rows) = LineKeys(lines)
  BY <1>2, <1>4, HighIsSure DEF OfEntries
<1>6. /\ Invoices!InWindow(Invoices!Usage)' = Invoices!InWindow(Invoices!Usage)
      /\ BilledInAll' = BilledInAll
  BY <1>1 DEF Invoices!InWindow, Invoices!Usage, Invoices!Adjusted, BilledInAll
<1>7. raced \/ (totals.billed = BilledInAll /\ (level = "high" => Backed(rows)))
  BY <1>2, <1>5 DEF AtAdjusted, Backed
<1>8. ReportFollows'
  <2> HIDE DEF level
  <2>1. Backed(rows)' = Backed(rows)
    BY <1>6 DEF Backed
  <2>2. PICK trust : trust = level
    OBVIOUS
  <2>3. AtDone(raced, rows, totals, trust)'
    BY <1>1, <1>4, <1>6, <1>7, <2>1, <2>2 DEF AtDone
  <2> QED
    BY <1>2, <2>3 DEF ReportFollows
<1> QED
  BY <1>1, <1>3, <1>8 DEF ReportInv

LEMMA ReportStep ==
  ASSUME ReportInv, [Invoices!Next]_Invoices!vars
  PROVE  ReportInv'
<1>1. ASSUME NEW key, Invoices!ImportFails(key)
      PROVE  ReportInv'
  BY <1>1, BooksStand DEF Invoices!ImportFails, ReportInv
<1>2. ASSUME NEW e \in Entry, Invoices!Insert(e)
      PROVE  ReportInv'
  <2>1. ledger' \in Seq(Entry)
    BY <1>2 DEF Invoices!Insert, ReportInv
  <2> QED
    BY <1>2, <2>1, BooksStand DEF Invoices!Insert
<1>3. CASE UNCHANGED Invoices!vars
  BY <1>3, BooksStand DEF Invoices!vars, ReportInv
<1> QED
  BY <1>1, <1>2, <1>3, ImportTells, LedgerIsRead, LinesAreRead, AdjustmentsAreRead, LastIsRead
     DEF Invoices!Next

LEMMA ReportBegins ==
  ASSUME Invoices!Init
  PROVE  ReportInv
<1>1. ledger \in Seq(Entry) /\ ReportFollows
  BY DEF Invoices!Init, ReportFollows
<1>2. BooksAreFinite
  <2>1. CASE imports = {}
    BY <2>1, FS_EmptySet DEF BooksAreFinite
  <2>2. ASSUME NEW key \in InvoiceId, NEW file \in InvoiceFile, NEW overlay \in Overlay,
               imports = {Invoices!Legacy(key, file, Invoices!Resolved(overlay))}
        PROVE  BooksAreFinite
    <3>1. Invoices!Legacy(key, file, Invoices!Resolved(overlay)).lines
            = Invoices!Lines(file, Invoices!Resolved(overlay))
      BY DEF Invoices!Legacy
    <3>2. IsFiniteSet(imports)
      BY <2>2, FS_Singleton
    <3>3. /\ IsFiniteSet(Invoices!Lines(file, Invoices!Resolved(overlay)))
          /\ \A l \in Invoices!Lines(file, Invoices!Resolved(overlay)) : l.billed \in Int
      BY LinesAreFinite
    <3> QED
      BY <2>2, <3>1, <3>2, <3>3 DEF BooksAreFinite
  <2> QED
    BY <2>1, <2>2 DEF Invoices!Init
<1> QED
  BY <1>1, <1>2 DEF ReportInv

\* A report no import raced with says of the books what they hold, whatever the
\* files, the ledger and the order of the queries among what is recorded.
THEOREM ReportsAreTrue == Invoices!Spec => []ReportIsTrue
<1>1. Invoices!Init => ReportInv
  BY ReportBegins
<1>2. ReportInv /\ [Invoices!Next]_Invoices!vars => ReportInv'
  BY ReportStep
<1>3. ReportInv => ReportIsTrue
  <2> SUFFICES ASSUME ReportInv, report.at = "done", ~report.raced
               PROVE  Invoices!ReportIsTrue
    BY DEF ReportIsTrue, Invoices!ReportIsTrue
  <2>1. PICK raced, rows, totals, level : AtDone(raced, rows, totals, level)
    BY DEF ReportInv, ReportFollows, Invoices!NoReport, AtLedger, AtLines, AtAdjusted
  <2>2. /\ report.totals.billed = BilledInAll
        /\ report.level = "high" => Backed(report.rows)
    BY <2>1 DEF AtDone
  <2>3. ASSUME Backed(report.rows)
        PROVE  /\ \A x \in report.rows :
                    /\ x[2].priced /\ x[2].exact /\ x[2].final
                    /\ \E y \in Invoices!Usage :
                         Invoices!Key(y[2], y[1].provider) = Invoices!Key(x[2], x[2].provider)
               /\ \A y \in Invoices!InWindow(Invoices!Usage) : \E x \in report.rows :
                    Invoices!Key(y[2], y[1].provider) = Invoices!Key(x[2], x[2].provider)
    BY <2>3 DEF Backed, Sure, RowKeys, LineKeys, Invoices!InWindow
  <2> QED
    BY <2>2, <2>3 DEF Invoices!ReportIsTrue, BilledInAll
<1> QED
  BY <1>1, <1>2, <1>3, PTL DEF Invoices!Spec


-----------------------------------------------------------------------------
(* Routing: the ledger, the simulations and the audit only grow, so what   *)
(* was shown of a configuration stays shown.                               *)

Requests == {m.request : m \in Client}
Senders == {m.sender : m \in Client}
Configs == Config \cup {Routing!None}
Action == {"none", "warn", "downshift"}
Booked ==
  {Routing!RowOf(x[1], x[2], x[3], x[4], x[5]) :
     x \in Configs \X Requests \X Senders \X Action \X BOOLEAN}
Simulated ==
  {[config |-> x[1], report |-> Routing!Report(x[1], x[2], Price)] : x \in Config \X Seq(Booked)}
Audited == [action : {"apply", "disable"}, config : Config, sim : Nat, forced : BOOLEAN]
Planning ==
  [at : {"admit"}, request : Requests, sender : Senders, config : Configs, pct : Pct,
   action : Action]
Reviewing == [at : {"apply"}, config : Config, sim : Nat]

RoutingTypeInv ==
  /\ shiftRows \in Seq(Booked) /\ sims \in Seq(Simulated) /\ audit \in Seq(Audited)
  /\ active \in Configs
  /\ command \in [Operator -> Reviewing \cup {Routing!Nothing}]
  /\ routed \in [Router -> Planning \cup {Routing!Nothing}]

Applied(c) == \E k \in DOMAIN audit : audit[k].action = "apply" /\ audit[k].config = c
Shown(c) == \E j \in DOMAIN shiftRows : Routing!Shows(c, shiftRows[j])

\* An eligible request of a simulation is a row of the ledger that shows it.
SimsShow == \A i \in DOMAIN sims : sims[i].report.eligible > 0 => Shown(sims[i].config)

\* What was applied was forced, replaces nothing, or had been shown.
AppliedWhenShown ==
  \A k \in DOMAIN audit : audit[k].action = "apply" =>
    audit[k].forced \/ audit[k].config.mode = "observe" \/ Shown(audit[k].config)

ReviewsAreStored ==
  \A x \in Operator : command[x].at = "apply" => command[x].sim \in DOMAIN sims

\* What is active or followed by a handler was applied.
FollowedWasApplied ==
  /\ active # Routing!None => Applied(active)
  /\ \A h \in Router : routed[h].at = "admit" =>
       /\ routed[h].config # Routing!None => Applied(routed[h].config)
       /\ routed[h].action = "downshift" =>
            routed[h].config # Routing!None /\ routed[h].config.mode # "observe"

RoutingInv ==
  /\ RoutingTypeInv /\ SimsShow /\ AppliedWhenShown /\ ReviewsAreStored /\ FollowedWasApplied
  /\ Routing!ReplacedOnEvidence

-----------------------------------------------------------------------------
(* What the operators of the decision say.                                 *)

LEMMA SameCount == \A S : Routing!Cardinality(S) = Cardinality(S)
BY DEF Cardinality, Routing!Cardinality

\* Only a plan that may replace a model, under a configuration, replaces it.
LEMMA ShiftIsMeant ==
  ASSUME NEW r, NEW who, NEW c, NEW pct, NEW denial
  PROVE  /\ Routing!Planned(r, who, c, pct, denial) \in Action
         /\ Routing!Planned(r, who, c, pct, denial) = "downshift" =>
              c # Routing!None /\ c.mode # "observe"
BY DEF Routing!Planned, Routing!Plan, Routing!Decide, Action

\* A row says of its sender's confidence what it was, or nothing.
LEMMA RowsAreTrue ==
  ASSUME NEW e \in Booked
  PROVE  /\ e.receipt = Routing!Features(e.request)
         /\ e.confidence = "authenticated" => e.truly = "authenticated"
<1>1. PICK x \in Configs \X Requests \X Senders \X Action \X BOOLEAN :
        e = Routing!RowOf(x[1], x[2], x[3], x[4], x[5])
  BY DEF Booked
<1>2. /\ e.receipt = Routing!Features(x[2]) /\ e.request = x[2]
      /\ e.confidence = IF x[3].ruled THEN x[3].confidence ELSE ""
      /\ e.truly = x[3].confidence
  BY <1>1 DEF Routing!RowOf
<1> QED
  BY <1>2

\* What a replay counts as eligible shows the configuration.
LEMMA EligibleShows ==
  ASSUME NEW c, shiftRows \in Seq(Booked), Routing!Report(c, shiftRows, Price).eligible > 0
  PROVE  Shown(c)
<1> DEFINE matched == {i \in DOMAIN shiftRows :
                         Routing!RulesFor(c, shiftRows[i].key[1], shiftRows[i].key[2]) # {}}
           counted == {i \in matched : \E rule \in c.rules :
                          /\ Routing!SourceKey(rule) = shiftRows[i].key
                          /\ Routing!Replayed(rule, shiftRows[i], Price) = "eligible"}
<1>1. Cardinality(counted) > 0
  <2>1. Routing!Report(c, shiftRows, Price).eligible = Routing!Cardinality(counted)
    BY DEF Routing!Report
  <2> QED
    BY <2>1, SameCount
<1>2. counted # {}
  <2> HIDE DEF counted
  <2>1. Cardinality({}) = 0
    BY FS_EmptySet
  <2>2. counted = {} => Cardinality(counted) = Cardinality({})
    OBVIOUS
  <2> QED
    BY <1>1, <2>1, <2>2
<1>3. PICK i \in DOMAIN shiftRows, rule \in c.rules :
        /\ Routing!SourceKey(rule) = shiftRows[i].key
        /\ Routing!Replayed(rule, shiftRows[i], Price) = "eligible"
  BY <1>2
<1>4. shiftRows[i] \in Booked
  OBVIOUS
<1>5. /\ Routing!Evidence(shiftRows[i])
      /\ Routing!ScopeMatches(rule.scope, shiftRows[i])
      /\ Routing!Eligible(rule, shiftRows[i].receipt)
      /\ Routing!Costed(rule, shiftRows[i], Price)
  BY <1>3 DEF Routing!Replayed
<1> QED
  BY <1>3, <1>4, <1>5, RowsAreTrue
  DEF Shown, Routing!Shows, Routing!Evidence, Routing!ScopeMatches, Routing!Costed

-----------------------------------------------------------------------------
(* Steps.                                                                  *)

\* A row, a simulation or a change of the configuration takes nothing away
\* from what was shown or applied.
LEMMA LedgerGrows ==
  ASSUME RoutingInv, NEW h \in Router, Routing!Book(h)
  PROVE  RoutingInv'
<1> DEFINE f == routed[h]
<1>0. f \in Planning
  BY DEF RoutingInv, RoutingTypeInv, Routing!Book, Routing!Nothing
<1>1. PICK priced \in BOOLEAN :
        shiftRows' = Append(shiftRows, Routing!RowOf(f.config, f.request, f.sender, f.action, priced))
  BY DEF Routing!Book
<1> DEFINE e == Routing!RowOf(f.config, f.request, f.sender, f.action, priced)
<1>2. e \in Booked
  <2>1. <<f.config, f.request, f.sender, f.action, priced>>
          \in Configs \X Requests \X Senders \X Action \X BOOLEAN
    BY <1>0 DEF Planning
  <2> QED
    BY <2>1 DEF Booked
<1>3. e.digest = f.config /\ e.action = f.action
  BY DEF Routing!RowOf
<1> HIDE DEF e
<1>4. /\ routed' = [routed EXCEPT ![h] = Routing!Nothing]
      /\ UNCHANGED <<sims, stored, active, audit, command>>
  BY DEF Routing!Book, Routing!tables
<1>5. shiftRows \in Seq(Booked)
  BY DEF RoutingInv, RoutingTypeInv
<1>6. /\ shiftRows' \in Seq(Booked) /\ DOMAIN shiftRows' = 1..Len(shiftRows) + 1
      /\ DOMAIN shiftRows = 1..Len(shiftRows) /\ Len(shiftRows) \in Nat
      /\ \A i \in DOMAIN shiftRows : shiftRows'[i] = shiftRows[i]
      /\ shiftRows'[Len(shiftRows) + 1] = e
  BY <1>1, <1>2, <1>5 DEF e
<1>7. \A c : Shown(c) => Shown(c)'
  BY <1>6 DEF Shown, Routing!Shows
<1>8. RoutingTypeInv'
  BY <1>4, <1>6 DEF RoutingInv, RoutingTypeInv
<1>9. SimsShow' /\ AppliedWhenShown' /\ ReviewsAreStored'
  BY <1>4, <1>7 DEF RoutingInv, SimsShow, AppliedWhenShown, ReviewsAreStored
<1>10. FollowedWasApplied'
  BY <1>4 DEF RoutingInv, RoutingTypeInv, FollowedWasApplied, Applied, Routing!Nothing
<1>11. Routing!ReplacedOnEvidence'
  <2> SUFFICES ASSUME NEW i \in DOMAIN shiftRows', shiftRows'[i].action = "downshift"
               PROVE  \E k \in DOMAIN audit :
                        /\ audit[k].action = "apply" /\ audit[k].config = shiftRows'[i].digest
                        /\ \/ audit[k].forced
                           \/ \E j \in 1..i-1 : Routing!Shows(shiftRows'[i].digest, shiftRows'[j])
    BY <1>4 DEF Routing!ReplacedOnEvidence, Routing!Shows
  <2>1. CASE i \in DOMAIN shiftRows
    <3>1. PICK k \in DOMAIN audit :
            /\ audit[k].action = "apply" /\ audit[k].config = shiftRows[i].digest
            /\ audit[k].forced \/ \E j \in 1..i-1 : Routing!Shows(shiftRows[i].digest, shiftRows[j])
      BY <1>6, <2>1 DEF RoutingInv, Routing!ReplacedOnEvidence
    <3>2. \A j \in 1..i-1 : j \in DOMAIN shiftRows
      BY <1>6, <2>1
    <3> QED
      BY <1>6, <2>1, <3>1, <3>2
  <2>2. CASE i = Len(shiftRows) + 1
    <3>1. f.at = "admit" /\ f.action = "downshift" /\ shiftRows'[i].digest = f.config
      BY <1>0, <1>3, <1>6, <2>2 DEF Planning
    <3>2. f.config # Routing!None /\ f.config.mode # "observe" /\ Applied(f.config)
      BY <3>1 DEF RoutingInv, FollowedWasApplied
    <3>3. PICK k \in DOMAIN audit : audit[k].action = "apply" /\ audit[k].config = f.config
      BY <3>2 DEF Applied
    <3>4. audit[k].forced \/ Shown(f.config)
      BY <3>2, <3>3 DEF RoutingInv, AppliedWhenShown
    <3>5. i - 1 = Len(shiftRows)
      BY <1>6, <2>2
    <3> QED
      BY <1>6, <3>1, <3>3, <3>4, <3>5 DEF Shown
  <2> QED
    BY <1>6, <2>1, <2>2
<1> QED
  BY <1>8, <1>9, <1>10, <1>11 DEF RoutingInv

LEMMA SimulationGrows ==
  ASSUME RoutingInv, NEW c \in Config, sims' = Append(sims, Routing!Replay(c)),
         \/ UNCHANGED command
         \/ \E x \in Operator :
              command' = [command EXCEPT ![x] =
                [at |-> "apply", config |-> c, sim |-> Len(sims) + 1]],
         UNCHANGED <<shiftRows, stored, active, audit, routed>>
  PROVE  RoutingInv'
<1> DEFINE e == Routing!Replay(c)
<1>1. shiftRows \in Seq(Booked) /\ sims \in Seq(Simulated)
  BY DEF RoutingInv, RoutingTypeInv
<1>2. e.config = c /\ e.report = Routing!Report(c, shiftRows, Price)
  BY DEF Routing!Replay
<1>3. e \in Simulated
  <2> DEFINE x == <<c, shiftRows>>
  <2>1. x \in Config \X Seq(Booked) /\ x[1] = c /\ x[2] = shiftRows
    BY <1>1
  <2> QED
    BY <2>1 DEF Routing!Replay, Simulated
<1>a. sims' = Append(sims, e)
  OBVIOUS
<1> HIDE DEF e
<1>4. /\ sims' \in Seq(Simulated) /\ DOMAIN sims' = 1..Len(sims) + 1
      /\ DOMAIN sims = 1..Len(sims) /\ Len(sims) \in Nat
      /\ \A i \in DOMAIN sims : sims'[i] = sims[i]
      /\ sims'[Len(sims) + 1] = e
  BY <1>1, <1>3, <1>a
<1>5. RoutingTypeInv'
  <2>1. [at |-> "apply", config |-> c, sim |-> Len(sims) + 1] \in Reviewing
    BY <1>4 DEF Reviewing
  <2>2. command' \in [Operator -> Reviewing \cup {Routing!Nothing}]
    BY <2>1 DEF RoutingInv, RoutingTypeInv
  <2> QED
    BY <1>4, <2>2 DEF RoutingInv, RoutingTypeInv
<1>6. \A d : Shown(d)' <=> Shown(d)
  BY DEF Shown, Routing!Shows
<1>7. SimsShow'
  <2> SUFFICES ASSUME NEW i \in DOMAIN sims', sims'[i].report.eligible > 0
               PROVE  Shown(sims'[i].config)
    BY <1>6 DEF SimsShow
  <2>1. CASE i \in DOMAIN sims
    BY <1>4, <2>1 DEF RoutingInv, SimsShow
  <2>2. CASE i = Len(sims) + 1
    BY <1>1, <1>2, <1>4, <2>2, EligibleShows
  <2> QED
    BY <1>4, <2>1, <2>2
<1>8. ReviewsAreStored'
  BY <1>4 DEF RoutingInv, RoutingTypeInv, ReviewsAreStored
<1>9. AppliedWhenShown' /\ FollowedWasApplied' /\ Routing!ReplacedOnEvidence'
  BY <1>6 DEF RoutingInv, AppliedWhenShown, FollowedWasApplied, Applied,
              Routing!ReplacedOnEvidence, Routing!Shows
<1> QED
  BY <1>5, <1>7, <1>8, <1>9 DEF RoutingInv

\* A change of the active configuration leaves its entry in the audit.
LEMMA AuditGrows ==
  ASSUME RoutingInv, NEW e \in Audited, audit' = Append(audit, e),
         e.action = "apply" => e.forced \/ e.config.mode = "observe" \/ Shown(e.config),
         \/ e.action = "apply" /\ active' = e.config
         \/ active' = Routing!None,
         \/ UNCHANGED command
         \/ \E x \in Operator : command' = [command EXCEPT ![x] = Routing!Nothing],
         UNCHANGED <<shiftRows, sims, routed>>
  PROVE  RoutingInv'
<1>1. audit \in Seq(Audited) /\ e.config \in Config
  BY DEF RoutingInv, RoutingTypeInv, Audited
<1>2. /\ audit' \in Seq(Audited) /\ DOMAIN audit' = 1..Len(audit) + 1
      /\ DOMAIN audit = 1..Len(audit) /\ Len(audit) \in Nat
      /\ \A i \in DOMAIN audit : audit'[i] = audit[i]
      /\ audit'[Len(audit) + 1] = e
  BY <1>1
<1>3. RoutingTypeInv'
  BY <1>1, <1>2 DEF RoutingInv, RoutingTypeInv, Configs
<1>4. \A c : Applied(c) => Applied(c)'
  BY <1>2 DEF Applied
<1>5. e.action = "apply" => Applied(e.config)'
  <2>1. Len(audit) + 1 \in DOMAIN audit'
    BY <1>2
  <2> QED
    BY <1>2, <2>1 DEF Applied
<1>6. \A c : Shown(c)' <=> Shown(c)
  BY DEF Shown, Routing!Shows
<1>7. SimsShow'
  BY <1>6 DEF RoutingInv, SimsShow
<1>8. ReviewsAreStored'
  BY DEF RoutingInv, RoutingTypeInv, ReviewsAreStored, Routing!Nothing
<1>9. AppliedWhenShown'
  BY <1>2, <1>6 DEF RoutingInv, AppliedWhenShown
<1>10. FollowedWasApplied'
  BY <1>4, <1>5 DEF RoutingInv, FollowedWasApplied
<1>11. Routing!ReplacedOnEvidence'
  BY <1>2 DEF RoutingInv, Routing!ReplacedOnEvidence, Routing!Shows
<1> QED
  BY <1>3, <1>7, <1>8, <1>9, <1>10, <1>11 DEF RoutingInv

LEMMA HandlersMove ==
  ASSUME RoutingInv, NEW h \in Router, NEW x,
         routed' = [routed EXCEPT ![h] = x],
         \/ x = Routing!Nothing
         \/ /\ x \in Planning
            /\ x.config # Routing!None => Applied(x.config)
            /\ x.action = "downshift" => x.config # Routing!None /\ x.config.mode # "observe",
         UNCHANGED <<shiftRows, sims, stored, active, audit, command>>
  PROVE  RoutingInv'
<1>1. RoutingTypeInv'
  BY DEF RoutingInv, RoutingTypeInv
<1>2. SimsShow' /\ AppliedWhenShown' /\ ReviewsAreStored' /\ Routing!ReplacedOnEvidence'
  BY DEF RoutingInv, SimsShow, AppliedWhenShown, ReviewsAreStored, Routing!ReplacedOnEvidence,
         Shown, Routing!Shows
<1>3. FollowedWasApplied'
  BY DEF RoutingInv, RoutingTypeInv, FollowedWasApplied, Applied, Routing!Nothing, Planning
<1> QED
  BY <1>1, <1>2, <1>3 DEF RoutingInv

LEMMA CommandsEnd ==
  ASSUME RoutingInv,
         \/ UNCHANGED command
         \/ \E x \in Operator : command' = [command EXCEPT ![x] = Routing!Nothing],
         UNCHANGED <<shiftRows, sims, active, audit, routed>>
  PROVE  RoutingInv'
<1>1. RoutingTypeInv'
  BY DEF RoutingInv, RoutingTypeInv
<1>2. ReviewsAreStored'
  <2>1. command \in [Operator -> Reviewing \cup {Routing!Nothing}] /\ ReviewsAreStored
    BY DEF RoutingInv, RoutingTypeInv
  <2>2. Routing!Nothing.at # "apply"
    BY DEF Routing!Nothing
  <2>3. ASSUME NEW y \in Operator, command'[y].at = "apply"
        PROVE  command'[y] = command[y]
    BY <2>1, <2>2, <2>3
  <2> QED
    BY <2>1, <2>3 DEF ReviewsAreStored
<1>3. SimsShow' /\ AppliedWhenShown' /\ FollowedWasApplied' /\ Routing!ReplacedOnEvidence'
  BY DEF RoutingInv, SimsShow, AppliedWhenShown, FollowedWasApplied, Routing!ReplacedOnEvidence,
         Applied, Shown, Routing!Shows
<1> QED
  BY <1>1, <1>2, <1>3 DEF RoutingInv

\* Neither way to activate a configuration passes by the evidence unaudited.
LEMMA ActivationIsAudited ==
  ASSUME RoutingInv, NEW c \in Config, NEW sim \in Nat, NEW forced \in BOOLEAN,
         Routing!Activates(c, sim, forced),
         c = active \/ forced \/ c.mode = "observe" \/ Shown(c),
         \/ UNCHANGED command
         \/ \E x \in Operator : command' = [command EXCEPT ![x] = Routing!Nothing],
         UNCHANGED <<shiftRows, sims, routed>>
  PROVE  RoutingInv'
<1>1. CASE c = active
  <2>1. UNCHANGED <<active, audit>>
    BY <1>1 DEF Routing!Activates
  <2> QED
    BY <2>1, CommandsEnd
<1>2. CASE c # active
  <2> DEFINE e == [action |-> "apply", config |-> c, sim |-> sim, forced |-> forced]
  <2>1. active' = c /\ audit' = Append(audit, e)
    BY <1>2 DEF Routing!Activates
  <2>2. e \in Audited /\ e.action = "apply" /\ e.config = c /\ e.forced = forced
    BY DEF Audited
  <2> HIDE DEF e
  <2> QED
    BY <1>2, <2>1, <2>2, AuditGrows
<1> QED
  BY <1>1, <1>2

LEMMA ApplyStep ==
  ASSUME RoutingInv, NEW x \in Operator, Routing!Apply(x)
  PROVE  RoutingInv'
<1> DEFINE c == command[x].config
           sim == command[x].sim
<1>1. command[x] \in Reviewing
  BY DEF RoutingInv, RoutingTypeInv, Routing!Apply, Routing!Nothing
<1>2. c \in Config /\ sim \in Nat /\ sim \in DOMAIN sims
  BY <1>1 DEF Reviewing, RoutingInv, ReviewsAreStored
<1>3. /\ command' = [command EXCEPT ![x] = Routing!Nothing]
      /\ UNCHANGED <<shiftRows, sims, routed>>
  BY DEF Routing!Apply
<1>4. CASE Routing!Supersedes(c) /\ (c = active \/ Routing!Reviewed(c, sim))
  <2>1. Routing!Activates(c, sim, FALSE)
    BY <1>4 DEF Routing!Apply
  <2>2. c = active \/ c.mode = "observe" \/ Shown(c)
    BY <1>2, <1>4 DEF Routing!Reviewed, RoutingInv, SimsShow
  <2> HIDE DEF c, sim
  <2> QED
    BY <1>2, <1>3, <2>1, <2>2, ActivationIsAudited
<1>5. CASE ~(Routing!Supersedes(c) /\ (c = active \/ Routing!Reviewed(c, sim)))
  <2>1. UNCHANGED <<active, audit>>
    BY <1>5 DEF Routing!Apply
  <2> QED
    BY <1>3, <2>1, CommandsEnd
<1> QED
  BY <1>4, <1>5

LEMMA ArriveStep ==
  ASSUME RoutingInv, NEW h \in Router, NEW m \in Client, Routing!Arrive(h, m.request, m.sender)
  PROVE  RoutingInv'
<1>1. PICK pct \in Pct :
        routed' = [routed EXCEPT ![h] =
          [ at |-> "admit", request |-> m.request, sender |-> m.sender, config |-> active,
            pct |-> pct, action |-> Routing!Planned(m.request, m.sender, active, pct, FALSE) ]]
  BY DEF Routing!Arrive, Routing!Running
<1> DEFINE action == Routing!Planned(m.request, m.sender, active, pct, FALSE)
           x == [ at |-> "admit", request |-> m.request, sender |-> m.sender, config |-> active,
                  pct |-> pct, action |-> action ]
<1>2. action \in Action /\ (action = "downshift" => active # Routing!None /\ active.mode # "observe")
  BY ShiftIsMeant
<1>3. active \in Configs /\ m.request \in Requests /\ m.sender \in Senders
  BY DEF RoutingInv, RoutingTypeInv, Requests, Senders
<1> HIDE DEF action
<1>4. x \in Planning /\ x.config = active /\ x.action = action
  BY <1>2, <1>3 DEF Planning
<1>5. x.config # Routing!None => Applied(x.config)
  BY <1>4 DEF RoutingInv, FollowedWasApplied
<1>6. routed' = [routed EXCEPT ![h] = x] /\ UNCHANGED <<shiftRows, sims, stored, active, audit, command>>
  BY <1>1 DEF Routing!Arrive, Routing!tables, action
<1> HIDE DEF x
<1> QED
  BY <1>2, <1>4, <1>5, <1>6, HandlersMove

LEMMA RetryStep ==
  ASSUME RoutingInv, NEW h \in Router, Routing!RetryDenied(h)
  PROVE  RoutingInv'
<1> DEFINE f == routed[h]
           x == [f EXCEPT !.action = "downshift"]
<1>1. f \in Planning /\ f.at = "admit"
  BY DEF RoutingInv, RoutingTypeInv, Routing!RetryDenied, Routing!Nothing
<1>2. /\ Routing!Planned(f.request, f.sender, f.config, f.pct, TRUE) = "downshift"
      /\ routed' = [routed EXCEPT ![h].action = "downshift"]
      /\ UNCHANGED <<shiftRows, sims, stored, active, audit, command>>
  BY DEF Routing!RetryDenied, Routing!tables
<1>3. f.config # Routing!None /\ f.config.mode # "observe" /\ Applied(f.config)
  BY <1>1, <1>2, ShiftIsMeant DEF RoutingInv, FollowedWasApplied
<1>4. x \in Planning /\ x.config = f.config
  BY <1>1 DEF Planning, Action
<1>5. routed' = [routed EXCEPT ![h] = x]
  BY <1>2
<1> HIDE DEF x
<1> QED
  BY <1>2, <1>3, <1>4, <1>5, HandlersMove

LEMMA RoutingStep ==
  ASSUME RoutingInv, [Routing!Next]_Routing!vars
  PROVE  RoutingInv'
<1>1. ASSUME NEW x \in Operator, NEW c \in Config, Routing!Simulate(x, c) \/ Routing!Review(x, c)
      PROVE  RoutingInv'
  BY <1>1, SimulationGrows DEF Routing!Simulate, Routing!Review
<1>2. ASSUME NEW x \in Operator, NEW c \in Config, Routing!Force(x, c)
      PROVE  RoutingInv'
  <2>1. /\ Routing!Activates(c, 0, TRUE) /\ UNCHANGED command
        /\ UNCHANGED <<shiftRows, sims, routed>>
    BY <1>2 DEF Routing!Force
  <2> QED
    BY <2>1, ActivationIsAudited
<1>3. ASSUME NEW x \in Operator, Routing!Disable(x)
      PROVE  RoutingInv'
  <2> DEFINE e == [action |-> "disable", config |-> active, sim |-> 0, forced |-> FALSE]
  <2>1. /\ active # Routing!None /\ active' = Routing!None /\ audit' = Append(audit, e)
        /\ UNCHANGED command /\ UNCHANGED <<shiftRows, sims, routed>>
    BY <1>3 DEF Routing!Disable
  <2>2. e \in Audited /\ e.action # "apply"
    BY <2>1 DEF RoutingInv, RoutingTypeInv, Configs, Audited
  <2> HIDE DEF e
  <2> QED
    BY <2>1, <2>2, AuditGrows
<1>4. ASSUME NEW h \in Router, Routing!Denied(h)
      PROVE  RoutingInv'
  BY <1>4, HandlersMove DEF Routing!Denied, Routing!tables
<1>5. CASE UNCHANGED Routing!vars
  BY <1>5, CommandsEnd DEF Routing!vars, Routing!tables
<1> QED
  BY <1>1, <1>2, <1>3, <1>4, <1>5, ApplyStep, ArriveStep, RetryStep, LedgerGrows DEF Routing!Next

\* Whatever operators, handlers and their retries do in whatever order, no
\* model is replaced but under a configuration whose application was audited
\* and either forced or preceded by a row that showed it.
THEOREM ModelsAreReplacedOnEvidence == Routing!Spec => []ReplacedOnEvidence
<1>1. Routing!Init => RoutingInv
  <2> SUFFICES ASSUME Routing!Init PROVE RoutingInv
    OBVIOUS
  <2> USE DEF Routing!Init
  <2>1. RoutingTypeInv
    BY DEF RoutingTypeInv, Configs
  <2>2. SimsShow /\ AppliedWhenShown /\ Routing!ReplacedOnEvidence
    BY DEF SimsShow, AppliedWhenShown, Routing!ReplacedOnEvidence
  <2>3. ReviewsAreStored /\ FollowedWasApplied
    BY DEF ReviewsAreStored, FollowedWasApplied, Routing!Nothing
  <2> QED
    BY <2>1, <2>2, <2>3 DEF RoutingInv
<1>2. RoutingInv /\ [Routing!Next]_Routing!vars => RoutingInv'
  BY RoutingStep
<1>3. RoutingInv => ReplacedOnEvidence
  BY DEF RoutingInv, ReplacedOnEvidence
<1> QED
  BY <1>1, <1>2, <1>3, PTL DEF Routing!Spec

-----------------------------------------------------------------------------
(* Fuses: the trip's mark and its announcements.                           *)

\* What a command may have to write: a field an operator gave, or an empty one.
Field ==
  {<<key, {}>> : key \in Fuses!Key \cup {"marks"}} \cup
  UNION {{fields[i] : i \in DOMAIN fields} : fields \in Change}
Job == [action : {"set", "off", "reset"}, todo : Seq(Field), wrote : Nat]

\* A trip carries the number of an admission.
Issued(t) == t.id \in 1..checks /\ t.until \in Int

FuseTypeInv ==
  /\ clock \in Fuses!Time /\ checks \in 0..MaxChecks
  /\ told \in [1..MaxChecks -> Nat] /\ silent \subseteq 1..MaxChecks
  /\ DOMAIN setting = Fuses!Key
  /\ job \in [Fuses!Surface -> Job \cup {Fuses!NoJob}]
  /\ \A t \in setting["trip"] : Issued(t)
  /\ \A d \in denied : d.id \in 1..checks /\ d.key = <<"fuse", d.id>>

\* Nobody has told of an incident, or is about to.
Fresh(id) == told[id] = 0 /\ \A d \in denied : d.id # id

\* While an admission is under way commands may remove the trip it read, and
\* nobody stores another; a trip to be written is of a new incident, and what
\* it replaces has run out.
AdmissionInv ==
  \/ guard = Fuses!NoAdmission
  \/ /\ guard.step = "read" /\ guard.id \in 1..checks /\ Fresh(guard.id)
     /\ guard.at \in Fuses!Time /\ guard.at <= clock
     /\ setting["trip"] \subseteq guard.vals["trip"]
     /\ \A t \in guard.vals["trip"] : Issued(t)
  \/ /\ guard.step \in {"prune", "write"} /\ guard = [step |-> guard.step, trip |-> guard.trip]
     /\ Issued(guard.trip) /\ Fresh(guard.trip.id)
     /\ \A t \in setting["trip"] : t.until <= clock

\* A mark was left by an announcement, and of admissions to come none was made.
MarksAreTold ==
  /\ \A m \in marks : \E id \in 1..MaxChecks : m = <<"fuse", id>> /\ told[id] > 0
  /\ \A id \in 1..MaxChecks : id > checks => told[id] = 0

\* An announced incident is marked while it stands, unless an operator cleared
\* its mark.
StandingIsMarked ==
  \A t \in setting["trip"] :
    clock < t.until /\ told[t.id] > 0 => t.id \in forgotten \/ <<"fuse", t.id>> \in marks

IncidentInv ==
  /\ FuseTypeInv /\ AdmissionInv /\ MarksAreTold /\ StandingIsMarked
  /\ Fuses!NoIncidentIsSilenced /\ Fuses!StandingTripToldOnce

-----------------------------------------------------------------------------
(* What the operators of the fuses say.                                    *)

\* Commands remove a trip and never set one.
LEMMA FieldShape ==
  ASSUME NEW w \in Field
  PROVE  /\ w[1] \in Fuses!RuleKey \cup {"trip", "marks"}
         /\ w[1] = "trip" => w[2] = {}
<1>1. CASE w \in {<<key, {}>> : key \in Fuses!Key \cup {"marks"}}
  BY <1>1 DEF Fuses!Key
<1>2. ASSUME NEW fields \in Change, NEW i \in DOMAIN fields, w = fields[i]
      PROVE  w[1] \in Fuses!RuleKey
  BY <1>2, FuseConstants DEF Fuses!FuseAssumption
<1> QED
  BY <1>1, <1>2 DEF Field, Fuses!RuleKey

LEMMA ChangesAreFields ==
  ASSUME NEW fields \in Change
  PROVE  fields \in Seq(Field)
<1>1. fields \in Seq({fields[i] : i \in DOMAIN fields})
  BY FuseConstants DEF Fuses!FuseAssumption
<1>2. {fields[i] : i \in DOMAIN fields} \subseteq Field
  BY DEF Field
<1> QED
  BY <1>1, <1>2

LEMMA CooldownFits ==
  ASSUME NEW vals, Fuses!Readable(vals)
  PROVE  Fuses!Cooldown(vals) \in 1..MaxCooldown
<1>1. \A v \in vals["cooldown"] : v.window \in 1..MaxCooldown
  BY DEF Fuses!Readable, Fuses!RuleKey, Fuses!ReadableRule, Fuses!ReadableCooldown
<1> QED
  BY <1>1, FuseConstants DEF Fuses!Cooldown, Fuses!FuseAssumption

LEMMA TripsAreStored ==
  ASSUME NEW g, NEW t \in Fuses!Trips(g)
  PROVE  \E rule, window, limit, projected :
           t = Fuses!Stored(g.id, g.at, g.vals, rule, window, limit, projected)
BY DEF Fuses!Trips, Fuses!TripOf, Fuses!TripsOfFanout

\* The trip of an admission has its number and ends a cooldown later.
LEMMA TripShape ==
  ASSUME NEW g, g.at \in Int, Fuses!Readable(g.vals), NEW t \in Fuses!Trips(g)
  PROVE  t.id = g.id /\ t.start = g.at /\ t.until = g.at + Fuses!Cooldown(g.vals) /\ t.until \in Int
<1>1. Fuses!Cooldown(g.vals) \in Int
  BY CooldownFits, FuseConstants DEF Fuses!FuseAssumption
<1> QED
  BY <1>1, TripsAreStored DEF Fuses!Stored

-----------------------------------------------------------------------------
(* Steps.                                                                  *)

LEMMA TickKeeps ==
  ASSUME IncidentInv, Fuses!Tick
  PROVE  IncidentInv'
<1>1. clock' = clock + 1 /\ clock \in Nat /\ clock' \in Fuses!Time
  BY FuseConstants DEF Fuses!FuseAssumption, Fuses!Tick, IncidentInv, FuseTypeInv, Fuses!Time
<1>2. UNCHANGED <<setting, marks, live, guard, checks, denied, told, silent, forgotten, job>>
  BY DEF Fuses!Tick, Fuses!serverVars, Fuses!alertVars, Fuses!commandVars
<1>3. FuseTypeInv'
  BY <1>1, <1>2 DEF IncidentInv, FuseTypeInv, Issued
<1>4. AdmissionInv'
  BY <1>1, <1>2 DEF IncidentInv, FuseTypeInv, AdmissionInv, Issued, Fresh, Fuses!Time
<1>5. MarksAreTold' /\ Fuses!NoIncidentIsSilenced'
  BY <1>2 DEF IncidentInv, MarksAreTold, Fuses!NoIncidentIsSilenced
<1>6. StandingIsMarked' /\ Fuses!StandingTripToldOnce'
  BY <1>1, <1>2 DEF IncidentInv, FuseTypeInv, Issued, StandingIsMarked,
                    Fuses!StandingTripToldOnce, Fuses!LiveTrip
<1> QED
  BY <1>3, <1>4, <1>5, <1>6 DEF IncidentInv

LEMMA ChecksKeep ==
  ASSUME IncidentInv, NEW at \in {clock, clock - 1} \cap Nat, NEW ask, Fuses!Checks(at, ask)
  PROVE  IncidentInv'
<1>1. /\ guard' = [step |-> "read", id |-> checks + 1, at |-> at, ask |-> ask, vals |-> setting]
      /\ checks < MaxChecks /\ checks' = checks + 1
      /\ UNCHANGED <<clock, setting, marks, denied, told, silent, forgotten, job>>
  BY DEF Fuses!Checks, Fuses!ledgerVars, Fuses!alertVars, Fuses!commandVars
<1>2. /\ MaxChecks \in Nat /\ checks \in Nat /\ checks + 1 \in 1..MaxChecks
      /\ MaxTime \in Nat /\ clock \in 0..MaxTime
  BY <1>1, FuseConstants DEF Fuses!FuseAssumption, IncidentInv, FuseTypeInv, Fuses!Time
<1>3. at \in Fuses!Time /\ at <= clock
  <2>1. at = clock \/ (at = clock - 1 /\ at \in Nat)
    OBVIOUS
  <2> QED
    BY <1>2, <2>1 DEF Fuses!Time
<1>4. \A t : Issued(t) => Issued(t)'
  BY <1>1, <1>2 DEF Issued
<1>5. FuseTypeInv'
  BY <1>1, <1>2, <1>4 DEF IncidentInv, FuseTypeInv
<1>6. told'[checks + 1] = 0 /\ \A d \in denied' : d.id # checks + 1
  <2>1. told[checks + 1] = 0
    BY <1>2 DEF IncidentInv, MarksAreTold
  <2>2. \A d \in denied : d.id # checks + 1
    BY <1>2 DEF IncidentInv, FuseTypeInv
  <2> QED
    BY <1>1, <2>1, <2>2
<1>7. AdmissionInv'
  BY <1>1, <1>2, <1>3, <1>4, <1>6 DEF IncidentInv, FuseTypeInv, AdmissionInv, Fresh
<1>8. MarksAreTold' /\ StandingIsMarked' /\ Fuses!NoIncidentIsSilenced' /\ Fuses!StandingTripToldOnce'
  BY <1>1, <1>2 DEF IncidentInv, MarksAreTold, StandingIsMarked, Fuses!NoIncidentIsSilenced,
                    Fuses!StandingTripToldOnce, Fuses!LiveTrip
<1> QED
  BY <1>5, <1>7, <1>8 DEF IncidentInv

\* An admission that ends without a trip, with some incidents to announce.
LEMMA AdmissionEnds ==
  ASSUME IncidentInv, guard' = Fuses!NoAdmission,
         \A d \in denied' : d \in denied \/ (d.id \in 1..checks /\ d.key = <<"fuse", d.id>>),
         UNCHANGED <<clock, setting, marks, checks, told, silent, forgotten, job>>
  PROVE  IncidentInv'
<1>1. FuseTypeInv'
  BY DEF IncidentInv, FuseTypeInv, Issued
<1>2. AdmissionInv'
  BY DEF AdmissionInv
<1>3. MarksAreTold' /\ StandingIsMarked' /\ Fuses!NoIncidentIsSilenced' /\ Fuses!StandingTripToldOnce'
  BY DEF IncidentInv, MarksAreTold, StandingIsMarked, Fuses!NoIncidentIsSilenced,
         Fuses!StandingTripToldOnce, Fuses!LiveTrip
<1> QED
  BY <1>1, <1>2, <1>3 DEF IncidentInv

LEMMA CrossesKeeps ==
  ASSUME IncidentInv, Fuses!Crosses
  PROVE  IncidentInv'
<1>1. PICK t \in Fuses!Trips(guard) : guard' = [step |-> "prune", trip |-> t]
  BY DEF Fuses!Crosses
<1>2. /\ guard.step = "read" /\ Fuses!Readable(guard.vals)
      /\ Fuses!LiveTrip(guard.vals, guard.at) = {}
      /\ UNCHANGED <<clock, setting, marks, checks, denied, told, silent, forgotten, job>>
  BY DEF Fuses!Crosses, Fuses!ledgerVars, Fuses!alertVars, Fuses!commandVars
<1>3. /\ guard.id \in 1..checks /\ Fresh(guard.id)
      /\ guard.at \in Fuses!Time /\ guard.at <= clock
      /\ setting["trip"] \subseteq guard.vals["trip"]
      /\ \A x \in guard.vals["trip"] : Issued(x)
  BY <1>2 DEF IncidentInv, AdmissionInv, Fuses!NoAdmission
<1>4. t.id = guard.id /\ t.until \in Int
  BY <1>2, <1>3, TripShape DEF Fuses!Time
<1>5. \A x \in setting["trip"] : x.until <= clock
  BY <1>2, <1>3 DEF IncidentInv, FuseTypeInv, Issued, Fuses!LiveTrip, Fuses!Time
<1>6. AdmissionInv'
  BY <1>1, <1>2, <1>3, <1>4, <1>5 DEF AdmissionInv, Issued, Fresh
<1>7. FuseTypeInv'
  BY <1>2 DEF IncidentInv, FuseTypeInv, Issued
<1>8. MarksAreTold' /\ StandingIsMarked' /\ Fuses!NoIncidentIsSilenced' /\ Fuses!StandingTripToldOnce'
  BY <1>2 DEF IncidentInv, MarksAreTold, StandingIsMarked, Fuses!NoIncidentIsSilenced,
              Fuses!StandingTripToldOnce, Fuses!LiveTrip
<1> QED
  BY <1>6, <1>7, <1>8 DEF IncidentInv

LEMMA PrunesKeeps ==
  ASSUME IncidentInv, Fuses!Prunes
  PROVE  IncidentInv'
<1>1. /\ guard.step = "prune" /\ marks' = {} /\ guard' = [guard EXCEPT !.step = "write"]
      /\ UNCHANGED <<clock, setting, checks, denied, told, silent, forgotten, job>>
  BY DEF Fuses!Prunes, Fuses!ledgerVars, Fuses!alertVars, Fuses!commandVars
<1>2. /\ guard = [step |-> "prune", trip |-> guard.trip]
      /\ Issued(guard.trip) /\ Fresh(guard.trip.id)
      /\ \A t \in setting["trip"] : t.until <= clock
  BY <1>1 DEF IncidentInv, AdmissionInv, Fuses!NoAdmission
<1>3. guard' = [step |-> "write", trip |-> guard.trip]
  BY <1>1, <1>2
<1>4. AdmissionInv'
  BY <1>1, <1>2, <1>3 DEF AdmissionInv, Issued, Fresh
<1>5. FuseTypeInv'
  BY <1>1 DEF IncidentInv, FuseTypeInv, Issued
<1>6. \A t \in setting["trip"] : ~(clock < t.until)
  BY <1>2 DEF IncidentInv, FuseTypeInv, Issued, Fuses!Time
<1>7. MarksAreTold' /\ StandingIsMarked' /\ Fuses!NoIncidentIsSilenced' /\ Fuses!StandingTripToldOnce'
  BY <1>1, <1>6 DEF IncidentInv, MarksAreTold, StandingIsMarked, Fuses!NoIncidentIsSilenced,
                    Fuses!StandingTripToldOnce, Fuses!LiveTrip
<1> QED
  BY <1>4, <1>5, <1>7 DEF IncidentInv

LEMMA WritesTripKeeps ==
  ASSUME IncidentInv, Fuses!WritesTrip
  PROVE  IncidentInv'
<1> DEFINE t == guard.trip
<1>1. /\ guard.step = "write" /\ setting' = [setting EXCEPT !["trip"] = {t}]
      /\ denied' = denied \cup {Fuses!Denial(t)} /\ guard' = Fuses!NoAdmission
      /\ UNCHANGED <<clock, marks, checks, told, silent, forgotten, job>>
  BY DEF Fuses!WritesTrip, Fuses!ledgerVars, Fuses!alertVars, Fuses!commandVars
<1>2. Issued(t) /\ told[t.id] = 0
  BY <1>1 DEF IncidentInv, AdmissionInv, Fresh, Fuses!NoAdmission
<1>3. setting'["trip"] = {t} /\ DOMAIN setting' = Fuses!Key
  BY <1>1 DEF IncidentInv, FuseTypeInv, Fuses!Key
<1>4. Fuses!Denial(t).id = t.id /\ Fuses!Denial(t).key = <<"fuse", t.id>>
  BY DEF Fuses!Denial, Fuses!AlertKey
<1> HIDE DEF t
<1>5. FuseTypeInv'
  BY <1>1, <1>2, <1>3, <1>4 DEF IncidentInv, FuseTypeInv, Issued
<1>6. AdmissionInv'
  BY <1>1 DEF AdmissionInv
<1>7. MarksAreTold' /\ StandingIsMarked' /\ Fuses!NoIncidentIsSilenced' /\ Fuses!StandingTripToldOnce'
  BY <1>1, <1>2, <1>3 DEF IncidentInv, MarksAreTold, StandingIsMarked, Fuses!NoIncidentIsSilenced,
                          Fuses!StandingTripToldOnce, Fuses!LiveTrip
<1> QED
  BY <1>5, <1>6, <1>7 DEF IncidentInv

LEMMA AnnouncesKeeps ==
  ASSUME IncidentInv, NEW d \in denied, Fuses!Announces(d)
  PROVE  IncidentInv'
<1>1. /\ d.key \notin marks /\ denied' = denied \ {d}
      /\ told' = [told EXCEPT ![d.id] = @ + 1] /\ marks' = marks \cup {d.key}
      /\ UNCHANGED <<clock, setting, guard, checks, silent, forgotten, job>>
  BY DEF Fuses!Announces, Fuses!ledgerVars, Fuses!commandVars
<1>2. /\ d.key = <<"fuse", d.id>> /\ d.id \in 1..checks /\ d.id \in 1..MaxChecks
      /\ told \in [1..MaxChecks -> Nat] /\ checks \in 0..MaxChecks /\ MaxChecks \in Nat
  BY FuseConstants DEF Fuses!FuseAssumption, IncidentInv, FuseTypeInv
<1>3. /\ told' \in [1..MaxChecks -> Nat] /\ told'[d.id] = told[d.id] + 1 /\ told'[d.id] > 0
      /\ \A id \in 1..MaxChecks : id # d.id => told'[id] = told[id]
  BY <1>1, <1>2
<1>4. FuseTypeInv'
  BY <1>1, <1>3 DEF IncidentInv, FuseTypeInv, Issued
<1>5. \A id \in 1..checks : Fresh(id) => Fresh(id)'
  BY <1>1, <1>2, <1>3 DEF Fresh
<1>6. AdmissionInv'
  BY <1>1, <1>5 DEF IncidentInv, AdmissionInv, Issued
<1>7. MarksAreTold'
  BY <1>1, <1>2, <1>3 DEF IncidentInv, MarksAreTold
<1>8. \A t \in setting["trip"] : t.id \in 1..MaxChecks
  BY <1>2 DEF IncidentInv, FuseTypeInv, Issued
<1>9. StandingIsMarked'
  BY <1>1, <1>2, <1>3, <1>8 DEF IncidentInv, StandingIsMarked
<1>10. Fuses!NoIncidentIsSilenced'
  BY <1>1, <1>3 DEF IncidentInv, FuseTypeInv, Fuses!NoIncidentIsSilenced
<1>11. Fuses!StandingTripToldOnce'
  <2> SUFFICES ASSUME NEW t \in setting["trip"], clock < t.until, told'[t.id] > 1,
                      t.id \notin forgotten
               PROVE  FALSE
    BY <1>1 DEF Fuses!StandingTripToldOnce, Fuses!LiveTrip
  <2>1. CASE t.id = d.id
    <3>1. told[t.id] > 0
      BY <1>2, <1>3, <2>1
    <3> QED
      BY <1>1, <1>2, <2>1, <3>1 DEF IncidentInv, StandingIsMarked
  <2>2. CASE t.id # d.id
    BY <1>3, <1>8, <2>2 DEF IncidentInv, Fuses!StandingTripToldOnce, Fuses!LiveTrip
  <2> QED
    BY <2>1, <2>2
<1> QED
  BY <1>4, <1>6, <1>7, <1>9, <1>10, <1>11 DEF IncidentInv

LEMMA KeepsSilentKeeps ==
  ASSUME IncidentInv, NEW d \in denied, Fuses!KeepsSilent(d)
  PROVE  IncidentInv'
<1>1. /\ d.key \in marks /\ denied' = denied \ {d} /\ silent' = silent \cup {d.id}
      /\ UNCHANGED <<clock, setting, marks, guard, checks, told, forgotten, job>>
  BY DEF Fuses!KeepsSilent, Fuses!ledgerVars, Fuses!commandVars
<1>2. /\ d.key = <<"fuse", d.id>> /\ d.id \in 1..MaxChecks
  BY FuseConstants DEF Fuses!FuseAssumption, IncidentInv, FuseTypeInv
<1>3. told[d.id] > 0
  BY <1>1, <1>2 DEF IncidentInv, MarksAreTold
<1>4. FuseTypeInv'
  BY <1>1, <1>2 DEF IncidentInv, FuseTypeInv, Issued
<1>5. AdmissionInv'
  BY <1>1 DEF IncidentInv, AdmissionInv, Issued, Fresh
<1>6. MarksAreTold' /\ StandingIsMarked' /\ Fuses!NoIncidentIsSilenced' /\ Fuses!StandingTripToldOnce'
  BY <1>1, <1>3 DEF IncidentInv, MarksAreTold, StandingIsMarked, Fuses!NoIncidentIsSilenced,
                    Fuses!StandingTripToldOnce, Fuses!LiveTrip
<1> QED
  BY <1>4, <1>5, <1>6 DEF IncidentInv

LEMMA JobsMove ==
  ASSUME IncidentInv, job' \in [Fuses!Surface -> Job \cup {Fuses!NoJob}],
         UNCHANGED <<clock, setting, marks, guard, checks, denied, told, silent, forgotten>>
  PROVE  IncidentInv'
<1>1. FuseTypeInv' /\ AdmissionInv'
  BY DEF IncidentInv, FuseTypeInv, AdmissionInv, Issued, Fresh
<1>2. MarksAreTold' /\ StandingIsMarked' /\ Fuses!NoIncidentIsSilenced' /\ Fuses!StandingTripToldOnce'
  BY DEF IncidentInv, MarksAreTold, StandingIsMarked, Fuses!NoIncidentIsSilenced,
         Fuses!StandingTripToldOnce, Fuses!LiveTrip
<1> QED
  BY <1>1, <1>2 DEF IncidentInv

LEMMA BeginsKeeps ==
  ASSUME IncidentInv, NEW x \in Fuses!Surface, NEW action \in {"set", "off", "reset"},
         NEW todo \in Seq(Field), Fuses!Begins(x, action, todo)
  PROVE  IncidentInv'
<1>1. /\ job' = [job EXCEPT ![x] = [action |-> action, todo |-> todo, wrote |-> 0]]
      /\ UNCHANGED <<clock, setting, marks, guard, checks, denied, told, silent, forgotten>>
  BY DEF Fuses!Begins, Fuses!ledgerVars, Fuses!serverVars, Fuses!alertVars
<1>2. [action |-> action, todo |-> todo, wrote |-> 0] \in Job
  BY DEF Job
<1>3. job' \in [Fuses!Surface -> Job \cup {Fuses!NoJob}]
  BY <1>1, <1>2 DEF IncidentInv, FuseTypeInv
<1> QED
  BY <1>1, <1>3, JobsMove

\* The fields of the fixed commands are empty.
LEMMA FixedWrites ==
  Fuses!OffWrites \in Seq(Field) /\ << <<"trip", {}>> >> \in Seq(Field)
<1>1. \A key \in Fuses!Key \cup {"marks"} : <<key, {}>> \in Field
  BY DEF Field
<1> QED
  BY <1>1 DEF Fuses!OffWrites, Fuses!Key, Fuses!RuleKey

\* What a surface's write leaves to be written, and what it wrote.
LEMMA StoresShape ==
  ASSUME IncidentInv, NEW x \in Fuses!Surface, Fuses!Stores(x)
  PROVE  \E w \in Field :
           /\ Fuses!Valid(w)
           /\ \/ /\ w[1] = "marks" /\ marks' = {} /\ UNCHANGED setting
                 /\ forgotten' = forgotten \cup {id \in DOMAIN told : told[id] > 0}
              \/ /\ w[1] # "marks" /\ setting' = [setting EXCEPT ![w[1]] = w[2]]
                 /\ UNCHANGED <<marks, forgotten>>
           /\ job' \in [Fuses!Surface -> Job \cup {Fuses!NoJob}]
           /\ UNCHANGED <<clock, guard, checks, denied, told, silent>>
<1> DEFINE w == Head(job[x].todo)
<1>1. job[x] \in Job /\ job[x].todo # <<>> /\ Fuses!Valid(w)
  BY DEF Fuses!Stores, Fuses!Pending, IncidentInv, FuseTypeInv
<1>2. job[x].todo \in Seq(Field) /\ job[x].wrote \in Nat
  BY <1>1 DEF Job
<1>3. w \in Field /\ Tail(job[x].todo) \in Seq(Field)
  BY <1>1, <1>2
<1>4. /\ job' = [job EXCEPT ![x].todo = Tail(@), ![x].wrote = @ + 1]
      /\ UNCHANGED <<clock, guard, checks, denied, told, silent>>
  BY DEF Fuses!Stores, Fuses!ledgerVars, Fuses!serverVars, Fuses!alertVars
<1>5. [job[x] EXCEPT !.todo = Tail(@), !.wrote = @ + 1] \in Job
  <2>1. \A j \in Job, todo \in Seq(Field), n \in Nat :
          [[j EXCEPT !.todo = todo] EXCEPT !.wrote = n] \in Job
    BY DEF Job
  <2>2. job[x].wrote + 1 \in Nat
    BY <1>2
  <2> QED
    BY <1>1, <1>3, <2>1, <2>2
<1>6. job' = [job EXCEPT ![x] = [job[x] EXCEPT !.todo = Tail(@), !.wrote = @ + 1]]
  BY <1>1, <1>4 DEF IncidentInv, FuseTypeInv
<1>7. job' \in [Fuses!Surface -> Job \cup {Fuses!NoJob}]
  BY <1>5, <1>6 DEF IncidentInv, FuseTypeInv
<1>8. \/ /\ w[1] = "marks" /\ marks' = {} /\ UNCHANGED setting
         /\ forgotten' = forgotten \cup {id \in DOMAIN told : told[id] > 0}
      \/ /\ w[1] # "marks" /\ setting' = [setting EXCEPT ![w[1]] = w[2]]
         /\ UNCHANGED <<marks, forgotten>>
  BY DEF Fuses!Stores
<1> HIDE DEF w
<1> QED
  BY <1>1, <1>3, <1>4, <1>7, <1>8

LEMMA StoresKeeps ==
  ASSUME IncidentInv, NEW x \in Fuses!Surface, Fuses!Stores(x)
  PROVE  IncidentInv'
<1>1. PICK w \in Field :
        /\ \/ /\ w[1] = "marks" /\ marks' = {} /\ UNCHANGED setting
              /\ forgotten' = forgotten \cup {id \in DOMAIN told : told[id] > 0}
           \/ /\ w[1] # "marks" /\ setting' = [setting EXCEPT ![w[1]] = w[2]]
              /\ UNCHANGED <<marks, forgotten>>
        /\ job' \in [Fuses!Surface -> Job \cup {Fuses!NoJob}]
        /\ UNCHANGED <<clock, guard, checks, denied, told, silent>>
  BY StoresShape
<1>2. /\ DOMAIN setting' = Fuses!Key /\ setting'["trip"] \subseteq setting["trip"]
      /\ forgotten \subseteq forgotten'
  BY <1>1, FieldShape DEF IncidentInv, FuseTypeInv, Fuses!Key
<1>3. FuseTypeInv' /\ AdmissionInv'
  BY <1>1, <1>2 DEF IncidentInv, FuseTypeInv, AdmissionInv, Issued, Fresh
<1>4. MarksAreTold' /\ Fuses!NoIncidentIsSilenced' /\ Fuses!StandingTripToldOnce'
  BY <1>1, <1>2 DEF IncidentInv, MarksAreTold, Fuses!NoIncidentIsSilenced,
                    Fuses!StandingTripToldOnce, Fuses!LiveTrip
<1>5. \A t \in setting["trip"] : t.id \in DOMAIN told
  BY FuseConstants DEF Fuses!FuseAssumption, IncidentInv, FuseTypeInv, Issued
<1>6. StandingIsMarked'
  BY <1>1, <1>2, <1>5 DEF IncidentInv, StandingIsMarked
<1> QED
  BY <1>3, <1>4, <1>6 DEF IncidentInv

LEMMA JobEndsKeeps ==
  ASSUME IncidentInv, NEW x \in Fuses!Surface, job' = [job EXCEPT ![x] = Fuses!NoJob] \/ UNCHANGED job,
         UNCHANGED <<clock, setting, marks, guard, checks, denied, told, silent, forgotten>>
  PROVE  IncidentInv'
<1>1. job' \in [Fuses!Surface -> Job \cup {Fuses!NoJob}]
  BY DEF IncidentInv, FuseTypeInv
<1> QED
  BY <1>1, JobsMove

LEMMA IncidentStep ==
  ASSUME IncidentInv, [Fuses!Next]_Fuses!vars
  PROVE  IncidentInv'
<1> USE DEF Fuses!ledgerVars, Fuses!serverVars, Fuses!alertVars, Fuses!commandVars
<1>1. CASE Fuses!RefusedByTrip
  <2>1. guard.step = "read" /\ \A t \in guard.vals["trip"] : Issued(t)
    BY <1>1 DEF Fuses!RefusedByTrip, IncidentInv, AdmissionInv, Fuses!NoAdmission
  <2>2. /\ denied' = denied \cup {Fuses!Denial(t) : t \in Fuses!LiveTrip(guard.vals, guard.at)}
        /\ guard' = Fuses!NoAdmission
        /\ UNCHANGED <<clock, setting, marks, checks, told, silent, forgotten, job>>
    BY <1>1 DEF Fuses!RefusedByTrip
  <2>3. \A d \in denied' : d \in denied \/ (d.id \in 1..checks /\ d.key = <<"fuse", d.id>>)
    BY <2>1, <2>2 DEF Fuses!Denial, Fuses!AlertKey, Fuses!LiveTrip, Issued
  <2> QED
    BY <2>2, <2>3, AdmissionEnds
<1>2. CASE Fuses!RefusedElsewhere \/ Fuses!Admits \/ Fuses!TripFails \/ Fuses!Restarts
  <2>1. /\ guard' = Fuses!NoAdmission /\ denied' \subseteq denied
        /\ UNCHANGED <<clock, setting, marks, checks, told, silent, forgotten, job>>
    BY <1>2 DEF Fuses!RefusedElsewhere, Fuses!Admits, Fuses!TripFails, Fuses!Restarts
  <2> QED
    BY <2>1, AdmissionEnds
<1>3. ASSUME NEW c, Fuses!Released(c) \/ \E cost \in FuseCost : Fuses!Settles(c, cost)
      PROVE  IncidentInv'
  <2>1. UNCHANGED <<clock, setting, marks, guard, checks, denied, told, silent, forgotten, job>>
    BY <1>3 DEF Fuses!Released, Fuses!Settles
  <2> QED
    BY <2>1, JobsMove DEF IncidentInv, FuseTypeInv
<1>4. ASSUME NEW fields \in Change,
             Fuses!SetByCLI(fields) \/ Fuses!SetByWeb(fields) \/ Fuses!RefusedByCLI(fields)
      PROVE  IncidentInv'
  <2>1. CASE Fuses!SetByCLI(fields) \/ Fuses!SetByWeb(fields)
    BY <2>1, BeginsKeeps, ChangesAreFields DEF Fuses!SetByCLI, Fuses!SetByWeb, Fuses!Surface
  <2>2. CASE Fuses!RefusedByCLI(fields)
    BY <2>2, JobEndsKeeps DEF Fuses!RefusedByCLI, Fuses!Surface
  <2> QED
    BY <1>4, <2>1, <2>2
<1>5. ASSUME NEW x \in Fuses!Surface, Fuses!Off(x) \/ Fuses!Reset(x)
      PROVE  IncidentInv'
  BY <1>5, BeginsKeeps, FixedWrites DEF Fuses!Off, Fuses!Reset
<1>6. ASSUME NEW x \in Fuses!Surface, Fuses!Ends(x)
      PROVE  IncidentInv'
  BY <1>6, JobEndsKeeps DEF Fuses!Ends
<1>7. CASE Fuses!RefusedByWeb
  BY <1>7, JobEndsKeeps DEF Fuses!RefusedByWeb, Fuses!Surface
<1>8. CASE UNCHANGED Fuses!vars
  BY <1>8, JobsMove DEF Fuses!vars, IncidentInv, FuseTypeInv
<1> QED
  BY <1>1, <1>2, <1>3, <1>4, <1>5, <1>6, <1>7, <1>8, TickKeeps, ChecksKeep, CrossesKeeps,
     PrunesKeeps, WritesTripKeeps, AnnouncesKeeps, KeepsSilentKeeps, StoresKeeps
  DEF Fuses!Next

LEMMA IncidentInit == Fuses!Init => IncidentInv
<1> SUFFICES ASSUME Fuses!Init PROVE IncidentInv
  OBVIOUS
<1> USE DEF Fuses!Init
<1>1. setting["trip"] = {} /\ DOMAIN setting = Fuses!Key
  BY DEF Fuses!Key
<1>2. FuseTypeInv
  BY <1>1, FuseConstants DEF Fuses!FuseAssumption, FuseTypeInv, Fuses!Time
<1>3. AdmissionInv /\ MarksAreTold /\ StandingIsMarked
  BY <1>1 DEF AdmissionInv, MarksAreTold, StandingIsMarked
<1>4. Fuses!NoIncidentIsSilenced /\ Fuses!StandingTripToldOnce
  BY <1>1 DEF Fuses!NoIncidentIsSilenced, Fuses!StandingTripToldOnce, Fuses!LiveTrip
<1> QED
  BY <1>2, <1>3, <1>4 DEF IncidentInv

\* However admissions, late handlers, restarts and half-done commands
\* interleave, nobody keeps silent on an incident that was not announced, and
\* an incident is announced once while its trip stands.
THEOREM IncidentsAreToldOnce == Fuses!Spec => []EachIncidentToldOnce
<1>1. IncidentInv => EachIncidentToldOnce
  BY DEF IncidentInv, EachIncidentToldOnce
<1> QED
  BY <1>1, IncidentInit, IncidentStep, PTL DEF Fuses!Spec

-----------------------------------------------------------------------------
(* Fuses: what is stored can be read back.                                 *)

\* Rules of a set of settings: of the right shape, one of a kind, readable.
RulesInv(vals) ==
  \A key \in Fuses!RuleKey :
    /\ vals[key] \subseteq Fuses!Rule
    /\ \A v, w \in vals[key] : v = w /\ Fuses!ReadableRule(key, v)

LedgerTyped ==
  /\ usd \in [Fuses!Time -> Nat] /\ calls \in [Fuses!Time -> Nat] /\ median \in Nat
  /\ IsFiniteSet(live) /\ \A c \in live : c.at \in Fuses!Time /\ c.amount \in Nat

\* The trip under way can be read back as well as those stored.
ControlsInv ==
  /\ LedgerTyped /\ RulesInv(setting)
  /\ \A t \in setting["trip"] : Fuses!ReadableTrip(t)
  /\ guard.step = "read" => RulesInv(guard.vals) /\ guard.ask \in Ask
  /\ guard.step \in {"prune", "write"} => Fuses!ReadableTrip(guard.trip)

\* A position of the guard: what it counts, of a readable rule.
Sound(p) ==
  /\ p.limit \in Nat /\ p.limit >= 1 /\ p.spent \in Nat
  /\ \/ p.rule = "hourly" /\ p.window = Hour
     \/ p.rule = "burst" /\ Fuses!RollingWindow(p.window)
     \/ p.rule = "baseline" /\ Fuses!Slot(p.window)

-----------------------------------------------------------------------------
(* Sums, and the greatest of few.                                          *)

LEMMA SameSums ==
  /\ \A S : Fuses!Cardinality(S) = Cardinality(S)
  /\ \A f, S : Fuses!SumOf(f, S) = SumOf(f, S)
<1>1. \A S : Fuses!Cardinality(S) = Cardinality(S)
  BY DEF Cardinality, Fuses!Cardinality
<1>2. \A f, S : Fuses!Units(f, S) = Units(f, S)
  BY DEF Units, Fuses!Units
<1> QED
  BY <1>1, <1>2 DEF SumOf, Fuses!SumOf

LEMMA TotalIsNat ==
  ASSUME NEW f \in [Fuses!Time -> Nat], NEW from
  PROVE  Fuses!Total(f, from) \in Nat
<1> DEFINE S == {t \in Fuses!Time : t >= from}
<1>1. IsFiniteSet(Fuses!Time)
  BY FS_Interval, FuseConstants DEF Fuses!FuseAssumption, Fuses!Time
<1>2. IsFiniteSet(S) /\ \A t \in S : f[t] \in Nat
  BY <1>1, FS_Subset
<1> HIDE DEF S
<1>3. SumOf(f, S) \in Nat
  BY <1>2, SumFinite
<1> QED
  BY <1>3, SameSums DEF Fuses!Total, S

LEMMA ReservedIsNat ==
  ASSUME LedgerTyped
  PROVE  Fuses!Reserved \in Nat /\ Fuses!Cardinality(live) \in Nat
<1> DEFINE f == [c \in live |-> c.amount]
<1>1. IsFiniteSet(live) /\ \A c \in live : f[c] \in Nat
  BY DEF LedgerTyped
<1>2. SumOf(f, live) \in Nat
  BY <1>1, SumFinite
<1>3. Cardinality(live) \in Nat
  BY <1>1, FS_CardinalityType
<1> QED
  BY <1>2, <1>3, SameSums DEF Fuses!Reserved

LEMMA GreaterOfTwo ==
  \A a, b \in Int : /\ Fuses!Max({a, b}) = a \/ Fuses!Max({a, b}) = b
                   /\ a <= Fuses!Max({a, b}) /\ b <= Fuses!Max({a, b})
<1> TAKE a, b \in Int
<1> DEFINE S == {a, b}
<1>1. \E x \in S : \A y \in S : x >= y
  OBVIOUS
<1>2. Fuses!Max(S) \in S /\ \A y \in S : Fuses!Max(S) >= y
  <2> HIDE DEF S
  <2> QED
    BY <1>1 DEF Fuses!Max
<1> DEFINE m == Fuses!Max(S)
<1>3. m \in {a, b} /\ m >= a /\ m >= b
  BY <1>2
<1> HIDE DEF m
<1>4. (m = a \/ m = b) /\ a <= m /\ b <= m
  BY <1>3
<1> QED
  BY <1>4 DEF m

-----------------------------------------------------------------------------
(* The positions: three rules at most, each with one value or none.        *)

OneOf(S) == IF S = {} THEN <<>> ELSE <<CHOOSE p \in S : TRUE>>
Bursts(vals, at) ==
  {Fuses!Position("burst", v, v.limit, Fuses!RollingStart(at, v.window)) : v \in vals["burst"]}
Hourlies(vals, at) ==
  {Fuses!Position("hourly", v, v.limit, Fuses!RollingStart(at, Hour)) : v \in vals["hourly"]}
Baselines(vals, at) ==
  {Fuses!Position("baseline", v, Fuses!Max({v.limit, median * v.times}),
                  Fuses!SlotStart(at, v.window)) : v \in vals["baseline"]}
Counted(vals, at) == Bursts(vals, at) \cup Hourlies(vals, at) \cup Baselines(vals, at)

LEMMA OneOfShape ==
  ASSUME NEW S, NEW T, S \subseteq T
  PROVE  /\ OneOf(S) \in Seq(T) /\ Len(OneOf(S)) <= 1
         /\ \A i \in DOMAIN OneOf(S) : OneOf(S)[i] \in S
         /\ (\A p, r \in S : p = r) => \A p \in S : \E i \in DOMAIN OneOf(S) : OneOf(S)[i] = p
<1>1. CASE S = {}
  BY <1>1 DEF OneOf
<1>2. CASE S # {}
  <2>1. (CHOOSE p \in S : TRUE) \in S
    BY <1>2
  <2> QED
    BY <1>2, <2>1 DEF OneOf
<1> QED
  BY <1>1, <1>2

\* Every element of a is one of c.
Reaches(a, c) == \A j \in DOMAIN a : \E i \in DOMAIN c : c[i] = a[j]

LEMMA JoinShape ==
  ASSUME NEW T, NEW a \in Seq(T), NEW b \in Seq(T)
  PROVE  /\ a \o b \in Seq(T) /\ Len(a \o b) = Len(a) + Len(b)
         /\ Reaches(a, a \o b) /\ Reaches(b, a \o b)
<1> DEFINE c == a \o b
<1>1. /\ c \in Seq(T) /\ Len(c) = Len(a) + Len(b) /\ Len(a) \in Nat /\ Len(b) \in Nat
      /\ DOMAIN a = 1..Len(a) /\ DOMAIN b = 1..Len(b) /\ DOMAIN c = 1..Len(a) + Len(b)
      /\ \A i \in 1..Len(a) : c[i] = a[i]
      /\ \A i \in Len(a) + 1..Len(a) + Len(b) : c[i] = b[i - Len(a)]
  OBVIOUS
<1> HIDE DEF c
<1>2. Reaches(b, c)
  <2> SUFFICES ASSUME NEW j \in DOMAIN b PROVE \E i \in DOMAIN c : c[i] = b[j]
    BY DEF Reaches
  <2>1. /\ Len(a) + j \in Len(a) + 1..Len(a) + Len(b) /\ Len(a) + j \in DOMAIN c
        /\ (Len(a) + j) - Len(a) = j
    BY <1>1
  <2> QED
    BY <1>1, <2>1
<1>3. \A j \in DOMAIN a : j \in DOMAIN c /\ c[j] = a[j]
  BY <1>1
<1>4. Reaches(a, c)
  BY <1>3 DEF Reaches
<1>5. /\ a \o b \in Seq(T) /\ Len(a \o b) = Len(a) + Len(b)
  BY <1>1 DEF c
<1> QED
  BY <1>2, <1>4, <1>5 DEF c

LEMMA PositionsShape ==
  ASSUME NEW vals, NEW at
  PROVE  LET ps == Fuses!Positions(vals, at)
         IN /\ ps \in Seq(Counted(vals, at)) /\ Len(ps) \in 0..3
            /\ RulesInv(vals) => \A p \in Counted(vals, at) : \E i \in DOMAIN ps : ps[i] = p
<1> DEFINE B == Bursts(vals, at)
           H == Hourlies(vals, at)
           L == Baselines(vals, at)
           T == Counted(vals, at)
<1>1. Fuses!Positions(vals, at) = (OneOf(B) \o OneOf(H)) \o OneOf(L)
  BY DEF Fuses!Positions, OneOf, Bursts, Hourlies, Baselines
<1>2. B \subseteq T /\ H \subseteq T /\ L \subseteq T
  BY DEF Counted
<1>3. RulesInv(vals) =>
        (\A p, r \in B : p = r) /\ (\A p, r \in H : p = r) /\ (\A p, r \in L : p = r)
  BY DEF RulesInv, Fuses!RuleKey, Bursts, Hourlies, Baselines
<1>4. T = B \cup H \cup L
  BY DEF Counted
<1> HIDE DEF B, H, L, T
<1> DEFINE b == OneOf(B)
           h == OneOf(H)
           l == OneOf(L)
<1>5. /\ b \in Seq(T) /\ h \in Seq(T) /\ l \in Seq(T)
      /\ Len(b) <= 1 /\ Len(h) <= 1 /\ Len(l) <= 1
  BY <1>2, OneOfShape
<1>6. RulesInv(vals) => /\ \A p \in B : \E i \in DOMAIN b : b[i] = p
                        /\ \A p \in H : \E i \in DOMAIN h : h[i] = p
                        /\ \A p \in L : \E i \in DOMAIN l : l[i] = p
  BY <1>2, <1>3, OneOfShape
<1>7. Fuses!Positions(vals, at) = (b \o h) \o l
  BY <1>1
<1> HIDE DEF b, h, l
<1>8. /\ b \o h \in Seq(T) /\ Len(b \o h) = Len(b) + Len(h)
      /\ Reaches(b, b \o h) /\ Reaches(h, b \o h)
  BY <1>5, JoinShape
<1> DEFINE bh == b \o h
<1>9. bh \in Seq(T) /\ Len(bh) = Len(b) + Len(h) /\ Reaches(b, bh) /\ Reaches(h, bh)
  BY <1>8
<1>10. Fuses!Positions(vals, at) = bh \o l
  BY <1>7
<1> HIDE DEF bh
<1>11. /\ bh \o l \in Seq(T) /\ Len(bh \o l) = Len(bh) + Len(l)
       /\ Reaches(bh, bh \o l) /\ Reaches(l, bh \o l)
  BY <1>5, <1>9, JoinShape
<1> DEFINE all == Fuses!Positions(vals, at)
<1>12. /\ all \in Seq(T) /\ Len(all) = Len(bh) + Len(l) /\ Reaches(bh, all) /\ Reaches(l, all)
  BY <1>10, <1>11
<1> HIDE DEF all
<1>13. Len(all) \in 0..3
  <2>1. Len(b) \in Nat /\ Len(h) \in Nat /\ Len(l) \in Nat
    BY <1>5
  <2> QED
    BY <1>5, <1>9, <1>12, <2>1
<1>14. ASSUME RulesInv(vals), NEW p \in T
       PROVE  \E i \in DOMAIN all : all[i] = p
  <2>1. (\E i \in DOMAIN b : b[i] = p) \/ (\E i \in DOMAIN h : h[i] = p) \/ (\E i \in DOMAIN l : l[i] = p)
    BY <1>4, <1>6, <1>14
  <2>2. (\E i \in DOMAIN bh : bh[i] = p) \/ (\E i \in DOMAIN l : l[i] = p)
    BY <1>9, <2>1 DEF Reaches
  <2> QED
    BY <1>12, <2>2 DEF Reaches
<1> QED
  BY <1>12, <1>13, <1>14 DEF T, all

\* What the guard counts for readable rules is sound.
LEMMA CountedAreSound ==
  ASSUME LedgerTyped, NEW vals, RulesInv(vals), NEW at, NEW p \in Counted(vals, at)
  PROVE  Sound(p)
<1>0. \A from : Fuses!Total(usd, from) \in Nat
  BY TotalIsNat DEF LedgerTyped
<1>1. ASSUME NEW v \in vals["burst"],
             p = Fuses!Position("burst", v, v.limit, Fuses!RollingStart(at, v.window))
      PROVE  Sound(p)
  <2>1. v.limit \in Nat /\ v.limit >= 1 /\ Fuses!RollingWindow(v.window)
    BY DEF RulesInv, Fuses!RuleKey, Fuses!Rule, Fuses!ReadableRule, Fuses!ReadableBurst
  <2> QED
    BY <1>0, <1>1, <2>1 DEF Fuses!Position, Sound
<1>2. ASSUME NEW v \in vals["hourly"],
             p = Fuses!Position("hourly", v, v.limit, Fuses!RollingStart(at, Hour))
      PROVE  Sound(p)
  <2>1. v.limit \in Nat /\ v.limit >= 1
    BY DEF RulesInv, Fuses!RuleKey, Fuses!Rule, Fuses!ReadableRule
  <2> QED
    BY <1>0, <1>2, <2>1 DEF Fuses!Position, Sound
<1>3. ASSUME NEW v \in vals["baseline"],
             p = Fuses!Position("baseline", v, Fuses!Max({v.limit, median * v.times}),
                                Fuses!SlotStart(at, v.window))
      PROVE  Sound(p)
  <2>1. v.limit \in Nat /\ v.limit >= 1 /\ v.times \in Nat /\ Fuses!Slot(v.window)
    BY DEF RulesInv, Fuses!RuleKey, Fuses!Rule, Fuses!ReadableRule, Fuses!ReadableBaseline
  <2> DEFINE k == median * v.times
             m == Fuses!Max({v.limit, k})
  <2>2. k \in Nat
    BY <2>1 DEF LedgerTyped
  <2>3. m \in Nat /\ m >= 1
    <3> HIDE DEF k
    <3>1. (m = v.limit \/ m = k) /\ v.limit <= m
      <4>1. v.limit \in Int /\ k \in Int
        BY <2>1, <2>2
      <4> QED
        BY <4>1, GreaterOfTwo, Zenon
    <3> HIDE DEF m
    <3> QED
      BY <2>1, <2>2, <3>1
  <2>4. p.rule = "baseline" /\ p.window = v.window /\ p.limit = m /\ p.spent \in Nat
    BY <1>0, <1>3 DEF Fuses!Position
  <2> QED
    BY <2>1, <2>3, <2>4 DEF Sound
<1> QED
  BY <1>1, <1>2, <1>3 DEF Counted, Bursts, Hourlies, Baselines

\* A full position is found if there is one.
LEMMA FirstFullShape ==
  ASSUME NEW T, NEW ps \in Seq(T), Len(ps) \in 0..3
  PROVE  /\ \A p \in Fuses!FirstFull(ps) : p \in T /\ Fuses!Room(p) <= 0
         /\ Fuses!FirstFull(ps) = {} <=> \A i \in DOMAIN ps : ~(Fuses!Room(ps[i]) <= 0)
<1> DEFINE full(i) == Fuses!Room(ps[i]) <= 0
           first == {i \in DOMAIN ps : full(i) /\ \A j \in 1..i-1 : ~full(j)}
<1>1. Fuses!FirstFull(ps) = {ps[i] : i \in first}
  BY DEF Fuses!FirstFull, Fuses!FirstOf
<1>2. DOMAIN ps \subseteq 1..3 /\ \A i \in DOMAIN ps : ps[i] \in T /\ 1..i-1 \subseteq DOMAIN ps
  OBVIOUS
<1> HIDE DEF full
<1>3. ASSUME NEW i \in DOMAIN ps, full(i)
      PROVE  first # {}
  <2>1. i \in {1, 2, 3}
    BY <1>2
  <2>2. CASE 1 \in DOMAIN ps /\ full(1)
    <3>1. 1 \in first
      BY <2>2
    <3> QED
      BY <3>1
  <2>3. CASE 2 \in DOMAIN ps /\ full(2) /\ ~full(1)
    <3>1. 2 \in first
      BY <2>3
    <3> QED
      BY <3>1
  <2>4. CASE 3 \in DOMAIN ps /\ full(3) /\ ~full(1) /\ ~full(2)
    <3>1. 3 \in first
      BY <2>4
    <3> QED
      BY <3>1
  <2>5. i > 1 => 1 \in DOMAIN ps
    BY <1>2
  <2>6. i > 2 => 2 \in DOMAIN ps
    BY <1>2
  <2> QED
    BY <1>3, <2>1, <2>2, <2>3, <2>4, <2>5, <2>6
<1>4. \A p \in Fuses!FirstFull(ps) : \E i \in DOMAIN ps : p = ps[i] /\ full(i)
  BY <1>1
<1>5. Fuses!FirstFull(ps) = {} <=> first = {}
  BY <1>1
<1>6. first # {} => \E i \in DOMAIN ps : full(i)
  OBVIOUS
<1> QED
  BY <1>2, <1>3, <1>4, <1>5, <1>6 DEF full

LEMMA HeadroomIsNat ==
  ASSUME NEW T, NEW ps \in Seq(T), Len(ps) \in 0..3,
         \A i \in DOMAIN ps : Fuses!Room(ps[i]) \in Int /\ Fuses!Room(ps[i]) > 0
  PROVE  Fuses!Headroom(ps) \in Nat
<1>1. CASE ps = <<>>
  BY <1>1 DEF Fuses!Headroom
<1>2. CASE ps # <<>>
  <2> DEFINE S == {Fuses!Room(ps[i]) : i \in DOMAIN ps}
             r(i) == Fuses!Room(ps[i])
  <2>1. DOMAIN ps = {1} \/ DOMAIN ps = {1, 2} \/ DOMAIN ps = {1, 2, 3}
    BY <1>2
  <2>2. S \subseteq Nat
    OBVIOUS
  <2>3. \E x \in S : \A y \in S : x >= y
    <3>1. CASE DOMAIN ps = {1}
      <4>1. S = {r(1)} /\ r(1) \in Int
        BY <3>1
      <4> HIDE DEF S, r
      <4> QED
        BY <4>1
    <3>2. CASE DOMAIN ps = {1, 2}
      <4>1. S = {r(1), r(2)} /\ r(1) \in Int /\ r(2) \in Int
        BY <3>2
      <4> HIDE DEF S, r
      <4> QED
        BY <4>1
    <3>3. CASE DOMAIN ps = {1, 2, 3}
      <4>1. S = {r(1), r(2), r(3)} /\ r(1) \in Int /\ r(2) \in Int /\ r(3) \in Int
        BY <3>3
      <4> HIDE DEF S, r
      <4> QED
        BY <4>1
    <3> QED
      BY <2>1, <3>1, <3>2, <3>3
  <2> HIDE DEF S
  <2>4. Fuses!Max(S) \in S
    BY <2>3 DEF Fuses!Max
  <2>5. Fuses!Headroom(ps) = Fuses!Max(S)
    BY <1>2 DEF Fuses!Headroom, S
  <2> QED
    BY <2>2, <2>4, <2>5
<1> QED
  BY <1>1, <1>2

-----------------------------------------------------------------------------
(* What an admission stores can be read back.                              *)

LEMMA TripOfIsReadable ==
  ASSUME LedgerTyped, NEW vals, Fuses!Readable(vals), NEW at \in Fuses!Time, NEW id,
         NEW p, Sound(p), NEW more \in Nat, more >= Fuses!Room(p)
  PROVE  Fuses!ReadableTrip(Fuses!TripOf(id, at, vals, p, more))
<1> DEFINE t == Fuses!TripOf(id, at, vals, p, more)
           held == Fuses!Reserved
           length == Fuses!Cooldown(vals)
<1>1. /\ t.start = at /\ t.until = at + length /\ t.rule = p.rule /\ t.window = p.window
      /\ t.limit = p.limit /\ t.projected = p.spent + held + more
  BY DEF Fuses!TripOf, Fuses!Stored
<1>2. length \in 1..MaxCooldown /\ MaxCooldown \in Nat /\ at \in Int
  BY CooldownFits, FuseConstants DEF Fuses!FuseAssumption, Fuses!Time
<1>3. held \in Nat /\ more >= p.limit - p.spent - held
  BY ReservedIsNat DEF Fuses!Room
<1>4. p.limit \in Nat /\ p.limit >= 1 /\ p.spent \in Nat
  BY DEF Sound
<1> HIDE DEF t, held, length
<1>5. t.start < t.until /\ t.until - t.start <= MaxCooldown
  BY <1>1, <1>2
<1>6. t.projected >= t.limit /\ t.limit >= 1
  BY <1>1, <1>3, <1>4
<1>7. \/ t.rule = "hourly" /\ t.window = Hour
      \/ t.rule = "burst" /\ Fuses!RollingWindow(t.window)
      \/ t.rule = "baseline" /\ Fuses!Slot(t.window)
  BY <1>1 DEF Sound
<1> QED
  BY <1>5, <1>6, <1>7 DEF Fuses!ReadableTrip, t

LEMMA FanoutIsReadable ==
  ASSUME LedgerTyped, NEW vals, Fuses!Readable(vals), RulesInv(vals), NEW at \in Fuses!Time, NEW id,
         NEW t \in Fuses!TripsOfFanout(id, at, vals)
  PROVE  Fuses!ReadableTrip(t)
<1>1. PICK v \in vals["fanout"] :
        /\ Fuses!Fanned(v, at) >= v.limit
        /\ t = Fuses!Stored(id, at, vals, "fanout", v.window, v.limit, Fuses!Fanned(v, at) + 1)
  BY DEF Fuses!TripsOfFanout
<1> DEFINE length == Fuses!Cooldown(vals)
           fanned == Fuses!Fanned(v, at)
<1>2. length \in 1..MaxCooldown /\ MaxCooldown \in Nat /\ at \in Int
  BY CooldownFits, FuseConstants DEF Fuses!FuseAssumption, Fuses!Time
<1>3. v.limit \in 1..MaxFanout /\ Fuses!RollingWindow(v.window) /\ MaxFanout \in Nat
  BY FuseConstants DEF Fuses!FuseAssumption, RulesInv, Fuses!RuleKey, Fuses!ReadableRule,
     Fuses!ReadableFanout
<1>4. fanned \in Nat
  <2>1. Fuses!Total(calls, Fuses!RollingStart(at, v.window)) \in Nat
    BY TotalIsNat DEF LedgerTyped
  <2> QED
    BY <2>1, ReservedIsNat DEF Fuses!Fanned
<1>5. /\ t.start = at /\ t.until = at + length /\ t.rule = "fanout" /\ t.window = v.window
      /\ t.limit = v.limit /\ t.projected = fanned + 1
  BY <1>1 DEF Fuses!Stored
<1>6. fanned >= v.limit
  BY <1>1
<1> HIDE DEF length, fanned
<1>7. t.start < t.until /\ t.until - t.start <= MaxCooldown
  BY <1>2, <1>5
<1>8. t.projected >= t.limit /\ t.limit >= 1 /\ t.limit <= MaxFanout
  BY <1>3, <1>4, <1>5, <1>6
<1>9. Fuses!RollingWindow(t.window)
  BY <1>3, <1>5
<1> QED
  BY <1>5, <1>7, <1>8, <1>9 DEF Fuses!ReadableTrip

LEMMA TripIsReadable ==
  ASSUME LedgerTyped, NEW g, g.at \in Fuses!Time, Fuses!Readable(g.vals), RulesInv(g.vals),
         g.ask \in Ask, NEW t \in Fuses!Trips(g)
  PROVE  Fuses!ReadableTrip(t)
<1> DEFINE ps == Fuses!Positions(g.vals, g.at)
           T == Counted(g.vals, g.at)
<1>1. ps \in Seq(T) /\ Len(ps) \in 0..3
  BY PositionsShape
<1>2. \A p \in T : Sound(p)
  BY CountedAreSound
<1>3. CASE \E p \in Fuses!FirstFull(ps) : t = Fuses!TripOf(g.id, g.at, g.vals, p, 0)
  <2>1. PICK p \in Fuses!FirstFull(ps) : t = Fuses!TripOf(g.id, g.at, g.vals, p, 0)
    BY <1>3
  <2> HIDE DEF ps, T
  <2>2. p \in T /\ Fuses!Room(p) <= 0
    BY <1>1, FirstFullShape
  <2>3. Fuses!Room(p) \in Int
    BY <1>2, <2>2, ReservedIsNat DEF Fuses!Room, Sound
  <2>4. 0 >= Fuses!Room(p)
    BY <2>2, <2>3
  <2> QED
    BY <1>2, <2>1, <2>2, <2>4, TripOfIsReadable
<1>4. CASE t \in Fuses!TripsOfFanout(g.id, g.at, g.vals)
  BY <1>4, FanoutIsReadable
<1>5. CASE g.ask > 0 /\ \E p \in Fuses!FirstCrossed(ps, g.ask) :
             t = Fuses!TripOf(g.id, g.at, g.vals, p, g.ask)
  <2>1. PICK p \in Fuses!FirstCrossed(ps, g.ask) :
          t = Fuses!TripOf(g.id, g.at, g.vals, p, g.ask)
    BY <1>5
  <2>2. \E i \in DOMAIN ps : p = ps[i] /\ g.ask > Fuses!Room(p)
    BY <2>1 DEF Fuses!FirstCrossed, Fuses!FirstOf
  <2> HIDE DEF ps, T
  <2>3. p \in T /\ g.ask > Fuses!Room(p)
    BY <1>1, <2>2
  <2>4. g.ask \in Nat
    <3>1. g.ask > 0
      BY <1>5
    <3>2. g.ask \in Nat \cup {Fuses!Unbounded}
      BY FuseConstants DEF Fuses!FuseAssumption
    <3> QED
      BY <3>1, <3>2 DEF Fuses!Unbounded
  <2>5. Fuses!Room(p) \in Int
    BY <1>2, <2>3, ReservedIsNat DEF Fuses!Room, Sound
  <2>6. g.ask >= Fuses!Room(p)
    BY <2>3, <2>4, <2>5
  <2> QED
    BY <1>2, <2>1, <2>3, <2>4, <2>6, TripOfIsReadable
<1>6. \/ \E p \in Fuses!FirstFull(ps) : t = Fuses!TripOf(g.id, g.at, g.vals, p, 0)
      \/ t \in Fuses!TripsOfFanout(g.id, g.at, g.vals)
      \/ g.ask > 0 /\ \E p \in Fuses!FirstCrossed(ps, g.ask) :
           t = Fuses!TripOf(g.id, g.at, g.vals, p, g.ask)
  BY DEF Fuses!Trips
<1> QED
  BY <1>3, <1>4, <1>5, <1>6

\* An admission that trips nothing has room in each rule it counts.
LEMMA UntrippedHasRoom ==
  ASSUME LedgerTyped, NEW g, RulesInv(g.vals), Fuses!Trips(g) = {}
  PROVE  Fuses!Headroom(Fuses!Positions(g.vals, g.at)) \in Nat
<1> DEFINE ps == Fuses!Positions(g.vals, g.at)
           T == Counted(g.vals, g.at)
<1>1. ps \in Seq(T) /\ Len(ps) \in 0..3
  BY PositionsShape
<1>2. \A p \in T : Sound(p)
  BY CountedAreSound
<1>3. Fuses!FirstFull(ps) = {}
  BY DEF Fuses!Trips
<1> HIDE DEF ps, T
<1>4. \A i \in DOMAIN ps : ~(Fuses!Room(ps[i]) <= 0)
  BY <1>1, <1>3, FirstFullShape
<1>5. ASSUME NEW i \in DOMAIN ps
      PROVE  Fuses!Room(ps[i]) \in Int /\ Fuses!Room(ps[i]) > 0
  <2>1. ps[i] \in T
    BY <1>1
  <2>2. Fuses!Room(ps[i]) \in Int
    BY <1>2, <2>1, ReservedIsNat DEF Fuses!Room, Sound
  <2> QED
    BY <1>4, <2>2
<1>6. Fuses!Headroom(ps) \in Nat
  BY <1>1, <1>5, HeadroomIsNat
<1> QED
  BY <1>6 DEF ps

-----------------------------------------------------------------------------
(* Steps.                                                                  *)

\* A field that is accepted leaves its rule readable.
LEMMA FieldRules ==
  ASSUME NEW w \in Field, w[1] \in Fuses!RuleKey, Fuses!Valid(w)
  PROVE  /\ w[2] \subseteq Fuses!Rule
         /\ \A v, u \in w[2] : v = u /\ Fuses!ReadableRule(w[1], v)
<1>1. \A v \in w[2] : Fuses!ReadableRule(w[1], v)
  BY DEF Fuses!Valid
<1>2. CASE w \in {<<key, {}>> : key \in Fuses!Key \cup {"marks"}}
  <2>1. w[2] = {}
    BY <1>2
  <2> QED
    BY <2>1
<1>3. ASSUME NEW fields \in Change, NEW i \in DOMAIN fields, w = fields[i]
      PROVE  w[2] \subseteq Fuses!Rule /\ \A v, u \in w[2] : v = u
  BY <1>3, FuseConstants DEF Fuses!FuseAssumption
<1> QED
  BY <1>1, <1>2, <1>3 DEF Field

\* The rules stay what they are when only the trip changes.
LEMMA TripLeavesRules ==
  ASSUME DOMAIN setting = Fuses!Key, RulesInv(setting), NEW S,
         setting' = [setting EXCEPT !["trip"] = S]
  PROVE  RulesInv(setting')
<1>1. \A key \in Fuses!RuleKey : setting'[key] = setting[key]
  BY DEF Fuses!RuleKey, Fuses!Key
<1> QED
  BY <1>1 DEF RulesInv

LEMMA ControlsMove ==
  ASSUME ControlsInv, LedgerTyped', UNCHANGED setting,
         UNCHANGED guard \/ guard' = Fuses!NoAdmission
  PROVE  ControlsInv'
BY DEF ControlsInv, RulesInv, Fuses!NoAdmission

LEMMA ChecksControls ==
  ASSUME ControlsInv, NEW at, NEW ask \in Ask, Fuses!Checks(at, ask)
  PROVE  ControlsInv'
<1>1. /\ guard' = [step |-> "read", id |-> checks + 1, at |-> at, ask |-> ask, vals |-> setting]
      /\ UNCHANGED <<usd, calls, median, live, setting>>
  BY DEF Fuses!Checks, Fuses!ledgerVars
<1>2. LedgerTyped'
  BY <1>1 DEF ControlsInv, LedgerTyped
<1>3. guard'.step = "read" /\ guard'.vals = setting /\ guard'.ask = ask
  BY <1>1
<1> QED
  BY <1>1, <1>2, <1>3 DEF ControlsInv, RulesInv

LEMMA CrossesControls ==
  ASSUME IncidentInv, ControlsInv, Fuses!Crosses
  PROVE  ControlsInv'
<1>1. /\ guard.step = "read" /\ Fuses!Readable(guard.vals)
      /\ UNCHANGED <<usd, calls, median, live, setting>>
  BY DEF Fuses!Crosses, Fuses!ledgerVars
<1>2. PICK t \in Fuses!Trips(guard) : guard' = [step |-> "prune", trip |-> t]
  BY DEF Fuses!Crosses
<1>3. guard.at \in Fuses!Time
  BY <1>1 DEF IncidentInv, AdmissionInv, Fuses!NoAdmission
<1>4. Fuses!ReadableTrip(t)
  BY <1>1, <1>3, TripIsReadable DEF ControlsInv
<1>5. LedgerTyped'
  BY <1>1 DEF ControlsInv, LedgerTyped
<1>6. guard'.step = "prune" /\ guard'.trip = t
  BY <1>2
<1> QED
  BY <1>1, <1>4, <1>5, <1>6 DEF ControlsInv, RulesInv

LEMMA AdmitsControls ==
  ASSUME IncidentInv, ControlsInv, Fuses!Admits
  PROVE  ControlsInv'
<1> DEFINE ps == Fuses!Positions(guard.vals, guard.at)
           amount == IF ps = <<>> THEN 0
                     ELSE IF guard.ask = Fuses!Unbounded THEN Fuses!Headroom(ps) ELSE guard.ask
<1>1. /\ guard.step = "read" /\ Fuses!Trips(guard) = {}
      /\ live' = live \cup {[id |-> guard.id, at |-> guard.at, amount |-> amount]}
      /\ guard' = Fuses!NoAdmission /\ UNCHANGED <<usd, calls, median, setting>>
  BY DEF Fuses!Admits, Fuses!ledgerVars
<1>2. Fuses!Headroom(ps) \in Nat
  BY <1>1, UntrippedHasRoom DEF ControlsInv
<1>3. guard.ask \in Nat \cup {Fuses!Unbounded}
  BY <1>1, FuseConstants DEF ControlsInv, Fuses!FuseAssumption
<1>4. amount \in Nat
  BY <1>2, <1>3
<1> DEFINE c == [id |-> guard.id, at |-> guard.at, amount |-> amount]
<1>5. guard.at \in Fuses!Time
  BY <1>1 DEF IncidentInv, AdmissionInv, Fuses!NoAdmission
<1>6. c.at \in Fuses!Time /\ c.amount \in Nat
  BY <1>4, <1>5
<1>7. live' = live \cup {c}
  BY <1>1
<1> HIDE DEF amount, c
<1>8. LedgerTyped'
  <2>1. IsFiniteSet(live')
    BY <1>7, FS_AddElement DEF ControlsInv, LedgerTyped
  <2> QED
    BY <1>1, <1>6, <1>7, <2>1 DEF ControlsInv, LedgerTyped
<1> QED
  BY <1>1, <1>8, ControlsMove

LEMMA WritesTripControls ==
  ASSUME IncidentInv, ControlsInv, Fuses!WritesTrip
  PROVE  ControlsInv'
<1>1. /\ guard.step = "write" /\ setting' = [setting EXCEPT !["trip"] = {guard.trip}]
      /\ guard' = Fuses!NoAdmission /\ UNCHANGED <<usd, calls, median, live>>
  BY DEF Fuses!WritesTrip, Fuses!ledgerVars
<1>2. setting'["trip"] = {guard.trip} /\ DOMAIN setting = Fuses!Key
  BY <1>1 DEF IncidentInv, FuseTypeInv, Fuses!Key
<1>3. Fuses!ReadableTrip(guard.trip)
  BY <1>1 DEF ControlsInv
<1>4. LedgerTyped'
  BY <1>1 DEF ControlsInv, LedgerTyped
<1>5. RulesInv(setting')
  BY <1>1, <1>2, TripLeavesRules DEF ControlsInv
<1> QED
  BY <1>1, <1>2, <1>3, <1>4, <1>5 DEF ControlsInv, RulesInv, Fuses!NoAdmission

LEMMA SettlesControls ==
  ASSUME ControlsInv, NEW c \in live,
         Fuses!Released(c) \/ \E cost \in FuseCost : Fuses!Settles(c, cost)
  PROVE  ControlsInv'
<1>1. live' = live \ {c} /\ UNCHANGED <<setting, guard, median>>
  BY DEF Fuses!Released, Fuses!Settles, Fuses!ledgerVars
<1>2. usd' \in [Fuses!Time -> Nat] /\ calls' \in [Fuses!Time -> Nat]
  <2>1. CASE Fuses!Released(c)
    BY <2>1 DEF Fuses!Released, Fuses!ledgerVars, ControlsInv, LedgerTyped
  <2>2. ASSUME NEW cost \in FuseCost, Fuses!Settles(c, cost)
        PROVE  usd' \in [Fuses!Time -> Nat] /\ calls' \in [Fuses!Time -> Nat]
    <3>1. cost \in Nat /\ c.at \in Fuses!Time
      BY FuseConstants DEF Fuses!FuseAssumption, ControlsInv, LedgerTyped
    <3>2. usd[c.at] + cost \in Nat /\ calls[c.at] + 1 \in Nat
      BY <3>1 DEF ControlsInv, LedgerTyped
    <3> QED
      BY <2>2, <3>1, <3>2 DEF Fuses!Settles, ControlsInv, LedgerTyped
  <2> QED
    BY <2>1, <2>2
<1>3. IsFiniteSet(live')
  BY <1>1, FS_RemoveElement DEF ControlsInv, LedgerTyped
<1>4. LedgerTyped'
  BY <1>1, <1>2, <1>3 DEF ControlsInv, LedgerTyped
<1> QED
  BY <1>1, <1>4, ControlsMove

LEMMA StoresControls ==
  ASSUME IncidentInv, ControlsInv, NEW x \in Fuses!Surface, Fuses!Stores(x)
  PROVE  ControlsInv'
<1>1. PICK w \in Field :
        /\ Fuses!Valid(w)
        /\ \/ w[1] = "marks" /\ UNCHANGED setting
           \/ w[1] # "marks" /\ setting' = [setting EXCEPT ![w[1]] = w[2]]
        /\ UNCHANGED guard
  BY StoresShape
<1>2. LedgerTyped'
  BY DEF Fuses!Stores, Fuses!ledgerVars, Fuses!serverVars, ControlsInv, LedgerTyped
<1>3. CASE UNCHANGED setting
  BY <1>1, <1>2, <1>3, ControlsMove
<1>4. CASE w[1] = "trip" /\ setting' = [setting EXCEPT ![w[1]] = w[2]]
  <2>1. setting' = [setting EXCEPT !["trip"] = {}] /\ DOMAIN setting = Fuses!Key
    BY <1>4, FieldShape DEF IncidentInv, FuseTypeInv
  <2>2. RulesInv(setting')
    BY <2>1, TripLeavesRules DEF ControlsInv
  <2>3. setting'["trip"] = {}
    BY <2>1 DEF Fuses!Key
  <2> QED
    BY <1>1, <1>2, <2>2, <2>3 DEF ControlsInv, RulesInv
<1>5. CASE w[1] \in Fuses!RuleKey /\ setting' = [setting EXCEPT ![w[1]] = w[2]]
  <2>1. /\ w[2] \subseteq Fuses!Rule
        /\ \A v, u \in w[2] : v = u /\ Fuses!ReadableRule(w[1], v)
    BY <1>1, <1>5, FieldRules
  <2>2. /\ DOMAIN setting = Fuses!Key /\ setting'[w[1]] = w[2]
        /\ \A key \in Fuses!Key \ {w[1]} : setting'[key] = setting[key]
    BY <1>5 DEF IncidentInv, FuseTypeInv, Fuses!Key
  <2>3. RulesInv(setting')
    BY <2>1, <2>2 DEF ControlsInv, RulesInv, Fuses!Key
  <2>4. setting'["trip"] = setting["trip"]
    BY <1>5, <2>2 DEF Fuses!RuleKey, Fuses!Key
  <2> QED
    BY <1>1, <1>2, <2>3, <2>4 DEF ControlsInv, RulesInv
<1> QED
  BY <1>1, <1>3, <1>4, <1>5, FieldShape

LEMMA ControlsStep ==
  ASSUME IncidentInv, ControlsInv, [Fuses!Next]_Fuses!vars
  PROVE  ControlsInv'
<1> USE DEF Fuses!ledgerVars, Fuses!serverVars, Fuses!commandVars
<1>1. ASSUME UNCHANGED <<usd, calls, median, setting>>, UNCHANGED live \/ live' = {},
             UNCHANGED guard \/ guard' = Fuses!NoAdmission
      PROVE  ControlsInv'
  <2>1. LedgerTyped'
    BY <1>1, FS_EmptySet DEF ControlsInv, LedgerTyped
  <2> QED
    BY <1>1, <2>1, ControlsMove
<1>2. CASE Fuses!Tick \/ Fuses!RefusedByTrip \/ Fuses!RefusedElsewhere \/ Fuses!TripFails
  BY <1>1, <1>2
  DEF Fuses!Tick, Fuses!RefusedByTrip, Fuses!RefusedElsewhere, Fuses!TripFails
<1>3. CASE Fuses!Prunes
  <2>1. guard.step = "prune" /\ guard' = [guard EXCEPT !.step = "write"]
    BY <1>3 DEF Fuses!Prunes
  <2>2. guard = [step |-> guard.step, trip |-> guard.trip]
    BY <2>1 DEF IncidentInv, AdmissionInv, Fuses!NoAdmission
  <2>3. guard'.step = "write" /\ guard'.trip = guard.trip
    BY <2>1, <2>2
  <2> QED
    BY <1>3, <2>1, <2>3 DEF Fuses!Prunes, ControlsInv, LedgerTyped, RulesInv
<1>4. CASE Fuses!Restarts
  BY <1>1, <1>4 DEF Fuses!Restarts
<1>5. ASSUME NEW d, Fuses!Announces(d) \/ Fuses!KeepsSilent(d)
      PROVE  ControlsInv'
  BY <1>1, <1>5 DEF Fuses!Announces, Fuses!KeepsSilent
<1>6. ASSUME NEW fields,
             Fuses!SetByCLI(fields) \/ Fuses!SetByWeb(fields) \/ Fuses!RefusedByCLI(fields)
      PROVE  ControlsInv'
  BY <1>1, <1>6 DEF Fuses!SetByCLI, Fuses!SetByWeb, Fuses!RefusedByCLI, Fuses!Begins
<1>7. ASSUME NEW x, Fuses!Off(x) \/ Fuses!Reset(x) \/ Fuses!Ends(x)
      PROVE  ControlsInv'
  BY <1>1, <1>7 DEF Fuses!Off, Fuses!Reset, Fuses!Begins, Fuses!Ends
<1>8. CASE Fuses!RefusedByWeb \/ UNCHANGED Fuses!vars
  BY <1>1, <1>8 DEF Fuses!RefusedByWeb, Fuses!vars
<1> QED
  BY <1>2, <1>3, <1>4, <1>5, <1>6, <1>7, <1>8, ChecksControls, CrossesControls, AdmitsControls,
     WritesTripControls, SettlesControls, StoresControls
  DEF Fuses!Next

LEMMA ControlsInit == Fuses!Init => ControlsInv
<1> SUFFICES ASSUME Fuses!Init PROVE ControlsInv
  OBVIOUS
<1> USE DEF Fuses!Init
<1>1. LedgerTyped
  BY FuseConstants, FS_EmptySet DEF LedgerTyped, Fuses!FuseAssumption
<1>2. PICK r \in InitRules : setting = [key \in Fuses!Key |-> IF key = "trip" THEN {} ELSE r[key]]
  OBVIOUS
<1>3. setting["trip"] = {} /\ \A key \in Fuses!RuleKey : setting[key] = r[key]
  BY <1>2 DEF Fuses!Key, Fuses!RuleKey
<1>4. RulesInv(setting)
  BY <1>3, FuseConstants DEF RulesInv, Fuses!FuseAssumption
<1> QED
  BY <1>1, <1>3, <1>4 DEF ControlsInv, Fuses!NoAdmission

\* Whatever operators and the guard store, in whatever order their writes fall
\* and wherever one of them stops, the guard reads it back: a rule as the
\* surface checked it, a trip as the guard computed it from the ledger.
THEOREM ControlsAreReadable == Fuses!Spec => []GuardIsNeverWedged
<1>1. IncidentInv /\ ControlsInv => GuardIsNeverWedged
  BY DEF ControlsInv, RulesInv, GuardIsNeverWedged, Fuses!GuardIsNeverWedged, Fuses!Readable
<1>2. Fuses!Init => IncidentInv /\ ControlsInv
  BY IncidentInit, ControlsInit
<1>3. IncidentInv /\ ControlsInv /\ [Fuses!Next]_Fuses!vars => (IncidentInv /\ ControlsInv)'
  BY IncidentStep, ControlsStep
<1> QED
  BY <1>1, <1>2, <1>3, PTL DEF Fuses!Spec

-----------------------------------------------------------------------------
(* Fuses: the status foretells the guard.                                  *)

\* The status shows that nothing is left exactly when nothing is.
LEMMA LeftShape ==
  \A limit, spent \in Int : Fuses!Left(limit, spent) = 0 <=> limit - spent <= 0
<1> SUFFICES ASSUME NEW limit \in Int, NEW spent \in Int
             PROVE  Fuses!Left(limit, spent) = 0 <=> limit - spent <= 0
  OBVIOUS
<1> DEFINE rest == limit - spent
           m == Fuses!Max({0, rest})
<1>1. rest \in Int /\ 0 \in Int
  OBVIOUS
<1>2. Fuses!Left(limit, spent) = m
  BY DEF Fuses!Left
<1>3. (m = 0 \/ m = rest) /\ 0 <= m /\ rest <= m
  <2> HIDE DEF rest
  <2> QED
    BY <1>1, GreaterOfTwo, Zenon
<1>4. m = 0 <=> rest <= 0
  <2> HIDE DEF rest, m
  <2> QED
    BY <1>1, <1>3
<1> HIDE DEF m
<1> QED
  BY <1>2, <1>4

\* While nothing is in flight nothing is reserved.
LEMMA NothingReserved ==
  ASSUME live = {}
  PROVE  Fuses!Reserved = 0 /\ Fuses!Cardinality(live) = 0
<1>1. \A f : SumOf(f, {}) = 0
  BY SumEmpty
<1>2. Cardinality(live) = 0
  BY FS_EmptySet
<1> QED
  BY <1>1, <1>2, SameSums DEF Fuses!Reserved

\* The rules of which the status shows that nothing is left are those the guard
\* finds full.
LEMMA StatusShowsFull ==
  ASSUME LedgerTyped, RulesInv(setting), live = {}
  PROVE  0 \in Fuses!Status(setting, clock).rules
           <=> \E p \in Counted(setting, clock) : Fuses!Room(p) <= 0
<1> DEFINE full(p) == Fuses!Room(p) <= 0
           spent(from) == Fuses!Total(usd, from)
<1>1. /\ \A from : spent(from) \in Nat
      /\ \A p : Fuses!Room(p) = p.limit - p.spent - 0
  BY TotalIsNat, NothingReserved DEF LedgerTyped, Fuses!Room
<1>2. /\ \A v \in setting["burst"] : v.limit \in Nat
      /\ \A v \in setting["hourly"] : v.limit \in Nat
      /\ \A v \in setting["baseline"] : v.limit \in Nat /\ v.times \in Nat
  BY DEF RulesInv, Fuses!RuleKey, Fuses!Rule
<1>3. \A v \in setting["baseline"] : Fuses!StatusLimit(v) \in Int
  <2> SUFFICES ASSUME NEW v \in setting["baseline"] PROVE Fuses!StatusLimit(v) \in Int
    OBVIOUS
  <2> DEFINE k == median * v.times
  <2>1. k \in Int /\ v.limit \in Int
    BY <1>2 DEF LedgerTyped
  <2> HIDE DEF k
  <2>2. Fuses!Max({v.limit, k}) = v.limit \/ Fuses!Max({v.limit, k}) = k
    BY <2>1, GreaterOfTwo, Zenon
  <2>3. Fuses!StatusLimit(v) = Fuses!Max({v.limit, k})
    BY DEF Fuses!StatusLimit, k
  <2> QED
    BY <2>1, <2>2, <2>3
<1> HIDE DEF full, spent
<1>4. (\E p \in Bursts(setting, clock) : full(p))
        <=> \E v \in setting["burst"] : Fuses!Left(v.limit, spent(clock - v.window)) = 0
  <2> DEFINE pos(v) == Fuses!Position("burst", v, v.limit, Fuses!RollingStart(clock, v.window))
  <2>1. \A v \in setting["burst"] :
          full(pos(v)) <=> Fuses!Left(v.limit, spent(clock - v.window)) = 0
    <3> SUFFICES ASSUME NEW v \in setting["burst"]
                 PROVE  full(pos(v)) <=> Fuses!Left(v.limit, spent(clock - v.window)) = 0
      OBVIOUS
    <3>1. pos(v).limit = v.limit /\ pos(v).spent = spent(clock - v.window)
      BY DEF Fuses!Position, Fuses!RollingStart, spent
    <3>2. v.limit \in Int /\ spent(clock - v.window) \in Int
      BY <1>1, <1>2
    <3> HIDE DEF pos
    <3>3. full(pos(v)) <=> v.limit - spent(clock - v.window) <= 0
      BY <1>1, <3>1, <3>2 DEF full
    <3> QED
      BY <3>2, <3>3, LeftShape
  <2>2. Bursts(setting, clock) = {pos(v) : v \in setting["burst"]}
    BY DEF Bursts
  <2> HIDE DEF pos
  <2> QED
    BY <2>1, <2>2
<1>5. (\E p \in Hourlies(setting, clock) : full(p))
        <=> \E v \in setting["hourly"] : Fuses!Left(v.limit, spent(clock - Hour)) = 0
  <2> DEFINE pos(v) == Fuses!Position("hourly", v, v.limit, Fuses!RollingStart(clock, Hour))
  <2>1. \A v \in setting["hourly"] :
          full(pos(v)) <=> Fuses!Left(v.limit, spent(clock - Hour)) = 0
    <3> SUFFICES ASSUME NEW v \in setting["hourly"]
                 PROVE  full(pos(v)) <=> Fuses!Left(v.limit, spent(clock - Hour)) = 0
      OBVIOUS
    <3>1. pos(v).limit = v.limit /\ pos(v).spent = spent(clock - Hour)
      BY DEF Fuses!Position, Fuses!RollingStart, spent
    <3>2. v.limit \in Int /\ spent(clock - Hour) \in Int
      BY <1>1, <1>2
    <3> HIDE DEF pos
    <3>3. full(pos(v)) <=> v.limit - spent(clock - Hour) <= 0
      BY <1>1, <3>1, <3>2 DEF full
    <3> QED
      BY <3>2, <3>3, LeftShape
  <2>2. Hourlies(setting, clock) = {pos(v) : v \in setting["hourly"]}
    BY DEF Hourlies
  <2> HIDE DEF pos
  <2> QED
    BY <2>1, <2>2
<1>6. (\E p \in Baselines(setting, clock) : full(p))
        <=> \E v \in setting["baseline"] :
              Fuses!Left(Fuses!StatusLimit(v), spent(clock - (clock % v.window))) = 0
  <2> DEFINE pos(v) == Fuses!Position("baseline", v, Fuses!StatusLimit(v),
                                      Fuses!SlotStart(clock, v.window))
             from(v) == clock - (clock % v.window)
  <2>1. \A v \in setting["baseline"] :
          full(pos(v)) <=> Fuses!Left(Fuses!StatusLimit(v), spent(from(v))) = 0
    <3> SUFFICES ASSUME NEW v \in setting["baseline"]
                 PROVE  full(pos(v)) <=> Fuses!Left(Fuses!StatusLimit(v), spent(from(v))) = 0
      OBVIOUS
    <3>1. pos(v).limit = Fuses!StatusLimit(v) /\ pos(v).spent = spent(from(v))
      BY DEF Fuses!Position, Fuses!SlotStart, spent
    <3>2. Fuses!StatusLimit(v) \in Int /\ spent(from(v)) \in Int
      BY <1>1, <1>3
    <3> HIDE DEF pos, from
    <3>3. full(pos(v)) <=> Fuses!StatusLimit(v) - spent(from(v)) <= 0
      BY <1>1, <3>1, <3>2 DEF full
    <3> QED
      BY <3>2, <3>3, LeftShape
  <2>2. Baselines(setting, clock) = {pos(v) : v \in setting["baseline"]}
    BY DEF Baselines, Fuses!StatusLimit
  <2> HIDE DEF pos
  <2> QED
    BY <2>1, <2>2
<1>7. 0 \in Fuses!Status(setting, clock).rules
        <=> \/ \E v \in setting["burst"] : Fuses!Left(v.limit, spent(clock - v.window)) = 0
            \/ \E v \in setting["hourly"] : Fuses!Left(v.limit, spent(clock - Hour)) = 0
            \/ \E v \in setting["baseline"] :
                 Fuses!Left(Fuses!StatusLimit(v), spent(clock - (clock % v.window))) = 0
  BY DEF Fuses!Status, spent
<1>8. (\E p \in Counted(setting, clock) : full(p))
        <=> \/ \E p \in Bursts(setting, clock) : full(p)
            \/ \E p \in Hourlies(setting, clock) : full(p)
            \/ \E p \in Baselines(setting, clock) : full(p)
  BY DEF Counted
<1> QED
  BY <1>4, <1>5, <1>6, <1>7, <1>8 DEF full

LEMMA StatusShowsFanout ==
  ASSUME LedgerTyped, RulesInv(setting), live = {}, NEW id
  PROVE  0 \in Fuses!Status(setting, clock).fanout
           <=> Fuses!TripsOfFanout(id, clock, setting) # {}
<1> DEFINE sent(v) == Fuses!Total(calls, clock - v.window)
<1>1. \A v \in setting["fanout"] : Fuses!Fanned(v, clock) = sent(v) + 0
  BY NothingReserved DEF Fuses!Fanned, Fuses!RollingStart
<1>2. \A v \in setting["fanout"] : v.limit \in Int /\ sent(v) \in Int
  BY TotalIsNat DEF LedgerTyped, RulesInv, Fuses!RuleKey, Fuses!Rule
<1>3. 0 \in Fuses!Status(setting, clock).fanout
        <=> \E v \in setting["fanout"] : Fuses!Left(v.limit, sent(v)) = 0
  BY DEF Fuses!Status
<1>4. Fuses!TripsOfFanout(id, clock, setting) # {}
        <=> \E v \in setting["fanout"] : Fuses!Fanned(v, clock) >= v.limit
  BY DEF Fuses!TripsOfFanout
<1> HIDE DEF sent
<1>5. \A v \in setting["fanout"] :
        Fuses!Left(v.limit, sent(v)) = 0 <=> Fuses!Fanned(v, clock) >= v.limit
  BY <1>1, <1>2, LeftShape
<1> QED
  BY <1>3, <1>4, <1>5

\* What the guard would do is what the status says, whatever rules are set and
\* whatever the ledger holds: the two computations agree.
THEOREM StatusForetells == Fuses!Spec => []StatusForetellsTheGuard
<1>1. ASSUME IncidentInv, ControlsInv PROVE StatusForetellsTheGuard
  <2> DEFINE free == [id |-> 0, at |-> clock, ask |-> 0, vals |-> setting]
             ps == Fuses!Positions(setting, clock)
             T == Counted(setting, clock)
             status == Fuses!Status(setting, clock)
  <2> SUFFICES ASSUME live = {}
               PROVE  (Fuses!LiveTrip(setting, clock) # {} \/ Fuses!Trips(free) # {})
                        <=> (status.tripped \/ 0 \in status.rules \cup status.fanout)
    BY DEF StatusForetellsTheGuard, Fuses!StatusForetellsTheGuard
  <2>1. LedgerTyped /\ RulesInv(setting)
    BY <1>1 DEF ControlsInv
  <2>2. Fuses!LiveTrip(setting, clock) # {} <=> status.tripped
    BY DEF Fuses!LiveTrip, Fuses!Status
  <2>3. Fuses!Trips(free) # {}
          <=> Fuses!FirstFull(ps) # {} \/ Fuses!TripsOfFanout(0, clock, setting) # {}
    <3>1. free.id = 0 /\ free.at = clock /\ free.ask = 0 /\ free.vals = setting
      OBVIOUS
    <3> HIDE DEF free
    <3> QED
      BY <3>1 DEF Fuses!Trips
  <2>4. Fuses!FirstFull(ps) # {} <=> \E p \in T : Fuses!Room(p) <= 0
    <3>1. ps \in Seq(T) /\ Len(ps) \in 0..3 /\ \A p \in T : \E i \in DOMAIN ps : ps[i] = p
      BY <2>1, PositionsShape
    <3> HIDE DEF ps, T
    <3>2. Fuses!FirstFull(ps) # {} <=> \E i \in DOMAIN ps : Fuses!Room(ps[i]) <= 0
      BY <3>1, FirstFullShape
    <3>3. \A i \in DOMAIN ps : ps[i] \in T
      BY <3>1
    <3> QED
      BY <3>1, <3>2, <3>3
  <2>5. 0 \in status.rules <=> \E p \in T : Fuses!Room(p) <= 0
    BY <2>1, StatusShowsFull
  <2>6. 0 \in status.fanout <=> Fuses!TripsOfFanout(0, clock, setting) # {}
    BY <2>1, StatusShowsFanout
  <2> HIDE DEF free, ps, T, status
  <2> QED
    BY <2>2, <2>3, <2>4, <2>5, <2>6
<1>2. Fuses!Init => IncidentInv /\ ControlsInv
  BY IncidentInit, ControlsInit
<1>3. IncidentInv /\ ControlsInv /\ [Fuses!Next]_Fuses!vars => (IncidentInv /\ ControlsInv)'
  BY IncidentStep, ControlsStep
<1> QED
  BY <1>1, <1>2, <1>3, PTL DEF Fuses!Spec

-----------------------------------------------------------------------------
(* Metering: which contract prices a call.                                 *)

\* A model and a version of it agree on the model's parts.
LEMMA MatchShape ==
  ASSUME NEW T, NEW a \in Seq(T), NEW b \in Seq(T)
  PROVE  Metering!ModelMatches(a, b) <=>
           \/ a = b
           \/ /\ Len(a) < Len(b) /\ \A i \in 1..Len(a) : a[i] = b[i]
              /\ b[Len(a) + 1] \in Version
<1> DEFINE n == Len(a)
           m == Len(b)
<1>1. n \in Nat /\ m \in Nat /\ DOMAIN a = 1..n /\ DOMAIN b = 1..m
  OBVIOUS
<1>2. Metering!IsPrefix(a, b) <=> n <= m /\ \A i \in 1..n : a[i] = b[i]
  <2>1. CASE n <= m
    <3>1. SubSeq(a, 1, n) = [i \in 1..n |-> a[i]] /\ SubSeq(b, 1, n) = [i \in 1..n |-> b[i]]
      BY <1>1, <2>1
    <3>2. SubSeq(a, 1, n) = SubSeq(b, 1, n) <=> \A i \in 1..n : a[i] = b[i]
      BY <3>1
    <3> QED
      BY <2>1, <3>2 DEF Metering!IsPrefix
  <2>2. CASE ~(n <= m)
    BY <2>2 DEF Metering!IsPrefix
  <2> QED
    BY <2>1, <2>2
<1>3. (\A i \in 1..n : a[i] = b[i]) /\ n = m => a = b
  BY <1>1
<1>4. a # b /\ n <= m /\ (\A i \in 1..n : a[i] = b[i]) => n < m
  <2> SUFFICES ASSUME a # b, n <= m, \A i \in 1..n : a[i] = b[i] PROVE n < m
    OBVIOUS
  <2>1. n # m
    BY <1>3
  <2> HIDE DEF n, m
  <2> QED
    BY <1>1, <2>1
<1>5. n < m => a # b
  BY <1>1
<1> QED
  BY <1>1, <1>2, <1>4, <1>5 DEF Metering!ModelMatches, Metering!IsStrictPrefix

\* Of two names that match one call, one matches the other.
LEMMA MatchersOverlap ==
  ASSUME NEW a, NEW b, NEW o, Metering!IsName(a), Metering!IsName(b), Metering!IsName(o),
         Metering!ModelMatches(a, o), Metering!ModelMatches(b, o)
  PROVE  Metering!ModelSelectorsOverlap(a, b)
<1> DEFINE Parts(x) == {x[i] : i \in DOMAIN x}
           T == Parts(a) \cup Parts(b) \cup Parts(o)
<1>1. a \in Seq(T) /\ b \in Seq(T) /\ o \in Seq(T)
  <2>1. a \in Seq(Parts(a)) /\ b \in Seq(Parts(b)) /\ o \in Seq(Parts(o))
    BY DEF Metering!IsName
  <2>2. Parts(a) \subseteq T /\ Parts(b) \subseteq T /\ Parts(o) \subseteq T
    OBVIOUS
  <2> HIDE DEF Parts, T
  <2> QED
    BY <2>1, <2>2
<1> HIDE DEF T
<1>2. \/ a = o
      \/ /\ Len(a) < Len(o) /\ \A i \in 1..Len(a) : a[i] = o[i]
         /\ o[Len(a) + 1] \in Version
  BY <1>1, MatchShape
<1>3. \/ b = o
      \/ /\ Len(b) < Len(o) /\ \A i \in 1..Len(b) : b[i] = o[i]
         /\ o[Len(b) + 1] \in Version
  BY <1>1, MatchShape
<1>4. Len(a) \in Nat /\ Len(b) \in Nat
  BY <1>1
<1>5. CASE a = o \/ b = o
  BY <1>5 DEF Metering!ModelSelectorsOverlap
<1>6. CASE a # o /\ b # o /\ Len(a) < Len(b)
  <2>1. \A i \in 1..Len(a) : a[i] = b[i]
    BY <1>2, <1>3, <1>4, <1>6
  <2>2. b[Len(a) + 1] \in Version
    BY <1>2, <1>3, <1>4, <1>6
  <2>3. Metering!ModelMatches(a, b)
    BY <1>1, <1>6, <2>1, <2>2, MatchShape
  <2> QED
    BY <2>3 DEF Metering!ModelSelectorsOverlap
<1>7. CASE a # o /\ b # o /\ Len(b) < Len(a)
  <2>1. \A i \in 1..Len(b) : b[i] = a[i]
    BY <1>2, <1>3, <1>4, <1>7
  <2>2. a[Len(b) + 1] \in Version
    BY <1>2, <1>3, <1>4, <1>7
  <2>3. Metering!ModelMatches(b, a)
    BY <1>1, <1>7, <2>1, <2>2, MatchShape
  <2> QED
    BY <2>3 DEF Metering!ModelSelectorsOverlap
<1>8. CASE a # o /\ b # o /\ Len(a) = Len(b)
  <2>1. a = b
    BY <1>1, <1>2, <1>3, <1>8
  <2> QED
    BY <2>1 DEF Metering!ModelSelectorsOverlap, Metering!ModelMatches
<1> QED
  BY <1>4, <1>5, <1>6, <1>7, <1>8

\* The contract that wins matches the call.
LEMMA WinnerMatches ==
  ASSUME NEW file, NEW T, file \in Seq(T), NEW call, NEW a \in Metering!WinnerIn(file, call)
  PROVE  \E i \in DOMAIN file :
           /\ a = file[i] /\ Metering!Winner(file, call) = i
           /\ Metering!ContractMatches(a, call.provider, call.model, call.region, call.tier, call.day)
<1> DEFINE Matches(i) == Metering!ContractMatches(file[i], call.provider, call.model, call.region,
                                                  call.tier, call.day)
           matching == {i \in DOMAIN file : Matches(i)}
           best == {i \in matching : \A j \in matching :
                      Metering!Specificity(file[j]) <= Metering!Specificity(file[i])}
           w == Metering!Winner(file, call)
<1>1. w = IF best = {} THEN 0 ELSE Metering!Min(best)
  BY DEF Metering!Winner
<1>2. w # 0 /\ a = file[w]
  BY DEF Metering!WinnerIn
<1>3. best \subseteq Nat /\ best # {}
  BY <1>1, <1>2
<1>4. best \subseteq {i \in DOMAIN file : Matches(i)}
  OBVIOUS
<1> HIDE DEF best, Matches
<1>5. Metering!Min(best) \in best
  BY <1>3, LeastOfNaturals DEF Metering!Min
<1>6. w \in DOMAIN file /\ Matches(w)
  BY <1>1, <1>3, <1>4, <1>5
<1> QED
  BY <1>2, <1>6 DEF Matches

\* Two contracts that match a call and name the same dimensions name the same
\* region and tier; a valid file has only one such contract for a day.
LEMMA OneContractInScope ==
  ASSUME NEW file \in File, Metering!ValidContracts(file), NEW call, call.day \in Nat,
         Metering!IsName(call.model), NEW i \in DOMAIN file, NEW j \in DOMAIN file,
         Metering!Scope(file[i]) = Metering!Scope(file[j]),
         Metering!ContractMatches(file[i], call.provider, call.model, call.region, call.tier, call.day),
         Metering!ContractMatches(file[j], call.provider, call.model, call.region, call.tier, call.day)
  PROVE  i = j
<1> DEFINE a == file[i]
           b == file[j]
<1>1. /\ Metering!IsName(a.model) /\ Metering!IsName(b.model)
      /\ a.from \in Nat /\ a.through \in Nat /\ b.from \in Nat /\ b.through \in Nat
  BY MeteringConstants DEF Metering!MeteringAssumption
<1> HIDE DEF a, b
<1>2. /\ Metering!ContractMatches(a, call.provider, call.model, call.region, call.tier, call.day)
      /\ Metering!ContractMatches(b, call.provider, call.model, call.region, call.tier, call.day)
      /\ Metering!Scope(a) = Metering!Scope(b)
  BY DEF a, b
<1>3. Metering!ModelSelectorsOverlap(a.model, b.model)
  BY <1>1, <1>2, MatchersOverlap DEF Metering!ContractMatches
<1>4. a.region = b.region /\ a.tier = b.tier
  <2>1. /\ a.region = Metering!Unscoped <=> b.region = Metering!Unscoped
        /\ a.tier = Metering!Unscoped <=> b.tier = Metering!Unscoped
    <3>1. \A c : /\ "region" \in Metering!Scope(c) <=> c.region # Metering!Unscoped
                 /\ "tier" \in Metering!Scope(c) <=> c.tier # Metering!Unscoped
      BY DEF Metering!Scope
    <3> QED
      BY <1>2, <3>1
  <2> QED
    BY <1>2, <2>1 DEF Metering!ContractMatches
<1>5. Metering!SameSelector(a, b)
  BY <1>2, <1>3, <1>4 DEF Metering!SameSelector, Metering!ContractMatches
<1>6. Metering!Specificity(a) = Metering!Specificity(b)
  BY <1>2 DEF Metering!Specificity, Metering!Scope
<1>7. Metering!RangesOverlap(a, b)
  BY <1>1, <1>2 DEF Metering!RangesOverlap, Metering!ContractMatches, Metering!InRange,
     Metering!Open
<1> QED
  BY <1>5, <1>6, <1>7 DEF Metering!ValidContracts, a, b

\* What a response or its request says is a call that contracts are looked up for.
LEMMA CallShape ==
  ASSUME req \in Request, NEW call \in Metering!CallsToPrice
  PROVE  call.day \in Nat /\ Metering!IsName(call.model)
<1>1. PICK s \in Served :
        call = Metering!Call(Metering!Labels(s).model, Metering!Labels(s).region,
                             Metering!Labels(s).tier, Metering!NoFinal)
  BY DEF Metering!CallsToPrice, Metering!CallToPrice
<1>2. Metering!IsName(req.model) /\ Metering!IsName(s.model) /\ req.day \in Nat
  BY MeteringConstants DEF Metering!MeteringAssumption
<1>3. Metering!IsName(Metering!Labels(s).model)
  BY <1>2 DEF Metering!Labels
<1> QED
  BY <1>1, <1>2, <1>3 DEF Metering!Call

LEMMA ReversedShape ==
  ASSUME NEW T, NEW file \in Seq(T)
  PROVE  /\ Metering!Reverse(file) \in Seq(T)
         /\ \A j \in DOMAIN Metering!Reverse(file) :
              \E i \in DOMAIN file : Metering!Reverse(file)[j] = file[i]
<1> DEFINE n == Len(file)
<1>1. n \in Nat /\ DOMAIN file = 1..n /\ \A i \in 1..n : file[i] \in T
  OBVIOUS
<1>2. Metering!Reverse(file) = [i \in 1..n |-> file[(n - i) + 1]]
  BY DEF Metering!Reverse
<1> HIDE DEF n
<1>3. \A i \in 1..n : (n - i) + 1 \in 1..n
  BY <1>1
<1>4. [i \in 1..n |-> file[(n - i) + 1]] \in Seq(T)
  BY <1>1, <1>3
<1> QED
  BY <1>1, <1>2, <1>3, <1>4

\* The contracts loaded are valid, and stay.
Loaded == table \in File /\ Metering!ValidContracts(table) /\ req \in Request

LEMMA LoadedIsNeutral ==
  ASSUME Loaded
  PROVE  OrderIsNeutralInScope
<1> SUFFICES ASSUME NEW call \in Metering!CallsToPrice,
                    NEW a \in Metering!WinnerIn(table, call),
                    NEW b \in Metering!WinnerIn(Metering!Reverse(table), call),
                    Metering!Scope(a) = Metering!Scope(b)
             PROVE  a = b
  BY DEF OrderIsNeutralInScope, Metering!OrderIsNeutralInScope
<1>1. PICK T : table \in Seq(T)
  BY MeteringConstants DEF Loaded, Metering!MeteringAssumption
<1>2. PICK i \in DOMAIN table :
        /\ a = table[i]
        /\ Metering!ContractMatches(a, call.provider, call.model, call.region, call.tier, call.day)
  BY <1>1, WinnerMatches
<1>3. PICK j \in DOMAIN Metering!Reverse(table) :
        /\ b = Metering!Reverse(table)[j]
        /\ Metering!ContractMatches(b, call.provider, call.model, call.region, call.tier, call.day)
  BY <1>1, ReversedShape, WinnerMatches
<1>4. PICK k \in DOMAIN table : b = table[k]
  BY <1>1, <1>3, ReversedShape
<1>5. i = k
  BY <1>2, <1>3, <1>4, CallShape, OneContractInScope DEF Loaded
<1> QED
  BY <1>2, <1>4, <1>5

LEMMA LoadedStays ==
  ASSUME Loaded, [Metering!Next]_Metering!vars
  PROVE  Loaded' /\ UNCHANGED <<table, req>>
<1>1. UNCHANGED <<table, req>>
  <2>1. CASE Metering!Next
    BY <2>1 DEF Metering!Next, Metering!Admit, Metering!TransportFails, Metering!Responds,
       Metering!Thinks, Metering!RunsTool, Metering!Text, Metering!Chunk, Metering!LongText,
       Metering!Counters, Metering!Stops, Metering!StreamEnds, Metering!BodyEnds
  <2> QED
    BY <2>1 DEF Metering!vars
<1> QED
  BY <1>1 DEF Loaded, Metering!ValidContracts

\* Among contracts that name the same dimensions the order of a valid file
\* never decides, whatever the file holds and whatever the call is.
THEOREM OrderDecidesNothingInScope == Metering!Spec => []OrderIsNeutralInScope
<1>1. Metering!Init => Loaded
  BY DEF Metering!Init, Loaded
<1>2. Loaded /\ [Metering!Next]_Metering!vars => Loaded'
  BY LoadedStays
<1>3. Loaded => OrderIsNeutralInScope
  BY LoadedIsNeutral
<1> QED
  BY <1>1, <1>2, <1>3, PTL DEF Metering!Spec

-----------------------------------------------------------------------------
(* Metering: the reserved bound.                                           *)

LEMMA ProductGrows ==
  ASSUME NEW a \in Nat, NEW b \in Nat, NEW c \in Nat, NEW d \in Nat, a <= b, c <= d
  PROVE  a * c \in Nat /\ b * d \in Nat /\ a * c <= b * d
<1>1. (b - a) * c >= 0 /\ b * (d - c) >= 0
  OBVIOUS
<1> QED
  BY <1>1

LEMMA MeteringExtremes ==
  \A a, b \in Int :
    /\ Metering!Max({a, b}) \in {a, b} /\ a <= Metering!Max({a, b}) /\ b <= Metering!Max({a, b})
    /\ Metering!Min({a, b}) \in {a, b} /\ Metering!Min({a, b}) <= a /\ Metering!Min({a, b}) <= b
<1> TAKE a, b \in Int
<1> DEFINE S == {a, b}
<1>1. (\E x \in S : \A y \in S : x >= y) /\ (\E x \in S : \A y \in S : x <= y)
  OBVIOUS
<1>2. /\ Metering!Max(S) \in S /\ \A y \in S : Metering!Max(S) >= y
      /\ Metering!Min(S) \in S /\ \A y \in S : Metering!Min(S) <= y
  <2> HIDE DEF S
  <2> QED
    BY <1>1 DEF Metering!Max, Metering!Min
<1> DEFINE m == Metering!Max(S)
           n == Metering!Min(S)
<1>3. m \in {a, b} /\ m >= a /\ m >= b /\ n \in {a, b} /\ n <= a /\ n <= b
  BY <1>2
<1> HIDE DEF m, n
<1>4. m \in {a, b} /\ a <= m /\ b <= m /\ n \in {a, b} /\ n <= a /\ n <= b
  BY <1>3
<1> QED
  BY <1>4 DEF m, n

\* The multipliers grow with the tokens.
LEMMA MultipliersGrow ==
  ASSUME NEW p \in Metering!Prices, Metering!ValidPrice(p), NEW m \in Nat, NEW n \in Nat, m <= n
  PROVE  /\ Metering!LongIn(p, m) \in Nat /\ Metering!LongIn(p, n) \in Nat
         /\ Metering!LongIn(p, m) <= Metering!LongIn(p, n)
         /\ Metering!LongOut(p, m) \in Nat /\ Metering!LongOut(p, n) \in Nat
         /\ Metering!LongOut(p, m) <= Metering!LongOut(p, n)
BY DEF Metering!Prices, Metering!ValidPrice, Metering!LongIn, Metering!LongOut

\* The price of usage is a natural number, and at most that of a write kept for
\* an hour of all the bytes with all of the output.
LEMMA HourCovers ==
  ASSUME NEW p \in Metering!Prices, Metering!ValidPrice(p), Metering!HourCostsMost(p),
         NEW i \in Metering!Counts, NEW bytes \in Nat, NEW out \in Nat, NEW bound \in Nat,
         i.in + i.read + i.write <= bytes, i.hour <= i.write, out <= bound,
         NEW w \in Metering!Counts, w.in = 0, w.read = 0, w.write = bytes, w.hour = bytes
  PROVE  /\ Metering!Cost(p, Metering!Produced(i, out)) \in Int
         /\ Metering!Cost(p, Metering!Produced(w, bound)) \in Nat
         /\ Metering!Cost(p, Metering!Produced(i, out)) <= Metering!Cost(p, Metering!Produced(w, bound))
<1> DEFINE n == i.in + i.read + i.write
           ri == p.rates.in
           rr == p.rates.read
           rw == p.rates.write
           ro == p.rates.out
           hour == i.hour
           in == i.in
           read == i.read
           write == i.write
           part == in * ri + read * rr + write * rw + hour * (2 * ri - rw)
           l == Metering!LongIn(p, n)
           lout == Metering!LongOut(p, n)
           h == Metering!LongIn(p, bytes)
           hout == Metering!LongOut(p, bytes)
<1>1. /\ ri \in Nat /\ rr \in Nat /\ rw \in Nat /\ ro \in Nat
      /\ in \in Nat /\ read \in Nat /\ write \in Nat /\ hour \in Nat /\ n \in Nat
      /\ rr <= 2 * ri /\ rw <= 2 * ri /\ n <= bytes /\ hour <= write /\ n = in + read + write
  BY DEF Metering!Prices, Metering!Counts, Metering!HourCostsMost
<1>2. /\ l \in Nat /\ h \in Nat /\ l <= h /\ lout \in Nat /\ hout \in Nat /\ lout <= hout
  BY <1>1, MultipliersGrow
<1>3. Metering!Cost(p, Metering!Produced(i, out)) = l * part + lout * out * ro
  <2>1. Metering!Min({hour, write}) = hour
    <3>1. Metering!Min({hour, write}) \in {hour, write} /\ Metering!Min({hour, write}) <= hour
      <4>1. hour \in Int /\ write \in Int
        BY <1>1
      <4> HIDE DEF hour, write
      <4> QED
        BY <4>1, MeteringExtremes, Zenon
    <3> QED
      BY <1>1, <3>1
  <2> QED
    BY <2>1 DEF Metering!Cost, Metering!Produced
<1>4. Metering!Cost(p, Metering!Produced(w, bound))
        = h * (0 * ri + 0 * rr + bytes * rw + bytes * (2 * ri - rw)) + hout * bound * ro
  <2>1. Metering!Min({bytes, bytes}) = bytes
    <3>1. Metering!Min({bytes, bytes}) \in {bytes, bytes}
      <4>1. bytes \in Int
        OBVIOUS
      <4> QED
        BY <4>1, MeteringExtremes, Zenon
    <3> QED
      BY <3>1
  <2>2. 0 + 0 + bytes = bytes
    OBVIOUS
  <2> QED
    BY <2>1, <2>2 DEF Metering!Cost, Metering!Produced
<1> HIDE DEF n, ri, rr, rw, ro, hour, in, read, write, l, lout, h, hout
<1>5. part \in Int /\ part <= bytes * (2 * ri) /\ part >= 0
  <2> DEFINE k == 2 * ri
  <2>1. k \in Nat /\ rr <= k /\ rw <= k /\ ri <= k
    BY <1>1
  <2>2. part = in * ri + read * rr + (write - hour) * rw + hour * k
    BY <1>1
  <2> HIDE DEF k
  <2>3. write - hour \in Nat
    BY <1>1
  <2>4. /\ in * ri \in Nat /\ in * k \in Nat /\ in * ri <= in * k
        /\ read * rr \in Nat /\ read * k \in Nat /\ read * rr <= read * k
        /\ (write - hour) * rw \in Nat /\ (write - hour) * k \in Nat
        /\ (write - hour) * rw <= (write - hour) * k
        /\ hour * k \in Nat
    BY <1>1, <2>1, <2>3, ProductGrows
  <2>5. in * k + read * k + (write - hour) * k + hour * k = n * k
    BY <1>1, <2>1
  <2>6. n * k <= bytes * k
    BY <1>1, <2>1, ProductGrows
  <2> DEFINE a == in * ri
             b == read * rr
             c == (write - hour) * rw
             d == hour * k
             a2 == in * k
             b2 == read * k
             c2 == (write - hour) * k
             nk == n * k
             all == bytes * k
  <2>7. /\ a \in Nat /\ b \in Nat /\ c \in Nat /\ d \in Nat /\ a2 \in Nat /\ b2 \in Nat /\ c2 \in Nat
        /\ a <= a2 /\ b <= b2 /\ c <= c2 /\ a2 + b2 + c2 + d = nk /\ nk <= all /\ part = a + b + c + d
    BY <2>2, <2>4, <2>5, <2>6
  <2>8. all \in Int /\ all = bytes * (2 * ri)
    BY <1>1 DEF k
  <2> HIDE DEF a, b, c, d, a2, b2, c2, nk, all, part
  <2>9. part \in Int /\ part <= all /\ part >= 0
    BY <2>7, <2>8
  <2> QED
    BY <2>8, <2>9
<1> DEFINE most == bytes * (2 * ri)
<1>6. most \in Nat /\ 0 * ri + 0 * rr + bytes * rw + bytes * (2 * ri - rw) = most
  BY <1>1
<1>7. l * part \in Nat /\ h * most \in Nat /\ l * part <= h * most
  <2>1. part \in Nat /\ part <= most
    BY <1>5
  <2> HIDE DEF part, most
  <2> QED
    BY <1>2, <1>6, <2>1, ProductGrows
<1>8. /\ lout * out * ro \in Nat /\ hout * bound * ro \in Nat
      /\ lout * out * ro <= hout * bound * ro
  <2>1. lout * out \in Nat /\ hout * bound \in Nat /\ lout * out <= hout * bound
    BY <1>2, ProductGrows
  <2> DEFINE a == lout * out
             b == hout * bound
  <2>2. a \in Nat /\ b \in Nat /\ a <= b
    BY <2>1
  <2> HIDE DEF a, b
  <2>3. a * ro \in Nat /\ b * ro \in Nat /\ a * ro <= b * ro
    BY <1>1, <2>2, ProductGrows
  <2> QED
    BY <2>3 DEF a, b
<1> DEFINE x == l * part
           y == h * most
           u == lout * out * ro
           v == hout * bound * ro
<1>9. /\ Metering!Cost(p, Metering!Produced(i, out)) = x + u
      /\ Metering!Cost(p, Metering!Produced(w, bound)) = y + v
  BY <1>3, <1>4, <1>6
<1>10. x \in Nat /\ y \in Nat /\ u \in Nat /\ v \in Nat /\ x <= y /\ u <= v
  BY <1>7, <1>8
<1> HIDE DEF x, y, u, v
<1> QED
  BY <1>9, <1>10

\* What a call's price can be.
LEMMA ResolveShape ==
  ASSUME NEW file \in File, Metering!ValidContracts(file), NEW call, call.final \in Int
  PROVE  LET r == Metering!Resolve(file, call)
         IN \/ r.source = "unknown" /\ ~(call.final >= 0)
            \/ r.source = "provider_final" /\ call.final >= 0 /\ r.amount = call.final
            \/ /\ r.source \in {"contract", "public_list"} /\ call.final = Metering!NoFinal
               /\ r.price \in Metering!Prices /\ Metering!ValidPrice(r.price)
               /\ r.source = "public_list" => r.coversTier = FALSE /\ r.coversRegion = FALSE
<1> DEFINE r == Metering!Resolve(file, call)
           w == Metering!Winner(file, call)
           listed == {k \in Metering!ListKey(call.model) :
                        Metering!InRange(call.day, List[k].from, List[k].through)}
           key == CHOOSE k \in listed : TRUE
<1>1. r = CASE call.final >= 0 -> [source |-> "provider_final", amount |-> call.final]
            [] call.final = Metering!BadFinal -> Metering!Unpriced
            [] call.final = Metering!NoFinal /\ w # 0 ->
                 [source |-> "contract", ref |-> file[w].id, price |-> file[w].price,
                  coversRegion |-> file[w].region # Metering!Unscoped,
                  coversTier |-> file[w].tier # Metering!Unscoped]
            [] call.final = Metering!NoFinal /\ w = 0 /\ listed # {} ->
                 [source |-> "public_list", ref |-> key, price |-> List[key].price,
                  coversRegion |-> FALSE, coversTier |-> FALSE]
            [] OTHER -> Metering!Unpriced
  BY DEF Metering!Resolve
<1>2. ASSUME w # 0 PROVE file[w].price \in Metering!Prices /\ Metering!ValidPrice(file[w].price)
  <2>1. file[w] \in Metering!WinnerIn(file, call)
    BY <1>2 DEF Metering!WinnerIn
  <2>2. PICK T : file \in Seq(T)
    BY MeteringConstants DEF Metering!MeteringAssumption
  <2>3. w \in DOMAIN file
    BY <2>1, <2>2, WinnerMatches
  <2> HIDE DEF w
  <2> QED
    BY <2>3, MeteringConstants DEF Metering!MeteringAssumption, Metering!ValidContracts
<1>3. ASSUME listed # {} PROVE List[key].price \in Metering!Prices /\ Metering!ValidPrice(List[key].price)
  <2>1. key \in Metering!ListKey(call.model)
    BY <1>3
  <2>2. key \in DOMAIN List
    <3> HIDE DEF key, listed
    <3> QED
      BY <2>1 DEF Metering!ListKey
  <2> QED
    BY <2>2, MeteringConstants DEF Metering!MeteringAssumption
<1>4. Metering!NoFinal = -1 /\ Metering!BadFinal = -2 /\ Metering!Unpriced = [source |-> "unknown"]
  BY DEF Metering!NoFinal, Metering!BadFinal, Metering!Unpriced
<1> HIDE DEF w, listed, key, r
<1>5. CASE call.final >= 0
  <2>1. r = [source |-> "provider_final", amount |-> call.final]
    BY <1>1, <1>4, <1>5
  <2> QED
    BY <1>5, <2>1 DEF r
<1>6. CASE call.final = Metering!NoFinal /\ w # 0
  <2>1. /\ r.source = "contract" /\ r.price = file[w].price
    BY <1>1, <1>4, <1>6
  <2> QED
    BY <1>2, <1>6, <2>1 DEF r
<1>7. CASE call.final = Metering!NoFinal /\ w = 0 /\ listed # {}
  <2>1. /\ r.source = "public_list" /\ r.price = List[key].price
        /\ r.coversTier = FALSE /\ r.coversRegion = FALSE
    BY <1>1, <1>4, <1>7
  <2> QED
    BY <1>3, <1>7, <2>1 DEF r
<1>8. CASE ~(call.final >= 0) /\ ~(call.final = Metering!NoFinal /\ (w # 0 \/ listed # {}))
  <2>1. r = Metering!Unpriced
    BY <1>1, <1>4, <1>8
  <2> QED
    BY <1>4, <1>8, <2>1 DEF r
<1> QED
  BY <1>5, <1>6, <1>7, <1>8

LEMMA CostIsBounded ==
  ASSUME NEW r, r.price \in Metering!Prices, Metering!ValidPrice(r.price),
         Metering!HourCostsMost(r.price), req \in Request,
         NEW i \in Metering!Counts, i.in + i.read + i.write <= req.bytes, i.hour <= i.write,
         NEW out \in Nat, out <= req.bound
  PROVE  Metering!ResolvedCost(r, Metering!Produced(i, out), req.region) <= Metering!Bound(r)
<1> DEFINE bytes == req.bytes
           bound == req.bound
           p == r.price
           u == Metering!AsInput
           w == Metering!AsWrites
           c == Metering!Cost(p, Metering!Produced(i, out))
           cu == Metering!Cost(p, Metering!Produced(u, bound))
           cw == Metering!Cost(p, Metering!Produced(w, bound))
           g == IF r.coversRegion THEN 10 ELSE Metering!GeoTenths(req.region)
<1>1. bytes \in Nat /\ bound \in Nat
  BY MeteringConstants DEF Metering!MeteringAssumption
<1>2. /\ w \in Metering!Counts /\ w.in = 0 /\ w.read = 0 /\ w.write = bytes /\ w.hour = bytes
      /\ u \in Metering!Counts /\ u.in + u.read + u.write <= bytes /\ u.hour <= u.write
  <2> DEFINE z == Metering!NoUsage
             x == [z EXCEPT !.write = bytes]
  <2>1. z \in Metering!Counts /\ z.in = 0 /\ z.read = 0 /\ z.write = 0 /\ z.hour = 0
    BY DEF Metering!NoUsage, Metering!Counts
  <2>2. w = [x EXCEPT !.hour = bytes] /\ u = [z EXCEPT !.in = bytes]
    BY DEF Metering!AsWrites, Metering!AsInput
  <2> HIDE DEF z, u, w
  <2>3. x \in Metering!Counts /\ x.in = 0 /\ x.read = 0 /\ x.write = bytes
    BY <1>1, <2>1 DEF Metering!Counts
  <2>4. u \in Metering!Counts /\ u.in = bytes /\ u.read = 0 /\ u.write = 0 /\ u.hour = 0
    BY <1>1, <2>1, <2>2 DEF Metering!Counts
  <2> HIDE DEF x
  <2>5. w \in Metering!Counts /\ w.in = 0 /\ w.read = 0 /\ w.write = bytes /\ w.hour = bytes
    BY <1>1, <2>2, <2>3 DEF Metering!Counts
  <2> QED
    BY <1>1, <2>4, <2>5
<1>3. c \in Int /\ cu \in Int /\ cw \in Nat /\ c <= cw
  <2> HIDE DEF u, w, p
  <2>1. p \in Metering!Prices /\ Metering!ValidPrice(p) /\ Metering!HourCostsMost(p)
    BY DEF p
  <2>2. c \in Int /\ cw \in Nat /\ c <= cw
    BY <1>1, <1>2, <2>1, HourCovers
  <2>3. cu \in Int
    BY <1>1, <1>2, <2>1, HourCovers
  <2> QED
    BY <2>2, <2>3
<1>4. g \in {10, 11}
  BY Zenon DEF Metering!GeoTenths
<1> DEFINE m(x) == Metering!Max({0, x})
<1>5. m(c) \in Nat /\ m(cu) \in Nat /\ m(cw) \in Nat /\ m(c) <= m(cw)
  <2> HIDE DEF c, cu, cw
  <2>1. 0 \in Int
    OBVIOUS
  <2>2. \A x \in Int : m(x) \in {0, x} /\ 0 <= m(x) /\ x <= m(x)
    BY <2>1, MeteringExtremes, Zenon
  <2> HIDE DEF m
  <2>3. \A x \in Int : m(x) \in Nat
    BY <2>2
  <2> QED
    BY <1>3, <2>2, <2>3
<1>6. /\ Metering!ResolvedCost(r, Metering!Produced(i, out), req.region) = m(c) * g
      /\ Metering!ResolvedCost(r, Metering!Produced(u, bound), req.region) = m(cu) * g
      /\ Metering!ResolvedCost(r, Metering!Produced(w, bound), req.region) = m(cw) * g
  BY DEF Metering!ResolvedCost
<1> DEFINE x == m(c) * g
           y == m(cu) * g
           z == m(cw) * g
<1>7. Metering!Bound(r) = Metering!Max({y, z})
  <2>1. Metering!Bound(r)
          = Metering!Max({Metering!ResolvedCost(r, Metering!Produced(j, bound), req.region) :
                            j \in {u, w}})
    BY DEF Metering!Bound, Metering!BoundOver
  <2> HIDE DEF u, w, y, z, m, c, cu, cw, g, bound
  <2>2. {Metering!ResolvedCost(r, Metering!Produced(j, bound), req.region) : j \in {u, w}}
          = {Metering!ResolvedCost(r, Metering!Produced(u, bound), req.region),
             Metering!ResolvedCost(r, Metering!Produced(w, bound), req.region)}
    OBVIOUS
  <2> QED
    BY <1>6, <2>1, <2>2 DEF y, z
<1>8. x \in Int /\ y \in Int /\ z \in Int /\ x <= z
  <2> HIDE DEF m, c, cu, cw, g
  <2>1. g \in Nat
    BY <1>4
  <2> QED
    BY <1>5, <2>1, ProductGrows
<1>9. z <= Metering!Max({y, z}) /\ Metering!Max({y, z}) \in {y, z}
  <2> HIDE DEF x, y, z
  <2> QED
    BY <1>8, MeteringExtremes, Zenon
<1> HIDE DEF x, y, z
<1>10. Metering!Max({y, z}) \in Int
  BY <1>8, <1>9
<1>11. x <= Metering!Max({y, z})
  BY <1>8, <1>9, <1>10
<1> QED
  BY <1>6, <1>7, <1>11 DEF x

-----------------------------------------------------------------------------
(* Metering: what the meter has of the work, and what a row says of it.    *)

Mark == {"start", "delta", "usage", "last", "stop", "error"}
Work ==
  [input : Metering!Counts, out : Nat, tools : Nat, final : Int, sent : SUBSET Mark,
   served : Served \cup {Metering!Unreported}]
Meter ==
  [input : Metering!Counts, out : Nat, units : Nat, tools : Nat, marks : SUBSET Mark,
   found : BOOLEAN, incomplete : BOOLEAN, skipped : BOOLEAN]

MeteringTypeInv ==
  /\ Loaded /\ work \in Work /\ tracker \in Meter
  /\ stage \in {"idle", "sent", "streaming", "settled"}

\* The frame with a dialect's final counters; no work is done after it.
Closing ==
  CASE req.shape = "anthropic" -> "delta"
    [] req.shape = "openai" -> "usage"
    [] OTHER -> "last"

\* Before the response there is nothing to meter.
NothingYet ==
  stage \in {"idle", "sent"} =>
    /\ tracker = Metering!NewTracker
    /\ work.out = 0 /\ work.tools = 0 /\ work.sent = {}

\* The meter never has more than the provider did, and no less once the
\* closing frame was counted.
MeterFollows ==
  stage = "streaming" =>
    /\ Metering!CanRead(work.input) /\ work.out <= Metering!Ceiling /\ "error" \notin work.sent
    /\ tracker.input \in {Metering!NoUsage, work.input}
    /\ tracker.out <= work.out /\ tracker.tools <= work.tools
    /\ Closing \in tracker.marks => Closing \in work.sent /\ tracker.found
    /\ Closing \in tracker.marks /\ ~tracker.incomplete =>
         /\ tracker.input = work.input /\ tracker.out = work.out
         /\ req.shape = "anthropic" => tracker.tools = work.tools

AskedPrice ==
  Metering!Resolve(table, Metering!Call(req.model, req.region, req.tier, Metering!NoFinal))
Reserved == stage # "idle" => admission = Metering!Estimate(AskedPrice)

MeteringInv ==
  /\ MeteringTypeInv /\ NothingYet /\ MeterFollows /\ Reserved
  /\ SafeRowsPayTheBill /\ BoundHolds

\* The verdict on a response that the handler makes a row of.
Verdict ==
  [input : Metering!Counts, tools : Nat, found : BOOLEAN, out : Nat, exact : BOOLEAN,
   incomplete : BOOLEAN, served : Served \cup {Metering!Unreported}]

Made(ok, u) == Metering!Row(ok, IF ok THEN Metering!Completed(u) ELSE u)
PriceOf(u) ==
  LET as == Metering!Labels(u.served)
  IN  Metering!Resolve(table, Metering!Call(as.model, as.region, as.tier, work.final))

\* A row that says exact is one of a response counted whole.
LEMMA ExactRow ==
  ASSUME NEW ok \in BOOLEAN, NEW u \in Verdict, Made(ok, u).usage = "exact"
  PROVE  /\ Made(ok, u) = Metering!Row(ok, u)
         /\ u.found /\ ~u.incomplete /\ (ok => u.exact)
<1> DEFINE v == IF ok THEN Metering!Completed(u) ELSE u
<1>1. Made(ok, u).usage = CASE ~v.found -> "missing" [] v.found /\ v.incomplete -> "partial"
                            [] OTHER -> "exact"
  BY DEF Made, Metering!Row
<1>2. v.found /\ ~v.incomplete
  <2> HIDE DEF v
  <2>1. CASE ~v.found
    BY <1>1, <2>1
  <2>2. CASE v.found /\ v.incomplete
    BY <1>1, <2>2
  <2> QED
    BY <2>1, <2>2
<1>3. CASE ok
  <2>1. v = Metering!Completed(u)
    BY <1>3
  <2>2. u.exact /\ u.found
    <3> SUFFICES ASSUME ~(u.exact /\ u.found) PROVE FALSE
      OBVIOUS
    <3>1. v = [u EXCEPT !.found = TRUE, !.incomplete = TRUE, !.exact = FALSE,
                        !.input = IF u.found /\ u.input.in # 0 THEN u.input
                                  ELSE [u.input EXCEPT !.in = Metering!InputEstimate]]
      BY <2>1 DEF Metering!Completed
    <3> HIDE DEF v
    <3>2. v.incomplete = TRUE
      BY <3>1 DEF Verdict
    <3> QED
      BY <1>2, <3>2
  <2>3. v = u
    BY <2>1, <2>2 DEF Metering!Completed
  <2> QED
    BY <1>2, <1>3, <2>2, <2>3 DEF Made
<1>4. CASE ~ok
  BY <1>2, <1>4 DEF Made
<1> QED
  BY <1>3, <1>4

\* What such a row costs, and what follows when it is safe for enforcement.
LEMMA RowShape ==
  ASSUME NEW ok \in BOOLEAN, NEW u \in Verdict, u.found, ~u.incomplete
  PROVE  LET made == Metering!Row(ok, u)
             r == PriceOf(u)
             as == Metering!Labels(u.served)
         IN /\ made.ok = ok /\ made.usage = "exact"
            /\ made.cost = IF r.source = "provider_final" THEN 10 * r.amount
                           ELSE IF r.source # "unknown"
                             THEN Metering!ResolvedCost(r, Metering!Produced(u.input, u.out), as.region)
                           ELSE 0
            /\ ~made.unsafe =>
                 /\ r.source # "unknown"
                 /\ \/ r.source = "provider_final"
                    \/ /\ ~(u.tools > 0)
                       /\ \/ Metering!TierPriced(as.tier)
                          \/ r.source = "contract" /\ r.coversTier
                       /\ \/ Metering!GeoKnown(as.region)
                          \/ r.source = "contract" /\ r.coversRegion
<1> DEFINE made == Metering!Row(ok, u)
           as == Metering!Labels(u.served)
           r == PriceOf(u)
           unknownFee == u.tools > 0 \/ ~Metering!TierPriced(as.tier) \/ ~Metering!GeoKnown(as.region)
           uncovered == \/ u.tools > 0
                        \/ ~Metering!TierPriced(as.tier) /\ ~r.coversTier
                        \/ ~Metering!GeoKnown(as.region) /\ ~r.coversRegion
           fee == /\ u.found /\ r.source # "provider_final"
                  /\ IF r.source = "contract" THEN uncovered ELSE unknownFee
           usage == CASE ~u.found -> "missing" [] u.found /\ u.incomplete -> "partial" [] OTHER -> "exact"
           priced == r.source = "provider_final" \/ (u.found /\ r.source # "unknown")
           pricing == CASE priced -> "priced"
                        [] ~priced /\ (u.found \/ work.final # Metering!NoFinal) -> "unknown"
                        [] OTHER -> "unmetered"
           cost == CASE r.source = "provider_final" -> 10 * r.amount
                     [] priced /\ r.source # "provider_final" ->
                          Metering!ResolvedCost(r, Metering!Produced(u.input, u.out), as.region)
                     [] OTHER -> 0
           unsafe == /\ ok \/ usage # "missing"
                     /\ usage # "exact" \/ pricing # "priced" \/ fee
<1>1. made = [usage |-> usage, pricing |-> pricing, fee |-> fee, ok |-> ok, cost |-> cost,
              unsafe |-> unsafe]
  BY DEF Metering!Row, PriceOf
<1> HIDE DEF as, r
<1>2. usage = "exact" /\ (priced <=> r.source # "unknown")
  OBVIOUS
<1>3. ~priced => pricing # "priced"
  OBVIOUS
<1> HIDE DEF usage, pricing
<1>4. cost = IF r.source = "provider_final" THEN 10 * r.amount
             ELSE IF r.source # "unknown"
               THEN Metering!ResolvedCost(r, Metering!Produced(u.input, u.out), as.region)
             ELSE 0
  OBVIOUS
<1>5. ~unsafe => priced /\ ~fee
  BY <1>2, <1>3
<1>6. ~fee => \/ r.source = "provider_final"
              \/ /\ ~(u.tools > 0)
                 /\ Metering!TierPriced(as.tier) \/ (r.source = "contract" /\ r.coversTier)
                 /\ Metering!GeoKnown(as.region) \/ (r.source = "contract" /\ r.coversRegion)
  OBVIOUS
<1> HIDE DEF cost, unsafe, fee, priced, made
<1>7. made.ok = ok /\ made.usage = usage /\ made.cost = cost /\ made.unsafe = unsafe
  BY <1>1
<1> QED
  BY <1>2, <1>4, <1>5, <1>6, <1>7 DEF made, r, as

\* The provider's bill for the work under way with so much output and tool use.
BillOf(out, tools) ==
  IF work.final >= 0 THEN 10 * work.final
  ELSE Metering!ResolvedCost(Metering!TruePrice, Metering!Produced(work.input, out),
                             Metering!TrueLabels.region)
       + Fee * ( tools
               + (IF Metering!TierPriced(Metering!TrueLabels.tier) \/ Metering!TruePrice.coversTier
                  THEN 0 ELSE 1)
               + (IF Metering!GeoKnown(Metering!TrueLabels.region) \/ Metering!TruePrice.coversRegion
                  THEN 0 ELSE 1))

LEMMA CostIsInt ==
  ASSUME NEW p \in Metering!Prices, Metering!ValidPrice(p), NEW i \in Metering!Counts, NEW out \in Nat
  PROVE  Metering!Cost(p, Metering!Produced(i, out)) \in Int
<1> DEFINE n == i.in + i.read + i.write
           l == Metering!LongIn(p, n)
           lout == Metering!LongOut(p, n)
           hour == Metering!Min({i.hour, i.write})
           hours == i.hour
           writes == i.write
<1>1. n \in Nat /\ hours \in Int /\ writes \in Int
  BY DEF Metering!Counts
<1>2. l \in Nat /\ lout \in Nat
  <2> HIDE DEF n
  <2> QED
    BY <1>1, MultipliersGrow
<1>3. hour \in Int
  <2>1. hour = Metering!Min({hours, writes})
    OBVIOUS
  <2> HIDE DEF hour, hours, writes
  <2>2. hour \in {hours, writes}
    BY <1>1, <2>1, MeteringExtremes, Zenon
  <2> QED
    BY <1>1, <2>2
<1>4. Metering!Cost(p, Metering!Produced(i, out))
        = l * ( i.in * p.rates.in + i.read * p.rates.read + i.write * p.rates.write
              + hour * (2 * p.rates.in - p.rates.write) )
          + lout * out * p.rates.out
  BY DEF Metering!Cost, Metering!Produced
<1> HIDE DEF l, lout, hour
<1> QED
  BY <1>2, <1>3, <1>4 DEF Metering!Counts, Metering!Prices

LEMMA ResolvedIsInt ==
  ASSUME NEW r, r.price \in Metering!Prices, Metering!ValidPrice(r.price),
         NEW i \in Metering!Counts, NEW out \in Nat, NEW geo
  PROVE  Metering!ResolvedCost(r, Metering!Produced(i, out), geo) \in Int
<1> DEFINE c == Metering!Cost(r.price, Metering!Produced(i, out))
           m == Metering!Max({0, c})
           g == IF r.coversRegion THEN 10 ELSE Metering!GeoTenths(geo)
<1>1. c \in Int /\ 0 \in Int
  BY CostIsInt
<1>2. m \in Int
  <2> HIDE DEF c
  <2>1. m \in {0, c}
    BY <1>1, MeteringExtremes, Zenon
  <2> QED
    BY <1>1, <2>1
<1>3. g \in {10, 11}
  BY Zenon DEF Metering!GeoTenths
<1>4. Metering!ResolvedCost(r, Metering!Produced(i, out), geo) = m * g
  BY DEF Metering!ResolvedCost
<1> HIDE DEF m, g
<1> QED
  BY <1>2, <1>3, <1>4

\* A safe row of a response counted whole is what the provider charges.
LEMMA ExactRowPays ==
  ASSUME MeteringTypeInv, NEW ok \in BOOLEAN, NEW u \in Verdict, NEW out \in Nat, NEW tools \in Nat,
         Made(ok, u).usage = "exact", ~Made(ok, u).unsafe,
         u.served = work.served, u.input = work.input, u.out = out,
         work.final >= 0 \/ tools = 0 \/ u.tools = tools
  PROVE  Made(ok, u).cost = BillOf(out, tools)
<1> DEFINE made == Metering!Row(ok, u)
           r == PriceOf(u)
           as == Metering!Labels(u.served)
           resolved == Metering!ResolvedCost(r, Metering!Produced(u.input, u.out), as.region)
<1>1. Made(ok, u) = made /\ u.found /\ ~u.incomplete
  BY ExactRow
<1>2. /\ made.cost = IF r.source = "provider_final" THEN 10 * r.amount
                     ELSE IF r.source # "unknown" THEN resolved ELSE 0
      /\ r.source # "unknown"
      /\ \/ r.source = "provider_final"
         \/ /\ ~(u.tools > 0)
            /\ Metering!TierPriced(as.tier) \/ (r.source = "contract" /\ r.coversTier)
            /\ Metering!GeoKnown(as.region) \/ (r.source = "contract" /\ r.coversRegion)
  BY <1>1, RowShape
<1>3. as = Metering!TrueLabels /\ r = Metering!TruePrice
  BY DEF Metering!TrueLabels, Metering!TruePrice, PriceOf
<1>4. work.final \in Int /\ u.tools \in Nat /\ work.input \in Metering!Counts
  BY DEF MeteringTypeInv, Work, Verdict
<1>5. \/ r.source = "unknown" /\ ~(work.final >= 0)
      \/ r.source = "provider_final" /\ work.final >= 0 /\ r.amount = work.final
      \/ /\ r.source \in {"contract", "public_list"} /\ work.final = Metering!NoFinal
         /\ r.price \in Metering!Prices /\ Metering!ValidPrice(r.price)
  <2> DEFINE call == Metering!Call(as.model, as.region, as.tier, work.final)
  <2>1. call.final = work.final /\ r = Metering!Resolve(table, call)
    BY DEF Metering!Call, PriceOf
  <2> HIDE DEF call, r
  <2> QED
    BY <1>4, <2>1, ResolveShape DEF MeteringTypeInv, Loaded
<1>6. CASE r.source = "provider_final"
  BY <1>1, <1>2, <1>5, <1>6 DEF BillOf
<1>7. CASE r.source # "provider_final"
  <2>1. ~(work.final >= 0) /\ r.price \in Metering!Prices /\ Metering!ValidPrice(r.price)
    BY <1>2, <1>5, <1>7 DEF Metering!NoFinal
  <2>2. u.tools = 0
    BY <1>2, <1>4, <1>7
  <2>3. tools = 0
    BY <2>1, <2>2
  <2>4. resolved \in Int /\ made.cost = resolved
    BY <1>2, <1>4, <1>7, <2>1, ResolvedIsInt
  <2>5. BillOf(out, tools) = resolved + Fee * (0 + 0 + 0)
    <3>1. /\ Metering!TierPriced(Metering!TrueLabels.tier) \/ Metering!TruePrice.coversTier
          /\ Metering!GeoKnown(Metering!TrueLabels.region) \/ Metering!TruePrice.coversRegion
      BY <1>2, <1>3, <1>7
    <3>2. resolved = Metering!ResolvedCost(Metering!TruePrice, Metering!Produced(work.input, out),
                                           Metering!TrueLabels.region)
      BY <1>3
    <3> HIDE DEF resolved, r, as
    <3> QED
      BY <2>1, <2>3, <3>1, <3>2 DEF BillOf
  <2>6. Fee \in Nat
    BY MeteringConstants DEF Metering!MeteringAssumption
  <2> HIDE DEF resolved, made
  <2> QED
    BY <1>1, <2>4, <2>5, <2>6
<1> QED
  BY <1>6, <1>7

\* What a response without labels is taken to be is what was asked for.
LEMMA UnlabelledIsAsked ==
  LET as == Metering!Labels(Metering!Unreported)
  IN  as.model = req.model /\ as.region = req.region /\ as.tier = req.tier
<1> DEFINE none == Metering!Unreported
           as == Metering!Labels(none)
<1>0. \A m, g, t : LET l == [model |-> m, region |-> g, tier |-> t]
                   IN  l.model = m /\ l.region = g /\ l.tier = t
  OBVIOUS
<1>1. none = [model |-> <<>>, region |-> "", tier |-> ""]
  BY DEF Metering!Unreported
<1>2. none.model = <<>> /\ none.region = "" /\ none.tier = ""
  BY <1>0, <1>1, Zenon
<1>3. as = [model |-> IF none.model = <<>> THEN req.model ELSE none.model,
            region |-> IF none.region = "" THEN req.region ELSE none.region,
            tier |-> IF none.tier = "" THEN req.tier ELSE none.tier]
  BY DEF Metering!Labels
<1> HIDE DEF none, as
<1>4. as = [model |-> req.model, region |-> req.region, tier |-> req.tier]
  BY <1>2, <1>3, Zenon
<1>5. as.model = req.model /\ as.region = req.region /\ as.tier = req.tier
  BY <1>0, <1>4, Zenon
<1> QED
  BY <1>5 DEF as, none

\* A row of a response counted whole costs no more than was reserved for it.
LEMMA ExactRowIsBounded ==
  ASSUME MeteringTypeInv, Reserved, stage # "idle", NEW ok \in BOOLEAN, NEW u \in Verdict,
         Made(ok, u).usage = "exact", admission.bounded, admission.priced,
         work.final = Metering!NoFinal, u.served = work.served,
         Metering!TrueLabels = Metering!Labels(Metering!Unreported),
         Metering!HourCostsMost(Metering!TruePrice.price),
         u.input.in + u.input.read + u.input.write <= req.bytes, u.input.hour <= u.input.write,
         u.out <= Metering!Ceiling
  PROVE  Made(ok, u).cost <= admission.usd
<1> DEFINE r == PriceOf(u)
           as == Metering!Labels(u.served)
<1>1. Made(ok, u) = Metering!Row(ok, u) /\ u.found /\ ~u.incomplete
  BY ExactRow
<1>2. Metering!Row(ok, u).cost
        = IF r.source = "provider_final" THEN 10 * r.amount
          ELSE IF r.source # "unknown"
            THEN Metering!ResolvedCost(r, Metering!Produced(u.input, u.out), as.region)
          ELSE 0
  BY <1>1, RowShape
<1>3. as.model = req.model /\ as.region = req.region /\ as.tier = req.tier
  BY UnlabelledIsAsked DEF Metering!TrueLabels
<1>4. r = AskedPrice /\ r = Metering!TruePrice
  BY <1>3 DEF PriceOf, AskedPrice, Metering!TruePrice, Metering!TrueLabels
<1>5. /\ admission.usd = IF r.source # "unknown" THEN Metering!Bound(r) ELSE 0
      /\ admission.priced => r.source # "unknown"
      /\ admission.bounded => req.bound > 0
  <2> DEFINE bounded == /\ req.bound > 0 /\ ~Metering!UnboundedTools
                        /\ Metering!TierPriced(req.tier) \/ (r.source # "unknown" /\ r.coversTier)
                        /\ Metering!GeoKnown(req.region) \/ (r.source # "unknown" /\ r.coversRegion)
             priced == r.source # "unknown"
             most == IF priced THEN Metering!Bound(r) ELSE 0
  <2>1. admission = [bounded |-> bounded, priced |-> priced, usd |-> most]
    <3> HIDE DEF r
    <3> QED
      BY <1>4, Zenon DEF Reserved, Metering!Estimate
  <2>2. most = IF r.source # "unknown" THEN Metering!Bound(r) ELSE 0
    OBVIOUS
  <2>3. (bounded => req.bound > 0) /\ (priced => r.source # "unknown")
    OBVIOUS
  <2> HIDE DEF bounded, priced, most, r
  <2>4. admission.bounded = bounded /\ admission.priced = priced /\ admission.usd = most
    BY <2>1
  <2> QED
    BY <2>2, <2>3, <2>4
<1>6. /\ r.source \in {"contract", "public_list"}
      /\ r.price \in Metering!Prices /\ Metering!ValidPrice(r.price)
  <2> DEFINE call == Metering!Call(as.model, as.region, as.tier, work.final)
  <2>1. call.final = work.final /\ r = Metering!Resolve(table, call)
    BY DEF Metering!Call, PriceOf
  <2>2. work.final \in Int /\ ~(work.final >= 0)
    BY DEF Metering!NoFinal
  <2> HIDE DEF call, r
  <2> QED
    BY <1>5, <2>1, <2>2, ResolveShape DEF MeteringTypeInv, Loaded
<1>7. u.out <= req.bound
  <2>1. MaxOut \in Int /\ req.bound \in Int /\ req.bound > 0
    BY <1>5, MeteringConstants DEF Metering!MeteringAssumption, MeteringTypeInv, Loaded
  <2>2. Metering!Min({MaxOut, req.bound}) <= req.bound
    BY <2>1, MeteringExtremes, Zenon
  <2>3. Metering!Min({MaxOut, req.bound}) \in {MaxOut, req.bound}
    BY <2>1, MeteringExtremes, Zenon
  <2>4. Metering!Ceiling = Metering!Min({MaxOut, req.bound})
    BY <2>1 DEF Metering!Ceiling
  <2>5. u.out \in Nat
    BY DEF Verdict
  <2> QED
    BY <2>1, <2>2, <2>3, <2>4, <2>5
<1>8. u.input \in Metering!Counts /\ u.out \in Nat /\ req \in Request
  BY DEF Verdict, MeteringTypeInv, Loaded
<1>9. Metering!HourCostsMost(r.price)
  BY <1>4
<1> HIDE DEF r
<1>10. Metering!ResolvedCost(r, Metering!Produced(u.input, u.out), req.region) <= Metering!Bound(r)
  BY <1>6, <1>7, <1>8, <1>9, CostIsBounded
<1> HIDE DEF as
<1> QED
  BY <1>1, <1>2, <1>3, <1>5, <1>6, <1>10

-----------------------------------------------------------------------------
(* Metering: steps.                                                        *)

\* A response is settled once.
LEMMA SettledStays ==
  ASSUME stage = "settled", [Metering!Next]_Metering!vars
  PROVE  UNCHANGED Metering!vars
<1>1. ~Metering!Next
  BY DEF Metering!Next, Metering!Admit, Metering!TransportFails, Metering!Responds,
     Metering!Thinks, Metering!RunsTool, Metering!Text, Metering!Chunk, Metering!LongText,
     Metering!Counters, Metering!Stops, Metering!StreamEnds, Metering!BodyEnds, Metering!Open4Work
<1> QED
  BY <1>1

\* Where no row is written, nothing is owed.
LEMMA NoRowKeeps ==
  ASSUME stage' # "settled"
  PROVE  SafeRowsPayTheBill' /\ BoundHolds'
BY DEF SafeRowsPayTheBill, BoundHolds, Metering!SafeRowsPayTheBill, Metering!BoundHolds,
   Metering!Settlement

LEMMA IdleMeter ==
  /\ Metering!NewTracker \in Meter
  /\ Metering!NewTracker.marks = {} /\ Metering!NewTracker.input = Metering!NoUsage
  /\ Metering!NewTracker.out = 0 /\ Metering!NewTracker.tools = 0
BY DEF Metering!NewTracker, Meter, Metering!NoUsage, Metering!Counts

\* What was asked for has its price, and the bound its estimate, throughout.
LEMMA AskedStays ==
  ASSUME UNCHANGED <<table, req>>
  PROVE  Metering!Estimate(AskedPrice)' = Metering!Estimate(AskedPrice)
<1>1. AskedPrice' = AskedPrice
  BY ZenonT(40) DEF AskedPrice, Metering!Resolve, Metering!Call, Metering!Winner, Metering!ListKey
<1>2. \A r : Metering!Bound(r)' = Metering!Bound(r)
  BY Zenon DEF Metering!Bound, Metering!BoundOver, Metering!AsInput, Metering!AsWrites,
     Metering!ResolvedCost, Metering!Produced
<1>3. Metering!UnboundedTools' = Metering!UnboundedTools
  BY DEF Metering!UnboundedTools
<1> QED
  BY <1>1, <1>2, <1>3, Zenon DEF Metering!Estimate

LEMMA AdmitKeeps ==
  ASSUME MeteringInv, Metering!Admit
  PROVE  MeteringInv'
<1>1. /\ stage = "idle" /\ stage' = "sent" /\ UNCHANGED <<table, req, work, tracker>>
      /\ admission' = Metering!Estimate(AskedPrice)
  BY DEF Metering!Admit, AskedPrice
<1>2. Loaded'
  BY <1>1 DEF MeteringInv, MeteringTypeInv, Loaded, Metering!ValidContracts
<1>3. MeteringTypeInv' /\ NothingYet' /\ MeterFollows'
  BY <1>1, <1>2 DEF MeteringInv, MeteringTypeInv, NothingYet, MeterFollows
<1>4. Reserved'
  BY <1>1, AskedStays, Zenon DEF Reserved
<1>5. SafeRowsPayTheBill' /\ BoundHolds'
  BY <1>1, NoRowKeeps
<1> QED
  BY <1>3, <1>4, <1>5 DEF MeteringInv

\* The reserved bound stays.
LEMMA ReservedStays ==
  ASSUME Reserved, stage # "idle", UNCHANGED <<table, req, admission>>
  PROVE  Reserved'
BY AskedStays, Zenon DEF Reserved

LEMMA RespondsKeeps ==
  ASSUME MeteringInv, NEW i \in Input, NEW v \in Served, NEW f \in Final, Metering!Responds(i, v, f)
  PROVE  MeteringInv'
<1>1. /\ stage = "sent" /\ stage' = "streaming" /\ UNCHANGED <<table, req, admission, tracker>>
      /\ Metering!CanRead(i) /\ work' = [work EXCEPT !.input = i, !.served = v, !.final = f]
  BY DEF Metering!Responds
<1>2. i \in Metering!Counts /\ f \in Int /\ MaxOut \in Nat
  BY MeteringConstants DEF Metering!MeteringAssumption
<1>3. work' \in Work /\ work'.input = i /\ work'.out = 0 /\ work'.tools = 0 /\ work'.sent = {}
  <2>1. work \in Work /\ work.out = 0 /\ work.tools = 0 /\ work.sent = {}
    BY <1>1 DEF MeteringInv, MeteringTypeInv, NothingYet
  <2> QED
    BY <1>1, <1>2, <2>1 DEF Work
<1>4. Loaded'
  BY <1>1 DEF MeteringInv, MeteringTypeInv, Loaded, Metering!ValidContracts
<1>5. tracker = Metering!NewTracker
  BY <1>1 DEF MeteringInv, NothingYet
<1>6. MeteringTypeInv' /\ NothingYet'
  BY <1>1, <1>3, <1>4 DEF MeteringInv, MeteringTypeInv, NothingYet
<1>7. 0 <= Metering!Ceiling /\ Metering!Ceiling' = Metering!Ceiling
  <2>1. req.bound \in Int /\ MaxOut \in Int /\ req.bound >= 0 /\ MaxOut >= 0
    BY MeteringConstants DEF Metering!MeteringAssumption, MeteringInv, MeteringTypeInv, Loaded
  <2>2. Metering!Min({MaxOut, req.bound}) \in {MaxOut, req.bound}
    BY <2>1, MeteringExtremes, Zenon
  <2> QED
    BY <1>1, <2>1, <2>2 DEF Metering!Ceiling
<1>8. Metering!CanRead(work.input)'
  BY <1>1, <1>3 DEF Metering!CanRead, Metering!Total
<1>9. MeterFollows'
  BY <1>1, <1>3, <1>5, <1>7, <1>8, IdleMeter DEF MeterFollows
<1>10. Reserved' /\ SafeRowsPayTheBill' /\ BoundHolds'
  BY <1>1, NoRowKeeps, ReservedStays DEF MeteringInv
<1> QED
  BY <1>6, <1>9, <1>10 DEF MeteringInv

\* While a response streams, only the work and the meter change.
LEMMA StreamKeeps ==
  ASSUME MeteringInv, stage = "streaming", UNCHANGED <<table, req, admission, stage>>,
         work' \in Work, tracker' \in Meter, MeterFollows'
  PROVE  MeteringInv'
<1>1. Loaded'
  BY DEF MeteringInv, MeteringTypeInv, Loaded, Metering!ValidContracts
<1>2. MeteringTypeInv' /\ NothingYet'
  BY <1>1 DEF MeteringInv, MeteringTypeInv, NothingYet
<1>3. Reserved' /\ SafeRowsPayTheBill' /\ BoundHolds'
  BY NoRowKeeps, ReservedStays DEF MeteringInv
<1> QED
  BY <1>2, <1>3 DEF MeteringInv

\* Work is done before the closing frame.
LEMMA WorkingKeeps ==
  ASSUME MeteringInv, Metering!Open4Work, UNCHANGED <<table, req, admission, stage>>,
         work' \in Work, tracker' \in Meter, UNCHANGED <<work.input, work.sent>>,
         work'.out <= Metering!Ceiling,
         tracker'.input \in {Metering!NoUsage, work.input},
         tracker'.out <= work'.out, tracker'.tools <= work'.tools,
         Closing \notin tracker'.marks
  PROVE  MeteringInv'
<1>1. stage = "streaming" /\ Metering!CanRead(work.input) /\ "error" \notin work.sent
  BY DEF Metering!Open4Work, MeteringInv, MeterFollows
<1>2. Metering!CanRead(work.input)' /\ Metering!Ceiling' = Metering!Ceiling /\ Closing' = Closing
  BY <1>1 DEF Metering!CanRead, Metering!Total, Metering!Ceiling, Closing
<1>3. MeterFollows'
  BY <1>1, <1>2 DEF MeterFollows
<1> QED
  BY <1>1, <1>3, StreamKeeps

\* Nothing closing was sent or counted while work may still be done.
LEMMA OpenShape ==
  ASSUME MeteringInv, Metering!Open4Work
  PROVE  /\ Closing \notin tracker.marks /\ stage = "streaming"
         /\ work \in Work /\ tracker \in Meter /\ Metering!CanRead(work.input)
         /\ work.out <= Metering!Ceiling /\ Metering!Ceiling \in Int
         /\ tracker.input \in {Metering!NoUsage, work.input}
         /\ tracker.out <= work.out /\ tracker.tools <= work.tools
<1>1. stage = "streaming" /\ work.sent \cap {"delta", "usage", "last"} = {}
  BY DEF Metering!Open4Work
<1>2. Closing \in {"delta", "usage", "last"}
  BY DEF Closing
<1>3. Closing \notin work.sent
  BY <1>1, <1>2
<1>4. Metering!Ceiling \in Int
  <2>1. req.bound \in Int /\ MaxOut \in Int
    BY MeteringConstants DEF Metering!MeteringAssumption, MeteringInv, MeteringTypeInv, Loaded
  <2>2. Metering!Min({MaxOut, req.bound}) \in {MaxOut, req.bound}
    BY <2>1, MeteringExtremes, Zenon
  <2> QED
    BY <2>1, <2>2 DEF Metering!Ceiling
<1> QED
  BY <1>1, <1>3, <1>4 DEF MeteringInv, MeteringTypeInv, MeterFollows

LEMMA WorkGrows ==
  ASSUME NEW w \in Work
  PROVE  /\ [w EXCEPT !.out = w.out + 1] \in Work /\ [w EXCEPT !.tools = w.tools + 1] \in Work
         /\ \A m \in Mark : [w EXCEPT !.sent = w.sent \cup {m}] \in Work
BY DEF Work

LEMMA ThinksKeeps ==
  ASSUME MeteringInv, Metering!Thinks \/ Metering!LongText
  PROVE  MeteringInv'
<1>1. /\ Metering!Open4Work /\ work.out < Metering!Ceiling
      /\ UNCHANGED <<table, req, admission, stage>>
      /\ work' = [work EXCEPT !.out = work.out + 1]
      /\ tracker' = tracker \/ tracker' = [tracker EXCEPT !.skipped = TRUE]
  BY DEF Metering!Thinks, Metering!LongText
<1>2. /\ Closing \notin tracker.marks /\ work \in Work /\ tracker \in Meter
      /\ tracker.input \in {Metering!NoUsage, work.input} /\ Metering!Ceiling \in Int
      /\ tracker.out <= work.out /\ tracker.tools <= work.tools
  BY <1>1, OpenShape
<1>3. /\ work' \in Work /\ work'.out = work.out + 1 /\ work.out \in Nat
      /\ UNCHANGED <<work.input, work.sent, work.tools>>
  BY <1>1, <1>2, WorkGrows DEF Work
<1>4. /\ tracker' \in Meter
      /\ UNCHANGED <<tracker.input, tracker.out, tracker.tools, tracker.marks>>
      /\ tracker.out \in Nat
  BY <1>1, <1>2 DEF Meter
<1> QED
  BY <1>1, <1>2, <1>3, <1>4, WorkingKeeps

LEMMA RunsToolKeeps ==
  ASSUME MeteringInv, Metering!RunsTool
  PROVE  MeteringInv'
<1>1. /\ Metering!Open4Work /\ UNCHANGED <<table, req, admission, stage, tracker>>
      /\ work' = [work EXCEPT !.tools = work.tools + 1]
  BY DEF Metering!RunsTool
<1>2. /\ Closing \notin tracker.marks /\ work \in Work /\ tracker \in Meter
      /\ tracker.input \in {Metering!NoUsage, work.input}
      /\ work.out <= Metering!Ceiling /\ tracker.out <= work.out /\ tracker.tools <= work.tools
  BY <1>1, OpenShape
<1>3. /\ work' \in Work /\ work'.tools = work.tools + 1 /\ work.tools \in Nat
      /\ UNCHANGED <<work.input, work.sent, work.out>>
  BY <1>1, <1>2, WorkGrows DEF Work
<1>4. tracker.tools \in Nat
  BY <1>2 DEF Meter
<1> QED
  BY <1>1, <1>2, <1>3, <1>4, WorkingKeeps

\* Maxima of counts so far and counts are the counts.
LEMMA MaximaShape ==
  ASSUME NEW b \in Metering!Counts, NEW a \in {Metering!NoUsage, b}
  PROVE  Metering!Maxima(a, b) = b
<1> DEFINE fields == {"in", "read", "write", "hour"}
           maxima == [k \in fields |-> Metering!Max({a[k], b[k]})]
<1>1. DOMAIN a = fields /\ DOMAIN b = fields /\ \A k \in fields : b[k] \in Nat
  BY DEF Metering!Counts, Metering!NoUsage
<1>2. b = [k \in fields |-> b[k]]
  BY DEF Metering!Counts
<1>3. \A k \in fields : a[k] = 0 \/ a[k] = b[k]
  BY DEF Metering!NoUsage
<1>4. Metering!Maxima(a, b) = maxima
  BY <1>1 DEF Metering!Maxima
<1> HIDE DEF fields
<1>5. ASSUME NEW k \in fields PROVE Metering!Max({a[k], b[k]}) = b[k]
  <2> DEFINE x == a[k]
             y == b[k]
  <2>1. x \in Int /\ y \in Int /\ x <= y /\ y >= 0
    BY <1>1, <1>3
  <2> HIDE DEF x, y
  <2>2. Metering!Max({x, y}) \in {x, y} /\ y <= Metering!Max({x, y})
    BY <2>1, MeteringExtremes, Zenon
  <2>3. Metering!Max({x, y}) = y
    BY <2>1, <2>2
  <2> QED
    BY <2>3 DEF x, y
<1>6. maxima = [k \in fields |-> b[k]]
  BY <1>5
<1> QED
  BY <1>2, <1>4, <1>6

\* A meter that may count a frame, and what counting leaves in it.
MayCount(t) ==
  /\ t \in Meter /\ t.input \in {Metering!NoUsage, work.input}
  /\ t.out <= work'.out /\ t.tools <= work.tools
HasCounted(c, t, mark, fields, sane) ==
  /\ c \in Meter /\ c.marks = t.marks \cup {mark} /\ c.found
  /\ ~c.incomplete => sane
  /\ c.input \in {Metering!NoUsage, work.input}
  /\ "input" \in fields => c.input = work.input
  /\ c.out <= work'.out /\ ("out" \in fields /\ sane => c.out = work'.out)
  /\ c.tools <= work.tools /\ (req.shape = "anthropic" => c.tools = work.tools)

LEMMA CountedShape ==
  ASSUME work \in Work, work' \in Work,
         NEW t, MayCount(t), NEW mark \in Mark, NEW fields, NEW sane \in BOOLEAN
  PROVE  HasCounted(Metering!Counted(t, mark, fields, sane), t, mark, fields, sane)
<1> DEFINE input == IF "input" \in fields THEN Metering!Maxima(t.input, work.input) ELSE t.input
           made == work'.out
           used == work.tools
           seen == t.out
           known == t.tools
           out == IF "out" \in fields /\ sane THEN Metering!Max({seen, made}) ELSE seen
           tools == IF req.shape = "anthropic" THEN Metering!Max({known, used}) ELSE known
           counted == t.marks \cup {mark}
           partial == t.incomplete \/ ~sane
           c == Metering!Counted(t, mark, fields, sane)
<1>0. /\ t \in Meter /\ t.input \in {Metering!NoUsage, work.input}
      /\ t.out <= work'.out /\ t.tools <= work.tools
  BY DEF MayCount
<1>1. c = [t EXCEPT !.marks = counted, !.found = TRUE, !.incomplete = partial, !.input = input,
                    !.out = out, !.tools = tools]
  BY DEF Metering!Counted
<1>2. /\ made \in Int /\ used \in Int /\ seen \in Int /\ known \in Int
      /\ 0 <= seen /\ 0 <= known /\ seen <= made /\ known <= used
      /\ work.input \in Metering!Counts
  BY <1>0 DEF Work, Meter
<1>3. /\ input \in Metering!Counts /\ input \in {Metering!NoUsage, work.input}
      /\ "input" \in fields => input = work.input
  BY <1>0, <1>2, MaximaShape DEF Meter
<1>4. counted \in SUBSET Mark /\ partial \in BOOLEAN /\ (~partial => sane)
  BY <1>0 DEF Meter
<1> HIDE DEF c, input, counted, partial
<1>5. out \in Nat /\ out <= made /\ ("out" \in fields /\ sane => out = made)
  <2> HIDE DEF made, seen
  <2>1. Metering!Max({seen, made}) \in {seen, made} /\ made <= Metering!Max({seen, made})
    BY <1>2, MeteringExtremes, Zenon
  <2>2. Metering!Max({seen, made}) = made
    BY <1>2, <2>1
  <2> QED
    BY <1>2, <2>2
<1>6. tools \in Nat /\ tools <= used /\ (req.shape = "anthropic" => tools = used)
  <2> HIDE DEF used, known
  <2>1. Metering!Max({known, used}) \in {known, used} /\ used <= Metering!Max({known, used})
    BY <1>2, MeteringExtremes, Zenon
  <2>2. Metering!Max({known, used}) = used
    BY <1>2, <2>1
  <2> QED
    BY <1>2, <2>2
<1> HIDE DEF out, tools
<1>7. /\ c \in Meter /\ c.marks = counted /\ c.found = TRUE /\ c.incomplete = partial
      /\ c.input = input /\ c.out = out /\ c.tools = tools
  BY <1>0, <1>1, <1>3, <1>4, <1>5, <1>6 DEF Meter
<1> QED
  BY <1>3, <1>4, <1>5, <1>6, <1>7 DEF HasCounted, c, counted

\* Text adds to the units seen, and to nothing else counted.
LEMMA WithTextShape ==
  ASSUME NEW t \in Meter
  PROVE  LET c == Metering!WithText(t)
         IN /\ c \in Meter /\ c.marks = t.marks /\ c.input = t.input
            /\ c.out = t.out /\ c.tools = t.tools
<1> DEFINE units == t.units + 1
           c == Metering!WithText(t)
<1>1. c = [t EXCEPT !.units = units, !.found = TRUE]
  BY DEF Metering!WithText
<1>2. units \in Nat
  BY DEF Meter
<1> HIDE DEF c, units
<1> QED
  BY <1>1, <1>2 DEF c, Meter

LEMMA TextKeeps ==
  ASSUME MeteringInv, Metering!Text
  PROVE  MeteringInv'
<1>1. /\ Metering!Open4Work /\ work.out < Metering!Ceiling
      /\ UNCHANGED <<table, req, admission, stage>>
      /\ work' = [work EXCEPT !.out = work.out + 1]
      /\ tracker' = Metering!WithText(tracker)
  BY DEF Metering!Text
<1>2. /\ Closing \notin tracker.marks /\ work \in Work /\ tracker \in Meter
      /\ tracker.input \in {Metering!NoUsage, work.input} /\ Metering!Ceiling \in Int
      /\ tracker.out <= work.out /\ tracker.tools <= work.tools
  BY <1>1, OpenShape
<1>3. /\ work' \in Work /\ work'.out = work.out + 1 /\ work.out \in Nat
      /\ UNCHANGED <<work.input, work.sent, work.tools>>
  BY <1>1, <1>2, WorkGrows DEF Work
<1>4. /\ tracker' \in Meter
      /\ UNCHANGED <<tracker.input, tracker.out, tracker.tools, tracker.marks>>
      /\ tracker.out \in Nat
  BY <1>1, <1>2, WithTextShape DEF Meter
<1> QED
  BY <1>1, <1>2, <1>3, <1>4, WorkingKeeps

\* Counts so far are not the closing ones.
LEMMA ChunkKeeps ==
  ASSUME MeteringInv, NEW fields \in SUBSET {"input", "out"}, Metering!Chunk(fields)
  PROVE  MeteringInv'
<1> DEFINE t == Metering!WithText(tracker)
           c == Metering!Counted(t, "usage", fields, TRUE)
<1>1. /\ Metering!Open4Work /\ work.out < Metering!Ceiling /\ req.shape = "gemini"
      /\ UNCHANGED <<table, req, admission, stage>>
      /\ work' = [work EXCEPT !.out = work.out + 1]
      /\ tracker' = t \/ tracker' = c
  BY DEF Metering!Chunk
<1>2. /\ Closing \notin tracker.marks /\ work \in Work /\ tracker \in Meter
      /\ tracker.input \in {Metering!NoUsage, work.input} /\ Metering!Ceiling \in Int
      /\ tracker.out <= work.out /\ tracker.tools <= work.tools
  BY <1>1, OpenShape
<1>3. /\ work' \in Work /\ work'.out = work.out + 1 /\ work.out \in Nat
      /\ UNCHANGED <<work.input, work.sent, work.tools>>
  BY <1>1, <1>2, WorkGrows DEF Work
<1>4. /\ t \in Meter /\ t.marks = tracker.marks /\ t.input = tracker.input
      /\ t.out = tracker.out /\ t.tools = tracker.tools /\ tracker.out \in Nat
  BY <1>2, WithTextShape DEF Meter
<1>5. Closing = "last" /\ "usage" \in Mark
  BY <1>1 DEF Closing, Mark
<1> HIDE DEF t
<1>6. MayCount(t) /\ TRUE \in BOOLEAN
  BY <1>2, <1>3, <1>4 DEF MayCount
<1>7. /\ c \in Meter /\ c.marks = t.marks \cup {"usage"}
      /\ c.input \in {Metering!NoUsage, work.input} /\ c.out <= work'.out /\ c.tools <= work.tools
  <2>1. HasCounted(c, t, "usage", fields, TRUE)
    BY <1>2, <1>3, <1>5, <1>6, CountedShape, Zenon
  <2> QED
    BY <2>1 DEF HasCounted
<1> HIDE DEF c
<1>8. /\ tracker' \in Meter /\ tracker'.input \in {Metering!NoUsage, work.input}
      /\ tracker'.out <= work'.out /\ tracker'.tools <= work'.tools
      /\ Closing \notin tracker'.marks
  BY <1>1, <1>2, <1>3, <1>4, <1>5, <1>6, <1>7
<1> QED
  BY <1>1, <1>2, <1>3, <1>8, WorkingKeeps

\* The closing frame counts all of the work, and no work follows it.
LEMMA CountersKeeps ==
  ASSUME MeteringInv, NEW mark \in {"start", "delta", "usage", "last"}, NEW sane \in BOOLEAN,
         Metering!Counters(mark, sane)
  PROVE  MeteringInv'
<1> DEFINE fields == {"input", "out"}
           sent == work.sent \cup {mark}
           c == Metering!Counted(tracker, mark, fields, sane)
           more == c.marks \cup {"usage"}
<1>1. /\ stage = "streaming" /\ UNCHANGED <<table, req, admission, stage>>
      /\ work' = [work EXCEPT !.sent = sent] /\ Metering!MaySend(mark)
      /\ tracker' = IF mark = "last" THEN [c EXCEPT !.marks = more] ELSE c
  BY DEF Metering!Counters
<1>2. /\ work \in Work /\ tracker \in Meter
      /\ Metering!CanRead(work.input) /\ work.out <= Metering!Ceiling /\ "error" \notin work.sent
      /\ tracker.input \in {Metering!NoUsage, work.input}
      /\ tracker.out <= work.out /\ tracker.tools <= work.tools
      /\ Closing \in tracker.marks => Closing \in work.sent
  BY <1>1 DEF MeteringInv, MeteringTypeInv, MeterFollows
<1>3. mark \in Mark /\ "error" # mark
  BY DEF Mark
<1>4. /\ work' \in Work /\ work'.out = work.out /\ work'.sent = sent
      /\ UNCHANGED <<work.input, work.tools>>
  BY <1>1, <1>2, <1>3, WorkGrows DEF Work
<1>5. MayCount(tracker)
  BY <1>2, <1>4 DEF MayCount
<1>6. /\ c \in Meter /\ c.marks = tracker.marks \cup {mark} /\ c.found
      /\ ~c.incomplete => sane
      /\ c.input \in {Metering!NoUsage, work.input} /\ c.input = work.input
      /\ c.out <= work'.out /\ (sane => c.out = work'.out)
      /\ c.tools <= work.tools /\ (req.shape = "anthropic" => c.tools = work.tools)
  <2>1. HasCounted(c, tracker, mark, fields, sane)
    BY <1>2, <1>3, <1>4, <1>5, CountedShape, Zenon
  <2> QED
    BY <2>1 DEF HasCounted
<1>7. mark = Closing \/ (mark = "start" /\ Closing \notin tracker.marks)
  <2>1. \/ req.shape = "anthropic" /\ mark = "start" /\ work.sent = {}
        \/ req.shape = "anthropic" /\ mark = "delta"
        \/ req.shape = "openai" /\ mark = "usage"
        \/ req.shape \notin {"anthropic", "openai"} /\ mark = "last"
    BY <1>1 DEF Metering!MaySend
  <2> QED
    BY <1>2, <2>1 DEF Closing
<1> HIDE DEF c, sent
<1>8. /\ tracker' \in Meter /\ tracker'.found
      /\ UNCHANGED Closing
      /\ Closing \in tracker'.marks <=> Closing \in c.marks
      /\ tracker'.incomplete = c.incomplete /\ tracker'.input = c.input
      /\ tracker'.out = c.out /\ tracker'.tools = c.tools
  <2>1. UNCHANGED Closing
    BY <1>1 DEF Closing
  <2>2. CASE mark # "last"
    BY <1>1, <1>6, <2>1, <2>2
  <2>3. CASE mark = "last"
    <3>1. tracker' = [c EXCEPT !.marks = more] /\ Closing = "last"
      BY <1>1, <1>7, <2>3
    <3>2. more \in SUBSET Mark
      BY <1>6 DEF Meter, Mark
    <3>3. "last" \in more <=> "last" \in c.marks
      OBVIOUS
    <3> HIDE DEF more
    <3>4. /\ tracker' \in Meter /\ tracker'.marks = more /\ tracker'.found = c.found
          /\ tracker'.incomplete = c.incomplete /\ tracker'.input = c.input
          /\ tracker'.out = c.out /\ tracker'.tools = c.tools
      BY <1>6, <3>1, <3>2 DEF Meter
    <3> QED
      BY <1>6, <2>1, <3>1, <3>3, <3>4
  <2> QED
    BY <2>2, <2>3
<1>9. Metering!CanRead(work.input)' /\ Metering!Ceiling' = Metering!Ceiling
  BY <1>1, <1>2, <1>4 DEF Metering!CanRead, Metering!Total, Metering!Ceiling
<1>10. "error" \notin work'.sent /\ (Closing \in tracker'.marks => Closing \in work'.sent)
  BY <1>2, <1>3, <1>4, <1>6, <1>7, <1>8 DEF sent
<1>11. Closing \in tracker'.marks => mark = Closing
  BY <1>6, <1>7, <1>8 DEF Closing
<1>12. MeterFollows'
  BY <1>1, <1>2, <1>4, <1>6, <1>7, <1>8, <1>9, <1>10, <1>11 DEF MeterFollows
<1> QED
  BY <1>1, <1>4, <1>8, <1>12, StreamKeeps

LEMMA StopsKeeps ==
  ASSUME MeteringInv, Metering!Stops
  PROVE  MeteringInv'
<1> DEFINE sent == work.sent \cup {"stop"}
           counted == tracker.marks \cup {"stop"}
<1>1. /\ stage = "streaming" /\ UNCHANGED <<table, req, admission, stage>>
      /\ work' = [work EXCEPT !.sent = sent] /\ tracker' = [tracker EXCEPT !.marks = counted]
  BY DEF Metering!Stops
<1>2. work \in Work /\ tracker \in Meter /\ MeterFollows
  BY DEF MeteringInv, MeteringTypeInv
<1>3. sent \in SUBSET Mark /\ counted \in SUBSET Mark
  BY <1>2 DEF Work, Meter, Mark
<1>4. Closing # "stop" /\ UNCHANGED Closing
  BY <1>1 DEF Closing
<1>5. /\ Closing \in counted <=> Closing \in tracker.marks
      /\ Closing \in work.sent => Closing \in sent
      /\ "error" \in sent <=> "error" \in work.sent
  BY <1>4
<1> HIDE DEF sent, counted
<1>6. /\ work' \in Work /\ work'.sent = sent /\ UNCHANGED <<work.input, work.out, work.tools>>
  BY <1>1, <1>2, <1>3 DEF Work
<1>7. /\ tracker' \in Meter /\ tracker'.marks = counted
      /\ UNCHANGED <<tracker.input, tracker.out, tracker.tools, tracker.found, tracker.incomplete>>
  BY <1>1, <1>2, <1>3 DEF Meter
<1>8. (Metering!CanRead(work.input)' <=> Metering!CanRead(work.input)) /\ UNCHANGED Metering!Ceiling
  BY <1>1, <1>6 DEF Metering!CanRead, Metering!Total, Metering!Ceiling
<1>9. MeterFollows'
  BY <1>1, <1>2, <1>4, <1>5, <1>6, <1>7, <1>8 DEF MeterFollows
<1> QED
  BY <1>1, <1>6, <1>7, <1>9, StreamKeeps

\* A row of a response that got one, and was not counted whole, is unsafe.
LEMMA UnsafeUnlessExact ==
  ASSUME NEW ok \in BOOLEAN, NEW u \in Verdict,
         LET made == Made(ok, u) IN ~made.unsafe /\ (made.ok \/ made.usage # "missing")
  PROVE  Made(ok, u).usage = "exact"
<1> DEFINE v == IF ok THEN Metering!Completed(u) ELSE u
           made == Metering!Row(ok, v)
           usage == made.usage
           pricing == made.pricing
           fee == made.fee
           unsafe == /\ ok \/ usage # "missing"
                     /\ usage # "exact" \/ pricing # "priced" \/ fee
<1>1. made.ok = ok /\ made.unsafe = unsafe
  BY Zenon DEF Metering!Row
<1>2. made = Made(ok, u)
  BY DEF Made
<1> HIDE DEF made
<1> QED
  BY <1>1, <1>2

\* What the work is charged at stays with its labels.
LEMMA PricesStay ==
  ASSUME UNCHANGED <<table, req, work.served, work.final>>
  PROVE  UNCHANGED <<Metering!TrueLabels, Metering!TruePrice, Metering!Labels(Metering!Unreported)>>
<1>1. \A v : Metering!Labels(v)' = Metering!Labels(v)
  BY Zenon DEF Metering!Labels
<1>2. work'.served = work.served /\ work'.final = work.final /\ req' = req /\ table' = table
  OBVIOUS
<1>3. Metering!TrueLabels' = Metering!Labels(work'.served)
  BY <1>2, Zenon DEF Metering!TrueLabels, Metering!Labels
<1>4. Metering!TrueLabels' = Metering!TrueLabels
  BY <1>2, <1>3, Zenon DEF Metering!TrueLabels
<1>5. Metering!TruePrice' = Metering!TruePrice
  <2> DEFINE as == Metering!TrueLabels
             call == Metering!Call(as.model, as.region, as.tier, work.final)
  <2>1. call' = call
    <3>1. as' = as
      BY <1>4
    <3> HIDE DEF as
    <3> QED
      BY <1>2, <3>1, Zenon DEF Metering!Call
  <2>2. Metering!TruePrice = Metering!Resolve(table, call)
    BY Zenon DEF Metering!TruePrice
  <2>3. Metering!TruePrice' = Metering!Resolve(table, call)'
    BY Zenon DEF Metering!TruePrice
  <2> HIDE DEF call
  <2>4. Metering!Resolve(table, call)' = Metering!Resolve(table, call)
    BY <2>1, Zenon DEF Metering!Resolve, Metering!Winner, Metering!ListKey
  <2> QED
    BY <2>2, <2>3, <2>4, Zenon
<1>6. Metering!Labels(Metering!Unreported)' = Metering!Labels(Metering!Unreported)
  BY <1>2, Zenon DEF Metering!Labels, Metering!Unreported
<1> QED
  BY <1>4, <1>5, <1>6, Zenon

\* The end of a response: what is owed, and what was reserved.
LEMMA SettledKeeps ==
  ASSUME MeteringInv, stage = "streaming", stage' = "settled",
         UNCHANGED <<table, req, admission, tracker>>,
         work' \in Work, UNCHANGED <<work.input, work.served, work.final>>,
         NEW ok \in BOOLEAN, NEW u \in Verdict, metered' = Made(ok, u),
         Made(ok, u).usage = "exact" =>
           /\ u.served = work.served
           /\ u.input \in {Metering!NoUsage, work.input} /\ u.out <= Metering!Ceiling
           /\ ~Metering!EndsUnseen' /\ (Metering!ToolUnreported' => work.final >= 0) =>
                /\ u.input = work.input /\ u.out = work'.out
                /\ work.final >= 0 \/ work'.tools = 0 \/ u.tools = work'.tools
  PROVE  MeteringInv'
<1> DEFINE made == Made(ok, u)
<1>1. MeteringTypeInv /\ work \in Work /\ tracker \in Meter /\ Loaded
  BY DEF MeteringInv, MeteringTypeInv
<1>2. Loaded'
  BY <1>1 DEF Loaded, Metering!ValidContracts
<1>3. MeteringTypeInv' /\ NothingYet' /\ MeterFollows' /\ Reserved'
  <2>1. MeteringTypeInv' /\ NothingYet' /\ MeterFollows'
    BY <1>1, <1>2 DEF MeteringTypeInv, NothingYet, MeterFollows
  <2>2. Reserved'
    BY ReservedStays DEF MeteringInv
  <2> QED
    BY <2>1, <2>2
<1>4. UNCHANGED <<Metering!TrueLabels, Metering!TruePrice, Metering!Labels(Metering!Unreported)>>
  BY PricesStay
<1>5. Metering!Bill' = BillOf(work'.out, work'.tools)
  <2>1. /\ work'.final = work.final /\ work'.input = work.input
        /\ Metering!TrueLabels' = Metering!TrueLabels /\ Metering!TruePrice' = Metering!TruePrice
    BY <1>4
  <2>2. Metering!Bill'
          = IF work'.final >= 0 THEN 10 * work'.final
            ELSE Metering!ResolvedCost(Metering!TruePrice', Metering!Produced(work'.input, work'.out),
                                       Metering!TrueLabels'.region)
                 + Fee * ( work'.tools
                         + (IF \/ Metering!TierPriced(Metering!TrueLabels'.tier)
                               \/ Metering!TruePrice'.coversTier THEN 0 ELSE 1)
                         + (IF \/ Metering!GeoKnown(Metering!TrueLabels'.region)
                               \/ Metering!TruePrice'.coversRegion THEN 0 ELSE 1))
    BY Zenon DEF Metering!Bill, Metering!ResolvedCost, Metering!Produced, Metering!GeoKnown,
       Metering!TierPriced
  <2> QED
    BY <2>1, <2>2, Zenon DEF BillOf
<1>6. SafeRowsPayTheBill'
  <2> SUFFICES ASSUME ~made.unsafe, made.ok \/ made.usage # "missing", ~Metering!EndsUnseen',
                      Metering!ToolUnreported' => work.final >= 0
               PROVE  made.cost = BillOf(work'.out, work'.tools)
    BY <1>5 DEF SafeRowsPayTheBill, Metering!SafeRowsPayTheBill
  <2>1. made.usage = "exact"
    BY UnsafeUnlessExact
  <2>2. /\ u.served = work.served /\ u.input = work.input /\ u.out = work'.out
        /\ work.final >= 0 \/ work'.tools = 0 \/ u.tools = work'.tools
    BY <2>1
  <2>3. work'.out \in Nat /\ work'.tools \in Nat
    BY DEF Work
  <2> QED
    BY <1>1, <2>1, <2>2, <2>3, ExactRowPays
<1>7. BoundHolds'
  <2> SUFFICES ASSUME made.usage = "exact", admission.bounded, admission.priced,
                      work.final = Metering!NoFinal,
                      Metering!TrueLabels = Metering!Labels(Metering!Unreported),
                      Metering!HourCostsMost(Metering!TruePrice.price)
               PROVE  made.cost <= admission.usd
    <3>1. /\ Metering!TrueLabels' = Metering!TrueLabels
          /\ Metering!Labels(Metering!Unreported)' = Metering!Labels(Metering!Unreported)
          /\ Metering!HourCostsMost(Metering!TruePrice.price)'
               = Metering!HourCostsMost(Metering!TruePrice.price)
          /\ admission' = admission /\ work'.final = work.final /\ metered' = made
      BY <1>4, Zenon DEF Metering!HourCostsMost
    <3> QED
      BY <3>1, Zenon DEF BoundHolds, Metering!BoundHolds
  <2>1. /\ u.served = work.served /\ u.input \in {Metering!NoUsage, work.input}
        /\ u.out <= Metering!Ceiling
    OBVIOUS
  <2>2. u.input.in + u.input.read + u.input.write <= req.bytes /\ u.input.hour <= u.input.write
    <3>1. Metering!CanRead(work.input)
      BY DEF MeteringInv, MeterFollows
    <3>2. req.bytes \in Nat
      BY <1>1, MeteringConstants DEF Loaded, Metering!MeteringAssumption
    <3> QED
      BY <2>1, <3>1, <3>2 DEF Metering!CanRead, Metering!Total, Metering!NoUsage
  <2> QED
    BY <1>1, <2>1, <2>2, ExactRowIsBounded DEF MeteringInv
<1> QED
  BY <1>3, <1>6, <1>7 DEF MeteringInv
LEMMA CeilingIsInt ==
  ASSUME Loaded
  PROVE  Metering!Ceiling \in Int
<1>1. req.bound \in Int /\ MaxOut \in Int
  BY MeteringConstants DEF Metering!MeteringAssumption, Loaded
<1>2. Metering!Min({MaxOut, req.bound}) \in {MaxOut, req.bound}
  BY <1>1, MeteringExtremes, Zenon
<1> QED
  BY <1>1, <1>2 DEF Metering!Ceiling

\* The verdict on a body: only a whole one is taken as counted.
LEMMA BodyVerdict ==
  ASSUME work \in Work, NEW kind, NEW out \in Nat, NEW tools \in Nat
  PROVE  LET u == Metering!BodyUsage(kind, out, tools)
         IN /\ u \in Verdict
            /\ u.found /\ ~u.incomplete =>
                 /\ u.served = work.served /\ u.input = work.input /\ u.out = out
                 /\ req.shape = "anthropic" => u.tools = tools
<1> DEFINE used == IF req.shape = "anthropic" THEN tools ELSE 0
           whole == Metering!Whole(out, tools)
           u == Metering!BodyUsage(kind, out, tools)
<1>1. whole = [input |-> work.input, served |-> work.served, found |-> TRUE, exact |-> TRUE,
               tools |-> used, out |-> out, incomplete |-> FALSE]
  BY Zenon DEF Metering!Whole
<1>2. used \in Nat /\ (req.shape = "anthropic" => used = tools)
  OBVIOUS
<1> HIDE DEF used, whole
<1>3. /\ whole \in Verdict /\ whole.served = work.served /\ whole.input = work.input
      /\ whole.out = out /\ whole.tools = used
  BY <1>1, <1>2 DEF Work, Verdict
<1>4. CASE kind = "whole"
  <2>1. u = whole
    BY <1>4 DEF Metering!BodyUsage, whole
  <2> QED
    BY <1>2, <1>3, <2>1
<1>5. CASE kind = "insane"
  <2>1. u = [whole EXCEPT !.out = 0, !.exact = FALSE, !.incomplete = TRUE]
    BY <1>5 DEF Metering!BodyUsage, Metering!Insane, whole
  <2> HIDE DEF u
  <2>2. u \in Verdict /\ u.incomplete = TRUE
    BY <1>3, <2>1 DEF Verdict
  <2> QED
    BY <2>2 DEF u
<1>6. CASE kind \notin {"whole", "insane"}
  <2> DEFINE none == Metering!NotFound
  <2>1. none = [input |-> Metering!NoUsage, tools |-> 0, found |-> FALSE,
                served |-> Metering!Unreported, out |-> 0, exact |-> FALSE, incomplete |-> FALSE]
    BY DEF Metering!NotFound
  <2>2. Metering!NoUsage \in Metering!Counts
    BY DEF Metering!NoUsage, Metering!Counts
  <2>3. u = none \/ u = [none EXCEPT !.exact = FALSE, !.incomplete = TRUE]
    BY <1>6, Zenon DEF Metering!BodyUsage, Metering!Cut
  <2> HIDE DEF none, u
  <2>4. none \in Verdict /\ none.found = FALSE
    BY <2>1, <2>2 DEF Verdict
  <2>5. u \in Verdict /\ u.found = FALSE
    BY <2>3, <2>4 DEF Verdict
  <2> QED
    BY <2>5 DEF u
<1> QED
  BY <1>4, <1>5, <1>6


\* The verdict on a stream, cut or not.
LEMMA StreamVerdict ==
  ASSUME MeteringTypeInv, NEW failed \in BOOLEAN
  PROVE  LET u == Metering!Cut(Metering!StreamUsage, failed)
         IN /\ u \in Verdict
            /\ u.found /\ ~u.incomplete =>
                 /\ ~failed /\ Metering!Complete /\ ~tracker.incomplete
                 /\ u.served = work.served /\ u.input = tracker.input
                 /\ u.out = tracker.out /\ u.tools = tracker.tools
<1> DEFINE exact == Metering!Complete /\ ~tracker.incomplete
           estimated == /\ tracker.found
                        /\ IF req.shape = "anthropic" THEN ~exact ELSE ~Metering!Complete
           served == IF tracker.found THEN work.served ELSE Metering!Unreported
           seen == tracker.out
           units == tracker.units
           out == IF estimated THEN Metering!Max({seen, units}) ELSE seen
           partial == tracker.incomplete \/ estimated
           v == Metering!StreamUsage
           u == Metering!Cut(v, failed)
<1>1. tracker \in Meter /\ work \in Work /\ exact \in BOOLEAN /\ estimated \in BOOLEAN
  BY DEF MeteringTypeInv, Metering!Complete, Metering!AnthropicComplete, Metering!OpenAIComplete,
     Metering!GeminiComplete
<1>2. v = [input |-> tracker.input, tools |-> tracker.tools, found |-> tracker.found,
           served |-> served, out |-> out, exact |-> exact, incomplete |-> partial]
  BY Zenon DEF Metering!StreamUsage
<1>3. tracker.found /\ ~partial => exact
  BY <1>1
<1>4. exact => Metering!Complete /\ ~tracker.incomplete /\ ~estimated
  BY <1>1
<1>5. served \in Served \cup {Metering!Unreported} /\ (tracker.found => served = work.served)
  BY <1>1 DEF Work
<1>6. seen \in Nat /\ units \in Nat
  BY <1>1 DEF Meter
<1>7. partial \in BOOLEAN
  BY <1>1 DEF Meter
<1> HIDE DEF exact, partial, served, v, u, seen, units, estimated
<1>8. out \in Nat /\ (~estimated => out = seen)
  <2>1. seen \in Int /\ units \in Int
    BY <1>6
  <2>2. Metering!Max({seen, units}) \in {seen, units}
    BY <2>1, MeteringExtremes, Zenon
  <2> QED
    BY <1>6, <2>2
<1> HIDE DEF out
<1>9. /\ v \in Verdict /\ v.exact = exact /\ v.incomplete = partial /\ v.found = tracker.found
      /\ v.served = served /\ v.input = tracker.input /\ v.out = out /\ v.tools = tracker.tools
  BY <1>1, <1>2, <1>5, <1>7, <1>8 DEF Verdict, Meter
<1>10. CASE failed
  <2>1. u = [v EXCEPT !.exact = FALSE, !.incomplete = TRUE]
    BY <1>10 DEF u, Metering!Cut
  <2>2. u \in Verdict /\ u.incomplete = TRUE
    BY <1>9, <2>1 DEF Verdict
  <2> QED
    BY <2>2 DEF u, v
<1>11. CASE ~failed
  <2>1. u = v
    BY <1>11 DEF u, Metering!Cut
  <2>2. u.found /\ ~u.incomplete => exact /\ tracker.found
    BY <1>3, <1>9, <2>1
  <2>3. seen = tracker.out
    BY DEF seen
  <2>4. /\ u \in Verdict
        /\ u.found /\ ~u.incomplete =>
             /\ ~failed /\ Metering!Complete /\ ~tracker.incomplete
             /\ u.served = work.served /\ u.input = tracker.input
             /\ u.out = tracker.out /\ u.tools = tracker.tools
    BY <1>4, <1>5, <1>8, <1>9, <1>11, <2>1, <2>2, <2>3
  <2> QED
    BY <2>4 DEF u, v
<1> QED
  BY <1>10, <1>11

LEMMA StreamEndsKeeps ==
  ASSUME MeteringInv, NEW ok \in BOOLEAN, NEW failed \in BOOLEAN,
         Metering!StreamEnds(ok, failed)
  PROVE  MeteringInv'
<1> DEFINE cut == failed \/ (tracker.skipped /\ ~Metering!StreamUsage.exact)
           sent == IF failed THEN work.sent \cup {"error"} ELSE work.sent
           u == Metering!Cut(Metering!StreamUsage, cut)
<1>1. /\ stage = "streaming" /\ stage' = "settled" /\ UNCHANGED <<table, req, admission, tracker>>
      /\ req.stream /\ work' = [work EXCEPT !.sent = sent] /\ metered' = Made(ok, u)
  BY DEF Metering!StreamEnds, Metering!Settled, Made
<1>2. MeteringTypeInv /\ MeterFollows /\ work \in Work /\ tracker \in Meter
  BY DEF MeteringInv, MeteringTypeInv
<1>3. cut \in BOOLEAN /\ (~cut => ~failed)
  BY <1>2 DEF Meter
<1>4. sent \in SUBSET Mark /\ (~failed => sent = work.sent)
  BY <1>2 DEF Work, Mark
<1> HIDE DEF cut, sent
<1>5. /\ u \in Verdict
      /\ u.found /\ ~u.incomplete =>
           /\ ~cut /\ Metering!Complete /\ ~tracker.incomplete
           /\ u.served = work.served /\ u.input = tracker.input
           /\ u.out = tracker.out /\ u.tools = tracker.tools
  BY <1>2, <1>3, StreamVerdict
<1> HIDE DEF u
<1>6. /\ work' \in Work /\ work'.sent = sent
      /\ UNCHANGED <<work.input, work.served, work.final, work.out, work.tools>>
  BY <1>1, <1>2, <1>4 DEF Work
<1>7. ASSUME Made(ok, u).usage = "exact"
      PROVE  /\ u.served = work.served
             /\ u.input \in {Metering!NoUsage, work.input} /\ u.out <= Metering!Ceiling
             /\ ~Metering!EndsUnseen' /\ (Metering!ToolUnreported' => work.final >= 0) =>
                  /\ u.input = work.input /\ u.out = work'.out
                  /\ work.final >= 0 \/ work'.tools = 0 \/ u.tools = work'.tools
  <2>1. u.found /\ ~u.incomplete
    BY <1>5, <1>7, ExactRow, Zenon
  <2>2. /\ ~cut /\ Metering!Complete /\ ~tracker.incomplete
        /\ u.served = work.served /\ u.input = tracker.input
        /\ u.out = tracker.out /\ u.tools = tracker.tools
    BY <1>5, <2>1
  <2>3. u.input \in {Metering!NoUsage, work.input} /\ u.out <= Metering!Ceiling
    <3>1. /\ tracker.out <= work.out /\ work.out <= Metering!Ceiling
          /\ tracker.input \in {Metering!NoUsage, work.input}
      BY <1>1, <1>2 DEF MeterFollows
    <3>2. Metering!Ceiling \in Int /\ tracker.out \in Int /\ work.out \in Int
      BY <1>2, CeilingIsInt DEF MeteringTypeInv, Work, Meter
    <3> QED
      BY <2>2, <3>1, <3>2
  <2>4. ASSUME ~Metering!EndsUnseen', Metering!ToolUnreported' => work.final >= 0
        PROVE  /\ u.input = work.input /\ u.out = work'.out
               /\ work.final >= 0 \/ work'.tools = 0 \/ u.tools = work'.tools
    <3>1. Closing \in tracker.marks
      <4>1. req.shape \in {"anthropic", "openai", "gemini"}
        BY <1>2, MeteringConstants DEF MeteringTypeInv, Loaded, Metering!MeteringAssumption
      <4>2. CASE req.shape = "anthropic"
        BY <2>2, <4>2 DEF Metering!Complete, Metering!AnthropicComplete, Closing
      <4>3. CASE req.shape = "openai"
        BY <2>2, <4>3 DEF Metering!Complete, Metering!OpenAIComplete, Closing
      <4>4. CASE req.shape = "gemini"
        <5>1. "error" \notin work'.sent
          BY <1>1, <1>2, <1>3, <1>4, <1>6, <2>2 DEF MeterFollows
        <5>2. "last" \in tracker.marks
          BY <1>1, <2>4, <4>4, <5>1 DEF Metering!EndsUnseen
        <5> QED
          BY <4>4, <5>2 DEF Closing
      <4> QED
        BY <4>1, <4>2, <4>3, <4>4
    <3>2. /\ tracker.input = work.input /\ tracker.out = work.out
          /\ req.shape = "anthropic" => tracker.tools = work.tools
      BY <1>1, <1>2, <2>2, <3>1 DEF MeterFollows
    <3>3. work'.tools \in Nat
      BY <1>6 DEF Work
    <3>4. work.final >= 0 \/ work'.tools = 0 \/ req.shape = "anthropic"
      BY <1>1, <2>4, <3>3 DEF Metering!ToolUnreported
    <3> QED
      BY <1>6, <2>2, <3>2, <3>4
  <2> QED
    BY <2>2, <2>3, <2>4
<1> QED
  BY <1>1, <1>5, <1>6, <1>7, SettledKeeps

LEMMA BodyEndsKeeps ==
  ASSUME MeteringInv, NEW ok \in BOOLEAN, NEW kind \in {"whole", "insane", "none", "oversized", "torn"},
         NEW out \in 0..MaxOut, NEW tools \in 0..MaxTools, Metering!BodyEnds(ok, kind, out, tools)
  PROVE  MeteringInv'
<1> DEFINE u == Metering!BodyUsage(kind, out, tools)
<1>1. /\ stage = "streaming" /\ stage' = "settled" /\ UNCHANGED <<table, req, admission, tracker>>
      /\ out <= Metering!Ceiling /\ metered' = Made(ok, u)
      /\ work' = [work EXCEPT !.out = out, !.tools = tools]
  BY DEF Metering!BodyEnds, Metering!Settled, Made
<1>2. work \in Work /\ out \in Nat /\ tools \in Nat
  BY DEF MeteringInv, MeteringTypeInv
<1>3. /\ work' \in Work /\ work'.out = out /\ work'.tools = tools
      /\ UNCHANGED <<work.input, work.served, work.final>>
  BY <1>1, <1>2 DEF Work
<1>4. /\ u \in Verdict
      /\ u.found /\ ~u.incomplete =>
           /\ u.served = work.served /\ u.input = work.input /\ u.out = out
           /\ req.shape = "anthropic" => u.tools = tools
  BY <1>2, BodyVerdict
<1> HIDE DEF u
<1>5. ASSUME Made(ok, u).usage = "exact"
      PROVE  /\ u.served = work.served
             /\ u.input \in {Metering!NoUsage, work.input} /\ u.out <= Metering!Ceiling
             /\ ~Metering!EndsUnseen' /\ (Metering!ToolUnreported' => work.final >= 0) =>
                  /\ u.input = work.input /\ u.out = work'.out
                  /\ work.final >= 0 \/ work'.tools = 0 \/ u.tools = work'.tools
  <2>1. /\ u.served = work.served /\ u.input = work.input /\ u.out = out
        /\ req.shape = "anthropic" => u.tools = tools
    BY <1>4, <1>5, ExactRow
  <2>2. ASSUME Metering!ToolUnreported' => work.final >= 0
        PROVE  work.final >= 0 \/ work'.tools = 0 \/ u.tools = work'.tools
    BY <1>1, <1>2, <1>3, <2>1, <2>2 DEF Metering!ToolUnreported
  <2> QED
    BY <1>1, <1>3, <2>1, <2>2
<1> QED
  BY <1>1, <1>3, <1>4, <1>5, SettledKeeps

\* A failed exchange owes nothing, and says nothing of the charge.
LEMMA TransportFailsKeeps ==
  ASSUME MeteringInv, Metering!TransportFails
  PROVE  MeteringInv'
<1> DEFINE made == [usage |-> "missing", pricing |-> "unmetered", fee |-> FALSE, ok |-> FALSE,
                    cost |-> 0, unsafe |-> TRUE]
<1>1. /\ stage = "sent" /\ stage' = "settled" /\ metered' = made
      /\ UNCHANGED <<table, req, admission, work, tracker>>
  BY DEF Metering!TransportFails
<1>2. made.usage = "missing" /\ made.unsafe
  OBVIOUS
<1> HIDE DEF made
<1>3. SafeRowsPayTheBill' /\ BoundHolds'
  BY <1>1, <1>2 DEF SafeRowsPayTheBill, BoundHolds, Metering!SafeRowsPayTheBill, Metering!BoundHolds
<1>4. Loaded'
  BY <1>1 DEF MeteringInv, MeteringTypeInv, Loaded, Metering!ValidContracts
<1>5. MeteringTypeInv' /\ NothingYet' /\ MeterFollows'
  BY <1>1, <1>4 DEF MeteringInv, MeteringTypeInv, NothingYet, MeterFollows
<1>6. Reserved'
  BY <1>1, ReservedStays DEF MeteringInv
<1> QED
  BY <1>3, <1>5, <1>6 DEF MeteringInv

LEMMA MeteringStarts ==
  ASSUME Metering!Init
  PROVE  MeteringInv
<1>1. /\ Loaded /\ stage = "idle" /\ tracker = Metering!NewTracker
      /\ work = [input |-> Metering!NoUsage, out |-> 0, tools |-> 0, final |-> Metering!NoFinal,
                 sent |-> {}, served |-> Metering!Unreported]
  BY DEF Metering!Init, Loaded
<1>2. work \in Work /\ work.out = 0 /\ work.tools = 0 /\ work.sent = {}
  BY <1>1 DEF Work, Metering!NoUsage, Metering!Counts, Metering!NoFinal
<1>3. MeteringTypeInv /\ NothingYet /\ MeterFollows /\ Reserved
  BY <1>1, <1>2, IdleMeter DEF MeteringTypeInv, NothingYet, MeterFollows, Reserved
<1>4. SafeRowsPayTheBill /\ BoundHolds
  BY <1>1 DEF SafeRowsPayTheBill, BoundHolds, Metering!SafeRowsPayTheBill, Metering!BoundHolds,
     Metering!Settlement
<1> QED
  BY <1>3, <1>4 DEF MeteringInv

LEMMA RowsStay ==
  ASSUME SafeRowsPayTheBill, BoundHolds,
         UNCHANGED <<table, req, admission, work, tracker, stage, metered>>
  PROVE  SafeRowsPayTheBill' /\ BoundHolds'
<1>1. UNCHANGED <<Metering!TrueLabels, Metering!TruePrice, Metering!Labels(Metering!Unreported)>>
  BY PricesStay
<1>2. Metering!Bill' = Metering!Bill
  BY <1>1, Zenon DEF Metering!Bill, Metering!ResolvedCost, Metering!Produced, Metering!GeoKnown,
     Metering!TierPriced
<1>3. UNCHANGED <<Metering!EndsUnseen, Metering!ToolUnreported, Metering!Settlement>>
  BY Zenon DEF Metering!EndsUnseen, Metering!ToolUnreported, Metering!Settlement
<1>4. SafeRowsPayTheBill'
  BY <1>2, <1>3, Zenon DEF SafeRowsPayTheBill, Metering!SafeRowsPayTheBill
<1>5. UNCHANGED Metering!HourCostsMost(Metering!TruePrice.price)
  BY <1>1, Zenon DEF Metering!HourCostsMost
<1>6. BoundHolds'
  BY <1>1, <1>3, <1>5, Zenon DEF BoundHolds, Metering!BoundHolds
<1> QED
  BY <1>4, <1>6

LEMMA MeteringStep ==
  ASSUME MeteringInv, [Metering!Next]_Metering!vars
  PROVE  MeteringInv'
<1>1. CASE Metering!Admit
  BY <1>1, AdmitKeeps
<1>2. CASE Metering!TransportFails
  BY <1>2, TransportFailsKeeps
<1>3. CASE \E i \in Input, v \in Served, f \in Final : Metering!Responds(i, v, f)
  BY <1>3, RespondsKeeps
<1>4. CASE Metering!Thinks \/ Metering!LongText
  BY <1>4, ThinksKeeps
<1>5. CASE Metering!RunsTool
  BY <1>5, RunsToolKeeps
<1>6. CASE Metering!Text
  BY <1>6, TextKeeps
<1>7. CASE \E fields \in SUBSET {"input", "out"} : Metering!Chunk(fields)
  BY <1>7, ChunkKeeps
<1>8. CASE \E mark \in {"start", "delta", "usage", "last"}, sane \in BOOLEAN :
             Metering!Counters(mark, sane)
  BY <1>8, CountersKeeps
<1>9. CASE Metering!Stops
  BY <1>9, StopsKeeps
<1>10. CASE \E ok, failed \in BOOLEAN : Metering!StreamEnds(ok, failed)
  BY <1>10, StreamEndsKeeps
<1>11. CASE \E ok \in BOOLEAN, kind \in {"whole", "insane", "none", "oversized", "torn"},
               out \in 0..MaxOut, tools \in 0..MaxTools : Metering!BodyEnds(ok, kind, out, tools)
  BY <1>11, BodyEndsKeeps
<1>12. CASE UNCHANGED Metering!vars
  <2>1. UNCHANGED <<table, req, admission, work, tracker, stage, metered>>
    BY <1>12 DEF Metering!vars
  <2>2. Loaded' /\ UNCHANGED Closing /\ UNCHANGED Metering!Ceiling
    BY <2>1 DEF MeteringInv, MeteringTypeInv, Loaded, Metering!ValidContracts, Closing,
       Metering!Ceiling
  <2>3. Metering!CanRead(work.input)' <=> Metering!CanRead(work.input)
    BY <2>1 DEF Metering!CanRead, Metering!Total
  <2>4. MeteringTypeInv' /\ NothingYet' /\ MeterFollows'
    BY <2>1, <2>2, <2>3 DEF MeteringInv, MeteringTypeInv, NothingYet, MeterFollows
  <2>5. Reserved'
    BY <2>1, ReservedStays DEF MeteringInv, Reserved
  <2>6. SafeRowsPayTheBill' /\ BoundHolds'
    BY <2>1, RowsStay DEF MeteringInv
  <2> QED
    BY <2>4, <2>5, <2>6 DEF MeteringInv
<1> QED
  BY <1>1, <1>2, <1>3, <1>4, <1>5, <1>6, <1>7, <1>8, <1>9, <1>10, <1>11, <1>12 DEF Metering!Next

\* Whatever is cut, skipped, garbled, estimated or missing on the way, a row
\* that budgets may rely on costs what the provider charged: for any contracts,
\* list, requests, labels and lengths of a response.
THEOREM SafeRowsPay == Metering!Spec => []SafeRowsPayTheBill
<1>1. Metering!Init => MeteringInv
  BY MeteringStarts
<1>2. MeteringInv /\ [Metering!Next]_Metering!vars => MeteringInv'
  BY MeteringStep
<1>3. MeteringInv => SafeRowsPayTheBill
  BY DEF MeteringInv
<1> QED
  BY <1>1, <1>2, <1>3, PTL DEF Metering!Spec

\* The bound reserved for a call covers its exact cost, at any price whose
\* dearest input is a write kept for an hour.
THEOREM BoundsCover == Metering!Spec => []BoundHolds
<1>1. Metering!Init => MeteringInv
  BY MeteringStarts
<1>2. MeteringInv /\ [Metering!Next]_Metering!vars => MeteringInv'
  BY MeteringStep
<1>3. MeteringInv => BoundHolds
  BY DEF MeteringInv
<1> QED
  BY <1>1, <1>2, <1>3, PTL DEF Metering!Spec
=============================================================================
