---------------------------- MODULE SignedIdentity ----------------------------
(***************************************************************************)
(* Device-signed requests (internal/identity, the proxy's                  *)
(* requestPolicyAttribution and the store's nonces).                       *)
(*                                                                         *)
(* A device issues short-lived claims for single requests under a grant    *)
(* that a sync client, outside the repository, keeps in the settings.  A   *)
(* handler notes the time, receives the body, loads the grant, verifies    *)
(* the claim against both and consumes its nonce, with the time it noted.  *)
(*                                                                         *)
(* A signature is a fact about a claim: whether the key of its id made it. *)
(* A request is the digest of its route, query and body.  A tick is a few  *)
(* seconds.                                                                *)
(***************************************************************************)
EXTENDS Integers, FiniteSets

CONSTANTS
  Request, Project,
  Grant,        \* [key, projects, lasts] of the grants the sync client may store
  Handler,
  MaxTTL,       \* MaxClaimTTL
  MaxSkew,      \* MaxClockSkew
  MaxTime, MaxClaims,
  NoGrant, NoClaim

\* Assumed by whoever instantiates the module, and by its theorems.
IdentityAssumption ==
  /\ MaxTTL \in Nat /\ MaxSkew \in Nat /\ MaxTime \in Nat /\ MaxClaims \in Nat
  /\ \A g \in Grant : g.lasts \in Nat

VARIABLES
  clock,
  grant,       \* _identity_trust_grant_v1: [key, projects, from, until], or NoGrant
  owned,       \* the trust source is the ledger's external policy source
  claims,      \* what devices have issued
  nonces,      \* identity_nonces: [nonce, expires]
  handler,     \* handler[h]: [at, now, claim, request, grant, confidence]
  accepted,    \* accepted[n]: how often the claim with nonce n was let through
  reused,      \* claims let through again before their expiry
  latch        \* why persistenceErr is set: "ledger", "envelope", or "clear"

vars == <<clock, grant, owned, claims, nonces, handler, accepted, reused, latch>>

Idle == [at |-> "idle", now |-> 0, claim |-> NoClaim, request |-> 0,
         grant |-> NoGrant, confidence |-> "unverified"]

Init ==
  /\ clock = 1 /\ claims = {} /\ nonces = {}
  /\ grant = NoGrant /\ owned \in BOOLEAN
  /\ handler = [h \in Handler |-> Idle]
  /\ accepted = [n \in 1..MaxClaims |-> 0] /\ reused = {}
  /\ latch = "clear"

-----------------------------------------------------------------------------
(* The grant and the claims.                                               *)

\* ValidateTrustGrant, beyond the form of its fields.
GrantHolds(g, now) ==
  /\ g # NoGrant
  /\ g.from - MaxSkew <= now /\ now < g.until

\* authorizeAttribution: "*" lets a project be named, not be trusted.
ProjectAllowed(g, p) == p = "" \/ p \in g.projects \/ "*" \in g.projects

\* Fault: a wildcard vouches for the project.
TrustedByWildcard(g, p) == p # "" /\ ProjectAllowed(g, p)

ProjectTrusted(g, p) == p # "" /\ p \in g.projects

\* identityFieldConfidence.
Confidence(g, p) ==
  CASE ProjectTrusted(g, p) -> "authenticated"
    [] ~ProjectTrusted(g, p) /\ p # "" -> "self_reported"
    [] OTHER -> "unverified"

\* The sync client stores a grant, or takes it away.
Sync ==
  /\ \/ grant' = NoGrant
     \/ \E g \in Grant : grant' = [key |-> g.key, projects |-> g.projects,
                                  from |-> clock, until |-> clock + g.lasts]
  /\ UNCHANGED <<clock, owned, claims, nonces, handler, accepted, reused, latch>>

\* Issue: the device checks the same things before it signs.
Issue(request, project) ==
  /\ Cardinality(claims) < MaxClaims
  /\ GrantHolds(grant, clock) /\ ProjectAllowed(grant, project)
  /\ claims' = claims \cup
       {[ nonce |-> Cardinality(claims) + 1, key |-> grant.key, request |-> request,
          issued |-> clock, expires |-> clock + MaxTTL, project |-> project ]}
  /\ UNCHANGED <<clock, grant, owned, nonces, handler, accepted, reused, latch>>

-----------------------------------------------------------------------------
(* The handlers.                                                           *)

Ends(h) == handler' = [handler EXCEPT ![h] = Idle]

\* forward notes the time, and the body has yet to come.  A claim may arrive
\* again: a client retries, or resends.
Begin(h, claim, request) ==
  /\ handler[h].at = "idle" /\ claim \in claims
  /\ handler' = [handler EXCEPT ![h] =
       [Idle EXCEPT !.at = "load", !.now = clock, !.claim = claim, !.request = request]]
  /\ UNCHANGED <<clock, grant, owned, claims, nonces, accepted, reused, latch>>

\* Verify: key, lifetime with the skew both ways, binding, attribution.
Verified(claim, g, request, now) ==
  /\ claim.key = g.key
  /\ claim.issued <= now + MaxSkew
  /\ claim.expires > now - MaxSkew
  /\ claim.request = request
  /\ ProjectAllowed(g, claim.project)

\* LoadTrustGrant and Verify: a grant of the ledger's owner that holds and a
\* claim that stands under it, or 401.
Load(h) ==
  /\ handler[h].at = "load"
  /\ LET me == handler[h]
     IN IF /\ owned /\ GrantHolds(grant, me.now)
           /\ Verified(me.claim, grant, me.request, me.now)
        THEN handler' = [handler EXCEPT ![h].at = "consume", ![h].grant = grant,
                           ![h].confidence = Confidence(grant, me.claim.project)]
        ELSE Ends(h)
  /\ UNCHANGED <<clock, grant, owned, claims, nonces, accepted, reused, latch>>

\* Fault: the rows that go are those about to expire.
PrunedEarly(now) == {n \in nonces : n.expires > now + 1}

Pruned(now) == {n \in nonces : n.expires > now}

\* ConsumeIdentityNonce asks that the claim has not expired, without skew.
InEnvelope(claim, now) == claim.expires > now

\* Any error of it sets the latch: 503.
ConsumeFails(h) ==
  /\ handler[h].at = "consume"
  /\ latch' = IF InEnvelope(handler[h].claim, handler[h].now) THEN "ledger" ELSE "envelope"
  /\ Ends(h)
  /\ UNCHANGED <<clock, grant, owned, claims, nonces, accepted, reused>>

Known(claim, table) == \E n \in table : n.nonce = claim.nonce

\* One transaction; a nonce that is known answers ErrReplay: 401.
Consume(h) ==
  /\ handler[h].at = "consume"
  /\ LET claim == handler[h].claim
         left == Pruned(handler[h].now)
     IN /\ InEnvelope(claim, handler[h].now)
        /\ nonces' = IF Known(claim, left) THEN left
                     ELSE left \cup {[nonce |-> claim.nonce, expires |-> claim.expires]}
        /\ IF Known(claim, left)
           THEN Ends(h) /\ UNCHANGED <<accepted, reused>>
           ELSE /\ handler' = [handler EXCEPT ![h].at = "attributed"]
                /\ accepted' = [accepted EXCEPT ![claim.nonce] = @ + 1]
                /\ reused' = IF accepted[claim.nonce] > 0 /\ clock < claim.expires
                             THEN reused \cup {claim.nonce} ELSE reused
  /\ UNCHANGED <<clock, grant, owned, claims, latch>>

\* The attributed request goes on to the policy.
Leave(h) ==
  /\ handler[h].at = "attributed"
  /\ Ends(h)
  /\ UNCHANGED <<clock, grant, owned, claims, nonces, accepted, reused, latch>>

-----------------------------------------------------------------------------

Tick ==
  /\ clock < MaxTime
  /\ clock' = clock + 1
  /\ UNCHANGED <<grant, owned, claims, nonces, handler, accepted, reused, latch>>

\* ensurePersistence, once a probe of the ledger succeeds.
Probe ==
  /\ latch # "clear"
  /\ latch' = "clear"
  /\ UNCHANGED <<clock, grant, owned, claims, nonces, handler, accepted, reused>>

Next ==
  \/ Sync \/ Tick \/ Probe
  \/ \E q \in Request, p \in Project \cup {""} : Issue(q, p)
  \/ \E h \in Handler :
       \/ \E c \in claims, q \in Request : Begin(h, c, q)
       \/ Load(h) \/ ConsumeFails(h) \/ Consume(h) \/ Leave(h)

Spec == Init /\ [][Next]_vars

-----------------------------------------------------------------------------
(* Properties.                                                             *)

\* While a claim can still be valid its nonce is used once, however its copies
\* and the handlers interleave (ConsumeIdentityNonce deletes by the time one
\* handler noted and inserts by the time another did).
UsedOnceWhileValid == reused = {}

\* Trust is what the grant said when it was loaded: a handler calls a project
\* authenticated only for a claim of that key, that request and a project the
\* grant lists by name, and no grant that had run out by the time it began.
TrustIsGranted ==
  \A h \in Handler : handler[h].at = "attributed" =>
    LET me == handler[h]
    IN /\ me.claim.request = me.request /\ me.claim.key = me.grant.key
       /\ me.now < me.grant.until
       /\ me.confidence = "authenticated" => me.claim.project \in me.grant.projects
================================================================================
