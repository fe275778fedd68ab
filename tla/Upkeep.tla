-------------------------------- MODULE Upkeep --------------------------------
(* The life of a server under its lease (ServeLease) and a request through the *)
(* persistence latch (ProxyForward), with what each promises in the end.  Each *)
(* behavior is one of the two's, the focus.                                    *)
EXTENDS ServeLease

CONSTANTS Focus,   \* which of the two is explored
          Call,    \* request handlers
          Room,    \* what the guard of the requests lets through
          Bound,   \* the bound of a call on each route
          Slots,   \* the requests the policy lets be in flight on each route
          Health   \* who asks /health

VARIABLES focus,
          pc, route, slot, held, rows, accepted, sent, latch, prober, outcome, disk, doubt

requestVars == <<pc, route, slot, held, rows, accepted, sent, latch, prober, outcome, disk, doubt>>

Requests == INSTANCE ProxyForward

ASSUME RequestsAssumption == Requests!ForwardAssumption

-----------------------------------------------------------------------------
UpkeepInit == focus \in Focus /\ Init /\ Requests!Init

UpkeepNext ==
  /\ UNCHANGED focus
  /\ \/ focus = "servers" /\ Next /\ UNCHANGED requestVars
     \/ focus = "requests" /\ Requests!Next /\ UNCHANGED vars

\* The fairness of the part that is explored.
UpkeepFairness ==
  /\ SF_vars(focus = "servers" /\ Tick)
  /\ \A p \in Process : WF_vars(focus = "servers" /\ Leaves(p))
  /\ \A p \in Server : WF_vars(focus = "servers" /\ Serves(p))
  /\ \A p \in Pruner : WF_vars(focus = "servers" /\ Prunes(p))
  /\ \A c \in Call :
       /\ WF_requestVars(focus = "requests" /\ (Requests!Probed(c) \/ Requests!Runs(c)))
       /\ SF_requestVars(focus = "requests" /\ Requests!TakesProbe(c))
  /\ WF_requestVars(focus = "requests" /\ Requests!ProbeGoesOn)
  /\ SF_requestVars(focus = "requests" /\ Requests!ProbeBegins(Health))

UpkeepSpec == UpkeepInit /\ [][UpkeepNext]_<<focus, vars, requestVars>> /\ UpkeepFairness

-----------------------------------------------------------------------------
(* The properties of requests; those of servers are ServeLease's own.  The    *)
(* part that is not explored keeps its own as it stays where it begins.       *)

\* No exit path leaves a reservation behind, nor one on another route than its
\* request's (ProxyForward).
NothingLeaks == Requests!NothingLeaks

\* Policy windows count what is forwarded (ProxyForward).
CountedIfForwarded == Requests!CountedIfForwarded

\* What the provider has seen fits into the room (ProxyForward).
ForwardedFits == Requests!ForwardedFits

\* As the comment on Settle has it, the reservation outlives a failed insert
\* until the latch is set and lifted (ProxyForward).
NoUndercountWindow == [][held' \subseteq held \/ doubt = {}]_requestVars

\* Once the disk stays writable the latch goes away (ProxyForward).
RecoversOnceRepaired == focus = "requests" => Requests!RecoversOnceRepaired

\* Only the provider can hold a request for ever (ProxyForward).
OnlyProviderHangs == focus = "requests" => Requests!OnlyProviderHangs
=============================================================================
