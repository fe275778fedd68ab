------------------------------ MODULE MCServices ------------------------------
(* Small instances of the services around the guard (Services).  They share    *)
(* nothing but the ledger, so each behavior is one of a single service, the    *)
(* focus.                                                                      *)
EXTENDS Services, Sequences, TLC

CONSTANTS Focus,              \* the services explored
          q, o, h0, h1, h2    \* a signed request, an operator, three handlers

Twins == Permutations({h1, h2})

VARIABLE focus

routingVars == <<shiftRows, sims, stored, active, audit, command, routed>>
identityVars == <<timing, grant, owned, claims, nonces, handler, accepted, reused, latch>>
invoiceVars == <<ledger, imports, answer, report>>
meteringVars == <<table, req, admission, work, tracker, stage, metered>>
rolloutVars == <<files, uses, faults, scan, scanned>>
fuseVars == <<clock, usd, calls, median, setting, marks, live, guard, checks, denied,
              told, silent, forgotten, job, commands, ended>>

-----------------------------------------------------------------------------
(* Routing: a mapping to a smaller model, first for one project, then for all. *)

End(route, model, ctx) ==
  [route |-> route, model |-> model, family |-> "f", dialect |-> "openai",
   context |-> ctx, extra |-> 0, segmented |-> FALSE]
Mapping(scope) ==
  [id |-> "r", source |-> End("big", "m", 6), target |-> End("small", "n", 4), scope |-> scope,
   tools |-> FALSE, structured |-> TRUE, modalities |-> {"text"}]
Revision(revision, scope) ==
  [revision |-> revision, mode |-> "warn_then_downshift", warnAt |-> 50, shiftAt |-> 80,
   onDenial |-> TRUE, rules |-> {Mapping(scope)}]
Chat(tools) ==
  [route |-> "big", model |-> "m", shape |-> "openai", op |-> "chat_completions", bounds |-> {2},
   size |-> 1, tools |-> tools, thinking |-> FALSE, format |-> "none", parts |-> {"text"},
   foreign |-> FALSE]
From(tools, confidence, hasPolicy) ==
  [request |-> Chat(tools),
   sender |-> [project |-> "p", confidence |-> confidence, ruled |-> hasPolicy]]

MCConfig == {Revision(1, "p"), Revision(2, "any")}
MCClient ==
  {From({}, "authenticated", TRUE), From({}, "authenticated", FALSE),
   From({}, "self_reported", TRUE), From({"function"}, "authenticated", TRUE)}
MCShape == [r \in {"big", "small"} |-> "openai"]
MCPrice == (<<"big", "m">> :> 3) @@ (<<"small", "n">> :> 1)
MCPct == {60, 90}
MCOperator == {o}
MCRouter == {h0}

-----------------------------------------------------------------------------
(* Identity: claims that live a tick, clocks a tick apart; a grant for one    *)
(* project and one for the wildcard.                                          *)

MCSignedRequest == {q}
MCVerifier == {h1, h2}
MCGrant ==
  {[key |-> "k", projects |-> {"p"}, lasts |-> 2], [key |-> "k", projects |-> {"*"}, lasts |-> 1]}

-----------------------------------------------------------------------------
(* Invoices: two files with a column for the cost and one for the list price. *)

Billed(id, cost, list, kind, day) ==
  [id |-> id, day |-> day, cost |-> cost, list |-> list, model |-> "m", kind |-> kind]
Booked(priced, final, day) ==
  [provider |-> "p", day |-> day, model |-> "m", cost |-> 1, priced |-> priced, exact |-> TRUE,
   final |-> final]

MCInvoiceFile ==
  {<<Billed("1", 1, 2, "usage", 1)>>,
   <<Billed("1", 1, 1, "usage", 1), Billed("2", -1, -1, "credit", 2)>>}
MCPreset == [line |-> "id", day |-> "day", billed |-> "cost", model |-> "model", type |-> "kind"]
MCOverlay == {<<>>, [billed |-> "list"]}
MCInvoiceId == {[provider |-> "p", id |-> "i"], [provider |-> "p", id |-> "j"]}
MCEntry == {Booked(TRUE, TRUE, 1), Booked(FALSE, FALSE, 1), Booked(TRUE, FALSE, 2)}

-----------------------------------------------------------------------------
(* Metering: a model, a version and a variant of it; contracts for the model, *)
(* for the version, for a region and for a tier.                              *)

Rates(rate, threshold) ==
  [free |-> FALSE, threshold |-> threshold, longIn |-> 2, longOut |-> 3,
   rates |-> [in |-> 10 * rate, read |-> rate, write |-> 12 * rate, out |-> 50 * rate]]
Contract(id, model, region, tier, rate) ==
  [id |-> id, provider |-> "p", model |-> model, region |-> region, tier |-> tier,
   from |-> 1, through |-> 0, price |-> Rates(rate, 0)]
Body(in, read, write, hour) == [in |-> in, read |-> read, write |-> write, hour |-> hour]
Labelled(model, region, tier) == [model |-> model, region |-> region, tier |-> tier]
Asks(streams, bounds, tools) ==
  [provider : {"p"}, model : {<<"m">>}, region : {"us"}, tier : {""}, day : {2},
   shape : {"anthropic", "openai", "gemini"}, stream : streams, bytes : {3}, bound : bounds,
   tools : tools]
M == <<"m">>
M5 == <<"m", "5">>
MLite == <<"m", "lite">>

MCVersion == {"5"}
MCList ==
  [n \in {M, MLite} |-> [price |-> Rates(IF n = M THEN 4 ELSE 1, 2), from |-> 1, through |-> 0]]
MCFile ==
  {<<>>, <<Contract("a", M, "", "", 3)>>,
   <<Contract("a", M, "", "", 3), Contract("b", M5, "", "", 2)>>,
   <<Contract("a", M, "us", "", 3), Contract("b", M, "", "priority", 2)>>}
MCRequest ==
  Asks(BOOLEAN, {2}, {{"function"}, {"function", "search"}}) \cup Asks({FALSE}, {0}, {{"function"}})
  \cup Asks({FALSE}, {2}, {{"maps"}})
MCInput == {Body(1, 1, 0, 0), Body(1, 0, 2, 1), Body(3, 0, 0, 0)}
MCServed == {Labelled(<<>>, "", ""), Labelled(M5, "us", "priority"), Labelled(MLite, "other", "")}
MCFinal == {-1, -2, 7}

-----------------------------------------------------------------------------
(* Fuses: an hour of two ticks, a day of four; windows just inside and just   *)
(* outside the bounds.                                                        *)

FuseRule(window, limit) == [window |-> window, limit |-> limit, times |-> 2]
RulesOf(f) ==
  [key \in {"hourly", "burst", "fanout", "baseline", "cooldown"} |->
     IF key \in DOMAIN f THEN {f[key]} ELSE {}]

MCChange ==
  {<< <<"hourly", {FuseRule(2, 1)}>>, <<"burst", {FuseRule(3, 1)}>> >>,
   << <<"baseline", {FuseRule(3, 1)}>> >>,
   << <<"fanout", {FuseRule(2, 2)}>>, <<"cooldown", {FuseRule(4, 0)}>> >>,
   << <<"burst", {}>>, <<"fanout", {}>> >>}
MCInitRules ==
  {RulesOf([burst |-> FuseRule(1, 1), cooldown |-> FuseRule(1, 0)]),
   RulesOf([hourly |-> FuseRule(2, 2), fanout |-> FuseRule(1, 1)]),
   RulesOf([baseline |-> FuseRule(4, 1)]),
   RulesOf(<<>>)}
MCAsk == {2, -1}

-----------------------------------------------------------------------------
\* The median is read under a baseline rule, which no change can add.
MedianMatters == median = 0 \/ (focus = "fuses" /\ setting["baseline"] # {})

\* A service that is not explored stays where one of its behaviors begins.
Only(service, canonical) == focus # service => canonical

Init ==
  /\ focus \in Focus
  /\ Routing!Init
  /\ Identity!Init /\ Only("identity", ~owned)
  /\ Invoices!Init /\ Only("invoices", imports = {})
  /\ Metering!Init
  /\ Only("metering", table = <<>> /\ req.shape = "openai" /\ req.stream
                        /\ req.bound = 2 /\ req.tools = {"function"})
  /\ Rollouts!Init
  /\ Fuses!Init /\ Only("fuses", \A key \in DOMAIN setting : setting[key] = {}) /\ MedianMatters

Next ==
  /\ UNCHANGED focus
  /\ \/ /\ focus = "routing" /\ Routing!Next
        /\ UNCHANGED <<identityVars, invoiceVars, meteringVars, rolloutVars, fuseVars>>
     \/ /\ focus = "identity" /\ Identity!Next
        /\ UNCHANGED <<routingVars, invoiceVars, meteringVars, rolloutVars, fuseVars>>
     \/ /\ focus = "invoices" /\ Invoices!Next
        /\ UNCHANGED <<routingVars, identityVars, meteringVars, rolloutVars, fuseVars>>
     \/ /\ focus = "metering" /\ Metering!Next
        /\ UNCHANGED <<routingVars, identityVars, invoiceVars, rolloutVars, fuseVars>>
     \/ /\ focus = "rollouts" /\ Rollouts!Next
        /\ UNCHANGED <<routingVars, identityVars, invoiceVars, meteringVars, fuseVars>>
     \/ /\ focus = "fuses" /\ Fuses!Next
        /\ UNCHANGED <<routingVars, identityVars, invoiceVars, meteringVars, rolloutVars>>

vars == <<focus, routingVars, identityVars, invoiceVars, meteringVars, rolloutVars,
          fuseVars>>
Spec == Init /\ [][Next]_vars
=============================================================================
