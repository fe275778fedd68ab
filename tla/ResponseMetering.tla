--------------------------- MODULE ResponseMetering ---------------------------
(***************************************************************************)
(* One call from its admission to its ledger row: the bound reserved for   *)
(* it, the response as the provider sends it, what the tracker of its      *)
(* dialect makes of the frames that reach it (meter.go), and the priced    *)
(* row settled at the end (proxy.go).                                      *)
(*                                                                         *)
(* The provider is external: it consumes the input, produces output one    *)
(* unit at a time, runs hosted tools and bills what it did.  A unit is a   *)
(* token and four characters of streamed text, so the estimate of a        *)
(* tracker counts units.  A dollar cap is active throughout.               *)
(***************************************************************************)
EXTENDS PricingLayers

CONSTANTS
  File,      \* contract files an operator may start the proxy with
  Request,   \* [provider, model, region, tier, day, shape, stream, bytes, bound, tools]
  Input,     \* [in, read, write, hour] a provider may find in a body
  Served,    \* [model, region, tier] it may report, "" or <<>> for nothing
  Hosted,    \* kinds of tools hasUnboundedProviderTools recognizes
  Final,     \* values of the final-cost header, with NoFinal
  MaxOut, MaxTools,
  Fee        \* what a hosted tool, or an unlisted tier or region, costs

\* Assumed by whoever instantiates the module: names are sequences, counts and
\* dates natural numbers, and the public list passed validateModels.
IsName(model) == model \in Seq({model[i] : i \in DOMAIN model})
Counts == [in : Nat, read : Nat, write : Nat, hour : Nat]
Prices ==
  [free : BOOLEAN, threshold : Nat, longIn : Nat, longOut : Nat,
   rates : [in : Nat, read : Nat, write : Nat, out : Nat]]
MeteringAssumption ==
  /\ {MaxOut, MaxTools, Fee} \subseteq Nat /\ Input \subseteq Counts /\ Final \subseteq Int
  /\ \A r \in Request : {r.bytes, r.bound, r.day} \subseteq Nat /\ IsName(r.model)
                      /\ r.shape \in {"anthropic", "openai", "gemini"}
  /\ \A s \in Served : IsName(s.model)
  /\ \A file \in File :
       /\ file \in Seq({file[i] : i \in DOMAIN file})
       /\ \A i \in DOMAIN file : /\ IsName(file[i].model) /\ file[i].price \in Prices
                                 /\ {file[i].from, file[i].through} \subseteq Nat
  /\ \A n \in DOMAIN List : List[n].price \in Prices /\ ValidPrice(List[n].price)

VARIABLES
  table,     \* Table.Contracts of the running proxy
  req,       \* the request being served
  admission, \* AdmissionEstimate: [bounded, priced, usd]
  work,      \* what the provider did: [input, out, tools, served, final, sent]
  tracker,   \* the meter's state for the response
  stage,     \* "idle", "sent", "streaming" or "settled"
  row        \* the ledger row of the call

vars == <<table, req, admission, work, tracker, stage, row>>

NoUsage == [in |-> 0, read |-> 0, write |-> 0, hour |-> 0]

\* marks: usage-bearing frames seen; skipped: a line over maxMeterLineBytes.
NewTracker == [input |-> NoUsage, out |-> 0, units |-> 0, tools |-> 0, marks |-> {},
               found |-> FALSE, incomplete |-> FALSE, skipped |-> FALSE]

NoRow == [usage |-> "none"]
Unreported == [model |-> <<>>, region |-> "", tier |-> ""]

Init ==
  /\ table \in {f \in File : ValidContracts(f)}
  /\ req \in Request
  /\ stage = "idle" /\ row = NoRow
  /\ admission = [bounded |-> FALSE, priced |-> FALSE, usd |-> 0]
  /\ tracker = NewTracker
  /\ work = [input |-> NoUsage, out |-> 0, tools |-> 0, final |-> NoFinal, sent |-> {},
             served |-> Unreported]

-----------------------------------------------------------------------------
(* Admission: estimateRequestAt.                                           *)

Call(model, region, tier, final) ==
  [provider |-> req.provider, model |-> model, region |-> region, tier |-> tier,
   day |-> req.day, final |-> final]

AsInput == [NoUsage EXCEPT !.in = req.bytes]
AsWrites == [NoUsage EXCEPT !.write = req.bytes, !.hour = req.bytes]
Produced(input, out) ==
  [in |-> input.in, read |-> input.read, write |-> input.write, hour |-> input.hour, out |-> out]

BoundOver(r, inputs) == Max({ResolvedCost(r, Produced(i, req.bound), req.region) : i \in inputs})

\* Fault: a body is never written to the cache.
BoundUncached(r) == BoundOver(r, {AsInput})

\* Every byte of the body a token, read plainly or written to the cache for
\* an hour, whichever costs more.
Bound(r) == BoundOver(r, {AsInput, AsWrites})

\* A tool the provider is known to host has fees of its own.
UnboundedTools == req.tools \cap Hosted # {}

Estimate(r) ==
  LET priced == r.source # "unknown" IN
  [bounded |-> /\ req.bound > 0 /\ ~UnboundedTools
               /\ TierPriced(req.tier) \/ (priced /\ r.coversTier)
               /\ GeoKnown(req.region) \/ (priced /\ r.coversRegion),
   priced |-> priced,
   usd |-> IF priced THEN Bound(r) ELSE 0]

Admit ==
  /\ stage = "idle"
  /\ stage' = "sent"
  /\ admission' = Estimate(Resolve(table, Call(req.model, req.region, req.tier, NoFinal)))
  /\ UNCHANGED <<table, req, work, tracker, row>>

-----------------------------------------------------------------------------
(* What the response's usage becomes in the ledger.                        *)

Maxima(a, b) == [k \in DOMAIN a |-> Max({a[k], b[k]})]

\* Fault: any counters make the stream complete.
CompleteOnceCounted == tracker.marks # {}

AnthropicComplete == {"start", "delta", "stop"} \subseteq tracker.marks
OpenAIComplete == "usage" \in tracker.marks
GeminiComplete == "usage" \in tracker.marks

\* sawStart, sawDelta and sawStop; the exact frame; usageSeen.
Complete ==
  CASE req.shape = "anthropic" -> AnthropicComplete
    [] req.shape = "openai" -> OpenAIComplete
    [] OTHER -> GeminiComplete

\* Tracker.Usage after a stream.
StreamUsage ==
  LET exact == Complete /\ ~tracker.incomplete
      estimated == tracker.found /\ IF req.shape = "anthropic" THEN ~exact ELSE ~Complete
  IN  [input |-> tracker.input, tools |-> tracker.tools, found |-> tracker.found,
       served |-> IF tracker.found THEN work.served ELSE Unreported,
       out |-> IF estimated THEN Max({tracker.out, tracker.units}) ELSE tracker.out,
       exact |-> exact, incomplete |-> tracker.incomplete \/ estimated]

\* streamThrough's verdict and forward's on a response cut or not tracked.
Cut(u, failed) == IF failed THEN [u EXCEPT !.exact = FALSE, !.incomplete = TRUE] ELSE u

NotFound == [input |-> NoUsage, tools |-> 0, found |-> FALSE, served |-> Unreported,
             out |-> 0, exact |-> FALSE, incomplete |-> FALSE]

InputEstimate == (req.bytes + 3) \div 4

\* A successful response always gets a row, from the request if need be.
Completed(u) ==
  IF u.exact /\ u.found THEN u
  ELSE [u EXCEPT !.found = TRUE, !.incomplete = TRUE, !.exact = FALSE,
                 !.input = IF u.found /\ u.input.in # 0 THEN u.input
                           ELSE [u.input EXCEPT !.in = InputEstimate]]

\* What the response says of itself, else what the request asked for.
Labels(served) ==
  [model |-> IF served.model = <<>> THEN req.model ELSE served.model,
   region |-> IF served.region = "" THEN req.region ELSE served.region,
   tier |-> IF served.tier = "" THEN req.tier ELSE served.tier]

\* The handler's last part.  "fee": a charge the price does not cover.
Row(ok, u) ==
  LET as == Labels(u.served)
      tier == as.tier
      region == as.region
      r == Resolve(table, Call(as.model, region, tier, work.final))
      unknownFee == u.tools > 0 \/ ~TierPriced(tier) \/ ~GeoKnown(region)
      uncovered == \/ u.tools > 0
                   \/ ~TierPriced(tier) /\ ~r.coversTier
                   \/ ~GeoKnown(region) /\ ~r.coversRegion
      fee == /\ u.found /\ r.source # "provider_final"
             /\ IF r.source = "contract" THEN uncovered ELSE unknownFee
      usage == CASE ~u.found -> "missing" [] u.found /\ u.incomplete -> "partial" [] OTHER -> "exact"
      priced == r.source = "provider_final" \/ (u.found /\ r.source # "unknown")
      pricing == CASE priced -> "priced"
                   [] ~priced /\ (u.found \/ work.final # NoFinal) -> "unknown"
                   [] OTHER -> "unmetered"
  IN  [usage |-> usage, pricing |-> pricing, fee |-> fee, ok |-> ok,
       cost |-> CASE r.source = "provider_final" -> 10 * r.amount
                  [] priced /\ r.source # "provider_final" ->
                       ResolvedCost(r, Produced(u.input, u.out), region)
                  [] OTHER -> 0,
       unsafe |-> /\ ok \/ usage # "missing"
                  /\ usage # "exact" \/ pricing # "priced" \/ fee]

Settled(ok, u) == stage' = "settled" /\ row' = Row(ok, IF ok THEN Completed(u) ELSE u)

-----------------------------------------------------------------------------
(* The upstream exchange.                                                  *)

Total(i) == i.in + i.read + i.write

\* Only Anthropic reports hour-long writes, Gemini no writes at all; a token
\* of input takes a byte of the body or more.
CanRead(i) ==
  /\ Total(i) <= req.bytes /\ i.hour <= i.write
  /\ req.shape # "anthropic" => i.hour = 0
  /\ req.shape = "gemini" => i.write = 0

TransportFails ==
  /\ stage = "sent"
  /\ stage' = "settled"
  /\ row' = [usage |-> "missing", pricing |-> "unmetered", fee |-> FALSE, ok |-> FALSE,
             cost |-> 0, unsafe |-> TRUE]
  /\ UNCHANGED <<table, req, admission, work, tracker>>

Responds(i, served, final) ==
  /\ stage = "sent" /\ CanRead(i)
  /\ stage' = "streaming"
  /\ work' = [work EXCEPT !.input = i, !.served = served, !.final = final]
  /\ UNCHANGED <<table, req, admission, tracker, row>>

Ceiling == IF req.bound = 0 THEN MaxOut ELSE Min({MaxOut, req.bound})

\* The provider may still work: nothing final has been sent.
Open4Work ==
  /\ stage = "streaming" /\ req.stream
  /\ req.shape = "anthropic" => "start" \in work.sent
  /\ work.sent \cap {"delta", "usage", "last"} = {}

\* A unit nobody sees, such as thinking that is not streamed.
Thinks ==
  /\ Open4Work /\ work.out < Ceiling
  /\ work' = [work EXCEPT !.out = @ + 1]
  /\ UNCHANGED <<table, req, admission, tracker, stage, row>>

\* The provider may host any tool but a function.
HasTools == req.tools \ {"function"} # {}

RunsTool ==
  /\ Open4Work /\ HasTools /\ work.tools < MaxTools
  /\ work' = [work EXCEPT !.tools = @ + 1]
  /\ UNCHANGED <<table, req, admission, tracker, stage, row>>

\* Counters the meter takes from a frame, each a running maximum; a counter
\* out of range is taken as none and makes the response partial.
Counted(t, mark, fields, sane) ==
  [t EXCEPT !.marks = @ \cup {mark}, !.found = TRUE, !.incomplete = @ \/ ~sane,
            !.input = IF "input" \in fields THEN Maxima(@, work.input) ELSE @,
            !.out = IF "out" \in fields /\ sane THEN Max({@, work'.out}) ELSE @,
            !.tools = IF req.shape = "anthropic" THEN Max({@, work.tools}) ELSE @]

WithText(t) == [t EXCEPT !.units = @ + 1, !.found = TRUE]

\* A frame of text.
Text ==
  /\ Open4Work /\ work.out < Ceiling /\ req.shape # "gemini"
  /\ work' = [work EXCEPT !.out = @ + 1]
  /\ tracker' = WithText(tracker)
  /\ UNCHANGED <<table, req, admission, stage, row>>

\* Gemini's chunks of text carry counts so far, some or all of them, or none.
Chunk(fields) ==
  /\ Open4Work /\ work.out < Ceiling /\ req.shape = "gemini"
  /\ work' = [work EXCEPT !.out = @ + 1]
  /\ tracker' = IF fields = {} THEN WithText(tracker)
                ELSE Counted(WithText(tracker), "usage", fields, TRUE)
  /\ UNCHANGED <<table, req, admission, stage, row>>

\* A frame of text too long to be kept for the meter; the client gets it.
LongText ==
  /\ Open4Work /\ work.out < Ceiling
  /\ work' = [work EXCEPT !.out = @ + 1]
  /\ tracker' = [tracker EXCEPT !.skipped = TRUE]
  /\ UNCHANGED <<table, req, admission, stage, row>>

\* Frames with counters: Anthropic's message_start and message_delta, the
\* final usage of OpenAI when asked for, Gemini's last chunk.
MaySend(mark) ==
  CASE req.shape = "anthropic" -> \/ mark = "start" /\ work.sent = {}
                                  \/ mark = "delta" /\ work.sent = {"start"}
    [] req.shape = "openai" -> mark = "usage" /\ work.sent = {}
    [] OTHER -> mark = "last" /\ work.sent = {}

Counters(mark, sane) ==
  /\ stage = "streaming" /\ req.stream /\ MaySend(mark)
  /\ work' = [work EXCEPT !.sent = @ \cup {mark}]
  /\ tracker' = LET t == Counted(tracker, mark, {"input", "out"}, sane)
                IN  IF mark = "last" THEN [t EXCEPT !.marks = @ \cup {"usage"}] ELSE t
  /\ UNCHANGED <<table, req, admission, stage, row>>

Stops ==
  /\ stage = "streaming" /\ work.sent = {"start", "delta"}
  /\ work' = [work EXCEPT !.sent = @ \cup {"stop"}]
  /\ tracker' = [tracker EXCEPT !.marks = @ \cup {"stop"}]
  /\ UNCHANGED <<table, req, admission, stage, row>>

\* The stream ends, after its last frame or before: in order, or with an
\* error (a dropped connection, a client that went away).  A failed response
\* may be a stream too.
StreamEnds(ok, failed) ==
  /\ stage = "streaming" /\ req.stream
  /\ work' = [work EXCEPT !.sent = IF failed THEN @ \cup {"error"} ELSE @]
  /\ Settled(ok, Cut(StreamUsage, failed \/ (tracker.skipped /\ ~StreamUsage.exact)))
  /\ UNCHANGED <<table, req, admission, tracker>>

\* A response in one body: whole; with a counter out of range or counts that
\* contradict each other; without usage; over maxBodyBytes and so not parsed;
\* or cut off.
Whole(out, tools) ==
  [input |-> work.input, served |-> work.served, found |-> TRUE, exact |-> TRUE,
   tools |-> IF req.shape = "anthropic" THEN tools ELSE 0, out |-> out, incomplete |-> FALSE]

Insane(u) == [u EXCEPT !.out = 0, !.exact = FALSE, !.incomplete = TRUE]

BodyUsage(kind, out, tools) ==
  CASE kind = "whole" -> Whole(out, tools)
    [] kind = "insane" -> Insane(Whole(out, tools))
    [] OTHER -> Cut(NotFound, kind = "torn")

BodyEnds(ok, kind, out, tools) ==
  /\ stage = "streaming" /\ ~req.stream
  /\ out <= Ceiling /\ tools <= IF HasTools THEN MaxTools ELSE 0
  /\ work' = [work EXCEPT !.out = out, !.tools = tools]
  /\ Settled(ok, BodyUsage(kind, out, tools))
  /\ UNCHANGED <<table, req, admission, tracker>>

Next ==
  \/ Admit
  \/ TransportFails
  \/ \E i \in Input, s \in Served, f \in Final : Responds(i, s, f)
  \/ Thinks
  \/ RunsTool
  \/ Text
  \/ \E fields \in SUBSET {"input", "out"} : Chunk(fields)
  \/ LongText
  \/ \E mark \in {"start", "delta", "usage", "last"}, sane \in BOOLEAN : Counters(mark, sane)
  \/ Stops
  \/ \E ok, failed \in BOOLEAN : StreamEnds(ok, failed)
  \/ \E ok \in BOOLEAN, kind \in {"whole", "insane", "none", "oversized", "torn"},
        out \in 0..MaxOut, tools \in 0..MaxTools : BodyEnds(ok, kind, out, tools)

Spec == Init /\ [][Next]_vars
-----------------------------------------------------------------------------
(* Properties.                                                             *)

TypeOK ==
  /\ ValidContracts(table) /\ req \in Request
  /\ stage \in {"idle", "sent", "streaming", "settled"}
  /\ work.out \in 0..MaxOut /\ work.tools \in 0..MaxTools /\ work.input \in Input \cup {NoUsage}
  /\ tracker.units <= work.out /\ tracker.out <= work.out
  /\ stage = "settled" <=> row # NoRow

Settlement == stage = "settled"

\* What the provider charges: the price of its work, and fees for what the
\* price does not cover.
TrueLabels == Labels(work.served)
TruePrice == Resolve(table, Call(TrueLabels.model, TrueLabels.region, TrueLabels.tier, work.final))
Bill ==
  IF work.final >= 0 THEN 10 * work.final
  ELSE ResolvedCost(TruePrice, Produced(work.input, work.out), TrueLabels.region)
       + Fee * ( work.tools
               + (IF TierPriced(TrueLabels.tier) \/ TruePrice.coversTier THEN 0 ELSE 1)
               + (IF GeoKnown(TrueLabels.region) \/ TruePrice.coversRegion THEN 0 ELSE 1))

\* A Gemini stream that ended in order without its last chunk in the meter.
EndsUnseen ==
  req.shape = "gemini" /\ req.stream /\ "last" \notin tracker.marks /\ "error" \notin work.sent

\* A hosted tool whose use the dialect's usage does not report.
ToolUnreported == req.shape # "anthropic" /\ work.tools > 0

\* Budgets rely on it: a row that is not marked unsafe for enforcement costs
\* what the provider charged, whatever was cut, skipped, garbled, estimated
\* or missing on the way (proxy.go:640-762).  Left out are failed responses
\* without usage, taken to be free, and the two cases above.
SafeRowsPayTheBill ==
  Settlement /\ ~row.unsafe /\ (row.ok \/ row.usage # "missing") /\ ~EndsUnseen
    /\ (ToolUnreported => work.final >= 0)
  => row.cost = Bill

\* A cached read or a write of the price costs no more than a write kept for an
\* hour, which is at twice the input rate.  validateModels asks nothing of the
\* kind (pricing.go:274); the public list has it.
HourCostsMost(p) == p.rates.read <= 2 * p.rates.in /\ p.rates.write <= 2 * p.rates.in

\* The bound reserved for a call (estimateRequestAt, proxy.go:883) covers
\* its exact cost when the provider serves the model, region and tier asked
\* for, at a price whose dearest input is a write kept for an hour: however
\* the body splits into plain, cached and written tokens, and on either side
\* of the long-context threshold.
BoundHolds ==
  Settlement /\ row.usage = "exact" /\ admission.bounded /\ admission.priced
    /\ work.final = NoFinal /\ TrueLabels = Labels(Unreported) /\ HourCostsMost(TruePrice.price)
  => row.cost <= admission.usd

CallToPrice(label) == Call(label.model, label.region, label.tier, NoFinal)
CallsToPrice == {CallToPrice(Labels(s)) : s \in Served}

Scope(c) == {d \in {"region", "tier"} : c[d] # Unscoped}
WinnerIn(file, call) == IF Winner(file, call) = 0 THEN {} ELSE {file[Winner(file, call)]}

\* Among contracts that name the same dimensions the order of the file never
\* decides which one prices a call (validateContracts, layers.go:195-207).
OrderIsNeutralInScope ==
  Len(table) > 1 =>
  \A call \in CallsToPrice : \A a \in WinnerIn(table, call), b \in WinnerIn(Reverse(table), call) :
    Scope(a) = Scope(b) => a = b

\* As the comment on ContractPrice has it (layers.go:29), the order of the
\* file decides nothing: the contract that prices a call is the same one when
\* the file lists its contracts the other way round.
ResolutionIgnoresOrder ==
  Settlement /\ row.usage = "exact" /\ work.final = NoFinal =>
    LET call == Call(TrueLabels.model, TrueLabels.region, TrueLabels.tier, NoFinal)
    IN  WinnerIn(table, call) = WinnerIn(Reverse(table), call)
================================================================================
