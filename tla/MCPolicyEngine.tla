---------------------------- MODULE MCPolicyEngine ----------------------------
(* Small instances of PolicyEngine: two revisions of one lineage, and another *)
(* namespace with the same rule identifier; and of the replay of a policy     *)
(* over the ledger, which shares nothing with the engine's memory: each       *)
(* behavior is one of either, the focus.                                      *)
EXTENDS Policies, TLC

CONSTANTS Focus, h1, h2,   \* what is explored; two handlers of the replay
          c1, c2, c3, alice, bob, gpt, opus, shared, perUser, house, team,
          base, tightened, elsewhere

VARIABLE focus

Ask(who, sure, model, units) ==
  [who |-> who, sure |-> sure, model |-> model, units |-> units, bounded |-> TRUE]
MCKinds == {Ask(alice, TRUE, opus, 1), Ask(bob, FALSE, gpt, 2)}

RuleOf(enforce, who, deny, requests, amounts, concurrency) ==
  [enforce |-> enforce, who |-> who, deny |-> deny, requests |-> requests,
   amounts |-> amounts, concurrency |-> concurrency]
AtMost(n, w) == {[max |-> n, window |-> w]}

MCPolicy == [d \in Doc |->
  CASE d = base ->
         [ns |-> house, revision |-> 1, rules |->
            (shared :> RuleOf(TRUE, {}, {}, AtMost(2, "day"), {}, 2)) @@
            (perUser :> RuleOf(FALSE, {alice}, {opus}, {}, AtMost(1, "ever"), 1))]
    [] d = tightened ->
         [ns |-> house, revision |-> 2, rules |->
            (shared :> RuleOf(TRUE, {}, {}, {}, AtMost(2, "ever"), 1)) @@
            (perUser :> RuleOf(TRUE, {alice}, {}, AtMost(1, "day"), {}, 0))]
    [] OTHER ->
         [ns |-> team, revision |-> 1, rules |->
            (shared :> RuleOf(TRUE, {}, {opus}, AtMost(1, "day"), {}, 1))]]

MCPublishers == [d \in Doc |-> IF d = elsewhere THEN {"teams"} ELSE {"local"}]
MCCutoff == [w \in {"day", "ever"} |-> [t \in Time |-> IF w = "day" THEN t ELSE 0]]
Symmetry == Permutations(Call) \cup Permutations({h1, h2})

-----------------------------------------------------------------------------
(* Replay: seconds of two ticks; rolling and fixed limits of each kind.       *)

Limit(id, kind, type, window, max) ==
  [id |-> id, kind |-> kind, window |-> window, type |-> type, max |-> max]
Says(id, mode, projects, denies, limits, concurrency) ==
  [id |-> id, mode |-> mode, projects |-> projects, denied |-> denies, bound |-> FALSE,
   limits |-> limits, concurrency |-> concurrency]
Asked(project, model, in, out, usdOf) ==
  [project |-> project, authentic |-> TRUE, model |-> model, input |-> in, output |-> out,
   cost |-> usdOf]

MCDocument == {
  {Says("count", "enforce", {}, {}, {Limit("a", "requests", "rolling", 2, 1)}, 0)},
  {Says("tokens", "enforce", {}, {},
        {Limit("a", "total", "fixed", 2, 4), Limit("b", "input", "rolling", 2, 2)}, 0),
   Says("scoped", "warn", {"p"}, {}, {Limit("a", "dollars", "rolling", 2, 1)}, 1)},
  {Says("slots", "observe", {}, {"n"}, {Limit("a", "output", "rolling", 2, 1)}, 1)},
  {Says("odd", "enforce", {}, {}, {Limit("a", "requests", "fixed", 3, 1)}, 0)}}
MCSent == {Asked("p", "m", 1, 1, 1), Asked("q", "n", 1, -1, -1)}

-----------------------------------------------------------------------------
MCInit ==
  /\ focus \in Focus /\ Init /\ Replay!Init
  /\ focus = "engine" => ~ruled /\ \A r \in document : r.id = "count"

MCNext ==
  /\ UNCHANGED focus
  /\ \/ focus = "engine" /\ Next /\ UNCHANGED replayVars
     \/ focus = "replay" /\ Replay!Next /\ UNCHANGED vars

MCSpec == MCInit /\ [][MCNext]_<<focus, vars, replayVars>>
=============================================================================
