----------------------------- MODULE MockServer -----------------------------
(***************************************************************************)
(* tools/mock-server: the in-memory eBay server the tests and local        *)
(* development talk to, and its control endpoints.                         *)
(*                                                                         *)
(* Each client has one request at a time; http.Server answers each in a    *)
(* goroutine of its own. A request passes the fault middleware, its        *)
(* handler and, on an eBay route, the quota middleware. A critical section *)
(* of FaultInjector.mu or QuotaState.mu is one step; Server.mu is held     *)
(* over two of them when a scenario is switched. The latency of a rule is  *)
(* the time between Match and what follows. Of a quota the model keeps the *)
(* counter and its switch; limit, window and reset time are figures no     *)
(* step depends on. The two read-only endpoints (OAuth token and analytics)*)
(* depend on no scenario and are left out.                                 *)
(*                                                                         *)
(* An operator A_Variant is the operator A with a plausible bug. Nothing   *)
(* uses it; put in A's place it breaks a property stated at the end.       *)
(***************************************************************************)
EXTENDS Integers, Sequences, FiniteSets

CONSTANTS
  Client,     \* HTTP clients
  Scenario,   \* the scenarios loaded from the fixtures
  Default,    \* scenarioDefault
  None,       \* no scenario, no quota override, no rule, nobody
  Item,       \* item ids clients ask for
  Items,      \* Items[s]: the items scenario s has a fixture for
  Searches,   \* the scenarios with a search.json
  QuotaOf,    \* QuotaOf[s]: the quota.json of scenario s, or None
  Rule,       \* the valid fault rules clients post
  Clear,      \* a post to /admin/fault with "clear": true
  Invalid,    \* a post that is refused: malformed JSON, an invalid rule
  Request,    \* the requests clients make
  MaxCalls,   \* bound: eBay calls made between two settings of the quota
  MaxRules    \* bound: fault rules in force

Path     == {"search", "item", "list", "scenario", "quota", "fault"}
EBayPath == {"search", "item"}
ReadPath == EBayPath \cup {"list"}
\* autoIncr "unset" is the nil pointer.
Snapshot == [count : Nat, autoIncr : {"on", "off", "unset"}]

ASSUME ScenarioAssumption ==
  /\ Default \in Scenario /\ None \notin Scenario \cup Client \cup Rule \cup Snapshot
  /\ Clear \notin Rule /\ Invalid \notin Rule
  /\ Items \in [Scenario -> SUBSET Item] /\ Searches \subseteq Scenario
  /\ QuotaOf \in [Scenario -> Snapshot \cup {None}]
ASSUME RuleAssumption ==
  Rule \subseteq [endpoint : SUBSET Path, fails : {"never", "sometimes", "always"}]
\* The argument of "scenario" may be a name that is not loaded.
ASSUME RequestAssumption ==
  \A q \in Request : /\ q.path \in Path
                     /\ q.path = "quota" => q.arg \in Snapshot \cup {Invalid}
                     /\ q.path = "fault" => q.arg \in Rule \cup {Clear, Invalid}
ASSUME ClientAssumption == IsFiniteSet(Client)
ASSUME BoundAssumption == MaxCalls \in Nat /\ MaxRules \in Nat

VARIABLES
  rules,     \* FaultInjector.rules
  scenario,  \* Server.activeScenario
  mu,        \* who holds Server.mu for writing, or None
  count,     \* QuotaState.count
  autoIncr,  \* QuotaState.autoIncr
  pc,        \* where the goroutine that answers a client is
  req,       \* its request
  rule,      \* the rule the fault middleware matched, or None
  copy,      \* handleSetFault: its copy of FaultInjector.rules
  header,    \* the header map of the response has the X-EBAY-* headers
  reply,     \* the response as it goes out
  verdicts,  \* history: outcomes the rules allowed since the request came
  actives,   \* history: scenarios active since the request came
  expected,  \* history: the rules, had all appends been atomic ...
  raced,     \* ... unless one overlapped another change of the rules
  origin,    \* history: the scenario that set the quota last, or None ...
  base,      \* ... the value it gave to the counter ...
  carried,   \* ... eBay calls in flight at that moment ...
  answered,  \* ... and successful eBay calls made and finished since
  fresh      \* history: clients whose request came after that moment

serverVars  == <<rules, scenario, mu, count, autoIncr>>
quotaGhosts == <<origin, base, carried, answered, fresh>>
ruleGhosts  == <<expected, raced>>
vars == <<serverVars, pc, req, rule, copy, header, reply, verdicts, actives,
          ruleGhosts, quotaGhosts>>

NoReply == [status |-> 0, from |-> None, stamped |-> FALSE]

TypeOK ==
  /\ rules \in Seq(Rule)
  /\ scenario \in Scenario
  /\ mu \in Client \cup {None}
  /\ count \in Nat
  /\ autoIncr \in {"on", "off"}
  /\ pc \in [Client -> {"idle", "match", "matched", "handler", "applying", "append", "count", "done"}]
  /\ req \in [Client -> Request \cup {None}]
  /\ \A c \in Client : pc[c] # "idle" => req[c] \in Request
  /\ rule \in [Client -> Rule \cup {None}]
  /\ copy \in [Client -> Seq(Rule)]
  /\ header \in [Client -> BOOLEAN]
  /\ reply \in [Client -> [status : {0, 200, 400, 404, 503}, from : Scenario \cup {None},
                           stamped : BOOLEAN]]
  /\ verdicts \in [Client -> SUBSET {"pass", "fail"}]
  /\ actives \in [Client -> SUBSET Scenario]
  /\ expected \in Seq(Rule)
  /\ raced \in BOOLEAN
  /\ origin \in Scenario \cup {None}
  /\ base \in Nat /\ carried \in Nat /\ answered \in Nat
  /\ fresh \subseteq Client

\* NewServer, for each scenario the command line may select.
Init ==
  /\ scenario \in Scenario
  /\ LET quota == QuotaOf[scenario] IN
     /\ count = IF quota = None THEN 0 ELSE quota.count
     /\ autoIncr = IF quota = None \/ quota.autoIncr = "unset" THEN "on" ELSE quota.autoIncr
     /\ origin = IF quota = None THEN None ELSE scenario
  /\ base = count
  /\ rules = <<>> /\ mu = None
  /\ pc = [c \in Client |-> "idle"]
  /\ req = [c \in Client |-> None]
  /\ rule = [c \in Client |-> None]
  /\ copy = [c \in Client |-> <<>>]
  /\ header = [c \in Client |-> FALSE]
  /\ reply = [c \in Client |-> NoReply]
  /\ verdicts = [c \in Client |-> {}]
  /\ actives = [c \in Client |-> {}]
  /\ expected = <<>> /\ raced = FALSE
  /\ carried = 0 /\ answered = 0 /\ fresh = {}

At(c, place, path) == pc[c] = place /\ req[c].path = path
Goto(c, place) == pc' = [pc EXCEPT ![c] = place]

\* WriteHeader: the response goes out with the headers set so far.
Write(c, status, from) ==
  reply' = [reply EXCEPT ![c] = [status |-> status, from |-> from, stamped |-> header[c]]]

----------------------------------------------------------------------------
\* FaultInjector.Middleware.

\* match: the first rule whose pattern matches the path, if any.
FirstMatch(path) ==
  {rules[i] : i \in {i \in DOMAIN rules :
     path \in rules[i].endpoint /\ \A j \in 1 .. i - 1 : path \notin rules[j].endpoint}}

\* What FailRate allows: 0, between 0 and 1, at least 1.
Outcomes(r) == CASE r = None \/ r.fails = "never" -> {"pass"}
                 [] r.fails = "sometimes" -> {"pass", "fail"}
                 [] OTHER -> {"fail"}

\* The rules a request on path would meet now.
Matched(path) == IF FirstMatch(path) = {} THEN {None} ELSE FirstMatch(path)

\* Calls that may still be counted.
InFlight == {c \in Client : pc[c] \notin {"idle", "done"} /\ req[c].path \in EBayPath}
Calls     == {c \in Client : pc[c] # "idle" /\ req[c].path \in EBayPath}
Appending == {c \in Client : pc[c] # "idle" /\ req[c].path = "fault" /\ req[c].arg \in Rule}

\* A client sends a request. One that would exceed a bound waits.
Arrive(c, q) ==
  /\ pc[c] = "idle"
  /\ q.path \in EBayPath => answered + carried + Cardinality(Calls) < MaxCalls
  /\ q.path = "fault" /\ q.arg \in Rule =>
       \A s \in {rules} \cup {copy[d] : d \in Client} : Len(s) + Cardinality(Appending) < MaxRules
  /\ Goto(c, "match")
  /\ req' = [req EXCEPT ![c] = q]
  /\ fresh' = IF q.path \in EBayPath THEN fresh \cup {c} ELSE fresh
  /\ UNCHANGED <<serverVars, rule, copy, header, reply, ruleGhosts, origin, base, carried, answered>>

\* The last matching rule wins.
Match_Last(c) ==
  LET hits == {i \in DOMAIN rules : req[c].path \in rules[i].endpoint}
  IN  /\ pc[c] = "match"
      /\ Goto(c, "matched")
      /\ \E r \in IF hits = {} THEN {None} ELSE {rules[i] : i \in {i \in hits : \A j \in hits : j <= i}} :
           rule' = [rule EXCEPT ![c] = r]
      /\ UNCHANGED <<serverVars, req, copy, header, reply, ruleGhosts, quotaGhosts>>

Match(c) ==
  /\ pc[c] = "match"
  /\ Goto(c, "matched")
  /\ \E r \in Matched(req[c].path) : rule' = [rule EXCEPT ![c] = r]
  /\ UNCHANGED <<serverVars, req, copy, header, reply, ruleGhosts, quotaGhosts>>

InjectFault(c) ==
  /\ pc[c] = "matched" /\ "fail" \in Outcomes(rule[c])
  /\ Write(c, 503, None)
  /\ Goto(c, "done")
  /\ rule' = [rule EXCEPT ![c] = None]
  /\ UNCHANGED <<serverVars, req, copy, header, ruleGhosts, quotaGhosts>>

Forward(c) ==
  /\ pc[c] = "matched" /\ "pass" \in Outcomes(rule[c])
  /\ Goto(c, "handler")
  /\ rule' = [rule EXCEPT ![c] = None]
  /\ UNCHANGED <<serverVars, req, copy, header, reply, ruleGhosts, quotaGhosts>>

----------------------------------------------------------------------------
\* The handlers of the eBay routes, with QuotaState.Middleware around them.

\* ScenarioRegistry: the scenario whose fixture answers, or None.
Resolve(active, item) ==
  IF item \in Items[active] THEN active
  ELSE IF item \in Items[Default] THEN Default ELSE None
SearchTemplate(active) ==
  IF active \in Searches THEN active
  ELSE IF Default \in Searches THEN Default ELSE None

\* The default scenario is not consulted.
GetItem_NoFallback(c) ==
  /\ At(c, "handler", "item") /\ mu = None
  /\ LET from == IF req[c].arg \in Items[scenario] THEN scenario ELSE None
     IN  /\ Write(c, IF from = None THEN 404 ELSE 200, from)
         /\ Goto(c, IF from = None THEN "done" ELSE "count")
  /\ UNCHANGED <<serverVars, req, rule, copy, header, ruleGhosts, quotaGhosts>>

\* The quota middleware does not look at the status.
GetItem_CountsMisses(c) ==
  /\ At(c, "handler", "item") /\ mu = None
  /\ LET from == Resolve(scenario, req[c].arg)
     IN  Write(c, IF from = None THEN 404 ELSE 200, from)
  /\ Goto(c, "count")
  /\ UNCHANGED <<serverVars, req, rule, copy, header, ruleGhosts, quotaGhosts>>

\* handleGetItem, handleSearch: activeScenario is read under the read lock; the
\* fixtures never change. Without a template the search answers an empty list.
GetItem(c) ==
  /\ At(c, "handler", "item") /\ mu = None
  /\ LET from == Resolve(scenario, req[c].arg)
     IN  /\ Write(c, IF from = None THEN 404 ELSE 200, from)
         /\ Goto(c, IF from = None THEN "done" ELSE "count")
  /\ UNCHANGED <<serverVars, req, rule, copy, header, ruleGhosts, quotaGhosts>>

Search(c) ==
  /\ At(c, "handler", "search") /\ mu = None
  /\ Write(c, 200, SearchTemplate(scenario))
  /\ Goto(c, "count")
  /\ UNCHANGED <<serverVars, req, rule, copy, header, ruleGhosts, quotaGhosts>>

\* incrementAndStamp, after a handler that answered 2xx.
IncrementAndStamp(c) ==
  /\ pc[c] = "count"
  /\ count' = IF autoIncr = "on" THEN count + 1 ELSE count
  /\ header' = [header EXCEPT ![c] = TRUE]
  /\ Goto(c, "done")
  /\ UNCHANGED <<rules, scenario, mu, autoIncr, req, rule, copy, reply, ruleGhosts, quotaGhosts>>

----------------------------------------------------------------------------
\* The control endpoints.

ListScenarios(c) ==
  /\ At(c, "handler", "list") /\ mu = None
  /\ Write(c, 200, scenario)
  /\ Goto(c, "done")
  /\ UNCHANGED <<serverVars, req, rule, copy, header, ruleGhosts, quotaGhosts>>

\* The pointer is copied without a look at nil.
Apply_NilPointer(snap, by) ==
  /\ count' = snap.count
  /\ autoIncr' = snap.autoIncr
  /\ origin' = by
  /\ base' = snap.count
  /\ carried' = Cardinality(InFlight)
  /\ answered' = 0
  /\ fresh' = {}

\* QuotaState.Apply, by the quota.json of a scenario or by a client (None).
Apply(snap, by) ==
  /\ count' = snap.count
  /\ autoIncr' = IF snap.autoIncr = "unset" THEN autoIncr ELSE snap.autoIncr
  /\ origin' = by
  /\ base' = snap.count
  /\ carried' = Cardinality(InFlight)
  /\ answered' = 0
  /\ fresh' = {}

\* Server.mu is released before the quota is applied.
SetScenario_EarlyUnlock(c) ==
  /\ At(c, "handler", "scenario") /\ req[c].arg # Invalid /\ mu = None
  /\ LET name == req[c].arg IN
     IF name \notin Scenario
     THEN Write(c, 404, None) /\ Goto(c, "done") /\ UNCHANGED scenario
     ELSE /\ scenario' = name
          /\ IF QuotaOf[name] = None THEN Write(c, 200, None) /\ Goto(c, "done")
             ELSE Goto(c, "applying") /\ UNCHANGED reply
  /\ UNCHANGED <<rules, mu, count, autoIncr, req, rule, copy, header, ruleGhosts, quotaGhosts>>

\* handleSetScenario and SetActiveScenario up to the call of Apply.
SetScenario(c) ==
  /\ At(c, "handler", "scenario") /\ req[c].arg # Invalid /\ mu = None
  /\ LET name == req[c].arg IN
     \/ /\ name \notin Scenario
        /\ Write(c, 404, None) /\ Goto(c, "done")
        /\ UNCHANGED <<scenario, mu>>
     \/ /\ name \in Scenario /\ QuotaOf[name] = None
        /\ scenario' = name
        /\ Write(c, 200, None) /\ Goto(c, "done")
        /\ UNCHANGED mu
     \/ /\ name \in Scenario /\ QuotaOf[name] # None
        /\ scenario' = name
        /\ mu' = c
        /\ Goto(c, "applying")
        /\ UNCHANGED reply
  /\ UNCHANGED <<rules, count, autoIncr, req, rule, copy, header, ruleGhosts, quotaGhosts>>

\* SetActiveScenario calls Apply and unlocks.
ApplyScenarioQuota(c) ==
  /\ pc[c] = "applying"
  /\ Apply(QuotaOf[req[c].arg], req[c].arg)
  /\ mu' = None
  /\ Write(c, 200, None)
  /\ Goto(c, "done")
  /\ UNCHANGED <<rules, scenario, req, rule, copy, header, ruleGhosts>>

SetQuota(c) ==
  /\ At(c, "handler", "quota") /\ req[c].arg # Invalid
  /\ Apply(req[c].arg, None)
  /\ Write(c, 200, None)
  /\ Goto(c, "done")
  /\ UNCHANGED <<rules, scenario, mu, req, rule, copy, header, ruleGhosts>>

\* The control handlers refuse a body before they touch any state.
Refuse(c) ==
  /\ pc[c] = "handler" /\ req[c].path \in {"scenario", "quota", "fault"}
  /\ req[c].arg = Invalid
  /\ Write(c, 400, None)
  /\ Goto(c, "done")
  /\ UNCHANGED <<serverVars, req, rule, copy, header, ruleGhosts, quotaGhosts>>

\* handleSetFault: "clear", and the two critical sections of an append.
HasCopied == {c \in Client : pc[c] = "append"}

ClearRules(c) ==
  /\ At(c, "handler", "fault") /\ req[c].arg = Clear
  /\ rules' = <<>>
  /\ expected' = <<>>
  /\ raced' = (HasCopied # {})
  /\ Write(c, 200, None)
  /\ Goto(c, "done")
  /\ UNCHANGED <<scenario, mu, count, autoIncr, req, rule, copy, header, quotaGhosts>>

CopyRules(c) ==
  /\ At(c, "handler", "fault") /\ req[c].arg \in Rule
  /\ copy' = [copy EXCEPT ![c] = rules]
  /\ Goto(c, "append")
  /\ UNCHANGED <<serverVars, req, rule, header, reply, ruleGhosts, quotaGhosts>>

\* The new rule goes before the others.
SetRules_Prepend(c) ==
  /\ pc[c] = "append"
  /\ rules' = <<req[c].arg>> \o copy[c]
  /\ raced' = (raced \/ HasCopied # {c})
  /\ expected' = IF raced' THEN <<>> ELSE Append(expected, req[c].arg)
  /\ copy' = [copy EXCEPT ![c] = <<>>]
  /\ Write(c, 200, None)
  /\ Goto(c, "done")
  /\ UNCHANGED <<scenario, mu, count, autoIncr, req, rule, header, quotaGhosts>>

SetRules(c) ==
  /\ pc[c] = "append"
  /\ rules' = Append(copy[c], req[c].arg)
  /\ raced' = (raced \/ HasCopied # {c})
  /\ expected' = IF raced' THEN <<>> ELSE Append(expected, req[c].arg)
  /\ copy' = [copy EXCEPT ![c] = <<>>]
  /\ Write(c, 200, None)
  /\ Goto(c, "done")
  /\ UNCHANGED <<scenario, mu, count, autoIncr, req, rule, header, quotaGhosts>>

----------------------------------------------------------------------------
\* The handlers have returned and http.Server completes the response.
Finish(c) ==
  /\ pc[c] = "done"
  /\ Goto(c, "idle")
  /\ req' = [req EXCEPT ![c] = None]
  /\ header' = [header EXCEPT ![c] = FALSE]
  /\ reply' = [reply EXCEPT ![c] = NoReply]
  /\ answered' = IF c \in fresh /\ req[c].path \in EBayPath /\ reply[c].status = 200
                 THEN answered + 1 ELSE answered
  /\ fresh' = fresh \ {c}
  /\ UNCHANGED <<serverVars, rule, copy, ruleGhosts, origin, base, carried>>

\* What a request that has no reply yet could be told now.
Verdicts(c) ==
  IF pc[c] # "idle" /\ reply[c] = NoReply THEN UNION {Outcomes(r) : r \in Matched(req[c].path)} ELSE {}
Actives(c) ==
  IF pc[c] # "idle" /\ reply[c] = NoReply /\ req[c].path \in ReadPath THEN {scenario} ELSE {}

Observe ==
  /\ verdicts' = [c \in Client |-> IF pc'[c] = "idle" THEN {} ELSE verdicts[c] \cup Verdicts(c)']
  /\ actives' = [c \in Client |-> IF pc'[c] = "idle" THEN {} ELSE actives[c] \cup Actives(c)']

Handler(c) ==
  \/ GetItem(c) \/ Search(c) \/ ListScenarios(c)
  \/ SetScenario(c) \/ ApplyScenarioQuota(c) \/ SetQuota(c)
  \/ Refuse(c) \/ ClearRules(c) \/ CopyRules(c) \/ SetRules(c)

Serve(c) ==
  \/ Match(c) \/ InjectFault(c) \/ Forward(c)
  \/ Handler(c) \/ IncrementAndStamp(c) \/ Finish(c)

Next == /\ \E c \in Client : Serve(c) \/ \E q \in Request : Arrive(c, q)
        /\ Observe

Spec == Init /\ [][Next]_vars

----------------------------------------------------------------------------
\* A client sees an injected 503 only if, at some moment while its request was
\* under way, the first rule matching its path could fail it; it gets past the
\* faults only if at some moment no rule was bound to fail it. Rules are
\* replaced while requests sleep out the latency of rules matched before.
FaultsJustified ==
  \A c \in Client : pc[c] = "done" =>
    (IF reply[c].status = 503 THEN "fail" ELSE "pass") \in verdicts[c]

\* An answer comes from a scenario that was active while the request was under
\* way, or from the default where that scenario has no fixture; a 404 for an
\* item means that neither has it. Scenarios are switched under requests.
ServesActive ==
  \A c \in Client : pc[c] = "done" /\ reply[c].status \in {200, 404} =>
    CASE req[c].path = "item"   -> \E s \in actives[c] : reply[c].from = Resolve(s, req[c].arg)
      [] req[c].path = "search" -> \E s \in actives[c] : reply[c].from = SearchTemplate(s)
      [] req[c].path = "list"   -> reply[c].from \in actives[c]
      [] OTHER -> TRUE

\* Concurrent switches never leave one scenario active with the quota another
\* scenario brought: Server.mu covers both assignments.
QuotaFollowsScenario ==
  mu = None /\ origin # None /\ QuotaOf[scenario] # None => origin = scenario

\* Every successful eBay call a client has seen completed is in the counter,
\* and nothing but successful calls is: beyond them the counter may hold
\* calls still under way, and those that were under way when the quota was set.
QuotaCounts ==
  LET completing == {c \in fresh : c \in Calls /\ reply[c].status = 200}
  IN  IF autoIncr = "off" THEN count = base
      ELSE count - base \in answered .. answered + carried + Cardinality(completing)

\* As long as no append overlaps another change of the rules, the rules in
\* force are those posted since the last "clear", in the order of the posts
\* (first match wins); a "clear" that overlaps no append ends any confusion.
RulesWhileAlone == ~ raced => rules = expected

\* handlers.go:168 "handleSetFault appends a fault rule": an append keeps every
\* rule in force. It does not: the rules are copied in one critical section and
\* stored in another.
RulesAppended ==
  [][\A c \in Client : SetRules(c) => rules' = Append(rules, req[c].arg)]_vars

\* README.md:14 and quota.go:88-89, the X-EBAY-* headers are stamped on every
\* successful eBay-shape response. They are set after the handler has written.
HeadersStamped ==
  \A c \in Client : c \in Calls /\ reply[c].status = 200 => reply[c].stamped

=============================================================================
