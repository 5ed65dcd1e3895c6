-------------------------- MODULE MockServerProofs --------------------------
(***************************************************************************)
(* Proofs about MockServer, for any clients, scenarios, rules and bounds.  *)
(* A step is the step of one client c; Frame says that the requests of the *)
(* others are where they were, and Growth that the histories of a request  *)
(* that stays under way only grow. Each theorem then looks at c alone.     *)
(***************************************************************************)
EXTENDS MockServer, TLAPS, FiniteSetTheorems

Step(c) == Serve(c) \/ \E q \in Request : Arrive(c, q)

LEMMA CallsFinite == Cardinality(InFlight) \in Nat
  BY ClientAssumption, FS_Subset, FS_CardinalityType DEF InFlight

LEMMA SnapshotOf ==
  ASSUME NEW s \in Scenario, QuotaOf[s] # None
  PROVE  /\ QuotaOf[s].count \in Nat
         /\ QuotaOf[s].autoIncr \in {"on", "off", "unset"}
  BY ScenarioAssumption DEF Snapshot

\* What a request under way may be told now is in its histories, which grow.
LEMMA Growth ==
  ASSUME Observe, NEW d \in Client
  PROVE  /\ Verdicts(d)' \subseteq verdicts'[d] \/ pc'[d] = "idle"
         /\ Actives(d)' \subseteq actives'[d] \/ pc'[d] = "idle"
         /\ pc'[d] # "idle" => verdicts[d] \subseteq verdicts'[d] /\ actives[d] \subseteq actives'[d]
  BY DEF Observe

-----------------------------------------------------------------------------
\* Type correctness.

\* The variables of a request, and what the steps of a handler leave alone.
TypeServer ==
  /\ rules \in Seq(Rule) /\ scenario \in Scenario /\ mu \in Client \cup {None}
  /\ count \in Nat /\ autoIncr \in {"on", "off"}
TypeRequests ==
  /\ pc \in [Client -> {"idle", "match", "matched", "handler", "applying", "append", "count", "done"}]
  /\ req \in [Client -> Request \cup {None}]
  /\ \A c \in Client : pc[c] # "idle" => req[c] \in Request
  /\ rule \in [Client -> Rule \cup {None}]
  /\ copy \in [Client -> Seq(Rule)]
  /\ header \in [Client -> BOOLEAN]
  /\ reply \in [Client -> [status : {0, 200, 400, 404, 503}, from : Scenario \cup {None},
                           stamped : BOOLEAN]]
TypeObserved ==
  /\ verdicts \in [Client -> SUBSET {"pass", "fail"}]
  /\ actives \in [Client -> SUBSET Scenario]
TypeGhosts ==
  /\ expected \in Seq(Rule) /\ raced \in BOOLEAN
  /\ origin \in Scenario \cup {None}
  /\ base \in Nat /\ carried \in Nat /\ answered \in Nat
  /\ fresh \subseteq Client

LEMMA MatchedRules ==
  ASSUME TypeServer, NEW path
  PROVE  Matched(path) \subseteq Rule \cup {None}
<1>1. \A i \in DOMAIN rules : rules[i] \in Rule
  BY DEF TypeServer
<1>2. QED
  BY <1>1 DEF Matched, FirstMatch

LEMMA TypeParts == TypeOK <=> TypeServer /\ TypeRequests /\ TypeObserved /\ TypeGhosts
  BY DEF TypeOK, TypeServer, TypeRequests, TypeObserved, TypeGhosts

\* A step of one client leaves the requests of the others alone.
LEMMA Frame ==
  ASSUME TypeRequests, NEW c \in Client, Step(c), NEW d \in Client, d # c
  PROVE  /\ pc'[d] = pc[d] /\ req'[d] = req[d] /\ reply'[d] = reply[d]
         /\ rule'[d] = rule[d] /\ copy'[d] = copy[d]
<1> USE DEF TypeRequests, Goto, Write
<1>1. ASSUME NEW q \in Request, Arrive(c, q)
      PROVE  pc'[d] = pc[d] /\ req'[d] = req[d] /\ reply'[d] = reply[d]
             /\ rule'[d] = rule[d] /\ copy'[d] = copy[d]
  BY <1>1 DEF Arrive
<1>2. CASE Match(c)
  BY <1>2 DEF Match
<1>3. CASE InjectFault(c)
  BY <1>3 DEF InjectFault
<1>4. CASE Forward(c)
  BY <1>4 DEF Forward
<1>5. CASE GetItem(c)
  BY <1>5 DEF GetItem
<1>6. CASE Search(c)
  BY <1>6 DEF Search
<1>7. CASE ListScenarios(c)
  BY <1>7 DEF ListScenarios
<1>8. CASE SetScenario(c)
  BY <1>8 DEF SetScenario
<1>9. CASE ApplyScenarioQuota(c)
  BY <1>9 DEF ApplyScenarioQuota
<1>10. CASE SetQuota(c)
  BY <1>10 DEF SetQuota
<1>11. CASE Refuse(c)
  BY <1>11 DEF Refuse
<1>12. CASE ClearRules(c)
  BY <1>12 DEF ClearRules
<1>13. CASE CopyRules(c)
  BY <1>13 DEF CopyRules
<1>14. CASE SetRules(c)
  BY <1>14 DEF SetRules
<1>15. CASE IncrementAndStamp(c)
  BY <1>15 DEF IncrementAndStamp
<1>16. CASE Finish(c)
  BY <1>16 DEF Finish
<1>17. QED
  BY <1>1, <1>2, <1>3, <1>4, <1>5, <1>6, <1>7, <1>8, <1>9, <1>10, <1>11, <1>12, <1>13,
     <1>14, <1>15, <1>16 DEF Step, Serve, Handler

LEMMA TypeInit == Init => TypeOK
<1> SUFFICES ASSUME Init PROVE TypeOK
  OBVIOUS
<1>1. QuotaOf[scenario] # None => QuotaOf[scenario].count \in Nat
                                  /\ QuotaOf[scenario].autoIncr \in {"on", "off", "unset"}
  BY SnapshotOf DEF Init
<1>2. TypeServer
  BY <1>1 DEF Init, TypeServer
<1>3. TypeRequests
  BY DEF Init, TypeRequests, NoReply
<1>4. TypeObserved
  BY DEF Init, TypeObserved
<1>5. TypeGhosts
  BY <1>1, <1>2 DEF Init, TypeGhosts, TypeServer
<1>6. QED
  BY <1>2, <1>3, <1>4, <1>5, TypeParts

Place == {"match", "matched", "handler", "applying", "append", "count", "done"}

LEMMA TypeGoto ==
  ASSUME TypeRequests, NEW c \in Client, pc[c] # "idle", NEW place \in Place,
         Goto(c, place), UNCHANGED req
  PROVE  /\ pc' \in [Client -> {"idle", "match", "matched", "handler", "applying", "append",
                                "count", "done"}]
         /\ \A d \in Client : pc'[d] # "idle" => req'[d] \in Request
  BY DEF TypeRequests, Goto, Place

LEMMA TypeWrite ==
  ASSUME TypeRequests, NEW c \in Client, NEW status \in {200, 400, 404, 503},
         NEW from \in Scenario \cup {None}, Write(c, status, from)
  PROVE  reply' \in [Client -> [status : {0, 200, 400, 404, 503}, from : Scenario \cup {None},
                                stamped : BOOLEAN]]
  BY DEF TypeRequests, Write

\* A step that only moves the client and, maybe, writes its reply.
LEMMA TypeMove ==
  ASSUME TypeRequests, NEW c \in Client, pc[c] # "idle", NEW place \in Place, Goto(c, place),
         UNCHANGED <<req, rule, copy, header>>,
         \/ UNCHANGED reply
         \/ \E status \in {200, 400, 404, 503}, from \in Scenario \cup {None} : Write(c, status, from)
  PROVE  TypeRequests'
<1>1. reply' \in [Client -> [status : {0, 200, 400, 404, 503}, from : Scenario \cup {None},
                             stamped : BOOLEAN]]
  BY TypeWrite DEF TypeRequests
<1>2. QED
  BY <1>1, TypeGoto DEF TypeRequests

LEMMA TypeRequestsStep ==
  ASSUME TypeServer, TypeRequests, NEW c \in Client, Step(c)
  PROVE  TypeRequests'
<1>1. ASSUME NEW q \in Request, Arrive(c, q) PROVE TypeRequests'
  BY <1>1 DEF Arrive, Goto, TypeRequests
<1>2. CASE Match(c)
  <2>1. \E r \in Rule \cup {None} : rule' = [rule EXCEPT ![c] = r]
    BY <1>2, MatchedRules DEF Match
  <2>2. rule' \in [Client -> Rule \cup {None}]
    BY <2>1 DEF TypeRequests
  <2>3. QED
    BY <1>2, <2>2, TypeGoto DEF Match, Place, TypeRequests
<1>3. CASE InjectFault(c)
  <2>1. rule' \in [Client -> Rule \cup {None}]
    BY <1>3 DEF InjectFault, TypeRequests
  <2>2. QED
    BY <1>3, <2>1, TypeGoto, TypeWrite DEF InjectFault, Place, TypeRequests
<1>4. CASE Forward(c)
  <2>1. rule' \in [Client -> Rule \cup {None}]
    BY <1>4 DEF Forward, TypeRequests
  <2>2. QED
    BY <1>4, <2>1, TypeGoto DEF Forward, Place, TypeRequests
<1>5. CASE GetItem(c)
  <2>1. Resolve(scenario, req[c].arg) \in Scenario \cup {None}
    BY ScenarioAssumption DEF Resolve, TypeServer
  <2>2. QED
    BY <1>5, <2>1, TypeMove DEF GetItem, At, Place
<1>6. CASE Search(c)
  <2>1. SearchTemplate(scenario) \in Scenario \cup {None}
    BY ScenarioAssumption DEF SearchTemplate, TypeServer
  <2>2. QED
    BY <1>6, <2>1, TypeMove DEF Search, At, Place
<1>7. CASE ListScenarios(c)
  BY <1>7, TypeMove DEF ListScenarios, At, Place, TypeServer
<1>8. CASE SetScenario(c)
  BY <1>8, TypeMove DEF SetScenario, At, Place
<1>9. CASE ApplyScenarioQuota(c)
  BY <1>9, TypeMove DEF ApplyScenarioQuota, Place
<1>10. CASE SetQuota(c)
  BY <1>10, TypeMove DEF SetQuota, At, Place
<1>11. CASE Refuse(c)
  BY <1>11, TypeMove DEF Refuse, At, Place
<1>12. CASE ClearRules(c)
  BY <1>12, TypeMove DEF ClearRules, At, Place
<1>13. CASE CopyRules(c)
  <2>1. copy' \in [Client -> Seq(Rule)]
    BY <1>13 DEF CopyRules, TypeServer, TypeRequests
  <2>2. QED
    BY <1>13, <2>1, TypeGoto DEF CopyRules, At, Place, TypeRequests
<1>14. CASE SetRules(c)
  <2>1. copy' \in [Client -> Seq(Rule)]
    BY <1>14 DEF SetRules, TypeRequests
  <2>2. QED
    BY <1>14, <2>1, TypeGoto, TypeWrite DEF SetRules, Place, TypeRequests
<1>15. CASE IncrementAndStamp(c)
  <2>1. header' \in [Client -> BOOLEAN]
    BY <1>15 DEF IncrementAndStamp, TypeRequests
  <2>2. QED
    BY <1>15, <2>1, TypeGoto DEF IncrementAndStamp, Place, TypeRequests
<1>16. CASE Finish(c)
  <2>1. NoReply \in [status : {0, 200, 400, 404, 503}, from : Scenario \cup {None},
                     stamped : BOOLEAN]
    BY DEF NoReply
  <2>2. QED
    BY <1>16, <2>1 DEF Finish, Goto, TypeRequests
<1>17. QED
  BY <1>1, <1>2, <1>3, <1>4, <1>5, <1>6, <1>7, <1>8, <1>9, <1>10, <1>11, <1>12, <1>13,
     <1>14, <1>15, <1>16 DEF Step, Serve, Handler

-----------------------------------------------------------------------------
\* Server.mu is held by a client that is about to apply the quota of the
\* scenario it has just made the active one.
LockInv ==
  /\ mu # None => mu \in Client /\ pc[mu] = "applying"
  /\ \A c \in Client : pc[c] = "applying" =>
       mu = c /\ req[c].path = "scenario" /\ req[c].arg = scenario /\ QuotaOf[scenario] # None

LEMMA TypeApply ==
  ASSUME TypeServer, NEW snap \in Snapshot, NEW by \in Scenario \cup {None}, Apply(snap, by)
  PROVE  /\ count' \in Nat /\ autoIncr' \in {"on", "off"} /\ origin' \in Scenario \cup {None}
         /\ base' \in Nat /\ carried' \in Nat /\ answered' \in Nat /\ fresh' \subseteq Client
  BY CallsFinite DEF TypeServer, Apply, Snapshot

\* What ApplyScenarioQuota applies.
LEMMA AppliedByScenario ==
  ASSUME TypeServer, LockInv, NEW c \in Client, ApplyScenarioQuota(c)
  PROVE  req[c].arg = scenario /\ QuotaOf[scenario] \in Snapshot /\ Apply(QuotaOf[scenario], scenario)
  BY ScenarioAssumption DEF ApplyScenarioQuota, LockInv, TypeServer

LEMMA AppliedByClient ==
  ASSUME TypeRequests, NEW c \in Client, SetQuota(c)
  PROVE  req[c].arg \in Snapshot /\ Apply(req[c].arg, None)
  BY RequestAssumption DEF SetQuota, At, TypeRequests

LEMMA PostedRule ==
  ASSUME TypeRequests, TypeServer, NEW c \in Client, req[c].arg \in Rule, NEW s \in Seq(Rule)
  PROVE  Append(s, req[c].arg) \in Seq(Rule)
  OBVIOUS

\* An append under way is one of a valid rule.
AppendInv ==
  \A c \in Client : pc[c] = "append" => req[c].path = "fault" /\ req[c].arg \in Rule

LEMMA AppendStep ==
  ASSUME TypeRequests, AppendInv, NEW c \in Client, Step(c)
  PROVE  AppendInv'
<1> SUFFICES ASSUME NEW d \in Client, pc'[d] = "append" PROVE req'[d].path = "fault" /\ req'[d].arg \in Rule
  BY DEF AppendInv
<1>1. CASE d # c
  BY <1>1, Frame DEF AppendInv
<1>2. CASE CopyRules(c) /\ d = c
  BY <1>2 DEF CopyRules, At
<1>3. CASE ~ CopyRules(c) /\ d = c
  <2> USE DEF TypeRequests, Goto
  <2>1. pc'[c] # "append" \/ SetScenario(c) \/ \E q \in Request : Arrive(c, q)
    BY <1>3 DEF Step, Serve, Handler, Match, InjectFault, Forward, GetItem, Search,
       ListScenarios, ApplyScenarioQuota, SetQuota, Refuse, ClearRules, SetRules,
       IncrementAndStamp, Finish
  <2>2. SetScenario(c) => pc'[c] # "append"
    BY DEF SetScenario
  <2>3. ASSUME NEW q \in Request, Arrive(c, q) PROVE pc'[c] # "append"
    BY <2>3 DEF Arrive
  <2>4. QED
    BY <1>3, <2>1, <2>2, <2>3
<1>4. QED
  BY <1>1, <1>2, <1>3

LEMMA TypeServerStep ==
  ASSUME TypeServer, TypeRequests, LockInv, AppendInv, NEW c \in Client, Step(c)
  PROVE  TypeServer'
<1>1. CASE SetScenario(c)
  BY <1>1 DEF SetScenario, TypeServer
<1>2. CASE ApplyScenarioQuota(c)
  BY <1>2, AppliedByScenario, TypeApply DEF ApplyScenarioQuota, TypeServer
<1>3. CASE SetQuota(c)
  BY <1>3, AppliedByClient, TypeApply DEF SetQuota, TypeServer
<1>4. CASE ClearRules(c)
  BY <1>4 DEF ClearRules, TypeServer
<1>5. CASE SetRules(c)
  <2>1. copy[c] \in Seq(Rule) /\ req[c].arg \in Rule
    BY <1>5 DEF SetRules, AppendInv, TypeRequests
  <2>2. rules' \in Seq(Rule)
    BY <1>5, <2>1 DEF SetRules
  <2>3. QED
    BY <1>5, <2>2 DEF SetRules, TypeServer
<1>6. CASE IncrementAndStamp(c)
  BY <1>6 DEF IncrementAndStamp, TypeServer
<1>7. CASE UNCHANGED serverVars
  BY <1>7 DEF serverVars, TypeServer
<1>8. QED
  BY <1>1, <1>2, <1>3, <1>4, <1>5, <1>6, <1>7 DEF Step, Serve, Handler, Arrive, Match,
     InjectFault, Forward, GetItem, Search, ListScenarios, Refuse, CopyRules, Finish

LEMMA TypeGhostsStep ==
  ASSUME TypeServer, TypeRequests, TypeGhosts, LockInv, AppendInv, NEW c \in Client, Step(c)
  PROVE  TypeGhosts'
<1>1. ASSUME NEW q \in Request, Arrive(c, q) PROVE TypeGhosts'
  BY <1>1 DEF Arrive, ruleGhosts, TypeGhosts
<1>2. CASE ApplyScenarioQuota(c)
  BY <1>2, AppliedByScenario, TypeApply DEF ApplyScenarioQuota, ruleGhosts, TypeServer, TypeGhosts
<1>3. CASE SetQuota(c)
  BY <1>3, AppliedByClient, TypeApply DEF SetQuota, ruleGhosts, TypeGhosts
<1>4. CASE ClearRules(c)
  BY <1>4 DEF ClearRules, quotaGhosts, TypeGhosts
<1>5. CASE SetRules(c)
  <2>1. req[c].arg \in Rule
    BY <1>5 DEF SetRules, AppendInv
  <2>2. expected' \in Seq(Rule)
    BY <1>5, <2>1 DEF SetRules, TypeGhosts
  <2>3. raced' \in BOOLEAN
    BY <1>5 DEF SetRules, TypeGhosts
  <2>4. QED
    BY <1>5, <2>2, <2>3 DEF SetRules, quotaGhosts, TypeGhosts
<1>6. CASE Finish(c)
  BY <1>6 DEF Finish, ruleGhosts, TypeGhosts
<1>7. CASE UNCHANGED <<ruleGhosts, quotaGhosts>>
  BY <1>7 DEF ruleGhosts, quotaGhosts, TypeGhosts
<1>8. QED
  BY <1>1, <1>2, <1>3, <1>4, <1>5, <1>6, <1>7 DEF Step, Serve, Handler, Match, InjectFault,
     Forward, GetItem, Search, ListScenarios, SetScenario, Refuse, CopyRules, IncrementAndStamp

LEMMA TypeObservedStep ==
  ASSUME TypeServer', TypeRequests', TypeObserved, Observe
  PROVE  TypeObserved'
<1>1. \A c \in Client : Verdicts(c)' \subseteq {"pass", "fail"}
  BY DEF Verdicts, Outcomes
<1>2. \A c \in Client : Actives(c)' \subseteq Scenario
  BY DEF Actives, TypeServer
<1>3. verdicts' \in [Client -> SUBSET {"pass", "fail"}]
  BY <1>1 DEF Observe, TypeObserved
<1>4. actives' \in [Client -> SUBSET Scenario]
  BY <1>2 DEF Observe, TypeObserved
<1>5. QED
  BY <1>3, <1>4 DEF TypeObserved

LEMMA LockStep ==
  ASSUME TypeServer, TypeRequests, LockInv, NEW c \in Client, Step(c)
  PROVE  LockInv'
<1>0. None \notin Client
  BY ScenarioAssumption
<1>1. CASE SetScenario(c)
  <2>1. mu = None /\ \A d \in Client : pc[d] # "applying"
    BY <1>0, <1>1 DEF SetScenario, LockInv
  <2>2. CASE UNCHANGED mu
    <3>1. pc' = [pc EXCEPT ![c] = "done"]
      BY <1>0, <1>1, <2>1, <2>2 DEF SetScenario, Goto
    <3>2. QED
      BY <2>1, <2>2, <3>1 DEF LockInv, TypeRequests
  <2>3. CASE mu' = c
    <3>1. /\ pc' = [pc EXCEPT ![c] = "applying"] /\ req' = req /\ scenario' = req[c].arg
          /\ req[c].path = "scenario" /\ QuotaOf[req[c].arg] # None
      BY <1>0, <1>1, <2>1, <2>3 DEF SetScenario, At, Goto
    <3>2. QED
      BY <2>1, <2>3, <3>1 DEF LockInv, TypeRequests
  <2>4. QED
    BY <1>1, <2>2, <2>3 DEF SetScenario
<1>2. CASE ApplyScenarioQuota(c)
  <2>1. mu = c /\ mu' = None /\ pc' = [pc EXCEPT ![c] = "done"] /\ req' = req
    BY <1>2 DEF ApplyScenarioQuota, LockInv, Goto
  <2>2. QED
    BY <1>0, <2>1 DEF LockInv, TypeRequests
<1>3. CASE UNCHANGED <<mu, scenario>> /\ pc[c] # "applying" /\ pc'[c] # "applying"
  <2>1. TypeRequests'
    BY TypeRequestsStep
  <2>2. \A d \in Client : d # c => pc'[d] = pc[d] /\ req'[d] = req[d]
    BY Frame
  <2>3. QED
    BY <1>0, <1>3, <2>1, <2>2 DEF LockInv
<1>4. QED
  BY <1>1, <1>2, <1>3 DEF Step, Serve, Handler, Arrive, Match, InjectFault, Forward, GetItem, Search,
     ListScenarios, SetQuota, Refuse, ClearRules, CopyRules, SetRules, IncrementAndStamp,
     Finish, At, Goto, TypeRequests, serverVars

-----------------------------------------------------------------------------
Inv == TypeOK /\ LockInv /\ AppendInv

LEMMA InvStep ==
  ASSUME Inv, Observe, NEW c \in Client, Step(c)
  PROVE  Inv'
<1>0. TypeServer /\ TypeRequests /\ TypeObserved /\ TypeGhosts /\ LockInv /\ AppendInv
  BY TypeParts DEF Inv
<1>1. TypeServer' /\ TypeRequests' /\ TypeGhosts'
  BY <1>0, TypeServerStep, TypeRequestsStep, TypeGhostsStep
<1>2. TypeObserved'
  BY <1>0, <1>1, TypeObservedStep
<1>3. LockInv' /\ AppendInv'
  BY <1>0, LockStep, AppendStep
<1>4. TypeOK'
  BY <1>1, <1>2 DEF TypeOK, TypeServer, TypeRequests, TypeObserved, TypeGhosts
<1>5. QED
  BY <1>3, <1>4 DEF Inv

LEMMA StepOf == Next <=> Observe /\ \E c \in Client : Step(c)
  BY DEF Next, Step

\* At every moment the variables have their types, Server.mu is held exactly by
\* the client whose scenario switch is half done, and a client between the two
\* critical sections of an append is one that posted a rule. All else rests on it.
THEOREM Invariance == Spec => []Inv
<1>1. Init => Inv
  <2>1. Init => LockInv /\ AppendInv
    BY DEF Init, LockInv, AppendInv
  <2>2. QED
    BY <2>1, TypeInit DEF Inv
<1>2. Inv /\ [Next]_vars => Inv'
  <2>1. ASSUME Inv, Next PROVE Inv'
    BY <2>1, StepOf, InvStep
  <2>2. ASSUME Inv, UNCHANGED vars PROVE Inv'
    BY <2>2 DEF Inv, TypeOK, LockInv, AppendInv, vars, serverVars, ruleGhosts, quotaGhosts
  <2>3. QED
    BY <2>1, <2>2
<1>3. QED
  BY <1>1, <1>2, PTL DEF Spec

\* Every variable stays in its type; in particular the switch of the counter is
\* never the nil of a snapshot, and only valid rules are ever in force.
THEOREM TypeCorrect == Spec => []TypeOK
<1>1. Inv => TypeOK
  BY DEF Inv
<1>2. QED
  BY <1>1, Invariance, PTL

-----------------------------------------------------------------------------
\* Server.mu covers the switch and the quota: whoever may read the scenario
\* finds the quota that scenario brought, unless a client set one since.
LEMMA QuotaFollowsStep ==
  ASSUME Inv, QuotaFollowsScenario, NEW c \in Client, Step(c)
  PROVE  QuotaFollowsScenario'
<1>0. TypeServer /\ TypeRequests /\ LockInv /\ None \notin Scenario /\ None \notin Client
  BY TypeParts, ScenarioAssumption DEF Inv
<1>1. CASE SetScenario(c)
  BY <1>0, <1>1 DEF SetScenario, QuotaFollowsScenario, quotaGhosts
<1>2. CASE ApplyScenarioQuota(c)
  BY <1>0, <1>2 DEF ApplyScenarioQuota, Apply, LockInv, QuotaFollowsScenario
<1>3. CASE SetQuota(c)
  BY <1>3 DEF SetQuota, Apply, QuotaFollowsScenario
<1>4. CASE UNCHANGED <<mu, scenario, origin>>
  BY <1>4 DEF QuotaFollowsScenario
<1>5. QED
  BY <1>1, <1>2, <1>3, <1>4 DEF Step, Serve, Handler, Arrive, Match, InjectFault, Forward, GetItem,
     Search, ListScenarios, Refuse, ClearRules, CopyRules, SetRules, IncrementAndStamp,
     Finish, serverVars, quotaGhosts

\* Whoever sees Server.mu free sees the active scenario and its quota together.
THEOREM SwitchIsAtomic == Spec => []QuotaFollowsScenario
<1>1. Init => QuotaFollowsScenario
  BY DEF Init, QuotaFollowsScenario
<1>2. Inv /\ QuotaFollowsScenario /\ [Next]_vars => QuotaFollowsScenario'
  <2>1. ASSUME Inv, QuotaFollowsScenario, Next PROVE QuotaFollowsScenario'
    BY <2>1, StepOf, QuotaFollowsStep
  <2>2. ASSUME QuotaFollowsScenario, UNCHANGED vars PROVE QuotaFollowsScenario'
    BY <2>2 DEF QuotaFollowsScenario, vars, serverVars, quotaGhosts
  <2>3. QED
    BY <2>1, <2>2
<1>3. QED
  BY <1>1, <1>2, Invariance, PTL DEF Spec

-----------------------------------------------------------------------------
\* A client in handleSetFault between its two critical sections holds the rules
\* in force, unless another change came in between.
AloneInv ==
  ~ raced => rules = expected /\ \A c \in HasCopied : copy[c] = rules

LEMMA AloneStep ==
  ASSUME Inv, AloneInv, NEW c \in Client, Step(c)
  PROVE  AloneInv'
<1>0. TypeRequests /\ TypeGhosts
  BY TypeParts DEF Inv
<1>1. CASE CopyRules(c)
  BY <1>0, <1>1 DEF CopyRules, AloneInv, HasCopied, Goto, serverVars, ruleGhosts, TypeRequests
<1>2. CASE SetRules(c)
  <2>1. SUFFICES ASSUME ~ raced' PROVE AloneInv'
    BY DEF AloneInv
  <2>2. ~ raced /\ HasCopied = {c} /\ expected' = Append(expected, req[c].arg)
    BY <1>2, <2>1 DEF SetRules
  <2>3. rules' = Append(rules, req[c].arg) /\ rules' = expected'
    BY <1>2, <2>2 DEF SetRules, AloneInv
  <2>4. HasCopied' = {}
    BY <1>0, <1>2, <2>2 DEF SetRules, HasCopied, Goto, TypeRequests
  <2>5. QED
    BY <2>3, <2>4 DEF AloneInv
<1>3. CASE ClearRules(c)
  <2>1. HasCopied # {} => raced'
    BY <1>3 DEF ClearRules
  <2>2. HasCopied' \subseteq HasCopied
    BY <1>0, <1>3 DEF ClearRules, HasCopied, Goto, TypeRequests
  <2>3. QED
    BY <1>3, <2>1, <2>2 DEF ClearRules, AloneInv
<1>4. CASE UNCHANGED <<rules, ruleGhosts, copy>> /\ pc'[c] # "append"
  <2>1. HasCopied' \subseteq HasCopied
    BY <1>0, <1>4, Frame DEF HasCopied
  <2>2. QED
    BY <1>4, <2>1 DEF AloneInv, ruleGhosts
<1>5. QED
  <2> USE DEF serverVars, Goto, TypeRequests
  <2>1. ASSUME NEW q \in Request, Arrive(c, q) PROVE UNCHANGED <<rules, ruleGhosts, copy>> /\ pc'[c] # "append"
    BY <1>0, <2>1 DEF Arrive
  <2>2. SetScenario(c) => UNCHANGED <<rules, ruleGhosts, copy>> /\ pc'[c] # "append"
    BY <1>0 DEF SetScenario
  <2>3. \/ CopyRules(c) \/ SetRules(c) \/ ClearRules(c) \/ SetScenario(c)
        \/ \E q \in Request : Arrive(c, q)
        \/ UNCHANGED <<rules, ruleGhosts, copy>> /\ pc'[c] # "append"
    BY <1>0 DEF Step, Serve, Handler, Match, InjectFault, Forward, GetItem, Search, ListScenarios,
       ApplyScenarioQuota, SetQuota, Refuse, IncrementAndStamp, Finish
  <2>4. QED
    BY <1>1, <1>2, <1>3, <1>4, <2>1, <2>2, <2>3

\* Appends that do not overlap another change of the rules lose nothing.
THEOREM AppendsAlone == Spec => []RulesWhileAlone
<1>1. Init => AloneInv
  BY DEF Init, AloneInv, HasCopied
<1>2. Inv /\ AloneInv /\ [Next]_vars => AloneInv'
  <2>1. ASSUME Inv, AloneInv, Next PROVE AloneInv'
    BY <2>1, StepOf, AloneStep
  <2>2. ASSUME AloneInv, UNCHANGED vars PROVE AloneInv'
    BY <2>2 DEF AloneInv, HasCopied, vars, serverVars, ruleGhosts
  <2>3. QED
    BY <2>1, <2>2
<1>3. AloneInv => RulesWhileAlone
  BY DEF AloneInv, RulesWhileAlone
<1>4. QED
  BY <1>1, <1>2, <1>3, Invariance, PTL DEF Spec

-----------------------------------------------------------------------------
\* A request has no reply before its handler wrote one, and then a status.
Early == {"idle", "match", "matched", "handler", "applying", "append"}
ReplyInv ==
  \A c \in Client :
    /\ pc[c] \in Early => reply[c] = NoReply
    /\ pc[c] = "count" => reply[c].status = 200 /\ req[c].path \in EBayPath
    /\ pc[c] = "done" => reply[c].status # 0

\* Which places follow each other in the step of a client.
LEMMA Places ==
  ASSUME TypeRequests, LockInv, NEW c \in Client, Step(c)
  PROVE  \/ /\ pc'[c] \in Early /\ UNCHANGED <<reply, req>>
            /\ \/ pc[c] = "match" /\ pc'[c] = "matched"
               \/ pc[c] = "matched" /\ pc'[c] = "handler" /\ "pass" \in Outcomes(rule[c])
               \/ pc[c] = "handler" /\ pc'[c] \in {"applying", "append"}
         \/ pc[c] = "done" /\ pc'[c] = "idle" /\ reply'[c] = NoReply
         \/ pc[c] = "idle" /\ pc'[c] = "match" /\ UNCHANGED reply
         \/ pc[c] = "count" /\ pc'[c] = "done" /\ UNCHANGED <<reply, req>>
         \/ /\ pc[c] = "matched" /\ pc'[c] = "done" /\ "fail" \in Outcomes(rule[c])
            /\ reply'[c].status = 503 /\ UNCHANGED req
         \/ /\ pc[c] \in {"handler", "applying", "append"} /\ pc'[c] \in {"count", "done"}
            /\ reply'[c].status \in {200, 400, 404} /\ UNCHANGED req
            /\ pc'[c] = "count" => reply'[c].status = 200 /\ req[c].path \in EBayPath
<1> USE DEF TypeRequests, Goto, Early
<1>1. ASSUME NEW q \in Request, Arrive(c, q) PROVE pc[c] = "idle" /\ pc'[c] = "match" /\ UNCHANGED reply
  BY <1>1 DEF Arrive
<1>2. CASE Match(c)
  BY <1>2 DEF Match
<1>3. CASE InjectFault(c)
  BY <1>3 DEF InjectFault, Write
<1>4. CASE Forward(c)
  BY <1>4 DEF Forward
<1>5. CASE GetItem(c)
  BY <1>5 DEF GetItem, Write, At, EBayPath
<1>6. CASE Search(c)
  BY <1>6 DEF Search, Write, At, EBayPath
<1>7. CASE ListScenarios(c)
  BY <1>7 DEF ListScenarios, Write, At
<1>8. CASE SetScenario(c)
  BY <1>8 DEF SetScenario, Write, At
<1>9. CASE ApplyScenarioQuota(c)
  BY <1>9 DEF ApplyScenarioQuota, Write
<1>10. CASE SetQuota(c)
  BY <1>10 DEF SetQuota, Write, At
<1>11. CASE Refuse(c)
  BY <1>11 DEF Refuse, Write, At
<1>12. CASE ClearRules(c)
  BY <1>12 DEF ClearRules, Write, At
<1>13. CASE CopyRules(c)
  BY <1>13 DEF CopyRules, At
<1>14. CASE SetRules(c)
  BY <1>14 DEF SetRules, Write
<1>15. CASE IncrementAndStamp(c)
  BY <1>15 DEF IncrementAndStamp
<1>16. CASE Finish(c)
  BY <1>16 DEF Finish
<1>17. CASE Handler(c)
  BY <1>5, <1>6, <1>7, <1>8, <1>9, <1>10, <1>11, <1>12, <1>13, <1>14, <1>17 DEF Handler
<1>18. CASE Serve(c)
  BY <1>2, <1>3, <1>4, <1>15, <1>16, <1>17, <1>18 DEF Serve
<1>19. QED
  BY <1>1, <1>18 DEF Step

LEMMA ReplyStep ==
  ASSUME Inv, ReplyInv, NEW c \in Client, Step(c)
  PROVE  ReplyInv'
<1>0. TypeRequests /\ LockInv
  BY TypeParts DEF Inv
<1> SUFFICES ASSUME NEW d \in Client
             PROVE  /\ pc'[d] \in Early => reply'[d] = NoReply
                    /\ pc'[d] = "count" => reply'[d].status = 200 /\ req'[d].path \in EBayPath
                    /\ pc'[d] = "done" => reply'[d].status # 0
  BY DEF ReplyInv, NoReply
<1>1. CASE d # c
  BY <1>0, <1>1, Frame DEF ReplyInv
<1>2. CASE d = c
  BY <1>0, <1>2, Places DEF ReplyInv, Early
<1>3. QED
  BY <1>1, <1>2

\* The verdicts a request has met: what it may be told now is among them, and
\* so is what the rule matched for it may do, or what has been decided.
FaultInv ==
  \A c \in Client :
    /\ Verdicts(c) \subseteq verdicts[c]
    /\ pc[c] = "matched" => Outcomes(rule[c]) \subseteq verdicts[c]
    /\ pc[c] \in {"handler", "applying", "append", "count"} => "pass" \in verdicts[c]
    /\ pc[c] = "done" => (IF reply[c].status = 503 THEN "fail" ELSE "pass") \in verdicts[c]

LEMMA FaultStep ==
  ASSUME Inv, ReplyInv, FaultInv, Observe, NEW c \in Client, Step(c)
  PROVE  FaultInv'
<1>0. TypeRequests /\ LockInv
  BY TypeParts DEF Inv
<1> SUFFICES ASSUME NEW d \in Client
             PROVE  /\ Verdicts(d)' \subseteq verdicts'[d]
                    /\ pc'[d] = "matched" => Outcomes(rule'[d]) \subseteq verdicts'[d]
                    /\ pc'[d] \in {"handler", "applying", "append", "count"} => "pass" \in verdicts'[d]
                    /\ pc'[d] = "done" => (IF reply'[d].status = 503 THEN "fail" ELSE "pass") \in verdicts'[d]
  BY DEF FaultInv, Verdicts, Outcomes
<1>1. Verdicts(d)' \subseteq verdicts'[d]
  BY Growth DEF Verdicts
<1>2. pc'[d] # "idle" => verdicts[d] \subseteq verdicts'[d]
  BY Growth
<1>3. CASE d # c
  BY <1>0, <1>1, <1>2, <1>3, Frame DEF FaultInv
<1>4. CASE d = c
  <2>1. pc'[c] = "matched" => Outcomes(rule'[c]) \subseteq verdicts'[c]
    <3>1. SUFFICES ASSUME pc'[c] = "matched" PROVE Outcomes(rule'[c]) \subseteq verdicts[c]
      BY <1>2, <1>4
    <3>2. Match(c)
      BY <1>0, <3>1 DEF Step, Serve, Handler, Arrive, Match, InjectFault, Forward, GetItem, Search,
         ListScenarios, SetScenario, ApplyScenarioQuota, SetQuota, Refuse, ClearRules,
         CopyRules, SetRules, IncrementAndStamp, Finish, Goto, TypeRequests
    <3>3. pc[c] = "match" /\ reply[c] = NoReply /\ rule'[c] \in Matched(req[c].path)
      BY <1>0, <3>2 DEF Match, ReplyInv, Early, TypeRequests
    <3>4. Outcomes(rule'[c]) \subseteq Verdicts(c)
      BY <3>3 DEF Verdicts
    <3>5. QED
      BY <3>4 DEF FaultInv
  <2>2. /\ pc'[c] \in {"handler", "applying", "append", "count"} => "pass" \in verdicts'[c]
        /\ pc'[c] = "done" => (IF reply'[c].status = 503 THEN "fail" ELSE "pass") \in verdicts'[c]
    BY <1>0, <1>2, <1>4, Places DEF FaultInv, ReplyInv, Early
  <2>3. QED
    BY <1>1, <1>4, <2>1, <2>2
<1>5. QED
  BY <1>3, <1>4

\* No client is told of a fault that was not in force while it waited, and
\* none gets past one that was in force all the time.
THEOREM FaultsAreReal == Spec => []FaultsJustified
<1>1. Init => ReplyInv /\ FaultInv
  BY DEF Init, ReplyInv, FaultInv, Verdicts, Early, NoReply
<1>2. Inv /\ ReplyInv /\ FaultInv /\ [Next]_vars => ReplyInv' /\ FaultInv'
  <2>1. ASSUME Inv, ReplyInv, FaultInv, Next PROVE ReplyInv' /\ FaultInv'
    BY <2>1, StepOf, ReplyStep, FaultStep
  <2>2. ASSUME ReplyInv, FaultInv, UNCHANGED vars PROVE ReplyInv' /\ FaultInv'
    BY <2>2 DEF ReplyInv, FaultInv, Verdicts, Matched, FirstMatch, vars, serverVars
  <2>3. QED
    BY <2>1, <2>2
<1>3. FaultInv => FaultsJustified
  BY DEF FaultInv, FaultsJustified
<1>4. QED
  BY <1>1, <1>2, <1>3, Invariance, PTL DEF Spec

-----------------------------------------------------------------------------
\* What a read request that has been answered was told of the scenarios.
Told(c) ==
  CASE req[c].path = "item"   -> \E s \in actives[c] : reply[c].from = Resolve(s, req[c].arg)
    [] req[c].path = "search" -> \E s \in actives[c] : reply[c].from = SearchTemplate(s)
    [] req[c].path = "list"   -> reply[c].from \in actives[c]
    [] OTHER -> TRUE

ReadInv ==
  \A c \in Client :
    /\ Actives(c) \subseteq actives[c]
    /\ pc[c] \in {"count", "done"} /\ reply[c].status \in {200, 404} => Told(c)

LEMMA ToldStays ==
  ASSUME NEW c \in Client, Told(c), reply'[c] = reply[c], req'[c] = req[c], actives[c] \subseteq actives'[c]
  PROVE  Told(c)'
  BY DEF Told, Resolve, SearchTemplate

\* The step in which a client is answered with 200 or 404.
LEMMA ToldNow ==
  ASSUME Inv, ReplyInv, ReadInv, Observe, NEW c \in Client, Step(c),
         pc[c] \notin {"count", "done"}, pc'[c] \in {"count", "done"}, reply'[c].status \in {200, 404}
  PROVE  Told(c)'
<1>0. TypeRequests /\ TypeServer /\ LockInv /\ AppendInv
  BY TypeParts DEF Inv
<1>1. Actives(c) \subseteq actives'[c]
  BY Growth DEF ReadInv
<1>2. CASE GetItem(c)
  <2>1. req' = req /\ req[c].path = "item" /\ reply'[c].from = Resolve(scenario, req[c].arg)
    BY <1>0, <1>2 DEF GetItem, At, Write, TypeRequests
  <2>2. scenario \in actives'[c]
    BY <1>1, <1>2 DEF GetItem, At, Actives, ReplyInv, Early, ReadPath, EBayPath
  <2>3. QED
    BY <2>1, <2>2 DEF Told, Resolve
<1>3. CASE Search(c)
  <2>1. req' = req /\ req[c].path = "search" /\ reply'[c].from = SearchTemplate(scenario)
    BY <1>0, <1>3 DEF Search, At, Write, TypeRequests
  <2>2. scenario \in actives'[c]
    BY <1>1, <1>3 DEF Search, At, Actives, ReplyInv, Early, ReadPath, EBayPath
  <2>3. QED
    BY <2>1, <2>2 DEF Told, SearchTemplate
<1>4. CASE ListScenarios(c)
  <2>1. req' = req /\ req[c].path = "list" /\ reply'[c].from = scenario
    BY <1>0, <1>4 DEF ListScenarios, At, Write, TypeRequests
  <2>2. scenario \in actives'[c]
    BY <1>1, <1>4 DEF ListScenarios, At, Actives, ReplyInv, Early, ReadPath
  <2>3. QED
    BY <2>1, <2>2 DEF Told
<1>5. CASE req'[c].path \in {"scenario", "quota", "fault"}
  BY <1>5 DEF Told
<1>6. QED
  <2> USE DEF At, Goto, TypeRequests
  <2>1. SetScenario(c) => req'[c].path \in {"scenario", "quota", "fault"}
    BY DEF SetScenario
  <2>2. ApplyScenarioQuota(c) \/ SetRules(c) => req'[c].path \in {"scenario", "quota", "fault"}
    BY <1>0 DEF ApplyScenarioQuota, SetRules, LockInv, AppendInv
  <2>3. SetQuota(c) \/ Refuse(c) \/ ClearRules(c) => req'[c].path \in {"scenario", "quota", "fault"}
    BY DEF SetQuota, Refuse, ClearRules
  <2>4. InjectFault(c) => reply'[c].status = 503
    BY <1>0 DEF InjectFault, Write
  <2>5. Match(c) \/ Forward(c) \/ CopyRules(c) => pc'[c] \notin {"count", "done"}
    BY <1>0 DEF Match, Forward, CopyRules
  <2>6. IncrementAndStamp(c) \/ Finish(c) => pc[c] \in {"count", "done"}
    BY DEF IncrementAndStamp, Finish
  <2>7. ASSUME NEW q \in Request, Arrive(c, q) PROVE pc'[c] \notin {"count", "done"}
    BY <1>0, <2>7 DEF Arrive
  <2>8. QED
    BY <1>2, <1>3, <1>4, <1>5, <2>1, <2>2, <2>3, <2>4, <2>5, <2>6, <2>7 DEF Step, Serve, Handler

LEMMA ReadStep ==
  ASSUME Inv, ReplyInv, ReadInv, Observe, NEW c \in Client, Step(c)
  PROVE  ReadInv'
<1>0. TypeRequests /\ LockInv
  BY TypeParts DEF Inv
<1> SUFFICES ASSUME NEW d \in Client
             PROVE  /\ Actives(d)' \subseteq actives'[d]
                    /\ pc'[d] \in {"count", "done"} /\ reply'[d].status \in {200, 404} => Told(d)'
  BY DEF ReadInv, Actives, Told, Resolve, SearchTemplate
<1>1. Actives(d)' \subseteq actives'[d]
  BY Growth DEF Actives
<1>2. SUFFICES ASSUME pc'[d] \in {"count", "done"}, reply'[d].status \in {200, 404} PROVE Told(d)'
  BY <1>1
<1>3. actives[d] \subseteq actives'[d]
  BY <1>2, Growth
<1>4. CASE d # c
  <2>1. pc'[d] = pc[d] /\ req'[d] = req[d] /\ reply'[d] = reply[d]
    BY <1>0, <1>4, Frame
  <2>2. Told(d)
    BY <1>2, <2>1 DEF ReadInv
  <2>3. QED
    BY <1>3, <2>1, <2>2, ToldStays
<1>5. CASE d = c /\ pc[c] \in {"count", "done"}
  <2>1. req'[c] = req[c] /\ reply'[c] = reply[c]
    BY <1>0, <1>2, <1>5, Places DEF Early
  <2>2. Told(c)
    BY <1>2, <1>5, <2>1 DEF ReadInv
  <2>3. QED
    BY <1>3, <1>5, <2>1, <2>2, ToldStays
<1>6. CASE d = c /\ pc[c] \notin {"count", "done"}
  BY <1>2, <1>6, ToldNow
<1>7. QED
  BY <1>4, <1>5, <1>6

\* Every answer comes from a scenario that was active while its client waited.
THEOREM AnswersAreCurrent == Spec => []ServesActive
<1>1. Init => ReplyInv /\ ReadInv
  BY DEF Init, ReplyInv, ReadInv, Actives, Early, NoReply
<1>2. Inv /\ ReplyInv /\ ReadInv /\ [Next]_vars => ReplyInv' /\ ReadInv'
  <2>1. ASSUME Inv, ReplyInv, ReadInv, Next PROVE ReplyInv' /\ ReadInv'
    BY <2>1, StepOf, ReplyStep, ReadStep
  <2>2. ASSUME ReplyInv, ReadInv, UNCHANGED vars PROVE ReplyInv' /\ ReadInv'
    BY <2>2 DEF ReplyInv, ReadInv, Actives, Told, Resolve, SearchTemplate, vars, serverVars
  <2>3. QED
    BY <2>1, <2>2
<1>3. ReadInv => ServesActive
  BY DEF ReadInv, Told, ServesActive
<1>4. QED
  BY <1>1, <1>2, <1>3, Invariance, PTL DEF Spec

-----------------------------------------------------------------------------
\* The calls of the current quota that are counted but not yet seen completed,
\* and those of an earlier quota that may still be counted.
Completed == {c \in fresh : c \in Calls /\ pc[c] = "done" /\ reply[c].status = 200}
Stale     == InFlight \ fresh

CountInv ==
  IF autoIncr = "off" THEN count = base
  ELSE /\ answered + Cardinality(Completed) <= count - base
       /\ (count - base) + Cardinality(Stale) <= answered + Cardinality(Completed) + carried

LEMMA SetsFinite ==
  ASSUME TypeGhosts
  PROVE  /\ IsFiniteSet(Completed) /\ Cardinality(Completed) \in Nat
         /\ IsFiniteSet(Stale) /\ Cardinality(Stale) \in Nat
         /\ IsFiniteSet(InFlight) /\ Cardinality(InFlight) \in Nat
<1>1. Completed \subseteq Client /\ Stale \subseteq Client /\ InFlight \subseteq Client
  BY DEF TypeGhosts, Completed, Stale, InFlight
<1>2. QED
  BY <1>1, ClientAssumption, FS_Subset, FS_CardinalityType

\* A step after which no more stale calls are under way, and which neither
\* counts nor completes a call of the current quota.
LEMMA CountFrame ==
  ASSUME TypeServer, TypeGhosts, TypeGhosts', CountInv, UNCHANGED <<count, autoIncr, base, carried, answered>>,
         Completed' = Completed, Stale' \subseteq Stale
  PROVE  CountInv'
<1>1. Cardinality(Stale') <= Cardinality(Stale) /\ Cardinality(Stale') \in Nat
  BY SetsFinite, FS_Subset, FS_CardinalityType
<1>2. QED
  BY <1>1, SetsFinite DEF CountInv, TypeServer, TypeGhosts

LEMMA NoDifference ==
  ASSUME NEW x \in Nat, NEW y \in Nat, x = y
  PROVE  x - y = 0
  OBVIOUS

\* A new quota.
LEMMA CountApplied ==
  ASSUME TypeServer, TypeGhosts, NEW snap \in Snapshot, NEW by \in Scenario \cup {None}, Apply(snap, by),
         InFlight' \subseteq InFlight
  PROVE  CountInv'
<1>1. Completed' = {}
  BY DEF Apply, Completed
<1>2. Cardinality(Completed') = 0
  BY <1>1, FS_EmptySet
<1>3. Stale' \subseteq InFlight
  BY DEF Stale
<1>4. Cardinality(Stale') <= Cardinality(InFlight) /\ Cardinality(Stale') \in Nat /\ Cardinality(InFlight) \in Nat
  BY <1>3, SetsFinite, FS_Subset, FS_CardinalityType
<1>5. count' = base' /\ count' \in Nat /\ answered' = 0 /\ carried' = Cardinality(InFlight)
  BY DEF Apply, Snapshot
<1>6. count' - base' = 0
  <2>1. count' \in Nat /\ base' \in Nat /\ count' = base'
    BY <1>5
  <2>2. QED
    BY <2>1, NoDifference
<1>7. answered' + Cardinality(Completed') = 0
  BY <1>2, <1>5
<1>8. (count' - base') + Cardinality(Stale') <= (answered' + Cardinality(Completed')) + carried'
  BY <1>4, <1>5, <1>6, <1>7
<1>9. QED
  BY <1>5, <1>6, <1>7, <1>8 DEF CountInv

\* A call is counted.
LEMMA CountIncrement ==
  ASSUME Inv, ReplyInv, CountInv, NEW c \in Client, IncrementAndStamp(c)
  PROVE  CountInv'
<1>0. TypeServer /\ TypeRequests /\ TypeGhosts
  BY TypeParts DEF Inv
<1>1. /\ pc[c] = "count" /\ pc' = [pc EXCEPT ![c] = "done"] /\ UNCHANGED <<reply, req, fresh>>
      /\ UNCHANGED <<autoIncr, base, carried, answered>>
      /\ count' = IF autoIncr = "on" THEN count + 1 ELSE count
  BY DEF IncrementAndStamp, Goto, quotaGhosts
<1>2. c \in Calls /\ c \in InFlight /\ reply[c].status = 200 /\ c \notin Completed
  BY <1>1 DEF Calls, InFlight, ReplyInv, Completed
<1>3. InFlight' = InFlight \ {c}
  BY <1>0, <1>1 DEF InFlight, TypeRequests
<1>4. Completed' = IF c \in fresh THEN Completed \cup {c} ELSE Completed
  BY <1>0, <1>1, <1>2 DEF Completed, Calls, TypeRequests, TypeGhosts
<1>5. CASE c \in fresh
  <2>1. Stale' = Stale /\ Completed' = Completed \cup {c}
    BY <1>1, <1>3, <1>4, <1>5 DEF Stale
  <2>2. Cardinality(Completed') = Cardinality(Completed) + 1
    BY <1>0, <1>2, <2>1, SetsFinite, FS_AddElement
  <2>3. CASE autoIncr = "off"
    BY <1>1, <2>3 DEF CountInv
  <2>4. CASE autoIncr = "on"
    <3>1. /\ count' = count + 1 /\ autoIncr' = "on"
          /\ count \in Nat /\ base \in Nat /\ carried \in Nat /\ answered \in Nat
          /\ Cardinality(Completed) \in Nat /\ Cardinality(Stale) \in Nat
      BY <1>0, <1>1, <2>4, SetsFinite DEF TypeServer, TypeGhosts
    <3>2. QED
      BY <1>1, <2>1, <2>2, <3>1, <2>4 DEF CountInv
  <2>5. QED
    BY <1>0, <2>3, <2>4 DEF TypeServer
<1>6. CASE c \notin fresh
  <2>1. c \in Stale /\ Stale' = Stale \ {c} /\ Completed' = Completed
    BY <1>1, <1>2, <1>3, <1>4, <1>6 DEF Stale
  <2>2. Cardinality(Stale') = Cardinality(Stale) - 1
    BY <1>0, <2>1, SetsFinite, FS_RemoveElement
  <2>3. CASE autoIncr = "off"
    BY <1>1, <2>3 DEF CountInv
  <2>4. CASE autoIncr = "on"
    <3>1. /\ count' = count + 1 /\ autoIncr' = "on"
          /\ count \in Nat /\ base \in Nat /\ carried \in Nat /\ answered \in Nat
          /\ Cardinality(Completed) \in Nat /\ Cardinality(Stale) \in Nat
      BY <1>0, <1>1, <2>4, SetsFinite DEF TypeServer, TypeGhosts
    <3>2. QED
      BY <1>1, <2>1, <2>2, <3>1, <2>4 DEF CountInv
  <2>5. QED
    BY <1>0, <2>3, <2>4 DEF TypeServer
<1>7. QED
  BY <1>5, <1>6

\* A call is seen completed.
LEMMA CountFinish ==
  ASSUME Inv, CountInv, NEW c \in Client, Finish(c)
  PROVE  CountInv'
<1>0. TypeServer /\ TypeRequests /\ TypeGhosts
  BY TypeParts DEF Inv
<1>1. /\ pc[c] = "done" /\ pc' = [pc EXCEPT ![c] = "idle"] /\ req' = [req EXCEPT ![c] = None]
      /\ reply' = [reply EXCEPT ![c] = NoReply] /\ fresh' = fresh \ {c}
      /\ UNCHANGED <<count, autoIncr, base, carried>>
      /\ answered' = IF c \in fresh /\ req[c].path \in EBayPath /\ reply[c].status = 200
                     THEN answered + 1 ELSE answered
  BY DEF Finish, Goto, serverVars
<1>2. c \in Completed <=> c \in fresh /\ req[c].path \in EBayPath /\ reply[c].status = 200
  BY <1>1 DEF Completed, Calls
<1>3. InFlight' = InFlight /\ c \notin InFlight
  BY <1>0, <1>1 DEF InFlight, TypeRequests
<1>4. Stale' = Stale
  BY <1>1, <1>3 DEF Stale
<1>5. Completed' = Completed \ {c}
  BY <1>0, <1>1 DEF Completed, Calls, TypeRequests, TypeGhosts
<1>6. CASE c \in Completed
  <2>1. Cardinality(Completed') = Cardinality(Completed) - 1
    BY <1>0, <1>5, <1>6, SetsFinite, FS_RemoveElement
  <2>2. answered' = answered + 1
    BY <1>1, <1>2, <1>6
  <2>3. QED
    BY <1>0, <1>1, <1>4, <2>1, <2>2, SetsFinite DEF CountInv, TypeServer, TypeGhosts
<1>7. CASE c \notin Completed
  <2>1. Completed' = Completed /\ answered' = answered
    BY <1>1, <1>2, <1>5, <1>7
  <2>2. QED
    BY <1>1, <1>4, <2>1 DEF CountInv
<1>8. QED
  BY <1>6, <1>7

\* The steps that neither count, complete nor reset.
LEMMA CountQuiet ==
  ASSUME Inv, ReplyInv, NEW c \in Client, Step(c), ~ IncrementAndStamp(c), ~ Finish(c),
         ~ ApplyScenarioQuota(c), ~ SetQuota(c)
  PROVE  /\ UNCHANGED <<count, autoIncr, base, carried, answered>>
         /\ Completed' = Completed /\ Stale' \subseteq Stale
<1>0. TypeRequests /\ TypeGhosts /\ LockInv /\ AppendInv
  BY TypeParts DEF Inv
<1>1. ASSUME NEW q \in Request, Arrive(c, q)
      PROVE  /\ UNCHANGED <<count, autoIncr, base, carried, answered>>
             /\ Completed' = Completed /\ Stale' \subseteq Stale
  <2>1. /\ pc[c] = "idle" /\ pc' = [pc EXCEPT ![c] = "match"] /\ req' = [req EXCEPT ![c] = q]
        /\ reply' = reply /\ fresh \subseteq fresh' /\ fresh' \subseteq fresh \cup {c}
        /\ q.path \in EBayPath => c \in fresh'
    BY <1>1 DEF Arrive, Goto
  <2>2. Completed' = Completed
    BY <1>0, <2>1 DEF Completed, Calls, TypeRequests
  <2>3. Stale' \subseteq Stale
    BY <1>0, <2>1 DEF Stale, InFlight, TypeRequests
  <2>4. QED
    BY <1>1, <2>2, <2>3 DEF Arrive, serverVars
<1>2. CASE ~ \E q \in Request : Arrive(c, q)
  <2>1. UNCHANGED <<req, fresh, count, autoIncr, base, carried, answered>>
    BY <1>2 DEF Step, Serve, Handler, Match, InjectFault, Forward, GetItem, Search, ListScenarios,
       SetScenario, Refuse, ClearRules, CopyRules, SetRules, serverVars, quotaGhosts
  <2>2. pc[c] \notin {"idle", "count", "done"} /\ pc'[c] # "idle"
    BY <1>0, <1>2 DEF Step, Serve, Handler, Match, InjectFault, Forward, GetItem, Search, ListScenarios,
       SetScenario, Refuse, ClearRules, CopyRules, SetRules, At, Goto, TypeRequests
  <2>3. pc'[c] = "done" /\ req[c].path \in EBayPath => reply'[c].status # 200
    <3> USE DEF At, EBayPath
    <3>1. GetItem(c) /\ pc'[c] = "done" => reply'[c].status # 200
      BY <1>0 DEF GetItem, Goto, Write, TypeRequests
    <3>2. Search(c) \/ Match(c) \/ Forward(c) \/ CopyRules(c) => pc'[c] # "done"
      BY <1>0 DEF Search, Match, Forward, CopyRules, Goto, TypeRequests
    <3>3. InjectFault(c) => reply'[c].status # 200
      BY <1>0 DEF InjectFault, Write, TypeRequests
    <3>4. ListScenarios(c) \/ SetScenario(c) \/ Refuse(c) \/ ClearRules(c) \/ SetRules(c) =>
            req[c].path \notin EBayPath
      BY <1>0 DEF ListScenarios, SetScenario, Refuse, ClearRules, SetRules, AppendInv
    <3>5. QED
      BY <1>2, <3>1, <3>2, <3>3, <3>4 DEF Step, Serve, Handler
  <2>4. \A d \in Client : d # c => pc'[d] = pc[d] /\ reply'[d] = reply[d]
    BY <1>0, Frame
  <2>5. Completed' = Completed
    BY <1>0, <2>1, <2>2, <2>3, <2>4 DEF Completed, Calls, TypeGhosts
  <2>6. Stale' \subseteq Stale
    BY <2>1, <2>2, <2>4 DEF Stale, InFlight
  <2>7. QED
    BY <2>1, <2>5, <2>6
<1>3. QED
  BY <1>1, <1>2

LEMMA CountStep ==
  ASSUME Inv, Inv', ReplyInv, CountInv, NEW c \in Client, Step(c)
  PROVE  CountInv'
<1>0. TypeServer /\ TypeRequests /\ TypeGhosts /\ LockInv
  BY TypeParts DEF Inv
<1>1. TypeGhosts'
  BY DEF Inv, TypeOK, TypeGhosts
<1>2. CASE ApplyScenarioQuota(c)
  <2>1. InFlight' \subseteq InFlight
    BY <1>0, <1>2 DEF ApplyScenarioQuota, InFlight, Goto, TypeRequests
  <2>2. QED
    BY <1>0, <1>2, <2>1, AppliedByScenario, CountApplied DEF TypeServer
<1>3. CASE SetQuota(c)
  <2>1. InFlight' \subseteq InFlight
    BY <1>0, <1>3 DEF SetQuota, InFlight, Goto, TypeRequests
  <2>2. QED
    BY <1>0, <1>3, <2>1, AppliedByClient, CountApplied
<1>4. CASE IncrementAndStamp(c)
  BY <1>4, CountIncrement
<1>5. CASE Finish(c)
  BY <1>5, CountFinish
<1>6. CASE ~ (ApplyScenarioQuota(c) \/ SetQuota(c) \/ IncrementAndStamp(c) \/ Finish(c))
  BY <1>0, <1>1, <1>6, CountQuiet, CountFrame
<1>7. QED
  BY <1>2, <1>3, <1>4, <1>5, <1>6

LEMMA CountBounds ==
  ASSUME TypeOK, CountInv
  PROVE  QuotaCounts
<1> DEFINE completing == {c \in fresh : c \in Calls /\ reply[c].status = 200}
<1>0. TypeServer /\ TypeGhosts
  BY TypeParts
<1>1. completing \subseteq Client /\ Completed \subseteq completing
  BY <1>0 DEF TypeGhosts, Completed
<1>2. IsFiniteSet(completing) /\ Cardinality(completing) \in Nat
  BY <1>1, ClientAssumption, FS_Subset, FS_CardinalityType
<1>3. Cardinality(Completed) <= Cardinality(completing)
  BY <1>1, <1>2, FS_Subset
<1> HIDE DEF completing
<1>4. CASE autoIncr = "off"
  BY <1>4 DEF CountInv, QuotaCounts
<1>5. CASE autoIncr # "off"
  <2>1. /\ answered + Cardinality(Completed) <= count - base
        /\ (count - base) + Cardinality(Stale) <= answered + Cardinality(Completed) + carried
    BY <1>5 DEF CountInv
  <2>2. count - base \in answered .. answered + carried + Cardinality(completing)
    BY <1>0, <1>2, <1>3, <2>1, SetsFinite DEF TypeServer, TypeGhosts
  <2>3. QED
    BY <1>5, <2>2 DEF QuotaCounts, completing
<1>6. QED
  BY <1>4, <1>5

\* The counter holds exactly the successful calls, up to those under way.
THEOREM QuotaIsHonest == Spec => []QuotaCounts
<1>1. Init => ReplyInv /\ CountInv
  <2>1. ASSUME Init PROVE ReplyInv
    BY <2>1 DEF Init, ReplyInv, Early
  <2>2. ASSUME Init PROVE CountInv
    <3>1. TypeServer /\ TypeGhosts
      BY <2>2, TypeInit, TypeParts
    <3>2. Completed = {} /\ Stale = {} /\ count = base /\ answered = 0 /\ carried = 0
      BY <2>2 DEF Init, Completed, Stale, InFlight
    <3>3. Cardinality(Completed) = 0 /\ Cardinality(Stale) = 0
      BY <3>2, FS_EmptySet
    <3>4. QED
      BY <3>1, <3>2, <3>3 DEF CountInv, TypeServer, TypeGhosts
  <2>3. QED
    BY <2>1, <2>2
<1>2. Inv /\ Inv' /\ ReplyInv /\ CountInv /\ [Next]_vars => ReplyInv' /\ CountInv'
  <2>1. ASSUME Inv, Inv', ReplyInv, CountInv, Next PROVE ReplyInv' /\ CountInv'
    BY <2>1, StepOf, ReplyStep, CountStep
  <2>2. ASSUME ReplyInv, CountInv, UNCHANGED vars PROVE ReplyInv' /\ CountInv'
    BY <2>2 DEF ReplyInv, CountInv, Completed, Stale, InFlight, Calls, vars, serverVars, quotaGhosts
  <2>3. QED
    BY <2>1, <2>2
<1>3. Inv /\ CountInv => QuotaCounts
  BY CountBounds DEF Inv
<1>4. QED
  BY <1>1, <1>2, <1>3, Invariance, PTL DEF Spec

-----------------------------------------------------------------------------
(* HeadersStamped (README.md:14, quota.go:88-89) does not hold. How far it *)
(* fails:                                                                  *)

\* The header map is filled only when the response has gone out.
StampedTooLate ==
  \A c \in Client : ~reply[c].stamped /\ (header[c] => pc[c] = "done")

\* Lemma: what a step of one client does to the headers and replies of all.
LEMMA StampStep ==
  ASSUME TypeOK, StampedTooLate, NEW c \in Client, Step(c)
  PROVE  StampedTooLate'
<1> USE DEF TypeOK, StampedTooLate
<1>1. CASE IncrementAndStamp(c)
  BY <1>1 DEF IncrementAndStamp, Goto
<1>2. CASE \/ \E q \in Request : Arrive(c, q)
           \/ Match(c) \/ Forward(c) \/ CopyRules(c)
  <2>1. header' = header /\ reply' = reply /\ pc[c] # "done"
    BY <1>2 DEF Arrive, Match, Forward, CopyRules, At
  <2>2. \A d \in Client \ {c} : pc'[d] = pc[d]
    BY <1>2 DEF Arrive, Match, Forward, CopyRules, Goto
  <2> QED  BY <2>1, <2>2
<1>3. CASE \/ InjectFault(c) \/ GetItem(c) \/ Search(c) \/ ListScenarios(c) \/ SetScenario(c)
           \/ ApplyScenarioQuota(c) \/ SetQuota(c) \/ Refuse(c) \/ ClearRules(c) \/ SetRules(c)
  <2>1. header' = header /\ pc[c] # "done"
    BY <1>3 DEF InjectFault, GetItem, Search, ListScenarios, SetScenario, ApplyScenarioQuota, SetQuota,
                Refuse, ClearRules, SetRules, At
  <2>2. \A d \in Client \ {c} : pc'[d] = pc[d] /\ reply'[d] = reply[d]
    BY <1>3 DEF InjectFault, GetItem, Search, ListScenarios, SetScenario, ApplyScenarioQuota, SetQuota,
                Refuse, ClearRules, SetRules, Goto, Write
  <2>3. reply'[c] = reply[c] \/ reply'[c].stamped = header[c]
    BY <1>3 DEF InjectFault, GetItem, Search, ListScenarios, SetScenario, ApplyScenarioQuota, SetQuota,
                Refuse, ClearRules, SetRules, Write
  <2> QED  BY <2>1, <2>2, <2>3
<1>4. CASE Finish(c)
  <2>1. /\ pc' = [pc EXCEPT ![c] = "idle"] /\ header' = [header EXCEPT ![c] = FALSE]
        /\ reply' = [reply EXCEPT ![c] = NoReply]
    BY <1>4 DEF Finish, Goto
  <2>2. ~NoReply.stamped
    BY DEF NoReply
  <2> QED  BY <2>1, <2>2
<1> QED  BY <1>1, <1>2, <1>3, <1>4 DEF Step, Serve, Handler

\* Theorem: no response ever carries the X-EBAY-* headers, whatever the clients,
\* the scenarios and the rules: IncrementAndStamp runs after the handler wrote.
THEOREM HeadersNeverSent == Spec => []StampedTooLate
<1>1. Init => StampedTooLate
  BY DEF Init, StampedTooLate, NoReply
<1>2. Inv /\ StampedTooLate /\ [Next]_vars => StampedTooLate'
  <2>1. ASSUME Inv, StampedTooLate, Next PROVE StampedTooLate'
    BY <2>1, StepOf, StampStep DEF Inv
  <2>2. ASSUME StampedTooLate, UNCHANGED vars PROVE StampedTooLate'
    BY <2>2 DEF StampedTooLate, vars
  <2> QED  BY <2>1, <2>2
<1>3. QED
  BY <1>1, <1>2, Invariance, PTL DEF Spec

-----------------------------------------------------------------------------
(* RulesAppended (handlers.go:168) does not hold. How far it fails:        *)

\* An append drops a rule only if appends have overlapped other changes.
AppendKeeps ==
  \A c \in Client : SetRules(c) /\ ~ raced' => rules' = Append(rules, req[c].arg)

\* Theorem: until an append has overlapped another append or a "clear", every
\* append keeps all rules in force, whatever else the clients do between its two
\* critical sections; a "clear" that overlaps none makes that so again.
THEOREM OnlyOverlapLosesRules == Spec => [][AppendKeeps]_vars
<1>1. Init => AloneInv
  BY DEF Init, AloneInv, HasCopied
<1>2. Inv /\ AloneInv /\ [Next]_vars => AloneInv'
  <2>1. ASSUME Inv, AloneInv, Next PROVE AloneInv'
    BY <2>1, StepOf, AloneStep
  <2>2. ASSUME AloneInv, UNCHANGED vars PROVE AloneInv'
    BY <2>2 DEF AloneInv, HasCopied, vars, serverVars, ruleGhosts
  <2> QED  BY <2>1, <2>2
<1>3. AloneInv => AppendKeeps
  BY DEF AloneInv, AppendKeeps, SetRules, HasCopied
<1> QED
  BY <1>1, <1>2, <1>3, Invariance, PTL DEF Spec

-----------------------------------------------------------------------------
(* Progress: requests go forward, are answered once, and never lock each   *)
(* other out.                                                              *)

\* How many steps a request has before it at most.
Steps == [place \in {"idle"} \cup Place |->
  CASE place = "match" -> 6 [] place = "matched" -> 5 [] place = "handler" -> 4
    [] place \in {"applying", "append"} -> 3
    [] place = "count" -> 2 [] place = "done" -> 1 [] OTHER -> 0]

\* A request is left alone by a step or comes nearer to its end; the response
\* it has got stands until it is complete.
GoesForward ==
  \A c \in Client : pc[c] # "idle" =>
    /\ UNCHANGED <<pc[c], req[c]>> \/ Steps[pc'[c]] < Steps[pc[c]]
    /\ reply[c] # NoReply => UNCHANGED reply[c] \/ pc'[c] = "idle"

\* Theorem: the server answers a request once, in at most six steps of its own,
\* and no other client's request, switch or rule sends it back.
THEOREM AnsweredOnce == Spec => [][GoesForward]_vars
<1>1. Init => ReplyInv
  BY DEF Init, ReplyInv, Early
<1>2. Inv /\ ReplyInv /\ [Next]_vars => ReplyInv'
  <2>1. ASSUME Inv, ReplyInv, Next PROVE ReplyInv'
    BY <2>1, StepOf, ReplyStep
  <2>2. ASSUME ReplyInv, UNCHANGED vars PROVE ReplyInv'
    BY <2>2 DEF ReplyInv, vars
  <2> QED  BY <2>1, <2>2
<1>3. ASSUME Inv, ReplyInv, NEW c \in Client, Step(c)
      PROVE  GoesForward
  <2>0. TypeRequests /\ LockInv
    BY <1>3, TypeParts DEF Inv
  <2> SUFFICES ASSUME NEW d \in Client, pc[d] # "idle"
               PROVE  /\ UNCHANGED <<pc[d], req[d]>> \/ Steps[pc'[d]] < Steps[pc[d]]
                      /\ reply[d] # NoReply => UNCHANGED reply[d] \/ pc'[d] = "idle"
    BY DEF GoesForward
  <2>1. CASE d # c
    BY <1>3, <2>0, <2>1, Frame
  <2>2. CASE d = c
    <3>1. pc[c] \in Early => reply[c] = NoReply
      BY <1>3 DEF ReplyInv
    <3>2. \/ pc[c] = "match" /\ pc'[c] = "matched"
          \/ pc[c] = "matched" /\ pc'[c] \in {"handler", "done"}
          \/ pc[c] = "handler" /\ pc'[c] \in {"applying", "append", "count", "done"}
          \/ pc[c] \in {"applying", "append"} /\ pc'[c] \in {"count", "done"}
          \/ pc[c] = "count" /\ pc'[c] = "done" /\ UNCHANGED reply
          \/ pc[c] = "done" /\ pc'[c] = "idle"
      BY <1>3, <2>0, <2>2, Places
    <3>3. Steps[pc'[c]] < Steps[pc[c]]
      BY <3>2 DEF Steps, Place
    <3>4. reply[c] # NoReply => UNCHANGED reply[c] \/ pc'[c] = "idle"
      BY <3>1, <3>2 DEF Early
    <3> QED  BY <2>2, <3>3, <3>4
  <2> QED  BY <2>1, <2>2
<1>4. Inv /\ ReplyInv /\ [Next]_vars => [GoesForward]_vars
  BY <1>3, StepOf
<1> QED
  BY <1>1, <1>2, <1>4, Invariance, PTL DEF Spec

\* What the goroutine of a client needs to go on: outside its handler nothing,
\* and in it Server.mu, if it reads or switches the scenario.
CanServe(c) ==
  /\ pc[c] # "idle"
  /\ pc[c] = "handler" =>
       mu = None \/ req[c].path \in {"quota", "fault"} \/ req[c].arg = Invalid

NobodyStuck == (\E c \in Client : pc[c] # "idle") => \E c \in Client : CanServe(c)

\* Theorem: the locks do not deadlock: whoever holds Server.mu in
\* SetActiveScenario is about to apply a quota and waits for no one but
\* QuotaState.mu, which is held over no other lock.
THEOREM LocksAreFree == Spec => []NobodyStuck
<1>1. LockInv => NobodyStuck
  <2> SUFFICES ASSUME LockInv, NEW c \in Client, pc[c] # "idle"
               PROVE  \E d \in Client : CanServe(d)
    BY DEF NobodyStuck
  <2>1. CASE mu = None
    BY <2>1 DEF CanServe
  <2>2. CASE mu # None
    BY <2>2 DEF LockInv, CanServe
  <2> QED  BY <2>1, <2>2
<1> QED
  BY <1>1, Invariance, PTL DEF Inv
=============================================================================
