------------------------- MODULE HealthServerProofs -------------------------
(***************************************************************************)
(* Proofs about HealthServer, for any number of requests, names and probes *)
(* and any timeouts.                                                       *)
(***************************************************************************)
EXTENDS HealthServer, FiniteSetTheorems, TLAPS

\* Serve, what it returned, and the listener agree; a graceful stop left no
\* handler behind, and no connection one could come on.
ServeInv ==
  /\ serve = "returned" <=> ret # "none"
  /\ serve = "shutdown" => listener = "closed"
  /\ serve \in {"idle", "listen"} => listener = "off"
  /\ ret = "closed" => InFlight = {} /\ listener = "closed" /\ ctxDone
  /\ serve = "shutdown" => ctxDone

\* The loop of handleReadyz: what its allOK says of the probes it has called.
VouchInv ==
  \A r \in Requests :
    LET reg == Registered(snap[r]) IN
    /\ todo[r] \subseteq reg
    /\ handler[r] = "probing" =>
         /\ \A n \in reg : IsUp(snap[r][n]) => n \in everUp[r]
         /\ \A n \in alwaysUp[r] : n \in reg /\ IsUp(snap[r][n])
         /\ allOK[r] => reg \ todo[r] \subseteq everUp[r]
         /\ ~ allOK[r] /\ r \notin gone => ~ (reg \subseteq alwaysUp[r])
    /\ handler[r] = "200" => reg \subseteq everUp[r]
    /\ handler[r] = "503" /\ r \notin gone => ~ (reg \subseteq alwaysUp[r])

Inv == TypeOK /\ ServeInv /\ VouchInv

-----------------------------------------------------------------------------
LEMMA InitInv == Init => Inv
<1> SUFFICES ASSUME Init PROVE Inv
  OBVIOUS
<1> USE TimeoutAssumption DEF Init
<1>1. TypeOK
  <2>1. NoProbes \in [Names -> Probes \cup {NoProbe}]
    BY DEF NoProbes
  <2>2. probes \in [Names -> Probes \cup {NoProbe}]
    BY <2>1
  <2>3. snap \in [Requests -> [Names -> Probes \cup {NoProbe}]]
    BY <2>1
  <2>4. left \in [Requests -> 0 .. ProbeTimeout] /\ elapsed \in [Requests -> Nat]
    OBVIOUS
  <2>5. /\ todo \in [Requests -> SUBSET Names]
        /\ everUp \in [Requests -> SUBSET Names]
        /\ alwaysUp \in [Requests -> SUBSET Names]
    OBVIOUS
  <2>6. ctxDone \in BOOLEAN /\ allOK \in [Requests -> BOOLEAN]
    OBVIOUS
  <2>7. drainLeft \in 0 .. DrainTimeout
    OBVIOUS
  <2>8. QED
    BY <2>2, <2>3, <2>4, <2>5, <2>6, <2>7 DEF TypeOK, Answer
<1>2. ServeInv
  BY DEF ServeInv
<1>3. VouchInv
  BY DEF VouchInv, Registered, NoProbes
<1>4. QED
  BY <1>1, <1>2, <1>3 DEF Inv

LEMMA TypeStep == TypeOK /\ [Next]_vars => TypeOK'
<1> SUFFICES ASSUME TypeOK, [Next]_vars PROVE TypeOK'
  OBVIOUS
<1> USE TimeoutAssumption DEF TypeOK, Answer, serveVars, requestVars, historyVars
<1>1. CASE CallServe
  BY <1>1 DEF CallServe
<1>2. CASE Cancel
  BY <1>2 DEF Cancel
<1>3. ASSUME NEW n \in Names, NEW p \in Probes, RegisterReadiness(n, p)
      PROVE  TypeOK'
  BY <1>3 DEF RegisterReadiness
<1>4. CASE ServeStep \/ AcceptFails
  BY <1>4 DEF ServeStep, Listen, SelectAcceptError, SelectCancelled, Drained, DrainDeadline,
              AcceptFails, ReturnFromServe
<1>5. ASSUME NEW r \in Requests, Readyz(r)
      PROVE  TypeOK'
  BY <1>5 DEF Readyz, Registered, UpNow
<1>6. ASSUME NEW r \in Requests, NEW n \in Names,
             ProbeAnswers(r, n) \/ ProbeExpires(r, n) \/ ProbeCancelled(r, n)
      PROVE  TypeOK'
  <2>1. PICK ok \in BOOLEAN : EndProbe(r, n, ok)
    BY <1>6 DEF ProbeAnswers, ProbeExpires, ProbeCancelled, IsUp
  <2>2. allOK' \in [Requests -> BOOLEAN]
    BY <2>1 DEF EndProbe
  <2>3. QED
    BY <2>1, <2>2 DEF EndProbe
<1>7. ASSUME NEW r \in Requests, Reply(r) \/ ClientLeaves(r)
      PROVE  TypeOK'
  BY <1>7 DEF Reply, ClientLeaves
<1>8. ASSUME NEW c \in Scrapers, Metrics(c) \/ MetricsSent(c)
      PROVE  TypeOK'
  BY <1>8 DEF Metrics, MetricsSent
<1>9. ASSUME NEW p \in Probes, NEW a \in Answer, DependencyChanges(p, a)
      PROVE  TypeOK'
  BY <1>9 DEF DependencyChanges
<1>10. CASE Tick
  BY <1>10 DEF Tick, Probing
<1>11. CASE UNCHANGED vars
  BY <1>11 DEF vars
<1>12. QED
  BY <1>1, <1>2, <1>3, <1>4, <1>5, <1>6, <1>7, <1>8, <1>9, <1>10, <1>11 DEF Next, ProbeStep

\* No step but an arrival puts a request in flight, and it needs a connection.
LEMMA InFlightStep ==
  ASSUME TypeOK, [Next]_vars, ~ Connected
  PROVE  InFlight' \subseteq InFlight
<1> USE DEF Connected, InFlight, TypeOK, serveVars, requestVars, historyVars
<1>1. CASE CallServe \/ Cancel \/ ServeStep \/ AcceptFails \/ Tick \/ UNCHANGED vars
  BY <1>1 DEF CallServe, Cancel, ServeStep, Listen, SelectAcceptError, SelectCancelled, Drained,
              DrainDeadline, AcceptFails, Tick, vars
<1>2. CASE \/ \E n \in Names, p \in Probes : RegisterReadiness(n, p)
           \/ \E p \in Probes, a \in Answer : DependencyChanges(p, a)
  BY <1>2 DEF RegisterReadiness, DependencyChanges
<1>3. CASE \E r \in Requests : Readyz(r) \/ ClientLeaves(r) \/ ProbeStep(r) \/ Reply(r)
  BY <1>3 DEF Readyz, ClientLeaves, ProbeStep, ProbeAnswers, ProbeExpires, ProbeCancelled,
              EndProbe, Reply
<1>4. CASE \E c \in Scrapers : Metrics(c) \/ MetricsSent(c)
  BY <1>4 DEF Metrics, MetricsSent
<1>5. QED
  BY <1>1, <1>2, <1>3, <1>4 DEF Next

LEMMA ServeInvStep == TypeOK /\ ServeInv /\ [Next]_vars => ServeInv'
<1> SUFFICES ASSUME TypeOK, ServeInv, [Next]_vars PROVE ServeInv'
  OBVIOUS
<1> USE DEF ServeInv, serveVars, requestVars, historyVars
<1>1. CASE CallServe \/ Cancel
  BY <1>1 DEF CallServe, Cancel, InFlight
<1>2. CASE Listen \/ SelectAcceptError \/ SelectCancelled \/ DrainDeadline \/ AcceptFails
  BY <1>2 DEF Listen, SelectAcceptError, SelectCancelled, DrainDeadline, AcceptFails,
              ReturnFromServe, InFlight
<1>3. CASE Drained
  BY <1>3 DEF Drained, ReturnFromServe, InFlight
<1>4. CASE UNCHANGED <<ctxDone, serve, ret, listener>>
  BY <1>4, InFlightStep DEF Connected
<1>5. QED
  <2>1. \/ CallServe \/ Cancel \/ ServeStep \/ AcceptFails
        \/ UNCHANGED <<ctxDone, serve, ret, listener>>
    BY DEF Next, RegisterReadiness, Readyz, ClientLeaves, ProbeStep, ProbeAnswers, ProbeExpires,
           ProbeCancelled, EndProbe,
           Reply, Metrics, MetricsSent, DependencyChanges, Tick, vars
  <2>2. QED
    BY <2>1, <1>1, <1>2, <1>3, <1>4 DEF ServeStep

\* Lemma: the loop of handleReadyz goes on to the next probe.
LEMMA VouchEndProbe ==
  ASSUME TypeOK, VouchInv, NEW r \in Requests, NEW n \in Names, NEW ok \in BOOLEAN,
         handler[r] = "probing", n \in todo[r], EndProbe(r, n, ok),
         ok => IsUp(snap[r][n]), ok \/ r \in gone \/ ~ IsUp(snap[r][n])
  PROVE  VouchInv'
<1>1. /\ UNCHANGED <<dep, handler, snap, gone, everUp, alwaysUp>>
      /\ todo'[r] = todo[r] \ {n} /\ (allOK'[r] <=> allOK[r] /\ ok)
      /\ \A q \in Requests \ {r} : todo'[q] = todo[q] /\ allOK'[q] = allOK[q]
  BY DEF TypeOK, EndProbe, serveVars, historyVars
<1>2. /\ \A q \in Requests : Registered(snap[q])' = Registered(snap[q])
      /\ \A p : IsUp(p)' <=> IsUp(p)
  BY <1>1 DEF Registered, IsUp
<1> DEFINE reg == Registered(snap[r])
<1>3. /\ todo[r] \subseteq reg
      /\ \A m \in reg : IsUp(snap[r][m]) => m \in everUp[r]
      /\ \A m \in alwaysUp[r] : m \in reg /\ IsUp(snap[r][m])
      /\ allOK[r] => reg \ todo[r] \subseteq everUp[r]
      /\ ~ allOK[r] /\ r \notin gone => ~ (reg \subseteq alwaysUp[r])
  BY DEF VouchInv
<1> HIDE DEF reg
<1>4. /\ allOK'[r] => reg \ todo'[r] \subseteq everUp[r]
      /\ ~ allOK'[r] /\ r \notin gone => ~ (reg \subseteq alwaysUp[r])
  BY <1>1, <1>3
<1>5. /\ todo'[r] \subseteq reg
      /\ handler'[r] = "probing"
  BY <1>1, <1>3
<1> QED  BY <1>1, <1>2, <1>3, <1>4, <1>5 DEF VouchInv, reg

\* Lemma: every answer of /readyz is vouched for, step by step.
LEMMA VouchInvStep == TypeOK /\ VouchInv /\ [Next]_vars => VouchInv'
<1> SUFFICES ASSUME TypeOK, VouchInv, [Next]_vars PROVE VouchInv'
  OBVIOUS
<1> USE DEF VouchInv, Registered, serveVars, requestVars, historyVars
<1>1. CASE UNCHANGED <<dep, handler, snap, todo, allOK, gone, everUp, alwaysUp>>
  BY <1>1 DEF IsUp
<1>2. ASSUME NEW r \in Requests, Readyz(r)
      PROVE  VouchInv'
  BY <1>2 DEF Readyz, UpNow, IsUp, TypeOK
<1>3. ASSUME NEW r \in Requests, NEW n \in Names, ProbeAnswers(r, n)
      PROVE  VouchInv'
  BY <1>3, VouchEndProbe DEF ProbeAnswers, Current, IsUp
<1>4. ASSUME NEW r \in Requests, NEW n \in Names, ProbeExpires(r, n)
      PROVE  VouchInv'
  BY <1>4, VouchEndProbe DEF ProbeExpires, Current, IsUp
<1>5. ASSUME NEW r \in Requests, Reply(r)
      PROVE  VouchInv'
  BY <1>5 DEF Reply, IsUp, TypeOK
<1>8. ASSUME NEW r \in Requests, ClientLeaves(r)
      PROVE  VouchInv'
  BY <1>8 DEF ClientLeaves, IsUp, TypeOK
<1>9. ASSUME NEW r \in Requests, NEW n \in Names, ProbeCancelled(r, n)
      PROVE  VouchInv'
  BY <1>9, VouchEndProbe DEF ProbeCancelled, Current, IsUp
<1>6. ASSUME NEW p \in Probes, NEW a \in Answer, DependencyChanges(p, a)
      PROVE  VouchInv'
  BY <1>6 DEF DependencyChanges, IsUp, TypeOK
<1>7. QED
  <2>1. \/ UNCHANGED <<dep, handler, snap, todo, allOK, gone, everUp, alwaysUp>>
        \/ \E r \in Requests : Readyz(r) \/ ClientLeaves(r) \/ ProbeStep(r) \/ Reply(r)
        \/ \E p \in Probes, a \in Answer : DependencyChanges(p, a)
    BY DEF Next, CallServe, Cancel, RegisterReadiness, ServeStep, Listen, SelectAcceptError,
           SelectCancelled, Drained, DrainDeadline, AcceptFails, Metrics, MetricsSent, Tick, vars
  <2>2. QED
    BY <2>1, <1>1, <1>2, <1>3, <1>4, <1>5, <1>6, <1>8, <1>9 DEF ProbeStep

THEOREM Invariance == Spec => []Inv
<1>1. Inv /\ [Next]_vars => Inv'
  BY TypeStep, ServeInvStep, VouchInvStep DEF Inv
<1>2. QED
  BY <1>1, InitInv, PTL DEF Spec

-----------------------------------------------------------------------------
\* Type correctness.
THEOREM TypeCorrect == Spec => []TypeOK
<1>1. Inv => TypeOK
  BY DEF Inv
<1>2. QED
  BY <1>1, Invariance, PTL

\* A 200 of /readyz vouches for every dependency it copied.
THEOREM ReadinessSound == Spec => []ReadyVouches
<1>1. Inv => ReadyVouches
  BY DEF Inv, VouchInv, ReadyVouches
<1>2. QED
  BY <1>1, Invariance, PTL

\* A 503 of /readyz that its client waited for is no false alarm.
THEOREM ReadinessComplete == Spec => []NoFalseAlarm
<1>1. Inv => NoFalseAlarm
  BY DEF Inv, VouchInv, NoFalseAlarm
<1>2. QED
  BY <1>1, Invariance, PTL

\* ErrServerClosed means that no handler is left.
THEOREM GracefulStop == Spec => []ClosedMeansDrained
<1>1. Inv => ClosedMeansDrained
  BY DEF Inv, ServeInv, ClosedMeansDrained
<1>2. QED
  BY <1>1, Invariance, PTL

-----------------------------------------------------------------------------
\* The server implements the safety part of its contract: every step is one of
\* AdminContract or leaves its variables alone.
LEMMA ContractInit == Init => Contract!Init
  BY DEF Init, Contract!Init

LEMMA ContractStep ==
  TypeOK /\ ServeInv /\ [Next]_vars => [Contract!Next]_(Contract!adminVars)
<1> SUFFICES ASSUME TypeOK, ServeInv, [Next]_vars
             PROVE  Contract!Next \/ UNCHANGED Contract!adminVars
  OBVIOUS
<1> USE DEF TypeOK, ServeInv, Contract!Next
<1>1. CASE CallServe
  BY <1>1 DEF CallServe, Contract!Start
<1>2. CASE Cancel
  BY <1>2 DEF Cancel, Contract!Cancel
<1>3. CASE Listen
  BY <1>3 DEF Listen, ReturnFromServe, Contract!Bind, Contract!Fail, Contract!Return
<1>4. CASE SelectAcceptError \/ DrainDeadline
  BY <1>4 DEF SelectAcceptError, DrainDeadline, ReturnFromServe, Contract!Fail, Contract!Return
<1>5. CASE Drained
  BY <1>5 DEF Drained, ReturnFromServe, Contract!Close, Contract!Return
<1>6. CASE SelectCancelled
  BY <1>6 DEF SelectCancelled, Contract!adminVars
<1>7. CASE UNCHANGED <<ctxDone, serve, ret>>
  BY <1>7 DEF Contract!adminVars
<1>8. QED
  <2>1. \/ CallServe \/ Cancel \/ ServeStep
        \/ UNCHANGED <<ctxDone, serve, ret>>
    BY DEF Next, AcceptFails, RegisterReadiness, Readyz, ClientLeaves, ProbeStep, ProbeAnswers,
           ProbeExpires, ProbeCancelled, EndProbe, Reply, Metrics, MetricsSent, DependencyChanges, Tick, vars, serveVars
  <2>2. QED
    BY <2>1, <1>1, <1>2, <1>3, <1>4, <1>5, <1>6, <1>7 DEF ServeStep

THEOREM ContractSafety == Spec => Contract!Init /\ [][Contract!Next]_(Contract!adminVars)
<1>1. Inv /\ [Next]_vars => [Contract!Next]_(Contract!adminVars)
  BY ContractStep DEF Inv
<1>2. QED
  BY <1>1, ContractInit, Invariance, PTL DEF Spec

-----------------------------------------------------------------------------
\* The time a request has taken: the probes called so far took ProbeTimeout
\* each at most, and the current one what is gone of its deadline.

Called(r) == Cardinality(Registered(snap[r]) \ todo[r])

TimeInv ==
  \A r \in Requests : handler[r] # "none" =>
    /\ elapsed[r] <= Called(r) * ProbeTimeout + (ProbeTimeout - left[r])
    /\ todo[r] = {} => left[r] = ProbeTimeout
    /\ handler[r] # "probing" => todo[r] = {}

LEMMA ProductStep ==
  ASSUME NEW a \in Nat, NEW b \in Nat, NEW t \in Nat, a + 1 <= b
  PROVE  a * t + t <= b * t /\ (a + 1) * t = a * t + t
<1>1. (b - (a + 1)) * t >= 0
  OBVIOUS
<1>2. (b - (a + 1)) * t = b * t - (a * t + t)
  OBVIOUS
<1>3. a * t \in Nat /\ b * t \in Nat
  OBVIOUS
<1>4. QED
  BY <1>1, <1>2, <1>3

LEMMA NamesFinite == ASSUME NEW S \in SUBSET Names PROVE IsFiniteSet(S) /\ Cardinality(S) \in Nat
  BY NamesAssumption, FS_Subset, FS_CardinalityType

LEMMA TimeInvStep == TypeOK /\ VouchInv /\ TimeInv /\ [Next]_vars => TimeInv'
<1> SUFFICES ASSUME TypeOK, VouchInv, TimeInv, [Next]_vars,
                    NEW r \in Requests, handler'[r] # "none"
             PROVE  /\ elapsed'[r] <= Called(r)' * ProbeTimeout + (ProbeTimeout - left'[r])
                    /\ todo'[r] = {} => left'[r] = ProbeTimeout
                    /\ handler'[r] # "probing" => todo'[r] = {}
  BY DEF TimeInv
<1> DEFINE reg == Registered(snap[r])
<1> USE TimeoutAssumption
<1>1. reg \in SUBSET Names /\ todo[r] \in SUBSET reg /\ Called(r) \in Nat
  BY NamesFinite DEF Registered, Called, TypeOK, VouchInv
<1>2. elapsed[r] \in Nat /\ left[r] \in 0 .. ProbeTimeout /\ Called(r) * ProbeTimeout \in Nat
  BY <1>1 DEF TypeOK
<1>3. CASE UNCHANGED <<handler[r], snap[r], todo[r], left[r], elapsed[r]>>
  BY <1>3 DEF TimeInv, Called, Registered
<1>4. CASE Readyz(r)
  <2>1. Registered(snap'[r]) \ todo'[r] = {} /\ left'[r] = ProbeTimeout /\ elapsed'[r] = 0
    BY <1>4 DEF Readyz, TypeOK
  <2>2. Called(r)' = 0
    BY <2>1, FS_EmptySet DEF Called, Registered
  <2>3. handler'[r] = "probing"
    BY <1>4 DEF Readyz, TypeOK
  <2>4. QED
    BY <2>1, <2>2, <2>3
<1>5. ASSUME NEW n \in todo[r], NEW ok, EndProbe(r, n, ok), handler[r] = "probing"
      PROVE  /\ elapsed'[r] <= Called(r)' * ProbeTimeout + (ProbeTimeout - left'[r])
             /\ todo'[r] = {} => left'[r] = ProbeTimeout
             /\ handler'[r] # "probing" => todo'[r] = {}
  <2>1. /\ todo'[r] = todo[r] \ {n}
        /\ left'[r] = ProbeTimeout
        /\ UNCHANGED <<snap, elapsed, handler>>
    BY <1>5 DEF EndProbe, TypeOK
  <2>2. reg \ (todo[r] \ {n}) = (reg \ todo[r]) \cup {n} /\ n \notin reg \ todo[r]
    BY <1>1, <1>5
  <2>3. Called(r)' = Called(r) + 1
    <3>1. IsFiniteSet(reg \ todo[r])
      BY <1>1, NamesFinite
    <3>2. Cardinality((reg \ todo[r]) \cup {n}) = Cardinality(reg \ todo[r]) + 1
      BY <2>2, <3>1, FS_AddElement
    <3>3. Called(r)' = Cardinality((reg \ todo[r]) \cup {n})
      BY <2>1, <2>2 DEF Called, Registered
    <3>4. QED
      BY <3>2, <3>3 DEF Called
  <2>4. elapsed[r] <= Called(r) * ProbeTimeout + (ProbeTimeout - left[r])
    BY <1>5 DEF TimeInv
  <2>5. (Called(r) + 1) * ProbeTimeout = Called(r) * ProbeTimeout + ProbeTimeout
    BY <1>1, ProductStep
  <2>6. elapsed[r] <= (Called(r) + 1) * ProbeTimeout
    BY <1>2, <2>4, <2>5
  <2>7. QED
    BY <1>2, <1>5, <2>1, <2>3, <2>5, <2>6
<1>6. CASE Reply(r)
  BY <1>6 DEF Reply, TypeOK, TimeInv, Called, Registered
<1>7. CASE Tick
  <2>1. UNCHANGED <<snap, todo, handler>> /\ Called(r)' = Called(r)
    BY <1>7 DEF Tick, Called, Registered
  <2>2. CASE r \in Probing
    BY <1>2, <1>7, <2>1, <2>2 DEF Tick, TimeInv, Probing
  <2>3. CASE r \notin Probing
    BY <1>7, <2>1, <2>3 DEF Tick, TimeInv
  <2>4. QED
    BY <2>2, <2>3
<1>8. QED
  <2> USE DEF serveVars, requestVars, historyVars
  <2>1. ASSUME NEW q \in Requests, q # r, Readyz(q) \/ ProbeStep(q) \/ Reply(q)
        PROVE  UNCHANGED <<handler[r], snap[r], todo[r], left[r], elapsed[r]>>
    BY <2>1 DEF Readyz, ProbeStep, ProbeAnswers, ProbeExpires, ProbeCancelled,
                EndProbe, Reply, TypeOK
  <2>2. ASSUME ProbeStep(r)
        PROVE  \E n \in todo[r], ok \in {TRUE, FALSE} : EndProbe(r, n, ok) /\ handler[r] = "probing"
    BY <2>2 DEF ProbeStep, ProbeAnswers, ProbeExpires, ProbeCancelled, Current, IsUp
  <2>3. \/ UNCHANGED <<handler, snap, todo, left, elapsed>>
        \/ \E q \in Requests : Readyz(q) \/ ProbeStep(q) \/ Reply(q)
        \/ Tick
    BY DEF Next, ClientLeaves, CallServe, Cancel, RegisterReadiness, ServeStep, Listen, SelectAcceptError,
           SelectCancelled, Drained, DrainDeadline, AcceptFails, Metrics, MetricsSent,
           DependencyChanges, vars
  <2>4. QED
    BY <2>1, <2>2, <2>3, <1>3, <1>4, <1>5, <1>6, <1>7

\* However many probes time out, a request takes at most ProbeTimeout for each
\* probe it copied. (The comment of health.go claims the stronger bound
\* WholeRequestBound.)
THEOREM TimeBound == Spec => []RequestBound
<1>1. Init => TimeInv
  BY DEF Init, TimeInv
<1>2. TypeOK /\ VouchInv /\ TimeInv => RequestBound
  <2> SUFFICES ASSUME TypeOK, VouchInv, TimeInv, NEW r \in Requests, handler[r] # "none"
               PROVE  elapsed[r] <= Cardinality(Registered(snap[r])) * ProbeTimeout
    BY DEF RequestBound
  <2> DEFINE reg == Registered(snap[r])
  <2> USE TimeoutAssumption
  <2>1. reg \in SUBSET Names /\ todo[r] \in SUBSET reg
    BY DEF Registered, TypeOK, VouchInv
  <2>2. Called(r) \in Nat /\ Cardinality(reg) \in Nat /\ IsFiniteSet(reg)
    BY <2>1, NamesFinite DEF Called
  <2>3. /\ elapsed[r] \in Nat /\ left[r] \in 0 .. ProbeTimeout
        /\ elapsed[r] <= Called(r) * ProbeTimeout + (ProbeTimeout - left[r])
        /\ todo[r] = {} => left[r] = ProbeTimeout
    BY DEF TypeOK, TimeInv
  <2>4. Called(r) * ProbeTimeout \in Nat /\ Cardinality(reg) * ProbeTimeout \in Nat
    BY <2>2
  <2>5. CASE todo[r] = {}
    <3>1. Called(r) = Cardinality(reg)
      BY <2>5 DEF Called
    <3>2. QED
      BY <2>3, <2>4, <2>5, <3>1
  <2>6. ASSUME NEW n \in todo[r]
        PROVE  elapsed[r] <= Cardinality(reg) * ProbeTimeout
    <3>1. Cardinality(reg \ {n}) = Cardinality(reg) - 1
      BY <2>1, <2>2, <2>6, FS_RemoveElement
    <3>2. Called(r) <= Cardinality(reg \ {n})
      BY <2>1, <2>2, <2>6, NamesFinite, FS_Subset DEF Called
    <3>3. Called(r) * ProbeTimeout + ProbeTimeout <= Cardinality(reg) * ProbeTimeout
      BY <2>2, <3>1, <3>2, ProductStep
    <3>4. QED
      BY <2>3, <2>4, <3>3
  <2>7. QED
    BY <2>5, <2>6
<1>3. TypeOK /\ VouchInv /\ TimeInv /\ [Next]_vars => TimeInv'
  BY TimeInvStep
<1>4. Inv => TypeOK /\ VouchInv
  BY DEF Inv
<1>5. QED
  BY <1>1, <1>2, <1>3, <1>4, Invariance, PTL DEF Spec

\* What health.go:33-34 says of every request, said of those with one probe.
OneProbeBound ==
  \A r \in Requests :
    handler[r] # "none" /\ Cardinality(Registered(snap[r])) <= 1 => elapsed[r] <= ProbeTimeout

\* Theorem: it takes a second readiness probe for a request of /readyz to last
\* longer than the bound that the comment gives for the whole request.
THEOREM OneProbeKeepsTheBound == Spec => []OneProbeBound
<1>1. TypeOK /\ RequestBound => OneProbeBound
  <2> SUFFICES ASSUME TypeOK, RequestBound, NEW r \in Requests, handler[r] # "none",
                      Cardinality(Registered(snap[r])) <= 1
               PROVE  elapsed[r] <= ProbeTimeout
    BY DEF OneProbeBound
  <2> DEFINE k == Cardinality(Registered(snap[r]))
  <2>1. k \in Nat
    BY NamesFinite DEF Registered
  <2>2. elapsed[r] \in Nat /\ elapsed[r] <= k * ProbeTimeout
    BY DEF TypeOK, RequestBound
  <2>3. k = 0 \/ k = 1
    BY <2>1
  <2> HIDE DEF k
  <2> QED  BY <2>2, <2>3, TimeoutAssumption
<1> QED
  BY <1>1, TypeCorrect, TimeBound, PTL

-----------------------------------------------------------------------------
\* A request of /readyz sits a step out, is answered, has a probe less to call,
\* or has less time for the one it calls.
Waits(r) == UNCHANGED <<handler[r], snap[r], todo[r], left[r]>>

ProbeEnded(r) == todo'[r] \subseteq todo[r] /\ todo'[r] # todo[r] /\ snap'[r] = snap[r]

TimePassed(r) == left'[r] = left[r] - 1 /\ left'[r] >= 0 /\ UNCHANGED <<todo[r], snap[r]>>

RequestAdvances ==
  \A r \in Requests : handler[r] = "probing" =>
    Waits(r) \/ handler'[r] # "probing" \/ ProbeEnded(r) \/ TimePassed(r)

\* Theorem: nothing prolongs a request of /readyz: probes registered or replaced
\* meanwhile are not its own, and no dependency, other request, signal or
\* shutdown gives it back a probe or time. With at most ProbeTimeout for each of
\* finitely many probes it comes to its end.
THEOREM RequestsAdvance == Spec => [][RequestAdvances]_vars
<1>1. TypeOK /\ [Next]_vars => [RequestAdvances]_vars
  <2> SUFFICES ASSUME TypeOK, [Next]_vars, NEW r \in Requests, handler[r] = "probing"
               PROVE  Waits(r) \/ handler'[r] # "probing" \/ ProbeEnded(r) \/ TimePassed(r)
    BY DEF RequestAdvances
  <2> USE DEF TypeOK
  <2>1. ASSUME NEW q \in Requests, Readyz(q)
        PROVE  Waits(r)
    BY <2>1 DEF Readyz, Waits
  <2>2. ASSUME NEW q \in Requests, ProbeStep(q)
        PROVE  Waits(r) \/ ProbeEnded(r)
    <3>1. CASE q # r
      BY <2>2, <3>1 DEF ProbeStep, ProbeAnswers, ProbeExpires, ProbeCancelled, EndProbe, Waits
    <3>2. CASE q = r
      BY <2>2, <3>2 DEF ProbeStep, ProbeAnswers, ProbeExpires, ProbeCancelled, EndProbe,
                           Current, ProbeEnded
    <3> QED  BY <3>1, <3>2
  <2>3. ASSUME NEW q \in Requests, Reply(q) \/ ClientLeaves(q)
        PROVE  Waits(r) \/ handler'[r] # "probing"
    BY <2>3 DEF Reply, ClientLeaves, Waits
  <2>4. CASE Tick
    <3>1. CASE r \in Probing
      <4>1. left[r] \in 0 .. ProbeTimeout /\ left[r] > 0 /\ left'[r] = left[r] - 1
        BY <2>4, <3>1 DEF Tick
      <4> QED  BY <2>4, <4>1, TimeoutAssumption DEF Tick, TimePassed
    <3>2. CASE r \notin Probing
      BY <2>4, <3>2 DEF Tick, Waits
    <3> QED  BY <3>1, <3>2
  <2>5. CASE UNCHANGED requestVars
    BY <2>5 DEF requestVars, Waits
  <2>6. \/ UNCHANGED requestVars
        \/ \E q \in Requests : Readyz(q) \/ ClientLeaves(q) \/ ProbeStep(q) \/ Reply(q)
        \/ Tick
    BY DEF Next, CallServe, Cancel, RegisterReadiness, ServeStep, Listen, SelectAcceptError,
           SelectCancelled, Drained, DrainDeadline, AcceptFails, Metrics, MetricsSent,
           DependencyChanges, vars
  <2> QED
    BY <2>1, <2>2, <2>3, <2>4, <2>5, <2>6
<1> QED
  BY <1>1, TypeCorrect, PTL DEF Spec

\* After a graceful stop the server is at rest.
AtRest == ret = "closed" => UNCHANGED <<serve, ret, listener, scrapes, handler, snap, todo, allOK>>

\* Theorem: a graceful stop is final. Once Serve has returned ErrServerClosed no
\* request is taken or answered any more, also none that a kept-alive
\* connection might still bring, and every answer given stands.
THEOREM StopIsFinal == Spec => [][AtRest]_vars
<1>1. Inv /\ [Next]_vars => AtRest
  <2> SUFFICES ASSUME Inv, [Next]_vars, ret = "closed"
               PROVE  UNCHANGED <<serve, ret, listener, scrapes, handler, snap, todo, allOK>>
    BY DEF AtRest
  <2>1. /\ listener = "closed" /\ serve = "returned" /\ ~ Connected
        /\ scrapes = {} /\ \A r \in Requests : handler[r] # "probing"
    BY DEF Inv, ServeInv, InFlight, Connected
  <2>2. ~ ServeStep /\ ~ CallServe /\ ~ AcceptFails
    BY <2>1 DEF ServeStep, CallServe, AcceptFails, Listen, SelectAcceptError, SelectCancelled,
                Drained, DrainDeadline
  <2>3. \A r \in Requests : ~ Readyz(r) /\ ~ ClientLeaves(r) /\ ~ ProbeStep(r) /\ ~ Reply(r)
    BY <2>1 DEF Readyz, ClientLeaves, ProbeStep, ProbeAnswers, ProbeExpires, ProbeCancelled, Reply
  <2>4. \A c \in Scrapers : ~ Metrics(c) /\ ~ MetricsSent(c)
    BY <2>1 DEF Metrics, MetricsSent
  <2>5. Cancel \/ (\E n \in Names, p \in Probes : RegisterReadiness(n, p))
        \/ (\E p \in Probes, a \in Answer : DependencyChanges(p, a)) \/ Tick \/ UNCHANGED vars
    BY <2>2, <2>3, <2>4 DEF Next
  <2> QED
    BY <2>5 DEF Cancel, RegisterReadiness, DependencyChanges, Tick, vars, serveVars, requestVars
<1> QED
  BY <1>1, Invariance, PTL DEF Spec
=============================================================================
