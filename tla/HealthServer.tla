---------------------------- MODULE HealthServer ----------------------------
(***************************************************************************)
(* internal/health: the admin server of a role.                            *)
(*                                                                         *)
(* Concurrent activities: the goroutine that calls Serve, the http.Server  *)
(* it starts (accept loop and one goroutine per request), the callers of   *)
(* RegisterReadiness, the dependencies the probes ask, and time. A probe   *)
(* name is its rank in the order of sort.Strings. Time is counted in units *)
(* of which a probe gets ProbeTimeout and a shutdown DrainTimeout.         *)
(*                                                                         *)
(* An operator A_Variant is the operator A with a plausible bug. Nothing   *)
(* uses it; put in A's place it breaks a property stated at the end.       *)
(***************************************************************************)
EXTENDS Integers, FiniteSets

CONSTANTS
  Requests,      \* slots of /readyz requests: at most this many at a time
  Scrapers,      \* clients of /metrics, each with at most one request
  Names,         \* names a probe may be registered under
  Probes,        \* the probe functions; each asks a dependency of its own
  NoProbe,       \* the value of a name nobody registered
  ProbeTimeout,  \* probeTimeout (2s)
  DrainTimeout   \* the bound of Serve on http.Server.Shutdown (5s)

ASSUME NamesAssumption   == Names \subseteq Nat /\ IsFiniteSet(Names)
ASSUME ProbesAssumption  == NoProbe \notin Probes
ASSUME TimeoutAssumption == ProbeTimeout \in Nat \ {0} /\ DrainTimeout \in Nat \ {0}

VARIABLES
  ctxDone,    \* the ctx of Serve is cancelled
  serve,      \* where the goroutine in Serve is
  ret,        \* what Serve returned
  listener,   \* the accept loop, i.e. the goroutine in http.Server.Serve
  drainLeft,  \* time left to http.Server.Shutdown
  probes,     \* Server.probes
  dep,        \* the dependency behind each probe: how it answers a probe
  scrapes,    \* /metrics requests being answered
  handler,    \* handleReadyz: at work, or the status it answered
  snap,       \* handleReadyz: its copy of Server.probes
  todo,       \* handleReadyz: names not yet probed
  allOK,      \* handleReadyz: allOK
  left,       \* handleReadyz: time left to the probe being called
  gone,       \* handleReadyz: r.Context() is cancelled, the client went away
  elapsed,    \* time since the request arrived
  everUp,     \* history: copied names whose dependency was up at some time ...
  alwaysUp    \* ... and at every time since the request arrived

serveVars   == <<ctxDone, serve, ret, listener, drainLeft>>
requestVars == <<handler, snap, todo, allOK, left, gone, elapsed>>
historyVars == <<everUp, alwaysUp>>
vars == <<serveVars, probes, dep, scrapes, requestVars, historyVars>>

Answer == {"up", "down", "silent"}

TypeOK ==
  /\ ctxDone \in BOOLEAN
  /\ serve \in {"idle", "listen", "select", "shutdown", "returned"}
  /\ ret \in {"none", "closed", "listen", "accept", "drain"}
  /\ listener \in {"off", "open", "failed", "closed"}
  /\ drainLeft \in 0 .. DrainTimeout
  /\ probes \in [Names -> Probes \cup {NoProbe}]
  /\ dep \in [Probes -> Answer]
  /\ scrapes \in SUBSET Scrapers
  /\ handler \in [Requests -> {"none", "probing", "200", "503"}]
  /\ snap \in [Requests -> [Names -> Probes \cup {NoProbe}]]
  /\ todo \in [Requests -> SUBSET Names]
  /\ allOK \in [Requests -> BOOLEAN]
  /\ left \in [Requests -> 0 .. ProbeTimeout]
  /\ gone \in SUBSET Requests
  /\ elapsed \in [Requests -> Nat]
  /\ everUp \in [Requests -> SUBSET Names]
  /\ alwaysUp \in [Requests -> SUBSET Names]

NoProbes == [n \in Names |-> NoProbe]
Registered(m) == {n \in Names : m[n] # NoProbe}
IsUp(p)  == dep[p] = "up"
UpNow(m) == {n \in Registered(m) : IsUp(m[n])}
InFlight == {r \in Requests : handler[r] = "probing"} \cup scrapes

Init ==
  /\ ctxDone = FALSE
  /\ serve = "idle"
  /\ ret = "none"
  /\ listener = "off"
  /\ drainLeft = 0
  /\ probes = NoProbes
  /\ dep \in [Probes -> Answer]
  /\ scrapes = {}
  /\ handler = [r \in Requests |-> "none"]
  /\ snap = [r \in Requests |-> NoProbes]
  /\ todo = [r \in Requests |-> {}]
  /\ allOK = [r \in Requests |-> TRUE]
  /\ left = [r \in Requests |-> 0]
  /\ gone = {}
  /\ elapsed = [r \in Requests |-> 0]
  /\ everUp = [r \in Requests |-> {}]
  /\ alwaysUp = [r \in Requests |-> {}]

----------------------------------------------------------------------------
\* The role: it calls Serve, cancels ctx, registers or replaces a probe.

CallServe ==
  /\ serve = "idle"
  /\ serve' = "listen"
  /\ UNCHANGED <<ctxDone, ret, listener, drainLeft, probes, dep, scrapes, requestVars, historyVars>>

Cancel ==
  /\ ~ ctxDone
  /\ ctxDone' = TRUE
  /\ UNCHANGED <<serve, ret, listener, drainLeft, probes, dep, scrapes, requestVars, historyVars>>

RegisterReadiness(n, p) ==
  /\ probes' = [probes EXCEPT ![n] = p]
  /\ UNCHANGED <<serveVars, dep, scrapes, requestVars, historyVars>>

----------------------------------------------------------------------------
\* Serve.

ReturnFromServe(value) ==
  /\ serve' = "returned"
  /\ ret' = value

\* lc.Listen; ctx does not abort it for a literal address.
Listen ==
  /\ serve = "listen"
  /\ \/ serve' = "select" /\ listener' = "open" /\ UNCHANGED ret
     \/ ReturnFromServe("listen") /\ UNCHANGED listener
  /\ UNCHANGED <<ctxDone, drainLeft, probes, dep, scrapes, requestVars, historyVars>>

\* http.Server.Serve gives up on a permanent accept error and fills errCh.
AcceptFails ==
  /\ listener = "open"
  /\ listener' = "failed"
  /\ UNCHANGED <<ctxDone, serve, ret, drainLeft, probes, dep, scrapes, requestVars, historyVars>>

\* The errCh case of the select. Shutdown alone makes http.Server.Serve
\* return ErrServerClosed, so the nil of errCh never arrives here.
SelectAcceptError ==
  /\ serve = "select" /\ listener = "failed"
  /\ ReturnFromServe("accept")
  /\ UNCHANGED <<ctxDone, listener, drainLeft, probes, dep, scrapes, requestVars, historyVars>>

\* The ctx.Done case, which may be taken when errCh is ready as well.
SelectCancelled ==
  /\ serve = "select" /\ ctxDone
  /\ serve' = "shutdown"
  /\ listener' = "closed"
  /\ drainLeft' = DrainTimeout
  /\ UNCHANGED <<ctxDone, ret, probes, dep, scrapes, requestVars, historyVars>>

\* http.Server.Close in place of Shutdown.
Drained_Close ==
  /\ serve = "shutdown"
  /\ ReturnFromServe("closed")
  /\ UNCHANGED <<ctxDone, listener, drainLeft, probes, dep, scrapes, requestVars, historyVars>>

Drained ==
  /\ serve = "shutdown" /\ InFlight = {}
  /\ ReturnFromServe("closed")
  /\ UNCHANGED <<ctxDone, listener, drainLeft, probes, dep, scrapes, requestVars, historyVars>>

\* No WithTimeout around the shutdown ctx.
DrainDeadline_None == FALSE

\* Shutdown polls, so it may find its deadline over although the last request
\* has just ended.
DrainDeadline ==
  /\ serve = "shutdown" /\ drainLeft = 0
  /\ ReturnFromServe("drain")
  /\ UNCHANGED <<ctxDone, listener, drainLeft, probes, dep, scrapes, requestVars, historyVars>>

----------------------------------------------------------------------------
\* Requests. A slot whose request was answered takes the next one.

\* A connection accepted while the listener was open may bring its request
\* later, until Shutdown has seen the connection end.
Connected == listener # "off" /\ ret # "closed"

\* handleReadyz up to its loop: the copy is taken under the read lock.
Readyz(r) ==
  /\ Connected /\ handler[r] # "probing"
  /\ handler' = [handler EXCEPT ![r] = "probing"]
  /\ snap' = [snap EXCEPT ![r] = probes]
  /\ todo' = [todo EXCEPT ![r] = Registered(probes)]
  /\ allOK' = [allOK EXCEPT ![r] = TRUE]
  /\ left' = [left EXCEPT ![r] = ProbeTimeout]
  /\ gone' = gone \ {r}
  /\ elapsed' = [elapsed EXCEPT ![r] = 0]
  /\ everUp' = [everUp EXCEPT ![r] = UpNow(probes)]
  /\ alwaysUp' = [alwaysUp EXCEPT ![r] = UpNow(probes)]
  /\ UNCHANGED <<serveVars, probes, dep, scrapes>>

\* The name whose probe is being called: the loop goes through sorted names.
Current(r, n) == n \in todo[r] /\ \A m \in todo[r] : n <= m

\* The last probe decides.
EndProbe_LastWins(r, n, ok) ==
  /\ todo' = [todo EXCEPT ![r] = @ \ {n}]
  /\ allOK' = [allOK EXCEPT ![r] = ok]
  /\ left' = [left EXCEPT ![r] = ProbeTimeout]
  /\ UNCHANGED <<serveVars, probes, dep, scrapes, handler, snap, gone, elapsed, historyVars>>

\* The deadline of the next probe is added to what the last one left over.
EndProbe_Accumulate(r, n, ok) ==
  /\ todo' = [todo EXCEPT ![r] = @ \ {n}]
  /\ allOK' = [allOK EXCEPT ![r] = @ /\ ok]
  /\ left' = [left EXCEPT ![r] = @ + ProbeTimeout]
  /\ UNCHANGED <<serveVars, probes, dep, scrapes, handler, snap, gone, elapsed, historyVars>>

\* One iteration of the loop ends; the next call gets a deadline of its own.
EndProbe(r, n, ok) ==
  /\ todo' = [todo EXCEPT ![r] = @ \ {n}]
  /\ allOK' = [allOK EXCEPT ![r] = @ /\ ok]
  /\ left' = [left EXCEPT ![r] = ProbeTimeout]
  /\ UNCHANGED <<serveVars, probes, dep, scrapes, handler, snap, gone, elapsed, historyVars>>

ProbeAnswers(r, n) ==
  /\ handler[r] = "probing" /\ Current(r, n)
  /\ dep[snap[r][n]] # "silent"
  /\ EndProbe(r, n, IsUp(snap[r][n]))

\* A probe respects the deadline of its ctx (contract of type Probe).
ProbeExpires(r, n) ==
  /\ handler[r] = "probing" /\ Current(r, n)
  /\ dep[snap[r][n]] = "silent" /\ left[r] = 0
  /\ EndProbe(r, n, FALSE)

\* The ctx of a probe derives from that of Serve: a signal fails them all.
ProbeCancelled_ServeCtx(r, n) ==
  /\ handler[r] = "probing" /\ Current(r, n)
  /\ r \in gone \/ ctxDone
  /\ EndProbe(r, n, FALSE)

\* The ctx of a probe derives from r.Context(): once the client is gone a probe
\* may report that, whatever its dependency would answer. (It need not: an
\* answer may come first, and the loop goes on to the next probe in any case.)
ProbeCancelled(r, n) ==
  /\ handler[r] = "probing" /\ Current(r, n)
  /\ r \in gone
  /\ EndProbe(r, n, FALSE)

Reply(r) ==
  /\ handler[r] = "probing" /\ todo[r] = {}
  /\ handler' = [handler EXCEPT ![r] = IF allOK[r] THEN "200" ELSE "503"]
  /\ UNCHANGED <<serveVars, probes, dep, scrapes, snap, todo, allOK, left, gone, elapsed, historyVars>>

\* A scrape has no time limit: only ReadHeaderTimeout is set on http.Server.
Metrics(c) ==
  /\ Connected
  /\ scrapes' = scrapes \cup {c}
  /\ UNCHANGED <<serveVars, probes, dep, requestVars, historyVars>>

MetricsSent(c) ==
  /\ c \in scrapes
  /\ scrapes' = scrapes \ {c}
  /\ UNCHANGED <<serveVars, probes, dep, requestVars, historyVars>>

----------------------------------------------------------------------------
\* The environment.

Probing == {r \in Requests : handler[r] = "probing" /\ todo[r] # {}}

\* net/http cancels r.Context() when the client closes its connection.
ClientLeaves(r) ==
  /\ handler[r] = "probing" /\ r \notin gone
  /\ gone' = gone \cup {r}
  /\ UNCHANGED <<serveVars, probes, dep, scrapes, handler, snap, todo, allOK, left, elapsed,
                 historyVars>>

DependencyChanges(p, a) ==
  LET Copied(r) == {n \in Names : handler[r] = "probing" /\ snap[r][n] = p}
  IN  /\ dep' = [dep EXCEPT ![p] = a]
      /\ everUp' = [r \in Requests |-> IF a = "up" THEN everUp[r] \cup Copied(r) ELSE everUp[r]]
      /\ alwaysUp' = [r \in Requests |-> IF a = "up" THEN alwaysUp[r] ELSE alwaysUp[r] \ Copied(r)]
      /\ UNCHANGED <<serveVars, probes, scrapes, requestVars>>

\* The probe is called with r.Context() itself: nothing cuts it off.
Tick_NoProbeDeadline ==
  /\ serve = "shutdown" => drainLeft > 0
  /\ elapsed' = [r \in Requests |-> IF r \in Probing THEN elapsed[r] + 1 ELSE elapsed[r]]
  /\ drainLeft' = IF serve = "shutdown" THEN drainLeft - 1 ELSE drainLeft
  /\ UNCHANGED <<ctxDone, serve, ret, listener, probes, dep, scrapes, handler, snap, todo,
                 allOK, left, gone, historyVars>>

\* One unit of time passes, unless a deadline is due.
Tick ==
  /\ \A r \in Probing : left[r] > 0
  /\ serve = "shutdown" => drainLeft > 0
  /\ left' = [r \in Requests |-> IF r \in Probing THEN left[r] - 1 ELSE left[r]]
  /\ elapsed' = [r \in Requests |-> IF r \in Probing THEN elapsed[r] + 1 ELSE elapsed[r]]
  /\ drainLeft' = IF serve = "shutdown" THEN drainLeft - 1 ELSE drainLeft
  /\ UNCHANGED <<ctxDone, serve, ret, listener, probes, dep, scrapes, handler, snap, todo,
                 allOK, gone, historyVars>>

----------------------------------------------------------------------------
ServeStep == Listen \/ SelectAcceptError \/ SelectCancelled \/ Drained \/ DrainDeadline

ProbeStep(r) ==
  \E n \in Names : ProbeAnswers(r, n) \/ ProbeExpires(r, n) \/ ProbeCancelled(r, n)

Next ==
  \/ CallServe \/ Cancel
  \/ \E n \in Names, p \in Probes : RegisterReadiness(n, p)
  \/ ServeStep \/ AcceptFails
  \/ \E r \in Requests : Readyz(r) \/ ClientLeaves(r) \/ ProbeStep(r) \/ Reply(r)
  \/ \E c \in Scrapers : Metrics(c) \/ MetricsSent(c)
  \/ \E p \in Probes, a \in Answer : DependencyChanges(p, a)
  \/ Tick

\* The Go scheduler runs a goroutine that can proceed and the clock advances.
\* No client, no dependency and no caller of the role owes anything.
Fairness ==
  /\ WF_vars(ServeStep)
  /\ WF_vars(Tick)
  /\ \A r \in Requests : WF_vars(ProbeStep(r)) /\ WF_vars(Reply(r))

Spec == Init /\ [][Next]_vars /\ Fairness

----------------------------------------------------------------------------
\* A 200 of /readyz vouches for every dependency registered when the request
\* arrived: each was up at some moment while the request was being handled.
\* The loop of handleReadyz calls the probes one after the other while the
\* dependencies change, and one failure among them must reach the status.
ReadyVouches ==
  \A r \in Requests : handler[r] = "200" =>
    Registered(snap[r]) \subseteq everUp[r]

\* A 503 that a client waited for is no false alarm: some dependency registered
\* when the request arrived was not up throughout it. A signal that cancels the
\* ctx of Serve while the probes run does not make them fail. (The 503 written
\* to a client that went away may name dependencies that were up: its going
\* cancels the probes.)
NoFalseAlarm ==
  \A r \in Requests : handler[r] = "503" /\ r \notin gone =>
    ~ (Registered(snap[r]) \subseteq alwaysUp[r])

\* Each probe has its own deadline (context.WithTimeout in the loop), so a
\* request takes at most probeTimeout for each probe it copied.
RequestBound ==
  \A r \in Requests : handler[r] # "none" =>
    elapsed[r] <= Cardinality(Registered(snap[r])) * ProbeTimeout

\* ErrServerClosed means a graceful stop: no handler is still running.
ClosedMeansDrained == ret = "closed" => InFlight = {} /\ listener = "closed"

\* health.go:33-34 "the /readyz handler shares a parent deadline so the whole
\* request bounds at this value too".
WholeRequestBound ==
  \A r \in Requests : handler[r] # "none" => elapsed[r] <= ProbeTimeout

\* Serve keeps the promise the roles rely on.
Contract == INSTANCE AdminContract WITH
  phase  <- CASE serve = "idle"     -> "idle"
              [] serve = "listen"   -> "starting"
              [] serve = "returned" -> "done"
              [] OTHER              -> "serving",
  result <- CASE ret = "none"   -> "none"
              [] ret = "closed" -> "closed"
              [] OTHER          -> "failed"

ImplementsContract == Contract!Spec
=============================================================================
