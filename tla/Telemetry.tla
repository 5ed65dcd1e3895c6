----------------------------- MODULE Telemetry -----------------------------
(***************************************************************************)
(* Tracing of a role process, after its configuration is loaded            *)
(* (internal/obs): Setup builds a tracer provider with a batching pipeline *)
(* to the OTLP collector and one, for agent spans only, to Langfuse; the   *)
(* role's deferred shutdown stops them.  The batch span processor and the  *)
(* exporters are the OpenTelemetry SDK's: a bounded queue per pipeline, a  *)
(* worker that collects spans into a batch and exports it.                 *)
(***************************************************************************)
EXTENDS Config

CONSTANTS Span, QueueBound
ASSUME TelemetryAssumption == QueueBound \in Nat \ {0}

Pipeline == {"otlp", "langfuse"}
Category == {"none", "system", "agent"}
\* "cut": exported after the exporter was shut down, and lost
Fate == {"none", "queued", "batched", "delivered", "refused", "cut", "dropped"}

VARIABLES
  on,        \* the pipelines that were built
  ratio,     \* "all" or "some": the sampling ratio is 1 or below
  span,      \* [Span -> "none", "open", "ended"]
  sampled,   \* the spans the sampler kept
  category,  \* the spt.span_category attribute, "none" if not set
  fate,      \* [Pipeline -> [Span -> Fate]]
  up,        \* the exporters that have not been shut down
  stopped,   \* the batch processors told to stop
  todo,      \* shutdown calls still to make
  expired,   \* the shutdown context's five seconds are over
  firstErr,  \* the first error of a shutdown call, "none" if none failed
  owed       \* history: the spans that had ended when shutdown began

spanVars == <<span, sampled, category>>
pipeVars == <<fate, up, stopped>>
downVars == <<todo, expired, firstErr, owed>>
telemetryVars == <<on, ratio, span, sampled, category, fate, up, stopped,
                   todo, expired, firstErr, owed>>
vars == <<stage, flags, pending, cfg, watches, problems, failure, seen,
          on, ratio, span, sampled, category, fate, up, stopped,
          todo, expired, firstErr, owed>>

Init ==
  /\ ConfigInit
  /\ on = {} /\ ratio = "all"
  /\ span = [s \in Span |-> "none"] /\ sampled = {}
  /\ category = [s \in Span |-> "none"]
  /\ fate = [p \in Pipeline |-> [s \in Span |-> "none"]]
  /\ up = {} /\ stopped = {}
  /\ todo = {} /\ expired = FALSE /\ firstErr = "none" /\ owed = {}

Configure == ConfigNext /\ UNCHANGED telemetryVars

\* Setup passes no Langfuse exporter yet; NewTracerProvider takes one.  What
\* Load kept to itself is gone, and nothing below reads cfg again: the model
\* forgets it.  A ratio of zero would become 1.
Setup(withLangfuse) ==
  /\ stage = "loaded"
  /\ stage' = "running"
  /\ on' = (IF cfg[<<"obs", "otlp_endpoint">>] # Unset THEN {"otlp"} ELSE {})
             \cup (IF withLangfuse THEN {"langfuse"} ELSE {})
  /\ ratio' = IF cfg[<<"obs", "span_sampling">>] \in {Unset, Dflt} THEN "all" ELSE "some"
  /\ up' = on'
  /\ flags' = NoFlags /\ cfg' = Defaults /\ watches' = <<>> /\ seen' = <<>>
  /\ UNCHANGED <<pending, problems, failure, fate, stopped>>
  /\ UNCHANGED spanVars /\ UNCHANGED downVars

\* NewTracerProvider: the OTLP client may refuse its endpoint
SetupFails ==
  /\ stage = "loaded" /\ cfg[<<"obs", "otlp_endpoint">>] # Unset
  /\ stage' = "failed"
  /\ UNCHANGED <<flags, pending, cfg, watches, problems, failure, seen>>
  /\ UNCHANGED telemetryVars

-----------------------------------------------------------------------------
(* Spans and the two processors.  The role's goroutines do not stop when    *)
(* shutdown begins.                                                         *)

Alive == stage \in {"running", "shutdown"}

\* tp.Shutdown has begun: the provider hands out no more recording spans
ProviderDown == stage = "shutdown" /\ \A call \in todo : call[1] = "processor"

StartSpan(s) ==
  /\ Alive /\ ~ProviderDown /\ span[s] = "none"
  /\ span' = [span EXCEPT ![s] = "open"]
  /\ \/ sampled' = sampled \cup {s}
     \/ ratio = "some" /\ UNCHANGED sampled
  /\ UNCHANGED <<on, ratio, category>> /\ UNCHANGED configVars
  /\ UNCHANGED pipeVars /\ UNCHANGED downVars

SetCategory(s, c) ==
  /\ Alive /\ span[s] = "open" /\ category[s] # c
  /\ category' = [category EXCEPT ![s] = c]
  /\ UNCHANGED <<on, ratio, span, sampled>> /\ UNCHANGED configVars
  /\ UNCHANGED pipeVars /\ UNCHANGED downVars

\* categoryFilterProcessor.OnEnd looks at the attribute as it is at the end
Forwards_Untagged(p, s) == p \in on /\ (p = "langfuse" => category[s] # "system")

Forwards(p, s) == p \in on /\ (p = "langfuse" => category[s] = "agent")

QueueFull(p) == Cardinality({s \in Span : fate[p][s] = "queued"}) >= QueueBound

EndSpan(s) ==
  /\ Alive /\ span[s] = "open"
  /\ span' = [span EXCEPT ![s] = "ended"]
  /\ fate' = [p \in Pipeline |->
               IF s \in sampled /\ Forwards(p, s)
               THEN [fate[p] EXCEPT ![s] =
                       IF p \in stopped \/ QueueFull(p) THEN "dropped" ELSE "queued"]
               ELSE fate[p]]
  /\ UNCHANGED <<on, ratio, sampled, category, up, stopped>> /\ UNCHANGED configVars
  /\ UNCHANGED downVars

\* The worker of the batch processor takes a span off the queue ...
Collect(p, s) ==
  /\ Alive /\ fate[p][s] = "queued"
  /\ fate' = [fate EXCEPT ![p][s] = "batched"]
  /\ UNCHANGED <<on, ratio, up, stopped>> /\ UNCHANGED configVars
  /\ UNCHANGED spanVars /\ UNCHANGED downVars

\* ... and exports the batch, which the collector may refuse.  An exporter that
\* was shut down cancels the request; it may get through all the same.
Export(p) ==
  /\ Alive /\ \E s \in Span : fate[p][s] = "batched"
  /\ \E outcome \in {"delivered", IF p \in up THEN "refused" ELSE "cut"} :
       fate' = [fate EXCEPT ![p] =
                 [s \in Span |-> IF @[s] = "batched" THEN outcome ELSE @[s]]]
  /\ UNCHANGED <<on, ratio, up, stopped>> /\ UNCHANGED configVars
  /\ UNCHANGED spanVars /\ UNCHANGED downVars

-----------------------------------------------------------------------------
(* The role's deferred shutdown, and composeShutdown                        *)

\* The exporters' Shutdown in the order they were built, then tp.Shutdown,
\* which shuts the processors down in the same order.
Rank(call) ==
  (IF call[1] = "exporter" THEN 0 ELSE 2) + (IF call[2] = "otlp" THEN 1 ELSE 2)

IsNext(call) == call \in todo /\ \A other \in todo : Rank(call) <= Rank(other)

FirstOf(err, new) == IF err = "none" THEN new ELSE err

ShutdownBegins ==
  /\ stage = "running"
  /\ stage' = "shutdown"
  /\ todo' = {"exporter", "processor"} \X on
  /\ owed' = {s \in Span : span[s] = "ended"}
  /\ UNCHANGED <<flags, pending, cfg, watches, problems, failure, seen>>
  /\ UNCHANGED <<on, ratio, expired, firstErr>> /\ UNCHANGED spanVars /\ UNCHANGED pipeVars

DeadlineExpires_NoTimeout == FALSE /\ UNCHANGED vars

DeadlineExpires ==
  /\ stage = "shutdown" /\ ~expired
  /\ expired' = TRUE
  /\ UNCHANGED <<on, ratio, todo, firstErr, owed>> /\ UNCHANGED configVars
  /\ UNCHANGED spanVars /\ UNCHANGED pipeVars

ShutdownExporter_StopAtError(p) ==
  /\ stage = "shutdown" /\ IsNext(<<"exporter", p>>)
  /\ up' = up \ {p}
  /\ \E err \in {"none", p} :
       /\ firstErr' = FirstOf(firstErr, err)
       /\ todo' = IF err = "none" THEN todo \ {<<"exporter", p>>} ELSE {}
  /\ UNCHANGED <<on, ratio, fate, stopped, expired, owed>> /\ UNCHANGED configVars
  /\ UNCHANGED spanVars

\* exp.Shutdown: the exporter is down whether or not the call returns an error
ShutdownExporter(p) ==
  /\ stage = "shutdown" /\ IsNext(<<"exporter", p>>)
  /\ up' = up \ {p}
  /\ todo' = todo \ {<<"exporter", p>>}
  /\ \E err \in {"none", p} : firstErr' = FirstOf(firstErr, err)
  /\ UNCHANGED <<on, ratio, fate, stopped, expired, owed>> /\ UNCHANGED configVars
  /\ UNCHANGED spanVars

StopProcessor_Unbuilt(p) ==
  /\ stage = "shutdown" /\ IsNext(<<"processor", p>>)
  /\ ~expired /\ p \notin stopped
  /\ stopped' = Pipeline
  /\ UNCHANGED <<on, ratio, fate, up>> /\ UNCHANGED configVars
  /\ UNCHANGED spanVars /\ UNCHANGED downVars

\* tp.Shutdown reaches processor p: it takes no more spans and drains its queue
StopProcessor(p) ==
  /\ stage = "shutdown" /\ IsNext(<<"processor", p>>)
  /\ ~expired /\ p \notin stopped
  /\ stopped' = stopped \cup {p}
  /\ UNCHANGED <<on, ratio, fate, up>> /\ UNCHANGED configVars
  /\ UNCHANGED spanVars /\ UNCHANGED downVars

Waiting(p) == {s \in Span : fate[p][s] \in {"queued", "batched"}}

ProcessorStopped(p) ==
  /\ stage = "shutdown" /\ IsNext(<<"processor", p>>)
  /\ p \in stopped /\ Waiting(p) = {}
  /\ todo' = todo \ {<<"processor", p>>}
  /\ UNCHANGED <<on, ratio, expired, firstErr, owed>> /\ UNCHANGED configVars
  /\ UNCHANGED spanVars /\ UNCHANGED pipeVars

\* tp.Shutdown gives up on the processors that are left
ProviderGivesUp ==
  /\ stage = "shutdown" /\ expired /\ todo # {} /\ ProviderDown
  /\ todo' = {}
  /\ firstErr' = FirstOf(firstErr, "deadline")
  /\ UNCHANGED <<on, ratio, expired, owed>> /\ UNCHANGED configVars
  /\ UNCHANGED spanVars /\ UNCHANGED pipeVars

ProcessExits ==
  /\ stage = "shutdown" /\ todo = {}
  /\ stage' = "exited"
  /\ UNCHANGED <<flags, pending, cfg, watches, problems, failure, seen>>
  /\ UNCHANGED telemetryVars

ShutdownStep ==
  \/ \E p \in Pipeline : ShutdownExporter(p) \/ StopProcessor(p) \/ ProcessorStopped(p)
  \/ ProviderGivesUp \/ ProcessExits

Next ==
  \/ Configure
  \/ \E b \in BOOLEAN : Setup(b)
  \/ SetupFails
  \/ \E s \in Span : StartSpan(s) \/ EndSpan(s)
  \/ \E s \in Span, c \in Category \ {"none"} : SetCategory(s, c)
  \/ \E p \in Pipeline, s \in Span : Collect(p, s)
  \/ \E p \in Pipeline : Export(p)
  \/ ShutdownBegins \/ DeadlineExpires \/ ShutdownStep

\* The deferred call runs to its end, and five seconds pass.  Neither the
\* worker nor the collector is assumed to make progress.
Spec == Init /\ [][Next]_vars /\ WF_vars(ShutdownStep) /\ WF_vars(DeadlineExpires)

-----------------------------------------------------------------------------
(* Properties *)

TypeOK ==
  /\ ConfigTypeOK
  /\ stage \in {"discover", "decode", "loaded", "failed", "running", "shutdown", "exited"}
  /\ on \subseteq Pipeline /\ up \subseteq on /\ stopped \subseteq on
  /\ ratio \in {"all", "some"}
  /\ span \in [Span -> {"none", "open", "ended"}] /\ sampled \subseteq Span
  /\ category \in [Span -> Category]
  /\ fate \in [Pipeline -> [Span -> Fate]]
  /\ todo \subseteq {"exporter", "processor"} \X on
  /\ expired \in BOOLEAN /\ firstErr \in Pipeline \cup {"none", "deadline"}
  /\ owed \subseteq Span

\* Property: the Langfuse pipeline gets exactly the sampled spans that are
\* agent spans when they end, whenever and however often the category was set,
\* and the OTLP pipeline gets every sampled span.  About
\* categoryFilterProcessor.OnEnd, CategoryOf and SetCategory.
SplitAtEnd ==
  \A p \in Pipeline, s \in Span :
    fate[p][s] # "none" <=>
      /\ span[s] = "ended" /\ s \in sampled /\ p \in on
      /\ p = "langfuse" => category[s] = "agent"

\* Property: a failing shutdown call strands no later pipeline.  When the
\* process exits within its deadline, or with no error reported, every exporter
\* is down and no span is left in a queue or a batch.  About composeShutdown's
\* promise to run every function (tracing.go:83-85).
NothingStranded ==
  stage = "exited" /\ (~expired \/ firstErr = "none")
    => up = {} /\ stopped = on /\ \A p \in on : Waiting(p) = {}

\* Property: a span that had ended when shutdown began is not lost to the
\* shutdown itself, as "the returned shutdown function flushes both pipelines"
\* (tracing.go:35-37) says.  Checked as a violation.
ShutdownFlushes ==
  stage = "exited" /\ ~expired => \A p \in Pipeline, s \in owed : fate[p][s] # "cut"

\* Property: the deferred shutdown ends, whatever the collectors do, so that a
\* role returns from Run.  About the bounded context in Run's defer
\* (app/api/run.go:31-40) and composeShutdown.
ShutdownEnds == stage = "shutdown" ~> stage = "exited"
=============================================================================
