----------------------------- MODULE RoleProcess -----------------------------
(***************************************************************************)
(* One process of `spt api`, `spt scheduler` or `spt worker`, from the     *)
(* start of cmd/spt/main.go to its exit code. The three Run functions are  *)
(* the same up to their names.                                             *)
(*                                                                         *)
(* Concurrent activities: the main goroutine, which executes the command   *)
(* and Run; the goroutine that Run starts for the admin server, given by   *)
(* its contract, AdminContract, and delivering into the channel adminErr;  *)
(* and the signals of the operator, which cancel ctx.                      *)
(*                                                                         *)
(* An operator A_Variant is the operator A with a plausible bug. Nothing   *)
(* uses it; put in A's place it breaks a property stated at the end.       *)
(***************************************************************************)
EXTENDS Naturals

VARIABLES
  ctxDone,   \* ctx of ExecuteContext is cancelled
  phase,     \* of the admin server, see AdminContract
  result,    \* of the admin server
  pc,        \* where the main goroutine is
  cfg,       \* the settings loaded: is there a DSN, an OTLP endpoint
  err,       \* the error Run (or the command) returns
  code,      \* the exit code
  adminErr,  \* Run's channel: empty, the value in it, or received
  obsUp,     \* the telemetry of obs.Setup is up
  failures,  \* history: what really failed
  errorLog   \* history: the error records Run logged

Admin == INSTANCE AdminContract

adminVars == <<ctxDone, phase, result>>
mainVars == <<pc, cfg, err, code, adminErr, obsUp, failures, errorLog>>
vars == <<adminVars, mainVars>>

Place   == {"load", "setup", "migrations", "spawn", "select", "join", "flush", "main", "exited"}
Error   == {"nil", "canceled", "closed", "failed"}
Setting == [dsn : BOOLEAN, otlp : BOOLEAN]
Startup == {"config", "setup", "migrations"}
Failure == Startup \cup {"admin"}
Record  == {"admin server failed", "admin server shutdown error"}

NotExited == 2   \* code, until the process exits

TypeOK ==
  /\ ctxDone \in BOOLEAN /\ phase \in Admin!Phase /\ result \in Admin!Result
  /\ pc \in Place
  /\ cfg \in Setting
  /\ err \in Error
  /\ code \in {0, 1, NotExited}
  /\ adminErr \in {"empty", "closed", "failed", "received"}
  /\ obsUp \in BOOLEAN
  /\ failures \in SUBSET Failure
  /\ errorLog \in SUBSET Record

Init ==
  /\ Admin!Init
  /\ pc = "load"
  /\ cfg \in Setting
  /\ err = "nil"
  /\ code = NotExited
  /\ adminErr = "empty"
  /\ obsUp = FALSE
  /\ failures = {}
  /\ errorLog = {}

----------------------------------------------------------------------------
\* The main goroutine up to the select of Run. `to` is where it goes on.

Goto(from, to) == pc = from /\ pc' = to

Fails(what, to) ==
  /\ err' = "failed"
  /\ failures' = failures \cup {what}
  /\ pc' = to

\* A call that looks at ctx gives up with an error that wraps ctx.Err().
Cancelled(to) ==
  /\ ctxDone
  /\ err' = "canceled"
  /\ pc' = to
  /\ UNCHANGED failures

Proceeds(to) == pc' = to /\ UNCHANGED <<err, failures>>

\* PersistentPreRunE: config.Load and installSlog. Run is not reached when it
\* fails.
LoadConfig ==
  /\ pc = "load"
  /\ Proceeds("setup") \/ Fails("config", "main")
  /\ UNCHANGED <<adminVars, cfg, code, adminErr, obsUp, errorLog>>

\* obs.Setup. Only the OTLP exporter can refuse its endpoint or see ctx.
Setup ==
  /\ pc = "setup"
  /\ \/ Proceeds("migrations") /\ obsUp' = TRUE
     \/ cfg.otlp /\ (Fails("setup", "main") \/ Cancelled("main")) /\ UNCHANGED obsUp
  /\ UNCHANGED <<adminVars, cfg, code, adminErr, errorLog>>

\* CheckPendingMigrations: skipped without a DSN; otherwise the database is
\* out of reach, or migrations are pending, or the check passes.
CheckPendingMigrations ==
  /\ pc = "migrations"
  /\ \/ Proceeds("spawn")
     \/ cfg.dsn /\ (Fails("migrations", "flush") \/ Cancelled("flush"))
  /\ UNCHANGED <<adminVars, cfg, code, adminErr, obsUp, errorLog>>

Spawn ==
  /\ Goto("spawn", "select")
  /\ Admin!Start
  /\ UNCHANGED <<cfg, err, code, adminErr, obsUp, failures, errorLog>>

----------------------------------------------------------------------------
\* The select of Run, and the end of the process.

\* case <-ctx.Done(): wait for the server, then return ctx.Err().
SelectCancelled ==
  /\ ctxDone
  /\ Goto("select", "join")
  /\ UNCHANGED <<adminVars, cfg, err, code, adminErr, obsUp, failures, errorLog>>

\* A failed shutdown of the server is dropped.
Join_Silent ==
  /\ Goto("join", "flush")
  /\ adminErr \in {"closed", "failed"}
  /\ adminErr' = "received"
  /\ err' = "canceled"
  /\ UNCHANGED <<adminVars, cfg, code, obsUp, failures, errorLog>>

\* Run returns ctx.Err() without waiting for the server.
Join_NoWait ==
  /\ Goto("join", "flush")
  /\ err' = "canceled"
  /\ UNCHANGED <<adminVars, cfg, code, adminErr, obsUp, failures, errorLog>>

Join ==
  /\ Goto("join", "flush")
  /\ adminErr \in {"closed", "failed"}
  /\ errorLog' = IF adminErr = "closed" THEN errorLog
                 ELSE errorLog \cup {"admin server shutdown error"}
  /\ adminErr' = "received"
  /\ err' = "canceled"
  /\ UNCHANGED <<adminVars, cfg, code, obsUp, failures>>

\* The failure is logged and Run returns nil.
SelectAdminErr_Swallow ==
  /\ Goto("select", "flush")
  /\ adminErr \in {"closed", "failed"}
  /\ err' = IF adminErr = "closed" THEN "closed" ELSE "nil"
  /\ adminErr' = "received"
  /\ errorLog' = errorLog \cup {"admin server failed"}
  /\ UNCHANGED <<adminVars, cfg, code, obsUp, failures>>

\* A select with a default: the receive does not block.
SelectAdminErr_NoWait ==
  /\ Goto("select", "flush")
  /\ err' = adminErr
  /\ adminErr' = "received"
  /\ errorLog' = errorLog \cup {"admin server failed"}
  /\ UNCHANGED <<adminVars, cfg, code, obsUp, failures>>

\* case err := <-adminErr: Go picks either case when both are ready.
SelectAdminErr ==
  /\ Goto("select", "flush")
  /\ adminErr \in {"closed", "failed"}
  /\ err' = adminErr
  /\ adminErr' = "received"
  /\ errorLog' = errorLog \cup {"admin server failed"}
  /\ UNCHANGED <<adminVars, cfg, code, obsUp, failures>>

\* The deferred shutdown of obs, in at most shutdownTimeout; its error is
\* logged as a warning and does not change what Run returns.
FlushObs ==
  /\ Goto("flush", "main")
  /\ obsUp' = FALSE
  /\ UNCHANGED <<adminVars, cfg, err, code, adminErr, failures, errorLog>>

\* main.go asks ctx.Err() instead of the error it got.
Exit_AskCtx ==
  /\ Goto("main", "exited")
  /\ code' = IF err = "nil" \/ ctxDone THEN 0 ELSE 1
  /\ UNCHANGED <<adminVars, cfg, err, adminErr, obsUp, failures, errorLog>>

\* run of main.go: context.Canceled counts as success.
Exit ==
  /\ Goto("main", "exited")
  /\ code' = IF err \in {"nil", "canceled"} THEN 0 ELSE 1
  /\ UNCHANGED <<adminVars, cfg, err, adminErr, obsUp, failures, errorLog>>

----------------------------------------------------------------------------
\* The admin goroutine. Its channel has room for the one value it sends.

AdminRuns ==
  /\ Admin!Bind \/ Admin!Close
  /\ UNCHANGED mainVars

AdminFails ==
  /\ Admin!Fail
  /\ failures' = failures \cup {"admin"}
  /\ UNCHANGED <<pc, cfg, err, code, adminErr, obsUp, errorLog>>

\* Only a clean stop is sent.
Deliver_OnlyClosed ==
  /\ phase = "done" /\ adminErr = "empty" /\ result = "closed"
  /\ adminErr' = result
  /\ UNCHANGED <<adminVars, pc, cfg, err, code, obsUp, failures, errorLog>>

Deliver ==
  /\ phase = "done" /\ adminErr = "empty"
  /\ adminErr' = result
  /\ UNCHANGED <<adminVars, pc, cfg, err, code, obsUp, failures, errorLog>>

\* SIGINT or SIGTERM; a second one is swallowed by NotifyContext.
Signal ==
  /\ pc # "exited"
  /\ Admin!Cancel
  /\ UNCHANGED mainVars

----------------------------------------------------------------------------
MainStep == \/ LoadConfig \/ Setup \/ CheckPendingMigrations \/ Spawn
            \/ SelectCancelled \/ Join \/ SelectAdminErr \/ FlushObs \/ Exit

Next == MainStep \/ AdminRuns \/ AdminFails \/ Deliver \/ Signal

\* What AdminContract promises of its progress.
AdminProgress == \/ AdminRuns
                 \/ AdminFails /\ (ctxDone \/ phase = "starting")

\* A goroutine that can proceed is scheduled, the calls of the startup return
\* (their connections time out), the admin server keeps its contract. Nobody
\* has to send a signal and nothing has to fail.
Fairness == WF_vars(MainStep) /\ WF_vars(AdminProgress) /\ WF_vars(Deliver)

Spec == Init /\ [][Next]_vars /\ Fairness

----------------------------------------------------------------------------
\* A role never stops with success on its own account: exit code 0 means that
\* somebody cancelled ctx. Whatever Serve returns, it must not turn into a nil
\* or a Canceled that main.go takes for the normal shutdown.
ExitZeroOnlyIfAsked == code = 0 => ctxDone

\* A failed startup is reported by the exit code even if a signal arrived
\* before, during or after it: main.go asks what the error is, not whether ctx
\* is done.
StartupFailureExitsOne ==
  pc = "exited" /\ failures \cap Startup # {} => code = 1

\* The process does not end for no reason.
StaysUp == pc = "exited" => ctxDone \/ failures # {}

\* A failure of the admin server is in the error log when the process ends,
\* also one that races a signal and that the exit code therefore hides.
AdminFailureLogged == pc = "exited" /\ "admin" \in failures => errorLog # {}

\* The telemetry outlives the admin server: the deferred shutdown of obs runs
\* after Run has received what Serve returned.
TelemetryOutlivesAdmin == phase \in {"starting", "serving"} => obsUp

\* A signal or a failure ends the process.
Terminates == (ctxDone \/ failures # {}) ~> pc = "exited"

\* cmd/spt/main.go:43-45 "A cancelled context is the normal shutdown path
\* (SIGINT/SIGTERM during a role's Run). Treat it as success -- non-zero exit is
\* reserved for actual configuration or runtime failures."
NonZeroOnlyOnFailure == code = 1 => failures # {}
=============================================================================
