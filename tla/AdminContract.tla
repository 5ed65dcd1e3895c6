--------------------------- MODULE AdminContract ---------------------------
(***************************************************************************)
(* What a role may rely on when it starts the admin server                 *)
(* (internal/health: `go func() { adminErr <- h.Serve(ctx, addr) }()`):    *)
(* Serve returns ErrServerClosed only after ctx was cancelled, a failure   *)
(* at any time, nothing else, and it does return once ctx is cancelled.    *)
(*                                                                         *)
(* HealthServer implements this contract, and RoleProcess is written       *)
(* against it.                                                             *)
(***************************************************************************)
VARIABLES
  ctxDone,   \* the ctx handed to Serve is cancelled
  phase,     \* where the call of Serve is
  result     \* what Serve returned

adminVars == <<ctxDone, phase, result>>

Phase  == {"idle", "starting", "serving", "done"}
Result == {"none", "closed", "failed"}

Init == /\ ctxDone = FALSE
        /\ phase = "idle"
        /\ result = "none"

\* The role's goroutine calls Serve.
Start == /\ phase = "idle"
         /\ phase' = "starting"
         /\ UNCHANGED <<ctxDone, result>>

Cancel == /\ ~ ctxDone
          /\ ctxDone' = TRUE
          /\ UNCHANGED <<phase, result>>

\* The listener is bound; Serve looks at ctx only from here on.
Bind == /\ phase = "starting"
        /\ phase' = "serving"
        /\ UNCHANGED <<ctxDone, result>>

Return(r) == /\ phase' = "done"
             /\ result' = r
             /\ UNCHANGED ctxDone

\* Listen or accept fails, or the shutdown runs out of its time.
Fail == phase \in {"starting", "serving"} /\ Return("failed")

\* A graceful stop: the `return ErrServerClosed` of Serve.
Close == phase = "serving" /\ ctxDone /\ Return("closed")

Next == Start \/ Cancel \/ Bind \/ Fail \/ Close

\* The call makes progress: a started Serve binds or fails, and a cancelled
\* one returns. It owes nothing while it serves and ctx is live.
Progress == \/ Bind
            \/ Fail /\ (ctxDone \/ phase = "starting")
            \/ Close

Spec == Init /\ [][Next]_adminVars /\ WF_adminVars(Progress)
=============================================================================
