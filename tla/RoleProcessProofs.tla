-------------------------- MODULE RoleProcessProofs --------------------------
(***************************************************************************)
(* Proofs about RoleProcess: its type invariant and its safety properties, *)
(* for every interleaving of the main goroutine, the admin server behind   *)
(* its contract, and the signals.                                          *)
(***************************************************************************)
EXTENDS RoleProcess, TLAPS

Returned == {"flush", "main", "exited"}

\* The admin server: its result, the channel and the history agree.
AdminInv ==
  /\ phase = "done" <=> result # "none"
  /\ result = "closed" => ctxDone
  /\ result = "failed" <=> "admin" \in failures
  /\ adminErr \in {"closed", "failed"} => adminErr = result
  /\ adminErr = "received" => phase = "done" /\ pc \in Returned
  /\ adminErr = "received" /\ result = "failed" => errorLog # {}

\* The main goroutine: how far Run is, and what it holds there.
MainInv ==
  /\ pc \in {"load", "setup", "migrations", "spawn"} => phase = "idle" /\ adminErr = "empty"
  /\ pc \in {"select", "join"} => phase # "idle"
  /\ pc = "join" => ctxDone
  /\ pc \in {"migrations", "spawn", "select", "join", "flush"} => obsUp
  /\ pc \in Returned => phase = "idle" \/ adminErr = "received"

\* The error on its way to the exit code says what happened.
ErrorInv ==
  /\ pc \in Returned <=> err # "nil"
  /\ err \in {"canceled", "closed"} => ctxDone
  /\ err = "failed" => failures # {}
  /\ failures \cap Startup # {} => err = "failed"
  /\ pc = "exited" <=> code # NotExited
  /\ pc = "exited" => (code = 0 <=> err = "canceled")

IInv == TypeOK /\ AdminInv /\ MainInv /\ ErrorInv

-----------------------------------------------------------------------------
LEMMA InitInv == Init => IInv
  BY DEF Init, Admin!Init, IInv, TypeOK, AdminInv, MainInv, ErrorInv, Returned, Setting,
         Failure, Startup, Record, NotExited, Place, Error, Admin!Phase, Admin!Result

\* Every step keeps the invariant: one case per action.
LEMMA NextInv == IInv /\ [Next]_vars => IInv'
<1> SUFFICES ASSUME IInv, [Next]_vars PROVE IInv'
  OBVIOUS
<1> USE DEF IInv, TypeOK, AdminInv, MainInv, ErrorInv, Returned, Failure, Startup, Record,
            NotExited, Place, Error, Admin!Phase, Admin!Result, adminVars
<1>1. CASE LoadConfig
  BY <1>1 DEF LoadConfig, Proceeds, Fails
<1>2. CASE Setup
  BY <1>2 DEF Setup, Proceeds, Fails, Cancelled
<1>3. CASE CheckPendingMigrations
  BY <1>3 DEF CheckPendingMigrations, Proceeds, Fails, Cancelled
<1>4. CASE Spawn
  BY <1>4 DEF Spawn, Goto, Admin!Start
<1>5. CASE SelectCancelled
  BY <1>5 DEF SelectCancelled, Goto
<1>6. CASE Join
  <2> USE <1>6 DEF Join, Goto
  <2>1. errorLog' \in SUBSET Record /\ (adminErr = "failed" => errorLog' # {})
    OBVIOUS
  <2>2. AdminInv'
    BY <2>1
  <2>3. TypeOK' /\ MainInv' /\ ErrorInv'
    BY <2>1
  <2>4. QED
    BY <2>2, <2>3
<1>7. CASE SelectAdminErr
  <2> USE <1>7 DEF SelectAdminErr, Goto
  <2>1. errorLog' \in SUBSET Record /\ errorLog' # {}
    OBVIOUS
  <2>2. AdminInv'
    BY <2>1
  <2>3. TypeOK' /\ MainInv' /\ ErrorInv'
    BY <2>1
  <2>4. QED
    BY <2>2, <2>3
<1>8. CASE FlushObs
  BY <1>8 DEF FlushObs, Goto
<1>9. CASE Exit
  <2> USE <1>9 DEF Exit, Goto
  <2>1. err # "nil" /\ (code' = 0 <=> err = "canceled") /\ code' \in {0, 1}
    <3>1. pc = "main" /\ pc' = "exited" OBVIOUS
    <3>2. err # "nil" OBVIOUS
    <3>3. code' = IF err \in {"nil", "canceled"} THEN 0 ELSE 1 OBVIOUS
    <3> HIDE DEF IInv, Exit
    <3>4. QED BY <3>2, <3>3
  <2>2. TypeOK'
    BY <2>1
  <2>3. AdminInv' /\ MainInv'
    OBVIOUS
  <2>4. ErrorInv'
    <3>1. pc' = "exited" /\ UNCHANGED <<ctxDone, err, failures>> /\ ErrorInv /\ err \in Error
      OBVIOUS
    <3> HIDE DEF IInv, Exit
    <3>2. QED
      BY <2>1, <3>1
  <2>5. QED
    BY <2>2, <2>3, <2>4
<1>10. CASE AdminRuns
  BY <1>10 DEF AdminRuns, mainVars, Admin!Bind, Admin!Close, Admin!Return
<1>11. CASE AdminFails
  BY <1>11 DEF AdminFails, Admin!Fail, Admin!Return
<1>12. CASE Deliver
  BY <1>12 DEF Deliver
<1>13. CASE Signal
  BY <1>13 DEF Signal, mainVars, Admin!Cancel
<1>14. CASE UNCHANGED vars
  BY <1>14 DEF vars, mainVars
<1>15. QED
  BY <1>1, <1>2, <1>3, <1>4, <1>5, <1>6, <1>7, <1>8, <1>9, <1>10, <1>11, <1>12, <1>13, <1>14 DEF Next, MainStep

THEOREM Invariance == Spec => []IInv
  BY InitInv, NextInv, PTL DEF Spec

-----------------------------------------------------------------------------
\* Type correctness.
THEOREM TypeCorrect == Spec => []TypeOK
<1>1. IInv => TypeOK
  BY DEF IInv
<1>2. QED
  BY <1>1, Invariance, PTL

\* A role exits 0 only after ctx was cancelled.
THEOREM NoUnaskedSuccess == Spec => []ExitZeroOnlyIfAsked
<1>1. IInv => ExitZeroOnlyIfAsked
  BY DEF IInv, TypeOK, AdminInv, MainInv, ErrorInv, Returned, ExitZeroOnlyIfAsked, Place, Error,
         NotExited, Startup, Failure, Admin!Phase, Admin!Result
<1>2. QED
  BY <1>1, Invariance, PTL

\* A failed startup exits 1, whatever a signal does meanwhile.
THEOREM StartupFailureReported == Spec => []StartupFailureExitsOne
<1>1. IInv => StartupFailureExitsOne
  BY DEF IInv, TypeOK, AdminInv, MainInv, ErrorInv, Returned, StartupFailureExitsOne, Place, Error,
         NotExited, Startup, Failure, Admin!Phase, Admin!Result
<1>2. QED
  BY <1>1, Invariance, PTL

\* A role does not end unless it was asked to or something failed.
THEOREM NoSpontaneousExit == Spec => []StaysUp
<1>1. IInv => StaysUp
  BY DEF IInv, TypeOK, AdminInv, MainInv, ErrorInv, Returned, StaysUp, Place, Error,
         NotExited, Startup, Failure, Admin!Phase, Admin!Result
<1>2. QED
  BY <1>1, Invariance, PTL

\* No failure of the admin server goes unlogged.
THEOREM AdminFailureReported == Spec => []AdminFailureLogged
<1>1. IInv => AdminFailureLogged
  BY DEF IInv, TypeOK, AdminInv, MainInv, ErrorInv, Returned, AdminFailureLogged, Place, Error,
         NotExited, Startup, Failure, Admin!Phase, Admin!Result
<1>2. QED
  BY <1>1, Invariance, PTL

\* Telemetry is torn down after the admin server has returned.
THEOREM TelemetryOrder == Spec => []TelemetryOutlivesAdmin
<1>1. IInv => TelemetryOutlivesAdmin
  BY DEF IInv, TypeOK, AdminInv, MainInv, ErrorInv, Returned, TelemetryOutlivesAdmin, Place, Error,
         NotExited, Startup, Failure, Admin!Phase, Admin!Result
<1>2. QED
  BY <1>1, Invariance, PTL

-----------------------------------------------------------------------------
(* Why Terminates holds: every step brings the process closer to its end,  *)
(* and once it is to end somebody can always take one. What is left to     *)
(* fairness is that a step which can be taken is taken.                    *)

\* How many steps are left at most to the main goroutine, to the admin server,
\* to its channel and to the operator.
MainLeft == [p \in Place |->
  CASE p = "load" -> 8 [] p = "setup" -> 7 [] p = "migrations" -> 6 [] p = "spawn" -> 5
    [] p = "select" -> 4 [] p = "join" -> 3 [] p = "flush" -> 2 [] p = "main" -> 1
    [] p = "exited" -> 0]
AdminLeft == [p \in Admin!Phase |->
  CASE p = "idle" -> 3 [] p = "starting" -> 2 [] p = "serving" -> 1 [] p = "done" -> 0]
ChannelLeft == [v \in {"empty", "closed", "failed", "received"} |->
  CASE v = "empty" -> 2 [] v = "received" -> 0 [] OTHER -> 1]
SignalLeft == [done \in BOOLEAN |-> IF done THEN 0 ELSE 1]

StepsLeft == MainLeft[pc] + AdminLeft[phase] + ChannelLeft[adminErr] + SignalLeft[ctxDone]

\* The guards of MainStep, of AdminProgress and of Deliver.
MainCanStep ==
  \/ pc \in {"load", "setup", "migrations", "flush", "main"}
  \/ pc = "spawn" /\ phase = "idle"
  \/ pc = "select" /\ (ctxDone \/ adminErr \in {"closed", "failed"})
  \/ pc = "join" /\ adminErr \in {"closed", "failed"}
AdminCanStep == phase = "starting" \/ (phase = "serving" /\ ctxDone)
CanDeliver == phase = "done" /\ adminErr = "empty"

\* While a signal or a failure asks for the end, no goroutine waits for one
\* that cannot move: neither the join for a server that does not return nor the
\* select for a value that nobody sends.
NobodyWaitsForever ==
  ctxDone \/ failures # {} => pc = "exited" \/ MainCanStep \/ AdminCanStep \/ CanDeliver

Counts == /\ StepsLeft \in Nat /\ StepsLeft' \in Nat
          /\ StepsLeft' < StepsLeft

\* Lemma: the count is a natural number, and every step makes it smaller.
LEMMA StepCounts ==
  ASSUME TypeOK, TypeOK', Next
  PROVE  Counts
<1> USE DEF Counts
<1>1. /\ pc \in Place /\ phase \in Admin!Phase /\ ctxDone \in BOOLEAN
      /\ pc' \in Place /\ phase' \in Admin!Phase /\ ctxDone' \in BOOLEAN
      /\ adminErr \in {"empty", "closed", "failed", "received"}
      /\ adminErr' \in {"empty", "closed", "failed", "received"}
  BY DEF TypeOK
<1>2. /\ MainLeft \in [Place -> Nat] /\ AdminLeft \in [Admin!Phase -> Nat]
      /\ ChannelLeft \in [{"empty", "closed", "failed", "received"} -> Nat]
      /\ SignalLeft \in [BOOLEAN -> Nat]
  BY DEF MainLeft, AdminLeft, ChannelLeft, SignalLeft, Place, Admin!Phase
<1>3. CASE LoadConfig \/ Setup \/ CheckPendingMigrations \/ SelectCancelled \/ FlushObs \/ Exit
  <2>1. MainLeft[pc'] < MainLeft[pc] /\ UNCHANGED <<ctxDone, phase, adminErr>>
    BY <1>3 DEF LoadConfig, Setup, CheckPendingMigrations, SelectCancelled, FlushObs, Exit,
                Goto, Proceeds, Fails, Cancelled, adminVars, MainLeft, Place
  <2> QED  BY <1>1, <1>2, <2>1 DEF StepsLeft
<1>4. CASE Spawn
  <2>1. /\ MainLeft[pc'] < MainLeft[pc] /\ AdminLeft[phase'] < AdminLeft[phase]
        /\ UNCHANGED <<ctxDone, adminErr>>
    BY <1>4 DEF Spawn, Goto, Admin!Start, MainLeft, AdminLeft, Place, Admin!Phase
  <2> QED  BY <1>1, <1>2, <2>1 DEF StepsLeft
<1>5. CASE Join \/ SelectAdminErr
  <2>1. /\ pc \in {"select", "join"} /\ pc' = "flush"
        /\ adminErr \in {"closed", "failed"} /\ adminErr' = "received"
        /\ UNCHANGED <<ctxDone, phase>>
    BY <1>5 DEF Join, SelectAdminErr, Goto, adminVars
  <2>2. MainLeft[pc'] < MainLeft[pc] /\ ChannelLeft[adminErr'] < ChannelLeft[adminErr]
    BY <2>1 DEF MainLeft, ChannelLeft, Place
  <2> QED  BY <1>1, <1>2, <2>1, <2>2 DEF StepsLeft
<1>6. CASE AdminRuns \/ AdminFails
  <2>1. AdminLeft[phase'] < AdminLeft[phase] /\ UNCHANGED <<ctxDone, pc, adminErr>>
    BY <1>6 DEF AdminRuns, AdminFails, Admin!Bind, Admin!Close, Admin!Fail, Admin!Return,
                mainVars, AdminLeft, Admin!Phase
  <2> QED  BY <1>1, <1>2, <2>1 DEF StepsLeft
<1>7. CASE Deliver
  <2>1. adminErr' # "empty" /\ adminErr = "empty" /\ UNCHANGED <<ctxDone, pc, phase>>
    BY <1>7 DEF Deliver, adminVars, TypeOK, Admin!Result
  <2>2. ChannelLeft[adminErr'] < ChannelLeft[adminErr]
    BY <1>1, <2>1 DEF ChannelLeft
  <2> QED  BY <1>1, <1>2, <2>1, <2>2 DEF StepsLeft
<1>8. CASE Signal
  <2>1. SignalLeft[ctxDone'] < SignalLeft[ctxDone] /\ UNCHANGED <<phase, pc, adminErr>>
    BY <1>1, <1>8 DEF Signal, Admin!Cancel, mainVars, SignalLeft
  <2> QED  BY <1>1, <1>2, <2>1 DEF StepsLeft
<1>9. QED
  BY <1>3, <1>4, <1>5, <1>6, <1>7, <1>8 DEF Next, MainStep

\* Every step of the process brings it closer to its end, so a role takes only
\* finitely many: no signal, failure or delivery sends it back.
THEOREM EveryStepCounts == Spec => [][Counts]_vars
<1>1. IInv /\ IInv' /\ [Next]_vars => [Counts]_vars
  BY StepCounts DEF IInv
<1>2. QED
  BY <1>1, Invariance, PTL DEF Spec

\* A role that is to end never waits for what cannot come.
THEOREM NoLostWait == Spec => []NobodyWaitsForever
<1>1. IInv => NobodyWaitsForever
  BY DEF IInv, TypeOK, AdminInv, MainInv, ErrorInv, Returned, NobodyWaitsForever, MainCanStep,
         AdminCanStep, CanDeliver, Place, Error, Startup, Failure, Admin!Phase, Admin!Result
<1>2. QED
  BY <1>1, Invariance, PTL

-----------------------------------------------------------------------------
(* NonZeroOnlyOnFailure (cmd/spt/main.go:43-45) does not hold. What does:  *)

\* An orderly stop that Run takes for a failure has been logged as one.
RaceInv == err = "closed" => result = "closed" /\ "admin server failed" \in errorLog

\* A non-zero exit without any failure has one cause: a signal stopped the
\* server, and the select of Run took `<-adminErr` although ctx was done.
MisreportsOnlyTheRace ==
  code = 1 /\ failures = {} =>
    ctxDone /\ result = "closed" /\ "admin server failed" \in errorLog

\* Theorem: the race of the two cases of the select is all that is wrong with
\* the exit code of a role, at startup, while it serves and when it stops.
THEOREM OnlyTheRaceMisreports == Spec => []MisreportsOnlyTheRace
<1>1. ASSUME Init PROVE RaceInv
  BY <1>1 DEF RaceInv, Init
<1>2. IInv /\ RaceInv /\ [Next]_vars => RaceInv'
  <2> SUFFICES ASSUME IInv, RaceInv, [Next]_vars, err' = "closed"
               PROVE  result' = "closed" /\ "admin server failed" \in errorLog'
    BY DEF RaceInv
  <2>1. CASE SelectAdminErr
    BY <2>1 DEF SelectAdminErr, adminVars, IInv, AdminInv
  <2>2. CASE ~SelectAdminErr
    <3>1. err = "closed"
      BY <2>2 DEF Next, MainStep, LoadConfig, Setup, CheckPendingMigrations, Spawn, SelectCancelled,
             Join, FlushObs, Exit, AdminRuns, AdminFails, Deliver, Signal, Proceeds, Fails, Cancelled,
             mainVars, vars
    <3>2. result = "closed" /\ "admin server failed" \in errorLog
      BY <3>1 DEF RaceInv
    <3>3. errorLog \subseteq errorLog'
      BY <2>2 DEF Next, MainStep, LoadConfig, Setup, CheckPendingMigrations, Spawn, SelectCancelled,
             Join, FlushObs, Exit, AdminRuns, AdminFails, Deliver, Signal, mainVars, vars
    <3>4. phase = "done"
      BY <3>2 DEF IInv, AdminInv
    <3>5. result' = result
      BY <2>2, <3>4 DEF Next, MainStep, LoadConfig, Setup, CheckPendingMigrations, Spawn, SelectCancelled,
             Join, FlushObs, Exit, AdminRuns, AdminFails, Deliver, Signal, Admin!Start, Admin!Bind,
             Admin!Close, Admin!Fail, Admin!Return, Admin!Cancel, adminVars, vars
    <3> QED  BY <3>2, <3>3, <3>5
  <2> QED  BY <2>1, <2>2
<1>3. IInv /\ RaceInv => MisreportsOnlyTheRace
  <2> SUFFICES ASSUME IInv, RaceInv, code = 1, failures = {} PROVE err = "closed" /\ ctxDone
    BY DEF MisreportsOnlyTheRace, RaceInv
  <2>1. pc = "exited" /\ err \in Error /\ err # "failed" /\ err # "canceled"
    BY DEF IInv, TypeOK, ErrorInv, NotExited
  <2>2. err # "nil"
    BY <2>1 DEF IInv, ErrorInv, Returned
  <2>3. err = "closed"
    BY <2>1, <2>2 DEF Error
  <2> QED  BY <2>3 DEF IInv, ErrorInv
<1>4. QED
  BY <1>1, <1>2, <1>3, Invariance, PTL DEF Spec
=============================================================================
