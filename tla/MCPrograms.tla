----------------------------- MODULE MCPrograms -----------------------------
(* A role process and the four tools that work on data sets and dashboards, *)
(* one program per behaviour                                                *)
EXTENDS RoleProcess, Bootstrap, Regression, Upload, Dashgen, TLC

VARIABLE job   \* the program this behaviour is about

Jobs == {"role", "bootstrap", "regression", "upload", "dashgen"}

MCListing == 1..4
MCWindows == {<<2, 4, 1, 3>>, <<3, 1>>, <<>>}
Weak == [kind |-> "cpu", confidence |-> 40, ver |-> "v1"]
Strong == [kind |-> "cpu", confidence |-> 90, ver |-> "v1"]
Low == <<Weak>>
High == <<Strong>>
Mixed == <<Strong, Weak>>
MCComponentLists == {<<>>, Low, High, Mixed}
MCPerKinds == {1, -1}
MCCounts == {2, -1}

MCScoreValue == {10, 14, 30}
MCNoScore == -1
MCDisputed == {1, 3, 4}
MCPerBucket == ("<0.5" :> 2 @@ "0.5-0.8" :> 0 @@ "0.8-1.0" :> 0)

MCDatasetDir == <<"cpu.json", "ram.json", "junk.json">>
MCExpected == ("cpu.json" :> <<"cpu">> @@ "ram.json" :> <<"ram", "cpu">> @@ "junk.json" :> <<>>)
MCBackendList == <<"ollama", "openai">>
MCExtractions == {<<"cpu">>, <<"ram", "cpu">>, <<>>}

MCSampleFile == {<<"a", "b">>, <<"b", "c", "a">>}

\* The stores the bootstrap tools start from; a window has four scored listings,
\* so that the lowest score is no boundary, or fewer.
MCComps == {<<Low, Low, High, Low>>, <<High, Mixed, <<>>, <<>>>>}
MCScores == {<<10, 30, 30, 30>>, <<30, 10, 14, 14>>, <<30, MCNoScore, 10, 30>>}
Quiet == comps = <<Low, Low, Low, Low>> /\ score = <<10, 10, 10, 10>>
NoSetting == [dsn |-> FALSE, otlp |-> FALSE]

ProgramInit ==
  /\ job \in Jobs
  /\ IF job = "bootstrap" THEN comps \in MCComps /\ score \in MCScores ELSE Quiet
  /\ IF job = "role" THEN cfg \in Setting ELSE cfg = NoSetting
  /\ Init /\ BootstrapInit /\ RegressionInit /\ UploadInit /\ DashgenInit

toolVars == <<bootVars, runVars, upVars, genVars>>
programVars == <<job, vars, toolVars>>

OfRole(A) == job = "role" /\ A /\ UNCHANGED <<job, toolVars>>
RoleStep == OfRole(Next)
BootstrapStep == job = "bootstrap" /\ BootstrapNext /\ UNCHANGED <<job, vars, runVars, upVars, genVars>>
RegressionStep == job = "regression" /\ RegressionNext /\ UNCHANGED <<job, vars, bootVars, upVars, genVars>>
UploadStep == job = "upload" /\ UploadNext /\ UNCHANGED <<job, vars, bootVars, runVars, genVars>>
DashgenStep == job = "dashgen" /\ DashgenNext /\ UNCHANGED <<job, vars, bootVars, runVars, upVars>>

ProgramNext == RoleStep \/ BootstrapStep \/ RegressionStep \/ UploadStep \/ DashgenStep

\* RoleProcess's fairness; the tools have none.
ProgramFairness ==
  /\ WF_programVars(OfRole(MainStep))
  /\ WF_programVars(OfRole(AdminProgress))
  /\ WF_programVars(OfRole(Deliver))

ProgramSpec == ProgramInit /\ [][ProgramNext]_programVars /\ ProgramFairness
=============================================================================
