---------------------------- MODULE MCTelemetry ----------------------------
(* Configuration and tracing of one role process on a small instance *)
EXTENDS Telemetry

\* A block with the attributes that attrs sets and the others omitted.
Decl(b, attrs) ==
  [f \in BlockFields[b] |-> IF f \in DOMAIN attrs THEN attrs[f] ELSE Unset]

MCUnset == ""
MCDflt == "default"
MCGood == {"v1", "v2", "JSON", "long-s", "Warning"}
MCMalformed == {"bad"}
MCSpelling ==
  [v \in MCGood \cup MCMalformed |->
    IF v \in {"JSON", "long-s"} THEN "json" ELSE IF v = "Warning" THEN "warning" ELSE v]
MCFolded == {"long-s"}
MCEnvVar == {"$RATIO", "$UNSET"}
MCEnv == [x \in MCEnvVar |-> IF x = "$RATIO" THEN "v2" ELSE ""]
MCDirFiles == <<"10-base.hcl", "20-site.hcl">>
MCPaths == <<"local.hcl">>

File(bs, ws) == [fault |-> "none", blocks |-> bs, watches |-> ws]
W(q, c, r) == [name |-> "w", attrs |-> [query |-> q, cadence |-> c, judge_sample_rate |-> r]]

MCContents ==
  {File([log |-> Decl("log", [format |-> "JSON", level |-> "v1"]),
         obs |-> Decl("obs", [otlp_endpoint |-> "v1", span_sampling |-> "v1"])], <<>>),
   File([obs |-> Decl("obs", [otlp_endpoint |-> "v2"])], <<W("v1", "", "")>>),
   File([obs |-> Decl("obs", [span_sampling |-> "$RATIO"]),
         api |-> Decl("api", [read_timeout |-> "v1"])], <<W("v1", "v1", "")>>),
   File([obs |-> Decl("obs", [span_sampling |-> "$UNSET"])], <<>>),
   File([log |-> Decl("log", [format |-> "long-s"]),
         api |-> Decl("api", [read_timeout |-> "bad"])], <<>>),
   File([worker |-> Decl("worker", [pools |-> "bad"])], <<W("", "bad", "bad")>>),
   [fault |-> "syntax", blocks |-> <<>>, watches |-> <<>>],
   [fault |-> "schema", blocks |-> <<>>, watches |-> <<>>]}

MCFlags ==
  {NoFlags, [NoFlags EXCEPT ![<<"log", "level">>] = "Warning"],
   [NoFlags EXCEPT ![<<"log", "format">>] = "v2", ![<<"ebay", "app_id">>] = "v1"]}
=============================================================================
