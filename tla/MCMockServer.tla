---------------------------- MODULE MCMockServer ----------------------------
(* MockServer on a small instance: the default scenario without a quota and  *)
(* two with one, an item of the default that "sold" overrides, one that      *)
(* nobody has, a rule that lets item requests through and one that fails     *)
(* them.                                                                     *)
EXTENDS MockServer, TLC

CONSTANTS default, sold, tight, unloaded, both, missing

MCScenario == {default, sold, tight}
MCItem     == {both, missing}
MCItems    == [s \in MCScenario |->
                 CASE s = default -> {both} [] s = sold -> {both} [] s = tight -> {}]
MCSearches == {default}
MCQuotaOf  == [s \in MCScenario |->
                 CASE s = default -> None
                   [] s = sold  -> [count |-> 0, autoIncr |-> "unset"]
                   [] s = tight -> [count |-> 1, autoIncr |-> "on"]]
Through    == [endpoint |-> {"item"}, fails |-> "never"]
Outage     == [endpoint |-> {"item"}, fails |-> "always"]
MCRule     == {Through, Outage}
MCRequest  ==
  [path : {"item"}, arg : MCItem] \cup
  [path : {"search", "list"}, arg : {None}] \cup
  [path : {"scenario"}, arg : MCScenario \cup {unloaded, Invalid}] \cup
  [path : {"quota"}, arg : {[count |-> 0, autoIncr |-> "off"], Invalid}] \cup
  [path : {"fault"}, arg : MCRule \cup {Clear, Invalid}]

ClientsAlike == Permutations(Client)
=============================================================================
