------------------------------ MODULE AtomicDir ------------------------------
(***************************************************************************)
(* What dashgen promises of its output directory to runs that follow each  *)
(* other.  A target is a register that is absent or one version of its     *)
(* artefact; a writing run changes it from one to the other in a single    *)
(* step and ends "ok" only in a directory of its own version; a validating *)
(* run changes nothing and ends as the directory is.                       *)
(***************************************************************************)
EXTENDS Naturals

CONSTANTS Target, Gen, Version   \* as in Dashgen

VARIABLES
  content,   \* [1..Target -> {}, or {v} for the version v]
  stage,     \* [Gen -> "idle", "writing", "validating", or how it ended]
  version    \* [Gen -> Version]

atomicVars == <<content, stage, version>>

Running(g) == stage[g] \in {"writing", "validating"}
Uniform(v) == \A t \in 1..Target : content[t] = {v}

Init ==
  /\ content = [t \in 1..Target |-> {}] /\ stage = [g \in Gen |-> "idle"]
  /\ version \in [Gen -> Version]

Start(g) ==
  /\ stage[g] = "idle" /\ \A h \in Gen : ~Running(h)
  /\ \E s \in {"writing", "validating"} : stage' = [stage EXCEPT ![g] = s]
  /\ \E v \in Version : version' = [version EXCEPT ![g] = v]
  /\ UNCHANGED content

\* A target is replaced as a whole; the run goes on, or was the last to be.
Publish(g) ==
  /\ stage[g] = "writing"
  /\ \E t \in 1..Target : content' = [content EXCEPT ![t] = {version[g]}]
  /\ \/ UNCHANGED stage
     \/ Uniform(version[g])' /\ stage' = [stage EXCEPT ![g] = "ok"]
  /\ UNCHANGED version

Judge(g) ==
  /\ stage[g] = "validating"
  /\ stage' = [stage EXCEPT ![g] = IF Uniform(version[g]) THEN "ok" ELSE "drift"]
  /\ UNCHANGED <<content, version>>

\* A failing call or a kill leaves every target as it is.
Fail(g) ==
  /\ Running(g) /\ stage' = [stage EXCEPT ![g] = "error"]
  /\ UNCHANGED <<content, version>>

Next == \E g \in Gen : Start(g) \/ Publish(g) \/ Judge(g) \/ Fail(g)
=============================================================================
