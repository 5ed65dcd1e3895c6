------------------------------ MODULE Dashgen ------------------------------
(***************************************************************************)
(* dashgen: runs of the generator, of the same or of different versions of *)
(* the code, write the dashboards and rule files of one output directory   *)
(* (or, with -validate, compare them).  A file is written to <target>.tmp  *)
(* and renamed.  Data is held by inodes, because two runs share the name   *)
(* of the temporary file.                                                  *)
(***************************************************************************)
EXTENDS Naturals, FiniteSets

CONSTANTS
  Target,   \* number of artefacts: targets are 1..Target, in Generate's order
  Gen,      \* the runs
  Version   \* of the artefacts; a run writes those of its own version

Absent == 0
Inode == 1..(2 * Target + Cardinality(Gen))
Partial == "partial"

ASSUME DashgenAssumption ==
  Target \in Nat \ {0} /\ IsFiniteSet(Gen) /\ Version # {} /\ Partial \notin Version

VARIABLES
  gstep,     \* [Gen -> "idle", "open", "write", "rename", "compare", or how it ended]
  version,   \* [Gen -> Version]
  at,        \* [Gen -> the target it is working on]
  fd,        \* [Gen -> the inode it has open]
  drifted,   \* [Gen -> whether a target differed]
  file, tmp, \* [1..Target -> Inode or Absent]: what the two names refer to
  data,      \* [Inode -> Version, or Partial]
  overlapped \* history: the runs that were not alone from start to end

genVars == <<gstep, version, at, fd, drifted, file, tmp, data, overlapped>>
dirVars == <<file, tmp, data>>

Done == {"ok", "drift", "error"}
Active(g) == gstep[g] \notin Done \cup {"idle"}

DashgenInit ==
  /\ gstep = [g \in Gen |-> "idle"]
  /\ version = [g \in Gen |-> CHOOSE v \in Version : TRUE]
  /\ at = [g \in Gen |-> 1] /\ fd = [g \in Gen |-> Absent] /\ drifted = [g \in Gen |-> FALSE]
  /\ file = [t \in 1..Target |-> Absent] /\ tmp = [t \in 1..Target |-> Absent]
  /\ data = [i \in Inode |-> Partial] /\ overlapped = {}

StartGenerate(g, mode, v) ==
  /\ gstep[g] = "idle"
  /\ version' = [version EXCEPT ![g] = v]
  /\ gstep' = [gstep EXCEPT ![g] = IF mode = "validate" THEN "compare" ELSE "open"]
  /\ overlapped' = IF \E h \in Gen : Active(h)
                   THEN overlapped \cup {g} \cup {h \in Gen : Active(h)} ELSE overlapped
  /\ UNCHANGED <<at, fd, drifted, file, tmp, data>>

\* Any system call may fail, and the run may be killed between two of them;
\* what is on disk stays as it is.
Stop(g) ==
  /\ Active(g)
  /\ gstep' = [gstep EXCEPT ![g] = "error"]
  /\ UNCHANGED <<version, at, fd, drifted, file, tmp, data, overlapped>>

Named(i) == \E t \in 1..Target : file[t] = i \/ tmp[t] = i
Unused(i) == i \in Inode /\ ~Named(i) /\ \A g \in Gen : fd[g] # i

\* os.WriteFile(tmp): open with O_TRUNC | O_CREATE ...
OpenTmp_InPlace(g) ==
  LET t == at[g]
  IN  /\ gstep[g] = "open"
      /\ \E i \in Inode :
           /\ IF file[t] # Absent THEN i = file[t] ELSE Unused(i)
           /\ fd' = [fd EXCEPT ![g] = i]
           /\ tmp' = [tmp EXCEPT ![t] = i]
           /\ data' = [data EXCEPT ![i] = Partial]
      /\ gstep' = [gstep EXCEPT ![g] = "write"]
      /\ UNCHANGED <<version, at, drifted, file, overlapped>>

OpenTmp(g) ==
  LET t == at[g]
  IN  /\ gstep[g] = "open"
      /\ \E i \in Inode :
           /\ IF tmp[t] # Absent THEN i = tmp[t]
              ELSE Unused(i) /\ \A j \in Inode : Unused(j) => i <= j
           /\ fd' = [fd EXCEPT ![g] = i]
           /\ tmp' = [tmp EXCEPT ![t] = i]
           /\ data' = [data EXCEPT ![i] = Partial]
      /\ gstep' = [gstep EXCEPT ![g] = "write"]
      /\ UNCHANGED <<version, at, drifted, file, overlapped>>

\* ... and write, over whatever another run has written to the same inode
WriteTmp_Unchecked(g) ==
  /\ gstep[g] = "write"
  /\ \E result \in {version[g], Partial} : data' = [data EXCEPT ![fd[g]] = result]
  /\ gstep' = [gstep EXCEPT ![g] = "rename"]
  /\ UNCHANGED <<version, at, fd, drifted, file, tmp, overlapped>>

WriteTmp(g) ==
  /\ gstep[g] = "write"
  /\ LET before == data[fd[g]]
         v == version[g]
     IN  \E result \in (IF before \in {Partial, v} THEN {v} ELSE {v, Partial}) :
           data' = [data EXCEPT ![fd[g]] = result]
  /\ gstep' = [gstep EXCEPT ![g] = "rename"]
  /\ UNCHANGED <<version, at, fd, drifted, file, tmp, overlapped>>

Advance(g, step) ==
  IF at[g] < Target
  THEN at' = [at EXCEPT ![g] = @ + 1] /\ gstep' = [gstep EXCEPT ![g] = step]
  ELSE UNCHANGED at /\ gstep' = [gstep EXCEPT ![g] = IF drifted'[g] THEN "drift" ELSE "ok"]

\* os.Rename; it fails if another run has renamed the file away
RenameTmp(g) ==
  LET t == at[g]
  IN  /\ gstep[g] = "rename" /\ tmp[t] # Absent
      /\ file' = [file EXCEPT ![t] = tmp[t]]
      /\ tmp' = [tmp EXCEPT ![t] = Absent]
      /\ fd' = [fd EXCEPT ![g] = Absent]
      /\ UNCHANGED drifted /\ Advance(g, "open")
      /\ UNCHANGED <<version, data, overlapped>>

\* ModeValidate: a missing file and a file that differs are both drift
Compare_MissingOK(g) ==
  LET t == at[g]
      differs == file[t] # Absent /\ data[file[t]] # version[g]
  IN  /\ gstep[g] = "compare"
      /\ drifted' = [drifted EXCEPT ![g] = @ \/ differs]
      /\ Advance(g, "compare")
      /\ UNCHANGED <<version, fd, file, tmp, data, overlapped>>

Compare(g) ==
  LET t == at[g]
      differs == file[t] = Absent \/ data[file[t]] # version[g]
  IN  /\ gstep[g] = "compare"
      /\ drifted' = [drifted EXCEPT ![g] = @ \/ differs]
      /\ Advance(g, "compare")
      /\ UNCHANGED <<version, fd, file, tmp, data, overlapped>>

DashgenNext ==
  \E g \in Gen :
    \/ \E mode \in {"write", "validate"}, v \in Version : StartGenerate(g, mode, v)
    \/ Stop(g) \/ OpenTmp(g) \/ WriteTmp(g) \/ RenameTmp(g) \/ Compare(g)

DashgenSpec == DashgenInit /\ [][DashgenNext]_genVars

-----------------------------------------------------------------------------
(* Properties *)

Holds(t, v) == file[t] # Absent /\ data[file[t]] = v
Alone == overlapped = {}

\* tools/dashgen/README.md:37 "Atomic writes (`.tmp` + `os.Rename`) keep the
\* on-disk tree consistent under concurrent runs."  Property: every target is
\* absent or one version of its artefact.  About writeAtomic; checked as a
\* violation.
Whole == \A t \in 1..Target : file[t] = Absent \/ data[file[t]] \in Version

\* Property: as long as runs do not overlap that is so: no failure, kill or full
\* disk at any step, and no temporary file left by an earlier run, ever makes a
\* target a partial file.  About writeAtomic.
WholeWhileAlone == Alone => Whole

\* Property: the exit code tells the truth about the directory.  When no run has
\* overlapped another, then at the moment a run ends "ok" means that every
\* target holds that run's version, and "drift" that some target does not.
\* About Generate, writeOrCompare and writeAtomic.
VerdictHonest ==
  [][\A g \in Gen : Alone /\ Active(g) =>
       /\ gstep'[g] = "ok" => \A t \in 1..Target : Holds(t, version[g])'
       /\ gstep'[g] = "drift" => \E t \in 1..Target : ~Holds(t, version[g])'
    ]_genVars

\* What a user of the tool sees: the directory without its temporary files and
\* inodes, and the runs without their system calls.
Stage(s) ==
  IF s \in {"open", "write", "rename"} THEN "writing"
  ELSE IF s = "compare" THEN "validating" ELSE s
Stages == [g \in Gen |-> Stage(gstep[g])]
Contents == [t \in 1..Target |-> IF file[t] # Absent THEN {data[file[t]]} ELSE {}]

Atomic == INSTANCE AtomicDir WITH content <- Contents, stage <- Stages

\* Property: until runs overlap, the directory behaves as one of registers that
\* a run replaces in one step each, and every result of a run is true of all of
\* them, whatever temporary files there are and wherever earlier runs stopped.
\* About Generate, writeOrCompare and writeAtomic.
AtomicWhileAlone ==
  Atomic!Init /\ [][Alone' => Atomic!Next \/ UNCHANGED Atomic!atomicVars]_genVars
=============================================================================
