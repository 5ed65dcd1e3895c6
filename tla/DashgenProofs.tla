--------------------------- MODULE DashgenProofs ---------------------------
(***************************************************************************)
(* Proofs about Dashgen, for every number of targets, every set of runs    *)
(* and every set of versions.  While runs do not overlap, the inodes       *)
(* behind the temporary names are apart from those behind the targets, so  *)
(* writing one target disturbs no other: the targets before the one a run  *)
(* works on are, and stay, what the run found or made of them.             *)
(***************************************************************************)
EXTENDS Dashgen, FiniteSetTheorems, TLAPS

Step == {"idle", "open", "write", "rename", "compare"} \cup Done
Name == Inode \cup {Absent}
Dir == 1..Target

DashgenTypeOK ==
  /\ gstep \in [Gen -> Step] /\ version \in [Gen -> Version]
  /\ at \in [Gen -> Dir] /\ fd \in [Gen -> Name] /\ drifted \in [Gen -> BOOLEAN]
  /\ file \in [Dir -> Name] /\ tmp \in [Dir -> Name]
  /\ data \in [Inode -> Version \cup {Partial}]
  /\ overlapped \subseteq Gen
  /\ \A g \in Gen : gstep[g] \in {"write", "rename"} => fd[g] \in Inode

OnlyOne == \A g, h \in Gen : Active(g) /\ Active(h) => g = h

\* No two names refer to one inode, as far as a write could tell.
Apart ==
  \A t, u \in Dir : tmp[t] # Absent => tmp[t] # file[u] /\ (tmp[u] = tmp[t] => u = t)

\* What a run has open, and what holds of the targets it has dealt with.
Doing(g) ==
  /\ gstep[g] = "idle" => at[g] = 1 /\ ~drifted[g]
  /\ gstep[g] \in {"open", "write", "rename"} =>
       ~drifted[g] /\ \A t \in Dir : t < at[g] => Holds(t, version[g])
  /\ gstep[g] \in {"write", "rename"} => fd[g] = tmp[at[g]]
  /\ gstep[g] = "write" => data[fd[g]] = Partial
  /\ gstep[g] = "rename" => data[fd[g]] = version[g]
  /\ gstep[g] = "compare" =>
       (drifted[g] <=> \E t \in Dir : t < at[g] /\ ~Holds(t, version[g]))

AloneInv == OnlyOne /\ Whole /\ Apart /\ \A g \in Gen : Doing(g)
DashgenInv == DashgenTypeOK /\ (Alone => AloneInv)

\* Lemma: no inode is the absent one.
LEMMA AbsentNoInode == Absent \notin Inode
  BY DEF Absent, Inode

\* Lemma: the shapes of the variables are kept by every step.
LEMMA TypeStep == DashgenTypeOK /\ [DashgenNext]_genVars => DashgenTypeOK'
<1> SUFFICES ASSUME DashgenTypeOK, [DashgenNext]_genVars PROVE DashgenTypeOK'
  OBVIOUS
<1> USE DEF DashgenTypeOK, Step, Done, Name, Dir
<1>1. ASSUME NEW g \in Gen, NEW mode \in {"write", "validate"}, NEW v \in Version,
             StartGenerate(g, mode, v)
      PROVE  DashgenTypeOK'
  BY <1>1 DEF StartGenerate
<1>2. ASSUME NEW g \in Gen, Stop(g) PROVE DashgenTypeOK'
  BY <1>2 DEF Stop
<1>3. ASSUME NEW g \in Gen, OpenTmp(g) PROVE DashgenTypeOK'
  <2>1. PICK i \in Inode : /\ fd' = [fd EXCEPT ![g] = i]
                           /\ tmp' = [tmp EXCEPT ![at[g]] = i]
                           /\ data' = [data EXCEPT ![i] = Partial]
    BY <1>3 DEF OpenTmp
  <2>2. gstep' = [gstep EXCEPT ![g] = "write"]
        /\ UNCHANGED <<version, at, drifted, file, overlapped>>
    BY <1>3 DEF OpenTmp
  <2> QED  BY <2>1, <2>2
<1>4. ASSUME NEW g \in Gen, WriteTmp(g) PROVE DashgenTypeOK'
  <2>1. PICK r \in Version \cup {Partial} : data' = [data EXCEPT ![fd[g]] = r]
    BY <1>4 DEF WriteTmp
  <2>2. /\ gstep' = [gstep EXCEPT ![g] = "rename"] /\ gstep[g] = "write"
        /\ UNCHANGED <<version, at, fd, drifted, file, tmp, overlapped>>
    BY <1>4 DEF WriteTmp
  <2> QED  BY <2>1, <2>2
<1>5. ASSUME NEW g \in Gen, RenameTmp(g) PROVE DashgenTypeOK'
  <2>1. /\ file' = [file EXCEPT ![at[g]] = tmp[at[g]]]
        /\ tmp' = [tmp EXCEPT ![at[g]] = Absent]
        /\ fd' = [fd EXCEPT ![g] = Absent]
        /\ UNCHANGED <<drifted, version, data, overlapped>>
    BY <1>5 DEF RenameTmp
  <2>2. PICK s \in {"open", "drift", "ok"} : gstep' = [gstep EXCEPT ![g] = s]
    BY <1>5 DEF RenameTmp, Advance
  <2>3. at' \in [Gen -> 1..Target]
    BY <1>5, DashgenAssumption DEF RenameTmp, Advance
  <2> QED  BY <2>1, <2>2, <2>3
<1>6. ASSUME NEW g \in Gen, Compare(g) PROVE DashgenTypeOK'
  <2>1. UNCHANGED <<version, fd, file, tmp, data, overlapped>>
    BY <1>6 DEF Compare
  <2>2. PICK s \in {"compare", "drift", "ok"} : gstep' = [gstep EXCEPT ![g] = s]
    BY <1>6 DEF Compare, Advance
  <2>3. at' \in [Gen -> 1..Target]
    BY <1>6, DashgenAssumption DEF Compare, Advance
  <2>4. drifted' \in [Gen -> BOOLEAN]
    BY <1>6 DEF Compare
  <2> QED  BY <2>1, <2>2, <2>3, <2>4
<1>7. ASSUME UNCHANGED genVars PROVE DashgenTypeOK'
  BY <1>7 DEF genVars
<1> QED  BY <1>1, <1>2, <1>3, <1>4, <1>5, <1>6, <1>7 DEF DashgenNext

\* Lemma: a run that is alone and does something leaves the other runs where
\* they are, not started or ended.
LEMMA OthersRest ==
  ASSUME DashgenTypeOK, OnlyOne, NEW g \in Gen, Active(g), NEW s,
         gstep' = [gstep EXCEPT ![g] = s],
         \A h \in Gen \ {g} : Doing(h) /\ at'[h] = at[h] /\ (drifted'[h] <=> drifted[h])
  PROVE  /\ \A h \in Gen \ {g} : Doing(h)' /\ ~Active(h)'
         /\ OnlyOne'
<1>1. ASSUME NEW h \in Gen \ {g} PROVE ~Active(h) /\ gstep'[h] = gstep[h]
  BY DEF OnlyOne, DashgenTypeOK
<1>2. ASSUME NEW h \in Gen \ {g} PROVE ~Active(h)'
  BY <1>1 DEF Active
<1>3. ASSUME NEW h \in Gen \ {g} PROVE Doing(h)'
  <2>1. gstep'[h] \notin {"open", "write", "rename", "compare"}
    BY <1>1 DEF Active, Done
  <2>2. gstep'[h] = "idle" => at'[h] = 1 /\ ~drifted'[h]
    BY <1>1 DEF Doing
  <2> QED  BY <2>1, <2>2 DEF Doing
<1>4. OnlyOne'
  BY <1>2 DEF OnlyOne
<1> QED  BY <1>2, <1>3, <1>4

\* Lemma: as long as no run has overlapped another, every step keeps the runs
\* apart, the targets whole, and what the runs have done.
LEMMA AloneStep ==
  DashgenInv /\ [DashgenNext]_genVars /\ Alone' => Alone /\ AloneInv /\ AloneInv'
<1> SUFFICES ASSUME DashgenInv, [DashgenNext]_genVars, Alone'
             PROVE  Alone /\ AloneInv /\ AloneInv'
  OBVIOUS
<1>0. Alone /\ DashgenTypeOK /\ AloneInv
  <2>1. overlapped \subseteq overlapped'
    BY DEF DashgenNext, StartGenerate, Stop, OpenTmp, WriteTmp, RenameTmp, Compare, genVars
  <2> QED  BY <2>1 DEF Alone, DashgenInv
<1>a. OnlyOne /\ Whole /\ Apart /\ \A g \in Gen : Doing(g)
  BY <1>0 DEF AloneInv
<1>1. ASSUME NEW g \in Gen, NEW mode \in {"write", "validate"}, NEW v \in Version,
             StartGenerate(g, mode, v)
      PROVE  AloneInv'
  <2>1. /\ \A h \in Gen : ~Active(h) /\ gstep[g] = "idle"
        /\ \E s \in {"compare", "open"} : gstep' = [gstep EXCEPT ![g] = s]
        /\ UNCHANGED <<at, fd, drifted, file, tmp, data>>
    BY <1>1 DEF StartGenerate, Alone
  <2>2. ASSUME NEW h \in Gen \ {g} PROVE Doing(h)' /\ ~Active(h)'
    BY <1>0, <1>a, <2>1 DEF Doing, Active, Done, DashgenTypeOK
  <2>3. OnlyOne'
    BY <2>2 DEF OnlyOne
  <2>4. Doing(g)'
    <3>1. at[g] = 1 /\ ~drifted[g] /\ gstep'[g] \in {"compare", "open"}
      BY <1>0, <1>a, <2>1 DEF Doing, DashgenTypeOK
    <3>2. \A t \in Dir : ~(t < 1)
      BY DashgenAssumption DEF Dir
    <3> QED  BY <2>1, <3>1, <3>2 DEF Doing
  <2>5. Whole' /\ Apart'
    BY <1>a, <2>1 DEF Whole, Apart, Dir
  <2> QED  BY <2>2, <2>3, <2>4, <2>5 DEF AloneInv
<1>2. ASSUME NEW g \in Gen, Stop(g) PROVE AloneInv'
  <2>1. /\ Active(g) /\ gstep' = [gstep EXCEPT ![g] = "error"]
        /\ UNCHANGED <<version, at, fd, drifted, file, tmp, data, overlapped>>
    BY <1>2 DEF Stop
  <2>2. OnlyOne' /\ \A h \in Gen \ {g} : Doing(h)'
    BY <1>0, <1>a, <2>1, OthersRest
  <2>3. Doing(g)'
    BY <1>0, <2>1 DEF Doing, DashgenTypeOK
  <2>4. Whole' /\ Apart'
    BY <1>a, <2>1 DEF Whole, Apart, Dir
  <2> QED  BY <2>2, <2>3, <2>4 DEF AloneInv
<1>3. ASSUME NEW g \in Gen, OpenTmp(g) PROVE AloneInv'
  <2>1. PICK i \in Inode : /\ IF tmp[at[g]] # Absent THEN i = tmp[at[g]] ELSE Unused(i)
                           /\ fd' = [fd EXCEPT ![g] = i]
                           /\ tmp' = [tmp EXCEPT ![at[g]] = i]
                           /\ data' = [data EXCEPT ![i] = Partial]
    BY <1>3 DEF OpenTmp
  <2>2. /\ gstep[g] = "open" /\ Active(g) /\ gstep' = [gstep EXCEPT ![g] = "write"]
        /\ version' = version /\ at' = at /\ drifted' = drifted /\ file' = file
    BY <1>3 DEF OpenTmp, Active, Done
  <2>3. OnlyOne' /\ \A h \in Gen \ {g} : Doing(h)'
    BY <1>0, <1>a, <2>2, OthersRest
  <2>4. at[g] \in Dir /\ \A t \in Dir : file[t] # i /\ (t # at[g] => tmp[t] # i)
    BY <1>0, <1>a, <2>1 DEF Apart, Unused, Named, DashgenTypeOK, Dir
  <2>5. ASSUME NEW t \in Dir, file[t] # Absent
        PROVE  data'[file[t]] = data[file[t]]
    BY <1>0, <2>1, <2>4, <2>5 DEF DashgenTypeOK, Name
  <2>6. Whole'
    BY <1>a, <2>2, <2>5 DEF Whole, Dir
  <2>7. Apart'
    <3>1. \A t \in Dir : tmp'[t] = IF t = at[g] THEN i ELSE tmp[t]
      BY <1>0, <2>1 DEF DashgenTypeOK
    <3> QED  BY <1>a, <2>2, <2>4, <3>1 DEF Apart
  <2>8. Doing(g)'
    <3>1. gstep'[g] = "write" /\ fd'[g] = i /\ tmp'[at[g]] = i /\ data'[i] = Partial
      BY <1>0, <2>1, <2>2, <2>4 DEF DashgenTypeOK
    <3>2. ~drifted[g] /\ \A t \in Dir : t < at[g] => Holds(t, version[g])
      BY <1>a, <2>2 DEF Doing
    <3>3. \A t \in Dir : t < at[g] => Holds(t, version[g])'
      BY <2>2, <2>5, <3>2 DEF Holds
    <3> QED  BY <2>2, <3>1, <3>2, <3>3 DEF Doing
  <2> QED  BY <2>3, <2>6, <2>7, <2>8 DEF AloneInv
<1>4. ASSUME NEW g \in Gen, WriteTmp(g) PROVE AloneInv'
  <2>1. /\ gstep[g] = "write" /\ Active(g) /\ gstep' = [gstep EXCEPT ![g] = "rename"]
        /\ version' = version /\ at' = at /\ drifted' = drifted /\ file' = file
        /\ fd' = fd /\ tmp' = tmp
    BY <1>4 DEF WriteTmp, Active, Done
  <2>2. fd[g] \in Inode /\ fd[g] = tmp[at[g]] /\ at[g] \in Dir /\ data[fd[g]] = Partial
    BY <1>0, <1>a, <2>1 DEF Doing, DashgenTypeOK
  <2>3. data' = [data EXCEPT ![fd[g]] = version[g]]
    BY <1>4, <2>2 DEF WriteTmp
  <2>4. OnlyOne' /\ \A h \in Gen \ {g} : Doing(h)'
    BY <1>0, <1>a, <2>1, OthersRest
  <2>5. ASSUME NEW t \in Dir, file[t] # Absent
        PROVE  data'[file[t]] = data[file[t]]
    BY <1>0, <1>a, <2>2, <2>3, <2>5, AbsentNoInode DEF DashgenTypeOK, Name, Apart
  <2>6. Whole' /\ Apart'
    BY <1>a, <2>1, <2>5 DEF Whole, Apart, Dir
  <2>7. Doing(g)'
    <3>1. gstep'[g] = "rename" /\ data'[fd[g]] = version[g]
      BY <1>0, <2>1, <2>2, <2>3 DEF DashgenTypeOK
    <3>2. ~drifted[g] /\ \A t \in Dir : t < at[g] => Holds(t, version[g])
      BY <1>a, <2>1 DEF Doing
    <3>3. \A t \in Dir : t < at[g] => Holds(t, version[g])'
      BY <2>1, <2>5, <3>2 DEF Holds
    <3> QED  BY <2>1, <2>2, <3>1, <3>2, <3>3 DEF Doing
  <2> QED  BY <2>4, <2>6, <2>7 DEF AloneInv
<1>5. ASSUME NEW g \in Gen, RenameTmp(g) PROVE AloneInv'
  <2>1. /\ gstep[g] = "rename" /\ Active(g) /\ tmp[at[g]] # Absent
        /\ file' = [file EXCEPT ![at[g]] = tmp[at[g]]]
        /\ tmp' = [tmp EXCEPT ![at[g]] = Absent]
        /\ fd' = [fd EXCEPT ![g] = Absent]
        /\ drifted' = drifted /\ version' = version /\ data' = data
    BY <1>5 DEF RenameTmp, Active, Done
  <2>2. /\ at[g] \in Dir /\ tmp[at[g]] = fd[g] /\ data[fd[g]] = version[g]
        /\ version[g] \in Version /\ ~drifted[g]
        /\ \A t \in Dir : t < at[g] => Holds(t, version[g])
    BY <1>0, <1>a, <2>1 DEF Doing, DashgenTypeOK
  <2>3. \A t \in Dir : /\ file'[t] = IF t = at[g] THEN tmp[at[g]] ELSE file[t]
                       /\ tmp'[t] = IF t = at[g] THEN Absent ELSE tmp[t]
    BY <1>0, <2>1 DEF DashgenTypeOK, Dir
  <2>4. Whole'
    BY <1>a, <2>1, <2>2, <2>3 DEF Whole, Dir
  <2>5. Apart'
    BY <1>a, <2>1, <2>2, <2>3 DEF Apart
  <2>6. PICK s : gstep' = [gstep EXCEPT ![g] = s]
    BY <1>5 DEF RenameTmp, Advance
  <2>7. \A h \in Gen \ {g} : at'[h] = at[h]
    BY <1>0, <1>5 DEF RenameTmp, Advance, DashgenTypeOK
  <2>8. OnlyOne' /\ \A h \in Gen \ {g} : Doing(h)'
    BY <1>0, <1>a, <2>1, <2>6, <2>7, OthersRest
  <2>9. \A t \in Dir : t < at[g] \/ t = at[g] => Holds(t, version[g])'
    BY <2>1, <2>2, <2>3 DEF Holds
  <2>10. Doing(g)'
    <3>1. CASE at[g] < Target
      <4>1. at'[g] = at[g] + 1 /\ gstep'[g] = "open"
        BY <1>0, <1>5, <3>1 DEF RenameTmp, Advance, DashgenTypeOK
      <4>2. \A t \in Dir : t < at[g] + 1 => t < at[g] \/ t = at[g]
        BY <2>2, DashgenAssumption DEF Dir
      <4> QED  BY <2>1, <2>2, <2>9, <4>1, <4>2 DEF Doing
    <3>2. CASE ~(at[g] < Target)
      <4>1. gstep'[g] \in {"ok", "drift"}
        BY <1>0, <1>5, <3>2 DEF RenameTmp, Advance, DashgenTypeOK
      <4> QED  BY <4>1 DEF Doing
    <3> QED  BY <3>1, <3>2
  <2> QED  BY <2>4, <2>5, <2>8, <2>10 DEF AloneInv
<1>6. ASSUME NEW g \in Gen, Compare(g) PROVE AloneInv'
  <2>1. /\ gstep[g] = "compare" /\ Active(g)
        /\ version' = version /\ file' = file /\ tmp' = tmp /\ data' = data
    BY <1>6 DEF Compare, Active, Done
  <2>2. /\ at[g] \in Dir
        /\ drifted'[g] <=> drifted[g] \/ ~Holds(at[g], version[g])
        /\ \A h \in Gen \ {g} : drifted'[h] <=> drifted[h]
    BY <1>0, <1>6 DEF Compare, DashgenTypeOK, Holds, Dir
  <2>3. PICK s : gstep' = [gstep EXCEPT ![g] = s]
    BY <1>6 DEF Compare, Advance
  <2>4. \A h \in Gen \ {g} : at'[h] = at[h]
    BY <1>0, <1>6 DEF Compare, Advance, DashgenTypeOK
  <2>5. OnlyOne' /\ \A h \in Gen \ {g} : Doing(h)'
    BY <1>0, <1>a, <2>1, <2>2, <2>3, <2>4, OthersRest
  <2>6. Whole' /\ Apart'
    BY <1>a, <2>1 DEF Whole, Apart, Dir
  <2>7. drifted'[g] <=> \E t \in Dir : (t < at[g] \/ t = at[g]) /\ ~Holds(t, version[g])
    BY <1>a, <2>1, <2>2 DEF Doing
  <2>8. Doing(g)'
    <3>1. CASE at[g] < Target
      <4>1. at'[g] = at[g] + 1 /\ gstep'[g] = "compare"
        BY <1>0, <1>6, <3>1 DEF Compare, Advance, DashgenTypeOK
      <4>2. \A t \in Dir : t < at[g] + 1 <=> t < at[g] \/ t = at[g]
        BY <2>2, DashgenAssumption DEF Dir
      <4>3. \A t \in Dir : Holds(t, version[g])' <=> Holds(t, version[g])
        BY <2>1 DEF Holds
      <4> QED  BY <2>1, <2>7, <4>1, <4>2, <4>3 DEF Doing
    <3>2. CASE ~(at[g] < Target)
      <4>1. gstep'[g] \in {"ok", "drift"}
        BY <1>0, <1>6, <3>2 DEF Compare, Advance, DashgenTypeOK
      <4> QED  BY <4>1 DEF Doing
    <3> QED  BY <3>1, <3>2
  <2> QED  BY <2>5, <2>6, <2>8 DEF AloneInv
<1>7. ASSUME UNCHANGED genVars PROVE AloneInv'
  BY <1>a, <1>7 DEF genVars, AloneInv, OnlyOne, Whole, Apart, Doing, Active, Holds
<1> QED  BY <1>0, <1>1, <1>2, <1>3, <1>4, <1>5, <1>6, <1>7 DEF DashgenNext

\* Lemma: the invariant holds initially.
LEMMA DashgenInvInit == DashgenInit => DashgenInv
<1> SUFFICES ASSUME DashgenInit PROVE DashgenInv
  OBVIOUS
<1>1. (CHOOSE v \in Version : TRUE) \in Version
  BY DashgenAssumption
<1>2. 1 \in Dir
  BY DashgenAssumption DEF Dir
<1>3. DashgenTypeOK
  BY <1>1, <1>2 DEF DashgenInit, DashgenTypeOK, Step, Done, Name, Dir
<1>4. AloneInv
  BY DEF DashgenInit, AloneInv, OnlyOne, Active, Whole, Apart, Doing, Dir
<1> QED  BY <1>3, <1>4 DEF DashgenInv

\* Theorem: the invariant holds in every state.
THEOREM DashgenInvariant == DashgenSpec => []DashgenInv
<1>1. DashgenInv /\ [DashgenNext]_genVars => DashgenInv'
  BY TypeStep, AloneStep DEF DashgenInv
<1> QED  BY <1>1, DashgenInvInit, PTL DEF DashgenSpec

\* Theorem: as long as runs do not overlap, no failure or kill at any step and
\* no temporary file left behind makes a target partial (writeAtomic).
THEOREM WholeWhileAloneHolds == DashgenSpec => []WholeWhileAlone
<1>1. DashgenInv => WholeWhileAlone
  BY DEF DashgenInv, AloneInv, WholeWhileAlone
<1> QED  BY <1>1, DashgenInvariant, PTL

\* What a run that ends tells of the directory.
Verdict(g) ==
  /\ gstep'[g] = "ok" => \A t \in 1..Target : Holds(t, version[g])'
  /\ gstep'[g] = "drift" => \E t \in 1..Target : ~Holds(t, version[g])'

\* Lemma: a run that is alone ends with a true verdict.
LEMMA HonestStep ==
  ASSUME DashgenInv, DashgenNext, NEW g \in Gen, Alone, Active(g)
  PROVE  Verdict(g)
<1> USE DEF Verdict
<1>0. DashgenTypeOK /\ AloneInv /\ Doing(g)
  BY DEF DashgenInv, AloneInv
<1>1. gstep[g] \notin {"ok", "drift"}
  BY DEF Active, Done
<1>2. CASE RenameTmp(g)
  <2>1. CASE at[g] < Target
    BY <1>0, <1>2, <2>1 DEF RenameTmp, Advance, DashgenTypeOK
  <2>2. CASE ~(at[g] < Target)
    <3>1. gstep'[g] = "ok"
      BY <1>0, <1>2, <2>2 DEF RenameTmp, Advance, DashgenTypeOK, Doing
    <3>2. at[g] \in Dir /\ \A t \in Dir : t < at[g] \/ t = at[g]
      BY <1>0, <2>2, DashgenAssumption DEF DashgenTypeOK, Dir
    <3>3. /\ gstep[g] = "rename" /\ tmp[at[g]] # Absent /\ data[tmp[at[g]]] = version[g]
          /\ \A t \in Dir : t < at[g] => Holds(t, version[g])
      BY <1>0, <1>2 DEF RenameTmp, Doing
    <3>4. /\ \A t \in Dir : file'[t] = IF t = at[g] THEN tmp[at[g]] ELSE file[t]
          /\ version' = version /\ data' = data
      BY <1>0, <1>2 DEF RenameTmp, DashgenTypeOK, Dir
    <3>5. \A t \in Dir : Holds(t, version[g])'
      BY <3>2, <3>3, <3>4 DEF Holds
    <3> QED  BY <3>1, <3>5 DEF Dir
  <2> QED  BY <2>1, <2>2
<1>3. CASE Compare(g)
  <2>1. CASE at[g] < Target
    BY <1>0, <1>3, <2>1 DEF Compare, Advance, DashgenTypeOK
  <2>2. CASE ~(at[g] < Target)
    <3>1. gstep'[g] = IF drifted'[g] THEN "drift" ELSE "ok"
      BY <1>0, <1>3, <2>2 DEF Compare, Advance, DashgenTypeOK
    <3>2. at[g] \in Dir /\ \A t \in Dir : t < at[g] \/ t = at[g]
      BY <1>0, <2>2, DashgenAssumption DEF DashgenTypeOK, Dir
    <3>3. drifted[g] <=> \E t \in Dir : t < at[g] /\ ~Holds(t, version[g])
      BY <1>0, <1>3 DEF Compare, Doing
    <3>4. drifted'[g] <=> drifted[g] \/ ~Holds(at[g], version[g])
      BY <1>0, <1>3 DEF Compare, DashgenTypeOK, Holds, Dir
    <3>5. \A t \in Dir : Holds(t, version[g])' <=> Holds(t, version[g])
      BY <1>3 DEF Compare, Holds
    <3>6. drifted'[g] <=> \E t \in Dir : ~Holds(t, version[g])'
      BY <3>2, <3>3, <3>4, <3>5
    <3> QED  BY <3>1, <3>6 DEF Dir
  <2> QED  BY <2>1, <2>2
<1>4. CASE ~RenameTmp(g) /\ ~Compare(g)
  BY <1>0, <1>1, <1>4 DEF DashgenNext, StartGenerate, Stop, OpenTmp, WriteTmp, RenameTmp, Compare,
                          Advance, DashgenTypeOK
<1> QED  BY <1>2, <1>3, <1>4

\* Theorem: the exit code of a run that overlapped no other tells the truth
\* about the whole directory (Generate, writeOrCompare).
THEOREM VerdictHonestHolds == DashgenSpec => VerdictHonest
<1>1. DashgenInv /\ [DashgenNext]_genVars
        => [\A g \in Gen : Alone /\ Active(g) => Verdict(g)]_genVars
  BY HonestStep
<1> QED  BY <1>1, DashgenInvariant, PTL DEF DashgenSpec, VerdictHonest, Verdict

-----------------------------------------------------------------------------
(* The refinement: a step of a run is a step of AtomicDir or a stutter.     *)

\* Lemma: a run that goes from one system call to another shows as Stage does.
LEMMA StagesStep ==
  ASSUME DashgenTypeOK, NEW g \in Gen, NEW s, gstep' = [gstep EXCEPT ![g] = s]
  PROVE  /\ Stages' = [Stages EXCEPT ![g] = Stage(s)]
         /\ Stage(s) = Stages[g] => Stages' = Stages
<1>1. \A h \in Gen : gstep'[h] = IF h = g THEN s ELSE gstep[h]
  BY DEF DashgenTypeOK
<1>2. \A h \in Gen : Stage(gstep'[h]) = IF h = g THEN Stage(s) ELSE Stage(gstep[h])
  BY <1>1
<1>3. Stages' = [h \in Gen |-> IF h = g THEN Stage(s) ELSE Stage(gstep[h])]
  BY <1>2 DEF Stages
<1>4. [Stages EXCEPT ![g] = Stage(s)] = [h \in Gen |-> IF h = g THEN Stage(s) ELSE Stage(gstep[h])]
  BY DEF Stages
<1>5. Stage(s) = Stages[g] => Stages' = Stages
  <2> SUFFICES ASSUME Stage(s) = Stage(gstep[g]) PROVE Stages' = Stages
    BY DEF Stages
  <2>1. \A h \in Gen : Stage(gstep'[h]) = Stage(gstep[h])
    BY <1>2
  <2> QED  BY <2>1 DEF Stages
<1> QED  BY <1>3, <1>4, <1>5

\* Lemma: a run is active where AtomicDir has it running.
LEMMA ActiveIsRunning ==
  DashgenTypeOK => \A g \in Gen : Active(g) <=> Atomic!Running(g)
  BY DEF DashgenTypeOK, Step, Active, Done, Atomic!Running, Stages, Stage

\* Lemma: a target holds a version where AtomicDir's register does, before and
\* after a step.
LEMMA HoldsIsContent ==
  /\ \A t \in Dir, v \in Version : Holds(t, v) <=> Contents[t] = {v}
  /\ \A t \in Dir, v \in Version : Holds(t, v)' <=> Contents'[t] = {v}
  BY DEF Dir, Holds, Contents

\* Lemma: AtomicDir's registers change only with the targets or what is behind them.
LEMMA ContentsKept ==
  ASSUME file' = file, \A t \in Dir : file[t] # Absent => data'[file[t]] = data[file[t]]
  PROVE  Contents' = Contents
<1>1. \A t \in Dir : (IF file'[t] # Absent THEN {data'[file'[t]]} ELSE {})
                   = (IF file[t] # Absent THEN {data[file[t]]} ELSE {})
  OBVIOUS
<1> QED  BY <1>1 DEF Contents, Dir

\* Lemma: what a run writes is behind no target, as long as it is alone.
LEMMA WritesApart ==
  ASSUME DashgenTypeOK, AloneInv, NEW g \in Gen, OpenTmp(g) \/ WriteTmp(g)
  PROVE  \A t \in Dir : file[t] # Absent => data'[file[t]] = data[file[t]]
<1>1. CASE OpenTmp(g)
  <2>1. PICK i \in Inode : /\ IF tmp[at[g]] # Absent THEN i = tmp[at[g]] ELSE Unused(i)
                           /\ data' = [data EXCEPT ![i] = Partial]
    BY <1>1 DEF OpenTmp
  <2>2. \A t \in Dir : file[t] # i
    BY <2>1 DEF AloneInv, Apart, Unused, Named, DashgenTypeOK, Dir
  <2> QED  BY <2>1, <2>2 DEF DashgenTypeOK, Name
<1>2. CASE WriteTmp(g)
  <2>1. /\ fd[g] \in Inode /\ fd[g] = tmp[at[g]] /\ at[g] \in Dir
        /\ \E r : data' = [data EXCEPT ![fd[g]] = r]
    BY <1>2 DEF WriteTmp, AloneInv, Doing, DashgenTypeOK
  <2>2. \A t \in Dir : file[t] # fd[g]
    BY <2>1, AbsentNoInode DEF AloneInv, Apart
  <2> QED  BY <2>1, <2>2 DEF DashgenTypeOK, Name
<1> QED  BY <1>1, <1>2

\* Lemma: the initial states are initial states of AtomicDir.
LEMMA AtomicInit == DashgenInit => Atomic!Init
<1> SUFFICES ASSUME DashgenInit PROVE Atomic!Init
  OBVIOUS
<1>1. (CHOOSE v \in Version : TRUE) \in Version
  BY DashgenAssumption
<1>2. version \in [Gen -> Version]
  BY <1>1 DEF DashgenInit
<1>3. Contents = [t \in 1..Target |-> {}]
  BY DEF DashgenInit, Contents
<1>4. Stages = [g \in Gen |-> "idle"]
  BY DEF DashgenInit, Stages, Stage
<1> QED  BY <1>2, <1>3, <1>4 DEF Atomic!Init

\* Lemma: until runs overlap, every step of a run is a step of AtomicDir or
\* leaves it as it is.
LEMMA AtomicStep ==
  DashgenInv /\ [DashgenNext]_genVars /\ Alone' => Atomic!Next \/ UNCHANGED Atomic!atomicVars
<1> SUFFICES ASSUME DashgenInv, [DashgenNext]_genVars, Alone'
             PROVE  Atomic!Next \/ UNCHANGED Atomic!atomicVars
  OBVIOUS
<1>0. DashgenTypeOK /\ Alone /\ AloneInv
  BY AloneStep DEF DashgenInv
<1>s. Contents' = Contents /\ Stages' = Stages /\ version' = version
        => UNCHANGED Atomic!atomicVars
  BY DEF Atomic!atomicVars
<1>1. ASSUME NEW g \in Gen, NEW mode \in {"write", "validate"}, NEW v \in Version,
             StartGenerate(g, mode, v)
      PROVE  Atomic!Start(g)
  <2>1. PICK s \in {"compare", "open"} : gstep' = [gstep EXCEPT ![g] = s]
    BY <1>1 DEF StartGenerate
  <2>2. Stages[g] = "idle" /\ \E s2 \in {"writing", "validating"} : Stages' = [Stages EXCEPT ![g] = s2]
    <3>1. Stage(s) \in {"writing", "validating"}
      BY DEF Stage
    <3>2. Stages[g] = "idle"
      BY <1>1 DEF StartGenerate, Stages, Stage
    <3> QED  BY <1>0, <2>1, <3>1, <3>2, StagesStep
  <2>3. version' = [version EXCEPT ![g] = v] /\ file' = file /\ data' = data
    BY <1>1 DEF StartGenerate
  <2>4. \A h \in Gen : ~Active(h)
    BY <1>1 DEF StartGenerate, Alone
  <2>5. \A h \in Gen : ~Atomic!Running(h)
    BY <1>0, <2>4, ActiveIsRunning
  <2>6. Contents' = Contents
    BY <2>3, ContentsKept
  <2> QED  BY <2>2, <2>3, <2>5, <2>6 DEF Atomic!Start
<1>2. ASSUME NEW g \in Gen, Stop(g) PROVE Atomic!Fail(g)
  <2>1. /\ Active(g) /\ gstep' = [gstep EXCEPT ![g] = "error"]
        /\ version' = version /\ file' = file /\ data' = data
    BY <1>2 DEF Stop
  <2>2. Stages' = [Stages EXCEPT ![g] = "error"]
    BY <1>0, <2>1, StagesStep DEF Stage
  <2>3. Atomic!Running(g) /\ Contents' = Contents
    BY <1>0, <2>1, ActiveIsRunning, ContentsKept
  <2> QED  BY <2>1, <2>2, <2>3 DEF Atomic!Fail
<1>3. ASSUME NEW g \in Gen, OpenTmp(g) \/ WriteTmp(g)
      PROVE  Contents' = Contents /\ Stages' = Stages /\ version' = version
  <2>1. /\ file' = file /\ version' = version /\ gstep[g] \in {"open", "write"}
        /\ \E s \in {"write", "rename"} : gstep' = [gstep EXCEPT ![g] = s]
    BY <1>3 DEF OpenTmp, WriteTmp
  <2>2. PICK s \in {"write", "rename"} : gstep' = [gstep EXCEPT ![g] = s]
    BY <2>1
  <2>3. Stage(s) = Stages[g]
    BY <2>1 DEF Stages, Stage
  <2>4. Stages' = Stages
    BY <1>0, <2>2, <2>3, StagesStep
  <2>5. Contents' = Contents
    BY <1>0, <1>3, <2>1, WritesApart, ContentsKept
  <2> QED  BY <2>1, <2>4, <2>5
<1>4. ASSUME NEW g \in Gen, RenameTmp(g) PROVE Atomic!Publish(g)
  <2>1. /\ gstep[g] = "rename" /\ Active(g) /\ at[g] \in Dir /\ tmp[at[g]] # Absent
        /\ \A t \in Dir : file'[t] = IF t = at[g] THEN tmp[at[g]] ELSE file[t]
        /\ version' = version /\ data' = data /\ version[g] \in Version
    BY <1>0, <1>4 DEF RenameTmp, Active, Done, DashgenTypeOK, Dir
  <2>2. PICK s \in {"open", "ok"} : gstep' = [gstep EXCEPT ![g] = s]
    <3>1. ~drifted[g]
      BY <1>0, <2>1 DEF AloneInv, Doing
    <3> QED  BY <1>0, <1>4, <3>1 DEF RenameTmp, Advance
  <2>3. /\ Stages[g] = "writing"
        /\ s = "open" => Stages' = Stages
        /\ s = "ok" => Stages' = [Stages EXCEPT ![g] = "ok"]
    <3>1. Stages[g] = "writing" /\ (s = "open" => Stage(s) = Stages[g]) /\ (s = "ok" => Stage(s) = "ok")
      BY <2>1 DEF Stages, Stage
    <3> QED  BY <1>0, <2>2, <3>1, StagesStep
  <2>4. tmp[at[g]] = fd[g] /\ data[fd[g]] = version[g]
    BY <1>0, <2>1 DEF AloneInv, Doing
  <2>5. \A t \in Dir :
          (IF file'[t] # Absent THEN {data'[file'[t]]} ELSE {})
            = IF t = at[g] THEN {version[g]}
              ELSE IF file[t] # Absent THEN {data[file[t]]} ELSE {}
    BY <2>1, <2>4
  <2>6. Contents' = [Contents EXCEPT ![at[g]] = {version[g]}]
    BY <2>1, <2>5 DEF Contents, Dir
  <2>7. Stages' = Stages \/ (Atomic!Uniform(version[g])' /\ Stages' = [Stages EXCEPT ![g] = "ok"])
    <3> SUFFICES ASSUME s = "ok" PROVE Atomic!Uniform(version[g])'
      BY <2>3
    <3>1. gstep'[g] = "ok"
      BY <1>0, <2>2 DEF DashgenTypeOK
    <3>2. \A t \in Dir : Holds(t, version[g])'
      BY <1>0, <1>4, <2>1, <3>1, HonestStep DEF Verdict, Dir, DashgenNext
    <3>3. \A t \in Dir : Contents'[t] = {version[g]}
      BY <2>1, <3>2, HoldsIsContent
    <3> QED  BY <2>1, <3>3 DEF Atomic!Uniform, Dir
  <2> QED  BY <2>1, <2>3, <2>6, <2>7 DEF Atomic!Publish, Dir
<1>5. ASSUME NEW g \in Gen, Compare(g)
      PROVE  Atomic!Judge(g) \/ (Contents' = Contents /\ Stages' = Stages /\ version' = version)
  <2>1. /\ gstep[g] = "compare" /\ Active(g) /\ version[g] \in Version
        /\ version' = version /\ file' = file /\ data' = data
    BY <1>0, <1>5 DEF Compare, Active, Done, DashgenTypeOK
  <2>2. PICK s \in {"compare", "drift", "ok"} : gstep' = [gstep EXCEPT ![g] = s]
    BY <1>5 DEF Compare, Advance
  <2>3. /\ Stages[g] = "validating"
        /\ s = "compare" => Stages' = Stages
        /\ s # "compare" => Stages' = [Stages EXCEPT ![g] = s]
    <3>1. Stages[g] = "validating" /\ (s = "compare" => Stage(s) = Stages[g]) /\ (s # "compare" => Stage(s) = s)
      BY <2>1 DEF Stages, Stage
    <3> QED  BY <1>0, <2>2, <3>1, StagesStep
  <2>4. Contents' = Contents
    BY <2>1, ContentsKept
  <2>5. CASE s = "compare"
    BY <2>1, <2>3, <2>4, <2>5
  <2>6. CASE s # "compare"
    <3>1. gstep'[g] = s
      BY <1>0, <2>2 DEF DashgenTypeOK
    <3>2. /\ s = "ok" => \A t \in Dir : Holds(t, version[g])'
          /\ s = "drift" => \E t \in Dir : ~Holds(t, version[g])'
      BY <1>0, <1>5, <2>1, <3>1, HonestStep DEF Verdict, Dir, DashgenNext
    <3>3. \A t \in Dir : Holds(t, version[g])' <=> Contents[t] = {version[g]}
      BY <2>1, <2>4, HoldsIsContent
    <3>4. s = IF Atomic!Uniform(version[g]) THEN "ok" ELSE "drift"
      BY <2>6, <3>2, <3>3 DEF Atomic!Uniform, Dir
    <3> QED  BY <2>1, <2>3, <2>4, <2>6, <3>4 DEF Atomic!Judge
  <2> QED  BY <2>5, <2>6
<1>6. ASSUME UNCHANGED genVars PROVE UNCHANGED Atomic!atomicVars
  BY <1>6 DEF genVars, Contents, Stages, Atomic!atomicVars
<1> QED  BY <1>1, <1>2, <1>3, <1>4, <1>5, <1>6, <1>s DEF DashgenNext, Atomic!Next

\* Theorem: for every number of targets, runs and versions, dashgen implements
\* AtomicDir until runs overlap: the directory behaves as one of registers that
\* a run replaces in one step each, and every result is true of all of them.
THEOREM AtomicWhileAloneHolds == DashgenSpec => AtomicWhileAlone
<1>1. DashgenInv /\ [DashgenNext]_genVars
        => [Alone' => Atomic!Next \/ UNCHANGED Atomic!atomicVars]_genVars
  BY AtomicStep
<1> QED  BY <1>1, AtomicInit, DashgenInvariant, PTL DEF DashgenSpec, AtomicWhileAlone

-----------------------------------------------------------------------------
(* The supply of inodes: a file system has as many as are asked for, Inode *)
(* has two for each target and one for each run.                           *)

\* A run about to create a temporary file finds an inode for it.
FindsInode ==
  \A g \in Gen : gstep[g] = "open" /\ tmp[at[g]] = Absent =>
    \E i \in Inode : Unused(i) /\ \A j \in Inode : Unused(j) => i <= j

HoldsNone == \A g \in Gen : gstep[g] \in {"idle", "open", "compare"} => fd[g] = Absent

\* Lemma: the values of a function are no more than its arguments.
LEMMA ValuesAtMost ==
  ASSUME NEW S, IsFiniteSet(S), NEW f
  PROVE  /\ IsFiniteSet({f[x] : x \in S})
         /\ Cardinality({f[x] : x \in S}) <= Cardinality(S)
<1> DEFINE T == {f[x] : x \in S}
<1> DEFINE onto == [x \in S |-> f[x]]
<1>1. onto \in Surjection(S, T)
  BY DEF Surjection
<1> HIDE DEF onto, T
<1>2. IsFiniteSet(T) /\ Cardinality(T) <= Cardinality(S)
  BY <1>1, FS_Surjection
<1> QED  BY <1>2 DEF T

\* Lemma: among any unused inodes there is a least one.
LEMMA LeastInode ==
  ASSUME NEW S \in SUBSET Nat, S # {}
  PROVE  \E i \in S : \A j \in S : i <= j
<1> DEFINE smaller == {ab \in Nat \X Nat : ab[1] < ab[2]}
<1>1. IsWellFoundedOn(smaller, Nat)
  BY NatLessThanWellFounded DEF OpToRel
<1> HIDE DEF smaller
<1>2. PICK i \in S : \A j \in S : ~ (<<j, i>> \in smaller)
  BY <1>1, WFMin
<1>3. \A j \in S : ~ (j < i)
  BY <1>2 DEF smaller
<1> QED  BY <1>3

\* Lemma: the names and open files of the others leave an inode over.
LEMMA InodeLeftOver ==
  ASSUME DashgenTypeOK, HoldsNone, NEW g \in Gen, gstep[g] = "open", tmp[at[g]] = Absent
  PROVE  \E i \in Inode : Unused(i)
<1> DEFINE others == Gen \ {g}
<1> DEFINE A == {file[t] : t \in Dir}
<1> DEFINE B == {tmp[t] : t \in Dir}
<1> DEFINE C == {fd[h] : h \in others}
<1>1. /\ IsFiniteSet(Dir) /\ Cardinality(Dir) = Target /\ Target \in Nat \ {0}
      /\ IsFiniteSet(Gen) /\ Cardinality(Gen) \in Nat
  <2>1. IsFiniteSet(1..Target) /\ Cardinality(1..Target) = Target
    BY DashgenAssumption, FS_Interval
  <2> QED  BY <2>1, DashgenAssumption, FS_CardinalityType DEF Dir
<1>2. IsFiniteSet(others) /\ Cardinality(others) = Cardinality(Gen) - 1
  BY <1>1, FS_RemoveElement
<1>3. IsFiniteSet(A) /\ Cardinality(A) <= Target
  BY <1>1, ValuesAtMost
<1>4. IsFiniteSet(B) /\ Cardinality(B) <= Target
  BY <1>1, ValuesAtMost
<1>5. IsFiniteSet(C) /\ Cardinality(C) <= Cardinality(Gen) - 1
  BY <1>2, ValuesAtMost
<1>6. /\ IsFiniteSet(Inode)
      /\ Cardinality(Inode) = 2 * Target + Cardinality(Gen)
  <2>1. 2 * Target + Cardinality(Gen) \in Int /\ 2 * Target + Cardinality(Gen) >= 1
    BY <1>1
  <2>2. /\ IsFiniteSet(1..(2 * Target + Cardinality(Gen)))
        /\ Cardinality(1..(2 * Target + Cardinality(Gen))) = 2 * Target + Cardinality(Gen)
    BY <2>1, FS_Interval
  <2> QED  BY <2>2 DEF Inode
<1>7. SUFFICES ASSUME \A i \in Inode : ~ Unused(i) PROVE FALSE
  OBVIOUS
<1>8. Inode \subseteq (A \cup B) \cup C
  <2> SUFFICES ASSUME NEW i \in Inode PROVE i \in (A \cup B) \cup C
    OBVIOUS
  <2>1. fd[g] # i
    BY AbsentNoInode DEF HoldsNone
  <2>2. (\E t \in Dir : file[t] = i \/ tmp[t] = i) \/ \E h \in Gen : fd[h] = i
    BY <1>7 DEF Unused, Named, Dir
  <2> QED  BY <2>1, <2>2
<1> HIDE DEF A, B, C, others
<1>9. /\ IsFiniteSet(A \cup B)
      /\ Cardinality(A \cup B) = Cardinality(A) + Cardinality(B) - Cardinality(A \cap B)
      /\ Cardinality(A) \in Nat /\ Cardinality(B) \in Nat /\ Cardinality(A \cap B) \in Nat
  <2>1. IsFiniteSet(A \cap B)
    BY <1>3, FS_Subset
  <2> QED  BY <1>3, <1>4, <2>1, FS_Union, FS_CardinalityType
<1>10. /\ IsFiniteSet((A \cup B) \cup C)
       /\ Cardinality((A \cup B) \cup C)
            = Cardinality(A \cup B) + Cardinality(C) - Cardinality((A \cup B) \cap C)
       /\ Cardinality(A \cup B) \in Nat /\ Cardinality(C) \in Nat
       /\ Cardinality((A \cup B) \cap C) \in Nat
  <2>1. IsFiniteSet((A \cup B) \cap C)
    BY <1>5, FS_Subset
  <2> QED  BY <1>5, <1>9, <2>1, FS_Union, FS_CardinalityType
<1>11. Cardinality(Inode) <= Cardinality((A \cup B) \cup C)
  BY <1>8, <1>10, FS_Subset
<1> QED  BY <1>1, <1>3, <1>4, <1>5, <1>6, <1>9, <1>10, <1>11

\* Theorem: the bound on inodes is no restriction: however runs overlap, fail
\* or are killed with a file open, the call of os.WriteFile that creates a
\* temporary file never has to wait for an inode of the model.
THEOREM InodesSuffice == DashgenSpec => []FindsInode
<1>1. DashgenInit => HoldsNone
  BY DEF DashgenInit, HoldsNone
<1>2. DashgenTypeOK /\ HoldsNone /\ [DashgenNext]_genVars => HoldsNone'
  <2> SUFFICES ASSUME DashgenTypeOK, HoldsNone, [DashgenNext]_genVars,
                      NEW g \in Gen, gstep'[g] \in {"idle", "open", "compare"}
               PROVE  fd'[g] = Absent
    BY DEF HoldsNone
  <2> USE DEF DashgenTypeOK, HoldsNone
  <2>1. ASSUME NEW h \in Gen, RenameTmp(h)
        PROVE  fd'[g] = Absent
    BY <2>1 DEF RenameTmp, Advance
  <2>2. ASSUME NEW h \in Gen, OpenTmp(h)
        PROVE  fd'[g] = Absent
    BY <2>2 DEF OpenTmp
  <2>3. ASSUME NEW h \in Gen, Compare(h)
        PROVE  fd'[g] = Absent
    BY <2>3 DEF Compare, Advance
  <2>4. ASSUME NEW h \in Gen, NEW mode \in {"write", "validate"}, NEW v \in Version,
               StartGenerate(h, mode, v)
        PROVE  fd'[g] = Absent
    BY <2>4 DEF StartGenerate
  <2>5. ASSUME NEW h \in Gen, Stop(h) \/ WriteTmp(h)
        PROVE  fd'[g] = Absent
    BY <2>5 DEF Stop, WriteTmp
  <2>6. CASE UNCHANGED genVars
    BY <2>6 DEF genVars
  <2> QED
    BY <2>1, <2>2, <2>3, <2>4, <2>5, <2>6 DEF DashgenNext
<1>3. DashgenTypeOK /\ HoldsNone => FindsInode
  <2> SUFFICES ASSUME DashgenTypeOK, HoldsNone, NEW g \in Gen,
                      gstep[g] = "open", tmp[at[g]] = Absent
               PROVE  \E i \in Inode : Unused(i) /\ \A j \in Inode : Unused(j) => i <= j
    BY DEF FindsInode
  <2> DEFINE left == {i \in Inode : Unused(i)}
  <2>1. left # {}
    BY InodeLeftOver
  <2>2. left \subseteq Nat
    BY DEF Inode
  <2> HIDE DEF left
  <2>3. \E i \in left : \A j \in left : i <= j
    BY <2>1, <2>2, LeastInode
  <2> QED  BY <2>3 DEF left
<1> QED
  BY <1>1, <1>2, <1>3, DashgenInvariant, PTL DEF DashgenSpec, DashgenInv
=============================================================================
