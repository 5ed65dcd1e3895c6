-------------------------- MODULE TelemetryProofs --------------------------
(***************************************************************************)
(* Proofs about Config and Telemetry, for every set of files, flags and    *)
(* environment and every set of spans.  The configuration half of the      *)
(* invariant relates the fold over the files (cfg, watches) to the files   *)
(* themselves; the tracing half says what a shutdown call that is no       *)
(* longer on the list has achieved.                                        *)
(***************************************************************************)
EXTENDS Telemetry, SequenceTheorems, FiniteSetTheorems, TLAPS

Early == {"discover", "decode"}

\* While files are read, cfg and watches are what the files read so far say.
WatchSet == {watches[k] : k \in DOMAIN watches}
SeenWatches == UNION {{ResolvedWatches(seen[i])[k] : k \in DOMAIN seen[i].watches} : i \in DOMAIN seen}

FoldOK ==
  stage \in Early =>
    /\ \A f \in Field : FilesSay(f, cfg[f])
    /\ WatchSet = SeenWatches

\* Load's error is there when the stage says so.
FailureOK == stage # "failed" => failure = "none"

ConfigInv == ConfigTypeOK /\ FoldOK /\ FailureOK /\ LayersRespected /\ RefusalsJustified /\ ValidatedIsUsable

\* Before Setup there is no tracing.
NotBuilt ==
  stage \in Early \cup {"loaded", "failed"} =>
    /\ on = {} /\ todo = {} /\ \A s \in Span : span[s] = "none"

\* What a shutdown call no longer on the list has achieved.
ExportersDown ==
  stage \in {"shutdown", "exited"} =>
    \A p \in on : <<"exporter", p>> \notin todo => p \notin up

ProcessorsDown ==
  stage \in {"shutdown", "exited"} /\ (~expired \/ firstErr = "none") =>
    \A p \in on : <<"processor", p>> \notin todo => p \in stopped /\ Waiting(p) = {}

TracingInv ==
  /\ NotBuilt /\ SplitAtEnd /\ ExportersDown /\ ProcessorsDown
  /\ stage = "exited" => todo = {}

IInv == TypeOK /\ ConfigInv /\ TracingInv

-----------------------------------------------------------------------------
(* Facts about the operators of Config *)

ResolvedWatch == [name : STRING, attrs : [WatchField -> Value]]

\* Lemma: a field is a block and an attribute of it.
LEMMA FieldParts ==
  ASSUME NEW f \in Field
  PROVE  f[1] \in Block /\ f[2] \in BlockFields[f[1]] /\ f = <<f[1], f[2]>>
  BY DEF Field

\* Lemma: what env() makes of a written value is a value.
LEMMA ResolveType ==
  ASSUME NEW v \in Written
  PROVE  Resolve(v) \in Value
  BY ConfigAssumption DEF Written, Resolve

\* Lemma: the shape of what a file holds.
LEMMA ContentsShape ==
  ASSUME NEW c \in Contents
  PROVE  /\ DOMAIN c.blocks \subseteq Block
         /\ \A b \in DOMAIN c.blocks : c.blocks[b] \in [BlockFields[b] -> Written]
         /\ c.watches \in Seq([name : STRING, attrs : [WatchField -> Written]])
  BY ConfigAssumption

\* Lemma: projecting a file onto a configuration gives a configuration.
LEMMA ProjectType ==
  ASSUME NEW c \in Contents, NEW old \in [Field -> Value]
  PROVE  Project(old, c) \in [Field -> Value]
<1>1. ASSUME NEW f \in Field, f[1] \in DOMAIN c.blocks
      PROVE  Resolve(c.blocks[f[1]][f[2]]) \in Value
  <2>1. c.blocks[f[1]] \in [BlockFields[f[1]] -> Written] /\ f[2] \in BlockFields[f[1]]
    BY <1>1, ContentsShape, FieldParts
  <2>2. c.blocks[f[1]][f[2]] \in Written
    BY <2>1
  <2> QED  BY <2>2, ResolveType
<1> QED  BY <1>1 DEF Project

\* Lemma: the watches of a file, with env() resolved.
LEMMA ResolvedWatchesType ==
  ASSUME NEW c \in Contents
  PROVE  /\ ResolvedWatches(c) \in Seq(ResolvedWatch)
         /\ DOMAIN ResolvedWatches(c) = DOMAIN c.watches
<1> DEFINE Raw == [name : STRING, attrs : [WatchField -> Written]]
<1>1. c.watches \in Seq(Raw)
  BY ContentsShape
<1> HIDE DEF Raw
<1>2. PICK n \in Nat : n = Len(c.watches) /\ DOMAIN c.watches = 1..n
  BY <1>1
<1>3. ASSUME NEW i \in 1..n PROVE ResolvedWatches(c)[i] \in ResolvedWatch
  <2>1. c.watches[i] \in Raw
    BY <1>1, <1>2
  <2>2. \A a \in WatchField : Resolve(c.watches[i].attrs[a]) \in Value
    BY <2>1, ResolveType DEF Raw
  <2>3. ResolvedWatches(c)[i] =
          [name |-> c.watches[i].name, attrs |-> [a \in WatchField |-> Resolve(c.watches[i].attrs[a])]]
    BY <1>2 DEF ResolvedWatches
  <2>4. [a \in WatchField |-> Resolve(c.watches[i].attrs[a])] \in [WatchField -> Value]
    BY <2>2
  <2>5. c.watches[i].name \in STRING
    BY <2>1 DEF Raw
  <2> QED  BY <2>3, <2>4, <2>5 DEF ResolvedWatch
<1>4. ResolvedWatches(c) \in [1..n -> ResolvedWatch]
  BY <1>2, <1>3 DEF ResolvedWatches
<1> QED  BY <1>2, <1>4, SeqDef

\* Lemma: a listing of the directory is a sequence of names.
LEMMA ListingsType == Listings \subseteq Seq(STRING)
<1> SUFFICES ASSUME NEW names \in Listings PROVE names \in Seq(STRING)
  OBVIOUS
<1> PICK n \in 0..Len(DirFiles) :
         \E x \in [1..n -> DOMAIN DirFiles] : names = [i \in 1..n |-> DirFiles[x[i]]]
  BY DEF Listings
<1> PICK at \in [1..n -> DOMAIN DirFiles] : names = [i \in 1..n |-> DirFiles[at[i]]]
  OBVIOUS
<1>1. DirFiles \in Seq(STRING) /\ n \in Nat
  BY ConfigAssumption
<1>2. \A i \in 1..n : DirFiles[at[i]] \in STRING
  BY <1>1
<1>3. [i \in 1..n |-> DirFiles[at[i]]] \in [1..n -> STRING]
  BY <1>2
<1> QED  BY <1>1, <1>3, SeqDef

\* Lemma: the last two merges give a configuration.
LEMMA FinalType ==
  ASSUME ConfigTypeOK
  PROVE  WithDefaults(WithFlags(cfg)) \in [Field -> Value]
<1>1. flags \in [Flagged -> Value]
  <2>1. Unset \in Value
    BY DEF Value
  <2>2. NoFlags \in [Flagged -> Value]
    BY <2>1 DEF NoFlags
  <2> QED  BY <2>2, ConfigAssumption DEF ConfigTypeOK
<1>2. WithFlags(cfg) \in [Field -> Value]
  BY <1>1 DEF WithFlags, ConfigTypeOK
<1>3. Dflt \in Value
  BY DEF Value
<1> QED  BY <1>2, <1>3 DEF WithDefaults

\* Lemma: whatever a value of the log block is, slog.go's cases list it when
\* validate.go's do, but for a format whose lower case is not what it folds to.
LEMMA ListsAgree ==
  ASSUME NEW f \in LogFields, NEW v \in Value, v # Unset, ~Refused(f, v),
         v \in Folded \/ LogName(f, v) \notin LoggerNames[f[2]]
  PROVE  f = <<"log", "format">> /\ v \in Folded
<1>1. f = <<"log", "format">> \/ f = <<"log", "level">>
  BY DEF LogFields, Fields, BlockFields
<1>2. LogName(f, v) \in ValidLog[f[2]] /\ LogName(f, v) \in LoggerNames[f[2]]
  BY <1>1 DEF Refused, ValidLog, LoggerNames
<1>3. v \in Folded
  BY <1>2
<1>4. v # Dflt /\ Spelling[v] = "json"
  BY <1>3, ConfigAssumption
<1>5. LogName(f, v) = "json"
  BY <1>4 DEF LogName
<1>6. f # <<"log", "level">>
  BY <1>2, <1>5 DEF ValidLog
<1> QED  BY <1>1, <1>3, <1>6

\* Lemma: the files say one thing of a field.
LEMMA FilesSayOne ==
  ASSUME seen \in Seq(Contents), NEW f, NEW v, NEW w, FilesSay(f, v), FilesSay(f, w)
  PROVE  v = w
<1>1. DOMAIN seen \subseteq Int
  OBVIOUS
<1>2. \A i, j \in DOMAIN seen : DeclaredLastIn(f, i) /\ DeclaredLastIn(f, j) => i = j
  BY <1>1 DEF DeclaredLastIn
<1>3. \A i \in DOMAIN seen : DeclaredLastIn(f, i) => f[1] \in DOMAIN seen[i].blocks
  BY DEF DeclaredLastIn
<1> QED  BY <1>2, <1>3 DEF FilesSay

\* Lemma: so do all the layers.
LEMMA LayersSayOne ==
  ASSUME seen \in Seq(Contents), NEW f, NEW v, NEW w, LayersSay(f, v), LayersSay(f, w)
  PROVE  v = w
  BY FilesSayOne DEF LayersSay

\* Lemma: the last two merges do to the fold what the layers say.
LEMMA FinalSays ==
  ASSUME ConfigTypeOK, NEW f \in Field, FilesSay(f, cfg[f])
  PROVE  LayersSay(f, WithDefaults(WithFlags(cfg))[f])
<1>1. WithDefaults(WithFlags(cfg))[f] =
        IF f \in Defaulted /\ WithFlags(cfg)[f] = Unset THEN Dflt ELSE WithFlags(cfg)[f]
  BY DEF WithDefaults
<1>2. WithFlags(cfg)[f] = IF f \in Flagged /\ flags[f] # Unset THEN flags[f] ELSE cfg[f]
  BY DEF WithFlags
<1>3. cfg[f] \in Value
  BY DEF ConfigTypeOK
<1> QED  BY <1>1, <1>2, <1>3 DEF LayersSay

-----------------------------------------------------------------------------
(* Loading keeps the configuration half of the invariant *)

\* Lemma: the shapes.
LEMMA ConfigTypeStep == ConfigTypeOK /\ ConfigNext => ConfigTypeOK'
<1> SUFFICES ASSUME ConfigTypeOK, ConfigNext PROVE ConfigTypeOK'
  OBVIOUS
<1>1. ASSUME Discover PROVE ConfigTypeOK'
  <2>1. pending' \in Seq(STRING)
    <3>1. CASE Refuse("read file")
      BY <3>1 DEF Refuse, ConfigTypeOK
    <3>2. ASSUME NEW names \in Listings, pending' = names \o Paths
          PROVE  pending' \in Seq(STRING)
      <4>1. names \in Seq(STRING) /\ Paths \in Seq(STRING)
        BY ListingsType, ConfigAssumption
      <4> QED  BY <3>2, <4>1
    <3> QED  BY <1>1, <3>1, <3>2 DEF Discover
  <2> QED  BY <1>1, <2>1 DEF Discover, Refuse, ConfigTypeOK
<1>2. ASSUME NEW c \in Contents, ReadFile(c) PROVE ConfigTypeOK'
  <2>1. cfg' \in [Field -> Value]
    BY <1>2, ProjectType DEF ReadFile, ConfigTypeOK
  <2>2. watches' \in Seq(ResolvedWatch)
    <3>1. watches \in Seq(ResolvedWatch)
      BY DEF ConfigTypeOK, ResolvedWatch
    <3> QED  BY <1>2, <3>1, ResolvedWatchesType DEF ReadFile
  <2>3. pending' \in Seq(STRING)
    <3>1. pending \in Seq(STRING) /\ pending # <<>> /\ pending' = Tail(pending)
      BY <1>2 DEF ReadFile, ConfigTypeOK
    <3>2. Tail(pending) \in Seq(STRING)
      BY <3>1, HeadTailProperties, Zenon
    <3> QED  BY <3>1, <3>2
  <2>4. seen' \in Seq(Contents)
    <3>1. seen \in Seq(Contents) /\ seen' = Append(seen, c)
      BY <1>2 DEF ReadFile, ConfigTypeOK
    <3> QED  BY <3>1
  <2> QED  BY <1>2, <2>1, <2>2, <2>3, <2>4 DEF ReadFile, ConfigTypeOK, ResolvedWatch
<1>3. ASSUME NEW err \in {"read file", "parse", "decode"}, Refuse(err) PROVE ConfigTypeOK'
  BY <1>3 DEF Refuse, ConfigTypeOK
<1>4. ASSUME FinishLoad PROVE ConfigTypeOK'
  <2>1. WithDefaults(WithFlags(cfg)) \in [Field -> Value]
    BY FinalType
  <2>2. cfg' \in [Field -> Value]
    BY <1>4, <2>1 DEF FinishLoad, ConfigTypeOK
  <2>3. failure' \in {"none", "read file", "parse", "decode", "invalid", "install slog"}
    BY <1>4 DEF FinishLoad, ConfigTypeOK
  <2> QED  BY <1>4, <2>2, <2>3 DEF FinishLoad, ConfigTypeOK
<1> QED  BY <1>1, <1>2, <1>3, <1>4 DEF ConfigNext, FileUnreadable, FileUnparsable, FileUndecodable

\* Lemma: reading one more file keeps the fold in step with the files read.
LEMMA ReadFileFold ==
  ASSUME ConfigInv, NEW c \in Contents, ReadFile(c)
  PROVE  FoldOK'
<1>0. /\ seen \in Seq(Contents) /\ stage \in Early /\ FoldOK
      /\ cfg' = Project(cfg, c) /\ watches' = watches \o ResolvedWatches(c)
      /\ seen' = Append(seen, c)
  BY DEF ConfigInv, ConfigTypeOK, ReadFile, Early
<1>1. /\ DOMAIN seen = 1..Len(seen) /\ Len(seen) \in Nat
      /\ DOMAIN seen' = 1..(Len(seen) + 1)
      /\ \A i \in DOMAIN seen : seen'[i] = seen[i]
      /\ seen'[Len(seen) + 1] = c
  BY <1>0
<1>2. ASSUME NEW f \in Field PROVE FilesSay(f, cfg[f])'
  <2>1. CASE f[1] \in DOMAIN c.blocks
    <3>1. cfg'[f] = Resolve(c.blocks[f[1]][f[2]])
      BY <1>0, <2>1 DEF Project
    <3>2. PICK m \in Nat : m = Len(seen) + 1
      BY <1>1
    <3>3. DeclaredLastIn(f, m)'
      BY <1>1, <2>1, <3>2 DEF DeclaredLastIn
    <3> QED  BY <1>1, <3>1, <3>2, <3>3 DEF FilesSay
  <2>2. CASE f[1] \notin DOMAIN c.blocks
    <3>1. cfg'[f] = cfg[f] /\ FilesSay(f, cfg[f])
      BY <1>0, <2>2 DEF Project, FoldOK
    <3>2. CASE (\A i \in DOMAIN seen : f[1] \notin DOMAIN seen[i].blocks) /\ cfg[f] = Defaults[f]
      <4>1. \A i \in DOMAIN seen' : f[1] \notin DOMAIN seen'[i].blocks
        BY <1>1, <2>2, <3>2
      <4> QED  BY <3>1, <3>2, <4>1 DEF FilesSay
    <3>3. ASSUME NEW i \in DOMAIN seen, DeclaredLastIn(f, i),
                 cfg[f] = Resolve(seen[i].blocks[f[1]][f[2]])
          PROVE  FilesSay(f, cfg[f])'
      <4>1. i \in DOMAIN seen' /\ seen'[i] = seen[i]
        BY <1>1
      <4>2. DeclaredLastIn(f, i)'
        BY <1>1, <2>2, <3>3, <4>1 DEF DeclaredLastIn
      <4> QED  BY <3>1, <3>3, <4>1, <4>2 DEF FilesSay
    <3> QED  BY <3>1, <3>2, <3>3 DEF FilesSay
  <2> QED  BY <2>1, <2>2
<1>3. WatchSet' = SeenWatches'
  <2> DEFINE r == ResolvedWatches(c)
  <2>1. watches \in Seq(ResolvedWatch) /\ r \in Seq(ResolvedWatch) /\ DOMAIN r = DOMAIN c.watches
    BY ResolvedWatchesType DEF ConfigInv, ConfigTypeOK, ResolvedWatch
  <2> HIDE DEF r
  <2>2. WatchSet' = WatchSet \cup {r[k] : k \in DOMAIN r}
    <3>0. watches' = watches \o r
      BY <1>0 DEF r
    <3>1. /\ DOMAIN watches = 1..Len(watches) /\ DOMAIN r = 1..Len(r)
          /\ DOMAIN watches' = 1..(Len(watches) + Len(r))
          /\ Len(watches) \in Nat /\ Len(r) \in Nat
      BY <2>1, <3>0
    <3>2. \A k \in DOMAIN watches : k \in DOMAIN watches' /\ watches'[k] = watches[k]
      BY <2>1, <3>0, <3>1
    <3>3. \A k \in DOMAIN r : Len(watches) + k \in DOMAIN watches' /\ watches'[Len(watches) + k] = r[k]
      BY <2>1, <3>0, <3>1
    <3>4. \A k \in DOMAIN watches' :
            k \in DOMAIN watches \/ (k - Len(watches) \in DOMAIN r /\ k = Len(watches) + (k - Len(watches)))
      BY <3>1
    <3> QED  BY <3>2, <3>3, <3>4 DEF WatchSet
  <2>3. SeenWatches' = SeenWatches \cup {r[k] : k \in DOMAIN c.watches}
    <3> DEFINE Of(q) == {ResolvedWatches(q)[k] : k \in DOMAIN q.watches}
    <3>1. /\ SeenWatches = UNION {Of(seen[i]) : i \in DOMAIN seen}
          /\ SeenWatches' = UNION {Of(seen'[i]) : i \in DOMAIN seen'}
      BY DEF SeenWatches
    <3>2. Of(c) = {r[k] : k \in DOMAIN c.watches}
      BY DEF r
    <3> HIDE DEF Of
    <3>3. UNION {Of(seen'[i]) : i \in DOMAIN seen'} =
            (UNION {Of(seen[i]) : i \in DOMAIN seen}) \cup Of(c)
      BY <1>1
    <3> QED  BY <3>1, <3>2, <3>3
  <2> QED  BY <1>0, <2>1, <2>2, <2>3 DEF FoldOK
<1> QED  BY <1>2, <1>3 DEF FoldOK

\* What RefusalsJustified compares the problems with.
BadFields == {f \in Validated : \E v \in Value : Refused(f, v) /\ LayersSay(f, v)}
Marks(w) == {<<w.name, a>> : a \in {x \in WatchField : WatchProblem(w, x)}}
BadWatches == UNION {Marks(w) : w \in SeenWatches}

\* Lemma: the marks of the watches read, file by file.
LEMMA BadWatchesByFile ==
  BadWatches =
    UNION {UNION {{<<seen[i].watches[k].name, a>> :
             a \in {x \in WatchField : WatchProblem(ResolvedWatches(seen[i])[k], x)}} :
             k \in DOMAIN seen[i].watches} : i \in DOMAIN seen}
<1>1. \A i \in DOMAIN seen : \A k \in DOMAIN seen[i].watches :
        {<<seen[i].watches[k].name, a>> :
           a \in {x \in WatchField : WatchProblem(ResolvedWatches(seen[i])[k], x)}}
          = Marks(ResolvedWatches(seen[i])[k])
  BY DEF Marks, ResolvedWatches
<1> QED  BY <1>1 DEF BadWatches, SeenWatches

\* Lemma: the fields that are validated are fields, and the logger's are among them.
LEMMA ValidatedFields == Validated \subseteq Field /\ Fields("log", BlockFields.log) \subseteq Validated
<1>1. Fields("log", BlockFields.log) \subseteq Validated
  BY DEF Validated
<1>2. Validated \subseteq Field
  BY DEF Validated, Fields, Field, Block, BlockFields
<1> QED  BY <1>1, <1>2

\* Lemma: what Load reports is what the layers and the watches warrant.
LEMMA FoundIsJustified ==
  ASSUME ConfigTypeOK, stage = "decode", FoldOK
  PROVE  Problems(WithDefaults(WithFlags(cfg)), watches) = BadFields \cup BadWatches
<1> DEFINE final == WithDefaults(WithFlags(cfg))
<1>1. \A f \in Validated : LayersSay(f, final[f])
  BY FinalSays, ValidatedFields DEF FoldOK, Early
<1>2. \A f \in Validated : Refused(f, final[f]) <=> \E v \in Value : Refused(f, v) /\ LayersSay(f, v)
  <2>1. \A f \in Validated : final[f] \in Value
    BY FinalType, ValidatedFields
  <2> QED  BY <1>1, <2>1, LayersSayOne DEF ConfigTypeOK
<1>3. UNION {Marks(watches[i]) : i \in DOMAIN watches} = UNION {Marks(w) : w \in WatchSet}
  BY DEF WatchSet
<1>4. WatchSet = SeenWatches
  BY DEF FoldOK, Early
<1> QED  BY <1>2, <1>3, <1>4 DEF Problems, Marks, BadFields, BadWatches

\* Lemma: the end of Load.
LEMMA FinishLoadKeeps ==
  ASSUME ConfigInv, FinishLoad
  PROVE  ConfigInv'
<1> DEFINE final == WithDefaults(WithFlags(cfg))
<1>0. /\ ConfigTypeOK /\ FoldOK /\ stage = "decode" /\ failure = "none"
      /\ seen' = seen /\ flags' = flags /\ watches' = watches
      /\ problems' = Problems(final, watches)
  BY DEF ConfigInv, FinishLoad, FailureOK
<1>1. problems' = BadFields \cup BadWatches
  BY <1>0, FoundIsJustified
<1>2. \A f, v : LayersSay(f, v)' <=> LayersSay(f, v)
  BY <1>0 DEF LayersSay, FilesSay, DeclaredLastIn
<1>3. {f \in Validated : \E v \in Value : Refused(f, v) /\ LayersSay(f, v)'} = BadFields
  BY <1>2 DEF BadFields
<1>4. LoggerRefuses(final) /\ problems' = {} => final[<<"log", "format">>] \in Folded
  <2> SUFFICES ASSUME LoggerRefuses(final), problems' = {} PROVE final[<<"log", "format">>] \in Folded
    OBVIOUS
  <2>1. LogFields \subseteq Validated /\ LogFields \subseteq Field
    BY ValidatedFields DEF LogFields
  <2>2. PICK f \in LogFields :
          final[f] # Unset /\ (final[f] \in Folded \/ LogName(f, final[f]) \notin LoggerNames[f[2]])
    BY DEF LoggerRefuses
  <2>3. final[f] \in Value
    BY <1>0, <2>1, <2>2, FinalType
  <2>4. ~Refused(f, final[f])
    BY <1>0, <2>1, <2>2 DEF Problems
  <2> HIDE DEF final
  <2> QED  BY <2>2, <2>3, <2>4, ListsAgree
<1>5. \/ problems' = {} /\ stage' = "loaded" /\ failure' = "none" /\ cfg' = final
      \/ problems' # {} /\ stage' = "failed" /\ failure' = "invalid"
      \/ /\ problems' = {} /\ stage' = "failed" /\ failure' = "install slog" /\ cfg' = final
         /\ final[<<"log", "format">>] \in Folded
  BY <1>0, <1>4 DEF FinishLoad
<1>6. LayersRespected'
  <2>1. ASSUME NEW f \in Field, stage' = "loaded" PROVE LayersSay(f, cfg[f])'
    <3>1. LayersSay(f, final[f]) /\ cfg'[f] = final[f]
      BY <1>0, <1>5, <2>1, FinalSays DEF FoldOK, Early
    <3> QED  BY <1>0, <3>1 DEF LayersSay, FilesSay, DeclaredLastIn
  <2> QED  BY <2>1 DEF LayersRespected
<1>7. RefusalsJustified'
  <2>1. /\ failure' = "invalid" => problems' = BadFields \cup BadWatches /\ problems' # {}
        /\ stage' = "loaded" => BadFields = {} /\ BadWatches = {}
    BY <1>1, <1>5
  <2> QED  BY <1>0, <1>3, <2>1, BadWatchesByFile DEF RefusalsJustified
<1>8. ConfigTypeOK'
  BY <1>0, ConfigTypeStep DEF ConfigNext
<1> QED  BY <1>5, <1>6, <1>7, <1>8 DEF ConfigInv, FoldOK, FailureOK, Early, ValidatedIsUsable

\* Lemma: every step of Load keeps the configuration half.
LEMMA LoadKeeps == ConfigInv /\ ConfigNext => ConfigInv'
<1> SUFFICES ASSUME ConfigInv, ConfigNext PROVE ConfigInv'
  OBVIOUS
<1>0. ConfigTypeOK' /\ ConfigTypeOK /\ FoldOK /\ (stage \in Early => failure = "none")
  BY ConfigTypeStep DEF ConfigInv, FailureOK, Early
<1>1. ASSUME stage' \in Early, failure' = "none", FoldOK' PROVE ConfigInv'
  BY <1>0, <1>1 DEF ConfigInv, FailureOK, LayersRespected, RefusalsJustified, ValidatedIsUsable, Early
<1>2. ASSUME Discover PROVE ConfigInv'
  <2>1. CASE Refuse("read file")
    BY <1>0, <2>1 DEF Refuse, ConfigInv, FoldOK, FailureOK, LayersRespected, RefusalsJustified,
                      ValidatedIsUsable, Early
  <2>2. CASE stage' = "decode" /\ UNCHANGED <<flags, cfg, watches, problems, failure, seen>>
    <3>1. FoldOK'
      <4>1. \A f \in Field : FilesSay(f, cfg[f])
        BY <1>0, <1>2 DEF Discover, FoldOK, Early
      <4>2. \A f \in Field : FilesSay(f, cfg[f])'
        BY <2>2, <4>1 DEF FilesSay, DeclaredLastIn
      <4>3. WatchSet' = WatchSet /\ SeenWatches' = SeenWatches
        BY <2>2 DEF WatchSet, SeenWatches
      <4>4. WatchSet = SeenWatches
        BY <1>0, <1>2 DEF Discover, FoldOK, Early
      <4> QED  BY <4>2, <4>3, <4>4 DEF FoldOK
    <3> QED  BY <1>0, <1>1, <1>2, <2>2, <3>1 DEF Discover, Early
  <2> QED  BY <1>2, <2>1, <2>2 DEF Discover
<1>3. ASSUME NEW c \in Contents, ReadFile(c) PROVE ConfigInv'
  <2>1. stage' \in Early /\ failure' = "none"
    BY <1>0, <1>3 DEF ReadFile, Early
  <2> QED  BY <1>1, <1>3, <2>1, ReadFileFold
<1>4. ASSUME NEW err \in {"read file", "parse", "decode"}, Refuse(err) PROVE ConfigInv'
  BY <1>0, <1>4 DEF Refuse, ConfigInv, FoldOK, FailureOK, LayersRespected, RefusalsJustified,
                    ValidatedIsUsable, Early
<1>5. ASSUME FinishLoad PROVE ConfigInv'
  BY <1>5, FinishLoadKeeps
<1> QED  BY <1>2, <1>3, <1>4, <1>5 DEF ConfigNext, FileUnreadable, FileUnparsable, FileUndecodable

\* Lemma: the configuration half depends on the variables of Config only.
LEMMA ConfigKept == ConfigInv /\ UNCHANGED configVars => ConfigInv'
<1> SUFFICES ASSUME ConfigInv, UNCHANGED configVars PROVE ConfigInv'
  OBVIOUS
<1>1. /\ stage' = stage /\ flags' = flags /\ pending' = pending /\ cfg' = cfg /\ watches' = watches
      /\ problems' = problems /\ failure' = failure /\ seen' = seen
  BY DEF configVars
<1>2. ConfigTypeOK' /\ FailureOK' /\ ValidatedIsUsable'
  BY <1>1 DEF ConfigInv, ConfigTypeOK, FailureOK, ValidatedIsUsable
<1>3. FoldOK' /\ LayersRespected'
  <2>1. \A f \in Field : /\ FilesSay(f, cfg[f])' <=> FilesSay(f, cfg[f])
                         /\ LayersSay(f, cfg[f])' <=> LayersSay(f, cfg[f])
    BY <1>1 DEF LayersSay, FilesSay, DeclaredLastIn
  <2>2. WatchSet' = WatchSet /\ SeenWatches' = SeenWatches
    BY <1>1 DEF WatchSet, SeenWatches
  <2> QED  BY <1>1, <2>1, <2>2 DEF ConfigInv, FoldOK, LayersRespected
<1>4. RefusalsJustified'
  <2>1. {f \in Validated : \E v \in Value : Refused(f, v) /\ LayersSay(f, v)'}
          = {f \in Validated : \E v \in Value : Refused(f, v) /\ LayersSay(f, v)}
    BY <1>1 DEF LayersSay, FilesSay, DeclaredLastIn
  <2> QED  BY <1>1, <2>1 DEF ConfigInv, RefusalsJustified
<1> QED  BY <1>2, <1>3, <1>4 DEF ConfigInv

\* Lemma: once a process is past loading, only the shapes matter.
LEMMA ConfigLeft ==
  ASSUME ConfigInv, stage \in {"loaded", "running", "shutdown"},
         stage' \in {"failed", "running", "shutdown", "exited"}, failure' = failure, ConfigTypeOK'
  PROVE  ConfigInv'
  BY DEF ConfigInv, FoldOK, FailureOK, LayersRespected, RefusalsJustified, ValidatedIsUsable, Early

-----------------------------------------------------------------------------
(* Every step keeps the tracing half *)

\* Lemma: loading touches nothing of tracing.
LEMMA ConfigureKeeps == IInv /\ Configure => IInv'
<1> SUFFICES ASSUME IInv, Configure PROVE IInv'
  OBVIOUS
<1>1. ConfigInv'
  BY LoadKeeps DEF IInv, Configure
<1>2. stage \in Early /\ stage' \in Early \cup {"loaded", "failed"}
  BY DEF Configure, ConfigNext, Discover, Refuse, ReadFile, FileUnreadable, FileUnparsable,
         FileUndecodable, FinishLoad, Early
<1>3. UNCHANGED telemetryVars
  BY DEF Configure
<1>4. TypeOK'
  BY <1>1, <1>2, <1>3 DEF IInv, TypeOK, ConfigInv, telemetryVars, Early
<1>5. TracingInv'
  BY <1>2, <1>3 DEF IInv, TracingInv, NotBuilt, SplitAtEnd, ExportersDown, ProcessorsDown,
                    telemetryVars, Early
<1> QED  BY <1>1, <1>4, <1>5 DEF IInv

\* Lemma: Setup builds the pipelines, or fails.
LEMMA SetupKeeps ==
  ASSUME IInv, (\E b \in BOOLEAN : Setup(b)) \/ SetupFails
  PROVE  IInv'
<1>0. TypeOK /\ ConfigInv /\ TracingInv
  BY DEF IInv
<1>1. ASSUME NEW b \in BOOLEAN, Setup(b) PROVE IInv'
  <2>1. /\ stage = "loaded" /\ stage' = "running" /\ failure' = failure /\ pending' = pending
        /\ on' \subseteq Pipeline /\ up' = on' /\ ratio' \in {"all", "some"}
        /\ flags' = NoFlags /\ cfg' = Defaults /\ watches' = <<>> /\ seen' = <<>>
    BY <1>1 DEF Setup, Pipeline
  <2>2. /\ fate' = fate /\ stopped' = stopped /\ span' = span /\ sampled' = sampled
        /\ category' = category /\ todo' = todo /\ expired' = expired
        /\ firstErr' = firstErr /\ owed' = owed
    BY <1>1 DEF Setup, spanVars, downVars
  <2>3. ConfigTypeOK'
    <3>1. Defaults \in [Field -> Value]
      BY DEF Defaults, Value
    <3>2. /\ <<>> \in Seq([name : STRING, attrs : [WatchField -> Value]])
          /\ <<>> \in Seq(Contents)
      OBVIOUS
    <3> QED  BY <1>0, <2>1, <3>1, <3>2 DEF TypeOK, ConfigTypeOK
  <2>4. ConfigInv'
    BY <1>0, <2>1, <2>3, ConfigLeft
  <2>5. on = {} /\ todo = {} /\ \A s \in Span : span[s] = "none"
    BY <1>0, <2>1 DEF TracingInv, NotBuilt
  <2>6. TypeOK'
    BY <1>0, <2>1, <2>2, <2>3, <2>5 DEF TypeOK
  <2>7. SplitAtEnd'
    BY <1>0, <2>2, <2>5 DEF TracingInv, SplitAtEnd
  <2>8. TracingInv'
    BY <2>1, <2>7 DEF TracingInv, NotBuilt, ExportersDown, ProcessorsDown, Early
  <2> QED  BY <2>4, <2>6, <2>8 DEF IInv
<1>2. ASSUME SetupFails PROVE IInv'
  <2>1. /\ stage = "loaded" /\ stage' = "failed" /\ failure' = failure
        /\ UNCHANGED <<flags, pending, cfg, watches, problems, seen>>
        /\ UNCHANGED telemetryVars
    BY <1>2 DEF SetupFails
  <2>2. TypeOK'
    BY <1>0, <2>1 DEF TypeOK, ConfigTypeOK, telemetryVars
  <2>3. ConfigInv'
    BY <1>0, <2>1, <2>2, ConfigLeft DEF TypeOK
  <2>4. TracingInv'
    BY <1>0, <2>1 DEF TracingInv, NotBuilt, SplitAtEnd, ExportersDown, ProcessorsDown, telemetryVars, Early
  <2> QED  BY <2>2, <2>3, <2>4 DEF IInv
<1> QED  BY <1>1, <1>2

\* Lemma: spans start, are tagged, end, are collected and exported.
LEMMA SpanStepKeeps ==
  ASSUME IInv,
         \/ \E s \in Span : StartSpan(s) \/ EndSpan(s)
         \/ \E s \in Span, c \in Category \ {"none"} : SetCategory(s, c)
         \/ \E p \in Pipeline, s \in Span : Collect(p, s)
         \/ \E p \in Pipeline : Export(p)
  PROVE  IInv'
<1>0. TypeOK /\ ConfigInv /\ NotBuilt /\ SplitAtEnd /\ ExportersDown /\ ProcessorsDown
  BY DEF IInv, TracingInv
<1>1. /\ UNCHANGED configVars /\ Alive /\ stage' = stage
      /\ on' = on /\ ratio' = ratio /\ up' = up /\ stopped' = stopped
      /\ todo' = todo /\ expired' = expired /\ firstErr' = firstErr /\ owed' = owed
  BY DEF StartSpan, EndSpan, SetCategory, Collect, Export, configVars, pipeVars, downVars
<1>2. ConfigInv' /\ ConfigTypeOK'
  BY <1>0, <1>1, ConfigKept DEF ConfigInv
<1>3. NotBuilt' /\ ExportersDown' /\ (stage' = "exited" => todo' = {})
  BY <1>0, <1>1 DEF NotBuilt, ExportersDown, Alive, Early
<1>4. ASSUME span' \in [Span -> {"none", "open", "ended"}], sampled' \subseteq Span,
             category' \in [Span -> Category], fate' \in [Pipeline -> [Span -> Fate]],
             SplitAtEnd', ProcessorsDown'
      PROVE  IInv'
  BY <1>0, <1>1, <1>2, <1>3, <1>4 DEF IInv, TypeOK, TracingInv
<1>5. /\ span \in [Span -> {"none", "open", "ended"}] /\ sampled \subseteq Span
      /\ category \in [Span -> Category] /\ fate \in [Pipeline -> [Span -> Fate]]
  BY <1>0 DEF TypeOK
<1>6. ASSUME NEW s \in Span, StartSpan(s) PROVE IInv'
  <2>1. /\ span[s] = "none" /\ span' = [span EXCEPT ![s] = "open"]
        /\ sampled' = sampled \/ sampled' = sampled \cup {s}
        /\ category' = category /\ fate' = fate
    BY <1>6 DEF StartSpan, pipeVars
  <2>2. SplitAtEnd'
    BY <1>0, <1>1, <1>5, <2>1 DEF SplitAtEnd
  <2>3. ProcessorsDown'
    BY <1>0, <1>1, <2>1 DEF ProcessorsDown, Waiting
  <2> QED  BY <1>4, <1>5, <2>1, <2>2, <2>3
<1>7. ASSUME NEW s \in Span, EndSpan(s) PROVE IInv'
  <2>1. /\ span[s] = "open" /\ span' = [span EXCEPT ![s] = "ended"]
        /\ sampled' = sampled /\ category' = category
    BY <1>7 DEF EndSpan
  <2> DEFINE new(p) == IF p \in stopped \/ QueueFull(p) THEN "dropped" ELSE "queued"
             goes(p) == s \in sampled /\ Forwards(p, s)
  <2>2. fate' = [p \in Pipeline |-> IF goes(p) THEN [fate[p] EXCEPT ![s] = new(p)] ELSE fate[p]]
    BY <1>7 DEF EndSpan
  <2>3. \A p \in Pipeline : new(p) \in {"dropped", "queued"} /\ (p \in stopped => new(p) = "dropped")
    OBVIOUS
  <2>4. \A p \in Pipeline : goes(p) <=> s \in sampled /\ p \in on /\ (p = "langfuse" => category[s] = "agent")
    BY DEF Forwards
  <2> HIDE DEF new, goes
  <2>5. \A p \in Pipeline, r \in Span :
          fate'[p][r] = IF r = s /\ goes(p) THEN new(p) ELSE fate[p][r]
    BY <1>5, <2>2
  <2>6. fate' \in [Pipeline -> [Span -> Fate]]
    BY <1>5, <2>2, <2>3 DEF Fate
  <2>7. SplitAtEnd'
    <3>1. \A p \in Pipeline : fate[p][s] = "none"
      BY <1>0, <2>1 DEF SplitAtEnd
    <3>2. \A p \in Pipeline : new(p) # "none"
      BY <2>3
    <3>3. \A r \in Span : span'[r] = IF r = s THEN "ended" ELSE span[r]
      BY <1>5, <2>1
    <3> QED  BY <1>0, <1>1, <2>1, <2>4, <2>5, <3>1, <3>2, <3>3 DEF SplitAtEnd
  <2>8. ProcessorsDown'
    <3>1. ASSUME NEW p \in Pipeline, p \in stopped, Waiting(p) = {} PROVE Waiting(p)' = {}
      BY <2>3, <2>5, <3>1 DEF Waiting
    <3> QED  BY <1>0, <1>1, <3>1 DEF ProcessorsDown, TypeOK
  <2> QED  BY <1>4, <1>5, <2>1, <2>6, <2>7, <2>8
<1>8. ASSUME NEW s \in Span, NEW c \in Category \ {"none"}, SetCategory(s, c) PROVE IInv'
  <2>1. /\ span[s] = "open" /\ category' = [category EXCEPT ![s] = c]
        /\ span' = span /\ sampled' = sampled /\ fate' = fate
    BY <1>8 DEF SetCategory, pipeVars
  <2>2. SplitAtEnd'
    BY <1>0, <1>1, <1>5, <2>1 DEF SplitAtEnd
  <2>3. ProcessorsDown'
    BY <1>0, <1>1, <2>1 DEF ProcessorsDown, Waiting
  <2> QED  BY <1>4, <1>5, <2>1, <2>2, <2>3
<1>9. ASSUME NEW p \in Pipeline, span' = span, sampled' = sampled, category' = category,
             fate' \in [Pipeline -> [Span -> Fate]],
             \A q \in Pipeline, r \in Span :
               /\ fate'[q][r] = "none" <=> fate[q][r] = "none"
               /\ fate'[q][r] \in {"queued", "batched"} => fate[q][r] \in {"queued", "batched"}
      PROVE  IInv'
  <2>1. SplitAtEnd'
    BY <1>0, <1>1, <1>9 DEF SplitAtEnd
  <2>2. \A q \in Pipeline : Waiting(q) = {} => Waiting(q)' = {}
    BY <1>9 DEF Waiting
  <2>3. ProcessorsDown'
    BY <1>0, <1>1, <2>2 DEF ProcessorsDown, TypeOK
  <2> QED  BY <1>4, <1>5, <1>9, <2>1, <2>3
<1>10. ASSUME NEW p \in Pipeline, NEW s \in Span, Collect(p, s) PROVE IInv'
  <2>1. /\ fate[p][s] = "queued" /\ fate' = [fate EXCEPT ![p][s] = "batched"]
        /\ span' = span /\ sampled' = sampled /\ category' = category
    BY <1>10 DEF Collect, spanVars
  <2>2. \A q \in Pipeline, r \in Span :
          fate'[q][r] = IF q = p /\ r = s THEN "batched" ELSE fate[q][r]
    BY <1>5, <2>1
  <2>3. fate' \in [Pipeline -> [Span -> Fate]]
    BY <1>5, <2>1 DEF Fate
  <2> QED  BY <1>9, <2>1, <2>2, <2>3
<1>11. ASSUME NEW p \in Pipeline, Export(p) PROVE IInv'
  <2>1. PICK out \in {"delivered", "refused", "cut"} :
          fate' = [fate EXCEPT ![p] = [s \in Span |-> IF @[s] = "batched" THEN out ELSE @[s]]]
    BY <1>11 DEF Export
  <2>2. span' = span /\ sampled' = sampled /\ category' = category
    BY <1>11 DEF Export, spanVars
  <2>3. \A q \in Pipeline, r \in Span :
          fate'[q][r] = IF q = p /\ fate[q][r] = "batched" THEN out ELSE fate[q][r]
    BY <1>5, <2>1
  <2>4. fate' \in [Pipeline -> [Span -> Fate]]
    BY <1>5, <2>1 DEF Fate
  <2> QED  BY <1>9, <2>2, <2>3, <2>4
<1> QED  BY <1>6, <1>7, <1>8, <1>10, <1>11

\* Lemma: the shutdown, step by step.
LEMMA ShutdownKeeps ==
  ASSUME IInv, ShutdownBegins \/ DeadlineExpires \/ ShutdownStep
  PROVE  IInv'
<1>0. /\ TypeOK /\ ConfigInv /\ NotBuilt /\ SplitAtEnd /\ ExportersDown /\ ProcessorsDown
      /\ stage = "exited" => todo = {}
  BY DEF IInv, TracingInv
<1>1. /\ on' = on /\ ratio' = ratio /\ span' = span /\ sampled' = sampled
      /\ category' = category /\ fate' = fate
  BY DEF ShutdownBegins, DeadlineExpires, ShutdownStep, ShutdownExporter, StopProcessor,
         ProcessorStopped, ProviderGivesUp, ProcessExits, spanVars, pipeVars, telemetryVars
<1>2. /\ stage \in {"running", "shutdown"} /\ stage' \in {"shutdown", "exited"}
      /\ flags' = flags /\ pending' = pending /\ cfg' = cfg /\ watches' = watches
      /\ problems' = problems /\ failure' = failure /\ seen' = seen
  BY DEF ShutdownBegins, DeadlineExpires, ShutdownStep, ShutdownExporter, StopProcessor,
         ProcessorStopped, ProviderGivesUp, ProcessExits, configVars
<1>3. ConfigTypeOK' /\ ConfigInv'
  <2>1. ConfigTypeOK'
    BY <1>0, <1>2 DEF TypeOK, ConfigTypeOK
  <2> QED  BY <1>0, <1>2, <2>1, ConfigLeft
<1>4. NotBuilt' /\ SplitAtEnd' /\ \A p : Waiting(p)' = Waiting(p)
  BY <1>0, <1>1, <1>2 DEF NotBuilt, SplitAtEnd, Waiting, Early
<1>5. ASSUME up' \subseteq on, stopped' \subseteq on, todo' \subseteq {"exporter", "processor"} \X on,
             expired' \in BOOLEAN, firstErr' \in Pipeline \cup {"none", "deadline"}, owed' \subseteq Span,
             ExportersDown', ProcessorsDown', stage' = "exited" => todo' = {}
      PROVE  IInv'
  BY <1>0, <1>1, <1>2, <1>3, <1>4, <1>5 DEF IInv, TypeOK, TracingInv
<1>6. /\ up \subseteq on /\ stopped \subseteq on /\ todo \subseteq {"exporter", "processor"} \X on
      /\ on \subseteq Pipeline
      /\ expired \in BOOLEAN /\ firstErr \in Pipeline \cup {"none", "deadline"} /\ owed \subseteq Span
  BY <1>0 DEF TypeOK
<1>7. ASSUME ShutdownBegins PROVE IInv'
  <2>1. /\ todo' = {"exporter", "processor"} \X on /\ owed' \subseteq Span /\ stage' = "shutdown"
        /\ up' = up /\ stopped' = stopped /\ expired' = expired /\ firstErr' = firstErr
    BY <1>7 DEF ShutdownBegins, pipeVars
  <2>2. \A p \in on : <<"exporter", p>> \in todo' /\ <<"processor", p>> \in todo'
    BY <2>1
  <2>3. ExportersDown' /\ ProcessorsDown'
    BY <1>1, <2>2 DEF ExportersDown, ProcessorsDown
  <2> QED  BY <1>5, <1>6, <2>1, <2>3
<1>8. ASSUME DeadlineExpires PROVE IInv'
  <2>1. /\ stage = "shutdown" /\ stage' = stage /\ ~expired /\ expired' = TRUE
        /\ todo' = todo /\ firstErr' = firstErr /\ owed' = owed /\ up' = up /\ stopped' = stopped
    BY <1>8 DEF DeadlineExpires, configVars, pipeVars
  <2>2. ExportersDown' /\ ProcessorsDown'
    BY <1>0, <1>1, <1>4, <2>1 DEF ExportersDown, ProcessorsDown
  <2> QED  BY <1>5, <1>6, <2>1, <2>2
<1>9. ASSUME NEW p \in Pipeline, ShutdownExporter(p) PROVE IInv'
  <2>1. /\ stage = "shutdown" /\ stage' = stage
        /\ up' = up \ {p} /\ todo' = todo \ {<<"exporter", p>>}
        /\ firstErr' = firstErr \/ firstErr' = p
        /\ firstErr' = "none" => firstErr = "none"
        /\ stopped' = stopped /\ expired' = expired /\ owed' = owed
    BY <1>9 DEF ShutdownExporter, FirstOf, configVars
  <2>2. ExportersDown'
    BY <1>0, <1>1, <2>1 DEF ExportersDown
  <2>3. \A q \in on : <<"processor", q>> \notin todo' => <<"processor", q>> \notin todo
    BY <2>1
  <2>4. ProcessorsDown'
    BY <1>0, <1>1, <1>4, <2>1, <2>3 DEF ProcessorsDown
  <2> QED  BY <1>5, <1>6, <2>1, <2>2, <2>4
<1>10. ASSUME NEW p \in Pipeline, StopProcessor(p) PROVE IInv'
  <2>1. /\ stage = "shutdown" /\ stage' = stage /\ <<"processor", p>> \in todo
        /\ stopped' = stopped \cup {p} /\ up' = up
        /\ todo' = todo /\ expired' = expired /\ firstErr' = firstErr /\ owed' = owed
    BY <1>10 DEF StopProcessor, IsNext, configVars, downVars
  <2>2. p \in on
    BY <1>6, <2>1
  <2>3. ExportersDown' /\ ProcessorsDown'
    BY <1>0, <1>1, <1>4, <2>1 DEF ExportersDown, ProcessorsDown
  <2> QED  BY <1>5, <1>6, <2>1, <2>2, <2>3
<1>11. ASSUME NEW p \in Pipeline, ProcessorStopped(p) PROVE IInv'
  <2>1. /\ stage = "shutdown" /\ stage' = stage /\ p \in stopped /\ Waiting(p) = {}
        /\ todo' = todo \ {<<"processor", p>>} /\ up' = up /\ stopped' = stopped
        /\ expired' = expired /\ firstErr' = firstErr /\ owed' = owed
    BY <1>11 DEF ProcessorStopped, configVars, pipeVars
  <2>2. \A q \in on : <<"exporter", q>> \notin todo' => <<"exporter", q>> \notin todo
    BY <2>1
  <2>3. ExportersDown'
    BY <1>0, <1>1, <2>1, <2>2 DEF ExportersDown
  <2>4. \A q \in on : <<"processor", q>> \notin todo' => <<"processor", q>> \notin todo \/ q = p
    BY <2>1
  <2>5. ProcessorsDown'
    BY <1>0, <1>1, <1>4, <2>1, <2>4 DEF ProcessorsDown
  <2> QED  BY <1>5, <1>6, <2>1, <2>3, <2>5
<1>12. ASSUME ProviderGivesUp PROVE IInv'
  <2>1. /\ stage = "shutdown" /\ stage' = stage /\ expired /\ ProviderDown /\ todo' = {}
        /\ firstErr' = IF firstErr = "none" THEN "deadline" ELSE firstErr
        /\ up' = up /\ stopped' = stopped /\ expired' = expired /\ owed' = owed
    BY <1>12 DEF ProviderGivesUp, FirstOf, configVars, pipeVars
  <2>2. \A p \in on : <<"exporter", p>> \notin todo
    <3> SUFFICES ASSUME NEW p \in on, <<"exporter", p>> \in todo PROVE FALSE
      OBVIOUS
    <3>1. <<"exporter", p>>[1] = "processor"
      BY <2>1 DEF ProviderDown
    <3> QED  BY <3>1
  <2>3. ExportersDown' /\ ProcessorsDown'
    BY <1>0, <1>1, <2>1, <2>2 DEF ExportersDown, ProcessorsDown
  <2> QED  BY <1>5, <1>6, <2>1, <2>3
<1>13. ASSUME ProcessExits PROVE IInv'
  <2>1. /\ stage = "shutdown" /\ todo = {} /\ UNCHANGED telemetryVars
    BY <1>13 DEF ProcessExits
  <2>2. /\ up' = up /\ stopped' = stopped /\ todo' = todo /\ expired' = expired
        /\ firstErr' = firstErr /\ owed' = owed
    BY <2>1 DEF telemetryVars
  <2>3. ExportersDown' /\ ProcessorsDown'
    BY <1>0, <1>1, <1>4, <2>1, <2>2 DEF ExportersDown, ProcessorsDown
  <2> QED  BY <1>5, <1>6, <2>1, <2>2, <2>3
<1> QED  BY <1>7, <1>8, <1>9, <1>10, <1>11, <1>12, <1>13 DEF ShutdownStep

\* Lemma: the invariant holds when the process starts.
LEMMA InitInv == Init => IInv
<1> SUFFICES ASSUME Init PROVE IInv
  OBVIOUS
<1>1. /\ stage = "discover" /\ flags \in Flags /\ pending = <<>> /\ cfg = Defaults
      /\ watches = <<>> /\ problems = {} /\ failure = "none" /\ seen = <<>>
  BY DEF Init, ConfigInit
<1>2. Defaults \in [Field -> Value]
  BY DEF Defaults, Value
<1>3. /\ <<>> \in Seq([name : STRING, attrs : [WatchField -> Value]])
      /\ <<>> \in Seq(Contents) /\ <<>> \in Seq(STRING)
  OBVIOUS
<1>4. ConfigTypeOK
  BY <1>1, <1>2, <1>3 DEF ConfigTypeOK
<1>5. FoldOK
  <2>1. \A f \in Field : FilesSay(f, cfg[f])
    BY <1>1 DEF FilesSay
  <2>2. WatchSet = SeenWatches
    BY <1>1 DEF WatchSet, SeenWatches
  <2> QED  BY <2>1, <2>2 DEF FoldOK
<1>6. ConfigInv
  BY <1>1, <1>4, <1>5 DEF ConfigInv, FailureOK, LayersRespected, RefusalsJustified, ValidatedIsUsable
<1>7. TypeOK
  BY <1>1, <1>4 DEF Init, TypeOK, Category, Fate
<1>8. TracingInv
  BY <1>1 DEF Init, TracingInv, NotBuilt, SplitAtEnd, ExportersDown, ProcessorsDown
<1> QED  BY <1>6, <1>7, <1>8 DEF IInv

\* Theorem: the invariant holds in every state.
THEOREM TelemetryInvariant == Spec => []IInv
<1>1. IInv /\ [Next]_vars => IInv'
  <2> SUFFICES ASSUME IInv, [Next]_vars PROVE IInv'
    OBVIOUS
  <2>1. CASE UNCHANGED vars
    <3>1. UNCHANGED configVars /\ UNCHANGED telemetryVars
      BY <2>1 DEF vars, configVars, telemetryVars
    <3>2. ConfigInv'
      BY <3>1, ConfigKept DEF IInv
    <3>3. TypeOK'
      BY <2>1, <3>2 DEF vars, IInv, TypeOK, ConfigInv
    <3>4. TracingInv'
      BY <2>1 DEF vars, IInv, TracingInv, NotBuilt, SplitAtEnd, ExportersDown, ProcessorsDown, Waiting
    <3> QED  BY <3>2, <3>3, <3>4 DEF IInv
  <2>2. CASE Configure
    BY <2>2, ConfigureKeeps
  <2>3. CASE (\E b \in BOOLEAN : Setup(b)) \/ SetupFails
    BY <2>3, SetupKeeps
  <2>4. CASE \/ \E s \in Span : StartSpan(s) \/ EndSpan(s)
             \/ \E s \in Span, c \in Category \ {"none"} : SetCategory(s, c)
             \/ \E p \in Pipeline, s \in Span : Collect(p, s)
             \/ \E p \in Pipeline : Export(p)
    BY <2>4, SpanStepKeeps
  <2>5. CASE ShutdownBegins \/ DeadlineExpires \/ ShutdownStep
    BY <2>5, ShutdownKeeps
  <2> QED  BY <2>5, <2>1, <2>2, <2>3, <2>4 DEF Next
<1> QED  BY <1>1, InitInv, PTL DEF Spec

\* Theorem: every variable of Load, of the tracer provider and of its shutdown
\* keeps its shape.
THEOREM TelemetryTypes == Spec => []TypeOK
<1>1. IInv => TypeOK
  BY DEF IInv
<1> QED  BY <1>1, TelemetryInvariant, PTL

\* Theorem: whatever the files, flags and environment, a configuration that Load
\* returns holds for every field what the last layer that speaks of it says.
THEOREM LayersAreRespected == Spec => []LayersRespected
<1>1. IInv => LayersRespected
  BY DEF IInv, ConfigInv
<1> QED  BY <1>1, TelemetryInvariant, PTL

\* Theorem: Validate refuses a configuration exactly for the values that are
\* malformed after every layer, and for all of them at once.
THEOREM RefusalsAreJustified == Spec => []RefusalsJustified
<1>1. IInv => RefusalsJustified
  BY DEF IInv, ConfigInv
<1> QED  BY <1>1, TelemetryInvariant, PTL

\* Theorem: the cases of slog.go list every name that the lists of validate.go
\* do, so the logger refuses only the one spelling that Validate lets through.
THEOREM ValidatedConfigsAreUsable == Spec => []ValidatedIsUsable
<1>1. IInv => ValidatedIsUsable
  BY DEF IInv, ConfigInv
<1> QED  BY <1>1, TelemetryInvariant, PTL

\* Theorem: Langfuse gets exactly the sampled spans that are agent spans when
\* they end, and the collector every sampled span (OnEnd of langfuse.go).
THEOREM SpansAreSplitAtEnd == Spec => []SplitAtEnd
<1>1. IInv => SplitAtEnd
  BY DEF IInv, TracingInv
<1> QED  BY <1>1, TelemetryInvariant, PTL

\* Theorem: composeShutdown reaches every exporter and every processor, whatever
\* the calls before it returned: each one is down and drained unless the deadline
\* passed and the error says so.
THEOREM NothingIsStranded == Spec => []NothingStranded
<1>1. IInv => NothingStranded
  <2> SUFFICES ASSUME IInv, stage = "exited", ~expired \/ firstErr = "none"
               PROVE  up = {} /\ stopped = on /\ \A p \in on : Waiting(p) = {}
    BY DEF NothingStranded
  <2>1. todo = {} /\ up \subseteq on /\ stopped \subseteq on
    BY DEF IInv, TypeOK, TracingInv
  <2> QED  BY <2>1 DEF IInv, TracingInv, ExportersDown, ProcessorsDown
<1> QED  BY <1>1, TelemetryInvariant, PTL

-----------------------------------------------------------------------------
(* Why ShutdownEnds holds: each call of the shutdown leaves strictly less   *)
(* to do.  What is left to fairness is that time passes and that, once it   *)
(* has, a call is made.                                                     *)

\* What the deferred shutdown still has to do: calls to make, processors to
\* tell, and to return.
Left ==
  todo \cup {<<"stop", p>> : p \in on \ stopped}
       \cup (IF stage = "shutdown" THEN {<<"process", "exits">>} ELSE {})

\* Lemma: what is left is finite.
LEMMA LeftIsFinite == TypeOK => IsFiniteSet(Left)
<1> SUFFICES ASSUME TypeOK PROVE IsFiniteSet(Left)
  OBVIOUS
<1> DEFINE Kind == {"exporter", "processor", "stop", "process"}
           Of == {"otlp", "langfuse", "exits"}
<1>1. \A S, x : IsFiniteSet(S) => IsFiniteSet(S \cup {x})
  BY FS_AddElement
<1>2. Kind = ((({} \cup {"exporter"}) \cup {"processor"}) \cup {"stop"}) \cup {"process"}
  OBVIOUS
<1>3. Of = (({} \cup {"otlp"}) \cup {"langfuse"}) \cup {"exits"}
  OBVIOUS
<1>4. IsFiniteSet(Kind) /\ IsFiniteSet(Of)
  <2> HIDE DEF Kind, Of
  <2>1. IsFiniteSet({})
    BY FS_EmptySet
  <2> QED  BY <1>1, <1>2, <1>3, <2>1
<1>5. IsFiniteSet(Kind \X Of)
  <2> HIDE DEF Kind, Of
  <2> QED  BY <1>4, FS_Product
<1>6. Left \in SUBSET (Kind \X Of)
  <2>1. todo \subseteq Kind \X Of /\ on \subseteq Of
    BY DEF TypeOK, Pipeline
  <2>2. \A p \in on : <<"stop", p>> \in Kind \X Of
    BY <2>1
  <2> QED  BY <2>1, <2>2 DEF Left
<1> QED  BY <1>5, <1>6, FS_Subset

\* What a step during the shutdown may do to it: never add to what is left,
\* never set the clock back, and a step of the shutdown itself takes from it.
Advances ==
  stage = "shutdown" =>
    /\ stage' \in {"shutdown", "exited"}
    /\ Left' \subseteq Left /\ (expired => expired')
    /\ ShutdownStep => Left' # Left

\* Lemma: a step of the shutdown leaves strictly less to do.
LEMMA CallAdvances ==
  ASSUME TypeOK, ShutdownStep
  PROVE  /\ stage = "shutdown" /\ stage' \in {"shutdown", "exited"} /\ expired' = expired
         /\ Left' \subseteq Left /\ Left' # Left
<1>1. ASSUME NEW p \in Pipeline, ShutdownExporter(p) \/ ProcessorStopped(p)
      PROVE  /\ UNCHANGED <<stage, expired, on, stopped>> /\ stage = "shutdown"
             /\ \E call \in todo : todo' = todo \ {call}
  BY <1>1 DEF ShutdownExporter, ProcessorStopped, IsNext, configVars, pipeVars
<1>2. ASSUME NEW p \in Pipeline, StopProcessor(p)
      PROVE  /\ UNCHANGED <<stage, expired, on, todo>> /\ stage = "shutdown"
             /\ stopped' = stopped \cup {p} /\ p \in on /\ p \notin stopped
  BY <1>2 DEF StopProcessor, IsNext, configVars, downVars, TypeOK
<1>3. ASSUME ProviderGivesUp
      PROVE  /\ UNCHANGED <<stage, expired, on, stopped>> /\ stage = "shutdown"
             /\ todo # {} /\ todo' = {}
  BY <1>3 DEF ProviderGivesUp, configVars, pipeVars
<1>4. ASSUME ProcessExits
      PROVE  /\ UNCHANGED <<expired, on, stopped, todo>> /\ stage = "shutdown" /\ stage' = "exited"
  BY <1>4 DEF ProcessExits, telemetryVars
<1>5. \A call \in todo : call[1] \in {"exporter", "processor"}
  BY DEF TypeOK
<1>6. ASSUME NEW call \in todo, UNCHANGED <<stage, on, stopped>>, todo' = todo \ {call} \/ todo' = {}
      PROVE  Left' \subseteq Left /\ Left' # Left
  <2>1. Left' \subseteq Left
    BY <1>6 DEF Left
  <2>2. call[1] # "stop" /\ call[1] # "process"
    BY <1>5
  <2>3. call \in Left /\ call \notin Left'
    BY <1>6, <2>2 DEF Left
  <2> QED  BY <2>1, <2>3
<1>7. CASE \E p \in Pipeline : ShutdownExporter(p) \/ ProcessorStopped(p)
  BY <1>1, <1>6, <1>7
<1>8. CASE \E p \in Pipeline : StopProcessor(p)
  <2>1. PICK p \in Pipeline : StopProcessor(p)
    BY <1>8
  <2>2. Left' \subseteq Left
    BY <1>2, <2>1 DEF Left
  <2>3. <<"stop", p>> \in Left /\ <<"stop", p>> \notin Left'
    <3>1. /\ UNCHANGED <<stage, on, todo>> /\ stopped' = stopped \cup {p} /\ p \in on /\ p \notin stopped
      BY <1>2, <2>1
    <3>2. <<"stop", p>> \notin todo
      BY <1>5
    <3> QED  BY <3>1, <3>2 DEF Left
  <2> QED  BY <1>2, <2>1, <2>2, <2>3
<1>9. CASE ProviderGivesUp
  BY <1>3, <1>6, <1>9
<1>10. CASE ProcessExits
  <2>1. Left' \subseteq Left
    BY <1>4, <1>10 DEF Left
  <2>2. <<"process", "exits">> \in Left /\ <<"process", "exits">> \notin Left'
    <3>1. <<"process", "exits">> \notin todo
      BY <1>5
    <3> QED  BY <1>4, <1>10, <3>1 DEF Left
  <2> QED  BY <1>4, <1>10, <2>1, <2>2
<1> QED  BY <1>7, <1>8, <1>9, <1>10 DEF ShutdownStep

\* Lemma: every other step of the role's goroutines and of time leaves it alone.
LEMMA OthersAdvance ==
  ASSUME Next, ~ ShutdownStep, stage = "shutdown"
  PROVE  UNCHANGED <<stage, on, stopped, todo>> /\ (expired => expired')
<1>1. ~ Configure
  BY DEF Configure, ConfigNext, Discover, Refuse, ReadFile, FileUnreadable, FileUnparsable,
         FileUndecodable, FinishLoad
<1>2. ~ ((\E b \in BOOLEAN : Setup(b)) \/ SetupFails \/ ShutdownBegins)
  BY DEF Setup, SetupFails, ShutdownBegins
<1>3. CASE \/ \E s \in Span : StartSpan(s) \/ EndSpan(s)
           \/ \E s \in Span, c \in Category \ {"none"} : SetCategory(s, c)
  BY <1>3 DEF StartSpan, EndSpan, SetCategory, configVars, pipeVars, downVars
<1>4. CASE \/ \E p \in Pipeline, s \in Span : Collect(p, s)
           \/ \E p \in Pipeline : Export(p)
  BY <1>4 DEF Collect, Export, configVars, downVars
<1>5. CASE DeadlineExpires
  BY <1>5 DEF DeadlineExpires, configVars, pipeVars
<1> QED  BY <1>1, <1>2, <1>3, <1>4, <1>5 DEF Next

\* Theorem: during the shutdown nothing the spans, the workers or the collectors
\* do adds to what is left, which is finite, and each call takes from it: the
\* shutdown makes finitely many calls.
THEOREM ShutdownAdvances == Spec => []IsFiniteSet(Left) /\ [][Advances]_vars
<1>1. TypeOK /\ [Next]_vars => [Advances]_vars
  <2> SUFFICES ASSUME TypeOK, Next, stage = "shutdown" PROVE Advances
    BY DEF Advances
  <2>1. CASE ShutdownStep
    BY <2>1, CallAdvances DEF Advances
  <2>2. CASE ~ ShutdownStep
    <3>1. UNCHANGED <<stage, on, stopped, todo>> /\ (expired => expired')
      BY <2>2, OthersAdvance
    <3>2. Left' = Left
      BY <3>1 DEF Left
    <3> QED  BY <2>2, <3>1, <3>2 DEF Advances
  <2> QED  BY <2>1, <2>2
<1> QED  BY <1>1, LeftIsFinite, TelemetryTypes, PTL DEF Spec

-----------------------------------------------------------------------------
(* ShutdownFlushes (tracing.go:34-36) does not hold. How far it fails:      *)

\* As long as the role runs, every exporter it built is up.
RunningUp == stage = "running" => up = on

\* A span is cut off only by an exporter that the shutdown has put down.
CutInv ==
  \A p \in Pipeline, s \in Span :
    fate[p][s] = "cut" => stage \in {"shutdown", "exited"} /\ p \in on \ up

Final == {"delivered", "refused", "cut", "dropped"}

\* What became of a span stays so: none is exported twice, and none that got
\* through is lost later.
FatesStay ==
  \A p \in Pipeline, s \in Span : fate[p][s] \in Final => fate'[p][s] = fate[p][s]

\* Lemma: before a span has ended nothing became of it.
LEMMA NoFateBefore ==
  ASSUME IInv, NEW p \in Pipeline, NEW s \in Span, fate[p][s] # "none"
  PROVE  /\ span[s] = "ended" /\ p \in on
         /\ stage \in {"running", "shutdown", "exited"}
<1>1. span[s] = "ended" /\ p \in on
  BY DEF IInv, TracingInv, SplitAtEnd
<1>2. stage \in {"running", "shutdown", "exited"}
  BY <1>1 DEF IInv, TypeOK, TracingInv, NotBuilt, Early
<1> QED  BY <1>1, <1>2

\* Lemma: the steps that change what became of spans.
LEMMA FateSteps ==
  ASSUME [Next]_vars
  PROVE  \/ fate' = fate
         \/ \E s \in Span : EndSpan(s)
         \/ \E p \in Pipeline, s \in Span : Collect(p, s)
         \/ \E p \in Pipeline : Export(p)
<1> USE DEF telemetryVars, spanVars, pipeVars, downVars
<1>1. CASE Configure \/ (\E b \in BOOLEAN : Setup(b)) \/ SetupFails
  BY <1>1 DEF Configure, Setup, SetupFails
<1>2. CASE \/ \E s \in Span : StartSpan(s)
           \/ \E s \in Span, c \in Category \ {"none"} : SetCategory(s, c)
  BY <1>2 DEF StartSpan, SetCategory
<1>3. CASE ShutdownBegins \/ DeadlineExpires \/ ShutdownStep
  BY <1>3 DEF ShutdownBegins, DeadlineExpires, ShutdownStep, ShutdownExporter, StopProcessor,
              ProcessorStopped, ProviderGivesUp, ProcessExits
<1>4. CASE UNCHANGED vars
  BY <1>4 DEF vars
<1> QED  BY <1>1, <1>2, <1>3, <1>4 DEF Next

\* Lemma: no step changes what became of a span.
LEMMA FateStep == IInv /\ [Next]_vars => FatesStay
<1> SUFFICES ASSUME IInv, [Next]_vars, NEW p \in Pipeline, NEW s \in Span, fate[p][s] \in Final
             PROVE  fate'[p][s] = fate[p][s]
  BY DEF FatesStay
<1>1. span[s] = "ended" /\ fate \in [Pipeline -> [Span -> Fate]]
  BY NoFateBefore DEF Final, IInv, TypeOK
<1>2. ASSUME NEW r \in Span, EndSpan(r) PROVE fate'[p][s] = fate[p][s]
  <2>1. r # s
    BY <1>1, <1>2 DEF EndSpan
  <2>2. fate'[p] = fate[p] \/ \E f : fate'[p] = [fate[p] EXCEPT ![r] = f]
    BY <1>2 DEF EndSpan
  <2> QED  BY <1>1, <2>1, <2>2
<1>3. ASSUME NEW q \in Pipeline, NEW r \in Span, Collect(q, r) PROVE fate'[p][s] = fate[p][s]
  BY <1>1, <1>3 DEF Collect, Final
<1>4. ASSUME NEW q \in Pipeline, Export(q) PROVE fate'[p][s] = fate[p][s]
  <2>1. PICK outcome : fate' = [fate EXCEPT ![q] =
                         [t \in Span |-> IF @[t] = "batched" THEN outcome ELSE @[t]]]
    BY <1>4 DEF Export
  <2> QED  BY <1>1, <2>1 DEF Final
<1> QED  BY <1>2, <1>3, <1>4, FateSteps

\* Lemma: what the steps do to the stage and to the exporters.
LEMMA UpSteps ==
  ASSUME [Next]_vars, stage \in {"running", "shutdown", "exited"}
  PROVE  /\ on' = on /\ up' \subseteq up
         /\ stage \in {"shutdown", "exited"} => stage' \in {"shutdown", "exited"}
         /\ stage' = "running" => up' = up /\ stage = "running"
<1> USE DEF telemetryVars, spanVars, pipeVars, downVars, configVars
<1>1. CASE Configure \/ (\E b \in BOOLEAN : Setup(b)) \/ SetupFails
  <2>1. CASE Configure
    BY <2>1 DEF Configure, ConfigNext, Discover, ReadFile, FileUnreadable, FileUnparsable,
                FileUndecodable, FinishLoad
  <2> QED  BY <1>1, <2>1 DEF Setup, SetupFails
<1>2. CASE \/ \E s \in Span : StartSpan(s) \/ EndSpan(s)
           \/ \E s \in Span, c \in Category \ {"none"} : SetCategory(s, c)
           \/ \E p \in Pipeline, s \in Span : Collect(p, s)
           \/ \E p \in Pipeline : Export(p)
  BY <1>2 DEF StartSpan, EndSpan, SetCategory, Collect, Export
<1>3. CASE ShutdownBegins \/ DeadlineExpires \/ ShutdownStep
  BY <1>3 DEF ShutdownBegins, DeadlineExpires, ShutdownStep, ShutdownExporter, StopProcessor,
              ProcessorStopped, ProviderGivesUp, ProcessExits
<1>4. CASE UNCHANGED vars
  BY <1>4 DEF vars
<1> QED  BY <1>1, <1>2, <1>3, <1>4 DEF Next

\* Lemma: a span is cut off only by an exporter that is down.
LEMMA CutBy ==
  ASSUME IInv, [Next]_vars, NEW p \in Pipeline, NEW s \in Span,
         fate'[p][s] = "cut", fate[p][s] # "cut"
  PROVE  p \in on \ up /\ stage \in {"running", "shutdown"}
<1>1. fate \in [Pipeline -> [Span -> Fate]]
  BY DEF IInv, TypeOK
<1>2. ASSUME NEW r \in Span, EndSpan(r) PROVE FALSE
  <2>1. fate'[p] = fate[p] \/ \E f \in {"dropped", "queued"} : fate'[p] = [fate[p] EXCEPT ![r] = f]
    BY <1>2 DEF EndSpan
  <2> QED  BY <1>1, <2>1
<1>3. ASSUME NEW q \in Pipeline, NEW r \in Span, Collect(q, r) PROVE FALSE
  BY <1>1, <1>3 DEF Collect
<1>4. ASSUME NEW q \in Pipeline, Export(q)
      PROVE  p \in on \ up /\ stage \in {"running", "shutdown"}
  <2>1. PICK outcome \in {"delivered", IF q \in up THEN "refused" ELSE "cut"} :
          fate' = [fate EXCEPT ![q] = [t \in Span |-> IF @[t] = "batched" THEN outcome ELSE @[t]]]
    BY <1>4 DEF Export
  <2>2. q = p /\ fate[p][s] = "batched" /\ outcome = "cut"
    BY <1>1, <2>1
  <2>3. p \notin up /\ p \in on
    BY <2>1, <2>2, NoFateBefore
  <2> QED  BY <1>4, <2>3 DEF Export, Alive
<1> QED  BY <1>2, <1>3, <1>4, FateSteps

\* Lemma: CutInv and RunningUp are kept by every step.
LEMMA CutStep == IInv /\ RunningUp /\ CutInv /\ [Next]_vars => (RunningUp /\ CutInv)'
<1> SUFFICES ASSUME IInv, RunningUp, CutInv, [Next]_vars PROVE RunningUp' /\ CutInv'
  OBVIOUS
<1>1. RunningUp'
  <2> SUFFICES ASSUME stage' = "running" PROVE up' = on'
    BY DEF RunningUp
  <2>1. CASE stage \in {"running", "shutdown", "exited"}
    BY <2>1, UpSteps DEF RunningUp
  <2>2. CASE stage \notin {"running", "shutdown", "exited"}
    <3>1. ~Configure /\ ~SetupFails
      <4>1. ~Discover /\ ~FileUnreadable /\ ~SetupFails
        BY DEF Discover, FileUnreadable, Refuse, SetupFails
      <4>2. \A c \in Contents : ~ReadFile(c) /\ ~FileUnparsable(c) /\ ~FileUndecodable(c)
        BY DEF ReadFile, FileUnparsable, FileUndecodable, Refuse
      <4>3. FinishLoad => stage' \in {"loaded", "failed"}
        BY DEF FinishLoad
      <4> QED  BY <4>1, <4>2, <4>3 DEF Configure, ConfigNext
    <3>2. /\ \A s \in Span : ~StartSpan(s) /\ ~EndSpan(s)
          /\ \A s \in Span, c \in Category \ {"none"} : ~SetCategory(s, c)
          /\ \A p \in Pipeline, s \in Span : ~Collect(p, s)
          /\ \A p \in Pipeline : ~Export(p)
      BY <2>2 DEF StartSpan, EndSpan, SetCategory, Collect, Export, Alive
    <3>3. ~ShutdownBegins /\ ~DeadlineExpires /\ ~ShutdownStep
      BY <2>2 DEF ShutdownBegins, DeadlineExpires, ShutdownStep, ShutdownExporter, StopProcessor,
                  ProcessorStopped, ProviderGivesUp, ProcessExits
    <3>4. ~UNCHANGED vars
      BY <2>2 DEF vars
    <3>5. \E b \in BOOLEAN : Setup(b)
      BY <3>1, <3>2, <3>3, <3>4 DEF Next
    <3> QED  BY <3>5 DEF Setup
  <2> QED  BY <2>1, <2>2
<1>2. CutInv'
  <2> SUFFICES ASSUME NEW p \in Pipeline, NEW s \in Span, fate'[p][s] = "cut"
               PROVE  stage' \in {"shutdown", "exited"} /\ p \in on' \ up'
    BY DEF CutInv
  <2>1. stage \in {"shutdown", "exited"} /\ p \in on \ up
    <3>1. CASE fate[p][s] = "cut"
      BY <3>1 DEF CutInv
    <3>2. CASE fate[p][s] # "cut"
      BY <3>2, CutBy DEF RunningUp
    <3> QED  BY <3>1, <3>2
  <2> QED  BY <2>1, UpSteps
<1> QED  BY <1>1, <1>2

\* Theorem: what became of a span is final (batch processors and exporters as
\* tracing.go wires them): no span is exported twice, no shutdown call, error or
\* deadline takes back what was delivered.
THEOREM FatesAreFinal == Spec => [][FatesStay]_vars
<1>1. IInv /\ [Next]_vars => [FatesStay]_vars
  BY FateStep
<1> QED  BY <1>1, TelemetryInvariant, PTL DEF Spec

\* Theorem: a running role cuts off no span. The loss that ShutdownFlushes is
\* about is limited to spans whose pipeline had not exported them when the
\* shutdown put its exporter down (composeShutdown, tracing.go:68-78).
THEOREM OnlyShutdownCuts == Spec => []CutInv
<1>1. Init => RunningUp /\ CutInv
  BY DEF Init, ConfigInit, RunningUp, CutInv
<1>2. Spec => [](RunningUp /\ CutInv)
  BY <1>1, CutStep, TelemetryInvariant, PTL DEF Spec
<1> QED  BY <1>2, PTL
=============================================================================
