------------------------------- MODULE Config -------------------------------
(***************************************************************************)
(* What `spt` does with its configuration before a role starts:            *)
(* PersistentPreRunE of internal/app/cli/root.go calls config.Load         *)
(* (internal/config) and installs the logger.  The layers are the built-in *)
(* defaults, the *.hcl files of --config-dir in lexical order, the         *)
(* --config files, and the flags.  Each file is read by a call of its own, *)
(* so what a file holds is chosen when it is read, not before.             *)
(***************************************************************************)
EXTENDS Naturals, Sequences, FiniteSets

CONSTANTS
  Unset,      \* the Go zero value: "" or 0
  Dflt,       \* what Defaults() gives a field that it sets
  Good,       \* other values, fit for every attribute outside the log block
  Malformed,  \* values fit for no validated attribute outside the log block
  Spelling,   \* [Good \cup Malformed -> STRING]: the name a value of the log
              \* block is equal to under Unicode case folding
  Folded,     \* the values whose lower case is not that name (a long s)
  EnvVar,     \* names used in env("...")
  DirFiles,   \* the names a listing of --config-dir may hold, in lexical order
  Paths,      \* the --config flags, in order
  Contents,   \* what a file may hold when it is read: fault is "syntax" if it
              \* does not parse, "schema" if it has an unknown block or
              \* attribute; blocks maps each declared block to its attributes,
              \* an omitted one being Unset
  Flags,      \* the command lines: [Flagged -> Value], Unset = not given
  Env         \* the environment: [EnvVar -> Value], Unset = not exported

VARIABLES
  stage,      \* how far the process has come
  flags,      \* the FlagOverrides, fixed when the process starts
  pending,    \* the files still to read
  cfg,        \* the fields of Config, [Field -> Value]
  watches,    \* Config.Watches
  problems,   \* the Problems of the ValidationError
  failure,    \* the sentinel of the error Load or PersistentPreRunE returned
  seen        \* history: the files read so far, as they were when read

configVars == <<stage, flags, pending, cfg, watches, problems, failure, seen>>

Value == {Unset, Dflt} \cup Good \cup Malformed
Written == Value \cup EnvVar

\* The blocks of the file format and the attributes of each.
BlockFields ==
  [log         |-> {"format", "level"},
   admin       |-> {"addr"},
   ebay        |-> {"app_id", "cert_id", "marketplace", "rate_limit"},
   postgres    |-> {"dsn", "max_open_conns", "max_idle_conns"},
   valkey      |-> {"addr", "db", "password"},
   meilisearch |-> {"url", "api_key"},
   obs         |-> {"otlp_endpoint", "langfuse_host", "langfuse_public_key",
                    "langfuse_secret_key", "span_sampling"},
   api         |-> {"addr", "read_timeout", "write_timeout"},
   scheduler   |-> {"tick_interval", "bulk_reconcile_interval", "sync_interval"},
   worker      |-> {"pools"}]

Block == DOMAIN BlockFields
Field == UNION {{<<b, f>> : f \in BlockFields[b]} : b \in Block}
Fields(b, names) == {<<b, f>> : f \in names}

Defaulted ==
  Fields("log", BlockFields.log) \cup Fields("admin", {"addr"})
    \cup Fields("ebay", {"marketplace"}) \cup Fields("api", BlockFields.api)
    \cup Fields("scheduler", BlockFields.scheduler) \cup Fields("obs", {"span_sampling"})

Flagged ==
  Fields("log", BlockFields.log) \cup Fields("admin", {"addr"})
    \cup Fields("ebay", {"app_id", "cert_id"}) \cup Fields("postgres", {"dsn"})
    \cup Fields("valkey", {"addr"}) \cup Fields("meilisearch", {"url"})

Validated ==
  Fields("log", BlockFields.log) \cup Fields("obs", {"span_sampling"})
    \cup Fields("api", {"read_timeout", "write_timeout"})
    \cup Fields("scheduler", BlockFields.scheduler) \cup Fields("worker", {"pools"})

Numeric ==
  Fields("ebay", {"rate_limit"}) \cup Fields("postgres", {"max_open_conns", "max_idle_conns"})
    \cup Fields("valkey", {"db"}) \cup Fields("obs", {"span_sampling"})

WatchField == {"query", "cadence", "judge_sample_rate"}
ASSUME ConfigAssumption ==
  \* no letter but the s of "json" has a folding that lower case undoes
  /\ Spelling \in [Good \cup Malformed -> STRING]
  /\ Folded \subseteq Good /\ \A v \in Folded : Spelling[v] = "json"
  /\ Dflt # Unset /\ {Unset, Dflt} \cap (Good \cup Malformed) = {} /\ Good \cap Malformed = {}
  /\ EnvVar \cap Value = {}
  /\ DirFiles \in Seq(STRING) /\ Paths \in Seq(STRING)
  /\ Flags \subseteq [Flagged -> Value] /\ Env \in [EnvVar -> Value]
  /\ \A c \in Contents :
       /\ c.fault \in {"none", "syntax", "schema"}
       /\ DOMAIN c.blocks \subseteq Block
       /\ \A b \in DOMAIN c.blocks : c.blocks[b] \in [BlockFields[b] -> Written]
       /\ c.watches \in Seq([name : STRING, attrs : [WatchField -> Written]])

NoFlags == [f \in Flagged |-> Unset]

Defaults == [f \in Field |-> IF f \in Defaulted THEN Dflt ELSE Unset]

ConfigInit ==
  /\ stage = "discover"
  /\ flags \in Flags
  /\ pending = <<>> /\ cfg = Defaults /\ watches = <<>>
  /\ problems = {} /\ failure = "none" /\ seen = <<>>

Refuse(err) ==
  /\ stage' = "failed" /\ failure' = err
  /\ UNCHANGED <<flags, pending, cfg, watches, problems, seen>>

-----------------------------------------------------------------------------
(* discoverFiles: one listing of the directory, then the explicit paths *)

\* What the directory may list: some of the names, in their order.
Listings ==
  UNION {{[i \in 1..n |-> DirFiles[at[i]]] :
            at \in {x \in [1..n -> DOMAIN DirFiles] : \A i, j \in 1..n : i < j => x[i] < x[j]}} :
         n \in 0..Len(DirFiles)}

Discover ==
  /\ stage = "discover"
  /\ \/ /\ \E names \in Listings : pending' = names \o Paths
        /\ stage' = "decode"
        /\ UNCHANGED <<flags, cfg, watches, problems, failure, seen>>
     \/ Refuse("read file")

(* decodeFiles: read, parse, decode with env(), project onto cfg *)

\* envFunction: a name that is not exported yields the empty string
Resolve(v) == IF v \in EnvVar THEN Env[v] ELSE v

\* An empty string does not convert to a number.
NotANumber(numeric, v) == numeric /\ v \in EnvVar /\ Env[v] = Unset

DecodeFails(c) ==
  \/ c.fault = "schema"
  \/ \E b \in DOMAIN c.blocks : \E f \in BlockFields[b] :
       NotANumber(<<b, f>> \in Numeric, c.blocks[b][f])
  \/ \E i \in DOMAIN c.watches :
       NotANumber(TRUE, c.watches[i].attrs["judge_sample_rate"])

\* projectSchema: a declared block replaces the whole block
Project_FieldByField(old, c) ==
  [f \in Field |->
    IF f[1] \in DOMAIN c.blocks /\ c.blocks[f[1]][f[2]] # Unset
    THEN Resolve(c.blocks[f[1]][f[2]]) ELSE old[f]]

Project(old, c) ==
  [f \in Field |->
    IF f[1] \in DOMAIN c.blocks THEN Resolve(c.blocks[f[1]][f[2]]) ELSE old[f]]

ResolvedWatches(c) ==
  [i \in DOMAIN c.watches |->
    [name |-> c.watches[i].name,
     attrs |-> [a \in WatchField |-> Resolve(c.watches[i].attrs[a])]]]

ReadFile(c) ==
  /\ stage = "decode" /\ pending # <<>>
  /\ c.fault # "syntax" /\ ~DecodeFails(c)
  /\ cfg' = Project(cfg, c)
  /\ watches' = watches \o ResolvedWatches(c)
  /\ pending' = Tail(pending)
  /\ seen' = Append(seen, c)
  /\ UNCHANGED <<stage, flags, problems, failure>>

FileUnreadable == stage = "decode" /\ pending # <<>> /\ Refuse("read file")

FileUnparsable(c) ==
  stage = "decode" /\ pending # <<>> /\ c.fault = "syntax" /\ Refuse("parse")

FileUndecodable(c) ==
  /\ stage = "decode" /\ pending # <<>>
  /\ c.fault # "syntax" /\ DecodeFails(c)
  /\ Refuse("decode")

-----------------------------------------------------------------------------
(* The end of Load and of PersistentPreRunE *)

\* overridesFrom, applyFlagOverrides
WithFlags(c) ==
  [f \in Field |-> IF f \in Flagged /\ flags[f] # Unset THEN flags[f] ELSE c[f]]

\* applyDefaultsAfterMerge
WithDefaults(c) ==
  [f \in Field |-> IF f \in Defaulted /\ c[f] = Unset THEN Dflt ELSE c[f]]

\* validateWatches; an empty cadence and a zero rate are accepted
WatchProblem(w, a) == IF a = "query" THEN w.attrs[a] = Unset ELSE w.attrs[a] \in Malformed

LogFields == Fields("log", BlockFields.log)
LogName(f, v) ==
  IF v = Dflt THEN [format |-> "auto", level |-> "info"][f[2]] ELSE Spelling[v]

\* The lists of validate.go, compared by case folding.
ValidLog ==
  [format |-> {"auto", "text", "json"},
   level  |-> {"debug", "info", "warn", "warning", "error"}]

Refused(f, v) ==
  IF f \in LogFields THEN v # Unset /\ LogName(f, v) \notin ValidLog[f[2]] ELSE v \in Malformed

\* Validate: every problem is collected before any is reported
Problems_FieldsFirst(c, ws) ==
  LET fs == {f \in Validated : Refused(f, c[f])}
  IN  IF fs # {} THEN fs
      ELSE UNION {{<<ws[i].name, a>> : a \in {x \in WatchField : WatchProblem(ws[i], x)}} : i \in DOMAIN ws}

Problems_NoLog(c, ws) ==
  {f \in Validated \ LogFields : Refused(f, c[f])}
    \cup UNION {{<<ws[i].name, a>> : a \in {x \in WatchField : WatchProblem(ws[i], x)}} : i \in DOMAIN ws}

Problems(c, ws) ==
  {f \in Validated : Refused(f, c[f])}
    \cup UNION {{<<ws[i].name, a>> : a \in {x \in WatchField : WatchProblem(ws[i], x)}} : i \in DOMAIN ws}

\* The cases of resolveFormat and ParseLevel in slog.go, compared in lower case.
LoggerNames_NoWarning ==
  [format |-> {"auto", "text", "json"}, level |-> {"debug", "info", "warn", "error"}]

LoggerNames ==
  [format |-> {"auto", "text", "json"},
   level  |-> {"info", "debug", "warn", "warning", "error"}]

LoggerRefuses(c) ==
  \E f \in LogFields :
    c[f] # Unset /\ (c[f] \in Folded \/ LogName(f, c[f]) \notin LoggerNames[f[2]])

FinishLoad ==
  LET final == WithDefaults(WithFlags(cfg))
      found == Problems(final, watches)
  IN  /\ stage = "decode" /\ pending = <<>>
      /\ problems' = found
      /\ stage' = IF found = {} /\ ~LoggerRefuses(final) THEN "loaded" ELSE "failed"
      /\ failure' = IF found # {} THEN "invalid"
                    ELSE IF LoggerRefuses(final) THEN "install slog" ELSE failure
      /\ cfg' = IF found = {} THEN final ELSE cfg
      /\ UNCHANGED <<flags, pending, watches, seen>>

ConfigNext ==
  \/ Discover
  \/ \E c \in Contents : ReadFile(c) \/ FileUnparsable(c) \/ FileUndecodable(c)
  \/ FileUnreadable
  \/ FinishLoad

-----------------------------------------------------------------------------
(* Properties.  The reference: what the layers say of a field, read off    *)
(* the files seen, without following the fold.                             *)

DeclaredLastIn(f, i) ==
  /\ f[1] \in DOMAIN seen[i].blocks
  /\ \A j \in DOMAIN seen : j > i => f[1] \notin DOMAIN seen[j].blocks

\* The value v a field gets from the defaults and the files.
FilesSay(f, v) ==
  \/ /\ \A i \in DOMAIN seen : f[1] \notin DOMAIN seen[i].blocks
     /\ v = Defaults[f]
  \/ \E i \in DOMAIN seen :
       DeclaredLastIn(f, i) /\ v = Resolve(seen[i].blocks[f[1]][f[2]])

LayersSay(f, v) ==
  IF f \in Flagged /\ flags[f] # Unset THEN v = flags[f]
  ELSE \E w \in Value :
         FilesSay(f, w) /\ v = IF w = Unset /\ f \in Defaulted THEN Dflt ELSE w

\* Property: a loaded configuration is what its layers say: the flag if one
\* was given, else what the last file that declares the block says of the
\* field (nothing of that block survives from earlier files), else, and for
\* whatever is still zero, the default.  About Load, projectSchema,
\* applyFlagOverrides and applyDefaultsAfterMerge.
LayersRespected == stage = "loaded" => \A f \in Field : LayersSay(f, cfg[f])

\* Property: validation judges the end result and reports all of it: the
\* process refuses its configuration exactly for the fields whose value after
\* every layer is malformed and for every bad watch of every file, never for a
\* value that a later file or a flag has repaired.  About Load's order and
\* Validate's aggregation.
RefusalsJustified ==
  LET bad == {f \in Validated : \E v \in Value : Refused(f, v) /\ LayersSay(f, v)}
      badWatches == UNION {UNION {{<<seen[i].watches[k].name, a>> :
                            a \in {x \in WatchField : WatchProblem(ResolvedWatches(seen[i])[k], x)}} :
                            k \in DOMAIN seen[i].watches} : i \in DOMAIN seen}
  IN  /\ failure = "invalid" => problems = bad \cup badWatches /\ problems # {}
      /\ stage = "loaded" => bad = {} /\ badWatches = {}

\* Property: a configuration that passed validation fails later in the logger
\* for one reason only, a spelling of the format that folds to "json": whatever
\* the layers, no other format and no level that slog.go's cases do not list
\* gets past validate.go's lists.  About the two being kept apart, and about
\* validating the values that are used.
ValidatedIsUsable ==
  failure = "install slog" => problems = {} /\ cfg[<<"log", "format">>] \in Folded

ConfigTypeOK ==
  /\ flags \in Flags \cup {NoFlags}
  /\ pending \in Seq(STRING)
  /\ cfg \in [Field -> Value]
  /\ watches \in Seq([name : STRING, attrs : [WatchField -> Value]])
  /\ failure \in {"none", "read file", "parse", "decode", "invalid", "install slog"}
  /\ seen \in Seq(Contents)
=============================================================================
