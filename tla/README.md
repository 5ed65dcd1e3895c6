# A specification of spt

TLA+ modules for the parts of `donaldgifford/spt` that have behaviour: the role
processes with their configuration, telemetry and admin server, the schema
migrations they depend on, the mock eBay server that its clients are tested
against, and the tools that produce and use data sets and dashboards. TLC
checks the modules on small instances; TLAPS proves the properties that matter
most for every value of the constants. Paths are relative to the root of the
repository (`src/` here).

    tlc -config MCHealthServer.cfg MCHealthServer      # a run
    tlapm HealthServerProofs.tla                       # the proofs of a module

## 1. Inventory

At this commit spt is a foundation: roles that start, check the schema, serve an
admin port and stop, a migration command, the configuration and telemetry they
share, and a set of developer tools. The pipeline itself (scheduler, queue,
cache, search, agents, eBay client) exists as interfaces and mocks.

| Component | State | Operations | Interacts with | Hard behaviour | Correct when |
|---|---|---|---|---|---|
| role process: `cmd/spt/main.go`, `internal/app/{api,scheduler,worker}/run.go` | ctx, place in `Run`, channel `adminErr`, telemetry, exit code | load config, `obs.Setup`, `CheckPendingMigrations`, start admin server, select, wait, flush, exit | signals; admin server by goroutine and channel; database; telemetry | a signal at any moment, both cases of the select ready, failures that race a shutdown | the exit code tells the truth, failures are logged, the shutdown order holds, it ends |
| admin server: `internal/health/health.go` | probe map under a lock, listener, `errCh`, requests in flight | `Serve`, `RegisterReadiness`, `/readyz`, `/metrics`, `/healthz`, shutdown | role (ctx, return value), dependencies (probes), HTTP clients | requests, probe replacement, dependency changes and shutdown interleave; deadlines; clients that go away | a status says something true of the dependencies; bounded time; a graceful stop leaves nothing behind; `Serve` returns |
| migrations: `internal/datastore/{migrate,startup}.go`, `internal/app/cli/migrate.go` | table `goose_db_version` and the schema | `up`, `down`, `status`, startup check | processes of several releases on one database | commands overlap or stop half way, stale plans, non-atomic status, releases whose versions are out of order | plans that are not stale, roles serve on their schema, `up` keeps its word and can be resumed |
| configuration: `internal/config`, `internal/app/cli/root.go` | the `Config` under construction, files still to read, problems found | `Load`: discover, read, parse, decode with `env()`, project, flags, defaults, validate; install the logger | file system, environment, command line, roles | a later layer resets what an earlier one said; an error may come at any file; zero values | each setting comes from the last layer that speaks of it, and validation judges that result |
| observability: `internal/obs` | two pipelines: queue, batch, exporter; shutdown calls to make | `Setup`, `SetCategory`, span start and end, shutdown | configuration, roles, collectors | spans that end during the shutdown, a category that changes, calls that fail, the flush deadline | agent spans only to Langfuse, no pipeline stranded, the shutdown ends |
| mock eBay server: `tools/mock-server` | active scenario, fault rules, quota | eBay endpoints, control endpoints, middlewares | concurrent HTTP clients | read-modify-write in two critical sections, rules and scenario that change under requests, two locks for one switch | no rule lost, an answer agrees with some moment of its request, the quota counts the successful calls |
| dataset upload: `tools/dataset-upload` | position in the file, remote data set, exit code | `Upsert`, POST, one retry after 5xx, dry run, signal | Langfuse API | lost answers, answers that lie, a retry without a body, signals | exit code 0 means delivered; at most the item in hand is in doubt |
| dataset and judge bootstrap: `tools/dataset-bootstrap`, `tools/judge-bootstrap` | what was read so far, the selection | stratified sampling, four selection strategies, `apply` | the store, and the pipeline that changes it | reads in several calls of a store that changes; quotas and caps at their boundaries, negative counts; ties | the sample is stratified by what it shows; nothing better is left out |
| regression runner: `tools/regression-runner` | entries, results, tallies, report | load, execute, match, aggregate, write | LLM backends, file system | failing backends, boundaries of the percentiles | the report is about every entry and adds up |
| dashboard generator: `tools/dashgen` | targets and temporary files of one directory | write or compare each target | file system, other runs | kills, failing calls, leftovers, overlapping runs | a file is old or new, never half; the exit code is true of the directory |
| pipeline contracts, domain types | none | interfaces, enumerations | - | - | nothing to check yet |

`PROJECT.json` lists the components with their sources and, under `hazards`, at
which line each hard behaviour bites and which property is about it.

## 2. Modules

| Module | Models | Extends / instantiates |
|---|---|---|
| `AdminContract` | what a role may rely on when it starts `Serve` (abstract) | - |
| `HealthServer`, `MCHealthServer` | `internal/health` in detail | `Contract == INSTANCE AdminContract` |
| `HealthServerProofs` | proofs | `HealthServer` |
| `RoleProcess` | a role process | `Admin == INSTANCE AdminContract` |
| `RoleProcessProofs` | proofs | `RoleProcess` |
| `Migrations`, `MCMigrations` | processes on one database | - |
| `MigrationsProofs` | proofs | `Migrations` |
| `MockServer`, `MCMockServer` | `tools/mock-server` under concurrent clients | - |
| `MockServerProofs` | proofs | `MockServer` |
| `Config` | `Load` and `PersistentPreRunE`, from the first file to the logger | - |
| `Telemetry`, `MCTelemetry` | `Setup`, spans and pipelines, shutdown, after the configuration | extends `Config` |
| `TelemetryProofs` | proofs about both | `Telemetry` |
| `Bootstrap` | dataset-bootstrap and judge-bootstrap on a changing store | - |
| `Regression` | regression-runner | - |
| `ToolsProofs` | proofs about the sampler, the strategies and the reports | `Bootstrap`, `Regression` |
| `Upload`, `UploadProofs` | dataset-upload against an unreliable server; proofs | - |
| `AtomicDir` | what dashgen promises of its directory (abstract) | - |
| `Dashgen`, `DashgenProofs` | runs of dashgen on one directory, call by call; proofs | `Atomic == INSTANCE AtomicDir` |
| `MCPrograms` | a role process or one of the four tools, one program per behaviour | extends `RoleProcess` and the four |

`RoleProcess` does not contain the admin server. It runs against
`AdminContract`, and `HealthServer` is shown to implement `AdminContract`: what
holds of roles with the contract holds of roles with the server. `AtomicDir` has no
user inside the repository; it is what whoever mounts the directory may rely on.

An operator `A_Variant` next to `A` is `A` with a plausible bug. No specification
uses it; substituted for `A` it makes TLC find one property violated
(`mutants` in `PROJECT.json`), which shows that the property depends on the code.

### RoleProcess

`pc` is the place of the main goroutine: `load` (PersistentPreRunE), `setup`
(`obs.Setup`), `migrations` (`CheckPendingMigrations`), `spawn`, `select`, `join`
(waiting for `adminErr` after ctx is done), `flush` (the deferred shutdown of the
telemetry), `main` (back in `run` of `main.go`), `exited`. `err` is the class of
the error on its way up: the only thing `main.go` asks of it is whether it wraps
`context.Canceled`. `cfg` records which optional dependencies are configured,
because only those can fail or observe ctx. `Signal` may happen until the process
has exited. `failures` and `errorLog` are history variables: what really went
wrong, and what was logged about it. In `SelectCancelled` and `SelectAdminErr`
both guards may be true; Go then picks either, and so does TLC.

### HealthServer

`Serve` is `serve` (idle, listen, select, shutdown, returned) with its value
`ret`; the accept goroutine is `listener`; `Shutdown` is the pair `Drained` and
`DrainDeadline`. A request is a slot `r`: `Readyz(r)` copies the probe map under
the read lock, `ProbeAnswers`, `ProbeExpires` and `ProbeCancelled` are the ends of one
iteration of the loop, `Reply(r)` writes the status. The context of a probe derives
from the request's, which `net/http` cancels when the client goes away
(`ClientLeaves`, `gone`): from then on every probe may fail, whatever its dependency
does, and `NoFalseAlarm` is about the requests whose clients waited. Probe names are their ranks in sorted
order. A dependency is `up`, `down` or `silent` (no answer before the deadline)
and changes at any time. `Tick` is a unit of time; it cannot pass over a deadline
that is due. `everUp` and `alwaysUp` are history variables, and for each request
they say which of the copied dependencies were up at some time, or all the time,
since it arrived. Connections accepted earlier may bring a request after the
listener is closed (`Connected`).

### Migrations

`rows` is `goose_db_version` in the order of its ids. A process runs a command of
a release, i.e. with a set of embedded versions `source`. `Up` lists the applied
versions, refuses if one of its versions was skipped, and plans the others;
`Apply` is one transaction (script and row). `Down` plans the row inserted last;
`RollBack` is its transaction. `LookUp` is the query goose makes for each version
during `Status`; the outcome ends a `status` command or decides whether a role
serves. `Fails` and `Interrupt` may happen between any two transactions; a process
that ended may run another command. goose is external: its semantics (list, plan,
refuse out-of-order versions, one transaction for each migration, no lock unless
asked for one) is taken from how `migrate.go` uses it. Nothing but the script itself
notices that a stale plan applies a version for the second time: `Rerunnable` are the
versions whose scripts succeed then (`IF NOT EXISTS`; the one shipped migration, a
plain `CREATE TABLE`, fails), and both kinds are among the three of the instance.
`undone` records rollbacks since a process read the database;
`overlapped` records that two commands that change the schema ran at once.

### MockServer

Each client has one request at a time, answered by a goroutine at `pc`: `match`
and `matched` (fault middleware), `handler`, `applying` (inside
`SetActiveScenario`, between its two assignments), `append` (inside
`handleSetFault`, between `Rules` and `SetRules`), `count` (quota middleware after
a 2xx), `done`. Every critical section of `FaultInjector.mu` or `QuotaState.mu` is
one step. `mu` is `Server.mu` held for writing over two such steps; readers of
`activeScenario` wait for it. `copy` is the slice `Rules` returned. `Write` fixes
the response with the headers set so far, as `net/http` does at `WriteHeader`;
`header` is the header map, which may be changed later, in vain. A rule is the set
of routes its pattern matches and whether it fails never, sometimes or always;
its latency is whatever happens between `Match` and the next step. The history
variables say what a request could have been told since it came (`verdicts`,
`actives`), what the rules would be if appends were atomic (`expected`, until an
append overlaps another change, `raced`), and what happened since the quota was
set last (`origin`, `base`, `carried`, `answered`, `fresh`). Left out: the OAuth
token and analytics endpoints (read-only), filtering and paging of the search,
limit, window and reset time of the quota.

### Config and Telemetry

`stage` is how far the process has come: `discover`, `decode` (as long as files are
`pending`), `loaded`, `running`, `shutdown`, `exited`, or `failed`. A file is read by
a call of its own, so its contents are chosen when it is read: `ReadFile`,
`FileUnreadable`, `FileUnparsable`, `FileUndecodable` are the four ends of one turn
of `decodeFiles`. A field is a pair of block and attribute, with all the blocks and
attributes of `types.go`; a value is unset (the Go zero value), the default, some
other acceptable value, or malformed. The values of the log block stand for names
(`Spelling`): `validate.go` compares them with its lists (`ValidLog`) by case folding,
`slog.go` with its own cases (`LoggerNames`) in lower case, and `Folded` are the values
on which the two ways of comparing differ. `Project` is `projectSchema`: a declared block
replaces the whole block. `FinishLoad` is what follows in one stretch: flags,
defaults, `Validate`, and `installSlog`, which may still refuse (`LoggerRefuses`). `seen` is a history variable, the files as they were when read, and
`LayersSay` reads the value of a field off it without following the fold.

`Setup` turns the loaded configuration into pipelines and forgets it (nothing later
reads `cfg` in this component). A span is started, tagged any number of times, ended;
each pipeline gives it a `fate`, from its queue over a batch to what the exporter made
of it. The queue, the worker (`Collect`, `Export`) and the provider are the SDK's,
modelled from how `tracing.go` wires them: a processor that was told to stop drops
spans, an exporter that was shut down cuts its batch off. `composeShutdown` is `todo`,
the calls still to make, taken in the order of `Rank`; each may fail, and `firstErr`
keeps the first failure. The goroutines of the role go on meanwhile, as they do in
`Run`, whose deferred shutdown waits for none of them. `Setup` passes no Langfuse
exporter yet but `NewTracerProvider` takes one; the model has both cases.

### The tools

`Bootstrap`: `comps` and `score` are the store, which `PipelineChanges` may change
between any two calls. `listed`, `read`, `scores` are what the calls returned.
The sampler reads components first and scores last, the judge strategies the other way
round. `SampleN` allows every subset of the right size, which is what the generator
may produce; `Sorted` every order that `sort.Slice`, which is not stable, may leave.
A listing has any number of components; the sampler looks at the first, the
low-confidence strategy at the least confident. `asked` is `--per-kind` or
`--candidates`, an int of either sign: a negative one makes `make` panic, or
high-stakes cut its list at a negative index (`NegativeCap`, `Panics`). The registry's
`disagreement` has no `JudgmentReader` and returns nothing without reading
(`NoJudgments`); `disagreement-with-reader` is the strategy with one, as the tests
build it. `Apply` takes any file of candidates, whoever wrote it, and `os.WriteFile`
may fail before or after it has truncated the few-shots file (`examples`). Neither
`list` nor `sample` is connected to a store yet (they return an error that says so);
the model is of the library code their tests run.

`Regression`: `LoadEntry`, `ResolveBackends`, `Extract` and `ExtractFails` (one call of
a backend each), `Tally` (one turn of `Aggregate`'s loop), `FinishAggregate`,
`WriteReport`. `PartialMatch` cannot be reached while `Component` has only a kind, and
the model has no action that produces it. `WriteReport` drops the errors of the last
`Flush` and of `Close`, so a run may end with exit code 0 and a report cut off (`cut`).

`Upload`: `Upsert`'s position is `pos`; each POST has one action for each kind of
answer. A 5xx answer and a lost one leave open whether the item was stored
(`MayStore`). `RetryFails` is the ordinary outcome of the retry: `Do` is called again
with a request whose body was consumed, which fails before anything is sent, unless
the transport uses a kept connection and rewinds. IDs are injective in the model.

`Dashgen`: names refer to inodes, because two runs share the name of the temporary
file: `OpenTmp` truncates what the name refers to, `WriteTmp` writes to what was
opened, `RenameTmp` renames what the name refers to then. `Stop` is a failing call or
a kill. The generator handles no signal; its context is never looked at.
`AtomicDir` has neither inodes nor temporary files nor positions: a target is absent or
one version (`content`), and a run is writing, validating or ended (`stage`); a run
starts when no other is under way. The refinement mapping is `Contents` (what a reader
finds behind the name of the target) and `Stages` (`open`, `write` and `rename` are all
"writing"); opening, writing and all comparisons but the last map to stuttering, the
rename to `Publish`, the last comparison to `Judge`, a judgement of the whole directory
at once. `AtomicWhileAlone` relates every step up to the first overlap. What the tool's
README promises of overlapping runs, `Whole`, does not hold (`dashgen_overlap`).

`MCPrograms` runs one program in each behaviour: a role process or one
of the tools; it extends their modules, so the properties checked are the ones stated there.

## 3. Runs

| Run | Instance | Shows |
|---|---|---|
| `role_signal_exit` | `RoleProcess`, no constants, complete | violation of `NonZeroOnlyOnFailure` |
| `health` | 1 request slot, 1 scraper, 2 names, 2 probes, timeouts 2 and 3; 1,096,240 states | `ReadyVouches`, `NoFalseAlarm`, `RequestBound`, `ClosedMeansDrained`, `ImplementsContract` |
| `health_request_bound` | same | violation of `WholeRequestBound` |
| `migrations` | 2 processes, versions 1..3, an append-only and an out-of-order history of releases; 753,607 states up to symmetry | `ServedSchema`, `UpDelivers`, `PlansAreFresh`, `UpNeverRefused`, `StackWhileAlone` |
| `migrate_interrupt` | same | violation of `UpExitZeroMeansApplied` |
| `mock_server` | 2 clients, 3 scenarios, 2 rules, `MaxCalls` 2, `MaxRules` 2; about 3,600,000 states up to symmetry | `FaultsJustified`, `ServesActive`, `QuotaFollowsScenario`, `QuotaCounts`, `RulesWhileAlone` |
| `mock_lost_rule` | same | violation of `RulesAppended` |
| `mock_headers` | same | violation of `HeadersStamped` |
| `telemetry` | a directory of up to 2 files and one `--config` file, 8 contents, 3 command lines, 2 spans, queue bound 1; about 620,000 states | `LayersRespected`, `RefusalsJustified`, `ValidatedIsUsable`, `SplitAtEnd`, `NothingStranded`, `ShutdownEnds` |
| `telemetry_flush` | same | violation of `ShutdownFlushes` |
| `programs` | a role, complete (200 states); 2 initial stores of components and 3 of scores, counts of either sign, 3 baseline entries, 2 backends, 2 uploads of 2 files, 3 dashgen runs on 2 targets; about 562,000 states | of roles `ExitZeroOnlyIfAsked`, `StartupFailureExitsOne`, `StaysUp`, `AdminFailureLogged`, `TelemetryOutlivesAdmin`, `Terminates`; of the tools `StratifiedSample`, `SurfaceSound`, `ReportSound`, `UploadDelivers`, `OnlyOneInDoubt`, `WholeWhileAlone`, `VerdictHonest`, `AtomicWhileAlone` |
| `dashgen_overlap` | `Dashgen`, 2 runs, 2 targets, 2 versions | violation of `Whole` |

Each passing run also checks the type invariant of its module (`programs` that of the
role; the tools have theirs in the proofs), which has content where
values are computed: exit codes stay in {0, 1}, deadlines do not exceed the
timeouts.

Bounds. `RoleProcess` has none: its state is finite as it is. In `health`, slots
of requests do not interact (a request reads the shared map once, and writes
nothing), so one slot that is used again and again meets every interleaving; two
names are the least at which one probe may succeed while another fails, at which
the bounds of probes add up, and at which replacing a probe differs from adding
one, and a client may leave at any point of its request; the timeouts are small but different, and larger than one, so that a
dependency can change between two ticks of one probe. In `migrations`, two
processes are the least that can overlap, and a process runs any number of
commands one after the other; three versions are the least with a release that is
two steps ahead (so that `up` can stop half way) and with one merged out of
order; one of them can be run twice. In `mock_server`, two clients are the least at which a change comes between
two steps of a request, and each client makes any number of requests; the three
scenarios are the default without a quota and two whose quotas differ, one of
which overrides an item; of the two rules one shields requests from the other, so
that their order matters; two calls between settings of the quota are one that is
counted late and one that is not. `MaxCalls` and `MaxRules` only delay the arrival
of requests. In `telemetry`, three files are the least at which a block is declared,
replaced and left alone; the contents have between them a value that a later layer
repairs and one that none does, a block replaced by one with fewer attributes,
`env()` of a set and of an unset name on a number, a log format in another case and
one that only folds to "json", and bad watches; the command lines give a good level
("Warning") and a bad format. Two spans and a queue of one are the least at which a
span is dropped and one pipeline is behind the other. In `programs`, four scored
listings are the least at which the lowest score is no percentile boundary; windows
of two and four, a bucket whose count is zero, a quota of two and a cap of two make
each limit bind in some behaviour and not in another, a listing whose second component is
the weak one and counts below zero take the paths of their own, and one change of the store
falls between any two reads; three latencies of two values put a percentile on a tie;
the second upload starts from what the first left; the third dashgen run starts from
what two overlapping ones left. Symmetry is used for processes and clients only, in
runs without liveness. The proofs remove these bounds for most safety properties
(section 4).

Deadlock is checked except for `RoleProcess`, `MCTelemetry`, `MCPrograms` and
`Dashgen`, whose processes end.

Fairness. `RoleProcess`: the main goroutine and the sender are scheduled when they
can proceed; calls made at startup return (the connections have timeouts); the
admin server makes the progress its contract promises. No signal and no failure
is ever owed, so `Terminates` starts from one. `HealthServer`: the goroutines of
`Serve` and of a request are scheduled and the clock advances; no client, no
dependency and no scrape owes anything. In particular a scrape may take forever,
and it is the 5s bound on `Shutdown` that makes `ImplementsContract` hold.
`Migrations` states no liveness: an operator may stop at any point. `MockServer`
states none either: no client owes a request and a latency may be as long as one
likes. `Telemetry`: the goroutine that runs the deferred shutdown is scheduled, and
five seconds pass (`WF` of `ShutdownStep` and of `DeadlineExpires`); a collector that
never answers and a worker that never finishes are allowed, and it is
`context.WithTimeout` that makes `ShutdownEnds` hold. That the exporters' own
`Shutdown` returns is taken from the SDK, which gives each call that context. The
tools state no liveness.

### What the violations show

- `role_signal_exit` (a bug): once ctx is cancelled the admin goroutine may deliver
  `ErrServerClosed` before the main goroutine evaluates its select. Then both cases
  are ready, and if Go takes `<-adminErr` the role logs "admin server failed",
  returns `ErrServerClosed` and exits with 1 on an ordinary SIGTERM, although
  `cmd/spt/main.go:43-45` reserves a non-zero exit for failures.
- `health_request_bound` (a comment): `internal/health/health.go:32-33` speaks of a
  parent deadline for the whole request. There is none; two silent probes take
  twice `probeTimeout`. `RequestBound` is the bound that does hold.
- `migrate_interrupt` (a bug): `main.go` turns every error that wraps
  `context.Canceled` into exit code 0, which its comment justifies for "a role's
  Run" only. A migration Job that is stopped between two migrations looks
  complete. `UpDelivers` is what remains true.
- `mock_lost_rule` (a bug): two concurrent `POST /admin/fault` both copy the rules
  and the second `SetRules` drops the rule of the first, with a 200 for each; a
  post that overlaps `"clear": true` brings cleared rules back. `RulesWhileAlone`
  is what holds: no overlap, nothing lost.
- `mock_headers` (a bug): the `X-EBAY-*` headers are set after the handler has
  written the response, so no client ever receives them. A test that reads them
  from `httptest.ResponseRecorder.Header()` sees the live map and passes.
- `telemetry_flush` (a bug): `NewTracerProvider` appends each exporter's `Shutdown` to
  the list before `tp.Shutdown`, which is what drains the batch processors. On every
  orderly stop, what is still queued (up to five seconds of spans) is exported to an
  exporter that is already down, although the comment promises that the shutdown
  flushes both pipelines. `NothingStranded` is what remains: every pipeline is
  stopped, none waits.
- `dashgen_overlap` (a doc): `tools/dashgen/README.md:37` says that writing to `.tmp`
  and renaming keeps the tree consistent under concurrent runs. All runs use the same
  `<target>.tmp`: a second run truncates the file that the first is about to rename,
  and the target is half a file. `WholeWhileAlone` and `AtomicWhileAlone` are what
  holds: runs that follow each other, whatever became of them.

Seen while modelling, and not given a run: `spt migrate status` returns nil when
versions are pending although `internal/app/cli/migrate.go:73-75` says the error
sets the exit code; a role whose release has a migration older than one already
applied is told to run `spt migrate up`, which goose then refuses
(`UpNeverRefused` needs `AppendOnly` for this reason). In `tools/mock-server`:
`quota.go:50-52` says zero-valued fields of a snapshot leave the value intact, but
the counter is always set; `README.md:59` posts `"reset_after": "23h"`, which is
refused because a `time.Duration` decodes from a number; `handlers.go:170` says an
empty body clears the rules, but it is refused as invalid JSON; a negative
`offset` makes the search panic. In `internal/config`: an explicit zero cannot be
told from an omitted attribute, so `span_sampling = 0` becomes 1.0; watches of the same
name in two files are both kept; the comment on `envFunction` recommends `coalesce()`,
which the loader does not register; `validate.go` compares by Unicode case folding and
`slog.go` lowers the case, so a spelling such as `jſon` passes the first and not the
second (`Folded`; `ValidatedIsUsable` says it is the only such gap). In `internal/obs`: `types.go:94` calls
`span_sampling` the ratio "for system spans", but the sampler sits before both
pipelines. In the tools: `high-stakes` labels every candidate "top-decile score"
(`strategy.go:151,159` and the README say so too), but its cutoff is raised to the
number asked for, so on fewer candidates than ten times that number it goes beyond the
decile (`SurfaceSound` accepts any number between the two and says which ones they
are); `--strategy disagreement` never returns anything, its `JudgmentReader` being nil;
a negative `--per-kind` or `--candidates` panics; the dropped `Flush` error lets `run`
exit with 0 and half a report; `--per-kind` is per stratum, and a bucket
count of zero means `--per-kind`, not none; `percentile` is one rank above nearest rank
where p·n/100 is whole (`ReportSound` states what holds in both cases);
`backend.go:18-22` says an unconfigured backend is skipped, but it counts as no match
throughout; `run` creates, and so truncates, `--out` before it looks at `--format`
(`WriteReport`); `langfuse.go:61-63` speaks of updates in place, which cannot happen
with IDs that are hashes of the content; an interrupted upload exits with 0, as the
interrupted migration does.

## 4. Proofs

All proofs hold for arbitrary constants, under the assumptions that the modules
name: `NamesAssumption` (probe names are finitely many ranks), `ProbesAssumption`,
`TimeoutAssumption` (timeouts are positive), `VersionAssumption` (versions are
naturals), `HistoriesAssumption` (releases are sets of versions), `RerunAssumption`
(any of them may be run twice), and in
`MockServer` `ScenarioAssumption`, `RuleAssumption`, `RequestAssumption` (what is
loaded and posted is well formed), `ClientAssumption` (finitely many clients) and
`BoundAssumption`; `ConfigAssumption` (values are of one kind only, files are well
formed where they parse, and only "json" has spellings that fold to it in another
lower case), `TelemetryAssumption`, `UploadAssumption`, `DashgenAssumption`,
`BootstrapAssumption` (finitely many listings, no listing twice in a window, whole
numbers of either sign for counts and quotas) and `RegressionAssumption`.

**RoleProcessProofs.** `IInv` ties `pc` to the rest: where the main goroutine is
determines which errors are possible, whether the telemetry is up, whether the
admin server was started and what became of its result (delivered, received,
logged). The properties of the exit follow because each forgets something that
happened many steps earlier (which case of the select was taken, what `err` was
then) and `IInv` carries it. The six safety properties are theorems.
`OnlyTheRaceMisreports` says how far the bug of `role_signal_exit` reaches: a non-zero
exit without a failure always comes from the select that took the value of an orderly
stop, and it is in the log. `Terminates` has its argument proved up to fairness: `StepsLeft` is
a natural number that every step makes smaller (`EveryStepCounts`), and once a signal or
a failure asks for the end, the guard of the main goroutine, of the server's progress
or of the sender is true (`NoLostWait`). What fairness adds is that such a step is taken.

**HealthServerProofs.** `Inv == TypeOK /\ ServeInv /\ VouchInv`. `VouchInv` is the
loop invariant of `handleReadyz` against a moving world (`VouchEndProbe` is its step): as long as `allOK` holds,
every probe already called was up at some time since the request arrived, and once
it is false some copied dependency was not up all the time or the client is gone. `ServeInv` ties the
return value to the listener; `InFlightStep` says no request can appear without a
connection. `TimeInv` bounds the time used by the number of probes called so far
and gives `RequestBound` for any number of probes (`ProductStep` and the
cardinality theorems). `ContractStep` is the step of the refinement: every step of
`HealthServer` is a step of `AdminContract` or leaves it unchanged
(`ContractSafety`).
`OneProbeKeepsTheBound` says how far the violation of `WholeRequestBound` reaches: it
takes a second probe. `RequestsAdvance` is the other half of the bound: what a request
has left to do was fixed when it took its snapshot and only shrinks. `StopIsFinal` rests
on `ServeInv` (once `Serve` has returned `ErrServerClosed` nobody is connected): nothing
is taken or answered any more.

**MigrationsProofs.** Lemmas first: what `Append` and `RemoveAt` do to the set and
the order of the rows, and what no step of any process changes (`StepEffect`). `KnowsInv` says of each process that what it has looked up,
planned or delivered is applied or was undone since; with `TypeOK` and
`RowsDiffer` (no version has two rows) it is inductive and gives `CheckSound` and `UpComplete`. `StackInv` (one command at work, ascending rows, a plan above
all rows or equal to the last) and `GapInv` (no release has a version skipped, and
the source of an `up` at work is applied or planned) are inductive as long as no
two commands overlapped; they give `StackDiscipline` and `AlwaysResumable`. The
heart is `ApplyLeavesNoGap`: a version below the one just applied belongs to the
same release line, hence to the source of the `up`, hence it is applied.
`AloneNeverStale` is `PlansAreFresh`: goose reads the rows once and works off what it
read, which is never stale until commands overlap, whatever the scripts are.
`CommandsAdvance` is the argument that a command ends: what it has left to look up or to
carry out only shrinks, whatever the others do.

**MockServerProofs.** `Inv == TypeOK /\ LockInv /\ AppendInv`: who is half way
through a scenario switch holds `mu` and `scenario` is its own; who is half way
through an append posted a rule. On top of it one invariant for each property.
`FaultInv` and `ReadInv` keep, for every place of a request, what it has found so
far inside its history; `Growth` says that histories of requests under way only
grow, so only the one client that steps is looked at (`Frame`). `AloneInv` says
that a client in `append` copied the rules in force. `CountInv` is the balance of
the counter: what it holds beyond `base` is the number of calls finished or
counted since, plus at most the carried-over ones that are no longer pending, as
cardinalities of sets of clients; `CountQuiet` disposes of the steps
that touch none of these. All six properties of the run are theorems.
`HeadersNeverSent` strengthens the finding of `mock_headers` from a counterexample to
all responses: the header map is filled only when the response is out.
`OnlyOverlapLosesRules` bounds `mock_lost_rule`: with `AloneInv`, an append drops a
rule only after an append has overlapped another append or a clear. `ReplyInv` (no reply before the
handler is through) gives `AnsweredOnce`: a request goes forward through at most six
places and its reply stands. `LocksAreFree` excludes a deadlock of `Server.mu` and
`QuotaState.mu` for any number of clients.

**TelemetryProofs.** `FoldOK` says that, while files are read, every field of `cfg` is
what the files seen so far say of it (`FilesSay`) and `watches` holds exactly their
watches; one file more changes both sides alike, because a declared block becomes the
last declaration (`ReadFileFold`). `FinishLoad` then computes what `LayersSay` describes
(`FinalSays`), and `FilesSayOne` says there is only one such value; that gives
`LayersAreRespected` and `RefusalsAreJustified`. `ListsAgree` compares the two lists of
log formats and levels, for any value and any spelling of it, and gives
`ValidatedConfigsAreUsable`.
`SplitAtEnd` is inductive with the types, because a category is set on open spans only.
For `NothingIsStranded`, `ExportersDown` and `ProcessorsDown` say what a call that is no
longer on the list has achieved: the exporter is down; the processor was stopped and
has nothing waiting, unless the deadline expired and an error was kept. A stopped
processor takes no span, so a span that ends late does not undo this.
`FatesAreFinal` is the action property that nothing changes what became of a span, and
`OnlyShutdownCuts` bounds the loss of `telemetry_flush` with it: a span is cut off only
by an exporter the shutdown has put down, so a running role cuts off none.
For `ShutdownEnds`: `Left` is the set of what the shutdown still has to do; it is finite,
every call takes something out of it and nothing puts anything back (`ShutdownAdvances`).
Fairness adds that time passes and that, once it has, a call is made.

**UploadProofs.** `UploadInv` adds to `OnlyOneInDoubt` where the position is when a run
waits for a retry or has ended. `LeftInDoubt` is the shape shared by the six actions
after which an item may or may not have been stored.
`UploadAdvances` is its termination argument: `Ahead` counts the items from the one in
hand on, a second try for each and the signal, and every step of a run makes it smaller.

**DashgenProofs.** As long as no runs overlapped, at most one is active and it owns
every temporary name; the inode it writes is no target's (`OpenTmp` takes an inode
that no target refers to), and the targets before its position hold its version
(`OnlyOne`, `Apart`, `Whole`, `Doing`, together `AloneInv`). For
`VerdictHonestHolds` the invariant also says that `drifted` is true exactly if some
target compared so far differs, which stays true because nobody else writes.
`AtomicWhileAloneHolds` is the refinement: `AtomicStep` has one case for each action,
`WritesApart` shows that opening and writing are invisible, and `HonestStep` (the step
that ends a run) that a result agrees with the abstract directory as a whole.
`InodesSuffice` concerns the model itself: `Inode` is finite, and if it ran out a run
would be stuck in the model and not in the code. A pigeonhole argument
(`InodeLeftOver`: targets, temporary names and open files refer to fewer inodes than
there are) shows that it never does.

**ToolsProofs.** Counting arguments. `SelectionOK` is `StratifiedSample` in terms of the
strata as they were read; `SelectKeeps` shows that the selection establishes it, since
strata are disjoint (a listing chosen for one is in no other) and `applyTotalCap` takes
whole listings away (`CutAtRank`: those of rank up to the cap are as many as the cap, or
all there are). Nothing the pipeline changes afterwards touches it. For `ReportSound`,
`TallyOK` is the loop invariant of `Aggregate`, with the sets of results folded so far
(`OneMore`, `TallyKeeps`), and `SortedElement` says that the element at an index of the
sorted latencies exists and how many lie on either side of it, which gives the bounds of
`percentile` and `p50 <= p95`. For `SurfaceSound` no induction over `sort.Slice` is
needed: `Sorted` describes its result, and what its front holds follows from the
order alone (`FitFacts`, `TakenIsRight` for the number taken). `FrontOfSorted`: if those that are fit are exactly the ones with the
smallest keys, the front of the list, cut at the number asked for, holds only fit ones,
as many as there are or as were asked for, and none left out has a smaller key.
`SortExists` (the place of an element is the number of those before it) shows that there
is such a list to take the percentile boundaries from, and `DistanceFacts` turns the
distance to the nearest of them into the band the strategy announces. `JudgeInv` then
carries `SurfacedSound` over the changes that the pipeline makes to the store afterwards.
`EveryBackendReported` follows the index of the backend through the run: one report for
each backend in the order of the flag, and an earlier `--out` untouched until the last.

Every safety invariant and every action property of the passing runs is a theorem. Only
model-checked: the liveness properties `Terminates` and `ShutdownEnds` and the liveness
half of `ImplementsContract`, because the prover has no rule that brings `ENABLED` and
`WF` together with a measure; what they rest on besides fairness is proved, as said
above, for the first two. The six violations are counterexamples and need no proof;
what remains true in their place is: `OnlyTheRaceMisreports`, `TimeBound`, `UpComplete`,
`AppendsAlone`, `HeadersNeverSent`, `OnlyShutdownCuts`, `OneProbeKeepsTheBound`,
`OnlyOverlapLosesRules`.

## 5. Not modelled

Left out: the interfaces of the pipeline (no implementation at this
commit), domain types, mocks, dashboards and charts (data), flag parsing, log
formats and rendering, `/healthz` (no state), the process around the mock server
(`tools/mock-server/main.go`, the same select and bounded `Shutdown` as the admin
server's). Abstracted: error texts, HTTP and
SQL payloads, wall-clock values, the text of values and files. The SDK's processors are
taken from their documented contract; a race between `OnEnd` and the stop of a
processor inside the SDK is not modelled. Pointer sharing (`Load` returns a `Config`
whose slices nobody else holds) needs no model. Not covered by `Migrations`: a connection lost
while a COMMIT is on its way, where the client does not know the outcome; it is
either `Apply` followed by `Fails` or `Fails` alone, except that the commit might
become visible after the next command has read the database.
