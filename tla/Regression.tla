----------------------------- MODULE Regression -----------------------------
(***************************************************************************)
(* regression-runner's run command: it loads a directory of baseline       *)
(* entries, asks every backend to extract each listing, and aggregates the *)
(* outcomes and latencies into a report per backend.                       *)
(***************************************************************************)
EXTENDS Integers, Sequences, FiniteSets

CONSTANTS
  Kind,        \* component kinds
  DatasetDir,  \* the *.json names of the directory, in the order it lists them
  Expected,    \* [name -> sequence of kinds], the baseline of each entry
  BackendList, \* the --backend flag, resolved; <<>> if it names no backend
  Extractions, \* what a backend may answer: sequences of kinds
  Latency      \* how long an answer may take

ASSUME RegressionAssumption ==
  /\ DatasetDir \in Seq(STRING) /\ BackendList \in Seq(STRING)
  /\ Extractions \subseteq Seq(Kind) /\ Latency \subseteq Nat
  /\ \A i \in DOMAIN DatasetDir : Expected[DatasetDir[i]] \in Seq(Kind)

VARIABLES
  runStep,   \* "load", "resolve", "extract", "aggregate", "report", "failed", "written"
  entries,   \* the entries loaded, by name
  backend,   \* index into BackendList
  results,   \* the results of the current backend
  tallied,   \* how many of them Aggregate has folded
  counts,    \* OutcomeCounts
  perKind,   \* [Kind and "<no-kind>" -> correct, total]
  report,    \* the BackendReports so far
  outFile    \* what --out holds: "old", "empty" after os.Create, "cut" or "new"

runVars == <<runStep, entries, backend, results, tallied, counts, perKind, report, outFile>>

Outcome == {"exact", "partial", "none"}
AllKinds == Kind \cup {"<no-kind>"}
NoCounts == [o \in Outcome |-> 0]
NoKinds == [k \in AllKinds |-> [correct |-> 0, total |-> 0]]

RegressionInit ==
  /\ runStep = "load" /\ entries = <<>> /\ backend = 1
  /\ results = <<>> /\ tallied = 0 /\ counts = NoCounts /\ perKind = NoKinds
  /\ report = <<>> /\ outFile = "old"

RunFails ==
  /\ runStep' = "failed"
  /\ UNCHANGED <<entries, backend, results, tallied, counts, perKind, report, outFile>>

\* loadLocalDataset: one unreadable or malformed entry ends the run
LoadEntry ==
  /\ runStep = "load" /\ Len(entries) < Len(DatasetDir)
  /\ \/ /\ entries' = Append(entries, DatasetDir[Len(entries) + 1])
        /\ UNCHANGED <<runStep, backend, results, tallied, counts, perKind, report, outFile>>
     \/ RunFails

ResolveBackends ==
  /\ runStep = "load" /\ Len(entries) = Len(DatasetDir)
  /\ runStep' = IF BackendList = <<>> THEN "failed" ELSE "extract"
  /\ UNCHANGED <<entries, backend, results, tallied, counts, perKind, report, outFile>>

\* The kinds agree position by position; with only Kind to compare, exact and
\* partial stand or fall together
MatchComponents(got, expected) ==
  IF Len(got) = Len(expected) /\ \A i \in DOMAIN got : got[i] = expected[i]
  THEN "exact" ELSE "none"

\* executeBackend: an error of the backend counts as no match, and so does a
\* backend that is not configured
Extract(got, took) ==
  /\ runStep = "extract" /\ Len(results) < Len(entries)
  /\ LET name == entries[Len(results) + 1]
         result(o) == [name |-> name, outcome |-> o, latency |-> took]
     IN  results' = Append(results, result(MatchComponents(got, Expected[name])))
  /\ UNCHANGED <<runStep, entries, backend, tallied, counts, perKind, report, outFile>>

ExtractFails(took) ==
  /\ runStep = "extract" /\ Len(results) < Len(entries)
  /\ LET name == entries[Len(results) + 1]
     IN  results' = Append(results, [name |-> name, outcome |-> "none", latency |-> took])
  /\ UNCHANGED <<runStep, entries, backend, tallied, counts, perKind, report, outFile>>

StartAggregate ==
  /\ runStep = "extract" /\ Len(results) = Len(entries)
  /\ runStep' = "aggregate"
  /\ tallied' = 0 /\ counts' = NoCounts /\ perKind' = NoKinds
  /\ UNCHANGED <<entries, backend, results, report, outFile>>

KindOf(name) == IF Expected[name] = <<>> THEN "<no-kind>" ELSE Expected[name][1]

\* One turn of Aggregate's loop
Tally_CorrectOnly ==
  /\ runStep = "aggregate" /\ tallied < Len(results)
  /\ LET r == results[tallied + 1]
         k == KindOf(r.name)
         hit == IF r.outcome = "exact" THEN 1 ELSE 0
     IN  /\ counts' = [counts EXCEPT ![r.outcome] = @ + 1]
         /\ perKind' = [perKind EXCEPT ![k] = [correct |-> @.correct + hit, total |-> @.total + hit]]
  /\ tallied' = tallied + 1
  /\ UNCHANGED <<runStep, entries, backend, results, report, outFile>>

Tally ==
  /\ runStep = "aggregate" /\ tallied < Len(results)
  /\ LET r == results[tallied + 1]
         k == KindOf(r.name)
         hit == IF r.outcome = "exact" THEN 1 ELSE 0
     IN  /\ counts' = [counts EXCEPT ![r.outcome] = @ + 1]
         /\ perKind' = [perKind EXCEPT ![k] = [correct |-> @.correct + hit, total |-> @.total + 1]]
  /\ tallied' = tallied + 1
  /\ UNCHANGED <<runStep, entries, backend, results, report, outFile>>

\* How many latencies are below v, and at most v.
Below(v) == Cardinality({i \in DOMAIN results : results[i].latency < v})
UpTo(v) == Cardinality({i \in DOMAIN results : results[i].latency <= v})

\* percentile: the element at index (p * n) / 100 of the sorted latencies
Percentile(p) ==
  LET n == Len(results)
      idx == IF (p * n) \div 100 >= n THEN n - 1 ELSE (p * n) \div 100
  IN  IF n = 0 THEN 0
      ELSE CHOOSE v \in {results[i].latency : i \in DOMAIN results} : Below(v) <= idx /\ idx < UpTo(v)

FinishAggregate ==
  /\ runStep = "aggregate" /\ tallied = Len(results)
  /\ report' = Append(report, [name |-> BackendList[backend], counts |-> counts, perKind |-> perKind,
                               p50 |-> Percentile(50), p95 |-> Percentile(95), results |-> results])
  /\ runStep' = IF backend < Len(BackendList) THEN "extract" ELSE "report"
  /\ backend' = IF backend < Len(BackendList) THEN backend + 1 ELSE backend
  /\ results' = <<>> /\ tallied' = 0 /\ counts' = NoCounts /\ perKind' = NoKinds
  /\ UNCHANGED <<entries, outFile>>

\* os.Create, which may fail, truncates --out before WriteReport looks at
\* --format.  Writes may fail too, and the errors of the text format's last
\* Flush and of Close are dropped: exit code 0 with half a report.
WriteReport(known) ==
  /\ runStep = "report"
  /\ \/ known /\ runStep' = "written" /\ outFile' \in {"new", "cut"}
     \/ known /\ runStep' = "failed" /\ outFile' = "cut"
     \/ ~known /\ runStep' = "failed" /\ outFile' = "empty"
     \/ runStep' = "failed" /\ UNCHANGED outFile
  /\ UNCHANGED <<entries, backend, results, tallied, counts, perKind, report>>

RegressionNext ==
  \/ LoadEntry \/ ResolveBackends \/ StartAggregate \/ Tally \/ FinishAggregate
  \/ \E took \in Latency : ExtractFails(took) \/ \E got \in Extractions : Extract(got, took)
  \/ \E known \in BOOLEAN : WriteReport(known)

RegressionSpec == RegressionInit /\ [][RegressionNext]_runVars

-----------------------------------------------------------------------------
(* Properties *)

Having(b, P(_)) == Cardinality({i \in DOMAIN b.results : P(b.results[i])})

\* Property: a report is about the whole data set and adds up: every entry has
\* one result per backend, in order; the three counts and the totals per kind
\* both partition the entries, the correct ones of a kind are its exact
\* matches, and at least p per cent of the latencies are at or below the p-th
\* percentile and at most p per cent below it.  About executeBackend, Aggregate
\* and percentile.
ReportSound ==
  \A n \in DOMAIN report :
    LET b == report[n]
    IN  /\ [i \in DOMAIN b.results |-> b.results[i].name] = DatasetDir
        /\ \A o \in Outcome : b.counts[o] = Having(b, LAMBDA r : r.outcome = o)
        /\ \A k \in AllKinds :
             /\ b.perKind[k].total = Having(b, LAMBDA r : KindOf(r.name) = k)
             /\ b.perKind[k].correct = Having(b, LAMBDA r : KindOf(r.name) = k /\ r.outcome = "exact")
        /\ DatasetDir # <<>> =>
             \A p \in {50, 95} :
               LET v == IF p = 50 THEN b.p50 ELSE b.p95
               IN  /\ 100 * Having(b, LAMBDA r : r.latency <= v) >= p * Len(DatasetDir)
                   /\ 100 * Having(b, LAMBDA r : r.latency < v) <= p * Len(DatasetDir)
        /\ b.p50 <= b.p95
=============================================================================
