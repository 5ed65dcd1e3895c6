----------------------------- MODULE Bootstrap -----------------------------
(***************************************************************************)
(* The two tools that draw a data set from the live store:                 *)
(* dataset-bootstrap's Sampler (a stratified random sample of listings)    *)
(* and judge-bootstrap's surface strategies (candidates for a reviewer)    *)
(* with its apply command.  Both read the store in several calls, while    *)
(* the pipeline goes on extracting and scoring.  The store and the         *)
(* pipeline are interfaces at this commit: modelled from their use.  A     *)
(* behaviour is one command, or a strategy called as the tests call it.    *)
(***************************************************************************)
EXTENDS Integers, Sequences, FiniteSets

CONSTANTS
  Listing,      \* listing IDs, numbered in the order of their IDs
  Windows,      \* what ListingsSince may return: sequences of listings
  ComponentLists, \* what the extractor may give a listing: sequences of [kind, confidence, ver]
  ScoreValue,   \* percentiles; NoScore is not one of them
  NoScore,
  Disputed,     \* listings whose score has a Disagrees or Uncertain judgment
  PerBucket, TotalCap,   \* StratificationConfig
  PerKinds,     \* values of the --per-kind flag, an int of either sign
  Counts,       \* values of the --candidates flag, likewise
  ChangeBound   \* how often the pipeline changes the store

Buckets == {"<0.5", "0.5-0.8", "0.8-1.0"}

ASSUME BootstrapAssumption ==
  /\ Listing \subseteq Nat /\ IsFiniteSet(Listing)
  /\ \A w \in Windows : /\ w \in Seq(Listing)
                        /\ \A i, j \in DOMAIN w : w[i] = w[j] => i = j
  /\ ComponentLists \subseteq Seq([kind : STRING, confidence : 0..100, ver : STRING])
  /\ ScoreValue \subseteq 0..100 /\ NoScore \notin ScoreValue
  /\ Disputed \subseteq Listing
  /\ TotalCap \in Int /\ PerBucket \in [Buckets -> Int]
  /\ PerKinds \subseteq Int /\ Counts \subseteq Int /\ ChangeBound \in Nat

VARIABLES
  comps, score,   \* the store: components and score of each listing
  changes,        \* how often the pipeline has changed it
  bootStep,       \* where the tool is
  strategy,       \* judge-bootstrap's --strategy
  asked,          \* its --candidates, or dataset-bootstrap's --per-kind
  listed,         \* the listings the first call returned
  read,           \* the components read so far, a function on a subset of listed
  scores,         \* the scores read, a function on a subset of listed
  picked,         \* the listings selected
  shown,          \* Sample.Components
  surfaced,       \* what the strategy returned
  examples        \* the few-shots file: its state and the listings it holds

bootVars == <<comps, score, changes, bootStep, strategy, asked, listed, read, scores,
              picked, shown, surfaced, examples>>
storeVars == <<comps, score, changes>>
flagVars == <<strategy, asked>>

\* The registry's "disagreement" has no JudgmentReader; tests give it one.
Strategy == {"ambiguous", "low-confidence", "high-stakes", "disagreement",
             "disagreement-with-reader"}
ListedSet == {listed[i] : i \in DOMAIN listed}
AtMost(m, n) == IF m <= n THEN m ELSE n

BootstrapInit ==
  /\ comps \in [Listing -> ComponentLists] /\ score \in [Listing -> ScoreValue \cup {NoScore}]
  /\ changes = 0 /\ bootStep = "idle" /\ strategy = "ambiguous" /\ asked = 0
  /\ listed = <<>> /\ read = <<>> /\ scores = <<>>
  /\ picked = {} /\ shown = <<>> /\ surfaced = <<>> /\ examples = <<"old", {}>>

(* The pipeline re-extracts or scores a listing *)
Busy == bootStep \in {"components", "scores", "judge-scores", "judge-components"}

PipelineChanges(l) ==
  /\ Busy /\ changes < ChangeBound
  /\ changes' = changes + 1
  /\ \/ \E cs \in ComponentLists : comps' = [comps EXCEPT ![l] = cs] /\ UNCHANGED score
     \/ \E v \in ScoreValue : score' = [score EXCEPT ![l] = v] /\ UNCHANGED comps
  /\ UNCHANGED <<bootStep, flagVars, listed, read, scores, picked, shown, surfaced, examples>>

-----------------------------------------------------------------------------
(* Reading: listings first, components one listing at a time *)

List(first, st, n) ==
  /\ bootStep = "idle"
  /\ listed' \in Windows
  /\ bootStep' = first /\ strategy' = st /\ asked' = n
  /\ UNCHANGED storeVars
  /\ UNCHANGED <<read, scores, picked, shown, surfaced, examples>>

Unread == {i \in DOMAIN listed : listed[i] \notin DOMAIN read}
NextUnread(i) == i \in Unread /\ \A j \in Unread : i <= j

ReadComponents ==
  /\ bootStep \in {"components", "judge-components"}
  /\ \E i \in Unread :
       /\ NextUnread(i)
       /\ read' = [l \in DOMAIN read \cup {listed[i]} |->
                    IF l = listed[i] THEN comps[l] ELSE read[l]]
  /\ UNCHANGED storeVars
  /\ UNCHANGED <<bootStep, flagVars, listed, scores, picked, shown, surfaced, examples>>

\* Any call to the store may fail, the last one being the judgments': the tool
\* reports it and writes nothing.
CallPending ==
  \/ bootStep \in {"idle", "scores", "judge-scores"}
  \/ bootStep \in {"components", "judge-components"} /\ Unread # {}
  \/ bootStep = "judge-components" /\ strategy = "disagreement-with-reader"

StoreFails ==
  /\ CallPending
  /\ bootStep' = "failed"
  /\ UNCHANGED storeVars
  /\ UNCHANGED <<flagVars, listed, read, scores, picked, shown, surfaced, examples>>

ScoresOf(ls) == [l \in {x \in ls : score[x] # NoScore} |-> score[l]]

-----------------------------------------------------------------------------
(* dataset-bootstrap *)

ConfidenceBucketFor(conf) ==
  IF conf < 50 THEN "<0.5" ELSE IF conf < 80 THEN "0.5-0.8" ELSE "0.8-1.0"

\* groupByStrata: the first component carries the dimensions
StratumKey(cs) ==
  IF cs = <<>> THEN [kind |-> "<no-kind>", bucket |-> "", ver |-> ""]
  ELSE [kind |-> cs[1].kind, bucket |-> ConfidenceBucketFor(cs[1].confidence), ver |-> cs[1].ver]

\* selectForKind: a bucket with no count, or a count of zero, takes what --per-kind says
Want(key) ==
  IF key.bucket \in Buckets /\ PerBucket[key.bucket] # 0 THEN PerBucket[key.bucket] ELSE asked

Group(key) == {l \in ListedSet : StratumKey(read[l]) = key}

\* sampleN: every subset of the size asked for is possible
SampleN(S, n) ==
  IF n <= 0 THEN {{}}
  ELSE {T \in SUBSET S : Cardinality(T) = AtMost(n, Cardinality(S))}

\* applyTotalCap keeps the front of the list sorted by ID
Capped(ls) ==
  IF TotalCap <= 0 THEN ls
  ELSE {l \in ls : Cardinality({m \in ls : m <= l}) <= TotalCap}

Strata == {StratumKey(read[l]) : l \in ListedSet}

\* The candidates: listings with a score
CandidateSet == {l \in ListedSet : l \in DOMAIN scores}

\* make with a negative capacity panics: the sampler's as soon as there is a
\* kind; ambiguous returns before it when nothing has a score; high-stakes has
\* no make, but cuts its list at the negative index.
NegativeCap ==
  /\ asked < 0
  /\ \/ bootStep = "components" /\ Strata # {}
     \/ bootStep = "judge-components" /\ (strategy = "ambiguous" => CandidateSet # {})

Panics ==
  /\ bootStep \in {"components", "judge-components"} /\ Unread = {} /\ NegativeCap
  /\ bootStep' = "panicked"
  /\ UNCHANGED storeVars
  /\ UNCHANGED <<flagVars, listed, read, scores, picked, shown, surfaced, examples>>

Select ==
  /\ bootStep = "components" /\ Unread = {} /\ ~NegativeCap
  /\ \E choice \in [Strata -> SUBSET ListedSet] :
       /\ \A key \in Strata : choice[key] \in SampleN(Group(key), Want(key))
       /\ picked' = Capped(UNION {choice[key] : key \in Strata})
  /\ bootStep' = "scores"
  /\ UNCHANGED storeVars
  /\ UNCHANGED <<flagVars, listed, read, scores, shown, surfaced, examples>>

\* The last call, and the components as they were when the strata were formed
FinishSample_Reread ==
  /\ bootStep = "scores"
  /\ scores' = ScoresOf(picked)
  /\ shown' = [l \in picked |-> comps[l]]
  /\ bootStep' = "sampled"
  /\ UNCHANGED storeVars
  /\ UNCHANGED <<flagVars, listed, read, picked, surfaced, examples>>

FinishSample ==
  /\ bootStep = "scores"
  /\ scores' = ScoresOf(picked)
  /\ shown' = [l \in picked |-> read[l]]
  /\ bootStep' = "sampled"
  /\ UNCHANGED storeVars
  /\ UNCHANGED <<flagVars, listed, read, picked, surfaced, examples>>

-----------------------------------------------------------------------------
(* judge-bootstrap: loadAllCandidates reads the scores before the components *)

JudgeScores ==
  /\ bootStep = "judge-scores"
  /\ scores' = ScoresOf(ListedSet)
  /\ bootStep' = "judge-components"
  /\ UNCHANGED storeVars
  /\ UNCHANGED <<flagVars, listed, read, picked, shown, surfaced, examples>>

\* DisagreementStrategy without a JudgmentReader reads nothing
NoJudgments(n) ==
  /\ bootStep = "idle"
  /\ strategy' = "disagreement" /\ asked' = n
  /\ surfaced' = <<>> /\ bootStep' = "surfaced"
  /\ UNCHANGED storeVars
  /\ UNCHANGED <<listed, read, scores, picked, shown, examples>>

Abs(x) == IF x < 0 THEN -x ELSE x

\* sort.Slice: S in any order in which the key does not decrease; equal keys
\* may come out either way
Sorted(S, key) ==
  {s \in [1..Cardinality(S) -> S] :
     /\ \A i, j \in DOMAIN s : s[i] = s[j] => i = j
     /\ \A i, j \in DOMAIN s : i < j => key[s[i]] <= key[s[j]]}

\* Candidates stay in the order ListingsSince returned
Position(l) == CHOOSE i \in DOMAIN listed : listed[i] = l
InOrder(S) == Sorted(S, [l \in S |-> Position(l)])

\* percentileBoundaries: the values at 1/4, 1/2 and 3/4 of the sorted scores
Boundaries ==
  LET n == Cardinality(CandidateSet)
      ascending == CHOOSE s \in Sorted(CandidateSet, scores) : TRUE
  IN  {scores[ascending[1 + k]] : k \in {n \div 4, n \div 2, (3 * n) \div 4}}

DistanceToNearest(l) ==
  LET d == {Abs(scores[l] - m) : m \in Boundaries}
  IN  CHOOSE x \in d : \A y \in d : x <= y

BandPct == 5    \* percentage points, AmbiguousStrategy's BandPct * 100
Threshold == 50 \* LowConfidenceStrategy's Threshold

FirstN(s, n) == SubSeq(s, 1, AtMost(n, Len(s)))

\* The loop over the candidates that takes those of S until there are enough
FirstListed(S) == {FirstN(s, asked) : s \in InOrder(S)}

\* Nearest first, as long as they are in the band
InBand == {l \in CandidateSet : DistanceToNearest(l) <= BandPct}

AmbiguousOut_Unsorted == IF CandidateSet = {} THEN {<<>>} ELSE FirstListed(InBand)

AmbiguousOut ==
  IF CandidateSet = {} THEN {<<>>}
  ELSE {FirstN(SubSeq(s, 1, Cardinality(InBand)), asked) :
          s \in Sorted(CandidateSet, [l \in CandidateSet |-> DistanceToNearest(l)])}

\* The minimum over the components is below the threshold
LowConfidence(l) == \E i \in DOMAIN read[l] : read[l][i].confidence < Threshold

HighestFirst == Sorted(CandidateSet, [l \in CandidateSet |-> -scores[l]])

\* The cutoff of a tenth is raised to n, then cut to n
HighStakesOut ==
  {LET tenth == Len(s) \div 10
       cutoff == AtMost(IF tenth < asked THEN asked ELSE tenth, Len(s))
   IN  FirstN(SubSeq(s, 1, cutoff), asked) : s \in HighestFirst}

Surfaced ==
  CASE strategy = "ambiguous" -> AmbiguousOut
    [] strategy = "low-confidence" -> FirstListed({l \in CandidateSet : LowConfidence(l)})
    [] strategy = "high-stakes" -> HighStakesOut
    [] strategy = "disagreement-with-reader" -> FirstListed(CandidateSet \cap Disputed)

Surface ==
  /\ bootStep = "judge-components" /\ Unread = {} /\ ~NegativeCap
  /\ surfaced' \in Surfaced
  /\ bootStep' = "surfaced"
  /\ UNCHANGED storeVars
  /\ UNCHANGED <<flagVars, listed, read, scores, picked, shown, examples>>

\* apply, a command of its own: any file of candidates will do, accepted ones
\* and ones with notes.  FilterAccepted refuses the file if an accepted one has
\* none; os.WriteFile may fail before or after it has truncated the target.
Apply(accepted, noted) ==
  /\ bootStep = "idle"
  /\ \/ accepted \subseteq noted /\ bootStep' = "applied" /\ examples' = <<"whole", accepted>>
     \/ accepted \subseteq noted /\ bootStep' = "failed" /\ examples' = <<"cut", {}>>
     \/ bootStep' = "failed" /\ UNCHANGED examples
  /\ UNCHANGED storeVars
  /\ UNCHANGED <<flagVars, listed, read, scores, picked, shown, surfaced>>

SampleNext == (\E n \in PerKinds : List("components", strategy, n)) \/ Select \/ FinishSample
JudgeNext ==
  \/ \E st \in Strategy \ {"disagreement"}, n \in Counts : List("judge-scores", st, n)
  \/ \E n \in Counts : NoJudgments(n)
  \/ JudgeScores \/ Surface
  \/ \E accepted, noted \in SUBSET Listing : Apply(accepted, noted)
BootstrapNext ==
  \/ SampleNext \/ JudgeNext \/ ReadComponents \/ Panics \/ StoreFails
  \/ \E l \in Listing : PipelineChanges(l)

BootstrapSpec == BootstrapInit /\ [][BootstrapNext]_bootVars

-----------------------------------------------------------------------------
(* Properties *)

ShownIn(key) == {l \in DOMAIN shown : StratumKey(shown[l]) = key}
Quota(key) == IF Want(key) <= 0 THEN 0 ELSE Want(key)

\* Property: the file is stratified by the very components it shows, whatever
\* the pipeline changed while the sampler was reading: no stratum exceeds its
\* quota, and none falls short of it for lack of anything but listings, or
\* because the total cap was reached exactly.  About Sampler.Run: components
\* are read before the selection and never again, scores after it.
StratifiedSample ==
  bootStep = "sampled" =>
    /\ \A l \in DOMAIN shown : Cardinality(ShownIn(StratumKey(shown[l]))) <= Quota(StratumKey(shown[l]))
    /\ \/ TotalCap > 0 /\ Cardinality(DOMAIN shown) = TotalCap
       \/ \A key \in Strata :
            Cardinality(ShownIn(key)) = AtMost(Quota(key), Cardinality(Group(key)))
    /\ TotalCap > 0 => Cardinality(DOMAIN shown) <= TotalCap
    /\ DOMAIN scores \subseteq DOMAIN shown

\* Whether l is what the strategy looks for, and whether it comes before m.
Qualifies(l) ==
  CASE strategy = "ambiguous" -> \E m \in Boundaries : scores[l] - m \in -BandPct..BandPct
    [] strategy = "low-confidence" -> \E i \in DOMAIN read[l] : read[l][i].confidence < Threshold
    [] strategy = "high-stakes" -> TRUE
    [] strategy = "disagreement" -> FALSE
    [] strategy = "disagreement-with-reader" -> l \in Disputed

Before(l, m) ==
  CASE strategy = "ambiguous" -> DistanceToNearest(l) < DistanceToNearest(m)
    [] strategy = "high-stakes" -> scores[l] > scores[m]
    [] OTHER -> \E i, j \in DOMAIN listed : i < j /\ listed[i] = l /\ listed[j] = m

\* As many as were asked for and qualify; high-stakes, which the docs limit to
\* the top decile and the code does not, may stop there.
Wanted == IF asked < 0 THEN 0 ELSE asked
RightNumber(k, fit) ==
  /\ k <= AtMost(Wanted, fit)
  /\ k >= AtMost(Wanted, IF strategy = "high-stakes" THEN fit \div 10 ELSE fit)

\* Property: a reviewer is shown as many candidates as were asked for and
\* qualify, each once and best first, and none that qualifies is left out in
\* favour of one that ranks behind it.  About the Surface methods,
\* loadAllCandidates and percentileBoundaries.
SurfaceSound ==
  LET out == {surfaced[i] : i \in DOMAIN surfaced}
      fit == {l \in CandidateSet : Qualifies(l)}
  IN  bootStep = "surfaced" =>
        /\ out \subseteq fit
        /\ Len(surfaced) = Cardinality(out)
        /\ RightNumber(Len(surfaced), Cardinality(fit))
        /\ \A l \in fit \ out : \A m \in out : ~Before(l, m)
        /\ \A i, j \in DOMAIN surfaced : i < j => ~Before(surfaced[j], surfaced[i])
=============================================================================
