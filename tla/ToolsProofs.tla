---------------------------- MODULE ToolsProofs ----------------------------
(***************************************************************************)
(* Proofs about the sampler and the surface strategies of Bootstrap and    *)
(* about the reports of Regression, for every store, window, quota, data   *)
(* set and backend.  All are counting arguments: how many listings have a  *)
(* rank up to the cap, what the front of a sorted list holds, and how many *)
(* latencies lie on either side of an element of the sorted list.          *)
(***************************************************************************)
EXTENDS Bootstrap, Regression, FiniteSetTheorems, TLAPS

-----------------------------------------------------------------------------
(* Finite sets of naturals *)

\* Lemma: a set of naturals has a least element.
LEMMA LeastNatural ==
  ASSUME NEW S \in SUBSET Nat, S # {}
  PROVE  \E x \in S : \A y \in S : x <= y
<1> DEFINE R == {ss \in Nat \X Nat : ss[1] < ss[2]}
<1>1. IsWellFoundedOn(R, Nat)
  BY NatLessThanWellFounded DEF OpToRel
<1> HIDE DEF R
<1>2. PICK x \in S : \A y \in S : ~ (<<y, x>> \in R)
  BY <1>1, WFMin
<1>3. \A y \in S : ~ (y < x)
  BY <1>2 DEF R
<1> QED  BY <1>3

Rank(S, l) == Cardinality({m \in S : m <= l})

\* Lemma: the elements of rank up to a positive cap are as many as the cap, or
\* they are all there are.  This is what applyTotalCap's cut of the sorted list is.
LEMMA CutAtRank ==
  ASSUME NEW S \in SUBSET Nat, IsFiniteSet(S), NEW cap \in Nat \ {0},
         NEW T, T = {l \in S : Rank(S, l) <= cap}
  PROVE  Cardinality(T) <= cap /\ (Cardinality(T) = cap \/ T = S)
<1> DEFINE n == Cardinality(S)
           r == [l \in S |-> Rank(S, l)]
           t == [l \in T |-> Rank(S, l)]
<1>1. n \in Nat
  BY FS_CardinalityType
<1>2. \A l \in S : Rank(S, l) \in 1..n
  <2> TAKE l \in S
  <2>1. /\ IsFiniteSet({m \in S : m <= l}) /\ Rank(S, l) <= n
        /\ {m \in S : m <= l} # {}
    BY FS_Subset DEF Rank
  <2>2. Rank(S, l) \in Nat /\ Rank(S, l) # 0
    BY <2>1, FS_CardinalityType, FS_EmptySet DEF Rank
  <2> QED  BY <1>1, <2>1, <2>2
<1>3. \A l, m \in S : l < m => Rank(S, l) < Rank(S, m)
  <2> TAKE l, m \in S
  <2> HAVE l < m
  <2> DEFINE A == {k \in S : k <= l}
             B == {k \in S : k <= m}
  <2>1. IsFiniteSet(B) /\ A \in SUBSET B /\ A # B
    <3>1. IsFiniteSet(B)
      BY FS_Subset
    <3>2. m \in B /\ m \notin A
      OBVIOUS
    <3>3. \A k \in S : k <= l => k <= m
      OBVIOUS
    <3> QED  BY <3>1, <3>2, <3>3
  <2> HIDE DEF A, B
  <2>2. Cardinality(A) <= Cardinality(B) /\ Cardinality(A) # Cardinality(B)
    BY <2>1, FS_Subset
  <2>3. Cardinality(A) \in Nat /\ Cardinality(B) \in Nat
    BY <2>1, FS_Subset, FS_CardinalityType
  <2> QED  BY <2>2, <2>3 DEF A, B, Rank
<1>4. \A l, m \in S : Rank(S, l) = Rank(S, m) => l = m
  <2> TAKE l, m \in S
  <2>1. l < m \/ l = m \/ m < l
    OBVIOUS
  <2> QED  BY <1>2, <1>3, <2>1
<1>5. IsFiniteSet(T) /\ T \subseteq S
  BY FS_Subset
<1>6. t \in Injection(T, 1..cap)
  <2>1. \A l \in T : Rank(S, l) \in 1..cap
    BY <1>2
  <2>2. t \in [T -> 1..cap]
    BY <2>1
  <2> QED  BY <1>4, <2>2 DEF Injection, IsInjective
<1>7. IsFiniteSet(1..cap) /\ Cardinality(1..cap) = cap
  BY FS_Interval
<1>8. Cardinality(T) <= cap
  BY <1>6, <1>7, FS_Injection
<1>9. ASSUME T # S PROVE Cardinality(T) = cap
  <2>1. PICK l \in S : Rank(S, l) > cap
    <3>1. PICK l \in S : l \notin T
      BY <1>5, <1>9
    <3>2. ~ (Rank(S, l) <= cap)
      BY <3>1
    <3> QED  BY <1>1, <1>2, <3>2
  <2>2. IsFiniteSet(1..n) /\ Cardinality(1..n) = n
    BY <1>1, FS_Interval
  <2>3. r \in Injection(S, 1..n)
    <3>1. r \in [S -> 1..n]
      BY <1>2
    <3> QED  BY <1>4, <3>1 DEF Injection, IsInjective
  <2>4. r \in Surjection(S, 1..n)
    BY <2>2, <2>3, FS_Injection
  <2>5. \A k \in 1..cap : \E m \in T : t[m] = k
    <3> TAKE k \in 1..cap
    <3>1. k \in 1..n
      BY <1>1, <1>2, <2>1
    <3>2. PICK m \in S : r[m] = k
      BY <2>4, <3>1 DEF Surjection
    <3>3. m \in T
      BY <3>2
    <3> QED  BY <3>2, <3>3
  <2>6. t \in Surjection(T, 1..cap)
    BY <1>6, <2>5 DEF Injection, Surjection
  <2> QED  BY <1>6, <1>7, <2>6, FS_Injection
<1> QED  BY <1>8, <1>9

-----------------------------------------------------------------------------
(* The sampler *)

\* The selection respects quotas and cap, and falls short of a quota only for
\* lack of listings or at the cap: StratifiedSample in terms of the strata as
\* they were read, from the selection on.
SelectionOK ==
  /\ picked \subseteq ListedSet
  /\ \A key \in Strata : Cardinality(picked \cap Group(key)) <= Quota(key)
  /\ TotalCap > 0 => Cardinality(picked) <= TotalCap
  /\ \/ TotalCap > 0 /\ Cardinality(picked) = TotalCap
     \/ \A key \in Strata :
          Cardinality(picked \cap Group(key)) = AtMost(Quota(key), Cardinality(Group(key)))

BootInv ==
  /\ listed \in Seq(Listing) /\ asked \in Int
  /\ bootStep \in {"scores", "sampled"} => SelectionOK
  /\ bootStep = "sampled" => /\ shown = [l \in picked |-> read[l]]
                             /\ DOMAIN scores \subseteq picked

\* Lemma: what a window holds are finitely many listings, so strata are finite.
LEMMA ListedFacts ==
  ASSUME listed \in Seq(Listing)
  PROVE  /\ ListedSet \subseteq Listing
         /\ IsFiniteSet(ListedSet) /\ ListedSet \subseteq Nat
         /\ \A key : IsFiniteSet(Group(key)) /\ Group(key) \subseteq ListedSet
<1>1. ListedSet \subseteq Listing
  BY DEF ListedSet
<1>2. IsFiniteSet(ListedSet) /\ ListedSet \subseteq Nat
  BY <1>1, BootstrapAssumption, FS_Subset
<1>3. \A key : Group(key) \in SUBSET ListedSet
  BY DEF Group
<1> QED  BY <1>1, <1>2, <1>3, FS_Subset

\* Lemma: quotas are naturals, and what sampleN may return are the subsets that
\* fill the quota as far as the stratum does.
LEMMA SampleFacts ==
  ASSUME asked \in Int, NEW key, IsFiniteSet(Group(key)), NEW T \in SampleN(Group(key), Want(key))
  PROVE  /\ Quota(key) \in Nat /\ T \subseteq Group(key)
         /\ Cardinality(T) = AtMost(Quota(key), Cardinality(Group(key)))
<1>1. Want(key) \in Int
  BY BootstrapAssumption DEF Want
<1>2. Quota(key) \in Nat
  BY <1>1 DEF Quota
<1>3. Cardinality(Group(key)) \in Nat
  BY FS_CardinalityType
<1>4. CASE Want(key) <= 0
  <2>1. T = {} /\ Quota(key) = 0
    BY <1>4 DEF SampleN, Quota
  <2> QED  BY <1>3, <2>1, FS_EmptySet DEF AtMost
<1>5. CASE ~ (Want(key) <= 0)
  BY <1>2, <1>5 DEF SampleN, Quota
<1> QED  BY <1>4, <1>5

\* Lemma: the selection leaves what SelectionOK says, because strata are
\* disjoint and the cap takes whole listings away.
LEMMA SelectKeeps == listed \in Seq(Listing) /\ asked \in Int /\ Select => SelectionOK'
<1> SUFFICES ASSUME listed \in Seq(Listing), asked \in Int, Select PROVE SelectionOK'
  OBVIOUS
<1>0. PICK choice \in [Strata -> SUBSET ListedSet] :
        /\ \A key \in Strata : choice[key] \in SampleN(Group(key), Want(key))
        /\ picked' = Capped(UNION {choice[key] : key \in Strata})
  BY DEF Select
<1> DEFINE U == UNION {choice[key] : key \in Strata}
<1>1. UNCHANGED <<listed, read, asked>>
  BY DEF Select, flagVars
<1>2. /\ ListedSet' = ListedSet /\ Strata' = Strata
      /\ \A key : Group(key)' = Group(key)
  BY <1>1 DEF ListedSet, Strata, Group
<1>3. \A key \in Strata :
        /\ Quota(key) \in Nat /\ choice[key] \subseteq Group(key)
        /\ Cardinality(choice[key]) = AtMost(Quota(key), Cardinality(Group(key)))
        /\ Cardinality(Group(key)) \in Nat /\ IsFiniteSet(choice[key])
  BY <1>0, ListedFacts, SampleFacts, FS_CardinalityType, FS_Subset
<1>4. \A key \in Strata : U \cap Group(key) = choice[key]
  BY <1>3 DEF Group
<1>5. U \subseteq ListedSet
  BY <1>0
<1>6. IsFiniteSet(U) /\ U \in SUBSET Nat
  BY <1>5, ListedFacts, FS_Subset
<1> HIDE DEF U
<1>7. /\ Capped(U) \subseteq U
      /\ \/ Capped(U) = U
         \/ TotalCap > 0 /\ Cardinality(Capped(U)) = TotalCap
      /\ TotalCap > 0 => Cardinality(Capped(U)) <= TotalCap
  <2>1. CASE TotalCap <= 0
    BY <2>1, BootstrapAssumption DEF Capped
  <2>2. CASE ~ (TotalCap <= 0)
    <3>1. TotalCap \in Nat \ {0} /\ TotalCap > 0
      BY <2>2, BootstrapAssumption
    <3>2. Capped(U) = {l \in U : Rank(U, l) <= TotalCap}
      BY <2>2 DEF Capped, Rank
    <3> QED  BY <1>6, <3>1, <3>2, CutAtRank
  <2> QED  BY <2>1, <2>2
<1>8. \A key \in Strata : Cardinality(picked' \cap Group(key)) <= Quota(key)
  <2> TAKE key \in Strata
  <2>1. picked' \cap Group(key) \in SUBSET choice[key]
    BY <1>0, <1>4, <1>7 DEF U
  <2>2. Cardinality(picked' \cap Group(key)) <= Cardinality(choice[key])
    BY <1>3, <2>1, FS_Subset
  <2>3. /\ Cardinality(picked' \cap Group(key)) \in Nat
        /\ Cardinality(choice[key]) <= Quota(key) /\ Cardinality(choice[key]) \in Nat
    BY <1>3, <2>1, FS_Subset, FS_CardinalityType DEF AtMost
  <2> QED  BY <1>3, <2>2, <2>3
<1>9. picked' = U => \A key \in Strata :
        Cardinality(picked' \cap Group(key)) = AtMost(Quota(key), Cardinality(Group(key)))
  BY <1>3, <1>4
<1>10. \A key : Quota(key)' = Quota(key)
  BY <1>1 DEF Quota, Want
<1>11. picked' = Capped(U)
  BY <1>0 DEF U
<1> QED  BY <1>2, <1>5, <1>7, <1>8, <1>9, <1>10, <1>11 DEF SelectionOK, AtMost

\* Lemma: BootInv is inductive.
LEMMA BootInvStep == BootInv /\ [BootstrapNext]_bootVars => BootInv'
<1> SUFFICES ASSUME BootInv, [BootstrapNext]_bootVars PROVE BootInv'
  OBVIOUS
<1> USE DEF BootInv
<1>0. ASSUME UNCHANGED <<asked, listed, read, picked>> PROVE SelectionOK' = SelectionOK
  <2>1. \A key : Quota(key)' = Quota(key)
    BY <1>0 DEF Quota, Want
  <2>2. Strata' = Strata /\ ListedSet' = ListedSet /\ \A key : Group(key)' = Group(key)
    BY <1>0 DEF ListedSet, Strata, Group
  <2> QED  BY <1>0, <2>1, <2>2 DEF SelectionOK, AtMost
<1>1. ASSUME NEW first \in {"components", "judge-scores"}, NEW st,
             NEW n \in PerKinds \cup Counts, List(first, st, n)
      PROVE  BootInv'
  <2>1. listed' \in Seq(Listing) /\ asked' \in Int
    BY <1>1, BootstrapAssumption DEF List
  <2> QED  BY <1>1, <2>1 DEF List
<1>2. CASE Select
  BY <1>2, SelectKeeps DEF Select, flagVars
<1>3. CASE FinishSample
  <2>1. DOMAIN scores' \subseteq picked
    BY <1>3 DEF FinishSample, ScoresOf
  <2> QED  BY <1>0, <1>3, <2>1 DEF FinishSample, flagVars
<1>4. CASE JudgeScores
  BY <1>4 DEF JudgeScores, flagVars
<1>5. CASE Surface
  BY <1>5 DEF Surface, flagVars
<1>6. ASSUME NEW accepted \in SUBSET Listing, NEW noted \in SUBSET Listing, Apply(accepted, noted)
      PROVE  BootInv'
  BY <1>6 DEF Apply, flagVars
<1>7. CASE ReadComponents
  BY <1>7 DEF ReadComponents, flagVars
<1>8. CASE StoreFails
  BY <1>8 DEF StoreFails, flagVars
<1>9. ASSUME NEW l \in Listing, PipelineChanges(l) PROVE BootInv'
  BY <1>0, <1>9 DEF PipelineChanges, Busy, flagVars
<1>10. CASE UNCHANGED bootVars
  BY <1>0, <1>10 DEF bootVars
<1>11. ASSUME NEW n \in Counts, NoJudgments(n) PROVE BootInv'
  BY <1>11, BootstrapAssumption DEF NoJudgments
<1>12. CASE Panics
  BY <1>12 DEF Panics, flagVars
<1> QED  BY <1>1, <1>2, <1>3, <1>4, <1>5, <1>6, <1>7, <1>8, <1>9, <1>10, <1>11, <1>12
         DEF BootstrapNext, SampleNext, JudgeNext

\* Lemma: at the end the strata of what is shown are the strata of what was
\* selected, so SelectionOK is StratifiedSample.
LEMMA SelectionIsSample == BootInv => StratifiedSample
<1> SUFFICES ASSUME BootInv, bootStep = "sampled" PROVE StratifiedSample
  BY DEF StratifiedSample
<1>1. /\ SelectionOK /\ shown = [l \in picked |-> read[l]]
      /\ DOMAIN scores \subseteq picked /\ listed \in Seq(Listing)
  BY DEF BootInv
<1>2. DOMAIN shown = picked /\ picked \subseteq ListedSet
  BY <1>1 DEF SelectionOK
<1>3. \A key : ShownIn(key) = picked \cap Group(key)
  BY <1>1, <1>2 DEF ShownIn, Group
<1>4. \A l \in picked : StratumKey(shown[l]) \in Strata
  BY <1>1, <1>2 DEF Strata
<1> QED  BY <1>1, <1>2, <1>3, <1>4 DEF StratifiedSample, SelectionOK

\* Theorem: the sample is stratified by what it shows, whatever the pipeline
\* changes while the sampler reads, for every window, quota and cap.
THEOREM StratifiedSampleHolds == BootstrapSpec => []StratifiedSample
<1>1. BootstrapInit => BootInv
  BY DEF BootstrapInit, BootInv
<1> QED  BY <1>1, BootInvStep, SelectionIsSample, PTL DEF BootstrapSpec

-----------------------------------------------------------------------------
(* Sorting and cutting, as the strategies do it *)

\* Lemma: what sort.Slice returns holds every element once.
LEMMA SortedFacts ==
  ASSUME NEW S, IsFiniteSet(S), NEW key, NEW s \in Sorted(S, key)
  PROVE  /\ Cardinality(S) \in Nat /\ s \in [1..Cardinality(S) -> S]
         /\ s \in Seq(S) /\ Len(s) = Cardinality(S)
         /\ \A i, j \in 1..Cardinality(S) : s[i] = s[j] => i = j
         /\ \A i, j \in 1..Cardinality(S) : i < j => key[s[i]] <= key[s[j]]
         /\ \A l \in S : \E i \in 1..Cardinality(S) : s[i] = l
<1> DEFINE n == Cardinality(S)
<1>1. n \in Nat
  BY FS_CardinalityType
<1>2. /\ s \in [1..n -> S]
      /\ \A i, j \in 1..n : s[i] = s[j] => i = j
      /\ \A i, j \in 1..n : i < j => key[s[i]] <= key[s[j]]
  BY DEF Sorted
<1>3. IsFiniteSet(1..n) /\ Cardinality(1..n) = n
  BY <1>1, FS_Interval
<1>4. s \in Injection(1..n, S)
  BY <1>2 DEF Injection, IsInjective
<1>5. s \in Surjection(1..n, S)
  BY <1>3, <1>4, FS_Injection
<1>6. s \in Seq(S) /\ Len(s) = n
  <2> HIDE DEF n
  <2> QED  BY <1>1, <1>2
<1> QED  BY <1>1, <1>2, <1>5, <1>6 DEF Surjection

\* Lemma: a finite set of naturals can be sorted by any key: the place of an
\* element is how many have a smaller key, or the same key and a number no
\* greater.
LEMMA SortExists ==
  ASSUME NEW S \in SUBSET Nat, IsFiniteSet(S), NEW key \in [S -> Int]
  PROVE  Sorted(S, key) # {}
<1> DEFINE n == Cardinality(S)
           Upto(l) == {x \in S : key[x] < key[l] \/ (key[x] = key[l] /\ x <= l)}
           r == [l \in S |-> Cardinality(Upto(l))]
<1>1. n \in Nat
  BY FS_CardinalityType
<1>2. \A l \in S : IsFiniteSet(Upto(l)) /\ Upto(l) \subseteq S /\ l \in Upto(l)
  BY FS_Subset
<1>3. \A l \in S : r[l] \in 1..n
  <2> TAKE l \in S
  <2> DEFINE A == Upto(l)
  <2>1. IsFiniteSet(A) /\ A \in SUBSET S /\ A # {} /\ r[l] = Cardinality(A)
    BY <1>2
  <2> HIDE DEF A, r
  <2>2. Cardinality(A) <= n
    BY <2>1, FS_Subset
  <2>3. Cardinality(A) \in Nat /\ Cardinality(A) # 0
    BY <2>1, FS_CardinalityType, FS_EmptySet
  <2> QED  BY <1>1, <2>1, <2>2, <2>3
<1>4. \A l, m \in S : key[l] < key[m] \/ (key[l] = key[m] /\ l < m) => r[l] < r[m]
  <2> TAKE l, m \in S
  <2> HAVE key[l] < key[m] \/ (key[l] = key[m] /\ l < m)
  <2> DEFINE A == Upto(l)
             B == Upto(m)
  <2>1. IsFiniteSet(B) /\ IsFiniteSet(A) /\ r[l] = Cardinality(A) /\ r[m] = Cardinality(B)
    BY <1>2
  <2>2. A \in SUBSET B
    <3> SUFFICES ASSUME NEW x \in A PROVE x \in B
      OBVIOUS
    <3>1. x \in S /\ key[x] \in Int /\ key[l] \in Int /\ key[m] \in Int
      OBVIOUS
    <3>2. key[x] < key[m] \/ (key[x] = key[m] /\ x <= m)
      BY <3>1
    <3> QED  BY <3>1, <3>2
  <2>3. m \in B /\ m \notin A
    OBVIOUS
  <2> HIDE DEF A, B, r
  <2>4. Cardinality(A) <= Cardinality(B) /\ Cardinality(A) # Cardinality(B)
    BY <2>1, <2>2, <2>3, FS_Subset
  <2>5. Cardinality(A) \in Nat /\ Cardinality(B) \in Nat
    BY <2>1, FS_CardinalityType
  <2> QED  BY <2>1, <2>4, <2>5
<1>5. \A l, m \in S : r[l] = r[m] => l = m
  <2> TAKE l, m \in S
  <2>1. \/ key[l] < key[m] \/ (key[l] = key[m] /\ l < m)
        \/ key[m] < key[l] \/ (key[m] = key[l] /\ m < l)
        \/ l = m
    OBVIOUS
  <2>2. r[l] \in Nat /\ r[m] \in Nat
    BY <1>3
  <2>3. r[l] < r[m] \/ r[m] < r[l] \/ l = m
    BY <1>4, <2>1
  <2> HIDE DEF r
  <2> QED  BY <2>2, <2>3
<1> HIDE DEF Upto
<1>6. r \in [S -> 1..n]
  BY <1>3
<1> HIDE DEF r
<1>7. IsFiniteSet(1..n) /\ Cardinality(1..n) = n
  BY <1>1, FS_Interval
<1>8. r \in Injection(S, 1..n)
  BY <1>5, <1>6 DEF Injection, IsInjective
<1>9. r \in Surjection(S, 1..n)
  BY <1>7, <1>8, FS_Injection
<1> DEFINE s == [i \in 1..n |-> CHOOSE l \in S : r[l] = i]
<1>10. \A i \in 1..n : s[i] \in S /\ r[s[i]] = i
  BY <1>9 DEF Surjection
<1>11. s \in [1..n -> S]
  BY <1>10
<1>12. DOMAIN s = 1..n
  OBVIOUS
<1> HIDE DEF s
<1>13. \A i, j \in 1..n : s[i] = s[j] => i = j
  BY <1>10
<1>14. \A i, j \in 1..n : i < j => key[s[i]] <= key[s[j]]
  <2> TAKE i, j \in 1..n
  <2> HAVE i < j
  <2> SUFFICES ASSUME ~ (key[s[i]] <= key[s[j]]) PROVE FALSE
    OBVIOUS
  <2>1. s[i] \in S /\ s[j] \in S /\ key[s[j]] \in Int /\ key[s[i]] \in Int
    BY <1>10
  <2>2. key[s[j]] < key[s[i]]
    BY <2>1
  <2>3. r[s[j]] < r[s[i]]
    BY <1>4, <2>1, <2>2
  <2> QED  BY <1>10, <2>3
<1> QED  BY <1>11, <1>12, <1>13, <1>14 DEF Sorted

\* What a strategy owes: of the elements of fit, out holds the first up to n,
\* each once, least key first.
BestFirst(out, fit, key, n) ==
  /\ \A i \in DOMAIN out : out[i] \in fit
  /\ Cardinality({out[i] : i \in DOMAIN out}) = Len(out)
  /\ Len(out) = AtMost(n, Cardinality(fit))
  /\ \A l \in fit \ {out[i] : i \in DOMAIN out} : \A i \in DOMAIN out : ~ (key[l] < key[out[i]])
  /\ \A i, j \in DOMAIN out : i < j => ~ (key[out[j]] < key[out[i]])

\* Lemma: the front of the sorted list is that, when the key decides who is fit.
LEMMA FrontOfSorted ==
  ASSUME NEW S, IsFiniteSet(S), NEW key \in [S -> Int], NEW s \in Sorted(S, key),
         NEW fit \in SUBSET S, NEW n \in Nat,
         \A x \in fit, y \in S : key[y] <= key[x] => y \in fit
  PROVE  BestFirst(SubSeq(s, 1, AtMost(n, Cardinality(fit))), fit, key, n)
<1> DEFINE k == AtMost(n, Cardinality(fit))
           out == SubSeq(s, 1, k)
           N == Cardinality(S)
<1>1. /\ N \in Nat /\ s \in [1..N -> S]
      /\ \A i, j \in 1..N : s[i] = s[j] => i = j
      /\ \A i, j \in 1..N : i < j => key[s[i]] <= key[s[j]]
      /\ \A l \in S : \E i \in 1..N : s[i] = l
  BY SortedFacts
<1>2. IsFiniteSet(fit) /\ Cardinality(fit) \in Nat /\ Cardinality(fit) <= N
  BY FS_Subset, FS_CardinalityType
<1>3. k \in 0..N /\ k <= Cardinality(fit)
  BY <1>1, <1>2 DEF AtMost
<1>4. /\ out \in Seq(S) /\ Len(out) = k /\ DOMAIN out = 1..k
      /\ \A i \in 1..k : out[i] = s[i]
  <2>1. s \in Seq(S) /\ Len(s) = N
    BY <1>1
  <2> HIDE DEF k, N
  <2> QED  BY <1>3, <2>1
<1> HIDE DEF out
<1>5. \A i \in 1..k : s[i] \in fit
  <2> SUFFICES ASSUME NEW i \in 1..k, s[i] \notin fit PROVE FALSE
    OBVIOUS
  <2>1. i \in 1..N /\ i - 1 \in Nat
    BY <1>1, <1>3
  <2> DEFINE P == 1..(i - 1)
             g == [j \in P |-> s[j]]
             G == {s[j] : j \in P}
  <2>2. fit \subseteq G
    <3> SUFFICES ASSUME NEW x \in fit PROVE x \in G
      OBVIOUS
    <3>1. PICK j \in 1..N : s[j] = x
      BY <1>1
    <3>2. j < i
      <4> SUFFICES ASSUME ~ (j < i) PROVE FALSE
        OBVIOUS
      <4>1. i < j \/ i = j
        BY <2>1
      <4>2. key[s[i]] <= key[x]
        BY <1>1, <2>1, <3>1, <4>1
      <4> QED  BY <1>1, <2>1, <4>2
    <3> QED  BY <2>1, <3>1, <3>2
  <2>3. IsFiniteSet(P) /\ Cardinality(P) = i - 1
    BY <2>1, FS_Interval
  <2>4. g \in Surjection(P, G)
    BY DEF Surjection
  <2>5. IsFiniteSet(G) /\ Cardinality(G) <= i - 1
    <3> HIDE DEF P, g, G
    <3> QED  BY <2>3, <2>4, FS_Surjection
  <2>6. Cardinality(fit) <= Cardinality(G)
    <3> HIDE DEF G
    <3> QED  BY <2>2, <2>5, FS_Subset
  <2>7. Cardinality(G) \in Nat
    <3> HIDE DEF G
    <3> QED  BY <2>5, FS_CardinalityType
  <2> HIDE DEF G
  <2> QED  BY <1>2, <1>3, <2>1, <2>5, <2>6, <2>7
<1>6. Cardinality({out[i] : i \in DOMAIN out}) = k
  <2> DEFINE R == {out[i] : i \in DOMAIN out}
             g == [i \in 1..k |-> out[i]]
  <2>1. IsFiniteSet(1..k) /\ Cardinality(1..k) = k
    BY <1>3, FS_Interval
  <2>2. g \in Injection(1..k, R) /\ g \in Surjection(1..k, R)
    <3>1. \A i, j \in 1..k : out[i] = out[j] => i = j
      BY <1>1, <1>3, <1>4
    <3> HIDE DEF k
    <3>2. g \in [1..k -> R] /\ \A i \in 1..k : g[i] = out[i]
      BY <1>4
    <3>3. \A l \in R : \E i \in 1..k : g[i] = l
      BY <1>4
    <3> HIDE DEF g, R
    <3> QED  BY <3>1, <3>2, <3>3 DEF Injection, IsInjective, Surjection
  <2> HIDE DEF g, R, k
  <2>3. Cardinality(R) = Cardinality(1..k)
    BY <2>1, <2>2, FS_Surjection
  <2> QED  BY <2>1, <2>3 DEF R
<1>7. ASSUME NEW l \in fit \ {out[i] : i \in DOMAIN out}, NEW i \in DOMAIN out
      PROVE  ~ (key[l] < key[out[i]])
  <2>1. PICK j \in 1..N : s[j] = l
    BY <1>1
  <2>2. j \notin 1..k
    BY <1>4, <1>7, <2>1
  <2>3. i \in 1..N /\ i < j /\ out[i] = s[i] /\ l \in S /\ s[i] \in S
    BY <1>1, <1>3, <1>4, <1>7, <2>1, <2>2
  <2>4. key[s[i]] <= key[s[j]]
    BY <1>1, <2>3
  <2>5. key[s[i]] \in Int /\ key[l] \in Int
    BY <2>3
  <2> QED  BY <2>1, <2>3, <2>4, <2>5
<1>8. ASSUME NEW i \in DOMAIN out, NEW j \in DOMAIN out, i < j
      PROVE  ~ (key[out[j]] < key[out[i]])
  <2>1. i \in 1..N /\ j \in 1..N /\ out[i] = s[i] /\ out[j] = s[j] /\ s[i] \in S /\ s[j] \in S
    BY <1>1, <1>3, <1>4
  <2>2. key[s[i]] <= key[s[j]] /\ key[s[i]] \in Int /\ key[s[j]] \in Int
    BY <1>1, <1>8, <2>1
  <2> QED  BY <2>1, <2>2
<1>9. \A i \in DOMAIN out : out[i] \in fit
  BY <1>4, <1>5
<1>10. BestFirst(out, fit, key, n)
  <2>1. Len(out) = k /\ k = AtMost(n, Cardinality(fit))
    BY <1>4
  <2> HIDE DEF k
  <2> QED  BY <1>6, <1>7, <1>8, <1>9, <2>1 DEF BestFirst
<1> QED  BY <1>10 DEF out

-----------------------------------------------------------------------------
(* The strategies *)

\* What the strategies read: a window holds a listing once, and the scores are
\* those of listings in it.
ReadOK ==
  /\ listed \in Seq(Listing)
  /\ \A i, j \in DOMAIN listed : listed[i] = listed[j] => i = j
  /\ scores \in [DOMAIN scores -> 0..100] /\ DOMAIN scores \subseteq ListedSet
  /\ strategy \in Strategy /\ asked \in Int

Fit == {l \in CandidateSet : Qualifies(l)}

\* SurfaceSound's demand on what a strategy returns
OutSound(out) ==
  /\ {out[i] : i \in DOMAIN out} \subseteq Fit
  /\ Len(out) = Cardinality({out[i] : i \in DOMAIN out})
  /\ RightNumber(Len(out), Cardinality(Fit))
  /\ \A l \in Fit \ {out[i] : i \in DOMAIN out} : \A m \in {out[i] : i \in DOMAIN out} : ~ Before(l, m)
  /\ \A i, j \in DOMAIN out : i < j => ~ Before(out[j], out[i])

\* Lemma: the candidates are finitely many, each with a score.
LEMMA CandidateFacts ==
  ASSUME ReadOK
  PROVE  /\ CandidateSet \in SUBSET Nat /\ IsFiniteSet(CandidateSet)
         /\ scores \in [CandidateSet -> 0..100] /\ Cardinality(CandidateSet) \in Nat
<1>1. ListedSet \subseteq Listing
  BY ListedFacts DEF ReadOK
<1>2. CandidateSet \in SUBSET Listing /\ CandidateSet = DOMAIN scores
  BY <1>1 DEF CandidateSet, ReadOK
<1>3. scores \in [CandidateSet -> 0..100]
  BY <1>2 DEF ReadOK
<1> QED  BY <1>2, <1>3, BootstrapAssumption, FS_Subset, FS_CardinalityType

\* Lemma: as soon as there is a candidate there are boundaries, and they are
\* scores: the three indices lie in the sorted list.
LEMMA BoundaryFacts ==
  ASSUME ReadOK, CandidateSet # {}
  PROVE  Boundaries \in SUBSET (0..100) /\ Boundaries # {}
<1> DEFINE n == Cardinality(CandidateSet)
           s == CHOOSE x \in Sorted(CandidateSet, scores) : TRUE
<1>1. n \in Nat /\ n # 0
  BY CandidateFacts, FS_EmptySet
<1>2. scores \in [CandidateSet -> Int]
  BY CandidateFacts
<1>3. s \in Sorted(CandidateSet, scores)
  BY <1>2, CandidateFacts, SortExists
<1>4. s \in [1..n -> CandidateSet]
  BY <1>3 DEF Sorted
<1> HIDE DEF s
<1>5. \A k \in {n \div 4, n \div 2, (3 * n) \div 4} : 1 + k \in 1..n
  <2> HIDE DEF n
  <2> QED  BY <1>1
<1>6. Boundaries = {scores[s[1 + k]] : k \in {n \div 4, n \div 2, (3 * n) \div 4}}
  BY DEF Boundaries, s
<1>7. \A k \in {n \div 4, n \div 2, (3 * n) \div 4} : scores[s[1 + k]] \in 0..100
  <2> HIDE DEF n
  <2> QED  BY <1>4, <1>5, CandidateFacts
<1> HIDE DEF n
<1> QED  BY <1>6, <1>7

\* Lemma: the distance is that of a boundary, and no boundary is nearer, so it
\* is within the band exactly when some boundary is.
LEMMA DistanceFacts ==
  ASSUME ReadOK, NEW l \in CandidateSet
  PROVE  /\ DistanceToNearest(l) \in Nat
         /\ DistanceToNearest(l) <= BandPct
              <=> \E m \in Boundaries : scores[l] - m \in -BandPct..BandPct
<1> DEFINE d == {Abs(scores[l] - m) : m \in Boundaries}
<1>1. scores[l] \in 0..100 /\ Boundaries \in SUBSET (0..100) /\ Boundaries # {}
  BY CandidateFacts, BoundaryFacts
<1>2. \A m \in Boundaries : Abs(scores[l] - m) \in Nat
  <2> TAKE m \in Boundaries
  <2>1. m \in 0..100
    BY <1>1
  <2> QED  BY <1>1, <2>1 DEF Abs
<1>3. d \in SUBSET Nat /\ d # {}
  BY <1>1, <1>2
<1>4. PICK x \in d : \A y \in d : x <= y
  <2> HIDE DEF d
  <2> QED  BY <1>3, LeastNatural
<1>5. DistanceToNearest(l) \in d /\ \A y \in d : DistanceToNearest(l) <= y
  BY <1>4 DEF DistanceToNearest
<1>6. \A m \in Boundaries : Abs(scores[l] - m) <= BandPct <=> scores[l] - m \in -BandPct..BandPct
  <2> TAKE m \in Boundaries
  <2>1. scores[l] - m \in Int
    BY <1>1
  <2> DEFINE gap == scores[l] - m
  <2> HIDE DEF gap, d
  <2>2. gap \in Int => (Abs(gap) <= BandPct <=> gap \in -BandPct..BandPct)
    BY DEF Abs, BandPct
  <2> QED  BY <2>1, <2>2 DEF gap
<1>7. DistanceToNearest(l) \in Nat /\ \E m \in Boundaries : DistanceToNearest(l) = Abs(scores[l] - m)
  BY <1>3, <1>5
<1>8. ASSUME DistanceToNearest(l) <= BandPct
      PROVE  \E m \in Boundaries : scores[l] - m \in -BandPct..BandPct
  BY <1>6, <1>7, <1>8
<1>9. ASSUME NEW m \in Boundaries, scores[l] - m \in -BandPct..BandPct
      PROVE  DistanceToNearest(l) <= BandPct
  <2>1. Abs(scores[l] - m) <= BandPct /\ DistanceToNearest(l) <= Abs(scores[l] - m)
    BY <1>5, <1>6, <1>9
  <2>2. Abs(scores[l] - m) \in Nat /\ BandPct \in Nat
    BY <1>2 DEF BandPct
  <2> QED  BY <1>7, <2>1, <2>2
<1> QED  BY <1>7, <1>8, <1>9

\* Lemma: those that qualify are finitely many candidates.
LEMMA FitFacts ==
  ASSUME ReadOK
  PROVE  Fit \in SUBSET CandidateSet /\ IsFiniteSet(Fit) /\ Cardinality(Fit) \in Nat
<1>1. Fit \in SUBSET CandidateSet
  BY DEF Fit
<1> QED  BY <1>1, CandidateFacts, FS_Subset, FS_CardinalityType

\* Lemma: as many as were asked for and qualify is a right number for every strategy.
LEMMA TakenIsRight ==
  ASSUME asked \in Int, asked >= 0, NEW n \in Nat, NEW k, k = AtMost(asked, n)
  PROVE  RightNumber(k, n)
<1>1. Wanted = asked
  BY DEF Wanted
<1>2. n \div 10 \in Nat /\ n \div 10 <= n
  OBVIOUS
<1> QED  BY <1>1, <1>2 DEF RightNumber, AtMost

\* Lemma: the best n by a key that agrees with the ranking are a sound answer.
LEMMA BestIsSound ==
  ASSUME ReadOK, asked >= 0, NEW key, NEW out, BestFirst(out, Fit, key, asked),
         \A l, m \in Fit : Before(l, m) => key[l] < key[m]
  PROVE  OutSound(out)
<1>1. {out[i] : i \in DOMAIN out} \subseteq Fit
  BY DEF BestFirst
<1> HIDE DEF Fit
<1>2. ASSUME NEW l \in Fit \ {out[i] : i \in DOMAIN out}, NEW m \in {out[i] : i \in DOMAIN out}
      PROVE  ~ Before(l, m)
  <2>1. PICK i \in DOMAIN out : m = out[i]
    OBVIOUS
  <2>2. ~ (key[l] < key[m])
    BY <2>1 DEF BestFirst
  <2> QED  BY <1>1, <2>2
<1>3. ASSUME NEW i \in DOMAIN out, NEW j \in DOMAIN out, i < j PROVE ~ Before(out[j], out[i])
  <2>1. out[i] \in Fit /\ out[j] \in Fit /\ ~ (key[out[j]] < key[out[i]])
    BY <1>1, <1>3 DEF BestFirst
  <2> QED  BY <2>1
<1>4. RightNumber(Len(out), Cardinality(Fit))
  BY FitFacts, TakenIsRight DEF BestFirst, ReadOK
<1> QED  BY <1>1, <1>2, <1>3, <1>4 DEF OutSound, BestFirst

\* Lemma: cutting a list twice is cutting it once.
LEMMA CutTwice ==
  ASSUME NEW S, NEW s \in Seq(S), NEW k \in 0..Len(s), NEW n \in Nat
  PROVE  FirstN(SubSeq(s, 1, k), n) = SubSeq(s, 1, AtMost(n, k))
<1> DEFINE t == SubSeq(s, 1, k)
           h == AtMost(n, k)
<1>2. t \in Seq(S) /\ Len(t) = k /\ \A i \in 1..k : t[i] = s[i]
  OBVIOUS
<1>3. h \in 0..k /\ h \in 0..Len(s)
  BY DEF AtMost
<1>4. FirstN(t, n) = SubSeq(t, 1, h)
  BY <1>2 DEF FirstN
<1> HIDE DEF t, h
<1>5. /\ SubSeq(t, 1, h) \in Seq(S) /\ Len(SubSeq(t, 1, h)) = h
      /\ SubSeq(s, 1, h) \in Seq(S) /\ Len(SubSeq(s, 1, h)) = h
      /\ \A i \in 1..h : SubSeq(t, 1, h)[i] = t[i] /\ SubSeq(s, 1, h)[i] = s[i]
  BY <1>2, <1>3
<1>6. \A i \in 1..h : SubSeq(t, 1, h)[i] = SubSeq(s, 1, h)[i]
  BY <1>2, <1>3, <1>5
<1>7. SubSeq(t, 1, h) = SubSeq(s, 1, h)
  BY <1>5, <1>6
<1> QED  BY <1>4, <1>7 DEF t, h

\* Lemma: taking those of fit in the order listed is sound for the two
\* strategies that keep that order.
LEMMA ListedSound ==
  ASSUME ReadOK, asked >= 0, strategy \in {"low-confidence", "disagreement-with-reader"},
         NEW out \in FirstListed(Fit)
  PROVE  OutSound(out)
<1> DEFINE key == [l \in Fit |-> Position(l)]
<1>1. PICK s \in Sorted(Fit, key) : out = FirstN(s, asked)
  BY DEF FirstListed, InOrder
<1>2. \A i \in DOMAIN listed : Position(listed[i]) = i
  BY DEF Position, ReadOK
<1>3. Fit \in SUBSET CandidateSet /\ IsFiniteSet(Fit) /\ Cardinality(Fit) \in Nat
  BY FitFacts
<1>4. \A l \in Fit : \E i \in DOMAIN listed : listed[i] = l
  BY <1>3 DEF CandidateSet, ListedSet
<1>5. key \in [Fit -> Int]
  <2>1. \A l \in Fit : Position(l) \in Int
    BY <1>2, <1>4 DEF ReadOK
  <2> QED  BY <2>1
<1>6. \A l, m \in Fit : Before(l, m) => key[l] < key[m]
  BY <1>2 DEF Before
<1> HIDE DEF key
<1>7. Len(s) = Cardinality(Fit)
  BY <1>1, <1>3, SortedFacts
<1>8. out = SubSeq(s, 1, AtMost(asked, Cardinality(Fit)))
  BY <1>1, <1>7 DEF FirstN
<1>9. BestFirst(out, Fit, key, asked)
  BY <1>1, <1>3, <1>5, <1>8, FrontOfSorted DEF ReadOK
<1> QED  BY <1>6, <1>9, BestIsSound

\* Lemma: every strategy that does not panic returns a sound answer.
LEMMA SurfacedSound ==
  ASSUME ReadOK, bootStep = "judge-components", ~NegativeCap,
         strategy # "disagreement", NEW out \in Surfaced
  PROVE  OutSound(out)
<1>0. asked \in Int /\ (asked >= 0 \/ (strategy = "ambiguous" /\ CandidateSet = {}))
  BY DEF NegativeCap, ReadOK
<1>1. CASE strategy = "low-confidence"
  <2>1. Fit = {l \in CandidateSet : LowConfidence(l)}
    BY <1>1 DEF Fit, Qualifies, LowConfidence
  <2> QED  BY <1>0, <1>1, <2>1, ListedSound DEF Surfaced
<1>2. CASE strategy = "disagreement-with-reader"
  <2>1. Fit = CandidateSet \cap Disputed
    BY <1>2 DEF Fit, Qualifies
  <2> QED  BY <1>0, <1>2, <2>1, ListedSound DEF Surfaced
<1>3. CASE strategy = "high-stakes"
  <2>0. asked \in Nat
    BY <1>0, <1>3
  <2> DEFINE key == [l \in CandidateSet |-> -scores[l]]
             n == Cardinality(CandidateSet)
  <2>1. out \in HighStakesOut /\ Fit = CandidateSet
    BY <1>3 DEF Surfaced, Fit, Qualifies
  <2>2. PICK s \in Sorted(CandidateSet, key) :
          \E cutoff : /\ cutoff = AtMost(IF Len(s) \div 10 < asked THEN asked ELSE Len(s) \div 10, Len(s))
                      /\ out = FirstN(SubSeq(s, 1, cutoff), asked)
    BY <2>1 DEF HighStakesOut, HighestFirst
  <2>3. key \in [CandidateSet -> Int]
    BY CandidateFacts
  <2>4. \A l, m \in Fit : Before(l, m) => key[l] < key[m]
    BY <1>3, <2>1, CandidateFacts DEF Before
  <2> HIDE DEF key
  <2>5. n \in Nat /\ s \in Seq(CandidateSet) /\ Len(s) = n
    BY <2>2, CandidateFacts, SortedFacts
  <2>6. PICK cutoff \in 0..n : /\ AtMost(asked, cutoff) = AtMost(asked, n)
                               /\ out = FirstN(SubSeq(s, 1, cutoff), asked)
    <3>1. PICK cutoff : /\ cutoff = AtMost(IF n \div 10 < asked THEN asked ELSE n \div 10, n)
                        /\ out = FirstN(SubSeq(s, 1, cutoff), asked)
      BY <2>2, <2>5
    <3> HIDE DEF n
    <3>2. cutoff \in 0..n /\ AtMost(asked, cutoff) = AtMost(asked, n)
      BY <2>0, <2>5, <3>1 DEF AtMost
    <3> QED  BY <3>1, <3>2
  <2>7. out = SubSeq(s, 1, AtMost(asked, Cardinality(Fit)))
    BY <2>0, <2>1, <2>5, <2>6, CutTwice
  <2>8. BestFirst(out, Fit, key, asked)
    BY <2>0, <2>1, <2>2, <2>3, <2>7, CandidateFacts, FrontOfSorted
  <2> QED  BY <2>0, <2>4, <2>8, BestIsSound
<1>4. CASE strategy = "ambiguous"
  <2> DEFINE key == [l \in CandidateSet |-> DistanceToNearest(l)]
             near == InBand
             n == Cardinality(CandidateSet)
  <2>1. Fit = near /\ near = {l \in CandidateSet : DistanceToNearest(l) <= BandPct}
    BY <1>4, DistanceFacts DEF Fit, Qualifies, InBand
  <2>2. key \in [CandidateSet -> Int] /\ \A l \in CandidateSet : key[l] \in Nat
    BY DistanceFacts
  <2>3. \A l, m \in Fit : Before(l, m) => key[l] < key[m]
    BY <1>4, <2>1 DEF Before
  <2>4. \A x \in near, y \in CandidateSet : key[y] <= key[x] => y \in near
    <3> TAKE x \in near, y \in CandidateSet
    <3> HAVE key[y] <= key[x]
    <3>1. key[x] \in Nat /\ key[y] \in Nat /\ key[x] <= 5 /\ key[y] = DistanceToNearest(y)
      BY <2>1, <2>2 DEF BandPct
    <3>2. key[y] <= 5
      BY <3>1
    <3> QED  BY <2>1, <3>1, <3>2 DEF BandPct
  <2>5. near \in SUBSET CandidateSet
    BY <2>1
  <2>6. CASE CandidateSet = {}
    <3>1. out = <<>> /\ Fit = {}
      BY <1>4, <2>6 DEF Surfaced, AmbiguousOut, Fit
    <3>2. Cardinality(Fit) = 0 /\ {out[i] : i \in DOMAIN out} = {} /\ Len(out) = 0 /\ DOMAIN out = {}
      BY <3>1, FS_EmptySet
    <3>3. Cardinality({out[i] : i \in DOMAIN out}) = 0
      BY <3>2, FS_EmptySet
    <3>4. RightNumber(0, 0)
      BY <1>0, <1>4 DEF RightNumber, Wanted, AtMost
    <3> QED  BY <3>1, <3>2, <3>3, <3>4 DEF OutSound
  <2>7. CASE CandidateSet # {}
    <3>0. asked \in Nat
      BY <1>0, <2>7
    <3>1. PICK s \in Sorted(CandidateSet, key) : out = FirstN(SubSeq(s, 1, Cardinality(near)), asked)
      BY <1>4, <2>7 DEF Surfaced, AmbiguousOut
    <3> HIDE DEF key, near
    <3>2. n \in Nat /\ s \in Seq(CandidateSet) /\ Len(s) = n
      BY <3>1, CandidateFacts, SortedFacts
    <3>3. Cardinality(near) \in 0..n
      <4>1. IsFiniteSet(near) /\ Cardinality(near) <= n
        BY <2>5, CandidateFacts, FS_Subset
      <4>2. Cardinality(near) \in Nat
        BY <4>1, FS_CardinalityType
      <4> HIDE DEF n
      <4> QED  BY <3>2, <4>1, <4>2
    <3>4. out = SubSeq(s, 1, AtMost(asked, Cardinality(near)))
      BY <3>0, <3>1, <3>2, <3>3, CutTwice
    <3>5. BestFirst(out, near, key, asked)
      <4>1. \A F \in SUBSET CandidateSet :
              (\A x \in F, y \in CandidateSet : key[y] <= key[x] => y \in F)
                => BestFirst(SubSeq(s, 1, AtMost(asked, Cardinality(F))), F, key, asked)
        BY <3>0, <2>2, <3>1, CandidateFacts, FrontOfSorted
      <4> QED  BY <2>4, <2>5, <3>4, <4>1
    <3> QED  BY <3>0, <2>1, <2>3, <3>5, BestIsSound
  <2> QED  BY <2>6, <2>7
<1> QED  BY <1>1, <1>2, <1>3, <1>4 DEF ReadOK, Strategy

\* The judge's inductive invariant: what is read has its type, the registered
\* "disagreement" never gets as far as reading, and what was surfaced is sound.
JudgeInv ==
  /\ score \in [Listing -> ScoreValue \cup {NoScore}]
  /\ listed \in Seq(Listing) /\ \A i, j \in DOMAIN listed : listed[i] = listed[j] => i = j
  /\ strategy \in Strategy /\ asked \in Int
  /\ bootStep = "judge-components" => ReadOK
  /\ bootStep \in {"judge-scores", "judge-components"} => strategy # "disagreement"
  /\ bootStep = "surfaced" => OutSound(surfaced)

\* Lemma: what a strategy owes depends on what the tool read, not on the store.
LEMMA OutSoundKept ==
  ASSUME UNCHANGED <<strategy, asked, listed, read, scores>>
  PROVE  OutSound(surfaced)' <=> OutSound(surfaced')
<1>1. CandidateSet' = CandidateSet
  BY DEF CandidateSet, ListedSet
<1>2. Boundaries' = Boundaries
  BY <1>1 DEF Boundaries, Sorted
<1>3. \A l : DistanceToNearest(l)' = DistanceToNearest(l)
  BY <1>2 DEF DistanceToNearest, Abs
<1>4. \A l : Qualifies(l)' <=> Qualifies(l)
  BY <1>2 DEF Qualifies, BandPct, Threshold
<1>5. \A l, m : Before(l, m)' <=> Before(l, m)
  BY <1>3 DEF Before
<1>6. Fit' = Fit
  BY <1>1, <1>4 DEF Fit
<1>7. \A k, fit : RightNumber(k, fit)' <=> RightNumber(k, fit)
  BY DEF RightNumber, Wanted, AtMost
<1> QED  BY <1>5, <1>6, <1>7 DEF OutSound

\* Lemma: JudgeInv is inductive.
LEMMA JudgeInvStep == JudgeInv /\ [BootstrapNext]_bootVars => JudgeInv'
<1> SUFFICES ASSUME JudgeInv, [BootstrapNext]_bootVars PROVE JudgeInv'
  OBVIOUS
<1> USE DEF JudgeInv
<1>0. ASSUME UNCHANGED <<strategy, asked, listed, read, scores, surfaced>>
      PROVE  (OutSound(surfaced)' <=> OutSound(surfaced)) /\ (ReadOK' <=> ReadOK)
  <2>1. OutSound(surfaced)' <=> OutSound(surfaced)
    BY <1>0, OutSoundKept
  <2>2. ListedSet' = ListedSet
    BY <1>0 DEF ListedSet
  <2>3. ReadOK' <=> ReadOK
    <3> HIDE DEF JudgeInv
    <3> QED  BY <1>0, <2>2 DEF ReadOK
  <2> QED  BY <2>1, <2>3
<1>1. ASSUME NEW first \in {"components", "judge-scores"}, NEW st \in Strategy,
             NEW n \in PerKinds \cup Counts, List(first, st, n),
             first = "judge-scores" => st # "disagreement"
      PROVE  JudgeInv'
  <2>1. /\ listed' \in Seq(Listing) /\ \A i, j \in DOMAIN listed' : listed'[i] = listed'[j] => i = j
        /\ asked' \in Int
    BY <1>1, BootstrapAssumption DEF List
  <2> QED  BY <1>1, <2>1 DEF List, storeVars
<1>2. CASE Select
  BY <1>2 DEF Select, storeVars, flagVars
<1>3. CASE FinishSample
  BY <1>3 DEF FinishSample, storeVars, flagVars
<1>4. CASE JudgeScores
  <2>1. UNCHANGED <<score, strategy, asked, listed, surfaced>>
    BY <1>4 DEF JudgeScores, storeVars, flagVars
  <2>2. DOMAIN scores' \subseteq ListedSet /\ \A l \in DOMAIN scores' : scores'[l] \in 0..100
    <3>1. ListedSet \subseteq Listing
      BY ListedFacts
    <3>2. \A l \in Listing : score[l] # NoScore => score[l] \in 0..100
      BY BootstrapAssumption
    <3> QED  BY <1>4, <3>1, <3>2 DEF JudgeScores, ScoresOf
  <2>3. scores' \in [DOMAIN scores' -> 0..100]
    BY <1>4, <2>2 DEF JudgeScores, ScoresOf
  <2>4. ReadOK'
    BY <2>1, <2>2, <2>3 DEF ReadOK, ListedSet
  <2> QED  BY <1>4, <2>1, <2>4 DEF JudgeScores
<1>5. CASE Surface
  <2>1. OutSound(surfaced')
    BY <1>5, SurfacedSound DEF Surface
  <2>2. OutSound(surfaced)'
    BY <1>5, <2>1, OutSoundKept DEF Surface, flagVars
  <2> QED  BY <1>5, <2>2 DEF Surface, storeVars, flagVars
<1>6. ASSUME NEW accepted \in SUBSET Listing, NEW noted \in SUBSET Listing, Apply(accepted, noted)
      PROVE  JudgeInv'
  BY <1>6 DEF Apply, storeVars, flagVars
<1>7. CASE ReadComponents
  <2>1. UNCHANGED <<score, bootStep, strategy, asked, listed, scores, surfaced>>
    BY <1>7 DEF ReadComponents, storeVars, flagVars
  <2>2. ListedSet' = ListedSet
    BY <2>1 DEF ListedSet
  <2>3. ReadOK' <=> ReadOK
    <3> HIDE DEF JudgeInv
    <3> QED  BY <2>1, <2>2 DEF ReadOK
  <2> QED  BY <1>7, <2>1, <2>3 DEF ReadComponents
<1>8. CASE StoreFails
  BY <1>8 DEF StoreFails, storeVars, flagVars
<1>9. ASSUME NEW l \in Listing, PipelineChanges(l) PROVE JudgeInv'
  <2>1. score' \in [Listing -> ScoreValue \cup {NoScore}]
    BY <1>9 DEF PipelineChanges
  <2> QED  BY <1>0, <1>9, <2>1 DEF PipelineChanges, flagVars
<1>10. CASE UNCHANGED bootVars
  BY <1>0, <1>10 DEF bootVars
<1>11. ASSUME NEW n \in Counts, NoJudgments(n) PROVE JudgeInv'
  <2>1. /\ strategy' = "disagreement" /\ asked' = n /\ n \in Int /\ surfaced' = <<>>
        /\ bootStep' = "surfaced" /\ UNCHANGED <<score, listed>>
    BY <1>11, BootstrapAssumption DEF NoJudgments, storeVars
  <2>2. Fit' = {}
    BY <2>1 DEF Fit, Qualifies
  <2>3. Cardinality(Fit') = 0 /\ Len(surfaced') = 0 /\ DOMAIN surfaced' = {}
    BY <2>1, <2>2, FS_EmptySet
  <2>4. RightNumber(0, 0)'
    BY <2>1 DEF RightNumber, Wanted, AtMost
  <2>5. OutSound(surfaced)'
    <3>1. {surfaced'[i] : i \in DOMAIN surfaced'} = {}
      BY <2>3
    <3> QED  BY <2>2, <2>3, <2>4, <3>1, FS_EmptySet DEF OutSound
  <2> QED  BY <2>1, <2>5 DEF Strategy
<1>12. CASE Panics
  BY <1>12 DEF Panics, storeVars, flagVars
<1> QED  BY <1>1, <1>2, <1>3, <1>4, <1>5, <1>6, <1>7, <1>8, <1>9, <1>10, <1>11, <1>12
         DEF BootstrapNext, SampleNext, JudgeNext

\* Theorem: a reviewer is shown the best candidates, as many as were asked for
\* and qualify, for every window, store, list of components or scores, and for
\* every number of candidates, negative ones included.
THEOREM SurfaceSoundHolds == BootstrapSpec => []SurfaceSound
<1>1. BootstrapInit => JudgeInv
  <2> SUFFICES ASSUME BootstrapInit PROVE JudgeInv
    OBVIOUS
  <2>1. listed \in Seq(Listing) /\ DOMAIN listed = {}
    BY DEF BootstrapInit
  <2> QED  BY <2>1 DEF BootstrapInit, JudgeInv, Strategy
<1>2. JudgeInv => SurfaceSound
  BY DEF JudgeInv, OutSound, Fit, SurfaceSound
<1> QED  BY <1>1, <1>2, JudgeInvStep, PTL DEF BootstrapSpec

-----------------------------------------------------------------------------
(* The reports *)

\* v is among n naturals, at most idx of them are below it and more than idx
\* are at or below it: the element at index idx, counted from 0, when they are
\* sorted.
IsElement(v, n, f, idx) ==
  /\ v \in {f[i] : i \in 1..n}
  /\ Cardinality({i \in 1..n : f[i] < v}) <= idx
  /\ idx < Cardinality({i \in 1..n : f[i] <= v})

\* Lemma: there is one at each index.
LEMMA SortedElement ==
  ASSUME NEW n \in Nat, NEW f \in [1..n -> Nat], NEW idx \in 0..(n - 1)
  PROVE  \E v : IsElement(v, n, f, idx)
<1> DEFINE L(v) == {i \in 1..n : f[i] < v}
           U(v) == {i \in 1..n : f[i] <= v}
           V == {f[i] : i \in 1..n}
           Low == {v \in V : Cardinality(L(v)) <= idx}
           Room == {n - Cardinality(L(v)) : v \in Low}
<1>1. IsFiniteSet(1..n) /\ Cardinality(1..n) = n
  BY FS_Interval
<1>2. \A v : /\ IsFiniteSet(L(v)) /\ Cardinality(L(v)) \in 0..n
             /\ IsFiniteSet(U(v)) /\ Cardinality(U(v)) \in 0..n
  <2> TAKE v
  <2>1. L(v) \in SUBSET (1..n) /\ U(v) \in SUBSET (1..n)
    OBVIOUS
  <2> HIDE DEF L, U
  <2>2. /\ IsFiniteSet(L(v)) /\ Cardinality(L(v)) <= n
        /\ IsFiniteSet(U(v)) /\ Cardinality(U(v)) <= n
    BY <1>1, <2>1, FS_Subset
  <2>3. Cardinality(L(v)) \in Nat /\ Cardinality(U(v)) \in Nat
    BY <2>2, FS_CardinalityType
  <2> QED  BY <2>2, <2>3
<1>3. V \in SUBSET Nat /\ f[1] \in V
  OBVIOUS
<1>4. Low # {}
  <2>1. PICK v \in V : \A w \in V : v <= w
    <3> HIDE DEF V
    <3> QED  BY <1>3, LeastNatural
  <2>2. L(v) = {}
    <3>1. \A i \in 1..n : f[i] \in V /\ f[i] \in Nat /\ v \in Nat
      OBVIOUS
    <3> HIDE DEF V
    <3>2. \A i \in 1..n : ~ (f[i] < v)
      BY <2>1, <3>1
    <3> QED  BY <3>2
  <2>3. Cardinality(L(v)) <= idx
    <3> HIDE DEF L, U, V, Low, Room
    <3>1. Cardinality(L(v)) = 0
      BY <2>2, FS_EmptySet
    <3> QED  BY <3>1
  <2> HIDE DEF L, U, V
  <2> QED  BY <2>3
<1>5. Room \in SUBSET Nat /\ Room # {}
  <2> HIDE DEF L, U, Low
  <2>1. \A v : n - Cardinality(L(v)) \in Nat
    <3> TAKE v
    <3>1. Cardinality(L(v)) \in 0..n
      BY <1>2
    <3> QED  BY <3>1
  <2> QED  BY <1>4, <2>1
<1>6. PICK v \in Low : \A w \in Low : Cardinality(L(w)) <= Cardinality(L(v))
  <2> HIDE DEF L, U, Low
  <2>1. PICK x \in Room : \A y \in Room : x <= y
    <3> HIDE DEF Room
    <3> QED  BY <1>5, LeastNatural
  <2>2. PICK v \in Low : x = n - Cardinality(L(v))
    BY <2>1
  <2>3. \A w \in Low : n - Cardinality(L(v)) <= n - Cardinality(L(w))
    BY <2>1, <2>2
  <2>4. \A w \in Low : Cardinality(L(w)) <= Cardinality(L(v))
    <3> TAKE w \in Low
    <3>1. Cardinality(L(w)) \in 0..n /\ Cardinality(L(v)) \in 0..n
      BY <1>2
    <3> QED  BY <2>3, <3>1
  <2> QED  BY <2>4
<1>7. v \in V /\ v \in Nat /\ Cardinality(L(v)) <= idx
  BY <1>3, <1>6
<1>8. Cardinality(L(v)) < Cardinality(U(v))
  <2>1. L(v) \in SUBSET U(v) /\ L(v) # U(v)
    <3>1. PICK i \in 1..n : f[i] = v
      BY <1>7
    <3>2. i \in U(v) /\ i \notin L(v)
      BY <1>7, <3>1
    <3>3. L(v) \in SUBSET U(v)
      BY <1>7
    <3> QED  BY <3>2, <3>3
  <2> HIDE DEF L, U
  <2>2. Cardinality(L(v)) <= Cardinality(U(v)) /\ Cardinality(L(v)) # Cardinality(U(v))
    BY <1>2, <2>1, FS_Subset
  <2> QED  BY <1>2, <2>2
<1>9. idx < Cardinality(U(v))
  <2> SUFFICES ASSUME ~ (idx < Cardinality(U(v))) PROVE FALSE
    OBVIOUS
  <2> DEFINE Over == {f[i] : i \in (1..n) \ U(v)}
  <2>1. Over # {} /\ Over \in SUBSET Nat
    <3>1. U(v) # 1..n
      <4> HIDE DEF L, U, V, Low, Room, Over
      <4>1. Cardinality(U(v)) \in 0..n
        BY <1>2
      <4>2. Cardinality(U(v)) # n
        BY <4>1
      <4> QED  BY <1>1, <4>2
    <3>2. PICK i \in 1..n : i \notin U(v)
      BY <3>1
    <3> HIDE DEF U
    <3> QED  BY <3>2
  <2>2. PICK u \in Over : \A w \in Over : u <= w
    <3> HIDE DEF Over
    <3> QED  BY <2>1, LeastNatural
  <2>3. u \in V /\ u \in Nat /\ u > v
    BY <1>7, <2>2
  <2>4. L(u) = U(v)
    <3>1. \A i \in 1..n : f[i] < u => f[i] <= v
      <4> TAKE i \in 1..n
      <4>1. f[i] \in Nat
        OBVIOUS
      <4>2. ~ (f[i] <= v) => f[i] \in Over
        OBVIOUS
      <4> HIDE DEF Over
      <4>3. f[i] \in Over => ~ (f[i] < u)
        BY <2>2, <2>3, <4>1
      <4> QED  BY <4>2, <4>3
    <3>2. \A i \in 1..n : f[i] <= v => f[i] < u
      BY <1>7, <2>3
    <3> QED  BY <3>1, <3>2
  <2>5. Cardinality(L(u)) = Cardinality(U(v))
    BY <2>4
  <2> HIDE DEF L, U, Over
  <2>6. Cardinality(L(u)) <= idx
    BY <1>2, <2>5
  <2>7. u \in Low
    BY <2>3, <2>6
  <2> QED  BY <1>2, <1>6, <1>8, <2>5, <2>7
<1> QED  BY <1>7, <1>9 DEF IsElement

Result == [name : STRING, outcome : Outcome, latency : Nat]

\* Lemma: where Percentile lies among the latencies.
LEMMA PercentileFacts ==
  ASSUME results \in Seq(Result), results # <<>>, NEW p \in {50, 95}
  PROVE  /\ Percentile(p) \in Nat
         /\ Below(Percentile(p)) <= (p * Len(results)) \div 100
         /\ (p * Len(results)) \div 100 < UpTo(Percentile(p))
<1> DEFINE n == Len(results)
           idx == (p * n) \div 100
           f == [i \in 1..n |-> results[i].latency]
           V == {results[i].latency : i \in DOMAIN results}
<1>1. n \in Nat /\ n # 0 /\ DOMAIN results = 1..n /\ \A i \in 1..n : results[i].latency \in Nat
  <2>1. n \in Nat /\ n # 0 /\ DOMAIN results = 1..n
    OBVIOUS
  <2>2. \A i \in 1..n : results[i] \in Result
    OBVIOUS
  <2> QED  BY <2>1, <2>2 DEF Result
<1>2. idx \in 0..(n - 1)
  <2>1. CASE p = 50
    BY <1>1, <2>1
  <2>2. CASE p = 95
    BY <1>1, <2>2
  <2> QED  BY <2>1, <2>2
<1>3. \E v \in V : Below(v) <= idx /\ idx < UpTo(v)
  <2>1. f \in [1..n -> Nat]
    BY <1>1
  <2> HIDE DEF idx, f, n
  <2>2. PICK v : IsElement(v, n, f, idx)
    <3>1. n \in Nat
      BY <1>1
    <3> QED  BY <1>2, <2>1, <3>1, SortedElement
  <2>3. /\ v \in {f[i] : i \in 1..n}
        /\ Cardinality({i \in 1..n : f[i] < v}) <= idx
        /\ idx < Cardinality({i \in 1..n : f[i] <= v})
    BY <2>2 DEF IsElement
  <2>4. /\ {i \in 1..n : f[i] < v} = {i \in DOMAIN results : results[i].latency < v}
        /\ {i \in 1..n : f[i] <= v} = {i \in DOMAIN results : results[i].latency <= v}
        /\ v \in V
    BY <1>1, <2>3 DEF f
  <2> QED  BY <2>3, <2>4 DEF Below, UpTo
<1>4. Percentile(p) = CHOOSE v \in V : Below(v) <= idx /\ idx < UpTo(v)
  BY <1>1, <1>2 DEF Percentile
<1>5. Percentile(p) \in V /\ Below(Percentile(p)) <= idx /\ idx < UpTo(Percentile(p))
  <2> HIDE DEF V, idx
  <2> QED  BY <1>3, <1>4
<1> QED  BY <1>1, <1>5

\* The first n results with an outcome, of a kind, and of a kind and exact.
WithOutcome(n, o) == {i \in 1..n : results[i].outcome = o}
OfKind(n, k) == {i \in 1..n : KindOf(results[i].name) = k}
CorrectOf(n, k) == {i \in 1..n : KindOf(results[i].name) = k /\ results[i].outcome = "exact"}

\* The results so far are about the first entries of the directory, and the
\* tallies are those of the results folded so far.
ResultsOK ==
  /\ results \in Seq(Result) /\ Len(results) <= Len(DatasetDir)
  /\ \A i \in 1..Len(results) : results[i].name = DatasetDir[i]

TallyOK ==
  /\ Len(results) = Len(DatasetDir) /\ tallied \in 0..Len(results)
  /\ counts = [o \in Outcome |-> Cardinality(WithOutcome(tallied, o))]
  /\ perKind = [k \in AllKinds |-> [correct |-> Cardinality(CorrectOf(tallied, k)),
                                    total |-> Cardinality(OfKind(tallied, k))]]

EntriesOK ==
  /\ entries \in Seq(STRING) /\ Len(entries) <= Len(DatasetDir)
  /\ \A i \in 1..Len(entries) : entries[i] = DatasetDir[i]
  /\ runStep \in {"extract", "aggregate"} => Len(entries) = Len(DatasetDir)

\* ReportSound of one report.
Sound(b) ==
  /\ [i \in DOMAIN b.results |-> b.results[i].name] = DatasetDir
  /\ \A o \in Outcome : b.counts[o] = Having(b, LAMBDA r : r.outcome = o)
  /\ \A k \in AllKinds :
       /\ b.perKind[k].total = Having(b, LAMBDA r : KindOf(r.name) = k)
       /\ b.perKind[k].correct = Having(b, LAMBDA r : KindOf(r.name) = k /\ r.outcome = "exact")
  /\ DatasetDir # <<>> =>
       \A p \in {50, 95} :
         LET v == IF p = 50 THEN b.p50 ELSE b.p95
         IN  /\ 100 * Having(b, LAMBDA r : r.latency <= v) >= p * Len(DatasetDir)
             /\ 100 * Having(b, LAMBDA r : r.latency < v) <= p * Len(DatasetDir)
  /\ b.p50 <= b.p95

AllSound == \A n \in DOMAIN report : Sound(report[n])

RegInv ==
  /\ EntriesOK /\ ResultsOK /\ (\E S : report \in Seq(S))
  /\ runStep = "aggregate" => TallyOK
  /\ AllSound

\* What a report is made of at the end of Aggregate.
NewReport == [name |-> BackendList[backend], counts |-> counts, perKind |-> perKind,
              p50 |-> Percentile(50), p95 |-> Percentile(95), results |-> results]

\* Lemma: one more result adds itself to the sets it belongs to.
LEMMA OneMore ==
  ASSUME ResultsOK, NEW n \in Nat, n < Len(results)
  PROVE  /\ \A o : /\ WithOutcome(n + 1, o) = IF results[n + 1].outcome = o
                        THEN WithOutcome(n, o) \cup {n + 1} ELSE WithOutcome(n, o)
                   /\ n + 1 \notin WithOutcome(n, o) /\ IsFiniteSet(WithOutcome(n, o))
         /\ \A k : /\ OfKind(n + 1, k) = IF KindOf(results[n + 1].name) = k
                        THEN OfKind(n, k) \cup {n + 1} ELSE OfKind(n, k)
                   /\ n + 1 \notin OfKind(n, k) /\ IsFiniteSet(OfKind(n, k))
         /\ \A k : /\ CorrectOf(n + 1, k) =
                        IF KindOf(results[n + 1].name) = k /\ results[n + 1].outcome = "exact"
                        THEN CorrectOf(n, k) \cup {n + 1} ELSE CorrectOf(n, k)
                   /\ n + 1 \notin CorrectOf(n, k) /\ IsFiniteSet(CorrectOf(n, k))
<1>1. 1..(n + 1) = (1..n) \cup {n + 1} /\ n + 1 \notin 1..n
  OBVIOUS
<1>2. IsFiniteSet(1..n)
  BY FS_Interval
<1>3. /\ \A o : WithOutcome(n, o) \in SUBSET (1..n)
      /\ \A k : OfKind(n, k) \in SUBSET (1..n) /\ CorrectOf(n, k) \in SUBSET (1..n)
  BY DEF WithOutcome, OfKind, CorrectOf
<1>4. /\ \A o : n + 1 \notin WithOutcome(n, o) /\ IsFiniteSet(WithOutcome(n, o))
      /\ \A k : n + 1 \notin OfKind(n, k) /\ IsFiniteSet(OfKind(n, k))
      /\ \A k : n + 1 \notin CorrectOf(n, k) /\ IsFiniteSet(CorrectOf(n, k))
  BY <1>1, <1>2, <1>3, FS_Subset
<1>5. \A o : WithOutcome(n + 1, o) = IF results[n + 1].outcome = o
               THEN WithOutcome(n, o) \cup {n + 1} ELSE WithOutcome(n, o)
  BY <1>1 DEF WithOutcome
<1>6. \A k : OfKind(n + 1, k) = IF KindOf(results[n + 1].name) = k
               THEN OfKind(n, k) \cup {n + 1} ELSE OfKind(n, k)
  BY <1>1 DEF OfKind
<1>7. \A k : CorrectOf(n + 1, k) =
               IF KindOf(results[n + 1].name) = k /\ results[n + 1].outcome = "exact"
               THEN CorrectOf(n, k) \cup {n + 1} ELSE CorrectOf(n, k)
  BY <1>1 DEF CorrectOf
<1> QED  BY <1>4, <1>5, <1>6, <1>7

\* Lemma: one turn of Aggregate's loop keeps the tallies right.
LEMMA TallyKeeps ==
  ASSUME ResultsOK, TallyOK, Tally
  PROVE  TallyOK'
<1>0. PICK n \in Nat : n = tallied
  BY DEF TallyOK, ResultsOK
<1> DEFINE r == results[n + 1]
           k0 == KindOf(r.name)
           hit == IF r.outcome = "exact" THEN 1 ELSE 0
<1>1. /\ n < Len(results) /\ tallied' = n + 1 /\ results' = results
      /\ counts' = [counts EXCEPT ![r.outcome] = @ + 1]
      /\ perKind' = [perKind EXCEPT ![k0] = [correct |-> @.correct + hit, total |-> @.total + 1]]
  BY <1>0 DEF Tally
<1>2. /\ \A o : WithOutcome(tallied, o)' = WithOutcome(n + 1, o)
      /\ \A k : OfKind(tallied, k)' = OfKind(n + 1, k) /\ CorrectOf(tallied, k)' = CorrectOf(n + 1, k)
  BY <1>1 DEF WithOutcome, OfKind, CorrectOf, KindOf
<1>3. \A o : Cardinality(WithOutcome(n + 1, o)) =
               IF r.outcome = o THEN Cardinality(WithOutcome(n, o)) + 1 ELSE Cardinality(WithOutcome(n, o))
  BY <1>1, OneMore, FS_AddElement
<1>4. \A k : /\ Cardinality(OfKind(n + 1, k)) =
                  IF k0 = k THEN Cardinality(OfKind(n, k)) + 1 ELSE Cardinality(OfKind(n, k))
             /\ Cardinality(CorrectOf(n + 1, k)) =
                  IF k0 = k THEN Cardinality(CorrectOf(n, k)) + hit ELSE Cardinality(CorrectOf(n, k))
  <2> TAKE k
  <2>1. Cardinality(OfKind(n + 1, k)) =
          IF k0 = k THEN Cardinality(OfKind(n, k)) + 1 ELSE Cardinality(OfKind(n, k))
    BY <1>1, OneMore, FS_AddElement
  <2>2. Cardinality(CorrectOf(n, k)) \in Nat
    BY <1>1, OneMore, FS_CardinalityType
  <2>3. Cardinality(CorrectOf(n + 1, k)) =
          IF k0 = k /\ r.outcome = "exact" THEN Cardinality(CorrectOf(n, k)) + 1
          ELSE Cardinality(CorrectOf(n, k))
    <3>1. /\ CorrectOf(n + 1, k) = IF k0 = k /\ r.outcome = "exact"
                                   THEN CorrectOf(n, k) \cup {n + 1} ELSE CorrectOf(n, k)
          /\ n + 1 \notin CorrectOf(n, k) /\ IsFiniteSet(CorrectOf(n, k))
      BY <1>1, OneMore
    <3>2. Cardinality(CorrectOf(n, k) \cup {n + 1}) = Cardinality(CorrectOf(n, k)) + 1
      BY <3>1, FS_AddElement
    <3> QED  BY <3>1, <3>2
  <2>4. CASE k0 = k /\ r.outcome = "exact"
    BY <2>1, <2>3, <2>4
  <2>5. CASE ~ (k0 = k /\ r.outcome = "exact")
    <3>1. k0 = k => hit = 0
      BY <2>5
    <3> HIDE DEF hit
    <3> QED  BY <2>1, <2>2, <2>3, <2>5, <3>1
  <2> QED  BY <2>4, <2>5
<1>5. counts' = [o \in Outcome |-> Cardinality(WithOutcome(n + 1, o))]
  BY <1>0, <1>1, <1>3 DEF TallyOK
<1>6. perKind' = [k \in AllKinds |-> [correct |-> Cardinality(CorrectOf(n + 1, k)),
                                      total |-> Cardinality(OfKind(n + 1, k))]]
  BY <1>0, <1>1, <1>4 DEF TallyOK
<1> HIDE DEF r, k0, hit
<1>7. /\ tallied' = n + 1 /\ tallied' \in 0..Len(results) /\ results' = results
      /\ Len(results) = Len(DatasetDir)
  BY <1>0, <1>1 DEF TallyOK
<1>8. counts' = [o \in Outcome |-> Cardinality(WithOutcome(tallied, o)')]
  BY <1>2, <1>5
<1>9. perKind' = [k \in AllKinds |-> [correct |-> Cardinality(CorrectOf(tallied, k)'),
                                      total |-> Cardinality(OfKind(tallied, k)')]]
  BY <1>2, <1>6
<1> QED  BY <1>7, <1>8, <1>9 DEF TallyOK

\* Lemma: the report that Aggregate ends with is sound.
LEMMA NewReportSound ==
  ASSUME ResultsOK, TallyOK, tallied = Len(results)
  PROVE  Sound(NewReport)
<1> DEFINE n == Len(results)
<1>1. n \in Nat /\ DOMAIN results = 1..n /\ n = Len(DatasetDir) /\ DOMAIN DatasetDir = 1..n
  BY RegressionAssumption DEF ResultsOK, TallyOK
<1>2. NewReport.results = results /\ NewReport.counts = counts /\ NewReport.perKind = perKind
  BY DEF NewReport
<1>3. [i \in DOMAIN results |-> results[i].name] = DatasetDir
  BY <1>1, RegressionAssumption DEF ResultsOK
<1>4. \A o \in Outcome : counts[o] = Having(NewReport, LAMBDA r : r.outcome = o)
  BY <1>1, <1>2 DEF TallyOK, WithOutcome, Having
<1>5. \A k \in AllKinds :
        /\ perKind[k].total = Having(NewReport, LAMBDA r : KindOf(r.name) = k)
        /\ perKind[k].correct = Having(NewReport, LAMBDA r : KindOf(r.name) = k /\ r.outcome = "exact")
  BY <1>1, <1>2 DEF TallyOK, OfKind, CorrectOf, Having
<1>6. \A v : Below(v) \in Nat /\ UpTo(v) \in Nat
  <2> TAKE v
  <2>1. IsFiniteSet(1..n)
    BY FS_Interval, <1>1
  <2>2. /\ IsFiniteSet({i \in DOMAIN results : results[i].latency < v})
        /\ IsFiniteSet({i \in DOMAIN results : results[i].latency <= v})
    BY <1>1, <2>1, FS_Subset
  <2> QED  BY <2>2, FS_CardinalityType DEF Below, UpTo
<1>7. ASSUME DatasetDir # <<>>, NEW p \in {50, 95}
      PROVE  /\ 100 * UpTo(Percentile(p)) >= p * n /\ 100 * Below(Percentile(p)) <= p * n
  <2>1. results # <<>> /\ results \in Seq(Result)
    BY <1>1, <1>7, RegressionAssumption DEF ResultsOK
  <2>2. /\ Below(Percentile(p)) <= (p * n) \div 100
        /\ (p * n) \div 100 < UpTo(Percentile(p))
    BY <2>1, PercentileFacts
  <2> DEFINE x == Below(Percentile(p))
             y == UpTo(Percentile(p))
  <2>3. x \in Nat /\ y \in Nat
    BY <1>6
  <2> HIDE DEF x, y
  <2>4. CASE p = 50
    BY <1>1, <2>2, <2>3, <2>4 DEF x, y
  <2>5. CASE p = 95
    BY <1>1, <2>2, <2>3, <2>5 DEF x, y
  <2> QED  BY <2>4, <2>5
<1>8. Percentile(50) <= Percentile(95)
  <2>1. CASE results = <<>>
    <3>1. n = 0
      BY <2>1
    <3>2. Percentile(50) = 0 /\ Percentile(95) = 0
      BY <3>1 DEF Percentile
    <3> QED  BY <3>2
  <2>2. CASE results # <<>>
    <3> SUFFICES ASSUME ~ (Percentile(50) <= Percentile(95)) PROVE FALSE
      OBVIOUS
    <3> DEFINE u == Percentile(50)
               v == Percentile(95)
    <3>1. /\ u \in Nat /\ Below(u) <= (50 * n) \div 100
          /\ v \in Nat /\ (95 * n) \div 100 < UpTo(v)
      BY <2>2, PercentileFacts DEF ResultsOK
    <3>2. \A i \in DOMAIN results : results[i].latency \in Nat
      <4>1. \A i \in DOMAIN results : results[i] \in Result
        BY DEF ResultsOK
      <4> QED  BY <4>1 DEF Result
    <3> DEFINE A == {i \in DOMAIN results : results[i].latency <= v}
               B == {i \in DOMAIN results : results[i].latency < u}
    <3> HIDE DEF u, v
    <3>3. v < u
      BY <3>1 DEF u, v
    <3>4. A \in SUBSET B
      BY <3>1, <3>2, <3>3
    <3>5. IsFiniteSet(B)
      <4>1. IsFiniteSet(1..n)
        BY <1>1, FS_Interval
      <4> QED  BY <1>1, <4>1, FS_Subset
    <3>6. UpTo(v) <= Below(u)
      <4> HIDE DEF A, B
      <4>1. Cardinality(A) <= Cardinality(B)
        BY <3>4, <3>5, FS_Subset
      <4> QED  BY <4>1 DEF A, B, UpTo, Below
    <3>7. (50 * n) \div 100 <= (95 * n) \div 100
      BY <1>1
    <3>8. UpTo(v) \in Nat /\ Below(u) \in Nat /\ (50 * n) \div 100 \in Nat /\ (95 * n) \div 100 \in Nat
      BY <1>1, <1>6
    <3> HIDE DEF n
    <3> QED  BY <3>1, <3>6, <3>7, <3>8
  <2> QED  BY <2>1, <2>2
<1>9. NewReport.p50 = Percentile(50) /\ NewReport.p95 = Percentile(95)
  BY DEF NewReport
<1>10. DatasetDir # <<>> =>
         \A p \in {50, 95} :
           LET v == IF p = 50 THEN NewReport.p50 ELSE NewReport.p95
           IN  /\ 100 * Having(NewReport, LAMBDA r : r.latency <= v) >= p * Len(DatasetDir)
               /\ 100 * Having(NewReport, LAMBDA r : r.latency < v) <= p * Len(DatasetDir)
  <2> SUFFICES ASSUME DatasetDir # <<>>, NEW p \in {50, 95}
               PROVE  LET v == IF p = 50 THEN NewReport.p50 ELSE NewReport.p95
                      IN  /\ 100 * Having(NewReport, LAMBDA r : r.latency <= v) >= p * Len(DatasetDir)
                          /\ 100 * Having(NewReport, LAMBDA r : r.latency < v) <= p * Len(DatasetDir)
    OBVIOUS
  <2> DEFINE v == IF p = 50 THEN NewReport.p50 ELSE NewReport.p95
  <2>1. v = Percentile(p)
    BY <1>9
  <2>2. 100 * UpTo(v) >= p * Len(DatasetDir) /\ 100 * Below(v) <= p * Len(DatasetDir)
    BY <1>1, <1>7, <2>1
  <2> HIDE DEF v
  <2>3. /\ 100 * Having(NewReport, LAMBDA r : r.latency <= v) >= p * Len(DatasetDir)
        /\ 100 * Having(NewReport, LAMBDA r : r.latency < v) <= p * Len(DatasetDir)
    BY <1>2, <2>2 DEF Having, Below, UpTo
  <2> QED  BY <2>3 DEF v
<1> QED  BY <1>2, <1>3, <1>4, <1>5, <1>8, <1>9, <1>10 DEF Sound

\* Lemma: one more result, of the entry that comes next.
LEMMA OneMoreResult ==
  ASSUME ResultsOK, EntriesOK, runStep = "extract", Len(results) < Len(entries),
         NEW o \in Outcome, NEW took \in Latency,
         results' = Append(results, [name |-> entries[Len(results) + 1], outcome |-> o, latency |-> took])
  PROVE  ResultsOK'
<1> DEFINE r == [name |-> entries[Len(results) + 1], outcome |-> o, latency |-> took]
<1>1. Len(results) \in Nat /\ Len(results) + 1 \in 1..Len(entries)
  BY DEF ResultsOK, EntriesOK
<1>2. r \in Result
  BY <1>1, RegressionAssumption DEF Result, EntriesOK
<1>3. r.name = DatasetDir[Len(results) + 1]
  BY <1>1 DEF EntriesOK
<1> HIDE DEF r
<1>4. results' = Append(results, r)
  BY DEF r
<1>5. results' \in Seq(Result) /\ Len(results') = Len(results) + 1
  BY <1>2, <1>4 DEF ResultsOK
<1>6. Len(results') <= Len(DatasetDir)
  BY <1>1, <1>5 DEF EntriesOK
<1>7. \A i \in 1..Len(results') : results'[i].name = DatasetDir[i]
  <2> TAKE i \in 1..Len(results')
  <2>1. CASE i = Len(results) + 1
    BY <1>1, <1>3, <1>4, <2>1 DEF ResultsOK
  <2>2. CASE i \in 1..Len(results)
    BY <1>4, <2>2 DEF ResultsOK
  <2> QED  BY <1>1, <1>5, <2>1, <2>2
<1> QED  BY <1>5, <1>6, <1>7 DEF ResultsOK

\* Lemma: RegInv is inductive.
LEMMA RegInvStep == RegInv /\ [RegressionNext]_runVars => RegInv'
<1> SUFFICES ASSUME RegInv, [RegressionNext]_runVars PROVE RegInv'
  OBVIOUS
<1>0. /\ EntriesOK /\ ResultsOK /\ (\E S : report \in Seq(S))
      /\ runStep = "aggregate" => TallyOK
      /\ AllSound
  BY DEF RegInv
<1>b. AllSound' <=> \A n \in DOMAIN report' : Sound(report'[n])
  BY DEF AllSound, Sound, Having, KindOf
<1>c. UNCHANGED report => AllSound'
  BY <1>0, <1>b DEF AllSound
<1>a. ASSUME UNCHANGED <<report, results, entries>>, runStep' \notin {"extract", "aggregate"}
      PROVE  RegInv'
  BY <1>0, <1>c, <1>a DEF RegInv, EntriesOK, ResultsOK
<1>1. CASE LoadEntry
  <2>1. CASE RunFails
    BY <1>a, <2>1 DEF RunFails
  <2>2. CASE ~ RunFails
    <3>1. /\ runStep = "load" /\ runStep' = "load" /\ Len(entries) < Len(DatasetDir)
          /\ entries' = Append(entries, DatasetDir[Len(entries) + 1])
          /\ UNCHANGED <<results, report>>
      BY <1>1, <2>2 DEF LoadEntry
    <3>2. DatasetDir[Len(entries) + 1] \in STRING
      BY <1>0, <1>c, <3>1, RegressionAssumption DEF EntriesOK
    <3>3. EntriesOK'
      BY <1>0, <1>c, <3>1, <3>2 DEF EntriesOK
    <3> QED  BY <1>0, <1>c, <3>1, <3>3 DEF RegInv, ResultsOK
  <2> QED  BY <2>1, <2>2
<1>2. CASE ResolveBackends
  BY <1>0, <1>c, <1>2 DEF ResolveBackends, RegInv, EntriesOK, ResultsOK
<1>3. CASE StartAggregate
  <2>1. /\ runStep = "extract" /\ Len(results) = Len(entries)
        /\ runStep' = "aggregate" /\ tallied' = 0 /\ counts' = NoCounts /\ perKind' = NoKinds
        /\ UNCHANGED <<entries, results, report>>
    BY <1>3 DEF StartAggregate
  <2>2. EntriesOK' /\ ResultsOK' /\ Len(results) = Len(DatasetDir)
    BY <1>0, <1>c, <2>1 DEF EntriesOK, ResultsOK
  <2>3. /\ \A o : WithOutcome(0, o) = {}
        /\ \A k : OfKind(0, k) = {} /\ CorrectOf(0, k) = {}
    BY DEF WithOutcome, OfKind, CorrectOf
  <2>4. /\ \A o : Cardinality(WithOutcome(tallied, o))' = 0
        /\ \A k : Cardinality(OfKind(tallied, k))' = 0 /\ Cardinality(CorrectOf(tallied, k))' = 0
    BY <2>1, <2>3, FS_EmptySet DEF WithOutcome, OfKind, CorrectOf, KindOf
  <2>5. TallyOK'
    BY <2>1, <2>2, <2>4 DEF TallyOK, NoCounts, NoKinds, ResultsOK
  <2> QED  BY <1>0, <1>c, <2>1, <2>2, <2>5 DEF RegInv
<1>4. CASE Tally
  <2>1. TallyOK /\ TallyOK'
    BY <1>0, <1>c, <1>4, TallyKeeps DEF Tally
  <2> QED  BY <1>0, <1>c, <1>4, <2>1 DEF Tally, RegInv, EntriesOK, ResultsOK
<1>5. CASE FinishAggregate
  <2>1. /\ runStep = "aggregate" /\ tallied = Len(results)
        /\ report' = Append(report, NewReport) /\ results' = <<>> /\ entries' = entries
        /\ runStep' \in {"extract", "report"}
    BY <1>5 DEF FinishAggregate, NewReport
  <2>2. Sound(NewReport)
    BY <1>0, <1>c, <2>1, NewReportSound
  <2>3. PICK S : report \in Seq(S)
    BY <1>0
  <2>4. report \in Seq(S \cup {NewReport}) /\ NewReport \in S \cup {NewReport}
    BY <2>3
  <2> DEFINE e == NewReport
  <2> HIDE DEF e
  <2>5. /\ report' \in Seq(S \cup {e}) /\ DOMAIN report' = 1..(Len(report) + 1)
        /\ report'[Len(report) + 1] = e
        /\ \A i \in 1..Len(report) : report'[i] = report[i]
        /\ DOMAIN report = 1..Len(report) /\ Len(report) \in Nat
    <3>1. report' = Append(report, e) /\ report \in Seq(S \cup {e}) /\ e \in S \cup {e}
      BY <2>1, <2>4 DEF e
    <3> QED  BY <3>1
  <2>6. \A i \in DOMAIN report' : Sound(report'[i])
    <3>1. Sound(e)
      BY <2>2 DEF e
    <3> TAKE i \in DOMAIN report'
    <3>2. i \in 1..Len(report) \/ i = Len(report) + 1
      BY <2>5
    <3> QED  BY <1>0, <1>c, <2>5, <3>1, <3>2 DEF AllSound
  <2>7. AllSound'
    BY <1>b, <2>6
  <2>8. EntriesOK' /\ ResultsOK'
    <3>1. <<>> \in Seq(Result) /\ Len(<<>>) = 0
      OBVIOUS
    <3> QED  BY <1>0, <1>c, <2>1, <3>1, RegressionAssumption DEF EntriesOK, ResultsOK
  <2> QED  BY <2>1, <2>5, <2>7, <2>8 DEF RegInv
<1>6. ASSUME NEW took \in Latency, ExtractFails(took) \/ \E got \in Extractions : Extract(got, took)
      PROVE  RegInv'
  <2>1. PICK o \in Outcome :
          /\ results' = Append(results, [name |-> entries[Len(results) + 1], outcome |-> o, latency |-> took])
          /\ runStep = "extract" /\ Len(results) < Len(entries)
          /\ UNCHANGED <<runStep, entries, report>>
    BY <1>6 DEF ExtractFails, Extract, MatchComponents, Outcome
  <2>2. ResultsOK'
    BY <1>0, <1>c, <2>1, OneMoreResult
  <2> QED  BY <1>0, <1>c, <2>1, <2>2 DEF RegInv, EntriesOK
<1>7. ASSUME NEW known \in BOOLEAN, WriteReport(known) PROVE RegInv'
  BY <1>a, <1>7 DEF WriteReport
<1>8. CASE UNCHANGED runVars
  BY <1>0, <1>c, <1>8 DEF runVars, RegInv, EntriesOK, ResultsOK, TallyOK, WithOutcome, OfKind, CorrectOf
<1> QED  BY <1>1, <1>2, <1>3, <1>4, <1>5, <1>6, <1>7, <1>8 DEF RegressionNext

\* Theorem: every report is about the whole data set and adds up, for every
\* data set, list of backends, answer and latency.
THEOREM ReportSoundHolds == RegressionSpec => []ReportSound
<1>1. RegressionInit => RegInv
  <2> SUFFICES ASSUME RegressionInit PROVE RegInv
    OBVIOUS
  <2>1. /\ runStep = "load" /\ entries = <<>> /\ results = <<>> /\ report = <<>>
        /\ <<>> \in Seq(STRING) /\ <<>> \in Seq(Result) /\ Len(<<>>) = 0
        /\ <<>> \in Seq({}) /\ DOMAIN <<>> = {}
    BY DEF RegressionInit
  <2> QED  BY <2>1, RegressionAssumption DEF RegInv, AllSound, EntriesOK, ResultsOK
<1>2. RegInv => ReportSound
  BY DEF RegInv, AllSound, Sound, ReportSound
<1> QED  BY <1>1, <1>2, RegInvStep, PTL DEF RegressionSpec

-----------------------------------------------------------------------------
(* Which backends a report file is about *)

\* The reports follow the --backend flag, and --out is not touched before the
\* last of them is there.
ReportsComplete ==
  /\ \A n \in 1..Len(report) : report[n].name = BackendList[n]
  /\ runStep \in {"report", "written"} \/ outFile # "old" => Len(report) = Len(BackendList)

ReportsInv ==
  /\ \E S : report \in Seq(S)
  /\ \A n \in 1..Len(report) : report[n].name = BackendList[n]
  /\ runStep = "load" => report = <<>> /\ backend = 1
  /\ runStep \in {"extract", "aggregate"} => backend = Len(report) + 1 /\ backend <= Len(BackendList)
  /\ runStep \in {"report", "written"} => Len(report) = Len(BackendList)
  /\ outFile # "old" => runStep \in {"written", "failed"} /\ Len(report) = Len(BackendList)

\* Lemma: appending the report of the backend at hand.
LEMMA ReportAppended ==
  ASSUME ReportsInv, FinishAggregate
  PROVE  /\ \E S : report' \in Seq(S)
         /\ Len(report') = Len(report) + 1 /\ Len(report) \in Nat
         /\ \A n \in 1..Len(report') : report'[n].name = BackendList[n]
<1>1. PICK S : report \in Seq(S)
  BY DEF ReportsInv
<1> DEFINE b == [name |-> BackendList[backend], counts |-> counts, perKind |-> perKind,
                 p50 |-> Percentile(50), p95 |-> Percentile(95), results |-> results]
<1>2. report' = Append(report, b) /\ b.name = BackendList[backend]
  BY DEF FinishAggregate
<1>3. backend = Len(report) + 1
  BY DEF FinishAggregate, ReportsInv
<1>4. \A n \in 1..Len(report) : report[n].name = BackendList[n]
  BY DEF ReportsInv
<1> HIDE DEF b
<1>5. report \in Seq(S \cup {b})
  BY <1>1
<1>6. /\ report' \in Seq(S \cup {b}) /\ Len(report') = Len(report) + 1 /\ Len(report) \in Nat
      /\ \A n \in 1..Len(report) : report'[n] = report[n]
      /\ report'[Len(report) + 1] = b
  BY <1>2, <1>5
<1> QED  BY <1>2, <1>3, <1>4, <1>6

\* Theorem: a report file tells about every backend that was asked for, in that
\* order, and a run that does not get that far leaves an earlier --out as it is.
THEOREM EveryBackendReported == RegressionSpec => []ReportsComplete
<1>1. RegressionInit => ReportsInv
  <2> SUFFICES ASSUME RegressionInit PROVE ReportsInv
    OBVIOUS
  <2>1. report = <<>> /\ <<>> \in Seq({}) /\ Len(<<>>) = 0
    BY DEF RegressionInit
  <2> QED  BY <2>1 DEF RegressionInit, ReportsInv
<1>2. ReportsInv /\ [RegressionNext]_runVars => ReportsInv'
  <2> SUFFICES ASSUME ReportsInv, [RegressionNext]_runVars PROVE ReportsInv'
    OBVIOUS
  <2>1. CASE LoadEntry
    BY <2>1 DEF LoadEntry, RunFails, ReportsInv
  <2>2. CASE ResolveBackends
    <3>1. BackendList # <<>> => Len(BackendList) >= 1
      BY RegressionAssumption
    <3>2. Len(<<>>) = 0
      OBVIOUS
    <3> QED  BY <2>2, <3>1, <3>2 DEF ResolveBackends, ReportsInv
  <2>3. ASSUME NEW took \in Latency, ExtractFails(took) PROVE ReportsInv'
    BY <2>3 DEF ExtractFails, ReportsInv
  <2>4. ASSUME NEW took \in Latency, NEW got \in Extractions, Extract(got, took) PROVE ReportsInv'
    BY <2>4 DEF Extract, ReportsInv
  <2>5. CASE StartAggregate \/ Tally
    BY <2>5 DEF StartAggregate, Tally, ReportsInv
  <2>6. CASE FinishAggregate
    <3>1. /\ runStep = "aggregate" /\ outFile' = "old" /\ Len(BackendList) \in Nat
          /\ backend = Len(report) + 1 /\ backend <= Len(BackendList)
          /\ runStep' = IF backend < Len(BackendList) THEN "extract" ELSE "report"
          /\ backend' = IF backend < Len(BackendList) THEN backend + 1 ELSE backend
      BY <2>6, RegressionAssumption DEF FinishAggregate, ReportsInv
    <3>2. /\ runStep' \in {"extract", "aggregate"} =>
               backend' = Len(report') + 1 /\ backend' <= Len(BackendList)
          /\ runStep' \in {"report", "written"} => Len(report') = Len(BackendList)
      BY <2>6, <3>1, ReportAppended
    <3>3. runStep' # "load"
      BY <3>1
    <3> QED  BY <2>6, <3>1, <3>2, <3>3, ReportAppended DEF ReportsInv
  <2>7. ASSUME NEW known \in BOOLEAN, WriteReport(known) PROVE ReportsInv'
    BY <2>7 DEF WriteReport, ReportsInv
  <2>8. CASE UNCHANGED runVars
    BY <2>8 DEF runVars, ReportsInv
  <2> QED
    BY <2>1, <2>2, <2>3, <2>4, <2>5, <2>6, <2>7, <2>8 DEF RegressionNext
<1>3. ReportsInv => ReportsComplete
  BY DEF ReportsInv, ReportsComplete
<1> QED
  BY <1>1, <1>2, <1>3, PTL DEF RegressionSpec
=============================================================================
