-------------------------- MODULE MigrationsProofs --------------------------
(***************************************************************************)
(* Proofs about Migrations, for any processes, versions and releases.      *)
(***************************************************************************)
EXTENDS Migrations, SequenceTheorems, TLAPS

-----------------------------------------------------------------------------
\* What the two ways to change goose_db_version do to its rows.

LEMMA AppendRow ==
  ASSUME NEW S, NEW seq \in Seq(S), NEW v \in S
  PROVE  /\ Append(seq, v) \in Seq(S)
         /\ ToSet(Append(seq, v)) = ToSet(seq) \cup {v}
         /\ v \notin ToSet(seq) /\ (\A i, j \in DOMAIN seq : seq[i] = seq[j] => i = j) =>
              \A i, j \in DOMAIN Append(seq, v) : Append(seq, v)[i] = Append(seq, v)[j] => i = j
<1> DEFINE t == Append(seq, v)
<1>1. /\ t \in Seq(S) /\ Len(t) = Len(seq) + 1
      /\ DOMAIN seq = 1 .. Len(seq) /\ DOMAIN t = 1 .. Len(seq) + 1
      /\ \A i \in 1 .. Len(seq) : t[i] = seq[i]
      /\ t[Len(seq) + 1] = v
      /\ Len(seq) \in Nat
  BY AppendProperties, LenProperties
<1> HIDE DEF t
<1>2. ToSet(t) = ToSet(seq) \cup {v}
  BY <1>1 DEF ToSet
<1>3. QED
  BY <1>1, <1>2 DEF ToSet, t

LEMMA DeleteRow ==
  ASSUME NEW S, NEW seq \in Seq(S), NEW i \in DOMAIN seq
  PROVE  /\ RemoveAt(seq, i) \in Seq(S)
         /\ Len(RemoveAt(seq, i)) = Len(seq) - 1
         /\ \A k \in 1 .. Len(seq) - 1 :
              RemoveAt(seq, i)[k] = IF k < i THEN seq[k] ELSE seq[k + 1]
<1> DEFINE a == SubSeq(seq, 1, i - 1)
           b == SubSeq(seq, i + 1, Len(seq))
<1>1. Len(seq) \in Nat /\ i \in 1 .. Len(seq)
  BY LenProperties
<1>2. a \in Seq(S) /\ Len(a) = i - 1 /\ \A k \in 1 .. i - 1 : a[k] = seq[k]
  <2>1. \A k \in 1 .. i - 1 : seq[k] \in S
    BY <1>1, ElementOfSeq
  <2>2. QED
    BY <1>1, <2>1, SubSeqProperties
<1>3. /\ b \in Seq(S) /\ Len(b) = Len(seq) - i
      /\ \A k \in 1 .. Len(seq) - i : b[k] = seq[i + k]
  <2>1. \A k \in i + 1 .. Len(seq) : seq[k] \in S
    BY <1>1, ElementOfSeq
  <2>2. /\ b \in Seq(S) /\ Len(b) = IF i + 1 <= Len(seq) THEN Len(seq) - (i + 1) + 1 ELSE 0
        /\ \A k \in 1 .. Len(seq) - (i + 1) + 1 : b[k] = seq[(i + 1) + k - 1]
    BY <1>1, <2>1, SubSeqProperties
  <2> HIDE DEF b
  <2>3. QED
    BY <1>1, <2>2
<1> HIDE DEF a, b
<1>4. /\ a \o b \in Seq(S) /\ Len(a \o b) = Len(a) + Len(b)
      /\ \A k \in 1 .. Len(a) + Len(b) :
           (a \o b)[k] = IF k <= Len(a) THEN a[k] ELSE b[k - Len(a)]
  BY <1>2, <1>3, ConcatProperties
<1>5. RemoveAt(seq, i) = a \o b
  BY DEF RemoveAt, a, b
<1>6. \A k \in 1 .. Len(seq) - 1 :
        (a \o b)[k] = IF k < i THEN seq[k] ELSE seq[k + 1]
  <2> TAKE k \in 1 .. Len(seq) - 1
  <2>1. (a \o b)[k] = IF k <= i - 1 THEN a[k] ELSE b[k - (i - 1)]
    <3>1. Len(a) = i - 1 /\ Len(b) = Len(seq) - i
      BY <1>2, <1>3
    <3>2. (i - 1) + (Len(seq) - i) = Len(seq) - 1
      BY <1>1
    <3>3. k \in 1 .. Len(a) + Len(b)
      BY <3>1, <3>2
    <3>4. (a \o b)[k] = IF k <= Len(a) THEN a[k] ELSE b[k - Len(a)]
      BY <1>4, <3>3
    <3>5. QED
      BY <3>1, <3>4
  <2>2. CASE k < i
    BY <1>1, <1>2, <2>1, <2>2
  <2>3. CASE ~ k < i
    <3>1. k - (i - 1) \in 1 .. Len(seq) - i /\ i + (k - (i - 1)) = k + 1
      BY <1>1, <2>3
    <3>2. b[k - (i - 1)] = seq[k + 1]
      BY <1>3, <3>1
    <3>3. QED
      BY <1>1, <2>1, <2>3, <3>2
  <2>4. QED
    BY <2>2, <2>3
<1>7. a \o b \in Seq(S) /\ Len(a \o b) = Len(seq) - 1
  <2>1. Len(a) = i - 1 /\ Len(b) = Len(seq) - i
    BY <1>2, <1>3
  <2>2. (i - 1) + (Len(seq) - i) = Len(seq) - 1
    BY <1>1
  <2>3. a \o b \in Seq(S) /\ Len(a \o b) = Len(a) + Len(b)
    BY <1>4
  <2>4. QED
    BY <2>1, <2>2, <2>3
<1>8. QED
  BY <1>5, <1>6, <1>7

LEMMA DeleteRowSet ==
  ASSUME NEW S, NEW seq \in Seq(S), NEW i \in DOMAIN seq,
         \A j, k \in DOMAIN seq : seq[j] = seq[k] => j = k
  PROVE  /\ ToSet(RemoveAt(seq, i)) = ToSet(seq) \ {seq[i]}
         /\ \A j, k \in DOMAIN RemoveAt(seq, i) :
              RemoveAt(seq, i)[j] = RemoveAt(seq, i)[k] => j = k
<1> DEFINE t == RemoveAt(seq, i)
<1>0. /\ t \in Seq(S) /\ Len(t) = Len(seq) - 1
      /\ \A k \in 1 .. Len(seq) - 1 : t[k] = IF k < i THEN seq[k] ELSE seq[k + 1]
  BY DeleteRow
<1> SUFFICES /\ ToSet(t) = ToSet(seq) \ {seq[i]}
             /\ \A j, k \in DOMAIN t : t[j] = t[k] => j = k
  OBVIOUS
<1> HIDE DEF t
<1>1. /\ DOMAIN seq = 1 .. Len(seq) /\ Len(seq) \in Nat
      /\ DOMAIN t = 1 .. Len(seq) - 1
      /\ \A k \in 1 .. Len(seq) - 1 : t[k] = IF k < i THEN seq[k] ELSE seq[k + 1]
  BY <1>0, LenProperties
<1>2. \A j, k \in DOMAIN t : t[j] = t[k] => j = k
  BY <1>1
<1>3. ToSet(t) \subseteq ToSet(seq) \ {seq[i]}
  BY <1>1 DEF ToSet
<1>4. ASSUME NEW j \in DOMAIN seq, j # i PROVE seq[j] \in ToSet(t)
  <2>1. CASE j < i
    BY <1>1, <2>1 DEF ToSet
  <2>2. CASE j > i
    <3>1. j - 1 \in DOMAIN t /\ t[j - 1] = seq[j]
      BY <1>1, <2>2
    <3>2. QED
      BY <3>1 DEF ToSet
  <2>3. QED
    BY <1>1, <1>4, <2>1, <2>2
<1>5. ToSet(seq) \ {seq[i]} \subseteq ToSet(t)
  BY <1>4 DEF ToSet
<1>6. QED
  BY <1>2, <1>3, <1>5

LEMMA LastRow ==
  ASSUME NEW S, NEW seq \in Seq(S), seq # <<>>
  PROVE  Last(seq) \in S
<1>1. Len(seq) \in Nat \ {0}
  BY EmptySeq
<1>2. QED
  BY <1>1, ElementOfSeq DEF Last

LEMMA DeleteLast ==
  ASSUME NEW S, NEW seq \in Seq(S), seq # <<>>
  PROVE  Len(seq) \in DOMAIN seq /\ RemoveAt(seq, Len(seq)) = Front(seq)
<1>1. Len(seq) \in Nat \ {0} /\ DOMAIN seq = 1 .. Len(seq)
  BY EmptySeq, LenProperties
<1>2. SubSeq(seq, Len(seq) + 1, Len(seq)) = <<>>
  BY <1>1, SubSeqEmpty
<1>3. SubSeq(seq, 1, Len(seq) - 1) \in Seq(S)
  <2>1. \A k \in 1 .. Len(seq) - 1 : seq[k] \in S
    BY <1>1, ElementOfSeq
  <2>2. QED
    BY <1>1, <2>1, SubSeqProperties
<1>4. QED
  BY <1>1, <1>2, <1>3, ConcatEmptySeq DEF RemoveAt, Front
\* Lemma: deleting a version deletes nothing else, and leaves no row of it.
LEMMA WithoutRow ==
  ASSUME NEW S, NEW seq \in Seq(S), NEW v,
         \A i, j \in DOMAIN seq : seq[i] = seq[j] => i = j
  PROVE  /\ Without(seq, v) \in Seq(S)
         /\ ToSet(Without(seq, v)) = ToSet(seq) \ {v}
         /\ \A i, j \in DOMAIN Without(seq, v) : Without(seq, v)[i] = Without(seq, v)[j] => i = j
<1>1. CASE v \notin ToSet(seq)
  BY <1>1 DEF Without
<1>2. CASE v \in ToSet(seq)
  <2>1. PICK k \in DOMAIN seq : seq[k] = v /\ Without(seq, v) = RemoveAt(seq, k)
    BY <1>2 DEF Without, ToSet
  <2> DEFINE t == RemoveAt(seq, k)
  <2>2. t \in Seq(S)
    BY DeleteRow
  <2>3. /\ ToSet(t) = ToSet(seq) \ {v}
        /\ \A i, j \in DOMAIN t : t[i] = t[j] => i = j
    BY <2>1, DeleteRowSet
  <2> QED  BY <2>1, <2>2, <2>3
<1> QED  BY <1>1, <1>2

\* Lemma: in rows without repetition, deleting the last version deletes the last row.
LEMMA WithoutLast ==
  ASSUME NEW S, NEW seq \in Seq(S), seq # <<>>,
         \A i, j \in DOMAIN seq : seq[i] = seq[j] => i = j
  PROVE  Without(seq, Last(seq)) = Front(seq)
<1>1. Len(seq) \in DOMAIN seq /\ RemoveAt(seq, Len(seq)) = Front(seq)
  BY DeleteLast
<1>2. seq[Len(seq)] = Last(seq)
  BY DEF Last
<1>3. Last(seq) \in ToSet(seq) /\ \A k \in DOMAIN seq : seq[k] = Last(seq) => k = Len(seq)
  BY <1>1, <1>2 DEF ToSet
<1>4. (CHOOSE k \in DOMAIN seq : seq[k] = Last(seq)) = Len(seq)
  BY <1>1, <1>2, <1>3
<1> QED  BY <1>1, <1>3, <1>4 DEF Without

-----------------------------------------------------------------------------
\* No version has two rows.
RowsDiffer == \A i, j \in DOMAIN rows : rows[i] = rows[j] => i = j

\* What a process knows of the database: what it has looked up, planned or
\* delivered is applied, or was rolled back after it had read the database.

Knows(p) ==
  /\ state[p] = "reading" /\ ~ pending[p] =>
       source[p] \ unread[p] \subseteq Applied \cup undone[p]
  /\ state[p] = "serving" => source[p] \subseteq Applied \cup undone[p]
  /\ state[p] = "applying" => source[p] \subseteq plan[p] \cup Applied \cup undone[p]
  /\ kind[p] = "up" => state[p] \in {"idle", "applying", "exited"}
  /\ kind[p] = "up" /\ state[p] = "exited" /\ exit[p] = 0 /\ ~ interrupted[p] =>
       source[p] \subseteq Applied \cup undone[p]

KnowsInv == \A p \in Process : Knows(p)

Inv == TypeOK /\ RowsDiffer /\ KnowsInv

LEMMA InitInv == Init => Inv
<1> SUFFICES ASSUME Init PROVE Inv
  OBVIOUS
<1>1. TypeOK
  BY EmptySeq DEF Init, TypeOK, Kind, State
<1>2. RowsDiffer
  BY DEF Init, RowsDiffer
<1>3. KnowsInv
  BY DEF Init, KnowsInv, Knows
<1>4. QED
  BY <1>1, <1>2, <1>3 DEF Inv

\* The rows after each step.
LEMMA ApplyRow ==
  ASSUME TypeOK, RowsDiffer, NEW p \in Process, NEW v \in Version, Apply(p, v)
  PROVE  /\ rows' \in Seq(Version) /\ RowsDiffer' /\ Applied' = Applied \cup {v}
         /\ v \notin Applied => rows' = Append(rows, v)
<1> DEFINE t == Without(rows, v)
<1>1. rows \in Seq(Version) /\ rows' = Append(t, v)
  BY DEF TypeOK, Apply
<1>2. t \in Seq(Version)
  BY <1>1, WithoutRow DEF RowsDiffer
<1>3. /\ ToSet(t) = ToSet(rows) \ {v}
      /\ \A i, j \in DOMAIN t : t[i] = t[j] => i = j
  BY <1>1, WithoutRow DEF RowsDiffer
<1>4. v \notin ToSet(rows) => t = rows
  BY DEF Without
<1> HIDE DEF t
<1>5. RowsDiffer' /\ ToSet(rows') = ToSet(t) \cup {v} /\ rows' \in Seq(Version)
  BY <1>1, <1>2, <1>3, AppendRow DEF RowsDiffer
<1> QED
  BY <1>1, <1>3, <1>4, <1>5 DEF Applied

LEMMA RollBackRow ==
  ASSUME TypeOK, RowsDiffer, NEW p \in Process, NEW v \in Version, RollBack(p, v)
  PROVE  rows' \in Seq(Version) /\ RowsDiffer' /\ Applied' = Applied \ {v}
<1>1. rows \in Seq(Version) /\ rows' = Without(rows, v)
  BY DEF TypeOK, RollBack
<1> QED
  BY <1>1, WithoutRow DEF RowsDiffer, Applied

\* Lemma: what no step changes, what no step takes back, and who may write rows.
LEMMA StepEffect ==
  ASSUME [Next]_vars
  PROVE  /\ releases' = releases
         /\ overlapped => overlapped'
         /\ \/ rows' = rows
            \/ \E p \in Process, v \in Version : Apply(p, v)
            \/ \E p \in Process, v \in Version : RollBack(p, v)
<1> DEFINE Quiet == releases' = releases /\ (overlapped => overlapped') /\ rows' = rows
<1>1. CASE UNCHANGED vars
  BY <1>1 DEF vars
<1>2. ASSUME NEW p \in Process, Start(p) PROVE Quiet
  <2> PICK s \in releases : \/ Up(p, s) \/ Down(p, s)
                            \/ \E command \in {"status", "role"} : ReadStatus(p, command, s)
                            \/ \E command \in Kind : Refused(p, command, s)
    BY <1>2 DEF Start
  <2>1. CASE Up(p, s) \/ Down(p, s)
    BY <2>1 DEF Up, Down, Run
  <2>2. ASSUME NEW command, ReadStatus(p, command, s) \/ Refused(p, command, s) PROVE Quiet
    BY <2>2 DEF ReadStatus, Refused, Run
  <2>3. QED
    BY <2>1, <2>2
<1>3. ASSUME NEW p \in Process, NEW v \in Version, Apply(p, v)
      PROVE  releases' = releases /\ overlapped' = overlapped
  BY <1>3 DEF Apply
<1>4. ASSUME NEW p \in Process, NEW v \in Version, RollBack(p, v)
      PROVE  releases' = releases /\ overlapped' = overlapped
  BY <1>4 DEF RollBack
<1>5. ASSUME NEW p \in Process, NEW v \in Version, LookUp(p, v) PROVE Quiet
  BY <1>5 DEF LookUp
<1>6. ASSUME NEW p \in Process,
             \/ Done(p) \/ Fails(p) \/ StatusPrinted(p) \/ CheckPassed(p) \/ CheckFailed(p)
             \/ Interrupt(p)
      PROVE  Quiet
  <2>1. CASE Done(p)
    BY <2>1 DEF Done
  <2>2. CASE Fails(p)
    BY <2>2 DEF Fails
  <2>3. CASE Interrupt(p)
    BY <2>3 DEF Interrupt
  <2>4. CASE StatusPrinted(p)
    BY <2>4 DEF StatusPrinted
  <2>5. CASE CheckPassed(p) \/ CheckFailed(p)
    BY <2>5 DEF CheckPassed, CheckFailed
  <2>6. QED
    BY <1>6, <2>1, <2>2, <2>3, <2>4, <2>5
<1>7. QED
  <2>1. CASE \E p \in Process, v \in Version : Apply(p, v)
    BY <1>3, <2>1
  <2>2. CASE \E p \in Process, v \in Version : RollBack(p, v)
    BY <1>4, <2>2
  <2>3. CASE UNCHANGED vars \/ Quiet
    BY <1>1, <2>3
  <2> HIDE DEF Quiet
  <2>4. QED
    BY <1>2, <1>5, <1>6, <2>1, <2>2, <2>3 DEF Next, Proceed

\* Lemma: the rows stay versions, none of them twice.
LEMMA RowsStep ==
  ASSUME TypeOK, RowsDiffer, [Next]_vars
  PROVE  rows' \in Seq(Version) /\ RowsDiffer'
<1>1. \/ rows' = rows
      \/ \E p \in Process, v \in Version : Apply(p, v)
      \/ \E p \in Process, v \in Version : RollBack(p, v)
  BY StepEffect
<1>2. CASE rows' = rows
  BY <1>2 DEF TypeOK, RowsDiffer
<1>3. QED
  BY <1>1, <1>2, ApplyRow, RollBackRow

LEMMA TypeStep == TypeOK /\ RowsDiffer /\ [Next]_vars => TypeOK'
<1> SUFFICES ASSUME TypeOK, RowsDiffer, [Next]_vars PROVE TypeOK'
  OBVIOUS
<1> USE DEF TypeOK, Kind, State, commandVars, readVars
<1>1. rows' \in Seq(Version)
  BY RowsStep
<1>2. ASSUME NEW p \in Process, Start(p) PROVE TypeOK'
  <2> PICK s \in releases : \/ Up(p, s) \/ Down(p, s)
                            \/ \E command \in {"status", "role"} : ReadStatus(p, command, s)
                            \/ \E command \in Kind : Refused(p, command, s)
    BY <1>2 DEF Start
  <2>0. s \subseteq Version
    BY HistoriesAssumption
  <2>1. CASE Up(p, s)
    BY <1>1, <2>0, <2>1 DEF Up, Run
  <2>2. CASE Down(p, s)
    <3>1. rows \in Seq(Version) /\ rows # <<>>
      BY <2>2 DEF Down
    <3>2. Last(rows) \in Version
      BY <3>1, LastRow
    <3>3. plan' \in [Process -> SUBSET Version] /\ overlapped' \in BOOLEAN
      BY <2>2, <3>2 DEF Down
    <3>4. Run(p, "down", s, "rolling back") /\ UNCHANGED <<readVars, exit>>
      BY <2>2 DEF Down
    <3>5. QED
      BY <1>1, <2>0, <3>3, <3>4 DEF Run
  <2>3. ASSUME NEW command \in {"status", "role"}, ReadStatus(p, command, s)
        PROVE  TypeOK'
    BY <1>1, <2>0, <2>3 DEF ReadStatus, Run
  <2>4. ASSUME NEW command \in Kind, Refused(p, command, s)
        PROVE  TypeOK'
    BY <1>1, <2>0, <2>4 DEF Refused, Run
  <2>5. QED
    BY <2>1, <2>2, <2>3, <2>4
<1>3. ASSUME NEW p \in Process, NEW v \in Version, Apply(p, v)
      PROVE  TypeOK'
  BY <1>1, <1>3 DEF Apply
<1>4. ASSUME NEW p \in Process, NEW v \in Version, LookUp(p, v)
      PROVE  TypeOK'
  <2>1. pending' \in [Process -> BOOLEAN]
    BY <1>4 DEF LookUp
  <2>2. QED
    BY <1>1, <1>4, <2>1 DEF LookUp
<1>5. ASSUME NEW p \in Process, NEW v \in Version, RollBack(p, v)
      PROVE  TypeOK'
  BY <1>1, <1>5 DEF RollBack
<1>6. ASSUME NEW p \in Process,
             Done(p) \/ Fails(p) \/ Interrupt(p) \/ StatusPrinted(p) \/ CheckPassed(p) \/ CheckFailed(p)
      PROVE  TypeOK'
  BY <1>1, <1>6 DEF Done, Fails, Interrupt, StatusPrinted, CheckPassed, CheckFailed, Exit
<1>7. CASE UNCHANGED vars
  BY <1>7 DEF vars
<1>8. QED
  BY <1>2, <1>3, <1>4, <1>5, <1>6, <1>7 DEF Next, Proceed
\* A step of another process: what p knows still holds.
LEMMA KnowsFrame ==
  ASSUME NEW p \in Process, Knows(p),
         UNCHANGED <<state[p], kind[p], source[p], plan[p], unread[p], pending[p], exit[p],
                     interrupted[p]>>,
         Applied \cup undone[p] \subseteq Applied' \cup undone'[p]
  PROVE  Knows(p)'
  BY DEF Knows

\* Process p starts.
LEMMA KnowsStart ==
  ASSUME TypeOK, KnowsInv, NEW p \in Process, Start(p)
  PROVE  KnowsInv'
<1> SUFFICES ASSUME NEW q \in Process PROVE Knows(q)'
  BY DEF KnowsInv
<1> USE DEF TypeOK, commandVars, readVars, Run
<1>1. Applied' = Applied /\ Knows(q)
  BY DEF Start, Up, Down, ReadStatus, Refused, Applied, KnowsInv
<1>2. CASE q # p
  <2> DEFINE Untouched == /\ UNCHANGED <<state[q], kind[q], source[q], plan[q], unread[q], pending[q],
                                         exit[q], interrupted[q]>>
                          /\ undone'[q] = undone[q]
  <2> PICK s \in releases : \/ Up(p, s) \/ Down(p, s)
                            \/ \E command \in {"status", "role"} : ReadStatus(p, command, s)
                            \/ \E command \in Kind : Refused(p, command, s)
    BY DEF Start
  <2>1. CASE Up(p, s) \/ Down(p, s)
    <3>1. Untouched
      BY <1>2, <2>1 DEF Up, Down
    <3>2. QED
      BY <1>1, <3>1, KnowsFrame
  <2>2. ASSUME NEW command, ReadStatus(p, command, s) \/ Refused(p, command, s)
        PROVE  Knows(q)'
    <3>1. Untouched
      BY <1>2, <2>2 DEF ReadStatus, Refused
    <3>2. QED
      BY <1>1, <3>1, KnowsFrame
  <2>3. QED
    BY <2>1, <2>2
<1>3. CASE q = p
  <2> PICK s \in releases : \/ Up(p, s) \/ Down(p, s)
                            \/ \E command \in {"status", "role"} : ReadStatus(p, command, s)
                            \/ \E command \in Kind : Refused(p, command, s)
    BY DEF Start
  <2>1. CASE Up(p, s)
    BY <1>1, <1>3, <2>1 DEF Up, Knows
  <2>2. CASE Down(p, s)
    BY <1>1, <1>3, <2>2 DEF Down, Knows
  <2>3. ASSUME NEW command \in {"status", "role"}, ReadStatus(p, command, s)
        PROVE  Knows(q)'
    BY <1>1, <1>3, <2>3 DEF ReadStatus, Knows
  <2>4. ASSUME NEW command \in Kind, Refused(p, command, s)
        PROVE  Knows(q)'
    BY <1>1, <1>3, <2>4 DEF Refused, Knows
  <2>5. QED
    BY <2>1, <2>2, <2>3, <2>4
<1>4. QED
  BY <1>2, <1>3

\* Process p goes on, or ends.
LEMMA KnowsProceed ==
  ASSUME TypeOK, RowsDiffer, KnowsInv, NEW p \in Process, Proceed(p) \/ Interrupt(p)
  PROVE  KnowsInv'
<1> SUFFICES ASSUME NEW q \in Process PROVE Knows(q)'
  BY DEF KnowsInv
<1> USE DEF TypeOK, commandVars, readVars
<1>1. Knows(q)
  BY DEF KnowsInv
<1>2. ASSUME NEW v \in Version, Apply(p, v)
      PROVE  Knows(q)'
  <2>1. Applied' = Applied \cup {v}
    BY <1>2, ApplyRow
  <2>2. QED
    BY <1>1, <1>2, <2>1 DEF Apply, Knows
<1>3. ASSUME NEW v \in Version, LookUp(p, v)
      PROVE  Knows(q)'
  <2>1. Applied' = Applied
    BY <1>3 DEF LookUp, Applied
  <2>2. CASE q # p
    BY <1>1, <1>3, <2>1, <2>2, KnowsFrame DEF LookUp
  <2>3. CASE q = p
    <3>1. ~ pending'[p] => ~ pending[p] /\ v \in Applied
      BY <1>3 DEF LookUp
    <3>2. /\ unread'[p] = unread[p] \ {v} /\ state[p] = "reading"
          /\ UNCHANGED <<state, commandVars, plan, exit, interrupted, undone>>
      BY <1>3 DEF LookUp
    <3>3. QED
      BY <1>1, <2>1, <2>3, <3>1, <3>2 DEF Knows
  <2>4. QED
    BY <2>2, <2>3
<1>4. ASSUME NEW v \in Version, RollBack(p, v)
      PROVE  Knows(q)'
  <2>1. Applied' = Applied \ {v}
    BY <1>4, RollBackRow
  <2>2. /\ undone'[q] = undone[q] \cup {v}
        /\ UNCHANGED <<state, commandVars, readVars, exit, interrupted>>
        /\ state[q] = "applying" => plan'[q] = plan[q]
    BY <1>4 DEF RollBack
  <2>3. QED
    BY <1>1, <2>1, <2>2 DEF Knows
<1>5. CASE Done(p) \/ Fails(p) \/ Interrupt(p) \/ StatusPrinted(p) \/ CheckFailed(p)
  <2>1. Applied' = Applied /\ UNCHANGED <<commandVars, undone>>
    BY <1>5 DEF Done, Fails, Interrupt, StatusPrinted, CheckFailed, Applied
  <2>2. CASE q # p
    BY <1>1, <1>5, <2>1, <2>2, KnowsFrame
       DEF Done, Fails, Interrupt, StatusPrinted, CheckFailed, Exit
  <2>3. CASE q = p
    <3>1. /\ state'[p] = "exited"
          /\ kind[p] = "up" =>
               \/ exit'[p] = 1 \/ interrupted'[p] = TRUE
               \/ AtWork(p) /\ plan[p] = {}
      BY <1>5 DEF Done, Fails, Interrupt, StatusPrinted, CheckFailed, Exit
    <3>2. kind[p] = "up" /\ AtWork(p) => state[p] = "applying"
      BY <1>1, <2>3 DEF Knows, AtWork
    <3>3. QED
      BY <1>1, <2>1, <2>3, <3>1, <3>2 DEF Knows
  <2>4. QED
    BY <2>2, <2>3
<1>6. CASE CheckPassed(p)
  <2>1. Applied' = Applied /\ UNCHANGED <<commandVars, plan, readVars, exit, interrupted, undone>>
    BY <1>6 DEF CheckPassed, Applied
  <2>2. QED
    BY <1>1, <1>6, <2>1 DEF CheckPassed, Knows
<1>7. QED
  BY <1>2, <1>3, <1>4, <1>5, <1>6 DEF Proceed

LEMMA KnowsStep == Inv /\ [Next]_vars => KnowsInv'
<1>1. KnowsInv /\ UNCHANGED vars => KnowsInv'
  BY DEF KnowsInv, Knows, Applied, vars, commandVars, readVars
<1>2. QED
  BY <1>1, KnowsStart, KnowsProceed DEF Inv, Next

LEMMA Invariance == Spec => []Inv
<1>1. Inv /\ [Next]_vars => Inv'
  BY TypeStep, RowsStep, KnowsStep DEF Inv
<1>2. QED
  BY <1>1, InitInv, PTL DEF Spec

\* Every variable keeps its type, the exit codes among them.
THEOREM TypeCorrect == Spec => []TypeOK
  BY Invariance, PTL DEF Inv

\* A role that serves does so on the schema of its release, up to rollbacks
\* after the start of its check.
THEOREM CheckSound == Spec => []ServedSchema
<1>1. Inv => ServedSchema
  BY DEF Inv, KnowsInv, Knows, ServedSchema
<1>2. QED
  BY <1>1, Invariance, PTL

\* `spt migrate up` that ended by itself with exit code 0 delivered its
\* release, up to rollbacks after it made its plan.
THEOREM UpComplete == Spec => []UpDelivers
<1>1. Inv => UpDelivers
  BY DEF Inv, KnowsInv, Knows, UpDelivers
<1>2. QED
  BY <1>1, Invariance, PTL
-----------------------------------------------------------------------------
\* One up or down at a time: the rows ascend, a plan is newer than all of
\* them or is the last of them, and no release has a version skipped.

Ascends == \A i, j \in DOMAIN rows : i < j => rows[i] < rows[j]

StackInv ==
  ~ overlapped =>
    /\ \A p, q \in Process : AtWork(p) /\ AtWork(q) => p = q
    /\ Ascends
    /\ \A p \in Process :
         /\ state[p] = "applying" => \A v \in plan[p], w \in Applied : w < v
         /\ state[p] = "rolling back" => \A v \in plan[p] : rows # <<>> /\ v = Last(rows)

GapInv ==
  AppendOnly /\ ~ overlapped =>
    /\ \A s \in releases : Skipped(s) = {}
    /\ \A p \in Process : state[p] = "applying" =>
         /\ source[p] \in releases
         /\ plan[p] \subseteq source[p] /\ source[p] \subseteq plan[p] \cup Applied

LEMMA Newer ==
  ASSUME NEW a \in Nat, NEW b \in Nat, a # b, a <= b \/ ~ b < a
  PROVE  a < b
  OBVIOUS

LEMMA Later ==
  ASSUME NEW a \in Nat, NEW b \in Nat, a < b
  PROVE  ~ b <= a
  OBVIOUS

LEMMA AppliedNat == TypeOK => Applied \subseteq Nat
<1> SUFFICES ASSUME TypeOK, NEW i \in DOMAIN rows PROVE rows[i] \in Nat
  BY DEF Applied, ToSet
<1>1. rows \in Seq(Version)
  BY DEF TypeOK
<1>2. QED
  BY <1>1, LenProperties, ElementOfSeq, VersionAssumption

LEMMA AppendAscends ==
  ASSUME NEW seq \in Seq(Version), NEW v \in Version,
         \A i, j \in DOMAIN seq : i < j => seq[i] < seq[j],
         \A w \in ToSet(seq) : w < v
  PROVE  \A i, j \in DOMAIN Append(seq, v) : i < j => Append(seq, v)[i] < Append(seq, v)[j]
<1> DEFINE t == Append(seq, v)
<1>1. /\ DOMAIN seq = 1 .. Len(seq) /\ DOMAIN t = 1 .. Len(seq) + 1 /\ Len(seq) \in Nat
      /\ \A i \in 1 .. Len(seq) : t[i] = seq[i]
      /\ t[Len(seq) + 1] = v
  BY AppendProperties, LenProperties
<1> HIDE DEF t
<1>2. \A i \in 1 .. Len(seq) : t[i] < v
  BY <1>1 DEF ToSet
<1>3. \A i, j \in DOMAIN t : i < j => t[i] < t[j]
  BY <1>1, <1>2
<1>4. QED
  BY <1>3 DEF t

LEMMA LastIsNewest ==
  ASSUME NEW seq \in Seq(Version), seq # <<>>,
         \A i, j \in DOMAIN seq : i < j => seq[i] < seq[j]
  PROVE  /\ \A w \in ToSet(seq) : w <= Last(seq)
         /\ \A i \in DOMAIN seq : seq[i] = Last(seq) => i = Len(seq)
         /\ \A i, j \in DOMAIN Front(seq) : i < j => Front(seq)[i] < Front(seq)[j]
<1>1. Len(seq) \in Nat \ {0} /\ DOMAIN seq = 1 .. Len(seq) /\ Len(seq) \in DOMAIN seq
  BY EmptySeq, LenProperties
<1>2. \A i \in DOMAIN seq : seq[i] \in Nat
  BY <1>1, ElementOfSeq, VersionAssumption
<1>3. \A i \in DOMAIN seq : i = Len(seq) \/ seq[i] < Last(seq)
  BY <1>1 DEF Last
<1>4. \A w \in ToSet(seq) : w <= Last(seq)
  BY <1>1, <1>2, <1>3 DEF ToSet, Last
<1>5. \A i \in DOMAIN seq : seq[i] = Last(seq) => i = Len(seq)
  BY <1>2, <1>3
<1>6. \A i, j \in DOMAIN Front(seq) : i < j => Front(seq)[i] < Front(seq)[j]
  <2> DEFINE t == Front(seq)
  <2> DEFINE u == RemoveAt(seq, Len(seq))
  <2>1. /\ u \in Seq(Version) /\ Len(u) = Len(seq) - 1
        /\ \A k \in 1 .. Len(seq) - 1 :
             u[k] = IF k < Len(seq) THEN seq[k] ELSE seq[k + 1]
    <3>1. \A i \in DOMAIN seq :
            /\ RemoveAt(seq, i) \in Seq(Version) /\ Len(RemoveAt(seq, i)) = Len(seq) - 1
            /\ \A k \in 1 .. Len(seq) - 1 :
                 RemoveAt(seq, i)[k] = IF k < i THEN seq[k] ELSE seq[k + 1]
      BY DeleteRow
    <3>2. QED
      BY <1>1, <3>1
  <2>2. t = u
    BY DeleteLast
  <2> HIDE DEF t, u
  <2>3. /\ t \in Seq(Version) /\ Len(t) = Len(seq) - 1
        /\ \A k \in 1 .. Len(seq) - 1 :
             t[k] = IF k < Len(seq) THEN seq[k] ELSE seq[k + 1]
    BY <2>1, <2>2
  <2>4. DOMAIN t = 1 .. Len(seq) - 1
    BY <2>3, LenProperties
  <2>5. \A i, j \in DOMAIN t : i < j => t[i] < t[j]
    BY <1>1, <2>3, <2>4
  <2>6. QED
    BY <2>5 DEF t
<1>7. QED
  BY <1>4, <1>5, <1>6

\* What a step of Apply or RollBack does to the stack.
LEMMA ApplyPushes ==
  ASSUME TypeOK, RowsDiffer, StackInv, ~ overlapped,
         NEW p \in Process, NEW v \in Version, Apply(p, v)
  PROVE  PushesNewer /\ Ascends'
<1>1. \A w \in Applied : w < v
  BY DEF Apply, Following, StackInv
<1>2. rows' = Append(rows, v) /\ rows \in Seq(Version)
  <2>1. v \notin Applied
    <3>1. v \in Nat
      BY VersionAssumption
    <3> QED  BY <1>1, <3>1
  <2> QED  BY <2>1, ApplyRow DEF TypeOK
<1>3. QED
  BY <1>1, <1>2, AppendAscends DEF PushesNewer, Ascends, Applied, StackInv

LEMMA RollBackPops ==
  ASSUME TypeOK, RowsDiffer, StackInv, ~ overlapped,
         NEW p \in Process, NEW v \in Version, RollBack(p, v)
  PROVE  PopsNewest /\ Ascends' /\ \A w \in Applied : w <= v
<1>1. rows \in Seq(Version) /\ rows # <<>> /\ v = Last(rows) /\ rows' = Without(rows, v)
  BY DEF RollBack, TypeOK, StackInv
<1>2. Ascends
  BY DEF StackInv
<1>3. \A w \in Applied : w <= v
  BY <1>1, <1>2, LastIsNewest DEF Ascends, Applied
<1>4. rows' = Front(rows)
  BY <1>1, WithoutLast DEF RowsDiffer
<1>5. \A j, k \in DOMAIN Front(rows) : j < k => Front(rows)[j] < Front(rows)[k]
  BY <1>1, <1>2, LastIsNewest DEF Ascends
<1>6. QED
  BY <1>1, <1>3, <1>4, <1>5 DEF PopsNewest, Ascends

LEMMA StackStep ==
  ASSUME TypeOK, RowsDiffer, StackInv, [Next]_vars
  PROVE  StackInv'
<1> SUFFICES ASSUME ~ overlapped'
             PROVE  StackInv'
  BY DEF StackInv
<1> USE DEF TypeOK, State, commandVars, readVars
<1>1. ~ overlapped
  BY StepEffect
<1>2. ASSUME NEW p \in Process, NEW s \in releases, Up(p, s) \/ Down(p, s)
      PROVE  StackInv'
  <2>1. /\ \A q \in Process \ {p} : ~ AtWork(q) /\ state'[q] = state[q]
        /\ rows' = rows /\ Applied' = Applied
    BY <1>2 DEF Up, Down, Run, Overlap, Applied
  <2>2. \A q \in Process \ {p} : ~ AtWork(q)'
    BY <2>1 DEF AtWork
  <2>3. CASE Up(p, s)
    <3>1. state'[p] = "applying" /\ plan'[p] = s \ Applied
      BY <2>3 DEF Up, Run
    <3>2. \A v \in s \ Applied, w \in Applied : w < v
      <4>1. Applied \subseteq Nat /\ s \subseteq Nat
        BY AppliedNat, VersionAssumption, HistoriesAssumption
      <4>2. \A v \in s \ Applied, w \in Applied : ~ v < w
        BY <2>3 DEF Up, Skipped
      <4>3. ASSUME NEW v \in s \ Applied, NEW w \in Applied PROVE w < v
        <5>1. v \in Nat /\ w \in Nat /\ v # w
          BY <4>1
        <5>2. QED
          BY <4>2, <5>1, Newer
      <4>4. QED
        BY <4>3
    <3>3. QED
      BY <1>1, <2>1, <2>2, <3>1, <3>2 DEF StackInv, AtWork, Ascends
  <2>4. CASE Down(p, s)
    <3>1. state'[p] = "rolling back" /\ plan'[p] = {Last(rows)} /\ rows # <<>>
      BY <2>4 DEF Down, Run
    <3>2. QED
      BY <1>1, <2>1, <2>2, <3>1 DEF StackInv, AtWork, Ascends
  <2>5. QED
    BY <1>2, <2>3, <2>4
<1>3. ASSUME NEW p \in Process, NEW v \in Version, Apply(p, v)
      PROVE  StackInv'
  <2>1. Ascends' /\ Applied' = Applied \cup {v} /\ UNCHANGED state
    BY <1>1, <1>3, ApplyPushes, ApplyRow DEF Apply
  <2>2. \A q \in Process : AtWork(q) => q = p
    BY <1>1, <1>3 DEF StackInv, AtWork, Apply
  <2>3. \A u \in plan'[p], w \in Applied' : w < u
    <3>1. plan'[p] = plan[p] \ {v} /\ \A u \in plan[p] : v <= u
      BY <1>3 DEF Apply, Following
    <3>2. plan[p] \subseteq Nat /\ v \in Nat
      BY VersionAssumption
    <3>3. \A u \in plan[p], w \in Applied : w < u
      BY <1>1, <1>3 DEF StackInv, Apply
    <3>4. ASSUME NEW u \in plan'[p] PROVE u \in plan[p] /\ v < u
      <4>1. u \in plan[p] /\ u # v
        BY <3>1
      <4>2. u \in Nat /\ v \in Nat /\ v <= u
        BY <3>1, <3>2, <4>1
      <4>3. QED
        BY <4>1, <4>2, Newer
    <3>5. QED
      BY <2>1, <3>3, <3>4
  <2>4. QED
    BY <1>1, <1>3, <2>1, <2>2, <2>3 DEF StackInv, AtWork, Apply
<1>4. ASSUME NEW p \in Process, NEW v \in Version, RollBack(p, v)
      PROVE  StackInv'
  <2>1. Ascends' /\ UNCHANGED state /\ plan'[p] = {}
    BY <1>1, <1>4, RollBackPops DEF RollBack
  <2>2. \A q \in Process : AtWork(q) => q = p
    BY <1>1, <1>4 DEF StackInv, AtWork, RollBack
  <2>3. QED
    BY <1>1, <1>4, <2>1, <2>2 DEF StackInv, AtWork, RollBack
<1>5. ASSUME rows' = rows,
             \A q \in Process : AtWork(q)' => AtWork(q) /\ state'[q] = state[q] /\ plan'[q] = plan[q]
      PROVE  StackInv'
  BY <1>1, <1>5 DEF StackInv, AtWork, Ascends, Applied
<1>6. ASSUME NEW p \in Process, NEW s \in releases,
             \/ \E command \in {"status", "role"} : ReadStatus(p, command, s)
             \/ \E command \in Kind : Refused(p, command, s)
      PROVE  StackInv'
  BY <1>5, <1>6 DEF ReadStatus, Refused, Run, AtWork
<1>7. ASSUME NEW p \in Process,
             \/ \E v \in Version : LookUp(p, v)
             \/ Done(p) \/ Fails(p) \/ Interrupt(p) \/ StatusPrinted(p) \/ CheckPassed(p)
             \/ CheckFailed(p)
      PROVE  StackInv'
  BY <1>5, <1>7 DEF LookUp, Done, Fails, Interrupt, StatusPrinted, CheckPassed, CheckFailed, Exit,
                    AtWork
<1>8. CASE UNCHANGED vars
  BY <1>5, <1>8 DEF vars, AtWork
<1>9. QED
  BY <1>2, <1>3, <1>4, <1>6, <1>7, <1>8 DEF Next, Start, Proceed
\* The version an `up` applies leaves no gap in a release: a smaller version of
\* the release belongs to the source of the `up` too, and that is either
\* applied or planned after it.
LEMMA ApplyLeavesNoGap ==
  ASSUME TypeOK, StackInv, GapInv, AppendOnly, ~ overlapped,
         NEW p \in Process, NEW v \in Version, Apply(p, v), Applied' = Applied \cup {v},
         NEW s \in releases, NEW u \in s, NEW w \in Applied', u < w
  PROVE  u \in Applied'
<1>1. /\ source[p] \in releases /\ Skipped(s) = {}
      /\ plan[p] \subseteq source[p] /\ source[p] \subseteq plan[p] \cup Applied
  BY DEF GapInv, Apply
<1>2. CASE w \in Applied
  BY <1>1, <1>2 DEF Skipped
<1>3. CASE w = v
  <2>1. v \in plan[p] /\ \A x \in plan[p] : v <= x
    BY DEF Apply, Following
  <2>2. CASE u \in source[p]
    <3>1. u \in Applied \/ v <= u
      BY <1>1, <2>1, <2>2
    <3>2. u \in Nat /\ v \in Nat
      BY VersionAssumption, HistoriesAssumption DEF TypeOK
    <3>3. QED
      BY <1>3, <3>1, <3>2
  <2>3. CASE u \notin source[p]
    <3>1. Precedes(source[p], s)
      BY <1>1, <2>3 DEF AppendOnly, Precedes
    <3>2. \A x \in source[p] : x < u
      BY <2>3, <3>1 DEF Precedes
    <3>3. v < u /\ u \in Nat /\ v \in Nat
      BY <1>1, <2>1, <3>2, VersionAssumption, HistoriesAssumption DEF TypeOK
    <3>4. QED
      BY <1>3, <3>3
  <2>4. QED
    BY <2>2, <2>3
<1>4. QED
  BY <1>2, <1>3
LEMMA GapStep ==
  ASSUME TypeOK, RowsDiffer, StackInv, GapInv, [Next]_vars
  PROVE  GapInv'
<1> SUFFICES ASSUME AppendOnly', ~ overlapped'
             PROVE  /\ \A s \in releases' : Skipped(s)' = {}
                    /\ \A p \in Process : state'[p] = "applying" =>
                         /\ source'[p] \in releases'
                         /\ plan'[p] \subseteq source'[p]
                         /\ source'[p] \subseteq plan'[p] \cup Applied'
  BY DEF GapInv
<1> USE DEF TypeOK, State, commandVars, readVars
<1>0. ~ overlapped
  BY StepEffect
<1>1. ~ overlapped /\ releases' = releases
  BY <1>0, StepEffect
<1>2. AppendOnly
  BY <1>1 DEF AppendOnly
<1> DEFINE NoGap == \A s \in releases' : Skipped(s)' = {}
           Backed(p) == state'[p] = "applying" =>
                          /\ source'[p] \in releases'
                          /\ plan'[p] \subseteq source'[p]
                          /\ source'[p] \subseteq plan'[p] \cup Applied'
<1> SUFFICES NoGap /\ \A p \in Process : Backed(p)
  OBVIOUS
<1>3. ASSUME Applied' = Applied
      PROVE  NoGap
  BY <1>1, <1>2, <1>3 DEF GapInv, Skipped
<1>4. ASSUME Applied' = Applied, NEW q \in Process,
             state'[q] = "applying" =>
               state[q] = "applying" /\ source'[q] = source[q] /\ plan'[q] = plan[q]
      PROVE  Backed(q)
  BY <1>1, <1>2, <1>4 DEF GapInv
<1>5. ASSUME NEW p \in Process, Start(p)
      PROVE  NoGap /\ \A q \in Process : Backed(q)
  <2>1. Applied' = Applied
    BY <1>5 DEF Start, Up, Down, ReadStatus, Refused, Run, Applied
  <2>2. ASSUME NEW q \in Process PROVE Backed(q)
    <3>1. CASE q # p
      <4>1. UNCHANGED <<state[q], source[q], plan[q]>>
        BY <1>5, <3>1 DEF Start, Up, Down, ReadStatus, Refused, Run
      <4>2. QED
        BY <1>4, <2>1, <4>1
    <3>2. CASE q = p
      <4>1. state'[p] = "applying" =>
              \E s \in releases : source'[p] = s /\ plan'[p] = s \ Applied
        BY <1>5 DEF Start, Up, Down, ReadStatus, Refused, Run
      <4>2. QED
        BY <1>1, <2>1, <3>2, <4>1
    <3>3. QED
      BY <3>1, <3>2
  <2>3. QED
    BY <1>3, <2>1, <2>2
<1>6. ASSUME NEW p \in Process, NEW v \in Version, Apply(p, v)
      PROVE  NoGap /\ \A q \in Process : Backed(q)
  <2>1. Applied' = Applied \cup {v}
    BY <1>6, ApplyRow
  <2>2. NoGap
    BY <1>1, <1>2, <1>6, <2>1, ApplyLeavesNoGap DEF Skipped
  <2>3. ASSUME NEW q \in Process PROVE Backed(q)
    <3>1. /\ UNCHANGED <<state, source>>
          /\ plan' = [plan EXCEPT ![p] = @ \ {v}]
      BY <1>6 DEF Apply
    <3>2. QED
      BY <1>1, <1>2, <2>1, <3>1 DEF GapInv
  <2>4. QED
    BY <2>2, <2>3
<1>7. ASSUME NEW p \in Process, NEW v \in Version, RollBack(p, v)
      PROVE  NoGap /\ \A q \in Process : Backed(q)
  <2>1. Applied' = Applied \ {v} /\ \A w \in Applied : w <= v
    BY <1>1, <1>7, RollBackRow, RollBackPops
  <2>2. NoGap
    <3> SUFFICES ASSUME NEW s \in releases, NEW u \in s, NEW w \in Applied', u < w
                 PROVE  u \in Applied'
      BY <1>1 DEF Skipped
    <3>1. u \in Applied
      BY <1>1, <1>2, <2>1 DEF GapInv, Skipped
    <3>2. u \in Nat /\ w \in Nat /\ w <= v
      BY <2>1, <3>1, AppliedNat
    <3>3. ~ w <= u
      BY <3>2, Later
    <3>4. u # v
      BY <3>2, <3>3
    <3>5. QED
      BY <2>1, <3>1, <3>4
  <2>3. ASSUME NEW q \in Process PROVE Backed(q)
    <3>1. state[p] = "rolling back" /\ state' = state
      BY <1>7 DEF RollBack
    <3>2. AtWork(q) => q = p
      BY <1>1, <3>1 DEF StackInv, AtWork
    <3>3. QED
      BY <3>1, <3>2 DEF AtWork
  <2>4. QED
    BY <2>2, <2>3
<1>8. ASSUME NEW p \in Process,
             \/ \E v \in Version : LookUp(p, v)
             \/ Done(p) \/ Fails(p) \/ Interrupt(p) \/ StatusPrinted(p) \/ CheckPassed(p)
             \/ CheckFailed(p)
      PROVE  NoGap /\ \A q \in Process : Backed(q)
  <2>1. Applied' = Applied
    BY <1>8 DEF LookUp, Done, Fails, Interrupt, StatusPrinted, CheckPassed, CheckFailed, Applied
  <2>2. ASSUME NEW q \in Process
        PROVE  state'[q] = "applying" =>
                 state[q] = "applying" /\ source'[q] = source[q] /\ plan'[q] = plan[q]
    BY <1>8 DEF LookUp, Done, Fails, Interrupt, StatusPrinted, CheckPassed, CheckFailed, Exit
  <2>3. QED
    BY <1>3, <1>4, <2>1, <2>2
<1>9. CASE UNCHANGED vars
  BY <1>3, <1>4, <1>9 DEF vars, Applied
<1>10. QED
  BY <1>5, <1>6, <1>7, <1>8, <1>9 DEF Next, Proceed

LEMMA StackInvariance == Spec => [](StackInv /\ GapInv)
<1>1. Init => StackInv /\ GapInv
  BY DEF Init, StackInv, GapInv, Ascends, AtWork, Applied, ToSet, Skipped
<1>2. Inv /\ StackInv /\ GapInv /\ [Next]_vars => (StackInv /\ GapInv)'
  BY StackStep, GapStep DEF Inv
<1>3. QED
  BY <1>1, <1>2, Invariance, PTL DEF Spec

\* While one command runs at a time, up pushes newer versions and down takes
\* the newest.
THEOREM StackDiscipline == Spec => StackWhileAlone
<1>1. Inv /\ StackInv /\ [Next]_vars =>
        [~ overlapped' /\ rows' # rows => PushesNewer \/ PopsNewest]_vars
  <2> SUFFICES ASSUME TypeOK, RowsDiffer, StackInv, [Next]_vars, ~ overlapped', rows' # rows
               PROVE  PushesNewer \/ PopsNewest
    BY DEF Inv
  <2>1. \/ \E p \in Process, v \in Version : Apply(p, v)
        \/ \E p \in Process, v \in Version : RollBack(p, v)
    BY StepEffect
  <2>2. ~ overlapped
    BY <2>1 DEF Apply, RollBack
  <2>3. QED
    BY <2>1, <2>2, ApplyPushes, RollBackPops
<1>2. QED
  BY <1>1, Invariance, StackInvariance, PTL DEF Spec, StackWhileAlone

\* With releases that only add newer migrations and one command at a time, an
\* `up` that stopped anywhere leaves nothing that makes the next one refuse.
THEOREM AlwaysResumable == Spec => []UpNeverRefused
<1>1. GapInv => UpNeverRefused
  BY DEF GapInv, UpNeverRefused
<1>2. QED
  BY <1>1, StackInvariance, PTL

-----------------------------------------------------------------------------
(* What a command has left to do.                                          *)

\* Theorem: goose reads the rows once, in Up or Down, and works off what it
\* read; until commands overlap that is never stale. So Up has no effect on a
\* database that has its release, also after commands that broke off, and a
\* command that fails does so because of its script or its connection.
THEOREM AloneNeverStale == Spec => []PlansAreFresh
<1>1. TypeOK /\ StackInv => PlansAreFresh
  <2> SUFFICES ASSUME TypeOK, StackInv, ~ overlapped, NEW p \in Process
               PROVE  /\ state[p] = "applying" => plan[p] \cap Applied = {}
                      /\ state[p] = "rolling back" =>
                           plan[p] \subseteq Applied /\ \A v \in plan[p] : v = Last(rows)
    BY DEF PlansAreFresh
  <2>1. CASE state[p] = "applying"
    <3> SUFFICES ASSUME NEW v \in plan[p], v \in Applied PROVE FALSE
      BY <2>1
    <3>1. v < v /\ v \in Nat
      BY <2>1, AppliedNat DEF StackInv
    <3> QED  BY <3>1
  <2>2. CASE state[p] = "rolling back"
    <3> SUFFICES ASSUME NEW v \in plan[p] PROVE v \in Applied /\ v = Last(rows)
      BY <2>2
    <3>1. rows \in Seq(Version) /\ rows # <<>> /\ v = Last(rows)
      BY <2>2 DEF StackInv, TypeOK
    <3>2. Len(rows) \in DOMAIN rows
      BY <3>1, EmptySeq, LenProperties
    <3> QED  BY <3>1, <3>2 DEF Applied, ToSet, Last
  <2> QED  BY <2>1, <2>2
<1> QED
  BY <1>1, Invariance, StackInvariance, PTL DEF Inv

\* A process that has begun its command and has versions to deal with yet.
Busy(p) == state[p] \in {"applying", "rolling back", "reading"}

Idles(p) == UNCHANGED <<state[p], kind[p], source[p], plan[p], unread[p], pending[p], exit[p]>>

Lessens(p) ==
  /\ plan'[p] \subseteq plan[p] /\ unread'[p] \subseteq unread[p]
  /\ plan'[p] # plan[p] \/ unread'[p] # unread[p]

\* A busy process sits a step out, ends (or serves), or has a version less to
\* apply, to roll back or to look up.
AdvancesOrWaits == \A p \in Process : Busy(p) => Idles(p) \/ ~ Busy(p)' \/ Lessens(p)

\* Theorem: a command takes at most as many steps as its release has versions,
\* and one to end; no other process, release or rollback adds to its work.
THEOREM CommandsAdvance == Spec => [][AdvancesOrWaits]_vars
<1>1. TypeOK /\ [Next]_vars => AdvancesOrWaits
  <2> SUFFICES ASSUME TypeOK, [Next]_vars, NEW p \in Process, Busy(p)
               PROVE  Idles(p) \/ ~ Busy(p)' \/ Lessens(p)
    BY DEF AdvancesOrWaits
  <2> USE DEF TypeOK, Busy, commandVars, readVars
  <2>1. CASE UNCHANGED vars
    BY <2>1 DEF vars, Idles
  <2>2. ASSUME NEW q \in Process, Start(q)
        PROVE  Idles(p)
    <3>1. q # p
      BY <2>2 DEF Start, Up, Down, ReadStatus, Refused, Run
    <3> QED  BY <2>2, <3>1 DEF Start, Up, Down, ReadStatus, Refused, Run, Idles
  <2>3. ASSUME NEW q \in Process, NEW v \in Version, Apply(q, v) \/ LookUp(q, v)
        PROVE  Idles(p) \/ Lessens(p)
    <3>1. CASE q # p
      BY <2>3, <3>1 DEF Apply, LookUp, Idles
    <3>2. CASE Apply(p, v)
      BY <3>2 DEF Apply, Following, Lessens
    <3>3. CASE LookUp(p, v)
      BY <3>3 DEF LookUp, Lessens
    <3> QED  BY <2>3, <3>1, <3>2, <3>3
  <2>4. ASSUME NEW q \in Process, NEW v \in Version, RollBack(q, v)
        PROVE  Idles(p) \/ Lessens(p)
    BY <2>4 DEF RollBack, Idles, Lessens
  <2>5. ASSUME NEW q \in Process,
               Done(q) \/ Fails(q) \/ StatusPrinted(q) \/ CheckPassed(q) \/ CheckFailed(q) \/ Interrupt(q)
        PROVE  Idles(p) \/ ~ Busy(p)'
    BY <2>5 DEF Done, Fails, StatusPrinted, CheckPassed, CheckFailed, Interrupt, Exit, Idles
  <2> QED
    BY <2>5, <2>1, <2>2, <2>4, <2>3 DEF Proceed, Next
<1> QED
  BY <1>1, TypeCorrect, PTL DEF Spec
=============================================================================
