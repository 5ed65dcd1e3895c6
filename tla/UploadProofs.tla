---------------------------- MODULE UploadProofs ----------------------------
(***************************************************************************)
(* Proofs about Upload, for every set of items, every sample file and any  *)
(* number of uploads.  The inductive invariant adds to OnlyOneInDoubt      *)
(* where Upsert's position is when a run waits for a retry or has ended.   *)
(***************************************************************************)
EXTENDS Upload, TLAPS

UploadTypeOK ==
  /\ upStep \in {"idle", "send", "retry", "ended"}
  /\ items \in Seq(Item) /\ pos \in 1..(Len(items) + 1)
  /\ dryRun \in BOOLEAN /\ cancelled \in BOOLEAN /\ exitCode \in {0, 1}
  /\ remote \subseteq Item /\ base \subseteq Item
  /\ uploads \in 0..UploadBound

\* A retry is of an item of the file; exit code 0 without a signal is given at
\* the end of the file only.
PositionOK ==
  /\ upStep = "retry" => pos <= Len(items) /\ ~dryRun
  /\ upStep = "ended" /\ exitCode = 0 /\ ~cancelled => pos = Len(items) + 1

\* A request that may or may not have reached the data set, and after which the
\* tool retries or ends, with exit code 0 only after a signal.
LeftInDoubt ==
  /\ (MoreItems /\ ~dryRun) \/ upStep = "retry"
  /\ remote' = remote \/ remote' = remote \cup {items[pos]}
  /\ \/ upStep' = "retry" /\ MoreItems /\ exitCode' = exitCode
     \/ upStep' = "ended" /\ exitCode' = 1
     \/ upStep' = "ended" /\ exitCode' = 0 /\ cancelled
  /\ items' = items /\ pos' = pos /\ dryRun' = dryRun /\ cancelled' = cancelled
  /\ base' = base /\ uploads' = uploads

UploadInv == UploadTypeOK /\ PositionOK /\ OnlyOneInDoubt

\* Lemma: what ItemsUpTo is at and around a position of the file.
LEMMA ItemsUpToFacts ==
  ASSUME NEW s \in Seq(Item), NEW n \in 1..(Len(s) + 1)
  PROVE  /\ ItemsUpTo(s, 0) = {}
         /\ ItemsUpTo(s, n - 1) \subseteq ItemsUpTo(s, n)
         /\ ItemsUpTo(s, n) \subseteq Item
         /\ n <= Len(s) => /\ ItemsUpTo(s, n) = ItemsUpTo(s, n - 1) \cup {s[n]}
                           /\ s[n] \in Item
         /\ n = Len(s) + 1 => ItemsUpTo(s, n - 1) = ItemsUpTo(s, Len(s))
<1>1. DOMAIN s = 1..Len(s) /\ Len(s) \in Nat /\ \A i \in 1..Len(s) : s[i] \in Item
  OBVIOUS
<1>2. ItemsUpTo(s, 0) = {}
  BY <1>1 DEF ItemsUpTo
<1>3. ItemsUpTo(s, n - 1) \subseteq ItemsUpTo(s, n) /\ ItemsUpTo(s, n) \subseteq Item
  BY <1>1 DEF ItemsUpTo
<1>4. ASSUME n <= Len(s)
      PROVE  ItemsUpTo(s, n) = ItemsUpTo(s, n - 1) \cup {s[n]} /\ s[n] \in Item
  <2>1. \A j \in DOMAIN s : j <= n <=> j <= n - 1 \/ j = n
    BY <1>1
  <2>2. n \in DOMAIN s
    BY <1>1, <1>4
  <2> QED  BY <1>1, <2>1, <2>2 DEF ItemsUpTo
<1> QED  BY <1>2, <1>3, <1>4

\* Lemma: the invariant holds initially.
LEMMA UploadInvInit == UploadInit => UploadInv
<1> SUFFICES ASSUME UploadInit PROVE UploadInv
  OBVIOUS
<1>1. UploadTypeOK /\ PositionOK
  <2>1. 1 \in 1..(Len(<<>>) + 1) /\ <<>> \in Seq(Item) /\ 0 \in 0..UploadBound
    BY UploadAssumption
  <2> QED  BY <2>1 DEF UploadInit, UploadTypeOK, PositionOK
<1>2. OnlyOneInDoubt
  BY DEF UploadInit, OnlyOneInDoubt, ItemsUpTo
<1> QED  BY <1>1, <1>2 DEF UploadInv

\* Lemma: every step of the tool, of the server and of the network keeps it.
LEMMA UploadInvStep == UploadInv /\ [UploadNext]_upVars => UploadInv'
<1> SUFFICES ASSUME UploadInv, [UploadNext]_upVars PROVE UploadInv'
  OBVIOUS
<1>0. UploadTypeOK /\ PositionOK /\ OnlyOneInDoubt
  BY DEF UploadInv
<1>1. ASSUME NEW file \in SampleFile, NEW dry \in BOOLEAN,
             StartUpload(file, dry) \/ RefuseUpload(file, dry)
      PROVE  UploadInv'
  <2>1. file \in Seq(Item) /\ uploads + 1 \in 0..UploadBound
    BY <1>0, <1>1, UploadAssumption DEF StartUpload, RefuseUpload, Begin, UploadTypeOK
  <2>2. UploadTypeOK' /\ PositionOK'
    <3>1. 1 \in 1..(Len(file) + 1)
      BY <2>1
    <3>2. /\ items' = file /\ pos' = 1 /\ dryRun' = dry /\ cancelled' = FALSE
          /\ base' = remote /\ remote' = remote /\ uploads' = uploads + 1
          /\ \/ upStep' = "send" /\ exitCode' = exitCode
             \/ upStep' = "ended" /\ exitCode' = 1
      BY <1>1 DEF StartUpload, RefuseUpload, Begin
    <3>3. dryRun' \in BOOLEAN /\ cancelled' \in BOOLEAN
      BY <3>2
    <3> QED  BY <1>0, <2>1, <3>1, <3>2, <3>3 DEF UploadTypeOK, PositionOK
  <2>3. OnlyOneInDoubt'
    <3>1. ItemsUpTo(file, 0) = {} /\ 1 - 1 = 0
      BY <2>1, ItemsUpToFacts
    <3>2. items' = file /\ pos' = 1 /\ base' = remote /\ remote' = remote
      BY <1>1 DEF StartUpload, RefuseUpload, Begin
    <3> QED  BY <3>1, <3>2 DEF OnlyOneInDoubt
  <2> QED  BY <2>2, <2>3 DEF UploadInv
<1>2. ASSUME PostOK \/ RetryOK PROVE UploadInv'
  <2>1. pos <= Len(items) /\ ~dryRun /\ ItemDone
    BY <1>0, <1>2 DEF PostOK, RetryOK, MoreItems, PositionOK
  <2>2. /\ ItemsUpTo(items, pos) = ItemsUpTo(items, pos - 1) \cup {items[pos]}
        /\ items[pos] \in Item
    BY <1>0, <2>1, ItemsUpToFacts DEF UploadTypeOK
  <2>3. pos + 1 \in 1..(Len(items) + 1) /\ (pos + 1) - 1 = pos
    BY <1>0, <2>1 DEF UploadTypeOK
  <2>4. ItemsUpTo(items, pos) \subseteq ItemsUpTo(items, pos + 1)
    BY <1>0, <2>3, ItemsUpToFacts DEF UploadTypeOK
  <2>5. UploadTypeOK' /\ PositionOK'
    BY <1>0, <2>1, <2>2, <2>3 DEF ItemDone, UploadTypeOK, PositionOK
  <2>6. OnlyOneInDoubt'
    <3>1. ItemsUpTo(items', pos' - 1) = ItemsUpTo(items, pos)
      BY <2>1, <2>3 DEF ItemDone
    <3> QED  BY <1>0, <2>1, <2>2, <2>4, <3>1 DEF ItemDone, OnlyOneInDoubt
  <2> QED  BY <2>5, <2>6 DEF UploadInv
<1>3. ASSUME LeftInDoubt PROVE UploadInv'
  <2>1. pos <= Len(items) /\ ~dryRun
    BY <1>0, <1>3 DEF LeftInDoubt, MoreItems, PositionOK
  <2>2. /\ ItemsUpTo(items, pos) = ItemsUpTo(items, pos - 1) \cup {items[pos]}
        /\ items[pos] \in Item
    BY <1>0, <2>1, ItemsUpToFacts DEF UploadTypeOK
  <2>3. UploadTypeOK' /\ PositionOK'
    BY <1>0, <1>3, <2>1, <2>2 DEF LeftInDoubt, MoreItems, UploadTypeOK, PositionOK
  <2>4. OnlyOneInDoubt'
    BY <1>0, <1>3, <2>1, <2>2 DEF LeftInDoubt, MoreItems, OnlyOneInDoubt
  <2> QED  BY <2>3, <2>4 DEF UploadInv
<1>4. ASSUME SignalUpload PROVE UploadInv'
  BY <1>0, <1>4 DEF SignalUpload, UploadInv, UploadTypeOK, PositionOK, OnlyOneInDoubt
<1>5. ASSUME LogItem PROVE UploadInv'
  <2>1. pos + 1 \in 1..(Len(items) + 1) /\ dryRun /\ upStep = "send"
    BY <1>0, <1>5 DEF LogItem, MoreItems, UploadTypeOK
  <2>2. UploadTypeOK' /\ PositionOK'
    BY <1>0, <1>5, <2>1 DEF LogItem, UploadTypeOK, PositionOK
  <2>3. OnlyOneInDoubt'
    BY <1>0, <1>5, <2>1 DEF LogItem, OnlyOneInDoubt
  <2> QED  BY <2>2, <2>3 DEF UploadInv
<1>6. ASSUME FinishUpload PROVE UploadInv'
  <2>1. pos = Len(items) + 1
    BY <1>0, <1>6 DEF FinishUpload, UploadTypeOK
  <2>2. UploadTypeOK' /\ PositionOK'
    BY <1>0, <1>6, <2>1 DEF FinishUpload, EndUpload, UploadTypeOK, PositionOK
  <2>3. OnlyOneInDoubt'
    BY <1>0, <1>6 DEF FinishUpload, EndUpload, OnlyOneInDoubt
  <2> QED  BY <2>2, <2>3 DEF UploadInv
<1>7. ASSUME PostRejected \/ PostServerError \/ PostLost \/ PostCancelled PROVE UploadInv'
  <2>1. CASE PostRejected
    BY <1>3, <2>1 DEF PostRejected, EndUpload, LeftInDoubt
  <2>2. CASE PostServerError
    BY <1>3, <2>2 DEF PostServerError, MayStore, LeftInDoubt
  <2>3. CASE PostLost
    BY <1>3, <2>3 DEF PostLost, MayStore, EndUpload, LeftInDoubt
  <2>4. CASE PostCancelled
    BY <1>3, <2>4 DEF PostCancelled, MayStore, EndUpload, LeftInDoubt
  <2> QED  BY <1>7, <2>1, <2>2, <2>3, <2>4
<1>8. ASSUME RetryFails \/ RetryServerError \/ RetryCancelled PROVE UploadInv'
  <2>1. CASE RetryFails
    BY <1>3, <2>1 DEF RetryFails, EndUpload, LeftInDoubt
  <2>2. CASE RetryServerError
    BY <1>3, <2>2 DEF RetryServerError, MayStore, EndUpload, LeftInDoubt
  <2>3. CASE RetryCancelled
    BY <1>3, <2>3 DEF RetryCancelled, MayStore, EndUpload, LeftInDoubt
  <2> QED  BY <1>8, <2>1, <2>2, <2>3
<1>9. ASSUME UNCHANGED upVars PROVE UploadInv'
  BY <1>0, <1>9 DEF upVars, UploadInv, UploadTypeOK, PositionOK, OnlyOneInDoubt
<1> QED  BY <1>1, <1>2, <1>4, <1>5, <1>6, <1>7, <1>8, <1>9 DEF UploadNext

\* Theorem: the invariant holds in every state.
THEOREM UploadInvariant == UploadSpec => []UploadInv
<1> QED  BY UploadInvInit, UploadInvStep, PTL DEF UploadSpec

\* Theorem: at every moment only the item in hand is in doubt, so a failed or
\* interrupted upload may simply be repeated: Upsert stops at the first error.
THEOREM OnlyOneInDoubtHolds == UploadSpec => []OnlyOneInDoubt
<1>1. UploadInv => OnlyOneInDoubt
  BY DEF UploadInv
<1> QED  BY <1>1, UploadInvariant, PTL

\* Theorem: exit code 0 of an upload no signal interrupted means that the whole
\* file is in the data set: Upsert, doWithRetry and run swallow no error.
THEOREM UploadDeliversHolds == UploadSpec => []UploadDelivers
<1>1. UploadInv => UploadDelivers
  <2> SUFFICES ASSUME UploadInv, upStep = "ended", exitCode = 0, ~cancelled, ~dryRun
               PROVE  ItemsUpTo(items, Len(items)) \subseteq remote
    BY DEF UploadDelivers
  <2>1. items \in Seq(Item) /\ Len(items) + 1 \in 1..(Len(items) + 1) /\ pos = Len(items) + 1
    BY DEF UploadInv, UploadTypeOK, PositionOK
  <2>2. ItemsUpTo(items, pos - 1) = ItemsUpTo(items, Len(items))
    BY <2>1, ItemsUpToFacts
  <2> QED  BY <2>2 DEF UploadInv, OnlyOneInDoubt
<1> QED  BY <1>1, UploadInvariant, PTL

-----------------------------------------------------------------------------
\* What an upload has before it: the items from the one in hand on, each with a
\* second try at most, its end, and a signal that has not come yet.
Ahead ==
  IF upStep \in {"idle", "ended"} THEN 0
  ELSE 4 * (Len(items) + 1 - pos) + (IF upStep = "send" THEN 2 ELSE 0) + (IF cancelled THEN 0 ELSE 1)

UploadCounts == uploads' = uploads => Ahead \in Nat /\ Ahead' \in Nat /\ Ahead' < Ahead

\* Lemma: every step but the start of an upload leaves less ahead.
LEMMA AheadStep == UploadInv /\ UploadInv' /\ [UploadNext]_upVars => [UploadCounts]_upVars
<1> SUFFICES ASSUME UploadInv, UploadInv', UploadNext, uploads' = uploads
             PROVE  Ahead \in Nat /\ Ahead' \in Nat /\ Ahead' < Ahead
  BY DEF UploadCounts
<1>0. /\ Len(items) \in Nat /\ pos \in 1..(Len(items) + 1) /\ uploads \in Nat
      /\ upStep = "retry" => pos <= Len(items)
      /\ upStep \in {"idle", "send", "retry", "ended"} /\ cancelled \in BOOLEAN
  BY UploadAssumption DEF UploadInv, UploadTypeOK, PositionOK
<1>1. \A file \in SampleFile, dry \in BOOLEAN : ~StartUpload(file, dry) /\ ~RefuseUpload(file, dry)
  BY <1>0 DEF StartUpload, RefuseUpload, Begin
<1>2. CASE SignalUpload
  BY <1>0, <1>2 DEF SignalUpload, Ahead
<1>3. CASE (upStep' = "send" /\ pos' = pos + 1) \/ upStep' = "ended"
  <2>1. /\ upStep \in {"send", "retry"} /\ items' = items /\ cancelled' = cancelled
        /\ upStep' = "send" => pos' = pos + 1 /\ pos <= Len(items)
    BY <1>0, <1>1, <1>3 DEF UploadNext, SignalUpload, MoreItems, ItemDone, EndUpload, PostOK, PostRejected,
      PostServerError, PostLost, PostCancelled, RetryFails, RetryOK, RetryServerError,
      RetryCancelled, LogItem, FinishUpload
  <2>2. CASE upStep' = "ended"
    BY <1>0, <2>1, <2>2 DEF Ahead
  <2>3. CASE upStep' = "send"
    <3>1. pos' = pos + 1 /\ pos <= Len(items)
      BY <2>1, <2>3
    <3> QED  BY <1>0, <2>1, <2>3, <3>1 DEF Ahead
  <2> QED  BY <1>3, <2>2, <2>3
<1>4. CASE PostServerError
  BY <1>0, <1>4 DEF PostServerError, MoreItems, Ahead
<1> QED
  BY <1>1, <1>2, <1>3, <1>4 DEF UploadNext, MoreItems, ItemDone, EndUpload, PostOK, PostRejected,
     PostLost, PostCancelled, RetryFails, RetryOK, RetryServerError, RetryCancelled,
     LogItem, FinishUpload

\* Theorem: an upload makes finitely many requests, at most two for an item:
\* doWithRetry sends once more and never again, and no answer makes Upsert go
\* back to an item.
THEOREM UploadAdvances == UploadSpec => [][UploadCounts]_upVars
<1> QED  BY AheadStep, UploadInvariant, PTL DEF UploadSpec
=============================================================================
