------------------------------- MODULE Upload -------------------------------
(***************************************************************************)
(* dataset-upload: the items of a sample file are posted one by one to a   *)
(* Langfuse data set, each under an ID that is a hash of its content, with *)
(* one retry after a 5xx answer.  Uploads of different files follow each   *)
(* other on the same data set.  The server and the network are external.   *)
(***************************************************************************)
EXTENDS Naturals, Sequences, FiniteSets

CONSTANTS
  Item,        \* (ID, Title) contents; the hash is taken to be injective
  SampleFile,  \* the files uploaded: sequences of items
  UploadBound  \* how many uploads are started

ASSUME UploadAssumption == SampleFile \subseteq Seq(Item) /\ UploadBound \in Nat

VARIABLES
  upStep,     \* "idle", "send", "retry", "ended"
  items,      \* what ParseItems returned
  pos,        \* the item Upsert is at
  dryRun,     \* the --dry-run flag
  cancelled,  \* the signal context is done
  exitCode,   \* of the last upload
  remote,     \* the items of the data set
  base,       \* history: the data set when the upload began
  uploads     \* how many uploads have been started

upVars == <<upStep, items, pos, dryRun, cancelled, exitCode, remote, base, uploads>>

UploadInit ==
  /\ upStep = "idle" /\ items = <<>> /\ pos = 1 /\ dryRun = FALSE
  /\ cancelled = FALSE /\ exitCode = 0 /\ remote = {} /\ base = {} /\ uploads = 0

Begin(file, dry) ==
  /\ upStep \in {"idle", "ended"} /\ uploads < UploadBound
  /\ uploads' = uploads + 1
  /\ items' = file /\ pos' = 1 /\ dryRun' = dry /\ cancelled' = FALSE
  /\ base' = remote
  /\ UNCHANGED remote

\* ReadFile, ParseItems and NewHTTPClient succeed ...
StartUpload(file, dry) == Begin(file, dry) /\ upStep' = "send" /\ UNCHANGED exitCode

\* ... or one of them does not: an unreadable or malformed file, no version, no
\* credentials
RefuseUpload(file, dry) == Begin(file, dry) /\ upStep' = "ended" /\ exitCode' = 1

SignalUpload ==
  /\ upStep \in {"send", "retry"} /\ ~cancelled
  /\ cancelled' = TRUE
  /\ UNCHANGED <<upStep, items, pos, dryRun, exitCode, remote, base, uploads>>

MoreItems == upStep = "send" /\ pos <= Len(items)
MayStore == remote' = remote \/ remote' = remote \cup {items[pos]}

ItemDone ==
  /\ remote' = remote \cup {items[pos]}
  /\ pos' = pos + 1 /\ upStep' = "send"
  /\ UNCHANGED <<items, dryRun, cancelled, exitCode, base, uploads>>

EndUpload(code) ==
  /\ upStep' = "ended" /\ exitCode' = code
  /\ UNCHANGED <<items, pos, dryRun, cancelled, base, uploads>>

\* The answer to a POST: 2xx; 4xx; 5xx; none, because of the network or because
\* the context is done, which run turns into exit code 0.
PostOK == MoreItems /\ ~dryRun /\ ItemDone

PostRejected_Ignored ==
  /\ MoreItems /\ ~dryRun /\ pos' = pos + 1
  /\ UNCHANGED <<upStep, items, dryRun, cancelled, exitCode, remote, base, uploads>>

PostRejected == MoreItems /\ ~dryRun /\ EndUpload(1) /\ UNCHANGED remote

PostServerError ==
  /\ MoreItems /\ ~dryRun
  /\ MayStore
  /\ upStep' = "retry"
  /\ UNCHANGED <<items, pos, dryRun, cancelled, exitCode, base, uploads>>

PostLost == MoreItems /\ ~dryRun /\ MayStore /\ EndUpload(1)

PostCancelled == MoreItems /\ ~dryRun /\ cancelled /\ MayStore /\ EndUpload(0)

\* The second Do of doWithRetry sends the request whose body the first one has
\* read.  On a fresh connection that fails before anything is sent; on a reused
\* one the transport rewinds the body and the item goes through again.
RetryFails == upStep = "retry" /\ EndUpload(1) /\ UNCHANGED remote

RetryOK == upStep = "retry" /\ ItemDone

RetryServerError_Dropped ==
  /\ upStep = "retry" /\ MayStore
  /\ pos' = pos + 1 /\ upStep' = "send"
  /\ UNCHANGED <<items, dryRun, cancelled, exitCode, base, uploads>>

RetryServerError == upStep = "retry" /\ MayStore /\ EndUpload(1)

RetryCancelled == upStep = "retry" /\ cancelled /\ MayStore /\ EndUpload(0)

\* A dry run logs the item
LogItem ==
  /\ MoreItems /\ dryRun
  /\ pos' = pos + 1
  /\ UNCHANGED <<upStep, items, dryRun, cancelled, exitCode, remote, base, uploads>>

FinishUpload ==
  /\ upStep = "send" /\ pos > Len(items)
  /\ EndUpload(0) /\ UNCHANGED remote

UploadNext ==
  \/ \E file \in SampleFile, dry \in BOOLEAN : StartUpload(file, dry) \/ RefuseUpload(file, dry)
  \/ SignalUpload
  \/ PostOK \/ PostRejected \/ PostServerError \/ PostLost \/ PostCancelled
  \/ RetryFails \/ RetryOK \/ RetryServerError \/ RetryCancelled
  \/ LogItem \/ FinishUpload

UploadSpec == UploadInit /\ [][UploadNext]_upVars

-----------------------------------------------------------------------------
(* Properties *)

ItemsUpTo(s, n) == {s[i] : i \in {j \in DOMAIN s : j <= n}}

\* Property: exit code 0 of an upload that no signal interrupted means that the
\* whole file is in the data set, whatever answers were lost or repeated, and
\* whatever earlier uploads left behind.  About Upsert, UpsertDatasetItem,
\* doWithRetry and run.
UploadDelivers ==
  upStep = "ended" /\ exitCode = 0 /\ ~cancelled /\ ~dryRun
    => ItemsUpTo(items, Len(items)) \subseteq remote

\* Property: only the item in hand is ever in doubt: the data set holds what it
\* held before, every item before that one, perhaps that one, and nothing else;
\* a dry run changes nothing.  So a failed upload can be repeated.  About
\* Upsert's return at the first error and the content-derived IDs.
OnlyOneInDoubt ==
  /\ base \cup (IF dryRun THEN {} ELSE ItemsUpTo(items, pos - 1)) \subseteq remote
  /\ remote \subseteq base \cup (IF dryRun THEN {} ELSE ItemsUpTo(items, pos))
=============================================================================
