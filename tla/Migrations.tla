----------------------------- MODULE Migrations -----------------------------
(***************************************************************************)
(* The schema of the database and the spt processes that look at it or     *)
(* change it: `spt migrate up`, `down` and `status`, and the check that a  *)
(* role makes before it serves (internal/datastore, internal/app/cli).     *)
(*                                                                         *)
(* Concurrent activities: any number of processes on one database. Nothing *)
(* keeps two of them apart: goose.NewProvider is given no session locker.  *)
(* What is atomic is a query of goose_db_version and the transaction of    *)
(* one migration, which runs its script and inserts or deletes its row.    *)
(* The scripts of most versions fail on a schema that has their change, as *)
(* CREATE TABLE of 00001_initial.sql does; others may be written with      *)
(* IF [NOT] EXISTS and notice nothing. goose itself compares nothing when  *)
(* it comes to a version it has planned. A second row that it inserts then *)
(* replaces the first one here: goose asks for the versions there are and  *)
(* for the latest row, and deletes all rows of a version.                  *)
(*                                                                         *)
(* An operator A_Variant is the operator A with a plausible bug. Nothing   *)
(* uses it; put in A's place it breaks a property stated at the end.       *)
(***************************************************************************)
EXTENDS Integers, Sequences, SequencesExt

CONSTANTS
  Process,    \* the processes that may run at a time
  Version,    \* the versions of the migrations
  Histories,  \* each a set of releases; a release is the set of versions
              \* embedded in its binary (or found in --migrations-dir)
  Rerunnable  \* the versions whose scripts succeed also when there is
              \* nothing to apply or to roll back

ASSUME VersionAssumption   == Version \subseteq Nat
ASSUME HistoriesAssumption == Histories \subseteq SUBSET SUBSET Version
ASSUME RerunAssumption     == Rerunnable \subseteq Version

VARIABLES
  rows,         \* goose_db_version: the versions, by the ids of their rows
  releases,     \* the releases that processes run
  state,        \* what a process does
  kind,         \* its command
  source,       \* the migrations of its Migrator
  plan,         \* up, down: versions still to apply or to roll back
  unread,       \* status, role: versions Status has not looked up yet
  pending,      \* status, role: Status found a version not applied
  exit,         \* its exit code
  interrupted,  \* history: it ended by SIGINT or SIGTERM
  undone,       \* history: versions rolled back since it read the database
  overlapped    \* history: two of up and down were at work at the same time

commandVars == <<kind, source>>
readVars == <<unread, pending>>
vars == <<rows, releases, state, commandVars, plan, readVars, exit, interrupted, undone, overlapped>>

Kind  == {"up", "down", "status", "role"}
State == {"idle", "applying", "rolling back", "reading", "serving", "exited"}

Applied == ToSet(rows)

TypeOK ==
  /\ rows \in Seq(Version)
  /\ releases \in Histories
  /\ state \in [Process -> State]
  /\ kind \in [Process -> Kind]
  /\ source \in [Process -> SUBSET Version]
  /\ plan \in [Process -> SUBSET Version]
  /\ unread \in [Process -> SUBSET Version]
  /\ pending \in [Process -> BOOLEAN]
  /\ exit \in [Process -> {0, 1}]
  /\ interrupted \in [Process -> BOOLEAN]
  /\ undone \in [Process -> SUBSET Version]
  /\ overlapped \in BOOLEAN

Init ==
  /\ rows = <<>>
  /\ releases \in Histories
  /\ state = [p \in Process |-> "idle"]
  /\ kind = [p \in Process |-> "status"]
  /\ source = [p \in Process |-> {}]
  /\ plan = [p \in Process |-> {}]
  /\ unread = [p \in Process |-> {}]
  /\ pending = [p \in Process |-> FALSE]
  /\ exit = [p \in Process |-> 0]
  /\ interrupted = [p \in Process |-> FALSE]
  /\ undone = [p \in Process |-> {}]
  /\ overlapped = FALSE

----------------------------------------------------------------------------
\* A process starts, and ends.

AtWork(p) == state[p] \in {"applying", "rolling back"}

\* Process p runs `command` of a release, whose migrations are s.
Run(p, command, s, to) ==
  /\ state[p] \in {"idle", "exited"} /\ s \in releases
  /\ state' = [state EXCEPT ![p] = to]
  /\ kind' = [kind EXCEPT ![p] = command]
  /\ source' = [source EXCEPT ![p] = s]
  /\ undone' = [undone EXCEPT ![p] = {}]
  /\ interrupted' = [interrupted EXCEPT ![p] = FALSE]
  /\ UNCHANGED <<rows, releases>>

\* The process ends, and with it what only it knew.
Exit(p, code) ==
  /\ state' = [state EXCEPT ![p] = "exited"]
  /\ exit' = [exit EXCEPT ![p] = code]
  /\ plan' = [plan EXCEPT ![p] = {}]
  /\ unread' = [unread EXCEPT ![p] = {}]
  /\ pending' = [pending EXCEPT ![p] = FALSE]

\* No DSN, no connection, an unreadable directory, a command goose refuses:
\* nothing was done, and the process says so.
Refused(p, command, s) ==
  /\ Run(p, command, s, "exited")
  /\ exit' = [exit EXCEPT ![p] = 1]
  /\ UNCHANGED <<plan, readVars, overlapped>>

Overlap(p) == \E q \in Process \ {p} : AtWork(q)

----------------------------------------------------------------------------
\* Migrator.Up and Migrator.Down, as the commands of the CLI run them.

\* Versions below an applied one that are not applied themselves.
Skipped(s) == {v \in s \ Applied : \E w \in Applied : v < w}

\* Up plans its release, also what is applied.
Up_PlansAll(p, s) ==
  /\ Skipped(s) = {}
  /\ Run(p, "up", s, "applying")
  /\ plan' = [plan EXCEPT ![p] = s]
  /\ overlapped' = (overlapped \/ Overlap(p))
  /\ UNCHANGED <<readVars, exit>>

\* Up lists the applied versions and plans all others at once.
Up_AllowSkipped(p, s) ==
  /\ Run(p, "up", s, "applying")
  /\ plan' = [plan EXCEPT ![p] = s \ Applied]
  /\ overlapped' = (overlapped \/ Overlap(p))
  /\ UNCHANGED <<readVars, exit>>

\* goose refuses when a version was skipped.
Up(p, s) ==
  /\ Skipped(s) = {}
  /\ Run(p, "up", s, "applying")
  /\ plan' = [plan EXCEPT ![p] = s \ Applied]
  /\ overlapped' = (overlapped \/ Overlap(p))
  /\ UNCHANGED <<readVars, exit>>

\* Down plans the row inserted last; it needs the scripts of all rows, and it
\* is an error when there is none.
Down(p, s) ==
  /\ rows # <<>> /\ Applied \subseteq s
  /\ Run(p, "down", s, "rolling back")
  /\ plan' = [plan EXCEPT ![p] = {Last(rows)}]
  /\ overlapped' = (overlapped \/ Overlap(p))
  /\ UNCHANGED <<readVars, exit>>

\* Any planned version may come first.
Following_Any(p, v) == v \in plan[p]

Following(p, v) == v \in plan[p] /\ \A w \in plan[p] : v <= w

\* What `DELETE ... WHERE version_id = v` leaves.
Without(seq, v) ==
  IF v \in ToSet(seq) THEN RemoveAt(seq, CHOOSE i \in DOMAIN seq : seq[i] = v) ELSE seq

\* The script of v runs, and its row is inserted; for a plan that has gone
\* stale only the script can tell that v is applied.
Apply(p, v) ==
  /\ state[p] = "applying" /\ Following(p, v)
  /\ v \in Applied => v \in Rerunnable
  /\ rows' = Append(Without(rows, v), v)
  /\ plan' = [plan EXCEPT ![p] = @ \ {v}]
  /\ UNCHANGED <<releases, state, commandVars, readVars, exit, interrupted, undone, overlapped>>

RollBack(p, v) ==
  /\ state[p] = "rolling back" /\ v \in plan[p]
  /\ v \notin Applied => v \in Rerunnable
  /\ rows' = Without(rows, v)
  /\ plan' = [plan EXCEPT ![p] = {}]
  /\ undone' = [q \in Process |-> undone[q] \cup {v}]
  /\ UNCHANGED <<releases, state, commandVars, readVars, exit, interrupted, overlapped>>

\* The errors of Up and Down do not reach the exit code.
Fails_Silently(p) ==
  /\ state[p] \in {"applying", "rolling back", "reading"}
  /\ Exit(p, 0)
  /\ UNCHANGED <<rows, releases, commandVars, interrupted, undone, overlapped>>

\* A statement fails or the connection breaks: the transaction at hand is
\* rolled back, those before it stay. So it is for most scripts when another
\* process has applied the version at hand or has rolled it back.
Fails(p) ==
  /\ state[p] \in {"applying", "rolling back", "reading"}
  /\ Exit(p, 1)
  /\ UNCHANGED <<rows, releases, commandVars, interrupted, undone, overlapped>>

\* The exit code a shell gives to a process that died of SIGINT.
Interrupt_130(p) ==
  /\ state[p] \notin {"idle", "exited"}
  /\ interrupted' = [interrupted EXCEPT ![p] = TRUE]
  /\ Exit(p, 130)
  /\ UNCHANGED <<rows, releases, commandVars, undone, overlapped>>

\* SIGINT or SIGTERM: what goose or the role returns wraps context.Canceled,
\* which run of main.go turns into exit code 0, whatever the command.
Interrupt(p) ==
  /\ state[p] \notin {"idle", "exited"}
  /\ interrupted' = [interrupted EXCEPT ![p] = TRUE]
  /\ Exit(p, 0)
  /\ UNCHANGED <<rows, releases, commandVars, undone, overlapped>>

Done(p) ==
  /\ AtWork(p) /\ plan[p] = {}
  /\ Exit(p, 0)
  /\ UNCHANGED <<rows, releases, commandVars, interrupted, undone, overlapped>>

----------------------------------------------------------------------------
\* Migrator.Status, for `spt migrate status` and for CheckPendingMigrations.
\* goose looks the versions up one by one.

ReadStatus(p, command, s) ==
  /\ Run(p, command, s, "reading")
  /\ unread' = [unread EXCEPT ![p] = s]
  /\ pending' = [pending EXCEPT ![p] = FALSE]
  /\ UNCHANGED <<plan, exit, overlapped>>

\* The last version decides.
LookUp_LastWins(p, v) ==
  /\ state[p] = "reading" /\ v \in unread[p] /\ \A w \in unread[p] : v <= w
  /\ unread' = [unread EXCEPT ![p] = @ \ {v}]
  /\ pending' = [pending EXCEPT ![p] = v \notin Applied]
  /\ UNCHANGED <<rows, releases, state, commandVars, plan, exit, interrupted, undone, overlapped>>

LookUp(p, v) ==
  /\ state[p] = "reading" /\ v \in unread[p] /\ \A w \in unread[p] : v <= w
  /\ unread' = [unread EXCEPT ![p] = @ \ {v}]
  /\ pending' = [pending EXCEPT ![p] = @ \/ v \notin Applied]
  /\ UNCHANGED <<rows, releases, state, commandVars, plan, exit, interrupted, undone, overlapped>>

\* `spt migrate status` drops ErrPendingMigrations once the table is printed.
StatusPrinted(p) ==
  /\ state[p] = "reading" /\ unread[p] = {} /\ kind[p] = "status"
  /\ Exit(p, 0)
  /\ UNCHANGED <<rows, releases, commandVars, interrupted, undone, overlapped>>

\* CheckPendingMigrations: the role ends with ErrPendingMigrations or serves.
CheckPassed(p) ==
  /\ state[p] = "reading" /\ unread[p] = {} /\ kind[p] = "role"
  /\ ~ pending[p]
  /\ state' = [state EXCEPT ![p] = "serving"]
  /\ UNCHANGED <<rows, releases, commandVars, plan, readVars, exit, interrupted, undone, overlapped>>

CheckFailed(p) ==
  /\ state[p] = "reading" /\ unread[p] = {} /\ kind[p] = "role"
  /\ pending[p]
  /\ Exit(p, 1)
  /\ UNCHANGED <<rows, releases, commandVars, interrupted, undone, overlapped>>

----------------------------------------------------------------------------
Start(p) ==
  \E s \in releases :
    \/ Up(p, s)
    \/ Down(p, s)
    \/ \E command \in {"status", "role"} : ReadStatus(p, command, s)
    \/ \E command \in Kind : Refused(p, command, s)

Proceed(p) ==
  \/ \E v \in Version : Apply(p, v) \/ RollBack(p, v) \/ LookUp(p, v)
  \/ Done(p) \/ Fails(p) \/ StatusPrinted(p) \/ CheckPassed(p) \/ CheckFailed(p)

Next == \E p \in Process : Start(p) \/ Proceed(p) \/ Interrupt(p)

Spec == Init /\ [][Next]_vars

----------------------------------------------------------------------------
\* No role serves on a schema it was not built for: each migration of its
\* release is applied, unless a rollback took it away after the role had begun
\* to look. Status looks the versions up one by one while other processes
\* apply and roll back.
ServedSchema ==
  \A p \in Process : state[p] = "serving" =>
    source[p] \subseteq Applied \cup undone[p]

\* `spt migrate up` that ends by itself with exit code 0 has delivered its
\* release, also when other processes applied parts of it, unless a rollback
\* took a version away after it had made its plan.
UpDelivers ==
  \A p \in Process :
    state[p] = "exited" /\ kind[p] = "up" /\ exit[p] = 0 /\ ~ interrupted[p] =>
      source[p] \subseteq Applied \cup undone[p]

\* goose plans once, when Up or Down begins, and works off what it planned. A
\* command that works alone finds the schema it planned for, whatever commands
\* broke off before it: none of the versions `up` has left is applied, and
\* `down` finds its version on top. (So Up is idempotent as migrate.go:45-46
\* says, and no script runs twice, as long as commands do not overlap.)
PlansAreFresh ==
  ~ overlapped =>
    \A p \in Process :
      /\ state[p] = "applying" => plan[p] \cap Applied = {}
      /\ state[p] = "rolling back" => plan[p] \subseteq Applied /\ \A v \in plan[p] : v = Last(rows)

\* As long as up and down are not run at the same time, the applied versions
\* are a stack: up pushes a newer version, down takes the newest.
PushesNewer == \E v \in Version : rows' = Append(rows, v) /\ \A w \in Applied : w < v
PopsNewest  == rows # <<>> /\ rows' = Front(rows)

StackWhileAlone == [][~ overlapped' /\ rows' # rows => PushesNewer \/ PopsNewest]_vars

\* Releases that only ever add newer migrations.
Precedes(s, t) == s \subseteq t /\ \A v \in s, w \in t \ s : v < w
AppendOnly == \A s, t \in releases : Precedes(s, t) \/ Precedes(t, s)

\* An `up` that fails, breaks or is interrupted half way leaves a schema that
\* the next `up` can complete: no version is skipped, so goose does not refuse.
\* It takes two commands at the same time, or a release with a migration older
\* than one released before, to make it refuse.
UpNeverRefused ==
  AppendOnly /\ ~ overlapped => \A s \in releases : Skipped(s) = {}

\* cmd/spt/main.go:43-45 counts a cancelled context as success "(SIGINT/SIGTERM
\* during a role's Run)" and reserves the non-zero exit for "actual
\* configuration or runtime failures": exit code 0 of `spt migrate up`, which is
\* no role, would mean that its migrations are applied.
UpExitZeroMeansApplied ==
  \A p \in Process : state[p] = "exited" /\ kind[p] = "up" /\ exit[p] = 0 =>
    source[p] \subseteq Applied \cup undone[p]
=============================================================================
