--------------------------- MODULE SqlxMigrations ---------------------------
(***************************************************************************)
(* The cyclotron-migrate Job: the entrypoint runs "sqlx migrate run" over   *)
(* the Node cyclotron migrations, in one database session.  A migration     *)
(* runs in a transaction together with its record in _sqlx_migrations, or,  *)
(* marked "-- no-transaction", as one CONCURRENTLY statement recorded       *)
(* afterwards.  The pod or the server can die in between, and application   *)
(* transactions hold the locks the statements wait for.                     *)
(*                                                                          *)
(* PostgreSQL: a concurrent build or drop that is cut short leaves an       *)
(* INVALID index of that name.  A statement whose client died goes on, and  *)
(* the next statement on the table waits for it; an orphaned build waits in *)
(* turn for the snapshots taken before its last phase, the waiting          *)
(* statement's among them, and the deadlock costs one of the two.           *)
(***************************************************************************)
EXTENDS Naturals, Sequences, FiniteSets

CONSTANTS
    MaxCrashes,    \* bound: restarts of the database server
    MaxDeaths,     \* bound: pods that die
    MaxAttempts    \* backoffLimit + 1: pods the Job starts

ASSUME LimitsAssumption ==
    MaxCrashes \in Nat /\ MaxDeaths \in Nat /\ MaxAttempts \in Nat \ {0}

Index == {"distinct_id", "person_id", "email_fair_dequeue", "email_fair_dequeue_v2",
          "action_reschedule", "null_person_anchor", "email_priority_fair_dequeue"}

\* A migration: the index it builds or drops concurrently, or the DDL of a
\* transaction (whose lock_timeout lasts for the session with SET, for the
\* transaction with SET LOCAL).  Indexes built inside transactions are left out.
Build(i) == [tx |-> FALSE, op |-> "build", index |-> i, timeout |-> "none"]
Drop(i)  == [tx |-> FALSE, op |-> "drop",  index |-> i, timeout |-> "none"]
Ddl(op, i, limit) == [tx |-> TRUE, op |-> op, index |-> i, timeout |-> limit]
Create   == Ddl("create", "person_id", "none")     \* of a new table: nobody holds it
Columns  == Ddl("alter", "person_id", "none")

\* The migrations, by version.  DROP COLUMN person_id takes its index along.
V20260303000001 == Create                                \* initial schema
V20260417000001 == Columns                               \* lookup columns
V20260417000002 == Build("distinct_id")
V20260417000003 == Build("person_id")
V20260519000001 == Ddl("drop", "person_id", "session")   \* person_id as TEXT
V20260519000002 == Build("person_id")
V20260616000001 == Columns                               \* dequeue_seq
V20260616000002 == Build("email_fair_dequeue")
V20260622000001 == Build("email_fair_dequeue_v2")
V20260622000002 == Drop("email_fair_dequeue")
V20260716000001 == Build("action_reschedule")
V20260731000001 == Build("null_person_anchor")
V20260813000001 == Ddl("alter", "person_id", "local")    \* cancel_requested_at
V20260820000001 == Build("email_priority_fair_dequeue")
V20260821000001 == Create                                \* conversion watchers

Plan ==
    << V20260303000001, V20260417000001, V20260417000002, V20260417000003,
       V20260519000001, V20260519000002, V20260616000001, V20260616000002,
       V20260622000001, V20260622000002, V20260716000001, V20260731000001,
       V20260813000001, V20260820000001, V20260821000001 >>

Version == 1..Len(Plan)

VARIABLES
    job, attempts,     \* the Job and the pods it started
    at, version,       \* sqlx: what it does, and to which migration
    limited,           \* the session has a lock_timeout
    recorded,          \* _sqlx_migrations
    index,             \* pg_index
    orphan,            \* a statement that outlived its client, its migration or 0
    busy, held,        \* the application runs; a transaction of it holds the table
    crashes, deaths,   \* restarts of the server and deaths of pods so far
    timeouts           \* lock waits that timed out so far

podVars == <<job, attempts, at, version, limited>>
dbVars  == <<recorded, index, orphan>>
vars == <<podVars, dbVars, busy, held, crashes, deaths, timeouts>>

\* last: the orphan is past the point where it can deadlock.
NoOrphan == [of |-> 0, limited |-> FALSE, last |-> FALSE]

Init ==
    /\ job = "running" /\ attempts = 0
    /\ at = "none" /\ version = 0 /\ limited = FALSE
    /\ recorded = {} /\ index = [i \in Index |-> "absent"] /\ orphan = NoOrphan
    /\ busy \in BOOLEAN    \* after a Helm upgrade it runs, the runner has stopped it
    /\ held = FALSE /\ crashes = 0 /\ deaths = 0 /\ timeouts = 0

Pending == Version \ recorded
First(S) == CHOOSE v \in S : \A w \in S : v <= w

\* Mutant: one pod too many.
LeaveLate ==
    /\ at' = "none" /\ version' = 0 /\ limited' = FALSE
    /\ job' = IF attempts > MaxAttempts THEN "failed" ELSE job
    /\ UNCHANGED attempts

\* The session ends without success; the Job tries again or gives up.
Leave ==
    /\ at' = "none" /\ version' = 0 /\ limited' = FALSE
    /\ job' = IF attempts = MaxAttempts THEN "failed" ELSE job
    /\ UNCHANGED attempts

(***************************************************************************)
(* The pod.                                                                 *)
(***************************************************************************)
StartPod ==
    /\ job = "running" /\ at = "none"
    /\ attempts' = attempts + 1 /\ at' = "pick"
    /\ UNCHANGED <<job, version, limited, dbVars, busy, held, crashes, deaths, timeouts>>

PickMigration ==
    /\ at = "pick" /\ Pending # {}
    /\ version' = First(Pending) /\ at' = "execute"
    /\ UNCHANGED <<job, attempts, limited, dbVars, busy, held, crashes, deaths, timeouts>>

MigrationsDone ==
    /\ at = "pick" /\ Pending = {}
    /\ job' = "complete" /\ at' = "none" /\ limited' = FALSE
    /\ UNCHANGED <<attempts, version, dbVars, busy, held, crashes, deaths, timeouts>>

\* What the statement of migration m must wait for before it starts.
Blocked(m) ==
    /\ m.op # "create"
    /\ orphan # NoOrphan \/ (held /\ m.tx)

Transact ==
    LET m == Plan[version]
    IN /\ at = "execute" /\ m.tx /\ ~Blocked(m)
       /\ index' = IF m.op = "drop" THEN [index EXCEPT ![m.index] = "absent"] ELSE index
       /\ recorded' = recorded \cup {version}
       /\ limited' = (limited \/ m.timeout = "session")
       /\ at' = "pick" /\ version' = 0
       /\ UNCHANGED <<job, attempts, orphan, busy, held, crashes, deaths, timeouts>>

\* Mutants: without IF NOT EXISTS; with the record made first.
BeginBuildOnce ==
    LET m == Plan[version]
    IN /\ at = "execute" /\ ~m.tx /\ m.op = "build" /\ ~Blocked(m)
       /\ IF index[m.index] = "absent"
          THEN /\ at' = "working" /\ index' = [index EXCEPT ![m.index] = "building"]
               /\ UNCHANGED <<job, attempts, version, limited>>
          ELSE Leave /\ UNCHANGED index
       /\ UNCHANGED <<recorded, orphan, busy, held, crashes, deaths, timeouts>>

BeginBuildRecorded ==
    LET m == Plan[version]
    IN /\ at = "execute" /\ ~m.tx /\ m.op = "build" /\ ~Blocked(m)
       /\ at' = "working" /\ index' = [index EXCEPT ![m.index] = "building"]
       /\ recorded' = recorded \cup {version}
       /\ UNCHANGED <<job, attempts, version, limited, orphan, busy, held, crashes, deaths, timeouts>>

\* CREATE INDEX CONCURRENTLY IF NOT EXISTS: any index of that name will do.
BeginBuild ==
    LET m == Plan[version]
    IN /\ at = "execute" /\ ~m.tx /\ m.op = "build" /\ ~Blocked(m)
       /\ IF index[m.index] = "absent"
          THEN at' = "working" /\ index' = [index EXCEPT ![m.index] = "building"]
          ELSE at' = "record" /\ UNCHANGED index
       /\ UNCHANGED <<job, attempts, version, limited, recorded, orphan, busy, held, crashes, deaths, timeouts>>

\* DROP INDEX CONCURRENTLY IF EXISTS: first nobody uses it, then it goes.
BeginDrop ==
    LET m == Plan[version]
    IN /\ at = "execute" /\ ~m.tx /\ m.op = "drop" /\ ~Blocked(m)
       /\ IF index[m.index] = "absent"
          THEN at' = "record" /\ UNCHANGED index
          ELSE at' = "working" /\ index' = [index EXCEPT ![m.index] = "dropping"]
       /\ UNCHANGED <<job, attempts, version, limited, recorded, orphan, busy, held, crashes, deaths, timeouts>>

\* The indexes once the concurrent statement of migration v has succeeded, and
\* once it has been cut short.
Finished(v) == [index EXCEPT ![Plan[v].index] = IF Plan[v].op = "build" THEN "valid" ELSE "absent"]
CutShort(v) == [index EXCEPT ![Plan[v].index] = "invalid"]

\* Concurrent statements wait for the transactions that were open.
EndConcurrent ==
    /\ at = "working" /\ ~held
    /\ index' = Finished(version) /\ at' = "record"
    /\ UNCHANGED <<job, attempts, version, limited, recorded, orphan, busy, held, crashes, deaths, timeouts>>

\* Mutant: a migration outside a transaction is not put on record.
RecordMigrationForgotten ==
    /\ at = "record"
    /\ at' = "pick" /\ version' = 0
    /\ UNCHANGED <<job, attempts, limited, dbVars, busy, held, crashes, deaths, timeouts>>

RecordMigration ==
    /\ at = "record"
    /\ recorded' = recorded \cup {version} /\ at' = "pick" /\ version' = 0
    /\ UNCHANGED <<job, attempts, limited, index, orphan, busy, held, crashes, deaths, timeouts>>

(***************************************************************************)
(* Failures.                                                                *)
(***************************************************************************)
\* A lock_timeout ends a wait; sqlx reports the error and exits.
TimeOut ==
    /\ \/ /\ at = "execute" /\ Blocked(Plan[version])
          /\ limited \/ Plan[version].timeout # "none"
          /\ UNCHANGED index
       \/ at = "working" /\ held /\ limited /\ index' = CutShort(version)
    /\ Leave /\ timeouts' = timeouts + 1
    /\ UNCHANGED <<recorded, orphan, busy, held, crashes, deaths>>

\* The pod dies.  The server goes on with the concurrent statement it executes;
\* nobody commits a transaction.
PodDies ==
    /\ at # "none" /\ deaths < MaxDeaths /\ deaths' = deaths + 1
    /\ orphan' = IF at = "working"
                 THEN [of |-> version, limited |-> limited, last |-> FALSE] ELSE orphan
    /\ Leave
    /\ UNCHANGED <<recorded, index, busy, held, crashes, timeouts>>

OrphanEnds ==
    /\ orphan # NoOrphan
    /\ \/ ~held /\ index' = Finished(orphan.of) /\ UNCHANGED timeouts
       \/ held /\ orphan.limited /\ index' = CutShort(orphan.of) /\ timeouts' = timeouts + 1
    /\ orphan' = NoOrphan
    /\ UNCHANGED <<podVars, recorded, busy, held, crashes, deaths>>

\* The retry waits for the orphaned build's lock, and the build, which is about to
\* end, for the retry's snapshot: PostgreSQL cancels the build or the retry.  A
\* statement that comes later is not waited for, nor do drops wait for snapshots.
Deadlock ==
    /\ orphan # NoOrphan /\ Plan[orphan.of].op = "build" /\ ~orphan.last
    /\ at = "execute"
    /\ \/ /\ index' = CutShort(orphan.of) /\ orphan' = NoOrphan
          /\ UNCHANGED podVars
       \/ /\ orphan' = [orphan EXCEPT !.last = TRUE] /\ Leave
          /\ UNCHANGED index
    /\ UNCHANGED <<recorded, busy, held, crashes, deaths, timeouts>>

\* The database server restarts: every session and transaction ends.
ServerRestarts ==
    /\ crashes < MaxCrashes /\ crashes' = crashes + 1
    /\ held' = FALSE /\ orphan' = NoOrphan
    /\ index' = CASE at = "working"     -> CutShort(version)
                  [] orphan # NoOrphan  -> CutShort(orphan.of)
                  [] OTHER              -> index
    /\ IF at = "none" THEN UNCHANGED podVars ELSE Leave
    /\ UNCHANGED <<recorded, busy, deaths, timeouts>>

\* Application transactions on the table.
Hold ==
    /\ busy /\ ~held /\ held' = TRUE
    /\ UNCHANGED <<podVars, dbVars, busy, crashes, deaths, timeouts>>

Unhold ==
    /\ held /\ held' = FALSE
    /\ UNCHANGED <<podVars, dbVars, busy, crashes, deaths, timeouts>>

-----------------------------------------------------------------------------
Sqlx ==
    \/ StartPod \/ PickMigration \/ MigrationsDone \/ Transact
    \/ BeginBuild \/ BeginDrop \/ EndConcurrent \/ RecordMigration

Next ==
    \/ Sqlx \/ TimeOut \/ PodDies \/ OrphanEnds \/ Deadlock \/ ServerRestarts
    \/ Hold \/ Unhold

Spec == Init /\ [][Next]_vars

\* The pod runs; transactions end, and the server's lock queue gives every
\* waiting statement its turn between them.
FairSpec == Spec /\ WF_vars(Unhold) /\ SF_vars(Sqlx) /\ SF_vars(OrphanEnds \/ Deadlock)

(***************************************************************************)
(* Properties.                                                              *)
(***************************************************************************)
TypeOK ==
    /\ job \in {"running", "complete", "failed"} /\ attempts \in 0..MaxAttempts
    /\ at \in {"none", "pick", "execute", "working", "record"}
    /\ version \in (IF at \in {"none", "pick"} THEN {0} ELSE Version)
    /\ limited \in BOOLEAN /\ {busy, held} \subseteq BOOLEAN
    /\ orphan \in [of : Version, limited : BOOLEAN, last : BOOLEAN] \cup {NoOrphan}
    /\ recorded \subseteq Version
    /\ index \in [Index -> {"absent", "building", "valid", "invalid", "dropping"}]
    /\ crashes \in 0..MaxCrashes /\ deaths \in 0..MaxDeaths /\ timeouts \in Nat

\* Migration w undoes the build of migration v and is recorded or next in turn.
Superseded(v) ==
    \E w \in Version : /\ w > v /\ Plan[w].op = "drop" /\ Plan[w].index = Plan[v].index
                       /\ \A u \in 1..(w - 1) : u \in recorded

\* A build on record is over: whatever died, its index is there, valid or not,
\* until a later migration drops it; and a Job that reports success has everything
\* on record, with the legacy index gone even if its drop was cut short.
RecordedBuildsEnded ==
    /\ \A v \in recorded : Plan[v].op = "build" /\ ~Superseded(v)
          => index[Plan[v].index] \in {"valid", "invalid"}
    /\ job = "complete" => recorded = Version /\ index["email_fair_dequeue"] = "absent"

\* Pods that were started and did not succeed, and the indexes a retry would take
\* for built.
Lost == IF job = "complete" \/ at # "none" THEN attempts - 1 ELSE attempts
Invalid == {i \in Index : index[i] = "invalid"}

\* The price of a failure: a pod's death, a restart of the server and a lock timeout
\* each cost at most two of the Job's attempts and indexes together.  A death costs
\* its own attempt and, through what it leaves running, the retry that deadlocks
\* with it or the index, never both; and no failed attempt and no invalid index,
\* which IF NOT EXISTS accepts as it is, comes from anything else.
FailuresCostTwo ==
    Lost + Cardinality(Invalid) <= 2 * (deaths + crashes + timeouts)

\* The Job comes to an end: nothing that was cut short blocks a retry for good.
JobEnds == <>(job # "running")

\* "The dependent index is dropped here and recreated CONCURRENTLY in the next
\* migration": once that (20260519000002, the sixth) is recorded, the index is
\* usable.
PersonIndexRecreated ==
    6 \in recorded => index["person_id"] = "valid"
=============================================================================
