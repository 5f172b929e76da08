----------------------------- MODULE MigrateJob -----------------------------
(***************************************************************************)
(* charts/posthog/templates/hooks/migrate.job.yaml: the migrate Job, whose  *)
(* container prepares the model moves (ModelMoves), migrates, which runs    *)
(* the SCIM backfill and two migrations later adds the constraint that      *)
(* depends on it (ScimBackfill), and goes on to the other databases.  As a  *)
(* hook it runs beside the application and is started again whenever it     *)
(* fails or is killed, up to the backoff limit; the production runner makes *)
(* of it a Job with one start, the application stopped.                     *)
(***************************************************************************)
EXTENDS ModelMoves, ScimBackfill

CONSTANTS
    Backfill, Constraint,   \* ee.0058 and ee.0060, of Node
    Histories,              \* [rec, tables, rows, busy, limit] a Job may find
    MaxKills                \* bound: pods that are killed

ASSUME JobAssumption ==
    /\ {Backfill, Constraint} \subseteq Node /\ MaxKills \in Nat
    /\ Needs(Constraint, Backfill) /\ {Backfill, Constraint} \cap Late = {}
    /\ \A h \in Histories : h.limit \in Nat \ {0} /\ (h.limit = 1 => ~h.busy)
    /\ \A h \in Histories : \A s \in h.rec \cap Squash : Replaces[s] \subseteq h.rec

\* An earlier migrate, not cut off between a commit and its record, recorded a
\* migration after all it depends on, and the squashes at its end; the tables are
\* those of one installation.
ASSUME HistoriesAssumption ==
    \A h \in Histories :
        /\ h.rec \subseteq Node /\ h.tables \in [App -> {"none", "partial", "full"}]
        /\ TablesMatch(h.rec, h.tables)
        /\ \A n \in h.rec \ Squash : \A d \in Parents[n] :
              IF d \in Squash THEN Replaces[d] \subseteq h.rec ELSE d \in h.rec
        /\ Initial \notin h.rec => h.rec \cap Squash = {}

\* The rows a Job finds were numbered as they were inserted and carry no config.
ASSUME RowsAssumption ==
    /\ Id \subseteq Nat \ {0} /\ ConfigOf \in [Pair -> Config \cup {Null}]
    /\ Backfill \notin Squash /\ \A s \in Squash : Backfill \notin Replaces[s]
    /\ \A h \in Histories :
          /\ DOMAIN h.rows \subseteq Id /\ IsFiniteSet(DOMAIN h.rows)
          /\ h.rows \in [DOMAIN h.rows -> [pair : Pair, born : 1..Cardinality(DOMAIN h.rows), config : {Null}]]
          /\ \A i, j \in DOMAIN h.rows : h.rows[i].born = h.rows[j].born => i = j

VARIABLES
    inside,     \* the backfill's transaction is open
    limit,      \* starts the Job has: backoffLimit + 1
    starts, kills

vars == <<moveVars, scimVars, inside, limit, starts, kills>>

Init ==
    /\ \E h \in Histories : rec = h.rec /\ tables = h.tables /\ rows = h.rows /\ busy = h.busy
                            /\ limit = h.limit
    /\ at = "down" /\ target = 1 /\ kept = {} /\ plan = {} /\ made = {} /\ doing = {}
    /\ skip = {} /\ last = 0 /\ claims = {} /\ asof = 0
    /\ inside = FALSE /\ starts = 0 /\ kills = 0

jobVars == <<inside, limit, starts, kills>>

Start ==
    /\ at = "down" /\ starts < limit
    /\ Goto("prepare") /\ starts' = starts + 1
    /\ UNCHANGED <<rec, tables, target, kept, plan, made, doing, scimVars, inside, limit, kills>>

GiveUp ==
    /\ at = "down" /\ starts = limit
    /\ Goto("failed") /\ UNCHANGED <<rec, tables, target, kept, plan, made, doing, scimVars, jobVars>>

\* Whatever transaction was open is rolled back; rows not yet inserted never are.
Kill ==
    /\ at \notin {"down", "done", "failed"} /\ kills < MaxKills
    /\ kills' = kills + 1 /\ inside' = FALSE
    /\ Rollback /\ Fail /\ UNCHANGED <<limit, starts>>

Step == MoveStep /\ UNCHANGED <<scimVars, jobVars>>

Migrate(n) ==
    /\ n # Backfill /\ ~inside
    /\ IF n = Constraint => UserConfigUnique THEN Execute(n) \/ ExecuteFails(n) ELSE Runnable(n) /\ Fail
    /\ UNCHANGED <<scimVars, jobVars>>

OpenBackfill ==
    /\ Runnable(Backfill) /\ ~inside /\ inside' = TRUE
    /\ BeginBackfill /\ UNCHANGED <<moveVars, limit, starts, kills>>

Claim == inside /\ ClaimBatch /\ UNCHANGED <<moveVars, jobVars>>

CommitBackfill ==
    /\ inside /\ inside' = FALSE
    /\ Commit /\ Execute(Backfill) /\ UNCHANGED <<limit, starts, kills>>

\* Product databases, persons, ClickHouse, async migrations.
Rest ==
    /\ at = "rest" /\ Goto("done")
    /\ UNCHANGED <<rec, tables, target, kept, plan, made, doing, scimVars, jobVars>>

Write == \E i \in Id, p \in Pair : Provision(i, p) /\ UNCHANGED <<moveVars, jobVars>>

Work ==
    \/ Start \/ GiveUp \/ Step \/ OpenBackfill \/ Claim \/ CommitBackfill \/ Rest
    \/ \E n \in Node : Migrate(n)

Next == Work \/ Kill \/ Write

Spec == Init /\ [][Next]_vars
FairSpec == Spec /\ WF_vars(Work)

(***************************************************************************)
(* Properties.                                                              *)
(***************************************************************************)
TypeOK ==
    /\ rec \subseteq Node /\ plan \subseteq Node /\ kept \subseteq Squash
    /\ tables \in [App -> {"none", "partial", "full"}]
    /\ at \in {"down", "prepare", "move", "moving", "migrate", "migrating", "rest", "done", "failed"}
    /\ target \in 1..(Len(Moves) + 1) /\ inside \in BOOLEAN
    /\ DOMAIN rows \subseteq Id /\ skip \cup claims \subseteq DOMAIN rows
    /\ claims # {} => inside
    /\ made \subseteq Late /\ doing \subseteq made \cap plan /\ limit \in Nat
    /\ starts \in 0..limit /\ kills \in 0..MaxKills

\* Wherever an upgrade was interrupted, and whatever markers an earlier one left
\* behind, the regular migrate finds a history it accepts.
HistoryConsistent ==
    at \in {"migrate", "migrating", "rest"} => Consistent(RegularGraph)

\* "It preserves original migration records; any repaired squash-summary marker
\* must have all original operations recorded and a demonstrably unmet dependency."
RecordsKept ==
    [][\A n \in rec \ rec' : /\ n \in Squash /\ Replaces[n] \subseteq rec
                            /\ ~(Parents[n] \cup UNION { Parents[o] : o \in Replaces[n] } \subseteq
                                   rec \cup Replaces[n])]_vars

\* History and tables agree, unless a process was cut off between a commit and its
\* record: a move on record has its tables, and no plan is about to create tables that
\* exist or to change such as do not, a part of them included ("a partially installed
\* fresh database").
HistoryFitsTables ==
    ~Torn => /\ \A i \in 1..Len(Moves) : Moves[i] \in rec => tables[AppOf[Moves[i]]] = "full"
             /\ \A n \in Node : Runnable(n) => Fits(n)

\* "Keep the oldest on the config and leave the rest on their domain key": of the
\* rows looked at, whatever was inserted while they were.
OldestClaims ==
    Backfill \in rec /\ asof > 0 =>
        \A i \in DOMAIN rows : rows[i].born <= asof =>
            rows[i].config = IF Oldest(i) THEN ConfigOf[rows[i].pair] ELSE Null

\* With its tables whole and nobody provisioned meanwhile, the Job completes, unless
\* each pod it may start is killed or one between a commit and its record; and then
\* all is on record.
JobCompletes ==
    (\A a \in App : tables[a] # "partial") /\ ~busy =>
        <>(Torn \/ kills >= limit \/ (at = "done" /\ rec = Node))
=============================================================================
