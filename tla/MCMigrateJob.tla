---------------------------- MODULE MCMigrateJob ----------------------------
(* Small instances of MigrateJob for TLC: two of the moves' apps, cohorts     *)
(* and experiments, which depends on it, with the squashes of both and of     *)
(* posthog, the migration that depends on squashes, and ee.                   *)
EXTENDS MigrateJob, TLC

Squashes == {"posthog.squash", "cohorts.squash", "experiments.squash"}

ReplacesOf ==
    ("posthog.squash"     :> {"posthog.0001", "posthog.1340"}) @@
    ("cohorts.squash"     :> {"cohorts.0001", "cohorts.0002"}) @@
    ("experiments.squash" :> {"experiments.0001", "experiments.0018"})

ParentsOf ==
    ("posthog.0001"       :> {}) @@
    ("posthog.1340"       :> {"posthog.0001"}) @@
    ("cohorts.0001"       :> {"posthog.1340"}) @@
    ("cohorts.0002"       :> {"cohorts.0001"}) @@
    ("experiments.0001"   :> {"posthog.0001"}) @@
    ("experiments.0018"   :> {"experiments.0001", "cohorts.0001"}) @@
    ("posthog.squash"     :> {}) @@
    ("cohorts.squash"     :> {"posthog.squash"}) @@
    ("experiments.squash" :> {"posthog.squash", "cohorts.squash"}) @@
    ("posthog.fks"        :> {"posthog.squash", "cohorts.squash", "experiments.squash"}) @@
    ("ee.0058"            :> {"posthog.1340"}) @@
    ("ee.0060"            :> {"ee.0058"})

Nodes == DOMAIN ParentsOf

LabelOf ==
    [n \in Nodes |-> CASE n \in {"cohorts.0001", "cohorts.0002", "cohorts.squash"} -> "cohorts"
                       [] n \in {"experiments.0001", "experiments.0018", "experiments.squash"} -> "experiments"
                       [] n \in {"ee.0058", "ee.0060"} -> "ee"
                       [] OTHER -> "posthog"]

\* What creates tables with indexes, or foreign keys.
LateNodes == Squashes \cup {"posthog.0001", "posthog.fks"}

MoveList == <<"cohorts.0001", "experiments.0018">>
AppOfMove == ("cohorts.0001" :> "cohorts") @@ ("experiments.0018" :> "experiments")

CreatesFor ==
    [n \in Nodes |-> CASE n = "cohorts.squash" -> {"cohorts"}
                       [] n = "experiments.squash" -> {"experiments"}
                       [] OTHER -> {}]
AltersFor ==
    [n \in Nodes |-> CASE n \in {"posthog.1340", "cohorts.0002"} -> {"cohorts"}
                       [] n = "experiments.0001" -> {"experiments"}
                       [] n = "posthog.fks" -> {"cohorts", "experiments"}
                       [] OTHER -> {}]

\* Two domains of one config, and one without.
Pairs == { <<"u", d>> : d \in {"d1", "d2", "d3"} }
ConfigOfPair == [p \in Pairs |-> IF p[2] = "d3" THEN "null" ELSE "c"]

\* By a hook, beside an application that provisions or not, or by the runner's Job.
Hook   == {<<3, TRUE>>, <<3, FALSE>>}
Runner == <<1, FALSE>>
Found(r, c, e, rs, j) == [rec |-> r, tables |-> ("cohorts" :> c) @@ ("experiments" :> e),
                          rows |-> rs, limit |-> j[1], busy |-> j[2]]

NoRows == [i \in {} |-> 0]

\* Up to three rows, their keys in any order; the domains of the config are
\* interchangeable, so that d1's row is the older.
Injections(ids, T) == { f \in [ids -> T] : \A i, j \in ids : i # j => f[i] # f[j] }

RowSets ==
    { rs \in UNION { { [i \in ids |-> [pair |-> p[i], born |-> o[i], config |-> "null"]] :
                         p \in Injections(ids, Pairs), o \in Injections(ids, 1..Cardinality(ids)) }
                     : ids \in SUBSET (1..3) } :
        \A j \in DOMAIN rs : rs[j].pair[2] = "d2" =>
            \E i \in DOMAIN rs : rs[i].pair[2] = "d1" /\ rs[i].born < rs[j].born }

Legacy == {"posthog.0001", "experiments.0001"}
Cut    == Legacy \cup {"posthog.1340"}
Fresh  == {"posthog.0001", "posthog.1340"}

\* A fresh database; legacy ones from before and after the cutoff, and before the
\* app's own first; one on which an earlier image left a squash's row; parts of the
\* tables.
HistoriesFound ==
    { Found({}, "none", "none", NoRows, j) : j \in {<<3, FALSE>>, Runner} } \cup
    { Found(Legacy, "full", "full", rs, Runner) : rs \in RowSets } \cup
    { Found(Legacy, "full", "full", rs, j) : j \in Hook, rs \in { q \in RowSets : Cardinality(DOMAIN q) \in 1..2 } } \cup
    { Found({"posthog.0001"}, "full", "full", NoRows, Runner) } \cup
    { Found(Cut \cup m, "full", "full", NoRows, j) : m \in {{}, {"posthog.squash"}}, j \in {<<3, FALSE>>, Runner} } \cup
    { Found(Cut \cup {"cohorts.0001", "experiments.0018"} \cup m, "full", "full", NoRows, j) :
        m \in {{"experiments.squash"}, {"experiments.squash", "posthog.squash"}}, j \in {<<3, FALSE>>, Runner} } \cup
    { Found(Cut, "partial", "full", NoRows, Runner), Found(Cut, "full", "partial", NoRows, Runner),
      Found(Fresh, "partial", "none", NoRows, Runner), Found(Fresh, "none", "partial", NoRows, Runner) }
=============================================================================
