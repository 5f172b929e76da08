----------------------------- MODULE ModelMoves -----------------------------
(***************************************************************************)
(* images/posthog/migrate_legacy_model_moves.py, and the regular migrate    *)
(* that follows it in the migrate Job, over a graph of Django migrations    *)
(* with squashes.  A migration is a transaction, its record a part of it    *)
(* unless statements were deferred to its end: then the record follows the  *)
(* commit, a squash's row by row.                                           *)
(*                                                                          *)
(* An original migration that moves a model between apps changes only the   *)
(* ORM's state: the tables must be there.  The squash that replaces it      *)
(* creates them: they must not be there.  Which of the two Django picks     *)
(* follows from django_migrations alone; Django itself (the loader and the  *)
(* executor) is external and modelled as this command uses it.              *)
(***************************************************************************)
EXTENDS Naturals, Sequences, FiniteSets

CONSTANTS
    Node,        \* migrations, by app and name
    Squash,      \* those named _squash_2026_09_07_
    Replaces,    \* [Squash -> originals]
    Parents,     \* [Node -> dependencies as the files state them]
    Label,       \* [Node -> app label]
    Late,        \* those with deferred statements (they create tables or columns)
    Initial,     \* posthog.0001_initial
    Cutoff,      \* posthog.1340_drop_userproductlist_reason_columns
    Moves,       \* MODEL_MOVES: a sequence of original migrations
    MoveSquash,  \* SQUASH_NAME of an app in MODEL_MOVES
    App,         \* its apps
    AppOf,       \* [a move -> its app]
    Creates,     \* [Node -> apps whose retained tables it creates]
    Alters       \* [Node -> apps whose retained tables it changes]

ASSUME SquashAssumption ==
    /\ Squash \subseteq Node
    /\ \A s \in Squash : Replaces[s] \subseteq Node \ Squash

\* Dependencies are migrations; no two squashes replace the same one, and what a
\* squash replaces has an order and does not depend on it.
ASSUME GraphAssumption ==
    /\ \A n \in Node : Parents[n] \subseteq Node
    /\ \A s \in Squash : \A o \in Replaces[s] : s \notin Parents[o]
    /\ \A s, q \in Squash : Replaces[s] \cap Replaces[q] # {} => s = q
    /\ \A s \in Squash : \A X \in SUBSET Replaces[s] :
          X # {} => \E x \in X : \A q \in X : x \notin Parents[q]

ASSUME MovesAssumption ==
    Initial \in Node \ Squash /\ Moves \in Seq(Node \ Squash) /\ MoveSquash \subseteq Squash

VARIABLES
    rec,         \* django_migrations
    tables,      \* RETAINED_TABLES that exist, by app
    at,          \* the container's progress, "down" when it does not run
    target,      \* position in MODEL_MOVES
    kept, plan,  \* the executor's graph and what it has still to run
    made,        \* committed, but not with all its rows on record
    doing        \* of those, what the executor is recording

moveVars == <<rec, tables, at, target, kept, plan, made, doing>>

-----------------------------------------------------------------------------
(***************************************************************************)
(* Django's loader.  A squash counts as applied when all it replaces are,   *)
(* whatever its own row says.                                               *)
(***************************************************************************)
Whole(s) == Replaces[s] \subseteq rec
Counts   == (rec \ Squash) \cup { s \in Squash : Whole(s) }

\* A squash stays in the graph, and its originals go, unless they are partly
\* applied.  LegacyModelMoveLoader takes the moves' squashes out in any case.
RegularGraph == { s \in Squash : Whole(s) \/ Replaces[s] \cap rec = {} }
LegacyGraph  == RegularGraph \ MoveSquash

NodesOf(graph) == (Node \ (Squash \cup UNION { Replaces[s] : s \in graph })) \cup graph

\* Dependencies on what is not in the graph are redirected: to the squash, or
\* from the squash to the last of its originals.
Last(s) == { o \in Replaces[s] : \A q \in Replaces[s] : o \notin Parents[q] }

Redirected(d, graph) ==
    IF d \in Squash THEN IF d \in graph THEN {d} ELSE Last(d)
    ELSE LET by == { s \in graph : d \in Replaces[s] } IN IF by = {} THEN {d} ELSE by

ParentsIn(n, graph) ==
    LET stated == Parents[n] \cup UNION { Parents[o] : o \in IF n \in Squash THEN Replaces[n] ELSE {} }
    IN (UNION { Redirected(d, graph) : d \in stated }) \ {n}

\* What is recorded when a node has run.
Own(n) == IF n \in Squash THEN Replaces[n] ELSE {n}

\* A node and all it depends on: what is in every set that holds the node and,
\* with any node, all that depends on.
ClosedIn(graph, nodes) ==
    nodes \subseteq NodesOf(graph) /\ \A m \in nodes : ParentsIn(m, graph) \subseteq nodes
Closed == { [graph |-> c[1], nodes |-> c[2]] :
              c \in { d \in (SUBSET Squash) \X (SUBSET Node) : ClosedIn(d[1], d[2]) } }

Ancestry(n, graph) ==
    { m \in NodesOf(graph) : \A c \in Closed : c.graph = graph /\ n \in c.nodes => m \in c.nodes }

\* check_consistent_history(): rows whose dependencies have none.
Unmet(n, graph) == { p \in ParentsIn(n, graph) : p \notin rec /\ ~(p \in Squash /\ Whole(p)) }
Consistent(graph) == \A n \in rec \cap NodesOf(graph) : Unmet(n, graph) = {}

\* detect_conflicts(): an app with two migrations that none of its own follows.
Leaves(graph) ==
    { n \in NodesOf(graph) :
        \A m \in NodesOf(graph) : Label[m] = Label[n] => n \notin ParentsIn(m, graph) }
Conflicting(graph) == \E m, n \in Leaves(graph) : m # n /\ Label[m] = Label[n]

-----------------------------------------------------------------------------
(***************************************************************************)
(* What the migrations of a move rely on.                                   *)
(***************************************************************************)
\* What the files state that a migration depends on, apart from its own squash or
\* its own originals; and what is on record before it whichever squashes are.
Before(n) ==
    { d \in Parents[n] \cup UNION { Parents[o] : o \in Own(n) } :
        d \notin Own(n) \cup {n} /\ (d \in Squash => n \notin Replaces[d]) }

SelfContained(nodes) ==
    \A n \in nodes : IF n \in Squash THEN Replaces[n] \subseteq nodes ELSE Parents[n] \subseteq nodes

Needs(n, m) ==
    \A nodes \in SUBSET Node : SelfContained(nodes) /\ Before(n) \subseteq nodes => m \in nodes

\* What the move and its squash both come after, in the move's own app: it runs for
\* no earlier move.
Precedes(n, i) ==
    /\ Needs(Moves[i], n) /\ \E s \in MoveSquash : {n, Moves[i]} \subseteq Replaces[s]
    /\ \A graph \in SUBSET (Squash \ MoveSquash), j \in 1..Len(Moves) :
          j < i => n \notin Ancestry(Moves[j], graph)

\* Every move has an app and a squash of its own, which alone creates the app's
\* tables, after posthog's; what changes them depends on the move, or precedes it in
\* its app, or is one of posthog's up to the cutoff; and MODEL_MOVES is in the order
\* of the moves' dependencies.
ASSUME TablesAssumption ==
    /\ \A i \in 1..Len(Moves) :
          /\ AppOf[Moves[i]] \in App
          /\ \E s \in MoveSquash : Moves[i] \in Replaces[s]
          /\ \A j \in 1..Len(Moves) : AppOf[Moves[i]] = AppOf[Moves[j]] => i = j
    /\ \A n \in Node : Creates[n] =
          { AppOf[Moves[i]] : i \in { i \in 1..Len(Moves) : n \in Squash /\ Moves[i] \in Replaces[n] } }
    /\ \A n \in Node : \A a \in Alters[n] : \E i \in 1..Len(Moves) :
          /\ AppOf[Moves[i]] = a
          /\ \/ Needs(n, Moves[i]) \/ Precedes(n, i)
             \/ n \notin Squash /\ Needs(n, Initial) /\ (n = Cutoff \/ Needs(Cutoff, n))
    /\ \A n \in Node : Creates[n] # {} => Needs(n, Initial)
    /\ \E s \in Squash \ MoveSquash :
          {Initial, Cutoff} \subseteq Replaces[s] /\ \A o \in Replaces[s] \ {Initial} : Needs(o, Initial)
    /\ \A graph \in SUBSET (Squash \ MoveSquash), i, j \in 1..Len(Moves) :
          i > j => Moves[i] \notin Ancestry(Moves[j], graph)

\* Each app's migrations end in one, whichever squashes stand for what they replace.
ASSUME LeavesAssumption == \A graph \in SUBSET Squash : ~Conflicting(graph)

\* A move is state only.
ASSUME LateAssumption == Late \subseteq Node /\ \A i \in 1..Len(Moves) : Moves[i] \notin Late

\* Records r and tables t of one installation.  A fresh one has no tables before
\* posthog's migrations; one from before the cutoff has them all, since they were
\* posthog's; later each move on record has its tables, no part of an app's history
\* is on record without them, and the tables of the other moves were left by one
\* and the same kind of installation.
TablesMatch(r, t) ==
    LET table(i) == t[AppOf[Moves[i]]]
        Index    == 1..Len(Moves)
    IN /\ \A i \in Index : Moves[i] \in r => table(i) = "full"
       /\ \A i \in Index, s \in Squash :
             Moves[i] \in Replaces[s] /\ table(i) = "none" => Replaces[s] \cap r = {}
       /\ \A i, j \in Index :
             Moves[i] \notin r /\ Moves[j] \notin r /\ table(i) = "none" => table(j) # "full"
       /\ Initial \notin r => \A i \in Index : table(i) = "none"
       /\ Initial \in r /\ Cutoff \notin r => \A i \in Index : table(i) = "full"

-----------------------------------------------------------------------------
(***************************************************************************)
(* The command.                                                             *)
(***************************************************************************)
Goto(step) == at' = step
Fail == Goto("down") /\ doing' = {} /\ UNCHANGED <<rec, tables, target, kept, plan, made>>

NotRequired ==
    /\ at = "prepare" /\ Initial \notin rec
    /\ Goto("migrate") /\ UNCHANGED <<rec, tables, target, kept, plan, made, doing>>

\* A squash's row that stands on nothing.
\* Mutant: there is none to look for.
PrematureNever == {}
\* Mutant: any derived row is taken for one.
DerivedRows == { s \in rec \cap RegularGraph : Whole(s) }

Premature == { s \in rec \cap RegularGraph : Whole(s) /\ Unmet(s, RegularGraph) # {} }

RemoveMarker(s) ==
    /\ at = "prepare" /\ Initial \in rec /\ s \in Premature
    /\ rec' = rec \ {s}
    /\ UNCHANGED <<tables, at, target, kept, plan, made, doing>>

BeginMoves ==
    /\ at = "prepare" /\ Initial \in rec /\ Premature = {}
    /\ Goto("move") /\ target' = 1
    /\ UNCHANGED <<rec, tables, kept, plan, made, doing>>

Move == Moves[target]
Retained == tables[AppOf[Move]]
Choosing == at = "move" /\ target <= Len(Moves)

\* A move on record is never targeted: that could roll others back.
SkipMove ==
    /\ Choosing /\ (Move \in rec \/ (Cutoff \in rec /\ Retained = "none"))
    /\ target' = target + 1
    /\ UNCHANGED <<rec, tables, at, kept, plan, made, doing>>

\* After the cutoff a part of the tables proves neither history.
\* Mutant: it passes for the whole.
RefusedNever == FALSE

Refused == Cutoff \in rec /\ Retained = "partial"

RefuseMove == Choosing /\ Move \notin rec /\ Refused /\ Fail

\* A plan is backward when its target is applied.
Backward == Move \in Counts

PlanMove ==
    /\ Choosing /\ Move \notin rec /\ ~Refused /\ ~(Cutoff \in rec /\ Retained = "none")
    /\ IF Consistent(LegacyGraph) /\ ~Conflicting(LegacyGraph) /\ ~Backward
       THEN /\ Goto("moving") /\ kept' = LegacyGraph
            /\ plan' = Ancestry(Move, LegacyGraph) \ Counts
            /\ UNCHANGED <<rec, tables, target, made, doing>>
       ELSE Fail

\* The executor's markers: all but September's.
\* Mutant: September's as well.
EndMoveMarking ==
    /\ at = "moving" /\ plan = {}
    /\ Goto("move") /\ target' = target + 1 /\ rec' = rec \cup { s \in Squash : Whole(s) }
    /\ UNCHANGED <<tables, kept, plan, made, doing>>

EndMove ==
    /\ at = "moving" /\ plan = {}
    /\ Goto("move") /\ target' = target + 1
    /\ UNCHANGED <<rec, tables, kept, plan, made, doing>>

EndMoves ==
    /\ at = "move" /\ target > Len(Moves)
    /\ Goto("migrate") /\ UNCHANGED <<rec, tables, target, kept, plan, made, doing>>

(***************************************************************************)
(* manage.py migrate, and what both executors do with a plan.               *)
(***************************************************************************)
PlanAll ==
    /\ at = "migrate"
    /\ IF Consistent(RegularGraph) /\ ~Conflicting(RegularGraph)
       THEN /\ Goto("migrating") /\ kept' = RegularGraph
            /\ plan' = NodesOf(RegularGraph) \ Counts
            /\ UNCHANGED <<rec, tables, target, made, doing>>
       ELSE Fail

Runnable(n) ==
    at \in {"moving", "migrating"} /\ doing = {} /\ n \in plan /\ ParentsIn(n, kept) \cap plan = {}

\* The database refuses to create what exists or to change what does not; so what
\* has been committed cannot run again.
Fits(n) == /\ \A a \in Creates[n] : tables[a] = "none"
           /\ \A a \in Alters[n]  : tables[a] = "full"
           /\ n \notin made

Execute(n) ==
    /\ Runnable(n) /\ Fits(n)
    /\ tables' = [a \in App |-> IF a \in Creates[n] THEN "full" ELSE tables[a]]
    /\ IF n \in Late THEN made' = made \cup {n} /\ doing' = {n} /\ UNCHANGED <<rec, plan>>
       ELSE rec' = rec \cup Own(n) /\ plan' = plan \ {n} /\ UNCHANGED <<made, doing>>
    /\ UNCHANGED <<at, target, kept>>

\* The rows of a squash are inserted in the order in which it lists its originals.
RecordRow(o) ==
    \E n \in doing :
        /\ o \in Own(n) \ rec /\ Parents[o] \cap Own(n) \subseteq rec
        /\ rec' = rec \cup {o}
        /\ IF Own(n) \subseteq rec' THEN plan' = plan \ {n} /\ made' = made \ {n} /\ doing' = {}
                                    ELSE UNCHANGED <<plan, made, doing>>
        /\ UNCHANGED <<tables, at, target, kept>>

\* What a squash has done its originals may or may not be able to do again.
ExecuteFails(n) ==
    Runnable(n) /\ (~Fits(n) \/ \E s \in made : n \in Own(s)) /\ Fail

\* A process ended between a commit and the last of its rows.
Torn == made \ doing # {}

\* At its end the full migrate records every squash, one row after the other.
RecordMarker(s) ==
    /\ at = "migrating" /\ plan = {} /\ s \in { q \in Squash : Whole(q) } \ rec
    /\ rec' = rec \cup {s}
    /\ UNCHANGED <<tables, at, target, kept, plan, made, doing>>

EndMigrate ==
    /\ at = "migrating" /\ plan = {} /\ { s \in Squash : Whole(s) } \subseteq rec
    /\ Goto("rest") /\ UNCHANGED <<rec, tables, target, kept, plan, made, doing>>

MoveStep ==
    \/ NotRequired \/ BeginMoves \/ SkipMove \/ RefuseMove \/ PlanMove \/ EndMove \/ EndMoves
    \/ PlanAll \/ EndMigrate
    \/ \E s \in Squash : RemoveMarker(s) \/ RecordMarker(s)
    \/ \E o \in Node : RecordRow(o)
=============================================================================
