----------------------------- MODULE LogsRepair -----------------------------
(***************************************************************************)
(* scripts/reconcile-clickhouse-logs.py as the runner's logs stages drive   *)
(* it: snapshot, reconcile, consumers, (migrate), drain, verify, finalize.  *)
(* Each phase is a script process in the migration pod.  Its journal lives  *)
(* in the pod; the runner copies its own copy in before the phase and the   *)
(* pod's copy out after it.  A script can die between any two statements    *)
(* and while it rewrites the journal; the runner can lose a script that     *)
(* goes on; ClickHouse can restart; others can change the schema.           *)
(***************************************************************************)
EXTENDS Naturals, FiniteSets

CONSTANTS
    Base,          \* storage tables moved from database default to posthog
    View,          \* legacy materialized views
    Kafka,         \* legacy Kafka consumers
    Alias,         \* legacy Distributed tables, each with a queue of blocks
    Bindings,      \* the sets of aliases that may be bound for another database
    Proc,          \* script processes that may exist at the same time
    Disconnects,   \* the runner may lose a script that keeps running
    Writers,       \* direct writers may still reach the aliases
    MaxQueue,      \* bound: blocks in a queue
    MaxUpsets,     \* bound: schema changes by others and ClickHouse restarts
    MaxDeaths      \* bound: scripts that die

ASSUME SetsAssumption ==
    /\ IsFiniteSet(Base) /\ IsFiniteSet(View) /\ IsFiniteSet(Kafka) /\ IsFiniteSet(Alias)
    /\ Bindings \subseteq SUBSET Alias
    /\ Disconnects \in BOOLEAN /\ Writers \in BOOLEAN
    /\ {MaxQueue, MaxUpsets, MaxDeaths} \subseteq Nat

Command == {"snapshot", "reconcile", "consumers", "drain", "verify", "finalize"}
Phase   == {"snapshotted", "reconciling", "structural_complete",
            "starting_consumers", "consumers_complete", "draining", "drained",
            "verified", "finalizing", "finalized"}
Extent  == {"none", "partial", "full"}

VARIABLES
    pc, cmd, todo, mem, lostBy,      \* script processes; mem is the loaded journal
    file, local,                     \* journal in the pod, with the runner
    attempted, completed,            \* stages the runner began and completed
    base, views, kafka, alias,       \* which legacy objects are (still) in default
    structural, consumers,           \* how much canonical DDL exists in posthog
    foreign,                         \* aliases bound for another database
    sends, queue,                    \* aliases that send; blocks they hold
    applied, hist, drift,            \* migration history, and others' changes
    deaths, restarts, furthest       \* budgets; the last phase journalled

procVars    == <<pc, cmd, todo, mem, lostBy>>
journalVars == <<file, local, attempted, completed, furthest>>
tableVars   == <<base, views, kafka, alias>>
ddlVars     == <<structural, consumers>>
queueVars   == <<sends, queue>>
otherVars   == <<foreign, applied, hist, drift, restarts>>
vars == <<procVars, journalVars, tableVars, ddlVars, queueVars, otherVars, deaths>>

\* inventory(): every owned table with its definition; drift stands for the
\* definitions.  base is the set of storage tables still in default.
Inventory == [base |-> base, views |-> views, kafka |-> kafka, alias |-> alias,
              structural |-> structural, consumers |-> consumers, drift |-> drift]

NoInventory == [base |-> {}, views |-> {}, kafka |-> {}, alias |-> {},
                structural |-> "none", consumers |-> "none", drift |-> 0]

NoJournal == [phase |-> "absent", tables |-> NoInventory, destination |-> NoInventory,
              verified |-> NoInventory, history |-> 0]
Torn == [NoJournal EXCEPT !.phase = "torn"]

\* Objects the phase works through, in the order of its loops.
Loop(l) ==
    CASE l = "detach" -> Kafka
      [] l = "stop"   -> Alias
      [] l = "drop"   -> View
      [] l = "move"   -> Base
      [] l = "flush"  -> Alias
      [] l = "retire" -> Alias
      [] OTHER        -> {}

Goto(p, l) ==
    /\ pc'   = [pc EXCEPT ![p] = l]
    /\ todo' = [todo EXCEPT ![p] = Loop(l)]
    /\ UNCHANGED <<cmd, lostBy>>

\* The process is gone; a runner that still waits for it copies the journal
\* out (its finally clause) unless there is none or it is blank.
Exit(p, journal) ==
    /\ pc'   = [pc EXCEPT ![p] = "idle"]
    /\ cmd'  = [cmd EXCEPT ![p] = "snapshot"]
    /\ todo' = [todo EXCEPT ![p] = {}]
    /\ mem'  = [mem EXCEPT ![p] = NoJournal]
    /\ lostBy' = [lostBy EXCEPT ![p] = FALSE]
    /\ \/ local' = IF lostBy[p] \/ journal.phase = "absent" THEN local ELSE journal
       \/ journal.phase = "torn" /\ local' = local

\* save(): the process rewrites the journal from its own memory.
Save(p, j) ==
    /\ file' = j /\ mem' = [mem EXCEPT ![p] = j] /\ furthest' = j.phase
    /\ UNCHANGED <<local, attempted, completed>>

Init ==
    /\ pc = [p \in Proc |-> "idle"] /\ cmd = [p \in Proc |-> "snapshot"]
    /\ todo = [p \in Proc |-> {}] /\ mem = [p \in Proc |-> NoJournal]
    /\ lostBy = [p \in Proc |-> FALSE]
    /\ file = NoJournal /\ local = NoJournal /\ attempted = {} /\ completed = {}
    /\ base = Base /\ views = View /\ kafka = Kafka /\ alias = Alias
    /\ structural = "none" /\ consumers = "none"
    /\ foreign \in Bindings /\ sends = Alias /\ queue \in [Alias -> 0..MaxQueue]
    /\ applied = FALSE /\ hist = 0 /\ drift = 0
    /\ deaths = 0 /\ restarts = 0 /\ furthest = "absent"

(***************************************************************************)
(* Guards of the phases, on the loaded journal j.                           *)
(***************************************************************************)
SourceIntact == base = Base /\ views = View /\ kafka = Kafka /\ alias = Alias
QueuesEmpty  == \A a \in alias : queue[a] = 0

\* finish(): what every late phase insists on.
Settled(j) ==
    /\ base = {} /\ kafka = {} /\ views = {}
    /\ applied
    /\ j.phase # "finalized" => alias = Alias

\* Mutants of Admits: finalize trusts the verify phase for the queues; drain
\* ignores the destinations.
AdmitsUnread(c, j) ==
    CASE c = "snapshot"  -> j = NoJournal /\ SourceIntact
      [] c = "reconcile" -> /\ j.phase = "snapshotted" /\ hist = j.history
                            /\ Inventory = j.tables
      [] c = "consumers" -> /\ j.phase = "structural_complete" /\ hist = j.history
                            /\ Inventory = j.destination /\ kafka = {}
      [] c = "drain"     -> j.phase = "consumers_complete" /\ Settled(j)
      [] c = "verify"    -> j.phase \in {"drained", "verified", "finalized"}
                            /\ Settled(j)
      [] c = "finalize"  -> /\ j.phase = "verified" /\ Settled(j)
                            /\ Inventory = j.verified

Admits(c, j) ==
    CASE c = "snapshot"  -> j = NoJournal /\ SourceIntact
      [] c = "reconcile" -> /\ j.phase = "snapshotted" /\ hist = j.history
                            /\ Inventory = j.tables
      [] c = "consumers" -> /\ j.phase = "structural_complete" /\ hist = j.history
                            /\ Inventory = j.destination /\ kafka = {}
      [] c = "drain"     -> j.phase = "consumers_complete" /\ Settled(j) /\ foreign = {}
      [] c = "verify"    -> j.phase \in {"drained", "verified", "finalized"}
                            /\ Settled(j) /\ QueuesEmpty
      [] c = "finalize"  -> /\ j.phase = "verified" /\ Settled(j)
                            /\ Inventory = j.verified /\ QueuesEmpty

(***************************************************************************)
(* The runner starts a phase it has not started before.                     *)
(***************************************************************************)
Invoke(p, c) ==
    /\ pc[p] = "idle" /\ \A q \in Proc : pc[q] = "idle" \/ lostBy[q]
    /\ c \notin attempted
    /\ attempted' = attempted \cup {c}
    /\ file' = IF local.phase = "absent" THEN file ELSE local
    /\ mem' = [mem EXCEPT ![p] = file']
    /\ pc' = [pc EXCEPT ![p] = "check"] /\ cmd' = [cmd EXCEPT ![p] = c]
    /\ UNCHANGED <<todo, lostBy, local, completed, furthest, tableVars, ddlVars, queueVars, otherVars, deaths>>

Entry(c) ==
    CASE c \in {"snapshot", "verify"} -> "leave"
      [] OTHER -> "enter"

Check(p) ==
    /\ pc[p] = "check" /\ Admits(cmd[p], mem[p])
    /\ Goto(p, Entry(cmd[p]))
    /\ UNCHANGED <<mem, journalVars, tableVars, ddlVars, queueVars, otherVars, deaths>>

\* Mutant: the phase is journalled only when it is over.
EnterUnrecorded(p) ==
    LET c == cmd[p]
        first == CASE c = "reconcile" -> "detach" [] c = "consumers" -> "start"
                   [] c = "drain" -> "flush" [] c = "finalize" -> "retire"
    IN /\ pc[p] = "enter" /\ Goto(p, first)
       /\ UNCHANGED <<mem, journalVars, tableVars, ddlVars, queueVars, otherVars, deaths>>

\* A mutation phase journals that it began before it touches anything.
Enter(p) ==
    LET c == cmd[p]
        ph == CASE c = "reconcile" -> "reconciling" [] c = "consumers" -> "starting_consumers"
                [] c = "drain" -> "draining" [] c = "finalize" -> "finalizing"
        first == CASE c = "reconcile" -> "detach" [] c = "consumers" -> "start"
                   [] c = "drain" -> "flush" [] c = "finalize" -> "retire"
    IN /\ pc[p] = "enter" /\ Goto(p, first)
       /\ Save(p, [mem[p] EXCEPT !.phase = ph])
       /\ UNCHANGED <<tableVars, ddlVars, queueVars, otherVars, deaths>>

\* One object of the current loop, or on to the next step when none is left.
Each(p, l, x) ==
    /\ pc[p] = l /\ x \in todo[p]
    /\ todo' = [todo EXCEPT ![p] = @ \ {x}]
    /\ UNCHANGED <<pc, cmd, mem, lostBy, journalVars, otherVars, deaths>>

Detach(p, x) ==
    /\ Each(p, "detach", x) /\ x \in kafka /\ kafka' = kafka \ {x}
    /\ UNCHANGED <<base, views, alias, ddlVars, queueVars>>

\* Mutant: the sends are left running.
StopSendsSkipped(p, x) ==
    /\ Each(p, "stop", x) /\ x \in alias
    /\ UNCHANGED <<queueVars, tableVars, ddlVars>>

StopSends(p, x) ==
    /\ Each(p, "stop", x) /\ x \in alias /\ sends' = sends \ {x}
    /\ UNCHANGED <<queue, tableVars, ddlVars>>

DropView(p, x) ==
    /\ Each(p, "drop", x) /\ x \in views /\ views' = views \ {x}
    /\ UNCHANGED <<base, kafka, alias, ddlVars, queueVars>>

Move(p, x) ==
    /\ Each(p, "move", x) /\ x \in base /\ base' = base \ {x}
    /\ UNCHANGED <<views, kafka, alias, ddlVars, queueVars>>

\* START DISTRIBUTED SENDS, then FLUSH, which returns when the queue is sent.
Flush(p, x) ==
    /\ Each(p, "flush", x) /\ x \in alias
    /\ sends' = sends \cup {x} /\ queue' = [queue EXCEPT ![x] = 0]
    /\ UNCHANGED <<tableVars, ddlVars>>

Retire(p, x) ==
    /\ Each(p, "retire", x) /\ x \in alias
    /\ alias' = alias \ {x} /\ queue' = [queue EXCEPT ![x] = 0]
    /\ UNCHANGED <<sends, base, views, kafka, ddlVars>>

After(l) ==
    CASE l = "detach" -> "stop" [] l = "stop" -> "drop" [] l = "drop" -> "move"
      [] l = "move" -> "structural" [] l = "flush" -> "sent" [] l = "retire" -> "leave"

LoopDone(p) ==
    /\ pc[p] \in {"detach", "stop", "drop", "move", "flush", "retire"} /\ todo[p] = {}
    /\ Goto(p, After(pc[p]))
    /\ UNCHANGED <<mem, journalVars, tableVars, ddlVars, queueVars, otherVars, deaths>>

\* run_ops(structural), run_ops(consumers): several statements each.
RunStructural(p) ==
    /\ pc[p] = "structural"
    /\ \/ structural = "none" /\ structural' = "partial" /\ UNCHANGED <<pc, cmd, todo, lostBy>>
       \/ structural # "none" /\ structural' = "full" /\ Goto(p, "leave")
    /\ UNCHANGED <<mem, journalVars, tableVars, consumers, queueVars, otherVars, deaths>>

RunConsumers(p) ==
    /\ pc[p] = "start"
    /\ \/ consumers = "none" /\ consumers' = "partial" /\ UNCHANGED <<pc, cmd, todo, lostBy>>
       \/ consumers # "none" /\ consumers' = "full" /\ Goto(p, "leave")
    /\ UNCHANGED <<mem, journalVars, tableVars, structural, queueVars, otherVars, deaths>>

CheckSent(p) ==
    /\ pc[p] = "sent" /\ QueuesEmpty /\ Goto(p, "leave")
    /\ UNCHANGED <<mem, journalVars, tableVars, ddlVars, queueVars, otherVars, deaths>>

\* Mutants of Left: drain forgets to journal its end; the snapshot is journalled
\* under a phase nobody knows.
LeftDraining(c, j) ==
    CASE c = "snapshot"  -> [NoJournal EXCEPT !.phase = "snapshotted",
                                !.tables = Inventory, !.history = hist]
      [] c = "reconcile" -> [j EXCEPT !.phase = "structural_complete",
                                !.destination = Inventory]
      [] c = "consumers" -> [j EXCEPT !.phase = "consumers_complete"]
      [] OTHER           -> j

LeftMisspelt(c, j) == [NoJournal EXCEPT !.phase = "snapshot"]

\* What the journal says once the phase is over.
Left(c, j) ==
    CASE c = "snapshot"  -> [NoJournal EXCEPT !.phase = "snapshotted",
                                !.tables = Inventory, !.history = hist]
      [] c = "reconcile" -> [j EXCEPT !.phase = "structural_complete",
                                !.destination = Inventory]
      [] c = "consumers" -> [j EXCEPT !.phase = "consumers_complete"]
      [] c = "drain"     -> [j EXCEPT !.phase = "drained"]
      [] c = "verify"    -> IF j.phase = "finalized" THEN j
                            ELSE [j EXCEPT !.phase = "verified", !.verified = Inventory]
      [] c = "finalize"  -> [j EXCEPT !.phase = "finalized"]

HistoryKept(p) == cmd[p] \in {"reconcile", "consumers"} => hist = mem[p].history

Leave(p) ==
    /\ pc[p] = "leave" /\ HistoryKept(p)
    /\ cmd[p] = "snapshot" => file = NoJournal         \* O_EXCL
    /\ file' = Left(cmd[p], mem[p]) /\ furthest' = file'.phase
    /\ completed' = IF lostBy[p] THEN completed ELSE completed \cup {cmd[p]}
    /\ Exit(p, file')
    /\ UNCHANGED <<attempted, tableVars, ddlVars, queueVars, otherVars, deaths>>

\* A require() that fails, or DDL on an object another process removed.
Refused(p) ==
    \/ pc[p] = "check" /\ ~Admits(cmd[p], mem[p])
    \/ pc[p] = "detach" /\ todo[p] \ kafka # {}
    \/ pc[p] = "drop"   /\ todo[p] \ views # {}
    \/ pc[p] = "move"   /\ todo[p] \ base # {}
    \/ pc[p] \in {"stop", "flush", "retire"} /\ todo[p] \ alias # {}
    \/ pc[p] = "sent"   /\ ~QueuesEmpty
    \/ pc[p] = "leave"  /\ (~HistoryKept(p) \/ (cmd[p] = "snapshot" /\ file # NoJournal))

Refuse(p) ==
    /\ Refused(p) /\ Exit(p, file)
    /\ UNCHANGED <<file, attempted, completed, furthest, tableVars, ddlVars, queueVars, otherVars, deaths>>

\* The script dies; while it saves, the journal is left truncated.
Die(p) ==
    /\ pc[p] # "idle" /\ deaths < MaxDeaths /\ deaths' = deaths + 1
    /\ \/ UNCHANGED file
       \/ pc[p] \in {"enter", "leave"} /\ file' = Torn
    /\ Exit(p, file')
    /\ UNCHANGED <<attempted, completed, furthest, tableVars, ddlVars, queueVars, otherVars>>

\* kubectl exec breaks off: the runner copies the journal of that moment and
\* fails, the script goes on.
Disconnect(p) ==
    /\ Disconnects /\ pc[p] # "idle" /\ ~lostBy[p]
    /\ lostBy' = [lostBy EXCEPT ![p] = TRUE]
    /\ local' = IF file.phase = "absent" THEN local ELSE file
    /\ UNCHANGED <<pc, cmd, todo, mem, file, attempted, completed, furthest,
                   tableVars, ddlVars, queueVars, otherVars, deaths>>

(***************************************************************************)
(* The rest of the world.                                                   *)
(***************************************************************************)
\* The migrate stage, refused until the consumers stage is complete: its Job
\* records the modules in the migration history.
MigrateClickhouse ==
    /\ "consumers" \in completed /\ ~applied
    /\ applied' = TRUE /\ hist' = hist + 1
    /\ UNCHANGED <<procVars, journalVars, tableVars, ddlVars, queueVars, foreign, drift, restarts, deaths>>

\* A sending alias delivers a block once its destination exists.
Deliver(a) ==
    /\ a \in sends \cap alias /\ queue[a] > 0 /\ (base = {} \/ a \in foreign)
    /\ queue' = [queue EXCEPT ![a] = @ - 1]
    /\ UNCHANGED <<procVars, journalVars, tableVars, ddlVars, sends, otherVars, deaths>>

ChangeSchema ==
    /\ drift + restarts < MaxUpsets /\ drift' = drift + 1
    /\ UNCHANGED <<procVars, journalVars, tableVars, ddlVars, queueVars, foreign, applied, hist, restarts, deaths>>

\* A stop of distributed sends does not outlive the server process.
RestartClickHouse ==
    /\ drift + restarts < MaxUpsets /\ restarts' = restarts + 1
    /\ sends' = alias
    /\ UNCHANGED <<procVars, journalVars, tableVars, ddlVars, queue, foreign, applied, hist, drift, deaths>>

\* Direct writers keep the operator's --writers-quiesced pledge at least from
\* the last look at the queues to the end of finalize.
Enqueue(a) ==
    /\ Writers /\ a \in alias /\ queue[a] < MaxQueue
    /\ \A p \in Proc : cmd[p] = "finalize" => pc[p] \in {"idle", "check"}
    /\ queue' = [queue EXCEPT ![a] = @ + 1]
    /\ UNCHANGED <<procVars, journalVars, tableVars, ddlVars, sends, otherVars, deaths>>

-----------------------------------------------------------------------------
ScriptStep(p) ==
    \/ Check(p) \/ Enter(p) \/ LoopDone(p) \/ RunStructural(p) \/ RunConsumers(p)
    \/ CheckSent(p) \/ Leave(p) \/ Refuse(p)
    \/ \E x \in Kafka : Detach(p, x)
    \/ \E x \in View : DropView(p, x)
    \/ \E x \in Base : Move(p, x)
    \/ \E x \in Alias : StopSends(p, x) \/ Flush(p, x) \/ Retire(p, x)

Next ==
    \/ \E p \in Proc :
          \/ \E c \in Command : Invoke(p, c)
          \/ ScriptStep(p) \/ Die(p) \/ Disconnect(p)
    \/ MigrateClickhouse \/ ChangeSchema \/ RestartClickHouse
    \/ \E a \in Alias : Deliver(a) \/ Enqueue(a)

Spec == Init /\ [][Next]_vars

\* The order the README gives: each stage after the one before it, migrate
\* before drain.
Due(c) ==
    CASE c = "snapshot"  -> TRUE
      [] c = "reconcile" -> "snapshot"  \in completed
      [] c = "consumers" -> "reconcile" \in completed
      [] c = "drain"     -> "consumers" \in completed /\ applied
      [] c = "verify"    -> "drain"     \in completed
      [] c = "finalize"  -> "verify"    \in completed

DocumentedOrder == \A c \in attempted : Due(c)

FairSpec ==
    /\ Spec /\ WF_vars(MigrateClickhouse)
    /\ \A p \in Proc : WF_vars(ScriptStep(p))
    /\ \A c \in Command : WF_vars(Due(c) /\ \E p \in Proc : Invoke(p, c))

(***************************************************************************)
(* Properties.                                                              *)
(***************************************************************************)
Inventories == [base : SUBSET Base, views : SUBSET View, kafka : SUBSET Kafka,
                alias : SUBSET Alias, structural : Extent, consumers : Extent,
                drift : 0..MaxUpsets]

Journals == [phase : Phase \cup {"absent", "torn"}, history : Nat, tables : Inventories,
             destination : Inventories, verified : Inventories]

TypeOK ==
    /\ pc \in [Proc -> {"idle", "check", "enter", "detach", "stop", "drop", "move",
                       "structural", "start", "flush", "sent", "retire", "leave"}]
    /\ cmd \in [Proc -> Command] /\ lostBy \in [Proc -> BOOLEAN]
    /\ todo \in [Proc -> SUBSET (Kafka \cup View \cup Base \cup Alias)]
    /\ mem \in [Proc -> Journals] /\ file \in Journals /\ local \in Journals
    /\ completed \subseteq attempted /\ attempted \subseteq Command
    /\ Inventory \in Inventories
    /\ sends \subseteq Alias /\ queue \in [Alias -> 0..MaxQueue]
    /\ foreign \in Bindings /\ applied \in BOOLEAN /\ hist \in Nat
    /\ furthest \in Phase \cup {"absent"}

Reached(phases) == furthest \in phases
Consuming == {"starting_consumers", "consumers_complete", "draining", "drained",
              "verified", "finalizing", "finalized"}

\* "Never drop a nonempty queue": whatever dies, restarts or is started out of
\* order, an alias that disappears held no block.
NoQueuedBlockLost ==
    [][\A a \in alias \ alias' : queue[a] = 0]_vars

\* What a journal says is true of the tables.
TrueOfTables(j) ==
    /\ j.phase \in Consuming \cup {"structural_complete"} =>
            kafka = {} /\ views = {} /\ base = {} /\ structural = "full"
    /\ j.phase \in Consuming \ {"starting_consumers"} => consumers = "full"
    /\ j.phase \in {"draining", "drained", "verified", "finalizing", "finalized"} => applied
    /\ j.phase = "finalized" => alias = {}

\* Whichever copy a specialist reads after an interruption, the pod's or the
\* runner's and however old, it claims nothing the cluster lacks.  And nothing is
\* begun that was not journalled before: at some time, since a later copy may have
\* replaced that record (CheckpointsOutlive).
JournalTruthful ==
    /\ TrueOfTables(file) /\ TrueOfTables(local)
    /\ kafka # Kafka => ~Reached({"absent", "snapshotted"})
    /\ consumers # "none" => Reached(Consuming)
    /\ alias # Alias => Reached({"finalizing", "finalized"})

\* "Old Distributed sends remain STOPPED": from the move of the storage to the
\* complete migration no queued block is delivered (if no server restarts).
QueuesHeldUntilMigrated ==
    [][(\E a \in Alias \ foreign : queue'[a] < queue[a]) /\ base # Base /\ restarts = 0
        => applied]_vars

\* Aliases bound elsewhere are never flushed nor dropped by the repair.
ForeignQueuesKept ==
    foreign # {} => /\ alias = Alias
                    /\ ~Reached({"draining", "drained", "verified", "finalizing", "finalized"})

\* "Recovery checkpoints must outlive the temporary pod, including failed
\* phases": the last phase journalled is on record in the pod or with the runner.
CheckpointsOutlive ==
    furthest \in {file.phase, local.phase}

\* Followed in that order, with nothing failing, every queue bound for the moved
\* storage and the schema left alone, the repair comes to its end.
RepairCompletes ==
    foreign = {} /\ [](DocumentedOrder /\ drift = 0) => <>Reached({"finalized"})
=============================================================================
