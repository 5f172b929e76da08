--------------------------- MODULE LogsRepairProofs ---------------------------
(***************************************************************************)
(* The repair of the legacy logs keeps every queued block and never lies in *)
(* its journal, for any number of tables, aliases, blocks, scripts that run *)
(* at the same time, deaths and restarts.                                   *)
(*                                                                          *)
(* The runner starts a phase once, the journal is rewritten by the phase    *)
(* whose turn it is only, and each of its phases is entered from the one    *)
(* before: so a process that has passed its check is alone with the tables, *)
(* however many scripts the runner has lost and whichever copy of the       *)
(* journal it puts back.                                                    *)
(***************************************************************************)
EXTENDS LogsRepair, TLAPS

\* The order in which the phases are journalled; 0 when there is nothing to read.
Rank(ph) ==
    CASE ph = "snapshotted"         -> 1
      [] ph = "reconciling"         -> 2
      [] ph = "structural_complete" -> 3
      [] ph = "starting_consumers"  -> 4
      [] ph = "consumers_complete"  -> 5
      [] ph = "draining"            -> 6
      [] ph = "drained"             -> 7
      [] ph = "verified"            -> 8
      [] ph = "finalizing"          -> 9
      [] ph = "finalized"           -> 10
      [] OTHER                      -> 0

\* The first phase a command journals.
FirstRank(c) ==
    CASE c = "snapshot"  -> 1
      [] c = "reconcile" -> 2
      [] c = "consumers" -> 4
      [] c = "drain"     -> 6
      [] c = "verify"    -> 8
      [] c = "finalize"  -> 9

Typed == TypeOK /\ restarts \in Nat

Past(p) == pc[p] \notin {"idle", "check"}
At(p, ls, c) == pc[p] \in ls /\ cmd[p] = c

\* Which command a step belongs to.
Flow(p) ==
    /\ pc[p] # "idle" => cmd[p] \in attempted
    /\ pc[p] \in {"detach", "stop", "drop", "move", "structural"} => cmd[p] = "reconcile"
    /\ pc[p] = "start" => cmd[p] = "consumers"
    /\ pc[p] \in {"flush", "sent"} => cmd[p] = "drain"
    /\ pc[p] = "retire" => cmd[p] = "finalize"
    /\ pc[p] = "enter" => cmd[p] \in {"reconcile", "consumers", "drain", "finalize"}

\* Before its check a command's phases have not been reached; after it, it is
\* the command whose turn it is.
InTurn(p) ==
    /\ pc[p] = "check" => Rank(furthest) < FirstRank(cmd[p])
    /\ Past(p) /\ cmd[p] # "snapshot" =>
          /\ mem[p].phase = furthest
          /\ Rank(furthest) = IF pc[p] = "enter" \/ cmd[p] = "verify" THEN FirstRank(cmd[p]) - 1
                              ELSE FirstRank(cmd[p])

ProcOK(p) == Flow(p) /\ InTurn(p)

\* Each command runs once.
Distinct == \A p, q \in Proc : pc[p] # "idle" /\ pc[q] # "idle" /\ cmd[p] = cmd[q] => p = q

\* No copy of the journal is ahead of the last phase written.
Journalled ==
    /\ \A p \in Proc : Rank(mem[p].phase) <= Rank(furthest)
    /\ Rank(file.phase) <= Rank(furthest) /\ Rank(local.phase) <= Rank(furthest)
    /\ \A c \in Command : FirstRank(c) <= Rank(furthest) => c \in attempted
    /\ furthest # "absent" => file.phase # "absent"

Control == (\A p \in Proc : ProcOK(p)) /\ Distinct /\ Journalled

\* What the process whose turn it is has done to the tables so far.
Done(p) ==
    /\ pc[p] = "detach" => kafka \subseteq todo[p]
    /\ pc[p] \in {"stop", "drop", "move", "structural"} \/ At(p, {"leave"}, "reconcile") => kafka = {}
    /\ pc[p] = "stop" /\ restarts = 0 => sends \subseteq todo[p]
    /\ pc[p] \in {"drop", "move"} /\ restarts = 0 => sends = {}
    /\ pc[p] = "drop" => views \subseteq todo[p]
    /\ pc[p] \in {"move", "structural"} \/ At(p, {"leave"}, "reconcile") => views = {}
    /\ pc[p] = "move" => base \subseteq todo[p]
    /\ pc[p] = "structural" \/ At(p, {"leave"}, "reconcile") => base = {}
    /\ At(p, {"leave"}, "reconcile") => structural = "full"
    /\ At(p, {"leave"}, "consumers") => consumers = "full"
    /\ Past(p) /\ cmd[p] = "drain" => applied /\ foreign = {}
    /\ Past(p) /\ cmd[p] = "finalize" => QueuesEmpty
    /\ pc[p] = "retire" => alias \subseteq todo[p]
    /\ At(p, {"leave"}, "finalize") => alias = {}

\* What a phase on record says of the tables, and the tables of the phase.
Recorded ==
    LET r == Rank(furthest)
    IN /\ r >= 3 => kafka = {} /\ views = {} /\ base = {} /\ structural = "full"
       /\ r >= 5 => consumers = "full"
       /\ r >= 6 => applied /\ foreign = {}
       /\ r >= 10 => alias = {}
       /\ kafka # Kafka => r >= 2
       /\ consumers # "none" => r >= 4
       /\ alias # Alias => r >= 9
       /\ base # Base /\ restarts = 0 /\ ~applied => sends = {}

Inv == Typed /\ Control /\ (\A p \in Proc : Done(p)) /\ Recorded

-----------------------------------------------------------------------------
(***************************************************************************)
(* Types.                                                                   *)
(***************************************************************************)
Labels == {"idle", "check", "enter", "detach", "stop", "drop", "move",
           "structural", "start", "flush", "sent", "retire", "leave"}

ProcTyped ==
    /\ pc \in [Proc -> Labels] /\ cmd \in [Proc -> Command] /\ lostBy \in [Proc -> BOOLEAN]
    /\ todo \in [Proc -> SUBSET (Kafka \cup View \cup Base \cup Alias)]
    /\ mem \in [Proc -> Journals]

RepairTyped ==
    /\ completed \subseteq attempted /\ attempted \subseteq Command
    /\ file \in Journals /\ local \in Journals
    /\ furthest \in Phase \cup {"absent"}

WorldTyped ==
    /\ base \subseteq Base /\ views \subseteq View /\ kafka \subseteq Kafka /\ alias \subseteq Alias
    /\ structural \in Extent /\ consumers \in Extent /\ drift \in 0..MaxUpsets
    /\ sends \subseteq Alias /\ queue \in [Alias -> 0..MaxQueue]
    /\ foreign \in Bindings /\ applied \in BOOLEAN /\ hist \in Nat /\ restarts \in Nat

\* The types of the processes, the journals and the world make up TypeOK.
LEMMA TypeParts ==
    /\ Typed <=> ProcTyped /\ RepairTyped /\ WorldTyped
    /\ Typed' <=> ProcTyped' /\ RepairTyped' /\ WorldTyped'
<1> DEFINE Tables == /\ base \subseteq Base /\ views \subseteq View /\ kafka \subseteq Kafka
                     /\ alias \subseteq Alias /\ structural \in Extent /\ consumers \in Extent
                     /\ drift \in 0..MaxUpsets
<1>1. Inventory \in Inventories <=> Tables
  BY DEF Inventory, Inventories
<1>2. Typed <=> ProcTyped /\ RepairTyped /\ WorldTyped
  BY <1>1 DEF Typed, TypeOK, ProcTyped, RepairTyped, WorldTyped, Labels
<1>3. (Inventory \in Inventories)' <=> Tables'
  BY DEF Inventory, Inventories
<1>4. Typed' <=> ProcTyped' /\ RepairTyped' /\ WorldTyped'
  BY <1>3 DEF Typed, TypeOK, ProcTyped, RepairTyped, WorldTyped, Labels
<1>5. QED
  BY <1>2, <1>4

\* The journals the script can find or write before it wrote anything.
LEMMA BlankJournals == NoJournal \in Journals /\ Torn \in Journals
<1>1. NoInventory \in Inventories
  BY SetsAssumption DEF NoInventory, Inventories, Extent
<1>2. QED
  BY <1>1 DEF NoJournal, Torn, Journals

\* What the phase writes at its end is a journal.
LEMMA LeftIsJournal ==
    ASSUME WorldTyped, NEW c \in Command, NEW j \in Journals
    PROVE  Left(c, j) \in Journals /\ Left(c, j).phase \in Phase
<1>1. Inventory \in Inventories
  BY DEF WorldTyped, Inventory, Inventories
<1>2. c = "snapshot" => Left(c, j) \in Journals /\ Left(c, j).phase \in Phase
  BY <1>1, BlankJournals DEF Left, Journals, Phase, WorldTyped, NoJournal
<1>3. c # "snapshot" => Left(c, j) \in Journals /\ Left(c, j).phase \in Phase
  BY <1>1 DEF Left, Journals, Phase, Command
<1>4. QED
  BY <1>2, <1>3

\* The end of a process leaves everything typed.
LEMMA ExitTyped ==
    ASSUME ProcTyped, local \in Journals, NEW p \in Proc, NEW j \in Journals, Exit(p, j)
    PROVE  ProcTyped' /\ local' \in Journals
<1>1. pc' \in [Proc -> Labels] /\ cmd' \in [Proc -> Command] /\ lostBy' \in [Proc -> BOOLEAN]
  BY DEF ProcTyped, Exit, Labels, Command
<1>2. todo' \in [Proc -> SUBSET (Kafka \cup View \cup Base \cup Alias)]
  BY DEF ProcTyped, Exit
<1>3. mem' \in [Proc -> Journals]
  BY BlankJournals DEF ProcTyped, Exit
<1>4. local' \in Journals
  BY DEF Exit
<1>5. QED
  BY <1>1, <1>2, <1>3, <1>4 DEF ProcTyped

\* Going to another step keeps the process typed.
LEMMA GotoTyped ==
    ASSUME ProcTyped, NEW p \in Proc, NEW l \in Labels, Goto(p, l), mem' \in [Proc -> Journals]
    PROVE  ProcTyped'
<1>1. Loop(l) \subseteq Kafka \cup View \cup Base \cup Alias
  BY DEF Loop, Labels
<1>2. QED
  BY <1>1 DEF ProcTyped, Goto

\* Every step keeps the types.
LEMMA TypedStep == Typed /\ (\A p \in Proc : Flow(p)) /\ [Next]_vars => Typed'
<1> SUFFICES ASSUME ProcTyped, RepairTyped, WorldTyped, \A p \in Proc : Flow(p), [Next]_vars
             PROVE  ProcTyped' /\ RepairTyped' /\ WorldTyped'
  BY TypeParts
<1> USE DEF procVars, journalVars, tableVars, ddlVars, queueVars, otherVars
<1>1. CASE UNCHANGED vars
  <2>1. ProcTyped'
    BY <1>1 DEF vars, ProcTyped
  <2>2. RepairTyped'
    BY <1>1 DEF vars, RepairTyped
  <2>3. WorldTyped'
    BY <1>1 DEF vars, WorldTyped
  <2>4. QED
    BY <2>1, <2>2, <2>3
<1>2. ASSUME NEW p \in Proc, NEW c \in Command, Invoke(p, c)
      PROVE  ProcTyped' /\ RepairTyped' /\ WorldTyped'
  <2>1. WorldTyped'
    BY <1>2 DEF Invoke, WorldTyped
  <2>2. file' \in Journals
    BY <1>2 DEF Invoke, RepairTyped
  <2>3. RepairTyped'
    BY <1>2, <2>2 DEF Invoke, RepairTyped
  <2>4. ProcTyped'
    BY <1>2, <2>2 DEF Invoke, ProcTyped, Labels
  <2>5. QED
    BY <2>1, <2>3, <2>4
<1>3. ASSUME NEW p \in Proc, Check(p)
      PROVE  ProcTyped' /\ RepairTyped' /\ WorldTyped'
  <2>1. WorldTyped' /\ RepairTyped'
    BY <1>3 DEF Check, Goto, WorldTyped, RepairTyped
  <2>2. Entry(cmd[p]) \in Labels
    BY DEF Entry, Labels
  <2>3. ProcTyped'
    BY <1>3, <2>2, GotoTyped DEF Check, ProcTyped
  <2>4. QED
    BY <2>1, <2>3
<1>4. ASSUME NEW p \in Proc, Enter(p)
      PROVE  ProcTyped' /\ RepairTyped' /\ WorldTyped'
  <2>1. WorldTyped'
    BY <1>4 DEF Enter, Goto, WorldTyped
  <2>2. cmd[p] \in {"reconcile", "consumers", "drain", "finalize"}
    BY <1>4 DEF Enter, Flow
  <2>3. PICK ph \in Phase, l \in Labels :
           Goto(p, l) /\ Save(p, [mem[p] EXCEPT !.phase = ph])
    BY <1>4, <2>2 DEF Enter, Phase, Labels
  <2>4. [mem[p] EXCEPT !.phase = ph] \in Journals
    BY DEF ProcTyped, Journals
  <2>5. mem' \in [Proc -> Journals]
    BY <2>3, <2>4 DEF ProcTyped, Save
  <2>6. [mem[p] EXCEPT !.phase = ph].phase = ph
    BY DEF ProcTyped, Journals
  <2>7. RepairTyped'
    BY <2>3, <2>4, <2>6 DEF RepairTyped, Save
  <2>8. ProcTyped'
    BY <2>3, <2>5, GotoTyped
  <2>9. QED
    BY <2>1, <2>7, <2>8
<1>5. ASSUME NEW p \in Proc, LoopDone(p)
      PROVE  ProcTyped' /\ RepairTyped' /\ WorldTyped'
  <2>1. WorldTyped' /\ RepairTyped'
    BY <1>5 DEF LoopDone, Goto, WorldTyped, RepairTyped
  <2>2. After(pc[p]) \in Labels
    BY <1>5 DEF LoopDone, After, Labels
  <2>3. ProcTyped'
    BY <1>5, <2>2, GotoTyped DEF LoopDone, ProcTyped
  <2>4. QED
    BY <2>1, <2>3
<1>6. ASSUME NEW p \in Proc, RunStructural(p) \/ RunConsumers(p) \/ CheckSent(p)
      PROVE  ProcTyped' /\ RepairTyped' /\ WorldTyped'
  <2>1. WorldTyped' /\ RepairTyped'
    BY <1>6 DEF RunStructural, RunConsumers, CheckSent, Goto, WorldTyped, RepairTyped, Extent
  <2>2. "leave" \in Labels
    BY DEF Labels
  <2>3. mem' = mem /\ (Goto(p, "leave") \/ UNCHANGED <<pc, cmd, todo, lostBy>>)
    BY <1>6 DEF RunStructural, RunConsumers, CheckSent
  <2>4. ProcTyped'
    BY <2>2, <2>3, GotoTyped DEF ProcTyped
  <2>5. QED
    BY <2>1, <2>4
<1>7. ASSUME NEW p \in Proc, Leave(p)
      PROVE  ProcTyped' /\ RepairTyped' /\ WorldTyped'
  <2>1. WorldTyped'
    BY <1>7 DEF Leave, WorldTyped
  <2>2. cmd[p] \in Command /\ mem[p] \in Journals
    BY DEF ProcTyped
  <2>3. file' \in Journals
    BY <1>7, <2>2, LeftIsJournal DEF Leave
  <2>4. ProcTyped' /\ local' \in Journals
    BY <1>7, <2>3, ExitTyped DEF Leave, RepairTyped
  <2>5. Left(cmd[p], mem[p]).phase \in Phase
    BY <2>2, LeftIsJournal
  <2>6. cmd[p] \in attempted
    BY <1>7 DEF Leave, Flow
  <2>7. RepairTyped'
    BY <1>7, <2>3, <2>4, <2>5, <2>6 DEF Leave, RepairTyped
  <2>8. QED
    BY <2>1, <2>4, <2>7
<1>8. ASSUME NEW p \in Proc, Refuse(p) \/ Die(p)
      PROVE  ProcTyped' /\ RepairTyped' /\ WorldTyped'
  <2>1. WorldTyped'
    BY <1>8 DEF Refuse, Die, WorldTyped
  <2>2. file' \in Journals
    BY <1>8, BlankJournals DEF Refuse, Die, RepairTyped
  <2>3. ProcTyped' /\ local' \in Journals
    <3>1. Exit(p, file')
      BY <1>8 DEF Refuse, Die
    <3>2. QED
      BY <2>2, <3>1, ExitTyped DEF RepairTyped
  <2>4. RepairTyped'
    BY <1>8, <2>2, <2>3 DEF Refuse, Die, RepairTyped
  <2>5. QED
    BY <2>1, <2>3, <2>4
<1>9. ASSUME NEW p \in Proc, Disconnect(p)
      PROVE  ProcTyped' /\ RepairTyped' /\ WorldTyped'
  BY <1>9 DEF Disconnect, ProcTyped, RepairTyped, WorldTyped
<1>10. ASSUME NEW p \in Proc, NEW x, NEW l \in Labels, Each(p, l, x),
              UNCHANGED <<structural, consumers>>,
              base' \subseteq base, views' \subseteq views, kafka' \subseteq kafka,
              alias' \subseteq alias, sends' \subseteq Alias, queue' \in [Alias -> 0..MaxQueue]
       PROVE  ProcTyped' /\ RepairTyped' /\ WorldTyped'
  <2>1. ProcTyped'
    BY <1>10 DEF Each, ProcTyped
  <2>2. RepairTyped'
    BY <1>10 DEF Each, RepairTyped
  <2>3. WorldTyped'
    BY <1>10 DEF Each, WorldTyped
  <2>4. QED
    BY <2>1, <2>2, <2>3
<1>11. ASSUME MigrateClickhouse \/ ChangeSchema \/ RestartClickHouse
       PROVE  ProcTyped' /\ RepairTyped' /\ WorldTyped'
  <2>1. ProcTyped' /\ RepairTyped'
    BY <1>11 DEF MigrateClickhouse, ChangeSchema, RestartClickHouse, ProcTyped, RepairTyped
  <2>2. WorldTyped'
    <3>1. MaxUpsets \in Nat
      BY SetsAssumption
    <3>2. CASE MigrateClickhouse
      BY <3>2 DEF MigrateClickhouse, WorldTyped
    <3>3. CASE ChangeSchema
      BY <3>1, <3>3 DEF ChangeSchema, WorldTyped
    <3>4. CASE RestartClickHouse
      BY <3>4 DEF RestartClickHouse, WorldTyped
    <3>5. QED
      BY <1>11, <3>2, <3>3, <3>4
  <2>3. QED
    BY <2>1, <2>2
<1>12. ASSUME NEW a \in Alias, Deliver(a) \/ Enqueue(a)
       PROVE  ProcTyped' /\ RepairTyped' /\ WorldTyped'
  <2>1. ProcTyped' /\ RepairTyped'
    BY <1>12 DEF Deliver, Enqueue, ProcTyped, RepairTyped
  <2>2. queue' \in [Alias -> 0..MaxQueue]
    BY <1>12, SetsAssumption DEF Deliver, Enqueue, WorldTyped
  <2>3. WorldTyped'
    BY <1>12, <2>2 DEF Deliver, Enqueue, WorldTyped
  <2>4. QED
    BY <2>1, <2>3
<1>13. ASSUME NEW p \in Proc,
              \/ \E x \in Kafka : Detach(p, x)
              \/ \E x \in View : DropView(p, x)
              \/ \E x \in Base : Move(p, x)
              \/ \E x \in Alias : StopSends(p, x) \/ Flush(p, x) \/ Retire(p, x)
       PROVE  ProcTyped' /\ RepairTyped' /\ WorldTyped'
  <2> DEFINE Kept == /\ UNCHANGED <<structural, consumers>>
                     /\ base' \subseteq base /\ views' \subseteq views /\ kafka' \subseteq kafka
                     /\ alias' \subseteq alias /\ sends' \subseteq Alias
                     /\ queue' \in [Alias -> 0..MaxQueue]
             Good == ProcTyped' /\ RepairTyped' /\ WorldTyped'
  <2>1. ASSUME NEW x \in Kafka, Detach(p, x)
        PROVE  Good
    <3>1. Each(p, "detach", x) /\ Kept
      BY <2>1 DEF Detach, WorldTyped
    <3>2. "detach" \in Labels
      BY DEF Labels
    <3>3. QED
      BY <3>1, <3>2, <1>10
  <2>2. ASSUME NEW x \in View, DropView(p, x)
        PROVE  Good
    <3>1. Each(p, "drop", x) /\ Kept
      BY <2>2 DEF DropView, WorldTyped
    <3>2. "drop" \in Labels
      BY DEF Labels
    <3>3. QED
      BY <3>1, <3>2, <1>10
  <2>3. ASSUME NEW x \in Base, Move(p, x)
        PROVE  Good
    <3>1. Each(p, "move", x) /\ Kept
      BY <2>3 DEF Move, WorldTyped
    <3>2. "move" \in Labels
      BY DEF Labels
    <3>3. QED
      BY <3>1, <3>2, <1>10
  <2>4. ASSUME NEW x \in Alias, StopSends(p, x)
        PROVE  Good
    <3>1. Each(p, "stop", x) /\ Kept
      BY <2>4 DEF StopSends, WorldTyped
    <3>2. "stop" \in Labels
      BY DEF Labels
    <3>3. QED
      BY <3>1, <3>2, <1>10
  <2>5. ASSUME NEW x \in Alias, Flush(p, x)
        PROVE  Good
    <3>1. Each(p, "flush", x) /\ Kept
      BY <2>5, SetsAssumption DEF Flush, WorldTyped
    <3>2. "flush" \in Labels
      BY DEF Labels
    <3>3. QED
      BY <3>1, <3>2, <1>10
  <2>6. ASSUME NEW x \in Alias, Retire(p, x)
        PROVE  Good
    <3>1. Each(p, "retire", x) /\ Kept
      BY <2>6, SetsAssumption DEF Retire, WorldTyped
    <3>2. "retire" \in Labels
      BY DEF Labels
    <3>3. QED
      BY <3>1, <3>2, <1>10
  <2>7. QED
    BY <1>13, <2>1, <2>2, <2>3, <2>4, <2>5, <2>6
<1>14. CASE Next
  BY <1>14, <1>2, <1>3, <1>4, <1>5, <1>6, <1>7, <1>8, <1>9, <1>11, <1>12, <1>13
  DEF Next, ScriptStep
<1>15. QED
  BY <1>1, <1>14

-----------------------------------------------------------------------------
(***************************************************************************)
(* Whose turn it is.                                                        *)
(***************************************************************************)
\* The phases are numbered in the order they are journalled, each once.
LEMMA Ranks ==
    /\ \A ph : Rank(ph) \in 0..10
    /\ \A ph \in Phase : Rank(ph) > 0
    /\ \A x, y \in Phase : Rank(x) = Rank(y) => x = y
    /\ Rank("absent") = 0 /\ Rank("torn") = 0
<1>1. \A ph : Rank(ph) \in 0..10
  BY DEF Rank
<1>2. Rank("absent") = 0 /\ Rank("torn") = 0
  BY DEF Rank
<1>3. /\ Rank("snapshotted") = 1 /\ Rank("reconciling") = 2 /\ Rank("structural_complete") = 3
      /\ Rank("starting_consumers") = 4 /\ Rank("consumers_complete") = 5
      /\ Rank("draining") = 6 /\ Rank("drained") = 7 /\ Rank("verified") = 8
      /\ Rank("finalizing") = 9 /\ Rank("finalized") = 10
  BY DEF Rank
<1>4. \A ph \in Phase : Rank(ph) > 0
  BY <1>3 DEF Phase
<1>5. ASSUME NEW x \in Phase, NEW y \in Phase, Rank(x) = Rank(y)
      PROVE  x = y
  <2>1. CASE Rank(x) <= 5
    BY <1>3, <1>5, <2>1 DEF Phase
  <2>2. CASE Rank(x) > 5
    BY <1>3, <1>5, <2>2 DEF Phase
  <2>3. QED
    BY <1>1, <2>1, <2>2
<1>6. QED
  BY <1>1, <1>2, <1>4, <1>5

\* The first phases of two commands differ.
LEMMA FirstRanks ==
    /\ FirstRank("snapshot") = 1 /\ FirstRank("reconcile") = 2 /\ FirstRank("consumers") = 4
    /\ FirstRank("drain") = 6 /\ FirstRank("verify") = 8 /\ FirstRank("finalize") = 9
  BY DEF FirstRank

\* Two processes past their check cannot both have the turn, and while one that
\* has it is about to journal a phase no other waits for the same one.
LEMMA OneActs ==
    ASSUME Typed, Control, NEW p \in Proc, NEW q \in Proc, p # q, Past(p),
           cmd[p] # "snapshot"
    PROVE  /\ Past(q) => cmd[q] = "snapshot"
           /\ pc[q] = "check" /\ pc[p] \in {"enter", "leave"} => Rank(furthest) + 1 < FirstRank(cmd[q])
<1>1. cmd[p] \in Command /\ cmd[q] \in Command /\ Rank(furthest) \in Nat
  BY Ranks DEF Typed, TypeOK
<1>2. pc[q] # "idle" => cmd[q] # cmd[p]
  BY DEF Control, Distinct, Past
<1>3. InTurn(p) /\ InTurn(q) /\ Flow(p) /\ Flow(q)
  BY DEF Control, ProcOK
<1>4. Past(q) => cmd[q] = "snapshot"
  <2> SUFFICES ASSUME Past(q), cmd[q] # "snapshot" PROVE FALSE
    OBVIOUS
  <2>1. /\ cmd[p] \in {"reconcile", "consumers", "drain", "verify", "finalize"}
        /\ cmd[q] \in {"reconcile", "consumers", "drain", "verify", "finalize"}
    BY <1>1 DEF Command
  <2>2. /\ pc[p] = "enter" => cmd[p] # "verify"
        /\ pc[q] = "enter" => cmd[q] # "verify"
    BY <1>3 DEF Flow
  <2>3. Rank(furthest) = IF pc[p] = "enter" \/ cmd[p] = "verify" THEN FirstRank(cmd[p]) - 1
                         ELSE FirstRank(cmd[p])
    BY <1>3 DEF InTurn
  <2>4. Rank(furthest) = IF pc[q] = "enter" \/ cmd[q] = "verify" THEN FirstRank(cmd[q]) - 1
                         ELSE FirstRank(cmd[q])
    BY <1>3 DEF InTurn
  <2>5. cmd[p] # cmd[q]
    BY <1>2 DEF Past
  <2>6. QED
    BY <1>1, <2>1, <2>2, <2>3, <2>4, <2>5, FirstRanks
<1>5. pc[q] = "check" /\ pc[p] \in {"enter", "leave"} => Rank(furthest) + 1 < FirstRank(cmd[q])
  <2> SUFFICES ASSUME pc[q] = "check", pc[p] \in {"enter", "leave"}
               PROVE  Rank(furthest) + 1 < FirstRank(cmd[q])
    OBVIOUS
  <2>1. cmd[p] \in {"reconcile", "consumers", "drain", "verify", "finalize"}
    BY <1>1 DEF Command
  <2>2. Rank(furthest) = IF pc[p] = "enter" \/ cmd[p] = "verify" THEN FirstRank(cmd[p]) - 1
                         ELSE FirstRank(cmd[p])
    BY <1>3 DEF InTurn
  <2>3. Rank(furthest) < FirstRank(cmd[q]) /\ cmd[q] # cmd[p]
    BY <1>2, <1>3 DEF InTurn
  <2>4. cmd[q] \in {"snapshot", "reconcile", "consumers", "drain", "verify", "finalize"}
    BY <1>1 DEF Command
  <2>5. QED
    BY <1>1, <2>1, <2>2, <2>3, <2>4, FirstRanks
<1>6. QED
  BY <1>4, <1>5

\* A step that touches neither a process's place, nor the journals but for the
\* runner's copy, changes nobody's turn.
LEMMA QuietControl ==
    ASSUME Control, UNCHANGED <<pc, cmd, mem, file, attempted, furthest>>, local' \in {local, file}
    PROVE  Control'
<1>1. \A p \in Proc : ProcOK(p)'
  BY DEF Control, ProcOK, Flow, InTurn, Past
<1>2. Distinct'
  BY DEF Control, Distinct
<1>3. Journalled'
  BY DEF Control, Journalled
<1>4. QED
  BY <1>1, <1>2, <1>3 DEF Control

\* A process past its check that goes on without journalling keeps its turn.
LEMMA WalkControl ==
    ASSUME Typed, Control, NEW p \in Proc, NEW l, pc' = [pc EXCEPT ![p] = l],
           UNCHANGED <<cmd, mem, file, local, attempted, furthest>>,
           Past(p), pc[p] # "enter", l \notin {"idle", "check", "enter"}, Flow(p)'
    PROVE  Control'
<1>1. pc'[p] = l /\ \A q \in Proc \ {p} : pc'[q] = pc[q]
  BY DEF Typed, TypeOK
<1>2. \A q \in Proc : ProcOK(q)'
  <2> TAKE q \in Proc
  <2>1. CASE q = p
    BY <1>1, <2>1 DEF Control, ProcOK, InTurn, Past
  <2>2. CASE q # p
    BY <1>1, <2>2 DEF Control, ProcOK, Flow, InTurn, Past
  <2>3. QED
    BY <2>1, <2>2
<1>3. Distinct'
  BY <1>1 DEF Control, Distinct, Past
<1>4. Journalled'
  BY DEF Control, Journalled
<1>5. QED
  BY <1>2, <1>3, <1>4 DEF Control

\* A process that is gone leaves every turn as it is, even with a torn journal.
LEMMA GoneControl ==
    ASSUME Typed, Control, NEW p \in Proc, Exit(p, file'), file' \in {file, Torn},
           UNCHANGED <<attempted, furthest>>
    PROVE  Control'
<1>1. /\ pc'[p] = "idle" /\ mem'[p] = NoJournal
      /\ \A q \in Proc \ {p} : pc'[q] = pc[q] /\ cmd'[q] = cmd[q] /\ mem'[q] = mem[q]
  BY DEF Exit, Typed, TypeOK
<1>2. \A q \in Proc : ProcOK(q)'
  <2> TAKE q \in Proc
  <2>1. CASE q = p
    BY <1>1, <2>1 DEF Control, ProcOK, Flow, InTurn, Past
  <2>2. CASE q # p
    BY <1>1, <2>2 DEF Control, ProcOK, Flow, InTurn, Past
  <2>3. QED
    BY <2>1, <2>2
<1>3. Distinct'
  BY <1>1 DEF Control, Distinct
<1>4. Journalled'
  <2>1. NoJournal.phase = "absent" /\ Torn.phase = "torn"
    BY DEF NoJournal, Torn
  <2>2. \A q \in Proc : Rank(mem'[q].phase) <= Rank(furthest)
    BY <1>1, <2>1, Ranks DEF Control, Journalled
  <2>3. Rank(file'.phase) <= Rank(furthest) /\ Rank(local'.phase) <= Rank(furthest)
    BY <2>1, Ranks DEF Control, Journalled, Exit
  <2>4. furthest # "absent" => file'.phase # "absent"
    BY <2>1 DEF Control, Journalled
  <2>5. QED
    BY <2>2, <2>3, <2>4 DEF Control, Journalled
<1>5. QED
  BY <1>2, <1>3, <1>4 DEF Control

\* The runner starts a command that nobody has started.
LEMMA InvokeControl ==
    ASSUME Typed, Control, NEW p \in Proc, NEW c \in Command, Invoke(p, c)
    PROVE  Control'
<1>1. /\ pc'[p] = "check" /\ cmd'[p] = c /\ mem'[p] = file'
      /\ \A q \in Proc \ {p} : pc'[q] = pc[q] /\ cmd'[q] = cmd[q] /\ mem'[q] = mem[q]
  BY DEF Invoke, Typed, TypeOK
<1>2. /\ attempted' = attempted \cup {c} /\ c \notin attempted /\ furthest' = furthest
      /\ local' = local /\ file' = IF local.phase = "absent" THEN file ELSE local
  BY DEF Invoke
<1>3. \A q \in Proc \ {p} : ProcOK(q)'
  BY <1>1, <1>2 DEF Control, ProcOK, Flow, InTurn, Past
<1>4. Rank(furthest) < FirstRank(c)
  BY <1>2, Ranks, FirstRanks DEF Control, Journalled, Command
<1>5. ProcOK(p)'
  BY <1>1, <1>2, <1>4 DEF ProcOK, Flow, InTurn, Past
<1>6. Distinct'
  BY <1>1, <1>2 DEF Control, Distinct, ProcOK, Flow
<1>7. Journalled'
  BY <1>1, <1>2 DEF Control, Journalled
<1>8. QED
  BY <1>3, <1>5, <1>6, <1>7 DEF Control

\* The check lets a process through only when the last phase journalled is the
\* one before its own.
LEMMA CheckControl ==
    ASSUME Typed, Control, NEW p \in Proc, Check(p)
    PROVE  Control'
<1>1. /\ pc[p] = "check" /\ pc'[p] = Entry(cmd[p]) /\ \A q \in Proc \ {p} : pc'[q] = pc[q]
      /\ UNCHANGED <<cmd, mem, file, local, attempted, furthest>>
  BY DEF Check, Goto, Typed, TypeOK, journalVars
<1>2. cmd[p] \in {"snapshot", "reconcile", "consumers", "drain", "verify", "finalize"}
  BY DEF Typed, TypeOK, Command
<1>3. Rank(furthest) < FirstRank(cmd[p]) /\ Rank(mem[p].phase) <= Rank(furthest)
  BY <1>1 DEF Control, ProcOK, InTurn, Journalled
<1>4. ASSUME cmd[p] # "snapshot"
      PROVE  mem[p].phase = furthest /\ Rank(furthest) = FirstRank(cmd[p]) - 1
  <2>1. /\ cmd[p] = "reconcile" => mem[p].phase = "snapshotted"
        /\ cmd[p] = "consumers" => mem[p].phase = "structural_complete"
        /\ cmd[p] = "drain" => mem[p].phase = "consumers_complete"
        /\ cmd[p] = "verify" => mem[p].phase \in {"drained", "verified", "finalized"}
        /\ cmd[p] = "finalize" => mem[p].phase = "verified"
    BY DEF Check, Admits
  <2>2. mem[p].phase \in Phase
    BY <1>2, <1>4, <2>1 DEF Phase
  <2>3. /\ Rank("snapshotted") = 1 /\ Rank("structural_complete") = 3
        /\ Rank("consumers_complete") = 5 /\ Rank("drained") = 7
        /\ Rank("verified") = 8 /\ Rank("finalized") = 10
    BY DEF Rank
  <2>4. Rank(furthest) \in Nat
    BY Ranks
  <2>5. Rank(mem[p].phase) = Rank(furthest) /\ Rank(furthest) = FirstRank(cmd[p]) - 1
    BY <1>2, <1>3, <1>4, <2>1, <2>3, <2>4, FirstRanks
  <2>6. furthest \in Phase
    BY <2>2, <2>5, Ranks DEF Typed, TypeOK
  <2>7. QED
    BY <2>2, <2>5, <2>6, Ranks
<1>5. ProcOK(p)'
  <2>1. Flow(p)'
    BY <1>1, <1>2 DEF Control, ProcOK, Flow, Entry
  <2>2. InTurn(p)'
    BY <1>1, <1>2, <1>4 DEF InTurn, Past, Entry
  <2>3. QED
    BY <2>1, <2>2 DEF ProcOK
<1>6. \A q \in Proc \ {p} : ProcOK(q)'
  BY <1>1 DEF Control, ProcOK, Flow, InTurn, Past
<1>7. Distinct'
  BY <1>1 DEF Control, Distinct
<1>8. Journalled'
  BY <1>1 DEF Control, Journalled
<1>9. QED
  BY <1>5, <1>6, <1>7, <1>8 DEF Control

\* A process that has the turn journals the next phase, and takes it on or ends.
LEMMA AdvanceControl ==
    ASSUME Typed, Typed', Control, NEW p \in Proc, Past(p), pc[p] \in {"enter", "leave"},
           cmd[p] = "snapshot" => Rank(furthest) = 0 /\ pc[p] = "leave",
           Rank(furthest') = Rank(furthest) + 1, furthest' = file'.phase,
           UNCHANGED attempted, local' \in {local, file'}, ProcOK(p)', pc'[p] # "check",
           mem'[p] \in {file', NoJournal}, pc'[p] = "idle" \/ cmd'[p] = cmd[p],
           \A q \in Proc \ {p} : pc'[q] = pc[q] /\ cmd'[q] = cmd[q] /\ mem'[q] = mem[q]
    PROVE  Control'
<1>1. cmd[p] \in Command /\ Rank(furthest) \in Nat
  BY Ranks DEF Typed, TypeOK
<1>2. ASSUME NEW q \in Proc, q # p
      PROVE  /\ Past(q) => cmd[q] = "snapshot"
             /\ pc[q] = "check" => Rank(furthest) + 1 < FirstRank(cmd[q])
  <2>1. CASE cmd[p] # "snapshot"
    BY <1>2, <2>1, OneActs
  <2>2. CASE cmd[p] = "snapshot"
    <3>1. cmd[q] \in {"snapshot", "reconcile", "consumers", "drain", "verify", "finalize"}
      BY DEF Typed, TypeOK, Command
    <3>2. pc[q] # "idle" => cmd[q] # "snapshot"
      BY <1>2, <2>2 DEF Control, Distinct, Past
    <3>3. pc[q] = "check" => Rank(furthest) + 1 < FirstRank(cmd[q])
      BY <2>2, <3>1, <3>2, FirstRanks
    <3>4. ~Past(q)
      <4> SUFFICES ASSUME Past(q) PROVE FALSE
        OBVIOUS
      <4>1. cmd[q] # "snapshot"
        BY <3>2 DEF Past
      <4>2. Rank(furthest) = IF pc[q] = "enter" \/ cmd[q] = "verify" THEN FirstRank(cmd[q]) - 1
                             ELSE FirstRank(cmd[q])
        BY <4>1 DEF Control, ProcOK, InTurn
      <4>3. QED
        BY <2>2, <3>1, <4>1, <4>2, FirstRanks
    <3>5. QED
      BY <3>3, <3>4
  <2>3. QED
    BY <2>1, <2>2
<1>3. \A q \in Proc : ProcOK(q)'
  <2> TAKE q \in Proc
  <2>1. CASE q = p
    BY <2>1
  <2>2. CASE q # p
    <3>1. Flow(q)'
      BY <2>2 DEF Control, ProcOK, Flow
    <3>2. InTurn(q)'
      BY <1>2, <2>2 DEF InTurn, Past
    <3>3. QED
      BY <3>1, <3>2 DEF ProcOK
  <2>3. QED
    BY <2>1, <2>2
<1>4. Distinct'
  BY DEF Control, Distinct, Past
<1>5. \A c \in Command : FirstRank(c) <= Rank(furthest') => c \in attempted'
  <2> SUFFICES ASSUME NEW c \in Command, FirstRank(c) = Rank(furthest) + 1
               PROVE  c = cmd[p]
    BY <1>1, FirstRanks DEF Control, Journalled, ProcOK, Flow, Past, Command
  <2>1. cmd[p] # "snapshot" =>
           Rank(furthest) = IF pc[p] = "enter" \/ cmd[p] = "verify" THEN FirstRank(cmd[p]) - 1
                            ELSE FirstRank(cmd[p])
    BY DEF Control, ProcOK, InTurn
  <2>2. /\ cmd[p] \in {"snapshot", "reconcile", "consumers", "drain", "verify", "finalize"}
        /\ c \in {"snapshot", "reconcile", "consumers", "drain", "verify", "finalize"}
    BY <1>1 DEF Command
  <2>3. pc[p] = "enter" => cmd[p] # "verify"
    BY DEF Control, ProcOK, Flow
  <2>4. QED
    BY <1>1, <2>1, <2>2, <2>3, FirstRanks
<1>6. Journalled'
  <2>1. NoJournal.phase = "absent"
    BY DEF NoJournal
  <2>2. \A q \in Proc : Rank(mem'[q].phase) <= Rank(furthest')
    <3> TAKE q \in Proc
    <3>1. Rank(mem[q].phase) <= Rank(furthest) /\ Rank(mem[q].phase) \in Nat
      BY Ranks DEF Control, Journalled
    <3>2. QED
      BY <1>1, <2>1, <3>1, Ranks
  <2>3. Rank(file'.phase) <= Rank(furthest') /\ Rank(local'.phase) <= Rank(furthest')
    BY <1>1, Ranks DEF Control, Journalled
  <2>4. QED
    BY <1>5, <2>2, <2>3 DEF Journalled
<1>7. QED
  BY <1>3, <1>4, <1>6 DEF Control

\* A mutation phase is journalled from the one before it.
LEMMA EnterControl ==
    ASSUME Typed, Typed', Control, NEW p \in Proc, Enter(p)
    PROVE  Control' /\ Rank(furthest') = Rank(furthest) + 1
<1> DEFINE c == cmd[p]
           ph == CASE c = "reconcile" -> "reconciling" [] c = "consumers" -> "starting_consumers"
                   [] c = "drain" -> "draining" [] c = "finalize" -> "finalizing"
           first == CASE c = "reconcile" -> "detach" [] c = "consumers" -> "start"
                      [] c = "drain" -> "flush" [] c = "finalize" -> "retire"
<1>1. pc[p] = "enter" /\ Goto(p, first) /\ Save(p, [mem[p] EXCEPT !.phase = ph])
  BY DEF Enter
<1>2. c \in {"reconcile", "consumers", "drain", "finalize"}
  BY <1>1 DEF Control, ProcOK, Flow
<1>3. mem[p].phase = furthest /\ Rank(furthest) = FirstRank(c) - 1
  BY <1>1, <1>2 DEF Control, ProcOK, InTurn, Past
<1>4. Rank(ph) = FirstRank(c)
  <2>1. /\ Rank("reconciling") = 2 /\ Rank("starting_consumers") = 4
        /\ Rank("draining") = 6 /\ Rank("finalizing") = 9
    BY DEF Rank
  <2>2. QED
    BY <1>2, <2>1, FirstRanks
<1>5. first \in {"detach", "start", "flush", "retire"}
  BY <1>2
<1>6. file' = [mem[p] EXCEPT !.phase = ph] /\ file'.phase = ph
  BY <1>1 DEF Save, Typed, TypeOK, Journals
<1>7. /\ pc'[p] = first /\ mem'[p] = file' /\ furthest' = ph /\ cmd' = cmd
      /\ \A q \in Proc \ {p} : pc'[q] = pc[q] /\ mem'[q] = mem[q]
      /\ UNCHANGED <<attempted, local>>
  BY <1>1, <1>6 DEF Save, Goto, Typed, TypeOK
<1>8. Flow(p)'
  BY <1>1, <1>2, <1>7 DEF Flow, Control, ProcOK
<1> HIDE DEF first, ph
<1>9. InTurn(p)'
  BY <1>2, <1>4, <1>5, <1>6, <1>7 DEF InTurn, Past
<1>10. Rank(furthest') = Rank(furthest) + 1
  BY <1>3, <1>4, <1>7, <1>2, FirstRanks
<1>11. QED
  BY <1>1, <1>2, <1>5, <1>6, <1>7, <1>8, <1>9, <1>10, AdvanceControl DEF ProcOK, Past

\* The end of a phase is journalled from its beginning.
LEMMA LeaveControl ==
    ASSUME Typed, Typed', Control, NEW p \in Proc, Leave(p)
    PROVE  Control' /\ Rank(furthest') = Rank(furthest) + 1
<1> DEFINE c == cmd[p]
<1>1. /\ pc[p] = "leave" /\ furthest' = file'.phase /\ file' = Left(c, mem[p])
      /\ c = "snapshot" => file = NoJournal
      /\ Exit(p, file') /\ UNCHANGED attempted
  BY DEF Leave
<1>2. c \in {"snapshot", "reconcile", "consumers", "drain", "verify", "finalize"}
  BY DEF Typed, TypeOK, Command
<1>3. c # "snapshot" =>
         /\ mem[p].phase = furthest
         /\ Rank(furthest) = IF c = "verify" THEN 7 ELSE FirstRank(c)
  BY <1>1, FirstRanks DEF Control, ProcOK, InTurn, Past
<1>4. c = "snapshot" => Rank(furthest) = 0
  <2>1. NoJournal.phase = "absent"
    BY DEF NoJournal
  <2>2. QED
    BY <1>1, <2>1, Ranks DEF Control, Journalled
<1>5. mem[p] \in Journals
  BY DEF Typed, TypeOK
<1>6. c = "verify" => mem[p].phase # "finalized"
  <2>1. Rank("finalized") = 10
    BY DEF Rank
  <2>2. QED
    BY <1>3, <2>1
<1>7. /\ c = "snapshot" => file'.phase = "snapshotted"
      /\ c = "reconcile" => file'.phase = "structural_complete"
      /\ c = "consumers" => file'.phase = "consumers_complete"
      /\ c = "drain" => file'.phase = "drained"
      /\ c = "verify" => file'.phase = "verified"
      /\ c = "finalize" => file'.phase = "finalized"
  BY <1>1, <1>5, <1>6 DEF Left, Journals, NoJournal
<1>8. Rank(furthest') = Rank(furthest) + 1
  <2>1. /\ Rank("snapshotted") = 1 /\ Rank("structural_complete") = 3
        /\ Rank("consumers_complete") = 5 /\ Rank("drained") = 7
        /\ Rank("verified") = 8 /\ Rank("finalized") = 10
    BY DEF Rank
  <2>2. QED
    BY <1>1, <1>2, <1>3, <1>4, <1>7, <2>1, FirstRanks
<1>9. /\ pc'[p] = "idle" /\ mem'[p] = NoJournal /\ local' \in {local, file'}
      /\ \A q \in Proc \ {p} : pc'[q] = pc[q] /\ cmd'[q] = cmd[q] /\ mem'[q] = mem[q]
  BY <1>1 DEF Exit, Typed, TypeOK
<1>10. ProcOK(p)'
  BY <1>9 DEF ProcOK, Flow, InTurn, Past
<1>11. QED
  BY <1>1, <1>4, <1>8, <1>9, <1>10, AdvanceControl DEF Past

\* Every step keeps the turns.
LEMMA ControlStep == Typed /\ Typed' /\ Control /\ [Next]_vars => Control'
<1> SUFFICES ASSUME Typed, Typed', Control, [Next]_vars PROVE Control'
  OBVIOUS
<1>1. ASSUME UNCHANGED <<pc, cmd, mem, file, attempted, furthest>>, local' \in {local, file}
      PROVE  Control'
  BY <1>1, QuietControl
<1>2. CASE UNCHANGED vars
  BY <1>1, <1>2 DEF vars, procVars, journalVars
<1>3. ASSUME NEW p \in Proc, \E c \in Command : Invoke(p, c) PROVE Control'
  BY <1>3, InvokeControl
<1>4. ASSUME NEW p \in Proc, Check(p) \/ Enter(p) \/ Leave(p) PROVE Control'
  BY <1>4, CheckControl, EnterControl, LeaveControl
<1>5. ASSUME NEW p \in Proc, Refuse(p) \/ Die(p) PROVE Control'
  BY <1>5, GoneControl DEF Refuse, Die
<1>6. ASSUME NEW p \in Proc, LoopDone(p) PROVE Control'
  <2>1. /\ pc[p] \in {"detach", "stop", "drop", "move", "flush", "retire"}
        /\ pc' = [pc EXCEPT ![p] = After(pc[p])]
        /\ UNCHANGED <<cmd, mem, file, local, attempted, furthest>>
    BY <1>6 DEF LoopDone, Goto, journalVars
  <2>2. After(pc[p]) \in {"stop", "drop", "move", "structural", "sent", "leave"}
    BY <2>1 DEF After
  <2>3. Flow(p)'
    BY <2>1 DEF Control, ProcOK, Flow, After, Typed, TypeOK
  <2>4. QED
    BY <2>1, <2>2, <2>3, WalkControl DEF Past
<1>7. ASSUME NEW p \in Proc, RunStructural(p) \/ RunConsumers(p) \/ CheckSent(p) PROVE Control'
  <2>1. /\ pc[p] \in {"structural", "start", "sent"}
        /\ UNCHANGED <<cmd, mem, file, local, attempted, furthest>>
        /\ pc' = pc \/ pc' = [pc EXCEPT ![p] = "leave"]
    BY <1>7 DEF RunStructural, RunConsumers, CheckSent, Goto, journalVars
  <2>2. CASE pc' = pc
    BY <1>1, <2>1, <2>2
  <2>3. CASE pc' = [pc EXCEPT ![p] = "leave"]
    <3>1. Flow(p)'
      BY <2>1, <2>3 DEF Control, ProcOK, Flow, Typed, TypeOK
    <3>2. QED
      BY <2>1, <2>3, <3>1, WalkControl DEF Past
  <2>4. QED
    BY <2>1, <2>2, <2>3
<1>8. ASSUME NEW p \in Proc, NEW x, NEW l, Each(p, l, x) PROVE Control'
  BY <1>1, <1>8 DEF Each, journalVars
<1>9. ASSUME NEW p \in Proc,
             \/ \E x \in Kafka : Detach(p, x)
             \/ \E x \in View : DropView(p, x)
             \/ \E x \in Base : Move(p, x)
             \/ \E x \in Alias : StopSends(p, x) \/ Flush(p, x) \/ Retire(p, x)
      PROVE  Control'
  BY <1>8, <1>9 DEF Detach, DropView, Move, StopSends, Flush, Retire
<1>10. ASSUME NEW p \in Proc, Disconnect(p) PROVE Control'
  BY <1>1, <1>10 DEF Disconnect
<1>11. ASSUME \/ MigrateClickhouse \/ ChangeSchema \/ RestartClickHouse
              \/ \E a \in Alias : Deliver(a) \/ Enqueue(a)
       PROVE  Control'
  BY <1>1, <1>11 DEF MigrateClickhouse, ChangeSchema, RestartClickHouse, Deliver, Enqueue,
                     procVars, journalVars
<1>12. CASE Next
  BY <1>3, <1>4, <1>5, <1>6, <1>7, <1>9, <1>10, <1>11, <1>12 DEF Next, ScriptStep
<1>13. QED
  BY <1>2, <1>12

-----------------------------------------------------------------------------
(***************************************************************************)
(* What the steps do to the tables.                                         *)
(***************************************************************************)
\* Legacy objects only disappear, canonical ones only appear, and the migration
\* history only advances.
Onward ==
    /\ kafka' \subseteq kafka /\ views' \subseteq views /\ base' \subseteq base
    /\ alias' \subseteq alias
    /\ structural = "full" => structural' = "full"
    /\ consumers = "full" => consumers' = "full"
    /\ applied => applied'
    /\ foreign' = foreign
    /\ restarts' = 0 => restarts = 0

LEMMA OnwardStep == Typed /\ [Next]_vars => Onward
<1> SUFFICES ASSUME Typed, [Next]_vars PROVE Onward
  OBVIOUS
<1> USE DEF procVars, journalVars, tableVars, ddlVars, queueVars, otherVars
<1>1. CASE UNCHANGED <<tableVars, ddlVars, otherVars>>
  BY <1>1 DEF Onward
<1>2. ASSUME NEW p \in Proc, RunStructural(p) \/ RunConsumers(p) PROVE Onward
  BY <1>2 DEF RunStructural, RunConsumers, Onward
<1>3. ASSUME NEW p \in Proc, NEW x, Detach(p, x) \/ DropView(p, x) \/ Move(p, x) \/ Retire(p, x)
      PROVE  Onward
  BY <1>3 DEF Detach, DropView, Move, Retire, Each, Onward
<1>4. ASSUME NEW p \in Proc, NEW x, StopSends(p, x) \/ Flush(p, x)
      PROVE  Onward
  BY <1>1, <1>4 DEF StopSends, Flush, Each
<1>5. CASE MigrateClickhouse
  BY <1>5 DEF MigrateClickhouse, Onward
<1>6. CASE ChangeSchema
  BY <1>6 DEF ChangeSchema, Onward
<1>7. CASE RestartClickHouse
  BY <1>7 DEF RestartClickHouse, Onward, Typed
<1>8. ASSUME NEW a \in Alias, Deliver(a) \/ Enqueue(a) PROVE Onward
  BY <1>1, <1>8 DEF Deliver, Enqueue
<1>9. ASSUME NEW p \in Proc,
             \/ \E c \in Command : Invoke(p, c)
             \/ Check(p) \/ Enter(p) \/ LoopDone(p) \/ CheckSent(p) \/ Leave(p) \/ Refuse(p)
             \/ Die(p) \/ Disconnect(p)
      PROVE  Onward
  BY <1>1, <1>9 DEF Invoke, Check, Enter, LoopDone, CheckSent, Leave, Refuse, Die, Disconnect
<1>10. CASE UNCHANGED vars
  BY <1>1, <1>10 DEF vars
<1>11. CASE Next
  BY <1>2, <1>3, <1>4, <1>5, <1>6, <1>7, <1>8, <1>9, <1>11 DEF Next, ScriptStep
<1>12. QED
  BY <1>10, <1>11

\* While the storage is moved nobody starts a send without a restart.
LEMMA SendsStay ==
    ASSUME Typed, Control, [Next]_vars, restarts' = 0,
           \A q \in Proc : pc[q] # "flush"
    PROVE  sends' \subseteq sends
<1> USE DEF procVars, journalVars, tableVars, ddlVars, queueVars, otherVars
<1>1. CASE sends' = sends
  BY <1>1
<1>2. ASSUME NEW p \in Proc, NEW x, Detach(p, x) \/ DropView(p, x) \/ Move(p, x) \/ Retire(p, x)
      PROVE  sends' \subseteq sends
  BY <1>1, <1>2 DEF Detach, DropView, Move, Retire
<1>3. ASSUME NEW p \in Proc, NEW x, StopSends(p, x) \/ Flush(p, x)
      PROVE  sends' \subseteq sends
  BY <1>3 DEF StopSends, Flush, Each
<1>4. CASE RestartClickHouse
  BY <1>4 DEF RestartClickHouse, Typed
<1>5. CASE MigrateClickhouse \/ ChangeSchema \/ \E a \in Alias : Deliver(a) \/ Enqueue(a)
  BY <1>1, <1>5 DEF MigrateClickhouse, ChangeSchema, Deliver, Enqueue
<1>6. ASSUME NEW p \in Proc,
             \/ \E c \in Command : Invoke(p, c)
             \/ Check(p) \/ Enter(p) \/ LoopDone(p) \/ RunStructural(p) \/ RunConsumers(p)
             \/ CheckSent(p) \/ Leave(p) \/ Refuse(p) \/ Die(p) \/ Disconnect(p)
      PROVE  sends' \subseteq sends
  BY <1>1, <1>6 DEF Invoke, Check, Enter, LoopDone, RunStructural, RunConsumers, CheckSent,
                    Leave, Refuse, Die, Disconnect
<1>7. CASE UNCHANGED vars
  BY <1>1, <1>7 DEF vars
<1>8. CASE Next
  BY <1>2, <1>3, <1>4, <1>5, <1>6, <1>8 DEF Next, ScriptStep
<1>9. QED
  BY <1>7, <1>8

\* Empty queues stay empty while a finalize is past its check.
LEMMA QueuesStay ==
    ASSUME Typed, [Next]_vars, QueuesEmpty,
           NEW p \in Proc, cmd[p] = "finalize", Past(p)
    PROVE  QueuesEmpty'
<1> USE DEF procVars, journalVars, tableVars, ddlVars, queueVars, otherVars
<1>1. CASE queue' = queue /\ alias' = alias
  BY <1>1 DEF QueuesEmpty
<1>2. ASSUME NEW q \in Proc, NEW x, Detach(q, x) \/ DropView(q, x) \/ Move(q, x) \/ StopSends(q, x)
      PROVE  QueuesEmpty'
  BY <1>1, <1>2 DEF Detach, DropView, Move, StopSends
<1>3. ASSUME NEW q \in Proc, NEW x \in Alias, Flush(q, x) \/ Retire(q, x)
      PROVE  QueuesEmpty'
  BY <1>3 DEF Flush, Retire, QueuesEmpty, Typed, TypeOK, Inventory, Inventories
<1>4. ASSUME NEW a \in Alias, Deliver(a) PROVE QueuesEmpty'
  BY <1>4 DEF Deliver, QueuesEmpty, Typed, TypeOK
<1>5. ASSUME NEW a \in Alias, Enqueue(a) PROVE FALSE
  BY <1>5 DEF Enqueue, Past
<1>6. CASE MigrateClickhouse \/ ChangeSchema \/ RestartClickHouse
  BY <1>1, <1>6 DEF MigrateClickhouse, ChangeSchema, RestartClickHouse
<1>7. ASSUME NEW q \in Proc,
             \/ \E c \in Command : Invoke(q, c)
             \/ Check(q) \/ Enter(q) \/ LoopDone(q) \/ RunStructural(q) \/ RunConsumers(q)
             \/ CheckSent(q) \/ Leave(q) \/ Refuse(q) \/ Die(q) \/ Disconnect(q)
      PROVE  QueuesEmpty'
  BY <1>1, <1>7 DEF Invoke, Check, Enter, LoopDone, RunStructural, RunConsumers, CheckSent,
                    Leave, Refuse, Die, Disconnect
<1>8. CASE UNCHANGED vars
  BY <1>1, <1>8 DEF vars
<1>9. CASE Next
  BY <1>2, <1>3, <1>4, <1>5, <1>6, <1>7, <1>9 DEF Next, ScriptStep
<1>10. QED
  BY <1>8, <1>9

-----------------------------------------------------------------------------
(***************************************************************************)
(* What the process whose turn it is has done.                              *)
(***************************************************************************)
\* What a process relies on and the steps of the others leave alone.
Steady(p) ==
    /\ Onward
    /\ pc[p] \in {"detach", "stop", "drop", "move"} /\ restarts' = 0 => sends' \subseteq sends
    /\ Past(p) /\ cmd[p] = "finalize" /\ QueuesEmpty => QueuesEmpty'

LEMMA SteadyStep ==
    ASSUME Typed, Control, [Next]_vars, NEW p \in Proc
    PROVE  Steady(p)
<1>1. ASSUME pc[p] \in {"detach", "stop", "drop", "move"}, NEW q \in Proc
      PROVE  pc[q] # "flush"
  <2>1. cmd[p] = "reconcile" /\ Past(p)
    BY <1>1 DEF Control, ProcOK, Flow, Past
  <2>2. pc[q] = "flush" => Past(q) /\ cmd[q] = "drain"
    BY DEF Control, ProcOK, Flow, Past
  <2>3. QED
    BY <1>1, <2>1, <2>2, OneActs
<1>2. pc[p] \in {"detach", "stop", "drop", "move"} /\ restarts' = 0 => sends' \subseteq sends
  BY <1>1, SendsStay
<1>3. QED
  BY <1>2, OnwardStep, QueuesStay DEF Steady

\* A process that does not move keeps what it has done.
LEMMA DoneKept ==
    ASSUME NEW p \in Proc, Done(p), Steady(p),
           pc'[p] = pc[p], cmd'[p] = cmd[p], todo'[p] = todo[p]
    PROVE  Done(p)'
<1>1. /\ (pc[p] = "detach" => kafka \subseteq todo[p])'
      /\ (pc[p] = "drop" => views \subseteq todo[p])'
      /\ (pc[p] = "move" => base \subseteq todo[p])'
      /\ (pc[p] = "retire" => alias \subseteq todo[p])'
      /\ (pc[p] = "stop" /\ restarts = 0 => sends \subseteq todo[p])'
      /\ (pc[p] \in {"drop", "move"} /\ restarts = 0 => sends = {})'
  BY DEF Done, Steady, Onward
<1>2. QED
  BY <1>1 DEF Done, Steady, Onward, At, Past

\* The steps through the code, up to the end of a phase.
LEMMA DoneWalk ==
    ASSUME Typed, Control, NEW p \in Proc, Done(p), Steady(p),
           Check(p) \/ Enter(p) \/ LoopDone(p) \/ RunStructural(p) \/ RunConsumers(p) \/ CheckSent(p)
    PROVE  Done(p)'
<1> USE DEF procVars, journalVars, tableVars, ddlVars, queueVars, otherVars
<1> DEFINE l == pc'[p]
<1>0. /\ pc \in [Proc -> Labels] /\ todo \in [Proc -> SUBSET (Kafka \cup View \cup Base \cup Alias)]
      /\ kafka \subseteq Kafka /\ views \subseteq View /\ base \subseteq Base /\ alias \subseteq Alias
      /\ sends \subseteq Alias
  BY TypeParts DEF ProcTyped, WorldTyped
<1>1. CASE Check(p)
  <2>1. /\ l \in {"enter", "leave"} /\ cmd' = cmd
        /\ l = "leave" => cmd[p] \in {"snapshot", "verify"}
        /\ UNCHANGED <<alias, queue, applied, foreign>>
    BY <1>0, <1>1 DEF Check, Goto, Entry
  <2>2. /\ cmd[p] = "drain" => applied /\ foreign = {}
        /\ cmd[p] = "finalize" => QueuesEmpty
    BY <1>1 DEF Check, Admits, Settled
  <2>3. QED
    BY <2>1, <2>2 DEF Done, At, Past, QueuesEmpty
<1>2. CASE Enter(p)
  <2>1. cmd[p] \in {"reconcile", "consumers", "drain", "finalize"} /\ Past(p)
    BY <1>2 DEF Enter, Control, ProcOK, Flow, Past
  <2> DEFINE first == CASE cmd[p] = "reconcile" -> "detach" [] cmd[p] = "consumers" -> "start"
                        [] cmd[p] = "drain" -> "flush" [] cmd[p] = "finalize" -> "retire"
  <2>2. Goto(p, first) /\ UNCHANGED <<kafka, alias, queue, applied, foreign>>
    BY <1>2 DEF Enter
  <2>3. /\ l = first /\ cmd' = cmd /\ todo'[p] = Loop(l)
        /\ UNCHANGED <<kafka, alias, queue, applied, foreign>>
    <3> HIDE DEF first
    <3>1. QED
      BY <1>0, <2>2 DEF Goto
  <2>4. /\ l \in {"detach", "start", "flush", "retire"}
        /\ l = "detach" => todo'[p] = Kafka
        /\ l = "retire" => todo'[p] = Alias
    BY <2>1, <2>3 DEF Loop
  <2>5. QED
    BY <1>0, <2>1, <2>3, <2>4 DEF Done, At, Past, QueuesEmpty
<1>3. CASE LoopDone(p)
  <2>1. /\ pc[p] \in {"detach", "stop", "drop", "move", "flush", "retire"} /\ todo[p] = {}
        /\ l = After(pc[p]) /\ cmd' = cmd /\ todo'[p] = Loop(l)
        /\ UNCHANGED <<kafka, views, base, alias, sends, queue, applied, foreign, restarts>>
    BY <1>0, <1>3 DEF LoopDone, Goto
  <2>2. /\ pc[p] = "detach" => l = "stop" /\ todo'[p] = Alias
        /\ pc[p] = "stop" => l = "drop" /\ todo'[p] = View
        /\ pc[p] = "drop" => l = "move" /\ todo'[p] = Base
        /\ pc[p] = "move" => l = "structural"
        /\ pc[p] = "flush" => l = "sent"
        /\ pc[p] = "retire" => l = "leave"
    BY <2>1 DEF After, Loop
  <2>3. /\ pc[p] = "detach" => kafka = {}
        /\ pc[p] = "stop" /\ restarts = 0 => sends = {}
        /\ pc[p] = "drop" => views = {}
        /\ pc[p] = "move" => base = {}
        /\ pc[p] = "retire" => alias = {}
    BY <2>1 DEF Done
  <2>4. /\ pc[p] \in {"detach", "stop", "drop", "move"} => cmd[p] = "reconcile"
        /\ pc[p] = "flush" => cmd[p] = "drain"
        /\ pc[p] = "retire" => cmd[p] = "finalize"
    BY DEF Control, ProcOK, Flow
  <2>5. CASE pc[p] \in {"detach", "stop", "drop", "move"}
    BY <1>0, <2>1, <2>2, <2>3, <2>4, <2>5 DEF Done, At, Past
  <2>6. CASE pc[p] \in {"flush", "retire"}
    BY <2>1, <2>2, <2>3, <2>4, <2>6 DEF Done, At, Past, QueuesEmpty
  <2>7. QED
    BY <2>1, <2>5, <2>6
<1>4. CASE RunStructural(p)
  <2>1. cmd[p] = "reconcile" /\ kafka = {} /\ views = {} /\ base = {}
    BY <1>4 DEF RunStructural, Control, ProcOK, Flow, Done
  <2>2. /\ cmd' = cmd /\ UNCHANGED <<kafka, views, base>>
        /\ l = "structural" \/ (l = "leave" /\ structural' = "full")
    BY <1>0, <1>4 DEF RunStructural, Goto
  <2>3. QED
    BY <2>1, <2>2 DEF Done, At, Past
<1>5. CASE RunConsumers(p)
  <2>1. cmd[p] = "consumers"
    BY <1>5 DEF RunConsumers, Control, ProcOK, Flow
  <2>2. cmd' = cmd /\ (l = "start" \/ (l = "leave" /\ consumers' = "full"))
    BY <1>0, <1>5 DEF RunConsumers, Goto
  <2>3. QED
    BY <2>1, <2>2 DEF Done, At, Past
<1>6. CASE CheckSent(p)
  <2>1. cmd[p] = "drain" /\ Past(p)
    BY <1>6 DEF CheckSent, Control, ProcOK, Flow, Past
  <2>2. cmd' = cmd /\ l = "leave" /\ UNCHANGED <<applied, foreign>>
    BY <1>0, <1>6 DEF CheckSent, Goto
  <2>3. QED
    BY <2>1, <2>2 DEF Done, At, Past
<1>7. QED
  BY <1>1, <1>2, <1>3, <1>4, <1>5, <1>6

\* One object of a loop.
LEMMA DoneEach ==
    ASSUME Typed, Control, NEW p \in Proc, Done(p), Steady(p), NEW x,
           \/ Detach(p, x) \/ DropView(p, x) \/ Move(p, x)
           \/ StopSends(p, x) \/ Flush(p, x) \/ Retire(p, x)
    PROVE  Done(p)'
<1>0. todo \in [Proc -> SUBSET (Kafka \cup View \cup Base \cup Alias)]
  BY DEF Typed, TypeOK
<1>1. UNCHANGED <<pc, cmd>> /\ todo'[p] = todo[p] \ {x}
  BY <1>0 DEF Detach, DropView, Move, StopSends, Flush, Retire, Each
<1>2. /\ pc[p] = "detach" => kafka' = kafka \ {x}
      /\ pc[p] = "stop" => sends' = sends \ {x}
      /\ pc[p] = "drop" => views' = views \ {x}
      /\ pc[p] = "move" => base' = base \ {x}
      /\ pc[p] = "retire" => alias' = alias \ {x}
  BY DEF Detach, DropView, Move, StopSends, Flush, Retire, Each
<1>3. /\ (pc[p] = "detach" => kafka \subseteq todo[p])'
      /\ (pc[p] = "drop" => views \subseteq todo[p])'
      /\ (pc[p] = "move" => base \subseteq todo[p])'
      /\ (pc[p] = "retire" => alias \subseteq todo[p])'
      /\ (pc[p] = "stop" /\ restarts = 0 => sends \subseteq todo[p])'
      /\ (pc[p] \in {"drop", "move"} /\ restarts = 0 => sends = {})'
  BY <1>1, <1>2 DEF Done, Steady, Onward
<1>4. QED
  BY <1>1, <1>3 DEF Done, Steady, Onward, At, Past

\* Every step keeps what each process has done.
LEMMA DoneStep ==
    ASSUME Typed, Control, [Next]_vars, NEW p \in Proc, Done(p)
    PROVE  Done(p)'
<1> USE DEF procVars, journalVars, tableVars, ddlVars, queueVars, otherVars
<1>0. /\ pc \in [Proc -> Labels] /\ cmd \in [Proc -> Command] /\ Steady(p)
      /\ todo \in [Proc -> SUBSET (Kafka \cup View \cup Base \cup Alias)]
  BY SteadyStep, TypeParts DEF ProcTyped
<1>1. CASE pc'[p] = pc[p] /\ cmd'[p] = cmd[p] /\ todo'[p] = todo[p]
  BY <1>0, <1>1, DoneKept
<1>2. CASE pc'[p] \in {"idle", "check"}
  BY <1>2 DEF Done, At, Past
<1>3. CASE UNCHANGED procVars
  BY <1>1, <1>3
<1>4. ASSUME NEW q \in Proc, ScriptStep(q) \/ Die(q) \/ Disconnect(q) \/ \E c \in Command : Invoke(q, c),
             q # p
      PROVE  pc'[p] = pc[p] /\ cmd'[p] = cmd[p] /\ todo'[p] = todo[p]
  <2>1. CASE Disconnect(q)
    BY <2>1 DEF Disconnect
  <2>2. CASE Die(q) \/ Refuse(q) \/ Leave(q)
    BY <1>0, <1>4, <2>2 DEF Die, Refuse, Leave, Exit
  <2>3. CASE Check(q) \/ Enter(q) \/ LoopDone(q) \/ RunStructural(q) \/ RunConsumers(q) \/ CheckSent(q)
    BY <1>0, <1>4, <2>3 DEF Check, Enter, LoopDone, RunStructural, RunConsumers, CheckSent, Goto
  <2>4. ASSUME NEW x, NEW l, Each(q, l, x)
        PROVE  pc'[p] = pc[p] /\ cmd'[p] = cmd[p] /\ todo'[p] = todo[p]
    BY <1>0, <1>4, <2>4 DEF Each
  <2>5. CASE \/ \E x \in Kafka : Detach(q, x)
             \/ \E x \in View : DropView(q, x)
             \/ \E x \in Base : Move(q, x)
             \/ \E x \in Alias : StopSends(q, x) \/ Flush(q, x) \/ Retire(q, x)
    BY <2>4, <2>5 DEF Detach, DropView, Move, StopSends, Flush, Retire
  <2>6. CASE \E c \in Command : Invoke(q, c)
    BY <1>0, <1>4, <2>6 DEF Invoke
  <2>7. QED
    BY <1>4, <2>1, <2>2, <2>3, <2>5, <2>6 DEF ScriptStep
<1>5. CASE ScriptStep(p) \/ Die(p) \/ Disconnect(p) \/ \E c \in Command : Invoke(p, c)
  <2>1. CASE Die(p) \/ Refuse(p) \/ Leave(p) \/ \E c \in Command : Invoke(p, c)
    BY <1>0, <1>2, <2>1 DEF Die, Refuse, Leave, Exit, Invoke
  <2>2. CASE Disconnect(p)
    BY <1>1, <2>2 DEF Disconnect
  <2>3. CASE Check(p) \/ Enter(p) \/ LoopDone(p) \/ RunStructural(p) \/ RunConsumers(p) \/ CheckSent(p)
    BY <1>0, <2>3, DoneWalk
  <2>4. CASE \/ \E x \in Kafka : Detach(p, x)
             \/ \E x \in View : DropView(p, x)
             \/ \E x \in Base : Move(p, x)
             \/ \E x \in Alias : StopSends(p, x) \/ Flush(p, x) \/ Retire(p, x)
    BY <1>0, <2>4, DoneEach
  <2>5. QED
    BY <1>5, <2>1, <2>2, <2>3, <2>4 DEF ScriptStep
<1>6. CASE \/ UNCHANGED vars \/ MigrateClickhouse \/ ChangeSchema \/ RestartClickHouse
           \/ \E a \in Alias : Deliver(a) \/ Enqueue(a)
  BY <1>3, <1>6 DEF vars, MigrateClickhouse, ChangeSchema, RestartClickHouse, Deliver, Enqueue
<1>7. QED
  BY <1>1, <1>4, <1>5, <1>6 DEF Next

-----------------------------------------------------------------------------
(***************************************************************************)
(* What the journal says of the tables.                                     *)
(***************************************************************************)
\* What is on record stays true while no phase is journalled.
LEMMA RecordedStep ==
    ASSUME Typed, Typed', Control, \A p \in Proc : Done(p), Recorded, [Next]_vars
    PROVE  Recorded'
<1> USE DEF procVars, journalVars, tableVars, ddlVars, queueVars, otherVars
<1> DEFINE r == Rank(furthest)
<1>0. r \in Nat /\ r' \in Nat /\ Onward
  BY Ranks, OnwardStep
<1>1. ASSUME UNCHANGED <<furthest, kafka, consumers, alias, base, sends, restarts, applied>>
      PROVE  Recorded'
  BY <1>0, <1>1 DEF Recorded, Onward
<1>2. CASE UNCHANGED vars
  BY <1>1, <1>2 DEF vars
<1>3. ASSUME NEW p \in Proc, Enter(p) PROVE Recorded'
  <2>1. r' = r + 1 /\ UNCHANGED <<kafka, views, consumers, structural, alias, base, sends, restarts, applied, foreign>>
    BY <1>3, EnterControl DEF Enter
  <2>2. /\ cmd[p] \in {"reconcile", "consumers", "drain", "finalize"} /\ Past(p)
        /\ r = FirstRank(cmd[p]) - 1
    BY <1>3 DEF Enter, Control, ProcOK, InTurn, Flow, Past
  <2>3. cmd[p] = "drain" => applied /\ foreign = {}
    BY <2>2 DEF Done
  <2>4. QED
    BY <1>0, <2>1, <2>2, <2>3, FirstRanks DEF Recorded
<1>4. ASSUME NEW p \in Proc, Leave(p) PROVE Recorded'
  <2>1. r' = r + 1 /\ UNCHANGED <<kafka, views, consumers, structural, alias, base, sends, restarts, applied, foreign>>
    BY <1>4, LeaveControl DEF Leave
  <2>2. pc[p] = "leave" /\ Past(p)
    BY <1>4 DEF Leave, Past
  <2>3. cmd[p] \in {"snapshot", "reconcile", "consumers", "drain", "verify", "finalize"}
    BY DEF Typed, TypeOK, Command
  <2>4. /\ cmd[p] \notin {"snapshot", "verify"} => r = FirstRank(cmd[p])
        /\ cmd[p] = "verify" => r = FirstRank(cmd[p]) - 1
    BY <2>2 DEF Control, ProcOK, InTurn, Past
  <2>5. cmd[p] = "snapshot" => r = 0
    <3>1. NoJournal.phase = "absent"
      BY DEF NoJournal
    <3>2. QED
      BY <1>4, <3>1, Ranks DEF Leave, Control, Journalled
  <2>6. /\ cmd[p] = "reconcile" => kafka = {} /\ views = {} /\ base = {} /\ structural = "full"
        /\ cmd[p] = "consumers" => consumers = "full"
        /\ cmd[p] = "finalize" => alias = {}
    BY <2>2 DEF Done, At
  <2>7. QED
    BY <1>0, <2>1, <2>3, <2>4, <2>5, <2>6, FirstRanks DEF Recorded
<1>5. ASSUME NEW p \in Proc, NEW x, Detach(p, x) PROVE Recorded'
  <2>1. pc[p] = "detach" /\ cmd[p] = "reconcile"
    BY <1>5 DEF Detach, Each, Control, ProcOK, Flow
  <2>2. r = 2
    BY <2>1, FirstRanks DEF Control, ProcOK, InTurn, Past
  <2>3. QED
    BY <1>0, <1>5, <2>2 DEF Recorded, Detach, Each
<1>6. ASSUME NEW p \in Proc, NEW x, DropView(p, x) PROVE Recorded'
  BY <1>1, <1>6 DEF DropView, Each
<1>7. ASSUME NEW p \in Proc, NEW x, Move(p, x) PROVE Recorded'
  <2>1. pc[p] = "move" /\ cmd[p] = "reconcile"
    BY <1>7 DEF Move, Each, Control, ProcOK, Flow
  <2>2. r = 2
    BY <2>1, FirstRanks DEF Control, ProcOK, InTurn, Past
  <2>3. restarts = 0 => sends = {}
    BY <2>1 DEF Done
  <2>4. QED
    BY <1>0, <1>7, <2>2, <2>3 DEF Recorded, Move, Each
<1>8. ASSUME NEW p \in Proc, NEW x, StopSends(p, x) PROVE Recorded'
  BY <1>0, <1>8 DEF Recorded, StopSends, Each
<1>9. ASSUME NEW p \in Proc, NEW x, Flush(p, x) PROVE Recorded'
  <2>1. applied
    BY <1>9 DEF Flush, Each, Control, ProcOK, Flow, Done, Past
  <2>2. QED
    BY <1>0, <1>9, <2>1 DEF Recorded, Flush, Each
<1>10. ASSUME NEW p \in Proc, NEW x, Retire(p, x) PROVE Recorded'
  <2>1. pc[p] = "retire" /\ cmd[p] = "finalize"
    BY <1>10 DEF Retire, Each, Control, ProcOK, Flow
  <2>2. r = 9
    BY <2>1, FirstRanks DEF Control, ProcOK, InTurn, Past
  <2>3. QED
    BY <1>0, <1>10, <2>2 DEF Recorded, Retire, Each
<1>11. ASSUME NEW p \in Proc, RunStructural(p) PROVE Recorded'
  BY <1>0, <1>11 DEF Recorded, RunStructural, Onward
<1>12. ASSUME NEW p \in Proc, RunConsumers(p) PROVE Recorded'
  <2>1. pc[p] = "start" /\ cmd[p] = "consumers"
    BY <1>12 DEF RunConsumers, Control, ProcOK, Flow
  <2>2. r = 4
    BY <2>1, FirstRanks DEF Control, ProcOK, InTurn, Past
  <2>3. QED
    BY <1>0, <1>12, <2>2 DEF Recorded, RunConsumers, Onward
<1>13. CASE MigrateClickhouse
  BY <1>0, <1>13 DEF Recorded, MigrateClickhouse
<1>14. CASE RestartClickHouse
  <2>1. restarts' > 0
    BY <1>14 DEF RestartClickHouse, Typed
  <2>2. QED
    BY <1>0, <1>14, <2>1 DEF Recorded, RestartClickHouse
<1>15. CASE ChangeSchema \/ \E a \in Alias : Deliver(a) \/ Enqueue(a)
  BY <1>1, <1>15 DEF ChangeSchema, Deliver, Enqueue
<1>16. ASSUME NEW p \in Proc,
              \/ \E c \in Command : Invoke(p, c)
              \/ Check(p) \/ LoopDone(p) \/ CheckSent(p) \/ Refuse(p) \/ Die(p) \/ Disconnect(p)
       PROVE  Recorded'
  BY <1>1, <1>16 DEF Invoke, Check, LoopDone, CheckSent, Refuse, Die, Disconnect
<1>17. CASE Next
  BY <1>3, <1>4, <1>5, <1>6, <1>7, <1>8, <1>9, <1>10, <1>11, <1>12, <1>13, <1>14, <1>15,
     <1>16, <1>17 DEF Next, ScriptStep
<1>18. QED
  BY <1>2, <1>17

-----------------------------------------------------------------------------
(***************************************************************************)
(* The theorems.                                                            *)
(***************************************************************************)
LEMMA InvInit == Init => Inv
<1> SUFFICES ASSUME Init PROVE Inv
  OBVIOUS
<1>1. NoJournal.phase = "absent"
  BY DEF NoJournal
<1>2. ProcTyped
  BY BlankJournals DEF Init, ProcTyped, Labels, Command
<1>3. RepairTyped
  BY BlankJournals DEF Init, RepairTyped
<1>4. WorldTyped
  <2>1. MaxUpsets \in Nat
    BY SetsAssumption
  <2>2. queue \in [Alias -> 0..MaxQueue] /\ foreign \in Bindings
    BY DEF Init
  <2>3. drift \in 0..MaxUpsets /\ hist \in Nat /\ restarts \in Nat
    BY <2>1 DEF Init
  <2>4. /\ base \subseteq Base /\ views \subseteq View /\ kafka \subseteq Kafka /\ alias \subseteq Alias
        /\ structural \in Extent /\ consumers \in Extent /\ sends \subseteq Alias
    BY DEF Init, Extent
  <2>5. applied \in BOOLEAN
    BY DEF Init
  <2>6. QED
    BY <2>2, <2>3, <2>4, <2>5 DEF WorldTyped
<1>5. Typed
  BY <1>2, <1>3, <1>4, TypeParts
<1>6. \A p \in Proc : pc[p] = "idle" /\ mem[p].phase = "absent"
  BY <1>1 DEF Init
<1>7. \A p \in Proc : ProcOK(p) /\ Done(p)
  BY <1>6 DEF ProcOK, Flow, InTurn, Done, Past, At
<1>8. Distinct
  BY <1>6 DEF Distinct
<1>9. Journalled
  BY <1>1, <1>6, Ranks, FirstRanks DEF Init, Journalled, Command
<1>10. Recorded
  BY Ranks DEF Init, Recorded
<1>11. QED
  BY <1>5, <1>7, <1>8, <1>9, <1>10 DEF Inv, Control

LEMMA InvStep == Inv /\ [Next]_vars => Inv'
<1> SUFFICES ASSUME Inv, [Next]_vars PROVE Inv'
  OBVIOUS
<1>1. Typed'
  BY TypedStep DEF Inv, Control, ProcOK
<1>2. Control'
  BY <1>1, ControlStep DEF Inv
<1>3. \A p \in Proc : Done(p)'
  BY DoneStep DEF Inv
<1>4. Recorded'
  BY <1>1, RecordedStep DEF Inv
<1>5. QED
  BY <1>1, <1>2, <1>3, <1>4 DEF Inv

LEMMA Invariance == Spec => []Inv
<1>1. Init => Inv
  BY InvInit
<1>2. Inv /\ [Next]_vars => Inv'
  BY InvStep
<1>3. QED
  BY <1>1, <1>2, PTL DEF Spec

\* Every variable keeps its type: in particular the journals, which are copied
\* between pod, runner and memory and torn by a death, stay journals.
THEOREM Typing == Spec => []TypeOK
<1>1. Inv => TypeOK
  BY DEF Inv, Typed
<1>2. QED
  BY <1>1, Invariance, PTL

\* What any journal up to the last one written says is true of the tables.
LEMMA OlderIsTrue ==
    ASSUME Inv, NEW j, j.phase \in Phase \cup {"absent", "torn"}, Rank(j.phase) <= Rank(furthest)
    PROVE  TrueOfTables(j)
<1>1. /\ Rank("structural_complete") = 3 /\ Rank("starting_consumers") = 4
      /\ Rank("consumers_complete") = 5 /\ Rank("draining") = 6 /\ Rank("drained") = 7
      /\ Rank("verified") = 8 /\ Rank("finalizing") = 9 /\ Rank("finalized") = 10
  BY DEF Rank
<1>2. Rank(j.phase) \in Nat /\ Rank(furthest) \in Nat
  BY Ranks
<1>3. /\ j.phase \in Consuming \cup {"structural_complete"} => Rank(j.phase) >= 3
      /\ j.phase \in Consuming \ {"starting_consumers"} => Rank(j.phase) >= 5
      /\ j.phase \in {"draining", "drained", "verified", "finalizing", "finalized"} => Rank(j.phase) >= 6
      /\ j.phase = "finalized" => Rank(j.phase) >= 10
  BY <1>1 DEF Consuming
<1>4. /\ j.phase \in Consuming \cup {"structural_complete"} => Rank(furthest) >= 3
      /\ j.phase \in Consuming \ {"starting_consumers"} => Rank(furthest) >= 5
      /\ j.phase \in {"draining", "drained", "verified", "finalizing", "finalized"} => Rank(furthest) >= 6
      /\ j.phase = "finalized" => Rank(furthest) >= 10
  BY <1>2, <1>3
<1>5. QED
  BY <1>4 DEF Inv, Recorded, TrueOfTables

\* What either copy of the journal says is true of the tables, and what was begun
\* had been journalled, however many scripts overlap, die or are lost.
THEOREM JournalIsTrue == Spec => []JournalTruthful
<1>1. Inv => JournalTruthful
  <2> SUFFICES ASSUME Inv PROVE JournalTruthful
    OBVIOUS
  <2>1. /\ Rank("absent") = 0 /\ Rank("snapshotted") = 1 /\ Rank("reconciling") = 2
        /\ Rank("structural_complete") = 3 /\ Rank("starting_consumers") = 4
        /\ Rank("consumers_complete") = 5 /\ Rank("draining") = 6 /\ Rank("drained") = 7
        /\ Rank("verified") = 8 /\ Rank("finalizing") = 9 /\ Rank("finalized") = 10
    BY DEF Rank
  <2>2. furthest \in Phase \cup {"absent"}
    BY DEF Inv, Typed, TypeOK
  <2>3. /\ Rank(furthest) >= 2 => ~Reached({"absent", "snapshotted"})
        /\ Rank(furthest) >= 4 => Reached(Consuming)
        /\ Rank(furthest) >= 9 => Reached({"finalizing", "finalized"})
    BY <2>1, <2>2 DEF Reached, Consuming, Phase
  <2>4. TrueOfTables(file) /\ TrueOfTables(local)
    <3>1. file.phase \in Phase \cup {"absent", "torn"} /\ local.phase \in Phase \cup {"absent", "torn"}
      BY DEF Inv, Typed, TypeOK, Journals
    <3>2. Rank(file.phase) <= Rank(furthest) /\ Rank(local.phase) <= Rank(furthest)
      BY DEF Inv, Control, Journalled
    <3>3. QED
      BY <3>1, <3>2, OlderIsTrue
  <2>5. QED
    BY <2>3, <2>4 DEF Inv, Recorded, JournalTruthful
<1>2. QED
  BY <1>1, Invariance, PTL

\* Aliases bound for another database keep their queues: the repair never comes
\* past the consumers when there is one.
THEOREM ForeignAreKept == Spec => []ForeignQueuesKept
<1>1. Inv => ForeignQueuesKept
  <2> SUFFICES ASSUME Inv, foreign # {} PROVE ForeignQueuesKept
    BY DEF ForeignQueuesKept
  <2>1. /\ Rank("draining") = 6 /\ Rank("drained") = 7 /\ Rank("verified") = 8
        /\ Rank("finalizing") = 9 /\ Rank("finalized") = 10
    BY DEF Rank
  <2>2. Rank(furthest) \in Nat /\ ~(Rank(furthest) >= 6)
    BY Ranks DEF Inv, Recorded
  <2>3. alias = Alias
    BY <2>2 DEF Inv, Recorded
  <2>4. QED
    BY <2>1, <2>2, <2>3 DEF ForeignQueuesKept, Reached
<1>2. QED
  BY <1>1, Invariance, PTL

\* An alias that disappears held no block, whatever dies, restarts, overlaps or
\* is started out of order: the drop needs an empty queue seen by a finalize that
\* nobody can refill behind.
THEOREM NoBlockLost == Spec => NoQueuedBlockLost
<1>1. ASSUME Inv, [Next]_vars PROVE [\A a \in alias \ alias' : queue[a] = 0]_vars
  <2> USE DEF procVars, journalVars, tableVars, ddlVars, queueVars, otherVars
  <2>1. CASE alias' = alias
    BY <2>1
  <2>2. ASSUME NEW p \in Proc, NEW x, Retire(p, x)
        PROVE  \A a \in alias \ alias' : queue[a] = 0
    <3>1. cmd[p] = "finalize" /\ Past(p) /\ alias' = alias \ {x}
      BY <1>1, <2>2 DEF Inv, Retire, Each, Control, ProcOK, Flow, Past
    <3>2. QueuesEmpty
      BY <1>1, <3>1 DEF Inv, Done
    <3>3. QED
      BY <3>2 DEF QueuesEmpty
  <2>3. CASE UNCHANGED vars
    BY <2>1, <2>3 DEF vars
  <2>4. ASSUME NEW p \in Proc, NEW x, Detach(p, x) \/ DropView(p, x) \/ Move(p, x)
                                      \/ StopSends(p, x) \/ Flush(p, x)
        PROVE  alias' = alias
    BY <2>4 DEF Detach, DropView, Move, StopSends, Flush
  <2>5. ASSUME NEW p \in Proc,
               \/ \E c \in Command : Invoke(p, c)
               \/ Check(p) \/ Enter(p) \/ LoopDone(p) \/ RunStructural(p) \/ RunConsumers(p)
               \/ CheckSent(p) \/ Leave(p) \/ Refuse(p) \/ Die(p) \/ Disconnect(p)
        PROVE  alias' = alias
    BY <2>5 DEF Invoke, Check, Enter, LoopDone, RunStructural, RunConsumers, CheckSent,
                Leave, Refuse, Die, Disconnect
  <2>6. CASE MigrateClickhouse \/ ChangeSchema \/ RestartClickHouse
             \/ \E a \in Alias : Deliver(a) \/ Enqueue(a)
    BY <2>1, <2>6 DEF MigrateClickhouse, ChangeSchema, RestartClickHouse, Deliver, Enqueue
  <2>7. CASE Next
    BY <2>1, <2>2, <2>4, <2>5, <2>6, <2>7 DEF Next, ScriptStep
  <2>8. QED
    BY <1>1, <2>3, <2>7
<1>2. QED
  BY <1>1, Invariance, PTL DEF Spec, NoQueuedBlockLost

\* From the move of the storage to the complete migration a queue bound for it
\* does not shrink: its sends are stopped before the first table moves, and what
\* would start or bypass them runs after the migration only.
THEOREM QueuesHeld == Spec => QueuesHeldUntilMigrated
<1> DEFINE Held == (\E a \in Alias \ foreign : queue'[a] < queue[a]) /\ base # Base /\ restarts = 0
                   => applied
<1>1. ASSUME Inv, [Next]_vars PROVE [Held]_vars
  <2> USE DEF procVars, journalVars, tableVars, ddlVars, queueVars, otherVars
  <2>0. queue \in [Alias -> 0..MaxQueue] /\ MaxQueue \in Nat
    BY <1>1, SetsAssumption DEF Inv, Typed, TypeOK
  <2>1. CASE queue' = queue
    BY <2>0, <2>1
  <2>2. ASSUME NEW a \in Alias, Deliver(a) PROVE Held
    <3> SUFFICES ASSUME NEW b \in Alias \ foreign, queue'[b] < queue[b], base # Base, restarts = 0,
                        ~applied
                 PROVE  FALSE
      OBVIOUS
    <3>1. b = a
      BY <2>0, <2>2 DEF Deliver
    <3>2. a \in sends
      BY <2>2 DEF Deliver
    <3>3. QED
      BY <1>1, <3>2 DEF Inv, Recorded
  <2>3. ASSUME NEW p \in Proc, NEW x, Flush(p, x) PROVE Held
    BY <1>1, <2>3 DEF Flush, Each, Inv, Control, ProcOK, Flow, Done, Past
  <2>4. ASSUME NEW p \in Proc, NEW x, Retire(p, x) PROVE Held
    <3>1. pc[p] = "retire" /\ cmd[p] = "finalize"
      BY <1>1, <2>4 DEF Retire, Each, Inv, Control, ProcOK, Flow
    <3>2. Rank(furthest) = 9
      BY <1>1, <3>1, FirstRanks DEF Inv, Control, ProcOK, InTurn, Past
    <3>3. QED
      BY <1>1, <3>2 DEF Inv, Recorded
  <2>5. ASSUME NEW a \in Alias, Enqueue(a) PROVE Held
    BY <2>0, <2>5 DEF Enqueue
  <2>6. ASSUME NEW p \in Proc, NEW x, Detach(p, x) \/ DropView(p, x) \/ Move(p, x) \/ StopSends(p, x)
        PROVE  queue' = queue
    BY <2>6 DEF Detach, DropView, Move, StopSends
  <2>7. ASSUME NEW p \in Proc,
               \/ \E c \in Command : Invoke(p, c)
               \/ Check(p) \/ Enter(p) \/ LoopDone(p) \/ RunStructural(p) \/ RunConsumers(p)
               \/ CheckSent(p) \/ Leave(p) \/ Refuse(p) \/ Die(p) \/ Disconnect(p)
        PROVE  queue' = queue
    BY <2>7 DEF Invoke, Check, Enter, LoopDone, RunStructural, RunConsumers, CheckSent,
                Leave, Refuse, Die, Disconnect
  <2>8. CASE MigrateClickhouse \/ ChangeSchema \/ RestartClickHouse
    BY <2>1, <2>8 DEF MigrateClickhouse, ChangeSchema, RestartClickHouse
  <2>9. CASE Next
    <3> HIDE DEF Held
    <3>1. QED
      BY <2>1, <2>2, <2>3, <2>4, <2>5, <2>6, <2>7, <2>8, <2>9 DEF Next, ScriptStep
  <2>10. QED
    BY <1>1, <2>9
<1>2. QED
  BY <1>1, Invariance, PTL DEF Spec, QueuesHeldUntilMigrated

-----------------------------------------------------------------------------
(***************************************************************************)
(* Where nothing fails, nobody changes the schema and direct writers are    *)
(* quiesced, no guard of the script refuses and something is always left to *)
(* do: what RepairCompletes says, but for that each step is taken.          *)
(***************************************************************************)
Undisturbed ==
    /\ DocumentedOrder /\ foreign = {} /\ drift = 0 /\ deaths = 0
    /\ \A p \in Proc : ~lostBy[p]

\* The phase a command finds, and the one on record while it works.
Before(c) ==
    CASE c = "snapshot"  -> "absent"              [] c = "reconcile" -> "snapshotted"
      [] c = "consumers" -> "structural_complete" [] c = "drain"     -> "consumers_complete"
      [] c = "verify"    -> "drained"             [] c = "finalize"  -> "verified"
During(c) ==
    CASE c = "reconcile" -> "reconciling" [] c = "consumers" -> "starting_consumers"
      [] c = "drain"     -> "draining"    [] c = "finalize"  -> "finalizing"

\* One process at a time has the journal there is, and it is on record what has
\* been done.
Orderly ==
    /\ furthest = file.phase /\ (attempted = {} => file = NoJournal)
    /\ \A p, q \in Proc : pc[p] # "idle" /\ pc[q] # "idle" => p = q
    /\ \A p \in Proc : pc[p] # "idle" => cmd[p] \notin completed /\ mem[p] = file
    /\ \A c \in attempted \ completed : \E p \in Proc : pc[p] # "idle" /\ cmd[p] = c
    /\ (\A p \in Proc : pc[p] = "idle") => local = file
    /\ \A p \in Proc : pc[p] = "check" \/ At(p, {"leave"}, "snapshot") => file.phase = Before(cmd[p])
    /\ "snapshot"  \in completed /\ "reconcile" \notin attempted => file.phase = "snapshotted"
    /\ "reconcile" \in completed /\ "consumers" \notin attempted => file.phase = "structural_complete"
    /\ "consumers" \in completed /\ "drain"     \notin attempted => file.phase = "consumers_complete"
    /\ "drain"     \in completed /\ "verify"    \notin attempted => file.phase = "drained"
    /\ "verify"    \in completed /\ "finalize"  \notin attempted => file.phase = "verified"
    /\ "finalize"  \in completed => file.phase = "finalized"

\* What was on record is still so when the next phase compares it.
Unchanged ==
    /\ "consumers" \notin completed => hist = 0 /\ ~applied
    /\ file.phase # "absent" => file.history = 0
    /\ file.phase = "absent" => file = NoJournal
    /\ file.phase \in {"absent", "snapshotted"} => SourceIntact
    /\ file.phase = "snapshotted" => Inventory = file.tables
    /\ file.phase = "structural_complete" => Inventory = file.destination
    /\ file.phase \in {"drained", "verified"} => QueuesEmpty
    /\ file.phase = "verified" => Inventory = file.verified

\* What a loop still has to do is there to be done.
Remaining(p) ==
    /\ pc[p] = "detach" => todo[p] \subseteq kafka
    /\ pc[p] \in {"detach", "stop"} => views = View
    /\ pc[p] = "drop" => todo[p] \subseteq views
    /\ pc[p] \in {"detach", "stop", "drop"} => base = Base
    /\ pc[p] = "move" => todo[p] \subseteq base
    /\ pc[p] \in {"stop", "flush"} => todo[p] \subseteq Alias
    /\ pc[p] = "retire" => todo[p] \subseteq alias
    /\ pc[p] = "flush" => \A a \in Alias \ todo[p] : queue[a] = 0
    /\ pc[p] = "sent" \/ At(p, {"leave"}, "drain") => QueuesEmpty

Smooth == Orderly /\ Unchanged /\ \A p \in Proc : Remaining(p)

\* The repair is over or somebody has a step to take: a script at work, the
\* runner with a stage that is due, the migration.
WayOn ==
    \/ Reached({"finalized"})
    \/ \E p \in Proc : pc[p] # "idle"
    \/ \E c \in Command \ attempted : Due(c)
    \/ "consumers" \in completed /\ ~applied

Unwedged == WayOn /\ \A p \in Proc : ~Refused(p)

\* A command that has passed its check has the phase whose turn it is.
LEMMA PhaseAt ==
    ASSUME Inv, Orderly, NEW p \in Proc, Past(p), cmd[p] # "snapshot"
    PROVE  /\ pc[p] = "enter" \/ cmd[p] = "verify" => file.phase = Before(cmd[p])
           /\ ~(pc[p] = "enter" \/ cmd[p] = "verify") => file.phase = During(cmd[p])
           /\ file.phase = furthest /\ mem[p] = file
<1>1. /\ Rank("snapshotted") = 1 /\ Rank("reconciling") = 2 /\ Rank("structural_complete") = 3
      /\ Rank("starting_consumers") = 4 /\ Rank("consumers_complete") = 5
      /\ Rank("draining") = 6 /\ Rank("drained") = 7 /\ Rank("verified") = 8
      /\ Rank("finalizing") = 9
  BY DEF Rank
<1>2. cmd[p] \in {"reconcile", "consumers", "drain", "verify", "finalize"}
  BY DEF Inv, Typed, TypeOK, Command
<1>3. furthest \in Phase \cup {"absent"}
  BY DEF Inv, Typed, TypeOK
<1>4. Rank(furthest) = IF pc[p] = "enter" \/ cmd[p] = "verify" THEN FirstRank(cmd[p]) - 1
                       ELSE FirstRank(cmd[p])
  BY DEF Inv, Control, ProcOK, InTurn
<1>5. /\ pc[p] = "enter" \/ cmd[p] = "verify" => Rank(furthest) = Rank(Before(cmd[p]))
      /\ ~(pc[p] = "enter" \/ cmd[p] = "verify") => Rank(furthest) = Rank(During(cmd[p]))
  BY <1>1, <1>2, <1>4, FirstRanks DEF Before, During
<1>6. furthest # "absent"
  BY <1>2, <1>4, FirstRanks, Ranks
<1>7. Before(cmd[p]) \in Phase /\ (cmd[p] # "verify" => During(cmd[p]) \in Phase)
  BY <1>2 DEF Before, During, Phase
<1>8. file.phase = furthest /\ mem[p] = file
  BY DEF Orderly, Past
<1> QED
  BY <1>3, <1>5, <1>6, <1>7, <1>8, Ranks

\* What the tables are like while a phase is on record.
LEMMA TablesAt ==
    ASSUME Inv, Orderly
    PROVE  /\ file.phase \notin {"finalizing", "finalized"} => alias = Alias
           /\ file.phase \in {"structural_complete", "consumers_complete", "drained", "verified"} =>
                 kafka = {} /\ views = {} /\ base = {}
           /\ file.phase \in {"drained", "verified"} => applied
<1> DEFINE r == Rank(furthest)
<1>1. /\ file.phase \notin {"finalizing", "finalized"} => ~(r >= 9)
      /\ file.phase \in {"structural_complete", "consumers_complete", "drained", "verified"} => r >= 3
      /\ file.phase \in {"drained", "verified"} => r >= 6
  <2>1. /\ Rank("structural_complete") = 3 /\ Rank("consumers_complete") = 5
        /\ Rank("drained") = 7 /\ Rank("verified") = 8
    BY DEF Rank
  <2>2. \A ph : ph \notin {"finalizing", "finalized"} => ~(Rank(ph) >= 9)
    BY DEF Rank
  <2> QED
    BY <2>1, <2>2 DEF Orderly
<1>2. (alias # Alias => r >= 9) /\ (r >= 3 => kafka = {} /\ views = {} /\ base = {}) /\ (r >= 6 => applied)
  BY DEF Inv, Recorded
<1> QED
  BY <1>1, <1>2

\* Commands are completed in order.
LEMMA InOrder ==
    ASSUME Inv, Undisturbed
    PROVE  /\ completed \subseteq attempted /\ attempted \subseteq Command
           /\ "reconcile" \in attempted => "snapshot" \in completed
           /\ "consumers" \in attempted => "reconcile" \in completed
           /\ "drain" \in attempted => "consumers" \in completed /\ applied
           /\ "verify" \in attempted => "drain" \in completed
           /\ "finalize" \in attempted => "verify" \in completed
BY DEF Inv, Typed, TypeOK, Undisturbed, DocumentedOrder, Due

\* No guard refuses.
LEMMA SmoothRefusesNothing ==
    ASSUME Inv, Undisturbed, Smooth, NEW p \in Proc
    PROVE  ~Refused(p)
<1> USE DEF Smooth
<1>1. CASE pc[p] = "check"
  <2>1. file.phase = Before(cmd[p]) /\ mem[p] = file /\ cmd[p] \notin completed /\ cmd[p] \in attempted
    BY <1>1 DEF Orderly, Inv, Control, ProcOK, Flow
  <2>2. cmd[p] \in {"snapshot", "reconcile", "consumers", "drain", "verify", "finalize"}
    BY DEF Inv, Typed, TypeOK, Command
  <2>3. cmd[p] \in {"reconcile", "consumers"} => hist = 0
    BY <2>1, InOrder DEF Unchanged
  <2>4. cmd[p] = "drain" => applied
    BY <2>1, InOrder
  <2>5. Admits(cmd[p], mem[p])
    <3>1. CASE cmd[p] = "snapshot"
      BY <2>1, <3>1 DEF Admits, Before, Unchanged
    <3>2. CASE cmd[p] = "reconcile"
      BY <2>1, <2>3, <3>2 DEF Admits, Before, Unchanged
    <3>3. CASE cmd[p] = "consumers"
      BY <2>1, <2>3, <3>3, TablesAt DEF Admits, Before, Unchanged
    <3>4. CASE cmd[p] = "drain"
      BY <2>1, <2>4, <3>4, TablesAt DEF Admits, Before, Settled, Undisturbed
    <3>5. CASE cmd[p] = "verify"
      BY <2>1, <3>5, TablesAt DEF Admits, Before, Settled, Unchanged
    <3>6. CASE cmd[p] = "finalize"
      BY <2>1, <3>6, TablesAt DEF Admits, Before, Settled, Unchanged
    <3> QED
      BY <2>2, <3>1, <3>2, <3>3, <3>4, <3>5, <3>6
  <2> QED
    BY <1>1, <2>5 DEF Refused
<1>2. CASE pc[p] \in {"detach", "stop", "drop", "move", "flush", "retire", "sent"}
  <2>1. pc[p] \in {"stop", "flush"} => alias = Alias
    <3>1. ASSUME pc[p] \in {"stop", "flush"} PROVE file.phase \in {"reconciling", "draining"}
      <4>1. cmd[p] \in {"reconcile", "drain"}
        BY <3>1 DEF Inv, Control, ProcOK, Flow
      <4> QED
        BY <3>1, <4>1, PhaseAt DEF Past, During
    <3> QED
      BY <3>1, TablesAt
  <2> QED
    BY <1>2, <2>1 DEF Refused, Remaining
<1>3. CASE pc[p] = "leave"
  <2>1. mem[p] = file /\ cmd[p] \notin completed /\ cmd[p] \in attempted
    BY <1>3 DEF Orderly, Inv, Control, ProcOK, Flow
  <2>2. ASSUME cmd[p] \in {"reconcile", "consumers"} PROVE hist = mem[p].history
    <3>1. hist = 0
      BY <2>1, <2>2, InOrder DEF Unchanged
    <3>2. file.phase \in {"reconciling", "starting_consumers"}
      BY <1>3, <2>2, PhaseAt DEF Past, During
    <3> QED
      BY <2>1, <3>1, <3>2 DEF Unchanged
  <2>3. cmd[p] = "snapshot" => file = NoJournal
    BY <1>3 DEF Orderly, At, Before, Unchanged
  <2> QED
    BY <1>3, <2>2, <2>3 DEF Refused, HistoryKept
<1> QED
  BY <1>1, <1>2, <1>3 DEF Refused

\* While the repair is not over there is something to do.
LEMMA SmoothGoesOn == Inv /\ Undisturbed /\ Smooth => WayOn
<1> SUFFICES ASSUME Inv, Undisturbed, Smooth, \A p \in Proc : pc[p] = "idle", ~Reached({"finalized"}),
                    "consumers" \in completed => applied
             PROVE  \E c \in Command : c \notin attempted /\ Due(c)
  BY DEF WayOn
<1>1. attempted \subseteq completed /\ "finalize" \notin completed
  BY DEF Smooth, Orderly, Reached
<1> QED
  BY <1>1 DEF Command, Due

\* At most one command is under way, and those are done that come before it.
LEMMA Alone ==
    ASSUME Inv, Undisturbed, Orderly, NEW p \in Proc, pc[p] # "idle"
    PROVE  /\ \A q \in Proc \ {p} : pc[q] = "idle"
           /\ cmd[p] \in attempted \ completed /\ attempted \ completed \subseteq {cmd[p]}
           /\ "snapshot" \in completed => cmd[p] # "snapshot"
           /\ "reconcile" \in completed => cmd[p] \notin {"snapshot", "reconcile"}
           /\ "consumers" \in completed => cmd[p] \in {"drain", "verify", "finalize"}
           /\ "drain" \in completed => cmd[p] \in {"verify", "finalize"}
           /\ "verify" \in completed => cmd[p] = "finalize"
           /\ "finalize" \notin completed
           /\ "reconcile" \notin attempted => cmd[p] = "snapshot"
           /\ "consumers" \notin attempted => cmd[p] \in {"snapshot", "reconcile"}
           /\ "drain" \notin attempted => cmd[p] \in {"snapshot", "reconcile", "consumers"}
           /\ "verify" \notin attempted => cmd[p] \notin {"verify", "finalize"}
           /\ "finalize" \notin attempted => cmd[p] # "finalize"
<1>1. cmd[p] \in attempted /\ cmd[p] \notin completed
  BY DEF Orderly, Inv, Control, ProcOK, Flow
<1>2. /\ \A q \in Proc \ {p} : pc[q] = "idle"
      /\ attempted \ completed \subseteq {cmd[p]}
  BY DEF Orderly
<1>3. cmd[p] \in {"snapshot", "reconcile", "consumers", "drain", "verify", "finalize"}
  BY DEF Inv, Typed, TypeOK, Command
<1> QED
  BY <1>1, <1>2, <1>3, InOrder

\* Nothing has been started yet and nothing has been touched.
LEMMA SmoothInit == Init /\ Undisturbed => Smooth
<1> SUFFICES ASSUME Init, Undisturbed PROVE Smooth
  OBVIOUS
<1>1. Orderly
  BY DEF Init, Orderly, NoJournal, At
<1>2. Unchanged
  BY DEF Init, Unchanged, SourceIntact, NoJournal
<1>3. \A p \in Proc : Remaining(p)
  BY DEF Init, Remaining, At
<1> QED
  BY <1>1, <1>2, <1>3 DEF Smooth

\* What happens around the scripts: deliveries, the migration in its turn and
\* restarts of ClickHouse.
LEMMA SmoothAside ==
    ASSUME Inv, Smooth,
           UNCHANGED <<procVars, journalVars, tableVars, ddlVars, foreign, drift>>,
           \A a \in Alias : queue[a] = 0 => queue'[a] = 0,
           "consumers" \in completed \/ UNCHANGED <<applied, hist>>
    PROVE  Smooth'
<1> USE DEF procVars, journalVars, tableVars, ddlVars
<1>1. Orderly'
  BY DEF Smooth, Orderly, At
<1>2. alias \subseteq Alias
  BY DEF Inv, Typed, TypeOK, Inventory, Inventories
<1>3. QueuesEmpty => QueuesEmpty'
  BY <1>2 DEF QueuesEmpty
<1>4. Unchanged'
  BY <1>3 DEF Smooth, Unchanged, SourceIntact, Inventory
<1>5. \A p \in Proc : Remaining(p)'
  BY <1>3 DEF Smooth, Remaining, At
<1> QED
  BY <1>1, <1>4, <1>5 DEF Smooth

\* The runner starts the next command with the journal there is.
LEMMA SmoothInvoke ==
    ASSUME Inv, Undisturbed, Undisturbed', Smooth, NEW p \in Proc, NEW c \in Command, Invoke(p, c)
    PROVE  Smooth'
<1> USE DEF procVars, journalVars, tableVars, ddlVars, queueVars, otherVars
<1>1. \A q \in Proc : pc[q] = "idle"
  BY DEF Invoke, Undisturbed
<1>2. attempted = completed /\ local = file
  BY <1>1 DEF Smooth, Orderly, Inv, Typed, TypeOK
<1>3. /\ pc' = [pc EXCEPT ![p] = "check"] /\ cmd' = [cmd EXCEPT ![p] = c]
      /\ mem' = [mem EXCEPT ![p] = file] /\ c \notin attempted /\ attempted' = attempted \cup {c}
      /\ UNCHANGED <<todo, lostBy, file, local, completed, furthest, tableVars, ddlVars, queueVars, otherVars, deaths>>
  BY <1>2 DEF Invoke
<1>4. pc'[p] = "check" /\ cmd'[p] = c /\ mem'[p] = file /\ \A q \in Proc \ {p} : pc'[q] = "idle"
  BY <1>1, <1>3 DEF Inv, Typed, TypeOK
<1>5. file.phase = Before(c)
  <2>1. c = "snapshot" => attempted = {}
    BY <1>2, <1>3, InOrder DEF Command
  <2>2. /\ c = "reconcile" => "snapshot" \in completed
        /\ c = "consumers" => "reconcile" \in completed
        /\ c = "drain" => "consumers" \in completed
        /\ c = "verify" => "drain" \in completed
        /\ c = "finalize" => "verify" \in completed
    BY <1>3 DEF Undisturbed, DocumentedOrder, Due
  <2>3. c = "snapshot" => file.phase = "absent"
    BY <2>1 DEF Smooth, Orderly, NoJournal
  <2> QED
    BY <1>3, <2>2, <2>3 DEF Smooth, Orderly, Before, Command
<1>6. Orderly'
  <2>1. \A q \in Proc : pc'[q] = "check" \/ At(q, {"leave"}, "snapshot")' => file'.phase = Before(cmd'[q])
    BY <1>3, <1>4, <1>5 DEF At
  <2>2. \A d \in attempted' \ completed' : pc'[p] # "idle" /\ cmd'[p] = d
    BY <1>2, <1>3, <1>4
  <2> QED
    BY <1>2, <1>3, <1>4, <2>1, <2>2 DEF Smooth, Orderly, At
<1>7. Unchanged'
  BY <1>3 DEF Smooth, Unchanged, SourceIntact, Inventory, QueuesEmpty
<1>8. \A q \in Proc : Remaining(q)'
  BY <1>4 DEF Remaining, At
<1> QED
  BY <1>6, <1>7, <1>8 DEF Smooth

\* A step through the code that neither journals nor ends the process.
LEMMA OrderlyWalk ==
    ASSUME Inv, Undisturbed, Orderly, NEW p \in Proc, pc[p] # "idle",
           \A q \in Proc \ {p} : pc'[q] = pc[q], pc'[p] \notin {"idle", "check"},
           UNCHANGED <<cmd, mem, file, local, attempted, completed, furthest>>,
           At(p, {"leave"}, "snapshot")' => file.phase = "absent"
    PROVE  Orderly'
<1>1. /\ \A q \in Proc \ {p} : pc'[q] = "idle"
      /\ cmd[p] \in attempted \ completed /\ attempted \ completed \subseteq {cmd[p]}
  BY Alone
<1>2. \A q \in Proc : pc'[q] = "check" \/ At(q, {"leave"}, "snapshot")' => file'.phase = Before(cmd'[q])
  BY <1>1 DEF At, Before
<1>3. mem[p] = file
  BY DEF Orderly
<1> QED
  BY <1>1, <1>2, <1>3 DEF Orderly

\* A phase's check is passed.
LEMMA SmoothCheck ==
    ASSUME Inv, Undisturbed, Smooth, NEW p \in Proc, Check(p)
    PROVE  Smooth'
<1> USE DEF journalVars, tableVars, ddlVars, queueVars, otherVars
<1>1. /\ pc[p] = "check" /\ pc'[p] = Entry(cmd[p]) /\ \A q \in Proc \ {p} : pc'[q] = pc[q]
      /\ UNCHANGED <<cmd, mem, file, local, attempted, completed, furthest>>
  BY DEF Check, Goto, Inv, Typed, TypeOK
<1>2. pc'[p] \in {"enter", "leave"} /\ (pc'[p] = "leave" => cmd[p] \in {"snapshot", "verify"})
  BY <1>1 DEF Entry
<1>3. At(p, {"leave"}, "snapshot")' => file.phase = "absent"
  BY <1>1 DEF At, Smooth, Orderly, Before
<1>4. Orderly'
  BY <1>1, <1>2, <1>3, OrderlyWalk DEF Smooth
<1>5. Unchanged'
  BY DEF Check, Smooth, Unchanged, SourceIntact, Inventory, QueuesEmpty
<1>6. \A q \in Proc \ {p} : pc'[q] = "idle"
  BY <1>1, Alone DEF Smooth
<1>7. \A q \in Proc : Remaining(q)'
  BY <1>1, <1>2, <1>6 DEF Remaining, At
<1> QED
  BY <1>4, <1>5, <1>7 DEF Smooth

\* A mutation phase finds the tables as the journal has them.
LEMMA SmoothEnter ==
    ASSUME Inv, Undisturbed, Smooth, NEW p \in Proc, Enter(p)
    PROVE  Smooth'
<1> USE DEF tableVars, ddlVars, queueVars, otherVars
<1>1. /\ pc[p] = "enter" /\ cmd[p] \in {"reconcile", "consumers", "drain", "finalize"}
      /\ file.phase = Before(cmd[p]) /\ mem[p] = file
  <2>1. pc[p] = "enter" /\ Flow(p) /\ Past(p)
    BY DEF Enter, Inv, Control, ProcOK, Past
  <2>2. cmd[p] \in {"reconcile", "consumers", "drain", "finalize"}
    BY <2>1 DEF Flow
  <2> QED
    BY <2>1, <2>2, PhaseAt DEF Smooth
<1> DEFINE j == [mem[p] EXCEPT !.phase = During(cmd[p])]
<1>2. Goto(p, IF cmd[p] = "reconcile" THEN "detach" ELSE IF cmd[p] = "consumers" THEN "start"
              ELSE IF cmd[p] = "drain" THEN "flush" ELSE "retire") /\ Save(p, j)
  BY <1>1 DEF Enter, During
<1>3. j.phase = During(cmd[p]) /\ j.history = file.history
  BY <1>1 DEF Inv, Typed, TypeOK, Journals
<1>4. /\ pc'[p] = (IF cmd[p] = "reconcile" THEN "detach" ELSE IF cmd[p] = "consumers" THEN "start"
              ELSE IF cmd[p] = "drain" THEN "flush" ELSE "retire")
      /\ todo'[p] = (IF cmd[p] = "reconcile" THEN Kafka ELSE IF cmd[p] = "consumers" THEN {}
              ELSE Alias)
      /\ mem'[p] = file' /\ file' = j /\ furthest' = j.phase
      /\ \A q \in Proc \ {p} : pc'[q] = "idle"
      /\ UNCHANGED <<cmd, local, attempted, completed>>
  <2>1. \A q \in Proc \ {p} : pc[q] = "idle"
    BY <1>1, Alone DEF Smooth
  <2> HIDE DEF j
  <2> QED
    BY <1>1, <1>2, <2>1 DEF Goto, Save, Loop, Inv, Typed, TypeOK
<1>5. Orderly'
  <2>1. cmd[p] \in attempted \ completed /\ attempted \ completed \subseteq {cmd[p]}
    BY <1>1, Alone DEF Smooth
  <2>2. /\ ~("snapshot"  \in completed /\ "reconcile" \notin attempted)
        /\ ~("reconcile" \in completed /\ "consumers" \notin attempted)
        /\ ~("consumers" \in completed /\ "drain"     \notin attempted)
        /\ ~("drain"     \in completed /\ "verify"    \notin attempted)
        /\ ~("verify"    \in completed /\ "finalize"  \notin attempted)
        /\ "finalize"  \notin completed
    BY <1>1, Alone DEF Smooth
  <2>3. /\ \A q \in Proc : pc'[q] # "idle" => q = p
        /\ pc'[p] \notin {"idle", "check", "leave"}
    BY <1>4
  <2> HIDE DEF j
  <2> QED
    BY <1>4, <2>1, <2>2, <2>3 DEF Orderly, At
<1>6. Unchanged'
  <2>1. file'.phase \notin {"absent", "snapshotted", "structural_complete", "drained", "verified"}
    BY <1>1, <1>3, <1>4 DEF During
  <2>2. file'.history = 0
    BY <1>1, <1>3, <1>4 DEF Smooth, Unchanged, Before
  <2>3. UNCHANGED <<completed, hist, applied>>
    BY <1>4 DEF Enter
  <2> QED
    BY <2>1, <2>2, <2>3 DEF Smooth, Unchanged
<1>7. \A q \in Proc : Remaining(q)'
  <2>1. cmd[p] = "reconcile" => SourceIntact
    BY <1>1 DEF Smooth, Unchanged, Before
  <2>2. cmd[p] = "finalize" => alias = Alias
    BY <1>1, TablesAt DEF Smooth, Before
  <2>3. UNCHANGED <<base, views, kafka, alias>>
    BY DEF Enter
  <2>4. Remaining(p)'
    BY <1>1, <1>4, <2>1, <2>2, <2>3 DEF Remaining, SourceIntact, At
  <2>5. \A q \in Proc \ {p} : Remaining(q)'
    BY <1>4 DEF Remaining, At
  <2> QED
    BY <2>4, <2>5
<1> QED
  BY <1>5, <1>6, <1>7 DEF Smooth

\* A mutation phase at work, its phase on record.
LEMMA SmoothWork ==
    ASSUME Inv, Undisturbed, Smooth, NEW p \in Proc,
           pc[p] \in {"detach", "stop", "drop", "move", "structural", "start", "flush", "sent", "retire"},
           \A q \in Proc \ {p} : pc'[q] = pc[q], pc'[p] \notin {"idle", "check"},
           UNCHANGED <<cmd, mem, file, local, attempted, completed, furthest, hist, applied>>,
           Remaining(p)'
    PROVE  Smooth'
<1>1. cmd[p] \in {"reconcile", "consumers", "drain", "finalize"} /\ Past(p) /\ pc[p] # "enter"
  BY DEF Inv, Control, ProcOK, Flow, Past
<1>2. file.phase = During(cmd[p])
  BY <1>1, PhaseAt DEF Smooth
<1>3. Orderly'
  <2>1. ~At(p, {"leave"}, "snapshot")'
    BY <1>1 DEF At
  <2> QED
    BY <1>1, <2>1, OrderlyWalk DEF Smooth, Past
<1>4. Unchanged'
  <2>1. file'.phase \notin {"absent", "snapshotted", "structural_complete", "drained", "verified"}
    BY <1>1, <1>2 DEF During
  <2> QED
    BY <2>1 DEF Smooth, Unchanged
<1>5. \A q \in Proc \ {p} : Remaining(q)'
  <2>1. \A q \in Proc \ {p} : pc'[q] = "idle"
    BY <1>1, Alone DEF Smooth, Past
  <2> QED
    BY <2>1 DEF Remaining, At
<1> QED
  BY <1>3, <1>4, <1>5 DEF Smooth

\* One object of a loop.
LEMMA SmoothEach ==
    ASSUME Inv, Undisturbed, Smooth, NEW p \in Proc, NEW x,
           Detach(p, x) \/ StopSends(p, x) \/ DropView(p, x) \/ Move(p, x)
              \/ (x \in Alias /\ Flush(p, x)) \/ Retire(p, x)
    PROVE  Smooth'
<1> USE DEF procVars, journalVars, tableVars, ddlVars, queueVars, otherVars
<1>1. PICK l \in {"detach", "stop", "drop", "move", "flush", "retire"} : Each(p, l, x)
  BY DEF Detach, StopSends, DropView, Move, Flush, Retire
<1>2. /\ pc[p] = l /\ pc' = pc /\ todo'[p] = todo[p] \ {x}
      /\ UNCHANGED <<cmd, mem, file, local, attempted, completed, furthest, hist, applied>>
  BY <1>1 DEF Each, Inv, Typed, TypeOK
<1>3. Remaining(p)
  BY DEF Smooth
<1>4. Remaining(p)'
  <2>1. CASE Detach(p, x)
    BY <1>2, <1>3, <2>1 DEF Detach, Each, Remaining, At
  <2>2. CASE StopSends(p, x)
    BY <1>2, <1>3, <2>2 DEF StopSends, Each, Remaining, At
  <2>3. CASE DropView(p, x)
    BY <1>2, <1>3, <2>3 DEF DropView, Each, Remaining, At
  <2>4. CASE Move(p, x)
    BY <1>2, <1>3, <2>4 DEF Move, Each, Remaining, At
  <2>5. CASE x \in Alias /\ Flush(p, x)
    <3>1. /\ pc'[p] = "flush" /\ \A a \in Alias : queue'[a] = IF a = x THEN 0 ELSE queue[a]
          /\ alias' = alias
      BY <1>2, <2>5 DEF Flush, Each, Inv, Typed, TypeOK
    <3> QED
      BY <1>2, <1>3, <2>5, <3>1 DEF Flush, Each, Remaining, At
  <2>6. CASE Retire(p, x)
    BY <1>2, <1>3, <2>6 DEF Retire, Each, Remaining, At
  <2> QED
    BY <2>1, <2>2, <2>3, <2>4, <2>5, <2>6
<1> QED
  BY <1>2, <1>4, SmoothWork

\* From one loop to the next, and the steps that are no loops.
LEMMA SmoothNext ==
    ASSUME Inv, Undisturbed, Smooth, NEW p \in Proc,
           LoopDone(p) \/ RunStructural(p) \/ RunConsumers(p) \/ CheckSent(p)
    PROVE  Smooth'
<1> USE DEF procVars, journalVars, tableVars, ddlVars, queueVars, otherVars
<1>0. /\ pc \in [Proc -> Labels] /\ todo \in [Proc -> SUBSET (Kafka \cup View \cup Base \cup Alias)]
      /\ alias \subseteq Alias
  BY TypeParts DEF Inv, ProcTyped, WorldTyped
<1>1. Remaining(p) /\ Flow(p)
  BY DEF Smooth, Inv, Control, ProcOK
<1>2. UNCHANGED <<cmd, mem, file, local, attempted, completed, furthest, hist, applied>>
  BY DEF LoopDone, RunStructural, RunConsumers, CheckSent, Goto
<1>3. /\ pc[p] \in {"detach", "stop", "drop", "move", "structural", "start", "flush", "sent", "retire"}
      /\ \A q \in Proc \ {p} : pc'[q] = pc[q]
  BY <1>0 DEF LoopDone, RunStructural, RunConsumers, CheckSent, Goto
<1>4. pc'[p] \notin {"idle", "check"} /\ Remaining(p)'
  <2>1. CASE LoopDone(p)
    <3>1. /\ pc'[p] = After(pc[p]) /\ todo[p] = {} /\ todo'[p] = Loop(After(pc[p]))
          /\ pc[p] \in {"detach", "stop", "drop", "move", "flush", "retire"}
          /\ UNCHANGED <<base, views, kafka, alias, queue>>
      BY <1>0, <2>1 DEF LoopDone, Goto
    <3>2. QueuesEmpty' <=> QueuesEmpty
      BY <3>1 DEF QueuesEmpty
    <3>3. pc[p] = "flush" => QueuesEmpty
      BY <1>0, <1>1, <3>1 DEF Remaining, QueuesEmpty
    <3> QED
      BY <1>0, <1>1, <1>2, <3>1, <3>2, <3>3 DEF Remaining, After, Loop, Flow, At
  <2>2. CASE RunStructural(p) \/ RunConsumers(p)
    <3>1. pc'[p] \in {"structural", "start", "leave"} /\ cmd[p] \in {"reconcile", "consumers"}
      BY <1>0, <1>1, <2>2 DEF RunStructural, RunConsumers, Goto, Flow
    <3> QED
      BY <1>2, <3>1 DEF Remaining, At
  <2>3. CASE CheckSent(p)
    <3>1. pc'[p] = "leave" /\ QueuesEmpty'
      BY <1>0, <2>3 DEF CheckSent, Goto, QueuesEmpty
    <3> QED
      BY <3>1 DEF Remaining
  <2> QED
    BY <2>1, <2>2, <2>3
<1> QED
  BY <1>2, <1>3, <1>4, SmoothWork

\* A phase ends: its result is on record in the pod and with the runner.
LEMMA SmoothLeave ==
    ASSUME Inv, Undisturbed, Smooth, NEW p \in Proc, Leave(p)
    PROVE  Smooth'
<1> USE DEF tableVars, ddlVars, queueVars, otherVars
<1> DEFINE c == cmd[p]
           j == mem[p]
           f == Left(c, j)
<1>1. pc[p] = "leave" /\ Past(p) /\ ~lostBy[p] /\ j = file
  BY DEF Leave, Past, Undisturbed, Smooth, Orderly
<1>2. c \in {"snapshot", "reconcile", "consumers", "drain", "verify", "finalize"}
  BY DEF Inv, Typed, TypeOK, Command
<1>3. /\ c = "snapshot" => file.phase = "absent"
      /\ c \in {"reconcile", "consumers", "drain", "finalize"} => file.phase = During(c)
      /\ c = "verify" => file.phase = "drained"
  BY <1>1, PhaseAt DEF Smooth, Orderly, At, Before
<1>4. /\ c = "snapshot" => f.phase = "snapshotted" /\ f.tables = Inventory /\ f.history = hist
      /\ c = "reconcile" => f.phase = "structural_complete" /\ f.destination = Inventory
      /\ c = "consumers" => f.phase = "consumers_complete"
      /\ c = "drain" => f.phase = "drained"
      /\ c = "verify" => f.phase = "verified" /\ f.verified = Inventory
      /\ c = "finalize" => f.phase = "finalized"
      /\ c # "snapshot" => f.history = j.history
  <2>1. mem[p] \in Journals
    BY DEF Inv, Typed, TypeOK
  <2>2. c = "snapshot" => f.phase = "snapshotted" /\ f.tables = Inventory /\ f.history = hist
    BY DEF Left, NoJournal
  <2>3. c # "snapshot" => f.history = j.history
    BY <1>2, <2>1 DEF Left, Journals
  <2> QED
    BY <1>1, <1>3, <2>1, <2>2, <2>3 DEF Left, Journals
<1>5. /\ file' = f /\ furthest' = f.phase /\ local' = f
      /\ completed' = completed \cup {c} /\ attempted' = attempted
      /\ \A q \in Proc : pc'[q] = "idle"
  <2>1. f.phase \notin {"absent", "torn"}
    BY <1>2, <1>4
  <2>2. \A q \in Proc \ {p} : pc[q] = "idle"
    BY <1>1, Alone DEF Smooth, Past
  <2> HIDE DEF f
  <2>3. file' = f /\ furthest' = f.phase /\ Exit(p, f) /\ UNCHANGED attempted
    BY DEF Leave, f
  <2>4. completed' = completed \cup {c}
    BY <1>1 DEF Leave
  <2> QED
    BY <1>1, <2>1, <2>2, <2>3, <2>4 DEF Exit, Inv, Typed, TypeOK
<1>6. UNCHANGED <<base, views, kafka, alias, structural, consumers, drift, queue, applied, hist>>
  BY DEF Leave
<1> HIDE DEF f, j
<1>7. c \in attempted \ completed /\ attempted \ completed \subseteq {c}
  BY <1>1, Alone DEF Smooth, Past
<1>8. Orderly'
  <2>1. /\ "snapshot"  \in completed' /\ "reconcile" \notin attempted => c = "snapshot"
        /\ "reconcile" \in completed' /\ "consumers" \notin attempted => c = "reconcile"
        /\ "consumers" \in completed' /\ "drain"     \notin attempted => c = "consumers"
        /\ "drain"     \in completed' /\ "verify"    \notin attempted => c = "drain"
        /\ "verify"    \in completed' /\ "finalize"  \notin attempted => c = "verify"
        /\ "finalize"  \in completed' => c = "finalize"
    BY <1>1, <1>5, Alone DEF Smooth, Past
  <2>2. attempted' \ completed' = {} /\ attempted' # {}
    BY <1>5, <1>7
  <2> QED
    BY <1>4, <1>5, <2>1, <2>2 DEF Orderly, At
<1>9. Unchanged'
  <2>1. hist = 0 \/ "consumers" \in completed
    BY DEF Smooth, Unchanged
  <2>2. c = "snapshot" => "consumers" \notin completed
    BY <1>1, Alone DEF Smooth, Past
  <2>3. f.history = 0
    BY <1>1, <1>2, <1>3, <1>4, <2>1, <2>2 DEF Smooth, Unchanged, During
  <2>4. f.phase = "snapshotted" => SourceIntact /\ Inventory = f.tables
    BY <1>2, <1>3, <1>4 DEF Smooth, Unchanged
  <2>5. f.phase \in {"drained", "verified"} => QueuesEmpty
    <3>1. c = "drain" => QueuesEmpty
      BY <1>1 DEF Smooth, Remaining, At
    <3>2. c = "verify" => QueuesEmpty
      BY <1>3 DEF Smooth, Unchanged
    <3> QED
      BY <1>2, <1>4, <3>1, <3>2
  <2>6. /\ f.phase = "structural_complete" => Inventory = f.destination
        /\ f.phase = "verified" => Inventory = f.verified
        /\ f.phase # "absent"
    BY <1>2, <1>4
  <2>7. /\ Inventory' = Inventory /\ SourceIntact' = SourceIntact /\ QueuesEmpty' = QueuesEmpty
        /\ "consumers" \notin completed' => hist' = 0 /\ ~applied'
    BY <1>5, <1>6 DEF Inventory, SourceIntact, QueuesEmpty, Smooth, Unchanged
  <2> QED
    BY <1>5, <2>3, <2>4, <2>5, <2>6, <2>7 DEF Unchanged
<1>10. \A q \in Proc : Remaining(q)'
  BY <1>5 DEF Remaining, At
<1> QED
  BY <1>8, <1>9, <1>10 DEF Smooth

\* Every step an undisturbed repair can take.
LEMMA SmoothStep ==
    ASSUME ~Writers, Inv, Undisturbed, Undisturbed', Smooth, [Next]_vars
    PROVE  Smooth'
<1> USE DEF procVars, journalVars, tableVars, ddlVars, queueVars, otherVars
<1>1. CASE UNCHANGED vars
  BY <1>1, SmoothAside DEF vars
<1>2. CASE MigrateClickhouse \/ RestartClickHouse
  BY <1>2, SmoothAside DEF MigrateClickhouse, RestartClickHouse
<1>3. ASSUME NEW a \in Alias, Deliver(a) PROVE Smooth'
  <2>1. \A b \in Alias : queue[b] = 0 => queue'[b] = 0
    BY <1>3 DEF Deliver, Inv, Typed, TypeOK
  <2> QED
    BY <1>3, <2>1, SmoothAside DEF Deliver
<1>4. ASSUME NEW a \in Alias, Enqueue(a) PROVE FALSE
  BY <1>4 DEF Enqueue
<1>5. ~ChangeSchema
  BY DEF ChangeSchema, Undisturbed
<1>6. ASSUME NEW p \in Proc, Refuse(p) \/ Die(p) \/ Disconnect(p) PROVE FALSE
  <2>1. ~Refuse(p)
    BY SmoothRefusesNothing DEF Refuse
  <2>2. ~Die(p)
    BY DEF Die, Undisturbed
  <2>3. ~Disconnect(p)
    BY DEF Disconnect, Undisturbed, Inv, Typed, TypeOK
  <2> QED
    BY <1>6, <2>1, <2>2, <2>3
<1>7. ASSUME NEW p \in Proc, ScriptStep(p) PROVE Smooth'
  BY <1>6, <1>7, SmoothCheck, SmoothEnter, SmoothEach, SmoothNext, SmoothLeave DEF ScriptStep
<1>8. ASSUME NEW p \in Proc, NEW c \in Command, Invoke(p, c) PROVE Smooth'
  BY <1>8, SmoothInvoke
<1>9. CASE Next
  BY <1>2, <1>3, <1>4, <1>5, <1>6, <1>7, <1>8, <1>9 DEF Next
<1> QED
  BY <1>1, <1>9

\* Stage after stage in the documented order, with direct writers quiesced,
\* nobody else at the schema and no script lost, no guard of the script ever
\* refuses and the repair is over or has a next step: neither a restart of
\* ClickHouse nor a delivery in between can leave it stuck half-way.
THEOREM RepairIsNotWedged ==
    ASSUME ~Writers PROVE Spec /\ []Undisturbed => []Unwedged
<1>1. Init /\ Undisturbed => Smooth
  BY SmoothInit
<1>2. Inv /\ Undisturbed /\ Undisturbed' /\ Smooth /\ [Next]_vars => Smooth'
  BY SmoothStep
<1>3. Inv /\ Undisturbed /\ Smooth => Unwedged
  BY SmoothRefusesNothing, SmoothGoesOn DEF Unwedged
<1> QED
  BY <1>1, <1>2, <1>3, Invariance, PTL DEF Spec
=============================================================================
