----------------------------- MODULE SqlxProofs -----------------------------
(***************************************************************************)
(* Proofs about SqlxMigrations: its typing; that a recorded build is over   *)
(* and a successful Job is complete; and what failures cost.                *)
(* One inductive invariant carries all three: what is recorded is an        *)
(* initial segment of the plan, every unfinished concurrent statement       *)
(* belongs to the first migration after it, and an index is in the middle   *)
(* of being built or dropped only by such a statement.                      *)
(***************************************************************************)
EXTENDS SqlxMigrations, FiniteSetTheorems, WellFoundedInduction, TLAPS

-----------------------------------------------------------------------------
(***************************************************************************)
(* The plan.                                                                *)
(***************************************************************************)
\* Of migration v everything before is on record, and v itself is not.
InTurn(v) == v \in Version \ recorded /\ \A u \in 1..(v - 1) : u \in recorded

\* The migrations that run outside a transaction.
Concurrent(v) == ~Plan[v].tx

\* The index of v is being built or dropped by v.
UnderWay(v) == index[Plan[v].index] = IF Plan[v].op = "build" THEN "building" ELSE "dropping"

\* The statement of v is over: nothing is left to do but its record.
Over(v) == index[Plan[v].index] \in IF Plan[v].op = "build" THEN {"valid", "invalid"} ELSE {"absent"}

(***************************************************************************)
(* The inductive invariant.                                                 *)
(***************************************************************************)
\* sqlx records the migrations in order.
Segment == \A v \in recorded : \A u \in 1..(v - 1) : u \in recorded

\* The Job: it has a pod left while it runs none, and runs none once it ended.
JobInv ==
    /\ job = "running" /\ at = "none" => attempts < MaxAttempts
    /\ job # "running" => at = "none"
    /\ job = "complete" => recorded = Version

\* The session works on the migration whose turn it is.
SessionInv ==
    /\ at \in {"execute", "working", "record"} => InTurn(version)
    /\ at \in {"working", "record"} => Concurrent(version) /\ orphan = NoOrphan
    /\ at = "working" => UnderWay(version)
    /\ at = "record" => Over(version)

\* So does the statement that outlived its client; no session that found it has
\* committed anything since.
OrphanInv ==
    orphan # NoOrphan =>
        InTurn(orphan.of) /\ Concurrent(orphan.of) /\ UnderWay(orphan.of) /\ ~limited

\* Nothing but these two statements leaves an index unfinished.
Unfinished ==
    \A i \in Index : index[i] \in {"building", "dropping"} =>
        \/ at = "working" /\ i = Plan[version].index
        \/ orphan # NoOrphan /\ i = Plan[orphan.of].index

\* What is recorded was done, unless a later migration undoes it.
BuildsEnded ==
    \A v \in recorded : Plan[v].op = "build" /\ ~Superseded(v)
        => index[Plan[v].index] \in {"valid", "invalid"}

LegacyGone == 10 \in recorded => index["email_fair_dequeue"] = "absent"

SqlxInv ==
    /\ TypeOK /\ Segment /\ JobInv /\ SessionInv /\ OrphanInv /\ Unfinished
    /\ BuildsEnded /\ LegacyGone

\* An orphan that can still deadlock owes what its pod's death may cost yet.
Owed == IF orphan # NoOrphan /\ ~orphan.last THEN 1 ELSE 0

PriceInv == Lost + Owed + Cardinality(Invalid) <= 2 * (deaths + crashes + timeouts)

-----------------------------------------------------------------------------
(***************************************************************************)
(* Lemmas about the plan.                                                   *)
(***************************************************************************)
LEMMA PlanLength == Version = 1..15
  BY DEF Version, Plan

LEMMA PlanShape ==
  ASSUME NEW v \in Version
  PROVE  /\ Plan[v].index \in Index
         /\ Plan[v].tx => Plan[v].op \in {"create", "alter", "drop"}
         /\ Concurrent(v) => Plan[v].op \in {"build", "drop"} /\ Plan[v].timeout = "none"
         /\ Plan[v].index = "email_fair_dequeue" => v <= 10
  BY SMTT(60), PlanLength
     DEF Plan, Concurrent, Build, Drop, Ddl, Create, Columns, Index,
         V20260303000001, V20260417000001, V20260417000002, V20260417000003,
         V20260519000001, V20260519000002, V20260616000001, V20260616000002,
         V20260622000001, V20260622000002, V20260716000001, V20260731000001,
         V20260813000001, V20260820000001, V20260821000001

\* The tenth migration drops the legacy index.
LEMMA PlanTenth ==
  10 \in Version /\ Plan[10].op = "drop" /\ Plan[10].index = "email_fair_dequeue"
                 /\ Concurrent(10)
  BY PlanLength DEF Plan, Concurrent, V20260622000002, Drop

\* A set of versions has a first one.
LEMMA FirstIsFirst ==
  ASSUME NEW S, S \subseteq Version, S # {}
  PROVE  First(S) \in S /\ \A w \in S : First(S) <= w
<1>1. \E v \in S : \A w \in S : v <= w
  <2>1. IsWellFoundedOn(OpToRel(<, Nat), Nat)
    BY NatLessThanWellFounded
  <2>2. S \subseteq Nat
    BY PlanLength
  <2>3. PICK v \in S : \A w \in S : ~ (<<w, v>> \in OpToRel(<, Nat))
    BY <2>1, <2>2, WFMin
  <2>4. ASSUME NEW w \in S  PROVE v <= w
    <3>1. v \in Nat /\ w \in Nat
      BY <2>2
    <3>2. OpToRel(<, Nat) = {ss \in Nat \X Nat : ss[1] < ss[2]}
      BY DEF OpToRel
    <3>3. ~ (<<w, v>> \in {ss \in Nat \X Nat : ss[1] < ss[2]})
      BY <2>3, <3>2
    <3>4. ~ (w < v)
      BY <3>1, <3>3
    <3> QED  BY <3>1, <3>4
  <2> QED  BY <2>4
<1> QED  BY <1>1 DEF First

LEMMA FirstInTurn ==
  ASSUME recorded \subseteq Version, Pending # {}
  PROVE  InTurn(First(Pending))
<1>1. First(Pending) \in Pending /\ \A w \in Pending : First(Pending) <= w
  BY FirstIsFirst DEF Pending
<1>2. First(Pending) \in Version /\ First(Pending) \notin recorded
  BY <1>1 DEF Pending
<1>3. ASSUME NEW u \in 1..(First(Pending) - 1)  PROVE u \in recorded
  <2>1. u \in Version /\ ~(First(Pending) <= u)
    BY <1>2, PlanLength
  <2> QED  BY <2>1, <1>1 DEF Pending
<1> QED  BY <1>2, <1>3 DEF InTurn

\* One migration at a time has its turn.
LEMMA TurnIsOne ==
  ASSUME NEW u, NEW v, InTurn(u), InTurn(v)
  PROVE  u = v
  BY PlanLength DEF InTurn

\* The legacy index is done with once the tenth migration is on record.
LEMMA TurnAfterLegacy ==
  ASSUME NEW v, InTurn(v), Segment, 10 \in recorded
  PROVE  Plan[v].index # "email_fair_dequeue"
<1>1. v \in Version /\ v # 10 /\ ~(v < 10)
  BY PlanLength DEF InTurn, Segment
<1> QED  BY <1>1, PlanShape, PlanLength

\* A migration in turn that drops an index supersedes what built it.
LEMMA TurnSupersedes ==
  ASSUME NEW v, InTurn(v), Segment, Plan[v].op = "drop", recorded \subseteq Version,
         NEW u \in recorded, Plan[u].index = Plan[v].index
  PROVE  Superseded(u)
<1>1. v \in Version /\ u \in Version /\ v # u /\ ~(v < u)
  BY PlanLength DEF InTurn, Segment
<1>2. v > u
  BY <1>1, PlanLength
<1>3. \A x \in 1..(v - 1) : x \in recorded
  BY DEF InTurn
<1> QED  BY <1>1, <1>2, <1>3 DEF Superseded

-----------------------------------------------------------------------------
(***************************************************************************)
(* Lemmas about the steps.                                                  *)
(***************************************************************************)
\* What the indexes and the records say is not touched by a step of anything else.
LEMMA KeptRecords ==
  ASSUME Segment, BuildsEnded, LegacyGone, UNCHANGED <<recorded, index>>
  PROVE  Segment' /\ BuildsEnded' /\ LegacyGone'
  BY DEF Segment, BuildsEnded, LegacyGone, Superseded

\* Nor by a concurrent statement of the migration whose turn it is: an index that
\* an earlier migration built is taken away only by a drop.
LEMMA TouchedRecords ==
  ASSUME TypeOK, Segment, BuildsEnded, LegacyGone, recorded' = recorded,
         NEW v, InTurn(v), NEW s, index' = [index EXCEPT ![Plan[v].index] = s],
         \/ s \in {"valid", "invalid"} \/ Plan[v].op = "drop"
         \/ index[Plan[v].index] = "absent"
  PROVE  Segment' /\ BuildsEnded' /\ LegacyGone'
<1>1. index \in [Index -> {"absent", "building", "valid", "invalid", "dropping"}]
      /\ recorded \subseteq Version
  BY DEF TypeOK
<1>2. Segment'
  BY DEF Segment
<1>3. ASSUME NEW u \in recorded, Plan[u].op = "build", ~Superseded(u)
      PROVE  index'[Plan[u].index] \in {"valid", "invalid"}
  <2>1. index[Plan[u].index] \in {"valid", "invalid"} /\ Plan[u].index \in Index
    BY <1>1, <1>3, PlanShape DEF BuildsEnded
  <2>2. CASE Plan[u].index # Plan[v].index
    BY <1>1, <2>1, <2>2
  <2>3. CASE Plan[u].index = Plan[v].index
    <3>1. Plan[v].op # "drop"
      BY <1>1, <1>3, <2>3, TurnSupersedes
    <3>2. s \in {"valid", "invalid"}
      BY <2>1, <2>3, <3>1
    <3> QED  BY <1>1, <2>1, <2>3, <3>2
  <2> QED  BY <2>2, <2>3
<1>4. BuildsEnded'
  BY <1>3 DEF BuildsEnded, Superseded
<1>5. LegacyGone'
  <2>1. ASSUME 10 \in recorded  PROVE index'["email_fair_dequeue"] = "absent"
    <3>1. Plan[v].index # "email_fair_dequeue"
      BY <2>1, TurnAfterLegacy
    <3>2. index["email_fair_dequeue"] = "absent"
      BY <2>1 DEF LegacyGone
    <3> QED  BY <1>1, <3>1, <3>2
  <2> QED  BY <2>1 DEF LegacyGone
<1> QED  BY <1>2, <1>4, <1>5

\* A session that ends leaves the Job in order.
LEMMA LeaveInOrder ==
  ASSUME TypeOK, JobInv, at # "none", Leave, recorded' = recorded
  PROVE  /\ JobInv'
         /\ job' \in {"running", "complete", "failed"} /\ attempts' = attempts
         /\ at' = "none" /\ version' = 0 /\ limited' = FALSE
<1>1. attempts \in 0..MaxAttempts /\ job = "running"
  BY DEF TypeOK, JobInv
<1>2. attempts' = attempts /\ at' = "none" /\ version' = 0 /\ limited' = FALSE
      /\ job' = IF attempts = MaxAttempts THEN "failed" ELSE job
  BY DEF Leave
<1> QED  BY <1>1, <1>2, LimitsAssumption DEF JobInv

\* The types of what the steps write.
LEMMA WrittenIndex ==
  ASSUME TypeOK, NEW v \in Version, NEW s \in {"absent", "building", "valid", "invalid", "dropping"},
         index' = [index EXCEPT ![Plan[v].index] = s]
  PROVE  /\ index' \in [Index -> {"absent", "building", "valid", "invalid", "dropping"}]
         /\ index'[Plan[v].index] = s
         /\ \A i \in Index : i # Plan[v].index => index'[i] = index[i]
  BY PlanShape DEF TypeOK

-----------------------------------------------------------------------------
(***************************************************************************)
(* The invariant is inductive: one lemma per group of actions.              *)
(***************************************************************************)
LEMMA InitInvariant == Init => SqlxInv
<1> SUFFICES ASSUME Init  PROVE SqlxInv
  OBVIOUS
<1>1. TypeOK
  <2>1. index \in [Index -> {"absent", "building", "valid", "invalid", "dropping"}]
    BY DEF Init
  <2>2. {busy, held} \subseteq BOOLEAN
    BY DEF Init
  <2>3. orphan \in [of : Version, limited : BOOLEAN, last : BOOLEAN] \cup {NoOrphan} /\ recorded \subseteq Version
    BY DEF Init
  <2>4. /\ job \in {"running", "complete", "failed"} /\ attempts \in 0..MaxAttempts
        /\ at \in {"none", "pick", "execute", "working", "record"}
        /\ crashes \in 0..MaxCrashes /\ deaths \in 0..MaxDeaths /\ timeouts \in Nat
    BY LimitsAssumption DEF Init
  <2>5. version \in (IF at \in {"none", "pick"} THEN {0} ELSE Version)
    BY DEF Init
  <2>6. limited \in BOOLEAN
    BY DEF Init
  <2> QED  BY <2>1, <2>2, <2>3, <2>4, <2>5, <2>6 DEF TypeOK
<1>2. Segment /\ JobInv /\ SessionInv /\ OrphanInv /\ Unfinished /\ BuildsEnded /\ LegacyGone
  BY LimitsAssumption
     DEF Init, Segment, JobInv, SessionInv, OrphanInv, Unfinished, BuildsEnded, LegacyGone
<1> QED  BY <1>1, <1>2 DEF SqlxInv

\* Steps that move the session alone.
LEMMA SessionSteps ==
  ASSUME SqlxInv, StartPod \/ PickMigration \/ MigrationsDone
  PROVE  SqlxInv'
<1>1. TypeOK /\ Segment /\ JobInv /\ SessionInv /\ OrphanInv /\ Unfinished
      /\ BuildsEnded /\ LegacyGone
  BY DEF SqlxInv
<1>2. UNCHANGED <<recorded, index, orphan, busy, held, crashes, deaths, timeouts>>
  BY DEF StartPod, PickMigration, MigrationsDone, dbVars
<1>3. Segment' /\ BuildsEnded' /\ LegacyGone'
  BY <1>1, <1>2, KeptRecords
<1>4. at \in {"none", "pick"} /\ version = 0 /\ recorded \subseteq Version
  BY <1>1 DEF TypeOK, StartPod, PickMigration, MigrationsDone
<1>5. CASE StartPod
  <2>1. job = "running" /\ at = "none" /\ attempts' = attempts + 1 /\ at' = "pick"
        /\ UNCHANGED <<job, version, limited>>
    BY <1>5 DEF StartPod
  <2>2. TypeOK' /\ JobInv'
    BY <1>1, <1>2, <2>1, LimitsAssumption DEF TypeOK, JobInv
  <2>3. SessionInv' /\ OrphanInv' /\ Unfinished'
    BY <1>1, <1>2, <2>1 DEF SessionInv, OrphanInv, Unfinished, InTurn, UnderWay, Concurrent
  <2> QED  BY <1>3, <2>2, <2>3 DEF SqlxInv
<1>6. CASE PickMigration
  <2>1. at = "pick" /\ Pending # {} /\ version' = First(Pending) /\ at' = "execute"
        /\ UNCHANGED <<job, attempts, limited>>
    BY <1>6 DEF PickMigration
  <2>2. InTurn(version')
    BY <1>4, <2>1, FirstInTurn
  <2>3. TypeOK' /\ JobInv'
    BY <1>1, <1>2, <2>1, <2>2 DEF TypeOK, JobInv, InTurn
  <2>4. SessionInv' /\ OrphanInv' /\ Unfinished'
    BY <1>1, <1>2, <2>1, <2>2
       DEF SessionInv, OrphanInv, Unfinished, InTurn, UnderWay, Concurrent
  <2> QED  BY <1>3, <2>3, <2>4 DEF SqlxInv
<1>7. CASE MigrationsDone
  <2>1. at = "pick" /\ Pending = {} /\ job' = "complete" /\ at' = "none" /\ limited' = FALSE
        /\ UNCHANGED <<attempts, version>>
    BY <1>7 DEF MigrationsDone
  <2>2. recorded = Version
    BY <1>4, <2>1 DEF Pending
  <2>3. TypeOK' /\ JobInv'
    BY <1>1, <1>2, <2>1, <2>2 DEF TypeOK, JobInv
  <2>4. SessionInv' /\ OrphanInv' /\ Unfinished'
    BY <1>1, <1>2, <2>1 DEF SessionInv, OrphanInv, Unfinished, InTurn, UnderWay, Concurrent
  <2> QED  BY <1>3, <2>3, <2>4 DEF SqlxInv
<1> QED  BY <1>5, <1>6, <1>7

LEMMA TransactStep ==
  ASSUME SqlxInv, Transact
  PROVE  SqlxInv'
<1>1. TypeOK /\ Segment /\ JobInv /\ SessionInv /\ OrphanInv /\ Unfinished
      /\ BuildsEnded /\ LegacyGone
  BY DEF SqlxInv
<1>2. /\ at = "execute" /\ Plan[version].tx
      /\ index' = IF Plan[version].op = "drop"
                  THEN [index EXCEPT ![Plan[version].index] = "absent"] ELSE index
      /\ recorded' = recorded \cup {version}
      /\ limited' = (limited \/ Plan[version].timeout = "session")
      /\ at' = "pick" /\ version' = 0
      /\ UNCHANGED <<job, attempts, orphan, busy, held, crashes, deaths, timeouts>>
  BY DEF Transact
<1>3. InTurn(version) /\ version \in Version /\ recorded \subseteq Version
  BY <1>1, <1>2 DEF SessionInv, InTurn, TypeOK
<1>4. index \in [Index -> {"absent", "building", "valid", "invalid", "dropping"}]
      /\ Plan[version].index \in Index /\ Plan[version].op # "build"
  BY <1>1, <1>2, <1>3, PlanShape DEF TypeOK
\* No statement has outlived its client: it would be this migration's.
<1>5. orphan = NoOrphan
  BY <1>1, <1>2, <1>3, TurnIsOne DEF OrphanInv, Concurrent
<1>6. TypeOK'
  <2>1. index' \in [Index -> {"absent", "building", "valid", "invalid", "dropping"}]
    BY <1>2, <1>4
  <2>2. limited' \in BOOLEAN
    BY <1>2
  <2> QED  BY <1>1, <1>2, <1>3, <2>1, <2>2 DEF TypeOK
<1>7. JobInv' /\ SessionInv' /\ OrphanInv'
  BY <1>1, <1>2, <1>5 DEF JobInv, SessionInv, OrphanInv
<1>8. Unfinished'
  BY <1>1, <1>2, <1>4, <1>5 DEF Unfinished
<1>9. Segment'
  BY <1>1, <1>2, <1>3 DEF Segment, InTurn
<1>10. BuildsEnded'
  <2>1. ASSUME NEW u \in recorded', Plan[u].op = "build", ~Superseded(u)'
        PROVE  index'[Plan[u].index] \in {"valid", "invalid"}
    <3>1. u \in recorded /\ Plan[u].index \in Index
      BY <1>2, <1>3, <1>4, <2>1, PlanShape
    <3>2. ~Superseded(u)
      BY <1>2, <2>1 DEF Superseded
    <3>3. index[Plan[u].index] \in {"valid", "invalid"}
      BY <1>1, <2>1, <3>1, <3>2 DEF BuildsEnded
    <3>4. Plan[version].op = "drop" => Plan[u].index # Plan[version].index
      BY <1>1, <1>3, <3>1, <3>2, TurnSupersedes
    <3> QED  BY <1>2, <1>4, <3>1, <3>3, <3>4
  <2> QED  BY <2>1 DEF BuildsEnded
<1>11. LegacyGone'
  <2>1. ASSUME 10 \in recorded'  PROVE index'["email_fair_dequeue"] = "absent"
    <3>1. 10 \in recorded
      BY <1>2, <2>1, PlanTenth DEF Concurrent
    <3>2. index["email_fair_dequeue"] = "absent"
      BY <1>1, <3>1 DEF LegacyGone
    <3> QED  BY <1>2, <1>4, <3>2
  <2> QED  BY <2>1 DEF LegacyGone
<1> QED  BY <1>6, <1>7, <1>8, <1>9, <1>10, <1>11 DEF SqlxInv

\* A concurrent statement starts, or finds nothing to do, or ends well.
LEMMA StatementSteps ==
  ASSUME SqlxInv, BeginBuild \/ BeginDrop \/ EndConcurrent
  PROVE  SqlxInv'
<1>1. TypeOK /\ Segment /\ JobInv /\ SessionInv /\ OrphanInv /\ Unfinished
      /\ BuildsEnded /\ LegacyGone
  BY DEF SqlxInv
<1>2. /\ UNCHANGED <<job, attempts, version, limited, recorded, orphan, busy, held, crashes, deaths, timeouts>>
      /\ at \in {"execute", "working"} /\ at' \in {"working", "record"}
  BY DEF BeginBuild, BeginDrop, EndConcurrent
<1>3. /\ InTurn(version) /\ version \in Version /\ Concurrent(version) /\ orphan = NoOrphan
      /\ at = "working" => UnderWay(version)
  BY <1>1, <1>2
     DEF SessionInv, InTurn, Concurrent, Blocked, BeginBuild, BeginDrop, EndConcurrent
<1>4. index \in [Index -> {"absent", "building", "valid", "invalid", "dropping"}]
      /\ Plan[version].index \in Index /\ Plan[version].op \in {"build", "drop"}
  BY <1>1, <1>3, PlanShape DEF TypeOK
\* While none executes, no index is unfinished.
<1>5. at = "execute" => index[Plan[version].index] \in {"absent", "valid", "invalid"}
  BY <1>1, <1>3, <1>4 DEF Unfinished
\* What the three write.
<1>6. \/ /\ index' = index /\ at' = "record" /\ at = "execute"
         /\ \/ Plan[version].op = "build" /\ index[Plan[version].index] # "absent"
            \/ Plan[version].op = "drop" /\ index[Plan[version].index] = "absent"
      \/ \E s \in {"absent", "building", "valid", "invalid", "dropping"} :
            /\ index' = [index EXCEPT ![Plan[version].index] = s]
            /\ \/ s \in {"valid", "invalid"} \/ Plan[version].op = "drop"
               \/ index[Plan[version].index] = "absent"
            /\ \/ at' = "working" /\ s = IF Plan[version].op = "build" THEN "building" ELSE "dropping"
               \/ at' = "record" /\ s = IF Plan[version].op = "build" THEN "valid" ELSE "absent"
  <2>1. CASE BeginBuild
    BY <2>1 DEF BeginBuild
  <2>2. CASE BeginDrop
    BY <2>2 DEF BeginDrop
  <2>3. CASE EndConcurrent
    BY <2>3, <1>4 DEF EndConcurrent, Finished
  <2> QED  BY <2>1, <2>2, <2>3
<1>7. JobInv' /\ OrphanInv'
  BY <1>1, <1>2, <1>3 DEF JobInv, OrphanInv
<1>8. InTurn(version)' /\ Concurrent(version)' /\ orphan' = NoOrphan
  BY <1>2, <1>3 DEF InTurn, Concurrent
<1>9. CASE /\ index' = index /\ at' = "record" /\ at = "execute"
           /\ \/ Plan[version].op = "build" /\ index[Plan[version].index] # "absent"
              \/ Plan[version].op = "drop" /\ index[Plan[version].index] = "absent"
  <2>1. Segment' /\ BuildsEnded' /\ LegacyGone'
    BY <1>1, <1>2, <1>9, KeptRecords
  <2>2. TypeOK'
    BY <1>1, <1>2, <1>3, <1>9 DEF TypeOK
  <2>3. SessionInv'
    BY <1>2, <1>5, <1>8, <1>9 DEF SessionInv, Over
  <2>4. Unfinished'
    BY <1>1, <1>2, <1>3, <1>9 DEF Unfinished
  <2> QED  BY <1>7, <2>1, <2>2, <2>3, <2>4 DEF SqlxInv
<1>10. ASSUME NEW s \in {"absent", "building", "valid", "invalid", "dropping"},
              index' = [index EXCEPT ![Plan[version].index] = s],
              \/ s \in {"valid", "invalid"} \/ Plan[version].op = "drop"
              \/ index[Plan[version].index] = "absent",
              \/ at' = "working" /\ s = IF Plan[version].op = "build" THEN "building" ELSE "dropping"
              \/ at' = "record" /\ s = IF Plan[version].op = "build" THEN "valid" ELSE "absent"
       PROVE  SqlxInv'
  <2>1. Segment' /\ BuildsEnded' /\ LegacyGone'
    BY <1>1, <1>2, <1>3, <1>10, TouchedRecords
  <2>2. /\ index' \in [Index -> {"absent", "building", "valid", "invalid", "dropping"}]
        /\ index'[Plan[version].index] = s
        /\ \A i \in Index : i # Plan[version].index => index'[i] = index[i]
    BY <1>1, <1>3, <1>10, WrittenIndex
  <2>3. TypeOK'
    BY <1>1, <1>2, <1>3, <2>2 DEF TypeOK
  <2>4. SessionInv'
    BY <1>2, <1>4, <1>8, <1>10, <2>2 DEF SessionInv, Over, UnderWay
  <2>5. Unfinished'
    BY <1>1, <1>2, <1>3, <1>10, <2>2 DEF Unfinished
  <2> QED  BY <1>7, <2>1, <2>3, <2>4, <2>5 DEF SqlxInv
<1> QED  BY <1>6, <1>9, <1>10

LEMMA RecordStep ==
  ASSUME SqlxInv, RecordMigration
  PROVE  SqlxInv'
<1>1. TypeOK /\ Segment /\ JobInv /\ SessionInv /\ OrphanInv /\ Unfinished
      /\ BuildsEnded /\ LegacyGone
  BY DEF SqlxInv
<1>2. /\ at = "record" /\ recorded' = recorded \cup {version} /\ at' = "pick" /\ version' = 0
      /\ UNCHANGED <<job, attempts, limited, index, orphan, busy, held, crashes, deaths, timeouts>>
  BY DEF RecordMigration
<1>3. InTurn(version) /\ version \in Version /\ orphan = NoOrphan /\ Over(version)
      /\ recorded \subseteq Version
  BY <1>1, <1>2 DEF SessionInv, InTurn, TypeOK
<1>4. TypeOK' /\ JobInv' /\ SessionInv' /\ OrphanInv'
  BY <1>1, <1>2, <1>3 DEF TypeOK, JobInv, SessionInv, OrphanInv
<1>5. Unfinished' /\ Segment'
  BY <1>1, <1>2, <1>3 DEF Unfinished, Segment, InTurn
<1>6. BuildsEnded'
  BY <1>1, <1>2, <1>3 DEF BuildsEnded, Superseded, Over
<1>7. LegacyGone'
  BY <1>1, <1>2, <1>3, PlanTenth DEF LegacyGone, Over
<1> QED  BY <1>4, <1>5, <1>6, <1>7 DEF SqlxInv

\* A lock_timeout, or the death of the pod, ends the session.
LEMMA SessionEnds ==
  ASSUME SqlxInv, TimeOut \/ PodDies
  PROVE  SqlxInv'
<1>1. TypeOK /\ Segment /\ JobInv /\ SessionInv /\ OrphanInv /\ Unfinished
      /\ BuildsEnded /\ LegacyGone
  BY DEF SqlxInv
<1>2. at # "none" /\ Leave /\ UNCHANGED <<recorded, busy, held, crashes>>
      /\ at \in {"none", "pick", "execute", "working", "record"}
      /\ timeouts' \in Nat
  BY <1>1 DEF TimeOut, PodDies, TypeOK
<1>3. /\ JobInv'
      /\ job' \in {"running", "complete", "failed"} /\ attempts' = attempts
      /\ at' = "none" /\ version' = 0 /\ limited' = FALSE
  BY <1>1, <1>2, LeaveInOrder
<1>4. SessionInv'
  BY <1>3 DEF SessionInv
<1>5. CASE PodDies
  <2>1. /\ UNCHANGED index /\ deaths < MaxDeaths /\ deaths' = deaths + 1
        /\ orphan' = IF at = "working" THEN [of |-> version, limited |-> limited, last |-> FALSE] ELSE orphan
    BY <1>5 DEF PodDies
  <2>2. Segment' /\ BuildsEnded' /\ LegacyGone'
    BY <1>1, <1>2, <2>1, KeptRecords
  <2>3. deaths' \in 0..MaxDeaths
    BY <1>1, <2>1, LimitsAssumption DEF TypeOK
  <2>4. CASE at = "working"
    <3>1. /\ InTurn(version) /\ Concurrent(version) /\ UnderWay(version)
          /\ orphan = NoOrphan /\ version \in Version /\ limited \in BOOLEAN
          /\ orphan' = [of |-> version, limited |-> limited, last |-> FALSE]
      BY <1>1, <2>1, <2>4 DEF SessionInv, TypeOK, InTurn
    <3>2. TypeOK'
      <4>1. orphan' \in [of : Version, limited : BOOLEAN, last : BOOLEAN]
        BY <3>1
      <4> QED  BY <1>1, <1>2, <1>3, <2>1, <2>3, <4>1 DEF TypeOK
    <3>3. OrphanInv'
      BY <1>2, <1>3, <2>1, <3>1 DEF OrphanInv, InTurn, Concurrent, UnderWay
    <3>4. orphan' # NoOrphan /\ orphan'.of = version
      BY <3>1, PlanLength DEF NoOrphan
    <3>5. Unfinished'
      BY <1>1, <2>1, <3>1, <3>4 DEF Unfinished
    <3> QED  BY <1>3, <1>4, <2>2, <3>2, <3>3, <3>5 DEF SqlxInv
  <2>5. CASE at # "working"
    <3>1. orphan' = orphan
      BY <2>1, <2>5
    <3>2. TypeOK'
      BY <1>1, <1>2, <1>3, <2>1, <2>3, <3>1 DEF TypeOK
    <3>3. OrphanInv' /\ Unfinished'
      BY <1>1, <1>2, <1>3, <2>1, <2>5, <3>1
         DEF OrphanInv, Unfinished, InTurn, Concurrent, UnderWay
    <3> QED  BY <1>3, <1>4, <2>2, <3>2, <3>3 DEF SqlxInv
  <2> QED  BY <2>4, <2>5
<1>6. CASE TimeOut
  <2>1. UNCHANGED <<orphan, deaths>>
    BY <1>6 DEF TimeOut
  <2>2. \/ at = "execute" /\ index' = index
        \/ at = "working" /\ index' = [index EXCEPT ![Plan[version].index] = "invalid"]
    BY <1>6 DEF TimeOut, CutShort
  <2>3. CASE at = "execute" /\ index' = index
    <3>1. Segment' /\ BuildsEnded' /\ LegacyGone'
      BY <1>1, <1>2, <2>3, KeptRecords
    <3>2. TypeOK'
      BY <1>1, <1>2, <1>3, <2>1, <2>3 DEF TypeOK
    <3>3. OrphanInv' /\ Unfinished'
      BY <1>1, <1>2, <1>3, <2>1, <2>3
         DEF OrphanInv, Unfinished, InTurn, Concurrent, UnderWay
    <3> QED  BY <1>3, <1>4, <3>1, <3>2, <3>3 DEF SqlxInv
  <2>4. CASE at = "working" /\ index' = [index EXCEPT ![Plan[version].index] = "invalid"]
    <3>1. InTurn(version) /\ version \in Version /\ orphan = NoOrphan
      BY <1>1, <2>4 DEF SessionInv, InTurn
    <3>2. Segment' /\ BuildsEnded' /\ LegacyGone'
      BY <1>1, <1>2, <2>4, <3>1, TouchedRecords
    <3>3. /\ index' \in [Index -> {"absent", "building", "valid", "invalid", "dropping"}]
          /\ index'[Plan[version].index] = "invalid"
          /\ \A i \in Index : i # Plan[version].index => index'[i] = index[i]
      BY <1>1, <2>4, <3>1, WrittenIndex
    <3>4. TypeOK'
      BY <1>1, <1>2, <1>3, <2>1, <3>3 DEF TypeOK
    <3>5. OrphanInv' /\ Unfinished'
      BY <1>1, <2>1, <3>1, <3>3 DEF OrphanInv, Unfinished
    <3> QED  BY <1>3, <1>4, <3>2, <3>4, <3>5 DEF SqlxInv
  <2> QED  BY <2>2, <2>3, <2>4
<1> QED  BY <1>5, <1>6

\* The statement that outlived its client ends.
LEMMA OrphanStep ==
  ASSUME SqlxInv, OrphanEnds \/ (Deadlock /\ orphan' = NoOrphan)
  PROVE  SqlxInv'
<1>1. TypeOK /\ Segment /\ JobInv /\ SessionInv /\ OrphanInv /\ Unfinished
      /\ BuildsEnded /\ LegacyGone
  BY DEF SqlxInv
<1> DEFINE v == orphan.of
<1>2. /\ orphan # NoOrphan /\ orphan' = NoOrphan
      /\ UNCHANGED <<job, attempts, at, version, limited, recorded, busy, held, crashes, deaths>>
      /\ timeouts' \in Nat
      /\ index' \in {Finished(v), CutShort(v)}
  <2>1. /\ orphan # NoOrphan /\ orphan' = NoOrphan /\ timeouts' \in Nat
        /\ UNCHANGED <<recorded, busy, held, crashes, deaths>>
    BY <1>1 DEF OrphanEnds, Deadlock, TypeOK
  <2>2. CASE OrphanEnds
    BY <2>1, <2>2 DEF OrphanEnds, podVars
  <2>3. CASE Deadlock
    <3>1. [orphan EXCEPT !.last = TRUE] # NoOrphan
      <4>1. orphan \in [of : Version, limited : BOOLEAN, last : BOOLEAN]
        BY <1>1, <2>1 DEF TypeOK
      <4>2. [orphan EXCEPT !.last = TRUE].last = TRUE
        BY <4>1
      <4> QED  BY <4>2 DEF NoOrphan
    <3> QED  BY <2>1, <2>3, <3>1 DEF Deadlock, podVars
  <2> QED  BY <2>1, <2>2, <2>3
<1>3. InTurn(v) /\ v \in Version /\ Concurrent(v) /\ Plan[v].op \in {"build", "drop"}
  BY <1>1, <1>2, PlanShape DEF OrphanInv, InTurn
<1>4. at \notin {"working", "record"}
  BY <1>1, <1>2 DEF SessionInv
<1>5. PICK s \in {"valid", "absent", "invalid"} :
         /\ index' = [index EXCEPT ![Plan[v].index] = s]
         /\ s \in {"valid", "invalid"} \/ Plan[v].op = "drop"
  <2>1. CASE index' = Finished(v)
    BY <1>3, <2>1 DEF Finished
  <2>2. CASE index' = CutShort(v)
    BY <2>2 DEF CutShort
  <2> QED  BY <1>2, <2>1, <2>2
<1> HIDE DEF v
<1>6. Segment' /\ BuildsEnded' /\ LegacyGone'
  BY <1>1, <1>2, <1>3, <1>5, TouchedRecords
<1>7. /\ index' \in [Index -> {"absent", "building", "valid", "invalid", "dropping"}]
      /\ index'[Plan[v].index] = s
      /\ \A i \in Index : i # Plan[v].index => index'[i] = index[i]
  BY <1>1, <1>3, <1>5, WrittenIndex
<1>8. TypeOK'
  BY <1>1, <1>2, <1>7 DEF TypeOK
<1>9. JobInv' /\ SessionInv' /\ OrphanInv'
  BY <1>1, <1>2, <1>4 DEF JobInv, SessionInv, OrphanInv, InTurn
<1>10. Unfinished'
  BY <1>1, <1>2, <1>4, <1>7 DEF Unfinished, v
<1> QED  BY <1>6, <1>8, <1>9, <1>10 DEF SqlxInv

\* The retry gives way to the statement that outlived its client.
LEMMA DeadlockStep ==
  ASSUME SqlxInv, Deadlock
  PROVE  SqlxInv'
<1>1. TypeOK /\ Segment /\ JobInv /\ SessionInv /\ OrphanInv /\ Unfinished
      /\ BuildsEnded /\ LegacyGone
  BY DEF SqlxInv
<1>2. CASE orphan' = NoOrphan
  BY <1>2, OrphanStep
<1>3. CASE orphan' # NoOrphan
  <2>1. /\ orphan # NoOrphan /\ orphan' = [orphan EXCEPT !.last = TRUE] /\ Leave
        /\ at = "execute" /\ UNCHANGED <<recorded, index, busy, held, crashes, deaths, timeouts>>
    BY <1>3 DEF Deadlock
  <2>2. /\ JobInv'
        /\ job' \in {"running", "complete", "failed"} /\ attempts' = attempts
        /\ at' = "none" /\ version' = 0 /\ limited' = FALSE
    BY <1>1, <2>1, LeaveInOrder
  <2>3. Segment' /\ BuildsEnded' /\ LegacyGone'
    BY <1>1, <2>1, KeptRecords
  <2>4. orphan \in [of : Version, limited : BOOLEAN, last : BOOLEAN]
    BY <1>1, <2>1 DEF TypeOK
  <2>5. orphan' \in [of : Version, limited : BOOLEAN, last : BOOLEAN] /\ orphan'.of = orphan.of
    BY <2>1, <2>4
  <2>6. TypeOK'
    BY <1>1, <2>1, <2>2, <2>5 DEF TypeOK
  <2>7. SessionInv'
    BY <2>2 DEF SessionInv
  <2>8. OrphanInv'
    BY <1>1, <2>1, <2>2, <2>5 DEF OrphanInv, InTurn, Concurrent, UnderWay
  <2>9. Unfinished'
    BY <1>1, <1>3, <2>1, <2>2, <2>5 DEF Unfinished
  <2> QED  BY <2>2, <2>3, <2>6, <2>7, <2>8, <2>9 DEF SqlxInv
<1> QED  BY <1>2, <1>3

\* The server restarts, cutting short whatever concurrent statement there is.
LEMMA RestartStep ==
  ASSUME SqlxInv, ServerRestarts
  PROVE  SqlxInv'
<1>1. TypeOK /\ Segment /\ JobInv /\ SessionInv /\ OrphanInv /\ Unfinished
      /\ BuildsEnded /\ LegacyGone
  BY DEF SqlxInv
<1>2. /\ crashes < MaxCrashes /\ crashes' = crashes + 1 /\ held' = FALSE /\ orphan' = NoOrphan
      /\ index' = CASE at = "working"     -> CutShort(version)
                    [] orphan # NoOrphan  -> CutShort(orphan.of)
                    [] OTHER              -> index
      /\ UNCHANGED <<recorded, busy, deaths, timeouts>>
  BY DEF ServerRestarts
<1>3. /\ JobInv'
      /\ job' \in {"running", "complete", "failed"} /\ attempts' = attempts
      /\ at' = "none" /\ version' = 0 /\ limited' \in BOOLEAN
  <2>1. CASE at = "none"
    BY <1>1, <1>2, <2>1 DEF ServerRestarts, podVars, JobInv, TypeOK
  <2>2. CASE at # "none"
    <3>1. Leave
      BY <2>2 DEF ServerRestarts
    <3> QED  BY <1>1, <1>2, <2>2, <3>1, LeaveInOrder
  <2> QED  BY <2>1, <2>2
<1>4. crashes' \in 0..MaxCrashes /\ {busy', held'} \subseteq BOOLEAN
  <2>1. crashes' \in 0..MaxCrashes
    BY <1>1, <1>2, LimitsAssumption DEF TypeOK
  <2>2. {busy', held'} \subseteq BOOLEAN
    BY <1>1, <1>2 DEF TypeOK
  <2> QED  BY <2>1, <2>2
<1>5. SessionInv' /\ OrphanInv'
  BY <1>2, <1>3 DEF SessionInv, OrphanInv
<1>6. CASE index' = index /\ at # "working" /\ orphan = NoOrphan
  <2>1. Segment' /\ BuildsEnded' /\ LegacyGone'
    BY <1>1, <1>2, <1>6, KeptRecords
  <2>2. TypeOK'
    BY <1>1, <1>2, <1>3, <1>4, <1>6 DEF TypeOK
  <2>3. Unfinished'
    BY <1>1, <1>6 DEF Unfinished
  <2> QED  BY <1>3, <1>5, <2>1, <2>2, <2>3 DEF SqlxInv
<1>7. ASSUME NEW v, InTurn(v), index' = [index EXCEPT ![Plan[v].index] = "invalid"],
             \/ at = "working" /\ orphan = NoOrphan /\ v = version
             \/ at # "working" /\ orphan # NoOrphan /\ v = orphan.of
      PROVE  SqlxInv'
  <2>1. v \in Version
    BY <1>7 DEF InTurn
  <2>2. Segment' /\ BuildsEnded' /\ LegacyGone'
    BY <1>1, <1>2, <1>7, TouchedRecords
  <2>3. /\ index' \in [Index -> {"absent", "building", "valid", "invalid", "dropping"}]
        /\ index'[Plan[v].index] = "invalid"
        /\ \A i \in Index : i # Plan[v].index => index'[i] = index[i]
    BY <1>1, <1>7, <2>1, WrittenIndex
  <2>4. TypeOK'
    BY <1>1, <1>2, <1>3, <1>4, <2>3 DEF TypeOK
  <2>5. Unfinished'
    BY <1>1, <1>7, <2>3 DEF Unfinished
  <2> QED  BY <1>3, <1>5, <2>2, <2>4, <2>5 DEF SqlxInv
<1>8. CASE at = "working"
  <2>1. InTurn(version) /\ orphan = NoOrphan
    BY <1>1, <1>8 DEF SessionInv
  <2>2. index' = [index EXCEPT ![Plan[version].index] = "invalid"]
    BY <1>2, <1>8, <2>1 DEF CutShort
  <2> QED  BY <1>7, <1>8, <2>1, <2>2
<1>9. CASE at # "working" /\ orphan # NoOrphan
  <2>1. InTurn(orphan.of)
    BY <1>1, <1>9 DEF OrphanInv
  <2>2. index' = [index EXCEPT ![Plan[orphan.of].index] = "invalid"]
    BY <1>2, <1>9, <2>1 DEF CutShort
  <2> QED  BY <1>7, <1>9, <2>1, <2>2
<1>10. CASE at # "working" /\ orphan = NoOrphan
  <2>1. index' = index
    BY <1>2, <1>10
  <2> QED  BY <1>6, <1>10, <2>1
<1> QED  BY <1>8, <1>9, <1>10

\* The application's transactions, and steps that change nothing.
LEMMA OtherSteps ==
  ASSUME SqlxInv, Hold \/ Unhold \/ UNCHANGED vars
  PROVE  SqlxInv'
<1>1. TypeOK /\ Segment /\ JobInv /\ SessionInv /\ OrphanInv /\ Unfinished
      /\ BuildsEnded /\ LegacyGone
  BY DEF SqlxInv
<1>2. /\ UNCHANGED <<job, attempts, at, version, limited, recorded, index, orphan,
                     busy, crashes, deaths, timeouts>>
      /\ held' \in {TRUE, FALSE, held}
  BY DEF Hold, Unhold, vars, podVars, dbVars
<1>3. {busy', held'} \subseteq BOOLEAN
  BY <1>1, <1>2 DEF TypeOK
<1>4. TypeOK'
  BY <1>1, <1>2, <1>3 DEF TypeOK
<1>5. Segment' /\ BuildsEnded' /\ LegacyGone'
  BY <1>1, <1>2, KeptRecords
<1>6. JobInv' /\ SessionInv' /\ OrphanInv' /\ Unfinished'
  BY <1>1, <1>2
     DEF JobInv, SessionInv, OrphanInv, Unfinished, InTurn, Concurrent, UnderWay, Over
<1> QED  BY <1>4, <1>5, <1>6 DEF SqlxInv

LEMMA StepInvariant == SqlxInv /\ [Next]_vars => SqlxInv'
<1> SUFFICES ASSUME SqlxInv, [Next]_vars  PROVE SqlxInv'
  OBVIOUS
<1>1. CASE StartPod \/ PickMigration \/ MigrationsDone
  BY <1>1, SessionSteps
<1>2. CASE Transact
  BY <1>2, TransactStep
<1>3. CASE BeginBuild \/ BeginDrop \/ EndConcurrent
  BY <1>3, StatementSteps
<1>4. CASE RecordMigration
  BY <1>4, RecordStep
<1>5. CASE TimeOut \/ PodDies
  BY <1>5, SessionEnds
<1>6. CASE OrphanEnds
  BY <1>6, OrphanStep
<1>7. CASE Deadlock
  BY <1>7, DeadlockStep
<1>8. CASE ServerRestarts
  BY <1>8, RestartStep
<1>9. CASE Hold \/ Unhold \/ UNCHANGED vars
  BY <1>9, OtherSteps
<1> QED  BY <1>1, <1>2, <1>3, <1>4, <1>5, <1>6, <1>7, <1>8, <1>9 DEF Next, Sqlx

LEMMA Invariance == Spec => []SqlxInv
<1>1. Init => SqlxInv
  BY InitInvariant
<1>2. SqlxInv /\ [Next]_vars => SqlxInv'
  BY StepInvariant
<1> QED  BY <1>1, <1>2, PTL DEF Spec

-----------------------------------------------------------------------------
(***************************************************************************)
(* The theorems.                                                            *)
(***************************************************************************)
\* Whatever dies, restarts or times out, every variable keeps its type; the Job
\* starts no pod beyond its backoff limit.
THEOREM Typing == Spec => []TypeOK
<1>1. SqlxInv => TypeOK
  BY DEF SqlxInv
<1> QED  BY <1>1, Invariance, PTL

\* A recorded build is over, and a Job that succeeds has everything on record and
\* the legacy index gone, however often statements were cut short or outlived
\* the pod that sent them.
THEOREM RecordedIsOver == Spec => []RecordedBuildsEnded
<1>1. SqlxInv => RecordedBuildsEnded
  BY PlanTenth DEF SqlxInv, RecordedBuildsEnded, BuildsEnded, LegacyGone, JobInv
<1> QED  BY <1>1, Invariance, PTL

-----------------------------------------------------------------------------
(***************************************************************************)
(* What failures cost.                                                      *)
(***************************************************************************)
LEMMA IndexesFinite == IsFiniteSet(Index)
<1> DEFINE I3 == ({"distinct_id"} \cup {"person_id"}) \cup {"email_fair_dequeue"}
           I5 == (I3 \cup {"email_fair_dequeue_v2"}) \cup {"action_reschedule"}
           I7 == (I5 \cup {"null_person_anchor"}) \cup {"email_priority_fair_dequeue"}
<1>1. IsFiniteSet({"distinct_id"})
  BY FS_Singleton
<1>2. IsFiniteSet({"distinct_id"} \cup {"person_id"})
  BY <1>1, FS_AddElement
<1>3. IsFiniteSet(I3)
  BY <1>2, FS_AddElement
<1>4. IsFiniteSet(I3 \cup {"email_fair_dequeue_v2"})
  BY <1>3, FS_AddElement
<1>5. IsFiniteSet(I5)
  BY <1>4, FS_AddElement
<1>6. IsFiniteSet(I5 \cup {"null_person_anchor"})
  BY <1>5, FS_AddElement
<1>7. IsFiniteSet(I7)
  BY <1>6, FS_AddElement
<1>8. Index = I7
  BY DEF Index
<1> QED  BY <1>7, <1>8

\* What a step can do to the number of invalid indexes.
LEMMA InvalidCount ==
  ASSUME TypeOK, NEW i \in Index, NEW s,
         index' = index \/ index' = [index EXCEPT ![i] = s]
  PROVE  /\ Cardinality(Invalid) \in Nat /\ Cardinality(Invalid') \in Nat
         /\ Cardinality(Invalid') <= Cardinality(Invalid) + 1
         /\ s # "invalid" => Cardinality(Invalid') <= Cardinality(Invalid)
<1>1. index \in [Index -> {"absent", "building", "valid", "invalid", "dropping"}]
  BY DEF TypeOK
<1>2. Invalid \subseteq Index /\ Invalid' \subseteq Index
  BY DEF Invalid
<1>3. IsFiniteSet(Invalid) /\ IsFiniteSet(Invalid')
  BY <1>2, IndexesFinite, FS_Subset
<1>4. Cardinality(Invalid) \in Nat /\ Cardinality(Invalid') \in Nat
  BY <1>3, FS_CardinalityType
<1>5. IsFiniteSet(Invalid \cup {i})
      /\ Cardinality(Invalid \cup {i}) \in {Cardinality(Invalid), Cardinality(Invalid) + 1}
  BY <1>3, FS_AddElement
<1>6. Invalid' \subseteq Invalid \cup {i}
  BY <1>1 DEF Invalid
<1>7. Cardinality(Invalid') <= Cardinality(Invalid \cup {i})
  BY <1>5, <1>6, FS_Subset
<1>8. ASSUME s # "invalid"  PROVE Cardinality(Invalid') <= Cardinality(Invalid)
  <2>1. Invalid' \subseteq Invalid
    BY <1>1, <1>8 DEF Invalid
  <2> QED  BY <1>3, <2>1, FS_Subset
<1> QED  BY <1>4, <1>5, <1>7, <1>8

\* A failure adds two to the bound; a session that ends spends one of them and an
\* index cut short the other, and an orphan owes the second of its pod's death.
LEMMA PriceStep ==
  ASSUME SqlxInv, PriceInv, [Next]_vars
  PROVE  PriceInv'
<1> DEFINE Failures == deaths + crashes + timeouts
<1>1. /\ TypeOK /\ JobInv /\ SessionInv /\ OrphanInv /\ timeouts \in Nat
      /\ Lost + Owed + Cardinality(Invalid) <= 2 * Failures
  BY DEF SqlxInv, PriceInv, TypeOK
<1>2. /\ deaths \in Nat /\ crashes \in Nat /\ Failures \in Nat
      /\ attempts \in Nat /\ Lost \in Int /\ Owed \in {0, 1} /\ Owed' \in {0, 1}
      /\ orphan = NoOrphan => Owed = 0
      /\ orphan' = NoOrphan => Owed' = 0
      /\ at # "none" => job = "running"
  BY <1>1, LimitsAssumption DEF TypeOK, Lost, Owed, JobInv
<1>3. Cardinality(Invalid) \in Nat
  BY IndexesFinite, FS_Subset, FS_CardinalityType DEF Invalid
<1>4. index' = index => Invalid' = Invalid
  BY DEF Invalid
\* A session that ends is an attempt lost.
<1>5. at # "none" /\ Leave => Lost' = Lost + 1
  BY <1>2 DEF Leave, Lost
<1>6. UNCHANGED <<job, at, attempts>> => Lost' = Lost
  BY DEF Lost
\* The index of the statement that runs, and what cutting it short does.
<1>7. ASSUME NEW v, InTurn(v), index' = CutShort(v)
      PROVE  Cardinality(Invalid') \in Nat /\ Cardinality(Invalid') <= Cardinality(Invalid) + 1
  <2>1. Plan[v].index \in Index
    BY <1>7, PlanShape DEF InTurn
  <2>2. index' = [index EXCEPT ![Plan[v].index] = "invalid"]
    BY <1>7 DEF CutShort
  <2> QED  BY <1>1, <2>1, <2>2, InvalidCount
\* Steps that cost nothing.
<1>8. ASSUME UNCHANGED <<deaths, crashes, timeouts>>, Lost' = Lost, Owed' <= Owed,
             Cardinality(Invalid') \in Nat, Cardinality(Invalid') <= Cardinality(Invalid)
      PROVE  PriceInv'
  <2>1. Lost' + Owed' + Cardinality(Invalid') <= 2 * Failures /\ Failures' = Failures
    BY <1>1, <1>2, <1>3, <1>8
  <2> QED  BY <1>1, <1>8, <2>1 DEF PriceInv
\* Steps that pay for what they cost.
<1>9. ASSUME timeouts' \in Nat, Failures' = Failures + 1, Lost' \in Int,
             Cardinality(Invalid') \in Nat,
             Lost' + Owed' + Cardinality(Invalid') <= Lost + Owed + Cardinality(Invalid) + 2
      PROVE  PriceInv'
  <2>1. Lost' + Owed' + Cardinality(Invalid') <= 2 * Failures'
    <3> HIDE DEF Failures
    <3> QED  BY <1>1, <1>2, <1>3, <1>9
  <2> QED  BY <1>9, <2>1 DEF PriceInv
<1>10. CASE StartPod \/ PickMigration \/ MigrationsDone \/ RecordMigration
  <2>1. UNCHANGED <<index, orphan, deaths, crashes, timeouts>>
    BY <1>10 DEF StartPod, PickMigration, MigrationsDone, RecordMigration, dbVars
  <2>2. Lost' = Lost
    BY <1>2, <1>10 DEF StartPod, PickMigration, MigrationsDone, RecordMigration, Lost
  <2>3. Owed' = Owed
    BY <2>1 DEF Owed
  <2> QED  BY <1>2, <1>3, <1>4, <1>8, <2>1, <2>2, <2>3
<1>11. CASE Transact \/ BeginBuild \/ BeginDrop \/ EndConcurrent
  <2>1. /\ at \in {"execute", "working"} /\ at' \in {"pick", "working", "record"}
        /\ UNCHANGED <<job, attempts, orphan, deaths, crashes, timeouts>>
    BY <1>11 DEF Transact, BeginBuild, BeginDrop, EndConcurrent
  <2>2. Lost' = Lost /\ Owed' = Owed
    BY <1>2, <2>1 DEF Lost, Owed
  <2>3. PICK s \in {"building", "dropping", "valid", "absent"} :
           index' = index \/ index' = [index EXCEPT ![Plan[version].index] = s]
    BY <1>11 DEF Transact, BeginBuild, BeginDrop, EndConcurrent, Finished
  <2>4. Plan[version].index \in Index
    BY <1>1, <2>1, PlanShape DEF SessionInv, InTurn
  <2>5. Cardinality(Invalid') \in Nat /\ Cardinality(Invalid') <= Cardinality(Invalid)
    BY <1>1, <2>3, <2>4, InvalidCount
  <2> QED  BY <1>2, <1>8, <2>1, <2>2, <2>5
<1>12. CASE TimeOut
  <2>1. /\ Leave /\ at \in {"execute", "working"} /\ timeouts' = timeouts + 1
        /\ UNCHANGED <<orphan, deaths, crashes>>
        /\ index' = index \/ (at = "working" /\ index' = CutShort(version))
    BY <1>12 DEF TimeOut
  <2>2. Lost' = Lost + 1 /\ Owed' = Owed
    BY <1>5, <2>1 DEF Owed
  <2>3. at = "working" => InTurn(version)
    BY <1>1 DEF SessionInv
  <2>4. Cardinality(Invalid') \in Nat /\ Cardinality(Invalid') <= Cardinality(Invalid) + 1
    BY <1>3, <1>4, <1>7, <2>1, <2>3
  <2>5. Failures' = Failures + 1 /\ timeouts' \in Nat
    BY <1>1, <1>2, <2>1
  <2> QED  BY <1>2, <1>3, <1>9, <2>2, <2>4, <2>5
<1>13. CASE PodDies
  <2>1. /\ at # "none" /\ deaths' = deaths + 1 /\ Leave /\ UNCHANGED <<index, crashes, timeouts>>
    BY <1>13 DEF PodDies
  <2>2. Failures' = Failures + 1 /\ timeouts' \in Nat
    BY <1>1, <1>2, <2>1
  <2> QED  BY <1>2, <1>3, <1>4, <1>5, <1>9, <2>1, <2>2
<1>14. CASE OrphanEnds
  <2>1. /\ orphan # NoOrphan /\ orphan' = NoOrphan /\ InTurn(orphan.of)
        /\ UNCHANGED <<job, attempts, at, deaths, crashes>>
    BY <1>1, <1>14 DEF OrphanEnds, OrphanInv, podVars
  <2>2. Lost' = Lost /\ Owed' = 0
    BY <1>2, <1>6, <2>1
  <2>3. CASE index' = Finished(orphan.of) /\ UNCHANGED timeouts
    <3>1. PICK s \in {"valid", "absent"} : index' = [index EXCEPT ![Plan[orphan.of].index] = s]
      BY <2>3 DEF Finished
    <3>2. Plan[orphan.of].index \in Index
      BY <2>1, PlanShape DEF InTurn
    <3>3. Cardinality(Invalid') \in Nat /\ Cardinality(Invalid') <= Cardinality(Invalid)
      BY <1>1, <3>1, <3>2, InvalidCount
    <3> QED  BY <1>2, <1>8, <2>1, <2>2, <2>3, <3>3
  <2>4. CASE index' = CutShort(orphan.of) /\ timeouts' = timeouts + 1
    <3>1. Cardinality(Invalid') \in Nat /\ Cardinality(Invalid') <= Cardinality(Invalid) + 1
      BY <1>7, <2>1, <2>4
    <3>2. Failures' = Failures + 1 /\ timeouts' \in Nat
      BY <1>1, <1>2, <2>1, <2>4
    <3> QED  BY <1>2, <1>3, <1>9, <2>2, <3>1, <3>2
  <2> QED  BY <1>14, <2>3, <2>4 DEF OrphanEnds
\* A deadlock spends what the orphan owes.
<1>15. CASE Deadlock
  <2>1. /\ orphan # NoOrphan /\ Owed = 1 /\ at = "execute" /\ InTurn(orphan.of)
        /\ UNCHANGED <<deaths, crashes, timeouts>>
    BY <1>1, <1>15 DEF Deadlock, Owed, OrphanInv
  <2>2. ASSUME Owed' = 0, Lost' \in Int, Cardinality(Invalid') \in Nat,
               Lost' + Cardinality(Invalid') <= Lost + Cardinality(Invalid) + 1
        PROVE  PriceInv'
    <3>1. Lost' + Owed' + Cardinality(Invalid') <= 2 * Failures /\ Failures' = Failures
      BY <1>1, <1>2, <1>3, <2>1, <2>2
    <3> QED  BY <1>1, <2>1, <3>1 DEF PriceInv
  <2>3. CASE index' = CutShort(orphan.of) /\ orphan' = NoOrphan /\ UNCHANGED podVars
    <3>1. Cardinality(Invalid') \in Nat /\ Cardinality(Invalid') <= Cardinality(Invalid) + 1
      BY <1>7, <2>1, <2>3
    <3>2. Lost' = Lost /\ Owed' = 0
      BY <1>2, <1>6, <2>3 DEF podVars
    <3> QED  BY <1>2, <1>3, <2>2, <3>1, <3>2
  <2>4. CASE orphan' = [orphan EXCEPT !.last = TRUE] /\ Leave /\ UNCHANGED index
    <3>1. orphan \in [of : Version, limited : BOOLEAN, last : BOOLEAN]
      BY <1>1, <2>1 DEF TypeOK
    <3>2. orphan'.last = TRUE
      BY <2>4, <3>1
    <3>3. Owed' = 0
      BY <3>2 DEF Owed
    <3>4. Lost' = Lost + 1
      BY <1>5, <2>1, <2>4
    <3> QED  BY <1>2, <1>3, <1>4, <2>2, <2>4, <3>3, <3>4
  <2> QED  BY <1>15, <2>3, <2>4 DEF Deadlock
<1>16. CASE ServerRestarts
  <2>1. /\ crashes' = crashes + 1 /\ UNCHANGED <<deaths, timeouts>> /\ orphan' = NoOrphan
        /\ IF at = "none" THEN UNCHANGED podVars ELSE Leave
        /\ \/ index' = index
           \/ at = "working" /\ index' = CutShort(version)
           \/ orphan # NoOrphan /\ index' = CutShort(orphan.of)
    BY <1>16 DEF ServerRestarts
  <2>2. Lost' \in {Lost, Lost + 1} /\ Owed' = 0
    BY <1>2, <1>5, <1>6, <2>1 DEF podVars
  <2>3. /\ at = "working" => InTurn(version)
        /\ orphan # NoOrphan => InTurn(orphan.of)
    BY <1>1 DEF SessionInv, OrphanInv
  <2>4. Cardinality(Invalid') \in Nat /\ Cardinality(Invalid') <= Cardinality(Invalid) + 1
    BY <1>3, <1>4, <1>7, <2>1, <2>3
  <2>5. Failures' = Failures + 1 /\ timeouts' \in Nat
    BY <1>1, <1>2, <2>1
  <2> QED  BY <1>2, <1>3, <1>9, <2>2, <2>4, <2>5
<1>17. CASE Hold \/ Unhold \/ UNCHANGED vars
  <2>1. UNCHANGED <<job, attempts, at, index, orphan, deaths, crashes, timeouts>>
    BY <1>17 DEF Hold, Unhold, vars, podVars, dbVars
  <2>2. Lost' = Lost /\ Owed' = Owed
    BY <1>6, <2>1 DEF Owed
  <2> QED  BY <1>2, <1>3, <1>4, <1>8, <2>1, <2>2
<1> QED
  BY <1>10, <1>11, <1>12, <1>13, <1>14, <1>15, <1>16, <1>17 DEF Next, Sqlx

\* For any number of failures and attempts: each death, restart and lock timeout
\* costs at most two of the Job's attempts and indexes together, and nothing else
\* costs any.
THEOREM PriceOfFailure == Spec => []FailuresCostTwo
<1>1. Init => PriceInv
  <2> SUFFICES ASSUME Init  PROVE PriceInv
    OBVIOUS
  <2>1. Invalid = {}
    BY DEF Init, Invalid
  <2>2. Lost = 0 /\ Owed = 0 /\ deaths = 0 /\ crashes = 0 /\ timeouts = 0
    BY DEF Init, Lost, Owed
  <2> QED  BY <2>1, <2>2, FS_EmptySet DEF PriceInv
<1>2. SqlxInv /\ PriceInv /\ [Next]_vars => PriceInv'
  BY PriceStep
<1>3. SqlxInv /\ PriceInv => FailuresCostTwo
  <2> SUFFICES ASSUME SqlxInv, PriceInv
               PROVE  Lost + Cardinality(Invalid) <= 2 * (deaths + crashes + timeouts)
    BY DEF FailuresCostTwo
  <2>1. TypeOK /\ timeouts \in Nat
        /\ Lost + Owed + Cardinality(Invalid) <= 2 * (deaths + crashes + timeouts)
    BY DEF SqlxInv, PriceInv, TypeOK
  <2>2. Lost \in Int /\ Owed \in {0, 1} /\ deaths \in Nat /\ crashes \in Nat
    BY <2>1, LimitsAssumption DEF TypeOK, Lost, Owed
  <2>3. Cardinality(Invalid) \in Nat
    BY IndexesFinite, FS_Subset, FS_CardinalityType DEF Invalid
  <2> QED  BY <2>1, <2>2, <2>3
<1> QED  BY <1>1, <1>2, <1>3, Invariance, PTL DEF Spec
=============================================================================
