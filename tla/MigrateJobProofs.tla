-------------------------- MODULE MigrateJobProofs --------------------------
(***************************************************************************)
(* What is proved of the migrate Job for every graph of migrations, every   *)
(* history found, any number of rows, users, domains and attempts.          *)
(***************************************************************************)
EXTENDS MigrateJob, FiniteSetTheorems, TLAPS

-----------------------------------------------------------------------------
(***************************************************************************)
(* The model-move command takes no history away, whatever the graph of      *)
(* migrations: it removes the row of a squash only, all originals of which  *)
(* stay, and one of whose dependencies, as the files state them, is unmet.  *)
(***************************************************************************)

\* What RecordsKept rests on: a squash is on record only with all it replaces, so
\* that no row of a squash stands in for originals that are not there.
MarkersDerived == \A s \in rec \cap Squash : Whole(s)

\* The dependencies the files state, the originals' included.
Stated(s) == Parents[s] \cup UNION { Parents[o] : o \in Replaces[s] }

\* A dependency that is on record, or among what the squash replaces, leads to
\* nothing unmet in the regular graph: it is redirected only to squashes whose
\* originals are on record.
LEMMA RecordedIsMet ==
    ASSUME MarkersDerived, NEW s \in Squash, Whole(s),
           NEW d \in rec, NEW p \in Redirected(d, RegularGraph)
    PROVE  p \in rec \/ (p \in Squash /\ Whole(p))
<1>1. CASE d \in Squash
  <2>1. d \in RegularGraph
    BY <1>1 DEF MarkersDerived, RegularGraph, Whole
  <2> QED BY <1>1, <2>1 DEF Redirected
<1>2. CASE d \notin Squash
  <2> DEFINE by == { q \in RegularGraph : d \in Replaces[q] }
  <2>1. CASE by = {}
    BY <1>2, <2>1 DEF Redirected
  <2>2. CASE by # {}
    <3>1. p \in by
      BY <1>2, <2>2 DEF Redirected
    <3>2. p \in Squash /\ Replaces[p] \cap rec # {}
      BY <3>1 DEF RegularGraph
    <3> QED BY <3>1, <3>2 DEF RegularGraph
  <2> QED BY <2>1, <2>2
<1> QED BY <1>1, <1>2

\* Hence a row that goes had a dependency stated that is not on record.
LEMMA PrematureUnmet ==
    ASSUME MarkersDerived, NEW s \in Premature
    PROVE  /\ s \in Squash /\ Replaces[s] \subseteq rec
           /\ ~(Stated(s) \subseteq rec \cup Replaces[s])
<1>1. s \in Squash /\ Whole(s) /\ Unmet(s, RegularGraph) # {}
  BY DEF Premature, RegularGraph
<1>2. Replaces[s] \subseteq rec
  BY <1>1 DEF Whole
<1>3. ASSUME Stated(s) \subseteq rec \cup Replaces[s] PROVE FALSE
  <2>1. PICK p : p \in Unmet(s, RegularGraph)
    BY <1>1
  <2>2. p \in ParentsIn(s, RegularGraph) /\ p \notin rec /\ ~(p \in Squash /\ Whole(p))
    BY <2>1 DEF Unmet
  <2>3. PICK d \in Stated(s) : p \in Redirected(d, RegularGraph)
    BY <2>2, <1>1 DEF ParentsIn, Stated
  <2>4. d \in rec
    BY <1>2, <1>3, <2>3
  <2> QED BY <1>1, <2>2, <2>3, <2>4, RecordedIsMet
<1> QED BY <1>1, <1>2, <1>3

LEMMA InitMarkers == Init => MarkersDerived
  BY JobAssumption DEF Init, MarkersDerived, Whole

\* Rows are added, or the row of one squash goes.
LEMMA RowsChange ==
    ASSUME Next
    PROVE  \/ rec' = rec
           \/ \E s \in Squash : s \in Premature /\ rec' = rec \ {s}
           \/ \E s \in Squash : Whole(s) /\ rec' = rec \cup {s}
           \/ \E n : rec' = rec \cup (IF n \in Squash THEN Replaces[n] ELSE {n})
<1> USE DEF moveVars, Fail, Goto
<1>1. CASE Step
  <2>1. ASSUME NEW o \in Node, RecordRow(o)
        PROVE  rec' = rec \cup (IF o \in Squash THEN Replaces[o] ELSE {o})
    <3>1. PICK n \in doing : o \in Own(n) /\ rec' = rec \cup {o}
      BY <2>1 DEF RecordRow
    <3> QED BY <3>1, SquashAssumption DEF Own
  <2> QED
    BY <1>1, <2>1 DEF Step, MoveStep, NotRequired, BeginMoves, SkipMove, RefuseMove, PlanMove, EndMove,
                EndMoves, PlanAll, EndMigrate, RemoveMarker, RecordMarker
<1>2. ASSUME NEW n \in Node, Migrate(n)
      PROVE  rec' = rec \/ rec' = rec \cup (IF n \in Squash THEN Replaces[n] ELSE {n})
  BY <1>2 DEF Migrate, Execute, Own, ExecuteFails
<1>3. CASE CommitBackfill
  BY <1>3 DEF CommitBackfill, Execute, Own
<1>4. CASE Start \/ GiveUp \/ OpenBackfill \/ Claim \/ Rest \/ Kill \/ Write
  BY <1>4 DEF Start, GiveUp, OpenBackfill, Claim, Rest, Kill, Write
<1> QED BY <1>1, <1>2, <1>3, <1>4 DEF Next, Work

LEMMA StepMarkers == MarkersDerived /\ [Next]_vars => MarkersDerived'
<1> SUFFICES ASSUME MarkersDerived, [Next]_vars PROVE MarkersDerived'
  OBVIOUS
<1>1. CASE rec' = rec
  BY <1>1 DEF MarkersDerived, Whole
<1>2. ASSUME NEW s \in Squash, rec' = rec \ {s} PROVE MarkersDerived'
  BY <1>2, SquashAssumption DEF MarkersDerived, Whole
<1>3. ASSUME NEW s \in Squash, Whole(s), rec' = rec \cup {s} PROVE MarkersDerived'
  BY <1>3 DEF MarkersDerived, Whole
<1>4. ASSUME NEW n, rec' = rec \cup (IF n \in Squash THEN Replaces[n] ELSE {n})
      PROVE  MarkersDerived'
  BY <1>4, SquashAssumption DEF MarkersDerived, Whole
<1>5. CASE UNCHANGED vars
  BY <1>1, <1>5 DEF vars, moveVars
<1> QED BY <1>1, <1>2, <1>3, <1>4, <1>5, RowsChange

\* A squash is on record only with all it replaces.
THEOREM MarkersStayDerived == Spec => []MarkersDerived
  BY InitMarkers, StepMarkers, PTL DEF Spec

\* RecordsKept, for every graph of migrations and every history found.
THEOREM RecordsAreKept == Spec => RecordsKept
<1>1. ASSUME MarkersDerived, Next, NEW n \in rec \ rec'
      PROVE  n \in Squash /\ Replaces[n] \subseteq rec /\ ~(Stated(n) \subseteq rec \cup Replaces[n])
  <2>1. PICK s \in Squash : s \in Premature /\ rec' = rec \ {s}
    BY <1>1, RowsChange
  <2>2. n = s
    BY <1>1, <2>1
  <2> QED BY <1>1, <2>1, <2>2, PrematureUnmet
<1>2. ASSUME MarkersDerived, [Next]_vars
      PROVE  [\A n \in rec \ rec' : /\ n \in Squash /\ Replaces[n] \subseteq rec
                                   /\ ~(Stated(n) \subseteq rec \cup Replaces[n])]_vars
  BY <1>1, <1>2
<1>3. MarkersDerived /\ [Next]_vars =>
         [\A n \in rec \ rec' : /\ n \in Squash /\ Replaces[n] \subseteq rec
                               /\ ~(Parents[n] \cup UNION { Parents[o] : o \in Replaces[n] } \subseteq
                                      rec \cup Replaces[n])]_vars
  BY <1>2 DEF Stated
<1> QED BY <1>3, MarkersStayDerived, PTL DEF Spec, RecordsKept

-----------------------------------------------------------------------------
(***************************************************************************)
(* The backfill gives the config to the oldest row of each user, for any    *)
(* number of rows, users and domains, of inserts beside it and of attempts. *)
(*                                                                          *)
(* Rows are inserted with a later date than all others, so what was looked  *)
(* at (born by asof) is never made a duplicate by what came after, and no   *)
(* batch passes over any of it.                                             *)
(***************************************************************************)

Row == [pair : Pair, born : Nat \ {0}, config : Config \cup {Null}]
Count == Cardinality(DOMAIN rows)
Theirs(i) == ConfigOf[rows[i].pair]

RowsOK ==
    /\ IsFiniteSet(DOMAIN rows) /\ DOMAIN rows \subseteq Id
    /\ rows \in [DOMAIN rows -> Row]
    /\ \A i \in DOMAIN rows : rows[i].born <= Count
    /\ \A i, j \in DOMAIN rows : rows[i].born = rows[j].born => i = j

\* Django runs the backfill only when it is not on record, and until then no row
\* has a config.
NotYet == Backfill \notin rec => \A i \in DOMAIN rows : rows[i].config = Null
Planned == (Backfill \in plan => Backfill \notin rec) /\ Backfill \notin doing

Looked(i) == rows[i].born <= asof
Superseded(i) == \E j \in Group(i) : Older(j, i)

\* Of the rows looked at, the batches so far have taken all but the duplicates.
Backfilling ==
    /\ at \in {"moving", "migrating"} /\ Backfill \in plan /\ last \in Nat
    /\ \A i \in DOMAIN rows : Looked(i) =>
          /\ Theirs(i) # Null => (i \in skip <=> Superseded(i))
          /\ i \in claims => Theirs(i) # Null /\ i \notin skip
          /\ Theirs(i) # Null /\ i \notin skip /\ i <= last => i \in claims

BackfillInv ==
    /\ RowsOK /\ NotYet /\ Planned
    /\ asof \in Nat /\ asof <= Count
    /\ IF inside THEN Backfilling ELSE claims = {}
    /\ OldestClaims

-----------------------------------------------------------------------------
LEMMA InitBackfill == Init => BackfillInv
<1> SUFFICES ASSUME Init PROVE BackfillInv
  OBVIOUS
<1>1. PICK h \in Histories : rows = h.rows
  BY DEF Init
<1>2. RowsOK /\ NotYet
  <2>1. /\ DOMAIN rows \subseteq Id /\ IsFiniteSet(DOMAIN rows)
        /\ rows \in [DOMAIN rows -> [pair : Pair, born : 1..Count, config : {Null}]]
        /\ \A i, j \in DOMAIN rows : rows[i].born = rows[j].born => i = j
    BY <1>1, RowsAssumption DEF Count
  <2>2. Count \in Nat
    BY <2>1, FS_CardinalityType DEF Count
  <2>3. \A i \in DOMAIN rows : rows[i] \in [pair : Pair, born : 1..Count, config : {Null}]
    BY <2>1
  <2>4. \A i \in DOMAIN rows : rows[i] \in Row /\ rows[i].born <= Count /\ rows[i].config = Null
    BY <2>2, <2>3 DEF Row
  <2>5. rows \in [DOMAIN rows -> Row]
    BY <2>1, <2>4
  <2> QED BY <2>1, <2>4, <2>5 DEF RowsOK, NotYet
<1>3. Count \in Nat
  BY <1>2, FS_CardinalityType DEF RowsOK, Count
<1> QED BY <1>2, <1>3 DEF Init, BackfillInv, Planned, OldestClaims

\* What leaves the backfill and its rows alone.
LEMMA Elsewhere ==
    ASSUME BackfillInv, UNCHANGED <<rows, skip, last, claims, asof, inside>>,
           Backfill \in rec' <=> Backfill \in rec,
           Planned', inside => at' = at /\ Backfill \in plan'
    PROVE  BackfillInv'
<1> USE DEF BackfillInv
<1>1. RowsOK' /\ NotYet' /\ (asof \in Nat /\ asof <= Count)'
  BY DEF RowsOK, NotYet, Count
<1>2. (IF inside THEN Backfilling ELSE claims = {})'
  BY DEF Backfilling, Looked, Theirs, Superseded, Group, Older
<1>3. OldestClaims'
  BY DEF OldestClaims, Oldest, Group, Older
<1> QED BY <1>1, <1>2, <1>3

\* A row more, younger than all: it joins no group as an older member.
LEMMA Inserted ==
    ASSUME BackfillInv, NEW i \in Id, NEW p \in Pair, Provision(i, p),
           UNCHANGED <<rec, plan, doing, at, inside>>
    PROVE  BackfillInv'
<1> DEFINE new == [pair |-> p, born |-> Count + 1, config |-> Null]
<1> USE DEF BackfillInv
<1>1. /\ i \notin DOMAIN rows /\ UNCHANGED <<skip, last, claims, asof>>
      /\ DOMAIN rows' = DOMAIN rows \cup {i}
      /\ rows'[i] = new /\ \A j \in DOMAIN rows : rows'[j] = rows[j]
      /\ rows' \in [DOMAIN rows' -> {new} \cup { rows[j] : j \in DOMAIN rows }]
  BY DEF Provision, localVars, Count
<1>2. Count \in Nat /\ IsFiniteSet(DOMAIN rows') /\ Count' = Count + 1
  BY <1>1, FS_CardinalityType, FS_AddElement DEF RowsOK, Count
<1>3. \A j \in DOMAIN rows : rows[j] \in Row /\ rows[j].born <= Count
  BY DEF RowsOK
<1>4. RowsOK'
  <2>1. new \in Row
    BY <1>2 DEF Row
  <2>2. \A j \in DOMAIN rows' : rows'[j] \in Row
    BY <1>1, <1>3, <2>1
  <2>3. rows' \in [DOMAIN rows' -> Row]
    BY <1>1, <2>2
  <2>4. \A j \in DOMAIN rows' : rows'[j].born <= Count'
    BY <1>1, <1>2, <1>3 DEF Row
  <2>5. \A j, k \in DOMAIN rows' : rows'[j].born = rows'[k].born => j = k
    BY <1>1, <1>2, <1>3 DEF RowsOK, Row
  <2> QED BY <1>1, <1>2, <2>3, <2>4, <2>5 DEF RowsOK
<1>5. NotYet' /\ Planned'
  BY <1>1 DEF NotYet, Planned
<1>6. \A j \in DOMAIN rows' : Looked(j)' => j \in DOMAIN rows /\ Looked(j)
  BY <1>1, <1>2 DEF Looked
<1>7. \A j \in DOMAIN rows :
         /\ Group(j) \subseteq Group(j)' /\ Group(j)' \subseteq Group(j) \cup {i}
         /\ Theirs(j)' = Theirs(j) /\ ~Older(i, j)'
         /\ \A k \in DOMAIN rows : (Older(j, k)' <=> Older(j, k))
  <2> SUFFICES ASSUME NEW j \in DOMAIN rows
               PROVE  /\ Group(j) \subseteq Group(j)' /\ Group(j)' \subseteq Group(j) \cup {i}
                      /\ Theirs(j)' = Theirs(j) /\ ~Older(i, j)'
                      /\ \A k \in DOMAIN rows : (Older(j, k)' <=> Older(j, k))
    OBVIOUS
  <2>1. Theirs(j)' = Theirs(j) /\ \A k \in DOMAIN rows : (Older(j, k)' <=> Older(j, k))
    BY <1>1 DEF Theirs, Older
  <2>2. ~Older(i, j)'
    BY <1>1, <1>2, <1>3 DEF Older, Row
  <2>3. Group(j) \subseteq Group(j)' /\ Group(j)' \subseteq Group(j) \cup {i}
    BY <1>1 DEF Group
  <2> QED BY <2>1, <2>2, <2>3
<1>8. \A j \in DOMAIN rows : (Superseded(j)' <=> Superseded(j)) /\ Group(j) \subseteq DOMAIN rows
  BY <1>7 DEF Superseded, Group
<1>9. (IF inside THEN Backfilling ELSE claims = {})'
  BY <1>1, <1>6, <1>7, <1>8 DEF Backfilling, Looked
<1>10. \A j \in DOMAIN rows : Looked(j) => (Oldest(j)' <=> Oldest(j))
  <2> SUFFICES ASSUME NEW j \in DOMAIN rows, Looked(j) PROVE Oldest(j)' <=> Oldest(j)
    OBVIOUS
  <2>1. Older(j, i)'
    BY <1>1, <1>2, <1>3 DEF Older, Row
  <2>2. \A k \in Group(j) : Older(j, k)' <=> Older(j, k)
    BY <1>7, <1>8
  <2> QED BY <1>1, <1>7, <2>1, <2>2 DEF Oldest
<1>11. OldestClaims'
  BY <1>1, <1>6, <1>7, <1>10 DEF OldestClaims, Looked, Theirs
<1> QED BY <1>1, <1>2, <1>4, <1>5, <1>9, <1>11

\* The duplicates are computed over all rows there are.
LEMMA Opened ==
    ASSUME BackfillInv, OpenBackfill
    PROVE  BackfillInv'
<1> USE DEF BackfillInv
<1>1. /\ UNCHANGED <<rows, rec, plan, doing, at>> /\ inside' /\ ~inside /\ claims = {} /\ claims' = {}
      /\ last' = 0 /\ asof' = Count /\ skip' = Duplicates
      /\ at \in {"moving", "migrating"} /\ Backfill \in plan /\ Backfill \notin rec
  BY DEF OpenBackfill, BeginBackfill, Runnable, moveVars, Planned, Count
<1>2. Pending = { j \in DOMAIN rows : Theirs(j) # Null }
  BY <1>1 DEF Pending, NotYet, Theirs
<1>3. \A j \in DOMAIN rows : Theirs(j) # Null => (j \in Duplicates <=> Superseded(j))
  <2> SUFFICES ASSUME NEW j \in DOMAIN rows, Theirs(j) # Null
               PROVE  j \in Duplicates <=> Superseded(j)
    OBVIOUS
  <2>1. Group(j) \cap Pending = Group(j)
    BY <1>2 DEF Group, Theirs
  <2> QED BY <1>2, <2>1 DEF Duplicates, Superseded
<1>4. \A j \in DOMAIN rows : j \in Nat \ {0}
  BY RowsAssumption DEF RowsOK
<1>5. Backfilling'
  BY <1>1, <1>3, <1>4 DEF Backfilling, Looked, Theirs, Superseded, Group, Older
<1>6. RowsOK' /\ NotYet' /\ Planned' /\ (asof \in Nat /\ asof <= Count)'
  BY <1>1, FS_CardinalityType DEF RowsOK, NotYet, Planned, Count
<1> QED BY <1>1, <1>5, <1>6 DEF OldestClaims

\* A batch takes the first row it may: none that was looked at is passed over.
LEMMA Claimed ==
    ASSUME BackfillInv, Claim
    PROVE  BackfillInv'
<1> USE DEF BackfillInv
<1>1. /\ UNCHANGED <<rows, rec, plan, doing, at, inside, skip, asof>> /\ inside /\ Backfilling
  BY DEF Claim, ClaimBatch, moveVars, jobVars
<1>2. PICK i \in Claimable : (\A j \in Claimable : i <= j) /\ claims' = claims \cup {i} /\ last' = i
  BY DEF Claim, ClaimBatch
<1>3. i \in Pending /\ i \notin skip /\ i > last /\ i \in DOMAIN rows /\ Theirs(i) # Null
  BY <1>2 DEF Claimable, Pending, Theirs
<1>4. DOMAIN rows \subseteq Nat /\ last \in Nat
  BY <1>1, RowsAssumption DEF RowsOK, Backfilling
<1>5. Backfill \notin rec
  BY <1>1 DEF Backfilling, Planned
<1>6. \A j \in DOMAIN rows : Looked(j) /\ Theirs(j) # Null /\ j \notin skip /\ j <= i => j \in claims'
  <2> SUFFICES ASSUME NEW j \in DOMAIN rows, Looked(j), Theirs(j) # Null, j \notin skip, j <= i,
                      j \notin claims
               PROVE  j = i
    BY <1>2
  <2>1. j > last
    BY <1>1, <1>4 DEF Backfilling
  <2>2. j \in Claimable
    BY <1>5, <2>1 DEF Claimable, Pending, NotYet, Theirs
  <2> QED BY <1>2, <1>3, <1>4, <2>2
<1>7. Backfilling'
  BY <1>1, <1>2, <1>3, <1>4, <1>6 DEF Backfilling, Looked, Theirs, Superseded, Group, Older
<1>8. RowsOK' /\ NotYet' /\ Planned' /\ (asof \in Nat /\ asof <= Count)'
  BY <1>1 DEF RowsOK, NotYet, Planned, Count
<1> QED BY <1>1, <1>5, <1>7, <1>8 DEF OldestClaims

LEMMA Committed ==
    ASSUME BackfillInv, CommitBackfill
    PROVE  BackfillInv'
<1> DEFINE Given(i) == IF i \in claims THEN [rows[i] EXCEPT !.config = Theirs(i)] ELSE rows[i]
<1> USE DEF BackfillInv
<1>1. /\ inside /\ ~inside' /\ Backfilling /\ Claimable = {} /\ claims' = {} /\ UNCHANGED asof
      /\ rows' = [i \in DOMAIN rows |-> Given(i)]
      /\ Backfill \in rec' /\ Backfill \notin plan' /\ Backfill \notin rec /\ Backfill \notin doing'
  BY RowsAssumption, JobAssumption DEF CommitBackfill, Commit, Execute, Own, Theirs, Backfilling, Planned
<1>2. \A i \in DOMAIN rows : rows[i] \in Row /\ Theirs(i) \in Config \cup {Null}
  BY RowsAssumption DEF RowsOK, Theirs, Row
<1>3. \A i \in DOMAIN rows :
         /\ rows'[i] \in Row /\ rows'[i].born = rows[i].born /\ rows'[i].pair = rows[i].pair
         /\ rows'[i].config = IF i \in claims THEN Theirs(i) ELSE Null
  BY <1>1, <1>2 DEF Row, NotYet
<1>4. DOMAIN rows' = DOMAIN rows
  BY <1>1
<1>5. RowsOK' /\ Count' = Count
  <2>1. rows' \in [DOMAIN rows' -> Row]
    BY <1>1, <1>3, <1>4
  <2> QED BY <1>3, <1>4, <2>1 DEF RowsOK, Count
<1>6. \A i \in DOMAIN rows : Looked(i) /\ Theirs(i) # Null => (i \in claims <=> ~Superseded(i))
  <2> SUFFICES ASSUME NEW i \in DOMAIN rows, Looked(i), Theirs(i) # Null
               PROVE  i \in claims <=> ~Superseded(i)
    OBVIOUS
  <2>1. CASE i \in skip \/ i \in claims
    BY <1>1, <2>1 DEF Backfilling
  <2>2. CASE i \notin skip /\ i \notin claims
    <3>1. i \in Pending
      BY <1>1, <2>2 DEF Pending, NotYet, Theirs
    <3>2. i <= last
      BY <1>1, <2>2, <3>1, RowsAssumption DEF Claimable, Backfilling, RowsOK
    <3> QED BY <1>1, <2>2, <3>2 DEF Backfilling
  <2> QED BY <2>1, <2>2
<1>7. \A i \in DOMAIN rows : Oldest(i)' <=> ~Superseded(i)
  <2> SUFFICES ASSUME NEW i \in DOMAIN rows PROVE Oldest(i)' <=> ~Superseded(i)
    OBVIOUS
  <2>1. Group(i)' = Group(i)
    BY <1>3, <1>4 DEF Group
  <2>2. \A j \in Group(i) : Older(i, j)' <=> Older(i, j)
    BY <1>3 DEF Older, Group
  <2>3. \A j \in Group(i) \ {i} : Older(i, j) <=> ~Older(j, i)
    BY <1>2 DEF Older, Group, RowsOK, Row
  <2>4. ~Older(i, i)
    BY <1>2 DEF Older, Row
  <2> QED BY <2>1, <2>2, <2>3, <2>4 DEF Oldest, Superseded
<1>8. OldestClaims'
  <2> SUFFICES ASSUME NEW i \in DOMAIN rows, rows[i].born <= asof
               PROVE  rows'[i].config = IF Oldest(i)' THEN ConfigOf[rows'[i].pair] ELSE Null
    BY <1>1, <1>3, <1>4 DEF OldestClaims
  <2>1. Looked(i) /\ ConfigOf[rows'[i].pair] = Theirs(i)
    BY <1>3 DEF Looked, Theirs
  <2>2. CASE Theirs(i) = Null
    BY <1>1, <1>3, <2>1, <2>2
  <2>3. CASE Theirs(i) # Null
    BY <1>3, <1>6, <1>7, <2>1, <2>3
  <2> QED BY <2>2, <2>3
<1>9. NotYet' /\ Planned'
  BY <1>1 DEF NotYet, Planned
<1> QED BY <1>1, <1>5, <1>8, <1>9

-----------------------------------------------------------------------------
\* The model moves, the other migrations and the rest of the Job.
LEMMA OtherSteps ==
    ASSUME BackfillInv, Step \/ Start \/ GiveUp \/ Rest \/ \E n \in Node : Migrate(n)
    PROVE  BackfillInv'
<1> USE DEF moveVars, scimVars, jobVars, Fail, Goto
<1>1. CASE Step
  <2>1. UNCHANGED <<rows, skip, last, claims, asof, inside>>
    BY <1>1 DEF Step
  <2>2. MoveStep
    BY <1>1 DEF Step
  <2>3. ASSUME NEW o \in Node, RecordRow(o) PROVE BackfillInv'
    <3>1. PICK n \in doing : /\ o \in Own(n) /\ rec' = rec \cup {o} /\ at' = at
                             /\ plan' = plan \/ plan' = plan \ {n}
                             /\ doing' = doing \/ doing' = {}
      BY <2>3 DEF RecordRow
    <3>2. n # Backfill
      BY <3>1 DEF BackfillInv, Planned
    <3>3. Backfill \notin Own(n)
      BY <3>2, RowsAssumption DEF Own
    <3>4. Backfill \in rec' <=> Backfill \in rec
      BY <3>1, <3>3
    <3>5. Planned'
      BY <3>1, <3>4 DEF BackfillInv, Planned
    <3>6. inside => Backfill \in plan'
      BY <3>1, <3>2 DEF BackfillInv, Backfilling
    <3> QED BY <2>1, <3>1, <3>4, <3>5, <3>6, Elsewhere
  <2>4. CASE \A o \in Node : ~RecordRow(o)
    <3>1. Backfill \in rec' <=> Backfill \in rec
      BY <2>2, <2>4, RowsAssumption
         DEF MoveStep, NotRequired, BeginMoves, SkipMove, RefuseMove, PlanMove, EndMove, EndMoves,
             PlanAll, EndMigrate, RemoveMarker, RecordMarker
    <3>2. Planned'
      <4>1. doing' \subseteq doing
        BY <2>2, <2>4
           DEF MoveStep, NotRequired, BeginMoves, SkipMove, RefuseMove, PlanMove, EndMove, EndMoves,
               PlanAll, EndMigrate, RemoveMarker, RecordMarker
      <4>2. CASE PlanMove \/ PlanAll
        BY <4>1, <4>2, RowsAssumption DEF BackfillInv, Planned, PlanMove, PlanAll, Counts
      <4>3. CASE UNCHANGED plan
        BY <4>1, <4>3, <3>1 DEF BackfillInv, Planned
      <4> QED BY <2>2, <2>4, <4>2, <4>3
              DEF MoveStep, NotRequired, BeginMoves, SkipMove, RefuseMove, EndMove, EndMoves,
                  EndMigrate, RemoveMarker, RecordMarker
    <3>3. inside => at \in {"moving", "migrating"} /\ plan # {}
      BY DEF BackfillInv, Backfilling
    <3>4. ~inside
      BY <2>2, <2>4, <3>3
         DEF MoveStep, NotRequired, BeginMoves, SkipMove, RefuseMove, Choosing, PlanMove, EndMove,
             EndMoves, PlanAll, EndMigrate, RemoveMarker, RecordMarker
    <3> QED BY <2>1, <3>1, <3>2, <3>4, Elsewhere
  <2> QED BY <2>3, <2>4
<1>2. ASSUME NEW n \in Node, Migrate(n) PROVE BackfillInv'
  <2>1. UNCHANGED <<rows, skip, last, claims, asof, inside>> /\ ~inside /\ n # Backfill
    BY <1>2 DEF Migrate
  <2>2. (Backfill \in rec' <=> Backfill \in rec) /\ plan' \subseteq plan /\ doing' \subseteq doing \cup {n}
    BY <1>2, <2>1, RowsAssumption DEF Migrate, Execute, Own, ExecuteFails
  <2> QED BY <2>1, <2>2, Elsewhere DEF BackfillInv, Planned
<1>3. CASE Start \/ GiveUp \/ Rest
  <2>1. ~inside
    BY <1>3 DEF Start, GiveUp, Rest, BackfillInv, Backfilling
  <2> QED BY <1>3, <2>1, Elsewhere DEF Start, GiveUp, Rest, BackfillInv, Planned
<1> QED BY <1>1, <1>2, <1>3

LEMMA Killed ==
    ASSUME BackfillInv, Kill
    PROVE  BackfillInv'
<1>1. claims' = {} /\ ~inside' /\ UNCHANGED <<rows, rec, plan, asof>> /\ doing' = {}
  BY DEF Kill, Rollback, Fail
<1> QED BY <1>1 DEF BackfillInv, RowsOK, NotYet, Planned, Count, OldestClaims, Oldest, Group, Older

LEMMA StepBackfill == BackfillInv /\ [Next]_vars => BackfillInv'
<1> SUFFICES ASSUME BackfillInv, [Next]_vars PROVE BackfillInv'
  OBVIOUS
<1>1. CASE Write
  <2>1. PICK i \in Id, p \in Pair : Provision(i, p) /\ UNCHANGED <<moveVars, jobVars>>
    BY <1>1 DEF Write
  <2>2. UNCHANGED <<rec, plan, doing, at, inside>>
    BY <2>1 DEF moveVars, jobVars
  <2> QED BY <2>1, <2>2, Inserted
<1>2. CASE UNCHANGED vars
  <2>1. UNCHANGED <<rows, skip, last, claims, asof, inside, at, plan, doing, rec>>
    BY <1>2 DEF vars, moveVars, scimVars, jobVars
  <2>2. Planned' /\ (inside => Backfill \in plan')
    BY <2>1 DEF BackfillInv, Planned, Backfilling
  <2> QED BY <2>1, <2>2, Elsewhere
<1> QED BY <1>1, <1>2, Opened, Claimed, Committed, OtherSteps, Killed DEF Next, Work

\* Whatever is inserted while the backfill runs and however often it is killed and
\* run again, the oldest row of each user under a config gets it, and no other row
\* that was looked at does.
THEOREM OldestIsClaimed == Spec => []OldestClaims
<1>1. BackfillInv => OldestClaims
  BY DEF BackfillInv
<1> QED BY <1>1, InitBackfill, StepBackfill, PTL DEF Spec

-----------------------------------------------------------------------------
(***************************************************************************)
(* Whatever the graph of migrations, the regular migrate never finds a      *)
(* history it refuses.                                                      *)
(*                                                                          *)
(* Which squashes Django takes into its graph changes with every row, and   *)
(* with it which dependencies a row has.  What does not change is that a    *)
(* migration is on record only after all its file states, where a squash is *)
(* as good as on record once all its originals are (InOrder).  Rows of      *)
(* squashes may stand on nothing, but not after the command has looked      *)
(* (MarkersInOrder).                                                        *)
(***************************************************************************)
InOrder == \A n \in rec \ Squash : Parents[n] \subseteq Counts

MarkersInOrder == \A s \in rec \cap Squash : Stated(s) \subseteq Counts

\* What an executor has still to run of its graph waits for nothing else; the
\* regular one has all of the graph to run or on record.
PlanInOrder ==
    at \in {"moving", "migrating"} =>
        /\ kept \subseteq Squash /\ plan \subseteq NodesOf(kept)
        /\ \A n \in plan : ParentsIn(n, kept) \subseteq plan \cup Counts
        /\ at = "migrating" => NodesOf(kept) \subseteq plan \cup Counts

\* What is being recorded has run, alone, as the plan had it.
Recording ==
    \A n \in doing : /\ at \in {"moving", "migrating"} /\ doing = {n}
                     /\ n \in plan /\ ParentsIn(n, kept) \cap plan = {}

Checked == {"move", "moving", "migrate", "migrating", "rest"}

HistoryInv ==
    /\ rec \subseteq Node /\ MarkersDerived /\ InOrder /\ PlanInOrder /\ Recording
    /\ at \in Checked \/ Initial \notin rec => MarkersInOrder

\* The types that the graph decides, and the others.
StateInv ==
    /\ tables \in [App -> {"none", "partial", "full"}]
    /\ at \in Checked \cup {"down", "prepare", "done", "failed"}
    /\ target \in 1..(Len(Moves) + 1) /\ inside \in BOOLEAN
    /\ skip \cup claims \subseteq DOMAIN rows
    /\ plan \subseteq Node /\ kept \subseteq Squash
    /\ at = "moving" => target <= Len(Moves)
    /\ made \subseteq Late /\ doing \subseteq made /\ limit \in Nat \ {0}
    /\ starts \in 0..limit /\ kills \in 0..MaxKills

-----------------------------------------------------------------------------
\* Of the graph.

\* A set with the last of a squash's originals and, with any of its originals, all
\* originals that depends on, has all of them: one that is missing would have a
\* last one among the missing.
LEMMA LastMeansAll ==
    ASSUME NEW s \in Squash, NEW R, Last(s) \subseteq R,
           \A o \in Replaces[s] \cap R : Parents[o] \ Squash \subseteq R
    PROVE  Replaces[s] \subseteq R
<1> DEFINE X == Replaces[s] \ R
<1> SUFFICES ASSUME X # {} PROVE FALSE
  OBVIOUS
<1>1. PICK x \in X : \A q \in X : x \notin Parents[q]
  BY GraphAssumption
<1>2. x \notin Squash
  BY SquashAssumption
<1>3. PICK q \in Replaces[s] : x \in Parents[q]
  BY <1>1 DEF Last
<1>4. q \in R
  BY <1>1, <1>3
<1> QED BY <1>2, <1>3, <1>4

\* Dependencies lead to nodes of the graph.
LEMMA ParentsInGraph ==
    ASSUME NEW graph \in SUBSET Squash, NEW n \in Node
    PROVE  ParentsIn(n, graph) \subseteq NodesOf(graph)
<1> DEFINE stated == Parents[n] \cup UNION { Parents[o] : o \in IF n \in Squash THEN Replaces[n] ELSE {} }
<1>1. stated \subseteq Node
  BY GraphAssumption, SquashAssumption
<1>2. ASSUME NEW d \in stated, NEW p \in Redirected(d, graph) PROVE p \in NodesOf(graph)
  <2>1. CASE d \in Squash /\ d \in graph
    BY <1>2, <2>1 DEF Redirected, NodesOf
  <2>2. CASE d \in Squash /\ d \notin graph
    <3>1. p \in Replaces[d]
      BY <1>2, <2>2 DEF Redirected, Last
    <3>2. \A s \in graph : p \notin Replaces[s]
      BY <2>2, <3>1, GraphAssumption
    <3>3. p \in Node \ Squash
      BY <2>2, <3>1, SquashAssumption
    <3> QED BY <3>2, <3>3 DEF NodesOf
  <2>3. CASE d \notin Squash
    <3> DEFINE by == { s \in graph : d \in Replaces[s] }
    <3>1. CASE by = {}
      <4>1. p = d
        BY <1>2, <2>3, <3>1 DEF Redirected
      <4> QED BY <1>1, <2>3, <3>1, <4>1 DEF NodesOf
    <3>2. CASE by # {}
      <4>1. p \in by
        BY <1>2, <2>3, <3>2 DEF Redirected
      <4> QED BY <4>1 DEF NodesOf
    <3> QED BY <3>1, <3>2
  <2> QED BY <2>1, <2>2, <2>3
<1>3. ParentsIn(n, graph) = (UNION { Redirected(d, graph) : d \in stated }) \ {n}
  BY DEF ParentsIn
<1> HIDE DEF stated
<1> QED BY <1>2, <1>3

\* Where a stated dependency leads is among the node's dependencies: a squash has
\* those of its originals, too.
LEMMA StatedParents ==
    ASSUME NEW graph, NEW n,
           NEW e \in Parents[n] \cup UNION { Parents[o] : o \in IF n \in Squash THEN Replaces[n] ELSE {} }
    PROVE  Redirected(e, graph) \ {n} \subseteq ParentsIn(n, graph)
<1> DEFINE stated == Parents[n] \cup UNION { Parents[o] : o \in IF n \in Squash THEN Replaces[n] ELSE {} }
<1>1. ParentsIn(n, graph) = (UNION { Redirected(d, graph) : d \in stated }) \ {n}
  BY DEF ParentsIn
<1>2. e \in stated
  OBVIOUS
<1> HIDE DEF stated
<1> DEFINE all == { Redirected(d, graph) : d \in stated }
<1>3. ParentsIn(n, graph) = (UNION all) \ {n}
  BY <1>1
<1>4. Redirected(e, graph) \in all
  BY <1>2
<1> HIDE DEF all
<1> QED BY <1>3, <1>4

LEMMA SquashParents ==
    ASSUME NEW graph, NEW s \in Squash, NEW d \in Stated(s)
    PROVE  Redirected(d, graph) \ {s} \subseteq ParentsIn(s, graph)
<1>1. d \in Parents[s] \cup UNION { Parents[o] : o \in IF s \in Squash THEN Replaces[s] ELSE {} }
  BY DEF Stated
<1> QED BY <1>1, StatedParents

\* What a node depends on holds, with any node, all that depends on.
LEMMA AncestryCloses ==
    ASSUME NEW graph \in SUBSET Squash, NEW n \in Node, NEW m \in Ancestry(n, graph),
           NEW p \in ParentsIn(m, graph)
    PROVE  p \in Ancestry(n, graph)
<1>1. m \in NodesOf(graph) /\ m \in Node
  BY SquashAssumption DEF Ancestry, NodesOf
<1>2. p \in NodesOf(graph)
  BY <1>1, ParentsInGraph
<1>3. ASSUME NEW c \in Closed, c.graph = graph, n \in c.nodes PROVE p \in c.nodes
  <2>1. m \in c.nodes
    BY <1>3 DEF Ancestry
  <2>2. ClosedIn(c.graph, c.nodes)
    BY DEF Closed
  <2> QED BY <1>3, <2>1, <2>2 DEF ClosedIn
<1> QED BY <1>2, <1>3 DEF Ancestry

LEMMA GraphTypes ==
    /\ RegularGraph \in SUBSET Squash /\ LegacyGraph \in SUBSET Squash
    /\ \A graph \in SUBSET Squash : NodesOf(graph) \subseteq Node
  BY SquashAssumption DEF RegularGraph, LegacyGraph, NodesOf

-----------------------------------------------------------------------------
\* Of the history.

\* With one dependency recorded after the other, the last of a squash's originals
\* stands for all of them.
LEMMA LastMeansWhole ==
    ASSUME InOrder, NEW s \in Squash, Last(s) \subseteq rec
    PROVE  Whole(s)
<1>1. \A o \in Replaces[s] \cap rec : Parents[o] \ Squash \subseteq rec
  BY SquashAssumption DEF InOrder, Counts
<1> QED BY <1>1, LastMeansAll DEF Whole

\* Where every dependency counts, nothing is unmet in the regular graph.
LEMMA CountedIsMet ==
    ASSUME NEW d \in Counts, NEW p \in Redirected(d, RegularGraph)
    PROVE  p \in rec \/ (p \in Squash /\ Whole(p))
<1>1. CASE d \in Squash
  <2>1. Whole(d)
    BY <1>1 DEF Counts
  <2>2. d \in RegularGraph
    BY <1>1, <2>1 DEF RegularGraph
  <2> QED BY <1>1, <2>1, <2>2 DEF Redirected
<1>2. CASE d \notin Squash
  <2> DEFINE by == { q \in RegularGraph : d \in Replaces[q] }
  <2>1. d \in rec
    BY <1>2 DEF Counts
  <2>2. CASE by = {}
    BY <1>2, <2>1, <2>2 DEF Redirected
  <2>3. CASE by # {}
    <3>1. p \in by
      BY <1>2, <2>3 DEF Redirected
    <3>2. p \in Squash /\ Replaces[p] \cap rec # {}
      BY <2>1, <3>1 DEF RegularGraph
    <3> QED BY <3>1, <3>2 DEF RegularGraph
  <2> QED BY <2>2, <2>3
<1> QED BY <1>1, <1>2

LEMMA OrderIsConsistent ==
    ASSUME InOrder, MarkersInOrder
    PROVE  Consistent(RegularGraph)
<1> SUFFICES ASSUME NEW n \in rec, NEW p \in ParentsIn(n, RegularGraph)
             PROVE  p \in rec \/ (p \in Squash /\ Whole(p))
  BY DEF Consistent, Unmet
<1>1. CASE n \in Squash
  <2>1. PICK d \in Stated(n) : p \in Redirected(d, RegularGraph)
    BY <1>1 DEF ParentsIn, Stated
  <2>2. d \in Counts
    BY <1>1, <2>1 DEF MarkersInOrder
  <2> QED BY <2>1, <2>2, CountedIsMet
<1>2. CASE n \notin Squash
  <2>1. PICK d \in Parents[n] : p \in Redirected(d, RegularGraph)
    BY <1>2 DEF ParentsIn
  <2>2. d \in Counts
    BY <1>2, <2>1 DEF InOrder
  <2> QED BY <2>1, <2>2, CountedIsMet
<1> QED BY <1>1, <1>2

\* A squash whose row nothing in the regular graph is held against has its
\* dependencies on record.
LEMMA MetIsCounted ==
    ASSUME InOrder, MarkersDerived, Premature = {}, rec \subseteq Node
    PROVE  MarkersInOrder
<1> SUFFICES ASSUME NEW s \in rec \cap Squash, NEW d \in Stated(s) PROVE d \in Counts
  BY DEF MarkersInOrder
<1>1. Whole(s) /\ s \in RegularGraph /\ s \in Counts
  BY DEF MarkersDerived, RegularGraph, Counts
<1>2. \A p \in ParentsIn(s, RegularGraph) : p \in rec \/ (p \in Squash /\ Whole(p))
  BY <1>1 DEF Premature, Unmet
<1>3. \A p \in Redirected(d, RegularGraph) \ {s} : p \in rec \/ (p \in Squash /\ Whole(p))
  BY <1>2, SquashParents
<1>4. CASE d \in Squash /\ d \in RegularGraph
  <2>1. d = s \/ d \in rec \/ Whole(d)
    BY <1>3, <1>4 DEF Redirected
  <2> QED BY <1>1, <1>4, <2>1 DEF Counts, MarkersDerived
<1>5. CASE d \in Squash /\ d \notin RegularGraph
  <2>1. Last(d) = Redirected(d, RegularGraph) /\ Last(d) \cap Squash = {}
    BY <1>5, SquashAssumption DEF Redirected, Last
  <2>2. Last(d) \subseteq rec
    BY <1>3, <2>1
  <2> QED BY <1>5, <2>2, LastMeansWhole DEF Counts
<1>6. CASE d \notin Squash
  <2> DEFINE by == { q \in RegularGraph : d \in Replaces[q] }
  <2>1. CASE by = {}
    <3>1. d \in Redirected(d, RegularGraph) \ {s}
      BY <1>6, <2>1 DEF Redirected
    <3> QED BY <1>3, <1>6, <3>1 DEF Counts
  <2>2. CASE by # {}
    <3>1. PICK q \in by : TRUE
      BY <2>2
    <3>2. q \in Redirected(d, RegularGraph) /\ q \in Squash
      BY <1>6, <2>2, <3>1 DEF Redirected, RegularGraph
    <3>3. Whole(q)
      BY <1>1, <1>3, <3>2 DEF MarkersDerived
    <3> QED BY <1>6, <3>1, <3>3 DEF Whole, Counts
  <2> QED BY <2>1, <2>2
<1> QED BY <1>4, <1>5, <1>6

-----------------------------------------------------------------------------
\* Of the steps.
LEMMA InitHistory == Init => HistoryInv /\ StateInv
<1> SUFFICES ASSUME Init PROVE HistoryInv /\ StateInv
  OBVIOUS
<1>1. PICK h \in Histories : /\ rec = h.rec /\ tables = h.tables /\ rows = h.rows /\ busy = h.busy
                            /\ limit = h.limit
  BY DEF Init
<1>2. InOrder
  <2> SUFFICES ASSUME NEW n \in rec \ Squash, NEW d \in Parents[n] PROVE d \in Counts
    BY DEF InOrder
  <2>1. IF d \in Squash THEN Replaces[d] \subseteq rec ELSE d \in rec
    BY <1>1, HistoriesAssumption
  <2> QED BY <2>1 DEF Counts, Whole
<1>3. rec \subseteq Node /\ PlanInOrder /\ Recording
  BY <1>1, HistoriesAssumption DEF Init, PlanInOrder, Recording
<1>4. at \in Checked \/ Initial \notin rec => MarkersInOrder
  BY <1>1, HistoriesAssumption DEF Init, Checked, MarkersInOrder
<1>5. StateInv
  <2>1. Len(Moves) \in Nat
    BY MovesAssumption
  <2>2. tables \in [App -> {"none", "partial", "full"}] /\ inside \in BOOLEAN
    BY <1>1, HistoriesAssumption DEF Init
  <2>5. limit \in Nat \ {0} /\ made = {} /\ doing = {}
    BY <1>1, JobAssumption DEF Init
  <2>3. target \in 1..(Len(Moves) + 1) /\ starts \in 0..limit /\ kills \in 0..MaxKills
    BY <2>1, <2>5, JobAssumption DEF Init
  <2>4. /\ at \in Checked \cup {"down", "prepare", "done", "failed"} /\ at # "moving"
        /\ skip \cup claims \subseteq DOMAIN rows /\ plan \subseteq Node /\ kept \subseteq Squash
    BY DEF Init
  <2> QED BY <2>2, <2>3, <2>4, <2>5 DEF StateInv
<1> QED BY <1>2, <1>3, <1>4, <1>5, InitMarkers DEF HistoryInv

\* Counts only grows with the originals on record.
LEMMA CountsGrow ==
    ASSUME rec \ Squash \subseteq rec'
    PROVE  Counts \subseteq Counts'
  BY SquashAssumption DEF Counts, Whole

\* Nothing is recorded or removed.
LEMMA SameRecord ==
    ASSUME HistoryInv, rec' = rec,
           \/ UNCHANGED <<at, kept, plan, doing>>
           \/ /\ at' \notin {"moving", "migrating"}
              /\ doing' = {} \/ (doing' = doing /\ (at \notin {"moving", "migrating"} \/ plan = {})),
           at' \in Checked => at \in Checked \/ Initial \notin rec \/ MarkersInOrder
    PROVE  HistoryInv'
<1>1. Counts' = Counts /\ \A s : Whole(s)' <=> Whole(s)
  BY DEF Counts, Whole
<1>2. (rec \subseteq Node)' /\ MarkersDerived' /\ InOrder'
  BY <1>1 DEF HistoryInv, MarkersDerived, InOrder
<1>3. PlanInOrder'
  BY <1>1 DEF HistoryInv, PlanInOrder
<1>4. MarkersInOrder' <=> MarkersInOrder
  BY <1>1 DEF MarkersInOrder
<1>5. Recording'
  BY DEF HistoryInv, Recording
<1> QED BY <1>2, <1>3, <1>4, <1>5 DEF HistoryInv

\* What an executor runs has all it depends on on record: so has, afterwards, what
\* it records, be it one migration or all that a squash replaces.
LEMMA ExecuteInOrder ==
    ASSUME HistoryInv, NEW n \in Node, Execute(n), n \notin Late
    PROVE  HistoryInv'
<1> DEFINE N == IF n \in Squash THEN Replaces[n] ELSE {n}
<1>1. /\ at \in {"moving", "migrating"} /\ n \in plan /\ ParentsIn(n, kept) \cap plan = {}
      /\ plan' = plan \ {n} /\ rec' = rec \cup N /\ UNCHANGED <<at, kept, doing>> /\ doing = {}
  BY DEF Execute, Own, Runnable
<1>2. /\ rec \subseteq Node /\ MarkersDerived /\ InOrder /\ MarkersInOrder /\ kept \subseteq Squash
      /\ plan \subseteq NodesOf(kept) /\ \A m \in plan : ParentsIn(m, kept) \subseteq plan \cup Counts
      /\ at = "migrating" => NodesOf(kept) \subseteq plan \cup Counts
  BY <1>1 DEF HistoryInv, PlanInOrder, Checked
<1>3. ParentsIn(n, kept) \subseteq Counts
  BY <1>1, <1>2
<1>4. n \in Squash => n \in kept
  BY <1>1, <1>2 DEF NodesOf
<1>5. N \subseteq Node \ Squash
  BY SquashAssumption
<1>6. Counts \subseteq Counts'
  BY <1>1, CountsGrow
\* n itself counts now.
<1>7. n \in Counts'
  <2>1. CASE n \in Squash
    BY <1>1, <2>1 DEF Counts, Whole
  <2>2. CASE n \notin Squash
    BY <1>1, <2>2 DEF Counts
  <2> QED BY <2>1, <2>2
\* What one of the new rows depends on was a dependency of n.
<1>8. ASSUME NEW m \in N, NEW d \in Parents[m]
      PROVE  Redirected(d, kept) \subseteq Counts \cup {n}
  <2>1. d \in Parents[n] \cup UNION { Parents[o] : o \in IF n \in Squash THEN Replaces[n] ELSE {} }
    BY <1>8
  <2>2. Redirected(d, kept) \ {n} \subseteq ParentsIn(n, kept)
    BY <2>1, StatedParents
  <2> QED BY <1>3, <2>2
\* Among the migrations that are no squashes it is on record, too.
<1>9. ASSUME NEW m \in N, NEW d \in Parents[m], d \notin Squash
      PROVE  d \in rec'
  <2> DEFINE by == { q \in kept : d \in Replaces[q] }
  <2>1. CASE by = {}
    <3>1. d \in Counts \cup {n}
      BY <1>8, <1>9, <2>1 DEF Redirected
    <3> QED BY <1>1, <1>9, <3>1 DEF Counts
  <2>2. CASE by # {}
    <3>1. PICK q \in by : TRUE
      BY <2>2
    <3>2. q \in Counts \cup {n} /\ q \in Squash
      BY <1>2, <1>8, <1>9, <2>2, <3>1 DEF Redirected
    <3>3. CASE q = n
      BY <1>1, <3>1, <3>2, <3>3
    <3>4. CASE q # n
      <4>1. Whole(q)
        BY <3>2, <3>4 DEF Counts
      <4> QED BY <1>1, <3>1, <4>1 DEF Whole
    <3> QED BY <3>3, <3>4
  <2> QED BY <2>1, <2>2
<1>10. \A o \in rec' \ Squash : Parents[o] \ Squash \subseteq rec'
  BY <1>1, <1>2, <1>9 DEF InOrder, Counts
<1>11. ASSUME NEW m \in N, NEW d \in Parents[m]
       PROVE  d \in Counts'
  <2>1. CASE d \notin Squash
    BY <1>9, <1>11, <2>1 DEF Counts
  <2>2. CASE d \in Squash /\ d \in kept
    BY <1>6, <1>7, <1>8, <1>11, <2>2 DEF Redirected
  <2>3. CASE d \in Squash /\ d \notin kept
    <3>1. Last(d) \subseteq Counts \cup {n} /\ Last(d) \subseteq Node \ Squash
      BY <1>8, <1>11, <2>3, SquashAssumption DEF Redirected, Last
    <3>2. Last(d) \subseteq rec'
      BY <1>1, <3>1 DEF Counts
    <3>3. Replaces[d] \subseteq rec'
      BY <1>10, <2>3, <3>2, LastMeansAll, SquashAssumption
    <3> QED BY <2>3, <3>3 DEF Counts, Whole
  <2> QED BY <2>1, <2>2, <2>3
<1>12. InOrder'
  <2> SUFFICES ASSUME NEW m \in rec' \ Squash PROVE Parents[m] \subseteq Counts'
    BY DEF InOrder
  <2>1. CASE m \in N
    BY <1>11, <2>1
  <2>2. CASE m \in rec
    BY <1>2, <1>6, <2>2 DEF InOrder
  <2> QED BY <1>1, <2>1, <2>2
<1>13. MarkersDerived' /\ MarkersInOrder' /\ (rec \subseteq Node)'
  BY <1>1, <1>2, <1>5, <1>6 DEF MarkersDerived, MarkersInOrder, Whole
<1>14. PlanInOrder' /\ Recording'
  BY <1>1, <1>2, <1>6, <1>7 DEF PlanInOrder, Recording
<1> QED BY <1>12, <1>13, <1>14 DEF HistoryInv

\* With its record to come nothing is on record yet but what was.
LEMMA CommitInOrder ==
    ASSUME HistoryInv, NEW n \in Late, Execute(n)
    PROVE  HistoryInv'
<1>1. /\ at \in {"moving", "migrating"} /\ n \in plan /\ ParentsIn(n, kept) \cap plan = {}
      /\ doing' = {n} /\ UNCHANGED <<rec, at, kept, plan>>
  BY DEF Execute, Runnable
<1>2. Counts' = Counts /\ \A s : Whole(s)' <=> Whole(s)
  BY <1>1 DEF Counts, Whole
<1>3. (rec \subseteq Node)' /\ MarkersDerived' /\ InOrder'
  BY <1>1, <1>2 DEF HistoryInv, MarkersDerived, InOrder
<1>4. PlanInOrder' /\ Recording'
  BY <1>1, <1>2 DEF HistoryInv, PlanInOrder, Recording
<1>5. MarkersInOrder' <=> MarkersInOrder
  BY <1>1, <1>2 DEF MarkersInOrder
<1> QED BY <1>1, <1>3, <1>4, <1>5 DEF HistoryInv

\* Each row that follows a commit has all it depends on on record: what the squash
\* replaces by the order of its rows, all else since the squash ran after it.
LEMMA RowInOrder ==
    ASSUME HistoryInv, NEW o \in Node, RecordRow(o)
    PROVE  HistoryInv'
<1>1. PICK n \in doing :
         /\ o \in Own(n) \ rec /\ Parents[o] \cap Own(n) \subseteq rec /\ rec' = rec \cup {o}
         /\ IF Own(n) \subseteq rec' THEN plan' = plan \ {n} /\ doing' = {} ELSE UNCHANGED <<plan, doing>>
         /\ UNCHANGED <<at, kept>>
  BY DEF RecordRow
<1>2. /\ at \in {"moving", "migrating"} /\ n \in plan /\ ParentsIn(n, kept) \cap plan = {} /\ doing = {n}
  BY <1>1 DEF HistoryInv, Recording
<1>3. /\ rec \subseteq Node /\ MarkersDerived /\ InOrder /\ MarkersInOrder /\ kept \subseteq Squash
      /\ plan \subseteq NodesOf(kept) /\ \A m \in plan : ParentsIn(m, kept) \subseteq plan \cup Counts
      /\ at = "migrating" => NodesOf(kept) \subseteq plan \cup Counts
  BY <1>2 DEF HistoryInv, PlanInOrder, Checked
<1>4. o \notin Squash /\ (n \in Squash => o \in Replaces[n]) /\ (n \notin Squash => o = n)
  BY <1>1, SquashAssumption DEF Own
<1>5. Counts \subseteq Counts'
  BY <1>1, CountsGrow
<1>6. ASSUME NEW d \in Parents[o] PROVE d \in Counts
  <2>1. d # n
    BY <1>1, <1>4, <1>6, GraphAssumption DEF Own
  <2>2. d \in Parents[n] \cup UNION { Parents[q] : q \in IF n \in Squash THEN Replaces[n] ELSE {} }
    BY <1>4, <1>6
  <2>3. Redirected(d, kept) \ {n} \subseteq Counts
    BY <1>2, <1>3, <2>2, StatedParents
  <2>4. CASE d \in Squash /\ d \in kept
    BY <2>1, <2>3, <2>4 DEF Redirected
  <2>5. CASE d \in Squash /\ d \notin kept
    <3>1. Last(d) \cap Squash = {}
      BY <2>5, SquashAssumption DEF Last
    <3>2. n \notin Last(d)
      BY <1>4, <1>6, <2>5, <3>1, GraphAssumption DEF Last
    <3>3. Last(d) \subseteq Counts
      BY <2>3, <2>5, <3>2 DEF Redirected
    <3>4. Last(d) \subseteq rec
      BY <3>1, <3>3 DEF Counts
    <3> QED BY <1>3, <2>5, <3>4, LastMeansWhole DEF Counts
  <2>6. CASE d \notin Squash
    <3> DEFINE by == { q \in kept : d \in Replaces[q] }
    <3>1. CASE by = {}
      BY <2>1, <2>3, <2>6, <3>1 DEF Redirected
    <3>2. CASE n \in by
      <4>1. d \in rec
        BY <1>1, <1>3, <1>6, <3>2 DEF Own
      <4> QED BY <2>6, <4>1 DEF Counts
    <3>3. CASE by # {} /\ n \notin by
      <4>1. PICK q \in by : TRUE
        BY <3>3
      <4>2. q \in Redirected(d, kept) /\ q \in Squash /\ q # n
        BY <1>3, <2>6, <3>3, <4>1 DEF Redirected
      <4>3. Whole(q)
        BY <2>3, <4>2 DEF Counts
      <4> QED BY <2>6, <4>1, <4>3 DEF Whole, Counts
    <3> QED BY <3>1, <3>2, <3>3
  <2> QED BY <2>4, <2>5, <2>6
<1>7. InOrder'
  BY <1>1, <1>3, <1>5, <1>6 DEF InOrder
<1>8. MarkersDerived' /\ MarkersInOrder' /\ (rec \subseteq Node)'
  BY <1>1, <1>3, <1>4, <1>5 DEF MarkersDerived, MarkersInOrder, Whole
<1>9. Own(n) \subseteq rec' => n \in Counts'
  BY <1>1, <1>3, SquashAssumption DEF Own, Counts, Whole, NodesOf
<1>10. plan' \subseteq plan /\ plan \cup Counts \subseteq plan' \cup Counts'
  BY <1>1, <1>5, <1>9
<1>11. PlanInOrder'
  BY <1>1, <1>3, <1>10 DEF PlanInOrder
<1>12. Recording'
  BY <1>1, <1>2 DEF Recording
<1> QED BY <1>2, <1>7, <1>8, <1>11, <1>12 DEF HistoryInv

\* A step of the command or of the regular migrate that runs no migration.
LEMMA StepInOrder ==
    ASSUME HistoryInv, StateInv, Step
    PROVE  HistoryInv'
<1> USE DEF Goto
<1>1. MoveStep
  BY DEF Step
<1>2. rec \subseteq Node /\ MarkersDerived /\ InOrder /\ PlanInOrder
  BY DEF HistoryInv
<1>3. CASE NotRequired \/ SkipMove \/ EndMove \/ EndMoves \/ EndMigrate
  <2>1. /\ rec' = rec /\ doing' = doing
        /\ UNCHANGED <<at, kept, plan>> \/ at' \notin {"moving", "migrating"}
        /\ at \notin {"moving", "migrating"} \/ plan = {}
        /\ at' \in Checked => at \in Checked \/ Initial \notin rec
    BY <1>3 DEF NotRequired, SkipMove, Choosing, EndMove, EndMoves, EndMigrate, Checked
  <2> QED BY <2>1, SameRecord
<1>4. CASE RefuseMove
  BY <1>4, SameRecord DEF RefuseMove, Fail, Checked
\* What the command found in order stays so.
<1>5. CASE BeginMoves
  <2>1. rec' = rec /\ at = "prepare" /\ at' = "move" /\ Premature = {} /\ doing' = doing
    BY <1>5 DEF BeginMoves
  <2> QED BY <1>2, <2>1, MetIsCounted, SameRecord
<1>6. CASE PlanMove
  <2>1. CASE Fail
    BY <2>1, SameRecord DEF Fail, Checked
  <2>2. CASE ~Fail
    <3>1. /\ at = "move" /\ at' = "moving" /\ kept' = LegacyGraph /\ rec' = rec /\ doing' = doing
          /\ plan' = Ancestry(Move, LegacyGraph) \ Counts /\ target <= Len(Moves)
      BY <1>6, <2>2 DEF PlanMove, Choosing
    <3> DEFINE all == Ancestry(Move, LegacyGraph)
    <3>2. all \subseteq NodesOf(LegacyGraph)
      BY DEF Ancestry
    <3>3. Move \in Node
      <4>1. target \in 1..Len(Moves)
        BY <3>1, MovesAssumption DEF StateInv
      <4> QED BY <4>1, MovesAssumption DEF Move
    <3>4. \A m \in all : ParentsIn(m, LegacyGraph) \subseteq all
      BY <3>3, AncestryCloses, GraphTypes
    <3>5. Counts' = Counts
      BY <3>1 DEF Counts, Whole
    <3> HIDE DEF all
    <3>6. PlanInOrder'
      BY <3>1, <3>2, <3>4, <3>5, GraphTypes DEF PlanInOrder, all
    <3>7. MarkersDerived' /\ InOrder' /\ MarkersInOrder'
      BY <1>2, <3>1, <3>5 DEF HistoryInv, Checked, MarkersDerived, Whole, InOrder, MarkersInOrder
    <3>8. Recording'
      BY <3>1 DEF HistoryInv, Recording
    <3> QED BY <1>2, <3>1, <3>6, <3>7, <3>8 DEF HistoryInv
  <2> QED BY <2>1, <2>2
<1>7. CASE PlanAll
  <2>1. CASE Fail
    BY <2>1, SameRecord DEF Fail, Checked
  <2>2. CASE ~Fail
    <3>1. /\ at = "migrate" /\ at' = "migrating" /\ kept' = RegularGraph /\ rec' = rec /\ doing' = doing
          /\ plan' = NodesOf(RegularGraph) \ Counts
      BY <1>7, <2>2 DEF PlanAll
    <3>2. \A m \in NodesOf(RegularGraph) : ParentsIn(m, RegularGraph) \subseteq NodesOf(RegularGraph)
      BY ParentsInGraph, GraphTypes
    <3>3. Counts' = Counts
      BY <3>1 DEF Counts, Whole
    <3>4. PlanInOrder'
      BY <3>1, <3>2, <3>3, GraphTypes DEF PlanInOrder
    <3>5. MarkersDerived' /\ InOrder' /\ MarkersInOrder'
      BY <1>2, <3>1, <3>3 DEF HistoryInv, Checked, MarkersDerived, Whole, InOrder, MarkersInOrder
    <3>6. Recording'
      BY <3>1 DEF HistoryInv, Recording
    <3> QED BY <1>2, <3>1, <3>4, <3>5, <3>6 DEF HistoryInv
  <2> QED BY <2>1, <2>2
<1>8. ASSUME NEW s \in Squash, RemoveMarker(s) PROVE HistoryInv'
  <2>1. at = "prepare" /\ UNCHANGED <<at, kept, plan, doing>> /\ Initial \in rec /\ rec' = rec \ {s}
    BY <1>8 DEF RemoveMarker
  <2>2. Initial \in rec' /\ rec' \subseteq Node /\ rec' \ Squash = rec \ Squash
    BY <1>2, <2>1, MovesAssumption
  <2>3. Counts' = Counts /\ MarkersDerived'
    BY <1>2, <2>1, SquashAssumption DEF Counts, MarkersDerived, Whole
  <2>4. InOrder' /\ PlanInOrder' /\ Recording'
    BY <1>2, <2>1, <2>2, <2>3 DEF HistoryInv, InOrder, PlanInOrder, Recording
  <2> QED BY <2>1, <2>2, <2>3, <2>4 DEF HistoryInv, Checked
\* With nothing left to run all migrations count.
<1>9. ASSUME NEW s \in Squash, RecordMarker(s) PROVE HistoryInv'
  <2>1. /\ at = "migrating" /\ plan = {} /\ Whole(s) /\ rec' = rec \cup {s}
        /\ UNCHANGED <<at, kept, plan, doing>>
    BY <1>9 DEF RecordMarker
  <2>2. kept \subseteq Squash /\ NodesOf(kept) \subseteq Counts
    BY <1>2, <2>1 DEF PlanInOrder
  <2>3. Counts \subseteq Counts'
    BY <2>1, CountsGrow
  <2>4. ASSUME NEW o \in Node \ Squash PROVE o \in Counts
    <3>1. CASE \E q \in kept : o \in Replaces[q]
      <4>1. PICK q \in kept : o \in Replaces[q]
        BY <3>1
      <4>2. q \in Counts /\ q \in Squash
        BY <2>2, <4>1 DEF NodesOf
      <4> QED BY <2>4, <4>1, <4>2 DEF Counts, Whole
    <3>2. CASE \A q \in kept : o \notin Replaces[q]
      BY <2>2, <2>4, <3>2 DEF NodesOf
    <3> QED BY <3>1, <3>2
  <2>5. Node \subseteq Counts
    <3>1. ASSUME NEW q \in Squash PROVE q \in Counts
      <4>1. Replaces[q] \subseteq rec
        BY <2>4, SquashAssumption DEF Counts
      <4> QED BY <4>1 DEF Counts, Whole
    <3> QED BY <2>4, <3>1
  <2>6. \A q \in Squash : Stated(q) \subseteq Node
    BY GraphAssumption, SquashAssumption DEF Stated
  <2>7. MarkersInOrder' /\ MarkersDerived' /\ (rec \subseteq Node)'
    BY <1>2, <2>1, <2>3, <2>5, <2>6, SquashAssumption DEF MarkersInOrder, MarkersDerived, Whole
  <2>8. InOrder' /\ PlanInOrder' /\ Recording'
    BY <1>2, <2>1, <2>3 DEF HistoryInv, InOrder, PlanInOrder, Recording
  <2> QED BY <2>7, <2>8 DEF HistoryInv
<1> QED BY <1>1, <1>3, <1>4, <1>5, <1>6, <1>7, <1>8, <1>9, RowInOrder DEF MoveStep

LEMMA StepHistory == HistoryInv /\ StateInv /\ [Next]_vars => HistoryInv'
<1> SUFFICES ASSUME HistoryInv, StateInv, [Next]_vars PROVE HistoryInv'
  OBVIOUS
<1> USE DEF Goto
<1>1. ASSUME NEW n \in Node, Migrate(n) PROVE HistoryInv'
  <2>1. Execute(n) \/ Fail
    BY <1>1 DEF Migrate, ExecuteFails
  <2> QED BY <2>1, ExecuteInOrder, CommitInOrder, SameRecord DEF Fail, Checked
<1>2. CASE CommitBackfill
  BY <1>2, ExecuteInOrder, JobAssumption DEF CommitBackfill
<1>3. CASE Start \/ GiveUp \/ Kill \/ Rest
  BY <1>3, SameRecord DEF Start, GiveUp, Kill, Rest, Fail, Checked
<1>4. CASE OpenBackfill \/ Claim \/ Write \/ UNCHANGED vars
  <2>1. UNCHANGED <<rec, at, kept, plan, doing>>
    BY <1>4 DEF OpenBackfill, Claim, Write, vars, moveVars
  <2> QED BY <2>1, SameRecord
<1> QED BY <1>1, <1>2, <1>3, <1>4, StepInOrder DEF Next, Work

\* What the steps of the command and of the executors write.
LEMMA StepState == HistoryInv /\ StateInv /\ [Next]_vars => StateInv'
<1> SUFFICES ASSUME HistoryInv, StateInv, [Next]_vars PROVE StateInv'
  OBVIOUS
<1> DEFINE Moving ==
      /\ tables \in [App -> {"none", "partial", "full"}]
      /\ at \in Checked \cup {"down", "prepare", "done", "failed"}
      /\ target \in 1..(Len(Moves) + 1)
      /\ plan \subseteq Node /\ kept \subseteq Squash
      /\ at = "moving" => target <= Len(Moves)
      /\ made \subseteq Late /\ doing \subseteq made
    Others ==
      /\ inside \in BOOLEAN /\ limit \in Nat \ {0} /\ starts \in 0..limit /\ kills \in 0..MaxKills
      /\ skip \cup claims \subseteq DOMAIN rows
<1>1. Moving /\ Others
  BY DEF StateInv
<1>2. SUFFICES Moving' /\ Others'
  BY DEF StateInv
<1>3. Len(Moves) \in Nat /\ MaxKills \in Nat
  BY MovesAssumption, JobAssumption
<1>4. ASSUME Fail PROVE Moving'
  BY <1>1, <1>4 DEF Fail, Goto, Checked
<1>5. ASSUME NEW n \in Node, Execute(n) PROVE Moving'
  <2>1. /\ tables' = [a \in App |-> IF a \in Creates[n] THEN "full" ELSE tables[a]]
        /\ plan' \subseteq plan /\ UNCHANGED <<at, target, kept>>
        /\ made' \subseteq Late /\ doing' \subseteq made'
    BY <1>1, <1>5 DEF Execute
  <2>2. tables' \in [App -> {"none", "partial", "full"}]
    BY <1>1, <2>1
  <2> QED BY <1>1, <2>1, <2>2
<1>6. CASE Step
  <2>1. Others'
    BY <1>1, <1>6 DEF Step, scimVars, jobVars
  <2>2. MoveStep
    BY <1>6 DEF Step
  <2>7. ASSUME NEW o \in Node, RecordRow(o) PROVE Moving'
    BY <1>1, <2>7 DEF RecordRow
  <2>3. CASE \/ NotRequired \/ BeginMoves \/ SkipMove \/ EndMove \/ EndMoves \/ EndMigrate
             \/ \E s \in Squash : RemoveMarker(s) \/ RecordMarker(s)
    BY <1>1, <1>3, <2>1, <2>3
       DEF NotRequired, BeginMoves, SkipMove, Choosing, EndMove, EndMoves, EndMigrate,
           RemoveMarker, RecordMarker, Goto, Checked
  <2>4. CASE RefuseMove
    BY <1>4, <2>1, <2>4 DEF RefuseMove
  <2>5. CASE PlanMove
    <3>1. \/ Fail
          \/ /\ at' = "moving" /\ kept' = LegacyGraph /\ target <= Len(Moves)
             /\ plan' = Ancestry(Move, LegacyGraph) \ Counts /\ UNCHANGED <<tables, target, made, doing>>
      BY <2>5 DEF PlanMove, Choosing, Goto
    <3>2. Ancestry(Move, LegacyGraph) \subseteq Node /\ LegacyGraph \subseteq Squash
      BY GraphTypes DEF Ancestry
    <3> QED BY <1>1, <1>4, <2>1, <3>1, <3>2 DEF Checked
  <2>6. CASE PlanAll
    <3>1. \/ Fail
          \/ /\ at' = "migrating" /\ kept' = RegularGraph
             /\ plan' = NodesOf(RegularGraph) \ Counts /\ UNCHANGED <<tables, target, made, doing>>
      BY <2>6 DEF PlanAll, Goto
    <3>2. NodesOf(RegularGraph) \subseteq Node /\ RegularGraph \subseteq Squash
      BY GraphTypes
    <3> QED BY <1>1, <1>4, <2>1, <3>1, <3>2 DEF Checked
  <2> QED BY <2>1, <2>2, <2>3, <2>4, <2>5, <2>6, <2>7 DEF MoveStep
<1>7. ASSUME NEW n \in Node, Migrate(n) PROVE Moving' /\ Others'
  <2>1. Execute(n) \/ Fail
    BY <1>7 DEF Migrate, ExecuteFails
  <2>2. Others'
    BY <1>1, <1>7 DEF Migrate, scimVars, jobVars
  <2> QED BY <1>4, <1>5, <2>1, <2>2
<1>8. CASE CommitBackfill
  <2>1. Moving'
    BY <1>5, <1>8, JobAssumption DEF CommitBackfill
  <2>2. DOMAIN rows' = DOMAIN rows /\ skip' = skip /\ claims' = {}
    BY <1>8 DEF CommitBackfill, Commit
  <2> QED BY <1>1, <1>8, <2>1, <2>2 DEF CommitBackfill
<1>9. CASE Kill
  <2>1. Moving'
    BY <1>4, <1>9 DEF Kill
  <2>2. /\ claims' = {} /\ UNCHANGED <<rows, skip, starts, limit>> /\ inside' = FALSE
        /\ kills < MaxKills /\ kills' = kills + 1
    BY <1>9 DEF Kill, Rollback
  <2>3. skip' \cup claims' \subseteq DOMAIN rows' /\ inside' \in BOOLEAN
    BY <1>1, <2>2
  <2>4. starts' \in 0..limit' /\ limit' \in Nat \ {0} /\ kills' \in 0..MaxKills
    BY <1>1, <1>3, <2>2
  <2> QED BY <2>1, <2>3, <2>4
<1>10. CASE Start \/ GiveUp \/ Rest
  <2>1. Moving'
    BY <1>1, <1>10 DEF Start, GiveUp, Rest, Goto, Checked
  <2>2. UNCHANGED <<rows, skip, claims, inside, limit, kills>>
    BY <1>10 DEF Start, GiveUp, Rest, scimVars, jobVars
  <2>3. starts' = starts \/ (starts < limit /\ starts' = starts + 1)
    BY <1>10 DEF Start, GiveUp, Rest, jobVars
  <2> QED BY <1>1, <1>3, <2>1, <2>2, <2>3
<1>11. CASE OpenBackfill \/ Claim \/ Write \/ UNCHANGED vars
  <2>1. /\ UNCHANGED <<tables, at, target, kept, plan, made, doing, limit, starts, kills>>
        /\ inside' \in {inside, TRUE}
    BY <1>11 DEF OpenBackfill, Claim, Write, vars, moveVars, jobVars
  <2>2. skip' \cup claims' \subseteq DOMAIN rows'
    <3>1. CASE OpenBackfill
      BY <3>1 DEF OpenBackfill, BeginBackfill, Duplicates, Pending
    <3>2. CASE Claim
      BY <1>1, <3>2 DEF Claim, ClaimBatch, Claimable, Pending
    <3>3. CASE Write
      BY <1>1, <3>3 DEF Write, Provision, localVars
    <3>4. CASE UNCHANGED vars
      BY <1>1, <3>4 DEF vars, scimVars
    <3> QED BY <1>11, <3>1, <3>2, <3>3, <3>4
  <2> QED BY <1>1, <2>1, <2>2
<1> QED
  BY <1>6, <1>7, <1>8, <1>9, <1>10, <1>11 DEF Next, Work

LEMMA HistoryInvariance == Spec => [](HistoryInv /\ StateInv)
  BY InitHistory, StepHistory, StepState, PTL DEF Spec

\* For every graph of migrations, history found, number of rows and of attempts
\* every variable keeps its type: what is recorded and planned are migrations, and
\* updates wait to be committed only inside the backfill's transaction.
THEOREM Typing == Spec => []TypeOK
<1>1. HistoryInv /\ StateInv /\ BackfillInv => TypeOK
  <2> SUFFICES ASSUME HistoryInv, StateInv, BackfillInv PROVE TypeOK
    OBVIOUS
  <2>1. doing \subseteq made \cap plan
    BY DEF HistoryInv, Recording, StateInv
  <2> QED BY <2>1 DEF HistoryInv, StateInv, BackfillInv, RowsOK, TypeOK, Checked
<1> QED BY <1>1, HistoryInvariance, InitBackfill, StepBackfill, PTL DEF Spec

\* The regular migrate never finds a history that Django refuses, whatever graph
\* the squashes and their rows make of it, wherever an earlier attempt stopped and
\* whatever rows it left behind.
THEOREM HistoryIsConsistent == Spec => []HistoryConsistent
<1>1. HistoryInv => HistoryConsistent
  BY OrderIsConsistent DEF HistoryInv, HistoryConsistent, Checked
<1> QED BY <1>1, HistoryInvariance, PTL

-----------------------------------------------------------------------------
(***************************************************************************)
(* Every migration finds the tables it relies on, whatever the graph and    *)
(* the installation.                                                        *)
(*                                                                          *)
(* Records and tables start out as those of one installation and stay so    *)
(* (Matching).  Before the regular migrate runs, the command has passed     *)
(* every move that is still open because there are no tables at all         *)
(* (MovesPassed): the squash that creates them is then in the graph, and    *)
(* nothing of it on record (PlanFits).                                      *)
(*                                                                          *)
(* All this is said of what is on record or due to be (Due), and of what is *)
(* to run after it (Left): a commit changes them as one step would that     *)
(* took its record with it, and the rows that follow do not.  Where a       *)
(* process ends between the two (Torn), nothing of it need hold.            *)
(***************************************************************************)
Index    == 1..Len(Moves)
Table(i) == tables[AppOf[Moves[i]]]

Due  == rec \cup UNION { Own(n) : n \in doing }
Left == plan \ doing

Matching == TablesMatch(Due, tables)

Passed(i) == Moves[i] \in Due \/ Table(i) = "none"

MovesPassed ==
    /\ at \in {"move", "moving"} => Initial \in Due /\ \A i \in Index : i < target => Passed(i)
    /\ at \in {"migrate", "migrating"} => \A i \in Index : Passed(i)

\* The plan for one move adopts tables: of it and, on record, of those before.  The
\* regular one holds the squash of every move that is open.
MovingFits ==
    /\ kept \cap MoveSquash = {} /\ Moves[target] \in Left \cup Due
    /\ Left \subseteq Ancestry(Moves[target], kept)
    /\ \A i \in Index : /\ Moves[i] \in Left => Table(i) = "full"
                        /\ Moves[i] \notin Due => Table(i) # "none"

MigratingFits ==
    \A s \in Squash :
        /\ \A i \in Index : Moves[i] \in Replaces[s] \ Due => s \in kept
        /\ Initial \in Replaces[s] \ Due => s \in kept

PlanOpen ==
    /\ Left \cap Due \subseteq Squash
    /\ \A s \in Left \cap Squash : Replaces[s] \cap Due = {}

PlanFits ==
    /\ at = "moving" => MovingFits
    /\ at = "migrating" => MigratingFits
    /\ at \in {"moving", "migrating"} => PlanOpen

Fitting == Matching /\ MovesPassed /\ PlanFits

FitInv == ~Torn => Fitting

LEMMA AtRest ==
    ASSUME doing = {}
    PROVE  Due = rec /\ Left = plan
  BY DEF Due, Left

\* Nobody completes the record of what a process before left behind.
LEMMA StaysTorn ==
    ASSUME HistoryInv, StateInv, Torn, [Next]_vars
    PROVE  Torn'
<1> USE DEF Torn
<1>1. ASSUME NEW n \in Node, Execute(n) PROVE Torn'
  BY <1>1 DEF Execute, Fits, Runnable
<1>2. ASSUME NEW o \in Node, RecordRow(o) PROVE Torn'
  <2>1. PICK n \in doing : \/ made' = made \ {n} /\ doing' = {}
                          \/ UNCHANGED <<made, doing>>
    BY <1>2 DEF RecordRow
  <2>2. doing = {n}
    BY <2>1 DEF HistoryInv, Recording
  <2> QED BY <2>1, <2>2
<1>3. CASE made' = made /\ doing' \subseteq doing
  BY <1>3
<1>4. CASE Step
  BY <1>2, <1>3, <1>4 DEF Step, MoveStep, NotRequired, BeginMoves, SkipMove, RefuseMove, PlanMove, EndMove,
              EndMoves, PlanAll, EndMigrate, RemoveMarker, RecordMarker, Fail
<1>5. ASSUME NEW n \in Node, Migrate(n) PROVE Torn'
  BY <1>1, <1>3, <1>5 DEF Migrate, ExecuteFails, Fail
<1>6. CASE CommitBackfill
  BY <1>1, <1>6, JobAssumption DEF CommitBackfill
<1>7. CASE Start \/ GiveUp \/ OpenBackfill \/ Claim \/ Rest \/ Kill \/ Write \/ UNCHANGED vars
  BY <1>3, <1>7 DEF Start, GiveUp, OpenBackfill, Claim, Rest, Kill, Write, vars, moveVars, Fail
<1> QED BY <1>4, <1>5, <1>6, <1>7 DEF Next, Work

-----------------------------------------------------------------------------
\* Of the moves.
LEMMA MoveTypes ==
    /\ Len(Moves) \in Nat
    /\ \A i \in Index : Moves[i] \in Node /\ Moves[i] \notin Squash /\ AppOf[Moves[i]] \in App
    /\ \A i, j \in Index : AppOf[Moves[i]] = AppOf[Moves[j]] => i = j
<1>1. \A i \in Index : Moves[i] \in Node \ Squash
  BY MovesAssumption DEF Index
<1>2. \A i \in Index : AppOf[Moves[i]] \in App /\ \A j \in Index : AppOf[Moves[i]] = AppOf[Moves[j]] => i = j
  BY TablesAssumption DEF Index
<1> QED BY <1>1, <1>2, MovesAssumption

\* A move's tables are created by its squash alone.
LEMMA MoveCreates ==
    ASSUME NEW i \in Index, NEW n \in Node
    PROVE  AppOf[Moves[i]] \in Creates[n] <=> n \in Squash /\ Moves[i] \in Replaces[n]
<1>1. Creates[n] = { AppOf[Moves[k]] : k \in { k \in Index : n \in Squash /\ Moves[k] \in Replaces[n] } }
  BY TablesAssumption DEF Index
<1> QED BY <1>1, MoveTypes

LEMMA CreatedMove ==
    ASSUME NEW n \in Node, NEW a \in Creates[n]
    PROVE  \E i \in Index : a = AppOf[Moves[i]] /\ n \in MoveSquash /\ Moves[i] \in Replaces[n]
<1>1. Creates[n] = { AppOf[Moves[k]] : k \in { k \in Index : n \in Squash /\ Moves[k] \in Replaces[n] } }
  BY TablesAssumption DEF Index
<1>2. PICK i \in Index : a = AppOf[Moves[i]] /\ n \in Squash /\ Moves[i] \in Replaces[n]
  BY <1>1
<1>3. PICK s \in MoveSquash : Moves[i] \in Replaces[s]
  BY TablesAssumption DEF Index
<1>4. s = n
  BY <1>2, <1>3, GraphAssumption, MovesAssumption
<1> QED BY <1>2, <1>3, <1>4

LEMMA MoveSquashed ==
    ASSUME NEW i \in Index
    PROVE  \E s \in Squash : Moves[i] \in Replaces[s]
  BY TablesAssumption, MovesAssumption DEF Index

\* The squash that replaces posthog's initial migration.
LEMMA InitialSquash ==
    /\ \E s \in Squash : Initial \in Replaces[s]
    /\ \A s \in Squash : Initial \in Replaces[s] =>
          Cutoff \in Replaces[s] /\ \A o \in Replaces[s] \ {Initial} : Needs(o, Initial)
<1>1. PICK q \in Squash \ MoveSquash :
         {Initial, Cutoff} \subseteq Replaces[q] /\ \A o \in Replaces[q] \ {Initial} : Needs(o, Initial)
  BY TablesAssumption
<1>2. \A s \in Squash : Initial \in Replaces[s] => s = q
  BY <1>1, GraphAssumption
<1> QED BY <1>1, <1>2

LEMMA OriginalsTyped ==
    Initial \in Node \ Squash /\ Cutoff \in Node \ Squash
<1>1. \E s \in Squash : Cutoff \in Replaces[s]
  BY InitialSquash
<1> QED BY <1>1, MovesAssumption, SquashAssumption

\* The conditions of TablesMatch, of the state.
LEMMA MatchingParts ==
    Matching <=>
        /\ \A i \in Index : Moves[i] \in Due => Table(i) = "full"
        /\ \A i \in Index, s \in Squash :
              Moves[i] \in Replaces[s] /\ Table(i) = "none" => Replaces[s] \cap Due = {}
        /\ \A i, j \in Index :
              Moves[i] \notin Due /\ Moves[j] \notin Due /\ Table(i) = "none" => Table(j) # "full"
        /\ Initial \notin Due => \A i \in Index : Table(i) = "none"
        /\ Initial \in Due /\ Cutoff \notin Due => \A i \in Index : Table(i) = "full"
  BY DEF Matching, TablesMatch, Index, Table

-----------------------------------------------------------------------------
\* Of the history.

\* What is on record holds all that the files state it depends on.
LEMMA CountsSelfContained ==
    ASSUME HistoryInv
    PROVE  SelfContained(Counts) /\ Counts \in SUBSET Node
  BY SquashAssumption DEF HistoryInv, InOrder, SelfContained, Counts, Whole

LEMMA BeforeRecorded ==
    ASSUME HistoryInv, NEW n \in rec \ Squash
    PROVE  Before(n) \subseteq Counts
  BY DEF HistoryInv, InOrder, Before, Own

\* Also of what an executor is about to run, in whichever graph.
LEMMA BeforeRunnable ==
    ASSUME HistoryInv, NEW n \in Node, Runnable(n)
    PROVE  Before(n) \subseteq Counts
<1> SUFFICES ASSUME NEW d \in Before(n) PROVE d \in Counts
  OBVIOUS
<1>1. ParentsIn(n, kept) \subseteq Counts /\ kept \subseteq Squash
  BY DEF HistoryInv, PlanInOrder, Runnable
<1>2. /\ d \in Parents[n] \cup UNION { Parents[o] : o \in IF n \in Squash THEN Replaces[n] ELSE {} }
      /\ d \notin Own(n) \cup {n} /\ (d \in Squash => n \notin Replaces[d])
  BY DEF Before, Own
<1>3. Redirected(d, kept) \ {n} \subseteq Counts
  BY <1>1, <1>2, StatedParents
<1>4. CASE d \in Squash /\ d \in kept
  BY <1>2, <1>3, <1>4 DEF Redirected
<1>5. CASE d \in Squash /\ d \notin kept
  <2>1. n \notin Last(d) /\ Last(d) \cap Squash = {}
    BY <1>2, <1>5, SquashAssumption DEF Last
  <2>2. Last(d) \subseteq Counts
    BY <1>3, <1>5, <2>1 DEF Redirected
  <2>3. Last(d) \subseteq rec
    BY <2>1, <2>2 DEF Counts
  <2> QED BY <1>5, <2>3, LastMeansWhole DEF HistoryInv, Counts
<1>6. CASE d \notin Squash
  <2> DEFINE by == { s \in kept : d \in Replaces[s] }
  <2>1. CASE by = {}
    BY <1>2, <1>3, <1>6, <2>1 DEF Redirected
  <2>2. CASE by # {}
    <3>1. PICK q \in by : TRUE
      BY <2>2
    <3>2. q \in Redirected(d, kept) /\ q \in Squash
      BY <1>1, <1>6, <2>2, <3>1 DEF Redirected
    <3>3. q # n
      BY <1>2, <3>1, <3>2 DEF Own
    <3>4. Whole(q)
      BY <1>3, <3>2, <3>3 DEF Counts
    <3> QED BY <1>6, <3>1, <3>4 DEF Whole, Counts
  <2> QED BY <2>1, <2>2
<1> QED BY <1>4, <1>5, <1>6

LEMMA NeededIsRecorded ==
    ASSUME HistoryInv, NEW n \in Node, Before(n) \subseteq Counts,
           NEW m \in Node \ Squash, Needs(n, m)
    PROVE  m \in rec
<1>1. m \in Counts
  BY CountsSelfContained DEF Needs
<1> QED BY <1>1 DEF Counts

\* Without posthog's initial migration none of what its squash replaces is there.
LEMMA WithoutInitial ==
    ASSUME HistoryInv, Initial \notin rec, NEW s \in Squash, Initial \in Replaces[s]
    PROVE  Replaces[s] \cap rec = {}
<1> SUFFICES ASSUME NEW o \in Replaces[s], o \in rec PROVE FALSE
  OBVIOUS
<1>1. o \in rec \ Squash /\ o \in Node /\ o # Initial
  BY SquashAssumption
<1>2. Before(o) \subseteq Counts
  BY <1>1, BeforeRecorded
<1>3. Needs(o, Initial)
  BY <1>1, InitialSquash
<1> QED BY <1>1, <1>2, <1>3, OriginalsTyped, NeededIsRecorded

\* What creates tables runs after posthog's initial migration; and what is among
\* posthog's up to the cutoff, in a database from before it.
LEMMA CreatesAfterInitial ==
    ASSUME HistoryInv, NEW n \in Node, Runnable(n), Creates[n] # {}
    PROVE  Initial \in rec
<1>1. Needs(n, Initial)
  BY TablesAssumption
<1> QED BY <1>1, BeforeRunnable, OriginalsTyped, NeededIsRecorded

LEMMA BeforeTheCutoff ==
    ASSUME HistoryInv, NEW n \in Node \ Squash, Runnable(n), n \notin rec,
           Needs(n, Initial), n = Cutoff \/ Needs(Cutoff, n)
    PROVE  Initial \in rec /\ Cutoff \notin rec
<1>1. Initial \in rec
  BY BeforeRunnable, OriginalsTyped, NeededIsRecorded
<1>2. ASSUME Cutoff \in rec PROVE FALSE
  <2>1. Before(Cutoff) \subseteq Counts
    BY <1>2, OriginalsTyped, BeforeRecorded
  <2> QED BY <1>2, <2>1, OriginalsTyped, NeededIsRecorded
<1> QED BY <1>1, <1>2

\* So all that runs finds its tables.
LEMMA RunnableFits ==
    ASSUME HistoryInv, StateInv, FitInv, ~Torn, NEW n \in Node, Runnable(n)
    PROVE  Fits(n)
<1> USE DEF FitInv, Fitting
<1>0. doing = {} /\ made = {} /\ Due = rec /\ Left = plan
  BY AtRest DEF Runnable, Torn
<1>1. /\ n \in plan /\ at \in {"moving", "migrating"} /\ plan \subseteq NodesOf(kept) /\ PlanOpen
      /\ kept \subseteq Squash
  BY DEF Runnable, HistoryInv, PlanInOrder, PlanFits
<1>2. ASSUME NEW a \in Creates[n] PROVE tables[a] = "none"
  <2>1. PICK i \in Index : a = AppOf[Moves[i]] /\ n \in MoveSquash /\ Moves[i] \in Replaces[n]
    BY <1>2, CreatedMove
  <2>2. n \in Squash /\ n \in kept
    BY <1>1, <2>1, MovesAssumption DEF NodesOf
  <2>3. at = "migrating"
    BY <1>1, <2>1, <2>2 DEF PlanFits, MovingFits
  <2>4. Moves[i] \notin rec
    BY <1>0, <1>1, <2>1, <2>2 DEF PlanOpen
  <2> QED BY <1>0, <2>1, <2>3, <2>4 DEF MovesPassed, Passed, Table
<1>3. ASSUME NEW a \in Alters[n] PROVE tables[a] = "full"
  <2>1. PICK i \in Index :
           /\ AppOf[Moves[i]] = a
           /\ \/ Needs(n, Moves[i]) \/ Precedes(n, i)
              \/ n \notin Squash /\ Needs(n, Initial) /\ (n = Cutoff \/ Needs(Cutoff, n))
    BY <1>3, TablesAssumption DEF Index
  <2>2. CASE Needs(n, Moves[i])
    <3>1. Moves[i] \in rec
      BY <2>2, BeforeRunnable, MoveTypes, NeededIsRecorded
    <3> QED BY <1>0, <2>1, <3>1, MatchingParts DEF Table
  <2>4. CASE Precedes(n, i)
    <3>1. PICK s \in MoveSquash : {n, Moves[i]} \subseteq Replaces[s]
      BY <2>4 DEF Precedes
    <3>2. n \notin Squash /\ s \in Squash
      BY <3>1, MovesAssumption, SquashAssumption
    <3>3. n \notin rec
      BY <1>0, <1>1, <3>2 DEF PlanOpen
\* The move is not on record: all it needs would be.
    <3>4. Moves[i] \notin rec
      <4>1. ASSUME Moves[i] \in rec PROVE FALSE
        <5>1. Before(Moves[i]) \subseteq Counts
          BY <4>1, MoveTypes, BeforeRecorded
        <5>2. Needs(Moves[i], n)
          BY <2>4 DEF Precedes
        <5> QED BY <3>2, <3>3, <5>1, <5>2, MoveTypes, NeededIsRecorded
      <4> QED BY <4>1
    <3>5. at = "moving"
      <4>1. s \notin kept
        BY <1>1, <3>1, <3>2 DEF NodesOf
      <4>2. at # "migrating"
        BY <1>0, <3>1, <3>2, <3>4, <4>1 DEF PlanFits, MigratingFits
      <4> QED BY <1>1, <4>2
    <3>6. MovingFits /\ target \in Index
      BY <3>5, MoveTypes DEF PlanFits, StateInv, Index
    <3>7. kept \in SUBSET (Squash \ MoveSquash)
      BY <1>1, <3>6 DEF MovingFits, HistoryInv, PlanInOrder, Runnable
    <3>8. ~(target < i)
      BY <1>0, <1>1, <2>4, <3>6, <3>7 DEF MovingFits, Precedes, Index
    <3>9. ~(i < target)
      BY <1>0, <3>4, <3>5, <3>6 DEF MovesPassed, Passed, MovingFits
    <3>10. i = target
      BY <3>6, <3>8, <3>9, MoveTypes DEF Index
    <3> QED BY <1>0, <2>1, <3>4, <3>6, <3>10 DEF MovingFits, Table
  <2>3. CASE n \notin Squash /\ Needs(n, Initial) /\ (n = Cutoff \/ Needs(Cutoff, n))
    <3>1. n \notin rec
      BY <1>0, <1>1, <2>3 DEF PlanOpen
    <3>2. Initial \in rec /\ Cutoff \notin rec
      BY <2>3, <3>1, BeforeTheCutoff
    <3> QED BY <1>0, <2>1, <3>2, MatchingParts DEF Table
  <2> QED BY <2>1, <2>2, <2>3, <2>4
<1> QED BY <1>0, <1>2, <1>3 DEF Fits

-----------------------------------------------------------------------------
\* Of the steps.
LEMMA InitFits == Init => FitInv
<1> SUFFICES ASSUME Init PROVE FitInv
  OBVIOUS
<1>1. PICK h \in Histories : rec = h.rec /\ tables = h.tables
  BY DEF Init
<1>2. Matching
  <2>1. Due = rec
    BY AtRest DEF Init
  <2> QED BY <1>1, <2>1, HistoriesAssumption DEF Matching
<1> QED BY <1>2 DEF Init, FitInv, Fitting, MovesPassed, PlanFits

\* Rows of squashes say nothing of tables.
LEMMA SameOriginals ==
    ASSUME Matching, Due' \ Squash = Due \ Squash, tables' = tables
    PROVE  Matching'
<1>1. \A n \in Node \ Squash : n \in Due' <=> n \in Due
  OBVIOUS
<1>2. \A s \in Squash : Replaces[s] \cap Due' = {} <=> Replaces[s] \cap Due = {}
  BY <1>1, SquashAssumption
<1>3. \A i \in Index : (Moves[i] \in Due' <=> Moves[i] \in Due) /\ Table(i)' = Table(i)
  BY <1>1, MoveTypes DEF Table
<1>4. (Initial \in Due' <=> Initial \in Due) /\ (Cutoff \in Due' <=> Cutoff \in Due)
  BY <1>1, OriginalsTyped
<1>5. Matching' <=>
        /\ \A i \in Index : Moves[i] \in Due' => Table(i)' = "full"
        /\ \A i \in Index, s \in Squash :
              Moves[i] \in Replaces[s] /\ Table(i)' = "none" => Replaces[s] \cap Due' = {}
        /\ \A i, j \in Index :
              Moves[i] \notin Due' /\ Moves[j] \notin Due' /\ Table(i)' = "none" => Table(j)' # "full"
        /\ Initial \notin Due' => \A i \in Index : Table(i)' = "none"
        /\ Initial \in Due' /\ Cutoff \notin Due' => \A i \in Index : Table(i)' = "full"
  BY DEF Matching, TablesMatch, Index, Table
<1> QED BY <1>2, <1>3, <1>4, <1>5, MatchingParts

\* A migration that runs leaves records and tables matching: a squash creates what
\* it records, and an original of a move runs only where its tables are.
LEMMA ExecuteFits ==
    ASSUME HistoryInv, StateInv, Fitting, NEW n \in Node, Execute(n)
    PROVE  Fitting'
<1> USE DEF Fitting
<1>0. Due = rec /\ Left = plan
  BY AtRest DEF Execute, Runnable
<1>1. /\ Runnable(n) /\ n \in Left /\ at \in {"moving", "migrating"}
      /\ Left' = Left \ {n} /\ Due' = Due \cup Own(n) /\ UNCHANGED <<at, target, kept>>
      /\ tables' = [a \in App |-> IF a \in Creates[n] THEN "full" ELSE tables[a]]
  <2>1. /\ Runnable(n) /\ n \in plan /\ at \in {"moving", "migrating"} /\ doing = {}
        /\ UNCHANGED <<at, target, kept>>
        /\ tables' = [a \in App |-> IF a \in Creates[n] THEN "full" ELSE tables[a]]
    BY DEF Execute, Runnable
  <2>2. \/ doing' = {n} /\ UNCHANGED <<rec, plan>>
        \/ doing' = {} /\ rec' = rec \cup Own(n) /\ plan' = plan \ {n}
    BY <2>1 DEF Execute
  <2>3. Own(n)' = Own(n)
    BY DEF Own
  <2>4. Due' = rec' \cup UNION { Own(m) : m \in doing' } /\ Left' = plan' \ doing'
    BY DEF Due, Left, Own
  <2>5. UNION { Own(m) : m \in {n} } = Own(n) /\ UNION { Own(m) : m \in {} } = {}
    OBVIOUS
  <2>6. Due' = rec \cup Own(n) /\ Left' = plan \ {n}
    BY <2>2, <2>4, <2>5
  <2> QED BY <1>0, <2>1, <2>6
<1>2. kept \subseteq Squash /\ Left \subseteq NodesOf(kept) /\ PlanOpen
  BY <1>0, <1>1 DEF HistoryInv, PlanInOrder, PlanFits
\* What is in the graph is replaced by none of its squashes.
<1>3. /\ n \in Squash => n \in kept
      /\ \A s \in kept : n \notin Replaces[s]
  BY <1>1, <1>2, SquashAssumption DEF NodesOf
<1>4. \A i \in Index :
         Table(i)' = IF n \in Squash /\ Moves[i] \in Replaces[n] THEN "full" ELSE Table(i)
  <2> SUFFICES ASSUME NEW i \in Index
               PROVE  Table(i)' = IF n \in Squash /\ Moves[i] \in Replaces[n] THEN "full" ELSE Table(i)
    OBVIOUS
  <2>1. Table(i)' = IF AppOf[Moves[i]] \in Creates[n] THEN "full" ELSE tables[AppOf[Moves[i]]]
    BY <1>1, MoveTypes DEF Table
  <2> QED BY <2>1, MoveCreates DEF Table
<1>5. \A i \in Index : n \in Squash /\ Moves[i] \in Replaces[n] => Moves[i] \in Due'
  BY <1>1 DEF Own
<1>6. \A i \in Index : Moves[i] \in Due' =>
         Moves[i] \in Due \/ Moves[i] = n \/ (n \in Squash /\ Moves[i] \in Replaces[n])
  BY <1>1 DEF Own
<1>7. \A i \in Index : Moves[i] \in Due' => Table(i)' = "full"
  <2> SUFFICES ASSUME NEW i \in Index, Moves[i] = n, n \notin Due PROVE Table(i) = "full"
    BY <1>4, <1>6, MatchingParts
  <2>1. CASE at = "moving"
    BY <1>1, <2>1 DEF PlanFits, MovingFits
  <2>2. CASE at = "migrating"
    <3>1. PICK s \in Squash : Moves[i] \in Replaces[s]
      BY MoveSquashed
    <3>2. s \in kept
      BY <2>2, <3>1 DEF PlanFits, MigratingFits
    <3> QED BY <1>3, <3>1, <3>2
  <2> QED BY <1>1, <2>1, <2>2
<1>8. ASSUME NEW i \in Index, NEW s \in Squash, Moves[i] \in Replaces[s], Table(i)' = "none"
      PROVE  Replaces[s] \cap Due' = {}
  <2>1. Table(i) = "none" /\ ~(n \in Squash /\ Moves[i] \in Replaces[n])
    BY <1>4, <1>8
  <2>2. Replaces[s] \cap Due = {} /\ Moves[i] \notin Due
    BY <1>8, <2>1, MatchingParts
  <2>3. n # s
    BY <1>8, <2>1
  <2>4. at = "migrating"
    BY <1>1, <2>1, <2>2 DEF PlanFits, MovingFits
  <2>5. s \in kept
    BY <1>8, <2>2, <2>4 DEF PlanFits, MigratingFits
  <2>6. n \notin Replaces[s]
    BY <1>3, <2>5
  <2>7. n \in Squash => Replaces[s] \cap Replaces[n] = {}
    BY <2>3, GraphAssumption
  <2> QED BY <1>1, <2>2, <2>6, <2>7 DEF Own
<1>9. ASSUME NEW i \in Index, NEW j \in Index, Moves[i] \notin Due', Moves[j] \notin Due', Table(i)' = "none"
      PROVE  Table(j)' # "full"
  <2>1. Table(i) = "none" /\ Table(j)' = Table(j)
    BY <1>4, <1>5, <1>9
  <2> QED BY <1>1, <1>9, <2>1, MatchingParts
<1>10. ASSUME Initial \notin Due' PROVE \A i \in Index : Table(i)' = "none"
  <2>1. Initial \notin Due
    BY <1>1, <1>10
  <2>2. Creates[n] = {}
    BY <1>0, <1>1, <2>1, CreatesAfterInitial
  <2> QED BY <1>4, <2>1, <2>2, MoveCreates, MatchingParts
<1>11. ASSUME Initial \in Due', Cutoff \notin Due' PROVE \A i \in Index : Table(i)' = "full"
  <2>1. CASE Initial \in Due
    BY <1>1, <1>4, <1>11, <2>1, MatchingParts
  <2>2. CASE Initial \notin Due
    <3>1. Initial = n \/ (n \in Squash /\ Initial \in Replaces[n])
      BY <1>1, <1>11, <2>2 DEF Own
    <3>2. n \notin Squash
      BY <1>1, <1>11, <3>1, InitialSquash, OriginalsTyped DEF Own
    <3>3. at = "migrating"
      BY <1>1, <2>2 DEF MovesPassed
    <3>4. PICK s \in Squash : Initial \in Replaces[s]
      BY InitialSquash
    <3>5. s \in kept
      BY <2>2, <3>3, <3>4 DEF PlanFits, MigratingFits
    <3> QED BY <1>3, <3>1, <3>2, <3>4, <3>5
  <2> QED BY <2>1, <2>2
<1>12. Matching'
  <2>1. Matching' <=>
        /\ \A i \in Index : Moves[i] \in Due' => Table(i)' = "full"
        /\ \A i \in Index, s \in Squash :
              Moves[i] \in Replaces[s] /\ Table(i)' = "none" => Replaces[s] \cap Due' = {}
        /\ \A i, j \in Index :
              Moves[i] \notin Due' /\ Moves[j] \notin Due' /\ Table(i)' = "none" => Table(j)' # "full"
        /\ Initial \notin Due' => \A i \in Index : Table(i)' = "none"
        /\ Initial \in Due' /\ Cutoff \notin Due' => \A i \in Index : Table(i)' = "full"
    BY DEF Matching, TablesMatch, Index, Table
  <2> QED BY <1>7, <1>8, <1>9, <1>10, <1>11, <2>1
<1>13. \A i \in Index : Passed(i) => Passed(i)'
  BY <1>1, <1>4, <1>5 DEF Passed
<1>14. MovesPassed'
  BY <1>1, <1>13 DEF MovesPassed
<1>15. PlanOpen'
  <2>1. Left' \cap Due' \subseteq Squash
    <3> SUFFICES ASSUME NEW m \in Left, m # n, m \in Own(n) PROVE m \in Squash
      BY <1>1, <1>2 DEF PlanOpen
    <3>1. n \in kept /\ m \in Replaces[n]
      BY <1>3 DEF Own
    <3> QED BY <1>2, <3>1 DEF NodesOf
  <2>2. ASSUME NEW s \in Left' \cap Squash PROVE Replaces[s] \cap Due' = {}
    <3>1. s \in Left /\ s # n /\ s \in kept /\ Replaces[s] \cap Due = {}
      BY <1>1, <1>2, <2>2 DEF PlanOpen, NodesOf
    <3>2. Replaces[s] \cap Own(n) = {}
      BY <1>3, <2>2, <3>1, GraphAssumption DEF Own
    <3> QED BY <1>1, <3>1, <3>2
  <2> QED BY <2>1, <2>2 DEF PlanOpen
<1>16. CASE at = "moving"
  <2>1. MovingFits
    BY <1>16 DEF PlanFits
  <2>2. Moves[target] \in Left' \cup Due'
    <3>1. target \in Index
      BY <1>16, MoveTypes DEF StateInv, Index
    <3>2. Moves[target] \notin Squash
      BY <3>1, MoveTypes
    <3> QED BY <1>1, <2>1, <3>2 DEF MovingFits, Own
  <2>3. \A i \in Index : /\ Moves[i] \in Left' => Table(i)' = "full"
                         /\ Moves[i] \notin Due' => Table(i)' # "none"
    BY <1>1, <1>4, <2>1 DEF MovingFits
  <2>4. MovingFits'
    BY <1>1, <2>1, <2>2, <2>3 DEF MovingFits
  <2> QED BY <1>1, <1>12, <1>14, <1>15, <1>16, <2>4 DEF PlanFits
<1>17. CASE at = "migrating"
  <2>1. MigratingFits'
    BY <1>1, <1>17 DEF PlanFits, MigratingFits
  <2> QED BY <1>1, <1>12, <1>14, <1>15, <1>17, <2>1 DEF PlanFits
<1> QED BY <1>1, <1>16, <1>17

\* Steps that change neither history nor tables, into a state with no plan.
LEMMA RestFits ==
    ASSUME Fitting, UNCHANGED <<rec, tables, doing>>,
           \/ UNCHANGED <<at, target, kept, plan>>
           \/ at' \notin {"moving", "migrating"} /\ MovesPassed'
    PROVE  Fitting'
<1>0. Due' = Due
  BY DEF Due, Own
<1>1. Matching'
  BY <1>0, SameOriginals DEF Fitting
<1>2. CASE UNCHANGED <<at, target, kept, plan>>
  <2>1. Left' = Left
    BY <1>2 DEF Left
  <2> QED BY <1>0, <1>1, <1>2, <2>1
          DEF Fitting, MovesPassed, Passed, Table, PlanFits, MovingFits, MigratingFits, PlanOpen
<1>3. CASE at' \notin {"moving", "migrating"} /\ MovesPassed'
  BY <1>1, <1>3 DEF Fitting, PlanFits
<1> QED BY <1>2, <1>3

\* A new plan has nothing that is on record, and no squash in part.
LEMMA NewPlanOpen ==
    ASSUME NEW graph, graph \subseteq RegularGraph, NEW nodes, nodes \subseteq NodesOf(graph),
           plan' = nodes \ Counts, rec' = rec, doing' = {}
    PROVE  PlanOpen'
<1>0. Due' = rec /\ Left' = nodes \ Counts
  BY DEF Due, Left
<1>1. graph \subseteq Squash
  BY DEF RegularGraph
<1>2. \A m \in nodes : m \in Squash => m \in graph
  BY DEF NodesOf
<1>3. Left' \cap Due' \subseteq Squash
  BY <1>0 DEF Counts
<1>4. ASSUME NEW s \in Left' \cap Squash PROVE Replaces[s] \cap Due' = {}
  <2>1. s \in graph /\ ~Whole(s)
    BY <1>0, <1>2, <1>4 DEF Counts
  <2> QED BY <1>0, <2>1 DEF RegularGraph
<1> QED BY <1>3, <1>4 DEF PlanOpen

\* A move is prepared only where its tables are whole: then no open move lacks
\* them, and those before it in the order are on record.
LEMMA PlanMoveFits ==
    ASSUME HistoryInv, StateInv, Fitting, PlanMove, ~Fail
    PROVE  Fitting'
<1> DEFINE all == Ancestry(Move, LegacyGraph)
<1> USE DEF Fitting
<1>1. /\ at = "move" /\ at' = "moving" /\ target <= Len(Moves) /\ Move \notin rec
      /\ ~Refused /\ ~(Cutoff \in rec /\ Retained = "none")
      /\ kept' = LegacyGraph /\ plan' = all \ Counts /\ UNCHANGED <<rec, tables, target>>
      /\ doing' = doing
  BY DEF PlanMove, Choosing, Goto
<1>0. doing = {} /\ Due = rec /\ Due' = rec /\ Left' = plan'
  <2>1. doing = {}
    BY <1>1 DEF HistoryInv, Recording
  <2> QED BY <1>1, <2>1 DEF Due, Left
<1>2. target \in Index /\ Move = Moves[target] /\ Retained = Table(target)
  BY <1>1, MoveTypes DEF StateInv, Index, Move, Retained, Table
<1>3. Table(target) \in {"none", "partial", "full"}
  BY <1>2, MoveTypes DEF StateInv, Table
<1>4. Initial \in rec
  BY <1>0, <1>1 DEF MovesPassed
<1>5. Table(target) = "full"
  BY <1>0, <1>1, <1>2, <1>3, <1>4, MatchingParts DEF Refused
<1>6. \A i \in Index : Moves[i] \notin rec => Table(i) # "none"
  BY <1>0, <1>1, <1>2, <1>5, MatchingParts
<1>7. LegacyGraph \in SUBSET (Squash \ MoveSquash) /\ LegacyGraph \subseteq RegularGraph
  BY GraphTypes DEF LegacyGraph
<1>8. ASSUME NEW i \in Index, Moves[i] \in plan' PROVE Table(i) = "full"
  <2>1. Moves[i] \in all /\ Moves[i] \notin rec
    BY <1>1, <1>8, MoveTypes DEF Counts
  <2>2. ~(i < target)
    BY <1>0, <1>1, <1>6, <2>1 DEF MovesPassed, Passed
  <2>3. ~(i > target)
    BY <1>2, <1>7, <2>1, TablesAssumption DEF Index
  <2>4. i = target
    BY <1>2, <2>2, <2>3, MoveTypes DEF Index
  <2> QED BY <1>5, <2>4
<1>9. all \subseteq NodesOf(LegacyGraph)
  BY DEF Ancestry
<1>10. Move \in all
  <2>1. PICK s \in MoveSquash : Move \in Replaces[s]
    BY <1>2, TablesAssumption DEF Index
  <2>2. \A q \in LegacyGraph : Move \notin Replaces[q]
    BY <1>7, <2>1, GraphAssumption, MovesAssumption
  <2>3. Move \in NodesOf(LegacyGraph)
    BY <1>2, <2>2, MoveTypes DEF NodesOf
  <2> QED BY <2>3 DEF Ancestry
<1>11. Moves[target'] = Move /\ Move \in plan'
  BY <1>1, <1>2, <1>10, MoveTypes DEF Counts
<1>12. MovingFits'
  <2>1. Left' \subseteq Ancestry(Moves[target'], kept')
    BY <1>0, <1>1, <1>11
  <2> QED BY <1>0, <1>1, <1>6, <1>7, <1>8, <1>11, <2>1 DEF MovingFits, Table
<1>13. PlanOpen'
  BY <1>0, <1>1, <1>7, <1>9, NewPlanOpen
<1>14. Matching' /\ MovesPassed'
  BY <1>0, <1>1, SameOriginals DEF MovesPassed, Passed, Table
<1> QED BY <1>1, <1>12, <1>13, <1>14 DEF PlanFits

\* The regular migrate has the squash of every open move in its graph: none of it
\* is on record.
LEMMA PlanAllFits ==
    ASSUME HistoryInv, Fitting, PlanAll, ~Fail
    PROVE  Fitting'
<1> USE DEF Fitting
<1>1. /\ at = "migrate" /\ at' = "migrating" /\ kept' = RegularGraph
      /\ plan' = NodesOf(RegularGraph) \ Counts /\ UNCHANGED <<rec, tables, target>>
      /\ doing' = doing
  BY DEF PlanAll, Goto
<1>0. doing = {} /\ Due = rec /\ Due' = rec
  <2>1. doing = {}
    BY <1>1 DEF HistoryInv, Recording
  <2> QED BY <1>1, <2>1 DEF Due
<1>2. ASSUME NEW s \in Squash, NEW i \in Index, Moves[i] \in Replaces[s] \ rec
      PROVE  s \in RegularGraph
  <2>1. Table(i) = "none"
    BY <1>0, <1>1, <1>2 DEF MovesPassed, Passed
  <2> QED BY <1>0, <1>2, <2>1, MatchingParts DEF RegularGraph
<1>3. ASSUME NEW s \in Squash, Initial \in Replaces[s] \ rec
      PROVE  s \in RegularGraph
  BY <1>3, WithoutInitial DEF RegularGraph
<1>4. MigratingFits'
  BY <1>0, <1>1, <1>2, <1>3 DEF MigratingFits
<1>5. PlanOpen'
  BY <1>0, <1>1, NewPlanOpen
<1>6. Matching' /\ MovesPassed'
  BY <1>0, <1>1, SameOriginals DEF MovesPassed, Passed, Table
<1> QED BY <1>1, <1>4, <1>5, <1>6 DEF PlanFits

LEMMA StepFits ==
    ASSUME HistoryInv, StateInv, Fitting, Step, ~Torn'
    PROVE  Fitting'
<1> USE DEF Goto
<1>0. at \notin {"moving", "migrating"} \/ plan = {} => doing = {} /\ Due = rec
  BY AtRest DEF HistoryInv, Recording
<1>1. MoveStep
  BY DEF Step
<1>2. CASE Fail
  <2>1. UNCHANGED <<rec, tables>> /\ doing' = doing /\ at' = "down"
    BY <1>2 DEF Fail, Torn, StateInv
  <2> QED BY <2>1, RestFits DEF MovesPassed
<1>3. CASE NotRequired
  <2>1. UNCHANGED <<rec, tables, doing>> /\ at = "prepare" /\ at' = "migrate" /\ Initial \notin rec
    BY <1>3 DEF NotRequired
  <2>3. Due = rec /\ Due' = rec
    BY <1>0, <2>1 DEF Due
  <2>2. MovesPassed'
    BY <2>1, <2>3, MatchingParts DEF Fitting, MovesPassed, Passed, Table
  <2> QED BY <2>1, <2>2, RestFits
<1>4. CASE BeginMoves
  <2>1. UNCHANGED <<rec, tables, doing>> /\ at' = "move" /\ target' = 1 /\ Initial \in rec
    BY <1>4 DEF BeginMoves
  <2>2. MovesPassed'
    BY <2>1 DEF MovesPassed, Index, Due
  <2> QED BY <2>1, <2>2, RestFits
\* A move is passed on record, or with no tables at all.
<1>5. CASE SkipMove \/ EndMove
  <2>1. /\ UNCHANGED <<rec, tables, doing>> /\ at' = "move" /\ target' = target + 1
        /\ at \in {"move", "moving"} /\ target <= Len(Moves)
        /\ at = "move" \/ plan = {}
    BY <1>5 DEF SkipMove, Choosing, EndMove, StateInv
  <2>6. Due = rec /\ Due' = rec /\ (plan = {} => Left = {})
    BY <1>0, <2>1 DEF Due, Left
  <2>2. Passed(target)
    <3>1. CASE SkipMove
      BY <2>6, <3>1 DEF SkipMove, Passed, Table, Move, Retained
    <3>2. CASE EndMove
      BY <2>6, <3>2 DEF EndMove, Fitting, PlanFits, MovingFits, Passed
    <3> QED BY <1>5, <3>1, <3>2
  <2>3. target \in Nat
    BY MoveTypes DEF StateInv
  <2>4. \A i \in Index : i < target + 1 => Passed(i)
    <3>1. \A i \in Index : i < target + 1 => i < target \/ i = target
      BY <2>3, MoveTypes DEF Index
    <3> QED BY <2>1, <2>2, <3>1 DEF Fitting, MovesPassed
  <2>5. MovesPassed'
    BY <2>1, <2>4, <2>6 DEF Fitting, MovesPassed, Passed, Table
  <2> QED BY <2>1, <2>5, RestFits
<1>6. CASE EndMoves
  <2>1. UNCHANGED <<rec, tables, doing>> /\ at = "move" /\ at' = "migrate" /\ target > Len(Moves)
    BY <1>6 DEF EndMoves
  <2>4. Due = rec /\ Due' = rec
    BY <1>0, <2>1 DEF Due
  <2>2. \A i \in Index : i < target
    BY <2>1, MoveTypes DEF StateInv, Index
  <2>3. MovesPassed'
    BY <2>1, <2>2, <2>4 DEF Fitting, MovesPassed, Passed, Table
  <2> QED BY <2>1, <2>3, RestFits
<1>7. CASE EndMigrate
  BY <1>7, RestFits DEF EndMigrate, MovesPassed
<1>8. ASSUME NEW s \in Squash, RemoveMarker(s) \/ RecordMarker(s)
      PROVE  Fitting'
  <2>1. /\ UNCHANGED <<tables, at, target, kept, plan, doing>> /\ rec' \ Squash = rec \ Squash
        /\ at = "prepare" \/ (at = "migrating" /\ plan = {} /\ rec \subseteq rec')
    BY <1>8 DEF RemoveMarker, RecordMarker
  <2>2. Due = rec /\ Due' = rec' /\ Left' = Left /\ (plan = {} => Left = {})
    BY <1>0, <2>1 DEF Due, Left
  <2>3. Matching'
    BY <2>1, <2>2, SameOriginals DEF Fitting
  <2>4. MovesPassed'
    BY <2>1, <2>2 DEF Fitting, MovesPassed, Passed, Table
  <2>5. PlanFits'
    BY <2>1, <2>2 DEF Fitting, PlanFits, MigratingFits, PlanOpen
  <2> QED BY <2>3, <2>4, <2>5 DEF Fitting
\* Rows that follow a commit were due.
<1>9. ASSUME NEW o \in Node, RecordRow(o) PROVE Fitting'
  <2>1. PICK n \in doing :
           /\ o \in Own(n) /\ rec' = rec \cup {o}
           /\ \/ Own(n) \subseteq rec' /\ plan' = plan \ {n} /\ doing' = {}
              \/ UNCHANGED <<plan, doing>>
           /\ UNCHANGED <<tables, at, target, kept>>
    BY <1>9 DEF RecordRow
  <2>2. doing = {n}
    BY <2>1 DEF HistoryInv, Recording
  <2>3. UNION { Own(m) : m \in {n} } = Own(n) /\ UNION { Own(m) : m \in {} } = {}
    OBVIOUS
  <2>4. Due = rec \cup Own(n) /\ Left = plan \ {n}
    BY <2>2, <2>3 DEF Due, Left
  <2>5. Due' = rec' \cup UNION { Own(m) : m \in doing' } /\ Left' = plan' \ doing'
    BY DEF Due, Left, Own
  <2>6. Due' = Due /\ Left' = Left
    BY <2>1, <2>2, <2>3, <2>4, <2>5
  <2>7. Matching'
    BY <2>1, <2>6, SameOriginals DEF Fitting
  <2> QED BY <2>1, <2>6, <2>7
          DEF Fitting, MovesPassed, Passed, Table, PlanFits, MovingFits, MigratingFits, PlanOpen
<1> QED BY <1>1, <1>2, <1>3, <1>4, <1>5, <1>6, <1>7, <1>8, <1>9, PlanMoveFits, PlanAllFits
        DEF MoveStep, RefuseMove

LEMMA NextFits == HistoryInv /\ StateInv /\ FitInv /\ [Next]_vars => FitInv'
<1> SUFFICES ASSUME HistoryInv, StateInv, FitInv, [Next]_vars, ~Torn' PROVE Fitting'
  BY DEF FitInv
<1> USE DEF Goto
<1>0. Fitting
  BY StaysTorn DEF FitInv
<1>1. CASE Fail
  <2>1. UNCHANGED <<rec, tables>> /\ doing' = doing /\ at' = "down"
    BY <1>1 DEF Fail, Torn, StateInv
  <2> QED BY <1>0, <2>1, RestFits DEF MovesPassed
<1>2. ASSUME NEW n \in Node, Migrate(n) PROVE Fitting'
  BY <1>0, <1>1, <1>2, ExecuteFits DEF Migrate, ExecuteFails
<1>3. CASE CommitBackfill
  BY <1>0, <1>3, ExecuteFits, JobAssumption DEF CommitBackfill
<1>4. CASE Start \/ GiveUp \/ Rest
  BY <1>0, <1>4, RestFits DEF Start, GiveUp, Rest, MovesPassed
<1>5. CASE OpenBackfill \/ Claim \/ Write \/ UNCHANGED vars
  <2>1. UNCHANGED moveVars
    BY <1>5 DEF OpenBackfill, Claim, Write, vars
  <2> QED BY <1>0, <2>1, RestFits DEF moveVars
<1> QED BY <1>0, <1>1, <1>2, <1>3, <1>4, <1>5, StepFits DEF Next, Work, Kill

\* Whatever the graph of migrations, the installation found, and wherever earlier
\* attempts stopped, if not between a commit and its record: a move on record has its
\* tables, also while a squash's rows are inserted, and no migration runs that would
\* create tables there are, or change tables there are not.
THEOREM HistoryAndTables == Spec => []HistoryFitsTables
<1>1. ASSUME HistoryInv, StateInv, FitInv, ~Torn
      PROVE  /\ \A i \in 1..Len(Moves) : Moves[i] \in rec => tables[AppOf[Moves[i]]] = "full"
             /\ \A n \in Node : Runnable(n) => Fits(n)
  <2>1. \A i \in Index : Moves[i] \in rec => Table(i) = "full"
    BY <1>1, MatchingParts DEF FitInv, Fitting, Due
  <2> QED BY <1>1, <2>1, RunnableFits DEF Index, Table
<1>2. HistoryInv /\ StateInv /\ FitInv => HistoryFitsTables
  BY <1>1 DEF HistoryFitsTables
<1> QED BY <1>2, HistoryInvariance, InitFits, NextFits, PTL DEF Spec

-----------------------------------------------------------------------------
(***************************************************************************)
(* With its tables whole and nobody provisioned meanwhile, nothing but the  *)
(* death of its pod ends an attempt, unless one died before with rows of a  *)
(* commit to come; and what the Job ends with is all of the history: what   *)
(* JobCompletes says, but for that each attempt comes to its end.           *)
(***************************************************************************)
Untroubled == (\A a \in App : tables[a] # "partial") /\ ~busy

\* What was looked at for duplicates is all there is, unless no row has a config.
Looking ==
    /\ inside => asof = Count
    /\ Backfill \in rec => asof = Count \/ \A i \in DOMAIN rows : rows[i].config = Null

\* Each attempt but the one that is running was ended by a kill.
Attempts ==
    /\ starts <= kills + (IF at = "down" THEN 0 ELSE 1)
    /\ at = "failed" => limit <= kills

QuietInv == Untroubled /\ Looking /\ (~Torn => Attempts)

Recorded == at \in {"rest", "done"} => rec = Node

-----------------------------------------------------------------------------
\* What counts is met in the graph of the model moves, too.
LEMMA CountedIsMetInMoves ==
    ASSUME NEW d \in Counts, NEW p \in Redirected(d, LegacyGraph)
    PROVE  p \in rec \/ (p \in Squash /\ Whole(p))
<1>1. LegacyGraph \subseteq RegularGraph
  BY DEF LegacyGraph
<1>2. CASE d \in Squash /\ d \in LegacyGraph
  <2>1. d = p
    BY <1>2 DEF Redirected
  <2> QED BY <1>2, <2>1 DEF Counts
<1>3. CASE d \in Squash /\ d \notin LegacyGraph
  <2>1. p \in Replaces[d]
    BY <1>3 DEF Redirected, Last
  <2> QED BY <1>3, <2>1 DEF Counts, Whole
<1>4. CASE d \notin Squash
  <2> DEFINE by == { q \in LegacyGraph : d \in Replaces[q] }
  <2>1. d \in rec
    BY <1>4 DEF Counts
  <2>2. CASE by = {}
    BY <1>4, <2>1, <2>2 DEF Redirected
  <2>3. CASE by # {}
    <3>1. p \in by
      BY <1>4, <2>3 DEF Redirected
    <3>2. p \in Squash /\ (Whole(p) \/ Replaces[p] \cap rec = {})
      BY <1>1, <3>1 DEF RegularGraph
    <3> QED BY <2>1, <3>1, <3>2
  <2> QED BY <2>2, <2>3
<1> QED BY <1>2, <1>3, <1>4

LEMMA MovesAreConsistent ==
    ASSUME InOrder, MarkersInOrder
    PROVE  Consistent(LegacyGraph)
<1> SUFFICES ASSUME NEW n \in rec, NEW p \in ParentsIn(n, LegacyGraph)
             PROVE  p \in rec \/ (p \in Squash /\ Whole(p))
  BY DEF Consistent, Unmet
<1>1. CASE n \in Squash
  <2>1. PICK d \in Stated(n) : p \in Redirected(d, LegacyGraph)
    BY <1>1 DEF ParentsIn, Stated
  <2>2. d \in Counts
    BY <1>1, <2>1 DEF MarkersInOrder
  <2> QED BY <2>1, <2>2, CountedIsMetInMoves
<1>2. CASE n \notin Squash
  <2>1. PICK d \in Parents[n] : p \in Redirected(d, LegacyGraph)
    BY <1>2 DEF ParentsIn
  <2>2. d \in Counts
    BY <1>2, <2>1 DEF InOrder
  <2> QED BY <2>1, <2>2, CountedIsMetInMoves
<1> QED BY <1>1, <1>2

\* Where the constraint of 0060 is to be added the backfill is on record, and of
\* two rows of a user under one config only one has it.
LEMMA ConstraintHolds ==
    ASSUME HistoryInv, BackfillInv, QuietInv, Runnable(Constraint)
    PROVE  UserConfigUnique
<1>1. Backfill \in rec
  <2>1. Constraint \in Node /\ Backfill \in Node \ Squash /\ Needs(Constraint, Backfill)
    BY JobAssumption, RowsAssumption
  <2> QED BY <2>1, BeforeRunnable, NeededIsRecorded
<1> SUFFICES ASSUME NEW i \in DOMAIN rows, NEW j \in DOMAIN rows, i # j,
                    rows[i].pair[1] = rows[j].pair[1], rows[i].config # Null,
                    rows[i].config = rows[j].config
             PROVE  FALSE
  BY DEF UserConfigUnique
<1>2. asof = Count
  BY <1>1 DEF QuietInv, Looking
<1>3. RowsOK /\ OldestClaims /\ asof \in Nat
  BY DEF BackfillInv
<1>4. /\ rows[i].born <= asof /\ rows[j].born <= asof
      /\ rows[i].born \in Nat \ {0} /\ rows[j].born \in Nat \ {0}
  BY <1>2, <1>3 DEF RowsOK, Row
<1>5. asof > 0
  BY <1>3, <1>4
<1>6. /\ rows[i].config = IF Oldest(i) THEN ConfigOf[rows[i].pair] ELSE Null
      /\ rows[j].config = IF Oldest(j) THEN ConfigOf[rows[j].pair] ELSE Null
  BY <1>1, <1>3, <1>4, <1>5 DEF OldestClaims
<1>7. /\ Oldest(i) /\ Oldest(j) /\ ConfigOf[rows[i].pair] = ConfigOf[rows[j].pair]
  BY <1>6
<1>8. j \in Group(i) \ {i} /\ i \in Group(j) \ {j}
  BY <1>7 DEF Group
<1>9. rows[i].born < rows[j].born /\ rows[j].born < rows[i].born
  BY <1>7, <1>8 DEF Oldest, Older
<1> QED BY <1>4, <1>9

\* No step of the Job's own ends the attempt.
LEMMA WorkGoesOn ==
    ASSUME HistoryInv, StateInv, BackfillInv, FitInv, QuietInv, ~Torn, Work
    PROVE  at' # "down"
<1> USE DEF Goto
<1>0. \A n \in Node : Runnable(n) => made = {} /\ doing = {}
  BY DEF Runnable, Torn
<1>1. CASE Step
  <2>1. MoveStep
    BY <1>1 DEF Step
  <2>2. CASE NotRequired \/ BeginMoves \/ EndMove \/ EndMoves \/ EndMigrate
    BY <2>2 DEF NotRequired, BeginMoves, EndMove, EndMoves, EndMigrate
  <2>3. CASE SkipMove \/ \E s \in Squash : RemoveMarker(s) \/ RecordMarker(s)
    BY <2>3 DEF SkipMove, Choosing, RemoveMarker, RecordMarker
  <2>4. CASE RefuseMove
    <3>1. target \in Index /\ tables[AppOf[Moves[target]]] = "partial"
      BY <2>4, MovesAssumption DEF RefuseMove, Choosing, Refused, Retained, Move, StateInv, Index
    <3> QED BY <3>1, TablesAssumption DEF QuietInv, Untroubled, Index
  <2>5. CASE PlanMove
    <3>1. at = "move"
      BY <2>5 DEF PlanMove, Choosing
    <3>2. Consistent(LegacyGraph)
      BY <3>1, MovesAreConsistent DEF HistoryInv, Checked
    <3>3. ~Conflicting(LegacyGraph)
      BY GraphTypes, LeavesAssumption
    <3>4. ~Backward
      <4>1. Move \in Node \ Squash /\ Move \notin rec
        BY <2>5, MoveTypes DEF PlanMove, Choosing, StateInv, Move, Index
      <4> QED BY <4>1 DEF Backward, Counts
    <3> QED BY <2>5, <3>2, <3>3, <3>4 DEF PlanMove
  <2>6. CASE PlanAll
    <3>1. Consistent(RegularGraph)
      BY <2>6, OrderIsConsistent DEF HistoryInv, Checked, PlanAll
    <3>2. ~Conflicting(RegularGraph)
      BY GraphTypes, LeavesAssumption
    <3> QED BY <2>6, <3>1, <3>2 DEF PlanAll
  <2>7. ASSUME NEW o \in Node, RecordRow(o) PROVE at' # "down"
    BY <2>7 DEF RecordRow, HistoryInv, Recording
  <2> QED BY <2>1, <2>2, <2>3, <2>4, <2>5, <2>6, <2>7 DEF MoveStep
<1>2. ASSUME NEW n \in Node, Migrate(n) PROVE at' # "down"
  <2>1. Execute(n) \/ Runnable(n)
    BY <1>2 DEF Migrate, ExecuteFails, Execute
  <2>2. Runnable(n)
    BY <2>1 DEF Execute
  <2>3. n = Constraint => UserConfigUnique
    BY <2>2, ConstraintHolds
  <2>4. Fits(n)
    BY <2>2, RunnableFits
  <2>5. Execute(n)
    BY <1>0, <1>2, <2>2, <2>3, <2>4 DEF Migrate, ExecuteFails
  <2> QED BY <2>2, <2>5 DEF Execute, Runnable
<1>3. CASE CommitBackfill
  BY <1>3 DEF CommitBackfill, Execute, Runnable
<1>4. CASE OpenBackfill
  BY <1>4 DEF OpenBackfill, Runnable, moveVars
<1>5. CASE Claim
  <2>1. at \in {"moving", "migrating"} /\ at' = at
    BY <1>5 DEF Claim, moveVars, BackfillInv, Backfilling
  <2> QED BY <2>1
<1>6. CASE Start \/ GiveUp \/ Rest
  BY <1>6 DEF Start, GiveUp, Rest
<1> QED BY <1>1, <1>2, <1>3, <1>4, <1>5, <1>6 DEF Work

-----------------------------------------------------------------------------
LEMMA InitQuiet == Init /\ Untroubled => QuietInv
<1> SUFFICES ASSUME Init, Untroubled PROVE QuietInv
  OBVIOUS
<1>1. PICK h \in Histories : rows = h.rows
  BY DEF Init
<1>2. h.rows \in [DOMAIN h.rows -> [pair : Pair, born : 1..Cardinality(DOMAIN h.rows), config : {Null}]]
  BY RowsAssumption
<1>3. \A i \in DOMAIN rows : rows[i].config = Null
  BY <1>1, <1>2
<1>4. Attempts
  BY DEF Init, Attempts
<1> QED BY <1>3, <1>4 DEF Init, QuietInv, Looking

\* No table becomes a part of what it was, and nobody starts the application.
LEMMA StepUntroubled ==
    ASSUME Untroubled, Next
    PROVE  Untroubled'
<1> USE DEF Fail, Goto
<1>1. ASSUME NEW n \in Node, Execute(n) PROVE \A a \in App : tables'[a] # "partial"
  <2>1. tables' = [a \in App |-> IF a \in Creates[n] THEN "full" ELSE tables[a]]
    BY <1>1 DEF Execute
  <2> QED BY <2>1 DEF Untroubled
<1>2. \A a \in App : tables'[a] # "partial"
  <2>1. CASE UNCHANGED tables
    BY <2>1 DEF Untroubled
  <2>2. CASE Step
    <3>1. UNCHANGED tables
      BY <2>2 DEF Step, MoveStep, NotRequired, BeginMoves, SkipMove, RefuseMove, PlanMove, EndMove,
                  EndMoves, PlanAll, EndMigrate, RemoveMarker, RecordMarker, RecordRow
    <3> QED BY <2>1, <3>1
  <2>3. ASSUME NEW n \in Node, Migrate(n) PROVE Execute(n) \/ UNCHANGED tables
    BY <2>3 DEF Migrate, ExecuteFails
  <2>4. CASE CommitBackfill
    BY <1>1, <2>4, JobAssumption DEF CommitBackfill
  <2>5. CASE Start \/ GiveUp \/ OpenBackfill \/ Claim \/ Rest \/ Kill \/ Write
    <3>1. UNCHANGED tables
      BY <2>5 DEF Start, GiveUp, OpenBackfill, Claim, Rest, Kill, Write, moveVars
    <3> QED BY <2>1, <3>1
  <2> QED BY <1>1, <2>1, <2>2, <2>3, <2>4, <2>5 DEF Next, Work
<1>3. busy' = busy
  <2>1. CASE Step \/ Start \/ GiveUp \/ Rest \/ \E n \in Node : Migrate(n)
    BY <2>1 DEF Step, Start, GiveUp, Rest, Migrate, scimVars
  <2>2. CASE OpenBackfill \/ Claim \/ CommitBackfill \/ Kill \/ Write
    BY <2>2 DEF OpenBackfill, BeginBackfill, Claim, ClaimBatch, CommitBackfill, Commit, Kill, Rollback,
                Write, Provision
  <2> QED BY <2>1, <2>2 DEF Next, Work
<1> QED BY <1>2, <1>3 DEF Untroubled

LEMMA StepLooking ==
    ASSUME BackfillInv, StateInv, Untroubled, Looking, Next
    PROVE  Looking'
<1> USE DEF Fail, Goto
\* The backfill is put on record by its own commit.
<1>1. CASE \/ Step \/ Start \/ GiveUp \/ Rest \/ Kill \/ \E n \in Node : Migrate(n)
  <2>1. UNCHANGED <<rows, asof>> /\ (inside' => inside)
    BY <1>1 DEF Step, Start, GiveUp, Rest, Kill, Rollback, Migrate, scimVars, jobVars
  <2>2. Backfill \in rec' => Backfill \in rec
    <3>1. CASE Step
      <4>1. \A s \in Squash : rec' = rec \cup {s} => (Backfill \in rec' => Backfill \in rec)
        BY RowsAssumption
      <4>2. \A s : rec' = rec \ {s} => (Backfill \in rec' => Backfill \in rec)
        OBVIOUS
      <4>3. ASSUME NEW o \in Node, RecordRow(o) PROVE Backfill \in rec' => Backfill \in rec
        <5>1. PICK n \in doing : o \in Own(n) /\ rec' = rec \cup {o}
          BY <4>3 DEF RecordRow
        <5>2. Backfill \notin Own(n)
          BY RowsAssumption DEF BackfillInv, Planned, Own
        <5> QED BY <5>1, <5>2
      <4> QED
        BY <3>1, <4>1, <4>2, <4>3 DEF Step, MoveStep, NotRequired, BeginMoves, SkipMove, RefuseMove, PlanMove,
              EndMove, EndMoves, PlanAll, EndMigrate, RemoveMarker, RecordMarker
    <3>2. ASSUME NEW n \in Node, Migrate(n) PROVE Backfill \in rec' => Backfill \in rec
      BY <3>2, RowsAssumption DEF Migrate, Execute, ExecuteFails, Own
    <3>3. CASE Start \/ GiveUp \/ Rest \/ Kill
      BY <3>3 DEF Start, GiveUp, Rest, Kill
    <3> QED BY <1>1, <3>1, <3>2, <3>3
  <2>3. Count' = Count
    BY <2>1 DEF Count
  <2> QED BY <2>1, <2>2, <2>3 DEF Looking
<1>2. CASE OpenBackfill
  <2>1. Backfill \notin rec /\ rec' = rec
    BY <1>2 DEF OpenBackfill, Runnable, moveVars, BackfillInv, Planned
  <2>2. asof' = Count /\ Count' = Count
    BY <1>2 DEF OpenBackfill, BeginBackfill, Count
  <2> QED BY <2>1, <2>2 DEF Looking
<1>3. CASE Claim
  <2>1. UNCHANGED <<rows, asof, inside, rec>>
    BY <1>3 DEF Claim, ClaimBatch, moveVars, jobVars
  <2>2. Count' = Count
    BY <2>1 DEF Count
  <2> QED BY <2>1, <2>2 DEF Looking
<1>4. CASE CommitBackfill
  <2>1. inside /\ ~inside' /\ asof' = asof /\ DOMAIN rows' = DOMAIN rows
    BY <1>4 DEF CommitBackfill, Commit
  <2>2. Count' = Count
    BY <2>1 DEF Count
  <2> QED BY <2>1, <2>2 DEF Looking
<1>5. CASE Write
  BY <1>5 DEF Write, Provision, Untroubled
<1> QED BY <1>1, <1>2, <1>3, <1>4, <1>5 DEF Next, Work

LEMMA StepAttempts ==
    ASSUME HistoryInv, StateInv, BackfillInv, FitInv, QuietInv, Next, ~Torn'
    PROVE  Attempts'
<1> USE DEF Goto
<1>0. ~Torn /\ Attempts
  BY StaysTorn DEF QuietInv
<1>1. starts \in Nat /\ kills \in Nat /\ limit \in Nat
  BY JobAssumption DEF StateInv
<1>2. CASE Start
  BY <1>0, <1>1, <1>2 DEF Start, Attempts
<1>3. CASE GiveUp
  BY <1>0, <1>1, <1>3 DEF GiveUp, jobVars, Attempts
<1>4. CASE Kill
  BY <1>0, <1>1, <1>4 DEF Kill, Fail, Attempts
<1>5. CASE Write
  BY <1>0, <1>5 DEF Write, moveVars, jobVars, Attempts
<1>6. CASE \/ Step \/ OpenBackfill \/ Claim \/ CommitBackfill \/ Rest \/ \E n \in Node : Migrate(n)
  <2>1. at' # "down"
    BY <1>0, <1>6, WorkGoesOn DEF Work
  <2>2. UNCHANGED <<starts, limit, kills>>
    BY <1>6 DEF Step, OpenBackfill, Claim, CommitBackfill, Rest, Migrate, jobVars
  <2>3. at # "down" /\ at' # "failed"
    <3>1. CASE Step
      <4>1. ASSUME NEW o \in Node, RecordRow(o) PROVE at # "down" /\ at' # "failed"
        BY <4>1 DEF RecordRow, HistoryInv, Recording
      <4> QED
        BY <3>1, <2>1, <4>1 DEF Step, MoveStep, NotRequired, BeginMoves, SkipMove, RefuseMove, PlanMove,
              EndMove, EndMoves, PlanAll, EndMigrate, RemoveMarker, RecordMarker, Choosing, Fail
    <3>2. ASSUME NEW n \in Node, Migrate(n) PROVE at # "down" /\ at' # "failed"
      BY <2>1, <3>2 DEF Migrate, Execute, ExecuteFails, Runnable, Fail
    <3>3. CASE OpenBackfill \/ CommitBackfill \/ Rest
      BY <3>3 DEF OpenBackfill, CommitBackfill, Execute, Runnable, Rest, moveVars
    <3>4. CASE Claim
      <4>1. at \in {"moving", "migrating"} /\ at' = at
        BY <3>4 DEF Claim, moveVars, BackfillInv, Backfilling
      <4> QED BY <4>1
    <3> QED BY <1>6, <3>1, <3>2, <3>3, <3>4
  <2> QED BY <1>0, <1>1, <2>1, <2>2, <2>3 DEF Attempts
<1> QED BY <1>2, <1>3, <1>4, <1>5, <1>6 DEF Next, Work

LEMMA StepQuiet ==
    HistoryInv /\ StateInv /\ BackfillInv /\ FitInv /\ QuietInv /\ [Next]_vars => QuietInv'
<1> SUFFICES ASSUME HistoryInv, StateInv, BackfillInv, FitInv, QuietInv, [Next]_vars
             PROVE  QuietInv'
  OBVIOUS
<1>1. CASE Next
  BY <1>1, StepUntroubled, StepLooking, StepAttempts DEF QuietInv
<1>2. CASE UNCHANGED vars
  <2>1. UNCHANGED <<rec, tables, at, made, doing, rows, busy, asof, inside, limit, starts, kills>>
    BY <1>2 DEF vars, moveVars, scimVars
  <2> QED BY <2>1 DEF QuietInv, Untroubled, Looking, Attempts, Count, Torn
<1> QED BY <1>1, <1>2

\* The safety half of JobCompletes, for every graph of migrations, history, set of
\* rows and backoff limit: with its tables whole and nobody provisioned meanwhile,
\* the Job gives up only when every one of its attempts was killed, or one of them
\* between a commit and the last of its rows.
THEOREM OnlyDeathsFailTheJob == Spec /\ Untroubled => [](at = "failed" => limit <= kills \/ Torn)
<1>1. QuietInv => (at = "failed" => limit <= kills \/ Torn)
  BY DEF QuietInv, Attempts
<1> QED
  BY <1>1, InitHistory, StepHistory, StepState, InitBackfill, StepBackfill, InitFits, NextFits,
     InitQuiet, StepQuiet, PTL DEF Spec

-----------------------------------------------------------------------------
\* With nothing left to run every migration that is no squash is on record, and
\* the regular migrate does not end before the squashes are.
LEMMA EndRecordsAll ==
    ASSUME HistoryInv, EndMigrate
    PROVE  rec = Node
<1>1. /\ at = "migrating" /\ plan = {} /\ { s \in Squash : Whole(s) } \subseteq rec
      /\ rec \subseteq Node /\ kept \subseteq Squash /\ NodesOf(kept) \subseteq Counts
  BY DEF EndMigrate, HistoryInv, PlanInOrder
<1>2. ASSUME NEW o \in Node \ Squash PROVE o \in rec
  <2>1. CASE \E q \in kept : o \in Replaces[q]
    <3>1. PICK q \in kept : o \in Replaces[q]
      BY <2>1
    <3>2. q \in Counts /\ q \in Squash
      BY <1>1, <3>1 DEF NodesOf
    <3> QED BY <3>1, <3>2 DEF Counts, Whole
  <2>2. CASE \A q \in kept : o \notin Replaces[q]
    <3>1. o \in Counts
      BY <1>1, <1>2, <2>2 DEF NodesOf
    <3> QED BY <1>2, <3>1 DEF Counts
  <2> QED BY <2>1, <2>2
<1>3. ASSUME NEW s \in Squash PROVE s \in rec
  <2>1. Whole(s)
    BY <1>2, SquashAssumption DEF Whole
  <2> QED BY <1>1, <2>1
<1> QED BY <1>1, <1>2, <1>3

LEMMA StepRecorded == HistoryInv /\ Recorded /\ [Next]_vars => Recorded'
<1> SUFFICES ASSUME HistoryInv, Recorded, [Next]_vars PROVE Recorded'
  OBVIOUS
<1> USE DEF Fail, Goto
<1>1. CASE Step
  <2>1. MoveStep
    BY <1>1 DEF Step
  <2>2. CASE EndMigrate
    <3>1. rec = Node /\ rec' = rec
      BY <2>2, EndRecordsAll DEF EndMigrate
    <3> QED BY <3>1 DEF Recorded
  <2>3. CASE ~EndMigrate
    <3>1. at' \notin {"rest", "done"}
      BY <2>1, <2>3 DEF MoveStep, NotRequired, BeginMoves, SkipMove, RefuseMove, PlanMove, EndMove,
                        EndMoves, PlanAll, RemoveMarker, RecordMarker, RecordRow, Choosing,
                        HistoryInv, Recording
    <3> QED BY <3>1 DEF Recorded
  <2> QED BY <2>2, <2>3
<1>2. ASSUME NEW n \in Node, Migrate(n) PROVE Recorded'
  BY <1>2 DEF Migrate, Execute, ExecuteFails, Runnable, Recorded
<1>3. CASE CommitBackfill
  BY <1>3 DEF CommitBackfill, Execute, Runnable, Recorded
<1>4. CASE Start \/ GiveUp \/ Rest \/ Kill
  BY <1>4 DEF Start, GiveUp, Rest, Kill, Recorded
<1>5. CASE OpenBackfill \/ Claim \/ Write \/ UNCHANGED vars
  <2>1. UNCHANGED <<rec, at>>
    BY <1>5 DEF OpenBackfill, Claim, Write, vars, moveVars
  <2> QED BY <2>1 DEF Recorded
<1> QED BY <1>1, <1>2, <1>3, <1>4, <1>5 DEF Next, Work

\* Whatever the Job found and however often it began again: what it completes with
\* is the whole graph, the squashes and what they replace, on record.
THEOREM CompletedMeansRecorded == Spec => [](at \in {"rest", "done"} => rec = Node)
<1>1. Init => Recorded
  BY DEF Init, Recorded
<1>2. Recorded => (at \in {"rest", "done"} => rec = Node)
  BY DEF Recorded
<1> QED BY <1>1, <1>2, InitHistory, StepHistory, StepState, StepRecorded, PTL DEF Spec

=============================================================================
