-------------------------- MODULE DriftCheckProofs --------------------------
(***************************************************************************)
(* What invocations that overlap cannot do to the Secrets, and what the     *)
(* drift check may conclude, for any number of invocations, keys, other     *)
(* managers' steps, values and changes beside the check.                    *)
(*                                                                          *)
(* Every change of the Secret gives it a new resourceVersion, so what was   *)
(* read at the version it still has is what it holds (Known, HelmKnown):    *)
(* the patch that tests the version preserves every value it carries back.  *)
(***************************************************************************)
EXTENDS DriftCheck, WellFoundedInduction, TLAPS

Active == {"pg", "create", "write"}

\* What an invocation past its reads knows of the Secret.
Known ==
    \A r \in Run : step[r] \in Active =>
        /\ seen[r].main.rv <= main.rv
        /\ seen[r].main.rv = main.rv => seen[r].main = main
        /\ seen[r].main.owner # "other"
        /\ ~Exists(seen[r].main) => \A k \in Required : seen[r].main.data[k] = Absent

\* An invocation under way has its serial number.
Numbered == \A r \in Run : step[r] \in Active \cup {"main"} => seen[r].serial # 0

\* What the Helm upgrade under way looked up.
HelmKnown ==
    helm.on => /\ helm.rv <= main.rv
               /\ helm.rv = main.rv =>
                    \A k \in Required \ FromValues : main.data[k] # Absent => helm.data[k] = main.data[k]

\* A Secret that is not there has nothing in it.
Bare == ~Exists(main) => \A k \in Required : main.data[k] = Absent

Inv == BootTypeOK /\ Known /\ Numbered /\ HelmKnown /\ Bare
-----------------------------------------------------------------------------
LEMMA ValueFacts ==
    /\ {Absent, Redacted, Found, Standard, Configured} \subseteq Value /\ 4 + MaxStarts \in Value
    /\ Serial \subseteq Value /\ FromValues \subseteq Required /\ Stored \subseteq Required \ FromValues
    /\ Nothing \in Secret
BY KeysAssumption, SMT DEF KeysAssumption, Value, Serial, Absent, Redacted, Found, Standard, Configured,
    Required, FromValues, Nothing, Secret, Owner

LEMMA InitInv == BootInit => Inv
<1> SUFFICES ASSUME BootInit PROVE Inv
    OBVIOUS
<1>1. main \in Secret /\ Bare
  <2>1. CASE main = Nothing
    BY <2>1, ValueFacts DEF Nothing, Bare
  <2>2. CASE main \in [rv : {0}, owner : Owner \ {"gone"},
                       data : [Required -> {Absent, Redacted, Found}]]
    <3>1. main.data \in [Required -> Value]
        BY <2>2, ValueFacts
    <3> QED
        BY <2>2, <3>1 DEF Secret, Bare, Exists
  <2> QED
    BY <2>1, <2>2 DEF BootInit
<1>2. BootTypeOK
  <2>1. Unread \in [serial : {0} \cup Serial, clickhouse : Value, main : Secret]
    BY ValueFacts DEF Unread
  <2>2. NoHelm \in [on : BOOLEAN, listed : BOOLEAN, rv : Nat, data : [Required -> Value]]
    BY ValueFacts DEF NoHelm
  <2>3. clickhouse \in Value /\ 0 \in 0..MaxStarts /\ 0 \in 0..MaxUpsets
    BY ValueFacts, KeysAssumption DEF BootInit, KeysAssumption
  <2> QED
    BY <1>1, <2>1, <2>2, <2>3 DEF BootInit, BootTypeOK
<1> QED
    BY <1>1, <1>2 DEF Inv, BootInit, Known, Numbered, HelmKnown, Active, NoHelm

\* What an invocation puts in place of a Secret.
LEMMA PutType ==
    ASSUME BootTypeOK, NEW d \in [Required -> Value], Put(d)
    PROVE  main' \in Secret /\ main'.rv = main.rv + 1 /\ Exists(main') /\ main'.owner = "Helm" /\ main'.data = d
BY DEF BootTypeOK, Put, Secret, Owner, Exists

LEMMA CompletedType ==
    ASSUME BootTypeOK, NEW r \in Run, step[r] = "write", seen[r].serial # 0
    PROVE  /\ Completed(r) \in [Required -> Value]
           /\ \A k \in Required : seen[r].main.data[k] # Absent => Completed(r)[k] = seen[r].main.data[k]
<1>1. seen[r].main.data \in [Required -> Value] /\ seen[r].serial \in Serial
    BY DEF BootTypeOK, Secret
<1>2. \A k \in Required : Addition(r, k) \in Value
    BY <1>1, ValueFacts, KeysAssumption DEF Addition, Required, KeysAssumption
<1> QED
    BY <1>1, <1>2 DEF Completed, Missing, Present
-----------------------------------------------------------------------------
\* The effect of each action on the Secret.
Preserves ==
    \/ main' = main
    \/ /\ main' \in Secret /\ main'.rv = main.rv + 1 /\ Exists(main')
       /\ main.owner # "other"
       /\ \A k \in Required : main.data[k] # Absent => main'.data[k] = main.data[k]

LEMMA WritePreserves ==
    ASSUME Inv, NEW r \in Run, WriteMain(r)
    PROVE  Preserves
<1>1. step[r] = "write" /\ step[r] \in Active /\ main \in Secret
    BY DEF WriteMain, Active, Inv, BootTypeOK
<1>2. /\ Completed(r) \in [Required -> Value]
      /\ \A k \in Required : seen[r].main.data[k] # Absent => Completed(r)[k] = seen[r].main.data[k]
    BY <1>1, CompletedType DEF Inv, Numbered
<1>3. Put(Completed(r)) => main' \in Secret /\ main'.rv = main.rv + 1 /\ Exists(main') /\ main'.data = Completed(r)
    BY <1>2, PutType DEF Inv
<1>4. CASE main' = main
    BY <1>4 DEF Preserves
<1>5. CASE Put(Completed(r)) /\ PatchApplies(r)
  <2>1. seen[r].main = main /\ main.owner # "other"
    BY <1>1, <1>5 DEF Inv, Known, PatchApplies
  <2> QED
    BY <1>2, <1>3, <1>5, <2>1 DEF Preserves
<1>6. CASE Put(Completed(r)) /\ ~Exists(main)
    BY <1>2, <1>3, <1>6 DEF Preserves, Inv, Bare, Exists
<1> QED
    BY <1>1, <1>4, <1>5, <1>6 DEF WriteMain

LEMMA HelmChanges ==
    ASSUME Inv, HelmApplies
    PROVE  \/ main' = main
           \/ /\ main' \in Secret /\ main'.rv = main.rv + 1 /\ Exists(main') /\ main'.data = helm.data
              /\ helm.on /\ ~helm'.on /\ (main.owner # "other" \/ helm.listed)
              /\ helm.rv = main.rv =>
                    \A k \in Required \ FromValues : main.data[k] # Absent => main'.data[k] = main.data[k]
<1>1. helm.data \in [Required -> Value] /\ helm.on /\ ~helm'.on
    BY DEF Inv, BootTypeOK, HelmApplies, NoHelm
<1>2. CASE Put(helm.data) /\ (main.owner = "Helm" \/ helm.listed)
  <2>1. main' \in Secret /\ main'.rv = main.rv + 1 /\ Exists(main') /\ main'.data = helm.data
    BY <1>1, <1>2, PutType DEF Inv
  <2> QED
    BY <1>1, <1>2, <2>1 DEF Inv, HelmKnown
<1> QED
    BY <1>2 DEF HelmApplies

\* What an upgrade carries along.
LEMMA HelmCarries ==
    ASSUME HelmRenders, NEW k \in Required
    PROVE  IF k \in FromValues THEN helm'.data[k] \in {Found, Configured}
           ELSE helm'.data[k] = IF main.data[k] = Absent THEN 4 + MaxStarts ELSE main.data[k]
<1>1. PICK given \in {Found, Configured} :
         helm'.data = [j \in Required |->
                       IF j \in FromValues THEN given
                       ELSE IF main.data[j] = Absent THEN 4 + MaxStarts ELSE main.data[j]]
    BY DEF HelmRenders
<1> QED
    BY <1>1

LEMMA OnlyTheseWrite ==
    ASSUME Inv, [BootNext]_bootVars
    PROVE  main' = main \/ Preserves \/ HelmApplies \/ AnotherManagerAdopts
<1>1. ASSUME NEW r \in Run, RunStep(r) \/ Stop(r) PROVE main' = main \/ Preserves
    BY <1>1, WritePreserves DEF RunStep, Stop, ReadClickHouse, ReadMain, ReadPg, CreateClickHouse,
        secretVars
<1>2. CASE CnpgCreates \/ HelmRenders \/ UNCHANGED bootVars
    BY <1>2 DEF CnpgCreates, HelmRenders, bootVars, secretVars
<1> QED
    BY <1>1, <1>2 DEF BootNext

LEMMA MainSteps ==
    ASSUME Inv, [BootNext]_bootVars
    PROVE  \/ main' = main
           \/ main' \in Secret /\ main'.rv = main.rv + 1 /\ Exists(main')
<1>1. CASE AnotherManagerAdopts
    BY <1>1 DEF AnotherManagerAdopts, Inv, BootTypeOK, Secret, Owner, Exists
<1>2. CASE HelmApplies
    BY <1>2, HelmChanges
<1> QED
    BY <1>1, <1>2, OnlyTheseWrite DEF Preserves
-----------------------------------------------------------------------------
\* An invocation's reads are of the Secret as it is.
LEMMA ReadsCurrent ==
    ASSUME Inv, [BootNext]_bootVars, NEW r \in Run, step'[r] \in Active
    PROVE  \/ step[r] \in Active /\ seen'[r] = seen[r]
           \/ /\ seen'[r].main = main /\ main' = main /\ main.owner # "other"
              /\ step[r] = "main" /\ seen'[r].serial = seen[r].serial
<1> DEFINE Goal == \/ step[r] \in Active /\ seen'[r] = seen[r]
                   \/ /\ seen'[r].main = main /\ main' = main /\ main.owner # "other"
                      /\ step[r] = "main" /\ seen'[r].serial = seen[r].serial
<1>1. step \in [Run -> {"idle", "main", "pg", "create", "write", "ready"}]
      /\ seen \in [Run -> [serial : {0} \cup Serial, clickhouse : Value, main : Secret]]
    BY DEF Inv, BootTypeOK
<1>2. ASSUME NEW q \in Run, NEW supplied \in BOOLEAN, ReadMain(q, supplied) PROVE Goal
    BY <1>1, <1>2 DEF ReadMain, Proceed, Goto, Acceptable, Active, secretVars
<1>3. ASSUME NEW q \in Run, ReadClickHouse(q) PROVE Goal
    BY <1>1, <1>3 DEF ReadClickHouse, Proceed, Goto, Active
<1>4. ASSUME NEW q \in Run, ReadPg(q) \/ CreateClickHouse(q) \/ WriteMain(q) \/ Stop(q) PROVE Goal
    BY <1>1, <1>4 DEF ReadPg, CreateClickHouse, WriteMain, Stop, Proceed, Goto, Active
<1>5. CASE CnpgCreates \/ HelmRenders \/ HelmApplies \/ AnotherManagerAdopts \/ UNCHANGED bootVars
    BY <1>5 DEF CnpgCreates, HelmRenders, HelmApplies, AnotherManagerAdopts, bootVars, runVars
<1> QED
    BY <1>2, <1>3, <1>4, <1>5 DEF BootNext, RunStep

LEMMA KnownStep == Inv /\ [BootNext]_bootVars => Known'
<1> SUFFICES ASSUME Inv, [BootNext]_bootVars, NEW r \in Run, step'[r] \in Active
             PROVE  /\ seen'[r].main.rv <= main'.rv
                    /\ seen'[r].main.rv = main'.rv => seen'[r].main = main'
                    /\ seen'[r].main.owner # "other"
                    /\ ~Exists(seen'[r].main) => \A k \in Required : seen'[r].main.data[k] = Absent
    BY DEF Known, Exists
<1>1. main.rv \in Nat /\ seen[r].main.rv \in Nat
    BY DEF Inv, BootTypeOK, Secret
<1>2. main' = main \/ main'.rv = main.rv + 1
    BY MainSteps
<1> QED
    BY <1>1, <1>2, ReadsCurrent DEF Inv, Known, Bare, Exists

LEMMA HelmStep == Inv /\ [BootNext]_bootVars => HelmKnown'
<1> SUFFICES ASSUME Inv, [BootNext]_bootVars PROVE HelmKnown'
    OBVIOUS
<1>1. main.rv \in Nat /\ helm.rv \in Nat /\ (main' = main \/ main'.rv = main.rv + 1)
    BY MainSteps DEF Inv, BootTypeOK, Secret
<1>2. CASE helm' = helm
    BY <1>1, <1>2 DEF Inv, HelmKnown
<1>3. CASE HelmRenders
    BY <1>1, <1>3 DEF HelmRenders, HelmKnown, secretVars
<1>4. CASE HelmApplies
    BY <1>4 DEF HelmApplies, HelmKnown, NoHelm
<1> QED
    BY <1>2, <1>3, <1>4 DEF BootNext, RunStep, ReadClickHouse, ReadMain, ReadPg, CreateClickHouse,
        WriteMain, Stop, CnpgCreates, AnotherManagerAdopts, otherVars, bootVars

LEMMA TypeStep == Inv /\ [BootNext]_bootVars => BootTypeOK'
<1> SUFFICES ASSUME Inv, [BootNext]_bootVars PROVE BootTypeOK'
    OBVIOUS
<1> USE DEF Goto
<1>1. BootTypeOK
    BY DEF Inv
<1>2. main' \in Secret
    BY <1>1, MainSteps DEF BootTypeOK
<1>3. ASSUME NEW r \in Run, ReadClickHouse(r) PROVE BootTypeOK'
  <2>1. starts \in 0..MaxStarts /\ starts < MaxStarts /\ 4 + starts \in Serial /\ starts + 1 \in 0..MaxStarts
    BY <1>1, <1>3, KeysAssumption DEF BootTypeOK, ReadClickHouse, KeysAssumption, Serial
  <2>2. [Unread EXCEPT !.serial = 4 + starts, !.clickhouse = clickhouse]
            \in [serial : {0} \cup Serial, clickhouse : Value, main : Secret]
    BY <1>1, <2>1, ValueFacts DEF BootTypeOK, Unread
  <2> QED
    BY <1>1, <1>2, <1>3, <2>1, <2>2 DEF BootTypeOK, ReadClickHouse, Proceed, secretVars
<1>4. ASSUME NEW r \in Run, NEW supplied \in BOOLEAN, ReadMain(r, supplied) PROVE BootTypeOK'
  <2>1. seen' \in [Run -> [serial : {0} \cup Serial, clickhouse : Value, main : Secret]]
    BY <1>1, <1>4 DEF BootTypeOK, ReadMain
  <2> QED
    BY <1>1, <1>2, <1>4, <2>1 DEF BootTypeOK, ReadMain, Proceed, secretVars, otherVars
<1>5. ASSUME NEW r \in Run, ReadPg(r) PROVE BootTypeOK'
    BY <1>1, <1>2, <1>5 DEF BootTypeOK, ReadPg, Proceed, secretVars, otherVars
<1>6. ASSUME NEW r \in Run, CreateClickHouse(r) PROVE BootTypeOK'
  <2>1. clickhouse' \in Value
    BY <1>1, <1>6, ValueFacts DEF BootTypeOK, CreateClickHouse, Absent
  <2> QED
    BY <1>1, <1>2, <1>6, <2>1 DEF BootTypeOK, CreateClickHouse, otherVars
<1>7. ASSUME NEW r \in Run, WriteMain(r) PROVE BootTypeOK'
    BY <1>1, <1>2, <1>7 DEF BootTypeOK, WriteMain, otherVars
<1>8. ASSUME NEW r \in Run, Stop(r) PROVE BootTypeOK'
    BY <1>1, <1>2, <1>8 DEF BootTypeOK, Stop, secretVars, otherVars
<1>9. CASE HelmRenders
  <2>1. upsets' \in 0..MaxUpsets
    BY <1>1, <1>9, KeysAssumption DEF BootTypeOK, HelmRenders, Upset, KeysAssumption
  <2>2. helm' \in [on : BOOLEAN, listed : BOOLEAN, rv : Nat, data : [Required -> Value]]
    BY <1>1, <1>9, ValueFacts DEF BootTypeOK, HelmRenders, Secret
  <2> QED
    BY <1>1, <1>2, <1>9, <2>1, <2>2 DEF BootTypeOK, HelmRenders, Upset, secretVars, runVars
<1>10. CASE HelmApplies
    BY <1>1, <1>2, <1>10, ValueFacts DEF BootTypeOK, HelmApplies, NoHelm, runVars
<1>11. CASE AnotherManagerAdopts
  <2>1. upsets' \in 0..MaxUpsets
    BY <1>1, <1>11, KeysAssumption DEF BootTypeOK, AnotherManagerAdopts, Upset, KeysAssumption
  <2> QED
    BY <1>1, <1>2, <1>11, <2>1 DEF BootTypeOK, AnotherManagerAdopts, Upset, runVars
<1>12. CASE CnpgCreates \/ UNCHANGED bootVars
    BY <1>1, <1>2, <1>12 DEF BootTypeOK, CnpgCreates, bootVars, secretVars, runVars, otherVars
<1> QED
    BY <1>3, <1>4, <1>5, <1>6, <1>7, <1>8, <1>9, <1>10, <1>11, <1>12 DEF BootNext, RunStep

LEMMA NumberedStep == Inv /\ [BootNext]_bootVars => Numbered'
<1> SUFFICES ASSUME Inv, [BootNext]_bootVars, NEW r \in Run, step'[r] \in Active \cup {"main"}
             PROVE  seen'[r].serial # 0
    BY DEF Numbered
<1>1. CASE step'[r] \in Active
    BY <1>1, ReadsCurrent DEF Inv, Numbered
<1>2. CASE step'[r] = "main"
  <2>1. step \in [Run -> {"idle", "main", "pg", "create", "write", "ready"}] /\ starts \in Nat
        /\ seen \in [Run -> [serial : {0} \cup Serial, clickhouse : Value, main : Secret]]
    BY KeysAssumption DEF Inv, BootTypeOK, KeysAssumption
  <2>2. ASSUME NEW q \in Run, ReadClickHouse(q) PROVE seen'[r].serial # 0
    <3>1. [Unread EXCEPT !.serial = 4 + starts, !.clickhouse = clickhouse].serial # 0
        BY <2>1 DEF Unread
    <3> QED
        BY <1>2, <2>1, <2>2, <3>1 DEF ReadClickHouse, Proceed, Goto, Inv, Numbered
  <2>3. ASSUME NEW q \in Run, NEW supplied \in BOOLEAN, ReadMain(q, supplied) PROVE seen'[r].serial # 0
    BY <1>2, <2>1, <2>3 DEF ReadMain, Proceed, Goto, Inv, Numbered
  <2>4. ASSUME NEW q \in Run, ReadPg(q) \/ CreateClickHouse(q) \/ WriteMain(q) \/ Stop(q)
        PROVE  seen'[r].serial # 0
    BY <1>2, <2>1, <2>4 DEF ReadPg, CreateClickHouse, WriteMain, Stop, Proceed, Goto, Inv, Numbered
  <2>5. CASE CnpgCreates \/ HelmRenders \/ HelmApplies \/ AnotherManagerAdopts \/ UNCHANGED bootVars
    BY <1>2, <2>5 DEF CnpgCreates, HelmRenders, HelmApplies, AnotherManagerAdopts, bootVars, runVars,
        Inv, Numbered
  <2> QED
    BY <2>2, <2>3, <2>4, <2>5 DEF BootNext, RunStep
<1> QED
    BY <1>1, <1>2

LEMMA InvStep == Inv /\ [BootNext]_bootVars => Inv'
<1>1. Inv /\ [BootNext]_bootVars => Bare'
    BY MainSteps DEF Inv, Bare
<1> QED
    BY <1>1, TypeStep, KnownStep, NumberedStep, HelmStep DEF Inv

LEMMA Invariance == BootSpec => []Inv
    BY InitInv, InvStep, PTL DEF BootSpec

\* However many invocations overlap, the Secrets stay what the types say.
THEOREM BootTypes == BootSpec => []BootTypeOK
<1>1. Inv => BootTypeOK
    BY DEF Inv
<1> QED
    BY <1>1, Invariance, PTL

\* "Preserve, never rotate implicitly": no interleaving of invocations changes a
\* value that exists; only a Helm upgrade can, a key that its values give or, with
\* what it looked up in an older version, any key.
THEOREM NeverRotated == BootSpec => NoRotation
<1> DEFINE Kept == /\ clickhouse # Absent => clickhouse' = clickhouse
                   /\ \A k \in Required :
                        main.data[k] \notin {Absent, main'.data[k]}
                            => HelmWrites /\ (k \in FromValues \/ helm.rv # main.rv)
<1>1. Inv /\ [BootNext]_bootVars => Kept
  <2> SUFFICES ASSUME Inv, [BootNext]_bootVars PROVE Kept
    OBVIOUS
  <2>1. clickhouse # Absent => clickhouse' = clickhouse
    BY DEF BootNext, RunStep, ReadClickHouse, ReadMain, ReadPg, CreateClickHouse, WriteMain, Stop,
        CnpgCreates, HelmRenders, HelmApplies, AnotherManagerAdopts, bootVars, secretVars
  <2>2. CASE main' = main \/ Preserves
    BY <2>1, <2>2 DEF Preserves
  <2>3. CASE HelmApplies
    <3>1. HelmWrites
        BY <2>3 DEF HelmApplies, HelmWrites, NoHelm
    <3> QED
        BY <2>1, <2>3, <3>1, HelmChanges
  <2>4. CASE AnotherManagerAdopts
    BY <2>1, <2>4 DEF AnotherManagerAdopts
  <2> QED
    BY <2>2, <2>3, <2>4, OnlyTheseWrite
<1>2. Kept => [Kept]_bootVars
    OBVIOUS
<1> QED
    BY <1>1, Invariance, PTL DEF BootSpec, NoRotation

\* An invocation that read the Secret before another manager took it does not
\* take it back; only a Helm release that has the Secret in its last manifest does.
THEOREM ForeignKept == BootSpec => ForeignSecretKept
<1> DEFINE Left == main.owner = "other" => \/ main'.owner = "other" /\ main'.data = main.data
                                           \/ HelmWrites /\ helm.listed
<1>1. Inv /\ [BootNext]_bootVars => Left
  <2> SUFFICES ASSUME Inv, [BootNext]_bootVars, main.owner = "other"
               PROVE  \/ main'.owner = "other" /\ main'.data = main.data
                      \/ HelmWrites /\ helm.listed
    OBVIOUS
  <2>1. CASE main' = main \/ Preserves
    BY <2>1 DEF Preserves
  <2>2. CASE HelmApplies
    BY <2>2, HelmChanges DEF HelmWrites
  <2>3. CASE AnotherManagerAdopts
    BY <2>3 DEF AnotherManagerAdopts
  <2> QED
    BY <2>1, <2>2, <2>3, OnlyTheseWrite
<1> QED
    BY <1>1, Invariance, PTL DEF BootSpec, ForeignSecretKept
-----------------------------------------------------------------------------
(***************************************************************************)
(* What an invocation fills in.                                             *)
(***************************************************************************)
LEMMA AdditionCases ==
    ASSUME NEW r \in Run, NEW k \in Required
    PROVE  /\ k \in Stored => Addition(r, k) = IF seen[r].main.data[Twin[k]] # Absent
                                               THEN seen[r].main.data[Twin[k]] ELSE seen[r].serial
           /\ k \notin Stored => Addition(r, k) \in {seen[r].serial, Standard}
BY KeysAssumption DEF Addition, Required, KeysAssumption

\* The upgrade under way carries twins that agree as well.
HelmTwins ==
    helm.on => \A k \in Stored : {helm.data[k], helm.data[Twin[k]]} \cap {Absent, Redacted} = {}
                                    => helm.data[k] = helm.data[Twin[k]]

LEMMA HelmTwinsStep == Inv /\ TwinsAgree /\ HelmTwins /\ [BootNext]_bootVars => HelmTwins'
<1> SUFFICES ASSUME Inv, TwinsAgree, HelmTwins, [BootNext]_bootVars PROVE HelmTwins'
    OBVIOUS
<1>1. CASE helm' = helm
    BY <1>1 DEF HelmTwins
<1>2. CASE HelmRenders
  <2>1. \A k \in Stored : Twin[k] \in Stored /\ helm'.data[k] = main.data[k]
    BY <1>2, ValueFacts, KeysAssumption DEF HelmRenders, KeysAssumption
  <2> QED
    BY <2>1 DEF HelmTwins, TwinsAgree
<1>3. CASE HelmApplies
    BY <1>3 DEF HelmApplies, HelmTwins, NoHelm
<1> QED
    BY <1>1, <1>2, <1>3 DEF BootNext, RunStep, ReadClickHouse, ReadMain, ReadPg, CreateClickHouse,
        WriteMain, Stop, CnpgCreates, AnotherManagerAdopts, otherVars, bootVars

LEMMA TwinsStep == Inv /\ TwinsAgree /\ HelmTwins /\ [BootNext]_bootVars => TwinsAgree'
<1> SUFFICES ASSUME Inv, TwinsAgree, HelmTwins, [BootNext]_bootVars, NEW k \in Stored,
                    {main'.data[k], main'.data[Twin[k]]} \cap {Absent, Redacted} = {}
             PROVE  main'.data[k] = main'.data[Twin[k]]
    BY DEF TwinsAgree
<1>1. Twin[k] \in Stored /\ Twin[Twin[k]] = k /\ k \in Required /\ Twin[k] \in Required
    BY KeysAssumption DEF KeysAssumption, Required
<1>2. CASE main'.data = main.data
    BY <1>2 DEF TwinsAgree
<1>3. ASSUME NEW r \in Run, WriteMain(r), main'.data # main.data PROVE main'.data[k] = main'.data[Twin[k]]
  <2>1. main'.data = Completed(r) /\ step[r] \in Active /\ (PatchApplies(r) \/ ~Exists(seen[r].main))
    <3>1. main' # main /\ step[r] = "write"
        BY <1>3 DEF WriteMain
    <3>2. Put(Completed(r)) /\ (PatchApplies(r) \/ ~Exists(seen[r].main))
        BY <1>3, <3>1 DEF WriteMain
    <3> QED
        BY <3>1, <3>2 DEF Put, Active
  <2>2. \/ seen[r].main = main
        \/ seen[r].main.data[k] = Absent /\ seen[r].main.data[Twin[k]] = Absent
    BY <1>1, <2>1 DEF Inv, Known, PatchApplies
  <2>3. /\ main'.data[k] = IF seen[r].main.data[k] = Absent THEN Addition(r, k) ELSE seen[r].main.data[k]
        /\ main'.data[Twin[k]] = IF seen[r].main.data[Twin[k]] = Absent THEN Addition(r, Twin[k])
                                                                      ELSE seen[r].main.data[Twin[k]]
    BY <1>1, <2>1 DEF Completed, Missing, Present
  <2>4. /\ Addition(r, k) = IF seen[r].main.data[Twin[k]] # Absent
                           THEN seen[r].main.data[Twin[k]] ELSE seen[r].serial
        /\ Addition(r, Twin[k]) = IF seen[r].main.data[k] # Absent
                                 THEN seen[r].main.data[k] ELSE seen[r].serial
    BY <1>1, AdditionCases
  <2>5. CASE seen[r].main.data[k] # Absent /\ seen[r].main.data[Twin[k]] # Absent
    BY <2>2, <2>3, <2>5 DEF TwinsAgree
  <2> QED
    BY <2>3, <2>4, <2>5
<1>4. CASE HelmApplies
  <2>1. CASE helm.on /\ main'.data = helm.data
    BY <2>1 DEF HelmTwins
  <2> QED
    BY <1>2, <1>4, <2>1, HelmChanges
<1>5. CASE \E r \in Run : WriteMain(r)
    BY <1>2, <1>3, <1>5
<1>6. ASSUME NEW r \in Run, NEW supplied \in BOOLEAN,
             ReadClickHouse(r) \/ ReadMain(r, supplied) \/ ReadPg(r) \/ CreateClickHouse(r) \/ Stop(r)
      PROVE  main' = main
    BY <1>6 DEF ReadClickHouse, ReadMain, ReadPg, CreateClickHouse, Stop, secretVars
<1>7. CASE CnpgCreates \/ HelmRenders \/ AnotherManagerAdopts \/ UNCHANGED bootVars
    BY <1>2, <1>7 DEF CnpgCreates, HelmRenders, AnotherManagerAdopts, bootVars, secretVars
<1> QED
    BY <1>2, <1>4, <1>5, <1>6, <1>7 DEF BootNext, RunStep

\* Keys that hold the same credential agree, whatever credentials each of the
\* overlapping invocations was given.
THEOREM TwinsAlwaysAgree == BootSpec => []TwinsAgree
<1>1. BootInit => TwinsAgree
  <2> SUFFICES ASSUME BootInit, NEW k \in Stored PROVE main.data[k] \in {Absent, Redacted, Found}
                                                      /\ main.data[Twin[k]] \in {Absent, Redacted, Found}
    BY DEF TwinsAgree
  <2>1. k \in Required /\ Twin[k] \in Required
    BY KeysAssumption DEF KeysAssumption, Required
  <2>2. CASE main = Nothing
    BY <2>1, <2>2 DEF Nothing
  <2>3. CASE main \in [rv : {0}, owner : Owner \ {"gone"}, data : [Required -> {Absent, Redacted, Found}]]
    BY <2>1, <2>3
  <2> QED
    BY <2>2, <2>3 DEF BootInit
<1>2. BootInit => HelmTwins
    BY DEF BootInit, HelmTwins, NoHelm
<1> QED
    BY <1>1, <1>2, InitInv, Invariance, TwinsStep, HelmTwinsStep, PTL DEF BootSpec
-----------------------------------------------------------------------------
(***************************************************************************)
(* Completeness: no key and no Secret goes away again, so what an           *)
(* invocation saw or wrote is still there when it reports success.          *)
(***************************************************************************)
Under == Active \cup {"main"}

Growing ==
    /\ \A r \in Run :
          /\ step[r] \in Active =>
                /\ Exists(seen[r].main) => Exists(main)
                /\ \A k \in Required : seen[r].main.data[k] # Absent => main.data[k] # Absent
          /\ step[r] \in Under => (seen[r].clickhouse # Absent => clickhouse # Absent)
          /\ step[r] = "write" => clickhouse # Absent
    /\ helm.on => \A k \in Required : helm.data[k] # Absent

LEMMA CompletedIsComplete ==
    ASSUME Inv, NEW r \in Run, step[r] = "write", NEW k \in Required
    PROVE  Completed(r)[k] # Absent
<1>1. seen[r].serial # Absent
    BY DEF Inv, Numbered, Active, Absent
<1>2. Addition(r, k) # Absent
    BY <1>1, AdditionCases DEF Absent, Standard
<1> QED
    BY <1>2 DEF Completed, Missing, Present

\* Nothing goes away.
LEMMA NothingLost ==
    ASSUME Inv, Growing, [BootNext]_bootVars
    PROVE  /\ Exists(main) => Exists(main')
           /\ \A k \in Required : main.data[k] # Absent => main'.data[k] # Absent
           /\ clickhouse # Absent => clickhouse' # Absent
<1>1. clickhouse # Absent => clickhouse' # Absent
    BY DEF BootNext, RunStep, ReadClickHouse, ReadMain, ReadPg, CreateClickHouse, WriteMain, Stop,
        CnpgCreates, HelmRenders, HelmApplies, AnotherManagerAdopts, bootVars, secretVars
<1>2. CASE main' = main
    BY <1>1, <1>2
<1>3. CASE Preserves
    BY <1>1, <1>3 DEF Preserves
<1>4. CASE HelmApplies
  <2>1. main' = main \/ (helm.on /\ main'.data = helm.data /\ Exists(main'))
    BY <1>4, HelmChanges
  <2> QED
    BY <1>1, <2>1 DEF Growing
<1>5. CASE AnotherManagerAdopts
    BY <1>1, <1>5 DEF AnotherManagerAdopts, Exists
<1> QED
    BY <1>2, <1>3, <1>4, <1>5, OnlyTheseWrite

\* How an invocation gets where it is.
LEMMA Entering ==
    ASSUME Inv, [BootNext]_bootVars, NEW r \in Run
    PROVE  /\ step'[r] \in Under =>
                \/ step[r] \in Under /\ seen'[r].clickhouse = seen[r].clickhouse
                \/ seen'[r].clickhouse = clickhouse /\ clickhouse' = clickhouse
           /\ step'[r] = "write" => step[r] = "write" \/ CreateClickHouse(r)
           /\ step'[r] = "ready" => step[r] = "ready" \/ WriteMain(r)
<1> DEFINE Goal == /\ step'[r] \in Under =>
                        \/ step[r] \in Under /\ seen'[r].clickhouse = seen[r].clickhouse
                        \/ seen'[r].clickhouse = clickhouse /\ clickhouse' = clickhouse
                   /\ step'[r] = "write" => step[r] = "write" \/ CreateClickHouse(r)
                   /\ step'[r] = "ready" => step[r] = "ready" \/ WriteMain(r)
<1>1. step \in [Run -> {"idle", "main", "pg", "create", "write", "ready"}]
      /\ seen \in [Run -> [serial : {0} \cup Serial, clickhouse : Value, main : Secret]]
    BY DEF Inv, BootTypeOK
<1> USE DEF Goto, Under, Active
<1>2. ASSUME NEW q \in Run, ReadClickHouse(q) PROVE Goal
  <2>1. [Unread EXCEPT !.serial = 4 + starts, !.clickhouse = clickhouse].clickhouse = clickhouse
    BY DEF Unread
  <2> QED
    BY <1>1, <1>2, <2>1 DEF ReadClickHouse, Proceed, secretVars
<1>3. ASSUME NEW q \in Run, NEW supplied \in BOOLEAN, ReadMain(q, supplied) PROVE Goal
    BY <1>1, <1>3 DEF ReadMain, Proceed
<1>4. ASSUME NEW q \in Run, ReadPg(q) \/ Stop(q) PROVE Goal
    BY <1>1, <1>4 DEF ReadPg, Stop, Proceed
<1>5. ASSUME NEW q \in Run, CreateClickHouse(q) PROVE Goal
    BY <1>1, <1>5 DEF CreateClickHouse
<1>6. ASSUME NEW q \in Run, WriteMain(q) PROVE Goal
    BY <1>1, <1>6 DEF WriteMain
<1>7. CASE CnpgCreates \/ HelmRenders \/ HelmApplies \/ AnotherManagerAdopts \/ UNCHANGED bootVars
    BY <1>7 DEF CnpgCreates, HelmRenders, HelmApplies, AnotherManagerAdopts, bootVars, runVars
<1> QED
    BY <1>2, <1>3, <1>4, <1>5, <1>6, <1>7 DEF BootNext, RunStep

LEMMA GrowingStep == Inv /\ Growing /\ [BootNext]_bootVars => Growing'
<1> SUFFICES ASSUME Inv, Growing, [BootNext]_bootVars PROVE Growing'
    OBVIOUS
<1>1. ASSUME NEW r \in Run, step'[r] \in Active
      PROVE  /\ Exists(seen'[r].main) => Exists(main')
             /\ \A k \in Required : seen'[r].main.data[k] # Absent => main'.data[k] # Absent
    BY <1>1, ReadsCurrent, NothingLost DEF Growing
<1>2. ASSUME NEW r \in Run, step'[r] \in Under, seen'[r].clickhouse # Absent PROVE clickhouse' # Absent
    BY <1>2, Entering, NothingLost DEF Growing
<1>3. ASSUME NEW r \in Run, step'[r] = "write" PROVE clickhouse' # Absent
  <2>1. CASE step[r] = "write"
    BY <2>1, NothingLost DEF Growing
  <2>2. CASE CreateClickHouse(r)
    <3>1. seen[r].serial # Absent
        BY <2>2 DEF CreateClickHouse, Inv, Numbered, Active, Absent
    <3>2. seen[r].clickhouse # Absent => clickhouse # Absent
        BY <2>2 DEF CreateClickHouse, Growing, Under, Active
    <3> QED
        BY <1>3, <2>2, <3>1, <3>2 DEF CreateClickHouse, Goto, Inv, BootTypeOK
  <2> QED
    BY <1>3, <2>1, <2>2, Entering
<1>4. ASSUME helm'.on, NEW k \in Required PROVE helm'.data[k] # Absent
  <2>1. CASE helm' = helm
    BY <1>4, <2>1 DEF Growing
  <2>2. CASE HelmRenders
    <3>1. {Found, Configured, 4 + MaxStarts} \cap {Absent} = {}
        BY KeysAssumption DEF KeysAssumption, Found, Configured, Absent
    <3> QED
        BY <2>2, <3>1, HelmCarries
  <2>3. CASE HelmApplies
    BY <1>4, <2>3 DEF HelmApplies, NoHelm
  <2> QED
    BY <2>1, <2>2, <2>3 DEF BootNext, RunStep, ReadClickHouse, ReadMain, ReadPg, CreateClickHouse,
        WriteMain, Stop, CnpgCreates, AnotherManagerAdopts, otherVars, bootVars
<1> QED
    BY <1>1, <1>2, <1>3, <1>4 DEF Growing, Exists

LEMMA ReadyStep == Inv /\ Growing /\ ReadyMeansComplete /\ [BootNext]_bootVars => ReadyMeansComplete'
<1> SUFFICES ASSUME Inv, Growing, ReadyMeansComplete, [BootNext]_bootVars,
                    NEW r \in Run, step'[r] = "ready"
             PROVE  Exists(main') /\ (\A k \in Required : main'.data[k] # Absent) /\ clickhouse' # Absent
    BY DEF ReadyMeansComplete, Complete, Exists, Missing, Present
<1>1. CASE step[r] = "ready"
    BY <1>1, NothingLost DEF ReadyMeansComplete, Complete, Missing, Present
<1>2. CASE WriteMain(r)
  <2>1. step[r] = "write" /\ step[r] \in Active /\ clickhouse' # Absent
    BY <1>2, NothingLost DEF WriteMain, Active, Growing
  <2>2. CASE Put(Completed(r))
    BY <2>1, <2>2, CompletedIsComplete DEF Put, Exists
  <2>3. CASE Exists(seen[r].main) /\ Missing(seen[r].main) = {}
    BY <2>1, <2>3, NothingLost DEF Growing, Missing, Present
  <2> QED
    BY <1>2, <2>1, <2>2, <2>3 DEF WriteMain, Goto, Inv, BootTypeOK
<1> QED
    BY <1>1, <1>2, Entering

\* "Secret ready" is true when it is printed and stays so.
THEOREM ReadyIsComplete == BootSpec => []ReadyMeansComplete
<1>1. BootInit => Growing /\ ReadyMeansComplete
    BY DEF BootInit, Growing, Active, Under, NoHelm, ReadyMeansComplete
<1> QED
    BY <1>1, InitInv, Invariance, GrowingStep, ReadyStep, PTL DEF BootSpec
-----------------------------------------------------------------------------
(***************************************************************************)
(* Induction: over numbers, and over trees by their depth.                  *)
(***************************************************************************)
LEMMA LeastNumber ==
    ASSUME NEW T \in SUBSET Nat, T # {}
    PROVE  \E x \in T : \A y \in T : ~(y < x)
<1> DEFINE R == OpToRel(<, Nat)
<1>1. IsWellFoundedOn(R, Nat)
  BY NatLessThanWellFounded
<1>2. PICK x \in T : \A y \in T : <<y, x>> \notin R
  <2> HIDE DEF R
  <2> QED
    BY <1>1, WFMin
<1> QED
  BY <1>2 DEF OpToRel

\* Induction over the numbers, for a set.
LEMMA NatSetInduction ==
    ASSUME NEW S, 0 \in S, \A n \in Nat : n \in S => n + 1 \in S
    PROVE  Nat \subseteq S
<1> DEFINE T == Nat \ S
<1> SUFFICES ASSUME T # {} PROVE FALSE
  OBVIOUS
<1>1. PICK x \in T : \A y \in T : ~(y < x)
  <2>1. T \in SUBSET Nat
    OBVIOUS
  <2> HIDE DEF T
  <2> QED
    BY <2>1, LeastNumber
<1>2. x # 0 /\ x - 1 \in Nat /\ x - 1 < x /\ (x - 1) + 1 = x
  OBVIOUS
<1>3. x - 1 \in S
  BY <1>1, <1>2
<1> QED
  BY <1>2, <1>3

LEMMA NoDicts == ~IsDict(Gone) /\ ~IsDict(Null) /\ Gone # Null
  BY DEF IsDict, IsLeaf, Gone, Null, Leaf

LEMMA DictsAreDicts == \A t \in Dicts : IsDict(t)
  BY DictsAssumption DEF IsDict, IsLeaf, IsList

LEMMA InnermostDict ==
    ASSUME NEW X \in SUBSET Dicts, X # {}
    PROVE  \E t \in X : \A k \in DOMAIN t : t[k] \notin X
<1> DEFINE T == { Depth(t) : t \in X }
<1>1. T \in SUBSET Nat /\ T # {}
  BY DictsAssumption
<1>2. PICK x \in T : \A y \in T : ~(y < x)
  <2> HIDE DEF T
  <2> QED
    BY <1>1, LeastNumber
<1>3. PICK t \in X : x = Depth(t)
  BY <1>2
<1>4. ASSUME NEW k \in DOMAIN t, t[k] \in X PROVE FALSE
  <2>1. Depth(t[k]) < Depth(t)
    BY <1>4, DictsAreDicts, DictsAssumption
  <2> QED
    BY <1>2, <1>3, <1>4, <2>1
<1> QED
  BY <1>4

(***************************************************************************)
(* The values as their defaults and an override make them, for dictionaries *)
(* of any depth and paths of any length.                                    *)
(***************************************************************************)
\* What the script's recursion makes of two dictionaries, given what it makes of
\* those in them.
Merged(l, r, m) ==
    [k \in { k \in DOMAIN l \cup DOMAIN r : k \in DOMAIN r => r[k] # Null } |->
        IF k \notin DOMAIN r THEN l[k]
        ELSE IF k \in DOMAIN l /\ IsDict(l[k]) /\ IsDict(r[k]) THEN m[l[k]][r[k]]
        ELSE r[k]]

\* The dictionaries in those of A are in A; and a merge of those of A.
Downward(A) == A \subseteq Dicts /\ \A t \in A : \A k \in DOMAIN t : IsDict(t[k]) => t[k] \in A

Merges(m, A) == m = [l \in A |-> [r \in Dicts |-> Merged(l, r, m)]]

LEMMA MergedAlike ==
    ASSUME NEW l \in Dicts, NEW r \in Dicts, NEW f, NEW g,
           \A k \in DOMAIN l, e \in Dicts : IsDict(l[k]) => f[l[k]][e] = g[l[k]][e]
    PROVE  Merged(l, r, f) = Merged(l, r, g)
<1>1. ASSUME NEW k \in DOMAIN l, k \in DOMAIN r, IsDict(l[k]), IsDict(r[k])
      PROVE  f[l[k]][r[k]] = g[l[k]][r[k]]
  BY <1>1, DictsAssumption
<1> QED
  BY <1>1 DEF Merged

LEMMA MergesAt ==
    ASSUME NEW A, NEW m, Merges(m, A), NEW l \in A, NEW r \in Dicts
    PROVE  m[l][r] = Merged(l, r, m)
  BY DEF Merges

\* Two of them agree: where they do not there is a dictionary without one in it of
\* which they do not.
LEMMA MergesAgree ==
    ASSUME NEW A, NEW B, Downward(A), Downward(B), NEW f, NEW g, Merges(f, A), Merges(g, B),
           NEW t \in A \cap B, NEW r \in Dicts
    PROVE  f[t][r] = g[t][r]
<1> DEFINE X == { l \in A \cap B : \E e \in Dicts : f[l][e] # g[l][e] }
<1> SUFFICES ASSUME X # {} PROVE FALSE
  OBVIOUS
<1>1. X \in SUBSET Dicts
  BY DEF Downward
<1>2. PICK l \in X : \A k \in DOMAIN l : l[k] \notin X
  <2> HIDE DEF X
  <2> QED
    BY <1>1, InnermostDict
<1>3. PICK e \in Dicts : f[l][e] # g[l][e]
  BY <1>2
<1>4. l \in A /\ l \in B /\ l \in Dicts
  BY <1>1, <1>2
<1>5. \A k \in DOMAIN l, c \in Dicts : IsDict(l[k]) => f[l[k]][c] = g[l[k]][c]
  BY <1>2 DEF Downward
<1> HIDE DEF X
<1>6. Merged(l, e, f) = Merged(l, e, g)
  BY <1>3, <1>4, <1>5, MergedAlike
<1>7. f[l][e] = Merged(l, e, f) /\ g[l][e] = Merged(l, e, g)
  BY <1>3, <1>4, MergesAt
<1> QED
  BY <1>3, <1>6, <1>7

\* There is one of all dictionaries: of those there is one for, it is one, and a
\* dictionary of which all that are in it are among those is among them.
LEMMA MergeExists == \E m : Merges(m, Dicts)
<1> DEFINE For(t, A, f) == t \in A /\ Downward(A) /\ Merges(f, A)
           G == { t \in Dicts : \E A, f : For(t, A, f) }
           F == [l \in G |-> [r \in Dicts |-> CHOOSE v : \E A, f : For(l, A, f) /\ v = f[l][r]]]
<1>1. ASSUME NEW A, NEW f, NEW l \in A, Downward(A), Merges(f, A), NEW r \in Dicts
      PROVE  l \in G /\ F[l][r] = f[l][r]
  <2>1. For(l, A, f)
    BY <1>1
  <2>2. l \in G
    BY <2>1 DEF Downward
  <2>3. \E v : \E B, g : For(l, B, g) /\ v = g[l][r]
    BY <2>1
  <2>4. F[l][r] = CHOOSE v : \E B, g : For(l, B, g) /\ v = g[l][r]
    BY <2>2
  <2>5. PICK B, g : For(l, B, g) /\ F[l][r] = g[l][r]
    BY <2>3, <2>4
  <2>6. g[l][r] = f[l][r]
    BY <2>5, <1>1, MergesAgree
  <2> QED
    BY <2>2, <2>5, <2>6
<1>2. Downward(G)
  <2> SUFFICES ASSUME NEW t \in G, NEW k \in DOMAIN t, IsDict(t[k]) PROVE t[k] \in G
    BY DEF Downward
  <2>1. PICK A, f : For(t, A, f)
    OBVIOUS
  <2>2. For(t[k], A, f)
    BY <2>1 DEF Downward
  <2> QED
    BY <2>2 DEF Downward
<1>3. \A l \in G, r \in Dicts : F[l][r] = Merged(l, r, F)
  <2> SUFFICES ASSUME NEW l \in G, NEW r \in Dicts PROVE F[l][r] = Merged(l, r, F)
    OBVIOUS
  <2>1. PICK A, f : For(l, A, f)
    OBVIOUS
  <2>2. l \in A /\ Downward(A) /\ Merges(f, A)
    BY <2>1
  <2> HIDE DEF F, G
  <2>3. \A d \in A, e \in Dicts : F[d][e] = f[d][e]
    BY <1>1, <2>2
  <2>4. l \in Dicts /\ \A k \in DOMAIN l : IsDict(l[k]) => l[k] \in A
    BY <2>2 DEF Downward
  <2>5. Merged(l, r, f) = Merged(l, r, F)
    BY <2>3, <2>4, MergedAlike
  <2>6. F[l][r] = f[l][r] /\ f[l][r] = Merged(l, r, f)
    BY <2>2, <2>3, MergesAt
  <2> QED
    BY <2>5, <2>6
<1> HIDE DEF F
<1>4. G = Dicts
  <2> SUFFICES ASSUME Dicts \ G # {} PROVE FALSE
    OBVIOUS
  <2>1. PICK t \in Dicts \ G : \A k \in DOMAIN t : t[k] \notin Dicts \ G
    <3>1. Dicts \ G \in SUBSET Dicts
      OBVIOUS
    <3> HIDE DEF G
    <3> QED
      BY <3>1, InnermostDict
  <2> DEFINE H == G \cup {t}
             h == [l \in H |-> [r \in Dicts |-> Merged(l, r, F)]]
  <2>2. \A k \in DOMAIN t : IsDict(t[k]) => t[k] \in G
    BY <2>1, DictsAssumption
  <2>3. Downward(H)
    BY <1>2, <2>2 DEF Downward
  <2>4. \A l \in G, r \in Dicts : h[l][r] = F[l][r]
    BY <1>3
  <2>5. ASSUME NEW l \in H, NEW r \in Dicts PROVE Merged(l, r, F) = Merged(l, r, h)
    <3> HIDE DEF G, h
    <3>1. l \in Dicts /\ \A k \in DOMAIN l : IsDict(l[k]) => l[k] \in G
      BY <1>2, <2>2 DEF Downward
    <3> QED
      BY <2>4, <3>1, MergedAlike
  <2>6. h = [l \in H |-> [r \in Dicts |-> Merged(l, r, h)]]
    BY <2>5
  <2>7. For(t, H, h)
    BY <2>3, <2>6 DEF Merges
  <2> QED
    BY <2>1, <2>7
<1>5. F = [l \in G |-> [r \in Dicts |-> Merged(l, r, F)]]
  <2>1. F = [l \in G |-> [r \in Dicts |-> F[l][r]]]
    BY DEF F
  <2> HIDE DEF G
  <2> QED
    BY <1>3, <2>1
<1>6. Merges(F, G)
  BY <1>5 DEF Merges
<1> HIDE DEF G
<1> QED
  BY <1>4, <1>6

\* So the script's recursion is what it says of all dictionaries.
LEMMA MergeDefined ==
    ASSUME NEW l \in Dicts, NEW r \in Dicts
    PROVE  Merge(l, r) = Merged(l, r, merge)
<1>1. merge = CHOOSE m : m = [left \in Dicts |-> [right \in Dicts |-> Merged(left, right, m)]]
  BY DEF merge, Merged
<1>2. \E m : m = [left \in Dicts |-> [right \in Dicts |-> Merged(left, right, m)]]
  BY MergeExists DEF Merges
<1>3. merge = [left \in Dicts |-> [right \in Dicts |-> Merged(left, right, merge)]]
  BY <1>1, <1>2
<1> QED
  BY <1>3 DEF Merge

\* What is met along a path is met: the first so many of it are, however many.
Meets(w, t, p, n) == w = [i \in 0..n |-> IF i = 0 THEN t ELSE Child(w[i - 1], p[i])]

LEMMA AlongExists ==
    ASSUME NEW t, NEW p
    PROVE  \A n \in Nat : \E w : Meets(w, t, p, n)
<1> DEFINE S == { n \in Nat : \E w : Meets(w, t, p, n) }
<1>1. 0 \in S
  <2> DEFINE w == [i \in 0..0 |-> t]
  <2>1. Meets(w, t, p, 0)
    BY DEF Meets
  <2> QED
    BY <2>1
<1>2. ASSUME NEW n \in Nat, n \in S PROVE n + 1 \in S
  <2>1. PICK w : Meets(w, t, p, n)
    BY <1>2
  <2> DEFINE v == [i \in 0..(n + 1) |-> IF i = 0 THEN t ELSE Child(w[i - 1], p[i])]
  <2>2. v = [i \in 0..(n + 1) |-> IF i = 0 THEN t ELSE Child(w[i - 1], p[i])]
    OBVIOUS
  <2>3. \A i \in 0..n : v[i] = w[i]
    BY <2>1 DEF Meets
  <2> HIDE DEF v
  <2>4. \A i \in 0..(n + 1) : i # 0 => v[i - 1] = w[i - 1]
    BY <2>3
  <2>5. Meets(v, t, p, n + 1)
    BY <2>2, <2>4 DEF Meets
  <2> QED
    BY <2>5
<1> HIDE DEF S
<1>3. Nat \subseteq S
  BY <1>1, <1>2, NatSetInduction
<1> QED
  BY <1>3 DEF S

LEMMA AlongDefined ==
    ASSUME NEW t, NEW p \in Paths
    PROVE  /\ Len(p) \in Nat
           /\ Along(t, p)[0] = t
           /\ \A i \in 1..Len(p) : Along(t, p)[i] = Child(Along(t, p)[i - 1], p[i])
<1>1. Len(p) \in Nat
  BY DictsAssumption
<1>2. \E w : Meets(w, t, p, Len(p))
  BY <1>1, AlongExists
<1>3. Along(t, p) = CHOOSE w : Meets(w, t, p, Len(p))
  BY DEF Along, Meets
<1> DEFINE w == Along(t, p)
<1>4. Meets(w, t, p, Len(p))
  BY <1>2, <1>3
<1> HIDE DEF w
<1>5. w[0] = t /\ \A i \in 1..Len(p) : w[i] = Child(w[i - 1], p[i])
  BY <1>1, <1>4 DEF Meets
<1> QED
  BY <1>1, <1>5 DEF w

\* The keys that a merge has, and what it has there.
LEMMA MergeKeys ==
    ASSUME NEW l \in Dicts, NEW r \in Dicts
    PROVE  /\ DOMAIN Merge(l, r) = { k \in DOMAIN l \cup DOMAIN r : k \in DOMAIN r => r[k] # Null }
           /\ \A k \in DOMAIN Merge(l, r) : Merge(l, r)[k] =
                 IF k \notin DOMAIN r THEN l[k]
                 ELSE IF k \in DOMAIN l /\ IsDict(l[k]) /\ IsDict(r[k]) THEN merge[l[k]][r[k]]
                 ELSE r[k]
<1> DEFINE x == Merge(l, r)
<1>1. x = Merged(l, r, merge)
  BY MergeDefined
<1> HIDE DEF x
<1>2. /\ DOMAIN x = { k \in DOMAIN l \cup DOMAIN r : k \in DOMAIN r => r[k] # Null }
      /\ \A k \in DOMAIN x : x[k] =
            IF k \notin DOMAIN r THEN l[k]
            ELSE IF k \in DOMAIN l /\ IsDict(l[k]) /\ IsDict(r[k]) THEN merge[l[k]][r[k]]
            ELSE r[k]
  BY <1>1 DEF Merged
<1> QED
  BY <1>2 DEF x

LEMMA MergeIsDict ==
    ASSUME NEW l \in Dicts, NEW r \in Dicts
    PROVE  /\ IsDict(Merge(l, r))
           /\ DOMAIN Merge(l, r) = { k \in DOMAIN l \cup DOMAIN r : k \in DOMAIN r => r[k] # Null }
<1>1. DOMAIN Merge(l, r) = { k \in DOMAIN l \cup DOMAIN r : k \in DOMAIN r => r[k] # Null }
  BY MergeKeys
<1>2. "leaf" \notin DOMAIN Merge(l, r) /\ "items" \notin DOMAIN Merge(l, r)
  BY <1>1, DictsAssumption
<1> QED
  BY <1>1, <1>2 DEF IsDict, IsLeaf, IsList

\* One step down of a merge.
LEMMA MergeChild ==
    ASSUME NEW l \in Dicts, NEW r \in Dicts, NEW k
    PROVE  LET a == Child(l, k)
               b == Child(r, k)
               c == Child(Merge(l, r), k)
           IN \/ b = Gone /\ c = a
              \/ b = Null /\ c = Gone
              \/ b \notin {Gone, Null} /\ c = b /\ ~(IsDict(a) /\ IsDict(b))
              \/ a \in Dicts /\ b \in Dicts /\ c = Merge(a, b)
<1> DEFINE a == Child(l, k)
           b == Child(r, k)
           c == Child(Merge(l, r), k)
<1>1. IsDict(l) /\ IsDict(r) /\ IsDict(Merge(l, r))
  BY DictsAreDicts, MergeIsDict
<1>2. CASE k \notin DOMAIN r
  <2>1. b = Gone
    BY <1>1, <1>2 DEF Child
  <2>2. k \in DOMAIN Merge(l, r) <=> k \in DOMAIN l
    BY <1>2, MergeIsDict
  <2>3. k \in DOMAIN l => Merge(l, r)[k] = l[k]
    BY <1>2, MergeKeys
  <2> QED
    BY <1>1, <2>1, <2>2, <2>3 DEF Child
<1>3. CASE k \in DOMAIN r /\ r[k] = Null
  <2>1. k \notin DOMAIN Merge(l, r)
    BY <1>3, MergeIsDict
  <2> QED
    BY <1>1, <1>3, <2>1 DEF Child
<1>4. CASE k \in DOMAIN r /\ r[k] # Null
  <2>1. k \in DOMAIN Merge(l, r)
    BY <1>4, MergeIsDict
  <2>2. b = r[k] /\ b # Gone /\ c = Merge(l, r)[k]
    BY <1>1, <1>4, <2>1, DictsAssumption DEF Child
  <2>3. CASE k \in DOMAIN l /\ IsDict(l[k]) /\ IsDict(r[k])
    <3>1. a = l[k] /\ a \in Dicts /\ b \in Dicts
      BY <1>1, <1>4, <2>2, <2>3, DictsAssumption DEF Child
    <3>2. c = merge[l[k]][r[k]]
      BY <1>4, <2>2, <2>3, MergeKeys
    <3> QED
      BY <2>2, <3>1, <3>2 DEF Merge
  <2>4. CASE ~(k \in DOMAIN l /\ IsDict(l[k]) /\ IsDict(r[k]))
    <3>1. c = r[k]
      BY <1>4, <2>2, <2>4, MergeKeys
    <3>2. ~(IsDict(a) /\ IsDict(b))
      BY <1>1, <2>2, <2>4, NoDicts DEF Child
    <3> QED
      BY <1>4, <2>2, <3>1, <3>2
  <2> QED
    BY <2>3, <2>4
<1> QED
  BY <1>2, <1>3, <1>4

\* Along a path two dictionaries are merged, up to where the override has nothing,
\* null, or something that is no dictionary in place of one.
LEMMA MergeIsOverlay ==
    ASSUME NEW left \in Dicts, NEW right \in Dicts
    PROVE  Overlays(left, right)
<1> SUFFICES ASSUME NEW p \in Paths
             PROVE  LET n == Len(p)
                        l == Along(left, p)
                        r == Along(right, p)
                        m == Along(Merge(left, right), p)
                    IN IF r[n] = Null /\ IsDict(l[n - 1]) THEN m[n] = Gone
                       ELSE IF \E i \in 1..n : r[i] # Gone /\ ~(IsDict(l[i]) /\ IsDict(r[i])) THEN m[n] = r[n]
                       ELSE IF IsDict(l[n]) /\ IsDict(r[n]) THEN IsDict(m[n])
                       ELSE m[n] = l[n]
  BY DEF Overlays
<1> DEFINE l == Along(left, p)
           r == Along(right, p)
           m == Along(Merge(left, right), p)
           Decides(i) == r[i] # Gone /\ ~(IsDict(l[i]) /\ IsDict(r[i]))
           Decided(i) == \E j \in 1..i : Decides(j)
           Both(i) == ~Decided(i) /\ l[i] \in Dicts /\ r[i] \in Dicts /\ m[i] = Merge(l[i], r[i])
           Left(i) == ~Decided(i) /\ r[i] = Gone /\ m[i] = l[i]
           Removed(i) == Decided(i) /\ r[i] = Null /\ IsDict(l[i - 1]) /\ m[i] = Gone
           Replaced(i) == /\ Decided(i) /\ m[i] = r[i] /\ ~(r[i] = Null /\ IsDict(l[i - 1]))
                          /\ ~(IsDict(l[i]) /\ IsDict(r[i]))
           Is(i) == Both(i) \/ Left(i) \/ Removed(i) \/ Replaced(i)
<1>1. /\ Len(p) \in Nat /\ l[0] = left /\ r[0] = right /\ m[0] = Merge(left, right)
      /\ \A i \in 1..Len(p) : /\ l[i] = Child(l[i - 1], p[i]) /\ r[i] = Child(r[i - 1], p[i])
                              /\ m[i] = Child(m[i - 1], p[i])
  BY AlongDefined
<1> HIDE DEF l, r, m
<1>2. Is(0)
  BY <1>1
<1>3. ASSUME NEW i \in Nat, i + 1 \in 1..Len(p), Is(i) PROVE Is(i + 1)
  <2> DEFINE j == i + 1
  <2>1. l[j] = Child(l[i], p[j]) /\ r[j] = Child(r[i], p[j]) /\ m[j] = Child(m[i], p[j])
    BY <1>1, <1>3
  <2>2. Decided(j) <=> Decided(i) \/ Decides(j)
    OBVIOUS
  <2>3. l[j - 1] = l[i]
    OBVIOUS
  <2> HIDE DEF Decided
  <2>4. \A t, k : ~IsDict(t) => Child(t, k) = Gone
    BY DEF Child
  <2>5. CASE Both(i)
    <3>1. IsDict(l[i])
      BY <2>5, DictsAreDicts
    <3>2. \/ r[j] = Gone /\ m[j] = l[j]
          \/ r[j] = Null /\ m[j] = Gone
          \/ r[j] \notin {Gone, Null} /\ m[j] = r[j] /\ ~(IsDict(l[j]) /\ IsDict(r[j]))
          \/ l[j] \in Dicts /\ r[j] \in Dicts /\ m[j] = Merge(l[j], r[j])
      BY <2>1, <2>5, MergeChild
    <3>3. ~Decided(i) /\ IsDict(l[j - 1])
      BY <2>3, <2>5, <3>1
    <3> SUFFICES Is(j)
      OBVIOUS
    <3> HIDE DEF j
    <3>4. CASE r[j] = Gone /\ m[j] = l[j]
      BY <2>2, <3>3, <3>4
    <3>5. CASE r[j] = Null /\ m[j] = Gone
      BY <2>2, <3>3, <3>5, NoDicts
    <3>6. CASE r[j] \notin {Gone, Null} /\ m[j] = r[j] /\ ~(IsDict(l[j]) /\ IsDict(r[j]))
      BY <2>2, <3>3, <3>6
    <3>7. CASE l[j] \in Dicts /\ r[j] \in Dicts /\ m[j] = Merge(l[j], r[j])
      BY <2>2, <3>3, <3>7, DictsAreDicts
    <3> QED
      BY <3>2, <3>4, <3>5, <3>6, <3>7
  <2>6. CASE Left(i)
    <3>1. r[j] = Gone /\ m[j] = l[j]
      BY <2>1, <2>4, <2>6, NoDicts
    <3> QED
      BY <2>2, <2>6, <3>1
  <2>7. CASE Removed(i)
    <3>1. r[j] = Gone /\ m[j] = Gone
      BY <2>1, <2>4, <2>7, NoDicts
    <3> QED
      BY <2>2, <2>7, <3>1, NoDicts
  <2>8. CASE Replaced(i)
    <3>1. m[j] = r[j]
      BY <2>1, <2>8
    <3>2. CASE ~IsDict(r[i])
      <4>1. r[j] = Gone
        BY <2>1, <2>4, <3>2
      <4> QED
        BY <2>2, <2>8, <3>1, <4>1, NoDicts
    <3>3. CASE ~IsDict(l[i])
      <4>1. l[j] = Gone
        BY <2>1, <2>4, <3>3
      <4>2. ~IsDict(l[j - 1]) /\ ~IsDict(l[j])
        BY <2>3, <3>3, <4>1, NoDicts
      <4> HIDE DEF j
      <4>3. Replaced(j)
        BY <2>2, <2>8, <3>1, <4>2
      <4> QED
        BY <4>3 DEF j
    <3> QED
      BY <2>8, <3>2, <3>3
  <2> QED
    BY <1>3, <2>5, <2>6, <2>7, <2>8
<1> DEFINE S == { i \in Nat : i \in 0..Len(p) => Is(i) }
<1>4. Nat \subseteq S
  <2>1. 0 \in S
    BY <1>2
  <2>2. ASSUME NEW i \in Nat, i \in S PROVE i + 1 \in S
    <3> HIDE DEF Is
    <3> QED
      BY <1>1, <1>3, <2>2
  <2> HIDE DEF S
  <2> QED
    BY <2>1, <2>2, NatSetInduction
<1>5. Is(Len(p))
  <2> HIDE DEF Is
  <2> QED
    BY <1>1, <1>4
<1> DEFINE n == Len(p)
<1>6. Decided(n) <=> \E i \in 1..n : r[i] # Gone /\ ~(IsDict(l[i]) /\ IsDict(r[i]))
  OBVIOUS
<1>7. Both(n) => IsDict(l[n]) /\ IsDict(r[n]) /\ IsDict(m[n])
  BY DictsAreDicts, MergeIsDict
<1> HIDE DEF n, Decided
<1>8. IF r[n] = Null /\ IsDict(l[n - 1]) THEN m[n] = Gone
      ELSE IF Decided(n) THEN m[n] = r[n]
      ELSE IF IsDict(l[n]) /\ IsDict(r[n]) THEN IsDict(m[n])
      ELSE m[n] = l[n]
  BY <1>5, <1>7, NoDicts DEF n
<1> QED
  BY <1>6, <1>8 DEF n, l, r, m

\* An override stands as it is over nothing, and the chart's credential stays.
LEMMA TreesMerge ==
    ASSUME NEW t \in Trees
    PROVE  Merge(Empty, t) = t /\ "accessKey" \in DOMAIN Merge(Defaults, t)
<1>1. t \in Dicts /\ Empty \in Dicts /\ Defaults \in Dicts /\ \A k \in DOMAIN t : t[k] # Null
  BY TreesAssumption DEF TreesAssumption
<1>2. "accessKey" \in DOMAIN Merge(Defaults, t)
  <2>1. DOMAIN Merge(Defaults, t) =
            { k \in DOMAIN Defaults \cup DOMAIN t : k \in DOMAIN t => t[k] # Null }
    BY <1>1, MergeIsDict
  <2>2. "accessKey" \in DOMAIN Defaults
    BY TreesAssumption DEF TreesAssumption
  <2> QED
    BY <1>1, <2>1, <2>2
<1>3. DOMAIN Empty = {}
  BY DEF Empty
<1>4. Merge(Empty, t) = Merged(Empty, t, merge)
  BY <1>1, MergeDefined
<1>5. Merged(Empty, t, merge) = [k \in DOMAIN t |-> t[k]]
  BY <1>1, <1>3 DEF Merged
<1>6. t = [k \in DOMAIN t |-> t[k]]
  BY <1>1, DictsAssumption
<1> QED
  BY <1>2, <1>4, <1>5, <1>6
-----------------------------------------------------------------------------
(***************************************************************************)
(* How trees of any depth are compared.                                     *)
(***************************************************************************)
\* What the script's recursion makes of two trees, given what it makes of those in
\* them.
Alike(w, h, s, g) ==
    IF IsDict(w) /\ IsDict(h)
    THEN \A k \in IF s /\ w # Empty THEN DOMAIN w ELSE DOMAIN w \cup DOMAIN h :
            k \in DOMAIN w \cap DOMAIN h /\ g[w[k]][h[k]][s]
    ELSE IF IsList(w) /\ IsList(h)
    THEN /\ Len(w.items) = Len(h.items)
         /\ \A i \in 1..Len(w.items) : g[w.items[i]][h.items[i]][s]
    ELSE w = h

\* The trees in those of A are in A; and a comparison of those of A.
Closed(A) == A \subseteq Compared /\ \A v \in A : Inner(v) \subseteq A

Agrees(g, A) == g = [w \in A |-> [h \in Compared |-> [s \in BOOLEAN |-> Alike(w, h, s, g)]]]

LEMMA InnerOf ==
    ASSUME NEW v \in Compared
    PROVE  /\ \A w \in Inner(v) : w \in Compared /\ Depth(w) < Depth(v)
           /\ IsDict(v) => \A k \in DOMAIN v : v[k] \in Inner(v)
           /\ IsList(v) => /\ v.items \in Seq(Compared) /\ Len(v.items) \in Nat
                           /\ \A i \in 1..Len(v.items) : v.items[i] \in Inner(v)
<1>1. /\ v = [k \in DOMAIN v |-> v[k]] /\ (IsList(v) => v.items \in Seq(Compared))
      /\ Depth(v) \in Nat /\ \A w \in Inner(v) : w \in Compared /\ Depth(w) < Depth(v)
  BY ComparedAssumption
<1>2. IsDict(v) => \A k \in DOMAIN v : v[k] \in Inner(v)
  BY DEF Inner, IsDict
<1>3. ASSUME IsList(v)
      PROVE  /\ v.items \in Seq(Compared) /\ Len(v.items) \in Nat
             /\ \A i \in 1..Len(v.items) : v.items[i] \in Inner(v)
  <2>1. DOMAIN v.items = 1..Len(v.items) /\ Len(v.items) \in Nat
    BY <1>1, <1>3
  <2>2. ~IsLeaf(v)
    BY <1>3 DEF IsLeaf, IsList
  <2> QED
    BY <1>1, <1>3, <2>1, <2>2 DEF Inner
<1> QED
  BY <1>1, <1>2, <1>3

LEMMA InnermostTree ==
    ASSUME NEW X \in SUBSET Compared, X # {}
    PROVE  \E v \in X : \A w \in Inner(v) : w \notin X
<1> DEFINE T == { Depth(v) : v \in X }
<1>1. T \in SUBSET Nat /\ T # {}
  BY ComparedAssumption
<1>2. PICK x \in T : \A y \in T : ~(y < x)
  <2> HIDE DEF T
  <2> QED
    BY <1>1, LeastNumber
<1>3. PICK v \in X : x = Depth(v)
  BY <1>2
<1>4. \A w \in Inner(v) : w \notin X
  BY <1>2, <1>3, InnerOf
<1> QED
  BY <1>4

LEMMA AlikeSame ==
    ASSUME NEW w \in Compared, NEW h \in Compared, NEW s \in BOOLEAN, NEW f, NEW g,
           \A c \in Inner(w) : f[c] = g[c]
    PROVE  Alike(w, h, s, f) = Alike(w, h, s, g)
<1>1. CASE IsDict(w) /\ IsDict(h)
  <2>1. \A k \in DOMAIN w : f[w[k]] = g[w[k]]
    BY <1>1, InnerOf
  <2> DEFINE K == IF s /\ w # Empty THEN DOMAIN w ELSE DOMAIN w \cup DOMAIN h
             All(m) == \A k \in K : k \in DOMAIN w \cap DOMAIN h /\ m[w[k]][h[k]][s]
  <2>2. All(f) = All(g)
    <3> HIDE DEF K
    <3> QED
      BY <2>1
  <2>3. Alike(w, h, s, f) = All(f) /\ Alike(w, h, s, g) = All(g)
    BY <1>1 DEF Alike
  <2> QED
    BY <2>2, <2>3
<1>2. CASE ~(IsDict(w) /\ IsDict(h)) /\ IsList(w) /\ IsList(h)
  <2>1. \A i \in 1..Len(w.items) : f[w.items[i]] = g[w.items[i]]
    BY <1>2, InnerOf
  <2> DEFINE All(m) == /\ Len(w.items) = Len(h.items)
                       /\ \A i \in 1..Len(w.items) : m[w.items[i]][h.items[i]][s]
  <2>2. All(f) = All(g)
    BY <2>1
  <2>3. Alike(w, h, s, f) = All(f) /\ Alike(w, h, s, g) = All(g)
    BY <1>2 DEF Alike
  <2> HIDE DEF All
  <2> QED
    BY <2>2, <2>3
<1>3. CASE ~(IsDict(w) /\ IsDict(h)) /\ ~(IsList(w) /\ IsList(h))
  BY <1>3 DEF Alike
<1> QED
  BY <1>1, <1>2, <1>3

LEMMA AgreesAt ==
    ASSUME NEW A, NEW g, Agrees(g, A), NEW w \in A
    PROVE  /\ g[w] = [h \in Compared |-> [s \in BOOLEAN |-> Alike(w, h, s, g)]]
           /\ \A h \in Compared, s \in BOOLEAN : g[w][h][s] = Alike(w, h, s, g)
<1>1. g[w] = [h \in Compared |-> [s \in BOOLEAN |-> Alike(w, h, s, g)]]
  BY DEF Agrees
<1> QED
  BY <1>1

\* Two of them agree: where they do not there is a tree without one in it of which
\* they do not.
LEMMA AgreesUnique ==
    ASSUME NEW A, NEW B, Closed(A), Closed(B), NEW f, NEW g, Agrees(f, A), Agrees(g, B),
           NEW t \in A \cap B
    PROVE  f[t] = g[t]
<1> DEFINE X == { v \in A \cap B : f[v] # g[v] }
<1> SUFFICES ASSUME X # {} PROVE FALSE
  OBVIOUS
<1>1. X \in SUBSET Compared
  BY DEF Closed
<1>2. PICK v \in X : \A w \in Inner(v) : w \notin X
  <2> HIDE DEF X
  <2> QED
    BY <1>1, InnermostTree
<1>3. v \in A /\ v \in B /\ v \in Compared /\ f[v] # g[v]
  BY <1>1, <1>2
<1>4. \A w \in Inner(v) : f[w] = g[w]
  BY <1>2 DEF Closed
<1> HIDE DEF X
<1>5. \A h \in Compared, s \in BOOLEAN : Alike(v, h, s, f) = Alike(v, h, s, g)
  BY <1>3, <1>4, AlikeSame
<1>6. /\ f[v] = [h \in Compared |-> [s \in BOOLEAN |-> Alike(v, h, s, f)]]
      /\ g[v] = [h \in Compared |-> [s \in BOOLEAN |-> Alike(v, h, s, g)]]
  BY <1>3, AgreesAt
<1> QED
  BY <1>3, <1>5, <1>6

LEMMA AgreeExists == \E g : Agrees(g, Compared)
<1> DEFINE For(t, A, f) == t \in A /\ Closed(A) /\ Agrees(f, A)
           G == { t \in Compared : \E A, f : For(t, A, f) }
           F == [l \in G |-> CHOOSE v : \E A, f : For(l, A, f) /\ v = f[l]]
<1>1. ASSUME NEW A, NEW f, NEW l \in A, Closed(A), Agrees(f, A)
      PROVE  l \in G /\ F[l] = f[l]
  <2>1. For(l, A, f)
    BY <1>1
  <2>2. l \in G
    BY <2>1 DEF Closed
  <2>3. \E v : \E B, g : For(l, B, g) /\ v = g[l]
    BY <2>1
  <2>4. F[l] = CHOOSE v : \E B, g : For(l, B, g) /\ v = g[l]
    BY <2>2
  <2>5. PICK B, g : For(l, B, g) /\ F[l] = g[l]
    BY <2>3, <2>4
  <2>6. g[l] = f[l]
    BY <2>5, <1>1, AgreesUnique
  <2> QED
    BY <2>2, <2>5, <2>6
<1>2. Closed(G)
  <2> SUFFICES ASSUME NEW t \in G, NEW w \in Inner(t) PROVE w \in G
    BY DEF Closed
  <2>1. PICK A, f : For(t, A, f)
    OBVIOUS
  <2>2. For(w, A, f)
    BY <2>1 DEF Closed
  <2> QED
    BY <2>2 DEF Closed
<1>3. \A l \in G : F[l] = [h \in Compared |-> [s \in BOOLEAN |-> Alike(l, h, s, F)]]
  <2> SUFFICES ASSUME NEW l \in G
               PROVE  F[l] = [h \in Compared |-> [s \in BOOLEAN |-> Alike(l, h, s, F)]]
    OBVIOUS
  <2>1. PICK A, f : For(l, A, f)
    OBVIOUS
  <2>2. l \in A /\ Closed(A) /\ Agrees(f, A)
    BY <2>1
  <2> HIDE DEF F, G
  <2>3. \A w \in A : F[w] = f[w]
    BY <1>1, <2>2
  <2>4. l \in Compared /\ \A w \in Inner(l) : f[w] = F[w]
    BY <2>2, <2>3 DEF Closed
  <2>5. \A h \in Compared, s \in BOOLEAN : Alike(l, h, s, f) = Alike(l, h, s, F)
    BY <2>4, AlikeSame
  <2>6. F[l] = f[l] /\ f[l] = [h \in Compared |-> [s \in BOOLEAN |-> Alike(l, h, s, f)]]
    BY <2>2, <2>3, AgreesAt
  <2> QED
    BY <2>5, <2>6
<1> HIDE DEF F
<1>4. G = Compared
  <2> SUFFICES ASSUME Compared \ G # {} PROVE FALSE
    OBVIOUS
  <2>1. PICK t \in Compared \ G : \A w \in Inner(t) : w \notin Compared \ G
    <3>1. Compared \ G \in SUBSET Compared
      OBVIOUS
    <3> HIDE DEF G
    <3> QED
      BY <3>1, InnermostTree
  <2> DEFINE H == G \cup {t}
             m == [l \in H |-> [h \in Compared |-> [s \in BOOLEAN |-> Alike(l, h, s, F)]]]
  <2>2. Inner(t) \subseteq G
    BY <2>1, InnerOf
  <2>3. Closed(H)
    BY <1>2, <2>2 DEF Closed
  <2>4. \A l \in G : m[l] = F[l]
    BY <1>3
  <2>5. ASSUME NEW l \in H, NEW h \in Compared, NEW s \in BOOLEAN
        PROVE  Alike(l, h, s, F) = Alike(l, h, s, m)
    <3> HIDE DEF G, m
    <3>1. l \in Compared /\ \A w \in Inner(l) : w \in G
      BY <1>2, <2>2 DEF Closed
    <3>2. \A w \in Inner(l) : F[w] = m[w]
      BY <2>4, <3>1
    <3> QED
      BY <3>1, <3>2, AlikeSame
  <2>6. m = [l \in H |-> [h \in Compared |-> [s \in BOOLEAN |-> Alike(l, h, s, m)]]]
    BY <2>5
  <2>7. For(t, H, m)
    BY <2>3, <2>6 DEF Agrees
  <2> QED
    BY <2>1, <2>7
<1>5. F = [l \in G |-> [h \in Compared |-> [s \in BOOLEAN |-> Alike(l, h, s, F)]]]
  <2>1. F = [l \in G |-> F[l]]
    BY DEF F
  <2> HIDE DEF G
  <2> QED
    BY <1>3, <2>1
<1>6. Agrees(F, G)
  BY <1>5 DEF Agrees
<1> HIDE DEF G
<1> QED
  BY <1>4, <1>6

\* So the script's recursion is what it says of all trees.
LEMMA AgreeDefined ==
    ASSUME NEW w \in Compared, NEW h \in Compared, NEW s \in BOOLEAN
    PROVE  Agree(w, h, s) = Alike(w, h, s, agrees)
<1>1. agrees = CHOOSE g : g = [want \in Compared |-> [have \in Compared |->
                                  [subset \in BOOLEAN |-> Alike(want, have, subset, g)]]]
  BY DEF agrees, Alike
<1>2. agrees = CHOOSE g : Agrees(g, Compared)
  BY <1>1 DEF Agrees
<1>3. Agrees(agrees, Compared)
  BY <1>2, AgreeExists
<1>4. agrees[w][h][s] = Alike(w, h, s, agrees)
  BY <1>3, AgreesAt
<1> QED
  BY <1>4 DEF Agree

\* Of all keys, they agree that are equal; and whatever is compared, a tree with
\* itself.
LEMMA AgreeEqual ==
    ASSUME NEW w \in Compared, NEW h \in Compared
    PROVE  Agree(w, h, FALSE) <=> w = h
<1> DEFINE X == { v \in Compared : \E u \in Compared : ~(Agree(v, u, FALSE) <=> v = u) }
<1> SUFFICES ASSUME X # {} PROVE FALSE
  OBVIOUS
<1>1. PICK v \in X : \A c \in Inner(v) : c \notin X
  <2>1. X \in SUBSET Compared
    OBVIOUS
  <2> HIDE DEF X
  <2> QED
    BY <2>1, InnermostTree
<1>2. PICK u \in Compared : ~(Agree(v, u, FALSE) <=> v = u)
  BY <1>1
<1>3. v \in Compared
  OBVIOUS
<1>4. \A c \in Inner(v), d \in Compared : agrees[c][d][FALSE] <=> c = d
  <2> SUFFICES ASSUME NEW c \in Inner(v), NEW d \in Compared PROVE Agree(c, d, FALSE) <=> c = d
    BY DEF Agree
  <2>1. c \in Compared
    BY <1>3, InnerOf
  <2> QED
    BY <1>1, <2>1
<1> HIDE DEF X
<1>5. Agree(v, u, FALSE) <=> Alike(v, u, FALSE, agrees)
  BY <1>3, AgreeDefined
<1>6. v = [k \in DOMAIN v |-> v[k]] /\ u = [k \in DOMAIN u |-> u[k]]
  BY <1>3, ComparedAssumption
<1>7. CASE IsDict(v) /\ IsDict(u)
  <2>1. /\ \A k \in DOMAIN v : v[k] \in Inner(v)
        /\ \A k \in DOMAIN u : u[k] \in Compared
    BY <1>3, <1>7, InnerOf
  <2>2. Alike(v, u, FALSE, agrees)
          <=> \A k \in DOMAIN v \cup DOMAIN u : k \in DOMAIN v \cap DOMAIN u /\ agrees[v[k]][u[k]][FALSE]
    BY <1>7 DEF Alike
  <2>3. Alike(v, u, FALSE, agrees)
          <=> \A k \in DOMAIN v \cup DOMAIN u : k \in DOMAIN v \cap DOMAIN u /\ v[k] = u[k]
    BY <1>4, <2>1, <2>2
  <2>4. (\A k \in DOMAIN v \cup DOMAIN u : k \in DOMAIN v \cap DOMAIN u /\ v[k] = u[k]) <=> v = u
    BY <1>6
  <2> QED
    BY <1>2, <1>5, <2>3, <2>4
<1>8. CASE ~(IsDict(v) /\ IsDict(u)) /\ IsList(v) /\ IsList(u)
  <2>1. /\ v.items \in Seq(Compared) /\ u.items \in Seq(Compared)
        /\ \A i \in 1..Len(v.items) : v.items[i] \in Inner(v)
    BY <1>3, <1>8, InnerOf
  <2>2. Alike(v, u, FALSE, agrees)
          <=> /\ Len(v.items) = Len(u.items)
              /\ \A i \in 1..Len(v.items) : agrees[v.items[i]][u.items[i]][FALSE]
    BY <1>8 DEF Alike
  <2>3. Len(v.items) = Len(u.items) =>
          \A i \in 1..Len(v.items) : agrees[v.items[i]][u.items[i]][FALSE] <=> v.items[i] = u.items[i]
    <3> SUFFICES ASSUME Len(v.items) = Len(u.items), NEW i \in 1..Len(v.items)
                 PROVE  agrees[v.items[i]][u.items[i]][FALSE] <=> v.items[i] = u.items[i]
        OBVIOUS
    <3> DEFINE c == v.items[i]
               d == u.items[i]
    <3>1. c \in Inner(v) /\ d \in Compared
        BY <2>1
    <3> SUFFICES agrees[c][d][FALSE] <=> c = d
        OBVIOUS
    <3> HIDE DEF c, d
    <3> QED
        BY <1>4, <3>1
  <2>4. v.items = u.items <=> /\ Len(v.items) = Len(u.items)
                              /\ \A i \in 1..Len(v.items) : v.items[i] = u.items[i]
    BY <2>1
  <2>5. v = u <=> v.items = u.items
    <3>1. DOMAIN v = {"items"} /\ DOMAIN u = {"items"}
      BY <1>8 DEF IsList
    <3> QED
      BY <1>6, <3>1
  <2> QED
    BY <1>2, <1>5, <2>2, <2>3, <2>4, <2>5
<1>9. CASE ~(IsDict(v) /\ IsDict(u)) /\ ~(IsList(v) /\ IsList(u))
  BY <1>2, <1>5, <1>9 DEF Alike
<1> QED
  BY <1>7, <1>8, <1>9

LEMMA AgreeItself ==
    ASSUME NEW w \in Compared, NEW s \in BOOLEAN
    PROVE  Agree(w, w, s)
<1> DEFINE X == { v \in Compared : ~Agree(v, v, s) }
<1> SUFFICES ASSUME X # {} PROVE FALSE
  OBVIOUS
<1>1. PICK v \in X : \A c \in Inner(v) : c \notin X
  <2>1. X \in SUBSET Compared
    OBVIOUS
  <2> HIDE DEF X
  <2> QED
    BY <2>1, InnermostTree
<1>2. v \in Compared /\ ~Alike(v, v, s, agrees)
  BY AgreeDefined
<1>3. \A c \in Inner(v) : agrees[c][c][s]
  BY <1>1, <1>2, InnerOf DEF Agree
<1>4. CASE IsDict(v)
  BY <1>2, <1>3, <1>4, InnerOf DEF Alike
<1>5. CASE ~IsDict(v) /\ IsList(v)
  BY <1>2, <1>3, <1>5, InnerOf DEF Alike
<1>6. CASE ~IsDict(v) /\ ~IsList(v)
  BY <1>2, <1>6 DEF Alike
<1> QED
  BY <1>4, <1>5, <1>6

\* Of a dictionary with something in it, the fields asked for.
LEMMA AgreeFields ==
    ASSUME NEW w \in Compared, NEW h \in Compared, IsDict(w), IsDict(h), w # Empty
    PROVE  Agree(w, h, TRUE) <=> \A k \in DOMAIN w : k \in DOMAIN h /\ Agree(w[k], h[k], TRUE)
<1>1. Agree(w, h, TRUE) <=> Alike(w, h, TRUE, agrees)
  BY AgreeDefined
<1>2. Alike(w, h, TRUE, agrees) <=>
        \A k \in DOMAIN w : k \in DOMAIN w \cap DOMAIN h /\ agrees[w[k]][h[k]][TRUE]
  BY DEF Alike
<1> QED
  BY <1>1, <1>2 DEF Agree

\* With a leaf nothing agrees but itself.
LEMMA AgreeLeaf ==
    ASSUME NEW w \in Compared, NEW h \in Compared, IsLeaf(h), NEW s \in BOOLEAN, Agree(w, h, s)
    PROVE  w = h
<1>1. Alike(w, h, s, agrees)
  BY AgreeDefined
<1>2. ~IsDict(h) /\ ~IsList(h)
  BY DEF IsDict, IsLeaf, IsList
<1> QED
  BY <1>1, <1>2 DEF Alike
-----------------------------------------------------------------------------
(***************************************************************************)
(* Values and what is made of them.                                         *)
(***************************************************************************)
LEMMA Credentials ==
    ASSUME NEW t \in Trees, NEW c
    PROVE  /\ Coalesced(t, c).accessKey = Leaf(c)
           /\ Effective(t, c) = Coalesced(t, c)
BY TreesMerge DEF Coalesced, Effective

\* The credential is all in which two releases of the same values may differ.
LEMMA CredentialApart ==
    ASSUME NEW t, NEW a, NEW b
    PROVE  /\ Plain(Coalesced(t, a)) = Plain(Coalesced(t, b))
           /\ Template(Coalesced(t, a)) = Template(Coalesced(t, b))
<1>1. DOMAIN Coalesced(t, a) = DOMAIN Merge(Defaults, t) /\ DOMAIN Coalesced(t, b) = DOMAIN Merge(Defaults, t)
    BY DEF Coalesced
<1>2. \A k \in DOMAIN Merge(Defaults, t) \ {"accessKey"} : Coalesced(t, a)[k] = Coalesced(t, b)[k]
    BY DEF Coalesced
<1> HIDE DEF Coalesced
<1> QED
    BY <1>1, <1>2 DEF Plain, Template

LEMMA PlainDecides ==
    ASSUME NEW t \in Trees, NEW u \in Trees, NEW c, Plain(Coalesced(t, c)) = Plain(Coalesced(u, c))
    PROVE  Coalesced(t, c) = Coalesced(u, c)
<1> DEFINE f == Coalesced(t, c)
           g == Coalesced(u, c)
<1>1. /\ "accessKey" \in DOMAIN f /\ "accessKey" \in DOMAIN g
      /\ f.accessKey = g.accessKey
    BY TreesMerge, Credentials DEF Coalesced
<1>2. f = [k \in DOMAIN f |-> f[k]] /\ g = [k \in DOMAIN g |-> g[k]]
    BY DEF Coalesced
<1>3. Plain(f) = Plain(g)
    OBVIOUS
<1> HIDE DEF f, g
<1>4. DOMAIN Plain(f) = DOMAIN f \ {"accessKey"} /\ DOMAIN Plain(g) = DOMAIN g \ {"accessKey"}
    BY DEF Plain
<1>5. DOMAIN f = DOMAIN g
    BY <1>1, <1>3, <1>4
<1>6. \A k \in DOMAIN f \ {"accessKey"} : Plain(f)[k] = f[k] /\ Plain(g)[k] = g[k]
    BY <1>5 DEF Plain
<1>7. \A k \in DOMAIN f : f[k] = g[k]
    BY <1>1, <1>3, <1>6
<1>8. f = g
    BY <1>2, <1>5, <1>7
<1> QED
    BY <1>8 DEF f, g

\* What the check compares is there to be compared.
LEMMA ComparedHere ==
    /\ \A t \in Trees : LET v == Coalesced(t, Absent)
                       IN /\ Plain(v) \in Compared /\ Template(v) \in Compared
                          /\ Normal(Template(v)) \in Compared
                          /\ \A s \in Variants(Served(Template(v))) : Normal(s) \in Compared
    /\ Wanted \in Compared /\ Served(Wanted) \in Compared /\ Served(Shrunk) \in Compared
<1>1. /\ \A t \in Trees : Handled(t) \subseteq Compared
      /\ {Wanted, Served(Wanted), Served(Shrunk)} \subseteq Compared
    BY TreesAssumption DEF TreesAssumption
<1>2. ASSUME NEW t \in Trees
      PROVE  LET v == Coalesced(t, Absent)
             IN /\ Plain(v) \in Compared /\ Template(v) \in Compared
                /\ Normal(Template(v)) \in Compared
                /\ \A s \in Variants(Served(Template(v))) : Normal(s) \in Compared
  <2>1. Handled(t) \subseteq Compared
    BY <1>1
  <2> QED
    BY <2>1 DEF Handled
<1>3. Wanted \in Compared /\ Served(Wanted) \in Compared /\ Served(Shrunk) \in Compared
    BY <1>1
<1> QED
    BY <1>2, <1>3

\* What the script finds in the values.
LEMMA ValuesCompared ==
    ASSUME NEW t \in Trees, NEW a, NEW b
    PROVE  /\ ~Differ(Effective(Desired, a), Coalesced(t, b)) <=> Coalesced(Desired, Absent) = Coalesced(t, Absent)
           /\ CredentialsDiffer(Effective(Desired, a), Coalesced(t, b)) <=> Leaf(a) # Leaf(b)
<1>1. Desired \in Trees
    BY TreesAssumption DEF TreesAssumption
<1>2. Effective(Desired, a) = Coalesced(Desired, a)
    BY <1>1, Credentials
<1>3. Plain(Coalesced(Desired, a)) = Plain(Coalesced(Desired, Absent)) /\ Plain(Coalesced(t, b)) = Plain(Coalesced(t, Absent))
    BY CredentialApart
<1>4. Agree(Plain(Coalesced(Desired, Absent)), Plain(Coalesced(t, Absent)), FALSE)
         <=> Plain(Coalesced(Desired, Absent)) = Plain(Coalesced(t, Absent))
    BY <1>1, ComparedHere, AgreeEqual
<1>5. Plain(Coalesced(Desired, Absent)) = Plain(Coalesced(t, Absent))
         <=> Coalesced(Desired, Absent) = Coalesced(t, Absent)
    BY <1>1, PlainDecides
<1>6. Coalesced(Desired, a).accessKey = Leaf(a) /\ Coalesced(t, b).accessKey = Leaf(b)
    BY <1>1, Credentials
<1> QED
    BY <1>2, <1>3, <1>4, <1>5, <1>6 DEF Differ, CredentialsDiffer

LEMMA LeafIs == ASSUME NEW a, NEW b, Leaf(a) = Leaf(b) PROVE a = b
<1>1. Leaf(a).leaf = a /\ Leaf(b).leaf = b
    BY DEF Leaf
<1> QED
    BY <1>1

LEMMA Rendered ==
    ASSUME NEW t \in Trees, NEW a, NEW b, Coalesced(Desired, Absent) = Coalesced(t, Absent)
    PROVE  Agree(Template(Effective(Desired, a)), Template(Effective(t, b)), FALSE)
<1>1. Desired \in Trees
    BY TreesAssumption DEF TreesAssumption
<1>2. Effective(Desired, a) = Coalesced(Desired, a) /\ Effective(t, b) = Coalesced(t, b)
    BY <1>1, Credentials
<1>3. Template(Coalesced(Desired, a)) = Template(Coalesced(Desired, Absent)) /\ Template(Coalesced(t, b)) = Template(Coalesced(t, Absent))
    BY CredentialApart
<1>4. Agree(Template(Coalesced(Desired, Absent)), Template(Coalesced(t, Absent)), FALSE)
    BY <1>1, ComparedHere, AgreeItself
<1> QED
    BY <1>2, <1>3, <1>4

\* A resource that the API server completed is recognised, a changed one is not.
LEMMA FieldsCompared == Agree(Wanted, Served(Wanted), TRUE) /\ ~Agree(Wanted, Served(Shrunk), TRUE)
<1> DEFINE w == Wanted
           a == Served(Wanted)
           c == Served(Shrunk)
<1>1. /\ DOMAIN w = {"replicas", "storage"}
      /\ DOMAIN a = {"replicas", "storage", "revisionHistoryLimit"} /\ DOMAIN c = DOMAIN a
      /\ w.replicas = Leaf(1) /\ a.replicas = w.replicas /\ a.storage = w.storage
      /\ w.storage = [size |-> Leaf(20)] /\ c.storage = [size |-> Leaf(10)]
    BY DEF Wanted, Shrunk, Served
<1>2. w \in Compared /\ a \in Compared /\ c \in Compared
    BY ComparedHere
<1> SUFFICES Agree(w, a, TRUE) /\ ~Agree(w, c, TRUE)
    OBVIOUS
<1> HIDE DEF w, a, c
<1>3. IsDict(w) /\ IsDict(a) /\ IsDict(c) /\ w # Empty
  <2>1. "storage" \in DOMAIN w /\ "storage" \in DOMAIN a /\ "storage" \in DOMAIN c
    BY <1>1
  <2>2. DOMAIN Empty = {}
    BY DEF Empty
  <2> QED
    BY <2>1, <2>2 DEF IsDict, IsLeaf, IsList
<1>4. \A k \in DOMAIN w : w[k] \in Compared
    BY <1>2, <1>3, InnerOf
<1>5. Agree(w, a, TRUE)
  <2>1. \A k \in DOMAIN w : k \in DOMAIN a /\ w[k] = a[k]
    BY <1>1
  <2>2. \A k \in DOMAIN w : k \in DOMAIN a /\ Agree(w[k], a[k], TRUE)
    BY <1>4, <2>1, AgreeItself
  <2> QED
    BY <1>2, <1>3, <2>2, AgreeFields
<1>6. ~Agree(w, c, TRUE)
  <2> SUFFICES ASSUME Agree(w, c, TRUE) PROVE FALSE
    OBVIOUS
  <2> DEFINE p == w.storage
             q == c.storage
  <2>1. p \in Compared /\ q \in Compared /\ Agree(p, q, TRUE)
    <3>1. Agree(w["storage"], c["storage"], TRUE)
        BY <1>1, <1>2, <1>3, AgreeFields
    <3> QED
        BY <1>1, <1>2, <1>3, <1>4, <3>1, InnerOf
  <2>2. DOMAIN p = {"size"} /\ DOMAIN q = {"size"} /\ p.size = Leaf(20) /\ q.size = Leaf(10)
    BY <1>1
  <2> HIDE DEF p, q
  <2>3. IsDict(p) /\ IsDict(q) /\ p # Empty
    BY <2>2 DEF IsDict, IsLeaf, IsList, Empty
  <2>4. p.size \in Compared /\ q.size \in Compared
    BY <2>1, <2>2, <2>3, InnerOf
  <2>5. Agree(p["size"], q["size"], TRUE)
    BY <2>1, <2>2, <2>3, AgreeFields
  <2>6. IsLeaf(q.size)
    BY <2>2 DEF IsLeaf, Leaf
  <2>7. Leaf(20) = Leaf(10)
    BY <2>2, <2>4, <2>5, <2>6, AgreeLeaf
  <2> QED
    BY <2>7, LeafIs
<1> QED
    BY <1>5, <1>6

LEMMA ResourceCompared ==
    ASSUME resource \in {Served(Wanted), Served(Shrunk), Gone}
    PROVE  resource # Gone /\ Agree(Wanted, resource, TRUE) <=> resource = Served(Wanted)
<1>1. Served(Wanted) # Gone
  <2>1. "replicas" \in DOMAIN Served(Wanted) /\ "replicas" \notin DOMAIN Gone
    BY DEF Served, Wanted, Gone, Leaf
  <2> QED
    BY <2>1
<1> QED
    BY <1>1, FieldsCompared

(***************************************************************************)
(* The running workload.                                                    *)
(***************************************************************************)
LEMMA TemplateShape ==
    ASSUME NEW v
    PROVE  LET s == Served(Template(v))
           IN /\ DOMAIN s = (DOMAIN v \ {"accessKey"}) \cup {"annotations", "revisionHistoryLimit"}
              /\ s.annotations = Empty /\ s = [k \in DOMAIN s |-> s[k]]
<1>1. /\ DOMAIN Template(v) = (DOMAIN v \ {"accessKey"}) \cup {"annotations"}
      /\ Template(v)["annotations"] = Empty
    BY DEF Template
<1> QED
    BY <1>1 DEF Served

\* The same edits again change nothing, and none of them takes the workload away.
LEMMA VariantsClosed ==
    ASSUME NEW v, NEW s \in Variants(Served(Template(v)))
    PROVE  /\ Restarted(s) \in Variants(Served(Template(v)))
           /\ Edited(s) \in Variants(Served(Template(v)))
           /\ s # Gone
<1> DEFINE b == Served(Template(v))
           m == [restartedAt |-> Leaf(1)]
           x == Leaf(30)
<1>1. b = [k \in DOMAIN b |-> b[k]] /\ "annotations" \in DOMAIN b
    BY TemplateShape
<1>0. Variants(b) = {b, [b EXCEPT !.annotations = m], [b EXCEPT !.b = x], [[b EXCEPT !.annotations = m] EXCEPT !.b = x]}
    BY DEF Variants, Restarted, Edited
<1>9. "annotations" \notin DOMAIN Gone
    BY DEF Gone, Leaf
<1>8. Restarted(s) = [s EXCEPT !.annotations = m] /\ Edited(s) = [s EXCEPT !.b = x]
    BY DEF Restarted, Edited
<1>7. s \in Variants(b)
    OBVIOUS
<1> HIDE DEF b, m, x
<1>2. s # Gone
    BY <1>0, <1>1, <1>7, <1>9
<1>3. [s EXCEPT !.annotations = m] \in Variants(b)
  <2>1. [[b EXCEPT !.annotations = m] EXCEPT !.annotations = m] = [b EXCEPT !.annotations = m]
    BY <1>1
  <2>2. [[b EXCEPT !.b = x] EXCEPT !.annotations = m] = [[b EXCEPT !.annotations = m] EXCEPT !.b = x]
    BY <1>1
  <2>3. [[[b EXCEPT !.annotations = m] EXCEPT !.b = x] EXCEPT !.annotations = m] =
            [[b EXCEPT !.annotations = m] EXCEPT !.b = x]
    BY <1>1
  <2> QED
    BY <1>0, <1>7, <2>1, <2>2, <2>3
<1>4. [s EXCEPT !.b = x] \in Variants(b)
    BY <1>0, <1>1, <1>7
<1> QED
    BY <1>2, <1>3, <1>4, <1>8 DEF b

\* What is left of a variant when volatile metadata goes.
LEMMA NormalOf ==
    ASSUME NEW v, NEW s \in Variants(Served(Template(v)))
    PROVE  /\ DOMAIN Normal(s) = DOMAIN Served(Template(v)) \ {"annotations"}
           /\ \A k \in DOMAIN Normal(s) : Normal(s)[k] = s[k]
           /\ DOMAIN Normal(Template(v)) = DOMAIN Template(v) \ {"annotations"}
           /\ \A k \in DOMAIN Normal(Template(v)) : Normal(Template(v))[k] = Served(Template(v))[k]
<1> DEFINE b == Served(Template(v))
           Without(f) == [k \in DOMAIN f \ {"annotations"} |-> f[k]]
<1>1. /\ "annotations" \in DOMAIN b /\ b.annotations = Empty
      /\ DOMAIN b = DOMAIN Template(v) \cup {"revisionHistoryLimit"}
      /\ \A k \in DOMAIN Template(v) : b[k] = Template(v)[k]
      /\ "annotations" \in DOMAIN Template(v)
  <2>1. "annotations" \in DOMAIN Template(v)
    BY DEF Template
  <2> QED
    BY <2>1, TemplateShape DEF Served
<1>2. ASSUME NEW f, "annotations" \in DOMAIN f, DOMAIN f.annotations \subseteq {"restartedAt"}
      PROVE  Normal(f) = Without(f)
    BY <1>2 DEF Normal, IsDict, IsLeaf, IsList
<1>3. DOMAIN s = DOMAIN b /\ (s.annotations = Empty \/ s.annotations = [restartedAt |-> Leaf(1)])
    BY <1>1 DEF Variants, Restarted, Edited
<1>4. DOMAIN Empty = {}
    BY DEF Empty
<1>5. Normal(s) = Without(s)
    BY <1>1, <1>2, <1>3, <1>4
<1>6. Normal(Template(v)) = Without(Template(v))
    BY <1>1, <1>2, <1>4
<1> HIDE DEF b
<1> QED
    BY <1>1, <1>3, <1>5, <1>6 DEF b

\* The workload of the desired values is recognised, restarted or not, and an
\* edit of a field that the template sets is seen.
LEMMA WorkloadCompared ==
    ASSUME NEW a, NEW s \in Variants(Served(Template(Coalesced(Desired, a))))
    PROVE  Agree(Normal(Template(Effective(Desired, a))), Normal(s), TRUE)
              <=> s \in {Served(Template(Coalesced(Desired, Absent))),
                         Restarted(Served(Template(Coalesced(Desired, Absent))))}
<1> DEFINE v == Coalesced(Desired, Absent)
           b == Served(Template(v))
           want == Normal(Template(v))
<1>1. Desired \in Trees
    BY TreesAssumption DEF TreesAssumption
<1>2. Template(Effective(Desired, a)) = Template(v) /\ Template(Coalesced(Desired, a)) = Template(v)
    BY <1>1, Credentials, CredentialApart
<1>3. s \in Variants(b)
    BY <1>2
<1>4. /\ DOMAIN Normal(s) = DOMAIN b \ {"annotations"} /\ \A k \in DOMAIN Normal(s) : Normal(s)[k] = s[k]
      /\ DOMAIN want = DOMAIN Template(v) \ {"annotations"}
      /\ \A k \in DOMAIN want : want[k] = b[k]
    BY <1>3, NormalOf
<1>5. /\ want \in Compared /\ Normal(s) \in Compared /\ want # Empty
       /\ IsDict(want) /\ IsDict(Normal(s))
  <2>1. want \in Compared /\ Normal(s) \in Compared
    BY <1>1, <1>3, ComparedHere
  <2>2. want # Empty
    BY TreesAssumption DEF TreesAssumption
  <2>3. DOMAIN want \cap {"leaf", "items"} = {}
    <3>1. Desired \in Dicts /\ Defaults \in Dicts
        BY <1>1, TreesAssumption DEF TreesAssumption
    <3>2. DOMAIN Merge(Defaults, Desired) \subseteq DOMAIN Defaults \cup DOMAIN Desired
        BY <3>1, MergeIsDict
    <3>3. DOMAIN Merge(Defaults, Desired) \cap {"leaf", "items"} = {}
        BY <3>1, <3>2, DictsAssumption
    <3>4. DOMAIN v = DOMAIN Merge(Defaults, Desired)
        BY DEF Coalesced
    <3>5. DOMAIN want \subseteq DOMAIN v \cup {"annotations"}
        BY <1>4 DEF Template
    <3> QED
        BY <3>3, <3>4, <3>5
  <2>4. "revisionHistoryLimit" \in DOMAIN Normal(s)
    <3>1. "revisionHistoryLimit" \in DOMAIN b
        BY DEF Served
    <3> QED
        BY <1>3, <3>1, NormalOf
  <2> QED
    BY <2>1, <2>2, <2>3, <2>4 DEF IsDict, IsLeaf, IsList
<1>6. Agree(want, Normal(s), TRUE) <=>
         \A k \in DOMAIN want : k \in DOMAIN Normal(s) /\ Agree(want[k], Normal(s)[k], TRUE)
    BY <1>5, AgreeFields
<1>7. \A k \in DOMAIN want :
         /\ Agree(want[k], want[k], TRUE)
         /\ Leaf(30) \in Compared /\ Agree(want[k], Leaf(30), TRUE) => want[k] = Leaf(30)
  <2>1. IsLeaf(Leaf(30))
    BY DEF IsLeaf, Leaf
  <2>2. \A k \in DOMAIN want : want[k] \in Compared
    BY <1>5, InnerOf
  <2> QED
    BY <2>1, <2>2, AgreeItself, AgreeLeaf
<1>8. /\ b = [k \in DOMAIN b |-> b[k]] /\ "annotations" \in DOMAIN b
      /\ DOMAIN b = DOMAIN Template(v) \cup {"revisionHistoryLimit"}
  <2>1. DOMAIN b = DOMAIN Template(v) \cup {"revisionHistoryLimit"}
    BY DEF Served
  <2> QED
    BY <2>1, TemplateShape
<1> HIDE DEF v, b, want
<1>9. Restarted(b) = [b EXCEPT !.annotations = [restartedAt |-> Leaf(1)]]
    BY DEF Restarted
<1>10. s \in {b, Restarted(b), Edited(b), Edited(Restarted(b))}
    BY <1>3 DEF Variants
<1>11. CASE s = b \/ s = Restarted(b)
  <2>1. \A k \in DOMAIN Normal(s) : Normal(s)[k] = b[k]
    BY <1>4, <1>8, <1>9, <1>11
  <2>2. DOMAIN want \subseteq DOMAIN Normal(s)
    BY <1>4, <1>8
  <2> QED
    BY <1>2, <1>6, <1>7, <1>4, <1>11, <2>1, <2>2 DEF b, v, want
<1>12. ASSUME NEW f \in {b, Restarted(b)}, s = Edited(f)
       PROVE  Agree(want, Normal(s), TRUE) <=> s \in {b, Restarted(b)}
  <2>1. f = [k \in DOMAIN b |-> f[k]] /\ \A k \in DOMAIN b \ {"annotations"} : f[k] = b[k]
    BY <1>8, <1>9, <1>12
  <2>2. s = [k \in DOMAIN b |-> IF k = "b" THEN Leaf(30) ELSE f[k]]
    BY <1>12, <2>1 DEF Edited
  <2>3. CASE "b" \in DOMAIN want /\ want["b"] # Leaf(30)
    <3>1. "b" \in DOMAIN Normal(s) /\ Normal(s)["b"] = Leaf(30)
        BY <1>4, <1>8, <2>2, <2>3
    <3>2. Leaf(30) \in Compared
        BY <1>5, <3>1, InnerOf
    <3>3. ~Agree(want, Normal(s), TRUE)
        BY <1>6, <1>7, <2>3, <3>1, <3>2
    <3>4. s["b"] # b["b"] /\ s["b"] # Restarted(b)["b"]
        BY <1>4, <1>8, <1>9, <2>2, <2>3
    <3> QED
        BY <3>3, <3>4
  <2>4. CASE "b" \notin DOMAIN want \/ want["b"] = Leaf(30)
    <3>1. \A k \in DOMAIN b : s[k] = f[k]
        BY <1>4, <1>8, <2>1, <2>2, <2>4
    <3>2. s = f
        BY <2>1, <2>2, <3>1
    <3> QED
        BY <1>2, <1>11, <3>2 DEF b, v, want
  <2> QED
    BY <2>3, <2>4
<1> QED
    BY <1>2, <1>10, <1>11, <1>12 DEF b, v, want
-----------------------------------------------------------------------------
(***************************************************************************)
(* Redaction: bootstrap refuses a Secret with a marker, and nobody makes a  *)
(* marker of a value.                                                       *)
(***************************************************************************)
NoneRedacted == clickhouse # Redacted /\ \A k \in Required : main.data[k] # Redacted

Unmarked ==
    /\ \A r \in Run :
          /\ step[r] \in Active \cup {"ready"} => \A k \in Required : main.data[k] # Redacted
          /\ step[r] \in Active => \A k \in Required : seen[r].main.data[k] # Redacted
          /\ step[r] \in Under \cup {"ready"} => clickhouse # Redacted
    /\ helm.on => \A k \in Required :
          helm.data[k] = Redacted => k \notin FromValues /\ main.data[k] = Redacted

LEMMA CompletedUnmarked ==
    ASSUME Inv, Unmarked, NEW r \in Run, step[r] = "write", NEW k \in Required
    PROVE  Completed(r)[k] # Redacted
<1>1. seen[r].serial # Redacted
    BY DEF Inv, Numbered, Active, BootTypeOK, Serial, Redacted
<1>2. \A j \in Required : seen[r].main.data[j] # Redacted
    BY DEF Unmarked, Active
<1>3. k \in Stored => Twin[k] \in Required
    BY KeysAssumption DEF KeysAssumption, Required
<1>4. Addition(r, k) # Redacted
    BY <1>1, <1>2, <1>3, AdditionCases DEF Redacted, Standard
<1> QED
    BY <1>2, <1>4 DEF Completed, Missing, Present

\* Which keys carry a marker is decided before the first invocation; a Helm upgrade
\* replaces the markers of keys that its values give, and no others.
LEMMA MarkersFixed ==
    ASSUME Inv, Unmarked, [BootNext]_bootVars
    PROVE  /\ \A k \in Required : main'.data[k] = Redacted => main.data[k] = Redacted
           /\ ~HelmApplies => \A k \in Required : main.data[k] = Redacted => main'.data[k] = Redacted
           /\ clickhouse' = Redacted <=> clickhouse = Redacted
<1>1. clickhouse' = clickhouse \/ (clickhouse # Redacted /\ clickhouse' # Redacted)
  <2>1. ASSUME NEW r \in Run, CreateClickHouse(r)
        PROVE  clickhouse' = clickhouse \/ (clickhouse # Redacted /\ clickhouse' # Redacted)
    <3>1. seen[r].serial # Redacted
        BY <2>1 DEF CreateClickHouse, Inv, Numbered, Active, BootTypeOK, Serial, Redacted
    <3> QED
        BY <2>1, <3>1 DEF CreateClickHouse, Absent, Redacted
  <2>2. ASSUME NEW r \in Run, NEW supplied \in BOOLEAN,
               ReadClickHouse(r) \/ ReadMain(r, supplied) \/ ReadPg(r) \/ WriteMain(r) \/ Stop(r)
        PROVE  clickhouse' = clickhouse
    BY <2>2 DEF ReadClickHouse, ReadMain, ReadPg, WriteMain, Stop, secretVars
  <2>3. CnpgCreates \/ HelmRenders \/ HelmApplies \/ AnotherManagerAdopts \/ UNCHANGED bootVars
            => clickhouse' = clickhouse
    BY DEF CnpgCreates, HelmRenders, HelmApplies, AnotherManagerAdopts, bootVars, secretVars
  <2> QED
    BY <2>1, <2>2, <2>3 DEF BootNext, RunStep
<1>2. ASSUME NEW r \in Run, WriteMain(r)
      PROVE  \A k \in Required : main'.data[k] = Redacted <=> main.data[k] = Redacted
  <2>0. main' = main \/ Put(Completed(r))
    BY <1>2 DEF WriteMain
  <2>1. main' = main \/ main'.data = Completed(r)
    BY <2>0 DEF Put
  <2>2. step[r] = "write" /\ \A k \in Required : main.data[k] # Redacted
    BY <1>2 DEF WriteMain, Unmarked, Active
  <2> QED
    BY <2>1, <2>2, CompletedUnmarked
<1>3. ASSUME HelmApplies
      PROVE  \A k \in Required : main'.data[k] = Redacted => main.data[k] = Redacted
    BY <1>3, HelmChanges DEF Unmarked
<1>4. AnotherManagerAdopts => main'.data = main.data
    BY DEF AnotherManagerAdopts
<1>6. ASSUME NEW r \in Run, NEW supplied \in BOOLEAN,
             ReadClickHouse(r) \/ ReadMain(r, supplied) \/ ReadPg(r) \/ CreateClickHouse(r) \/ Stop(r)
      PROVE  main' = main
    BY <1>6 DEF ReadClickHouse, ReadMain, ReadPg, CreateClickHouse, Stop, secretVars
<1>7. CnpgCreates \/ HelmRenders \/ UNCHANGED bootVars => main' = main
    BY DEF CnpgCreates, HelmRenders, bootVars, secretVars
<1> QED
    BY <1>1, <1>2, <1>3, <1>4, <1>6, <1>7 DEF BootNext, RunStep

\* An invocation goes past a Secret without markers only.
LEMMA PassingUnmarked ==
    ASSUME Inv, [BootNext]_bootVars, NEW r \in Run
    PROVE  /\ step'[r] \in Active =>
                step[r] \in Active \/ \A k \in Required : main.data[k] # Redacted /\ seen'[r].main.data[k] # Redacted
           /\ step'[r] \in Under => step[r] \in Under \/ clickhouse # Redacted
           /\ step'[r] = "ready" => step[r] \in Active \cup {"ready"}
<1> DEFINE Goal ==
           /\ step'[r] \in Active =>
                step[r] \in Active \/ \A k \in Required : main.data[k] # Redacted /\ seen'[r].main.data[k] # Redacted
           /\ step'[r] \in Under => step[r] \in Under \/ clickhouse # Redacted
           /\ step'[r] = "ready" => step[r] \in Active \cup {"ready"}
<1>1. step \in [Run -> {"idle", "main", "pg", "create", "write", "ready"}]
      /\ seen \in [Run -> [serial : {0} \cup Serial, clickhouse : Value, main : Secret]]
    BY DEF Inv, BootTypeOK
<1> USE DEF Goto, Under, Active, Proceed
<1>2. ASSUME NEW q \in Run, ReadClickHouse(q) PROVE Goal
    BY <1>1, <1>2 DEF ReadClickHouse
<1>3. ASSUME NEW q \in Run, NEW supplied \in BOOLEAN, ReadMain(q, supplied) PROVE Goal
    BY <1>1, <1>3 DEF ReadMain, Acceptable
<1>4. ASSUME NEW q \in Run, ReadPg(q) \/ Stop(q) \/ CreateClickHouse(q) \/ WriteMain(q) PROVE Goal
    BY <1>1, <1>4 DEF ReadPg, Stop, CreateClickHouse, WriteMain
<1>5. CASE CnpgCreates \/ HelmRenders \/ HelmApplies \/ AnotherManagerAdopts \/ UNCHANGED bootVars
    BY <1>5 DEF CnpgCreates, HelmRenders, HelmApplies, AnotherManagerAdopts, bootVars, runVars
<1> QED
    BY <1>2, <1>3, <1>4, <1>5 DEF BootNext, RunStep

LEMMA UnmarkedStep == Inv /\ Unmarked /\ [BootNext]_bootVars => Unmarked'
<1> SUFFICES ASSUME Inv, Unmarked, [BootNext]_bootVars PROVE Unmarked'
    OBVIOUS
<1>1. ASSUME NEW r \in Run
      PROVE  /\ step'[r] \in Active \cup {"ready"} => \A k \in Required : main'.data[k] # Redacted
             /\ step'[r] \in Active => \A k \in Required : seen'[r].main.data[k] # Redacted
             /\ step'[r] \in Under \cup {"ready"} => clickhouse' # Redacted
  <2>1. step'[r] \in Active => \A k \in Required : seen'[r].main.data[k] # Redacted /\ main.data[k] # Redacted
    BY PassingUnmarked, ReadsCurrent DEF Unmarked
  <2>2. step'[r] = "ready" => (\A k \in Required : main.data[k] # Redacted) /\ clickhouse # Redacted
    BY PassingUnmarked DEF Unmarked, Under
  <2>3. step'[r] \in Under => clickhouse # Redacted
    BY PassingUnmarked DEF Unmarked
  <2> QED
    BY <2>1, <2>2, <2>3, MarkersFixed
<1>2. ASSUME helm'.on, NEW k \in Required, helm'.data[k] = Redacted
      PROVE  k \notin FromValues /\ main'.data[k] = Redacted
  <2>2. CASE helm' = helm
    <3>1. ~HelmApplies
        BY <1>2, <2>2 DEF HelmApplies, NoHelm
    <3> QED
        BY <1>2, <2>2, <3>1, MarkersFixed DEF Unmarked
  <2>3. CASE HelmRenders
    <3>1. {Found, Configured, 4 + MaxStarts} \cap {Redacted} = {}
        BY KeysAssumption DEF KeysAssumption, Found, Configured, Redacted
    <3>2. helm'.data[k] = Redacted => k \notin FromValues /\ main.data[k] = Redacted
        BY <2>3, <3>1, HelmCarries
    <3> QED
        BY <1>2, <2>3, <3>2 DEF HelmRenders, secretVars
  <2>4. CASE HelmApplies
    BY <1>2, <2>4 DEF HelmApplies, NoHelm
  <2> QED
    BY <2>2, <2>3, <2>4 DEF BootNext, RunStep, ReadClickHouse, ReadMain, ReadPg, CreateClickHouse,
        WriteMain, Stop, CnpgCreates, AnotherManagerAdopts, otherVars, bootVars
<1> QED
    BY <1>1, <1>2 DEF Unmarked
-----------------------------------------------------------------------------
(***************************************************************************)
(* The check.  What it has found so far is true of the cluster as long as   *)
(* nothing changed, and what it found of the Secrets even if something did. *)
(***************************************************************************)
AfterSecrets   == {"resources", "installed", "render", "running", "exit", "done"}
AfterResources == AfterSecrets \ {"resources"}
AfterValues    == AfterResources \ {"installed"}
AfterRunning   == {"exit", "done"}

\* What is deployed is a release of some values, and what became of it.
Deployed ==
    /\ \E t \in Trees, c \in Value :
          installed = Coalesced(t, c) /\ running \in {Gone} \cup Variants(Served(Template(installed)))
    /\ withheld \subseteq {"secret", "resource", "installed", "running"} /\ (~offline => withheld = {})

StillThere(s) ==
    (Exists(s) => Exists(main)) /\ \A k \in Required : s.data[k] # Absent => main.data[k] # Absent

\* What the check has read.
Reading ==
    /\ DOMAIN read = {"live", "main"}
    /\ calm /\ at \notin {"idle", "done"} => read.live = live
    /\ at \notin {"idle", "resolve", "done"} =>
          IF "secret" \in withheld THEN read.main = Nothing
          ELSE (calm => read.main = main) /\ StillThere(read.main)

Starting ==
    /\ at \in {"idle", "resolve", "secrets"} => ~drift
    /\ at = "idle" => ~incomplete
    /\ at = "secrets" /\ ~incomplete => "secret" \notin withheld

\* A check that may still say "aligned", or said so.
Sure == ~drift /\ (at = "done" => code = 0)

Established ==
    calm /\ Sure /\ ~incomplete =>
        /\ at \in AfterSecrets => "secret" \notin withheld /\ Complete /\ pg /\ main.owner = "Helm"
        /\ at \in AfterResources => /\ ~live.suspend /\ live.inline = Absent
                                    /\ "resource" \notin withheld /\ resource = Served(Wanted)
        /\ at \in AfterValues => /\ "installed" \notin withheld
                                 /\ Coalesced(live.plain, Absent) = Coalesced(Desired, Absent)
                                 /\ installed = Coalesced(Desired, main.data[StoreKey])
        /\ at \in AfterRunning => "running" \notin withheld /\ Runs(Desired)

Filled == ~offline /\ Sure /\ at \in AfterSecrets => Complete

\* Conversely, nothing is reported of Secrets that are as they should be.
Passing == at = "resources" /\ calm /\ Complete /\ pg /\ main.owner = "Helm" /\ NoneRedacted => ~drift

BootInv == Inv /\ Growing /\ ReadyMeansComplete /\ Unmarked

Findings ==
    /\ code = 0 => at = "done" /\ ~drift /\ ~incomplete
    /\ Reading /\ Starting /\ Established /\ Filled /\ Passing /\ AlignedShowsNoDrift

CheckInv == TypeOK /\ BootInv /\ Deployed /\ Findings
-----------------------------------------------------------------------------
Edits == EditRelease \/ Reconcile \/ EditResource \/ EditRunning
Boots == /\ BootNext /\ ~offline
         /\ calm' = (at = "idle" \/ (calm /\ UNCHANGED <<secretVars, pg>>))
         /\ UNCHANGED <<releaseVars, checkVars, edits>>

LEMMA Kinds == Next <=> CheckNext \/ Edits \/ Boots
BY DEF Next, Edits, Boots

LEMMA CheckLeaves ==
    ASSUME CheckNext
    PROVE  UNCHANGED <<bootVars, releaseVars, offline, withheld, edits, calm>>
BY DEF CheckNext, ReadRelease, Resolve, ResolveFails, CheckSecrets, CheckResources, CompareValues,
    Render, ToolFails, CheckRunning, Exit, CheckStep, Error

LEMMA EditsLeave ==
    ASSUME Edits
    PROVE  UNCHANGED <<bootVars, checkVars>> /\ ~offline /\ calm' = (at = "idle")
BY DEF Edits, EditRelease, Reconcile, EditResource, EditRunning, Edit

\* To the Secrets every step is one of theirs.
LEMMA BootView == ASSUME [Next]_vars PROVE [BootNext]_bootVars
<1>1. CASE CheckNext
    BY <1>1, CheckLeaves
<1>2. CASE Edits
    BY <1>2, EditsLeave
<1> QED
    BY <1>1, <1>2, Kinds DEF Boots, vars

LEMMA BootStep == ASSUME BootInv, [Next]_vars PROVE BootInv'
<1>1. [BootNext]_bootVars
    BY BootView
<1> QED
    BY <1>1, InvStep, GrowingStep, ReadyStep, UnmarkedStep DEF BootInv

LEMMA TypesStep == ASSUME TypeOK, BootInv, [Next]_vars PROVE TypeOK'
<1> DEFINE Release == /\ live \in [plain : Trees, inline : {Absent, 4 + MaxStarts}, suspend : BOOLEAN]
                      /\ resource \in {Served(Wanted), Served(Shrunk), Gone}
           Progress == /\ at \in {"idle", "resolve", "secrets", "resources", "installed", "render",
                                  "running", "exit", "done"}
                       /\ code \in 0..3 /\ (code = 3 <=> at # "done")
           Flags == {offline, drift, incomplete, calm} \subseteq BOOLEAN
           Count == edits \in 0..MaxEdits
<1>1. BootTypeOK' /\ BootTypeOK
    BY BootStep DEF BootInv, Inv
<1>2. Release /\ Progress /\ Flags /\ Count
    BY DEF TypeOK
<1>3. SUFFICES (Release /\ Progress /\ Flags /\ Count)'
    BY <1>1 DEF TypeOK
<1>4. CASE CheckNext
  <2>1. Release' /\ Count'
    BY <1>2, <1>4, CheckLeaves DEF releaseVars
  <2>2. Progress'
    <3>1. CASE ReadRelease \/ Resolve \/ CheckSecrets \/ CheckResources \/ CompareValues \/ Render \/ CheckRunning
        BY <1>2, <3>1 DEF ReadRelease, Resolve, CheckSecrets, CheckResources, CompareValues, Render,
            CheckRunning, CheckStep, Report
    <3>2. CASE ResolveFails \/ ToolFails
        BY <1>2, <3>2 DEF ResolveFails, ToolFails, CheckStep, Error, Report
    <3>3. CASE Exit
        BY <3>3 DEF Exit, CheckStep
    <3> QED
        BY <1>4, <3>1, <3>2, <3>3 DEF CheckNext
  <2>3. offline' = offline /\ calm' = calm
    BY <1>4, CheckLeaves
  <2>4. drift' \in BOOLEAN /\ incomplete' \in BOOLEAN
    BY <1>2, <1>4, Zenon DEF CheckNext, ReadRelease, Resolve, ResolveFails, CheckSecrets, CheckResources, CompareValues,
        Render, ToolFails, CheckRunning, Exit, CheckStep, Error, Report
  <2> QED
    BY <1>2, <2>1, <2>2, <2>3, <2>4
<1>5. CASE Edits
  <2>1. Progress' /\ Flags'
    BY <1>2, <1>5, EditsLeave DEF checkVars
  <2>2. Count'
    BY <1>2, <1>5, DriftAssumption DEF Edits, EditRelease, Reconcile, EditResource, EditRunning, Edit, DriftAssumption
  <2>3. Release'
    BY <1>2, <1>5 DEF Edits, EditRelease, Reconcile, EditResource, EditRunning
  <2> QED
    BY <2>1, <2>2, <2>3
<1>6. CASE Boots
  <2>1. Flags'
    BY <1>2, <1>6 DEF Boots, checkVars
  <2> QED
    BY <1>2, <1>6, <2>1 DEF Boots, releaseVars, checkVars
<1>7. CASE UNCHANGED vars
    BY <1>2, <1>7 DEF vars, releaseVars, checkVars
<1> QED
    BY <1>4, <1>5, <1>6, <1>7, Kinds

LEMMA DeployedStep == ASSUME TypeOK, BootInv, Deployed, [Next]_vars PROVE Deployed'
<1>1. PICK t \in Trees, c \in Value :
          installed = Coalesced(t, c) /\ running \in {Gone} \cup Variants(Served(Template(installed)))
    BY DEF Deployed
<1>2. CASE UNCHANGED <<installed, running, offline, withheld>>
    BY <1>2 DEF Deployed
<1>3. CASE Reconcile
  <2>1. live.plain \in Trees /\ live.inline \in Value
    BY ValueFacts DEF TypeOK
  <2>2. main.data[StoreKey] \in Value
    BY DriftAssumption, ValueFacts DEF DriftAssumption, TypeOK, BootTypeOK, Secret
  <2>3. Credential(live, main.data[StoreKey]) \in Value
    BY <2>1, <2>2 DEF Credential
  <2>4. UNCHANGED <<offline, withheld>>
    BY <1>3 DEF Reconcile, Edit, checkVars
  <2> QED
    BY <1>3, <2>1, <2>3, <2>4 DEF Reconcile, Deployed, Variants
<1>4. CASE EditRunning
  <2>1. running \in Variants(Served(Template(installed))) /\ installed' = installed
    BY <1>1, <1>4 DEF EditRunning
  <2>2. running' \in {Gone} \cup Variants(Served(Template(installed)))
    <3>1. /\ Restarted(running) \in Variants(Served(Template(installed)))
          /\ Edited(running) \in Variants(Served(Template(installed)))
        BY <2>1, VariantsClosed, Zenon
    <3> QED
        BY <1>4, <3>1 DEF EditRunning
  <2>3. UNCHANGED <<offline, withheld>>
    BY <1>4 DEF EditRunning, Edit, checkVars
  <2> QED
    BY <1>1, <2>1, <2>2, <2>3 DEF Deployed
<1>5. CASE CheckNext
    BY <1>2, <1>5, CheckLeaves DEF releaseVars
<1>6. CASE EditRelease \/ EditResource
    BY <1>2, <1>6 DEF EditRelease, EditResource, Edit, checkVars
<1>7. CASE Boots \/ UNCHANGED vars
    BY <1>2, <1>7 DEF Boots, vars, releaseVars, checkVars
<1> QED
    BY <1>3, <1>4, <1>5, <1>6, <1>7, Kinds DEF Edits
-----------------------------------------------------------------------------
(***************************************************************************)
(* Steps of others.                                                         *)
(***************************************************************************)
LEMMA MainStays ==
    ASSUME BootInv, [Next]_vars
    PROVE  /\ Exists(main) => Exists(main')
           /\ \A k \in Required : main.data[k] # Absent => main'.data[k] # Absent
           /\ Complete => Complete'
<1>1. [BootNext]_bootVars
    BY BootView
<1>2. /\ Exists(main) => Exists(main')
      /\ \A k \in Required : main.data[k] # Absent => main'.data[k] # Absent
      /\ clickhouse # Absent => clickhouse' # Absent
    BY <1>1, NothingLost DEF BootInv
<1> QED
    BY <1>2 DEF Complete, Exists, Missing, Present

\* What the properties say of the cluster depends on these variables only.
LEMMA SameCluster ==
    ASSUME UNCHANGED <<main, clickhouse, pg, releaseVars>>
    PROVE  /\ Complete' <=> Complete
           /\ NoneRedacted' <=> NoneRedacted
           /\ Aligned' <=> Aligned
           /\ Runs(Desired)' <=> Runs(Desired)
<1>1. (Complete' <=> Complete) /\ (NoneRedacted' <=> NoneRedacted)
    BY DEF Complete, Exists, Missing, Present, NoneRedacted
<1>2. Runs(Desired)' <=> Runs(Desired)
    BY DEF Runs, releaseVars
<1> QED
    BY <1>1, <1>2 DEF Aligned, releaseVars

LEMMA OthersStep == ASSUME CheckInv, Edits \/ Boots \/ UNCHANGED vars PROVE Findings'
<1>0. [Next]_vars
    BY Kinds
<1>1. UNCHANGED checkVars
    BY EditsLeave DEF Boots, vars
<1>2. at # "idle" /\ calm' => calm /\ UNCHANGED <<main, clickhouse, pg, releaseVars>>
  <2>1. CASE Edits
    BY <2>1, EditsLeave
  <2>2. CASE Boots
    <3>1. calm' => at = "idle" \/ (calm /\ UNCHANGED <<secretVars, pg>>)
        BY <2>2, Zenon DEF Boots
    <3>2. UNCHANGED releaseVars
        BY <2>2 DEF Boots
    <3> QED
        BY <3>1, <3>2 DEF secretVars
  <2>3. CASE UNCHANGED vars
    <3>1. calm' = calm /\ UNCHANGED <<main, clickhouse, pg, releaseVars>>
        BY <2>3 DEF vars, bootVars, secretVars, otherVars
    <3> QED
        BY <3>1, Zenon
  <2> QED
    BY <2>1, <2>2, <2>3
<1>3. UNCHANGED <<at, read, drift, incomplete, code, offline, withheld>>
    BY <1>1 DEF checkVars
<1>4. Findings
    BY DEF CheckInv
<1>5. CASE at = "idle"
  <2>1. code # 0 /\ ~drift /\ DOMAIN read = {"live", "main"} /\ Starting
    BY <1>4, <1>5 DEF Findings, Starting, Reading
  <2>2. Starting' /\ Reading'
    BY <1>3, <1>5, <2>1 DEF Starting, Reading
  <2>3. Established' /\ Filled' /\ Passing' /\ AlignedShowsNoDrift'
    BY <1>3, <1>5, <2>1 DEF Established, Filled, Passing, AlignedShowsNoDrift, AfterSecrets, AfterResources,
        AfterValues, AfterRunning
  <2> QED
    BY <1>3, <2>1, <2>2, <2>3 DEF Findings
<1>6. CASE at # "idle"
  <2>1. CASE calm'
    <3>1. calm /\ UNCHANGED <<main, clickhouse, pg, releaseVars>>
        BY <1>2, <1>6, <2>1
    <3>2. UNCHANGED <<live, installed, resource, running>>
        BY <3>1 DEF releaseVars
    <3>3. Established' /\ Filled' /\ Passing'
        BY <1>3, <1>4, <2>1, <3>1, <3>2, SameCluster DEF Findings, Established, Filled, Passing, Sure
    <3>4. Reading' /\ Starting'
        BY <1>3, <1>4, <2>1, <3>1, <3>2 DEF Findings, Reading, Starting, StillThere, Exists
    <3>5. AlignedShowsNoDrift'
        BY <1>3, <1>4, <2>1, <3>1, SameCluster DEF Findings, AlignedShowsNoDrift
    <3> QED
        BY <1>3, <1>4, <3>3, <3>4, <3>5 DEF Findings
  <2>2. CASE ~calm'
    <3>1. Reading'
        BY <1>0, <1>3, <1>4, <2>2, MainStays DEF CheckInv, Findings, Reading, StillThere, Exists
    <3>2. Filled' /\ Starting'
        BY <1>0, <1>3, <1>4, MainStays DEF CheckInv, Findings, Filled, Sure, Starting
    <3> QED
        BY <1>3, <1>4, <2>2, <3>1, <3>2 DEF Findings, Established, Passing, AlignedShowsNoDrift
  <2> QED
    BY <2>1, <2>2 DEF CheckInv, TypeOK
<1> QED
    BY <1>5, <1>6
-----------------------------------------------------------------------------
(***************************************************************************)
(* Steps of the check, one after the other.                                 *)
(***************************************************************************)
LEMMA SameValues ==
    ASSUME NEW t \in Trees, NEW c, Coalesced(Desired, Absent) = Coalesced(t, Absent)
    PROVE  Coalesced(Desired, c) = Coalesced(t, c)
<1>1. Plain(Coalesced(Desired, c)) = Plain(Coalesced(t, c))
    BY CredentialApart
<1> QED
    BY <1>1, PlainDecides, TreesAssumption DEF TreesAssumption

LEMMA CheckFrame ==
    ASSUME CheckNext
    PROVE  /\ UNCHANGED <<main, clickhouse, pg, live, installed, resource, running, offline, withheld, calm>>
           /\ Complete' <=> Complete
           /\ NoneRedacted' <=> NoneRedacted
           /\ Aligned' <=> Aligned
           /\ Runs(Desired)' <=> Runs(Desired)
<1>1. UNCHANGED <<main, clickhouse, pg, releaseVars, offline, withheld, calm>>
    BY CheckLeaves DEF bootVars, secretVars, otherVars
<1> QED
    BY <1>1, SameCluster DEF releaseVars

\* The first reads: of the release, then of the Secret.
LEMMA EarlySteps ==
    ASSUME CheckInv, ReadRelease \/ Resolve
    PROVE  Findings'
<1>0. CheckNext
    BY DEF CheckNext
<1>1. /\ UNCHANGED <<main, live, offline, withheld, calm, code>>
      /\ at \in {"idle", "resolve"} /\ at' \in {"resolve", "secrets"}
      /\ ~drift /\ ~drift'
      /\ DOMAIN read = {"live", "main"}
  <2>1. ~drift /\ DOMAIN read = {"live", "main"}
    BY DEF CheckInv, Findings, Starting, Reading, ReadRelease, Resolve, CheckStep
  <2>2. ~drift'
    <3>1. drift' = drift \/ drift' = (drift \/ FALSE)
        BY DEF ReadRelease, Resolve, Report
    <3> QED
        BY <2>1, <3>1, Zenon
  <2>3. at \in {"idle", "resolve"} /\ at' \in {"resolve", "secrets"} /\ UNCHANGED code
    BY DEF ReadRelease, Resolve, CheckStep, Report
  <2> QED
    BY <1>0, <2>1, <2>2, <2>3, CheckFrame
<1>2. code # 0
    BY <1>1 DEF CheckInv, Findings
<1>3. Reading' /\ Starting'
  <2>1. CASE ReadRelease
    <3>1. read' = [NotRead EXCEPT !.live = live] /\ at' = "resolve"
        BY <2>1 DEF ReadRelease, CheckStep
    <3>2. DOMAIN read' = {"live", "main"} /\ read'.live = live
        BY <3>1 DEF NotRead
    <3> QED
        BY <1>1, <3>1, <3>2 DEF Reading, Starting
  <2>2. CASE Resolve
    <3>1. /\ read' = [read EXCEPT !.main = IF "secret" \in withheld THEN Nothing ELSE main]
          /\ at = "resolve" /\ at' = "secrets"
        BY <2>2 DEF Resolve, CheckStep
    <3>2. DOMAIN read' = {"live", "main"} /\ read'.live = read.live
          /\ read'.main = IF "secret" \in withheld THEN Nothing ELSE main
        BY <1>1, <3>1
    <3>3. calm => read.live = live
        BY <3>1 DEF CheckInv, Findings, Reading
    <3>4. ~incomplete' => "secret" \notin withheld
      <4>1. ~offline => withheld = {}
        BY DEF CheckInv, Deployed
      <4>2. ~incomplete' => ~(offline /\ "secret" \in withheld)
        BY <2>2, Zenon DEF Resolve, Report
      <4> QED
        BY <4>1, <4>2 DEF CheckInv, TypeOK
    <3>5. Reading'
        BY <1>1, <3>1, <3>2, <3>3 DEF Reading, StillThere, Exists
    <3>6. Starting'
        BY <1>1, <3>1, <3>4 DEF Starting
    <3> QED
        BY <3>5, <3>6
  <2> QED
    BY <2>1, <2>2
<1>4. Established' /\ Filled' /\ Passing' /\ AlignedShowsNoDrift'
    BY <1>1 DEF Established, Filled, Passing, AlignedShowsNoDrift, AfterSecrets, AfterResources,
        AfterValues, AfterRunning
<1> QED
    BY <1>1, <1>2, <1>3, <1>4 DEF Findings

\* A check that fails has nothing to say but what it had noted.
LEMMA FailingSteps ==
    ASSUME CheckInv, ResolveFails \/ ToolFails
    PROVE  Findings'
<1>0. CheckNext
    BY DEF CheckNext
<1>1. CASE Error
  <2>1. drift' = drift /\ at' = "done" /\ code' = 2 /\ read' = NotRead
    BY <1>1 DEF Error
  <2>2. DOMAIN read' = {"live", "main"}
    BY <2>1 DEF NotRead
  <2>3. AlignedShowsNoDrift'
    BY <1>0, <2>1, CheckFrame DEF CheckInv, Findings, AlignedShowsNoDrift
  <2> QED
    BY <2>1, <2>2, <2>3 DEF Findings, Reading, Starting, Established, Filled, Passing, Sure
<1>2. CASE /\ \E from \in {"render", "running"} : CheckStep(from, "exit")
           /\ UNCHANGED read /\ Report(FALSE, TRUE)
  <2>1. at \in {"render", "running"} /\ at' = "exit" /\ UNCHANGED <<read, code>>
    BY <1>2 DEF CheckStep, Report
  <2>2. incomplete' /\ (drift' <=> drift)
    BY <1>2, Zenon DEF Report
  <2>3. Findings /\ code # 0
    BY <2>1 DEF CheckInv, Findings
  <2>4. Reading'
    BY <1>0, <2>1, <2>3, CheckFrame DEF Findings, Reading, StillThere, Exists
  <2>5. Filled'
    BY <1>0, <2>1, <2>2, <2>3, CheckFrame DEF Findings, Filled, Sure, AfterSecrets
  <2>6. AlignedShowsNoDrift'
    BY <1>0, <2>2, <2>3, CheckFrame DEF Findings, AlignedShowsNoDrift
  <2> QED
    BY <2>1, <2>2, <2>3, <2>4, <2>5, <2>6 DEF Findings, Starting, Established, Passing
<1> QED
    BY <1>1, <1>2 DEF ResolveFails, ToolFails

LEMMA ExitStep == ASSUME CheckInv, Exit PROVE Findings'
<1>0. CheckNext
    BY DEF CheckNext
<1>1. /\ at = "exit" /\ at' = "done" /\ read' = NotRead /\ UNCHANGED <<drift, incomplete>>
      /\ code' = IF drift THEN 1 ELSE IF incomplete THEN 2 ELSE 0
    BY DEF Exit, CheckStep
<1>2. code' = 0 => ~drift /\ ~incomplete
    BY <1>1
<1>3. DOMAIN read' = {"live", "main"}
    BY <1>1 DEF NotRead
<1>4. Findings
    BY DEF CheckInv
<1>5. AlignedShowsNoDrift'
    BY <1>0, <1>1, <1>4, CheckFrame DEF Findings, AlignedShowsNoDrift
<1>6. Established'
    BY <1>0, <1>1, <1>4, CheckFrame DEF Findings, Established, Sure, AfterSecrets, AfterResources, AfterValues,
        AfterRunning
<1>7. Filled'
    BY <1>0, <1>1, <1>4, CheckFrame DEF Findings, Filled, Sure, AfterSecrets
<1> QED
    BY <1>1, <1>2, <1>3, <1>5, <1>6, <1>7 DEF Findings, Reading, Starting, Passing

LEMMA SecretsStep == ASSUME CheckInv, CheckSecrets PROVE Findings'
<1> DEFINE owned == read.main.owner = "Helm"
           redacted == clickhouse = Redacted \/ \E k \in Required : read.main.data[k] = Redacted
           lacking == \/ "secret" \notin withheld /\ (Missing(read.main) # {} \/ ~owned)
                      \/ clickhouse = Absent \/ ~pg
<1>0. CheckNext
    BY DEF CheckNext
<1>1. Findings /\ at = "secrets" /\ at' = "resources" /\ UNCHANGED <<read, code>>
    BY DEF CheckInv, CheckSecrets, CheckStep, Report
<1>2. ~drift /\ code # 0
    BY <1>1 DEF Findings, Starting
<1>3. /\ ~drift' => ~lacking
      /\ drift' => lacking \/ redacted
      /\ ~incomplete' => ~incomplete
  <2>1. PICK empty \in {FALSE, redacted} : Report(lacking \/ empty, offline /\ redacted)
    <3>1. PICK empty \in {FALSE, redacted} :
              Report(\/ "secret" \notin withheld /\ (Missing(read.main) # {} \/ ~owned)
                     \/ clickhouse = Absent \/ ~pg \/ empty, offline /\ redacted)
        BY DEF CheckSecrets
    <3>2. (\/ "secret" \notin withheld /\ (Missing(read.main) # {} \/ ~owned)
           \/ clickhouse = Absent \/ ~pg \/ empty) = (lacking \/ empty)
        OBVIOUS
    <3> QED
        BY <3>1, <3>2, Zenon
  <2> HIDE DEF owned, redacted, lacking
  <2>2. drift' = (drift \/ (lacking \/ empty)) /\ incomplete' = (incomplete \/ (offline /\ redacted))
    BY <2>1 DEF Report
  <2>3. empty => redacted
    BY <2>1, Zenon
  <2> QED
    BY <1>2, <2>2, <2>3, Zenon
<1>4. /\ calm => read.main = main \/ "secret" \in withheld
      /\ "secret" \in withheld => read.main = Nothing
      /\ "secret" \notin withheld => StillThere(read.main)
      /\ ~incomplete => "secret" \notin withheld
      /\ ~offline => withheld = {}
    BY <1>1 DEF Findings, Reading, Starting, CheckInv, Deployed
<1>5. Reading' /\ Starting'
    BY <1>0, <1>1, <1>4, CheckFrame DEF Findings, Reading, Starting, StillThere, Exists
<1>6. ASSUME ~lacking, "secret" \notin withheld
      PROVE  Complete /\ pg /\ owned
  <2>1. Missing(read.main) = {} /\ owned /\ clickhouse # Absent /\ pg
    BY <1>6
  <2>2. Exists(main) /\ Missing(main) = {}
    BY <1>4, <1>6, <2>1 DEF StillThere, Exists, Missing, Present
  <2> QED
    BY <2>1, <2>2 DEF Complete
<1>7. Filled'
    BY <1>0, <1>1, <1>3, <1>4, <1>6, CheckFrame DEF Filled, Sure
<1>8. Established'
    BY <1>0, <1>1, <1>3, <1>4, <1>6, CheckFrame DEF Established, Sure, AfterResources, AfterValues, AfterRunning
<1>9. calm /\ Complete /\ pg /\ main.owner = "Helm" /\ NoneRedacted => ~drift'
  <2> SUFFICES ASSUME calm, Complete, pg, main.owner = "Helm", NoneRedacted PROVE ~(lacking \/ redacted)
    BY <1>3
  <2>1. Missing(main) = {} /\ clickhouse \notin {Absent, Redacted} /\ \A k \in Required : main.data[k] # Redacted
    BY DEF Complete, NoneRedacted
  <2>2. \A k \in Required : Nothing.data[k] # Redacted
    BY DEF Nothing, Absent, Redacted
  <2> QED
    BY <1>4, <2>1, <2>2
<1>10. Passing' /\ AlignedShowsNoDrift'
    BY <1>0, <1>9, CheckFrame DEF Passing, AlignedShowsNoDrift, Aligned, NoneRedacted
<1> QED
    BY <1>1, <1>2, <1>5, <1>7, <1>8, <1>10 DEF Findings

\* The steps that only report.
LEMMA Reports ==
    ASSUME CheckInv, CheckResources \/ CompareValues \/ Render \/ CheckRunning
    PROVE  /\ CheckNext /\ code # 0 /\ UNCHANGED <<read, code>> /\ Findings
           /\ ~drift' => ~drift
           /\ ~incomplete' => ~incomplete
           /\ Reading' /\ Starting' /\ Filled' /\ Passing'
<1>0. CheckNext
    BY DEF CheckNext
<1>1. /\ Findings /\ UNCHANGED <<read, code>>
      /\ at \in {"resources", "installed", "render", "running"}
      /\ at' \in {"installed", "render", "running", "exit"}
    BY DEF CheckInv, CheckResources, CompareValues, Render, CheckRunning, CheckStep, Report
<1>2. code # 0
    BY <1>1 DEF Findings
<1>3. \E d, i : Report(d, i)
    BY DEF CheckResources, CompareValues, Render, CheckRunning
<1>4. (~drift' => ~drift) /\ (~incomplete' => ~incomplete)
    BY <1>3, Zenon DEF Report
<1>5. Reading' /\ Starting'
    BY <1>0, <1>1, CheckFrame DEF Findings, Reading, Starting, StillThere, Exists
<1>6. Filled'
    BY <1>0, <1>1, <1>4, CheckFrame DEF Findings, Filled, Sure, AfterSecrets
<1> QED
    BY <1>0, <1>1, <1>2, <1>4, <1>5, <1>6 DEF Passing

LEMMA ResourcesStep == ASSUME CheckInv, CheckResources PROVE Findings'
<1> DEFINE lacking == resource = Gone \/ "resource" \in withheld
           wrong == \/ read.live.suspend \/ read.live.inline # Absent
                    \/ lacking \/ ~Agree(Wanted, resource, TRUE)
<1>1. at = "resources" /\ at' = "installed"
    BY DEF CheckResources, CheckStep
<1>2. drift' <=> drift \/ wrong
  <2>1. Report(wrong, offline /\ lacking)
    BY DEF CheckResources
  <2> QED
    BY <2>1, Zenon DEF Report
<1>3. calm => read.live = live
    BY <1>1 DEF CheckInv, Findings, Reading
<1>4. resource # Gone /\ Agree(Wanted, resource, TRUE) <=> resource = Served(Wanted)
    BY ResourceCompared DEF CheckInv, TypeOK
<1>5. ASSUME calm
      PROVE  ~wrong <=> /\ ~live.suspend /\ live.inline = Absent
                        /\ "resource" \notin withheld /\ resource = Served(Wanted)
    BY <1>3, <1>4, <1>5
<1> HIDE DEF wrong
<1>6. Established'
    BY <1>1, <1>2, <1>5, Reports, CheckFrame DEF Findings, Established, Sure, AfterSecrets, AfterResources,
        AfterValues, AfterRunning
<1>7. AlignedShowsNoDrift'
    BY <1>1, <1>2, <1>5, Reports, CheckFrame DEF Findings, AlignedShowsNoDrift, Aligned
<1> QED
    BY <1>1, <1>6, <1>7, Reports DEF Findings

LEMMA ValuesStep == ASSUME CheckInv, CompareValues PROVE Findings'
<1> DEFINE others == {LiveValues} \cup IF "installed" \in withheld THEN {} ELSE {installed}
           differ == \E v \in others :
                        Differ(WantedValues, v) \/ (~offline /\ CredentialsDiffer(WantedValues, v))
           unproven == offline /\ ("installed" \in withheld \/ \E v \in others : Unprovable(WantedValues, v))
           c == main.data[StoreKey]
<1>1. at = "installed" /\ at' = "render"
    BY DEF CompareValues, CheckStep
<1>2. (drift' <=> drift \/ differ) /\ (incomplete' <=> incomplete \/ unproven)
  <2>1. Report(differ, unproven)
    BY DEF CompareValues
  <2> QED
    BY <2>1, Zenon DEF Report
<1>3. live.plain \in Trees
    BY DEF CheckInv, TypeOK
<1>4. PICK t \in Trees, e \in Value : installed = Coalesced(t, e)
    BY DEF CheckInv, Deployed
<1>5. ~offline => withheld = {}
    BY DEF CheckInv, Deployed
<1>6. ASSUME calm, "secret" \notin withheld, live.inline = Absent
      PROVE  WantedValues = Effective(Desired, c) /\ LiveValues = Coalesced(live.plain, c)
  <2>1. read.live = live /\ read.main = main
    BY <1>1, <1>6 DEF CheckInv, Findings, Reading
  <2> QED
    BY <1>3, <1>6, <2>1, Credentials DEF WantedValues, LiveValues, Credential
<1>7. ASSUME NEW u \in Trees, NEW b
      PROVE  /\ ~Differ(Effective(Desired, c), Coalesced(u, b)) <=> Coalesced(Desired, Absent) = Coalesced(u, Absent)
             /\ CredentialsDiffer(Effective(Desired, c), Coalesced(u, b)) <=> c # b
    BY ValuesCompared, LeafIs
<1>8. ASSUME calm, "secret" \notin withheld, live.inline = Absent, ~differ, ~unproven
      PROVE  /\ "installed" \notin withheld
             /\ Coalesced(live.plain, Absent) = Coalesced(Desired, Absent)
             /\ installed = Coalesced(Desired, c)
  <2>1. "installed" \notin withheld
    BY <1>5, <1>8
  <2>2. others = {LiveValues, installed}
    BY <2>1
  <2>3. ~Differ(WantedValues, LiveValues) /\ ~Differ(WantedValues, installed)
    BY <1>8, <2>2
  <2>4. ~CredentialsDiffer(WantedValues, installed)
    BY <1>8, <2>2 DEF Unprovable
  <2> QED
    BY <1>3, <1>4, <1>6, <1>7, <1>8, <2>1, <2>3, <2>4, SameValues
<1>9. ASSUME calm, Aligned, withheld = {}
      PROVE  ~differ
  <2>1. /\ live.inline = Absent /\ Coalesced(live.plain, Absent) = Coalesced(Desired, Absent)
        /\ installed = Coalesced(Desired, c)
    BY <1>9 DEF Aligned
  <2>2. Desired \in Trees
    BY TreesAssumption DEF TreesAssumption
  <2>3. WantedValues = Effective(Desired, c) /\ LiveValues = Coalesced(live.plain, c)
    BY <1>6, <1>9, <2>1
  <2>4. /\ ~Differ(WantedValues, LiveValues) /\ ~CredentialsDiffer(WantedValues, LiveValues)
        /\ ~Differ(WantedValues, installed) /\ ~CredentialsDiffer(WantedValues, installed)
    BY <1>3, <1>7, <2>1, <2>2, <2>3
  <2> QED
    BY <2>4
<1> HIDE DEF differ, unproven
<1>10. Established'
    BY <1>1, <1>2, <1>8, Reports, CheckFrame DEF Findings, Established, Sure, AfterSecrets, AfterResources,
        AfterValues, AfterRunning
<1>11. AlignedShowsNoDrift'
    BY <1>1, <1>2, <1>9, Reports, CheckFrame DEF Findings, AlignedShowsNoDrift
<1> QED
    BY <1>1, <1>10, <1>11, Reports DEF Findings

LEMMA RenderStep == ASSUME CheckInv, Render PROVE Findings'
<1> DEFINE differ == ~Agree(Template(WantedValues), Template(LiveValues), FALSE)
<1>1. at = "render" /\ at' = "running"
    BY DEF Render, CheckStep
<1>2. drift' <=> drift \/ differ
  <2>1. Report(differ, FALSE)
    BY DEF Render
  <2> QED
    BY <2>1, Zenon DEF Report
<1>3. ASSUME calm, Aligned
      PROVE  ~differ
  <2>1. read.live = live
    BY <1>1, <1>3 DEF CheckInv, Findings, Reading
  <2>2. live.plain \in Trees /\ Coalesced(Desired, Absent) = Coalesced(live.plain, Absent)
    BY <1>3 DEF CheckInv, TypeOK, Aligned
  <2> QED
    BY <2>1, <2>2, Rendered DEF WantedValues, LiveValues
<1> HIDE DEF differ
<1>4. Established'
    BY <1>1, <1>2, Reports, CheckFrame DEF Findings, Established, Sure, AfterSecrets, AfterResources,
        AfterValues, AfterRunning
<1>5. AlignedShowsNoDrift'
    BY <1>1, <1>2, <1>3, Reports, CheckFrame DEF Findings, AlignedShowsNoDrift
<1> QED
    BY <1>1, <1>4, <1>5, Reports DEF Findings

LEMMA RunningStep == ASSUME CheckInv, CheckRunning PROVE Findings'
<1> DEFINE lacking == running = Gone \/ "running" \in withheld
           same == Agree(Normal(Template(WantedValues)), Normal(running), TRUE)
           c == main.data[StoreKey]
           wrong == IF lacking THEN ~offline ELSE ~same
<1>1. at = "running" /\ at' = "exit"
    BY DEF CheckRunning, CheckStep
<1>2. (drift' <=> drift \/ wrong) /\ (incomplete' <=> incomplete \/ (offline /\ lacking))
  <2>1. Report(wrong, offline /\ lacking)
    BY DEF CheckRunning
  <2> QED
    BY <2>1, Zenon DEF Report
<1>3. calm => read.main = main \/ "secret" \in withheld
    BY <1>1 DEF CheckInv, Findings, Reading
<1>4. ASSUME calm, "secret" \notin withheld, installed = Coalesced(Desired, c)
      PROVE  /\ running # Gone => (same <=> Runs(Desired))
             /\ Runs(Desired) => running # Gone
  <2>1. running \in {Gone} \cup Variants(Served(Template(Coalesced(Desired, c))))
    BY <1>4 DEF CheckInv, Deployed
  <2>2. WantedValues = Effective(Desired, c)
    BY <1>3, <1>4 DEF WantedValues
  <2>3. running # Gone => (same <=> Runs(Desired))
    BY <2>1, <2>2, WorkloadCompared DEF Runs
  <2>4. Runs(Desired) => running \in Variants(Served(Template(Coalesced(Desired, Absent))))
    BY DEF Runs, Variants
  <2> QED
    BY <2>3, <2>4, VariantsClosed
<1> HIDE DEF same
<1>5. Established'
  <2>1. ASSUME calm', Sure', ~incomplete'
        PROVE  /\ "secret" \notin withheld /\ Complete /\ pg /\ main.owner = "Helm"
               /\ ~live.suspend /\ live.inline = Absent
               /\ "resource" \notin withheld /\ resource = Served(Wanted)
               /\ "installed" \notin withheld
               /\ Coalesced(live.plain, Absent) = Coalesced(Desired, Absent)
               /\ installed = Coalesced(Desired, c)
               /\ "running" \notin withheld /\ Runs(Desired)
    <3>1. calm /\ ~drift /\ ~incomplete /\ ~wrong /\ ~(offline /\ lacking) /\ Established
        BY <1>2, <2>1, Reports, CheckFrame DEF Sure, Findings
    <3>2. /\ "secret" \notin withheld /\ Complete /\ pg /\ main.owner = "Helm"
          /\ ~live.suspend /\ live.inline = Absent
          /\ "resource" \notin withheld /\ resource = Served(Wanted)
          /\ "installed" \notin withheld
          /\ Coalesced(live.plain, Absent) = Coalesced(Desired, Absent)
          /\ installed = Coalesced(Desired, c)
        BY <1>1, <3>1 DEF Established, Sure, AfterSecrets, AfterResources, AfterValues
    <3>3. ~lacking /\ same
        BY <3>1
    <3> QED
        BY <1>4, <3>1, <3>2, <3>3
  <2> QED
    BY <2>1, Reports, CheckFrame DEF Established
<1>6. ASSUME calm, Aligned, withheld = {} PROVE ~wrong
    BY <1>4, <1>6 DEF Aligned
<1> HIDE DEF wrong
<1>7. AlignedShowsNoDrift'
    BY <1>1, <1>2, <1>6, Reports, CheckFrame DEF Findings, AlignedShowsNoDrift
<1> QED
    BY <1>1, <1>5, <1>7, Reports DEF Findings
-----------------------------------------------------------------------------
LEMMA CheckStart == Init => CheckInv
<1> SUFFICES ASSUME Init PROVE CheckInv
    OBVIOUS
<1>1. Inv
    BY InitInv DEF Init
<1>2. BootInv
    BY <1>1 DEF BootInv, Init, BootInit, Growing, ReadyMeansComplete, Unmarked, Active, Under, NoHelm
<1>3. TypeOK
  <2>1. BootTypeOK /\ 0 \in 0..MaxEdits
    BY <1>1, DriftAssumption DEF Inv, DriftAssumption
  <2>2. live \in [plain : Trees, inline : {Absent, 4 + MaxStarts}, suspend : BOOLEAN]
    BY DEF Init, DriftInit
  <2>3. resource \in {Served(Wanted), Served(Shrunk), Gone} /\ at = "idle" /\ code = 3 /\ edits = 0
    BY DEF Init, DriftInit
  <2>4. {offline, drift, incomplete, calm} \subseteq BOOLEAN
    BY DEF Init, DriftInit
  <2> QED
    BY <2>1, <2>2, <2>3, <2>4 DEF TypeOK
<1>4. Deployed
  <2>1. live.plain \in Trees /\ main.data[StoreKey] \in Value
    BY <1>3, DriftAssumption, ValueFacts DEF TypeOK, BootTypeOK, Secret, DriftAssumption
  <2> QED
    BY <2>1 DEF Init, DriftInit, Deployed, Variants
<1>5. Findings
  <2>1. at = "idle" /\ ~drift /\ ~incomplete /\ code = 3 /\ DOMAIN read = {"live", "main"}
    BY DEF Init, DriftInit, NotRead
  <2> QED
    BY <2>1 DEF Findings, Reading, Starting, Established, Filled, Passing, AlignedShowsNoDrift,
        AfterSecrets, AfterResources, AfterValues, AfterRunning
<1> QED
    BY <1>2, <1>3, <1>4, <1>5 DEF CheckInv

LEMMA CheckInvStep == CheckInv /\ [Next]_vars => CheckInv'
<1> SUFFICES ASSUME CheckInv, [Next]_vars PROVE CheckInv'
    OBVIOUS
<1>1. TypeOK' /\ BootInv' /\ Deployed'
    BY TypesStep, BootStep, DeployedStep DEF CheckInv
<1>2. Findings'
  <2>1. CASE CheckNext
    BY <2>1, EarlySteps, FailingSteps, SecretsStep, ResourcesStep, ValuesStep, RenderStep, RunningStep, ExitStep
        DEF CheckNext
  <2>2. CASE Edits \/ Boots \/ UNCHANGED vars
    BY <2>2, OthersStep
  <2> QED
    BY <2>1, <2>2, Kinds
<1> QED
    BY <1>1, <1>2 DEF CheckInv

LEMMA CheckInvariance == Spec => []CheckInv
    BY CheckStart, CheckInvStep, PTL DEF Spec

\* Whatever is edited beside the check, and whichever tool fails, the check and
\* the release stay what the types say.
THEOREM DriftTypes == Spec => []TypeOK
<1>1. CheckInv => TypeOK
    BY DEF CheckInv
<1> QED
    BY <1>1, CheckInvariance, PTL

\* Whatever values a release has, what merge() makes of the defaults and them is at
\* every path what the override has there, or the default where it has nothing.
THEOREM ValuesOverlaid == Spec => []MergeOverlays
<1>1. CheckInv => MergeOverlays
  <2> SUFFICES ASSUME CheckInv PROVE Overlays(Defaults, live.plain)
    BY DEF MergeOverlays
  <2>1. live.plain \in Trees
    BY DEF CheckInv, TypeOK
  <2>2. live.plain \in Dicts /\ Defaults \in Dicts
    BY <2>1, TreesAssumption DEF TreesAssumption
  <2> QED
    BY <2>2, MergeIsOverlay
<1> QED
    BY <1>1, CheckInvariance, PTL

\* Exit code 0 is a proof: of the whole alignment when nothing changed, and of
\* complete Secrets whatever did.
THEOREM CleanIsAligned == Spec => []CleanMeansAligned
<1>1. CheckInv => CleanMeansAligned
  <2> SUFFICES ASSUME CheckInv, code = 0
               PROVE  (calm => Aligned /\ withheld = {}) /\ (offline \/ Complete)
    BY DEF CleanMeansAligned
  <2>1. at = "done" /\ Sure /\ ~incomplete
    BY DEF CheckInv, Findings, Sure
  <2>2. offline \/ Complete
    BY <2>1 DEF CheckInv, Findings, Filled, AfterSecrets
  <2>3. ASSUME calm PROVE Aligned /\ withheld = {}
    <3>1. /\ "secret" \notin withheld /\ Complete /\ pg /\ main.owner = "Helm"
          /\ ~live.suspend /\ live.inline = Absent
          /\ "resource" \notin withheld /\ resource = Served(Wanted)
          /\ "installed" \notin withheld
          /\ Coalesced(live.plain, Absent) = Coalesced(Desired, Absent)
          /\ installed = Coalesced(Desired, main.data[StoreKey])
          /\ "running" \notin withheld /\ Runs(Desired)
        BY <2>1, <2>3 DEF CheckInv, Findings, Established, AfterSecrets, AfterResources, AfterValues, AfterRunning
    <3>2. withheld = {}
        BY <3>1 DEF CheckInv, Deployed
    <3> QED
        BY <3>1, <3>2 DEF Aligned
  <2> QED
    BY <2>2, <2>3
<1> QED
    BY <1>1, CheckInvariance, PTL

\* The last stage of a deployment can pass: nothing is reported of a cluster that
\* is as the profile wants it.
THEOREM AlignedPasses == Spec => []AlignedShowsNoDrift
<1>1. CheckInv => AlignedShowsNoDrift
    BY DEF CheckInv, Findings
<1> QED
    BY <1>1, CheckInvariance, PTL

\* The two scripts agree on what complete Secrets are.
THEOREM ReadyPasses == Spec => []BootstrapSatisfiesCheck
<1>1. CheckInv => BootstrapSatisfiesCheck
  <2> SUFFICES ASSUME CheckInv, NEW r \in Run, step[r] = "ready", at = "resources", calm, pg, main.owner = "Helm"
               PROVE  ~drift
    BY DEF BootstrapSatisfiesCheck
  <2>1. Complete
    BY DEF CheckInv, BootInv, ReadyMeansComplete
  <2>2. NoneRedacted
    BY DEF CheckInv, BootInv, Unmarked, NoneRedacted
  <2> QED
    BY <2>1, <2>2 DEF CheckInv, Findings, Passing
<1> QED
    BY <1>1, CheckInvariance, PTL
=============================================================================
