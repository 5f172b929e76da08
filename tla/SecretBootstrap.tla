--------------------------- MODULE SecretBootstrap ---------------------------
(***************************************************************************)
(* scripts/bootstrap-hub-production-secrets.py: invocations that read the   *)
(* two Secrets one after the other, work out what is missing, and write it  *)
(* with whatever the cluster has become by then.  Others write meanwhile:   *)
(* a Helm upgrade that suspending Flux did not stop, and another manager.   *)
(*                                                                          *)
(* A value is a number: two values are the same credential when they are    *)
(* equal.  What an invocation generates or finds in its environment is its  *)
(* serial number, so no two invocations bring the same credentials.         *)
(***************************************************************************)
EXTENDS Naturals

CONSTANTS
    Run,         \* invocations that may overlap
    Generated,   \* GENERATED: keys filled with random values
    Stored,      \* STORAGE: keys taken from the environment
    Derived,     \* database-url, postgresql-password
    Fixed,       \* redis-url, a constant of the script
    Pinned,      \* generated keys the release's values set themselves
    Twin,        \* aliases: the storage key that holds the same credential
    MaxStarts,   \* bound: invocations
    MaxUpsets    \* bound: steps of other managers

Required == Generated \cup Stored \cup Derived \cup Fixed

\* What the chart writes from its values, whatever the Secret holds.
FromValues == Pinned \cup Derived \cup Fixed

Absent == 0      \* no such key, no such Secret
Redacted == 1    \* empty, or a redaction marker
Found == 2       \* what an earlier installation left
Standard == 3    \* what follows from posthog-pg-app, or the constant
Serial == 4..(4 + MaxStarts)       \* the last one is drawn by Helm
Configured == 5 + MaxStarts        \* what the values say
Value == 0..(5 + MaxStarts)

Owner == {"gone", "none", "Helm", "other"}    \* no Secret, none, ours, another's

ASSUME KeysAssumption ==
    /\ Twin \in [Stored -> Stored] /\ \A k \in Stored : Twin[Twin[k]] = k
    /\ Stored \cap (Generated \cup Derived \cup Fixed) = {} /\ Pinned \subseteq Generated
    /\ MaxStarts \in Nat /\ MaxUpsets \in Nat

VARIABLES
    main,         \* Secret posthog-secrets
    clickhouse,   \* the password in Secret posthog-clickhouse-password
    pg,           \* CNPG has created posthog-pg-app
    step, seen,   \* invocations, and what they read
    helm,         \* the Secret as the Helm upgrade looked it up
    starts, upsets

secretVars == <<main, clickhouse>>
runVars    == <<step, seen>>
otherVars  == <<pg, helm, starts, upsets>>
bootVars   == <<secretVars, runVars, otherVars>>

Nothing == [rv |-> 0, owner |-> "gone", data |-> [k \in Required |-> Absent]]
Unread  == [serial |-> 0, clickhouse |-> Absent, main |-> Nothing]
NoHelm  == [on |-> FALSE, listed |-> FALSE, rv |-> 0, data |-> [k \in Required |-> Absent]]

Exists(s)  == s.owner # "gone"
Present(s) == { k \in Required : s.data[k] # Absent }
Missing(s) == Required \ Present(s)

\* Twins that an earlier installation left hold the same credential.
BootInit ==
    /\ main \in {Nothing} \cup
                [rv : {0}, owner : Owner \ {"gone"}, data : [Required -> {Absent, Redacted, Found}]]
    /\ clickhouse \in {Absent, Redacted, Found}
    /\ pg \in BOOLEAN
    /\ step = [r \in Run |-> "idle"] /\ seen = [r \in Run |-> Unread]
    /\ helm = NoHelm /\ starts = 0 /\ upsets = 0

(***************************************************************************)
(* One invocation.                                                          *)
(***************************************************************************)
Goto(r, s) == step' = [step EXCEPT ![r] = s]

\* On to step s, or out with an error.
Proceed(r, s, holds) == Goto(r, IF holds THEN s ELSE "idle")

\* The Secret for ClickHouse is read first.
ReadClickHouse(r) ==
    /\ step[r] \in {"idle", "ready"} /\ starts < MaxStarts
    /\ starts' = starts + 1
    /\ seen' = [seen EXCEPT ![r] = [Unread EXCEPT !.serial = 4 + starts, !.clickhouse = clickhouse]]
    /\ Proceed(r, "main", clickhouse # Redacted)
    /\ UNCHANGED <<secretVars, pg, helm, upsets>>

\* Another manager's or release's Secret is refused, and so is a redacted key.
Acceptable(s) == s.owner # "other" /\ \A k \in Required : s.data[k] # Redacted

ReadMain(r, supplied) ==
    /\ step[r] = "main"
    /\ seen' = [seen EXCEPT ![r].main = main]
    /\ Proceed(r, "pg",
               /\ Acceptable(main)
               /\ \A k \in Missing(main) \cap Stored : main.data[Twin[k]] # Absent \/ supplied)
    /\ UNCHANGED <<secretVars, otherVars>>

ReadPg(r) ==
    /\ step[r] = "pg"
    /\ Proceed(r, "create", Missing(seen[r].main) \cap Derived = {} \/ pg)
    /\ UNCHANGED <<secretVars, seen, otherVars>>

\* Mutant: the two Secrets are taken to exist or lack together.
CreateBothOrNeither(r) ==
    /\ step[r] = "create" /\ Goto(r, "write")
    /\ clickhouse' = IF Exists(seen[r].main) THEN clickhouse ELSE seen[r].serial
    /\ UNCHANGED <<main, seen, otherVars>>

\* kubectl create: fails when another invocation has created it since.
CreateClickHouse(r) ==
    /\ step[r] = "create"
    /\ IF seen[r].clickhouse = Absent /\ clickhouse = Absent
       THEN clickhouse' = seen[r].serial
       ELSE UNCHANGED clickhouse
    /\ Goto(r, IF seen[r].clickhouse = Absent /\ clickhouse # Absent THEN "idle" ELSE "write")
    /\ UNCHANGED <<main, seen, otherVars>>

\* Mutant: an existing twin is not reused.
AdditionFromEnvironment(r, k) == IF k \in Derived \cup Fixed THEN Standard ELSE seen[r].serial

\* What a missing key gets.
Addition(r, k) ==
    LET data == seen[r].main.data
    IN CASE k \in Generated -> seen[r].serial
         [] k \in Derived \cup Fixed -> Standard
         [] k \in Stored    -> IF data[Twin[k]] # Absent THEN data[Twin[k]] ELSE seen[r].serial

\* Mutant: what follows from posthog-pg-app is forgotten.
CompletedButDerived(r) ==
    [k \in Required |-> IF k \in Missing(seen[r].main) \ Derived THEN Addition(r, k)
                                                                 ELSE seen[r].main.data[k]]

Completed(r) ==
    [k \in Required |-> IF k \in Missing(seen[r].main) THEN Addition(r, k)
                                                       ELSE seen[r].main.data[k]]

Put(data) == main' = [rv |-> main.rv + 1, owner |-> "Helm", data |-> data]

\* Mutant: the patch does not test resourceVersion.
PatchAppliesAnyway(r) == Exists(main)
\* The patch replaces all of data, provided the Secret is still the one read.
PatchApplies(r) == Exists(main) /\ main.rv = seen[r].main.rv

WriteMain(r) ==
    LET s == seen[r].main
    IN /\ step[r] = "write"
       /\ CASE Exists(s) /\ Missing(s) = {} /\ s.owner = "Helm" ->
                    Goto(r, "ready") /\ UNCHANGED main
            [] Exists(s) /\ (Missing(s) # {} \/ s.owner # "Helm") ->
                    IF PatchApplies(r) THEN Put(Completed(r)) /\ Goto(r, "ready")
                                       ELSE Goto(r, "idle") /\ UNCHANGED main
            [] ~Exists(s) ->
                    IF ~Exists(main) THEN Put(Completed(r)) /\ Goto(r, "ready")
                                    ELSE Goto(r, "idle") /\ UNCHANGED main
       /\ UNCHANGED <<clickhouse, seen, otherVars>>

\* The plan is all that was asked for, an API call fails, the process is killed.
Stop(r) ==
    /\ step[r] \in {"main", "pg", "create", "write"}
    /\ Goto(r, "idle") /\ UNCHANGED <<secretVars, seen, otherVars>>

(***************************************************************************)
(* The others.                                                              *)
(***************************************************************************)
CnpgCreates == ~pg /\ pg' = TRUE /\ UNCHANGED <<secretVars, runVars, helm, starts, upsets>>

Upset == upsets < MaxUpsets /\ upsets' = upsets + 1

\* Flux hands the storage keys on from the Secret itself (valuesFrom); the chart
\* looks generated keys up and draws the missing ones, and takes the others and
\* what its values pin from the values, which may repeat the Secret or differ.
HelmRenders ==
    /\ Upset /\ ~helm.on
    /\ \A k \in Stored : main.data[k] # Absent
    /\ \E given \in {Found, Configured}, listed \in BOOLEAN :
          helm' = [on |-> TRUE, listed |-> listed, rv |-> main.rv,
                   data |-> [k \in Required |->
                       IF k \in FromValues THEN given
                       ELSE IF main.data[k] = Absent THEN 4 + MaxStarts ELSE main.data[k]]]
    /\ UNCHANGED <<secretVars, runVars, pg, starts>>

\* Helm applies every key it rendered, to a Secret that its last release lists or
\* that carries its own annotations.
HelmApplies ==
    /\ helm.on /\ helm' = NoHelm
    /\ IF Exists(main) /\ (main.owner = "Helm" \/ helm.listed) /\ helm.data # main.data
       THEN Put(helm.data)
       ELSE UNCHANGED main
    /\ UNCHANGED <<clickhouse, runVars, pg, starts, upsets>>

AnotherManagerAdopts ==
    /\ Upset /\ Exists(main)
    /\ main' = [rv |-> main.rv + 1, owner |-> "other", data |-> main.data]
    /\ UNCHANGED <<clickhouse, runVars, pg, helm, starts>>

-----------------------------------------------------------------------------
RunStep(r) ==
    \/ ReadClickHouse(r) \/ (\E supplied \in BOOLEAN : ReadMain(r, supplied)) \/ ReadPg(r)
    \/ CreateClickHouse(r) \/ WriteMain(r)

BootNext ==
    \/ \E r \in Run : RunStep(r) \/ Stop(r)
    \/ CnpgCreates \/ HelmRenders \/ HelmApplies \/ AnotherManagerAdopts

BootSpec == BootInit /\ [][BootNext]_bootVars

(***************************************************************************)
(* Properties.                                                              *)
(***************************************************************************)
Secret == [rv : Nat, owner : Owner, data : [Required -> Value]]

BootTypeOK ==
    /\ main \in Secret /\ clickhouse \in Value /\ pg \in BOOLEAN
    /\ step \in [Run -> {"idle", "main", "pg", "create", "write", "ready"}]
    /\ seen \in [Run -> [serial : {0} \cup Serial, clickhouse : Value, main : Secret]]
    /\ helm \in [on : BOOLEAN, listed : BOOLEAN, rv : Nat, data : [Required -> Value]]
    /\ starts \in 0..MaxStarts /\ upsets \in 0..MaxUpsets

\* "Without rotation": whoever overlaps and whatever fails, no invocation changes a
\* credential that exists.  A Helm upgrade does so in two cases only: keys that its
\* values give, and any key when the Secret has changed since the upgrade looked at
\* it (the README keeps the HelmRelease suspended).
HelmWrites == helm.on /\ ~helm'.on

NoRotation ==
    [][ /\ clickhouse # Absent => clickhouse' = clickhouse
        /\ \A k \in Required :
              main.data[k] \notin {Absent, main'.data[k]}
                  => HelmWrites /\ (k \in FromValues \/ helm.rv # main.rv) ]_bootVars

\* Once another manager has the Secret no invocation takes it back or writes to it,
\* even one that had read it before; nor does a Helm upgrade whose last release did
\* not have the Secret.
ForeignSecretKept ==
    [][main.owner = "other"
          => \/ main'.owner = "other" /\ main'.data = main.data
             \/ HelmWrites /\ helm.listed]_bootVars

\* "A partial storage pair may reuse the existing equivalent pair": keys that hold
\* the same credential never come to differ, whatever each invocation was given.
TwinsAgree ==
    \A k \in Stored :
        {main.data[k], main.data[Twin[k]]} \cap {Absent, Redacted} = {}
            => main.data[k] = main.data[Twin[k]]

\* "Secret ready": an invocation that says so leaves both Secrets complete, also
\* when it wrote nothing itself.
Complete == Exists(main) /\ Missing(main) = {} /\ clickhouse # Absent

ReadyMeansComplete == (\E r \in Run : step[r] = "ready") => Complete
=============================================================================
