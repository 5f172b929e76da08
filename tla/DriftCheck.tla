----------------------------- MODULE DriftCheck -----------------------------
(***************************************************************************)
(* scripts/check-hub-production.py over a cluster whose Secrets             *)
(* SecretBootstrap fills: one check reads the HelmRelease, the Secrets, the *)
(* profile's resources, the installed values and the running workloads one  *)
(* after the other, while others edit, suspend or reconcile the release.    *)
(*                                                                          *)
(* The values hold one plain part and one credential, which the release     *)
(* takes from the Secret (valuesFrom) or carries inline.  The running       *)
(* workload is the template of the values.                                  *)
(***************************************************************************)
EXTENDS SecretBootstrap, ValueMerge, ValueChanges

CONSTANTS
    Trees,       \* plain values a release may carry
    Defaults,    \* the chart's values.yaml
    Desired,     \* plain values of the profile, one of Trees
    StoreKey,    \* the key the profile's valuesFrom names
    MaxEdits     \* bound: changes to the cluster while the check exists

VARIABLES
    live,        \* the HelmRelease: plain values, credential, suspended
    installed,   \* helm get values --all
    resource,    \* a custom resource of the profile
    running,     \* a workload of the release
    offline, withheld,                \* --snapshot-dir; what the snapshot lacks
    at, read, drift, incomplete, code,
    edits, calm                       \* nothing changed since the check began

releaseVars == <<live, installed, resource, running>>
checkVars   == <<offline, withheld, at, read, drift, incomplete, code>>
vars == <<bootVars, releaseVars, checkVars, edits, calm>>

\* runtime_spec(): a restart's annotation goes, and then empty annotations.
\* Mutant: volatile metadata is compared.
NormalAsIs(spec) == spec

Normal(spec) ==
    LET kept == IF IsDict(spec) /\ "annotations" \in DOMAIN spec
                THEN DOMAIN spec.annotations \ {"restartedAt"} ELSE {}
    IN IF IsDict(spec)
       THEN [k \in DOMAIN spec \ (IF kept = {} THEN {"annotations"} ELSE {}) |->
               IF k = "annotations" THEN [n \in kept |-> spec.annotations[n]] ELSE spec[k]]
       ELSE spec

\* resolve(), then the chart's defaults: a credential from the Secret is set last.
Effective(plain, credential) ==
    [Merge(Defaults, Merge(Empty, plain)) EXCEPT !.accessKey = Leaf(credential)]

\* What Helm makes of a release: null in the values takes the default away.
Coalesced(plain, credential) == [Merge(Defaults, plain) EXCEPT !.accessKey = Leaf(credential)]

Plain(values) == [k \in DOMAIN values \ {"accessKey"} |-> values[k]]

\* helm template, of redacted values; what the API server makes of it; and what
\* kubectl rollout restart, or an edit, makes of that.
Template(values) ==
    [k \in (DOMAIN values \ {"accessKey"}) \cup {"annotations"} |-> IF k = "annotations" THEN Empty ELSE values[k]]
Served(spec) ==
    [k \in DOMAIN spec \cup {"revisionHistoryLimit"} |-> IF k \in DOMAIN spec THEN spec[k] ELSE Leaf(10)]
Restarted(spec) == [spec EXCEPT !.annotations = [restartedAt |-> Leaf(1)]]
Edited(spec)    == [spec EXCEPT !.b = Leaf(30)]
Variants(spec)  == {spec, Restarted(spec), Edited(spec), Edited(Restarted(spec))}

Wanted == [replicas |-> Leaf(1), storage |-> [size |-> Leaf(20)]]     \* the resource's spec
Shrunk == [Wanted EXCEPT !.storage = [size |-> Leaf(10)]]

\* The credential of release r, given the value v of the Secret's key.
Credential(r, v) == IF r.inline = Absent THEN v ELSE r.inline

ASSUME DriftAssumption == StoreKey \in Stored /\ MaxEdits \in Nat

\* What the check makes of a release's values to compare it.
Handled(t) ==
    LET values == Coalesced(t, Absent)
    IN {Plain(values), Template(values)}
       \cup { Normal(s) : s \in {Template(values)} \cup Variants(Served(Template(values))) }

\* No value at the top of an override is null, the chart has the credential, and
\* the profile's workload has fields.
ASSUME TreesAssumption ==
    /\ Desired \in Trees /\ Trees \cup {Empty, Defaults} \subseteq Dicts
    /\ {Wanted, Served(Wanted), Served(Shrunk)} \subseteq Compared
    /\ \A t \in Trees : Handled(t) \subseteq Compared /\ \A k \in DOMAIN t : t[k] # Null
    /\ "accessKey" \in DOMAIN Defaults /\ Normal(Template(Coalesced(Desired, Absent))) # Empty

NotRead == [live |-> Gone, main |-> Nothing]

\* A reconciled release, of the profile or not.
DriftInit ==
    /\ live \in [plain : Trees, inline : {Absent}, suspend : {FALSE}]
    /\ installed = Coalesced(live.plain, main.data[StoreKey])
    /\ resource \in {Served(Wanted), Gone} /\ running = Served(Template(installed))
    /\ offline \in BOOLEAN
    /\ withheld \in IF offline THEN SUBSET {"secret", "resource", "installed", "running"} ELSE {{}}
    /\ at = "idle" /\ read = NotRead /\ drift = FALSE /\ incomplete = FALSE /\ code = 3
    /\ edits = 0 /\ calm = TRUE

Init == BootInit /\ DriftInit

(***************************************************************************)
(* The check.                                                               *)
(***************************************************************************)
CheckStep(from, to) ==
    /\ at = from /\ at' = to
    /\ UNCHANGED <<bootVars, releaseVars, offline, withheld, edits, calm>>

Report(d, i) ==
    drift' = (drift \/ d) /\ incomplete' = (incomplete \/ i) /\ UNCHANGED code

\* An exception ends the check, whatever drift it had noted.
\* Mutant: an exception leaves the exit code unset.
ErrorReportsNothing ==
    /\ at' = "done" /\ read' = NotRead
    /\ UNCHANGED <<bootVars, releaseVars, offline, withheld, drift, incomplete, code, edits, calm>>

Error ==
    /\ at' = "done" /\ code' = 2 /\ read' = NotRead
    /\ UNCHANGED <<bootVars, releaseVars, offline, withheld, drift, incomplete, edits, calm>>

ReadRelease ==
    /\ CheckStep("idle", "resolve")
    /\ read' = [NotRead EXCEPT !.live = live]
    /\ UNCHANGED <<drift, incomplete, code>>

\* The Secret is read once.  Live, an absent key that valuesFrom names is an error.
Lacks(key) == main.data[key] = Absent

Resolve ==
    /\ ~Lacks(StoreKey) \/ offline
    /\ CheckStep("resolve", "secrets")
    /\ read' = [read EXCEPT !.main = IF "secret" \in withheld THEN Nothing ELSE main]
    /\ Report(FALSE, offline /\ ("secret" \in withheld \/ main.data[StoreKey] \in {Absent, Redacted}))

ResolveFails == /\ Lacks(StoreKey) /\ ~offline /\ at = "resolve" /\ Error

\* Live, an empty value is drift; a marker passes for a value.
CheckSecrets ==
    LET owned == read.main.owner = "Helm"
        redacted == clickhouse = Redacted \/ \E k \in Required : read.main.data[k] = Redacted
    IN /\ CheckStep("secrets", "resources") /\ UNCHANGED read
       /\ \E empty \in {FALSE, redacted} :
             Report(\/ "secret" \notin withheld /\ (Missing(read.main) # {} \/ ~owned)
                    \/ clickhouse = Absent \/ ~pg \/ empty,
                    offline /\ redacted)

\* A resource the snapshot lacks counts as missing, too.
\* Mutant: suspend is taken out of the comparison and not looked at on its own.
CheckResourcesOnly ==
    LET lacking == resource = Gone \/ "resource" \in withheld
    IN /\ CheckStep("resources", "installed") /\ UNCHANGED read
       /\ Report(read.live.inline # Absent \/ lacking \/ ~Agree(Wanted, resource, TRUE), offline /\ lacking)

CheckResources ==
    LET lacking == resource = Gone \/ "resource" \in withheld
    IN /\ CheckStep("resources", "installed") /\ UNCHANGED read
       /\ Report(\/ read.live.suspend \/ read.live.inline # Absent
                 \/ lacking \/ ~Agree(Wanted, resource, TRUE),
                 offline /\ lacking)

\* comparable() and changes(): credentials differ in a snapshot without proof.
Differ(want, have) == ~Agree(Plain(want), Plain(have), FALSE)
CredentialsDiffer(want, have) == want.accessKey # have.accessKey
Unprovable(want, have) ==
    CredentialsDiffer(want, have) \/ Leaf(Redacted) \in {want.accessKey, have.accessKey}

WantedValues == Effective(Desired, read.main.data[StoreKey])
LiveValues   == Effective(read.live.plain, Credential(read.live, read.main.data[StoreKey]))

CompareValues ==
    LET others == {LiveValues} \cup IF "installed" \in withheld THEN {} ELSE {installed}
    IN /\ CheckStep("installed", "render") /\ UNCHANGED read
       /\ Report(\E v \in others : Differ(WantedValues, v) \/ (~offline /\ CredentialsDiffer(WantedValues, v)),
                 offline /\ ("installed" \in withheld \/ \E v \in others : Unprovable(WantedValues, v)))

Render ==
    /\ CheckStep("render", "running") /\ UNCHANGED read
    /\ Report(~Agree(Template(WantedValues), Template(LiveValues), FALSE), FALSE)

\* kubectl or helm fails: while rendering that only leaves the check incomplete.
ToolFails ==
    \/ at \in {"resolve", "secrets", "resources", "installed"} /\ Error
    \/ /\ \E from \in {"render", "running"} : CheckStep(from, "exit")
       /\ UNCHANGED read /\ Report(FALSE, TRUE)

CheckRunning ==
    LET lacking == running = Gone \/ "running" \in withheld
    IN /\ CheckStep("running", "exit") /\ UNCHANGED read
       /\ Report(IF lacking THEN ~offline
                 ELSE ~Agree(Normal(Template(WantedValues)), Normal(running), TRUE),
                 offline /\ lacking)

\* 1 drift, 2 not all could be established, 0 aligned.
Exit ==
    /\ CheckStep("exit", "done") /\ read' = NotRead /\ UNCHANGED <<drift, incomplete>>
    /\ code' = IF drift THEN 1 ELSE IF incomplete THEN 2 ELSE 0

(***************************************************************************)
(* The cluster.                                                             *)
(***************************************************************************)
Edit ==
    /\ ~offline /\ edits < MaxEdits /\ edits' = edits + 1 /\ calm' = (at = "idle")
    /\ UNCHANGED <<bootVars, checkVars>>

EditRelease ==
    /\ Edit
    /\ \/ \E t \in Trees : live' = [live EXCEPT !.plain = t]
       \/ live' = [live EXCEPT !.inline = 4 + MaxStarts]
       \/ live' = [live EXCEPT !.suspend = TRUE]
    /\ UNCHANGED <<installed, resource, running>>

Reconcile ==
    /\ Edit /\ ~live.suspend
    /\ installed' = Coalesced(live.plain, Credential(live, main.data[StoreKey]))
    /\ running' = Served(Template(installed'))
    /\ UNCHANGED <<live, resource>>

EditResource ==
    /\ Edit /\ resource' \in {Served(Shrunk), Served(Wanted), Gone}
    /\ UNCHANGED <<live, installed, running>>

EditRunning ==
    /\ Edit /\ running # Gone
    /\ running' \in {Gone, Restarted(running), Edited(running)}
    /\ UNCHANGED <<live, installed, resource>>

CheckNext ==
    \/ ReadRelease \/ Resolve \/ ResolveFails \/ CheckSecrets \/ CheckResources
    \/ CompareValues \/ Render \/ ToolFails \/ CheckRunning \/ Exit

Next ==
    \/ CheckNext \/ EditRelease \/ Reconcile \/ EditResource \/ EditRunning
    \/ /\ BootNext /\ ~offline
       /\ calm' = (at = "idle" \/ (calm /\ UNCHANGED <<secretVars, pg>>))
       /\ UNCHANGED <<releaseVars, checkVars, edits>>

Spec == Init /\ [][Next]_vars

(***************************************************************************)
(* Properties.                                                              *)
(***************************************************************************)
TypeOK ==
    /\ BootTypeOK
    /\ live \in [plain : Trees, inline : {Absent, 4 + MaxStarts}, suspend : BOOLEAN]
    /\ resource \in {Served(Wanted), Served(Shrunk), Gone}
    /\ at \in {"idle", "resolve", "secrets", "resources", "installed", "render", "running", "exit", "done"}
    /\ code \in 0..3 /\ (code = 3 <=> at # "done")
    /\ {offline, drift, incomplete, calm} \subseteq BOOLEAN /\ edits \in 0..MaxEdits

\* The cluster is what the profile asks for.
Runs(plain) ==
    LET spec == Served(Template(Coalesced(plain, Absent)))
    IN running \in {spec, Restarted(spec)}

Aligned ==
    /\ ~live.suspend /\ live.inline = Absent
    /\ Complete /\ pg /\ main.owner = "Helm"
    /\ Coalesced(live.plain, Absent) = Coalesced(Desired, Absent)
    /\ installed = Coalesced(Desired, main.data[StoreKey])
    /\ resource = Served(Wanted) /\ Runs(Desired)

\* "Exit codes: 0 aligned", and what cannot be established is "never treated as
\* proven alignment".  Secrets do not become incomplete again, so that part also
\* holds of a check that others disturbed.
CleanMeansAligned ==
    code = 0 => (calm => Aligned /\ withheld = {}) /\ (offline \/ Complete)

\* A cluster that is as the profile wants it, with what the API server and a
\* restart add, never shows drift (a snapshot that lacks a resource does): the
\* last stage of a deployment can pass.
AlignedShowsNoDrift ==
    calm /\ withheld = {} /\ Aligned
        => ~drift \/ Redacted \in {clickhouse} \cup { main.data[k] : k \in Required }

\* What bootstrap reports ready satisfies the check, be it only for the moment:
\* the two scripts agree on keys, ownership and redaction.
BootstrapSatisfiesCheck ==
    (\E r \in Run : step[r] = "ready") /\ at = "resources" /\ calm /\ pg /\ main.owner = "Helm"
        => ~drift

\* merge() puts the live release's values over the chart's as Helm documents it, path
\* by path, whatever the release carries.  This is the merge with the chart's
\* defaults; that of the release's own inputs comes before it.
MergeOverlays == Overlays(Defaults, live.plain)
=============================================================================
