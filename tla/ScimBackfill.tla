---------------------------- MODULE ScimBackfill ----------------------------
(***************************************************************************)
(* images/posthog/migrations/0058_backfill_scim_provisioned_user_config.py: *)
(* rows keyed by domain get their domain's config, but for all except the   *)
(* oldest of a user's rows under one config.  The migration is one          *)
(* transaction, whose statements each see what is committed by then; the    *)
(* application may insert meanwhile.                                        *)
(***************************************************************************)
EXTENDS Naturals, FiniteSets

CONSTANTS
    Id,          \* primary keys, in their order
    Pair,        \* <<user, domain>>, unique in the table
    Config,      \* configs
    ConfigOf,    \* [Pair -> Config or Null]
    Null

VARIABLES
    rows,        \* id -> [pair, born, config]
    busy,        \* the application runs
    skip, last,  \* rows to leave alone, as once computed; the last batch's end
    claims,      \* updates not yet committed
    asof         \* rows born by then were looked at for duplicates

scimVars  == <<rows, busy, skip, last, claims, asof>>
localVars == <<skip, last, claims, asof>>

\* A user's rows under one config.
Group(i) == { j \in DOMAIN rows : /\ rows[j].pair[1] = rows[i].pair[1]
                                  /\ ConfigOf[rows[j].pair] = ConfigOf[rows[i].pair] }
Pending == { i \in DOMAIN rows : /\ i \notin claims /\ rows[i].config = Null
                                 /\ ConfigOf[rows[i].pair] # Null }

Older(i, j) == rows[i].born < rows[j].born
Oldest(i)   == \A j \in Group(i) \ {i} : Older(i, j)

\* Mutant: the order is that of the keys.
DuplicatesByKey == { i \in Pending : \E j \in Group(i) \cap Pending : j < i }

Duplicates == { i \in Pending : \E j \in Group(i) \cap Pending : Older(j, i) }

BeginBackfill ==
    /\ skip' = Duplicates /\ last' = 0 /\ claims' = {}
    /\ asof' = Cardinality(DOMAIN rows)
    /\ UNCHANGED <<rows, busy>>

\* A batch of one.  What was inserted since may be in it.
Claimable == { i \in Pending \ skip : i > last }

ClaimBatch ==
    /\ \E i \in Claimable : /\ \A j \in Claimable : i <= j
                            /\ claims' = claims \cup {i} /\ last' = i
    /\ UNCHANGED <<rows, busy, skip, asof>>

Commit ==
    /\ Claimable = {}
    /\ rows' = [i \in DOMAIN rows |->
                  IF i \in claims THEN [rows[i] EXCEPT !.config = ConfigOf[rows[i].pair]] ELSE rows[i]]
    /\ claims' = {} /\ UNCHANGED <<busy, skip, last, asof>>

\* Mutant: the migration is not atomic.
LeaveClaims == UNCHANGED scimVars

Rollback == claims' = {} /\ UNCHANGED <<rows, busy, skip, last, asof>>

\* The application, of before the move, provisions a user.
Provision(i, p) ==
    /\ busy /\ i \notin DOMAIN rows /\ \A j \in DOMAIN rows : rows[j].pair # p
    /\ rows' = [j \in DOMAIN rows \cup {i} |->
                  IF j = i THEN [pair |-> p, born |-> Cardinality(DOMAIN rows) + 1, config |-> Null]
                           ELSE rows[j]]
    /\ UNCHANGED <<busy, localVars>>

\* The constraint of 0060 can be added.
UserConfigUnique ==
    \A i, j \in DOMAIN rows :
        /\ i # j /\ rows[i].pair[1] = rows[j].pair[1] /\ rows[i].config # Null
        => rows[i].config # rows[j].config
=============================================================================
