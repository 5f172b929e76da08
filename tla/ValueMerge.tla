----------------------------- MODULE ValueMerge -----------------------------
(***************************************************************************)
(* merge() of scripts/check-hub-production.py, and what it does by paths.   *)
(***************************************************************************)
EXTENDS ValueTrees, Naturals, Sequences

CONSTANTS
    Dicts,   \* the dictionaries merged, with the dictionaries in them
    Paths    \* keys, one below the other

\* Leaves and lists are no dictionaries.
ASSUME DictsAssumption ==
    /\ Paths \subseteq Seq(STRING)
    /\ \A t \in Dicts :
         /\ t = [k \in DOMAIN t |-> t[k]] /\ DOMAIN t \cap {"leaf", "items"} = {} /\ Depth(t) \in Nat
         /\ \A k \in DOMAIN t : t[k] # Gone
         /\ \A k \in DOMAIN t : IsDict(t[k]) => t[k] \in Dicts /\ Depth(t[k]) < Depth(t)

\* Null removes a key, dictionaries merge, anything else replaces.
merge[left \in Dicts] ==
    [right \in Dicts |->
        [k \in { k \in DOMAIN left \cup DOMAIN right : k \in DOMAIN right => right[k] # Null } |->
            IF k \notin DOMAIN right THEN left[k]
            ELSE IF k \in DOMAIN left /\ IsDict(left[k]) /\ IsDict(right[k]) THEN merge[left[k]][right[k]]
            ELSE right[k]]]

\* Mutant: dictionaries replace each other.
MergeTopLevel(left, right) ==
    [k \in { k \in DOMAIN left \cup DOMAIN right : k \in DOMAIN right => right[k] # Null } |->
        IF k \in DOMAIN right THEN right[k] ELSE left[k]]

Merge(left, right) == merge[left][right]

(***************************************************************************)
(* What is met along a path, from the tree itself on.                       *)
(***************************************************************************)
Child(t, k) == IF IsDict(t) /\ k \in DOMAIN t THEN t[k] ELSE Gone

Along(t, p) == LET met[i \in 0..Len(p)] == IF i = 0 THEN t ELSE Child(met[i - 1], p[i]) IN met

\* An override that is no dictionary in place of one wins at its own path and below
\* it; null leaves nothing there; and elsewhere nothing changes.
Overlays(left, right) ==
    LET merged == Merge(left, right)
    IN \A p \in Paths :
         LET n == Len(p)
             l == Along(left, p)
             r == Along(right, p)
             m == Along(merged, p)
         IN IF r[n] = Null /\ IsDict(l[n - 1]) THEN m[n] = Gone
            ELSE IF \E i \in 1..n : r[i] # Gone /\ ~(IsDict(l[i]) /\ IsDict(r[i])) THEN m[n] = r[n]
            ELSE IF IsDict(l[n]) /\ IsDict(r[n]) THEN IsDict(m[n])
            ELSE m[n] = l[n]
=============================================================================
