---------------------------- MODULE ValueChanges ----------------------------
(* changes() of scripts/check-hub-production.py.                            *)
EXTENDS ValueTrees, Naturals, Sequences

CONSTANT Compared   \* the trees compared, with the trees in them

Inner(v) ==
    IF IsLeaf(v) THEN {}
    ELSE IF IsList(v) THEN { v.items[i] : i \in DOMAIN v.items }
    ELSE { v[k] : k \in DOMAIN v }

ASSUME ComparedAssumption ==
    \A v \in Compared :
        /\ v = [k \in DOMAIN v |-> v[k]] /\ (IsList(v) => v.items \in Seq(Compared))
        /\ Depth(v) \in Nat /\ \A w \in Inner(v) : w \in Compared /\ Depth(w) < Depth(v)

\* It yields no path.  A subset lets the object have keys nobody asked for.
agrees[want \in Compared] ==
    [have \in Compared |->
        [subset \in BOOLEAN |->
            IF IsDict(want) /\ IsDict(have)
            THEN \A k \in IF subset /\ want # Empty THEN DOMAIN want ELSE DOMAIN want \cup DOMAIN have :
                    k \in DOMAIN want \cap DOMAIN have /\ agrees[want[k]][have[k]][subset]
            ELSE IF IsList(want) /\ IsList(have)
            THEN /\ Len(want.items) = Len(have.items)
                 /\ \A i \in 1..Len(want.items) : agrees[want.items[i]][have.items[i]][subset]
            ELSE want = have]]

Agree(want, have, subset) == agrees[want][have][subset]
=============================================================================
