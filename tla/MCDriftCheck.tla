---------------------------- MODULE MCDriftCheck ----------------------------
(* Small instances of DriftCheck for TLC.                                   *)
EXTENDS DriftCheck, FiniteSetsExt, TLC

CONSTANTS r1, r2

Rivals == Permutations(Run)

Twins == ("object" :> "seaweed") @@ ("seaweed" :> "object")

\* values.yaml, and overrides of it: of a leaf, in a dictionary, of a list,
\* with null, with the default itself.
Chart ==
    [ a |-> [c |-> Leaf(1), e |-> Leaf(2)], b |-> Leaf(3), accessKey |-> Leaf(Absent),
      hosts |-> [items |-> <<Leaf(5), Leaf(6)>>] ]

Overrides ==
    { Empty, [a |-> [c |-> Leaf(7)]], [a |-> [c |-> Null]], [a |-> [c |-> Leaf(1)], b |-> [c |-> Leaf(8)]],
      [hosts |-> [items |-> <<Leaf(5)>>]], [hosts |-> [items |-> <<Leaf(5), Leaf(9)>>]] }

Profile == [a |-> [c |-> Leaf(7), e |-> Null]]

AllTrees == Overrides \cup {Profile}

RECURSIVE DepthOf(_)
DepthOf(v) == IF Inner(v) = {} THEN 0 ELSE 1 + Max({ DepthOf(w) : w \in Inner(v) })

RECURSIVE Within(_)
Within(v) == {v} \cup UNION { Within(w) : w \in Inner(v) }

DictsOfTrees == { v \in UNION { Within(t) : t \in AllTrees \cup {Chart} } : IsDict(v) }

TreesOfCheck ==
    UNION { Within(v) :
              v \in {Wanted, Served(Wanted), Served(Shrunk)} \cup UNION { Handled(t) : t \in AllTrees } }

\* What the .cfg names; TLC evaluates this each time, and what it stands for once.
AllDicts    == DictsOfTrees
AllCompared == TreesOfCheck

ShortPaths == { <<"a">>, <<"b">>, <<"hosts">>, <<"a", "c">>, <<"a", "e">>, <<"b", "c">>, <<"a", "c", "e">> }

\* Either the Secrets are being filled for a release as the profile wants it, or
\* they are complete and the release varies.
Filling == live.plain = Profile /\ resource # Gone /\ ~offline

Odd == { k \in Required : main.data[k] = Redacted }

Scenario ==
    /\ Cardinality(Odd \ Fixed) + (IF clickhouse = Redacted THEN 1 ELSE 0) <= 1
    /\ Odd # {} \/ main.owner = "other" => Missing(main) = {}
    /\ \A k \in Fixed, l \in Derived : main.data[k] = main.data[l]     \* both or neither
    /\ \/ Filling
       \/ /\ Complete /\ pg /\ main.owner = "Helm"
          /\ live.plain # Profile => Odd = {} /\ clickhouse = Found

MCInit == Init /\ Scenario

\* The two are not mixed, one check sees one change, and what another manager
\* upset before it is seen by the initial states' checks; beside one the others come
\* before the invocations.  What the last release lists matters of a Secret that is
\* not ours.
MCNext ==
    /\ Next
    /\ ~Filling \/ edits > 0 => UNCHANGED bootVars
    /\ ~Complete \/ starts + upsets > 0 => UNCHANGED edits
    /\ at = "idle" /\ upsets > 0 => UNCHANGED at
    /\ at # "idle" /\ starts > 0 => UNCHANGED upsets
    /\ at = "done" \/ ~calm => UNCHANGED <<bootVars, edits>>
    /\ helm'.on /\ main.owner = "Helm" => helm'.listed

MCSpec == MCInit /\ [][MCNext]_vars
=============================================================================
