----------------------------- MODULE ValueTrees -----------------------------
(* Helm values and Kubernetes objects: a value tree is a leaf [leaf |-> n], *)
(* a list [items |-> sequence] or a function from keys to trees.            *)
CONSTANT Depth(_)                            \* of a tree: more than of those in it

Leaf(n)   == [leaf |-> n]
Null      == Leaf(100)
IsLeaf(t) == DOMAIN t = {"leaf"}
IsList(t) == DOMAIN t = {"items"}
IsDict(t) == ~IsLeaf(t) /\ ~IsList(t)
Empty     == [k \in {} |-> Null]
Gone      == Leaf(101)                       \* the object is not there
=============================================================================
