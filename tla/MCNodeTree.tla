---- MODULE MCNodeTree ----
(* Few nodes: enough for a tree of two levels, its copy or a namesake, and    *)
(* every order of the operations on them.  Addresses are interchangeable.     *)
EXTENDS NodeTree, TLC

Segments == Name \cup {Empty}
ShortPaths == {<<>>} \cup {<<s>> : s \in Segments}
                \cup {<<s, t>> : s, t \in Segments}
                \cup {<<s, t, u>> : s, t, u \in Segments}
Addresses == Permutations(Node)
====
