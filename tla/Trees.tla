-------------------------------- MODULE Trees ---------------------------------
(***************************************************************************)
(* Trees as functions: each node is found at the path that leads to it from *)
(* the root, the empty sequence.                                            *)
(***************************************************************************)
EXTENDS Naturals, FiniteSets, SequencesExt, Functions

\* A tree of one node.
Single(node) == [p \in {<<>>} |-> node]

Under(tree, p) == {q \in DOMAIN tree : IsPrefix(p, q)}
Prune(tree, p) == Restrict(tree, DOMAIN tree \ Under(tree, p))
Subtree(tree, p) == [r \in {SubSeq(q, Len(p) + 1, Len(q)) : q \in Under(tree, p)} |-> tree[p \o r]]
Graft(tree, p, sub) ==
    [q \in DOMAIN Prune(tree, p) \union {p \o r : r \in DOMAIN sub} |->
        IF IsPrefix(p, q) THEN sub[SubSeq(q, Len(p) + 1, Len(q))] ELSE tree[q]]
=============================================================================
