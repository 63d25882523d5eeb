----------------------------- MODULE ConfigTree ------------------------------
(***************************************************************************)
(* A configuration split over files, as src/include/mod.rs resolves it and  *)
(* src/roundtrip/emit.rs writes it back.  A document maps each path in it   *)
(* to a cell: a mapping, a value, or a directive that stands for other      *)
(* files.  A tree maps each path of the resolved document to a node: its    *)
(* cell, and where it came from.                                            *)
(***************************************************************************)
EXTENDS Trees, FiniteSetsExt, TLC

CONSTANTS
    Files, Dirs,
    Members,    \* the files of each directory, sorted
    Rank        \* the order the keys of a mapping are written in

ASSUME ConfigTreeAssumption == Members \in [Dirs -> Seq(Files)]

NoSource == [kind |-> "none"]
Mapping == [kind |-> "map"]
Value(v) == [kind |-> "value", val |-> v]
Include(f) == [kind |-> "include", target |-> f]
IncludeDir(d) == [kind |-> "dir", target |-> d]
\* A file of a directory, before it is read.
Member(f) == [kind |-> "member", target |-> f]

\* source: the directive a resolved node replaced; cached: the text of the file
\* it named, as read; home: the file the node itself is written in.
Node(cell, file) ==
    [cell |-> cell, source |-> NoSource, cached |-> <<>>, home |-> file, modified |-> FALSE]
\* The node in the place of a directive.
InPlace(node, source, cached) ==
    [cell |-> node.cell, source |-> source, cached |-> cached, home |-> node.home,
     modified |-> node.modified]
Marked(node) == [node EXCEPT !.modified = TRUE]
Mark(tree, p) == [tree EXCEPT ![p] = Marked(@)]
Tree(doc, file) == [p \in DOMAIN doc |-> Node(doc[p], file)]
Cells(tree) == [p \in DOMAIN tree |-> tree[p].cell]

\* Document order.
Before(p, q) ==
    \/ IsStrictPrefix(p, q)
    \/ \E i \in DOMAIN p \intersect DOMAIN q :
        SubSeq(p, 1, i - 1) = SubSeq(q, 1, i - 1) /\ Rank[p[i]] < Rank[q[i]]
-----------------------------------------------------------------------------
Pending(tree) == {p \in DOMAIN tree : tree[p].cell.kind \in {"include", "dir", "member"}}
NextPending(tree) == {p \in Pending(tree) : \A q \in Pending(tree) \ {p} : Before(p, q)}

\* resolve_include, resolve_include_dir_*: the node at p is replaced by what the
\* directive names, the first document of a file.  The directive becomes its
\* source; where the document is a directive itself, the outer one stays.
ResolveAt(tree, p, disk) ==
    LET node == tree[p]
        cell == node.cell
        outer == node.source # NoSource
        source == IF outer THEN node.source ELSE IF cell.kind = "member" THEN NoSource ELSE cell
        cached == IF outer THEN node.cached ELSE IF cell.kind = "include" THEN disk[cell.target] ELSE <<>>
        listing == [q \in {<<>>} \union {<<f>> : f \in ToSet(Members[cell.target])} |->
                   IF q = <<>> THEN Mapping ELSE Member(q[1])]
        sub == IF cell.kind = "dir" THEN Tree(listing, node.home)
               ELSE Tree(disk[cell.target][1], cell.target)
    IN  Graft(tree, p, [sub EXCEPT ![<<>>] = InPlace(@, source, cached)])

\* The tree a document resolves to when nobody writes meanwhile.
Resolved(doc, file, disk) ==
    LET bound == Cardinality(Files) + Cardinality(Dirs)
        pass[n \in 0 .. bound] ==
            IF n = 0 THEN Tree(doc, file)
            ELSE FoldSet(LAMBDA p, tree : ResolveAt(tree, p, disk), pass[n - 1], Pending(pass[n - 1]))
    IN  pass[bound]
-----------------------------------------------------------------------------
\* The nodes written in the same file as p: those below it down to the next
\* directive, as local_modified and the emitter walk them.
Region(tree, p) ==
    {q \in Under(tree, p) :
        \A r \in Under(tree, p) : r # p /\ IsPrefix(r, q) => tree[r].source = NoSource}

LocalModified(tree, p) == \E q \in Region(tree, p) : tree[q].modified
NodeModified(tree) == \E q \in DOMAIN tree : tree[q].modified

\* walk_boundaries visits the nodes that replaced an !include of one file.
Boundaries(tree) == {p \in DOMAIN tree : tree[p].source.kind = "include"}

\* emit_include_target: p as a document of its own, deeper directives restored.
Text(tree, p) ==
    LET own == Region(tree, p)
        next == {q \in Under(tree, p) \ own : Front(q) \in own}
    IN  [r \in {SubSeq(q, Len(p) + 1, Len(q)) : q \in own \union next} |->
            IF p \o r \in own THEN tree[p \o r].cell ELSE tree[p \o r].source]

\* emit_roundtrip of a whole document; its root may stand for a file as well.
RootText(tree) ==
    IF tree[<<>>].source = NoSource THEN Text(tree, <<>>) ELSE Single(tree[<<>>].source)
=============================================================================
