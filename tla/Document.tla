------------------------------- MODULE Document -------------------------------
(***************************************************************************)
(* A round-trip document edited in memory (src/roundtrip/document.rs,        *)
(* src/roundtrip/anchors.rs): values assigned and deleted, anchors named,    *)
(* aliases made and detached.  A node is found by its position; cursors and  *)
(* views address it by a path of keys and indices, which reaches the last    *)
(* entry of a key a mapping holds twice.                                     *)
(*                                                                           *)
(* A call that raises changes nothing and is no step.  Keys are plain        *)
(* scalars without anchors; the stream has one document.                     *)
(***************************************************************************)
EXTENDS Trees, FiniteSetsExt

CONSTANTS
    Names, Keys,
    Docs,       \* the documents to begin with
    Assigned,   \* the values that may be assigned, as trees
    NoName, Null,
    MaxEdits    \* bound: edits of a document

VARIABLES
    doc,
    loaded,     \* the document as it was read: what its source text says
    edits

vars == <<doc, loaded, edits>>

\* val: the text of a scalar, the name of an alias; tagged: it carries a tag.
Node(kind, keys, val) ==
    [kind |-> kind, keys |-> keys, val |-> val, anchor |-> NoName, tagged |-> FALSE, modified |-> FALSE]
Scalar(v) == Node("scalar", <<>>, v)
Mapping(keys) == Node("map", keys, Null)
Sequence == Node("seq", <<>>, Null)
Alias(name) == Node("alias", <<>>, name)
Leaf(node) == [r \in {<<>>} |-> node]

Kinds == {"scalar", "map", "seq", "alias"}
IsNode(n) ==
    /\ n \in [kind : Kinds, keys : Seq(Keys), val : {n.val}, anchor : Names \union {NoName},
              tagged : BOOLEAN, modified : BOOLEAN]
    /\ n.kind = "alias" => n.val \in Names
\* Each node but the root is an entry or an item of the one above it.
IsTree(d) ==
    /\ DOMAIN d \subseteq Seq(Nat) /\ IsFiniteSet(DOMAIN d) /\ <<>> \in DOMAIN d
    /\ d = [p \in DOMAIN d |-> d[p]]
    /\ \A p \in DOMAIN d : IsNode(d[p])
    /\ \A p \in DOMAIN d \ {<<>>} :
        /\ Front(p) \in DOMAIN d /\ d[Front(p)].kind \in {"map", "seq"}
        /\ d[Front(p)].kind = "map" => Last(p) \in DOMAIN d[Front(p)].keys

DistinctKeys(d) == \A p \in DOMAIN d : IsInjective(d[p].keys)

\* A value that is assigned is made of Python objects: it has no anchor and no alias, and
\* no key twice.
ASSUME DocumentAssumption ==
    /\ NoName \notin Names /\ MaxEdits \in Nat
    /\ \A d \in Docs : IsTree(d)
    /\ \A tree \in Assigned :
        /\ IsTree(tree) /\ DistinctKeys(tree)
        /\ \A p \in DOMAIN tree : tree[p].anchor = NoName /\ tree[p].kind # "alias"
-----------------------------------------------------------------------------
\* PathSeg: how its container addresses the node at p.
Segment(d, p) ==
    IF d[Front(p)].kind = "map" THEN d[Front(p)].keys[Last(p)] ELSE Last(p)
Path(d, p) == [i \in DOMAIN p |-> Segment(d, SubSeq(p, 1, i))]

Siblings(d, p) == {q \in DOMAIN d \ {<<>>} : Front(q) = Front(p)}
Children(d, p) == {Last(q) : q \in {q \in DOMAIN d \ {<<>>} : Front(q) = p}}

\* child_ref: of the entries with one key the last is reached.
Reached(d) ==
    {p \in DOMAIN d : \A i \in DOMAIN p :
        LET step == SubSeq(p, 1, i)
        IN  \A q \in Siblings(d, step) : Last(q) > Last(step) => Segment(d, q) # Segment(d, step)}
\* resolve_path.
Resolve(d, path) == CHOOSE p \in Reached(d) : Path(d, p) = path

\* Document order.
Before(p, q) ==
    \/ IsStrictPrefix(p, q)
    \/ \E i \in DOMAIN p \intersect DOMAIN q :
        SubSeq(p, 1, i - 1) = SubSeq(q, 1, i - 1) /\ p[i] < q[i]

Definitions(d, name) == {p \in DOMAIN d : d[p].anchor = name}
\* walk_anchor, collect_anchor_refs: the first one wins.
Definition(d, name) ==
    CHOOSE p \in Definitions(d, name) : \A q \in Definitions(d, name) \ {p} : Before(p, q)
Aliases(d) == {p \in DOMAIN d : d[p].kind = "alias"}
\* dangling_alias_names.
Dangling(d) == {name \in {d[p].val : p \in Aliases(d)} : Definitions(d, name) = {}}

\* seg_order: where a segment first occurs; a missing key sorts last.
Order(d, p, seg) ==
    IF d[p].kind # "map" THEN seg
    ELSE Min({i \in DOMAIN d[p].keys : d[p].keys[i] = seg} \union {Len(d[p].keys) + 1})

\* path_precedes, on paths.
Precedes(d, a, b) ==
    LET shared == LongestCommonPrefix({a, b})
        at == Resolve(d, shared)
        n == Len(shared)
    IN  n < Len(b) /\ (n = Len(a) \/ Order(d, at, a[n + 1]) < Order(d, at, b[n + 1]))
-----------------------------------------------------------------------------
Init == doc \in Docs /\ loaded = doc /\ edits = 0

Edit == edits < MaxEdits /\ edits' = edits + 1 /\ UNCHANGED loaded

\* set_value, and set_child where the entry or item exists: the anchor and the
\* tag stay on the new value, all below goes.
Replace(p, tree) ==
    /\ Edit /\ p \in Reached(doc)
    /\ LET root == [tree[<<>>] EXCEPT !.anchor = doc[p].anchor, !.tagged = doc[p].tagged, !.modified = TRUE]
       IN  doc' = Graft(doc, p, [tree EXCEPT ![<<>>] = root])

\* set_child with a key the mapping has not.
AddEntry(p, key, tree) ==
    /\ Edit /\ p \in Reached(doc) /\ doc[p].kind = "map" /\ key \notin ToSet(doc[p].keys)
    /\ LET keys == Append(doc[p].keys, key)
       IN  doc' = Graft([doc EXCEPT ![p].keys = keys], Append(p, Len(keys)),
                        [tree EXCEPT ![<<>>].modified = TRUE])

\* The numbers in a set, in their order.
Ascending(S) == CHOOSE f \in [1 .. Cardinality(S) -> S] : \A i, j \in DOMAIN f : i < j => f[i] < f[j]
\* The container at p without its children numbered in gone: of its node, the keys
\* that are kept, and the mark; of the others, those that are not below what goes.
WithoutChildren(d, p, gone) ==
    LET kept == Ascending(Children(d, p) \ gone)
        container == [d[p] EXCEPT !.keys = IF d[p].kind = "map" THEN [j \in DOMAIN kept |-> d[p].keys[kept[j]]] ELSE <<>>,
                                  !.modified = TRUE]
        Moved(j) == {Append(p, j) \o r : r \in DOMAIN Subtree(d, Append(p, kept[j]))}
        From(q) == Append(p, kept[q[Len(p) + 1]]) \o SubSeq(q, Len(p) + 2, Len(q))
    IN  [q \in {q \in DOMAIN d : ~IsStrictPrefix(p, q)} \union UNION {Moved(j) : j \in DOMAIN kept} |->
            IF q = p THEN container ELSE IF IsPrefix(p, q) THEN d[From(q)] ELSE d[q]]

\* del_child: every entry with the key goes, or the one item.
Deleted(d, p) ==
    WithoutChildren(d, Front(p), {Last(q) : q \in {q \in Siblings(d, p) : Segment(d, q) = Segment(d, p)}})

\* Mutant: the guard compares nothing.
Delete_Unguarded(p) ==
    /\ Edit /\ p \in Reached(doc) \ {<<>>}
    /\ doc' = Deleted(doc, p)

\* __delitem__: the snapshot is put back if the delete left an alias without its
\* anchor that had one before.
Delete(p) ==
    /\ Edit /\ p \in Reached(doc) \ {<<>>}
    /\ Dangling(Deleted(doc, p)) \subseteq Dangling(doc)
    /\ doc' = Deleted(doc, p)

\* set_anchor: the name must not be another node's.
SetAnchor(p, name) ==
    /\ Edit /\ p \in Reached(doc)
    /\ name # NoName /\ Definitions(doc, name) # {} =>
           Path(doc, Definition(doc, name)) = Path(doc, p)
    /\ doc' = [doc EXCEPT ![p] = [@ EXCEPT !.anchor = name, !.modified = TRUE]]

ToAlias(d, p, name) ==
    Graft(d, p, Leaf([d[p] EXCEPT !.kind = "alias", !.keys = <<>>, !.val = name,
                                  !.anchor = NoName, !.modified = TRUE]))
\* Mutants: the alias may be within its anchor; the change is not marked.
MakeAlias_InAncestor(p, name) ==
    /\ Edit /\ p \in Reached(doc) /\ Definitions(doc, name) # {}
    /\ Precedes(doc, Path(doc, Definition(doc, name)), Path(doc, p))
    /\ doc' = ToAlias(doc, p, name)
MakeAlias_Unmarked(p, name) ==
    /\ Edit /\ p \in Reached(doc) /\ Definitions(doc, name) # {}
    /\ LET anchor == Path(doc, Definition(doc, name))
       IN  ~IsPrefix(anchor, Path(doc, p)) /\ Precedes(doc, anchor, Path(doc, p))
    /\ doc' = [ToAlias(doc, p, name) EXCEPT ![p].modified = doc[p].modified]

\* make_alias: the anchor is before the alias and not around it.
MakeAlias(p, name) ==
    /\ Edit /\ p \in Reached(doc) /\ Definitions(doc, name) # {}
    /\ LET anchor == Path(doc, Definition(doc, name))
       IN  ~IsPrefix(anchor, Path(doc, p)) /\ Precedes(doc, anchor, Path(doc, p))
    /\ doc' = ToAlias(doc, p, name)
-----------------------------------------------------------------------------
\* Every alias whose name is defined comes after its definition, and not in it.
PointsBack(d, p) ==
    LET q == Definition(d, d[p].val) IN Before(q, p) /\ ~IsPrefix(q, p)
AliasesPointBack(d) ==
    \A p \in Aliases(d) : Definitions(d, d[p].val) # {} => PointsBack(d, p)

\* Mutants: the copy keeps its anchors; the aliases in it come to nothing.
DetachedClone_KeepsAnchors(d, p) == Subtree(d, Definition(d, d[p].val))
DetachedClone_OneLevel(d, p) ==
    LET tree == Subtree(d, Definition(d, d[p].val))
    IN  [q \in DOMAIN tree |-> IF tree[q].kind = "alias" THEN Scalar(Null) ELSE [tree[q] EXCEPT !.anchor = NoName]]

\* The copy of a node, made of the copies of what it leads to.
Copied(d, q, copies) ==
    IF d[q].kind = "alias"
    THEN IF Definitions(d, d[q].val) = {} THEN Leaf(Scalar(Null)) ELSE copies[Definition(d, d[q].val)]
    ELSE [r \in {<<>>} \union UNION {{<<i>> \o s : s \in DOMAIN copies[Append(q, i)]} : i \in Children(d, q)} |->
             IF r = <<>> THEN [d[q] EXCEPT !.anchor = NoName] ELSE copies[Append(q, r[1])][Tail(r)]]
\* detached_clone: a copy without anchors, the aliases in it replaced by copies
\* of what they name.  Its calls are no deeper than the document has nodes.
DetachedClone(d, p) ==
    LET n == Cardinality(DOMAIN d)
        clone[k \in 0 .. n] ==
            [q \in DOMAIN d |-> IF k = 0 THEN Leaf(Scalar(Null)) ELSE Copied(d, q, clone[k - 1])]
    IN  clone[n][p]

\* detach.  An alias that leads back to itself is unrolled to a depth the model
\* has no need of: it is detached only where all aliases point back.
Detach(p) ==
    /\ Edit /\ p \in Reached(doc) \intersect Aliases(doc)
    /\ Definitions(doc, doc[p].val) # {} /\ AliasesPointBack(doc)
    /\ doc' = Graft(doc, p, [DetachedClone(doc, p) EXCEPT ![<<>>].modified = TRUE])

Next ==
    \E p \in DOMAIN doc :
        \/ \E tree \in Assigned : Replace(p, tree)
        \/ \E tree \in Assigned, key \in Keys : AddEntry(p, key, tree)
        \/ Delete(p)
        \/ \E name \in Names \union {NoName} : SetAnchor(p, name)
        \/ \E name \in Names : MakeAlias(p, name)
        \/ Detach(p)

Spec == Init /\ [][Next]_vars
-----------------------------------------------------------------------------
TypeOK == edits \in 0 .. MaxEdits /\ loaded \in Docs /\ IsTree(doc)

DistinctAnchors(d) == \A name \in Names : Cardinality(Definitions(d, name)) <= 1

\* compose refuses an alias with a tag or an anchor, and one whose anchor has not
\* been read before it.
Composes(d) ==
    \A p \in Aliases(d) :
        /\ ~d[p].tagged /\ d[p].anchor = NoName
        /\ \E q \in Definitions(d, d[p].val) : Before(q, p) /\ ~IsPrefix(q, p)

\* "so the document can never emit two `&name` definitions": names stay unique
\* over every mix of edits that copy, move, rename and drop anchored nodes.
AnchorsStayUnique ==
    DistinctKeys(loaded) /\ DistinctAnchors(loaded) => DistinctAnchors(doc)

\* No edit makes an alias point forward, or at a node it is in, as long as none
\* dangles: expanding the document ends, whatever is moved or renamed.
AliasesKeepPointingBack ==
    [][DistinctKeys(doc) /\ DistinctAnchors(doc) /\ Dangling(doc) = {} /\ AliasesPointBack(doc)
        => AliasesPointBack(doc')]_vars

\* "the result would not re-parse": a document that composes still does after a
\* delete, a new entry or a detach.
DeletesKeepComposing ==
    [][DistinctAnchors(doc) /\ Composes(doc)
       /\ (\E p \in DOMAIN doc :
            Delete(p) \/ Detach(p) \/ \E tree \in Assigned, key \in Keys : AddEntry(p, key, tree))
        => Composes(doc')]_vars

\* to_dict: the plain value, each alias resolved.
PlainValue(d) ==
    LET value[p \in DOMAIN d] ==
            CASE d[p].kind = "alias" -> value[Definition(d, d[p].val)]
              [] d[p].kind = "map" ->
                    [k \in ToSet(d[p].keys) |-> value[Append(p, Max({i \in DOMAIN d[p].keys : d[p].keys[i] = k}))]]
              [] d[p].kind = "seq" -> [i \in Children(d, p) |-> value[Append(p, i)]]
              [] OTHER -> d[p].val
    IN  value[<<>>]

\* A detached alias means what it meant, and so does the rest of the document.
DetachKeepsValue ==
    [][DistinctAnchors(doc) /\ Composes(doc) /\ (\E p \in DOMAIN doc : Detach(p))
        => PlainValue(doc') = PlainValue(doc)]_vars

\* root_bytes writes the source text while no node is marked: then the tree is
\* what was read, also after edits of nodes that were deleted or replaced since.
UnmarkedIsUnchanged == (\A p \in DOMAIN doc : ~doc[p].modified) => doc = loaded
=============================================================================
