------------------------------ MODULE MCWriters ------------------------------
(***************************************************************************)
(* Values, documents and options for the writers.                           *)
(***************************************************************************)
EXTENDS Writers

L == INSTANCE Layouts
E == INSTANCE Encoder

CONSTANTS Depth, Steps

Word == E!Leaf("word")
Pair(k, v) == <<k, v>>
\* Where a value can stand: an item, a value, a key, under a tag, after a null.
Around(v) ==
    {E!Sequence(<<v, Word>>), E!Sequence(<<Word, v>>),
     E!Mapping(<<Pair(Word, v), Pair(E!Leaf("comma"), E!Leaf("comma"))>>),
     E!Mapping(<<Pair(E!Leaf("spaced"), E!Leaf("spaced")), Pair(Word, v)>>),
     E!Mapping(<<Pair(v, E!Null), Pair(Word, Word)>>),
     E!Mapping(<<Pair(Word, E!Null), Pair(v, Word)>>)}
    \union (IF v.k = "tagged" THEN {} ELSE {E!Tagged(v), E!Mapping(<<Pair(Word, E!Tagged(v))>>)})
Cores == {E!Leaf(k) : k \in E!Strings} \union {E!Null, E!Sequence(<<>>), E!Mapping(<<>>)}
RECURSIVE ValuesOf(_)
ValuesOf(n) == IF n = 0 THEN Cores ELSE LET less == ValuesOf(n - 1) IN less \union UNION {Around(v) : v \in less}

Plainly == [step |-> 2, flow |-> FALSE, null |-> "empty", indentless |-> FALSE, wrap |-> FALSE,
            start |-> FALSE, end |-> FALSE]
Options == {
    Plainly,
    [Plainly EXCEPT !.indentless = TRUE, !.start = TRUE],
    [Plainly EXCEPT !.step = 4, !.null = "null", !.end = TRUE],
    [Plainly EXCEPT !.flow = TRUE, !.wrap = TRUE],
    [Plainly EXCEPT !.step = 4, !.indentless = TRUE, !.wrap = TRUE, !.start = TRUE, !.end = TRUE]}

\* A null under a tag and spelled out is read as a text (known).
SpellsTaggedNull(out) ==
    \E i, j \in DOMAIN out :
        /\ out[i].cls = "!" /\ out[j].arg = "null"
        /\ j = i + 1 \/ (j = i + 2 /\ out[i + 1].cls = "&")

\* The two disagree on where the lines of a tagged literal block in a list stand,
\* unless a level is two columns (known).
TaggedBlockItem(out) ==
    \E i \in 3 .. Len(out) : out[i - 2].cls = "-" /\ out[i - 1].cls = "!" /\ out[i].cls = "blockscalar"

\* dumps(), and whether dumps(represent=...) writes the same.
DumpConfig(o) == [step |-> o.step, listStep |-> TRUE, indentless |-> o.indentless, wrap |-> o.wrap,
                  null |-> o.null, end |-> o.end]
Dumped(v, o) ==
    LET out == E!Encode(v, o)
    IN  Text("dumps", out, L!Outline(v),
             \/ o.wrap \/ (o.step # 2 /\ TaggedBlockItem(out))
             \/ L!Emit(L!Lower(v, o, FALSE, FALSE), o.start, DumpConfig(o)) = out)
-----------------------------------------------------------------------------
(***************************************************************************)
(* Documents: a text of some layout, with a mark or two in it, and an edit. *)
(***************************************************************************)
AroundPlaced(v) ==
    {E!Sequence(<<v>>), E!Sequence(<<Word, v>>),
     E!Mapping(<<Pair(Word, v), Pair(Word, Word)>>),
     E!Mapping(<<Pair(E!Leaf("spaced"), E!Null), Pair(Word, v)>>)}
PlacedCores == {Word, E!Null, E!Leaf("lines"), E!Leaf("comma")}
RECURSIVE PlacedValues(_)
PlacedValues(n) == IF n = 0 THEN PlacedCores ELSE UNION {AroundPlaced(v) : v \in PlacedValues(n - 1)}

\* How the texts are laid out.  One column a level is a case of its own: the lines
\* of a block scalar are kept where they stood, and their key is not.
Layouts == {s \in {[step |-> 1, list |-> 0, body |-> 1], [step |-> 2, list |-> 0, body |-> 1],
                   [step |-> 4, list |-> 2, body |-> 2]} : s.step \in Steps}

MarkedIn(tree, p) ==
    LET n == L!At(tree, p)
        item == p # <<>> /\ ~L!IsKey(p) /\ L!At(tree, Front(p)).kind = "sequence"
        flushList == L!IsBlock(n) /\ n.kind = "sequence" /\ ~item
    IN  (IF flushList THEN {} ELSE {[n EXCEPT !.tag = TRUE]})
        \union {[n EXCEPT !.anchor = TRUE]}
        \union (IF L!IsKey(p) THEN {[n EXCEPT !.explicit = TRUE]}
                 ELSE IF p = <<>> THEN {}
                 ELSE {[n EXCEPT !.comment = TRUE]}
                      \union (IF n.kind = "scalar" /\ n.raw = 0 THEN {[n EXCEPT !.comment = TRUE, !.below = TRUE]} ELSE {}))
        \union (IF n.kind \in L!Collections /\ \A m \in L!Nodes(n) : m.raw = 0
                 THEN {[n EXCEPT !.style = "flow"]} ELSE {})
        \union (IF item /\ n.kind = "sequence" THEN {[n EXCEPT !.compact = TRUE]} ELSE {})
OneMark(tree) == {L!With(tree, p, n) : <<p, n>> \in UNION {{<<q, m>> : m \in MarkedIn(tree, q)} : q \in L!Places(tree)}}
\* An anchor in an entry before the last, and an alias of it for the last.
Aliased(tree) ==
    LET anchored(p) == [L!At(tree, p) EXCEPT !.anchor = TRUE]
    IN  {L!With(L!With(tree, p, anchored(p)), <<Len(tree.kids)>>, L!Node("alias")) :
            p \in {q \in L!Places(tree) : q # <<>> /\ q[1] < Len(tree.kids)}}
HasAlias(tree) == \E n \in L!Nodes(tree) : n.kind = "alias"
Dangles(tree) == HasAlias(tree) /\ \A n \in L!Nodes(tree) : ~n.anchor
NewValues == {E!Null, E!Leaf("comma"), E!Sequence(<<E!Mapping(<<Pair(Word, Word)>>)>>)}
Edits(tree) ==
    LET values == {p \in L!Places(tree) : p # <<>> /\ ~L!IsKey(p)}
    IN  {L!SetChild(tree, p, v) : p \in values, v \in NewValues}
        \union {L!DelChild(tree, p) : p \in values}
        \union {L!PushChild(tree, p, Word, E!Null) : p \in {q \in L!Places(tree) : L!At(tree, q).kind = "mapping"}}

(***************************************************************************)
(* What is known to be lost: a tagged list that comes to stand at its key's *)
(* own column; the mark of a key that follows a null; and a null under a    *)
(* tag and spelled out.                                                     *)
(***************************************************************************)
FlushTagged(n) == n.kind = "sequence" /\ n.tag /\ n.synthetic
Written == [step |-> 2, listStep |-> FALSE, indentless |-> FALSE, wrap |-> FALSE, null |-> "empty", end |-> FALSE]
RECURSIVE EndsInNull(_)
EndsInNull(n) ==
    IF n.kind = "mapping" /\ L!IsBlock(n)
    THEN LET last == Last(n.kids)[2] IN L!IsEmpty(last, Written) \/ EndsInNull(last)
    ELSE n.kind = "sequence" /\ L!IsBlock(n) /\ EndsInNull(Last(n.kids))
NullThenMark(n) ==
    /\ n.kind = "mapping"
    /\ \E i \in 2 .. Len(n.kids) :
         /\ L!Marked(n.kids[i][1])
         /\ L!IsEmpty(n.kids[i - 1][2], Written) \/ EndsInNull(n.kids[i - 1][2])
Lost(tree) == \E n \in L!Nodes(tree) : FlushTagged(n) \/ NullThenMark(n)

Saved(tree) == Text("document", L!Emit(tree, FALSE, Written), L!OutlineOf(tree), TRUE)

\* By the value, and by the tree before its edit.
TheTexts ==
    LET dumped == {{Dumped(v, o) : o \in Options} : v \in ValuesOf(Depth)}
        trees == UNION {LET loaded == L!Loaded(v, s) IN {loaded} \union OneMark(loaded) \union Aliased(loaded) :
                           v \in PlacedValues(2), s \in Layouts}
        edited == {{Saved(e) : e \in {e \in Edits(tree) : ~Dangles(e) /\ ~Lost(e)}} : tree \in trees}
    IN  {{t \in texts : ~SpellsTaggedNull(t.out)} : texts \in dumped \union edited}
=============================================================================
