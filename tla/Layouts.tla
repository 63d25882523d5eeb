------------------------------- MODULE Layouts -------------------------------
(***************************************************************************)
(* The trees the document writer is given: one lowered from a value by      *)
(* dumps(represent=...) (src/ffi/represent.rs), and one loaded from a text  *)
(* of some layout (src/roundtrip/composer.rs), then edited                  *)
(* (src/roundtrip/document.rs, value.rs).                                   *)
(***************************************************************************)
EXTENDS Emitter, FiniteSets

E == INSTANCE Encoder

\* auto_string_style, which is also how an assigned string is written but for
\* "lines", and flow_safe_style.
StringStyle(k) == CASE k = "lines" -> "literal" [] k = "quoted" -> "quoted" [] OTHER -> "plain"
InlineStyle(style) == IF style = "literal" THEN "quoted" ELSE style

\* Mutant: a collection key keeps the style of the document.
Flowing_KeysToo(o, inFlow, inKey) == inFlow \/ o.flow
\* flowing: a key is inline, and all that is in a flow collection.
Flowing(o, inFlow, inKey) == inFlow \/ inKey \/ o.flow

\* Lower, and value_to_node for its leaves: every node is synthetic.
RECURSIVE Lower(_, _, _, _)
Lower(v, o, inFlow, inKey) ==
    LET flow == Flowing(o, inFlow, inKey)
        style == IF flow THEN "flow" ELSE "block"
        built(n) == [n EXCEPT !.synthetic = TRUE]
    IN  CASE v.k = "null" -> built(Node("null"))
          [] v.k \in E!Strings ->
                built(Scalar(IF inFlow \/ inKey THEN InlineStyle(StringStyle(v.k)) ELSE StringStyle(v.k), v.k))
          [] v.k = "sequence" ->
                built([Node("sequence") EXCEPT !.style = style,
                       !.kids = [i \in DOMAIN v.items |-> Lower(v.items[i], o, flow, FALSE)]])
          [] v.k = "mapping" ->
                built([Node("mapping") EXCEPT !.style = style,
                       !.kids = [i \in DOMAIN v.pairs |-> <<Lower(v.pairs[i][1], o, flow, TRUE),
                                                             Lower(v.pairs[i][2], o, flow, FALSE)>>]])
          [] v.k = "tagged" -> [Lower(v.of, o, inFlow, inKey) EXCEPT !.tag = TRUE]
-----------------------------------------------------------------------------
\* A text's layout: "step", how far the keys of a mapping stand inside their
\* parent's; "list", how far a dash past its key; "body", how far the lines of a
\* block scalar past the level they are in.  What the composer keeps of it is
\* the column of a list and the lines of a block scalar.
RECURSIVE Placed(_, _, _, _)
Placed(v, level, col, s) ==
    CASE v.k = "null" -> Node("null")
      [] v.k = "lines" -> [Scalar("literal", "lines") EXCEPT !.raw = level + s.body]
      [] v.k \in E!Strings -> Scalar(StringStyle(v.k), v.k)
      [] v.k = "sequence" ->
            [Node("sequence") EXCEPT !.column = col,
             !.kids = [i \in DOMAIN v.items |-> Placed(v.items[i], col, col + 2, s)]]
      [] v.k = "mapping" ->
            [Node("mapping") EXCEPT !.column = col,
             !.kids = [i \in DOMAIN v.pairs |->
                <<Scalar("plain", v.pairs[i][1].k),
                  Placed(v.pairs[i][2], col, col + (IF v.pairs[i][2].k = "sequence" THEN s.list ELSE s.step), s)>>]]
Loaded(v, s) == Placed(v, -1, 0, s)

\* Places in a tree: the index of an item or pair at each level, and at the end
\* of one 0 for the key of a pair.
RECURSIVE Places(_), At(_, _), With(_, _, _)
Places(n) ==
    {<<>>} \union UNION {
        {<<i>> \o p : p \in Places(EntryValue(n, i))} \union
        (IF n.kind = "mapping" THEN {<<i, 0>>} ELSE {}) : i \in DOMAIN n.kids}
At(n, p) ==
    IF p = <<>> THEN n
    ELSE IF Len(p) = 2 /\ p[2] = 0 THEN n.kids[p[1]][1]
    ELSE At(EntryValue(n, p[1]), Tail(p))
With(n, p, m) ==
    IF p = <<>> THEN m
    ELSE IF Len(p) = 2 /\ p[2] = 0 THEN [n EXCEPT !.kids[p[1]][1] = m]
    ELSE IF n.kind = "mapping" THEN [n EXCEPT !.kids[p[1]][2] = With(@, Tail(p), m)]
    ELSE [n EXCEPT !.kids[p[1]] = With(@, Tail(p), m)]
Nodes(n) == {At(n, p) : p \in Places(n)}
IsKey(p) == p # <<>> /\ Last(p) = 0
-----------------------------------------------------------------------------
\* python_to_node: a string is never a literal block, collections are block.
RECURSIVE Assigned(_)
Assigned(v) ==
    CASE v.k = "null" -> [Node("null") EXCEPT !.synthetic = TRUE]
      [] v.k \in E!Strings -> [Scalar(InlineStyle(StringStyle(v.k)), v.k) EXCEPT !.synthetic = TRUE]
      [] v.k = "sequence" ->
            [Node("sequence") EXCEPT !.synthetic = TRUE,
             !.kids = [i \in DOMAIN v.items |-> Assigned(v.items[i])]]
      [] v.k = "mapping" ->
            [Node("mapping") EXCEPT !.synthetic = TRUE,
             !.kids = [i \in DOMAIN v.pairs |-> <<Assigned(v.pairs[i][1]), Assigned(v.pairs[i][2])>>]]

\* set_child keeps the marks and the comments of what it replaces.
SetChild(tree, p, v) ==
    LET old == At(tree, p)
    IN  With(tree, p, [Assigned(v) EXCEPT !.tag = old.tag, !.anchor = old.anchor,
                                         !.comment = old.comment, !.below = old.below])
\* A key that is not there is added last.
PushChild(tree, p, k, v) ==
    With(tree, p, [At(tree, p) EXCEPT !.kids = Append(@, <<Assigned(k), Assigned(v)>>)])
\* del_child.
DelChild(tree, p) ==
    With(tree, Front(p), [At(tree, Front(p)) EXCEPT !.kids = RemoveAt(@, Last(p))])
-----------------------------------------------------------------------------
\* What a reader is to make of a value and of a tree: a scalar is its text, and
\* a node's tag and anchor are told when it is complete.
RECURSIVE Outline(_), OutlineOf(_)
Concatenated(n, F(_)) == FlattenSeq([i \in 1 .. n |-> F(i)])
Outline(v) ==
    CASE v.k = "null" -> <<"null">>
      [] v.k \in E!Strings -> <<v.k>>
      [] v.k = "sequence" -> <<"sequence">> \o Concatenated(Len(v.items), LAMBDA i : Outline(v.items[i])) \o <<"end">>
      [] v.k = "mapping" ->
            <<"mapping">> \o Concatenated(Len(v.pairs), LAMBDA i : Outline(v.pairs[i][1]) \o Outline(v.pairs[i][2]))
            \o <<"end">>
      [] v.k = "tagged" -> Append(Outline(v.of), "tag")
OutlineOf(n) ==
    (CASE n.kind = "null" -> <<"null">>
       [] n.kind = "alias" -> <<"alias">>
       [] n.kind = "scalar" -> <<n.arg>>
       [] n.kind = "sequence" -> <<"sequence">> \o Concatenated(Len(n.kids), LAMBDA i : OutlineOf(n.kids[i])) \o <<"end">>
       [] n.kind = "mapping" ->
            <<"mapping">> \o Concatenated(Len(n.kids), LAMBDA i : OutlineOf(n.kids[i][1]) \o OutlineOf(n.kids[i][2]))
            \o <<"end">>)
    \o (IF n.tag THEN <<"tag">> ELSE <<>>) \o (IF n.anchor THEN <<"anchor">> ELSE <<>>)
=============================================================================
