----------------------------- MODULE MCValidation ------------------------------
(***************************************************************************)
(* Documents and schemas for the validator.                                 *)
(***************************************************************************)
EXTENDS Validation

\* value_eq: 1 equals 1.0; mappings are sets of pairs.
RECURSIVE TheSameValue(_, _)
TheSameValue(a, b) ==
    \/ a = b
    \/ {a.k, b.k} = {"int", "whole"}
    \/ /\ a.k = b.k /\ a.k \in {"sequence", "mapping"} /\ Len(a.items) = Len(b.items)
       /\ a.k = "sequence" => \A i \in DOMAIN a.items : TheSameValue(a.items[i], b.items[i])
       /\ a.k = "mapping" => \A i \in DOMAIN a.items : \E j \in DOMAIN b.items :
                                a.keys[i] = b.keys[j] /\ TheSameValue(a.items[i], b.items[j])

One == Plain("int")
Seq2(a, b) == [Plain("sequence") EXCEPT !.items = <<a, b>>]
Map(keys, items) == [Plain("mapping") EXCEPT !.keys = keys, !.items = items]
Anchor(n) == [n EXCEPT !.anchor = "a"]
Documents ==
    {One, Plain("whole"), Plain("null"), Plain("sequence"),
     Seq2(One, Plain("whole")), Seq2(Plain("null"), One),
     Seq2(Anchor(One), Alias("a")),
     Seq2(Anchor(Map(<<"x">>, <<One>>)), Alias("a")),
     Map(<<"x", "y">>, <<One, Plain("null")>>),
     Map(<<"", "x">>, <<Plain("null"), Plain("whole")>>),
     Map(<<"x", "y">>, <<Anchor(Seq2(One, Plain("float"))), Alias("a")>>),
     Seq2(Anchor(One), Seq2([Seq2(One, Alias("a")) EXCEPT !.anchor = "b"], Alias("b"))),
     Seq2(Anchor(Seq2(One, One)), Seq2(Alias("a"), Seq2(Alias("a"), Alias("a")))),
     Map(<<"y">>, <<Map(<<"x">>, <<Plain("null")>>)>>)}

Of(types) == [Object EXCEPT !.type = types]
Simple == {Accept(FALSE), Of({"int", "whole"}), [Object EXCEPT !.enum = {Value(One), Value(Map(<<"x">>, <<One>>))}],
           [Object EXCEPT !.required = {"x"}, !.unique = TRUE], Ref("#"), Ref("a"), Ref("nowhere")}
Compound(s, t) == {
    [Object EXCEPT !.properties = <<<<"x", s>>>>, !.additional = t],
    [Object EXCEPT !.patterns = <<<<{"x"}, s>>>>, !.additional = t],
    [Object EXCEPT !.names = s, !.needs = <<<<"x", {"y"}>>>>],
    [Object EXCEPT !.dependent = <<<<"x", s>>>>, !.most = 1],
    [Object EXCEPT !.items = s, !.contains = t],
    [Object EXCEPT !.tuple = <<s>>, !.rest = t],
    [Object EXCEPT !.allOf = <<s, t>>],
    [Object EXCEPT !.anyOf = <<s, t>>],
    [Object EXCEPT !.oneOf = <<s, t>>],
    [Object EXCEPT !.not = s, !.refused = {Node("null")}]}
Second == {Of({"int", "whole"}), Ref("#"), Ref("a"),
           [Object EXCEPT !.items = Ref("#")], [Object EXCEPT !.not = Ref("a")],
           [Object EXCEPT !.allOf = <<Ref("a"), Ref("#")>>], [Object EXCEPT !.anyOf = <<Of({"null"}), Ref("#")>>],
           [Object EXCEPT !.dependent = <<<<"x", Ref("a")>>>>]}
\* What "a" names matters where something refers to it.
Refers(s, t) == s = Ref("a") \/ t = Ref("a")
\* The schema itself, and below a keyword that probes it.
Around(root) ==
    {[Object EXCEPT !.oneOf = <<root, Of({"int"})>>],
     [Object EXCEPT !.contains = root],
     [Object EXCEPT !.anyOf = <<root, Of({"mapping"})>>]}

\* The nodes the documents are expanded to, and the schemas, to the innermost.
RECURSIVE WithItems(_), WithParts(_)
WithItems(n) == {n} \union UNION {WithItems(n.items[i]) : i \in DOMAIN n.items}
WithParts(s) ==
    {s} \union (IF s.k # "object" THEN {} ELSE UNION {WithParts(sub) : sub \in
        ToSet(s.allOf) \union ToSet(s.anyOf) \union ToSet(s.oneOf)
        \union {p[2] : p \in ToSet(s.properties) \union ToSet(s.patterns) \union ToSet(s.dependent)}
        \union (IF s.tuple = None THEN {} ELSE ToSet(s.tuple))
        \union ({s.additional, s.names, s.items, s.rest, s.contains, s.not} \ {None})})
Expansions == UNION {WithItems(Expand(doc, doc, 0, MaxAliasNodes).node) : doc \in Documents}
TheSubjects == Expansions

Roots == UNION {Compound(s, t) : s, t \in Simple}
Parts ==
    UNION {WithParts(root) : root \in Roots \union UNION {Around(root) : root \in Roots}
                                      \union Second \union {Accept(TRUE)}}
TheSchemas == Parts

MCInit ==
    \E doc \in Documents, s, t \in Simple : \E root \in Compound(s, t) :
    \E a \in (IF Refers(s, t) THEN Second ELSE {Accept(TRUE)}) :
    \E nested \in {root} \union (IF s = t THEN Around(root) ELSE {}) :
        Validate(doc, [d \in {"#", "a"} |-> IF d = "#" THEN nested ELSE a])
MCSpec == MCInit /\ [][Step]_allVars /\ WF_allVars(Step)
=============================================================================
