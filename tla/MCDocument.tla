----------------------------- MODULE MCDocument -------------------------------
(***************************************************************************)
(* Model-checking the edits of a document.                                  *)
(***************************************************************************)
EXTENDS Document, TLC

CONSTANTS a, b, k1, k2, x, y

Anchored(name, node) == [node EXCEPT !.anchor = name]
Entries(keys, trees) ==
    [q \in {<<>>} \union UNION {{<<i>> \o r : r \in DOMAIN trees[i]} : i \in DOMAIN trees} |->
        IF q = <<>> THEN Mapping(keys) ELSE trees[q[1]][Tail(q)]]
OneItem(node) == (<<>> :> Sequence) @@ (<<1>> :> node)

\* k1: &a [x]   k2: {k1: &b y, k2: *a}
Nested == Entries(<<k1, k2>>, <<
    [OneItem(Scalar(x)) EXCEPT ![<<>>].anchor = a],
    Entries(<<k1, k2>>, <<Leaf(Anchored(b, Scalar(y))), Leaf(Alias(a))>>)>>)
\* [&b x, &a {k1: *b}, *a]
Listed ==
    (<<>> :> Sequence) @@ (<<1>> :> Anchored(b, Scalar(x))) @@ (<<2>> :> Anchored(a, Mapping(<<k1>>)))
    @@ (<<2, 1>> :> Alias(b)) @@ (<<3>> :> Alias(a))
\* k1: &a x   k2: *a   k1: &b y
Repeated == Entries(<<k1, k2, k1>>, <<
    Leaf(Anchored(a, Scalar(x))), Leaf(Alias(a)), Leaf(Anchored(b, Scalar(y)))>>)

TheDocs == {Nested, Listed, Repeated}
TheValues == {Leaf(Scalar(x)), Entries(<<k1>>, <<Leaf(Scalar(y))>>)}
=============================================================================
