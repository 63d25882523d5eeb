----------------------------- MODULE MCWriteBack -----------------------------
(***************************************************************************)
(* Model-checking the write-back of split configurations.                   *)
(***************************************************************************)
EXTENDS WriteBack

CONSTANTS root, a, b, dir, k1, k2, x, y

TheRank == (k1 :> 1) @@ (k2 :> 2) @@ (a :> 3) @@ (b :> 4) @@ (root :> 5)
TheMembers == (dir :> <<a, b>>)

Map2(c1, c2) == (<<>> :> Mapping) @@ (<<k1>> :> c1) @@ (<<k2>> :> c2)
Map1(c1) == (<<>> :> Mapping) @@ (<<k1>> :> c1)
Just(c) == (<<>> :> c)
Layout(inRoot, inA, inB) == (root :> inRoot) @@ (a :> inA) @@ (b :> inB)

\* root includes a, a includes b.
Nested == {Layout(<<Map2(Value(x), Include(a))>>, <<Map2(Value(x), Include(b))>>, <<Map1(Value(x))>>)}
\* root includes a twice, in one document or in two.
Shared == {Layout(<<Map2(Include(a), Include(a))>>, <<Map1(Value(x))>>, <<Map1(Value(x))>>),
           Layout(<<Map1(Include(a)), Map1(Include(a))>>, <<Map1(Value(x))>>, <<Map1(Value(x))>>)}
\* root includes the directory of a and b.
Directory == {Layout(<<Map2(Value(x), IncludeDir(dir))>>, <<Map1(Value(x))>>, <<Map1(Value(x))>>)}
Configurations == Nested \union Shared \union Directory

\* root includes a, which is nothing but an include of b.
Chain == {Layout(<<Map1(Include(a))>>, <<Just(Include(b))>>, <<Map1(Value(x))>>)}
=============================================================================
