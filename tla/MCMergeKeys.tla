---------------------------- MODULE MCMergeKeys -----------------------------
(***************************************************************************)
(* Mappings of a few pairs over two ordinary keys.                          *)
(***************************************************************************)
EXTENDS MergeKeys

\* Mappings to merge: one key, two, one held twice, and one that holds "<<" itself.
\* A tag is on a scalar only: see ValidatorSeesEveryKey.
KeyLists == {<<"a">>, <<"b">>, <<"a", "b">>, <<"b", "b">>, <<Literal, "a">>}
Mapping(n, j, keys) == Map([i \in DOMAIN keys |-> <<keys[i], Scalar(<<n, j, i>>)>>])
Single(n, j) ==
    {Null, Scalar(<<n, j>>), Tagged(Scalar(<<n, j>>))} \union {Mapping(n, j, keys) : keys \in KeyLists}
MCValues(n) ==
    Single(n, 1)
    \union {List(<<x, y>>) : x \in Single(n, 1), y \in Single(n, 2)}
    \union {List(<<List(<<Scalar(<<n, 1>>), Mapping(n, 1, <<"a">>)>>), Scalar(<<n, 2>>)>>)}
=============================================================================
