----------------------------- MODULE MergeKeys ------------------------------
(***************************************************************************)
(* The merge key of YAML 1.1, "<<", resolved three times: in the values of  *)
(* the fast path (src/decode/merge.rs), while a tree is turned into Python  *)
(* dicts (src/roundtrip/value.rs, src/ffi/convert/annotate.rs), and in the  *)
(* tree the validator checks (src/schema/mod.rs).  A mapping's pairs come   *)
(* one at a time, and each path does with a pair what its loop does.        *)
(*                                                                          *)
(* Scalars are told apart by where they were written.  A tagged value is    *)
(* one the host resolves; without a handler or passthrough it is what the   *)
(* tag was on.  Keys are compared as strings (1, 1.0 and true, which Python *)
(* takes for one key, are not among them), and no key is an alias.          *)
(***************************************************************************)
EXTENDS SequencesExt, Integers, FiniteSets

CONSTANTS
    Keys,           \* ordinary keys
    Values(_),      \* what "<<" may be given in the n-th pair
    TagsKept,       \* a tag handler or passthrough is set
    MaxPairs        \* bound: pairs of the mapping

Literal == "<<"     \* the text of the merge key, and a key like any other when quoted
MergeKey == "merge" \* "<<" written plain: MERGE_TAG, is_ast_merge_key
ASSUME KeysAssumption == Literal \notin Keys /\ MergeKey \notin Keys

VARIABLES
    pairs,  \* the pairs of the text so far
    fast,   \* result, and preserved_slot (0 for none), of apply_merge_keys_inner
    tree,   \* dict and preserved_merge of node_to_python_cached_inner
    schema  \* result and merges of the validator's apply_merge_keys_inner

vars == <<pairs, fast, tree, schema>>

Null == [kind |-> "null"]
Scalar(id) == [kind |-> "scalar", id |-> id]
Tagged(v) == [kind |-> "tagged", value |-> v]
Map(entries) == [kind |-> "mapping", pairs |-> entries]
List(items) == [kind |-> "sequence", items |-> items]

\* A mapping's entries <<key, value>>, as a Python dict keeps them.
KeysOf(entries) == {entries[i][1] : i \in DOMAIN entries}
Slot(entries, k) == CHOOSE i \in DOMAIN entries : entries[i][1] = k
Holds(entries, k) == k \in KeysOf(entries)
\* Mutant: a key set again moves to the end.
Set_Moves(entries, k, v) == Append(SelectSeq(entries, LAMBDA e : e[1] # k), <<k, v>>)
\* set_item: a key that is there keeps its place.
Set(entries, k, v) ==
    IF Holds(entries, k) THEN [entries EXCEPT ![Slot(entries, k)][2] = v] ELSE Append(entries, <<k, v>>)
Add(entries, k, v) == IF Holds(entries, k) THEN entries ELSE Append(entries, <<k, v>>)
\* dedup_last_wins, and what turning a mapping into a dict does.
Dict(entries) == FoldLeft(LAMBDA d, e : Set(d, e[1], e[2]), <<>>, entries)

RECURSIVE Python(_)
\* The Python object a value is converted to.
Python(v) ==
    CASE v.kind = "mapping" -> LET d == Dict(v.pairs) IN Map([i \in DOMAIN d |-> <<d[i][1], Python(d[i][2])>>])
      [] v.kind = "sequence" -> List([i \in DOMAIN v.items |-> Python(v.items[i])])
      [] v.kind = "tagged" -> IF TagsKept THEN v ELSE Python(v.value)
      [] OTHER -> v

Init ==
    /\ pairs = <<>>
    /\ fast = [result |-> <<>>, slot |-> 0]
    /\ tree = [dict |-> <<>>, preserved |-> FALSE]
    /\ schema = [result |-> <<>>, merges |-> <<>>]
-----------------------------------------------------------------------------
\* merge_into, merge_converted_into and merge_node_into: the entries of the
\* mappings in v that are not there yet are added, and "left" is what could not be
\* merged: nothing or one value.
RECURSIVE Merged(_, _)
Merged(entries, v) ==
    CASE v.kind = "mapping" -> [entries |-> FoldLeft(LAMBDA d, e : Add(d, e[1], e[2]), entries, v.pairs), left |-> <<>>]
      [] v.kind = "null" -> [entries |-> entries, left |-> <<>>]
      [] v.kind = "sequence" ->
            LET all == FoldLeft(LAMBDA r, x : LET s == Merged(r.entries, x)
                                              IN  [entries |-> s.entries, left |-> r.left \o s.left],
                                [entries |-> entries, left |-> <<>>], v.items)
            IN  [all EXCEPT !.left = IF @ = <<>> THEN <<>> ELSE <<List(@)>>]
      [] OTHER -> [entries |-> entries, left |-> <<v>>]

\* Mutant: a key held twice is merged as it is written.
LastWins_AsWritten(v) == v
\* Only merge_into has to see that a key held twice has one value: a dict does.
RECURSIVE LastWins(_)
LastWins(v) ==
    CASE v.kind = "mapping" -> Map(Dict(v.pairs))
      [] v.kind = "sequence" -> List([i \in DOMAIN v.items |-> LastWins(v.items[i])])
      [] OTHER -> v

\* collect_preserved, store_preserved_merge: a second value makes a list of the two.
ItemsOf(v) == IF v.kind = "sequence" THEN v.items ELSE <<v>>
Collected(old, new) == List(ItemsOf(old) \o ItemsOf(new))

FastMerge(v) ==
    LET m == Merged(fast.result, LastWins(v))
    IN  CASE m.left # <<>> /\ fast.slot # 0 ->
                [fast EXCEPT !.result = [m.entries EXCEPT ![fast.slot][2] = Collected(@, m.left[1])]]
          [] m.left # <<>> /\ fast.slot = 0 /\ ~Holds(m.entries, Literal) ->
                [result |-> Append(m.entries, <<Literal, m.left[1]>>), slot |-> Len(m.entries) + 1]
          [] OTHER -> [fast EXCEPT !.result = m.entries]

\* Mutant: the slot stays that of a merge when a quoted "<<" takes it.
FreedSlot_Never(k) == fast.slot
FreedSlot(k) == IF k = Literal THEN 0 ELSE fast.slot
FastSet(k, v) == [result |-> Set(fast.result, k, v), slot |-> FreedSlot(k)]

TreeMerge(v) ==
    LET m == Merged(tree.dict, Python(v))
    IN  CASE m.left # <<>> /\ tree.preserved ->
                [tree EXCEPT !.dict = Set(m.entries, Literal, Collected(m.entries[Slot(m.entries, Literal)][2], m.left[1]))]
          [] m.left # <<>> /\ ~tree.preserved /\ ~Holds(m.entries, Literal) ->
                [dict |-> Set(m.entries, Literal, m.left[1]), preserved |-> TRUE]
          [] OTHER -> [tree EXCEPT !.dict = m.entries]

\* Mutant: the flag stays when a quoted "<<" takes the place.
TreeSet_StaysPreserved(k, v) == [tree EXCEPT !.dict = Set(@, k, Python(v))]
TreeSet(k, v) == [dict |-> Set(tree.dict, k, Python(v)), preserved |-> tree.preserved /\ k # Literal]

\* An explicit pair, and a plain "<<" with its value.
Explicit(k) ==
    LET v == Scalar(<<Len(pairs) + 1>>)
    IN  /\ pairs' = Append(pairs, <<k, v>>)
        /\ fast' = FastSet(k, v)
        /\ tree' = TreeSet(k, v)
        /\ schema' = [schema EXCEPT !.result = Append(@, <<k, v>>)]

Merge(v) ==
    /\ pairs' = Append(pairs, <<MergeKey, v>>)
    /\ fast' = FastMerge(v)
    /\ tree' = TreeMerge(v)
    /\ schema' = [schema EXCEPT !.merges = Append(@, v)]

Next ==
    /\ Len(pairs) < MaxPairs
    /\ \/ \E k \in Keys \union {Literal} : Explicit(k)
       \/ \E v \in Values(Len(pairs) + 1) : Merge(v)
Spec == Init /\ [][Next]_vars

\* Mutant: what cannot be merged is left out.
Preserve_Nothing(left) == <<>>
Preserve(left) == [i \in DOMAIN left |-> <<Literal, left[i]>>]
\* The validator puts what is merged behind the pairs that are written.  A tag on
\* a mapping or a sequence is not looked at.
RECURSIVE Untagged(_)
Untagged(v) ==
    CASE v.kind = "tagged" -> IF v.value.kind \in {"mapping", "sequence"} THEN v.value ELSE v
      [] v.kind = "sequence" -> List([i \in DOMAIN v.items |-> Untagged(v.items[i])])
      [] OTHER -> v
Checked == FoldLeft(LAMBDA entries, v : LET m == Merged(entries, Untagged(v))
                                        IN  m.entries \o Preserve(m.left),
                    schema.result, schema.merges)
-----------------------------------------------------------------------------
(***************************************************************************)
(* What a merge means.                                                      *)
(***************************************************************************)
RECURSIVE Mappings(_)
\* The mappings in a value of "<<", in order, and what of it is none.
Mappings(v) ==
    CASE v.kind = "mapping" -> <<v>>
      [] v.kind = "sequence" -> FlattenSeq([i \in DOMAIN v.items |-> Mappings(v.items[i])])
      [] OTHER -> <<>>
RECURSIVE Deferred(_)
Deferred(v) ==
    CASE v.kind \in {"scalar", "tagged"} -> <<v>>
      [] v.kind = "sequence" ->
            LET all == FlattenSeq([i \in DOMAIN v.items |-> Deferred(v.items[i])])
            IN  IF all = <<>> THEN <<>> ELSE <<List(all)>>
      [] OTHER -> <<>>

MergesOf == SelectSeq(pairs, LAMBDA p : p[1] = MergeKey)
ExplicitOf(k) == SelectSeq(pairs, LAMBDA p : p[1] = k)
SourcesOf(ps) == FlattenSeq([i \in DOMAIN ps |-> Mappings(ps[i][2])])
Holding(ms, k) == SelectSeq(ms, LAMBDA m : Holds(m.pairs, k))
LastOf(m, k) == Last(SelectSeq(m.pairs, LAMBDA e : e[1] = k))[2]

\* The keys in the order they are first mentioned.
Mentioned(p) ==
    IF p[1] # MergeKey THEN <<p[1]>>
    ELSE FlattenSeq([i \in DOMAIN Mappings(p[2]) |-> [j \in DOMAIN Mappings(p[2])[i].pairs |-> Mappings(p[2])[i].pairs[j][1]]])
         \o (IF Deferred(p[2]) = <<>> THEN <<>> ELSE <<Literal>>)
FirstMentions == FoldLeft(LAMBDA s, k : IF Contains(s, k) THEN s ELSE Append(s, k), <<>>,
                          FlattenSeq([i \in DOMAIN pairs |-> Mentioned(pairs[i])]))

ValueOf(entries, k) == entries[Slot(entries, k)][2]

\* Each key has one entry, and the slot is that of the literal key.
TypeOK ==
    /\ Cardinality(KeysOf(fast.result)) = Len(fast.result)
    /\ Cardinality(KeysOf(tree.dict)) = Len(tree.dict)
    /\ fast.slot # 0 => fast.slot \in DOMAIN fast.result /\ fast.result[fast.slot][1] = Literal

\* A quoted "<<" has its last value, whatever is merged around it.  If nothing else
\* gives that key a value, it has everything that could not be merged, in order.
LiteralKeyMeaning ==
    IF ExplicitOf(Literal) # <<>> THEN ValueOf(fast.result, Literal) = Last(ExplicitOf(Literal))[2]
    ELSE LET left == FlattenSeq([i \in DOMAIN MergesOf |-> Deferred(MergesOf[i][2])])
         IN  Holding(SourcesOf(MergesOf), Literal) = <<>> /\ left # <<>> =>
                ValueOf(fast.result, Literal) =
                    IF Len(left) = 1 THEN left[1]
                    ELSE List(FlattenSeq([i \in DOMAIN left |-> ItemsOf(left[i])]))

\* An ordinary key has the last value written for it; failing that, the one it has
\* in the first mapping merged that holds it, which is the last written there.
\* The keys, "<<" too, are where the text first mentions them; what a literal "<<"
\* and what could not be merged come to is above.
MergeMeaning ==
    /\ [i \in DOMAIN fast.result |-> fast.result[i][1]] = FirstMentions
    /\ \A k \in KeysOf(fast.result) \ {Literal} :
        ValueOf(fast.result, k) =
            IF ExplicitOf(k) # <<>> THEN Last(ExplicitOf(k))[2]
            ELSE LastOf(Head(Holding(SourcesOf(MergesOf), k)), k)
    /\ LiteralKeyMeaning

\* loads() and the conversions of the tree give the same dict, in the same order.
SamePython == Python(Map(fast.result)) = Map(tree.dict)

\* The validator checks the keys loads() returns.  A mapping with a tag of its own
\* is left out: the validator merges it, loads() leaves it to the host.
ValidatorSeesEveryKey == KeysOf(Checked) = KeysOf(fast.result)
=============================================================================
