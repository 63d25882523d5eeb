----------------------------- MODULE Validation ------------------------------
(***************************************************************************)
(* validate() as a whole: the aliases of a document are expanded, within    *)
(* two limits, and the tree is put to the schema (Validator).  And what the *)
(* verdict is to mean.                                                      *)
(***************************************************************************)
EXTENDS Validator

CONSTANTS MaxAliasDepth, MaxAliasNodes

VARIABLES
    document,   \* the tree as it was composed: a Node with an anchor, or an alias
    whole       \* no node was dropped by a limit

allVars == <<vars, document, whole>>

Plain(k) == Node(k) @@ [anchor |-> ""]
Alias(name) == [Plain("alias") EXCEPT !.text = name]

\* The nodes of a tree, in the order of the text.
RECURSIVE InOrder(_)
InOrder(n) == <<n>> \o FlattenSeq([i \in DOMAIN n.items |-> InOrder(n.items[i])])

\* collect_anchors: the first node of a name has it.
Anchored(doc, name) == SelectSeq(InOrder(doc), LAMBDA n : n.anchor = name)
Value(n) == [k |-> n.k, items |-> n.items, keys |-> n.keys, text |-> n.text]

\* expand_aliases: a node costs one, a key too; past either limit it is null.
RECURSIVE Expand(_, _, _, _)
Expand(doc, n, depth, budget) ==
    LET Child(got, i) ==
            LET keyed == n.k = "mapping"
                key == IF keyed /\ got.left > 0 THEN n.keys[i] ELSE ""
                left == IF keyed /\ got.left > 0 THEN got.left - 1 ELSE got.left
                sub == Expand(doc, n.items[i], depth, left)
            IN  [node |-> [got.node EXCEPT !.items = Append(@, sub.node),
                                           !.keys = IF keyed THEN Append(@, key) ELSE @],
                 left |-> sub.left,
                 whole |-> got.whole /\ sub.whole /\ (keyed => got.left > 0)]
    IN  CASE depth > MaxAliasDepth \/ budget = 0 -> [node |-> Node("null"), left |-> budget, whole |-> FALSE]
          [] depth <= MaxAliasDepth /\ budget > 0 /\ n.k = "alias" ->
                IF Anchored(doc, n.text) = <<>> THEN [node |-> Node("null"), left |-> budget - 1, whole |-> TRUE]
                ELSE Expand(doc, Anchored(doc, n.text)[1], depth + 1, budget - 1)
          [] OTHER -> FoldLeft(Child, [node |-> [Value(n) EXCEPT !.items = <<>>, !.keys = <<>>],
                                       left |-> budget - 1, whole |-> TRUE],
                               [i \in DOMAIN n.items |-> i])

Validate(doc, root) ==
    LET expanded == Expand(doc, doc, 0, MaxAliasNodes)
    IN  /\ document = doc
        /\ whole = expanded.whole
        /\ Start(expanded.node, root)
Step == Next /\ UNCHANGED <<document, whole>>
-----------------------------------------------------------------------------
(***************************************************************************)
(* The reference: what JSON Schema (draft 7) makes of the document loads()  *)
(* returns.  A chain of "fuel" $refs conforms to nothing.                   *)
(***************************************************************************)
RECURSIVE Loaded(_, _), Conforms(_, _, _)
\* An alias is its anchored node (a name that is anchored twice has two, and
\* loads() takes the nearer; such documents are left out).
Loaded(doc, n) ==
    IF n.k = "alias" THEN Loaded(doc, Last(Anchored(doc, n.text)))
    ELSE [Value(n) EXCEPT !.items = [i \in DOMAIN n.items |-> Loaded(doc, n.items[i])]]

Held(n, name) == CHOOSE i \in DOMAIN n.keys : n.keys[i] = name
Conforms(n, s, fuel) ==
    CASE s.k = "accept" -> s.all
      [] s.k = "ref" -> fuel > 0 /\ s.to \in DOMAIN defs /\ Conforms(n, defs[s.to], fuel - 1)
      [] s.k = "object" ->
            /\ ~FailsHere(n, s)
            /\ n.k = "mapping" =>
                 /\ \A name \in Names(n) :
                      LET v == n.items[Held(n, name)]
                          named == {s.properties[i][2] : i \in {j \in DOMAIN s.properties : s.properties[j][1] = name}}
                          matching == {s.patterns[i][2] : i \in {j \in DOMAIN s.patterns : name \in s.patterns[j][1]}}
                      IN  /\ \A sub \in named \union matching : Conforms(v, sub, fuel)
                          /\ named \union matching = {} /\ s.additional # None => Conforms(v, s.additional, fuel)
                          /\ s.names # None => Conforms([Node("word") EXCEPT !.text = name], s.names, fuel)
                 /\ \A i \in DOMAIN s.dependent : s.dependent[i][1] \in Names(n) => Conforms(n, s.dependent[i][2], fuel)
            /\ n.k = "sequence" =>
                 /\ \A i \in DOMAIN n.items : ItemSchema(s, i) # None => Conforms(n.items[i], ItemSchema(s, i), fuel)
                 /\ s.contains # None => \E i \in DOMAIN n.items : Conforms(n.items[i], s.contains, fuel)
            /\ \A i \in DOMAIN s.allOf : Conforms(n, s.allOf[i], fuel)
            /\ s.anyOf # <<>> => \E i \in DOMAIN s.anyOf : Conforms(n, s.anyOf[i], fuel)
            /\ s.oneOf # <<>> => Cardinality({i \in DOMAIN s.oneOf : Conforms(n, s.oneOf[i], fuel)}) = 1
            /\ s.not # None => ~Conforms(n, s.not, fuel)

\* Neither `not` nor oneOf anywhere: more errors never make a verdict better.
RECURSIVE Positive(_)
Positive(s) ==
    s.k = "object" =>
        /\ s.not = None /\ s.oneOf = <<>>
        /\ \A sub \in ToSet(s.allOf) \union ToSet(s.anyOf)
                      \union {p[2] : p \in ToSet(s.properties) \union ToSet(s.patterns) \union ToSet(s.dependent)}
                      \union (IF s.tuple = None THEN {} ELSE ToSet(s.tuple))
                      \union ({s.additional, s.names, s.items, s.rest, s.contains} \ {None}) : Positive(sub)

Fuel == MaxRefFollows
Passed == answer = "passed"
\* A document of which nothing was dropped passes if and only if the value
\* loads() returns conforms to the schema; and where a $ref was refused, a limit
\* or a name that leads nowhere never makes a schema without a negation pass
\* what does not conform.
VerdictIsMeaning ==
    phase = "done" /\ whole =>
        LET meant == Conforms(Loaded(document, document), defs["#"], Fuel)
        IN  /\ ~cut => (Passed <=> meant)
            /\ Passed /\ (\A d \in DOMAIN defs : Positive(defs[d])) => meant
=============================================================================
