------------------------------ MODULE Validator ------------------------------
(***************************************************************************)
(* The walk of the JSON Schema validator (src/schema/mod.rs), as the calls  *)
(* of validate_node on a stack: which subschema is put to which node, what  *)
(* a probe's errors count for, and the two limits on following $ref.        *)
(*                                                                          *)
(* A node is a record: its kind, its children, the names of its keys ("" is *)
(* a key that is no scalar) and the text of a scalar.  A schema is TRUE or  *)
(* FALSE (accept), a $ref, or an object with its keywords.  The checks of   *)
(* one scalar are the set of kinds "type" lets through and the set of       *)
(* scalars the bounds and patterns refuse.                                  *)
(***************************************************************************)
EXTENDS Integers, FiniteSets, SequencesExt

CONSTANTS
    None,
    Subjects, Schemas,  \* the nodes and the schemas, with all there is inside them
    MaxRefDepth, MaxRefFollows,
    SameValue(_, _)     \* value_eq: the equality of enum, const and uniqueItems

ASSUME LimitsAssumption == MaxRefDepth \in Nat /\ MaxRefFollows \in Nat

\* What is in a node, and what is in a schema.
IsNode(n) ==
    /\ n.items \in Seq(Subjects) /\ n.keys \in Seq(STRING)
    /\ n.k = "mapping" => DOMAIN n.keys = DOMAIN n.items
IsSchema(s) ==
    s.k = "object" =>
        /\ s.properties \in Seq(STRING \X Schemas) /\ s.dependent \in Seq(STRING \X Schemas)
        /\ s.patterns \in Seq((SUBSET STRING) \X Schemas)
        /\ {s.additional, s.names, s.items, s.rest, s.contains, s.not} \subseteq Schemas \union {None}
        /\ s.tuple # None => s.tuple \in Seq(Schemas)
        /\ {s.allOf, s.anyOf, s.oneOf} \subseteq Seq(Schemas)

ASSUME ValuesAssumption == (\A n \in Subjects : IsNode(n)) /\ (\A s \in Schemas : IsSchema(s))

VARIABLES
    defs,       \* the root schema, "#", and what else a $ref can name
    subject,    \* the node validate() was called with
    call,       \* the goal to be entered, or None
    answer,     \* what the last goal left: "none", "passed" or "failed"
    stack,      \* the calls that are open, the last one first
    follows,    \* ref_budget
    cut,        \* a $ref was refused, by a limit or as naming nothing
    phase

walk == <<call, answer, stack, follows, cut, phase>>
vars == <<defs, subject, walk>>

Node(k) == [k |-> k, items |-> <<>>, keys |-> <<>>, text |-> ""]
Kinds == {"null", "int", "whole", "float", "word", "sequence", "mapping"}
Accept(b) == [k |-> "accept", all |-> b]
Ref(to) == [k |-> "ref", to |-> to]
\* The empty object; "type": what the keyword lets through.
Object ==
    [k |-> "object", type |-> Kinds, enum |-> None, refused |-> {}, most |-> None,
     required |-> {}, properties |-> <<>>, patterns |-> <<>>, additional |-> None,
     names |-> None, needs |-> <<>>, dependent |-> <<>>,
     items |-> None, tuple |-> None, rest |-> None, unique |-> FALSE, contains |-> None,
     allOf |-> <<>>, anyOf |-> <<>>, oneOf |-> <<>>, not |-> None]

(***************************************************************************)
(* A goal: a schema put to a node.  "depth" is ctx.ref_depth; "hops" are    *)
(* the $refs followed at this node on the way here, "dependent" that a      *)
(* schema dependency lies on it.                                            *)
(***************************************************************************)
Goal(n, s) == [node |-> n, schema |-> s, depth |-> 0, hops |-> 0, dependent |-> FALSE]
\* A group of goals, and what their answers make of the node: "all" must pass,
\* "some" must, "one" may, "no" one may.
Group(rule, goals) == [rule |-> rule, goals |-> goals]

\* Mutant: a sub-schema of a combinator starts a chain of its own.
Same_Resets(g, s) == [g EXCEPT !.schema = s, !.depth = 0]
\* ctx, as it is passed to the sub-schemas of a combinator.
Same(g, s) == [g EXCEPT !.schema = s]
\* ctx.child(), at the same node.
Depending(g, s) == [g EXCEPT !.schema = s, !.depth = 0, !.dependent = TRUE]
-----------------------------------------------------------------------------
(***************************************************************************)
(* The keywords of one object schema.                                       *)
(***************************************************************************)
Names(n) == ToSet(n.keys) \ {""}
\* The elements of a sequence at some of its indices.
Only(seq, kept) == FlattenSeq([i \in DOMAIN seq |-> IF i \in kept THEN <<seq[i]>> ELSE <<>>])
\* check_type, enum and const.
OtherValue(n, s) == n.k \notin s.type \/ (s.enum # None /\ \A v \in s.enum : ~SameValue(v, n))
\* check_numeric and check_string.
OutOfBounds(n, s) == n \in s.refused
\* What check_object finds without looking into the children.
OtherKeys(n, s) ==
    n.k = "mapping" /\
    (\/ s.most # None /\ Len(n.items) > s.most
     \/ ~(s.required \subseteq Names(n))
     \/ \E i \in DOMAIN s.needs : s.needs[i][1] \in Names(n) /\ ~(s.needs[i][2] \subseteq Names(n)))
\* What check_array does.
OtherItems(n, s) ==
    n.k = "sequence" /\
    (\/ s.most # None /\ Len(n.items) > s.most
     \/ s.unique /\ \E i, j \in DOMAIN n.items : i < j /\ SameValue(n.items[i], n.items[j]))
FailsHere(n, s) == OtherValue(n, s) \/ OutOfBounds(n, s) \/ OtherKeys(n, s) \/ OtherItems(n, s)

\* The schemas a pair's value is put to.  Mutant: a key a pattern matches is
\* additional all the same.
PairSchemas_PatternIsAdditional(s, name) ==
    LET named == Only(s.properties, {i \in DOMAIN s.properties : s.properties[i][1] = name})
        matched == Only(s.patterns, {i \in DOMAIN s.patterns : name \in s.patterns[i][1]})
    IN  named \o matched \o (IF named # <<>> \/ s.additional = None THEN <<>> ELSE <<<<name, s.additional>>>>)
PairSchemas(s, name) ==
    LET named == Only(s.properties, {i \in DOMAIN s.properties : s.properties[i][1] = name})
        matched == Only(s.patterns, {i \in DOMAIN s.patterns : name \in s.patterns[i][1]})
        own == named \o matched
    IN  IF name = "" THEN <<>>
        ELSE IF own # <<>> \/ s.additional = None THEN own
        ELSE <<<<name, s.additional>>>>
PairGoals(n, s, i) ==
    LET schemas == PairSchemas(s, n.keys[i])
    IN  [j \in DOMAIN schemas |-> Goal(n.items[i], schemas[j][2])]
NameGoals(n, s) ==
    IF s.names = None THEN <<>>
    ELSE LET named == Only(n.keys, {i \in DOMAIN n.keys : n.keys[i] # ""})
         IN  [i \in DOMAIN named |-> Goal([Node("word") EXCEPT !.text = named[i]], s.names)]
DependentGoals(g, s) ==
    LET held == Only(s.dependent, {i \in DOMAIN s.dependent : s.dependent[i][1] \in Names(g.node)})
    IN  [i \in DOMAIN held |-> Depending(g, held[i][2])]
ObjectGroups(g, s) ==
    IF g.node.k # "mapping" THEN <<>>
    ELSE <<Group("all", FlattenSeq([i \in DOMAIN g.node.items |-> PairGoals(g.node, s, i)])
                        \o NameGoals(g.node, s) \o DependentGoals(g, s))>>

ItemSchema(s, i) ==
    CASE s.tuple # None /\ i \in DOMAIN s.tuple -> s.tuple[i]
      [] s.tuple # None /\ i \notin DOMAIN s.tuple -> s.rest
      [] OTHER -> s.items
ItemGoals(n, s) ==
    FlattenSeq([i \in DOMAIN n.items |->
        IF ItemSchema(s, i) = None THEN <<>> ELSE <<Goal(n.items[i], ItemSchema(s, i))>>])
ArrayGroups(g, s) ==
    IF g.node.k # "sequence" THEN <<>>
    ELSE <<Group("all", ItemGoals(g.node, s))>>
         \o (IF s.contains = None THEN <<>>
             ELSE <<Group("some", [i \in DOMAIN g.node.items |-> Goal(g.node.items[i], s.contains)])>>)

Combined(rule, g, subs) ==
    IF subs = <<>> THEN <<>> ELSE <<Group(rule, [i \in DOMAIN subs |-> Same(g, subs[i])])>>
CombinatorGroups(g, s) ==
    Combined("all", g, s.allOf) \o Combined("some", g, s.anyOf) \o Combined("one", g, s.oneOf)
    \o (IF s.not = None THEN <<>> ELSE Combined("no", g, <<s.not>>))
-----------------------------------------------------------------------------
\* A call: its goal, its groups and, of the first of them, how many goals have
\* passed; "failed": it has pushed an error.
Frame(g, groups, failed) == [goal |-> g, groups |-> groups, hits |-> 0, failed |-> failed]
Top == Head(stack)
SetTop(frame) == stack' = <<frame>> \o Tail(stack)
Say(passed) == answer' = IF passed THEN "passed" ELSE "failed"

Start(n, root) ==
    /\ subject = n /\ defs = root
    /\ call = Goal(n, root["#"]) /\ answer = "none" /\ stack = <<>>
    /\ follows = MaxRefFollows /\ cut = FALSE /\ phase = "walking"

\* A boolean schema.
Decide ==
    /\ call # None /\ call.schema.k = "accept"
    /\ Say(call.schema.all) /\ call' = None
    /\ UNCHANGED <<stack, follows, cut>>

\* The two limits.  Mutant: the chain at one node has none.
Refused_ByBudgetOnly(g) == follows = 0
Refused(g) == g.depth >= MaxRefDepth \/ follows = 0
\* Mutant: a $ref is a jump, which costs nothing.
Follow_Jump ==
    /\ call # None /\ call.schema.k = "ref" /\ ~Refused(call)
    /\ call.schema.to \in DOMAIN defs
    /\ call' = Same(call, defs[call.schema.to])
    /\ UNCHANGED <<answer, stack, follows, cut>>
\* resolve_ref, within the limits.
Follow ==
    /\ call # None /\ call.schema.k = "ref" /\ ~Refused(call)
    /\ call.schema.to \in DOMAIN defs
    /\ follows' = follows - 1
    /\ stack' = <<Frame(call, <<Group("all", <<[Same(call, defs[call.schema.to])
                                                    EXCEPT !.depth = call.depth + 1, !.hops = @ + 1]>>)>>, FALSE)>> \o stack
    /\ call' = None
    /\ UNCHANGED <<answer, cut>>
\* Mutant: a $ref that is not followed permits everything.
Refuse_Passes ==
    /\ call # None /\ call.schema.k = "ref"
    /\ Refused(call) \/ call.schema.to \notin DOMAIN defs
    /\ Say(TRUE) /\ call' = None /\ cut' = TRUE
    /\ UNCHANGED <<follows, stack>>
\* A $ref past a limit, or one that names nothing, is an error.
Refuse ==
    /\ call # None /\ call.schema.k = "ref"
    /\ Refused(call) \/ call.schema.to \notin DOMAIN defs
    /\ follows' = IF Refused(call) THEN follows ELSE follows - 1
    /\ Say(FALSE) /\ call' = None /\ cut' = TRUE
    /\ UNCHANGED stack

\* validate_node_inner of an object schema.
Open ==
    /\ call # None /\ call.schema.k = "object"
    /\ LET s == call.schema
       IN  stack' = <<Frame(call, ObjectGroups(call, s) \o ArrayGroups(call, s) \o CombinatorGroups(call, s),
                            FailsHere(call.node, s))>> \o stack
    /\ call' = None
    /\ UNCHANGED <<answer, follows, cut>>

\* Mutant: the errors of a probe are kept.
Take_KeepsProbe ==
    /\ answer # "none" /\ stack # <<>>
    /\ SetTop([Top EXCEPT !.hits = IF answer = "passed" THEN @ + 1 ELSE @,
                          !.failed = @ \/ answer = "failed"])
    /\ answer' = "none"
    /\ UNCHANGED <<call, follows, cut>>
\* The answer of a goal: a probe's errors are dropped.
Take ==
    /\ answer # "none" /\ stack # <<>>
    /\ SetTop([Top EXCEPT !.hits = IF answer = "passed" THEN @ + 1 ELSE @,
                          !.failed = @ \/ (Head(Top.groups).rule = "all" /\ answer = "failed")])
    /\ answer' = "none"
    /\ UNCHANGED <<call, follows, cut>>

Resting == call = None /\ answer = "none" /\ stack # <<>>
\* any() stops at the first that passes; filter().count() does not.
Settled(frame) ==
    \/ Head(frame.groups).goals = <<>>
    \/ Head(frame.groups).rule = "some" /\ frame.hits > 0
Try ==
    /\ Resting /\ Top.groups # <<>> /\ ~Settled(Top)
    /\ call' = Head(Head(Top.groups).goals)
    /\ SetTop([Top EXCEPT !.groups[1].goals = Tail(@)])
    /\ UNCHANGED <<answer, follows, cut>>
Broken(rule, hits) ==
    CASE rule = "all" -> FALSE
      [] rule = "some" -> hits = 0
      [] rule = "one" -> hits # 1
      [] rule = "no" -> hits > 0
Conclude ==
    /\ Resting /\ Top.groups # <<>> /\ Settled(Top)
    /\ SetTop([Top EXCEPT !.groups = Tail(@), !.hits = 0,
                          !.failed = @ \/ Broken(Head(Top.groups).rule, Top.hits)])
    /\ UNCHANGED <<call, answer, follows, cut>>
Return ==
    /\ Resting /\ Top.groups = <<>>
    /\ Say(~Top.failed)
    /\ stack' = Tail(stack)
    /\ UNCHANGED <<call, follows, cut>>

Walk ==
    /\ phase = "walking"
    /\ Decide \/ Follow \/ Refuse \/ Open \/ Take \/ Try \/ Conclude \/ Return
    /\ UNCHANGED <<defs, subject, phase>>
\* validate() returns the errors.
End ==
    /\ phase = "walking" /\ answer # "none" /\ stack = <<>>
    /\ phase' = "done"
    /\ UNCHANGED <<defs, subject, call, answer, stack, follows, cut>>
Next == Walk \/ End

\* Some schema put to some node; a $ref names the schema or a part of it.
Init ==
    \E n \in Subjects, parts \in SUBSET STRING :
        \E root \in [parts \union {"#"} -> Schemas] : Start(n, root)
Spec == Init /\ [][Next]_vars
-----------------------------------------------------------------------------
(***************************************************************************)
(* The goals of a walk, and what its calls keep of them.                     *)
(***************************************************************************)
KeyNodes == [k : {"word"}, items : {<<>>}, keys : {<<>>}, text : STRING]
Goals == [node : Subjects \union KeyNodes, schema : Schemas, depth : 0 .. MaxRefDepth,
          hops : Nat, dependent : BOOLEAN]
Groups == [rule : {"all", "some", "one", "no"}, goals : Seq(Goals)]
Calls == [goal : Goals, groups : Seq(Groups), hits : Nat, failed : BOOLEAN]

TypeOK ==
    /\ "#" \in DOMAIN defs /\ (\A to \in DOMAIN defs : defs[to] \in Schemas)
    /\ subject \in Subjects
    /\ call \in Goals \union {None}
    /\ answer \in {"none", "passed", "failed"}
    /\ stack \in Seq(Calls)
    /\ follows \in 0 .. MaxRefFollows
    /\ cut \in BOOLEAN
    /\ phase \in {"walking", "done"}

\* The chain of $refs followed at one node is never longer than its limit, of
\* whatever combinators it leads through, so that the recursion is no deeper
\* than the document and the schema give cause for (a schema dependency, which
\* starts a chain anew at the same node, apart).
HopsBounded ==
    /\ call # None => call.dependent \/ call.hops <= MaxRefDepth
    /\ \A i \in DOMAIN stack : stack[i].goal.dependent \/ stack[i].goal.hops <= MaxRefDepth

\* Every validation ends, of schemas that lead back to themselves too: each call
\* is run to its end, and the budget of follows is one for all of them.
ValidationEnds == <>(phase = "done")
=============================================================================
