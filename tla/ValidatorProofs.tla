--------------------------- MODULE ValidatorProofs ---------------------------
(***************************************************************************)
(* Proofs about the walk of the validator, for any document, any schema and  *)
(* any limits.  The chain of $refs at one node is measured twice: by         *)
(* ref_depth, which the code counts and resets, and by the hops really made. *)
(* The inductive invariant says that the count never falls behind.           *)
(***************************************************************************)
EXTENDS Validator, SequenceLemmas

\* The $refs followed at this node are counted, a schema dependency apart.
Counted(g) == g.dependent \/ g.hops <= g.depth

CountedGoals == {g \in Goals : Counted(g)}
CountedGroups == [rule : {"all", "some", "one", "no"}, goals : Seq(CountedGoals)]
CountedCalls == [goal : CountedGoals, groups : Seq(CountedGroups), hits : Nat, failed : BOOLEAN]

IInv ==
    /\ TypeOK
    /\ call \in CountedGoals \union {None}
    /\ stack \in Seq(CountedCalls)
-----------------------------------------------------------------------------
\* A function on the indices of a sequence is a sequence of its values.
LEMMA AsLongAs ==
    ASSUME NEW S, NEW T, NEW seq \in Seq(T), NEW F, F = [i \in DOMAIN seq |-> F[i]],
           \A i \in DOMAIN seq : F[i] \in S
    PROVE  F \in Seq(S)
<1>1. Len(seq) \in Nat /\ DOMAIN seq = 1 .. Len(seq)
    OBVIOUS
<1>2. F \in [1 .. Len(seq) -> S]
    BY <1>1
<1> QED BY <1>1, <1>2

\* Some elements of a sequence are a sequence of such elements.
LEMMA OnlySome ==
    ASSUME NEW S, NEW seq \in Seq(S), NEW kept
    PROVE  Only(seq, kept) \in Seq(S)
<1> DEFINE ss == [i \in DOMAIN seq |-> IF i \in kept THEN <<seq[i]>> ELSE <<>>]
<1>1. ss \in Seq(Seq(S))
  <2>1. \A i \in DOMAIN seq : seq[i] \in S
      OBVIOUS
  <2>2. \A i \in DOMAIN seq : ss[i] \in Seq(S)
      BY <2>1
  <2> QED BY <2>2, AsLongAs
<1> HIDE DEF ss
<1>2. FlattenSeq(ss) \in Seq(S)
    BY <1>1, FlattenSeqElements
<1> QED BY <1>2 DEF Only, ss

\* The first goal at a node, and the goal of a schema at the same node, are
\* counted when the goal they come from is.
LEMMA NewGoals ==
    ASSUME NEW s \in Schemas
    PROVE  /\ \A n \in Subjects \union KeyNodes : Goal(n, s) \in CountedGoals
           /\ \A g \in CountedGoals : Same(g, s) \in CountedGoals /\ Depending(g, s) \in CountedGoals
<1>1. 0 \in 0 .. MaxRefDepth
    BY LimitsAssumption
<1>2. ASSUME NEW n \in Subjects \union KeyNodes PROVE Goal(n, s) \in CountedGoals
  <2>1. Goal(n, s) \in Goals
      BY <1>1 DEF Goal, Goals
  <2>2. Counted(Goal(n, s))
      BY DEF Goal, Counted
  <2> QED BY <2>1, <2>2 DEF CountedGoals
<1>3. ASSUME NEW g \in CountedGoals PROVE Same(g, s) \in CountedGoals /\ Depending(g, s) \in CountedGoals
  <2>1. g \in Goals /\ Counted(g)
      BY DEF CountedGoals
  <2>2. Same(g, s) \in Goals /\ Counted(Same(g, s))
      BY <2>1 DEF Goals, Same, Counted
  <2>3. Depending(g, s) \in Goals /\ Counted(Depending(g, s))
      BY <1>1, <2>1 DEF Goals, Depending, Counted
  <2> QED BY <2>2, <2>3 DEF CountedGoals
<1> QED BY <1>2, <1>3

\* What an object schema holds.
LEMMA SchemaIs ==
    ASSUME NEW s \in Schemas, s.k = "object"
    PROVE  /\ s.properties \in Seq(STRING \X Schemas) /\ s.dependent \in Seq(STRING \X Schemas)
           /\ s.patterns \in Seq((SUBSET STRING) \X Schemas)
           /\ s.additional # None => s.additional \in Schemas
           /\ s.names # None => s.names \in Schemas
           /\ s.items # None => s.items \in Schemas
           /\ s.rest # None => s.rest \in Schemas
           /\ s.contains # None => s.contains \in Schemas
           /\ s.not # None => s.not \in Schemas
           /\ s.tuple # None => s.tuple \in Seq(Schemas)
           /\ s.allOf \in Seq(Schemas) /\ s.anyOf \in Seq(Schemas) /\ s.oneOf \in Seq(Schemas)
<1>1. IsSchema(s)
    BY ValuesAssumption
<1> QED BY <1>1 DEF IsSchema

\* What is in the node of a goal.
LEMMA NodeIs ==
    ASSUME NEW g \in CountedGoals
    PROVE  /\ g.schema \in Schemas /\ g.node \in Subjects \union KeyNodes
           /\ g.node.items \in Seq(Subjects) /\ g.node.keys \in Seq(STRING)
           /\ g.node.k = "mapping" => DOMAIN g.node.keys = DOMAIN g.node.items
<1>1. g.schema \in Schemas /\ g.node \in Subjects \union KeyNodes
    BY DEF CountedGoals, Goals
<1>2. CASE g.node \in Subjects
    BY <1>1, <1>2, ValuesAssumption DEF IsNode
<1>3. CASE g.node \in KeyNodes
  <2>1. g.node.k = "word" /\ g.node.items = <<>> /\ g.node.keys = <<>>
      BY <1>3 DEF KeyNodes
  <2> QED BY <1>1, <2>1
<1> QED BY <1>1, <1>2, <1>3

\* A pair's value is put to schemas.
LEMMA PairSchemasAreSchemas ==
    ASSUME NEW s \in Schemas, s.k = "object", NEW name \in STRING
    PROVE  PairSchemas(s, name) \in Seq((STRING \union SUBSET STRING) \X Schemas)
<1> DEFINE P == (STRING \union SUBSET STRING) \X Schemas
           named == Only(s.properties, {i \in DOMAIN s.properties : s.properties[i][1] = name})
           matched == Only(s.patterns, {i \in DOMAIN s.patterns : name \in s.patterns[i][1]})
           default == <<<<name, s.additional>>>>
<1>1. named \in Seq(STRING \X Schemas)
    BY SchemaIs, OnlySome
<1>2. matched \in Seq((SUBSET STRING) \X Schemas)
    BY SchemaIs, OnlySome
<1>3. s.additional # None => default \in Seq(P)
  <2>1. s.additional # None => <<name, s.additional>> \in P
      BY SchemaIs
  <2> QED BY <2>1
<1>4. PairSchemas(s, name) =
        IF name = "" THEN <<>>
        ELSE IF named \o matched # <<>> \/ s.additional = None THEN named \o matched ELSE default
    BY DEF PairSchemas
<1> HIDE DEF named, matched, default
<1>5. named \in Seq(P) /\ matched \in Seq(P)
    BY <1>1, <1>2
<1> HIDE DEF P
<1>6. named \o matched \in Seq(P) /\ <<>> \in Seq(P)
    BY <1>5
<1> QED BY <1>3, <1>4, <1>6 DEF P
-----------------------------------------------------------------------------
\* The goals of an object's values, names and dependencies are counted.
LEMMA ObjectGoals ==
    ASSUME NEW g \in CountedGoals, g.schema.k = "object"
    PROVE  ObjectGroups(g, g.schema) \in Seq(CountedGroups)
<1> DEFINE s == g.schema
           n == g.node
           pairs == [i \in DOMAIN n.items |-> PairGoals(n, s, i)]
<1>0. /\ s \in Schemas /\ n.items \in Seq(Subjects) /\ n.keys \in Seq(STRING)
      /\ n.k = "mapping" => DOMAIN n.keys = DOMAIN n.items
    BY NodeIs
<1>1. CASE n.k # "mapping"
    BY <1>1 DEF ObjectGroups
<1>2. CASE n.k = "mapping"
  <2>1. FlattenSeq(pairs) \in Seq(CountedGoals)
    <3>1. ASSUME NEW i \in DOMAIN n.items PROVE PairGoals(n, s, i) \in Seq(CountedGoals)
      <4> DEFINE schemas == PairSchemas(s, n.keys[i])
      <4>1. n.keys[i] \in STRING /\ n.items[i] \in Subjects
          BY <1>0, <1>2
      <4>2. schemas \in Seq((STRING \union SUBSET STRING) \X Schemas)
          BY <1>0, <4>1, PairSchemasAreSchemas
      <4> HIDE DEF schemas
      <4>3. \A j \in DOMAIN schemas : schemas[j][2] \in Schemas
          BY <4>2
      <4>4. \A j \in DOMAIN schemas : Goal(n.items[i], schemas[j][2]) \in CountedGoals
          BY <4>1, <4>3, NewGoals
      <4>5. [j \in DOMAIN schemas |-> Goal(n.items[i], schemas[j][2])] \in Seq(CountedGoals)
          BY <4>2, <4>4
      <4> QED BY <4>5 DEF PairGoals, schemas
    <3>2. \A i \in DOMAIN n.items : pairs[i] \in Seq(CountedGoals)
        BY <3>1
    <3>3. pairs \in Seq(Seq(CountedGoals))
        BY <1>0, <3>2, AsLongAs
    <3> QED BY <3>3, FlattenSeqElements
  <2>2. NameGoals(n, s) \in Seq(CountedGoals)
    <3> DEFINE named == Only(n.keys, {i \in DOMAIN n.keys : n.keys[i] # ""})
               goals == [i \in DOMAIN named |-> Goal([Node("word") EXCEPT !.text = named[i]], s.names)]
    <3>1. named \in Seq(STRING)
        BY <1>0, OnlySome
    <3>2. NameGoals(n, s) = IF s.names = None THEN <<>> ELSE goals
        BY DEF NameGoals
    <3>3. \A w \in STRING : [Node("word") EXCEPT !.text = w] \in KeyNodes
        BY DEF Node, KeyNodes
    <3> HIDE DEF named
    <3>4. s.names # None => \A i \in DOMAIN named :
              Goal([Node("word") EXCEPT !.text = named[i]], s.names) \in CountedGoals
        BY <1>0, <3>1, <3>3, SchemaIs, NewGoals
    <3>5. s.names # None => \A i \in DOMAIN named : goals[i] \in CountedGoals
        BY <3>4
    <3>6. s.names # None => goals \in Seq(CountedGoals)
        BY <3>1, <3>5, AsLongAs
    <3> QED BY <3>2, <3>6
  <2>3. DependentGoals(g, s) \in Seq(CountedGoals)
    <3> DEFINE held == Only(s.dependent, {i \in DOMAIN s.dependent : s.dependent[i][1] \in Names(g.node)})
    <3>1. held \in Seq(STRING \X Schemas)
        BY <1>0, SchemaIs, OnlySome
    <3>2. DependentGoals(g, s) = [i \in DOMAIN held |-> Depending(g, held[i][2])]
        BY DEF DependentGoals
    <3> HIDE DEF held
    <3>3. \A i \in DOMAIN held : held[i][2] \in Schemas
        BY <3>1
    <3>4. \A i \in DOMAIN held : Depending(g, held[i][2]) \in CountedGoals
        BY <3>3, NewGoals
    <3> QED BY <3>1, <3>2, <3>4
  <2>4. ObjectGroups(g, s) = <<Group("all", FlattenSeq(pairs) \o NameGoals(n, s) \o DependentGoals(g, s))>>
      BY <1>2 DEF ObjectGroups
  <2> HIDE DEF pairs, s, n
  <2>5. FlattenSeq(pairs) \o NameGoals(n, s) \o DependentGoals(g, s) \in Seq(CountedGoals)
      BY <2>1, <2>2, <2>3
  <2>6. Group("all", FlattenSeq(pairs) \o NameGoals(n, s) \o DependentGoals(g, s)) \in CountedGroups
      BY <2>5 DEF Group, CountedGroups
  <2>7. ObjectGroups(g, s) \in Seq(CountedGroups)
      BY <2>4, <2>6
  <2> QED BY <2>7 DEF s
<1> QED BY <1>1, <1>2

\* So are those of an array's items.
LEMMA ArrayGoals ==
    ASSUME NEW g \in CountedGoals, g.schema.k = "object"
    PROVE  ArrayGroups(g, g.schema) \in Seq(CountedGroups)
<1> DEFINE s == g.schema
           n == g.node
           singles == [i \in DOMAIN n.items |->
                          IF ItemSchema(s, i) = None THEN <<>> ELSE <<Goal(n.items[i], ItemSchema(s, i))>>]
           probes == [i \in DOMAIN n.items |-> Goal(n.items[i], s.contains)]
           probing == IF s.contains = None THEN <<>> ELSE <<Group("some", probes)>>
<1>0. s \in Schemas /\ n.items \in Seq(Subjects)
    BY NodeIs
<1>1. \A i \in DOMAIN n.items : ItemSchema(s, i) # None => ItemSchema(s, i) \in Schemas
    BY <1>0, SchemaIs DEF ItemSchema
<1>2. \A i \in DOMAIN n.items : ItemSchema(s, i) # None => Goal(n.items[i], ItemSchema(s, i)) \in CountedGoals
    BY <1>0, <1>1, NewGoals
<1>3. ItemGoals(n, s) \in Seq(CountedGoals)
  <2>1. singles \in Seq(Seq(CountedGoals))
    <3>1. \A i \in DOMAIN n.items : singles[i] \in Seq(CountedGoals)
        BY <1>2
    <3> QED BY <1>0, <3>1, AsLongAs
  <2> HIDE DEF singles
  <2>2. FlattenSeq(singles) \in Seq(CountedGoals)
      BY <2>1, FlattenSeqElements
  <2> QED BY <2>2 DEF ItemGoals, singles
<1>4. Group("all", ItemGoals(n, s)) \in CountedGroups
    BY <1>3 DEF Group, CountedGroups
<1>5. probing \in Seq(CountedGroups)
  <2>1. CASE s.contains # None
    <3>1. \A i \in DOMAIN n.items : Goal(n.items[i], s.contains) \in CountedGoals
        BY <1>0, <2>1, SchemaIs, NewGoals
    <3>2. probes \in Seq(CountedGoals)
        BY <1>0, <3>1
    <3>3. Group("some", probes) \in CountedGroups
        BY <3>2 DEF Group, CountedGroups
    <3> QED BY <3>3
  <2> QED BY <2>1
<1>6. ArrayGroups(g, s) =
        IF n.k # "sequence" THEN <<>> ELSE <<Group("all", ItemGoals(n, s))>> \o probing
    BY DEF ArrayGroups
<1> HIDE DEF probing, n, s
<1>7. <<Group("all", ItemGoals(n, s))>> \o probing \in Seq(CountedGroups)
    BY <1>4, <1>5
<1>8. ArrayGroups(g, s) \in Seq(CountedGroups)
    BY <1>6, <1>7
<1> QED BY <1>8 DEF s

\* So are those of a combinator, which stay at the node.
LEMMA CombinatorGoals ==
    ASSUME NEW g \in CountedGoals, g.schema.k = "object"
    PROVE  CombinatorGroups(g, g.schema) \in Seq(CountedGroups)
<1> DEFINE s == g.schema
<1>0. s \in Schemas
    BY NodeIs
<1>1. ASSUME NEW rule \in {"all", "some", "one", "no"}, NEW subs \in Seq(Schemas)
      PROVE  Combined(rule, g, subs) \in Seq(CountedGroups)
  <2>1. \A i \in DOMAIN subs : Same(g, subs[i]) \in CountedGoals
      BY NewGoals
  <2>2. [i \in DOMAIN subs |-> Same(g, subs[i])] \in Seq(CountedGoals)
      BY <2>1
  <2>3. Group(rule, [i \in DOMAIN subs |-> Same(g, subs[i])]) \in CountedGroups
      BY <2>2 DEF Group, CountedGroups
  <2> QED BY <2>3 DEF Combined
<1>2. /\ Combined("all", g, s.allOf) \in Seq(CountedGroups)
      /\ Combined("some", g, s.anyOf) \in Seq(CountedGroups)
      /\ Combined("one", g, s.oneOf) \in Seq(CountedGroups)
    BY <1>0, <1>1, SchemaIs
<1>3. s.not # None => Combined("no", g, <<s.not>>) \in Seq(CountedGroups)
  <2>1. s.not # None => <<s.not>> \in Seq(Schemas)
      BY <1>0, SchemaIs
  <2> QED BY <1>1, <2>1
<1>4. (IF s.not = None THEN <<>> ELSE Combined("no", g, <<s.not>>)) \in Seq(CountedGroups)
    BY <1>3
<1> QED BY <1>2, <1>4 DEF CombinatorGroups
-----------------------------------------------------------------------------
\* What a call is, and what becomes of the stack when the call on top changes, is
\* added or leaves.
LEMMA StackIs ==
    ASSUME IInv, stack # <<>>
    PROVE  /\ Top \in CountedCalls /\ Top \in Calls
           /\ Tail(stack) \in Seq(CountedCalls) /\ Tail(stack) \in Seq(Calls)
<1> DEFINE c == stack
<1>1. c \in Seq(CountedCalls) /\ c \in Seq(Calls) /\ c # <<>>
    BY DEF IInv, TypeOK
<1> HIDE DEF c
<1>2. Head(c) \in CountedCalls /\ Tail(c) \in Seq(CountedCalls)
    BY <1>1
<1>3. Head(c) \in Calls /\ Tail(c) \in Seq(Calls)
    BY <1>1
<1> QED BY <1>2, <1>3 DEF c, Top

\* Counted calls are calls.
LEMMA CountedAreCalls == CountedGoals \subseteq Goals /\ CountedCalls \subseteq Calls
<1>1. CountedGoals \subseteq Goals
    BY DEF CountedGoals
<1>2. Seq(CountedGoals) \subseteq Seq(Goals)
    BY <1>1
<1>3. CountedGroups \subseteq Groups
    BY <1>2 DEF CountedGroups, Groups
<1>4. Seq(CountedGroups) \subseteq Seq(Groups)
    BY <1>3
<1>5. CountedCalls \subseteq Calls
    BY <1>1, <1>4 DEF CountedCalls, Calls
<1> QED BY <1>1, <1>5

\* A call on top of the stack is one call more.
LEMMA PushIs ==
    ASSUME IInv, NEW c \in CountedCalls, stack' = <<c>> \o stack
    PROVE  stack' \in Seq(CountedCalls) /\ stack' \in Seq(Calls)
BY CountedAreCalls DEF IInv

\* The call on top is replaced by a call.
LEMMA SetTopIs ==
    ASSUME IInv, stack # <<>>, NEW c \in CountedCalls, SetTop(c)
    PROVE  stack' \in Seq(CountedCalls) /\ stack' \in Seq(Calls)
<1>1. stack' = <<c>> \o Tail(stack) /\ Tail(stack) \in Seq(CountedCalls)
    BY StackIs DEF SetTop
<1>2. stack' \in Seq(CountedCalls)
    BY <1>1
<1> QED BY <1>2, CountedAreCalls

\* What a call is made of.
LEMMA CallIs ==
    ASSUME NEW c \in CountedCalls
    PROVE  /\ c.goal \in CountedGoals /\ c.groups \in Seq(CountedGroups) /\ c.hits \in Nat /\ c.failed \in BOOLEAN
           /\ c.groups # <<>> => /\ Head(c.groups) \in CountedGroups
                                 /\ Head(c.groups).goals \in Seq(CountedGoals)
                                 /\ Tail(c.groups) \in Seq(CountedGroups)
<1>1. c.goal \in CountedGoals /\ c.groups \in Seq(CountedGroups) /\ c.hits \in Nat /\ c.failed \in BOOLEAN
    BY DEF CountedCalls
<1> DEFINE gs == c.groups
<1>2. gs \in Seq(CountedGroups)
    BY <1>1
<1> HIDE DEF gs
<1>3. gs # <<>> => Head(gs) \in CountedGroups /\ Tail(gs) \in Seq(CountedGroups)
    BY <1>2
<1>4. gs # <<>> => Head(gs).goals \in Seq(CountedGoals)
    BY <1>3 DEF CountedGroups
<1> QED BY <1>1, <1>3, <1>4 DEF gs
-----------------------------------------------------------------------------
\* A validation starts with one call, no `$ref' followed.
LEMMA InitIInv == Init => IInv
<1> SUFFICES ASSUME NEW n \in Subjects, NEW parts \in SUBSET STRING,
                    NEW root \in [parts \union {"#"} -> Schemas], Start(n, root)
             PROVE  IInv
    BY DEF Init
<1>1. "#" \in DOMAIN root /\ \A to \in DOMAIN root : root[to] \in Schemas
    OBVIOUS
<1>2. call \in CountedGoals
    BY <1>1, NewGoals DEF Start
<1>3. /\ defs = root /\ subject = n /\ answer = "none" /\ stack = <<>> /\ follows = MaxRefFollows
      /\ cut = FALSE /\ phase = "walking"
    BY DEF Start
<1>4. "#" \in DOMAIN defs /\ \A to \in DOMAIN defs : defs[to] \in Schemas
    BY <1>1, <1>3
<1>5. stack \in Seq(Calls) /\ stack \in Seq(CountedCalls)
    BY <1>3
<1>6. TypeOK
  <2>1. follows \in 0 .. MaxRefFollows
      BY <1>3, LimitsAssumption
  <2>2. call \in Goals
      BY <1>2, CountedAreCalls
  <2> QED BY <1>3, <1>4, <1>5, <2>1, <2>2 DEF TypeOK
<1> QED BY <1>2, <1>5, <1>6 DEF IInv

\* A goal that is decided.
LEMMA DecideKeeps == ASSUME IInv, Decide, UNCHANGED <<defs, subject, phase>> PROVE IInv'
<1>1. /\ call' = None /\ answer' \in {"passed", "failed"}
      /\ stack' = stack /\ follows' = follows /\ cut' = cut
    BY DEF Decide, Say
<1> QED BY <1>1 DEF IInv, TypeOK

\* A $ref that is followed is one more, and is counted.
LEMMA FollowKeeps == ASSUME IInv, Follow, UNCHANGED <<defs, subject, phase>> PROVE IInv'
<1> DEFINE d == defs[call.schema.to]
           next == [Same(call, d) EXCEPT !.depth = call.depth + 1, !.hops = @ + 1]
           groups == <<Group("all", <<next>>)>>
           c == Frame(call, groups, FALSE)
<1>1. call \in CountedGoals /\ call \in Goals /\ d \in Schemas
    BY CountedAreCalls DEF IInv, TypeOK, Follow
<1>2. call.depth \in 0 .. MaxRefDepth /\ call.depth < MaxRefDepth /\ follows # 0
    BY <1>1, LimitsAssumption DEF Follow, Refused, Goals
<1>3. next \in CountedGoals
  <2> DEFINE same == Same(call, d)
  <2>1. same \in Goals /\ Counted(same) /\ same.depth = call.depth
      BY <1>1, NewGoals DEF CountedGoals, Same, Goals
  <2> HIDE DEF same, d
  <2>2. call.depth + 1 \in 0 .. MaxRefDepth
      BY <1>2, LimitsAssumption
  <2> DEFINE one == [same EXCEPT !.depth = call.depth + 1]
             two == [one EXCEPT !.hops = one.hops + 1]
  <2>3. one \in Goals /\ one.depth = call.depth + 1 /\ one.hops = same.hops /\ one.dependent = same.dependent
      BY <2>1, <2>2 DEF Goals
  <2>4. next = two
      BY DEF same
  <2> HIDE DEF one, next
  <2>5. two \in Goals /\ two.depth = one.depth /\ two.hops = one.hops + 1 /\ two.dependent = one.dependent
      BY <2>3 DEF Goals
  <2>6. Counted(two)
      BY <1>2, <2>1, <2>3, <2>5 DEF Goals, Counted
  <2> QED BY <2>4, <2>5, <2>6 DEF CountedGoals
<1> HIDE DEF next
<1>4. groups \in Seq(CountedGroups)
    BY <1>3 DEF Group, CountedGroups
<1> HIDE DEF groups
<1>5. c \in CountedCalls
    BY <1>1, <1>4 DEF Frame, CountedCalls
<1> HIDE DEF c
<1>6. stack' = <<c>> \o stack /\ call' = None /\ answer' = answer /\ cut' = cut /\ follows' = follows - 1
    BY DEF Follow, c, groups, next
<1>7. stack' \in Seq(CountedCalls) /\ stack' \in Seq(Calls)
    BY <1>5, <1>6, PushIs
<1>8. follows' \in 0 .. MaxRefFollows
    BY <1>2, <1>6, LimitsAssumption DEF IInv, TypeOK
<1> QED BY <1>6, <1>7, <1>8 DEF IInv, TypeOK

\* A $ref that is refused.
LEMMA RefuseKeeps == ASSUME IInv, Refuse, UNCHANGED <<defs, subject, phase>> PROVE IInv'
<1>1. follows' \in 0 .. MaxRefFollows
    BY LimitsAssumption DEF Refuse, Refused, IInv, TypeOK
<1>2. call' = None /\ answer' = "failed" /\ stack' = stack /\ cut' = TRUE
    BY DEF Refuse, Say
<1> QED BY <1>1, <1>2 DEF IInv, TypeOK

\* The keywords of an object schema.
LEMMA OpenKeeps == ASSUME IInv, Open, UNCHANGED <<defs, subject, phase>> PROVE IInv'
<1> DEFINE s == call.schema
           groups == ObjectGroups(call, s) \o ArrayGroups(call, s) \o CombinatorGroups(call, s)
           c == Frame(call, groups, FailsHere(call.node, s))
<1>1. call \in CountedGoals /\ s.k = "object"
    BY DEF IInv, Open
<1>2. groups \in Seq(CountedGroups)
  <2>1. /\ ObjectGroups(call, s) \in Seq(CountedGroups) /\ ArrayGroups(call, s) \in Seq(CountedGroups)
        /\ CombinatorGroups(call, s) \in Seq(CountedGroups)
      BY <1>1, ObjectGoals, ArrayGoals, CombinatorGoals
  <2> QED BY <2>1
<1> HIDE DEF groups, s
<1>3. FailsHere(call.node, s) \in BOOLEAN
    BY DEF FailsHere
<1>4. c \in CountedCalls
    BY <1>1, <1>2, <1>3 DEF Frame, CountedCalls
<1>5. /\ stack' = <<c>> \o stack /\ call' = None
      /\ answer' = answer /\ follows' = follows /\ cut' = cut
    BY DEF Open, s, groups
<1> HIDE DEF c
<1>6. stack' \in Seq(CountedCalls) /\ stack' \in Seq(Calls)
    BY <1>4, <1>5, PushIs
<1> QED BY <1>5, <1>6 DEF IInv, TypeOK

\* The answer of a goal.
LEMMA TakeKeeps == ASSUME IInv, Take, UNCHANGED <<defs, subject, phase>> PROVE IInv'
<1> DEFINE hits == IF answer = "passed" THEN Top.hits + 1 ELSE Top.hits
           failed == Top.failed \/ (Head(Top.groups).rule = "all" /\ answer = "failed")
           c == [goal |-> Top.goal, groups |-> Top.groups, hits |-> hits, failed |-> failed]
<1>1. stack # <<>> /\ Top \in CountedCalls
    BY StackIs DEF Take
<1>2. hits \in Nat /\ failed \in BOOLEAN
    BY <1>1, CallIs
<1>3. SetTop([Top EXCEPT !.hits = hits, !.failed = failed])
    BY DEF Take
<1>4. answer' = "none" /\ call' = call /\ follows' = follows /\ cut' = cut
    BY DEF Take
<1> HIDE DEF hits, failed
<1>5. [Top EXCEPT !.hits = hits, !.failed = failed] \in CountedCalls
    BY <1>1, <1>2 DEF CountedCalls
<1>6. stack' \in Seq(CountedCalls) /\ stack' \in Seq(Calls)
    BY <1>1, <1>3, <1>5, SetTopIs
<1> QED BY <1>4, <1>6 DEF IInv, TypeOK

\* The next goal of a call is one of those it has.
LEMMA TryKeeps == ASSUME IInv, Try, UNCHANGED <<defs, subject, phase>> PROVE IInv'
<1> DEFINE gs == Top.groups
           g == Head(gs)
           c == [Top EXCEPT !.groups[1].goals = Tail(@)]
<1>1. stack # <<>> /\ Top \in CountedCalls /\ gs # <<>> /\ g.goals # <<>>
    BY StackIs DEF Try, Resting, Settled
<1>2. g \in CountedGroups /\ g.goals \in Seq(CountedGoals) /\ gs \in Seq(CountedGroups) /\ g = gs[1]
    BY <1>1, CallIs
<1>3. Head(g.goals) \in CountedGoals /\ Tail(g.goals) \in Seq(CountedGoals)
  <2> DEFINE goals == g.goals
  <2>1. goals \in Seq(CountedGoals) /\ goals # <<>>
      BY <1>1, <1>2
  <2> HIDE DEF goals
  <2>2. Head(goals) \in CountedGoals /\ Tail(goals) \in Seq(CountedGoals)
      BY <2>1
  <2> QED BY <2>2 DEF goals
<1>4. c \in CountedCalls
  <2> DEFINE h == [g EXCEPT !.goals = Tail(g.goals)]
             hs == [gs EXCEPT ![1] = h]
  <2>1. h \in CountedGroups
      BY <1>2, <1>3 DEF CountedGroups
  <2>2. c = [Top EXCEPT !.groups = hs]
    <3>1. c = [Top EXCEPT !.groups = [Top.groups EXCEPT ![1] = [Top.groups[1] EXCEPT !.goals = Tail(Top.groups[1].goals)]]]
        OBVIOUS
    <3> QED BY <1>2, <3>1
  <2> HIDE DEF h, gs
  <2>3. hs \in Seq(CountedGroups)
    <3>1. gs \in Seq(CountedGroups) /\ gs # <<>>
        BY <1>1, <1>2 DEF gs
    <3>2. Len(gs) \in Nat /\ DOMAIN gs = 1 .. Len(gs) /\ hs \in [1 .. Len(gs) -> CountedGroups]
        BY <2>1, <3>1
    <3> HIDE DEF hs
    <3> QED BY <3>2
  <2> HIDE DEF hs
  <2>4. [Top EXCEPT !.groups = hs] \in CountedCalls
      BY <1>1, <2>3 DEF CountedCalls
  <2> QED BY <2>2, <2>4
<1>5. SetTop(c) /\ call' = Head(g.goals) /\ answer' = answer /\ follows' = follows /\ cut' = cut
    BY DEF Try
<1> HIDE DEF c
<1>6. stack' \in Seq(CountedCalls) /\ stack' \in Seq(Calls)
    BY <1>1, <1>4, <1>5, SetTopIs
<1>7. call' \in CountedGoals /\ call' \in Goals
    BY <1>3, <1>5, CountedAreCalls
<1> QED BY <1>5, <1>6, <1>7 DEF IInv, TypeOK

\* A group is done with.
LEMMA ConcludeKeeps == ASSUME IInv, Conclude, UNCHANGED <<defs, subject, phase>> PROVE IInv'
<1> DEFINE rest == Tail(Top.groups)
           failed == Top.failed \/ Broken(Head(Top.groups).rule, Top.hits)
           c == [Top EXCEPT !.groups = rest, !.hits = 0, !.failed = failed]
<1>1. stack # <<>> /\ Top \in CountedCalls /\ Top.groups # <<>>
    BY StackIs DEF Conclude, Resting
<1>2. rest \in Seq(CountedGroups) /\ failed \in BOOLEAN
    BY <1>1, CallIs
<1>3. SetTop(c) /\ answer' = answer /\ call' = call /\ follows' = follows /\ cut' = cut
    BY DEF Conclude
<1> HIDE DEF rest, failed
<1>4. c \in CountedCalls
    BY <1>1, <1>2 DEF CountedCalls
<1> HIDE DEF c
<1>5. stack' \in Seq(CountedCalls) /\ stack' \in Seq(Calls)
    BY <1>1, <1>3, <1>4, SetTopIs
<1> QED BY <1>3, <1>5 DEF IInv, TypeOK

\* A call returns.
LEMMA ReturnKeeps == ASSUME IInv, Return, UNCHANGED <<defs, subject, phase>> PROVE IInv'
<1>1. stack # <<>> /\ stack' = Tail(stack) /\ answer' \in {"passed", "failed"}
    BY DEF Return, Resting, Say
<1>2. call' = call /\ follows' = follows /\ cut' = cut
    BY DEF Return
<1>3. stack' \in Seq(CountedCalls) /\ stack' \in Seq(Calls)
    BY <1>1, StackIs
<1> QED BY <1>1, <1>2, <1>3 DEF IInv, TypeOK

\* Every step of the walk keeps the invariant.
LEMMA NextKeeps == ASSUME IInv, [Next]_vars PROVE IInv'
<1>1. CASE Walk
  <2>1. UNCHANGED <<defs, subject, phase>>
      BY <1>1 DEF Walk
  <2> QED BY <1>1, <2>1, DecideKeeps, FollowKeeps, RefuseKeeps, OpenKeeps, TakeKeeps, TryKeeps,
            ConcludeKeeps, ReturnKeeps DEF Walk
<1>2. CASE End
    BY <1>2 DEF End, IInv, TypeOK
<1>3. CASE UNCHANGED vars
    BY <1>3 DEF vars, walk, IInv, TypeOK
<1> QED BY <1>1, <1>2, <1>3 DEF Next

\* No goal follows more $refs at its node than it counts, and no count is past the
\* limit, whatever the combinators between two $refs.
THEOREM ValidatorInvariant == Spec => []IInv
<1>1. Init => IInv
    BY InitIInv
<1>2. IInv /\ [Next]_vars => IInv'
    BY NextKeeps
<1> QED BY <1>1, <1>2, PTL DEF Spec

\* The budget of the $refs followed in all is never overdrawn, and no call is made
\* of anything but the document's nodes and the schema's parts.
THEOREM ValidatorTypeOK == Spec => []TypeOK
<1>1. IInv => TypeOK
    BY DEF IInv
<1> QED BY <1>1, ValidatorInvariant, PTL

\* Every chain of $refs at one node is within MaxRefDepth, for any schema, one that
\* leads back to itself through combinators too, and any document.
THEOREM ValidatorHopsBounded == Spec => []HopsBounded
<1>1. ASSUME NEW g \in CountedGoals PROVE g.dependent \/ g.hops <= MaxRefDepth
    BY LimitsAssumption DEF CountedGoals, Goals, Counted
<1>2. ASSUME IInv PROVE HopsBounded
  <2>1. call # None => call \in CountedGoals
      BY <1>2 DEF IInv
  <2>2. \A i \in DOMAIN stack : stack[i] \in CountedCalls
      BY <1>2 DEF IInv
  <2>3. \A i \in DOMAIN stack : stack[i].goal \in CountedGoals
      BY <2>2 DEF CountedCalls
  <2> QED BY <1>1, <2>1, <2>3 DEF HopsBounded
<1> QED BY <1>2, ValidatorInvariant, PTL
=============================================================================
