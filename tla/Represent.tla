------------------------------ MODULE Represent ------------------------------
(* dumps(obj, represent=...): the Lower walk of src/ffi/represent.rs, which     *)
(* turns a graph of Python objects into a tree of nodes, one call of lower per  *)
(* object, with an anchor and aliases for what is shared. An object's address   *)
(* is its identity: seen and aliased are sets of addresses. An object says of   *)
(* itself what the branches of render and deferred_node ask:                    *)
(*   seq, map     a container it owns (a map is key, value, key, value, ...)    *)
(*   described    represent() answers with a tagged YAMLRocksSequence over it   *)
(*   leaf         a datetime, Decimal, UUID, Path: a scalar it owns             *)
(*   tag          a YAMLRocksTag, or a type in serializers: a tag on one value  *)
(*   enum         stands for another object: its value                          *)
(*   array        numpy: tolist() makes a new list at every call                *)
(*   default      no rendering: default() answers with an object that lives on  *)
(*   fresh        no rendering: default() makes a new list at every call        *)
(* The callbacks answer the same way for the same object, and return. Depth is  *)
(* the length of the stack of calls. Comments, styles and tag spelling are left *)
(* out, but for the order of a map's keys.                                      *)
EXTENDS Naturals, Sequences, SequencesExt, TLC

CONSTANTS
  Objects,   \* the objects the caller holds, each at an address of its own
  Root,      \* the one handed to dumps
  Temps,     \* the addresses the callbacks' new lists can be given
  MaxDepth,  \* MAX_REPRESENT_DEPTH, and MAX_ENCODE_DEPTH, both 1000
  NoOne

ASSUME RepresentAssumption == Root \in Objects /\ Objects \cap Temps = {} /\ NoOne \notin Objects \cup Temps

VARIABLES
  heap,      \* what is at each address
  stack,     \* the calls of lower under way: [obj, todo, done, prev]
  ctl,       \* what happens next: lower an object, return a node, or the end
  seen,      \* addresses lowered so far
  aliased,   \* those met again
  retained,  \* those kept alive until the walk ends
  default    \* encode.default: whether the callback may be called

vars == <<heap, stack, ctl, seen, aliased, retained, default>>

Texts == {"a", "b"}  \* strings: never aliased, sorted a before b
Refs == Texts \cup Objects

Collections == {"seq", "map", "described"}
Delegating == {"enum", "array", "default", "fresh"}
Leaf == [kind |-> "leaf", kids |-> <<>>]
Of(kind, kidses) == {[kind |-> kind, kids |-> kids] : kids \in kidses}
AtMost1 == {<<>>} \cup {<<r>> : r \in Refs}
Just1 == {<<r>> : r \in Refs}

(* The objects a caller can hand over: the root holds two values, so that the   *)
(* two others can be shared, nested and wrapped in every way.                   *)
Pairs == {<<q, r>> : q, r \in {"a"} \cup Objects}
Maps == Of("map", {<<"b", q, "a", r>> : q, r \in {"a"} \cup Objects}
                  \cup {<<o, "a", "a", r>> : o \in Objects \ {Root}, r \in Objects})
Others == Of("seq", AtMost1 \cup {p \in Pairs : p[1] \in Objects /\ p[2] \in Objects})
          \cup Of("described", AtMost1) \cup Of("tag", Just1) \cup Of("enum", Just1)
          \cup Of("default", Just1) \cup Of("fresh", AtMost1)
          \cup {Leaf, [kind |-> "array", kids |-> <<"a">>]}

Kids(h, os) == UNION {{h[o].kids[i] : i \in DOMAIN h[o].kids} : o \in os} \cap Objects
Reached(h) == LET one == {Root} \cup Kids(h, {Root}) IN one \cup Kids(h, one)
(* A key is hashable: a tuple, not a list, and so it cannot hold itself.        *)
Within(h, o) == LET one == IF h[o].kind = "seq" THEN Kids(h, {o}) ELSE {}
                IN one \cup Kids(h, {p \in one : h[p].kind = "seq"})
Hashable(h, o) == \A p \in {o} \cup Within(h, o) : h[p].kind \notin {"map", "array"} /\ p \notin Within(h, p)
Heaps == {h \in [Objects -> Of("seq", Pairs) \cup Maps \cup Others] :
            /\ h[Root] \in Of("seq", Pairs) \cup Maps
            /\ \A o \in Objects \ {Root} : IF o \in Reached(h) THEN h[o] \in Others ELSE h[o] = Leaf
            /\ h[Root].kind = "map" /\ h[Root].kids[1] \in Objects => Hashable(h, h[Root].kids[1])}

(* The nodes: a scalar, an alias to an address, or a collection; anchor is the  *)
(* address marker, made the object whose rendering the node is.                 *)
Node(kind, to, kids) ==
  [kind |-> kind, to |-> to, kids |-> kids, anchor |-> NoOne, tag |-> FALSE, made |-> NoOne]
Owned(o, node) == [node EXCEPT !.anchor = o, !.made = o]

Lower(r) == ctl' = [at |-> "lower", arg |-> r]
Return(node) == ctl' = [at |-> "return", arg |-> node]
Fail(why) == ctl' = [at |-> "error", arg |-> why] /\ UNCHANGED <<heap, stack, seen, aliased, retained, default>>
It == ctl.arg

Init == /\ \E h \in Heaps : heap = h @@ [t \in Temps |-> Leaf]
        /\ ctl = [at |-> "lower", arg |-> Root]
        /\ stack = <<>> /\ seen = {} /\ aliased = {} /\ retained = {} /\ default = TRUE

-----------------------------------------------------------------------------
(* Entering lower_inner.                                                        *)

TooDeep == ctl.at = "lower" /\ Len(stack) >= MaxDepth /\ Fail("deep")

Entering == ctl.at = "lower" /\ Len(stack) < MaxDepth

LowerText ==
  /\ Entering /\ It \in Texts
  /\ Return(Node("scalar", It, <<>>))
  /\ UNCHANGED <<heap, stack, seen, aliased, retained, default>>

(* Everything but a primitive is aliasable: a repeat is an alias.               *)
LowerRepeat ==
  /\ Entering /\ It \in seen
  /\ aliased' = aliased \cup {It}
  /\ Return(Node("alias", It, <<>>))
  /\ UNCHANGED <<heap, stack, seen, retained, default>>

(* Mutant: nothing keeps the objects alive.                                     *)
Visit_NotRetained(kinds) ==
  /\ Entering /\ It \notin Texts \cup seen /\ heap[It].kind \in kinds
  /\ seen' = seen \cup {It}
  /\ UNCHANGED <<aliased, retained>>

(* A first occurrence is marked, and kept alive, before its children.           *)
Visit(kinds) ==
  /\ Entering /\ It \notin Texts \cup seen /\ heap[It].kind \in kinds
  /\ seen' = seen \cup {It}
  /\ retained' = retained \cup {It}
  /\ UNCHANGED aliased

Push(todo) ==
  stack' = <<[obj |-> It, todo |-> Tail(todo), done |-> <<>>, prev |-> default]>> \o stack


LowerLeaf ==
  /\ Visit({"leaf"})
  /\ Return(Owned(It, Node("scalar", "leaf", <<>>)))
  /\ UNCHANGED <<heap, stack, default>>

(* sorted_pairs: strings in order, then every other key in the order given.     *)
Sorted(o) ==
  IF o.kind # "map" THEN o.kids
  ELSE LET k == o.kids
           late == k[3] \in Texts /\ (k[1] \notin Texts \/ (k[1] = "b" /\ k[3] = "a"))
       IN IF late THEN <<k[3], k[4], k[1], k[2]>> ELSE k

(* A described collection carries its descriptor's tag.                         *)
Collection(o, kids) ==
  [Node(IF o.kind = "map" THEN "map" ELSE "seq", NoOne, kids) EXCEPT !.tag = (o.kind = "described")]

OpenCollection ==
  /\ Visit(Collections)
  /\ LET kids == Sorted(heap[It]) IN
       IF kids = <<>> THEN Return(Owned(It, Collection(heap[It], <<>>))) /\ UNCHANGED stack
       ELSE Push(kids) /\ Lower(Head(kids))
  /\ UNCHANGED <<heap, default>>

OpenTag ==
  /\ Visit({"tag"})
  /\ Push(heap[It].kids) /\ Lower(heap[It].kids[1])
  /\ UNCHANGED <<heap, default>>

OpenEnum ==
  /\ Visit({"enum"})
  /\ Push(heap[It].kids) /\ Lower(heap[It].kids[1])
  /\ UNCHANGED <<heap, default>>

(* A new list takes a free address: one that nothing holds, be it the address   *)
(* of an earlier list that is gone.                                             *)
Held == retained \cup {stack[i].obj : i \in DOMAIN stack}
NewList(kids) ==
  LET t == CHOOSE t \in Temps : t \notin Held
  IN heap' = [heap EXCEPT ![t] = [kind |-> "seq", kids |-> kids]] /\ Lower(t)

OpenArray ==
  /\ Visit({"array"})
  /\ Push(<<It>>) /\ NewList(heap[It].kids)
  /\ UNCHANGED default

(* default() answers for a type without a rendering; its result is lowered with *)
(* default taken away.                                                          *)
CallDefault ==
  /\ default
  /\ Visit({"default", "fresh"})
  /\ Push(<<It>>) /\ default' = FALSE
  /\ IF heap[It].kind = "fresh" THEN NewList(heap[It].kids)
     ELSE Lower(heap[It].kids[1]) /\ UNCHANGED heap

Unserializable ==
  /\ ~default
  /\ Entering /\ It \notin Texts \cup seen /\ heap[It].kind \in {"default", "fresh"}
  /\ Fail("unserializable")

-----------------------------------------------------------------------------
(* A child's node comes back to the call on top of the stack.                   *)

Top == Head(stack)
Back(kinds) == ctl.at = "return" /\ stack # <<>> /\ heap[Top.obj].kind \in kinds

(* mapping_node and sequence_node: the next key, value or item, or the end.     *)
TakeChild ==
  /\ Back(Collections)
  /\ LET done == Append(Top.done, It) IN
       IF Top.todo # <<>>
       THEN /\ stack' = [stack EXCEPT ![1].todo = Tail(Top.todo), ![1].done = done]
            /\ Lower(Head(Top.todo))
       ELSE /\ stack' = Tail(stack)
            /\ Return(Owned(Top.obj, Collection(heap[Top.obj], done)))
  /\ UNCHANGED <<heap, seen, aliased, retained, default>>

(* tagged_node: a shared or self-referential value cannot carry the tag, nor    *)
(* one that has a tag; else the inner value is untracked.                       *)
Shared == It.kind = "alias" \/ (~It.tag /\ It.anchor \in aliased)
SharedTag == Back({"tag"}) /\ Shared /\ Fail("shared")
NestedTag == Back({"tag"}) /\ It.tag /\ Fail("nested")
(* Mutant: the value under the tag stays tracked.                               *)
TakeTagged_StaysSeen ==
  /\ Back({"tag"}) /\ ~Shared /\ ~It.tag
  /\ Return(Owned(Top.obj, [It EXCEPT !.tag = TRUE]))
  /\ stack' = Tail(stack)
  /\ UNCHANGED <<heap, seen, aliased, retained, default>>
TakeTagged ==
  /\ Back({"tag"}) /\ ~Shared /\ ~It.tag
  /\ seen' = seen \ {It.anchor}
  /\ Return(Owned(Top.obj, [It EXCEPT !.tag = TRUE]))
  /\ stack' = Tail(stack)
  /\ UNCHANGED <<heap, aliased, retained, default>>

(* The end of lower_inner for an object that stands for another: it produced no *)
(* node, so nothing may alias it, now or later.                                 *)
OnlyItself == Back(Delegating) /\ Top.obj \in aliased /\ Fail("itself")
(* Mutants: the wrapper claims a node that no one owns, as its shape tells; the *)
(* child is untracked with it; default() stays off after its result.            *)
TakeDelegated_ByShape ==
  /\ Back(Delegating) /\ Top.obj \notin aliased
  /\ IF It.kind = "alias" \/ It.anchor # NoOne
     THEN Return(It) /\ seen' = seen \ {Top.obj}
     ELSE Return(Owned(Top.obj, It)) /\ UNCHANGED seen
  /\ default' = Top.prev
  /\ stack' = Tail(stack)
  /\ UNCHANGED <<heap, aliased, retained>>
TakeDelegated_UntracksChild ==
  /\ Back(Delegating) /\ Top.obj \notin aliased
  /\ seen' = seen \ {Top.obj, It.anchor}
  /\ Return([It EXCEPT !.made = IF @ = NoOne THEN Top.obj ELSE @])
  /\ default' = Top.prev
  /\ stack' = Tail(stack)
  /\ UNCHANGED <<heap, aliased, retained>>
TakeDelegated_StaysOff ==
  /\ Back(Delegating) /\ Top.obj \notin aliased
  /\ seen' = seen \ {Top.obj}
  /\ Return([It EXCEPT !.made = IF @ = NoOne THEN Top.obj ELSE @])
  /\ default' = default
  /\ stack' = Tail(stack)
  /\ UNCHANGED <<heap, aliased, retained>>
TakeDelegated ==
  /\ Back(Delegating) /\ Top.obj \notin aliased
  /\ seen' = seen \ {Top.obj}
  /\ Return([It EXCEPT !.made = IF @ = NoOne THEN Top.obj ELSE @])
  /\ default' = Top.prev
  /\ stack' = Tail(stack)
  /\ UNCHANGED <<heap, aliased, retained>>

-----------------------------------------------------------------------------
(* name_anchors: in pre-order, the markers that were aliased get a number, the  *)
(* others go, and an alias gets the number of its marker if it has one by then. *)

NumberOf(names, id) == CHOOSE i \in DOMAIN names : names[i] = id
RECURSIVE NameAnchors(_, _), NameAll(_, _, _)
NameAnchors(node, names) ==
  LET known == node.anchor \in Range(names)
      more == IF node.anchor \in aliased /\ ~known THEN Append(names, node.anchor) ELSE names
      anchor == IF node.anchor \in aliased THEN NumberOf(more, node.anchor) ELSE 0
      rest == NameAll(node.kids, <<>>, more)
      to == IF node.kind = "alias" /\ node.to \in Range(more) THEN NumberOf(more, node.to) ELSE node.to
  IN [node |-> [node EXCEPT !.anchor = anchor, !.to = to, !.kids = rest.kids], names |-> rest.names]
NameAll(kids, done, names) ==
  IF kids = <<>> THEN [kids |-> done, names |-> names]
  ELSE LET first == NameAnchors(Head(kids), names)
       IN NameAll(Tail(kids), Append(done, first.node), first.names)

Finish ==
  /\ ctl.at = "return" /\ stack = <<>>
  /\ ctl' = [at |-> "done", arg |-> NameAnchors(It, <<>>).node]
  /\ UNCHANGED <<heap, stack, seen, aliased, retained, default>>

Ended == ctl.at \in {"done", "error"} /\ UNCHANGED vars

Next == \/ TooDeep \/ LowerText \/ LowerRepeat \/ LowerLeaf
        \/ OpenCollection \/ OpenTag \/ OpenEnum \/ OpenArray \/ CallDefault \/ Unserializable
        \/ TakeChild \/ SharedTag \/ NestedTag \/ TakeTagged \/ OnlyItself \/ TakeDelegated
        \/ Finish \/ Ended

Spec == Init /\ [][Next]_vars

-----------------------------------------------------------------------------
(* A plain dumps of the same object: python_to_value, which has no identity and *)
(* gives up on what it cannot write.                                            *)

RECURSIVE CarriesTag(_)
CarriesTag(r) ==
  /\ r \notin Texts
  /\ \/ heap[r].kind = "tag"
     \/ heap[r].kind \in {"enum", "default"} /\ CarriesTag(heap[r].kids[1])

RECURSIVE DumpsFails(_, _, _)
DumpsFails(r, depth, may) ==
  \/ depth >= MaxDepth
  \/ /\ r \notin Texts
     /\ LET kids == heap[r].kids
            kind == heap[r].kind
            SomeFails(d, m) == \E i \in DOMAIN kids : DumpsFails(kids[i], d, m)
        IN \/ kind \in Collections \cup {"enum"} /\ SomeFails(depth + 1, may)
           \/ kind = "tag" /\ (SomeFails(depth + 1, may) \/ CarriesTag(kids[1]))
           \/ kind = "array" /\ (depth + 1 >= MaxDepth \/ SomeFails(depth + 2, may))
           \/ kind = "default" /\ (~may \/ SomeFails(depth + 1, FALSE))
           \/ kind = "fresh" /\ (~may \/ depth + 1 >= MaxDepth \/ SomeFails(depth + 2, FALSE))

-----------------------------------------------------------------------------
(* What the properties compare. Reading is what an object says, n levels deep;  *)
(* TreeReading what a reader of the finished tree sees, aliases followed.       *)

Say(kind, text, tag, kids) == [kind |-> kind, text |-> text, tag |-> tag, kids |-> kids]

RECURSIVE Reading(_, _)
Reading(r, n) ==
  IF r \in Texts THEN Say("scalar", r, FALSE, <<>>)
  ELSE LET o == heap[r]
           below == IF n = 0 THEN <<>> ELSE [i \in DOMAIN o.kids |-> Reading(Sorted(o)[i], n - 1)]
       IN CASE o.kind = "leaf" -> Say("scalar", "leaf", FALSE, <<>>)
            [] o.kind \in {"enum", "default"} -> Reading(o.kids[1], n)
            [] o.kind = "tag" -> [Reading(o.kids[1], n) EXCEPT !.tag = TRUE]
            [] o.kind = "map" -> Say("map", NoOne, FALSE, below)
            [] OTHER -> Say("seq", NoOne, o.kind = "described", below)

RECURSIVE Preorder(_)
Preorder(node) == <<node>> \o FlattenSeq([i \in DOMAIN node.kids |-> Preorder(node.kids[i])])

RECURSIVE TreeReading(_, _, _)
TreeReading(node, all, n) ==
  IF node.kind = "alias"
  THEN TreeReading(all[CHOOSE i \in DOMAIN all : all[i].anchor = node.to], all, n)
  ELSE Say(node.kind, node.to, node.tag,
           IF n = 0 THEN <<>> ELSE [i \in DOMAIN node.kids |-> TreeReading(node.kids[i], all, n - 1)])

Finished == ctl.at = "done"
Nodes == Preorder(It)

TypeOK ==
  /\ DOMAIN heap = Objects \cup Temps
  /\ aliased \cup retained \subseteq Objects \cup Temps /\ seen \subseteq retained
  /\ default \in BOOLEAN /\ Len(stack) <= MaxDepth
  /\ ctl.at \in {"lower", "return", "done", "error"}

(* In the order the tree is written, every alias follows the one node that has  *)
(* its anchor, and an anchor is there only for an alias: what name_anchors and  *)
(* the untracking of delegated and tagged values must leave.                    *)
AliasesResolve ==
  Finished =>
    /\ \A i \in DOMAIN Nodes : Nodes[i].kind = "alias" =>
         /\ ~Nodes[i].tag /\ Nodes[i].anchor = 0
         /\ \E j \in 1..(i - 1) : Nodes[j].anchor = Nodes[i].to
    /\ \A j \in DOMAIN Nodes : Nodes[j].anchor # 0 =>
         /\ \A i \in DOMAIN Nodes : Nodes[i].anchor = Nodes[j].anchor => i = j
         /\ \E i \in DOMAIN Nodes : Nodes[i].kind = "alias" /\ Nodes[i].to = Nodes[j].anchor

(* What the caller shares stays shared: an object that renders itself has one   *)
(* node in the tree, besides the ones that tags have taken for their own.       *)
RenderedOnce ==
  Finished => \A i, j \in DOMAIN Nodes :
    Nodes[i].made = Nodes[j].made /\ i # j =>
      \/ Nodes[i].made \in Temps \cup {NoOne}
      \/ heap[Nodes[i].made].kind \in Delegating

(* The tree reads as the objects do, as deep as one looks: no alias leads       *)
(* nowhere, to another object's node, to one that has taken a tag since, or to  *)
(* a list that was gone when its address was used again; and an object that is  *)
(* shared is written once.                                                      *)
SameGraph ==
  /\ AliasesResolve
  /\ RenderedOnce
  /\ Finished => TreeReading(It, Nodes, MaxDepth) = Reading(Root, MaxDepth)

(* A conversion is asked again for every occurrence: no alias leads to a list   *)
(* default() or tolist() made, nor to what an enum or a default stands in for.  *)
ConvertedAnew ==
  Finished => \A i, j \in DOMAIN Nodes :
    Nodes[j].kind = "alias" /\ Nodes[i].anchor = Nodes[j].to =>
      Nodes[i].made \notin Temps /\ heap[Nodes[i].made].kind \notin Delegating

(* With a represent() that defers on everything, the walk raises only where a   *)
(* plain dumps does, but for the tag on a shared value that the guide documents.*)
RaisesLikeDumps ==
  /\ ctl.at = "error" /\ It # "shared"
  /\ \A o \in Objects : heap[o].kind # "described"
  => DumpsFails(Root, 0, TRUE)
=============================================================================
