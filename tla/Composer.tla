------------------------------ MODULE Composer ------------------------------
(***************************************************************************)
(* The round-trip composer (src/roundtrip/composer.rs) as a reader of the   *)
(* same event stream as the decoder.  Positions, styles and comments, which *)
(* it also records, are left out.                                           *)
(***************************************************************************)
EXTENDS Frames

CONSTANTS KeepEmpty     \* "keep_empty": the values compose_all and compose give it

VARIABLE com    \* the composer: a Reader, with the properties pending and keep_empty

ComposerInit == \E k \in KeepEmpty : com = ReaderWith([tag |-> None, anchor |-> None, keepEmpty |-> k])

DocumentEnds == {"StreamEnd", "DocEnd", "DocStart"}
KeyEvents == {"Key", "KeyExplicit"}
-----------------------------------------------------------------------------
(***************************************************************************)
(* compose_stream.  Its anchors are cleared where a document begins, and    *)
(* what follows a root node is not looked at.                               *)
(***************************************************************************)
ComposeBetween ==
    /\ At(com, "stream") /\ event.tok \in {"StreamStart", "StreamEnd"}
    /\ com' = Take(com)

ComposeDirective ==
    /\ At(com, "stream") /\ event.tok = "Directive"
    /\ com' = [Take(com) EXCEPT !.directives = @ \union {event.arg}]

ComposeDocument ==
    /\ At(com, "stream") /\ event.tok \notin {"StreamStart", "StreamEnd", "Directive"}
    /\ LET r == [com EXCEPT !.anchors = {}]
       IN  com' = IF event.tok = "DocStart" THEN CallNode(Call(Take(r), Frame("explicit", FALSE)), "other")
                  ELSE CallNode(Call(r, Frame("implicit", FALSE)), "other")

\* Mutant: the directives of an empty document that is dropped stay for the next.
Dropped_DirectivesStay(r) == r
Dropped(r) == [r EXCEPT !.directives = {}]

\* An implicit document that is empty skips the event that made it.
ComposeDocumentDone ==
    /\ Back(com, "explicit") \/ Back(com, "implicit")
    /\ LET explicit == Top(com).at = "explicit"
           kept == com.ret = "node" \/ (explicit /\ com.keepEmpty)
           r == IF kept THEN [com EXCEPT !.document = <<com.ret = "none", com.directives>>, !.directives = {}]
                ELSE IF explicit THEN Dropped(com)
                ELSE com
           done == Return(r, "pending")
       IN  com' = IF (~explicit /\ ~kept) \/ (explicit /\ event.tok = "DocEnd") THEN Take(done) ELSE done
-----------------------------------------------------------------------------
(***************************************************************************)
(* compose_node.  The properties read are fields of the composer, taken by  *)
(* the node that follows.                                                   *)
(***************************************************************************)
ComposeTag ==
    /\ At(com, "node") /\ event.tok = "Tag"
    /\ com' = [Take(com) EXCEPT !.tag = IF event.arg = "core" THEN "core" ELSE "custom"]

ComposeAnchor ==
    /\ At(com, "node") /\ event.tok = "Anchor"
    /\ com' = IF com.anchor # None THEN Failed(com) ELSE [Take(com) EXCEPT !.anchor = event.arg]

Owning(r) ==
    [r EXCEPT !.stack[Len(r.stack)].tag = r.tag, !.stack[Len(r.stack)].anchor = r.anchor,
              !.tag = None, !.anchor = None]

Recorded(r) ==
    IF Top(r).anchor = None THEN r
    ELSE Put([r EXCEPT !.anchors = @ \union {Top(r).anchor}], "anchor")
WithTag(r) ==
    CASE Top(r).tag = "custom" -> Put(r, "tag")
      [] Top(r).tag = "indentless" -> Put(r, "indentless tag")
      [] OTHER -> r
Composed(r) == Return(Recorded(WithTag(r)), "node")

\* The check decode_mapping shares: no block collection is an implicit key.
BlockKey == Top(com).place = "bare key" /\ event.tok \in BlockOpeners \union {"Entry"}
ComposeBlockKey == At(com, "node") /\ BlockKey /\ com' = Failed(com)

ComposeScalar ==
    /\ At(com, "node") /\ event.tok = "Scalar"
    /\ com' = Take(Composed(Put(Owning(com), "scalar")))

ComposeAlias ==
    /\ At(com, "node") /\ event.tok = "Alias"
    /\ LET r == Owning(com)
       IN  com' = IF com.tag # None \/ com.anchor # None \/ event.arg \notin com.anchors THEN Failed(r)
                  ELSE Take(Return(Put(r, "alias"), "node"))

ComposeCollection ==
    /\ At(com, "node") /\ event.tok \in Openers /\ ~BlockKey
    /\ LET at == IF event.tok \in {"BlockMap", "FlowMap"} THEN "mapping" ELSE "sequence"
       IN  com' = Take(Call(Opened(Put(Owning(com), at)),
                            Frame(at, event.tok \in FlowOpenings)))

ComposeCollected == Back(com, "collected") /\ com' = Composed(com)

IndentlessHere == event.tok = "Entry" /\ Top(com).place = "value"
ComposeIndentless ==
    /\ At(com, "node") /\ IndentlessHere
    /\ LET r == [Owning(com) EXCEPT !.stack[Len(com.stack)].tag = IF com.tag = "custom" THEN "indentless" ELSE com.tag]
       IN  com' = Call(Opened(Put(r, "sequence")), Frame("indentless", FALSE))

ComposeEmpty ==
    /\ At(com, "node") /\ event.tok \notin NodeStarts /\ ~BlockKey /\ ~IndentlessHere
    /\ com' = IF com.tag = None /\ com.anchor = None THEN Return(Owning(com), "none")
              ELSE Composed(Put(Owning(com), "null"))
-----------------------------------------------------------------------------
(***************************************************************************)
(* compose_mapping.                                                         *)
(***************************************************************************)
ComposeMappingEnd ==
    /\ At(com, "mapping") /\ event.tok \in {"FlowMapEnd", "BlockEnd"} \union DocumentEnds
    /\ LET r == Return(Put(com, "end"), "node")
       IN  com' = IF event.tok \in DocumentEnds THEN r ELSE Take(r)

ComposeMappingComma == At(com, "mapping") /\ event.tok = "FlowEntry" /\ com' = Take(com)

ComposeKey ==
    /\ At(com, "mapping") /\ event.tok \in KeyEvents
    /\ com' = CallNode(Go(Take(com), "key"), "other")

ComposeKeyDone ==
    /\ Back(com, "key")
    /\ LET r == OrNull(com)
       IN  com' = CallNode(Go(IF event.tok = "Value" THEN Take(r) ELSE r, "value"), "value")

ComposeBareKey ==
    /\ At(com, "mapping")
    /\ event.tok \notin {"FlowMapEnd", "BlockEnd", "FlowEntry"} \union DocumentEnds \union KeyEvents
    /\ com' = CallNode(Go(com, IF event.tok = "Scalar" THEN "bare scalar" ELSE "bare key"),
                       IF Top(com).flow THEN "other" ELSE "bare key")

ComposeBareKeyDone ==
    /\ Back(com, "bare scalar") \/ Back(com, "bare key")
    /\ LET r == OrNull(com)
       IN  com' = IF event.tok = "Value" THEN CallNode(Go(Take(r), "value"), "value")
                  ELSE IF ~Top(com).flow /\ Top(com).at = "bare scalar" THEN Failed(com)
                  ELSE IF com.ret = "none" THEN Return(Put(Put(r, "null"), "end"), "node")
                  ELSE Go(Put(r, "null"), "mapping")

ComposeValueDone == Back(com, "value") /\ com' = Go(OrNull(com), "mapping")
-----------------------------------------------------------------------------
(***************************************************************************)
(* compose_sequence, compose_sequence_item, compose_block_sequence, and the *)
(* entry after a "-" that both kinds of block sequence share.               *)
(***************************************************************************)
ComposeSequenceEnd ==
    /\ At(com, "sequence") /\ event.tok \in Closers \union DocumentEnds
    /\ LET r == Return(Put(com, "end"), "node")
       IN  com' = IF event.tok \in DocumentEnds THEN r ELSE Take(r)

ComposeEntry ==
    /\ At(com, "sequence") /\ event.tok \notin Closers \union DocumentEnds
    /\ com' = CASE event.tok = "Entry" -> Call(Go(Take(com), "item"), Frame("block entry", FALSE))
                [] event.tok = "FlowEntry" -> Call(Go(Take(com), "item"), Frame("entry", Top(com).flow))
                [] OTHER -> Call(Go(com, "first item"), Frame("entry", Top(com).flow))

ComposeEntryDone ==
    /\ Back(com, "item") \/ Back(com, "first item")
    /\ com' = IF com.ret = "none" /\ Top(com).at = "first item" THEN Return(Put(com, "end"), "node")
              ELSE Go(com, "sequence")

ComposeBlockEntry ==
    /\ At(com, "block entry")
    /\ com' = IF event.tok \in {"Entry"} \union Closers \union KeyEvents THEN Return(Put(com, "null"), "node")
              ELSE CallNode(com, "other")
ComposeBlockEntryDone == Back(com, "block entry") /\ com' = Return(com, com.ret)

ComposeItem ==
    /\ At(com, "entry")
    /\ com' = IF Top(com).flow /\ event.tok \in KeyEvents THEN CallNode(Go(Take(com), "pair key"), "other")
              ELSE IF Top(com).flow /\ event.tok = "Value"
                   THEN CallNode(Go(Take(Put(Put(com, "null"), "pair")), "pair value"), "other")
              ELSE CallNode(Go(com, "item node"), "other")

ComposeItemDone ==
    /\ Back(com, "item node")
    /\ com' = IF com.ret = "node" /\ Top(com).flow /\ event.tok = "Value"
              THEN CallNode(Go(Take(Put(com, "pair")), "pair value"), "other")
              ELSE Return(com, com.ret)

ComposePairKeyDone ==
    /\ Back(com, "pair key")
    /\ LET r == Put(OrNull(com), "pair")
       IN  com' = CallNode(Go(IF event.tok = "Value" THEN Take(r) ELSE r, "pair value"), "other")

ComposePairDone == Back(com, "pair value") /\ com' = Return(Put(OrNull(com), "end pair"), "node")

ComposeIndentlessEntry ==
    /\ At(com, "indentless")
    /\ LET r == Return(Put(com, "end"), "node")
       IN  com' = IF event.tok = "Entry" THEN Call(Go(Take(com), "level item"), Frame("block entry", FALSE))
                  ELSE IF event.tok = "FlowMapEnd" THEN Take(r)
                  ELSE r

ComposeIndentlessDone == Back(com, "level item") /\ com' = Go(com, "indentless")
-----------------------------------------------------------------------------
Compose ==
    /\ ~com.taken /\ ~com.failed
    /\ \/ ComposeBetween \/ ComposeDirective \/ ComposeDocument \/ ComposeDocumentDone
       \/ ComposeTag \/ ComposeAnchor \/ ComposeBlockKey \/ ComposeScalar \/ ComposeAlias
       \/ ComposeCollection \/ ComposeCollected \/ ComposeIndentless \/ ComposeEmpty
       \/ ComposeMappingEnd \/ ComposeMappingComma \/ ComposeKey \/ ComposeKeyDone
       \/ ComposeBareKey \/ ComposeBareKeyDone \/ ComposeValueDone
       \/ ComposeSequenceEnd \/ ComposeEntry \/ ComposeEntryDone
       \/ ComposeBlockEntry \/ ComposeBlockEntryDone \/ ComposeItem \/ ComposeItemDone
       \/ ComposePairKeyDone \/ ComposePairDone
       \/ ComposeIndentlessEntry \/ ComposeIndentlessDone
=============================================================================
