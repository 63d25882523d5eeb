------------------------------ MODULE Decoder -------------------------------
(***************************************************************************)
(* The fast decoder (src/decode/mod.rs) as a reader of the event stream:    *)
(* which node every event goes to, where documents begin and end, and what  *)
(* it rejects.  What a value is, how large an alias expands (charge_nodes:  *)
(* an alias may be one too many) and the optional checks of keys are left   *)
(* out; see MergeKeys for what becomes of a mapping's pairs.                *)
(***************************************************************************)
EXTENDS Frames

VARIABLE dec    \* the decoder: a Reader, and whether a directive may come

DecoderInit == dec = ReaderWith([mayDirect |-> TRUE])

Looks == ~dec.taken /\ ~dec.failed
Ends == {"StreamEnd", "DocEnd", "DocStart"}
KeyMarks == {"Key", "KeyExplicit"}

\* decode_stream, between documents.  A run of directives ends at a document
\* start; a %YAML or a %TAG handle is given once.
DecodeBetween ==
    /\ At(dec, "stream") /\ event.tok \in {"StreamStart", "StreamEnd", "DocEnd"}
    /\ dec' = IF dec.directives # {} THEN Failed(dec)
              ELSE [Take(dec) EXCEPT !.mayDirect = @ \/ event.tok = "DocEnd"]

DecodeDirective ==
    /\ At(dec, "stream") /\ event.tok = "Directive"
    /\ dec' = IF ~dec.mayDirect \/ event.arg \in dec.directives THEN Failed(dec)
              ELSE [Take(dec) EXCEPT !.directives = @ \union {event.arg}]

DecodeDocument ==
    /\ At(dec, "stream") /\ event.tok \notin {"StreamStart", "StreamEnd", "DocEnd", "Directive"}
    /\ LET r == [dec EXCEPT !.mayDirect = FALSE]
       IN  dec' = IF event.tok = "DocStart" THEN CallNode(Call(Take(r), Frame("explicit", FALSE)), "other")
                  ELSE IF dec.directives # {} THEN Failed(dec)
                  ELSE CallNode(Call(r, Frame("implicit", FALSE)), "other")

\* Mutants: anchors stay for the next document; an empty document does not skip.
Closing_KeepsAnchors(r) == [r EXCEPT !.directives = {}]
Skipped_Never(r) == r

\* A document's anchors and %TAG handles end with it.
Closing(r) == [r EXCEPT !.anchors = {}, !.directives = {}]
\* expect_document_boundary.
AtBoundary(t) == t \in Boundaries
\* No node was found and no event taken: progress is forced.
Skipped(r) == Take(r)

\* An explicit document is one even if it is empty; an implicit one is not.
DecodeDocumentDone ==
    /\ Back(dec, "explicit") \/ Back(dec, "implicit")
    /\ LET explicit == Top(dec).at = "explicit"
           found == explicit \/ dec.ret = "node"
           r == Closing(Return(IF found THEN [dec EXCEPT !.document = <<dec.ret = "none", dec.directives>>] ELSE dec,
                               "pending"))
       IN  dec' = IF found /\ ~AtBoundary(event.tok) THEN Failed(dec)
                  ELSE IF ~found THEN Skipped(r)
                  ELSE IF explicit /\ event.tok = "DocEnd" THEN [Take(r) EXCEPT !.mayDirect = TRUE]
                  ELSE r
-----------------------------------------------------------------------------
(***************************************************************************)
(* decode_node: properties, then the node they belong to.                   *)
(***************************************************************************)
\* The anchor is bound when the node is complete, so that none is inside itself.
Bound(r) ==
    IF Top(r).anchor = None THEN r
    ELSE Put([r EXCEPT !.anchors = @ \union {Top(r).anchor}], "anchor")
\* Only an application's tag is kept.
Tagged(r) == IF Top(r).tag = "custom" THEN Put(r, "tag") ELSE r
Built(r) == Return(Bound(Tagged(r)), "node")

\* A named handle must be declared, and stands for an application's tag.
DecodeTag ==
    /\ At(dec, "node") /\ event.tok = "Tag"
    /\ dec' = IF event.arg = "named" /\ "TAG" \notin dec.directives THEN Failed(dec)
              ELSE [Take(dec) EXCEPT !.stack[Len(dec.stack)].tag = IF event.arg = "core" THEN "core" ELSE "custom"]

DecodeAnchor ==
    /\ At(dec, "node") /\ event.tok = "Anchor"
    /\ dec' = IF Top(dec).anchor # None THEN Failed(dec)
              ELSE [Take(dec) EXCEPT !.stack[Len(dec.stack)].anchor = event.arg]

\* block_collection_key_span: an implicit key of a block mapping is on one line.
CollectionKey == Top(dec).place = "bare key" /\ event.tok \in BlockOpeners \union {"Entry"}
DecodeCollectionKey == At(dec, "node") /\ CollectionKey /\ dec' = Failed(dec)

DecodeScalar ==
    /\ At(dec, "node") /\ event.tok = "Scalar"
    /\ dec' = Take(Built(Put(dec, "scalar")))

\* An alias is measured before it is copied.
DecodeAlias ==
    /\ At(dec, "node") /\ event.tok = "Alias"
    /\ \/ dec' = Failed(dec)
       \/ /\ Top(dec).anchor = None /\ Top(dec).tag = None
          /\ event.arg \in dec.anchors
          /\ dec' = Take(Return(Put(dec, "alias"), "node"))

DecodeCollection ==
    /\ At(dec, "node") /\ event.tok \in Openers /\ ~CollectionKey
    /\ LET flow == event.tok \in FlowOpenings
           at == IF event.tok \in {"BlockMap", "FlowMap"} THEN "mapping" ELSE "sequence"
       IN  dec' = Take(Call(Opened(Put(dec, at)), Frame(at, flow)))

DecodeCollected == Back(dec, "collected") /\ dec' = Built(dec)

\* Mutant: an indentless sequence is read in every position.
Indentless_Anywhere == event.tok = "Entry"
\* A sequence at the indent of its key, without an opening token.  Its tag is
\* looked at and not given to it.
Indentless == event.tok = "Entry" /\ Top(dec).place = "value"
DecodeIndentless ==
    /\ At(dec, "node") /\ Indentless
    /\ LET r == [dec EXCEPT !.stack[Len(dec.stack)].tag = None]
       IN  dec' = Call(Opened(Put(r, "sequence")), Frame("indentless", FALSE))

\* Whatever cannot begin a node: it is left for the call around, and a property
\* makes a node of nothing.
DecodeEmpty ==
    /\ At(dec, "node") /\ event.tok \notin NodeStarts /\ ~CollectionKey /\ ~Indentless
    /\ dec' = IF Top(dec).tag = None /\ Top(dec).anchor = None THEN Return(dec, "none")
              ELSE Built(Put(dec, "null"))
-----------------------------------------------------------------------------
(***************************************************************************)
(* decode_mapping.                                                          *)
(***************************************************************************)
DecodeMappingEnd ==
    /\ At(dec, "mapping") /\ event.tok \in {"FlowMapEnd", "BlockEnd"} \union Ends
    /\ LET r == Return(Put(dec, "end"), "node")
       IN  dec' = IF event.tok \in Ends THEN r ELSE Take(r)

DecodeMappingComma == At(dec, "mapping") /\ event.tok = "FlowEntry" /\ dec' = Take(dec)

DecodeKey ==
    /\ At(dec, "mapping") /\ event.tok \in KeyMarks
    /\ dec' = CallNode(Go(Take(dec), "key"), "other")

\* After a Key, a ':' that does not follow makes the value of what does.
DecodeKeyDone ==
    /\ Back(dec, "key")
    /\ LET r == OrNull(dec)
       IN  dec' = CallNode(Go(IF event.tok = "Value" THEN Take(r) ELSE r, "value"), "value")

\* A pair without a Key.
DecodeBareKey ==
    /\ At(dec, "mapping") /\ event.tok \notin {"FlowMapEnd", "BlockEnd", "FlowEntry"} \union Ends \union KeyMarks
    /\ dec' = CallNode(Go(dec, IF event.tok = "Scalar" THEN "bare scalar" ELSE "bare key"),
                       IF Top(dec).flow THEN "other" ELSE "bare key")

DecodeBareKeyDone ==
    /\ Back(dec, "bare scalar") \/ Back(dec, "bare key")
    /\ dec' = IF event.tok = "Value" THEN CallNode(Go(Take(OrNull(dec)), "value"), "value")
              ELSE IF ~Top(dec).flow /\ Top(dec).at = "bare scalar" THEN Failed(dec)
              ELSE LET r == Put(OrNull(dec), "null")
                   IN  IF dec.ret = "none" THEN Return(Put(r, "end"), "node")
                       ELSE Go(r, "mapping")

DecodeValueDone == Back(dec, "value") /\ dec' = Go(OrNull(dec), "mapping")
-----------------------------------------------------------------------------
(***************************************************************************)
(* decode_sequence, decode_sequence_item and decode_block_sequence.         *)
(***************************************************************************)
DecodeSequenceEnd ==
    /\ At(dec, "sequence") /\ event.tok \in Closers \union Ends
    /\ LET r == Return(Put(dec, "end"), "node")
       IN  dec' = IF event.tok \in Ends THEN r ELSE Take(r)

DecodeEntry ==
    /\ At(dec, "sequence") /\ event.tok \notin Closers \union Ends
    /\ LET marked == event.tok \in {"Entry", "FlowEntry"}
           r == Call(Go(dec, IF marked THEN "item" ELSE "first item"), Frame("entry", Top(dec).flow))
       IN  dec' = IF marked THEN Take(r) ELSE r

\* Without a mark, an item that is not there leaves the sequence where it is.
DecodeEntryDone ==
    /\ Back(dec, "item") \/ Back(dec, "first item")
    /\ dec' = IF dec.ret = "none" /\ Top(dec).at = "first item"
              THEN Return(Put(dec, "end"), "node")
              ELSE Go(dec, "sequence")

NothingHere(t) == t \in {"Entry"} \union Closers

\* In a flow sequence "k: v" is a mapping of one pair.
DecodeItem ==
    /\ At(dec, "entry")
    /\ dec' = IF ~Top(dec).flow /\ NothingHere(event.tok) THEN Return(Put(dec, "null"), "node")
              ELSE IF Top(dec).flow /\ event.tok \in KeyMarks
                   THEN CallNode(Go(Take(dec), "pair key"), "other")
              ELSE IF Top(dec).flow /\ event.tok = "Value"
                   THEN CallNode(Go(Take(Put(Put(dec, "null"), "pair")), "pair value"), "other")
              ELSE CallNode(Go(dec, "item node"), "other")

DecodeItemDone ==
    /\ Back(dec, "item node")
    /\ dec' = IF dec.ret = "node" /\ Top(dec).flow /\ event.tok = "Value"
              THEN CallNode(Go(Take(Put(dec, "pair")), "pair value"), "other")
              ELSE Return(dec, dec.ret)

DecodePairKeyDone ==
    /\ Back(dec, "pair key")
    /\ LET r == Put(OrNull(dec), "pair")
       IN  dec' = CallNode(Go(IF event.tok = "Value" THEN Take(r) ELSE r, "pair value"), "other")

DecodePairDone == Back(dec, "pair value") /\ dec' = Return(Put(OrNull(dec), "end pair"), "node")

\* Mutant: the end of the level is taken by the sequence that shares it.
LevelEnds_Taken == {"FlowMapEnd", "BlockEnd"}
LevelEnds == {"FlowMapEnd"}
DecodeIndentlessEntry ==
    /\ At(dec, "indentless")
    /\ LET r == Return(Put(dec, "end"), "node")
       IN  dec' = IF event.tok = "Entry" THEN Go(Take(dec), "level item")
                  ELSE IF event.tok \in LevelEnds THEN Take(r)
                  ELSE r

\* A key here is the next one of the mapping around.
DecodeIndentlessItem ==
    /\ At(dec, "level item")
    /\ dec' = IF NothingHere(event.tok) \/ event.tok \in KeyMarks THEN Go(Put(dec, "null"), "indentless")
              ELSE CallNode(dec, "other")

DecodeIndentlessItemDone == Back(dec, "level item") /\ dec' = Go(dec, "indentless")
-----------------------------------------------------------------------------
Decode ==
    /\ Looks
    /\ \/ DecodeBetween \/ DecodeDirective \/ DecodeDocument \/ DecodeDocumentDone
       \/ DecodeTag \/ DecodeAnchor \/ DecodeCollectionKey \/ DecodeScalar \/ DecodeAlias
       \/ DecodeCollection \/ DecodeCollected \/ DecodeIndentless \/ DecodeEmpty
       \/ DecodeMappingEnd \/ DecodeMappingComma \/ DecodeKey \/ DecodeKeyDone
       \/ DecodeBareKey \/ DecodeBareKeyDone \/ DecodeValueDone
       \/ DecodeSequenceEnd \/ DecodeEntry \/ DecodeEntryDone \/ DecodeItem \/ DecodeItemDone
       \/ DecodePairKeyDone \/ DecodePairDone
       \/ DecodeIndentlessEntry \/ DecodeIndentlessItem \/ DecodeIndentlessItemDone
=============================================================================
