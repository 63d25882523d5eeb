------------------------------- MODULE Frames -------------------------------
(***************************************************************************)
(* The two readers of the event stream, the fast decoder and the round-trip *)
(* composer, are recursive descents.  Here a call is a frame on a stack: a  *)
(* reader looks at the event it stands on, and each step of it does what    *)
(* the code does between two looks.  This module has the stack; the calls   *)
(* are in Decoder and Composer.                                             *)
(*                                                                          *)
(* What a reader makes of the event is told in "out": a scalar when it is   *)
(* read, a collection where it opens and where it ends, a tag or an anchor  *)
(* when it is given to the node just built.  "document" is the document     *)
(* that the event completes: whether it is empty, and its directives.       *)
(***************************************************************************)
EXTENDS Tokens, FiniteSets, SequencesExt

CONSTANTS
    None,       \* no tag, no anchor, no argument
    MaxDepth    \* MAX_DEPTH of both readers

ASSUME FramesAssumption == MaxDepth \in Nat

VARIABLE event  \* what a reader stands on: its token and argument

\* A call: the point it is at, whether its collection is a flow one, and for a
\* node the properties read so far and where it stands: "value" of a mapping
\* (allow_indentless_seq), a "bare key" of a block mapping, or "other".
Frame(at, flow) == [at |-> at, flow |-> flow, place |-> "other", tag |-> None, anchor |-> None]
Node(place) == [Frame("node", FALSE) EXCEPT !.place = place]

\* "ret": what the last call returned: "pending", "none" (Ok(None)) or "node".
Reader == [stack |-> <<>>, ret |-> "pending", taken |-> TRUE, failed |-> FALSE,
           anchors |-> {}, directives |-> {}, out |-> <<>>, document |-> None]
\* A reader at its start, and the fields only it has.
ReaderWith(own) == [f \in DOMAIN Reader \union DOMAIN own |-> IF f \in DOMAIN Reader THEN Reader[f] ELSE own[f]]

Top(r) == IF r.stack = <<>> THEN Frame("stream", FALSE) ELSE Last(r.stack)
At(r, point) == r.ret = "pending" /\ Top(r).at = point
Back(r, point) == r.ret # "pending" /\ Top(r).at = point

Take(r) == [r EXCEPT !.taken = TRUE]
\* An error unwinds every call.
Failed(r) == [r EXCEPT !.failed = TRUE, !.taken = TRUE, !.stack = <<>>, !.ret = "pending",
                       !.anchors = {}, !.directives = {}, !.out = <<>>, !.document = None]
Put(r, x) == [r EXCEPT !.out = Append(@, x)]
Go(r, point) == [r EXCEPT !.stack[Len(r.stack)].at = point, !.ret = "pending"]
Call(r, frame) == [r EXCEPT !.stack = Append(@, frame), !.ret = "pending"]
Return(r, value) == [r EXCEPT !.stack = Front(@), !.ret = value]

\* unwrap_or(Null): a node the callee did not find is null.
OrNull(r) == IF r.ret = "none" THEN Put(r, "null") ELSE r

\* decode_node and compose_node count their own depth.  Mutant: nothing does.
Nested(r) == Cardinality({i \in DOMAIN r.stack : r.stack[i].at \in {"node", "collected"}})
CallNode_Unbounded(r, place) == Call(r, Node(place))
CallNode(r, place) == IF Nested(r) = MaxDepth THEN Failed(r) ELSE Call(r, Node(place))

\* The call of a node, from here on of its collection: where it stands and a core
\* tag no longer matter.
Opened(r) ==
    [r EXCEPT !.stack[Len(r.stack)] =
        [at |-> "collected", flow |-> @.flow, place |-> "other",
         tag |-> IF @.tag = "core" THEN None ELSE @.tag, anchor |-> @.anchor]]

\* The mapping or sequence a call reads, by the token that opened it.
MappingPoints == {"mapping", "key", "bare key", "bare scalar", "value"}
SequencePoints == {"sequence", "item", "first item"}
Opener(frame) ==
    CASE frame.at \in MappingPoints -> IF frame.flow THEN "FlowMap" ELSE "BlockMap"
      [] frame.at \in SequencePoints -> IF frame.flow THEN "FlowSeq" ELSE "BlockSeq"
      [] OTHER -> "none"
\* The collections r is reading, innermost last.
Reading(r) ==
    LET reading[i \in 0 .. Len(r.stack)] ==
            IF i = 0 THEN <<>>
            ELSE LET opener == Opener(r.stack[i])
                 IN  IF opener = "none" THEN reading[i - 1] ELSE Append(reading[i - 1], opener)
    IN  reading[Len(r.stack)]
=============================================================================
