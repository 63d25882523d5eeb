------------------------------- MODULE Writers -------------------------------
(***************************************************************************)
(* What the two writers write (Encoder, Emitter), read by the scanner and   *)
(* the decoder (Scanner, Decoder): the text is a sequence of lexemes, fed   *)
(* to the scanner one by one, and its tokens go to the decoder.             *)
(***************************************************************************)
EXTENDS Frames

CONSTANTS
    Texts,      \* sets of what the writers have written (see Text)
    MaxCol, MaxFlowDepth, MaxQueue  \* see Scanner

VARIABLES
    at, queue, levels, flow, simpleKey, line, fl, bk, status, open, phase,  \* the scanner
    dec,            \* the decoder
    text,           \* the lexemes the scanner has not met
    args,           \* which scalars and properties its buffered tokens are, in order
    writer,         \* who wrote the text
    expected,       \* what a reader is to make of it
    read,           \* what the decoder has made of it so far
    agree           \* the other writer wrote the same text

scanner == <<at, queue, levels, flow, simpleKey, line, fl, bk, status, open, phase>>
source == <<writer, expected, agree>>
vars == <<scanner, event, dec, text, args, source, read>>

S == INSTANCE Scanner
D == INSTANCE Decoder
B == INSTANCE TextBuffer

(***************************************************************************)
(* The lexemes of a written line as the scanner meets them: a plain scalar  *)
(* that ends its line and a block scalar have taken the line break.         *)
(***************************************************************************)
TakesBreak(l) == l.cls = "blockscalar" \/ (l.cls = "plain" /\ ~l.closed)
Eof == [cls |-> "eof", nl |-> TRUE, tab |-> FALSE, col |-> 0, arg |-> "", cont |-> B!OneLine, closed |-> FALSE]
AsMet(out) ==
    LET lexemes == Append(out, Eof)
        broken(i) == i > 1 /\ lexemes[i].nl /\ TakesBreak(lexemes[i - 1])
    IN  [i \in DOMAIN lexemes |-> [lexemes[i] EXCEPT !.nl = @ /\ ~broken(i)] @@ [breaks |-> lexemes[i].nl]]

\* A text, who wrote it, what it is to be read as, and whether the other writer
\* writes the same.
Text(who, out, outline, same) ==
    [who |-> who, out |-> out, outline |-> outline, same |-> same]
Init ==
    /\ S!Init /\ D!DecoderInit
    /\ event = [tok |-> "none", arg |-> None]
    /\ args = <<>> /\ read = <<>>
    /\ \E texts \in Texts : \E t \in texts :
         /\ text = AsMet(t.out) /\ writer = t.who
         /\ expected = Append(t.outline, "document") /\ agree = t.same
-----------------------------------------------------------------------------
\* The further lines of a scalar stand deeper than the level it is in; what
\* follows a block scalar does not.
Fits(l, next) ==
    /\ l.cont = B!OneLine \/ l.cont > S!Indent(S!Lv(l))
    /\ l.cls = "blockscalar" => next.cls = "eof" \/ next.col < l.cont

HasArg == {"plain", "quoted", "blockscalar", "&", "*", "!"}

FetchAs(l, next) ==
    CASE l.cls = "quoted" -> S!Admits(l) /\ S!QuotedAs(l, l.cont # B!OneLine, next.cls = ":" /\ ~next.breaks)
      [] l.cls = "plain" ->
            S!IsPlain(l) /\ S!Admits(l) /\ S!PlainAs(l, next.breaks /\ ~l.closed, next.cls = ":" /\ (~next.breaks \/ ~l.closed))
      [] OTHER -> S!Fetch(l)

\* An implicit key's ':' is read with it.
KeyAndColon == Last(queue') = "Value" /\ Head(text).cls \in {"plain", "quoted"}
Feed ==
    /\ S!Fetching /\ text # <<>>
    /\ LET l == Head(text)
           next == IF Len(text) > 1 THEN text[2] ELSE l
       IN  /\ Fits(l, next)
           /\ FetchAs(l, next)
           /\ status' # "failed"
           /\ KeyAndColon \/ Len(text) = 1 \/ S!AheadOf(at', flow' # <<>>, next)
           /\ text' = IF KeyAndColon THEN Tail(Tail(text)) ELSE Tail(text)
           /\ args' = IF l.cls \in HasArg THEN Append(args, l.arg) ELSE args

Met == dec.taken /\ ~dec.failed
\* The scanner reads on until it can hand a token out.
Scan == Met /\ Feed /\ UNCHANGED <<event, dec, source, read>>
Begin ==
    /\ S!Start /\ status' = "run"
    /\ UNCHANGED <<event, dec, text, args, source, read>>

\* A plain null under an application's tag is the text "null".
Label(x) ==
    IF x # "scalar" THEN x
    ELSE IF event.arg = "null" /\ Contains(dec.out, "tag") THEN "nullword" ELSE event.arg
Told == [i \in DOMAIN dec.out |-> Label(dec.out[i])]
            \o (IF dec.document = None THEN <<>> ELSE <<"document">>)

\* next_event: the decoder stands on the next token.
WithArg == {"Scalar", "Anchor", "Alias", "Tag"}
Advance ==
    /\ Met /\ S!Deliver
    /\ event' = [tok |-> Head(queue), arg |-> IF Head(queue) \in WithArg THEN Head(args) ELSE None]
    /\ args' = IF Head(queue) \in WithArg THEN Tail(args) ELSE args
    /\ dec' = [dec EXCEPT !.taken = FALSE, !.out = <<>>, !.document = None]
    /\ read' = read \o Told
    /\ UNCHANGED <<text, source>>

\* An alias of a few nodes is within the budget.
Decoding ==
    /\ D!Decode
    /\ event.tok = "Alias" /\ event.arg \in dec.anchors => ~dec'.failed
    /\ UNCHANGED <<scanner, event, text, args, source, read>>

Next == Begin \/ Scan \/ Advance \/ Decoding
Spec == Init /\ [][Next]_vars
-----------------------------------------------------------------------------
\* The scanner cannot take the next lexeme for what it was written as.
Refused == Met /\ S!Fetching /\ text # <<>> /\ ~ENABLED Feed
Through == status = "ended" /\ queue = <<>> /\ dec.taken
ReadsBack ==
    /\ ~Refused /\ ~dec.failed
    /\ Through => read \o Told = expected

\* What dumps() writes, loads() reads as the value it was given, under every
\* choice of indent, flow style, spelling of null, width and markers.
DumpsReadBack == writer = "dumps" => ReadsBack

\* A document that was edited is written as a text that loads() reads as the
\* document: where a node stands, what marks it has and what a comment closes
\* leave every other node what it was.
DocumentReadsBack == writer = "document" => ReadsBack

\* dumps(represent=...) with a callback that represents nothing writes what
\* dumps() writes, though another writer lays it out (a width apart, which the
\* two break lines for differently).
RepresentWritesLikeDumps == agree
=============================================================================
