------------------------------ MODULE Readers -------------------------------
(***************************************************************************)
(* The parser gives every token of the scanner as one event                 *)
(* (src/parser/mod.rs), and one of two readers takes them: the decoder for  *)
(* loads(), the composer for Document, annotated loads and includes.  Here  *)
(* both read the same events, the decoder first, so that what they make of  *)
(* a document can be compared.                                              *)
(***************************************************************************)
EXTENDS Decoder, Composer

CONSTANTS
    Names,      \* the anchor names of the text
    Directives, \* the directives it has: "TAG" declares the named tag handle
    MaxOpen,    \* bound: collections open in the text at once
    MaxOwned    \* bound: of these, with a tag or an anchor while another is given one

\* No anchor, and no tag, is one.
ASSUME ReadersAssumption == None \notin Names \union {"core", "custom"}

VARIABLES
    open, phase,    \* the token stream so far (see TokenStream)
    named,          \* the anchors of the text since the last document boundary
    differ,         \* the readings of this document differ
    apart,          \* the decoder was once not in the collections the text has open
    looks           \* how often the two have looked at the event

vars == <<open, phase, event, dec, com, named, differ, apart, looks>>

TS == INSTANCE TokenStream

Owned == {i \in 1..(Len(dec.stack) - 1) : dec.stack[i].tag # None \/ dec.stack[i].anchor # None}
Arguments(t) ==
    CASE t \in {"Anchor", "Alias"} -> Names
      [] t = "Tag" -> {"core", "custom", "named"}
      [] t = "Directive" -> Directives
      [] OTHER -> {None}

Init ==
    /\ TS!Init
    /\ DecoderInit /\ ComposerInit
    /\ event = [tok |-> "none", arg |-> None]
    /\ named = {}
    /\ differ = FALSE
    /\ apart = FALSE
    /\ looks = 0

\* Both readers are through with the event.  The composer is followed only as
\* long as its reading may still be the decoder's.
Following == ~differ /\ ~com.failed
BothDone == dec.taken /\ (Following => com.taken)

\* The composer leaves an empty document out unless it is told to keep it, and
\* keeps the tag of an indentless sequence.
SameDocument ==
    com.document = IF dec.document # None /\ dec.document[1] /\ ~com.keepEmpty THEN None ELSE dec.document
SameShape == dec.out = SelectSeq(com.out, LAMBDA x : x # "indentless tag")
DifferNow == ~(Following /\ SameDocument /\ SameShape)
ApartNow == apart \/ Reading(dec) # open
\* The event completes a document that loads() accepts.
Accepted == BothDone /\ dec.document # None

\* next_event: the next token, as an event.
Advance ==
    /\ BothDone /\ ~dec.failed
    /\ \E t \in Tokens, arg \in Names \union Directives \union {None, "core", "custom", "named"} :
         /\ arg \in Arguments(t)
         /\ TS!Give(t)
         /\ Len(open') <= MaxOpen
         /\ t \in {"Anchor", "Tag"} => Cardinality(Owned) <= MaxOwned
         /\ event' = [tok |-> t, arg |-> arg]
         /\ named' = CASE t = "Anchor" -> named \union {arg}
                       [] t \in {"DocStart", "DocEnd"} -> {}
                       [] OTHER -> named
    /\ differ' = (~Accepted /\ DifferNow)
    /\ apart' = (~Accepted /\ ApartNow)
    /\ looks' = 0
    /\ dec' = [dec EXCEPT !.taken = FALSE, !.out = <<>>, !.document = None]
    /\ com' = IF Following THEN [com EXCEPT !.taken = FALSE, !.out = <<>>, !.document = None] ELSE Failed(com)

Decoding == Decode /\ looks' = looks + 1 /\ UNCHANGED <<open, phase, event, com, named, differ, apart>>
Composing ==
    /\ dec.taken /\ Following
    /\ Compose
    /\ looks' = looks + 1
    /\ UNCHANGED <<open, phase, event, dec, named, differ, apart>>

Next == Advance \/ Decoding \/ Composing
Spec == Init /\ [][Next]_vars
-----------------------------------------------------------------------------
ReaderType(r) ==
    /\ \A i \in DOMAIN r.stack :
         /\ r.stack[i].place \in {"other", "value", "bare key"}
         /\ r.stack[i].anchor \in Names \union {None}
         /\ r.stack[i].tag \in {None, "core", "custom", "indentless"}
    /\ r.ret \in {"pending", "none", "node"}
    /\ r.anchors \subseteq Names
    /\ r.directives \subseteq Directives

TypeOK ==
    /\ ReaderType(dec) /\ ReaderType(com)
    /\ named \subseteq Names
    /\ differ \in BOOLEAN /\ apart \in BOOLEAN
    /\ looks \in Nat

\* A document loads() accepts is accepted by the composer too, which reads the
\* same nodes, anchors, aliases and directives in it (and keeps the application's
\* tag of an indentless sequence, which the decoder drops).
ReadAlike == Accepted => ~DifferNow

\* In a document that is accepted, the decoder was inside exactly the mappings
\* and sequences the text had open, after every event.
ReadAsOpened == Accepted => ~ApartNow

\* An alias that either reader accepts names an anchor of its own document.
AliasesStayInDocument ==
    \A r \in {dec, com} : r.taken /\ Contains(r.out, "alias") => event.arg \in named

\* No loop of a reader stands on an event for ever: each takes it, or leaves a
\* call for good, so both are through within a number of looks; and no path of
\* calls gets past the limit of the depth, however it goes in and out of nodes.
ReadersMoveOn ==
    /\ looks <= 2 * (10 * MaxDepth + 11)
    /\ Nested(dec) <= MaxDepth /\ Nested(com) <= MaxDepth
=============================================================================
