------------------------------ MODULE WriteBack ------------------------------
(***************************************************************************)
(* A round-trip document loaded from files with includes, edited, and       *)
(* written back by save, dump_includes or a save-as (src/roundtrip/         *)
(* document.rs, src/roundtrip/emit.rs, src/include/mod.rs, src/ffi/mod.rs). *)
(* Files are read and written one at a time, each write at once             *)
(* (AtomicWrite); other programs write the same files at any time, a write  *)
(* may fail, the program may die.                                           *)
(***************************************************************************)
EXTENDS ConfigTree, TLC

CONSTANTS
    Root,           \* the file the document is loaded from
    Keys, Values,   \* what an edit may name and assign
    Disks,          \* the files to begin with, each a sequence of documents
    MaxEdits, MaxSaves, MaxOthers   \* bounds: edits of a load, write-backs, others' writes

\* Every node but the root of a document is an entry of a mapping.  The entries of
\* a directory are named by its files.
Steps == Keys \union Files
IsDocument(d) ==
    /\ d = [p \in DOMAIN d |-> d[p]] /\ DOMAIN d \subseteq Seq(Steps) /\ <<>> \in DOMAIN d
    /\ \A p \in DOMAIN d \ {<<>>} : Front(p) \in DOMAIN d /\ d[Front(p)] = Mapping
    /\ \A p \in DOMAIN d :
        d[p] \in {Mapping} \union {Value(v) : v \in Values}
                 \union {Include(f) : f \in Files} \union {IncludeDir(e) : e \in Dirs}
IsText(text) ==
    text \in Seq(ToSet(text)) /\ Len(text) > 0 /\ \A i \in DOMAIN text : IsDocument(text[i])

ASSUME WriteBackAssumption ==
    /\ Root \in Files
    /\ \A d \in Disks : d = [f \in Files |-> d[f]] /\ \A f \in Files : IsText(d[f])
    /\ MaxEdits \in Nat /\ MaxSaves \in Nat /\ MaxOthers \in Nat

VARIABLES
    disk,
    phase,      \* "closed", "loading", "open" or "writing"
    docs,       \* the trees of the document stream
    source,     \* the cached text of the root file, or <<>>
    mode,       \* the write-back last begun: "none", "save", "saveas", "dump"
    todo,       \* the writes it has still to make
    edited,     \* the files whose nodes were edited since the load
    settled,    \* a write-back ended well, and nothing was edited since
    disturbed,  \* another program wrote since the load began
    edits, saves, others

doc == <<docs, source, edited>>
vars == <<disk, phase, doc, mode, todo, settled, disturbed, edits, saves, others>>
-----------------------------------------------------------------------------
Init ==
    /\ disk \in Disks /\ phase = "closed" /\ docs = <<>> /\ source = <<>> /\ edited = {}
    /\ mode = "none" /\ todo = {} /\ settled = FALSE /\ disturbed = FALSE
    /\ edits = 0 /\ saves = 0 /\ others = 0

\* load: the root file is read and composed.
Load ==
    /\ phase = "closed" /\ phase' = "loading"
    /\ docs' = [i \in DOMAIN disk[Root] |-> Tree(disk[Root][i], Root)]
    /\ source' = disk[Root] /\ edited' = {}
    /\ mode' = "none" /\ settled' = FALSE /\ disturbed' = FALSE /\ edits' = 0
    /\ UNCHANGED <<disk, todo, saves, others>>

\* resolve_node: directives are resolved in document order, each file read when
\* its turn comes.
ResolveNext ==
    /\ phase = "loading"
    /\ \/ /\ \A i \in DOMAIN docs : Pending(docs[i]) = {}
          /\ phase' = "open" /\ UNCHANGED docs
       \/ \E i \in DOMAIN docs : \E p \in NextPending(docs[i]) :
          /\ \A j \in 1 .. i - 1 : Pending(docs[j]) = {}
          /\ docs' = [docs EXCEPT ![i] = ResolveAt(@, p, disk)]
          /\ UNCHANGED phase
    /\ UNCHANGED <<disk, source, edited, mode, todo, settled, disturbed, edits, saves, others>>
-----------------------------------------------------------------------------
Edited(file) ==
    /\ phase = "open" /\ edits < MaxEdits /\ edits' = edits + 1
    /\ edited' = edited \union {file} /\ settled' = FALSE
    /\ UNCHANGED <<disk, phase, mode, todo, disturbed, saves, others>>

\* set_child, set_value: the entry key of the mapping at p, new or replaced (with
\* all below it, a directive's content too), becomes a plain value.  doc[..]
\* reads into a document only when it is the only one.
Assign(p, key, v) ==
    /\ Len(docs) = 1 /\ p \in DOMAIN docs[1] /\ docs[1][p].cell = Mapping
    /\ docs' = [docs EXCEPT ![1] =
                   Graft(@, Append(p, key),
                         Single(Marked(Node(Value(v), docs[1][p].home))))]
    /\ UNCHANGED source
    /\ Edited(docs[1][p].home)

\* Mutant: the container is not marked.
Delete_Unmarked(q) ==
    /\ Len(docs) = 1 /\ q \in DOMAIN docs[1] /\ q # <<>>
    /\ docs' = [docs EXCEPT ![1] = Prune(@, q)]
    /\ UNCHANGED source
    /\ Edited(docs[1][Front(q)].home)

\* del_child: nothing is left to carry the mark but the container.
Delete(q) ==
    /\ Len(docs) = 1 /\ q \in DOMAIN docs[1] /\ q # <<>>
    /\ docs' = [docs EXCEPT ![1] = Mark(Prune(@, q), Front(q))]
    /\ UNCHANGED source
    /\ Edited(docs[1][Front(q)].home)

\* __setitem__ and __delitem__ of a stream that has not one document.
AssignDocument(i, v) ==
    /\ Len(docs) # 1 /\ i \in DOMAIN docs
    /\ docs' = [docs EXCEPT ![i] = Single(Marked(Node(Value(v), Root)))]
    /\ UNCHANGED source
    /\ Edited(Root)
DeleteDocument(i) ==
    /\ Len(docs) # 1 /\ i \in DOMAIN docs
    /\ docs' = RemoveAt(docs, i) /\ source' = <<>>
    /\ Edited(Root)
-----------------------------------------------------------------------------
\* root_bytes.
RootBytes ==
    IF source # <<>> /\ \A i \in DOMAIN docs : ~NodeModified(docs[i]) THEN source
    ELSE [i \in DOMAIN docs |-> RootText(docs[i])]

\* A write, and the place in the stream of what it writes.
Write(i, p, file, text) == [doc |-> i, at |-> p, file |-> file, text |-> text]
Sooner(w, x) == w.doc < x.doc \/ (w.doc = x.doc /\ Before(w.at, x.at))

\* Every boundary of the stream.
AllBoundaries == UNION {{[doc |-> i, at |-> p] : p \in Boundaries(docs[i])} : i \in DOMAIN docs}
Target(b) == docs[b.doc][b.at].source.target
Rewrite(b) == Write(b.doc, b.at, Target(b), <<Text(docs[b.doc], b.at)>>)

\* Mutants: a change below a deeper directive counts too; one below the include's
\* own root does not.
ChangedIncludes_Deep ==
    {Rewrite(b) : b \in {c \in AllBoundaries :
        \E q \in Under(docs[c.doc], c.at) : docs[c.doc][q].modified}}
ChangedIncludes_TopLevelOnly ==
    {Rewrite(b) : b \in {c \in AllBoundaries : docs[c.doc][c.at].modified}}

\* collect_changed_include_changes.
ChangedIncludes ==
    {Rewrite(b) : b \in {c \in AllBoundaries : LocalModified(docs[c.doc], c.at)}}

\* collect_include_changes: every include, as it was read unless it was changed.
AllIncludes ==
    {Write(0, <<>>, Target(b),
           IF LocalModified(docs[b.doc], b.at) THEN <<Text(docs[b.doc], b.at)>>
           ELSE docs[b.doc][b.at].cached) : b \in AllBoundaries}

Begin(m, writes) ==
    /\ phase = "open" /\ saves < MaxSaves /\ saves' = saves + 1
    /\ phase' = "writing" /\ mode' = m /\ todo' = writes /\ settled' = FALSE
    /\ UNCHANGED <<disk, doc, disturbed, edits, others>>

\* save: the changed includes, then the root if its own content changed or a
\* path was given.
Save(explicit) ==
    LET own == IF explicit \/ \E i \in DOMAIN docs : LocalModified(docs[i], <<>>)
               THEN {Write(Len(docs) + 1, <<>>, Root, RootBytes)} ELSE {}
    IN  Begin(IF explicit THEN "saveas" ELSE "save", ChangedIncludes \union own)

\* Mutant: conflicting contents of a file are let pass.
DumpIncludes_NoConflict == Begin("dump", AllIncludes)

\* dump_includes: two contents for one file are refused.
DumpIncludes ==
    /\ \A w, x \in AllIncludes : w.file = x.file => w.text = x.text
    /\ Begin("dump", AllIncludes)

\* The next write, or the end of them; a write that fails ends the write-back.  A
\* save writes in document order, a dump in the order of a hash map, which is any.
WriteNext ==
    /\ phase = "writing"
    /\ \/ \E w \in todo :
          /\ mode = "dump" \/ \A x \in todo \ {w} : Sooner(w, x)
          /\ disk' = [disk EXCEPT ![w.file] = w.text]
          /\ todo' = todo \ {w} /\ UNCHANGED <<phase, settled>>
       \/ todo # {} /\ todo' = {} /\ phase' = "open" /\ UNCHANGED <<disk, settled>>
       \/ todo = {} /\ phase' = "open" /\ settled' = TRUE /\ UNCHANGED <<disk, todo>>
    /\ UNCHANGED <<doc, mode, disturbed, edits, saves, others>>

\* The document is let go, or the program dies, at any point.
Close ==
    /\ phase # "closed" /\ phase' = "closed"
    /\ docs' = <<>> /\ source' = <<>> /\ edited' = {} /\ todo' = {}
    /\ mode' = "none" /\ settled' = FALSE
    /\ UNCHANGED <<disk, disturbed, edits, saves, others>>

\* Another program changes a value in a file.
OtherWrites(f, key, v) ==
    /\ others < MaxOthers /\ others' = others + 1
    /\ <<key>> \in DOMAIN disk[f][1] /\ disk[f][1][<<key>>].kind = "value"
    /\ disk[f][1][<<key>>] # Value(v)
    /\ disk' = [disk EXCEPT ![f][1][<<key>>] = Value(v)]
    /\ disturbed' = TRUE
    /\ UNCHANGED <<phase, doc, mode, todo, settled, edits, saves>>

Edit ==
    /\ docs # <<>>
    /\ \/ \E p \in DOMAIN docs[1], key \in Keys, v \in Values : Assign(p, key, v)
       \/ \E q \in DOMAIN docs[1] : Delete(q)
       \/ \E i \in DOMAIN docs, v \in Values : AssignDocument(i, v)
       \/ \E i \in DOMAIN docs : DeleteDocument(i)

Next ==
    \/ Load \/ ResolveNext \/ Edit
    \/ \E explicit \in BOOLEAN : Save(explicit)
    \/ DumpIncludes \/ WriteNext \/ Close
    \/ \E f \in Files, key \in Keys, v \in Values : OtherWrites(f, key, v)

Spec == Init /\ [][Next]_vars
-----------------------------------------------------------------------------
TypeOK ==
    /\ DOMAIN disk = Files /\ \A f \in Files : Len(disk[f]) >= 0
    /\ phase \in {"closed", "loading", "open", "writing"}
    /\ mode \in {"none", "save", "saveas", "dump"}
    /\ \A i \in DOMAIN docs : \A p \in DOMAIN docs[i] :
        /\ p # <<>> => Front(p) \in DOMAIN docs[i] /\ docs[i][Front(p)].cell = Mapping
        /\ docs[i][p].home \in Files
        /\ phase \in {"open", "writing"} => docs[i][p].cell.kind \in {"map", "value"}
    /\ \A w \in todo : w.file \in Files
    /\ edited \subseteq Files /\ settled \in BOOLEAN /\ disturbed \in BOOLEAN
    /\ edits \in 0 .. MaxEdits /\ saves \in 0 .. MaxSaves /\ others \in 0 .. MaxOthers

\* "An included file that you did not modify is never rewritten": a write-back
\* changes the content of no file but those the edits were made in.  What
\* another program wrote to the other files in the meantime stays.
SaveKeepsOthers ==
    [][phase = "writing" /\ others' = others /\ mode \in {"save", "saveas"} =>
        \A f \in Files \ (edited \union IF mode = "saveas" THEN {Root} ELSE {}) : disk'[f] = disk[f]]_vars

\* Included at two places, a file has two subtrees in memory, whatever became of
\* one of them since.
IncludedOnce ==
    \A f \in Files :
        /\ Quantify(AllBoundaries, LAMBDA b : Target(b) = f) <= 1
        /\ Cardinality({w \in (DOMAIN source) \X {<<k>> : k \in Keys} :
                w[2] \in DOMAIN source[w[1]] /\ source[w[1]][w[2]] = Include(f)}) <= 1

\* No file has edits that save is known to leave out or to set against each
\* other: edits below a directory's directive, which is a file to no writer; two
\* edits of one file that two places include; a document deleted from a stream,
\* which clears the cached text but marks no node, and a save without a path.
Saveable ==
    /\ IncludedOnce
    /\ mode = "saveas" \/ source # <<>>
    /\ \A i \in DOMAIN docs : \A p \in DOMAIN docs[i] :
        docs[i][p].source.kind = "dir" => \A q \in Under(docs[i], p) : ~docs[i][q].modified

\* After a save that ended well, loading the configuration again gives the tree
\* that was saved: every edit is in the file it belongs to, and nothing else is.
SavedIsLoadedAgain ==
    settled /\ ~disturbed /\ mode \in {"save", "saveas"} /\ Saveable =>
        /\ Len(disk[Root]) = Len(docs)
        /\ \A i \in DOMAIN docs : Cells(Resolved(disk[Root][i], Root, disk)) = Cells(docs[i])

\* After a dump, every include resolves to its subtree in memory: the files hold
\* each edit, in every place they are included.
DumpedIsLoadedAgain ==
    settled /\ ~disturbed /\ mode = "dump" =>
        \A i \in DOMAIN docs : \A p \in Boundaries(docs[i]) :
            Cells(Resolved(Single(docs[i][p].source), Root, disk)) = Cells(Subtree(docs[i], p))

\* Whatever of the two ended last, the files hold what the document holds.
WrittenIsLoadedAgain == SavedIsLoadedAgain /\ DumpedIsLoadedAgain
=============================================================================
