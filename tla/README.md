# A TLA+ model of YAMLRocks

YAMLRocks is a YAML parser and emitter for Python written in Rust: a fast
decoder and encoder, a round-trip document that keeps comments and layout,
`!include` directives with write-back to the files they came from, and
JSON-Schema validation. This directory holds TLA+ modules for the parts of it
that have state and can go wrong over many steps, the TLC configurations that
check them on small instances, and TLAPS proofs of the most important results.

Paths below are relative to the repository; `scanner/mod.rs` stands for
`src/scanner/mod.rs`.

    tlc -workers 2 -config MCScanner.cfg MCScanner      # a run
    tlapm ScannerProofs.tla                             # a proof

## 1. The system and its parts

    text --> scanner --tokens--> parser --events--> decode --> Python objects
                                      \--> roundtrip composer --> document (tree of nodes)
    document <--> include (reads and resolves files), emit (text again), safe_io (writes files)
    Python objects --> ffi (represent, convert) --> encode --> text

| Part | State it keeps | Operations | What is hard |
| --- | --- | --- | --- |
| scanner (`scanner/mod.rs`, `scalar.rs`) | token buffer, stack of block levels, stack of flow collections, one pending simple key, some flags about the line and the flow entry | `next_token`, one `fetch_*` per kind of token | a key is recognised only at its `:`; its `Key` and the start of its mapping are then inserted in front of tokens already buffered |
| parser (`parser/mod.rs`) | look-ahead token | `next_event` | none: it maps tokens to events and checks nothing |
| decode (`decode/mod.rs`, `merge.rs`) | anchors of the document, node budget, depth, key sets | `decode_stream`, `decode_node` | aliases that expand to much more than the input, duplicate and merged keys, document boundaries |
| resolver | none | scalar text to a value | character-level rules of YAML 1.1 and 1.2 |
| include (`include/mod.rs`, `secret.rs`, `env_var.rs`) | stack of files being read, expansion count, cache of secrets, source text of every file read | `load_str`, `resolve_node`, directory forms, confinement to a root, `compute_include_changes` | cycles, exponential fan-out, files that change while they are read |
| round-trip tree (`roundtrip/*`) | trees of nodes with marks, cached source text, anchors | assignment, deletion, cursors, anchors and aliases, `save`, `dump` | which text may be reused as it was read, which file an edit belongs to, aliases that lose their anchor |
| encode, emit_util | the text written so far, recursion | `encode_value` and the JSON writer | where a line may begin, what has to be quoted there, agreeing with the other writer (`roundtrip/emit.rs`) |
| schema (`schema/mod.rs`) | recursion, depth of the `$ref` chain, budget of `$ref`s, list of errors | `validate`, one check per keyword | schemas that refer to themselves, subschemas that only probe and must leave no error, limits that must not change a verdict |
| ffi | Python objects, per-call tables | `loads`, `dumps`, `load`, `dump_includes` | references to containers seen before |
| safe_io (`safe_io.rs`) | a process-wide counter, the directory | `atomic_write` | crashes, concurrent writers and readers, names that are taken |
| stack (`stack.rs`) | none | `on_large_stack` | native stack overflow on deep values |
| crate and Python surface | none | module registration, flags, wrappers | none |

What makes each part correct, and where that is stated here:

* scanner: the levels strictly increase; the pending key points at the token it
  would be inserted before; collections open and close in step with the token
  stream; every token comes where the parser can take it (modules `Scanner`,
  `TokenStream`).
* safe_io: a file changes from one whole content to another in one step,
  whatever fails, dies or runs beside it (`AtomicFile`, `AtomicWrite`).
* round-trip document with includes: a save puts each edit in the file it was
  made in and touches no other; what is written verbatim is current
  (`ConfigTree`, `WriteBack`).
* round-trip document: a delete, a new entry or a detach leaves a document that
  composes, names of anchors stay unique, an alias never comes to point forward
  or at what it is in (`Document`).
* include: a load yields what its directives mean, ends on every layout of
  files, names the file each value came from, and sees one version of the
  secrets (`IncludeResolver`).
* decode and composer: what `loads()` accepts, the annotated and the round-trip
  load read the same way; anchors and directives end with their document; no
  loop stands still (`Decoder`, `Composer`, `Readers`).
* merge keys: the four places that resolve `<<` give the same mapping
  (`MergeKeys`).
* ffi, `dumps(represent=...)`: shared objects become anchors and aliases that
  read back as the same graph, whatever stands for what (`Represent`).
* encode, emit: what is written is read back as what was given, by this code's
  own scanner and decoder; the two writers write the same text (`Encoder`,
  `Emitter`, `Layouts`, `Writers`).
* schema: a verdict is what draft 7 says of the value that is loaded, and every
  validation ends (`Validator`, `Validation`).

## 2. The modules

| Module | Models | State and actions |
| --- | --- | --- |
| `Tokens`, `TokenStream` | the tokens, and the order of them the parser relies on (`parser/mod.rs`) | `open`, the collections open in the stream; `Give` is one token |
| `Scanner` | `scanner/mod.rs`, `scanner/scalar.rs` | one action per `fetch_*`; the text is a lexeme chosen at each step, with what it does to line and column. `TokenStream` is its abstract specification |
| `AtomicFile` | what a writer of a file promises: the content changes in one step | `value` of each file, `view` of each reader |
| `AtomicWrite` | `safe_io.rs`, with the directory and the inodes of a POSIX file system | threads of several processes step through `atomic_write`; `Crash`; readers open, read and close. Implements `AtomicFile` |
| `Trees` | paths and trees shared by the next three | operators only |
| `ConfigTree` | how `include/mod.rs` resolves a document over files and `roundtrip/emit.rs` splits it again | operators only |
| `WriteBack` | load, edit, `save`, save-as and `dump_includes` over files (`roundtrip/document.rs`, `roundtrip/emit.rs`, `include/mod.rs`, `ffi/mod.rs`) | one action per file read and written, one per edit; another program writes too; a write may fail |
| `Document` | edits of one document: assignment, deletion, `set_anchor`, `make_alias`, `detach` (`roundtrip/document.rs`, `roundtrip/anchors.rs`) | `doc` maps positions to nodes, `loaded` is the document as read |
| `IncludeResolver` | `include/mod.rs`, `include/secret.rs`, `include/env_var.rs` | a stack of frames for the recursion over nodes and files; one action resolves a directive or reads a file, another program changes files in between |
| `Frames` | a recursive descent as a stack of calls | `event`, what a reader stands on; the rest are operators |
| `Decoder`, `Composer` | `decode/mod.rs` and `roundtrip/composer.rs` as readers of events | one step is what the code does between two looks at the event |
| `Readers` | the parser in front of both | composes `TokenStream`, `Decoder` and `Composer`: each token is given to one and then to the other |
| `MergeKeys` | `decode/merge.rs`, `roundtrip/value.rs`, `ffi/convert/annotate.rs`, `schema/mod.rs` | the pairs of a mapping come one at a time; each path keeps its own result |
| `Represent` | `ffi/represent.rs`; `python_to_value` of `ffi/convert/encode.rs` as an operator | the calls of `lower` as a stack; `seen`, `aliased`, `retained` as in `Lower`, `default` as in its context |
| `TextBuffer` | the `String` the writers append to, as the lexemes a scanner meets in it and the columns they stand at | `current_column`, `current_line_indent`, line ends; operators only |
| `Encoder` | `encode/mod.rs`, one operator per `emit_*` | operators on the buffer |
| `Emitter` | `roundtrip/emit.rs`, likewise | operators on the buffer |
| `Layouts` | the trees the emitter is given: `Lower` (`ffi/represent.rs`), a loaded one (`roundtrip/composer.rs`), and the edits of one (`roundtrip/document.rs`, `roundtrip/value.rs`) | operators on trees |
| `Writers` | a writer's text put to the scanner and the decoder | composes `Encoder`, `Emitter`, `Scanner` and `Decoder`: each lexeme of the text is a `Fetch` of the scanner, each token it hands out a step of the decoder |
| `Validator` | the walk of `schema/mod.rs`: `validate_node`, `resolve_ref`, the combinators | the calls as a stack; `call` is a subschema put to a node, `answer` whether it left errors, `follows` the budget |
| `Validation` | `validate()`: `collect_anchors` and `expand_aliases`, then the walk; and draft 7's meaning of a schema | `whole`, whether the limits left the value as it was |

`MC...` modules give the constants their values. The theorems are in `...Proofs`
(`ScannerProofs`, `AtomicWriteProofs`, `IncludeResolverProofs`, `DocumentProofs`,
`ValidatorProofs`, `ReadersProofs`, `WriteBackProofs`), and facts about numbers and sequences that
several of them cite in `SequenceLemmas`.
`WriteBack` writes each file in one step, which is what `AtomicWrite` is shown
to implement; `Scanner` hands out a `TokenStream`, which is what `Readers`
takes. The `TypeOK` of a module is listed in a run where it says more than the
shape of the variables; the others document the variables.

`PROJECT.json` maps every definition to the lines it stands for.

## 3. The runs

Passing runs:

| Run | Question | Bounds |
| --- | --- | --- |
| `scanner` | Do the buffer, the levels, the pending key and the tokens handed out stay consistent over every sequence of lexemes? | columns 0..2 give two nested levels and a dedent to either; one level of flow; three tokens buffered, one more than a late key inserts |
| `atomic_write` | Is a write one step to every reader, whatever fails, dies or shares names? | two processes with one id, one thread each, three calls, one crash, two chunks: a name is taken by a live, a dead and a later writer |
| `write_back` | Does a save put every edit into its own file and touch no other, and is what is on disk in the end what is in memory? | a root with its include and that file's include, with one file included twice in one document or in two, or with a directory of two files; two edits, two write-backs, one write by another program |
| `document` | Do the guards of the edits keep what they promise? | three edits of three documents with two anchors nested in each other's nodes; one has a key held twice |
| `include` | What does a load yield and report, and does it end? | six layouts of four files in two directories, three sets of options, depth 3, five expansions, two changes by another program |
| `readers` | Do the two readers agree? | streams of any length with two collections open; depth 3, reached because a block sequence at its key's indent opens no collection of its own in the stream; no anchor or tag is given inside a collection that has one itself (`MaxOwned` 0) |
| `merge_keys` | Do the four merges agree? | three pairs over two ordinary keys, `<<` and the quoted `"<<"`: enough for a merge, a quoted key and a merge, and for two values that cannot be merged. No key is an alias, a tag is on scalars only |
| `represent` | Does the tree that is written read as the objects? | every graph of a root with two values over two other objects, of every kind; depth 5, which graphs with new lists reach and pass; four addresses for new lists |
| `writers` | Is what either writer writes read as what it was given? | `dumps`: values two levels above a scalar, five sets of options that take each option both ways; documents: two layouts, one mark, comment, flow style or alias, one edit of any place |
| `validate` | Does a verdict mean what draft 7 says, and does every validation end? | fourteen documents, schemas of every keyword with a subschema, two and three deep; chains of two `$ref`s, four `$ref`s in all, twelve nodes, so that each limit is met and passed |

The small bounds are enough in the sense that every action and every disjunct of
the next-state relations is taken, and that each property fails for a small
change of the code it is about (the mutants of `PROJECT.json`: a dropped guard, a
missing reset, an off-by-one). For the writers, what decides where a node is put
is its parent's kind, its own, and whether it comes first; two levels have each
of these pairs, and a level below repeats them at another column. For the
validator, a group of subschemas is decided by how many pass, of two.

Runs that find a property of the documentation violated:

| Run | What the code does |
| --- | --- |
| `chained_include_overwritten` | A file that is only an `!include` is overwritten with the content of the file it includes, and that file keeps its old content. |
| `edited_block_scalar` | A block scalar is written back as its source at its source column, but the mapping around it at the writer's indentation: in a document indented by one space, an edit elsewhere leaves the text at its key's column. |

Met while modelling, and left out by the properties where they say so:

* write-back: an edit below `!include_dir_*` is written by no save
  (`roundtrip/emit.rs:1126`; `docs` say it is, `guides/includes.md:196`); of a
  file included twice and edited in two ways one edit is written; `del doc[i]` of
  a stream is not saved by `save()` without a path (`roundtrip/document.rs:224`).
  `WrittenIsLoadedAgain` is about saves without these (`Saveable`).
* include: a cycle is one of files, not of documents (`include/mod.rs:304`): of a file
  that `!include_dir_list` reads, a later document that includes the file itself is
  refused as circular, although the include would take the first document only, and
  end. `LoadMeansItsDirectives` leaves it out (`CycleOfFiles`).
* documents: `make_alias` drops anchors that other aliases need
  (`roundtrip/document.rs:1180`), where `adr/018-anchor-alias-creation-with-validity-guards.md`
  has "no way to produce a dangling or forward reference"; with a key held twice the first and the last are
  both looked up (`roundtrip/anchors.rs:60`).
* readers: `loads()` drops an application's tag of a block sequence at its key's
  indent (`decode/mod.rs:891` and `:819`), the other loads keep it; a `Key` token is
  handed out where no mapping is open, for `*a - *b : y` (`scanner/mod.rs:952`).
* writers: that same list, when it is edited and so written at its key's column,
  loses its tag; a null before a key with a mark of its own, and a null under a
  tag spelled `null`, are read as something else. `Lost` and `SpellsTaggedNull` of
  `MCWriters` leave these out. With an indent of four, a literal block under a tag
  in a list stands at a level's indent for `dumps` and at two columns for
  `dumps(represent=...)` (`encode/mod.rs:352`, `roundtrip/emit.rs:648`);
  `TaggedBlockItem` leaves it out.
* validator: `not` accepts where its `$ref` names nothing or is past a limit;
  an alias is resolved to the first definition of its anchor
  (`schema/mod.rs:127`), a load takes the last before it; a schema dependency
  begins the chain of `$ref`s anew at the same node (`schema/mod.rs:804`); every
  node counts for the limit on aliases (`schema/mod.rs:170`); the first of a key
  held twice in a merged mapping is taken; a mapping with an application's tag is
  merged (`schema/mod.rs:289`). `VerdictIsMeaning` is about documents the limits
  leave whole and walks that met no refused `$ref`.

No fairness is assumed but in three runs. `atomic_write`: each thread inside a call
goes on (`WF_vars(Step(t))`), for it holds no lock and waits for nobody.
`include`: the load goes on (`WF_vars(Resolve)`), for it is one thread that waits
for nobody; the other program may stop or change files a bounded number of
times. `validate`: the walk goes on (`WF_allVars(Step)`), a plain recursion that
holds the interpreter's lock throughout. That the readers get through is checked as a bound on the looks at one
event, without fairness. `represent` has no cycle of states but its end, and
`TooDeep` bounds the stack. Runs say `CHECK_DEADLOCK FALSE` where the system
really stops: at the end of the text, of the calls, of the edits, of the load or
of the validation; `writers` also at a lexeme the scanner refuses, which its
properties forbid.

## 4. What is proved

Each theorem is one of the specification `Spec`, for every value of the
constants that satisfies the named assumption, and is checked by TLAPS to the
last leaf. Where the code bounds something, the bound is a constant of the
theorem; where only the runs do (columns apart), the theorem is without it:
documents and directories of any size, any number of edits, files or calls.

`ScannerProofs` (`ScannerAssumption`: the bounds are naturals):

* `InductiveInvariant`: `TypeOK /\ KeyPointsAtNode /\ EndedHasNoKey`.
  `KeyPointsAtNode` alone is not inductive: a key left pending at the end of the
  text would point past a buffer that is only drained; `EndedHasNoKey` says there
  is none.
* `ScannerTypeOK`, `ScannerKeyPointsAtNode` follow from it. The retroactive
  insertion can neither panic nor split a node.
* `ScannerIndentsIncreasing`: the open levels strictly increase. Each fetch
  closes levels from the top, and opens one only past the last.
* `ScannerFlowFreezesLevels`: no step inside a flow collection changes the
  levels. An action property, from the same invariant.
* `ScannerNestingMatches`: the tokens handed out and those still buffered leave open
  exactly the collections the scanner has open. What is proved to be kept is
  `StreamInvariant`, of two parts. `StreamInv`: the buffer leads a reader from the
  collections it has open to those of the scanner, each token being one the reader
  may meet where it comes (`Leads`), and directives are read only between documents.
  `KeyInv`: a node that may still turn out to be a key cuts the buffer in two such
  that a mapping opened in between contains the second part and is closed by
  nothing, and no level is deeper than the cursor. `NestingMatches` alone is not
  inductive: it counts what is open, and both the end of a document and the
  retroactive insertion need to know where in the buffer things were opened. All
  fetches but those two come down to one form (`Fed`): levels are closed, then a
  few tokens are appended that open or close at most one collection.
* `ScannerImplementsTokenStream`: what the scanner hands out is a `TokenStream`. A
  fetch hands out nothing, and the first token of the buffer is one that fits.

`AtomicWriteProofs` (`AtomicWriteAssumption`: each thread has a process and each
process an id, a temporary's name is no target's, the bounds are naturals):

* `InductiveInvariant`: who may touch which inode. A staged temporary is owned by
  one thread (`Staging`), holds what that thread has written so far
  (`Progress`), and neither a target (`Targets`) nor an open reader (`Reading`)
  is on an inode that someone owns. Exclusiveness alone is not inductive: it
  needs that a rename publishes a whole inode and that no orphan is taken over.
* `AtomicWriteTypeOK`, `AtomicWriteTempsExclusive`, `AtomicWriteReadersSeeWhole`
  follow from it.
* `AtomicWriteTempsAccounted`: every temporary in the directory is that of a call
  that is staging it, or of one that died. Each thread's step changes what it
  stages and the directory together, and no other thread's.
* `AtomicWriteImplementsAtomicFile`: every step of the detailed specification is
  a step of `AtomicFile` or leaves it as it is; only a rename changes a file.

`IncludeResolverProofs` (`IncludeAssumption`: each file is in a directory, the
limits are naturals, the special values are no values, and the file systems are
typed):

* `InductiveInvariant` follows each node from the text it stands in, through the
  frame that resolves it, to the result. What the runs check is about the result
  only; the strengthening is about the frames: every node a frame has still to do
  is in the text kept for its id (`Good`), a chain that went through no directory
  names different files (`Straight`, `IsInjective`), a secret that was used is
  still the cached one of its directory (`Cached`).
* `IncludeOriginsAreSources`, `IncludeSecretsAgree`, `IncludeMissesAreTheHoles` and
  `IncludeTypeOK` follow: another program may write any file between any two
  steps, and each value still comes from the text kept for its id.
* `IncludeCyclesAreNamed`: a load that is refused for its depth, with no directory
  on the way, is in a chain of different files: a cycle of `!include` is always
  reported as one.

`DocumentProofs` (`DocumentAssumption`: the documents that are read and the values
that are assigned are trees; a value has no anchor and no alias, and no key twice, for
it is made of Python objects, `roundtrip/value.rs:421`):

* `DocumentInvariant`: a document is a tree (`TypeOK`: a node that is not the root
  is an entry or an item of a collection that is there, items are numbered without
  a hole); if it was read with every anchor and every key once, it still has every
  anchor once; and with no mark it is the one that was read. `AnchorsStayUnique`
  counts the definitions of a name; it becomes inductive as `OneOwner`, about
  paths: two positions with one anchor are one position, and keys are to stay
  apart too, for an edit finds its entry by key. The parts of an edit (taking out, closing up, putting in,
  copying from a collection) are lemmas of their own on trees.
* `DocumentTypeOK`, `DocumentAnchorsStayUnique`, `DocumentUnmarkedIsUnchanged`
  follow.
* `DocumentAliasesKeepPointingBack`: no edit makes an alias point forward, or at a
  node it is in, as long as none dangles. An alias follows its definition
  (`Follows`), and three facts carry this over an edit. A tree that is put in brings no
  anchor and no alias, so the others stay as they are (`GraftFollows`). A delete
  closes up what comes after: one number of each position below the container
  changes (`Shifted`), always in the same direction, so two positions keep their
  order and whether one is in the other (`ShiftedOrder`, `ShiftedPrefix`). And
  `make_alias` compares paths, which are keys and numbers, where the promise is
  about nodes: if no key is held twice the longest path two nodes share leads to
  one node, and the first segments that differ are in the order of the positions
  (`PrecedesIs`).
* `DocumentDeletesKeepComposing`: a document that composes does so after a delete,
  an entry or a detach. A delete that is not refused leaves every alias some
  definition; that it is the one it had, and still before it, is the order again.

`ValidatorProofs` (`LimitsAssumption`, `ValuesAssumption`: the limits are naturals,
the constants are documents and schemas):

* `ValidatorInvariant`: in each goal that is called, on the stack, or waiting in a
  group, the references really followed at its node are at most those counted,
  unless a schema dependency, which starts the count anew, is on its way
  (`Counted`). `HopsBounded` is about the call at hand only; the invariant has to
  go through the groups of every kind of rule.
* `ValidatorHopsBounded` and `ValidatorTypeOK` follow. The second holds the budget
  of references: it is never overdrawn.

`ReadersProofs` (`FramesAssumption`, `ReadersAssumption`: the limit of the depth is a
natural, and the value for no anchor and no tag is neither an anchor nor a tag):

* `ReadersInvariant`: the calls of each reader keep their shape (a document at the
  bottom and nowhere else, at most `MaxDepth` open nodes), and the names it holds,
  bound or given to a node it is still in, are of the document at hand.
  `AliasesStayInDocument` is not inductive: it needs the anchors, these need those
  of the calls, and both have to outlive the moment at which the text has passed a
  document boundary that the reader has not looked at yet. There `Scope` is all
  names, and the steps are shown to end every call before that event is taken. The
  two clear their anchors at different moments, the decoder when a document ends,
  the composer when the next begins: between documents the composer may hold any
  name, and the invariant says so. It also reads a node's properties into fields of
  its own before the node takes them; an anchor is there only at the node it is for.
* `ReadersAliasesStayInDocument`, `ReadersDepthBounded` (what `ReadersMoveOn` says
  about the depth) and `ReadersTypeOK` follow. Sixty actions come down to
  what the few operators of `Frames` keep of a reader (`Same`, `Within`, `Outcome`);
  these lemmas are about any reader.
* `ReadersMoveOnAlways`: the looks at one event are bounded. `Ahead` is how many are
  left to a reader: ten for each open collection and a price for the point it is at.
  Every step lowers it (`DecodeLower`, `ComposeLower`), if the calls nest as those of
  the code do (`Chained`) and the composer keeps properties only at a node
  (`Settled`); `LooksInv` adds up what was looked at and what is left. The bound is
  linear in the limit of the depth: a collection takes ten steps at most to close.
* `ReadersReadAsOpened`: in a document that is accepted, the decoder was inside just
  the collections that the text had open. During a document it need not be: on a
  misplaced entry it leaves a block collection whose end is still to come, and only
  the boundary of the document shows it. The invariant (`Good`) says how far it may be
  off: it has lost some block collections, never one in brackets, and agrees with the
  text on every one in brackets that it still reads (`Matches`); once it is off it
  stays shorter than the text is deep, and at a boundary nothing is open. What keeps
  this is the token a call stands on. A call that returns without a node leaves its
  event to the call around, which would then give up a collection in brackets, unless
  such a call is made on no such event: `Calm` follows that over the three calls it
  can take (the item of an unmarked entry, its node, what the node returns). A
  sequence without brackets is in no bracket at all (`Blocks`), or its loop would take
  the `}` of a mapping around it.

`WriteBackProofs` (`ConfigTreeAssumption`, `WriteBackAssumption`: the listing of a
directory names files, the files to begin with hold documents, the bounds are
naturals). The theorems have a premise, `PlainFiles`: in no file is a document nothing
but a directive. It is needed: where one is, a save writes a file that nobody edited,
which `chained_include_overwritten` shows.

* `WriteBackInvariant`: each node knows the file it is written in. A node is of
  the file of the mapping it is an entry of, unless it replaced a directive or that
  mapping is the listing of a directory (`Below`); a node that replaced an include is of
  the included file; a marked node is of a file in `edited`. So what a boundary
  reaches without crossing another is all of one file (`RegionHome`, by induction on
  the length of a path), and a changed region is that of an edited file. That every
  text on disk, cached at the load or waiting to be written consists of plain documents
  has to be kept too: a load begins from what a save or another program left.
  `TextDocument` says that what is written is a document again.
* `WriteBackSaveKeepsOthers` follows: the writes a save has still to make are for
  edited files, whatever another program does between them. `WriteBackTypeOK` too.

Only model-checked:

* liveness under fairness (`CallsReturn`, `LoadEnds`, `ValidationEnds`);
* that two readings, trees or values are the same (`ReadAlike`,
  `MergeMeaning`, `SamePython`, `SameGraph`, `RepresentWritesLikeDumps`), that what is
  written is read back (`DumpsReadBack`, `DocumentReadsBack`), that a load or a verdict
  is what it means (`LoadMeansItsDirectives`, `VerdictIsMeaning`): both sides are
  computed by recursion over data, by operators of `MergeKeys`, `Represent`,
  `Encoder`, `Emitter` and `Validation`, which hide a module from the provers, or by
  the function `Meaning` of `IncludeResolver`;
* that a detached alias keeps its value (`DetachKeepsValue`): the value is computed
  by recursion over the document;
* `WrittenIsLoadedAgain`, which compares what is in memory with what a load makes of
  the disk: `Resolved` resolves directives one after the other, by recursion over the
  tree it makes.

Induction needs care here, not a new tool: the induction theorems of the library
take an operator and cannot be used, but induction over a set of numbers can be
stated with sets only (`LeastNatural` and `NatSetInduction` in `SequenceLemmas`,
from the well-founded order of finite sets). `FlattenSeqElements` and the copy of a
collection by `make_alias` and `detach` are proved with it.

## 5. What is not modelled

* Text: characters, escapes and the spelling of scalars (resolver, numbers,
  `emit_util`). These keep no state across steps and are the ground of the unit
  tests. A scalar is one of five classes, by what its form depends on.
* Comments on lines of their own, and how the composer attaches them; a comment
  that ends a line is in `Emitter`. Padding and blank lines.
* `sort_keys` (`compare_keys` is over characters) and the JSON writer of the encoder.
* The node budget of aliases: how large a value is, is left out; that an alias may
  be refused is in `Decoder`.
* Duplicate-key checks and the building of values in the decoder.
* The JSON-Schema keywords about one scalar (bounds, patterns, formats): a schema
  has the set of scalars they refuse. How `#/...` pointers are looked up. The
  messages and paths of errors. `directive.rs`.
* Containers that a callback changes while they are walked: `lower` and
  `python_to_value` go over copies of the children.
* The order in which a kernel writes data and names to the disk: a crash here is
  that of a process.
* How paths are confined to a root: only that a target outside it is refused.

## 6. Plan

Built, in this order: `Scanner`; `AtomicWrite` and `WriteBack`; `Document`;
`IncludeResolver`; `Readers`; `MergeKeys`; `Represent`; `Encoder`, `Emitter` and
`Writers`; `Validator` and `Validation`.

To extend: comments on lines of their own, from the composer to the emitter; the
node budget of the decoder over a stream; cursors and `update` of a document
(`roundtrip/document.rs`); the conversion of a tree to Python with shared
containers (`roundtrip/value.rs`).

To prove next: `Represent` and `MergeKeys` have recursive operators, and would first
be split into a module without them and one for the runs.
