--------------------------- MODULE IncludeResolver ----------------------------
(***************************************************************************)
(* One load with !include, !include_dir_*, !secret and !env_var expanded     *)
(* (src/include/).  The recursion over nodes and files is a stack of frames, *)
(* one step for each directive and each file read, so that other programs    *)
(* can change the files in between.                                          *)
(*                                                                           *)
(* A document is the sequence of its plain values and directives in document *)
(* order; what holds them, and which of the files' entries the merge forms   *)
(* keep, is left out.                                                        *)
(***************************************************************************)
EXTENDS Naturals, FiniteSets, SequencesExt, Functions

CONSTANTS
    Dirs, Base, Parent, \* directories; Base is the boundary
    Listed, DirOf,      \* the files in the order a directory walk lists them
    Root,               \* the file that is loaded, or the placeholder for a text
    Join,               \* <<directory, argument>> -> file or directory, canonical
    Scalars,            \* what a value, a name or a path can be
    Worlds,             \* what files, secrets.yaml files and the environment hold
    Options,            \* tags expanded, misses collected, directories walked down
    Absent, Unreadable, Outside, None, Null, Logger, Debug,
    MaxDepth,           \* MAX_INCLUDE_DEPTH
    MaxExpansions,      \* MAX_INCLUDE_EXPANSIONS
    MaxChanges          \* bound: changes by other programs

Files == ToSet(Listed)

Nodes == [tag : {"", "!include", "!include_dir_named", "!include_dir_list", "!secret", "!env_var"},
          arg : Scalars \union {None}, default : Scalars \union {None}]
Docs == Seq(Seq(Nodes))
Texts == {Absent, Unreadable} \union Docs
Maps == {Absent, Unreadable} \union SUBSET (Scalars \X Scalars)

IsWorld(w) ==
    /\ w \in [root : Docs, disk : [Files -> Texts], secrets : [Dirs -> Maps], env : {w.env}]
    /\ w.env \in [DOMAIN w.env -> Scalars]

\* Null stands for a reference nothing was found for: no text holds it.
ASSUME IncludeAssumption ==
    /\ Root \in Files /\ Base \in Dirs /\ DirOf \in [Files -> Dirs] /\ Parent \in [Dirs -> Dirs]
    /\ None \notin Dirs \union {"!include_dir_named", "!include_dir_list"} /\ Null \notin Scalars \union {None}
    /\ Absent \notin Docs /\ Unreadable \notin Docs
    /\ MaxDepth \in Nat /\ MaxExpansions \in Nat /\ MaxChanges \in Nat
    /\ \A w \in Worlds : IsWorld(w)

VARIABLES
    world, changes, options,
    status,     \* running, done, or the kind of the error
    frames,     \* the calls of resolve_node and the directory loops
    fileMap,    \* file_map and file_sources: the file_id is the index
    cache,      \* secrets_cache
    expansions, misses, warnings,
    out         \* the values of the result, in document order

vars == <<world, changes, options, status, frames, fileMap, cache, expansions, misses, warnings, out>>

\* loop: the directive whose files are read, None for a document; id: the file_id
\* in the spans of todo; chain: the stack of included paths; climb: the directory
\* where the search for a secret is.
Frame(todo, loop, files, id, chain) ==
    [todo |-> todo, loop |-> loop, files |-> files, id |-> id, chain |-> chain, climb |-> None]
-----------------------------------------------------------------------------
MissTags == {"!secret", "!env_var"}

Init ==
    /\ world \in Worlds /\ changes = 0 /\ options \in Options
    /\ status = "running"
    /\ fileMap = <<[path |-> Root, source |-> world.root]>>
    /\ frames = <<Frame(FlattenSeq(world.root), None, <<>>, 1, <<>>)>>
    /\ cache = <<>> /\ expansions = 0 /\ misses = [tag \in MissTags |-> <<>>] /\ warnings = 0 /\ out = <<>>

Top == Last(frames)
Node == Head(Top.todo)
\* The frames once the node at hand is resolved.
Rest == [frames EXCEPT ![Len(frames)].todo = Tail(@), ![Len(frames)].climb = None]

At(tag) ==
    /\ status = "running" /\ frames # <<>> /\ Top.todo # <<>>
    /\ Node.tag = tag /\ tag \in options.tags

Fail(kind) ==
    /\ status' = kind
    /\ UNCHANGED <<world, changes, options, frames, fileMap, cache, expansions, misses, warnings, out>>

\* resolve_path_from_span, resolve_path.
Requester == fileMap[Top.id].path
Target == Join[<<DirOf[Requester], Node.arg>>]

\* Collects the node as a missing reference.
Miss == misses' = [misses EXCEPT ![Node.tag] = Append(@, [node |-> Node, file |-> Requester])]

Emit(val, dir) ==
    /\ out' = Append(out, [id |-> Top.id, node |-> Node, val |-> val, dir |-> dir])
    /\ frames' = Rest

\* A scalar, or a directive whose tag is not expanded.
Plain ==
    /\ status = "running" /\ frames # <<>> /\ Top.todo # <<>>
    /\ Node.tag \notin options.tags
    /\ Emit(Node.arg, None)
    /\ UNCHANGED <<world, changes, options, status, fileMap, cache, expansions, misses, warnings>>

\* The nodes of a file that are resolved: the first document, or for a list all.
Taken(loop, docs) ==
    IF loop = "!include_dir_list" THEN FlattenSeq(docs) ELSE IF docs = <<>> THEN <<>> ELSE docs[1]
Readable(path) == path \in Files /\ world.disk[path] \notin {Absent, Unreadable}
Opened(path, loop, before, id) ==
    /\ expansions' = expansions + 1
    /\ fileMap' = Append(fileMap, [path |-> path, source |-> world.disk[path]])
    /\ frames' = Append(before, Frame(Taken(loop, world.disk[path]), None, <<>>, id, Append(Top.chain, path)))
    /\ UNCHANGED <<world, changes, options, status, cache, misses, warnings, out>>

\* Mutant: the file's nodes keep the id of the directive.
Read_OldId(path, loop, before) ==
    IF expansions >= MaxExpansions THEN Fail("depth")
    ELSE IF ~Readable(path) THEN Fail("unreadable")
    ELSE Opened(path, loop, before, Top.id)

\* read_and_compose, and resolve_node on what was read.
Read(path, loop, before) ==
    IF expansions >= MaxExpansions THEN Fail("depth")
    ELSE IF ~Readable(path) THEN Fail("unreadable")
    ELSE Opened(path, loop, before, Len(fileMap) + 1)

\* scalar_arg, check_include_depth and resolve_path, which all the forms begin with.
Refusal ==
    IF Node.arg = None THEN "invalid"
    ELSE IF Len(Top.chain) >= MaxDepth THEN "depth"
    ELSE IF Target = Outside THEN "confinement"
    ELSE "none"

\* Mutant: only the file that has the directive is compared.
Include_DirectOnly ==
    /\ At("!include")
    /\ IF Refusal # "none" THEN Fail(Refusal)
       ELSE IF Target = Last(<<None>> \o Top.chain) THEN Fail("circular")
       ELSE Read(Target, None, Rest)

Include ==
    /\ At("!include")
    /\ IF Refusal # "none" THEN Fail(Refusal)
       ELSE IF Target \in ToSet(Top.chain) THEN Fail("circular")
       ELSE Read(Target, None, Rest)

\* collect_dir_files.
Within(dir) ==
    LET within[d \in Dirs] == d = dir \/ (options.recursive /\ d # Base /\ within[Parent[d]])
    IN  {d \in Dirs : within[d]}
Listing(dir) ==
    SelectSeq(Listed, LAMBDA f : DirOf[f] \in Within(dir) /\ world.disk[f] # Absent)

IncludeDir(tag) ==
    /\ At(tag)
    /\ IF Refusal # "none" THEN Fail(Refusal)
       ELSE /\ frames' = Append(Rest, Frame(<<>>, tag, Listing(Target), Top.id, Top.chain))
            /\ UNCHANGED <<world, changes, options, status, fileMap, cache, expansions, misses, warnings, out>>

\* The next file of a directory.
DirFile ==
    /\ status = "running" /\ frames # <<>> /\ Top.todo = <<>> /\ Top.files # <<>>
    /\ Read(Head(Top.files), Top.loop, [frames EXCEPT ![Len(frames)].files = Tail(@)])

Return ==
    /\ status = "running" /\ frames # <<>> /\ Top.todo = <<>> /\ Top.files = <<>>
    /\ frames' = Front(frames)
    /\ status' = IF Len(frames) = 1 THEN "done" ELSE status
    /\ UNCHANGED <<world, changes, options, fileMap, cache, expansions, misses, warnings, out>>
-----------------------------------------------------------------------------
\* Where the search starts: the requester is canonicalized, which only a file
\* that exists can be.
Start == IF world.disk[Requester] = Absent THEN Base ELSE DirOf[Requester]
Searched == IF Top.climb = None THEN Start ELSE Top.climb

Names(map) == {p[1] : p \in map} \ {Logger}
Defined(map) == [n \in Names(map) |-> (CHOOSE p \in map : p[1] = n)[2]]

\* ensure_secrets_loaded, where the file is read: a missing one counts as empty.
Usable(dir) == IF world.secrets[dir] = Absent THEN <<>> ELSE Defined(world.secrets[dir])
Loaded(dir) == IF dir \in DOMAIN cache THEN cache[dir] ELSE Usable(dir)
Registers(dir) == dir \notin DOMAIN cache /\ world.secrets[dir] # Absent

\* Mutant: a miss is collected in each directory.
SecretStep_MissAtEach(map, found, missed, up) ==
    /\ cache' = [d \in DOMAIN cache \union {Searched} |-> IF d = Searched THEN map ELSE cache[d]]
    /\ fileMap' = IF Registers(Searched)
                  THEN Append(fileMap, [path |-> Searched, source |-> world.secrets[Searched]]) ELSE fileMap
    /\ warnings' = IF Registers(Searched) /\ \E p \in world.secrets[Searched] : p[1] = Logger /\ p[2] # Debug
                   THEN warnings + 1 ELSE warnings
    /\ \/ found /\ Emit(map[Node.arg], Searched) /\ UNCHANGED misses
       \/ missed /\ Emit(Null, None) /\ Miss
       \/ up /\ frames' = [frames EXCEPT ![Len(frames)].climb = Parent[Searched]] /\ UNCHANGED out
             /\ Miss
    /\ UNCHANGED <<world, changes, options, status, expansions>>

SecretStep(map, found, missed, up) ==
    /\ cache' = [d \in DOMAIN cache \union {Searched} |-> IF d = Searched THEN map ELSE cache[d]]
    /\ fileMap' = IF Registers(Searched)
                  THEN Append(fileMap, [path |-> Searched, source |-> world.secrets[Searched]]) ELSE fileMap
    /\ warnings' = IF Registers(Searched) /\ \E p \in world.secrets[Searched] : p[1] = Logger /\ p[2] # Debug
                   THEN warnings + 1 ELSE warnings
    /\ \/ found /\ Emit(map[Node.arg], Searched) /\ UNCHANGED misses
       \/ missed /\ Emit(Null, None) /\ Miss
       \/ up /\ frames' = [frames EXCEPT ![Len(frames)].climb = Parent[Searched]] /\ UNCHANGED <<misses, out>>
    /\ UNCHANGED <<world, changes, options, status, expansions>>

\* Mutants: the file is read again at each look; the search ends in the first
\* directory, or goes on above the base.
Secret_NoCache ==
    /\ At("!secret")
    /\ IF world.secrets[Searched] = Unreadable THEN Fail("invalid")
       ELSE LET map == Usable(Searched)
                found == Node.arg \in DOMAIN map
            IN  IF ~found /\ Searched = Base /\ "!secret" \notin options.collect THEN Fail("secret_not_found")
                ELSE SecretStep(map, found, ~found /\ Searched = Base, ~found /\ Searched # Base)
Secret_OneDirectory ==
    /\ At("!secret")
    /\ IF Searched \notin DOMAIN cache /\ world.secrets[Searched] = Unreadable THEN Fail("invalid")
       ELSE LET map == Loaded(Searched)
                found == Node.arg \in DOMAIN map
            IN  IF ~found /\ "!secret" \notin options.collect THEN Fail("secret_not_found")
                ELSE SecretStep(map, found, ~found, FALSE)
Secret_PastBase ==
    /\ At("!secret")
    /\ IF Searched \notin DOMAIN cache /\ world.secrets[Searched] = Unreadable THEN Fail("invalid")
       ELSE LET map == Loaded(Searched)
                found == Node.arg \in DOMAIN map
            IN  SecretStep(map, found, FALSE, ~found)

\* resolve_secret, one directory at a time.
Secret ==
    /\ At("!secret")
    /\ IF Searched \notin DOMAIN cache /\ world.secrets[Searched] = Unreadable THEN Fail("invalid")
       ELSE LET map == Loaded(Searched)
                found == Node.arg \in DOMAIN map
            IN  IF ~found /\ Searched = Base /\ "!secret" \notin options.collect THEN Fail("secret_not_found")
                ELSE SecretStep(map, found, ~found /\ Searched = Base, ~found /\ Searched # Base)

\* resolve_env_var: a variable, or what follows its name.
EnvVar ==
    /\ At("!env_var")
    /\ IF Node.arg \in DOMAIN world.env
       THEN Emit(world.env[Node.arg], None) /\ UNCHANGED <<misses, status>>
       ELSE IF Node.default # None
       THEN Emit(Node.default, None) /\ UNCHANGED <<misses, status>>
       ELSE IF "!env_var" \in options.collect
       THEN Emit(Null, None) /\ Miss /\ UNCHANGED status
       ELSE status' = "env_var_undefined" /\ UNCHANGED <<misses, frames, out>>
    /\ UNCHANGED <<world, changes, options, fileMap, cache, expansions, warnings>>
-----------------------------------------------------------------------------
Resolve ==
    \/ Plain \/ Include \/ DirFile \/ Return \/ Secret \/ EnvVar
    \/ \E tag \in {"!include_dir_named", "!include_dir_list"} : IncludeDir(tag)

\* Another program replaces, removes or creates a file.
OtherWrites ==
    /\ changes < MaxChanges /\ status = "running"
    /\ changes' = changes + 1
    /\ \E other \in Worlds :
        \/ \E f \in Files : world' = [world EXCEPT !.disk[f] = other.disk[f]]
        \/ \E d \in Dirs : world' = [world EXCEPT !.secrets[d] = other.secrets[d]]
    /\ world' # world
    /\ UNCHANGED <<options, status, frames, fileMap, cache, expansions, misses, warnings, out>>

Next == Resolve \/ OtherWrites

Spec == Init /\ [][Next]_vars
\* The load is one thread that waits for nobody.
FairSpec == Spec /\ WF_vars(Resolve)
-----------------------------------------------------------------------------
Kinds == {"running", "done", "invalid", "depth", "confinement", "circular", "unreadable",
          "secret_not_found", "env_var_undefined"}
IsFrame(f) ==
    f \in [todo : Seq(Nodes), loop : {None, "!include_dir_named", "!include_dir_list"}, files : {f.files},
           id : Nat, chain : Seq(Files), climb : Dirs \union {None}]

TypeOK ==
    /\ IsWorld(world) /\ changes \in 0 .. MaxChanges
    /\ status \in Kinds /\ (status = "done" <=> frames = <<>>)
    /\ expansions \in 0 .. MaxExpansions
    /\ fileMap \in Seq(ToSet(fileMap)) /\ \A i \in DOMAIN fileMap : fileMap[i].path \in Files \union Dirs
    /\ frames \in Seq(ToSet(frames))
    /\ \A i \in DOMAIN frames :
        IsFrame(frames[i]) /\ frames[i].id \in DOMAIN fileMap /\ Len(frames[i].chain) <= MaxDepth
    /\ misses \in [MissTags -> Seq([node : Nodes, file : Files])]
    /\ out \in Seq([id : Nat, node : Nodes, val : Scalars \union {None, Null}, dir : Dirs \union {None}])

Sources(source) == IF source \in {Absent, Unreadable} THEN {} ELSE ToSet(FlattenSeq(source))

\* An error is reported, a relative path resolved and an edit written back by the
\* file_id of a node: each value of the result is in the text kept for its id,
\* whatever was included, listed or read as secrets since.
OriginsAreSources ==
    \A i \in DOMAIN out :
        LET file == fileMap[out[i].id] IN file.path \in Files /\ out[i].node \in Sources(file.source)

\* A load sees one version of each secrets.yaml: a secret found in one directory
\* is the same everywhere, although the file changes while it runs.
SecretsAgree ==
    \A i \in DOMAIN out, j \in DOMAIN out :
        out[i].dir # None /\ out[i].dir = out[j].dir /\ out[i].node.arg = out[j].node.arg
            => out[i].val = out[j].val

\* "so a single pass finds them all": the misses that are reported are the values
\* the result has not, in document order, and none twice.
Holes(tag) == {i \in DOMAIN out : out[i].val = Null /\ out[i].node.tag = tag}
MissesAreTheHoles ==
    \A tag \in MissTags :
        /\ Len(misses[tag]) = Cardinality(Holes(tag))
        /\ \A i \in Holes(tag) :
            misses[tag][Cardinality({j \in Holes(tag) : j <= i})] =
                [node |-> out[i].node, file |-> fileMap[out[i].id].path]
        /\ Holes(tag) # {} => tag \in options.collect

\* What a load means, where no other program interferes: whether it succeeds, the
\* files it reads and the values it yields, by recursion on the files.
Nothing == [ok |-> TRUE, reads |-> 0, vals |-> <<>>]
Failed == [ok |-> FALSE, reads |-> 0, vals |-> <<>>]
Value(v) == [Nothing EXCEPT !.vals = <<v>>]
Then(a, b) == [ok |-> a.ok /\ b.ok, reads |-> a.reads + b.reads, vals |-> a.vals \o b.vals]
All(outcomes) == FoldRight(Then, outcomes, Nothing)

Lookup ==
    LET lookup[d \in Dirs, n \in {node.arg : node \in UNION {Sources(world.disk[f]) : f \in Files} \union Sources(world.root)}] ==
            IF world.secrets[d] = Unreadable THEN Failed
            ELSE IF n \in DOMAIN Usable(d) THEN Value(Usable(d)[n])
            ELSE IF d # Base THEN lookup[Parent[d], n]
            ELSE IF "!secret" \in options.collect THEN Value(Null) ELSE Failed
    IN  lookup

Meaning ==
    LET \* The nodes of f, which takes as many directives as n to get to.
        meaning[f \in Files, loop \in {None, "!include_dir_named", "!include_dir_list"}, n \in 0 .. MaxDepth] ==
            LET read(g, tag) ==
                    IF Readable(g) THEN Then([Nothing EXCEPT !.reads = 1], meaning[g, tag, n + 1]) ELSE Failed
                one(node) ==
                    LET target == Join[<<DirOf[f], node.arg>>]
                        files == Listing(target)
                    IN  CASE node.tag \notin options.tags -> Value(node.arg)
                          [] node.tag = "!env_var" ->
                                IF node.arg \in DOMAIN world.env THEN Value(world.env[node.arg])
                                ELSE IF node.default # None THEN Value(node.default)
                                ELSE IF node.tag \in options.collect THEN Value(Null) ELSE Failed
                          [] node.tag = "!secret" ->
                                Lookup[IF world.disk[f] = Absent THEN Base ELSE DirOf[f], node.arg]
                          [] OTHER ->
                                IF node.arg = None \/ n = MaxDepth \/ target = Outside THEN Failed
                                ELSE IF node.tag = "!include" THEN read(target, None)
                                ELSE All([i \in DOMAIN files |-> read(files[i], node.tag)])
                nodes == IF n = 0 THEN FlattenSeq(world.root) ELSE Taken(loop, world.disk[f])
            IN  All([i \in DOMAIN nodes |-> one(nodes[i])])
    IN  meaning[Root, None, 0]

\* "Include cycles are detected": where one !include after another leads back to
\* a file, the load says so, and does not run into the limit of the depth.
CyclesAreNamed ==
    status = "depth" /\ (\A i \in DOMAIN frames : frames[i].loop = None) => IsInjective(Top.chain)

\* A cycle is one of files, not of documents: a file of which a list reads every
\* document may lead back to itself from a later one, and be refused, although the
\* include would only take the first.
CycleOfFiles ==
    /\ status = "circular"
    /\ \E i \in 2 .. Len(frames) : frames[i - 1].loop = "!include_dir_list" /\ Target = Last(frames[i].chain)

\* With files that stay as they are the load yields what the directives mean, and
\* fails only where they mean nothing: a file that is missing or included without
\* end, more files than a load may read, a secret or a variable no one defines; or
\* for a cycle of the files of a list.  Whether files change or not, a cycle is
\* reported as one.
LoadMeansItsDirectives ==
    /\ CyclesAreNamed
    /\ changes = 0 /\ status # "running" =>
        LET meant == Meaning
        IN  IF meant.ok /\ meant.reads <= MaxExpansions
            THEN (status = "done" /\ [i \in DOMAIN out |-> out[i].val] = meant.vals) \/ CycleOfFiles
            ELSE status # "done"

\* Cycles, lists of their own directory and files that change meanwhile: the load
\* ends.
LoadEnds == <>(status # "running")
=============================================================================
