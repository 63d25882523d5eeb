-------------------------- MODULE MCIncludeResolver ---------------------------
(***************************************************************************)
(* Model-checking a load: a root, one file beside it and two in a directory  *)
(* below, with a secrets.yaml in each directory.                             *)
(***************************************************************************)
EXTENDS IncludeResolver, TLC

CONSTANTS base, sub, root, b, c, d, s, t, v, v1, v2, v3

Tagged(tag, arg) == [tag |-> tag, arg |-> arg, default |-> None]
Val(val) == Tagged("", val)
Inc(arg) == Tagged("!include", arg)
List(arg) == Tagged("!include_dir_list", arg)
Named(arg) == Tagged("!include_dir_named", arg)
Sec(name) == Tagged("!secret", name)
Env(default) == [tag |-> "!env_var", arg |-> v, default |-> default]

\* x.yaml is a file of its own in both directories.
TheJoin ==
    <<base, "x">> :> b @@ <<sub, "x">> :> c @@ <<base, "sub/x">> :> c @@ <<sub, "y">> :> d @@
    <<base, "sub">> :> sub @@ <<base, ".">> :> base @@ <<sub, ".">> :> sub @@ <<sub, "../root">> :> root @@
    <<base, "root">> :> root @@ <<base, "../z">> :> Outside @@ <<sub, "../../z">> :> Outside @@
    [p \in {base, sub} \X {v1, s, t, v, None} |-> Outside]

World(rootDocs, inMemory, bDocs, cDocs, dDocs, baseSecrets, subSecrets, env) ==
    [root |-> rootDocs, env |-> env,
     disk |-> root :> (IF inMemory THEN Absent ELSE rootDocs) @@ b :> bDocs @@ c :> cDocs @@ d :> dDocs,
     secrets |-> base :> baseSecrets @@ sub :> subSecrets]

\* Includes in both directories, each with secrets.
Chain == World(<<<<Inc("x"), Sec(s), Inc("sub/x")>>>>, FALSE, <<<<Sec(t), Env(None)>>>>, <<<<Sec(s), Inc("y"), Sec(t)>>>>,
               <<<<Val(v1)>>, <<Sec(s)>>>>, {<<s, v1>>, <<t, v2>>}, {<<s, v2>>, <<Logger, v1>>}, v :> v1)
\* A file included four times, over two that include it twice.
Lattice == World(<<<<Inc("x"), Inc("x")>>>>, TRUE, <<<<Inc("sub/x"), Inc("sub/x")>>>>, <<<<Env(v3), Sec(t)>>>>,
                 Absent, {<<s, v3>>}, Absent, <<>>)
\* Two cycles.
Cycles == World(<<<<Val(v1), Inc("sub/x"), List("sub")>>>>, FALSE, <<<<Inc("root"), Named(".")>>>>, <<<<Inc("../root")>>>>,
                <<<<Sec(t)>>, <<Env(None)>>>>, {<<t, v3>>}, Unreadable, <<>>)
\* What names nothing, a file of no document, and one that cannot be read.
Faults == World(<<<<Named("sub"), Inc("../z")>>>>, FALSE, Unreadable, <<>>, <<<<Inc(None)>>>>, Absent, {<<t, v1>>}, <<>>)
\* Directories that list the file that lists them.
Lists == World(<<<<List("."), Sec(t)>>>>, TRUE, <<<<Env(None)>>, <<Sec(s), Val(v2)>>>>, <<<<Sec(t)>>>>,
               <<<<Named("."), Val(v1)>>>>, {<<s, v2>>}, {<<t, v3>>}, v :> v2)

\* A listed file that includes itself, or is included by what it includes, from a
\* document after the first: an include takes only the first.
Later == World(<<<<List("sub")>>>>, TRUE, Absent, <<<<Val(v1)>>, <<Inc("x")>>>>, <<<<Val(v2)>>>>, Absent, Absent, <<>>)

TheScalars ==
    {"x", "y", "root", "sub", ".", "sub/x", "../root", "../z", "../../z", s, t, v, v1, v2, v3, Logger, Debug}
TheWorlds == {Chain, Lattice, Cycles, Faults, Lists, Later}
IncludeTags == {"!include", "!include_dir_named", "!include_dir_list"}
TheOptions ==
    {[tags |-> IncludeTags \union {"!secret", "!env_var"}, collect |-> {"!secret", "!env_var"}, recursive |-> TRUE],
     [tags |-> IncludeTags \union {"!secret", "!env_var"}, collect |-> {"!env_var"}, recursive |-> FALSE],
     [tags |-> IncludeTags, collect |-> {"!secret"}, recursive |-> FALSE]}
TheDirOf == root :> base @@ b :> base @@ c :> sub @@ d :> sub
TheParent == base :> base @@ sub :> base
TheListed == <<root, b, c, d>>
=============================================================================
