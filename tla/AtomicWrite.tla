----------------------------- MODULE AtomicWrite -----------------------------
(***************************************************************************)
(* src/safe_io.rs: atomic_write stages a file under a fresh temporary name  *)
(* and renames it over the target.  Threads of several processes write the  *)
(* same files while others read them; a process may be killed at any step   *)
(* and its id used again, at the same time by another process too (two      *)
(* containers over one directory).  A directory maps names to inodes; an    *)
(* open file is read and written through its inode, so a reader keeps the   *)
(* file it opened when the name moves on.  A content is Chunks writes long. *)
(***************************************************************************)
EXTENDS Naturals, Sequences, Functions

CONSTANTS
    Threads, Processes, ProcessOf,  \* ProcessOf[t]: the process of thread t
    Pids, PidOf,                    \* PidOf[p]: the id of process p
    Readers, Files, Contents,
    Chunks,                         \* the writes a content takes
    MaxCalls, MaxCrashes,           \* bounds: calls made, processes killed
    Absent                          \* no content

\* Temporary sibling names: "<file>.yamlrocks-tmp.<pid>.<n>".
TempNames == [file : Files, pid : Pids, n : Nat]

ASSUME AtomicWriteAssumption ==
    /\ ProcessOf \in [Threads -> Processes]
    /\ PidOf \in [Processes -> Pids]
    /\ Files \intersect TempNames = {}
    /\ Chunks \in Nat \ {0} /\ MaxCalls \in Nat /\ MaxCrashes \in Nat
    /\ Absent \notin Contents

VARIABLES
    dir,        \* the directory: name -> inode
    inodes,     \* the chunks each inode holds, in creation order
    counter,    \* TEMP_COUNTER of each process
    writer,     \* the atomic_write each thread is in, or Idle
    reader,     \* what each reader has read of the inode it opened, or Closed
    orphans,    \* temporaries whose writer died or could not remove them
    calls, crashes

vars == <<dir, inodes, counter, writer, reader, orphans, calls, crashes>>

Idle == [pc |-> "idle"]
Closed == [inode |-> 0, got |-> <<>>]

TempOf(t) == [file |-> writer[t].file, pid |-> PidOf[ProcessOf[t]], n |-> writer[t].n]
Link(name, i) == [m \in DOMAIN dir \union {name} |-> IF m = name THEN i ELSE dir[m]]
Unlink(name) == Restrict(dir, DOMAIN dir \ {name})
Goto(t, pc) == writer' = [writer EXCEPT ![t].pc = pc]
Return(t) == writer' = [writer EXCEPT ![t] = Idle]
-----------------------------------------------------------------------------
Init ==
    /\ dir = [x \in {} |-> 0] /\ inodes = <<>>
    /\ counter = [p \in Processes |-> 0]
    /\ writer = [t \in Threads |-> Idle]
    /\ reader = [r \in Readers |-> Closed]
    /\ orphans = {} /\ calls = 0 /\ crashes = 0

Call(t) ==
    /\ writer[t] = Idle /\ calls < MaxCalls
    /\ \E f \in Files, c \in Contents :
        writer' = [writer EXCEPT ![t] = [pc |-> "name", file |-> f, content |-> c,
                                         n |-> 0, fd |-> 0, left |-> Chunks]]
    /\ calls' = calls + 1
    /\ UNCHANGED <<dir, inodes, counter, reader, orphans, crashes>>

\* Mutant: the counter is read but not advanced.
PickName_NoAdvance(t) ==
    /\ writer[t].pc = "name"
    /\ writer' = [writer EXCEPT ![t].n = counter[ProcessOf[t]], ![t].pc = "open"]
    /\ UNCHANGED <<dir, inodes, counter, reader, orphans, calls, crashes>>

\* TEMP_COUNTER.fetch_add, shared by the threads of a process.
PickName(t) ==
    /\ writer[t].pc = "name"
    /\ writer' = [writer EXCEPT ![t].n = counter[ProcessOf[t]], ![t].pc = "open"]
    /\ counter' = [counter EXCEPT ![ProcessOf[t]] = @ + 1]
    /\ UNCHANGED <<dir, inodes, reader, orphans, calls, crashes>>

\* Mutants: the name is opened whether it exists or not (no O_EXCL); the target
\* itself is opened, as a plain std::fs::write would.
Open_NoExcl(t) ==
    /\ writer[t].pc = "open"
    /\ inodes' = Append(inodes, <<>>)
    /\ dir' = Link(TempOf(t), Len(inodes) + 1)
    /\ writer' = [writer EXCEPT ![t].fd = Len(inodes) + 1, ![t].pc = "write"]
    /\ UNCHANGED <<counter, reader, orphans, calls, crashes>>
Open_InPlace(t) ==
    /\ writer[t].pc = "open"
    /\ inodes' = Append(inodes, <<>>)
    /\ dir' = [m \in DOMAIN dir \union {writer[t].file, TempOf(t)} |->
                  IF m \in {writer[t].file, TempOf(t)} THEN Len(inodes) + 1 ELSE dir[m]]
    /\ writer' = [writer EXCEPT ![t].fd = Len(inodes) + 1, ![t].pc = "write"]
    /\ UNCHANGED <<counter, reader, orphans, calls, crashes>>

\* create_new: a name in use is passed over, any other error is returned.
Open(t) ==
    /\ writer[t].pc = "open"
    /\ \/ /\ TempOf(t) \in DOMAIN dir /\ Goto(t, "name")
          /\ UNCHANGED <<dir, inodes>>
       \/ /\ TempOf(t) \notin DOMAIN dir
          /\ inodes' = Append(inodes, <<>>)
          /\ dir' = Link(TempOf(t), Len(inodes) + 1)
          /\ writer' = [writer EXCEPT ![t].fd = Len(inodes) + 1, ![t].pc = "write"]
       \/ Return(t) /\ UNCHANGED <<dir, inodes>>
    /\ UNCHANGED <<counter, reader, orphans, calls, crashes>>

\* Mutant: the last write is not the last one.
Write_OneMore(t) ==
    /\ writer[t].pc = "write"
    /\ writer' = [writer EXCEPT ![t].left = @ - 1]
    /\ inodes' = [inodes EXCEPT ![writer[t].fd] = Append(@, writer[t].content)]
    /\ UNCHANGED <<dir, counter, reader, orphans, calls, crashes>>

\* write_all and flush; a full disk ends them early.
Write(t) ==
    /\ writer[t].pc = "write" /\ writer[t].left > 0
    /\ \/ /\ writer' = [writer EXCEPT ![t].left = @ - 1]
          /\ inodes' = [inodes EXCEPT ![writer[t].fd] = Append(@, writer[t].content)]
       \/ Goto(t, "remove") /\ UNCHANGED inodes
    /\ UNCHANGED <<dir, counter, reader, orphans, calls, crashes>>

\* Mutant: the file is moved into place before all of it is written.
Rename_Early(t) ==
    /\ writer[t].pc = "write"
    /\ dir' = [m \in (DOMAIN dir \ {TempOf(t)}) \union {writer[t].file} |->
                  IF m = writer[t].file THEN dir[TempOf(t)] ELSE dir[m]]
    /\ Return(t)
    /\ UNCHANGED <<inodes, counter, reader, orphans, calls, crashes>>

\* Mutant: an error of the move is returned at once.
Rename_LeaksOnError(t) ==
    /\ writer[t].pc = "write" /\ writer[t].left = 0
    /\ \/ /\ TempOf(t) \in DOMAIN dir
          /\ dir' = [m \in (DOMAIN dir \ {TempOf(t)}) \union {writer[t].file} |->
                        IF m = writer[t].file THEN dir[TempOf(t)] ELSE dir[m]]
       \/ UNCHANGED dir
    /\ Return(t)
    /\ UNCHANGED <<inodes, counter, reader, orphans, calls, crashes>>

Rename(t) ==
    /\ writer[t].pc = "write" /\ writer[t].left = 0
    /\ \/ /\ TempOf(t) \in DOMAIN dir
          /\ dir' = [m \in (DOMAIN dir \ {TempOf(t)}) \union {writer[t].file} |->
                        IF m = writer[t].file THEN dir[TempOf(t)] ELSE dir[m]]
          /\ Return(t)
       \/ Goto(t, "remove") /\ UNCHANGED dir
    /\ UNCHANGED <<inodes, counter, reader, orphans, calls, crashes>>

\* remove_file, whose own failure is ignored.
Remove(t) ==
    /\ writer[t].pc = "remove"
    /\ \/ dir' = Unlink(TempOf(t)) /\ UNCHANGED orphans
       \/ orphans' = orphans \union {TempOf(t)} /\ UNCHANGED dir
    /\ Return(t)
    /\ UNCHANGED <<inodes, counter, reader, calls, crashes>>

Staged(t) == writer[t].pc \in {"write", "remove"}

\* A process dies; the one started in its place counts from zero again.
Crash(p) ==
    /\ crashes < MaxCrashes /\ crashes' = crashes + 1
    /\ writer' = [t \in Threads |-> IF ProcessOf[t] = p THEN Idle ELSE writer[t]]
    /\ counter' = [counter EXCEPT ![p] = 0]
    /\ orphans' = orphans \union {TempOf(t) : t \in {u \in Threads : ProcessOf[u] = p /\ Staged(u)}}
    /\ UNCHANGED <<dir, inodes, reader, calls>>
-----------------------------------------------------------------------------
\* A reader, of any program: it opens a file and reads it to the end.
ReadOpen(r) ==
    /\ reader[r] = Closed
    /\ \E f \in Files \intersect DOMAIN dir :
        reader' = [reader EXCEPT ![r] = [inode |-> dir[f], got |-> <<>>]]
    /\ UNCHANGED <<dir, inodes, counter, writer, orphans, calls, crashes>>

AtEnd(r) == Len(reader[r].got) = Len(inodes[reader[r].inode])
ReadChunk(r) ==
    /\ reader[r] # Closed /\ ~AtEnd(r)
    /\ reader' = [reader EXCEPT ![r].got = Append(@, inodes[reader[r].inode][Len(@) + 1])]
    /\ UNCHANGED <<dir, inodes, counter, writer, orphans, calls, crashes>>

ReadClose(r) ==
    /\ reader[r] # Closed /\ AtEnd(r)
    /\ reader' = [reader EXCEPT ![r] = Closed]
    /\ UNCHANGED <<dir, inodes, counter, writer, orphans, calls, crashes>>

Step(t) == PickName(t) \/ Open(t) \/ Write(t) \/ Rename(t) \/ Remove(t)
Next ==
    \/ \E t \in Threads : Call(t) \/ Step(t)
    \/ \E p \in Processes : Crash(p)
    \/ \E r \in Readers : ReadOpen(r) \/ ReadChunk(r) \/ ReadClose(r)

Spec == Init /\ [][Next]_vars
\* A call runs to its end: it holds no lock and waits for nobody.
FairSpec == Spec /\ \A t \in Threads : WF_vars(Step(t))
-----------------------------------------------------------------------------
Jobs == [pc : {"name", "open", "write", "remove"}, file : Files, content : Contents,
         n : Nat, fd : Nat, left : 0 .. Chunks]

TypeOK ==
    /\ dir \in [DOMAIN dir -> 1 .. Len(inodes)] /\ DOMAIN dir \subseteq Files \union TempNames
    /\ inodes \in Seq(Seq(Contents))
    /\ counter \in [Processes -> Nat]
    /\ writer \in [Threads -> Jobs \union {Idle}]
    /\ reader \in [Readers -> [inode : 0 .. Len(inodes), got : Seq(Contents)]]
    /\ orphans \subseteq TempNames /\ calls \in Nat /\ crashes \in Nat

\* A temporary belongs to the one thread that created it: no two threads, of one
\* process or of two with the same id, stage under one name or into one inode,
\* and what a dead process left behind is never taken over.
TempsExclusive ==
    \A t \in Threads : Staged(t) =>
        /\ TempOf(t) \in DOMAIN dir /\ dir[TempOf(t)] = writer[t].fd
        /\ TempOf(t) \notin orphans
        /\ \A u \in Threads \ {t} : Staged(u) =>
               TempOf(u) # TempOf(t) /\ writer[u].fd # writer[t].fd

\* Nothing lingers: a temporary in the directory is being written, or its
\* process died or was refused its removal.
TempsAccounted ==
    DOMAIN dir \ Files = orphans \union {TempOf(t) : t \in {u \in Threads : Staged(u)}}

Whole(chunks) == \E c \in Contents : chunks = [i \in 1 .. Chunks |-> c]

\* A reader that reached the end of the file read one content, whole: no write,
\* failed write or crash shows through, before or after it opened the file.
ReadersSeeWhole ==
    \A r \in Readers : reader[r] # Closed /\ AtEnd(r) => Whole(reader[r].got)

\* The files change as AtomicFile says.
ValueOf(i) == IF inodes[i] = <<>> THEN Absent ELSE inodes[i][1]
AF == INSTANCE AtomicFile WITH
    value <- [f \in Files |-> IF f \in DOMAIN dir THEN ValueOf(dir[f]) ELSE Absent],
    view <- [r \in Readers |-> IF reader[r] = Closed THEN Absent ELSE ValueOf(reader[r].inode)]
AtomicFileSpec == AF!Spec

\* Every call returns: however many names are taken, a free one comes.
CallsReturn == \A t \in Threads : writer[t] # Idle ~> writer[t] = Idle
=============================================================================
