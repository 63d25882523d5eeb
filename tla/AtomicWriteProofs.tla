-------------------------- MODULE AtomicWriteProofs --------------------------
(***************************************************************************)
(* Proofs about atomic_write, for any threads, processes, ids shared by     *)
(* processes, files, contents and crashes.  The inductive invariant says    *)
(* who may touch which inode: a staged temporary is owned by one thread,    *)
(* and no owned inode is ever a target's or a reader's.                     *)
(***************************************************************************)
EXTENDS AtomicWrite, TLAPS

Owns(t) ==
    /\ writer[t].fd \in 1 .. Len(inodes)
    /\ TempOf(t) \in DOMAIN dir /\ dir[TempOf(t)] = writer[t].fd

\* The staged temporaries: owned, apart from each other, no orphan among them.
Staging ==
    /\ \A t \in Threads : Staged(t) => Owns(t) /\ TempOf(t) \notin orphans
    /\ \A t, u \in Threads : t # u /\ Staged(t) /\ Staged(u) =>
           TempOf(t) # TempOf(u) /\ writer[t].fd # writer[u].fd
    /\ orphans \subseteq DOMAIN dir

\* What a writer has written so far.
Progress ==
    \A t \in Threads :
        /\ writer[t].pc \in {"name", "open"} => writer[t].left = Chunks
        /\ writer[t].pc = "write" =>
               inodes[writer[t].fd] = [i \in 1 .. Chunks - writer[t].left |-> writer[t].content]

\* A published inode is whole, and no writer holds it.
Published(i) ==
    /\ i \in 1 .. Len(inodes) /\ Whole(inodes[i])
    /\ \A t \in Threads : Staged(t) => writer[t].fd # i

Targets == \A f \in Files : f \in DOMAIN dir => Published(dir[f])

Reading ==
    \A r \in Readers : reader[r] # Closed =>
        /\ Published(reader[r].inode)
        /\ Len(reader[r].got) <= Chunks
        /\ \A i \in 1 .. Len(reader[r].got) : reader[r].got[i] = inodes[reader[r].inode][i]

IInv == TypeOK /\ Staging /\ Progress /\ Targets /\ Reading
-----------------------------------------------------------------------------
\* A thread inside a call has a job; its temporary has a temporary's name.
LEMMA JobTyped ==
    ASSUME TypeOK, NEW t \in Threads, writer[t].pc # "idle"
    PROVE  /\ writer[t] \in Jobs /\ TempOf(t) \in TempNames /\ TempOf(t) \notin Files
<1>1. writer[t] \in Jobs
    BY DEF TypeOK, Idle
<1>2. PidOf[ProcessOf[t]] \in Pids
    BY AtomicWriteAssumption
<1>3. TempOf(t) \in TempNames
    BY <1>1, <1>2 DEF TempOf, TempNames, Jobs
<1> QED BY <1>1, <1>3, AtomicWriteAssumption

\* The invariant holds initially: nothing is staged, published or read.
LEMMA InitIInv == Init => IInv
<1> SUFFICES ASSUME Init PROVE IInv
    OBVIOUS
<1> USE DEF Init
<1>1. \A t \in Threads : writer[t] = Idle /\ writer[t].pc = "idle"
    BY DEF Idle
<1>2. TypeOK
  <2>1. dir \in [DOMAIN dir -> 1 .. Len(inodes)] /\ DOMAIN dir \subseteq Files \union TempNames
      BY SMT
  <2>2. inodes \in Seq(Seq(Contents))
      BY SMT
  <2>3. reader \in [Readers -> [inode : 0 .. Len(inodes), got : Seq(Contents)]]
      BY SMT DEF Closed
  <2> QED BY <2>1, <2>2, <2>3, <1>1 DEF TypeOK
<1>3. Staging
    BY <1>1 DEF Staging, Staged
<1>4. Progress
    BY <1>1 DEF Progress
<1>5. Targets
    BY DEF Targets
<1>6. Reading
    BY DEF Reading
<1> QED BY <1>2, <1>3, <1>4, <1>5, <1>6 DEF IInv
-----------------------------------------------------------------------------
\* A step that only moves threads along, none of them into the staged part.
Onward(t) ==
    /\ Staged(t)' =>
           /\ Staged(t) /\ writer'[t].fd = writer[t].fd
           /\ writer'[t].file = writer[t].file /\ writer'[t].n = writer[t].n
           /\ writer'[t].pc = "write" =>
                  /\ writer[t].pc = "write"
                  /\ writer'[t].left = writer[t].left /\ writer'[t].content = writer[t].content
    /\ writer'[t].pc \in {"name", "open"} =>
           \/ writer'[t].left = Chunks
           \/ writer[t].pc \in {"name", "open"} /\ writer'[t].left = writer[t].left

\* Such a step keeps the invariant.
LEMMA OnwardKeeps ==
    ASSUME IInv, UNCHANGED <<dir, inodes, orphans, reader>>, \A t \in Threads : Onward(t)
    PROVE  Staging' /\ Progress' /\ Targets' /\ Reading'
<1>1. \A t \in Threads : Staged(t)' => Staged(t) /\ TempOf(t)' = TempOf(t) /\ writer'[t].fd = writer[t].fd
    BY DEF Onward, TempOf
<1>2. Staging'
  <2>1. \A t \in Threads : Staged(t)' => Owns(t)' /\ (TempOf(t) \notin orphans)'
      BY <1>1 DEF IInv, Staging, Owns
  <2>2. \A t, u \in Threads : t # u /\ Staged(t)' /\ Staged(u)' =>
             TempOf(t)' # TempOf(u)' /\ writer'[t].fd # writer'[u].fd
      BY <1>1 DEF IInv, Staging
  <2> QED BY <2>1, <2>2 DEF IInv, Staging
<1>3. Progress'
    BY DEF IInv, Progress, Onward, Staged
<1>4. \A i : Published(i) => Published(i)'
    BY <1>1 DEF Published, Whole
<1>5. Targets'
    BY <1>4 DEF IInv, Targets
<1>6. Reading'
    BY <1>4 DEF IInv, Reading
<1> QED BY <1>2, <1>3, <1>5, <1>6

\* A call that begins holds nothing yet.
LEMMA CallKeeps == ASSUME IInv, NEW t \in Threads, Call(t) PROVE IInv'
<1> USE DEF IInv
<1>1. PICK f \in Files, c \in Contents :
          writer' = [writer EXCEPT ![t] = [pc |-> "name", file |-> f, content |-> c,
                                           n |-> 0, fd |-> 0, left |-> Chunks]]
    BY DEF Call
<1>2. [pc |-> "name", file |-> f, content |-> c, n |-> 0, fd |-> 0, left |-> Chunks] \in Jobs
    BY AtomicWriteAssumption DEF Jobs
<1>3. TypeOK'
    BY <1>1, <1>2 DEF Call, TypeOK
<1>4. \A u \in Threads : Onward(u)
    BY <1>1 DEF Onward, Staged, TypeOK
<1> QED BY <1>3, <1>4, OnwardKeeps DEF Call

\* A name picked is a name only: nothing is created.
LEMMA PickNameKeeps == ASSUME IInv, NEW t \in Threads, PickName(t) PROVE IInv'
<1> USE DEF IInv
<1>1. writer[t] \in Jobs
    BY JobTyped DEF PickName
<1>2. ProcessOf[t] \in Processes /\ counter[ProcessOf[t]] \in Nat
    BY AtomicWriteAssumption DEF TypeOK
<1>3. writer' = [writer EXCEPT ![t] = [writer[t] EXCEPT !.n = counter[ProcessOf[t]], !.pc = "open"]]
    BY DEF PickName
<1>4. [writer[t] EXCEPT !.n = counter[ProcessOf[t]], !.pc = "open"] \in Jobs
    BY <1>1, <1>2 DEF Jobs
<1>5. TypeOK'
  <2>1. writer' \in [Threads -> Jobs \union {Idle}]
      BY <1>3, <1>4 DEF TypeOK
  <2>2. counter' \in [Processes -> Nat]
      BY <1>2 DEF PickName, TypeOK
  <2> QED BY <2>1, <2>2 DEF PickName, TypeOK
<1>6. writer[t].pc = "name" /\ writer'[t].pc = "open" /\ writer'[t].left = writer[t].left
    BY <1>1, <1>3 DEF PickName, TypeOK, Jobs
<1>7. \A u \in Threads \ {t} : writer'[u] = writer[u]
    BY <1>3 DEF TypeOK
<1>8. \A u \in Threads : Onward(u)
    BY <1>6, <1>7 DEF Onward, Staged
<1> QED BY <1>5, <1>8, OnwardKeeps DEF PickName

\* Moving thread t to another pc keeps the types.
LEMMA GotoTyped ==
    ASSUME TypeOK, NEW t \in Threads, writer[t].pc # "idle",
           NEW pc \in {"name", "write", "remove"}, Goto(t, pc)
    PROVE  writer' \in [Threads -> Jobs \union {Idle}]
<1>1. writer' = [writer EXCEPT ![t] = [writer[t] EXCEPT !.pc = pc]]
    BY DEF Goto
<1>2. [writer[t] EXCEPT !.pc = pc] \in Jobs
    BY JobTyped DEF Jobs
<1> QED BY <1>1, <1>2 DEF TypeOK

\* create_new makes an inode nobody holds, under a name nobody has.
LEMMA OpenKeeps == ASSUME IInv, NEW t \in Threads, Open(t) PROVE IInv'
<1> USE DEF IInv
<1>0. writer[t] \in Jobs /\ TempOf(t) \in TempNames /\ TempOf(t) \notin Files /\ writer[t].pc = "open"
    BY JobTyped DEF Open
<1>1. CASE Goto(t, "name") /\ UNCHANGED <<dir, inodes>>
  <2>1. TypeOK'
      BY <1>0, <1>1, GotoTyped DEF Open, TypeOK
  <2>2. \A u \in Threads : Onward(u)
      BY <1>0, <1>1 DEF Goto, Onward, Staged, TypeOK, Jobs
  <2> QED BY <1>1, <2>1, <2>2, OnwardKeeps DEF Open
<1>2. CASE Return(t) /\ UNCHANGED <<dir, inodes>>
  <2>1. TypeOK'
      BY <1>2 DEF Open, Return, TypeOK
  <2>2. \A u \in Threads : Onward(u)
      BY <1>2 DEF Return, Onward, Staged, TypeOK, Idle
  <2> QED BY <1>2, <2>1, <2>2, OnwardKeeps DEF Open
<1>3. CASE /\ TempOf(t) \notin DOMAIN dir
           /\ inodes' = Append(inodes, <<>>)
           /\ dir' = Link(TempOf(t), Len(inodes) + 1)
           /\ writer' = [writer EXCEPT ![t].fd = Len(inodes) + 1, ![t].pc = "write"]
  <2> DEFINE new == Len(inodes) + 1
  <2>1. Len(inodes) \in Nat /\ new \in Nat /\ Len(inodes') = new /\ inodes'[new] = <<>>
        /\ \A i \in 1 .. Len(inodes) : inodes'[i] = inodes[i]
      BY <1>3 DEF TypeOK
  <2>2. writer' = [writer EXCEPT ![t] = [writer[t] EXCEPT !.fd = new, !.pc = "write"]]
      BY <1>3
  <2>3. [writer[t] EXCEPT !.fd = new, !.pc = "write"] \in Jobs
    <3> HIDE DEF new
    <3> QED BY <1>0, <2>1 DEF Jobs
  <2>4. DOMAIN dir' = DOMAIN dir \union {TempOf(t)} /\ dir'[TempOf(t)] = new
        /\ \A m \in DOMAIN dir : dir'[m] = dir[m]
      BY <1>3 DEF Link
  <2>5. \A u \in Threads \ {t} : writer'[u] = writer[u] /\ TempOf(u)' = TempOf(u) /\ (Staged(u)' <=> Staged(u))
      BY <2>2 DEF TempOf, Staged, TypeOK
  <2>6. writer'[t].fd = new /\ writer'[t].pc = "write" /\ TempOf(t)' = TempOf(t)
        /\ writer'[t].left = writer[t].left /\ writer'[t].content = writer[t].content
      BY <1>0, <2>2 DEF TempOf, TypeOK, Jobs
  <2>7. writer[t].left = Chunks /\ Chunks \in Nat \ {0}
      BY <1>0, AtomicWriteAssumption DEF Progress
  <2>8. TypeOK'
    <3>1. inodes' \in Seq(Seq(Contents)) /\ Len(inodes') = Len(inodes) + 1
        BY <1>3 DEF TypeOK
    <3>2. DOMAIN dir' \subseteq Files \union TempNames
        BY <2>4, <1>0 DEF TypeOK
    <3>3. \A m \in DOMAIN dir' : dir'[m] \in 1 .. Len(inodes')
        BY <2>1, <2>4 DEF TypeOK
    <3>4. dir' \in [DOMAIN dir' -> 1 .. Len(inodes')]
        BY <1>3, <3>3 DEF Link
    <3>5. writer' \in [Threads -> Jobs \union {Idle}]
        BY <2>2, <2>3 DEF TypeOK
    <3>6. reader' \in [Readers -> [inode : 0 .. Len(inodes'), got : Seq(Contents)]]
      <4>1. 0 .. Len(inodes) \subseteq 0 .. Len(inodes')
          BY <2>1
      <4>2. reader \in [Readers -> [inode : 0 .. Len(inodes), got : Seq(Contents)]] /\ reader' = reader
          BY DEF Open, TypeOK
      <4> QED BY <4>1, <4>2
    <3> QED BY <3>1, <3>2, <3>4, <3>5, <3>6 DEF Open, TypeOK
  <2>9. \A u \in Threads \ {t} : Staged(u) => writer[u].fd < new
      BY <2>1 DEF Staging, Owns
  <2>10. Staging'
    <3>1. Owns(t)' /\ (TempOf(t) \notin orphans)'
      <4>1. TempOf(t) \notin orphans
          BY <1>3 DEF Staging
      <4> QED BY <2>1, <2>4, <2>6, <4>1 DEF Owns, Open
    <3>2. \A u \in Threads \ {t} : Staged(u)' => Owns(u)' /\ (TempOf(u) \notin orphans)'
        BY <2>1, <2>4, <2>5 DEF Staging, Owns, Open
    <3>3. \A u \in Threads \ {t} : Staged(u) => TempOf(u) # TempOf(t) /\ writer'[u].fd # new
      <4>1. \A u \in Threads \ {t} : Staged(u) => TempOf(u) \in DOMAIN dir /\ writer[u].fd \in Nat
          BY <2>1 DEF Staging, Owns
      <4>2. \A u \in Threads \ {t} : Staged(u) => TempOf(u) # TempOf(t)
          BY <1>3, <4>1
      <4>3. \A u \in Threads \ {t} : Staged(u) => writer'[u].fd # new
        <5> HIDE DEF new
        <5> QED BY <2>1, <2>5, <2>9, <4>1
      <4> QED BY <4>2, <4>3
    <3>4. \A u, w \in Threads : u # w /\ Staged(u)' /\ Staged(w)' =>
              TempOf(u)' # TempOf(w)' /\ writer'[u].fd # writer'[w].fd
        BY <2>5, <2>6, <3>3 DEF Staging
    <3>5. orphans' \subseteq DOMAIN dir'
        BY <2>4 DEF Staging, Open
    <3> QED BY <3>1, <3>2, <3>4, <3>5 DEF Staging
  <2>11. Progress'
    <3>1. inodes'[new] = [i \in 1 .. Chunks - writer'[t].left |-> writer'[t].content]
      <4>1. Chunks - writer'[t].left = 0
          BY <2>6, <2>7
      <4>2. [i \in 1 .. 0 |-> writer'[t].content] = <<>>
          OBVIOUS
      <4> QED BY <2>1, <4>1, <4>2
    <3>2. \A u \in Threads \ {t} : writer[u].pc = "write" => inodes'[writer[u].fd] = inodes[writer[u].fd]
        BY <2>1, <2>9 DEF Staging, Owns, Staged
    <3>3. ASSUME NEW u \in Threads \ {t}
          PROVE  /\ writer'[u].pc \in {"name", "open"} => writer'[u].left = Chunks
                 /\ writer'[u].pc = "write" =>
                        inodes'[writer'[u].fd] = [i \in 1 .. Chunks - writer'[u].left |-> writer'[u].content]
        BY <2>5, <3>2 DEF Progress
    <3> HIDE DEF new
    <3> QED BY <2>6, <3>1, <3>3 DEF Progress
  <2>12. \A i : Published(i) => Published(i)'
    <3> SUFFICES ASSUME NEW i, Published(i) PROVE Published(i)'
        OBVIOUS
    <3>1. i \in 1 .. Len(inodes) /\ i # new /\ inodes'[i] = inodes[i] /\ i \in 1 .. Len(inodes')
        BY <2>1 DEF Published
    <3>2. \A u \in Threads : Staged(u)' => writer'[u].fd # i
      <4> HIDE DEF new
      <4> QED BY <2>5, <2>6, <3>1 DEF Published
    <3> QED BY <3>1, <3>2 DEF Published, Whole
  <2>13. Targets'
      BY <1>0, <2>4, <2>12 DEF Targets
  <2>14. Reading'
      BY <2>1, <2>12 DEF Reading, Published, Open
  <2> QED BY <2>8, <2>10, <2>11, <2>13, <2>14
<1> QED BY <1>1, <1>2, <1>3 DEF Open

\* A write goes to the inode of its thread, which no reader or target has.
LEMMA WriteKeeps == ASSUME IInv, NEW t \in Threads, Write(t) PROVE IInv'
<1> USE DEF IInv
<1>0. writer[t] \in Jobs /\ writer[t].pc = "write" /\ writer[t].left \in 1 .. Chunks /\ Chunks \in Nat
    BY JobTyped, AtomicWriteAssumption DEF Write, Jobs
<1>1. CASE Goto(t, "remove") /\ UNCHANGED inodes
  <2>1. TypeOK'
      BY <1>0, <1>1, GotoTyped DEF Write, TypeOK
  <2>2. writer'[t].pc = "remove" /\ writer'[t].fd = writer[t].fd
        /\ writer'[t].file = writer[t].file /\ writer'[t].n = writer[t].n
      BY <1>0, <1>1 DEF Goto, TypeOK, Jobs
  <2>3. \A u \in Threads \ {t} : writer'[u] = writer[u]
      BY <1>1 DEF Goto, TypeOK
  <2>4. \A u \in Threads : Onward(u)
      BY <1>0, <2>2, <2>3 DEF Onward, Staged
  <2> QED BY <1>1, <2>1, <2>4, OnwardKeeps DEF Write
<1>2. CASE /\ writer' = [writer EXCEPT ![t].left = @ - 1]
           /\ inodes' = [inodes EXCEPT ![writer[t].fd] = Append(@, writer[t].content)]
  <2> DEFINE fd == writer[t].fd
             left == writer[t].left
             content == writer[t].content
             old == [i \in 1 .. Chunks - left |-> content]
  <2>1. fd \in 1 .. Len(inodes) /\ inodes[fd] = old /\ content \in Contents
      BY <1>0 DEF Staging, Owns, Staged, Progress, Jobs
  <2>2. Len(inodes) \in Nat /\ Len(inodes') = Len(inodes) /\ inodes'[fd] = Append(old, content)
        /\ \A i \in 1 .. Len(inodes) : i # fd => inodes'[i] = inodes[i]
    <3>1. inodes' = [inodes EXCEPT ![fd] = Append(old, content)]
        BY <1>2, <2>1
    <3>2. inodes \in Seq(Seq(Contents)) /\ DOMAIN inodes = 1 .. Len(inodes) /\ Len(inodes) \in Nat
        BY DEF TypeOK
    <3> HIDE DEF fd, old, content
    <3>3. inodes'[fd] = Append(old, content) /\ \A i \in 1 .. Len(inodes) : i # fd => inodes'[i] = inodes[i]
        BY <2>1, <3>1, <3>2
    <3>4. Len(inodes') = Len(inodes)
        BY <3>1, <3>2
    <3> QED BY <3>2, <3>3, <3>4
  <2>3. Append(old, content) = [i \in 1 .. Chunks - (left - 1) |-> content]
    <3>1. Chunks - left \in Nat /\ Chunks - (left - 1) = (Chunks - left) + 1
        BY <1>0
    <3> QED BY <3>1
  <2>4. writer' = [writer EXCEPT ![t] = [writer[t] EXCEPT !.left = left - 1]]
      BY <1>2
  <2>5. [writer[t] EXCEPT !.left = left - 1] \in Jobs
    <3>1. left - 1 \in 0 .. Chunks
        BY <1>0
    <3> QED BY <1>0, <3>1 DEF Jobs
  <2>6. TypeOK'
    <3>1. inodes' \in Seq(Seq(Contents))
      <4>1. Append(old, content) \in Seq(Contents)
          BY <2>1 DEF TypeOK
      <4>2. inodes' = [inodes EXCEPT ![fd] = Append(old, content)]
          BY <1>2, <2>1
      <4> HIDE DEF fd, old, content
      <4> QED BY <2>1, <4>1, <4>2 DEF TypeOK
    <3>2. writer' \in [Threads -> Jobs \union {Idle}]
        BY <2>4, <2>5 DEF TypeOK
    <3> QED BY <2>2, <3>1, <3>2 DEF Write, TypeOK
  <2>7. \A u \in Threads \ {t} : writer'[u] = writer[u] /\ TempOf(u)' = TempOf(u) /\ (Staged(u)' <=> Staged(u))
      BY <2>4 DEF TempOf, Staged, TypeOK
  <2>8. writer'[t].fd = fd /\ writer'[t].pc = "write" /\ TempOf(t)' = TempOf(t)
        /\ writer'[t].left = left - 1 /\ writer'[t].content = content
      BY <1>0, <2>4 DEF TempOf, TypeOK, Jobs
  <2>9. \A u \in Threads : Staged(u)' => Staged(u) /\ TempOf(u)' = TempOf(u) /\ writer'[u].fd = writer[u].fd
      BY <1>0, <2>7, <2>8 DEF Staged
  <2>10. Staging'
    <3>1. \A u \in Threads : Staged(u)' => Owns(u)' /\ (TempOf(u) \notin orphans)'
        BY <2>2, <2>9 DEF Staging, Owns, Write
    <3>2. \A u, w \in Threads : u # w /\ Staged(u)' /\ Staged(w)' =>
              TempOf(u)' # TempOf(w)' /\ writer'[u].fd # writer'[w].fd
        BY <2>9 DEF Staging
    <3> QED BY <3>1, <3>2 DEF Staging, Write
  <2>11. Progress'
    <3>1. ASSUME NEW u \in Threads \ {t}
          PROVE  /\ writer'[u].pc \in {"name", "open"} => writer'[u].left = Chunks
                 /\ writer'[u].pc = "write" =>
                        inodes'[writer'[u].fd] = [i \in 1 .. Chunks - writer'[u].left |-> writer'[u].content]
      <4>1. writer[u].pc = "write" => writer[u].fd \in 1 .. Len(inodes) /\ writer[u].fd # fd
          BY <1>0 DEF Staging, Owns, Staged
      <4> QED BY <2>2, <2>7, <4>1 DEF Progress
    <3>2. inodes'[writer'[t].fd] = [i \in 1 .. Chunks - writer'[t].left |-> writer'[t].content]
      <4>1. inodes'[writer'[t].fd] = [i \in 1 .. Chunks - (left - 1) |-> content]
          BY <2>2, <2>3, <2>8
      <4> QED BY <2>8, <4>1
    <3>3. writer'[t].pc = "write"
        BY <2>8
    <3> QED BY <3>1, <3>2, <3>3 DEF Progress
  <2>12. \A i : Published(i) => Published(i)'
    <3> SUFFICES ASSUME NEW i, Published(i) PROVE Published(i)'
        OBVIOUS
    <3>1. i \in 1 .. Len(inodes) /\ i # fd /\ inodes'[i] = inodes[i]
        BY <1>0, <2>2 DEF Published, Staged
    <3> QED BY <2>2, <2>9, <3>1 DEF Published, Whole
  <2>13. Targets'
      BY <2>12 DEF Targets, Write
  <2>14. Reading'
    <3>1. \A r \in Readers : reader[r] # Closed => inodes'[reader[r].inode] = inodes[reader[r].inode]
        BY <1>0, <2>2 DEF Reading, Published, Staged
    <3> QED BY <2>12, <3>1 DEF Reading, Write
  <2> QED BY <2>6, <2>10, <2>11, <2>13, <2>14
<1> QED BY <1>1, <1>2 DEF Write

\* A staged inode whose writes are all done is whole.
LEMMA StagedWhole ==
    ASSUME IInv, NEW t \in Threads, writer[t].pc = "write", writer[t].left = 0
    PROVE  /\ Whole(inodes[writer[t].fd]) /\ writer[t].content \in Contents
           /\ inodes[writer[t].fd] = [i \in 1 .. Chunks |-> writer[t].content]
<1>1. writer[t].content \in Contents
    BY JobTyped DEF IInv, Jobs
<1>2. Chunks - writer[t].left = Chunks
    BY AtomicWriteAssumption
<1>3. inodes[writer[t].fd] = [i \in 1 .. Chunks - writer[t].left |-> writer[t].content]
    BY DEF IInv, Progress
<1> QED BY <1>1, <1>2, <1>3 DEF Whole

\* The rename publishes an inode that is whole and that its owner lets go.
LEMMA RenameKeeps == ASSUME IInv, NEW t \in Threads, Rename(t) PROVE IInv'
<1> USE DEF IInv
<1>0. /\ writer[t] \in Jobs /\ writer[t].pc = "write"
      /\ TempOf(t) \in TempNames /\ TempOf(t) \notin Files /\ writer[t].file \in Files
    BY JobTyped DEF Rename, Jobs
<1>1. CASE Goto(t, "remove") /\ UNCHANGED dir
  <2>1. TypeOK'
      BY <1>0, <1>1, GotoTyped DEF Rename, TypeOK
  <2>2. writer'[t].pc = "remove" /\ writer'[t].fd = writer[t].fd
        /\ writer'[t].file = writer[t].file /\ writer'[t].n = writer[t].n
      BY <1>0, <1>1 DEF Goto, TypeOK, Jobs
  <2>3. \A u \in Threads \ {t} : writer'[u] = writer[u]
      BY <1>1 DEF Goto, TypeOK
  <2>4. \A u \in Threads : Onward(u)
      BY <1>0, <2>2, <2>3 DEF Onward, Staged
  <2> QED BY <1>1, <2>1, <2>4, OnwardKeeps DEF Rename
<1>2. CASE /\ TempOf(t) \in DOMAIN dir
           /\ dir' = [m \in (DOMAIN dir \ {TempOf(t)}) \union {writer[t].file} |->
                         IF m = writer[t].file THEN dir[TempOf(t)] ELSE dir[m]]
           /\ Return(t)
  <2> DEFINE f == writer[t].file
             fd == writer[t].fd
  <2>1. dir[TempOf(t)] = fd /\ fd \in 1 .. Len(inodes) /\ Whole(inodes[fd])
      BY <1>0, StagedWhole DEF Staging, Owns, Staged, Rename
  <2>2. /\ DOMAIN dir' = (DOMAIN dir \ {TempOf(t)}) \union {f} /\ dir'[f] = fd
        /\ \A m \in DOMAIN dir' : m # f => dir'[m] = dir[m]
      BY <1>2, <2>1
  <2>3. writer'[t] = Idle /\ writer'[t].pc = "idle" /\ \A u \in Threads \ {t} : writer'[u] = writer[u]
      BY <1>2 DEF Return, TypeOK, Idle
  <2>4. \A u \in Threads : Staged(u)' =>
            /\ Staged(u) /\ u # t /\ TempOf(u)' = TempOf(u) /\ writer'[u] = writer[u]
            /\ TempOf(u) # TempOf(t) /\ writer[u].fd # fd /\ TempOf(u) \notin Files
    <3>1. \A u \in Threads : Staged(u)' => Staged(u) /\ u # t /\ TempOf(u)' = TempOf(u) /\ writer'[u] = writer[u]
        BY <2>3 DEF Staged, TempOf
    <3>2. \A u \in Threads : Staged(u) => TempOf(u) \notin Files
        BY JobTyped DEF Staged
    <3>3. Staged(t)
        BY <1>0 DEF Staged
    <3> QED BY <3>1, <3>2, <3>3 DEF Staging
  <2>5. TypeOK'
    <3>1. DOMAIN dir' \subseteq Files \union TempNames
        BY <1>0, <2>2 DEF TypeOK
    <3>2. \A m \in DOMAIN dir' : dir'[m] \in 1 .. Len(inodes)
        BY <2>1, <2>2 DEF TypeOK
    <3>3. dir' \in [DOMAIN dir' -> 1 .. Len(inodes)]
        BY <1>2, <3>2
    <3>4. writer' \in [Threads -> Jobs \union {Idle}]
        BY <1>2 DEF Return, TypeOK
    <3> QED BY <3>1, <3>3, <3>4 DEF Rename, TypeOK
  <2>6. Staging'
    <3>1. \A u \in Threads : Staged(u)' => Owns(u)' /\ (TempOf(u) \notin orphans)'
        BY <1>0, <2>2, <2>4 DEF Staging, Owns, Rename
    <3>2. \A u, w \in Threads : u # w /\ Staged(u)' /\ Staged(w)' =>
              TempOf(u)' # TempOf(w)' /\ writer'[u].fd # writer'[w].fd
        BY <2>4 DEF Staging
    <3>3. TempOf(t) \notin orphans
        BY <1>0 DEF Staging, Staged
    <3> QED BY <2>2, <3>1, <3>2, <3>3 DEF Staging, Rename
  <2>7. Progress'
      BY <2>3 DEF Progress, Rename
  <2>8. \A i : Published(i) => Published(i)'
      BY <2>4 DEF Published, Whole, Rename
  <2>9. fd \in 1 .. Len(inodes') /\ Whole(inodes'[fd]) /\ \A u \in Threads : Staged(u)' => writer'[u].fd # fd
    <3>1. \A u \in Threads : Staged(u)' => writer'[u].fd # fd
        BY <2>4
    <3>2. inodes' = inodes
        BY DEF Rename
    <3> QED BY <2>1, <3>1, <3>2
  <2>10. Targets'
    <3>1. \A g \in Files : g \in DOMAIN dir' /\ g # f => Published(dir[g])'
        BY <2>2, <2>8 DEF Targets
    <3>2. \A g \in Files : g = f => Published(dir[g])'
        BY <2>2, <2>9 DEF Published
    <3> QED BY <3>1, <3>2 DEF Targets
  <2>11. Reading'
      BY <2>8 DEF Reading, Rename
  <2> QED BY <2>5, <2>6, <2>7, <2>10, <2>11
<1> QED BY <1>1, <1>2 DEF Rename

\* A removal, or a failed one, gives its thread's temporary up.
LEMMA RemoveKeeps == ASSUME IInv, NEW t \in Threads, Remove(t) PROVE IInv'
<1> USE DEF IInv
<1>0. /\ writer[t] \in Jobs /\ writer[t].pc = "remove" /\ Staged(t)
      /\ TempOf(t) \in TempNames /\ TempOf(t) \notin Files
    BY JobTyped DEF Remove, Staged
<1>1. writer'[t] = Idle /\ writer'[t].pc = "idle" /\ \A u \in Threads \ {t} : writer'[u] = writer[u]
    BY DEF Remove, Return, TypeOK, Idle
<1>2. \A u \in Threads : Staged(u)' =>
          /\ Staged(u) /\ u # t /\ TempOf(u)' = TempOf(u) /\ writer'[u] = writer[u] /\ TempOf(u) # TempOf(t)
  <2>1. \A u \in Threads : Staged(u)' => Staged(u) /\ u # t /\ TempOf(u)' = TempOf(u) /\ writer'[u] = writer[u]
      BY <1>1 DEF Staged, TempOf
  <2> QED BY <1>0, <2>1 DEF Staging
<1>3. /\ DOMAIN dir' \subseteq DOMAIN dir /\ DOMAIN dir \ {TempOf(t)} \subseteq DOMAIN dir'
      /\ \A m \in DOMAIN dir' : dir'[m] = dir[m]
      /\ dir' \in [DOMAIN dir' -> 1 .. Len(inodes)]
  <2>1. CASE dir' = Unlink(TempOf(t))
      BY <2>1 DEF Unlink, Restrict, TypeOK
  <2>2. CASE UNCHANGED dir
      BY <2>2 DEF TypeOK
  <2> QED BY <2>1, <2>2 DEF Remove
<1>4. orphans' \subseteq orphans \union {TempOf(t)} /\ orphans' \subseteq DOMAIN dir'
  <2>1. CASE dir' = Unlink(TempOf(t)) /\ UNCHANGED orphans
    <3>1. TempOf(t) \notin orphans
        BY <1>0 DEF Staging
    <3> QED BY <1>3, <2>1, <3>1 DEF Staging
  <2>2. CASE orphans' = orphans \union {TempOf(t)} /\ UNCHANGED dir
      BY <1>0, <2>2 DEF Staging, Owns
  <2> QED BY <2>1, <2>2 DEF Remove
<1>5. TypeOK'
  <2>1. writer' \in [Threads -> Jobs \union {Idle}]
      BY DEF Remove, Return, TypeOK
  <2>2. DOMAIN dir' \subseteq Files \union TempNames /\ orphans' \subseteq TempNames
      BY <1>0, <1>3, <1>4 DEF TypeOK
  <2> QED BY <1>3, <2>1, <2>2 DEF Remove, TypeOK
<1>6. Staging'
  <2>1. \A u \in Threads : Staged(u)' => Owns(u)' /\ (TempOf(u) \notin orphans)'
      BY <1>2, <1>3, <1>4 DEF Staging, Owns, Remove
  <2>2. \A u, w \in Threads : u # w /\ Staged(u)' /\ Staged(w)' =>
            TempOf(u)' # TempOf(w)' /\ writer'[u].fd # writer'[w].fd
      BY <1>2 DEF Staging
  <2> QED BY <1>4, <2>1, <2>2 DEF Staging
<1>7. Progress'
    BY <1>1 DEF Progress, Remove
<1>8. \A i : Published(i) => Published(i)'
    BY <1>2 DEF Published, Whole, Remove
<1>9. Targets'
    BY <1>3, <1>8 DEF Targets
<1>10. Reading'
    BY <1>8 DEF Reading, Remove
<1> QED BY <1>5, <1>6, <1>7, <1>9, <1>10

\* A death orphans the temporaries of its threads, none of a living one.
LEMMA CrashKeeps == ASSUME IInv, NEW p \in Processes, Crash(p) PROVE IInv'
<1> USE DEF IInv
<1> DEFINE Dead == {u \in Threads : ProcessOf[u] = p /\ Staged(u)}
<1>1. \A t \in Threads : writer'[t] = IF ProcessOf[t] = p THEN Idle ELSE writer[t]
    BY DEF Crash
<1>2. \A t \in Threads : Staged(t)' =>
          Staged(t) /\ t \notin Dead /\ TempOf(t)' = TempOf(t) /\ writer'[t] = writer[t]
    BY <1>1 DEF Staged, TempOf, Idle
<1>3. orphans' = orphans \union {TempOf(t) : t \in Dead}
    BY DEF Crash
<1>4. \A t \in Dead : TempOf(t) \in DOMAIN dir /\ TempOf(t) \in TempNames
    BY JobTyped DEF Staging, Owns, Staged
<1>5. TypeOK'
  <2>1. writer' \in [Threads -> Jobs \union {Idle}]
      BY DEF Crash, TypeOK
  <2>2. counter' \in [Processes -> Nat]
      BY DEF Crash, TypeOK
  <2>3. orphans' \subseteq TempNames
      BY <1>3, <1>4 DEF TypeOK
  <2> QED BY <2>1, <2>2, <2>3 DEF Crash, TypeOK
<1>6. Staging'
  <2>1. \A t \in Threads : Staged(t)' => (TempOf(t) \notin orphans)'
      BY <1>2, <1>3 DEF Staging
  <2>2. \A t \in Threads : Staged(t)' => Owns(t)'
      BY <1>2 DEF Staging, Owns, Crash
  <2>3. \A t, u \in Threads : t # u /\ Staged(t)' /\ Staged(u)' =>
            TempOf(t)' # TempOf(u)' /\ writer'[t].fd # writer'[u].fd
      BY <1>2 DEF Staging
  <2>4. orphans' \subseteq DOMAIN dir'
      BY <1>3, <1>4 DEF Staging, Crash
  <2> QED BY <2>1, <2>2, <2>3, <2>4 DEF Staging
<1>7. Progress'
    BY <1>1 DEF Progress, Crash, Idle
<1>8. \A i : Published(i) => Published(i)'
    BY <1>2 DEF Published, Whole, Crash
<1>9. Targets'
    BY <1>8 DEF Targets, Crash
<1>10. Reading'
    BY <1>8 DEF Reading, Crash
<1> QED BY <1>5, <1>6, <1>7, <1>9, <1>10
-----------------------------------------------------------------------------
\* A step of the reader r alone, to a state its part of the invariant allows.
LEMMA ReaderKeeps ==
    ASSUME IInv, NEW r \in Readers, UNCHANGED <<dir, inodes, counter, writer, orphans, calls, crashes>>,
           NEW x \in [inode : 0 .. Len(inodes), got : Seq(Contents)],
           reader' = [reader EXCEPT ![r] = x],
           x # Closed => /\ Published(x.inode) /\ Len(x.got) <= Chunks
                         /\ \A i \in 1 .. Len(x.got) : x.got[i] = inodes[x.inode][i]
    PROVE  IInv'
<1> USE DEF IInv
<1>1. reader'[r] = x /\ \A q \in Readers \ {r} : reader'[q] = reader[q]
    BY DEF TypeOK
<1>2. TypeOK'
    BY DEF TypeOK
<1>3. \A t \in Threads : TempOf(t)' = TempOf(t) /\ Owns(t)' = Owns(t) /\ Staged(t)' = Staged(t)
    BY DEF TempOf, Owns, Staged
<1>4. Staging' /\ Progress'
    BY <1>3 DEF Staging, Progress
<1>5. \A i : Published(i) => Published(i)'
    BY <1>3 DEF Published, Whole
<1>6. Targets'
    BY <1>5 DEF Targets
<1>7. Reading'
  <2>1. \A q \in Readers \ {r} : reader'[q] # Closed =>
            /\ Published(reader[q].inode)' /\ Len(reader'[q].got) <= Chunks
            /\ \A i \in 1 .. Len(reader'[q].got) : reader'[q].got[i] = inodes'[reader'[q].inode][i]
      BY <1>1, <1>5 DEF Reading
  <2>2. reader'[r] # Closed =>
            /\ Published(reader[r].inode)' /\ Len(reader'[r].got) <= Chunks
            /\ \A i \in 1 .. Len(reader'[r].got) : reader'[r].got[i] = inodes'[reader'[r].inode][i]
      BY <1>1, <1>5
  <2> QED BY <2>1, <2>2 DEF Reading
<1> QED BY <1>2, <1>4, <1>6, <1>7

\* A published content is one content, never empty.
LEMMA PublishedHolds ==
    ASSUME IInv, NEW i, Published(i)
    PROVE  /\ i \in 1 .. Len(inodes) /\ Len(inodes[i]) = Chunks
           /\ inodes[i] \in Seq(Contents) /\ inodes[i] # <<>>
           /\ ValueOf(i) = inodes[i][1] /\ ValueOf(i) \in Contents /\ ValueOf(i) # Absent
<1>1. PICK c \in Contents : inodes[i] = [k \in 1 .. Chunks |-> c]
    BY DEF Published, Whole
<1>2. Chunks \in Nat /\ Chunks >= 1 /\ Absent \notin Contents
    BY AtomicWriteAssumption
<1>3. inodes[i] \in Seq(Contents) /\ i \in 1 .. Len(inodes)
    BY DEF IInv, TypeOK, Published
<1>4. DOMAIN inodes[i] = 1 .. Chunks /\ inodes[i][1] = c
    BY <1>1, <1>2
<1>5. Len(inodes[i]) = Chunks
    BY <1>2, <1>3, <1>4
<1>6. inodes[i] # <<>>
    BY <1>2, <1>5
<1> QED BY <1>2, <1>3, <1>4, <1>5, <1>6 DEF ValueOf

\* What is opened is a target, hence published.
LEMMA ReadOpenKeeps == ASSUME IInv, NEW r \in Readers, ReadOpen(r) PROVE IInv'
<1>1. PICK f \in Files \intersect DOMAIN dir :
          reader' = [reader EXCEPT ![r] = [inode |-> dir[f], got |-> <<>>]]
    BY DEF ReadOpen
<1> DEFINE x == [inode |-> dir[f], got |-> <<>>]
<1>2. Published(dir[f]) /\ dir[f] \in 1 .. Len(inodes)
    BY DEF IInv, Targets, Published
<1>3. x \in [inode : 0 .. Len(inodes), got : Seq(Contents)]
  <2>1. <<>> \in Seq(Contents)
      OBVIOUS
  <2>2. Len(inodes) \in Nat
      BY DEF IInv, TypeOK
  <2> QED BY <1>2, <2>1, <2>2
<1>4. Chunks \in Nat /\ Len(x.got) = 0 /\ x.inode = dir[f]
    BY AtomicWriteAssumption
<1>5. UNCHANGED <<dir, inodes, counter, writer, orphans, calls, crashes>>
    BY DEF ReadOpen
<1> HIDE DEF x
<1>6. reader' = [reader EXCEPT ![r] = x]
    BY <1>1 DEF x
<1>7. Published(x.inode) /\ Len(x.got) <= Chunks
      /\ \A i \in 1 .. Len(x.got) : x.got[i] = inodes[x.inode][i]
    BY <1>2, <1>4
<1> QED BY <1>3, <1>5, <1>6, <1>7, ReaderKeeps

\* The next chunk read is the one at its place in the inode.
LEMMA ReadChunkKeeps == ASSUME IInv, NEW r \in Readers, ReadChunk(r) PROVE IInv'
<1> DEFINE old == reader[r]
           x == [inode |-> old.inode, got |-> Append(old.got, inodes[old.inode][Len(old.got) + 1])]
<1>1. /\ Published(old.inode) /\ Len(old.got) <= Chunks
      /\ \A i \in 1 .. Len(old.got) : old.got[i] = inodes[old.inode][i]
    BY DEF ReadChunk, IInv, Reading
<1>2. old \in [inode : 0 .. Len(inodes), got : Seq(Contents)] /\ Chunks \in Nat
    BY AtomicWriteAssumption DEF IInv, TypeOK
<1>3. Len(old.got) < Chunks /\ inodes[old.inode] \in Seq(Contents) /\ Len(inodes[old.inode]) = Chunks
  <2>1. Len(old.got) # Len(inodes[old.inode])
      BY DEF ReadChunk, AtEnd
  <2>2. inodes[old.inode] \in Seq(Contents) /\ Len(inodes[old.inode]) = Chunks
      BY <1>1, PublishedHolds
  <2> QED BY <1>1, <1>2, <2>1, <2>2
<1>4. inodes[old.inode][Len(old.got) + 1] \in Contents
    BY <1>2, <1>3
<1>5. x.inode = old.inode /\ x.got = Append(old.got, inodes[old.inode][Len(old.got) + 1])
    BY <1>2
<1>6. x \in [inode : 0 .. Len(inodes), got : Seq(Contents)]
  <2>1. x.got \in Seq(Contents)
    <3>1. old.got \in Seq(Contents)
        BY <1>2
    <3>2. \A s \in Seq(Contents), c \in Contents : Append(s, c) \in Seq(Contents)
        OBVIOUS
    <3> HIDE DEF x, old
    <3> QED BY <1>4, <1>5, <3>1, <3>2
  <2> QED BY <1>2, <2>1
<1>7. UNCHANGED <<dir, inodes, counter, writer, orphans, calls, crashes>>
    BY DEF ReadChunk
<1>8. reader' = [reader EXCEPT ![r] = x]
  <2>1. [old EXCEPT !.got = Append(@, inodes[old.inode][Len(@) + 1])] = x
    <3>1. \A y \in [inode : 0 .. Len(inodes), got : Seq(Contents)] : \A g :
              [y EXCEPT !.got = g] = [inode |-> y.inode, got |-> g]
        OBVIOUS
    <3> QED BY <1>2, <3>1
  <2>2. reader' = [reader EXCEPT ![r] = [old EXCEPT !.got = Append(@, inodes[old.inode][Len(@) + 1])]]
      BY DEF ReadChunk, IInv, TypeOK
  <2> QED BY <2>1, <2>2
<1> HIDE DEF x
<1>9. Published(x.inode) /\ Len(x.got) <= Chunks
      /\ \A i \in 1 .. Len(x.got) : x.got[i] = inodes[x.inode][i]
  <2>1. old.got \in Seq(Contents)
      BY <1>2
  <2>2. Len(x.got) = Len(old.got) + 1
      BY <1>4, <1>5, <2>1
  <2>3. \A i \in 1 .. Len(old.got) + 1 : x.got[i] = IF i = Len(old.got) + 1
                                             THEN inodes[old.inode][i] ELSE old.got[i]
      BY <1>4, <1>5, <2>1
  <2> HIDE DEF old
  <2> QED BY <1>1, <1>3, <1>5, <2>1, <2>2, <2>3
<1> QED BY <1>6, <1>7, <1>8, <1>9, ReaderKeeps

\* A reader may always leave.
LEMMA ReadCloseKeeps == ASSUME IInv, NEW r \in Readers, ReadClose(r) PROVE IInv'
<1>1. Closed \in [inode : 0 .. Len(inodes), got : Seq(Contents)]
  <2>1. Len(inodes) \in Nat /\ <<>> \in Seq(Contents)
      BY DEF IInv, TypeOK
  <2> QED BY <2>1 DEF Closed
<1> QED BY <1>1, ReaderKeeps DEF ReadClose
-----------------------------------------------------------------------------
\* Every step keeps the invariant.
LEMMA NextKeeps == IInv /\ [Next]_vars => IInv'
<1> SUFFICES ASSUME IInv, [Next]_vars PROVE IInv'
    OBVIOUS
<1>1. CASE UNCHANGED vars
  <2>1. UNCHANGED <<dir, inodes, counter, orphans, reader, writer, calls, crashes>>
      BY <1>1 DEF vars
  <2>2. TypeOK'
      BY <2>1 DEF IInv, TypeOK
  <2>3. \A t \in Threads : Onward(t)
      BY <2>1 DEF IInv, Onward, Staged, Progress
  <2> QED BY <2>1, <2>2, <2>3, OnwardKeeps DEF IInv
<1>2. CASE \E t \in Threads : Call(t) \/ Step(t)
    BY <1>2, CallKeeps, PickNameKeeps, OpenKeeps, WriteKeeps, RenameKeeps, RemoveKeeps DEF Step
<1>3. CASE \E p \in Processes : Crash(p)
    BY <1>3, CrashKeeps
<1>4. CASE \E r \in Readers : ReadOpen(r) \/ ReadChunk(r) \/ ReadClose(r)
    BY <1>4, ReadOpenKeeps, ReadChunkKeeps, ReadCloseKeeps
<1> QED BY <1>1, <1>2, <1>3, <1>4 DEF Next

\* The invariant holds in every state the writers, readers and crashes reach.
THEOREM InductiveInvariant == Spec => []IInv
<1>1. Init => IInv
    BY InitIInv
<1>2. IInv /\ [Next]_vars => IInv'
    BY NextKeeps
<1> QED BY <1>1, <1>2, PTL DEF Spec

\* The variables have the types atomic_write gives them.
THEOREM AtomicWriteTypeOK == Spec => []TypeOK
<1>1. IInv => TypeOK
    BY DEF IInv
<1> QED BY <1>1, InductiveInvariant, PTL

\* A temporary name, made of a pid that may be shared and a counter that starts
\* again with each process, never gives two writers one file (create_new).
THEOREM AtomicWriteTempsExclusive == Spec => []TempsExclusive
<1>1. IInv => TempsExclusive
    BY DEF IInv, Staging, Owns, TempsExclusive
<1> QED BY <1>1, InductiveInvariant, PTL

\* A reader that read to the end read one content, whole.
THEOREM AtomicWriteReadersSeeWhole == Spec => []ReadersSeeWhole
<1>1. ASSUME IInv, NEW r \in Readers, reader[r] # Closed, AtEnd(r) PROVE Whole(reader[r].got)
  <2>1. /\ Published(reader[r].inode) /\ Len(reader[r].got) <= Chunks
        /\ \A i \in 1 .. Len(reader[r].got) : reader[r].got[i] = inodes[reader[r].inode][i]
      BY <1>1 DEF IInv, Reading
  <2>2. PICK c \in Contents : inodes[reader[r].inode] = [k \in 1 .. Chunks |-> c]
      BY <2>1 DEF Published, Whole
  <2>3. Len(reader[r].got) = Chunks /\ reader[r].got \in Seq(Contents)
      BY <1>1, <2>1, PublishedHolds DEF AtEnd, IInv, TypeOK
  <2>4. reader[r].got = [k \in 1 .. Chunks |-> c]
      BY <2>1, <2>2, <2>3
  <2> QED BY <2>4 DEF Whole
<1>2. IInv => ReadersSeeWhole
    BY <1>1 DEF ReadersSeeWhole
<1> QED BY <1>2, InductiveInvariant, PTL
-----------------------------------------------------------------------------
\* A step that neither creates nor removes a file, and takes no thread into or out
\* of the staged part, accounts for the same temporaries.
LEMMA SameTemps ==
    ASSUME TempsAccounted, UNCHANGED <<dir, orphans>>,
           \A u \in Threads : Staged(u)' <=> Staged(u),
           \A u \in Threads : Staged(u) => TempOf(u)' = TempOf(u)
    PROVE  TempsAccounted'
BY DEF TempsAccounted

\* One thread takes a name, stages a file under it, publishes it or gives it up;
\* the temporaries of the others are untouched.
LEMMA ThreadAccounts ==
    ASSUME IInv, TempsAccounted, NEW t \in Threads, Call(t) \/ Step(t)
    PROVE  TempsAccounted'
<1> USE DEF IInv
<1>1. CASE Call(t) \/ PickName(t)
  <2>1. ~Staged(t) /\ ~Staged(t)' /\ \A u \in Threads \ {t} : writer'[u] = writer[u]
      BY <1>1 DEF Call, PickName, Staged, TypeOK, Idle, Jobs
  <2> QED BY <1>1, <2>1, SameTemps DEF Call, PickName, Staged, TempOf
<1>2. CASE Open(t)
  <2>0. writer[t] \in Jobs /\ TempOf(t) \in TempNames /\ TempOf(t) \notin Files /\ ~Staged(t)
      BY <1>2, JobTyped DEF Open, Staged
  <2>1. CASE (Goto(t, "name") \/ Return(t)) /\ UNCHANGED <<dir, inodes>>
    <3>1. ~Staged(t)' /\ \A u \in Threads \ {t} : writer'[u] = writer[u]
        BY <2>0, <2>1 DEF Goto, Return, Staged, TypeOK, Idle, Jobs
    <3> QED BY <1>2, <2>0, <2>1, <3>1, SameTemps DEF Open, Staged, TempOf
  <2>2. CASE /\ dir' = Link(TempOf(t), Len(inodes) + 1)
             /\ writer' = [writer EXCEPT ![t].fd = Len(inodes) + 1, ![t].pc = "write"]
    <3>1. DOMAIN dir' = DOMAIN dir \union {TempOf(t)}
        BY <2>2 DEF Link
    <3>2. Staged(t)' /\ TempOf(t)' = TempOf(t) /\ \A u \in Threads \ {t} : writer'[u] = writer[u]
        BY <2>0, <2>2 DEF Staged, TempOf, TypeOK, Jobs
    <3>3. \A u \in Threads \ {t} : (Staged(u)' <=> Staged(u)) /\ TempOf(u)' = TempOf(u)
        BY <3>2 DEF Staged, TempOf
    <3>4. orphans' = orphans
        BY <1>2 DEF Open
    <3> QED BY <2>0, <3>1, <3>2, <3>3, <3>4 DEF TempsAccounted
  <2> QED BY <1>2, <2>1, <2>2 DEF Open
<1>3. CASE Write(t)
  <2>1. writer[t] \in Jobs /\ writer[t].pc = "write"
      BY <1>3, JobTyped DEF Write
  <2>2. Staged(t)' /\ TempOf(t)' = TempOf(t) /\ \A u \in Threads \ {t} : writer'[u] = writer[u]
    <3>1. CASE Goto(t, "remove")
        BY <2>1, <3>1 DEF Goto, Staged, TempOf, TypeOK, Jobs
    <3>2. CASE writer' = [writer EXCEPT ![t].left = @ - 1]
        BY <2>1, <3>2 DEF Staged, TempOf, TypeOK, Jobs
    <3> QED BY <1>3, <3>1, <3>2 DEF Write
  <2> QED BY <1>3, <2>1, <2>2, SameTemps DEF Write, Staged, TempOf
<1>4. CASE Rename(t)
  <2>0. /\ writer[t] \in Jobs /\ writer[t].file \in Files /\ Staged(t)
        /\ TempOf(t) \in TempNames /\ TempOf(t) \notin Files
      BY <1>4, JobTyped DEF Rename, Staged, Jobs
  <2>1. CASE Goto(t, "remove") /\ UNCHANGED dir
    <3>1. Staged(t)' /\ TempOf(t)' = TempOf(t) /\ \A u \in Threads \ {t} : writer'[u] = writer[u]
        BY <2>0, <2>1 DEF Goto, Staged, TempOf, TypeOK, Jobs
    <3> QED BY <1>4, <2>0, <2>1, <3>1, SameTemps DEF Rename, Staged, TempOf
  <2>2. CASE /\ dir' = [m \in (DOMAIN dir \ {TempOf(t)}) \union {writer[t].file} |->
                           IF m = writer[t].file THEN dir[TempOf(t)] ELSE dir[m]]
             /\ Return(t)
    <3>1. DOMAIN dir' \ Files = (DOMAIN dir \ Files) \ {TempOf(t)} /\ orphans' = orphans
        BY <1>4, <2>0, <2>2 DEF Rename
    <3>2. ~Staged(t)' /\ \A u \in Threads \ {t} : writer'[u] = writer[u]
        BY <2>2 DEF Return, Staged, TypeOK, Idle
    <3>3. \A u \in Threads \ {t} : (Staged(u)' <=> Staged(u)) /\ TempOf(u)' = TempOf(u)
        BY <3>2 DEF Staged, TempOf
    <3>4. TempOf(t) \notin orphans /\ \A u \in Threads \ {t} : Staged(u) => TempOf(u) # TempOf(t)
        BY <2>0 DEF Staging
    <3> QED BY <2>0, <3>1, <3>2, <3>3, <3>4 DEF TempsAccounted
  <2> QED BY <1>4, <2>1, <2>2 DEF Rename
<1>5. CASE Remove(t)
  <2>0. TempOf(t) \in TempNames /\ TempOf(t) \notin Files /\ Staged(t)
      BY <1>5, JobTyped DEF Remove, Staged
  <2>1. ~Staged(t)' /\ \A u \in Threads \ {t} : writer'[u] = writer[u]
      BY <1>5 DEF Remove, Return, Staged, TypeOK, Idle
  <2>2. \A u \in Threads \ {t} : (Staged(u)' <=> Staged(u)) /\ TempOf(u)' = TempOf(u)
      BY <2>1 DEF Staged, TempOf
  <2>3. TempOf(t) \notin orphans /\ \A u \in Threads \ {t} : Staged(u) => TempOf(u) # TempOf(t)
      BY <2>0 DEF Staging
  <2>4. CASE dir' = Unlink(TempOf(t)) /\ UNCHANGED orphans
    <3>1. DOMAIN dir' = DOMAIN dir \ {TempOf(t)}
        BY <2>4 DEF Unlink, Restrict
    <3> QED BY <2>0, <2>1, <2>2, <2>3, <2>4, <3>1 DEF TempsAccounted
  <2>5. CASE orphans' = orphans \union {TempOf(t)} /\ UNCHANGED dir
      BY <2>0, <2>1, <2>2, <2>5 DEF TempsAccounted
  <2> QED BY <1>5, <2>4, <2>5 DEF Remove
<1> QED BY <1>1, <1>2, <1>3, <1>4, <1>5 DEF Step

\* A death makes orphans of the temporaries its threads had staged.
LEMMA CrashAccounts ==
    ASSUME IInv, TempsAccounted, NEW p \in Processes, Crash(p)
    PROVE  TempsAccounted'
<1>1. \A u \in Threads : writer'[u] = IF ProcessOf[u] = p THEN Idle ELSE writer[u]
    BY DEF Crash
<1>2. \A u \in Threads : ProcessOf[u] = p => ~Staged(u)'
    BY <1>1 DEF Staged, Idle
<1>3. \A u \in Threads : ProcessOf[u] # p => (Staged(u)' <=> Staged(u)) /\ TempOf(u)' = TempOf(u)
    BY <1>1 DEF Staged, TempOf
<1>4. dir' = dir /\ orphans' = orphans \union {TempOf(u) : u \in {w \in Threads : ProcessOf[w] = p /\ Staged(w)}}
    BY DEF Crash
<1> QED BY <1>2, <1>3, <1>4 DEF TempsAccounted

\* No temporary lingers unaccounted for: what is in the directory beside the files
\* is being staged, or its process died or was refused its removal.
THEOREM AtomicWriteTempsAccounted == Spec => []TempsAccounted
<1>1. Init => TempsAccounted
    BY DEF Init, TempsAccounted, Staged, Idle
<1>2. IInv /\ TempsAccounted /\ [Next]_vars => TempsAccounted'
  <2> SUFFICES ASSUME IInv, TempsAccounted, [Next]_vars PROVE TempsAccounted'
      OBVIOUS
  <2>1. CASE UNCHANGED vars
      BY <2>1 DEF vars, TempsAccounted, Staged, TempOf
  <2>2. CASE \E t \in Threads : Call(t) \/ Step(t)
      BY <2>2, ThreadAccounts
  <2>3. CASE \E p \in Processes : Crash(p)
      BY <2>3, CrashAccounts
  <2>4. CASE \E r \in Readers : ReadOpen(r) \/ ReadChunk(r) \/ ReadClose(r)
      BY <2>4, SameTemps DEF ReadOpen, ReadChunk, ReadClose, Staged, TempOf
  <2> QED BY <2>1, <2>2, <2>3, <2>4 DEF Next
<1> QED BY <1>1, <1>2, InductiveInvariant, PTL DEF Spec
-----------------------------------------------------------------------------
Values == [f \in Files |-> IF f \in DOMAIN dir THEN ValueOf(dir[f]) ELSE Absent]
Views == [r \in Readers |-> IF reader[r] = Closed THEN Absent ELSE ValueOf(reader[r].inode)]

\* A step that moves no target, no reader and no published content shows nothing.
LEMMA NothingShows ==
    ASSUME IInv, UNCHANGED reader,
           \A f \in Files : f \in DOMAIN dir' <=> f \in DOMAIN dir,
           \A f \in Files \intersect DOMAIN dir : dir'[f] = dir[f],
           \A i : Published(i) => inodes'[i] = inodes[i]
    PROVE  UNCHANGED <<Values, Views>>
<1>1. \A i : Published(i) => ValueOf(i)' = ValueOf(i)
    BY DEF ValueOf
<1>2. UNCHANGED Values
  <2>1. \A f \in Files \intersect DOMAIN dir : ValueOf(dir[f])' = ValueOf(dir[f])
      BY DEF IInv, Targets, ValueOf
  <2> QED BY <2>1 DEF Values
<1>3. UNCHANGED Views
  <2>1. \A r \in Readers : reader[r] # Closed => ValueOf(reader[r].inode)' = ValueOf(reader[r].inode)
      BY DEF IInv, Reading, ValueOf
  <2> QED BY <2>1 DEF Views
<1> QED BY <1>2, <1>3
\* AtomicFile's initial states, and its steps, in terms of the map.
LEMMA InitShows == Init => AF!Init
<1> SUFFICES ASSUME Init PROVE AF!Init
    OBVIOUS
<1>1. \A f \in Files : f \notin DOMAIN dir
    BY DEF Init
<1>2. \A r \in Readers : reader[r] = Closed
    BY DEF Init
<1> QED BY <1>1, <1>2 DEF AF!Init

\* The rename replaces the target by the content of the call.
LEMMA RenameShows ==
    ASSUME IInv, NEW t \in Threads, Rename(t)
    PROVE  \/ UNCHANGED <<Values, Views>>
           \/ \E f \in Files, c \in Contents : Values' = [Values EXCEPT ![f] = c] /\ UNCHANGED Views
<1>0. /\ writer[t] \in Jobs /\ writer[t].file \in Files /\ writer[t].content \in Contents
      /\ TempOf(t) \notin Files
    BY JobTyped DEF IInv, Rename, Jobs
<1>1. CASE Goto(t, "remove") /\ UNCHANGED dir
    BY <1>1, NothingShows DEF Rename
<1>2. CASE dir' = [m \in (DOMAIN dir \ {TempOf(t)}) \union {writer[t].file} |->
                       IF m = writer[t].file THEN dir[TempOf(t)] ELSE dir[m]]
  <2> DEFINE fd == writer[t].fd
             f == writer[t].file
             c == writer[t].content
  <2>1. dir[TempOf(t)] = fd
      BY <1>0, StagedWhole DEF IInv, Staging, Owns, Staged, Rename
  <2>2. ValueOf(fd) = c
    <3>1. writer[t].left = 0 /\ inodes[fd] = [i \in 1 .. Chunks - writer[t].left |-> c]
        BY DEF IInv, Progress, Rename
    <3>2. Chunks \in Nat /\ Chunks >= 1 /\ 1 \in 1 .. Chunks
        BY AtomicWriteAssumption
    <3>3. inodes[fd] = [i \in 1 .. Chunks |-> c]
        BY <3>1, <3>2
    <3> QED BY <3>2, <3>3 DEF ValueOf
  <2>3. \A i : ValueOf(i)' = ValueOf(i)
      BY DEF ValueOf, Rename
  <2>4. UNCHANGED Views
      BY <2>3 DEF Views, Rename
  <2>5. \A g \in Files : Values'[g] = IF g = f THEN c ELSE Values[g]
    <3>1. \A g \in Files : g \in DOMAIN dir' <=> g = f \/ g \in DOMAIN dir
        BY <1>0, <1>2
    <3>2. \A g \in Files : g # f /\ g \in DOMAIN dir => dir'[g] = dir[g]
        BY <1>0, <1>2
    <3>3. dir'[f] = fd
        BY <1>0, <1>2, <2>1
    <3>4. \A g \in Files : Values'[g] = IF g \in DOMAIN dir' THEN ValueOf(dir'[g]) ELSE Absent
        BY <2>3 DEF Values
    <3> QED BY <1>0, <2>2, <3>1, <3>2, <3>3, <3>4 DEF Values
  <2>6. Values' = [Values EXCEPT ![f] = c]
    <3>1. Values' = [g \in Files |-> Values'[g]] /\ Values = [g \in Files |-> Values[g]]
        BY DEF Values
    <3> HIDE DEF f, c
    <3> QED BY <2>5, <3>1
  <2> QED BY <1>0, <2>4, <2>6
<1> QED BY <1>1, <1>2 DEF Rename
\* Opening a file looks at its value, closing it leaves.
LEMMA ReaderShows ==
    ASSUME IInv, NEW r \in Readers, ReadOpen(r) \/ ReadChunk(r) \/ ReadClose(r)
    PROVE  \/ UNCHANGED <<Values, Views>>
           \/ \E f \in Files : /\ Views[r] = Absent /\ Values[f] # Absent
                               /\ Views' = [Views EXCEPT ![r] = Values[f]] /\ UNCHANGED Values
           \/ Views' = [Views EXCEPT ![r] = Absent] /\ UNCHANGED Values
<1>0. UNCHANGED <<dir, inodes>>
    BY DEF ReadOpen, ReadChunk, ReadClose
<1>1. UNCHANGED Values /\ \A i : ValueOf(i)' = ValueOf(i)
    BY <1>0 DEF Values, ValueOf
<1>2. Views = [q \in Readers |-> Views[q]] /\ Views' = [q \in Readers |-> Views'[q]]
    BY DEF Views
<1>3. \A q \in Readers : reader'[q] = reader[q] => Views'[q] = Views[q]
    BY <1>1 DEF Views
<1>4. CASE ReadOpen(r)
  <2>1. PICK f \in Files \intersect DOMAIN dir :
            reader' = [reader EXCEPT ![r] = [inode |-> dir[f], got |-> <<>>]]
      BY <1>4 DEF ReadOpen
  <2>2. reader'[r] = [inode |-> dir[f], got |-> <<>>] /\ \A q \in Readers \ {r} : reader'[q] = reader[q]
      BY <2>1 DEF IInv, TypeOK
  <2>3. Published(dir[f]) /\ dir[f] # 0 /\ ValueOf(dir[f]) # Absent
    <3>1. Published(dir[f])
        BY DEF IInv, Targets
    <3>2. dir[f] \in 1 .. Len(inodes) /\ Len(inodes) \in Nat /\ ValueOf(dir[f]) # Absent
        BY <3>1, PublishedHolds DEF IInv, TypeOK
    <3> QED BY <3>1, <3>2
  <2>4. reader'[r] # Closed /\ reader'[r].inode = dir[f]
      BY <2>2, <2>3 DEF Closed
  <2>5. Views[r] = Absent /\ Values[f] = ValueOf(dir[f]) /\ Views'[r] = Values[f]
      BY <1>1, <1>4, <2>4 DEF Views, Values, ReadOpen
  <2>6. Views' = [Views EXCEPT ![r] = Values[f]]
      BY <1>2, <1>3, <2>2, <2>5
  <2> QED BY <1>1, <2>3, <2>5, <2>6
<1>5. CASE ReadChunk(r)
  <2> DEFINE x == [reader[r] EXCEPT !.got = Append(@, inodes[reader[r].inode][Len(@) + 1])]
  <2>1. reader'[r] = x /\ \A q \in Readers \ {r} : reader'[q] = reader[q]
      BY <1>5 DEF ReadChunk, IInv, TypeOK
  <2>2. reader[r] \in [inode : 0 .. Len(inodes), got : Seq(Contents)]
      BY DEF IInv, TypeOK
  <2>3. x.inode = reader[r].inode
      BY <2>2
  <2>4. reader[r].inode # 0 /\ reader[r] # Closed
    <3>1. reader[r] # Closed /\ Published(reader[r].inode)
        BY <1>5 DEF ReadChunk, IInv, Reading
    <3>2. reader[r].inode \in 1 .. Len(inodes) /\ Len(inodes) \in Nat
        BY <3>1 DEF Published, IInv, TypeOK
    <3> QED BY <3>1, <3>2
  <2>5. x # Closed
      BY <2>3, <2>4 DEF Closed
  <2> HIDE DEF x
  <2>6. Views'[r] = Views[r]
      BY <1>1, <2>1, <2>3, <2>4, <2>5 DEF Views
  <2> QED BY <1>1, <1>2, <1>3, <2>1, <2>6
<1>6. CASE ReadClose(r)
  <2>1. reader'[r] = Closed /\ \A q \in Readers \ {r} : reader'[q] = reader[q]
      BY <1>6 DEF ReadClose, IInv, TypeOK
  <2>2. Views'[r] = Absent
      BY <2>1 DEF Views
  <2> QED BY <1>1, <1>2, <1>3, <2>1, <2>2
<1> QED BY <1>4, <1>5, <1>6

\* No other step of a writer shows, nor does a process that dies.
LEMMA WriterShowsNothing ==
    ASSUME IInv, NEW t \in Threads, Call(t) \/ PickName(t) \/ Open(t) \/ Write(t) \/ Remove(t)
    PROVE  UNCHANGED <<Values, Views>>
<1>1. CASE Call(t) \/ PickName(t)
    BY <1>1, NothingShows DEF Call, PickName
<1>2. CASE Open(t)
  <2>1. TempOf(t) \notin Files
      BY <1>2, JobTyped DEF IInv, Open
  <2>2. CASE UNCHANGED <<dir, inodes>>
      BY <1>2, <2>2, NothingShows DEF Open
  <2>3. CASE inodes' = Append(inodes, <<>>) /\ dir' = Link(TempOf(t), Len(inodes) + 1)
    <3>1. \A i : Published(i) => inodes'[i] = inodes[i]
        BY <2>3 DEF Published, IInv, TypeOK
    <3>2. \A m : m # TempOf(t) => /\ m \in DOMAIN dir' <=> m \in DOMAIN dir
                                  /\ m \in DOMAIN dir => dir'[m] = dir[m]
        BY <2>3 DEF Link
    <3> QED BY <1>2, <2>1, <3>1, <3>2, NothingShows DEF Open
  <2> QED BY <1>2, <2>2, <2>3 DEF Open
<1>3. CASE Write(t)
  <2>1. \A i : Published(i) => i # writer[t].fd
      BY <1>3 DEF Published, Staged, Write
  <2>2. CASE UNCHANGED inodes
      BY <1>3, <2>2, NothingShows DEF Write
  <2>3. CASE inodes' = [inodes EXCEPT ![writer[t].fd] = Append(@, writer[t].content)]
    <3>1. \A i : Published(i) => i \in DOMAIN inodes
        BY DEF Published, IInv, TypeOK
    <3>2. \A i : Published(i) => inodes'[i] = inodes[i]
        BY <2>1, <2>3, <3>1
    <3> QED BY <1>3, <3>2, NothingShows DEF Write
  <2> QED BY <1>3, <2>2, <2>3 DEF Write
<1>4. CASE Remove(t)
  <2>1. TempOf(t) \notin Files
      BY <1>4, JobTyped DEF IInv, Remove
  <2>2. CASE UNCHANGED dir
      BY <1>4, <2>2, NothingShows DEF Remove
  <2>3. CASE dir' = Unlink(TempOf(t))
    <3>1. \A m : m # TempOf(t) => /\ m \in DOMAIN dir' <=> m \in DOMAIN dir
                                  /\ m \in DOMAIN dir => dir'[m] = dir[m]
        BY <2>3 DEF Unlink, Restrict
    <3> QED BY <1>4, <2>1, <3>1, NothingShows DEF Remove
  <2> QED BY <1>4, <2>2, <2>3 DEF Remove
<1> QED BY <1>1, <1>2, <1>3, <1>4

\* Every step is a step of AtomicFile or shows nothing.
LEMMA StepShows ==
    ASSUME IInv, [Next]_vars
    PROVE  [AF!Next]_<<Values, Views>>
<1>1. CASE UNCHANGED vars
    BY <1>1 DEF vars, Values, Views, ValueOf
<1>2. CASE \E t \in Threads : Call(t) \/ Step(t)
    BY <1>2, WriterShowsNothing, RenameShows DEF Step, AF!Next, AF!Replace, Values, Views
<1>3. CASE \E p \in Processes : Crash(p)
    BY <1>3, NothingShows DEF Crash
<1>4. CASE \E r \in Readers : ReadOpen(r) \/ ReadChunk(r) \/ ReadClose(r)
    BY <1>4, ReaderShows DEF AF!Next, AF!Look, AF!Leave, Values, Views
<1> QED BY <1>1, <1>2, <1>3, <1>4 DEF Next

\* atomic_write keeps what AtomicFile promises: whatever runs, fails or dies, a
\* file goes from one whole content to another at once, in the rename.
THEOREM AtomicWriteImplementsAtomicFile == Spec => AtomicFileSpec
<1>1. Init => AF!Init
    BY InitShows
<1>2. IInv /\ [Next]_vars => [AF!Next]_<<Values, Views>>
    BY StepShows
<1> QED BY <1>1, <1>2, InductiveInvariant, PTL DEF Spec, AtomicFileSpec, AF!Spec, Values, Views
=============================================================================
