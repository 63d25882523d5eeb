----------------------------- MODULE AtomicFile ------------------------------
(***************************************************************************)
(* What src/safe_io.rs promises of a write: each file changes from one      *)
(* whole content to another at once, so a reader sees the old content or    *)
(* the new one, whatever runs or dies meanwhile.                            *)
(***************************************************************************)
CONSTANTS Files, Readers, Contents, Absent

VARIABLES
    value,  \* the content of each file, or Absent
    view    \* the content each reader is looking at, or Absent

Init ==
    /\ value = [f \in Files |-> Absent]
    /\ view = [r \in Readers |-> Absent]

Replace(f, c) == value' = [value EXCEPT ![f] = c] /\ UNCHANGED view
Look(r, f) ==
    /\ view[r] = Absent /\ value[f] # Absent
    /\ view' = [view EXCEPT ![r] = value[f]] /\ UNCHANGED value
Leave(r) == view' = [view EXCEPT ![r] = Absent] /\ UNCHANGED value

Next ==
    \/ \E f \in Files, c \in Contents : Replace(f, c)
    \/ \E r \in Readers : Leave(r) \/ \E f \in Files : Look(r, f)
Spec == Init /\ [][Next]_<<value, view>>
=============================================================================
