----------------------------- MODULE MCReaders ------------------------------
(***************************************************************************)
(* The two readers over every event stream of few open collections.         *)
(***************************************************************************)
EXTENDS Readers
=============================================================================
