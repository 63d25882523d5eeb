----------------------------- MODULE MCScanner -------------------------------
(***************************************************************************)
(* Model-checking the scanner.                                              *)
(***************************************************************************)
EXTENDS Scanner
=============================================================================
