------------------------------- MODULE MCFiles -------------------------------
(***************************************************************************)
(* A small instance of Files for TLC.                                      *)
(***************************************************************************)
EXTENDS Files, TLC

\* User processes are alike, and so are blocks of memory.
Symmetry == Permutations(Proc \ {Initproc}) \cup Permutations(Table)
=============================================================================
