------------------------------- MODULE MCMemMap -------------------------------
(***************************************************************************)
(* Model-checking instance of MemMap with the library on top of it.        *)
(***************************************************************************)
EXTENDS LibMem, TLC

ThreadSymmetry == Permutations(Threads)
=============================================================================
