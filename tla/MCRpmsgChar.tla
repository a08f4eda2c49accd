----------------------------- MODULE MCRpmsgChar ------------------------------
(***************************************************************************)
(* Model-checking instances of RpmsgChar.                                  *)
(***************************************************************************)
EXTENDS RpmsgChar, TLC

CharSymmetry == Permutations(Threads) \cup Permutations(Epts) \cup Permutations(Files)
=============================================================================
