------------------------------ MODULE MCHelloDev ------------------------------
(***************************************************************************)
(* Model-checking instances of HelloDev.                                   *)
(***************************************************************************)
EXTENDS HelloDev, TLC

\* Readers are interchangeable, and so are writers; used for safety runs only.
HelloSymmetry == Permutations(Readers) \cup Permutations(Writers)
=============================================================================
