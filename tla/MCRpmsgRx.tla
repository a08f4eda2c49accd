------------------------------ MODULE MCRpmsgRx ------------------------------
(***************************************************************************)
(* Model-checking instances of RpmsgRx.                                    *)
(***************************************************************************)
EXTENDS RpmsgRx, TLC

\* Endpoint objects and buffers are interchangeable; safety runs only.
RxSymmetry == Permutations(Epts) \cup Permutations(RxBufs)
=============================================================================
