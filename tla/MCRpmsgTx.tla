------------------------------ MODULE MCRpmsgTx ------------------------------
(***************************************************************************)
(* Model-checking instances of RpmsgTx.                                    *)
(***************************************************************************)
EXTENDS RpmsgTx, TLC

\* The senders are interchangeable; used for safety runs only.
SenderSymmetry == Permutations(Senders)
=============================================================================
