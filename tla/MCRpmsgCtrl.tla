----------------------------- MODULE MCRpmsgCtrl ------------------------------
(***************************************************************************)
(* Model-checking instances of RpmsgCtrl.                                  *)
(***************************************************************************)
EXTENDS RpmsgCtrl, TLC

CtrlSymmetry ==
  Permutations(Ctrls) \cup Permutations(Eptdevs) \cup Permutations(Files)
=============================================================================
