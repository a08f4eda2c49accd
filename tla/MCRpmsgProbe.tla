----------------------------- MODULE MCRpmsgProbe -----------------------------
(***************************************************************************)
(* Model-checking instances of RpmsgProbe.                                 *)
(***************************************************************************)
EXTENDS RpmsgProbe, TLC

\* The devices are interchangeable.
DeviceSymmetry == Permutations(Device)
=============================================================================
