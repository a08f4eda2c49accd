---------------------------- MODULE MCRpmsgChannel ----------------------------
(***************************************************************************)
(* Model-checking instances of RpmsgChannel: one service name, two remote  *)
(* addresses, a client driver for the name and rpmsg_chrdev, which serves  *)
(* it only through driver_override.                                        *)
(***************************************************************************)
EXTENDS RpmsgChannel, TLC

CONSTANTS echo, client, client2, chrdev

MCServes == [d \in Drivers |-> IF d = chrdev THEN {} ELSE {echo}]

\* Memory is interchangeable.
ChannelSymmetry == Permutations(Chans) \cup Permutations(Epts)
=============================================================================
