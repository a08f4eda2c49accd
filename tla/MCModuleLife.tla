----------------------------- MODULE MCModuleLife -----------------------------
(***************************************************************************)
(* Model-checking instance of ModuleLife: any two loads, of two modules or *)
(* twice of one, with at most one call failing for want of memory.         *)
(***************************************************************************)
EXTENDS ModuleLife

\* The modules with parameters are given a number on the command line, or none,
\* and two of them a minor number too.
MCGivenMajors == [m \in Modules |-> IF m \in Parameterised THEN {0, 1} ELSE {0}]
MCGivenMinors == [m \in Modules |-> IF m \in {"CharDriver", "IrqRegist"} THEN {0, 2} ELSE {0}]
=============================================================================
