\* Two majors to hand out, one to ask for.  Deadlock is not checked: after the
\* last load and its removal nothing is left to happen.
CONSTANTS
  DynMajors = {2, 3}
  GivenMajors <- MCGivenMajors
  GivenMinors <- MCGivenMinors
  Span = 4
  MaxLoads = 2
  MaxFaults = 1
SPECIFICATION Spec
CHECK_DEADLOCK FALSE
   
PROPERTY RegionsKept
