\* One reader, two writers with two writes, one opener.
CONSTANTS
  Readers = {r1}
  Writers = {w1, w2}
  Openers = {o1}
  MaxWrites = 2
SPECIFICATION HelloSpec
 
PROPERTIES ReadReturns
