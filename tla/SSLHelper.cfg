SPECIFICATION FairSpec
CONSTANTS
  Conns = {c1, c2}
  Capacity = 2
  Lengths = {1, 3}
  AnswerLength = 1
  SizeModulus = 16
  IntModulus = 8
  MaxParts = 1
  MaxMore = 1
INVARIANTS
  TypeOK
  ReadsInsideBuffer
PROPERTIES
  RequestServed
CHECK_DEADLOCK FALSE
