SPECIFICATION Spec
CONSTANTS
  MaxMessages = 2
  MaxBreaks = 3
INVARIANTS TypeOK MessagesAccounted
PROPERTY EveryMessageLeaves
