SPECIFICATION Spec
\* Base and Heads are small enough for carries, borrows and changes of head,
\* and large enough that MaxCalls drops do not run out of keys.
CONSTANTS
  Base = 3
  Heads = 2
  MaxRules = 3
  MaxCalls = 3
  NoAnswer = NoAnswer
  StartKeys <- MCStartKeys
PROPERTY NeighboursAscend
\* The user stops after MaxCalls operations.
CHECK_DEADLOCK FALSE
