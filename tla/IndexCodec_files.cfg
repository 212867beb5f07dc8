\* Six indexes, one of which write_index refuses, cut at every place, with
\* another header or altered to another index.
CONSTANTS
  Indexes <- SomeIndexes
  Foreign <- ForeignIndexes
  MaxString = 2
  MaxDims = 2
  GroupAlignment = 16
  MemberAlignment = 8
  DtypeTokens <- Tokens
SPECIFICATION Spec
CHECK_DEADLOCK FALSE
INVARIANTS
  DamageNoticed
  GroupsFoundAgain
