\* Two converters and a reader on one path, on two pids or on one reused pid, with
\* exceptions anywhere and two kills or power losses.
CONSTANTS
  d0 = d0
  d1 = d1
  Writers = {w1, w2}
  Pids = {p1, p2}
  Old = Old
  None = None
  DataFiles = {d0, d1}
  Index = index
  Meta = meta
  GroupFile <- TwoGroups
  Listing <- EntryOrder
  StorePath = store
  MayRaise = TRUE
  MaxFaults = 2
SPECIFICATION ReaderSpec
CONSTRAINT ReaderBound
INVARIANTS
  TypeOK
  WriterInv
  PublishedDataSurvives
  TmpBelongsToRunning
  ReadsFinishedStores
PROPERTIES
  PublishesWhole
  ReplacementFirst
