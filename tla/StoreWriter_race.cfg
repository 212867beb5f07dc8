\* Three converters racing on one path without exceptions or crashes.
CONSTANTS
  d0 = d0
  d1 = d1
  Writers = {w1, w2, w3}
  Pids = {p1, p2}
  Old = Old
  None = None
  DataFiles = {d0}
  Index = index
  Meta = meta
  GroupFile <- TwoGroups
  Listing <- ThreeEntries
  StorePath = store
  MayRaise = FALSE
  MaxFaults = 0
SPECIFICATION RaceSpec
PROPERTY RaceLeavesAStore
