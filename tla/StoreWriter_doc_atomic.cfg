\* One converter that replaces a store, with exceptions, no crash.
CONSTANTS
  d0 = d0
  d1 = d1
  Writers = {w1}
  Pids = {p1}
  Old = Old
  None = None
  DataFiles = {d0, d1}
  Index = index
  Meta = meta
  GroupFile <- ThreeGroups
  Listing <- EntryOrder
  StorePath = store
  MayRaise = TRUE
  MaxFaults = 0
SPECIFICATION Spec
INVARIANT ConversionIsAtomic
