SPECIFICATION Spec
CONSTANTS
  total_blocks = 55
  Name = {"a", "along", "b"}
  Stored <- MCStored
  Slots = 2
  EntriesPerSector = 1
  MaxFds = 1
  MaxPosition = 3
  MaxOps = 4
INVARIANT NoSpaceWhenFull
