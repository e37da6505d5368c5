SPECIFICATION FairReaderSpec
CONSTANTS
  Byte <- MCByte
  Uninit = Uninit
  MinChunk = 2
  Writes <- MCWrites
  Boxes <- MCBoxes
  Capacities <- MCCapacities
  Reservations = {}
  MaxCapacity = 6
INVARIANTS CopiesContent SlicesSpellContent
PROPERTIES CopyEnds
