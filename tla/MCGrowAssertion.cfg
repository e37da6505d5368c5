SPECIFICATION Spec
CONSTANTS
  Byte <- MCByte
  Uninit = Uninit
  MinChunk = 2
  Writes <- MCWrites
  Boxes <- MCBoxes
  Capacities <- MCCapacities
  Reservations <- MCReservations
  MaxCapacity = 6
PROPERTY GrowsFromValidIndex
