SPECIFICATION FairSpec
CONSTANTS
  Byte <- MCByte
  Uninit = Uninit
  MinChunk = 2
  Writes <- MCWrites
  Boxes <- MCBoxes
  Capacities <- MCCapacities
  Reservations <- MCReservations
  MaxCapacity = 6
INVARIANTS TypeOK CapacityAccounting FrontValid Initialized
PROPERTIES ImplementsPrependQueue KeepsBackChunk PlanHonoured AllocationDoubles AdvanceReturns
