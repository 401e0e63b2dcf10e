SPECIFICATION BusSpec
CONSTANTS
  Consumers <- MCConsumers
  Groups <- MCGroups
  GroupOf <- MCGroupOf
  Keys <- MCKeys
  PartitionOf <- MCPartitionOf
  MaxAttempts = 2
  MaxPublished = 2
  MaxStops = 1
INVARIANTS
  InMemoryTypeOK
  EachGroupHasOneCopy
  FirstDeliveriesInOrder
PROPERTIES
  EveryEventIsFinished
CHECK_DEADLOCK FALSE
