SPECIFICATION Spec
CONSTANTS
  Hash <- MCHash
  Zero = 0
  MaxIdx = 3
  MaxLeaves = 2
  MaxStack = 3
INVARIANTS
  TypeOK
  NoSlotLost
PROPERTIES
  AllocateTakesFreeSlot
  GrowsOnlyWhenFull
  RefreshKeepsSlots
CHECK_DEADLOCK FALSE
