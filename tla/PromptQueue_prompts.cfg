SPECIFICATION Spec
CONSTANTS
  Messages = {m1, m2, m3}
  NoMessage = NoMessage
  Faults = {"prompt", "turn", "replay"}
  MaxExtras = 2
SYMMETRY MessageSymmetry
INVARIANTS TypeOK NothingLost
PROPERTIES EditedStays DeliverySpec
CHECK_DEADLOCK FALSE
