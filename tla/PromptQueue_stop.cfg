SPECIFICATION Spec
CONSTANTS
  Messages = {m1, m2, m3}
  NoMessage = NoMessage
  Faults = {}
  MaxExtras = 1
SYMMETRY MessageSymmetry

PROPERTY BusyNeverDrains
CHECK_DEADLOCK FALSE
