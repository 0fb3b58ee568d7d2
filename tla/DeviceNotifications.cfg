SPECIFICATION Spec
CHECK_DEADLOCK FALSE
CONSTANTS
  Device = {d1, d2}
  MaxEvents = 5
INVARIANT NotifiesArrivals
