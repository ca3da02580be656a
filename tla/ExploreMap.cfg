SPECIFICATION Spec
CONSTANTS
  Vertical <- MCVertical
  Box <- MCBox
  Compass <- MCCompass
INVARIANTS
  ClearFindsNearestFrontier
  DeferredDirectionsComeLast
  DivePrefersDescent
  RoutesHomeAreShortest
CHECK_DEADLOCK FALSE
