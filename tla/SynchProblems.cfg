CONSTANTS
  c1 = c1
  c2 = c2
  c3 = c3
  c4 = c4
  Nobody = Nobody
  Cars <- MCCars
  NMATING = 2
SPECIFICATION MenuSpec
INVARIANTS OneCarPerQuadrant NoGridlock NoFullMatchWaits
PROPERTIES EveryCarGetsThrough FirstMatchHappens
CHECK_DEADLOCK FALSE
